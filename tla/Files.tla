------------------------------- MODULE Files -------------------------------
(***************************************************************************)
(* The descriptor table (kernel/src/fs/mod.rs) over the nodes of Vfs, the  *)
(* socket table and the keyboard's queue: what each call of the layer does *)
(* to them.  Session has the clients that make the calls.                  *)
(*                                                                         *)
(* Devices ignore a file's offset, so it is kept for initrd and /proc      *)
(* files only.                                                             *)
(*                                                                         *)
(* An operator named X_Variant is a deliberately wrong variant of X, there *)
(* to show that the properties of Session notice it.                       *)
(***************************************************************************)
EXTENDS Vfs, Sockets

CONSTANTS
  MAX_FDS,      \* descriptors of the table (64 in the code)
  ProcTexts     \* what a /proc file may read as

ASSUME FilesAssumption ==
  MAX_FDS \in Nat /\ MAX_FDS >= 3 /\ ProcTexts \subseteq Seq(STRING)

VARIABLES
  nodes,        \* the initrd tree
  fds,          \* FD_TABLE
  socks,        \* SOCKETS
  kbd,          \* the keyboard's queue
  taken,        \* all keys read from it so far
  held,         \* the descriptors the client opened: inode and bytes read
  ret, buf      \* what the last call returned, and the bytes it read

tables == <<fds, socks, held>>
fsvars == <<nodes, tables, kbd, taken, ret, buf>>

errno == [Io |-> -5, NotFound |-> -2, PermissionDenied |-> -13, NotDir |-> -20,
          IsDir |-> -21, InvalidArg |-> -22, NoSpace |-> -28]
-----------------------------------------------------------------------------
(* The descriptor layer.                                                   *)

\* What a descriptor may name; a free one names nothing.
Kinds == Devices \cup {"devdir", "procdir", "proc", "node", "sock", "none"}

File(inode) == [inode |-> inode, offset |-> 0]
NoFile      == File(Inode("none", 0))
Fd          == 0..(MAX_FDS - 1)

IsOpen(fd) == fd + 1 \in DOMAIN fds /\ fds[fd + 1] # NoFile
InodeOf(fd) == fds[fd + 1].inode

holes_Any == DOMAIN fds
holes == {i \in DOMAIN fds : fds[i] = NoFile}

HasRoom_OneMore == holes # {} \/ Len(fds) <= MAX_FDS
HasRoom == holes # {} \/ Len(fds) < MAX_FDS
FreeFd  == IF holes # {} THEN Min(holes) - 1 ELSE Len(fds)

install(inode) ==
  IF FreeFd < Len(fds) THEN [fds EXCEPT ![FreeFd + 1] = File(inode)]
  ELSE Append(fds, File(inode))

\* What open answers for a resolved inode or a resolve error.
Answer(inode) ==
  IF inode.kind \in DOMAIN errno THEN errno[inode.kind]
  ELSE IF HasRoom THEN FreeFd ELSE errno["NoSpace"]

open(inode) ==
  /\ ret' = Answer(inode)
  /\ buf' = <<>>
  /\ IF ret' < 0 THEN UNCHANGED <<fds, held>>
     ELSE /\ fds' = install(inode)
          /\ held' = [g \in DOMAIN held \cup {ret'} |->
                        IF g \in DOMAIN held THEN held[g] ELSE [inode |-> inode, got |-> <<>>]]

At(p) == resolve(nodes, p.abs, p.comps)

\* The bytes a read of at most n may return; console and null have none.
Part(bytes, offset, n) == SubSeq(bytes, offset + 1, Min({offset + n, Len(bytes)}))

Readable(f, n) ==
  CASE f.inode.kind = "node" -> {Part(nodes[f.inode.at].data, f.offset, n)}
    [] f.inode.kind = "proc" -> {Part(t, f.offset, n) : t \in ProcTexts}
    [] f.inode.kind = "zero" -> {[i \in 1..n |-> "0"]}
    [] f.inode.kind = "kbd"  -> {Part(kbd, 0, n)}
    [] f.inode.kind = "sock" ->
         {IF Queue(socks, f.inode.at) = <<>> THEN <<>>
          ELSE Part(Head(Queue(socks, f.inode.at)), 0, n)}
    [] OTHER -> {<<>>}

Fails(err) == ret' = errno[err] /\ buf' = <<>>

read(fd, n) ==
  IF ~IsOpen(fd) THEN Fails("InvalidArg") /\ UNCHANGED <<tables, kbd, taken>>
  ELSE LET f == fds[fd + 1] IN
    IF f.inode.kind \in {"devdir", "procdir"}
    THEN Fails("PermissionDenied") /\ UNCHANGED <<tables, kbd, taken>>
    ELSE \E data \in Readable(f, n) :
      /\ buf' = data /\ ret' = Len(data)
      /\ fds' = IF f.inode.kind \in {"node", "proc"}
                  THEN [fds EXCEPT ![fd + 1].offset = @ + Len(data)] ELSE fds
      /\ held' = [g \in DOMAIN held |-> IF g = fd THEN [held[g] EXCEPT !.got = @ \o data] ELSE held[g]]
      /\ socks' = IF f.inode.kind = "sock" THEN recvfrom(socks, f.inode.at) ELSE socks
      /\ IF f.inode.kind = "kbd"
           THEN kbd' = SubSeq(kbd, Len(data) + 1, Len(kbd)) /\ taken' = taken \o data
           ELSE UNCHANGED <<kbd, taken>>

\* Programs run before the network card is up: a datagram cannot be sent.
Written(inode, n) ==
  CASE inode.kind \in {"console", "null", "zero"} -> n
    [] inode.kind = "sock" /\ Live(socks, inode.at) ->
         IF socks[inode.at].peer = NoPeer \/ socks[inode.at].proto # "udp"
           THEN errno["InvalidArg"] ELSE errno["Io"]
    [] inode.kind = "sock" /\ ~Live(socks, inode.at) -> errno["InvalidArg"]
    [] OTHER -> errno["PermissionDenied"]

write(fd, n) ==
  /\ ret' = IF IsOpen(fd) THEN Written(InodeOf(fd), n) ELSE errno["InvalidArg"]
  /\ buf' = <<>>
  /\ UNCHANGED tables

Forget(fd) == [g \in DOMAIN held \ {fd} |-> held[g]]

close_fd(fd) ==
  IF IsOpen(fd)
    THEN /\ fds' = [fds EXCEPT ![fd + 1] = NoFile]
         /\ held' = Forget(fd)
         /\ ret' = 0 /\ buf' = <<>>
    ELSE Fails("InvalidArg") /\ UNCHANGED <<fds, held>>

\* sock_index: the socket behind a descriptor, for bind and connect.
sock_index(fd) == IF IsOpen(fd) /\ InodeOf(fd).kind = "sock" THEN InodeOf(fd).at ELSE 0

\* net::socket plus install_inode; the socket stays when the table is full.
new_socket(proto) ==
  /\ socks' = socket(socks, proto)
  /\ open(Inode("sock", Place(socks)))

fs_init(tree) ==
  /\ nodes' = tree
  /\ fds' = [i \in 1..3 |-> File(Inode("console", 0))]
  /\ UNCHANGED <<socks, held, kbd, taken, ret, buf>>

FilesInit ==
  /\ nodes = <<>> /\ fds = <<>> /\ socks = <<>> /\ kbd = <<>> /\ taken = <<>>
  /\ held = <<>> /\ ret = 0 /\ buf = <<>>
=============================================================================
