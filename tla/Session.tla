------------------------------ MODULE Session ------------------------------
(***************************************************************************)
(* The clients of the descriptor table, in the order of boot: the file     *)
(* self-tests and the user programs (kernel/src/main.rs, kernel/src/       *)
(* syscall/mod.rs), the keyboard and socket demos, and then the shell task *)
(* (kernel/src/shell.rs) with the keyboard interrupt (kernel/src/drivers/  *)
(* keyboard.rs).                                                           *)
(*                                                                         *)
(* One client is active at a time.  System calls run with interrupts off,  *)
(* and so does boot after the first program's exit; the keyboard may       *)
(* interrupt a program, the file self-tests and the shell.  A command line *)
(* is a key: "c" is cat, "n" is net, "x" is exit; every other line prints  *)
(* something or nothing.                                                   *)
(*                                                                         *)
(* An operator named X_Variant is a deliberately wrong variant of X, there *)
(* to show that the properties below notice it.                            *)
(***************************************************************************)
EXTENDS Files

CONSTANTS
  Archives,     \* bound: the initrd archives, as lists of [path, dir, data]
  Paths,        \* bound: the paths a program opens, [abs, comps]
  CatPaths,     \* bound: the paths cat opens
  Keys,         \* bound: the keys a user types; "nl" and "bs" are special
  Demo,         \* the keys phase7_demo injects ("hello" in the code)
  FdArgs,       \* bound: the descriptor numbers a program passes
  ReadLens,     \* bound: buffer lengths of a program's reads
  CatBuf,       \* cmd_cat's buffer (256 in the code)
  Scratch,      \* fs_cat's buffer (256 in the code)
  ShellBuf,     \* the shell's buffer (32 in the code)
  Lead, Trail,  \* the bytes that begin and that end a two-byte character
  IdleMax,      \* empty reads after which the shell gives up (200 in the code)
  Script,       \* the keys phase8_setup injects
  MaxIrqs, MaxCats, MaxPrograms, MaxCalls   \* bounds

ASSUME SessionAssumption ==
  /\ {CatBuf, Scratch, ShellBuf} \subseteq Nat \ {0}
  /\ ReadLens \subseteq Nat /\ FdArgs \subseteq Nat
  /\ {IdleMax, MaxIrqs, MaxCats, MaxPrograms, MaxCalls} \subseteq Nat
  /\ Keys \subseteq STRING /\ Demo \in Seq(STRING) /\ Script \in Seq(STRING)

VARIABLES
  archive,          \* the archive in the kernel image
  left,             \* history: the console's descriptors and what programs leave open
  pc,               \* where the active client stands
  klock, hung,      \* KEYBOARD's lock is held; IRQ1 spins on it
  typed,            \* all keys typed or injected so far
  cat,              \* cat in progress: descriptor, limit, output, return point
  shfd, line, chunk, idle,     \* the shell's locals: fd, line, buf, idle
  seen,             \* the keys the shell has acted on
  irqs, cats, progs, calls    \* how much of each bound is used

keys   == <<klock, hung, typed>>
locals == <<shfd, line, chunk, idle, seen>>
counts == <<irqs, cats, progs, calls>>
all    == <<fsvars, archive, left, pc, keys, cat, locals, counts>>

Nobody == <<>>     \* no descriptor held
NoCat  == [fd |-> 0, limit |-> 0, out |-> <<>>, back |-> "none"]
Kbd    == Inode("kbd", 0)
Opened == {fd \in Fd : IsOpen(fd)}
-----------------------------------------------------------------------------
(* open, read to the end, close: fs_cat stops when its buffer is full and  *)
(* decodes what is in it; cmd_cat reads until there is nothing more and    *)
(* decodes every piece by itself.                                          *)

\* core::str::from_utf8(s) is Ok: no character is cut.
from_utf8(s) ==
  \A i \in DOMAIN s :
    /\ s[i] \in Lead  => i < Len(s) /\ s[i + 1] \in Trail
    /\ s[i] \in Trail => i > 1 /\ s[i - 1] \in Lead

decode(s, instead) == IF from_utf8(s) THEN s ELSE <<instead>>

cat_open(p, limit, back) ==
  /\ open(At(p))
  /\ cats' = cats + 1
  /\ IF ret' < 0 THEN pc' = back /\ UNCHANGED cat
     ELSE /\ pc' = "cat"
          /\ cat' = [fd |-> ret', limit |-> limit, out |-> <<>>, back |-> back]
  /\ UNCHANGED <<nodes, socks, kbd, taken>>

Want == IF cat.limit > 0 THEN cat.limit - Len(cat.out) ELSE CatBuf

\* One more piece: fs_cat keeps its bytes, cmd_cat its text.
Piece(b) == IF cat.limit > 0 THEN b ELSE decode(b, "<binary>")

\* What is printed in the end.
Printed == IF cat.limit > 0 THEN decode(cat.out, "<non-utf8>") ELSE cat.out

cat_read_Once ==
  /\ pc = "cat" /\ ~hung
  /\ read(cat.fd, Want)
  /\ cat' = [cat EXCEPT !.out = @ \o Piece(buf')]
  /\ pc' = "catend"
  /\ UNCHANGED <<nodes, archive, left, keys, locals, counts>>
cat_read ==
  /\ pc = "cat" /\ ~hung
  /\ IF Want = 0 THEN pc' = "catend" /\ UNCHANGED <<fsvars, cat>>
     ELSE /\ read(cat.fd, Want)
          /\ cat' = [cat EXCEPT !.out = @ \o Piece(buf')]
          /\ pc' = IF ret' <= 0 THEN "catend" ELSE pc
          /\ UNCHANGED nodes
  /\ UNCHANGED <<archive, left, keys, locals, counts>>

cat_close_BufferFull ==
  /\ pc = "catend" /\ ~hung
  /\ IF Want = 0 THEN UNCHANGED <<fds, held, ret, buf>> ELSE close_fd(cat.fd)
  /\ pc' = cat.back
  /\ cat' = NoCat
  /\ UNCHANGED <<nodes, socks, kbd, taken, archive, left, keys, locals, counts>>
cat_close ==
  /\ pc = "catend" /\ ~hung
  /\ close_fd(cat.fd)
  /\ pc' = cat.back
  /\ cat' = NoCat
  /\ UNCHANGED <<nodes, socks, kbd, taken, archive, left, keys, locals, counts>>
-----------------------------------------------------------------------------
(* Boot up to the scheduler.                                               *)

\* The tree of every archive the kernel image may hold.
Trees == [a \in Archives |-> from_tar(Pack(a))]

\* The archives parse into trees with a root, and a path leads to an inode of
\* the tree or to an error.
ASSUME TreesAssumption ==
  \A a \in Archives :
    /\ Trees[a] \in Seq(Nodes) /\ Trees[a] # <<>>
    /\ \A p \in Paths \cup CatPaths : resolve(Trees[a], p.abs, p.comps) \in Inodes(Trees[a])

boot_fs ==
  /\ pc = "off"
  /\ fs_init(Trees[archive])
  /\ pc' = "boot"
  /\ UNCHANGED <<archive, left, keys, cat, locals, counts>>

fs_cat ==
  /\ pc = "boot" /\ progs = 0 /\ ~hung /\ cats < MaxCats
  /\ \E p \in CatPaths : cat_open(p, Scratch, "boot")
  /\ UNCHANGED <<archive, left, keys, locals, irqs, progs, calls>>

run_user ==
  /\ pc = "boot" /\ ~hung /\ progs < MaxPrograms
  /\ pc' = "user" /\ progs' = progs + 1
  /\ UNCHANGED <<fsvars, archive, left, keys, cat, locals, irqs, cats, calls>>

\* One system call of the program; MaxCalls bounds those of all programs.
sys_socket == \E proto \in {"udp", "tcp"} : new_socket(proto) /\ UNCHANGED <<kbd, taken>>

sys_bind(fd) ==
  /\ IF Live(socks, sock_index(fd))
       THEN ret' = 0 /\ buf' = <<>> /\ socks' = bind(socks, sock_index(fd), 1)
       ELSE Fails("InvalidArg") /\ UNCHANGED socks
  /\ UNCHANGED <<fds, held, kbd, taken>>

sys_connect(fd) ==
  /\ IF Live(socks, sock_index(fd))
       THEN ret' = 0 /\ buf' = <<>> /\ socks' = connect(socks, sock_index(fd), 1)
       ELSE Fails("InvalidArg") /\ UNCHANGED socks
  /\ UNCHANGED <<fds, held, kbd, taken>>

syscall_dispatch ==
  /\ pc = "user" /\ calls < MaxCalls
  /\ \/ \E p \in Paths : open(At(p)) /\ UNCHANGED <<socks, kbd, taken>>
     \/ sys_socket
     \/ ret' = -3 /\ buf' = <<>> /\ UNCHANGED <<tables, kbd, taken>>
     \/ \E fd \in FdArgs :
          \/ \E n \in ReadLens : read(fd, n)
          \/ \E n \in ReadLens : write(fd, n) /\ UNCHANGED <<kbd, taken>>
          \/ close_fd(fd) /\ UNCHANGED <<socks, kbd, taken>>
          \/ sys_bind(fd)
          \/ sys_connect(fd)
  /\ calls' = calls + 1
  /\ UNCHANGED <<nodes, archive, left, pc, keys, cat, locals, irqs, cats, progs>>

\* exit leaves the descriptors as they are.
sys_exit ==
  /\ pc = "user"
  /\ pc' = "boot"
  /\ left' = Opened
  /\ held' = Nobody /\ ret' = 0 /\ buf' = <<>>
  /\ UNCHANGED <<nodes, fds, socks, kbd, taken, archive, keys, cat, locals, counts>>

\* phase7_demo injects keys and reads them back through a descriptor.
FreedAgain == IF FreeFd < Len(fds) THEN fds ELSE Append(fds, NoFile)

phase7_demo ==
  LET pending == kbd \o Demo IN
  /\ pc = "boot" /\ progs = MaxPrograms /\ ~hung
  /\ typed' = typed \o Demo
  /\ IF HasRoom
       THEN /\ fds' = FreedAgain
            /\ taken' = taken \o Part(pending, 0, 16)
            /\ kbd' = SubSeq(pending, 17, Len(pending))
       ELSE kbd' = pending /\ UNCHANGED <<fds, taken>>
  /\ pc' = "net"
  /\ UNCHANGED <<nodes, socks, held, ret, buf, archive, left, klock, hung, cat, locals, counts>>

\* One datagram to a new socket that is bound to the port, and its receipt.
Bound(t, port) == bind(socket(t, "udp"), Place(t), port)
Given(t, port) == deliver(t, port, <<"datagram">>)

\* net::demo: udp::demo closes its socket; socket::demo closes the descriptor
\* only, and gets none when the table is full.
net_demo(t) ==
  \E u \in {Bound(t, 9999)} : \E v \in {Given(u, 9999)} :
  \E w \in {close(recvfrom(v, Place(t)), Place(t))} :
  \E x \in {Bound(w, 5555)} : \E y \in {Given(x, 5555)} :
    IF HasRoom THEN socks' = recvfrom(y, Place(w)) /\ fds' = FreedAgain
    ELSE socks' = y /\ UNCHANGED fds

\* phase8_setup: net::init clears the table; then the demos and the script.
phase8_setup ==
  /\ pc = "net"
  /\ net_demo(<<>>)
  /\ kbd' = kbd \o Script /\ typed' = typed \o Script
  /\ pc' = "sh"
  /\ UNCHANGED <<nodes, held, taken, ret, buf, archive, left, klock, hung, cat, locals, counts>>
-----------------------------------------------------------------------------
(* The shell task.                                                         *)

sh_open ==
  /\ pc = "sh" /\ ~hung
  /\ open(Kbd)
  /\ shfd' = ret'
  /\ pc' = IF ret' < 0 THEN "done" ELSE "shread"
  /\ UNCHANGED <<nodes, socks, kbd, taken, archive, left, keys, cat, line, chunk, idle, seen, counts>>

\* fs::read of /dev/kbd, one read_key at a time: the lock, then the key.
read_key_lock ==
  /\ pc = "shread" /\ ~klock /\ ~hung
  /\ klock' = TRUE
  /\ UNCHANGED <<fsvars, archive, left, pc, hung, typed, cat, locals, counts>>

read_key_Newest ==
  /\ pc = "shread" /\ klock /\ ~hung
  /\ klock' = FALSE
  /\ chunk' = IF kbd = <<>> THEN chunk ELSE Append(chunk, kbd[Len(kbd)])
  /\ kbd' = IF kbd = <<>> THEN kbd ELSE SubSeq(kbd, 1, Len(kbd) - 1)
  /\ pc' = IF kbd # <<>> /\ Len(chunk') < ShellBuf THEN pc
           ELSE IF chunk' = <<>> THEN "shidle" ELSE "shkeys"
  /\ UNCHANGED <<nodes, tables, taken, ret, buf, archive, left, hung, typed, cat, shfd, line, idle, seen, counts>>
read_key ==
  /\ pc = "shread" /\ klock /\ ~hung
  /\ klock' = FALSE
  /\ IF kbd = <<>> THEN UNCHANGED <<kbd, chunk>>
     ELSE kbd' = Tail(kbd) /\ chunk' = Append(chunk, Head(kbd))
  /\ pc' = IF kbd # <<>> /\ Len(chunk') < ShellBuf THEN pc
           ELSE IF chunk' = <<>> THEN "shidle" ELSE "shkeys"
  /\ UNCHANGED <<nodes, tables, taken, ret, buf, archive, left, hung, typed, cat, shfd, line, idle, seen, counts>>

\* Nothing to read: sleep, which may never return, and give up after IdleMax
\* tries.
sh_idle_Restart ==
  /\ pc = "shidle" /\ ~hung
  /\ idle' = (idle + 1) % (IdleMax + 1)
  /\ pc' = "shread"
  /\ UNCHANGED <<fsvars, archive, left, keys, cat, shfd, line, chunk, seen, counts>>
sh_idle ==
  /\ pc = "shidle" /\ ~hung
  /\ idle' = idle + 1
  /\ pc' = IF idle' > IdleMax THEN "shclose" ELSE "shread"
  /\ UNCHANGED <<fsvars, archive, left, keys, cat, shfd, line, chunk, seen, counts>>

eval(l) ==
  \/ /\ l = <<"c">>
     /\ \E p \in CatPaths : cat_open(p, 0, "shkeys")
  \/ /\ l = <<"n">>
     /\ net_demo(socks)
     /\ UNCHANGED <<nodes, held, kbd, taken, ret, buf, cat, pc, cats>>
  \/ /\ l = <<"x">>
     /\ pc' = "shclose"
     /\ UNCHANGED <<fsvars, cat, cats>>
  \/ /\ l \notin {<<"c">>, <<"n">>, <<"x">>}
     /\ UNCHANGED <<fsvars, cat, pc, cats>>

sh_key ==
  /\ pc = "shkeys" /\ chunk # <<>> /\ ~hung
  /\ idle' = 0
  /\ chunk' = Tail(chunk) /\ seen' = Append(seen, Head(chunk))
  /\ \/ Head(chunk) = "nl" /\ line' = <<>> /\ eval(line)
     \/ /\ Head(chunk) # "nl"
        /\ line' = IF Head(chunk) # "bs" THEN Append(line, Head(chunk))
                   ELSE IF line = <<>> THEN line ELSE SubSeq(line, 1, Len(line) - 1)
        /\ UNCHANGED <<fsvars, cat, pc, cats>>
  /\ UNCHANGED <<archive, left, keys, shfd, irqs, progs, calls>>

sh_again ==
  /\ pc = "shkeys" /\ chunk = <<>> /\ ~hung
  /\ pc' = "shread"
  /\ UNCHANGED <<fsvars, archive, left, keys, cat, locals, counts>>

sh_close ==
  /\ pc = "shclose" /\ ~hung
  /\ close_fd(shfd)
  /\ pc' = "done"
  /\ UNCHANGED <<nodes, socks, kbd, taken, archive, left, keys, cat, locals, counts>>
-----------------------------------------------------------------------------
\* IRQ1: the handler takes KEYBOARD's lock, which the code it interrupts may hold.
interrupt_handler ==
  /\ ~hung /\ irqs < MaxIrqs
  /\ pc # "off" /\ (pc \in {"boot", "net"} => progs = 0)
  /\ irqs' = irqs + 1
  /\ IF klock THEN hung' = TRUE /\ UNCHANGED <<kbd, typed>>
     ELSE \E k \in Keys : kbd' = Append(kbd, k) /\ typed' = Append(typed, k) /\ UNCHANGED hung
  /\ UNCHANGED <<nodes, tables, taken, ret, buf, archive, left, pc, klock, cat, locals, cats, progs, calls>>

SessionInit ==
  /\ FilesInit
  /\ archive \in Archives /\ left = {0, 1, 2}
  /\ pc = "off" /\ klock = FALSE /\ hung = FALSE /\ typed = <<>> /\ cat = NoCat
  /\ shfd = 0 /\ line = <<>> /\ chunk = <<>> /\ idle = 0 /\ seen = <<>>
  /\ irqs = 0 /\ cats = 0 /\ progs = 0 /\ calls = 0

Step ==
  \/ boot_fs \/ fs_cat \/ run_user \/ syscall_dispatch \/ sys_exit
  \/ phase7_demo \/ phase8_setup \/ cat_read \/ cat_close
  \/ sh_open \/ read_key_lock \/ read_key \/ sh_idle \/ sh_key \/ sh_again \/ sh_close

\* The shell task is over, or the core spins in the handler.
Ended == (pc = "done" \/ hung) /\ UNCHANGED all

SessionNext == Step \/ interrupt_handler \/ Ended

\* No fairness: a client that the scheduler does not run, that sleeps for ever or
\* that waits for a lock takes no step, and nothing here says that it will.
SessionSpec == SessionInit /\ [][SessionNext]_all
-----------------------------------------------------------------------------
SessionTypeOK ==
  /\ Len(fds) <= MAX_FDS
  /\ \A i \in DOMAIN fds : fds[i] \in [inode : [kind : Kinds, at : Nat], offset : Nat]
  /\ DOMAIN held \subseteq Fd
  /\ ret \in Int
  /\ idle \in 0..(IdleMax + 1)
  /\ Len(chunk) <= ShellBuf

\* Between open and close a descriptor denotes the inode it was opened on, no
\* other open takes its number, and the reads so far returned the first bytes of
\* the file in order, each once.
HeldFilesStay ==
  \A fd \in DOMAIN held :
    /\ IsOpen(fd) /\ InodeOf(fd) = held[fd].inode
    /\ InodeOf(fd).kind = "node" =>
         held[fd].got = SubSeq(nodes[InodeOf(fd).at].data, 1, fds[fd + 1].offset)

\* A program's socket descriptors have sockets of their own.
SocketsNotShared ==
  \A a, b \in {fd \in DOMAIN held : held[fd].inode.kind = "sock"} :
    /\ Live(socks, held[a].inode.at)
    /\ held[a].inode.at = held[b].inode.at => a = b

\* No key is lost, doubled or overtaken between the interrupt handler and the
\* clients that read /dev/kbd.
KeysReachShell == typed = taken \o seen \o chunk \o kbd

\* The kernel's own clients close what they open: between them, and once the
\* shell has ended, the descriptors in use are the console's and those that
\* programs left open, also when the table is full.  About fs_cat, phase7_demo,
\* socket::demo, cmd_cat and the shell, which share one table with programs
\* whose exit closes nothing.
ClientsCloseFiles == pc \in {"boot", "net", "sh", "done"} => Opened = left

\* cmd_cat prints the file piece by piece, CatBuf bytes each, all of them and in
\* order, with "<binary>" for a piece that is no text by itself: a file is printed
\* as it is unless a character lies across two pieces.  fs_cat prints as much as
\* its buffer holds, or "<non-utf8>" when that ends inside a character.
CatPrintsFile ==
  pc = "catend" /\ InodeOf(cat.fd).kind = "node" =>
    LET data == nodes[InodeOf(cat.fd).at].data
        text[k \in Nat] ==
          IF k = 0 THEN <<>>
          ELSE text[k - 1] \o decode(Part(data, (k - 1) * CatBuf, CatBuf), "<binary>")
    IN  Printed = IF cat.limit = 0 THEN text[(Len(data) + CatBuf - 1) \div CatBuf]
                  ELSE decode(Part(data, 0, cat.limit), "<non-utf8>")

\* What make_initrd packs is what resolve finds under /initrd: the first entry
\* that has the path, or a directory some entry lies in, and nothing else.
ArchiveFaithful ==
  pc = "boot" /\ progs = 0 =>
    \A p \in UNION {{SubSeq(archive[i].path, 1, n) : n \in 0..Len(archive[i].path)} : i \in DOMAIN archive}
               \cup {<<nodes[i].name>> : i \in DOMAIN nodes} :
      LET under == {i \in DOMAIN archive : covers(p, archive[i].path)}
          found == resolve(nodes, TRUE, <<"initrd">> \o p)
      IN  IF under = {} THEN found.kind = "NotFound"
          ELSE /\ found.kind = "node"
               /\ LET e == archive[Min(under)] IN
                    /\ nodes[found.at].data = IF e.path = p THEN e.data ELSE <<>>
                    /\ nodes[found.at].dir = (e.path # p \/ e.dir)

\* ls and open agree: a directory lists exactly the names lookup finds in it.
ListedNamesResolve ==
  pc = "boot" /\ progs = 0 =>
    LET names == Devices \cup {"meminfo", "uptime", "kbd"} \cup {nodes[i].name : i \in DOMAIN nodes}
    IN  \A d \in {Inode("devdir", 0), Inode("procdir", 0)} \cup {Inode("node", i) : i \in DOMAIN nodes} :
          \A name \in names :
            name \in Range(list_dir(nodes, d)) <=> lookup(nodes, d, name).kind # "NotFound"

\* The clients come to an end: input says exit or dries up, every cat is over at
\* some point, and so the code of boot and of the shell makes finitely many steps.
\* (TLC's deadlock check adds that it has a next one until the shell is done, or a
\* key has arrived while the shell holds KEYBOARD's lock.)  Whether it gets to make
\* that step is not promised: a sleep may last for ever, and the holder of a lock
\* may be parked in the timer handler.
ShellEnds == <>[][~Step]_all
=============================================================================
