--------------------------- MODULE SessionProofs ---------------------------
(***************************************************************************)
(* Proofs about the clients of the descriptor table (Session), for every   *)
(* table size, buffer size, archive, path and key.                         *)
(*                                                                         *)
(* What the archives parse into and where the paths lead is taken from     *)
(* TreesAssumption, which is evaluated on the modelled archives.           *)
(***************************************************************************)
EXTENDS Session, FilesProofs

\* An open that is closed again at once leaves the descriptors as they were.
LEMMA InstalledAndClosed ==
  ASSUME FdsOK(fds), HasRoom
  PROVE  FdsOK(FreedAgain) /\ Table(FreedAgain) = Table(fds)
  <1>1. FreeFd \in Nat /\ Len(fds) \in Nat /\ Table(fds)[FreeFd] = NoFile
    BY FreeDescriptor, TableType DEF Fd
  <1>2. CASE FreeFd < Len(fds)
    BY <1>2 DEF FreedAgain
  <1>3. CASE ~(FreeFd < Len(fds))
    <2>1. FreeFd = Len(fds) /\ Len(fds) < MAX_FDS
      BY <1>1, <1>3, FreeDescriptor
    <2>2. FreedAgain = Append(fds, NoFile)
      BY <1>3 DEF FreedAgain
    <2>3. /\ FdsOK(FreedAgain)
          /\ Table(FreedAgain) = [Table(fds) EXCEPT ![Len(fds)] = NoFile]
      BY <2>1, <2>2, NoFileType, TablePush
    <2>4. [Table(fds) EXCEPT ![Len(fds)] = NoFile] = Table(fds)
      BY <1>1, <2>1, Zenon DEF Table
    <2> QED BY <2>3, <2>4
  <1> QED
    BY <1>2, <1>3

\* The three properties of Session about descriptors and sockets.
LEMMA FilesSafe == FilesOK => HeldFilesStay /\ SocketsNotShared /\ DOMAIN held \subseteq Fd
  <1> SUFFICES ASSUME FilesOK PROVE HeldFilesStay /\ SocketsNotShared /\ DOMAIN held \subseteq Fd
    OBVIOUS
  <1>1. ASSUME NEW fd \in DOMAIN held
        PROVE  /\ fd \in Fd /\ IsOpen(fd) /\ InodeOf(fd) = held[fd].inode
               /\ InodeOf(fd).kind = "node" =>
                    held[fd].got = SubSeq(nodes[InodeOf(fd).at].data, 1, fds[fd + 1].offset)
    <2>1. /\ fd \in Nat /\ Table(fds)[fd] # NoFile /\ Table(fds)[fd].inode = held[fd].inode
          /\ Table(fds)[fd].inode.kind = "node" =>
               held[fd].got = SubSeq(nodes[Table(fds)[fd].inode.at].data, 1, Table(fds)[fd].offset)
      BY DEF FilesOK, HeldIn
    <2>2. /\ IsOpen(fd) /\ fd \in Fd
          /\ fds[fd + 1] = Table(fds)[fd] /\ InodeOf(fd) = Table(fds)[fd].inode
      BY <2>1, OpenIsEntry DEF FilesOK
    <2> HIDE DEF IsOpen, InodeOf
    <2> QED BY <2>1, <2>2
  <1>2. HeldFilesStay /\ DOMAIN held \subseteq Fd
    BY <1>1 DEF HeldFilesStay
  <1>3. SocketsNotShared
    BY DEF FilesOK, OwnSockets, SocketsNotShared
  <1> QED
    BY <1>2, <1>3
-----------------------------------------------------------------------------
(* The clients.  Outside a program the descriptors held are the active     *)
(* client's own: the shell's, and cat's while it runs.                     *)

InCat   == pc \in {"cat", "catend"}
InShell == pc \in {"shread", "shidle", "shkeys", "shclose"} \/ (InCat /\ cat.back = "shkeys")

Mine == (IF InShell THEN {shfd} ELSE {}) \cup (IF InCat THEN {cat.fd} ELSE {})

Used(tab) == {fd \in Nat : tab[fd] # NoFile}

Where ==
  /\ pc \in {"off", "boot", "user", "net", "sh", "cat", "catend", "shread", "shidle", "shkeys", "shclose", "done"}
  /\ archive \in Archives
  /\ nodes = IF pc = "off" THEN <<>> ELSE Trees[archive]

Holding ==
  /\ pc # "user" => DOMAIN held = Mine
  /\ pc = "off" => left = {0, 1, 2}
  /\ pc \notin {"off", "user"} => Used(Table(fds)) = left \cup Mine /\ Mine \cap left = {}
  /\ InShell => held[shfd].inode = Kbd
  /\ InShell /\ InCat => shfd # cat.fd

CatType == [fd : Nat, limit : Nat, out : Seq(Octet), back : {"boot", "shkeys"}]

\* The number of bytes cat reads of a file.
Whole(limit, data) == IF limit = 0 THEN Len(data) ELSE Min({limit, Len(data)})

CatOK ==
  InCat =>
    /\ cat \in CatType
    /\ cat.limit > 0 => cat.out = held[cat.fd].got /\ Len(cat.out) <= cat.limit
    /\ pc = "catend" /\ Table(fds)[cat.fd].inode.kind = "node" =>
         Table(fds)[cat.fd].offset = Whole(cat.limit, nodes[Table(fds)[cat.fd].inode.at].data)

Reading ==
  /\ typed \in Seq(Octet) /\ seen \in Seq(Octet) /\ chunk \in Seq(Octet)
  /\ ~InShell /\ pc # "done" => chunk = <<>> /\ seen = <<>>
  /\ Len(chunk) <= ShellBuf
  /\ pc = "shread" => Len(chunk) < ShellBuf
  /\ pc = "shidle" => chunk = <<>>
  /\ idle \in 0..(IdleMax + 1)
  /\ pc \notin {"shclose", "done"} => idle <= IdleMax

\* No cat of the archives' paths reads the keyboard.
CatSparesKeyboard ==
  \A a \in Archives : \A p \in CatPaths : resolve(Trees[a], p.abs, p.comps).kind # "kbd"

CatKeys == CatSparesKeyboard /\ InCat => held[cat.fd].inode.kind # "kbd"

KeysOK == CatSparesKeyboard => KeysReachShell

\* The descriptors and their clients; then the shell's locals and the keys.
Base == FilesOK /\ Where /\ Holding /\ CatOK /\ CatKeys

Inv == Base /\ Reading /\ KeysOK

LEMMA OpenedIsUsed ==
  ASSUME FdsOK(fds)
  PROVE  Opened = Used(Table(fds))
  <1>1. \A fd \in Nat : (fd \in Fd /\ IsOpen(fd)) <=> Table(fds)[fd] # NoFile
    BY OpenIsEntry
  <1>2. Fd \subseteq Nat
    BY FilesAssumption DEF Fd, FilesAssumption
  <1> QED
    BY <1>1, <1>2, Zenon DEF Opened, Used

LEMMA TreeFacts ==
  ASSUME NEW a \in Archives
  PROVE  TreeOK(Trees[a])
  <1> DEFINE t == Trees[a]
  <1>1. t \in Seq(Nodes)
    BY TreesAssumption DEF TreesAssumption
  <1> HIDE DEF t
  <1>2. Len(t) \in Nat /\ DOMAIN t = 1..Len(t)
    BY <1>1, LenProperties
  <1>3. ASSUME NEW i \in DOMAIN t PROVE t[i].data \in Seq(Octet)
    <2>1. t[i] \in Nodes
      BY <1>1, <1>2, ElementOfSeq
    <2>2. t[i].data \in Seq(STRING) /\ STRING \subseteq Octet
      BY <2>1 DEF Nodes, Octet
    <2> QED BY <2>2, SeqMonotonic, Zenon
  <1>4. DOMAIN t \subseteq Nat
    BY <1>2
  <1> QED
    BY <1>3, <1>4 DEF TreeOK, t

LEMMA PathsLead ==
  ASSUME Where, pc # "off", NEW p \in Paths \cup CatPaths
  PROVE  /\ At(p) \in Openable /\ At(p).kind # "sock"
         /\ CatSparesKeyboard /\ p \in CatPaths => At(p).kind # "kbd"
  <1>1. At(p) = resolve(Trees[archive], p.abs, p.comps) /\ nodes = Trees[archive] /\ archive \in Archives
    BY DEF Where, At
  <1>2. At(p) \in Inodes(nodes)
    BY <1>1 , TreesAssumption DEF TreesAssumption
  <1>3. At(p).kind # "sock"
    BY <1>2 DEF Inodes, Devices
  <1> QED
    BY <1>1, <1>2, <1>3 DEF Openable, CatSparesKeyboard
-----------------------------------------------------------------------------
(* Each step keeps Base.                                                   *)

LEMMA SameTable ==
  ASSUME FilesOK, FdsOK(fds'), Table(fds') = Table(fds), UNCHANGED <<nodes, held>>,
         SocksOK(socks'), OwnSockets(held, socks'),
         kbd' \in Seq(Octet), taken' \in Seq(Octet), ret' \in Int, buf' \in Seq(Octet)
  PROVE  FilesOK'
  BY DEF FilesOK

\* net::demo leaves the table sound, and the descriptors as they were.
LEMMA NetDemo ==
  ASSUME FdsOK(fds), NEW t, SocksOK(t), net_demo(t)
  PROVE  SocksOK(socks') /\ FdsOK(fds') /\ Table(fds') = Table(fds)
  <1> DEFINE d == <<"datagram">>
  <1>1. d \in Seq(Octet) /\ "udp" \in {"udp", "tcp"} /\ 9999 \in Nat /\ 5555 \in Nat
    BY DEF Octet
  <1>2. ASSUME NEW u, SocksOK(u), NEW port \in Nat
        PROVE  SocksOK(Bound(u, port)) /\ SocksOK(Given(u, port))
    <2>1. SocksOK(socket(u, "udp"))
      BY <1>1, <1>2, NewSocket
    <2>2. SocksOK(bind(socket(u, "udp"), Place(u), port))
      BY <2>1, BindConnect DEF Keeps
    <2>3. SocksOK(deliver(u, port, d))
      <3> HIDE DEF d
      <3>1. Keeps(u, deliver(u, port, d))
        BY <1>1, <1>2, Delivered
      <3> QED BY <3>1 DEF Keeps
    <2> QED BY <2>2, <2>3 DEF Bound, Given
  <1> DEFINE u == Bound(t, 9999)
             v == Given(u, 9999)
             w == close(recvfrom(v, Place(t)), Place(t))
             x == Bound(w, 5555)
             y == Given(x, 5555)
  <1>3. IF HasRoom THEN socks' = recvfrom(y, Place(w)) /\ fds' = FreedAgain
        ELSE socks' = y /\ UNCHANGED fds
    BY DEF net_demo
  <1>4. SocksOK(u)
    BY <1>1, <1>2
  <1> HIDE DEF u
  <1>5. SocksOK(v)
    BY <1>1, <1>2, <1>4
  <1> HIDE DEF v
  <1>6. SocksOK(w)
    BY <1>5, Received, Closed DEF Keeps
  <1> HIDE DEF w
  <1>7. SocksOK(x)
    BY <1>1, <1>2, <1>6
  <1> HIDE DEF x
  <1>8. SocksOK(y)
    BY <1>1, <1>2, <1>7
  <1> HIDE DEF y
  <1>9. SocksOK(recvfrom(y, Place(w)))
    BY <1>8, Received DEF Keeps
  <1> QED
    BY <1>3, <1>8, <1>9, InstalledAndClosed

\* The steps that leave the descriptors and their clients alone.
LEMMA QuietBase ==
  ASSUME Base, UNCHANGED <<nodes, fds, socks, held, archive, left, cat, shfd>>,
         kbd' \in Seq(Octet), taken' \in Seq(Octet), ret' \in Int, buf' \in Seq(Octet),
         \/ pc' = pc
         \/ {pc, pc'} \subseteq {"shread", "shidle", "shkeys", "shclose"}
  PROVE  Base'
  <1>1. FilesOK'
    <2>1. Keeps(socks, socks')
      BY DEF Base, FilesOK, Keeps
    <2> QED BY <2>1, SameFiles DEF Base
  <1>2. InCat' = InCat /\ InShell' = InShell /\ Mine' = Mine
    BY DEF InCat, InShell, Mine
  <1>3. Where'
    BY DEF Base, Where
  <1>4. Holding'
    BY <1>2 DEF Base, Holding
  <1>5. CatOK'
    BY <1>2 DEF Base, CatOK, InCat
  <1>6. CatKeys'
    BY <1>2 DEF Base, CatKeys
  <1> QED
    BY <1>1, <1>3, <1>4, <1>5, <1>6 DEF Base

LEMMA InitBase == SessionInit => Base
  <1> SUFFICES ASSUME SessionInit PROVE Base
    OBVIOUS
  <1> USE DEF SessionInit, FilesInit
  <1>1. /\ nodes = <<>> /\ fds = <<>> /\ socks = <<>> /\ kbd = <<>> /\ taken = <<>> /\ buf = <<>>
        /\ held = <<>> /\ ret = 0 /\ pc = "off" /\ left = {0, 1, 2} /\ archive \in Archives
    OBVIOUS
  <1> USE DEF Base
  <1>2. DOMAIN held = {} /\ DOMAIN nodes = {} /\ Len(fds) = 0 /\ Len(socks) = 0
    BY <1>1
  <1>3. FdsOK(fds) /\ SocksOK(socks)
    BY <1>1, <1>2, EmptySeq, NoSlots, FilesAssumption DEF FdsOK, SocksOK, FilesAssumption
  <1>4. \A fd \in Nat : Table(fds)[fd] = NoFile
    BY <1>2 DEF Table
  <1>5. Offsets(Table(fds), nodes)
    BY <1>4, NoFileType DEF Offsets
  <1>6. FilesOK
    BY <1>1, <1>2, <1>3, <1>5, EmptySeq DEF FilesOK, TreeOK, HeldIn, OwnSockets
  <1>7. ~InCat /\ ~InShell /\ Mine = {}
    BY <1>1 DEF InCat, InShell, Mine
  <1>8. Where
    BY <1>1 DEF Where
  <1>9. Holding
    BY <1>1, <1>2, <1>7 DEF Holding
  <1>10. CatOK /\ CatKeys
    BY <1>7 DEF CatOK, CatKeys
  <1> QED
    BY <1>6, <1>8, <1>9, <1>10

LEMMA BootBase == Base /\ boot_fs => Base'
  <1> SUFFICES ASSUME Base, boot_fs PROVE Base'
    OBVIOUS
  <1>1. /\ pc = "off" /\ pc' = "boot" /\ nodes' = Trees[archive]
        /\ fds' = [i \in 1..3 |-> File(Inode("console", 0))]
        /\ UNCHANGED <<socks, held, kbd, taken, ret, buf, archive, left>>
    BY DEF boot_fs, fs_init
  <1>2. archive \in Archives /\ left = {0, 1, 2} /\ DOMAIN held = {}
    BY <1>1 DEF Base, Where, Holding, Mine, InShell, InCat
  <1> DEFINE c == File(Inode("console", 0))
  <1>3. c \in FileType /\ c # NoFile /\ c.inode.kind = "console"
    <2>1. Inode("console", 0) \in InodeType /\ Inode("console", 0).kind = "console"
      BY DEF Inode, InodeType, Kinds, Devices
    <2> QED BY <2>1, NoFileType DEF File, FileType
  <1> HIDE DEF c
  <1>4. fds' \in Seq(FileType) /\ Len(fds') = 3 /\ \A i \in 1..3 : fds'[i] = c
    <2>1. fds' = [i \in 1..3 |-> c] /\ fds' \in [1..3 -> FileType]
      BY <1>1, <1>3 DEF c
    <2>2. fds' \in Seq(FileType) /\ Len(fds') = 3
      BY <2>1, SeqDef
    <2> QED BY <2>1, <2>2
  <1>5. FdsOK(fds')
    <2>1. HasLeast(1)
      BY NoSlots, OneSlotMore
    <2>2. HasLeast(2)
      BY <2>1, OneSlotMore
    <2>3. HasLeast(3)
      BY <2>2, OneSlotMore
    <2> QED BY <1>4, <2>3, FilesAssumption DEF FdsOK, FilesAssumption
  <1>6. \A fd \in Nat : Table(fds')[fd] = IF fd \in {0, 1, 2} THEN c ELSE NoFile
    <2> SUFFICES ASSUME NEW fd \in Nat
                 PROVE  Table(fds')[fd] = IF fd \in {0, 1, 2} THEN c ELSE NoFile
      OBVIOUS
    <2>1. CASE fd \in {0, 1, 2}
      BY <1>4, <2>1 DEF Table
    <2>2. CASE fd \notin {0, 1, 2}
      <3>1. ~(fd + 1 <= 3)
        BY <2>2
      <3> QED BY <1>4, <2>2, <3>1 DEF Table
    <2> QED BY <2>1, <2>2
  <1>7. Offsets(Table(fds'), nodes')
    BY <1>3, <1>6, NoFileType DEF Offsets
  <1>8. FilesOK'
    <2>1. TreeOK(nodes')
      BY <1>1, <1>2, TreeFacts
    <2>2. HeldIn(Table(fds'), held', nodes') /\ OwnSockets(held', socks')
      BY <1>1, <1>2 DEF HeldIn, OwnSockets
    <2> QED BY <1>1, <1>5, <1>7, <2>1, <2>2 DEF Base, FilesOK
  <1>9. ~InCat' /\ ~InShell' /\ Mine' = {}
    BY <1>1 DEF InCat, InShell, Mine
  <1>10. Where'
    BY <1>1, <1>2 DEF Where
  <1>11. Used(Table(fds')) = {0, 1, 2}
    BY <1>3, <1>6 DEF Used
  <1>12. Holding'
    BY <1>1, <1>2, <1>9, <1>11 DEF Holding
  <1>13. CatOK' /\ CatKeys'
    BY <1>9 DEF CatOK, CatKeys
  <1> QED
    BY <1>8, <1>10, <1>12, <1>13 DEF Base

\* A cat that cannot open its file ends at once; one that can has a descriptor
\* of its own.
LEMMA CatOpenBase ==
  ASSUME Base, NEW p \in CatPaths, NEW limit \in Nat, pc \in {"boot", "shkeys"},
         cat_open(p, limit, pc), UNCHANGED <<archive, left, shfd>>
  PROVE  Base' /\ UNCHANGED <<kbd, taken>>
  <1> DEFINE tab == Table(fds)
             tab2 == Table(fds')
             inode == At(p)
  <1>1. /\ open(inode) /\ nodes' = nodes /\ socks' = socks /\ kbd' = kbd /\ taken' = taken
        /\ archive' = archive /\ left' = left /\ shfd' = shfd
    BY DEF cat_open
  <1>2. /\ inode \in Openable /\ inode.kind # "sock" /\ (CatSparesKeyboard => inode.kind # "kbd")
    BY PathsLead DEF Base
  <1>3. FilesOK /\ Where /\ Holding /\ ~InCat /\ Keeps(socks, socks')
    BY <1>1 DEF Base, InCat, Keeps, FilesOK
  <1> HIDE DEF inode
  <1>4. /\ FilesOK'
        /\ \/ ret' < 0 /\ UNCHANGED <<fds, held>>
           \/ inode \in InodeType /\ inode.kind # "none" /\ OpenedAs(inode)
    BY <1>1, <1>2, <1>3, OpenStep
  <1>5. CASE ret' < 0
    <2>1. pc' = pc /\ cat' = cat
      BY <1>5 DEF cat_open
    <2>2. fds' = fds /\ held' = held
      BY <1>4, <1>5, FilesAssumption DEF OpenedAs, Fd, FilesAssumption
    <2>3. kbd' \in Seq(Octet) /\ taken' \in Seq(Octet) /\ ret' \in Int /\ buf' \in Seq(Octet)
      BY <1>4 DEF FilesOK
    <2> QED BY <1>1, <2>1, <2>2, <2>3, QuietBase
  <1>6. CASE ~(ret' < 0)
    <2>1. /\ pc' = "cat" /\ cat' = [fd |-> ret', limit |-> limit, out |-> <<>>, back |-> pc]
      BY <1>6 DEF cat_open
    <2>2. OpenedAs(inode)
      BY <1>4, <1>6
    <2>3. /\ ret' \in Nat /\ tab[ret'] = NoFile /\ ret' \notin DOMAIN held
          /\ tab2 = [tab EXCEPT ![ret'] = File(inode)] /\ tab \in [Nat -> FileType]
          /\ DOMAIN held' = DOMAIN held \cup {ret'}
          /\ held'[ret'] = [inode |-> inode, got |-> <<>>]
          /\ \A g \in DOMAIN held : held'[g] = held[g]
      <3>1. tab \in [Nat -> FileType]
        BY <1>3, TableType DEF FilesOK
      <3>2. ret' \in Fd
        BY <2>2 DEF OpenedAs
      <3>3. ret' \in Nat
        BY <3>2, FilesAssumption DEF Fd, FilesAssumption
      <3> QED BY <2>2, <3>1, <3>3, Zenon DEF OpenedAs
    <2>4. /\ cat'.fd = ret' /\ cat'.limit = limit /\ cat'.out = <<>> /\ cat'.back = pc /\ cat' \in CatType
      BY <2>1, <2>3, EmptySeq DEF CatType
    <2>5. File(inode) # NoFile
      BY <1>4, <1>6, NoFileType DEF File
    <2>6. Used(tab2) = Used(tab) \cup {ret'} /\ ret' \notin Used(tab)
      <3> HIDE DEF tab, tab2
      <3> QED BY <2>3, <2>5 DEF Used
    <2>7. /\ InCat' /\ (InShell' <=> InShell)
          /\ Mine = (IF InShell THEN {shfd} ELSE {})
          /\ Mine' = Mine \cup {ret'}
      BY <1>1, <1>3, <2>1, <2>4 DEF InCat, InShell, Mine
    <2>8. /\ DOMAIN held = Mine /\ Used(tab) = left \cup Mine /\ Mine \cap left = {}
          /\ InShell => held[shfd].inode = Kbd
      BY <1>3 DEF Holding
    <2> HIDE DEF tab, tab2
    <2>9. Where'
      BY <1>1, <1>3, <2>1, Zenon DEF Where
    <2>10. Holding'
      <3>1. DOMAIN held' = Mine' /\ Used(tab2) = left' \cup Mine' /\ Mine' \cap left' = {}
        BY <1>1, <2>3, <2>6, <2>7, <2>8, Zenon
      <3>2. InShell => shfd \in DOMAIN held /\ shfd # ret'
        BY <2>3, <2>7, <2>8
      <3>3. InShell' => held'[shfd'].inode = Kbd
        BY <1>1, <2>3, <2>7, <2>8, <3>2
      <3>4. InShell' => shfd' # cat'.fd
        BY <1>1, <2>4, <2>7, <3>2
      <3> QED BY <2>1, <3>1, <3>3, <3>4 DEF Holding, tab2
    <2>13. held'[cat'.fd].inode = inode /\ held'[cat'.fd].got = <<>>
      <3>1. LET h == [inode |-> inode, got |-> <<>>] IN h.inode = inode /\ h.got = <<>>
        OBVIOUS
      <3> QED BY <2>3, <2>4, <3>1, Zenon
    <2>14. limit > 0 => Len(cat'.out) <= limit
      BY <2>4, EmptySeq
    <2>11. CatOK'
      BY <2>1, <2>4, <2>13, <2>14 DEF CatOK
    <2>12. CatKeys'
      BY <1>2, <2>13 DEF CatKeys
    <2> QED BY <1>1, <1>4, <2>9, <2>10, <2>11, <2>12 DEF Base
  <1> QED
    BY <1>5, <1>6

LEMMA RunBase == Base /\ run_user => Base'
  <1> SUFFICES ASSUME Base, run_user PROVE Base'
    OBVIOUS
  <1>1. /\ pc = "boot" /\ pc' = "user"
        /\ UNCHANGED <<nodes, fds, socks, held, kbd, taken, ret, buf, archive, left, cat, shfd>>
    BY DEF run_user, fsvars, tables, locals
  <1>2. ~InCat' /\ ~InShell'
    BY <1>1 DEF InCat, InShell
  <1>3. FilesOK'
    BY <1>1 DEF Base, FilesOK
  <1>4. Where'
    BY <1>1 DEF Base, Where
  <1>5. Holding' /\ CatOK' /\ CatKeys'
    BY <1>1, <1>2 DEF Holding, CatOK, CatKeys
  <1> QED
    BY <1>3, <1>4, <1>5 DEF Base

\* exit leaves the descriptors to `left`.
LEMMA ExitBase == Base /\ sys_exit => Base'
  <1> SUFFICES ASSUME Base, sys_exit PROVE Base'
    OBVIOUS
  <1>1. /\ pc = "user" /\ pc' = "boot" /\ left' = Opened
        /\ held' = <<>> /\ ret' = 0 /\ buf' = <<>>
        /\ UNCHANGED <<nodes, fds, socks, kbd, taken, archive>>
    BY DEF sys_exit, Nobody
  <1>2. ~InCat' /\ ~InShell' /\ Mine' = {} /\ DOMAIN held' = {}
    BY <1>1 DEF InCat, InShell, Mine
  <1>3. FilesOK'
    BY <1>1, <1>2, EmptySeq DEF Base, FilesOK, HeldIn, OwnSockets
  <1>4. Where'
    BY <1>1 DEF Base, Where
  <1>5. left' = Used(Table(fds'))
    BY <1>1, OpenedIsUsed DEF Base, FilesOK
  <1>6. Holding' /\ CatOK' /\ CatKeys'
    BY <1>1, <1>2, <1>5 DEF Holding, CatOK, CatKeys
  <1> QED
    BY <1>3, <1>4, <1>6 DEF Base

\* Every system call keeps the tables, and takes keys from the front only.
LEMMA CallFiles ==
  ASSUME Base, syscall_dispatch
  PROVE  FilesOK' /\ taken' \o kbd' = taken \o kbd
  <1>1. FilesOK /\ pc = "user" /\ nodes' = nodes
    BY DEF Base, syscall_dispatch
  <1>2. SocksOK(socks) /\ FdsOK(fds)
    BY <1>1 DEF FilesOK
  <1>3. Keeps(socks, socks)
    BY <1>2 DEF Keeps
  <1>4. ASSUME NEW p \in Paths, open(At(p)), UNCHANGED <<socks, kbd, taken>>
        PROVE  FilesOK' /\ taken' \o kbd' = taken \o kbd
    <2> DEFINE inode == At(p)
    <2>1. inode \in Openable /\ inode.kind # "sock"
      BY <1>1, PathsLead DEF Base
    <2>2. open(inode)
      BY <1>4
    <2> HIDE DEF inode
    <2>3. Keeps(socks, socks')
      BY <1>3, <1>4
    <2> QED BY <1>1, <1>4, <2>1, <2>2, <2>3, OpenStep
  <1>5. ASSUME sys_socket
        PROVE  FilesOK' /\ taken' \o kbd' = taken \o kbd
    <2>1. PICK proto \in {"udp", "tcp"} : new_socket(proto) /\ UNCHANGED <<kbd, taken>>
      BY <1>5 DEF sys_socket
    <2> DEFINE inode == Inode("sock", Place(socks))
    <2>2. socks' = socket(socks, proto) /\ open(inode)
      BY <2>1 DEF new_socket
    <2>3. /\ SocksOK(socks') /\ Place(socks) \in Nat /\ ~Live(socks, Place(socks)) /\ Live(socks', Place(socks))
          /\ \A j : Live(socks, j) => Live(socks', j)
      BY <1>2, <2>2, NewSocket
    <2>4. inode \in Openable /\ inode.at = Place(socks)
      BY <2>3 DEF Inode, Openable
    <2> HIDE DEF inode
    <2>5. Keeps(socks, socks')
      BY <2>3 DEF Keeps
    <2>6. inode.kind = "sock" => ~Live(socks, inode.at) /\ Live(socks', inode.at)
      BY <2>3, <2>4
    <2> QED BY <1>1, <2>1, <2>2, <2>4, <2>5, <2>6, OpenStep
  <1>6. ASSUME NEW fd \in Nat, NEW n \in Nat, read(fd, n)
        PROVE  FilesOK' /\ taken' \o kbd' = taken \o kbd
    BY <1>1, <1>6, ReadStep DEF ReadAs
  <1>7. ASSUME NEW fd \in Nat, NEW n \in Nat, write(fd, n), UNCHANGED <<kbd, taken>>
        PROVE  FilesOK' /\ taken' \o kbd' = taken \o kbd
    <2>1. /\ ret' = IF IsOpen(fd) THEN Written(InodeOf(fd), n) ELSE errno["InvalidArg"]
          /\ buf' = <<>> /\ fds' = fds /\ socks' = socks /\ held' = held
      BY <1>7 DEF write, tables
    <2>2. ret' \in Int
      BY <2>1, Writes, Errors
    <2> QED BY <1>1, <1>3, <1>7, <2>1, <2>2, Returned
  <1>8. ASSUME NEW fd \in Nat, close_fd(fd), UNCHANGED <<socks, kbd, taken>>
        PROVE  FilesOK' /\ taken' \o kbd' = taken \o kbd
    BY <1>1, <1>8, CloseStep
  <1>9. ASSUME NEW fd \in Nat, sys_bind(fd) \/ sys_connect(fd)
        PROVE  FilesOK' /\ taken' \o kbd' = taken \o kbd
    <2> DEFINE i == sock_index(fd)
    <2>1. /\ UNCHANGED <<fds, held, kbd, taken>> /\ buf' = <<>>
          /\ ret' = 0 \/ ret' = errno["InvalidArg"]
          /\ socks' \in {socks, bind(socks, i, 1), connect(socks, i, 1)}
      BY <1>9 DEF sys_bind, sys_connect, Fails
    <2>2. ret' \in Int
      BY <2>1, Errors
    <2>3. Keeps(socks, bind(socks, i, 1)) /\ Keeps(socks, connect(socks, i, 1))
      <3> HIDE DEF i
      <3> QED BY <1>2, BindConnect
    <2>4. Keeps(socks, socks')
      BY <1>3, <2>1, <2>3
    <2> QED BY <1>1, <2>1, <2>2, <2>4, Returned
  <1>10. ASSUME ret' = -3, buf' = <<>>, UNCHANGED <<tables, kbd, taken>>
         PROVE  FilesOK' /\ taken' \o kbd' = taken \o kbd
    <2>1. ret' \in Int /\ fds' = fds /\ socks' = socks /\ held' = held
      BY <1>10 DEF tables
    <2> QED BY <1>1, <1>3, <1>10, <2>1, Returned
  <1>11. FdArgs \subseteq Nat /\ ReadLens \subseteq Nat
    BY SessionAssumption DEF SessionAssumption
  <1>12. \/ \E p \in Paths : open(At(p)) /\ UNCHANGED <<socks, kbd, taken>>
         \/ sys_socket
         \/ ret' = -3 /\ buf' = <<>> /\ UNCHANGED <<tables, kbd, taken>>
         \/ \E fd \in FdArgs : \E n \in ReadLens : read(fd, n)
         \/ \E fd \in FdArgs : \E n \in ReadLens : write(fd, n) /\ UNCHANGED <<kbd, taken>>
         \/ \E fd \in FdArgs : close_fd(fd) /\ UNCHANGED <<socks, kbd, taken>>
         \/ \E fd \in FdArgs : sys_bind(fd) \/ sys_connect(fd)
    BY DEF syscall_dispatch
  <1> QED
    BY <1>4, <1>5, <1>6, <1>7, <1>8, <1>9, <1>10, <1>11, <1>12, Zenon

LEMMA CallBase == Base /\ syscall_dispatch => Base'
  <1> SUFFICES ASSUME Base, syscall_dispatch PROVE Base'
    OBVIOUS
  <1>1. pc = "user" /\ pc' = "user" /\ UNCHANGED <<nodes, archive>>
    BY DEF syscall_dispatch
  <1>2. ~InCat' /\ ~InShell'
    BY <1>1 DEF InCat, InShell
  <1>3. Where'
    BY <1>1 DEF Base, Where
  <1>4. Holding' /\ CatOK' /\ CatKeys'
    BY <1>1, <1>2 DEF Holding, CatOK, CatKeys
  <1> QED
    BY <1>3, <1>4, CallFiles DEF Base

\* A step of boot from pc to its next stage that leaves the descriptors as they
\* were: the demos.
LEMMA DemoBase ==
  ASSUME Base, FilesOK', UNCHANGED <<nodes, archive, left, held>>, Table(fds') = Table(fds),
         pc \in {"boot", "net"}, pc' \in {"net", "sh"}
  PROVE  Base'
  <1>1. /\ ~InCat /\ ~InShell /\ Mine = {}
        /\ ~InCat' /\ ~InShell' /\ Mine' = {}
    BY DEF InCat, InShell, Mine
  <1>2. Where'
    BY DEF Base, Where
  <1>3. Holding'
    BY <1>1 DEF Base, Holding
  <1>4. CatOK' /\ CatKeys'
    BY <1>1 DEF CatOK, CatKeys
  <1> QED
    BY <1>2, <1>3, <1>4 DEF Base

LEMMA Phase7Base == Base /\ phase7_demo => Base'
  <1> SUFFICES ASSUME Base, phase7_demo PROVE Base'
    OBVIOUS
  <1> DEFINE pending == kbd \o Demo
             rest == SubSeq(pending, 17, Len(pending))
  <1>1. /\ pc = "boot" /\ pc' = "net"
        /\ UNCHANGED <<nodes, socks, held, ret, buf, archive, left>>
        /\ \/ HasRoom /\ fds' = FreedAgain /\ taken' = taken \o Part(pending, 0, 16) /\ kbd' = rest
           \/ fds' = fds /\ taken' = taken /\ kbd' = pending
    BY DEF phase7_demo
  <1>2. FilesOK /\ FdsOK(fds) /\ kbd \in Seq(Octet) /\ taken \in Seq(Octet)
    BY DEF Base, FilesOK
  <1>3. Demo \in Seq(Octet)
    <2>1. Demo \in Seq(STRING) /\ STRING \subseteq Octet
      BY SessionAssumption DEF SessionAssumption, Octet
    <2> QED BY <2>1, SeqMonotonic, Zenon
  <1>4. pending \in Seq(Octet)
    BY <1>2, <1>3, Associative
  <1> HIDE DEF pending
  <1>5. Part(pending, 0, 16) \in Seq(Octet) /\ rest \in Seq(Octet)
    <2>1. Part(pending, 0, 16) \in Seq(Octet)
      BY <1>4, PartOf
    <2>2. Len(pending) \in Nat /\ \A i \in 1..Len(pending) : pending[i] \in Octet
      BY <1>4, LenProperties, ElementOfSeq
    <2>3. \A i \in 17..Len(pending) : pending[i] \in Octet
      BY <2>2
    <2>4. 17 \in Int /\ Len(pending) \in Int
      BY <2>2
    <2>5. rest \in Seq(Octet)
      BY <2>3, <2>4, SubSeqProperties
    <2> QED BY <2>1, <2>5
  <1> HIDE DEF rest
  <1>6. kbd' \in Seq(Octet) /\ taken' \in Seq(Octet)
    <2>1. taken \o Part(pending, 0, 16) \in Seq(Octet)
      BY <1>2, <1>5, ConcatProperties
    <2> QED BY <1>1, <1>2, <1>4, <1>5, <2>1, Zenon
  <1>7. FdsOK(fds') /\ Table(fds') = Table(fds)
    BY <1>1, <1>2, InstalledAndClosed
  <1>8. FilesOK'
    BY <1>1, <1>2, <1>6, <1>7, SameTable, Zenon DEF FilesOK
  <1> QED
    BY <1>1, <1>7, <1>8, DemoBase

LEMMA Phase8Base == Base /\ phase8_setup => Base'
  <1> SUFFICES ASSUME Base, phase8_setup PROVE Base'
    OBVIOUS
  <1>1. /\ pc = "net" /\ pc' = "sh" /\ net_demo(<<>>) /\ kbd' = kbd \o Script
        /\ UNCHANGED <<nodes, held, taken, ret, buf, archive, left>>
    BY DEF phase8_setup
  <1>2. FilesOK /\ FdsOK(fds) /\ kbd \in Seq(Octet) /\ taken \in Seq(Octet)
    BY DEF Base, FilesOK
  <1>3. Script \in Seq(Octet)
    <2>1. Script \in Seq(STRING) /\ STRING \subseteq Octet
      BY SessionAssumption DEF SessionAssumption, Octet
    <2> QED BY <2>1, SeqMonotonic, Zenon
  <1>4. kbd' \in Seq(Octet)
    BY <1>1, <1>2, <1>3, Associative
  <1>5. SocksOK(<<>>)
    BY EmptySeq, NoSlots DEF SocksOK
  <1>6. SocksOK(socks') /\ FdsOK(fds') /\ Table(fds') = Table(fds)
    BY <1>1, <1>2, <1>5, NetDemo
  <1>7. DOMAIN held = {}
    BY <1>1 DEF Base, Holding, Mine, InShell, InCat
  <1>8. OwnSockets(held, socks')
    BY <1>7 DEF OwnSockets
  <1>9. FilesOK'
    BY <1>1, <1>2, <1>4, <1>6, <1>8, SameTable, Zenon DEF FilesOK
  <1> QED
    BY <1>1, <1>6, <1>9, DemoBase

\* The shell's net command; the shell holds the keyboard only.
LEMMA NetBase ==
  ASSUME Base, pc = "shkeys", net_demo(socks),
         UNCHANGED <<nodes, held, kbd, taken, ret, buf, cat, pc, archive, left, shfd>>
  PROVE  Base'
  <1>1. FilesOK /\ FdsOK(fds) /\ SocksOK(socks)
    BY DEF Base, FilesOK
  <1>2. SocksOK(socks') /\ FdsOK(fds') /\ Table(fds') = Table(fds)
    BY <1>1, NetDemo
  <1>3. ~InCat /\ InShell /\ Mine = {shfd} /\ ~InCat' /\ InShell' /\ Mine' = {shfd}
    BY DEF InCat, InShell, Mine
  <1>4. DOMAIN held = {shfd} /\ held[shfd].inode.kind # "sock"
    BY <1>3 DEF Base, Holding, Kbd, Inode
  <1>5. OwnSockets(held, socks')
    BY <1>4 DEF OwnSockets
  <1>6. FilesOK'
    BY <1>1, <1>2, <1>5, SameTable DEF FilesOK
  <1>7. Where'
    BY Zenon DEF Base, Where
  <1>8. Holding'
    BY <1>2, <1>3 DEF Base, Holding
  <1>9. CatOK' /\ CatKeys'
    BY <1>3, Zenon DEF CatOK, CatKeys
  <1> QED
    BY <1>6, <1>7, <1>8, <1>9 DEF Base

\* cat's buffer has room for what it asks for, and fs_cat has the file up to the
\* descriptor's offset.
LEMMA CatProgress ==
  ASSUME Base, InCat
  PROVE  /\ cat.fd \in DOMAIN held /\ cat.fd \in Nat /\ cat.limit \in Nat /\ cat.out \in Seq(Octet)
         /\ cat.back \in {"boot", "shkeys"}
         /\ Want \in Nat /\ (cat.limit > 0 => Len(cat.out) + Want = cat.limit) /\ (cat.limit = 0 => Want > 0)
         /\ Table(fds)[cat.fd].inode.kind = "node" =>
              LET f == Table(fds)[cat.fd]
                  data == nodes[f.inode.at].data
              IN  /\ f.offset \in Nat /\ Len(data) \in Nat /\ f.offset <= Len(data)
                  /\ cat.limit > 0 => Len(cat.out) = f.offset
  <1>1. cat \in CatType /\ (cat.limit > 0 => cat.out = held[cat.fd].got /\ Len(cat.out) <= cat.limit)
    BY DEF Base, CatOK
  <1>2. cat.fd \in Nat /\ cat.limit \in Nat /\ cat.out \in Seq(Octet) /\ cat.back \in {"boot", "shkeys"}
    BY <1>1 DEF CatType
  <1>3. Len(cat.out) \in Nat
    BY <1>2, LenProperties
  <1>4. cat.fd \in DOMAIN held
    BY DEF Base, Holding, Mine, InCat
  <1>5. Want \in Nat /\ (cat.limit > 0 => Len(cat.out) + Want = cat.limit) /\ (cat.limit = 0 => Want > 0)
    <2>1. CatBuf \in Nat /\ CatBuf > 0
      BY SessionAssumption DEF SessionAssumption
    <2>2. CASE cat.limit > 0
      <3>1. Want = cat.limit - Len(cat.out)
        BY <2>2 DEF Want
      <3> QED BY <1>1, <1>2, <1>3, <2>2, <3>1
    <2>3. CASE ~(cat.limit > 0)
      BY <1>2, <2>1, <2>3 DEF Want
    <2> QED BY <2>2, <2>3
  <1>6. ASSUME Table(fds)[cat.fd].inode.kind = "node"
        PROVE  LET f == Table(fds)[cat.fd]
                   data == nodes[f.inode.at].data
               IN  /\ f.offset \in Nat /\ Len(data) \in Nat /\ f.offset <= Len(data)
                   /\ cat.limit > 0 => Len(cat.out) = f.offset
    <2> DEFINE f == Table(fds)[cat.fd]
               data == nodes[f.inode.at].data
    <2>1. /\ FdsOK(fds) /\ TreeOK(nodes) /\ Offsets(Table(fds), nodes) /\ HeldIn(Table(fds), held, nodes)
      BY DEF Base, FilesOK
    <2>2. f \in FileType
      BY <1>2, <2>1, TableType
    <2>3. f.offset \in Nat
      BY <2>2 DEF FileType
    <2>4. f.inode.at \in DOMAIN nodes /\ f.offset <= Len(data)
      BY <1>2, <1>6, <2>1, Zenon DEF Offsets
    <2>5. data \in Seq(Octet)
      BY <2>1, <2>4 DEF TreeOK
    <2>6. cat.limit > 0 => cat.out = SubSeq(data, 1, f.offset)
      BY <1>1, <1>4, <1>6, <2>1, Zenon DEF HeldIn
    <2>7. Len(data) \in Nat
      BY <2>5, LenProperties, Zenon
    <2> HIDE DEF data, f
    <2>8. Len(SubSeq(data, 1, f.offset)) = f.offset
      <3>1. Len(data) \in Nat /\ \A i \in 1..Len(data) : data[i] \in Octet
        BY <2>5, LenProperties, ElementOfSeq
      <3>2. \A i \in 1..f.offset : data[i] \in Octet
        BY <2>3, <2>4, <3>1
      <3>3. 1 \in Int /\ f.offset \in Int
        BY <2>3
      <3>4. Len(SubSeq(data, 1, f.offset)) = IF 1 <= f.offset THEN f.offset - 1 + 1 ELSE 0
        BY <3>2, <3>3, SubSeqProperties
      <3> QED BY <2>3, <3>4
    <2> QED BY <2>3, <2>4, <2>6, <2>7, <2>8, Zenon DEF data, f
  <1> QED
    BY <1>2, <1>4, <1>5, <1>6, Zenon

LEMMA PieceType ==
  ASSUME NEW b \in Seq(Octet) PROVE Piece(b) \in Seq(Octet)
  <1>1. <<"<binary>">> \in Seq(Octet)
    BY DEF Octet
  <1> QED
    BY <1>1, Zenon DEF Piece, decode

LEMMA CatReadBase ==
  ASSUME Base, cat_read
  PROVE  /\ Base'
         /\ taken' \o kbd' = taken \o kbd
         /\ CatSparesKeyboard => UNCHANGED <<kbd, taken>>
  <1> DEFINE fd == cat.fd
             f == Table(fds)[fd]
             f2 == Table(fds')[fd]
             data == nodes[f.inode.at].data
  <1>1. /\ pc = "cat" /\ pc' \in {"cat", "catend"} /\ nodes' = nodes /\ archive' = archive /\ left' = left /\ shfd' = shfd
        /\ InCat /\ InCat'
    BY DEF cat_read, fsvars, locals, InCat
  <1>2. FilesOK /\ Where /\ Holding /\ CatOK /\ CatKeys
    BY DEF Base
  <1>3. /\ fd \in DOMAIN held /\ fd \in Nat /\ cat.limit \in Nat /\ cat.out \in Seq(Octet)
        /\ cat.back \in {"boot", "shkeys"}
        /\ Want \in Nat /\ (cat.limit > 0 => Len(cat.out) + Want = cat.limit) /\ (cat.limit = 0 => Want > 0)
        /\ f.inode.kind = "node" => /\ f.offset \in Nat /\ Len(data) \in Nat /\ f.offset <= Len(data)
                                    /\ cat.limit > 0 => Len(cat.out) = f.offset
    BY <1>1, CatProgress, Zenon
  <1>4. Len(cat.out) \in Nat /\ (cat.limit > 0 => cat.out = held[fd].got) /\ cat \in CatType
    BY <1>1, <1>2, <1>3, LenProperties, Zenon DEF CatOK
  <1>5. Where'
    BY <1>1, <1>2 DEF Where
  <1>6. CASE Want = 0
    <2>1. /\ cat' = cat /\ fds' = fds /\ socks' = socks /\ held' = held
          /\ kbd' = kbd /\ taken' = taken /\ ret' = ret /\ buf' = buf /\ pc' = "catend"
      BY <1>6 DEF cat_read, fsvars, tables
    <2>2. FilesOK'
      BY <1>1, <1>2, <2>1 DEF FilesOK
    <2>3. InShell' = InShell /\ Mine' = Mine
      BY <1>1, <2>1 DEF InShell, Mine, InCat
    <2>4. Holding'
      BY <1>1, <1>2, <2>1, <2>3 DEF Holding
    <2>5. cat.limit > 0 /\ Len(cat.out) = cat.limit
      <3> DEFINE l == cat.limit
                 o == Len(cat.out)
                 w == Want
      <3>1. l \in Nat /\ o \in Nat /\ w = 0 /\ (l > 0 => o + w = l) /\ (l = 0 => w > 0)
        BY <1>3, <1>4, <1>6, Zenon
      <3> HIDE DEF l, o, w
      <3>2. l > 0 /\ o = l
        BY <3>1
      <3> QED BY <3>2 DEF l, o
    <2>6. ASSUME f.inode.kind = "node" PROVE f.offset = Whole(cat.limit, data)
      <3>1. f.offset = cat.limit /\ cat.limit <= Len(data) /\ Len(data) \in Nat
        BY <1>3, <2>5, <2>6, Zenon
      <3> HIDE DEF data, f
      <3>2. Min({cat.limit, Len(data)}) = cat.limit
        BY <1>3, <3>1, MinOfTwo
      <3> QED BY <2>5, <3>1, <3>2 DEF Whole
    <2>7. CatOK'
      BY <1>1, <1>2, <2>1, <2>6, Zenon DEF CatOK
    <2>8. CatKeys'
      BY <1>1, <1>2, <2>1, Zenon DEF CatKeys
    <2> QED BY <1>5, <2>1, <2>2, <2>4, <2>7, <2>8, Zenon DEF Base
  <1>7. CASE Want # 0
    <2>1. /\ read(fd, Want) /\ cat' = [cat EXCEPT !.out = cat.out \o Piece(buf')]
          /\ pc' = IF ret' <= 0 THEN "catend" ELSE pc
      BY <1>7 DEF cat_read
    <2>2. FilesOK' /\ ReadAs(fd, Want)
      <3> DEFINE n == Want
      <3>1. n \in Nat /\ read(fd, n)
        BY <1>3, <2>1
      <3> HIDE DEF n, fd
      <3>2. FilesOK' /\ ReadAs(fd, n)
        BY <1>1, <1>2, <1>3, <3>1, ReadStep, Zenon
      <3> QED BY <3>2 DEF n
    <2>3. /\ \A g \in Nat : /\ Table(fds')[g].inode = Table(fds)[g].inode
                            /\ Table(fds')[g] = NoFile <=> Table(fds)[g] = NoFile
          /\ DOMAIN held' = DOMAIN held
          /\ \A g \in DOMAIN held : held'[g].inode = held[g].inode
          /\ held'[fd].got = held[fd].got \o buf'
          /\ Len(buf') <= Want
          /\ taken' \o kbd' = taken \o kbd
          /\ f.inode.kind # "kbd" => kbd' = kbd /\ taken' = taken
      BY <1>3, <2>2, Zenon DEF ReadAs
    <2>4. f.inode.kind = "node" =>
            /\ f2.offset = f.offset + Len(buf')
            /\ ret' <= 0 => f.offset = Len(data) /\ buf' = <<>>
      <3>1. Want > 0
        BY <1>3, <1>7
      <3>2. f.inode.kind = "node" =>
              /\ f2.offset = f.offset + Len(buf')
              /\ Want > 0 /\ ret' <= 0 => f.offset = Len(data) /\ buf' = <<>>
        BY <2>2, Zenon DEF ReadAs
      <3> QED BY <3>1, <3>2, Zenon
    <2>5. buf' \in Seq(Octet) /\ Len(buf') \in Nat
      BY <2>2, LenProperties DEF FilesOK
    <2>6. /\ cat'.fd = cat.fd /\ cat'.limit = cat.limit /\ cat'.back = cat.back
          /\ cat'.out = cat.out \o Piece(buf') /\ cat' \in CatType
      <3>1. Piece(buf') \in Seq(Octet)
        BY <2>5, PieceType
      <3>2. cat.out \o Piece(buf') \in Seq(Octet)
        BY <1>3, <3>1, ConcatProperties, Zenon
      <3> QED BY <1>4, <2>1, <3>2, Zenon DEF CatType
    <2>7. cat.limit > 0 => cat'.out = cat.out \o buf' /\ Len(cat'.out) = Len(cat.out) + Len(buf')
      <3>1. SUFFICES ASSUME cat.limit > 0
                     PROVE  cat'.out = cat.out \o buf' /\ Len(cat'.out) = Len(cat.out) + Len(buf')
        OBVIOUS
      <3>2. Piece(buf') = buf'
        BY <3>1, Zenon DEF Piece
      <3>3. Len(cat.out \o buf') = Len(cat.out) + Len(buf')
        BY <1>3, <2>5, ConcatProperties
      <3> QED BY <2>6, <3>2, <3>3, Zenon
    <2>8. (InShell' <=> InShell) /\ Mine' = Mine
      BY <1>1, <2>6 DEF InShell, Mine, InCat
    <2>9. Used(Table(fds')) = Used(Table(fds))
      BY <2>3 DEF Used
    <2>10. Holding'
      <3>1. InShell => shfd \in DOMAIN held
        BY <1>1, <1>2 DEF Holding, Mine
      <3> QED BY <1>1, <1>2, <2>3, <2>6, <2>8, <2>9, <3>1, Zenon DEF Holding
    <2>11. ASSUME pc' = "catend", f2.inode.kind = "node"
           PROVE  f2.offset = Whole(cat.limit, data)
      <3>1. f.inode.kind = "node" /\ ret' <= 0
        BY <1>1, <1>3, <2>1, <2>3, <2>11, <2>5, <2>2, Zenon DEF FilesOK
      <3>2. /\ f.offset = Len(data) /\ f2.offset = f.offset + Len(buf') /\ buf' = <<>>
            /\ (cat.limit > 0 => Len(cat.out) = f.offset) /\ f.offset \in Nat
        BY <1>3, <2>4, <3>1, Zenon
      <3> HIDE DEF data, f, f2
      <3>5. Len(data) \in Nat /\ f2.offset = f.offset
        BY <3>2, EmptySeq
      <3>3. cat.limit > 0 => Len(data) <= cat.limit
        BY <1>3, <3>2
      <3>4. cat.limit > 0 => Min({cat.limit, Len(data)}) = Len(data)
        BY <1>3, <3>3, <3>5, MinOfTwo
      <3> QED BY <1>3, <3>2, <3>4, <3>5 DEF Whole
    <2>12. CatOK'
      <3>1. cat'.limit > 0 => cat'.out = held'[cat'.fd].got
        BY <1>4, <2>3, <2>6, <2>7, Zenon
      <3>2. cat'.limit > 0 => Len(cat'.out) <= cat'.limit
        <4> DEFINE l == cat.limit
                   o == Len(cat.out)
                   b == Len(buf')
                   w == Want
        <4>1. l \in Nat /\ o \in Nat /\ b \in Nat /\ w \in Nat /\ b <= w /\ (l > 0 => w <= l - o)
          <5>1. l \in Nat /\ o \in Nat /\ b \in Nat /\ w \in Nat /\ b <= w /\ (l > 0 => o + w = l)
            BY <1>3, <1>4, <2>3, <2>5, Zenon
          <5> HIDE DEF l, o, b, w
          <5> QED BY <5>1
        <4>2. cat'.limit = l /\ (l > 0 => Len(cat'.out) = o + b)
          BY <2>6, <2>7, Zenon
        <4> HIDE DEF l, o, b, w
        <4> QED BY <4>1, <4>2
      <3>3. pc' = "catend" /\ Table(fds')[cat'.fd].inode.kind = "node" =>
              Table(fds')[cat'.fd].offset = Whole(cat'.limit, nodes'[Table(fds')[cat'.fd].inode.at].data)
        BY <1>1, <1>3, <2>3, <2>6, <2>11, Zenon
      <3> QED BY <1>1, <2>6, <3>1, <3>2, <3>3, Zenon DEF CatOK
    <2>13. CatSparesKeyboard => held[fd].inode.kind # "kbd" /\ f.inode.kind # "kbd"
      BY <1>1, <1>2, <1>3, Zenon DEF CatKeys, FilesOK, HeldIn
    <2>14. CatKeys'
      BY <1>3, <2>3, <2>6, <2>13, Zenon DEF CatKeys
    <2> QED BY <1>5, <2>2, <2>3, <2>10, <2>12, <2>13, <2>14, Zenon DEF Base
  <1> QED
    BY <1>6, <1>7, Zenon

\* close takes the descriptor from the used ones.
LEMMA UsedAfterClose ==
  ASSUME NEW tab \in [Nat -> FileType], NEW fd \in Nat
  PROVE  Used([tab EXCEPT ![fd] = NoFile]) = Used(tab) \ {fd}
  BY DEF Used

LEMMA CatCloseBase ==
  ASSUME Base, cat_close
  PROVE  Base' /\ UNCHANGED <<kbd, taken>>
  <1> DEFINE fd == cat.fd
             tab == Table(fds)
  <1>1. /\ pc = "catend" /\ pc' = cat.back /\ close_fd(fd)
        /\ UNCHANGED <<nodes, socks, kbd, taken, archive, left, shfd>> /\ InCat
    BY DEF cat_close, locals, InCat
  <1>2. FilesOK /\ Where /\ Holding
    BY DEF Base
  <1>3. fd \in DOMAIN held /\ fd \in Nat /\ cat.back \in {"boot", "shkeys"}
    BY <1>1, CatProgress
  <1> HIDE DEF fd
  <1>4. FilesOK' /\ ClosedAs(fd)
    BY <1>1, <1>2, <1>3, CloseStep
  <1>5. Used(Table(fds')) = Used(tab) \ {fd}
    <2>1. tab \in [Nat -> FileType] /\ Table(fds') = [tab EXCEPT ![fd] = NoFile]
      BY <1>2, <1>4, TableType DEF FilesOK, ClosedAs
    <2> HIDE DEF tab
    <2> QED BY <1>3, <2>1, UsedAfterClose, Zenon
  <1>6. /\ ~InCat' /\ (InShell' <=> InShell)
        /\ Mine = Mine' \cup {fd} /\ (InShell => Mine' = {shfd} /\ shfd # fd) /\ (~InShell => Mine' = {})
    BY <1>1, <1>2, <1>3 DEF InCat, InShell, Mine, Holding, fd
  <1>7. fd \notin Mine'
    BY <1>6
  <1>8. DOMAIN held' = Mine' /\ Used(Table(fds')) = left' \cup Mine' /\ Mine' \cap left' = {}
    <2>1. DOMAIN held = Mine /\ Used(tab) = left \cup Mine /\ Mine \cap left = {}
      BY <1>1, <1>2 DEF Holding
    <2>2. DOMAIN held' = DOMAIN held \ {fd}
      BY <1>4 DEF ClosedAs
    <2> QED BY <1>1, <1>5, <1>6, <1>7, <2>1, <2>2
  <1>9. InShell' => held'[shfd'].inode = Kbd
    BY <1>1, <1>2, <1>4, <1>6 DEF Holding, ClosedAs, Mine
  <1>10. Holding'
    BY <1>1, <1>3, <1>6, <1>8, <1>9 DEF Holding
  <1>11. Where'
    BY <1>1, <1>2, <1>3 DEF Where
  <1>12. CatOK' /\ CatKeys'
    BY <1>6, Zenon DEF CatOK, CatKeys
  <1> QED
    BY <1>1, <1>4, <1>10, <1>11, <1>12 DEF Base

LEMMA ShellCloseBase ==
  ASSUME Base, sh_close
  PROVE  Base' /\ UNCHANGED <<kbd, taken>>
  <1> DEFINE tab == Table(fds)
  <1>1. /\ pc = "shclose" /\ pc' = "done" /\ close_fd(shfd)
        /\ UNCHANGED <<nodes, socks, kbd, taken, archive, left, shfd>>
    BY DEF sh_close, locals
  <1>2. FilesOK /\ Where /\ Holding
    BY DEF Base
  <1>3. Mine = {shfd} /\ Mine' = {} /\ ~InCat' /\ ~InShell'
    BY <1>1 DEF InCat, InShell, Mine
  <1>4. DOMAIN held = {shfd} /\ Used(tab) = left \cup {shfd} /\ shfd \notin left
    BY <1>1, <1>2, <1>3 DEF Holding
  <1>5. shfd \in Nat
    BY <1>2, <1>4, Zenon DEF FilesOK, HeldIn
  <1>6. FilesOK' /\ ClosedAs(shfd)
    BY <1>1, <1>2, <1>5, CloseStep
  <1>7. Used(Table(fds')) = Used(tab) \ {shfd}
    <2>1. tab \in [Nat -> FileType] /\ Table(fds') = [tab EXCEPT ![shfd] = NoFile]
      BY <1>2, <1>6, TableType DEF FilesOK, ClosedAs
    <2> HIDE DEF tab
    <2> QED BY <1>5, <2>1, UsedAfterClose, Zenon
  <1>8. DOMAIN held' = {} /\ Used(Table(fds')) = left
    BY <1>4, <1>6, <1>7, Zenon DEF ClosedAs
  <1>9. Holding' /\ CatOK' /\ CatKeys'
    BY <1>1, <1>3, <1>8 DEF Holding, CatOK, CatKeys
  <1>10. Where'
    BY <1>1, <1>2 DEF Where
  <1> QED
    BY <1>1, <1>6, <1>9, <1>10 DEF Base

LEMMA ShellOpenBase ==
  ASSUME Base, sh_open
  PROVE  Base' /\ UNCHANGED <<kbd, taken>>
  <1> DEFINE tab == Table(fds)
             tab2 == Table(fds')
  <1>1. /\ pc = "sh" /\ open(Kbd) /\ shfd' = ret' /\ pc' = IF ret' < 0 THEN "done" ELSE "shread"
        /\ UNCHANGED <<nodes, socks, kbd, taken, archive, left, cat>>
    BY DEF sh_open
  <1>2. FilesOK /\ Where /\ Holding /\ Keeps(socks, socks')
    BY <1>1 DEF Base, Keeps, FilesOK
  <1>3. Kbd \in Openable /\ Kbd.kind = "kbd"
    BY DEF Kbd, Inode, Openable, Inodes, Devices
  <1>4. /\ FilesOK'
        /\ \/ ret' < 0 /\ UNCHANGED <<fds, held>>
           \/ OpenedAs(Kbd)
    <2> DEFINE inode == Kbd
    <2>1. inode \in Openable /\ inode.kind # "sock" /\ open(inode)
      BY <1>1, <1>3
    <2> HIDE DEF inode
    <2>2. /\ FilesOK'
          /\ \/ ret' < 0 /\ UNCHANGED <<fds, held>>
             \/ OpenedAs(inode)
      BY <1>1, <1>2, <2>1, OpenStep
    <2> QED BY <2>2 DEF inode
  <1>5. Mine = {} /\ DOMAIN held = {} /\ Used(tab) = left
    BY <1>1, <1>2, Zenon DEF Holding, Mine, InCat, InShell
  <1>6. Where'
    BY <1>1, <1>2 DEF Where
  <1>7. CASE ret' < 0
    <2>1. fds' = fds /\ held' = held /\ pc' = "done"
      BY <1>1, <1>4, <1>7, FilesAssumption DEF OpenedAs, Fd, FilesAssumption
    <2>2. Mine' = {} /\ ~InCat' /\ ~InShell'
      BY <2>1 DEF Mine, InCat, InShell
    <2>3. Holding' /\ CatOK' /\ CatKeys'
      BY <1>1, <1>5, <2>1, <2>2, Zenon DEF Holding, CatOK, CatKeys
    <2> QED BY <1>1, <1>4, <1>6, <2>3 DEF Base
  <1>8. CASE ~(ret' < 0)
    <2>1. pc' = "shread" /\ Mine' = {ret'} /\ ~InCat' /\ InShell'
      BY <1>1, <1>8 DEF Mine, InCat, InShell
    <2>2. /\ ret' \in Nat /\ tab[ret'] = NoFile
          /\ tab2 = [tab EXCEPT ![ret'] = File(Kbd)] /\ tab \in [Nat -> FileType]
          /\ DOMAIN held' = {ret'} /\ held'[ret'].inode = Kbd
      <3>1. tab \in [Nat -> FileType]
        BY <1>2, TableType DEF FilesOK
      <3>2. /\ ret' \in Fd /\ tab[ret'] = NoFile /\ tab2 = [tab EXCEPT ![ret'] = File(Kbd)]
            /\ DOMAIN held' = DOMAIN held \cup {ret'} /\ held'[ret'] = [inode |-> Kbd, got |-> <<>>]
        BY <1>4, <1>8, Zenon DEF OpenedAs
      <3>3. DOMAIN held' = {ret'} /\ held'[ret'].inode = Kbd
        BY <1>5, <3>2
      <3>4. ret' \in Nat
        BY <3>2, FilesAssumption DEF Fd, FilesAssumption
      <3> QED BY <3>1, <3>2, <3>3, <3>4, Zenon
    <2>3. File(Kbd) # NoFile
      BY <1>3, NoFileType DEF File
    <2>4. Used(tab2) = Used(tab) \cup {ret'} /\ ret' \notin Used(tab)
      <3> HIDE DEF tab, tab2
      <3> QED BY <2>2, <2>3 DEF Used
    <2>5. Holding'
      BY <1>1, <1>5, <2>1, <2>2, <2>4, Zenon DEF Holding
    <2>6. CatOK' /\ CatKeys'
      BY <2>1 DEF CatOK, CatKeys
    <2> QED BY <1>1, <1>4, <1>6, <2>5, <2>6 DEF Base
  <1> QED
    BY <1>7, <1>8
-----------------------------------------------------------------------------
(* Each step keeps the shell's buffer within its bounds, and the keys in   *)
(* order.                                                                  *)

LEMMA KeysAreLine == KeysReachShell <=> typed = Line(taken, seen, chunk, kbd)
  BY DEF KeysReachShell, Line, Joined

\* Before the shell runs, keys go from the queue straight to a reader.
LEMMA OutsideKeys ==
  ASSUME Inv, Base', ~InShell, pc # "done", UNCHANGED <<seen, chunk, idle>>,
         NEW d \in Seq(Octet), typed' = typed \o d, taken' \o kbd' = (taken \o kbd) \o d
  PROVE  Inv'
  <1>1. /\ seen = <<>> /\ chunk = <<>> /\ seen' = <<>> /\ chunk' = <<>> /\ idle' = idle
        /\ idle \in 0..(IdleMax + 1) /\ idle <= IdleMax /\ typed \in Seq(Octet)
    BY DEF Inv, Reading, InShell
  <1>2. Len(chunk') = 0 /\ ShellBuf \in Nat /\ ShellBuf > 0 /\ chunk' \in Seq(Octet)
    BY <1>1, EmptySeq, SessionAssumption DEF SessionAssumption
  <1>3. typed' \in Seq(Octet)
    BY <1>1, Associative
  <1>4. Reading'
    BY <1>1, <1>2, <1>3 DEF Reading
  <1>5. /\ taken \in Seq(Octet) /\ kbd \in Seq(Octet) /\ taken' \in Seq(Octet) /\ kbd' \in Seq(Octet)
    BY DEF Inv, Base, FilesOK
  <1>6. /\ Line(taken, seen, chunk, kbd) = taken \o kbd
        /\ Line(taken', seen', chunk', kbd') = taken' \o kbd'
    <2>1. taken \o <<>> = taken /\ taken' \o <<>> = taken'
      BY <1>5, ConcatEmptySeq
    <2>2. Line(taken, <<>>, <<>>, kbd) = taken \o kbd
      BY <2>1 DEF Line, Joined
    <2>3. Line(taken', <<>>, <<>>, kbd') = taken' \o kbd'
      BY <2>1, Zenon DEF Line, Joined
    <2> QED BY <1>1, <2>2, <2>3, Zenon
  <1>7. CatSparesKeyboard => typed = taken \o kbd
    BY <1>6, KeysAreLine DEF Inv, KeysOK
  <1>8. CatSparesKeyboard => typed' = Line(taken', seen', chunk', kbd')
    BY <1>6, <1>7, Zenon
  <1>9. KeysOK'
    BY <1>8, Zenon DEF KeysOK, KeysReachShell, Line, Joined
  <1> QED
    BY <1>4, <1>9 DEF Inv

LEMMA OutsideQuiet ==
  ASSUME Inv, Base', ~InShell, pc # "done", UNCHANGED <<typed, seen, chunk, idle>>,
         taken' \o kbd' = taken \o kbd
  PROVE  Inv'
  <1> DEFINE d == <<>>
  <1>1. typed \in Seq(Octet) /\ taken \o kbd \in Seq(Octet) /\ d \in Seq(Octet)
    BY EmptySeq, Associative DEF Inv, Reading, Base, FilesOK
  <1>2. typed' = typed \o d /\ taken' \o kbd' = (taken \o kbd) \o d
    BY <1>1, ConcatEmptySeq
  <1> HIDE DEF d
  <1> QED
    BY <1>1, <1>2, OutsideKeys, Zenon

\* A step that leaves the keys alone.
LEMMA StillKeys ==
  ASSUME Inv, Base', UNCHANGED <<typed, seen, chunk, idle>>,
         CatSparesKeyboard => UNCHANGED <<kbd, taken>>,
         InShell \/ pc' = pc, InShell' = InShell \/ pc' = "done",
         pc' = "shread" => pc = "shread" \/ chunk = <<>>,
         pc' = "shidle" => pc = "shidle",
         pc \in {"shclose", "done"} => pc' \in {"shclose", "done"}
  PROVE  Inv'
  <1>1. KeysOK'
    BY DEF Inv, KeysOK, KeysReachShell
  <1>2. ShellBuf \in Nat /\ ShellBuf > 0 /\ Len(<<>>) = 0
    BY EmptySeq, SessionAssumption DEF SessionAssumption
  <1>3. Reading'
    BY <1>2 DEF Inv, Reading
  <1> QED
    BY <1>1, <1>3 DEF Inv

LEMMA InitInv == SessionInit => Inv
  <1> SUFFICES ASSUME SessionInit PROVE Inv
    OBVIOUS
  <1>1. Base
    BY InitBase
  <1>2. /\ typed = <<>> /\ seen = <<>> /\ chunk = <<>> /\ kbd = <<>> /\ taken = <<>> /\ idle = 0 /\ pc = "off"
    BY DEF SessionInit, FilesInit
  <1>3. ShellBuf \in Nat /\ ShellBuf > 0 /\ IdleMax \in Nat
    BY SessionAssumption DEF SessionAssumption
  <1>4. <<>> \in Seq(Octet) /\ Len(<<>>) = 0
    BY EmptySeq
  <1>5. Reading
    BY <1>2, <1>3, <1>4 DEF Reading
  <1>6. <<>> \o <<>> = <<>>
    BY <1>4, ConcatEmptySeq
  <1>7. KeysOK
    BY <1>2, <1>6 DEF KeysOK, KeysReachShell
  <1> QED
    BY <1>1, <1>5, <1>7 DEF Inv

\* The steps of boot and of the programs.
LEMMA BootInv ==
  ASSUME Inv, boot_fs \/ fs_cat \/ run_user \/ syscall_dispatch \/ sys_exit
  PROVE  Inv'
  <1>1. Base
    BY DEF Inv
  <1>2. /\ pc \in {"off", "boot", "user"} /\ ~InShell
        /\ UNCHANGED <<typed, seen, chunk, idle>>
    BY DEF boot_fs, fs_cat, run_user, syscall_dispatch, sys_exit, keys, locals, InShell, InCat
  <1>3. Base' /\ taken' \o kbd' = taken \o kbd
    <2>1. CASE boot_fs
      BY <1>1, <2>1, BootBase DEF boot_fs, fs_init
    <2>2. CASE fs_cat
      <3>1. PICK p \in CatPaths : cat_open(p, Scratch, "boot")
        BY <2>2 DEF fs_cat
      <3>2. pc = "boot" /\ UNCHANGED <<archive, left, shfd>>
        BY <2>2 DEF fs_cat, locals
      <3>3. Scratch \in Nat /\ cat_open(p, Scratch, pc)
        BY <3>1, <3>2, SessionAssumption DEF SessionAssumption
      <3>4. Base' /\ UNCHANGED <<kbd, taken>>
        BY <1>1, <3>2, <3>3, CatOpenBase
      <3> QED BY <3>4
    <2>3. CASE run_user
      BY <1>1, <2>3, RunBase DEF run_user, fsvars
    <2>4. CASE syscall_dispatch
      BY <1>1, <2>4, CallBase, CallFiles, Zenon
    <2>5. CASE sys_exit
      BY <1>1, <2>5, ExitBase DEF sys_exit
    <2> QED BY <2>1, <2>2, <2>3, <2>4, <2>5, Zenon
  <1> QED
    BY <1>2, <1>3, OutsideQuiet

\* The demo takes the first sixteen keys of the queue, or all of them.
LEMMA Phase7Inv == Inv /\ phase7_demo => Inv'
  <1> SUFFICES ASSUME Inv, phase7_demo PROVE Inv'
    OBVIOUS
  <1> DEFINE q == kbd \o Demo
             d == Demo
             r == SubSeq(q, 17, Len(q))
             a == Part(q, 0, 16)
  <1>1. Base /\ Base' /\ kbd \in Seq(Octet) /\ taken \in Seq(Octet)
    BY Phase7Base DEF Inv, Base, FilesOK
  <1>2. /\ pc = "boot" /\ ~InShell /\ UNCHANGED <<seen, chunk, idle>> /\ typed' = typed \o d
        /\ \/ taken' = taken \o a /\ kbd' = r
           \/ taken' = taken /\ kbd' = q
    BY Zenon DEF phase7_demo, locals, InShell, InCat
  <1>3. d \in Seq(Octet)
    <2>1. Demo \in Seq(STRING) /\ STRING \subseteq Octet
      BY SessionAssumption DEF SessionAssumption, Octet
    <2> QED BY <2>1, SeqMonotonic, Zenon
  <1>4. q \in Seq(Octet) /\ (taken \o kbd) \o d = taken \o q
    <2> HIDE DEF d
    <2> QED BY <1>1, <1>3, Associative DEF d
  <1> HIDE DEF q
  <1>5. a \in Seq(Octet) /\ r \in Seq(Octet) /\ a \o r = q
    <2>1. /\ a \in Seq(Octet)
          /\ a \o SubSeq(q, Len(a) + 1, Len(q)) = q
          /\ SubSeq(q, Len(a) + 1, Len(q)) \in Seq(Octet)
      BY <1>4, PartOf, PartAndRest
    <2>2. Len(q) \in Nat /\ Len(a) \in Nat
      BY <1>4, <2>1, LenProperties
    <2>3. CASE 16 <= Len(q)
      <3>1. Len(a) = 16
        <4>1. Min({0 + 16, Len(q)}) = 16
          BY <2>2, <2>3, MinOfTwo
        <4>2. a = SubSeq(q, 1, 16)
          BY <4>1 DEF Part
        <4>3. \A i \in 1..Len(q) : q[i] \in Octet
          BY <1>4, ElementOfSeq
        <4>4. \A i \in 1..16 : q[i] \in Octet
          BY <2>2, <2>3, <4>3
        <4>5. Len(SubSeq(q, 1, 16)) = IF 1 <= 16 THEN 16 - 1 + 1 ELSE 0
          BY <4>4, SubSeqProperties
        <4> QED BY <4>2, <4>5
      <3> HIDE DEF a
      <3>2. Len(a) + 1 = 17
        BY <3>1
      <3>3. SubSeq(q, Len(a) + 1, Len(q)) = r
        BY <3>2
      <3> HIDE DEF r
      <3> QED BY <2>1, <3>3, Zenon
    <2>4. CASE ~(16 <= Len(q))
      <3>1. Min({0 + 16, Len(q)}) = Len(q)
        BY <2>2, <2>4, MinOfTwo
      <3>2. a = SubSeq(q, 1, Len(q))
        <4>1. a = SubSeq(q, 0 + 1, Min({0 + 16, Len(q)})) /\ 0 + 1 = 1
          BY DEF Part
        <4> HIDE DEF a
        <4> QED BY <3>1, <4>1, Zenon
      <3>3. a = q
        BY <1>4, <3>2, SubSeqFull, Zenon
      <3>4. r = <<>>
        BY <2>2, <2>4, SubSeqEmpty
      <3> QED BY <1>4, <3>3, <3>4, ConcatEmptySeq, EmptySeq, Zenon
    <2> QED BY <2>3, <2>4
  <1> HIDE DEF a, r, d
  <1>6. taken' \o kbd' = (taken \o kbd) \o d
    <2>1. (taken \o a) \o r = taken \o (a \o r)
      BY <1>1, <1>5, Associative, Zenon
    <2> QED BY <1>2, <1>4, <1>5, <2>1, Zenon
  <1> QED
    BY <1>1, <1>2, <1>3, <1>6, OutsideKeys, Zenon

LEMMA Phase8Inv == Inv /\ phase8_setup => Inv'
  <1> SUFFICES ASSUME Inv, phase8_setup PROVE Inv'
    OBVIOUS
  <1> DEFINE d == Script
  <1>1. Base /\ Base' /\ kbd \in Seq(Octet) /\ taken \in Seq(Octet)
    BY Phase8Base DEF Inv, Base, FilesOK
  <1>2. /\ pc = "net" /\ ~InShell /\ UNCHANGED <<seen, chunk, idle>> /\ typed' = typed \o d
        /\ taken' = taken /\ kbd' = kbd \o d
    BY DEF phase8_setup, locals, InShell, InCat
  <1>3. d \in Seq(Octet)
    <2>1. Script \in Seq(STRING) /\ STRING \subseteq Octet
      BY SessionAssumption DEF SessionAssumption, Octet
    <2> QED BY <2>1, SeqMonotonic, Zenon
  <1> HIDE DEF d
  <1>4. taken' \o kbd' = (taken \o kbd) \o d
    BY <1>1, <1>2, <1>3, Associative, Zenon
  <1> QED
    BY <1>1, <1>2, <1>3, <1>4, OutsideKeys, Zenon

\* cat in boot may read the keyboard; cat in the shell finds a chunk of keys
\* half done, which is why it may not.
LEMMA CatInv == Inv /\ (cat_read \/ cat_close) => Inv'
  <1> SUFFICES ASSUME Inv, cat_read \/ cat_close PROVE Inv'
    OBVIOUS
  <1>1. Base /\ InCat /\ UNCHANGED <<typed, seen, chunk, idle>>
    BY DEF Inv, cat_read, cat_close, keys, locals, InCat
  <1>2. /\ Base' /\ taken' \o kbd' = taken \o kbd
        /\ CatSparesKeyboard => UNCHANGED <<kbd, taken>>
    BY <1>1, CatReadBase, CatCloseBase, Zenon
  <1>3. CASE ~InShell
    <2>1. pc # "done"
      BY <1>1 DEF InCat
    <2> QED BY <1>1, <1>2, <1>3, <2>1, OutsideQuiet
  <1>4. CASE InShell
    <2>1. pc \in {"cat", "catend"} /\ cat.back = "shkeys"
      BY <1>1, <1>4 DEF InCat, InShell
    <2>2. (pc' \in {"cat", "catend"} /\ cat'.back = "shkeys") \/ pc' = "shkeys"
      <3>1. CASE cat_close
        BY <2>1, <3>1 DEF cat_close
      <3>2. CASE cat_read
        <4>1. cat \in CatType
          BY <1>1, Zenon DEF Base, CatOK
        <4>2. cat'.back = cat.back
          BY <3>2, <4>1 DEF cat_read, CatType
        <4> QED BY <2>1, <3>2, <4>2 DEF cat_read
      <3> QED BY <3>1, <3>2
    <2>3. InShell'
      BY <2>2 DEF InShell, InCat
    <2> QED BY <1>1, <1>2, <1>4, <2>1, <2>2, <2>3, StillKeys
  <1> QED
    BY <1>3, <1>4

LEMMA ShellEndsInv == Inv /\ (sh_open \/ sh_close \/ sh_again) => Inv'
  <1> SUFFICES ASSUME Inv, sh_open \/ sh_close \/ sh_again PROVE Inv'
    OBVIOUS
  <1>1. Base
    BY DEF Inv
  <1>2. CASE sh_open
    <2>1. /\ pc = "sh" /\ ~InShell /\ UNCHANGED <<typed, seen, chunk, idle>>
      BY <1>2 DEF sh_open, keys, InShell, InCat
    <2>2. Base' /\ taken' \o kbd' = taken \o kbd
      BY <1>1, <1>2, ShellOpenBase
    <2> QED BY <2>1, <2>2, OutsideQuiet
  <1>3. CASE sh_close
    <2>1. /\ pc = "shclose" /\ pc' = "done" /\ InShell /\ UNCHANGED <<typed, seen, chunk, idle>>
      BY <1>3 DEF sh_close, keys, locals, InShell
    <2>2. Base' /\ UNCHANGED <<kbd, taken>>
      BY <1>1, <1>3, ShellCloseBase
    <2> QED BY <2>1, <2>2, StillKeys
  <1>4. CASE sh_again
    <2>1. /\ pc = "shkeys" /\ pc' = "shread" /\ chunk = <<>> /\ InShell /\ InShell'
          /\ UNCHANGED <<typed, seen, chunk, idle, nodes, fds, socks, held, archive, left, cat, shfd, kbd, taken, ret, buf>>
      BY <1>4 DEF sh_again, keys, locals, fsvars, tables, InShell
    <2>2. kbd' \in Seq(Octet) /\ taken' \in Seq(Octet) /\ ret' \in Int /\ buf' \in Seq(Octet)
      BY <1>1, <2>1 DEF Base, FilesOK
    <2>3. Base'
      BY <1>1, <2>1, <2>2, QuietBase
    <2> QED BY <2>1, <2>3, StillKeys
  <1> QED
    BY <1>2, <1>3, <1>4

LEMMA IdleInv == Inv /\ sh_idle => Inv'
  <1> SUFFICES ASSUME Inv, sh_idle PROVE Inv'
    OBVIOUS
  <1>1. /\ pc = "shidle" /\ idle' = idle + 1 /\ pc' = IF idle' > IdleMax THEN "shclose" ELSE "shread"
        /\ UNCHANGED <<typed, seen, chunk, nodes, fds, socks, held, archive, left, cat, shfd, kbd, taken, ret, buf>>
    BY DEF sh_idle, keys, fsvars, tables
  <1>2. kbd' \in Seq(Octet) /\ taken' \in Seq(Octet) /\ ret' \in Int /\ buf' \in Seq(Octet)
    BY <1>1 DEF Inv, Base, FilesOK
  <1>3. Base'
    BY <1>1, <1>2, QuietBase DEF Inv
  <1>4. ShellBuf \in Nat /\ ShellBuf > 0 /\ IdleMax \in Nat /\ Len(<<>>) = 0
    BY EmptySeq, SessionAssumption DEF SessionAssumption
  <1>5. chunk = <<>> /\ idle \in 0..(IdleMax + 1) /\ idle <= IdleMax
    BY <1>1 DEF Inv, Reading
  <1>6. idle' \in 0..(IdleMax + 1) /\ (pc' \notin {"shclose", "done"} => idle' <= IdleMax)
    BY <1>1, <1>4, <1>5
  <1>7. Reading'
    BY <1>1, <1>4, <1>5, <1>6 DEF Inv, Reading, InShell
  <1>8. KeysOK'
    BY <1>1 DEF Inv, KeysOK, KeysReachShell
  <1> QED
    BY <1>3, <1>7, <1>8 DEF Inv

\* The shell's read takes the oldest key of the queue.
LEMMA ReadKeyInv == Inv /\ (read_key_lock \/ read_key) => Inv'
  <1> SUFFICES ASSUME Inv, read_key_lock \/ read_key PROVE Inv'
    OBVIOUS
  <1>1. Base /\ Reading /\ pc = "shread" /\ InShell
    BY DEF Inv, read_key_lock, read_key, InShell
  <1>2. kbd \in Seq(Octet) /\ taken \in Seq(Octet) /\ ret \in Int /\ buf \in Seq(Octet)
    BY <1>1 DEF Base, FilesOK
  <1>3. chunk \in Seq(Octet) /\ seen \in Seq(Octet) /\ Len(chunk) \in Nat /\ Len(chunk) < ShellBuf /\ ShellBuf \in Nat
    BY <1>1, LenProperties, SessionAssumption DEF Reading, SessionAssumption
  <1>4. CASE read_key_lock
    <2>1. /\ pc' = "shread"
          /\ UNCHANGED <<typed, seen, chunk, idle, nodes, fds, socks, held, archive, left, cat, shfd, kbd, taken, ret, buf>>
      BY <1>1, <1>4 DEF read_key_lock, fsvars, tables, locals
    <2>2. Base' /\ InShell'
      BY <1>1, <1>2, <2>1, QuietBase DEF InShell
    <2> QED BY <1>1, <2>1, <2>2, StillKeys
  <1>5. CASE read_key
    <2>1. /\ UNCHANGED <<typed, seen, idle, nodes, fds, socks, held, archive, left, cat, shfd, taken, ret, buf>>
          /\ \/ kbd = <<>> /\ kbd' = kbd /\ chunk' = chunk
             \/ kbd # <<>> /\ kbd' = Tail(kbd) /\ chunk' = Append(chunk, Head(kbd))
          /\ pc' = IF kbd # <<>> /\ Len(chunk') < ShellBuf THEN pc
                   ELSE IF chunk' = <<>> THEN "shidle" ELSE "shkeys"
      BY <1>5 DEF read_key, tables
    <2>2. /\ kbd' \in Seq(Octet) /\ chunk' \in Seq(Octet) /\ Len(chunk') <= ShellBuf
          /\ (CatSparesKeyboard => typed = Line(taken, seen, chunk', kbd'))
      <3>1. CatSparesKeyboard => typed = Line(taken, seen, chunk, kbd)
        BY KeysAreLine DEF Inv, KeysOK
      <3>2. CASE kbd = <<>>
        BY <1>2, <1>3, <2>1, <3>1, <3>2
      <3>3. CASE kbd # <<>>
        <4>1. Head(kbd) \in Octet /\ Tail(kbd) \in Seq(Octet)
          BY <1>2, <3>3, HeadTailProperties
        <4>2. Append(chunk, Head(kbd)) \in Seq(Octet) /\ Len(Append(chunk, Head(kbd))) = Len(chunk) + 1
          BY <1>3, <4>1, AppendProperties
        <4>3. kbd' = Tail(kbd) /\ chunk' = Append(chunk, Head(kbd))
          BY <2>1, <3>3
        <4>4. kbd' \in Seq(Octet) /\ chunk' \in Seq(Octet) /\ Len(chunk') = Len(chunk) + 1
          BY <4>1, <4>2, <4>3
        <4>5. Joined(chunk', kbd') = Joined(chunk, kbd)
          <5>1. Moved(chunk, kbd, chunk', kbd')
            BY <3>3, <4>3 DEF Moved
          <5> QED BY <1>2, <1>3, <5>1, JoinedHead
        <4>6. Line(taken, seen, chunk', kbd') = Line(taken, seen, chunk, kbd)
          BY <1>2, <1>3, <4>4, <4>5, LineRead
        <4> QED BY <1>3, <3>1, <4>4, <4>6
      <3> QED BY <3>2, <3>3
    <2>3. Base'
      BY <1>1, <1>2, <2>1, <2>2, QuietBase
    <2>4. Reading'
      BY <1>1, <1>3, <2>1, <2>2 DEF Reading, InShell
    <2>5. KeysOK'
      BY <2>1, <2>2, Zenon DEF KeysOK, KeysReachShell, Line, Joined
    <2> QED BY <2>3, <2>4, <2>5 DEF Inv
  <1> QED
    BY <1>4, <1>5

\* Whatever a key makes the shell do, it takes no key but that one.
LEMMA KeyBase ==
  ASSUME Base, sh_key
  PROVE  /\ Base' /\ UNCHANGED <<kbd, taken>>
         /\ pc' \in {"shkeys", "shclose"} \/ (pc' = "cat" /\ cat'.back = "shkeys")
  <1>1. pc = "shkeys" /\ archive' = archive /\ left' = left /\ shfd' = shfd
    BY DEF sh_key
  <1>2. kbd \in Seq(Octet) /\ taken \in Seq(Octet) /\ ret \in Int /\ buf \in Seq(Octet)
    BY DEF Base, FilesOK
  <1>3. ASSUME NEW p \in CatPaths, cat_open(p, 0, "shkeys")
        PROVE  /\ Base' /\ UNCHANGED <<kbd, taken>>
               /\ pc' \in {"shkeys", "shclose"} \/ (pc' = "cat" /\ cat'.back = "shkeys")
    <2>1. 0 \in Nat /\ cat_open(p, 0, pc)
      BY <1>1, <1>3
    <2>2. Base' /\ UNCHANGED <<kbd, taken>>
      BY <1>1, <2>1, CatOpenBase
    <2>3. pc' = "shkeys" \/ (pc' = "cat" /\ cat'.back = "shkeys")
      BY <1>3 DEF cat_open
    <2> QED BY <2>2, <2>3
  <1>4. ASSUME net_demo(socks), UNCHANGED <<nodes, held, kbd, taken, ret, buf, cat, pc, cats>>
        PROVE  Base'
    BY <1>1, <1>4, NetBase
  <1>5. ASSUME UNCHANGED <<fsvars, cat, cats>>, pc' \in {pc, "shclose"}
        PROVE  Base' /\ UNCHANGED <<kbd, taken>>
    <2>1. UNCHANGED <<nodes, fds, socks, held, kbd, taken, ret, buf>>
      BY <1>5 DEF fsvars, tables
    <2> QED BY <1>1, <1>2, <1>5, <2>1, QuietBase
  <1>6. \/ eval(line)
        \/ UNCHANGED <<fsvars, cat, cats>> /\ pc' = pc
    BY DEF sh_key
  <1>7. \/ \E p \in CatPaths : cat_open(p, 0, "shkeys")
        \/ net_demo(socks) /\ UNCHANGED <<nodes, held, kbd, taken, ret, buf, cat, pc, cats>>
        \/ UNCHANGED <<fsvars, cat, cats>> /\ pc' \in {pc, "shclose"}
    BY <1>6 DEF eval
  <1> QED
    BY <1>1, <1>3, <1>4, <1>5, <1>7

LEMMA KeyInv == Inv /\ sh_key => Inv'
  <1> SUFFICES ASSUME Inv, sh_key PROVE Inv'
    OBVIOUS
  <1>1. /\ pc = "shkeys" /\ chunk # <<>> /\ idle' = 0 /\ typed' = typed
        /\ chunk' = Tail(chunk) /\ seen' = Append(seen, Head(chunk))
    BY DEF sh_key, keys
  <1>2. /\ Base' /\ kbd' = kbd /\ taken' = taken
        /\ pc' \in {"shkeys", "shclose"} \/ (pc' = "cat" /\ cat'.back = "shkeys")
    BY KeyBase DEF Inv
  <1>3. /\ kbd \in Seq(Octet) /\ taken \in Seq(Octet) /\ chunk \in Seq(Octet) /\ seen \in Seq(Octet)
        /\ Len(chunk) <= ShellBuf /\ typed \in Seq(Octet)
    BY DEF Inv, Reading, Base, FilesOK
  <1>4. Head(chunk) \in Octet /\ Tail(chunk) \in Seq(Octet) /\ Len(Tail(chunk)) = Len(chunk) - 1 /\ Len(chunk) \in Nat
    BY <1>1, <1>3, HeadTailProperties, LenProperties
  <1>5. Append(seen, Head(chunk)) \in Seq(Octet)
    BY <1>3, <1>4, AppendProperties
  <1>6. Line(taken, seen', chunk', kbd) = Line(taken, seen, chunk, kbd)
    <2>1. seen' \in Seq(Octet) /\ chunk' \in Seq(Octet) /\ Joined(seen', chunk') = Joined(seen, chunk)
      <3>1. Moved(seen, chunk, seen', chunk')
        BY <1>1 DEF Moved
      <3> QED BY <1>3, <3>1, JoinedHead
    <2> QED BY <1>3, <2>1, LineActs
  <1>7. KeysOK'
    <2>1. CatSparesKeyboard => typed = Line(taken, seen, chunk, kbd)
      BY KeysAreLine DEF Inv, KeysOK
    <2>2. CatSparesKeyboard => typed' = Line(taken', seen', chunk', kbd')
      BY <1>1, <1>2, <1>6, <2>1
    <2> QED BY <2>2 DEF KeysOK, KeysReachShell, Line, Joined
  <1>8. InShell'
    BY <1>2 DEF InShell, InCat
  <1>9. ShellBuf \in Nat /\ IdleMax \in Nat
    BY SessionAssumption DEF SessionAssumption
  <1>10. chunk' \in Seq(Octet) /\ seen' \in Seq(Octet) /\ Len(chunk') <= ShellBuf
    <2>1. Len(chunk') = Len(chunk) - 1
      BY <1>1, <1>4
    <2>2. Len(chunk') <= ShellBuf
      BY <1>3, <1>4, <1>9, <2>1
    <2> QED BY <1>1, <1>4, <1>5, <2>2
  <1>11. Reading'
    BY <1>1, <1>2, <1>3, <1>8, <1>9, <1>10 DEF Reading
  <1> QED
    BY <1>2, <1>7, <1>11 DEF Inv

\* A key typed joins the end of the queue, whatever is running.
LEMMA InterruptInv == Inv /\ interrupt_handler => Inv'
  <1> SUFFICES ASSUME Inv, interrupt_handler PROVE Inv'
    OBVIOUS
  <1>1. /\ pc' = pc
        /\ UNCHANGED <<seen, chunk, idle, nodes, fds, socks, held, archive, left, cat, shfd, taken, ret, buf>>
        /\ \/ UNCHANGED <<kbd, typed>>
           \/ \E k \in Keys : kbd' = Append(kbd, k) /\ typed' = Append(typed, k)
    BY DEF interrupt_handler, tables, locals
  <1>2. /\ kbd \in Seq(Octet) /\ taken \in Seq(Octet) /\ chunk \in Seq(Octet) /\ seen \in Seq(Octet)
        /\ ret \in Int /\ buf \in Seq(Octet) /\ typed \in Seq(Octet) /\ Base
    BY DEF Inv, Reading, Base, FilesOK
  <1>3. (InShell' <=> InShell) /\ InShell' = InShell
    BY <1>1 DEF InShell, InCat
  <1>4. CASE UNCHANGED <<kbd, typed>>
    <2>1. Base'
      BY <1>1, <1>2, <1>4, QuietBase
    <2> QED BY <1>1, <1>3, <1>4, <2>1, StillKeys
  <1>5. ASSUME NEW k \in Keys, kbd' = Append(kbd, k), typed' = Append(typed, k)
        PROVE  Inv'
    <2>1. k \in Octet
      BY SessionAssumption DEF SessionAssumption, Octet
    <2>2. kbd' \in Seq(Octet) /\ typed' \in Seq(Octet)
      BY <1>2, <1>5, <2>1, AppendProperties
    <2>3. Base'
      BY <1>1, <1>2, <2>2, QuietBase
    <2>4. KeysOK'
      <3> DEFINE z == <<k>>
      <3>1. z \in Seq(Octet) /\ kbd' = kbd \o z /\ typed' = typed \o z
        BY <1>2, <1>5, <2>1, AppendIsConcat
      <3> HIDE DEF z
      <3>2. Line(taken, seen, chunk, kbd') = Joined(Line(taken, seen, chunk, kbd), z)
        <4>1. kbd' = Joined(kbd, z)
          BY <3>1 DEF Joined
        <4> QED BY <1>2, <3>1, <4>1, LineGrows
      <3>3. CatSparesKeyboard => typed = Line(taken, seen, chunk, kbd)
        BY KeysAreLine DEF Inv, KeysOK
      <3>4. CatSparesKeyboard => typed' = Line(taken', seen', chunk', kbd')
        <4>1. typed' = Joined(typed, z)
          BY <3>1 DEF Joined
        <4> QED BY <1>1, <3>2, <3>3, <4>1
      <3> QED BY <3>4 DEF KeysOK, KeysReachShell, Line, Joined
    <2>5. Reading'
      BY <1>1, <1>3, <2>2 DEF Inv, Reading
    <2> QED BY <2>3, <2>4, <2>5 DEF Inv
  <1> QED
    BY <1>1, <1>4, <1>5

LEMMA NextInv == Inv /\ [SessionNext]_all => Inv'
  <1> SUFFICES ASSUME Inv, [SessionNext]_all PROVE Inv'
    OBVIOUS
  <1>0. CASE UNCHANGED all
    <2>1. /\ pc' = pc
          /\ UNCHANGED <<typed, seen, chunk, idle, kbd, nodes, fds, socks, held, archive, left, cat, shfd, taken, ret, buf>>
      BY <1>0 DEF all, fsvars, tables, keys, locals
    <2>2. /\ kbd \in Seq(Octet) /\ taken \in Seq(Octet) /\ ret \in Int /\ buf \in Seq(Octet) /\ Base
      BY DEF Inv, Base, FilesOK
    <2>3. Base' /\ InShell' = InShell
      BY <2>1, <2>2, QuietBase DEF InShell, InCat
    <2> QED BY <2>1, <2>3, StillKeys
  <1>1. CASE SessionNext
    <2>1. CASE Step \/ interrupt_handler
      BY <2>1, BootInv, Phase7Inv, Phase8Inv, CatInv, ShellEndsInv, IdleInv, ReadKeyInv, KeyInv, InterruptInv, Zenon
      DEF Step
    <2>2. CASE UNCHANGED all
      BY <1>0, <2>2
    <2> QED BY <1>1, <2>1, <2>2 DEF SessionNext, Ended
  <1> QED
    BY <1>0, <1>1
-----------------------------------------------------------------------------
(* The properties.                                                         *)

LEMMA InvTypes == Inv => SessionTypeOK
  <1> SUFFICES ASSUME Inv PROVE SessionTypeOK
    OBVIOUS
  <1>1. FilesOK /\ Reading
    BY DEF Inv, Base
  <1>2. fds \in Seq(FileType) /\ Len(fds) <= MAX_FDS /\ ret \in Int
    BY <1>1 DEF FilesOK, FdsOK
  <1>3. \A i \in DOMAIN fds : fds[i] \in FileType
    <2>1. DOMAIN fds = 1..Len(fds)
      BY <1>2, LenProperties
    <2> QED BY <1>2, <2>1, ElementOfSeq
  <1>4. FileType = [inode : [kind : Kinds, at : Nat], offset : Nat]
    BY DEF FileType, InodeType
  <1>5. DOMAIN held \subseteq Fd
    BY <1>1, FilesSafe
  <1>6. idle \in 0..(IdleMax + 1) /\ Len(chunk) <= ShellBuf
    BY <1>1 DEF Reading
  <1> QED
    BY <1>2, <1>3, <1>4, <1>5, <1>6, Zenon DEF SessionTypeOK

LEMMA InvCloses == Inv => ClientsCloseFiles
  <1> SUFFICES ASSUME Inv, pc \in {"boot", "net", "sh", "done"} PROVE Opened = left
    BY DEF ClientsCloseFiles
  <1>1. FdsOK(fds) /\ Holding
    BY DEF Inv, Base, FilesOK
  <1>2. Mine = {}
    BY DEF Mine, InShell, InCat
  <1> QED
    BY <1>1, <1>2, OpenedIsUsed DEF Holding

\* When cat ends, its reads have returned the file from its first byte to its
\* last, or as many as fs_cat's buffer holds.
CatReadsFile ==
  pc = "catend" /\ InodeOf(cat.fd).kind = "node" =>
    LET data == nodes[InodeOf(cat.fd).at].data
    IN  held[cat.fd].got = SubSeq(data, 1, IF cat.limit = 0 THEN Len(data) ELSE Min({cat.limit, Len(data)}))

LEMMA InvReads == Inv => CatReadsFile
  <1> SUFFICES ASSUME Inv, pc = "catend", InodeOf(cat.fd).kind = "node"
               PROVE  LET data == nodes[InodeOf(cat.fd).at].data
                      IN  held[cat.fd].got
                            = SubSeq(data, 1, IF cat.limit = 0 THEN Len(data) ELSE Min({cat.limit, Len(data)}))
    BY Zenon DEF CatReadsFile
  <1> DEFINE fd == cat.fd
             f == Table(fds)[fd]
             data == nodes[f.inode.at].data
  <1>1. FdsOK(fds) /\ HeldIn(Table(fds), held, nodes) /\ Holding /\ CatOK /\ InCat
    BY DEF Inv, Base, FilesOK, InCat
  <1>2. fd \in DOMAIN held
    BY <1>1 DEF Holding, Mine, InCat
  <1>3. /\ fd \in Nat /\ f # NoFile
        /\ f.inode.kind = "node" => held[fd].got = SubSeq(data, 1, f.offset)
    BY <1>1, <1>2, Zenon DEF HeldIn
  <1>4. InodeOf(fd) = f.inode
    BY <1>1, <1>3, OpenIsEntry, Zenon
  <1>5. f.offset = Whole(cat.limit, data)
    BY <1>1, <1>4, Zenon DEF CatOK
  <1> QED
    BY <1>3, <1>4, <1>5, Zenon DEF Whole

LEMMA Invariance == SessionSpec => []Inv
  BY InitInv, NextInv, PTL DEF SessionSpec

\* The descriptor table never outgrows MAX_FDS, and every entry of it, the shell's
\* buffer and its idle count stay in range.
THEOREM SessionTypes == SessionSpec => []SessionTypeOK
  BY Invariance, InvTypes, PTL

\* Whatever programs, cat and the shell open, read and close in one shared table:
\* a descriptor between its open and its close denotes the file it was opened on,
\* and its reads return that file's bytes in order, each once.
THEOREM DescriptorsStay == SessionSpec => []HeldFilesStay
  <1>1. Inv => HeldFilesStay
    BY FilesSafe DEF Inv, Base
  <1> QED
    BY <1>1, Invariance, PTL

\* Two socket descriptors a program holds never share a socket, and the socket of
\* each is live, across closes, reused slots and programs that exit without close.
THEOREM SocketsStayApart == SessionSpec => []SocketsNotShared
  <1>1. Inv => SocketsNotShared
    BY FilesSafe DEF Inv, Base
  <1> QED
    BY <1>1, Invariance, PTL

\* fs_cat, phase7_demo, socket::demo, cmd_cat and the shell close what they open,
\* on every path through them, whatever descriptors programs have left open.
THEOREM ClientsClose == SessionSpec => []ClientsCloseFiles
  BY Invariance, InvCloses, PTL

\* What cmd_cat and fs_cat have to print from is the file they opened, whole, or
\* the part fs_cat's buffer holds, for every file and every size of the buffers.
THEOREM CatReadsToTheEnd == SessionSpec => []CatReadsFile
  BY Invariance, InvReads, PTL

\* No key is lost, doubled or overtaken between the interrupt handler and the
\* readers of /dev/kbd, when no cat is among them (cat would take keys from the
\* middle of the shell's input).
THEOREM KeysArrive == ASSUME CatSparesKeyboard PROVE SessionSpec => []KeysReachShell
  <1>1. Inv => KeysReachShell
    BY DEF Inv, KeysOK
  <1> QED
    BY <1>1, Invariance, PTL
=============================================================================
