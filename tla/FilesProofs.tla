----------------------------- MODULE FilesProofs -----------------------------
(***************************************************************************)
(* What each call of the descriptor layer (Files over Sockets and Vfs)     *)
(* does to the tables, for every table size and every sound tree: FilesOK  *)
(* is kept, and the table changes at the call's own descriptor only.       *)
(* SessionProofs rests on these lemmas.                                    *)
(***************************************************************************)
EXTENDS Files, SequenceTheorems, TLAPS

\* A byte, a key or a mark of cmd_cat.  The provers do not know that a literal is a STRING.
Octet == STRING \cup {"0", "datagram", "<binary>"}
-----------------------------------------------------------------------------
(* Minima and the bytes a read returns.                                    *)

\* The first of some slots of a vector of n exists.  The vectors grow by one slot
\* at a time, and the fact with them.
HasLeast(n) == \A S \in SUBSET (1..n) : S # {} => \E m \in S : \A y \in S : m <= y

LEMMA NoSlots == HasLeast(0)
  <1>1. 1..0 = {}
    OBVIOUS
  <1> QED
    BY <1>1, Zenon DEF HasLeast

LEMMA OneSlotMore ==
  ASSUME NEW n \in Nat, HasLeast(n)
  PROVE  HasLeast(n + 1)
  <1> SUFFICES ASSUME NEW S \in SUBSET (1..(n + 1)), S # {}
               PROVE  \E m \in S : \A y \in S : m <= y
    BY DEF HasLeast
  <1>1. S \cap (1..n) \in SUBSET (1..n) /\ \A y \in S : y \in 1..n \/ y = n + 1
    OBVIOUS
  <1>2. CASE S \cap (1..n) = {}
    <2>1. \A y \in S : y = n + 1
      BY <1>1, <1>2, Zenon
    <2>2. PICK m \in S : TRUE
      BY Zenon
    <2>3. \A y \in S : m <= y
      BY <2>1
    <2> QED BY <2>3, Zenon
  <1>3. CASE S \cap (1..n) # {}
    <2>1. PICK m \in S \cap (1..n) : \A y \in S \cap (1..n) : m <= y
      BY <1>1, <1>3, Zenon DEF HasLeast
    <2> QED BY <1>1, <2>1
  <1> QED
    BY <1>2, <1>3

LEMMA LeastSlot ==
  ASSUME NEW n, HasLeast(n), NEW S, S \subseteq 1..n, S # {}
  PROVE  Min(S) \in S /\ \A y \in S : Min(S) <= y
  <1>1. \E m \in S : \A y \in S : m <= y
    BY Zenon DEF HasLeast
  <1> QED
    BY <1>1, Zenon DEF Min

LEMMA MinOfTwo ==
  ASSUME NEW a \in Nat, NEW b \in Nat
  PROVE  Min({a, b}) = IF a <= b THEN a ELSE b
  <1> DEFINE S == {a, b}
             m == IF a <= b THEN a ELSE b
  <1>1. m \in S /\ m <= a /\ m <= b
    OBVIOUS
  <1>2. \E x \in S : \A y \in S : x <= y
    BY <1>1
  <1>3. Min(S) \in S /\ \A y \in S : Min(S) <= y
    BY <1>2, Zenon DEF Min
  <1>4. Min(S) \in {a, b} /\ Min(S) <= a /\ Min(S) <= b
    BY <1>3
  <1> QED
    BY <1>4

\* The last byte of a read of n bytes at the offset.
LEMMA PartOf ==
  ASSUME NEW b \in Seq(Octet), NEW off \in Nat, NEW n \in Nat
  PROVE  /\ Part(b, off, n) \in Seq(Octet)
         /\ Len(Part(b, off, n)) <= n
         /\ off <= Len(b) =>
              /\ off + Len(Part(b, off, n)) <= Len(b)
              /\ SubSeq(b, 1, off) \o Part(b, off, n) = SubSeq(b, 1, off + Len(Part(b, off, n)))
              /\ n > 0 /\ Part(b, off, n) = <<>> => off = Len(b)
  <1> DEFINE e == Min({off + n, Len(b)})
             p == SubSeq(b, off + 1, e)
  <1>1. Len(b) \in Nat /\ \A i \in 1..Len(b) : b[i] \in Octet
    BY LenProperties, ElementOfSeq
  <1>2. e = IF off + n <= Len(b) THEN off + n ELSE Len(b)
    <2>1. off + n \in Nat
      OBVIOUS
    <2> QED BY <1>1, <2>1, MinOfTwo
  <1>3. Part(b, off, n) = p
    BY DEF Part
  <1> HIDE DEF e
  <1>4. e \in Nat /\ e <= Len(b) /\ e <= off + n
    BY <1>1, <1>2
  <1>5. /\ p \in Seq(Octet)
        /\ Len(p) = IF off + 1 <= e THEN e - (off + 1) + 1 ELSE 0
    <2>1. \A i \in (off + 1)..e : b[i] \in Octet
      BY <1>1, <1>4
    <2>2. off + 1 \in Int /\ e \in Int
      BY <1>4
    <2> QED BY <2>1, <2>2, SubSeqProperties
  <1>6. CASE off > Len(b)
    BY <1>1, <1>3, <1>4, <1>5, <1>6
  <1>7. CASE off <= Len(b)
    <2>1. e >= off /\ Len(p) = e - off
      BY <1>1, <1>2, <1>4, <1>5, <1>7
    <2>2. SubSeq(b, 1, off) \o p = SubSeq(b, 1, e)
      <3>1. 1 \in 1..(Len(b) + 1) /\ off \in (1 - 1)..Len(b) /\ e \in off..Len(b)
        BY <1>1, <1>4, <1>7, <2>1
      <3> QED BY <3>1, ConcatAdjacentSubSeq
    <2>3. off + Len(p) = e
      BY <1>4, <2>1
    <2>4. p = <<>> => Len(p) = 0
      BY EmptySeq, Zenon
    <2>5. n > 0 /\ p = <<>> => off = Len(b)
      BY <1>1, <1>2, <2>1, <2>4
    <2> HIDE DEF p
    <2> QED BY <1>1, <1>3, <1>4, <1>5, <1>7, <2>1, <2>2, <2>3, <2>5
  <1> QED
    BY <1>1, <1>6, <1>7

LEMMA Associative ==
  ASSUME NEW s \in Seq(Octet), NEW t \in Seq(Octet), NEW u \in Seq(Octet)
  PROVE  /\ (s \o t) \o u = s \o (t \o u)
         /\ s \o t \in Seq(Octet)
  BY ConcatAssociative, ConcatProperties

\* What a read of a queue takes is its front, and the rest stays.
LEMMA PartAndRest ==
  ASSUME NEW b \in Seq(Octet), NEW n \in Nat
  PROVE  /\ Part(b, 0, n) \o SubSeq(b, Len(Part(b, 0, n)) + 1, Len(b)) = b
         /\ SubSeq(b, Len(Part(b, 0, n)) + 1, Len(b)) \in Seq(Octet)
  <1> DEFINE k == Len(Part(b, 0, n))
  <1>1. Len(b) \in Nat /\ \A i \in 1..Len(b) : b[i] \in Octet
    BY LenProperties, ElementOfSeq
  <1>2. /\ Part(b, 0, n) \in Seq(Octet)
        /\ 0 + k <= Len(b)
        /\ SubSeq(b, 1, 0) \o Part(b, 0, n) = SubSeq(b, 1, 0 + k)
    BY <1>1, PartOf
  <1>3. k \in Nat
    BY <1>2, LenProperties
  <1>4. SubSeq(b, 1, 0) = <<>>
    BY SubSeqEmpty
  <1>5. Part(b, 0, n) = SubSeq(b, 1, k)
    BY <1>2, <1>3, <1>4, ConcatEmptySeq
  <1>6. SubSeq(b, 1, k) \o SubSeq(b, k + 1, Len(b)) = SubSeq(b, 1, Len(b))
    <2>1. 1 \in 1..(Len(b) + 1) /\ k \in (1 - 1)..Len(b) /\ Len(b) \in k..Len(b)
      BY <1>1, <1>2, <1>3
    <2> HIDE DEF k
    <2> QED BY <2>1, ConcatAdjacentSubSeq, Zenon
  <1>7. SubSeq(b, k + 1, Len(b)) \in Seq(Octet)
    <2>1. \A i \in (k + 1)..Len(b) : b[i] \in Octet
      BY <1>1, <1>3
    <2>2. k + 1 \in Int /\ Len(b) \in Int
      BY <1>1, <1>3
    <2> HIDE DEF k
    <2> QED BY <2>1, <2>2, SubSeqProperties
  <1> QED
    BY <1>5, <1>6, <1>7, SubSeqFull, Zenon
-----------------------------------------------------------------------------
(* The descriptor table as a total function: descriptors past the end of   *)
(* the vector are as free as a hole in it.                                 *)

InodeType == [kind : Kinds, at : Nat]
FileType  == [inode : InodeType, offset : Nat]

FdsOK(t) == t \in Seq(FileType) /\ Len(t) <= MAX_FDS /\ HasLeast(Len(t))

Table(t) == [fd \in Nat |-> IF fd + 1 <= Len(t) THEN t[fd + 1] ELSE NoFile]

LEMMA NoFileType == NoFile \in FileType /\ NoFile.inode.kind = "none"
  <1>1. Inode("none", 0) \in InodeType
    BY DEF InodeType, Inode, Kinds
  <1> QED
    BY <1>1 DEF NoFile, FileType, File, Inode

LEMMA TableType ==
  ASSUME NEW t, FdsOK(t)
  PROVE  /\ Len(t) \in Nat
         /\ Table(t) \in [Nat -> FileType]
         /\ \A fd \in Nat : fd + 1 \in DOMAIN t <=> fd + 1 <= Len(t)
         /\ \A fd \in Nat : fd + 1 <= Len(t) => Table(t)[fd] = t[fd + 1] /\ t[fd + 1] \in FileType
         /\ \A fd \in Nat : Table(t)[fd] # NoFile => fd + 1 <= Len(t) /\ fd \in Fd
  <1>1. Len(t) \in Nat /\ Len(t) <= MAX_FDS /\ MAX_FDS \in Nat
    BY FilesAssumption, LenProperties DEF FdsOK, FilesAssumption
  <1>2. \A i \in 1..Len(t) : t[i] \in FileType
    BY ElementOfSeq DEF FdsOK
  <1>3. \A fd \in Nat : fd + 1 <= Len(t) => t[fd + 1] \in FileType
    <2> SUFFICES ASSUME NEW fd \in Nat, fd + 1 <= Len(t) PROVE t[fd + 1] \in FileType
      OBVIOUS
    <2>1. fd + 1 \in 1..Len(t)
      BY <1>1
    <2> QED BY <1>2, <2>1
  <1>4. \A fd \in Nat : fd + 1 \in DOMAIN t <=> fd + 1 <= Len(t)
    <2>1. DOMAIN t = 1..Len(t)
      BY LenProperties DEF FdsOK
    <2> QED BY <1>1, <2>1
  <1>5. Table(t) \in [Nat -> FileType]
    BY <1>3, NoFileType DEF Table
  <1>6. \A fd \in Nat : /\ fd + 1 <= Len(t) => Table(t)[fd] = t[fd + 1]
                        /\ Table(t)[fd] # NoFile => fd + 1 <= Len(t)
    BY DEF Table
  <1>7. \A fd \in Nat : fd + 1 <= Len(t) => fd \in Fd
    BY <1>1 DEF Fd
  <1> QED
    BY <1>1, <1>3, <1>4, <1>5, <1>6, <1>7

\* A write of one slot of the vector.
LEMMA TableSet ==
  ASSUME NEW t, FdsOK(t), NEW fd \in Nat, fd + 1 <= Len(t), NEW f \in FileType
  PROVE  /\ FdsOK([t EXCEPT ![fd + 1] = f])
         /\ Len([t EXCEPT ![fd + 1] = f]) = Len(t)
         /\ Table([t EXCEPT ![fd + 1] = f]) = [Table(t) EXCEPT ![fd] = f]
  <1> DEFINE u == [t EXCEPT ![fd + 1] = f]
  <1>1. Len(t) \in Nat /\ Len(t) <= MAX_FDS
    BY TableType DEF FdsOK
  <1>2. fd + 1 \in 1..Len(t)
    BY <1>1
  <1>3. /\ u \in Seq(FileType) /\ Len(u) = Len(t)
        /\ \A j \in 1..Len(t) : u[j] = IF j = fd + 1 THEN f ELSE t[j]
    BY <1>2, ExceptSeq DEF FdsOK
  <1> HIDE DEF u
  <1>4. \A g \in Nat : Table(u)[g] = IF g = fd THEN f ELSE Table(t)[g]
    <2> SUFFICES ASSUME NEW g \in Nat PROVE Table(u)[g] = IF g = fd THEN f ELSE Table(t)[g]
      OBVIOUS
    <2>1. g + 1 <= Len(t) => g + 1 \in 1..Len(t)
      BY <1>1
    <2> QED BY <1>2, <1>3, <2>1 DEF Table
  <1>5. Table(u) = [Table(t) EXCEPT ![fd] = f]
    BY <1>4, Zenon DEF Table
  <1> QED
    BY <1>1, <1>3, <1>5 DEF u, FdsOK

\* A push at the end of the vector.
LEMMA TablePush ==
  ASSUME NEW t, FdsOK(t), Len(t) < MAX_FDS, NEW f \in FileType
  PROVE  /\ FdsOK(Append(t, f))
         /\ Table(Append(t, f)) = [Table(t) EXCEPT ![Len(t)] = f]
  <1> DEFINE u == Append(t, f)
  <1>1. Len(t) \in Nat /\ MAX_FDS \in Nat
    BY TableType, FilesAssumption DEF FilesAssumption
  <1>2. /\ u \in Seq(FileType) /\ Len(u) = Len(t) + 1
        /\ \A j \in 1..Len(t) : u[j] = t[j]
        /\ u[Len(t) + 1] = f
    BY AppendProperties DEF FdsOK
  <1> HIDE DEF u
  <1>3. \A g \in Nat : Table(u)[g] = IF g = Len(t) THEN f ELSE Table(t)[g]
    <2> SUFFICES ASSUME NEW g \in Nat PROVE Table(u)[g] = IF g = Len(t) THEN f ELSE Table(t)[g]
      OBVIOUS
    <2>1. g + 1 <= Len(t) => g + 1 \in 1..Len(t)
      BY <1>1
    <2>2. CASE g = Len(t)
      BY <1>1, <1>2, <2>2 DEF Table
    <2>3. CASE g # Len(t)
      BY <1>1, <1>2, <2>1, <2>3 DEF Table
    <2> QED BY <2>2, <2>3
  <1>4. Table(u) = [Table(t) EXCEPT ![Len(t)] = f]
    BY <1>1, <1>3, Zenon DEF Table
  <1> QED
    BY <1>1, <1>2, <1>4, OneSlotMore DEF u, FdsOK
-----------------------------------------------------------------------------
(* open and install_inode: the first hole, else a push.                    *)

LEMMA Errors ==
  /\ DOMAIN errno = {"Io", "NotFound", "PermissionDenied", "NotDir", "IsDir", "InvalidArg", "NoSpace"}
  /\ \A e \in DOMAIN errno : errno[e] \in Int /\ errno[e] < 0
  BY DEF errno

LEMMA FreeDescriptor ==
  ASSUME FdsOK(fds), HasRoom
  PROVE  /\ FreeFd \in Fd
         /\ Table(fds)[FreeFd] = NoFile
         /\ FreeFd < Len(fds) => FreeFd + 1 \in holes
         /\ FreeFd >= Len(fds) => FreeFd = Len(fds) /\ Len(fds) < MAX_FDS
  <1>1. /\ Len(fds) \in Nat /\ MAX_FDS \in Nat /\ Len(fds) <= MAX_FDS
    BY TableType, FilesAssumption DEF FilesAssumption, FdsOK
  <1>2. CASE holes # {}
    <2>1. holes \subseteq 1..Len(fds) /\ HasLeast(Len(fds))
      <3>1. DOMAIN fds = 1..Len(fds)
        BY LenProperties DEF FdsOK
      <3> QED BY <3>1 DEF holes, FdsOK
    <2>2. Min(holes) \in holes
      BY <1>2, <2>1, LeastSlot, Zenon
    <2>3. Min(holes) \in 1..Len(fds) /\ fds[Min(holes)] = NoFile
      <3>1. DOMAIN fds = 1..Len(fds)
        BY LenProperties DEF FdsOK
      <3> QED BY <2>2, <3>1 DEF holes
    <2>4. FreeFd = Min(holes) - 1
      BY <1>2 DEF FreeFd
    <2>5. FreeFd \in Nat /\ FreeFd + 1 = Min(holes) /\ FreeFd + 1 <= Len(fds)
      BY <1>1, <2>3, <2>4
    <2>6. Table(fds)[FreeFd] = NoFile
      BY <2>3, <2>5, TableType
    <2> QED BY <1>1, <2>2, <2>5, <2>6 DEF Fd
  <1>3. CASE holes = {}
    <2>1. FreeFd = Len(fds) /\ Len(fds) < MAX_FDS
      BY <1>3 DEF FreeFd, HasRoom
    <2>2. Table(fds)[FreeFd] = NoFile
      BY <1>1, <2>1 DEF Table
    <2> QED BY <1>1, <2>1, <2>2 DEF Fd
  <1> QED
    BY <1>2, <1>3

LEMMA Installed ==
  ASSUME FdsOK(fds), HasRoom, NEW inode \in InodeType
  PROVE  /\ FdsOK(install(inode))
         /\ Table(install(inode)) = [Table(fds) EXCEPT ![FreeFd] = File(inode)]
  <1>1. File(inode) \in FileType
    BY DEF File, FileType
  <1>2. FreeFd \in Nat /\ Len(fds) \in Nat
    BY FreeDescriptor, TableType DEF Fd
  <1>3. CASE FreeFd < Len(fds)
    <2>1. FreeFd + 1 <= Len(fds)
      BY <1>2, <1>3
    <2>2. install(inode) = [fds EXCEPT ![FreeFd + 1] = File(inode)]
      BY <1>3 DEF install
    <2> DEFINE n == FreeFd
               f == File(inode)
    <2>3. n \in Nat /\ n + 1 <= Len(fds) /\ f \in FileType
      BY <1>1, <1>2, <2>1
    <2> HIDE DEF n, f
    <2>4. /\ FdsOK([fds EXCEPT ![n + 1] = f])
          /\ Table([fds EXCEPT ![n + 1] = f]) = [Table(fds) EXCEPT ![n] = f]
      BY <2>3, TableSet
    <2> QED BY <2>2, <2>4 DEF n, f
  <1>4. CASE ~(FreeFd < Len(fds))
    <2>1. FreeFd = Len(fds) /\ Len(fds) < MAX_FDS
      BY <1>2, <1>4, FreeDescriptor
    <2>2. install(inode) = Append(fds, File(inode))
      BY <1>4 DEF install
    <2> QED BY <1>1, <2>1, <2>2, TablePush
  <1> QED
    BY <1>3, <1>4
-----------------------------------------------------------------------------
(* The socket table.                                                       *)

SockType == [proto : {"none", "udp", "tcp"}, local_port : Nat, peer : Nat, rx : Seq(Seq(Octet))]

SocksOK(t) ==
  /\ t \in Seq(SockType) /\ HasLeast(Len(t))
  /\ \A i \in 1..Len(t) : t[i].proto = "none" => t[i] = Vacant

Sound(s) == s \in SockType /\ (s.proto = "none" => s = Vacant)

LEMMA SocketFacts ==
  ASSUME NEW t, SocksOK(t)
  PROVE  /\ Len(t) \in Nat
         /\ \A i : i \in DOMAIN t <=> i \in 1..Len(t)
         /\ \A i \in 1..Len(t) : Sound(t[i])
         /\ \A i : Live(t, i) <=> i \in 1..Len(t) /\ t[i].proto # "none"
  <1>1. Len(t) \in Nat /\ DOMAIN t = 1..Len(t)
    BY LenProperties DEF SocksOK
  <1>2. \A i \in 1..Len(t) : t[i] \in SockType
    BY ElementOfSeq DEF SocksOK
  <1>3. Vacant.proto = "none"
    BY DEF Vacant
  <1>4. \A i : i \in DOMAIN t <=> i \in 1..Len(t)
    BY <1>1, Zenon
  <1>5. \A i : Live(t, i) <=> i \in 1..Len(t) /\ t[i].proto # "none"
    BY <1>3, <1>4 DEF Live, SocksOK
  <1> QED
    BY <1>1, <1>2, <1>4, <1>5 DEF SocksOK, Sound

LEMMA SocketSet ==
  ASSUME NEW t, SocksOK(t), NEW i \in 1..Len(t), NEW s, Sound(s)
  PROVE  /\ SocksOK([t EXCEPT ![i] = s])
         /\ \A j : j # i /\ Live(t, j) => Live([t EXCEPT ![i] = s], j)
         /\ s.proto # "none" => Live([t EXCEPT ![i] = s], i)
  <1> DEFINE u == [t EXCEPT ![i] = s]
  <1>1. /\ u \in Seq(SockType) /\ Len(u) = Len(t)
        /\ \A j \in 1..Len(t) : u[j] = IF j = i THEN s ELSE t[j]
    BY ExceptSeq DEF SocksOK, Sound
  <1> HIDE DEF u
  <1>2. SocksOK(u)
    BY <1>1 DEF SocksOK, Sound
  <1>3. \A j : j # i /\ Live(t, j) => Live(u, j)
    BY <1>1, <1>2, SocketFacts
  <1>4. s.proto # "none" => Live(u, i)
    BY <1>1, <1>2, SocketFacts
  <1> QED
    BY <1>2, <1>3, <1>4, Zenon DEF u

\* socket() takes a slot no live socket has, and disturbs none.
LEMMA NewSocket ==
  ASSUME NEW t, SocksOK(t), NEW proto \in {"udp", "tcp"}
  PROVE  /\ SocksOK(socket(t, proto))
         /\ Place(t) \in Nat /\ ~Live(t, Place(t)) /\ Live(socket(t, proto), Place(t))
         /\ \A j : Live(t, j) => Live(socket(t, proto), j)
  <1> DEFINE vacant == {i \in DOMAIN t : t[i] = Vacant}
             s == Fresh(proto)
  <1>1. Sound(s) /\ s.proto # "none"
    BY EmptySeq, Zenon DEF Sound, SockType, Fresh, Vacant, Unbound, NoPeer
  <1>2. Len(t) \in Nat /\ \A i : i \in DOMAIN t <=> i \in 1..Len(t)
    BY SocketFacts
  <1>3. CASE vacant = {}
    <2>1. Place(t) = Len(t) + 1
      BY <1>3 DEF Place
    <2>2. socket(t, proto) = Append(t, s)
      BY <1>2, <2>1 DEF socket
    <2> DEFINE u == Append(t, s)
    <2>3. /\ u \in Seq(SockType) /\ Len(u) = Len(t) + 1
          /\ \A j \in 1..Len(t) : u[j] = t[j]
          /\ u[Len(t) + 1] = s
      BY <1>1, AppendProperties DEF SocksOK, Sound
    <2> HIDE DEF u, s
    <2>4. SocksOK(u)
      <3>1. HasLeast(Len(u))
        BY <1>2, <2>3, OneSlotMore DEF SocksOK
      <3>2. \A j \in 1..Len(u) : j \in 1..Len(t) \/ j = Len(t) + 1
        BY <1>2, <2>3
      <3> QED BY <1>1, <2>3, <3>1, <3>2 DEF SocksOK, Sound
    <2>5. \A j : Live(t, j) => Live(u, j)
      BY <1>2, <2>3, <2>4, SocketFacts
    <2>6. Live(u, Len(t) + 1) /\ ~Live(t, Len(t) + 1)
      BY <1>1, <1>2, <2>3, <2>4, SocketFacts
    <2> QED BY <1>2, <2>1, <2>2, <2>4, <2>5, <2>6 DEF u
  <1>4. CASE vacant # {}
    <2>1. vacant \subseteq 1..Len(t) /\ HasLeast(Len(t))
      BY <1>2 DEF SocksOK
    <2>2. Place(t) = CHOOSE i \in vacant : \A j \in vacant : i <= j
      BY <1>4 DEF Place
    <2>3. Place(t) = Min(vacant)
      BY <2>2 DEF Min
    <2>4. Place(t) \in vacant
      <3> HIDE DEF vacant
      <3> QED BY <1>4, <2>1, <2>3, LeastSlot, Zenon
    <2>5. Place(t) \in 1..Len(t) /\ t[Place(t)] = Vacant
      BY <1>2, <2>4
    <2>6. ~Live(t, Place(t))
      BY <2>5 DEF Live
    <2>7. socket(t, proto) = [t EXCEPT ![Place(t)] = s]
      BY <1>2, <2>5 DEF socket
    <2> DEFINE at == Place(t)
    <2> HIDE DEF s, at
    <2>8. /\ SocksOK([t EXCEPT ![at] = s])
          /\ \A j : j # at /\ Live(t, j) => Live([t EXCEPT ![at] = s], j)
          /\ Live([t EXCEPT ![at] = s], at)
      <3>1. at \in 1..Len(t)
        BY <2>5 DEF at
      <3> QED BY <1>1, <3>1, SocketSet, Zenon
    <2>9. \A j : Live(t, j) => Live([t EXCEPT ![at] = s], j)
      BY <2>6, <2>8, Zenon DEF at
    <2>10. socket(t, proto) = [t EXCEPT ![at] = s] /\ at \in Nat
      BY <1>2, <2>5, <2>7 DEF at
    <2> QED BY <2>6, <2>8, <2>9, <2>10, Zenon DEF at
  <1> QED
    BY <1>3, <1>4

\* bind, connect, recvfrom, deliver and close keep the table sound, and all but
\* close keep the sockets there are.
Keeps(t, u) == SocksOK(u) /\ \A j : Live(t, j) => Live(u, j)

LEMMA SocketUpdate ==
  ASSUME NEW t, SocksOK(t), NEW i, Live(t, i), NEW s \in SockType, s.proto = t[i].proto
  PROVE  Keeps(t, [t EXCEPT ![i] = s])
  <1>1. i \in 1..Len(t) /\ t[i].proto # "none"
    BY SocketFacts
  <1>2. Sound(s)
    BY <1>1 DEF Sound
  <1> QED
    BY <1>1, <1>2, SocketSet, Zenon DEF Keeps

LEMMA BindConnect ==
  ASSUME NEW t, SocksOK(t), NEW i, NEW n \in Nat
  PROVE  Keeps(t, bind(t, i, n)) /\ Keeps(t, connect(t, i, n))
  <1>1. CASE ~Live(t, i)
    BY <1>1 DEF bind, connect, Keeps
  <1>2. CASE Live(t, i)
    <2>1. t[i] \in SockType
      BY <1>2, SocketFacts DEF Sound
    <2> DEFINE b == [t[i] EXCEPT !.local_port = n]
               c == [t[i] EXCEPT !.peer = n]
    <2>2. b \in SockType /\ b.proto = t[i].proto /\ c \in SockType /\ c.proto = t[i].proto
      BY <2>1, Zenon DEF SockType
    <2>3. bind(t, i, n) = [t EXCEPT ![i] = b] /\ connect(t, i, n) = [t EXCEPT ![i] = c]
      BY <1>2 DEF bind, connect
    <2> HIDE DEF b, c
    <2>4. Keeps(t, [t EXCEPT ![i] = b])
      BY <1>2, <2>2, SocketUpdate
    <2>5. Keeps(t, [t EXCEPT ![i] = c])
      BY <1>2, <2>2, SocketUpdate
    <2> QED BY <2>3, <2>4, <2>5
  <1> QED
    BY <1>1, <1>2

LEMMA Received ==
  ASSUME NEW t, SocksOK(t), NEW i
  PROVE  /\ Keeps(t, recvfrom(t, i))
         /\ Queue(t, i) \in Seq(Seq(Octet))
  <1>1. Queue(t, i) \in Seq(Seq(Octet))
    BY SocketFacts, EmptySeq DEF Queue, Sound, SockType
  <1>2. CASE Queue(t, i) = <<>>
    BY <1>1, <1>2 DEF recvfrom, Keeps
  <1>3. CASE Queue(t, i) # <<>>
    <2>1. Live(t, i) /\ t[i].rx = Queue(t, i)
      BY <1>3 DEF Queue
    <2>2. t[i] \in SockType
      BY <2>1, SocketFacts DEF Sound
    <2>3. Tail(t[i].rx) \in Seq(Seq(Octet))
      BY <1>1, <1>3, <2>1, HeadTailProperties
    <2> DEFINE r == Tail(t[i].rx)
               s == [t[i] EXCEPT !.rx = r]
    <2>4. recvfrom(t, i) = [t EXCEPT ![i] = s]
      BY <1>3 DEF recvfrom
    <2>5. s \in SockType /\ s.proto = t[i].proto
      <3> HIDE DEF r
      <3> QED BY <2>2, <2>3, Zenon DEF SockType, r
    <2> HIDE DEF s
    <2>6. Keeps(t, [t EXCEPT ![i] = s])
      BY <2>1, <2>5, SocketUpdate
    <2> QED BY <1>1, <2>4, <2>6
  <1> QED
    BY <1>2, <1>3

LEMMA Delivered ==
  ASSUME NEW t, SocksOK(t), NEW port \in Nat, NEW d \in Seq(Octet)
  PROVE  Keeps(t, deliver(t, port, d))
  <1> DEFINE u == deliver(t, port, d)
             s(i) == [t[i] EXCEPT !.rx = Append(t[i].rx, d)]
  <1>1. Len(t) \in Nat /\ DOMAIN t = 1..Len(t) /\ \A i \in 1..Len(t) : Sound(t[i])
    BY LenProperties, SocketFacts DEF SocksOK
  <1>2. u = [i \in 1..Len(t) |-> IF i \in Receivers(t, port) THEN s(i) ELSE t[i]]
    BY <1>1, Zenon DEF deliver
  <1>3. ASSUME NEW i \in 1..Len(t)
        PROVE  u[i] \in SockType /\ u[i].proto = t[i].proto /\ (u[i].proto = "none" => u[i] = t[i])
    <2>1. t[i] \in SockType
      BY <1>1 DEF Sound
    <2>2. Append(t[i].rx, d) \in Seq(Seq(Octet))
      <3>1. t[i].rx \in Seq(Seq(Octet))
        BY <2>1 DEF SockType
      <3> QED BY <3>1, AppendProperties
    <2>3. s(i) \in SockType /\ s(i).proto = t[i].proto
      BY <2>1, <2>2, Zenon DEF SockType
    <2>4. i \in Receivers(t, port) => t[i].proto = "udp"
      BY DEF Receivers
    <2>5. u[i] = IF i \in Receivers(t, port) THEN s(i) ELSE t[i]
      BY <1>2, Zenon
    <2> QED BY <2>1, <2>3, <2>4, <2>5
  <1>4. u \in Seq(SockType) /\ Len(u) = Len(t)
    <2>1. u \in [1..Len(t) -> SockType]
      BY <1>2, <1>3, Zenon
    <2> HIDE DEF u
    <2> QED BY <1>1, <2>1, SeqDef
  <1> HIDE DEF u
  <1>5. SocksOK(u)
    BY <1>1, <1>3, <1>4 DEF SocksOK, Sound
  <1>6. \A j : Live(t, j) => Live(u, j)
    BY <1>3, <1>4, <1>5, SocketFacts
  <1> QED
    BY <1>5, <1>6 DEF u, Keeps

LEMMA Closed ==
  ASSUME NEW t, SocksOK(t), NEW i
  PROVE  SocksOK(close(t, i))
  <1>1. Sound(Vacant)
    BY EmptySeq DEF Sound, SockType, Vacant, Unbound, NoPeer
  <1> QED
    BY <1>1, SocketFacts, SocketSet DEF close
-----------------------------------------------------------------------------
(* What every call of the layer keeps, seen through Table.                 *)

HeldType == [inode : InodeType, got : Seq(Octet)]

TreeOK(ns) == DOMAIN ns \subseteq Nat /\ \A i \in DOMAIN ns : ns[i].data \in Seq(Octet)

\* An offset never passes the end of its file.
Offsets(tab, ns) ==
  \A fd \in Nat : tab[fd].inode.kind = "node" =>
    /\ tab[fd].inode.at \in DOMAIN ns
    /\ tab[fd].offset <= Len(ns[tab[fd].inode.at].data)

HeldIn(tab, h, ns) ==
  /\ DOMAIN h \subseteq Nat
  /\ \A fd \in DOMAIN h :
       /\ h[fd] \in HeldType
       /\ tab[fd] # NoFile /\ tab[fd].inode = h[fd].inode
       /\ tab[fd].inode.kind = "node" =>
            h[fd].got = SubSeq(ns[tab[fd].inode.at].data, 1, tab[fd].offset)

OwnSockets(h, t) ==
  \A a, b \in DOMAIN h : h[a].inode.kind = "sock" /\ h[b].inode.kind = "sock" =>
    /\ Live(t, h[a].inode.at)
    /\ h[a].inode.at = h[b].inode.at => a = b

FilesOK ==
  /\ TreeOK(nodes)
  /\ FdsOK(fds) /\ Offsets(Table(fds), nodes)
  /\ HeldIn(Table(fds), held, nodes)
  /\ SocksOK(socks) /\ OwnSockets(held, socks)
  /\ kbd \in Seq(Octet) /\ taken \in Seq(Octet)
  /\ ret \in Int /\ buf \in Seq(Octet)

LEMMA OpenIsEntry ==
  ASSUME FdsOK(fds), NEW fd \in Nat
  PROVE  /\ IsOpen(fd) <=> Table(fds)[fd] # NoFile
         /\ IsOpen(fd) => /\ fds[fd + 1] = Table(fds)[fd]
                          /\ InodeOf(fd) = Table(fds)[fd].inode
                          /\ fd + 1 <= Len(fds) /\ fd \in Fd
  <1>1. /\ fd + 1 \in DOMAIN fds <=> fd + 1 <= Len(fds)
        /\ fd + 1 <= Len(fds) => Table(fds)[fd] = fds[fd + 1]
        /\ Table(fds)[fd] # NoFile => fd + 1 <= Len(fds) /\ fd \in Fd
    BY TableType
  <1> QED
    BY <1>1 DEF IsOpen, InodeOf

\* The inodes there are to open: a path's, or a new socket's.
Openable == Inodes(nodes) \cup [kind : {"sock"}, at : Nat]

LEMMA Answers ==
  ASSUME FdsOK(fds), TreeOK(nodes), NEW inode \in Openable
  PROVE  \/ Answer(inode) \in Int /\ Answer(inode) < 0
         \/ /\ HasRoom /\ Answer(inode) = FreeFd /\ FreeFd \in Fd
            /\ inode \in InodeType /\ inode.kind # "none"
  <1>1. CASE inode.kind \in DOMAIN errno
    BY <1>1, Errors DEF Answer
  <1>2. CASE inode.kind \notin DOMAIN errno /\ ~HasRoom
    BY <1>2, Errors DEF Answer
  <1>3. CASE inode.kind \notin DOMAIN errno /\ HasRoom
    <2>1. Answer(inode) = FreeFd /\ FreeFd \in Fd
      BY <1>3, FreeDescriptor DEF Answer
    <2>2. inode.kind \notin {"NotFound", "InvalidArg"}
      BY <1>3, Errors
    <2>3. inode \in InodeType /\ inode.kind # "none"
      <3>1. CASE inode \in [kind : Devices \cup {"devdir", "procdir", "proc", "NotFound", "InvalidArg"}, at : {0}]
        BY <2>2, <3>1 DEF InodeType, Kinds, Devices
      <3>2. CASE inode \in [kind : {"node"}, at : DOMAIN nodes]
        BY <3>2 DEF InodeType, Kinds, TreeOK
      <3>3. CASE inode \in [kind : {"sock"}, at : Nat]
        BY <3>3 DEF InodeType, Kinds
      <3> QED BY <3>1, <3>2, <3>3 DEF Openable, Inodes
    <2> QED BY <1>3, <2>1, <2>3
  <1> QED
    BY <1>1, <1>2, <1>3

\* What open changes.
OpenedAs(inode) ==
  /\ ret' \in Fd /\ Table(fds)[ret'] = NoFile /\ ret' \notin DOMAIN held
  /\ Table(fds') = [Table(fds) EXCEPT ![ret'] = File(inode)]
  /\ DOMAIN held' = DOMAIN held \cup {ret'}
  /\ held'[ret'] = [inode |-> inode, got |-> <<>>]
  /\ \A g \in DOMAIN held : held'[g] = held[g]

LEMMA OpenStep ==
  ASSUME FilesOK, NEW inode \in Openable, open(inode), UNCHANGED <<nodes, kbd, taken>>,
         Keeps(socks, socks'),
         inode.kind = "sock" => ~Live(socks, inode.at) /\ Live(socks', inode.at)
  PROVE  /\ FilesOK'
         /\ buf' = <<>>
         /\ \/ ret' < 0 /\ UNCHANGED <<fds, held>>
            \/ inode \in InodeType /\ inode.kind # "none" /\ OpenedAs(inode)
  <1> DEFINE tab == Table(fds)
             tab2 == Table(fds')
  <1>1. /\ FdsOK(fds) /\ TreeOK(nodes) /\ Offsets(tab, nodes) /\ HeldIn(tab, held, nodes)
        /\ SocksOK(socks) /\ OwnSockets(held, socks)
    BY DEF FilesOK
  <1>2. /\ ret' = Answer(inode) /\ buf' = <<>> /\ nodes' = nodes /\ kbd' = kbd /\ taken' = taken
        /\ SocksOK(socks') /\ \A j : Live(socks, j) => Live(socks', j)
    BY DEF open, Keeps
  <1>3. TreeOK(nodes') /\ kbd' \in Seq(Octet) /\ taken' \in Seq(Octet) /\ buf' \in Seq(Octet)
    BY <1>1, <1>2, EmptySeq DEF FilesOK, TreeOK
  <1>4. CASE Answer(inode) \in Int /\ Answer(inode) < 0
    <2>1. fds' = fds /\ held' = held
      BY <1>2, <1>4 DEF open
    <2>2. OwnSockets(held', socks')
      BY <1>1, <1>2, <2>1 DEF OwnSockets
    <2>3. FdsOK(fds') /\ Offsets(tab2, nodes') /\ HeldIn(tab2, held', nodes')
      BY <1>1, <1>2, <2>1
    <2> QED BY <1>2, <1>3, <1>4, <2>1, <2>2, <2>3 DEF FilesOK
  <1>5. CASE /\ HasRoom /\ Answer(inode) = FreeFd /\ FreeFd \in Fd
             /\ inode \in InodeType /\ inode.kind # "none"
    <2>1. /\ ret' = FreeFd /\ ret' \in Nat /\ ret' \in Int /\ ~(ret' < 0)
      BY <1>2, <1>5, FilesAssumption DEF Fd, FilesAssumption
    <2>2. /\ fds' = install(inode)
          /\ held' = [g \in DOMAIN held \cup {ret'} |->
                        IF g \in DOMAIN held THEN held[g] ELSE [inode |-> inode, got |-> <<>>]]
      BY <2>1 DEF open
    <2>3. /\ FdsOK(fds') /\ tab2 = [tab EXCEPT ![ret'] = File(inode)]
          /\ tab[ret'] = NoFile /\ tab \in [Nat -> FileType]
      BY <1>1, <1>5, <2>1, <2>2, Installed, FreeDescriptor, TableType
    <2>4. ret' \notin DOMAIN held
      BY <1>1, <2>3 DEF HeldIn
    <2> DEFINE r == [inode |-> inode, got |-> <<>>]
    <2>5. /\ DOMAIN held' = DOMAIN held \cup {ret'}
          /\ held'[ret'] = r
          /\ \A g \in DOMAIN held : held'[g] = held[g]
      <3>1. held' = [g \in DOMAIN held \cup {ret'} |-> IF g \in DOMAIN held THEN held[g] ELSE r]
        BY <2>2
      <3> HIDE DEF r
      <3> QED BY <2>4, <3>1
    <2>6. /\ tab2[ret'] = File(inode) /\ \A g \in Nat : g # ret' => tab2[g] = tab[g]
      BY <2>1, <2>3
    <2> HIDE DEF tab, tab2
    <2>7. /\ File(inode).inode = inode /\ File(inode).offset = 0 /\ File(inode) # NoFile
      BY <1>5, NoFileType DEF File
    <2>8. inode.kind = "node" => inode.at \in DOMAIN nodes /\ Len(nodes[inode.at].data) \in Nat
      <3>1. inode.kind = "node" => inode.at \in DOMAIN nodes
        BY DEF Openable, Inodes, Devices
      <3> QED BY <1>1, <3>1, LenProperties DEF TreeOK
    <2>9. Offsets(tab2, nodes')
      <3> SUFFICES ASSUME NEW g \in Nat, tab2[g].inode.kind = "node"
                   PROVE  /\ tab2[g].inode.at \in DOMAIN nodes
                          /\ tab2[g].offset <= Len(nodes[tab2[g].inode.at].data)
        BY <1>2 DEF Offsets
      <3>1. CASE g = ret'
        BY <2>6, <2>7, <2>8, <3>1
      <3>2. CASE g # ret'
        BY <1>1, <2>6, <3>2 DEF Offsets
      <3> QED BY <3>1, <3>2
    <2>10. r \in HeldType /\ r.inode = inode /\ r.got = <<>>
      BY <1>5, EmptySeq DEF HeldType
    <2> HIDE DEF r
    <2>11. HeldIn(tab2, held', nodes')
      <3>1. ASSUME NEW g \in DOMAIN held'
            PROVE  /\ g \in Nat /\ held'[g] \in HeldType
                   /\ tab2[g] # NoFile /\ tab2[g].inode = held'[g].inode
                   /\ tab2[g].inode.kind = "node" =>
                        held'[g].got = SubSeq(nodes[tab2[g].inode.at].data, 1, tab2[g].offset)
        <4>1. CASE g = ret'
          <5>1. SubSeq(nodes[inode.at].data, 1, 0) = <<>>
            BY SubSeqEmpty
          <5> QED BY <2>1, <2>5, <2>6, <2>7, <2>10, <4>1, <5>1, Zenon
        <4>2. CASE g # ret'
          <5>1. g \in DOMAIN held /\ held'[g] = held[g]
            BY <2>5, <4>2
          <5> QED BY <1>1, <2>6, <4>2, <5>1 DEF HeldIn
        <4> QED BY <4>1, <4>2
      <3> QED BY <1>2, <3>1 DEF HeldIn
    <2>12. OwnSockets(held', socks')
      <3> SUFFICES ASSUME NEW a \in DOMAIN held', NEW b \in DOMAIN held',
                          held'[a].inode.kind = "sock", held'[b].inode.kind = "sock"
                   PROVE  /\ Live(socks', held'[a].inode.at)
                          /\ held'[a].inode.at = held'[b].inode.at => a = b
        BY DEF OwnSockets
      <3>1. ASSUME NEW g \in DOMAIN held', g # ret'
            PROVE  g \in DOMAIN held /\ held'[g] = held[g]
        BY <2>5, <3>1
      <3>2. CASE a # ret' /\ b # ret'
        BY <1>1, <1>2, <3>1, <3>2 DEF OwnSockets
      <3>3. CASE a = ret' /\ b = ret'
        BY <2>5, <2>10, <3>3
      <3>4. CASE a = ret' /\ b # ret'
        BY <1>1, <2>5, <2>10, <3>1, <3>4 DEF OwnSockets
      <3>5. CASE a # ret' /\ b = ret'
        BY <1>1, <1>2, <2>5, <2>10, <3>1, <3>5 DEF OwnSockets
      <3> QED BY <3>2, <3>3, <3>4, <3>5
    <2>13. FilesOK'
      BY <1>2, <1>3, <2>1, <2>3, <2>9, <2>11, <2>12 DEF FilesOK, tab2
    <2>14. OpenedAs(inode)
      BY <1>2, <1>5, <2>1, <2>3, <2>4, <2>5 DEF OpenedAs, r, tab, tab2
    <2> QED BY <1>2, <1>5, <2>13, <2>14
  <1> QED
    BY <1>1, <1>4, <1>5, Answers

\* A read returns at most n bytes, and of a file or of the keyboard the next ones.
LEMMA Reads ==
  ASSUME FilesOK, NEW f \in FileType, NEW n \in Nat, NEW data \in Readable(f, n),
         f.inode.kind = "node" => f.inode.at \in DOMAIN nodes
  PROVE  /\ data \in Seq(Octet) /\ Len(data) <= n
         /\ f.inode.kind = "node" => data = Part(nodes[f.inode.at].data, f.offset, n)
         /\ f.inode.kind = "kbd" => data = Part(kbd, 0, n)
  <1>1. f.offset \in Nat
    BY DEF FileType
  <1>2. CASE f.inode.kind = "node"
    <2>1. data = Part(nodes[f.inode.at].data, f.offset, n)
      BY <1>2 DEF Readable
    <2>2. nodes[f.inode.at].data \in Seq(Octet)
      BY <1>2 DEF FilesOK, TreeOK
    <2> QED BY <1>1, <1>2, <2>1, <2>2, PartOf
  <1>3. CASE f.inode.kind = "proc"
    <2>1. PICK t \in ProcTexts : data = Part(t, f.offset, n)
      BY <1>3 DEF Readable
    <2>2. t \in Seq(Octet)
      <3>1. t \in Seq(STRING) /\ STRING \subseteq Octet
        BY FilesAssumption DEF FilesAssumption, Octet
      <3> QED BY <3>1, SeqMonotonic, Zenon
    <2> QED BY <1>1, <1>3, <2>1, <2>2, PartOf
  <1>4. CASE f.inode.kind = "zero"
    <2>1. data = [i \in 1..n |-> "0"]
      BY <1>4 DEF Readable
    <2>2. data \in [1..n -> Octet]
      BY <2>1 DEF Octet
    <2>3. data \in Seq(Octet) /\ Len(data) = n
      BY <2>1, <2>2, SeqDef
    <2> QED BY <1>4, <2>3
  <1>5. CASE f.inode.kind = "kbd"
    <2>1. data = Part(kbd, 0, n)
      BY <1>5 DEF Readable
    <2> QED BY <1>5, <2>1, PartOf DEF FilesOK
  <1>6. CASE f.inode.kind = "sock"
    <2> DEFINE q == Queue(socks, f.inode.at)
    <2>1. data = IF q = <<>> THEN <<>> ELSE Part(Head(q), 0, n)
      BY <1>6 DEF Readable
    <2>2. q \in Seq(Seq(Octet))
      BY Received DEF FilesOK
    <2> HIDE DEF q
    <2>3. CASE q = <<>>
      BY <1>6, <2>1, <2>3, EmptySeq
    <2>4. CASE q # <<>>
      <3>1. Head(q) \in Seq(Octet)
        BY <2>2, <2>4, HeadTailProperties
      <3> QED BY <1>6, <2>1, <2>4, <3>1, PartOf
    <2> QED BY <2>3, <2>4
  <1>7. CASE f.inode.kind \notin {"node", "proc", "zero", "kbd", "sock"}
    <2>1. data = <<>>
      BY <1>7 DEF Readable
    <2> QED BY <1>7, <2>1, EmptySeq
  <1> QED
    BY <1>2, <1>3, <1>4, <1>5, <1>6, <1>7

\* What read changes: the offset of its file, the bytes its holder has seen and
\* the queue it takes them from; no descriptor changes its file.
ReadAs(fd, n) ==
  /\ \A g \in Nat : /\ Table(fds')[g].inode = Table(fds)[g].inode
                    /\ Table(fds')[g] = NoFile <=> Table(fds)[g] = NoFile
  /\ DOMAIN held' = DOMAIN held
  /\ \A g \in DOMAIN held :
       /\ held'[g].inode = held[g].inode
       /\ held'[g].got = IF g = fd THEN held[g].got \o buf' ELSE held[g].got
  /\ Len(buf') <= n
  /\ taken' \o kbd' = taken \o kbd
  /\ Table(fds)[fd].inode.kind # "kbd" => UNCHANGED <<kbd, taken>>
  /\ Table(fds)[fd].inode.kind = "node" =>
       /\ Table(fds')[fd].offset = Table(fds)[fd].offset + Len(buf')
       /\ n > 0 /\ ret' <= 0 =>
            Table(fds)[fd].offset = Len(nodes[Table(fds)[fd].inode.at].data) /\ buf' = <<>>

LEMMA ReadFails ==
  ASSUME FilesOK, NEW fd \in Nat, NEW n \in Nat, NEW e \in {"InvalidArg", "PermissionDenied"},
         Fails(e), UNCHANGED <<nodes, tables, kbd, taken>>, Table(fds)[fd].inode.kind # "node"
  PROVE  FilesOK' /\ ReadAs(fd, n)
  <1>1. /\ ret' = errno[e] /\ buf' = <<>>
        /\ nodes' = nodes /\ fds' = fds /\ socks' = socks /\ held' = held /\ kbd' = kbd /\ taken' = taken
    BY DEF Fails, tables
  <1>2. ret' \in Int /\ buf' \in Seq(Octet) /\ Len(buf') = 0
    BY <1>1, Errors, EmptySeq
  <1>3. FilesOK'
    BY <1>1, <1>2 DEF FilesOK
  <1>4. \A g \in DOMAIN held : held[g].got \in Seq(Octet)
    BY DEF FilesOK, HeldIn, HeldType
  <1>5. \A g \in DOMAIN held : held[g].got \o <<>> = held[g].got
    BY <1>4, ConcatEmptySeq
  <1>6. \A g \in DOMAIN held : held'[g].got = IF g = fd THEN held[g].got \o buf' ELSE held[g].got
    BY <1>1, <1>5
  <1>7. ReadAs(fd, n)
    BY <1>1, <1>2, <1>6 DEF ReadAs
  <1> QED
    BY <1>3, <1>7

LEMMA ReadStep ==
  ASSUME FilesOK, NEW fd \in Nat, NEW n \in Nat, read(fd, n), UNCHANGED nodes
  PROVE  FilesOK' /\ ReadAs(fd, n)
  <1> DEFINE tab == Table(fds)
             f == tab[fd]
             at == f.inode.at
  <1>1. /\ FdsOK(fds) /\ TreeOK(nodes) /\ Offsets(tab, nodes) /\ HeldIn(tab, held, nodes)
        /\ SocksOK(socks) /\ OwnSockets(held, socks) /\ tab \in [Nat -> FileType]
    BY TableType DEF FilesOK
  <1>2. CASE ~IsOpen(fd)
    <2>1. Fails("InvalidArg") /\ UNCHANGED <<tables, kbd, taken>>
      BY <1>2 DEF read
    <2>2. f.inode.kind # "node"
      BY <1>1, <1>2, OpenIsEntry, NoFileType
    <2> QED BY <2>1, <2>2, ReadFails
  <1>3. CASE IsOpen(fd) /\ fds[fd + 1].inode.kind \in {"devdir", "procdir"}
    <2>1. Fails("PermissionDenied") /\ UNCHANGED <<tables, kbd, taken>>
      BY <1>3 DEF read
    <2>2. f.inode.kind # "node"
      BY <1>1, <1>3, OpenIsEntry
    <2> QED BY <2>1, <2>2, ReadFails
  <1>4. CASE IsOpen(fd) /\ fds[fd + 1].inode.kind \notin {"devdir", "procdir"}
    <2>1. fds[fd + 1] = f /\ fd + 1 <= Len(fds) /\ f # NoFile /\ f \in FileType
      BY <1>1, <1>4, OpenIsEntry
    <2> DEFINE kind == f.inode.kind
    <2>2. PICK data \in Readable(f, n) :
            /\ buf' = data /\ ret' = Len(data)
            /\ fds' = IF kind \in {"node", "proc"}
                        THEN [fds EXCEPT ![fd + 1].offset = @ + Len(data)] ELSE fds
            /\ held' = [g \in DOMAIN held |-> IF g = fd THEN [held[g] EXCEPT !.got = @ \o data] ELSE held[g]]
            /\ socks' = IF kind = "sock" THEN recvfrom(socks, at) ELSE socks
            /\ IF kind = "kbd"
                 THEN kbd' = SubSeq(kbd, Len(data) + 1, Len(kbd)) /\ taken' = taken \o data
                 ELSE UNCHANGED <<kbd, taken>>
      BY <1>4, <2>1, Zenon DEF read
    <2>3. f.offset \in Nat /\ kind \in Kinds /\ at \in Nat
      BY <2>1 DEF FileType, InodeType
    <2>4. kind = "node" => /\ at \in DOMAIN nodes /\ f.offset <= Len(nodes[at].data)
                           /\ nodes[at].data \in Seq(Octet)
      BY <1>1 DEF Offsets, TreeOK
    <2>5. /\ data \in Seq(Octet) /\ Len(data) <= n /\ Len(data) \in Nat
          /\ kind = "node" => data = Part(nodes[at].data, f.offset, n)
          /\ kind = "kbd" => data = Part(kbd, 0, n)
      <3>1. /\ data \in Seq(Octet) /\ Len(data) <= n
            /\ kind = "node" => data = Part(nodes[at].data, f.offset, n)
            /\ kind = "kbd" => data = Part(kbd, 0, n)
        BY <2>1, <2>4, Reads
      <3> QED BY <3>1, LenProperties
    <2> DEFINE f2 == IF kind \in {"node", "proc"} THEN [f EXCEPT !.offset = f.offset + Len(data)] ELSE f
               tab2 == Table(fds')
    <2>6. /\ f2 \in FileType /\ f2.inode = f.inode /\ f2 # NoFile
          /\ kind = "node" => f2.offset = f.offset + Len(data)
      <3>1. CASE kind \in {"node", "proc"}
        BY <2>1, <2>3, <2>5, <3>1, NoFileType DEF FileType
      <3>2. CASE kind \notin {"node", "proc"}
        BY <2>1, <3>2
      <3> QED BY <3>1, <3>2
    <2>7. FdsOK(fds') /\ tab2 = [tab EXCEPT ![fd] = f2]
      <3>1. fds' = [fds EXCEPT ![fd + 1] = f2]
        <4>1. CASE kind \in {"node", "proc"}
          BY <2>1, <2>2, <4>1
        <4>2. CASE kind \notin {"node", "proc"}
          BY <1>1, <2>1, <2>2, <4>2 DEF FdsOK
        <4> QED BY <4>1, <4>2
      <3> HIDE DEF f2
      <3>2. FdsOK([fds EXCEPT ![fd + 1] = f2]) /\ Table([fds EXCEPT ![fd + 1] = f2]) = [tab EXCEPT ![fd] = f2]
        BY <1>1, <2>1, <2>6, TableSet, Zenon
      <3> QED BY <3>1, <3>2
    <2>8. tab2[fd] = f2 /\ \A g \in Nat : g # fd => tab2[g] = tab[g]
      BY <1>1, <2>7
    <2>9. kind = "node" =>
            /\ f.offset + Len(data) <= Len(nodes[at].data)
            /\ SubSeq(nodes[at].data, 1, f.offset) \o data = SubSeq(nodes[at].data, 1, f.offset + Len(data))
            /\ n > 0 /\ data = <<>> => f.offset = Len(nodes[at].data)
      <3> DEFINE d == nodes[at].data
                 o == f.offset
      <3> SUFFICES ASSUME kind = "node"
                   PROVE  /\ o + Len(data) <= Len(d)
                          /\ SubSeq(d, 1, o) \o data = SubSeq(d, 1, o + Len(data))
                          /\ n > 0 /\ data = <<>> => o = Len(d)
        BY Zenon
      <3>1. d \in Seq(Octet) /\ o \in Nat /\ o <= Len(d) /\ data = Part(d, o, n)
        BY <2>3, <2>4, <2>5
      <3> HIDE DEF d, o
      <3> QED BY <3>1, PartOf, Zenon
    <2>10. data = <<>> <=> Len(data) = 0
      BY <2>5, EmptySeq
    <2> HIDE DEF f2, tab2, tab, f, kind
    <2>11. Offsets(tab2, nodes')
      <3> SUFFICES ASSUME NEW g \in Nat, tab2[g].inode.kind = "node"
                   PROVE  /\ tab2[g].inode.at \in DOMAIN nodes
                          /\ tab2[g].offset <= Len(nodes[tab2[g].inode.at].data)
        BY DEF Offsets
      <3>1. CASE g = fd
        BY <2>4, <2>6, <2>8, <2>9, <3>1 DEF kind
      <3>2. CASE g # fd
        BY <1>1, <2>8, <3>2 DEF Offsets
      <3> QED BY <3>1, <3>2
    <2>12. ASSUME NEW g \in DOMAIN held
           PROVE  /\ g \in Nat /\ held[g] \in HeldType /\ held'[g] \in HeldType
                  /\ held'[g].inode = held[g].inode
                  /\ held'[g].got = IF g = fd THEN held[g].got \o data ELSE held[g].got
      <3>1. g \in Nat /\ held[g] \in HeldType /\ held[g].got \in Seq(Octet)
        BY <1>1 DEF HeldIn, HeldType
      <3>2. held[g].got \o data \in Seq(Octet)
        BY <2>5, <3>1, ConcatProperties
      <3>3. held'[g] = IF g = fd THEN [held[g] EXCEPT !.got = held[g].got \o data] ELSE held[g]
        BY <2>2
      <3> QED BY <3>1, <3>2, <3>3, Zenon DEF HeldType
    <2>13. DOMAIN held' = DOMAIN held
      BY <2>2
    <2>14. HeldIn(tab2, held', nodes')
      <3> SUFFICES ASSUME NEW g \in DOMAIN held
                   PROVE  /\ g \in Nat /\ held'[g] \in HeldType
                          /\ tab2[g] # NoFile /\ tab2[g].inode = held'[g].inode
                          /\ tab2[g].inode.kind = "node" =>
                               held'[g].got = SubSeq(nodes[tab2[g].inode.at].data, 1, tab2[g].offset)
        BY <2>13 DEF HeldIn
      <3>1. /\ tab[g] # NoFile /\ tab[g].inode = held[g].inode
            /\ tab[g].inode.kind = "node" => held[g].got = SubSeq(nodes[tab[g].inode.at].data, 1, tab[g].offset)
        BY <1>1 DEF HeldIn
      <3>2. CASE g # fd
        BY <2>8, <2>12, <3>1, <3>2
      <3>3. CASE g = fd
        <4>1. /\ f.inode = held[fd].inode
              /\ kind = "node" => held[fd].got = SubSeq(nodes[at].data, 1, f.offset)
          BY <3>1, <3>3 DEF f, kind
        <4>2. kind = "node" => held'[fd].got = SubSeq(nodes[at].data, 1, f.offset + Len(data))
          BY <2>9, <2>12, <3>3, <4>1, Zenon
        <4> QED BY <2>6, <2>8, <2>12, <3>3, <4>1, <4>2 DEF kind
      <3> QED BY <3>2, <3>3
    <2>15. Keeps(socks, socks')
      BY <1>1, <2>2, Received DEF Keeps
    <2>16. OwnSockets(held', socks')
      <3> SUFFICES ASSUME NEW a \in DOMAIN held, NEW b \in DOMAIN held,
                          held'[a].inode.kind = "sock", held'[b].inode.kind = "sock"
                   PROVE  /\ Live(socks', held'[a].inode.at)
                          /\ held'[a].inode.at = held'[b].inode.at => a = b
        BY <2>13 DEF OwnSockets
      <3>1. held'[a].inode = held[a].inode /\ held'[b].inode = held[b].inode
        BY <2>12
      <3> QED BY <1>1, <2>15, <3>1 DEF OwnSockets, Keeps
    <2>17. /\ kbd' \in Seq(Octet) /\ taken' \in Seq(Octet)
           /\ taken' \o kbd' = taken \o kbd
      <3>1. kbd \in Seq(Octet) /\ taken \in Seq(Octet)
        BY DEF FilesOK
      <3>2. CASE kind # "kbd"
        BY <2>2, <3>1, <3>2
      <3>3. CASE kind = "kbd"
        <4> DEFINE rest == SubSeq(kbd, Len(data) + 1, Len(kbd))
        <4>1. data \o rest = kbd /\ rest \in Seq(Octet)
          BY <2>5, <3>1, <3>3, PartAndRest
        <4>2. kbd' = rest /\ taken' = taken \o data
          BY <2>2, <3>3
        <4> HIDE DEF rest
        <4>3. taken \in Seq(Octet) /\ data \in Seq(Octet) /\ rest \in Seq(Octet)
          BY <2>5, <3>1, <4>1
        <4>4. /\ taken \o data \in Seq(Octet)
              /\ (taken \o data) \o rest = taken \o (data \o rest)
          BY <4>3, Associative
        <4> QED BY <4>1, <4>2, <4>4
      <3> QED BY <3>2, <3>3
    <2>18. FilesOK'
      <3>1. SocksOK(socks')
        BY <2>15 DEF Keeps
      <3>2. ret' \in Int /\ buf' \in Seq(Octet)
        BY <2>2, <2>5
      <3> QED BY <1>1, <2>7, <2>11, <2>14, <2>16, <2>17, <3>1, <3>2 DEF FilesOK, tab2
    <2>19. ReadAs(fd, n)
      <3>1. \A g \in Nat : tab2[g].inode = tab[g].inode /\ (tab2[g] = NoFile <=> tab[g] = NoFile)
        BY <2>1, <2>6, <2>8 DEF f
      <3>2. kind # "kbd" => UNCHANGED <<kbd, taken>>
        BY <2>2
      <3>3. kind = "node" =>
              /\ tab2[fd].offset = f.offset + Len(buf')
              /\ n > 0 /\ ret' <= 0 => f.offset = Len(nodes[at].data) /\ buf' = <<>>
        <4>1. buf' = data /\ (ret' <= 0 => data = <<>>)
          BY <2>2, <2>5, <2>10
        <4>2. kind = "node" => tab2[fd].offset = f.offset + Len(buf')
          BY <2>6, <2>8, <4>1
        <4> QED BY <2>9, <4>1, <4>2
      <3> QED
        BY <2>2, <2>5, <2>12, <2>13, <2>17, <3>1, <3>2, <3>3, Zenon DEF ReadAs, tab, tab2, f, kind
    <2> QED BY <2>18, <2>19
  <1> QED
    BY <1>2, <1>3, <1>4

\* close frees its descriptor and no other.
ClosedAs(fd) ==
  /\ Table(fds') = [Table(fds) EXCEPT ![fd] = NoFile]
  /\ DOMAIN held' = DOMAIN held \ {fd}
  /\ \A g \in DOMAIN held \ {fd} : held'[g] = held[g]

LEMMA CloseStep ==
  ASSUME FilesOK, NEW fd \in Nat, close_fd(fd), UNCHANGED <<nodes, socks, kbd, taken>>
  PROVE  FilesOK' /\ ClosedAs(fd)
  <1> DEFINE tab == Table(fds)
             tab2 == Table(fds')
  <1>1. /\ FdsOK(fds) /\ TreeOK(nodes) /\ Offsets(tab, nodes) /\ HeldIn(tab, held, nodes)
        /\ SocksOK(socks) /\ OwnSockets(held, socks) /\ tab \in [Nat -> FileType]
    BY TableType DEF FilesOK
  <1>2. FdsOK(fds') /\ ClosedAs(fd) /\ ret' \in Int /\ buf' = <<>>
    <2>1. CASE IsOpen(fd)
      <3>1. /\ fds' = [fds EXCEPT ![fd + 1] = NoFile] /\ held' = Forget(fd)
            /\ ret' = 0 /\ buf' = <<>>
        BY <2>1 DEF close_fd
      <3>2. fd + 1 <= Len(fds)
        BY <1>1, <2>1, OpenIsEntry
      <3>3. FdsOK([fds EXCEPT ![fd + 1] = NoFile]) /\ Table([fds EXCEPT ![fd + 1] = NoFile]) = [tab EXCEPT ![fd] = NoFile]
        BY <1>1, <3>2, NoFileType, TableSet, Zenon
      <3> QED BY <3>1, <3>3 DEF Forget, ClosedAs
    <2>2. CASE ~IsOpen(fd)
      <3>1. /\ fds' = fds /\ held' = held /\ ret' = errno["InvalidArg"] /\ buf' = <<>>
        BY <2>2 DEF close_fd, Fails
      <3>2. tab[fd] = NoFile
        BY <1>1, <2>2, OpenIsEntry
      <3>3. [tab EXCEPT ![fd] = NoFile] = tab
        <4> HIDE DEF tab
        <4> QED BY <1>1, <3>2
      <3>4. fd \notin DOMAIN held
        BY <1>1, <3>2 DEF HeldIn
      <3>5. ret' \in Int
        BY <3>1, Errors
      <3> QED BY <1>1, <3>1, <3>3, <3>4, <3>5, Zenon DEF ClosedAs
    <2> QED BY <2>1, <2>2
  <1>3. tab2[fd] = NoFile /\ \A g \in Nat : g # fd => tab2[g] = tab[g]
    <2>1. tab2 = [tab EXCEPT ![fd] = NoFile]
      BY <1>2 DEF ClosedAs
    <2> HIDE DEF tab, tab2
    <2> QED BY <1>1, <2>1
  <1>4. DOMAIN held' = DOMAIN held \ {fd} /\ \A g \in DOMAIN held' : held'[g] = held[g]
    BY <1>2 DEF ClosedAs
  <1> HIDE DEF tab, tab2
  <1>5. Offsets(tab2, nodes')
    BY <1>1, <1>3, NoFileType DEF Offsets
  <1>6. HeldIn(tab2, held', nodes')
    <2> SUFFICES ASSUME NEW g \in DOMAIN held'
                 PROVE  /\ g \in Nat /\ held'[g] \in HeldType
                        /\ tab2[g] # NoFile /\ tab2[g].inode = held'[g].inode
                        /\ tab2[g].inode.kind = "node" =>
                             held'[g].got = SubSeq(nodes[tab2[g].inode.at].data, 1, tab2[g].offset)
      BY DEF HeldIn
    <2>1. g \in DOMAIN held /\ g # fd /\ held'[g] = held[g]
      BY <1>4
    <2> QED BY <1>1, <1>3, <2>1 DEF HeldIn
  <1>7. OwnSockets(held', socks')
    BY <1>1, <1>4 DEF OwnSockets
  <1>8. FilesOK'
    BY <1>1, <1>2, <1>5, <1>6, <1>7, EmptySeq DEF FilesOK, tab2
  <1> QED
    BY <1>2, <1>8

\* The calls that leave the descriptors alone.
LEMMA SameFiles ==
  ASSUME FilesOK, UNCHANGED <<nodes, fds, held>>, Keeps(socks, socks'),
         kbd' \in Seq(Octet), taken' \in Seq(Octet), ret' \in Int, buf' \in Seq(Octet)
  PROVE  FilesOK'
  <1>1. OwnSockets(held', socks')
    BY DEF FilesOK, OwnSockets, Keeps
  <1> QED
    BY <1>1 DEF FilesOK, Keeps

LEMMA Returned ==
  ASSUME FilesOK, UNCHANGED <<nodes, fds, held, kbd, taken>>, Keeps(socks, socks'),
         ret' \in Int, buf' = <<>>
  PROVE  FilesOK'
  <1>1. buf' \in Seq(Octet) /\ kbd' \in Seq(Octet) /\ taken' \in Seq(Octet)
    BY EmptySeq DEF FilesOK
  <1> QED
    BY <1>1, SameFiles

LEMMA Writes ==
  ASSUME NEW inode, NEW n \in Nat
  PROVE  Written(inode, n) \in Int
  <1>1. /\ n \in Int /\ errno["InvalidArg"] \in Int /\ errno["Io"] \in Int
        /\ errno["PermissionDenied"] \in Int
    BY Errors
  <1> QED
    BY <1>1 DEF Written
-----------------------------------------------------------------------------
(* The keys on their way: taken \o seen \o chunk \o kbd.                   *)

LEMMA MoveHead ==
  ASSUME NEW s \in Seq(Octet), NEW t \in Seq(Octet), t # <<>>
  PROVE  /\ Append(s, Head(t)) \in Seq(Octet) /\ Tail(t) \in Seq(Octet)
         /\ Append(s, Head(t)) \o Tail(t) = s \o t
  <1> DEFINE h == Head(t)
             r == Tail(t)
             l == Append(s, h)
  <1>1. /\ h \in Octet /\ r \in Seq(Octet) /\ Len(r) = Len(t) - 1
        /\ \A i \in 1..Len(r) : r[i] = t[i + 1]
    BY HeadTailProperties
  <1>2. h = t[1] /\ Len(s) \in Nat /\ Len(t) \in Nat /\ Len(t) > 0
    BY LenProperties, EmptySeq
  <1> HIDE DEF h, r
  <1>3. /\ l \in Seq(Octet) /\ Len(l) = Len(s) + 1
        /\ \A i \in 1..Len(s) : l[i] = s[i]
        /\ l[Len(s) + 1] = h
    BY <1>1, AppendProperties
  <1> HIDE DEF l
  <1>4. /\ l \o r \in Seq(Octet) /\ Len(l \o r) = Len(l) + Len(r)
        /\ \A i \in 1..(Len(l) + Len(r)) : (l \o r)[i] = IF i <= Len(l) THEN l[i] ELSE r[i - Len(l)]
    BY <1>1, <1>3, ConcatProperties, Zenon
  <1>5. /\ s \o t \in Seq(Octet) /\ Len(s \o t) = Len(s) + Len(t)
        /\ \A i \in 1..(Len(s) + Len(t)) : (s \o t)[i] = IF i <= Len(s) THEN s[i] ELSE t[i - Len(s)]
    BY ConcatProperties
  <1>6. Len(l \o r) = Len(s \o t) /\ Len(s \o t) = Len(s) + Len(t)
    BY <1>1, <1>2, <1>3, <1>4, <1>5
  <1>7. ASSUME NEW i \in 1..Len(l \o r) PROVE (l \o r)[i] = (s \o t)[i]
    <2>1. /\ (l \o r)[i] = IF i <= Len(s) + 1 THEN l[i] ELSE r[i - (Len(s) + 1)]
          /\ (s \o t)[i] = IF i <= Len(s) THEN s[i] ELSE t[i - Len(s)]
      BY <1>3, <1>4, <1>5, <1>6
    <2>2. i \in Nat /\ i >= 1 /\ i <= Len(s) + Len(t)
      BY <1>2, <1>6
    <2>3. CASE i <= Len(s)
      <3>1. i \in 1..Len(s)
        BY <1>2, <2>2, <2>3
      <3> QED BY <1>2, <1>3, <2>1, <2>2, <2>3, <3>1
    <2>4. CASE i = Len(s) + 1
      <3>1. i - Len(s) = 1
        BY <1>2, <2>4
      <3> QED BY <1>2, <1>3, <2>1, <2>4, <3>1
    <2>5. CASE i > Len(s) + 1
      <3> DEFINE k == i - (Len(s) + 1)
      <3>1. k \in 1..Len(r) /\ k + 1 = i - Len(s)
        BY <1>1, <1>2, <2>2, <2>5
      <3>2. (l \o r)[i] = r[k] /\ (s \o t)[i] = t[i - Len(s)]
        BY <1>2, <2>1, <2>2, <2>5
      <3> HIDE DEF k
      <3>3. r[k] = t[k + 1]
        BY <1>1, <3>1, Zenon
      <3>4. t[k + 1] = t[i - Len(s)]
        BY <3>1, Zenon
      <3> QED BY <3>2, <3>3, <3>4, Zenon
    <2>6. i <= Len(s) \/ i = Len(s) + 1 \/ i > Len(s) + 1
      BY <1>2, <2>2
    <2> QED BY <2>3, <2>4, <2>5, <2>6, Zenon
  <1>8. l \o r = s \o t
    <2> DEFINE x == l \o r
               y == s \o t
    <2>1. x \in Seq(Octet) /\ y \in Seq(Octet) /\ Len(x) = Len(y) /\ \A i \in 1..Len(x) : x[i] = y[i]
      BY <1>4, <1>5, <1>6, <1>7
    <2> HIDE DEF x, y
    <2>2. x = y
      BY <2>1, SeqEqual
    <2> QED BY <2>2 DEF x, y
  <1> QED
    BY <1>1, <1>3, <1>8 DEF h, r, l

\* Concatenation as an operator the provers leave alone.
Joined(s, t) == s \o t

LEMMA JoinedFacts ==
  ASSUME NEW s \in Seq(Octet), NEW t \in Seq(Octet), NEW u \in Seq(Octet)
  PROVE  /\ Joined(s, t) \in Seq(Octet)
         /\ Joined(Joined(s, t), u) = Joined(s, Joined(t, u))
  BY Associative DEF Joined

\* The head of t has moved to the end of s, which makes them a and b.
Moved(s, t, a, b) == t # <<>> /\ a = Append(s, Head(t)) /\ b = Tail(t)

LEMMA JoinedHead ==
  ASSUME NEW s \in Seq(Octet), NEW t \in Seq(Octet), NEW a, NEW b, Moved(s, t, a, b)
  PROVE  a \in Seq(Octet) /\ b \in Seq(Octet) /\ Joined(a, b) = Joined(s, t)
  <1>1. a \in Seq(Octet) /\ b \in Seq(Octet) /\ a \o b = s \o t
    BY MoveHead DEF Moved
  <1> QED
    BY <1>1, Zenon DEF Joined

Line(ta, se, ch, kb) == Joined(Joined(Joined(ta, se), ch), kb)

\* The shell's read moves a key from the queue to the buffer, sh_key one from the
\* buffer to those it has acted on, and new keys join at the end.
LEMMA LineRead ==
  ASSUME NEW ta \in Seq(Octet), NEW se \in Seq(Octet), NEW ch \in Seq(Octet), NEW kb \in Seq(Octet),
         NEW a \in Seq(Octet), NEW b \in Seq(Octet), Joined(a, b) = Joined(ch, kb)
  PROVE  Line(ta, se, a, b) = Line(ta, se, ch, kb)
  BY JoinedFacts DEF Line

LEMMA LineActs ==
  ASSUME NEW ta \in Seq(Octet), NEW se \in Seq(Octet), NEW ch \in Seq(Octet), NEW kb \in Seq(Octet),
         NEW a \in Seq(Octet), NEW b \in Seq(Octet), Joined(a, b) = Joined(se, ch)
  PROVE  Line(ta, a, b, kb) = Line(ta, se, ch, kb)
  BY JoinedFacts DEF Line

LEMMA LineGrows ==
  ASSUME NEW ta \in Seq(Octet), NEW se \in Seq(Octet), NEW ch \in Seq(Octet), NEW kb \in Seq(Octet),
         NEW d \in Seq(Octet)
  PROVE  Line(ta, se, ch, Joined(kb, d)) = Joined(Line(ta, se, ch, kb), d)
  <1> DEFINE q == Joined(Joined(ta, se), ch)
  <1>1. q \in Seq(Octet)
    BY JoinedFacts
  <1>2. Line(ta, se, ch, Joined(kb, d)) = Joined(q, Joined(kb, d)) /\ Line(ta, se, ch, kb) = Joined(q, kb)
    BY Zenon DEF Line
  <1> HIDE DEF q
  <1>3. Joined(Joined(q, kb), d) = Joined(q, Joined(kb, d))
    BY <1>1, JoinedFacts
  <1> QED
    BY <1>2, <1>3, Zenon
=============================================================================
