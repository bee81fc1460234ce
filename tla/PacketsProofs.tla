--------------------------- MODULE PacketsProofs ---------------------------
(***************************************************************************)
(* What the handlers of the protocol stack take out of a frame is what the *)
(* sender put into it, for every payload, port, identifier and address.    *)
(***************************************************************************)
EXTENDS Packets, TLAPS

IsSeq(s) == \E S : s \in Seq(S)

\* The field t begins at offset k of s.
HasAt(s, k, t) ==
  /\ IsSeq(s) /\ IsSeq(t) /\ k \in Nat /\ k + Len(t) <= Len(s)
  /\ \A i \in 1..Len(t) : s[k + i] = t[i]

\* Concatenation, under a name that the provers can match.
Join(s, t) == s \o t

LEMMA SeqLen ==
  ASSUME NEW s, IsSeq(s)
  PROVE  Len(s) \in Nat
  BY DEF IsSeq

LEMMA Both ==
  ASSUME NEW s, NEW t, IsSeq(s), IsSeq(t)
  PROVE  \E S : s \in Seq(S) /\ t \in Seq(S)
  <1>1. PICK S : s \in Seq(S)
    BY DEF IsSeq
  <1>2. PICK T : t \in Seq(T)
    BY DEF IsSeq
  <1>3. s \in Seq(S \cup T) /\ t \in Seq(S \cup T)
    BY <1>1, <1>2
  <1> QED
    BY <1>3

LEMMA Concat ==
  ASSUME NEW s, NEW t, IsSeq(s), IsSeq(t)
  PROVE  /\ IsSeq(s \o t) /\ Len(s \o t) = Len(s) + Len(t)
         /\ \A i \in 1..(Len(s) + Len(t)) : (s \o t)[i] = IF i <= Len(s) THEN s[i] ELSE t[i - Len(s)]
  <1>1. PICK S : s \in Seq(S) /\ t \in Seq(S)
    BY Both
  <1> QED
    BY <1>1 DEF IsSeq

\* Where the parts of a concatenation are.
LEMMA Parts ==
  ASSUME NEW s, NEW t, IsSeq(s), IsSeq(t), NEW u, u = Join(s, t)
  PROVE  IsSeq(u) /\ Len(u) = Len(s) + Len(t) /\ HasAt(u, 0, s) /\ HasAt(u, Len(s), t)
  <1>1. Len(s) \in Nat /\ Len(t) \in Nat
    BY SeqLen
  <1>2. /\ IsSeq(u) /\ Len(u) = Len(s) + Len(t)
        /\ \A i \in 1..(Len(s) + Len(t)) : u[i] = IF i <= Len(s) THEN s[i] ELSE t[i - Len(s)]
    BY Concat DEF Join
  <1>3. ASSUME NEW i \in 1..Len(s) PROVE u[0 + i] = s[i]
    BY <1>1, <1>2
  <1>4. ASSUME NEW i \in 1..Len(t) PROVE u[Len(s) + i] = t[i]
    <2>1. Len(s) + i \in 1..(Len(s) + Len(t)) /\ ~(Len(s) + i <= Len(s)) /\ (Len(s) + i) - Len(s) = i
      BY <1>1
    <2> QED BY <1>2, <2>1
  <1> QED
    BY <1>1, <1>2, <1>3, <1>4 DEF HasAt

\* A field of a field.
LEMMA Nested ==
  ASSUME NEW s, NEW t, NEW u, NEW k, NEW j, HasAt(s, k, t), HasAt(t, j, u)
  PROVE  HasAt(s, k + j, u)
  <1>1. Len(s) \in Nat /\ Len(t) \in Nat /\ Len(u) \in Nat /\ k \in Nat /\ j \in Nat
    BY SeqLen DEF HasAt
  <1>2. ASSUME NEW i \in 1..Len(u) PROVE s[k + j + i] = u[i]
    <2>1. j + i \in 1..Len(t) /\ k + (j + i) = k + j + i
      BY <1>1 DEF HasAt
    <2>2. t[j + i] = u[i] /\ s[k + (j + i)] = t[j + i]
      BY <2>1 DEF HasAt
    <2> QED BY <2>1, <2>2
  <1> QED
    BY <1>1, <1>2 DEF HasAt

LEMMA Foremost ==
  ASSUME NEW s, NEW t, NEW u, NEW j, HasAt(s, 0, t), HasAt(t, j, u)
  PROVE  HasAt(s, j, u)
  <1>1. HasAt(s, 0 + j, u)
    BY Nested
  <1>2. 0 + j = j
    BY DEF HasAt
  <1> QED
    BY <1>1, <1>2

\* What Slice cuts out, and what it leaves in its place.
LEMMA Sliced ==
  ASSUME NEW s, NEW t, NEW k, HasAt(s, k, t)
  PROVE  Slice(s, k, k + Len(t)) = t
  <1>1. PICK S : s \in Seq(S) /\ t \in Seq(S)
    BY Both DEF HasAt
  <1>2. Len(s) \in Nat /\ Len(t) \in Nat /\ k \in Nat /\ k + Len(t) <= Len(s)
    BY SeqLen DEF HasAt
  <1> DEFINE u == SubSeq(s, k + 1, k + Len(t))
  <1>3. /\ u \in Seq(S) /\ Len(u) = Len(t)
        /\ \A i \in 1..Len(t) : u[i] = s[k + i]
    <2> DEFINE m == k + 1
               n == k + Len(t)
    <2>1. m \in Int /\ n \in Int /\ \A i \in m..n : s[i] \in S
      BY <1>1, <1>2
    <2>2. (IF m <= n THEN n - m + 1 ELSE 0) = Len(t) /\ n - m + 1 = Len(t)
          /\ \A i \in 1..Len(t) : m + i - 1 = k + i
      BY <1>2
    <2> HIDE DEF m, n
    <2>3. /\ SubSeq(s, m, n) \in Seq(S) /\ Len(SubSeq(s, m, n)) = Len(t)
          /\ \A i \in 1..Len(t) : SubSeq(s, m, n)[i] = s[m + i - 1]
      BY <2>1, <2>2
    <2> QED BY <2>2, <2>3 DEF m, n
  <1> HIDE DEF u
  <1>4. \A i \in 1..Len(t) : u[i] = t[i]
    BY <1>3 DEF HasAt
  <1>5. u = t
    BY <1>1, <1>2, <1>3, <1>4
  <1> QED
    BY <1>5 DEF u, Slice

LEMMA Rest ==
  ASSUME NEW s, IsSeq(s), NEW k \in Nat, k <= Len(s), NEW p, p = Slice(s, k, Len(s))
  PROVE  /\ IsSeq(p) /\ Len(p) = Len(s) - k
         /\ \A j \in Nat : \A u : HasAt(s, k + j, u) => HasAt(p, j, u)
  <1>1. PICK S : s \in Seq(S)
    BY DEF IsSeq
  <1>2. Len(s) \in Nat
    BY SeqLen
  <1> DEFINE m == k + 1
             n == Len(s)
  <1>3. m \in Int /\ n \in Int /\ \A i \in m..n : s[i] \in S
    BY <1>1, <1>2
  <1>4. (IF m <= n THEN n - m + 1 ELSE 0) = Len(s) - k /\ n - m + 1 = Len(s) - k
        /\ \A i \in 1..(Len(s) - k) : m + i - 1 = k + i
    BY <1>2
  <1>5. p = SubSeq(s, m, n)
    BY DEF Slice
  <1> HIDE DEF m, n
  <1>6. /\ p \in Seq(S) /\ Len(p) = Len(s) - k
        /\ \A i \in 1..(Len(s) - k) : p[i] = s[m + i - 1]
    BY <1>3, <1>4, <1>5
  <1>7. \A i \in 1..(Len(s) - k) : p[i] = s[k + i]
    BY <1>4, <1>6
  <1>8. IsSeq(p)
    BY <1>6 DEF IsSeq
  <1>9. ASSUME NEW j \in Nat, NEW u, HasAt(s, k + j, u) PROVE HasAt(p, j, u)
    <2>1. Len(u) \in Nat /\ k + j + Len(u) <= Len(s) /\ IsSeq(u)
      BY <1>9, SeqLen DEF HasAt
    <2>2. ASSUME NEW i \in 1..Len(u) PROVE p[j + i] = u[i]
      <3>1. j + i \in 1..(Len(s) - k) /\ k + (j + i) = k + j + i
        BY <1>2, <2>1
      <3>2. s[k + j + i] = u[i]
        BY <1>9 DEF HasAt
      <3> QED BY <1>7, <3>1, <3>2
    <2> QED BY <1>2, <1>6, <1>8, <2>1, <2>2 DEF HasAt
  <1> QED
    BY <1>6, <1>8, <1>9

Sized(s, n) == IsSeq(s) /\ n \in Nat /\ Len(s) = n

\* One more part, after the others; these stay where they were.
LEMMA Extend ==
  ASSUME NEW m, NEW n, NEW s, NEW t, Sized(s, m), Sized(t, n)
  PROVE  Sized(Join(s, t), m + n) /\ HasAt(Join(s, t), m, t) /\ HasAt(Join(s, t), 0, s)
  <1> DEFINE u == Join(s, t)
  <1>1. IsSeq(s) /\ IsSeq(t) /\ Len(s) = m /\ Len(t) = n /\ m \in Nat /\ n \in Nat
    BY DEF Sized
  <1>2. IsSeq(u) /\ Len(u) = Len(s) + Len(t) /\ HasAt(u, 0, s) /\ HasAt(u, Len(s), t)
    BY <1>1, Parts
  <1> HIDE DEF u
  <1>3. Sized(u, m + n) /\ HasAt(u, m, t)
    BY <1>1, <1>2 DEF Sized
  <1> QED
    BY <1>2, <1>3 DEF u

LEMMA Stays ==
  ASSUME NEW m, NEW n, NEW s, NEW t, Sized(s, m), Sized(t, n), NEW k, NEW x, HasAt(s, k, x)
  PROVE  HasAt(Join(s, t), k, x)
  <1>1. HasAt(Join(s, t), 0, s)
    BY Extend, Zenon
  <1> QED
    BY <1>1, Foremost

LEMMA Two ==
  ASSUME NEW a, NEW b
  PROVE  IsSeq(<<a, b>>) /\ Len(<<a, b>>) = 2 /\ <<a, b>>[1] = a /\ <<a, b>>[2] = b
  <1>1. <<a, b>> \in Seq({a, b})
    OBVIOUS
  <1> QED
    BY <1>1, Zenon DEF IsSeq

LEMMA TwoAt ==
  ASSUME NEW s, NEW k, NEW a, NEW b, HasAt(s, k, <<a, b>>)
  PROVE  At(s, k) = a /\ At(s, k + 1) = b
  <1>1. k \in Nat /\ \A i \in 1..2 : s[k + i] = <<a, b>>[i]
    BY Two DEF HasAt
  <1>2. s[k + 1] = a /\ s[k + 2] = b /\ k + 1 + 1 = k + 2
    BY <1>1, Two
  <1> QED
    BY <1>2 DEF At

LEMMA HighLow ==
  ASSUME NEW x \in Nat
  PROVE  x \div 256 \in Nat /\ x % 256 \in 0..255 /\ x = 256 * (x \div 256) + (x % 256)
  OBVIOUS

\* be16 reads what to_be_bytes wrote.
LEMMA WordAt ==
  ASSUME NEW s, NEW k, NEW x \in Nat, HasAt(s, k, to_be_bytes(x))
  PROVE  be16(s, k) = x
  <1> DEFINE a == x \div 256
             b == x % 256
  <1>1. HasAt(s, k, <<a, b>>)
    BY DEF to_be_bytes
  <1>2. a \in Nat /\ b \in Nat /\ x = 256 * a + b
    BY HighLow
  <1> HIDE DEF a, b
  <1>3. At(s, k) = a /\ At(s, k + 1) = b
    BY <1>1, TwoAt
  <1> QED
    BY <1>2, <1>3 DEF be16

LEMMA WordSized ==
  ASSUME NEW x PROVE Sized(to_be_bytes(x), 2)
  BY Two DEF to_be_bytes, Sized

LEMMA PairSized ==
  ASSUME NEW a, NEW b PROVE Sized(<<a, b>>, 2)
  BY Two DEF Sized

LEMMA FilledSized ==
  ASSUME NEW n \in Nat, NEW v
  PROVE  Sized([i \in 1..n |-> v], n)
  <1>1. [i \in 1..n |-> v] \in [1..n -> {v}]
    OBVIOUS
  <1>2. [i \in 1..n |-> v] \in Seq({v}) /\ Len([i \in 1..n |-> v]) = n
    BY <1>1
  <1> QED
    BY <1>2, Zenon DEF IsSeq, Sized

LEMMA ZerosSized ==
  ASSUME NEW n \in Nat PROVE Sized(Zeros(n), n)
  BY FilledSized, Zenon DEF Zeros

-----------------------------------------------------------------------------
(* The packets.                                                            *)

LEMMA DatagramFields ==
  ASSUME NEW sport, NEW dport, NEW dst, NEW n \in Nat, NEW data, Sized(data, n), NEW d,
         d = datagram(sport, dst, dport, data)
  PROVE  /\ Sized(d, 8 + n)
         /\ HasAt(d, 0, to_be_bytes(sport)) /\ HasAt(d, 2, to_be_bytes(dport))
         /\ HasAt(d, 4, to_be_bytes(8 + n)) /\ HasAt(d, 8, data)
  <1> DEFINE D(x) == to_be_bytes(sport) \o to_be_bytes(dport) \o to_be_bytes(8 + n)
                     \o to_be_bytes(x) \o data
             c    == checksum(pseudo(dst, PROTO_UDP, D(0)))
  <1>1. d = to_be_bytes(sport) \o to_be_bytes(dport) \o to_be_bytes(8 + n)
            \o to_be_bytes(c) \o data
    BY DEF datagram, Sized
  <1> HIDE DEF D, c
  <1> DEFINE b1 == to_be_bytes(sport)
             b2 == to_be_bytes(dport)
             b3 == to_be_bytes(8 + n)
             b4 == to_be_bytes(c)
             b5 == data
             h2 == Join(b1, b2)
             h3 == Join(h2, b3)
             h4 == Join(h3, b4)
  <1>2. Sized(b1, 2) /\ Sized(b2, 2) /\ Sized(b3, 2) /\ Sized(b4, 2) /\ Sized(b5, n)
    BY WordSized
  <1>3. d = Join(h4, b5)
    BY <1>1 DEF Join
  <1>4. 2 + 2 = 4 /\ 4 + 2 = 6 /\ 6 + 2 = 8
    OBVIOUS
  <1> HIDE DEF b1, b2, b3, b4, b5
  <1>5. Sized(h2, 4) /\ HasAt(h2, 2, b2) /\ HasAt(h2, 0, b1)
    BY <1>2, <1>4, Extend, Zenon
  <1> HIDE DEF h2
  <1>6. Sized(h3, 6) /\ HasAt(h3, 4, b3)
    BY <1>2, <1>5, <1>4, Extend, Zenon
  <1>7. HasAt(h3, 0, b1) /\ HasAt(h3, 2, b2)
    BY <1>2, <1>5, Stays, Zenon
  <1> HIDE DEF h3
  <1>8. Sized(h4, 8) /\ HasAt(h4, 6, b4)
    BY <1>2, <1>6, <1>4, Extend, Zenon
  <1>9. HasAt(h4, 0, b1) /\ HasAt(h4, 2, b2) /\ HasAt(h4, 4, b3)
    BY <1>2, <1>6, <1>7, Stays, Zenon
  <1> HIDE DEF h4
  <1>10. Sized(d, 8 + n) /\ HasAt(d, 8, b5)
    BY <1>3, <1>2, <1>8, <1>4, Extend, Zenon
  <1>11. HasAt(d, 0, b1) /\ HasAt(d, 2, b2) /\ HasAt(d, 4, b3)
    BY <1>3, <1>2, <1>8, <1>9, Stays, Zenon
  <1> QED
    BY <1>10, <1>11, Zenon DEF b1, b2, b3, b4, b5

LEMMA FrameFields ==
  ASSUME NEW dst, NEW src, NEW type, NEW m, NEW body, Sized(dst, 6), Sized(src, 6), Sized(body, m),
         NEW f, f = frame(dst, src, type, body)
  PROVE  Sized(f, 14 + m) /\ HasAt(f, 12, to_be_bytes(type)) /\ HasAt(f, 14, body)
  <1>1. f = dst \o src \o to_be_bytes(type) \o body
    BY DEF frame
  <1> DEFINE b1 == dst
             b2 == src
             b3 == to_be_bytes(type)
             b4 == body
             h2 == Join(b1, b2)
             h3 == Join(h2, b3)
  <1>2. Sized(b1, 6) /\ Sized(b2, 6) /\ Sized(b3, 2) /\ Sized(b4, m)
    BY WordSized
  <1>3. f = Join(h3, b4)
    BY <1>1 DEF Join
  <1>4. 6 + 6 = 12 /\ 12 + 2 = 14
    OBVIOUS
  <1> HIDE DEF b1, b2, b3, b4
  <1>5. Sized(h2, 12) /\ HasAt(h2, 6, b2) /\ HasAt(h2, 0, b1)
    BY <1>2, <1>4, Extend, Zenon
  <1> HIDE DEF h2
  <1>6. Sized(h3, 14) /\ HasAt(h3, 12, b3)
    BY <1>2, <1>5, <1>4, Extend, Zenon
  <1> HIDE DEF h3
  <1>7. Sized(f, 14 + m) /\ HasAt(f, 14, b4)
    BY <1>3, <1>2, <1>6, <1>4, Extend, Zenon
  <1>8. HasAt(f, 12, b3)
    BY <1>3, <1>2, <1>6, Stays, Zenon
  <1> QED
    BY <1>7, <1>8, Zenon DEF b1, b2, b3, b4

\* The padding of the link comes after the frame.
LEMMA PadFields ==
  ASSUME NEW m, NEW f, Sized(f, m)
  PROVE  /\ \E z \in Nat : Sized(Pad(f), m + z)
         /\ \A k, x : HasAt(f, k, x) => HasAt(Pad(f), k, x)
  <1> DEFINE z == 60 - Smaller(Len(f), 60)
  <1>1. Len(f) \in Nat /\ m \in Nat
    BY DEF Sized
  <1>2. z \in Nat
    BY <1>1 DEF Smaller
  <1>3. Pad(f) = Join(f, Zeros(z))
    BY DEF Pad, Join
  <1> HIDE DEF z
  <1>4. Sized(Zeros(z), z)
    BY <1>2, ZerosSized
  <1>5. Sized(Pad(f), m + z)
    BY <1>3, <1>4, Extend, Zenon
  <1>6. ASSUME NEW k, NEW x, HasAt(f, k, x) PROVE HasAt(Pad(f), k, x)
    BY <1>3, <1>4, <1>6, Stays, Zenon
  <1> QED
    BY <1>2, <1>5, <1>6

LEMMA IPSized == Sized(IP, 4)
  <1>1. IP \in Seq(Nat) /\ Len(IP) = 4
    BY DEF IP
  <1> QED
    BY <1>1 DEF Sized, IsSeq

LEMMA PeerHeaderFields ==
  ASSUME NEW p, Sized(p.ip, 4), NEW proto, NEW n \in Nat, NEW len, NEW h,
         h = PeerHeader(p, proto, n, len)
  PROVE  /\ Sized(h, 20 + 4 * n)
         /\ HasAt(h, 0, <<69 + n, 0>>) /\ HasAt(h, 2, to_be_bytes(20 + 4 * n + len))
         /\ HasAt(h, 8, <<64, proto>>) /\ HasAt(h, 12, p.ip)
  <1> DEFINE H(x) == <<69 + n, 0>> \o to_be_bytes(20 + 4 * n + len) \o Zeros(4) \o <<64, proto>>
                     \o to_be_bytes(x) \o p.ip \o IP \o [i \in 1..(4 * n) |-> 1]
             c    == checksum(H(0))
  <1>1. h = <<69 + n, 0>> \o to_be_bytes(20 + 4 * n + len) \o Zeros(4) \o <<64, proto>>
            \o to_be_bytes(c) \o p.ip \o IP \o [i \in 1..(4 * n) |-> 1]
    BY DEF PeerHeader
  <1> HIDE DEF H, c
  <1>0. 4 * n \in Nat
    OBVIOUS
  <1> DEFINE b1 == <<69 + n, 0>>
             b2 == to_be_bytes(20 + 4 * n + len)
             b3 == Zeros(4)
             b4 == <<64, proto>>
             b5 == to_be_bytes(c)
             b6 == p.ip
             b7 == IP
             b8 == [i \in 1..(4 * n) |-> 1]
             h2 == Join(b1, b2)
             h3 == Join(h2, b3)
             h4 == Join(h3, b4)
             h5 == Join(h4, b5)
             h6 == Join(h5, b6)
             h7 == Join(h6, b7)
  <1>2. /\ Sized(b1, 2) /\ Sized(b2, 2) /\ Sized(b3, 4) /\ Sized(b4, 2)
        /\ Sized(b5, 2) /\ Sized(b6, 4) /\ Sized(b7, 4) /\ Sized(b8, 4 * n)
    BY <1>0, WordSized, PairSized, ZerosSized, IPSized, FilledSized, Zenon
  <1>3. h = Join(h7, b8)
    BY <1>1 DEF Join
  <1>4. /\ 2 + 2 = 4 /\ 4 + 4 = 8 /\ 8 + 2 = 10
        /\ 10 + 2 = 12 /\ 12 + 4 = 16 /\ 16 + 4 = 20
    OBVIOUS
  <1> HIDE DEF b1, b2, b3, b4, b5, b6, b7, b8
  <1>5. Sized(h2, 4) /\ HasAt(h2, 2, b2) /\ HasAt(h2, 0, b1)
    BY <1>2, <1>4, Extend, Zenon
  <1> HIDE DEF h2
  <1>6. Sized(h3, 8) /\ HasAt(h3, 4, b3)
    BY <1>2, <1>5, <1>4, Extend, Zenon
  <1>7. HasAt(h3, 0, b1) /\ HasAt(h3, 2, b2)
    BY <1>2, <1>5, Stays, Zenon
  <1> HIDE DEF h3
  <1>8. Sized(h4, 10) /\ HasAt(h4, 8, b4)
    BY <1>2, <1>6, <1>4, Extend, Zenon
  <1>9. HasAt(h4, 0, b1) /\ HasAt(h4, 2, b2)
    BY <1>2, <1>6, <1>7, Stays, Zenon
  <1> HIDE DEF h4
  <1>10. Sized(h5, 12) /\ HasAt(h5, 10, b5)
    BY <1>2, <1>8, <1>4, Extend, Zenon
  <1>11. HasAt(h5, 0, b1) /\ HasAt(h5, 2, b2) /\ HasAt(h5, 8, b4)
    BY <1>2, <1>8, <1>9, Stays, Zenon
  <1> HIDE DEF h5
  <1>12. Sized(h6, 16) /\ HasAt(h6, 12, b6)
    BY <1>2, <1>10, <1>4, Extend, Zenon
  <1>13. HasAt(h6, 0, b1) /\ HasAt(h6, 2, b2) /\ HasAt(h6, 8, b4)
    BY <1>2, <1>10, <1>11, Stays, Zenon
  <1> HIDE DEF h6
  <1>14. Sized(h7, 20) /\ HasAt(h7, 16, b7)
    BY <1>2, <1>12, <1>4, Extend, Zenon
  <1>15. HasAt(h7, 0, b1) /\ HasAt(h7, 2, b2) /\ HasAt(h7, 8, b4) /\ HasAt(h7, 12, b6)
    BY <1>2, <1>12, <1>13, Stays, Zenon
  <1> HIDE DEF h7
  <1>16. Sized(h, 20 + 4 * n) /\ HasAt(h, 20, b8)
    BY <1>3, <1>2, <1>14, <1>4, Extend, Zenon
  <1>17. HasAt(h, 0, b1) /\ HasAt(h, 2, b2) /\ HasAt(h, 8, b4) /\ HasAt(h, 12, b6)
    BY <1>3, <1>2, <1>14, <1>15, Stays, Zenon
  <1> QED
    BY <1>16, <1>17, Zenon DEF b1, b2, b3, b4, b5, b6, b7, b8

LEMMA HeaderFields ==
  ASSUME NEW proto, NEW src, NEW dst, Sized(src, 4), Sized(dst, 4), NEW total, NEW h,
         h = header(proto, src, dst, total)
  PROVE  Sized(h, 20) /\ HasAt(h, 12, src) /\ HasAt(h, 16, dst)
  <1> DEFINE H(x) == <<69, 0>> \o to_be_bytes(total) \o to_be_bytes(1) \o to_be_bytes(16384)
                     \o <<64, proto>> \o to_be_bytes(x) \o src \o dst
             c    == checksum(H(0))
  <1>1. h = <<69, 0>> \o to_be_bytes(total) \o to_be_bytes(1) \o to_be_bytes(16384)
            \o <<64, proto>> \o to_be_bytes(c) \o src \o dst
    BY DEF header
  <1> HIDE DEF H, c
  <1> DEFINE b1 == <<69, 0>>
             b2 == to_be_bytes(total)
             b3 == to_be_bytes(1)
             b4 == to_be_bytes(16384)
             b5 == <<64, proto>>
             b6 == to_be_bytes(c)
             b7 == src
             b8 == dst
             h2 == Join(b1, b2)
             h3 == Join(h2, b3)
             h4 == Join(h3, b4)
             h5 == Join(h4, b5)
             h6 == Join(h5, b6)
             h7 == Join(h6, b7)
  <1>2. /\ Sized(b1, 2) /\ Sized(b2, 2) /\ Sized(b3, 2) /\ Sized(b4, 2)
        /\ Sized(b5, 2) /\ Sized(b6, 2) /\ Sized(b7, 4) /\ Sized(b8, 4)
    BY WordSized, PairSized
  <1>3. h = Join(h7, b8)
    BY <1>1 DEF Join
  <1>4. /\ 2 + 2 = 4 /\ 4 + 2 = 6 /\ 6 + 2 = 8 /\ 8 + 2 = 10
        /\ 10 + 2 = 12 /\ 12 + 4 = 16 /\ 16 + 4 = 20
    OBVIOUS
  <1> HIDE DEF b1, b2, b3, b4, b5, b6, b7, b8
  <1>5. Sized(h2, 4) /\ HasAt(h2, 2, b2) /\ HasAt(h2, 0, b1)
    BY <1>2, <1>4, Extend, Zenon
  <1> HIDE DEF h2
  <1>6. Sized(h3, 6) /\ HasAt(h3, 4, b3)
    BY <1>2, <1>5, <1>4, Extend, Zenon
  <1> HIDE DEF h3
  <1>7. Sized(h4, 8) /\ HasAt(h4, 6, b4)
    BY <1>2, <1>6, <1>4, Extend, Zenon
  <1> HIDE DEF h4
  <1>8. Sized(h5, 10) /\ HasAt(h5, 8, b5)
    BY <1>2, <1>7, <1>4, Extend, Zenon
  <1> HIDE DEF h5
  <1>9. Sized(h6, 12) /\ HasAt(h6, 10, b6)
    BY <1>2, <1>8, <1>4, Extend, Zenon
  <1> HIDE DEF h6
  <1>10. Sized(h7, 16) /\ HasAt(h7, 12, b7)
    BY <1>2, <1>9, <1>4, Extend, Zenon
  <1> HIDE DEF h7
  <1>11. Sized(h, 20) /\ HasAt(h, 16, b8)
    BY <1>3, <1>2, <1>10, <1>4, Extend, Zenon
  <1>12. HasAt(h, 12, b7)
    BY <1>3, <1>2, <1>10, Stays, Zenon
  <1> QED
    BY <1>11, <1>12, Zenon DEF b1, b2, b3, b4, b5, b6, b7, b8

LEMMA EchoFields ==
  ASSUME NEW id, NEW seq, NEW n, NEW data, Sized(data, n), NEW m, m = echo_request(id, seq, data)
  PROVE  /\ Sized(m, 8 + n) /\ HasAt(m, 0, <<8, 0>>)
         /\ HasAt(m, 4, to_be_bytes(id)) /\ HasAt(m, 6, to_be_bytes(seq)) /\ HasAt(m, 8, data)
  <1> DEFINE M(x) == <<8, 0>> \o to_be_bytes(x) \o to_be_bytes(id) \o to_be_bytes(seq) \o data
             c    == checksum(M(0))
  <1>1. m = <<8, 0>> \o to_be_bytes(c) \o to_be_bytes(id) \o to_be_bytes(seq) \o data
    BY DEF echo_request
  <1> HIDE DEF M, c
  <1> DEFINE b1 == <<8, 0>>
             b2 == to_be_bytes(c)
             b3 == to_be_bytes(id)
             b4 == to_be_bytes(seq)
             b5 == data
             h2 == Join(b1, b2)
             h3 == Join(h2, b3)
             h4 == Join(h3, b4)
  <1>2. Sized(b1, 2) /\ Sized(b2, 2) /\ Sized(b3, 2) /\ Sized(b4, 2) /\ Sized(b5, n)
    BY WordSized, PairSized
  <1>3. m = Join(h4, b5)
    BY <1>1 DEF Join
  <1>4. 2 + 2 = 4 /\ 4 + 2 = 6 /\ 6 + 2 = 8
    OBVIOUS
  <1> HIDE DEF b1, b2, b3, b4, b5
  <1>5. Sized(h2, 4) /\ HasAt(h2, 2, b2) /\ HasAt(h2, 0, b1)
    BY <1>2, <1>4, Extend, Zenon
  <1> HIDE DEF h2
  <1>6. Sized(h3, 6) /\ HasAt(h3, 4, b3)
    BY <1>2, <1>5, <1>4, Extend, Zenon
  <1>7. HasAt(h3, 0, b1)
    BY <1>2, <1>5, Stays, Zenon
  <1> HIDE DEF h3
  <1>8. Sized(h4, 8) /\ HasAt(h4, 6, b4)
    BY <1>2, <1>6, <1>4, Extend, Zenon
  <1>9. HasAt(h4, 0, b1) /\ HasAt(h4, 4, b3)
    BY <1>2, <1>6, <1>7, Stays, Zenon
  <1> HIDE DEF h4
  <1>10. Sized(m, 8 + n) /\ HasAt(m, 8, b5)
    BY <1>3, <1>2, <1>8, <1>4, Extend, Zenon
  <1>11. HasAt(m, 0, b1) /\ HasAt(m, 4, b3) /\ HasAt(m, 6, b4)
    BY <1>3, <1>2, <1>8, <1>9, Stays, Zenon
  <1> QED
    BY <1>10, <1>11, Zenon DEF b1, b2, b3, b4, b5

LEMMA U32Fields ==
  ASSUME NEW x, NEW b, b = u32_bytes(x)
  PROVE  Sized(b, 4) /\ HasAt(b, 0, to_be_bytes(x[1])) /\ HasAt(b, 2, to_be_bytes(x[2]))
  <1>1. b = to_be_bytes(x[1]) \o to_be_bytes(x[2])
    BY DEF u32_bytes
  <1> DEFINE b1 == to_be_bytes(x[1])
             b2 == to_be_bytes(x[2])
  <1>2. Sized(b1, 2) /\ Sized(b2, 2)
    BY WordSized
  <1>3. b = Join(b1, b2)
    BY <1>1 DEF Join
  <1>4. 2 + 2 = 4
    OBVIOUS
  <1> HIDE DEF b1, b2
  <1>5. Sized(b, 4) /\ HasAt(b, 2, b2) /\ HasAt(b, 0, b1)
    BY <1>3, <1>2, <1>4, Extend, Zenon
  <1> QED
    BY <1>5, Zenon DEF b1, b2

IsSegment(t, sport, dport, seq, ack, flags, n) ==
  /\ Sized(t, 20 + n)
  /\ HasAt(t, 0, to_be_bytes(sport)) /\ HasAt(t, 2, to_be_bytes(dport))
  /\ HasAt(t, 4, u32_bytes(seq)) /\ HasAt(t, 8, u32_bytes(ack))
  /\ HasAt(t, 12, to_be_bytes(5 * 4096 + flags))

LEMMA SegmentFields ==
  ASSUME NEW sport, NEW dport, NEW seq, NEW ack, NEW flags, NEW n, NEW data, Sized(data, n), NEW dst
  PROVE  IsSegment(segment(sport, dport, seq, ack, flags, data, dst), sport, dport, seq, ack, flags, n)
  <1> DEFINE T(x) == to_be_bytes(sport) \o to_be_bytes(dport) \o u32_bytes(seq) \o u32_bytes(ack)
                     \o to_be_bytes(5 * 4096 + flags) \o to_be_bytes(536) \o to_be_bytes(x)
                     \o to_be_bytes(0) \o data
             c    == checksum(pseudo(dst, PROTO_TCP, T(0)))
             t    == segment(sport, dport, seq, ack, flags, data, dst)
  <1>1. t = to_be_bytes(sport) \o to_be_bytes(dport) \o u32_bytes(seq) \o u32_bytes(ack)
            \o to_be_bytes(5 * 4096 + flags) \o to_be_bytes(536) \o to_be_bytes(c)
            \o to_be_bytes(0) \o data
    BY DEF segment
  <1> HIDE DEF T, c, t
  <1> DEFINE b1 == to_be_bytes(sport)
             b2 == to_be_bytes(dport)
             b3 == u32_bytes(seq)
             b4 == u32_bytes(ack)
             b5 == to_be_bytes(5 * 4096 + flags)
             b6 == to_be_bytes(536)
             b7 == to_be_bytes(c)
             b8 == to_be_bytes(0)
             b9 == data
             h2 == Join(b1, b2)
             h3 == Join(h2, b3)
             h4 == Join(h3, b4)
             h5 == Join(h4, b5)
             h6 == Join(h5, b6)
             h7 == Join(h6, b7)
             h8 == Join(h7, b8)
  <1>2. /\ Sized(b1, 2) /\ Sized(b2, 2) /\ Sized(b3, 4) /\ Sized(b4, 4) /\ Sized(b5, 2)
        /\ Sized(b6, 2) /\ Sized(b7, 2) /\ Sized(b8, 2) /\ Sized(b9, n)
    BY WordSized, U32Fields
  <1>3. t = Join(h8, b9)
    BY <1>1 DEF Join
  <1>4. /\ 2 + 2 = 4 /\ 4 + 4 = 8 /\ 8 + 4 = 12 /\ 12 + 2 = 14
        /\ 14 + 2 = 16 /\ 16 + 2 = 18 /\ 18 + 2 = 20
    OBVIOUS
  <1> HIDE DEF b1, b2, b3, b4, b5, b6, b7, b8, b9
  <1>5. Sized(h2, 4) /\ HasAt(h2, 2, b2) /\ HasAt(h2, 0, b1)
    BY <1>2, <1>4, Extend, Zenon
  <1> HIDE DEF h2
  <1>6. Sized(h3, 8) /\ HasAt(h3, 4, b3)
    BY <1>2, <1>5, <1>4, Extend, Zenon
  <1>7. HasAt(h3, 0, b1) /\ HasAt(h3, 2, b2)
    BY <1>2, <1>5, Stays, Zenon
  <1> HIDE DEF h3
  <1>8. Sized(h4, 12) /\ HasAt(h4, 8, b4)
    BY <1>2, <1>6, <1>4, Extend, Zenon
  <1>9. HasAt(h4, 0, b1) /\ HasAt(h4, 2, b2) /\ HasAt(h4, 4, b3)
    BY <1>2, <1>6, <1>7, Stays, Zenon
  <1> HIDE DEF h4
  <1>10. Sized(h5, 14) /\ HasAt(h5, 12, b5)
    BY <1>2, <1>8, <1>4, Extend, Zenon
  <1>11. HasAt(h5, 0, b1) /\ HasAt(h5, 2, b2) /\ HasAt(h5, 4, b3) /\ HasAt(h5, 8, b4)
    BY <1>2, <1>8, <1>9, Stays, Zenon
  <1> HIDE DEF h5
  <1>12. Sized(h6, 16) /\ HasAt(h6, 14, b6)
    BY <1>2, <1>10, <1>4, Extend, Zenon
  <1>13. /\ HasAt(h6, 0, b1) /\ HasAt(h6, 2, b2) /\ HasAt(h6, 4, b3)
        /\ HasAt(h6, 8, b4) /\ HasAt(h6, 12, b5)
    BY <1>2, <1>10, <1>11, Stays, Zenon
  <1> HIDE DEF h6
  <1>14. Sized(h7, 18) /\ HasAt(h7, 16, b7)
    BY <1>2, <1>12, <1>4, Extend, Zenon
  <1>15. /\ HasAt(h7, 0, b1) /\ HasAt(h7, 2, b2) /\ HasAt(h7, 4, b3)
        /\ HasAt(h7, 8, b4) /\ HasAt(h7, 12, b5)
    BY <1>2, <1>12, <1>13, Stays, Zenon
  <1> HIDE DEF h7
  <1>16. Sized(h8, 20) /\ HasAt(h8, 18, b8)
    BY <1>2, <1>14, <1>4, Extend, Zenon
  <1>17. /\ HasAt(h8, 0, b1) /\ HasAt(h8, 2, b2) /\ HasAt(h8, 4, b3)
        /\ HasAt(h8, 8, b4) /\ HasAt(h8, 12, b5)
    BY <1>2, <1>14, <1>15, Stays, Zenon
  <1> HIDE DEF h8
  <1>18. Sized(t, 20 + n) /\ HasAt(t, 20, b9)
    BY <1>3, <1>2, <1>16, <1>4, Extend, Zenon
  <1>19. /\ HasAt(t, 0, b1) /\ HasAt(t, 2, b2) /\ HasAt(t, 4, b3)
        /\ HasAt(t, 8, b4) /\ HasAt(t, 12, b5)
    BY <1>3, <1>2, <1>16, <1>17, Stays, Zenon
  <1>20. IsSegment(t, sport, dport, seq, ack, flags, n)
    BY <1>18, <1>19 DEF IsSegment, b1, b2, b3, b4, b5
  <1> QED
    BY <1>20 DEF t

LEMMA ArpFields ==
  ASSUME NEW oper, NEW sha, NEW spa, NEW tha, NEW tpa, Sized(sha, 6), Sized(spa, 4), Sized(tha, 6),
         Sized(tpa, 4), NEW a, a = payload(oper, sha, spa, tha, tpa)
  PROVE  /\ Sized(a, 28) /\ HasAt(a, 6, to_be_bytes(oper)) /\ HasAt(a, 8, sha)
         /\ HasAt(a, 14, spa) /\ HasAt(a, 24, tpa)
  <1>1. a = to_be_bytes(1) \o to_be_bytes(2048) \o <<6, 4>> \o to_be_bytes(oper) \o sha \o spa
              \o tha \o tpa
    BY DEF payload
  <1> DEFINE b1 == to_be_bytes(1)
             b2 == to_be_bytes(2048)
             b3 == <<6, 4>>
             b4 == to_be_bytes(oper)
             b5 == sha
             b6 == spa
             b7 == tha
             b8 == tpa
             h2 == Join(b1, b2)
             h3 == Join(h2, b3)
             h4 == Join(h3, b4)
             h5 == Join(h4, b5)
             h6 == Join(h5, b6)
             h7 == Join(h6, b7)
  <1>2. /\ Sized(b1, 2) /\ Sized(b2, 2) /\ Sized(b3, 2) /\ Sized(b4, 2)
        /\ Sized(b5, 6) /\ Sized(b6, 4) /\ Sized(b7, 6) /\ Sized(b8, 4)
    BY WordSized, PairSized
  <1>3. a = Join(h7, b8)
    BY <1>1 DEF Join
  <1>4. /\ 2 + 2 = 4 /\ 4 + 2 = 6 /\ 6 + 2 = 8 /\ 8 + 6 = 14
        /\ 14 + 4 = 18 /\ 18 + 6 = 24 /\ 24 + 4 = 28
    OBVIOUS
  <1> HIDE DEF b1, b2, b3, b4, b5, b6, b7, b8
  <1>5. Sized(h2, 4) /\ HasAt(h2, 2, b2) /\ HasAt(h2, 0, b1)
    BY <1>2, <1>4, Extend, Zenon
  <1> HIDE DEF h2
  <1>6. Sized(h3, 6) /\ HasAt(h3, 4, b3)
    BY <1>2, <1>5, <1>4, Extend, Zenon
  <1> HIDE DEF h3
  <1>7. Sized(h4, 8) /\ HasAt(h4, 6, b4)
    BY <1>2, <1>6, <1>4, Extend, Zenon
  <1> HIDE DEF h4
  <1>8. Sized(h5, 14) /\ HasAt(h5, 8, b5)
    BY <1>2, <1>7, <1>4, Extend, Zenon
  <1>9. HasAt(h5, 6, b4)
    BY <1>2, <1>7, Stays, Zenon
  <1> HIDE DEF h5
  <1>10. Sized(h6, 18) /\ HasAt(h6, 14, b6)
    BY <1>2, <1>8, <1>4, Extend, Zenon
  <1>11. HasAt(h6, 6, b4) /\ HasAt(h6, 8, b5)
    BY <1>2, <1>8, <1>9, Stays, Zenon
  <1> HIDE DEF h6
  <1>12. Sized(h7, 24) /\ HasAt(h7, 18, b7)
    BY <1>2, <1>10, <1>4, Extend, Zenon
  <1>13. HasAt(h7, 6, b4) /\ HasAt(h7, 8, b5) /\ HasAt(h7, 14, b6)
    BY <1>2, <1>10, <1>11, Stays, Zenon
  <1> HIDE DEF h7
  <1>14. Sized(a, 28) /\ HasAt(a, 24, b8)
    BY <1>3, <1>2, <1>12, <1>4, Extend, Zenon
  <1>15. HasAt(a, 6, b4) /\ HasAt(a, 8, b5) /\ HasAt(a, 14, b6)
    BY <1>3, <1>2, <1>12, <1>13, Stays, Zenon
  <1> QED
    BY <1>14, <1>15, Zenon DEF b1, b2, b3, b4, b5, b6, b7, b8
-----------------------------------------------------------------------------
(* What ethernet::handle and ip::handle find in a frame of a peer.         *)

\* ethernet::handle finds a packet in the frame, and perhaps padding after it.
Carries(f, type, m, body) ==
  /\ Len(f) \in Nat /\ 14 <= Len(f) /\ be16(f, 12) = type
  /\ HasAt(Slice(f, 14, Len(f)), 0, body)
  /\ \E z \in Nat : Len(Slice(f, 14, Len(f))) = m + z

LEMMA Arrived ==
  ASSUME NEW dst, NEW src, Sized(dst, 6), Sized(src, 6), NEW type \in Nat, NEW m, NEW body,
         Sized(body, m)
  PROVE  Carries(Pad(frame(dst, src, type, body)), type, m, body)
  <1> DEFINE e == frame(dst, src, type, body)
             f == Pad(e)
             q == Slice(f, 14, Len(f))
  <1>1. Sized(e, 14 + m) /\ HasAt(e, 12, to_be_bytes(type)) /\ HasAt(e, 14, body)
    BY FrameFields, Zenon
  <1>2. f = Pad(e) /\ m \in Nat
    BY DEF Sized
  <1> HIDE DEF e, f
  <1>3. PICK z \in Nat : Sized(f, 14 + m + z)
    BY <1>1, <1>2, PadFields, Zenon
  <1>4. HasAt(f, 12, to_be_bytes(type)) /\ HasAt(f, 14, body)
    BY <1>1, <1>2, PadFields
  <1>5. IsSeq(f) /\ Len(f) = 14 + m + z /\ Len(f) \in Nat /\ 14 <= Len(f)
    BY <1>2, <1>3 DEF Sized
  <1>6. be16(f, 12) = type
    BY <1>4, WordAt
  <1>7. q = Slice(f, 14, Len(f))
    OBVIOUS
  <1> HIDE DEF q
  <1>8. /\ Len(q) = Len(f) - 14
        /\ \A j \in Nat : \A u : HasAt(f, 14 + j, u) => HasAt(q, j, u)
    BY <1>5, <1>7, Rest
  <1>9. HasAt(f, 14 + 0, body)
    BY <1>4
  <1>10. Len(q) = m + z
    BY <1>2, <1>5, <1>8
  <1>11. HasAt(q, 0, body)
    BY <1>8, <1>9
  <1>12. Carries(f, type, m, body)
    BY <1>5, <1>6, <1>10, <1>11, <1>7 DEF Carries
  <1> QED
    BY <1>12 DEF f, e

LEMMA PeerPacket ==
  ASSUME NEW p, Sized(p.ip, 4), NEW proto, NEW n \in Nat, n <= 10, NEW m, NEW body, Sized(body, m),
         NEW q, HasAt(q, 0, Join(PeerHeader(p, proto, n, m), body)),
         NEW z \in Nat, Len(q) = 20 + 4 * n + m + z
  PROVE  /\ Len(q) \in Nat /\ 20 <= Len(q) /\ At(q, 0) \div 16 = 4 /\ At(q, 9) = proto
         /\ Slice(q, 12, 16) = p.ip /\ ip_body(q) = body
         /\ ip_start(q) <= ip_end(q) /\ ~(ip_start(q) > ip_end(q))
  <1> DEFINE h == PeerHeader(p, proto, n, m)
             k == 20 + 4 * n
             g == Join(h, body)
  <1>1. m \in Nat /\ Len(body) = m /\ k \in Nat /\ k >= 20 /\ Len(q) = k + m + z
    BY DEF Sized
  <1>2. HasAt(q, 0, g)
    OBVIOUS
  <1>3. /\ Sized(h, k) /\ HasAt(h, 0, <<69 + n, 0>>) /\ HasAt(h, 2, to_be_bytes(k + m))
        /\ HasAt(h, 8, <<64, proto>>) /\ HasAt(h, 12, p.ip)
    BY PeerHeaderFields, Zenon
  <1> HIDE DEF h, k
  <1>4. Sized(g, k + m) /\ HasAt(g, k, body)
    BY <1>3, Extend, Zenon
  <1>5. /\ HasAt(g, 0, <<69 + n, 0>>) /\ HasAt(g, 2, to_be_bytes(k + m))
        /\ HasAt(g, 8, <<64, proto>>) /\ HasAt(g, 12, p.ip)
    BY <1>3, Stays, Zenon
  <1> HIDE DEF g
  <1>6. /\ HasAt(q, 0, <<69 + n, 0>>) /\ HasAt(q, 2, to_be_bytes(k + m))
        /\ HasAt(q, 8, <<64, proto>>) /\ HasAt(q, 12, p.ip) /\ HasAt(q, k, body)
    BY <1>2, <1>4, <1>5, Foremost
  <1>7. At(q, 0) = 69 + n
    BY <1>6, TwoAt
  <1>8. At(q, 9) = proto
    <2>1. At(q, 8 + 1) = proto
      BY <1>6, TwoAt, Zenon
    <2> QED BY <2>1
  <1>9. (69 + n) \div 16 = 4 /\ (69 + n) % 16 = 5 + n /\ (5 + n) * 4 = k
    BY DEF k
  <1>10. Slice(q, 12, 16) = p.ip
    <2>1. Slice(q, 12, 12 + Len(p.ip)) = p.ip
      BY <1>6, Sliced, Zenon
    <2> QED BY <2>1 DEF Sized
  <1>11. be16(q, 2) = k + m
    BY <1>1, <1>6, WordAt
  <1>12. ip_start(q) = k
    BY <1>1, <1>7, <1>9 DEF ip_start, Larger
  <1>13. ip_end(q) = k + m
    BY <1>1, <1>11 DEF ip_end, Smaller
  <1>14. ip_body(q) = body
    <2>1. Slice(q, k, k + Len(body)) = body
      BY <1>6, Sliced, Zenon
    <2> QED BY <1>1, <1>12, <1>13, <2>1, Zenon DEF ip_body
  <1>15. ip_start(q) <= ip_end(q) /\ ~(ip_start(q) > ip_end(q))
    BY <1>1, <1>12, <1>13
  <1>16. Len(q) \in Nat /\ 20 <= Len(q)
    BY <1>1
  <1>17. At(q, 0) \div 16 = 4
    BY <1>7, <1>9
  <1> QED
    BY <1>8, <1>10, <1>14, <1>15, <1>16, <1>17, Zenon

LEMMA PeerFrame ==
  ASSUME NEW p, Sized(p.ip, 4), Sized(p.mac, 6), Sized(OurMac, 6), NEW proto, NEW n \in Nat, n <= 10,
         NEW m, NEW body, Sized(body, m), NEW f, f = FromPeer(p, proto, n, body)
  PROVE  Carries(f, ETHERTYPE_IP, 20 + 4 * n + m, Join(PeerHeader(p, proto, n, m), body))
  <1> DEFINE h == PeerHeader(p, proto, n, m)
             k == 20 + 4 * n
             g == Join(h, body)
             v == ETHERTYPE_IP
  <1>1. m \in Nat /\ Len(body) = m /\ k \in Nat /\ v \in Nat
    BY DEF Sized, ETHERTYPE_IP
  <1>2. f = Pad(frame(OurMac, p.mac, v, g))
    BY <1>1 DEF FromPeer, Join
  <1>3. Sized(h, k)
    BY PeerHeaderFields, Zenon
  <1> HIDE DEF h, k, v
  <1>4. Sized(g, k + m)
    BY <1>3, Extend, Zenon
  <1> HIDE DEF g
  <1>5. Carries(f, v, k + m, g)
    BY <1>1, <1>2, <1>4, Arrived
  <1> QED
    BY <1>5, Zenon DEF g, h, k, v

\* ip::handle passes the body of such a packet to the handler of its protocol.
LEMMA HandleIp ==
  ASSUME NEW p, Sized(p.ip, 4), NEW proto, NEW n \in Nat, n <= 10, NEW m, NEW body, Sized(body, m),
         NEW f, Carries(f, ETHERTYPE_IP, 20 + 4 * n + m, Join(PeerHeader(p, proto, n, m), body)),
         handle(f)
  PROVE  /\ cache' = cache
         /\ out' = (IF proto = PROTO_ICMP THEN icmp_handle(p.ip, body) ELSE {})
                     \cup (IF proto = PROTO_TCP THEN tcp_handle(p.ip, body) ELSE {})
         /\ got' = IF proto = PROTO_UDP THEN udp_handle(p.ip, body) ELSE {}
         /\ halted' = (proto = PROTO_TCP /\ tcp_panics(body))
  <1> DEFINE q == Slice(f, 14, Len(f))
             r == [src |-> p.ip, body |-> body]
  <1>1. /\ Len(f) \in Nat /\ 14 <= Len(f) /\ be16(f, 12) = ETHERTYPE_IP
        /\ HasAt(q, 0, Join(PeerHeader(p, proto, n, m), body))
        /\ \E z \in Nat : Len(q) = 20 + 4 * n + m + z
    BY DEF Carries
  <1>2. PICK z \in Nat : Len(q) = 20 + 4 * n + m + z
    BY <1>1
  <1>3. /\ cache' = cache /\ out' = icmp_answers(q) \cup tcp_answers(q) /\ got' = delivered(q)
        /\ halted' = ip_panics(q)
    <2> DEFINE type == IF Len(f) < 14 THEN 0 ELSE be16(f, 12)
    <2>1. type = ETHERTYPE_IP /\ ETHERTYPE_IP # ETHERTYPE_ARP
      BY <1>1 DEF ETHERTYPE_IP, ETHERTYPE_ARP
    <2>2. /\ cache' = IF type = ETHERTYPE_ARP THEN arp_learn(q) ELSE cache
          /\ out' = IF type = ETHERTYPE_ARP THEN arp_handle(q)
                    ELSE IF type = ETHERTYPE_IP THEN icmp_answers(q) \cup tcp_answers(q) ELSE {}
          /\ got' = IF type = ETHERTYPE_IP THEN delivered(q) ELSE {}
          /\ halted' = (type = ETHERTYPE_IP /\ ip_panics(q))
      BY Zenon DEF handle
    <2>3. ip_panics(q) \in BOOLEAN
      BY Zenon DEF ip_panics
    <2> HIDE DEF type, q
    <2> QED BY <2>1, <2>2, <2>3, Zenon
  <1> HIDE DEF q
  <1>4. /\ Len(q) \in Nat /\ 20 <= Len(q) /\ At(q, 0) \div 16 = 4 /\ At(q, 9) = proto
        /\ Slice(q, 12, 16) = p.ip /\ ip_body(q) = body
        /\ ip_start(q) <= ip_end(q) /\ ~(ip_start(q) > ip_end(q))
    BY <1>1, <1>2, PeerPacket
  <1>a. ip_accepts(q)
    BY <1>4 DEF ip_accepts
  <1>5. ASSUME NEW x PROVE ip_handle(q, x) = IF x = proto THEN {r} ELSE {}
    BY <1>4, <1>a, Zenon DEF ip_handle
  <1>6. r.src = p.ip /\ r.body = body
    OBVIOUS
  <1> HIDE DEF r
  <1>7. icmp_answers(q) = IF proto = PROTO_ICMP THEN icmp_handle(p.ip, body) ELSE {}
    BY <1>5, <1>6 DEF icmp_answers
  <1>8. tcp_answers(q) = IF proto = PROTO_TCP THEN tcp_handle(p.ip, body) ELSE {}
    BY <1>5, <1>6 DEF tcp_answers
  <1>9. delivered(q) = IF proto = PROTO_UDP THEN udp_handle(p.ip, body) ELSE {}
    BY <1>5, <1>6 DEF delivered
  <1>10. ip_panics(q) = (proto = PROTO_TCP /\ tcp_panics(body))
    <2>1. ip_panics(q) <=> \E y \in ip_handle(q, PROTO_TCP) : tcp_panics(y.body)
      BY <1>4, <1>a, Zenon DEF ip_panics
    <2>2. ip_panics(q) <=> proto = PROTO_TCP /\ tcp_panics(body)
      <3>1. CASE proto = PROTO_TCP
        <4>1. ip_handle(q, PROTO_TCP) = {r}
          BY <1>5, <3>1
        <4> QED BY <1>6, <2>1, <3>1, <4>1
      <3>2. CASE proto # PROTO_TCP
        <4>1. ip_handle(q, PROTO_TCP) = {}
          BY <1>5, <3>2
        <4> QED BY <2>1, <3>2, <4>1
      <3> QED BY <3>1, <3>2
    <2> QED BY <2>2, Zenon DEF ip_panics
  <1> QED
    BY <1>3, <1>7, <1>8, <1>9, <1>10, Zenon

\* udp::handle reads the fields and cuts the data where the sender ended it.
LEMMA UdpParses ==
  ASSUME NEW sport \in Nat, NEW dport \in Nat, NEW dst, NEW n, NEW data, Sized(data, n), NEW src
  PROVE  udp_handle(src, datagram(sport, dst, dport, data))
           = {[src |-> src, sport |-> sport, dport |-> dport, data |-> data]}
  <1> DEFINE d == datagram(sport, dst, dport, data)
  <1>1. n \in Nat /\ Len(data) = n
    BY DEF Sized
  <1>2. /\ Sized(d, 8 + n)
        /\ HasAt(d, 0, to_be_bytes(sport)) /\ HasAt(d, 2, to_be_bytes(dport))
        /\ HasAt(d, 4, to_be_bytes(8 + n)) /\ HasAt(d, 8, data)
    BY <1>1, DatagramFields, Zenon
  <1> HIDE DEF d
  <1>3. be16(d, 0) = sport /\ be16(d, 2) = dport
    BY <1>2, WordAt
  <1>4. be16(d, 4) = 8 + n
    BY <1>1, <1>2, WordAt
  <1>5. Len(d) = 8 + n /\ ~(Len(d) < 8)
    BY <1>1, <1>2 DEF Sized
  <1>6. Smaller(Larger(be16(d, 4), 8), Len(d)) = 8 + Len(data)
    BY <1>1, <1>4, <1>5 DEF Smaller, Larger
  <1>7. Slice(d, 8, 8 + Len(data)) = data
    BY <1>2, Sliced, Zenon
  <1>8. udp_handle(src, d) = {[src |-> src, sport |-> sport, dport |-> dport, data |-> data]}
    BY <1>3, <1>5, <1>6, <1>7, Zenon DEF udp_handle
  <1> QED
    BY <1>8 DEF d

LEMMA Trimmed ==
  ASSUME NEW id, NEW seq, NEW n, NEW data, Sized(data, n), NEW r,
         r = Slice(echo_request(id, seq, data), 4, Len(echo_request(id, seq, data)))
  PROVE  /\ Sized(r, 4 + n)
         /\ HasAt(r, 0, to_be_bytes(id)) /\ HasAt(r, 2, to_be_bytes(seq)) /\ HasAt(r, 4, data)
  <1> DEFINE m == echo_request(id, seq, data)
  <1>1. /\ Sized(m, 8 + n)
        /\ HasAt(m, 4, to_be_bytes(id)) /\ HasAt(m, 6, to_be_bytes(seq)) /\ HasAt(m, 8, data)
    BY EchoFields, Zenon
  <1>2. r = Slice(m, 4, Len(m)) /\ n \in Nat
    BY DEF Sized
  <1> HIDE DEF m
  <1>3. IsSeq(m) /\ Len(m) = 8 + n /\ 4 <= Len(m)
    BY <1>1, <1>2 DEF Sized
  <1>4. /\ IsSeq(r) /\ Len(r) = Len(m) - 4
        /\ \A j \in Nat : \A u : HasAt(m, 4 + j, u) => HasAt(r, j, u)
    BY <1>2, <1>3, Rest
  <1>5. /\ HasAt(m, 4 + 0, to_be_bytes(id)) /\ HasAt(m, 4 + 2, to_be_bytes(seq))
        /\ HasAt(m, 4 + 4, data)
    BY <1>1
  <1>6. Sized(r, 4 + n)
    BY <1>2, <1>3, <1>4 DEF Sized
  <1> QED
    BY <1>4, <1>5, <1>6

LEMMA ReplyFields ==
  ASSUME NEW id, NEW seq, NEW n, NEW data, Sized(data, n), NEW m,
         m = echo_reply(echo_request(id, seq, data))
  PROVE  /\ Sized(m, 8 + n) /\ HasAt(m, 0, <<0, 0>>) /\ HasAt(m, 4, to_be_bytes(id))
         /\ HasAt(m, 6, to_be_bytes(seq)) /\ HasAt(m, 8, data)
  <1> DEFINE r    == Slice(echo_request(id, seq, data), 4, Len(echo_request(id, seq, data)))
             M(x) == <<0, 0>> \o to_be_bytes(x) \o r
             c    == checksum(M(0))
  <1>1. m = <<0, 0>> \o to_be_bytes(c) \o r
    BY DEF echo_reply
  <1>2. /\ Sized(r, 4 + n)
        /\ HasAt(r, 0, to_be_bytes(id)) /\ HasAt(r, 2, to_be_bytes(seq)) /\ HasAt(r, 4, data)
    BY Trimmed, Zenon
  <1> HIDE DEF M, c, r
  <1> DEFINE b1 == <<0, 0>>
             b2 == to_be_bytes(c)
             h2 == Join(b1, b2)
  <1>3. Sized(b1, 2) /\ Sized(b2, 2)
    BY WordSized, PairSized
  <1>4. m = Join(h2, r) /\ n \in Nat
    BY <1>1 DEF Join, Sized
  <1>5. 2 + 2 = 4 /\ 4 + (4 + n) = 8 + n /\ 4 + 0 = 4 /\ 4 + 2 = 6 /\ 4 + 4 = 8
    BY <1>4
  <1> HIDE DEF b1, b2
  <1>6. Sized(h2, 4) /\ HasAt(h2, 0, b1)
    BY <1>3, <1>5, Extend, Zenon
  <1> HIDE DEF h2
  <1>7. Sized(m, 8 + n) /\ HasAt(m, 4, r)
    BY <1>2, <1>4, <1>5, <1>6, Extend, Zenon
  <1>8. HasAt(m, 0, b1)
    BY <1>2, <1>4, <1>6, Stays, Zenon
  <1>9. HasAt(m, 4 + 0, to_be_bytes(id)) /\ HasAt(m, 4 + 2, to_be_bytes(seq)) /\ HasAt(m, 4 + 4, data)
    BY <1>2, <1>7, Nested, Zenon
  <1> QED
    BY <1>5, <1>7, <1>8, <1>9 DEF b1

LEMMA BroadcastSized == Sized(BROADCAST, 6)
  <1>1. 6 \in Nat
    OBVIOUS
  <1> QED
    BY <1>1, FilledSized, Zenon DEF BROADCAST

LEMMA ArpPacket ==
  ASSUME NEW p, Sized(p.ip, 4), Sized(p.mac, 6), NEW oper \in Nat, NEW tha, Sized(tha, 6),
         NEW target, Sized(target, 4),
         NEW q, HasAt(q, 0, payload(oper, p.mac, p.ip, tha, target)), NEW z \in Nat, Len(q) = 28 + z
  PROVE  /\ Len(q) >= 28 /\ be16(q, 6) = oper /\ Slice(q, 8, 14) = p.mac
         /\ Slice(q, 14, 18) = p.ip /\ Slice(q, 24, 28) = target
  <1> DEFINE a == payload(oper, p.mac, p.ip, tha, target)
  <1>1. /\ HasAt(a, 6, to_be_bytes(oper)) /\ HasAt(a, 8, p.mac)
        /\ HasAt(a, 14, p.ip) /\ HasAt(a, 24, target)
    BY ArpFields, Zenon
  <1>2. HasAt(q, 0, a)
    OBVIOUS
  <1> HIDE DEF a
  <1>3. /\ HasAt(q, 6, to_be_bytes(oper)) /\ HasAt(q, 8, p.mac)
        /\ HasAt(q, 14, p.ip) /\ HasAt(q, 24, target)
    BY <1>1, <1>2, Foremost
  <1>4. be16(q, 6) = oper
    BY <1>3, WordAt
  <1>5. /\ Slice(q, 8, 8 + Len(p.mac)) = p.mac /\ Slice(q, 14, 14 + Len(p.ip)) = p.ip
        /\ Slice(q, 24, 24 + Len(target)) = target
    BY <1>3, Sliced, Zenon
  <1>6. 8 + Len(p.mac) = 14 /\ 14 + Len(p.ip) = 18 /\ 24 + Len(target) = 28
    BY DEF Sized
  <1>7. Len(q) >= 28
    OBVIOUS
  <1> QED
    BY <1>4, <1>5, <1>6, <1>7, Zenon

\* arp::handle learns the sender and answers a request for our address.
LEMMA HandleArp ==
  ASSUME NEW p, Sized(p.ip, 4), Sized(p.mac, 6), NEW oper \in Nat, NEW tha, Sized(tha, 6),
         NEW target, Sized(target, 4), NEW dst, Sized(dst, 6),
         handle(Pad(frame(dst, p.mac, ETHERTYPE_ARP, payload(oper, p.mac, p.ip, tha, target))))
  PROVE  /\ cache' = remember(p.ip, p.mac) /\ got' = {} /\ ~halted'
         /\ out' = IF oper = 1 /\ target = IP
                     THEN {frame(p.mac, OurMac, ETHERTYPE_ARP, payload(2, OurMac, IP, p.mac, p.ip))}
                     ELSE {}
  <1> DEFINE a == payload(oper, p.mac, p.ip, tha, target)
             v == ETHERTYPE_ARP
             f == Pad(frame(dst, p.mac, v, a))
             q == Slice(f, 14, Len(f))
             type == IF Len(f) < 14 THEN 0 ELSE be16(f, 12)
  <1>1. Sized(a, 28)
    BY ArpFields, Zenon
  <1>2. v \in Nat /\ v # ETHERTYPE_IP
    BY DEF ETHERTYPE_ARP, ETHERTYPE_IP
  <1>3. Carries(f, v, 28, a)
    <2> HIDE DEF a, v
    <2> QED BY <1>1, <1>2, Arrived, Zenon
  <1>4. /\ cache' = IF type = v THEN arp_learn(q) ELSE cache
        /\ out' = IF type = v THEN arp_handle(q)
                  ELSE IF type = ETHERTYPE_IP THEN icmp_answers(q) \cup tcp_answers(q) ELSE {}
        /\ got' = IF type = ETHERTYPE_IP THEN delivered(q) ELSE {}
        /\ halted' = (type = ETHERTYPE_IP /\ ip_panics(q))
    BY Zenon DEF handle
  <1>5. HasAt(q, 0, a)
    BY <1>3 DEF Carries
  <1> HIDE DEF f, v
  <1>6. type = v
    BY <1>3 DEF Carries
  <1>7. PICK z \in Nat : Len(q) = 28 + z
    BY <1>3 DEF Carries
  <1> HIDE DEF q, type
  <1>8. /\ Len(q) >= 28 /\ be16(q, 6) = oper /\ Slice(q, 8, 14) = p.mac
        /\ Slice(q, 14, 18) = p.ip /\ Slice(q, 24, 28) = target
    BY <1>5, <1>7, ArpPacket
  <1>9. cache' = arp_learn(q) /\ out' = arp_handle(q) /\ got' = {} /\ ~halted'
    BY <1>2, <1>4, <1>6, Zenon
  <1>10. arp_learn(q) = remember(p.ip, p.mac)
    BY <1>8, Zenon DEF arp_learn
  <1>11. arp_handle(q)
           = IF oper = 1 /\ target = IP
               THEN {frame(p.mac, OurMac, ETHERTYPE_ARP, payload(2, OurMac, IP, p.mac, p.ip))}
               ELSE {}
    BY <1>8, Zenon DEF arp_handle
  <1> QED
    BY <1>9, <1>10, <1>11, Zenon
-----------------------------------------------------------------------------
(* One packet of a peer, from the wire to the handler.                     *)

\* What the theorems ask of the wire: addresses have their length, numbers
\* their width, and a payload fits, with its headers and a word of options,
\* in what the 16 bits of a total length can say.
Wire ==
  /\ Sized(OurMac, 6)
  /\ \A p \in Peers : Sized(p.ip, 4) /\ Sized(p.mac, 6)
  /\ \A d \in Data : IsSeq(d) /\ 32 + Len(d) <= 65535
  /\ \A w \in Words : w \in Nat /\ w <= 65535
  /\ \A x \in Seqs : /\ x[1] \in Nat /\ x[2] \in Nat /\ x[1] <= 65535 /\ x[2] <= 65535
                     /\ x = <<x[1], x[2]>>

LEMMA DataSized ==
  ASSUME Wire, NEW d \in Data PROVE Sized(d, Len(d))
  BY SeqLen DEF Wire, Sized

LEMMA SeqsAreNumbers ==
  ASSUME Wire, NEW x \in Seqs
  PROVE  x[1] \in Nat /\ x[2] \in Nat /\ x[2] <= 65535 /\ x = <<x[1], x[2]>>
  BY DEF Wire

LEMMA IpArrives ==
  ASSUME Wire, NEW p \in Peers, NEW proto, NEW n \in {0, 1}, NEW m, NEW body, Sized(body, m),
         handle(FromPeer(p, proto, n, body))
  PROVE  /\ cache' = cache
         /\ out' = (IF proto = PROTO_ICMP THEN icmp_handle(p.ip, body) ELSE {})
                     \cup (IF proto = PROTO_TCP THEN tcp_handle(p.ip, body) ELSE {})
         /\ got' = IF proto = PROTO_UDP THEN udp_handle(p.ip, body) ELSE {}
         /\ halted' = (proto = PROTO_TCP /\ tcp_panics(body))
  <1> DEFINE f == FromPeer(p, proto, n, body)
  <1>1. n \in Nat /\ n <= 10
    OBVIOUS
  <1>2. Sized(p.ip, 4) /\ Sized(p.mac, 6) /\ Sized(OurMac, 6)
    BY DEF Wire
  <1>3. f = FromPeer(p, proto, n, body) /\ handle(f)
    OBVIOUS
  <1> HIDE DEF f
  <1>4. Carries(f, ETHERTYPE_IP, 20 + 4 * n + m, Join(PeerHeader(p, proto, n, m), body))
    BY <1>1, <1>2, <1>3, PeerFrame
  <1> QED
    BY <1>1, <1>2, <1>3, <1>4, HandleIp, Zenon

LEMMA Protocols ==
  /\ PROTO_ICMP # PROTO_TCP /\ PROTO_ICMP # PROTO_UDP /\ PROTO_TCP # PROTO_UDP
  BY DEF PROTO_ICMP, PROTO_TCP, PROTO_UDP

LEMMA DatagramArrives ==
  ASSUME Wire, NEW p \in Peers, NEW n \in {0, 1}, NEW sport \in Words, NEW dport \in Words,
         NEW data \in Data, PeerDatagram(p, n, sport, dport, data)
  PROVE  /\ cache' = cache /\ out' = {} /\ ~halted'
         /\ got' = {[src |-> p.ip, sport |-> sport, dport |-> dport, data |-> data]}
  <1> DEFINE d == datagram(sport, p.ip, dport, data)
             l == Len(data)
  <1>1. sport \in Nat /\ dport \in Nat /\ Sized(data, l) /\ l \in Nat
    BY DataSized DEF Wire, Sized
  <1>2. udp_handle(p.ip, d) = {[src |-> p.ip, sport |-> sport, dport |-> dport, data |-> data]}
    <2> HIDE DEF l
    <2> QED BY <1>1, UdpParses
  <1>3. Sized(d, 8 + l)
    <2> HIDE DEF l
    <2> QED BY <1>1, DatagramFields
  <1>4. handle(FromPeer(p, PROTO_UDP, n, d))
    BY DEF PeerDatagram
  <1> HIDE DEF d, l
  <1>5. /\ cache' = cache
        /\ out' = (IF PROTO_UDP = PROTO_ICMP THEN icmp_handle(p.ip, d) ELSE {})
                    \cup (IF PROTO_UDP = PROTO_TCP THEN tcp_handle(p.ip, d) ELSE {})
        /\ got' = IF PROTO_UDP = PROTO_UDP THEN udp_handle(p.ip, d) ELSE {}
        /\ halted' = (PROTO_UDP = PROTO_TCP /\ tcp_panics(d))
    BY <1>3, <1>4, IpArrives, Zenon
  <1> QED
    BY <1>2, <1>5, Protocols

LEMMA EchoArrives ==
  ASSUME Wire, NEW p \in Peers, NEW type \in {0, 8}, NEW n \in {0, 1}, NEW id, NEW seq,
         NEW data \in Data, PeerEcho(p, type, n, id, seq, data)
  PROVE  /\ cache' = cache /\ got' = {} /\ ~halted'
         /\ out' = IF type = 8
                     THEN {ip_send(p.ip, PROTO_ICMP, echo_reply(echo_request(id, seq, data)))} ELSE {}
  <1> DEFINE req  == echo_request(id, seq, data)
             rep  == echo_reply(req)
             body == IF type = 8 THEN req ELSE rep
             l    == Len(data)
  <1>1. Sized(data, l) /\ l \in Nat
    BY DataSized DEF Sized
  <1>2. Sized(req, 8 + l) /\ HasAt(req, 0, <<8, 0>>)
    <2> HIDE DEF l
    <2> QED BY <1>1, EchoFields, Zenon
  <1>3. Sized(rep, 8 + l) /\ HasAt(rep, 0, <<0, 0>>)
    <2> HIDE DEF l
    <2> QED BY <1>1, ReplyFields, Zenon
  <1>4. handle(FromPeer(p, PROTO_ICMP, n, body))
    BY DEF PeerEcho
  <1>5. rep = echo_reply(req)
    OBVIOUS
  <1> HIDE DEF req, rep, l
  <1>6. Sized(body, 8 + l) /\ Len(body) >= 8
    <2>1. Sized(body, 8 + l)
      BY <1>2, <1>3
    <2> QED BY <1>1, <2>1 DEF Sized
  <1>7. At(req, 0) = 8 /\ At(rep, 0) = 0
    BY <1>2, <1>3, TwoAt
  <1>8. icmp_handle(p.ip, body) = IF type = 8 THEN {ip_send(p.ip, PROTO_ICMP, rep)} ELSE {}
    <2>1. CASE type = 8
      <3>1. body = req
        BY <2>1
      <3> HIDE DEF body
      <3> QED BY <1>5, <1>6, <1>7, <2>1, <3>1, Zenon DEF icmp_handle
    <2>2. CASE type # 8
      <3>1. body = rep /\ At(body, 0) # 8
        BY <1>7, <2>2
      <3> HIDE DEF body
      <3> QED BY <2>2, <3>1, Zenon DEF icmp_handle
    <2> QED BY <2>1, <2>2
  <1> HIDE DEF body
  <1>9. /\ cache' = cache
        /\ out' = (IF PROTO_ICMP = PROTO_ICMP THEN icmp_handle(p.ip, body) ELSE {})
                    \cup (IF PROTO_ICMP = PROTO_TCP THEN tcp_handle(p.ip, body) ELSE {})
        /\ got' = IF PROTO_ICMP = PROTO_UDP THEN udp_handle(p.ip, body) ELSE {}
        /\ halted' = (PROTO_ICMP = PROTO_TCP /\ tcp_panics(body))
    BY <1>4, <1>6, IpArrives, Zenon
  <1> QED
    BY <1>8, <1>9, Protocols DEF rep, req

LEMMA SegmentArrives ==
  ASSUME Wire, NEW p \in Peers, NEW n \in {0, 1}, NEW sport, NEW dport, NEW seq, NEW flags,
         PeerSegment(p, n, sport, dport, seq, flags)
  PROVE  /\ cache' = cache /\ got' = {}
         /\ halted' = tcp_panics(segment(sport, dport, seq, <<0, 0>>, flags, <<>>, p.ip))
         /\ out' = tcp_handle(p.ip, segment(sport, dport, seq, <<0, 0>>, flags, <<>>, p.ip))
  <1> DEFINE t == segment(sport, dport, seq, <<0, 0>>, flags, <<>>, p.ip)
  <1>1. Sized(<<>>, 0)
    <2>1. <<>> \in Seq({}) /\ Len(<<>>) = 0
      OBVIOUS
    <2> QED BY <2>1 DEF Sized, IsSeq
  <1>2. Sized(t, 20 + 0)
    <2>1. IsSegment(t, sport, dport, seq, <<0, 0>>, flags, 0)
      BY <1>1, SegmentFields
    <2> HIDE DEF t
    <2> QED BY <2>1 DEF IsSegment
  <1>3. handle(FromPeer(p, PROTO_TCP, n, t))
    BY DEF PeerSegment
  <1> HIDE DEF t
  <1>4. /\ cache' = cache
        /\ out' = (IF PROTO_TCP = PROTO_ICMP THEN icmp_handle(p.ip, t) ELSE {})
                    \cup (IF PROTO_TCP = PROTO_TCP THEN tcp_handle(p.ip, t) ELSE {})
        /\ got' = IF PROTO_TCP = PROTO_UDP THEN udp_handle(p.ip, t) ELSE {}
        /\ halted' = (PROTO_TCP = PROTO_TCP /\ tcp_panics(t))
    BY <1>2, <1>3, IpArrives
  <1>5. halted' = tcp_panics(t)
    BY <1>4, Zenon DEF tcp_panics
  <1>6. cache' = cache /\ got' = {} /\ out' = tcp_handle(p.ip, t)
    BY <1>4, Protocols
  <1> QED
    BY <1>5, <1>6, Zenon DEF t

LEMMA ArpArrives ==
  ASSUME Wire, NEW p \in Peers, NEW oper \in {1, 2}, NEW target \in {IP, GATEWAY},
         PeerArp(p, oper, target)
  PROVE  /\ cache' = remember(p.ip, p.mac) /\ got' = {} /\ ~halted'
         /\ out' = IF oper = 1 /\ target = IP
                     THEN {frame(p.mac, OurMac, ETHERTYPE_ARP, payload(2, OurMac, IP, p.mac, p.ip))}
                     ELSE {}
  <1> DEFINE dst == IF oper = 1 THEN BROADCAST ELSE OurMac
             tha == IF oper = 1 THEN Zeros(6) ELSE OurMac
  <1>1. Sized(p.ip, 4) /\ Sized(p.mac, 6) /\ Sized(OurMac, 6)
    BY DEF Wire
  <1>2. Sized(dst, 6) /\ Sized(tha, 6)
    BY <1>1, BroadcastSized, ZerosSized
  <1>3. Sized(target, 4)
    <2>1. GATEWAY \in Seq(Nat) /\ Len(GATEWAY) = 4
      BY DEF GATEWAY
    <2>2. Sized(GATEWAY, 4)
      BY <2>1 DEF Sized, IsSeq
    <2> QED BY <2>2, IPSized
  <1>4. handle(Pad(frame(dst, p.mac, ETHERTYPE_ARP, payload(oper, p.mac, p.ip, tha, target))))
    BY DEF PeerArp
  <1>5. oper \in Nat
    OBVIOUS
  <1> HIDE DEF dst, tha
  <1> QED
    BY <1>1, <1>2, <1>3, <1>4, <1>5, HandleArp
-----------------------------------------------------------------------------
(* What is handed to the sockets.                                          *)

LEMMA DatagramStep ==
  ASSUME Wire, DatagramsWhole, [Next]_vars PROVE DatagramsWhole'
  <1>1. CASE Sending
    <2>1. ASSUME NEW target, request(target) PROVE DatagramsWhole'
      BY <2>1 DEF request, Sends, DatagramsWhole
    <2>2. ASSUME NEW dst, NEW seq, NEW data, ping(dst, seq, data) PROVE DatagramsWhole'
      BY <2>2 DEF ping, Sends, DatagramsWhole
    <2>3. ASSUME NEW sport, NEW dst, NEW dport, NEW data, udp_send(sport, dst, dport, data)
          PROVE  DatagramsWhole'
      BY <2>3 DEF udp_send, Sends, DatagramsWhole
    <2> QED BY <1>1, <2>1, <2>2, <2>3, Zenon DEF Sending
  <1>2. CASE Receiving
    <2>1. ASSUME NEW p \in Peers, NEW oper \in {1, 2}, NEW target \in {IP, GATEWAY},
                 PeerArp(p, oper, target)
          PROVE  DatagramsWhole'
      <3>1. got' = {}
        BY <2>1, ArpArrives
      <3>2. cause'.kind = "arp"
        BY <2>1 DEF PeerArp
      <3> QED BY <3>1, <3>2 DEF DatagramsWhole
    <2>2. ASSUME NEW p \in Peers, NEW type \in {0, 8}, NEW n \in {0, 1}, NEW id \in Words,
                 NEW seq \in Words, NEW data \in Data, PeerEcho(p, type, n, id, seq, data)
          PROVE  DatagramsWhole'
      <3>1. got' = {}
        BY <2>2, EchoArrives
      <3>2. cause'.kind = "echo"
        BY <2>2 DEF PeerEcho
      <3> QED BY <3>1, <3>2 DEF DatagramsWhole
    <2>3. ASSUME NEW p \in Peers, NEW n \in {0, 1}, NEW sport \in Words, NEW dport \in Words,
                 NEW data \in Data, PeerDatagram(p, n, sport, dport, data)
          PROVE  DatagramsWhole'
      <3>1. got' = {[src |-> p.ip, sport |-> sport, dport |-> dport, data |-> data]}
        BY <2>3, DatagramArrives
      <3>2. /\ cause'.kind = "udp" /\ cause'.peer = p /\ cause'.sport = sport
            /\ cause'.dport = dport /\ cause'.data = data
        BY <2>3 DEF PeerDatagram
      <3> QED BY <3>1, <3>2 DEF DatagramsWhole
    <2>4. ASSUME NEW p \in Peers, NEW n \in {0, 1}, NEW sport \in Words, NEW dport \in Words,
                 NEW seq \in Seqs, NEW flags, PeerSegment(p, n, sport, dport, seq, flags)
          PROVE  DatagramsWhole'
      <3>1. got' = {}
        BY <2>4, SegmentArrives
      <3>2. cause'.kind = "tcp"
        BY <2>4 DEF PeerSegment
      <3> QED BY <3>1, <3>2 DEF DatagramsWhole
    <2> QED BY <1>2, <2>1, <2>2, <2>3, <2>4, Zenon DEF Receiving
  <1>3. CASE Taken
    BY <1>3 DEF Taken, DatagramsWhole
  <1>4. CASE UNCHANGED vars
    BY <1>4 DEF vars, DatagramsWhole
  <1> QED
    BY <1>1, <1>2, <1>3, <1>4, Zenon DEF Next

\* A datagram reaches socket::deliver exactly as its sender wrote it, with the
\* address and the ports it came from, for every payload and port: what
\* ip::handle and udp::handle cut away is the header, its options and the
\* padding of the link, and nothing else.
THEOREM DatagramsArriveWhole ==
  ASSUME Wire PROVE Spec => []DatagramsWhole
  <1>1. Init => DatagramsWhole
    BY DEF Init, DatagramsWhole
  <1> QED
    BY <1>1, DatagramStep, PTL DEF Spec
-----------------------------------------------------------------------------
(* What is sent back.                                                      *)

LEMMA Adjacent ==
  ASSUME NEW s, NEW k, NEW m, NEW n, NEW a, NEW b, Sized(a, m), Sized(b, n),
         HasAt(s, k, a), HasAt(s, k + m, b)
  PROVE  HasAt(s, k, Join(a, b))
  <1> DEFINE u == Join(a, b)
  <1>1. Len(a) = m /\ Len(b) = n /\ m \in Nat /\ n \in Nat /\ IsSeq(a) /\ IsSeq(b)
    BY DEF Sized
  <1>2. /\ IsSeq(u) /\ Len(u) = m + n
        /\ \A i \in 1..(m + n) : u[i] = IF i <= m THEN a[i] ELSE b[i - m]
    BY <1>1, Concat DEF Join
  <1> HIDE DEF u
  <1>3. IsSeq(s) /\ k \in Nat /\ k + m + n <= Len(s) /\ Len(s) \in Nat
    BY <1>1, SeqLen DEF HasAt
  <1>4. ASSUME NEW i \in 1..(m + n) PROVE s[k + i] = u[i]
    <2>1. CASE i <= m
      <3>1. i \in 1..m
        BY <1>1, <2>1
      <3>2. s[k + i] = a[i]
        BY <1>1, <3>1 DEF HasAt
      <3> QED BY <1>2, <2>1, <3>2
    <2>2. CASE ~(i <= m)
      <3>1. i - m \in 1..n /\ k + m + (i - m) = k + i
        BY <1>1, <1>3, <2>2
      <3>2. s[k + m + (i - m)] = b[i - m]
        BY <1>1, <3>1 DEF HasAt
      <3> QED BY <1>2, <2>2, <3>1, <3>2
    <2> QED BY <2>1, <2>2
  <1>5. HasAt(s, k, u)
    BY <1>1, <1>2, <1>3, <1>4 DEF HasAt
  <1> QED
    BY <1>5 DEF u

LEMMA Whole ==
  ASSUME NEW n, NEW s, NEW t, Sized(s, n), Sized(t, n), HasAt(s, 0, t)
  PROVE  s = t
  <1>1. PICK S : s \in Seq(S) /\ t \in Seq(S)
    BY Both DEF Sized
  <1>2. Len(s) = Len(t) /\ Len(t) \in Nat
    BY DEF Sized
  <1>3. \A i \in 1..Len(t) : s[i] = t[i]
    BY <1>2 DEF HasAt
  <1> QED
    BY <1>1, <1>2, <1>3

LEMMA U32At ==
  ASSUME NEW s, NEW k, NEW x, x[1] \in Nat, x[2] \in Nat, HasAt(s, k, u32_bytes(x))
  PROVE  be16(s, k) = x[1] /\ be16(s, k + 2) = x[2]
  <1> DEFINE b == u32_bytes(x)
  <1>1. HasAt(b, 0, to_be_bytes(x[1])) /\ HasAt(b, 2, to_be_bytes(x[2]))
    BY U32Fields, Zenon
  <1>2. HasAt(s, k, b) /\ k \in Nat
    BY DEF HasAt
  <1> HIDE DEF b
  <1>3. HasAt(s, k + 0, to_be_bytes(x[1])) /\ HasAt(s, k + 2, to_be_bytes(x[2]))
    BY <1>1, <1>2, Nested
  <1>4. HasAt(s, k, to_be_bytes(x[1]))
    BY <1>2, <1>3
  <1> QED
    BY <1>3, <1>4, WordAt

\* Every address in the ARP cache has the length of one.
CacheMacs == \A e \in cache : Sized(e.mac, 6)

LEMMA NextHop ==
  ASSUME CacheMacs, NEW dst PROVE Sized(next_hop_mac(dst), 6)
  <1> DEFINE S == IF lookup(dst) # {} THEN lookup(dst)
                  ELSE IF lookup(GATEWAY) # {} THEN lookup(GATEWAY) ELSE {BROADCAST}
  <1>1. \A ip : \A m \in lookup(ip) : Sized(m, 6)
    BY DEF CacheMacs, lookup
  <1>2. S # {} /\ \A m \in S : Sized(m, 6)
    BY <1>1, BroadcastSized
  <1>3. next_hop_mac(dst) = CHOOSE m \in S : TRUE
    BY DEF next_hop_mac
  <1> HIDE DEF S
  <1>4. (CHOOSE m \in S : TRUE) \in S
    BY <1>2
  <1> QED
    BY <1>2, <1>3, <1>4

\* Where ip::send puts the addresses and the message.
Conveys(f, dst, data) == Slice(f, 26, 34) = IP \o dst /\ Slice(f, 34, Len(f)) = data

LEMMA IpSent ==
  ASSUME Wire, CacheMacs, NEW proto, NEW dst, Sized(dst, 4), NEW m, NEW data, Sized(data, m),
         NEW f, f = ip_send(dst, proto, data)
  PROVE  Conveys(f, dst, data)
  <1> DEFINE h   == header(proto, IP, dst, 20 + Len(data))
             g   == Join(h, data)
             mac == next_hop_mac(dst)
             a   == Join(IP, dst)
  <1>1. f = frame(mac, OurMac, ETHERTYPE_IP, g)
    BY DEF ip_send, Join
  <1>2. Sized(h, 20) /\ HasAt(h, 12, IP) /\ HasAt(h, 16, dst)
    BY IPSized, HeaderFields, Zenon
  <1>3. Sized(mac, 6) /\ Sized(OurMac, 6)
    BY NextHop DEF Wire
  <1> HIDE DEF h, mac
  <1>4. Sized(g, 20 + m) /\ HasAt(g, 20, data)
    BY <1>2, Extend, Zenon
  <1>5. HasAt(g, 12, IP) /\ HasAt(g, 16, dst)
    BY <1>2, Stays, Zenon
  <1> HIDE DEF g
  <1>6. Sized(f, 14 + (20 + m)) /\ HasAt(f, 14, g)
    BY <1>1, <1>3, <1>4, FrameFields
  <1>7. HasAt(f, 14 + 12, IP) /\ HasAt(f, 14 + 16, dst) /\ HasAt(f, 14 + 20, data)
    BY <1>4, <1>5, <1>6, Nested
  <1>8. HasAt(f, 26, IP) /\ HasAt(f, 26 + 4, dst) /\ HasAt(f, 34, data)
    BY <1>7
  <1>9. Sized(a, 4 + 4) /\ HasAt(f, 26, a)
    BY <1>8, IPSized, Extend, Adjacent, Zenon
  <1> HIDE DEF a
  <1>10. Slice(f, 26, 26 + Len(a)) = a /\ Slice(f, 34, 34 + Len(data)) = data
    BY <1>8, <1>9, Sliced, Zenon
  <1>11. 26 + Len(a) = 34
    BY <1>9 DEF Sized
  <1>12. 34 + Len(data) = Len(f)
    BY <1>6 DEF Sized
  <1> QED
    BY <1>10, <1>11, <1>12 DEF a, Join, Conveys

IsReply(r, id, seq, data) ==
  Slice(r, 0, 2) \o Slice(r, 4, Len(r))
    = <<0, 0>> \o to_be_bytes(id) \o to_be_bytes(seq) \o data

LEMMA EchoAnswered ==
  ASSUME NEW id, NEW seq, NEW n, NEW data, Sized(data, n), NEW r,
         r = echo_reply(echo_request(id, seq, data))
  PROVE  Sized(r, 8 + n) /\ IsReply(r, id, seq, data)
  <1> DEFINE z == <<0, 0>>
             i == to_be_bytes(id)
             q == to_be_bytes(seq)
             t == Slice(r, 4, Len(r))
             l == Join(z, t)
             x == Join(z, i)
             y == Join(x, q)
             w == Join(y, data)
  <1>1. Sized(r, 8 + n) /\ HasAt(r, 0, z) /\ HasAt(r, 4, i) /\ HasAt(r, 6, q) /\ HasAt(r, 8, data)
    BY ReplyFields, Zenon
  <1>2. Sized(z, 2) /\ Sized(i, 2) /\ Sized(q, 2)
    BY WordSized, PairSized
  <1>3. n \in Nat /\ Len(z) = 2 /\ IsSeq(r) /\ Len(r) = 8 + n /\ 4 <= Len(r)
    BY <1>1, <1>2 DEF Sized
  <1> HIDE DEF z, i, q
  <1>4. Slice(r, 0, 2) = z
    <2>1. Slice(r, 0, 0 + Len(z)) = z
      BY <1>1, Sliced, Zenon
    <2> QED BY <1>3, <2>1
  <1>5. t = Slice(r, 4, Len(r))
    OBVIOUS
  <1> HIDE DEF t
  <1>6. /\ IsSeq(t) /\ Len(t) = Len(r) - 4
         /\ \A j \in Nat : \A u : HasAt(r, 4 + j, u) => HasAt(t, j, u)
    BY <1>3, <1>5, Rest
  <1>7. Sized(t, 4 + n)
    BY <1>3, <1>6 DEF Sized
  <1>8. HasAt(t, 0, i) /\ HasAt(t, 2, q) /\ HasAt(t, 4, data)
    <2>1. HasAt(r, 4 + 0, i) /\ HasAt(r, 4 + 2, q) /\ HasAt(r, 4 + 4, data)
      BY <1>1
    <2> QED BY <1>6, <2>1
  <1>9. Sized(l, 2 + (4 + n)) /\ HasAt(l, 0, z) /\ HasAt(l, 2, t)
    BY <1>2, <1>7, Extend, Zenon
  <1> HIDE DEF l
  <1>10. HasAt(l, 2 + 0, i) /\ HasAt(l, 2 + 2, q) /\ HasAt(l, 2 + 4, data)
    BY <1>8, <1>9, Nested, Zenon
  <1>11. HasAt(l, 0 + 2, i) /\ HasAt(l, 0 + 4, q) /\ HasAt(l, 0 + 6, data) /\ 2 + 2 = 4 /\ 4 + 2 = 6
    BY <1>10
  <1>12. Sized(x, 4) /\ HasAt(l, 0, x)
    BY <1>2, <1>9, <1>11, Extend, Adjacent, Zenon
  <1> HIDE DEF x
  <1>13. Sized(y, 6) /\ HasAt(l, 0, y)
    BY <1>2, <1>11, <1>12, Extend, Adjacent, Zenon
  <1> HIDE DEF y
  <1>14. Sized(w, 6 + n) /\ HasAt(l, 0, w)
    BY <1>11, <1>13, Extend, Adjacent, Zenon
  <1> HIDE DEF w
  <1>15. Sized(l, 6 + n)
    BY <1>3, <1>9
  <1>16. l = w
    BY <1>14, <1>15, Whole, Zenon
  <1>17. l = Slice(r, 0, 2) \o Slice(r, 4, Len(r))
    BY <1>4 DEF l, t, Join
  <1>18. w = <<0, 0>> \o to_be_bytes(id) \o to_be_bytes(seq) \o data
    BY DEF w, x, y, z, i, q, Join
  <1> QED
    BY <1>1, <1>16, <1>17, <1>18, Zenon DEF IsReply

LEMMA PlusOne ==
  ASSUME NEW a \in Nat, NEW b \in Nat, b <= 65535, NEW x, x = plus_one(<<a, b>>)
  PROVE  /\ x[1] \in Nat /\ x[2] \in Nat /\ (x[2] - b) % 65536 = 1
         /\ x[1] = IF b = 65535 THEN (a + 1) % 65536 ELSE a
  <1>1. <<a, b>>[1] = a /\ <<a, b>>[2] = b
    BY Two
  <1>2. CASE b < 65535
    <2>1. x = <<a, b + 1>>
      BY <1>1, <1>2 DEF plus_one
    <2>2. x[1] = a /\ x[2] = b + 1
      BY <2>1, Two
    <2>3. (b + 1) - b = 1 /\ 1 % 65536 = 1 /\ b # 65535
      BY <1>2
    <2> QED BY <2>2, <2>3
  <1>3. CASE ~(b < 65535)
    <2> DEFINE c == (a + 1) % 65536
    <2>1. x = <<c, 0>> /\ b = 65535
      BY <1>1, <1>3 DEF plus_one
    <2>2. c \in Nat
      OBVIOUS
    <2>3. x[1] = c /\ x[2] = 0
      <3> HIDE DEF c
      <3> QED BY <2>1, Two
    <2>4. (x[2] - b) % 65536 = 1
      <3> DEFINE d == x[2] - b
      <3>1. d \in Int /\ d + 65535 = 0
        BY <2>1, <2>3
      <3> HIDE DEF d
      <3>2. d % 65536 = 1
        BY <3>1
      <3> QED BY <3>2 DEF d
    <2> QED BY <2>1, <2>2, <2>3, <2>4
  <1> QED
    BY <1>2, <1>3

\* tcp::handle tells a SYN from the other segments and answers it.
Flags == {SYN, SYN + ACK, ACK, FIN + ACK, RST}
SynAck(sport, dport, seq, dst) ==
  segment(dport, sport, <<0, 1000>>, plus_one(<<seq[1], seq[2]>>), SYN + ACK, <<>>, dst)

LEMMA SynAnswered ==
  ASSUME NEW src, NEW sport \in Nat, NEW dport \in Nat, NEW seq, seq[1] \in Nat, seq[2] \in Nat,
         NEW flags \in Flags, NEW t, NEW ack, IsSegment(t, sport, dport, seq, ack, flags, 0)
  PROVE  /\ tcp_panics(t) <=> flags = SYN /\ overflows(<<seq[1], seq[2]>>)
         /\ tcp_handle(src, t)
              = IF flags = SYN /\ ~overflows(<<seq[1], seq[2]>>)
                  THEN {ip_send(src, PROTO_TCP, SynAck(sport, dport, seq, src))} ELSE {}
  <1>1. /\ Sized(t, 20 + 0)
        /\ HasAt(t, 0, to_be_bytes(sport)) /\ HasAt(t, 2, to_be_bytes(dport))
        /\ HasAt(t, 4, u32_bytes(seq)) /\ HasAt(t, 12, to_be_bytes(5 * 4096 + flags))
    BY DEF IsSegment
  <1>2. Len(t) >= 20
    BY <1>1 DEF Sized
  <1>3. be16(t, 0) = sport /\ be16(t, 2) = dport
    BY <1>1, WordAt
  <1>4. be32(t, 4) = <<seq[1], seq[2]>>
    <2>1. be16(t, 4) = seq[1] /\ be16(t, 4 + 2) = seq[2]
      BY <1>1, U32At
    <2> QED BY <2>1 DEF be32
  <1>5. flags \in {2, 18, 16, 17, 4}
    BY DEF Flags, SYN, ACK, FIN, RST
  <1>6. be16(t, 12) = 20480 + flags
    <2>1. 5 * 4096 + flags = 20480 + flags /\ 20480 + flags \in Nat
      BY <1>5
    <2> QED BY <1>1, <2>1, WordAt
  <1>7. Has(be16(t, 12), SYN) /\ ~Has(be16(t, 12), ACK) <=> flags = SYN
    BY <1>5, <1>6 DEF Has, SYN, ACK
  <1> DEFINE s == SynAck(sport, dport, seq, src)
  <1>8. s = segment(be16(t, 2), be16(t, 0), <<0, 1000>>, plus_one(be32(t, 4)), SYN + ACK, <<>>, src)
    BY <1>3, <1>4 DEF SynAck
  <1> HIDE DEF s
  <1>9. opens(t) <=> flags = SYN
    BY <1>2, <1>7 DEF opens
  <1>10. tcp_handle(src, t)
           = IF flags = SYN /\ ~overflows(<<seq[1], seq[2]>>) THEN {ip_send(src, PROTO_TCP, s)} ELSE {}
    BY <1>4, <1>8, <1>9 DEF tcp_handle
  <1>11. tcp_panics(t) <=> flags = SYN /\ overflows(<<seq[1], seq[2]>>)
    BY <1>4, <1>9, Zenon DEF tcp_panics
  <1> QED
    BY <1>10, <1>11, Zenon DEF s

\* What Answers asks of each kind of answer.
LEMMA ArpIsAnswer ==
  ASSUME NEW f, NEW c, c.kind = "arp", NEW p, c.peer = p,
         f = frame(p.mac, OurMac, ETHERTYPE_ARP, payload(2, OurMac, IP, p.mac, p.ip))
  PROVE  Answers(f, c)
  <1>1. c.kind # "echo" /\ c.kind # "tcp"
    OBVIOUS
  <1> QED
    BY <1>1, Zenon DEF Answers

LEMMA EchoIsAnswer ==
  ASSUME NEW f, NEW c, c.kind = "echo", NEW p, c.peer = p, NEW id, c.id = id,
         NEW seq, c.seq = seq, NEW data, c.data = data,
         NEW r, Conveys(f, p.ip, r), IsReply(r, id, seq, data)
  PROVE  Answers(f, c)
  <1>1. c.kind # "arp" /\ c.kind # "tcp"
    OBVIOUS
  <1> QED
    BY <1>1, Zenon DEF Answers, Conveys, IsReply

LEMMA SynIsAnswer ==
  ASSUME NEW f, NEW c, c.kind = "tcp", NEW p, c.peer = p, NEW sport, c.sport = sport,
         NEW dport, c.dport = dport, NEW seq, c.seq = seq,
         NEW r, Conveys(f, p.ip, r), be16(r, 0) = dport, be16(r, 2) = sport,
         Acknowledges(r, seq)
  PROVE  Answers(f, c)
  <1>1. c.kind # "arp" /\ c.kind # "echo"
    OBVIOUS
  <1> QED
    BY <1>1, Zenon DEF Answers, Conveys

\* The reply that goes back to a host that pinged us.
LEMMA EchoReturned ==
  ASSUME Wire, CacheMacs, NEW p \in Peers, NEW type \in {0, 8}, NEW n \in {0, 1},
         NEW id, NEW seq, NEW data \in Data, PeerEcho(p, type, n, id, seq, data)
  PROVE  AnswersMatch'
  <1>1. /\ cause'.kind = "echo" /\ cause'.peer = p /\ cause'.type = type
        /\ cause'.id = id /\ cause'.seq = seq /\ cause'.data = data
    BY DEF PeerEcho
  <1>2. out' = IF type = 8
                 THEN {ip_send(p.ip, PROTO_ICMP, echo_reply(echo_request(id, seq, data)))} ELSE {}
    BY EchoArrives
  <1>a. ~halted'
    BY EchoArrives
  <1>3. (Answered(cause') <=> type = 8) /\ ~Traps(cause')
    BY <1>1 DEF Answered, Traps
  <1>4. ASSUME NEW f \in out' PROVE Answers(f, cause')
    <2> DEFINE r == echo_reply(echo_request(id, seq, data))
               m == Len(data)
    <2>1. f = ip_send(p.ip, PROTO_ICMP, r)
      BY <1>2
    <2>2. Sized(data, m) /\ Sized(p.ip, 4)
      BY DataSized DEF Wire
    <2>3. r = echo_reply(echo_request(id, seq, data))
      OBVIOUS
    <2> HIDE DEF m, r
    <2>4. Sized(r, 8 + m) /\ IsReply(r, id, seq, data)
      BY <2>2, <2>3, EchoAnswered, Zenon
    <2>5. Conveys(f, p.ip, r)
      BY <2>1, <2>2, <2>4, IpSent, Zenon
    <2> QED BY <1>1, <2>4, <2>5, EchoIsAnswer, Zenon
  <1> QED
    BY <1>1, <1>2, <1>a, <1>3, <1>4 DEF AnswersMatch

\* The SYN-ACK that goes back to a host that asked for a connection.
LEMMA SynReturned ==
  ASSUME Wire, CacheMacs, NEW p \in Peers, NEW n \in {0, 1}, NEW sport \in Words,
         NEW dport \in Words, NEW seq \in Seqs,
         NEW flags \in {SYN, SYN + ACK, ACK, FIN + ACK, RST},
         PeerSegment(p, n, sport, dport, seq, flags)
  PROVE  AnswersMatch'
  <1> DEFINE z == <<0, 0>>
             t == segment(sport, dport, seq, z, flags, <<>>, p.ip)
             x == plus_one(<<seq[1], seq[2]>>)
             r == segment(dport, sport, <<0, 1000>>, x, SYN + ACK, <<>>, p.ip)
  <1>1. /\ cause'.kind = "tcp" /\ cause'.peer = p /\ cause'.sport = sport
        /\ cause'.dport = dport /\ cause'.seq = seq /\ cause'.flags = flags
    BY DEF PeerSegment
  <1>2. out' = tcp_handle(p.ip, t) /\ halted' = tcp_panics(t)
    BY SegmentArrives
  <1>3. /\ sport \in Nat /\ dport \in Nat /\ Sized(p.ip, 4)
        /\ seq[1] \in Nat /\ seq[2] \in Nat /\ seq = <<seq[1], seq[2]>>
    <2>1. sport \in Nat /\ dport \in Nat
      BY DEF Wire
    <2>2. Sized(p.ip, 4)
      BY DEF Wire
    <2> QED BY <2>1, <2>2, SeqsAreNumbers
  <1>4. Sized(<<>>, 0)
    <2>1. <<>> \in Seq({}) /\ Len(<<>>) = 0
      OBVIOUS
    <2> QED BY <2>1 DEF Sized, IsSeq
  <1>5. IsSegment(t, sport, dport, seq, z, flags, 0)
    BY <1>4, SegmentFields
  <1>6. IsSegment(r, dport, sport, <<0, 1000>>, x, SYN + ACK, 0)
    BY <1>4, SegmentFields
  <1>7. /\ out' = IF flags = SYN /\ ~overflows(seq) THEN {ip_send(p.ip, PROTO_TCP, r)} ELSE {}
        /\ halted' <=> flags = SYN /\ overflows(seq)
    <2>1. r = SynAck(sport, dport, seq, p.ip)
      BY DEF SynAck
    <2>2. flags \in Flags
      BY DEF Flags
    <2> HIDE DEF z, t, x, r
    <2>3. /\ tcp_panics(t) <=> flags = SYN /\ overflows(<<seq[1], seq[2]>>)
          /\ tcp_handle(p.ip, t)
               = IF flags = SYN /\ ~overflows(<<seq[1], seq[2]>>)
                   THEN {ip_send(p.ip, PROTO_TCP, SynAck(sport, dport, seq, p.ip))} ELSE {}
      BY <1>3, <1>5, <2>2, SynAnswered, SMTT(30)
    <2>4. overflows(<<seq[1], seq[2]>>) <=> overflows(seq)
      BY <1>3, Zenon
    <2> QED BY <1>2, <2>1, <2>3, <2>4, Zenon
  <1>8. /\ x[1] \in Nat /\ x[2] \in Nat /\ (x[2] - seq[2]) % 65536 = 1
        /\ x[1] = IF seq[2] = 65535 THEN (seq[1] + 1) % 65536 ELSE seq[1]
    <2>1. seq[2] <= 65535
      BY SeqsAreNumbers
    <2> QED BY <1>3, <2>1, PlusOne
  <1> HIDE DEF t, x, r
  <1>9. (Answered(cause') <=> flags = SYN) /\ (Traps(cause') <=> flags = SYN /\ overflows(seq))
    BY <1>1 DEF Answered, Traps
  <1>10. ASSUME NEW f \in out' PROVE Answers(f, cause')
    <2>1. f = ip_send(p.ip, PROTO_TCP, r)
      BY <1>7
    <2>2. /\ Sized(r, 20 + 0)
          /\ HasAt(r, 0, to_be_bytes(dport)) /\ HasAt(r, 2, to_be_bytes(sport))
          /\ HasAt(r, 8, u32_bytes(x))
      BY <1>6 DEF IsSegment
    <2>3. Conveys(f, p.ip, r)
      BY <1>3, <2>1, <2>2, IpSent, Zenon
    <2>4. be16(r, 0) = dport /\ be16(r, 2) = sport
      BY <1>3, <2>2, WordAt
    <2>5. be16(r, 8) = x[1] /\ be16(r, 8 + 2) = x[2] /\ 8 + 2 = 10
      BY <1>8, <2>2, U32At
    <2>6. Acknowledges(r, seq)
      BY <1>8, <2>5 DEF Acknowledges
    <2> QED BY <1>1, <2>3, <2>4, <2>6, SynIsAnswer, Zenon
  <1> QED
    BY <1>1, <1>7, <1>9, <1>10 DEF AnswersMatch

LEMMA AnswerStep ==
  ASSUME Wire, CacheMacs, AnswersMatch, [Next]_vars PROVE CacheMacs' /\ AnswersMatch'
  <1>1. CASE ~halted /\ Sending
    <2>1. ASSUME NEW target, request(target) PROVE CacheMacs' /\ AnswersMatch'
      BY <1>1, <2>1 DEF request, Sends, CacheMacs, AnswersMatch, Traps
    <2>2. ASSUME NEW dst, NEW seq, NEW data, ping(dst, seq, data)
          PROVE  CacheMacs' /\ AnswersMatch'
      BY <1>1, <2>2 DEF ping, Sends, CacheMacs, AnswersMatch, Traps
    <2>3. ASSUME NEW sport, NEW dst, NEW dport, NEW data, udp_send(sport, dst, dport, data)
          PROVE  CacheMacs' /\ AnswersMatch'
      BY <1>1, <2>3 DEF udp_send, Sends, CacheMacs, AnswersMatch, Traps
    <2> QED BY <1>1, <2>1, <2>2, <2>3, Zenon DEF Sending
  <1>2. CASE Receiving
    <2>1. ASSUME NEW p \in Peers, NEW oper \in {1, 2}, NEW target \in {IP, GATEWAY},
                 PeerArp(p, oper, target)
          PROVE  CacheMacs' /\ AnswersMatch'
      <3> DEFINE f == frame(p.mac, OurMac, ETHERTYPE_ARP, payload(2, OurMac, IP, p.mac, p.ip))
      <3>1. /\ cache' = remember(p.ip, p.mac)
            /\ out' = IF oper = 1 /\ target = IP THEN {f} ELSE {}
            /\ ~halted'
        BY <2>1, ArpArrives
      <3>2. /\ cause'.kind = "arp" /\ cause'.peer = p /\ cause'.oper = oper
            /\ cause'.target = target
        BY <2>1 DEF PeerArp
      <3>3. CacheMacs'
        BY <3>1 DEF CacheMacs, remember, Wire
      <3>4. Answers(f, cause')
        <4>1. f = frame(p.mac, OurMac, ETHERTYPE_ARP, payload(2, OurMac, IP, p.mac, p.ip))
          OBVIOUS
        <4> HIDE DEF f
        <4> QED BY <3>2, <4>1, ArpIsAnswer, Zenon
      <3> HIDE DEF f
      <3>5. (Answered(cause') <=> oper = 1 /\ target = IP) /\ ~Traps(cause')
        BY <3>2 DEF Answered, Traps
      <3> QED BY <3>1, <3>2, <3>3, <3>4, <3>5 DEF AnswersMatch
    <2>2. ASSUME NEW p \in Peers, NEW type \in {0, 8}, NEW n \in {0, 1}, NEW id \in Words,
                 NEW seq \in Words, NEW data \in Data, PeerEcho(p, type, n, id, seq, data)
          PROVE  CacheMacs' /\ AnswersMatch'
      <3>1. cache' = cache
        BY <2>2, EchoArrives
      <3> QED BY <2>2, <3>1, EchoReturned DEF CacheMacs
    <2>3. ASSUME NEW p \in Peers, NEW n \in {0, 1}, NEW sport \in Words, NEW dport \in Words,
                 NEW data \in Data, PeerDatagram(p, n, sport, dport, data)
          PROVE  CacheMacs' /\ AnswersMatch'
      <3>1. cache' = cache /\ out' = {} /\ ~halted'
        BY <2>3, DatagramArrives
      <3>2. cause'.kind = "udp"
        BY <2>3 DEF PeerDatagram
      <3> QED BY <3>1, <3>2 DEF CacheMacs, AnswersMatch, Answered, Traps
    <2>4. ASSUME NEW p \in Peers, NEW n \in {0, 1}, NEW sport \in Words, NEW dport \in Words,
                 NEW seq \in Seqs, NEW flags \in {SYN, SYN + ACK, ACK, FIN + ACK, RST},
                 PeerSegment(p, n, sport, dport, seq, flags)
          PROVE  CacheMacs' /\ AnswersMatch'
      <3>1. cache' = cache
        BY <2>4, SegmentArrives
      <3> QED BY <2>4, <3>1, SynReturned DEF CacheMacs
    <2> QED BY <1>2, <2>1, <2>2, <2>3, <2>4, Zenon DEF Receiving
  <1>3. CASE ~halted /\ Taken
    BY <1>3 DEF Taken, CacheMacs, AnswersMatch, Traps
  <1>4. CASE UNCHANGED vars
    BY <1>4 DEF vars, CacheMacs, AnswersMatch, Traps
  <1> QED
    BY <1>1, <1>2, <1>3, <1>4, Zenon DEF Next

\* A host gets the answer to what it sent and to nothing else, for every
\* payload, port and sequence number: the echo reply repeats its identifier,
\* number and data, the SYN-ACK exchanges its ports and acknowledges the next
\* number modulo 2^32 (in a build with overflow checks the one number that
\* has no successor stops the kernel instead, and no other packet does), the ARP
\* reply gives our address to it alone.  About
\* icmp::handle, tcp::handle and arp::handle behind ip::handle, and about where
\* ip::send puts what they build.
THEOREM AnswersMatchRequests ==
  ASSUME Wire PROVE Spec => []AnswersMatch
  <1>1. Init => CacheMacs /\ AnswersMatch
    BY DEF Init, CacheMacs, AnswersMatch, Traps
  <1> QED
    BY <1>1, AnswerStep, PTL DEF Spec
=============================================================================
