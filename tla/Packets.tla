------------------------------ MODULE Packets ------------------------------
(***************************************************************************)
(* The bytes of the protocol stack: how kernel/src/net and                 *)
(* kernel/src/drivers/e1000/arp.rs build and take apart frames.  Network   *)
(* has the tasks, the rings and the sockets and abstracts the bytes; here  *)
(* every frame is the sequence of its bytes, and one step is one call of   *)
(* ethernet::handle or of one of the senders.                              *)
(*                                                                         *)
(* A u16 is a number below 2^16, a u32 a pair of them.  Offsets are those  *)
(* of the code, from 0: At(s, i) is s[i] and Slice(s, a, b) is s[a..b].  A *)
(* slice whose start is past its end, and an addition that overflows in a  *)
(* build with overflow checks, panic: the kernel halts.                    *)
(*                                                                         *)
(* An operator named X_Variant is a deliberately wrong variant of X, there *)
(* to show that the properties below notice it.                            *)
(***************************************************************************)
EXTENDS Integers, Sequences, Functions

CONSTANTS
  OurMac,    \* the card's hardware address
  Peers,     \* the hosts of the wire, [ip, mac]; one may change its card
  Data,      \* payloads: short byte sequences, and one that needs no padding
  Words,     \* the u16 values that identifiers, numbers and ports take
  Seqs,      \* the u32 values of TCP sequence numbers
  OverflowChecks   \* a dev build (make run) has them, a release build has not

ASSUME BuildAssumption == OverflowChecks \in BOOLEAN

VARIABLES
  cache,     \* the ARP cache: a set of peers, at most one for an address
  cause,     \* the packet received or the call made in the last step
  out,       \* the frame it made us send, if any
  got,       \* the datagram it handed to socket::deliver, if any
  halted     \* it made the kernel panic

vars == <<cache, cause, out, got, halted>>

IP        == <<10, 0, 2, 15>>
GATEWAY   == <<10, 0, 2, 2>>
BROADCAST == [i \in 1..6 |-> 255]
Zeros(n)  == [i \in 1..n |-> 0]

ETHERTYPE_ARP == 2054    \* 0x0806
ETHERTYPE_IP  == 2048    \* 0x0800
PROTO_ICMP    == 1
PROTO_TCP     == 6
PROTO_UDP     == 17

At(s, i)       == s[i + 1]
Slice(s, a, b) == SubSeq(s, a + 1, b)
Larger(a, b)   == IF a > b THEN a ELSE b
Smaller(a, b)  == IF a < b THEN a ELSE b

to_be_bytes(w) == <<w \div 256, w % 256>>
be16(s, i)     == At(s, i) * 256 + At(s, i + 1)
be32(s, i)     == <<be16(s, i), be16(s, i + 2)>>
u32_bytes(x)   == to_be_bytes(x[1]) \o to_be_bytes(x[2])

\* seq + 1, where it does not panic.
plus_one(x) ==
  IF x[2] < 65535 THEN <<x[1], x[2] + 1>> ELSE <<(x[1] + 1) % 65536, 0>>
-----------------------------------------------------------------------------
(* The checksum, and the packets built with it.  A builder is written with *)
(* the checksum field as a parameter: first 0, then the sum over that.     *)

fold[sum \in Nat] == IF sum < 65536 THEN sum ELSE fold[(sum % 65536) + (sum \div 65536)]

WordSum(data) == SumFunction([i \in 1..(Len(data) \div 2) |-> be16(data, 2 * i - 2)])

checksum_FoldOnce(data) ==
  LET sum == WordSum(data) + IF Len(data) % 2 = 1 THEN data[Len(data)] * 256 ELSE 0
  IN  65535 - (((sum % 65536) + (sum \div 65536)) % 65536)
checksum(data) ==
  LET sum == WordSum(data) + IF Len(data) % 2 = 1 THEN data[Len(data)] * 256 ELSE 0
  IN  65535 - fold[sum]

frame(dst, src, ethertype, payload) == dst \o src \o to_be_bytes(ethertype) \o payload

payload(oper, sha, spa, tha, tpa) ==
  to_be_bytes(1) \o to_be_bytes(2048) \o <<6, 4>> \o to_be_bytes(oper) \o sha \o spa \o tha \o tpa

header(proto, src, dst, total) ==
  LET h(c) == <<69, 0>> \o to_be_bytes(total) \o to_be_bytes(1) \o to_be_bytes(16384)
              \o <<64, proto>> \o to_be_bytes(c) \o src \o dst
  IN  h(checksum(h(0)))

echo_request(id, seq, data) ==
  LET m(c) == <<8, 0>> \o to_be_bytes(c) \o to_be_bytes(id) \o to_be_bytes(seq) \o data
  IN  m(checksum(m(0)))

echo_reply(req) ==
  LET m(c) == <<0, 0>> \o to_be_bytes(c) \o Slice(req, 4, Len(req))
  IN  m(checksum(m(0)))

pseudo(dst, proto, d) == IP \o dst \o <<0, proto>> \o to_be_bytes(Len(d)) \o d

datagram(src_port, dst, dst_port, data) ==
  LET d(c) == to_be_bytes(src_port) \o to_be_bytes(dst_port) \o to_be_bytes(8 + Len(data))
              \o to_be_bytes(c) \o data
  IN  d(checksum(pseudo(dst, PROTO_UDP, d(0))))

FIN == 1
SYN == 2
RST == 4
ACK == 16
Has(flags, bit) == (flags \div bit) % 2 = 1

segment(sport, dport, seq, ack, flags, data, dst) ==
  LET t(c) == to_be_bytes(sport) \o to_be_bytes(dport) \o u32_bytes(seq) \o u32_bytes(ack)
              \o to_be_bytes(5 * 4096 + flags) \o to_be_bytes(536) \o to_be_bytes(c)
              \o to_be_bytes(0) \o data
  IN  t(checksum(pseudo(dst, PROTO_TCP, t(0))))

\* The driver's own request and its test for a reply (drivers/e1000/arp.rs).
arp_request(mac, target) ==
  BROADCAST \o mac \o <<8, 6, 0, 1, 8, 0, 6, 4, 0, 1>> \o mac \o IP \o Zeros(6) \o target

is_arp_reply(f) == Len(f) >= 42 /\ At(f, 12) = 8 /\ At(f, 13) = 6 /\ At(f, 21) = 2
-----------------------------------------------------------------------------
(* Sending.                                                                *)

lookup(ip) == {p.mac : p \in {q \in cache : q.ip = ip}}

next_hop_mac(dst) ==
  CHOOSE m \in IF lookup(dst) # {} THEN lookup(dst)
               ELSE IF lookup(GATEWAY) # {} THEN lookup(GATEWAY) ELSE {BROADCAST} : TRUE

ip_send(dst, proto, data) ==
  frame(next_hop_mac(dst), OurMac, ETHERTYPE_IP, header(proto, IP, dst, 20 + Len(data)) \o data)

Sends(frames, why) ==
  /\ out' = frames
  /\ got' = {}
  /\ cause' = why
  /\ UNCHANGED <<cache, halted>>

request(target) ==
  Sends({frame(BROADCAST, OurMac, ETHERTYPE_ARP, payload(1, OurMac, IP, Zeros(6), target))},
        [kind |-> "request", target |-> target])

ping(dst, seq, data) ==
  Sends({ip_send(dst, PROTO_ICMP, echo_request(95, seq, data))},
        [kind |-> "ping", ip |-> dst, id |-> 95, seq |-> seq, data |-> data])

udp_send(sport, dst, dport, data) ==
  Sends({ip_send(dst, PROTO_UDP, datagram(sport, dst, dport, data))},
        [kind |-> "udp_send", ip |-> dst, sport |-> sport, dport |-> dport, data |-> data])
-----------------------------------------------------------------------------
(* Receiving: the frames each handler sends in answer, what the cache       *)
(* learns, and the datagrams handed to the sockets.                        *)

remember(ip, mac) == {p \in cache : p.ip # ip} \cup {[ip |-> ip, mac |-> mac]}

arp_handle(arp) ==
  IF Len(arp) >= 28 /\ be16(arp, 6) = 1 /\ Slice(arp, 24, 28) = IP
    THEN LET sha == Slice(arp, 8, 14)
         IN  {frame(sha, OurMac, ETHERTYPE_ARP, payload(2, OurMac, IP, sha, Slice(arp, 14, 18)))}
    ELSE {}

arp_learn(arp) ==
  IF Len(arp) >= 28 THEN remember(Slice(arp, 14, 18), Slice(arp, 8, 14)) ELSE cache

icmp_handle(src, msg) ==
  IF Len(msg) >= 8 /\ At(msg, 0) = 8 THEN {ip_send(src, PROTO_ICMP, echo_reply(msg))} ELSE {}

udp_handle(src, d) ==
  IF Len(d) < 8 THEN {}
  ELSE LET end == Smaller(Larger(be16(d, 4), 8), Len(d))
       IN  {[src |-> src, sport |-> be16(d, 0), dport |-> be16(d, 2), data |-> Slice(d, 8, end)]}

opens(t) == Len(t) >= 20 /\ Has(be16(t, 12), SYN) /\ ~Has(be16(t, 12), ACK)
overflows(x) == OverflowChecks /\ x = <<65535, 65535>>

tcp_panics(t) == opens(t) /\ overflows(be32(t, 4))

tcp_handle(src, t) ==
  IF opens(t) /\ ~overflows(be32(t, 4))
    THEN {ip_send(src, PROTO_TCP,
                  segment(be16(t, 2), be16(t, 0), <<0, 1000>>, plus_one(be32(t, 4)),
                          SYN + ACK, <<>>, src))}
    ELSE {}

\* The body is pkt[start..end].
ip_start(pkt) == Larger((At(pkt, 0) % 16) * 4, 20)
ip_end(pkt)   == Smaller(be16(pkt, 2), Len(pkt))

ip_body_Unpadded(pkt) == Slice(pkt, ip_start(pkt), Len(pkt))
ip_body_NoOptions(pkt) == Slice(pkt, 20, ip_end(pkt))
ip_body(pkt) == Slice(pkt, ip_start(pkt), ip_end(pkt))

ip_accepts(pkt) == Len(pkt) >= 20 /\ At(pkt, 0) \div 16 = 4

\* What ip::handle passes to the handler of a protocol, if anything.
ip_handle(pkt, proto) ==
  IF ip_accepts(pkt) /\ ip_start(pkt) <= ip_end(pkt) /\ At(pkt, 9) = proto
    THEN {[src |-> Slice(pkt, 12, 16), body |-> ip_body(pkt)]} ELSE {}

ip_panics(pkt) ==
  /\ ip_accepts(pkt)
  /\ \/ ip_start(pkt) > ip_end(pkt)
     \/ \E m \in ip_handle(pkt, PROTO_TCP) : tcp_panics(m.body)

\* The handlers' answers, and what the sockets get.
icmp_answers(pkt) == UNION {icmp_handle(m.src, m.body) : m \in ip_handle(pkt, PROTO_ICMP)}
tcp_answers(pkt)  == UNION {tcp_handle(m.src, m.body) : m \in ip_handle(pkt, PROTO_TCP)}
delivered(pkt)    == UNION {udp_handle(m.src, m.body) : m \in ip_handle(pkt, PROTO_UDP)}

handle(f) ==
  LET type == IF Len(f) < 14 THEN 0 ELSE be16(f, 12)
      p    == Slice(f, 14, Len(f))
      arp  == type = ETHERTYPE_ARP
      ip   == type = ETHERTYPE_IP
  IN  /\ cache' = IF arp THEN arp_learn(p) ELSE cache
      /\ out' = IF arp THEN arp_handle(p)
                ELSE IF ip THEN icmp_answers(p) \cup tcp_answers(p) ELSE {}
      /\ got' = IF ip THEN delivered(p) ELSE {}
      /\ halted' = (ip /\ ip_panics(p))
-----------------------------------------------------------------------------
(* The other hosts of the wire.  They send well-formed packets to us, some *)
(* with IP options, and the link pads a frame to 60 bytes.                 *)

Pad(f) == f \o Zeros(60 - Smaller(Len(f), 60))

\* An IP header with `n` words of options (each byte the no-operation 1).
PeerHeader(p, proto, n, len) ==
  LET h(c) == <<69 + n, 0>> \o to_be_bytes(20 + 4 * n + len) \o Zeros(4) \o <<64, proto>>
              \o to_be_bytes(c) \o p.ip \o IP \o [i \in 1..(4 * n) |-> 1]
  IN  h(checksum(h(0)))

FromPeer(p, proto, n, body) ==
  Pad(frame(OurMac, p.mac, ETHERTYPE_IP, PeerHeader(p, proto, n, Len(body)) \o body))

PeerArp(p, oper, target) ==
  /\ cause' = [kind |-> "arp", peer |-> p, oper |-> oper, target |-> target]
  /\ handle(Pad(frame(IF oper = 1 THEN BROADCAST ELSE OurMac, p.mac, ETHERTYPE_ARP,
                      payload(oper, p.mac, p.ip, IF oper = 1 THEN Zeros(6) ELSE OurMac, target))))

PeerEcho(p, type, n, id, seq, data) ==
  /\ cause' = [kind |-> "echo", peer |-> p, type |-> type, id |-> id, seq |-> seq, data |-> data]
  /\ handle(FromPeer(p, PROTO_ICMP, n,
                     IF type = 8 THEN echo_request(id, seq, data)
                     ELSE echo_reply(echo_request(id, seq, data))))

PeerDatagram(p, n, sport, dport, data) ==
  /\ cause' = [kind |-> "udp", peer |-> p, sport |-> sport, dport |-> dport, data |-> data]
  /\ handle(FromPeer(p, PROTO_UDP, n, datagram(sport, p.ip, dport, data)))

PeerSegment(p, n, sport, dport, seq, flags) ==
  /\ cause' = [kind |-> "tcp", peer |-> p, sport |-> sport, dport |-> dport, seq |-> seq,
               flags |-> flags]
  /\ handle(FromPeer(p, PROTO_TCP, n, segment(sport, dport, seq, <<0, 0>>, flags, <<>>, p.ip)))

Init ==
  /\ cache = {}
  /\ cause = [kind |-> "none"]
  /\ out = {}
  /\ got = {}
  /\ halted = FALSE

\* The card takes the frame and the socket the datagram; the next call or
\* packet comes after that.
Taken ==
  /\ cause.kind # "none"
  /\ cause' = [kind |-> "none"]
  /\ out' = {}
  /\ got' = {}
  /\ UNCHANGED <<cache, halted>>

Sending ==
  \/ \E p \in Peers : request(p.ip)
  \/ \E p \in Peers, seq \in Words, data \in Data : ping(p.ip, seq, data)
  \/ \E p \in Peers, sport, dport \in Words, data \in Data : udp_send(sport, p.ip, dport, data)

Receiving ==
  \/ \E p \in Peers, oper \in {1, 2}, target \in {IP, GATEWAY} : PeerArp(p, oper, target)
  \/ \E p \in Peers, type \in {0, 8}, n \in {0, 1}, id, seq \in Words, data \in Data :
       PeerEcho(p, type, n, id, seq, data)
  \/ \E p \in Peers, n \in {0, 1}, sport, dport \in Words, data \in Data :
       PeerDatagram(p, n, sport, dport, data)
  \/ \E p \in Peers, n \in {0, 1}, sport, dport \in Words, seq \in Seqs,
        flags \in {SYN, SYN + ACK, ACK, FIN + ACK, RST} :
       PeerSegment(p, n, sport, dport, seq, flags)

\* A panic is the end: the panic handler halts the core.
Next ==
  /\ ~halted
  /\ \/ cause.kind = "none" /\ Sending
     \/ cause.kind = "none" /\ Receiving
     \/ Taken

Spec == Init /\ [][Next]_vars
-----------------------------------------------------------------------------
(* Properties.                                                             *)

\* Ones'-complement addition done a word at a time, the carry brought round
\* after every word: the definition the checksum is meant to compute.
OnesSum(b) ==
  LET even == IF Len(b) % 2 = 1 THEN Append(b, 0) ELSE b
      add(a, w) == IF a + w > 65535 THEN a + w - 65535 ELSE a + w
  IN  FoldFunction(add, 0, [i \in 1..(Len(even) \div 2) |-> be16(even, 2 * i - 2)])

\* Every frame the stack sends, a request of its own or an answer, is bytes
\* and passes the receiver's test at each layer: the IP header and the message
\* (with the pseudo-header, for UDP and TCP) add up to all ones, and the
\* lengths they state are the bytes there are; an ARP frame is a reply by the
\* driver's test, or the request the driver's own builder would write.  About
\* net::checksum with its odd last byte and its carries, the builders that
\* place it, and the two ARP encoders.
SentVerifies ==
  \A f \in out :
    LET proto == At(f, 23)
        dst   == Slice(f, 30, 34)
        msg   == Slice(f, 34, Len(f))
    IN  /\ \A i \in 1..Len(f) : f[i] \in 0..255
        /\ IF be16(f, 12) = ETHERTYPE_ARP
             THEN is_arp_reply(f) \/ f = arp_request(OurMac, cause.target)
             ELSE /\ OnesSum(Slice(f, 14, 34)) = 65535
                  /\ be16(f, 16) = Len(f) - 14
                  /\ OnesSum(IF proto = PROTO_ICMP THEN msg ELSE pseudo(dst, proto, msg)) = 65535
                  /\ proto = PROTO_UDP => be16(msg, 4) = Len(msg)

\* The packets that have an answer, and what it says.
Answered(c) ==
  \/ c.kind = "arp" /\ c.oper = 1 /\ c.target = IP
  \/ c.kind = "echo" /\ c.type = 8
  \/ c.kind = "tcp" /\ c.flags = SYN

\* A SYN whose number is 2^32 - 1, in a build with overflow checks.
Traps(c) == c.kind = "tcp" /\ c.flags = SYN /\ overflows(c.seq)

Acknowledges(msg, seq) ==
  /\ (be16(msg, 10) - seq[2]) % 65536 = 1
  /\ be16(msg, 8) = IF seq[2] = 65535 THEN (seq[1] + 1) % 65536 ELSE seq[1]

Answers(f, c) ==
  LET msg == Slice(f, 34, Len(f))
  IN  /\ c.kind = "arp" => f = frame(c.peer.mac, OurMac, ETHERTYPE_ARP,
                                    payload(2, OurMac, IP, c.peer.mac, c.peer.ip))
      /\ c.kind # "arp" => Slice(f, 26, 34) = IP \o c.peer.ip
      /\ c.kind = "echo" =>
           Slice(msg, 0, 2) \o Slice(msg, 4, Len(msg))
             = <<0, 0>> \o to_be_bytes(c.id) \o to_be_bytes(c.seq) \o c.data
      /\ c.kind = "tcp" =>
           be16(msg, 0) = c.dport /\ be16(msg, 2) = c.sport /\ Acknowledges(msg, c.seq)

\* What a host gets back is the answer to what it sent: an echo reply with
\* its identifier, number and data and nothing of the padding; a SYN-ACK with
\* the ports exchanged that acknowledges the next number; an ARP reply, to it
\* alone, that gives our address.  Anything else is not answered.  No packet of
\* a peer halts the kernel, except that `seq + 1` does in a build with overflow
\* checks when a SYN has the number 2^32 - 1; without them 0 is acknowledged.
\* About the handlers of icmp.rs, tcp.rs and arp.rs behind ip.rs.
AnswersMatch ==
  /\ halted <=> Traps(cause)
  /\ cause.kind \in {"arp", "echo", "udp", "tcp"} =>
       /\ out # {} <=> Answered(cause) /\ ~Traps(cause)
       /\ \A f \in out : Answers(f, cause)

\* A datagram reaches the sockets exactly as it was sent, with the sender's
\* address and ports, whatever options its header has and however the link
\* padded its frame.  About the slices of ip::handle and udp::handle.
DatagramsWhole ==
  got = IF cause.kind = "udp"
          THEN {[src |-> cause.peer.ip, sport |-> cause.sport, dport |-> cause.dport,
                 data |-> cause.data]}
          ELSE {}
=============================================================================
