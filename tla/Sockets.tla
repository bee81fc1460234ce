------------------------------ MODULE Sockets ------------------------------
(***************************************************************************)
(* The socket table (kernel/src/net/socket.rs): a vector of optional       *)
(* slots, as operators on its value.  Every operation of the code holds    *)
(* the SOCKETS lock while it reads or changes the table.                   *)
(*                                                                         *)
(* An operator named X_Variant is a deliberately wrong variant of X, there *)
(* to show that the properties of the modules above notice it.             *)
(***************************************************************************)
EXTENDS Naturals, Sequences, FiniteSets

Unbound  == 0     \* local_port of a socket nobody has bound
NoPeer   == 0

Vacant == [proto |-> "none", local_port |-> Unbound, peer |-> NoPeer, rx |-> <<>>]
Fresh(proto) == [Vacant EXCEPT !.proto = proto]

Live(t, i) == i \in DOMAIN t /\ t[i] # Vacant

\* The first vacant slot, or a new one at the end.
Place(t) ==
  LET vacant == {i \in DOMAIN t : t[i] = Vacant}
  IN  IF vacant = {} THEN Len(t) + 1
      ELSE CHOOSE i \in vacant : \A j \in vacant : i <= j

socket_Last(t, proto) ==
  IF t = <<>> THEN <<Fresh(proto)>> ELSE [t EXCEPT ![Len(t)] = Fresh(proto)]
socket(t, proto) ==
  IF Place(t) > Len(t) THEN Append(t, Fresh(proto))
  ELSE [t EXCEPT ![Place(t)] = Fresh(proto)]

bind(t, i, port) == IF Live(t, i) THEN [t EXCEPT ![i].local_port = port] ELSE t

connect(t, i, peer) == IF Live(t, i) THEN [t EXCEPT ![i].peer = peer] ELSE t

close(t, i) == IF i \in DOMAIN t THEN [t EXCEPT ![i] = Vacant] ELSE t

\* A copy for every UDP socket bound to the port.
Receivers(t, dport) == {i \in DOMAIN t : t[i].proto = "udp" /\ t[i].local_port = dport}

deliver_First(t, dport, d) ==
  [i \in DOMAIN t |-> IF i \in Receivers(t, dport) /\ \A j \in Receivers(t, dport) : i <= j
                        THEN [t[i] EXCEPT !.rx = Append(@, d)] ELSE t[i]]
deliver(t, dport, d) ==
  [i \in DOMAIN t |-> IF i \in Receivers(t, dport)
                        THEN [t[i] EXCEPT !.rx = Append(@, d)] ELSE t[i]]

\* recvfrom: the oldest datagram of socket i, if there is one, and the table
\* without it.
Queue(t, i) == IF Live(t, i) THEN t[i].rx ELSE <<>>

recvfrom(t, i) == IF Queue(t, i) = <<>> THEN t ELSE [t EXCEPT ![i].rx = Tail(@)]
=============================================================================
