----------------------------- MODULE MCPackets -----------------------------
(* Packets with two hosts, one of which changes its card, payloads of odd  *)
(* and even length, one of them long enough to need no padding, and        *)
(* numbers at the ends of their range.                                     *)
EXTENDS Packets

MCOurMac == <<82, 84, 0, 18, 52, 86>>
MCPeers  == {[ip |-> GATEWAY, mac |-> <<82, 85, 10, 0, 2, 2>>],
             [ip |-> GATEWAY, mac |-> <<82, 85, 10, 0, 2, 9>>],
             [ip |-> <<10, 0, 2, 3>>, mac |-> <<82, 85, 10, 0, 2, 3>>]}
MCData   == {<<>>, <<255>>, <<0, 1>>, <<1, 2, 3>>, [i \in 1..24 |-> 255]}
MCWords  == {0, 7, 65535}
MCSeqs   == {<<0, 776>>, <<0, 65535>>, <<65535, 65535>>}
=============================================================================
