----------------------------- MODULE MCNetwork -----------------------------
(* The frames of the wire: two datagrams and two ARP frames, so that their *)
(* order can be told apart.                                                *)
EXTENDS Network

frames == {F("arpreq", 9, "m1", IP), F("arprep", 9, "m2", IP),
           F("udp", 9, "m1", 5555), F("udp", GATEWAY, "m2", 5555)}
=============================================================================
