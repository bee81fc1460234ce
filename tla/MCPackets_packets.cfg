\* Every packet of two hosts, and every send, in every state of the ARP cache.
SPECIFICATION Spec
CONSTANTS
  OurMac <- MCOurMac
  Peers  <- MCPeers
  Data   <- MCData
  Words  <- MCWords
  Seqs   <- MCSeqs
  OverflowChecks = TRUE
INVARIANTS
  SentVerifies
  AnswersMatch
  DatagramsWhole
\* A panic is the end.
CHECK_DEADLOCK FALSE
