------------------------------ MODULE Network ------------------------------
(***************************************************************************)
(* The protocol stack (kernel/src/net) over the card, and the two tasks    *)
(* that poll it: demo_arp (kernel/src/drivers/e1000/arp.rs) and the shell  *)
(* with its ping and net commands (kernel/src/shell.rs).  The shell's part *)
(* begins with the boot-time net::demo, before the tasks start.            *)
(*                                                                         *)
(* A frame is [type, ip, mac, arg]: the host it is from or for, the        *)
(* hardware address it teaches or goes to, and what else the handlers look *)
(* at: the target of an ARP request, the port of a datagram, the number of *)
(* an echo or a segment.  Every other frame has type "other".              *)
(*                                                                         *)
(* An operator named X_Variant is a deliberately wrong variant of X, there *)
(* to show that the properties below notice it.                            *)
(***************************************************************************)
EXTENDS E1000, Sockets

CONSTANTS
  Hosts,          \* bound: the hosts ping is used on
  Tries,          \* demo_arp's rounds of polling (40 in the code)
  Echoes,         \* echo requests of one ping (3 in the code)
  PumpMax,        \* frames one pump handles (16 in the code)
  MaxPings, MaxNets,   \* bounds: ping and net commands
  MaxArrivals     \* bound: frames the wire brings

ASSUME NetworkAssumption ==
  {Tries, Echoes, PumpMax, MaxPings, MaxNets, MaxArrivals} \subseteq Nat

VARIABLES
  cache,                \* the ARP cache
  socks,                \* SOCKETS
  joined,               \* history: the polls made when a socket was bound to 5555
  nic,                  \* who is inside send, with the NIC lock; "free"
  pc, out, back,        \* per task: place, the frame it sends, where to go then
  frame,                \* pump's frame
  dst, seq, n, step,    \* locals of ping, of pump and of net::demo
  tries,                \* demo_arp's local
  polled,               \* all frames handed out by poll_receive, with the task
  pings, nets, arrivals \* how much of each bound is used

upper == <<cache, socks, joined>>
tasks == <<nic, pc, out, back>>
local == <<frame, dst, seq, n, step, tries>>
count == <<pings, nets, arrivals>>
net   == <<up, rx, tx, upper, tasks, local, polled, count>>

IP        == 15
GATEWAY   == 2
BROADCAST == "ff"
Us        == "us"
Tasks     == {"arp", "shell"}

booted == pings + nets > 0 \/ pc["shell"] \in {"prompt", "done"}

F(type, ip, mac, arg) == [type |-> type, ip |-> ip, mac |-> mac, arg |-> arg]
-----------------------------------------------------------------------------
(* The layers.                                                             *)

next_hop_mac(ip) ==
  IF ip \in DOMAIN cache THEN cache[ip]
  ELSE IF GATEWAY \in DOMAIN cache THEN cache[GATEWAY] ELSE BROADCAST

request(target) == F("arpreq", IP, BROADCAST, target)

learn_Replies(f) ==
  IF f.type = "arprep" THEN [i \in DOMAIN cache \cup {f.ip} |-> IF i = f.ip THEN f.mac ELSE cache[i]]
  ELSE cache
learn(f) ==
  IF f.type \in {"arpreq", "arprep"}
    THEN [i \in DOMAIN cache \cup {f.ip} |-> IF i = f.ip THEN f.mac ELSE cache[i]]
    ELSE cache

\* The frames the handlers of each protocol send in answer.  (The overflow of
\* the SYN's number is the subject of Packets.)
arp_reply(f) == IF f.type = "arpreq" /\ f.arg = IP THEN {F("arprep", f.ip, f.mac, IP)} ELSE {}
echo_reply(f) == IF f.type = "echo" THEN {F("echorep", f.ip, next_hop_mac(f.ip), f.arg)} ELSE {}
syn_ack(f) == IF f.type = "syn" THEN {F("synack", f.ip, next_hop_mac(f.ip), f.arg + 1)} ELSE {}

Answers(f) == arp_reply(f) \cup echo_reply(f) \cup syn_ack(f)

udp_handle(f) == IF f.type = "udp" THEN deliver(socks, f.arg, f) ELSE socks

Goto(t, place) == pc' = [pc EXCEPT ![t] = place]

\* Call send with a frame and go on at `place`.
Send(t, f, place) ==
  /\ Goto(t, "send")
  /\ out' = [out EXCEPT ![t] = f]
  /\ back' = [back EXCEPT ![t] = place]

\* ethernet::handle: learn or deliver, and answer.
handle(f, table, place) ==
  /\ cache' = learn(f)
  /\ socks' = table
  /\ UNCHANGED joined
  /\ IF Answers(f) = {} THEN Goto("shell", place) /\ UNCHANGED <<out, back>>
     ELSE Send("shell", CHOOSE a \in Answers(f) : TRUE, place)
-----------------------------------------------------------------------------
(* send and poll_receive, as a task calls them.                            *)

send_start(t) ==
  /\ pc[t] = "send" /\ nic = "free"
  /\ IF up THEN send_copy(out[t]) /\ nic' = t /\ Goto(t, "tail")
     ELSE Goto(t, back[t]) /\ UNCHANGED <<up, rx, tx, nic>>
  /\ out' = [out EXCEPT ![t] = NoFrame]
  /\ UNCHANGED <<upper, back, local, polled, count>>

send_end(t) ==
  /\ pc[t] = "tail"
  /\ send_tail
  /\ nic' = "free" /\ Goto(t, back[t])
  /\ UNCHANGED <<upper, out, back, local, polled, count>>

poll(t) ==
  /\ nic = "free"
  /\ poll_receive
  /\ polled' = IF Polled = NoFrame THEN polled ELSE Append(polled, [by |-> t, frame |-> Polled])
-----------------------------------------------------------------------------
(* net::demo, at boot and as a command: crafted frames are fed to the      *)
(* handlers; then socket::demo, which reads its datagram back if there is  *)
(* room for a descriptor, and leaves its socket in the table.              *)

Bound(t, port) == bind(socket(t, "udp"), Place(t), port)

Crafted == << F("arprep", GATEWAY, "m0", IP), F("echo", GATEWAY, Us, 1), F("echo", GATEWAY, Us, 2),
              F("udp", GATEWAY, Us, 9999), F("syn", GATEWAY, Us, 777), F("udp", GATEWAY, Us, 5555) >>

demo_feed ==
  /\ pc["shell"] = "demo" /\ Crafted[step].type # "udp"
  /\ handle(Crafted[step], socks, "demo")
  /\ step' = step + 1
  /\ UNCHANGED <<up, rx, tx, nic, frame, dst, seq, n, tries, polled, count>>

udp_demo ==
  /\ pc["shell"] = "demo" /\ step = 4
  /\ \E t \in {Bound(socks, 9999)} : \E u \in {deliver(t, 9999, Crafted[4])} :
       socks' = close(recvfrom(u, Place(socks)), Place(socks))
  /\ step' = step + 1
  /\ UNCHANGED <<up, rx, tx, cache, joined, tasks, frame, dst, seq, n, tries, polled, count>>

socket_demo ==
  /\ pc["shell"] = "demo" /\ step = 6
  /\ \E t \in {Bound(socks, 5555)} : \E u \in {deliver(t, 5555, Crafted[6])} :
       socks' \in {u, recvfrom(u, Place(socks))}
  /\ joined' = [i \in DOMAIN joined \cup {Place(socks)} |->
                  IF i = Place(socks) THEN Len(polled) ELSE joined[i]]
  /\ Goto("shell", "prompt")
  /\ step' = 1
  /\ UNCHANGED <<up, rx, tx, cache, nic, out, back, frame, dst, seq, n, tries, polled, count>>

cmd_net ==
  /\ pc["shell"] = "prompt" /\ nets < MaxNets
  /\ Goto("shell", "demo")
  /\ nets' = nets + 1
  /\ UNCHANGED <<up, rx, tx, upper, nic, out, back, local, polled, pings, arrivals>>
-----------------------------------------------------------------------------
(* ping: an ARP request when the host is unknown; then the echoes, each    *)
(* followed by a sleep and a pump.                                         *)

cmd_ping(host) ==
  /\ pc["shell"] = "prompt" /\ pings < MaxPings
  /\ dst' = host /\ seq' = 0 /\ pings' = pings + 1
  /\ IF host \in DOMAIN cache THEN Goto("shell", "ping") /\ UNCHANGED <<out, back>>
     ELSE Send("shell", request(GATEWAY), "ping")
  /\ UNCHANGED <<up, rx, tx, upper, nic, frame, n, step, tries, polled, nets, arrivals>>

ping ==
  /\ pc["shell"] = "ping"
  /\ IF seq < Echoes
       THEN /\ seq' = seq + 1 /\ n' = 0
            /\ Send("shell", F("echo", dst, next_hop_mac(dst), seq'), "pump")
            /\ UNCHANGED dst
       ELSE Goto("shell", "prompt") /\ dst' = 0 /\ seq' = 0 /\ n' = 0 /\ UNCHANGED <<out, back>>
  /\ UNCHANGED <<up, rx, tx, upper, nic, frame, step, tries, polled, count>>

pump_NoBound ==
  /\ pc["shell"] = "pump"
  /\ poll("shell")
  /\ frame' = Polled
  /\ IF Polled = NoFrame THEN Goto("shell", "ping") /\ UNCHANGED n
     ELSE Goto("shell", "handle") /\ n' = n + 1
  /\ UNCHANGED <<upper, nic, out, back, dst, seq, step, tries, count>>
pump ==
  /\ pc["shell"] = "pump"
  /\ IF n = PumpMax THEN Goto("shell", "ping") /\ UNCHANGED <<up, rx, tx, frame, n, polled>>
     ELSE /\ poll("shell")
          /\ frame' = Polled
          /\ IF Polled = NoFrame THEN Goto("shell", "ping") /\ UNCHANGED n
             ELSE Goto("shell", "handle") /\ n' = n + 1
  /\ UNCHANGED <<upper, nic, out, back, dst, seq, step, tries, count>>

pump_handle ==
  /\ pc["shell"] = "handle"
  /\ handle(frame, udp_handle(frame), "pump")
  /\ frame' = NoFrame
  /\ UNCHANGED <<up, rx, tx, nic, dst, seq, n, step, tries, polled, count>>

\* The shell goes on with other commands, or ends.
quit ==
  /\ pc["shell"] = "prompt"
  /\ Goto("shell", "done")
  /\ UNCHANGED <<up, rx, tx, upper, nic, out, back, local, polled, count>>
-----------------------------------------------------------------------------
(* demo_arp: one request, then Tries rounds of a sleep and a burst of      *)
(* polls that ends with an ARP reply or an empty ring.                     *)

demo_arp ==
  /\ pc["arp"] = "start" /\ booted
  /\ IF up THEN Send("arp", request(GATEWAY), "sleep")
     ELSE Goto("arp", "done") /\ UNCHANGED <<out, back>>
  /\ UNCHANGED <<up, rx, tx, upper, nic, local, polled, count>>

demo_arp_sleep_NoCount ==
  /\ pc["arp"] = "sleep"
  /\ Goto("arp", "poll")
  /\ UNCHANGED <<up, rx, tx, upper, nic, out, back, local, polled, count>>
demo_arp_sleep ==
  /\ pc["arp"] = "sleep"
  /\ IF tries < Tries THEN Goto("arp", "poll") /\ tries' = tries + 1
     ELSE Goto("arp", "done") /\ UNCHANGED tries
  /\ UNCHANGED <<up, rx, tx, upper, nic, out, back, frame, dst, seq, n, step, polled, count>>

demo_arp_poll ==
  /\ pc["arp"] = "poll"
  /\ poll("arp")
  /\ Goto("arp", IF Polled = NoFrame THEN "sleep"
                 ELSE IF Polled.type = "arprep" THEN "done" ELSE "poll")
  /\ UNCHANGED <<upper, nic, out, back, local, count>>
-----------------------------------------------------------------------------
\* The wire brings a frame.  Nobody polls before the tasks have started, so
\* frames of that time are taken to come right then.
arrive ==
  /\ booted /\ arrivals < MaxArrivals
  /\ \E f \in Frame : store(f)
  /\ arrivals' = arrivals + 1
  /\ UNCHANGED <<upper, tasks, local, polled, pings, nets>>

dma == transmit /\ UNCHANGED <<upper, tasks, local, polled, count>>

NetworkInit ==
  /\ E1000Init
  /\ cache = [i \in {} |-> Us] /\ socks = <<>> /\ joined = <<>> /\ nic = "free"
  /\ pc = [t \in Tasks |-> IF t = "arp" THEN "start" ELSE "demo"]
  /\ out = [t \in Tasks |-> NoFrame] /\ back = [t \in Tasks |-> "none"]
  /\ frame = NoFrame /\ dst = 0 /\ seq = 0 /\ n = 0 /\ step = 1 /\ tries = 0
  /\ polled = <<>> /\ pings = 0 /\ nets = 0 /\ arrivals = 0

TaskStep(t) == send_start(t) \/ send_end(t)

ShellStep ==
  \/ demo_feed \/ udp_demo \/ socket_demo \/ cmd_net \/ (\E h \in Hosts : cmd_ping(h))
  \/ ping \/ pump \/ pump_handle \/ quit \/ TaskStep("shell")

ArpStep == demo_arp \/ demo_arp_sleep \/ demo_arp_poll \/ TaskStep("arp")

NetworkNext == ShellStep \/ ArpStep \/ arrive \/ dma

\* No fairness: a task that sleeps for ever, or that waits for NIC while its holder
\* is parked in the timer handler, takes no step, and nothing here says it will.
NetworkSpec == NetworkInit /\ [][NetworkNext]_net
-----------------------------------------------------------------------------
NetworkTypeOK ==
  /\ {RDH, RDT} \subseteq 0..(NUM_RX - 1) /\ {TDH, TDT} \subseteq 0..(NUM_TX - 1)
  /\ \A i \in DOMAIN rx_ring : rx_ring[i] \in Frame \cup {NoFrame}
  /\ nic \in Tasks \cup {"free"}
  /\ \A t \in Tasks : nic = t <=> pc[t] = "tail"
  /\ n \in 0..PumpMax /\ seq \in 0..Echoes /\ tries \in 0..Tries

\* What the device puts on the wire is a frame that was given to send and has not
\* had its turn yet: the doorbell never rings before tx_buf holds the frame.  (It
\* may be a newer one than the frame whose turn it is: there is one tx_buf.)
NeverStale ==
  [][TDH' # TDH => \E j \in DOMAIN due : tx_buf = due[j]]_net

\* The polls (indices of polled) whose frames pump has passed on to the handlers.
Handled ==
  LET mine == {k \in DOMAIN polled : polled[k].by = "shell"}
  IN  {k \in mine : pc["shell"] = "handle" => \E j \in mine : k < j}

\* Every socket of the port has in its queue, once and in order, exactly the
\* datagrams of the wire that pump has handled since the socket was bound: also
\* when several sockets that net::demo left behind share the port, and when the
\* slot was another socket's before.
DatagramsDelivered ==
  LET Is5555(f) == f.type = "udp" /\ f.arg = 5555
      OfWire(q) == SelectSeq(q, LAMBDA f : f \in Frame)
      order(i)  == SelectSeq([k \in 1..Len(polled) |-> k],
                             LAMBDA k : k > joined[i] /\ k \in Handled /\ Is5555(polled[k].frame))
      came(i)   == [j \in DOMAIN order(i) |-> polled[order(i)[j]].frame]
  IN  \A i \in Receivers(socks, 5555) : OfWire(socks[i].rx) = came(i)

\* A host other than the gateway is in the ARP cache exactly when pump handled an
\* ARP frame of it, with the address of the last one.  (The gateway's entry also
\* comes from the crafted reply of arp::demo.)
CacheFollowsArp ==
  \A h \in Hosts \ {GATEWAY} :
    LET arps == {k \in Handled : polled[k].frame.ip = h /\ polled[k].frame.type \in {"arpreq", "arprep"}}
    IN  IF arps = {} THEN h \notin DOMAIN cache
        ELSE /\ h \in DOMAIN cache
             /\ \E k \in arps : (\A j \in arps : j <= k) /\ cache[h] = polled[k].frame.mac

\* demo_arp's rounds, ping's echoes and pump's frames are counted: when the wire
\* has gone quiet (it brings MaxArrivals frames here), both tasks make finitely
\* many steps more, whatever came and whoever took it.  Whether a task gets to
\* make its next step is not promised; see NetworkSpec.  Nor is an end promised
\* while frames keep coming: demo_arp polls until the ring is empty.
TasksEnd == <>[][~(ShellStep \/ ArpStep)]_net
=============================================================================
