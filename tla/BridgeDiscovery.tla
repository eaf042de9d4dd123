-------------------------- MODULE BridgeDiscovery --------------------------
(***************************************************************************)
(* How a Switch finds the bridge: it probes port 17776 of its own loopback *)
(* and then of every host of the subnet it was built for, and connects to  *)
(* the address in the first answer (ApDiscovery.cpp, ApClient.cpp).  The   *)
(* bridge answers with the address its machine had when the responder      *)
(* started (discovery.py, net_util.py, main.py), while that address may    *)
(* change and the bridge be started and stopped.                           *)
(*                                                                         *)
(* Probes and answers are datagrams: they may be lost, and arrive late.    *)
(* Each step of an attempt has a socket of its own, of a port no other     *)
(* has.                                                                    *)
(***************************************************************************)
EXTENDS Naturals

CONSTANTS
  Addrs,        \* addresses the machine of the bridge may have
  Swept,        \* those in the /24 of BRIDGE_HOST_STRING, none when it is no literal
  Loop,         \* 127.0.0.1
  MaxSockets,   \* bound: UDP sockets opened
  MaxMoves      \* bound: changes of the address, starts of the bridge

ASSUME BridgeDiscoveryAssumption ==
  /\ Swept \subseteq Addrs /\ Loop \notin Addrs /\ MaxSockets \in Nat /\ MaxMoves \in Nat

VARIABLES
  \* the machine of the bridge
  lan,          \* its address, Loop without an interface
  phase,        \* "down", "serving" (the responder is yet to start), "up", "closing"
  responder,    \* the UDP socket is bound
  advertised,   \* _lan_ip
  suppressed,   \* SIO_UDP_CONNRESET is off, or the machine does not have it
  deaf,         \* a bounce has ended the responder
  \* the network
  probes,       \* the sockets of probes under way, and how they go: "loopback", "sweep"
  answers,      \* the sockets of answers under way, and the address in them
  \* the Switch
  sameHost,     \* it is Ryujinx on the machine of the bridge
  attempt,      \* "idle", "loopback", "sweep", "resolved", "connected"
  socket,       \* the UDP socket of the step, the last one between steps
  target,
  \* ---- history ----
  calm,         \* nothing stopped or moved since the attempt began
  moves

discVars == <<lan, phase, responder, advertised, suppressed, deaf, probes, answers, sameHost,
              attempt, socket, target, calm, moves>>

bridgeVars  == <<phase, responder, advertised, suppressed, deaf>>
attemptVars == <<attempt, socket, target>>

Move == moves < MaxMoves /\ moves' = moves + 1

DiscInit ==
  /\ lan \in Addrs \cup {Loop} /\ sameHost \in BOOLEAN
  /\ phase = "down" /\ responder = FALSE /\ advertised = Loop /\ suppressed = TRUE /\ deaf = FALSE
  /\ probes = {} /\ answers = {}
  /\ attempt = "idle" /\ socket = 0 /\ target = Loop /\ calm = FALSE /\ moves = 0

-----------------------------------------------------------------------------
(* The bridge. *)

Listening == phase \in {"serving", "up"}

\* sw.start of main.py: the server listens before the responder is there.
StartServer ==
  /\ phase = "down" /\ Move /\ phase' = "serving"
  /\ UNCHANGED <<lan, responder, advertised, suppressed, deaf, probes, answers, sameHost, attemptVars,
                 calm>>

\* detect_lan_ip: the address of the interface towards the outside, or the loopback.
DetectLanIp == lan

\* DiscoveryResponder.start: port 17776 may be taken, then there is no responder; the
\* call that suppresses resets may fail.
StartResponder(bound, quiet) ==
  /\ phase = "serving" /\ phase' = "up"
  /\ responder' = bound /\ deaf' = FALSE
  /\ advertised' = IF bound THEN DetectLanIp ELSE advertised
  /\ suppressed' = IF bound THEN quiet ELSE suppressed
  /\ UNCHANGED <<lan, probes, answers, sameHost, attemptVars, calm, moves>>

\* The end of main: sw.stop closes connections and the listener, discovery.stop follows.
StopServer ==
  /\ phase = "up" /\ phase' = "closing" /\ calm' = FALSE
  /\ attempt' = IF attempt = "connected" THEN "idle" ELSE attempt
  /\ UNCHANGED <<lan, responder, advertised, suppressed, deaf, probes, answers, sameHost, socket, target,
                 moves>>

StopResponder ==
  /\ phase = "closing" /\ phase' = "down" /\ responder' = FALSE
  /\ UNCHANGED <<lan, advertised, suppressed, deaf, probes, answers, sameHost, attemptVars, calm, moves>>

Crash ==
  /\ phase # "down" /\ phase' = "down" /\ responder' = FALSE /\ calm' = FALSE
  /\ attempt' = IF attempt = "connected" THEN "idle" ELSE attempt
  /\ UNCHANGED <<lan, advertised, suppressed, deaf, probes, answers, sameHost, socket, target, moves>>

\* The machine gets another address: no one tells the responder.
Readdress(a) ==
  /\ a # lan /\ Move /\ lan' = a /\ calm' = FALSE
  /\ attempt' = IF attempt = "connected" THEN "idle" ELSE attempt
  /\ UNCHANGED <<bridgeVars, probes, answers, sameHost, socket, target>>

\* Where a probe gets to the responder.
Reaches(way) == IF way = "loopback" THEN sameHost ELSE lan \in Swept

\* datagram_received.
DatagramReceived(p) ==
  /\ p \in probes /\ responder /\ ~deaf /\ Reaches(p[2])
  /\ probes' = probes \ {p} /\ answers' = answers \cup {<<p[1], advertised>>}
  /\ UNCHANGED <<lan, bridgeVars, sameHost, attemptVars, calm, moves>>

-----------------------------------------------------------------------------
(* The network. *)

LoseProbe(p) ==
  /\ p \in probes /\ probes' = probes \ {p}
  /\ UNCHANGED <<lan, bridgeVars, answers, sameHost, attemptVars, calm, moves>>

LoseAnswer(r) ==
  /\ r \in answers /\ answers' = answers \ {r}
  /\ UNCHANGED <<lan, bridgeVars, probes, sameHost, attemptVars, calm, moves>>

\* Any socket will do (mutant): one for all the steps.
ExpectsAny(s) == s \in 1..socket /\ attempt \in {"loopback", "sweep"}

Expects(s) == s = socket /\ attempt \in {"loopback", "sweep"}

\* An answer to a socket that is closed bounces: unless resets are suppressed, Windows
\* hands the responder no datagram from then on.
Bounce(r) ==
  /\ r \in answers /\ ~Expects(r[1])
  /\ answers' = answers \ {r} /\ deaf' = (deaf \/ ~suppressed)
  /\ UNCHANGED <<lan, phase, responder, advertised, suppressed, probes, sameHost, attemptVars, calm, moves>>

-----------------------------------------------------------------------------
(* The Switch. *)

\* A step: a socket, and a probe on its way.
SendProbe(way) ==
  /\ socket < MaxSockets /\ socket' = socket + 1
  /\ attempt' = way /\ probes' = probes \cup {<<socket + 1, way>>}
  /\ UNCHANGED <<lan, bridgeVars, answers, sameHost, target, moves>>

\* threadMain without a connection, and the first step of resolveBridge: oneProbeLiteral.
\* What is answered meanwhile is right unless the bridge is closing, or has moved.
ProbeLoopback ==
  /\ attempt = "idle" /\ SendProbe("loopback")
  /\ calm' = (phase # "closing" /\ (responder => advertised = lan))

\* kLoopbackProbeMs later: sweepSubnet.
ProbeSubnet ==
  attempt = "loopback" /\ Swept # {} /\ SendProbe("sweep") /\ UNCHANGED calm

\* kSweepCollectMs later, or without a subnet to sweep: sleep, and once more.
FindNone ==
  /\ attempt = IF Swept = {} THEN "loopback" ELSE "sweep"
  /\ attempt' = "idle"
  /\ UNCHANGED <<lan, bridgeVars, probes, answers, sameHost, socket, target, calm, moves>>

\* parseReply, of the first answer; what else comes for the socket bounces.
Resolve(r) ==
  /\ r \in answers /\ Expects(r[1])
  /\ answers' = answers \ {r} /\ attempt' = "resolved" /\ target' = r[2]
  /\ UNCHANGED <<lan, bridgeVars, probes, sameHost, socket, calm, moves>>

\* The server listens on every address of its machine.
Accepts(a) == Listening /\ (a = lan \/ (a = Loop /\ sameHost))

\* connectOnce.
ConnectFound ==
  /\ attempt = "resolved" /\ attempt' = IF Accepts(target) THEN "connected" ELSE "idle"
  /\ UNCHANGED <<lan, bridgeVars, probes, answers, sameHost, socket, target, calm, moves>>

\* disconnect, whatever led to it.
Hangup ==
  /\ attempt = "connected" /\ attempt' = "idle"
  /\ UNCHANGED <<lan, bridgeVars, probes, answers, sameHost, socket, target, calm, moves>>

DiscNext ==
  \/ StartServer \/ StopServer \/ StopResponder \/ Crash
  \/ (\E bound, quiet \in BOOLEAN : StartResponder(bound, quiet))
  \/ (\E a \in Addrs \cup {Loop} : Readdress(a))
  \/ (\E p \in probes : DatagramReceived(p) \/ LoseProbe(p))
  \/ (\E r \in answers : LoseAnswer(r) \/ Bounce(r) \/ Resolve(r))
  \/ ProbeLoopback \/ ProbeSubnet \/ FindNone \/ ConnectFound \/ Hangup

DiscSpec == DiscInit /\ [][DiscNext]_discVars

DiscTypeOK ==
  /\ {lan, advertised, target} \subseteq Addrs \cup {Loop}
  /\ phase \in {"down", "serving", "up", "closing"}
  /\ {responder, suppressed, deaf, sameHost, calm} \subseteq BOOLEAN
  /\ probes \subseteq (1..socket) \X {"loopback", "sweep"}
  /\ answers \subseteq (1..socket) \X (Addrs \cup {Loop})
  /\ attempt \in {"idle", "loopback", "sweep", "resolved", "connected"}
  /\ socket \in 0..MaxSockets /\ moves \in 0..MaxMoves

\* An address that was just discovered can be connected to: an answer of an earlier run
\* of the bridge, or from before it had its address, is never taken for one of this
\* attempt, and none is given before the server listens (main.py:304-316,
\* ApDiscovery.cpp:285-351).  Only a bridge that stops, or a machine that moves, during
\* the attempt, and one that moved since the responder started, lead it astray.
AnswerMeansListening == attempt = "resolved" /\ calm => Accepts(target)
=============================================================================
