----------------------------- MODULE SwitchRegistry -----------------------------
(***************************************************************************)
(* The bridge's registry of connected Switches (client/switch_server.py).  *)
(* Every TCP connection is served by a coroutine, _handle_client; one of   *)
(* the registered devices is active.  An action is the code a coroutine    *)
(* runs between two awaits: any send may wait (the writer is paused) while *)
(* the other coroutines, and set_active called by the user, go on.         *)
(*                                                                         *)
(* A connection that says HELLO under a registered id from the same peer   *)
(* replaces the registered one; from another peer it gets an id of its     *)
(* own.  A connection of another version is refused.  When the active one  *)
(* goes, another is promoted.  A connection that becomes active is sent a  *)
(* replay of the bridge's state.                                           *)
(***************************************************************************)
EXTENDS Naturals, FiniteSets

CONSTANTS
  Conns,       \* connections, in the life of the bridge
  Raw,         \* device ids the Switches announce
  Peers,       \* their addresses
  Versions,    \* how a HELLO's version compares with the bridge's
  NoConn, NoId,
  ManyChecks,  \* bound: may the list of checked locations outgrow a line?
  MaxToggles   \* bound: calls of set_active by the user

ASSUME RegistryAssumption ==
  /\ NoConn \notin Conns
  /\ Versions \subseteq {"same", "other"}
  /\ ManyChecks \in BOOLEAN
  /\ MaxToggles \in Nat

\* An effective id: the announced one, or with the peer's address appended.
Plain(r)     == [raw |-> r, peer |-> {}]
Suffix(r, p) == [raw |-> r, peer |-> {p}]
Ids == {Plain(r) : r \in Raw} \cup {Suffix(r, p) : r \in Raw, p \in Peers}

ASSUME NoIdAssumption == NoId \notin Ids

Toggles == 1 .. MaxToggles
Hellos  == [raw : Raw, peer : Peers, version : Versions]
NoHello == [raw |-> NoId, peer |-> NoId, version |-> "other"]

VARIABLES
  pc,          \* where the handler of each connection is
  hello,       \* what its HELLO said: raw id, version; and its peer
  eff,         \* its effective id
  up,          \* connections whose far end is still there
  closed,      \* connections whose writer was closed by the bridge
  connections, \* _connections: id -> connection
  active,      \* _active_device_id
  switches,    \* BridgeState._switches
  shown,       \* BridgeState._active_device_id
  toggle,      \* set_active runs: what is left to do, and for which connection
  target,      \* the connection a finished handler promotes
  \* ---- history ----
  owed,        \* registered connections that became active and were not sent
               \* a replay since
  takeovers,   \* connections that replaced a registered one
  refused,     \* ids under which a refused connection was registered
  cut,         \* connections whose set_active ended at a failed kick
  unsent       \* connections whose replay raised

stateVars == <<connections, active, switches, shown>>
history   == <<owed, takeovers, refused, cut, unsent>>
vars == <<pc, hello, eff, up, closed, stateVars, toggle, target, history>>

Registered == {i \in Ids : connections[i] # NoConn}

\* _active_conn
ActiveConn == IF active = NoId THEN NoConn ELSE connections[active]

\* Where a coroutine is: before its HELLO, refusing it, sending the ack and the
\* replay (first), the ack and the kick (other), in the dispatch loop, waiting
\* for wait_closed, promoting another connection, done.
Places == {"accepted", "refuse", "first", "replay", "other", "loop",
           "closing", "promote", "done", "failed"}

\* Those in which the handler serves a Switch.
Serving == {"first", "replay", "other", "loop"}

Init ==
  /\ pc = [c \in Conns |-> "idle"]
  /\ hello = [c \in Conns |-> NoHello]
  /\ eff = [c \in Conns |-> NoId]
  /\ up = {} /\ closed = {}
  /\ connections = [i \in Ids |-> NoConn] /\ active = NoId
  /\ switches = {} /\ shown = NoId
  /\ toggle = [t \in Toggles |-> [at |-> "unused", old |-> NoConn, new |-> NoConn]]
  /\ target = [c \in Conns |-> NoConn]
  /\ owed = {} /\ takeovers = {} /\ refused = {} /\ cut = {} /\ unsent = {}

(***************************************************************************)
(* The network.                                                            *)
(***************************************************************************)

\* A Switch connects; h is what its HELLO will say, and its address.
Accept(c, h) ==
  /\ pc[c] = "idle"
  /\ pc' = [pc EXCEPT ![c] = "accepted"] /\ up' = up \cup {c}
  /\ hello' = [hello EXCEPT ![c] = h]
  /\ UNCHANGED <<eff, closed, stateVars, toggle, target, history>>

\* The far end is gone; the bridge reads EOF (or a keepalive reset) later.
PeerGone(c) ==
  /\ c \in up /\ up' = up \ {c}
  /\ UNCHANGED <<pc, hello, eff, closed, stateVars, toggle, target, history>>

(***************************************************************************)
(* _handle_client.                                                         *)
(***************************************************************************)

\* A _resolve_device_id that always takes the announced id.
ResolveRaw(c) == Plain(hello[c].raw)

\* _resolve_device_id
Resolve(c) ==
  LET i == Plain(hello[c].raw)
  IN IF connections[i] = NoConn \/ hello[connections[i]].peer = hello[c].peer
     THEN i ELSE Suffix(hello[c].raw, hello[c].peer)

\* A set_active that does not tell BridgeState.
ShowsNot(i, known) == shown

\* BridgeState.set_active_switch
Shows(i, known) == IF i \in known THEN i ELSE shown

\* The connection ended before its HELLO.
GoneBeforeHello(c) ==
  /\ pc[c] = "accepted" /\ c \notin up
  /\ pc' = [pc EXCEPT ![c] = "done"] /\ closed' = closed \cup {c}
  /\ UNCHANGED <<hello, eff, up, stateVars, toggle, target, history>>

\* HELLO: the connection is registered (the writer of one it replaces is
\* closed) and, when its version matches, becomes active if none is.
Hello(c) ==
  /\ pc[c] = "accepted"
  /\ LET i   == Resolve(c)
         old == connections[i]
         isFirst == active = NoId /\ hello[c].version = "same"
     IN /\ eff' = [eff EXCEPT ![c] = i]
        /\ closed' = IF old = NoConn THEN closed ELSE closed \cup {old}
        /\ connections' = [connections EXCEPT ![i] = c]
        /\ switches' = switches \cup {i}
        /\ active' = IF isFirst THEN i ELSE active
        /\ shown'  = IF isFirst THEN i ELSE shown
        /\ pc' = [pc EXCEPT ![c] = IF hello[c].version # "same" THEN "refuse"
                                   ELSE IF isFirst THEN "first" ELSE "other"]
        /\ owed' = (owed \ {old}) \cup (IF active' = i THEN {c} ELSE {})
        /\ takeovers' = IF old = NoConn THEN takeovers ELSE takeovers \cup {c}
        /\ refused' = IF hello[c].version = "same" THEN refused
                    ELSE refused \cup {i}
  /\ UNCHANGED <<hello, up, toggle, target, cut, unsent>>

\* _policy_check_version has sent its refusal: the connection is unregistered.
Refuse(c) ==
  /\ pc[c] = "refuse"
  /\ pc' = [pc EXCEPT ![c] = "done"] /\ closed' = closed \cup {c}
  /\ IF connections[eff[c]] = c
     THEN /\ connections' = [connections EXCEPT ![eff[c]] = NoConn]
          /\ switches' = switches \ {eff[c]}
          /\ shown' = IF shown = eff[c] THEN NoId ELSE shown
          /\ owed' = owed \ {c}
     ELSE UNCHANGED <<connections, switches, shown, owed>>
  /\ UNCHANGED <<hello, eff, up, active, toggle, target, takeovers, refused, cut,
                 unsent>>

\* A first connection that is sent no replay.
AckFirstOnly(c) ==
  /\ pc[c] = "first" /\ pc' = [pc EXCEPT ![c] = "loop"]
  /\ UNCHANGED <<hello, eff, up, closed, stateVars, toggle, target, history>>

\* The first connection is sent the ack, then the replay.
AckFirst(c) ==
  /\ pc[c] = "first" /\ pc' = [pc EXCEPT ![c] = "replay"]
  /\ UNCHANGED <<hello, eff, up, closed, stateVars, toggle, target, history>>

\* _run_post_hello_replay has been sent to connection d.
Replayed(d) == owed' = owed \ {d}

Replay(c) ==
  /\ pc[c] = "replay" /\ pc' = [pc EXCEPT ![c] = "loop"]
  /\ Replayed(c)
  /\ UNCHANGED <<hello, eff, up, closed, stateVars, toggle, target, takeovers,
                 refused, cut, unsent>>

\* The replay starts with the list of checked locations, which encode refuses when
\* it is longer than a line (to a closed writer nothing is encoded): connection d is
\* sent no more of it.
ReplayOverflows(d) ==
  /\ ManyChecks /\ d \notin closed
  /\ unsent' = unsent \cup {d}

\* The error ends the handler: no finally clause is there, and asyncio closes the
\* connection (from Python 3.12 on) or leaves it open.
ReplayRaises(c) ==
  /\ pc[c] = "replay" /\ pc' = [pc EXCEPT ![c] = "failed"]
  /\ ReplayOverflows(c)
  /\ closed' \in {closed, closed \cup {c}}
  /\ UNCHANGED <<hello, eff, up, stateVars, toggle, target, owed, takeovers, refused,
                 cut>>

\* Any other connection is sent the ack and KickMsg(reason="inactive").
AckOther(c) ==
  /\ pc[c] = "other" /\ pc' = [pc EXCEPT ![c] = "loop"]
  /\ UNCHANGED <<hello, eff, up, closed, stateVars, toggle, target, history>>

\* The connection times out while a send before the dispatch loop waits: the
\* error is neither a reset nor a broken pipe, and no finally clause is there.
SendFails(c) ==
  /\ pc[c] \in (Serving \cup {"refuse"}) \ {"loop"} /\ c \notin up
  /\ pc' = [pc EXCEPT ![c] = "failed"] /\ closed' = closed \cup {c}
  /\ UNCHANGED <<hello, eff, up, stateVars, toggle, target, history>>

\* The dispatch loop reads EOF, or fails because its writer was closed.
Eof(c) ==
  /\ pc[c] = "loop" /\ (c \notin up \/ c \in closed)
  /\ pc' = [pc EXCEPT ![c] = "closing"] /\ closed' = closed \cup {c}
  /\ UNCHANGED <<hello, eff, up, stateVars, toggle, target, history>>

\* A cleanup that forgets to check that the registered connection is its own.
UnregisterAnyway(c) ==
  /\ pc[c] = "closing"
  /\ pc' = [pc EXCEPT ![c] = "done"]
  /\ connections' = [connections EXCEPT ![eff[c]] = NoConn]
  /\ switches' = switches \ {eff[c]}
  /\ active' = IF active = eff[c] THEN NoId ELSE active
  /\ shown' = IF shown = eff[c] THEN NoId ELSE shown
  /\ owed' = owed \ {c}
  /\ UNCHANGED <<hello, eff, up, closed, toggle, target, takeovers, refused, cut,
                 unsent>>

\* A cleanup that promotes no other connection.
UnregisterOnly(c) ==
  /\ pc[c] = "closing"
  /\ pc' = [pc EXCEPT ![c] = "done"]
  /\ IF connections[eff[c]] # c
     THEN UNCHANGED <<stateVars, owed>>
     ELSE /\ connections' = [connections EXCEPT ![eff[c]] = NoConn]
          /\ switches' = switches \ {eff[c]}
          /\ active' = IF active = eff[c] THEN NoId ELSE active
          /\ shown' = IF shown = eff[c] THEN NoId ELSE shown
          /\ owed' = owed \ {c}
  /\ UNCHANGED <<hello, eff, up, closed, toggle, target, takeovers, refused, cut,
                 unsent>>

\* The finally clause after wait_closed: unless the connection was replaced it
\* is unregistered, and if it was active another one (the first of the dict:
\* any, here) is promoted through set_active.
Unregister(c) ==
  /\ pc[c] = "closing"
  /\ IF connections[eff[c]] # c
     THEN /\ pc' = [pc EXCEPT ![c] = "done"]
          /\ UNCHANGED <<stateVars, target, owed>>
     ELSE /\ connections' = [connections EXCEPT ![eff[c]] = NoConn]
          /\ switches' = switches \ {eff[c]}
          /\ IF active = eff[c] /\ Registered # {eff[c]}
             THEN \E i \in Registered \ {eff[c]} :
                    /\ active' = i
                    /\ shown' = Shows(i, switches \ {eff[c]})
                    /\ target' = [target EXCEPT ![c] = connections[i]]
                    /\ owed' = (owed \ {c}) \cup {connections[i]}
                    /\ pc' = [pc EXCEPT ![c] = "promote"]
             ELSE /\ active' = IF active = eff[c] THEN NoId ELSE active
                  /\ shown' = IF shown = eff[c] \/ active = eff[c] THEN NoId ELSE shown
                  /\ owed' = owed \ {c}
                  /\ pc' = [pc EXCEPT ![c] = "done"]
                  /\ UNCHANGED target
  /\ UNCHANGED <<hello, eff, up, closed, toggle, takeovers, refused, cut,
                 unsent>>

\* ... which sends it ActivateMsg and the replay.
Promote(c) ==
  /\ pc[c] = "promote" /\ pc' = [pc EXCEPT ![c] = "done"]
  /\ Replayed(target[c])
  /\ UNCHANGED <<hello, eff, up, closed, stateVars, toggle, target, takeovers,
                 refused, cut, unsent>>

PromoteRaises(c) ==
  /\ pc[c] = "promote" /\ pc' = [pc EXCEPT ![c] = "done"]
  /\ ReplayOverflows(target[c])
  /\ UNCHANGED <<hello, eff, up, closed, stateVars, toggle, target, owed, takeovers,
                 refused, cut>>

(***************************************************************************)
(* set_active, called by the user (SMOContext.set_active_switch).          *)
(***************************************************************************)

\* The device becomes active at once; the kick and the replay follow.
SetActive(t, i) ==
  /\ toggle[t].at = "unused"
  /\ i \in Registered /\ i # active
  /\ toggle' = [toggle EXCEPT ![t] = [at |-> "kick", old |-> ActiveConn, new |-> connections[i]]]
  /\ owed' = owed \cup {connections[i]}
  /\ active' = i /\ shown' = Shows(i, switches)
  /\ UNCHANGED <<pc, hello, eff, up, closed, connections, switches, target,
                 takeovers, refused, cut, unsent>>

\* KickMsg(reason="unbound") has been sent to the previously active one.
Kicked(t) ==
  /\ toggle[t].at = "kick"
  /\ toggle' = [toggle EXCEPT ![t].at = "replay"]
  /\ UNCHANGED <<pc, hello, eff, up, closed, stateVars, target, history>>

\* The kick waits on a connection that times out: set_active ends there.
KickFails(t) ==
  /\ toggle[t].at = "kick" /\ toggle[t].old \notin up \cup {NoConn}
  /\ toggle' = [toggle EXCEPT ![t].at = "done"]
  /\ cut' = cut \cup {toggle[t].new}
  /\ UNCHANGED <<pc, hello, eff, up, closed, stateVars, target, owed, takeovers,
                 refused, unsent>>

\* ActivateMsg and the replay have been sent to the new one.
Activated(t) ==
  /\ toggle[t].at = "replay"
  /\ toggle' = [toggle EXCEPT ![t].at = "done"]
  /\ Replayed(toggle[t].new)
  /\ UNCHANGED <<pc, hello, eff, up, closed, stateVars, target, takeovers,
                 refused, cut, unsent>>

ActivatedRaises(t) ==
  /\ toggle[t].at = "replay"
  /\ toggle' = [toggle EXCEPT ![t].at = "done"]
  /\ ReplayOverflows(toggle[t].new)
  /\ UNCHANGED <<pc, hello, eff, up, closed, stateVars, target, owed, takeovers,
                 refused, cut>>

Next ==
  \/ \E c \in Conns :
       \/ \E h \in Hellos : Accept(c, h)
       \/ PeerGone(c) \/ GoneBeforeHello(c) \/ Hello(c) \/ Refuse(c)
       \/ AckFirst(c) \/ Replay(c) \/ ReplayRaises(c) \/ AckOther(c)
       \/ SendFails(c) \/ Eof(c) \/ Unregister(c) \/ Promote(c)
       \/ PromoteRaises(c)
  \/ \E t \in Toggles :
       \/ \E i \in Ids : SetActive(t, i)
       \/ Kicked(t) \/ KickFails(t) \/ Activated(t) \/ ActivatedRaises(t)

Spec == Init /\ [][Next]_vars

(***************************************************************************)
(* Properties.                                                             *)
(***************************************************************************)

TypeOK ==
  /\ pc \in [Conns -> Places \cup {"idle"}]
  /\ hello \in [Conns -> Hellos \cup {NoHello}]
  /\ eff \in [Conns -> Ids \cup {NoId}]
  /\ up \subseteq Conns /\ closed \subseteq Conns
  /\ connections \in [Ids -> Conns \cup {NoConn}]
  /\ active \in Ids \cup {NoId}
  /\ switches \subseteq Ids /\ shown \in Ids \cup {NoId}
  /\ toggle \in [Toggles -> [at : {"unused", "kick", "replay", "done"},
                             old : Conns \cup {NoConn}, new : Conns \cup {NoConn}]]
  /\ target \in [Conns -> Conns \cup {NoConn}]
  /\ owed \subseteq Conns /\ takeovers \subseteq Conns
  /\ refused \subseteq Ids /\ cut \subseteq Conns /\ unsent \subseteq Conns

\* No connected Switch is lost: a handler that serves one and whose writer was
\* not closed is the one registered under its id, whatever reconnects, refusals
\* and cleanups overlap (the identity check in _handle_client's finally).
NoOrphan ==
  \A c \in Conns : pc[c] \in Serving /\ c \notin closed => connections[eff[c]] = c

\* Two Switches that announce the same id from different addresses coexist: a
\* connection only takes over one of its own peer (_resolve_device_id).
SamePeerTakeover ==
  [][\A i \in Ids : LET c == connections[i]
                        d == connections'[i]
                    IN c # NoConn /\ d \notin {c, NoConn} => hello[c].peer = hello[d].peer]_vars

\* The slot stays bound: while a Switch is connected one is active, unless a
\* refused connection was registered ("Keeps the AP slot
\* bound even when the user is shuffling devices", _handle_client's finally).
SlotBound ==
  Registered # {} /\ refused = {} => active \in Registered

\* What the user sees is what the server does: BridgeState's registry and active
\* id agree with the server's, unless a refused connection was registered.
ShownIsActive ==
  switches = Registered /\ (refused = {} => shown = active)

Settled == /\ \A c \in Conns : pc[c] \in {"idle", "loop", "done", "failed"}
           /\ \A t \in Toggles : toggle[t].at \in {"unused", "done"}

\* Once every coroutine is back in its loop the active connection, when it is
\* still there, has been sent a replay since it became active -- unless it took
\* over a connection that was still registered, the kick before its activation
\* failed, a replay to it raised because the list of checked locations did not fit
\* a line, or a refused one was registered before (_handle_client, set_active).
ReplayedOnceActive ==
  Settled /\ refused = {} /\ ActiveConn \in up =>
    ActiveConn \notin owed \ (takeovers \cup cut \cup unsent)

\* The module's docstring (switch_server.py:10): "On every HELLO (and on every
\* active-toggle), we replay the full received-items history".  A settled active
\* connection that is still there was sent a replay.
NeverActiveUnreplayed ==
  Settled /\ ActiveConn \in up => ActiveConn \notin owed
=============================================================================
