----------------------------- MODULE CheckDelivery -----------------------------
(***************************************************************************)
(* How what the player does becomes a check of the AP server.  Moons,      *)
(* captures and the goal are reported live, through a ring and a TCP       *)
(* connection; a snapshot of every owned moon follows each HELLO, to heal  *)
(* what was collected or lost while nothing was connected.  A snapshot may *)
(* be of the wrong save, so the bridge holds one that would credit         *)
(* anything new until the operator confirms it.  What reaches the bridge   *)
(* before the AP server is ready is buffered and drained on Connected.     *)
(***************************************************************************)
EXTENDS Integers, Sequences

CONSTANTS
  Moons,          \* the moons the maps resolve, as AP locations
  Captures,       \* the captures, as AP locations
  GoalMoons,      \* _goal_location_name: the moon that is the goal, if any
  SaveMoons,      \* what the save files to consider hold
  RingCap,        \* entries outbound_checks can hold (SpscRing<256>: 255)
  None,           \* the None of the held and the pending snapshot
  LineCap,        \* bound: lines on the connection at a time
  MaxReports,     \* bound: moons, captures and goals reported by the hooks
  MaxEvents       \* bound: reports, and twice the losses, loads, reboots,
                  \* disconnects and restarts, together

ASSUME DeliveryAssumption ==
  /\ GoalMoons \subseteq Moons /\ SaveMoons \subseteq SUBSET Moons
  /\ Moons \cap Captures = {}
  /\ None \notin [moons : SUBSET Moons, goal : BOOLEAN]
  /\ RingCap \in Nat \ {0} /\ LineCap \in Nat \ {0}
  /\ MaxReports \in Nat /\ MaxEvents \in Nat

VARIABLES
  \* ---- Switch: the game and its hooks ----
  phase,           \* "title", "loading" (save_was_loaded), "playing" (and the
                   \* Cappy latch is set: the snapshot gate is open)
  owned,           \* the moons of the save in memory
  reported,        \* ApState::locations_checked, the session's dedup set
  ring,            \* outbound_checks
  goalSent,        \* ApState::goal_sent
  goalQueued,      \* outbound_status holds the goal
  \* ---- Switch worker and the connection ----
  rehello,         \* rehello_requested_
  swUp,            \* socket_fd_ >= 0
  snapshotPending, \* threadMain's snapshot_pending
  link,            \* the connection still carries data
  up, old,         \* lines on it, and on dead ones the bridge still reads
  \* ---- bridge ----
  apReady,         \* ap_conn = "ready"
  connectedTask,   \* where the task of the Connected package is
  locations_checked, checked_locations, \* CommonContext's two sets
  pendingLive,     \* _pending_live_checks
  pendingSnapshot, \* _pending_snapshot_entries and _goal, or None
  held,            \* _held_snapshot_entries and _goal, or None
  goalReported,    \* _goal_reported
  \* ---- AP server ----
  server,          \* the websocket is open
  apChecked, apGoal, \* what the server has recorded of this slot
  \* ---- history and bounds ----
  consented,       \* reported in play, or confirmed by the operator
  read,            \* live checks the bridge has read (but see HandleCheck)
  missing,         \* since the last snapshot: dropped by a full ring, rejected
  overtaken,       \* a snapshot was gated, or buffered, after a newer one
  reports, faults

gameVars   == <<phase, owned>>
hookVars   == <<reported, ring, goalSent, goalQueued>>
workerVars == <<rehello, swUp, snapshotPending>>
switchVars == <<gameVars, hookVars, workerVars>>
wire       == <<link, up, old>>
bufferVars == <<pendingLive, pendingSnapshot>>
reportVars == <<locations_checked, goalReported, apChecked, apGoal>>
sessionVars == <<apReady, connectedTask, checked_locations, server>>
bridgeVars == <<bufferVars, reportVars, sessionVars, held, read>>
boundVars  == <<reports, faults>>
vars == <<switchVars, wire, bridgeVars, consented, missing, overtaken,
          boundVars>>

Locations == Moons \cup Captures
GoalMark  == "goal"   \* the goal, next to the locations in the histories

\* A snapshot also lists the captures of the compendium; the gate and the
\* dispatch both skip those entries, so they are left out.
Snapshot == [moons : SUBSET Moons, goal : BOOLEAN]
CheckLine(loc)  == [t |-> "check", loc |-> loc]
GoalLine        == [t |-> "goal"]
StateLines(s)   == [t |-> "state", s |-> s]  \* state_begin, chunks, state_end
Line == [t : {"check"}, loc : Locations] \cup {GoalLine}
          \cup [t : {"state"}, s : Snapshot]

TypeOK ==
  /\ phase \in {"title", "loading", "playing"}
  /\ owned \in SUBSET Moons
  /\ reported \in SUBSET Locations
  /\ ring \in Seq(Locations) /\ Len(ring) <= RingCap
  /\ goalSent \in BOOLEAN /\ goalQueued \in BOOLEAN
  /\ rehello \in BOOLEAN /\ swUp \in BOOLEAN /\ snapshotPending \in BOOLEAN
  /\ link \in BOOLEAN /\ up \in Seq(Line) /\ old \in Seq(Line)
  /\ apReady \in BOOLEAN /\ server \in BOOLEAN
  /\ connectedTask \in {"none", "scheduled", "pushing", "draining"}
  /\ locations_checked \in SUBSET Locations
  /\ checked_locations \in SUBSET Locations
  /\ pendingLive \in SUBSET Locations
  /\ pendingSnapshot \in Snapshot \cup {None} /\ held \in Snapshot \cup {None}
  /\ goalReported \in BOOLEAN
  /\ apChecked \in SUBSET Locations /\ apGoal \in BOOLEAN
  /\ consented \in SUBSET (Locations \cup {GoalMark})
  /\ read \in SUBSET Locations /\ missing \in SUBSET Moons
  /\ overtaken \in BOOLEAN
  /\ reports \in Nat /\ faults \in Nat

\* The console and the client have just been started.
Init ==
  /\ phase = "title" /\ owned = {}
  /\ reported = {} /\ ring = <<>> /\ goalSent = FALSE /\ goalQueued = FALSE
  /\ rehello = FALSE /\ swUp = FALSE /\ snapshotPending = FALSE
  /\ link = FALSE /\ up = <<>> /\ old = <<>>
  /\ apReady = FALSE /\ connectedTask = "none" /\ server = FALSE
  /\ locations_checked = {} /\ checked_locations = {}
  /\ pendingLive = {} /\ pendingSnapshot = None /\ held = None
  /\ goalReported = FALSE /\ apChecked = {} /\ apGoal = FALSE
  /\ consented = {} /\ read = {} /\ missing = {} /\ overtaken = FALSE
  /\ reports = 0 /\ faults = 0

\* The bounds on what is reported and on what goes wrong.
CountReport ==
  /\ reports < MaxReports /\ reports + 1 + 2 * faults <= MaxEvents
  /\ reports' = reports + 1

CountFault ==
  /\ reports + 2 * (faults + 1) <= MaxEvents
  /\ faults' = faults + 1

-----------------------------------------------------------------------------
(* Switch: the hooks, on the frame thread *)

\* enqueueCheck: once per session, and dropped when the ring is full.
enqueueCheck(loc) ==
  /\ reported' = reported \cup {loc}
  /\ LET full == Len(ring) >= RingCap
     IN  /\ ring' = IF loc \in reported \/ full THEN ring
                    ELSE Append(ring, loc)
         /\ missing' = IF loc \notin reported /\ full
                       THEN missing \cup ({loc} \cap Moons) ELSE missing

\* setGotShine: the moon is the save's, and it is reported.
CollectMoon(m) ==
  /\ phase # "title" /\ CountReport
  /\ owned' = owned \cup {m}
  /\ consented' = consented \cup {m}
  /\ enqueueCheck(m)
  /\ UNCHANGED <<phase, goalSent, goalQueued, workerVars, wire, bridgeVars,
                 overtaken, faults>>

\* A capture is reported, but it is no state of the save that a snapshot's
\* entries are credited from.
CaptureStart(c) ==
  /\ phase # "title" /\ CountReport
  /\ consented' = consented \cup {c}
  /\ enqueueCheck(c)
  /\ UNCHANGED <<gameVars, goalSent, goalQueued, workerVars, wire, bridgeVars,
                 overtaken, faults>>

\* The credits roll: the goal is reported once per loaded save.
CreditsStart ==
  /\ phase # "title" /\ CountReport
  /\ ~goalSent /\ goalSent' = TRUE /\ goalQueued' = TRUE
  /\ consented' = consented \cup {GoalMark}
  /\ UNCHANGED <<gameVars, reported, ring, workerVars, wire, bridgeVars,
                 missing, overtaken, faults>>

\* saveLoadHook: session state is cleared, a re-HELLO is requested.  Of the
\* save files nothing is kept: one may be of another run, or of any autosave.
LoadSave(moons) ==
  /\ IF phase = "title" THEN UNCHANGED faults ELSE CountFault
  /\ owned' = moons /\ phase' = "loading"
  /\ reported' = {} /\ goalSent' = FALSE /\ rehello' = TRUE
  /\ UNCHANGED <<ring, goalQueued, swUp, snapshotPending, wire, bridgeVars,
                 consented, missing, overtaken, reports>>

\* tryPump shows the first bubble of the scene.
CappyDispatches ==
  /\ phase = "loading" /\ phase' = "playing"
  /\ UNCHANGED <<owned, hookVars, workerVars, wire, bridgeVars, consented,
                 missing, overtaken, boundVars>>

-----------------------------------------------------------------------------
(* The connection *)

\* The connection, if there is one, ends: some prefix of what the Switch wrote
\* still reaches the bridge.
ConnectionEnds ==
  /\ link' = FALSE /\ up' = <<>>
  /\ \E n \in 0..Len(up) : old' = old \o SubSeq(up, 1, n)

LoseLink ==
  /\ link /\ CountFault
  /\ ConnectionEnds
  /\ UNCHANGED <<switchVars, bridgeVars, consented, missing, overtaken,
                 reports>>

\* The console reboots.
SwitchReboots ==
  /\ phase # "title" /\ CountFault
  /\ phase' = "title" /\ owned' = {}
  /\ reported' = {} /\ ring' = <<>> /\ goalSent' = FALSE /\ goalQueued' = FALSE
  /\ rehello' = FALSE /\ swUp' = FALSE /\ snapshotPending' = FALSE
  /\ ConnectionEnds
  /\ UNCHANGED <<bridgeVars, consented, missing, overtaken, reports>>

-----------------------------------------------------------------------------
(* Switch: the worker thread *)

SnapshotGate == phase = "playing"   \* save_ok && cappy_ok

CurrentSnapshot == StateLines([moons |-> owned, goal |-> goalSent])

\* What is written to a dead socket is not an error, and lost.
Send(line) ==
  /\ Len(up) < LineCap
  /\ up' = IF link THEN Append(up, line) ELSE up

\* A re-HELLO was requested: close the socket, the loop then connects again.
TakeRehello ==
  /\ rehello /\ rehello' = FALSE
  /\ swUp' = FALSE
  /\ ConnectionEnds
  /\ UNCHANGED <<gameVars, hookVars, snapshotPending, bridgeVars, consented,
                 missing, overtaken, boundVars>>

\* recv reports the dead link, and disconnect() closes the socket.
Disconnect ==
  /\ swUp /\ ~link /\ swUp' = FALSE
  /\ UNCHANGED <<gameVars, hookVars, rehello, snapshotPending, wire,
                 bridgeVars, consented, missing, overtaken, boundVars>>

\* Mutant: a snapshot that cannot be sent with the HELLO is not owed later.
ConnectForgetsSnapshot ==
  /\ ~swUp /\ swUp' = TRUE /\ link' = TRUE
  /\ snapshotPending' = FALSE
  /\ up' = IF SnapshotGate THEN <<CurrentSnapshot>> ELSE <<>>
  /\ missing' = IF SnapshotGate THEN {} ELSE missing
  /\ UNCHANGED <<gameVars, hookVars, rehello, old, bridgeVars, consented,
                 overtaken, boundVars>>

\* Connect and HELLO, with the snapshot if the gate is open.
Connect ==
  /\ ~swUp /\ swUp' = TRUE /\ link' = TRUE
  /\ snapshotPending' = ~SnapshotGate
  /\ up' = IF SnapshotGate THEN <<CurrentSnapshot>> ELSE <<>>
  /\ missing' = IF SnapshotGate THEN {} ELSE missing
  /\ UNCHANGED <<gameVars, hookVars, rehello, old, bridgeVars, consented,
                 overtaken, boundVars>>

\* The gate was closed at the HELLO and has opened since.
LateSnapshot ==
  /\ swUp /\ snapshotPending /\ SnapshotGate
  /\ snapshotPending' = FALSE
  /\ Send(CurrentSnapshot) /\ missing' = {}
  /\ UNCHANGED <<gameVars, hookVars, rehello, swUp, link, old, bridgeVars,
                 consented, overtaken, boundVars>>

\* pumpOnce: a check leaves the ring once it is sent.
PumpCheck ==
  /\ swUp /\ ring # <<>>
  /\ Send(CheckLine(Head(ring))) /\ ring' = Tail(ring)
  /\ UNCHANGED <<gameVars, reported, goalSent, goalQueued, workerVars, link,
                 old, bridgeVars, consented, missing, overtaken, boundVars>>

\* pumpOnce: the status events follow the checks.
PumpGoal ==
  /\ swUp /\ ring = <<>> /\ goalQueued
  /\ Send(GoalLine) /\ goalQueued' = FALSE
  /\ UNCHANGED <<gameVars, reported, ring, goalSent, workerVars, link, old,
                 bridgeVars, consented, missing, overtaken, boundVars>>

-----------------------------------------------------------------------------
(* Bridge: the check path *)

already_checked_loc_ids == checked_locations \cup locations_checked

\* Mutant: what cannot be sent is not remembered, so never sent again.
reportIfOpen(locs, goal) ==
  LET fresh == locs \ locations_checked
      goals == ~goalReported /\ (goal \/ fresh \cap GoalMoons # {})
  IN  /\ locations_checked' =
           IF server THEN locations_checked \cup fresh ELSE locations_checked
      /\ apChecked' = IF server THEN apChecked \cup fresh ELSE apChecked
      /\ goalReported' = (goalReported \/ goals)
      /\ apGoal' = (apGoal \/ (goals /\ server))

\* report_check of every location, and report_goal.  send_msgs returns without
\* a word when the websocket is closed; what was dropped counts as sent.
report(locs, goal) ==
  LET fresh == locs \ locations_checked
      goals == ~goalReported /\ (goal \/ fresh \cap GoalMoons # {})
  IN  /\ locations_checked' = locations_checked \cup fresh
      /\ apChecked' = IF server THEN apChecked \cup fresh ELSE apChecked
      /\ goalReported' = (goalReported \/ goals)
      /\ apGoal' = (apGoal \/ (goals /\ server))

\* _dispatch_snapshot_entries: _dispatch_check for each entry that is no capture.
dispatch_snapshot_entries(entries, goal) == report(entries \cap Moons, goal)

\* _classify_snapshot_for_user_confirm: nothing new for the AP server.
AutoConfirms(s) ==
  /\ s.moons \subseteq already_checked_loc_ids
  /\ s.goal => goalReported

\* _gate_or_dispatch_snapshot: apply it and drop what was held, or hold it.
gate_or_dispatch_snapshot(s) ==
  IF AutoConfirms(s)
  THEN held' = None /\ dispatch_snapshot_entries(s.moons, s.goal)
  ELSE held' = s /\ UNCHANGED reportVars

\* check: buffered until the AP server is ready, then reported.  `read` leaves
\* out a capture that is buffered, as the drain will not report it.
HandleCheck(loc) ==
  /\ IF apReady
     THEN report({loc}, FALSE) /\ UNCHANGED pendingLive
     ELSE pendingLive' = pendingLive \cup {loc} /\ UNCHANGED reportVars
  /\ read' = IF apReady \/ loc \in Moons THEN read \cup {loc} ELSE read
  /\ UNCHANGED <<pendingSnapshot, held, overtaken>>

\* goal: reported at once, ready or not.
HandleGoal ==
  /\ report({}, TRUE)
  /\ UNCHANGED <<bufferVars, held, read, overtaken>>

\* _on_state_end: the snapshot is buffered or gated.
HandleStateEnd(s) ==
  /\ IF apReady
     THEN gate_or_dispatch_snapshot(s) /\ UNCHANGED pendingSnapshot
     ELSE pendingSnapshot' = s /\ UNCHANGED <<held, reportVars>>
  /\ UNCHANGED <<pendingLive, read>>

\* _dispatch_from.
Dispatch(line) ==
  \/ line.t = "check" /\ HandleCheck(line.loc)
  \/ line.t = "goal"  /\ HandleGoal
  \/ line.t = "state" /\ HandleStateEnd(line.s)

\* The bridge reads a line of the connection.  A snapshot gated at once is newer
\* than one that still waits for the Connected task to drain it.
ReadLine ==
  /\ up # <<>> /\ up' = Tail(up)
  /\ Dispatch(Head(up))
  /\ Head(up).t = "state" => overtaken' = (apReady /\ pendingSnapshot # None)
  /\ UNCHANGED <<switchVars, link, old, sessionVars, consented, missing,
                 boundVars>>

\* The handler of a dead connection still has lines to read: _dispatch_from only
\* compares device ids.
ReadLateLine ==
  /\ old # <<>> /\ old' = Tail(old)
  /\ Dispatch(Head(old))
  /\ Head(old).t = "state" =>
       overtaken' = (link \/ (apReady /\ pendingSnapshot # None))
  /\ UNCHANGED <<switchVars, link, up, sessionVars, consented, missing,
                 boundVars>>

\* /confirm_snapshot: dispatch what is held.
confirm_pending_snapshot ==
  /\ held # None
  /\ held' = None
  /\ dispatch_snapshot_entries(held.moons, held.goal)
  /\ consented' = consented \cup held.moons
                    \cup (IF held.goal THEN {GoalMark} ELSE {})
  /\ UNCHANGED <<switchVars, wire, bufferVars, sessionVars, read, missing,
                 overtaken, boundVars>>

\* /reject_snapshot: forget what is held.
reject_pending_snapshot ==
  /\ held # None
  /\ held' = None
  /\ missing' = missing \cup held.moons
  /\ UNCHANGED <<switchVars, wire, bufferVars, reportVars, sessionVars, read,
                 consented, overtaken, boundVars>>

-----------------------------------------------------------------------------
(* Bridge: the AP connection *)

\* The websocket opens and Connected arrives: CommonContext takes over the
\* server's checked locations, sends its own again, and on_package schedules
\* the task of _handle_ap_package.
ApConnects ==
  /\ ~server /\ connectedTask = "none"
  /\ server' = TRUE /\ connectedTask' = "scheduled"
  /\ checked_locations' = apChecked
  /\ apChecked' = apChecked \cup locations_checked
  /\ UNCHANGED <<switchVars, wire, bufferVars, apReady, locations_checked,
                 goalReported, apGoal, held, read, consented, missing,
                 overtaken, boundVars>>

\* The task starts: ready at once, then one await after another on pushes to
\* the Switch.
ConnectedSetsReady ==
  /\ connectedTask = "scheduled" /\ connectedTask' = "pushing"
  /\ apReady' = TRUE
  /\ UNCHANGED <<switchVars, wire, bufferVars, reportVars, checked_locations,
                 server, held, read, consented, missing, overtaken, boundVars>>

\* drain_pending_snapshot, first part: the live checks are dispatched as if
\* they were a snapshot's entries, so the captures among them are dropped.
DrainLiveChecks ==
  /\ connectedTask = "pushing" /\ connectedTask' = "draining"
  /\ pendingLive' = {}
  /\ dispatch_snapshot_entries(pendingLive, FALSE)
  /\ UNCHANGED <<switchVars, wire, pendingSnapshot, apReady, checked_locations,
                 server, held, read, consented, missing, overtaken, boundVars>>

\* Mutant: the drain dispatches the snapshot past the gate.
DrainSnapshotUngated ==
  /\ connectedTask = "draining" /\ connectedTask' = "none"
  /\ pendingSnapshot' = None
  /\ IF pendingSnapshot = None THEN UNCHANGED reportVars
     ELSE report(pendingSnapshot.moons, pendingSnapshot.goal)
  /\ UNCHANGED <<switchVars, wire, pendingLive, apReady, checked_locations,
                 server, held, read, consented, missing, overtaken, boundVars>>

\* drain_pending_snapshot, second part: the buffered snapshot meets the gate,
\* whatever was gated while the task was waiting.
DrainSnapshot ==
  /\ connectedTask = "draining" /\ connectedTask' = "none"
  /\ pendingSnapshot' = None
  /\ IF pendingSnapshot = None THEN UNCHANGED <<held, reportVars>>
     ELSE gate_or_dispatch_snapshot(pendingSnapshot)
  /\ UNCHANGED <<switchVars, wire, pendingLive, apReady, checked_locations,
                 server, read, consented, missing, overtaken, boundVars>>

\* The websocket is lost; nobody tells BridgeState.
ServerLost ==
  /\ server /\ CountFault /\ server' = FALSE
  /\ UNCHANGED <<switchVars, wire, bufferVars, reportVars, apReady,
                 connectedTask, checked_locations, held, read, consented,
                 missing, overtaken, reports>>

\* SMOContext.disconnect.
disconnect ==
  /\ server \/ apReady
  /\ CountFault /\ server' = FALSE /\ apReady' = FALSE
  /\ UNCHANGED <<switchVars, wire, bufferVars, reportVars, connectedTask,
                 checked_locations, held, read, consented, missing, overtaken,
                 reports>>

\* SMOClient is restarted: it keeps nothing.  Checks it had read and not got
\* to the server are gone with it.
BridgeRestart ==
  /\ CountFault
  /\ server' = FALSE /\ apReady' = FALSE /\ connectedTask' = "none"
  /\ locations_checked' = {} /\ checked_locations' = {}
  /\ pendingLive' = {} /\ pendingSnapshot' = None /\ held' = None
  /\ goalReported' = FALSE
  /\ link' = FALSE /\ up' = <<>> /\ old' = <<>>
  /\ read' = read \cap apChecked
  /\ UNCHANGED <<switchVars, apChecked, apGoal, consented, missing, overtaken,
                 reports>>

-----------------------------------------------------------------------------
SwitchStep ==
  \/ \E m \in Moons : CollectMoon(m)
  \/ \E c \in Captures : CaptureStart(c)
  \/ CreditsStart \/ CappyDispatches
  \/ \E moons \in SaveMoons : LoadSave(moons)
  \/ TakeRehello \/ Disconnect \/ Connect \/ LateSnapshot
  \/ PumpCheck \/ PumpGoal

BridgeStep ==
  \/ ReadLine \/ ReadLateLine
  \/ confirm_pending_snapshot \/ reject_pending_snapshot
  \/ ConnectedSetsReady \/ DrainLiveChecks \/ DrainSnapshot \/ disconnect

Environment ==
  \/ LoseLink \/ SwitchReboots \/ ApConnects \/ ServerLost \/ BridgeRestart

Next == SwitchStep \/ BridgeStep \/ Environment

Spec == Init /\ [][Next]_vars

-----------------------------------------------------------------------------
(* What must hold *)

\* Nothing is credited but what was reported in play or confirmed: a save the
\* console happens to load never credits a moon or the goal on its own, through
\* buffering, draining, reconnections and restarts (the /confirm_snapshot gate,
\* switch_server.py 90-164).
NoUnconsentedCredit ==
  /\ apChecked \subseteq consented
  /\ apGoal => (GoalMoons \cup {GoalMark}) \cap consented # {}

\* The Switch has nothing left to send or to say and the bridge has read it all.
Settled ==
  /\ phase = "playing" /\ ~rehello /\ swUp /\ link /\ ~snapshotPending
  /\ ring = <<>> /\ ~goalQueued /\ up = <<>> /\ old = <<>>
  /\ server /\ apReady /\ connectedTask = "none" /\ pendingSnapshot = None

HeldMoons == IF held = None THEN {} ELSE held.moons

\* Once settled, unless snapshots were gated out of order, every moon of the
\* loaded save has been credited or awaits the operator: whatever was lost with
\* a connection, collected without one or dropped by a full ring came back with
\* a snapshot (sendSnapshot and the drains).  Only what a full ring dropped or
\* the operator rejected since then is not there.
Reconciled ==
  Settled /\ ~overtaken => owned \subseteq apChecked \cup HeldMoons \cup missing

\* A live check the bridge has read is credited once the AP server is
\* connected, whenever it came: before Connected, between Connected's awaits or
\* with the websocket lost (_pending_live_checks, drain_pending_snapshot).
LiveChecksDelivered ==
  server /\ apReady /\ connectedTask = "none" => read \subseteq apChecked

\* "across reconnects the worst case is one duplicate ClientGoal StatusUpdate"
\* (context.py 917-921): a goal that counts as reported has reached a server
\* that is connected.
GoalReportedMeansSent ==
  goalReported /\ server /\ connectedTask = "none" => apGoal
=============================================================================
