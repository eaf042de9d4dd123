------------------------------- MODULE SaveSession -------------------------------
(***************************************************************************)
(* What the Switch does when a save is loaded (SaveLoadHook.cpp): it       *)
(* forgets the session, asks the socket worker for a new connection, and   *)
(* holds the snapshot of the save back until Cappy has spoken, which he    *)
(* cannot before the scene is up; and what the player is told meanwhile    *)
(* about the connection (ApClient.cpp, CappyMessenger.cpp).                *)
(*                                                                         *)
(* Time is abstract: a deadline is armed and falls due at some moment.     *)
(* The constants order some of them: 500 ms of debounce end before the     *)
(* 1500 ms of the announcement, these before the 3000 ms of silence after  *)
(* a requested re-HELLO, and a scene takes 10 s to settle.  Calls of       *)
(* initializeData within the debounce window are of the same save.         *)
(***************************************************************************)
EXTENDS Naturals, Sequences

CONSTANTS
  MaxOutside,  \* bound: scenes left without a load, connections lost, changes of the
               \*   AP server's connection and bubbles about items, together
  QueueCap     \* kQueueCap

ASSUME SaveSessionAssumption ==
  {MaxOutside, QueueCap} \subseteq Nat

\* "Connected to Archipelago"; "Not connected" and "Disconnected from" alike; an item.
Status  == {"on", "off"}
Bubbles == Status \cup {"other"}

VARIABLES
  \* the game and the frame thread
  chosen, live,     \* a save was chosen, it is read in full
  scene,            \* "none", "fresh", "settled"
  hook,             \* where saveLoadHook is
  latch,            \* dispatched_since_reset_
  queue,            \* the bubbles in inbound_system_bubbles and queue_: every frame moves
                    \*   those of the one to the other
  \* between the threads
  wasLoaded,        \* save_was_loaded
  reask,            \* rehello_requested_
  clock,            \* time since the load: "burst" < kSaveLoadDebounceMs,
                    \*   "wait" < kSaveLoadAnnounceWaitMs, "quiet" < kRehelloBubbleSuppressMs
  announce,         \* save_load_announce_deadline_ms_ is set
  grace,            \* pending_disconnect_bubble_at_ms_
  \* the worker
  pc, online,       \* in the loop or sending the snapshot; socket_fd_ >= 0
  last,             \* s_last_ap_state is "ready"
  pending,          \* snapshot_pending
  \* the socket and the PC
  hello, lines,     \* a hello, ap_state lines on the way
  broken,           \* the connection is lost, the worker has yet to see it
  apReady,          \* ap_conn of the PC
  \* ---- history ----
  current,          \* the last snapshot on this connection is of this save, read in full
  told,             \* the last status the player was shown
  excused,          \* a change of last went unannounced or the bubble about it was dropped,
                    \*   and no other was sent since
  shed, early,      \* since the load: a bubble was dropped; one opened the latch
                    \*   before the save was live
  events            \* counted against the bound

sesGame   == <<chosen, live, scene, hook>>
cappyVars  == <<latch, queue>>
timers     == <<clock, announce, grace>>
sesWorker == <<pc, online, last, pending>>
wireVars   == <<hello, lines, broken, apReady>>
talkVars   == <<told, excused, shed, early>>
sesVars    == <<sesGame, cappyVars, wasLoaded, reask, timers, sesWorker, wireVars,
                current, talkVars, events>>

\* Something from outside, counted.
Event == events < MaxOutside /\ events' = events + 1

SesInit ==
  /\ chosen = FALSE /\ live = FALSE /\ scene = "none" /\ hook = "idle"
  /\ latch = FALSE /\ queue = <<>>
  /\ wasLoaded = FALSE /\ reask = FALSE
  /\ clock = "over" /\ announce = FALSE /\ grace = FALSE
  /\ pc = "loop" /\ online = FALSE /\ last = FALSE /\ pending = FALSE
  /\ hello = FALSE /\ lines = <<>> /\ broken = FALSE /\ apReady \in BOOLEAN
  /\ current = FALSE
  /\ told = "off" /\ excused = FALSE /\ shed = FALSE /\ early = FALSE
  /\ events = 0

(***************************************************************************)
(* saveLoadHook, on the frame thread, a step for each thing the worker can *)
(* see happen before the next.                                             *)
(***************************************************************************)

\* orig: initializeData.  The calls that follow within the debounce window end
\* here; they are of the save that is being read.  The next one can be chosen
\* when the game is in a scene of this one.
Load ==
  /\ hook = "idle" /\ clock # "burst" /\ scene # "none" /\ (chosen => live)
  /\ chosen' = TRUE /\ live' = FALSE /\ hook' = "forget"
  /\ shed' = FALSE /\ early' = FALSE
  /\ current' = FALSE
  /\ UNCHANGED <<scene, cappyVars, wasLoaded, reask, timers, sesWorker, wireVars, told, excused,
                 events>>

\* Does not clear the dispatch latch.
ForgetNotLatch ==
  /\ hook = "forget" /\ hook' = "request"
  /\ wasLoaded' = TRUE
  /\ UNCHANGED <<chosen, live, scene, cappyVars, reask, timers, sesWorker,
                 wireVars, current, talkVars, events>>

\* The resets, clearDispatchLatch, save_was_loaded.
Forget ==
  /\ hook = "forget" /\ hook' = "request"
  /\ latch' = FALSE /\ wasLoaded' = TRUE
  /\ UNCHANGED <<chosen, live, scene, queue, reask, timers, sesWorker,
                 wireVars, current, talkVars, events>>

\* requestRehello
Request ==
  /\ hook = "request" /\ hook' = "defer"
  /\ clock' = "burst" /\ reask' = TRUE
  /\ UNCHANGED <<chosen, live, scene, cappyVars, wasLoaded, announce, grace,
                 sesWorker, wireVars, current, talkVars, events>>

\* deferSaveLoadStatusBubble
Defer ==
  /\ hook = "defer" /\ hook' = "idle"
  /\ announce' = TRUE
  /\ UNCHANGED <<chosen, live, scene, cappyVars, wasLoaded, reask, clock, grace,
                 sesWorker, wireVars, current, talkVars, events>>

(***************************************************************************)
(* Scenes and time.                                                        *)
(***************************************************************************)

\* After a load the game leaves the scene it is in.
SceneLeaves ==
  /\ hook = "idle" /\ scene # "none" /\ scene' = "none"
  /\ IF chosen /\ ~live THEN UNCHANGED events ELSE Event
  /\ UNCHANGED <<chosen, live, hook, latch, queue, wasLoaded, reask, timers,
                 sesWorker, wireVars, current, talkVars>>

\* The next one; a stage exists only of a save that is read.
SceneStarts ==
  /\ hook = "idle" /\ scene = "none" /\ scene' = "fresh"
  /\ live' = chosen
  /\ UNCHANGED <<chosen, hook, cappyVars, wasLoaded, reask, timers, sesWorker,
                 wireVars, current, talkVars, events>>

\* kSceneSettleFrames and kSceneSettleMs have passed.
SceneSettles ==
  /\ scene = "fresh" /\ clock # "burst" /\ scene' = "settled"
  /\ UNCHANGED <<chosen, live, hook, cappyVars, wasLoaded, reask, timers,
                 sesWorker, wireVars, current, talkVars, events>>

\* The clock starts when the hook is done with the deadlines.
ClockRuns ==
  /\ hook = "idle" /\ clock # "over"
  /\ clock' = CASE clock = "burst" -> "wait" [] clock = "wait" -> "quiet" [] OTHER -> "over"
  /\ UNCHANGED <<sesGame, cappyVars, wasLoaded, reask, announce, grace, sesWorker, wireVars,
                 current, talkVars, events>>

(***************************************************************************)
(* The bubbles.  tryPump shows one at a time, in a settled scene; that the *)
(* balloon of the last one must be gone only delays the next.              *)
(***************************************************************************)

Has(s, B) == \E i \in DOMAIN s : s[i] \in B

\* enqueueSystem of each bubble of s: what does not fit is dropped.  untold: there
\* is something the player has not been told.
Enqueue(s, untold) ==
  LET all  == queue \o s
      fits == IF Len(all) <= QueueCap THEN all ELSE SubSeq(all, 1, QueueCap)
      rest == SubSeq(all, Len(fits) + 1, Len(all))
  IN /\ queue' = fits
     /\ shed' = (shed \/ rest # <<>>)
     /\ excused' = (Has(rest, Status) \/ (untold /\ ~Has(s, Status)))

\* tryShow takes the head: Cappy speaks.
Show ==
  /\ hook = "idle" /\ scene = "settled" /\ queue # <<>>
  /\ queue' = Tail(queue) /\ latch' = TRUE
  /\ early' = (early \/ (chosen /\ ~live))
  /\ told' = IF Head(queue) \in Status THEN Head(queue) ELSE told
  /\ UNCHANGED <<sesGame, wasLoaded, reask, timers, sesWorker, wireVars, current, excused,
                 shed, events>>

\* Refused for kMaxRetryFrames.
DropHead ==
  /\ hook = "idle" /\ scene = "settled" /\ queue # <<>>
  /\ queue' = Tail(queue) /\ shed' = TRUE
  /\ excused' = (excused \/ (Head(queue) \in Status /\ ~Has(queue', Status)))
  /\ UNCHANGED <<sesGame, latch, wasLoaded, reask, timers, sesWorker, wireVars, current,
                 told, early, events>>

\* applyOnFrame: enqueue of an item from another player.
ItemBubble ==
  /\ hook = "idle" /\ Event /\ Enqueue(<<"other">>, excused)
  /\ UNCHANGED <<sesGame, latch, wasLoaded, reask, timers, sesWorker, wireVars, current,
                 told, early>>

(***************************************************************************)
(* The worker: threadMain.                                                 *)
(***************************************************************************)

\* now < suppress_state_bubble_until_ms_, now >= save_load_announce_deadline_ms_
Silent      == clock # "over"
Expired     == announce /\ clock \in {"quiet", "over"}
AnnounceNow == Expired \/ (announce /\ last)

\* The deadlines at the top of the loop, before all else: that of a connection
\* lost, which may pass at any time,
GraceEnds ==
  /\ pc = "loop" /\ grace /\ grace' = FALSE
  /\ last' = FALSE /\ Enqueue(<<"off">>, excused)
  /\ UNCHANGED <<sesGame, latch, wasLoaded, reask, clock, announce, pc, online, pending, wireVars,
                 current, told, early, events>>

\* and that of the announcement after a load.
Announce ==
  /\ pc = "loop" /\ AnnounceNow /\ announce' = FALSE
  /\ Enqueue(IF last THEN <<"on">> ELSE <<"off">>, excused)
  /\ UNCHANGED <<sesGame, latch, wasLoaded, reask, clock, grace, sesWorker, wireVars, current,
                 told, early, events>>

\* disconnect: silent after a requested re-HELLO, else with a grace period.
HangUp ==
  /\ online' = FALSE /\ hello' = FALSE /\ lines' = <<>> /\ broken' = FALSE
  /\ IF last /\ ~Silent
     THEN /\ grace' = TRUE
          /\ UNCHANGED <<last, excused>>
     ELSE /\ last' = FALSE /\ UNCHANGED grace
          /\ excused' = (excused \/ (last /\ ~announce))

\* The frame thread's request.
Rehello ==
  /\ pc = "loop" /\ ~AnnounceNow /\ reask /\ reask' = FALSE
  /\ HangUp
  /\ UNCHANGED <<sesGame, cappyVars, wasLoaded, clock, announce, pc, pending, apReady, current,
                 told, shed, early, events>>

GateOpen == wasLoaded /\ latch

\* connectOnce, when it finds the PC, and the hello after it.
ConnectOnce == ~online /\ online' = TRUE
SendHello   == hello' = TRUE

\* The snapshot follows at once if the gate is open.
Reconnect ==
  /\ pc = "loop" /\ ConnectOnce /\ SendHello /\ current' = FALSE
  /\ IF GateOpen THEN pc' = "send" /\ UNCHANGED pending ELSE pending' = TRUE /\ UNCHANGED pc
  /\ UNCHANGED <<sesGame, cappyVars, wasLoaded, reask, timers, last, lines, broken, apReady,
                 talkVars, events>>

Connected == pc = "loop" /\ online /\ ~broken

\* Leaves the grace period running.
HandleApStateGrace ==
  /\ Connected /\ lines # <<>>
  /\ lines' = Tail(lines) /\ last' = Head(lines)
  /\ LET change == IF Silent \/ last = last' THEN <<>>
                   ELSE IF last' THEN <<"on">> ELSE <<"off">>
         said   == IF last' /\ announce THEN <<"on">> ELSE <<>>
     IN /\ Enqueue(change \o said, excused \/ (last # last' /\ ~announce))
        /\ announce' = (announce /\ said = <<>>)
  /\ UNCHANGED <<sesGame, latch, wasLoaded, reask, clock, grace, pc, online, pending, hello, broken,
                 apReady, current, told, early, events>>

\* handleLine of an ap_state.
HandleApState ==
  /\ Connected /\ lines # <<>>
  /\ lines' = Tail(lines) /\ last' = Head(lines) /\ grace' = FALSE
  /\ LET change == IF Silent \/ last = last' THEN <<>>
                   ELSE IF last' THEN <<"on">> ELSE <<"off">>
         said   == IF last' /\ announce THEN <<"on">> ELSE <<>>
     IN /\ Enqueue(change \o said, excused \/ (last # last' /\ ~announce))
        /\ announce' = (announce /\ said = <<>>)
  /\ UNCHANGED <<sesGame, latch, wasLoaded, reask, clock, pc, online, pending, hello, broken,
                 apReady, current, told, early, events>>

\* The poll or the read fails.
SeeBroken ==
  /\ pc = "loop" /\ broken /\ HangUp
  /\ UNCHANGED <<sesGame, cappyVars, wasLoaded, reask, clock, announce, pc, pending, apReady,
                 current, told, shed, early, events>>

\* Looks at the gate when it connects only.
GateOnce ==
  /\ Connected /\ pending /\ GateOpen /\ pending' = FALSE
  /\ UNCHANGED <<sesGame, cappyVars, wasLoaded, reask, timers, pc, online, last, wireVars, current,
                 talkVars, events>>

\* The gate again, for a snapshot that could not be sent with the hello.
Gate ==
  /\ Connected /\ pending /\ GateOpen /\ pc' = "send"
  /\ UNCHANGED <<sesGame, cappyVars, wasLoaded, reask, timers, online, last, pending, wireVars,
                 current, talkVars, events>>

\* sendSnapshot: the save as it is now, whatever the gate said before.
SendSnapshot ==
  /\ pc = "send" /\ pc' = "loop" /\ pending' = FALSE
  /\ current' = IF broken THEN current ELSE live
  /\ UNCHANGED <<sesGame, cappyVars, wasLoaded, reask, timers, online, last, wireVars, talkVars,
                 events>>

(***************************************************************************)
(* The PC and the network.                                                 *)
(***************************************************************************)

\* Every hello is answered with the state of the AP connection.
PcReplays ==
  /\ hello /\ ~broken /\ hello' = FALSE /\ lines' = Append(lines, apReady)
  /\ UNCHANGED <<sesGame, cappyVars, wasLoaded, reask, timers, sesWorker, broken, apReady,
                 current, talkVars, events>>

\* send_ap_state goes to the Switch that has been registered.
ApChanges ==
  /\ Event
  /\ apReady' = ~apReady
  /\ lines' = IF online /\ ~hello /\ ~broken THEN Append(lines, apReady') ELSE lines
  /\ UNCHANGED <<sesGame, cappyVars, wasLoaded, reask, timers, sesWorker, hello, broken,
                 current, talkVars>>

ConnectionLost ==
  /\ online /\ ~broken /\ Event /\ broken' = TRUE
  /\ UNCHANGED <<sesGame, cappyVars, wasLoaded, reask, timers, sesWorker, hello, lines,
                 apReady, current, talkVars>>

FrameSteps  == Load \/ Forget \/ Request \/ Defer \/ Show \/ DropHead \/ ItemBubble
Clock       == SceneLeaves \/ SceneStarts \/ SceneSettles \/ ClockRuns
WorkerSteps == GraceEnds \/ Announce \/ Rehello \/ Reconnect \/ HandleApState \/ SeeBroken
               \/ Gate \/ SendSnapshot
PcSteps     == PcReplays \/ ApChanges \/ ConnectionLost

SesNext == FrameSteps \/ Clock \/ WorkerSteps \/ PcSteps

\* What goes on by itself: the hook, the scenes, the worker's loop.
HookSteps   == Forget \/ Request \/ Defer
SceneRunsOn == SceneStarts \/ SceneSettles \/ (SceneLeaves /\ chosen /\ ~live)
LoopSteps   == Announce \/ Rehello \/ SeeBroken \/ Gate \/ SendSnapshot

SesSpec == SesInit /\ [][SesNext]_sesVars

(***************************************************************************)
(* Properties.                                                             *)
(***************************************************************************)

SesTypeOK ==
  /\ chosen \in BOOLEAN /\ live \in BOOLEAN /\ scene \in {"none", "fresh", "settled"}
  /\ hook \in {"idle", "forget", "request", "defer"}
  /\ latch \in BOOLEAN
  /\ queue \in Seq(Bubbles) /\ Len(queue) <= QueueCap
  /\ {wasLoaded, reask, announce, grace, online, last, pending, hello, broken, apReady} \subseteq BOOLEAN
  /\ clock \in {"burst", "wait", "quiet", "over"}
  /\ pc \in {"loop", "send"} /\ lines \in Seq(BOOLEAN)
  /\ current \in BOOLEAN
  /\ told \in Status
  /\ {excused, shed, early} \subseteq BOOLEAN
  /\ events \in 0 .. MaxOutside

\* When nothing is on its way, the player was last told the truth about the
\* connection (ApClient.cpp, the three senders of status bubbles and their
\* windows).  Not so when a change fell into the silence after a re-HELLO and
\* no announcement was to come, or when the bubble was dropped.
StatusHonest ==
  (/\ hook = "idle" /\ ~reask /\ ~announce /\ ~grace
   /\ ~hello /\ lines = <<>> /\ ~broken /\ ~Has(queue, Status) /\ ~excused)
    => (told = "on" <=> online /\ apReady)

\* Once the worker owes nothing on a connection, the last snapshot it sent there
\* was of the save now loaded, read in full: whatever it was doing when the load
\* came in between (ApClient.cpp:444, 495; SaveLoadHook.cpp:118).  A bubble left over
\* from before the load, shown before the scene was left, opens the gate too early:
\* then the snapshot is of a save half read.
SnapshotOwn ==
  (/\ online /\ ~broken /\ ~reask /\ ~pending /\ hook = "idle"
   /\ pc = "loop" /\ ~early)
    => current

\* Nothing is left that goes on by itself, and the PC is connected.
AtRest ==
  /\ online /\ ~broken
  /\ ~ENABLED (HookSteps \/ SceneRunsOn \/ ClockRuns \/ LoopSteps \/ Reconnect \/ Show)

\* The last snapshot is of the save now loaded, and the system never comes to rest with
\* that snapshot unsent: the announcement that follows every load opens the gate,
\* however the load, the connection and the lines of the PC interleave, unless a bubble
\* was dropped (CappyMessenger.cpp:234, ApClient.cpp:497).
SnapshotCurrent ==
  /\ SnapshotOwn
  /\ AtRest /\ chosen => current \/ shed \/ early
=============================================================================
