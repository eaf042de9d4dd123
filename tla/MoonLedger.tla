------------------------------- MODULE MoonLedger -------------------------------
(***************************************************************************)
(* The per-kingdom moon balance.  The AP server owns what was granted, the *)
(* game's save owns what was spent (PayShineNum), and the bridge derives   *)
(*                                                                         *)
(*     outstanding[k] = max(0, lifetime received[k] - PayShineNum[k])      *)
(*                                                                         *)
(* and ships it to the Switch, whose HUD and deposit hooks spend from it.  *)
(* Nothing is persisted by the bridge: the reading of PayShineNum travels  *)
(* as snapshots, through a small ring on the Switch and a TCP connection   *)
(* that can be lost, while the player deposits, crashes and loads saves.   *)
(***************************************************************************)
EXTENDS Integers, Sequences

CONSTANTS
  Kingdoms,       \* the kingdoms
  Goals,          \* values of is_festival_goal() to consider
  FESTIVAL_ZEROED_KINGDOMS, \* _FESTIVAL_ZEROED_KINGDOMS
  Saves,          \* save files on the console
  RingCap,        \* entries pending_pay_snapshots can hold (SpscRing<4>: 3)
  NoReading,      \* the None of pay_shine_num_by_kingdom
  Weights,        \* effective moons of one item: 1, or 3 for a Multi-Moon
  NaturalMoons,   \* moons of its own addPayShineCurrentAll may pay
  MaxCredit,      \* bound: effective moons the AP server grants
  MaxDeposits,    \* bound: addPayShine calls in a behaviour
  MaxFaults,      \* bound: connection losses, crashes, loads, bridge restarts
  MaxEvents       \* bound: deposits and faults together

ASSUME LedgerAssumption ==
  /\ Goals \subseteq BOOLEAN
  /\ FESTIVAL_ZEROED_KINGDOMS \subseteq Kingdoms
  /\ RingCap \in Nat \ {0}
  /\ NoReading \notin [Kingdoms -> Nat]
  /\ Weights \subseteq Nat
  /\ NaturalMoons \subseteq Nat
  /\ MaxCredit \in Nat /\ MaxDeposits \in Nat
  /\ MaxFaults \in Nat /\ MaxEvents \in Nat

VARIABLES
  \* ---- AP server and bridge process ----
  festival,        \* is_festival_goal() of this seed
  granted,         \* effective moons the AP server has sent this slot
  lifetime,        \* moons_received_by_kingdom, the bridge's mirror of it
  brPay,           \* pay_shine_num_by_kingdom, or NoReading
  reg,             \* the registered connection: "none", "stale" (dead), "live"
  \* ---- the connection ----
  link,            \* the TCP connection the Switch has open still carries data
  up, down,        \* lines in flight on it, to the bridge and to the Switch
  old,             \* lines of dead connections the bridge has yet to read
  \* ---- Switch worker thread ----
  wpc,             \* where threadMain's loop is
  swUp,            \* socket_fd_ >= 0
  snapshotPending, \* threadMain's snapshot_pending
  rehello,         \* rehello_requested_
  \* ---- Switch frame thread and the game ----
  bridgeConnected, \* ApState::bridge_connected
  balance,         \* ap_moons_kingdom
  ring,            \* pending_pay_snapshots
  phase,           \* "title", "init", "loading" or "playing"
  saveWasLoaded,   \* ApState::save_was_loaded
  cappyOk,         \* CappyMessenger::dispatched_since_reset_
  pay,             \* PayShineNum of the save in memory
  disk,            \* PayShineNum of every save file
  save,            \* the save file that is loaded
  \* ---- history and bounds ----
  dirty,           \* since boot: a reading was dropped or applied out of order
  deposits, faults

brVars     == <<festival, granted, lifetime, brPay, reg>>
wire       == <<link, up, down, old>>
workerVars == <<wpc, swUp, snapshotPending, rehello>>
gameVars   == <<phase, saveWasLoaded, cappyOk, pay, disk, save>>
boundVars  == <<deposits, faults>>
vars == <<brVars, wire, workerVars, bridgeConnected, balance, ring, gameVars,
          dirty, boundVars>>

Reading == [Kingdoms -> Nat]
Zero    == [k \in Kingdoms |-> 0]

Hello        == [t |-> "hello", v |-> NoReading]
HelloAck     == [t |-> "hello_ack", v |-> NoReading]
PaySnapshot(p) == [t |-> "pay_snapshot", v |-> p]
Outstanding(o) == [t |-> "outstanding", v |-> o]

UpMsg   == {Hello} \cup [t : {"pay_snapshot"}, v : Reading]
DownMsg == {HelloAck} \cup [t : {"outstanding"}, v : Reading]

TypeOK ==
  /\ festival \in BOOLEAN
  /\ granted \in Reading /\ lifetime \in Reading
  /\ brPay \in Reading \cup {NoReading}
  /\ reg \in {"none", "stale", "live"}
  /\ link \in BOOLEAN
  /\ up \in Seq(UpMsg) /\ down \in Seq(DownMsg) /\ old \in Seq(UpMsg)
  /\ wpc \in {"top", "conn", "recv", "pump"}
  /\ swUp \in BOOLEAN /\ snapshotPending \in BOOLEAN /\ rehello \in BOOLEAN
  /\ bridgeConnected \in BOOLEAN
  /\ balance \in Reading
  /\ ring \in Seq(Reading) /\ Len(ring) <= RingCap
  /\ phase \in {"title", "init", "loading", "playing"}
  /\ saveWasLoaded \in BOOLEAN /\ cappyOk \in BOOLEAN
  /\ pay \in Reading /\ disk \in [Saves -> Reading] /\ save \in Saves
  /\ dirty \in BOOLEAN
  /\ deposits \in Nat /\ faults \in Nat

Init ==
  /\ festival \in Goals
  /\ granted = Zero /\ lifetime = Zero /\ brPay = NoReading /\ reg = "none"
  /\ link = FALSE /\ up = <<>> /\ down = <<>> /\ old = <<>>
  /\ wpc = "top" /\ swUp = FALSE /\ snapshotPending = FALSE
  /\ rehello = FALSE
  /\ bridgeConnected = FALSE /\ balance = Zero /\ ring = <<>>
  /\ phase = "title" /\ saveWasLoaded = FALSE /\ cappyOk = FALSE
  /\ pay = Zero /\ disk = [s \in Saves |-> Zero] /\ save \in Saves
  /\ dirty = FALSE /\ deposits = 0 /\ faults = 0

\* The bounds on what the environment does.
CountFault ==
  /\ faults < MaxFaults /\ deposits + faults < MaxEvents
  /\ faults' = faults + 1

CountDeposit ==
  /\ deposits < MaxDeposits /\ deposits + faults < MaxEvents
  /\ deposits' = deposits + 1

-----------------------------------------------------------------------------
(* Bridge *)

\* Kingdoms whose moons the festival goal never lets the player spend.
Clamped(k) == festival /\ k \in FESTIVAL_ZEROED_KINGDOMS

\* compute_outstanding and the clamp of _outstanding_entries_for_switch.
compute_outstanding(received, paid) ==
  [k \in Kingdoms |->
     IF ~Clamped(k) /\ received[k] > paid[k] THEN received[k] - paid[k] ELSE 0]

\* _push_outstanding_to_switch: suppressed without a reading, and _send finds
\* no active connection when the registry is empty or its socket is dead.
push_outstanding(received, paid) ==
  down' = IF paid # NoReading /\ reg = "live"
          THEN Append(down, Outstanding(compute_outstanding(received, paid)))
          ELSE down

\* The AP server sends this slot one more moon (weight 1 or 3).
ApGrantsMoon(k, w) ==
  /\ granted[k] + w <= MaxCredit
  /\ granted' = [granted EXCEPT ![k] = @ + w]
  /\ UNCHANGED <<festival, lifetime, brPay, reg, wire, workerVars,
                 bridgeConnected, balance, ring, gameVars, dirty, boundVars>>

\* ReceivedItems reaches the bridge: every new moon is mirrored, then the
\* balance is re-derived and pushed once for the batch.
ProcessReceivedItems ==
  /\ lifetime # granted
  /\ lifetime' = granted
  /\ push_outstanding(granted, brPay)
  /\ UNCHANGED <<festival, granted, brPay, reg, link, up, old, workerVars,
                 bridgeConnected, balance, ring, gameVars, dirty, boundVars>>

\* HELLO on the Switch's connection.  With no entry left in the registry the
\* Switch becomes active and gets the replay, which opens with the balance if
\* there is a reading.  If a dead connection of the same device is still
\* registered the new one replaces it and is only acknowledged; of the lines
\* of the dead one, those its reader has buffered by now survive the close.
HandleHello ==
  /\ up # <<>> /\ Head(up) = Hello
  /\ up' = Tail(up)
  /\ LET acked == Append(down, HelloAck)
     IN  down' = IF reg = "none" /\ brPay # NoReading
                 THEN Append(acked,
                             Outstanding(compute_outstanding(lifetime, brPay)))
                 ELSE acked
  /\ \E n \in 0..Len(old) : old' = SubSeq(old, 1, n)
  /\ reg' = "live"
  /\ UNCHANGED <<festival, granted, lifetime, brPay, link, workerVars,
                 bridgeConnected, balance, ring, gameVars, dirty, boundVars>>

\* pay_snapshot: replace the reading wholesale, then push what follows from it.
HandlePaySnapshot ==
  /\ up # <<>> /\ Head(up).t = "pay_snapshot"
  /\ up' = Tail(up)
  /\ brPay' = Head(up).v
  /\ push_outstanding(lifetime, Head(up).v)
  /\ UNCHANGED <<festival, granted, lifetime, reg, link, old, workerVars,
                 bridgeConnected, balance, ring, gameVars, dirty, boundVars>>

\* The handler of a dead connection reads a HELLO that was still under way: it
\* registers the dead connection, closing the one it replaces.
LateHello ==
  /\ old # <<>> /\ Head(old) = Hello
  /\ reg' = "stale"
  /\ IF reg = "live"
     THEN /\ link' = FALSE /\ up' = <<>> /\ down' = <<>>
          /\ \E n \in 0..Len(up) : old' = Tail(old) \o SubSeq(up, 1, n)
     ELSE old' = Tail(old) /\ UNCHANGED <<link, up, down>>
  /\ UNCHANGED <<festival, granted, lifetime, brPay, workerVars,
                 bridgeConnected, balance, ring, gameVars, dirty, boundVars>>

\* The same for a pay_snapshot: _dispatch_from only compares device ids, so it
\* is taken for the active Switch's although a newer connection is up.
LatePaySnapshot ==
  /\ old # <<>> /\ Head(old).t = "pay_snapshot"
  /\ old' = Tail(old)
  /\ IF reg = "none"
     THEN UNCHANGED <<brPay, down>>
     ELSE brPay' = Head(old).v /\ push_outstanding(lifetime, Head(old).v)
  /\ dirty' = (dirty \/ reg = "live")
  /\ UNCHANGED <<festival, granted, lifetime, reg, link, up, workerVars,
                 bridgeConnected, balance, ring, gameVars, boundVars>>

\* The handler of the dead connection reads EOF and unregisters the device.
BridgeSeesEof ==
  /\ reg = "stale" /\ old = <<>>
  /\ reg' = "none"
  /\ UNCHANGED <<festival, granted, lifetime, brPay, wire, workerVars,
                 bridgeConnected, balance, ring, gameVars, dirty, boundVars>>

\* SMOClient is restarted: the reading is gone, the mirror is empty until the
\* AP server's history is replayed, and the connection is closed.
BridgeRestart ==
  /\ CountFault
  /\ lifetime' = Zero /\ brPay' = NoReading /\ reg' = "none"
  /\ link' = FALSE /\ up' = <<>> /\ down' = <<>> /\ old' = <<>>
  /\ UNCHANGED <<festival, granted, workerVars, bridgeConnected, balance,
                 ring, gameVars, dirty, deposits>>

-----------------------------------------------------------------------------
(* The connection *)

\* The connection, if there is one, ends.  Of the lines the Switch has written
\* some prefix still reaches the bridge; lines to the Switch are gone.
ConnectionEnds ==
  /\ link' = FALSE /\ up' = <<>> /\ down' = <<>>
  /\ \E n \in 0..Len(up) : old' = old \o SubSeq(up, 1, n)
  /\ reg' = IF reg = "live" THEN "stale" ELSE reg

LoseLink ==
  /\ link /\ CountFault
  /\ ConnectionEnds
  /\ UNCHANGED <<festival, granted, lifetime, brPay, workerVars,
                 bridgeConnected, balance, ring, gameVars, dirty, deposits>>

-----------------------------------------------------------------------------
(* Switch worker thread: a round of threadMain is top, conn, recv, pump *)

\* Mutant: the gate without cappy_ok.
SnapshotGateSaveOnly == saveWasLoaded

\* The gate in front of sendSnapshot: save_ok && cappy_ok.
SnapshotGate == saveWasLoaded /\ cappyOk

\* What the worker writes reaches the bridge only while the link is up; a
\* failed send is not an error to it.
Send(line) == up' = IF link THEN Append(up, line) ELSE up

\* A complete fresh reading was sent with no older one left to overtake it.
Healed == ring = <<>> /\ old = <<>>

\* A re-HELLO was requested: close the socket, then connect again.
TakeRehello ==
  /\ wpc = "top" /\ rehello
  /\ rehello' = FALSE /\ wpc' = "conn"
  /\ swUp' = FALSE /\ bridgeConnected' = FALSE
  /\ ConnectionEnds
  /\ UNCHANGED <<festival, granted, lifetime, brPay, snapshotPending, balance,
                 ring, gameVars, dirty, boundVars>>

NoRehello ==
  /\ wpc = "top" /\ ~rehello
  /\ wpc' = IF swUp THEN "recv" ELSE "conn"
  /\ UNCHANGED <<brVars, wire, swUp, snapshotPending, rehello,
                 bridgeConnected, balance, ring, gameVars, dirty, boundVars>>

\* Mutant: a snapshot that cannot be sent with the HELLO is not owed later.
ConnectForgetsSnapshot ==
  /\ wpc = "conn" /\ wpc' = "recv"
  /\ swUp' = TRUE /\ link' = TRUE
  /\ up' = IF SnapshotGate THEN <<Hello, PaySnapshot(pay)>> ELSE <<Hello>>
  /\ snapshotPending' = FALSE
  /\ dirty' = (dirty /\ ~(SnapshotGate /\ Healed))
  /\ UNCHANGED <<brVars, down, old, rehello, bridgeConnected, balance, ring,
                 gameVars, boundVars>>

\* Connect, HELLO, and the snapshot (its tail is the PayShineNum reading) if
\* the gate is open.
Connect ==
  /\ wpc = "conn" /\ wpc' = "recv"
  /\ swUp' = TRUE /\ link' = TRUE
  /\ up' = IF SnapshotGate THEN <<Hello, PaySnapshot(pay)>> ELSE <<Hello>>
  /\ snapshotPending' = ~SnapshotGate
  /\ dirty' = (dirty /\ ~(SnapshotGate /\ Healed))
  /\ UNCHANGED <<brVars, down, old, rehello, bridgeConnected, balance, ring,
                 gameVars, boundVars>>

\* No bridge found, or connect refused: sleep and start over.
ConnectFails ==
  /\ wpc = "conn" /\ wpc' = "top"
  /\ UNCHANGED <<brVars, wire, swUp, snapshotPending, rehello,
                 bridgeConnected, balance, ring, gameVars, dirty, boundVars>>

\* Mutant: outstanding is added to the balance instead of replacing it.
HandleLineAdds ==
  /\ wpc = "recv" /\ down # <<>>
  /\ down' = Tail(down)
  /\ IF Head(down).t = "hello_ack"
     THEN bridgeConnected' = TRUE /\ UNCHANGED balance
     ELSE /\ balance' = [k \in Kingdoms |-> balance[k] + Head(down).v[k]]
          /\ UNCHANGED bridgeConnected
  /\ UNCHANGED <<brVars, link, up, old, workerVars, ring, gameVars, dirty,
                 boundVars>>

\* handleLine for hello_ack and outstanding.
HandleLine ==
  /\ wpc = "recv" /\ down # <<>>
  /\ down' = Tail(down)
  /\ IF Head(down).t = "hello_ack"
     THEN bridgeConnected' = TRUE /\ UNCHANGED balance
     ELSE balance' = Head(down).v /\ UNCHANGED bridgeConnected
  /\ UNCHANGED <<brVars, link, up, old, workerVars, ring, gameVars, dirty,
                 boundVars>>

\* recv reports the dead link, and disconnect() closes the socket.
Disconnect ==
  /\ wpc = "recv" /\ ~link /\ wpc' = "top"
  /\ swUp' = FALSE /\ bridgeConnected' = FALSE
  /\ UNCHANGED <<brVars, wire, snapshotPending, rehello, balance, ring,
                 gameVars, dirty, boundVars>>

\* poll timed out or every complete line was handled: on to the deferred
\* snapshot, which is sent once the save and the scene are ready.
LateSnapshot ==
  /\ wpc = "recv" /\ wpc' = "pump"
  /\ IF snapshotPending /\ SnapshotGate
     THEN /\ Send(PaySnapshot(pay)) /\ snapshotPending' = FALSE
          /\ dirty' = (dirty /\ ~(link /\ Healed))
     ELSE UNCHANGED <<up, snapshotPending, dirty>>
  /\ UNCHANGED <<brVars, link, down, old, swUp, rehello, bridgeConnected,
                 balance, ring, gameVars, boundVars>>

\* pumpOnce: a queued reading is popped, then sent.
PumpPaySnapshot ==
  /\ wpc = "pump" /\ ring # <<>>
  /\ ring' = Tail(ring)
  /\ Send(PaySnapshot(Head(ring)))
  /\ UNCHANGED <<brVars, link, down, old, workerVars, bridgeConnected,
                 balance, gameVars, dirty, boundVars>>

PumpDone ==
  /\ wpc = "pump" /\ ring = <<>> /\ wpc' = "top"
  /\ UNCHANGED <<brVars, wire, swUp, snapshotPending, rehello,
                 bridgeConnected, balance, ring, gameVars, dirty, boundVars>>

-----------------------------------------------------------------------------
(* Frame thread and the game *)

\* Mutant: push without looking at the ring's capacity.
queuePaySnapshotUnbounded(k, n) ==
  /\ phase = "playing" /\ bridgeConnected
  /\ CountDeposit
  /\ pay' = [pay EXCEPT ![k] = @ + n]
  /\ ring' = Append(ring, pay')
  /\ UNCHANGED <<brVars, wire, workerVars, bridgeConnected, balance, phase,
                 saveWasLoaded, cappyOk, disk, save, dirty, faults>>

\* The hooks' common part: blocked while the bridge is offline; otherwise the
\* game pays, and a complete reading is queued unless the ring is full.
queuePaySnapshot(k, n) ==
  /\ phase = "playing" /\ bridgeConnected
  /\ CountDeposit
  /\ pay' = [pay EXCEPT ![k] = @ + n]
  /\ IF Len(ring) < RingCap
     THEN ring' = Append(ring, pay') /\ UNCHANGED dirty
     ELSE dirty' = TRUE /\ UNCHANGED ring
  /\ UNCHANGED <<brVars, wire, workerVars, bridgeConnected, balance, phase,
                 saveWasLoaded, cappyOk, disk, save, faults>>

\* The toss spends at most what the hooked getCurrentShineNum shows.
AddPayShine(k) == \E n \in 1..balance[k] : queuePaySnapshot(k, n)

\* addPayShineCurrentAll pays all the game finds: what the hooked getter
\* shows, or moons the game itself counts.
AddPayShineCurrentAll(k) ==
  \E n \in (NaturalMoons \cup {balance[k]}) \ {0} : queuePaySnapshot(k, n)

\* The game writes its save (external).
AutoSave ==
  /\ phase = "playing" /\ disk[save] # pay
  /\ disk' = [disk EXCEPT ![save] = pay]
  /\ UNCHANGED <<brVars, wire, workerVars, bridgeConnected, balance, ring,
                 phase, saveWasLoaded, cappyOk, pay, save, dirty, boundVars>>

\* GameDataFile::initializeData: the hook's Orig has reset the save data.
\* The first load after boot is free, later ones count as faults.
InitializeData(s) ==
  /\ phase \in {"title", "playing"}
  /\ IF phase = "title" THEN UNCHANGED faults
     ELSE CountFault
  /\ save' = s /\ pay' = Zero /\ phase' = "init"
  /\ dirty' = (dirty \/ ring # <<>>)
  /\ UNCHANGED <<brVars, wire, workerVars, bridgeConnected, balance, ring,
                 saveWasLoaded, cappyOk, disk, deposits>>

\* The rest of saveLoadHook: session state cleared, re-HELLO requested.
SaveLoadTail ==
  /\ phase = "init" /\ phase' = "loading"
  /\ cappyOk' = FALSE /\ saveWasLoaded' = TRUE /\ rehello' = TRUE
  /\ UNCHANGED <<brVars, wire, wpc, swUp, snapshotPending, bridgeConnected,
                 balance, ring, pay, disk, save, dirty, boundVars>>

\* The save's own data is in memory and a scene is running (external; the
\* repeated initializeData calls of the same load are debounced).
SceneRuns ==
  /\ phase = "loading" /\ phase' = "playing" /\ pay' = disk[save]
  /\ UNCHANGED <<brVars, wire, workerVars, bridgeConnected, balance, ring,
                 saveWasLoaded, cappyOk, disk, save, dirty, boundVars>>

\* The first Cappy balloon of the scene is accepted by the game.
CappyDispatches ==
  /\ phase = "playing" /\ ~cappyOk /\ cappyOk' = TRUE
  /\ UNCHANGED <<brVars, wire, workerVars, bridgeConnected, balance, ring,
                 phase, saveWasLoaded, pay, disk, save, dirty, boundVars>>

\* SMO crashes or is closed: memory is gone, the save file stays.
CrashAndReboot ==
  /\ CountFault
  /\ wpc' = "top" /\ swUp' = FALSE /\ snapshotPending' = FALSE
  /\ rehello' = FALSE
  /\ bridgeConnected' = FALSE /\ balance' = Zero /\ ring' = <<>>
  /\ phase' = "title" /\ saveWasLoaded' = FALSE /\ cappyOk' = FALSE
  /\ pay' = Zero /\ dirty' = FALSE
  /\ ConnectionEnds
  /\ UNCHANGED <<festival, granted, lifetime, brPay, disk, save, deposits>>

-----------------------------------------------------------------------------
Worker ==
  \/ TakeRehello \/ NoRehello \/ Connect \/ ConnectFails \/ HandleLine
  \/ Disconnect \/ LateSnapshot \/ PumpPaySnapshot \/ PumpDone

Bridge ==
  \/ ProcessReceivedItems \/ HandleHello \/ HandlePaySnapshot
  \/ LateHello \/ LatePaySnapshot \/ BridgeSeesEof

Next ==
  \/ \E k \in Kingdoms, w \in Weights : ApGrantsMoon(k, w)
  \/ Bridge \/ BridgeRestart \/ LoseLink \/ Worker
  \/ \E k \in Kingdoms : AddPayShine(k) \/ AddPayShineCurrentAll(k)
  \/ AutoSave \/ (\E s \in Saves : InitializeData(s)) \/ SaveLoadTail
  \/ SceneRuns \/ CappyDispatches \/ CrashAndReboot

Spec == Init /\ [][Next]_vars

\* The bridge's event loop serves every source; the worker keeps looping, a
\* bridge that listens is found in the end, and what poll has to report (lines
\* or a dead socket) is handled in the end; the game finishes what it began.
\* Nothing is assumed of the player, of the AP server or of the network.
Fairness ==
  /\ WF_vars(ProcessReceivedItems) /\ WF_vars(HandleHello)
  /\ WF_vars(HandlePaySnapshot) /\ WF_vars(LateHello)
  /\ WF_vars(LatePaySnapshot) /\ WF_vars(BridgeSeesEof)
  /\ WF_vars(Worker) /\ SF_vars(Connect) /\ SF_vars(HandleLine)
  /\ SF_vars(Disconnect)
  /\ WF_vars(SaveLoadTail) /\ WF_vars(SceneRuns) /\ WF_vars(CappyDispatches)

FairSpec == Spec /\ Fairness

-----------------------------------------------------------------------------
(* Properties *)

\* Nothing is left to do on either side of a connection that is up.
Quiescent ==
  /\ link /\ reg = "live" /\ phase = "playing"
  /\ ~snapshotPending /\ ~rehello
  /\ ring = <<>> /\ up = <<>> /\ down = <<>> /\ old = <<>>

\* When everything has settled the Switch can spend exactly what was received
\* and not yet paid in the save that is loaded, through every crash, save
\* roll-back, reconnect and bridge restart -- unless a reading was dropped by
\* a full ring, was still queued when another save was loaded, or came late
\* from a connection already replaced, and no complete snapshot followed yet.
QuiescentExact ==
  Quiescent /\ ~dirty => balance = compute_outstanding(lifetime, pay)

\* The same without the exception: "outstanding can't drift from PayShineNum"
\* (client/context.py:514).
OutstandingTracksPay ==
  Quiescent => balance = compute_outstanding(lifetime, pay)

\* The most the player may ever have to spend in a kingdom.
Limit(k) == IF Clamped(k) THEN 0 ELSE granted[k]

\* The hooks never show credit the AP server has not granted, and never any
\* credit in a kingdom the festival goal clamps to 0.
CreditNeverInvented ==
  \A k \in Kingdoms : balance[k] <= Limit(k)

\* Once the disturbances end, the balance settles at what was granted and not
\* yet paid, whatever was lost on the way.
EventuallyExact ==
  <>[](phase = "playing" /\ ~dirty
         => balance = compute_outstanding(granted, pay))

-----------------------------------------------------------------------------
(* The inductive invariant behind QuiescentExact and CreditNeverInvented *)

\* HELLO opens every connection: it is still unread, or the Switch is
\* registered and only readings are under way.
WireInv ==
  /\ link => swUp
  /\ wpc = "conn" => ~swUp
  /\ ~link => up = <<>> /\ down = <<>>
  /\ reg = "live" => link
  /\ link /\ reg # "live" => up # <<>> /\ up[1] = Hello
  /\ \A i \in 2..Len(up) : up[i].t = "pay_snapshot"
  /\ reg = "live" /\ up # <<>> => up[1].t = "pay_snapshot"
  /\ link /\ ~snapshotPending /\ reg # "live" => Len(up) >= 2

\* The snapshot gate is shut from a save load to the new scene's first balloon.
GateInv ==
  /\ phase \in {"loading", "playing"} => saveWasLoaded
  /\ cappyOk => phase \in {"init", "playing"} /\ saveWasLoaded
  /\ phase = "loading" /\ link /\ ~rehello => snapshotPending

\* The newest reading under way -- queued, sent or applied -- is PayShineNum.
FreshInv ==
  LET sent == phase = "playing" /\ link /\ ~snapshotPending /\ ~rehello
  IN  /\ ring # <<>> /\ ~dirty => phase = "playing" /\ ring[Len(ring)] = pay
      /\ ring = <<>> /\ sent /\ ~dirty /\ up # <<>>
           => up[Len(up)] = PaySnapshot(pay)
      /\ ring = <<>> /\ sent /\ ~dirty /\ up = <<>> => brPay = pay

\* What the bridge's inputs make the balance.
Due == compute_outstanding(lifetime, brPay)

\* The newest balance under way to the Switch follows from the bridge's inputs.
BalanceInv ==
  reg = "live" /\ ~snapshotPending /\ up = <<>>
    => /\ brPay # NoReading
       /\ IF down = <<>> THEN balance = Due
          ELSE down[Len(down)] = Outstanding(Due)

WithinLimit(m) ==
  m.t = "outstanding" => \A k \in Kingdoms : m.v[k] <= Limit(k)

\* No balance, shown or under way, exceeds what the AP server granted.
CreditInv ==
  /\ \A k \in Kingdoms : lifetime[k] <= granted[k]
  /\ \A i \in 1..Len(down) : WithinLimit(down[i])
  /\ CreditNeverInvented

IndInv ==
  TypeOK /\ WireInv /\ GateInv /\ FreshInv /\ BalanceInv /\ CreditInv
=============================================================================
