------------------------- MODULE CheckDelivery_proofs -------------------------
(***************************************************************************)
(* Proofs about CheckDelivery, for every set of moons, captures, goal moons *)
(* and save files, every ring capacity and every bound.                    *)
(***************************************************************************)
EXTENDS CheckDelivery, TLAPS

(***************************************************************************)
(* The inductive invariant.                                                *)
(***************************************************************************)

\* What a queue holds.
Lines(s) == {s[i] : i \in 1..Len(s)}

IsState(line) == line.t = "state"

\* A live line was written of something the player did.
Backed(line) ==
  /\ line.t = "check" => line.loc \in consented
  /\ line.t = "goal"  => GoalMark \in consented

\* The player made the goal, or collected the moon that is it.
GoalBacked == (GoalMoons \cup {GoalMark}) \cap consented # {}

\* All the client has on record was consented.
RecordBacked ==
  /\ locations_checked \cup apChecked \subseteq consented
  /\ (goalReported => GoalBacked) /\ (apGoal => GoalBacked)

\* And so was all that becomes a credit without the operator.
ConsentInv ==
  /\ RecordBacked
  /\ checked_locations \subseteq consented
  /\ Lines(ring) \cup pendingLive \subseteq consented
  /\ goalQueued => GoalMark \in consented
  /\ \A line \in Lines(up) \cup Lines(old) : Backed(line)

\* Where a live check that was read is, until the server has it.
DeliveryInv ==
  /\ server => locations_checked \subseteq apChecked
  /\ apReady /\ connectedTask \in {"none", "draining"} => pendingLive = {}
  /\ read \subseteq apChecked \cup locations_checked \cup (pendingLive \cap Moons)

\* The Switch is going to send a snapshot, or its connection is over.
SnapshotDue == rehello \/ ~swUp \/ ~link \/ snapshotPending

\* A connection carries one snapshot at most, and a save being loaded waits for
\* one of its own.
OneState(s) ==
  \A i, j \in 1..Len(s) : IsState(s[i]) /\ IsState(s[j]) => i = j

ConnInv ==
  /\ OneState(up)
  /\ snapshotPending => \A line \in Lines(up) : ~IsState(line)
  /\ phase = "title" => owned = {}
  /\ phase = "loading" => SnapshotDue
  /\ reported \cap Moons \subseteq owned

\* The live path has the moon, or the server does.
OnTheWay(m) ==
  \/ m \in Lines(ring) \cup pendingLive \cup locations_checked \cup apChecked
  \/ CheckLine(m) \in Lines(up) \cup Lines(old)

\* The newest snapshot of the connection has the moon: on the wire, or once it
\* was read, buffered or held.  Nothing is known once an older one overtook it.
InSnapshot(m) ==
  \/ \E line \in Lines(up) : IsState(line) /\ m \in line.s.moons
  \/ /\ \A line \in Lines(up) : ~IsState(line)
     /\ \/ overtaken
        \/ pendingSnapshot # None /\ m \in pendingSnapshot.moons
        \/ pendingSnapshot = None /\ m \in HeldMoons

\* Every moon of the save in memory is accounted for.
SnapshotInv ==
  SnapshotDue \/ \A m \in owned : m \in missing \/ OnTheWay(m) \/ InSnapshot(m)

IndInv == TypeOK /\ ConsentInv /\ DeliveryInv /\ ConnInv /\ SnapshotInv

(***************************************************************************)
(* Queues.                                                                 *)
(***************************************************************************)

\* What a queue holds when a line is appended, taken off, or its tail is lost.
LEMMA LineFacts ==
  ASSUME NEW S, NEW s \in Seq(S)
  PROVE  /\ Lines(s) \subseteq S
         /\ Lines(<<>>) = {}
         /\ \A e \in S : /\ Append(s, e) \in Seq(S)
                         /\ Lines(Append(s, e)) = Lines(s) \cup {e}
         /\ s # <<>> => /\ Head(s) \in S /\ Tail(s) \in Seq(S)
                        /\ Lines(s) = {Head(s)} \cup Lines(Tail(s))
<1>1. Lines(s) \subseteq S /\ Lines(<<>>) = {}
  BY DEF Lines
<1>2. ASSUME NEW e \in S
      PROVE  Append(s, e) \in Seq(S) /\ Lines(Append(s, e)) = Lines(s) \cup {e}
  <2>1. /\ Append(s, e) \in Seq(S) /\ Len(s) \in Nat
        /\ Len(Append(s, e)) = Len(s) + 1
        /\ Append(s, e)[Len(s) + 1] = e
        /\ \A i \in 1..Len(s) : Append(s, e)[i] = s[i]
    OBVIOUS
  <2>2. 1..(Len(s) + 1) = 1..Len(s) \cup {Len(s) + 1}
    BY <2>1
  <2> QED
    BY <2>1, <2>2 DEF Lines
<1>3. ASSUME s # <<>>
      PROVE  /\ Head(s) \in S /\ Tail(s) \in Seq(S)
             /\ Lines(s) = {Head(s)} \cup Lines(Tail(s))
  <2>1. /\ Head(s) \in S /\ Tail(s) \in Seq(S) /\ Len(s) \in Nat /\ Len(s) >= 1
        /\ Head(s) = s[1] /\ Len(Tail(s)) = Len(s) - 1
        /\ \A i \in 1..(Len(s) - 1) : Tail(s)[i] = s[i + 1]
    BY <1>3
  <2>2. ASSUME NEW x \in Lines(s)
        PROVE  x \in {Head(s)} \cup Lines(Tail(s))
    <3>1. PICK i \in 1..Len(s) : x = s[i]
      BY DEF Lines
    <3>2. CASE i = 1
      BY <2>1, <3>1, <3>2
    <3>3. CASE i # 1
      <4>1. i - 1 \in 1..(Len(s) - 1) /\ (i - 1) + 1 = i
        BY <2>1, <3>3
      <4>2. x = Tail(s)[i - 1]
        BY <2>1, <3>1, <4>1
      <4> QED
        BY <2>1, <4>1, <4>2 DEF Lines
    <3> QED
      BY <3>2, <3>3
  <2>3. ASSUME NEW x \in {Head(s)} \cup Lines(Tail(s))
        PROVE  x \in Lines(s)
    <3>1. CASE x = Head(s)
      BY <2>1, <3>1 DEF Lines
    <3>2. CASE x \in Lines(Tail(s))
      <4>1. PICK i \in 1..(Len(s) - 1) : x = Tail(s)[i]
        BY <2>1, <3>2 DEF Lines
      <4>2. i + 1 \in 1..Len(s) /\ x = s[i + 1]
        BY <2>1, <4>1
      <4> QED
        BY <4>2 DEF Lines
    <3> QED
      BY <3>1, <3>2
  <2> QED
    BY <2>1, <2>2, <2>3
<1> QED
  BY <1>1, <1>2, <1>3

\* A connection that ends leaves a part of its lines to the old ones.
LEMMA EndsFacts ==
  ASSUME TypeOK, ConnectionEnds
  PROVE  /\ link' = FALSE /\ up' = <<>> /\ old' \in Seq(Line)
         /\ Lines(old) \subseteq Lines(old')
         /\ Lines(old') \subseteq Lines(old) \cup Lines(up)
<1>1. PICK n \in 0..Len(up) : old' = old \o SubSeq(up, 1, n)
  BY DEF ConnectionEnds
<1>2. up \in Seq(Line) /\ old \in Seq(Line)
  BY DEF TypeOK
<1> DEFINE cut == SubSeq(up, 1, n)
<1>3. cut \in Seq(Line) /\ Len(cut) = n /\ \A i \in 1..n : cut[i] = up[i]
  BY <1>2
<1> HIDE DEF cut
<1>4. /\ old \o cut \in Seq(Line) /\ Len(old \o cut) = Len(old) + n
      /\ \A i \in 1..Len(old) : (old \o cut)[i] = old[i]
      /\ \A i \in (Len(old) + 1)..(Len(old) + n) :
           (old \o cut)[i] = cut[i - Len(old)]
  BY <1>2, <1>3
<1>5. ASSUME NEW x \in Lines(old \o cut)
      PROVE  x \in Lines(old) \cup Lines(up)
  <2>1. PICK i \in 1..(Len(old) + n) : x = (old \o cut)[i]
    BY <1>4 DEF Lines
  <2>2. CASE i <= Len(old)
    BY <1>2, <1>4, <2>1, <2>2 DEF Lines
  <2>3. CASE i > Len(old)
    <3>1. i - Len(old) \in 1..n /\ i - Len(old) \in 1..Len(up)
      BY <1>2, <2>3
    <3>2. x = up[i - Len(old)]
      BY <1>2, <1>3, <1>4, <2>1, <2>3, <3>1
    <3> QED
      BY <3>1, <3>2 DEF Lines
  <2> QED
    BY <1>2, <2>2, <2>3
<1>6. Lines(old) \subseteq Lines(old \o cut)
  BY <1>2, <1>4 DEF Lines
<1>7. old' = old \o cut
  BY <1>1 DEF cut
<1> QED
  BY <1>4, <1>5, <1>6, <1>7 DEF ConnectionEnds

\* What the Switch writes is on the connection, if that is alive.
LEMMA SendFacts ==
  ASSUME TypeOK, NEW line \in Line, Send(line)
  PROVE  /\ up' \in Seq(Line)
         /\ link => Lines(up') = Lines(up) \cup {line}
         /\ ~link => up' = up
         /\ OneState(up) /\ (IsState(line) => \A l \in Lines(up) : ~IsState(l))
              => OneState(up')
<1>1. up \in Seq(Line) /\ Len(up) \in Nat
  BY DEF TypeOK
<1>2. /\ up' \in Seq(Line)
      /\ link => Lines(up') = Lines(up) \cup {line}
      /\ ~link => up' = up
  BY <1>1, LineFacts DEF Send
<1>3. ASSUME OneState(up), IsState(line) => \A l \in Lines(up) : ~IsState(l), link
      PROVE  OneState(up')
  <2>1. /\ up' = Append(up, line) /\ Len(up') = Len(up) + 1
        /\ up'[Len(up) + 1] = line
        /\ \A i \in 1..Len(up) : up'[i] = up[i]
    BY <1>1, <1>3 DEF Send
  <2> SUFFICES ASSUME NEW i \in 1..Len(up'), NEW j \in 1..Len(up'),
                      IsState(up'[i]), IsState(up'[j])
               PROVE  i = j
    BY DEF OneState
  <2>2. CASE i \in 1..Len(up) /\ j \in 1..Len(up)
    BY <1>3, <2>1, <2>2 DEF OneState
  <2>3. CASE i = Len(up) + 1 /\ j = Len(up) + 1
    BY <2>3
  <2>4. CASE i \in 1..Len(up) /\ j = Len(up) + 1
    BY <1>3, <2>1, <2>4 DEF Lines
  <2>5. CASE i = Len(up) + 1 /\ j \in 1..Len(up)
    BY <1>3, <2>1, <2>5 DEF Lines
  <2> QED
    BY <1>1, <2>1, <2>2, <2>3, <2>4, <2>5
<1> QED
  BY <1>2, <1>3

\* Once its first line is off a connection has no second snapshot.
LEMMA TailStates ==
  ASSUME NEW s \in Seq(Line), s # <<>>, OneState(s)
  PROVE  /\ OneState(Tail(s))
         /\ IsState(Head(s)) => \A l \in Lines(Tail(s)) : ~IsState(l)
<1>1. /\ Tail(s) \in Seq(Line) /\ Len(s) \in Nat /\ Len(s) >= 1
      /\ Head(s) = s[1] /\ Len(Tail(s)) = Len(s) - 1
      /\ \A i \in 1..(Len(s) - 1) : Tail(s)[i] = s[i + 1]
  OBVIOUS
<1>2. OneState(Tail(s))
  <2> SUFFICES ASSUME NEW i \in 1..Len(Tail(s)), NEW j \in 1..Len(Tail(s)),
                      IsState(Tail(s)[i]), IsState(Tail(s)[j])
               PROVE  i = j
    BY DEF OneState
  <2>1. /\ i + 1 \in 1..Len(s) /\ Tail(s)[i] = s[i + 1]
        /\ j + 1 \in 1..Len(s) /\ Tail(s)[j] = s[j + 1]
    BY <1>1
  <2>2. i + 1 = j + 1
    BY <2>1 DEF OneState
  <2> QED
    BY <1>1, <2>2
<1>3. ASSUME IsState(Head(s)), NEW l \in Lines(Tail(s)), IsState(l)
      PROVE  FALSE
  <2>1. PICK i \in 1..(Len(s) - 1) : l = Tail(s)[i]
    BY <1>1 DEF Lines
  <2>2. i + 1 \in 1..Len(s) /\ 1 \in 1..Len(s) /\ l = s[i + 1] /\ i + 1 # 1
    BY <1>1, <2>1
  <2> QED
    BY <1>1, <1>3, <2>2 DEF OneState
<1> QED
  BY <1>2, <1>3

(***************************************************************************)
(* What the bridge does with a check, a snapshot and a line.               *)
(***************************************************************************)

\* The variables of the bridge's types.
ReportTypes ==
  /\ locations_checked \in SUBSET Locations /\ apChecked \in SUBSET Locations
  /\ goalReported \in BOOLEAN /\ apGoal \in BOOLEAN

BridgeTypes ==
  /\ ReportTypes
  /\ pendingLive \in SUBSET Locations /\ read \in SUBSET Locations
  /\ pendingSnapshot \in Snapshot \cup {None} /\ held \in Snapshot \cup {None}

\* What is reported is on record, and reaches the server that is there.
LEMMA ReportFacts ==
  ASSUME TypeOK, NEW locs \in SUBSET Locations, NEW goal \in BOOLEAN,
         report(locs, goal)
  PROVE  /\ ReportTypes'
         /\ locations_checked' = locations_checked \cup locs
         /\ apChecked \subseteq apChecked' /\ apChecked' \subseteq apChecked \cup locs
         /\ server => locs \subseteq apChecked' \cup locations_checked
         /\ goalReported' => goalReported \/ goal \/ locs \cap GoalMoons # {}
         /\ apGoal' => apGoal \/ goal \/ locs \cap GoalMoons # {}
<1> DEFINE fresh == locs \ locations_checked
           goals == ~goalReported /\ (goal \/ fresh \cap GoalMoons # {})
<1>1. /\ locations_checked' = locations_checked \cup fresh
      /\ apChecked' = IF server THEN apChecked \cup fresh ELSE apChecked
      /\ goalReported' = (goalReported \/ goals)
      /\ apGoal' = (apGoal \/ (goals /\ server))
  BY Zenon DEF report
<1>2. fresh \subseteq locs /\ locs \subseteq fresh \cup locations_checked
  OBVIOUS
<1>3. goals \in BOOLEAN /\ (goals => goal \/ locs \cap GoalMoons # {})
  BY <1>2
<1>4. /\ locations_checked \subseteq Locations /\ apChecked \subseteq Locations
      /\ goalReported \in BOOLEAN /\ apGoal \in BOOLEAN /\ server \in BOOLEAN
  BY DEF TypeOK
<1> HIDE DEF fresh, goals
<1>5. goalReported' \in BOOLEAN /\ apGoal' \in BOOLEAN
  BY <1>1, Zenon
<1>6. (goalReported' => goalReported \/ goals) /\ (apGoal' => apGoal \/ goals)
  BY <1>1, Zenon
<1> QED
  BY <1>1, <1>2, <1>3, <1>4, <1>5, <1>6 DEF ReportTypes

\* A snapshot that meets the gate adds nothing to what is known to be checked:
\* its moons are all on record, or it is held.
LEMMA GateFacts ==
  ASSUME TypeOK, NEW s \in Snapshot, gate_or_dispatch_snapshot(s)
  PROVE  /\ ReportTypes' /\ held' \in Snapshot \cup {None}
         /\ locations_checked \subseteq locations_checked'
         /\ locations_checked' \subseteq already_checked_loc_ids
         /\ apChecked \subseteq apChecked'
         /\ apChecked' \subseteq apChecked \cup already_checked_loc_ids
         /\ (server /\ locations_checked \subseteq apChecked)
              => locations_checked' \subseteq apChecked'
         /\ held' = s \/ s.moons \subseteq locations_checked'
         /\ goalReported' => goalReported \/ already_checked_loc_ids \cap GoalMoons # {}
         /\ apGoal' => apGoal \/ goalReported \/ already_checked_loc_ids \cap GoalMoons # {}
<1>0. s.moons \subseteq Moons /\ s.goal \in BOOLEAN
  BY DEF Snapshot
<1>1. CASE AutoConfirms(s)
  <2>1. /\ held' = None /\ report(s.moons \cap Moons, s.goal)
        /\ s.moons \subseteq already_checked_loc_ids
        /\ s.goal => goalReported
    BY <1>1 DEF gate_or_dispatch_snapshot, dispatch_snapshot_entries, AutoConfirms
  <2>2. s.moons \cap Moons = s.moons /\ s.moons \in SUBSET Locations
    BY <1>0 DEF Locations
  <2>3. report(s.moons, s.goal)
    BY <2>1, <2>2
  <2>4. /\ ReportTypes'
        /\ locations_checked' = locations_checked \cup s.moons
        /\ apChecked \subseteq apChecked' /\ apChecked' \subseteq apChecked \cup s.moons
        /\ server => s.moons \subseteq apChecked' \cup locations_checked
        /\ goalReported' => goalReported \/ s.goal \/ s.moons \cap GoalMoons # {}
        /\ apGoal' => apGoal \/ s.goal \/ s.moons \cap GoalMoons # {}
    BY <1>0, <2>2, <2>3, ReportFacts
  <2> QED
    BY <2>1, <2>4 DEF already_checked_loc_ids
<1>2. CASE ~AutoConfirms(s)
  <2>1. held' = s /\ UNCHANGED reportVars
    BY <1>2 DEF gate_or_dispatch_snapshot
  <2> QED
    BY <2>1 DEF reportVars, TypeOK, ReportTypes, already_checked_loc_ids
<1> QED
  BY <1>1, <1>2

\* The three kinds of line, by what reading one changes.
LEMMA LineCases ==
  ASSUME NEW line \in Line, Dispatch(line)
  PROVE  \/ /\ line.t = "check" /\ line.loc \in Locations /\ line = CheckLine(line.loc)
            /\ HandleCheck(line.loc)
         \/ line.t = "goal" /\ HandleGoal
         \/ line.t = "state" /\ line.s \in Snapshot /\ HandleStateEnd(line.s)
BY DEF Line, Dispatch, CheckLine, GoalLine

\* Reading a line keeps the bridge's types.
LEMMA DispatchTypes ==
  ASSUME TypeOK, NEW line \in Line, Dispatch(line)
  PROVE  BridgeTypes'
<1>1. ASSUME NEW loc \in Locations, HandleCheck(loc)
      PROVE  BridgeTypes'
  <2>1. ReportTypes' /\ pendingLive' \in SUBSET Locations
    <3>1. CASE apReady
      BY <1>1, <3>1, ReportFacts DEF HandleCheck, TypeOK
    <3>2. CASE ~apReady
      BY <1>1, <3>2 DEF HandleCheck, TypeOK, reportVars, ReportTypes
    <3> QED
      BY <3>1, <3>2
  <2> QED
    BY <1>1, <2>1 DEF HandleCheck, TypeOK, BridgeTypes
<1>2. ASSUME HandleGoal
      PROVE  BridgeTypes'
  BY <1>2, ReportFacts DEF HandleGoal, TypeOK, BridgeTypes, bufferVars
<1>3. ASSUME NEW s \in Snapshot, HandleStateEnd(s)
      PROVE  BridgeTypes'
  <2>1. CASE apReady
    BY <1>3, <2>1, GateFacts DEF HandleStateEnd, TypeOK, BridgeTypes
  <2>2. CASE ~apReady
    BY <1>3, <2>2 DEF HandleStateEnd, TypeOK, BridgeTypes, ReportTypes, reportVars
  <2> QED
    BY <2>1, <2>2
<1> QED
  BY <1>1, <1>2, <1>3, LineCases

\* The lines the Switch writes are lines.
LEMMA LineTypes ==
  /\ GoalLine \in Line
  /\ \A loc \in Locations : CheckLine(loc) \in Line
  /\ TypeOK => CurrentSnapshot \in Line
<1>1. TypeOK => [moons |-> owned, goal |-> goalSent] \in Snapshot
  BY DEF TypeOK, Snapshot
<1> QED
  BY <1>1 DEF GoalLine, CheckLine, CurrentSnapshot, StateLines, Line

\* The ring keeps to its capacity, and is typed.
LEMMA RingFacts ==
  ASSUME TypeOK, NEW loc \in Locations, enqueueCheck(loc)
  PROVE  /\ ring' \in Seq(Locations) /\ Len(ring') <= RingCap
         /\ Lines(ring) \subseteq Lines(ring') /\ Lines(ring') \subseteq Lines(ring) \cup {loc}
         /\ loc \in reported \/ loc \in Lines(ring') \/ loc \in missing' \/ loc \notin Moons
<1>1. ring \in Seq(Locations) /\ Len(ring) <= RingCap /\ RingCap \in Nat
  BY DeliveryAssumption DEF TypeOK
<1>2. /\ Append(ring, loc) \in Seq(Locations) /\ Len(Append(ring, loc)) = Len(ring) + 1
      /\ Lines(Append(ring, loc)) = Lines(ring) \cup {loc}
  BY <1>1, LineFacts
<1>3. CASE loc \in reported \/ Len(ring) >= RingCap
  BY <1>1, <1>3 DEF enqueueCheck
<1>4. CASE ~(loc \in reported \/ Len(ring) >= RingCap)
  <2>1. ring' = Append(ring, loc) /\ Len(ring) + 1 <= RingCap
    BY <1>1, <1>4 DEF enqueueCheck
  <2> QED
    BY <1>2, <2>1
<1> QED
  BY <1>3, <1>4

(***************************************************************************)
(* The types.                                                              *)
(***************************************************************************)

\* Every step keeps the types.
LEMMA TypeStep ==
  ASSUME TypeOK, Next
  PROVE  TypeOK'
<1> USE DEF vars, switchVars, gameVars, hookVars, workerVars, wire, bufferVars,
           reportVars, sessionVars, bridgeVars, boundVars
<1>1. ASSUME NEW m \in Moons, CollectMoon(m)
      PROVE  TypeOK'
  <2>1. reported' \in SUBSET Locations /\ missing' \in SUBSET Moons
    BY <1>1 DEF CollectMoon, enqueueCheck, TypeOK, Locations
  <2>2. ring' \in Seq(Locations) /\ Len(ring') <= RingCap
    BY <1>1, RingFacts DEF CollectMoon, Locations
  <2> QED
    BY <1>1, <2>1, <2>2 DEF CollectMoon, CountReport, TypeOK, Locations
<1>2. ASSUME NEW c \in Captures, CaptureStart(c)
      PROVE  TypeOK'
  <2>1. reported' \in SUBSET Locations /\ missing' \in SUBSET Moons
    BY <1>2 DEF CaptureStart, enqueueCheck, TypeOK, Locations
  <2>2. ring' \in Seq(Locations) /\ Len(ring') <= RingCap
    BY <1>2, RingFacts DEF CaptureStart, Locations
  <2> QED
    BY <1>2, <2>1, <2>2 DEF CaptureStart, CountReport, TypeOK, Locations
<1>3. CASE CreditsStart
  BY <1>3 DEF CreditsStart, CountReport, TypeOK
<1>4. CASE CappyDispatches
  BY <1>4 DEF CappyDispatches, TypeOK
<1>5. ASSUME NEW moons \in SaveMoons, LoadSave(moons)
      PROVE  TypeOK'
  <2>1. owned' \in SUBSET Moons /\ faults' \in Nat
    BY <1>5, DeliveryAssumption DEF LoadSave, CountFault, TypeOK
  <2>2. goalSent' \in BOOLEAN /\ rehello' \in BOOLEAN
    BY <1>5, Zenon DEF LoadSave
  <2> QED
    BY <1>5, <2>1, <2>2 DEF LoadSave, TypeOK
<1>6. CASE TakeRehello
  <2>1. link' = FALSE /\ up' \in Seq(Line) /\ old' \in Seq(Line)
    BY <1>6, EndsFacts DEF TakeRehello
  <2>2. rehello' \in BOOLEAN /\ swUp' \in BOOLEAN /\ link' \in BOOLEAN
    BY <1>6, EndsFacts, Zenon DEF TakeRehello
  <2> QED
    BY <1>6, <2>1, <2>2 DEF TakeRehello, TypeOK
<1>7. CASE Disconnect
  <2>1. swUp' \in BOOLEAN
    BY <1>7, Zenon DEF Disconnect
  <2> QED
    BY <1>7, <2>1 DEF Disconnect, TypeOK
<1>8. CASE Connect
  <2>1. up' \in Seq(Line)
    BY <1>8, LineTypes DEF Connect
  <2> QED
    BY <1>8, <2>1 DEF Connect, TypeOK
<1>9. CASE LateSnapshot
  <2>1. up' \in Seq(Line)
    BY <1>9, SendFacts, LineTypes DEF LateSnapshot, TypeOK
  <2>2. snapshotPending' \in BOOLEAN
    BY <1>9, Zenon DEF LateSnapshot
  <2> QED
    BY <1>9, <2>1, <2>2 DEF LateSnapshot, Send, TypeOK
<1>10. CASE PumpCheck
  <2>1. ring # <<>> /\ ring \in Seq(Locations) /\ Len(ring) <= RingCap
    BY <1>10 DEF PumpCheck, TypeOK
  <2>2. Head(ring) \in Locations /\ Tail(ring) \in Seq(Locations) /\ Len(Tail(ring)) <= RingCap
    BY <2>1, DeliveryAssumption
  <2>3. up' \in Seq(Line)
    BY <1>10, <2>2, SendFacts, LineTypes DEF PumpCheck
  <2> QED
    BY <1>10, <2>2, <2>3 DEF PumpCheck, TypeOK
<1>11. CASE PumpGoal
  <2>1. up' \in Seq(Line)
    BY <1>11, SendFacts, LineTypes DEF PumpGoal, TypeOK
  <2>2. goalQueued' \in BOOLEAN
    BY <1>11, Zenon DEF PumpGoal
  <2> QED
    BY <1>11, <2>1, <2>2 DEF PumpGoal, Send, TypeOK
<1>12. CASE ReadLine
  <2>1. up # <<>> /\ up \in Seq(Line)
    BY <1>12 DEF ReadLine, TypeOK
  <2>2. Head(up) \in Line /\ up' \in Seq(Line) /\ Dispatch(Head(up))
    BY <1>12, <2>1 DEF ReadLine
  <2>3. BridgeTypes'
    BY <2>2, DispatchTypes
  <2>4. overtaken' \in BOOLEAN
    <3>1. CASE Head(up).t = "state"
      BY <1>12, <3>1, Zenon DEF ReadLine
    <3>2. CASE Head(up).t # "state"
      BY <2>2, <3>2 DEF Dispatch, HandleCheck, HandleGoal, TypeOK
    <3> QED
      BY <3>1, <3>2
  <2> QED
    BY <1>12, <2>2, <2>3, <2>4 DEF ReadLine, TypeOK, BridgeTypes, ReportTypes
<1>13. CASE ReadLateLine
  <2>1. old # <<>> /\ old \in Seq(Line)
    BY <1>13 DEF ReadLateLine, TypeOK
  <2>2. Head(old) \in Line /\ old' \in Seq(Line) /\ Dispatch(Head(old))
    BY <1>13, <2>1 DEF ReadLateLine
  <2>3. BridgeTypes'
    BY <2>2, DispatchTypes
  <2>4. overtaken' \in BOOLEAN
    <3>1. CASE Head(old).t = "state"
      BY <1>13, <3>1, Zenon DEF ReadLateLine
    <3>2. CASE Head(old).t # "state"
      BY <2>2, <3>2 DEF Dispatch, HandleCheck, HandleGoal, TypeOK
    <3> QED
      BY <3>1, <3>2
  <2> QED
    BY <1>13, <2>2, <2>3, <2>4 DEF ReadLateLine, TypeOK, BridgeTypes, ReportTypes
<1>14. CASE confirm_pending_snapshot
  <2>1. held \in Snapshot /\ held.moons \subseteq Moons /\ held.goal \in BOOLEAN
    BY <1>14 DEF confirm_pending_snapshot, TypeOK, Snapshot
  <2>2. held.moons \cap Moons \in SUBSET Locations
    BY DEF Locations
  <2>3. ReportTypes'
    BY <1>14, <2>1, <2>2, ReportFacts DEF confirm_pending_snapshot,
       dispatch_snapshot_entries
  <2>4. consented' \in SUBSET (Locations \cup {GoalMark})
    BY <1>14, <2>1 DEF confirm_pending_snapshot, TypeOK, Locations
  <2> QED
    BY <1>14, <2>3, <2>4 DEF confirm_pending_snapshot, ReportTypes, TypeOK
<1>15. CASE reject_pending_snapshot
  <2>1. held.moons \subseteq Moons
    BY <1>15 DEF reject_pending_snapshot, TypeOK, Snapshot
  <2> QED
    BY <1>15, <2>1 DEF reject_pending_snapshot, TypeOK
<1>16. CASE ConnectedSetsReady
  BY <1>16 DEF ConnectedSetsReady, TypeOK
<1>17. CASE DrainLiveChecks
  <2>1. pendingLive \cap Moons \in SUBSET Locations
    BY DEF Locations
  <2>2. ReportTypes'
    BY <1>17, <2>1, ReportFacts DEF DrainLiveChecks, dispatch_snapshot_entries
  <2> QED
    BY <1>17, <2>2 DEF DrainLiveChecks, ReportTypes, TypeOK
<1>18. CASE DrainSnapshot
  <2>1. ReportTypes' /\ held' \in Snapshot \cup {None}
    <3>1. CASE pendingSnapshot = None
      BY <1>18, <3>1 DEF DrainSnapshot, ReportTypes, TypeOK, reportVars
    <3>2. CASE pendingSnapshot # None
      BY <1>18, <3>2, GateFacts DEF DrainSnapshot, TypeOK
    <3> QED
      BY <3>1, <3>2
  <2> QED
    BY <1>18, <2>1 DEF DrainSnapshot, ReportTypes, TypeOK
<1>19. CASE disconnect
  <2>1. faults' \in Nat
    BY <1>19 DEF disconnect, CountFault, TypeOK
  <2>2. server' \in BOOLEAN /\ apReady' \in BOOLEAN
    BY <1>19, Zenon DEF disconnect
  <2> QED
    BY <1>19, <2>1, <2>2 DEF disconnect, TypeOK
<1>20. CASE LoseLink
  <2>1. link' = FALSE /\ up' \in Seq(Line) /\ old' \in Seq(Line)
    BY <1>20, EndsFacts DEF LoseLink
  <2>2. faults' \in Nat
    BY <1>20 DEF LoseLink, CountFault, TypeOK
  <2>3. link' \in BOOLEAN
    BY <1>20, EndsFacts, Zenon DEF LoseLink
  <2> QED
    BY <1>20, <2>1, <2>2, <2>3 DEF LoseLink, TypeOK
<1>21. CASE SwitchReboots
  <2>1. ring' \in Seq(Locations) /\ Len(ring') <= RingCap
    BY <1>21, DeliveryAssumption DEF SwitchReboots
  <2>2. up' \in Seq(Line) /\ old' \in Seq(Line) /\ link' = FALSE
    BY <1>21, EndsFacts DEF SwitchReboots
  <2>3. faults' \in Nat
    BY <1>21 DEF SwitchReboots, CountFault, TypeOK
  <2>4. goalSent' \in BOOLEAN /\ goalQueued' \in BOOLEAN /\ rehello' \in BOOLEAN /\ swUp' \in BOOLEAN /\ link' \in BOOLEAN
    BY <1>21, EndsFacts, Zenon DEF SwitchReboots
  <2> QED
    BY <1>21, <2>1, <2>2, <2>3, <2>4 DEF SwitchReboots, TypeOK
<1>22. CASE ApConnects
  BY <1>22 DEF ApConnects, TypeOK
<1>23. CASE ServerLost
  <2>1. faults' \in Nat
    BY <1>23 DEF ServerLost, CountFault, TypeOK
  <2>2. server' \in BOOLEAN
    BY <1>23, Zenon DEF ServerLost
  <2> QED
    BY <1>23, <2>1, <2>2 DEF ServerLost, TypeOK
<1>24. CASE BridgeRestart
  <2>1. faults' \in Nat /\ {} \in SUBSET Locations /\ read' \in SUBSET Locations /\ <<>> \in Seq(Line)
    BY <1>24 DEF BridgeRestart, CountFault, TypeOK
  <2>2. server' \in BOOLEAN /\ apReady' \in BOOLEAN /\ goalReported' \in BOOLEAN /\ link' \in BOOLEAN
    BY <1>24, EndsFacts, Zenon DEF BridgeRestart
  <2> QED
    BY <1>24, <2>1, <2>2 DEF BridgeRestart, TypeOK
<1> QED
  BY <1>1, <1>2, <1>3, <1>4, <1>5, <1>6, <1>7, <1>8, <1>9, <1>10, <1>11,
     <1>12, <1>13, <1>14, <1>15, <1>16, <1>17, <1>18, <1>19, <1>20, <1>21,
     <1>22, <1>23, <1>24
  DEF Next, SwitchStep, BridgeStep, Environment

(***************************************************************************)
(* Nothing unconsented becomes a credit.                                   *)
(***************************************************************************)

\* What is consented may be reported.
LEMMA ReportBacked ==
  ASSUME TypeOK, ConsentInv, NEW locs \in SUBSET Locations, NEW goal \in BOOLEAN,
         report(locs, goal),
         consented \subseteq consented', locs \subseteq consented',
         goal => GoalMark \in consented'
  PROVE  RecordBacked'
BY ReportFacts DEF ConsentInv, RecordBacked, GoalBacked

\* What passes the gate was on record, so consented.
LEMMA GateBacked ==
  ASSUME TypeOK, ConsentInv, NEW s \in Snapshot, gate_or_dispatch_snapshot(s),
         consented' = consented
  PROVE  RecordBacked'
<1>1. already_checked_loc_ids \subseteq consented
  BY DEF already_checked_loc_ids, ConsentInv, RecordBacked
<1>2. /\ locations_checked' \subseteq consented /\ apChecked' \subseteq consented
  BY <1>1, GateFacts DEF ConsentInv, RecordBacked
<1>3. (goalReported' => GoalBacked) /\ (apGoal' => GoalBacked)
  BY <1>1, GateFacts DEF ConsentInv, RecordBacked, GoalBacked
<1> QED
  BY <1>2, <1>3 DEF RecordBacked, GoalBacked

\* Reading a line that was written of something consented.
LEMMA DispatchBacked ==
  ASSUME TypeOK, ConsentInv, NEW line \in Line, Backed(line), Dispatch(line),
         consented' = consented
  PROVE  RecordBacked' /\ pendingLive' \subseteq consented
<1>1. ASSUME NEW loc \in Locations, HandleCheck(loc), loc \in consented
      PROVE  RecordBacked' /\ pendingLive' \subseteq consented
  <2>1. CASE apReady
    BY <1>1, <2>1, ReportBacked DEF HandleCheck, ConsentInv
  <2>2. CASE ~apReady
    BY <1>1, <2>2 DEF HandleCheck, ConsentInv, RecordBacked, GoalBacked, reportVars
  <2> QED
    BY <2>1, <2>2
<1>2. ASSUME HandleGoal, GoalMark \in consented
      PROVE  RecordBacked' /\ pendingLive' \subseteq consented
  <2>1. report({}, TRUE) /\ {} \in SUBSET Locations /\ TRUE \in BOOLEAN
    BY <1>2 DEF HandleGoal
  <2>2. RecordBacked'
    BY <1>2, <2>1, ReportBacked
  <2> QED
    BY <1>2, <2>2 DEF HandleGoal, ConsentInv, bufferVars
<1>3. ASSUME NEW s \in Snapshot, HandleStateEnd(s)
      PROVE  RecordBacked' /\ pendingLive' \subseteq consented
  <2>1. CASE apReady
    BY <1>3, <2>1, GateBacked DEF HandleStateEnd, ConsentInv
  <2>2. CASE ~apReady
    BY <1>3, <2>2 DEF HandleStateEnd, ConsentInv, RecordBacked, GoalBacked, reportVars
  <2> QED
    BY <2>1, <2>2
<1> QED
  BY <1>1, <1>2, <1>3, LineCases DEF Backed

\* Every step keeps what can be credited consented.
LEMMA ConsentStep ==
  ASSUME TypeOK, ConsentInv, Next
  PROVE  ConsentInv'
<1> USE DEF vars, switchVars, gameVars, hookVars, workerVars, wire, bufferVars,
           reportVars, sessionVars, bridgeVars, boundVars
<1>1. ASSUME NEW m \in Moons, CollectMoon(m)
      PROVE  ConsentInv'
  <2>1. Lines(ring') \subseteq Lines(ring) \cup {m}
    BY <1>1, RingFacts DEF CollectMoon, Locations
  <2> QED
    BY <1>1, <2>1 DEF CollectMoon, ConsentInv, RecordBacked, GoalBacked, Backed
<1>2. ASSUME NEW c \in Captures, CaptureStart(c)
      PROVE  ConsentInv'
  <2>1. Lines(ring') \subseteq Lines(ring) \cup {c}
    BY <1>2, RingFacts DEF CaptureStart, Locations
  <2> QED
    BY <1>2, <2>1 DEF CaptureStart, ConsentInv, RecordBacked, GoalBacked, Backed
<1>3. CASE CreditsStart
  BY <1>3 DEF CreditsStart, ConsentInv, RecordBacked, GoalBacked, Backed
<1>4. CASE CappyDispatches
  BY <1>4 DEF CappyDispatches, ConsentInv, RecordBacked, GoalBacked, Backed
<1>5. ASSUME NEW moons \in SaveMoons, LoadSave(moons)
      PROVE  ConsentInv'
  BY <1>5 DEF LoadSave, ConsentInv, RecordBacked, GoalBacked, Backed
<1>6. CASE TakeRehello
  <2>1. Lines(up') = {} /\ Lines(old') \subseteq Lines(old) \cup Lines(up)
    BY <1>6, EndsFacts, LineFacts DEF TakeRehello, TypeOK
  <2> QED
    BY <1>6, <2>1 DEF TakeRehello, ConsentInv, RecordBacked, GoalBacked, Backed
<1>7. CASE Disconnect
  BY <1>7 DEF Disconnect, ConsentInv, RecordBacked, GoalBacked, Backed
<1>8. CASE Connect
  <2>1. \A line \in Lines(up') : line = CurrentSnapshot
    BY <1>8 DEF Connect, Lines
  <2> QED
    BY <1>8, <2>1 DEF Connect, CurrentSnapshot, StateLines, ConsentInv,
       RecordBacked, GoalBacked, Backed
<1>9. CASE LateSnapshot
  <2>1. Lines(up') \subseteq Lines(up) \cup {CurrentSnapshot}
    BY <1>9, SendFacts, LineTypes DEF LateSnapshot
  <2> QED
    BY <1>9, <2>1 DEF LateSnapshot, CurrentSnapshot, StateLines, ConsentInv,
       RecordBacked, GoalBacked, Backed
<1>10. CASE PumpCheck
  <2>1. ring # <<>> /\ ring \in Seq(Locations)
    BY <1>10 DEF PumpCheck, TypeOK
  <2>2. Head(ring) \in Locations /\ Lines(ring) = {Head(ring)} \cup Lines(ring')
    BY <1>10, <2>1, LineFacts DEF PumpCheck
  <2>3. Lines(up') \subseteq Lines(up) \cup {CheckLine(Head(ring))}
    BY <1>10, <2>2, SendFacts, LineTypes DEF PumpCheck
  <2> QED
    BY <1>10, <2>2, <2>3 DEF PumpCheck, CheckLine, ConsentInv, RecordBacked,
       GoalBacked, Backed
<1>11. CASE PumpGoal
  <2>1. Lines(up') \subseteq Lines(up) \cup {GoalLine}
    BY <1>11, SendFacts, LineTypes DEF PumpGoal
  <2> QED
    BY <1>11, <2>1 DEF PumpGoal, GoalLine, ConsentInv, RecordBacked, GoalBacked,
       Backed
<1>12. CASE ReadLine
  <2>1. up # <<>> /\ up \in Seq(Line) /\ Dispatch(Head(up))
    BY <1>12 DEF ReadLine, TypeOK
  <2>2. Head(up) \in Line /\ Lines(up) = {Head(up)} \cup Lines(up')
    BY <1>12, <2>1, LineFacts DEF ReadLine
  <2>3. UNCHANGED <<consented, checked_locations, ring, goalQueued, old>>
    BY <1>12 DEF ReadLine
  <2>4. Backed(Head(up))
    BY <2>2 DEF ConsentInv
  <2>5. RecordBacked' /\ pendingLive' \subseteq consented
    BY <2>1, <2>2, <2>3, <2>4, DispatchBacked
  <2> QED
    BY <2>2, <2>3, <2>5 DEF ConsentInv, Backed
<1>13. CASE ReadLateLine
  <2>1. old # <<>> /\ old \in Seq(Line) /\ Dispatch(Head(old))
    BY <1>13 DEF ReadLateLine, TypeOK
  <2>2. Head(old) \in Line /\ Lines(old) = {Head(old)} \cup Lines(old')
    BY <1>13, <2>1, LineFacts DEF ReadLateLine
  <2>3. UNCHANGED <<consented, checked_locations, ring, goalQueued, up>>
    BY <1>13 DEF ReadLateLine
  <2>4. Backed(Head(old))
    BY <2>2 DEF ConsentInv
  <2>5. RecordBacked' /\ pendingLive' \subseteq consented
    BY <2>1, <2>2, <2>3, <2>4, DispatchBacked
  <2> QED
    BY <2>2, <2>3, <2>5 DEF ConsentInv, Backed
<1>14. CASE confirm_pending_snapshot
  <2>1. held \in Snapshot /\ held.moons \subseteq Moons /\ held.goal \in BOOLEAN
    BY <1>14 DEF confirm_pending_snapshot, TypeOK, Snapshot
  <2>2. /\ held.moons \cap Moons \in SUBSET Locations
        /\ report(held.moons \cap Moons, held.goal)
    BY <1>14 DEF confirm_pending_snapshot, dispatch_snapshot_entries, Locations
  <2>3. /\ consented \subseteq consented' /\ held.moons \subseteq consented'
        /\ held.goal => GoalMark \in consented'
    BY <1>14 DEF confirm_pending_snapshot
  <2>4. RecordBacked'
    BY <2>1, <2>2, <2>3, ReportBacked
  <2> QED
    BY <1>14, <2>3, <2>4 DEF confirm_pending_snapshot, ConsentInv, Backed
<1>15. CASE reject_pending_snapshot
  BY <1>15 DEF reject_pending_snapshot, ConsentInv, RecordBacked, GoalBacked, Backed
<1>16. CASE ConnectedSetsReady
  BY <1>16 DEF ConnectedSetsReady, ConsentInv, RecordBacked, GoalBacked, Backed
<1>17. CASE DrainLiveChecks
  <2>1. /\ pendingLive \cap Moons \in SUBSET Locations /\ pendingLive \cap Moons \subseteq consented
        /\ report(pendingLive \cap Moons, FALSE) /\ consented' = consented
    BY <1>17 DEF DrainLiveChecks, dispatch_snapshot_entries, Locations, ConsentInv
  <2>2. RecordBacked'
    BY <2>1, ReportBacked
  <2> QED
    BY <1>17, <2>2 DEF DrainLiveChecks, ConsentInv, Backed
<1>18. CASE DrainSnapshot
  <2>1. RecordBacked'
    <3>1. CASE pendingSnapshot = None
      BY <1>18, <3>1 DEF DrainSnapshot, ConsentInv, RecordBacked, GoalBacked
    <3>2. CASE pendingSnapshot # None
      BY <1>18, <3>2, GateBacked DEF DrainSnapshot, TypeOK
    <3> QED
      BY <3>1, <3>2
  <2> QED
    BY <1>18, <2>1 DEF DrainSnapshot, ConsentInv, Backed
<1>19. CASE disconnect
  BY <1>19 DEF disconnect, ConsentInv, RecordBacked, GoalBacked, Backed
<1>20. CASE LoseLink
  <2>1. Lines(up') = {} /\ Lines(old') \subseteq Lines(old) \cup Lines(up)
    BY <1>20, EndsFacts, LineFacts DEF LoseLink, TypeOK
  <2> QED
    BY <1>20, <2>1 DEF LoseLink, ConsentInv, RecordBacked, GoalBacked, Backed
<1>21. CASE SwitchReboots
  <2>1. Lines(up') = {} /\ Lines(old') \subseteq Lines(old) \cup Lines(up)
    BY <1>21, EndsFacts, LineFacts DEF SwitchReboots, TypeOK
  <2>2. Lines(ring') = {}
    BY <1>21 DEF SwitchReboots, Lines
  <2> QED
    BY <1>21, <2>1, <2>2 DEF SwitchReboots, ConsentInv, RecordBacked, GoalBacked,
       Backed
<1>22. CASE ApConnects
  BY <1>22 DEF ApConnects, ConsentInv, RecordBacked, GoalBacked, Backed
<1>23. CASE ServerLost
  BY <1>23 DEF ServerLost, ConsentInv, RecordBacked, GoalBacked, Backed
<1>24. CASE BridgeRestart
  <2>1. Lines(up') = {} /\ Lines(old') = {}
    BY <1>24 DEF BridgeRestart, Lines
  <2> QED
    BY <1>24, <2>1 DEF BridgeRestart, ConsentInv, RecordBacked, GoalBacked, Backed
<1> QED
  BY <1>1, <1>2, <1>3, <1>4, <1>5, <1>6, <1>7, <1>8, <1>9, <1>10, <1>11,
     <1>12, <1>13, <1>14, <1>15, <1>16, <1>17, <1>18, <1>19, <1>20, <1>21,
     <1>22, <1>23, <1>24
  DEF Next, SwitchStep, BridgeStep, Environment

(***************************************************************************)
(* What is read live is not lost.                                          *)
(***************************************************************************)

\* Reading a line reports a live check, or buffers it.
LEMMA DispatchDelivers ==
  ASSUME TypeOK, DeliveryInv, NEW line \in Line, Dispatch(line),
         UNCHANGED sessionVars
  PROVE  DeliveryInv'
<1>1. ASSUME NEW loc \in Locations, HandleCheck(loc)
      PROVE  DeliveryInv'
  <2>1. CASE apReady
    <3>1. /\ report({loc}, FALSE) /\ {loc} \in SUBSET Locations /\ FALSE \in BOOLEAN
          /\ pendingLive' = pendingLive /\ read' = read \cup {loc}
      BY <1>1, <2>1 DEF HandleCheck
    <3>2. /\ locations_checked' = locations_checked \cup {loc}
          /\ apChecked \subseteq apChecked'
          /\ server => loc \in apChecked' \cup locations_checked
      BY <3>1, ReportFacts
    <3> QED
      BY <3>1, <3>2 DEF DeliveryInv, sessionVars
  <2>2. CASE ~apReady
    BY <1>1, <2>2 DEF HandleCheck, DeliveryInv, reportVars, sessionVars
  <2> QED
    BY <2>1, <2>2
<1>2. ASSUME HandleGoal
      PROVE  DeliveryInv'
  <2>1. report({}, TRUE) /\ {} \in SUBSET Locations /\ TRUE \in BOOLEAN
    BY <1>2 DEF HandleGoal
  <2> QED
    BY <1>2, <2>1, ReportFacts DEF HandleGoal, DeliveryInv, bufferVars, sessionVars
<1>3. ASSUME NEW s \in Snapshot, HandleStateEnd(s)
      PROVE  DeliveryInv'
  <2>1. CASE apReady
    BY <1>3, <2>1, GateFacts DEF HandleStateEnd, DeliveryInv, sessionVars
  <2>2. CASE ~apReady
    BY <1>3, <2>2 DEF HandleStateEnd, DeliveryInv, reportVars, sessionVars
  <2> QED
    BY <2>1, <2>2
<1> QED
  BY <1>1, <1>2, <1>3, LineCases

\* Every step keeps the live checks that were read.
LEMMA DeliveryStep ==
  ASSUME TypeOK, DeliveryInv, Next
  PROVE  DeliveryInv'
<1> USE DEF vars, switchVars, gameVars, hookVars, workerVars, wire, bufferVars,
           reportVars, sessionVars, bridgeVars, boundVars
<1>1. ASSUME NEW m \in Moons, CollectMoon(m)
      PROVE  DeliveryInv'
  BY <1>1 DEF CollectMoon, DeliveryInv
<1>2. ASSUME NEW c \in Captures, CaptureStart(c)
      PROVE  DeliveryInv'
  BY <1>2 DEF CaptureStart, DeliveryInv
<1>3. CASE CreditsStart
  BY <1>3 DEF CreditsStart, DeliveryInv
<1>4. CASE CappyDispatches
  BY <1>4 DEF CappyDispatches, DeliveryInv
<1>5. ASSUME NEW moons \in SaveMoons, LoadSave(moons)
      PROVE  DeliveryInv'
  BY <1>5 DEF LoadSave, DeliveryInv
<1>6. CASE TakeRehello
  BY <1>6 DEF TakeRehello, DeliveryInv
<1>7. CASE Disconnect
  BY <1>7 DEF Disconnect, DeliveryInv
<1>8. CASE Connect
  BY <1>8 DEF Connect, DeliveryInv
<1>9. CASE LateSnapshot
  BY <1>9 DEF LateSnapshot, DeliveryInv
<1>10. CASE PumpCheck
  BY <1>10 DEF PumpCheck, DeliveryInv
<1>11. CASE PumpGoal
  BY <1>11 DEF PumpGoal, DeliveryInv
<1>12. CASE ReadLine
  <2>1. up # <<>> /\ up \in Seq(Line) /\ Dispatch(Head(up)) /\ UNCHANGED sessionVars
    BY <1>12 DEF ReadLine, TypeOK
  <2>2. Head(up) \in Line
    BY <2>1, LineFacts
  <2> QED
    BY <2>1, <2>2, DispatchDelivers
<1>13. CASE ReadLateLine
  <2>1. old # <<>> /\ old \in Seq(Line) /\ Dispatch(Head(old)) /\ UNCHANGED sessionVars
    BY <1>13 DEF ReadLateLine, TypeOK
  <2>2. Head(old) \in Line
    BY <2>1, LineFacts
  <2> QED
    BY <2>1, <2>2, DispatchDelivers
<1>14. CASE confirm_pending_snapshot
  <2>1. held \in Snapshot /\ held.goal \in BOOLEAN
    BY <1>14 DEF confirm_pending_snapshot, TypeOK, Snapshot
  <2>2. held.moons \cap Moons \in SUBSET Locations
    BY DEF Locations
  <2>3. report(held.moons \cap Moons, held.goal)
    BY <1>14 DEF confirm_pending_snapshot, dispatch_snapshot_entries
  <2> QED
    BY <1>14, <2>1, <2>2, <2>3, ReportFacts DEF confirm_pending_snapshot, DeliveryInv
<1>15. CASE reject_pending_snapshot
  BY <1>15 DEF reject_pending_snapshot, DeliveryInv
<1>16. CASE ConnectedSetsReady
  BY <1>16 DEF ConnectedSetsReady, DeliveryInv
<1>17. CASE DrainLiveChecks
  <2>1. /\ pendingLive \cap Moons \in SUBSET Locations
        /\ report(pendingLive \cap Moons, FALSE) /\ FALSE \in BOOLEAN
    BY <1>17 DEF DrainLiveChecks, dispatch_snapshot_entries, Locations
  <2>2. /\ locations_checked' = locations_checked \cup (pendingLive \cap Moons)
        /\ apChecked \subseteq apChecked'
        /\ server => pendingLive \cap Moons \subseteq apChecked' \cup locations_checked
    BY <2>1, ReportFacts
  <2> QED
    BY <1>17, <2>2 DEF DrainLiveChecks, DeliveryInv
<1>18. CASE DrainSnapshot
  <2>1. CASE pendingSnapshot = None
    BY <1>18, <2>1 DEF DrainSnapshot, DeliveryInv
  <2>2. CASE pendingSnapshot # None
    BY <1>18, <2>2, GateFacts DEF DrainSnapshot, DeliveryInv, TypeOK
  <2> QED
    BY <2>1, <2>2
<1>19. CASE disconnect
  BY <1>19 DEF disconnect, DeliveryInv
<1>20. CASE LoseLink
  BY <1>20 DEF LoseLink, DeliveryInv
<1>21. CASE SwitchReboots
  BY <1>21 DEF SwitchReboots, DeliveryInv
<1>22. CASE ApConnects
  BY <1>22 DEF ApConnects, DeliveryInv
<1>23. CASE ServerLost
  BY <1>23 DEF ServerLost, DeliveryInv
<1>24. CASE BridgeRestart
  BY <1>24 DEF BridgeRestart, DeliveryInv
<1> QED
  BY <1>1, <1>2, <1>3, <1>4, <1>5, <1>6, <1>7, <1>8, <1>9, <1>10, <1>11,
     <1>12, <1>13, <1>14, <1>15, <1>16, <1>17, <1>18, <1>19, <1>20, <1>21,
     <1>22, <1>23, <1>24
  DEF Next, SwitchStep, BridgeStep, Environment

(***************************************************************************)
(* One snapshot per connection.                                            *)
(***************************************************************************)

\* An empty connection carries nothing.
LEMMA EmptyFacts == OneState(<<>>) /\ Lines(<<>>) = {}
BY DEF OneState, Lines

\* Every step keeps the connection's discipline.
LEMMA ConnStep ==
  ASSUME TypeOK, ConnInv, Next
  PROVE  ConnInv'
<1> USE DEF vars, switchVars, gameVars, hookVars, workerVars, wire, bufferVars,
           reportVars, sessionVars, bridgeVars, boundVars
<1>1. ASSUME NEW m \in Moons, CollectMoon(m)
      PROVE  ConnInv'
  BY <1>1 DEF CollectMoon, enqueueCheck, ConnInv, SnapshotDue
<1>2. ASSUME NEW c \in Captures, CaptureStart(c)
      PROVE  ConnInv'
  BY <1>2, DeliveryAssumption DEF CaptureStart, enqueueCheck, ConnInv, SnapshotDue
<1>3. CASE CreditsStart
  BY <1>3 DEF CreditsStart, ConnInv, SnapshotDue
<1>4. CASE CappyDispatches
  BY <1>4 DEF CappyDispatches, ConnInv, SnapshotDue
<1>5. ASSUME NEW moons \in SaveMoons, LoadSave(moons)
      PROVE  ConnInv'
  BY <1>5 DEF LoadSave, ConnInv, SnapshotDue
<1>6. CASE TakeRehello
  <2>1. OneState(up') /\ Lines(up') = {} /\ ~link'
    BY <1>6, EmptyFacts, EndsFacts DEF TakeRehello
  <2> QED
    BY <1>6, <2>1 DEF TakeRehello, ConnInv, SnapshotDue
<1>7. CASE Disconnect
  BY <1>7 DEF Disconnect, ConnInv, SnapshotDue
<1>8. CASE Connect
  <2>1. OneState(up')
    BY <1>8 DEF Connect, OneState
  <2>2. snapshotPending' => Lines(up') = {}
    BY <1>8, EmptyFacts DEF Connect
  <2>3. phase = "loading" => snapshotPending'
    BY <1>8 DEF Connect, SnapshotGate
  <2> QED
    BY <1>8, <2>1, <2>2, <2>3 DEF Connect, ConnInv, SnapshotDue
<1>9. CASE LateSnapshot
  <2>1. CurrentSnapshot \in Line /\ Send(CurrentSnapshot) /\ phase = "playing"
    BY <1>9, LineTypes DEF LateSnapshot, SnapshotGate
  <2>2. OneState(up')
    BY <1>9, <2>1, SendFacts DEF LateSnapshot, ConnInv
  <2> QED
    BY <1>9, <2>1, <2>2, Zenon DEF LateSnapshot, ConnInv, SnapshotDue
<1>10. CASE PumpCheck
  <2> DEFINE line == CheckLine(Head(ring))
  <2>1. Head(ring) \in Locations
    BY <1>10, LineFacts DEF PumpCheck, TypeOK
  <2>2. line \in Line /\ Send(line) /\ ~IsState(line)
    BY <1>10, <2>1, LineTypes DEF PumpCheck, IsState, CheckLine
  <2> HIDE DEF line
  <2>3. OneState(up') /\ Lines(up') \subseteq Lines(up) \cup {line}
    BY <2>2, SendFacts DEF ConnInv
  <2> QED
    BY <1>10, <2>2, <2>3 DEF PumpCheck, ConnInv, SnapshotDue
<1>11. CASE PumpGoal
  <2>1. GoalLine \in Line /\ Send(GoalLine) /\ ~IsState(GoalLine)
    BY <1>11, LineTypes DEF PumpGoal, IsState, GoalLine
  <2>2. OneState(up') /\ Lines(up') \subseteq Lines(up) \cup {GoalLine}
    BY <2>1, SendFacts DEF ConnInv
  <2> QED
    BY <1>11, <2>1, <2>2 DEF PumpGoal, ConnInv, SnapshotDue
<1>12. CASE ReadLine
  <2>1. up # <<>> /\ up \in Seq(Line) /\ OneState(up) /\ up' = Tail(up)
    BY <1>12 DEF ReadLine, TypeOK, ConnInv
  <2>2. OneState(up') /\ Lines(up') \subseteq Lines(up)
    BY <2>1, TailStates, LineFacts
  <2> QED
    BY <1>12, <2>2 DEF ReadLine, ConnInv, SnapshotDue
<1>13. CASE ReadLateLine
  BY <1>13 DEF ReadLateLine, ConnInv, SnapshotDue
<1>14. CASE confirm_pending_snapshot
  BY <1>14 DEF confirm_pending_snapshot, ConnInv, SnapshotDue
<1>15. CASE reject_pending_snapshot
  BY <1>15 DEF reject_pending_snapshot, ConnInv, SnapshotDue
<1>16. CASE ConnectedSetsReady
  BY <1>16 DEF ConnectedSetsReady, ConnInv, SnapshotDue
<1>17. CASE DrainLiveChecks
  BY <1>17 DEF DrainLiveChecks, ConnInv, SnapshotDue
<1>18. CASE DrainSnapshot
  BY <1>18 DEF DrainSnapshot, ConnInv, SnapshotDue
<1>19. CASE disconnect
  BY <1>19 DEF disconnect, ConnInv, SnapshotDue
<1>20. CASE LoseLink
  <2>1. OneState(up') /\ Lines(up') = {} /\ ~link'
    BY <1>20, EmptyFacts, EndsFacts DEF LoseLink
  <2> QED
    BY <1>20, <2>1 DEF LoseLink, ConnInv, SnapshotDue
<1>21. CASE SwitchReboots
  <2>1. OneState(up') /\ Lines(up') = {} /\ ~link'
    BY <1>21, EmptyFacts, EndsFacts DEF SwitchReboots
  <2> QED
    BY <1>21, <2>1 DEF SwitchReboots, ConnInv, SnapshotDue
<1>22. CASE ApConnects
  BY <1>22 DEF ApConnects, ConnInv, SnapshotDue
<1>23. CASE ServerLost
  BY <1>23 DEF ServerLost, ConnInv, SnapshotDue
<1>24. CASE BridgeRestart
  <2>1. OneState(up') /\ Lines(up') = {} /\ ~link'
    BY <1>24, EmptyFacts DEF BridgeRestart
  <2> QED
    BY <1>24, <2>1 DEF BridgeRestart, ConnInv, SnapshotDue
<1> QED
  BY <1>1, <1>2, <1>3, <1>4, <1>5, <1>6, <1>7, <1>8, <1>9, <1>10, <1>11,
     <1>12, <1>13, <1>14, <1>15, <1>16, <1>17, <1>18, <1>19, <1>20, <1>21,
     <1>22, <1>23, <1>24
  DEF Next, SwitchStep, BridgeStep, Environment

(***************************************************************************)
(* The moons of the save are accounted for.                                *)
(***************************************************************************)

\* Reading a line forgets no live check, and none but a snapshot touches what
\* is known of snapshots.
LEMMA DispatchKeeps ==
  ASSUME TypeOK, NEW line \in Line, Dispatch(line)
  PROVE  /\ locations_checked \subseteq locations_checked'
         /\ apChecked \subseteq apChecked' /\ pendingLive \subseteq pendingLive'
         /\ \A m : line = CheckLine(m) => m \in locations_checked' \cup pendingLive'
         /\ ~IsState(line) => UNCHANGED <<held, pendingSnapshot, overtaken>>
<1>1. ASSUME NEW loc \in Locations, line = CheckLine(loc), HandleCheck(loc)
      PROVE  /\ locations_checked \subseteq locations_checked'
             /\ apChecked \subseteq apChecked' /\ pendingLive \subseteq pendingLive'
             /\ loc \in locations_checked' \cup pendingLive'
             /\ UNCHANGED <<held, pendingSnapshot, overtaken>>
  <2>1. CASE apReady
    <3>1. report({loc}, FALSE) /\ {loc} \in SUBSET Locations /\ FALSE \in BOOLEAN
      BY <1>1, <2>1 DEF HandleCheck
    <3>2. /\ locations_checked' = locations_checked \cup {loc}
          /\ apChecked \subseteq apChecked'
      BY <3>1, ReportFacts
    <3> QED
      BY <1>1, <2>1, <3>2 DEF HandleCheck
  <2>2. CASE ~apReady
    BY <1>1, <2>2 DEF HandleCheck, reportVars
  <2> QED
    BY <2>1, <2>2
<1>2. ASSUME HandleGoal
      PROVE  /\ locations_checked \subseteq locations_checked'
             /\ apChecked \subseteq apChecked' /\ pendingLive \subseteq pendingLive'
             /\ UNCHANGED <<held, pendingSnapshot, overtaken>>
  <2>1. report({}, TRUE) /\ {} \in SUBSET Locations /\ TRUE \in BOOLEAN
    BY <1>2 DEF HandleGoal
  <2> QED
    BY <1>2, <2>1, ReportFacts DEF HandleGoal, bufferVars
<1>3. ASSUME NEW s \in Snapshot, HandleStateEnd(s)
      PROVE  /\ locations_checked \subseteq locations_checked'
             /\ apChecked \subseteq apChecked' /\ pendingLive \subseteq pendingLive'
  <2>1. CASE apReady
    BY <1>3, <2>1, GateFacts DEF HandleStateEnd
  <2>2. CASE ~apReady
    BY <1>3, <2>2 DEF HandleStateEnd, reportVars
  <2> QED
    BY <2>1, <2>2
<1>4. ASSUME NEW a, NEW b, CheckLine(a) = CheckLine(b)
      PROVE  a = b
  BY <1>4 DEF CheckLine
<1>5. \A m : CheckLine(m).t = "check"
  BY DEF CheckLine
<1> QED
  BY <1>1, <1>2, <1>3, <1>4, <1>5, LineCases DEF IsState

\* The snapshot of the connection is read: it is buffered, held or applied.
LEMMA ReadSnapshot ==
  ASSUME TypeOK, ConnInv, SnapshotInv, ReadLine
  PROVE  SnapshotInv'
<1>1. /\ up # <<>> /\ up \in Seq(Line) /\ OneState(up) /\ up' = Tail(up)
      /\ Dispatch(Head(up))
      /\ UNCHANGED <<owned, ring, rehello, swUp, snapshotPending, link, old,
                     apReady, checked_locations, server, missing>>
  BY DEF ReadLine, TypeOK, ConnInv, switchVars, gameVars, hookVars, workerVars,
         sessionVars
<1>2. Head(up) \in Line /\ Lines(up) = {Head(up)} \cup Lines(up')
  BY <1>1, LineFacts
<1>3. /\ locations_checked \subseteq locations_checked'
      /\ apChecked \subseteq apChecked' /\ pendingLive \subseteq pendingLive'
      /\ \A m : Head(up) = CheckLine(m) => m \in locations_checked' \cup pendingLive'
      /\ ~IsState(Head(up)) => UNCHANGED <<held, pendingSnapshot, overtaken>>
  BY <1>1, <1>2, DispatchKeeps
<1>4. ASSUME NEW m, OnTheWay(m)
      PROVE  OnTheWay(m)'
  BY <1>1, <1>2, <1>3, <1>4 DEF OnTheWay
<1>5. CASE ~IsState(Head(up))
  <2>1. ASSUME NEW m, InSnapshot(m)
        PROVE  InSnapshot(m)'
    BY <1>2, <1>3, <1>5, <2>1 DEF InSnapshot, HeldMoons
  <2> QED
    BY <1>1, <1>4, <2>1 DEF SnapshotInv, SnapshotDue
<1>6. CASE IsState(Head(up))
  <2> DEFINE s == Head(up).s
  <2>1. \A line \in Lines(up') : ~IsState(line)
    BY <1>1, <1>6, TailStates
  <2>2. s \in Snapshot /\ HandleStateEnd(s) /\ s # None
    BY <1>1, <1>2, <1>6, LineCases, DeliveryAssumption DEF IsState, Snapshot
  <2>3. overtaken' = (apReady /\ pendingSnapshot # None)
    BY <1>6 DEF ReadLine, IsState
  <2>4. ASSUME NEW m, InSnapshot(m)
        PROVE  m \in s.moons
    BY <1>2, <1>6, <2>1, <2>4 DEF InSnapshot
  <2> HIDE DEF s
  <2>5. ASSUME NEW m \in s.moons
        PROVE  OnTheWay(m)' \/ InSnapshot(m)'
    <3>1. CASE apReady
      <4>1. gate_or_dispatch_snapshot(s) /\ pendingSnapshot' = pendingSnapshot
        BY <2>2, <3>1 DEF HandleStateEnd
      <4>2. held' = s \/ s.moons \subseteq locations_checked'
        BY <2>2, <4>1, GateFacts
      <4>3. CASE m \in locations_checked'
        BY <4>3 DEF OnTheWay
      <4>4. CASE held' = s
        <5>1. m \in HeldMoons'
          BY <2>2, <2>5, <4>4 DEF HeldMoons
        <5>2. overtaken' \/ pendingSnapshot' = None
          BY <2>3, <3>1, <4>1
        <5> QED
          BY <2>1, <5>1, <5>2 DEF InSnapshot
      <4> QED
        BY <2>5, <4>2, <4>3, <4>4
    <3>2. CASE ~apReady
      <4>1. pendingSnapshot' = s
        BY <2>2, <3>2 DEF HandleStateEnd
      <4> QED
        BY <2>1, <2>2, <2>5, <4>1 DEF InSnapshot
    <3> QED
      BY <3>1, <3>2
  <2> QED
    BY <1>1, <1>4, <2>4, <2>5 DEF SnapshotInv, SnapshotDue
<1> QED
  BY <1>5, <1>6

\* A late snapshot overtakes the one of the connection once that was read, and
\* is overtaken by it before.
LEMMA ReadLateSnapshot ==
  ASSUME TypeOK, SnapshotInv, ReadLateLine
  PROVE  SnapshotInv'
<1>1. /\ old # <<>> /\ old \in Seq(Line) /\ old' = Tail(old)
      /\ Dispatch(Head(old))
      /\ UNCHANGED <<owned, ring, rehello, swUp, snapshotPending, link, up, missing>>
  BY DEF ReadLateLine, TypeOK, switchVars, gameVars, hookVars, workerVars
<1>2. Head(old) \in Line /\ Lines(old) = {Head(old)} \cup Lines(old')
  BY <1>1, LineFacts
<1>3. /\ locations_checked \subseteq locations_checked'
      /\ apChecked \subseteq apChecked' /\ pendingLive \subseteq pendingLive'
      /\ \A m : Head(old) = CheckLine(m) => m \in locations_checked' \cup pendingLive'
      /\ ~IsState(Head(old)) => UNCHANGED <<held, pendingSnapshot, overtaken>>
  BY <1>1, <1>2, DispatchKeeps
<1>4. ASSUME NEW m, OnTheWay(m)
      PROVE  OnTheWay(m)'
  BY <1>1, <1>2, <1>3, <1>4 DEF OnTheWay
<1>5. ASSUME NEW m, InSnapshot(m), link
      PROVE  InSnapshot(m)'
  <2>1. CASE ~IsState(Head(old))
    BY <1>1, <1>3, <1>5, <2>1 DEF InSnapshot, HeldMoons
  <2>2. CASE IsState(Head(old))
    <3>1. overtaken'
      BY <1>5, <2>2 DEF ReadLateLine, IsState
    <3> QED
      BY <1>1, <1>5, <3>1 DEF InSnapshot
  <2> QED
    BY <2>1, <2>2
<1> QED
  BY <1>1, <1>4, <1>5 DEF SnapshotInv, SnapshotDue

\* Every step keeps the moons of the save accounted for.
LEMMA SnapshotStep ==
  ASSUME TypeOK, ConnInv, SnapshotInv, Next
  PROVE  SnapshotInv'
<1> USE DEF vars, switchVars, gameVars, hookVars, workerVars, wire, bufferVars,
           reportVars, sessionVars, bridgeVars, boundVars
<1>1. ASSUME NEW m \in Moons, CollectMoon(m)
      PROVE  SnapshotInv'
  <2>1. /\ Lines(ring) \subseteq Lines(ring')
        /\ m \in reported \/ m \in Lines(ring') \/ m \in missing'
    BY <1>1, RingFacts DEF CollectMoon, Locations
  <2>2. missing \subseteq missing' /\ owned' = owned \cup {m}
    BY <1>1 DEF CollectMoon, enqueueCheck
  <2>3. m \in reported => m \in owned
    BY DEF ConnInv
  <2> QED
    BY <1>1, <2>1, <2>2, <2>3 DEF CollectMoon, SnapshotInv, SnapshotDue, OnTheWay,
       InSnapshot, HeldMoons
<1>2. ASSUME NEW c \in Captures, CaptureStart(c)
      PROVE  SnapshotInv'
  <2>1. Lines(ring) \subseteq Lines(ring')
    BY <1>2, RingFacts DEF CaptureStart, Locations
  <2>2. missing \subseteq missing'
    BY <1>2 DEF CaptureStart, enqueueCheck
  <2> QED
    BY <1>2, <2>1, <2>2 DEF CaptureStart, SnapshotInv, SnapshotDue, OnTheWay,
       InSnapshot, HeldMoons
<1>3. CASE CreditsStart
  BY <1>3 DEF CreditsStart, SnapshotInv, SnapshotDue, OnTheWay, InSnapshot, HeldMoons
<1>4. CASE CappyDispatches
  BY <1>4 DEF CappyDispatches, SnapshotInv, SnapshotDue, OnTheWay, InSnapshot,
     HeldMoons
<1>5. ASSUME NEW moons \in SaveMoons, LoadSave(moons)
      PROVE  SnapshotInv'
  BY <1>5 DEF LoadSave, SnapshotInv, SnapshotDue
<1>6. CASE TakeRehello
  BY <1>6, EndsFacts DEF TakeRehello, SnapshotInv, SnapshotDue
<1>7. CASE Disconnect
  BY <1>7 DEF Disconnect, SnapshotInv, SnapshotDue
<1>8. CASE Connect
  <2>1. CASE SnapshotGate
    <3>1. CurrentSnapshot \in Lines(up')
      BY <1>8, <2>1 DEF Connect, Lines
    <3> QED
      BY <1>8, <3>1 DEF Connect, SnapshotInv, InSnapshot, IsState, CurrentSnapshot,
         StateLines
  <2>2. CASE ~SnapshotGate
    BY <1>8, <2>2 DEF Connect, SnapshotInv, SnapshotDue
  <2> QED
    BY <2>1, <2>2
<1>9. CASE LateSnapshot
  <2>1. CASE link
    <3>1. CurrentSnapshot \in Lines(up')
      BY <1>9, <2>1, SendFacts, LineTypes DEF LateSnapshot
    <3> QED
      BY <1>9, <3>1 DEF LateSnapshot, SnapshotInv, InSnapshot, IsState,
         CurrentSnapshot, StateLines
  <2>2. CASE ~link
    BY <1>9, <2>2 DEF LateSnapshot, SnapshotInv, SnapshotDue
  <2> QED
    BY <2>1, <2>2
<1>10. CASE PumpCheck
  <2> DEFINE line == CheckLine(Head(ring))
  <2>1. Head(ring) \in Locations /\ Lines(ring) = {Head(ring)} \cup Lines(ring')
    BY <1>10, LineFacts DEF PumpCheck, TypeOK
  <2>2. line \in Line /\ Send(line) /\ ~IsState(line)
    BY <1>10, <2>1, LineTypes DEF PumpCheck, IsState, CheckLine
  <2>3. \A m \in Lines(ring) : m \in Lines(ring') \/ CheckLine(m) = line
    BY <2>1
  <2> HIDE DEF line
  <2>4. link => Lines(up') = Lines(up) \cup {line}
    BY <2>2, SendFacts
  <2> QED
    BY <1>10, <2>2, <2>3, <2>4 DEF PumpCheck, SnapshotInv, SnapshotDue, OnTheWay,
       InSnapshot, HeldMoons
<1>11. CASE PumpGoal
  <2>1. GoalLine \in Line /\ Send(GoalLine) /\ ~IsState(GoalLine)
    BY <1>11, LineTypes DEF PumpGoal, IsState, GoalLine
  <2>2. link => Lines(up') = Lines(up) \cup {GoalLine}
    BY <2>1, SendFacts
  <2> QED
    BY <1>11, <2>1, <2>2 DEF PumpGoal, SnapshotInv, SnapshotDue, OnTheWay,
       InSnapshot, HeldMoons
<1>12. CASE ReadLine
  BY <1>12, ReadSnapshot
<1>13. CASE ReadLateLine
  BY <1>13, ReadLateSnapshot
<1>14. CASE confirm_pending_snapshot
  <2>1. held \in Snapshot /\ held.moons \subseteq Moons /\ held.goal \in BOOLEAN
    BY <1>14 DEF confirm_pending_snapshot, TypeOK, Snapshot
  <2>2. /\ held.moons \cap Moons \in SUBSET Locations /\ held.moons \cap Moons = held.moons
        /\ report(held.moons \cap Moons, held.goal)
    BY <1>14, <2>1 DEF confirm_pending_snapshot, dispatch_snapshot_entries, Locations
  <2>3. /\ locations_checked' = locations_checked \cup held.moons
        /\ apChecked \subseteq apChecked'
    BY <2>1, <2>2, ReportFacts
  <2> QED
    BY <1>14, <2>3 DEF confirm_pending_snapshot, SnapshotInv, SnapshotDue, OnTheWay,
       InSnapshot, HeldMoons
<1>15. CASE reject_pending_snapshot
  BY <1>15 DEF reject_pending_snapshot, SnapshotInv, SnapshotDue, OnTheWay,
     InSnapshot, HeldMoons
<1>16. CASE ConnectedSetsReady
  BY <1>16 DEF ConnectedSetsReady, SnapshotInv, SnapshotDue, OnTheWay, InSnapshot,
     HeldMoons
<1>17. CASE DrainLiveChecks
  <2>1. /\ pendingLive \cap Moons \in SUBSET Locations
        /\ report(pendingLive \cap Moons, FALSE) /\ FALSE \in BOOLEAN
    BY <1>17 DEF DrainLiveChecks, dispatch_snapshot_entries, Locations
  <2>2. /\ locations_checked' = locations_checked \cup (pendingLive \cap Moons)
        /\ apChecked \subseteq apChecked'
    BY <2>1, ReportFacts
  <2>3. owned \subseteq Moons
    BY DEF TypeOK
  <2> QED
    BY <1>17, <2>2, <2>3 DEF DrainLiveChecks, SnapshotInv, SnapshotDue, OnTheWay,
       InSnapshot, HeldMoons
<1>18. CASE DrainSnapshot
  <2>1. CASE pendingSnapshot = None
    BY <1>18, <2>1 DEF DrainSnapshot, SnapshotInv, SnapshotDue, OnTheWay,
       InSnapshot, HeldMoons
  <2>2. CASE pendingSnapshot # None
    <3>1. pendingSnapshot \in Snapshot /\ gate_or_dispatch_snapshot(pendingSnapshot)
      BY <1>18, <2>2 DEF DrainSnapshot, TypeOK
    <3>2. /\ locations_checked \subseteq locations_checked' /\ apChecked \subseteq apChecked'
          /\ held' = pendingSnapshot \/ pendingSnapshot.moons \subseteq locations_checked'
      BY <3>1, GateFacts
    <3> QED
      BY <1>18, <2>2, <3>2 DEF DrainSnapshot, SnapshotInv, SnapshotDue, OnTheWay,
         InSnapshot, HeldMoons
  <2> QED
    BY <2>1, <2>2
<1>19. CASE disconnect
  BY <1>19 DEF disconnect, SnapshotInv, SnapshotDue, OnTheWay, InSnapshot, HeldMoons
<1>20. CASE LoseLink
  BY <1>20, EndsFacts DEF LoseLink, SnapshotInv, SnapshotDue
<1>21. CASE SwitchReboots
  BY <1>21, EndsFacts DEF SwitchReboots, SnapshotInv, SnapshotDue
<1>22. CASE ApConnects
  BY <1>22 DEF ApConnects, SnapshotInv, SnapshotDue, OnTheWay, InSnapshot, HeldMoons
<1>23. CASE ServerLost
  BY <1>23 DEF ServerLost, SnapshotInv, SnapshotDue, OnTheWay, InSnapshot, HeldMoons
<1>24. CASE BridgeRestart
  BY <1>24 DEF BridgeRestart, SnapshotInv, SnapshotDue
<1> QED
  BY <1>1, <1>2, <1>3, <1>4, <1>5, <1>6, <1>7, <1>8, <1>9, <1>10, <1>11,
     <1>12, <1>13, <1>14, <1>15, <1>16, <1>17, <1>18, <1>19, <1>20, <1>21,
     <1>22, <1>23, <1>24
  DEF Next, SwitchStep, BridgeStep, Environment

(***************************************************************************)
(* The theorems.                                                           *)
(***************************************************************************)

\* Console and client have just been started: nothing to account for.
LEMMA InitInv == Init => IndInv
<1> SUFFICES ASSUME Init
             PROVE  IndInv
  OBVIOUS
<1>1. Len(<<>>) = 0 /\ <<>> \in Seq(Locations) /\ <<>> \in Seq(Line)
  OBVIOUS
<1>2. TypeOK
  <2>1. RingCap \in Nat /\ Len(ring) <= RingCap
    BY <1>1, DeliveryAssumption DEF Init
  <2> QED
    BY <1>1, <2>1 DEF Init, TypeOK
<1>3. ConsentInv
  BY EmptyFacts DEF Init, ConsentInv, RecordBacked
<1>4. DeliveryInv
  BY DEF Init, DeliveryInv
<1>5. ConnInv
  BY EmptyFacts DEF Init, ConnInv
<1>6. SnapshotInv
  BY DEF Init, SnapshotInv
<1> QED
  BY <1>2, <1>3, <1>4, <1>5, <1>6 DEF IndInv

\* The five parts are inductive together.
LEMMA NextInv == IndInv /\ [Next]_vars => IndInv'
<1> SUFFICES ASSUME IndInv, [Next]_vars
             PROVE  IndInv'
  OBVIOUS
<1>1. CASE Next
  BY <1>1, TypeStep, ConsentStep, DeliveryStep, ConnStep, SnapshotStep DEF IndInv
<1>2. CASE UNCHANGED vars
  <2> USE <1>2 DEF vars, switchVars, gameVars, hookVars, workerVars, wire,
             bufferVars, reportVars, sessionVars, bridgeVars, boundVars
  <2>1. TypeOK'
    BY DEF IndInv, TypeOK
  <2>2. ConsentInv'
    BY DEF IndInv, ConsentInv, RecordBacked, GoalBacked, Backed
  <2>3. DeliveryInv' /\ ConnInv'
    BY DEF IndInv, DeliveryInv, ConnInv, SnapshotDue
  <2>4. SnapshotInv'
    BY DEF IndInv, SnapshotInv, SnapshotDue, OnTheWay, InSnapshot, HeldMoons
  <2> QED
    BY <2>1, <2>2, <2>3, <2>4 DEF IndInv
<1> QED
  BY <1>1, <1>2

\* What can be credited, what was read and what a connection carries stay as
\* the five parts say, in every reachable state.
THEOREM DeliveryInvariance == Spec => []IndInv
BY InitInv, NextInv, PTL DEF Spec

\* Every variable keeps its type; the ring of checks never holds more than its
\* capacity, and a held or buffered snapshot is one a console sent (SpscRing,
\* _on_state_end).
THEOREM DeliveryTypeCorrect == Spec => []TypeOK
<1>1. IndInv => TypeOK
  BY DEF IndInv
<1> QED
  BY <1>1, DeliveryInvariance, PTL

\* For any moons, saves and number of losses, reboots, reconnects and restarts:
\* no moon and no goal is credited that was neither reported in play nor
\* confirmed by the operator (_gate_or_dispatch_snapshot, drain_pending_snapshot).
THEOREM OnlyConsentedCredit == Spec => []NoUnconsentedCredit
<1>1. IndInv => NoUnconsentedCredit
  BY DEF IndInv, ConsentInv, RecordBacked, GoalBacked, NoUnconsentedCredit
<1> QED
  BY <1>1, DeliveryInvariance, PTL

\* A live check the bridge has read is on the AP server whenever the client is
\* connected and its Connected task is over: none is lost before Connected,
\* between its awaits or with the websocket (_pending_live_checks).
THEOREM LiveChecksArrive == Spec => []LiveChecksDelivered
<1>1. IndInv => LiveChecksDelivered
  BY DEF IndInv, DeliveryInv, LiveChecksDelivered
<1> QED
  BY <1>1, DeliveryInvariance, PTL

\* Once everything has settled and no snapshot overtook another, every moon of
\* the loaded save is credited, awaits the operator, or was dropped by a full
\* ring or rejected since the last snapshot (sendSnapshot, _on_state_end).
THEOREM SaveIsReconciled == Spec => []Reconciled
<1>1. IndInv => Reconciled
  <2> SUFFICES ASSUME IndInv, Settled, ~overtaken, NEW m \in owned
               PROVE  m \in apChecked \cup HeldMoons \cup missing
    BY DEF Reconciled
  <2>1. /\ ~SnapshotDue /\ Lines(ring) = {} /\ Lines(up) = {} /\ Lines(old) = {}
        /\ server /\ apReady /\ connectedTask = "none" /\ pendingSnapshot = None
    BY EmptyFacts DEF Settled, SnapshotDue
  <2>2. pendingLive = {} /\ locations_checked \subseteq apChecked
    BY <2>1 DEF IndInv, DeliveryInv
  <2>3. m \in missing \/ OnTheWay(m) \/ InSnapshot(m)
    BY <2>1 DEF IndInv, SnapshotInv
  <2>4. OnTheWay(m) => m \in apChecked
    BY <2>1, <2>2 DEF OnTheWay
  <2>5. InSnapshot(m) => m \in HeldMoons
    BY <2>1 DEF InSnapshot
  <2> QED
    BY <2>3, <2>4, <2>5
<1> QED
  BY <1>1, DeliveryInvariance, PTL
=============================================================================
