--------------------------- MODULE DeathLink_proofs ---------------------------
(***************************************************************************)
(* Proofs about DeathLink, for any number of deaths, kills, lost           *)
(* connections, restarts and slots.                                        *)
(***************************************************************************)
EXTENDS DeathLink, SequenceTheorems, TLAPS

\* What goes to the Switch: never the player's own death.
Honest == {"ally", "on", "off"}

\* The worker takes off a death that is there; the deaths queued, on their way and
\* bounced are no more than Mario died, the one being taken off counted twice.
CountInv ==
  /\ popping => deaths >= 1
  /\ bounced + toPc + deaths <= ownDeaths + (IF popping THEN 1 ELSE 0)
  /\ unsent => deaths > (IF popping THEN 1 ELSE 0)

\* A dying Mario died within the debounce time.
KillInv == (mario = "dying" => recent) /\ ~overkill

\* No echo gets past the client.
EchoInv == toSwitch \in Seq(Honest) /\ kill \in {"none", "ally"} /\ ~echoed

DeathInv == DeathTypeOK /\ CountInv /\ KillInv /\ EchoInv

LEMMA DeathInitial == DeathInit => DeathInv
<1> SUFFICES ASSUME DeathInit PROVE DeathInv
  OBVIOUS
<1>1. <<>> \in Seq(Honest) /\ <<>> \in Seq({"ally", "self", "on", "off"})
      /\ <<>> \in Seq({"ally", "self"})
  BY EmptySeq
<1>2. DeathTypeOK
  BY <1>1 DEF DeathInit, DeathTypeOK
<1>3. CountInv
  BY DEF DeathInit, CountInv
<1>4. KillInv /\ EchoInv
  BY <1>1 DEF DeathInit, KillInv, EchoInv
<1> QED
  BY <1>2, <1>3, <1>4 DEF DeathInv

\* What is honest is a message.
LEMMA HonestSeq == Seq(Honest) \subseteq Seq({"ally", "self", "on", "off"})
<1> SUFFICES ASSUME NEW s \in Seq(Honest) PROVE s \in Seq({"ally", "self", "on", "off"})
  OBVIOUS
<1>1. s \in [1 .. Len(s) -> Honest] /\ Len(s) \in Nat
  BY LenProperties
<1>2. s \in [1 .. Len(s) -> {"ally", "self", "on", "off"}]
  BY <1>1 DEF Honest
<1> QED
  BY <1>1, <1>2, IsASeq

\* The frame thread: Mario dies, is up again, or is killed for another player.
LEMMA FrameDeathInv ==
  ASSUME DeathInv, Die \/ NewStage \/ LongAgo \/ ApplyKill
  PROVE  DeathInv'
<1> USE DEF DeathInv, gameSide, betweenVs, lineVars, pcSide, tallies
<1>1. CASE Die
  <2>1. DeathTypeOK'
    BY <1>1 DEF Die, Queue, DeathTypeOK
  <2>2. CountInv'
    BY <1>1 DEF Die, Queue, CountInv, DeathTypeOK
  <2>3. KillInv' /\ EchoInv'
    BY <1>1 DEF Die, KillInv, EchoInv
  <2> QED
    BY <2>1, <2>2, <2>3
<1>2. CASE NewStage
  <2>1. DeathTypeOK'
    BY <1>2 DEF NewStage, DeathTypeOK
  <2>2. CountInv' /\ KillInv' /\ EchoInv'
    BY <1>2 DEF NewStage, CountInv, KillInv, EchoInv
  <2> QED
    BY <2>1, <2>2
<1>3. CASE LongAgo
  <2>1. DeathTypeOK'
    BY <1>3 DEF LongAgo, DeathTypeOK
  <2>2. CountInv' /\ KillInv' /\ EchoInv'
    BY <1>3 DEF LongAgo, CountInv, KillInv, EchoInv
  <2> QED
    BY <2>1, <2>2
<1>4. CASE ApplyKill
  <2>1. CountInv'
    BY <1>4 DEF ApplyKill, CountInv
  <2>2. CASE ~armed \/ recent \/ hp = "none"
    <3>1. DeathTypeOK'
      BY <1>4, <2>2 DEF ApplyKill, DeathTypeOK
    <3>2. KillInv' /\ EchoInv'
      BY <1>4, <2>2 DEF ApplyKill, KillInv, EchoInv
    <3> QED
      BY <2>1, <3>1, <3>2
  <2>3. CASE ~(~armed \/ recent \/ hp = "none")
    <3>1. mario = "alive" /\ kill = "ally"
      BY <1>4, <2>3 DEF ApplyKill, KillInv, EchoInv, DeathTypeOK
    <3>2. ~overkill' /\ ~echoed' /\ recent' = TRUE
      BY <1>4, <2>3, <3>1 DEF ApplyKill, KillInv, EchoInv
    <3>3. mario' \in {"alive", "dying"}
      BY <1>4, <2>3, <3>1 DEF ApplyKill
    <3>4. DeathTypeOK'
      BY <1>4, <2>3, <3>2, <3>3 DEF ApplyKill, DeathTypeOK
    <3>5. KillInv' /\ EchoInv'
      BY <1>4, <3>2 DEF ApplyKill, KillInv, EchoInv
    <3> QED
      BY <2>1, <3>4, <3>5
  <2> QED
    BY <2>2, <2>3
<1> QED
  BY <1>1, <1>2, <1>3, <1>4

\* The worker: a death is sent and taken off, a line is read.
LEMMA WorkerDeathInv ==
  ASSUME DeathInv, PumpDeath \/ PopDeath \/ ReadKill
  PROVE  DeathInv'
<1> USE DEF DeathInv, gameSide, pcSide, tallies, lineVars
<1>1. CASE PumpDeath
  <2>9. toPc' = toPc + 1 /\ toPc \in Nat
    BY <1>1 DEF PumpDeath, DeathTypeOK
  <2>0. toPc' \in Nat
    BY <2>9
  <2>1. DeathTypeOK'
    BY <1>1, <2>0, ZenonT(60) DEF PumpDeath, DeathTypeOK
  <2>2. CountInv'
    BY <1>1 DEF PumpDeath, CountInv, DeathTypeOK
  <2>3. KillInv' /\ EchoInv'
    BY <1>1 DEF PumpDeath, KillInv, EchoInv
  <2> QED
    BY <2>1, <2>2, <2>3
<1>2. CASE PopDeath
  <2>9. deaths' = deaths - 1 /\ deaths >= 1 /\ deaths \in Nat
    BY <1>2 DEF PopDeath, DeathTypeOK, CountInv
  <2>0. deaths' \in Nat
    BY <2>9
  <2>1. DeathTypeOK'
    BY <1>2, <2>0, ZenonT(60) DEF PopDeath, DeathTypeOK
  <2>2. CountInv'
    BY <1>2 DEF PopDeath, CountInv, DeathTypeOK
  <2>3. KillInv' /\ EchoInv'
    BY <1>2 DEF PopDeath, KillInv, EchoInv
  <2> QED
    BY <2>1, <2>2, <2>3
<1>3. CASE ReadKill
  <2>1. Head(toSwitch) \in Honest /\ toSwitch' \in Seq(Honest)
    BY <1>3, HeadTailProperties DEF ReadKill, EchoInv
  <2>2. kill' \in {"none", "ally"} /\ armed' \in BOOLEAN
    BY <1>3, <2>1 DEF ReadKill, EchoInv, DeathTypeOK, Honest
  <2>3. DeathTypeOK'
    BY <1>3, <2>1, <2>2, HonestSeq DEF ReadKill, DeathTypeOK
  <2>4. CountInv' /\ KillInv' /\ EchoInv'
    BY <1>3, <2>1, <2>2 DEF ReadKill, CountInv, KillInv, EchoInv
  <2> QED
    BY <2>3, <2>4
<1> QED
  BY <1>1, <1>2, <1>3

\* A line for the Switch is honest.
LEMMA SendHonest ==
  ASSUME DeathInv, NEW line \in Honest, Send(line)
  PROVE  toSwitch' \in Seq(Honest)
  BY AppendProperties DEF Send, DeathInv, EchoInv

\* The client and the server: deaths are bounced, bounces passed on but for one's own.
LEMMA ClientDeathInv ==
  ASSUME DeathInv, ReportDeath \/ AllyDies \/ OnDeathlink \/ JoinSlot \/ TellSwitch
  PROVE  DeathInv'
<1> USE DEF DeathInv, gameSide, betweenVs, lineVars, tallies
<1>1. CASE ReportDeath
  <2>0. toPc' \in Nat /\ bounced' \in Nat
    BY <1>1 DEF ReportDeath, DeathTypeOK
  <2>1. bounces' \in Seq({"ally", "self"}) /\ bounced' \in Nat /\ toPc' \in Nat
    BY <1>1, <2>0, AppendProperties, ZenonT(60) DEF ReportDeath, DeathTypeOK
  <2>2. DeathTypeOK'
    BY <1>1, <2>1 DEF ReportDeath, DeathTypeOK
  <2>3. CountInv'
    BY <1>1 DEF ReportDeath, CountInv, DeathTypeOK
  <2>4. KillInv' /\ EchoInv'
    BY <1>1 DEF ReportDeath, KillInv, EchoInv
  <2> QED
    BY <2>2, <2>3, <2>4
<1>2. CASE AllyDies
  <2>1. bounces' \in Seq({"ally", "self"})
    BY <1>2, AppendProperties DEF AllyDies, DeathTypeOK
  <2>2. DeathTypeOK'
    BY <1>2, <2>1 DEF AllyDies, DeathTypeOK
  <2>3. CountInv' /\ KillInv' /\ EchoInv'
    BY <1>2 DEF AllyDies, CountInv, KillInv, EchoInv
  <2> QED
    BY <2>2, <2>3
<1>3. CASE OnDeathlink
  <2>1. bounces' \in Seq({"ally", "self"}) /\ Head(bounces) \in {"ally", "self"}
    BY <1>3, HeadTailProperties DEF OnDeathlink, DeathTypeOK
  <2>2. toSwitch' \in Seq(Honest)
    <3>1. CASE optedIn /\ Head(bounces) # "self"
      BY <1>3, <2>1, <3>1, SendHonest DEF OnDeathlink, Honest
    <3>2. CASE ~(optedIn /\ Head(bounces) # "self")
      BY <1>3, <3>2 DEF OnDeathlink, EchoInv
    <3> QED
      BY <3>1, <3>2
  <2>3. DeathTypeOK'
    BY <1>3, <2>1, <2>2, HonestSeq DEF OnDeathlink, DeathTypeOK
  <2>4. CountInv' /\ KillInv' /\ EchoInv'
    BY <1>3, <2>2 DEF OnDeathlink, CountInv, KillInv, EchoInv
  <2> QED
    BY <2>3, <2>4
<1>4. CASE JoinSlot
  <2>1. bounces' \in Seq({"ally", "self"}) /\ optedIn' \in BOOLEAN /\ breaks' \in Nat
    BY <1>4, EmptySeq DEF JoinSlot, DeathTypeOK
  <2>2. DeathTypeOK'
    BY <1>4, <2>1 DEF JoinSlot, DeathTypeOK
  <2>3. CountInv' /\ KillInv' /\ EchoInv'
    BY <1>4 DEF JoinSlot, CountInv, KillInv, EchoInv
  <2> QED
    BY <2>2, <2>3
<1>5. CASE TellSwitch
  <2>1. toSwitch' \in Seq(Honest)
    BY <1>5, SendHonest DEF TellSwitch, Honest
  <2>2. DeathTypeOK'
    BY <1>5, <2>1, HonestSeq DEF TellSwitch, DeathTypeOK
  <2>3. CountInv' /\ KillInv' /\ EchoInv'
    BY <1>5, <2>1 DEF TellSwitch, CountInv, KillInv, EchoInv
  <2> QED
    BY <2>2, <2>3
<1> QED
  BY <1>1, <1>2, <1>3, <1>4, <1>5

\* Deaths lost on the way only lower the count.
LEMMA FewerOnTheWay ==
  ASSUME NEW a \in Nat, NEW b \in Nat, NEW c \in Nat, NEW d \in Nat, NEW e \in Nat,
         a <= b, c + b + d <= e
  PROVE  c + a + d <= e
  OBVIOUS

LEMMA NoneQueued ==
  ASSUME NEW a \in Nat, NEW b \in Nat, NEW c \in Nat, NEW d \in Nat, NEW e \in Nat,
         NEW n \in Nat, a <= b, c + b + d <= e + n, n <= d
  PROVE  c + a + 0 <= e
  OBVIOUS

\* The connection comes and goes, the game starts anew.
LEMMA LineDeathInv ==
  ASSUME DeathInv, PlugIn \/ Unplug \/ GameRestarts
  PROVE  DeathInv'
<1> USE DEF DeathInv, gameSide, betweenVs, pcSide, tallies
<1>1. CASE PlugIn
  <2>1. toSwitch' \in Seq(Honest)
    BY <1>1 DEF PlugIn, Honest
  <2>2. DeathTypeOK'
    BY <1>1, <2>1, HonestSeq DEF PlugIn, DeathTypeOK
  <2>3. CountInv' /\ KillInv' /\ EchoInv'
    BY <1>1, <2>1 DEF PlugIn, CountInv, KillInv, EchoInv
  <2> QED
    BY <2>2, <2>3
<1>2. CASE Unplug
  <2>0. toPc' \in Nat /\ toPc' <= toPc /\ breaks' \in Nat
    BY <1>2 DEF Unplug, DeathTypeOK
  <2>1. toSwitch' \in Seq(Honest)
    BY <1>2, EmptySeq DEF Unplug
  <2>9. UNCHANGED <<mario, hp, recent, unsent, deaths, popping, kill, armed, optedIn, serverSays,
                    bounces, ownDeaths, allyDeaths, bounced, overkill, echoed>>
    BY <1>2 DEF Unplug
  <2>5. cable' \in BOOLEAN /\ toSwitch' \in Seq({"ally", "self", "on", "off"})
    BY <1>2, <2>1, HonestSeq DEF Unplug
  <2>2. DeathTypeOK'
    BY <2>0, <2>5, <2>9, ZenonT(60) DEF DeathTypeOK
  <2>6. bounced \in Nat /\ toPc \in Nat /\ deaths \in Nat /\ ownDeaths \in Nat
    BY DEF DeathTypeOK
  <2>7. bounced + toPc' + deaths <= ownDeaths + (IF popping THEN 1 ELSE 0)
    <3>1. ownDeaths + (IF popping THEN 1 ELSE 0) \in Nat
      BY <2>6
    <3> QED
      BY <2>0, <2>6, <3>1, FewerOnTheWay, ZenonT(60) DEF CountInv
  <2>8. (popping => deaths >= 1) /\ (unsent => deaths > (IF popping THEN 1 ELSE 0))
    BY DEF CountInv
  <2>3. CountInv'
    BY <2>7, <2>8, <2>9, ZenonT(60) DEF CountInv
  <2>4. KillInv' /\ EchoInv'
    BY <1>2, <2>1 DEF Unplug, KillInv, EchoInv
  <2> QED
    BY <2>2, <2>3, <2>4
<1>3. CASE GameRestarts
  <2>0. toPc' \in Nat /\ toPc' <= toPc /\ breaks' \in Nat
    BY <1>3 DEF GameRestarts, DeathTypeOK
  <2>1. toSwitch' \in Seq(Honest)
    BY <1>3, EmptySeq DEF GameRestarts
  <2>9. mario' \in {"alive", "dying"} /\ hp' \in {"none", "current", "stale"}
        /\ kill' \in {"none", "ally", "self"} /\ deaths' \in Nat
    BY <1>3 DEF GameRestarts
  <2>5. UNCHANGED <<bounced, ownDeaths>> /\ deaths' = 0 /\ ~popping' /\ ~unsent'
    BY <1>3 DEF GameRestarts
  <2>6. bounced \in Nat /\ toPc \in Nat /\ deaths \in Nat /\ ownDeaths \in Nat
    BY DEF DeathTypeOK
  <2>2. DeathTypeOK'
    BY <1>3, <2>0, <2>1, <2>9, HonestSeq, ZenonT(60) DEF GameRestarts, DeathTypeOK
  <2>3. CountInv'
    <3>1. bounced + toPc' + 0 <= ownDeaths
      <4>1. (IF popping THEN 1 ELSE 0) \in Nat /\ (IF popping THEN 1 ELSE 0) <= deaths
        BY <2>6 DEF CountInv
      <4> QED
        BY <2>0, <2>6, <4>1, NoneQueued, ZenonT(60) DEF CountInv
    <3>2. bounced' + toPc' + deaths' <= ownDeaths'
      BY <3>1, <2>5
    <3>3. ownDeaths' = ownDeaths' + 0
      BY <2>5, <2>6
    <3> QED
      BY <3>2, <3>3, <2>5, ZenonT(60) DEF CountInv
  <2>4. KillInv' /\ EchoInv'
    BY <1>3, <2>1 DEF GameRestarts, KillInv, EchoInv
  <2> QED
    BY <2>2, <2>3, <2>4
<1> QED
  BY <1>1, <1>2, <1>3

\* The inductive invariant of DeathLink holds in every reachable state.
THEOREM DeathInvariance == DeathSpec => []DeathInv
<1>1. DeathInv /\ UNCHANGED deathVars => DeathInv'
  BY DEF DeathInv, DeathTypeOK, CountInv, KillInv, EchoInv, deathVars, gameSide, betweenVs,
         lineVars, pcSide, tallies
<1>2. DeathInv /\ [DeathNext]_deathVars => DeathInv'
  BY <1>1, FrameDeathInv, WorkerDeathInv, ClientDeathInv, LineDeathInv DEF DeathNext
<1> QED
  BY DeathInitial, <1>2, PTL DEF DeathSpec

\* Every variable keeps its type.
THEOREM DeathTypeCorrect == DeathSpec => []DeathTypeOK
<1>1. DeathInv => DeathTypeOK
  BY DEF DeathInv
<1> QED
  BY <1>1, DeathInvariance, PTL

\* Others are told of no more deaths than Mario died by himself, no unsent death is
\* forgotten, nobody dies of his own death come back, and a dying Mario is not killed
\* again (DeathHook.cpp, ApState.cpp, context.py).
THEOREM DeathsAreHonest == DeathSpec => []DeathsHonest
<1>1. DeathInv => DeathsHonest
  BY DEF DeathInv, CountInv, KillInv, EchoInv, DeathsHonest
<1> QED
  BY <1>1, DeathInvariance, PTL
=============================================================================
