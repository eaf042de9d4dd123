--------------------------- MODULE ItemMirror_proofs ---------------------------
(***************************************************************************)
(* Proofs about ItemMirror, for every set of slots, captures and abilities, *)
(* every choice of bonus picks, every chunk size and every bound.           *)
(***************************************************************************)
EXTENDS ItemMirror, FiniteSetTheorems, SequenceTheorems, WellFoundedInduction, TLAPS

(***************************************************************************)
(* The inductive invariant.                                                *)
(***************************************************************************)

\* Types: of the flags, of what the server and the client keep, of the tasks and of
\* what lies between the client and the game.
MirrorFlagsOK ==
  /\ stalled \in BOOLEAN /\ swUp \in BOOLEAN /\ rehello \in BOOLEAN
  /\ replayed \in BOOLEAN /\ overlapped \in BOOLEAN /\ raced \in BOOLEAN /\ slotChanged \in BOOLEAN
  /\ checkedTooLong \in BOOLEAN /\ abandoned \in BOOLEAN /\ mistaken \in BOOLEAN
BridgeOK ==
  /\ hist \in [Slots -> Seq(Items)] /\ apSlot \in Slots \cup {NoSlot} /\ slot \in Slots \cup {NoSlot}
  /\ received_items \in Seq(Items) /\ captures_unlocked \subseteq Captures
  /\ captures_received_count \in [Captures -> Nat] /\ abilities_received \in Tables
  /\ mm_bonus_captures \in Seq(Captures)
  /\ connects \in 0 .. MaxConnects /\ faults \in 0 .. MaxFaults
TasksOK == net \in Seq(Packages) /\ cur \in Seq(Tasks) /\ Len(cur) <= 1 /\ waiting \in Seq(Tasks)
SwitchOK ==
  /\ reg \in {"none", "dead", "live"} /\ wire \in Seq(Lines)
  /\ unlocked \subseteq Captures /\ abilities \in Tables

\* The task t is under way.
UnderWay(t) == (\E k \in DOMAIN cur : cur[k] = t) \/ (\E k \in DOMAIN waiting : waiting[k] = t)

\* Login is under way, in the socket or as a task that has yet to run.
LoggingIn ==
  \/ net # <<>> /\ net[1].cmd = "Connected"
  \/ cur # <<>> /\ cur[1].pc = "start"

\* Where the k-th package in the socket starts, or the next one will.
Start(k) == IF k <= Len(net) THEN net[k].index ELSE Len(hist[apSlot])

\* The packages in the socket are those of one login: Connected, then the history piece
\* by piece.
PieceOK(k) ==
  /\ net[k].slot = apSlot
  /\ net[k].cmd = "Connected" => k = 1 /\ net[k].index = 0 /\ net[k].items = <<>>
  /\ net[k].index + Len(net[k].items) = Start(k + 1)
  /\ net[k].index + Len(net[k].items) <= Len(hist[apSlot])
  /\ \A j \in DOMAIN net[k].items : net[k].items[j] = hist[apSlot][net[k].index + j]
NetInv == (net # <<>> => apSlot # NoSlot) /\ \A k \in DOMAIN net : PieceOK(k)

\* What a task may look like at each place it can be.
TaskOK(t) ==
  IF t.pc \in {"start", "bonus"}
  THEN t.cmd = "Connected" /\ t.index = 0 /\ t.items = <<>> /\ t.i = 1 /\ ~t.ability
  ELSE t.cmd = "ReceivedItems" /\ (t.pc = "sent" => t.i \in DOMAIN t.items)

TaskInv ==
  /\ \A t : UnderWay(t) => TaskOK(t)
  /\ \A k \in DOMAIN waiting : waiting[k].pc # "start"
  /\ cur # <<>> /\ cur[1].pc = "start" =>
       cur[1].slot = apSlot /\ apSlot # NoSlot /\ Start(1) = 0 /\ (net # <<>> => net[1].cmd # "Connected")
  /\ ~LoggingIn => slot = apSlot
  /\ slot = NoSlot => waiting = <<>> /\ (cur # <<>> => cur[1].pc = "start")

\* The positions of the slot's history that the task t has yet to mirror.
Left(t) ==
  {p \in Nat : /\ p > t.mirrorLen /\ p <= t.index + Len(t.items)
               /\ p > t.index + t.i - (IF t.pc = "sent" THEN 0 ELSE 1)}
LeftAll == {p \in Nat : \E t : UnderWay(t) /\ p \in Left(t)}

\* The first d positions of the history are mirrored, but for those the tasks under way
\* have yet to mirror.
Mirrored(d) ==
  /\ LeftAll \subseteq 1 .. d
  /\ Len(received_items) = Cardinality((1 .. d) \ LeftAll)
  /\ \A it \in Items :
       Count(received_items, it) = Cardinality({p \in (1 .. d) \ LeftAll : hist[slot][p] = it})

\* The next package goes on from there, or is the history from its start.
GoesOn(d) ==
  /\ ~LoggingIn => Start(1) \in {0, d} /\ (net = <<>> => d = Len(hist[slot]))
  /\ slot = apSlot =>
       \A k \in DOMAIN net :
         k <= 2 /\ net[k].cmd = "ReceivedItems" /\ net[k].index = 0 => d <= Len(net[k].items)

\* The batch of t is a piece of the history of the slot.
OfSlot(t) ==
  /\ t.slot = slot
  /\ t.index + Len(t.items) <= Len(hist[slot])
  /\ \A j \in DOMAIN t.items : t.items[j] = hist[slot][t.index + j]

\* No two tasks have the same position yet to mirror.
Apart ==
  \A k \in DOMAIN waiting :
    /\ \A l \in DOMAIN waiting \ {k} : Left(waiting[k]) \cap Left(waiting[l]) = {}
    /\ \A l \in DOMAIN cur : Left(waiting[k]) \cap Left(cur[l]) = {}

\* Of the tasks under way when none met a login.
ApartInv ==
  /\ cur # <<>> /\ cur[1].pc = "start" => waiting = <<>>
  /\ \A t : UnderWay(t) /\ t.cmd = "ReceivedItems" => OfSlot(t)
  /\ Apart

\* A login that met no suspended task runs alone.
LoginAlone == ~raced => (cur # <<>> /\ cur[1].pc = "start" => waiting = <<>>)

MirrorInv ==
  ~raced /\ ~mistaken =>
    /\ ApartInv
    /\ slot = NoSlot => received_items = <<>>
    /\ slot # NoSlot => \E d \in 0 .. Len(hist[slot]) : Mirrored(d) /\ GoesOn(d)

\* The bonus captures of the Multi-Moon that t mirrored are still to be granted.
Owes(t) == t.pc = "sent" /\ t.items[t.i] = MultiMoon
Owed == IF \E t : UnderWay(t) /\ Owes(t) THEN 1 ELSE 0

\* How many of the picks of n Multi-Moons are the capture c.
Picks(picks, n, c) == Cardinality({j \in DOMAIN picks : j <= Chunk * n /\ picks[j] = c})

\* Nothing overlapped: one task at a time.
OneTask == waiting = <<>> \/ (cur = <<>> /\ Len(waiting) = 1)

\* The counts of a slot that was never left.
BonusCounts ==
  /\ Owed <= Count(received_items, MultiMoon)
  /\ \A t : UnderWay(t) /\ t.pc = "bonus" => t.slot = slot
  /\ (\A t : UnderWay(t) => t.pc # "bonus") => mm_bonus_captures = BonusOf[slot]
  /\ \A c \in Captures :
       captures_received_count[c] = Count(received_items, c)
         + Picks(BonusOf[slot], Count(received_items, MultiMoon) - Owed, c)

BonusInv ==
  ~overlapped =>
    /\ OneTask
    /\ ~slotChanged =>
         /\ slot = NoSlot => /\ received_items = <<>>
                             /\ \A c \in Captures : captures_received_count[c] = 0
         /\ slot # NoSlot => BonusCounts

\* The last table on its way to the Switch, or in it, is that of the client.
TableComes ==
  \/ \E k \in DOMAIN wire : /\ wire[k] = AbilityLine(abilities_received)
                            /\ \A l \in DOMAIN wire : l > k => wire[l].t = "item"
  \/ abilities = abilities_received /\ \A k \in DOMAIN wire : wire[k].t = "item"

\* The capture c is unlocked in the game, or on its way there.
CaptureComes(c) == c \in unlocked \/ \E l \in DOMAIN wire : wire[l] = ItemLine(c)
CapturesCome ==
  \A k \in DOMAIN received_items :
    received_items[k] \in Captures => CaptureComes(received_items[k])

\* No task under way has a table to push.
NonePending == \A t : UnderWay(t) => ~t.ability

SyncInv ==
  /\ swUp <=> reg = "live"
  /\ swUp /\ replayed /\ ~rehello => CapturesCome
  /\ swUp /\ replayed /\ abilities_received # NoAbilities /\ NonePending => TableComes


(***************************************************************************)
(* Counting.                                                               *)
(***************************************************************************)

\* A non-empty set of numbers has a least one.
LEMMA LeastNat ==
  ASSUME NEW T, T \subseteq Nat, T # {}
  PROVE  \E n \in T : \A m \in T : n <= m
<1> DEFINE R == OpToRel(<, Nat)
<1>1. IsWellFoundedOn(R, Nat)
  BY NatLessThanWellFounded
<1>2. \A x, y \in Nat : <<y, x>> \in R <=> y < x
  BY DEF OpToRel
<1>3. \E x \in T : \A y \in T : ~(<<y, x>> \in R)
  <2> HIDE DEF R
  <2> QED
    BY <1>1, WFMin
<1> HIDE DEF R
<1>4. \A x, y \in Nat : ~(y < x) => x <= y
  OBVIOUS
<1>5. PICK n \in T : \A y \in T : ~(<<y, n>> \in R)
  BY <1>3
<1>6. ASSUME NEW m \in T
      PROVE  n <= m
  BY <1>2, <1>4, <1>5
<1> QED
  BY <1>6

\* Numbers up to a bound, and what is left of them, can be counted.
LEMMA Counted ==
  ASSUME NEW d \in Nat, NEW T, T \subseteq 1 .. d
  PROVE  IsFiniteSet(T) /\ Cardinality(T) \in Nat /\ Cardinality(T) <= d
<1>1. IsFiniteSet(1 .. d) /\ Cardinality(1 .. d) = d
  BY FS_Interval
<1>2. IsFiniteSet(T) /\ Cardinality(T) <= Cardinality(1 .. d)
  BY <1>1, FS_Subset
<1> QED
  BY <1>1, <1>2, FS_CardinalityType

\* One more.
LEMMA OneMore ==
  ASSUME NEW d \in Nat, NEW T, T \subseteq 1 .. d, NEW p, p \notin T
  PROVE  Cardinality(T \cup {p}) = Cardinality(T) + 1
BY Counted, FS_AddElement

\* How often an item is in a sequence, and in one with another item.
LEMMA CountFacts ==
  ASSUME NEW S, NEW s \in Seq(S), NEW it
  PROVE  /\ Count(s, it) \in Nat /\ Count(s, it) <= Len(s)
         /\ Count(<<>>, it) = 0
         /\ \A e \in S : Count(Append(s, e), it) = Count(s, it) + (IF e = it THEN 1 ELSE 0)
<1> DEFINE At(q) == {i \in DOMAIN q : q[i] = it}
<1>1. At(s) \subseteq 1 .. Len(s) /\ Len(s) \in Nat
  OBVIOUS
<1>2. Count(s, it) \in Nat /\ Count(s, it) <= Len(s)
  BY <1>1, Counted DEF Count
<1>3. Count(<<>>, it) = 0
  <2>1. At(<<>>) = {}
    OBVIOUS
  <2> QED
    BY <2>1, FS_EmptySet DEF Count
<1>4. ASSUME NEW e \in S
      PROVE  Count(Append(s, e), it) = Count(s, it) + (IF e = it THEN 1 ELSE 0)
  <2>1. /\ DOMAIN Append(s, e) = DOMAIN s \cup {Len(s) + 1}
        /\ Append(s, e)[Len(s) + 1] = e
        /\ \A i \in DOMAIN s : Append(s, e)[i] = s[i]
        /\ Len(s) + 1 \notin DOMAIN s
    OBVIOUS
  <2>2. CASE e = it
    <3>1. At(Append(s, e)) = At(s) \cup {Len(s) + 1} /\ Len(s) + 1 \notin At(s)
      BY <2>1, <2>2
    <3> HIDE DEF At
    <3>2. Cardinality(At(Append(s, e))) = Cardinality(At(s)) + 1
      BY <1>1, <3>1, OneMore
    <3> QED
      BY <2>2, <3>2 DEF Count, At
  <2>3. CASE e # it
    <3>1. At(Append(s, e)) = At(s)
      BY <2>1, <2>3
    <3>2. Count(Append(s, e), it) = Count(s, it)
      BY <3>1 DEF Count
    <3> QED
      BY <1>2, <2>3, <3>2
  <2> QED
    BY <2>2, <2>3
<1> QED
  BY <1>2, <1>3, <1>4

(***************************************************************************)
(* Packages and tasks.                                                     *)
(***************************************************************************)

TypeInv == MirrorFlagsOK /\ BridgeOK /\ TasksOK /\ SwitchOK

\* u is t at another place.
SameBatch(t, u) ==
  /\ u.cmd = t.cmd /\ u.slot = t.slot /\ u.index = t.index /\ u.items = t.items
  /\ u.mirrorLen = t.mirrorLen

\* The running task goes on as u, at once or when it is its turn again.
StepsTo(u) == cur # <<>> /\ u \in Tasks /\ SameBatch(cur[1], u) /\ (Goes(u) \/ Await(u))

\* The fields of a task, and the places it goes to.
LEMMA TaskFields ==
  ASSUME NEW t \in Tasks
  PROVE  /\ t.cmd \in {"Connected", "ReceivedItems"} /\ t.slot \in Slots /\ t.index \in Nat
         /\ t.items \in Seq(Items) /\ t.pc \in {"start", "bonus", "item", "sent"}
         /\ t.i \in Nat \ {0} /\ t.mirrorLen \in Nat /\ t.ability \in BOOLEAN
BY DEF Tasks

Pcs == {"start", "bonus", "item", "sent"}

\* A task made of t, at a place of its own.
At(t, p, i, a) == [cmd |-> t.cmd, slot |-> t.slot, index |-> t.index, items |-> t.items,
                   pc |-> p, i |-> i, mirrorLen |-> t.mirrorLen, ability |-> a]

\* u is t at that place.
Placed(u, t, p, i) == u \in Tasks /\ SameBatch(t, u) /\ u.pc = p /\ u.i = i

LEMMA TaskAt ==
  ASSUME NEW t \in Tasks, NEW p \in Pcs, NEW i \in Nat \ {0}
  PROVE  /\ Placed(At(t, p, i, t.ability), t, p, i) /\ Placed(At(t, p, i, TRUE), t, p, i)
         /\ At(t, p, i, t.ability).ability = t.ability /\ At(t, p, i, TRUE).ability = TRUE
<1>1. At(t, p, i, t.ability) \in Tasks /\ At(t, p, i, TRUE) \in Tasks
  BY TaskFields DEF At, Tasks, Pcs
<1>2. Placed(At(t, p, i, t.ability), t, p, i) /\ Placed(At(t, p, i, TRUE), t, p, i)
  BY <1>1 DEF At, SameBatch, Placed
<1>3. At(t, p, i, t.ability).ability = t.ability /\ At(t, p, i, TRUE).ability = TRUE
  BY DEF At
<1> QED
  BY <1>2, <1>3

LEMMA TaskPlaces ==
  ASSUME NEW t \in Tasks
  PROVE  /\ LET u == [t EXCEPT !.pc = "bonus"]
            IN Placed(u, t, "bonus", t.i) /\ u.ability = t.ability
         /\ LET u == [t EXCEPT !.i = @ + 1]
            IN Placed(u, t, t.pc, t.i + 1) /\ u.ability = t.ability
         /\ LET u == [t EXCEPT !.i = @ + 1, !.ability = TRUE]
            IN Placed(u, t, t.pc, t.i + 1) /\ u.ability = TRUE
         /\ LET u == [t EXCEPT !.pc = "sent"]
            IN Placed(u, t, "sent", t.i) /\ u.ability = t.ability
         /\ LET u == [t EXCEPT !.pc = "item", !.i = @ + 1]
            IN Placed(u, t, "item", t.i + 1) /\ u.ability = t.ability
<1>1. t = [cmd |-> t.cmd, slot |-> t.slot, index |-> t.index, items |-> t.items, pc |-> t.pc,
           i |-> t.i, mirrorLen |-> t.mirrorLen, ability |-> t.ability]
  BY DEF Tasks
<1>2. /\ {t.pc, "bonus", "item", "sent"} \subseteq Pcs
      /\ t.i \in Nat \ {0} /\ t.i + 1 \in Nat \ {0} /\ t.ability \in BOOLEAN /\ TRUE \in BOOLEAN
  BY TaskFields DEF Pcs
<1>3. [t EXCEPT !.pc = "bonus"] = At(t, "bonus", t.i, t.ability)
  BY <1>1 DEF At
<1>4. [t EXCEPT !.i = @ + 1] = At(t, t.pc, t.i + 1, t.ability)
  BY <1>1 DEF At
<1>5. [t EXCEPT !.i = @ + 1, !.ability = TRUE] = At(t, t.pc, t.i + 1, TRUE)
  <2>1. [t EXCEPT !.i = @ + 1, !.ability = TRUE] = [[t EXCEPT !.i = @ + 1] EXCEPT !.ability = TRUE]
    OBVIOUS
  <2>2. ASSUME NEW a
        PROVE  [At(t, t.pc, t.i + 1, t.ability) EXCEPT !.ability = a] = At(t, t.pc, t.i + 1, a)
    BY DEF At
  <2> QED
    BY <1>4, <2>1, <2>2
<1>6. [t EXCEPT !.pc = "sent"] = At(t, "sent", t.i, t.ability)
  BY <1>1 DEF At
<1>7. [t EXCEPT !.pc = "item", !.i = @ + 1] = At(t, "item", t.i + 1, t.ability)
  <2>1. [t EXCEPT !.pc = "item", !.i = @ + 1] = [[t EXCEPT !.i = @ + 1] EXCEPT !.pc = "item"]
    OBVIOUS
  <2>2. [At(t, t.pc, t.i + 1, t.ability) EXCEPT !.pc = "item"] = At(t, "item", t.i + 1, t.ability)
    BY DEF At
  <2> QED
    BY <1>4, <2>1, <2>2
<1>8. LET u == [t EXCEPT !.pc = "bonus"]
      IN Placed(u, t, "bonus", t.i) /\ u.ability = t.ability
  <2> DEFINE v == [t EXCEPT !.pc = "bonus"]
  <2>1. v = At(t, "bonus", t.i, t.ability)
    BY <1>3
  <2> HIDE DEF v
  <2>2. Placed(v, t, "bonus", t.i) /\ v.ability = t.ability
    BY <1>2, <2>1, TaskAt
  <2> QED
    BY <2>2, Zenon DEF v
<1>9. LET u == [t EXCEPT !.i = @ + 1]
      IN Placed(u, t, t.pc, t.i + 1) /\ u.ability = t.ability
  <2> DEFINE v == [t EXCEPT !.i = @ + 1]
  <2>1. v = At(t, t.pc, t.i + 1, t.ability)
    BY <1>4
  <2> HIDE DEF v
  <2>2. Placed(v, t, t.pc, t.i + 1) /\ v.ability = t.ability
    BY <1>2, <2>1, TaskAt
  <2> QED
    BY <2>2, Zenon DEF v
<1>10. LET u == [t EXCEPT !.i = @ + 1, !.ability = TRUE]
      IN Placed(u, t, t.pc, t.i + 1) /\ u.ability = TRUE
  <2> DEFINE v == [t EXCEPT !.i = @ + 1, !.ability = TRUE]
  <2>1. v = At(t, t.pc, t.i + 1, TRUE)
    BY <1>5
  <2> HIDE DEF v
  <2>2. Placed(v, t, t.pc, t.i + 1) /\ v.ability = TRUE
    BY <1>2, <2>1, TaskAt
  <2> QED
    BY <2>2, Zenon DEF v
<1>11. LET u == [t EXCEPT !.pc = "sent"]
      IN Placed(u, t, "sent", t.i) /\ u.ability = t.ability
  <2> DEFINE v == [t EXCEPT !.pc = "sent"]
  <2>1. v = At(t, "sent", t.i, t.ability)
    BY <1>6
  <2> HIDE DEF v
  <2>2. Placed(v, t, "sent", t.i) /\ v.ability = t.ability
    BY <1>2, <2>1, TaskAt
  <2> QED
    BY <2>2, Zenon DEF v
<1>12. LET u == [t EXCEPT !.pc = "item", !.i = @ + 1]
      IN Placed(u, t, "item", t.i + 1) /\ u.ability = t.ability
  <2> DEFINE v == [t EXCEPT !.pc = "item", !.i = @ + 1]
  <2>1. v = At(t, "item", t.i + 1, t.ability)
    BY <1>7
  <2> HIDE DEF v
  <2>2. Placed(v, t, "item", t.i + 1) /\ v.ability = t.ability
    BY <1>2, <2>1, TaskAt
  <2> QED
    BY <2>2, Zenon DEF v
<1> QED
  BY <1>8, <1>9, <1>10, <1>11, <1>12

\* The task of a package.
LEMMA TaskOf ==
  ASSUME NEW p \in Packages, received_items \in Seq(Items)
  PROVE  /\ p.cmd \in {"Connected", "ReceivedItems"} /\ p.slot \in Slots /\ p.index \in Nat
         /\ p.items \in Seq(Items)
         /\ Task(p) \in Tasks
         /\ Task(p).cmd = p.cmd /\ Task(p).slot = p.slot /\ Task(p).index = p.index
         /\ Task(p).items = p.items /\ Task(p).mirrorLen = Len(received_items)
         /\ Task(p).i = 1 /\ ~Task(p).ability
         /\ Task(p).pc = (IF p.cmd = "Connected" THEN "start" ELSE "item")
<1>1. /\ p.cmd \in {"Connected", "ReceivedItems"} /\ p.slot \in Slots /\ p.index \in Nat
      /\ p.items \in Seq(Items)
  BY DEF Packages
<1>2. Len(received_items) \in Nat
  OBVIOUS
<1> QED
  BY <1>1, <1>2 DEF Task, Tasks

\* The packages the server sends.
LEMMA Sent ==
  ASSUME NEW s \in Slots, NEW i \in Nat, NEW its \in Seq(Items)
  PROVE  /\ Connected(s) \in Packages /\ Connected(s).cmd = "Connected" /\ Connected(s).slot = s
         /\ Connected(s).index = 0 /\ Connected(s).items = <<>>
         /\ ReceivedItems(s, i, its) \in Packages
         /\ ReceivedItems(s, i, its).cmd = "ReceivedItems" /\ ReceivedItems(s, i, its).slot = s
         /\ ReceivedItems(s, i, its).index = i /\ ReceivedItems(s, i, its).items = its
<1>1. <<>> \in Seq(Items)
  OBVIOUS
<1> QED
  BY <1>1 DEF Connected, ReceivedItems, Packages

\* A sequence of at most one element.
LEMMA AtMostOne ==
  ASSUME NEW S, NEW s \in Seq(S), Len(s) <= 1, s # <<>>
  PROVE  Len(s) = 1 /\ DOMAIN s = {1} /\ s[1] \in S
<1>1. Len(s) \in Nat /\ Len(s) # 0
  OBVIOUS
<1>2. Len(s) = 1
  BY <1>1
<1>3. DOMAIN s = 1 .. Len(s) /\ \A k \in 1 .. Len(s) : s[k] \in S
  OBVIOUS
<1> QED
  BY <1>2, <1>3

\* What may run or wait after a task went on, gave way or was done.
LEMMA TasksTyped ==
  ASSUME TasksOK
  PROVE  /\ cur # <<>> => cur[1] \in Tasks /\ DOMAIN cur = {1}
         /\ \A k \in DOMAIN waiting : waiting[k] \in Tasks
         /\ \A t \in Tasks : Goes(t) \/ Await(t) => (TasksOK' <=> net' \in Seq(Packages))
         /\ Finishes => (TasksOK' <=> net' \in Seq(Packages))
<1>1. cur \in Seq(Tasks) /\ Len(cur) <= 1 /\ waiting \in Seq(Tasks)
  BY DEF TasksOK
<1>2. cur # <<>> => cur[1] \in Tasks /\ DOMAIN cur = {1}
  BY <1>1, AtMostOne
<1>3. \A k \in DOMAIN waiting : waiting[k] \in Tasks
  BY <1>1
<1>4. ASSUME NEW t \in Tasks, Goes(t) \/ Await(t)
      PROVE  cur' \in Seq(Tasks) /\ Len(cur') <= 1 /\ waiting' \in Seq(Tasks)
  <2>1. /\ <<t>> \in Seq(Tasks) /\ Len(<<t>>) = 1 /\ <<>> \in Seq(Tasks) /\ Len(<<>>) = 0
        /\ Append(waiting, t) \in Seq(Tasks)
    BY <1>1
  <2>2. CASE Goes(t)
    BY <1>1, <2>1, <2>2 DEF Goes
  <2>3. CASE Await(t)
    <3>1. CASE cur' = <<>> /\ waiting' = Append(waiting, t)
      BY <1>1, <2>1, <3>1
    <3>2. CASE cur' = <<t>> /\ waiting' = waiting
      BY <1>1, <2>1, <3>2
    <3> QED
      BY <2>3, <3>1, <3>2 DEF Await
  <2> QED
    BY <1>4, <2>2, <2>3
<1>5. Finishes => cur' \in Seq(Tasks) /\ Len(cur') <= 1 /\ waiting' \in Seq(Tasks)
  <2>1. <<>> \in Seq(Tasks) /\ Len(<<>>) = 0
    OBVIOUS
  <2> QED
    BY <1>1, <2>1 DEF Finishes
<1> QED
  BY <1>2, <1>3, <1>4, <1>5 DEF TasksOK

(***************************************************************************)
(* The lines to the Switch.                                                *)
(***************************************************************************)

LEMMA LineTyped ==
  /\ \A c \in Captures : /\ ItemLine(c) \in Lines /\ ItemLine(c).t = "item"
                         /\ ItemLine(c).cap = c
  /\ \A a \in Tables : /\ AbilityLine(a) \in Lines /\ AbilityLine(a).t = "ability_state"
                       /\ AbilityLine(a).counts = a
  /\ \A l \in Lines : IF l.t = "item" THEN l.cap \in Captures
                      ELSE l.t = "ability_state" /\ l.counts \in Tables
BY DEF ItemLine, AbilityLine, Lines

\* g builds the lines of the first n items, one after the other.
Builds(g, its, n) ==
  g = [k \in 0 .. n |-> IF k = 0 THEN <<>>
                        ELSE IF its[k] \in Captures THEN Append(g[k - 1], ItemLine(its[k]))
                        ELSE g[k - 1]]

LEMMA Buildable ==
  ASSUME NEW its \in Seq(Items)
  PROVE  \E g : Builds(g, its, Len(its))
<1> DEFINE T == {n \in Nat : ~\E g : Builds(g, its, n)}
<1>1. SUFFICES ASSUME Len(its) \in T
               PROVE  FALSE
  <2>1. Len(its) \in Nat
    OBVIOUS
  <2> QED
    BY <2>1, Zenon
<1>2. PICK n \in T : \A m \in T : n <= m
  <2> HIDE DEF T
  <2>1. T \subseteq Nat
    BY DEF T
  <2> QED
    BY <1>1, <2>1, LeastNat
<1>3. n \in Nat /\ ~\E g : Builds(g, its, n)
  OBVIOUS
<1>4. CASE n = 0
  <2>1. Builds([k \in 0 .. 0 |-> <<>>], its, 0)
    BY DEF Builds
  <2> QED
    BY <1>3, <1>4, <2>1
<1>5. CASE n # 0
  <2>1. n - 1 \in Nat /\ n - 1 \notin T
    BY <1>2, <1>3, <1>5
  <2>2. PICK g : Builds(g, its, n - 1)
    BY <2>1
  <2> DEFINE step == IF its[n] \in Captures THEN Append(g[n - 1], ItemLine(its[n]))
                     ELSE g[n - 1]
             h == [k \in 0 .. n |-> IF k = n THEN step ELSE g[k]]
  <2>3. \A k \in 0 .. n : h[k] = (IF k = n THEN step ELSE g[k])
    OBVIOUS
  <2>4. \A k \in 0 .. (n - 1) :
          g[k] = (IF k = 0 THEN <<>>
                  ELSE IF its[k] \in Captures THEN Append(g[k - 1], ItemLine(its[k]))
                  ELSE g[k - 1])
    BY <2>2, Zenon DEF Builds
  <2> HIDE DEF h
  <2>5. \A k \in 0 .. n :
          h[k] = (IF k = 0 THEN <<>>
                  ELSE IF its[k] \in Captures THEN Append(h[k - 1], ItemLine(its[k]))
                  ELSE h[k - 1])
    <3>1. TAKE k \in 0 .. n
    <3>2. CASE k = 0
      BY <1>3, <1>5, <2>3, <2>4, <3>2
    <3>3. CASE k # 0
      <4>1. k - 1 \in 0 .. (n - 1) /\ k - 1 \in 0 .. n /\ k - 1 # n /\ h[k - 1] = g[k - 1]
        BY <1>3, <2>3, <3>3
      <4>2. CASE k = n
        BY <1>3, <2>3, <3>3, <4>1, <4>2
      <4>3. CASE k # n
        <5>1. k \in 0 .. (n - 1)
          BY <1>3, <4>3
        <5> QED
          BY <2>3, <2>4, <3>3, <4>1, <4>3, <5>1
      <4> QED
        BY <4>2, <4>3
    <3> QED
      BY <3>2, <3>3
  <2>6. Builds(h, its, n)
    <3>1. h = [k \in 0 .. n |-> h[k]]
      BY DEF h
    <3> QED
      BY <2>5, <3>1, Zenon DEF Builds
  <2> QED
    BY <1>3, <2>6
<1> QED
  BY <1>4, <1>5

\* The replay has a line for every capture, and nothing else.
LEMMA ItemLinesFacts ==
  ASSUME NEW its \in Seq(Items)
  PROVE  /\ ItemLines(its) \in Seq(Lines)
         /\ \A l \in DOMAIN ItemLines(its) : ItemLines(its)[l].t = "item"
         /\ \A k \in DOMAIN its : its[k] \in Captures =>
              \E l \in DOMAIN ItemLines(its) : ItemLines(its)[l] = ItemLine(its[k])
<1> DEFINE g == CHOOSE f : Builds(f, its, Len(its))
<1>1. Builds(g, its, Len(its))
  BY Buildable, Zenon
<1>2. ItemLines(its) = g[Len(its)]
  BY Zenon DEF ItemLines, Builds
<1> HIDE DEF g
<1>3. \A k \in 0 .. Len(its) :
          g[k] = (IF k = 0 THEN <<>>
                  ELSE IF its[k] \in Captures THEN Append(g[k - 1], ItemLine(its[k]))
                  ELSE g[k - 1])
  BY <1>1, Zenon DEF Builds
<1> DEFINE Good(n) == /\ g[n] \in Seq(Lines)
                      /\ \A l \in DOMAIN g[n] : g[n][l].t = "item"
                      /\ \A k \in 1 .. n : its[k] \in Captures =>
                           \E l \in DOMAIN g[n] : g[n][l] = ItemLine(its[k])
           T == {n \in 0 .. Len(its) : ~Good(n)}
<1>4. SUFFICES ASSUME T # {}
               PROVE  FALSE
  <2>1. Len(its) \in 0 .. Len(its) /\ DOMAIN its = 1 .. Len(its)
    OBVIOUS
  <2>2. Good(Len(its))
    BY <1>4, <2>1, Zenon
  <2> QED
    BY <1>2, <2>1, <2>2, Zenon
<1>5. PICK n \in T : \A m \in T : n <= m
  <2> HIDE DEF T
  <2>1. T \subseteq Nat
    BY DEF T
  <2> QED
    BY <1>4, <2>1, LeastNat
<1>6. n \in 0 .. Len(its) /\ ~Good(n)
  OBVIOUS
<1>7. CASE n = 0
  <2>1. g[0] = <<>>
    BY <1>3, <1>6, <1>7
  <2> QED
    BY <1>6, <1>7, <2>1
<1>8. CASE n # 0
  <2>1. n - 1 \in 0 .. Len(its) /\ n - 1 \notin T
    BY <1>5, <1>6, <1>8
  <2>2. Good(n - 1)
    BY <2>1, Zenon
  <2>3. g[n] = (IF its[n] \in Captures THEN Append(g[n - 1], ItemLine(its[n])) ELSE g[n - 1])
    BY <1>3, <1>6, <1>8
  <2> DEFINE q == g[n - 1]
  <2>4. q \in Seq(Lines) /\ \A l \in DOMAIN q : q[l].t = "item"
    BY <2>2
  <2>5. \A k \in 1 .. (n - 1) : its[k] \in Captures =>
          \E l \in DOMAIN q : q[l] = ItemLine(its[k])
    BY <2>2
  <2>6. \A k \in 1 .. n : k # n => k \in 1 .. (n - 1)
    BY <1>6
  <2> HIDE DEF q, Good
  <2>7. CASE its[n] \in Captures
    <3> DEFINE e == ItemLine(its[n])
    <3>1. e \in Lines /\ e.t = "item"
      BY <2>7, LineTyped
    <3>2. g[n] = Append(q, e)
      BY <2>3, <2>7 DEF q
    <3> HIDE DEF e
    <3>3. /\ Append(q, e) \in Seq(Lines)
          /\ DOMAIN Append(q, e) = DOMAIN q \cup {Len(q) + 1}
          /\ Append(q, e)[Len(q) + 1] = e
          /\ \A l \in DOMAIN q : Append(q, e)[l] = q[l]
      BY <2>4, <3>1
    <3>4. \A l \in DOMAIN g[n] : g[n][l].t = "item"
      BY <2>4, <3>1, <3>2, <3>3
    <3>5. ASSUME NEW k \in 1 .. n, its[k] \in Captures
          PROVE  \E l \in DOMAIN g[n] : g[n][l] = ItemLine(its[k])
      <4>1. CASE k = n
        BY <3>2, <3>3, <4>1 DEF e
      <4>2. CASE k # n
        BY <2>5, <2>6, <3>2, <3>3, <3>5, <4>2
      <4> QED
        BY <4>1, <4>2
    <3>6. Good(n)
      BY <3>2, <3>3, <3>4, <3>5 DEF Good
    <3> QED
      BY <1>6, <3>6
  <2>8. CASE its[n] \notin Captures
    <3>1. g[n] = q
      BY <2>3, <2>8 DEF q
    <3>2. Good(n)
      BY <2>4, <2>5, <2>6, <2>8, <3>1 DEF Good
    <3> QED
      BY <1>6, <3>2
  <2> QED
    BY <2>7, <2>8
<1> QED
  BY <1>7, <1>8

(***************************************************************************)
(* The steps of a task.                                                    *)
(***************************************************************************)

LEMMA ConnectedStep ==
  TypeInv /\ HandleConnected =>
    \E u : StepsTo(u) /\ u.pc = "bonus" /\ u.i = cur[1].i /\ u.ability = cur[1].ability
<1> SUFFICES ASSUME TypeInv, HandleConnected
             PROVE  \E u : /\ StepsTo(u) /\ u.pc = "bonus" /\ u.i = cur[1].i
                           /\ u.ability = cur[1].ability
  OBVIOUS
<1> DEFINE u == [cur[1] EXCEPT !.pc = "bonus"]
<1>1. cur # <<>> /\ Await(u)
  BY Zenon DEF HandleConnected
<1>2. cur[1] \in Tasks
  BY <1>1, TasksTyped DEF TypeInv
<1>3. Placed(u, cur[1], "bonus", cur[1].i) /\ u.ability = cur[1].ability
  BY <1>2, TaskPlaces, Zenon
<1> HIDE DEF u
<1> QED
  BY <1>1, <1>3 DEF StepsTo, Placed

\* An item that was mirrored earlier, and one that was not.
Skips(t, u) ==
  /\ AlreadyMirrored(t) /\ u.pc = "item" /\ u.i = t.i + 1 /\ u.ability = t.ability
  /\ UNCHANGED <<received_items, countVars, wire>>
Mirrors(t, u) ==
  /\ ~AlreadyMirrored(t) /\ add_received_item(t.items[t.i])
  /\ \/ /\ t.items[t.i] \in Abilities /\ u.pc = "item" /\ u.i = t.i + 1 /\ u.ability = TRUE
        /\ UNCHANGED wire
     \/ /\ t.items[t.i] \notin Abilities /\ u.pc = "sent" /\ u.i = t.i /\ u.ability = t.ability
        /\ SendLines(IF t.items[t.i] \in Captures THEN <<ItemLine(t.items[t.i])>> ELSE <<>>)

LEMMA ProcessStep ==
  TypeInv /\ ProcessItem =>
    /\ cur[1].pc = "item" /\ cur[1].i \in DOMAIN cur[1].items /\ cur[1].items[cur[1].i] \in Items
    /\ \E u : StepsTo(u) /\ (Skips(cur[1], u) \/ Mirrors(cur[1], u))
<1> SUFFICES ASSUME TypeInv, ProcessItem
             PROVE  /\ cur[1].pc = "item" /\ cur[1].i \in DOMAIN cur[1].items
                    /\ cur[1].items[cur[1].i] \in Items
                    /\ \E u : StepsTo(u) /\ (Skips(cur[1], u) \/ Mirrors(cur[1], u))
  OBVIOUS
<1> DEFINE t == cur[1]
           it == t.items[t.i]
           next == [t EXCEPT !.i = @ + 1]
           abil == [t EXCEPT !.i = @ + 1, !.ability = TRUE]
           sent == [t EXCEPT !.pc = "sent"]
<1>1. /\ cur # <<>> /\ t.pc = "item" /\ t.i <= Len(t.items)
      /\ \/ AlreadyMirrored(t) /\ Goes(next) /\ UNCHANGED <<received_items, countVars, wire>>
         \/ /\ ~AlreadyMirrored(t) /\ add_received_item(it)
            /\ \/ it \in Abilities /\ Goes(abil) /\ UNCHANGED wire
               \/ /\ it \notin Abilities /\ Await(sent)
                  /\ SendLines(IF it \in Captures THEN <<ItemLine(it)>> ELSE <<>>)
  BY Zenon DEF ProcessItem
<1>2. t \in Tasks
  BY <1>1, TasksTyped DEF TypeInv
<1>3. /\ Placed(next, t, t.pc, t.i + 1) /\ next.ability = t.ability
      /\ Placed(abil, t, t.pc, t.i + 1) /\ abil.ability = TRUE
      /\ Placed(sent, t, "sent", t.i) /\ sent.ability = t.ability
  BY <1>2, TaskPlaces, Zenon
<1>4. t.items \in Seq(Items) /\ t.i \in Nat \ {0}
  BY <1>2, TaskFields
<1>5. t.i \in DOMAIN t.items /\ it \in Items
  BY <1>1, <1>4
<1> HIDE DEF next, abil, sent, it
<1>6. \E u : StepsTo(u) /\ (Skips(t, u) \/ Mirrors(t, u))
  <2>1. CASE AlreadyMirrored(t) /\ Goes(next) /\ UNCHANGED <<received_items, countVars, wire>>
    <3>1. StepsTo(next) /\ Skips(t, next)
      BY <1>1, <1>3, <2>1, Zenon DEF StepsTo, Placed, Skips
    <3> QED
      BY <3>1
  <2>2. CASE /\ ~AlreadyMirrored(t) /\ add_received_item(it)
             /\ it \in Abilities /\ Goes(abil) /\ UNCHANGED wire
    <3>1. StepsTo(abil) /\ Mirrors(t, abil)
      BY <1>1, <1>3, <2>2, Zenon DEF StepsTo, Placed, Mirrors, it
    <3> QED
      BY <3>1
  <2>3. CASE /\ ~AlreadyMirrored(t) /\ add_received_item(it)
             /\ it \notin Abilities /\ Await(sent)
             /\ SendLines(IF it \in Captures THEN <<ItemLine(it)>> ELSE <<>>)
    <3>1. StepsTo(sent) /\ Mirrors(t, sent)
      BY <1>1, <1>3, <2>3, Zenon DEF StepsTo, Placed, Mirrors, it
    <3> QED
      BY <3>1
  <2> QED
    BY <1>1, <2>1, <2>2, <2>3
<1> QED
  BY <1>1, <1>5, <1>6 DEF it

\* The bonus captures that come with an item that was sent.
ChunkOf(t) ==
  IF t.items[t.i] = MultiMoon /\ mm_bonus_captures # <<>>
  THEN BonusChunk(mm_bonus_captures, Count(received_items, MultiMoon))
  ELSE <<>>

LEMMA GrantStep ==
  TypeInv /\ GrantBonus =>
    /\ cur[1].pc = "sent"
    /\ captures_unlocked' = captures_unlocked \cup Range(ChunkOf(cur[1]))
    /\ captures_received_count' =
         [c \in Captures |-> captures_received_count[c] + Count(ChunkOf(cur[1]), c)]
    /\ SendLines([j \in DOMAIN ChunkOf(cur[1]) |-> ItemLine(ChunkOf(cur[1])[j])])
    /\ \E u : StepsTo(u) /\ u.pc = "item" /\ u.i = cur[1].i + 1 /\ u.ability = cur[1].ability
<1> SUFFICES ASSUME TypeInv, GrantBonus
             PROVE  /\ cur[1].pc = "sent"
                    /\ captures_unlocked' = captures_unlocked \cup Range(ChunkOf(cur[1]))
                    /\ captures_received_count' =
                         [c \in Captures |-> captures_received_count[c] + Count(ChunkOf(cur[1]), c)]
                    /\ SendLines([j \in DOMAIN ChunkOf(cur[1]) |-> ItemLine(ChunkOf(cur[1])[j])])
                    /\ \E u : /\ StepsTo(u) /\ u.pc = "item" /\ u.i = cur[1].i + 1
                              /\ u.ability = cur[1].ability
  OBVIOUS
<1> DEFINE next == [cur[1] EXCEPT !.pc = "item", !.i = @ + 1]
<1>1. /\ cur # <<>> /\ cur[1].pc = "sent"
      /\ captures_unlocked' = captures_unlocked \cup Range(ChunkOf(cur[1]))
      /\ captures_received_count' =
           [c \in Captures |-> captures_received_count[c] + Count(ChunkOf(cur[1]), c)]
      /\ SendLines([j \in DOMAIN ChunkOf(cur[1]) |-> ItemLine(ChunkOf(cur[1])[j])])
      /\ Goes(next) \/ Await(next)
  BY Zenon DEF GrantBonus, ChunkOf
<1>2. cur[1] \in Tasks
  BY <1>1, TasksTyped DEF TypeInv
<1>3. Placed(next, cur[1], "item", cur[1].i + 1) /\ next.ability = cur[1].ability
  BY <1>2, TaskPlaces, Zenon
<1> HIDE DEF next
<1>4. StepsTo(next) /\ next.pc = "item" /\ next.i = cur[1].i + 1
  BY <1>1, <1>3, Zenon DEF StepsTo, Placed
<1> QED
  BY <1>1, <1>3, <1>4

\* Which tasks are under way, before and after.
InWaiting(t) == \E k \in DOMAIN waiting : waiting[k] = t

LEMMA UnderWayFacts ==
  ASSUME TasksOK
  PROVE  /\ \A t : UnderWay(t) => t \in Tasks
         /\ \A t : InWaiting(t) => UnderWay(t)
         /\ cur = <<>> => \A t : UnderWay(t) <=> InWaiting(t)
         /\ cur # <<>> => \A t : UnderWay(t) <=> t = cur[1] \/ InWaiting(t)
         /\ Finishes => \A t : UnderWay(t)' <=> InWaiting(t)
         /\ \A u : StepsTo(u) => \A t : UnderWay(t)' <=> t = u \/ InWaiting(t)
<1>1. /\ cur # <<>> => cur[1] \in Tasks /\ DOMAIN cur = {1}
      /\ \A k \in DOMAIN waiting : waiting[k] \in Tasks
      /\ waiting \in Seq(Tasks)
  BY TasksTyped DEF TasksOK
<1>2. cur = <<>> => \A t : UnderWay(t) <=> InWaiting(t)
  BY DEF UnderWay, InWaiting
<1>3. cur # <<>> => \A t : UnderWay(t) <=> t = cur[1] \/ InWaiting(t)
  BY <1>1 DEF UnderWay, InWaiting
<1>4. \A t : InWaiting(t) => t \in Tasks
  BY <1>1 DEF InWaiting
<1>5. Finishes => \A t : UnderWay(t)' <=> InWaiting(t)
  BY DEF Finishes, UnderWay, InWaiting
<1>6. ASSUME NEW u, StepsTo(u), NEW t
      PROVE  UnderWay(t)' <=> t = u \/ InWaiting(t)
  <2>1. CASE cur' = <<u>> /\ waiting' = waiting
    <3>1. DOMAIN <<u>> = {1} /\ <<u>>[1] = u
      OBVIOUS
    <3> QED
      BY <2>1, <3>1 DEF UnderWay, InWaiting
  <2>2. CASE cur' = <<>> /\ waiting' = Append(waiting, u)
    <3>1. /\ DOMAIN waiting' = DOMAIN waiting \cup {Len(waiting) + 1}
          /\ waiting'[Len(waiting) + 1] = u
          /\ \A k \in DOMAIN waiting : waiting'[k] = waiting[k]
      BY <1>1, <1>6, <2>2 DEF StepsTo
    <3>2. DOMAIN cur' = {}
      BY <2>2
    <3> QED
      BY <3>1, <3>2 DEF UnderWay, InWaiting
  <2> QED
    BY <1>6, <2>1, <2>2, Zenon DEF StepsTo, Goes, Await
<1> QED
  BY <1>1, <1>2, <1>3, <1>4, <1>5, <1>6 DEF InWaiting

\* The first in line resumes.
LEMMA ResumeFacts ==
  TasksOK /\ Resume =>
    /\ TasksOK' /\ cur = <<>> /\ cur' # <<>> /\ cur'[1] = waiting[1] /\ 1 \in DOMAIN waiting
    /\ DOMAIN cur' = {1}
    /\ \A k \in DOMAIN waiting' : k + 1 \in DOMAIN waiting /\ waiting'[k] = waiting[k + 1]
    /\ \A t : UnderWay(t)' <=> UnderWay(t)
<1> SUFFICES ASSUME TasksOK, Resume
             PROVE  /\ TasksOK' /\ cur = <<>> /\ cur' # <<>> /\ cur'[1] = waiting[1]
                    /\ 1 \in DOMAIN waiting /\ DOMAIN cur' = {1}
                    /\ \A k \in DOMAIN waiting' : k + 1 \in DOMAIN waiting /\ waiting'[k] = waiting[k + 1]
                    /\ \A t : UnderWay(t)' <=> UnderWay(t)
  OBVIOUS
<1>1. /\ cur = <<>> /\ waiting # <<>> /\ cur' = <<Head(waiting)>> /\ waiting' = Tail(waiting)
      /\ net' = net
  BY DEF Resume, apVars
<1>2. waiting \in Seq(Tasks) /\ net \in Seq(Packages)
  BY DEF TasksOK
<1>3. Len(waiting) \in Nat /\ Len(waiting) # 0 /\ DOMAIN waiting = 1 .. Len(waiting)
  BY <1>1, <1>2
<1>4. /\ Head(waiting) = waiting[1] /\ waiting[1] \in Tasks /\ Tail(waiting) \in Seq(Tasks)
      /\ Len(Tail(waiting)) = Len(waiting) - 1
      /\ \A k \in 1 .. (Len(waiting) - 1) : Tail(waiting)[k] = waiting[k + 1]
  BY <1>1, <1>2, <1>3
<1>5. /\ <<waiting[1]>> \in Seq(Tasks) /\ Len(<<waiting[1]>>) = 1 /\ <<waiting[1]>> # <<>>
      /\ <<waiting[1]>>[1] = waiting[1] /\ DOMAIN <<waiting[1]>> = {1}
  BY <1>4
<1>6. TasksOK'
  BY <1>1, <1>2, <1>4, <1>5 DEF TasksOK
<1>7. DOMAIN waiting' = 1 .. (Len(waiting) - 1)
  BY <1>1, <1>4
<1>8. ASSUME NEW t, InWaiting(t)
      PROVE  UnderWay(t)'
  <2>1. PICK k \in DOMAIN waiting : waiting[k] = t
    BY <1>8 DEF InWaiting
  <2>2. CASE k = 1
    BY <1>1, <1>4, <1>5, <2>1, <2>2 DEF UnderWay
  <2>3. CASE k # 1
    <3>1. k - 1 \in 1 .. (Len(waiting) - 1) /\ (k - 1) + 1 = k
      BY <1>3, <2>3
    <3>2. k - 1 \in DOMAIN waiting' /\ waiting'[k - 1] = t
      BY <1>1, <1>4, <1>7, <2>1, <3>1
    <3> QED
      BY <3>2 DEF UnderWay
  <2> QED
    BY <2>2, <2>3
<1>9. \A k \in DOMAIN waiting' : k + 1 \in DOMAIN waiting /\ waiting'[k] = waiting[k + 1]
  BY <1>1, <1>3, <1>4, <1>7
<1>10. ASSUME NEW t, UnderWay(t)'
       PROVE  InWaiting(t)
  <2>1. CASE \E k \in DOMAIN cur' : cur'[k] = t
    BY <1>1, <1>3, <1>4, <1>5, <2>1 DEF InWaiting
  <2>2. CASE \E k \in DOMAIN waiting' : waiting'[k] = t
    BY <1>9, <2>2 DEF InWaiting
  <2> QED
    BY <1>10, <2>1, <2>2 DEF UnderWay
<1>11. \A t : UnderWay(t) <=> InWaiting(t)
  BY <1>1, UnderWayFacts
<1>12. 1 \in DOMAIN waiting
  BY <1>3
<1> QED
  BY <1>1, <1>4, <1>5, <1>6, <1>8, <1>9, <1>10, <1>11, <1>12

(***************************************************************************)
(* Types.                                                                  *)
(***************************************************************************)

LEMMA SendTyped ==
  ASSUME SwitchOK, NEW ls \in Seq(Lines), SendLines(ls)
  PROVE  wire' \in Seq(Lines)
<1>1. wire \o ls \in Seq(Lines)
  BY DEF SwitchOK
<1> QED
  BY <1>1 DEF SwitchOK, SendLines

LEMMA AbilityLinesTyped ==
  ASSUME abilities_received \in Tables
  PROVE  AbilityLines \in Seq(Lines)
<1>1. AbilityLine(abilities_received) \in Lines
  BY LineTyped
<1> QED
  BY <1>1 DEF AbilityLines

\* The bonus captures of an item are captures.
LEMMA ChunkTyped ==
  ASSUME TypeInv, NEW t
  PROVE  ChunkOf(t) \in Seq(Captures)
<1>1. Count(received_items, MultiMoon) \in Nat
  BY CountFacts DEF TypeInv, BridgeOK
<1> DEFINE n == Count(received_items, MultiMoon)
           picks == mm_bonus_captures
           last == IF Chunk * n < Len(picks) THEN Chunk * n ELSE Len(picks)
<1>2. picks \in Seq(Captures) /\ Len(picks) \in Nat /\ Chunk \in Nat \ {0}
  BY MirrorAssumption DEF TypeInv, BridgeOK
<1> HIDE DEF n, picks
<1>3. ASSUME n # 0
      PROVE  SubSeq(picks, Chunk * (n - 1) + 1, last) \in Seq(Captures)
  <2>1. Chunk * (n - 1) \in Nat /\ Chunk * n \in Nat
    <3>1. n - 1 \in Nat
      BY <1>1, <1>3 DEF n
    <3>2. n \in Nat
      BY <1>1 DEF n
    <3>3. \A a \in Nat, b \in Nat : a * b \in Nat
      OBVIOUS
    <3> QED
      BY <1>2, <3>1, <3>2, <3>3
  <2>2. last \in Nat /\ last <= Len(picks)
    BY <1>2, <2>1
  <2> DEFINE first == Chunk * (n - 1) + 1
  <2>3. first \in Nat \ {0}
    BY <2>1
  <2> HIDE DEF first, last
  <2>4. \A k \in first .. last : k \in 1 .. Len(picks)
    BY <1>2, <2>2, <2>3
  <2>5. SubSeq(picks, first, last) \in Seq(Captures)
    BY <1>2, <2>2, <2>3, <2>4
  <2> QED
    BY <2>5 DEF first
<1>4. <<>> \in Seq(Captures)
  OBVIOUS
<1>5. BonusChunk(mm_bonus_captures, Count(received_items, MultiMoon)) \in Seq(Captures)
  BY <1>3, <1>4, Zenon DEF BonusChunk, n, picks
<1> QED
  BY <1>4, <1>5, Zenon DEF ChunkOf

LEMMA InitTyped ==
  Init => TypeInv
<1> SUFFICES ASSUME Init
             PROVE  TypeInv
  OBVIOUS
<1>1. <<>> \in Seq(Items) /\ <<>> \in Seq(Captures) /\ <<>> \in Seq(Packages) /\ <<>> \in Seq(Tasks)
      /\ <<>> \in Seq(Lines) /\ Len(<<>>) <= 1
  OBVIOUS
<1>2. NoAbilities \in Tables
  BY DEF NoAbilities, Tables
<1>3. MaxConnects \in Nat /\ MaxFaults \in Nat
  BY MirrorAssumption
<1>4. MirrorFlagsOK
  BY DEF Init, MirrorFlagsOK
<1>5. BridgeOK
  BY <1>1, <1>2, <1>3 DEF Init, BridgeOK
<1>6. TasksOK
  BY <1>1 DEF Init, TasksOK
<1>7. SwitchOK
  BY <1>1, <1>2 DEF Init, SwitchOK
<1> QED
  BY <1>4, <1>5, <1>6, <1>7 DEF TypeInv

LEMMA ServerTyped ==
  TypeInv /\ (\E s \in Slots, it \in Items : ServerSends(s, it)) => TypeInv'
<1> SUFFICES ASSUME TypeInv, NEW s \in Slots, NEW it \in Items, ServerSends(s, it)
             PROVE  TypeInv'
  OBVIOUS
<1> USE DEF TypeInv, ServerSends, apVars, countVars, taskVars, linkVars, modVars, ghostVars, boundVars
<1>1. MirrorFlagsOK'
  BY DEF MirrorFlagsOK
<1>2. BridgeOK'
  <2>1. hist \in [Slots -> Seq(Items)] /\ Append(hist[s], it) \in Seq(Items)
    BY DEF BridgeOK
  <2>2. hist' \in [Slots -> Seq(Items)]
    BY <2>1
  <2> QED
    BY <2>2 DEF BridgeOK
<1>3. TasksOK'
  <2>1. Len(hist[s]) \in Nat /\ <<it>> \in Seq(Items)
    BY DEF BridgeOK
  <2>2. ReceivedItems(s, Len(hist[s]), <<it>>) \in Packages
    BY <2>1, Sent
  <2>3. Append(net, ReceivedItems(s, Len(hist[s]), <<it>>)) \in Seq(Packages)
    BY <2>2 DEF TasksOK
  <2> QED
    BY <2>3 DEF TasksOK
<1>4. SwitchOK'
  BY DEF SwitchOK
<1> QED
  BY <1>1, <1>2, <1>3, <1>4

LEMMA ClientTyped ==
  TypeInv /\ (\E s \in Slots : ClientConnects(s)) => TypeInv'
<1> SUFFICES ASSUME TypeInv, NEW s \in Slots, ClientConnects(s)
             PROVE  TypeInv'
  OBVIOUS
<1>0. MaxConnects \in Nat
  BY MirrorAssumption
<1> USE DEF TypeInv, ClientConnects, countVars, taskVars, linkVars, modVars, ghostVars
<1>1. MirrorFlagsOK'
  BY DEF MirrorFlagsOK
<1>2. BridgeOK'
  BY <1>0 DEF BridgeOK
<1>3. TasksOK'
  <2>1. hist[s] \in Seq(Items) /\ <<>> \in Seq(Packages)
    BY DEF BridgeOK
  <2>2. Connected(s) \in Packages /\ ReceivedItems(s, 0, hist[s]) \in Packages
    BY <2>1, Sent
  <2>3. net' \in Seq(Packages)
    BY <2>1, <2>2
  <2> QED
    BY <2>3 DEF TasksOK
<1>4. SwitchOK'
  BY DEF SwitchOK
<1> QED
  BY <1>1, <1>2, <1>3, <1>4

LEMMA PackageTyped ==
  TypeInv /\ on_package => TypeInv'
<1> SUFFICES ASSUME TypeInv, on_package
             PROVE  TypeInv'
  OBVIOUS
<1> USE DEF TypeInv, on_package, countVars, linkVars, modVars, boundVars
<1>1. MirrorFlagsOK'
  <2>1. overlapped' \in BOOLEAN /\ raced' \in BOOLEAN
    BY Zenon
  <2> QED
    BY <2>1 DEF MirrorFlagsOK
<1>2. BridgeOK'
  BY DEF BridgeOK
<1>3. TasksOK'
  <2>1. Head(net) \in Packages /\ Tail(net) \in Seq(Packages)
    BY DEF TasksOK
  <2>2. Task(Head(net)) \in Tasks
    BY <2>1, TaskOf DEF BridgeOK
  <2> DEFINE u == Task(Head(net))
  <2>3. cur' = <<u>> /\ net' = Tail(net) /\ waiting' = waiting
    OBVIOUS
  <2> HIDE DEF u
  <2>4. <<u>> \in Seq(Tasks) /\ Len(<<u>>) = 1
    BY <2>2 DEF u
  <2> QED
    BY <2>1, <2>3, <2>4 DEF TasksOK
<1>4. SwitchOK'
  BY DEF SwitchOK
<1> QED
  BY <1>1, <1>2, <1>3, <1>4

LEMMA ResumeTyped ==
  TypeInv /\ Resume => TypeInv'
<1> SUFFICES ASSUME TypeInv, Resume
             PROVE  TypeInv'
  OBVIOUS
<1>1. TasksOK'
  BY ResumeFacts DEF TypeInv
<1> USE DEF TypeInv, Resume, apVars, countVars, linkVars, modVars, ghostVars, boundVars
<1>2. MirrorFlagsOK'
  BY DEF MirrorFlagsOK
<1>3. BridgeOK'
  BY DEF BridgeOK
<1>4. SwitchOK'
  BY DEF SwitchOK
<1> QED
  BY <1>1, <1>2, <1>3, <1>4

LEMMA ConnectedTyped ==
  TypeInv /\ HandleConnected => TypeInv'
<1> SUFFICES ASSUME TypeInv, HandleConnected
             PROVE  TypeInv'
  OBVIOUS
<1>1. PICK u : StepsTo(u)
  BY ConnectedStep
<1>2. cur # <<>> /\ cur[1] \in Tasks
  BY <1>1, TasksTyped DEF StepsTo, TypeInv
<1>3. cur[1].slot \in Slots
  BY <1>2, TaskFields
<1>4. /\ slot' = cur[1].slot
      /\ slotChanged' = (slotChanged \/ slot \notin {NoSlot, cur[1].slot})
      /\ received_items' = <<>> \/ received_items' = received_items
      /\ captures_unlocked' = {} \/ captures_unlocked' = captures_unlocked
      /\ UNCHANGED <<captures_received_count, abilities_received, mm_bonus_captures>>
      /\ SendLines(AbilityLines)
      /\ checkedTooLong' = FALSE \/ checkedTooLong' = checkedTooLong
      /\ mistaken' = mistaken \/ mistaken' = (received_items' # <<>>)
      /\ UNCHANGED <<hist, apSlot, net, reg, stalled, swUp, rehello, unlocked, abilities, replayed,
                     abandoned, overlapped, raced, connects, faults>>
  BY DEF HandleConnected, clear_received, countVars, apVars, modVars, boundVars
<1>5. MirrorFlagsOK'
  <2>1. slotChanged' \in BOOLEAN
    BY <1>4, Zenon
  <2>2. mistaken' \in BOOLEAN
    <3>1. mistaken \in BOOLEAN
      BY DEF TypeInv, MirrorFlagsOK
    <3> QED
      BY <1>4, <3>1, Zenon
  <2> QED
    BY <1>4, <2>1, <2>2 DEF TypeInv, MirrorFlagsOK
<1>6. BridgeOK'
  <2>1. received_items' \in Seq(Items) /\ captures_unlocked' \subseteq Captures
    <3>1. <<>> \in Seq(Items)
      OBVIOUS
    <3>2. received_items' \in Seq(Items)
      BY <1>4, <3>1 DEF TypeInv, BridgeOK
    <3>3. captures_unlocked' \subseteq Captures
      BY <1>4 DEF TypeInv, BridgeOK
    <3> QED
      BY <3>2, <3>3
  <2> QED
    BY <1>3, <1>4, <2>1 DEF TypeInv, BridgeOK
<1>7. TasksOK'
  BY <1>1, <1>4, TasksTyped DEF TypeInv, TasksOK, StepsTo
<1>8. SwitchOK'
  <2>1. wire' \in Seq(Lines)
    BY <1>4, SendTyped, AbilityLinesTyped DEF TypeInv, BridgeOK
  <2> QED
    BY <1>4, <2>1 DEF TypeInv, SwitchOK
<1> QED
  BY <1>5, <1>6, <1>7, <1>8 DEF TypeInv

LEMMA BonusTyped ==
  TypeInv /\ ConnectedStashesBonus => TypeInv'
<1> SUFFICES ASSUME TypeInv, ConnectedStashesBonus
             PROVE  TypeInv'
  OBVIOUS
<1>0. BonusOf \in [Slots -> Seq(Captures)]
  BY MirrorAssumption
<1>1. cur # <<>> /\ Finishes /\ mm_bonus_captures' = BonusOf[cur[1].slot]
  BY DEF ConnectedStashesBonus
<1>2. cur[1].slot \in Slots
  BY <1>1, TasksTyped, TaskFields DEF TypeInv
<1>3. /\ UNCHANGED <<hist, apSlot, net, received_items, slot, reg, wire, swUp, rehello, unlocked>>
      /\ UNCHANGED <<captures_received_count, abilities_received, captures_unlocked, stalled>>
      /\ UNCHANGED <<abilities, replayed, overlapped, raced, slotChanged, connects, faults,
                  checkedTooLong, abandoned, mistaken>>
  BY DEF ConnectedStashesBonus, apVars, countVars, linkVars, modVars, ghostVars, boundVars
<1>4. MirrorFlagsOK'
  BY <1>3 DEF TypeInv, MirrorFlagsOK
<1>5. BridgeOK'
  <2>1. mm_bonus_captures' \in Seq(Captures)
    BY <1>0, <1>1, <1>2
  <2> QED
    BY <1>3, <2>1 DEF TypeInv, BridgeOK
<1>6. TasksOK'
  BY <1>1, <1>3, TasksTyped DEF TypeInv, TasksOK
<1>7. SwitchOK'
  BY <1>3 DEF TypeInv, SwitchOK
<1> QED
  BY <1>4, <1>5, <1>6, <1>7 DEF TypeInv

\* What an item that is mirrored changes.
LEMMA AddedTyped ==
  ASSUME BridgeOK, NEW it \in Items, add_received_item(it)
  PROVE  /\ received_items' = Append(received_items, it) /\ received_items' \in Seq(Items)
         /\ captures_received_count' \in [Captures -> Nat] /\ abilities_received' \in Tables
         /\ captures_unlocked' \subseteq Captures
<1> USE DEF add_received_item
<1>1. received_items' = Append(received_items, it) /\ received_items' \in Seq(Items)
  BY DEF BridgeOK
<1>2. captures_received_count' \in [Captures -> Nat]
  <2>1. \A c \in Captures : captures_received_count[c] + (IF c = it THEN 1 ELSE 0) \in Nat
    BY DEF BridgeOK
  <2> QED
    BY <2>1
<1>3. abilities_received' \in Tables
  <2>1. \A a \in Abilities : abilities_received[a] + (IF a = it THEN 1 ELSE 0) \in Nat
    BY DEF BridgeOK, Tables
  <2> QED
    BY <2>1 DEF Tables
<1>4. captures_unlocked' \subseteq Captures
  BY DEF BridgeOK
<1> QED
  BY <1>1, <1>2, <1>3, <1>4

LEMMA ProcessTyped ==
  TypeInv /\ ProcessItem => TypeInv'
<1> SUFFICES ASSUME TypeInv, ProcessItem
             PROVE  TypeInv'
  OBVIOUS
<1>1. PICK u : StepsTo(u) /\ (Skips(cur[1], u) \/ Mirrors(cur[1], u))
  BY ProcessStep
<1> DEFINE it == cur[1].items[cur[1].i]
<1>2. it \in Items
  BY ProcessStep
<1> HIDE DEF it
<1>3. UNCHANGED <<hist, apSlot, net, mm_bonus_captures, slot, reg, stalled, swUp, rehello, unlocked,
                  abilities, replayed, overlapped, raced, slotChanged, connects, faults,
                  checkedTooLong, abandoned, mistaken>>
  BY DEF ProcessItem, apVars, modVars, ghostVars, boundVars
<1>4. MirrorFlagsOK'
  BY <1>3 DEF TypeInv, MirrorFlagsOK
<1>5. TasksOK'
  BY <1>1, <1>3, TasksTyped DEF TypeInv, TasksOK, StepsTo
<1>6. BridgeOK'
  <2>1. CASE Skips(cur[1], u)
    BY <1>3, <2>1 DEF Skips, TypeInv, BridgeOK, countVars
  <2>2. CASE Mirrors(cur[1], u)
    <3>1. add_received_item(it)
      BY <2>2 DEF Mirrors, it
    <3>2. /\ received_items' \in Seq(Items) /\ captures_received_count' \in [Captures -> Nat]
          /\ abilities_received' \in Tables /\ captures_unlocked' \subseteq Captures
      BY <1>2, <3>1, AddedTyped DEF TypeInv
    <3> QED
      BY <1>3, <3>2 DEF TypeInv, BridgeOK
  <2> QED
    BY <1>1, <2>1, <2>2
<1>7. SwitchOK'
  <2>1. CASE Skips(cur[1], u)
    BY <1>3, <2>1 DEF Skips, TypeInv, SwitchOK
  <2>2. CASE Mirrors(cur[1], u)
    <3>1. wire' = wire \/ SendLines(IF it \in Captures THEN <<ItemLine(it)>> ELSE <<>>)
      BY <2>2 DEF Mirrors, it
    <3>2. it \in Captures => ItemLine(it) \in Lines
      BY LineTyped
    <3>3. (IF it \in Captures THEN <<ItemLine(it)>> ELSE <<>>) \in Seq(Lines)
      BY <3>2
    <3>4. wire' \in Seq(Lines)
      <4>1. CASE wire' = wire
        BY <4>1 DEF TypeInv, SwitchOK
      <4>2. CASE SendLines(IF it \in Captures THEN <<ItemLine(it)>> ELSE <<>>)
        BY <3>3, <4>2, SendTyped DEF TypeInv
      <4> QED
        BY <3>1, <4>1, <4>2
    <3> QED
      BY <1>3, <3>4 DEF TypeInv, SwitchOK
  <2> QED
    BY <1>1, <2>1, <2>2
<1> QED
  BY <1>4, <1>5, <1>6, <1>7 DEF TypeInv

\* The lines of the bonus captures.
ChunkLines(t) == [j \in DOMAIN ChunkOf(t) |-> ItemLine(ChunkOf(t)[j])]

LEMMA ChunkLinesTyped ==
  ASSUME TypeInv, NEW t
  PROVE  /\ ChunkLines(t) \in Seq(Lines)
         /\ \A k \in DOMAIN ChunkLines(t) : ChunkLines(t)[k].t = "item"
<1>1. ChunkOf(t) \in Seq(Captures)
  BY ChunkTyped
<1> DEFINE chunk == ChunkOf(t)
<1> HIDE DEF chunk
<1>2. chunk \in Seq(Captures)
  BY <1>1 DEF chunk
<1>3. \A j \in 1 .. Len(chunk) : ItemLine(chunk[j]) \in Lines /\ ItemLine(chunk[j]).t = "item"
  BY <1>2, LineTyped
<1>4. [j \in 1 .. Len(chunk) |-> ItemLine(chunk[j])] \in Seq(Lines)
  BY <1>2, <1>3
<1> QED
  BY <1>2, <1>3, <1>4 DEF ChunkLines, chunk

LEMMA GrantTyped ==
  TypeInv /\ GrantBonus => TypeInv'
<1> SUFFICES ASSUME TypeInv, GrantBonus
             PROVE  TypeInv'
  OBVIOUS
<1> DEFINE chunk == ChunkOf(cur[1])
<1>1. PICK u : StepsTo(u)
  BY GrantStep
<1>2. chunk \in Seq(Captures)
  BY ChunkTyped
<1>3. /\ captures_unlocked' = captures_unlocked \cup Range(chunk)
      /\ captures_received_count' =
           [c \in Captures |-> captures_received_count[c] + Count(chunk, c)]
      /\ SendLines(ChunkLines(cur[1]))
  BY GrantStep DEF ChunkLines
<1> HIDE DEF chunk
<1>4. UNCHANGED <<hist, apSlot, net, received_items, abilities_received, mm_bonus_captures, slot, reg,
                  stalled, swUp, rehello, unlocked, abilities, replayed, overlapped, raced,
                  slotChanged, connects, faults, checkedTooLong, abandoned, mistaken>>
  BY DEF GrantBonus, apVars, modVars, ghostVars, boundVars
<1>5. MirrorFlagsOK'
  BY <1>4 DEF TypeInv, MirrorFlagsOK
<1>6. TasksOK'
  BY <1>1, <1>4, TasksTyped DEF TypeInv, TasksOK, StepsTo
<1>7. BridgeOK'
  <2>1. Range(chunk) \subseteq Captures
    BY <1>2 DEF Range
  <2>2. \A c \in Captures : Count(chunk, c) \in Nat
    BY <1>2, CountFacts
  <2>3. captures_received_count' \in [Captures -> Nat]
    <3>1. \A c \in Captures : captures_received_count[c] + Count(chunk, c) \in Nat
      BY <2>2 DEF TypeInv, BridgeOK
    <3> QED
      BY <1>3, <3>1
  <2> QED
    BY <1>3, <1>4, <2>1, <2>3 DEF TypeInv, BridgeOK
<1>8. SwitchOK'
  <2>1. wire' \in Seq(Lines)
    BY <1>3, SendTyped, ChunkLinesTyped DEF TypeInv
  <2> QED
    BY <1>4, <2>1 DEF TypeInv, SwitchOK
<1> QED
  BY <1>5, <1>6, <1>7, <1>8 DEF TypeInv

LEMMA DerivedTyped ==
  TypeInv /\ PushDerived => TypeInv'
<1> SUFFICES ASSUME TypeInv, PushDerived
             PROVE  TypeInv'
  OBVIOUS
<1>1. /\ Finishes /\ SendLines(IF cur[1].ability THEN AbilityLines ELSE <<>>)
      /\ UNCHANGED <<hist, apSlot, net, received_items, captures_received_count>>
      /\ UNCHANGED <<abilities_received, captures_unlocked, mm_bonus_captures, slot, reg, stalled>>
      /\ UNCHANGED <<swUp, rehello, unlocked, abilities, replayed, overlapped, raced>>
      /\ UNCHANGED <<slotChanged, connects, faults, checkedTooLong, abandoned, mistaken>>
  BY DEF PushDerived, apVars, countVars, modVars, ghostVars, boundVars
<1>2. MirrorFlagsOK'
  BY <1>1 DEF TypeInv, MirrorFlagsOK
<1>3. BridgeOK'
  BY <1>1 DEF TypeInv, BridgeOK
<1>4. TasksOK'
  BY <1>1, TasksTyped DEF TypeInv, TasksOK
<1>5. SwitchOK'
  <2>1. AbilityLines \in Seq(Lines) /\ <<>> \in Seq(Lines)
    BY AbilityLinesTyped DEF TypeInv, BridgeOK
  <2>2. (IF cur[1].ability THEN AbilityLines ELSE <<>>) \in Seq(Lines)
    BY <2>1
  <2>3. wire' \in Seq(Lines)
    BY <1>1, <2>2, SendTyped DEF TypeInv
  <2> QED
    BY <1>1, <2>3 DEF TypeInv, SwitchOK
<1> QED
  BY <1>2, <1>3, <1>4, <1>5 DEF TypeInv

LEMMA SwitchConnectsTyped ==
  TypeInv /\ SwitchConnects => TypeInv'
<1> SUFFICES ASSUME TypeInv, SwitchConnects
             PROVE  TypeInv'
  OBVIOUS
<1> USE DEF TypeInv, SwitchConnects, apVars, countVars, taskVars, modVars, ghostVars, boundVars
<1>1. MirrorFlagsOK'
  <2>1. replayed' \in BOOLEAN /\ abandoned' \in BOOLEAN
    BY Zenon
  <2> QED
    BY <2>1 DEF MirrorFlagsOK
<1>2. BridgeOK'
  BY DEF BridgeOK
<1>3. TasksOK'
  BY DEF TasksOK
<1>4. SwitchOK'
  <2>1. ItemLines(received_items) \in Seq(Lines) /\ AbilityLines \in Seq(Lines)
    BY ItemLinesFacts, AbilityLinesTyped DEF BridgeOK
  <2> HIDE DEF SwitchConnects
  <2>2. run_post_hello_replay \in Seq(Lines) /\ <<>> \in Seq(Lines)
    BY <2>1 DEF run_post_hello_replay
  <2>3. wire' \in Seq(Lines) /\ reg' = "live" /\ unlocked' = unlocked /\ abilities' = abilities
    BY <2>2 DEF SwitchConnects
  <2> QED
    BY <2>3 DEF SwitchOK
<1> QED
  BY <1>1, <1>2, <1>3, <1>4

LEMMA LinkTyped ==
  TypeInv /\ (ChecksPile \/ AbandonedCloses \/ BridgeSeesEof \/ LinkLost \/ LinkStalls \/ LinkDrains
                \/ SaveLoad \/ TakeRehello)
    => TypeInv'
<1> SUFFICES ASSUME TypeInv,
                    ChecksPile \/ AbandonedCloses \/ BridgeSeesEof \/ LinkLost \/ LinkStalls
                      \/ LinkDrains \/ SaveLoad \/ TakeRehello
             PROVE  TypeInv'
  OBVIOUS
<1>0. MaxFaults \in Nat /\ <<>> \in Seq(Lines)
  BY MirrorAssumption
<1> USE DEF TypeInv, ChecksPile, AbandonedCloses, BridgeSeesEof, LinkLost, LinkStalls, LinkDrains,
            SaveLoad, TakeRehello, apVars, countVars, taskVars, linkVars, modVars, ghostVars,
            boundVars
<1>1. MirrorFlagsOK'
  <2>1. UNCHANGED <<replayed, abandoned, overlapped, raced, slotChanged, mistaken>>
    OBVIOUS
  <2>2. /\ checkedTooLong' = TRUE \/ checkedTooLong' = checkedTooLong
        /\ rehello' = TRUE \/ rehello' = FALSE \/ rehello' = rehello
    OBVIOUS
  <2>3. /\ stalled' = TRUE \/ stalled' = FALSE \/ stalled' = stalled
        /\ swUp' = FALSE \/ swUp' = swUp
    OBVIOUS
  <2>4. MirrorFlagsOK
    OBVIOUS
  <2> HIDE DEF TypeInv, ChecksPile, AbandonedCloses, BridgeSeesEof, LinkLost, LinkStalls, LinkDrains,
               SaveLoad, TakeRehello
  <2> QED
    BY <2>1, <2>2, <2>3, <2>4 DEF MirrorFlagsOK
<1>2. BridgeOK'
  BY <1>0 DEF BridgeOK
<1>3. TasksOK'
  BY DEF TasksOK
<1>4. SwitchOK'
  BY <1>0 DEF SwitchOK
<1> QED
  BY <1>1, <1>2, <1>3, <1>4

LEMMA ReadsTyped ==
  TypeInv /\ SwitchReads => TypeInv'
<1> SUFFICES ASSUME TypeInv, SwitchReads
             PROVE  TypeInv'
  OBVIOUS
<1> USE DEF TypeInv, SwitchReads, apVars, countVars, taskVars, modVars, ghostVars, boundVars
<1>1. MirrorFlagsOK'
  BY DEF MirrorFlagsOK
<1>2. BridgeOK'
  BY DEF BridgeOK
<1>3. TasksOK'
  BY DEF TasksOK
<1>4. SwitchOK'
  <2>1. Head(wire) \in Lines /\ Tail(wire) \in Seq(Lines)
    BY DEF SwitchOK
  <2>2. IF Head(wire).t = "item" THEN Head(wire).cap \in Captures ELSE Head(wire).counts \in Tables
    BY <2>1, LineTyped
  <2> QED
    BY <2>1, <2>2 DEF SwitchOK
<1> QED
  BY <1>1, <1>2, <1>3, <1>4

LEMMA TypesKept ==
  TypeInv /\ [Next]_vars => TypeInv'
<1>1. TypeInv /\ UNCHANGED vars => TypeInv'
  <2> SUFFICES ASSUME TypeInv, UNCHANGED vars
               PROVE  TypeInv'
    OBVIOUS
  <2> USE DEF TypeInv, vars, apVars, countVars, taskVars, linkVars, modVars, ghostVars, boundVars
  <2>1. MirrorFlagsOK' /\ BridgeOK'
    BY DEF MirrorFlagsOK, BridgeOK
  <2>2. TasksOK' /\ SwitchOK'
    BY DEF TasksOK, SwitchOK
  <2> QED
    BY <2>1, <2>2
<1> QED
  BY <1>1, ServerTyped, ClientTyped, PackageTyped, ResumeTyped, ConnectedTyped, BonusTyped,
     ProcessTyped, GrantTyped, DerivedTyped, SwitchConnectsTyped, LinkTyped, ReadsTyped, Zenon
     DEF Next

(***************************************************************************)
(* The packages in the socket and the tasks under way.                     *)
(***************************************************************************)

SessionInv == TypeInv /\ NetInv /\ TaskInv

\* What is neither login nor history changes neither.
SessionVars == <<hist, apSlot, net, slot, cur, waiting>>

LEMMA NetSame ==
  NetInv /\ UNCHANGED <<hist, apSlot, net>> => NetInv'
BY DEF NetInv, PieceOK, Start

LEMMA SessionSame ==
  NetInv /\ TaskInv /\ UNCHANGED SessionVars => NetInv' /\ TaskInv'
<1> SUFFICES ASSUME NetInv, TaskInv, UNCHANGED SessionVars
             PROVE  NetInv' /\ TaskInv'
  OBVIOUS
<1> USE DEF SessionVars
<1>1. NetInv'
  BY NetSame
<1>2. /\ \A t : UnderWay(t)' <=> UnderWay(t)
      /\ LoggingIn' <=> LoggingIn
      /\ Start(1)' = Start(1)
  BY DEF UnderWay, LoggingIn, Start
<1>3. TaskInv'
  BY <1>2 DEF TaskInv
<1> QED
  BY <1>1, <1>3

\* Where a piece ends, the next begins.
LEMMA NetFacts ==
  ASSUME TypeInv, NetInv
  PROVE  /\ Len(net) \in Nat /\ DOMAIN net = 1 .. Len(net)
         /\ \A k \in 1 .. Len(net) : /\ net[k] \in Packages /\ PieceOK(k) /\ apSlot \in Slots
                                     /\ net[k].index \in Nat /\ net[k].items \in Seq(Items)
                                     /\ Len(net[k].items) \in Nat
                                     /\ net[k].cmd \in {"Connected", "ReceivedItems"}
         /\ \A s \in Slots : hist[s] \in Seq(Items) /\ Len(hist[s]) \in Nat
         /\ apSlot # NoSlot => apSlot \in Slots
<1>1. /\ net \in Seq(Packages) /\ hist \in [Slots -> Seq(Items)] /\ apSlot \in Slots \cup {NoSlot}
  BY DEF TypeInv, TasksOK, BridgeOK
<1>2. Len(net) \in Nat /\ DOMAIN net = 1 .. Len(net)
  BY <1>1
<1>3. \A s \in Slots : hist[s] \in Seq(Items) /\ Len(hist[s]) \in Nat
  BY <1>1
<1>4. ASSUME NEW k \in 1 .. Len(net)
      PROVE  /\ net[k] \in Packages /\ PieceOK(k) /\ apSlot \in Slots
             /\ net[k].index \in Nat /\ net[k].items \in Seq(Items)
             /\ Len(net[k].items) \in Nat
             /\ net[k].cmd \in {"Connected", "ReceivedItems"}
  <2>1. net[k] \in Packages
    BY <1>1
  <2>2. net # <<>>
    BY <1>2, <1>4
  <2>3. PieceOK(k) /\ apSlot \in Slots
    BY <1>1, <1>2, <2>2 DEF NetInv
  <2>4. /\ net[k].index \in Nat /\ net[k].items \in Seq(Items)
        /\ net[k].cmd \in {"Connected", "ReceivedItems"}
    BY <1>1, <2>1, TaskOf DEF TypeInv, BridgeOK
  <2> QED
    BY <2>1, <2>3, <2>4
<1> QED
  BY <1>1, <1>2, <1>3, <1>4

\* The server adds to a history.
LEMMA HistGrows ==
  ASSUME TypeInv, NEW s \in Slots, NEW it \in Items, ServerSends(s, it)
  PROVE  /\ \A r \in Slots : /\ hist'[r] \in Seq(Items) /\ Len(hist'[r]) \in Nat
                             /\ Len(hist'[r]) = Len(hist[r]) + (IF r = s THEN 1 ELSE 0)
                             /\ \A p \in 1 .. Len(hist[r]) : hist'[r][p] = hist[r][p]
                             /\ r # s => hist'[r] = hist[r]
         /\ hist'[s][Len(hist[s]) + 1] = it
<1>1. hist \in [Slots -> Seq(Items)] /\ hist' = [hist EXCEPT ![s] = Append(@, it)]
  BY DEF TypeInv, BridgeOK, ServerSends
<1>2. hist'[s] = Append(hist[s], it) /\ \A r \in Slots : r # s => hist'[r] = hist[r]
  BY <1>1
<1>3. /\ Append(hist[s], it) \in Seq(Items) /\ Len(Append(hist[s], it)) = Len(hist[s]) + 1
      /\ Len(hist[s]) \in Nat
      /\ \A p \in 1 .. Len(hist[s]) : Append(hist[s], it)[p] = hist[s][p]
      /\ Append(hist[s], it)[Len(hist[s]) + 1] = it
  BY <1>1
<1>4. ASSUME NEW r \in Slots
      PROVE  /\ hist'[r] \in Seq(Items) /\ Len(hist'[r]) \in Nat
             /\ Len(hist'[r]) = Len(hist[r]) + (IF r = s THEN 1 ELSE 0)
             /\ \A p \in 1 .. Len(hist[r]) : hist'[r][p] = hist[r][p]
             /\ r # s => hist'[r] = hist[r]
  <2>1. CASE r = s
    <3>1. /\ hist'[s] \in Seq(Items) /\ Len(hist'[s]) \in Nat
          /\ Len(hist'[s]) = Len(hist[s]) + 1
          /\ \A p \in 1 .. Len(hist[s]) : hist'[s][p] = hist[s][p]
      BY <1>2, <1>3
    <3> QED
      BY <2>1, <3>1
  <2>2. CASE r # s
    <3>1. hist'[r] = hist[r] /\ hist[r] \in Seq(Items) /\ Len(hist[r]) \in Nat
      BY <1>1, <1>2, <2>2
    <3> QED
      BY <2>2, <3>1
  <2> QED
    BY <2>1, <2>2
<1> QED
  BY <1>2, <1>3, <1>4

\* And tells the client that listens.
LEMMA NetGrows ==
  ASSUME SessionInv, NEW s \in Slots, NEW it \in Items, ServerSends(s, it)
  PROVE  /\ apSlot # s => net' = net
         /\ apSlot = s =>
              /\ Len(net') = Len(net) + 1 /\ DOMAIN net' = 1 .. (Len(net) + 1)
              /\ \A k \in 1 .. Len(net) : net'[k] = net[k]
              /\ LET p == net'[Len(net) + 1]
                 IN /\ p.cmd = "ReceivedItems" /\ p.slot = s /\ p.index = Len(hist[s])
                    /\ p.items = <<it>>
<1> SUFFICES ASSUME apSlot = s
             PROVE  /\ Len(net') = Len(net) + 1 /\ DOMAIN net' = 1 .. (Len(net) + 1)
                    /\ \A k \in 1 .. Len(net) : net'[k] = net[k]
                    /\ LET p == net'[Len(net) + 1]
                       IN /\ p.cmd = "ReceivedItems" /\ p.slot = s /\ p.index = Len(hist[s])
                          /\ p.items = <<it>>
  BY DEF ServerSends
<1> DEFINE q == ReceivedItems(s, Len(hist[s]), <<it>>)
<1>1. net' = Append(net, q)
  BY DEF ServerSends
<1>2. Len(hist[s]) \in Nat /\ <<it>> \in Seq(Items)
  BY DEF SessionInv, TypeInv, BridgeOK
<1>3. /\ q \in Packages /\ q.cmd = "ReceivedItems" /\ q.slot = s /\ q.index = Len(hist[s])
      /\ q.items = <<it>>
  <2> DEFINE n == Len(hist[s])
             its == <<it>>
  <2>1. n \in Nat /\ its \in Seq(Items)
    BY <1>2
  <2> HIDE DEF n, its
  <2>2. LET p == ReceivedItems(s, n, its)
        IN /\ p \in Packages /\ p.cmd = "ReceivedItems" /\ p.slot = s /\ p.index = n
           /\ p.items = its
    BY <2>1, Sent
  <2> QED
    BY <2>2, Zenon DEF n, its
<1> HIDE DEF q
<1>4. net \in Seq(Packages) /\ Len(net) \in Nat
  BY DEF SessionInv, TypeInv, TasksOK
<1>5. /\ Len(Append(net, q)) = Len(net) + 1 /\ DOMAIN Append(net, q) = 1 .. (Len(net) + 1)
      /\ \A k \in 1 .. Len(net) : Append(net, q)[k] = net[k]
      /\ Append(net, q)[Len(net) + 1] = q
  BY <1>3, <1>4
<1> QED
  BY <1>1, <1>3, <1>5

LEMMA ServerSession ==
  SessionInv /\ (\E s \in Slots, it \in Items : ServerSends(s, it)) => NetInv' /\ TaskInv'
<1> SUFFICES ASSUME SessionInv, NEW s \in Slots, NEW it \in Items, ServerSends(s, it)
             PROVE  NetInv' /\ TaskInv'
  OBVIOUS
<1>1. cur = <<>> /\ UNCHANGED <<apSlot, slot, cur, waiting>>
  BY DEF ServerSends, taskVars
<1>2. TypeInv /\ NetInv /\ TaskInv
  BY DEF SessionInv
<1>3. NetInv'
  <2>1. CASE apSlot # s
    <3>1. net' = net
      BY <2>1, NetGrows
    <3>2. ASSUME NEW k \in DOMAIN net
          PROVE  PieceOK(k)'
      <4>1. /\ PieceOK(k) /\ apSlot \in Slots /\ k \in Nat
            /\ DOMAIN net = 1 .. Len(net) /\ Len(net) \in Nat
        BY <1>2, NetFacts
      <4>2. hist'[apSlot] = hist[apSlot]
        BY <1>2, <2>1, <4>1, HistGrows
      <4>3. Start(k + 1)' = Start(k + 1)
        BY <1>1, <3>1, <4>2 DEF Start
      <4> QED
        BY <1>1, <3>1, <4>1, <4>2, <4>3 DEF PieceOK
    <3> QED
      BY <1>1, <1>2, <3>1, <3>2 DEF NetInv
  <2>2. CASE apSlot = s
    <3>a. PICK n \in Nat : n = Len(net)
      BY <1>2, NetFacts
    <3>1. /\ Len(net') = n + 1 /\ DOMAIN net' = 1 .. (n + 1)
          /\ \A k \in 1 .. n : net'[k] = net[k]
          /\ net'[n + 1].cmd = "ReceivedItems" /\ net'[n + 1].slot = s
          /\ net'[n + 1].index = Len(hist[s]) /\ net'[n + 1].items = <<it>>
      BY <1>2, <2>2, <3>a, NetGrows
    <3>2. /\ Len(hist[s]) \in Nat /\ Len(hist'[s]) = Len(hist[s]) + 1
          /\ hist'[s][Len(hist[s]) + 1] = it
          /\ \A p \in 1 .. Len(hist[s]) : hist'[s][p] = hist[s][p]
      BY <1>2, HistGrows, NetFacts
    <3>3. ASSUME NEW k \in 1 .. n
          PROVE  PieceOK(k)'
      <4>1. /\ PieceOK(k) /\ net[k].index \in Nat /\ net[k].items \in Seq(Items)
            /\ Len(net[k].items) \in Nat
        BY <1>2, <3>a, NetFacts
      <4>2. Start(k + 1)' = Start(k + 1)
        <5>1. CASE k + 1 <= n
          BY <3>a, <3>1, <5>1 DEF Start
        <5>2. CASE ~(k + 1 <= n)
          <6>1. k + 1 = n + 1
            BY <3>a, <3>1, <5>2
          <6> QED
            BY <1>1, <2>2, <3>a, <3>1, <5>2, <6>1 DEF Start
        <5> QED
          BY <5>1, <5>2
      <4>3. ASSUME NEW j \in DOMAIN net[k].items
            PROVE  net[k].items[j] = hist'[s][net[k].index + j]
        <5>1. /\ net[k].items[j] = hist[s][net[k].index + j]
              /\ net[k].index + Len(net[k].items) <= Len(hist[s])
          BY <2>2, <4>1 DEF PieceOK
        <5>2. net[k].index + j \in 1 .. Len(hist[s])
          <6>1. j \in 1 .. Len(net[k].items)
            BY <4>1
          <6>2. \A a, m, l \in Nat : \A i \in 1 .. m : a + m <= l => a + i \in 1 .. l
            OBVIOUS
          <6> QED
            BY <3>2, <4>1, <5>1, <6>1, <6>2
        <5> QED
          BY <3>2, <5>1, <5>2
      <4>4. net'[k] = net[k]
        BY <3>1
      <4>5. net[k].index + Len(net[k].items) <= Len(hist'[s])
        BY <2>2, <3>2, <4>1 DEF PieceOK
      <4> QED
        BY <1>1, <2>2, <4>1, <4>2, <4>3, <4>4, <4>5 DEF PieceOK
    <3>0. apSlot' = s
      BY <1>1, <2>2
    <3>4. PieceOK(n + 1)'
      <4>1. Len(<<it>>) = 1 /\ DOMAIN <<it>> = {1} /\ <<it>>[1] = it
        OBVIOUS
      <4>2. Start(n + 1 + 1)' = Len(hist'[s])
        <5>1. ~(n + 1 + 1 <= Len(net'))
          BY <3>1
        <5> QED
          BY <3>0, <5>1 DEF Start
      <4>3. net'[n + 1].index + Len(net'[n + 1].items) = Len(hist'[s])
        BY <3>1, <3>2, <4>1
      <4>4. ASSUME NEW j \in DOMAIN net'[n + 1].items
            PROVE  net'[n + 1].items[j] = hist'[s][net'[n + 1].index + j]
        <5>1. j = 1
          BY <3>1, <4>1, <4>4
        <5> QED
          BY <3>1, <3>2, <4>1, <5>1
      <4>5. Len(hist'[s]) <= Len(hist'[s])
        BY <3>2
      <4> QED
        BY <3>0, <3>1, <4>2, <4>3, <4>4, <4>5 DEF PieceOK
    <3>5. ASSUME NEW k \in DOMAIN net'
          PROVE  PieceOK(k)'
      <4>1. k \in 1 .. n \/ k = n + 1
        BY <3>1
      <4> QED
        BY <3>3, <3>4, <4>1, Zenon
    <3>6. apSlot' # NoSlot
      BY <1>1, <2>2, MirrorAssumption
    <3> QED
      BY <3>5, <3>6 DEF NetInv
  <2> QED
    BY <2>1, <2>2
<1>4. TaskInv'
  <2>1. \A t : UnderWay(t)' <=> UnderWay(t)
    BY <1>1 DEF UnderWay
  <2>2. ~LoggingIn' => ~LoggingIn
    <3>1. CASE apSlot # s
      BY <1>1, <3>1, NetGrows DEF LoggingIn
    <3>2. CASE apSlot = s
      <4>1. ASSUME net # <<>>
            PROVE  net' # <<>> /\ net'[1] = net[1]
        <5>1. Len(net) \in Nat /\ net \in Seq(Packages)
          BY <1>2 DEF TypeInv, TasksOK
        <5>2. Len(net) # 0
          BY <4>1, <5>1
        <5>3. 1 \in 1 .. Len(net) /\ 1 \in DOMAIN net'
          BY <3>2, <5>1, <5>2, NetGrows
        <5> QED
          BY <3>2, <5>3, NetGrows
      <4> QED
        BY <1>1, <4>1 DEF LoggingIn
    <3> QED
      BY <3>1, <3>2
  <2> QED
    BY <1>1, <1>2, <2>1, <2>2 DEF TaskInv
<1> QED
  BY <1>3, <1>4

\* The packages of a new login.
LEMMA LoginFacts ==
  ASSUME TypeInv, NEW s \in Slots, ClientConnects(s)
  PROVE  /\ apSlot' = s /\ hist[s] \in Seq(Items) /\ Len(hist[s]) \in Nat
         /\ net' # <<>> /\ net'[1].cmd = "Connected" /\ net'[1].slot = s
         /\ net'[1].index = 0 /\ net'[1].items = <<>>
         /\ hist[s] = <<>> => Len(net') = 1 /\ DOMAIN net' = {1}
         /\ hist[s] # <<>> =>
              /\ Len(net') = 2 /\ DOMAIN net' = {1, 2}
              /\ net'[2].cmd = "ReceivedItems" /\ net'[2].slot = s
              /\ net'[2].index = 0 /\ net'[2].items = hist[s]
<1>1. hist[s] \in Seq(Items) /\ Len(hist[s]) \in Nat
  BY DEF TypeInv, BridgeOK
<1> DEFINE c == Connected(s)
           r == ReceivedItems(s, 0, hist[s])
<1>2. /\ c \in Packages /\ c.cmd = "Connected" /\ c.slot = s /\ c.index = 0 /\ c.items = <<>>
      /\ r \in Packages /\ r.cmd = "ReceivedItems" /\ r.slot = s /\ r.index = 0
      /\ r.items = hist[s]
  <2>1. PICK its \in Seq(Items) : its = hist[s]
    BY <1>1
  <2>2. 0 \in Nat
    OBVIOUS
  <2>3. /\ Connected(s) \in Packages /\ Connected(s).cmd = "Connected" /\ Connected(s).slot = s
        /\ Connected(s).index = 0 /\ Connected(s).items = <<>>
        /\ ReceivedItems(s, 0, its) \in Packages
        /\ ReceivedItems(s, 0, its).cmd = "ReceivedItems" /\ ReceivedItems(s, 0, its).slot = s
        /\ ReceivedItems(s, 0, its).index = 0 /\ ReceivedItems(s, 0, its).items = its
    BY <2>2, Sent
  <2> QED
    BY <2>1, <2>3
<1>3. /\ apSlot' = s
      /\ hist[s] = <<>> => net' = <<c>> \o <<>>
      /\ hist[s] # <<>> => net' = <<c>> \o <<r>>
  BY DEF ClientConnects
<1> HIDE DEF c, r
<1>4. CASE hist[s] = <<>>
  <2>1. net' = <<c>>
    BY <1>2, <1>3, <1>4
  <2>2. /\ <<c>> # <<>> /\ <<c>>[1] = c /\ Len(<<c>>) = 1 /\ DOMAIN <<c>> = {1}
    OBVIOUS
  <2> QED
    BY <1>1, <1>2, <1>3, <1>4, <2>1, <2>2
<1>5. CASE hist[s] # <<>>
  <2> DEFINE q == <<c>> \o <<r>>
  <2>1. net' = q
    BY <1>3, <1>5
  <2>2. q \in Seq(Packages) /\ Len(q) = 2 /\ q[1] = c /\ q[2] = r
    BY <1>2
  <2> HIDE DEF q
  <2>3. q # <<>> /\ DOMAIN q = 1 .. 2
    BY <2>2
  <2> QED
    BY <1>1, <1>2, <1>3, <1>5, <2>1, <2>2, <2>3
<1> QED
  BY <1>4, <1>5

LEMMA ClientSession ==
  SessionInv /\ (\E s \in Slots : ClientConnects(s)) => NetInv' /\ TaskInv'
<1> SUFFICES ASSUME SessionInv, NEW s \in Slots, ClientConnects(s)
             PROVE  NetInv' /\ TaskInv'
  OBVIOUS
<1>1. cur = <<>> /\ UNCHANGED <<hist, slot, cur, waiting>>
  BY DEF ClientConnects, taskVars
<1>2. TypeInv /\ NetInv /\ TaskInv
  BY DEF SessionInv
<1> DEFINE h == hist[s]
<1>3. /\ apSlot' = s /\ h \in Seq(Items) /\ Len(h) \in Nat
      /\ net' # <<>> /\ net'[1].cmd = "Connected" /\ net'[1].slot = s
      /\ net'[1].index = 0 /\ net'[1].items = <<>>
      /\ h = <<>> => Len(net') = 1 /\ DOMAIN net' = {1}
      /\ h # <<>> =>
           /\ Len(net') = 2 /\ DOMAIN net' = {1, 2}
           /\ net'[2].cmd = "ReceivedItems" /\ net'[2].slot = s
           /\ net'[2].index = 0 /\ net'[2].items = h
  BY <1>2, LoginFacts
<1>4. hist'[apSlot'] = h
  BY <1>1, <1>3
<1> HIDE DEF h
<1>5. Len(<<>>) = 0 /\ DOMAIN <<>> = {}
  OBVIOUS
<1>6. CASE h = <<>>
  <2>1. Start(2)' = 0
    <3>1. Len(net') = 1 /\ Len(h) = 0
      BY <1>3, <1>5, <1>6
    <3> QED
      BY <1>4, <3>1 DEF Start
  <2>2. PieceOK(1)'
    BY <1>3, <1>4, <1>5, <2>1 DEF PieceOK
  <2> QED
    <3>1. NetInv'
      BY <1>3, <1>6, <2>2, MirrorAssumption DEF NetInv
    <3>2. LoggingIn'
      BY <1>3 DEF LoggingIn
    <3>3. \A t : UnderWay(t)' <=> UnderWay(t)
      BY <1>1 DEF UnderWay
    <3>4. TaskInv'
      BY <1>1, <1>2, <3>2, <3>3 DEF TaskInv
    <3> QED
      BY <3>1, <3>4
<1>7. CASE h # <<>>
  <2>1. Start(2)' = 0 /\ Start(3)' = Len(h)
    <3>1. Len(net') = 2
      BY <1>3, <1>7, Zenon
    <3> QED
      BY <1>3, <1>4, <1>7, <3>1 DEF Start
  <2>2. PieceOK(1)'
    BY <1>3, <1>4, <1>5, <2>1 DEF PieceOK
  <2>3. PieceOK(2)'
    BY <1>3, <1>4, <1>7, <2>1 DEF PieceOK
  <2> QED
    <3>1. NetInv'
      BY <1>3, <1>7, <2>2, <2>3, MirrorAssumption DEF NetInv
    <3>2. LoggingIn'
      BY <1>3 DEF LoggingIn
    <3>3. \A t : UnderWay(t)' <=> UnderWay(t)
      BY <1>1 DEF UnderWay
    <3>4. TaskInv'
      BY <1>1, <1>2, <3>2, <3>3 DEF TaskInv
    <3> QED
      BY <3>1, <3>4
<1> QED
  BY <1>6, <1>7

\* A package becomes a task.
LEMMA PackageFacts ==
  ASSUME SessionInv, on_package
  PROVE  /\ cur = <<>> /\ waiting' = waiting
         /\ cur' # <<>> /\ DOMAIN cur' = {1} /\ cur'[1] = Task(net[1])
         /\ 1 \in 1 .. Len(net)
         /\ Len(net') = Len(net) - 1 /\ DOMAIN net' = 1 .. (Len(net) - 1)
         /\ \A k \in 1 .. (Len(net) - 1) : k + 1 \in 1 .. Len(net) /\ net'[k] = net[k + 1]
         /\ \A t : UnderWay(t)' <=> t = Task(net[1]) \/ InWaiting(t)
<1>1. /\ cur = <<>> /\ net # <<>> /\ cur' = <<Task(Head(net))>> /\ net' = Tail(net)
      /\ waiting' = waiting
  BY DEF on_package
<1>2. net \in Seq(Packages) /\ Len(net) \in Nat
  BY DEF SessionInv, TypeInv, TasksOK
<1>3. Len(net) # 0
  BY <1>1, <1>2
<1>4. /\ Head(net) = net[1] /\ Len(Tail(net)) = Len(net) - 1
      /\ DOMAIN Tail(net) = 1 .. (Len(net) - 1)
      /\ \A k \in 1 .. (Len(net) - 1) : Tail(net)[k] = net[k + 1]
  BY <1>1, <1>2, <1>3
<1>5. \A k \in 1 .. (Len(net) - 1) : k + 1 \in 1 .. Len(net)
  BY <1>2
<1> DEFINE u == Task(net[1])
<1> HIDE DEF u
<1>6. cur' = <<u>> /\ <<u>> # <<>> /\ DOMAIN <<u>> = {1} /\ <<u>>[1] = u
  BY <1>1, <1>4 DEF u
<1>7. \A t : UnderWay(t)' <=> t = u \/ InWaiting(t)
  BY <1>1, <1>6 DEF UnderWay, InWaiting
<1>8. 1 \in 1 .. Len(net)
  BY <1>2, <1>3
<1> QED
  BY <1>1, <1>4, <1>5, <1>6, <1>7, <1>8 DEF u

LEMMA PackageSession ==
  SessionInv /\ on_package => NetInv' /\ TaskInv'
<1> SUFFICES ASSUME SessionInv, on_package
             PROVE  NetInv' /\ TaskInv'
  OBVIOUS
<1>1. TypeInv /\ NetInv /\ TaskInv
  BY DEF SessionInv
<1>2. PICK n \in Nat : n = Len(net)
  BY <1>1, NetFacts
<1>3. UNCHANGED <<hist, apSlot, slot>>
  BY DEF on_package
<1>4. /\ cur = <<>> /\ waiting' = waiting
      /\ cur' # <<>> /\ DOMAIN cur' = {1} /\ cur'[1] = Task(net[1])
      /\ 1 \in 1 .. n
      /\ Len(net') = n - 1 /\ DOMAIN net' = 1 .. (n - 1)
      /\ \A k \in 1 .. (n - 1) : k + 1 \in 1 .. n /\ net'[k] = net[k + 1]
      /\ \A t : UnderWay(t)' <=> t = Task(net[1]) \/ InWaiting(t)
  BY <1>2, PackageFacts
<1>5. ASSUME NEW k \in 1 .. n
      PROVE  Start(k)' = Start(k + 1)
  <2>1. CASE k <= n - 1
    <3>1. k + 1 <= n /\ net'[k] = net[k + 1]
      BY <1>4, <2>1
    <3> QED
      BY <1>2, <1>4, <2>1, <3>1 DEF Start
  <2>2. CASE ~(k <= n - 1)
    <3>1. ~(k + 1 <= n)
      BY <2>2
    <3> QED
      BY <1>2, <1>3, <1>4, <2>2, <3>1 DEF Start
  <2> QED
    BY <2>1, <2>2
<1>6. ASSUME NEW k \in 1 .. (n - 1)
      PROVE  PieceOK(k)' /\ net'[k].cmd # "Connected"
  <2>1. /\ k + 1 \in 1 .. n /\ net'[k] = net[k + 1] /\ PieceOK(k + 1)
    BY <1>1, <1>2, <1>4, NetFacts
  <2>2. net[k + 1].cmd # "Connected"
    <3>1. k + 1 # 1
      OBVIOUS
    <3> QED
      BY <2>1, <3>1 DEF PieceOK
  <2>3. Start(k + 1)' = Start(k + 1 + 1)
    BY <1>5, <2>1
  <2> QED
    BY <1>3, <2>1, <2>2, <2>3 DEF PieceOK
<1>7. apSlot \in Slots /\ apSlot # NoSlot /\ net # <<>>
  BY <1>1, <1>2, <1>4, NetFacts, MirrorAssumption
<1>8. NetInv'
  BY <1>3, <1>4, <1>6, <1>7 DEF NetInv
<1> DEFINE p == net[1]
<1>9. /\ p \in Packages /\ PieceOK(1)
  BY <1>1, <1>2, <1>4, NetFacts
<1> DEFINE u == Task(p)
<1>10. /\ p.cmd \in {"Connected", "ReceivedItems"}
       /\ u.cmd = p.cmd /\ u.slot = p.slot /\ u.index = p.index /\ u.items = p.items
       /\ u.i = 1 /\ ~u.ability /\ u.pc = (IF p.cmd = "Connected" THEN "start" ELSE "item")
  BY <1>1, <1>9, TaskOf DEF TypeInv, BridgeOK
<1> HIDE DEF u
<1>11. p.slot = apSlot /\ (p.cmd = "Connected" => p.index = 0 /\ p.items = <<>> /\ Start(2) = 0)
  <2>1. Len(<<>>) = 0
    OBVIOUS
  <2> QED
    BY <1>9, <2>1 DEF PieceOK
<1>12. cur'[1] = u /\ \A t : UnderWay(t)' <=> t = u \/ InWaiting(t)
  BY <1>4 DEF u
<1> HIDE DEF p
<1>13. TaskOK(u)
  BY <1>10, <1>11 DEF TaskOK
<1>14. \A t : UnderWay(t)' => TaskOK(t)
  BY <1>1, <1>12, <1>13, UnderWayFacts DEF TaskInv, TypeInv
<1>15. \A k \in DOMAIN waiting' : waiting'[k].pc # "start"
  BY <1>1, <1>4 DEF TaskInv
<1>16. ASSUME u.pc = "start"
       PROVE  /\ u.slot = apSlot' /\ apSlot' # NoSlot /\ Start(1)' = 0
              /\ net' # <<>> => net'[1].cmd # "Connected"
  <2>1. p.cmd = "Connected"
    BY <1>10, <1>16
  <2>2. Start(1)' = 0
    BY <1>4, <1>5, <1>11, <2>1
  <2>3. net' # <<>> => net'[1].cmd # "Connected"
    <3>1. SUFFICES ASSUME net' # <<>>
                   PROVE  net'[1].cmd # "Connected"
      OBVIOUS
    <3>2. net' \in Seq(Packages)
      BY <1>1, PackageTyped DEF TypeInv, TasksOK
    <3>3. 1 \in DOMAIN net'
      BY <3>1, <3>2
    <3> QED
      BY <1>4, <1>6, <3>3
  <2> QED
    BY <1>3, <1>7, <1>10, <1>11, <2>2, <2>3
<1>17. ASSUME u.pc # "start"
       PROVE  ~LoggingIn /\ slot = apSlot
  <2>1. p.cmd # "Connected"
    BY <1>10, <1>17
  <2>2. ~LoggingIn
    BY <1>4, <2>1 DEF LoggingIn, p
  <2> QED
    BY <1>1, <2>2 DEF TaskInv
<1>18. ~LoggingIn' => slot' = apSlot'
  BY <1>3, <1>4, <1>12, <1>17 DEF LoggingIn
<1>19. slot' = NoSlot => waiting' = <<>> /\ (cur' # <<>> => cur'[1].pc = "start")
  BY <1>1, <1>3, <1>4, <1>7, <1>12, <1>17 DEF TaskInv
<1>20. TaskInv'
  BY <1>4, <1>12, <1>14, <1>15, <1>16, <1>18, <1>19 DEF TaskInv
<1> QED
  BY <1>8, <1>20

LEMMA ResumeSession ==
  SessionInv /\ Resume => NetInv' /\ TaskInv'
<1> SUFFICES ASSUME SessionInv, Resume
             PROVE  NetInv' /\ TaskInv'
  OBVIOUS
<1>1. TypeInv /\ NetInv /\ TaskInv
  BY DEF SessionInv
<1>2. UNCHANGED <<hist, apSlot, net, slot>> /\ waiting # <<>>
  BY DEF Resume, apVars
<1>3. /\ cur = <<>> /\ cur' # <<>> /\ cur'[1] = waiting[1] /\ 1 \in DOMAIN waiting
      /\ \A k \in DOMAIN waiting' : k + 1 \in DOMAIN waiting /\ waiting'[k] = waiting[k + 1]
      /\ \A t : UnderWay(t)' <=> UnderWay(t)
  BY <1>1, ResumeFacts DEF TypeInv
<1>4. NetInv'
  BY <1>1, <1>2, NetSame
<1>5. /\ \A k \in DOMAIN waiting : waiting[k].pc # "start"
      /\ \A k \in DOMAIN waiting' : waiting'[k].pc # "start"
  BY <1>1, <1>3 DEF TaskInv
<1>6. cur'[1].pc # "start"
  BY <1>3, <1>5
<1>7. LoggingIn' <=> LoggingIn
  BY <1>2, <1>3, <1>6 DEF LoggingIn
<1>8. slot # NoSlot
  BY <1>1, <1>2 DEF TaskInv
<1>9. TaskInv'
  BY <1>1, <1>2, <1>3, <1>5, <1>6, <1>7, <1>8 DEF TaskInv
<1> QED
  BY <1>4, <1>9

\* Where the running task went.
LEMMA StepWaiting ==
  ASSUME TasksOK, NEW u, StepsTo(u)
  PROVE  /\ \A k \in DOMAIN waiting' : waiting'[k] = u \/ InWaiting(waiting'[k])
         /\ cur' # <<>> => cur'[1] = u
<1>1. \A t : UnderWay(t)' <=> t = u \/ InWaiting(t)
  BY UnderWayFacts
<1>2. ASSUME NEW t, \E k \in DOMAIN waiting' : waiting'[k] = t
      PROVE  t = u \/ InWaiting(t)
  BY <1>1, <1>2 DEF UnderWay
<1>3. cur' = <<>> \/ cur' = <<u>>
  BY Zenon DEF StepsTo, Goes, Await
<1> QED
  BY <1>1, <1>2, <1>3

LEMMA StepSession ==
  ASSUME SessionInv, UNCHANGED <<hist, apSlot, net, slot>>, cur[1].pc # "start",
         NEW u, StepsTo(u), u.pc # "start", TaskOK(u)
  PROVE  NetInv' /\ TaskInv'
<1>1. TypeInv /\ NetInv /\ TaskInv /\ cur # <<>>
  BY DEF SessionInv, StepsTo
<1>2. NetInv'
  BY <1>1, NetSame
<1>3. \A t : UnderWay(t)' <=> t = u \/ InWaiting(t)
  BY <1>1, UnderWayFacts DEF TypeInv
<1>4. \A t : InWaiting(t) => UnderWay(t) /\ t.pc # "start"
  BY <1>1, UnderWayFacts DEF TypeInv, TaskInv, InWaiting
<1>5. /\ \A k \in DOMAIN waiting' : waiting'[k].pc # "start"
      /\ cur' # <<>> => cur'[1] = u
  BY <1>1, <1>4, StepWaiting DEF TypeInv
<1>6. LoggingIn' <=> LoggingIn
  BY <1>1, <1>5 DEF LoggingIn
<1>7. slot # NoSlot
  BY <1>1 DEF TaskInv
<1>8. TaskInv'
  BY <1>1, <1>3, <1>4, <1>5, <1>6, <1>7 DEF TaskInv
<1> QED
  BY <1>2, <1>8

LEMMA FinishSession ==
  ASSUME SessionInv, UNCHANGED <<hist, apSlot, net, slot>>, cur # <<>>, cur[1].pc # "start", Finishes
  PROVE  NetInv' /\ TaskInv'
<1>1. TypeInv /\ NetInv /\ TaskInv
  BY DEF SessionInv
<1>2. NetInv'
  BY <1>1, NetSame
<1>3. cur' = <<>> /\ waiting' = waiting
  BY DEF Finishes
<1>4. \A t : UnderWay(t)' => UnderWay(t)
  BY <1>1, UnderWayFacts DEF TypeInv
<1>5. LoggingIn' <=> LoggingIn
  BY <1>3 DEF LoggingIn
<1>6. TaskInv'
  BY <1>1, <1>3, <1>4, <1>5 DEF TaskInv
<1> QED
  BY <1>2, <1>6

LEMMA ConnectedSession ==
  SessionInv /\ HandleConnected => NetInv' /\ TaskInv'
<1> SUFFICES ASSUME SessionInv, HandleConnected
             PROVE  NetInv' /\ TaskInv'
  OBVIOUS
<1>1. TypeInv /\ NetInv /\ TaskInv
  BY DEF SessionInv
<1>2. PICK u : StepsTo(u) /\ u.pc = "bonus" /\ u.i = cur[1].i /\ u.ability = cur[1].ability
  BY <1>1, ConnectedStep
<1>3. /\ cur # <<>> /\ cur[1].pc = "start" /\ UNCHANGED <<hist, apSlot, net>> /\ slot' = cur[1].slot
  BY DEF HandleConnected, apVars
<1>4. NetInv'
  BY <1>1, <1>3, NetSame
<1>5. slot' = apSlot /\ apSlot # NoSlot
  BY <1>1, <1>3 DEF TaskInv
<1>6. TaskOK(u)
  <2>1. UnderWay(cur[1])
    BY <1>1, <1>3, UnderWayFacts DEF TypeInv
  <2>2. TaskOK(cur[1])
    BY <1>1, <2>1 DEF TaskInv
  <2> QED
    BY <1>2, <1>3, <2>2 DEF TaskOK, StepsTo, SameBatch
<1>7. \A t : UnderWay(t)' <=> t = u \/ InWaiting(t)
  BY <1>1, <1>2, UnderWayFacts DEF TypeInv
<1>8. \A t : InWaiting(t) => UnderWay(t) /\ t.pc # "start"
  BY <1>1, UnderWayFacts DEF TypeInv, TaskInv, InWaiting
<1>9. /\ \A k \in DOMAIN waiting' : waiting'[k].pc # "start"
      /\ cur' # <<>> => cur'[1] = u
  BY <1>1, <1>2, <1>8, StepWaiting DEF TypeInv
<1>10. TaskInv'
  BY <1>1, <1>2, <1>3, <1>5, <1>6, <1>7, <1>8, <1>9 DEF TaskInv
<1> QED
  BY <1>4, <1>10

LEMMA ProcessSession ==
  SessionInv /\ ProcessItem => NetInv' /\ TaskInv'
<1> SUFFICES ASSUME SessionInv, ProcessItem
             PROVE  NetInv' /\ TaskInv'
  OBVIOUS
<1>1. TypeInv /\ TaskInv
  BY DEF SessionInv
<1>2. PICK u : StepsTo(u) /\ (Skips(cur[1], u) \/ Mirrors(cur[1], u))
  BY <1>1, ProcessStep
<1>3. cur[1].pc = "item" /\ cur[1].i \in DOMAIN cur[1].items
  BY <1>1, ProcessStep
<1>4. cur # <<>> /\ UNCHANGED <<hist, apSlot, net, slot>>
  BY DEF ProcessItem, apVars
<1>5. \/ u.pc = "item"
      \/ u.pc = "sent" /\ u.i = cur[1].i
  BY <1>2 DEF Skips, Mirrors
<1>6. TaskOK(cur[1])
  BY <1>1, <1>4, UnderWayFacts DEF TypeInv, TaskInv
<1>7. TaskOK(u)
  BY <1>2, <1>3, <1>5, <1>6 DEF TaskOK, StepsTo, SameBatch
<1> QED
  BY <1>2, <1>3, <1>4, <1>5, <1>7, StepSession

LEMMA GrantSession ==
  SessionInv /\ GrantBonus => NetInv' /\ TaskInv'
<1> SUFFICES ASSUME SessionInv, GrantBonus
             PROVE  NetInv' /\ TaskInv'
  OBVIOUS
<1>1. TypeInv /\ TaskInv
  BY DEF SessionInv
<1>2. PICK u : StepsTo(u) /\ u.pc = "item"
  BY <1>1, GrantStep
<1>3. cur # <<>> /\ cur[1].pc = "sent" /\ UNCHANGED <<hist, apSlot, net, slot>>
  BY DEF GrantBonus, apVars
<1>4. TaskOK(cur[1])
  BY <1>1, <1>3, UnderWayFacts DEF TypeInv, TaskInv
<1>5. TaskOK(u)
  BY <1>2, <1>3, <1>4 DEF TaskOK, StepsTo, SameBatch
<1> QED
  BY <1>2, <1>3, <1>5, StepSession

LEMMA SessionKept ==
  SessionInv /\ [Next]_vars => SessionInv'
<1> SUFFICES ASSUME SessionInv, [Next]_vars
             PROVE  SessionInv'
  OBVIOUS
<1>1. TypeInv'
  BY TypesKept DEF SessionInv
<1>2. UNCHANGED SessionVars => NetInv' /\ TaskInv'
  BY SessionSame DEF SessionInv
<1>3. ConnectedStashesBonus \/ PushDerived => NetInv' /\ TaskInv'
  <2> SUFFICES ASSUME ConnectedStashesBonus \/ PushDerived
               PROVE  NetInv' /\ TaskInv'
    OBVIOUS
  <2>1. /\ UNCHANGED <<hist, apSlot, net, slot>> /\ cur # <<>> /\ cur[1].pc \in {"bonus", "item"}
        /\ Finishes
    BY DEF ConnectedStashesBonus, PushDerived, apVars
  <2> QED
    BY <2>1, FinishSession
<1>4. SwitchConnects \/ ChecksPile \/ AbandonedCloses \/ BridgeSeesEof \/ LinkLost \/ LinkStalls
        \/ LinkDrains \/ SwitchReads \/ SaveLoad \/ TakeRehello \/ UNCHANGED vars => NetInv' /\ TaskInv'
  BY <1>2 DEF SessionVars, SwitchConnects, ChecksPile, AbandonedCloses, BridgeSeesEof, LinkLost,
              LinkStalls, LinkDrains, SwitchReads, SaveLoad, TakeRehello, vars, apVars, taskVars
<1>5. NetInv' /\ TaskInv'
  BY <1>3, <1>4, ServerSession, ClientSession, PackageSession, ResumeSession,
     ConnectedSession, ProcessSession, GrantSession, ZenonT(60) DEF Next
<1> QED
  BY <1>1, <1>5 DEF SessionInv

LEMMA InitSession ==
  Init => SessionInv
<1> SUFFICES ASSUME Init
             PROVE  SessionInv
  OBVIOUS
<1>1. TypeInv
  BY InitTyped
<1>2. /\ net = <<>> /\ cur = <<>> /\ waiting = <<>> /\ apSlot = NoSlot /\ slot = NoSlot
  BY DEF Init
<1>3. NetInv
  BY <1>2 DEF NetInv
<1>4. TaskInv
  BY <1>2 DEF TaskInv, UnderWay
<1> QED
  BY <1>1, <1>3, <1>4 DEF SessionInv

(***************************************************************************)
(* The mirror.                                                             *)
(***************************************************************************)

\* What a task has left as it moves on.
LEMMA LeftFacts ==
  ASSUME NEW t \in Tasks, NEW u \in Tasks, SameBatch(t, u)
  PROVE  /\ Left(t) \subseteq Nat
         /\ TaskOK(t) /\ t.pc \in {"start", "bonus"} => Left(t) = {}
         /\ t.pc = "item" /\ t.i > Len(t.items) => Left(t) = {}
         /\ t.pc = "item" /\ AlreadyMirrored(t) /\ u.pc = "item" /\ u.i = t.i + 1 =>
              Left(u) = Left(t)
         /\ t.pc = "sent" /\ u.pc = "item" /\ u.i = t.i + 1 => Left(u) = Left(t)
<1>1. /\ t.index \in Nat /\ t.i \in Nat \ {0} /\ t.mirrorLen \in Nat /\ Len(t.items) \in Nat
      /\ u.i \in Nat \ {0} /\ DOMAIN t.items = 1 .. Len(t.items)
  BY TaskFields
<1>2. u.index = t.index /\ u.items = t.items /\ u.mirrorLen = t.mirrorLen
  BY DEF SameBatch
<1> DEFINE m == t.mirrorLen
           x == t.index
           n == Len(t.items)
           i == t.i
<1>3. /\ Left(t) = {p \in Nat : p > m /\ p <= x + n /\ p > x + i - (IF t.pc = "sent" THEN 0 ELSE 1)}
      /\ Left(u) = {p \in Nat : p > m /\ p <= x + n /\ p > x + u.i - (IF u.pc = "sent" THEN 0 ELSE 1)}
  BY <1>2, Zenon DEF Left
<1>4. AlreadyMirrored(t) <=> x + i - 1 < m
  BY DEF AlreadyMirrored
<1>5. m \in Nat /\ x \in Nat /\ n \in Nat /\ i \in Nat \ {0}
  BY <1>1
<1>6. TaskOK(t) /\ t.pc \in {"start", "bonus"} => x = 0 /\ n = 0
  <2>1. Len(<<>>) = 0
    OBVIOUS
  <2> QED
    BY <2>1 DEF TaskOK
<1> HIDE DEF m, x, n
<1>8. Left(t) \subseteq Nat
  BY <1>3
<1>9. TaskOK(t) /\ t.pc \in {"start", "bonus"} => Left(t) = {}
  BY <1>3, <1>5, <1>6
<1>10. t.pc = "item" /\ i > n => Left(t) = {}
  BY <1>3, <1>5
<1>11. t.pc = "item" /\ AlreadyMirrored(t) /\ u.pc = "item" /\ u.i = i + 1 => Left(u) = Left(t)
  BY <1>3, <1>4, <1>5
<1>12. t.pc = "sent" /\ u.pc = "item" /\ u.i = i + 1 => Left(u) = Left(t)
  BY <1>3, <1>5
<1> QED
  BY <1>8, <1>9, <1>10, <1>11, <1>12 DEF n

\* One of its items is mirrored.
LEMMA LeftOne ==
  ASSUME NEW t \in Tasks, NEW u \in Tasks, SameBatch(t, u),
         t.pc = "item", ~AlreadyMirrored(t), t.i \in DOMAIN t.items,
         (u.pc = "item" /\ u.i = t.i + 1) \/ (u.pc = "sent" /\ u.i = t.i)
  PROVE  t.index + t.i \in Left(t) /\ Left(u) = Left(t) \ {t.index + t.i}
<1>1. PICK m \in Nat, x \in Nat, n \in Nat, i \in Nat \ {0} :
        m = t.mirrorLen /\ x = t.index /\ n = Len(t.items) /\ i = t.i
  BY TaskFields
<1>2. u.index = x /\ Len(u.items) = n /\ u.mirrorLen = m
  BY <1>1 DEF SameBatch
<1>3. i <= n /\ ~(x + i - 1 < m)
  <2>1. DOMAIN t.items = 1 .. Len(t.items)
    BY TaskFields
  <2> QED
    BY <1>1, <2>1 DEF AlreadyMirrored
<1>4. Left(t) = {p \in Nat : p > m /\ p <= x + n /\ p > x + i - 1}
  BY <1>1 DEF Left
<1>5. Left(u) = {p \in Nat : p > m /\ p <= x + n /\ p > x + i}
  <2>1. CASE u.pc = "item" /\ u.i = t.i + 1
    <3>1. Left(u) = {p \in Nat : p > m /\ p <= x + n /\ p > x + u.i - 1}
      BY <1>2, <2>1 DEF Left
    <3>2. u.i = i + 1
      BY <1>1, <2>1
    <3> QED
      BY <3>1, <3>2
  <2>2. CASE u.pc = "sent" /\ u.i = t.i
    <3>1. Left(u) = {p \in Nat : p > m /\ p <= x + n /\ p > x + u.i - 0}
      BY <1>2, <2>2 DEF Left
    <3>2. u.i = i
      BY <1>1, <2>2
    <3> QED
      BY <3>1, <3>2
  <2> QED
    BY <2>1, <2>2
<1>6. x + i \in Left(t) /\ Left(u) = Left(t) \ {x + i}
  BY <1>3, <1>4, <1>5
<1> QED
  BY <1>1, <1>6

\* How many of the positions T of h have the item.
Found(T, h, it) == Cardinality({q \in T : h[q] = it})

\* R has the position p on top of the positions T.
OneOver(d, T, p, R) == d \in Nat /\ T \subseteq 1 .. d /\ p \notin T /\ R = T \cup {p}

\* One more position.
LEMMA OneMirrored ==
  ASSUME NEW d, NEW T, NEW p, NEW R, OneOver(d, T, p, R), NEW h, NEW it
  PROVE  /\ h[p] = it => Found(R, h, it) = Found(T, h, it) + 1
         /\ h[p] # it => Found(R, h, it) = Found(T, h, it)
<1> DEFINE Q == {q \in T : h[q] = it}
<1>0. d \in Nat /\ T \subseteq 1 .. d /\ p \notin T /\ R = T \cup {p}
  BY DEF OneOver
<1>1. Q \subseteq 1 .. d /\ p \notin Q
  BY <1>0
<1>2. CASE h[p] = it
  <2>1. {q \in R : h[q] = it} = Q \cup {p}
    BY <1>0, <1>2
  <2> HIDE DEF Q
  <2>2. Cardinality(Q \cup {p}) = Cardinality(Q) + 1
    BY <1>0, <1>1, OneMore
  <2> QED
    BY <1>2, <2>1, <2>2 DEF Q, Found
<1>3. CASE h[p] # it
  <2>1. {q \in R : h[q] = it} = Q
    BY <1>0, <1>3
  <2> HIDE DEF Q
  <2> QED
    BY <1>3, <2>1 DEF Q, Found
<1> QED
  BY <1>2, <1>3

\* What has no part in the mirror.
MirrorVars == <<hist, apSlot, net, slot, cur, waiting, received_items, raced, mistaken>>

LEMMA MirrorSame ==
  MirrorInv /\ UNCHANGED MirrorVars => MirrorInv'
<1> SUFFICES ASSUME MirrorInv, UNCHANGED MirrorVars
             PROVE  MirrorInv'
  OBVIOUS
<1> USE DEF MirrorVars
<1>1. /\ \A t : UnderWay(t)' <=> UnderWay(t)
      /\ LoggingIn' <=> LoggingIn
      /\ Start(1)' = Start(1)
  BY DEF UnderWay, LoggingIn, Start
<1>2. \A t : OfSlot(t)' <=> OfSlot(t)
  BY DEF OfSlot
<1>3. Apart' <=> Apart
  BY DEF Apart
<1>4. LeftAll' = LeftAll
  BY <1>1 DEF LeftAll
<1>5. \A d : Mirrored(d) => Mirrored(d)'
  BY <1>4 DEF Mirrored
<1>6. \A d : GoesOn(d) => GoesOn(d)'
  BY <1>1 DEF GoesOn
<1>7. ApartInv' <=> ApartInv
  BY <1>1, <1>2, <1>3 DEF ApartInv
<1> QED
  BY <1>5, <1>6, <1>7 DEF MirrorInv

\* The tasks stay apart as the running one goes on.
LEMMA StepApart ==
  ASSUME TasksOK, NEW u, StepsTo(u), Apart,
         \A k \in DOMAIN waiting : Left(waiting[k]) \cap Left(u) = {}
  PROVE  Apart'
<1>1. waiting \in Seq(Tasks) /\ u \in Tasks /\ DOMAIN waiting = 1 .. Len(waiting) /\ Len(waiting) \in Nat
  BY DEF TasksOK, StepsTo
<1>2. CASE cur' = <<u>> /\ waiting' = waiting
  <2>1. DOMAIN <<u>> = {1} /\ <<u>>[1] = u
    OBVIOUS
  <2> QED
    BY <1>2, <2>1 DEF Apart
<1>3. CASE cur' = <<>> /\ waiting' = Append(waiting, u)
  <2> DEFINE n == Len(waiting) + 1
             q == Append(waiting, u)
  <2>1. /\ DOMAIN q = DOMAIN waiting \cup {n} /\ q[n] = u /\ n \notin DOMAIN waiting
        /\ \A k \in DOMAIN waiting : q[k] = waiting[k]
    BY <1>1
  <2> HIDE DEF n, q
  <2>2. \A k \in DOMAIN q, l \in DOMAIN q : k # l => Left(q[k]) \cap Left(q[l]) = {}
    <3>1. TAKE k \in DOMAIN q, l \in DOMAIN q
    <3>2. HAVE k # l
    <3>3. CASE k # n /\ l # n
      <4>1. k \in DOMAIN waiting /\ l \in DOMAIN waiting \ {k}
        BY <2>1, <3>2, <3>3
      <4> QED
        BY <2>1, <4>1 DEF Apart
    <3>4. CASE k = n
      <4>1. l \in DOMAIN waiting
        BY <2>1, <3>2, <3>4
      <4>2. Left(q[l]) \cap Left(u) = {}
        BY <2>1, <4>1
      <4> QED
        BY <2>1, <3>4, <4>2
    <3>5. CASE l = n
      <4>1. k \in DOMAIN waiting
        BY <2>1, <3>2, <3>5
      <4>2. Left(q[k]) \cap Left(u) = {}
        BY <2>1, <4>1
      <4> QED
        BY <2>1, <3>5, <4>2
    <3> QED
      BY <3>3, <3>4, <3>5
  <2>3. waiting' = q /\ DOMAIN cur' = {}
    BY <1>3 DEF q
  <2> QED
    BY <2>2, <2>3 DEF Apart
<1> QED
  BY <1>2, <1>3, Zenon DEF StepsTo, Goes, Await

\* A task that goes on without mirroring anything.
LEMMA StepMirror ==
  ASSUME SessionInv, MirrorInv, UNCHANGED <<hist, apSlot, net, slot, received_items, raced, mistaken>>,
         cur[1].pc # "start", NEW u, StepsTo(u), u.pc # "start", Left(u) = Left(cur[1])
  PROVE  MirrorInv'
<1> SUFFICES ASSUME ~raced, ~mistaken
             PROVE  MirrorInv'
  BY DEF MirrorInv
<1>1. TypeInv /\ TasksOK /\ cur # <<>> /\ SameBatch(cur[1], u)
  BY DEF SessionInv, TypeInv, StepsTo
<1>2. ApartInv
  BY DEF MirrorInv
<1>3. /\ \A t : UnderWay(t) <=> t = cur[1] \/ InWaiting(t)
      /\ \A t : UnderWay(t)' <=> t = u \/ InWaiting(t)
      /\ DOMAIN cur = {1}
  BY <1>1, UnderWayFacts, TasksTyped
<1>4. cur' # <<>> => cur'[1] = u
  BY <1>1, StepWaiting
<1>5. Apart'
  <2>1. \A k \in DOMAIN waiting : Left(waiting[k]) \cap Left(u) = {}
    BY <1>2, <1>3 DEF ApartInv, Apart
  <2> QED
    BY <1>1, <1>2, <2>1, StepApart DEF ApartInv
<1>6. ApartInv'
  <2>1. \A t : OfSlot(t)' <=> OfSlot(t)
    BY DEF OfSlot
  <2>2. u.cmd = "ReceivedItems" => OfSlot(u)
    <3>1. cur[1].cmd = "ReceivedItems" => OfSlot(cur[1])
      BY <1>2, <1>3 DEF ApartInv
    <3> QED
      BY <1>1, <3>1 DEF SameBatch, OfSlot
  <2>3. \A t : UnderWay(t)' /\ t.cmd = "ReceivedItems" => OfSlot(t)'
    BY <1>2, <1>3, <2>1, <2>2 DEF ApartInv
  <2> QED
    BY <1>4, <1>5, <2>3 DEF ApartInv
<1>7. LeftAll' = LeftAll
  BY <1>3 DEF LeftAll
<1>8. LoggingIn' <=> LoggingIn
  BY <1>1, <1>4 DEF LoggingIn
<1>9. \A d : Mirrored(d) => Mirrored(d)'
  BY <1>7 DEF Mirrored
<1>10. \A d : GoesOn(d) => GoesOn(d)'
  BY <1>8 DEF GoesOn, Start
<1> QED
  BY <1>6, <1>9, <1>10 DEF MirrorInv

\* A task with nothing left that is done.
LEMMA FinishMirror ==
  ASSUME SessionInv, MirrorInv, UNCHANGED <<hist, apSlot, net, slot, received_items, raced, mistaken>>,
         cur # <<>>, cur[1].pc # "start", Finishes, Left(cur[1]) = {}
  PROVE  MirrorInv'
<1> SUFFICES ASSUME ~raced, ~mistaken
             PROVE  MirrorInv'
  BY DEF MirrorInv
<1>1. TypeInv /\ TasksOK
  BY DEF SessionInv, TypeInv
<1>2. ApartInv
  BY DEF MirrorInv
<1>3. /\ \A t : UnderWay(t) <=> t = cur[1] \/ InWaiting(t)
      /\ \A t : UnderWay(t)' <=> InWaiting(t)
  BY <1>1, UnderWayFacts
<1>4. cur' = <<>> /\ waiting' = waiting /\ DOMAIN cur' = {}
  BY DEF Finishes
<1>5. Apart'
  BY <1>2, <1>4 DEF ApartInv, Apart
<1>6. ApartInv'
  <2>1. \A t : OfSlot(t)' <=> OfSlot(t)
    BY DEF OfSlot
  <2>2. \A t : UnderWay(t)' /\ t.cmd = "ReceivedItems" => OfSlot(t)'
    BY <1>2, <1>3, <2>1 DEF ApartInv
  <2> QED
    BY <1>4, <1>5, <2>2 DEF ApartInv
<1>7. LeftAll' = LeftAll
  BY <1>3 DEF LeftAll
<1>8. LoggingIn' <=> LoggingIn
  BY <1>4 DEF LoggingIn
<1>9. \A d : Mirrored(d) => Mirrored(d)'
  BY <1>7 DEF Mirrored
<1>10. \A d : GoesOn(d) => GoesOn(d)'
  BY <1>8 DEF GoesOn, Start
<1> QED
  BY <1>6, <1>9, <1>10 DEF MirrorInv

LEMMA ServerMirror ==
  SessionInv /\ MirrorInv /\ (\E s \in Slots, it \in Items : ServerSends(s, it)) => MirrorInv'
<1> SUFFICES ASSUME SessionInv, MirrorInv, NEW s \in Slots, NEW it \in Items, ServerSends(s, it)
             PROVE  MirrorInv'
  OBVIOUS
<1> SUFFICES ASSUME ~raced, ~mistaken
             PROVE  MirrorInv'
  BY DEF MirrorInv, ServerSends, ghostVars
<1>1. TypeInv /\ NetInv /\ TaskInv /\ TasksOK /\ ApartInv
  BY DEF SessionInv, TypeInv, MirrorInv
<1>2. cur = <<>> /\ UNCHANGED <<apSlot, slot, cur, waiting, received_items>>
  BY DEF ServerSends, taskVars
<1>3. \A r \in Slots : /\ hist[r] \in Seq(Items) /\ Len(hist[r]) \in Nat /\ Len(hist'[r]) \in Nat
                       /\ Len(hist'[r]) = Len(hist[r]) + (IF r = s THEN 1 ELSE 0)
                       /\ \A p \in 1 .. Len(hist[r]) : hist'[r][p] = hist[r][p]
                       /\ r # s => hist'[r] = hist[r]
  BY <1>1, HistGrows, NetFacts
<1>0. \A r \in Slots : Len(hist[r]) <= Len(hist'[r])
  <2>1. TAKE r \in Slots
  <2>2. PICK a \in Nat : a = Len(hist[r])
    BY <1>3
  <2>3. Len(hist'[r]) = a \/ Len(hist'[r]) = a + 1
    BY <1>3, <2>2
  <2> QED
    BY <2>2, <2>3
<1>4. \A t : UnderWay(t)' <=> UnderWay(t)
  BY <1>2 DEF UnderWay
<1>5. ASSUME NEW t, UnderWay(t), t.cmd = "ReceivedItems"
      PROVE  OfSlot(t)'
  <2>1. OfSlot(t) /\ t \in Tasks
    BY <1>1, <1>5, UnderWayFacts DEF ApartInv
  <2>2. slot \in Slots /\ t.index \in Nat /\ Len(t.items) \in Nat /\ DOMAIN t.items = 1 .. Len(t.items)
    BY <2>1, TaskFields DEF OfSlot
  <2>3. ASSUME NEW j \in DOMAIN t.items
        PROVE  t.items[j] = hist'[slot][t.index + j]
    <3>1. t.items[j] = hist[slot][t.index + j]
      BY <2>1 DEF OfSlot
    <3>2. t.index + j \in 1 .. Len(hist[slot])
      <4>1. t.index + Len(t.items) <= Len(hist[slot]) /\ Len(hist[slot]) \in Nat
        BY <1>3, <2>1, <2>2 DEF OfSlot
      <4>2. j \in 1 .. Len(t.items)
        BY <2>2
      <4>3. \A a, m, l \in Nat : \A i \in 1 .. m : a + m <= l => a + i \in 1 .. l
        OBVIOUS
      <4> QED
        BY <2>2, <4>1, <4>2, <4>3
    <3> QED
      BY <1>3, <2>2, <3>1, <3>2
  <2>4. t.index + Len(t.items) <= Len(hist'[slot])
    <3>1. t.index + Len(t.items) <= Len(hist[slot])
      BY <2>1 DEF OfSlot
    <3>2. Len(hist[slot]) <= Len(hist'[slot]) /\ Len(hist[slot]) \in Nat /\ Len(hist'[slot]) \in Nat
      BY <1>0, <1>3, <2>2
    <3>3. \A a, m, l, l2 \in Nat : a + m <= l /\ l <= l2 => a + m <= l2
      OBVIOUS
    <3> QED
      BY <2>2, <3>1, <3>2, <3>3
  <2> QED
    BY <1>2, <2>1, <2>3, <2>4 DEF OfSlot
<1>6. ApartInv'
  <2>1. Apart'
    BY <1>1, <1>2 DEF ApartInv, Apart
  <2> QED
    BY <1>1, <1>2, <1>4, <1>5, <2>1 DEF ApartInv
<1>7. LeftAll' = LeftAll
  BY <1>4 DEF LeftAll
<1>8. ASSUME slot # NoSlot
      PROVE  \E d \in 0 .. Len(hist'[slot]) : Mirrored(d)' /\ GoesOn(d)'
  <2>1. PICK d \in 0 .. Len(hist[slot]) : Mirrored(d) /\ GoesOn(d)
    BY <1>8 DEF MirrorInv
  <2>2. slot \in Slots
    BY <1>1, <1>8 DEF TypeInv, BridgeOK
  <2>3. d \in Nat /\ d <= Len(hist[slot]) /\ d \in 0 .. Len(hist'[slot])
    <3>1. PICK a \in Nat, b \in Nat : a = Len(hist[slot]) /\ b = Len(hist'[slot]) /\ a <= b
      BY <1>0, <1>3, <2>2
    <3> QED
      BY <3>1
  <2>4. Mirrored(d)'
    <3>1. \A x : {p \in (1 .. d) \ LeftAll : hist'[slot][p] = x}
                   = {p \in (1 .. d) \ LeftAll : hist[slot][p] = x}
      <4>1. \A p \in 1 .. d : hist'[slot][p] = hist[slot][p]
        <5>1. Len(hist[slot]) \in Nat /\ \A p \in 1 .. Len(hist[slot]) : hist'[slot][p] = hist[slot][p]
          BY <1>3, <2>2
        <5>2. 1 .. d \subseteq 1 .. Len(hist[slot])
          BY <2>3, <5>1
        <5> QED
          BY <5>1, <5>2
      <4> QED
        BY <4>1
    <3> QED
      BY <1>2, <1>7, <2>1, <3>1 DEF Mirrored
  <2>5. GoesOn(d)'
    <3>1. CASE apSlot # s
      <4>1. net' = net
        BY <1>1, <3>1, NetGrows
      <4>2. LoggingIn' <=> LoggingIn
        BY <1>2, <4>1 DEF LoggingIn
      <4>3. ~LoggingIn => slot = apSlot /\ hist'[slot] = hist[slot]
        BY <1>1, <1>3, <2>2, <3>1 DEF TaskInv
      <4>4. ~LoggingIn => Start(1)' = Start(1)
        BY <1>2, <4>1, <4>3 DEF Start
      <4> QED
        BY <1>2, <2>1, <4>1, <4>2, <4>3, <4>4 DEF GoesOn
    <3>2. CASE apSlot = s
      <4>1. PICK n \in Nat : n = Len(net)
        BY <1>1, NetFacts
      <4>2. /\ Len(net') = n + 1 /\ DOMAIN net' = 1 .. (n + 1)
            /\ \A k \in 1 .. n : net'[k] = net[k]
            /\ net'[n + 1].index = Len(hist[s]) /\ net'[n + 1].items = <<it>>
        BY <3>2, <4>1, NetGrows
      <4>3. net' # <<>> /\ Len(<<it>>) = 1 /\ DOMAIN net = 1 .. n /\ (n = 0 => net = <<>>)
        <5>1. net \in Seq(Packages) /\ net' \in Seq(Packages)
          BY <1>1, ServerTyped DEF TypeInv, TasksOK
        <5> QED
          BY <4>1, <4>2, <5>1
      <4>4. ~LoggingIn' => ~LoggingIn
        <5>1. net # <<>> => net'[1] = net[1]
          BY <4>2, <4>3
        <5> QED
          BY <1>2, <4>3, <5>1 DEF LoggingIn
      <4>5. ASSUME ~LoggingIn'
            PROVE  Start(1)' \in {0, d}
        <5>1. Start(1) \in {0, d} /\ (net = <<>> => d = Len(hist[slot])) /\ slot = apSlot
          BY <1>1, <2>1, <4>4, <4>5 DEF GoesOn, TaskInv
        <5>2. CASE n = 0
          <6>1. net'[1].index = d /\ 1 <= Len(net')
            BY <3>2, <4>2, <4>3, <5>1, <5>2
          <6> QED
            BY <6>1 DEF Start
        <5>3. CASE n # 0
          <6>1. net'[1] = net[1] /\ 1 <= Len(net') /\ 1 <= Len(net)
            BY <4>1, <4>2, <5>3
          <6> QED
            BY <5>1, <6>1 DEF Start
        <5> QED
          BY <5>2, <5>3
      <4>6. ASSUME slot = apSlot, NEW k \in DOMAIN net', k <= 2, net'[k].cmd = "ReceivedItems",
                   net'[k].index = 0
            PROVE  d <= Len(net'[k].items)
        <5>1. CASE k \in 1 .. n
          BY <2>1, <4>2, <4>3, <4>6, <5>1 DEF GoesOn
        <5>2. CASE k = n + 1
          BY <2>3, <3>2, <4>2, <4>3, <4>6, <5>2
        <5> QED
          BY <4>2, <5>1, <5>2
      <4> QED
        BY <1>2, <4>3, <4>5, <4>6 DEF GoesOn
    <3> QED
      BY <3>1, <3>2
  <2> QED
    BY <2>3, <2>4, <2>5
<1>9. slot = NoSlot => received_items = <<>>
  BY DEF MirrorInv
<1> QED
  BY <1>2, <1>6, <1>8, <1>9 DEF MirrorInv

LEMMA ClientMirror ==
  SessionInv /\ MirrorInv /\ (\E s \in Slots : ClientConnects(s)) => MirrorInv'
<1> SUFFICES ASSUME SessionInv, MirrorInv, NEW s \in Slots, ClientConnects(s), ~raced, ~mistaken
             PROVE  MirrorInv'
  BY DEF MirrorInv, ClientConnects, ghostVars
<1>1. TypeInv /\ NetInv /\ TaskInv /\ ApartInv
  BY DEF SessionInv, TypeInv, MirrorInv
<1>2. cur = <<>> /\ UNCHANGED <<hist, slot, cur, waiting, received_items>>
  BY DEF ClientConnects, taskVars
<1>3. /\ apSlot' = s /\ hist[s] \in Seq(Items) /\ Len(hist[s]) \in Nat
      /\ net' # <<>> /\ net'[1].cmd = "Connected"
      /\ hist[s] = <<>> => DOMAIN net' = {1}
      /\ hist[s] # <<>> => DOMAIN net' = {1, 2} /\ net'[2].items = hist[s]
  BY <1>1, LoginFacts
<1>4. \A t : UnderWay(t)' <=> UnderWay(t)
  BY <1>2 DEF UnderWay
<1>5. ApartInv'
  <2>1. Apart'
    BY <1>1, <1>2 DEF ApartInv, Apart
  <2>2. \A t : OfSlot(t)' <=> OfSlot(t)
    BY <1>2 DEF OfSlot
  <2> QED
    BY <1>1, <1>2, <1>4, <2>1, <2>2 DEF ApartInv
<1>6. LeftAll' = LeftAll
  BY <1>4 DEF LeftAll
<1>7. LoggingIn'
  BY <1>3 DEF LoggingIn
<1>8. ASSUME NEW d \in 0 .. Len(hist[slot]), Mirrored(d), GoesOn(d)
      PROVE  Mirrored(d)' /\ GoesOn(d)'
  <2>1. Mirrored(d)'
    BY <1>2, <1>6, <1>8 DEF Mirrored
  <2>2. ASSUME slot = s, NEW k \in DOMAIN net', net'[k].cmd = "ReceivedItems"
        PROVE  d <= Len(net'[k].items)
    <3>1. k = 2 /\ net'[2].items = hist[s]
      BY <1>3, <2>2
    <3> QED
      BY <1>8, <2>2, <3>1
  <2>3. GoesOn(d)'
    BY <1>2, <1>3, <1>7, <2>2 DEF GoesOn
  <2> QED
    BY <2>1, <2>3
<1>9. slot # NoSlot => \E d \in 0 .. Len(hist[slot]) : Mirrored(d)' /\ GoesOn(d)'
  BY <1>8 DEF MirrorInv
<1>10. slot = NoSlot => received_items = <<>>
  BY DEF MirrorInv
<1> QED
  BY <1>2, <1>5, <1>9, <1>10 DEF MirrorInv

LEMMA ResumeMirror ==
  SessionInv /\ MirrorInv /\ Resume => MirrorInv'
<1> SUFFICES ASSUME SessionInv, MirrorInv, Resume, ~raced, ~mistaken
             PROVE  MirrorInv'
  BY DEF MirrorInv, Resume, ghostVars
<1>1. TypeInv /\ TasksOK /\ TaskInv /\ ApartInv
  BY DEF SessionInv, TypeInv, MirrorInv
<1>2. UNCHANGED <<hist, apSlot, net, slot, received_items, raced, mistaken>>
  BY DEF Resume, apVars, ghostVars
<1>3. /\ cur = <<>> /\ cur' # <<>> /\ cur'[1] = waiting[1] /\ 1 \in DOMAIN waiting
      /\ DOMAIN cur' = {1}
      /\ \A k \in DOMAIN waiting' : k + 1 \in DOMAIN waiting /\ waiting'[k] = waiting[k + 1]
      /\ \A t : UnderWay(t)' <=> UnderWay(t)
  BY <1>1, ResumeFacts
<1>4. cur'[1].pc # "start"
  BY <1>1, <1>3 DEF TaskInv
<1>5. /\ DOMAIN waiting \subseteq Nat /\ DOMAIN waiting' \subseteq Nat \ {0}
  <2>1. waiting \in Seq(Tasks) /\ waiting' \in Seq(Tasks)
    BY <1>1, ResumeFacts DEF TasksOK
  <2> QED
    BY <2>1
<1>6. Apart'
  <2>1. ASSUME NEW k \in DOMAIN waiting', NEW l \in DOMAIN waiting' \ {k}
        PROVE  Left(waiting'[k]) \cap Left(waiting'[l]) = {}
    <3>1. k + 1 \in DOMAIN waiting /\ l + 1 \in DOMAIN waiting \ {k + 1}
      BY <1>3, <1>5
    <3>2. Left(waiting[k + 1]) \cap Left(waiting[l + 1]) = {}
      BY <1>1, <3>1 DEF ApartInv, Apart
    <3>3. waiting'[k] = waiting[k + 1] /\ waiting'[l] = waiting[l + 1]
      BY <1>3
    <3> QED
      BY <3>2, <3>3
  <2>2. ASSUME NEW k \in DOMAIN waiting'
        PROVE  Left(waiting'[k]) \cap Left(cur'[1]) = {}
    <3>1. k + 1 \in DOMAIN waiting /\ 1 \in DOMAIN waiting \ {k + 1}
      BY <1>3, <1>5
    <3>2. Left(waiting[k + 1]) \cap Left(waiting[1]) = {}
      BY <1>1, <3>1 DEF ApartInv, Apart
    <3>3. waiting'[k] = waiting[k + 1]
      BY <1>3
    <3> QED
      BY <1>3, <3>2, <3>3
  <2> QED
    BY <1>3, <2>1, <2>2 DEF Apart
<1>7. ApartInv'
  <2>1. \A t : OfSlot(t)' <=> OfSlot(t)
    BY <1>2 DEF OfSlot
  <2> QED
    BY <1>1, <1>3, <1>4, <1>6, <2>1 DEF ApartInv
<1>8. LeftAll' = LeftAll
  BY <1>3 DEF LeftAll
<1>9. LoggingIn' <=> LoggingIn
  BY <1>2, <1>3, <1>4 DEF LoggingIn
<1>10. \A d : Mirrored(d) => Mirrored(d)'
  BY <1>2, <1>8 DEF Mirrored
<1>11. \A d : GoesOn(d) => GoesOn(d)'
  BY <1>2, <1>9 DEF GoesOn, Start
<1> QED
  BY <1>2, <1>7, <1>10, <1>11 DEF MirrorInv

LEMMA ConnectedMirror ==
  SessionInv /\ LoginAlone /\ MirrorInv /\ HandleConnected => MirrorInv'
<1> SUFFICES ASSUME SessionInv, LoginAlone, MirrorInv, HandleConnected, ~raced, ~mistaken'
             PROVE  MirrorInv'
  BY DEF MirrorInv, HandleConnected
<1>1. TypeInv /\ NetInv /\ TasksOK /\ TaskInv
  BY DEF SessionInv, TypeInv
<1>2. PICK u : StepsTo(u) /\ u.pc = "bonus"
  BY <1>1, ConnectedStep
<1>3. /\ cur # <<>> /\ cur[1].pc = "start" /\ UNCHANGED <<hist, apSlot, net, raced>>
      /\ slot' = cur[1].slot
      /\ \/ slot # NoSlot /\ slot # cur[1].slot /\ received_items' = <<>>
         \/ /\ ~(slot # NoSlot /\ slot # cur[1].slot)
            /\ received_items' = received_items /\ mistaken' = mistaken
  BY DEF HandleConnected, apVars, clear_received
<1>4. /\ slot' = apSlot /\ apSlot # NoSlot /\ Start(1) = 0
      /\ waiting = <<>> /\ \A t : ~InWaiting(t)
  BY <1>1, <1>3 DEF TaskInv, LoginAlone, InWaiting
<1>5. TaskOK(cur[1]) /\ cur[1] \in Tasks /\ u \in Tasks /\ SameBatch(cur[1], u)
  BY <1>1, <1>2, <1>3, UnderWayFacts DEF TaskInv, StepsTo
<1>6. TaskOK(u)
  BY <1>2, <1>1, ConnectedSession, <1>5, UnderWayFacts DEF TaskInv, SessionInv
<1>7. Left(cur[1]) = {} /\ Left(u) = {}
  <2>1. SameBatch(u, u)
    BY DEF SameBatch
  <2> QED
    BY <1>2, <1>3, <1>5, <1>6, <2>1, LeftFacts
<1>8. LeftAll = {} /\ LeftAll' = {}
  <2>1. \A t : UnderWay(t) => t = cur[1]
    BY <1>1, <1>3, <1>4, UnderWayFacts
  <2>2. \A t : UnderWay(t)' => t = u
    BY <1>1, <1>2, <1>4, UnderWayFacts
  <2> QED
    BY <1>7, <2>1, <2>2 DEF LeftAll
<1>9. ApartInv'
  <2>1. cur' # <<>> => cur'[1] = u
    BY <1>1, <1>2, StepWaiting
  <2>2. \A t : UnderWay(t)' => t.cmd # "ReceivedItems"
    <3>1. u.cmd = "Connected"
      BY <1>2, <1>6 DEF TaskOK
    <3> QED
      BY <1>1, <1>2, <1>4, <3>1, UnderWayFacts
  <2>3. Apart'
    <3>1. Apart /\ \A k \in DOMAIN waiting : Left(waiting[k]) \cap Left(u) = {}
      BY <1>4 DEF Apart
    <3> QED
      BY <1>1, <1>2, <3>1, StepApart
  <2> QED
    BY <1>2, <2>1, <2>2, <2>3 DEF ApartInv
<1>10. /\ apSlot \in Slots /\ Len(hist[apSlot]) \in Nat
       /\ net = <<>> => Len(hist[apSlot]) = 0
  <2>1. apSlot \in Slots /\ Len(hist[apSlot]) \in Nat
    BY <1>1, <1>4, NetFacts
  <2>2. net = <<>> => ~(1 <= Len(net))
    OBVIOUS
  <2> QED
    BY <1>4, <2>1, <2>2 DEF Start
<1>11. ASSUME NEW d \in 0 .. Len(hist[apSlot]), Mirrored(d)', d = 0 \/ (slot = apSlot /\ GoesOn(d))
       PROVE  GoesOn(d)'
  <2>1. Start(1)' = 0
    BY <1>3, <1>4 DEF Start
  <2>2. net = <<>> => d = Len(hist[apSlot])
    BY <1>10
  <2>3. \A k \in DOMAIN net : k <= 2 /\ net[k].cmd = "ReceivedItems" /\ net[k].index = 0 =>
                                d <= Len(net[k].items)
    <3>1. CASE d = 0
      BY <1>1, <3>1, NetFacts
    <3>2. CASE slot = apSlot /\ GoesOn(d)
      BY <3>2 DEF GoesOn
    <3> QED
      BY <1>11, <3>1, <3>2
  <2> QED
    BY <1>3, <1>4, <2>1, <2>2, <2>3 DEF GoesOn
<1>12. CASE received_items' = <<>>
  <2>1. /\ 1 .. 0 = {} /\ Len(<<>>) = 0 /\ Cardinality({}) = 0
        /\ \A it : Count(<<>>, it) = 0
    <3>1. <<>> \in Seq(Items)
      OBVIOUS
    <3>2. \A it : Count(<<>>, it) = 0
      BY <3>1, CountFacts
    <3>3. Cardinality({}) = 0
      BY FS_EmptySet
    <3>4. 1 .. 0 = {} /\ Len(<<>>) = 0
      OBVIOUS
    <3> QED
      BY <3>2, <3>3, <3>4
  <2>2. Mirrored(0)'
    <3>1. \A it : {p \in (1 .. 0) \ {} : hist'[slot'][p] = it} = {}
      BY <2>1
    <3> QED
      BY <1>8, <1>12, <2>1, <3>1 DEF Mirrored
  <2>3. 0 \in 0 .. Len(hist[apSlot])
    BY <1>10
  <2> QED
    BY <1>3, <1>4, <1>9, <1>11, <2>2, <2>3 DEF MirrorInv
<1>13. CASE slot # NoSlot /\ slot = cur[1].slot /\ received_items' = received_items /\ ~mistaken
  <2>1. slot = apSlot
    BY <1>3, <1>4, <1>13
  <2>2. PICK d \in 0 .. Len(hist[slot]) : Mirrored(d) /\ GoesOn(d)
    BY <1>13 DEF MirrorInv
  <2>3. Mirrored(d)'
    BY <1>3, <1>4, <1>8, <1>13, <2>1, <2>2 DEF Mirrored
  <2> QED
    BY <1>3, <1>4, <1>9, <1>11, <2>1, <2>2, <2>3 DEF MirrorInv
<1>14. CASE slot = NoSlot /\ received_items' = received_items /\ ~mistaken
  BY <1>12, <1>14 DEF MirrorInv
<1> QED
  BY <1>3, <1>12, <1>13, <1>14

LEMMA PackageMirror ==
  SessionInv /\ MirrorInv /\ on_package => MirrorInv'
<1> SUFFICES ASSUME SessionInv, MirrorInv, on_package
             PROVE  MirrorInv'
  OBVIOUS
<1> SUFFICES ASSUME ~raced', ~mistaken'
             PROVE  MirrorInv'
  BY DEF MirrorInv
<1>1. TypeInv /\ NetInv /\ TasksOK /\ TaskInv
  BY DEF SessionInv, TypeInv
<1>2. PICK n \in Nat : n = Len(net)
  BY <1>1, NetFacts
<1>3. UNCHANGED <<hist, apSlot, slot, received_items>>
  BY DEF on_package
<1>p. PICK p : p = net[1]
  OBVIOUS
<1>u. PICK u : u = Task(p)
  OBVIOUS
<1>4. /\ cur = <<>> /\ waiting' = waiting
      /\ cur' # <<>> /\ DOMAIN cur' = {1} /\ cur'[1] = u
      /\ 1 \in 1 .. n
      /\ Len(net') = n - 1 /\ DOMAIN net' = 1 .. (n - 1)
      /\ \A k \in 1 .. (n - 1) : k + 1 \in 1 .. n /\ net'[k] = net[k + 1]
      /\ \A t : UnderWay(t)' <=> t = u \/ InWaiting(t)
  BY <1>2, <1>p, <1>u, PackageFacts
<1>5. ~raced /\ ~mistaken /\ ApartInv /\ (waiting = <<>> \/ p.index # 0)
  <2>1. Head(net) = p
    BY <1>1, <1>2, <1>4, <1>p DEF TasksOK
  <2> QED
    BY <2>1, Zenon DEF on_package, MirrorInv
<1>6. \A k \in 1 .. n : /\ PieceOK(k) /\ apSlot \in Slots /\ Len(hist[apSlot]) \in Nat
                        /\ net[k].index \in Nat /\ net[k].items \in Seq(Items)
                        /\ Len(net[k].items) \in Nat
                        /\ net[k].cmd \in {"Connected", "ReceivedItems"}
  BY <1>1, <1>2, NetFacts
<1>7. /\ p.cmd \in {"Connected", "ReceivedItems"} /\ u \in Tasks
      /\ u.cmd = p.cmd /\ u.slot = p.slot /\ u.index = p.index /\ u.items = p.items
      /\ u.mirrorLen = Len(received_items) /\ u.i = 1
      /\ u.pc = (IF p.cmd = "Connected" THEN "start" ELSE "item")
  <2>1. p \in Packages
    BY <1>1, <1>2, <1>4, <1>p, NetFacts
  <2> QED
    BY <1>1, <1>u, <2>1, TaskOf DEF TypeInv, BridgeOK
<1>8. /\ p.slot = apSlot /\ apSlot # NoSlot
      /\ p.cmd = "Connected" => p.index = 0
      /\ p.index + Len(p.items) = Start(2) /\ p.index + Len(p.items) <= Len(hist[apSlot])
      /\ \A j \in DOMAIN p.items : p.items[j] = hist[apSlot][p.index + j]
  BY <1>4, <1>6, <1>p, MirrorAssumption DEF PieceOK
\* The pieces behind it start where it ends.
<1>9. ASSUME NEW k \in DOMAIN net', k <= 2, net'[k].cmd = "ReceivedItems", net'[k].index = 0
      PROVE  Start(2) = 0 /\ (k = 2 => net[2].cmd = "ReceivedItems" /\ net[2].index = 0
                                       /\ Len(net[2].items) = 0)
  <2>1. k \in 1 .. (n - 1) /\ k + 1 \in 1 .. n /\ net'[k] = net[k + 1]
    BY <1>4
  <2>2. k = 1 \/ k = 2
    BY <1>9, <2>1
  <2>3. CASE k = 1
    <3>1. 2 <= Len(net) /\ net[2].index = 0
      BY <1>2, <1>9, <2>1, <2>3
    <3> QED
      BY <2>3, <3>1 DEF Start
  <2>4. CASE k = 2
    <3>1. 3 \in 1 .. n /\ 2 \in 1 .. n /\ net[3].index = 0
      BY <1>2, <1>9, <2>1, <2>4
    <3>2. Start(2) = net[2].index /\ Start(3) = 0
      BY <1>2, <3>1 DEF Start
    <3>3. net[2].index + Len(net[2].items) = Start(3) /\ net[2].cmd # "Connected"
      BY <1>6, <3>1 DEF PieceOK
    <3>4. net[2].index = 0 /\ Len(net[2].items) = 0
      BY <1>6, <3>1, <3>2, <3>3
    <3> QED
      BY <1>6, <3>1, <3>2, <3>3, <3>4
  <2> QED
    BY <2>2, <2>3, <2>4
<1>10. Start(1)' = Start(2) /\ (net' = <<>> => Start(2) = Len(hist[apSlot]))
  <2>1. CASE n = 1
    <3>1. ~(1 <= Len(net')) /\ ~(2 <= Len(net))
      BY <1>2, <1>4, <2>1
    <3> QED
      BY <1>3, <3>1 DEF Start
  <2>2. CASE n # 1
    <3>1. 1 <= Len(net') /\ 2 <= Len(net) /\ 1 \in 1 .. (n - 1)
      BY <1>2, <1>4, <2>2
    <3>2. net'[1] = net[2] /\ net' # <<>>
      BY <1>4, <3>1
    <3> QED
      BY <3>1, <3>2 DEF Start
  <2> QED
    BY <2>1, <2>2
<1>11. \A t : OfSlot(t)' <=> OfSlot(t)
  BY <1>3 DEF OfSlot
<1>12. CASE p.cmd = "Connected"
  <2>1. waiting = <<>> /\ \A t : ~InWaiting(t)
    BY <1>5, <1>8, <1>12 DEF InWaiting
  <2>2. Left(u) = {}
    <3>1. UnderWay(u)' /\ u.pc = "start"
      BY <1>4, <1>7, <1>12
    <3>2. TaskOK(u)
      BY <3>1, PackageSession DEF TaskInv
    <3>3. SameBatch(u, u)
      BY DEF SameBatch
    <3> QED
      BY <1>7, <3>1, <3>2, <3>3, LeftFacts
  <2>3. LeftAll = {} /\ LeftAll' = {}
    <3>1. \A t : ~UnderWay(t)
      BY <1>1, <1>4, <2>1, UnderWayFacts
    <3> QED
      BY <1>4, <2>1, <2>2, <3>1 DEF LeftAll
  <2>4. ApartInv'
    <3>1. Apart'
      BY <1>4, <2>1 DEF Apart
    <3>2. \A t : UnderWay(t)' => t.cmd # "ReceivedItems"
      BY <1>4, <1>7, <1>12, <2>1
    <3> QED
      BY <1>4, <2>1, <3>1, <3>2 DEF ApartInv
  <2>5. LoggingIn'
    BY <1>4, <1>7, <1>12 DEF LoggingIn
  <2>6. ASSUME NEW d \in 0 .. Len(hist[slot]), Mirrored(d), GoesOn(d)
        PROVE  Mirrored(d)' /\ GoesOn(d)'
    <3>1. Mirrored(d)'
      BY <1>3, <2>3, <2>6 DEF Mirrored
    <3>2. ASSUME slot = apSlot, NEW k \in DOMAIN net', k <= 2, net'[k].cmd = "ReceivedItems",
                 net'[k].index = 0
          PROVE  d <= Len(net'[k].items)
      <4>1. k \in 1 .. (n - 1) /\ k + 1 \in 1 .. n /\ net'[k] = net[k + 1]
        BY <1>4
      <4>2. DOMAIN net = 1 .. n
        BY <1>1, <1>2, NetFacts
      <4>3. CASE k = 1
        <5>1. 2 \in DOMAIN net /\ net'[k] = net[2]
          BY <4>1, <4>2, <4>3
        <5> QED
          BY <2>6, <3>2, <5>1 DEF GoesOn
      <4>4. CASE k = 2
        <5>1. 2 \in DOMAIN net /\ 3 \in 1 .. n /\ net'[k] = net[3]
          BY <4>1, <4>2, <4>4
        <5>2. net[2].cmd = "ReceivedItems" /\ net[2].index = 0 /\ Len(net[2].items) = 0
          BY <1>9, <3>2, <4>4
        <5>3. d <= 0
          BY <2>6, <3>2, <5>1, <5>2 DEF GoesOn
        <5> QED
          BY <1>6, <5>1, <5>3
      <4> QED
        BY <3>2, <4>1, <4>3, <4>4
    <3>3. GoesOn(d)'
      BY <1>3, <2>5, <3>2 DEF GoesOn
    <3> QED
      BY <3>1, <3>3
  <2> QED
    BY <1>3, <1>5, <2>4, <2>6 DEF MirrorInv
<1>13. CASE p.cmd = "ReceivedItems"
  <2>1. ~LoggingIn /\ slot = apSlot
    <3>1. ~LoggingIn
      BY <1>4, <1>13, <1>p DEF LoggingIn
    <3> QED
      BY <1>1, <3>1 DEF TaskInv
  <2>2. PICK d \in 0 .. Len(hist[slot]) : Mirrored(d) /\ GoesOn(d)
    BY <1>5, <1>8, <2>1 DEF MirrorInv
  <2>3. d \in Nat /\ LeftAll \subseteq 1 .. d
    BY <1>4, <1>6, <2>1, <2>2 DEF Mirrored
  <2>4. PICK m \in Nat : m = Len(received_items) /\ m = Cardinality((1 .. d) \ LeftAll)
    <3>1. (1 .. d) \ LeftAll \subseteq 1 .. d
      OBVIOUS
    <3>2. Cardinality((1 .. d) \ LeftAll) \in Nat
      BY <2>3, <3>1, Counted
    <3> QED
      BY <2>2, <3>2 DEF Mirrored
  <2>5. m <= d
    <3>1. (1 .. d) \ LeftAll \subseteq 1 .. d
      OBVIOUS
    <3> QED
      BY <2>3, <2>4, <3>1, Counted
  <2>6. /\ p.index \in Nat /\ Len(p.items) \in Nat /\ p.index \in {0, d}
        /\ p.index = 0 => d <= Len(p.items)
    <3>1. p.index \in Nat /\ Len(p.items) \in Nat
      BY <1>4, <1>6, <1>p
    <3>2. Start(1) = p.index
      BY <1>2, <1>4, <1>p DEF Start
    <3>3. p.index = 0 => d <= Len(p.items)
      <4>1. 1 \in DOMAIN net /\ slot = apSlot
        BY <1>1, <1>2, <1>4, <2>1, NetFacts
      <4> QED
        BY <1>13, <1>p, <2>2, <4>1 DEF GoesOn
    <3> QED
      BY <2>1, <2>2, <3>1, <3>2, <3>3 DEF GoesOn
  <2>7. p.index = 0 => m = d
    <3>1. SUFFICES ASSUME p.index = 0
                   PROVE  m = d
      OBVIOUS
    <3>2. \A t : ~UnderWay(t)
      BY <1>1, <1>4, <1>5, <3>1, UnderWayFacts DEF InWaiting
    <3>3. LeftAll = {}
      BY <3>2 DEF LeftAll
    <3>4. Cardinality(1 .. d) = d
      BY <2>3, FS_Interval
    <3> QED
      BY <2>4, <3>3, <3>4
  <2>8. PICK e \in Nat : e = p.index + Len(p.items) /\ d <= e
    BY <2>3, <2>6
  <2>9. Left(u) = {q \in Nat : d < q /\ q <= e}
    <3>1. Left(u) = {q \in Nat : q > m /\ q <= p.index + Len(p.items) /\ q > p.index + 1 - 1}
      BY <1>7, <1>13, <2>4 DEF Left
    <3> QED
      BY <2>3, <2>5, <2>6, <2>7, <2>8, <3>1
  <2>10. /\ \A q \in LeftAll' : q \in LeftAll \/ q \in Left(u)
         /\ \A q : q \in LeftAll \/ q \in Left(u) => q \in LeftAll'
    <3>1. \A t : UnderWay(t) <=> InWaiting(t)
      BY <1>1, <1>4, UnderWayFacts
    <3>2. Left(u) \subseteq Nat
      BY <2>9
    <3> QED
      BY <1>4, <3>1, <3>2 DEF LeftAll
  <2>11. /\ LeftAll' \subseteq 1 .. e
         /\ (1 .. e) \ LeftAll' = (1 .. d) \ LeftAll
    <3>1. \A q \in LeftAll' : q \in 1 .. d \/ (q \in Nat /\ d < q /\ q <= e)
      BY <2>3, <2>9, <2>10
    <3>2. LeftAll' \subseteq 1 .. e
      BY <2>3, <2>8, <3>1
    <3>3. \A q \in 1 .. d : q \in LeftAll' <=> q \in LeftAll
      BY <2>3, <2>9, <2>10
    <3>4. \A q \in 1 .. e : q \notin 1 .. d => q \in LeftAll'
      BY <2>3, <2>8, <2>9, <2>10
    <3>5. 1 .. d \subseteq 1 .. e
      BY <2>3, <2>8
    <3> QED
      BY <3>2, <3>3, <3>4, <3>5
  <2>12. Mirrored(e)'
    BY <1>3, <2>2, <2>11 DEF Mirrored
  <2>13. e \in 0 .. Len(hist'[slot']) /\ Len(hist[slot]) \in Nat
    BY <1>3, <1>4, <1>6, <1>8, <2>1, <2>8
  <2>14. Start(2) = e
    BY <1>8, <2>8
  <2>15. GoesOn(e)'
    <3>1. Start(1)' = e /\ (net' = <<>> => e = Len(hist[slot]))
      BY <1>10, <2>1, <2>14
    <3>2. ASSUME NEW k \in DOMAIN net', k <= 2, net'[k].cmd = "ReceivedItems", net'[k].index = 0
          PROVE  e <= Len(net'[k].items)
      <4>1. e = 0
        BY <1>9, <2>14, <3>2
      <4>2. net'[k] = net[k + 1] /\ k + 1 \in 1 .. n
        BY <1>4
      <4> QED
        BY <1>6, <4>1, <4>2
    <3> QED
      BY <1>3, <3>1, <3>2 DEF GoesOn
  <2>16. ApartInv'
    <3>1. OfSlot(u)'
      BY <1>3, <1>7, <1>8, <2>1 DEF OfSlot
    <3>2. \A t : UnderWay(t)' /\ t.cmd = "ReceivedItems" => OfSlot(t)'
      <4>1. \A t : InWaiting(t) /\ t.cmd = "ReceivedItems" => OfSlot(t)
        BY <1>1, <1>5, UnderWayFacts DEF ApartInv
      <4> QED
        BY <1>4, <1>11, <3>1, <4>1
    <3>3. \A k \in DOMAIN waiting : Left(waiting[k]) \cap Left(u) = {}
      <4>1. TAKE k \in DOMAIN waiting
      <4>2. UnderWay(waiting[k]) /\ waiting[k] \in Tasks
        BY <1>1, TasksTyped DEF UnderWay
      <4>3. Left(waiting[k]) \subseteq LeftAll
        <5>1. Left(waiting[k]) \subseteq Nat
          BY DEF Left
        <5> QED
          BY <4>2, <5>1 DEF LeftAll
      <4> QED
        BY <2>3, <2>9, <4>3
    <3>4. Apart'
      BY <1>4, <1>5, <3>3 DEF ApartInv, Apart
    <3> QED
      BY <1>4, <1>7, <1>13, <3>2, <3>4 DEF ApartInv
  <2> QED
    BY <1>3, <1>8, <2>1, <2>12, <2>13, <2>15, <2>16 DEF MirrorInv
<1> QED
  BY <1>7, <1>12, <1>13

\* An item that was not mirrored yet is.
LEMMA MirrorsOne ==
  ASSUME SessionInv, MirrorInv, ProcessItem, ~raced, ~mistaken, NEW u, StepsTo(u), Mirrors(cur[1], u)
  PROVE  MirrorInv'
<1>t. PICK t : t = cur[1]
  OBVIOUS
<1> DEFINE p == t.index + t.i
           it == t.items[t.i]
<1>1. TypeInv /\ NetInv /\ TasksOK /\ TaskInv /\ ApartInv
  BY DEF SessionInv, TypeInv, MirrorInv
<1>2. cur # <<>> /\ UNCHANGED <<hist, apSlot, net, slot, raced, mistaken>>
  BY DEF ProcessItem, apVars, ghostVars
<1>3. t.pc = "item" /\ t.i \in DOMAIN t.items /\ it \in Items
  BY <1>1, <1>t, ProcessStep
<1>4. /\ t \in Tasks /\ u \in Tasks /\ SameBatch(t, u) /\ UnderWay(t) /\ TaskOK(t)
      /\ \A x : UnderWay(x) <=> x = t \/ InWaiting(x)
      /\ \A x : UnderWay(x)' <=> x = u \/ InWaiting(x)
      /\ DOMAIN cur = {1}
  BY <1>1, <1>2, <1>t, UnderWayFacts, TasksTyped DEF StepsTo, TaskInv
<1>5. /\ ~AlreadyMirrored(t) /\ received_items' = Append(received_items, it)
      /\ (u.pc = "item" /\ u.i = t.i + 1) \/ (u.pc = "sent" /\ u.i = t.i)
  BY <1>t DEF Mirrors, add_received_item
<1>6. p \in Left(t) /\ Left(u) = Left(t) \ {p} /\ Left(t) \subseteq Nat
  <2>1. (u.pc = "item" /\ u.i = t.i + 1) \/ (u.pc = "sent" /\ u.i = t.i)
    BY <1>5
  <2>2. t \in Tasks /\ u \in Tasks /\ SameBatch(t, u)
    BY <1>4
  <2>3. t.pc = "item" /\ ~AlreadyMirrored(t) /\ t.i \in DOMAIN t.items
    BY <1>3, <1>5
  <2> QED
    BY <2>1, <2>2, <2>3, LeftFacts, LeftOne
<1>7. t.cmd = "ReceivedItems" /\ slot # NoSlot
  <2>1. t.cmd = "ReceivedItems"
    BY <1>3, <1>4 DEF TaskOK
  <2>2. slot # NoSlot
    BY <1>1, <1>2, <1>3, <1>t DEF TaskInv
  <2> QED
    BY <2>1, <2>2
<1>8. OfSlot(t) /\ it = hist[slot][p]
  BY <1>1, <1>3, <1>4, <1>7 DEF ApartInv, OfSlot
<1>9. PICK d \in 0 .. Len(hist[slot]) : Mirrored(d) /\ GoesOn(d)
  BY <1>7 DEF MirrorInv
<1>10. slot \in Slots /\ Len(hist[slot]) \in Nat
  BY <1>1, <1>7, NetFacts DEF TypeInv, BridgeOK
<1>11. u.cmd = t.cmd /\ u.pc # "start"
  BY <1>4, <1>5 DEF SameBatch
<1> HIDE DEF p, it
<1>12. \A k \in DOMAIN waiting : Left(waiting[k]) \cap Left(t) = {}
  BY <1>1, <1>4, <1>t DEF ApartInv, Apart
<1>13. cur' # <<>> => cur'[1] = u
  BY <1>1, StepWaiting
<1>14. ApartInv'
  <2>1. Apart'
    <3>1. \A k \in DOMAIN waiting : Left(waiting[k]) \cap Left(u) = {}
      BY <1>6, <1>12
    <3> QED
      BY <1>1, <3>1, StepApart DEF ApartInv
  <2>2. \A x : OfSlot(x)' <=> OfSlot(x)
    BY <1>2 DEF OfSlot
  <2>3. OfSlot(u)
    BY <1>4, <1>8 DEF SameBatch, OfSlot
  <2>4. \A x : UnderWay(x)' /\ x.cmd = "ReceivedItems" => OfSlot(x)'
    BY <1>1, <1>4, <2>2, <2>3 DEF ApartInv
  <2> QED
    BY <1>11, <1>13, <2>1, <2>4 DEF ApartInv
<1>15. LeftAll' = LeftAll \ {p}
  <2>1. \A q : q \in LeftAll' <=> q \in Nat /\ (q \in Left(u) \/ \E x : InWaiting(x) /\ q \in Left(x))
    BY <1>4 DEF LeftAll
  <2>2. \A q : q \in LeftAll <=> q \in Nat /\ (q \in Left(t) \/ \E x : InWaiting(x) /\ q \in Left(x))
    BY <1>4 DEF LeftAll
  <2>3. \A x : InWaiting(x) => p \notin Left(x)
    BY <1>6, <1>12 DEF InWaiting
  <2> QED
    BY <1>6, <2>1, <2>2, <2>3
<1>16. d \in Nat /\ LeftAll \subseteq 1 .. d /\ p \in LeftAll
  <2>1. d \in Nat /\ LeftAll \subseteq 1 .. d
    BY <1>9, <1>10 DEF Mirrored
  <2>2. p \in LeftAll
    BY <1>4, <1>6 DEF LeftAll
  <2> QED
    BY <2>1, <2>2
<1>17. Mirrored(d)'
  <2>1. PICK T : T = (1 .. d) \ LeftAll
    OBVIOUS
  <2>r. PICK R : R = T \cup {p}
    OBVIOUS
  <2>2. /\ (1 .. d) \ LeftAll' = R /\ LeftAll' \subseteq 1 .. d
        /\ T \subseteq 1 .. d /\ p \in 1 .. d /\ p \notin T
    BY <1>15, <1>16, <2>1, <2>r
  <2>3. PICK h : h = hist[slot]
    OBVIOUS
  <2>4. /\ Cardinality(R) = Cardinality(T) + 1
        /\ \A x : Found(R, h, x) = Found(T, h, x) + (IF h[p] = x THEN 1 ELSE 0)
    <3>1. p \in 1 .. d /\ p \notin T /\ T \subseteq 1 .. d /\ d \in Nat
      BY <1>16, <2>2
    <3>0. OneOver(d, T, p, R)
      BY <2>r, <3>1 DEF OneOver
    <3>2. Cardinality(R) = Cardinality(T) + 1
      BY <2>r, <3>1, OneMore
    <3>3. ASSUME NEW x
          PROVE  Found(R, h, x) = Found(T, h, x) + (IF h[p] = x THEN 1 ELSE 0)
      <4>1. h[p] = x => Found(R, h, x) = Found(T, h, x) + 1
        BY <3>0, OneMirrored
      <4>2. h[p] # x => Found(R, h, x) = Found(T, h, x)
        BY <3>0, OneMirrored
      <4>3. Found(T, h, x) \in Nat
        <5>1. {q \in T : h[q] = x} \subseteq 1 .. d
          BY <3>1
        <5> QED
          BY <3>1, <5>1, Counted DEF Found
      <4> QED
        BY <4>1, <4>2, <4>3
    <3> QED
      BY <3>2, <3>3
  <2>5. received_items \in Seq(Items)
    BY <1>1 DEF TypeInv, BridgeOK
  <2>6. Len(received_items') = Len(received_items) + 1
    BY <1>3, <1>5, <2>5 DEF it
  <2>7. \A x : Count(received_items', x) = Count(received_items, x) + (IF it = x THEN 1 ELSE 0)
    BY <1>3, <1>5, <2>5, CountFacts DEF it
  <2>8. Len(received_items') = Cardinality(R)
    BY <1>9, <2>1, <2>4, <2>6 DEF Mirrored
  <2>9. \A x \in Items : Count(received_items, x) = Found(T, h, x)
    BY <1>9, <2>1, <2>3 DEF Mirrored, Found
  <2>10. \A x \in Items : Count(received_items', x) = Found(R, h, x)
    BY <1>8, <2>3, <2>4, <2>7, <2>9
  <2>11. \A x \in Items : Count(received_items', x) =
                          Cardinality({q \in (1 .. d) \ LeftAll' : hist[slot][q] = x})
    BY <2>2, <2>3, <2>10 DEF Found
  <2> QED
    BY <1>2, <2>2, <2>8, <2>11 DEF Mirrored
<1>18. GoesOn(d)'
  <2>1. LoggingIn' <=> LoggingIn
    BY <1>2, <1>3, <1>11, <1>13, <1>t DEF LoggingIn
  <2> QED
    BY <1>2, <1>9, <2>1 DEF GoesOn, Start
<1> QED
  BY <1>2, <1>7, <1>9, <1>14, <1>17, <1>18 DEF MirrorInv

\* A task that is done: Connected's has nothing to mirror, the others have mirrored it all.
LEMMA DoneMirror ==
  SessionInv /\ MirrorInv /\ (ConnectedStashesBonus \/ PushDerived) => MirrorInv'
<1> SUFFICES ASSUME SessionInv, MirrorInv, ConnectedStashesBonus \/ PushDerived
             PROVE  MirrorInv'
  OBVIOUS
<1>1. /\ UNCHANGED <<hist, apSlot, net, slot, received_items, raced, mistaken>>
      /\ cur # <<>> /\ cur[1].pc # "start" /\ Finishes
  BY DEF ConnectedStashesBonus, PushDerived, apVars, ghostVars
<1>2. cur[1] \in Tasks /\ TaskOK(cur[1]) /\ SameBatch(cur[1], cur[1])
  <2>1. TasksOK /\ TaskInv
    BY DEF SessionInv, TypeInv
  <2> QED
    BY <1>1, <2>1, TasksTyped, UnderWayFacts DEF TaskInv, SameBatch
<1>3. Left(cur[1]) = {}
  <2>1. cur[1].pc = "bonus" \/ (cur[1].pc = "item" /\ cur[1].i > Len(cur[1].items))
    BY DEF ConnectedStashesBonus, PushDerived
  <2>2. PICK t \in Tasks : t = cur[1]
    BY <1>2
  <2> QED
    BY <1>2, <2>1, <2>2, LeftFacts
<1> QED
  BY <1>1, <1>3, FinishMirror

LEMMA ProcessMirror ==
  SessionInv /\ MirrorInv /\ ProcessItem => MirrorInv'
<1> SUFFICES ASSUME SessionInv, MirrorInv, ProcessItem
             PROVE  MirrorInv'
  OBVIOUS
<1>1. TypeInv /\ TasksOK
  BY DEF SessionInv, TypeInv
<1>2. PICK u : StepsTo(u) /\ (Skips(cur[1], u) \/ Mirrors(cur[1], u))
  BY <1>1, ProcessStep
<1>3. cur # <<>> /\ cur[1].pc = "item" /\ UNCHANGED <<hist, apSlot, net, slot, raced, mistaken>>
  BY DEF ProcessItem, apVars, ghostVars
<1>4. CASE Skips(cur[1], u)
  <2>1. PICK t \in Tasks : t = cur[1]
    BY <1>1, <1>3, TasksTyped
  <2>2. u \in Tasks /\ SameBatch(t, u)
    BY <1>2, <2>1 DEF StepsTo
  <2>3. AlreadyMirrored(t) /\ u.pc = "item" /\ u.i = t.i + 1 /\ received_items' = received_items
    BY <1>4, <2>1 DEF Skips
  <2>4. Left(u) = Left(t)
    BY <1>3, <2>1, <2>2, <2>3, LeftFacts
  <2> QED
    BY <1>2, <1>3, <2>1, <2>3, <2>4, StepMirror
<1>5. CASE Mirrors(cur[1], u)
  <2>1. CASE ~raced /\ ~mistaken
    BY <1>2, <1>5, <2>1, MirrorsOne
  <2>2. CASE raced \/ mistaken
    BY <1>3, <2>2 DEF MirrorInv
  <2> QED
    BY <2>1, <2>2
<1> QED
  BY <1>2, <1>4, <1>5

LEMMA GrantMirror ==
  SessionInv /\ MirrorInv /\ GrantBonus => MirrorInv'
<1> SUFFICES ASSUME SessionInv, MirrorInv, GrantBonus
             PROVE  MirrorInv'
  OBVIOUS
<1>1. TypeInv /\ TasksOK
  BY DEF SessionInv, TypeInv
<1>2. PICK u : StepsTo(u) /\ u.pc = "item" /\ u.i = cur[1].i + 1
  BY <1>1, GrantStep
<1>3. /\ cur # <<>> /\ cur[1].pc = "sent"
      /\ UNCHANGED <<hist, apSlot, net, slot, received_items, raced, mistaken>>
  BY DEF GrantBonus, apVars, ghostVars
<1>4. PICK t \in Tasks : t = cur[1]
  BY <1>1, <1>3, TasksTyped
<1>5. u \in Tasks /\ SameBatch(t, u) /\ u.i = t.i + 1
  BY <1>2, <1>4 DEF StepsTo
<1>6. Left(u) = Left(t)
  BY <1>2, <1>3, <1>4, <1>5, LeftFacts
<1> QED
  BY <1>2, <1>3, <1>4, <1>6, StepMirror

\* A login starts with no task suspended, and none is as it runs.
LEMMA AloneKept ==
  SessionInv /\ LoginAlone /\ [Next]_vars => LoginAlone'
<1> SUFFICES ASSUME SessionInv, LoginAlone, [Next]_vars, ~raced', cur' # <<>>, cur'[1].pc = "start"
             PROVE  waiting' = <<>>
  BY DEF LoginAlone
<1>1. TypeInv /\ NetInv /\ TasksOK /\ TaskInv
  BY DEF SessionInv, TypeInv
<1>2. CASE UNCHANGED <<cur, waiting, raced>>
  BY <1>2 DEF LoginAlone
<1>3. CASE on_package
  <2>1. /\ ~(waiting # <<>> /\ Head(net).index = 0) /\ waiting' = waiting
        /\ cur' = <<Task(Head(net))>> /\ net # <<>>
    BY <1>3 DEF on_package
  <2>2. Head(net) = net[1] /\ net[1] \in Packages /\ 1 \in DOMAIN net
    BY <1>1, <2>1 DEF TasksOK
  <2>3. Task(net[1]).pc = "start"
    BY <2>1, <2>2
  <2>4. net[1].cmd = "Connected"
    BY <2>3 DEF Task
  <2>5. net[1].index = 0
    BY <1>1, <2>2, <2>4 DEF NetInv, PieceOK
  <2> QED
    BY <2>1, <2>2, <2>5
<1>4. CASE Resume
  <2>1. waiting # <<>> /\ cur' = <<Head(waiting)>>
    BY <1>4 DEF Resume
  <2>2. Head(waiting) = waiting[1] /\ 1 \in DOMAIN waiting
    BY <1>1, <2>1 DEF TasksOK
  <2> QED
    BY <1>1, <2>1, <2>2 DEF TaskInv
<1>5. CASE HandleConnected \/ ProcessItem \/ GrantBonus
  <2>1. PICK u : StepsTo(u) /\ u.pc # "start"
    <3>1. CASE HandleConnected
      BY <1>1, <3>1, ConnectedStep
    <3>2. CASE ProcessItem
      <4>1. PICK u : StepsTo(u) /\ (Skips(cur[1], u) \/ Mirrors(cur[1], u))
        BY <1>1, <3>2, ProcessStep
      <4>2. cur[1].pc = "item"
        BY <3>2 DEF ProcessItem
      <4> QED
        BY <4>1, <4>2 DEF Skips, Mirrors
    <3>3. CASE GrantBonus
      BY <1>1, <3>3, GrantStep
    <3> QED
      BY <1>5, <3>1, <3>2, <3>3
  <2>2. cur' # <<>> => cur'[1] = u
    BY <1>1, <2>1, StepWaiting
  <2> QED
    BY <2>1, <2>2
<1>6. CASE ConnectedStashesBonus \/ PushDerived
  BY <1>6 DEF ConnectedStashesBonus, PushDerived, Finishes
<1>7. \/ \E s \in Slots, it \in Items : ServerSends(s, it)
      \/ \E s \in Slots : ClientConnects(s)
      \/ SwitchConnects \/ ChecksPile \/ AbandonedCloses \/ BridgeSeesEof \/ LinkLost \/ LinkStalls
      \/ LinkDrains \/ SwitchReads \/ SaveLoad \/ TakeRehello \/ UNCHANGED vars
      => UNCHANGED <<cur, waiting, raced>>
  BY DEF ServerSends, ClientConnects, SwitchConnects, ChecksPile, AbandonedCloses, BridgeSeesEof,
         LinkLost, LinkStalls, LinkDrains, SwitchReads, SaveLoad, TakeRehello, vars, taskVars,
         ghostVars
<1> QED
  BY <1>2, <1>3, <1>4, <1>5, <1>6, <1>7, ZenonT(60) DEF Next

LEMMA MirrorKept ==
  SessionInv /\ LoginAlone /\ MirrorInv /\ [Next]_vars => MirrorInv'
<1> SUFFICES ASSUME SessionInv, LoginAlone, MirrorInv, [Next]_vars
             PROVE  MirrorInv'
  OBVIOUS
<1>1. UNCHANGED MirrorVars => MirrorInv'
  BY MirrorSame
<1>2. SwitchConnects \/ ChecksPile \/ AbandonedCloses \/ BridgeSeesEof \/ LinkLost \/ LinkStalls
        \/ LinkDrains \/ SwitchReads \/ SaveLoad \/ TakeRehello \/ UNCHANGED vars => MirrorInv'
  BY <1>1 DEF MirrorVars, SwitchConnects, ChecksPile, AbandonedCloses, BridgeSeesEof, LinkLost,
              LinkStalls, LinkDrains, SwitchReads, SaveLoad, TakeRehello, vars, apVars, taskVars, ghostVars
<1> QED
  BY <1>2, ServerMirror, ClientMirror, PackageMirror, ResumeMirror, ConnectedMirror,
     DoneMirror, ProcessMirror, GrantMirror, ZenonT(60) DEF Next

LEMMA InitMirror ==
  Init => MirrorInv /\ LoginAlone
<1> SUFFICES ASSUME Init
             PROVE  MirrorInv /\ LoginAlone
  OBVIOUS
<1>1. cur = <<>> /\ waiting = <<>> /\ slot = NoSlot /\ received_items = <<>>
  BY DEF Init
<1>2. ApartInv
  BY <1>1 DEF ApartInv, Apart, UnderWay
<1> QED
  BY <1>1, <1>2 DEF MirrorInv, LoginAlone

\* When nothing is under way and nothing is in the socket, the mirror is the history.
LEMMA MirrorComplete ==
  SessionInv /\ MirrorInv => MirrorExact
<1> SUFFICES ASSUME SessionInv, MirrorInv, cur = <<>>, waiting = <<>>, net = <<>>,
                    slot # NoSlot, ~raced, ~mistaken, NEW it \in Items
             PROVE  Count(received_items, it) = Count(hist[slot], it)
  BY DEF MirrorExact, NoTask
<1>1. ~LoggingIn
  BY DEF LoggingIn
<1>2. PICK d \in 0 .. Len(hist[slot]) : Mirrored(d) /\ GoesOn(d)
  BY DEF MirrorInv
<1>3. d = Len(hist[slot])
  BY <1>1, <1>2 DEF GoesOn
<1>4. LeftAll = {}
  BY DEF LeftAll, UnderWay
<1>5. DOMAIN hist[slot] = 1 .. d
  <2>1. TypeInv /\ NetInv
    BY DEF SessionInv
  <2>2. slot \in Slots
    BY <2>1 DEF TypeInv, BridgeOK
  <2>3. hist[slot] \in Seq(Items)
    BY <2>1, <2>2, NetFacts
  <2> QED
    BY <1>3, <2>3
<1>6. {p \in (1 .. d) \ LeftAll : hist[slot][p] = it} = {i \in DOMAIN hist[slot] : hist[slot][i] = it}
  BY <1>4, <1>5
<1> QED
  BY <1>2, <1>6 DEF Mirrored, Count

(***************************************************************************)
(* The Switch.                                                             *)
(***************************************************************************)

\* What has no part in what the Switch knows.
SyncVars == <<received_items, abilities_received, reg, wire, swUp, rehello, unlocked, abilities,
              replayed>>

LEMMA SyncSame ==
  ASSUME SyncInv, UNCHANGED SyncVars, NonePending' => NonePending
  PROVE  SyncInv'
<1>1. UNCHANGED <<received_items, abilities_received, reg, wire, swUp, rehello, unlocked,
                  abilities, replayed>>
  BY DEF SyncVars
<1>2. \A c : CaptureComes(c)' <=> CaptureComes(c)
  BY <1>1 DEF CaptureComes
<1>3. CapturesCome' <=> CapturesCome
  BY <1>1, <1>2 DEF CapturesCome
<1>4. TableComes' <=> TableComes
  BY <1>1 DEF TableComes
<1> QED
  BY <1>1, <1>3, <1>4, Zenon DEF SyncInv

\* Lines sent to the Switch come after those that are on their way.
LEMMA Sending ==
  ASSUME SwitchOK, NEW ls \in Seq(Lines), wire' = wire \o ls
  PROVE  /\ \A l \in DOMAIN wire : l \in DOMAIN wire' /\ wire'[l] = wire[l]
         /\ \A l \in DOMAIN ls : Len(wire) + l \in DOMAIN wire' /\ wire'[Len(wire) + l] = ls[l]
         /\ \A l \in DOMAIN wire' : \/ l \in DOMAIN wire
                                    \/ l - Len(wire) \in DOMAIN ls /\ wire'[l] = ls[l - Len(wire)]
<1>1. wire \in Seq(Lines)
  BY DEF SwitchOK
<1> QED
  BY <1>1

\* A capture that was on its way still is; one that is sent comes.
LEMMA SendCaptures ==
  ASSUME SwitchOK, NEW ls \in Seq(Lines), wire' = wire \o ls, unlocked' = unlocked
  PROVE  /\ \A c : CaptureComes(c) => CaptureComes(c)'
         /\ \A c : (\E l \in DOMAIN ls : ls[l] = ItemLine(c)) => CaptureComes(c)'
<1>1. /\ \A l \in DOMAIN wire : l \in DOMAIN wire' /\ wire'[l] = wire[l]
      /\ \A l \in DOMAIN ls : Len(wire) + l \in DOMAIN wire' /\ wire'[Len(wire) + l] = ls[l]
  BY Sending
<1> QED
  BY <1>1 DEF CaptureComes

\* A table that was on its way still is, when only items are sent after it.
LEMMA SendItems ==
  ASSUME SwitchOK, NEW ls \in Seq(Lines), wire' = wire \o ls,
         \A l \in DOMAIN ls : ls[l].t = "item",
         UNCHANGED <<abilities, abilities_received>>, TableComes
  PROVE  TableComes'
<1>1. /\ \A l \in DOMAIN wire : l \in DOMAIN wire' /\ wire'[l] = wire[l]
      /\ \A l \in DOMAIN wire' : l \in DOMAIN wire \/ wire'[l].t = "item"
  BY Sending
<1>2. CASE \E k \in DOMAIN wire : /\ wire[k] = AbilityLine(abilities_received)
                                  /\ \A l \in DOMAIN wire : l > k => wire[l].t = "item"
  BY <1>1, <1>2 DEF TableComes
<1>3. CASE abilities = abilities_received /\ \A k \in DOMAIN wire : wire[k].t = "item"
  BY <1>1, <1>3 DEF TableComes
<1> QED
  BY <1>2, <1>3 DEF TableComes

\* The table is on its way when it is sent last.
LEMMA SendTable ==
  ASSUME SwitchOK, abilities_received \in Tables, abilities_received # NoAbilities,
         UNCHANGED abilities_received, NEW q \in Seq(Lines), wire' = q \o AbilityLines
  PROVE  TableComes'
<1>1. AbilityLines = <<AbilityLine(abilities_received)>>
  BY DEF AbilityLines
<1>2. PICK a \in Lines : a = AbilityLine(abilities_received)
  BY LineTyped
<1>3. PICK n \in Nat : n = Len(q) + 1
  OBVIOUS
<1>4. n \in DOMAIN wire' /\ wire'[n] = a /\ \A l \in DOMAIN wire' : ~(l > n)
  BY <1>1, <1>2, <1>3
<1>5. AbilityLine(abilities_received)' = a
  BY <1>2
<1> QED
  BY <1>4, <1>5 DEF TableComes

\* Who may still push a table, as the running task goes on or is done.
LEMMA PendingFacts ==
  ASSUME TasksOK
  PROVE  /\ UNCHANGED taskVars => (NonePending' <=> NonePending)
         /\ Resume => (NonePending' <=> NonePending)
         /\ \A u : StepsTo(u) /\ u.ability => ~NonePending'
         /\ \A u : StepsTo(u) /\ u.ability = cur[1].ability => (NonePending' => NonePending)
         /\ cur # <<>> /\ Finishes /\ ~cur[1].ability => (NonePending' => NonePending)
<1>1. UNCHANGED taskVars => (NonePending' <=> NonePending)
  BY DEF taskVars, NonePending, UnderWay
<1>2. Resume => (NonePending' <=> NonePending)
  BY ResumeFacts DEF NonePending
<1>3. ASSUME NEW u, StepsTo(u), u.ability
      PROVE  ~NonePending'
  BY <1>3, UnderWayFacts DEF NonePending
<1>4. ASSUME NEW u, StepsTo(u), u.ability = cur[1].ability, NonePending'
      PROVE  NonePending
  <2>1. cur # <<>>
    BY <1>4 DEF StepsTo
  <2>2. \A t : UnderWay(t) <=> t = cur[1] \/ InWaiting(t)
    BY <2>1, UnderWayFacts
  <2>3. \A t : UnderWay(t)' <=> t = u \/ InWaiting(t)
    BY <1>4, UnderWayFacts
  <2>4. ~u.ability
    BY <1>4, <2>3 DEF NonePending
  <2>5. ~cur[1].ability
    BY <1>4, <2>4
  <2> QED
    BY <1>4, <2>2, <2>3, <2>5 DEF NonePending
<1>5. ASSUME cur # <<>>, Finishes, ~cur[1].ability, NonePending'
      PROVE  NonePending
  <2>1. \A t : UnderWay(t) <=> t = cur[1] \/ InWaiting(t)
    BY <1>5, UnderWayFacts
  <2>2. \A t : UnderWay(t)' <=> InWaiting(t)
    BY <1>5, UnderWayFacts
  <2> QED
    BY <1>5, <2>1, <2>2 DEF NonePending
<1> QED
  BY <1>1, <1>2, <1>3, <1>4, <1>5

\* Login pushes the table, and forgets the items of another slot.
LEMMA ConnectedSync ==
  TypeInv /\ SyncInv /\ HandleConnected => SyncInv'
<1> SUFFICES ASSUME TypeInv, SyncInv, HandleConnected
             PROVE  SyncInv'
  OBVIOUS
<1>1. TasksOK /\ SwitchOK /\ abilities_received \in Tables /\ AbilityLines \in Seq(Lines)
  BY AbilityLinesTyped DEF TypeInv, BridgeOK
<1>2. /\ UNCHANGED <<reg, swUp, rehello, replayed, unlocked, abilities, abilities_received>>
      /\ SendLines(AbilityLines)
      /\ received_items' = received_items \/ received_items' = <<>>
  BY DEF HandleConnected, countVars, modVars, clear_received
<1>3. NonePending' => NonePending
  <2>1. PICK u : StepsTo(u) /\ u.ability = cur[1].ability
    BY ConnectedStep
  <2> QED
    BY <1>1, <2>1, PendingFacts
<1>4. CASE ~swUp
  BY <1>2, <1>4 DEF SyncInv
<1>5. CASE swUp
  <2>1. wire' = wire \o AbilityLines
    BY <1>2, <1>5 DEF SyncInv, SendLines
  <2>2. replayed /\ ~rehello => CapturesCome'
    <3>1. \A c : CaptureComes(c) => CaptureComes(c)'
      BY <1>1, <1>2, <2>1, SendCaptures
    <3>2. DOMAIN <<>> = {}
      OBVIOUS
    <3> QED
      BY <1>2, <1>5, <3>1, <3>2 DEF SyncInv, CapturesCome
  <2>3. abilities_received # NoAbilities => TableComes'
    <3>1. wire \in Seq(Lines)
      BY <1>1 DEF SwitchOK
    <3> QED
      BY <1>1, <1>2, <2>1, <3>1, SendTable
  <2> QED
    BY <1>2, <1>5, <2>2, <2>3 DEF SyncInv
<1> QED
  BY <1>4, <1>5

\* A batch that brought an ability pushes the table.
LEMMA DoneSync ==
  SessionInv /\ SyncInv /\ (ConnectedStashesBonus \/ PushDerived) => SyncInv'
<1> SUFFICES ASSUME SessionInv, SyncInv, ConnectedStashesBonus \/ PushDerived
             PROVE  SyncInv'
  OBVIOUS
<1>1. /\ TypeInv /\ TaskInv /\ TasksOK /\ SwitchOK /\ abilities_received \in Tables
      /\ AbilityLines \in Seq(Lines) /\ wire \in Seq(Lines)
  BY AbilityLinesTyped DEF SessionInv, TypeInv, BridgeOK, SwitchOK
<1>2. /\ UNCHANGED <<received_items, abilities_received, reg, swUp, rehello, unlocked, abilities,
                     replayed>>
      /\ cur # <<>> /\ Finishes
  BY DEF ConnectedStashesBonus, PushDerived, linkVars, countVars, modVars
<1>3. CASE wire' = wire /\ ~cur[1].ability
  <2>1. NonePending' => NonePending
    BY <1>1, <1>2, <1>3, PendingFacts
  <2> QED
    BY <1>2, <1>3, <2>1, SyncSame DEF SyncVars
<1>4. CASE SendLines(AbilityLines)
  <2>1. CASE ~swUp
    BY <1>2, <2>1 DEF SyncInv
  <2>2. CASE swUp
    <3>1. wire' = wire \o AbilityLines
      BY <1>4, <2>2 DEF SyncInv, SendLines
    <3>2. replayed /\ ~rehello => CapturesCome'
      <4>1. \A c : CaptureComes(c) => CaptureComes(c)'
        BY <1>1, <1>2, <3>1, SendCaptures
      <4> QED
        BY <1>2, <2>2, <4>1 DEF SyncInv, CapturesCome
    <3>3. abilities_received # NoAbilities => TableComes'
      BY <1>1, <1>2, <3>1, SendTable
    <3> QED
      BY <1>2, <2>2, <3>2, <3>3 DEF SyncInv
  <2> QED
    BY <2>1, <2>2
<1>5. CASE ConnectedStashesBonus
  <2>1. TaskOK(cur[1]) /\ cur[1].pc = "bonus" /\ wire' = wire
    <3>1. cur[1].pc = "bonus" /\ wire' = wire
      BY <1>5 DEF ConnectedStashesBonus, linkVars
    <3> QED
      BY <1>1, <1>2, <3>1, UnderWayFacts DEF TaskInv
  <2>2. ~cur[1].ability
    BY <2>1 DEF TaskOK
  <2> QED
    BY <1>3, <2>1, <2>2
<1>6. CASE PushDerived
  <2>1. CASE cur[1].ability
    BY <1>4, <1>6, <2>1 DEF PushDerived
  <2>2. CASE ~cur[1].ability
    <3>1. SendLines(<<>>)
      BY <1>6, <2>2 DEF PushDerived
    <3>2. wire \o <<>> = wire
      BY <1>1
    <3>3. wire' = wire
      BY <3>1, <3>2 DEF SendLines
    <3> QED
      BY <1>3, <2>2, <3>3
  <2> QED
    BY <2>1, <2>2
<1> QED
  BY <1>5, <1>6

\* Lines sent for items are items: the captures stay on their way, and the table.
LEMMA ItemsSync ==
  ASSUME TypeInv, SyncInv, NEW ls \in Seq(Lines), SendLines(ls),
         \A l \in DOMAIN ls : ls[l].t = "item",
         UNCHANGED <<received_items, abilities_received, reg, swUp, rehello, unlocked, abilities,
                     replayed>>,
         NonePending' => NonePending
  PROVE  SyncInv'
<1>1. SwitchOK
  BY DEF TypeInv
<1>2. CASE ~swUp
  BY <1>2 DEF SyncInv
<1>3. CASE swUp
  <2>1. wire' = wire \o ls
    BY <1>3 DEF SyncInv, SendLines
  <2>2. replayed /\ ~rehello => CapturesCome'
    <3>1. \A c : CaptureComes(c) => CaptureComes(c)'
      BY <1>1, <2>1, SendCaptures
    <3> QED
      BY <1>3, <3>1 DEF SyncInv, CapturesCome
  <2>3. TableComes => TableComes'
    BY <1>1, <2>1, SendItems
  <2> QED
    BY <1>3, <2>2, <2>3 DEF SyncInv
<1> QED
  BY <1>2, <1>3

LEMMA GrantSync ==
  TypeInv /\ SyncInv /\ GrantBonus => SyncInv'
<1> SUFFICES ASSUME TypeInv, SyncInv, GrantBonus
             PROVE  SyncInv'
  OBVIOUS
<1>1. PICK ls \in Seq(Lines) : ls = ChunkLines(cur[1]) /\ \A l \in DOMAIN ls : ls[l].t = "item"
  BY ChunkLinesTyped
<1>2. SendLines(ls)
  BY <1>1, GrantStep DEF ChunkLines
<1>3. NonePending' => NonePending
  <2>1. PICK u : StepsTo(u) /\ u.ability = cur[1].ability
    BY GrantStep
  <2> QED
    BY <2>1, PendingFacts DEF TypeInv
<1>4. UNCHANGED <<received_items, abilities_received, reg, swUp, rehello, unlocked, abilities,
                  replayed>>
  BY DEF GrantBonus, modVars
<1> QED
  BY <1>1, <1>2, <1>3, <1>4, ItemsSync

\* An item that is mirrored is sent, if it is a capture; an ability leaves its table to push.
LEMMA ProcessSync ==
  TypeInv /\ SyncInv /\ ProcessItem => SyncInv'
<1> SUFFICES ASSUME TypeInv, SyncInv, ProcessItem
             PROVE  SyncInv'
  OBVIOUS
<1>1. TasksOK /\ SwitchOK /\ BridgeOK /\ received_items \in Seq(Items) /\ abilities_received \in Tables
  BY DEF TypeInv, BridgeOK
<1>2. PICK u : StepsTo(u) /\ (Skips(cur[1], u) \/ Mirrors(cur[1], u))
  BY ProcessStep
<1>3. UNCHANGED <<reg, swUp, rehello, unlocked, abilities, replayed>>
  BY DEF ProcessItem, modVars
<1>4. CASE Skips(cur[1], u)
  <2>1. NonePending' => NonePending
    BY <1>1, <1>2, <1>4, PendingFacts DEF Skips
  <2> QED
    BY <1>3, <1>4, <2>1, SyncSame DEF SyncVars, Skips, countVars
<1>5. CASE Mirrors(cur[1], u)
  <2>1. PICK it \in Items : it = cur[1].items[cur[1].i]
    BY ProcessStep
  <2>2. add_received_item(it)
    BY <1>5, <2>1 DEF Mirrors
  <2>3. received_items' = Append(received_items, it)
    BY <2>2 DEF add_received_item
  <2>4. \A k \in DOMAIN received_items' : received_items'[k] = it
          \/ (k \in DOMAIN received_items /\ received_items'[k] = received_items[k])
    BY <1>1, <2>3
  <2>5. CASE it \in Abilities
    <3>1. u.ability = TRUE /\ UNCHANGED wire
      BY <1>5, <2>1, <2>5 DEF Mirrors
    <3>2. ~NonePending'
      BY <1>1, <1>2, <3>1, PendingFacts
    <3>3. it \notin Captures
      BY <2>5, MirrorAssumption
    <3>4. \A c : CaptureComes(c)' <=> CaptureComes(c)
      BY <1>3, <3>1 DEF CaptureComes
    <3>5. CapturesCome => CapturesCome'
      BY <2>4, <3>3, <3>4 DEF CapturesCome
    <3> QED
      BY <1>3, <3>2, <3>5 DEF SyncInv
  <2>6. CASE it \notin Abilities
    <3>1. /\ u.ability = cur[1].ability
          /\ SendLines(IF it \in Captures THEN <<ItemLine(it)>> ELSE <<>>)
      BY <1>5, <2>1, <2>6 DEF Mirrors
    <3>2. PICK ls : ls = IF it \in Captures THEN <<ItemLine(it)>> ELSE <<>>
      OBVIOUS
    <3>3. /\ ls \in Seq(Lines) /\ SendLines(ls)
          /\ \A l \in DOMAIN ls : ls[l].t = "item"
          /\ it \in Captures => \E l \in DOMAIN ls : ls[l] = ItemLine(it)
      <4>1. CASE it \in Captures
        <5>1. PICK e \in Lines : e = ItemLine(it) /\ e.t = "item"
          BY <4>1, LineTyped
        <5>2. ls = <<e>>
          BY <3>2, <4>1, <5>1
        <5>3. <<e>> \in Seq(Lines) /\ DOMAIN <<e>> = {1} /\ <<e>>[1] = e
          BY <5>1
        <5> QED
          BY <3>1, <3>2, <5>1, <5>2, <5>3
      <4>2. CASE it \notin Captures
        <5>1. ls = <<>>
          BY <3>2, <4>2
        <5>2. <<>> \in Seq(Lines) /\ DOMAIN <<>> = {}
          OBVIOUS
        <5> QED
          BY <3>1, <3>2, <4>2, <5>1, <5>2
      <4> QED
        BY <4>1, <4>2
    <3>4. NonePending' => NonePending
      BY <1>1, <1>2, <3>1, PendingFacts
    <3>5. abilities_received' = abilities_received
      <4>1. abilities_received' = [a \in Abilities |-> abilities_received[a] + 0]
        BY <2>2, <2>6 DEF add_received_item
      <4>2. \A a \in Abilities : abilities_received[a] \in Nat
        BY <1>1 DEF Tables
      <4>3. abilities_received = [a \in Abilities |-> abilities_received[a]]
        BY <1>1 DEF Tables
      <4>4. \A a \in Abilities : abilities_received[a] + 0 = abilities_received[a]
        BY <4>2
      <4> QED
        BY <4>1, <4>3, <4>4
    <3>6. CASE ~swUp
      BY <1>3, <3>6 DEF SyncInv
    <3>7. CASE swUp
      <4>1. wire' = wire \o ls
        BY <3>3, <3>7 DEF SyncInv, SendLines
      <4>2. /\ \A c : CaptureComes(c) => CaptureComes(c)'
            /\ it \in Captures => CaptureComes(it)'
        BY <1>1, <1>3, <3>3, <4>1, SendCaptures
      <4>3. CapturesCome => CapturesCome'
        BY <2>4, <4>2 DEF CapturesCome
      <4>4. TableComes => TableComes'
        BY <1>1, <1>3, <3>3, <3>5, <4>1, SendItems
      <4> QED
        BY <1>3, <3>4, <3>5, <3>7, <4>3, <4>4 DEF SyncInv
    <3> QED
      BY <3>6, <3>7
  <2> QED
    BY <2>5, <2>6
<1> QED
  BY <1>2, <1>4, <1>5

\* A first HELLO is answered by a line for every capture of the mirror, then the table.
LEMMA HelloSync ==
  TypeInv /\ SyncInv /\ SwitchConnects => SyncInv'
<1> SUFFICES ASSUME TypeInv, SyncInv, SwitchConnects
             PROVE  SyncInv'
  OBVIOUS
<1>1. received_items \in Seq(Items) /\ abilities_received \in Tables /\ AbilityLines \in Seq(Lines)
  BY AbilityLinesTyped DEF TypeInv, BridgeOK
<1>2. /\ swUp' = TRUE /\ reg' = "live" /\ rehello' = FALSE
      /\ wire' = IF replayed' THEN run_post_hello_replay ELSE <<>>
      /\ UNCHANGED <<received_items, abilities_received, unlocked, abilities>>
  BY DEF SwitchConnects, countVars, modVars
<1>3. CASE ~replayed'
  BY <1>2, <1>3 DEF SyncInv
<1>4. CASE replayed'
  <2>1. PICK q \in Seq(Lines) : q = ItemLines(received_items)
    BY <1>1, ItemLinesFacts
  <2>2. wire' = q \o AbilityLines
    BY <1>2, <1>4, <2>1 DEF run_post_hello_replay
  <2>3. \A k \in DOMAIN received_items : received_items[k] \in Captures =>
          \E l \in DOMAIN wire' : wire'[l] = ItemLine(received_items[k])
    <3>1. \A k \in DOMAIN received_items : received_items[k] \in Captures =>
            \E l \in DOMAIN q : q[l] = ItemLine(received_items[k])
      BY <1>1, <2>1, ItemLinesFacts
    <3>2. \A l \in DOMAIN q : l \in DOMAIN wire' /\ wire'[l] = q[l]
      BY <1>1, <2>2
    <3> QED
      BY <3>1, <3>2
  <2>4. CapturesCome'
    BY <1>2, <2>3 DEF CapturesCome, CaptureComes
  <2>5. abilities_received # NoAbilities => TableComes'
    BY <1>1, <1>2, <2>2, SendTable DEF TypeInv
  <2> QED
    BY <1>2, <2>4, <2>5 DEF SyncInv
<1> QED
  BY <1>3, <1>4

\* The game reads a line: a capture is unlocked, or a table taken over.
LEMMA ReadsSync ==
  TypeInv /\ SyncInv /\ SwitchReads => SyncInv'
<1> SUFFICES ASSUME TypeInv, SyncInv, SwitchReads
             PROVE  SyncInv'
  OBVIOUS
<1>1. TasksOK /\ wire \in Seq(Lines) /\ wire # <<>> /\ wire' = Tail(wire)
  BY DEF TypeInv, SwitchOK, SwitchReads
<1>2. PICK e \in Lines : e = Head(wire) /\ e = wire[1] /\ 1 \in DOMAIN wire
  BY <1>1
<1>3. /\ UNCHANGED <<received_items, abilities_received, reg, swUp, rehello, replayed>>
      /\ UNCHANGED taskVars
  BY DEF SwitchReads, countVars
<1>4. IF e.t = "item" THEN unlocked' = unlocked \cup {e.cap} /\ UNCHANGED abilities
      ELSE abilities' = e.counts /\ UNCHANGED unlocked
  BY <1>2 DEF SwitchReads
<1>5. PICK n \in Nat : n = Len(wire) /\ n # 0
  BY <1>1
<1>6. /\ DOMAIN wire = 1 .. n /\ DOMAIN wire' = 1 .. (n - 1)
      /\ \A k \in 1 .. (n - 1) : wire'[k] = wire[k + 1]
  BY <1>1, <1>5
<1>7. NonePending' <=> NonePending
  BY <1>1, <1>3, PendingFacts
<1>8. ASSUME NEW c \in Captures, CaptureComes(c)
      PROVE  CaptureComes(c)'
  <2>1. CASE c \in unlocked
    BY <1>4, <2>1 DEF CaptureComes
  <2>2. ASSUME NEW l \in DOMAIN wire, wire[l] = ItemLine(c)
        PROVE  CaptureComes(c)'
    <3>1. CASE l = 1
      <4>1. e.t = "item" /\ e.cap = c
        BY <1>2, <2>2, <3>1, LineTyped
      <4> QED
        BY <1>4, <4>1 DEF CaptureComes
    <3>2. CASE l # 1
      <4>1. l - 1 \in 1 .. (n - 1) /\ (l - 1) + 1 = l
        BY <1>6, <2>2, <3>2
      <4>2. l - 1 \in DOMAIN wire' /\ wire'[l - 1] = ItemLine(c)
        BY <1>6, <2>2, <4>1
      <4> QED
        BY <4>2 DEF CaptureComes
    <3> QED
      BY <3>1, <3>2
  <2> QED
    BY <1>8, <2>1, <2>2 DEF CaptureComes
<1>9. CapturesCome => CapturesCome'
  BY <1>3, <1>8 DEF CapturesCome
<1>10. ASSUME TableComes, abilities_received \in Tables
       PROVE  TableComes'
  <2>1. AbilityLine(abilities_received)' = AbilityLine(abilities_received)
    BY <1>3
  <2>2. ASSUME NEW k \in DOMAIN wire, wire[k] = AbilityLine(abilities_received),
               \A l \in DOMAIN wire : l > k => wire[l].t = "item"
        PROVE  TableComes'
    <3>1. CASE k = 1
      <4>1. e.t = "ability_state" /\ e.counts = abilities_received
        BY <1>2, <1>10, <2>2, <3>1, LineTyped
      <4>2. abilities' = abilities_received'
        BY <1>3, <1>4, <4>1
      <4>3. ASSUME NEW l \in DOMAIN wire'
            PROVE  wire'[l].t = "item"
        <5>1. l + 1 \in DOMAIN wire /\ l + 1 > 1 /\ wire'[l] = wire[l + 1]
          BY <1>6
        <5> QED
          BY <2>2, <3>1, <5>1
      <4> QED
        BY <4>2, <4>3 DEF TableComes
    <3>2. CASE k # 1
      <4>1. k - 1 \in 1 .. (n - 1) /\ (k - 1) + 1 = k
        BY <1>6, <2>2, <3>2
      <4>2. wire'[k - 1] = AbilityLine(abilities_received)'
        BY <1>6, <2>1, <2>2, <4>1
      <4>3. ASSUME NEW l \in DOMAIN wire', l > k - 1
            PROVE  wire'[l].t = "item"
        <5>1. l + 1 \in DOMAIN wire /\ l + 1 > k /\ wire'[l] = wire[l + 1]
          BY <1>6, <4>1, <4>3
        <5> QED
          BY <2>2, <5>1
      <4> QED
        BY <1>6, <4>1, <4>2, <4>3 DEF TableComes
    <3> QED
      BY <3>1, <3>2
  <2>3. CASE abilities = abilities_received /\ \A k \in DOMAIN wire : wire[k].t = "item"
    <3>1. e.t = "item"
      BY <1>2, <2>3
    <3>2. \A k \in DOMAIN wire' : wire'[k].t = "item"
      <4>1. \A k \in 1 .. (n - 1) : k + 1 \in 1 .. n
        OBVIOUS
      <4> QED
        BY <1>6, <2>3, <4>1
    <3>3. abilities' = abilities_received'
      BY <1>3, <1>4, <2>3, <3>1
    <3> QED
      BY <3>2, <3>3 DEF TableComes
  <2> QED
    BY <1>10, <2>2, <2>3 DEF TableComes
<1>11. abilities_received \in Tables
  BY DEF TypeInv, BridgeOK
<1> QED
  BY <1>3, <1>7, <1>9, <1>10, <1>11 DEF SyncInv

LEMMA SyncKept ==
  SessionInv /\ SyncInv /\ [Next]_vars => SyncInv'
<1> SUFFICES ASSUME SessionInv, SyncInv, [Next]_vars
             PROVE  SyncInv'
  OBVIOUS
<1>1. TypeInv /\ TasksOK
  BY DEF SessionInv, TypeInv
<1>2. CASE (\E s \in Slots, it \in Items : ServerSends(s, it)) \/ (\E s \in Slots : ClientConnects(s))
           \/ ChecksPile \/ LinkStalls \/ LinkDrains \/ UNCHANGED vars
  <2>1. UNCHANGED taskVars /\ UNCHANGED SyncVars
    BY <1>2 DEF ServerSends, ClientConnects, ChecksPile, LinkStalls, LinkDrains, vars, SyncVars, countVars,
                linkVars, modVars, taskVars
  <2> QED
    BY <1>1, <2>1, PendingFacts, SyncSame
<1>3. CASE on_package
  <2>1. UNCHANGED SyncVars
    BY <1>3 DEF on_package, SyncVars, countVars, linkVars, modVars
  <2>2. NonePending' => NonePending
    <3>1. \A t : UnderWay(t) => UnderWay(t)'
      BY <1>1, <1>3, PackageFacts, UnderWayFacts
    <3> QED
      BY <3>1 DEF NonePending
  <2> QED
    BY <2>1, <2>2, SyncSame
<1>4. CASE Resume
  <2>1. UNCHANGED SyncVars
    BY <1>4 DEF Resume, SyncVars, countVars, linkVars, modVars
  <2> QED
    BY <1>1, <1>4, <2>1, PendingFacts, SyncSame
<1>5. CASE AbandonedCloses \/ BridgeSeesEof \/ LinkLost \/ TakeRehello
  <2>1. ~swUp' /\ reg' # "live"
    BY <1>5 DEF AbandonedCloses, BridgeSeesEof, LinkLost, TakeRehello, SyncInv
  <2> QED
    BY <2>1 DEF SyncInv
<1>6. CASE SaveLoad
  <2>1. /\ UNCHANGED <<received_items, abilities_received, reg, wire, swUp, abilities, replayed>>
        /\ UNCHANGED taskVars /\ rehello'
    BY <1>6 DEF SaveLoad, countVars, linkVars
  <2>2. NonePending' <=> NonePending
    BY <1>1, <2>1, PendingFacts
  <2>3. TableComes' <=> TableComes
    BY <2>1 DEF TableComes
  <2> QED
    BY <2>1, <2>2, <2>3 DEF SyncInv
<1>7. \/ (\E s \in Slots, it \in Items : ServerSends(s, it)) \/ (\E s \in Slots : ClientConnects(s))
      \/ on_package \/ Resume
      \/ HandleConnected \/ (ConnectedStashesBonus \/ PushDerived)
      \/ ProcessItem \/ GrantBonus
      \/ SwitchConnects \/ SwitchReads
      \/ ChecksPile \/ LinkStalls \/ LinkDrains
      \/ (AbandonedCloses \/ BridgeSeesEof \/ LinkLost \/ TakeRehello) \/ SaveLoad
      \/ UNCHANGED vars
  BY Zenon DEF Next
<1>8. CASE HandleConnected
  BY <1>1, <1>8, ConnectedSync
<1>9. CASE ConnectedStashesBonus \/ PushDerived
  BY <1>9, DoneSync
<1>10. CASE ProcessItem
  BY <1>1, <1>10, ProcessSync
<1>11. CASE GrantBonus
  BY <1>1, <1>11, GrantSync
<1>12. CASE SwitchConnects
  BY <1>1, <1>12, HelloSync
<1>13. CASE SwitchReads
  BY <1>1, <1>13, ReadsSync
<1> QED
  BY <1>2, <1>3, <1>4, <1>5, <1>6, <1>7, <1>8, <1>9, <1>10, <1>11, <1>12, <1>13, ZenonT(60)

LEMMA InitSync ==
  Init => SyncInv
BY DEF Init, SyncInv

\* With nothing on its way the Switch has the captures and the table.
LEMMA SyncComplete ==
  TypeInv /\ SyncInv => SwitchInSync
<1> SUFFICES ASSUME TypeInv, SyncInv, cur = <<>>, waiting = <<>>, wire = <<>>, swUp, ~rehello,
                    replayed
             PROVE  /\ Range(received_items) \cap Captures \subseteq unlocked
                    /\ abilities_received # NoAbilities => abilities = abilities_received
  BY DEF SwitchInSync, Quiescent, NoTask
<1>1. DOMAIN wire = {}
  OBVIOUS
<1>2. NonePending
  BY DEF NonePending, UnderWay
<1>3. CapturesCome
  BY DEF SyncInv
<1>4. Range(received_items) \cap Captures \subseteq unlocked
  BY <1>1, <1>3 DEF Range, CapturesCome, CaptureComes
<1>5. abilities_received # NoAbilities => abilities = abilities_received
  BY <1>1, <1>2 DEF SyncInv, TableComes
<1> QED
  BY <1>4, <1>5

(***************************************************************************)
(* The bonus captures.                                                     *)
(***************************************************************************)

\* The positions of the capture c in a slice of the picks.
Between(picks, a, e, c) == {j \in DOMAIN picks : a < j /\ j <= e /\ picks[j] = c}

LEMMA SliceCount ==
  ASSUME NEW picks \in Seq(Captures), NEW a \in Nat, NEW e \in Nat, e <= Len(picks), NEW c
  PROVE  Count(SubSeq(picks, a + 1, e), c)
           = Cardinality(Between(picks, a, e, c))
<1> DEFINE s == SubSeq(picks, a + 1, e)
           Q == {i \in DOMAIN s : s[i] = c}
           R == {j \in DOMAIN picks : a < j /\ j <= e /\ picks[j] = c}
           f == [i \in Q |-> i + a]
<1>1. Len(picks) \in Nat /\ DOMAIN picks = 1 .. Len(picks)
  OBVIOUS
<1>2. \A k \in (a + 1) .. e : picks[k] \in Captures
  <2>1. \A k \in (a + 1) .. e : k \in 1 .. Len(picks)
    BY <1>1
  <2> QED
    BY <2>1
<1>3. PICK n \in Nat : n = (IF a + 1 <= e THEN e - a ELSE 0) /\ DOMAIN s = 1 .. n
                       /\ \A i \in 1 .. n : s[i] = picks[i + a]
  <2>1. /\ s \in Seq(Captures)
        /\ Len(s) = (IF a + 1 <= e THEN e - (a + 1) + 1 ELSE 0)
        /\ \A i \in 1 .. e - (a + 1) + 1 : s[i] = picks[(a + 1) + i - 1]
    BY <1>2, SubSeqProperties
  <2>2. \A i \in Nat : (a + 1) + i - 1 = i + a
    OBVIOUS
  <2> HIDE DEF s
  <2>3. Len(s) \in Nat /\ DOMAIN s = 1 .. Len(s)
    BY <2>1
  <2>4. Len(s) = (IF a + 1 <= e THEN e - a ELSE 0)
    BY <2>1
  <2>5. \A i \in 1 .. Len(s) : s[i] = picks[i + a]
    <3>1. \A i \in 1 .. Len(s) : i \in 1 .. e - (a + 1) + 1 /\ i \in Nat
      BY <2>3, <2>4
    <3> QED
      BY <2>1, <2>2, <3>1
  <2> QED
    BY <2>3, <2>4, <2>5
<1> HIDE DEF s
<1>4. Q = {i \in 1 .. n : picks[i + a] = c}
  BY <1>3
<1>5. R = {j \in 1 .. Len(picks) : a < j /\ j <= e /\ picks[j] = c}
  BY <1>1
<1>6. \A i \in Q : i \in Nat /\ i + a \in R
  BY <1>1, <1>3, <1>4, <1>5
<1>7. \A j \in R : j - a \in Q /\ (j - a) + a = j
  BY <1>1, <1>3, <1>4, <1>5
<1>8. IsFiniteSet(Q)
  <2>1. Q \subseteq 1 .. n
    BY <1>4
  <2> QED
    BY <2>1, <1>3, Counted
<1> HIDE DEF Q, R
<1>9. f \in Bijection(Q, R)
  <2>1. f \in [Q -> R]
    BY <1>6
  <2>2. \A i, k \in Q : f[i] = f[k] => i = k
    BY <1>6
  <2>3. \A j \in R : \E i \in Q : f[i] = j
    <3>1. TAKE j \in R
    <3>2. f[j - a] = j
      BY <1>7
    <3> QED
      BY <1>7, <3>2
  <2> QED
    BY <2>1, <2>2, <2>3 DEF Bijection, Injection, Surjection, IsInjective
<1>10. Cardinality(R) = Cardinality(Q)
  BY <1>8, <1>9, FS_Bijection DEF ExistsBijection
<1> QED
  BY <1>10 DEF Count, Q, R, s, Between

\* What the n-th Multi-Moon grants is what n of them have on top of n - 1.
LEMMA ChunkPicks ==
  ASSUME NEW picks \in Seq(Captures), NEW n \in Nat \ {0}, NEW c
  PROVE  /\ Picks(picks, n, c) = Picks(picks, n - 1, c) + Count(BonusChunk(picks, n), c)
         /\ Picks(picks, n, c) \in Nat /\ Picks(picks, n - 1, c) \in Nat
<1>1. PICK a \in Nat, b \in Nat, l \in Nat :
        a = Chunk * (n - 1) /\ b = Chunk * n /\ l = Len(picks) /\ a <= b
  <2>1. Chunk \in Nat /\ n \in Nat /\ n - 1 \in Nat /\ Len(picks) \in Nat
    BY MirrorAssumption
  <2>2. \A x, y \in Nat : x * y \in Nat
    OBVIOUS
  <2>3. Chunk * (n - 1) \in Nat /\ Chunk * n \in Nat
    BY <2>1, <2>2
  <2>4. Chunk * n = Chunk * (n - 1) + Chunk
    BY <2>1
  <2>5. PICK a \in Nat, b \in Nat : a = Chunk * (n - 1) /\ b = Chunk * n
    BY <2>3
  <2>6. a <= b
    BY <2>1, <2>4, <2>5
  <2> QED
    BY <2>1, <2>5, <2>6
<1>2. PICK e \in Nat : e = (IF b < l THEN b ELSE l) /\ e <= l
  OBVIOUS
<1>3. DOMAIN picks = 1 .. l
  BY <1>1
<1> DEFINE S == {j \in DOMAIN picks : j <= a /\ picks[j] = c}
           R == Between(picks, a, e, c)
           U == {j \in DOMAIN picks : j <= b /\ picks[j] = c}
<1>4. U = S \cup R /\ S \cap R = {}
  BY <1>1, <1>2, <1>3 DEF Between
<1>5. S \subseteq 1 .. l /\ R \subseteq 1 .. l /\ U \subseteq 1 .. l
  BY <1>3 DEF Between
<1>6. Count(BonusChunk(picks, n), c) = Cardinality(R)
  <2>1. BonusChunk(picks, n) = SubSeq(picks, a + 1, e)
    BY <1>1, <1>2, Zenon DEF BonusChunk
  <2> QED
    BY <1>1, <1>2, <2>1, SliceCount
<1>7. Picks(picks, n, c) = Cardinality(U) /\ Picks(picks, n - 1, c) = Cardinality(S)
  BY <1>1 DEF Picks
<1> HIDE DEF S, R, U
<1>8. /\ IsFiniteSet(S) /\ IsFiniteSet(R)
      /\ Cardinality(S) \in Nat /\ Cardinality(R) \in Nat /\ Cardinality(U) \in Nat
  BY <1>5, Counted
<1>9. Cardinality(S \cup R) = Cardinality(S) + Cardinality(R) - Cardinality(S \cap R)
  BY <1>8, FS_Union
<1>10. Cardinality(S \cap R) = 0
  BY <1>4, FS_EmptySet
<1> QED
  BY <1>4, <1>6, <1>7, <1>8, <1>9, <1>10

\* None is granted before the first.
LEMMA NoPicks ==
  ASSUME NEW picks \in Seq(Captures), NEW c
  PROVE  Picks(picks, 0, c) = 0
<1>1. Chunk * 0 = 0
  BY MirrorAssumption
<1>2. {j \in DOMAIN picks : j <= Chunk * 0 /\ picks[j] = c} = {}
  BY <1>1
<1> QED
  BY <1>2, FS_EmptySet DEF Picks

\* What has no part in the bonus captures.
BonusVars == <<received_items, captures_received_count, mm_bonus_captures, slot, cur, waiting,
               overlapped, slotChanged>>

LEMMA BonusSame ==
  BonusInv /\ UNCHANGED BonusVars => BonusInv'
<1> SUFFICES ASSUME BonusInv, UNCHANGED BonusVars
             PROVE  BonusInv'
  OBVIOUS
<1> USE DEF BonusVars
<1>1. \A t : UnderWay(t)' <=> UnderWay(t)
  BY DEF UnderWay
<1>2. Owed' = Owed
  BY <1>1 DEF Owed
<1>3. OneTask' <=> OneTask
  BY DEF OneTask
<1>4. BonusCounts => BonusCounts'
  BY <1>1, <1>2 DEF BonusCounts
<1> QED
  BY <1>3, <1>4 DEF BonusInv

\* One task at a time: the running one, and still that one as it goes on or is done.
LEMMA Alone ==
  ASSUME TasksOK, OneTask, cur # <<>>
  PROVE  /\ waiting = <<>> /\ \A t : UnderWay(t) <=> t = cur[1]
         /\ \A u : StepsTo(u) => OneTask' /\ \A t : UnderWay(t)' <=> t = u
         /\ Finishes => OneTask' /\ \A t : ~UnderWay(t)'
<1>1. waiting = <<>> /\ DOMAIN waiting = {}
  BY DEF OneTask
<1>2. \A t : ~InWaiting(t)
  BY <1>1 DEF InWaiting
<1>3. \A t : UnderWay(t) <=> t = cur[1]
  BY <1>2, UnderWayFacts
<1>4. ASSUME NEW u, StepsTo(u)
      PROVE  OneTask' /\ \A t : UnderWay(t)' <=> t = u
  <2>1. \A t : UnderWay(t)' <=> t = u
    BY <1>2, <1>4, UnderWayFacts
  <2>2. OneTask'
    <3>1. waiting' = <<>> \/ (cur' = <<>> /\ waiting' = Append(<<>>, u))
      BY <1>1, <1>4, Zenon DEF StepsTo, Goes, Await
    <3>2. Len(Append(<<>>, u)) = 1
      OBVIOUS
    <3> QED
      BY <3>1, <3>2 DEF OneTask
  <2> QED
    BY <2>1, <2>2
<1>5. Finishes => OneTask' /\ \A t : ~UnderWay(t)'
  BY <1>1, <1>2, UnderWayFacts DEF Finishes, OneTask
<1> QED
  BY <1>1, <1>3, <1>4, <1>5

\* A package starts when nothing else is under way.
LEMMA PackageBonus ==
  SessionInv /\ BonusInv /\ on_package => BonusInv'
<1> SUFFICES ASSUME SessionInv, BonusInv, on_package, ~overlapped'
             PROVE  BonusInv'
  BY DEF BonusInv
<1>1. TypeInv /\ TasksOK
  BY DEF SessionInv, TypeInv
<1>2. /\ ~overlapped /\ waiting = <<>> /\ cur = <<>>
      /\ UNCHANGED <<received_items, captures_received_count, mm_bonus_captures, slot, slotChanged,
                     waiting>>
  BY DEF on_package, countVars
<1>3. OneTask'
  BY <1>2 DEF OneTask
<1>4. PICK u : u = Task(net[1])
  OBVIOUS
<1>5. \A t : ~UnderWay(t)
  BY <1>2 DEF UnderWay
<1>6. \A t : UnderWay(t)' <=> t = u
  <2>1. \A t : ~InWaiting(t)
    BY <1>2 DEF InWaiting
  <2> QED
    BY <1>4, <2>1, PackageFacts
<1>7. u.pc \in {"start", "item"}
  BY <1>4, Zenon DEF Task
<1>8. Owed = 0 /\ Owed' = 0
  BY <1>5, <1>6, <1>7 DEF Owed, Owes
<1>9. BonusCounts => BonusCounts'
  BY <1>2, <1>5, <1>6, <1>7, <1>8 DEF BonusCounts
<1> QED
  BY <1>2, <1>3, <1>9 DEF BonusInv

LEMMA ResumeBonus ==
  SessionInv /\ BonusInv /\ Resume => BonusInv'
<1> SUFFICES ASSUME SessionInv, BonusInv, Resume, ~overlapped
             PROVE  BonusInv'
  BY DEF BonusInv, Resume, ghostVars
<1>1. TypeInv /\ TasksOK
  BY DEF SessionInv, TypeInv
<1>2. UNCHANGED <<received_items, captures_received_count, mm_bonus_captures, slot, overlapped,
                  slotChanged>>
  BY DEF Resume, countVars, ghostVars
<1>3. OneTask'
  <2>1. waiting \in Seq(Tasks) /\ Len(waiting) = 1 /\ waiting' = Tail(waiting)
    BY <1>1 DEF TasksOK, BonusInv, OneTask, Resume
  <2>2. waiting' = <<>>
    BY <2>1
  <2> QED
    BY <2>2 DEF OneTask
<1>4. \A t : UnderWay(t)' <=> UnderWay(t)
  BY <1>1, ResumeFacts
<1>5. Owed' = Owed
  BY <1>4 DEF Owed
<1>6. BonusCounts => BonusCounts'
  BY <1>2, <1>4, <1>5 DEF BonusCounts
<1> QED
  BY <1>2, <1>3, <1>6 DEF BonusInv

\* Login: the first one starts from nothing, one to the same slot changes nothing.
LEMMA ConnectedBonus ==
  SessionInv /\ BonusInv /\ HandleConnected => BonusInv'
<1> SUFFICES ASSUME SessionInv, BonusInv, HandleConnected, ~overlapped
             PROVE  BonusInv'
  BY DEF BonusInv, HandleConnected
<1>1. TypeInv /\ TasksOK /\ OneTask
  BY DEF SessionInv, TypeInv, BonusInv
<1>2. PICK u : StepsTo(u) /\ u.pc = "bonus"
  BY <1>1, ConnectedStep
<1>3. PICK t : t = cur[1]
  OBVIOUS
<1>4. /\ cur # <<>> /\ t.pc = "start" /\ slot' = t.slot
      /\ slotChanged' = (slotChanged \/ slot \notin {NoSlot, t.slot})
      /\ UNCHANGED <<mm_bonus_captures, overlapped>>
      /\ slot = NoSlot \/ slot = t.slot => UNCHANGED <<received_items, countVars>>
  BY <1>3 DEF HandleConnected
<1>5. /\ \A x : UnderWay(x) <=> x = t
      /\ \A x : UnderWay(x)' <=> x = u
      /\ OneTask'
  BY <1>1, <1>2, <1>3, <1>4, Alone
<1>6. t \in Tasks /\ u.slot = t.slot /\ t.slot \in Slots /\ t.slot # NoSlot
  <2>1. t \in Tasks
    BY <1>1, <1>3, <1>4, TasksTyped
  <2> QED
    BY <1>2, <1>3, <2>1, TaskFields, MirrorAssumption DEF StepsTo, SameBatch
<1>7. Owed = 0 /\ Owed' = 0
  BY <1>2, <1>4, <1>5 DEF Owed, Owes
<1>8. received_items \in Seq(Items) /\ BonusOf[t.slot] \in Seq(Captures)
  BY <1>1, <1>6, MirrorAssumption DEF TypeInv, BridgeOK
<1>9. ASSUME ~slotChanged'
      PROVE  BonusCounts'
  <2>1. ~slotChanged /\ (slot = NoSlot \/ slot = t.slot)
    BY <1>4, <1>9
  <2>2. UNCHANGED <<received_items, captures_received_count>>
    BY <1>4, <2>1 DEF countVars
  <2>3. Owed' <= Count(received_items', MultiMoon)
    <3>1. Count(received_items, MultiMoon) \in Nat
      BY <1>8, CountFacts
    <3> QED
      BY <1>7, <2>2, <3>1
  <2>4. /\ \A x : UnderWay(x)' /\ x.pc = "bonus" => x.slot = slot'
        /\ ~(\A x : UnderWay(x)' => x.pc # "bonus")
    BY <1>2, <1>4, <1>5, <1>6
  <2>5. ASSUME NEW c \in Captures
        PROVE  captures_received_count'[c] = Count(received_items', c)
                 + Picks(BonusOf[slot'], Count(received_items', MultiMoon) - Owed', c)
    <3>1. CASE slot = NoSlot
      <4>1. received_items = <<>> /\ captures_received_count[c] = 0
        BY <1>1, <2>1, <3>1 DEF BonusInv
      <4>2. Count(received_items, c) = 0 /\ Count(received_items, MultiMoon) - 0 = 0
        BY <1>8, <4>1, CountFacts
      <4>3. Picks(BonusOf[t.slot], 0, c) = 0
        BY <1>8, NoPicks
      <4> QED
        BY <1>4, <1>7, <2>2, <4>1, <4>2, <4>3
    <3>2. CASE slot # NoSlot
      <4>1. BonusCounts /\ slot' = slot
        BY <1>4, <2>1, <3>2 DEF BonusInv
      <4> QED
        BY <1>7, <2>2, <4>1 DEF BonusCounts
    <3> QED
      BY <3>1, <3>2
  <2> QED
    BY <2>3, <2>4, <2>5 DEF BonusCounts
<1> QED
  BY <1>4, <1>5, <1>6, <1>9 DEF BonusInv

\* Connected is done when the picks of its slot are stashed; a batch, with nothing owed.
LEMMA DoneBonus ==
  SessionInv /\ BonusInv /\ (ConnectedStashesBonus \/ PushDerived) => BonusInv'
<1> SUFFICES ASSUME SessionInv, BonusInv, ConnectedStashesBonus \/ PushDerived, ~overlapped
             PROVE  BonusInv'
  BY DEF BonusInv, ConnectedStashesBonus, PushDerived, ghostVars
<1>1. TypeInv /\ TasksOK /\ TaskInv /\ OneTask
  BY DEF SessionInv, TypeInv, BonusInv
<1>2. PICK t : t = cur[1]
  OBVIOUS
<1>3. /\ cur # <<>> /\ t.pc \in {"bonus", "item"} /\ Finishes
      /\ UNCHANGED <<received_items, captures_received_count, slot, overlapped, slotChanged>>
      /\ t.pc = "bonus" => mm_bonus_captures' = BonusOf[t.slot]
      /\ t.pc = "item" => UNCHANGED mm_bonus_captures
  BY <1>2 DEF ConnectedStashesBonus, PushDerived, countVars, ghostVars
<1>4. /\ \A x : UnderWay(x) <=> x = t
      /\ \A x : ~UnderWay(x)'
      /\ OneTask'
  BY <1>1, <1>2, <1>3, Alone
<1>5. Owed = 0 /\ Owed' = 0
  BY <1>3, <1>4 DEF Owed, Owes
<1>6. slot # NoSlot
  BY <1>1, <1>2, <1>3 DEF TaskInv
<1>7. BonusCounts => BonusCounts'
  <2> SUFFICES ASSUME BonusCounts
               PROVE  BonusCounts'
    OBVIOUS
  <2>1. mm_bonus_captures' = BonusOf[slot]
    BY <1>3, <1>4 DEF BonusCounts
  <2> QED
    BY <1>3, <1>4, <1>5, <2>1 DEF BonusCounts
<1> QED
  BY <1>3, <1>4, <1>6, <1>7 DEF BonusInv

\* Mirroring a Multi-Moon leaves its bonus captures owed; what was granted stays counted.
LEMMA ProcessBonus ==
  SessionInv /\ BonusInv /\ ProcessItem => BonusInv'
<1> SUFFICES ASSUME SessionInv, BonusInv, ProcessItem, ~overlapped
             PROVE  BonusInv'
  BY DEF BonusInv, ProcessItem, ghostVars
<1>1. TypeInv /\ TasksOK /\ TaskInv /\ OneTask /\ received_items \in Seq(Items)
  BY DEF SessionInv, TypeInv, BridgeOK, BonusInv
<1>2. PICK u : StepsTo(u) /\ (Skips(cur[1], u) \/ Mirrors(cur[1], u))
  BY <1>1, ProcessStep
<1>3. PICK t : t = cur[1]
  OBVIOUS
<1>4. /\ cur # <<>> /\ t.pc = "item"
      /\ UNCHANGED <<mm_bonus_captures, slot, overlapped, slotChanged>>
  BY <1>3 DEF ProcessItem, ghostVars
<1>5. /\ \A x : UnderWay(x) <=> x = t
      /\ \A x : UnderWay(x)' <=> x = u
      /\ OneTask'
  BY <1>1, <1>2, <1>3, <1>4, Alone
<1>6. slot # NoSlot
  BY <1>1, <1>3, <1>4 DEF TaskInv
<1>7. Owed = 0
  BY <1>4, <1>5 DEF Owed, Owes
<1>8. u.pc \in {"item", "sent"}
  BY <1>2 DEF Skips, Mirrors
<1>9. CASE Skips(t, u)
  <2>1. UNCHANGED <<received_items, captures_received_count>> /\ u.pc = "item"
    BY <1>9 DEF Skips, countVars
  <2>2. Owed' = 0
    BY <1>5, <2>1 DEF Owed, Owes
  <2>3. BonusCounts => BonusCounts'
    BY <1>4, <1>5, <1>7, <2>1, <2>2 DEF BonusCounts
  <2> QED
    BY <1>4, <1>5, <1>6, <2>3 DEF BonusInv
<1>10. CASE Mirrors(t, u)
  <2>1. PICK it \in Items : it = t.items[t.i]
    BY <1>1, <1>3, ProcessStep
  <2>2. add_received_item(it)
    BY <1>10, <2>1 DEF Mirrors
  <2>3. received_items' = Append(received_items, it)
    BY <2>2 DEF add_received_item
  <2>4. \A x : Count(received_items', x) = Count(received_items, x) + (IF it = x THEN 1 ELSE 0)
    BY <1>1, <2>3, CountFacts
  <2>5. \A c \in Captures :
          captures_received_count'[c] = captures_received_count[c] + (IF c = it THEN 1 ELSE 0)
    BY <2>2 DEF add_received_item
  <2>6. Owed' = (IF it = MultiMoon THEN 1 ELSE 0)
    <3>1. u.items = t.items
      BY <1>2, <1>3 DEF StepsTo, SameBatch
    <3>2. it = MultiMoon => it \notin Abilities
      BY MirrorAssumption
    <3>3. u.pc = "sent" <=> it \notin Abilities
      BY <1>10, <2>1 DEF Mirrors
    <3>4. u.pc = "sent" => u.i = t.i
      BY <1>10, <2>1 DEF Mirrors
    <3>5. Owes(u) <=> it = MultiMoon
      BY <2>1, <3>1, <3>2, <3>3, <3>4 DEF Owes
    <3> QED
      BY <1>5, <3>5 DEF Owed
  <2>7. PICK n \in Nat : n = Count(received_items, MultiMoon)
    BY <1>1, CountFacts
  <2>8. Owed' <= Count(received_items', MultiMoon) /\ Count(received_items', MultiMoon) - Owed' = n
    BY <2>4, <2>6, <2>7
  <2>9. BonusCounts => BonusCounts'
    <3> SUFFICES ASSUME BonusCounts
                 PROVE  BonusCounts'
      OBVIOUS
    <3>1. /\ \A x : UnderWay(x)' /\ x.pc = "bonus" => x.slot = slot'
          /\ mm_bonus_captures' = BonusOf[slot']
      BY <1>4, <1>5, <1>8 DEF BonusCounts
    <3>2. ASSUME NEW c \in Captures
          PROVE  captures_received_count'[c] = Count(received_items', c)
                   + Picks(BonusOf[slot'], Count(received_items', MultiMoon) - Owed', c)
      <4>1. PICK g \in Nat : g = Picks(BonusOf[slot], n, c)
        <5>1. {j \in DOMAIN BonusOf[slot] : j <= Chunk * n /\ BonusOf[slot][j] = c}
                \subseteq 1 .. Len(BonusOf[slot]) /\ Len(BonusOf[slot]) \in Nat
          <6>1. slot \in Slots
            BY <1>1, <1>6 DEF TypeInv, BridgeOK
          <6>2. BonusOf[slot] \in Seq(Captures)
            BY <6>1, MirrorAssumption
          <6> QED
            BY <6>2
        <5> QED
          BY <5>1, Counted DEF Picks
      <4>2. n - Owed = n
        BY <1>7
      <4>3. captures_received_count[c] = Count(received_items, c) + g
        BY <2>7, <4>1, <4>2 DEF BonusCounts
      <4>4. Count(received_items, c) \in Nat
        BY <1>1, CountFacts
      <4>5. Picks(BonusOf[slot'], Count(received_items', MultiMoon) - Owed', c) = g
        BY <1>4, <2>8, <4>1
      <4>6. CASE c = it
        <5>1. Count(received_items', c) = Count(received_items, c) + 1
          BY <2>4, <4>6
        <5>2. captures_received_count'[c] = captures_received_count[c] + 1
          BY <2>5, <4>6
        <5> QED
          BY <4>3, <4>4, <4>5, <5>1, <5>2
      <4>7. CASE c # it
        <5>1. Count(received_items', c) = Count(received_items, c)
          BY <2>4, <4>4, <4>7
        <5>2. captures_received_count'[c] = captures_received_count[c]
          BY <2>5, <4>3, <4>4, <4>7
        <5> QED
          BY <4>3, <4>5, <5>1, <5>2
      <4> QED
        BY <4>6, <4>7
    <3> QED
      BY <2>8, <3>1, <3>2 DEF BonusCounts
  <2> QED
    BY <1>4, <1>5, <1>6, <2>9 DEF BonusInv
<1> QED
  BY <1>2, <1>3, <1>9, <1>10

\* Granting counts the chunk of the last Multi-Moon, which is then no longer owed.
LEMMA GrantBonusKept ==
  SessionInv /\ BonusInv /\ GrantBonus => BonusInv'
<1> SUFFICES ASSUME SessionInv, BonusInv, GrantBonus, ~overlapped
             PROVE  BonusInv'
  BY DEF BonusInv, GrantBonus, ghostVars
<1>1. TypeInv /\ TasksOK /\ TaskInv /\ OneTask /\ received_items \in Seq(Items)
  BY DEF SessionInv, TypeInv, BridgeOK, BonusInv
<1>2. PICK u : StepsTo(u) /\ u.pc = "item"
  BY <1>1, GrantStep
<1>3. PICK t : t = cur[1]
  OBVIOUS
<1>4. /\ cur # <<>> /\ t.pc = "sent"
      /\ UNCHANGED <<received_items, mm_bonus_captures, slot, overlapped, slotChanged>>
  BY <1>3 DEF GrantBonus, ghostVars
<1>5. /\ \A x : UnderWay(x) <=> x = t
      /\ \A x : UnderWay(x)' <=> x = u
      /\ OneTask'
  BY <1>1, <1>2, <1>3, <1>4, Alone
<1>6. slot # NoSlot
  BY <1>1, <1>3, <1>4 DEF TaskInv
<1>7. PICK picks \in Seq(Captures) : picks = BonusOf[slot]
  <2>1. slot \in Slots
    BY <1>1, <1>6 DEF TypeInv, BridgeOK
  <2> QED
    BY <2>1, MirrorAssumption
<1>8. Owed' = 0 /\ Owed = (IF t.items[t.i] = MultiMoon THEN 1 ELSE 0)
  BY <1>2, <1>4, <1>5 DEF Owed, Owes
<1>9. PICK n \in Nat : n = Count(received_items, MultiMoon)
  BY <1>1, CountFacts
<1>10. BonusCounts => BonusCounts'
  <2> SUFFICES ASSUME BonusCounts
               PROVE  BonusCounts'
    OBVIOUS
  <2>1. mm_bonus_captures = picks
    BY <1>4, <1>5, <1>7 DEF BonusCounts
  <2>2. ASSUME NEW c \in Captures
        PROVE  captures_received_count'[c] = Count(received_items', c)
                 + Picks(BonusOf[slot'], Count(received_items', MultiMoon) - Owed', c)
    <3>1. PICK k \in Nat : k = Count(received_items, c)
      BY <1>1, CountFacts
    <3>2. captures_received_count'[c] = captures_received_count[c] + Count(ChunkOf(t), c)
      BY <1>1, <1>3, GrantStep
    <3>3. captures_received_count[c] = k + Picks(picks, n - Owed, c)
      BY <1>7, <1>9, <3>1 DEF BonusCounts
    <3>4. CASE t.items[t.i] = MultiMoon
      <4>1. Owed = 1 /\ n # 0 /\ n \in Nat \ {0}
        BY <1>8, <1>9, <3>4 DEF BonusCounts
      <4>2. Picks(picks, n, c) = Picks(picks, n - 1, c) + Count(BonusChunk(picks, n), c)
            /\ Picks(picks, n, c) \in Nat /\ Picks(picks, n - 1, c) \in Nat
        BY <4>1, ChunkPicks
      <4>3. Count(ChunkOf(t), c) = Picks(picks, n, c) - Picks(picks, n - 1, c)
        <5>1. CASE picks # <<>>
          <6>1. ChunkOf(t) = BonusChunk(picks, n)
            BY <1>9, <2>1, <3>4, <5>1 DEF ChunkOf
          <6>2. Count(BonusChunk(picks, n), c) \in Nat
            <7>1. ChunkOf(t) \in Seq(Captures)
              BY <1>1, ChunkTyped
            <7> QED
              BY <6>1, <7>1, CountFacts
          <6> QED
            BY <4>2, <6>1, <6>2
        <5>2. CASE picks = <<>>
          <6>1. ChunkOf(t) = <<>> /\ Count(<<>>, c) = 0
            BY <1>1, <2>1, <5>2, CountFacts DEF ChunkOf
          <6>2. \A m : {j \in DOMAIN picks : j <= Chunk * m /\ picks[j] = c} = {}
            BY <5>2
          <6>3. Picks(picks, n, c) = 0 /\ Picks(picks, n - 1, c) = 0
            BY <6>2, FS_EmptySet DEF Picks
          <6> QED
            BY <6>1, <6>3
        <5> QED
          BY <5>1, <5>2
      <4>4. n - Owed = n - 1 /\ n - Owed' = n
        BY <1>8, <4>1
      <4>5. captures_received_count'[c] = k + Picks(picks, n, c)
        BY <3>2, <3>3, <4>2, <4>3, <4>4
      <4> QED
        BY <1>4, <1>7, <1>9, <3>1, <4>4, <4>5
    <3>5. CASE t.items[t.i] # MultiMoon
      <4>1. Owed = 0 /\ n - Owed = n /\ n - Owed' = n
        BY <1>8, <3>5
      <4>2. ChunkOf(t) = <<>> /\ Count(<<>>, c) = 0
        BY <1>1, <3>5, CountFacts DEF ChunkOf
      <4>3. captures_received_count[c] \in Nat
        BY <1>1 DEF TypeInv, BridgeOK
      <4>4. captures_received_count'[c] = k + Picks(picks, n, c)
        BY <3>2, <3>3, <4>1, <4>2, <4>3
      <4> QED
        BY <1>4, <1>7, <1>9, <3>1, <4>1, <4>4
    <3> QED
      BY <3>4, <3>5
  <2>3. Owed' <= Count(received_items', MultiMoon)
    BY <1>4, <1>8, <1>9
  <2>4. /\ \A x : UnderWay(x)' /\ x.pc = "bonus" => x.slot = slot'
        /\ mm_bonus_captures' = BonusOf[slot']
    BY <1>2, <1>4, <1>5, <1>7, <2>1
  <2> QED
    BY <2>2, <2>3, <2>4 DEF BonusCounts
<1> QED
  BY <1>4, <1>5, <1>6, <1>10 DEF BonusInv

LEMMA BonusKept ==
  SessionInv /\ BonusInv /\ [Next]_vars => BonusInv'
<1> SUFFICES ASSUME SessionInv, BonusInv, [Next]_vars
             PROVE  BonusInv'
  OBVIOUS
<1>1. UNCHANGED BonusVars => BonusInv'
  BY BonusSame
<1>2. (\E s \in Slots, it \in Items : ServerSends(s, it)) \/ (\E s \in Slots : ClientConnects(s))
        => BonusInv'
  BY <1>1 DEF BonusVars, ServerSends, ClientConnects, countVars, taskVars, ghostVars
<1>3. SwitchConnects \/ ChecksPile \/ AbandonedCloses \/ BridgeSeesEof \/ LinkLost \/ LinkStalls
        \/ LinkDrains \/ SwitchReads \/ SaveLoad \/ TakeRehello \/ UNCHANGED vars => BonusInv'
  BY <1>1 DEF BonusVars, SwitchConnects, ChecksPile, AbandonedCloses, BridgeSeesEof, LinkLost,
              LinkStalls, LinkDrains, SwitchReads, SaveLoad, TakeRehello, vars, countVars, taskVars, ghostVars
<1> QED
  BY <1>2, <1>3, PackageBonus, ResumeBonus, ConnectedBonus, DoneBonus, ProcessBonus,
     GrantBonusKept, ZenonT(60) DEF Next

LEMMA InitBonus ==
  Init => BonusInv
BY DEF Init, BonusInv, OneTask

\* With nothing owed every Multi-Moon is counted with its bonus captures.
LEMMA BonusComplete ==
  SessionInv /\ BonusInv => BonusExact
<1> SUFFICES ASSUME SessionInv, BonusInv, cur = <<>>, waiting = <<>>, slot # NoSlot, ~overlapped,
                    ~slotChanged, NEW c \in Captures
             PROVE  LET n     == Count(received_items, MultiMoon)
                        bonus == {j \in DOMAIN BonusOf[slot] : j <= Chunk * n}
                    IN captures_received_count[c] =
                         Count(received_items, c)
                           + Cardinality({j \in bonus : BonusOf[slot][j] = c})
  BY DEF BonusExact, NoTask
<1>1. Owed = 0
  BY DEF Owed, UnderWay
<1>2. PICK n \in Nat : n = Count(received_items, MultiMoon)
  BY CountFacts DEF SessionInv, TypeInv, BridgeOK
<1>3. captures_received_count[c] = Count(received_items, c) + Picks(BonusOf[slot], n, c)
  <2>1. n - Owed = n
    BY <1>1
  <2> QED
    BY <1>2, <2>1 DEF BonusInv, BonusCounts
<1>4. {j \in {k \in DOMAIN BonusOf[slot] : k <= Chunk * n} : BonusOf[slot][j] = c}
        = {j \in DOMAIN BonusOf[slot] : j <= Chunk * n /\ BonusOf[slot][j] = c}
  OBVIOUS
<1> QED
  BY <1>2, <1>3, <1>4 DEF Picks

(***************************************************************************)
(* The theorems.                                                           *)
(***************************************************************************)

\* The invariant the properties of the mirror rest on, of every run of the program: the
\* socket holds pieces of one login, what a task has yet to mirror is counted once, a bonus
\* chunk is owed or granted, and what the game lacks is on its way to it when its HELLO was
\* answered by a whole replay, not by one that raised at a list of checks longer than a line
\* (_process_received_items, _handle_ap_package, _run_post_hello_replay).
THEOREM MirrorInvariance == Spec => [](SessionInv /\ LoginAlone /\ MirrorInv /\ BonusInv /\ SyncInv)
<1> DEFINE I == SessionInv /\ LoginAlone /\ MirrorInv /\ BonusInv /\ SyncInv
<1>1. Init => I
  BY InitSession, InitMirror, InitBonus, InitSync
<1>2. I /\ [Next]_vars => I'
  BY SessionKept, AloneKept, MirrorKept, BonusKept, SyncKept
<1> QED
  BY <1>1, <1>2, PTL DEF Spec

\* Every variable keeps its type, and one task runs at a time.
THEOREM MirrorTypeCorrect == Spec => []TypeOK
<1>1. SessionInv => TypeOK
  BY DEF SessionInv, TypeInv, MirrorFlagsOK, BridgeOK, TasksOK, SwitchOK, TypeOK
<1> QED
  BY <1>1, MirrorInvariance, PTL

\* The mirror holds exactly what the slot was sent, through replays, reconnections and
\* changes of slot, unless a login or a replay met a suspended task, and but for a slot of
\* another server that has the name of the one before, whose mirror stays
\* (_process_received_items' dedup by position, the reset of _handle_ap_package by name).
THEOREM MirrorIsExact == Spec => []MirrorExact
<1>1. SessionInv /\ MirrorInv => MirrorExact
  BY MirrorComplete
<1> QED
  BY <1>1, MirrorInvariance, PTL

\* Every Multi-Moon grants its own chunk of bonus captures, once, through any number of
\* replays (the grant in _process_received_items and received_item_count).
THEOREM BonusIsExact == Spec => []BonusExact
<1>1. SessionInv /\ BonusInv => BonusExact
  BY BonusComplete
<1> QED
  BY <1>1, MirrorInvariance, PTL

\* A settled Switch whose HELLO was answered by the replay, all of it, has every capture of
\* the mirror and the bridge's ability table (_run_post_hello_replay, push_ability_state).
THEOREM SwitchComesInSync == Spec => []SwitchInSync
<1>1. SessionInv /\ SyncInv => SwitchInSync
  BY SyncComplete DEF SessionInv
<1> QED
  BY <1>1, MirrorInvariance, PTL
=============================================================================
