------------------------------- MODULE ItemMirror -------------------------------
(***************************************************************************)
(* How items received from the AP server reach the Switch.  Each package   *)
(* from the server becomes an asyncio task; a ReceivedItems task mirrors   *)
(* every item it has not seen (by position), forwards captures one by one  *)
(* and pushes the ability table, and a Mushroom Kingdom Multi-Moon unlocks *)
(* a chunk of bonus captures on the side.  A task gives way to the others  *)
(* at a send that has to wait: the writer is paused because the link is    *)
(* stalled, or another task queues for the connection's writer_lock.       *)
(*                                                                         *)
(* The bridge persists nothing and neither does the mod: a (re)connection  *)
(* to the AP server replays the slot's history, a HELLO of the Switch      *)
(* replays the mirror.                                                     *)
(***************************************************************************)
EXTENDS Integers, Sequences, FiniteSets, SequencesExt

CONSTANTS
  Slots,        \* slots the player connects to, each of some AP server
  SlotName,     \* the name of every slot; two servers may have slots of one name
  NoSlot,       \* the empty slot name before the first connection
  Captures,     \* capture items
  Abilities,    \* ability items
  MultiMoon,    \* the item "Mushroom Kingdom Multi-Moon"
  BonusOf,      \* slot_data["mm_bonus_captures"] of every slot
  Chunk,        \* bonus captures per Multi-Moon: 3 in the code
  MaxItems,     \* bound: items the server sends, over all slots
  MaxConnects,  \* bound: connections to the AP server
  MaxFaults,    \* bound: stalls and losses of the link to the Switch, save loads,
                \* lists of checks that outgrow a line
  MaxEvents     \* bound: connections and faults together

Items == Captures \cup Abilities \cup {MultiMoon}

ASSUME MirrorAssumption ==
  /\ NoSlot \notin Slots
  /\ Captures \cap Abilities = {} /\ MultiMoon \notin Captures \cup Abilities
  /\ BonusOf \in [Slots -> Seq(Captures)]
  /\ Chunk \in Nat \ {0}
  /\ {MaxItems, MaxConnects, MaxFaults, MaxEvents} \subseteq Nat

VARIABLES
  \* ---- the AP server and its connection ----
  hist,         \* the items each slot was sent, ever
  apSlot,       \* the slot the connection is logged into
  net,          \* packages on it that the bridge has not seen
  \* ---- the bridge ----
  received_items,
  checkedTooLong, \* checked_locations does not fit a line: MAX_LINE_BYTES
  captures_received_count, abilities_received, captures_unlocked,
  mm_bonus_captures,
  slot,         \* the slot the bridge knows; state.slot is the name of it
  cur,          \* the task the event loop runs now: a sequence of at most one
  waiting,      \* tasks suspended in a send, in the order they will resume
  \* ---- the connection to the Switch ----
  reg,          \* the registered connection: "none", "dead" or "live"
  stalled,      \* its writer is paused
  wire,         \* lines in flight to the Switch
  \* ---- the Switch ----
  swUp,         \* the mod's socket is open
  rehello,      \* rehello_requested_
  unlocked,     \* ApState::captures_unlocked
  abilities,    \* the ability table of the mod
  \* ---- history and bounds ----
  replayed,     \* the HELLO of the open connection was answered by a replay
  abandoned,    \* that replay raised: the connection is registered, nobody reads it
  overlapped,   \* a task was started while another was suspended
  raced,        \* that one was a Connected or a replay of the history
  slotChanged,  \* the bridge changed slot at least once
  mistaken,     \* the mirror was kept when it did: it is another slot's
  connects, faults

apVars     == <<hist, apSlot, net>>
countVars  == <<captures_received_count, abilities_received, captures_unlocked>>
taskVars   == <<cur, waiting>>
linkVars   == <<reg, stalled, wire>>
modVars    == <<unlocked, abilities>>
ghostVars  == <<overlapped, raced, slotChanged, mistaken>>
boundVars  == <<connects, faults>>
vars == <<apVars, received_items, checkedTooLong, countVars, mm_bonus_captures,
          slot, taskVars, linkVars, swUp, rehello, modVars, replayed, abandoned,
          ghostVars, boundVars>>

Connected(s)       == [cmd |-> "Connected", slot |-> s, index |-> 0, items |-> <<>>]
ReceivedItems(s, i, its) ==
  [cmd |-> "ReceivedItems", slot |-> s, index |-> i, items |-> its]

ItemLine(c)    == [t |-> "item", cap |-> c]
AbilityLine(a) == [t |-> "ability_state", counts |-> a]

NoAbilities == [a \in Abilities |-> 0]
Count(s, it) == Cardinality({i \in DOMAIN s : s[i] = it})

Init ==
  /\ hist = [s \in Slots |-> <<>>] /\ apSlot = NoSlot /\ net = <<>>
  /\ received_items = <<>> /\ checkedTooLong = FALSE
  /\ captures_received_count = [c \in Captures |-> 0]
  /\ abilities_received = NoAbilities
  /\ captures_unlocked = {}
  /\ mm_bonus_captures = <<>> /\ slot = NoSlot
  /\ cur = <<>> /\ waiting = <<>>
  /\ reg = "none" /\ stalled = FALSE /\ wire = <<>>
  /\ swUp = FALSE /\ rehello = FALSE
  /\ unlocked = {} /\ abilities = NoAbilities
  /\ replayed = FALSE /\ abandoned = FALSE
  /\ overlapped = FALSE /\ raced = FALSE /\ slotChanged = FALSE /\ mistaken = FALSE
  /\ connects = 0 /\ faults = 0

(***************************************************************************)
(* The AP server.                                                          *)
(***************************************************************************)

\* Somebody finds an item of slot s; a connected client is told.  (What arrives
\* while a task runs is read after it: the event loop has one thread.)
ServerSends(s, it) ==
  /\ cur = <<>>
  /\ SumFunction([r \in Slots |-> Len(hist[r])]) < MaxItems
  /\ hist' = [hist EXCEPT ![s] = Append(@, it)]
  /\ net' = IF apSlot = s
            THEN Append(net, ReceivedItems(s, Len(hist[s]), <<it>>)) ELSE net
  /\ UNCHANGED <<apSlot, received_items, checkedTooLong, countVars, mm_bonus_captures, slot,
                 taskVars, linkVars, swUp, rehello, modVars, replayed, abandoned,
                 ghostVars, boundVars>>

\* The client (re)connects, to the same slot or to another one: packages of
\* the old connection are gone, the server sends Connected and the history.
ClientConnects(s) ==
  /\ cur = <<>>
  /\ connects < MaxConnects /\ connects + faults < MaxEvents
  /\ connects' = connects + 1
  /\ apSlot' = s
  /\ net' = <<Connected(s)>> \o
            (IF hist[s] = <<>> THEN <<>> ELSE <<ReceivedItems(s, 0, hist[s])>>)
  /\ UNCHANGED <<hist, received_items, checkedTooLong, countVars, mm_bonus_captures, slot,
                 taskVars, linkVars, swUp, rehello, modVars, replayed, abandoned,
                 ghostVars, faults>>

(***************************************************************************)
(* The bridge's event loop.                                                *)
(***************************************************************************)

\* _send: a line for the active Switch; without one there is nothing to do.
SendLines(ls) == wire' = IF reg = "live" THEN wire \o ls ELSE wire

\* The task goes on as t.  At an await it is suspended when the writer is
\* paused or others queue for writer_lock (asyncio.Lock is fair).
Await(t) ==
  IF reg # "none" /\ (stalled \/ waiting # <<>>)
  THEN cur' = <<>> /\ waiting' = Append(waiting, t)
  ELSE cur' = <<t>> /\ UNCHANGED waiting

Goes(t)  == cur' = <<t>> /\ UNCHANGED waiting
Finishes == cur' = <<>> /\ UNCHANGED waiting

\* The task of package p as it starts; mirrorLen is initial_mirror_len.
Task(p) ==
  [cmd |-> p.cmd, slot |-> p.slot, index |-> p.index, items |-> p.items,
   pc |-> IF p.cmd = "Connected" THEN "start" ELSE "item",
   i |-> 1, mirrorLen |-> Len(received_items), ability |-> FALSE]

\* on_package: create_task(_handle_ap_package(...)), which runs next.
on_package ==
  /\ cur = <<>> /\ net # <<>>
  /\ cur' = <<Task(Head(net))>> /\ net' = Tail(net)
  /\ overlapped' = (overlapped \/ waiting # <<>>)
  /\ raced' = (raced \/ (waiting # <<>> /\ Head(net).index = 0))
  /\ UNCHANGED <<slotChanged, mistaken, hist, apSlot, received_items, checkedTooLong, countVars, mm_bonus_captures,
                 slot, waiting, linkVars, swUp, rehello, modVars, replayed, abandoned,
                 boundVars>>

\* The writer drained (or its connection was closed): the first in line resumes.
Resume ==
  /\ cur = <<>> /\ waiting # <<>> /\ ~(stalled /\ reg # "none")
  /\ cur' = <<Head(waiting)>> /\ waiting' = Tail(waiting)
  /\ UNCHANGED <<apVars, received_items, checkedTooLong, countVars, mm_bonus_captures, slot,
                 linkVars, swUp, rehello, modVars, replayed, abandoned, ghostVars, boundVars>>

\* clear_received
clear_received ==
  /\ received_items' = <<>> /\ captures_unlocked' = {} /\ checkedTooLong' = FALSE
  /\ UNCHANGED <<captures_received_count, abilities_received>>

\* An ability table that is only pushed for the first ability.
AbilityLinesFirst ==
  IF \E a \in Abilities : abilities_received = [NoAbilities EXCEPT ![a] = 1]
  THEN <<AbilityLine(abilities_received)>> ELSE <<>>

\* push_ability_state: the whole table, once there is anything in it.
AbilityLines ==
  IF abilities_received = NoAbilities THEN <<>>
  ELSE <<AbilityLine(abilities_received)>>

\* _handle_ap_package, Connected, up to its pushes: the slot-change reset, which
\* knows slots by their names.
HandleConnected ==
  /\ cur # <<>> /\ cur[1].cmd = "Connected" /\ cur[1].pc = "start"
  /\ IF slot # NoSlot /\ SlotName[slot] # SlotName[cur[1].slot]
     THEN clear_received
     ELSE UNCHANGED <<received_items, checkedTooLong, countVars>>
  /\ slot' = cur[1].slot
  /\ slotChanged' = (slotChanged \/ slot \notin {NoSlot, cur[1].slot})
  /\ mistaken' = IF slot \in {NoSlot, cur[1].slot} THEN mistaken
                 ELSE received_items' # <<>>
  /\ SendLines(AbilityLines)
  /\ Await([cur[1] EXCEPT !.pc = "bonus"])
  /\ UNCHANGED <<apVars, mm_bonus_captures, reg, stalled, swUp, rehello,
                 modVars, replayed, abandoned, overlapped, raced, boundVars>>

\* ... and from there: the bonus picks are stashed, the rest is pushed.
ConnectedStashesBonus ==
  /\ cur # <<>> /\ cur[1].cmd = "Connected" /\ cur[1].pc = "bonus"
  /\ mm_bonus_captures' = BonusOf[cur[1].slot]
  /\ Finishes
  /\ UNCHANGED <<apVars, received_items, checkedTooLong, countVars, slot, linkVars, swUp,
                 rehello, modVars, replayed, abandoned, ghostVars, boundVars>>

\* A replay that compares with one position less.
AlreadyMirroredOffByOne(t) == t.index + t.i < t.mirrorLen

\* pos < initial_mirror_len: mirrored earlier.
AlreadyMirrored(t) == t.index + t.i - 1 < t.mirrorLen

\* add_received_item
add_received_item(it) ==
  /\ received_items' = Append(received_items, it)
  /\ captures_unlocked' = captures_unlocked \cup ({it} \cap Captures)
  /\ captures_received_count' =
       [c \in Captures |-> captures_received_count[c] + (IF c = it THEN 1 ELSE 0)]
  /\ abilities_received' =
       [a \in Abilities |-> abilities_received[a] + (IF a = it THEN 1 ELSE 0)]

\* One turn of the loop over the items: skip it, or mirror and forward it.
ProcessItem ==
  /\ cur # <<>> /\ cur[1].pc = "item" /\ cur[1].i <= Len(cur[1].items)
  /\ LET t  == cur[1]
         it == t.items[t.i]
     IN IF AlreadyMirrored(t)
        THEN /\ Goes([t EXCEPT !.i = @ + 1])
             /\ UNCHANGED <<received_items, countVars, wire>>
        ELSE /\ add_received_item(it)
             /\ IF it \in Abilities
                THEN /\ Goes([t EXCEPT !.i = @ + 1, !.ability = TRUE])
                     /\ UNCHANGED wire
                ELSE /\ SendLines(IF it \in Captures THEN <<ItemLine(it)>> ELSE <<>>)
                     /\ Await([t EXCEPT !.pc = "sent"])
  /\ UNCHANGED <<apVars, checkedTooLong, mm_bonus_captures, slot, reg, stalled, swUp, rehello,
                 modVars, replayed, abandoned, ghostVars, boundVars>>

\* A chunk counted from the mirror before this Multi-Moon was added to it.
BonusChunkLate(picks, n) ==
  SubSeq(picks, Chunk * n + 1,
         IF Chunk * (n + 1) < Len(picks) THEN Chunk * (n + 1) ELSE Len(picks))

\* The captures the n-th Multi-Moon unlocks: mm_bonus_captures[3*(n-1) : 3*n].
\* (n = 0 when the mirror was cleared since the Multi-Moon was added to it.)
BonusChunk(picks, n) ==
  IF n = 0 THEN <<>> ELSE SubSeq(picks, Chunk * (n - 1) + 1,
         IF Chunk * n < Len(picks) THEN Chunk * n ELSE Len(picks))

\* The item was sent: a Multi-Moon's bonus captures are granted and sent.
GrantBonus ==
  /\ cur # <<>> /\ cur[1].pc = "sent"
  /\ LET t     == cur[1]
         chunk == IF t.items[t.i] = MultiMoon /\ mm_bonus_captures # <<>>
                  THEN BonusChunk(mm_bonus_captures, Count(received_items, MultiMoon))
                  ELSE <<>>
         next  == [t EXCEPT !.pc = "item", !.i = @ + 1]
     IN /\ captures_unlocked' = captures_unlocked \cup Range(chunk)
        /\ captures_received_count' =
             [c \in Captures |-> captures_received_count[c] + Count(chunk, c)]
        /\ SendLines([j \in DOMAIN chunk |-> ItemLine(chunk[j])])
        /\ IF chunk = <<>> THEN Goes(next) ELSE Await(next)
  /\ UNCHANGED <<apVars, received_items, checkedTooLong, abilities_received, mm_bonus_captures,
                 slot, reg, stalled, swUp, rehello, modVars, replayed, abandoned,
                 ghostVars, boundVars>>

\* After the loop: the ability table, when an ability was in the batch.
PushDerived ==
  /\ cur # <<>> /\ cur[1].pc = "item" /\ cur[1].i > Len(cur[1].items)
  /\ SendLines(IF cur[1].ability THEN AbilityLines ELSE <<>>)
  /\ Finishes
  /\ UNCHANGED <<apVars, received_items, checkedTooLong, countVars, mm_bonus_captures, slot,
                 reg, stalled, swUp, rehello, modVars, replayed, abandoned, ghostVars, boundVars>>

(***************************************************************************)
(* The connection to the Switch.                                           *)
(***************************************************************************)

\* What a replay sends of the items its: a line for every capture.
ItemLines(its) ==
  LET lines[n \in 0 .. Len(its)] ==
        IF n = 0 THEN <<>>
        ELSE IF its[n] \in Captures THEN Append(lines[n - 1], ItemLine(its[n]))
        ELSE lines[n - 1]
  IN lines[Len(its)]

\* _run_post_hello_replay, when it comes to that: every item of the mirror that is
\* not a moon, then the ability table.
run_post_hello_replay == ItemLines(received_items) \o AbilityLines

\* A location of the slot is checked and the list of them no longer fits a line.
ChecksPile ==
  /\ cur = <<>> /\ slot # NoSlot /\ ~checkedTooLong /\ checkedTooLong' = TRUE
  /\ faults < MaxFaults /\ connects + faults < MaxEvents /\ faults' = faults + 1
  /\ UNCHANGED <<apVars, received_items, countVars, mm_bonus_captures, slot,
                 taskVars, linkVars, swUp, rehello, modVars, replayed, abandoned,
                 ghostVars, connects>>

\* The Switch connects and says HELLO.  The first connection becomes active
\* and is sent the replay; one that replaces a connection the bridge still
\* has registered is sent nothing.  (reg is read when the HELLO is.)  The replay
\* starts with the list of checked locations, which encode refuses when it is
\* longer than a line: nothing of the replay follows, and the handler is over.
SwitchConnects ==
  /\ ~swUp /\ cur = <<>>
  /\ swUp' = TRUE
  /\ reg' = "live" /\ stalled' = FALSE
  /\ replayed' = (reg = "none" /\ ~checkedTooLong)
  /\ abandoned' = (reg = "none" /\ checkedTooLong)
  /\ wire' = IF replayed' THEN run_post_hello_replay ELSE <<>>
  /\ rehello' = FALSE
  /\ UNCHANGED <<apVars, received_items, checkedTooLong, countVars, mm_bonus_captures, slot,
                 taskVars, modVars, ghostVars, boundVars>>

\* The handler of a dead connection reads EOF and unregisters it -- if it is there.
BridgeSeesEof ==
  /\ reg = "dead" /\ ~abandoned /\ cur = <<>>
  /\ reg' = "none" /\ stalled' = FALSE
  /\ UNCHANGED <<apVars, received_items, checkedTooLong, countVars, mm_bonus_captures, slot,
                 taskVars, wire, swUp, rehello, modVars, replayed, abandoned, ghostVars,
                 boundVars>>

\* asyncio (from Python 3.12 on) closes the connection of a handler that raised.
AbandonedCloses ==
  /\ abandoned /\ reg = "live"
  /\ swUp' = FALSE /\ wire' = <<>> /\ reg' = "dead"
  /\ UNCHANGED <<apVars, received_items, checkedTooLong, countVars, mm_bonus_captures,
                 slot, taskVars, stalled, rehello, modVars, replayed, abandoned,
                 ghostVars, boundVars>>

\* The connection dies: what is in flight is lost, the bridge does not know.
LinkLost ==
  /\ swUp
  /\ faults < MaxFaults /\ connects + faults < MaxEvents /\ faults' = faults + 1
  /\ swUp' = FALSE /\ wire' = <<>> /\ reg' = "dead"
  /\ UNCHANGED <<apVars, received_items, checkedTooLong, countVars, mm_bonus_captures, slot,
                 taskVars, stalled, rehello, modVars, replayed, abandoned, ghostVars,
                 connects>>

\* The Switch stops reading; the bridge's writer is paused, then drains.
LinkStalls ==
  /\ reg = "live" /\ ~stalled /\ stalled' = TRUE
  /\ faults < MaxFaults /\ connects + faults < MaxEvents /\ faults' = faults + 1
  /\ UNCHANGED <<apVars, received_items, checkedTooLong, countVars, mm_bonus_captures, slot,
                 taskVars, reg, wire, swUp, rehello, modVars, replayed, abandoned,
                 ghostVars, connects>>
LinkDrains ==
  /\ stalled /\ stalled' = FALSE
  /\ UNCHANGED <<apVars, received_items, checkedTooLong, countVars, mm_bonus_captures, slot,
                 taskVars, reg, wire, swUp, rehello, modVars, replayed, abandoned,
                 ghostVars, boundVars>>

(***************************************************************************)
(* The mod.                                                                *)
(***************************************************************************)

\* handleLine and applyOnFrame: a capture is unlocked, a table overwritten.
SwitchReads ==
  /\ wire # <<>> /\ swUp
  /\ wire' = Tail(wire)
  /\ IF Head(wire).t = "item"
     THEN unlocked' = unlocked \cup {Head(wire).cap} /\ UNCHANGED abilities
     ELSE abilities' = Head(wire).counts /\ UNCHANGED unlocked
  /\ UNCHANGED <<apVars, received_items, checkedTooLong, countVars, mm_bonus_captures, slot,
                 taskVars, reg, stalled, swUp, rehello, replayed, abandoned, ghostVars,
                 boundVars>>

\* A save file is loaded: the unlocks are forgotten and a new HELLO requested.
SaveLoad ==
  /\ faults < MaxFaults /\ connects + faults < MaxEvents /\ faults' = faults + 1
  /\ unlocked' = {} /\ rehello' = TRUE
  /\ UNCHANGED <<apVars, received_items, checkedTooLong, countVars, mm_bonus_captures, slot,
                 taskVars, linkVars, swUp, abilities, replayed, abandoned, ghostVars,
                 connects>>

\* threadMain takes the request: it closes the socket (and will reconnect).
TakeRehello ==
  /\ rehello /\ swUp
  /\ rehello' = FALSE /\ swUp' = FALSE /\ wire' = <<>> /\ reg' = "dead"
  /\ UNCHANGED <<apVars, received_items, checkedTooLong, countVars, mm_bonus_captures, slot,
                 taskVars, stalled, modVars, replayed, abandoned, ghostVars, boundVars>>

Next ==
  \/ \E s \in Slots, it \in Items : ServerSends(s, it)
  \/ \E s \in Slots : ClientConnects(s)
  \/ on_package \/ Resume
  \/ HandleConnected \/ ConnectedStashesBonus
  \/ ProcessItem \/ GrantBonus \/ PushDerived
  \/ ChecksPile \/ SwitchConnects \/ AbandonedCloses \/ BridgeSeesEof
  \/ LinkLost \/ LinkStalls \/ LinkDrains
  \/ SwitchReads \/ SaveLoad \/ TakeRehello

Spec == Init /\ [][Next]_vars

(***************************************************************************)
(* Properties.                                                             *)
(***************************************************************************)

Packages == [cmd : {"Connected", "ReceivedItems"}, slot : Slots,
             index : Nat, items : Seq(Items)]
Tasks == [cmd : {"Connected", "ReceivedItems"}, slot : Slots,
          index : Nat, items : Seq(Items),
          pc : {"start", "bonus", "item", "sent"}, i : Nat \ {0},
          mirrorLen : Nat, ability : BOOLEAN]
Tables == [Abilities -> Nat]
Lines  == [t : {"item"}, cap : Captures] \cup [t : {"ability_state"}, counts : Tables]

\* The type of every variable; one task runs at a time (the event loop), and
\* what the bridge unlocks are captures.
TypeOK ==
  /\ hist \in [Slots -> Seq(Items)]
  /\ apSlot \in Slots \cup {NoSlot} /\ net \in Seq(Packages)
  /\ received_items \in Seq(Items) /\ checkedTooLong \in BOOLEAN
  /\ captures_received_count \in [Captures -> Nat]
  /\ abilities_received \in Tables
  /\ captures_unlocked \subseteq Captures
  /\ mm_bonus_captures \in Seq(Captures)
  /\ slot \in Slots \cup {NoSlot}
  /\ cur \in Seq(Tasks) /\ Len(cur) <= 1 /\ waiting \in Seq(Tasks)
  /\ reg \in {"none", "dead", "live"} /\ stalled \in BOOLEAN
  /\ wire \in Seq(Lines)
  /\ swUp \in BOOLEAN /\ rehello \in BOOLEAN
  /\ unlocked \subseteq Captures /\ abilities \in Tables
  /\ {replayed, abandoned, overlapped, raced, slotChanged, mistaken} \subseteq BOOLEAN
  /\ connects \in 0 .. MaxConnects /\ faults \in 0 .. MaxFaults

NoTask    == cur = <<>> /\ waiting = <<>>
Quiescent == NoTask /\ net = <<>> /\ wire = <<>> /\ swUp /\ reg = "live" /\ ~rehello

\* Once every package is processed the mirror holds exactly the items the
\* server sent to this slot, each as often as it was sent, however often the
\* client reconnected or changed slot (_process_received_items' dedup by
\* position and the slot-change reset in _handle_ap_package) -- unless a
\* Connected or a replay of the history started while a task was suspended, and
\* not while the mirror is that of a slot of the same name on another server:
\* the reset (context.py:907) compares names alone, where its comment (889) and
\* clear_received's docstring (state.py:182) also promise it for another server.
MirrorExact ==
  NoTask /\ net = <<>> /\ slot # NoSlot /\ ~raced /\ ~mistaken =>
    \A it \in Items : Count(received_items, it) = Count(hist[slot], it)

\* The n Multi-Moons received in a slot grant its first 3n bonus captures,
\* each once, on top of the captures received, through any number of replays
\* (the chunk is indexed by received_item_count) -- as long as no package was
\* handled while another was suspended and the slot never changed.
BonusExact ==
  NoTask /\ slot # NoSlot /\ ~overlapped /\ ~slotChanged =>
    LET n     == Count(received_items, MultiMoon)
        bonus == {j \in DOMAIN BonusOf[slot] : j <= Chunk * n}
    IN \A c \in Captures :
         captures_received_count[c] =
           Count(received_items, c) + Cardinality({j \in bonus : BonusOf[slot][j] = c})

\* When everything has settled on a connection whose HELLO was answered by a
\* replay, every capture of the mirror is unlocked on the Switch and its
\* ability table is the bridge's: save loads, lost links, stalls and items
\* arriving in between included (_run_post_hello_replay, push_ability_state).
\* A HELLO that takes over a registered connection is answered by no replay, nor
\* is one that comes when the list of checked locations has outgrown a line: of
\* what these leave behind nothing is said here (see HelloReapplies).
SwitchInSync ==
  Quiescent /\ replayed =>
    /\ Range(received_items) \cap Captures \subseteq unlocked
    /\ abilities_received # NoAbilities => abilities = abilities_received

\* The module docstring of switch_server.py: on every HELLO the server replays
\* "the full received-items history so the Switch module always re-applies state
\* idempotently after a reboot".  A settled Switch whose HELLO was that of a new
\* connection has every capture of the mirror.
HelloReapplies ==
  Quiescent /\ (replayed \/ abandoned) =>
    Range(received_items) \cap Captures \subseteq unlocked

\* The module docstring of switch_server.py: on every HELLO the server replays
\* "so the Switch module always re-applies state idempotently after a reboot".
\* Every capture the bridge holds unlocked is unlocked on a settled Switch.
CapturesReapplied ==
  Quiescent /\ replayed => captures_unlocked \subseteq unlocked
=============================================================================
