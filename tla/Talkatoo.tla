-------------------------------- MODULE Talkatoo --------------------------------
(***************************************************************************)
(* Talkatoo% mode.  The generator orders the moons of the pool so that     *)
(* they can be collected in that order (talkatoo_order.py); the client     *)
(* keeps, for each kingdom, a window of the next uncollected ones on the   *)
(* Switch (context.py, switch_server.py); there Talkatoo names the moons   *)
(* of the window in turn (TalkatooSpeechHook.cpp), and a moon he has not   *)
(* named cannot be taken (MoonGetHook.cpp).                                *)
(*                                                                         *)
(* A push is a coroutine that sends one message per kingdom and may be     *)
(* suspended at every send, so pushes of different windows can overlap.    *)
(* A message is applied as it is sent: the line between the two is in      *)
(* order and the client learns nothing from it.  Handlers that wait to     *)
(* start, which would all compute the same windows, are one.               *)
(***************************************************************************)
EXTENDS Naturals, Sequences, FiniteSets

CONSTANTS
  PoolMoons, Kingdoms, KingdomOf,   \* the moons of the pool and where they are
  Needs,        \* for each moon, the moons of the pool whose items it takes to reach it
  Slots,        \* _TALKATOO_WINDOW and the three picks of the speech hook
  Pushers,      \* coroutines that may push at the same time
  MaxMishaps    \* bound: other slots joined, restarts, connections lost, releases

ASSUME TalkatooAssumption ==
  /\ IsFiniteSet(PoolMoons)
  /\ KingdomOf \in [PoolMoons -> Kingdoms] /\ Needs \in [PoolMoons -> SUBSET PoolMoons]
  /\ Slots \in Nat \ {0} /\ MaxMishaps \in Nat

VARIABLES
  \* the AP slot and the client
  slot, order,  \* talkatoo_mode and talkatoo_order of slot_data
  checked,      \* checked_locations
  joined,       \* Connected was received
  due, replay,  \* a handler that derives and pushes, one that replays, has yet to run
  \* the switch server
  enabled,      \* "unset", or _talkatoo_enabled: "on", "off"
  payload,      \* _talkatoo_kingdoms, <<>> for a kingdom without an entry
  shipped,      \* _talkatoo_ever_shipped
  at, mine, todo, dict,  \* of each coroutine: where it is, current_kingdoms, the
                         \*   kingdoms it has yet to send to, the windows it sends
  \* the Switch
  linked,
  swMode, pools, named, visits,   \* talkatoo_mode, talkatoo_pools, named_moons_bits,
                                  \*   g_talkatoo_visit_counters
  taken,        \* the moons the game has
  \* ---- history ----
  crossed,      \* the last push to start found another under way
  leaked,       \* the Switch may have a window that shipped does not know of
  mishaps

slotVars     == <<slot, order, checked, joined>>
serverVars   == <<enabled, payload, shipped>>
pushVars     == <<at, mine, todo, dict>>
moonVars     == <<swMode, pools, named, visits, taken>>
talkatooVars == <<slotVars, due, replay, serverVars, pushVars, linked, moonVars, crossed, leaked,
                  mishaps>>

\* Any order of the pool at all.
AnyOrders == {s \in [1 .. Cardinality(PoolMoons) -> PoolMoons] :
                \A i, j \in DOMAIN s : s[i] = s[j] => i = j}

\* What find_safe_permutation_with_oracle may return: it picks, again and again, a
\* moon that can be reached with the items of those before it.
SafeOrders == {s \in AnyOrders :
                 \A i \in DOMAIN s : Needs[s[i]] \subseteq {s[j] : j \in 1 .. i - 1}}

\* The moons of sequence s that are in S, in their order: the n-th has n - 1 before it.
Part(s, S) ==
  LET spots  == {i \in DOMAIN s : s[i] \in S}
      Nth(n) == CHOOSE i \in spots : Cardinality({j \in spots : j < i}) = n - 1
  IN [n \in 1 .. Cardinality(spots) |-> s[Nth(n)]]

MoonsOf(k) == {m \in PoolMoons : KingdomOf[m] = k}

\* build_talkatoo_order hands each kingdom its part.  Without a safe order there
\* is no seed.
Orders == {[k \in Kingdoms |-> Part(s, MoonsOf(k))] : s \in SafeOrders}

\* The next Slots moons of the kingdom that are not checked.
NextOpen(s, done) ==
  LET open == Part(s, PoolMoons \ done)
  IN SubSeq(open, 1, IF Len(open) < Slots THEN Len(open) ELSE Slots)

Window(k) == NextOpen(order[k], checked)

Entries(p) == {k \in Kingdoms : p[k] # <<>>}
NoEntries  == [k \in Kingdoms |-> <<>>]

Mishap == mishaps < MaxMishaps /\ mishaps' = mishaps + 1

TalkatooInit ==
  /\ slot \in {"on", "off"} /\ order \in Orders /\ checked = {}
  /\ joined = FALSE /\ due = FALSE /\ replay = FALSE
  /\ enabled = "unset" /\ payload = NoEntries /\ shipped = {}
  /\ at = [t \in Pushers |-> "idle"] /\ mine = [t \in Pushers |-> {}]
  /\ todo = [t \in Pushers |-> {}] /\ dict = [t \in Pushers |-> NoEntries]
  /\ linked = FALSE
  /\ swMode = FALSE /\ pools = NoEntries /\ named = {} /\ visits = [k \in Kingdoms |-> 0]
  /\ taken = {}
  /\ crossed = FALSE /\ leaked = FALSE /\ mishaps = 0

(***************************************************************************)
(* The AP server and the handlers of its packages.                         *)
(***************************************************************************)

Join ==
  /\ ~joined /\ joined' = TRUE /\ due' = TRUE
  /\ UNCHANGED <<slot, order, checked, replay, serverVars, pushVars, linked, moonVars, crossed,
                 leaked, mishaps>>

\* Connected to another slot, whose save is loaded.
JoinOther ==
  /\ joined /\ Mishap
  /\ slot' \in {"on", "off"} /\ order' \in Orders
  /\ checked' = {} /\ taken' = {} /\ due' = TRUE
  /\ UNCHANGED <<joined, replay, serverVars, pushVars, linked, swMode, pools, named, visits,
                 crossed, leaked>>

\* A check of this player, or a moon another player has released or collected.
RoomUpdate(m) ==
  /\ joined /\ m \notin checked
  /\ IF m \in taken THEN UNCHANGED mishaps ELSE Mishap
  /\ checked' = checked \cup {m}
  /\ due' = (due \/ slot = "on")
  /\ UNCHANGED <<slot, order, joined, replay, serverVars, pushVars, linked, moonVars, crossed,
                 leaked>>

(***************************************************************************)
(* push_talkatoo_pool                                                      *)
(***************************************************************************)

\* The Switch that is connected gets it; without one it is gone.
Deliver(k, moons) ==
  IF linked THEN pools' = [pools EXCEPT ![k] = moons] /\ swMode' = TRUE
            ELSE UNCHANGED <<pools, swMode>>

Start(t, p, on) ==
  /\ at' = [at EXCEPT ![t] = IF on = "off" THEN "off" ELSE "clear"]
  /\ mine' = [mine EXCEPT ![t] = IF on = "off" THEN {} ELSE Entries(p)]
  /\ todo' = [todo EXCEPT ![t] = IF on = "off" THEN {} ELSE shipped \ Entries(p)]
  /\ crossed' = \E u \in Pushers : at[u] # "idle"
  /\ leaked' = (leaked \/ crossed')
  /\ UNCHANGED <<slotVars, shipped, dict, linked, moonVars, mishaps>>

\* _derive_and_push_talkatoo_pool
DeriveAndPush(t) ==
  /\ due /\ at[t] = "idle" /\ due' = FALSE
  /\ enabled' = slot /\ payload' = [k \in Kingdoms |-> Window(k)]
  /\ Start(t, payload', enabled')
  /\ UNCHANGED replay

\* The replay after a hello.
Replay(t) ==
  /\ replay /\ at[t] = "idle" /\ replay' = FALSE
  /\ IF enabled = "unset"
     THEN UNCHANGED <<slotVars, serverVars, pushVars, linked, moonVars, crossed, leaked, mishaps>>
     ELSE Start(t, payload, enabled) /\ UNCHANGED <<enabled, payload>>
  /\ UNCHANGED due

\* clearTalkatoo forgets the named moons too.
SendOff(t) ==
  /\ at[t] = "off" /\ at' = [at EXCEPT ![t] = "wiped"]
  /\ IF linked
     THEN swMode' = FALSE /\ pools' = NoEntries /\ named' = {} /\ UNCHANGED leaked
     ELSE leaked' = TRUE /\ UNCHANGED <<swMode, pools, named>>
  /\ UNCHANGED <<slotVars, due, replay, serverVars, mine, todo, dict, linked, visits, taken,
                 crossed, mishaps>>

\* _talkatoo_ever_shipped.clear()
Wiped(t) ==
  /\ at[t] = "wiped" /\ at' = [at EXCEPT ![t] = "idle"] /\ shipped' = {}
  /\ UNCHANGED <<slotVars, due, replay, enabled, payload, mine, todo, dict, linked, moonVars,
                 crossed, leaked, mishaps>>

\* An empty window for a kingdom that has none any more.
SendClear(t, k) ==
  /\ at[t] = "clear" /\ k \in todo[t]
  /\ todo' = [todo EXCEPT ![t] = @ \ {k}]
  /\ Deliver(k, <<>>)
  /\ leaked' = (leaked \/ ~linked)
  /\ UNCHANGED <<slotVars, due, replay, serverVars, at, mine, dict, linked, named, visits, taken,
                 crossed, mishaps>>

\* Clears nothing: the kingdoms to be cleared are skipped.
SkipClears(t) ==
  /\ at[t] = "clear"
  /\ at' = [at EXCEPT ![t] = "send"]
  /\ dict' = [dict EXCEPT ![t] = payload] /\ todo' = [todo EXCEPT ![t] = Entries(payload)]
  /\ UNCHANGED <<slotVars, due, replay, serverVars, mine, linked, moonVars, crossed, leaked,
                 mishaps>>

\* The second loop takes the windows set last, which another handler may have set
\* since this one computed current_kingdoms.
StartSending(t) ==
  /\ at[t] = "clear" /\ todo[t] = {}
  /\ at' = [at EXCEPT ![t] = "send"]
  /\ dict' = [dict EXCEPT ![t] = payload] /\ todo' = [todo EXCEPT ![t] = Entries(payload)]
  /\ UNCHANGED <<slotVars, due, replay, serverVars, mine, linked, moonVars, crossed, leaked,
                 mishaps>>

SendWindow(t, k) ==
  /\ at[t] = "send" /\ k \in todo[t]
  /\ todo' = [todo EXCEPT ![t] = @ \ {k}]
  /\ Deliver(k, dict[t][k])
  /\ UNCHANGED <<slotVars, due, replay, serverVars, at, mine, dict, linked, named, visits, taken,
                 crossed, leaked, mishaps>>

Finish(t) ==
  /\ at[t] = "send" /\ todo[t] = {}
  /\ at' = [at EXCEPT ![t] = "idle"] /\ shipped' = mine[t]
  /\ mine' = [mine EXCEPT ![t] = {}] /\ dict' = [dict EXCEPT ![t] = NoEntries]
  /\ UNCHANGED <<slotVars, due, replay, enabled, payload, todo, linked, moonVars, crossed, leaked,
                 mishaps>>

PushStep(t) ==
  \/ DeriveAndPush(t) \/ Replay(t) \/ SendOff(t) \/ Wiped(t) \/ StartSending(t) \/ Finish(t)
  \/ \E k \in Kingdoms : SendClear(t, k) \/ SendWindow(t, k)

(***************************************************************************)
(* The connection, restarts.                                               *)
(***************************************************************************)

Hello ==
  /\ ~linked /\ linked' = TRUE /\ replay' = TRUE
  /\ UNCHANGED <<slotVars, due, serverVars, pushVars, moonVars, crossed, leaked, mishaps>>

LinkLost ==
  /\ linked /\ linked' = FALSE /\ Mishap
  /\ UNCHANGED <<slotVars, due, replay, serverVars, pushVars, moonVars, crossed, leaked>>

Reboot ==
  /\ Mishap /\ linked' = FALSE
  /\ swMode' = FALSE /\ pools' = NoEntries /\ named' = {} /\ visits' = [k \in Kingdoms |-> 0]
  /\ UNCHANGED <<slotVars, due, replay, serverVars, pushVars, taken, crossed, leaked>>

\* The client is started anew: it knows nothing of the windows on the Switch.
ClientRestart ==
  /\ Mishap /\ linked' = FALSE /\ joined' = FALSE /\ due' = FALSE /\ replay' = FALSE
  /\ enabled' = "unset" /\ payload' = NoEntries /\ shipped' = {}
  /\ at' = [t \in Pushers |-> "idle"] /\ mine' = [t \in Pushers |-> {}]
  /\ todo' = [t \in Pushers |-> {}] /\ dict' = [t \in Pushers |-> NoEntries]
  /\ leaked' = TRUE
  /\ UNCHANGED <<slot, order, checked, moonVars, crossed>>

(***************************************************************************)
(* The game.                                                               *)
(***************************************************************************)

\* markMoonNamed: the bit of the moon is set; naming it again changes nothing.
MarkNamed(moons) == named' = named \cup moons

\* isMoonNamed
IsNamed(m) == m \in named

\* Talkatoo names one moon of the window at a visit, the slots in turn; a slot
\* beyond the window names no moon.
Speak(k) ==
  /\ swMode /\ pools[k] # <<>>
  /\ visits' = [visits EXCEPT ![k] = (@ + 1) % Slots]
  /\ MarkNamed({pools[k][i] : i \in {visits[k] + 1} \cap DOMAIN pools[k]})
  /\ UNCHANGED <<slotVars, due, replay, serverVars, pushVars, linked, swMode, pools, taken,
                 crossed, leaked, mishaps>>

\* setGotShine of a moon that can be reached; one not named is not flagged.
TakeMoon(m) ==
  /\ m \notin taken /\ Needs[m] \subseteq checked
  /\ swMode => IsNamed(m)
  /\ taken' = taken \cup {m}
  /\ UNCHANGED <<slotVars, due, replay, serverVars, pushVars, linked, swMode, pools, named, visits,
                 crossed, leaked, mishaps>>

TalkatooNext ==
  \/ Join \/ JoinOther \/ (\E m \in PoolMoons : RoomUpdate(m) \/ TakeMoon(m))
  \/ (\E t \in Pushers : PushStep(t)) \/ (\E k \in Kingdoms : Speak(k))
  \/ Hello \/ LinkLost \/ Reboot \/ ClientRestart

TalkatooSpec == TalkatooInit /\ [][TalkatooNext]_talkatooVars

(***************************************************************************)
(* Properties.                                                             *)
(***************************************************************************)

TalkatooTypeOK ==
  /\ slot \in {"on", "off"} /\ enabled \in {"unset", "on", "off"}
  /\ {joined, due, replay, linked, swMode, crossed, leaked} \subseteq BOOLEAN
  /\ {order, payload, pools} \subseteq [Kingdoms -> Seq(PoolMoons)]
  /\ dict \in [Pushers -> [Kingdoms -> Seq(PoolMoons)]]
  /\ {checked, named, taken} \subseteq SUBSET PoolMoons
  /\ shipped \subseteq Kingdoms
  /\ {mine, todo} \subseteq [Pushers -> SUBSET Kingdoms]
  /\ at \in [Pushers -> {"idle", "off", "wiped", "clear", "send"}]
  /\ visits \in [Kingdoms -> 0 .. Slots - 1] /\ mishaps \in 0 .. MaxMishaps

Quiet == linked /\ joined /\ ~due /\ ~replay /\ \A t \in Pushers : at[t] = "idle"

\* Once every push is done, the Switch has for each kingdom the window of the moons
\* now unchecked, and no window at all for a kingdom that is finished
\* (switch_server.py:678).  Two pushes that overlap can leave the older window
\* behind; a clear sent while no Switch is connected, pushes that overlap, or a
\* client started anew can leave a window no later push clears.
PoolsCurrent ==
  (Quiet /\ ~crossed) =>
    IF slot = "off" THEN ~swMode
    ELSE \A k \in Kingdoms : (Window(k) # <<>> \/ ~leaked) => pools[k] = Window(k)

\* No seed locks the player out: as long as a moon of the pool is missing, one that
\* can be reached is in some window, so Talkatoo will name it (talkatoo_order.py:274).
\* Only overlapping pushes can leave windows in which nothing can be taken.
NeverStuck ==
  (Quiet /\ slot = "on" /\ ~crossed /\ checked # PoolMoons) =>
    \E k \in Kingdoms : \E i \in DOMAIN pools[k] :
      pools[k][i] \notin checked /\ Needs[pools[k][i]] \subseteq checked
=============================================================================
