------------------------------- MODULE DetourGate -------------------------------
(***************************************************************************)
(* The two kingdoms of a free detour and the gate on the way out of it.    *)
(* The generator may roll how many moons each kingdom asks for             *)
(* (kingdom_gates.py), the client sends the roll to the Switch             *)
(* (switch_server.py), and the Switch lets nobody out of the detour before *)
(* the moons of both are there (EntranceShuffleHook.cpp).  It reckons the  *)
(* moons received as the balance the client sent last plus what the save   *)
(* has paid (KingdomOrderGate.cpp).                                        *)
(*                                                                         *)
(* The client computes the balance from a reading of what was paid, sent   *)
(* at every deposit and with every hello.  MoonLedger has the paths of     *)
(* those readings and their losses; here one is under way or is not, and a *)
(* message to the Switch is applied as it is sent.                         *)
(***************************************************************************)
EXTENDS Integers

CONSTANTS
  Siblings,      \* the kingdoms of the detour
  VanillaGate,   \* what each asks for when nothing is rolled
  Capacity,      \* the moons of each in the pool, a Multi-Moon as three
  Spread,        \* GATE_RANDOMIZE_SPREAD
  NoReading,
  MaxFlaws       \* bound: other slots, lost connections, loads, restarts of the game

ASSUME DetourAssumption ==
  /\ {"exit", "away"} \cap Siblings = {}
  /\ VanillaGate \in [Siblings -> Nat \ {0}] /\ Capacity \in [Siblings -> Nat]
  /\ {Spread, MaxFlaws} \subseteq Nat
  /\ NoReading \notin [Siblings -> Nat]

VARIABLES
  rolled,       \* kingdom_gates of the slot, Unrolled without the option
  received,     \* moons_received_by_kingdom
  reading,      \* pay_shine_num_by_kingdom, or NoReading
  gatesDue,     \* push_kingdom_gates has yet to run
  open,         \* the connection
  reportDue,    \* a reading is under way on it
  gate,         \* kingdom_gate, -1 for vanilla
  storing,      \* the kingdoms whose gate the worker has yet to store
  purse,        \* ap_moons_kingdom
  paid,         \* PayShineNum of the save
  place,        \* a sibling's home stage, "exit", or "away"
  \* ---- history ----
  hasty,        \* he flew to the exit while gates or balance were out of date
  flaws

detourVars == <<rolled, received, reading, gatesDue, open, reportDue, gate, storing, purse, paid,
                place, hasty, flaws>>

Least(i, j) == IF i < j THEN i ELSE j
Most(i, j)  == IF i > j THEN i ELSE j

Lo(k) == Most(1, VanillaGate[k] - Spread)
Hi(k) == Least(VanillaGate[k] + Spread, Capacity[k])

\* The walk moves one moon from one of the eleven gated kingdoms to another as long as
\* both stay in bounds; it starts at the vanilla gates and, where a pool has too few
\* moons for that, at its capacity.  What the siblings gain or lose the other kingdoms
\* make up for, so here only the bounds are left of it.  Kingdoms without room for a
\* walk are frozen, and no gate is ever 0, which would mean open.
Walkers == {k \in Siblings : Lo(k) <= Hi(k)}

RollsOf(k) == IF k \in Walkers THEN Lo(k) .. Hi(k) ELSE {Most(1, Hi(k))}

Rolls ==
  {g \in [Siblings -> UNION {RollsOf(k) : k \in Siblings}] : \A k \in Siblings : g[k] \in RollsOf(k)}

Unrolled == [k \in Siblings |-> -1]

\* compute_outstanding: nothing is sent without a reading.
Outstanding(r, n) ==
  IF n = NoReading \/ ~open THEN purse ELSE [k \in Siblings |-> Most(0, r[k] - n[k])]

Zeroes == [k \in Siblings |-> 0]
Saves  == [Siblings -> {0, 1}]

Flaw == flaws < MaxFlaws /\ flaws' = flaws + 1

DetourInit ==
  /\ rolled \in Rolls \cup {Unrolled} /\ received = Zeroes /\ reading = NoReading
  /\ gatesDue = TRUE /\ open = FALSE /\ reportDue = FALSE
  /\ gate = Unrolled /\ storing = {} /\ purse = Zeroes /\ paid = Zeroes
  /\ place \in Siblings \cup {"away"} /\ hasty = FALSE /\ flaws = 0

(***************************************************************************)
(* The client.                                                             *)
(***************************************************************************)

ReceiveMoon(k) ==
  /\ received[k] < Capacity[k]
  /\ received' = [received EXCEPT ![k] = @ + 1]
  /\ purse' = Outstanding(received', reading)
  /\ UNCHANGED <<rolled, reading, gatesDue, open, reportDue, gate, storing, paid, place, hasty,
                 flaws>>

\* A reading arrives, the balance goes back.
Report ==
  /\ open /\ reportDue /\ reportDue' = FALSE
  /\ reading' = paid /\ purse' = Outstanding(received, paid)
  /\ UNCHANGED <<rolled, received, gatesDue, open, gate, storing, paid, place, hasty, flaws>>

\* push_kingdom_gates: the worker resets every gate, then stores them one by one.
PushGates ==
  /\ open /\ gatesDue /\ storing = {} /\ gatesDue' = FALSE
  /\ gate' = Unrolled /\ storing' = IF rolled = Unrolled THEN {} ELSE Siblings
  /\ UNCHANGED <<rolled, received, reading, open, reportDue, purse, paid, place, hasty, flaws>>

StoreGate(k) ==
  /\ k \in storing /\ storing' = storing \ {k}
  /\ gate' = [gate EXCEPT ![k] = rolled[k]]
  /\ UNCHANGED <<rolled, received, reading, gatesDue, open, reportDue, purse, paid, place, hasty,
                 flaws>>

\* hello, snapshot and replay.
OpenLink ==
  /\ ~open /\ storing = {} /\ open' = TRUE /\ gatesDue' = TRUE /\ reportDue' = TRUE
  /\ UNCHANGED <<rolled, received, reading, gate, storing, purse, paid, place, hasty, flaws>>

CloseLink ==
  /\ open /\ Flaw /\ open' = FALSE /\ reportDue' = FALSE
  /\ UNCHANGED <<rolled, received, reading, gatesDue, gate, storing, purse, paid, place, hasty>>

\* Another save: the worker connects anew.
LoadSave ==
  /\ Flaw /\ paid' \in Saves /\ place' \in Siblings \cup {"away"}
  /\ open' = FALSE /\ reportDue' = FALSE /\ hasty' = FALSE
  /\ UNCHANGED <<rolled, received, reading, gatesDue, gate, storing, purse>>

\* Another slot, and the save of that slot; the worker is done with the old gates.
ChangeSlot ==
  /\ Flaw /\ storing = {} /\ rolled' \in (Rolls \cup {Unrolled}) \ {rolled}
  /\ received' = Zeroes /\ reading' = NoReading /\ gatesDue' = TRUE
  /\ paid' = Zeroes /\ place' \in Siblings \cup {"away"} /\ hasty' = FALSE
  /\ open' = FALSE /\ reportDue' = FALSE
  /\ UNCHANGED <<gate, storing, purse>>

RestartGame ==
  /\ Flaw /\ paid' \in Saves /\ place' \in Siblings \cup {"away"}
  /\ open' = FALSE /\ reportDue' = FALSE /\ hasty' = FALSE
  /\ gate' = Unrolled /\ storing' = {} /\ purse' = Zeroes
  /\ UNCHANGED <<rolled, received, reading, gatesDue>>

(***************************************************************************)
(* The game.                                                               *)
(***************************************************************************)

\* The Odyssey takes what the purse shows; the purse stays until the balance comes.
Deposit(k) ==
  /\ open /\ purse[k] > 0 /\ paid[k] < Capacity[k]
  /\ paid' = [paid EXCEPT ![k] = @ + 1] /\ reportDue' = TRUE
  /\ UNCHANGED <<rolled, received, reading, gatesDue, open, gate, storing, purse, place, hasty,
                 flaws>>

\* Counts the purse alone.
CollectedPurse(k) == purse[k]

\* collectedEffectiveMoons, leaveThreshold, evaluateDetourExitGate.
Collected(k) == purse[k] + paid[k]
Need(k)      == IF gate[k] >= 0 THEN gate[k] ELSE VanillaGate[k]
Unmet        == {k \in Siblings : Collected(k) < Need(k)}

Asked(k)  == IF rolled = Unrolled THEN VanillaGate[k] ELSE rolled[k]
Earned    == \A k \in Siblings : received[k] >= Asked(k)

InStep == open /\ ~gatesDue /\ storing = {} /\ ~reportDue /\ \A k \in Siblings : paid[k] <= received[k]

\* processDetourExitGate: a flight from the home stage of a sibling to the exit
\* ends in a sibling whose moons are not there.
FlyOut ==
  /\ place \in Siblings
  /\ IF Unmet = {} THEN place' = "exit" /\ hasty' = ~InStep
                   ELSE place' \in Unmet /\ UNCHANGED hasty
  /\ UNCHANGED <<rolled, received, reading, gatesDue, open, reportDue, gate, storing, purse, paid,
                 flaws>>

DetourNext ==
  \/ (\E k \in Siblings : ReceiveMoon(k) \/ StoreGate(k) \/ Deposit(k))
  \/ Report \/ PushGates \/ OpenLink \/ CloseLink \/ LoadSave \/ ChangeSlot \/ RestartGame \/ FlyOut

DetourSpec == DetourInit /\ [][DetourNext]_detourVars

DetourTypeOK ==
  /\ rolled \in Rolls \cup {Unrolled} /\ {received, purse, paid} \subseteq [Siblings -> Nat]
  /\ reading \in [Siblings -> Nat] \cup {NoReading}
  /\ {gatesDue, open, reportDue, hasty} \subseteq BOOLEAN
  /\ gate \in [Siblings -> Nat \cup {-1}] /\ storing \subseteq Siblings
  /\ place \in Siblings \cup {"exit", "away"} /\ flaws \in 0 .. MaxFlaws

\* When the gates are stored and the reading is that of the save, only who has
\* received the moons both kingdoms ask for gets out, and he does, however many of
\* them he has paid (KingdomOrderGate.cpp:116); and the pool has the moons it takes
\* (kingdom_gates.py:20), if it has any in each kingdom.  A save that has paid more
\* than was received counts for what it has paid.
GateHonest ==
  /\ (place = "exit" /\ ~hasty) => Earned
  /\ (InStep /\ Earned) => Unmet = {}
  /\ (rolled # Unrolled /\ \A k \in Siblings : received[k] = Capacity[k] /\ Capacity[k] > 0) => Earned
=============================================================================
