------------------------------ MODULE AccessLogic ------------------------------
(***************************************************************************)
(* What the generator lets a player reach, and when.  The regions and      *)
(* their exits, and for entrance shuffle an interior for every subarea and *)
(* a door into it; the access rules, which set_rules of the Manual core    *)
(* gives every exit and location and the passes of after_set_rules replace *)
(* or add to; and the sweep of Archipelago, which collects items and looks *)
(* which regions and locations their rules now allow.                      *)
(*                                                                         *)
(* A rule is the set of the requirements it asks for.  In the Manual       *)
(* engine the requires of a region are asked for at its exits, so that a   *)
(* region is reached by what its neighbour asks; a door is an exit of its  *)
(* kingdom.                                                                *)
(***************************************************************************)
EXTENDS MoonRequirements

CONSTANTS
  Start,            \* the starting region
  ConnectsTo,       \* of each region: connects_to
  RegionRequires,   \* of each region: requires
  Way,              \* of each region: those on the way to it and itself
  Home,             \* of each pooled subarea: the region of its kingdom
  ExitGate,         \* of each pooled subarea: SUBAREA_EXIT_GATES
  Kingdoms,
  Needs,            \* of each kingdom: the moons to leave it with, rolled or vanilla
  PowerMoon, MultiMoon,   \* of each kingdom: its items
  Items,
  Stock,            \* of each item: get_item_counts
  OptionSets,       \* bound: the playerOptions considered
  Rolls             \* bound: the shuffles considered

ASSUME AccessAssumption ==
  /\ Start \in Regions /\ Region \in [Locations -> Regions]
  /\ ConnectsTo \in [Regions -> SUBSET Regions]
  /\ Way[Start] = {Start} /\ \A r \in Regions : r \in Way[r]
  /\ \A r \in Regions : \A s \in ConnectsTo[r] : Way[s] = Way[r] \cup {s}
  /\ \A r \in Regions : "Cap" \in Way[r] => r = "Cap"
  /\ Pool \subseteq Subareas /\ Home \in [Pool -> Regions]
  /\ Members \in [Subareas -> SUBSET Locations]
  /\ \A s, u \in Subareas : s # u => Members[s] \cap Members[u] = {}
  /\ Stock \in [Items -> Nat]

ASSUME OptionsAssumption ==
  /\ OptionSets \subseteq [shuffle : BOOLEAN, capPeace : BOOLEAN, rocks : BOOLEAN, noLogic : BOOLEAN]
  /\ \A f \in Rolls : f \in [Pool -> Pool] /\ \A d, e \in Pool : f[d] = f[e] => d = e

VARIABLES
  playerOptions,  \* entrance_shuffle, start_at_cap_peace, moon_rock_checks, no_logic
  leads,          \* _entrance_map: the interior each door leads to, no doors without shuffle
  genStage,       \* "create", "rules", "sweep"
  exitRule, doorRule, locationRule,    \* access_rule
  owned,          \* the items collected
  reached, entered, open               \* regions, interiors and locations found reachable

accessVars == <<playerOptions, leads, genStage, exitRule, doorRule, locationRule, owned, reached, entered, open>>

Exits == {e \in Regions \X Regions : e[2] \in ConnectsTo[e[1]]}

NoDoors == [d \in {} |-> d]

\* What after_create_regions leaves.
Enabled == IF playerOptions.rocks THEN Locations ELSE Locations \ MoonRock

\* _entrance_shuffled_locs: those moved out of their region.
Moved(f) == UNION {Members[s] : s \in DOMAIN f}

(***************************************************************************)
(* What a requirement means.                                               *)
(***************************************************************************)

Count(x)  == IF x \in Items THEN owned[x] ELSE 0
InPool(x) == IF x \in Items THEN Stock[x] ELSE 0

\* KingdomMoons: a Multi-Moon counts three; every mix the pool has the moons for.
KingdomMoons(k) ==
  LET rest(mm) == IF 3 * mm < Needs[k] THEN Needs[k] - 3 * mm ELSE 0
  IN  {(IF mm > 0 THEN {Item(MultiMoon[k], mm)} ELSE {})
       \cup (IF rest(mm) > 0 THEN {Item(PowerMoon[k], rest(mm))} ELSE {}) :
         mm \in {m \in 0 .. InPool(MultiMoon[k]) : rest(m) <= InPool(PowerMoon[k])}}

LeaveRequires == [k \in Kingdoms |-> KingdomMoons(k)]

InHand(t) == t[3] \in 0 .. Count(t[2])

MayLeave(k) == \E alt \in LeaveRequires[k] : \A t \in alt : InHand(t)

\* evaluate_full_requires, checkRequireStringForArea
Has(t) ==
  \/ t[1] = "item" /\ InHand(t)
  \/ t[1] = "moons" /\ MayLeave(t[2])
  \/ t[1] = "location" /\ t[2] \in open
  \/ t[1] = "region" /\ t[2] \in reached
  \/ t[1] = "CapPeace" /\ (playerOptions.capPeace \/ MayLeave(t[2]))

Met(req) == \E alt \in req : \A t \in alt : Has(t)

Allowed(rule) == \A req \in rule : Met(req)

(***************************************************************************)
(* The passes that make the rules.                                         *)
(***************************************************************************)

\* set_rules: it knows the regions of regions.json alone, with all of their exits.
CoreExits        == [e \in Exits |-> {RegionRequires[e[1]]}]
CoreDoors(f)     == [d \in DOMAIN f |-> {RegionRequires[Home[d]]}]
CoreLocations(f) ==
  [l \in Locations |-> IF l \in Moved(f) THEN {} ELSE {Requires[l], RegionRequires[Region[l]]}]

\* make_door_access_rule
DoorAccess(d, s) ==
  {KingdomGate(Home[d], Client), SubareaGate[d], ExitGate[s]}
  \cup (IF d \in MoonPipes THEN {RockCapture(Home[d]), Peace(Home[d])} ELSE {})

\* A door of whose members all would have to be there.
DoorOfAll(d) == AndJoin({SubareaScenarioGates[l] : l \in Members[d]})

\* make_door_scenario_gate_rule: the door is there when one of its members would be.
DoorScenario(d) ==
  IF Members[d] = {} THEN Free ELSE UNION {SubareaScenarioGates[l] : l \in Members[d]}

\* Replaces what set_rules gave the door.
SetDoorRules(f, rules) == [d \in DOMAIN f |-> DoorAccess(d, f[d]) \cup {DoorScenario(d)}]

\* _apply_entrance_shuffle_door_rules
AddDoorRules(f, rules) == [d \in DOMAIN f |-> rules[d] \cup DoorAccess(d, f[d]) \cup {DoorScenario(d)}]

\* _apply_entrance_shuffle_location_rules
SetInteriorRules(f, rules) ==
  [l \in Locations |-> IF l \in Moved(f) THEN {InteriorRequires[l]} ELSE rules[l]]

\* _apply_subarea_scenario_gates
AddScenarioRules(f, rules) ==
  [l \in Locations |-> rules[l] \cup (IF l \in Moved(f) THEN {SubareaScenarioGates[l]} ELSE {})]

\* The two passes the other way round.
ShuffledTooLate(f) == SetInteriorRules(f, AddScenarioRules(f, CoreLocations(f)))

ShuffledLocations(f) == AddScenarioRules(f, SetInteriorRules(f, CoreLocations(f)))

\* _apply_start_at_cap_peace_rules
FreeCap(rules) == [e \in Exits |-> IF e[2] = "Cap" THEN {} ELSE rules[e]]

(***************************************************************************)
(* Generation.                                                             *)
(***************************************************************************)

AccessInit ==
  /\ playerOptions \in OptionSets /\ leads = NoDoors /\ genStage = "create"
  /\ exitRule = [e \in Exits |-> {}] /\ doorRule = NoDoors
  /\ locationRule = [l \in Locations |-> {}]
  /\ owned = [x \in Items |-> 0]
  /\ reached = {Start} /\ entered = {} /\ open = {}

\* before_create_regions rolls the doors, create_regions and _wire_entrance_shuffle make
\* them: whatever has no rule yet is always allowed.
CreateRegions ==
  /\ genStage = "create" /\ genStage' = "rules"
  /\ leads' \in IF playerOptions.shuffle THEN Rolls ELSE {NoDoors}
  /\ doorRule' = [d \in DOMAIN leads' |-> {}]
  /\ UNCHANGED <<playerOptions, exitRule, locationRule, owned, reached, entered, open>>

\* set_rules and after_set_rules.  no_logic comes last and wins.
SetRules ==
  /\ genStage = "rules" /\ genStage' = "sweep"
  /\ IF playerOptions.noLogic
       THEN /\ exitRule' = [e \in Exits |-> {}]
            /\ doorRule' = [d \in DOMAIN leads |-> {}]
            /\ locationRule' = [l \in Locations |-> {}]
       ELSE /\ exitRule' = IF playerOptions.capPeace THEN FreeCap(CoreExits) ELSE CoreExits
            /\ doorRule' = AddDoorRules(leads, CoreDoors(leads))
            /\ locationRule' = ShuffledLocations(leads)
  /\ UNCHANGED <<playerOptions, leads, owned, reached, entered, open>>

\* Archipelago's side: what the rules allow from what is reached.
NewRegions ==
  {s \in Regions \ reached :
     \E r \in reached : s \in ConnectsTo[r] /\ Allowed(exitRule[<<r, s>>])}

NewInteriors ==
  {s \in Pool \ entered :
     \E d \in DOMAIN leads : leads[d] = s /\ Home[d] \in reached /\ Allowed(doorRule[d])}

ParentReached(l) ==
  IF l \in Moved(leads) THEN \E s \in entered : l \in Members[s] ELSE Region[l] \in reached

NewLocations == {l \in Enabled \ open : ParentReached(l) /\ Allowed(locationRule[l])}

AllSeen == NewRegions = {} /\ NewInteriors = {} /\ NewLocations = {}

\* A round of the sweep.
Look ==
  /\ genStage = "sweep" /\ ~AllSeen
  /\ reached' = reached \cup NewRegions
  /\ entered' = entered \cup NewInteriors
  /\ open' = open \cup NewLocations
  /\ UNCHANGED <<playerOptions, leads, genStage, exitRule, doorRule, locationRule, owned>>

\* An item comes in, from a location of this world or of another.
Obtain ==
  /\ genStage = "sweep" /\ AllSeen
  /\ \E x \in Items : owned[x] < Stock[x] /\ owned' = [owned EXCEPT ![x] = @ + 1]
  /\ UNCHANGED <<playerOptions, leads, genStage, exitRule, doorRule, locationRule, reached, entered, open>>

AccessNext == CreateRegions \/ SetRules \/ Look \/ Obtain

AccessSpec == AccessInit /\ [][AccessNext]_accessVars

(***************************************************************************)
(* Properties.                                                             *)
(***************************************************************************)

AccessTypes ==
  /\ playerOptions \in OptionSets /\ leads \in {NoDoors} \cup Rolls
  /\ genStage \in {"create", "rules", "sweep"}
  /\ owned \in [Items -> Nat] /\ \A x \in Items : owned[x] <= Stock[x]
  /\ Start \in reached /\ reached \subseteq Regions /\ entered \subseteq Pool
  /\ open \subseteq Enabled

\* The regions whose requires a player meets who is in region r: those on the way, but
\* for a peaceful Cap, where the save starts.
Toll(r) == IF playerOptions.capPeace /\ r = "Cap" THEN {"Cap"} ELSE Way[r]

\* A location is logically open only for a player with the moons to leave every kingdom
\* on the way to it; behind a shuffled door, on the way to the door.  A region is reached
\* by the requires of the one before it, and set_rules overwrites what a door was given:
\* a Sand door that forgot the requires of Sand let a fill put the moons that leave
\* Cascade behind it (_apply_entrance_shuffle_door_rules, the note on add_rule).
NoEarlyArrival ==
  ~playerOptions.noLogic =>
    /\ \A l \in open \ Moved(leads) : \A r \in Toll(Region[l]) : Met(RegionRequires[r])
    /\ \A d \in DOMAIN leads :
         open \cap Members[leads[d]] # {} => \A r \in Toll(Home[d]) : Met(RegionRequires[r])

\* What locations.json asks for survives the shuffle: the moves and the scenario of a moon
\* go with the moon, as the script has them; the gates of kingdom, subarea and moon rock
\* stay with the door, and so does the scenario of one moon that was behind it; what it
\* takes to get out stays with the interior.  after_set_rules replaces the rules that held
\* them and has to put each of them back.
GatesSurvive ==
  ~playerOptions.noLogic =>
    \A d \in DOMAIN leads : \A l \in open \cap Members[leads[d]] :
      /\ Met(ScriptRequires[l]) /\ (l \notin Junk => Met(ScenarioGate[l]))
      /\ Met(KingdomGate(Home[d], Script)) /\ Met(SubareaGate[d]) /\ Met(ExitGate[leads[d]])
      /\ d \in MoonPipes => Met(RockCapture(Home[d])) /\ Met(Peace(Home[d]))
      /\ Members[d] # {} => \E m \in Members[d] : m \in Junk \/ Met(ScenarioGate[m])

\* No rule waits for itself: with every item of the pool, every location is open.  A door
\* may wait for a location that the shuffle has put behind that very door.
NothingLocked ==
  genStage = "sweep" /\ AllSeen /\ owned = Stock => open = Enabled

\* docs/capture-requirement-notes.md: "Employees Only" requires Crouch, with the doors
\* shuffled too (LOCATION_EXTRA_GATES).
ExtraGatesHold == ~playerOptions.noLogic => \A l \in open : Met(ExtraGate[l])
=============================================================================
