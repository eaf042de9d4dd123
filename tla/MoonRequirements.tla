---------------------------- MODULE MoonRequirements ----------------------------
(***************************************************************************)
(* What a location requires: as compile_moon_logic.py bakes it into        *)
(* locations.json, and as entrance_logic.py compiles it again, without the *)
(* gates of the door, for the subareas that are shuffled.                  *)
(*                                                                         *)
(* A requirement is the set of its alternatives, an alternative the set of *)
(* the terms that must all hold.  The empty string of the code is Free.    *)
(***************************************************************************)
EXTENDS Naturals

CONSTANTS
  Regions,       \* regions.json
  Locations,     \* locations.json
  Region,        \* of each: the region it is in
  Prefix,        \* of each: the kingdom its name begins with
  Record,        \* of some: [methods, groups] of moon_requirements.json
  Authored,      \* of each: the requires that is not compiled, MOON_CAVE_TRAVERSAL of the goal
  Junk,          \* those that are junk_only
  MoonRock,      \* those of the category Moon Rock
  RockExtra,     \* MOON_ROCK_REACH_EXTRA
  MoonCave,      \* Underground Caverns and MOON_CAVE_EXTRA_LOCATIONS
  ScenarioGate,  \* of each: scenario_gates.json, with the passes for Cascade and Moon
  ExtraGate,     \* of each: LOCATION_EXTRA_GATES
  BossGate,      \* of each: BOSS_CAPTURE_GATES
  Subareas,      \* subareas.json
  Members,       \* of each: its location_names
  SubareaGate,   \* of each: SUBAREA_GATES, and SUBAREA_INTERIOR_FULL_GATES
  FullGated,     \* those of SUBAREA_INTERIOR_FULL_GATES
  Pool,          \* build_entrance_pool: those that are shuffled
  StoryMoon      \* of some regions: the location its peace function asks for

\* The terms: so many of an item, the moons it takes to leave a kingdom, a location that
\* can be reached, a region that can, and CapPeace.
Item(x, n) == <<"item", x, n>>
Moons(k)   == <<"moons", k, 1>>
Reach(l)   == <<"location", l, 1>>
ReachRegion(r) == <<"region", r, 1>>
CapPeace   == <<"CapPeace", "Cascade", 1>>

Free   == {{}}
One(x) == {Item(x, 1)}

\* and_join: an alternative of each part, all of their terms.
AndJoin(parts) ==
  {UNION {choice[p] : p \in parts} :
     choice \in {f \in [parts -> UNION parts] : \A p \in parts : f[p] \in p}}

\* or_join drops the parts that are empty: one that is free does not make it free.
OrJoin(parts) == IF parts \subseteq {Free} THEN Free ELSE UNION (parts \ {Free})

(***************************************************************************)
(* compile_moon.                                                           *)
(***************************************************************************)

JumpFrag ==
  [PJ1 |-> One("Progressive Jump"), PJ2 |-> {Item("Progressive Jump", 2)},
   CAP_BOUNCE |-> One("Cap Bounce"), SIDE_FLIP |-> One("Side Flip"), SPIN_JUMP |-> One("Spin"),
   BACKFLIP  |-> One("Backflip") \cup One("Progressive Crouch"),
   GPJ       |-> One("Ground Pound Jump") \cup One("Progressive Ground Pound"),
   LONG_JUMP |-> One("Long Jump") \cup One("Progressive Crouch")]

HeightSatisfiers ==
  LET vault == {"CAP_BOUNCE", "BACKFLIP", "SIDE_FLIP", "SPIN_JUMP", "GPJ", "PJ2"}
  IN  [double |-> {"PJ1"} \cup vault, cap_return |-> vault, backflip |-> vault,
       gpj |-> {"GPJ", "PJ2"}, triple |-> {"PJ2"}, long_jump |-> {"LONG_JUMP"}]

ThrowFrag == [up |-> One("Up Throw"), down |-> One("Down Throw"), spin |-> One("Spin Throw")]

OtherFrag ==
  [ground_pound |-> One("Progressive Ground Pound"), dive |-> {Item("Progressive Ground Pound", 2)},
   crouch |-> One("Progressive Crouch"), roll |-> {Item("Progressive Crouch", 2)},
   roll_boost |-> {Item("Progressive Crouch", 3)}, bonk_roll |-> {Item("Progressive Crouch", 2)},
   wall_slide |-> One("Wall Slide"), climb |-> One("Climb"), cap_bounce |-> One("Cap Bounce"),
   single |-> {}]

FreeCaptures == {"Frog", "Chain Chomp", "Broode's Chain Chomp"}

HighJumps == {"BACKFLIP", "SIDE_FLIP", "SPIN_JUMP", "PJ2", "GPJ"}

\* The tables of the script, and those of entrance_logic.py.
Script == [jumps |-> HeightSatisfiers, free |-> FreeCaptures, high |-> HighJumps]
Client == [jumps |-> [h \in DOMAIN HeightSatisfiers |-> HeightSatisfiers[h] \ {"SPIN_JUMP"}],
           free  |-> FreeCaptures \ {"Broode's Chain Chomp"}, high |-> HighJumps \ {"SPIN_JUMP"}]

\* capture_term: one of the groups, what is free left out.
CaptureTerm(groups, free) ==
  IF groups = {} \/ (\E g \in groups : g \subseteq free) THEN Free
  ELSE {UNION {One(c) : c \in g \ free} : g \in groups}

JumpTerm(m, jumps) ==
  IF m.jump \in DOMAIN jumps THEN {JumpFrag[j] : j \in jumps[m.jump]} ELSE Free

ThrowTerm(m) ==
  IF m.throws = {} \/ m.throws \cap {"neutral", "none"} # {} THEN Free
  ELSE {ThrowFrag[t] : t \in m.throws}

OtherTerm(o, groups, free) ==
  IF o = "capture" THEN CaptureTerm(groups, free) ELSE {OtherFrag[o]}

\* compile_method
CompileMethod(m, groups, lists) ==
  AndJoin({JumpTerm(m, lists.jumps), ThrowTerm(m)}
          \cup {OtherTerm(o, groups, lists.free) : o \in m.other})

\* compile_moon: a method that needs nothing makes the moon free.
CompileMoon(rec, lists) ==
  LET exprs == {CompileMethod(m, rec.groups, lists) : m \in rec.methods}
  IN  IF Free \in exprs THEN Free ELSE OrJoin(exprs)

(***************************************************************************)
(* The gates.                                                              *)
(***************************************************************************)

\* _LAKE_GATE
LakeGate(lists) ==
  OrJoin({{One("Zipper")},
          AndJoin({{JumpFrag[j] : j \in lists.high}, {One("Cap Bounce")},
                   {{Item("Progressive Ground Pound", 2)}, One("Wall Slide")}})})

\* KINGDOM_GATES of the script, KINGDOM_ENTRANCE_GATES of entrance_logic.py, where Night
\* Metro counts as Metro.
KingdomGate(k, lists) ==
  IF k \in {"Metro", "Night Metro", "Bowser's"} THEN {One("Spark pylon")}
  ELSE IF k = "Lake" THEN LakeGate(lists) ELSE Free

\* MOON_ROCK_REACH_CAPTURE
RockCapture(r) ==
  IF r = "Cap" THEN {One("Paragoomba")} ELSE IF r = "Luncheon" THEN {One("Lava Bubble")} ELSE Free

MoonCaveTraversal ==
  {One("Parabones") \cup One("Banzai Bill") \cup One("Spark pylon"),
   JumpFrag["GPJ"] \cup One("Cap Bounce") \cup One("Wall Slide")}

\* The peace functions of hooks/Rules.py, as MOON_PIPE_PEACE_FUNCS names them.
Peace(r) == IF r \in DOMAIN StoryMoon THEN {{Reach(StoryMoon[r])}} ELSE Free

SubareasOf(l) == {s \in Subareas : l \in Members[s]}
Pooled        == UNION {Members[s] : s \in Pool}

\* gates_for
GatesFor(l) ==
  {KingdomGate(Prefix[l], Script), ScenarioGate[l], ExtraGate[l], BossGate[l]}
  \cup {SubareaGate[s] : s \in SubareasOf(l)}
  \cup (IF l \in MoonRock \cup RockExtra THEN {RockCapture(Prefix[l])} ELSE {})
  \cup (IF l \in MoonCave THEN {MoonCaveTraversal} ELSE {})

\* What compile_moon gives for a location.
ScriptRequires ==
  [l \in Locations |-> IF l \in DOMAIN Record THEN CompileMoon(Record[l], Script) ELSE Free]

\* What main writes into locations.json.
Requires ==
  [l \in Locations |->
     IF l \notin Junk /\ SubareasOf(l) \cap FullGated # {}
       THEN UNION {SubareaGate[s] : s \in SubareasOf(l) \cap FullGated}
     ELSE IF l \notin Junk /\ l \in DOMAIN Record
       THEN AndJoin({ScriptRequires[l]} \cup GatesFor(l))
     ELSE Authored[l]]

\* build_subarea_scenario_gates, and "" for those not in the file.
SubareaScenarioGates == [l \in Pooled |-> IF l \in Junk THEN Free ELSE ScenarioGate[l]]

\* build_interior_requires_map, compile_interior_requires
InteriorRequires ==
  [l \in Pooled |-> IF l \in DOMAIN Record THEN CompileMoon(Record[l], Client) ELSE Free]

\* build_moonpipe_subarea_set
MoonPipes == {s \in Pool : Members[s] # {} /\ Members[s] \subseteq MoonRock}
=============================================================================
