-------------------------------- MODULE ItemPool --------------------------------
(***************************************************************************)
(* The item pool of one slot, from the items of items.json to what the     *)
(* fill is given: starters, the festival's cuts, the cap of moons per      *)
(* kingdom, filler to match the locations, rolled gates, moons and         *)
(* abilities made optional (__init__.py, hooks/World.py), and the item     *)
(* rules of the locations.  The fill is Archipelago's: here is what it     *)
(* needs to find a place for everything.                                   *)
(*                                                                         *)
(* Items are counted by kind and classification, locations by the rule     *)
(* they have.  A kind is <<kingdom, "power" or "multi">>, or <<Other, _>>. *)
(***************************************************************************)
EXTENDS Integers, FiniteSetsExt

CONSTANTS
  Gated,            \* the kingdoms of KINGDOM_MOON_GATES
  VanillaNeeds,     \* its values
  Other,            \* the kingdom of items that are no kingdom's
  Amount,           \* count of each kind in items.json
  Fewest,           \* the least the moon count option of each kingdom allows
  FestivalKingdom, PastFestival, \* Metro, and the gated kingdoms after it
  PinnedKingdom,    \* Ruined: exempt from demotion, its Multi-Moon has its place
  SiteGroups,       \* locations: [multi, accepts, past, toggled, n]
  RollSpread,       \* GATE_RANDOMIZE_SPREAD
  FloorSets,        \* bound: sets of kingdoms whose option is at its least
  Transfers         \* bound: how many moons of a gate move to another kingdom's

OtherKinds == {Other} \X {"capture", "lateCapture", "starter", "ability", "crouch", "move",
                          "moon", "lateMoon", "bossMulti", "coin"}
Kinds   == (Gated \X {"power", "multi"}) \cup OtherKinds
Classes == {"prog", "useful", "filler"}

ASSUME ItemPoolAssumption ==
  /\ VanillaNeeds \in [Gated -> Nat \ {0}] /\ Fewest \in [Gated -> Nat \ {0}]
  /\ Amount \in [Kinds -> Nat] /\ Other \notin Gated
  /\ FestivalKingdom \in Gated /\ PinnedKingdom \in PastFestival /\ PastFestival \subseteq Gated
  /\ \A s \in SiteGroups : s.accepts \in {"any", "calm", "junk"} /\ s.n \in Nat
  /\ RollSpread \in Nat /\ FloorSets \subseteq SUBSET Gated /\ Transfers \subseteq Nat

VARIABLES
  options,   \* festival goal, multi_moon_shuffle, abilitysanity,
             \* randomize_kingdom_gates, the location toggles, moon counts at their least
  items,     \* item_pool: how many of each kind and classification
  needs,     \* rolled_kingdom_gates, or the vanilla ones
  poolStage

poolVars == <<options, items, needs, poolStage>>

AtLeast0(i)  == IF i > 0 THEN i ELSE 0
Lower(i, j)  == IF i < j THEN i ELSE j
Nothing      == [c \in Classes |-> 0]
CountOf(r)   == r["prog"] + r["useful"] + r["filler"]
Total(P)     == MapThenSumSet(LAMBDA x : CountOf(P[x]), Kinds)
Born(x)      == IF x[2] \in {"moon", "lateMoon", "starter", "coin"} THEN "filler" ELSE "prog"

Options == [festival : BOOLEAN, shuffle : BOOLEAN, abilities : BOOLEAN, roll : BOOLEAN,
            toggles : BOOLEAN, least : FloorSets]

PoolInit ==
  /\ options \in Options
  /\ items = [x \in Kinds |-> [Nothing EXCEPT ![Born(x)] = Amount[x]]]
  /\ needs = VanillaNeeds /\ poolStage = "raw"

(***************************************************************************)
(* Locations.                                                              *)
(***************************************************************************)

\* create_regions: the festival empties what lies past it and takes its own victory
\* location; after_create_regions: so does a toggle with its categories.
Remaining == {s \in SiteGroups : (options.festival => ~s.past) /\ (s.toggled => options.toggles)}

Rooms(multi, accepts) ==
  MapThenSumSet(LAMBDA s : s.n, {s \in Remaining : s.multi \in multi /\ s.accepts = accepts})
LocationCount == MapThenSumSet(LAMBDA s : s.n, Remaining)

(***************************************************************************)
(* create_items.                                                           *)
(***************************************************************************)

\* n less, of a kind that is still of one classification.
Less(r, n) == [c \in Classes |-> AtLeast0(r[c] - n)]

\* before_create_items_starting: fixed starters and one more capture are precollected;
\* the festival has no use for what is past it, and none of its own moons is a gate's.
TakeStarters ==
  /\ poolStage = "raw" /\ poolStage' = "started"
  /\ \E extra \in {Other} \X {"capture", "lateCapture"} :
       /\ CountOf(items[extra]) > 0
       /\ items' = [x \in Kinds |->
            IF x[2] = "starter" \/ (options.festival /\ (x[1] \in PastFestival \/ x[2] \in {"lateCapture", "lateMoon"}))
            THEN Nothing
            ELSE IF options.festival /\ x[1] = FestivalKingdom
            THEN [Nothing EXCEPT !["filler"] = CountOf(items[x])]
            ELSE Less(items[x], IF x = extra THEN 1 ELSE 0)]
  /\ UNCHANGED <<options, needs>>

\* _trim_kingdom_moons_to_options the other way round: Multi-Moons first.
MultisFirst(P, k) ==
  LET over == IF k \in options.least THEN AtLeast0(CountOf(P[<<k, "power">>]) + CountOf(P[<<k, "multi">>]) - Fewest[k]) ELSE 0
  IN  [multi |-> over, power |-> AtLeast0(over - CountOf(P[<<k, "multi">>]))]

\* _trim_kingdom_moons_to_options: how many of each go, Power Moons first.
Surplus(P, k) ==
  LET over == IF k \in options.least THEN AtLeast0(CountOf(P[<<k, "power">>]) + CountOf(P[<<k, "multi">>]) - Fewest[k]) ELSE 0
  IN  [power |-> over, multi |-> AtLeast0(over - CountOf(P[<<k, "power">>]))]

\* before_create_items_filler: the festival drops the Multi-Moons of after the game and,
\* when they are shuffled, one of its own; abilities go with their option.
CutPool ==
  /\ poolStage = "started" /\ poolStage' = "cut"
  /\ LET dropped(x) ==
           \/ options.festival /\ x[2] = "bossMulti"
           \/ ~options.abilities /\ x[2] \in {"ability", "crouch", "move"}
         gone(x) ==
           IF options.festival /\ options.shuffle /\ x = <<FestivalKingdom, "multi">> THEN 1 ELSE 0
         P == [x \in Kinds |-> IF dropped(x) THEN Nothing ELSE Less(items[x], gone(x))]
     IN  items' = [x \in Kinds |->
           IF x[1] \in Gated THEN Less(P[x], Surplus(P, x[1])[x[2]]) ELSE P[x]]
  /\ UNCHANGED <<options, needs>>

\* adjust_filler_items: coins for what is missing, no trap being an item; of what is
\* too much filler goes at random, and no more than there is.  Of single moons those
\* of no kingdom go first: which they are changes nothing below.
AdjustFiller ==
  /\ poolStage = "cut" /\ poolStage' = "adjusted"
  /\ LET extras  == LocationCount - Total(items)
         multis  == {x \in Kinds : x[2] = "multi" /\ items[x]["filler"] > 0}
         spare   == MapThenSumSet(LAMBDA x : items[x]["filler"], Kinds)
         tooMany == MapThenSumSet(LAMBDA x : items[x]["filler"], multis)
         moons   == items[<<Other, "moon">>]["filler"]
         pops    == Lower(AtLeast0(-extras), spare)
     IN  IF extras >= 0
         THEN items' = [items EXCEPT ![<<Other, "coin">>]["filler"] = extras]
         ELSE \E m \in AtLeast0(pops - (spare - tooMany)) .. Lower(pops, tooMany) :
                items' = [x \in Kinds |->
                  IF x \in multis THEN [items[x] EXCEPT !["filler"] = @ - m]
                  ELSE IF x = <<Other, "moon">> THEN [items[x] EXCEPT !["filler"] = AtLeast0(@ - (pops - m))]
                  ELSE [items[x] EXCEPT !["filler"] = AtLeast0(@ - AtLeast0(pops - m - moons))]]
  /\ UNCHANGED <<options, needs>>

(***************************************************************************)
(* after_create_items.                                                     *)
(***************************************************************************)

\* pool_gate_capacities.
Supply(P, k) == 3 * CountOf(P[<<k, "multi">>]) + CountOf(P[<<k, "power">>])

\* roll_kingdom_gates: tables that differ by one transfer from the one it starts with
\* (DetourGate has them all, of two kingdoms).
RolledNeeds ==
  LET low(k)  == IF VanillaNeeds[k] > RollSpread THEN VanillaNeeds[k] - RollSpread ELSE 1
      high(k) == Lower(VanillaNeeds[k] + RollSpread, Supply(items, k))
      first   == [k \in Gated |-> IF low(k) <= high(k) THEN Lower(VanillaNeeds[k], high(k))
                                  ELSE IF high(k) > 1 THEN high(k) ELSE 1]
      moved(a, b, n) == [first EXCEPT ![a] = @ + n, ![b] = @ - n]
  IN  {first} \cup
      {moved(a, b, n) : <<a, b, n>> \in
         {t \in Gated \X Gated \X Transfers :
            t[1] # t[2] /\ first[t[1]] + t[3] <= high(t[1]) /\ first[t[2]] - t[3] >= low(t[2])}}

\* The strategy that goes with shuffled Multi-Moons used without them, and the reverse.
KeptSwapped(power, multi, need, shuffle) ==
  IF ~shuffle
  THEN LET p == Lower(power, need)
       IN  [power |-> p, multi |-> Lower(multi, (need - p + 2) \div 3)]
  ELSE LET m == Lower(multi, need \div 3)
       IN  [multi |-> m, power |-> Lower(power, AtLeast0(need - 3 * m))]

\* _demote_surplus_kingdom_moons: how many of a kingdom's moons stay progression.
\* Power Moons first when the Multi-Moons are to be free for their own locations.
Kept(power, multi, need, shuffle) ==
  IF shuffle
  THEN LET p == Lower(power, need)
       IN  [power |-> p, multi |-> Lower(multi, (need - p + 2) \div 3)]
  ELSE LET m == Lower(multi, need \div 3)
       IN  [multi |-> m, power |-> Lower(power, AtLeast0(need - 3 * m))]

Demoted(r, kept, class) == [r EXCEPT !["prog"] = kept, ![class] = @ + r["prog"] - kept]

\* The rest of a kingdom's moons become filler; of the abilities what only moves Mario
\* about becomes useful (_demote_mobility_only_abilities).
FinishPool ==
  /\ poolStage = "adjusted" /\ poolStage' = "finished"
  /\ needs' \in IF options.roll THEN RolledNeeds ELSE {VanillaNeeds}
  /\ items' = [x \in Kinds |->
       IF x[1] \in Gated \ {PinnedKingdom}
       THEN LET kept == Kept(items[<<x[1], "power">>]["prog"], items[<<x[1], "multi">>]["prog"],
                             needs'[x[1]], options.shuffle)
            IN  Demoted(items[x], kept[x[2]], "filler")
       ELSE IF x[2] = "move" THEN Demoted(items[x], 0, "useful")
       ELSE IF x[2] = "crouch" THEN Demoted(items[x], Lower(1, items[x]["prog"]), "useful")
       ELSE items[x]]
  /\ UNCHANGED options

\* generate_basic: the pinned Multi-Moon goes to its location, if there is one, or
\* generation fails.
PlacePinned ==
  /\ poolStage = "finished"
  /\ LET pin == <<PinnedKingdom, "multi">>
     IN  IF options.festival THEN poolStage' = "filling" /\ UNCHANGED items
         ELSE IF CountOf(items[pin]) = 0 THEN poolStage' = "failed" /\ UNCHANGED items
         ELSE poolStage' = "filling" /\ items' = [items EXCEPT ![pin]["prog"] = @ - 1]
  /\ UNCHANGED <<options, needs>>

PoolNext == TakeStarters \/ CutPool \/ AdjustFiller \/ FinishPool \/ PlacePinned

PoolSpec == PoolInit /\ [][PoolNext]_poolVars

(***************************************************************************)
(* Properties.                                                             *)
(***************************************************************************)

PoolTypeOK ==
  /\ options \in Options /\ needs \in [Gated -> Nat \ {0}]
  /\ items \in [Kinds -> [Classes -> Nat]]
  /\ poolStage \in {"raw", "started", "cut", "adjusted", "finished", "filling", "failed"}

Holding(multi, class) ==
  MapThenSumSet(LAMBDA x : items[x][class], {x \in Kinds : (x[2] \in {"multi", "bossMulti"}) \in multi})

\* The item rules (_apply_filler_only_rules, _apply_junk_only_rules,
\* _apply_moon_postwin_rules): junk takes filler, calm takes no progression.  Every
\* location and every progression item can be matched.
Fits(multi, pinned) ==
  /\ Rooms(multi, "junk") <= Holding(multi, "filler")
  /\ Rooms(multi, "junk") + Rooms(multi, "calm") <= Holding(multi, "filler") + Holding(multi, "useful")
  /\ Holding(multi, "prog") <= Rooms(multi, "any") - pinned
  /\ Rooms(multi, "junk") + Rooms(multi, "calm") + Rooms(multi, "any") - pinned
       <= Holding(multi, "filler") + Holding(multi, "useful") + Holding(multi, "prog")

PinnedRoom == IF options.festival THEN 0 ELSE 1

\* _apply_multi_moon_rules: Multi-Moons and their locations are matched apart.
Fillable ==
  IF options.shuffle THEN Fits({TRUE}, PinnedRoom) /\ Fits({FALSE}, 0)
                     ELSE Fits(BOOLEAN, PinnedRoom)

\* With shuffled Multi-Moons the festival leaves locations without Multi-Moons for
\* them, and counts at their least leave none that is not progression.
Unbalanced == options.shuffle /\ (options.festival \/ options.least = Gated)

\* Whatever the options, the moons that stay progression open every gate the seed has,
\* rolled or not (hooks/World.py:392), and the fill can give every location an item its
\* rules admit and every progression item a place -- unless the Multi-Moons are
\* unbalanced.  The pinned location has its Multi-Moon.
PoolFillable ==
  /\ poolStage # "failed"
  /\ poolStage = "finished" =>
       \A k \in Gated \ (IF options.festival THEN PastFestival \cup {FestivalKingdom} ELSE {}) :
         items[<<k, "power">>]["prog"] + 3 * items[<<k, "multi">>]["prog"] >= needs[k]
  /\ poolStage = "filling" /\ ~Unbalanced => Fillable
=============================================================================
