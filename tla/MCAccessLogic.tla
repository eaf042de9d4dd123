----------------------------- MODULE MCAccessLogic -----------------------------
(* The nine regions up to Metro, four of the shuffled subareas, and the locations     *)
(* they wait for, with their records, gates and doors as the data has them, but for   *)
(* what those locations of the overworld wait for themselves.                         *)
EXTENDS AccessLogic, Sequences, TLC

MCRegions == {"Cascade", "Sand", "Cap", "Lake", "Wooded", "Lost", "Night Metro", "Cloud", "Metro"}

MCConnectsTo ==
  [r \in MCRegions |->
     CASE r = "Cascade" -> {"Sand"} [] r = "Sand" -> {"Cap", "Lake", "Wooded"}
       [] r = "Wooded" -> {"Lost"} [] r = "Lost" -> {"Night Metro"}
       [] r = "Night Metro" -> {"Cloud", "Metro"} [] OTHER -> {}]

MCRegionRequires ==
  [r \in MCRegions |->
     CASE r = "Sand" -> {{Moons("Cascade")}} [] r \in {"Lake", "Wooded"} -> {{Moons("Sand")}}
       [] r = "Lost" -> {{Moons("Lake"), Moons("Wooded")}}
       [] r = "Night Metro" -> {{Moons("Lost")}} [] OTHER -> Free]

MCWay ==
  LET toNight == {"Cascade", "Sand", "Wooded", "Lost", "Night Metro"}
  IN [r \in MCRegions |->
        CASE r = "Cascade" -> {r} [] r = "Sand" -> {"Cascade", r}
          [] r \in {"Cap", "Lake", "Wooded"} -> {"Cascade", "Sand", r}
          [] r = "Lost" -> {"Cascade", "Sand", "Wooded", r}
          [] OTHER -> toNight \cup {r}]

\* The subareas.
Clouds    == "Mysterious Clouds"
Store     == "Crazy Cap Store"
Rises     == "Swinging Along the High-Rises"
Race      == "RC Race"
MCPool    == {Clouds, Store, Rises, Race}
MCMembers ==
  [s \in MCPool |->
     CASE s = Clouds -> {"Cascade: Across the Mysterious Clouds", "Cascade: Atop a Wall Among the Clouds"}
       [] s = Store -> {"Sand: Shopping in Tostarena", "Sand: Employees Only"}
       [] s = Rises -> {"Metro: Hanging from a High-Rise", "Metro: Vaulting Up a High-Rise"}
       [] s = Race -> {"Metro: RC Car Pro!", "Metro: RC Car Champ!"}]
MCMoonRock == MCMembers[Clouds]
MCHome == [s \in MCPool |-> CASE s = Clouds -> "Cascade" [] s = Store -> "Sand" [] OTHER -> "Metro"]

Pest     == "Metro: New Donk City's Pest Problem"
Festival == "Metro: A Traditional Festival!"
Car      == "Metro: Remotely Captured Car"
Falls    == "Cascade: Multi Moon Atop the Falls"
Overworld ==
  [l \in {Falls, "Cap: Shopping in Bonneton", "Cap: Taxi Flying Through Bonneton", Pest, Car, Festival} |->
     CASE l = Falls -> "Cascade" [] l \in {Pest, Car, Festival} -> "Metro" [] OTHER -> "Cap"]
MCLocations == DOMAIN Overworld \cup UNION {MCMembers[s] : s \in MCPool}
MCAuthored == [l \in MCLocations |-> Free]
MCRegion ==
  [l \in MCLocations |-> IF l \in DOMAIN Overworld THEN Overworld[l]
                         ELSE MCHome[CHOOSE s \in MCPool : l \in MCMembers[s]]]

\* The kingdoms their names begin with are those they are in.
MCPrefix == MCRegion

\* moon_requirements.json
Method(jump, other) == [jump |-> jump, throws |-> {"neutral", "up", "down", "spin"}, other |-> other]
Moves(methods)      == [methods |-> methods, groups |-> {}]
Captures(methods, groups) == [methods |-> methods, groups |-> groups]
MCRecord ==
  [l \in MCLocations |->
     CASE l = "Cascade: Across the Mysterious Clouds" -> Moves({Method("long_jump", {}), Method("single", {})})
       [] l = "Cascade: Atop a Wall Among the Clouds" -> Moves({Method("long_jump", {}), Method("double", {})})
       [] l \in MCMembers[Rises] -> Moves({Method("single", {"capture", "wall_slide"})})
       [] l \in MCMembers[Race] -> Captures({Method("long_jump", {"capture"})}, {{"RC Car"}})
       [] l = Falls -> Captures({Method("none", {"capture"})},
                                {{"Chain Chomp", "Broode's Chain Chomp"}, {"T-Rex", "Broode's Chain Chomp"}})
       [] OTHER -> Moves({Method("none", {})})]

MCScenarioGate ==
  [l \in MCLocations |->
     CASE l \in MCMembers[Clouds] -> {{Moons("Cascade")}}
       [] l \in MCMembers[Rises] -> {{Reach(Pest)}}
       [] l = "Metro: RC Car Pro!" -> {{Reach(Car)}}
       [] l = "Metro: RC Car Champ!" -> {{Reach(Festival), Reach("Metro: RC Car Pro!")}}
       [] l = "Cap: Taxi Flying Through Bonneton" -> {{CapPeace}}
       [] OTHER -> Free]
MCExtraGate == [l \in MCLocations |-> IF l = "Sand: Employees Only" THEN {One("Progressive Crouch")} ELSE Free]
MCBossGate  == [l \in MCLocations |-> Free]
MCGate      == [s \in MCPool |-> IF s = Rises THEN {One("Mini Rocket")} ELSE Free]
MCStoryMoon == [r \in {"Cascade", "Metro"} |-> IF r = "Cascade" THEN Falls ELSE Festival]

MCKingdoms  == {"Cascade", "Sand", "Lake", "Wooded", "Lost"}
MCLeave     == [k \in MCKingdoms |-> IF k = "Cascade" THEN 4 ELSE 1]
MCPowerMoon == [k \in MCKingdoms |-> k \o " Kingdom Power Moon"]
MCMultiMoon == [k \in MCKingdoms |-> k \o " Kingdom Multi-Moon"]

\* As many moons as the gates take, and the moves of one way through each record.
MCItems ==
  {MCPowerMoon[k] : k \in MCKingdoms} \cup {MCMultiMoon["Cascade"]} \cup
  {"Progressive Crouch", "Long Jump", "Mini Rocket", "Wall Slide", "RC Car", "Spark pylon"}
MCStock == [x \in MCItems |-> 1]

Played(shuffle, cap, rocks, none) ==
  [shuffle |-> shuffle, capPeace |-> cap, rocks |-> rocks, noLogic |-> none]
MCOptionSets ==
  {Played(FALSE, FALSE, TRUE, FALSE), Played(TRUE, FALSE, TRUE, FALSE),
   Played(TRUE, TRUE, FALSE, FALSE), Played(FALSE, FALSE, TRUE, TRUE)}
ShuffleOn == {Played(TRUE, FALSE, TRUE, FALSE)}

\* Every door its own, and round by one.
Roll(a, b, c, d) == Clouds :> a @@ Store :> b @@ Rises :> c @@ Race :> d
OwnDoors == {Roll(Clouds, Store, Rises, Race)}
MCRolls  == OwnDoors \cup {Roll(Race, Clouds, Store, Rises)}
=============================================================================
