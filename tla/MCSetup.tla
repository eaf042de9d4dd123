-------------------------------- MODULE MCSetup --------------------------------
(* The four parts of setup, the item pool and the access rules of the seed that   *)
(* is made next, and how the game then finds the bridge: each on its own from the *)
(* first state on.                                                                *)
EXTENDS BundledTree, MapExtraction, Toolchain, SetupWizard, ItemPool, BridgeDiscovery, MCAccessLogic

VARIABLE focus

\* Two releases that bundle everything, and one installed without --bundle-scripts.
MCContents == [v \in Versions |-> IF v = "bare" THEN {} ELSE Parts]

\* Of items.json, kingdom_gates.py and options: per kingdom the gate, the least the
\* moon count option allows, Power Moons, Multi-Moons.
GateTable == [Cascade |-> <<5, 3, 38, 1>>, Sand |-> <<16, 12, 87, 2>>, Lake |-> <<8, 6, 42, 1>>,
              Wooded |-> <<16, 12, 74, 2>>, Lost |-> <<10, 10, 35, 0>>, Metro |-> <<20, 16, 79, 2>>,
              Snow |-> <<10, 8, 55, 1>>, Seaside |-> <<10, 8, 70, 1>>, Luncheon |-> <<18, 14, 66, 2>>,
              Ruined |-> <<3, 1, 9, 1>>, Bowsers |-> <<8, 6, 61, 1>>]
Others == [capture |-> 33, lateCapture |-> 21, starter |-> 3, ability |-> 16, crouch |-> 3,
           move |-> 2, moon |-> 40, lateMoon |-> 32, bossMulti |-> 7, coin |-> 0]

MCGated  == DOMAIN GateTable
MCNeeds  == [k \in MCGated |-> GateTable[k][1]]
MCFewest == [k \in MCGated |-> GateTable[k][2]]
MCAmount == [x \in Kinds |-> IF x[1] = Other THEN Others[x[2]]
                             ELSE GateTable[x[1]][IF x[2] = "power" THEN 3 ELSE 4]]
MCPastFestival == {"Snow", "Seaside", "Luncheon", "Ruined", "Bowsers"}

\* Of locations.json, by the rule of the location.
Sites(multi, accepts, past, toggled, n) ==
  [multi |-> multi, accepts |-> accepts, past |-> past, toggled |-> toggled, n |-> n]
MCSiteGroups ==
  {Sites(FALSE, "any", FALSE, FALSE, 172), Sites(FALSE, "any", FALSE, TRUE, 212),
   Sites(FALSE, "any", TRUE, FALSE, 141), Sites(FALSE, "any", TRUE, TRUE, 186),
   Sites(FALSE, "calm", FALSE, FALSE, 1), Sites(FALSE, "junk", FALSE, FALSE, 60),
   Sites(FALSE, "junk", TRUE, FALSE, 6), Sites(FALSE, "junk", TRUE, TRUE, 18),
   Sites(TRUE, "any", FALSE, FALSE, 13), Sites(TRUE, "any", TRUE, FALSE, 7),
   Sites(TRUE, "calm", FALSE, FALSE, 1)}

MCFloorSets == {{}, {"Cascade"}, {"Metro"}, MCGated}

SetupInit ==
  /\ focus \in {"tree", "maps", "tools", "wizard", "pool", "logic", "discovery"}
  /\ AccessInit /\ (focus # "logic"  => playerOptions = CHOOSE o \in OptionSets : TRUE)
  /\ options \in IF focus = "pool" THEN Options ELSE {CHOOSE o \in Options : TRUE}
  /\ TreeInit   /\ (focus # "tree"   => zip = "v1")
  /\ ToolInit   /\ (focus # "tools"  => ~path /\ ~python)
  /\ WizInit    /\ (focus # "wizard" => cli = NoCli /\ dumpThere = "none" /\ ~tables /\ mod = NoMod)
  /\ DiscInit   /\ (focus # "discovery" => lan = Loop /\ ~sameHost)
  /\ MapInit /\ PoolInit

SetupNext ==
  /\ UNCHANGED focus
  /\ \/ /\ focus = "tree"   /\ TreeNext
        /\ UNCHANGED <<mapVars, toolVars, wizVars, poolVars, accessVars, discVars>>
     \/ /\ focus = "maps"   /\ MapNext
        /\ UNCHANGED <<treeVars, toolVars, wizVars, poolVars, accessVars, discVars>>
     \/ /\ focus = "tools"  /\ ToolNext
        /\ UNCHANGED <<treeVars, mapVars, wizVars, poolVars, accessVars, discVars>>
     \/ /\ focus = "wizard" /\ WizNext
        /\ UNCHANGED <<treeVars, mapVars, toolVars, poolVars, accessVars, discVars>>
     \/ /\ focus = "pool"   /\ PoolNext
        /\ UNCHANGED <<treeVars, mapVars, toolVars, wizVars, accessVars, discVars>>
     \/ /\ focus = "logic"  /\ AccessNext
        /\ UNCHANGED <<treeVars, mapVars, toolVars, wizVars, poolVars, discVars>>
     \/ /\ focus = "discovery" /\ DiscNext
        /\ UNCHANGED <<treeVars, mapVars, toolVars, wizVars, poolVars, accessVars>>

SetupSpec ==
  SetupInit /\ [][SetupNext]_<<treeVars, mapVars, toolVars, wizVars, poolVars, accessVars, discVars, focus>>
=============================================================================
