------------------------------ MODULE MCConsole ------------------------------
(* The tables the client keeps on the Switch, what the game makes of them, the *)
(* talk after a load and the lines of a connection: each part on its own from  *)
(* the first state on.                                                         *)
EXTENDS Talkatoo, Entrances, DetourGate, SeqTable, SaveSession, DeathLink, ScoutTables,
        CutsceneLabel, ShinePaint, CoinGrant, LineProtocol, TLC

CONSTANTS p, q

VARIABLE focus

MCKingdomOf   == [m \in PoolMoons |-> IF m = "b1" THEN "B" ELSE "A"]
MCNeeds       == [m \in PoolMoons |->
                    CASE m = "a2" -> {"b1"} [] m = "b1" -> {"a1"} [] OTHER -> {}]
MCVanillaGate == [k \in Siblings |-> IF k = "Lake" THEN 1 ELSE 2]
MCCapacity    == [k \in Siblings |-> 2]
MCHolds       == [s \in Players |-> IF s = "slot1" THEN Shines ELSE Shines \ ShopShines]

ConsoleInit ==
  /\ focus \in {"talkatoo", "entrances", "detour", "table", "session", "deaths", "scouts",
                "labels", "paint", "coins", "lines"}
  /\ DetourInit    /\ (focus # "detour"    => rolled = Unrolled /\ place = "away")
  /\ SeqInit       /\ (focus # "table"     => words = CHOOSE t \in Tables : TRUE)
  /\ SesInit       /\ (focus # "session"   => apReady = FALSE)
  /\ DeathInit     /\ (focus # "deaths"    => optedIn = FALSE)
  /\ PaintInit     /\ (focus # "paint"     => palette = NoPalette /\ build = {})
  /\ CoinInit      /\ (focus # "coins"     => found = TRUE)
  /\ LineInit      /\ (focus # "lines"     => way = "up")
  /\ ScoutInit     /\ LabelInit
  /\ EntrancesInit /\ (focus # "entrances" => /\ shuffle = [d \in Doors |-> d]
                                             /\ outside = CHOOSE d \in Doors : TRUE)
  /\ TalkatooInit  /\ (focus # "talkatoo"  => /\ slot = "off"
                                             /\ order = CHOOSE o \in Orders : TRUE)

ConsoleNext ==
  /\ UNCHANGED focus
  /\ \/ /\ focus = "talkatoo"  /\ TalkatooNext
        /\ UNCHANGED <<entranceVars, detourVars, seqVars, sesVars, deathVars, scoutVars, labelVars, paintVars,
                       coinVars, protoVars>>
     \/ /\ focus = "entrances" /\ EntrancesNext
        /\ UNCHANGED <<talkatooVars, detourVars, seqVars, sesVars, deathVars, scoutVars, labelVars, paintVars,
                       coinVars, protoVars>>
     \/ /\ focus = "detour"    /\ DetourNext
        /\ UNCHANGED <<talkatooVars, entranceVars, seqVars, sesVars, deathVars, scoutVars, labelVars, paintVars,
                       coinVars, protoVars>>
     \/ /\ focus = "table"     /\ SeqNext
        /\ UNCHANGED <<talkatooVars, entranceVars, detourVars, sesVars, deathVars, scoutVars, labelVars, paintVars,
                       coinVars, protoVars>>
     \/ /\ focus = "session"   /\ SesNext
        /\ UNCHANGED <<talkatooVars, entranceVars, detourVars, seqVars, deathVars, scoutVars, labelVars, paintVars,
                       coinVars, protoVars>>
     \/ /\ focus = "deaths"    /\ DeathNext
        /\ UNCHANGED <<talkatooVars, entranceVars, detourVars, seqVars, sesVars, scoutVars, labelVars, paintVars,
                       coinVars, protoVars>>
     \/ /\ focus = "scouts"    /\ ScoutNext
        /\ UNCHANGED <<talkatooVars, entranceVars, detourVars, seqVars, sesVars, deathVars, labelVars, paintVars,
                       coinVars, protoVars>>
     \/ /\ focus = "labels"    /\ LabelNext
        /\ UNCHANGED <<talkatooVars, entranceVars, detourVars, seqVars, sesVars, deathVars, scoutVars, paintVars,
                       coinVars, protoVars>>
     \/ /\ focus = "paint"     /\ PaintNext
        /\ UNCHANGED <<talkatooVars, entranceVars, detourVars, seqVars, sesVars, deathVars, scoutVars, labelVars,
                       coinVars, protoVars>>
     \/ /\ focus = "coins"     /\ CoinNext
        /\ UNCHANGED <<talkatooVars, entranceVars, detourVars, seqVars, sesVars, deathVars, scoutVars, labelVars,
                       paintVars, protoVars>>
     \/ /\ focus = "lines"     /\ LineNext
        /\ UNCHANGED <<talkatooVars, entranceVars, detourVars, seqVars, sesVars, deathVars, scoutVars, labelVars,
                       paintVars, coinVars>>

ConsoleSpec ==
  ConsoleInit /\ [][ConsoleNext]_<<talkatooVars, entranceVars, detourVars, seqVars, sesVars,
                                  deathVars, scoutVars, labelVars, paintVars, coinVars, protoVars,
                                  focus>>

\* The coroutines are alike.
Alike == Permutations({p, q})
=============================================================================
