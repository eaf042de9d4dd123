-------------------------------- MODULE DeathLink --------------------------------
(***************************************************************************)
(* DeathLink between this player and the others.  The frame thread notices *)
(* that Mario dies (DeathHook.cpp) and queues it once (ApFrameBridge.cpp); *)
(* the worker sends what is queued (ApClient.cpp); the client has the AP   *)
(* server bounce it to every tagged slot, this one too (context.py).  A    *)
(* bounce of another player goes to the Switch as a kill, which the next   *)
(* frame applies or drops (ApState.cpp).                                   *)
(*                                                                         *)
(* Time is one bit: recent, a death less than kInboundKillDebounceMs ago.  *)
(* Mario is up again before those 15 s are over.                           *)
(***************************************************************************)
EXTENDS Naturals, Sequences

CONSTANTS
  MaxDeaths,     \* bound: deaths of Mario by himself
  MaxKills,      \* bound: deaths of other players
  MaxBreaks      \* bound: connections lost, restarts of the game, other slots joined

ASSUME DeathLinkAssumption == MaxDeaths \in Nat /\ MaxKills \in Nat /\ MaxBreaks \in Nat

VARIABLES
  \* the game
  mario,      \* "alive", "dying"
  hp,         \* player_hp_cache: "none", "current", "stale" (of a stage that is gone)
  recent,     \* last_observed_death_ms
  \* between the threads
  unsent,     \* death_pending_send
  deaths,     \* the deaths in outbound_status
  popping,    \* the worker has sent one and has yet to take it off
  kill,       \* inbound_kill_pending, and whose death it is: "none", "ally", "self"
  armed,      \* deathlink_enabled of the Switch
  \* the connection and the client
  cable,      \* the connection
  toPc,       \* deaths on the way to the client
  toSwitch,   \* kills and acknowledgements on the way to the Switch
  optedIn,    \* deathlink_enabled of the client, the tag at the AP server
  serverSays, \* _deathlink_enabled of the switch server
  bounces,    \* bounces on the way to this client, by source
  \* ---- history ----
  ownDeaths, allyDeaths, bounced,  \* deaths of Mario by himself, of others; bounces sent
  overkill,   \* a kill was applied to a Mario who was dying
  echoed,     \* a kill was applied for Mario's own death
  breaks

gameSide  == <<mario, hp, recent>>
betweenVs == <<unsent, deaths, popping, kill, armed>>
lineVars  == <<cable, toPc, toSwitch>>
pcSide    == <<optedIn, serverSays, bounces>>
tallies   == <<ownDeaths, allyDeaths, bounced, overkill, echoed, breaks>>
deathVars == <<gameSide, betweenVs, lineVars, pcSide, tallies>>

DeathInit ==
  /\ mario = "alive" /\ hp = "none" /\ recent = FALSE
  /\ unsent = FALSE /\ deaths = 0 /\ popping = FALSE /\ kill = "none" /\ armed = FALSE
  /\ cable = FALSE /\ toPc = 0 /\ toSwitch = <<>>
  /\ optedIn \in BOOLEAN /\ serverSays = optedIn /\ bounces = <<>>
  /\ ownDeaths = 0 /\ allyDeaths = 0 /\ bounced = 0 /\ overkill = FALSE /\ echoed = FALSE
  /\ breaks = 0

(***************************************************************************)
(* The frame thread.                                                       *)
(***************************************************************************)

\* reportDeath: a second death before the first is sent is not queued.
Queue ==
  /\ unsent' = TRUE
  /\ deaths' = IF unsent THEN deaths ELSE deaths + 1

\* The deathHook around PlayerHitPointData::kill.
Die ==
  /\ mario = "alive" /\ ownDeaths < MaxDeaths
  /\ mario' = "dying" /\ hp' = "current" /\ recent' = TRUE
  /\ Queue
  /\ ownDeaths' = ownDeaths + 1
  /\ UNCHANGED <<popping, kill, armed, lineVars, pcSide, allyDeaths, bounced, overkill, echoed,
                 breaks>>

\* Mario is up again, or enters another stage: its hit points are new.
NewStage ==
  /\ mario = "dying" \/ hp = "current"
  /\ mario' = "alive" /\ hp' = IF hp = "none" THEN "none" ELSE "stale"
  /\ UNCHANGED <<recent, betweenVs, lineVars, pcSide, tallies>>

LongAgo ==
  /\ recent /\ mario = "alive" /\ recent' = FALSE
  /\ UNCHANGED <<mario, hp, betweenVs, lineVars, pcSide, tallies>>

\* maybeApplyInboundKill: only the original kill is called, which reports nothing.
\* With the hit points of a stage that is gone nothing may come of it.
ApplyKill ==
  /\ kill # "none" /\ kill' = "none"
  /\ IF ~armed \/ recent \/ hp = "none"
     THEN UNCHANGED <<gameSide, overkill, echoed>>
     ELSE /\ mario' \in IF hp = "stale" THEN {mario, "dying"} ELSE {"dying"}
          /\ recent' = TRUE
          /\ overkill' = (overkill \/ mario = "dying")
          /\ echoed' = (echoed \/ kill = "self")
          /\ UNCHANGED hp
  /\ UNCHANGED <<unsent, deaths, popping, armed, lineVars, pcSide, ownDeaths, allyDeaths, bounced,
                 breaks>>

(***************************************************************************)
(* The worker.                                                             *)
(***************************************************************************)

\* Takes the death off even when the send fails.
PumpAnyway ==
  /\ deaths > 0 /\ ~popping
  /\ popping' = TRUE
  /\ IF cable THEN toPc' = toPc + 1 /\ unsent' = FALSE ELSE UNCHANGED <<toPc, unsent>>
  /\ UNCHANGED <<gameSide, deaths, kill, armed, cable, toSwitch, pcSide, tallies>>

\* pumpOnce: sent, the flag is cleared, and only then the death is taken off.
PumpDeath ==
  /\ deaths > 0 /\ ~popping /\ cable
  /\ popping' = TRUE /\ unsent' = FALSE /\ toPc' = toPc + 1
  /\ UNCHANGED <<gameSide, deaths, kill, armed, cable, toSwitch, pcSide, tallies>>

PopDeath ==
  /\ popping /\ popping' = FALSE /\ deaths' = deaths - 1
  /\ UNCHANGED <<gameSide, unsent, kill, armed, lineVars, pcSide, tallies>>

\* kill and hello_ack lines.  A kill that is still pending swallows the next.
ReadKill ==
  /\ toSwitch # <<>> /\ toSwitch' = Tail(toSwitch)
  /\ IF Head(toSwitch) \in {"ally", "self"}
     THEN kill' = Head(toSwitch) /\ UNCHANGED armed
     ELSE armed' = (Head(toSwitch) = "on") /\ UNCHANGED kill
  /\ UNCHANGED <<gameSide, unsent, deaths, popping, cable, toPc, pcSide, tallies>>

(***************************************************************************)
(* The client and the AP server.                                           *)
(***************************************************************************)

Send(line) == toSwitch' = IF cable THEN Append(toSwitch, line) ELSE toSwitch

\* on_death, report_death; the server bounces to the sender as well.
ReportDeath ==
  /\ toPc > 0 /\ toPc' = toPc - 1
  /\ IF optedIn THEN bounces' = Append(bounces, "self") /\ bounced' = bounced + 1
                ELSE UNCHANGED <<bounces, bounced>>
  /\ UNCHANGED <<gameSide, betweenVs, cable, toSwitch, optedIn, serverSays, ownDeaths, allyDeaths,
                 overkill, echoed, breaks>>

AllyDies ==
  /\ optedIn /\ allyDeaths < MaxKills /\ allyDeaths' = allyDeaths + 1
  /\ bounces' = Append(bounces, "ally")
  /\ UNCHANGED <<gameSide, betweenVs, lineVars, optedIn, serverSays, ownDeaths, bounced, overkill,
                 echoed, breaks>>

\* on_deathlink.  CommonContext compares the time of a bounce with that of the last
\* death it sent itself, which report_death does not set: the name is what tells
\* the player's own death.
OnDeathlink ==
  /\ bounces # <<>> /\ bounces' = Tail(bounces)
  /\ IF optedIn /\ Head(bounces) # "self" THEN Send(Head(bounces)) ELSE UNCHANGED toSwitch
  /\ UNCHANGED <<gameSide, betweenVs, cable, toPc, optedIn, serverSays, tallies>>

\* Connected, of a slot with the other choice: the flag of the client, the tag ...
JoinSlot ==
  /\ breaks < MaxBreaks /\ breaks' = breaks + 1
  /\ optedIn' = ~optedIn /\ bounces' = <<>>
  /\ UNCHANGED <<gameSide, betweenVs, lineVars, serverSays, ownDeaths, allyDeaths, bounced,
                 overkill, echoed>>

\* ... then set_deathlink_enabled and push_deathlink_helloack.
TellSwitch ==
  /\ serverSays # optedIn /\ serverSays' = optedIn
  /\ Send(IF optedIn THEN "on" ELSE "off")
  /\ UNCHANGED <<gameSide, betweenVs, cable, toPc, optedIn, bounces, tallies>>

\* A hello, acknowledged.
PlugIn ==
  /\ ~cable /\ cable' = TRUE
  /\ toSwitch' = <<IF serverSays THEN "on" ELSE "off">>
  /\ UNCHANGED <<gameSide, betweenVs, toPc, pcSide, tallies>>

Unplug ==
  /\ cable /\ breaks < MaxBreaks /\ breaks' = breaks + 1
  /\ cable' = FALSE /\ toSwitch' = <<>> /\ toPc' \in 0 .. toPc
  /\ UNCHANGED <<gameSide, betweenVs, pcSide, ownDeaths, allyDeaths, bounced, overkill, echoed>>

GameRestarts ==
  /\ breaks < MaxBreaks /\ breaks' = breaks + 1
  /\ mario' = "alive" /\ hp' = "none" /\ recent' = FALSE
  /\ unsent' = FALSE /\ deaths' = 0 /\ popping' = FALSE /\ kill' = "none" /\ armed' = FALSE
  /\ cable' = FALSE /\ toSwitch' = <<>> /\ toPc' \in 0 .. toPc
  /\ UNCHANGED <<pcSide, ownDeaths, allyDeaths, bounced, overkill, echoed>>

DeathNext ==
  \/ Die \/ NewStage \/ LongAgo \/ ApplyKill \/ PumpDeath \/ PopDeath \/ ReadKill
  \/ ReportDeath \/ AllyDies \/ OnDeathlink \/ JoinSlot \/ TellSwitch \/ PlugIn \/ Unplug
  \/ GameRestarts

DeathSpec == DeathInit /\ [][DeathNext]_deathVars

(***************************************************************************)
(* Properties.                                                             *)
(***************************************************************************)

DeathTypeOK ==
  /\ mario \in {"alive", "dying"} /\ hp \in {"none", "current", "stale"} /\ recent \in BOOLEAN
  /\ unsent \in BOOLEAN /\ deaths \in Nat /\ popping \in BOOLEAN
  /\ kill \in {"none", "ally", "self"} /\ armed \in BOOLEAN
  /\ cable \in BOOLEAN /\ toPc \in Nat /\ toSwitch \in Seq({"ally", "self", "on", "off"})
  /\ optedIn \in BOOLEAN /\ serverSays \in BOOLEAN /\ bounces \in Seq({"ally", "self"})
  /\ ownDeaths \in Nat /\ allyDeaths \in Nat /\ bounced \in Nat
  /\ overkill \in BOOLEAN /\ echoed \in BOOLEAN /\ breaks \in Nat

\* Others die only for deaths Mario died by himself, never for a kill they sent: the
\* others are told of no more deaths than there were.  A death that is yet unsent
\* is in the queue, so the next is not swallowed for good (death_pending_send).
\* Nobody dies of his own death come back (context.py:469), and a Mario who is
\* dying is not killed again (ApState.hpp:139).
DeathsHonest ==
  /\ bounced + toPc + deaths <= ownDeaths + (IF popping THEN 1 ELSE 0)
  /\ unsent => deaths > (IF popping THEN 1 ELSE 0)
  /\ ~overkill /\ ~echoed
=============================================================================
