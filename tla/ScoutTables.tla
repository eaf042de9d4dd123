------------------------------- MODULE ScoutTables -------------------------------
(***************************************************************************)
(* What the client learns from scouting its locations and makes of it on   *)
(* the Switch: a colour for every moon and a label for those in a shop.    *)
(* A Connected clears the scout cache and asks for every location of the   *)
(* slot; the answers come in batches (context.py, scout_cache.py), each of *)
(* which pushes its colours, in chunks, and the labels of all shop moons   *)
(* scouted so far; a hello has everything sent again (switch_server.py).   *)
(* The Switch merges colours and replaces the labels (ApClient.cpp,        *)
(* ApState.cpp).                                                           *)
(*                                                                         *)
(* A colour or a label is here the slot whose item it shows.  A message is *)
(* applied as it is sent; the ring of colours has room for several replays *)
(* and is drained with every frame.                                        *)
(***************************************************************************)
EXTENDS Naturals, FiniteSets

CONSTANTS
  Shines,       \* moons with a uid in the shine map
  ShopShines,   \* those in SHOP_LOCATION_TO_FILEKEY
  Players,      \* AP slots
  Holds,        \* for each slot, the moons that are locations of it
  Painters,     \* coroutines that may push at the same time
  Nobody,       \* no colour, no label, no entry
  Unset,        \* never set
  MaxTurns      \* bound: slots joined again, connections lost, restarts of the game

\* A slot without a location is none: with no answer to come, nothing would derive its
\* labels.  Every seed has moons.
ASSUME ScoutTablesAssumption ==
  /\ ShopShines \subseteq Shines /\ Holds \in [Players -> (SUBSET Shines) \ {{}}]
  /\ Nobody \notin Players /\ Unset \notin [Shines -> Players \cup {Nobody}]
  /\ MaxTurns \in Nat

VARIABLES
  \* the client
  tenant,       \* the slot, Nobody before the first Connected
  warming,      \* the handler of Connected has yet to clear the cache and ask
  cache,        \* scout_cache
  asked,        \* locations whose answer is on its way
  tints,        \* shine_palette of the bridge state
  shopStash,    \* _shop_label_entries, Unset before the first
  signature,    \* _shop_labels_last_signature, Unset before the first
  errand,       \* of each coroutine: "none", "batch", "replay"
  load,         \* the colours it has yet to send
  helloDue,     \* the replay after a hello has yet to run
  \* the Switch
  plugged,
  shinePalette, shopLabels,
  \* ---- history ----
  tangled,      \* a push of the slot before ran on into this one
  turns

scoutVars == <<tenant, warming, cache, asked, tints, shopStash, signature, errand, load, helloDue,
               plugged, shinePalette, shopLabels, tangled, turns>>

Blank     == [m \in Shines |-> Nobody]
Running   == {c \in Painters : errand[c] # "none"}
Laden(c)  == {m \in Shines : load[c][m] # Nobody}
Turn      == turns < MaxTurns /\ turns' = turns + 1

ScoutInit ==
  /\ tenant = Nobody /\ warming = FALSE /\ cache = Blank /\ asked = {} /\ tints = Blank
  /\ shopStash = Unset /\ signature = Unset
  /\ errand = [c \in Painters |-> "none"] /\ load = [c \in Painters |-> Blank]
  /\ helloDue = FALSE /\ plugged = FALSE
  /\ shinePalette = Blank /\ shopLabels = Blank
  /\ tangled = FALSE /\ turns = 0

\* compose_shop_label_for_location: none when the cache has no such location.
ShopLabel(m) == cache[m]

\* The labels of the shop moons.
ShopEntries == [m \in Shines |-> IF m \in ShopShines THEN ShopLabel(m) ELSE Nobody]

\* _derive_and_push_shop_labels: the same table is not sent twice; the signature is
\* kept before the push, whether or not a Switch is connected.
DeriveShop(entries) ==
  IF entries = signature
  THEN UNCHANGED <<signature, shopStash, shopLabels>>
  ELSE /\ signature' = entries /\ shopStash' = entries
       /\ shopLabels' = IF plugged THEN entries ELSE shopLabels

\* Connected: clear_received when the slot is another, and labels from what is still
\* in the cache.
Connect(s) ==
  /\ ~warming /\ IF tenant = Nobody THEN UNCHANGED turns ELSE Turn
  /\ tenant' = s /\ warming' = TRUE /\ asked' = {}
  /\ IF tenant \in {s, Nobody} THEN UNCHANGED <<tints, tangled>>
     ELSE tints' = Blank /\ tangled' = (tangled \/ Running # {})
  /\ DeriveShop(ShopEntries)
  /\ UNCHANGED <<cache, errand, load, helloDue, plugged, shinePalette>>

\* request_scout: the locations of the slot a cache lacks.
RequestScout(entries) == {m \in Holds[tenant] : entries[m] = Nobody}

\* The cache is not cleared: only what it lacks is asked for.
WarmKeeps ==
  /\ warming /\ warming' = FALSE
  /\ asked' = RequestScout(cache)
  /\ UNCHANGED <<tenant, cache, tints, shopStash, signature, errand, load, helloDue, plugged,
                 shinePalette, shopLabels, tangled, turns>>

\* The end of the handler of Connected.
Warm ==
  /\ warming /\ warming' = FALSE
  /\ cache' = Blank /\ asked' = RequestScout(Blank)
  /\ UNCHANGED <<tenant, tints, shopStash, signature, errand, load, helloDue, plugged, shinePalette,
                 shopLabels, tangled, turns>>

\* absorb_location_info: later answers win.  The palette merges in the same way.
Merged(column, batch) == [m \in Shines |-> IF m \in batch THEN tenant ELSE column[m]]

\* LocationInfo: absorb_location_info, _push_palette_for_scout_batch.
Absorb(c, batch) ==
  /\ errand[c] = "none" /\ batch # {} /\ batch \subseteq asked
  /\ asked' = asked \ batch
  /\ cache' = Merged(cache, batch) /\ tints' = Merged(tints, batch)
  /\ errand' = [errand EXCEPT ![c] = "batch"]
  /\ load' = [load EXCEPT ![c] = Merged(Blank, batch)]
  /\ UNCHANGED <<tenant, warming, shopStash, signature, helloDue, plugged, shinePalette, shopLabels,
                 tangled, turns>>

\* send_shine_scouts, one chunk; setShinePalette on the Switch.
SendScouts(c, m) ==
  /\ m \in Laden(c)
  /\ load' = [load EXCEPT ![c][m] = Nobody]
  /\ shinePalette' = IF plugged THEN [shinePalette EXCEPT ![m] = load[c][m]] ELSE shinePalette
  /\ UNCHANGED <<tenant, warming, cache, asked, tints, shopStash, signature, errand, helloDue,
                 plugged, shopLabels, tangled, turns>>

\* The rest of the handler: the labels.
FinishBatch(c) ==
  /\ errand[c] = "batch" /\ Laden(c) = {}
  /\ errand' = [errand EXCEPT ![c] = "none"]
  /\ DeriveShop(ShopEntries)
  /\ UNCHANGED <<tenant, warming, cache, asked, tints, load, helloDue, plugged, shinePalette,
                 tangled, turns>>

\* _run_post_hello_replay: the labels, if there were any, then all colours.
ReplayTables(c) ==
  /\ helloDue /\ errand[c] = "none" /\ helloDue' = FALSE
  /\ shopLabels' = IF plugged /\ shopStash # Unset THEN shopStash ELSE shopLabels
  /\ errand' = [errand EXCEPT ![c] = "replay"] /\ load' = [load EXCEPT ![c] = tints]
  /\ UNCHANGED <<tenant, warming, cache, asked, tints, shopStash, signature, plugged, shinePalette,
                 tangled, turns>>

FinishReplay(c) ==
  /\ errand[c] = "replay" /\ Laden(c) = {}
  /\ errand' = [errand EXCEPT ![c] = "none"]
  /\ UNCHANGED <<tenant, warming, cache, asked, tints, shopStash, signature, load, helloDue, plugged,
                 shinePalette, shopLabels, tangled, turns>>

Plug ==
  /\ ~plugged /\ plugged' = TRUE /\ helloDue' = TRUE
  /\ UNCHANGED <<tenant, warming, cache, asked, tints, shopStash, signature, errand, load,
                 shinePalette, shopLabels, tangled, turns>>

\* What a replay has not sent goes nowhere.
Unplugged ==
  /\ plugged' = FALSE /\ helloDue' = FALSE
  /\ errand' = [c \in Painters |-> IF errand[c] = "replay" THEN "none" ELSE errand[c]]
  /\ load' = [c \in Painters |-> IF errand[c] = "replay" THEN Blank ELSE load[c]]
  /\ UNCHANGED <<tenant, warming, cache, asked, tints, shopStash, signature, tangled>>

Cut == plugged /\ Turn /\ Unplugged /\ UNCHANGED <<shinePalette, shopLabels>>

\* The game is started anew.
PowerCycle == Turn /\ Unplugged /\ shinePalette' = Blank /\ shopLabels' = Blank

ScoutNext ==
  \/ (\E s \in Players : Connect(s)) \/ Warm \/ Plug \/ Cut \/ PowerCycle
  \/ \E c \in Painters :
       \/ (\E batch \in SUBSET Shines : Absorb(c, batch)) \/ (\E m \in Shines : SendScouts(c, m))
       \/ FinishBatch(c) \/ ReplayTables(c) \/ FinishReplay(c)

ScoutSpec == ScoutInit /\ [][ScoutNext]_scoutVars

Column == [Shines -> Players \cup {Nobody}]

ScoutTypeOK ==
  /\ tenant \in Players \cup {Nobody} /\ asked \subseteq Shines
  /\ {cache, tints, shinePalette, shopLabels} \subseteq Column
  /\ {shopStash, signature} \subseteq Column \cup {Unset}
  /\ errand \in [Painters -> {"none", "batch", "replay"}] /\ load \in [Painters -> Column]
  /\ {warming, helloDue, plugged, tangled} \subseteq BOOLEAN /\ turns \in Nat

AllSent == plugged /\ tenant # Nobody /\ ~warming /\ ~helloDue /\ asked = {} /\ Running = {}

\* Once every answer is in and every push is done, each moon of the slot has on the
\* Switch the colour of this slot's item, and each shop moon its label; a shop moon
\* that is no location of the slot has none, whatever the slot before left there
\* (state.py:208, context.py:1311).  A colour of a moon the slot does not have stays
\* from the slot before; a push of that slot which runs on may repaint any.
TablesCurrent ==
  AllSent =>
    /\ \A m \in ShopShines : shopLabels[m] = IF m \in Holds[tenant] THEN tenant ELSE Nobody
    /\ ~tangled => \A m \in Holds[tenant] : shinePalette[m] = tenant
=============================================================================
