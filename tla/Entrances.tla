------------------------------- MODULE Entrances -------------------------------
(***************************************************************************)
(* Entrance shuffle.  The generator permutes the subareas of the pool      *)
(* (hooks/World.py); the client turns the permutation into rows for entry  *)
(* and exit (entrance_logic.py) and sends them in chunks, of which the     *)
(* first resets the table (switch_server.py); the Switch merges the rows   *)
(* (ApState.cpp) and rewrites the stage changes of the game with them      *)
(* (EntranceShuffleHook.cpp).                                              *)
(*                                                                         *)
(* A push may be suspended at every send, a push of another map may start  *)
(* then, and Mario walks through doors meanwhile.                          *)
(***************************************************************************)
EXTENDS Naturals, Sequences, FiniteSets

CONSTANTS
  Subareas,     \* subareas.json, numbered in the order of their names
  Excluded,     \* entrance_exclusions.json
  Stageless,    \* those without a stage or an entry in entrance_stages.json
  Pipeless,     \* those without a primary_exit: left by the game's return stack
  Chunk,        \* ENTRANCE_MAP_CHUNK
  Couriers,     \* coroutines that may push at the same time
  NoDoor,
  MaxUpsets     \* bound: slots joined, connections lost, restarts of the game

\* build_entrance_pool without its filter.
Candidates == Subareas \ Excluded

\* build_entrance_pool, is_round_trippable: the subareas shuffled, each a door and an
\* interior.
Doors == {s \in Subareas \ Excluded : s \notin Stageless}

ASSUME EntrancesAssumption ==
  /\ Subareas \subseteq Nat /\ IsFiniteSet(Subareas) /\ NoDoor \notin Nat
  /\ Chunk \in Nat \ {0} /\ MaxUpsets \in Nat

VARIABLES
  shuffle,      \* entrance_map of the slot, the identity for none
  known,        \* the client has it
  sending,      \* of each coroutine: the chunks left to send, the first one resets
  resend,       \* a handler that pushes has yet to run
  wired,        \* the Switch is connected
  table,        \* entrance_remap: where the rows of each kind and stage lead
  inside, outside,   \* the interior Mario is in, the door he stands at
  \* ---- history ----
  via,          \* the door he went in by
  whole,        \* he went in by the whole table of this slot
  mixed,        \* pushes of different slots overlapped
  upsets

entranceVars == <<shuffle, known, sending, resend, wired, table, inside, outside, via, whole,
                  mixed, upsets>>

\* _roll_entrance_bijection
Shuffles == {f \in [Doors -> Doors] : \A d, e \in Doors : f[d] = f[e] => d = e}

\* Rows are keyed by direction and stage.  An entry row leads into an interior, an
\* exit row to the outside of a door.
RowKeys == {"entry", "exit"} \X Doors

EntryRow(f, d) == [key |-> <<"entry", d>>, to |-> f[d]]
ExitRow(f, d)  == [key |-> <<"exit", f[d]>>, to |-> d]

\* compile_stage_remaps: pairs of a subarea with itself or of one without a stage have
\* no rows, doors without a primary_exit no exit row.
Rows(f) ==
  LET Moved == {d \in Doors : f[d] # d /\ {d, f[d]} \cap Stageless = {}}
  IN {EntryRow(f, d) : d \in Moved} \cup {ExitRow(f, d) : d \in Moved \ Pipeless}

\* The rows in the order of the pool, entry before exit, cut into chunks; one
\* empty chunk for no rows.
DoorOf(r)    == IF r.key[1] = "entry" THEN r.key[2] ELSE r.to
Before(r, q) == DoorOf(r) < DoorOf(q) \/ (DoorOf(r) = DoorOf(q) /\ r.key[1] = "entry" /\ q.key[1] = "exit")

Chunks(rows) ==
  LET n == IF rows = {} THEN 1 ELSE (Cardinality(rows) + Chunk - 1) \div Chunk
  IN [i \in 1 .. n |->
        [reset |-> i = 1,
         rows  |-> {r \in rows : Cardinality({q \in rows : Before(q, r)}) \div Chunk = i - 1}]]

Upset == upsets < MaxUpsets /\ upsets' = upsets + 1

Busy == {c \in Couriers : sending[c] # <<>>}

EntrancesInit ==
  /\ shuffle \in Shuffles /\ known = FALSE /\ resend = FALSE /\ wired = FALSE
  /\ sending = [c \in Couriers |-> <<>>]
  /\ table = [k \in RowKeys |-> NoDoor]
  /\ inside = NoDoor /\ outside \in Doors
  /\ via = NoDoor /\ whole = FALSE /\ mixed = FALSE /\ upsets = 0

(***************************************************************************)
(* The client.                                                             *)
(***************************************************************************)

\* Connected: set_entrance_map, push_entrance_map.
ReceiveMap ==
  /\ ~known /\ known' = TRUE /\ resend' = TRUE
  /\ UNCHANGED <<shuffle, sending, wired, table, inside, outside, via, whole, mixed, upsets>>

\* Connected to another slot, with the save of that slot.
ReceiveOther ==
  /\ known /\ Upset /\ shuffle' \in Shuffles \ {shuffle} /\ resend' = TRUE
  /\ inside' = NoDoor /\ outside' \in Doors /\ via' = NoDoor /\ whole' = FALSE
  /\ mixed' = (mixed \/ Busy # {})
  /\ UNCHANGED <<known, sending, wired, table>>

\* push_entrance_map, from the handler of Connected or the replay after a hello.
PushMap(c) ==
  /\ resend /\ known /\ sending[c] = <<>> /\ resend' = FALSE
  /\ sending' = [sending EXCEPT ![c] = Chunks(Rows(shuffle))]
  /\ UNCHANGED <<shuffle, known, wired, table, inside, outside, via, whole, mixed, upsets>>

\* Never resets.
MergeOnly(t, chunk) ==
  [k \in RowKeys |->
     IF \E r \in chunk.rows : r.key = k THEN (CHOOSE r \in chunk.rows : r.key = k).to ELSE t[k]]

\* applyEntranceMap merges a row over the one with its key.
Merge(t, chunk) ==
  [k \in RowKeys |->
     IF \E r \in chunk.rows : r.key = k THEN (CHOOSE r \in chunk.rows : r.key = k).to
     ELSE IF chunk.reset THEN NoDoor ELSE t[k]]

SendChunk(c) ==
  /\ sending[c] # <<>>
  /\ sending' = [sending EXCEPT ![c] = Tail(@)]
  /\ table' = IF wired THEN Merge(table, Head(sending[c])) ELSE table
  /\ UNCHANGED <<shuffle, known, resend, wired, inside, outside, via, whole, mixed, upsets>>

Wire ==
  /\ ~wired /\ wired' = TRUE /\ resend' = TRUE
  /\ UNCHANGED <<shuffle, known, sending, table, inside, outside, via, whole, mixed, upsets>>

Unwire ==
  /\ wired /\ Upset /\ wired' = FALSE
  /\ UNCHANGED <<shuffle, known, sending, resend, table, inside, outside, via, whole, mixed>>

\* The game starts anew, outside.
Restart ==
  /\ Upset /\ wired' = FALSE
  /\ table' = [k \in RowKeys |-> NoDoor]
  /\ inside' = NoDoor /\ outside' \in Doors /\ via' = NoDoor /\ whole' = FALSE
  /\ UNCHANGED <<shuffle, known, sending, resend, mixed>>

(***************************************************************************)
(* The doors: processEntranceRemap, lookupEntranceRemap.                   *)
(***************************************************************************)

Settled == wired /\ known /\ ~resend /\ Busy = {}

\* The stage the door leads to is the key of its entry row; that of an overworld
\* is the key of none, so outside an interior there is no exit row to match.
Enter ==
  /\ inside = NoDoor
  /\ inside' = IF table[<<"entry", outside>>] # NoDoor THEN table[<<"entry", outside>>] ELSE outside
  /\ via' = outside /\ outside' = NoDoor /\ whole' = Settled
  /\ UNCHANGED <<shuffle, known, sending, resend, wired, table, mixed, upsets>>

\* Where a pipe out of interior i leads with table t; returnPrevStage out of the
\* others is left alone and leads back.
WayOut(i, t) ==
  IF i \in Pipeless THEN via
  ELSE IF t[<<"exit", i>>] # NoDoor THEN t[<<"exit", i>>] ELSE i

Leave ==
  /\ inside # NoDoor
  /\ outside' = WayOut(inside, table)
  /\ inside' = NoDoor /\ via' = NoDoor /\ whole' = FALSE
  /\ UNCHANGED <<shuffle, known, sending, resend, wired, table, mixed, upsets>>

EntrancesNext ==
  \/ ReceiveMap \/ ReceiveOther \/ (\E c \in Couriers : PushMap(c) \/ SendChunk(c))
  \/ Wire \/ Unwire \/ Restart \/ Enter \/ Leave

EntrancesSpec == EntrancesInit /\ [][EntrancesNext]_entranceVars

(***************************************************************************)
(* Properties.                                                             *)
(***************************************************************************)

EntrancesTypeOK ==
  /\ shuffle \in Shuffles
  /\ {known, resend, wired, whole, mixed} \subseteq BOOLEAN
  /\ \A c \in Couriers : \A i \in DOMAIN sending[c] :
       sending[c][i].reset \in BOOLEAN /\ sending[c][i].rows \subseteq [key : RowKeys, to : Doors]
  /\ table \in [RowKeys -> Doors \cup {NoDoor}]
  /\ {inside, outside, via} \subseteq Doors \cup {NoDoor}
  /\ upsets \in 0 .. MaxUpsets

\* Whoever went into an interior when the map had been sent comes out at the door
\* he went in by, whatever was sent again meanwhile, once all of it has arrived
\* (entrance_logic.py:361).  Not so through the door of a subarea that has no exit
\* of its own: nothing says where its outside is.  Pushes of two maps that overlap
\* leave rows of both behind.
RoundTrip ==
  (inside # NoDoor /\ whole /\ Settled /\ ~mixed /\ (via \in Pipeless => inside \in Pipeless \cup {via}))
    => WayOut(inside, table) = via
=============================================================================
