-------------------------------- MODULE SeqTable --------------------------------
(***************************************************************************)
(* The sequence lock of the tables in ApState.cpp.  The worker makes seq   *)
(* odd, writes the words, makes seq even again; the frame thread loads     *)
(* seq, copies the words, loads seq again and keeps what it copied if both *)
(* loads gave the same even number.                                        *)
(*                                                                         *)
(* seq is stored with release and loaded with acquire order; the words are *)
(* plain memory and there is no fence.  A release store holds back what is *)
(* before it, not what follows, and an acquire load what follows it, not   *)
(* what is before.  So a word may reach memory before the odd number does  *)
(* (WriteWord while "marking") and be read after the second load (ReadWord *)
(* while "closing").  lookupShopLabel does the latter by its program text: *)
(* it returns a pointer into the table, which its caller reads.  doubt     *)
(* records that such a word, read or written too soon or too late, went    *)
(* into the lookup under way: the code promises nothing then.              *)
(***************************************************************************)
EXTENDS Integers

CONSTANTS
  Words, Vals,   \* the words of a table, what a word may hold
  Attempts,      \* 8 for abilities and entrances, 3 for pools and shop labels
  MaxWrites,     \* bound: writes of the table
  NoTable        \* no answer, or a contended one

ASSUME SeqTableAssumption ==
  /\ Attempts \in Nat /\ MaxWrites \in Nat
  /\ NoTable \notin [Words -> Vals]

VARIABLES
  seq, words,   \* memory
  writer,       \* "idle", "marking" (odd number stored, not yet seen), "writing"
  new, left,    \* the table it writes, the words still to be written
  reader,       \* "idle", "first" (before the first load), "copying", "closing"
  tries,        \* attempts left
  s0, s1,       \* the two loads
  copied, got,  \* the words copied so far, and what was in them
  result,       \* what the lookup returned
  \* ---- history ----
  latest,      \* the table last written in full
  seen,         \* those that were current since the lookup began
  doubt

seqVars    == <<seq, words, writer, new, left, reader, tries, s0, s1, copied, got, result,
                latest, seen, doubt>>
writerVars == <<writer, new, left, words, seq>>
readerVars == <<reader, tries, s0, s1, copied, got, result>>

Tables == [Words -> Vals]

SeqInit ==
  /\ words \in Tables /\ latest = words
  /\ seq = 0 /\ writer = "idle" /\ new = words /\ left = {}
  /\ reader = "idle" /\ tries = 0 /\ s0 = 0 /\ s1 = 0
  /\ copied = {} /\ got = words /\ result = NoTable
  /\ seen = {} /\ doubt = FALSE

(***************************************************************************)
(* The worker: applyAbilityState, applyEntranceMap, clearEntranceMap,      *)
(* writeTalkatooKingdom, clearTalkatoo, applyShopLabels.                   *)
(***************************************************************************)

Lookup == reader \in {"copying", "closing"}

\* A word is in memory whose mark is not.
Early == writer = "marking" /\ left # Words

StartWrite ==
  /\ writer = "idle" /\ seq < 2 * MaxWrites
  /\ writer' = "marking" /\ new' \in Tables /\ left' = Words
  /\ UNCHANGED <<seq, words, readerVars, latest, seen, doubt>>

\* The odd number becomes visible.
MarkVisible ==
  /\ writer = "marking"
  /\ writer' = "writing" /\ seq' = seq + 1
  /\ UNCHANGED <<words, new, left, readerVars, latest, seen, doubt>>

WriteWord(w) ==
  /\ writer \in {"marking", "writing"} /\ w \in left
  /\ words' = [words EXCEPT ![w] = new[w]]
  /\ left' = left \ {w}
  /\ doubt' = (doubt \/ (writer = "marking" /\ Lookup /\ w \notin copied))
  /\ UNCHANGED <<seq, writer, new, readerVars, latest, seen>>

\* The release store of the even number comes after every word.
EndWrite ==
  /\ writer = "writing" /\ left = {}
  /\ writer' = "idle" /\ seq' = seq + 1
  /\ latest' = words
  /\ seen' = IF reader # "idle" THEN seen \cup {words} ELSE seen
  /\ UNCHANGED <<words, new, left, readerVars, doubt>>

(***************************************************************************)
(* The frame thread: abilityCount, lookupEntranceRemap,                    *)
(* snapshotTalkatooKingdom, lookupShopLabel.                               *)
(***************************************************************************)

BeginLookup ==
  /\ reader = "idle"
  /\ reader' = "first" /\ tries' = Attempts /\ result' = NoTable
  /\ seen' = {latest} /\ doubt' = FALSE
  /\ UNCHANGED <<writerVars, s0, s1, copied, got, latest>>

\* Takes an odd number for a stable one.
LoadFirstOdd ==
  /\ reader = "first" /\ tries > 0
  /\ s0' = seq /\ reader' = "copying" /\ copied' = {}
  /\ doubt' = Early
  /\ UNCHANGED <<writerVars, tries, s1, got, result, latest, seen>>

\* An odd number costs an attempt.
LoadFirst ==
  /\ reader = "first" /\ tries > 0
  /\ s0' = seq
  /\ IF seq % 2 = 1
     THEN /\ tries' = tries - 1 /\ UNCHANGED <<reader, copied, doubt>>
     ELSE /\ reader' = "copying" /\ copied' = {}
          /\ doubt' = Early
          /\ UNCHANGED tries
  /\ UNCHANGED <<writerVars, s1, got, result, latest, seen>>

ReadWord(w) ==
  /\ Lookup /\ w \notin copied
  /\ copied' = copied \cup {w} /\ got' = [got EXCEPT ![w] = words[w]]
  /\ doubt' = (doubt \/ (reader = "closing" /\ (seq # s1 \/ Early)))
  /\ UNCHANGED <<writerVars, reader, tries, s0, s1, result, latest, seen>>

LoadSecond ==
  /\ reader = "copying"
  /\ reader' = "closing" /\ s1' = seq
  /\ UNCHANGED <<writerVars, tries, s0, copied, got, result, latest, seen, doubt>>

\* The same number twice: this is the answer.
Keep ==
  /\ reader = "closing" /\ copied = Words /\ s0 = s1
  /\ reader' = "idle" /\ result' = got /\ seen' = {}
  /\ UNCHANGED <<writerVars, tries, s0, s1, copied, got, latest, doubt>>

Torn ==
  /\ reader = "closing" /\ copied = Words /\ s0 # s1
  /\ reader' = "first" /\ tries' = tries - 1 /\ doubt' = FALSE
  /\ UNCHANGED <<writerVars, s0, s1, copied, got, result, latest, seen>>

\* Out of attempts: no table (false, 0, a null pointer); abilityCount returns
\* what it read last, which is as good as no answer.
GiveUp ==
  /\ reader = "first" /\ tries = 0
  /\ reader' = "idle" /\ result' = NoTable /\ seen' = {}
  /\ UNCHANGED <<writerVars, tries, s0, s1, copied, got, latest, doubt>>

SeqNext ==
  \/ StartWrite \/ MarkVisible \/ (\E w \in Words : WriteWord(w)) \/ EndWrite
  \/ BeginLookup \/ LoadFirst \/ (\E w \in Words : ReadWord(w))
  \/ LoadSecond \/ Keep \/ Torn \/ GiveUp

SeqSpec == SeqInit /\ [][SeqNext]_seqVars

(***************************************************************************)
(* Properties.                                                             *)
(***************************************************************************)

SeqTypeOK ==
  /\ seq \in 0 .. 2 * MaxWrites /\ words \in Tables
  /\ writer \in {"idle", "marking", "writing"} /\ new \in Tables /\ left \subseteq Words
  /\ reader \in {"idle", "first", "copying", "closing"} /\ tries \in 0 .. Attempts
  /\ s0 \in 0 .. 2 * MaxWrites /\ s1 \in 0 .. 2 * MaxWrites
  /\ copied \subseteq Words /\ got \in Tables /\ result \in Tables \cup {NoTable}
  /\ latest \in Tables /\ seen \subseteq Tables /\ doubt \in BOOLEAN

Atomic == INSTANCE AtomicTable WITH
  CannotTell <- NoTable,
  table  <- latest,
  asking <- reader # "idle",
  since  <- seen,
  answer <- IF reader = "idle" /\ ~doubt THEN result ELSE NoTable

\* The sequence lock keeps the promise of AtomicTable whenever no word overtook a
\* mark: a lookup never mixes the words of two writes, and never returns a table
\* that was already replaced when it was asked (ApState.cpp, readers and writers
\* of ability_table, entrance_remap, talkatoo_pools and shop_labels).
LookupsAreAtomic == Atomic!AtomicSpec
=============================================================================
