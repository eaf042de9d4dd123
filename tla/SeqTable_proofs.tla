---------------------------- MODULE SeqTable_proofs ----------------------------
(***************************************************************************)
(* Proofs about SeqTable, for tables of any words and values, any number   *)
(* of writes and of attempts: the sequence lock implements AtomicTable.    *)
(***************************************************************************)
EXTENDS SeqTable, TLAPS

\* Outside a write the words are the table last written and the number is even;
\* in a write every word not left is the new one, and the number turns odd
\* when the mark is seen.
WriterInv ==
  /\ writer = "idle" => words = latest /\ seq % 2 = 0
  /\ writer = "marking" =>
       /\ seq % 2 = 0 /\ seq < 2 * MaxWrites
       /\ \A w \in left : words[w] = latest[w]
  /\ writer = "writing" => seq % 2 = 1

\* A lookup remembers the table it began with; both its numbers are past ones.
ReaderInv ==
  /\ reader # "idle" => latest \in seen
  /\ Lookup => s0 % 2 = 0 /\ s0 <= seq /\ tries > 0
  /\ reader = "closing" => s0 <= s1 /\ s1 <= seq

\* While the first number still stands, and no word overtook a mark, the words copied
\* are those of the table last written, and no other can have been changed.
CopiedInv ==
  Lookup /\ ~doubt /\ s0 = seq =>
    /\ \A w \in copied : got[w] = latest[w]
    /\ writer = "marking" => \A w \in Words : w \in left \/ w \in copied

\* Two equal numbers: what was copied is of one table that was current meanwhile.
ClosingInv ==
  reader = "closing" /\ ~doubt /\ s0 = s1 =>
    \E t \in seen : \A w \in copied : got[w] = t[w]

SeqInv == SeqTypeOK /\ WriterInv /\ ReaderInv /\ CopiedInv /\ ClosingInv

\* The numbers of a write: even, odd, even.
LEMMA Parity ==
  /\ \A n \in Nat : n % 2 = 0 => (n + 1) % 2 = 1
  /\ \A n \in Nat : n % 2 = 1 => (n + 1) % 2 = 0
  /\ \A n \in Nat : n % 2 = 0 \/ n % 2 = 1
  BY SMT

LEMMA SeqInitial == SeqInit => SeqInv
<1> SUFFICES ASSUME SeqInit PROVE SeqInv
  OBVIOUS
<1>1. SeqTypeOK
  <2>1. seq \in 0 .. 2 * MaxWrites /\ tries \in 0 .. Attempts
        /\ s0 \in 0 .. 2 * MaxWrites /\ s1 \in 0 .. 2 * MaxWrites
    BY SeqTableAssumption DEF SeqInit
  <2>2. words \in Tables /\ new \in Tables /\ got \in Tables /\ latest \in Tables
    BY DEF SeqInit
  <2> QED
    BY <2>1, <2>2 DEF SeqInit, SeqTypeOK
<1>2. WriterInv /\ ReaderInv /\ CopiedInv /\ ClosingInv
  BY DEF SeqInit, WriterInv, ReaderInv, CopiedInv, ClosingInv, Lookup
<1> QED
  BY <1>1, <1>2 DEF SeqInv

(***************************************************************************)
(* The worker.                                                             *)
(***************************************************************************)

LEMMA StartWriteInv == ASSUME SeqInv, StartWrite PROVE SeqInv'
<1> USE SeqTableAssumption DEF SeqInv, StartWrite, readerVars
<1>1. SeqTypeOK'
  BY DEF SeqTypeOK
<1>2. WriterInv'
  BY DEF WriterInv, SeqTypeOK
<1>3. ReaderInv' /\ ClosingInv'
  BY DEF ReaderInv, ClosingInv, Lookup
<1>4. CopiedInv'
  BY DEF CopiedInv, Lookup
<1> QED
  BY <1>1, <1>2, <1>3, <1>4

\* From here on the first number of a lookup no longer stands.
LEMMA MarkVisibleInv == ASSUME SeqInv, MarkVisible PROVE SeqInv'
<1> USE SeqTableAssumption DEF SeqInv, MarkVisible, readerVars
<1>1. SeqTypeOK'
  BY DEF SeqTypeOK, WriterInv
<1>2. WriterInv'
  BY Parity DEF WriterInv, SeqTypeOK
<1>3. ReaderInv' /\ ClosingInv'
  BY DEF ReaderInv, ClosingInv, Lookup, SeqTypeOK
<1>4. CopiedInv'
  BY DEF CopiedInv, ReaderInv, Lookup, SeqTypeOK
<1> QED
  BY <1>1, <1>2, <1>3, <1>4

\* A word written ahead of the mark was copied before, or the lookup is in doubt.
LEMMA WriteWordInv == ASSUME SeqInv, NEW w \in Words, WriteWord(w) PROVE SeqInv'
<1> USE SeqTableAssumption DEF SeqInv, WriteWord, readerVars
<1>1. SeqTypeOK'
  BY DEF SeqTypeOK, Tables
<1>2. WriterInv'
  BY DEF WriterInv, SeqTypeOK, Tables
<1>3. ReaderInv' /\ ClosingInv'
  BY DEF ReaderInv, ClosingInv, Lookup, SeqTypeOK
<1>4. CopiedInv'
  <2>1. CASE writer = "marking"
    BY <2>1 DEF CopiedInv, Lookup, SeqTypeOK
  <2>2. CASE writer = "writing"
    BY <2>2 DEF CopiedInv, Lookup, SeqTypeOK, WriterInv, ReaderInv
  <2> QED
    BY <2>1, <2>2
<1> QED
  BY <1>1, <1>2, <1>3, <1>4

LEMMA EndWriteInv == ASSUME SeqInv, EndWrite PROVE SeqInv'
<1> USE SeqTableAssumption DEF SeqInv, EndWrite, readerVars
<1>1. seq + 1 <= 2 * MaxWrites
  BY DEF SeqTypeOK, WriterInv
<1>2. SeqTypeOK'
  BY <1>1 DEF SeqTypeOK
<1>3. WriterInv'
  BY Parity DEF WriterInv, SeqTypeOK
<1>4. ReaderInv'
  BY DEF ReaderInv, Lookup, SeqTypeOK
<1>5. ClosingInv'
  BY DEF ClosingInv
<1>6. CopiedInv'
  BY DEF CopiedInv, ReaderInv, Lookup, SeqTypeOK
<1> QED
  BY <1>2, <1>3, <1>4, <1>5, <1>6

(***************************************************************************)
(* The frame thread.                                                       *)
(***************************************************************************)

LEMMA BeginLookupInv == ASSUME SeqInv, BeginLookup PROVE SeqInv'
<1> USE SeqTableAssumption DEF SeqInv, BeginLookup, writerVars
<1>1. SeqTypeOK'
  <2>1. tries' \in 0 .. Attempts
    OBVIOUS
  <2>2. seen' \subseteq Tables
    BY DEF SeqTypeOK
  <2> QED
    BY <2>1, <2>2 DEF SeqTypeOK
<1>2. WriterInv' /\ ReaderInv' /\ CopiedInv' /\ ClosingInv'
  BY DEF WriterInv, ReaderInv, CopiedInv, ClosingInv, Lookup
<1> QED
  BY <1>1, <1>2

LEMMA LoadFirstInv == ASSUME SeqInv, LoadFirst PROVE SeqInv'
<1> USE SeqTableAssumption DEF SeqInv, LoadFirst, writerVars
<1>1. SeqTypeOK'
  <2>1. tries' \in 0 .. Attempts
    BY DEF SeqTypeOK
  <2>2. doubt' \in BOOLEAN
    BY DEF SeqTypeOK, Early
  <2>3. reader' \in {"idle", "first", "copying", "closing"} /\ copied' \subseteq Words
    BY DEF SeqTypeOK
  <2> QED
    BY <2>1, <2>2, <2>3 DEF SeqTypeOK
<1>2. WriterInv' /\ ClosingInv'
  BY DEF WriterInv, ClosingInv
<1>3. ReaderInv'
  BY Parity DEF ReaderInv, Lookup, SeqTypeOK
<1>4. CopiedInv'
  BY DEF CopiedInv, Lookup, Early
<1> QED
  BY <1>1, <1>2, <1>3, <1>4

\* A word read while the first number stands is that of the table last written.
LEMMA ReadWordInv == ASSUME SeqInv, NEW w \in Words, ReadWord(w) PROVE SeqInv'
<1> USE SeqTableAssumption DEF SeqInv, ReadWord, writerVars
<1>1. SeqTypeOK'
  BY DEF SeqTypeOK, Tables, Early
<1>2. WriterInv' /\ ReaderInv'
  BY DEF WriterInv, ReaderInv, Lookup
<1>3. ASSUME ~doubt', s0 = seq PROVE words[w] = latest[w]
  <2>1. Lookup /\ ~doubt /\ w \notin copied
    BY <1>3
  <2>2. writer # "writing"
    BY <1>3, <2>1 DEF WriterInv, ReaderInv
  <2> QED
    BY <1>3, <2>1, <2>2 DEF WriterInv, CopiedInv, SeqTypeOK
<1>4. got' = [got EXCEPT ![w] = words[w]] /\ got \in [Words -> Vals] /\ copied' = copied \cup {w}
  BY DEF SeqTypeOK, Tables
<1>5. CopiedInv'
  BY <1>3, <1>4 DEF CopiedInv, Lookup, SeqTypeOK
<1>6. ClosingInv'
  <2> SUFFICES ASSUME reader = "closing", ~doubt', s0 = s1
               PROVE  \E t \in seen : \A v \in copied' : got'[v] = t[v]
    BY DEF ClosingInv
  <2>1. ~doubt /\ seq = s1
    BY DEF Lookup
  <2>2. \A v \in copied' : got'[v] = latest[v]
    BY <1>3, <1>4, <2>1 DEF CopiedInv, Lookup, SeqTypeOK
  <2>3. latest \in seen
    BY DEF ReaderInv
  <2> QED
    BY <2>2, <2>3
<1> QED
  BY <1>1, <1>2, <1>5, <1>6

LEMMA LoadSecondInv == ASSUME SeqInv, LoadSecond PROVE SeqInv'
<1> USE SeqTableAssumption DEF SeqInv, LoadSecond, writerVars
<1>1. SeqTypeOK'
  BY DEF SeqTypeOK
<1>2. WriterInv' /\ ReaderInv'
  BY DEF WriterInv, ReaderInv, Lookup, SeqTypeOK
<1>3. CopiedInv'
  BY DEF CopiedInv, Lookup
<1>4. ClosingInv'
  BY DEF ClosingInv, CopiedInv, ReaderInv, Lookup
<1> QED
  BY <1>1, <1>2, <1>3, <1>4

\* What two equal numbers let through is a table of seen.
LEMMA KeptIsSeen == ASSUME SeqInv, Keep, ~doubt PROVE got \in seen
<1>1. PICK t \in seen : \A w \in Words : got[w] = t[w]
  BY DEF Keep, SeqInv, ClosingInv
<1>2. got \in [Words -> Vals] /\ t \in [Words -> Vals]
  BY DEF SeqInv, SeqTypeOK, Tables
<1>3. got = t
  BY <1>1, <1>2
<1> QED
  BY <1>3

LEMMA LookupEndsInv == ASSUME SeqInv, Keep \/ Torn \/ GiveUp PROVE SeqInv'
<1> USE SeqTableAssumption DEF SeqInv, writerVars
<1>1. CASE Keep
  BY <1>1 DEF Keep, SeqTypeOK, WriterInv, ReaderInv, CopiedInv, ClosingInv, Lookup
<1>2. CASE Torn
  <2>1. tries - 1 \in 0 .. Attempts
    BY <1>2 DEF Torn, SeqTypeOK, ReaderInv, Lookup
  <2> QED
    BY <1>2, <2>1 DEF Torn, SeqTypeOK, WriterInv, ReaderInv, CopiedInv, ClosingInv, Lookup
<1>3. CASE GiveUp
  BY <1>3 DEF GiveUp, SeqTypeOK, WriterInv, ReaderInv, CopiedInv, ClosingInv, Lookup
<1> QED
  BY <1>1, <1>2, <1>3

\* The invariant of the sequence lock holds in every reachable state.
THEOREM SeqInvariance == SeqSpec => []SeqInv
<1>1. SeqInv /\ [SeqNext]_seqVars => SeqInv'
  <2> SUFFICES ASSUME SeqInv, [SeqNext]_seqVars PROVE SeqInv'
    OBVIOUS
  <2>1. CASE SeqNext
    BY <2>1, StartWriteInv, MarkVisibleInv, WriteWordInv, EndWriteInv, BeginLookupInv,
       LoadFirstInv, ReadWordInv, LoadSecondInv, LookupEndsInv DEF SeqNext
  <2>2. CASE UNCHANGED seqVars
    BY <2>2 DEF seqVars, SeqInv, SeqTypeOK, WriterInv, ReaderInv, CopiedInv, ClosingInv, Lookup
  <2> QED
    BY <2>1, <2>2
<1> QED
  BY SeqInitial, <1>1, PTL DEF SeqSpec

\* The words of a table, the numbers and the copy keep their types; the number stays
\* within the bound on writes.
THEOREM SeqTypeCorrect == SeqSpec => []SeqTypeOK
<1>1. SeqInv => SeqTypeOK
  BY DEF SeqInv
<1> QED
  BY <1>1, SeqInvariance, PTL

(***************************************************************************)
(* The refinement.                                                         *)
(***************************************************************************)

\* Every step of the lock is a publication, a question, an answer, or none of these.
LEMMA SeqStep ==
  ASSUME SeqInv, [SeqNext]_seqVars
  PROVE  [Atomic!AtomicNext]_(Atomic!atomicVars)
<1> USE DEF SeqInv, Atomic!AtomicNext, Atomic!atomicVars
<1>1. CASE StartWrite
  BY <1>1 DEF StartWrite, readerVars
<1>2. CASE MarkVisible
  BY <1>2 DEF MarkVisible, readerVars
<1>3. ASSUME NEW w \in Words, WriteWord(w) PROVE [Atomic!AtomicNext]_(Atomic!atomicVars)
  BY <1>3 DEF WriteWord, readerVars, Lookup
<1>4. CASE EndWrite
  <2>1. words \in Tables
    BY DEF SeqTypeOK
  <2>2. Atomic!Publish(words)
    BY <1>4 DEF EndWrite, readerVars, Atomic!Publish
  <2> QED
    BY <2>1, <2>2
<1>5. CASE BeginLookup
  BY <1>5 DEF BeginLookup, writerVars, Atomic!Ask
<1>6. CASE LoadFirst
  BY <1>6 DEF LoadFirst, writerVars
<1>7. ASSUME NEW w \in Words, ReadWord(w) PROVE [Atomic!AtomicNext]_(Atomic!atomicVars)
  BY <1>7 DEF ReadWord, Lookup, writerVars
<1>8. CASE LoadSecond
  BY <1>8 DEF LoadSecond, writerVars
<1>9. CASE Keep
  <2>1. ~doubt => got \in seen
    BY <1>9, KeptIsSeen
  <2>2. Atomic!Reply
    BY <1>9, <2>1 DEF Keep, writerVars, Atomic!Reply
  <2> QED
    BY <2>2
<1>10. CASE Torn
  BY <1>10 DEF Torn, writerVars
<1>11. CASE GiveUp
  BY <1>11 DEF GiveUp, writerVars, Atomic!Reply
<1>12. CASE UNCHANGED seqVars
  BY <1>12 DEF seqVars
<1> QED
  BY <1>1, <1>2, <1>3, <1>4, <1>5, <1>6, <1>7, <1>8, <1>9, <1>10, <1>11, <1>12 DEF SeqNext

\* The sequence lock implements AtomicTable (ApState.cpp, the readers and writers of the
\* tables shared by the worker and the frame thread): no lookup returns a mixture of two
\* writes, or a table replaced before it was asked, unless a word overtook a mark.
THEOREM SeqImplementsAtomic == SeqSpec => LookupsAreAtomic
<1>1. SeqInit => Atomic!AtomicInit
  BY DEF SeqInit, Atomic!AtomicInit
<1>2. SeqInv /\ [SeqNext]_seqVars => [Atomic!AtomicNext]_(Atomic!atomicVars)
  BY SeqStep
<1> QED
  BY <1>1, <1>2, SeqInvariance, PTL DEF SeqSpec, LookupsAreAtomic, Atomic!AtomicSpec
=============================================================================
