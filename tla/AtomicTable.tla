------------------------------ MODULE AtomicTable ------------------------------
(***************************************************************************)
(* What the frame thread is promised of the tables the socket worker keeps *)
(* for it in ApState (abilities, entrance map, Talkatoo pools, shop        *)
(* labels): a lookup answers from one whole table, one that was current    *)
(* when it was asked or came later, or says that it cannot tell.           *)
(***************************************************************************)
CONSTANTS
  Tables,      \* the contents a table may have
  CannotTell   \* the answer that promises nothing

VARIABLES
  table,    \* the table last written
  asking,   \* a lookup is under way
  since,    \* the tables that were current since it began
  answer    \* what the last lookup returned

atomicVars == <<table, asking, since, answer>>

AtomicInit ==
  /\ table \in Tables
  /\ asking = FALSE /\ since = {} /\ answer = CannotTell

Publish(t) ==
  /\ table' = t
  /\ since' = IF asking THEN since \cup {t} ELSE since
  /\ UNCHANGED <<asking, answer>>

Ask ==
  /\ ~asking
  /\ asking' = TRUE /\ since' = {table} /\ answer' = CannotTell
  /\ UNCHANGED table

Reply ==
  /\ asking
  /\ answer' \in since \cup {CannotTell}
  /\ asking' = FALSE /\ since' = {}
  /\ UNCHANGED table

AtomicNext == (\E t \in Tables : Publish(t)) \/ Ask \/ Reply

AtomicSpec == AtomicInit /\ [][AtomicNext]_atomicVars
=============================================================================
