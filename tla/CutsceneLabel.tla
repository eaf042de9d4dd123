------------------------------ MODULE CutsceneLabel ------------------------------
(***************************************************************************)
(* The label in the cutscene of a moon.  A collected moon is reported as a *)
(* check with a sequence number (MoonGetHook.cpp, ApFrameBridge.cpp); the  *)
(* client answers with a label if its scout cache has the location         *)
(* (switch_server.py, context.py); the worker writes it into the one       *)
(* PendingMoonLabel and publishes its number last (ApState.cpp); every     *)
(* frame of the cutscene takes what is published and new to the pane       *)
(* (MoonLabelHook.cpp).  A moon blocked by Talkatoo has its label written  *)
(* by the frame thread itself.                                             *)
(*                                                                         *)
(* Moons are numbered as they are collected; a sequence number starts over *)
(* when the game does.  A label is here the number of its moon.            *)
(***************************************************************************)
EXTENDS Naturals, Sequences

CONSTANTS
  Vanilla,       \* no label: the pane shows the name the game has
  Garbled,       \* a text of two labels, or half of one
  MaxMoons,      \* bound: moons collected
  MaxDrops     \* bound: connections lost, restarts of the game

ASSUME CutsceneLabelAssumption ==
  /\ {MaxMoons, MaxDrops} \subseteq Nat /\ {Vanilla, Garbled} \cap Nat = {} /\ Vanilla # Garbled

VARIABLES
  \* the frame thread
  cutscene,     \* the moon whose cutscene runs, 0 for none
  cutSeq,       \* the number of its check
  pane,         \* TxtScenario
  nextSeq,      \* next_check_seq
  consumed,     \* label_last_consumed_seq
  \* PendingMoonLabel, between the threads
  text, published,
  tooLate,      \* deadline_ms is over
  \* the worker
  writing,      \* the label it writes, <<>> for none
  written,      \* the text is there, the number is not
  overrun,      \* the frame thread wrote its own meanwhile
  \* checks to the client, labels to the Switch
  attached, reports, replies,
  \* ---- history ----
  moons,
  tardy,        \* moons whose label came after their cutscene
  clashed,      \* both threads wrote at once, or a number is used again
  drops

frameVars   == <<cutscene, cutSeq, pane, nextSeq, consumed>>
pendingVars == <<text, published, tooLate>>
textVars  == <<writing, written, overrun>>
lineTables  == <<attached, reports, replies>>
labelVars   == <<frameVars, pendingVars, textVars, lineTables, moons, tardy, clashed, drops>>

LabelInit ==
  /\ cutscene = 0 /\ cutSeq = 0 /\ pane = Vanilla /\ nextSeq = 1 /\ consumed = 0
  /\ text = Vanilla /\ published = 0 /\ tooLate = FALSE
  /\ writing = <<>> /\ written = FALSE /\ overrun = FALSE
  /\ attached = FALSE /\ reports = <<>> /\ replies = <<>>
  /\ moons = 0 /\ tardy = {} /\ clashed = FALSE /\ drops = 0

(***************************************************************************)
(* The frame thread.                                                       *)
(***************************************************************************)

Play ==
  /\ cutscene = 0 /\ moons < MaxMoons
  /\ moons' = moons + 1 /\ cutscene' = moons + 1
  /\ cutSeq' = nextSeq /\ nextSeq' = nextSeq + 1 /\ pane' = Vanilla

\* moonGetHook, reportMoonChecked: the check waits in the ring for a connection; that of
\* a moon which is in locations_checked is not queued, though it has a number.
CollectMoon ==
  /\ Play
  /\ \/ reports' = Append(reports, [seq |-> nextSeq, of |-> moons + 1]) \/ UNCHANGED reports
  /\ UNCHANGED <<consumed, pendingVars, textVars, attached, replies, tardy, clashed, drops>>

\* moonGetHook with a moon Talkatoo has not named: "Blocked by Talkatoo!", no check.
CollectBlocked ==
  /\ Play
  /\ text' = moons + 1 /\ published' = nextSeq /\ tooLate' = FALSE
  /\ overrun' = (writing # <<>>) /\ clashed' = (clashed \/ writing # <<>>)
  /\ UNCHANGED <<consumed, writing, written, lineTables, tardy, drops>>

\* tryTakePendingMoonLabel, applyPendingLabel.
Take ==
  /\ consumed' = IF published = 0 THEN consumed ELSE published
  /\ pane' = IF published \in {0, consumed} \/ tooLate \/ text = Vanilla THEN pane ELSE text

\* exeDemoGet, exeDemoGetStart.
CutsceneFrame ==
  /\ cutscene # 0 /\ Take
  /\ cutscene' \in {cutscene, 0}
  /\ UNCHANGED <<cutSeq, nextSeq, pendingVars, textVars, lineTables, moons, tardy, clashed, drops>>

\* A cutscene takes a label within valid_for_ms.
LabelExpires ==
  /\ cutscene = 0 /\ published # 0 /\ ~tooLate /\ tooLate' = TRUE
  /\ UNCHANGED <<frameVars, text, published, textVars, lineTables, moons, tardy, clashed, drops>>

(***************************************************************************)
(* The worker: setPendingMoonLabel.                                        *)
(***************************************************************************)

Stray(m) == IF m = cutscene THEN tardy ELSE tardy \cup {m}

\* Publishes before the text is there.
BeginPublished ==
  /\ writing = <<>> /\ replies # <<>>
  /\ writing' = <<Head(replies)>> /\ replies' = Tail(replies)
  /\ text' = Garbled /\ published' = Head(replies).seq /\ written' = FALSE /\ overrun' = FALSE
  /\ UNCHANGED <<frameVars, tooLate, attached, reports, moons, tardy, clashed, drops>>

BeginText ==
  /\ writing = <<>> /\ replies # <<>>
  /\ writing' = <<Head(replies)>> /\ replies' = Tail(replies)
  /\ text' = Garbled /\ written' = FALSE /\ overrun' = FALSE
  /\ UNCHANGED <<frameVars, published, tooLate, attached, reports, moons, tardy, clashed, drops>>

EndText ==
  /\ writing # <<>> /\ ~written /\ written' = TRUE
  /\ text' = IF overrun THEN Garbled ELSE writing[1].of
  /\ tooLate' = FALSE /\ tardy' = Stray(writing[1].of)
  /\ UNCHANGED <<frameVars, published, writing, overrun, lineTables, moons, clashed, drops>>

Publish ==
  /\ writing # <<>> /\ written
  /\ published' = writing[1].seq /\ writing' = <<>> /\ tardy' = Stray(writing[1].of)
  /\ UNCHANGED <<frameVars, text, tooLate, written, overrun, lineTables, moons, clashed, drops>>

(***************************************************************************)
(* The client and the connection.                                          *)
(***************************************************************************)

\* compose_moon_label_for_location: none when the slot shows no labels, or the scout
\* cache has no such location, or its item no name.
ComposeLabel(check) == {<<check>>, <<>>}

\* _dispatch_check: the label, if any, goes to the Switch that is connected by then.
AnswerCheck ==
  /\ attached /\ reports # <<>> /\ reports' = Tail(reports)
  /\ \E label \in ComposeLabel(Head(reports)) : replies' = replies \o label
  /\ UNCHANGED <<frameVars, pendingVars, textVars, attached, moons, tardy, clashed, drops>>

Link ==
  /\ ~attached /\ attached' = TRUE
  /\ UNCHANGED <<frameVars, pendingVars, textVars, reports, replies, moons, tardy, clashed, drops>>

\* Of the checks, those already sent are lost.
Unlink ==
  /\ attached /\ drops < MaxDrops /\ drops' = drops + 1
  /\ attached' = FALSE /\ replies' = <<>>
  /\ \E n \in 0 .. Len(reports) : reports' = SubSeq(reports, n + 1, Len(reports))
  /\ UNCHANGED <<frameVars, pendingVars, textVars, moons, tardy, clashed>>

\* The game starts anew; the client may yet answer the check it works on.
RestartLabels ==
  /\ drops < MaxDrops /\ drops' = drops + 1
  /\ cutscene' = 0 /\ cutSeq' = 0 /\ pane' = Vanilla /\ nextSeq' = 1 /\ consumed' = 0
  /\ text' = Vanilla /\ published' = 0 /\ tooLate' = FALSE
  /\ writing' = <<>> /\ written' = FALSE /\ overrun' = FALSE
  /\ attached' = FALSE /\ replies' = <<>>
  /\ \/ attached /\ reports # <<>> /\ reports' = <<Head(reports)>> /\ clashed' = TRUE
     \/ reports' = <<>> /\ UNCHANGED clashed
  /\ UNCHANGED <<moons, tardy>>

LabelNext ==
  \/ CollectMoon \/ CollectBlocked \/ CutsceneFrame \/ LabelExpires \/ BeginText \/ EndText
  \/ Publish \/ AnswerCheck \/ Link \/ Unlink \/ RestartLabels

LabelSpec == LabelInit /\ [][LabelNext]_labelVars

LabelTypeOK ==
  /\ {cutscene, cutSeq, nextSeq, consumed, published, moons, drops} \subseteq Nat
  /\ {pane, text} \subseteq Nat \cup {Vanilla, Garbled}
  /\ {reports, replies, writing} \subseteq Seq([seq : Nat, of : Nat])
  /\ {tooLate, written, overrun, attached, clashed} \subseteq BOOLEAN
  /\ tardy \subseteq 1 .. moons

\* The cutscene of a moon shows no label but its own, unless the other came after its
\* cutscene (the number of the check is not compared with that of this moon,
\* protocol.py:722).  Once the worker is done and the frame has looked, no half
\* written text stays on the pane (ApState.cpp:531), and the label that answers this
\* check is shown.  Not so when both threads write at once, or a check of before a
\* restart is answered after it.
LabelOwn ==
  cutscene # 0 /\ ~clashed =>
    /\ pane \in {Vanilla, Garbled, cutscene} \cup tardy
    /\ writing = <<>> /\ consumed = published =>
         /\ pane # Garbled
         /\ text = cutscene /\ published = cutSeq => pane \in {cutscene} \cup tardy
=============================================================================
