------------------------------ MODULE SetupWizard ------------------------------
(***************************************************************************)
(* The pages of the setup wizard that do the work (_setup/wizard.py) and   *)
(* the command line that does the same without pages                       *)
(* (_setup/wizard_cli.py, run_pipeline).                                   *)
(*                                                                         *)
(* Entering the extract or the build page always starts a worker thread;   *)
(* the page does not wait for one that still runs from an earlier visit.   *)
(* A worker never touches a button: it posts an event to the main thread,  *)
(* which may be handled when the user has left the page, or come back.     *)
(*                                                                         *)
(* What a worker's scripts do inside is in MapExtraction and BundledTree;  *)
(* here they leave tables that pass the hash check or not, and a mod that  *)
(* is whole or not.                                                        *)
(***************************************************************************)
EXTENDS Naturals, FiniteSets

CONSTANTS
  MaxWorkers,       \* bound: worker threads ever started
  MaxStepAttempts   \* MAX_STEP_ATTEMPTS

ASSUME SetupWizardAssumption ==
  /\ MaxWorkers \in Nat /\ MaxStepAttempts \in Nat \ {0}

Workers   == 1 .. MaxWorkers
WorkPages == {"extract", "build"}
Pages     == WorkPages \cup {"nsp", "deploy", "done"}
Phases    == {"probe", "install", "extract", "build", "deploy"}
\* DEPLOY_TARGETS: the default, which copies nothing; the others are all a folder.
Targets   == {"none", "folder"}
\* The places of the phases in run_pipeline.
PhaseOrder == [probe |-> 1, install |-> 2, extract |-> 3, build |-> 4, deploy |-> 5]

VARIABLES
  at,          \* the page shown
  nextOn,      \* the Next buttons of the two pages
  retryOn,     \* and their Retry buttons
  attempts,    \* attempt_count
  worker,      \* the workers: page, and where they are
  dumpThere,   \* dump_path: none, a file, a file that is gone
  tables,      \* the hashes of the tables match
  mod,         \* the build outputs: who made them, both are there
  installed,   \* what the last deploy copied
  cli,         \* run_pipeline: phases asked for and left, install_missing, where to
               \*   deploy, what the probe found, the outcome, its own build
  \* ---- history ----
  overlapped,  \* a page was entered while a worker of it was running
  died         \* an exception ended a worker of the page

wizVars  == <<at, nextOn, retryOn, attempts, worker, dumpThere, tables, mod, installed, cli,
              overlapped, died>>
buttons  == <<nextOn, retryOn>>
products == <<tables, mod, installed>>
history  == <<overlapped, died>>

NoMod   == [by |-> "nobody", whole |-> FALSE]
NoCli   == [asked |-> {}, left |-> {}, authorized |-> FALSE, target |-> "none",
            probe |-> "none", outcome |-> "none", built |-> FALSE]
Idle    == [page |-> "none", step |-> "idle"]
Unused  == {w \in Workers : worker[w] = Idle /\ \A v \in 1 .. w - 1 : worker[v] # Idle}

Gui == cli = NoCli

\* Either the pages are used or the command line, after an earlier setup or none.
WizInit ==
  /\ \/ cli = NoCli
     \/ \E asked \in SUBSET Phases, auth \in BOOLEAN, goal \in Targets :
          cli = [NoCli EXCEPT !.asked = asked, !.left = asked, !.authorized = auth,
                              !.target = goal, !.outcome = "running"]
  /\ at = "nsp" /\ nextOn = [p \in WorkPages |-> FALSE] /\ retryOn = nextOn
  /\ attempts = [p \in WorkPages |-> 0]
  /\ worker = [w \in Workers |-> Idle]
  /\ dumpThere \in {"none", "file", "gone"} /\ (Gui => dumpThere # "gone")
  /\ tables \in BOOLEAN
  /\ mod \in {NoMod, [by |-> "earlier", whole |-> TRUE]}
  /\ installed = NoMod
  /\ overlapped = [p \in WorkPages |-> FALSE] /\ died = overlapped

\* A thread of page p that has not ended, or whose event is not handled yet.
Running(p) == {w \in Workers : worker[w].page = p /\ worker[w].step # "gone"}

(***************************************************************************)
(* The pages, on the main thread.                                          *)
(***************************************************************************)

\* A start that leaves the buttons of an earlier visit as they are.
StartWorkerOnly(p, n) ==
  IF n >= MaxStepAttempts
  THEN /\ retryOn' = [retryOn EXCEPT ![p] = FALSE]
       /\ attempts' = [attempts EXCEPT ![p] = n]
       /\ UNCHANGED <<nextOn, worker>>
  ELSE \E w \in Unused :
       /\ attempts' = [attempts EXCEPT ![p] = n + 1]
       /\ worker' = [worker EXCEPT ![w] = [page |-> p, step |-> "start"]]
       /\ UNCHANGED buttons

\* start_worker, n attempts being counted.
StartWorker(p, n) ==
  IF n >= MaxStepAttempts
  THEN /\ retryOn' = [retryOn EXCEPT ![p] = FALSE]
       /\ attempts' = [attempts EXCEPT ![p] = n]
       /\ UNCHANGED <<nextOn, worker>>
  ELSE \E w \in Unused :
       /\ attempts' = [attempts EXCEPT ![p] = n + 1]
       /\ worker' = [worker EXCEPT ![w] = [page |-> p, step |-> "start"]]
       /\ nextOn' = [nextOn EXCEPT ![p] = FALSE]
       /\ retryOn' = [retryOn EXCEPT ![p] = FALSE]

\* on_pre_enter of the extract and the build page: _reset_and_start.
Enter(p) ==
  /\ at' = p /\ StartWorker(p, 0)
  /\ overlapped' = [overlapped EXCEPT ![p] = Running(p) # {}]
  /\ died' = [died EXCEPT ![p] = FALSE]

\* Browse on the dump page.
Browse ==
  /\ Gui /\ at = "nsp" /\ dumpThere' = "file"
  /\ UNCHANGED <<at, buttons, attempts, worker, products, cli, history>>

\* The picked file is moved away.
LoseDump ==
  /\ Gui /\ dumpThere = "file" /\ dumpThere' = "gone"
  /\ UNCHANGED <<at, buttons, attempts, worker, products, cli, history>>

\* Next of the dump page.  Canonical tables were there when the page was built.
ToExtract ==
  /\ Gui /\ at = "nsp" /\ (dumpThere # "none" \/ tables)
  /\ Enter("extract")
  /\ UNCHANGED <<dumpThere, products, cli>>

PressNext(p) ==
  /\ Gui /\ at = p /\ nextOn[p]
  /\ \/ p = "extract" /\ Enter("build")
     \/ p = "build" /\ at' = "deploy" /\ UNCHANGED <<buttons, attempts, worker, history>>
  /\ UNCHANGED <<dumpThere, products, cli>>

PressBack ==
  /\ Gui
  /\ \/ at = "extract" /\ at' = "nsp" /\ UNCHANGED <<buttons, attempts, worker, history>>
     \/ at = "build" /\ Enter("extract")
     \/ at = "deploy" /\ Enter("build")
  /\ UNCHANGED <<dumpThere, products, cli>>

Retry(p) ==
  /\ Gui /\ at = p /\ retryOn[p] /\ StartWorker(p, attempts[p])
  /\ UNCHANGED <<at, dumpThere, products, cli, history>>

\* do_deploy_and_continue: collect_build_outputs, a target that is there, run_deploy.
\* A copy that fails leaves part of what it copied.
DeployNow ==
  /\ Gui /\ at = "deploy"
  /\ \/ mod.whole /\ installed' = mod /\ at' = "done"
     \/ mod.whole /\ installed' \in {installed, [mod EXCEPT !.whole = FALSE]} /\ UNCHANGED at
     \/ ~mod.whole /\ UNCHANGED <<installed, at>>
  /\ UNCHANGED <<buttons, attempts, worker, dumpThere, tables, mod, cli, history>>

(***************************************************************************)
(* The workers.                                                            *)
(***************************************************************************)

Is(w, p, s) == worker[w] = [page |-> p, step |-> s]
Becomes(w, s) == worker' = [worker EXCEPT ![w].step = s]
main == <<at, buttons, attempts, dumpThere, cli, overlapped>>

\* run_in_worker of the extract page: tables that match are taken as they are; without
\* a dump it gives up; else run_extract, which overwrites the tables.
ExtractStarts(w) ==
  /\ Is(w, "extract", "start")
  /\ \/ tables /\ Becomes(w, "ok") /\ UNCHANGED products
     \/ ~tables /\ dumpThere # "file" /\ Becomes(w, "failed") /\ UNCHANGED products
     \/ ~tables /\ dumpThere = "file" /\ Becomes(w, "working")
        /\ UNCHANGED products
  /\ UNCHANGED <<main, died>>

\* The extractor overwrites the tables; then the hashes are compared.
ExtractEnds(w) ==
  /\ Is(w, "extract", "working")
  /\ \/ tables' = FALSE /\ tables /\ UNCHANGED worker
     \/ tables' \in BOOLEAN /\ Becomes(w, IF tables' THEN "ok" ELSE "failed")
  /\ UNCHANGED <<mod, installed, main, died>>

\* run_in_worker of the build page: the build directory is emptied, ...
BuildStarts(w) ==
  /\ Is(w, "build", "start")
  /\ \/ Becomes(w, "working") /\ mod' = [NoMod EXCEPT !.by = "page"]
     \/ Becomes(w, "failed") /\ UNCHANGED mod
  /\ UNCHANGED <<main, died, tables, installed>>

\* ... and the outputs are compiled or not, and collected.
BuildEnds(w) ==
  /\ Is(w, "build", "working")
  /\ \E whole \in BOOLEAN :
       /\ mod' = [by |-> "page", whole |-> whole]
       /\ Becomes(w, IF whole THEN "ok" ELSE "failed")
  /\ UNCHANGED <<main, died, tables, installed>>

\* An exception: the extract page shows it, the build page's thread ends with it.
\* Neither gives a button back.
WorkerDies(w) ==
  /\ worker[w].step \in {"start", "working"}
  /\ Becomes(w, "gone") /\ died' = [died EXCEPT ![worker[w].page] = TRUE]
  /\ UNCHANGED <<main, products>>

\* An event that knows success only.
FinishOnlyNext(w) ==
  /\ worker[w].step \in {"ok", "failed"} /\ Becomes(w, "gone")
  /\ nextOn' = IF worker[w].step = "ok" THEN [nextOn EXCEPT ![worker[w].page] = TRUE] ELSE nextOn
  /\ UNCHANGED <<at, retryOn, attempts, dumpThere, products, cli, history>>

\* finish, or the setattr that was scheduled.
Finish(w) ==
  /\ worker[w].step \in {"ok", "failed"} /\ Becomes(w, "gone")
  /\ LET p == worker[w].page
     IN IF worker[w].step = "ok"
        THEN /\ nextOn' = [nextOn EXCEPT ![p] = TRUE]
             /\ retryOn' = IF p = "extract" THEN [retryOn EXCEPT ![p] = FALSE] ELSE retryOn
        ELSE /\ retryOn' = [retryOn EXCEPT ![p] = TRUE]
             /\ UNCHANGED nextOn
  /\ UNCHANGED <<at, attempts, dumpThere, products, cli, history>>

(***************************************************************************)
(* run_pipeline: the phases in order, short-circuit on first failure.      *)
(***************************************************************************)

Phase(p) ==
  /\ cli.outcome = "running" /\ p \in cli.left
  /\ \A q \in cli.left : PhaseOrder[p] <= PhaseOrder[q]

\* The phase went well, or was skipped; and failed.
Passed(p) == cli' = [cli EXCEPT !.left = @ \ {p}]
Failed    == cli' = [cli EXCEPT !.outcome = "failed"]

gui == <<at, buttons, attempts, worker, dumpThere, history>>

\* run_probe: what is missing has an installer or not.
Probe ==
  /\ Phase("probe")
  /\ \E found \in {"all", "some missing", "none to install"} :
       cli' = [cli EXCEPT !.probe = found,
                          !.left = @ \ {"probe"},
                          !.outcome = IF found # "all" /\ ~cli.authorized THEN "failed" ELSE @]
  /\ UNCHANGED <<gui, products>>

\* Skipped unless the probe found something to install, and installing is allowed.
InstallMissing ==
  /\ Phase("install")
  /\ \/ Passed("install")
     \/ cli.authorized /\ cli.probe = "some missing" /\ Failed
  /\ UNCHANGED <<gui, products>>

\* run_extract; tables that match are left alone.
Extract ==
  /\ Phase("extract")
  /\ \/ dumpThere = "file" /\ tables' = TRUE /\ Passed("extract")
     \/ dumpThere = "gone" /\ tables /\ UNCHANGED tables /\ Passed("extract")
     \/ ~tables /\ UNCHANGED tables /\ Failed
     \/ dumpThere = "none" /\ UNCHANGED tables /\ Failed
  /\ UNCHANGED <<gui, mod, installed>>

\* A phase that leaves what it found when the compiler fails, and goes on.
BuildAnyway ==
  /\ Phase("build")
  /\ \/ mod' = [by |-> "cli", whole |-> TRUE] /\ cli' = [cli EXCEPT !.left = @ \ {"build"}, !.built = TRUE]
     \/ mod' \in {mod, [by |-> "cli", whole |-> FALSE]} /\ Passed("build")
  /\ UNCHANGED <<gui, tables, installed>>

\* run_build: steps that fail before the build directory is emptied, and after.
Build ==
  /\ Phase("build")
  /\ \/ mod' = [by |-> "cli", whole |-> TRUE] /\ cli' = [cli EXCEPT !.left = @ \ {"build"}, !.built = TRUE]
     \/ mod' \in {mod, [by |-> "cli", whole |-> FALSE]} /\ Failed
  /\ UNCHANGED <<gui, tables, installed>>

\* collect_build_outputs, unless this run made them; then run_deploy, which copies them
\* into the folder, or, with no target, succeeds at once.
Deploy ==
  /\ Phase("deploy")
  /\ \/ /\ cli.built \/ mod.whole
        /\ \/ cli.target = "none" /\ UNCHANGED installed /\ Passed("deploy")
           \/ cli.target = "folder" /\ installed' = mod /\ Passed("deploy")
           \/ cli.target = "folder" /\ Failed
              /\ installed' \in {installed, [mod EXCEPT !.whole = FALSE]}
     \/ ~cli.built /\ ~mod.whole /\ Failed /\ UNCHANGED installed
  /\ UNCHANGED <<gui, tables, mod>>

PipelineEnds ==
  /\ cli.outcome = "running" /\ cli.left = {}
  /\ cli' = [cli EXCEPT !.outcome = "ok"]
  /\ UNCHANGED <<gui, products>>

WizNext ==
  \/ Browse \/ LoseDump \/ ToExtract \/ PressBack \/ DeployNow
  \/ \E p \in WorkPages : PressNext(p) \/ Retry(p)
  \/ \E w \in Workers : \/ ExtractStarts(w) \/ ExtractEnds(w)
                        \/ BuildStarts(w) \/ BuildEnds(w) \/ WorkerDies(w) \/ Finish(w)
  \/ Probe \/ InstallMissing \/ Extract \/ Build \/ Deploy \/ PipelineEnds

WizSpec == WizInit /\ [][WizNext]_wizVars

(***************************************************************************)
(* Properties.                                                             *)
(***************************************************************************)

WizTypeOK ==
  /\ at \in Pages /\ {nextOn, retryOn, overlapped, died} \subseteq [WorkPages -> BOOLEAN]
  /\ attempts \in [WorkPages -> 0 .. MaxStepAttempts]
  /\ worker \in [Workers -> [page : WorkPages \cup {"none"},
                             step : {"idle", "start", "working", "ok", "failed", "gone"}]]
  /\ dumpThere \in {"none", "file", "gone"} /\ tables \in BOOLEAN
  /\ {mod, installed} \subseteq [by : {"nobody", "earlier", "page", "cli"}, whole : BOOLEAN]
  /\ cli \in [asked : SUBSET Phases, left : SUBSET Phases, authorized : BOOLEAN,
              target : Targets, probe : {"none", "all", "some missing", "none to install"},
              outcome : {"none", "running", "failed", "ok"}, built : BOOLEAN]

\* A page lets the user go on only with what it is there to make: after any number of
\* visits, retries and late events, an enabled Next means tables that match, or a mod
\* that is whole -- unless the page was entered while its last worker was running.  And
\* a page whose work has ended offers a way on: Next, Retry, or the advice after too
\* many attempts -- unless an exception ended it (finish, start_worker).
PagesHonest ==
  /\ \A p \in WorkPages :
       nextOn[p] /\ ~overlapped[p] => IF p = "extract" THEN tables ELSE mod.whole
  /\ at \in WorkPages /\ Running(at) = {} =>
       nextOn[at] \/ retryOn[at] \/ attempts[at] = MaxStepAttempts \/ died[at]

\* A pipeline that reports success has done every phase it was asked for: the tables
\* match, the mod is of its own build, and what it was to copy into a folder is that
\* mod, whole.  Without a deploy target, the default, the deploy phase succeeds once
\* there is a whole mod, and nothing has been copied (run_pipeline, run_deploy).
PipelineHonest ==
  cli.outcome = "ok" =>
    /\ "extract" \in cli.asked => tables
    /\ "build" \in cli.asked => mod = [by |-> "cli", whole |-> TRUE]
    /\ "deploy" \in cli.asked =>
         mod.whole /\ installed = IF cli.target = "folder" THEN mod ELSE NoMod
=============================================================================
