------------------------------- MODULE Toolchain -------------------------------
(***************************************************************************)
(* The prerequisites page of the setup wizard: the detectors               *)
(* (_setup/prereqs.py), the installers (_setup/installers.py), their       *)
(* sequence (wizard_cli.run_install) and the page that shows the rows      *)
(* (wizard.py, build_prereqs).                                             *)
(*                                                                         *)
(* Four threads meet: the user's clicks on the main thread, the worker of  *)
(* a check, which runs one detector after the other and hands all rows to  *)
(* the main thread at its end, the worker of an installation, and the      *)
(* workers of the build page, which remove the toolchain when a build is   *)
(* done, if the user chose so -- on whatever page he is by then.  A check  *)
(* asked for while one is running is not made.                             *)
(*                                                                         *)
(* Four prerequisites stand for the nine of the code, one for each way to  *)
(* be there: llvm (an archive of our own, or the user's; also winlibs),    *)
(* sail (packages of a Python, remembered by a marker), python (winget;    *)
(* also cmake and ninja) and keys (a file that is picked; also hactool).   *)
(***************************************************************************)
EXTENDS Naturals, Sequences, FiniteSets

CONSTANTS
  MaxClicks,   \* bounds: what the user does,
  MaxFaults    \*         operations that fail, tools that change behind the wizard

ASSUME ToolchainAssumption == {MaxClicks, MaxFaults} \subseteq Nat

\* check_all; the places in INSTALL_ORDER; those with an installer.
CheckOrder   == <<"llvm", "sail", "python", "keys">>
\* An order in which sail comes before the Python it is installed into.
DisplayOrder == [llvm |-> 1, sail |-> 2, python |-> 3]
InstallOrder == [llvm |-> 1, python |-> 2, sail |-> 3]
Tools        == {"llvm", "sail", "python", "keys"}
Installable  == Tools \ {"keys"}

VARIABLES
  portable,    \* our LLVM: absent, without clang.exe, a clang.exe that is cut short, whole
  path,        \* the user's LLVM is on PATH
  python, packages, \* Python 3.12 is there; sail's packages are in it
  marked,      \* sail_python_deps.ok
  picked,      \* the picked file: none, bad, good
  resolved,    \* _resolved_llvm_bin: none, portable, path
  page,        \* prereqs, or a later one
  building,    \* workers of the build page
  shown, rows, \* last_results: there are any, the prerequisites shown as there
  check,       \* do_check's worker: running or not, detectors left, results, overrides
  popup,       \* run_installer_popup: none, running, done
  queue,       \* keys the installation has left
  failedKey,   \* the key at which the last installation stopped
  clicks, faults,
  \* ---- history ----
  unseen,      \* something changed that no check began after
  failures,    \* an operation of the last installation failed
  everything   \* the last installation was of everything missing

toolVars == <<portable, path, python, packages, marked, picked, resolved, page, building, shown,
              rows, check, popup, queue, failedKey, clicks, faults, unseen, failures, everything>>
screen == <<page, building, shown, rows>>
onDisk == <<portable, path, python, packages, marked, picked>>
checkState == <<check, resolved, unseen>>
installState == <<popup, queue, failedKey, failures, everything>>

NoCheck == [on |-> FALSE, left |-> <<>>, found |-> {}, override |-> "none"]

ToolInit ==
  /\ portable = "absent" /\ path \in BOOLEAN
  /\ python \in BOOLEAN /\ packages = FALSE /\ marked = FALSE /\ picked = "none"
  /\ resolved = "none" /\ page = "prereqs" /\ building = 0 /\ shown = FALSE /\ rows = {}
  /\ check = [on |-> TRUE, left |-> CheckOrder, found |-> {}, override |-> "none"]
  /\ popup = "none" /\ queue = {} /\ failedKey = "none"
  /\ clicks = 0 /\ faults = 0
  /\ unseen = FALSE /\ failures = FALSE /\ everything = FALSE

\* What the detectors look for: a clang that answers --version, the packages or the
\* marker, a Python that runs, a picked file that is what it should be.
LlvmThere   == portable = "whole" \/ path
SailThere   == marked \/ (packages /\ python)
PythonThere == python
KeysThere(file) == file = "good"

Usable(t, file) ==
  \/ t = "llvm"   /\ LlvmThere
  \/ t = "sail"   /\ SailThere
  \/ t = "python" /\ PythonThere
  \/ t = "keys"   /\ KeysThere(file)

NextEnabled == rows = Tools   \* all_ok

(***************************************************************************)
(* do_check.                                                               *)
(***************************************************************************)

\* A check is asked for.  The overrides are read when its worker starts.
DoCheck(override) ==
  IF check.on THEN unseen' = TRUE /\ UNCHANGED check
  ELSE /\ check' = [on |-> TRUE, left |-> CheckOrder, found |-> {}, override |-> override]
       /\ unseen' = FALSE

\* A cache that is only filled once.
FirstFound == IF resolved # "none" THEN resolved
              ELSE IF portable = "whole" THEN "portable"
              ELSE IF path THEN "path" ELSE resolved

\* check_llvm19 and check_winlibs: our own before the one on PATH; when neither is
\* there the last answer stays.
Found == IF portable = "whole" THEN "portable" ELSE IF path THEN "path" ELSE resolved

Detected(t) == Usable(t, check.override)

\* The next detector.  check_sail_python_deps leaves its marker.
Detect ==
  /\ check.on /\ check.left # <<>>
  /\ LET t == Head(check.left)
     IN /\ check' = [check EXCEPT !.left = Tail(@),
                                  !.found = @ \cup {x \in {t} : Detected(x)}]
        /\ resolved' = IF t = "llvm" THEN Found ELSE resolved
        /\ marked' = (marked \/ (t = "sail" /\ Detected(t)))
  /\ UNCHANGED <<portable, path, python, packages, picked, unseen, screen,
                 installState, clicks, faults>>

\* render, on the main thread.
FinishCheck ==
  /\ check.on /\ check.left = <<>>
  /\ rows' = check.found /\ shown' = TRUE /\ check' = NoCheck
  /\ UNCHANGED <<onDisk, resolved, unseen, page, building, installState, clicks, faults>>

(***************************************************************************)
(* The user, on the prerequisites page.  The popup is modal.               *)
(***************************************************************************)

Click == popup = "none" /\ clicks < MaxClicks /\ clicks' = clicks + 1

Recheck ==
  /\ page = "prereqs" /\ Click /\ ~check.on /\ DoCheck(picked)
  /\ UNCHANGED <<onDisk, resolved, screen, installState, faults>>

\* open_picker_for: the path is stored, then a check.
Pick(f) ==
  /\ page = "prereqs" /\ shown /\ "keys" \notin rows /\ Click
  /\ picked' = f /\ DoCheck(f)
  /\ UNCHANGED <<portable, path, python, packages, marked, resolved, screen,
                 installState, faults>>

\* check_internet and check_winget, before everything missing is installed.
PreflightFails ==
  /\ faults < MaxFaults /\ faults' = faults + 1
  /\ queue' = {} /\ failedKey' = "preflight" /\ failures' = TRUE

\* Auto-install of one row, or Install all missing.
Install(keys) ==
  /\ page = "prereqs" /\ shown /\ keys # {} /\ Click
  /\ everything' = (keys = Installable \ rows) /\ popup' = "running"
  /\ \/ /\ queue' = keys
        /\ failedKey' = "none" /\ failures' = FALSE /\ UNCHANGED faults
     \/ everything' /\ PreflightFails
  /\ UNCHANGED <<onDisk, checkState, screen>>

ClosePopup ==
  /\ popup = "done" /\ popup' = "none"
  /\ UNCHANGED <<onDisk, checkState, screen, queue, failedKey, failures, everything,
                 clicks, faults>>

\* Next, and the pages after it.
Proceed ==
  /\ page = "prereqs" /\ Click /\ NextEnabled /\ page' = "later"
  /\ UNCHANGED <<onDisk, checkState, building, shown, rows, installState, faults>>

\* Back: _on_enter shows the rows of the last check, and checks.
GoBack ==
  /\ page = "later" /\ Click /\ page' = "prereqs" /\ DoCheck(picked)
  /\ UNCHANGED <<onDisk, resolved, building, shown, rows, installState, faults>>

\* The build page is entered, or left for another and entered again: each time a worker.
EnterBuildPage ==
  /\ page = "later" /\ Click /\ building' = building + 1
  /\ UNCHANGED <<onDisk, checkState, page, shown, rows, installState, faults>>

\* What a removal, whole or stopped by a file in use, can leave of our LLVM.
Remains == [absent |-> {"absent"}, bare |-> {"absent", "bare"},
            stub |-> {"absent", "bare", "stub"}, whole |-> {"absent", "bare", "stub", "whole"}]

\* A build ends; when it went well and the user chose Remove, cleanup_portable_deps
\* runs in its worker.  Back was enabled all the time, so this may be any page; only
\* a check that begins later sees it.
Cleanup ==
  /\ building > 0 /\ building' = building - 1
  /\ portable' \in Remains[portable]
  /\ unseen' = (unseen \/ (page = "prereqs" /\ portable' # portable))
  /\ UNCHANGED <<path, python, packages, marked, picked, check, resolved, page, shown, rows,
                 installState, clicks, faults>>

\* The user installs or removes an LLVM of his own.
UserLlvm ==
  /\ faults < MaxFaults /\ faults' = faults + 1
  /\ path' = ~path /\ unseen' = TRUE
  /\ UNCHANGED <<portable, python, packages, marked, picked, check, resolved, screen,
                 installState, clicks>>

(***************************************************************************)
(* run_install and the installers.                                         *)
(***************************************************************************)

\* The next key, in the order of INSTALL_ORDER.
Installing(t) ==
  popup = "running" /\ t \in queue /\ \A u \in queue : InstallOrder[t] <= InstallOrder[u]

\* An installer that returns, and the keys after it.
Installed(t) == queue' = queue \ {t} /\ UNCHANGED <<failedKey, failures, faults>>

\* The first failure ends the run; op says that an operation failed, not a missing
\* prerequisite.
Fails(t, op) ==
  /\ queue' = {} /\ failedKey' = t
  /\ IF op THEN faults < MaxFaults /\ faults' = faults + 1 /\ failures' = TRUE
     ELSE UNCHANGED <<failures, faults>>

\* _download: no space, no connection, or a wrong checksum; nothing is left behind.
NoDownload == Fails("llvm", TRUE) /\ UNCHANGED portable

\* _extract_tar_xz_renamed into the final directory, without a cleanup.  The end of a
\* build may remove files while they are unpacked.
Unarchive ==
  \/ portable' = "whole" /\ Installed("llvm")
  \/ building > 0 /\ portable' \in Remains["whole"] /\ Installed("llvm")
  \/ Fails("llvm", TRUE) /\ portable' \in {"bare", "stub"}

\* install_llvm19, install_winlibs: a clang.exe that is there will do; else download,
\* with space and checksum checked, and unpack.
InstallLlvm ==
  /\ Installing("llvm")
  /\ \/ portable \in {"stub", "whole"} /\ Installed("llvm") /\ UNCHANGED portable
     \/ portable \in {"absent", "bare"} /\ Unarchive
     \/ portable \in {"absent", "bare"} /\ NoDownload
  /\ UNCHANGED <<path, python, packages, marked, picked, checkState, screen, popup, everything, clicks>>

\* winget
InstallPython ==
  /\ Installing("python")
  /\ \/ python' = TRUE /\ Installed("python")
     \/ Fails("python", TRUE) /\ UNCHANGED python
  /\ UNCHANGED <<portable, path, packages, marked, picked, checkState, screen, popup,
                 everything, clicks>>

\* install_sail_python_deps: pip into the first Python 3.12 that runs; the marker is
\* best effort.
InstallSail ==
  /\ Installing("sail")
  /\ \/ python /\ packages' = TRUE /\ marked' \in {marked, TRUE} /\ Installed("sail")
     \/ Fails("sail", python) /\ UNCHANGED <<packages, marked>>
  /\ UNCHANGED <<portable, path, python, picked, checkState, screen, popup,
                 everything, clicks>>

\* A finish that leaves the check to the user.
FinishQuietly ==
  /\ popup = "running" /\ queue = {} /\ popup' = "done"
  /\ UNCHANGED <<onDisk, checkState, screen, queue, failedKey, failures, everything,
                 clicks, faults>>

\* finish: "Always re-check after install".
FinishInstall ==
  /\ popup = "running" /\ queue = {}
  /\ popup' = "done" /\ DoCheck(picked)
  /\ UNCHANGED <<onDisk, resolved, screen, queue, failedKey, failures, everything,
                 clicks, faults>>

ToolNext ==
  \/ Detect \/ FinishCheck
  \/ Recheck \/ \E f \in {"bad", "good"} : Pick(f)
  \/ \E keys \in {Installable \ rows} \cup {{t} : t \in Installable \ rows} :
       Install(keys)
  \/ ClosePopup \/ Proceed \/ GoBack \/ EnterBuildPage \/ Cleanup \/ UserLlvm
  \/ InstallLlvm \/ InstallPython \/ InstallSail \/ FinishInstall

ToolSpec == ToolInit /\ [][ToolNext]_toolVars

(***************************************************************************)
(* Properties.                                                             *)
(***************************************************************************)

\* What a check has left to detect.
Rests == {CheckOrder, <<"sail", "python", "keys">>, <<"python", "keys">>, <<"keys">>, <<>>}

ToolTypeOK ==
  /\ portable \in {"absent", "bare", "stub", "whole"}
  /\ {path, python, packages, marked, shown, unseen, failures, everything} \subseteq BOOLEAN
  /\ picked \in {"none", "bad", "good"} /\ resolved \in {"none", "portable", "path"}
  /\ page \in {"prereqs", "later"} /\ rows \subseteq Tools
  /\ check \in [on : BOOLEAN, left : Rests, found : SUBSET Tools, override : {"none", "bad", "good"}]
  /\ popup \in {"none", "running", "done"} /\ failedKey \in Installable \cup {"none", "preflight"}
  /\ queue \subseteq Installable
  /\ clicks \in 0 .. MaxClicks /\ building \in 0 .. clicks /\ faults \in 0 .. MaxFaults

Settled == page = "prereqs" /\ ~check.on /\ popup # "running" /\ ~unseen

\* An installation of everything missing stops only at an operation that failed:
\* the order of the installers gives each what it needs (INSTALL_ORDER).
StopsForAReason ==
  everything /\ failedKey # "none" => failures

\* When the page has settled it shows what is there: installations, picks, removals
\* and checks that overlap leave no stale row behind -- unless, since the last check
\* began, another was asked for that was not made (do_check), the user changed
\* something outside, or a build of an earlier visit to the build page ended and
\* removed the toolchain while this page was shown (run_in_worker of the build page).
\* And if it lets the user go on, the directory handed to the build has a working
\* compiler, never one that was removed (resolved_llvm_bin, run_build_switchmod).
PrereqsCurrent ==
  /\ StopsForAReason
  /\ Settled =>
       /\ rows = {t \in Tools : Usable(t, picked)}
       /\ NextEnabled => \/ resolved = "portable" /\ portable = "whole"
                         \/ resolved = "path" /\ path
=============================================================================
