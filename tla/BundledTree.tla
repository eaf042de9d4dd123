------------------------------ MODULE BundledTree ------------------------------
(***************************************************************************)
(* The tree of sources and scripts that setup unpacks from the installed   *)
(* apworld, the build inside it and the copy to the Switch                 *)
(* (_setup/build.py, _setup/deploy.py, scripts/build_switchmod.py).        *)
(*                                                                         *)
(* The tree lives in one directory and is trusted when a marker file in it *)
(* holds the mtime of the installed apworld.  A stale tree is replaced:    *)
(* unpack into a staging directory, remove the old tree, rename, write the *)
(* marker.  The mod is compiled inside the tree, and its two artifacts are *)
(* collected from there and copied to the target.                          *)
(*                                                                         *)
(* An action is one file-system effect.  Between any two the process may   *)
(* crash, an operation may fail, and the apworld may be replaced.  One     *)
(* thread at a time: see the README for two workers of the wizard.         *)
(***************************************************************************)
EXTENDS Naturals, FiniteSets

CONSTANTS
  Versions,    \* releases of the apworld, told apart by their mtime
  Contents,    \* what each of them bundles (install_apworld.py --bundle-*)
  Parts,       \* the subtrees: scripts, switch_mod, data
  ScriptsPart, \* the one with build_switchmod.py
  ModPart,     \* the one with the sources of the mod
  None,
  MaxBuilds,   \* bounds: builds started,
  MaxSwaps     \*         replacements of the apworld and crashes

ASSUME BundledTreeAssumption ==
  /\ Contents \in [Versions -> SUBSET Parts]
  /\ {ScriptsPart, ModPart} \subseteq Parts
  /\ None \notin Versions
  /\ MaxBuilds \in Nat /\ MaxSwaps \in Nat

\* collect_build_outputs: in the order in which _copy_files takes them.
Artifacts == {"subsdk9", "main.npdm"}
NoOutputs == [a \in Artifacts |-> None]
NoFiles   == [f \in Parts |-> None]
NoDir     == [ex |-> FALSE, files |-> NoFiles]

\* An artifact: the release whose sources it was compiled from, and the build.
Output == [src : Versions, build : 1 .. MaxBuilds]

VARIABLES
  zip,         \* the installed apworld
  zipsSeen,    \* history: releases that have been installed
  tree,        \* bundled/: there or not, its files, the release of each
  marker,      \* bundled/.source-zip-mtime
  outs,        \* bundled/switch_mod/build/...: the artifacts
  staging,     \* bundled.new/
  memo,        \* _extracted_bundled_root is set
  pc,          \* where the caller is
  todo,        \* the parts not unpacked yet
  stamp,       \* the mtime taken, the apworld opened
  deployed,    \* the files on the target
  report,      \* the outcome of the last deploy
  builds, swaps,
  \* ---- history ----
  replaced,    \* the apworld was replaced while it was being unpacked
  reverted     \* an apworld that had been replaced was put back

treeVars == <<zip, zipsSeen, tree, marker, outs, staging, memo, pc, todo, stamp,
              deployed, report, builds, swaps, replaced, reverted>>
disk    == <<tree, marker, outs, staging>>
outside == <<zip, zipsSeen, swaps, reverted, replaced>>
product == <<deployed, report, builds>>

\* Steps of _extract_bundled_tree, then of the build and the deploy.
Unpacking == {"clear", "unpack", "verify", "wipe", "rename", "mark"}
Places    == Unpacking \cup {"idle", "have", "clean", "compile",
                             "subsdk9", "main.npdm"}

TreeInit ==
  /\ zip \in Versions /\ zipsSeen = {zip}
  /\ tree = NoDir /\ marker = None /\ outs = NoOutputs /\ staging = NoDir
  /\ memo = FALSE /\ pc = "idle"
  /\ todo = {}
  /\ stamp = [mtime |-> zip, opened |-> zip]
  /\ deployed = NoOutputs /\ report = "none" /\ builds = 0 /\ swaps = 0
  /\ replaced = FALSE /\ reverted = FALSE

HasFiles(dir) == \E f \in Parts : dir.files[f] # None

\* What an unpacked release looks like.
Unpacked(v) == [ex |-> TRUE,
                files |-> [f \in Parts |-> IF f \in Contents[v] THEN v ELSE None]]

Goto(place) == pc' = place

(***************************************************************************)
(* _extract_bundled_tree.                                                  *)
(***************************************************************************)

\* The marker names the installed apworld and _cache_looks_intact.
Fresh == marker = zip /\ HasFiles(tree)

\* A bundled_* function is called: memo, fresh cache, or unpack again.
Begin ==
  /\ pc = "idle"
  /\ memo' = (memo \/ Fresh)
  /\ Goto(IF memo' THEN "have" ELSE "clear")
  /\ stamp' = [mtime |-> zip, opened |-> zip]
  /\ UNCHANGED <<disk, outside, todo, product>>

\* shutil.rmtree of a left-over staging directory, file by file, then mkdir, then
\* ZipFile(apworld) -- which need not be the apworld that was stat'ed.
ClearStaging ==
  /\ pc = "clear"
  /\ \/ /\ \E f \in Parts : /\ staging.files[f] # None
                            /\ staging' = [staging EXCEPT !.files[f] = None]
        /\ UNCHANGED <<pc, todo, stamp>>
     \/ /\ ~HasFiles(staging)
        /\ staging' = [NoDir EXCEPT !.ex = TRUE]
        /\ stamp' = [stamp EXCEPT !.opened = zip]
        /\ todo' = Contents[zip]
        /\ Goto("unpack")
  /\ UNCHANGED <<tree, marker, outs, memo, outside, product>>

\* An unpacking that goes on after an entry it could not write.
UnpackSome ==
  /\ pc = "unpack"
  /\ \/ \E f \in todo :
          /\ staging' = [ex |-> TRUE, files |-> [staging.files EXCEPT ![f] = stamp.opened]]
          /\ todo' = todo \ {f}
          /\ UNCHANGED pc
     \/ /\ Goto("verify")
        /\ UNCHANGED <<staging, todo>>
  /\ UNCHANGED <<tree, marker, outs, memo, stamp, outside, product>>

\* One entry of the zip is written, with its parent directories.
Unpack ==
  /\ pc = "unpack"
  /\ \/ \E f \in todo :
          /\ staging' = [ex |-> TRUE, files |-> [staging.files EXCEPT ![f] = stamp.opened]]
          /\ todo' = todo \ {f}
          /\ UNCHANGED pc
     \/ /\ todo = {} /\ Goto("verify")
        /\ UNCHANGED <<staging, todo>>
  /\ UNCHANGED <<tree, marker, outs, memo, stamp, outside, product>>

\* _staging_has_files: an apworld that bundles nothing must not replace a tree.
Verify ==
  /\ pc = "verify" /\ HasFiles(staging)
  /\ Goto("wipe")
  /\ UNCHANGED <<disk, memo, todo, stamp, outside, product>>

\* A wipe that leaves what the unpacked release does not bring.
WipeSources ==
  /\ pc = "wipe"
  /\ tree' = NoDir /\ marker' = None /\ Goto("rename")
  /\ UNCHANGED <<outs, staging, memo, todo, stamp, outside, product>>

\* shutil.rmtree of the old tree: its files, its marker and the build directory
\* go one after the other, in an order of the file system's.
WipeTree ==
  /\ pc = "wipe"
  /\ \/ /\ \E f \in Parts : /\ tree.files[f] # None
                            /\ tree' = [tree EXCEPT !.files[f] = None]
        /\ UNCHANGED <<marker, outs, pc>>
     \/ /\ marker # None /\ marker' = None
        /\ UNCHANGED <<tree, outs, pc>>
     \/ \E a \in Artifacts : /\ outs[a] # None /\ outs' = [outs EXCEPT ![a] = None]
                             /\ UNCHANGED <<tree, marker, pc>>
     \/ /\ ~HasFiles(tree) /\ marker = None /\ outs = NoOutputs
        /\ tree' = NoDir /\ Goto("rename")
        /\ UNCHANGED <<marker, outs>>
  /\ UNCHANGED <<staging, memo, todo, stamp, outside, product>>

\* staging.rename(dst): fails when either is not as expected (see Fail).
Rename ==
  /\ pc = "rename" /\ staging.ex /\ ~tree.ex
  /\ tree' = staging /\ staging' = NoDir /\ Goto("mark")
  /\ UNCHANGED <<marker, outs, memo, todo, stamp, outside, product>>

\* marker.write_text, the last thing written.
Mark ==
  /\ pc = "mark" /\ tree.ex
  /\ marker' = stamp.mtime /\ memo' = TRUE /\ Goto("have")
  /\ UNCHANGED <<tree, outs, staging, todo, stamp, outside, product>>

\* Any of these operations fails: RuntimeError to the caller.  While the tree
\* being unpacked is not in place yet, what can be removed of staging is.
FailUnpack ==
  /\ pc \in Unpacking /\ Goto("idle")
  /\ \/ staging' = staging
     \/ /\ pc \in {"unpack", "verify", "wipe"} /\ staging.ex
        /\ \E stuck \in SUBSET Parts :
             staging' = IF stuck = {} THEN NoDir
                        ELSE [staging EXCEPT !.files =
                               [f \in Parts |-> IF f \in stuck THEN @[f] ELSE None]]
  /\ UNCHANGED <<tree, marker, outs, memo, todo, stamp, outside, product>>

(***************************************************************************)
(* run_build_switchmod and build_switchmod.py.                             *)
(***************************************************************************)

\* bundled_script and bundled_switch_mod find their files; the wrapper patches
\* Hakkun, downloads libstd and builds sail before it touches the build directory.
StartBuild ==
  /\ pc = "have" /\ builds < MaxBuilds
  /\ tree.files[ScriptsPart] # None /\ tree.files[ModPart] # None
  /\ Goto("clean") /\ builds' = builds + 1
  /\ UNCHANGED <<disk, memo, todo, stamp, outside, deployed, report>>

\* An incremental build: the outputs of the build before are kept.
KeepBuildDir ==
  /\ pc = "clean" /\ Goto("compile")
  /\ UNCHANGED <<disk, memo, todo, stamp, outside, product>>

\* shutil.rmtree(BUILD_DIR), then configure.
CleanBuildDir ==
  /\ pc = "clean"
  /\ \/ /\ \E a \in Artifacts : /\ outs[a] # None /\ outs' = [outs EXCEPT ![a] = None]
        /\ UNCHANGED pc
     \/ /\ outs = NoOutputs /\ Goto("compile")
        /\ UNCHANGED outs
  /\ UNCHANGED <<tree, marker, staging, memo, todo, stamp, outside, product>>

\* cmake --build writes an artifact.
Emit(a) ==
  /\ pc = "compile" /\ tree.files[ModPart] # None
  /\ outs[a] \notin [src : Versions, build : {builds}]
  /\ outs' = [outs EXCEPT ![a] = [src |-> tree.files[ModPart], build |-> builds]]
  /\ UNCHANGED <<tree, marker, staging, memo, pc, todo, stamp, outside, product>>

\* The wrapper exits; its code may be 0 though an artifact is missing.  Or the
\* caller is done with the tree.
Return ==
  /\ pc \in {"have", "clean", "compile"}
  /\ \/ Goto("idle")
     \/ pc = "compile" /\ Goto("have")
  /\ UNCHANGED <<disk, memo, todo, stamp, outside, product>>

(***************************************************************************)
(* collect_build_outputs and _copy_files.                                  *)
(***************************************************************************)

\* Both artifacts are there.
AllOutputs == \A a \in Artifacts : outs[a] # None

StartDeploy ==
  /\ pc = "have" /\ AllOutputs
  /\ Goto("subsdk9") /\ report' = "running"
  /\ UNCHANGED <<disk, memo, todo, stamp, outside, deployed, builds>>

AfterCopy(a) == IF a = "subsdk9" THEN "main.npdm" ELSE "have"

\* shutil.copy2 and the comparison of sizes.
Copy(a) ==
  /\ pc = a /\ outs[a] # None
  /\ deployed' = [deployed EXCEPT ![a] = outs[a]]
  /\ Goto(AfterCopy(a))
  /\ report' = IF a = "main.npdm" THEN "ok" ELSE report
  /\ UNCHANGED <<disk, memo, todo, stamp, outside, builds>>

\* DeployCopyError: the target keeps its file, or has part of the new one.
CopyFails(a) ==
  /\ pc = a /\ Goto("have") /\ report' = "failed"
  /\ deployed' \in {deployed, [deployed EXCEPT ![a] = None]}
  /\ UNCHANGED <<disk, memo, todo, stamp, outside, builds>>

(***************************************************************************)
(* The environment.                                                        *)
(***************************************************************************)

\* The user installs another release, while setup runs or not.
ReplaceApworld(v) ==
  /\ v # zip /\ swaps < MaxSwaps
  /\ zip' = v /\ zipsSeen' = zipsSeen \cup {v} /\ swaps' = swaps + 1
  /\ reverted' = (reverted \/ v \in zipsSeen)
  /\ replaced' = (replaced \/ pc \in Unpacking)
  /\ UNCHANGED <<disk, memo, pc, todo, stamp, product>>

\* The process is closed or killed, and started again.
Restart ==
  /\ swaps < MaxSwaps /\ swaps' = swaps + 1
  /\ memo' = FALSE /\ pc' = "idle"
  /\ report' = "none"
  /\ UNCHANGED <<disk, zip, zipsSeen, reverted, replaced, todo, stamp, deployed,
                 builds>>

TreeNext ==
  \/ Begin \/ ClearStaging \/ Unpack \/ Verify \/ WipeTree
  \/ Rename \/ Mark \/ FailUnpack
  \/ StartBuild \/ CleanBuildDir \/ Return \/ StartDeploy
  \/ \E a \in Artifacts : Emit(a) \/ Copy(a) \/ CopyFails(a)
  \/ \E v \in Versions : ReplaceApworld(v)
  \/ Restart

TreeSpec == TreeInit /\ [][TreeNext]_treeVars

(***************************************************************************)
(* Properties.                                                             *)
(***************************************************************************)

TreeTypeOK ==
  /\ zip \in Versions /\ zipsSeen \subseteq Versions
  /\ {tree, staging} \subseteq [ex : BOOLEAN, files : [Parts -> Versions \cup {None}]]
  /\ marker \in Versions \cup {None}
  /\ outs \in [Artifacts -> Output \cup {None}] /\ deployed \in [Artifacts -> Output \cup {None}]
  /\ memo \in BOOLEAN /\ pc \in Places /\ todo \in SUBSET Parts
  /\ stamp \in [mtime : Versions, opened : Versions]
  /\ report \in {"none", "running", "ok", "failed"}
  /\ builds \in 0 .. MaxBuilds /\ swaps \in 0 .. MaxSwaps
  /\ {replaced, reverted} \subseteq BOOLEAN

\* The apworld was not replaced under an unpacking, and no mtime came back.
Undisturbed == ~replaced /\ ~reverted

\* A crash or a failure at any step cannot poison the cache: a tree that the
\* freshness check accepts holds every file of the installed release, and no file
\* of another one ("a crash mid-extraction can't poison the cache: the marker file
\* is the LAST thing written", build.py).
TreeTrusted ==
  Undisturbed /\ Fresh => tree = Unpacked(zip)

\* A deploy is reported complete only with two whole artifacts of one build on the
\* target, whatever builds and copies failed before, and they were compiled from the
\* sources of the unpacked release, never from those of the release before the last
\* upgrade: the swap takes the build directory with it.
DeployedFromTree ==
  [][report' = "ok" /\ report # "ok" =>
       /\ deployed'["subsdk9"] # None /\ deployed'["subsdk9"] = deployed'["main.npdm"]
       /\ Undisturbed' => deployed'["subsdk9"].src = marker]_treeVars
=============================================================================
