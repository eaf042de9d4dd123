----------------------------- MODULE Setup_proofs -----------------------------
(***************************************************************************)
(* What the four machines of setup keep true, for every release, number of *)
(* parts, dumps, clicks, failures, crashes and workers: BundledTree,       *)
(* MapExtraction, Toolchain and SetupWizard, one after the other; and what *)
(* a Switch that looks for the bridge can rely on, BridgeDiscovery, and a  *)
(* player on the generated rules, AccessLogic.  Each has an inductive      *)
(* invariant of its own; the lemma of a step names the parts of it that    *)
(* the step can disturb.                                                   *)
(***************************************************************************)
EXTENDS BundledTree, MapExtraction, Toolchain, SetupWizard, BridgeDiscovery, AccessLogic, TLAPS

(***************************************************************************)
(* BundledTree.                                                            *)
(***************************************************************************)

\* Where the caller holds the tree, after bundled_script or bundled_switch_mod.
Holding == {"have", "clean", "compile", "subsdk9", "main.npdm"}

\* What an unpacking has taken and made so far: the mtime and the apworld are of one
\* release unless it was replaced meanwhile, and the staging directory has what was
\* taken off the list.
UnpackInv ==
  /\ pc \in Unpacking => ~memo
  /\ pc \in Unpacking /\ ~replaced => stamp = [mtime |-> zip, opened |-> zip]
  /\ pc = "unpack" =>
       /\ staging.ex /\ todo \subseteq Contents[stamp.opened]
       /\ \A f \in Parts :
            staging.files[f] = IF f \in Contents[stamp.opened] \ todo THEN stamp.opened ELSE None
  /\ pc \in {"verify", "wipe", "rename"} => staging = Unpacked(stamp.opened)
  /\ pc \in {"wipe", "rename"} => HasFiles(staging)
  /\ pc \in {"rename", "mark"} => marker = None /\ outs = NoOutputs
  /\ pc = "mark" => tree = Unpacked(stamp.opened) /\ HasFiles(tree)

\* The tree is whole, and what was compiled in it is of its release.
TreeOf(v) ==
  /\ tree = Unpacked(v) /\ HasFiles(tree)
  /\ \A a \in Artifacts : outs[a] # None => outs[a].src = v

\* Whoever trusts the tree may: the marker names the installed apworld, or it did
\* when this process looked.  A release once replaced does not come back.
TrustInv ==
  /\ {zip, stamp.mtime} \subseteq zipsSeen
  /\ marker # None => marker \in zipsSeen
  /\ pc \in Holding => memo
  /\ Undisturbed => /\ pc \in Unpacking => marker # zip
                    /\ marker = zip \/ memo => marker # None /\ TreeOf(marker)

\* Artifacts that exist are of one build; a deploy copies the two of them.
OutputInv ==
  /\ \A a, b \in Artifacts : outs[a] # None /\ outs[b] # None => outs[a] = outs[b]
  /\ pc \in {"clean", "compile"} => builds > 0 /\ tree.files[ModPart] # None
  /\ pc = "compile" =>
       \A a \in Artifacts :
         outs[a] # None => outs[a] = [src |-> tree.files[ModPart], build |-> builds]
  /\ pc \in Artifacts => AllOutputs /\ report = "running"
  /\ pc = "main.npdm" => deployed["subsdk9"] = outs["subsdk9"]

TreeInv == TreeTypeOK /\ UnpackInv /\ TrustInv /\ OutputInv

\* A call that finds the tree fresh, or starts to unpack.
LEMMA TreeBegin == TreeInv /\ Begin => TreeInv'
<1> SUFFICES ASSUME TreeInv, Begin
             PROVE  TreeInv'
  OBVIOUS
<1> USE BundledTreeAssumption DEF TreeInv, disk, outside, product, Begin, Goto, Fresh
<1>1. TreeTypeOK'
  BY DEF TreeTypeOK, Places, Unpacking, NoDir, NoFiles, NoOutputs, Output, Artifacts, HasFiles
<1>2. UnpackInv'
  BY DEF TreeTypeOK, UnpackInv, TrustInv, Unpacking, Places, Unpacked, HasFiles, NoDir, NoFiles, NoOutputs, Holding, Artifacts
<1>3. TrustInv'
  BY DEF TreeTypeOK, UnpackInv, TrustInv, TreeOf, Undisturbed, Unpacking, Holding, Places, Unpacked, HasFiles, NoDir, NoFiles, NoOutputs, Artifacts
<1>4. OutputInv'
  BY DEF TreeTypeOK, OutputInv, UnpackInv, Unpacking, Artifacts, AllOutputs, Places, Output, NoOutputs
<1> QED
  BY <1>1, <1>2, <1>3, <1>4

\* The staging directory is emptied; the apworld is opened.
LEMMA TreeClear == TreeInv /\ ClearStaging => TreeInv'
<1> SUFFICES ASSUME TreeInv, ClearStaging
             PROVE  TreeInv'
  OBVIOUS
<1> USE BundledTreeAssumption DEF TreeInv, disk, outside, product, ClearStaging, Goto
<1>1. TreeTypeOK'
  <2>1. staging' \in [ex : BOOLEAN, files : [Parts -> Versions \cup {None}]]
    <3>1. ASSUME NEW f \in Parts, staging' = [staging EXCEPT !.files[f] = None]
          PROVE  staging' \in [ex : BOOLEAN, files : [Parts -> Versions \cup {None}]]
      BY <3>1 DEF TreeTypeOK
    <3>2. CASE staging' = [NoDir EXCEPT !.ex = TRUE]
      BY <3>2 DEF NoDir, NoFiles
    <3> QED
      BY <3>1, <3>2
  <2>2. /\ pc' \in Places /\ todo' \in SUBSET Parts
        /\ stamp' \in [mtime : Versions, opened : Versions]
    BY DEF TreeTypeOK, Places, Unpacking
  <2> QED
    BY <2>1, <2>2 DEF TreeTypeOK
<1>2. UnpackInv'
  BY DEF TreeTypeOK, UnpackInv, TrustInv, Unpacking, Places, Unpacked, HasFiles, NoDir, NoFiles, NoOutputs, Holding, Artifacts
<1>3. TrustInv'
  BY DEF TreeTypeOK, UnpackInv, TrustInv, TreeOf, Undisturbed, Unpacking, Holding, Places, Unpacked, HasFiles, NoDir, NoFiles, NoOutputs, Artifacts
<1>4. OutputInv'
  BY DEF TreeTypeOK, OutputInv, UnpackInv, Unpacking, Artifacts, AllOutputs, Places, Output, NoOutputs
<1> QED
  BY <1>1, <1>2, <1>3, <1>4

\* An entry is written.
LEMMA TreeUnpack == TreeInv /\ Unpack => TreeInv'
<1> SUFFICES ASSUME TreeInv, Unpack
             PROVE  TreeInv'
  OBVIOUS
<1> USE BundledTreeAssumption DEF TreeInv, disk, outside, product, Unpack, Goto
<1>1. TreeTypeOK'
  <2>1. staging' \in [ex : BOOLEAN, files : [Parts -> Versions \cup {None}]]
    <3>1. ASSUME NEW f \in todo,
                 staging' = [ex |-> TRUE, files |-> [staging.files EXCEPT ![f] = stamp.opened]]
          PROVE  staging' \in [ex : BOOLEAN, files : [Parts -> Versions \cup {None}]]
      <4>1. staging.files \in [Parts -> Versions \cup {None}] /\ stamp.opened \in Versions
        BY DEF TreeTypeOK
      <4>2. [staging.files EXCEPT ![f] = stamp.opened] \in [Parts -> Versions \cup {None}]
        BY <4>1
      <4> QED
        BY <3>1, <4>2
    <3> QED
      BY <3>1 DEF TreeTypeOK
  <2>2. pc' \in Places /\ todo' \in SUBSET Parts
    BY DEF TreeTypeOK, Places, Unpacking
  <2> QED
    BY <2>1, <2>2 DEF TreeTypeOK
<1>2. UnpackInv'
  BY DEF TreeTypeOK, UnpackInv, TrustInv, Unpacking, Places, Unpacked, HasFiles, NoDir, NoFiles, NoOutputs, Holding, Artifacts
<1>3. TrustInv'
  BY DEF TreeTypeOK, UnpackInv, TrustInv, TreeOf, Undisturbed, Unpacking, Holding, Places, Unpacked, HasFiles, NoDir, NoFiles, NoOutputs, Artifacts
<1>4. OutputInv'
  BY DEF TreeTypeOK, OutputInv, UnpackInv, Unpacking, Artifacts, AllOutputs, Places, Output, NoOutputs
<1> QED
  BY <1>1, <1>2, <1>3, <1>4

\* Something was unpacked.
LEMMA TreeVerify == TreeInv /\ Verify => TreeInv'
<1> SUFFICES ASSUME TreeInv, Verify
             PROVE  TreeInv'
  OBVIOUS
<1> USE BundledTreeAssumption DEF TreeInv, disk, outside, product, Verify, Goto
<1>1. TreeTypeOK'
  BY DEF TreeTypeOK, Places, Unpacking, NoDir, NoFiles, NoOutputs, Output, Artifacts, HasFiles
<1>2. UnpackInv'
  BY DEF TreeTypeOK, UnpackInv, TrustInv, Unpacking, Places, Unpacked, HasFiles, NoDir, NoFiles, NoOutputs, Holding, Artifacts
<1>3. TrustInv'
  BY DEF TreeTypeOK, UnpackInv, TrustInv, TreeOf, Undisturbed, Unpacking, Holding, Places, Unpacked, HasFiles, NoDir, NoFiles, NoOutputs, Artifacts
<1>4. OutputInv'
  BY DEF TreeTypeOK, OutputInv, UnpackInv, Unpacking, Artifacts, AllOutputs, Places, Output, NoOutputs
<1> QED
  BY <1>1, <1>2, <1>3, <1>4

\* Part of the old tree goes.
LEMMA TreeWipe == TreeInv /\ WipeTree => TreeInv'
<1> SUFFICES ASSUME TreeInv, WipeTree
             PROVE  TreeInv'
  OBVIOUS
<1> USE BundledTreeAssumption DEF TreeInv, disk, outside, product, WipeTree, Goto
<1>1. TreeTypeOK'
  <2>1. tree' \in [ex : BOOLEAN, files : [Parts -> Versions \cup {None}]]
    <3>1. ASSUME NEW f \in Parts, tree' = [tree EXCEPT !.files[f] = None]
          PROVE  tree' \in [ex : BOOLEAN, files : [Parts -> Versions \cup {None}]]
      BY <3>1 DEF TreeTypeOK
    <3>2. NoDir \in [ex : BOOLEAN, files : [Parts -> Versions \cup {None}]]
      BY DEF NoDir, NoFiles
    <3> QED
      BY <3>1, <3>2 DEF TreeTypeOK
  <2>2. outs' \in [Artifacts -> Output \cup {None}]
    BY DEF TreeTypeOK
  <2>3. pc' \in Places /\ marker' \in Versions \cup {None}
    BY DEF TreeTypeOK, Places, Unpacking
  <2> QED
    BY <2>1, <2>2, <2>3 DEF TreeTypeOK
<1>2. UnpackInv'
  BY DEF TreeTypeOK, UnpackInv, TrustInv, Unpacking, Places, Unpacked, HasFiles, NoDir, NoFiles, NoOutputs, Holding, Artifacts
<1>3. TrustInv'
  BY DEF TreeTypeOK, UnpackInv, TrustInv, TreeOf, Undisturbed, Unpacking, Holding, Places, Unpacked, HasFiles, NoDir, NoFiles, NoOutputs, Artifacts
<1>4. OutputInv'
  BY DEF TreeTypeOK, OutputInv, UnpackInv, Unpacking, Artifacts, AllOutputs, Places, Output, NoOutputs
<1> QED
  BY <1>1, <1>2, <1>3, <1>4

\* The new tree is in place.
LEMMA TreeRename == TreeInv /\ Rename => TreeInv'
<1> SUFFICES ASSUME TreeInv, Rename
             PROVE  TreeInv'
  OBVIOUS
<1> USE BundledTreeAssumption DEF TreeInv, disk, outside, product, Rename, Goto
<1>1. TreeTypeOK'
  BY DEF TreeTypeOK, Places, Unpacking, NoDir, NoFiles, NoOutputs, Output, Artifacts, HasFiles
<1>2. UnpackInv'
  BY DEF TreeTypeOK, UnpackInv, TrustInv, Unpacking, Places, Unpacked, HasFiles, NoDir, NoFiles, NoOutputs, Holding, Artifacts
<1>3. TrustInv'
  BY DEF TreeTypeOK, UnpackInv, TrustInv, TreeOf, Undisturbed, Unpacking, Holding, Places, Unpacked, HasFiles, NoDir, NoFiles, NoOutputs, Artifacts
<1>4. OutputInv'
  BY DEF TreeTypeOK, OutputInv, UnpackInv, Unpacking, Artifacts, AllOutputs, Places, Output, NoOutputs
<1> QED
  BY <1>1, <1>2, <1>3, <1>4

\* The marker is written.
LEMMA TreeMark == TreeInv /\ Mark => TreeInv'
<1> SUFFICES ASSUME TreeInv, Mark
             PROVE  TreeInv'
  OBVIOUS
<1> USE BundledTreeAssumption DEF TreeInv, disk, outside, product, Mark, Goto
<1>1. TreeTypeOK'
  BY DEF TreeTypeOK, Places, Unpacking, NoDir, NoFiles, NoOutputs, Output, Artifacts, HasFiles
<1>2. UnpackInv'
  BY DEF TreeTypeOK, UnpackInv, TrustInv, Unpacking, Places, Unpacked, HasFiles, NoDir, NoFiles, NoOutputs, Holding, Artifacts
<1>3. TrustInv'
  <2>1. pc = "mark" /\ pc' = "have" /\ memo' /\ marker' = stamp.mtime
    OBVIOUS
  <2>2. UNCHANGED <<zip, zipsSeen, tree, outs, replaced, reverted>>
    OBVIOUS
  <2>3. stamp.mtime \in Versions /\ tree = Unpacked(stamp.opened) /\ HasFiles(tree)
    BY <2>1 DEF TreeTypeOK, UnpackInv
  <2>4. Undisturbed => stamp.mtime = zip /\ stamp.opened = zip
    BY <2>1 DEF Undisturbed, UnpackInv, Unpacking
  <2>5. \A a \in Artifacts : outs[a] = None
    BY <2>1 DEF UnpackInv, NoOutputs
  <2>6. marker' \in zipsSeen
    BY <2>1 DEF TrustInv
  <2> QED
    BY <2>1, <2>2, <2>3, <2>4, <2>5, <2>6
       DEF TrustInv, TreeOf, Undisturbed, Unpacking, Holding, HasFiles
<1>4. OutputInv'
  BY DEF TreeTypeOK, OutputInv, UnpackInv, Unpacking, Artifacts, AllOutputs, Places, Output, NoOutputs
<1> QED
  BY <1>1, <1>2, <1>3, <1>4

\* An unpacking that is given up.
LEMMA TreeFail == TreeInv /\ FailUnpack => TreeInv'
<1> SUFFICES ASSUME TreeInv, FailUnpack
             PROVE  TreeInv'
  OBVIOUS
<1> USE BundledTreeAssumption DEF TreeInv, disk, outside, product, FailUnpack, Goto
<1>1. TreeTypeOK'
  <2>1. staging' \in [ex : BOOLEAN, files : [Parts -> Versions \cup {None}]]
    <3>1. CASE staging' = staging
      BY <3>1 DEF TreeTypeOK
    <3>2. ASSUME NEW stuck \in SUBSET Parts,
                 staging' = IF stuck = {} THEN NoDir
                            ELSE [staging EXCEPT !.files =
                                   [f \in Parts |-> IF f \in stuck THEN @[f] ELSE None]]
          PROVE  staging' \in [ex : BOOLEAN, files : [Parts -> Versions \cup {None}]]
      <4>1. [f \in Parts |-> IF f \in stuck THEN staging.files[f] ELSE None]
               \in [Parts -> Versions \cup {None}]
        BY DEF TreeTypeOK
      <4> QED
        BY <3>2, <4>1 DEF TreeTypeOK, NoDir, NoFiles
    <3> QED
      BY <3>1, <3>2
  <2>2. pc' \in Places
    BY DEF Places
  <2> QED
    BY <2>1, <2>2 DEF TreeTypeOK
<1>2. UnpackInv'
  BY DEF TreeTypeOK, UnpackInv, TrustInv, Unpacking, Places, Unpacked, HasFiles, NoDir, NoFiles, NoOutputs, Holding, Artifacts
<1>3. TrustInv'
  BY DEF TreeTypeOK, UnpackInv, TrustInv, TreeOf, Undisturbed, Unpacking, Holding, Places, Unpacked, HasFiles, NoDir, NoFiles, NoOutputs, Artifacts
<1>4. OutputInv'
  BY DEF TreeTypeOK, OutputInv, UnpackInv, Unpacking, Artifacts, AllOutputs, Places, Output, NoOutputs
<1> QED
  BY <1>1, <1>2, <1>3, <1>4

\* A build begins.
LEMMA TreeStartBuild == TreeInv /\ StartBuild => TreeInv'
<1> SUFFICES ASSUME TreeInv, StartBuild
             PROVE  TreeInv'
  OBVIOUS
<1> USE BundledTreeAssumption DEF TreeInv, disk, outside, product, StartBuild, Goto
<1>1. TreeTypeOK'
  BY DEF TreeTypeOK, Places, Unpacking, NoDir, NoFiles, NoOutputs, Output, Artifacts, HasFiles
<1>2. UnpackInv'
  BY DEF TreeTypeOK, UnpackInv, TrustInv, Unpacking, Places, Unpacked, HasFiles, NoDir, NoFiles, NoOutputs, Holding, Artifacts
<1>3. TrustInv'
  BY DEF TreeTypeOK, UnpackInv, TrustInv, TreeOf, Undisturbed, Unpacking, Holding, Places, Unpacked, HasFiles, NoDir, NoFiles, NoOutputs, Artifacts
<1>4. OutputInv'
  BY DEF TreeTypeOK, OutputInv, UnpackInv, Unpacking, Artifacts, AllOutputs, Places, Output, NoOutputs
<1> QED
  BY <1>1, <1>2, <1>3, <1>4

\* Its directory is emptied.
LEMMA TreeClean == TreeInv /\ CleanBuildDir => TreeInv'
<1> SUFFICES ASSUME TreeInv, CleanBuildDir
             PROVE  TreeInv'
  OBVIOUS
<1> USE BundledTreeAssumption DEF TreeInv, disk, outside, product, CleanBuildDir, Goto
<1>1. TreeTypeOK'
  BY DEF TreeTypeOK, Places, Unpacking, NoDir, NoFiles, NoOutputs, Output, Artifacts, HasFiles
<1>2. UnpackInv'
  BY DEF TreeTypeOK, UnpackInv, TrustInv, Unpacking, Places, Unpacked, HasFiles, NoDir, NoFiles, NoOutputs, Holding, Artifacts
<1>3. TrustInv'
  BY DEF TreeTypeOK, UnpackInv, TrustInv, TreeOf, Undisturbed, Unpacking, Holding, Places, Unpacked, HasFiles, NoDir, NoFiles, NoOutputs, Artifacts
<1>4. OutputInv'
  BY DEF TreeTypeOK, OutputInv, UnpackInv, Unpacking, Artifacts, AllOutputs, Places, Output, NoOutputs
<1> QED
  BY <1>1, <1>2, <1>3, <1>4

\* The caller is done.
LEMMA TreeReturn == TreeInv /\ Return => TreeInv'
<1> SUFFICES ASSUME TreeInv, Return
             PROVE  TreeInv'
  OBVIOUS
<1> USE BundledTreeAssumption DEF TreeInv, disk, outside, product, Return, Goto
<1>1. TreeTypeOK'
  BY DEF TreeTypeOK, Places, Unpacking, NoDir, NoFiles, NoOutputs, Output, Artifacts, HasFiles
<1>2. UnpackInv'
  BY DEF TreeTypeOK, UnpackInv, TrustInv, Unpacking, Places, Unpacked, HasFiles, NoDir, NoFiles, NoOutputs, Holding, Artifacts
<1>3. TrustInv'
  BY DEF TreeTypeOK, UnpackInv, TrustInv, TreeOf, Undisturbed, Unpacking, Holding, Places, Unpacked, HasFiles, NoDir, NoFiles, NoOutputs, Artifacts
<1>4. OutputInv'
  BY DEF TreeTypeOK, OutputInv, UnpackInv, Unpacking, Artifacts, AllOutputs, Places, Output, NoOutputs
<1> QED
  BY <1>1, <1>2, <1>3, <1>4

\* A deploy finds both artifacts.
LEMMA TreeStartDeploy == TreeInv /\ StartDeploy => TreeInv'
<1> SUFFICES ASSUME TreeInv, StartDeploy
             PROVE  TreeInv'
  OBVIOUS
<1> USE BundledTreeAssumption DEF TreeInv, disk, outside, product, StartDeploy, Goto
<1>1. TreeTypeOK'
  BY DEF TreeTypeOK, Places, Unpacking, NoDir, NoFiles, NoOutputs, Output, Artifacts, HasFiles
<1>2. UnpackInv'
  BY DEF TreeTypeOK, UnpackInv, TrustInv, Unpacking, Places, Unpacked, HasFiles, NoDir, NoFiles, NoOutputs, Holding, Artifacts
<1>3. TrustInv'
  BY DEF TreeTypeOK, UnpackInv, TrustInv, TreeOf, Undisturbed, Unpacking, Holding, Places, Unpacked, HasFiles, NoDir, NoFiles, NoOutputs, Artifacts
<1>4. OutputInv'
  BY DEF TreeTypeOK, OutputInv, UnpackInv, Unpacking, Artifacts, AllOutputs, Places, Output, NoOutputs
<1> QED
  BY <1>1, <1>2, <1>3, <1>4

\* An artifact is compiled.
LEMMA TreeEmit == TreeInv /\ (\E a \in Artifacts : Emit(a)) => TreeInv'
<1> SUFFICES ASSUME TreeInv, (\E a \in Artifacts : Emit(a))
             PROVE  TreeInv'
  OBVIOUS
<1> USE BundledTreeAssumption DEF TreeInv, disk, outside, product, Emit
<1>1. TreeTypeOK'
  <2>1. PICK a \in Artifacts : Emit(a)
    OBVIOUS
  <2>2. tree.files[ModPart] \in Versions /\ builds \in 1 .. MaxBuilds
    BY <2>1 DEF TreeTypeOK, OutputInv
  <2>3. outs' \in [Artifacts -> Output \cup {None}]
    BY <2>1, <2>2 DEF TreeTypeOK, Output
  <2> QED
    BY <2>1, <2>3 DEF TreeTypeOK
<1>2. UnpackInv'
  BY DEF TreeTypeOK, UnpackInv, TrustInv, Unpacking, Places, Unpacked, HasFiles, NoDir, NoFiles, NoOutputs, Holding, Artifacts
<1>3. TrustInv'
  BY DEF TreeTypeOK, UnpackInv, TrustInv, TreeOf, Undisturbed, Unpacking, Holding, Places, Unpacked, HasFiles, NoDir, NoFiles, NoOutputs, Artifacts
<1>4. OutputInv'
  BY DEF TreeTypeOK, OutputInv, UnpackInv, Unpacking, Artifacts, AllOutputs, Places, Output, NoOutputs
<1> QED
  BY <1>1, <1>2, <1>3, <1>4

\* An artifact is copied.
LEMMA TreeCopy == TreeInv /\ (\E a \in Artifacts : Copy(a)) => TreeInv'
<1> SUFFICES ASSUME TreeInv, (\E a \in Artifacts : Copy(a))
             PROVE  TreeInv'
  OBVIOUS
<1> USE BundledTreeAssumption DEF TreeInv, disk, outside, product, Copy, Goto, AfterCopy
<1>1. TreeTypeOK'
  BY DEF TreeTypeOK, Places, Unpacking, NoDir, NoFiles, NoOutputs, Output, Artifacts, HasFiles
<1>2. UnpackInv'
  BY DEF TreeTypeOK, UnpackInv, TrustInv, Unpacking, Places, Unpacked, HasFiles, NoDir, NoFiles, NoOutputs, Holding, Artifacts
<1>3. TrustInv'
  BY DEF TreeTypeOK, UnpackInv, TrustInv, TreeOf, Undisturbed, Unpacking, Holding, Places, Unpacked, HasFiles, NoDir, NoFiles, NoOutputs, Artifacts
<1>4. OutputInv'
  BY DEF TreeTypeOK, OutputInv, UnpackInv, Unpacking, Artifacts, AllOutputs, Places, Output, NoOutputs
<1> QED
  BY <1>1, <1>2, <1>3, <1>4

\* A copy fails.
LEMMA TreeCopyFails == TreeInv /\ (\E a \in Artifacts : CopyFails(a)) => TreeInv'
<1> SUFFICES ASSUME TreeInv, (\E a \in Artifacts : CopyFails(a))
             PROVE  TreeInv'
  OBVIOUS
<1> USE BundledTreeAssumption DEF TreeInv, disk, outside, product, CopyFails, Goto
<1>1. TreeTypeOK'
  BY DEF TreeTypeOK, Places, Unpacking, NoDir, NoFiles, NoOutputs, Output, Artifacts, HasFiles
<1>2. UnpackInv'
  BY DEF TreeTypeOK, UnpackInv, TrustInv, Unpacking, Places, Unpacked, HasFiles, NoDir, NoFiles, NoOutputs, Holding, Artifacts
<1>3. TrustInv'
  BY DEF TreeTypeOK, UnpackInv, TrustInv, TreeOf, Undisturbed, Unpacking, Holding, Places, Unpacked, HasFiles, NoDir, NoFiles, NoOutputs, Artifacts
<1>4. OutputInv'
  BY DEF TreeTypeOK, OutputInv, UnpackInv, Unpacking, Artifacts, AllOutputs, Places, Output, NoOutputs
<1> QED
  BY <1>1, <1>2, <1>3, <1>4

\* Another release is installed.
LEMMA TreeReplace == TreeInv /\ (\E v \in Versions : ReplaceApworld(v)) => TreeInv'
<1> SUFFICES ASSUME TreeInv, (\E v \in Versions : ReplaceApworld(v))
             PROVE  TreeInv'
  OBVIOUS
<1> USE BundledTreeAssumption DEF TreeInv, disk, outside, product, ReplaceApworld
<1>1. TreeTypeOK'
  BY DEF TreeTypeOK, Places, Unpacking, NoDir, NoFiles, NoOutputs, Output, Artifacts, HasFiles
<1>2. UnpackInv'
  <2>1. ~replaced' => pc \notin Unpacking /\ ~replaced
    BY DEF Unpacking
  <2>2. pc' = pc /\ UNCHANGED <<memo, stamp, staging, todo, tree, marker, outs>>
    OBVIOUS
  <2> QED
    BY <2>1, <2>2 DEF UnpackInv, HasFiles
<1>3. TrustInv'
  <2>1. PICK v \in Versions : ReplaceApworld(v)
    OBVIOUS
  <2>2. ~reverted' => ~reverted /\ v \notin zipsSeen
    BY <2>1
  <2>3. Undisturbed' => Undisturbed /\ marker' # zip' /\ pc' \notin Unpacking
    BY <2>1, <2>2 DEF Undisturbed, TrustInv
  <2>4. /\ pc' = pc /\ zip' \in zipsSeen' /\ zipsSeen \subseteq zipsSeen'
        /\ UNCHANGED <<memo, staging, tree, marker, outs>>
    BY <2>1
  <2> QED
    BY <2>3, <2>4 DEF TrustInv, TreeOf, HasFiles
<1>4. OutputInv'
  BY DEF TreeTypeOK, OutputInv, UnpackInv, Unpacking, Artifacts, AllOutputs, Places, Output, NoOutputs
<1> QED
  BY <1>1, <1>2, <1>3, <1>4

\* The process is started again.
LEMMA TreeRestart == TreeInv /\ Restart => TreeInv'
<1> SUFFICES ASSUME TreeInv, Restart
             PROVE  TreeInv'
  OBVIOUS
<1> USE BundledTreeAssumption DEF TreeInv, disk, outside, product, Restart
<1>1. TreeTypeOK'
  <2>1. memo' \in BOOLEAN /\ pc' \in Places
    BY DEF Places
  <2>2. swaps' \in 0 .. MaxSwaps
    BY DEF TreeTypeOK
  <2> QED
    BY <2>1, <2>2 DEF TreeTypeOK
<1>2. UnpackInv'
  BY DEF TreeTypeOK, UnpackInv, TrustInv, Unpacking, Places, Unpacked, HasFiles, NoDir, NoFiles, NoOutputs, Holding, Artifacts
<1>3. TrustInv'
  BY DEF TreeTypeOK, UnpackInv, TrustInv, TreeOf, Undisturbed, Unpacking, Holding, Places, Unpacked, HasFiles, NoDir, NoFiles, NoOutputs, Artifacts
<1>4. OutputInv'
  BY DEF TreeTypeOK, OutputInv, UnpackInv, Unpacking, Artifacts, AllOutputs, Places, Output, NoOutputs
<1> QED
  BY <1>1, <1>2, <1>3, <1>4
\* Before the first call: no tree, no artifact.
LEMMA TreeInitInv == TreeInit => TreeInv
<1> SUFFICES ASSUME TreeInit
             PROVE  TreeInv
  OBVIOUS
<1> USE BundledTreeAssumption DEF TreeInit
<1>1. /\ NoDir \in [ex : BOOLEAN, files : [Parts -> Versions \cup {None}]]
      /\ NoOutputs \in [Artifacts -> Output \cup {None}]
  BY DEF NoDir, NoFiles, NoOutputs
<1>2. TreeTypeOK
  <2>1. /\ zip \in Versions /\ zipsSeen \subseteq Versions /\ pc \in Places
        /\ todo \in SUBSET Parts /\ stamp \in [mtime : Versions, opened : Versions]
        /\ builds \in 0 .. MaxBuilds /\ swaps \in 0 .. MaxSwaps
    BY DEF Places
  <2>2. {replaced, reverted} \subseteq BOOLEAN /\ memo \in BOOLEAN
    OBVIOUS
  <2> QED
    BY <1>1, <2>1, <2>2 DEF TreeTypeOK
<1>3. UnpackInv
  BY DEF UnpackInv, Unpacking
<1>4. TrustInv
  BY DEF TrustInv, Unpacking, Holding
<1>5. OutputInv
  BY DEF OutputInv, NoOutputs, Artifacts
<1> QED
  BY <1>2, <1>3, <1>4, <1>5 DEF TreeInv

\* The four parts are inductive together.
LEMMA TreeNextInv == TreeInv /\ [TreeNext]_treeVars => TreeInv'
<1>1. ASSUME TreeInv, TreeNext
      PROVE  TreeInv'
  BY <1>1, TreeBegin, TreeClear, TreeUnpack, TreeVerify, TreeWipe, TreeRename, TreeMark, TreeFail,
     TreeStartBuild, TreeClean, TreeReturn, TreeStartDeploy, TreeEmit, TreeCopy, TreeCopyFails,
     TreeReplace, TreeRestart DEF TreeNext
<1>2. ASSUME TreeInv, UNCHANGED treeVars
      PROVE  TreeInv'
  BY <1>2 DEF treeVars, TreeInv, TreeTypeOK, UnpackInv, TrustInv, TreeOf, OutputInv, Undisturbed,
              HasFiles, AllOutputs
<1> QED
  BY <1>1, <1>2

\* Whatever crashes, fails or is replaced, and when.
THEOREM TreeInvariance == TreeSpec => []TreeInv
BY TreeInitInv, TreeNextInv, PTL DEF TreeSpec

\* Every variable of the bundled tree keeps its type.
THEOREM TreeTypeCorrect == TreeSpec => []TreeTypeOK
<1>1. TreeInv => TreeTypeOK
  BY DEF TreeInv
<1> QED
  BY <1>1, TreeInvariance, PTL

\* For any releases and any parts: a tree that the freshness check accepts is the
\* whole tree of the installed release, whatever step of an unpacking crashed or
\* failed before (_extract_bundled_tree, "the marker file is the LAST thing written").
THEOREM TreeIsTrustworthy == TreeSpec => []TreeTrusted
<1>1. TreeInv => TreeTrusted
  BY DEF TreeInv, TrustInv, TreeOf, TreeTrusted, Fresh
<1> QED
  BY <1>1, TreeInvariance, PTL

\* Only the copy of the second artifact ends a deploy well.
LEMMA DeployStep ==
  TreeInv /\ TreeNext /\ report' = "ok" /\ report # "ok" =>
    /\ deployed'["subsdk9"] # None /\ deployed'["subsdk9"] = deployed'["main.npdm"]
    /\ Undisturbed' => deployed'["subsdk9"].src = marker
<1> SUFFICES ASSUME TreeInv, TreeNext, report' = "ok", report # "ok"
             PROVE  /\ deployed'["subsdk9"] # None
                    /\ deployed'["subsdk9"] = deployed'["main.npdm"]
                    /\ Undisturbed' => deployed'["subsdk9"].src = marker
  OBVIOUS
<1> USE DEF TreeInv
<1>1. Copy("main.npdm")
  BY DEF TreeNext, Artifacts, disk, outside, product, Begin, ClearStaging, Unpack, Verify, WipeTree,
         Rename, Mark, FailUnpack, StartBuild, CleanBuildDir, Return, StartDeploy, Emit, Copy,
         CopyFails, ReplaceApworld, Restart
<1>2. /\ pc = "main.npdm" /\ outs["main.npdm"] # None
      /\ deployed' = [deployed EXCEPT !["main.npdm"] = outs["main.npdm"]]
      /\ UNCHANGED <<replaced, reverted>>
  BY <1>1 DEF Copy, outside
<1>3. /\ outs["subsdk9"] # None /\ outs["subsdk9"] = outs["main.npdm"]
      /\ deployed["subsdk9"] = outs["subsdk9"]
  BY <1>2 DEF OutputInv, AllOutputs, Artifacts
<1>4. /\ deployed'["subsdk9"] = outs["main.npdm"]
      /\ deployed'["main.npdm"] = outs["main.npdm"]
  BY <1>2, <1>3 DEF TreeTypeOK, Artifacts
<1>5. Undisturbed' => outs["main.npdm"].src = marker
  BY <1>2 DEF Undisturbed, TrustInv, TreeOf, Holding, Artifacts
<1> QED
  BY <1>2, <1>3, <1>4, <1>5

\* A deploy that is reported complete left two whole artifacts of one build on the
\* target, compiled from the sources of the unpacked release, for any number of builds,
\* failed copies and upgrades (collect_build_outputs, _copy_files, shutil.rmtree).
THEOREM DeployIsWhole == TreeSpec => DeployedFromTree
<1>1. TreeInv /\ [TreeNext]_treeVars =>
        [report' = "ok" /\ report # "ok" =>
           /\ deployed'["subsdk9"] # None /\ deployed'["subsdk9"] = deployed'["main.npdm"]
           /\ Undisturbed' => deployed'["subsdk9"].src = marker]_treeVars
  BY DeployStep
<1> QED
  BY <1>1, TreeInvariance, PTL DEF TreeSpec, DeployedFromTree

(***************************************************************************)
(* MapExtraction.                                                          *)
(***************************************************************************)

\* An extractor was given a dump; one that writes has something to write.
ExtractorInv ==
  \A p \in Extractors :
    /\ stage[p] # "none" => source[p] \in Dumps
    /\ stage[p] \in MapFiles => parsed[p] # "nothing"

\* Who can be writing: an extractor runs only in a job, or without the wizard.
WriterInv ==
  /\ job # "running" => stage["child"] = "none"
  /\ ~orphaned => stage["orphan"] = "none"

\* A job that ended well left canonical tables, and so did the last touch.
MapGateInv ==
  ~orphaned => /\ job = "ok" => CanonicalMaps
               /\ stamps > 0 => job = "ok"

\* What the client has read since the touch it took the time of.
ClientInv ==
  /\ mark <= stamps /\ reload.taken <= stamps
  /\ ~reload.on => reload.left = {}
  /\ ~orphaned /\ ~unread =>
       /\ mark > 0 => \A f \in MapFiles : client[f] = "canonical"
       /\ reload.on /\ reload.taken > 0 =>
            \A f \in MapFiles \ reload.left : client[f] = "canonical"

MapInv == MapTypeOK /\ ExtractorInv /\ WriterInv /\ MapGateInv /\ ClientInv

\* The environment of the extractor.
LEMMA MapBootstrap == MapInv /\ (\E p \in Extractors : Bootstrap(p)) => MapInv'
<1> SUFFICES ASSUME MapInv, (\E p \in Extractors : Bootstrap(p))
             PROVE  MapInv'
  OBVIOUS
<1> USE MapExtractionAssumption DEF MapInv, files, process, wizardSide, clientSide, Bootstrap, At, To
<1>1. MapTypeOK'
  BY DEF MapTypeOK, MapFiles, RomFiles, RomState, Tables, Extractors, NoReload
<1>2. ExtractorInv'
  BY DEF MapTypeOK, ExtractorInv, Extractors, MapFiles
<1>3. WriterInv'
  BY DEF MapTypeOK, WriterInv, Extractors
<1>4. MapGateInv'
  BY DEF MapTypeOK, WriterInv, MapGateInv, CanonicalMaps, MapFiles, Extractors
<1>5. ClientInv'
  BY DEF MapTypeOK, ClientInv, MapGateInv, CanonicalMaps, MapFiles, NoReload
<1> QED
  BY <1>1, <1>2, <1>3, <1>4, <1>5

\* Its package.
LEMMA MapPip == MapInv /\ (\E p \in Extractors : PipInstall(p)) => MapInv'
<1> SUFFICES ASSUME MapInv, (\E p \in Extractors : PipInstall(p))
             PROVE  MapInv'
  OBVIOUS
<1> USE MapExtractionAssumption DEF MapInv, files, process, wizardSide, clientSide, PipInstall, At, To
<1>1. MapTypeOK'
  BY DEF MapTypeOK, MapFiles, RomFiles, RomState, Tables, Extractors, NoReload
<1>2. ExtractorInv'
  BY DEF MapTypeOK, ExtractorInv, Extractors, MapFiles
<1>3. WriterInv'
  BY DEF MapTypeOK, WriterInv, Extractors
<1>4. MapGateInv'
  BY DEF MapTypeOK, WriterInv, MapGateInv, CanonicalMaps, MapFiles, Extractors
<1>5. ClientInv'
  BY DEF MapTypeOK, ClientInv, MapGateInv, CanonicalMaps, MapFiles, NoReload
<1> QED
  BY <1>1, <1>2, <1>3, <1>4, <1>5

\* The cache of the RomFS.
LEMMA MapOpenRomfs == MapInv /\ (\E p \in Extractors : OpenRomfs(p)) => MapInv'
<1> SUFFICES ASSUME MapInv, (\E p \in Extractors : OpenRomfs(p))
             PROVE  MapInv'
  OBVIOUS
<1> USE MapExtractionAssumption DEF MapInv, files, process, wizardSide, clientSide, OpenRomfs, At, To
<1>1. MapTypeOK'
  BY DEF MapTypeOK, MapFiles, RomFiles, RomState, Tables, Extractors, NoReload
<1>2. ExtractorInv'
  BY DEF MapTypeOK, ExtractorInv, Extractors, MapFiles
<1>3. WriterInv'
  BY DEF MapTypeOK, WriterInv, Extractors
<1>4. MapGateInv'
  BY DEF MapTypeOK, WriterInv, MapGateInv, CanonicalMaps, MapFiles, Extractors
<1>5. ClientInv'
  BY DEF MapTypeOK, ClientInv, MapGateInv, CanonicalMaps, MapFiles, NoReload
<1> QED
  BY <1>1, <1>2, <1>3, <1>4, <1>5

\* A file of it.
LEMMA MapHactool == MapInv /\ (\E p \in Extractors : HactoolFile(p)) => MapInv'
<1> SUFFICES ASSUME MapInv, (\E p \in Extractors : HactoolFile(p))
             PROVE  MapInv'
  OBVIOUS
<1> USE MapExtractionAssumption DEF MapInv, files, process, wizardSide, clientSide, HactoolFile, HactoolFails, At, To
<1>1. MapTypeOK'
  <2>1. PICK p \in Extractors : HactoolFile(p)
    OBVIOUS
  <2>2. source[p] \in RomState
    BY <2>1 DEF ExtractorInv, RomState
  <2>3. romfs' \in [RomFiles -> RomState]
    BY <2>1, <2>2 DEF MapTypeOK
  <2> QED
    BY <2>1, <2>3 DEF MapTypeOK, Extractors
<1>2. ExtractorInv'
  BY DEF MapTypeOK, ExtractorInv, Extractors, MapFiles
<1>3. WriterInv'
  BY DEF MapTypeOK, WriterInv, Extractors
<1>4. MapGateInv'
  BY DEF MapTypeOK, WriterInv, MapGateInv, CanonicalMaps, MapFiles, Extractors
<1>5. ClientInv'
  BY DEF MapTypeOK, ClientInv, MapGateInv, CanonicalMaps, MapFiles, NoReload
<1> QED
  BY <1>1, <1>2, <1>3, <1>4, <1>5

\* A table is made and its file opened.
LEMMA MapParse == MapInv /\ (\E p \in Extractors : ParseMoons(p) \/ ParseCaptures(p)) => MapInv'
<1> SUFFICES ASSUME MapInv, (\E p \in Extractors : ParseMoons(p) \/ ParseCaptures(p))
             PROVE  MapInv'
  OBVIOUS
<1> USE MapExtractionAssumption DEF MapInv, files, process, wizardSide, clientSide, ParseMoons, ParseCaptures, ParseTable, Yield, At, To
<1>1. MapTypeOK'
  BY DEF MapTypeOK, MapFiles, RomFiles, RomState, Tables, Extractors, NoReload
<1>2. ExtractorInv'
  BY DEF MapTypeOK, ExtractorInv, Extractors, MapFiles
<1>3. WriterInv'
  BY DEF MapTypeOK, WriterInv, Extractors
<1>4. MapGateInv'
  BY DEF MapTypeOK, WriterInv, MapGateInv, CanonicalMaps, MapFiles, Extractors
<1>5. ClientInv'
  BY DEF MapTypeOK, ClientInv, MapGateInv, CanonicalMaps, MapFiles, NoReload
<1> QED
  BY <1>1, <1>2, <1>3, <1>4, <1>5

\* A table is written.
LEMMA MapWrite == MapInv /\ (\E p \in Extractors : \E f \in MapFiles : WriteTable(p, f)) => MapInv'
<1> SUFFICES ASSUME MapInv, (\E p \in Extractors : \E f \in MapFiles : WriteTable(p, f))
             PROVE  MapInv'
  OBVIOUS
<1> USE MapExtractionAssumption DEF MapInv, files, process, wizardSide, clientSide, WriteTable, At, To
<1>1. MapTypeOK'
  <2>1. PICK p \in Extractors, f \in MapFiles : WriteTable(p, f)
    OBVIOUS
  <2>2. parsed[p] \in Tables
    BY <2>1 DEF MapTypeOK, ExtractorInv, Tables
  <2>3. maps' \in [MapFiles -> Tables]
    BY <2>1, <2>2 DEF MapTypeOK
  <2> QED
    BY <2>1, <2>3 DEF MapTypeOK, MapFiles
<1>2. ExtractorInv'
  BY DEF MapTypeOK, ExtractorInv, Extractors, MapFiles
<1>3. WriterInv'
  <2>1. PICK p \in Extractors, f \in MapFiles : WriteTable(p, f)
    OBVIOUS
  <2>2. stage[p] # "none" /\ \A q \in Extractors : q # p => stage'[q] = stage[q]
    BY <2>1 DEF MapTypeOK, MapFiles
  <2> QED
    BY <2>1, <2>2 DEF WriterInv, Extractors
<1>4. MapGateInv'
  BY DEF MapTypeOK, WriterInv, MapGateInv, CanonicalMaps, MapFiles, Extractors
<1>5. ClientInv'
  BY DEF MapTypeOK, ClientInv, MapGateInv, CanonicalMaps, MapFiles, NoReload
<1> QED
  BY <1>1, <1>2, <1>3, <1>4, <1>5

\* The end of an extractor nobody waits for.
LEMMA MapOrphanEnds == MapInv /\ OrphanEnds => MapInv'
<1> SUFFICES ASSUME MapInv, OrphanEnds
             PROVE  MapInv'
  OBVIOUS
<1> USE MapExtractionAssumption DEF MapInv, files, process, wizardSide, clientSide, OrphanEnds, To
<1>1. MapTypeOK'
  BY DEF MapTypeOK, MapFiles, RomFiles, RomState, Tables, Extractors, NoReload
<1>2. ExtractorInv'
  BY DEF MapTypeOK, ExtractorInv, Extractors, MapFiles
<1>3. WriterInv'
  BY DEF MapTypeOK, WriterInv, Extractors
<1>4. MapGateInv'
  BY DEF MapTypeOK, WriterInv, MapGateInv, CanonicalMaps, MapFiles, Extractors
<1>5. ClientInv'
  BY DEF MapTypeOK, ClientInv, MapGateInv, CanonicalMaps, MapFiles, NoReload
<1> QED
  BY <1>1, <1>2, <1>3, <1>4, <1>5

\* A dump is picked.
LEMMA MapPick == MapInv /\ (\E d \in Dumps : PickDump(d)) => MapInv'
<1> SUFFICES ASSUME MapInv, (\E d \in Dumps : PickDump(d))
             PROVE  MapInv'
  OBVIOUS
<1> USE MapExtractionAssumption DEF MapInv, files, process, wizardSide, clientSide, PickDump
<1>1. MapTypeOK'
  BY DEF MapTypeOK, MapFiles, RomFiles, RomState, Tables, Extractors, NoReload
<1>2. ExtractorInv'
  BY DEF MapTypeOK, ExtractorInv, Extractors, MapFiles
<1>3. WriterInv'
  BY DEF MapTypeOK, WriterInv, Extractors
<1>4. MapGateInv'
  BY DEF MapTypeOK, WriterInv, MapGateInv, CanonicalMaps, MapFiles, Extractors
<1>5. ClientInv'
  BY DEF MapTypeOK, ClientInv, MapGateInv, CanonicalMaps, MapFiles, NoReload
<1> QED
  BY <1>1, <1>2, <1>3, <1>4, <1>5

\* A job: the hash check, no dump, or the extractor.
LEMMA MapStart == MapInv /\ StartJob => MapInv'
<1> SUFFICES ASSUME MapInv, StartJob
             PROVE  MapInv'
  OBVIOUS
<1> USE MapExtractionAssumption DEF MapInv, files, process, wizardSide, clientSide, StartJob, Touch, At, To
<1>1. MapTypeOK'
  BY DEF MapTypeOK, MapFiles, RomFiles, RomState, Tables, Extractors, NoReload
<1>2. ExtractorInv'
  BY DEF MapTypeOK, ExtractorInv, Extractors, MapFiles
<1>3. WriterInv'
  BY DEF MapTypeOK, WriterInv, Extractors
<1>4. MapGateInv'
  BY DEF MapTypeOK, WriterInv, MapGateInv, CanonicalMaps, MapFiles, Extractors
<1>5. ClientInv'
  BY DEF MapTypeOK, ClientInv, MapGateInv, CanonicalMaps, MapFiles, NoReload
<1> QED
  BY <1>1, <1>2, <1>3, <1>4, <1>5

\* The extractor is done.
LEMMA MapChildExits == MapInv /\ ChildExits => MapInv'
<1> SUFFICES ASSUME MapInv, ChildExits
             PROVE  MapInv'
  OBVIOUS
<1> USE MapExtractionAssumption DEF MapInv, files, process, wizardSide, clientSide, ChildExits, At, To
<1>1. MapTypeOK'
  BY DEF MapTypeOK, MapFiles, RomFiles, RomState, Tables, Extractors, NoReload
<1>2. ExtractorInv'
  BY DEF MapTypeOK, ExtractorInv, Extractors, MapFiles
<1>3. WriterInv'
  BY DEF MapTypeOK, WriterInv, Extractors
<1>4. MapGateInv'
  BY DEF MapTypeOK, WriterInv, MapGateInv, CanonicalMaps, MapFiles, Extractors
<1>5. ClientInv'
  BY DEF MapTypeOK, ClientInv, MapGateInv, CanonicalMaps, MapFiles, NoReload
<1> QED
  BY <1>1, <1>2, <1>3, <1>4, <1>5

\* A job is cut short.
LEMMA MapCut == MapInv /\ (Timeout \/ WizardEnds) => MapInv'
<1> SUFFICES ASSUME MapInv, (Timeout \/ WizardEnds)
             PROVE  MapInv'
  OBVIOUS
<1> USE MapExtractionAssumption DEF MapInv, files, process, wizardSide, clientSide, Timeout, WizardEnds, CutChild, At, To
<1>1. MapTypeOK'
  <2>1. romfs' \in [RomFiles -> RomState]
    BY DEF MapTypeOK, RomState
  <2>2. /\ stage' \in [Extractors -> MapFiles \cup {"none", "boot", "pip", "romfs", "unpack",
                                 "parse", "captures", "failed", "succeeded"}]
        /\ source' \in [Extractors -> Dumps \cup {"none"}]
        /\ parsed' \in [Extractors -> {"canonical", "foreign", "nothing"}]
    BY DEF MapTypeOK, Extractors
  <2>3. orphaned' \in BOOLEAN
    BY DEF MapTypeOK
  <2> QED
    BY <2>1, <2>2, <2>3 DEF MapTypeOK
<1>2. ExtractorInv'
  BY DEF MapTypeOK, ExtractorInv, Extractors, MapFiles
<1>3. WriterInv'
  BY DEF MapTypeOK, WriterInv, Extractors
<1>4. MapGateInv'
  BY DEF MapTypeOK, WriterInv, MapGateInv, CanonicalMaps, MapFiles, Extractors
<1>5. ClientInv'
  BY DEF MapTypeOK, ClientInv, MapGateInv, CanonicalMaps, MapFiles, NoReload
<1> QED
  BY <1>1, <1>2, <1>3, <1>4, <1>5

\* The hard gate.
LEMMA MapFinish == MapInv /\ FinishJob => MapInv'
<1> SUFFICES ASSUME MapInv, FinishJob
             PROVE  MapInv'
  OBVIOUS
<1> USE MapExtractionAssumption DEF MapInv, files, process, wizardSide, clientSide, FinishJob, Outcome, Touch
<1>1. MapTypeOK'
  BY DEF MapTypeOK, MapFiles, RomFiles, RomState, Tables, Extractors, NoReload
<1>2. ExtractorInv'
  BY DEF MapTypeOK, ExtractorInv, Extractors, MapFiles
<1>3. WriterInv'
  BY DEF MapTypeOK, WriterInv, Extractors
<1>4. MapGateInv'
  BY DEF MapTypeOK, WriterInv, MapGateInv, CanonicalMaps, MapFiles, Extractors
<1>5. ClientInv'
  BY DEF MapTypeOK, ClientInv, MapGateInv, CanonicalMaps, MapFiles, NoReload
<1> QED
  BY <1>1, <1>2, <1>3, <1>4, <1>5

\* The client starts.
LEMMA MapClient == MapInv /\ StartClient => MapInv'
<1> SUFFICES ASSUME MapInv, StartClient
             PROVE  MapInv'
  OBVIOUS
<1> USE MapExtractionAssumption DEF MapInv, files, process, wizardSide, clientSide, StartClient
<1>1. MapTypeOK'
  <2>1. client' \in [MapFiles -> Tables \ {"torn"}]
    BY DEF MapTypeOK
  <2>2. reload' \in [left : SUBSET MapFiles, taken : Nat, on : BOOLEAN] /\ mark' \in Nat
    BY DEF NoReload
  <2>3. unread' \in BOOLEAN
    OBVIOUS
  <2> QED
    BY <2>1, <2>2, <2>3 DEF MapTypeOK
<1>2. ExtractorInv'
  BY DEF MapTypeOK, ExtractorInv, Extractors, MapFiles
<1>3. WriterInv'
  BY DEF MapTypeOK, WriterInv, Extractors
<1>4. MapGateInv'
  BY DEF MapTypeOK, WriterInv, MapGateInv, CanonicalMaps, MapFiles, Extractors
<1>5. ClientInv'
  BY DEF MapTypeOK, ClientInv, MapGateInv, CanonicalMaps, MapFiles, NoReload
<1> QED
  BY <1>1, <1>2, <1>3, <1>4, <1>5

\* The sentinel is read.
LEMMA MapBegin == MapInv /\ (\E force \in BOOLEAN : BeginReload(force)) => MapInv'
<1> SUFFICES ASSUME MapInv, (\E force \in BOOLEAN : BeginReload(force))
             PROVE  MapInv'
  OBVIOUS
<1> USE MapExtractionAssumption DEF MapInv, files, process, wizardSide, clientSide, BeginReload
<1>1. MapTypeOK'
  BY DEF MapTypeOK, MapFiles, RomFiles, RomState, Tables, Extractors, NoReload
<1>2. ExtractorInv'
  BY DEF MapTypeOK, ExtractorInv, Extractors, MapFiles
<1>3. WriterInv'
  BY DEF MapTypeOK, WriterInv, Extractors
<1>4. MapGateInv'
  BY DEF MapTypeOK, WriterInv, MapGateInv, CanonicalMaps, MapFiles, Extractors
<1>5. ClientInv'
  BY DEF MapTypeOK, ClientInv, MapGateInv, CanonicalMaps, MapFiles, NoReload
<1> QED
  BY <1>1, <1>2, <1>3, <1>4, <1>5

\* A table is read again.
LEMMA MapReload == MapInv /\ (\E f \in MapFiles : ReloadOne(f)) => MapInv'
<1> SUFFICES ASSUME MapInv, (\E f \in MapFiles : ReloadOne(f))
             PROVE  MapInv'
  OBVIOUS
<1> USE MapExtractionAssumption DEF MapInv, files, process, wizardSide, clientSide, ReloadOne, Readable
<1>1. MapTypeOK'
  <2>1. PICK f \in MapFiles : ReloadOne(f)
    OBVIOUS
  <2>2. client' \in [MapFiles -> Tables \ {"torn"}]
    BY <2>1 DEF MapTypeOK, Tables
  <2>3. reload' \in [left : SUBSET MapFiles, taken : Nat, on : BOOLEAN]
    BY <2>1 DEF MapTypeOK
  <2>4. unread' \in BOOLEAN
    BY <2>1 DEF MapTypeOK
  <2> QED
    BY <2>1, <2>2, <2>3, <2>4 DEF MapTypeOK
<1>2. ExtractorInv'
  BY DEF MapTypeOK, ExtractorInv, Extractors, MapFiles
<1>3. WriterInv'
  BY DEF MapTypeOK, WriterInv, Extractors
<1>4. MapGateInv'
  BY DEF MapTypeOK, WriterInv, MapGateInv, CanonicalMaps, MapFiles, Extractors
<1>5. ClientInv'
  BY DEF MapTypeOK, ClientInv, MapGateInv, CanonicalMaps, MapFiles, NoReload
<1> QED
  BY <1>1, <1>2, <1>3, <1>4, <1>5

\* The watermark advances.
LEMMA MapEndReload == MapInv /\ EndReload => MapInv'
<1> SUFFICES ASSUME MapInv, EndReload
             PROVE  MapInv'
  OBVIOUS
<1> USE MapExtractionAssumption DEF MapInv, files, process, wizardSide, clientSide, EndReload, Watermark
<1>1. MapTypeOK'
  BY DEF MapTypeOK, MapFiles, RomFiles, RomState, Tables, Extractors, NoReload
<1>2. ExtractorInv'
  BY DEF MapTypeOK, ExtractorInv, Extractors, MapFiles
<1>3. WriterInv'
  BY DEF MapTypeOK, WriterInv, Extractors
<1>4. MapGateInv'
  BY DEF MapTypeOK, WriterInv, MapGateInv, CanonicalMaps, MapFiles, Extractors
<1>5. ClientInv'
  BY DEF MapTypeOK, ClientInv, MapGateInv, CanonicalMaps, MapFiles, NoReload
<1> QED
  BY <1>1, <1>2, <1>3, <1>4, <1>5
\* Before the first job: no table, no client.
LEMMA MapInitInv == MapInit => MapInv
<1> SUFFICES ASSUME MapInit
             PROVE  MapInv
  OBVIOUS
<1> USE MapExtractionAssumption DEF MapInit
<1>1. MapTypeOK
  <2>1. /\ romfs \in [RomFiles -> RomState] /\ maps \in [MapFiles -> Tables]
        /\ client \in [MapFiles -> Tables \ {"torn"}]
    BY DEF RomState, Tables
  <2>2. reload \in [left : SUBSET MapFiles, taken : Nat, on : BOOLEAN]
    BY DEF NoReload
  <2>3. {orphaned, unread} \subseteq BOOLEAN
    OBVIOUS
  <2> QED
    BY <2>1, <2>2, <2>3 DEF MapTypeOK
<1>2. ExtractorInv /\ WriterInv /\ MapGateInv /\ ClientInv
  BY DEF ExtractorInv, WriterInv, MapGateInv, ClientInv, Extractors, NoReload, MapFiles
<1> QED
  BY <1>1, <1>2 DEF MapInv

\* The four parts are inductive together.
LEMMA MapNextInv == MapInv /\ [MapNext]_mapVars => MapInv'
<1>1. ASSUME MapInv, MapNext
      PROVE  MapInv'
  BY <1>1, MapBootstrap, MapPip, MapOpenRomfs, MapHactool, MapParse, MapWrite, MapOrphanEnds,
     MapPick, MapStart, MapChildExits, MapCut, MapFinish, MapClient, MapBegin, MapReload,
     MapEndReload DEF MapNext, ExtractorStep
<1>2. ASSUME MapInv, UNCHANGED mapVars
      PROVE  MapInv'
  BY <1>2 DEF mapVars, MapInv, MapTypeOK, ExtractorInv, WriterInv, MapGateInv, ClientInv,
              CanonicalMaps
<1> QED
  BY <1>1, <1>2

\* Whatever dump is picked, damaged or cut off, and whenever the client reads.
THEOREM MapInvariance == MapSpec => []MapInv
BY MapInitInv, MapNextInv, PTL DEF MapSpec

\* Every variable of the extraction keeps its type; the client never holds a table
\* that is no JSON (_reload_one).
THEOREM MapTypeCorrect == MapSpec => []MapTypeOK
<1>1. MapInv => MapTypeOK
  BY DEF MapInv
<1> QED
  BY <1>1, MapInvariance, PTL

\* A client whose watermark is the last touch has the canonical tables of that touch,
\* however jobs, timeouts and reloads met, for any number of each -- unless a table
\* could not be read or an extractor ran on alone (reload_maps, run_extract).
THEOREM WatermarkIsFresh == MapSpec => []WatermarkFresh
<1>1. MapInv => WatermarkFresh
  <2> SUFFICES ASSUME MapInv, mark = stamps, mark > 0, ~unread, ~orphaned
               PROVE  client = maps /\ CanonicalMaps
    BY DEF WatermarkFresh
  <2>1. CanonicalMaps /\ \A f \in MapFiles : client[f] = "canonical"
    BY DEF MapInv, MapTypeOK, MapGateInv, ClientInv
  <2>2. client = [f \in MapFiles |-> client[f]] /\ maps = [f \in MapFiles |-> maps[f]]
    BY DEF MapInv, MapTypeOK
  <2> QED
    BY <2>1, <2>2 DEF CanonicalMaps
<1> QED
  BY <1>1, MapInvariance, PTL

\* What a step does after a job that ended well.
LEMMA SuccessStep ==
  MapInv /\ MapNext /\ job = "ok" /\ ~orphaned =>
    CanonicalMaps /\ job' = "ok" /\ CanonicalMaps'
<1> SUFFICES ASSUME MapInv, MapNext, job = "ok", ~orphaned
             PROVE  CanonicalMaps /\ job' = "ok" /\ maps' = maps
  BY DEF CanonicalMaps
<1>1. CanonicalMaps
  BY DEF MapInv, MapGateInv
<1>2. \A p \in Extractors : stage[p] = "none"
  BY DEF MapInv, WriterInv, Extractors
<1>3. \A p \in Extractors : ~ExtractorStep(p)
  BY <1>2 DEF ExtractorStep, At, Bootstrap, PipInstall, OpenRomfs, HactoolFile, ParseMoons,
              ParseCaptures, WriteTable, MapFiles
<1>4. CASE StartJob
  BY <1>1, <1>4 DEF StartJob
<1> QED
  BY <1>1, <1>3, <1>4 DEF MapNext, OrphanEnds, PickDump, ChildExits, Timeout, WizardEnds, FinishJob,
     StartClient, BeginReload, ReloadOne, EndReload, files, process, wizardSide

\* After an extraction was reported ok every further job is too, and leaves the
\* canonical tables alone, whatever is picked (the check before the extractor, and
\* run_extract's "hard gate" behind it).
THEOREM SuccessIsFinal == MapSpec => SuccessSticks
<1>1. MapInv /\ [MapNext]_mapVars =>
        [job = "ok" /\ ~orphaned => CanonicalMaps /\ job' = "ok" /\ CanonicalMaps']_mapVars
  BY SuccessStep
<1> QED
  BY <1>1, MapInvariance, PTL DEF MapSpec, SuccessSticks

(***************************************************************************)
(* Toolchain.                                                              *)
(***************************************************************************)

\* The detectors that have not run, in a check.
Undone(left) == {left[i] : i \in 1 .. Len(left)}

\* Types: of the flags, and of the rest.
FlagsOK ==
  {path, python, packages, marked, shown, unseen, failures, everything} \subseteq BOOLEAN
DataOK ==
  /\ portable \in {"absent", "bare", "stub", "whole"}
  /\ picked \in {"none", "bad", "good"} /\ resolved \in {"none", "portable", "path"}
  /\ page \in {"prereqs", "later"} /\ rows \subseteq Tools
  /\ check \in [on : BOOLEAN, left : Rests, found : SUBSET Tools, override : {"none", "bad", "good"}]
  /\ popup \in {"none", "running", "done"} /\ failedKey \in Installable \cup {"none", "preflight"}
  /\ queue \subseteq Installable
  /\ clicks \in 0 .. MaxClicks /\ building \in 0 .. clicks /\ faults \in 0 .. MaxFaults

\* The installers that are left find what they need.
QueueInv ==
  /\ popup # "running" => queue = {}
  /\ everything /\ "sail" \in queue => python \/ "python" \in queue
  /\ queue # {} => failedKey = "none"
  /\ StopsForAReason
  /\ "python" \in rows \cup check.found => python

\* Nothing has changed behind the last check, or the running one.
Seen == page = "prereqs" /\ popup # "running" /\ ~unseen

\* The directory for the build has the compiler that was found.
CompilerThere ==
  \/ resolved = "portable" /\ portable = "whole"
  \/ resolved = "path" /\ path

CheckInv ==
  /\ ~check.on => check = NoCheck
  /\ check.found \cap Undone(check.left) = {}
  /\ Seen /\ check.on =>
       /\ check.override = picked
       /\ \A t \in Tools \ Undone(check.left) : t \in check.found <=> Usable(t, picked)
       /\ "llvm" \in check.found => CompilerThere
  /\ Seen /\ ~check.on =>
       /\ rows = {t \in Tools : Usable(t, picked)}
       /\ "llvm" \in rows => CompilerThere

ToolInv == FlagsOK /\ DataOK /\ QueueInv /\ CheckInv

\* A check begins with all detectors, and takes one after the other.
LEMMA CheckOrderFacts ==
  /\ CheckOrder \in Rests /\ <<>> \in Rests
  /\ Undone(CheckOrder) = Tools /\ Undone(<<>>) = {}
  /\ \A left \in Rests : left # <<>> =>
       /\ Head(left) \in Tools /\ Tail(left) \in Rests
       /\ Undone(left) = {Head(left)} \cup Undone(Tail(left))
       /\ Head(left) \notin Undone(Tail(left))
<1>1. /\ Undone(<<"llvm", "sail", "python", "keys">>) = Tools
      /\ Undone(<<"sail", "python", "keys">>) = {"sail", "python", "keys"}
      /\ Undone(<<"python", "keys">>) = {"python", "keys"}
      /\ Undone(<<"keys">>) = {"keys"}
      /\ Undone(<<>>) = {}
  BY DEF Undone, Tools
<1>2. /\ Head(<<"llvm", "sail", "python", "keys">>) = "llvm"
      /\ Head(<<"sail", "python", "keys">>) = "sail"
      /\ Head(<<"python", "keys">>) = "python"
      /\ Head(<<"keys">>) = "keys"
  OBVIOUS
<1>3. /\ Tail(<<"llvm", "sail", "python", "keys">>) = <<"sail", "python", "keys">>
      /\ Tail(<<"sail", "python", "keys">>) = <<"python", "keys">>
      /\ Tail(<<"python", "keys">>) = <<"keys">>
      /\ Tail(<<"keys">>) = <<>>
  OBVIOUS
<1> QED
  BY <1>1, <1>2, <1>3 DEF Tools, CheckOrder, Rests

\* A detector runs.
LEMMA ToolDetect == ToolInv /\ Detect => ToolInv'
<1> SUFFICES ASSUME ToolInv, Detect
             PROVE  ToolInv'
  OBVIOUS
<1> USE ToolchainAssumption, CheckOrderFacts DEF ToolInv, onDisk, screen, checkState, installState, Detect, Detected, Found
<1>1. FlagsOK'
  BY Zenon DEF FlagsOK
<1>2. DataOK'
  BY DEF DataOK, Tools, Installable, NoCheck, InstallOrder
<1>3. QueueInv'
  <2>1. /\ UNCHANGED <<popup, queue, everything, python, rows, failedKey, failures>>
        /\ check'.found \subseteq check.found \cup {t \in {Head(check.left)} : Usable(t, check.override)}
    BY DEF DataOK
  <2>2. "python" \in check'.found => "python" \in check.found \/ python
    BY <2>1 DEF Usable, PythonThere
  <2> QED
    BY <2>1, <2>2 DEF QueueInv, StopsForAReason
<1>4. CheckInv'
  BY DEF FlagsOK, DataOK, CheckInv, QueueInv, Seen, CompilerThere, NextEnabled, Tools, NoCheck, Usable, LlvmThere, SailThere, PythonThere, KeysThere, InstallOrder
<1> QED
  BY <1>1, <1>2, <1>3, <1>4

\* The rows are shown.
LEMMA ToolFinishCheck == ToolInv /\ FinishCheck => ToolInv'
<1> SUFFICES ASSUME ToolInv, FinishCheck
             PROVE  ToolInv'
  OBVIOUS
<1> USE ToolchainAssumption, CheckOrderFacts DEF ToolInv, onDisk, screen, checkState, installState, FinishCheck
<1>1. FlagsOK'
  BY Zenon DEF FlagsOK
<1>2. DataOK'
  BY DEF DataOK, Tools, Installable, NoCheck, InstallOrder
<1>3. QueueInv'
  BY DEF FlagsOK, DataOK, QueueInv, CheckInv, StopsForAReason, Tools, Installable, InstallOrder, NoCheck
<1>4. CheckInv'
  BY DEF FlagsOK, DataOK, CheckInv, QueueInv, Seen, CompilerThere, NextEnabled, Tools, NoCheck, Usable, LlvmThere, SailThere, PythonThere, KeysThere, InstallOrder
<1> QED
  BY <1>1, <1>2, <1>3, <1>4

\* A check is asked for.
LEMMA ToolRecheck == ToolInv /\ Recheck => ToolInv'
<1> SUFFICES ASSUME ToolInv, Recheck
             PROVE  ToolInv'
  OBVIOUS
<1> USE ToolchainAssumption, CheckOrderFacts DEF ToolInv, onDisk, screen, checkState, installState, Recheck, Click, DoCheck
<1>1. FlagsOK'
  BY Zenon DEF FlagsOK
<1>2. DataOK'
  <2>1. check' = check \/ check' = [on |-> TRUE, left |-> CheckOrder, found |-> {}, override |-> picked]
    OBVIOUS
  <2>2. clicks' \in 0 .. MaxClicks
    BY DEF DataOK
  <2>3. UNCHANGED <<portable, picked, resolved, page, rows, popup, failedKey, queue, faults>>
    OBVIOUS
  <2>4. check' \in [on : BOOLEAN, left : Rests, found : SUBSET Tools,
                    override : {"none", "bad", "good"}]
    <3>1. CASE check' = check
      BY <3>1 DEF DataOK
    <3>2. CASE check' = [on |-> TRUE, left |-> CheckOrder, found |-> {}, override |-> picked]
      <4>1. picked \in {"none", "bad", "good"}
        BY <2>2 DEF DataOK
      <4> QED
        BY <3>2, <4>1
    <3> QED
      BY <2>1, <3>1, <3>2
  <2> QED
    BY <2>2, <2>3, <2>4 DEF DataOK
<1>3. QueueInv'
  BY DEF FlagsOK, DataOK, QueueInv, CheckInv, StopsForAReason, Tools, Installable, InstallOrder, NoCheck
<1>4. CheckInv'
  BY DEF FlagsOK, DataOK, CheckInv, QueueInv, Seen, CompilerThere, NextEnabled, Tools, NoCheck, Usable, LlvmThere, SailThere, PythonThere, KeysThere, InstallOrder
<1> QED
  BY <1>1, <1>2, <1>3, <1>4

\* A file is picked.
LEMMA ToolPick == ToolInv /\ (\E f \in {"bad", "good"} : Pick(f)) => ToolInv'
<1> SUFFICES ASSUME ToolInv, (\E f \in {"bad", "good"} : Pick(f))
             PROVE  ToolInv'
  OBVIOUS
<1> USE ToolchainAssumption, CheckOrderFacts DEF ToolInv, onDisk, screen, checkState, installState, Pick, Click, DoCheck
<1>1. FlagsOK'
  BY Zenon DEF FlagsOK
<1>2. DataOK'
  <2>1. check' = check \/ check' = [on |-> TRUE, left |-> CheckOrder, found |-> {}, override |-> picked']
    OBVIOUS
  <2>2. clicks' \in 0 .. MaxClicks /\ picked' \in {"none", "bad", "good"}
    BY DEF DataOK
  <2>3. UNCHANGED <<portable, resolved, page, rows, popup, failedKey, queue, faults>>
    OBVIOUS
  <2>4. check' \in [on : BOOLEAN, left : Rests, found : SUBSET Tools,
                    override : {"none", "bad", "good"}]
    <3>1. CASE check' = check
      BY <3>1 DEF DataOK
    <3>2. CASE check' = [on |-> TRUE, left |-> CheckOrder, found |-> {}, override |-> picked']
      <4>1. picked' \in {"none", "bad", "good"}
        BY <2>2 DEF DataOK
      <4> QED
        BY <3>2, <4>1
    <3> QED
      BY <2>1, <3>1, <3>2
  <2> QED
    BY <2>2, <2>3, <2>4 DEF DataOK
<1>3. QueueInv'
  BY DEF FlagsOK, DataOK, QueueInv, CheckInv, StopsForAReason, Tools, Installable, InstallOrder, NoCheck
<1>4. CheckInv'
  BY DEF FlagsOK, DataOK, CheckInv, QueueInv, Seen, CompilerThere, NextEnabled, Tools, NoCheck, Usable, LlvmThere, SailThere, PythonThere, KeysThere, InstallOrder
<1> QED
  BY <1>1, <1>2, <1>3, <1>4

\* An installation of one row or of all.
LEMMA ToolInstall == ToolInv /\ (\E keys \in {Installable \ rows} \cup {{t} : t \in Installable \ rows} : Install(keys)) => ToolInv'
<1> SUFFICES ASSUME ToolInv, (\E keys \in {Installable \ rows} \cup {{t} : t \in Installable \ rows} : Install(keys))
             PROVE  ToolInv'
  OBVIOUS
<1> USE ToolchainAssumption, CheckOrderFacts DEF ToolInv, onDisk, screen, checkState, installState, Install, Click, PreflightFails
<1>1. FlagsOK'
  <2>1. everything' \in BOOLEAN /\ failures' \in BOOLEAN
    BY Zenon DEF FlagsOK
  <2> QED
    BY <2>1, Zenon DEF FlagsOK
<1>2. DataOK'
  BY DEF DataOK, Tools, Installable, NoCheck, InstallOrder
<1>3. QueueInv'
  BY DEF FlagsOK, DataOK, QueueInv, CheckInv, StopsForAReason, Tools, Installable, InstallOrder, NoCheck
<1>4. CheckInv'
  BY DEF FlagsOK, DataOK, CheckInv, QueueInv, Seen, CompilerThere, NextEnabled, Tools, NoCheck, Usable, LlvmThere, SailThere, PythonThere, KeysThere, InstallOrder
<1> QED
  BY <1>1, <1>2, <1>3, <1>4

\* The popup is closed.
LEMMA ToolClose == ToolInv /\ ClosePopup => ToolInv'
<1> SUFFICES ASSUME ToolInv, ClosePopup
             PROVE  ToolInv'
  OBVIOUS
<1> USE ToolchainAssumption, CheckOrderFacts DEF ToolInv, onDisk, screen, checkState, installState, ClosePopup
<1>1. FlagsOK'
  BY Zenon DEF FlagsOK
<1>2. DataOK'
  BY DEF DataOK, Tools, Installable, NoCheck, InstallOrder
<1>3. QueueInv'
  BY DEF FlagsOK, DataOK, QueueInv, CheckInv, StopsForAReason, Tools, Installable, InstallOrder, NoCheck
<1>4. CheckInv'
  BY DEF FlagsOK, DataOK, CheckInv, QueueInv, Seen, CompilerThere, NextEnabled, Tools, NoCheck, Usable, LlvmThere, SailThere, PythonThere, KeysThere, InstallOrder
<1> QED
  BY <1>1, <1>2, <1>3, <1>4

\* The next page, ...
LEMMA ToolProceed == ToolInv /\ Proceed => ToolInv'
<1> SUFFICES ASSUME ToolInv, Proceed
             PROVE  ToolInv'
  OBVIOUS
<1> USE ToolchainAssumption, CheckOrderFacts DEF ToolInv, onDisk, screen, checkState, installState, Proceed, Click
<1>1. FlagsOK'
  BY Zenon DEF FlagsOK
<1>2. DataOK'
  BY DEF DataOK, Tools, Installable, NoCheck, InstallOrder
<1>3. QueueInv'
  BY DEF FlagsOK, DataOK, QueueInv, CheckInv, StopsForAReason, Tools, Installable, InstallOrder, NoCheck
<1>4. CheckInv'
  BY DEF FlagsOK, DataOK, CheckInv, QueueInv, Seen, CompilerThere, NextEnabled, Tools, NoCheck, Usable, LlvmThere, SailThere, PythonThere, KeysThere, InstallOrder
<1> QED
  BY <1>1, <1>2, <1>3, <1>4

\* ... and back.
LEMMA ToolGoBack == ToolInv /\ GoBack => ToolInv'
<1> SUFFICES ASSUME ToolInv, GoBack
             PROVE  ToolInv'
  OBVIOUS
<1> USE ToolchainAssumption, CheckOrderFacts DEF ToolInv, onDisk, screen, checkState, installState, GoBack, Click, DoCheck
<1>1. FlagsOK'
  BY Zenon DEF FlagsOK
<1>2. DataOK'
  <2>1. check' = check \/ check' = [on |-> TRUE, left |-> CheckOrder, found |-> {}, override |-> picked]
    OBVIOUS
  <2>2. clicks' \in 0 .. MaxClicks /\ page' \in {"prereqs", "later"}
    BY DEF DataOK
  <2>3. UNCHANGED <<portable, picked, resolved, rows, popup, failedKey, queue, faults>>
    OBVIOUS
  <2>4. check' \in [on : BOOLEAN, left : Rests, found : SUBSET Tools,
                    override : {"none", "bad", "good"}]
    <3>1. CASE check' = check
      BY <3>1 DEF DataOK
    <3>2. CASE check' = [on |-> TRUE, left |-> CheckOrder, found |-> {}, override |-> picked]
      <4>1. picked \in {"none", "bad", "good"}
        BY <2>2 DEF DataOK
      <4> QED
        BY <3>2, <4>1
    <3> QED
      BY <2>1, <3>1, <3>2
  <2> QED
    BY <2>2, <2>3, <2>4 DEF DataOK
<1>3. QueueInv'
  BY DEF FlagsOK, DataOK, QueueInv, CheckInv, StopsForAReason, Tools, Installable, InstallOrder, NoCheck
<1>4. CheckInv'
  BY DEF FlagsOK, DataOK, CheckInv, QueueInv, Seen, CompilerThere, NextEnabled, Tools, NoCheck, Usable, LlvmThere, SailThere, PythonThere, KeysThere, InstallOrder
<1> QED
  BY <1>1, <1>2, <1>3, <1>4

\* A build starts.
LEMMA ToolBuild == ToolInv /\ EnterBuildPage => ToolInv'
<1> SUFFICES ASSUME ToolInv, EnterBuildPage
             PROVE  ToolInv'
  OBVIOUS
<1> USE ToolchainAssumption DEF ToolInv, onDisk, checkState, installState, EnterBuildPage, Click
<1>1. FlagsOK'
  BY Zenon DEF FlagsOK
<1>2. DataOK'
  BY DEF DataOK
<1>3. QueueInv'
  BY DEF QueueInv, StopsForAReason
<1>4. CheckInv'
  BY DEF CheckInv, Seen
<1> QED
  BY <1>1, <1>2, <1>3, <1>4

\* A build ends, and removes what setup installed.
LEMMA ToolCleanup == ToolInv /\ Cleanup => ToolInv'
<1> SUFFICES ASSUME ToolInv, Cleanup
             PROVE  ToolInv'
  OBVIOUS
<1> USE ToolchainAssumption DEF ToolInv, installState
<1>1. /\ unseen' = (unseen \/ (page = "prereqs" /\ portable' # portable))
      /\ UNCHANGED <<path, python, packages, marked, picked, check, resolved, page, shown, rows,
                     popup, queue, failedKey, failures, everything, clicks, faults>>
  BY DEF Cleanup
<1>2. FlagsOK'
  BY <1>1, Zenon DEF FlagsOK
<1>3. DataOK'
  <2>1. portable' \in {"absent", "bare", "stub", "whole"}
    BY DEF Cleanup, DataOK, Remains
  <2>2. building' \in 0 .. clicks'
    BY <1>1 DEF Cleanup, DataOK
  <2> QED
    BY <1>1, <2>1, <2>2 DEF DataOK
<1>4. QueueInv'
  BY <1>1 DEF QueueInv, StopsForAReason
<1>5. CheckInv'
  <2>1. Seen' => Seen /\ portable' = portable
    BY <1>1 DEF Seen, FlagsOK
  <2>2. Seen' => /\ \A t \in Tools : Usable(t, picked)' <=> Usable(t, picked)
                 /\ CompilerThere' <=> CompilerThere
    BY <1>1, <2>1 DEF Usable, LlvmThere, SailThere, PythonThere, KeysThere, CompilerThere
  <2> QED
    BY <1>1, <2>1, <2>2 DEF CheckInv
<1> QED
  BY <1>2, <1>3, <1>4, <1>5

\* The user changes something outside.
LEMMA ToolUser == ToolInv /\ UserLlvm => ToolInv'
<1> SUFFICES ASSUME ToolInv, UserLlvm
             PROVE  ToolInv'
  OBVIOUS
<1> USE ToolchainAssumption, CheckOrderFacts DEF ToolInv, onDisk, screen, checkState, installState, UserLlvm
<1>1. FlagsOK'
  BY Zenon DEF FlagsOK
<1>2. DataOK'
  BY DEF DataOK, Tools, Installable, NoCheck, InstallOrder
<1>3. QueueInv'
  BY DEF FlagsOK, DataOK, QueueInv, CheckInv, StopsForAReason, Tools, Installable, InstallOrder, NoCheck
<1>4. CheckInv'
  BY DEF FlagsOK, DataOK, CheckInv, QueueInv, Seen, CompilerThere, NextEnabled, Tools, NoCheck, Usable, LlvmThere, SailThere, PythonThere, KeysThere, InstallOrder
<1> QED
  BY <1>1, <1>2, <1>3, <1>4

\* The compiler.
LEMMA ToolLlvm == ToolInv /\ InstallLlvm => ToolInv'
<1> SUFFICES ASSUME ToolInv, InstallLlvm
             PROVE  ToolInv'
  OBVIOUS
<1> USE ToolchainAssumption, CheckOrderFacts DEF ToolInv, onDisk, screen, checkState, installState, InstallLlvm, Unarchive, NoDownload, Installing, Installed, Fails
<1>1. FlagsOK'
  BY Zenon DEF FlagsOK
<1>2. DataOK'
  <2>1. /\ queue' \subseteq Installable /\ failedKey' \in Installable \cup {"none", "preflight"}
        /\ portable' \in {"absent", "bare", "stub", "whole"}
    BY DEF DataOK, Installable, Tools, Remains
  <2>2. faults' = faults \/ (faults < MaxFaults /\ faults' = faults + 1)
    OBVIOUS
  <2>3. faults' \in 0 .. MaxFaults
    BY <2>2 DEF DataOK
  <2>4. UNCHANGED <<picked, resolved, page, rows, check, popup, clicks>>
    OBVIOUS
  <2> QED
    BY <2>1, <2>3, <2>4 DEF DataOK
<1>3. QueueInv'
  BY DEF FlagsOK, DataOK, QueueInv, CheckInv, StopsForAReason, Tools, Installable, InstallOrder, NoCheck
<1>4. CheckInv'
  BY DEF FlagsOK, DataOK, CheckInv, QueueInv, Seen, CompilerThere, NextEnabled, Tools, NoCheck, Usable, LlvmThere, SailThere, PythonThere, KeysThere, InstallOrder
<1> QED
  BY <1>1, <1>2, <1>3, <1>4

\* Python.
LEMMA ToolPython == ToolInv /\ InstallPython => ToolInv'
<1> SUFFICES ASSUME ToolInv, InstallPython
             PROVE  ToolInv'
  OBVIOUS
<1> USE ToolchainAssumption, CheckOrderFacts DEF ToolInv, onDisk, screen, checkState, installState, InstallPython, Installing, Installed, Fails
<1>1. FlagsOK'
  BY Zenon DEF FlagsOK
<1>2. DataOK'
  <2>1. /\ queue' \subseteq Installable /\ failedKey' \in Installable \cup {"none", "preflight"}
    BY DEF DataOK, Installable, Tools
  <2>2. faults' = faults \/ (faults < MaxFaults /\ faults' = faults + 1)
    OBVIOUS
  <2>3. faults' \in 0 .. MaxFaults
    BY <2>2 DEF DataOK
  <2>4. UNCHANGED <<picked, resolved, page, rows, check, popup, clicks, portable>>
    OBVIOUS
  <2> QED
    BY <2>1, <2>3, <2>4 DEF DataOK
<1>3. QueueInv'
  BY DEF FlagsOK, DataOK, QueueInv, CheckInv, StopsForAReason, Tools, Installable, InstallOrder, NoCheck
<1>4. CheckInv'
  BY DEF FlagsOK, DataOK, CheckInv, QueueInv, Seen, CompilerThere, NextEnabled, Tools, NoCheck, Usable, LlvmThere, SailThere, PythonThere, KeysThere, InstallOrder
<1> QED
  BY <1>1, <1>2, <1>3, <1>4

\* The packages of sail.
LEMMA ToolSail == ToolInv /\ InstallSail => ToolInv'
<1> SUFFICES ASSUME ToolInv, InstallSail
             PROVE  ToolInv'
  OBVIOUS
<1> USE ToolchainAssumption, CheckOrderFacts DEF ToolInv, onDisk, screen, checkState, installState, InstallSail, Installing, Installed, Fails
<1>1. FlagsOK'
  BY Zenon DEF FlagsOK
<1>2. DataOK'
  <2>1. /\ queue' \subseteq Installable /\ failedKey' \in Installable \cup {"none", "preflight"}
    BY DEF DataOK, Installable, Tools
  <2>2. faults' = faults \/ (faults < MaxFaults /\ faults' = faults + 1)
    OBVIOUS
  <2>3. faults' \in 0 .. MaxFaults
    BY <2>2 DEF DataOK
  <2>4. UNCHANGED <<picked, resolved, page, rows, check, popup, clicks, portable>>
    OBVIOUS
  <2> QED
    BY <2>1, <2>3, <2>4 DEF DataOK
<1>3. QueueInv'
  <2>1. UNCHANGED <<popup, everything, python, rows, check>> /\ popup = "running"
    OBVIOUS
  <2>2. "sail" \in queue /\ "python" \notin queue
    BY DEF InstallOrder, Installable
  <2>3. everything => python
    BY <2>2 DEF QueueInv
  <2>4. CASE python /\ queue' = queue \ {"sail"} /\ UNCHANGED <<failedKey, failures, faults>>
    BY <2>1, <2>2, <2>4 DEF QueueInv, StopsForAReason
  <2>5. CASE queue' = {} /\ failedKey' = "sail" /\ (python => failures')
    BY <2>1, <2>3, <2>5 DEF QueueInv, StopsForAReason
  <2>6. \/ python /\ queue' = queue \ {"sail"} /\ UNCHANGED <<failedKey, failures, faults>>
        \/ queue' = {} /\ failedKey' = "sail" /\ (python => failures')
    BY Zenon
  <2> QED
    BY <2>4, <2>5, <2>6
<1>4. CheckInv'
  BY DEF FlagsOK, DataOK, CheckInv, QueueInv, Seen, CompilerThere, NextEnabled, Tools, NoCheck, Usable, LlvmThere, SailThere, PythonThere, KeysThere, InstallOrder
<1> QED
  BY <1>1, <1>2, <1>3, <1>4

\* The installation ends with a check.
LEMMA ToolFinish == ToolInv /\ FinishInstall => ToolInv'
<1> SUFFICES ASSUME ToolInv, FinishInstall
             PROVE  ToolInv'
  OBVIOUS
<1> USE ToolchainAssumption, CheckOrderFacts DEF ToolInv, onDisk, screen, checkState, installState, FinishInstall, DoCheck
<1>1. FlagsOK'
  BY Zenon DEF FlagsOK
<1>2. DataOK'
  <2>1. check' = check \/ check' = [on |-> TRUE, left |-> CheckOrder, found |-> {}, override |-> picked]
    OBVIOUS
  <2>2. popup' \in {"none", "running", "done"}
    BY DEF DataOK
  <2>3. UNCHANGED <<portable, picked, resolved, page, rows, failedKey, queue, clicks, faults>>
    OBVIOUS
  <2>4. check' \in [on : BOOLEAN, left : Rests, found : SUBSET Tools,
                    override : {"none", "bad", "good"}]
    <3>1. CASE check' = check
      BY <3>1 DEF DataOK
    <3>2. CASE check' = [on |-> TRUE, left |-> CheckOrder, found |-> {}, override |-> picked]
      <4>1. picked \in {"none", "bad", "good"}
        BY <2>2 DEF DataOK
      <4> QED
        BY <3>2, <4>1
    <3> QED
      BY <2>1, <3>1, <3>2
  <2> QED
    BY <2>2, <2>3, <2>4 DEF DataOK
<1>3. QueueInv'
  BY DEF FlagsOK, DataOK, QueueInv, CheckInv, StopsForAReason, Tools, Installable, InstallOrder, NoCheck
<1>4. CheckInv'
  BY DEF FlagsOK, DataOK, CheckInv, QueueInv, Seen, CompilerThere, NextEnabled, Tools, NoCheck, Usable, LlvmThere, SailThere, PythonThere, KeysThere, InstallOrder
<1> QED
  BY <1>1, <1>2, <1>3, <1>4
\* The page as it opens, with a check under way.
LEMMA ToolInitInv == ToolInit => ToolInv
<1> SUFFICES ASSUME ToolInit
             PROVE  ToolInv
  OBVIOUS
<1> USE ToolchainAssumption, CheckOrderFacts DEF ToolInit
<1>1. FlagsOK
  BY Zenon DEF FlagsOK
<1>4. DataOK
  BY DEF DataOK, Tools
<1>2. QueueInv
  BY DEF QueueInv, StopsForAReason
<1>3. CheckInv
  BY DEF CheckInv, Seen
<1> QED
  BY <1>1, <1>2, <1>3, <1>4 DEF ToolInv

\* The three parts are inductive together.
LEMMA ToolNextInv == ToolInv /\ [ToolNext]_toolVars => ToolInv'
<1>1. ASSUME ToolInv, ToolNext
      PROVE  ToolInv'
  BY <1>1, ToolDetect, ToolFinishCheck, ToolRecheck, ToolPick, ToolInstall, ToolClose, ToolProceed,
     ToolGoBack, ToolBuild, ToolCleanup, ToolUser, ToolLlvm, ToolPython, ToolSail, ToolFinish DEF ToolNext
<1>2. ASSUME ToolInv, UNCHANGED toolVars
      PROVE  ToolInv'
  BY <1>2 DEF toolVars, ToolInv, FlagsOK, DataOK, QueueInv, CheckInv, StopsForAReason, Seen,
              CompilerThere, Usable, LlvmThere, SailThere, PythonThere, KeysThere
<1> QED
  BY <1>1, <1>2

\* Whatever is clicked, installed, removed and fails.
THEOREM ToolInvariance == ToolSpec => []ToolInv
BY ToolInitInv, ToolNextInv, PTL DEF ToolSpec

\* Every variable of the prerequisites page keeps its type.
THEOREM ToolTypeCorrect == ToolSpec => []ToolTypeOK
<1>1. ToolInv => ToolTypeOK
  BY DEF ToolInv, FlagsOK, DataOK, ToolTypeOK
<1> QED
  BY <1>1, ToolInvariance, PTL

\* Once the page has settled its rows show what is there, Next is offered only with a
\* compiler the build can use, and an installation of everything stops only at an
\* operation that failed -- for any number of clicks, failures and removals
\* (do_check, resolved_llvm_bin, INSTALL_ORDER).
THEOREM PrereqsAreCurrent == ToolSpec => []PrereqsCurrent
<1>1. ToolInv => PrereqsCurrent
  BY DEF ToolInv, QueueInv, CheckInv, Seen, CompilerThere, PrereqsCurrent, Settled, NextEnabled,
         Tools
<1> QED
  BY <1>1, ToolInvariance, PTL

(***************************************************************************)
(* SetupWizard.                                                            *)
(***************************************************************************)

\* Types: of the buttons and the history, of the workers, and of the rest.
Steps == {"idle", "start", "working", "ok", "failed", "gone"}
WizFlagsOK ==
  /\ nextOn \in [WorkPages -> BOOLEAN] /\ retryOn \in [WorkPages -> BOOLEAN]
  /\ overlapped \in [WorkPages -> BOOLEAN] /\ died \in [WorkPages -> BOOLEAN]
WizWorkersOK ==
  /\ at \in Pages /\ attempts \in [WorkPages -> 0 .. MaxStepAttempts]
  /\ worker \in [Workers -> [page : WorkPages \cup {"none"}, step : Steps]]
TablesOK == tables \in BOOLEAN
Mods == [by : {"nobody", "earlier", "page", "cli"}, whole : BOOLEAN]
Clis == [asked : SUBSET Phases, left : SUBSET Phases, authorized : BOOLEAN,
         target : Targets, probe : {"none", "all", "some missing", "none to install"},
         outcome : {"none", "running", "failed", "ok"}, built : BOOLEAN]
WizDataOK ==
  /\ dumpThere \in {"none", "file", "gone"} /\ mod \in Mods /\ installed \in Mods /\ cli \in Clis

\* A worker that was never started, or has a page; with the command line there is
\* no worker, and no button.
WorkerInv ==
  /\ \A w \in Workers : worker[w].page = "none" <=> worker[w].step = "idle"
  /\ ~Gui => /\ \A w \in Workers : worker[w] = Idle
             /\ \A p \in WorkPages : ~nextOn[p]

\* One worker at a time on a page that was not entered too early, and its buttons
\* wait for it.  What it has made is there until the next one.
ButtonInv ==
  \A p \in WorkPages : ~overlapped[p] =>
    /\ \A v, w \in Running(p) : v = w
    /\ nextOn[p] \/ retryOn[p] => Running(p) = {}
    /\ nextOn[p] \/ (\E w \in Running(p) : worker[w].step = "ok")
         => IF p = "extract" THEN tables ELSE mod.whole

\* The page that is shown has a worker, or offers a way on.
WayOnInv ==
  at \in WorkPages /\ Running(at) = {} =>
    nextOn[at] \/ retryOn[at] \/ attempts[at] = MaxStepAttempts \/ died[at]

\* The phases the pipeline has behind it: asked for, before those that are left.
Behind == cli.asked \ cli.left

PipelineInv ==
  /\ cli.outcome = "ok" => cli.left = {}
  /\ cli.left \subseteq cli.asked
  /\ \A p \in Behind, q \in cli.left : PhaseOrder[p] < PhaseOrder[q]
  /\ cli.built => "build" \in Behind /\ mod = [by |-> "cli", whole |-> TRUE]
  /\ "extract" \in Behind => tables
  /\ "build" \in Behind => cli.built
  /\ "deploy" \in Behind =>
       mod.whole /\ installed = IF cli.target = "folder" THEN mod ELSE NoMod
  /\ cli.outcome = "running" /\ "deploy" \in cli.left => installed = NoMod

PagesInv == WizFlagsOK /\ WizWorkersOK /\ WorkerInv /\ ButtonInv /\ WayOnInv
WizInv == PagesInv /\ TablesOK /\ WizDataOK /\ PipelineInv

\* The pages and the command line are not used together.
LEMMA OneOfTwo ==
  /\ WizDataOK /\ Gui => PipelineInv /\ cli.outcome = "none"
  /\ WorkerInv => \A w \in Workers : worker[w] # Idle => Gui
<1>1. WizDataOK /\ Gui => PipelineInv /\ cli.outcome = "none"
  BY DEF Gui, NoCli, PipelineInv, Behind
<1> QED
  BY <1>1 DEF WorkerInv

\* No phase was asked for.
LEMMA GuiPipeline == WizDataOK' /\ cli' = NoCli => PipelineInv'
BY DEF WizDataOK, NoCli, PipelineInv, Behind

\* A page gets a worker, if there have not been too many attempts.
LEMMA StartFacts ==
  ASSUME SetupWizardAssumption, WizFlagsOK, WizWorkersOK,
         NEW p \in WorkPages, NEW n \in 0 .. MaxStepAttempts, StartWorker(p, n)
  PROVE  /\ nextOn' \in [WorkPages -> BOOLEAN] /\ retryOn' \in [WorkPages -> BOOLEAN]
         /\ attempts' \in [WorkPages -> 0 .. MaxStepAttempts]
         /\ worker' \in [Workers -> [page : WorkPages \cup {"none"}, step : Steps]]
         /\ \A q \in WorkPages \ {p} :
              nextOn'[q] = nextOn[q] /\ retryOn'[q] = retryOn[q] /\ attempts'[q] = attempts[q]
         /\ \/ /\ n = MaxStepAttempts /\ attempts'[p] = MaxStepAttempts
               /\ worker' = worker /\ nextOn' = nextOn /\ ~retryOn'[p]
            \/ /\ ~nextOn'[p] /\ ~retryOn'[p]
               /\ \E w \in Workers :
                    /\ worker[w] = Idle
                    /\ worker' = [worker EXCEPT ![w] = [page |-> p, step |-> "start"]]
<1> USE SetupWizardAssumption DEF WizFlagsOK, WizWorkersOK
<1>1. CASE n >= MaxStepAttempts
  <2>1. /\ retryOn' = [retryOn EXCEPT ![p] = FALSE] /\ attempts' = [attempts EXCEPT ![p] = n]
        /\ nextOn' = nextOn /\ worker' = worker
    BY <1>1 DEF StartWorker
  <2>2. n = MaxStepAttempts
    BY <1>1
  <2> QED
    BY <2>1, <2>2
<1>2. CASE ~(n >= MaxStepAttempts)
  <2>1. PICK w \in Unused :
          /\ attempts' = [attempts EXCEPT ![p] = n + 1]
          /\ worker' = [worker EXCEPT ![w] = [page |-> p, step |-> "start"]]
          /\ nextOn' = [nextOn EXCEPT ![p] = FALSE]
          /\ retryOn' = [retryOn EXCEPT ![p] = FALSE]
    BY <1>2 DEF StartWorker
  <2>2. w \in Workers /\ worker[w] = Idle
    BY DEF Unused
  <2>3. [page |-> p, step |-> "start"] \in [page : WorkPages \cup {"none"}, step : Steps]
    BY DEF Steps
  <2>4. n + 1 \in 0 .. MaxStepAttempts
    BY <1>2
  <2> QED
    BY <2>1, <2>2, <2>3, <2>4
<1> QED
  BY <1>1, <1>2

\* Of the threads, when one of them changes.
LEMMA RunningFacts ==
  ASSUME WizWorkersOK, NEW w \in Workers, NEW r, worker' = [worker EXCEPT ![w] = r]
  PROVE  /\ worker'[w] = r /\ \A v \in Workers \ {w} : worker'[v] = worker[v]
         /\ \A q : Running(q)' = (Running(q) \ {w})
                                   \cup {x \in {w} : r.page = q /\ r.step # "gone"}
<1>1. worker'[w] = r /\ \A v \in Workers \ {w} : worker'[v] = worker[v]
  BY DEF WizWorkersOK
<1> QED
  BY <1>1 DEF Running

\* A thread goes on, or ends.
LEMMA BecomesFacts ==
  ASSUME WizWorkersOK, WorkerInv, NEW w \in Workers, NEW s \in Steps \ {"idle"},
         worker[w].step \in {"start", "working", "ok", "failed"}, Becomes(w, s)
  PROVE  /\ worker' \in [Workers -> [page : WorkPages \cup {"none"}, step : Steps]]
         /\ worker[w].page \in WorkPages /\ w \in Running(worker[w].page)
         /\ worker'[w] = [page |-> worker[w].page, step |-> s]
         /\ \A v \in Workers \ {w} : worker'[v] = worker[v]
         /\ \A v \in Workers : worker'[v].page = "none" <=> worker'[v].step = "idle"
         /\ \A q : Running(q)' = IF s = "gone" THEN Running(q) \ {w} ELSE Running(q)
         /\ Gui
<1> DEFINE r == [page |-> worker[w].page, step |-> s]
<1>1. /\ worker \in [Workers -> [page : WorkPages \cup {"none"}, step : Steps]]
      /\ worker[w] \in [page : WorkPages \cup {"none"}, step : Steps]
  BY DEF WizWorkersOK
<1>2. worker[w].page \in WorkPages /\ w \in Running(worker[w].page)
  BY <1>1 DEF WorkerInv, Running
<1>3. worker' = [worker EXCEPT ![w] = r]
  <2>1. worker' = [worker EXCEPT ![w] = [worker[w] EXCEPT !.step = s]]
    BY DEF Becomes
  <2>2. [worker[w] EXCEPT !.step = s] = r
    BY <1>1
  <2> QED
    BY <2>1, <2>2
<1>4. worker' \in [Workers -> [page : WorkPages \cup {"none"}, step : Steps]]
  BY <1>1, <1>2, <1>3
<1>5. /\ worker'[w] = r /\ \A v \in Workers \ {w} : worker'[v] = worker[v]
      /\ \A q : Running(q)' = (Running(q) \ {w}) \cup {x \in {w} : r.page = q /\ r.step # "gone"}
  <2> HIDE DEF r
  <2> QED
    BY <1>3, RunningFacts
<1>6. \A q : Running(q)' = IF s = "gone" THEN Running(q) \ {w} ELSE Running(q)
  BY <1>1, <1>2, <1>5 DEF Running
<1>7. \A v \in Workers : worker'[v].page = "none" <=> worker'[v].step = "idle"
  BY <1>2, <1>5 DEF WorkerInv, WorkPages
<1>8. Gui
  BY DEF WorkerInv, Idle
<1> QED
  BY <1>2, <1>4, <1>5, <1>6, <1>7, <1>8

\* A page is entered: it has a worker, and no button until the worker ends.
LEMMA EnterInv ==
  ASSUME SetupWizardAssumption, PagesInv, Gui, UNCHANGED <<cli, tables, mod>>,
         NEW p \in WorkPages, Enter(p)
  PROVE  PagesInv'
<1> USE DEF PagesInv, WorkPages
<1>0. 0 \in 0 .. MaxStepAttempts /\ 0 # MaxStepAttempts
  BY SetupWizardAssumption
<1>1. /\ nextOn' \in [WorkPages -> BOOLEAN] /\ retryOn' \in [WorkPages -> BOOLEAN]
      /\ attempts' \in [WorkPages -> 0 .. MaxStepAttempts]
      /\ worker' \in [Workers -> [page : WorkPages \cup {"none"}, step : Steps]]
      /\ ~nextOn'[p] /\ ~retryOn'[p]
      /\ \A q \in WorkPages \ {p} : nextOn'[q] = nextOn[q] /\ retryOn'[q] = retryOn[q]
  BY <1>0, SetupWizardAssumption, StartFacts DEF Enter
<1>2. PICK w \in Workers :
        worker[w] = Idle /\ worker' = [worker EXCEPT ![w] = [page |-> p, step |-> "start"]]
  BY <1>0, SetupWizardAssumption, StartFacts DEF Enter
<1>3. /\ worker'[w] = [page |-> p, step |-> "start"]
      /\ \A v \in Workers \ {w} : worker'[v] = worker[v]
      /\ Running(p)' = Running(p) \cup {w}
      /\ \A q \in WorkPages \ {p} : Running(q)' = Running(q)
  <2> DEFINE new == [page |-> p, step |-> "start"]
  <2>1. new.page = p /\ new.step # "gone" /\ worker' = [worker EXCEPT ![w] = new]
    BY <1>2
  <2>2. \A q : Running(q)' = (Running(q) \ {w}) \cup {x \in {w} : new.page = q /\ new.step # "gone"}
    <3> HIDE DEF new
    <3> QED
      BY <2>1, RunningFacts
  <2>3. \A q \in WorkPages : w \notin Running(q)
    BY <1>2 DEF Running, Idle
  <2>4. worker'[w] = new /\ \A v \in Workers \ {w} : worker'[v] = worker[v]
    BY <2>1 DEF WizWorkersOK
  <2> QED
    BY <2>1, <2>2, <2>3, <2>4
<1>4. /\ overlapped' \in [WorkPages -> BOOLEAN] /\ died' \in [WorkPages -> BOOLEAN]
      /\ overlapped'[p] <=> Running(p) # {}
      /\ \A q \in WorkPages \ {p} : overlapped'[q] = overlapped[q]
  <2>1. (Running(p) # {}) \in BOOLEAN
    OBVIOUS
  <2>2. /\ overlapped' = [overlapped EXCEPT ![p] = Running(p) # {}]
        /\ died' = [died EXCEPT ![p] = FALSE]
    BY DEF Enter
  <2> QED
    BY <2>1, <2>2 DEF WizFlagsOK
<1>5. WizFlagsOK' /\ WizWorkersOK'
  BY <1>1, <1>4 DEF WizFlagsOK, WizWorkersOK, Enter, Pages
<1>6. WorkerInv'
  BY <1>2, <1>3 DEF WorkerInv, Gui, Idle
<1>7. ButtonInv'
  <2> SUFFICES ASSUME NEW q \in WorkPages, ~overlapped'[q]
               PROVE  /\ \A u, v \in Running(q)' : u = v
                      /\ nextOn'[q] \/ retryOn'[q] => Running(q)' = {}
                      /\ nextOn'[q] \/ (\E v \in Running(q)' : worker'[v].step = "ok")
                           => IF q = "extract" THEN tables' ELSE mod'.whole
    BY DEF ButtonInv
  <2>1. CASE q = p
    <3>1. Running(q)' = {w}
      BY <1>3, <1>4, <2>1
    <3> QED
      BY <1>1, <1>3, <2>1, <3>1
  <2>2. CASE q # p
    <3>1. /\ Running(q)' = Running(q) /\ ~overlapped[q] /\ nextOn'[q] = nextOn[q]
          /\ retryOn'[q] = retryOn[q] /\ w \notin Running(q)
      BY <1>1, <1>2, <1>3, <1>4, <2>2 DEF Running, Idle
    <3>2. \A v \in Running(q) : worker'[v] = worker[v]
      BY <1>3, <3>1 DEF Running
    <3> QED
      BY <3>1, <3>2 DEF ButtonInv
  <2> QED
    BY <2>1, <2>2
<1>8. WayOnInv'
  <2>1. at' = p /\ Running(p)' # {}
    BY <1>3 DEF Enter
  <2> QED
    BY <2>1 DEF WayOnInv
<1> QED
  BY <1>5, <1>6, <1>7, <1>8

\* What a step of a worker leaves alone, beside the worker.
LEMMA WorkerStepInv ==
  ASSUME PagesInv, NEW w \in Workers, NEW s \in {"working", "ok", "failed"},
         worker[w].step \in {"start", "working"}, Becomes(w, s), UNCHANGED <<main, died>>,
         worker[w].page = "extract" =>
           mod' = mod /\ (s = "ok" => tables'),
         worker[w].page = "build" =>
           tables' = tables /\ (s = "ok" => mod'.whole)
  PROVE  PagesInv'
<1> USE DEF PagesInv, main
<1>1. s \in Steps \ {"idle"} /\ s # "gone"
  BY DEF Steps
<1>2. /\ worker' \in [Workers -> [page : WorkPages \cup {"none"}, step : Steps]]
      /\ worker[w].page \in WorkPages /\ w \in Running(worker[w].page)
      /\ worker'[w] = [page |-> worker[w].page, step |-> s]
      /\ \A v \in Workers \ {w} : worker'[v] = worker[v]
      /\ \A v \in Workers : worker'[v].page = "none" <=> worker'[v].step = "idle"
      /\ \A q : Running(q)' = Running(q)
      /\ Gui
  BY <1>1, BecomesFacts
<1>3. /\ UNCHANGED <<at, nextOn, retryOn, attempts, cli, overlapped, died>>
  BY DEF buttons
<1>4. WizFlagsOK' /\ WizWorkersOK'
  BY <1>2, <1>3 DEF WizFlagsOK, WizWorkersOK
<1>5. WorkerInv' /\ WayOnInv'
  BY <1>2, <1>3 DEF WorkerInv, WayOnInv, Gui
<1>6. ButtonInv'
  <2> SUFFICES ASSUME NEW q \in WorkPages, ~overlapped[q]
               PROVE  /\ \A u, v \in Running(q) : u = v
                      /\ nextOn[q] \/ retryOn[q] => Running(q) = {}
                      /\ nextOn[q] \/ (\E v \in Running(q) : worker'[v].step = "ok")
                           => IF q = "extract" THEN tables' ELSE mod'.whole
    BY <1>2, <1>3 DEF ButtonInv
  <2>1. CASE q = worker[w].page
    <3>1. /\ \A v \in Running(q) : v = w
          /\ ~nextOn[q] /\ ~retryOn[q]
      BY <1>2, <2>1 DEF ButtonInv
    <3>2. s = "ok" => IF q = "extract" THEN tables' ELSE mod'.whole
      BY <2>1 DEF WorkPages
    <3> QED
      BY <1>2, <3>1, <3>2
  <2>2. CASE q # worker[w].page
    <3>1. w \notin Running(q)
      BY <2>2 DEF Running
    <3>2. \A v \in Running(q) : worker'[v] = worker[v]
      BY <1>2, <3>1 DEF Running
    <3>3. IF q = "extract" THEN tables' = tables ELSE mod' = mod
      BY <1>2, <2>2 DEF WorkPages
    <3> QED
      BY <3>2, <3>3 DEF ButtonInv
  <2> QED
    BY <2>1, <2>2
<1> QED
  BY <1>4, <1>5, <1>6

\* A dump is picked, ...
LEMMA WizBrowse == WizInv /\ Browse => WizInv'
<1> SUFFICES ASSUME WizInv, Browse
             PROVE  WizInv'
  OBVIOUS
<1> USE SetupWizardAssumption DEF WizInv, buttons, products, history
<1>0. TablesOK'
  BY Zenon DEF TablesOK, Browse
<1>1. Gui /\ cli' = cli
  BY DEF Browse
<1>2. WizDataOK'
  BY DEF WizDataOK, Browse
<1>3. PagesInv'
  BY DEF PagesInv, WizFlagsOK, WizWorkersOK, WorkerInv, ButtonInv, WayOnInv, Gui, Running, Pages,
         WorkPages, Browse
<1>9. PipelineInv'
  BY <1>1, <1>2, GuiPipeline DEF Gui
<1> QED
  BY <1>0, <1>2, <1>3, <1>9

\* ... and moved away.
LEMMA WizLose == WizInv /\ LoseDump => WizInv'
<1> SUFFICES ASSUME WizInv, LoseDump
             PROVE  WizInv'
  OBVIOUS
<1> USE SetupWizardAssumption DEF WizInv, buttons, products, history
<1>0. TablesOK'
  BY Zenon DEF TablesOK, LoseDump
<1>1. Gui /\ cli' = cli
  BY DEF LoseDump
<1>2. WizDataOK'
  BY DEF WizDataOK, LoseDump
<1>3. PagesInv'
  BY DEF PagesInv, WizFlagsOK, WizWorkersOK, WorkerInv, ButtonInv, WayOnInv, Gui, Running, Pages,
         WorkPages, LoseDump
<1>9. PipelineInv'
  BY <1>1, <1>2, GuiPipeline DEF Gui
<1> QED
  BY <1>0, <1>2, <1>3, <1>9

\* The extract page is entered.
LEMMA WizToExtract == WizInv /\ ToExtract => WizInv'
<1> SUFFICES ASSUME WizInv, ToExtract
             PROVE  WizInv'
  OBVIOUS
<1> USE SetupWizardAssumption DEF WizInv, buttons, products, history
<1>0. TablesOK'
  BY Zenon DEF TablesOK, ToExtract
<1>1. Gui /\ UNCHANGED <<cli, tables, mod, dumpThere, installed>>
  BY DEF ToExtract
<1>2. WizDataOK'
  BY <1>1 DEF WizDataOK
<1>3. PagesInv'
  <2>1. "extract" \in WorkPages /\ Enter("extract")
    BY DEF WorkPages, ToExtract
  <2> QED
    BY <1>1, <2>1, EnterInv
<1>9. PipelineInv'
  BY <1>1, <1>2, GuiPipeline DEF Gui
<1> QED
  BY <1>0, <1>2, <1>3, <1>9

\* Next.
LEMMA WizNextButton == WizInv /\ (\E p \in WorkPages : PressNext(p)) => WizInv'
<1> SUFFICES ASSUME WizInv, (\E p \in WorkPages : PressNext(p))
             PROVE  WizInv'
  OBVIOUS
<1> USE SetupWizardAssumption DEF WizInv, buttons, products, history
<1>0. TablesOK'
  BY Zenon DEF TablesOK, PressNext
<1>1. Gui /\ UNCHANGED <<cli, tables, mod, dumpThere, installed>>
  BY DEF PressNext
<1>2. WizDataOK'
  BY <1>1 DEF WizDataOK
<1>3. \/ Enter("build")
      \/ at' = "deploy" /\ UNCHANGED <<buttons, attempts, worker, history>>
  BY DEF PressNext
<1>4. ASSUME Enter("build")
      PROVE  PagesInv'
  <2>1. "build" \in WorkPages
    BY DEF WorkPages
  <2> QED
    BY <1>1, <1>4, <2>1, EnterInv
<1>5. ASSUME at' = "deploy", UNCHANGED <<buttons, attempts, worker, history>>
      PROVE  PagesInv'
  <2>1. at' = "deploy" /\ UNCHANGED <<nextOn, retryOn, attempts, worker, tables, mod, cli, overlapped, died>>
    BY <1>1, <1>5
  <2> QED
    BY <2>1 DEF PagesInv, WizFlagsOK, WizWorkersOK, WorkerInv, ButtonInv, WayOnInv, Gui,
            Running, Pages, WorkPages
<1>9. PipelineInv'
  BY <1>1, <1>2, GuiPipeline DEF Gui
<1> QED
  BY <1>0, <1>2, <1>3, <1>4, <1>5, <1>9

\* Back.
LEMMA WizBack == WizInv /\ PressBack => WizInv'
<1> SUFFICES ASSUME WizInv, PressBack
             PROVE  WizInv'
  OBVIOUS
<1> USE SetupWizardAssumption DEF WizInv, buttons, products, history
<1>0. TablesOK'
  BY Zenon DEF TablesOK, PressBack
<1>1. Gui /\ UNCHANGED <<cli, tables, mod, dumpThere, installed>>
  BY DEF PressBack
<1>2. WizDataOK'
  BY <1>1 DEF WizDataOK
<1>3. \/ Enter("extract") \/ Enter("build")
      \/ at' = "nsp" /\ UNCHANGED <<buttons, attempts, worker, history>>
  BY DEF PressBack
<1>4. ASSUME Enter("extract") \/ Enter("build")
      PROVE  PagesInv'
  <2>1. "extract" \in WorkPages /\ "build" \in WorkPages
    BY DEF WorkPages
  <2>2. CASE Enter("extract")
    BY <1>1, <2>1, <2>2, EnterInv
  <2>3. CASE Enter("build")
    BY <1>1, <2>1, <2>3, EnterInv
  <2> QED
    BY <1>4, <2>2, <2>3
<1>5. ASSUME at' = "nsp", UNCHANGED <<buttons, attempts, worker, history>>
      PROVE  PagesInv'
  <2>1. at' = "nsp" /\ UNCHANGED <<nextOn, retryOn, attempts, worker, tables, mod, cli, overlapped, died>>
    BY <1>1, <1>5
  <2> QED
    BY <2>1 DEF PagesInv, WizFlagsOK, WizWorkersOK, WorkerInv, ButtonInv, WayOnInv, Gui,
            Running, Pages, WorkPages
<1>9. PipelineInv'
  BY <1>1, <1>2, GuiPipeline DEF Gui
<1> QED
  BY <1>0, <1>2, <1>3, <1>4, <1>5, <1>9

\* Retry: there is no worker, since the button is there.
LEMMA WizRetry == WizInv /\ (\E p \in WorkPages : Retry(p)) => WizInv'
<1> SUFFICES ASSUME WizInv, (\E p \in WorkPages : Retry(p))
             PROVE  WizInv'
  OBVIOUS
<1> USE SetupWizardAssumption DEF WizInv, buttons, products, history
<1>0. TablesOK'
  BY Zenon DEF TablesOK, Retry
<1>1. PICK p \in WorkPages : Retry(p)
  OBVIOUS
<1>2. /\ Gui /\ at = p /\ retryOn[p] /\ StartWorker(p, attempts[p])
      /\ UNCHANGED <<at, cli, tables, mod, dumpThere, installed, overlapped, died>>
  BY <1>1 DEF Retry
<1>3. WizDataOK'
  BY <1>2 DEF WizDataOK
<1>4. attempts[p] \in 0 .. MaxStepAttempts
  BY DEF PagesInv, WizWorkersOK
<1> DEFINE Started(w) == /\ worker[w] = Idle
                         /\ worker' = [worker EXCEPT ![w] = [page |-> p, step |-> "start"]]
<1>5. /\ nextOn' \in [WorkPages -> BOOLEAN] /\ retryOn' \in [WorkPages -> BOOLEAN]
      /\ attempts' \in [WorkPages -> 0 .. MaxStepAttempts]
      /\ worker' \in [Workers -> [page : WorkPages \cup {"none"}, step : Steps]]
      /\ \A q \in WorkPages \ {p} :
           nextOn'[q] = nextOn[q] /\ retryOn'[q] = retryOn[q] /\ attempts'[q] = attempts[q]
      /\ \/ /\ attempts'[p] = MaxStepAttempts
            /\ worker' = worker /\ nextOn' = nextOn /\ ~retryOn'[p]
         \/ /\ ~nextOn'[p] /\ ~retryOn'[p]
            /\ \E w \in Workers : Started(w)
  BY <1>2, <1>4, StartFacts DEF PagesInv
<1> HIDE DEF Started
<1>6. WizFlagsOK' /\ WizWorkersOK'
  BY <1>2, <1>5 DEF PagesInv, WizFlagsOK, WizWorkersOK
<1>7. ASSUME attempts'[p] = MaxStepAttempts, worker' = worker, nextOn' = nextOn, ~retryOn'[p]
      PROVE  PagesInv'
  <2>1. WorkerInv'
    BY <1>2, <1>7 DEF PagesInv, WorkerInv, Gui
  <2>2. ButtonInv'
    BY <1>2, <1>5, <1>7 DEF PagesInv, ButtonInv, Running
  <2>3. WayOnInv'
    BY <1>2, <1>7 DEF WayOnInv
  <2> QED
    BY <1>6, <2>1, <2>2, <2>3 DEF PagesInv
<1>8. ASSUME NEW w \in Workers, Started(w), ~nextOn'[p], ~retryOn'[p]
      PROVE  PagesInv'
  <2>1. worker[w] = Idle /\ worker' = [worker EXCEPT ![w] = [page |-> p, step |-> "start"]]
    BY <1>8 DEF Started
  <2>2. /\ worker'[w] = [page |-> p, step |-> "start"]
        /\ \A v \in Workers \ {w} : worker'[v] = worker[v]
        /\ Running(p)' = Running(p) \cup {w}
        /\ \A q \in WorkPages \ {p} : Running(q)' = Running(q)
    <3> DEFINE new == [page |-> p, step |-> "start"]
    <3>1. new.page = p /\ new.step # "gone" /\ worker' = [worker EXCEPT ![w] = new]
      BY <2>1
    <3>2. \A q : Running(q)' = (Running(q) \ {w})
                                 \cup {x \in {w} : new.page = q /\ new.step # "gone"}
      <4> HIDE DEF new
      <4> QED
        BY <3>1, RunningFacts DEF PagesInv
    <3>3. \A q \in WorkPages : w \notin Running(q)
      BY <2>1 DEF Running, Idle, WorkPages
    <3>4. worker'[w] = new /\ \A v \in Workers \ {w} : worker'[v] = worker[v]
      BY <3>1 DEF PagesInv, WizWorkersOK
    <3> QED
      BY <3>1, <3>2, <3>3, <3>4
  <2>3. WorkerInv'
    BY <1>2, <2>1, <2>2 DEF PagesInv, WorkerInv, Gui, WorkPages, Idle
  <2>4. WayOnInv'
    BY <1>2, <2>2 DEF WayOnInv
  <2>5. ButtonInv'
    <3> SUFFICES ASSUME NEW q \in WorkPages, ~overlapped[q]
                 PROVE  /\ \A u, v \in Running(q)' : u = v
                        /\ nextOn'[q] \/ retryOn'[q] => Running(q)' = {}
                        /\ nextOn'[q] \/ (\E v \in Running(q)' : worker'[v].step = "ok")
                             => IF q = "extract" THEN tables ELSE mod.whole
      BY <1>2 DEF ButtonInv
    <3>1. CASE q = p
      <4>1. Running(p) = {}
        BY <1>2, <3>1 DEF PagesInv, ButtonInv
      <4> QED
        BY <1>8, <2>2, <3>1, <4>1
    <3>2. CASE q # p
      <4>1. Running(q)' = Running(q) /\ w \notin Running(q)
        BY <2>1, <2>2, <3>2 DEF Running, Idle, WorkPages
      <4>2. \A v \in Running(q) : worker'[v] = worker[v]
        BY <2>2, <4>1 DEF Running
      <4> QED
        BY <1>5, <3>2, <4>1, <4>2 DEF PagesInv, ButtonInv
    <3> QED
      BY <3>1, <3>2
  <2> QED
    BY <1>6, <2>3, <2>4, <2>5 DEF PagesInv
<1>9. PipelineInv'
  BY <1>2, <1>3, GuiPipeline DEF Gui
<1> QED
  BY <1>0, <1>3, <1>5, <1>7, <1>8, <1>9

\* Deploy.
LEMMA WizDeploy == WizInv /\ DeployNow => WizInv'
<1> SUFFICES ASSUME WizInv, DeployNow
             PROVE  WizInv'
  OBVIOUS
<1> USE SetupWizardAssumption DEF WizInv, buttons, products, history
<1>0. TablesOK'
  BY Zenon DEF TablesOK, DeployNow
<1>1. Gui /\ cli' = cli
  BY DEF DeployNow
<1>2. WizDataOK'
  <2>1. [mod EXCEPT !.whole = FALSE] \in Mods
    BY DEF WizDataOK, Mods
  <2>2. /\ installed' \in {installed, mod, [mod EXCEPT !.whole = FALSE]}
        /\ UNCHANGED <<dumpThere, tables, mod, cli>>
    BY DEF DeployNow
  <2> QED
    BY <2>1, <2>2 DEF WizDataOK
<1>3. PagesInv'
  <2>1. /\ at' \in {at, "done"}
        /\ UNCHANGED <<nextOn, retryOn, attempts, worker, tables, mod, cli, overlapped, died>>
    BY DEF DeployNow
  <2> QED
    BY <2>1 DEF PagesInv, WizFlagsOK, WizWorkersOK, WorkerInv, ButtonInv, WayOnInv, Gui,
            Running, Pages, WorkPages
<1>9. PipelineInv'
  BY <1>1, <1>2, GuiPipeline DEF Gui
<1> QED
  BY <1>0, <1>2, <1>3, <1>9

\* A worker of the extract page begins, ...
LEMMA WizExtractStarts == WizInv /\ (\E w \in Workers : ExtractStarts(w)) => WizInv'
<1> SUFFICES ASSUME WizInv, (\E w \in Workers : ExtractStarts(w))
             PROVE  WizInv'
  OBVIOUS
<1> USE SetupWizardAssumption DEF WizInv, buttons, products, history
<1>0. TablesOK'
  BY Zenon DEF TablesOK, ExtractStarts
<1>1. PICK w \in Workers : ExtractStarts(w)
  OBVIOUS
<1>2. worker[w] \in [page : WorkPages \cup {"none"}, step : Steps]
  BY DEF PagesInv, WizWorkersOK
<1>3. WizDataOK'
  BY <1>1 DEF ExtractStarts, WizDataOK, main
<1>4. PagesInv'
  <2>1. worker[w] = [page |-> "extract", step |-> "start"] /\ UNCHANGED <<main, died, tables, mod>>
    BY <1>1 DEF ExtractStarts, Is
  <2>2. (tables /\ Becomes(w, "ok")) \/ Becomes(w, "failed") \/ Becomes(w, "working")
    BY <1>1 DEF ExtractStarts
  <2> QED
    BY <2>1, <2>2, WorkerStepInv
<1>8. Gui /\ cli' = cli
  BY <1>1 DEF ExtractStarts, Is, main, PagesInv, WorkerInv, Idle
<1>9. PipelineInv'
  BY <1>3, <1>8, GuiPipeline DEF Gui
<1> QED
  BY <1>0, <1>3, <1>4, <1>9

\* ... and compares the hashes.
LEMMA WizExtractEnds == WizInv /\ (\E w \in Workers : ExtractEnds(w)) => WizInv'
<1> SUFFICES ASSUME WizInv, (\E w \in Workers : ExtractEnds(w))
             PROVE  WizInv'
  OBVIOUS
<1> USE SetupWizardAssumption DEF WizInv, buttons, products, history
<1>0. TablesOK'
  BY Zenon DEF TablesOK, ExtractEnds
<1>1. PICK w \in Workers : ExtractEnds(w)
  OBVIOUS
<1>2. worker[w] \in [page : WorkPages \cup {"none"}, step : Steps]
  BY DEF PagesInv, WizWorkersOK
<1>3. WizDataOK'
  BY <1>1 DEF ExtractEnds, WizDataOK, main
<1>4. PagesInv'
  <2>1. worker[w] = [page |-> "extract", step |-> "working"] /\ UNCHANGED <<main, died, mod>>
    BY <1>1 DEF ExtractEnds, Is
  <2>2. \/ worker' = worker
        \/ tables' \in BOOLEAN /\ Becomes(w, IF tables' THEN "ok" ELSE "failed")
    BY <1>1, Zenon DEF ExtractEnds
  <2>4. CASE tables' \in BOOLEAN /\ Becomes(w, IF tables' THEN "ok" ELSE "failed")
    <3>1. (tables' /\ Becomes(w, "ok")) \/ Becomes(w, "failed")
      BY <2>4, Zenon
    <3> QED
      BY <2>1, <3>1, WorkerStepInv
  <2>3. CASE worker' = worker
    <3>1. Becomes(w, "working")
      BY <2>1, <2>3, <1>2 DEF Becomes, PagesInv, WizWorkersOK
    <3> QED
      BY <2>1, <3>1, WorkerStepInv
  <2> QED
    BY <2>2, <2>3, <2>4
<1>8. Gui /\ cli' = cli
  BY <1>1 DEF ExtractEnds, Is, main, PagesInv, WorkerInv, Idle
<1>9. PipelineInv'
  BY <1>3, <1>8, GuiPipeline DEF Gui
<1> QED
  BY <1>0, <1>3, <1>4, <1>9

\* A worker of the build page begins, ...
LEMMA WizBuildStarts == WizInv /\ (\E w \in Workers : BuildStarts(w)) => WizInv'
<1> SUFFICES ASSUME WizInv, (\E w \in Workers : BuildStarts(w))
             PROVE  WizInv'
  OBVIOUS
<1> USE SetupWizardAssumption DEF WizInv, buttons, products, history
<1>0. TablesOK'
  BY Zenon DEF TablesOK, BuildStarts
<1>1. PICK w \in Workers : BuildStarts(w)
  OBVIOUS
<1>2. worker[w] \in [page : WorkPages \cup {"none"}, step : Steps]
  BY DEF PagesInv, WizWorkersOK
<1>3. WizDataOK'
  <2>1. mod' \in {mod, [NoMod EXCEPT !.by = "page"]}
    BY <1>1 DEF BuildStarts
  <2> QED
    BY <1>1, <2>1 DEF BuildStarts, WizDataOK, Mods, main, NoMod
<1>4. PagesInv'
  <2>1. worker[w] = [page |-> "build", step |-> "start"] /\ UNCHANGED <<main, died, tables>>
    BY <1>1 DEF BuildStarts, Is
  <2>2. \/ Becomes(w, "failed") \/ Becomes(w, "working")
    BY <1>1 DEF BuildStarts
  <2> QED
    BY <2>1, <2>2, WorkerStepInv
<1>8. Gui /\ cli' = cli
  BY <1>1 DEF BuildStarts, Is, main, PagesInv, WorkerInv, Idle
<1>9. PipelineInv'
  BY <1>3, <1>8, GuiPipeline DEF Gui
<1> QED
  BY <1>0, <1>3, <1>4, <1>9

\* ... and collects the outputs.
LEMMA WizBuildEnds == WizInv /\ (\E w \in Workers : BuildEnds(w)) => WizInv'
<1> SUFFICES ASSUME WizInv, (\E w \in Workers : BuildEnds(w))
             PROVE  WizInv'
  OBVIOUS
<1> USE SetupWizardAssumption DEF WizInv, buttons, products, history
<1>0. TablesOK'
  BY Zenon DEF TablesOK, BuildEnds
<1>1. PICK w \in Workers : BuildEnds(w)
  OBVIOUS
<1>2. worker[w] \in [page : WorkPages \cup {"none"}, step : Steps]
  BY DEF PagesInv, WizWorkersOK
<1>3. WizDataOK'
  <2>1. PICK whole \in BOOLEAN : mod' = [by |-> "page", whole |-> whole]
    BY <1>1 DEF BuildEnds
  <2> QED
    BY <1>1, <2>1 DEF BuildEnds, WizDataOK, Mods, main
<1>4. PagesInv'
  <2>1. worker[w] = [page |-> "build", step |-> "working"] /\ UNCHANGED <<main, died, tables>>
    BY <1>1 DEF BuildEnds, Is
  <2>2. PICK whole \in BOOLEAN : /\ mod' = [by |-> "page", whole |-> whole]
                               /\ Becomes(w, IF whole THEN "ok" ELSE "failed")
    BY <1>1, Zenon DEF BuildEnds
  <2>3. CASE whole
    <3>1. mod'.whole
      BY <2>2, <2>3
    <3>2. Becomes(w, "ok")
      BY <2>2, <2>3, Zenon
    <3> QED
      BY <2>1, <3>1, <3>2, WorkerStepInv
  <2>4. CASE ~whole
    <3>1. Becomes(w, "failed")
      BY <2>2, <2>4, Zenon
    <3> QED
      BY <2>1, <3>1, WorkerStepInv
  <2> QED
    BY <2>3, <2>4
<1>8. Gui /\ cli' = cli
  BY <1>1 DEF BuildEnds, Is, main, PagesInv, WorkerInv, Idle
<1>9. PipelineInv'
  BY <1>3, <1>8, GuiPipeline DEF Gui
<1> QED
  BY <1>0, <1>3, <1>4, <1>9

\* A worker is ended by an exception.
LEMMA WizDies == WizInv /\ (\E w \in Workers : WorkerDies(w)) => WizInv'
<1> SUFFICES ASSUME WizInv, (\E w \in Workers : WorkerDies(w))
             PROVE  WizInv'
  OBVIOUS
<1> USE SetupWizardAssumption DEF WizInv, buttons, products, history
<1>0. TablesOK'
  BY Zenon DEF TablesOK, WorkerDies
<1>1. PICK w \in Workers : WorkerDies(w)
  OBVIOUS
<1> DEFINE p == worker[w].page
<1>2. Gui /\ UNCHANGED <<cli, at, nextOn, retryOn, attempts, dumpThere, overlapped, tables, mod, installed>>
  BY <1>1 DEF WorkerDies, main, PagesInv, WorkerInv, Idle
<1>3. WizDataOK'
  BY <1>2 DEF WizDataOK
<1>4. PagesInv'
  <2>1. /\ worker' \in [Workers -> [page : WorkPages \cup {"none"}, step : Steps]]
        /\ p \in WorkPages /\ w \in Running(p)
        /\ \A v \in Workers \ {w} : worker'[v] = worker[v]
        /\ \A v \in Workers : worker'[v].page = "none" <=> worker'[v].step = "idle"
        /\ \A q : Running(q)' = Running(q) \ {w}
    BY <1>1, BecomesFacts DEF WorkerDies, Steps, PagesInv
  <2>2. died' = [died EXCEPT ![p] = TRUE]
    BY <1>1 DEF WorkerDies
  <2> HIDE DEF p
  <2>3. WizFlagsOK' /\ WizWorkersOK'
    BY <1>2, <2>1, <2>2 DEF PagesInv, WizFlagsOK, WizWorkersOK
  <2>4. WorkerInv'
    BY <1>2, <2>1 DEF PagesInv, WorkerInv, Gui
  <2>5. WayOnInv'
    <3>1. ASSUME at = p
          PROVE  died'[at]
      BY <2>1, <2>2, <3>1 DEF PagesInv, WizFlagsOK
    <3>2. ASSUME at # p, at \in WorkPages
          PROVE  died'[at] = died[at] /\ Running(at)' = Running(at)
      <4>1. w \notin Running(at)
        BY <3>2 DEF Running, p
      <4>2. died'[at] = died[at]
        BY <2>2, <3>2 DEF PagesInv, WizFlagsOK
      <4> QED
        BY <1>2, <2>1, <4>1, <4>2
    <3> QED
      BY <1>2, <3>1, <3>2 DEF PagesInv, WayOnInv
  <2>6. ButtonInv'
    <3>1. \A q : \A v \in Running(q)' : v \in Running(q) /\ worker'[v] = worker[v]
      BY <2>1 DEF Running
    <3> QED
      BY <1>2, <3>1 DEF PagesInv, ButtonInv
  <2> QED
    BY <2>3, <2>4, <2>5, <2>6 DEF PagesInv
<1>9. PipelineInv'
  BY <1>2, <1>3, GuiPipeline DEF Gui
<1> QED
  BY <1>0, <1>3, <1>4, <1>9

\* The event of a worker gives its page a button back.
LEMMA WizFinish == WizInv /\ (\E w \in Workers : Finish(w)) => WizInv'
<1> SUFFICES ASSUME WizInv, (\E w \in Workers : Finish(w))
             PROVE  WizInv'
  OBVIOUS
<1> USE SetupWizardAssumption DEF WizInv, buttons, products, history
<1>0. TablesOK'
  BY Zenon DEF TablesOK, Finish
<1>1. PICK w \in Workers : Finish(w)
  OBVIOUS
<1> DEFINE p == worker[w].page
<1>2. Gui /\ UNCHANGED <<cli, at, attempts, dumpThere, overlapped, died, tables, mod, installed>>
  BY <1>1 DEF Finish, PagesInv, WorkerInv, Idle
<1>3. WizDataOK'
  BY <1>2 DEF WizDataOK
<1>4. PagesInv'
  <2>1. /\ worker' \in [Workers -> [page : WorkPages \cup {"none"}, step : Steps]]
        /\ p \in WorkPages /\ w \in Running(p)
        /\ \A v \in Workers \ {w} : worker'[v] = worker[v]
        /\ \A v \in Workers : worker'[v].page = "none" <=> worker'[v].step = "idle"
        /\ \A q : Running(q)' = Running(q) \ {w}
    BY <1>1, BecomesFacts DEF Finish, Steps, PagesInv
  <2>2. \/ /\ worker[w].step = "ok" /\ nextOn' = [nextOn EXCEPT ![p] = TRUE]
           /\ retryOn' = retryOn \/ retryOn' = [retryOn EXCEPT ![p] = FALSE]
        \/ retryOn' = [retryOn EXCEPT ![p] = TRUE] /\ nextOn' = nextOn
    BY <1>1 DEF Finish
  <2> HIDE DEF p
  <2>3. /\ nextOn' \in [WorkPages -> BOOLEAN] /\ retryOn' \in [WorkPages -> BOOLEAN]
        /\ nextOn'[p] \/ retryOn'[p]
        /\ \A q \in WorkPages \ {p} : nextOn'[q] = nextOn[q] /\ retryOn'[q] = retryOn[q]
        /\ nextOn'[p] => nextOn[p] \/ worker[w].step = "ok"
    BY <2>1, <2>2 DEF PagesInv, WizFlagsOK
  <2>4. WizFlagsOK' /\ WizWorkersOK'
    BY <1>2, <2>1, <2>3 DEF PagesInv, WizFlagsOK, WizWorkersOK
  <2>5. WorkerInv'
    BY <1>2, <2>1 DEF PagesInv, WorkerInv, Gui
  <2>6. \A q \in WorkPages \ {p} : Running(q)' = Running(q) /\ w \notin Running(q)
    BY <2>1 DEF Running, p
  <2>7. WayOnInv'
    BY <1>2, <2>3, <2>6 DEF PagesInv, WayOnInv
  <2>8. ButtonInv'
    <3> SUFFICES ASSUME NEW q \in WorkPages, ~overlapped[q]
                 PROVE  /\ \A u, v \in Running(q)' : u = v
                        /\ nextOn'[q] \/ retryOn'[q] => Running(q)' = {}
                        /\ nextOn'[q] \/ (\E v \in Running(q)' : worker'[v].step = "ok")
                             => IF q = "extract" THEN tables ELSE mod.whole
      BY <1>2 DEF ButtonInv
    <3>1. CASE q = p
      <4>1. Running(q) = {w} /\ Running(q)' = {}
        <5>1. \A u, v \in Running(q) : u = v
          BY <3>1 DEF PagesInv, ButtonInv
        <5> QED
          BY <2>1, <3>1, <5>1
      <4>2. nextOn'[p] => IF p = "extract" THEN tables ELSE mod.whole
        BY <2>3, <3>1, <4>1 DEF PagesInv, ButtonInv
      <4> QED
        BY <3>1, <4>1, <4>2
    <3>2. CASE q # p
      <4>1. Running(q)' = Running(q) /\ \A v \in Running(q) : worker'[v] = worker[v]
        BY <2>1, <2>6, <3>2 DEF Running
      <4> QED
        BY <2>3, <3>2, <4>1 DEF PagesInv, ButtonInv
    <3> QED
      BY <3>1, <3>2
  <2> QED
    BY <2>4, <2>5, <2>7, <2>8 DEF PagesInv
<1>9. PipelineInv'
  BY <1>2, <1>3, GuiPipeline DEF Gui
<1> QED
  BY <1>0, <1>3, <1>4, <1>9

\* A phase of the pipeline leaves the pages alone, which are not used.
LEMMA PhaseLeavesPages ==
  WizInv /\ UNCHANGED gui /\ cli.outcome = "running" /\ cli'.outcome # "none" => PagesInv'
<1> SUFFICES ASSUME WizInv, UNCHANGED gui, cli.outcome = "running", cli'.outcome # "none"
             PROVE  PagesInv'
  OBVIOUS
<1>1. ~Gui /\ ~Gui'
  BY DEF Gui, NoCli
<1>2. UNCHANGED <<at, nextOn, retryOn, attempts, worker, overlapped, died>>
  BY DEF gui, buttons, history
<1>3. (\A w \in Workers : worker[w] = Idle) /\ (\A p \in WorkPages : ~nextOn[p])
  BY <1>1 DEF WizInv, PagesInv, WorkerInv
<1>4. \A p \in WorkPages : Running(p)' = {} /\ Running(p) = {}
  BY <1>2, <1>3 DEF Running, Idle, WorkPages
<1>5. WizFlagsOK' /\ WizWorkersOK' /\ WorkerInv' /\ WayOnInv'
  BY <1>1, <1>2, <1>3 DEF WizInv, PagesInv, WizFlagsOK, WizWorkersOK, WorkerInv, WayOnInv, Running
<1>6. ButtonInv'
  BY <1>2, <1>3, <1>4 DEF ButtonInv
<1> QED
  BY <1>5, <1>6 DEF PagesInv

\* The phases of the pipeline.
LEMMA WizProbe == WizInv /\ Probe => WizInv'
<1> SUFFICES ASSUME WizInv, Probe
             PROVE  WizInv'
  OBVIOUS
<1> USE SetupWizardAssumption DEF WizInv, buttons, products, history
<1>0. TablesOK'
  BY Zenon DEF TablesOK, Probe
<1>1. /\ cli.outcome = "running" /\ "probe" \in cli.left /\ UNCHANGED gui
      /\ \A q \in cli.left : PhaseOrder["probe"] <= PhaseOrder[q]
  BY DEF Probe, Phase
<1>2. cli \in Clis /\ mod \in Mods /\ installed \in Mods
  BY DEF WizDataOK
<1>3. /\ cli'.asked = cli.asked /\ cli' \in Clis
      /\ \/ cli'.left = cli.left \ {"probe"} /\ cli'.outcome \in {"running", "failed"}
         \/ cli'.left = cli.left /\ cli'.outcome = "failed"
  <2>1. PICK found \in {"all", "some missing", "none to install"} :
          cli' = [cli EXCEPT !.probe = found, !.left = @ \ {"probe"},
                             !.outcome = IF found # "all" /\ ~cli.authorized THEN "failed" ELSE @]
    BY DEF Probe
  <2>2. CASE found # "all" /\ ~cli.authorized
    <3>1. cli' = [cli EXCEPT !.probe = found, !.left = @ \ {"probe"}, !.outcome = "failed"]
      BY <2>1, <2>2
    <3> QED
      BY <1>2, <3>1 DEF Clis
  <2>3. CASE ~(found # "all" /\ ~cli.authorized)
    <3>1. cli' = [cli EXCEPT !.probe = found, !.left = @ \ {"probe"}]
      BY <1>2, <2>1, <2>3 DEF Clis
    <3> QED
      BY <1>1, <1>2, <3>1 DEF Clis
  <2> QED
    BY <2>2, <2>3
<1>4. cli'.built = cli.built /\ UNCHANGED <<tables, mod, installed>>
  BY <1>1, <1>2 DEF Clis, Probe
<1>5. WizDataOK'
  <2>1. mod' \in Mods /\ installed' \in Mods
    BY <1>2 DEF Probe
  <2>2. dumpThere' = dumpThere
    BY <1>1 DEF gui
  <2> QED
    BY <1>3, <2>1, <2>2 DEF WizDataOK
<1>6. PagesInv'
  BY <1>1, <1>3, PhaseLeavesPages
<1>7. PipelineInv'
  <2>1. cli.left \subseteq Phases /\ cli.asked \subseteq Phases
    BY <1>2 DEF Clis
  <2>2. Behind' = IF cli'.left = cli.left THEN Behind ELSE Behind \cup {"probe"}
    BY <1>1, <1>3 DEF Behind, PipelineInv
  <2>3. cli'.outcome # "ok" /\ cli'.left \subseteq cli'.asked
    BY <1>3 DEF PipelineInv
  <2>4. \A b \in Behind', q \in cli'.left : PhaseOrder[b] < PhaseOrder[q]
    <3>1. \A q \in cli.left \ {"probe"} : PhaseOrder["probe"] < PhaseOrder[q]
      BY <1>1, <2>1 DEF Phases, PhaseOrder
    <3> QED
      BY <1>3, <2>2, <3>1 DEF PipelineInv
  <2>5. \A b \in Behind : PhaseOrder[b] < PhaseOrder["probe"]
    BY <1>1 DEF PipelineInv
  <2>6. /\ "extract" \in Behind => tables
        /\ "build" \in Behind => cli.built /\ "probe" = "deploy"
        /\ "deploy" \notin Behind /\ "probe" \notin Behind
        /\ cli.built => "build" \in Behind /\ mod = [by |-> "cli", whole |-> TRUE]
    BY <1>1, <2>5 DEF PipelineInv, PhaseOrder
  <2>7. /\ cli'.built => "build" \in Behind' /\ mod' = [by |-> "cli", whole |-> TRUE]
        /\ "extract" \in Behind' => tables'
        /\ "build" \in Behind' => cli'.built
        /\ "deploy" \notin Behind'
    BY <1>3, <1>4, <2>2, <2>6
  <2>8. cli'.outcome = "running" /\ "deploy" \in cli'.left => installed' = NoMod
    BY <1>1, <1>3, <1>4 DEF PipelineInv
  <2> QED
    BY <2>3, <2>4, <2>7, <2>8 DEF PipelineInv
<1> QED
  BY <1>0, <1>5, <1>6, <1>7

LEMMA WizInstall == WizInv /\ InstallMissing => WizInv'
<1> SUFFICES ASSUME WizInv, InstallMissing
             PROVE  WizInv'
  OBVIOUS
<1> USE SetupWizardAssumption DEF WizInv, buttons, products, history
<1>0. TablesOK'
  BY Zenon DEF TablesOK, InstallMissing
<1>1. /\ cli.outcome = "running" /\ "install" \in cli.left /\ UNCHANGED gui
      /\ \A q \in cli.left : PhaseOrder["install"] <= PhaseOrder[q]
  BY DEF InstallMissing, Phase
<1>2. cli \in Clis /\ mod \in Mods /\ installed \in Mods
  BY DEF WizDataOK
<1>3. /\ cli'.asked = cli.asked /\ cli' \in Clis
      /\ \/ cli'.left = cli.left \ {"install"} /\ cli'.outcome \in {"running", "failed"}
         \/ cli'.left = cli.left /\ cli'.outcome = "failed"
  BY <1>1, <1>2 DEF Clis, InstallMissing, Passed, Failed
<1>4. cli'.built = cli.built /\ UNCHANGED <<tables, mod, installed>>
  BY <1>1, <1>2 DEF Clis, InstallMissing, Passed, Failed
<1>5. WizDataOK'
  <2>1. mod' \in Mods /\ installed' \in Mods
    BY <1>2 DEF InstallMissing
  <2>2. dumpThere' = dumpThere
    BY <1>1 DEF gui
  <2> QED
    BY <1>3, <2>1, <2>2 DEF WizDataOK
<1>6. PagesInv'
  BY <1>1, <1>3, PhaseLeavesPages
<1>7. PipelineInv'
  <2>1. cli.left \subseteq Phases /\ cli.asked \subseteq Phases
    BY <1>2 DEF Clis
  <2>2. Behind' = IF cli'.left = cli.left THEN Behind ELSE Behind \cup {"install"}
    BY <1>1, <1>3 DEF Behind, PipelineInv
  <2>3. cli'.outcome # "ok" /\ cli'.left \subseteq cli'.asked
    BY <1>3 DEF PipelineInv
  <2>4. \A b \in Behind', q \in cli'.left : PhaseOrder[b] < PhaseOrder[q]
    <3>1. \A q \in cli.left \ {"install"} : PhaseOrder["install"] < PhaseOrder[q]
      BY <1>1, <2>1 DEF Phases, PhaseOrder
    <3> QED
      BY <1>3, <2>2, <3>1 DEF PipelineInv
  <2>5. \A b \in Behind : PhaseOrder[b] < PhaseOrder["install"]
    BY <1>1 DEF PipelineInv
  <2>6. /\ "extract" \in Behind => tables
        /\ "build" \in Behind => cli.built /\ "install" = "deploy"
        /\ "deploy" \notin Behind /\ "install" \notin Behind
        /\ cli.built => "build" \in Behind /\ mod = [by |-> "cli", whole |-> TRUE]
    BY <1>1, <2>5 DEF PipelineInv, PhaseOrder
  <2>7. /\ cli'.built => "build" \in Behind' /\ mod' = [by |-> "cli", whole |-> TRUE]
        /\ "extract" \in Behind' => tables'
        /\ "build" \in Behind' => cli'.built
        /\ "deploy" \notin Behind'
    BY <1>3, <1>4, <2>2, <2>6
  <2>8. cli'.outcome = "running" /\ "deploy" \in cli'.left => installed' = NoMod
    BY <1>1, <1>3, <1>4 DEF PipelineInv
  <2> QED
    BY <2>3, <2>4, <2>7, <2>8 DEF PipelineInv
<1> QED
  BY <1>0, <1>5, <1>6, <1>7

LEMMA WizExtract == WizInv /\ Extract => WizInv'
<1> SUFFICES ASSUME WizInv, Extract
             PROVE  WizInv'
  OBVIOUS
<1> USE SetupWizardAssumption DEF WizInv, buttons, products, history
<1>0. TablesOK'
  BY Zenon DEF TablesOK, Extract
<1>1. /\ cli.outcome = "running" /\ "extract" \in cli.left /\ UNCHANGED gui
      /\ \A q \in cli.left : PhaseOrder["extract"] <= PhaseOrder[q]
  BY DEF Extract, Phase
<1>2. cli \in Clis /\ mod \in Mods /\ installed \in Mods
  BY DEF WizDataOK
<1>3. /\ cli'.asked = cli.asked /\ cli' \in Clis
      /\ \/ cli'.left = cli.left \ {"extract"} /\ cli'.outcome \in {"running", "failed"}
         \/ cli'.left = cli.left /\ cli'.outcome = "failed"
  BY <1>1, <1>2 DEF Clis, Extract, Passed, Failed
<1>4. /\ cli'.built = cli.built /\ UNCHANGED <<mod, installed>>
      /\ cli'.left # cli.left => tables'
      /\ tables => tables'
  <2>1. cli'.built = cli.built /\ UNCHANGED <<mod, installed>>
    BY <1>1, <1>2 DEF Clis, Extract, Passed, Failed
  <2>2. Failed => cli'.left = cli.left
    BY <1>2 DEF Failed, Clis
  <2>3. tables' \/ (Failed /\ (tables => tables'))
    <3>1. tables' = TRUE \/ (tables /\ tables' = tables) \/ (Failed /\ tables' = tables)
      BY Zenon DEF Extract
    <3> QED
      BY <3>1, Zenon
  <2> QED
    BY <2>1, <2>2, <2>3, Zenon
<1>5. WizDataOK'
  <2>1. mod' \in Mods /\ installed' \in Mods
    BY <1>2 DEF Extract
  <2>2. dumpThere' = dumpThere
    BY <1>1 DEF gui
  <2> QED
    BY <1>3, <2>1, <2>2 DEF WizDataOK
<1>6. PagesInv'
  BY <1>1, <1>3, PhaseLeavesPages
<1>7. PipelineInv'
  <2>1. cli.left \subseteq Phases /\ cli.asked \subseteq Phases
    BY <1>2 DEF Clis
  <2>2. Behind' = IF cli'.left = cli.left THEN Behind ELSE Behind \cup {"extract"}
    BY <1>1, <1>3 DEF Behind, PipelineInv
  <2>3. cli'.outcome # "ok" /\ cli'.left \subseteq cli'.asked
    BY <1>3 DEF PipelineInv
  <2>4. \A b \in Behind', q \in cli'.left : PhaseOrder[b] < PhaseOrder[q]
    <3>1. \A q \in cli.left \ {"extract"} : PhaseOrder["extract"] < PhaseOrder[q]
      BY <1>1, <2>1 DEF Phases, PhaseOrder
    <3> QED
      BY <1>3, <2>2, <3>1 DEF PipelineInv
  <2>5. \A b \in Behind : PhaseOrder[b] < PhaseOrder["extract"]
    BY <1>1 DEF PipelineInv
  <2>6. /\ "extract" \in Behind => tables
        /\ "build" \in Behind => cli.built /\ "extract" = "deploy"
        /\ "deploy" \notin Behind /\ "extract" \notin Behind
        /\ cli.built => "build" \in Behind /\ mod = [by |-> "cli", whole |-> TRUE]
    BY <1>1, <2>5 DEF PipelineInv, PhaseOrder
  <2>7. /\ cli'.built => "build" \in Behind' /\ mod' = [by |-> "cli", whole |-> TRUE]
        /\ "extract" \in Behind' => tables'
        /\ "build" \in Behind' => cli'.built
        /\ "deploy" \notin Behind'
    BY <1>3, <1>4, <2>2, <2>6
  <2>8. cli'.outcome = "running" /\ "deploy" \in cli'.left => installed' = NoMod
    BY <1>1, <1>3, <1>4 DEF PipelineInv
  <2> QED
    BY <2>3, <2>4, <2>7, <2>8 DEF PipelineInv
<1> QED
  BY <1>0, <1>5, <1>6, <1>7

LEMMA WizBuild == WizInv /\ Build => WizInv'
<1> SUFFICES ASSUME WizInv, Build
             PROVE  WizInv'
  OBVIOUS
<1> USE SetupWizardAssumption DEF WizInv, buttons, products, history
<1>0. TablesOK'
  BY Zenon DEF TablesOK, Build
<1>1. /\ cli.outcome = "running" /\ "build" \in cli.left /\ UNCHANGED gui
      /\ \A q \in cli.left : PhaseOrder["build"] <= PhaseOrder[q]
  BY DEF Build, Phase
<1>2. cli \in Clis /\ mod \in Mods /\ installed \in Mods
  BY DEF WizDataOK
<1>3. /\ cli'.asked = cli.asked /\ cli' \in Clis
      /\ \/ cli'.left = cli.left \ {"build"} /\ cli'.outcome \in {"running", "failed"}
         \/ cli'.left = cli.left /\ cli'.outcome = "failed"
  BY <1>1, <1>2 DEF Clis, Build, Failed
<1>4. /\ UNCHANGED <<tables, installed>>
      /\ IF cli'.left # cli.left THEN cli'.built /\ mod' = [by |-> "cli", whole |-> TRUE]
                                ELSE cli'.built = cli.built
  BY <1>1, <1>2 DEF Clis, Build, Failed
<1>5. WizDataOK'
  <2>1. mod' \in Mods /\ installed' \in Mods
    <3>1. [by |-> "cli", whole |-> TRUE] \in Mods /\ [by |-> "cli", whole |-> FALSE] \in Mods
      BY DEF Mods
    <3>2. mod' \in {mod, [by |-> "cli", whole |-> TRUE], [by |-> "cli", whole |-> FALSE]}
      BY DEF Build
    <3> QED
      BY <1>2, <1>4, <3>1, <3>2
  <2>2. dumpThere' = dumpThere
    BY <1>1 DEF gui
  <2> QED
    BY <1>3, <2>1, <2>2 DEF WizDataOK
<1>6. PagesInv'
  BY <1>1, <1>3, PhaseLeavesPages
<1>7. PipelineInv'
  <2>1. cli.left \subseteq Phases /\ cli.asked \subseteq Phases
    BY <1>2 DEF Clis
  <2>2. Behind' = IF cli'.left = cli.left THEN Behind ELSE Behind \cup {"build"}
    BY <1>1, <1>3 DEF Behind, PipelineInv
  <2>3. cli'.outcome # "ok" /\ cli'.left \subseteq cli'.asked
    BY <1>3 DEF PipelineInv
  <2>4. \A b \in Behind', q \in cli'.left : PhaseOrder[b] < PhaseOrder[q]
    <3>1. \A q \in cli.left \ {"build"} : PhaseOrder["build"] < PhaseOrder[q]
      BY <1>1, <2>1 DEF Phases, PhaseOrder
    <3> QED
      BY <1>3, <2>2, <3>1 DEF PipelineInv
  <2>5. \A b \in Behind : PhaseOrder[b] < PhaseOrder["build"]
    BY <1>1 DEF PipelineInv
  <2>6. /\ "extract" \in Behind => tables
        /\ "build" \in Behind => cli.built /\ "build" = "deploy"
        /\ "deploy" \notin Behind /\ "build" \notin Behind
        /\ cli.built => "build" \in Behind /\ mod = [by |-> "cli", whole |-> TRUE]
    BY <1>1, <2>5 DEF PipelineInv, PhaseOrder
  <2>7. /\ cli'.built => "build" \in Behind' /\ mod' = [by |-> "cli", whole |-> TRUE]
        /\ "extract" \in Behind' => tables'
        /\ "build" \in Behind' => cli'.built
        /\ "deploy" \notin Behind'
    BY <1>3, <1>4, <2>2, <2>6
  <2>8. cli'.outcome = "running" /\ "deploy" \in cli'.left => installed' = NoMod
    BY <1>1, <1>3, <1>4 DEF PipelineInv
  <2> QED
    BY <2>3, <2>4, <2>7, <2>8 DEF PipelineInv
<1> QED
  BY <1>0, <1>5, <1>6, <1>7

LEMMA WizDeployPhase == WizInv /\ Deploy => WizInv'
<1> SUFFICES ASSUME WizInv, Deploy
             PROVE  WizInv'
  OBVIOUS
<1> USE SetupWizardAssumption DEF WizInv, buttons, products, history
<1>0. TablesOK'
  BY Zenon DEF TablesOK, Deploy
<1>1. /\ cli.outcome = "running" /\ "deploy" \in cli.left /\ UNCHANGED gui
      /\ \A q \in cli.left : PhaseOrder["deploy"] <= PhaseOrder[q]
  BY DEF Deploy, Phase
<1>2. cli \in Clis /\ mod \in Mods /\ installed \in Mods
  BY DEF WizDataOK
<1>3. /\ cli'.asked = cli.asked /\ cli' \in Clis
      /\ \/ cli'.left = cli.left \ {"deploy"} /\ cli'.outcome \in {"running", "failed"}
         \/ cli'.left = cli.left /\ cli'.outcome = "failed"
  BY <1>1, <1>2 DEF Clis, Deploy, Passed, Failed
<1>4. /\ cli'.built = cli.built /\ cli'.target = cli.target /\ UNCHANGED <<tables, mod>>
      /\ cli'.left # cli.left =>
           /\ cli.built \/ mod.whole
           /\ installed' = IF cli.target = "folder" THEN mod ELSE NoMod
  <2>1. installed = NoMod
    BY <1>1 DEF PipelineInv
  <2> QED
    BY <1>1, <1>2, <2>1 DEF Clis, Targets, Deploy, Passed, Failed
<1>5. WizDataOK'
  <2>1. mod' \in Mods /\ installed' \in Mods
    BY <1>2 DEF Deploy, Mods
  <2>2. dumpThere' = dumpThere
    BY <1>1 DEF gui
  <2> QED
    BY <1>3, <2>1, <2>2 DEF WizDataOK
<1>6. PagesInv'
  BY <1>1, <1>3, PhaseLeavesPages
<1>7. PipelineInv'
  <2>1. cli.left \subseteq Phases /\ cli.asked \subseteq Phases
    BY <1>2 DEF Clis
  <2>2. Behind' = IF cli'.left = cli.left THEN Behind ELSE Behind \cup {"deploy"}
    BY <1>1, <1>3 DEF Behind, PipelineInv
  <2>3. cli'.outcome # "ok" /\ cli'.left \subseteq cli'.asked
    BY <1>3 DEF PipelineInv
  <2>4. \A b \in Behind', q \in cli'.left : PhaseOrder[b] < PhaseOrder[q]
    <3>1. \A q \in cli.left \ {"deploy"} : PhaseOrder["deploy"] < PhaseOrder[q]
      BY <1>1, <2>1 DEF Phases, PhaseOrder
    <3> QED
      BY <1>3, <2>2, <3>1 DEF PipelineInv
  <2>5. \A b \in Behind : PhaseOrder[b] < PhaseOrder["deploy"]
    BY <1>1 DEF PipelineInv
  <2>6. /\ "extract" \in Behind => tables
        /\ "build" \in Behind => cli.built /\ "deploy" = "deploy"
        /\ "deploy" \notin Behind /\ "deploy" \notin Behind
        /\ cli.built => "build" \in Behind /\ mod = [by |-> "cli", whole |-> TRUE]
    BY <1>1, <2>5 DEF PipelineInv, PhaseOrder
  <2>7. /\ cli'.built => "build" \in Behind' /\ mod' = [by |-> "cli", whole |-> TRUE]
        /\ "extract" \in Behind' => tables'
        /\ "build" \in Behind' => cli'.built
        /\ "deploy" \in Behind' =>
             mod'.whole /\ installed' = IF cli'.target = "folder" THEN mod' ELSE NoMod
    BY <1>3, <1>4, <2>2, <2>6
  <2>8. ~(cli'.outcome = "running" /\ "deploy" \in cli'.left)
    BY <1>1, <1>2, <1>3 DEF Clis
  <2> QED
    BY <2>3, <2>4, <2>7, <2>8 DEF PipelineInv
<1> QED
  BY <1>0, <1>5, <1>6, <1>7

LEMMA WizEnds == WizInv /\ PipelineEnds => WizInv'
<1> SUFFICES ASSUME WizInv, PipelineEnds
             PROVE  WizInv'
  OBVIOUS
<1> USE SetupWizardAssumption DEF WizInv, buttons, products, history
<1>0. TablesOK'
  BY Zenon DEF TablesOK, PipelineEnds
<1>1. /\ cli.outcome = "running" /\ cli.left = {} /\ UNCHANGED <<gui, products>>
      /\ cli' = [cli EXCEPT !.outcome = "ok"]
  BY DEF PipelineEnds
<1>2. WizDataOK'
  <2>1. cli' \in Clis
    BY <1>1 DEF WizDataOK, Clis
  <2> QED
    BY <1>1, <2>1 DEF WizDataOK, gui
<1>3. cli'.outcome = "ok" /\ cli'.left = {} /\ cli'.asked = cli.asked /\ cli'.built = cli.built
  BY <1>1 DEF WizDataOK, Clis
<1>4. PagesInv'
  BY <1>1, <1>3, PhaseLeavesPages
<1>5. PipelineInv'
  BY <1>1, <1>3 DEF PipelineInv, Behind
<1> QED
  BY <1>0, <1>2, <1>4, <1>5

\* The wizard as it opens, or the command line as it starts.
LEMMA WizInitInv == WizInit => WizInv
<1>0. 0 \in 0 .. MaxStepAttempts
  BY SetupWizardAssumption
<1> SUFFICES ASSUME WizInit
             PROVE  WizInv
  OBVIOUS
<1> USE SetupWizardAssumption DEF WizInit
<1>1. cli \in Clis /\ cli.outcome \in {"none", "running"} /\ cli.left = cli.asked /\ ~cli.built
  <2>1. CASE cli = NoCli
    BY <2>1 DEF NoCli, Clis, Targets
  <2>2. ASSUME NEW asked \in SUBSET Phases, NEW auth \in BOOLEAN, NEW goal \in Targets,
               cli = [NoCli EXCEPT !.asked = asked, !.left = asked, !.authorized = auth,
                                   !.target = goal, !.outcome = "running"]
        PROVE  /\ cli \in Clis /\ cli.outcome = "running"
               /\ cli.left = cli.asked /\ ~cli.built
    BY <2>2 DEF NoCli, Clis, Targets
  <2> QED
    BY <2>1, <2>2
<1>3. WizFlagsOK
  BY DEF WizFlagsOK, WorkPages
<1>4. WizWorkersOK
  <2>1. Idle \in [page : WorkPages \cup {"none"}, step : Steps]
    BY DEF Idle, Steps
  <2> QED
    BY <1>0, <2>1 DEF WizWorkersOK, Pages
<1>9. TablesOK
  BY Zenon DEF TablesOK
<1>5. WizDataOK
  <2>1. NoMod \in Mods /\ [by |-> "earlier", whole |-> TRUE] \in Mods
    BY DEF NoMod, Mods
  <2> QED
    BY <1>1, <2>1 DEF WizDataOK
<1>6. WorkerInv /\ WayOnInv
  BY DEF WorkerInv, WayOnInv, Idle, WorkPages
<1>7. ButtonInv
  BY DEF ButtonInv, Running, Idle, WorkPages
<1>8. PipelineInv
  BY <1>1 DEF PipelineInv, Behind
<1> QED
  BY <1>3, <1>4, <1>5, <1>6, <1>7, <1>8, <1>9 DEF WizInv, PagesInv

\* The parts are inductive together.
LEMMA WizNextInv == WizInv /\ [WizNext]_wizVars => WizInv'
<1>1. ASSUME WizInv, WizNext
      PROVE  WizInv'
  BY <1>1, WizBrowse, WizLose, WizToExtract, WizNextButton, WizBack, WizRetry, WizDeploy,
     WizExtractStarts, WizExtractEnds, WizBuildStarts, WizBuildEnds, WizDies, WizFinish, WizProbe,
     WizInstall, WizExtract, WizBuild, WizDeployPhase, WizEnds DEF WizNext
<1>2. ASSUME WizInv, UNCHANGED wizVars
      PROVE  WizInv'
  <2>1. UNCHANGED <<at, nextOn, retryOn, attempts, worker, dumpThere, tables, mod, installed, cli,
                    overlapped, died>>
    BY <1>2 DEF wizVars
  <2>2. PagesInv'
    BY <1>2, <2>1 DEF WizInv, PagesInv, WizFlagsOK, WizWorkersOK, WorkerInv, ButtonInv, WayOnInv,
                      Gui, Running
  <2>3. WizDataOK' /\ PipelineInv'
    BY <1>2, <2>1 DEF WizInv, WizDataOK, PipelineInv, Behind
  <2>4. TablesOK'
    BY <1>2, <2>1 DEF WizInv, TablesOK
  <2> QED
    BY <2>2, <2>3, <2>4 DEF WizInv
<1> QED
  BY <1>1, <1>2

\* Whatever is pressed, and whenever the event of a worker comes.
THEOREM WizInvariance == WizSpec => []WizInv
BY WizInitInv, WizNextInv, PTL DEF WizSpec

\* Every variable of the wizard keeps its type: no page ever counts more than
\* MAX_STEP_ATTEMPTS attempts (start_worker).
THEOREM WizTypeCorrect == WizSpec => []WizTypeOK
<1>1. WizInv => WizTypeOK
  BY DEF WizInv, PagesInv, WizFlagsOK, WizWorkersOK, TablesOK, WizDataOK, Mods,
         Clis, WizTypeOK, Steps
<1> QED
  BY <1>1, WizInvariance, PTL

\* For any number of workers and visits: an enabled Next means the product is there,
\* and a page whose work has ended offers a way on (finish, start_worker).
THEOREM PagesAreHonest == WizSpec => []PagesHonest
<1>1. WizInv => PagesHonest
  BY DEF WizInv, PagesInv, ButtonInv, WayOnInv, PagesHonest
<1> QED
  BY <1>1, WizInvariance, PTL

\* A pipeline that reports success did every phase it was asked for, whichever those
\* were and whatever was there before (run_pipeline).
THEOREM PipelineIsHonest == WizSpec => []PipelineHonest
<1>1. WizInv => PipelineHonest
  BY DEF WizInv, PipelineInv, Behind, PipelineHonest
<1> QED
  BY <1>1, WizInvariance, PTL

(***************************************************************************)
(* BridgeDiscovery: whatever is lost, late, started, stopped or moved.     *)
(***************************************************************************)

DiscFlagsOK ==
  /\ responder \in BOOLEAN /\ suppressed \in BOOLEAN /\ deaf \in BOOLEAN
  /\ sameHost \in BOOLEAN /\ calm \in BOOLEAN

\* A datagram under way is of a socket that was opened: a new one has none.
DiscDataOK ==
  /\ lan \in Addrs \cup {Loop} /\ advertised \in Addrs \cup {Loop} /\ target \in Addrs \cup {Loop}
  /\ phase \in {"down", "serving", "up", "closing"}
  /\ attempt \in {"idle", "loopback", "sweep", "resolved", "connected"}
  /\ socket \in 0..MaxSockets /\ moves \in 0..MaxMoves
  /\ probes \subseteq (1..socket) \X {"loopback", "sweep"}
  /\ answers \subseteq (1..socket) \X (Addrs \cup {Loop})

\* The responder starts after the server and ends after it; while nothing has stopped or
\* moved, the server is there with it, at the address it advertises.
ResponderInv ==
  /\ responder => phase \in {"up", "closing"}
  /\ calm => phase # "closing"
  /\ calm /\ responder => advertised = lan

\* An answer the Switch would take has the address at which the server listens now.
AnswersInv ==
  calm /\ attempt \in {"loopback", "sweep"} =>
    \A a \in Addrs \cup {Loop} : <<socket, a>> \in answers => Listening /\ a = lan

DiscInv == DiscFlagsOK /\ DiscDataOK /\ ResponderInv /\ AnswersInv /\ AnswerMeansListening

LEMMA DiscInitInv == DiscInit => DiscInv
<1> SUFFICES ASSUME DiscInit
             PROVE  DiscInv
  OBVIOUS
<1> USE BridgeDiscoveryAssumption DEF DiscInit
<1>1. DiscFlagsOK
  BY DEF DiscFlagsOK
<1>2. DiscDataOK
  BY DEF DiscDataOK
<1>3. ResponderInv /\ AnswersInv /\ AnswerMeansListening
  BY DEF ResponderInv, AnswersInv, AnswerMeansListening
<1> QED
  BY <1>1, <1>2, <1>3 DEF DiscInv

\* The server listens: no answer was there to take.
LEMMA DiscStartServer == DiscInv /\ StartServer => DiscInv'
<1> SUFFICES ASSUME DiscInv, StartServer
             PROVE  DiscInv'
  OBVIOUS
<1> USE BridgeDiscoveryAssumption DEF DiscInv, StartServer, bridgeVars, attemptVars
<1>1. DiscFlagsOK'
  BY DEF DiscFlagsOK
<1>2. DiscDataOK'
  BY DEF DiscFlagsOK, DiscDataOK, Move
<1>3. ResponderInv' /\ AnswersInv' /\ AnswerMeansListening'
  BY DEF DiscFlagsOK, DiscDataOK, ResponderInv, AnswersInv, AnswerMeansListening, Accepts, Listening
<1> QED
  BY <1>1, <1>2, <1>3

\* The attempt under way is not calm any more.
LEMMA DiscStopServer == DiscInv /\ StopServer => DiscInv'
<1> SUFFICES ASSUME DiscInv, StopServer
             PROVE  DiscInv'
  OBVIOUS
<1> USE BridgeDiscoveryAssumption DEF DiscInv, StopServer, bridgeVars, attemptVars
<1>1. DiscFlagsOK'
  BY DEF DiscFlagsOK
<1>2. DiscDataOK'
  BY DEF DiscFlagsOK, DiscDataOK, Move
<1>3. ResponderInv' /\ AnswersInv' /\ AnswerMeansListening'
  BY DEF DiscFlagsOK, DiscDataOK, ResponderInv, AnswersInv, AnswerMeansListening, Accepts, Listening
<1> QED
  BY <1>1, <1>2, <1>3

\* The responder outlives the server by this step.
LEMMA DiscStopResponder == DiscInv /\ StopResponder => DiscInv'
<1> SUFFICES ASSUME DiscInv, StopResponder
             PROVE  DiscInv'
  OBVIOUS
<1> USE BridgeDiscoveryAssumption DEF DiscInv, StopResponder, bridgeVars, attemptVars
<1>1. DiscFlagsOK'
  BY DEF DiscFlagsOK
<1>2. DiscDataOK'
  BY DEF DiscFlagsOK, DiscDataOK, Move
<1>3. ResponderInv' /\ AnswersInv' /\ AnswerMeansListening'
  BY DEF DiscFlagsOK, DiscDataOK, ResponderInv, AnswersInv, AnswerMeansListening, Accepts, Listening
<1> QED
  BY <1>1, <1>2, <1>3

\* Both end at once.
LEMMA DiscCrash == DiscInv /\ Crash => DiscInv'
<1> SUFFICES ASSUME DiscInv, Crash
             PROVE  DiscInv'
  OBVIOUS
<1> USE BridgeDiscoveryAssumption DEF DiscInv, Crash, bridgeVars, attemptVars
<1>1. DiscFlagsOK'
  BY DEF DiscFlagsOK
<1>2. DiscDataOK'
  BY DEF DiscFlagsOK, DiscDataOK, Move
<1>3. ResponderInv' /\ AnswersInv' /\ AnswerMeansListening'
  BY DEF DiscFlagsOK, DiscDataOK, ResponderInv, AnswersInv, AnswerMeansListening, Accepts, Listening
<1> QED
  BY <1>1, <1>2, <1>3

\* The address is read now; the server listens already.
LEMMA DiscStartResponder == DiscInv /\ (\E bound, quiet \in BOOLEAN : StartResponder(bound, quiet)) => DiscInv'
<1> SUFFICES ASSUME DiscInv, \E bound, quiet \in BOOLEAN : StartResponder(bound, quiet)
             PROVE  DiscInv'
  OBVIOUS
<1> USE BridgeDiscoveryAssumption DEF DiscInv, StartResponder, DetectLanIp, bridgeVars, attemptVars
<1>1. DiscFlagsOK'
  BY DEF DiscFlagsOK
<1>2. DiscDataOK'
  BY DEF DiscFlagsOK, DiscDataOK, Move
<1>3. ResponderInv' /\ AnswersInv' /\ AnswerMeansListening'
  BY DEF DiscFlagsOK, DiscDataOK, ResponderInv, AnswersInv, AnswerMeansListening, Accepts, Listening
<1> QED
  BY <1>1, <1>2, <1>3

\* A calm attempt does not see the address change.
LEMMA DiscReaddress == DiscInv /\ (\E a \in Addrs \cup {Loop} : Readdress(a)) => DiscInv'
<1> SUFFICES ASSUME DiscInv, \E a \in Addrs \cup {Loop} : Readdress(a)
             PROVE  DiscInv'
  OBVIOUS
<1> USE BridgeDiscoveryAssumption DEF DiscInv, Readdress, bridgeVars, attemptVars
<1>1. DiscFlagsOK'
  BY DEF DiscFlagsOK
<1>2. DiscDataOK'
  BY DEF DiscFlagsOK, DiscDataOK, Move
<1>3. ResponderInv' /\ AnswersInv' /\ AnswerMeansListening'
  BY DEF DiscFlagsOK, DiscDataOK, ResponderInv, AnswersInv, AnswerMeansListening, Accepts, Listening
<1> QED
  BY <1>1, <1>2, <1>3

\* An answer is made where the responder is, and so the server.
LEMMA DiscDatagram == DiscInv /\ (\E p \in probes : DatagramReceived(p)) => DiscInv'
<1> SUFFICES ASSUME DiscInv, \E p \in probes : DatagramReceived(p)
             PROVE  DiscInv'
  OBVIOUS
<1> USE BridgeDiscoveryAssumption DEF DiscInv, DatagramReceived, bridgeVars, attemptVars
<1>1. DiscFlagsOK'
  BY DEF DiscFlagsOK
<1>2. DiscDataOK'
  BY DEF DiscFlagsOK, DiscDataOK, Move
<1>3. ResponderInv' /\ AnswersInv' /\ AnswerMeansListening'
  BY DEF DiscFlagsOK, DiscDataOK, ResponderInv, AnswersInv, AnswerMeansListening, Accepts, Listening
<1> QED
  BY <1>1, <1>2, <1>3

\* A probe that is lost.
LEMMA DiscLoss == DiscInv /\ (\E p \in probes : LoseProbe(p)) => DiscInv'
<1> SUFFICES ASSUME DiscInv, \E p \in probes : LoseProbe(p)
             PROVE  DiscInv'
  OBVIOUS
<1> USE BridgeDiscoveryAssumption DEF DiscInv, LoseProbe, bridgeVars, attemptVars
<1>1. DiscFlagsOK'
  BY DEF DiscFlagsOK
<1>2. DiscDataOK'
  BY DEF DiscFlagsOK, DiscDataOK, Move
<1>3. ResponderInv' /\ AnswersInv' /\ AnswerMeansListening'
  BY DEF DiscFlagsOK, DiscDataOK, ResponderInv, AnswersInv, AnswerMeansListening, Accepts, Listening
<1> QED
  BY <1>1, <1>2, <1>3

\* An answer that is lost, or comes too late.
LEMMA DiscAnswerLoss == DiscInv /\ (\E r \in answers : LoseAnswer(r) \/ Bounce(r)) => DiscInv'
<1> SUFFICES ASSUME DiscInv, \E r \in answers : LoseAnswer(r) \/ Bounce(r)
             PROVE  DiscInv'
  OBVIOUS
<1> USE BridgeDiscoveryAssumption DEF DiscInv, LoseAnswer, Bounce, bridgeVars, attemptVars
<1>1. DiscFlagsOK'
  BY DEF DiscFlagsOK
<1>2. DiscDataOK'
  BY DEF DiscFlagsOK, DiscDataOK, Move
<1>3. ResponderInv' /\ AnswersInv' /\ AnswerMeansListening'
  BY DEF DiscFlagsOK, DiscDataOK, ResponderInv, AnswersInv, AnswerMeansListening, Accepts, Listening
<1> QED
  BY <1>1, <1>2, <1>3

\* Only an answer to the socket of this step is taken.
LEMMA DiscResolve == DiscInv /\ (\E r \in answers : Resolve(r)) => DiscInv'
<1> SUFFICES ASSUME DiscInv, \E r \in answers : Resolve(r)
             PROVE  DiscInv'
  OBVIOUS
<1> USE BridgeDiscoveryAssumption DEF DiscInv, Resolve, Expects, bridgeVars, attemptVars
<1>1. DiscFlagsOK'
  BY DEF DiscFlagsOK
<1>2. DiscDataOK'
  BY DEF DiscFlagsOK, DiscDataOK, Move
<1>3. ResponderInv' /\ AnswersInv' /\ AnswerMeansListening'
  BY DEF DiscFlagsOK, DiscDataOK, ResponderInv, AnswersInv, AnswerMeansListening, Accepts, Listening
<1> QED
  BY <1>1, <1>2, <1>3

\* A new attempt, with a socket no answer is for.
LEMMA DiscProbeLoopback == DiscInv /\ ProbeLoopback => DiscInv'
<1> SUFFICES ASSUME DiscInv, ProbeLoopback
             PROVE  DiscInv'
  OBVIOUS
<1> USE BridgeDiscoveryAssumption DEF DiscInv, ProbeLoopback, SendProbe, bridgeVars, attemptVars
<1>1. DiscFlagsOK'
  BY DEF DiscFlagsOK
<1>2. DiscDataOK'
  BY DEF DiscFlagsOK, DiscDataOK, Move
<1>3. ResponderInv' /\ AnswersInv' /\ AnswerMeansListening'
  BY DEF DiscFlagsOK, DiscDataOK, ResponderInv, AnswersInv, AnswerMeansListening, Accepts, Listening
<1> QED
  BY <1>1, <1>2, <1>3

\* The next step has another socket.
LEMMA DiscProbeSubnet == DiscInv /\ ProbeSubnet => DiscInv'
<1> SUFFICES ASSUME DiscInv, ProbeSubnet
             PROVE  DiscInv'
  OBVIOUS
<1> USE BridgeDiscoveryAssumption DEF DiscInv, ProbeSubnet, SendProbe, bridgeVars, attemptVars
<1>1. DiscFlagsOK'
  BY DEF DiscFlagsOK
<1>2. DiscDataOK'
  BY DEF DiscFlagsOK, DiscDataOK, Move
<1>3. ResponderInv' /\ AnswersInv' /\ AnswerMeansListening'
  BY DEF DiscFlagsOK, DiscDataOK, ResponderInv, AnswersInv, AnswerMeansListening, Accepts, Listening
<1> QED
  BY <1>1, <1>2, <1>3

\* The attempt ends.
LEMMA DiscFindNone == DiscInv /\ FindNone => DiscInv'
<1> SUFFICES ASSUME DiscInv, FindNone
             PROVE  DiscInv'
  OBVIOUS
<1> USE BridgeDiscoveryAssumption DEF DiscInv, FindNone, bridgeVars, attemptVars
<1>1. DiscFlagsOK'
  BY DEF DiscFlagsOK
<1>2. DiscDataOK'
  BY DEF DiscFlagsOK, DiscDataOK, Move
<1>3. ResponderInv' /\ AnswersInv' /\ AnswerMeansListening'
  BY DEF DiscFlagsOK, DiscDataOK, ResponderInv, AnswersInv, AnswerMeansListening, Accepts, Listening
<1> QED
  BY <1>1, <1>2, <1>3

\* A connection begins, or not, and ends.
LEMMA DiscConnect == DiscInv /\ (ConnectFound \/ Hangup) => DiscInv'
<1> SUFFICES ASSUME DiscInv, ConnectFound \/ Hangup
             PROVE  DiscInv'
  OBVIOUS
<1> USE BridgeDiscoveryAssumption DEF DiscInv, ConnectFound, Hangup, bridgeVars, attemptVars
<1>1. DiscFlagsOK'
  BY DEF DiscFlagsOK
<1>2. DiscDataOK'
  BY DEF DiscFlagsOK, DiscDataOK, Move
<1>3. ResponderInv' /\ AnswersInv' /\ AnswerMeansListening'
  BY DEF DiscFlagsOK, DiscDataOK, ResponderInv, AnswersInv, AnswerMeansListening, Accepts, Listening
<1> QED
  BY <1>1, <1>2, <1>3

LEMMA DiscNextInv == DiscInv /\ [DiscNext]_discVars => DiscInv'
<1>1. ASSUME DiscInv, DiscNext
      PROVE  DiscInv'
  BY <1>1, DiscStartServer, DiscStopServer, DiscStopResponder, DiscCrash, DiscStartResponder, DiscReaddress, DiscDatagram,
     DiscLoss, DiscAnswerLoss, DiscResolve, DiscProbeLoopback, DiscProbeSubnet, DiscFindNone, DiscConnect
  DEF DiscNext
<1>2. ASSUME DiscInv, UNCHANGED discVars
      PROVE  DiscInv'
  BY <1>2 DEF discVars, DiscInv, DiscFlagsOK, DiscDataOK, ResponderInv, AnswersInv,
              AnswerMeansListening, Accepts, Listening
<1> QED
  BY <1>1, <1>2

\* For any addresses, any number of sockets, starts, stops and moves.
THEOREM DiscInvariance == DiscSpec => []DiscInv
BY DiscInitInv, DiscNextInv, PTL DEF DiscSpec

\* Every variable of the discovery keeps its type; no datagram is of a socket to come.
THEOREM DiscTypeCorrect == DiscSpec => []DiscTypeOK
<1>1. DiscInv => DiscTypeOK
  <2> SUFFICES ASSUME DiscInv
               PROVE  DiscTypeOK
    OBVIOUS
  <2>1. {responder, suppressed, deaf, sameHost, calm} \subseteq BOOLEAN
    BY DEF DiscInv, DiscFlagsOK
  <2> QED
    BY <2>1 DEF DiscInv, DiscDataOK, DiscTypeOK
<1> QED
  BY <1>1, DiscInvariance, PTL

\* Whatever datagrams are lost or late, and however often the bridge was started: while
\* it keeps running at its address, what was discovered can be connected to
\* (resolveBridge, DiscoveryResponder.start).
THEOREM AnswersAreOfAServer == DiscSpec => []AnswerMeansListening
<1>1. DiscInv => AnswerMeansListening
  BY DEF DiscInv
<1> QED
  BY <1>1, DiscInvariance, PTL

(***************************************************************************)
(* AccessLogic: what the joins of requirements mean.                       *)
(***************************************************************************)

LEMMA FreeIsMet == Met(Free)
BY DEF Met, Free

\* and_join asks for every part.
LEMMA AndMeansAll ==
  ASSUME NEW parts
  PROVE  Met(AndJoin(parts)) <=> \A p \in parts : Met(p)
<1>1. ASSUME Met(AndJoin(parts)), NEW p \in parts
      PROVE  Met(p)
  <2>1. PICK choice \in [parts -> UNION parts] :
          /\ \A q \in parts : choice[q] \in q
          /\ \A t \in UNION {choice[q] : q \in parts} : Has(t)
    BY <1>1 DEF Met, AndJoin
  <2>2. choice[p] \in p /\ \A t \in choice[p] : Has(t)
    BY <2>1
  <2> QED
    BY <2>2 DEF Met
<1>2. ASSUME \A p \in parts : Met(p)
      PROVE  Met(AndJoin(parts))
  <2> DEFINE choice == [p \in parts |-> CHOOSE alt \in p : \A t \in alt : Has(t)]
             all    == UNION {choice[p] : p \in parts}
  <2>1. \A p \in parts : choice[p] \in p /\ \A t \in choice[p] : Has(t)
    BY <1>2 DEF Met
  <2>2. choice \in [parts -> UNION parts]
    BY <2>1
  <2> HIDE DEF choice
  <2>3. all \in AndJoin(parts)
    BY <2>1, <2>2 DEF AndJoin
  <2>4. \A t \in all : Has(t)
    BY <2>1
  <2> QED
    BY <2>3, <2>4 DEF Met
<1> QED
  BY <1>1, <1>2

\* or_join asks for one of the parts, as long as none of them is free.
LEMMA OrMeansAny ==
  ASSUME NEW parts, Free \notin parts
  PROVE  Met(OrJoin(parts)) <=> parts = {} \/ \E p \in parts : Met(p)
<1>1. CASE parts = {}
  BY <1>1, FreeIsMet DEF OrJoin
<1>2. CASE parts # {}
  <2>1. OrJoin(parts) = UNION parts
    BY <1>2 DEF OrJoin
  <2> QED
    BY <1>2, <2>1 DEF Met
<1> QED
  BY <1>1, <1>2

\* compile_moon asks for one of the methods.
LEMMA MoonMeansAMethod ==
  ASSUME NEW rec, NEW lists
  PROVE  Met(CompileMoon(rec, lists)) <=>
           rec.methods = {} \/ \E m \in rec.methods : Met(CompileMethod(m, rec.groups, lists))
<1> DEFINE exprs == {CompileMethod(m, rec.groups, lists) : m \in rec.methods}
<1>1. CASE Free \in exprs
  <2>1. \E m \in rec.methods : Met(CompileMethod(m, rec.groups, lists))
    BY <1>1, FreeIsMet
  <2> QED
    BY <1>1, <2>1, FreeIsMet DEF CompileMoon
<1>2. CASE Free \notin exprs
  <2>1. Met(OrJoin(exprs)) <=> exprs = {} \/ \E p \in exprs : Met(p)
    BY <1>2, OrMeansAny
  <2> QED
    BY <1>2, <2>1 DEF CompileMoon
<1> QED
  BY <1>1, <1>2

(***************************************************************************)
(* The tables of entrance_logic.py never ask for less than the script's.   *)
(***************************************************************************)

LEMMA FewerJumps ==
  ASSUME NEW m, Met(JumpTerm(m, Client.jumps))
  PROVE  Met(JumpTerm(m, Script.jumps))
<1>1. /\ Script.jumps = HeightSatisfiers /\ DOMAIN Client.jumps = DOMAIN HeightSatisfiers
      /\ \A h \in DOMAIN HeightSatisfiers : Client.jumps[h] \subseteq HeightSatisfiers[h]
  BY DEF Script, Client
<1>2. CASE m.jump \in DOMAIN HeightSatisfiers
  <2>1. JumpTerm(m, Client.jumps) \subseteq JumpTerm(m, Script.jumps)
    BY <1>1, <1>2 DEF JumpTerm
  <2> QED
    BY <2>1 DEF Met
<1>3. CASE m.jump \notin DOMAIN HeightSatisfiers
  BY <1>1, <1>3, FreeIsMet DEF JumpTerm
<1> QED
  BY <1>2, <1>3

LEMMA FewerFree ==
  ASSUME NEW o, NEW groups, Met(OtherTerm(o, groups, Client.free))
  PROVE  Met(OtherTerm(o, groups, Script.free))
<1>1. Client.free \subseteq Script.free
  BY DEF Script, Client
<1> DEFINE some == {} # groups /\ \A g \in groups : ~ (g \subseteq Script.free)
<1>2. CASE o = "capture" /\ some
  <2>1. \A g \in groups : ~ (g \subseteq Client.free)
    BY <1>1, <1>2
  <2>2. PICK g \in groups : \A t \in UNION {One(c) : c \in g \ Client.free} : Has(t)
    BY <1>2, <2>1 DEF OtherTerm, CaptureTerm, Met
  <2>3. \A t \in UNION {One(c) : c \in g \ Script.free} : Has(t)
    BY <1>1, <2>2
  <2> QED
    BY <1>2, <2>3 DEF OtherTerm, CaptureTerm, Met
<1>3. CASE o = "capture" /\ ~some
  BY <1>3, FreeIsMet DEF OtherTerm, CaptureTerm
<1>4. CASE o # "capture"
  BY <1>4 DEF OtherTerm
<1> QED
  BY <1>2, <1>3, <1>4

LEMMA MethodNotLooser ==
  ASSUME NEW m, NEW groups, Met(CompileMethod(m, groups, Client))
  PROVE  Met(CompileMethod(m, groups, Script))
<1>1. /\ Met(JumpTerm(m, Client.jumps)) /\ Met(ThrowTerm(m))
      /\ \A o \in m.other : Met(OtherTerm(o, groups, Client.free))
  BY AndMeansAll DEF CompileMethod
<1>2. /\ Met(JumpTerm(m, Script.jumps)) /\ Met(ThrowTerm(m))
      /\ \A o \in m.other : Met(OtherTerm(o, groups, Script.free))
  BY <1>1, FewerJumps, FewerFree
<1>3. \A p \in {JumpTerm(m, Script.jumps), ThrowTerm(m)} \cup {OtherTerm(o, groups, Script.free) : o \in m.other} :
        Met(p)
  BY <1>2
<1> QED
  BY <1>3, AndMeansAll DEF CompileMethod

\* Whoever can do what a shuffled interior asks for can do what the script asks for.
THEOREM InteriorNotLooser ==
  ASSUME NEW rec, Met(CompileMoon(rec, Client))
  PROVE  Met(CompileMoon(rec, Script))
BY MoonMeansAMethod, MethodNotLooser

LEMMA LakeNotLooser ==
  ASSUME Met(LakeGate(Client))
  PROVE  Met(LakeGate(Script))
<1> DEFINE zipper == {One("Zipper")}
           rest   == {{One("Cap Bounce")}, {{Item("Progressive Ground Pound", 2)}, One("Wall Slide")}}
           high(lists) == {JumpFrag[j] : j \in lists.high}
           climb(lists) == AndJoin({high(lists)} \cup rest)
<1>0. \A lists : LakeGate(lists) = OrJoin({zipper, climb(lists)})
  <2>1. \A lists : {high(lists)} \cup rest =
          {high(lists), {One("Cap Bounce")}, {{Item("Progressive Ground Pound", 2)}, One("Wall Slide")}}
    OBVIOUS
  <2> QED
    BY <2>1 DEF LakeGate
<1>1. zipper # Free
  BY DEF One, Free
<1>2. ASSUME NEW lists
      PROVE  climb(lists) # Free
  <2> SUFFICES ASSUME {} \in climb(lists)
               PROVE  FALSE
    BY DEF Free
  <2> DEFINE parts == {high(lists)} \cup rest
  <2>1. PICK choice \in [parts -> UNION parts] :
          (\A p \in parts : choice[p] \in p) /\ UNION {choice[p] : p \in parts} = {}
    BY DEF AndJoin
  <2>2. {One("Cap Bounce")} \in parts
    OBVIOUS
  <2>3. choice[{One("Cap Bounce")}] = One("Cap Bounce")
    BY <2>1, <2>2
  <2>4. choice[{One("Cap Bounce")}] \subseteq UNION {choice[p] : p \in parts}
    BY <2>2
  <2>5. Item("Cap Bounce", 1) \in {}
    BY <2>1, <2>3, <2>4 DEF One
  <2> QED
    BY <2>5
<1>3. \A lists : Free \notin {zipper, climb(lists)}
  BY <1>1, <1>2
<1> HIDE DEF zipper, climb, rest
<1>4. \A lists : Met(LakeGate(lists)) <=> Met(zipper) \/ Met(climb(lists))
  <2> TAKE lists
  <2>1. Met(OrJoin({zipper, climb(lists)})) <=>
          {zipper, climb(lists)} = {} \/ \E p \in {zipper, climb(lists)} : Met(p)
    BY <1>3, OrMeansAny
  <2> QED
    BY <1>0, <2>1
<1>5. ASSUME Met(climb(Client))
      PROVE  Met(climb(Script))
  <2>1. \A p \in {high(Client)} \cup rest : Met(p)
    BY <1>5, AndMeansAll DEF climb
  <2>2. high(Client) \subseteq high(Script)
    BY DEF Client, Script
  <2>3. Met(high(Script))
    BY <2>1, <2>2 DEF Met
  <2>4. \A p \in {high(Script)} \cup rest : Met(p)
    BY <2>1, <2>3
  <2> QED
    BY <2>4, AndMeansAll DEF climb
<1> QED
  BY <1>4, <1>5

\* The doors of Lake ask for more than its locations.json, all others for the same.
LEMMA KingdomNotLooser ==
  ASSUME NEW k, Met(KingdomGate(k, Client))
  PROVE  Met(KingdomGate(k, Script))
BY LakeNotLooser DEF KingdomGate

(***************************************************************************)
(* The moons to leave a kingdom with.                                      *)
(***************************************************************************)

\* The combinations of KingdomMoons are met by exactly those who have the moons, with a
\* Multi-Moon worth three.
THEOREM LeaveByCount ==
  ASSUME AccessTypes, NEW k \in Kingdoms, Needs[k] \in Nat
  PROVE  MayLeave(k) <=> Needs[k] <= Count(PowerMoon[k]) + 3 * Count(MultiMoon[k])
<1> DEFINE n  == Needs[k]
           p  == Count(PowerMoon[k])
           m  == Count(MultiMoon[k])
           rest(mm) == IF 3 * mm < n THEN n - 3 * mm ELSE 0
           mix(mm) == (IF mm > 0 THEN {Item(MultiMoon[k], mm)} ELSE {})
                      \cup (IF rest(mm) > 0 THEN {Item(PowerMoon[k], rest(mm))} ELSE {})
<1>1. /\ p \in Nat /\ m \in Nat /\ n \in Nat
      /\ InPool(PowerMoon[k]) \in Nat /\ p <= InPool(PowerMoon[k])
      /\ InPool(MultiMoon[k]) \in Nat /\ m <= InPool(MultiMoon[k])
  BY AccessAssumption DEF AccessTypes, Count, InPool
<1>2. MayLeave(k) <=> \E mm \in {j \in 0 .. InPool(MultiMoon[k]) : rest(j) <= InPool(PowerMoon[k])} :
                        \A t \in mix(mm) : InHand(t)
  BY DEF MayLeave, LeaveRequires, KingdomMoons
<1>3. ASSUME NEW mm \in Nat
      PROVE  (\A t \in mix(mm) : InHand(t)) <=> mm <= m /\ rest(mm) <= p
  <2>1. rest(mm) \in Nat
    BY <1>1
  <2>2. InHand(Item(MultiMoon[k], mm)) <=> mm <= m
    BY <1>1 DEF InHand, Item
  <2>3. InHand(Item(PowerMoon[k], rest(mm))) <=> rest(mm) <= p
    BY <1>1, <2>1 DEF InHand, Item
  <2> HIDE DEF rest, p, m
  <2>4. (\A t \in mix(mm) : InHand(t)) <=>
          /\ mm > 0 => InHand(Item(MultiMoon[k], mm))
          /\ rest(mm) > 0 => InHand(Item(PowerMoon[k], rest(mm)))
    OBVIOUS
  <2> QED
    BY <1>1, <2>1, <2>2, <2>3, <2>4
<1> HIDE DEF p, m, mix
<1>4. ASSUME MayLeave(k)
      PROVE  n <= p + 3 * m
  <2>1. PICK mm \in Nat : mm <= m /\ rest(mm) <= p
    BY <1>1, <1>2, <1>3, <1>4
  <2> QED
    BY <1>1, <2>1
<1>5. ASSUME n <= p + 3 * m
      PROVE  MayLeave(k)
  <2>1. rest(m) <= p
    BY <1>1, <1>5
  <2>2. m \in {j \in 0 .. InPool(MultiMoon[k]) : rest(j) <= InPool(PowerMoon[k])}
    BY <1>1, <2>1
  <2> QED
    BY <1>1, <1>2, <1>3, <2>1, <2>2
<1> QED
  BY <1>4, <1>5 DEF p, m

(***************************************************************************)
(* What is reached stays reached, and how.                                 *)
(***************************************************************************)

\* The rules are those of the passes, from the sweep on; before it nothing is reached.
RulesMade ==
  IF genStage = "sweep"
  THEN ~playerOptions.noLogic =>
         /\ exitRule = IF playerOptions.capPeace THEN FreeCap(CoreExits) ELSE CoreExits
         /\ doorRule = AddDoorRules(leads, CoreDoors(leads))
         /\ locationRule = ShuffledLocations(leads)
  ELSE reached = {Start} /\ entered = {} /\ open = {} /\ (genStage = "create" => leads = NoDoors)

\* The regions were reached one after the other,
OnFoot ==
  ~playerOptions.noLogic =>
    \A r \in reached : \A k \in Toll(r) \ {r} : Met(RegionRequires[k])

\* the interiors through a door that let the player in,
ByDoor ==
  \A s \in entered :
    \E d \in DOMAIN leads : leads[d] = s /\ Home[d] \in reached /\ Allowed(doorRule[d])

\* and the locations by their rule.
ByRule == \A l \in open : ParentReached(l) /\ Allowed(locationRule[l])

AccessInv == AccessTypes /\ RulesMade /\ OnFoot /\ ByDoor /\ ByRule

\* What a step of the sweep does: nothing is lost.
Grows ==
  /\ playerOptions' = playerOptions /\ leads' = leads
  /\ reached \subseteq reached' /\ entered \subseteq entered' /\ open \subseteq open'
  /\ \A x \in Items : owned[x] <= owned'[x]

LEMMA MetStays ==
  ASSUME AccessTypes, AccessTypes', Grows
  PROVE  \A req : Met(req) => Met(req)'
<1>1. ASSUME NEW t, InHand(t)
      PROVE  InHand(t)'
  <2>1. Count(t[2]) \in Nat /\ Count(t[2])' \in Nat /\ Count(t[2]) <= Count(t[2])'
    BY DEF AccessTypes, Grows, Count
  <2>2. t[3] \in Nat /\ t[3] <= Count(t[2])
    BY <1>1, <2>1 DEF InHand
  <2>3. t[3] \in 0 .. Count(t[2])'
    BY <2>1, <2>2
  <2> QED
    BY <2>3 DEF InHand
<1>2. ASSUME NEW k, MayLeave(k)
      PROVE  MayLeave(k)'
  BY <1>1, <1>2 DEF MayLeave
<1>3. ASSUME NEW t, Has(t)
      PROVE  Has(t)'
  BY <1>1, <1>2, <1>3 DEF Has, Grows
<1> QED
  BY <1>3 DEF Met

\* A step of the sweep that leaves the rules alone keeps what was reached, and how.
LEMMA WaysStay ==
  ASSUME AccessTypes, AccessTypes', Grows, OnFoot, ByDoor, ByRule,
         UNCHANGED <<exitRule, doorRule, locationRule>>
  PROVE  /\ ~playerOptions'.noLogic => \A r \in reached : \A k \in Toll(r)' \ {r} : Met(RegionRequires[k])'
         /\ \A s \in entered :
              \E d \in DOMAIN leads' : leads'[d] = s /\ Home[d] \in reached' /\ Allowed(doorRule[d])'
         /\ \A l \in open : ParentReached(l)' /\ Allowed(locationRule[l])'
<1>1. \A req : Met(req) => Met(req)'
  BY MetStays
<1>2. ~playerOptions'.noLogic => \A r \in reached : \A k \in Toll(r)' \ {r} : Met(RegionRequires[k])'
  BY <1>1 DEF OnFoot, Toll, Grows
<1>3. \A s \in entered :
        \E d \in DOMAIN leads' : leads'[d] = s /\ Home[d] \in reached' /\ Allowed(doorRule[d])'
  <2> TAKE s \in entered
  <2>1. PICK d \in DOMAIN leads : leads[d] = s /\ Home[d] \in reached /\ Allowed(doorRule[d])
    BY DEF ByDoor
  <2>2. Allowed(doorRule[d])'
    BY <1>1, <2>1 DEF Allowed
  <2> QED
    BY <2>1, <2>2 DEF Grows
<1>4. ASSUME NEW l \in open
      PROVE  ParentReached(l)' /\ Allowed(locationRule[l])'
  <2>1. ParentReached(l) /\ Allowed(locationRule[l])
    BY DEF ByRule
  <2>2. ParentReached(l)'
    BY <2>1 DEF ParentReached, Grows, Moved
  <2>3. Allowed(locationRule[l])'
    BY <1>1, <2>1 DEF Allowed
  <2> QED
    BY <2>2, <2>3
<1> QED
  BY <1>2, <1>3, <1>4

LEMMA AccessTypesStart == AccessInit => AccessTypes
BY AccessAssumption, OptionsAssumption DEF AccessInit, AccessTypes

LEMMA AccessTypesStep ==
  ASSUME AccessTypes, [AccessNext]_accessVars
  PROVE  AccessTypes'
<1>1. CASE CreateRegions
  BY <1>1, AccessAssumption DEF CreateRegions, AccessTypes, Enabled
<1>2. CASE SetRules
  BY <1>2, AccessAssumption DEF SetRules, AccessTypes, Enabled
<1>3. CASE Look
  <2>1. /\ NewRegions \subseteq Regions /\ NewInteriors \subseteq Pool
        /\ NewLocations \subseteq Enabled
    BY DEF NewRegions, NewInteriors, NewLocations
  <2> QED
    BY <1>3, <2>1 DEF Look, AccessTypes, Enabled
<1>4. CASE Obtain
  <2>1. PICK x \in Items : owned[x] < Stock[x] /\ owned' = [owned EXCEPT ![x] = @ + 1]
    BY <1>4 DEF Obtain
  <2>0. owned[x] \in Nat /\ Stock[x] \in Nat
    BY AccessAssumption DEF AccessTypes
  <2>2. owned \in [Items -> Nat] /\ owned[x] + 1 \in Nat /\ owned[x] + 1 <= Stock[x]
    BY <2>0, <2>1 DEF AccessTypes
  <2>3. owned' \in [Items -> Nat]
    BY <2>1, <2>2
  <2>4. \A y \in Items : owned'[y] <= Stock[y]
    BY <2>1, <2>2 DEF AccessTypes
  <2> QED
    BY <1>4, <2>3, <2>4 DEF Obtain, AccessTypes, Enabled
<1>5. CASE UNCHANGED accessVars
  BY <1>5 DEF accessVars, AccessTypes, Enabled
<1> QED
  BY <1>1, <1>2, <1>3, <1>4, <1>5 DEF AccessNext

\* Nothing but the start is reached, and nothing is asked for on the way to it.
LEMMA NothingReached ==
  ASSUME reached = {Start}, entered = {}, open = {}
  PROVE  OnFoot /\ ByDoor /\ ByRule
<1>1. Toll(Start) \ {Start} = {}
  BY AccessAssumption DEF Toll
<1> QED
  BY <1>1 DEF OnFoot, ByDoor, ByRule

LEMMA AccessInvStart == AccessInit => AccessInv
<1> SUFFICES ASSUME AccessInit
             PROVE  AccessInv
  OBVIOUS
<1>1. RulesMade
  BY DEF AccessInit, RulesMade
<1> QED
  BY <1>1, AccessTypesStart, NothingReached DEF AccessInit, AccessInv

LEMMA MakingKeepsInv ==
  ASSUME AccessInv, CreateRegions \/ SetRules
  PROVE  AccessInv'
<1>1. reached = {Start} /\ entered = {} /\ open = {}
  BY DEF AccessInv, RulesMade, CreateRegions, SetRules
<1>2. reached' = {Start} /\ entered' = {} /\ open' = {}
  BY <1>1 DEF CreateRegions, SetRules
<1>3. (OnFoot /\ ByDoor /\ ByRule)'
  <2>1. ~playerOptions'.noLogic => \A r \in reached' : \A k \in Toll(r)' \ {r} : Met(RegionRequires[k])'
    <3>1. Toll(Start)' \ {Start} = {}
      BY AccessAssumption DEF Toll
    <3> QED
      BY <1>2, <3>1
  <2> QED
    BY <1>2, <2>1 DEF OnFoot, ByDoor, ByRule
<1>4. RulesMade'
  <2>1. CASE CreateRegions
    BY <1>2, <2>1 DEF RulesMade, CreateRegions
  <2>2. CASE SetRules
    BY <1>2, <2>2 DEF RulesMade, SetRules
  <2> QED
    BY <2>1, <2>2
<1>5. AccessTypes'
  BY AccessTypesStep DEF AccessInv, AccessNext
<1> QED
  BY <1>3, <1>4, <1>5 DEF AccessInv

\* A region a round of the sweep reaches was next to one reached before.
LEMMA NextRegion ==
  ASSUME AccessInv, genStage = "sweep", ~playerOptions.noLogic, NEW s \in NewRegions, NEW k \in Toll(s) \ {s}
  PROVE  Met(RegionRequires[k])
<1>1. PICK r \in reached : s \in ConnectsTo[r] /\ Allowed(exitRule[<<r, s>>])
  BY DEF NewRegions
<1>2. r \in Regions /\ s \in Regions /\ <<r, s>> \in Exits
  BY <1>1, AccessAssumption DEF AccessInv, AccessTypes, Exits
<1>3. ~ (playerOptions.capPeace /\ s = "Cap")
  BY DEF Toll
<1>4. exitRule[<<r, s>>] = {RegionRequires[r]}
  BY <1>2, <1>3 DEF AccessInv, RulesMade, FreeCap, CoreExits
<1>5. Met(RegionRequires[r])
  BY <1>1, <1>4 DEF Allowed
<1>6. Way[s] = Way[r] \cup {s} /\ r \in Way[r]
  BY <1>1, <1>2, AccessAssumption
<1>7. k \in Way[r]
  BY <1>3, <1>6 DEF Toll
<1>8. ~ (playerOptions.capPeace /\ r = "Cap")
  BY <1>2, <1>3, <1>6, AccessAssumption
<1>9. k \in Toll(r)
  BY <1>7, <1>8 DEF Toll
<1> QED
  BY <1>5, <1>9 DEF AccessInv, OnFoot

LEMMA LookKeepsInv ==
  ASSUME AccessInv, Look
  PROVE  AccessInv'
<1>1. AccessTypes /\ AccessTypes'
  BY AccessTypesStep DEF AccessInv, AccessNext
<1>2. Grows /\ UNCHANGED <<exitRule, doorRule, locationRule>>
  <2>1. \A x \in Items : owned[x] <= owned[x]
    BY <1>1 DEF AccessTypes
  <2> QED
    BY <2>1 DEF Look, Grows
<1>3. \A req : Met(req) => Met(req)'
  BY <1>1, <1>2, MetStays
<1>4. RulesMade'
  BY DEF AccessInv, RulesMade, Look
<1>5. /\ ~playerOptions'.noLogic => \A r \in reached : \A k \in Toll(r)' \ {r} : Met(RegionRequires[k])'
      /\ \A s \in entered :
           \E d \in DOMAIN leads' : leads'[d] = s /\ Home[d] \in reached' /\ Allowed(doorRule[d])'
      /\ \A l \in open : ParentReached(l)' /\ Allowed(locationRule[l])'
  BY <1>1, <1>2, WaysStay DEF AccessInv
<1>6. OnFoot'
  <2> SUFFICES ASSUME ~playerOptions'.noLogic, NEW r \in reached', NEW k \in Toll(r)' \ {r}
               PROVE  Met(RegionRequires[k])'
    BY DEF OnFoot
  <2>1. CASE r \in reached
    BY <1>5, <2>1
  <2>2. CASE r \in NewRegions
    <3>1. playerOptions' = playerOptions /\ genStage = "sweep" /\ k \in Toll(r) \ {r}
      BY DEF Look, Toll
    <3>2. Met(RegionRequires[k])
      BY <2>2, <3>1, NextRegion
    <3> QED
      BY <1>3, <3>2
  <2> QED
    BY <2>1, <2>2 DEF Look
<1>7. ByDoor'
  <2> SUFFICES ASSUME NEW s \in entered'
               PROVE  \E d \in DOMAIN leads' :
                        leads'[d] = s /\ Home[d] \in reached' /\ Allowed(doorRule[d])'
    BY DEF ByDoor
  <2>1. CASE s \in entered
    BY <1>2, <1>5, <2>1
  <2>2. CASE s \in NewInteriors
    <3>1. PICK d \in DOMAIN leads : leads[d] = s /\ Home[d] \in reached /\ Allowed(doorRule[d])
      BY <2>2 DEF NewInteriors
    <3>2. Allowed(doorRule[d])'
      BY <1>2, <1>3, <3>1 DEF Allowed
    <3> QED
      BY <1>2, <3>1, <3>2 DEF Grows
  <2> QED
    BY <2>1, <2>2 DEF Look
<1>8. ByRule'
  <2> SUFFICES ASSUME NEW l \in open'
               PROVE  ParentReached(l)' /\ Allowed(locationRule[l])'
    BY DEF ByRule
  <2>1. CASE l \in open
    BY <1>2, <1>5, <2>1
  <2>2. CASE l \in NewLocations
    <3>1. ParentReached(l) /\ Allowed(locationRule[l])
      BY <2>2 DEF NewLocations
    <3>2. ParentReached(l)'
      BY <1>2, <3>1 DEF ParentReached, Grows, Moved
    <3>3. Allowed(locationRule[l])'
      BY <1>2, <1>3, <3>1 DEF Allowed
    <3> QED
      BY <3>2, <3>3
  <2> QED
    BY <2>1, <2>2 DEF Look
<1> QED
  BY <1>1, <1>4, <1>6, <1>7, <1>8 DEF AccessInv

LEMMA ObtainKeepsInv ==
  ASSUME AccessInv, Obtain
  PROVE  AccessInv'
<1>1. AccessTypes /\ AccessTypes'
  BY AccessTypesStep DEF AccessInv, AccessNext
<1>2. Grows /\ UNCHANGED <<exitRule, doorRule, locationRule, reached, entered, open>>
  <2>1. PICK x \in Items : owned[x] < Stock[x] /\ owned' = [owned EXCEPT ![x] = @ + 1]
    BY DEF Obtain
  <2>2. \A y \in Items : owned[y] <= owned'[y]
    BY <1>1, <2>1 DEF AccessTypes
  <2> QED
    BY <2>2 DEF Obtain, Grows
<1>3. RulesMade'
  BY DEF AccessInv, RulesMade, Obtain
<1>4. /\ ~playerOptions'.noLogic => \A r \in reached : \A k \in Toll(r)' \ {r} : Met(RegionRequires[k])'
      /\ \A s \in entered :
           \E d \in DOMAIN leads' : leads'[d] = s /\ Home[d] \in reached' /\ Allowed(doorRule[d])'
      /\ \A l \in open : ParentReached(l)' /\ Allowed(locationRule[l])'
  BY <1>1, <1>2, WaysStay DEF AccessInv
<1>5. (OnFoot /\ ByDoor /\ ByRule)'
  BY <1>2, <1>4 DEF OnFoot, ByDoor, ByRule
<1> QED
  BY <1>1, <1>3, <1>5 DEF AccessInv

LEMMA AccessInvStep == AccessInv /\ [AccessNext]_accessVars => AccessInv'
<1> SUFFICES ASSUME AccessInv, [AccessNext]_accessVars
             PROVE  AccessInv'
  OBVIOUS
<1>1. CASE UNCHANGED accessVars
  <2>1. AccessTypes' /\ RulesMade'
    BY <1>1, AccessTypesStep DEF AccessInv, accessVars, RulesMade
  <2>2. OnFoot' /\ ByDoor' /\ ByRule'
    BY <1>1 DEF AccessInv, accessVars, OnFoot, ByDoor, ByRule, Toll, Met, Has, InHand, MayLeave,
       Count, Allowed, ParentReached, Moved
  <2> QED
    BY <2>1, <2>2 DEF AccessInv
<1> QED
  BY <1>1, MakingKeepsInv, LookKeepsInv, ObtainKeepsInv DEF AccessNext

LEMMA AccessInvHolds == AccessSpec => []AccessInv
BY AccessInvStart, AccessInvStep, PTL DEF AccessSpec

\* The types of the generation's state.
THEOREM AccessTypesHold == AccessSpec => []AccessTypes
<1>1. AccessInv => AccessTypes
  BY DEF AccessInv
<1> QED
  BY <1>1, AccessInvHolds, PTL

(***************************************************************************)
(* What an open location says of its region and of its door.               *)
(***************************************************************************)

\* The interior of an open location was entered, through the one door that leads to it.
LEMMA TheDoor ==
  ASSUME AccessInv, NEW d \in DOMAIN leads, NEW l \in open \cap Members[leads[d]]
  PROVE  /\ d \in Pool /\ leads[d] \in Pool /\ l \in Pooled /\ l \in Moved(leads)
         /\ Home[d] \in reached /\ Allowed(doorRule[d]) /\ Allowed(locationRule[l])
<1>1. leads \in Rolls
  BY DEF AccessInv, AccessTypes, NoDoors
<1>2. DOMAIN leads = Pool /\ leads \in [Pool -> Pool]
  BY <1>1, OptionsAssumption
<1>3. l \in Moved(leads) /\ l \in Pooled
  BY <1>2 DEF Moved, Pooled
<1>4. ParentReached(l) /\ Allowed(locationRule[l])
  BY DEF AccessInv, ByRule
<1>5. PICK s \in entered : l \in Members[s]
  BY <1>3, <1>4 DEF ParentReached
<1>6. s \in Pool
  BY DEF AccessInv, AccessTypes
<1>7. s = leads[d]
  BY <1>2, <1>5, <1>6, AccessAssumption
<1>8. PICK e \in DOMAIN leads : leads[e] = s /\ Home[e] \in reached /\ Allowed(doorRule[e])
  BY DEF AccessInv, ByDoor
<1>9. e = d
  BY <1>1, <1>2, <1>7, <1>8, OptionsAssumption
<1> QED
  BY <1>2, <1>3, <1>4, <1>8, <1>9

LEMMA RulesAtWork ==
  ASSUME AccessInv, ~playerOptions.noLogic, open # {}
  PROVE  /\ doorRule = AddDoorRules(leads, CoreDoors(leads))
         /\ locationRule = ShuffledLocations(leads)
BY DEF AccessInv, RulesMade

\* A player who can be somewhere has what everything on the way to it asks for.
LEMMA TheWay ==
  ASSUME AccessInv, ~playerOptions.noLogic, NEW r \in reached, Met(RegionRequires[r])
  PROVE  \A k \in Toll(r) : Met(RegionRequires[k])
BY DEF AccessInv, OnFoot

LEMMA AccessInvNoEarlyArrival == AccessInv => NoEarlyArrival
<1> SUFFICES ASSUME AccessInv, ~playerOptions.noLogic
             PROVE  NoEarlyArrival
  BY DEF NoEarlyArrival
<1>1. ASSUME NEW l \in open \ Moved(leads), NEW r \in Toll(Region[l])
      PROVE  Met(RegionRequires[r])
  <2>1. l \in Locations
    BY DEF AccessInv, AccessTypes, Enabled
  <2>2. Region[l] \in reached /\ Allowed(locationRule[l])
    BY <1>1 DEF AccessInv, ByRule, ParentReached
  <2>3. RegionRequires[Region[l]] \in locationRule[l]
    BY <1>1, <2>1, RulesAtWork
       DEF ShuffledLocations, AddScenarioRules, SetInteriorRules, CoreLocations
  <2>4. Met(RegionRequires[Region[l]])
    BY <2>2, <2>3 DEF Allowed
  <2> QED
    BY <1>1, <2>2, <2>4, TheWay
<1>2. ASSUME NEW d \in DOMAIN leads, open \cap Members[leads[d]] # {}, NEW r \in Toll(Home[d])
      PROVE  Met(RegionRequires[r])
  <2>1. Home[d] \in reached /\ Allowed(doorRule[d])
    BY <1>2, TheDoor
  <2>2. RegionRequires[Home[d]] \in doorRule[d]
    BY <1>2, RulesAtWork DEF AddDoorRules, CoreDoors
  <2>3. Met(RegionRequires[Home[d]])
    BY <2>1, <2>2 DEF Allowed
  <2> QED
    BY <1>2, <2>1, <2>3, TheWay
<1> QED
  BY <1>1, <1>2 DEF NoEarlyArrival

\* However the moons, the doors and the playerOptions fall: no location is open early.
THEOREM NoEarlyArrivalHolds == AccessSpec => []NoEarlyArrival
BY AccessInvHolds, AccessInvNoEarlyArrival, PTL

LEMMA AccessInvGatesSurvive == AccessInv => GatesSurvive
<1> SUFFICES ASSUME AccessInv, ~playerOptions.noLogic, NEW d \in DOMAIN leads,
                    NEW l \in open \cap Members[leads[d]]
             PROVE  /\ Met(ScriptRequires[l]) /\ (l \notin Junk => Met(ScenarioGate[l]))
                    /\ Met(KingdomGate(Home[d], Script)) /\ Met(SubareaGate[d]) /\ Met(ExitGate[leads[d]])
                    /\ d \in MoonPipes => Met(RockCapture(Home[d])) /\ Met(Peace(Home[d]))
                    /\ Members[d] # {} => \E m \in Members[d] : m \in Junk \/ Met(ScenarioGate[m])
  BY DEF GatesSurvive
<1>1. /\ d \in Pool /\ leads[d] \in Pool /\ l \in Pooled /\ l \in Moved(leads) /\ l \in Locations
      /\ Home[d] \in Regions
  BY TheDoor, AccessAssumption DEF AccessInv, AccessTypes, Enabled
<1>2. Allowed(doorRule[d]) /\ Allowed(locationRule[l])
  BY TheDoor
<1>3. {InteriorRequires[l], SubareaScenarioGates[l]} \subseteq locationRule[l]
  BY <1>1, RulesAtWork DEF ShuffledLocations, AddScenarioRules, SetInteriorRules
<1>4. DoorAccess(d, leads[d]) \cup {DoorScenario(d)} \subseteq doorRule[d]
  BY RulesAtWork DEF AddDoorRules
<1>5. Met(InteriorRequires[l]) /\ Met(SubareaScenarioGates[l])
  BY <1>2, <1>3 DEF Allowed
<1>6. \A req \in DoorAccess(d, leads[d]) \cup {DoorScenario(d)} : Met(req)
  BY <1>2, <1>4 DEF Allowed
<1>7. Met(ScriptRequires[l])
  <2>1. CASE l \in DOMAIN Record
    <3>1. Met(CompileMoon(Record[l], Client))
      BY <1>1, <1>5, <2>1 DEF InteriorRequires
    <3> QED
      BY <1>1, <2>1, <3>1, InteriorNotLooser DEF ScriptRequires
  <2>2. CASE l \notin DOMAIN Record
    BY <1>1, <2>2, FreeIsMet DEF ScriptRequires
  <2> QED
    BY <2>1, <2>2
<1>8. l \notin Junk => Met(ScenarioGate[l])
  BY <1>1, <1>5 DEF SubareaScenarioGates
<1>9. Met(KingdomGate(Home[d], Script)) /\ Met(SubareaGate[d]) /\ Met(ExitGate[leads[d]])
  BY <1>1, <1>6, KingdomNotLooser DEF DoorAccess
<1>10. d \in MoonPipes => Met(RockCapture(Home[d])) /\ Met(Peace(Home[d]))
  BY <1>6 DEF DoorAccess
<1>11. ASSUME Members[d] # {}
       PROVE  \E m \in Members[d] : m \in Junk \/ Met(ScenarioGate[m])
  <2>1. PICK alt \in UNION {SubareaScenarioGates[m] : m \in Members[d]} : \A t \in alt : Has(t)
    BY <1>6, <1>11 DEF DoorScenario, Met
  <2>2. PICK m \in Members[d] : alt \in SubareaScenarioGates[m]
    BY <2>1
  <2>3. m \in Pooled
    BY <1>1 DEF Pooled
  <2>4. m \in Junk \/ alt \in ScenarioGate[m]
    BY <2>2, <2>3 DEF SubareaScenarioGates
  <2> QED
    BY <2>1, <2>4 DEF Met
<1> QED
  BY <1>7, <1>8, <1>9, <1>10, <1>11

\* However the doors fall, the passes put back every gate the shuffle took a rule from.
THEOREM GatesSurviveHolds == AccessSpec => []GatesSurvive
BY AccessInvHolds, AccessInvGatesSurvive, PTL

=============================================================================
