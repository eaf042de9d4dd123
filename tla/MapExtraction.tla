----------------------------- MODULE MapExtraction -----------------------------
(***************************************************************************)
(* From a game dump to the tables of the client: the extractor script      *)
(* (scripts/extract_shine_map.py), the wizard's job around it              *)
(* (wizard_cli.run_extract, build._stream_subprocess) and the client that  *)
(* loads shine_map.json and capture_map.json and reloads them              *)
(* (context.reload_maps, maps.py).                                         *)
(*                                                                         *)
(* The extractor keeps two things between runs: the virtual environment it *)
(* made for itself, and the RomFS it unpacked.  It relaunches itself in    *)
(* that environment, so that ending the process the wizard started -- at a *)
(* timeout, or with the wizard -- may leave the one that does the work.    *)
(***************************************************************************)
EXTENDS Naturals, FiniteSets

CONSTANTS
  Dumps,       \* files the user can pick: good, wrong (another version), damaged
  MaxJobs,     \* bounds: extractions started,
  MaxCuts,     \*         timeouts, and ends of the wizard, in one
  MaxLoads     \*         loads and reloads of the client

ASSUME MapExtractionAssumption ==
  /\ Dumps \subseteq {"good", "wrong", "damaged"}
  /\ {MaxJobs, MaxCuts, MaxLoads} \subseteq Nat

\* The file the cache test looks for, and the others the tables are made of.
RomFiles == {"ShineInfo", "others"}
MapFiles == {"shine_map", "capture_map"}
RomState == Dumps \cup {"absent", "torn"}

\* A table: none, cut short (which is no JSON), of a 1.0.0 dump, of another.
Tables == {"absent", "torn", "canonical", "foreign"}

\* The extractor the wizard waits for, and one it does not know of any more.
Extractors == {"child", "orphan"}

VARIABLES
  dump,        \* the picked dump
  venv,        \* .extract-venv: absent, without oead, ready
  romfs,       \* .romfs-cache
  maps,        \* the tables on disk
  stamps,      \* .maps-updated: how often it was touched
  stage,       \* where each extractor is
  source,      \* the dump it was given
  parsed,      \* the table it has in memory
  job,         \* run_extract: idle, running, checking (and the exit code), ok, failed
  client,      \* the tables in the client's memory
  mark,        \* _maps_sentinel_mtime
  reload,      \* reload_maps: what is left to read, and the mtime it took
  jobs, cuts, loads,
  \* ---- history ----
  orphaned,    \* an extractor ran on without the wizard
  unread       \* a reload could not read a table

mapVars == <<dump, venv, romfs, maps, stamps, stage, source, parsed, job, client, mark, reload,
             jobs, cuts, loads, orphaned, unread>>
files   == <<venv, romfs, maps>>
process == <<stage, source, jobs, cuts, orphaned>>
wizardSide == <<dump, stamps, job>>
clientSide == <<client, mark, reload, loads, unread>>

NoReload == [left |-> {}, taken |-> 0, on |-> FALSE]

MapInit ==
  /\ dump = "none" /\ venv = "absent"
  /\ romfs = [f \in RomFiles |-> "absent"] /\ maps = [f \in MapFiles |-> "absent"]
  /\ stamps = 0 /\ stage = [p \in Extractors |-> "none"]
  /\ source = [p \in Extractors |-> "none"]
  /\ parsed = [p \in Extractors |-> "nothing"] /\ job = "idle"
  /\ client = [f \in MapFiles |-> "absent"] /\ mark = 0 /\ reload = NoReload
  /\ jobs = 0 /\ cuts = 0 /\ loads = 0
  /\ orphaned = FALSE /\ unread = FALSE

\* canonical_maps_present: maps_ready, and every hash of verify_map_hashes matches.
CanonicalMaps == \A f \in MapFiles : maps[f] = "canonical"

At(p, s)    == stage[p] = s
To(p, s)    == stage' = [stage EXCEPT ![p] = s]

(***************************************************************************)
(* extract_shine_map.py, run by extractor p.                               *)
(***************************************************************************)

\* _bootstrap_and_reexec: the environment is made once; one that exists is used,
\* and without oead the script gives up (_diagnose_oead_import_failure).
Bootstrap(p) ==
  /\ At(p, "boot")
  /\ \/ venv = "absent" /\ venv' \in {"absent", "bare"}
        /\ To(p, IF venv' = "bare" THEN "pip" ELSE "failed")
     \/ venv = "bare" /\ To(p, "failed") /\ UNCHANGED venv
     \/ venv = "ready" /\ To(p, "romfs") /\ UNCHANGED venv
  /\ UNCHANGED <<romfs, maps, parsed, source, jobs, cuts, orphaned, wizardSide, clientSide>>

\* pip install oead, which may fail.
PipInstall(p) ==
  /\ At(p, "pip")
  /\ \/ venv' = "ready" /\ To(p, "romfs")
     \/ To(p, "failed") /\ UNCHANGED venv
  /\ UNCHANGED <<romfs, maps, parsed, source, jobs, cuts, orphaned, wizardSide, clientSide>>

\* extract_romfs: with ShineInfo.szs in the cache, whatever dump it is from, there
\* is nothing to unpack.
OpenRomfs(p) ==
  /\ At(p, "romfs")
  /\ To(p, IF romfs["ShineInfo"] # "absent" THEN "parse" ELSE "unpack")
  /\ UNCHANGED <<files, parsed, source, jobs, cuts, orphaned, wizardSide, clientSide>>

\* _run_hactool: a section that is corrupted is tolerated, other errors end the script.
HactoolFails(p) == To(p, "failed") /\ UNCHANGED romfs

\* The partition, then the RomFS: one file after the other.
HactoolFile(p) ==
  /\ At(p, "unpack")
  /\ \/ \E f \in RomFiles :
          /\ romfs[f] # source[p]
          /\ romfs' = [romfs EXCEPT ![f] = source[p]]
          /\ UNCHANGED stage
     \/ /\ \A f \in RomFiles : romfs[f] = source[p]
        /\ To(p, "parse") /\ UNCHANGED romfs
     \/ HactoolFails(p)
  /\ UNCHANGED <<venv, maps, parsed, source, jobs, cuts, orphaned, wizardSide, clientSide>>

\* What parsing the files may yield.  Damaged blocks may or may not hit what is needed.
Yield == IF \E f \in RomFiles : romfs[f] \in {"absent", "torn"} THEN {"nothing"}
         ELSE IF \A f \in RomFiles : romfs[f] = "good" THEN {"canonical"}
         ELSE IF \A f \in RomFiles : romfs[f] # "wrong" THEN {"canonical", "foreign", "nothing"}
         ELSE {"foreign", "nothing"}

\* Parse the RomFS for table f; then the file is opened, which empties it.
ParseTable(p, f) ==
  \E y \in Yield :
    /\ To(p, IF y = "nothing" THEN "failed" ELSE f)
    /\ parsed' = [parsed EXCEPT ![p] = y]
    /\ maps' = IF y = "nothing" THEN maps ELSE [maps EXCEPT ![f] = "torn"]
    /\ UNCHANGED <<venv, romfs, source, jobs, cuts, orphaned, wizardSide, clientSide>>

\* extract for the moons and write_outputs; extract_captures after them.
ParseMoons(p)    == At(p, "parse") /\ ParseTable(p, "shine_map")
ParseCaptures(p) == At(p, "captures") /\ ParseTable(p, "capture_map")

\* The text of table f is in the file; for the moons world_scenarios.json follows,
\* whose source may fail to parse.  Writing may fail.
WriteTable(p, f) ==
  /\ At(p, f)
  /\ \/ /\ maps' = [maps EXCEPT ![f] = parsed[p]]
        /\ \/ To(p, IF f = "shine_map" THEN "captures" ELSE "succeeded")
           \/ f = "shine_map" /\ To(p, "failed")
     \/ To(p, "failed") /\ UNCHANGED maps
  /\ UNCHANGED <<venv, romfs, parsed, source, jobs, cuts, orphaned, wizardSide, clientSide>>

\* The end of an extractor nobody waits for.
OrphanEnds ==
  /\ stage["orphan"] \in {"failed", "succeeded"} /\ To("orphan", "none")
  /\ UNCHANGED <<files, parsed, source, jobs, cuts, orphaned, wizardSide, clientSide>>

ExtractorStep(p) ==
  \/ Bootstrap(p) \/ PipInstall(p) \/ OpenRomfs(p) \/ HactoolFile(p)
  \/ ParseMoons(p) \/ ParseCaptures(p) \/ \E f \in MapFiles : WriteTable(p, f)

(***************************************************************************)
(* wizard_cli.run_extract and _stream_subprocess.                          *)
(***************************************************************************)

\* The user picks a dump.
PickDump(d) ==
  /\ d # dump /\ job \notin {"running", "check0", "check1"} /\ dump' = d
  /\ UNCHANGED <<files, parsed, process, stamps, job, clientSide>>

\* _touch_maps_sentinel_safe: best effort.
Touch == stamps' \in {stamps, stamps + 1}

\* A job that always runs the extractor.
StartAlways ==
  /\ job \notin {"running", "check0", "check1"} /\ jobs < MaxJobs /\ jobs' = jobs + 1
  /\ dump # "none"
  /\ job' = "running" /\ To("child", "boot") /\ source' = [source EXCEPT !["child"] = dump]
  /\ UNCHANGED <<files, stamps, parsed, dump, cuts, orphaned, clientSide>>

\* The hash check before; no dump; or the extractor is started.
StartJob ==
  /\ job \notin {"running", "check0", "check1"} /\ jobs < MaxJobs /\ jobs' = jobs + 1
  /\ \/ /\ CanonicalMaps /\ job' = "ok" /\ Touch
        /\ UNCHANGED <<stage, source>>
     \/ /\ ~CanonicalMaps /\ dump = "none" /\ job' = "failed"
        /\ UNCHANGED <<stage, source, stamps>>
     \/ /\ ~CanonicalMaps /\ dump # "none" /\ job' = "running" /\ To("child", "boot")
        /\ source' = [source EXCEPT !["child"] = dump]
        /\ UNCHANGED stamps
  /\ UNCHANGED <<venv, romfs, maps, parsed, dump, cuts, orphaned, clientSide>>

\* The child has exited; its code is 0 when it succeeded.
ChildExits ==
  /\ job = "running" /\ stage["child"] \in {"failed", "succeeded"}
  /\ job' = (IF At("child", "succeeded") THEN "check0" ELSE "check1") /\ To("child", "none")
  /\ UNCHANGED <<files, parsed, source, jobs, cuts, orphaned, dump, stamps, clientSide>>

\* The process the wizard started goes; the one it had launched goes with it -- in
\* the middle of what it was writing -- or runs on.
CutChild ==
  /\ cuts < MaxCuts /\ cuts' = cuts + 1
  /\ \/ /\ To("child", "none")
        /\ romfs' \in IF At("child", "unpack")
                      THEN {romfs} \cup {[romfs EXCEPT ![f] = "torn"] : f \in RomFiles}
                      ELSE {romfs}
        /\ UNCHANGED <<source, parsed, orphaned>>
     \/ /\ At("orphan", "none") /\ orphaned' = TRUE
        /\ stage' = [stage EXCEPT !["child"] = "none", !["orphan"] = stage["child"]]
        /\ source' = [source EXCEPT !["orphan"] = source["child"]]
        /\ parsed' = [parsed EXCEPT !["orphan"] = parsed["child"]]
        /\ UNCHANGED romfs
  /\ UNCHANGED <<venv, maps, jobs, dump, stamps, clientSide>>

\* The wall-clock or the stall timeout of _stream_subprocess: code 124.
Timeout == job = "running" /\ job' = "check1" /\ CutChild

\* The wizard is closed or dies.
WizardEnds == job = "running" /\ job' = "idle" /\ CutChild

\* An outcome that does not look at the hashes.
OutcomeByExit == job = "check0"

\* ok = result.ok and maps_present and hash_ok
Outcome == job = "check0" /\ CanonicalMaps

FinishJob ==
  /\ job \in {"check0", "check1"}
  /\ \/ Outcome /\ job' = "ok" /\ Touch
     \/ ~Outcome /\ job' = "failed" /\ UNCHANGED stamps
  /\ UNCHANGED <<venv, romfs, maps, parsed, process, dump, clientSide>>

(***************************************************************************)
(* The client.                                                             *)
(***************************************************************************)

Readable(f) == maps[f] \in {"canonical", "foreign"}

\* main: the tables are loaded if they are there; one that is no JSON ends the start.
StartClient ==
  /\ loads < MaxLoads /\ loads' = loads + 1
  /\ \A f \in MapFiles : maps[f] # "torn"
  /\ client' = maps /\ mark' = 0 /\ reload' = NoReload /\ unread' = FALSE
  /\ UNCHANGED <<files, parsed, process, wizardSide>>

\* reload_maps, at Connected when the sentinel advanced, or forced by a moon that
\* is not in the table: the sentinel is read first.
BeginReload(force) ==
  /\ ~reload.on /\ loads < MaxLoads /\ loads' = loads + 1
  /\ IF force THEN client["shine_map"] # "canonical" ELSE stamps > mark
  /\ reload' = [left |-> MapFiles, taken |-> stamps, on |-> TRUE]
  /\ UNCHANGED <<files, parsed, process, wizardSide, client, mark, unread>>

\* _reload_one, first for the shine map: a table that cannot be read or parsed
\* leaves the one in memory as it is.
ReloadOne(f) ==
  /\ f \in reload.left /\ (f = "capture_map" => "shine_map" \notin reload.left)
  /\ reload' = [reload EXCEPT !.left = @ \ {f}]
  /\ \/ Readable(f) /\ client' = [client EXCEPT ![f] = maps[f]] /\ UNCHANGED unread
     \/ UNCHANGED client /\ unread' = TRUE
  /\ UNCHANGED <<files, parsed, process, wizardSide, mark, loads>>

\* A watermark that is read again at the end.
NewMark == stamps

\* The watermark advances, whatever was loaded.
Watermark == reload.taken

EndReload ==
  /\ reload.on /\ reload.left = {} /\ reload' = NoReload
  /\ mark' = IF Watermark > 0 THEN Watermark ELSE mark
  /\ UNCHANGED <<files, parsed, process, wizardSide, client, loads, unread>>

MapNext ==
  \/ \E p \in Extractors : ExtractorStep(p)
  \/ OrphanEnds
  \/ \E d \in Dumps : PickDump(d)
  \/ StartJob \/ ChildExits \/ Timeout \/ WizardEnds \/ FinishJob
  \/ StartClient \/ \E force \in BOOLEAN : BeginReload(force)
  \/ \E f \in MapFiles : ReloadOne(f)
  \/ EndReload

MapSpec == MapInit /\ [][MapNext]_mapVars

(***************************************************************************)
(* Properties.                                                             *)
(***************************************************************************)

MapTypeOK ==
  /\ dump \in Dumps \cup {"none"} /\ venv \in {"absent", "bare", "ready"}
  /\ romfs \in [RomFiles -> RomState] /\ maps \in [MapFiles -> Tables]
  /\ stamps \in Nat /\ mark \in Nat
  /\ stage \in [Extractors -> MapFiles \cup {"none", "boot", "pip", "romfs", "unpack", "parse",
                                           "captures", "failed", "succeeded"}]
  /\ source \in [Extractors -> Dumps \cup {"none"}]
  /\ parsed \in [Extractors -> {"canonical", "foreign", "nothing"}]
  /\ job \in {"idle", "running", "check0", "check1", "ok", "failed"}
  /\ client \in [MapFiles -> Tables \ {"torn"}]
  /\ reload \in [left : SUBSET MapFiles, taken : Nat, on : BOOLEAN]
  /\ jobs \in 0 .. MaxJobs /\ cuts \in 0 .. MaxCuts /\ loads \in 0 .. MaxLoads
  /\ {orphaned, unread} \subseteq BOOLEAN

\* An extraction that was reported ok has left two complete tables of a 1.0.0 dump,
\* whatever was picked, damaged or interrupted before (run_extract's "hard gate"), and
\* every further job succeeds and leaves them alone, whatever dump is picked (the
\* check before the extractor short-circuits) -- unless an extractor of an earlier
\* job runs on.
SuccessSticks ==
  [][job = "ok" /\ ~orphaned => CanonicalMaps /\ job' = "ok" /\ CanonicalMaps']_mapVars

\* A client whose watermark is the last touch works with the tables of that
\* touch, wherever the extraction and the reload met -- unless a table could not be
\* read (reload_maps takes the sentinel first).
WatermarkFresh ==
  mark = stamps /\ mark > 0 /\ ~reload.on /\ ~unread /\ ~orphaned
    => client = maps /\ CanonicalMaps
=============================================================================
