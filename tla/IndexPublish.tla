---------------------------- MODULE IndexPublish ----------------------------
(***************************************************************************)
(* How a reputation index gets from the worker's disk into the memory of   *)
(* the API: build_index and load_index of engine/app/adapters/index.py,    *)
(* run by two processes that share nothing but a directory.                *)
(*                                                                         *)
(* The worker writes the four files of a build under <index>.tmp, removes  *)
(* the directory that is being served, file by file, and renames the new   *)
(* one into its place.  The API looks at the mtime of meta.json before it  *)
(* answers a check; when it differs from the one it remembers it opens the *)
(* four files one after the other and, at the end, asks for the mtime      *)
(* again.  Nothing stops the two from overlapping.                         *)
(*                                                                         *)
(* A build is known by its number.  A file is worth the number of the      *)
(* build that wrote it, and the mtime of meta.json is that number too: two *)
(* builds are an interval apart, so they never share an mtime.             *)
(***************************************************************************)
EXTENDS Naturals

CONSTANTS
    MaxBuilds,   \* bound: how many builds are published
    MaxFaults    \* bound: how many crashes and failed builds there are

ASSUME BoundsAssumption == MaxBuilds \in Nat /\ MaxFaults \in Nat

\* ip_trie.pkl, ip6_trie.pkl, domains.pkl and meta.json, numbered in the order
\* in which build_index writes them and load_index reads them.
File == 1..4
Meta == 4

Absent  == 0                       \* no such file; for an mtime, None
Version == 0..MaxBuilds            \* a build's number, or Absent
NoFiles == [f \in File |-> Absent]

VARIABLES
    built,        \* the number of builds published so far
    wpc,          \* where the worker is
    tmp,          \* the files under <index>.tmp
    dir,          \* does the index directory exist?
    disk,         \* the files in the index directory
    apc,          \* where the API is
    starting,     \* the load is the one of lifespan, not of maybe_reload
    pos,          \* the file load_index has come to
    loaded,       \* the IndexStore being put together by load_index
    loadedMtime,
    served,       \* the IndexStore the checks read
    servedMtime,
    undisturbed,  \* history: no swap step since the current load began
    faults        \* crashes and failed builds so far

wvars == <<built, wpc, tmp>>
avars == <<apc, starting, pos, loaded, loadedMtime, served, servedMtime>>
vars  == <<wvars, avars, dir, disk, undisturbed, faults>>

\* One build, whole.
Whole(files) == \E b \in 1..MaxBuilds : files = [f \in File |-> b]

Init ==
    /\ built = 0
    /\ wpc = "sleep"
    /\ tmp = NoFiles
    /\ dir = FALSE
    /\ disk = NoFiles
    /\ apc = "down"
    /\ starting = FALSE
    /\ pos = 1
    /\ loaded = NoFiles /\ loadedMtime = Absent
    /\ served = NoFiles /\ servedMtime = Absent
    /\ undisturbed = FALSE
    /\ faults = 0

-----------------------------------------------------------------------------
(* The worker *)

\* A tick reaches build_index: whatever an earlier attempt left under .tmp goes.
StartBuild ==
    /\ wpc = "sleep"
    /\ built < MaxBuilds
    /\ wpc' = "write"
    /\ tmp' = NoFiles
    /\ UNCHANGED <<built, avars, dir, disk, undisturbed, faults>>

\* Mutant: the swap begins before meta.json is written.
WriteFileEarlySwap(f) ==
    /\ wpc = "write"
    /\ tmp[f] = Absent
    /\ \A g \in File : g < f => tmp[g] # Absent
    /\ tmp' = [tmp EXCEPT ![f] = built + 1]
    /\ wpc' = IF f = 3 THEN "swap" ELSE "write"
    /\ UNCHANGED <<built, avars, dir, disk, undisturbed, faults>>

\* The three pickles are dumped, then meta.json.
WriteFile(f) ==
    /\ wpc = "write"
    /\ tmp[f] = Absent
    /\ \A g \in File : g < f => tmp[g] # Absent
    /\ tmp' = [tmp EXCEPT ![f] = built + 1]
    /\ wpc' = IF f = Meta THEN "swap" ELSE "write"
    /\ UNCHANGED <<built, avars, dir, disk, undisturbed, faults>>

\* Anything raised by the parsing or by a dump ends the tick: run() logs it.
BuildFails ==
    /\ wpc = "write"
    /\ faults < MaxFaults
    /\ faults' = faults + 1
    /\ wpc' = "sleep"
    /\ UNCHANGED <<built, tmp, avars, dir, disk, undisturbed>>

\* Mutant: nothing is renamed when there is no directory to replace.
StartSwapOnlyReplaces ==
    /\ wpc = "swap"
    /\ wpc' = IF dir THEN "remove" ELSE "sleep"
    /\ UNCHANGED <<built, tmp, avars, dir, disk, undisturbed, faults>>

\* if index_path.exists(): ...
StartSwap ==
    /\ wpc = "swap"
    /\ wpc' = IF dir THEN "remove" ELSE "rename"
    /\ UNCHANGED <<built, tmp, avars, dir, disk, undisturbed, faults>>

\* rmtree unlinks the files in the order the directory lists them: any order.
RemoveFile(f) ==
    /\ wpc = "remove"
    /\ disk[f] # Absent
    /\ disk' = [disk EXCEPT ![f] = Absent]
    /\ undisturbed' = FALSE
    /\ UNCHANGED <<wvars, avars, dir, faults>>

RemoveDir ==
    /\ wpc = "remove"
    /\ disk = NoFiles
    /\ dir' = FALSE
    /\ wpc' = "rename"
    /\ UNCHANGED <<built, tmp, avars, disk, undisturbed, faults>>

\* tmp.rename(index_path): the target is missing, or the empty directory a
\* starting API has just made.
Rename ==
    /\ wpc = "rename"
    /\ disk = NoFiles
    /\ disk' = tmp
    /\ dir' = TRUE
    /\ tmp' = NoFiles
    /\ built' = built + 1
    /\ wpc' = "sleep"
    /\ undisturbed' = FALSE
    /\ UNCHANGED <<avars, faults>>

WorkerCrash ==
    /\ wpc # "down"
    /\ faults < MaxFaults
    /\ faults' = faults + 1
    /\ wpc' = "down"
    /\ UNCHANGED <<built, tmp, avars, dir, disk, undisturbed>>

WorkerStart ==
    /\ wpc = "down"
    /\ wpc' = "sleep"
    /\ UNCHANGED <<built, tmp, avars, dir, disk, undisturbed, faults>>

Worker ==
    \/ StartBuild \/ StartSwap \/ RemoveDir \/ Rename \/ WorkerStart
    \/ \E f \in File : WriteFile(f) \/ RemoveFile(f)

-----------------------------------------------------------------------------
(* The API *)

\* Mutant: the parts of an earlier load that failed are still there.
BeginLoadKeepsParts ==
    /\ apc' = "exists"
    /\ pos' = 1
    /\ loadedMtime' = Absent
    /\ undisturbed' = TRUE
    /\ UNCHANGED loaded

\* Mutant: without a meta.json the mtime of the earlier load stays.
BeginLoadKeepsMtime ==
    /\ apc' = "exists"
    /\ pos' = 1
    /\ loaded' = NoFiles
    /\ undisturbed' = TRUE
    /\ UNCHANGED loadedMtime

\* An empty IndexStore to be filled.
BeginLoad ==
    /\ apc' = "exists"
    /\ pos' = 1
    /\ loaded' = NoFiles
    /\ loadedMtime' = Absent
    /\ undisturbed' = TRUE

\* lifespan makes the directory and loads whatever is in it.
ApiStart ==
    /\ apc = "down"
    /\ dir' = TRUE
    /\ starting' = TRUE
    /\ BeginLoad
    /\ UNCHANGED <<wvars, disk, served, servedMtime, faults>>

\* Mutant: an unchanged mtime does not stop the reload.
ReloadAlways ==
    /\ apc = "idle"
    /\ disk[Meta] # Absent
    /\ starting' = FALSE
    /\ BeginLoad
    /\ UNCHANGED <<wvars, dir, disk, served, servedMtime, faults>>

\* Mutant: an index loaded without meta.json counts as up to date.
ReloadOnlyKnown ==
    /\ apc = "idle"
    /\ disk[Meta] # Absent
    /\ servedMtime # Absent
    /\ disk[Meta] # servedMtime
    /\ starting' = FALSE
    /\ BeginLoad
    /\ UNCHANGED <<wvars, dir, disk, served, servedMtime, faults>>

\* maybe_reload, when meta.json is there with another mtime than the one kept.
Reload ==
    /\ apc = "idle"
    /\ disk[Meta] # Absent
    /\ disk[Meta] # servedMtime
    /\ starting' = FALSE
    /\ BeginLoad
    /\ UNCHANGED <<wvars, dir, disk, served, servedMtime, faults>>

\* maybe_reload, when it cannot stat meta.json or the mtime is the one kept.
KeepIndex ==
    /\ apc = "idle"
    /\ disk[Meta] \in {Absent, servedMtime}
    /\ UNCHANGED vars

\* Mutant: after meta.json comes a fifth file.
AdvanceTooFar(read) ==
    /\ pos' = pos + 1
    /\ apc' = CASE pos # Meta          -> "exists"
                [] pos = Meta /\ read  -> "mtime"
                [] pos = Meta /\ ~read -> "assign"

\* Past a file: on to the next one, to getmtime after meta.json was read, and to
\* the end when there was no meta.json to read.
Advance(read) ==
    /\ pos' = IF pos = Meta THEN pos ELSE pos + 1
    /\ apc' = CASE pos # Meta          -> "exists"
                [] pos = Meta /\ read  -> "mtime"
                [] pos = Meta /\ ~read -> "assign"

\* file.exists()
FileExists ==
    /\ apc = "exists"
    /\ disk[pos] # Absent
    /\ apc' = "open"
    /\ UNCHANGED <<wvars, dir, disk, starting, pos, loaded, loadedMtime,
                   served, servedMtime, undisturbed, faults>>

FileMissing ==
    /\ apc = "exists"
    /\ disk[pos] = Absent
    /\ Advance(FALSE)
    /\ UNCHANGED <<wvars, dir, disk, starting, loaded, loadedMtime,
                   served, servedMtime, undisturbed, faults>>

\* Opened and read; a file unlinked while it is open can still be read.
ReadFile ==
    /\ apc = "open"
    /\ disk[pos] # Absent
    /\ loaded' = [loaded EXCEPT ![pos] = disk[pos]]
    /\ Advance(TRUE)
    /\ UNCHANGED <<wvars, dir, disk, starting, loadedMtime,
                   served, servedMtime, undisturbed, faults>>

\* Unlinked after exists() saw it: FileNotFoundError.  In maybe_reload the request
\* fails and the index in memory stays; in lifespan the process ends.
OpenFails ==
    /\ apc = "open"
    /\ disk[pos] = Absent
    /\ apc' = IF starting THEN "down" ELSE "idle"
    /\ UNCHANGED <<wvars, dir, disk, starting, pos, loaded, loadedMtime,
                   served, servedMtime, undisturbed, faults>>

\* getmtime of whatever meta.json is there now; no _meta_mtime when there is none.
StatMeta ==
    /\ apc = "mtime"
    /\ loadedMtime' = disk[Meta]
    /\ apc' = "assign"
    /\ UNCHANGED <<wvars, dir, disk, starting, pos, loaded,
                   served, servedMtime, undisturbed, faults>>

\* The five attributes are assigned, one after the other and without an await.
Assign ==
    /\ apc = "assign"
    /\ served' = loaded
    /\ servedMtime' = loadedMtime
    /\ apc' = "idle"
    /\ UNCHANGED <<wvars, dir, disk, starting, pos, loaded, loadedMtime,
                   undisturbed, faults>>

ApiCrash ==
    /\ apc # "down"
    /\ faults < MaxFaults
    /\ faults' = faults + 1
    /\ apc' = "down"
    /\ served' = NoFiles
    /\ servedMtime' = Absent
    /\ UNCHANGED <<wvars, dir, disk, starting, pos, loaded, loadedMtime, undisturbed>>

Api ==
    \/ ApiStart \/ Reload \/ FileExists \/ FileMissing
    \/ ReadFile \/ OpenFails \/ StatMeta \/ Assign

Next ==
    \/ Worker \/ BuildFails \/ WorkerCrash
    \/ Api \/ KeepIndex \/ ApiCrash

\* The worker loops for ever and compose restarts both processes; a load never
\* blocks; and checks keep coming, so that maybe_reload keeps being called.
Fairness == WF_vars(Worker) /\ WF_vars(Api)

Spec == Init /\ [][Next]_vars /\ Fairness
-----------------------------------------------------------------------------
(* What the two processes promise *)

TypeOK ==
    /\ built \in Version
    /\ wpc \in {"sleep", "write", "swap", "remove", "rename", "down"}
    /\ tmp \in [File -> Version]
    /\ dir \in BOOLEAN
    /\ disk \in [File -> Version]
    /\ apc \in {"down", "idle", "exists", "open", "mtime", "assign"}
    /\ starting \in BOOLEAN
    /\ pos \in File
    /\ loaded \in [File -> Version] /\ loadedMtime \in Version
    /\ served \in [File -> Version] /\ servedMtime \in Version
    /\ undisturbed \in BOOLEAN
    /\ faults \in 0..MaxFaults

\* The index directory never holds files of two builds, whatever crashes; and as
\* long as nothing has crashed it holds the last build, whole, whenever the worker
\* is not between rmtree and rename (build_index, lines 176-179).
DiskOneBuild ==
    /\ \A f, g \in File : disk[f] # Absent /\ disk[g] # Absent => disk[f] = disk[g]
    /\ \A f \in File : disk[f] \in {Absent, built}
    /\ faults = 0 /\ built # 0 /\ wpc \notin {"remove", "rename"} => Whole(disk)

\* A later part is never older than an earlier one.
InOrder(files, mtime) ==
    /\ \A f, g \in File :
          f < g /\ files[f] # Absent /\ files[g] # Absent => files[f] <= files[g]
    /\ \A f \in File : files[f] # Absent /\ mtime # Absent => files[f] <= mtime

\* However the load and the swap interleave, the parts load_index puts together
\* come in the order it read them: what is served may miss parts and mix builds,
\* but a part is never newer than one read after it, nor than the mtime that
\* maybe_reload compares.  So an index whose first part is as new as its mtime is
\* one build, whole but for missing parts (load_index, lines 194-208).
LoadOrder == InOrder(loaded, loadedMtime) /\ InOrder(served, servedMtime)

\* A load during which the worker does not touch the directory returns exactly
\* what the directory holds, mtime included (load_index, lines 194-208).
SnapshotLoad ==
    apc = "assign" /\ undisturbed => loaded = disk /\ loadedMtime = disk[Meta]

\* Each reload moves forward: it replaces the index by one with a later mtime, or
\* by one whose meta.json was not found, and no part by an older one
\* (maybe_reload, lines 34-41).  In particular an unchanged index is not reloaded.
ForwardOnly ==
    [][Assign => /\ servedMtime' = Absent \/ servedMtime' > servedMtime
                 /\ \A f \in File : served'[f] # Absent => served[f] <= served'[f]]_vars

\* A build that stays published is noticed: the API ends up knowing its mtime,
\* after failed loads and restarts too.
Noticed ==
    \A b \in 1..MaxBuilds :
        <>[](disk[Meta] = b) => <>[](apc # "down" => servedMtime = b)

\* A worker that dies in the middle of the swap leaves a directory without an
\* index or with half of one; once faults stop, a later tick replaces it.
Republished == (\/ wpc = "rename"
                \/ disk # NoFiles /\ ~Whole(disk)) ~> Whole(disk)

\* The mtime the API remembers and the builds its parts are of keep the promise of
\* Cache: no load, failed load, restart or crashed swap brings an older part back
\* next to or after a newer one, and the API ends up at the last build.
Promise == INSTANCE Cache WITH
    MaxVersions <- MaxBuilds,
    latest      <- built,
    known       <- servedMtime,
    held        <- {served[f] : f \in File} \ {Absent}

ImplementsCache == Promise!Spec

\* index.py:176 calls the replacement of the directory an "Atomic swap": a process
\* that loads the index would get one build, whole.
AtomicSwap == apc = "idle" /\ servedMtime # Absent => Whole(served)
=============================================================================
