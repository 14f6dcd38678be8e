------------------------ MODULE IndexPublish_proofs ------------------------
(***************************************************************************)
(* IndexPublish is safe for every number of builds and of faults.  TypeOK  *)
(* and DiskOneBuild need nothing but the state of the worker.  LoadOrder,  *)
(* SnapshotLoad and ForwardOnly need to know how far a load has come: what *)
(* is not read yet is absent, what is read is at least as new as what is   *)
(* served, and, if no swap step came in between, is what the disk holds.   *)
(*                                                                         *)
(* Readiness, which is IndexPublish with the clock and the requests for    *)
(* /ready, comes second and rests on the same invariant.                   *)
(***************************************************************************)
EXTENDS Readiness, TLAPS

Loading == apc \in {"exists", "open", "mtime", "assign"}

\* The worker: what is under .tmp, what is in the directory, and when it is whole.
DiskInv ==
    /\ wpc \in {"write", "swap", "remove", "rename"} => built < MaxBuilds
    /\ \A f \in File : tmp[f] \in {Absent, built + 1}
    /\ wpc \in {"swap", "remove", "rename"} => \A f \in File : tmp[f] = built + 1
    /\ wpc = "write" => tmp[Meta] = Absent
    /\ \A f \in File : disk[f] \in {Absent, built}
    /\ ~dir \/ wpc = "rename" => \A f \in File : disk[f] = Absent
    /\ faults = 0 => wpc # "down"
    /\ faults = 0 /\ built # 0 /\ wpc \notin {"remove", "rename"}
          => \A f \in File : disk[f] = built

\* The load: nothing is newer than the last build, nothing is read ahead, and the
\* order of the parts is kept.
LoadInv ==
    /\ \A f \in File : loaded[f] <= built /\ served[f] <= built
    /\ loadedMtime <= built /\ servedMtime <= built
    /\ apc \in {"exists", "open"} => \A f \in File : pos <= f => loaded[f] = Absent
    /\ apc \in {"exists", "open", "mtime"} => loadedMtime = Absent
    /\ apc = "mtime" => pos = Meta
    /\ LoadOrder

\* The snapshot: as long as no swap step disturbs the load, what it has read is
\* what is in the directory.
SnapshotInv ==
    undisturbed =>
      /\ apc \in {"exists", "open"} => \A f \in File : f < pos => loaded[f] = disk[f]
      /\ apc = "open" => disk[pos] # Absent
      /\ apc \in {"mtime", "assign"} => \A f \in File : loaded[f] = disk[f]
      /\ apc = "assign" => loadedMtime = disk[Meta]

\* The replacement: a load that is under way is going to move forward.
ForwardInv ==
    /\ apc = "down" \/ (Loading /\ starting) =>
          servedMtime = Absent /\ \A f \in File : served[f] = Absent
    /\ Loading /\ ~starting => servedMtime < built
    /\ Loading => \A f, g \in File : loaded[f] # Absent => served[g] <= loaded[f]
    /\ apc = "assign" /\ loadedMtime # Absent => servedMtime < loadedMtime

IInv == TypeOK /\ DiskInv /\ LoadInv /\ SnapshotInv /\ ForwardInv

-----------------------------------------------------------------------------

\* An empty directory, and an index without parts, have a type.
LEMMA NoFilesType == NoFiles \in [File -> Version] /\ Absent \in Version
  BY BoundsAssumption DEF NoFiles, Absent, Version

\* The directory and the index in memory start empty.
LEMMA InitIInv == Init => IInv
<1> SUFFICES ASSUME Init PROVE IInv
  OBVIOUS
<1> USE BoundsAssumption DEF Init, File, Meta, Absent, Version, NoFiles
<1>1. TypeOK
  BY NoFilesType, 0 \in 0..MaxFaults, 1 \in 1..4 DEF TypeOK
<1>2. DiskInv
  BY DEF DiskInv
<1>3. LoadInv
  BY DEF LoadInv, LoadOrder, InOrder
<1>4. SnapshotInv
  BY DEF SnapshotInv
<1>5. ForwardInv
  BY DEF ForwardInv, Loading
<1>6. QED
  BY <1>1, <1>2, <1>3, <1>4, <1>5 DEF IInv

\* Every step keeps the types.
LEMMA NextTypeOK == TypeOK /\ DiskInv /\ [Next]_vars => TypeOK'
<1> SUFFICES ASSUME TypeOK, DiskInv, [Next]_vars PROVE TypeOK'
  OBVIOUS
<1> USE NoFilesType DEF TypeOK, vars, wvars, avars
<1>1. CASE StartBuild     BY <1>1 DEF StartBuild
<1>2. ASSUME NEW f \in File, WriteFile(f) PROVE TypeOK'
  <2>1. built + 1 \in Version
    BY <1>2, BoundsAssumption DEF WriteFile, DiskInv, Version
  <2>2. QED
    BY <1>2, <2>1 DEF WriteFile
<1>3. CASE BuildFails     BY <1>3, BoundsAssumption DEF BuildFails
<1>4. CASE StartSwap      BY <1>4 DEF StartSwap
<1>5. ASSUME NEW f \in File, RemoveFile(f) PROVE TypeOK'
  BY <1>5 DEF RemoveFile
<1>6. CASE RemoveDir      BY <1>6 DEF RemoveDir
<1>7. CASE Rename
  <2>1. built + 1 \in Version
    BY <1>7, BoundsAssumption DEF Rename, DiskInv, Version
  <2>2. QED
    BY <1>7, <2>1 DEF Rename
<1>8. CASE WorkerCrash    BY <1>8, BoundsAssumption DEF WorkerCrash
<1>9. CASE WorkerStart    BY <1>9 DEF WorkerStart
<1>10. CASE ApiStart      BY <1>10, 1 \in 1..4 DEF ApiStart, BeginLoad, File
<1>11. CASE Reload        BY <1>11, 1 \in 1..4 DEF Reload, BeginLoad, File
<1>12. CASE KeepIndex     BY <1>12 DEF KeepIndex
<1>13. CASE FileExists    BY <1>13 DEF FileExists
<1>14. CASE FileMissing   BY <1>14 DEF FileMissing, Advance, File, Meta
<1>15. CASE ReadFile      BY <1>15 DEF ReadFile, Advance, File, Meta
<1>16. CASE OpenFails     BY <1>16 DEF OpenFails
<1>17. CASE StatMeta      BY <1>17 DEF StatMeta, File, Meta
<1>18. CASE Assign        BY <1>18 DEF Assign
<1>19. CASE ApiCrash      BY <1>19, BoundsAssumption DEF ApiCrash
<1>20. CASE UNCHANGED vars BY <1>20
<1>21. QED
  BY <1>1, <1>2, <1>3, <1>4, <1>5, <1>6, <1>7, <1>8, <1>9, <1>10, <1>11, <1>12,
     <1>13, <1>14, <1>15, <1>16, <1>17, <1>18, <1>19, <1>20 DEF Next, Worker, Api

\* The worker keeps the directory in order; the API only ever makes it.
LEMMA NextDiskInv == TypeOK /\ DiskInv /\ [Next]_vars => DiskInv'
<1> SUFFICES ASSUME TypeOK, DiskInv, [Next]_vars PROVE DiskInv'
  OBVIOUS
<1> USE BoundsAssumption
    DEF TypeOK, DiskInv, File, Meta, Absent, Version, NoFiles, vars, wvars, avars
<1>1. CASE StartBuild     BY <1>1 DEF StartBuild
<1>2. ASSUME NEW f \in File, WriteFile(f) PROVE DiskInv'
  BY <1>2 DEF WriteFile
<1>3. CASE BuildFails     BY <1>3 DEF BuildFails
<1>4. CASE StartSwap      BY <1>4 DEF StartSwap
<1>5. ASSUME NEW f \in File, RemoveFile(f) PROVE DiskInv'
  BY <1>5 DEF RemoveFile
<1>6. CASE RemoveDir      BY <1>6 DEF RemoveDir
<1>7. CASE Rename         BY <1>7 DEF Rename
<1>8. CASE WorkerCrash    BY <1>8 DEF WorkerCrash
<1>9. CASE WorkerStart    BY <1>9 DEF WorkerStart
<1>10. CASE ApiStart      BY <1>10 DEF ApiStart, BeginLoad
<1>11. CASE ApiCrash      BY <1>11 DEF ApiCrash
<1>12. CASE UNCHANGED <<wvars, dir, disk, faults>>
  BY <1>12
<1>13. QED
  BY <1>1, <1>2, <1>3, <1>4, <1>5, <1>6, <1>7, <1>8, <1>9, <1>10, <1>11, <1>12
     DEF Next, Worker, Api, Reload, KeepIndex, FileExists, FileMissing, ReadFile,
         OpenFails, StatMeta, Assign

\* A read returns the last build, which is at least as new as all that was read.
LEMMA NextLoadInv == TypeOK /\ DiskInv /\ LoadInv /\ [Next]_vars => LoadInv'
<1> SUFFICES ASSUME TypeOK, DiskInv, LoadInv, [Next]_vars PROVE LoadInv'
  OBVIOUS
<1> USE BoundsAssumption
    DEF TypeOK, LoadInv, LoadOrder, InOrder, File, Meta, Absent, Version, NoFiles,
        vars, wvars, avars
<1>1. CASE Rename         BY <1>1 DEF Rename
<1>2. CASE ApiStart       BY <1>2 DEF ApiStart, BeginLoad
<1>3. CASE Reload         BY <1>3 DEF Reload, BeginLoad
<1>4. CASE FileExists     BY <1>4 DEF FileExists
<1>5. CASE FileMissing    BY <1>5 DEF FileMissing, Advance
<1>6. CASE ReadFile
  <2>1. loaded' = [loaded EXCEPT ![pos] = built]
    BY <1>6 DEF ReadFile, DiskInv
  <2>2. \A f \in File : loaded'[f] <= built' /\ served'[f] <= built'
    BY <1>6, <2>1 DEF ReadFile
  <2>3. InOrder(loaded', loadedMtime')
    BY <1>6, <2>1 DEF ReadFile
  <2>4. InOrder(served', servedMtime')
    BY <1>6 DEF ReadFile
  <2>5. QED
    BY <1>6, <2>1, <2>2, <2>3, <2>4 DEF ReadFile, Advance
<1>7. CASE OpenFails      BY <1>7 DEF OpenFails
<1>8. CASE StatMeta       BY <1>8 DEF StatMeta, DiskInv
<1>9. CASE Assign         BY <1>9 DEF Assign
<1>10. CASE ApiCrash      BY <1>10 DEF ApiCrash
<1>11. CASE UNCHANGED <<avars, built>>
  BY <1>11
<1>12. QED
  BY <1>1, <1>2, <1>3, <1>4, <1>5, <1>6, <1>7, <1>8, <1>9, <1>10, <1>11
     DEF Next, Worker, Api, StartBuild, WriteFile, BuildFails, StartSwap, RemoveFile,
         RemoveDir, WorkerCrash, WorkerStart, KeepIndex

\* Only RemoveFile and Rename change the files of the directory, and both say so.
LEMMA NextSnapshotInv ==
  TypeOK /\ LoadInv /\ SnapshotInv /\ [Next]_vars => SnapshotInv'
<1> SUFFICES ASSUME TypeOK, LoadInv, SnapshotInv, [Next]_vars PROVE SnapshotInv'
  OBVIOUS
<1> USE DEF TypeOK, SnapshotInv, File, Meta, Absent, NoFiles, vars, wvars, avars
<1>1. ASSUME NEW f \in File, RemoveFile(f) PROVE SnapshotInv'
  BY <1>1 DEF RemoveFile
<1>2. CASE Rename         BY <1>2 DEF Rename
<1>3. CASE ApiStart       BY <1>3 DEF ApiStart, BeginLoad
<1>4. CASE Reload         BY <1>4 DEF Reload, BeginLoad
<1>5. CASE FileExists     BY <1>5 DEF FileExists
<1>6. CASE FileMissing    BY <1>6 DEF FileMissing, Advance, LoadInv
<1>7. CASE ReadFile       BY <1>7 DEF ReadFile, Advance, LoadInv
<1>8. CASE OpenFails      BY <1>8 DEF OpenFails
<1>9. CASE StatMeta       BY <1>9 DEF StatMeta
<1>10. CASE Assign        BY <1>10 DEF Assign
<1>11. CASE ApiCrash      BY <1>11 DEF ApiCrash
<1>12. CASE UNCHANGED <<avars, disk, undisturbed>>
  BY <1>12
<1>13. QED
  BY <1>1, <1>2, <1>3, <1>4, <1>5, <1>6, <1>7, <1>8, <1>9, <1>10, <1>11, <1>12
     DEF Next, Worker, Api, StartBuild, WriteFile, BuildFails, StartSwap,
         RemoveDir, WorkerCrash, WorkerStart, KeepIndex

\* A load begins when the last build is newer than what is served, or in a process
\* that serves nothing yet.
LEMMA NextForwardInv ==
  TypeOK /\ DiskInv /\ LoadInv /\ ForwardInv /\ [Next]_vars => ForwardInv'
<1> SUFFICES ASSUME TypeOK, DiskInv, LoadInv, ForwardInv, [Next]_vars
             PROVE  ForwardInv'
  OBVIOUS
<1> USE BoundsAssumption
    DEF TypeOK, ForwardInv, Loading, File, Meta, Absent, Version, NoFiles,
        vars, wvars, avars
<1>1. CASE Rename         BY <1>1 DEF Rename
<1>2. CASE ApiStart       BY <1>2 DEF ApiStart, BeginLoad
<1>3. CASE Reload         BY <1>3 DEF Reload, BeginLoad, DiskInv, LoadInv
<1>4. CASE FileExists     BY <1>4 DEF FileExists
<1>5. CASE FileMissing    BY <1>5 DEF FileMissing, Advance, LoadInv
<1>6. CASE ReadFile
  <2>1. loaded' = [loaded EXCEPT ![pos] = built]
    BY <1>6 DEF ReadFile, DiskInv
  <2>2. apc' # "assign" /\ apc' # "down" /\ served' = served /\ starting' = starting
        /\ servedMtime' = servedMtime /\ built' = built
    BY <1>6 DEF ReadFile, Advance
  <2>3. QED
    BY <1>6, <2>1, <2>2 DEF ReadFile, LoadInv
<1>7. CASE OpenFails      BY <1>7 DEF OpenFails
<1>8. CASE StatMeta       BY <1>8 DEF StatMeta, DiskInv
<1>9. CASE Assign         BY <1>9 DEF Assign
<1>10. CASE ApiCrash      BY <1>10 DEF ApiCrash
<1>11. CASE UNCHANGED <<avars, built>>
  BY <1>11
<1>12. QED
  BY <1>1, <1>2, <1>3, <1>4, <1>5, <1>6, <1>7, <1>8, <1>9, <1>10, <1>11
     DEF Next, Worker, Api, StartBuild, WriteFile, BuildFails, StartSwap, RemoveFile,
         RemoveDir, WorkerCrash, WorkerStart, KeepIndex

LEMMA NextIInv == IInv /\ [Next]_vars => IInv'
  BY NextTypeOK, NextDiskInv, NextLoadInv, NextSnapshotInv, NextForwardInv DEF IInv

\* The invariant that carries the properties below.
THEOREM Invariance == Spec => []IInv
<1>1. IInv /\ [Next]_vars => IInv'
  BY NextIInv
<1>2. QED
  BY InitIInv, <1>1, PTL DEF Spec

-----------------------------------------------------------------------------

\* The variables keep their types; pos never runs past the four files.
THEOREM TypeCorrect == Spec => []TypeOK
<1>1. IInv => TypeOK
  BY DEF IInv
<1>2. QED
  BY Invariance, <1>1, PTL

\* The directory holds one build at most, and a whole one outside the swap as long
\* as nothing has crashed: for any number of builds.
THEOREM DirectoryHoldsOneBuild == Spec => []DiskOneBuild
<1>1. IInv => DiskOneBuild
  <2> SUFFICES ASSUME IInv PROVE DiskOneBuild
    OBVIOUS
  <2> USE DEF IInv, TypeOK, DiskInv, File, Absent, Version
  <2>1. ASSUME faults = 0, built # 0, wpc \notin {"remove", "rename"}
        PROVE  Whole(disk)
    <3>1. disk = [f \in File |-> built]
      BY <2>1
    <3>2. built \in 1..MaxBuilds
      BY <2>1, BoundsAssumption
    <3>3. QED
      BY <3>1, <3>2 DEF Whole
  <2>2. QED
    BY <2>1 DEF DiskOneBuild
<1>2. QED
  BY Invariance, <1>1, PTL

\* Whatever the interleaving of the swap with a load, the parts come in the order
\* they were read and the recorded mtime is the newest of all.
THEOREM LoadsInOrder == Spec => []LoadOrder
<1>1. IInv => LoadOrder
  BY DEF IInv, LoadInv
<1>2. QED
  BY Invariance, <1>1, PTL

\* A load that no swap step disturbs is a snapshot of the directory.
THEOREM UndisturbedLoadIsSnapshot == Spec => []SnapshotLoad
<1>1. IInv => SnapshotLoad
  <2> SUFFICES ASSUME IInv, apc = "assign", undisturbed
               PROVE  loaded = disk /\ loadedMtime = disk[Meta]
    BY DEF SnapshotLoad
  <2>1. \A f \in File : loaded[f] = disk[f]
    BY DEF IInv, SnapshotInv
  <2>2. loaded \in [File -> Version] /\ disk \in [File -> Version]
    BY DEF IInv, TypeOK
  <2>3. QED
    BY <2>1, <2>2 DEF IInv, SnapshotInv
<1>2. QED
  BY Invariance, <1>1, PTL

\* A reload never goes back: not in the mtime and not in any part.
THEOREM ReloadsMoveForward == Spec => ForwardOnly
<1> DEFINE Forward ==
      Assign => /\ servedMtime' = Absent \/ servedMtime' > servedMtime
                /\ \A f \in File : served'[f] # Absent => served[f] <= served'[f]
<1>1. IInv => Forward
  BY DEF IInv, TypeOK, ForwardInv, Loading, Assign, Version, Absent
<1>2. IInv /\ [Next]_vars => [Forward]_vars
  BY <1>1
<1>3. QED
  BY Invariance, <1>2, PTL DEF Spec, ForwardOnly

-----------------------------------------------------------------------------

\* The loads keep the promise of Cache: each step of the two processes is one of
\* Publish (Rename), Take (Assign) and Forget (ApiCrash), or none of them.
THEOREM KeepsPromise == Spec => Promise!Safety
<1>1. Init => Promise!Init
  BY DEF Init, Promise!Init, Promise!Unknown, NoFiles, Absent, File
<1>2. IInv /\ [Next]_vars => [Promise!Next]_(Promise!vars)
  <2> SUFFICES ASSUME IInv, [Next]_vars
               PROVE  Promise!Next \/ UNCHANGED Promise!vars
    OBVIOUS
  <2> USE DEF Promise!Next, Promise!vars, Promise!Unknown
  <2>1. CASE Rename
    <3>1. built < MaxBuilds /\ built' = built + 1
      BY <2>1 DEF Rename, IInv, DiskInv
    <3>2. UNCHANGED <<servedMtime, served>>
      BY <2>1 DEF Rename, avars
    <3>3. Promise!Publish
      BY <3>1, <3>2 DEF Promise!Publish
    <3>4. QED
      BY <3>3
  <2>2. CASE Assign
    <3>1. /\ servedMtime' = loadedMtime /\ served' = loaded /\ built' = built
          /\ loadedMtime \in 0..built
      BY <2>2 DEF Assign, wvars, IInv, TypeOK, LoadInv, Version
    <3>2. \A f, g \in File : loaded[f] # Absent => served[g] <= loaded[f]
      BY <2>2 DEF Assign, Loading, IInv, ForwardInv
    <3>3. \A f \in File : loaded[f] # Absent =>
             loaded[f] \in 1..(IF loadedMtime = Absent THEN built ELSE loadedMtime)
      BY DEF IInv, TypeOK, LoadInv, LoadOrder, InOrder, Absent, Version
    <3>4. loadedMtime # Absent => loadedMtime > servedMtime
      BY <2>2 DEF Assign, IInv, TypeOK, ForwardInv, Version
    <3>5. PICK v \in 0..built : v = loadedMtime
      BY <3>1
    <3>6. Promise!Take(v)
      BY <3>1, <3>2, <3>3, <3>4, <3>5 DEF Promise!Take, Absent
    <3>7. QED
      BY <3>6
  <2>3. CASE ApiCrash
    <3>1. served' = NoFiles /\ servedMtime' = Absent /\ built' = built
      BY <2>3 DEF ApiCrash, wvars
    <3>2. Promise!Forget
      BY <3>1 DEF Promise!Forget, NoFiles, Absent
    <3>3. QED
      BY <3>2
  <2>4. CASE UNCHANGED <<built, servedMtime, served>>
    BY <2>4
  <2>5. QED
    BY <2>1, <2>2, <2>3, <2>4
       DEF Next, Worker, Api, StartBuild, WriteFile, BuildFails, StartSwap, RemoveFile,
           RemoveDir, WorkerCrash, WorkerStart, KeepIndex, ApiStart, Reload, BeginLoad,
           FileExists, FileMissing, ReadFile, OpenFails, StatMeta, vars, wvars, avars
<1>3. QED
  BY Invariance, <1>1, <1>2, PTL DEF Spec, Promise!Safety

-----------------------------------------------------------------------------
(***************************************************************************)
(* /ready is right for every number of builds and faults, every MaxAge and *)
(* every Gap.  That the answer is current needs to know what the load the  *)
(* request waits for is going to remember.  That the alarm is not false    *)
(* needs to know where the ages come from: no interval passes while a load *)
(* is under way, so what it keeps was at most one gap old, and the next    *)
(* build is loaded before the one after another gap.                       *)
(***************************************************************************)

\* The load and the request.
ReadyInv ==
    /\ rpc \in {"idle", "loading", "schema"}
    /\ asked \in Version /\ asked <= built
    /\ rpc # "idle" /\ apc = "assign" => loadedMtime = Absent \/ asked <= loadedMtime
    /\ rpc = "loading" => Loading
    /\ rpc = "schema" => servedMtime = Absent \/ asked <= servedMtime

\* A build is within a gap while it is the last one, or not published yet.
WorkerOnTime ==
    /\ tmp[Meta] # Absent => age[tmp[Meta]] <= Gap
    /\ built # 0 => age[built] <= Gap

\* What is being loaded is within a gap, and what is served was within one when the last
\* build was new.
IndexOnTime ==
    /\ Loading /\ loaded[Meta] # Absent => age[loaded[Meta]] <= Gap
    /\ served[Meta] # Absent =>
         /\ age[served[Meta]] <= 2 * Gap
         /\ servedMtime = built => age[served[Meta]] <= Gap + age[built]

\* The ages, as long as nobody was late.
AgeInv ==
    /\ age \in [1..MaxBuilds -> 0..(MaxAge + 1)]
    /\ late \in BOOLEAN
    /\ answer.stale \in BOOLEAN
    /\ ~late => WorkerOnTime /\ IndexOnTime /\ ~answer.stale

RInv == IInv /\ ReadyInv /\ AgeInv

-----------------------------------------------------------------------------

\* Whatever the request does, the worker and the loads take steps of IndexPublish.
LEMMA StepsOfIndexPublish == [RNext]_all => [Next]_vars
<1> SUFFICES ASSUME [RNext]_all PROVE Next \/ UNCHANGED vars
  OBVIOUS
<1>1. CASE Clock          BY <1>1 DEF Clock
<1>2. CASE WriteBuiltAt
  BY <1>2, Meta \in File DEF WriteBuiltAt, Next, Worker, File, Meta
<1>3. CASE WorkerStep /\ ~WriteBuiltAt
  BY <1>3 DEF WorkerStep, Next, Worker
<1>4. CASE Ask            BY <1>4 DEF Ask, Next, Api
<1>5. CASE Load           BY <1>5 DEF Load, Next, Api
<1>6. CASE LoadRaises     BY <1>6 DEF LoadRaises, Next, Api
<1>7. CASE Answer         BY <1>7 DEF Answer
<1>8. CASE Crash          BY <1>8 DEF Crash, Next
<1>9. CASE UNCHANGED all  BY <1>9 DEF all
<1>10. QED
  BY <1>1, <1>2, <1>3, <1>4, <1>5, <1>6, <1>7, <1>8, <1>9 DEF RNext

\* Nothing is asked, loaded or aged in the beginning.
LEMMA InitRInv == RInit => RInv
<1> SUFFICES ASSUME RInit PROVE RInv
  OBVIOUS
<1>1. IInv
  BY InitIInv DEF RInit
<1>2. ReadyInv
  BY BoundsAssumption DEF RInit, Init, ReadyInv, Absent, Version, Loading
<1>3. age \in [1..MaxBuilds -> 0..(MaxAge + 1)]
  BY ReadinessAssumption DEF RInit, ReadinessAssumption
<1>4. answer.stale = FALSE /\ late = FALSE
  BY DEF RInit, NoAnswer
<1>5. built = 0 /\ tmp[Meta] = Absent /\ loaded[Meta] = Absent /\ served[Meta] = Absent
  BY DEF RInit, Init, NoFiles, File, Meta
<1>6. AgeInv
  BY <1>3, <1>4, <1>5 DEF AgeInv, WorkerOnTime, IndexOnTime
<1>7. QED
  BY <1>1, <1>2, <1>6 DEF RInv

\* The number of builds only grows.
LEMMA BuildsGrow == IInv /\ [Next]_vars => built' \in Version /\ built <= built'
<1> SUFFICES ASSUME IInv, [Next]_vars PROVE built' \in Version /\ built <= built'
  OBVIOUS
<1>1. built \in Version /\ built' \in Version
  BY NextIInv DEF IInv, TypeOK
<1>2. built' = built \/ built' = built + 1
  BY DEF Next, Worker, Api, StartBuild, WriteFile, BuildFails, StartSwap, RemoveFile,
         RemoveDir, Rename, WorkerCrash, WorkerStart, KeepIndex, ApiStart, Reload, BeginLoad,
         FileExists, FileMissing, ReadFile, OpenFails, StatMeta, Assign, ApiCrash, vars, wvars
<1>3. QED
  BY <1>1, <1>2, BoundsAssumption DEF Version

\* The load that follows a request remembers the last build, or none at all.
LEMMA NextReadyInv == IInv /\ ReadyInv /\ [RNext]_all => ReadyInv'
<1> SUFFICES ASSUME IInv, ReadyInv, [RNext]_all PROVE ReadyInv'
  OBVIOUS
<1> USE BoundsAssumption
    DEF IInv, TypeOK, ReadyInv, Loading, Absent, Version, File, Meta, wvars, avars, vars, rvars
<1>0. built' \in Version /\ built <= built'
  BY StepsOfIndexPublish, BuildsGrow
<1>1. CASE Clock          BY <1>1 DEF Clock
<1>2. CASE WorkerStep
  <2>1. UNCHANGED <<avars, rpc, asked>>
    BY <1>2 DEF WorkerStep, WriteBuiltAt, StartBuild, WriteFile, BuildFails, StartSwap,
                RemoveFile, RemoveDir, Rename, WorkerCrash, WorkerStart
  <2>2. QED
    BY <1>0, <2>1
<1>3. CASE Ask            BY <1>3 DEF Ask, Reload, BeginLoad, KeepIndex, DiskInv
<1>4. CASE Load
  <2>1. CASE Assign       BY <1>4, <2>1 DEF Load, Assign, ApiStart, Reload, FileExists,
                             FileMissing, ReadFile, StatMeta
  <2>2. CASE StatMeta /\ UNCHANGED rvars
    BY <2>2 DEF StatMeta, DiskInv
  <2>3. CASE (ApiStart \/ Reload) /\ UNCHANGED rvars
    BY <2>3 DEF ApiStart, Reload, BeginLoad
  <2>4. CASE FileExists /\ UNCHANGED rvars
    BY <2>4 DEF FileExists
  <2>5. CASE FileMissing /\ UNCHANGED rvars
    BY <2>5 DEF FileMissing, Advance, LoadInv
  <2>6. CASE ReadFile /\ UNCHANGED rvars
    BY <2>6 DEF ReadFile, Advance
  <2>7. QED
    BY <1>4, <2>1, <2>2, <2>3, <2>4, <2>5, <2>6 DEF Load
<1>5. CASE LoadRaises     BY <1>5 DEF LoadRaises, OpenFails
<1>6. CASE Answer         BY <1>6 DEF Answer
<1>7. CASE Crash          BY <1>7 DEF Crash, ApiCrash
<1>8. CASE UNCHANGED all  BY <1>8 DEF all
<1>9. QED
  BY <1>1, <1>2, <1>3, <1>4, <1>5, <1>6, <1>7, <1>8 DEF RNext

\* An answer is stale or not.
LEMMA AnswerIsBoolean == Stale \in BOOLEAN
  BY DEF Stale

\* An interval makes a build older by one or, when it is too old or not there, by nothing.
LEMMA ClockAges ==
  ASSUME AgeInv, Clock
  PROVE  /\ age' \in [1..MaxBuilds -> 0..(MaxAge + 1)]
         /\ \A b \in 1..MaxBuilds :
               /\ age'[b] \in {age[b], age[b] + 1}
               /\ b <= built /\ age[b] <= MaxAge => age'[b] = age[b] + 1
<1> USE ReadinessAssumption DEF ReadinessAssumption
<1> DEFINE Aged(b) == IF (b <= built \/ tmp[Meta] = b) /\ age[b] <= MaxAge
                      THEN age[b] + 1 ELSE age[b]
<1>1. age \in [1..MaxBuilds -> 0..(MaxAge + 1)]
  BY DEF AgeInv
<1>2. age' = [b \in 1..MaxBuilds |-> Aged(b)]
  BY <1>1 DEF Clock
<1>3. ASSUME NEW b \in 1..MaxBuilds
      PROVE  /\ Aged(b) \in 0..(MaxAge + 1)
             /\ Aged(b) \in {age[b], age[b] + 1}
             /\ b <= built /\ age[b] <= MaxAge => Aged(b) = age[b] + 1
  BY <1>1
<1> HIDE DEF Aged
<1>4. QED
  BY <1>2, <1>3

\* An interval passes only when no load is under way, and then the last build is loaded.
LEMMA ClockAgeInv == RInv /\ Clock => AgeInv'
<1> SUFFICES ASSUME RInv, Clock PROVE AgeInv'
  OBVIOUS
<1> USE BoundsAssumption, ReadinessAssumption DEF ReadinessAssumption, Absent, Version, File, Meta
<1>1. UNCHANGED <<built, tmp, apc, loaded, served, servedMtime, answer>>
  BY DEF Clock, vars, wvars, avars
<1>2. age' \in [1..MaxBuilds -> 0..(MaxAge + 1)]
  BY ClockAges DEF RInv
<1>3. late' \in BOOLEAN /\ answer.stale \in BOOLEAN
  BY <1>1, Zenon DEF Clock, RInv, AgeInv
<1>4. ASSUME ~late' PROVE WorkerOnTime' /\ IndexOnTime' /\ ~answer'.stale
  <2>1. ~late /\ (apc = "idle" => servedMtime = built) /\ apc \in {"down", "idle"}
    BY <1>4, Zenon DEF Clock
  <2>2. \A b \in {built, tmp[Meta]} \ {Absent} : age'[b] <= Gap
    <3> SUFFICES ASSUME NEW b \in {built, tmp[Meta]} \ {Absent} PROVE age'[b] <= Gap
      OBVIOUS
    <3>1. ~(age'[b] > Gap)
      BY <1>4, Zenon DEF Clock
    <3>2. b \in 1..MaxBuilds
      BY DEF RInv, IInv, TypeOK
    <3>3. QED
      BY <1>2, <3>1, <3>2
  <2>3. WorkerOnTime'
    BY <1>1, <2>2 DEF WorkerOnTime
  <2>4. served[Meta] # Absent => servedMtime = built /\ built # 0 /\ served[Meta] \in 1..built
    BY <2>1 DEF RInv, IInv, TypeOK, ForwardInv, LoadInv
  <2>5. ASSUME served[Meta] # Absent
        PROVE  /\ age'[served[Meta]] <= 2 * Gap
               /\ servedMtime = built => age'[served[Meta]] <= Gap + age'[built]
    <3>1. built \in 1..MaxBuilds /\ served[Meta] \in 1..MaxBuilds /\ servedMtime = built
      BY <2>4, <2>5 DEF RInv, IInv, TypeOK
    <3>2. /\ age[built] \in Nat /\ age[built] <= Gap /\ age[served[Meta]] \in Nat
          /\ age[served[Meta]] <= Gap + age[built]
      BY <2>1, <2>5, <3>1 DEF RInv, AgeInv, WorkerOnTime, IndexOnTime
    <3>3. age'[built] <= Gap
      BY <2>2, <3>1
    <3>4. age'[built] = age[built] + 1
      BY <3>1, <3>2, ClockAges DEF RInv
    <3>5. age'[served[Meta]] \in {age[served[Meta]], age[served[Meta]] + 1}
      BY <3>1, ClockAges DEF RInv
    <3>6. QED
      BY <3>2, <3>3, <3>4, <3>5
  <2>6. IndexOnTime'
    BY <1>1, <2>1, <2>5 DEF IndexOnTime, Loading
  <2>7. ~answer'.stale
    BY <1>1, <2>1 DEF RInv, AgeInv
  <2>8. QED
    BY <2>3, <2>6, <2>7
<1>5. QED
  BY <1>1, <1>2, <1>3, <1>4 DEF AgeInv

\* What is loaded and served are builds, and every build has an age.
LEMMA Ranges ==
  RInv => /\ built \in 0..MaxBuilds
          /\ loaded[Meta] \in 0..built /\ served[Meta] \in 0..built /\ servedMtime \in 0..built
          /\ \A b \in 1..MaxBuilds : age[b] \in Nat
<1> SUFFICES ASSUME RInv
             PROVE  /\ built \in 0..MaxBuilds
                    /\ loaded[Meta] \in 0..built /\ served[Meta] \in 0..built
                    /\ servedMtime \in 0..built
                    /\ \A b \in 1..MaxBuilds : age[b] \in Nat
  OBVIOUS
<1>1. \A b \in 1..MaxBuilds : age[b] \in Nat
  BY DEF RInv, AgeInv
<1>2. QED
  BY <1>1, BoundsAssumption DEF RInv, IInv, TypeOK, LoadInv, Version, File, Meta

\* The worker keeps to its files and numbers.
LEMMA WorkerAgeInv == RInv /\ WorkerStep => AgeInv'
<1> SUFFICES ASSUME RInv, WorkerStep PROVE AgeInv'
  OBVIOUS
<1> USE BoundsAssumption, ReadinessAssumption
    DEF ReadinessAssumption, RInv, IInv, TypeOK, Absent, Version, File, Meta, NoFiles
<1>1. /\ UNCHANGED <<late, answer, apc, loaded, served, servedMtime>>
      /\ late \in BOOLEAN /\ answer.stale \in BOOLEAN
  BY DEF AgeInv, WorkerStep, WriteBuiltAt, StartBuild, WriteFile, BuildFails, StartSwap, RemoveFile,
         RemoveDir, Rename, WorkerCrash, WorkerStart, avars, rvars
<1>2. served[Meta] <= built /\ loaded[Meta] <= built /\ servedMtime <= built
  BY DEF LoadInv
<1>3. CASE WriteBuiltAt
  <2>1. /\ built' = built /\ tmp'[Meta] = built + 1 /\ built + 1 \in 1..MaxBuilds
        /\ age' = [age EXCEPT ![built + 1] = 0]
    BY <1>3 DEF WriteBuiltAt, WriteFile, DiskInv
  <2>2. /\ age' \in [1..MaxBuilds -> 0..(MaxAge + 1)]
        /\ age'[built + 1] = 0
        /\ \A b \in 1..built : age'[b] = age[b]
    <3>1. age \in [1..MaxBuilds -> 0..(MaxAge + 1)]
      BY DEF AgeInv
    <3>2. built \in Nat /\ 0 \in 0..(MaxAge + 1)
      OBVIOUS
    <3> HIDE DEF IInv, TypeOK, RInv
    <3>3. QED
      BY <2>1, <3>1, <3>2
  <2>3. ~late => WorkerOnTime'
    <3> HIDE DEF IInv, TypeOK, RInv
    <3>1. QED
      BY <2>1, <2>2, Ranges DEF RInv, AgeInv, WorkerOnTime
  <2>4. ~late => IndexOnTime'
    <3> HIDE DEF IInv, TypeOK, RInv
    <3>1. ~late => IndexOnTime
      BY DEF RInv, AgeInv
    <3>2. /\ UNCHANGED <<loaded, served, servedMtime, built>> /\ Loading' = Loading
          /\ \A b \in 1..built : age'[b] = age[b]
      BY <1>1, <2>1, <2>2 DEF Loading
    <3>3. /\ loaded[Meta] # Absent => loaded[Meta] \in 1..built
          /\ served[Meta] # Absent => served[Meta] \in 1..built /\ built \in 1..built
      BY Ranges
    <3>4. /\ loaded[Meta] # Absent => age'[loaded[Meta]] = age[loaded[Meta]]
          /\ served[Meta] # Absent => /\ age'[served[Meta]] = age[served[Meta]]
                                     /\ age'[built] = age[built]
      BY <3>2, <3>3
    <3> HIDE DEF ReadinessAssumption, Absent, Meta
    <3>5. QED
      BY <3>1, <3>2, <3>4 DEF IndexOnTime
  <2>5. QED
    BY <1>1, <2>2, <2>3, <2>4 DEF AgeInv
<1>4. CASE Rename /\ UNCHANGED rvars
  <2>1. built' = built + 1 /\ tmp[Meta] = built + 1 /\ tmp'[Meta] = Absent /\ age' = age
    BY <1>4 DEF Rename, DiskInv, rvars
  <2>2. ~late => WorkerOnTime' /\ IndexOnTime'
    BY <1>1, <1>2, <2>1 DEF AgeInv, WorkerOnTime, IndexOnTime, Loading
  <2>3. QED
    BY <1>1, <2>1, <2>2 DEF AgeInv
<1>5. ASSUME built' = built, tmp'[Meta] \in {Absent, tmp[Meta]}, age' = age PROVE AgeInv'
  <2>1. ~late => WorkerOnTime' /\ IndexOnTime'
    BY <1>1, <1>5 DEF AgeInv, WorkerOnTime, IndexOnTime, Loading
  <2>2. QED
    BY <1>1, <1>5, <2>1 DEF AgeInv
<1>6. ASSUME NEW f \in File, f # Meta, WriteFile(f) PROVE built' = built /\ tmp'[Meta] = tmp[Meta]
  BY <1>6 DEF WriteFile
<1>7. QED
  BY <1>3, <1>4, <1>5, <1>6
     DEF WorkerStep, StartBuild, BuildFails, StartSwap, RemoveFile, RemoveDir,
         WorkerCrash, WorkerStart, wvars, rvars

\* A load takes over what is within a gap, and an answer looks at nothing older than two.
LEMMA LoadAgeInv == RInv /\ (Ask \/ Load \/ LoadRaises \/ Answer \/ Crash) => AgeInv'
<1> SUFFICES ASSUME RInv, Ask \/ Load \/ LoadRaises \/ Answer \/ Crash PROVE AgeInv'
  OBVIOUS
<1> USE BoundsAssumption, ReadinessAssumption
    DEF ReadinessAssumption, RInv, IInv, TypeOK, Absent, Version, File, Meta, NoFiles
<1>1. UNCHANGED <<built, tmp, age, late>> /\ WorkerOnTime' = WorkerOnTime
  BY DEF Ask, Load, LoadRaises, Answer, Crash, ApiStart, Reload, KeepIndex, FileExists, FileMissing,
         ReadFile, OpenFails, StatMeta, Assign, ApiCrash, vars, wvars, rvars, WorkerOnTime
<1>2. ASSUME answer'.stale \in BOOLEAN, ~late => IndexOnTime' /\ ~answer'.stale PROVE AgeInv'
  BY <1>1, <1>2 DEF AgeInv
<1>3. served[Meta] <= built /\ loaded[Meta] <= built
  BY DEF LoadInv
<1>4. CASE Assign /\ UNCHANGED answer
  <2>1. served' = loaded /\ servedMtime' = loadedMtime /\ ~Loading' /\ Loading
    BY <1>4 DEF Assign, Loading
  <2>2. ~late => IndexOnTime'
    <3> HIDE DEF IInv, TypeOK, RInv
    <3>1. QED
      BY <1>1, <2>1, Ranges DEF RInv, AgeInv, IndexOnTime
  <2>3. QED
    BY <1>2, <1>4, <2>2 DEF AgeInv
<1>5. CASE ReadFile /\ UNCHANGED answer
  <2>1. /\ loaded' = [loaded EXCEPT ![pos] = built] /\ built # 0
        /\ served' = served /\ servedMtime' = servedMtime /\ Loading
    BY <1>5 DEF ReadFile, DiskInv, Loading
  <2>2. ~late => IndexOnTime'
    <3>1. Loading' => loaded'[Meta] = built \/ loaded'[Meta] = loaded[Meta]
      BY <2>1
    <3> HIDE DEF IInv, TypeOK, RInv
    <3>2. QED
      BY <1>1, <2>1, <3>1 DEF RInv, AgeInv, IndexOnTime, WorkerOnTime
  <2>3. QED
    BY <1>2, <1>5, <2>2 DEF AgeInv
<1>6. ASSUME UNCHANGED <<served, servedMtime>>,
             loaded'[Meta] = Absent \/ ~Loading' \/ (UNCHANGED loaded /\ Loading)
      PROVE  ~late => IndexOnTime'
  BY <1>1, <1>6 DEF AgeInv, IndexOnTime
<1>7. CASE (ApiStart \/ Reload \/ KeepIndex) /\ UNCHANGED answer
  <2>1. UNCHANGED <<served, servedMtime>> /\ (loaded'[Meta] = Absent \/ ~Loading')
    BY <1>7 DEF ApiStart, Reload, BeginLoad, KeepIndex, Loading, vars, avars
  <2>2. QED
    BY <1>2, <1>6, <1>7, <2>1 DEF AgeInv
<1>8. CASE (FileExists \/ FileMissing \/ StatMeta) /\ UNCHANGED answer
  BY <1>2, <1>6, <1>8 DEF FileExists, FileMissing, StatMeta, AgeInv, Loading
<1>9. CASE LoadRaises
  <2>1. UNCHANGED <<served, servedMtime>> /\ ~Loading'
    BY <1>9 DEF LoadRaises, OpenFails, Loading
  <2>2. answer'.stale = FALSE \/ answer' = answer
    BY <1>9 DEF LoadRaises, NoAnswer
  <2>3. QED
    BY <1>2, <1>6, <2>1, <2>2 DEF AgeInv
<1>10. CASE Answer
  <2>1. UNCHANGED <<served, servedMtime, loaded, apc>>
    BY <1>10 DEF Answer, vars, avars
  <2>2. answer'.stale = Stale
    BY <1>10 DEF Answer
  <2>3. ~late => ~Stale
    <3> HIDE DEF IInv, TypeOK, RInv
    <3>1. QED
      BY Ranges DEF RInv, AgeInv, IndexOnTime, Stale
  <2>4. ~late => IndexOnTime'
    BY <1>1, <2>1 DEF AgeInv, IndexOnTime, Loading
  <2>5. QED
    BY <1>2, <2>2, <2>3, <2>4, AnswerIsBoolean
<1>11. CASE Crash
  <2>1. served'[Meta] = Absent /\ ~Loading'
    BY <1>11 DEF Crash, ApiCrash, Loading
  <2>2. answer'.stale = FALSE
    BY <1>11 DEF Crash, NoAnswer
  <2>3. QED
    BY <1>2, <2>1, <2>2 DEF IndexOnTime
<1>12. QED
  BY <1>4, <1>5, <1>7, <1>8, <1>9, <1>10, <1>11 DEF Ask, Load, rvars

\* Every step keeps all of it.
LEMMA NextRInv == RInv /\ [RNext]_all => RInv'
<1> SUFFICES ASSUME RInv, [RNext]_all PROVE RInv'
  OBVIOUS
<1>1. IInv'
  BY StepsOfIndexPublish, NextIInv DEF RInv
<1>2. ReadyInv'
  BY NextReadyInv DEF RInv
<1>3. CASE UNCHANGED all
  <2>1. UNCHANGED <<age, late, answer, built, tmp, apc, loaded, served, servedMtime>>
    BY <1>3 DEF all, vars, wvars, avars, rvars
  <2>2. WorkerOnTime' <=> WorkerOnTime
    BY <2>1 DEF WorkerOnTime
  <2>3. served'[Meta] = served[Meta] /\ loaded'[Meta] = loaded[Meta] /\ (Loading' <=> Loading)
    BY <2>1 DEF Loading
  <2>4. IndexOnTime' <=> IndexOnTime
    BY <2>1, <2>3 DEF IndexOnTime
  <2>5. QED
    BY <1>1, <1>2, <2>1, <2>2, <2>4 DEF RInv, AgeInv
<1>4. AgeInv'
  BY <1>3, ClockAgeInv, WorkerAgeInv, LoadAgeInv DEF RNext, RInv
<1>5. QED
  BY <1>1, <1>2, <1>4 DEF RInv

\* The invariant of /ready, for any number of builds and faults, any MaxAge and Gap.
THEOREM ReadinessInvariance == RSpec => []RInv
  BY InitRInv, NextRInv, PTL DEF RSpec

-----------------------------------------------------------------------------

\* The answer of /ready is about an index that is at least as new as the one published
\* when the request came, unless there was no meta.json to load.
THEOREM AnswersAreCurrent == RSpec => ReadyIsCurrent
<1>1. RInv => (Answer => servedMtime = Absent \/ asked <= servedMtime)
  BY DEF RInv, ReadyInv, Answer
<1>2. QED
  BY ReadinessInvariance, <1>1, PTL DEF ReadyIsCurrent, RSpec

\* The index is not called stale while the worker is on time and requests come.
THEOREM AlarmsAreTrue == RSpec => []NoFalseAlarm
<1>1. RInv => NoFalseAlarm
  BY DEF RInv, AgeInv, NoFalseAlarm
<1>2. QED
  BY ReadinessInvariance, <1>1, PTL
=============================================================================
