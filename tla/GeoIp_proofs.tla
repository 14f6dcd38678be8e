--------------------------- MODULE GeoIp_proofs ---------------------------
(***************************************************************************)
(* The reader of the GeoIP database is never taken for current when it is  *)
(* not.  The numbers under the path do not grow: a download that was       *)
(* written before update-geoip.sh ran may be renamed after it.  What makes *)
(* the mtime a good witness all the same is that a number that has left    *)
(* the path never comes back to it.                                        *)
(***************************************************************************)
EXTENDS GeoIp, TLAPS

\* It was under the path of the database, and will not be there again.
Past(n) == n \in 1..downloads /\ n # file /\ n # tmp

Bounds ==
    /\ file \in 0..downloads
    /\ tmp \in -1..downloads
    /\ tmp \in Download => tmp # file
    /\ wpc = "rename" => tmp \in Download

StatSeen == rpc = "open" => file # None /\ (stat = file \/ Past(stat))

ReaderSeen == reader # None => mtime = reader \/ Past(mtime)

IInv == TypeOK /\ Bounds /\ StatSeen /\ ReaderSeen

-----------------------------------------------------------------------------

\* The start: no file and no reader.
LEMMA Initially == Init => IInv
<1> SUFFICES ASSUME Init PROVE IInv
    OBVIOUS
<1> USE GeoIpAssumption DEF GeoIpAssumption, Init, None, Torn, Download
<1>1. TypeOK
  <2>1. fresh \in BOOLEAN
    OBVIOUS
  <2>2. QED
    BY <2>1 DEF TypeOK
<1>2. Bounds
    BY DEF Bounds
<1>3. StatSeen /\ ReaderSeen
    BY DEF StatSeen, ReaderSeen
<1>4. QED
    BY <1>1, <1>2, <1>3 DEF IInv

\* Each step of the writers and of the reader keeps the invariant.
LEMMA StepKeeps == IInv /\ [Next]_vars => IInv'
<1> SUFFICES ASSUME IInv, [Next]_vars PROVE IInv'
    OBVIOUS
<1> USE GeoIpAssumption DEF GeoIpAssumption, IInv, TypeOK, Bounds, StatSeen, ReaderSeen, Past,
        None, Torn, Download, wvars, rvars
<1>1. CASE StartDownload
    BY <1>1 DEF StartDownload
<1>2. CASE WriteTmp
    BY <1>2 DEF WriteTmp
<1>3. CASE WriteFails \/ WorkerCrash
    BY <1>3 DEF WriteFails, WorkerCrash, Fault
<1>4. CASE Expire
  <2>1. fresh' \in BOOLEAN
    BY <1>4, Zenon DEF Expire
  <2>2. QED
    BY <1>4, <2>1 DEF Expire
<1>5. CASE Rename
    BY <1>5 DEF Rename
<1>6. CASE ManualUpdate
    BY <1>6 DEF ManualUpdate
<1>7. CASE Stat
    BY <1>7 DEF Stat, Changed
<1>8. CASE Open
    BY <1>8 DEF Open, IsDatabase
<1>9. CASE OpenFails \/ ReaderCrash
    BY <1>9 DEF OpenFails, ReaderCrash, Fault
<1>10. CASE StatFails \/ Reuse \/ UNCHANGED vars
    BY <1>10 DEF StatFails, Reuse, vars
<1>11. QED
    BY <1>1, <1>2, <1>3, <1>4, <1>5, <1>6, <1>7, <1>8, <1>9, <1>10 DEF Next, Worker, Reader

\* The inductive invariant holds in every behaviour, with any number of downloads,
\* bad ones among them, and of faults.
THEOREM Invariance == Spec => []IInv
<1>1. Init => IInv
    BY Initially
<1>2. IInv /\ [Next]_vars => IInv'
    BY StepKeeps
<1>3. QED
    BY <1>1, <1>2, PTL DEF Spec

\* Type correctness; in particular no half-written file is ever under the path, since
\* write_bytes goes to the temporary file and only a whole one is renamed.
THEOREM TypeCorrect == Spec => []TypeOK
BY Invariance, PTL DEF IInv

\* A reader under the mtime of the file reads that file (_get_reader, lines 34-48):
\* a file replaced between getmtime and open_database only makes the next lookup open
\* it again.
THEOREM CurrentIfItLooksSo == Spec => []LooksCurrentIsCurrent
<1>1. IInv => LooksCurrentIsCurrent
    BY DEF IInv, ReaderSeen, Past, LooksCurrentIsCurrent
<1>2. QED
    BY <1>1, Invariance, PTL
=============================================================================
