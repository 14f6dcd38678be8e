------------------------------- MODULE GeoIp -------------------------------
(***************************************************************************)
(* The GeoIP database of engine/app/services/enrichment.py: the worker     *)
(* (ensure_geoip_fresh) and, by hand or by cron, update-geoip.sh replace   *)
(* the file; the enricher of the API (_get_reader) keeps a reader open and *)
(* opens the file again when its mtime has changed.                        *)
(*                                                                         *)
(* The order of the steps is the other way round than in IndexPublish: a   *)
(* download is renamed over the file that is there, and the reader asks    *)
(* for the mtime before it opens the file.                                 *)
(*                                                                         *)
(* A download is known by its number, which is also worth its mtime.  What *)
(* the reader has mapped it keeps when the file is replaced.               *)
(***************************************************************************)
EXTENDS Integers

CONSTANTS
    Bad,            \* the downloads that are no database, an error page say
    MaxDownloads,   \* bound: how many downloads there are
    MaxFaults       \* bound: how many crashes and failed writes there are

ASSUME GeoIpAssumption ==
    /\ MaxDownloads \in Nat
    /\ MaxFaults \in Nat
    /\ Bad \subseteq 1..MaxDownloads

None     == 0      \* no file, no reader, no mtime
Torn     == -1     \* a file that is not written to its end
Download == 1..MaxDownloads

VARIABLES
    downloads,   \* how many there were
    file,        \* the download under the path of the database
    fresh,       \* is it younger than geoip_max_age_seconds?
    tmp,         \* the file the worker writes
    wpc,         \* where the worker is
    rpc,         \* where _get_reader is
    stat,        \* the mtime it asked for
    reader,      \* the download the open reader reads
    mtime,       \* the mtime remembered with it
    faults

wvars == <<tmp, wpc>>
rvars == <<rpc, stat, reader, mtime>>
vars  == <<downloads, file, fresh, wvars, rvars, faults>>

Init ==
    /\ downloads = 0
    /\ file = None
    /\ fresh = FALSE
    /\ tmp = None
    /\ wpc = "tick"
    /\ rpc = "idle"
    /\ stat = None
    /\ reader = None
    /\ mtime = None
    /\ faults = 0

Fault == faults < MaxFaults /\ faults' = faults + 1

-----------------------------------------------------------------------------
(* The writers *)

\* The file is missing or too old, and the server answers: write_bytes opens the
\* temporary file.
StartDownload ==
    /\ wpc = "tick"
    /\ file = None \/ ~fresh
    /\ tmp' = Torn
    /\ wpc' = "write"
    /\ UNCHANGED <<downloads, file, fresh, rvars, faults>>

WriteTmp ==
    /\ wpc = "write"
    /\ downloads < MaxDownloads
    /\ downloads' = downloads + 1
    /\ tmp' = downloads + 1
    /\ wpc' = "rename"
    /\ UNCHANGED <<file, fresh, rvars, faults>>

\* Mutant: the worker renames what an earlier attempt left.
WriteFailsRenames ==
    /\ wpc = "write"
    /\ Fault
    /\ wpc' = "rename"
    /\ UNCHANGED <<downloads, file, fresh, tmp, rvars>>

\* A full disk: the exception is logged, and the next tick tries again.
WriteFails ==
    /\ wpc = "write"
    /\ Fault
    /\ wpc' = "tick"
    /\ UNCHANGED <<downloads, file, fresh, tmp, rvars>>

Rename ==
    /\ wpc = "rename"
    /\ file' = tmp
    /\ tmp' = None
    /\ fresh' = TRUE
    /\ wpc' = "tick"
    /\ UNCHANGED <<downloads, rvars, faults>>

\* The worker dies and starts again.
WorkerCrash ==
    /\ wpc # "tick"
    /\ Fault
    /\ wpc' = "tick"
    /\ UNCHANGED <<downloads, file, fresh, tmp, rvars>>

\* update-geoip.sh has a temporary file of its own.
ManualUpdate ==
    /\ downloads < MaxDownloads
    /\ downloads' = downloads + 1
    /\ file' = downloads + 1
    /\ fresh' = TRUE
    /\ UNCHANGED <<wvars, rvars, faults>>

\* Time passes.
Expire ==
    /\ fresh
    /\ fresh' = FALSE
    /\ UNCHANGED <<downloads, file, wvars, rvars, faults>>

-----------------------------------------------------------------------------
(* The reader *)

\* No file: nothing is looked up, and the reader stays as it is.
StatFails ==
    /\ rpc = "idle"
    /\ file = None
    /\ UNCHANGED vars

\* Mutant: what is open stays open.
NothingOpen == reader = None

\* Is the file not the one that is open?
Changed == reader = None \/ mtime # file

\* The mtime is the one remembered: the open reader is used.
Reuse ==
    /\ rpc = "idle"
    /\ file # None
    /\ ~Changed
    /\ UNCHANGED vars

Stat ==
    /\ rpc = "idle"
    /\ file # None
    /\ Changed
    /\ stat' = file
    /\ rpc' = "open"
    /\ UNCHANGED <<downloads, file, fresh, wvars, reader, mtime, faults>>

IsDatabase(d) == d \in Download \ Bad

\* Mutant: the mtime remembered is the one after the file was opened and another
\* one may have taken its place.
OpenThenStat ==
    /\ rpc = "open"
    /\ IsDatabase(file)
    /\ reader' = file
    /\ mtime' \in file..downloads
    /\ rpc' = "idle"
    /\ UNCHANGED <<downloads, file, fresh, wvars, stat, faults>>

\* The file that is opened may be a later one than the one asked for its mtime.
Open ==
    /\ rpc = "open"
    /\ IsDatabase(file)
    /\ reader' = file
    /\ mtime' = stat
    /\ rpc' = "idle"
    /\ UNCHANGED <<downloads, file, fresh, wvars, stat, faults>>

\* No database: every lookup tries again.
OpenFails ==
    /\ rpc = "open"
    /\ ~IsDatabase(file)
    /\ reader' = None
    /\ mtime' = None
    /\ rpc' = "idle"
    /\ UNCHANGED <<downloads, file, fresh, wvars, stat, faults>>

\* The API dies and starts again.
ReaderCrash ==
    /\ Fault
    /\ reader' = None
    /\ mtime' = None
    /\ rpc' = "idle"
    /\ UNCHANGED <<downloads, file, fresh, wvars, stat>>

Worker == StartDownload \/ WriteTmp \/ Rename

Reader == Stat \/ Open \/ OpenFails

Next ==
    \/ Worker \/ WriteFails \/ WorkerCrash \/ ManualUpdate \/ Expire
    \/ Reader \/ StatFails \/ Reuse \/ ReaderCrash

\* Addresses keep being looked up.  Of the worker nothing is assumed: it only comes
\* here after a build that succeeded, and the server need not answer.
Spec == Init /\ [][Next]_vars /\ WF_vars(Reader)

-----------------------------------------------------------------------------

TypeOK ==
    /\ downloads \in 0..MaxDownloads
    /\ file \in Download \cup {None}
    /\ fresh \in BOOLEAN
    /\ tmp \in Download \cup {None, Torn}
    /\ wpc \in {"tick", "write", "rename"}
    /\ rpc \in {"idle", "open"}
    /\ stat \in Download \cup {None}
    /\ reader \in Download \cup {None}
    /\ mtime \in Download \cup {None}
    /\ faults \in 0..MaxFaults

\* A reader that the enricher takes for current is current: replacing the file
\* between the stat and the open makes it look old, never new (_get_reader, lines
\* 34-48; ensure_geoip_fresh, lines 126-131).
LooksCurrentIsCurrent == reader # None /\ mtime = file => reader = file

\* A database that stays in place ends up being read, after downloads that were no
\* database, crashes of both processes and updates by hand.
PickedUp == \A d \in Download \ Bad : <>[](file = d) => <>[](reader = d)
=============================================================================
