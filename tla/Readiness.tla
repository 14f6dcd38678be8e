----------------------------- MODULE Readiness -----------------------------
(***************************************************************************)
(* GET /ready of the API (engine/app/api/v1/endpoints/health.py), beside   *)
(* the checks and the worker of IndexPublish, and with time: a build has   *)
(* the age its built_at gives it.                                          *)
(*                                                                         *)
(* A request reloads the index as a check does, waits for the schema of    *)
(* the key store, and only then looks at the index that is served; other   *)
(* requests may have replaced it by then.                                  *)
(*                                                                         *)
(* Ages are counted in intervals of the worker, up to the first that is    *)
(* too old.  A load and a request take seconds and an interval a quarter   *)
(* of an hour: no tick falls into them.                                    *)
(***************************************************************************)
EXTENDS IndexPublish

CONSTANTS
    MaxAge,   \* max_age, the buffer left out: an index older than this is stale
    Gap,      \* a worker on time publishes again before its last build is older
    Filled    \* <<build, file>>: the parts that have entries

ASSUME ReadinessAssumption ==
    /\ MaxAge \in Nat /\ Gap \in Nat
    /\ 2 * Gap <= MaxAge
    /\ Filled \subseteq (1..MaxBuilds) \X (File \ {Meta})

VARIABLES
    age,     \* per build: intervals since its meta.json was written
    late,    \* history: the worker has left a gap longer than Gap, or an interval has
             \* passed without a request that loads the last build
    rpc,     \* the request for /ready: "idle", "loading", "schema"
    asked,   \* history: the mtime of meta.json when it began
    answer   \* the last answer of this API process

rvars == <<age, late, rpc, asked, answer>>
all   == <<vars, rvars>>

NoAnswer == [status |-> "none", stale |-> FALSE]

RInit ==
    /\ Init
    /\ age = [b \in 1..MaxBuilds |-> 0]
    /\ late = FALSE
    /\ rpc = "idle"
    /\ asked = Absent
    /\ answer = NoAnswer

-----------------------------------------------------------------------------

Clock ==
    /\ apc \in {"down", "idle"}
    /\ rpc = "idle"
    /\ age' = [b \in DOMAIN age |->
                  IF (b <= built \/ tmp[Meta] = b) /\ age[b] <= MaxAge
                  THEN age[b] + 1 ELSE age[b]]
    /\ late' = \/ late
               \/ \E b \in {built, tmp[Meta]} \ {Absent} : age'[b] > Gap
               \/ apc = "idle" /\ servedMtime # built
    /\ UNCHANGED <<vars, rpc, asked, answer>>

\* built_at is the time at which meta.json is written.
WriteBuiltAt ==
    /\ WriteFile(Meta)
    /\ age' = [age EXCEPT ![built + 1] = 0]
    /\ UNCHANGED <<late, rpc, asked, answer>>

WorkerStep ==
    \/ WriteBuiltAt
    \/ /\ \/ StartBuild \/ StartSwap \/ RemoveDir \/ Rename
          \/ WorkerStart \/ WorkerCrash \/ BuildFails
          \/ \E f \in File : RemoveFile(f) \/ (f # Meta /\ WriteFile(f))
       /\ UNCHANGED rvars

-----------------------------------------------------------------------------

\* Mutant: the answer is about whatever index is there.
AskWithoutReload ==
    /\ rpc = "idle"
    /\ apc = "idle"
    /\ asked' = disk[Meta]
    /\ rpc' = "schema"
    /\ UNCHANGED <<vars, age, late, answer>>

Ask ==
    /\ rpc = "idle"
    /\ asked' = disk[Meta]
    /\ \/ Reload /\ rpc' = "loading"
       \/ KeepIndex /\ rpc' = "schema"
    /\ UNCHANGED <<age, late, answer>>

\* The loads of lifespan, of checks and of the request; the last one goes on.
Load ==
    \/ /\ ApiStart \/ Reload \/ FileExists \/ FileMissing \/ ReadFile \/ StatMeta
       /\ UNCHANGED rvars
    \/ /\ Assign
       /\ rpc' = IF rpc = "loading" THEN "schema" ELSE rpc
       /\ UNCHANGED <<age, late, asked, answer>>

\* A load that raises answers its own request with 500.
LoadRaises ==
    /\ OpenFails
    /\ rpc' = IF rpc = "loading" THEN "idle" ELSE rpc
    /\ answer' = IF rpc = "loading" THEN [NoAnswer EXCEPT !.status = "error"] ELSE answer
    /\ UNCHANGED <<age, late, asked>>

Populated == \E f \in File \ {Meta} : <<served[f], f>> \in Filled

\* Mutant: stale after one interval.
StaleAfterOne == served[Meta] # Absent /\ age[served[Meta]] > MaxAge - Gap

\* Mutant: only an empty index can be stale.
StaleIfEmpty == ~Populated /\ served[Meta] # Absent /\ age[served[Meta]] > MaxAge

\* Without a meta.json there is no built_at, and nothing is stale.
Stale == served[Meta] # Absent /\ age[served[Meta]] > MaxAge

\* await store.init_schema() is over, with or without an exception.
Answer ==
    /\ rpc = "schema"
    /\ apc = "idle"
    /\ rpc' = "idle"
    /\ \E sqlite_ok \in BOOLEAN :
          answer' = [status |-> IF ~sqlite_ok THEN "unhealthy"
                                ELSE IF ~Populated \/ Stale THEN "degraded" ELSE "ok",
                     stale  |-> Stale]
    /\ UNCHANGED <<vars, age, late, asked>>

Crash ==
    /\ ApiCrash
    /\ rpc' = "idle"
    /\ answer' = NoAnswer
    /\ UNCHANGED <<age, late, asked>>

RNext == Clock \/ WorkerStep \/ Ask \/ Load \/ LoadRaises \/ Answer \/ Crash

\* Time passes, a load goes on, and somebody watches /ready.  The worker may stop.
RSpec ==
    /\ RInit /\ [][RNext]_all
    /\ SF_all(Clock) /\ WF_all(Load \/ LoadRaises) /\ WF_all(Ask) /\ WF_all(Answer)

-----------------------------------------------------------------------------
(* What /ready promises *)

\* The answer is about an index at least as new as the one published when the request
\* came, although other requests load and the worker swaps while the schema is awaited:
\* its mtime is not older, or there was no meta.json to load (health.py, lines 25-34).
ReadyIsCurrent == [][Answer => servedMtime = Absent \/ asked <= servedMtime]_all

\* "Stale if older than 2 worker cycles": as long as the worker is on time, and requests
\* come, /ready never calls the index stale.  One cycle would not do: a load the worker
\* swaps under may keep the meta.json of a build under the mtime of the next one, and is
\* not repeated until the build after that.  Without requests it would not hold: the
\* first one after a pause of several intervals may come in the middle of a swap, and
\* then keeps the old index (health.py, lines 53-63; index.py, lines 29-41 and 194-208).
NoFalseAlarm == ~late => ~answer.stale

\* A worker that has stopped for good shows: in the end /ready no longer says "ok", unless
\* the index was loaded without a meta.json, which has no age (health.py, lines 53-70).
StoppedShows == <>[](answer.status = "ok" => served[Meta] = Absent)
=============================================================================
