------------------------------- MODULE Cache -------------------------------
(***************************************************************************)
(* What the reader of a published index is promised, whatever it takes to  *)
(* get the index across: versions are published one after the other, and   *)
(* the reader holds what it took from them.  The engine has a worker that  *)
(* publishes and an API that reads; IndexPublish says how.                 *)
(*                                                                         *)
(* The promise is weaker than "the reader holds one version".  It may hold *)
(* parts of several, or none, but each time it takes something the parts   *)
(* are at least as new as all it held; the version it takes itself to be   *)
(* at goes forward, unless it does not know it; and it catches up.         *)
(***************************************************************************)
EXTENDS Naturals

CONSTANT MaxVersions   \* bound: how many versions there are

Unknown == 0

VARIABLES
    latest,   \* the last version published
    known,    \* the version the reader takes itself to be at
    held      \* the versions its parts come from

vars == <<latest, known, held>>

Init == latest = 0 /\ known = Unknown /\ held = {}

Publish ==
    /\ latest < MaxVersions
    /\ latest' = latest + 1
    /\ UNCHANGED <<known, held>>

Take(v) ==
    /\ v # Unknown => v > known
    /\ known' = v
    /\ held' \in SUBSET (1..(IF v = Unknown THEN latest ELSE v))
    /\ \A old \in held, new \in held' : old <= new
    /\ UNCHANGED latest

\* The reader restarts.
Forget ==
    /\ known' = Unknown
    /\ held' = {}
    /\ UNCHANGED latest

Next == Publish \/ Forget \/ \E v \in 0..latest : Take(v)

Safety == Init /\ [][Next]_vars

Spec == Safety /\ WF_vars(latest # Unknown /\ Take(latest))
=============================================================================
