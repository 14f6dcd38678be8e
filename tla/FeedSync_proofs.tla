-------------------------- MODULE FeedSync_proofs --------------------------
(***************************************************************************)
(* The safety of FeedSync for any set of feeds, any contents, and any      *)
(* number of upstream changes, crashes and failed writes.  Both invariants *)
(* rest on one idea: from the request to the upsert the version at hand is *)
(* newer than stored validators, so that these vouch for nothing, and the   *)
(* rows collected in a tick are of feeds the tick is done with.            *)
(***************************************************************************)
EXTENDS FeedSync, TLAPS

Syncing == wpc \in {"open", "write", "upsert"}

\* The version at hand, and the validators it is going to replace.
DownloadInv ==
    /\ \A f \in Feeds : meta[f] <= origin[f]
    /\ Syncing => /\ got \in Version /\ got <= origin[cur]
                  /\ cur \in Validating => meta[cur] < got
    /\ wpc = "upsert" => raw[cur] = got

\* The rows collected so far, and the file of the feed whose row comes next.
NotesInv ==
    /\ Syncing \/ wpc = "note" => cur \notin todo
    /\ wpc = "note" => raw[cur] = meta[cur]
    /\ \A f \in Feeds : wpc # "down" /\ feedMeta[f] # None => raw[f] = feedMeta[f]
    /\ wpc \notin {"down", "sleep"} => \A f \in todo : feedMeta[f] = None
    /\ Syncing \/ wpc = "note" => feedMeta[cur] = None

IInv == TypeOK /\ DownloadInv /\ NotesInv /\ ValidatorsVouch /\ Provenance

-----------------------------------------------------------------------------

\* Nothing is downloaded, indexed or known at first.
LEMMA InitIInv == Init => IInv
<1> SUFFICES ASSUME Init PROVE IInv
  OBVIOUS
<1> USE FeedsAssumption DEF Init, Nothing, None, Torn, Version, Content
<1>1. TypeOK
  BY DEF TypeOK
<1>2. DownloadInv /\ NotesInv
  BY DEF DownloadInv, NotesInv, Syncing
<1>3. ValidatorsVouch /\ Provenance
  BY DEF ValidatorsVouch, NotModified, Provenance
<1>4. QED
  BY <1>1, <1>2, <1>3 DEF IInv

\* Every step keeps the types.
LEMMA NextTypeOK == TypeOK /\ DownloadInv /\ [Next]_vars => TypeOK'
<1> SUFFICES ASSUME TypeOK, DownloadInv, [Next]_vars PROVE TypeOK'
  OBVIOUS
<1> USE FeedsAssumption DEF TypeOK, Content, Fault
<1>1. CASE StartTick
  BY <1>1 DEF StartTick, Nothing
<1>2. ASSUME NEW f \in Feeds, Publish(f) PROVE TypeOK'
  <2>1. origin[f] + 1 \in Version
    BY <1>2 DEF Publish, Version
  <2>2. QED
    BY <1>2, <2>1 DEF Publish
<1>3. ASSUME NEW f \in Feeds, Unmodified(f) PROVE TypeOK'
  BY <1>3 DEF Unmodified
<1>4. ASSUME NEW f \in Feeds, Fetch(f) PROVE TypeOK'
  BY <1>4 DEF Fetch
<1>5. ASSUME NEW f \in Feeds, DownloadFails(f) PROVE TypeOK'
  BY <1>5 DEF DownloadFails
<1>6. CASE OpenRaw
  BY <1>6 DEF OpenRaw
<1>7. CASE WriteRaw
  BY <1>7 DEF WriteRaw
<1>8. CASE UpsertFeedMeta
  BY <1>8 DEF UpsertFeedMeta
<1>9. CASE StoreFails
  BY <1>9 DEF StoreFails
<1>10. CASE Note
  BY <1>10 DEF Note
<1>11. CASE Build
  BY <1>11 DEF Build
<1>12. CASE BuildFails
  BY <1>12 DEF BuildFails
<1>13. CASE Crash
  BY <1>13 DEF Crash
<1>14. ASSUME NEW f \in Feeds, LoseRaw(f) PROVE TypeOK'
  BY <1>14 DEF LoseRaw
<1>15. CASE NoteFails
  BY <1>15 DEF NoteFails
<1>16. CASE UNCHANGED vars
  BY <1>16 DEF vars
<1>17. QED
  BY <1>1, <1>2, <1>3, <1>4, <1>5, <1>6, <1>7, <1>8, <1>9, <1>10, <1>11, <1>12,
     <1>13, <1>14, <1>15, <1>16 DEF Next

\* Every step keeps the rest: file, validators and collected rows fit together.
LEMMA NextIInv == IInv /\ [Next]_vars => IInv'
<1> SUFFICES ASSUME IInv, [Next]_vars PROVE IInv'
  OBVIOUS
<1>0. TypeOK'
  BY NextTypeOK DEF IInv
<1> DEFINE Rest == DownloadInv /\ NotesInv /\ ValidatorsVouch /\ Provenance
<1> SUFFICES Rest'
  BY <1>0 DEF IInv
<1> USE FeedsAssumption
    DEF IInv, TypeOK, DownloadInv, NotesInv, ValidatorsVouch, Provenance, NotModified,
        Syncing, Version, Content, None, Torn, Fault
<1>1. CASE StartTick
  BY <1>1 DEF StartTick, Nothing
<1>2. ASSUME NEW f \in Feeds, Publish(f) PROVE Rest'
  BY <1>2 DEF Publish
<1>3. ASSUME NEW f \in Feeds, Unmodified(f) PROVE Rest'
  BY <1>3 DEF Unmodified
<1>4. ASSUME NEW f \in Feeds, Fetch(f) PROVE Rest'
  BY <1>4 DEF Fetch
<1>5. ASSUME NEW f \in Feeds, DownloadFails(f) PROVE Rest'
  BY <1>5 DEF DownloadFails
<1>6. CASE OpenRaw
  BY <1>6 DEF OpenRaw
<1>7. CASE WriteRaw
  BY <1>7 DEF WriteRaw
<1>8. CASE UpsertFeedMeta
  BY <1>8 DEF UpsertFeedMeta
<1>9. CASE StoreFails
  BY <1>9 DEF StoreFails
<1>10. CASE Note
  BY <1>10 DEF Note
<1>11. CASE Build
  BY <1>11 DEF Build
<1>12. CASE BuildFails
  BY <1>12 DEF BuildFails
<1>13. CASE Crash
  BY <1>13 DEF Crash
<1>14. ASSUME NEW f \in Feeds, LoseRaw(f) PROVE Rest'
  BY <1>14 DEF LoseRaw
<1>15. CASE NoteFails
  BY <1>15 DEF NoteFails
<1>16. CASE UNCHANGED vars
  BY <1>16 DEF vars
<1>17. QED
  BY <1>1, <1>2, <1>3, <1>4, <1>5, <1>6, <1>7, <1>8, <1>9, <1>10, <1>11, <1>12,
     <1>13, <1>14, <1>15, <1>16 DEF Next

\* The invariant that carries the two properties below.
THEOREM Invariance == Spec => []IInv
<1>1. IInv /\ [Next]_vars => IInv'
  BY NextIInv
<1>2. QED
  BY InitIInv, <1>1, PTL DEF Spec

-----------------------------------------------------------------------------

\* Whatever fails, files hold a version or are torn, and rows only versions.
THEOREM TypeCorrect == Spec => []TypeOK
<1>1. IInv => TypeOK
  BY DEF IInv
<1>2. QED
  BY Invariance, <1>1, PTL

\* Validators the server would answer 304 to belong to the file the worker has, for
\* any set of feeds and wherever the process dies.
THEOREM StoredValidatorsVouch == Spec => []ValidatorsVouch
<1>1. IInv => ValidatorsVouch
  BY DEF IInv
<1>2. QED
  BY Invariance, <1>1, PTL

\* What the published meta.json says of a feed is true of the index next to it.
THEOREM IndexProvenance == Spec => []Provenance
<1>1. IInv => Provenance
  BY DEF IInv
<1>2. QED
  BY Invariance, <1>1, PTL
=============================================================================
