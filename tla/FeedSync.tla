------------------------------ MODULE FeedSync ------------------------------
(***************************************************************************)
(* The tick of the worker: run of engine/app/worker/main.py, with          *)
(* download_feed (adapters/feeds.py), the feed_meta table                  *)
(* (storage/sqlite.py) and what build_index (adapters/index.py) takes from *)
(* the raw files.                                                          *)
(*                                                                         *)
(* A feed is fetched with the validators of its last successful download.  *)
(* What is downloaded is written over the raw file, and only then are the  *)
(* validators stored: file and table can drift apart when the process dies *)
(* between the two, when the file is cut short, or when the table is       *)
(* locked.  The index is built from the raw files whatever happened to     *)
(* the downloads, and says of each feed that was synced where its content  *)
(* came from.                                                              *)
(*                                                                         *)
(* The content of a feed is its version.  Upstream never publishes the     *)
(* same version twice, so a validator is worth a version too.  How the     *)
(* index reaches the API is the subject of IndexPublish: here it is        *)
(* replaced in one step.                                                   *)
(***************************************************************************)
EXTENDS Integers

CONSTANTS
    Feeds,        \* the feeds of feeds.yaml
    JsonFeeds,    \* those of format json: a document that does not parse raises
    Validating,   \* those served with an ETag or a Last-Modified
    Reachable,    \* those whose server answers again and again
    Broken,       \* the <<feed, version>> that are no JSON
    MaxVersion,   \* bound: how often a feed changes upstream
    MaxFaults     \* bound: how many crashes and failed writes there are

ASSUME FeedsAssumption ==
    /\ JsonFeeds \subseteq Feeds
    /\ Validating \subseteq Feeds
    /\ Reachable \subseteq Feeds
    /\ Broken \subseteq JsonFeeds \X (1..MaxVersion)
    /\ MaxVersion \in Nat \ {0}
    /\ MaxFaults \in Nat

None    == 0                 \* no row, no file, not part of the index
Torn    == -1                \* a file that write_bytes did not finish
Version == 1..MaxVersion

VARIABLES
    origin,     \* what each feed's server publishes
    raw,        \* the file under /data/feeds/raw
    meta,       \* the feed's feed_meta row: sha256, and validators if it has any
    wpc,        \* where the worker is
    todo,       \* the feeds this tick has still to sync
    cur,        \* the feed being synced
    got,        \* the content of the response
    feedMeta,   \* the rows collected for build_index
    index,      \* what the published index contains of each feed
    indexMeta,  \* where its meta.json says it came from
    faults

vars == <<origin, raw, meta, wpc, todo, cur, got, feedMeta, index, indexMeta, faults>>

Nothing == [f \in Feeds |-> None]

Init ==
    /\ origin = [f \in Feeds |-> 1]
    /\ raw = Nothing
    /\ meta = Nothing
    /\ wpc = "down"
    /\ todo = {}
    /\ cur \in Feeds
    /\ got = None
    /\ feedMeta = Nothing
    /\ index = Nothing
    /\ indexMeta = Nothing
    /\ faults = 0

Fault == faults < MaxFaults /\ faults' = faults + 1

-----------------------------------------------------------------------------
(* The servers *)

Publish(f) ==
    /\ origin[f] < MaxVersion
    /\ origin' = [origin EXCEPT ![f] = @ + 1]
    /\ UNCHANGED <<raw, meta, wpc, todo, cur, got, feedMeta, index, indexMeta, faults>>

\* Does the server answer a request with the stored validators with 304?
NotModified(f) == f \in Validating /\ meta[f] = origin[f]

-----------------------------------------------------------------------------
(* The worker *)

\* Mutant: the tick forgets which feed it was at.
StartTickForgets ==
    /\ wpc \in {"down", "sleep"}
    /\ wpc' = "feeds"
    /\ todo' = Feeds
    /\ cur' = None
    /\ feedMeta' = Nothing
    /\ got' = None
    /\ UNCHANGED <<origin, raw, meta, index, indexMeta, faults>>

StartTick ==
    /\ wpc \in {"down", "sleep"}
    /\ wpc' = "feeds"
    /\ todo' = Feeds
    /\ feedMeta' = Nothing
    /\ got' = None
    /\ UNCHANGED <<origin, raw, meta, cur, index, indexMeta, faults>>

\* 304, and the file is there: download_feed returns it.
Unmodified(f) ==
    /\ wpc = "feeds"
    /\ f \in todo
    /\ NotModified(f) /\ raw[f] # None
    /\ todo' = todo \ {f}
    /\ cur' = f
    /\ wpc' = "note"
    /\ UNCHANGED <<origin, raw, meta, got, feedMeta, index, indexMeta, faults>>

\* 200: the content is in memory.
Fetch(f) ==
    /\ wpc = "feeds"
    /\ f \in todo
    /\ ~NotModified(f)
    /\ todo' = todo \ {f}
    /\ cur' = f
    /\ got' = origin[f]
    /\ wpc' = "open"
    /\ UNCHANGED <<origin, raw, meta, feedMeta, index, indexMeta, faults>>

\* Mutant: there is no try around the download of one feed.
DownloadFailsEndsTick(f) ==
    /\ wpc = "feeds"
    /\ f \in todo
    /\ todo' = {}
    /\ wpc' = "sleep"
    /\ UNCHANGED <<origin, raw, meta, cur, got, feedMeta, index, indexMeta, faults>>

\* A timeout, an error status, or a 304 for a file that is not there, which
\* raise_for_status takes for an error: run() logs it and goes on to the next feed.
DownloadFails(f) ==
    /\ wpc = "feeds"
    /\ f \in todo
    /\ todo' = todo \ {f}
    /\ UNCHANGED <<origin, raw, meta, wpc, cur, got, feedMeta, index, indexMeta, faults>>

\* Mutant: the validators are stored before the content is.
OpenRawMetaFirst ==
    /\ wpc = "open"
    /\ raw' = [raw EXCEPT ![cur] = Torn]
    /\ meta' = [meta EXCEPT ![cur] = got]
    /\ wpc' = "write"
    /\ UNCHANGED <<origin, todo, cur, got, feedMeta, index, indexMeta, faults>>

\* write_bytes truncates the file ...
OpenRaw ==
    /\ wpc = "open"
    /\ raw' = [raw EXCEPT ![cur] = Torn]
    /\ wpc' = "write"
    /\ UNCHANGED <<origin, meta, todo, cur, got, feedMeta, index, indexMeta, faults>>

\* ... and writes the content.
WriteRaw ==
    /\ wpc = "write"
    /\ raw' = [raw EXCEPT ![cur] = got]
    /\ wpc' = "upsert"
    /\ UNCHANGED <<origin, meta, todo, cur, got, feedMeta, index, indexMeta, faults>>

UpsertFeedMeta ==
    /\ wpc = "upsert"
    /\ meta' = [meta EXCEPT ![cur] = got]
    /\ wpc' = "note"
    /\ UNCHANGED <<origin, raw, todo, cur, got, feedMeta, index, indexMeta, faults>>

\* Mutant: no continue after the exception was logged.
StoreFailsNotes ==
    /\ wpc \in {"write", "upsert"}
    /\ Fault
    /\ wpc' = "note"
    /\ UNCHANGED <<origin, raw, meta, todo, cur, got, feedMeta, index, indexMeta>>

\* A full disk, or a locked database: download_feed raises, run() goes on.
StoreFails ==
    /\ wpc \in {"write", "upsert"}
    /\ Fault
    /\ wpc' = "feeds"
    /\ UNCHANGED <<origin, raw, meta, todo, cur, got, feedMeta, index, indexMeta>>

\* m = await store.get_feed_meta(feed.name) or {}
Note ==
    /\ wpc = "note"
    /\ feedMeta' = [feedMeta EXCEPT ![cur] = meta[cur]]
    /\ wpc' = "feeds"
    /\ UNCHANGED <<origin, raw, meta, todo, cur, got, index, indexMeta, faults>>

\* The row cannot be read: this is outside the try around the download, and the tick
\* ends without a build.
NoteFails ==
    /\ wpc = "note"
    /\ Fault
    /\ wpc' = "sleep"
    /\ UNCHANGED <<origin, raw, meta, todo, cur, got, feedMeta, index, indexMeta>>

\* json.loads rejects the file.
Unparsable(f) == f \in JsonFeeds /\ (raw[f] = Torn \/ <<f, raw[f]>> \in Broken)

\* build_index: every raw file that is there, downloaded in this tick or not.
Build ==
    /\ wpc = "feeds"
    /\ todo = {}
    /\ \A f \in Feeds : ~Unparsable(f)
    /\ index' = raw
    /\ indexMeta' = feedMeta
    /\ wpc' = "sleep"
    /\ UNCHANGED <<origin, raw, meta, todo, cur, got, feedMeta, faults>>

\* build_index raises: nothing is published in this tick.
BuildFails ==
    /\ wpc = "feeds"
    /\ todo = {}
    /\ \E f \in Feeds : Unparsable(f)
    /\ wpc' = "sleep"
    /\ UNCHANGED <<origin, raw, meta, todo, cur, got, feedMeta, index, indexMeta, faults>>

Crash ==
    /\ wpc # "down"
    /\ Fault
    /\ wpc' = "down"
    /\ UNCHANGED <<origin, raw, meta, todo, cur, got, feedMeta, index, indexMeta>>

\* A stopped worker comes back with another format for the feed, so that its raw
\* file has another name, or with an emptied directory.
LoseRaw(f) ==
    /\ wpc = "down"
    /\ raw[f] # None
    /\ Fault
    /\ raw' = [raw EXCEPT ![f] = None]
    /\ UNCHANGED <<origin, meta, wpc, todo, cur, got, feedMeta, index, indexMeta>>

Sync(f) == Unmodified(f) \/ Fetch(f)

Next ==
    \/ StartTick \/ OpenRaw \/ WriteRaw \/ UpsertFeedMeta \/ StoreFails \/ Note \/ NoteFails
    \/ Build \/ BuildFails \/ Crash
    \/ \E f \in Feeds : Publish(f) \/ Unmodified(f) \/ Fetch(f) \/ DownloadFails(f) \/ LoseRaw(f)

\* The loop goes on for ever and never blocks: every request has a timeout.  A
\* reachable server answers in infinitely many of the ticks.
Fairness ==
    /\ WF_vars(StartTick)
    /\ WF_vars(OpenRaw \/ WriteRaw \/ UpsertFeedMeta \/ Note \/ Build \/ BuildFails)
    /\ \A f \in Feeds : WF_vars(wpc = "feeds" /\ f \in todo /\ (Sync(f) \/ DownloadFails(f)))
    /\ \A f \in Reachable : SF_vars(Sync(f))

Spec == Init /\ [][Next]_vars /\ Fairness

-----------------------------------------------------------------------------
(* What the sync promises *)

Content == Version \cup {None, Torn}

TypeOK ==
    /\ origin \in [Feeds -> Version]
    /\ raw \in [Feeds -> Content]
    /\ meta \in [Feeds -> Version \cup {None}]
    /\ wpc \in {"down", "sleep", "feeds", "open", "write", "upsert", "note"}
    /\ todo \in SUBSET Feeds
    /\ cur \in Feeds
    /\ got \in Version \cup {None}
    /\ feedMeta \in [Feeds -> Version \cup {None}]
    /\ index \in [Feeds -> Content]
    /\ indexMeta \in [Feeds -> Version \cup {None}]
    /\ faults \in 0..MaxFaults

\* Stored validators that would make the server answer 304 belong to the file the
\* worker has, or the file is gone: a crash between write_bytes and upsert, or in
\* the middle of either, never leaves a stale or truncated file that no later sync
\* replaces (download_feed, lines 57-87).
ValidatorsVouch ==
    \A f \in Feeds : NotModified(f) => raw[f] \in {origin[f], None}

\* meta.json names a version of a feed only when the index next to it holds exactly
\* that version, although it is collected feed by feed while the files change and
\* a feed whose download failed is indexed from its last file
\* (run, lines 29-39; build_index, lines 167-173).
Provenance ==
    \A f \in Feeds : indexMeta[f] # None => index[f] = indexMeta[f]

\* The server says 304 for a file the worker does not have: lines 73-75 raise in
\* every tick until the feed changes upstream.
Stuck(f) == NotModified(f) /\ raw[f] = None

\* Once the servers stop changing, every feed whose server answers ends up in the
\* index as it is upstream, after crashes and failed writes, and whatever happens
\* to the feeds whose servers are down; unless a document that is no JSON is
\* published, which holds up all the feeds, or a raw file was lost.
CatchesUp ==
    <>[](\A f \in Feeds : ~Stuck(f) /\ <<f, origin[f]>> \notin Broken
                          /\ (f \notin Reachable => ~Unparsable(f)))
      => \A f \in Reachable : <>[](index[f] = origin[f])
=============================================================================
