----------------------------- MODULE Catalogue -----------------------------
(***************************************************************************)
(* Which entry of the signal catalogue a signal id means: once in the      *)
(* engine (engine/app/engine/signals.py) and once more in the client of    *)
(* the MCP server (mcp/src/monapi_mcp/client.py), which looks it up in the *)
(* catalogue it has fetched.                                               *)
(*                                                                         *)
(* An id is a sequence of letters.  An entry has an id or a pattern, of    *)
(* which only the prefix before its first placeholder counts; <<>> stands  *)
(* for the one it does not have.  Entries are known by their position, 0   *)
(* is None.                                                                *)
(***************************************************************************)
EXTENDS Integers, Sequences
LOCAL INSTANCE FiniteSetsExt
LOCAL INSTANCE SequencesExt

CONSTANTS
    Letter,
    SignalId,   \* ids that are looked up
    Catalogues  \* catalogues they are looked up in

Entry == [id : Seq(Letter), prefix : Seq(Letter)]

ASSUME CatalogueAssumption ==
    /\ SignalId \subseteq Seq(Letter)
    /\ Catalogues \subseteq Seq(Entry)
    /\ \A c \in Catalogues : \A k \in DOMAIN c : c[k].id = <<>> \/ c[k].prefix = <<>>

HasId(entry, sid)  == entry.id # <<>> /\ entry.id = sid
Covers(entry, sid) == entry.prefix # <<>> /\ IsPrefix(entry.prefix, sid)

Longer(entries, k, best) ==
    best = 0 \/ Len(entries[k].prefix) > Len(entries[best].prefix)

\* Mutant: the last of several entries wins, whatever the length of its prefix.
BestPatternLast(entries, sid) ==
    LET best[k \in 0..Len(entries)] ==
            IF k = 0 THEN 0 ELSE IF Covers(entries[k], sid) THEN k ELSE best[k - 1]
    IN  best[Len(entries)]

\* The loop over the patterns, with best and best_len.
BestPattern(entries, sid) ==
    LET best[k \in 0..Len(entries)] ==
            IF k = 0 THEN 0
            ELSE IF Covers(entries[k], sid) /\ Longer(entries, k, best[k - 1]) THEN k
            ELSE best[k - 1]
    IN  best[Len(entries)]

\* MonapiClient.explain
Explain(entries, sid) ==
    LET exact == {k \in DOMAIN entries : HasId(entries[k], sid)}
    IN  IF exact # {} THEN Min(exact) ELSE BestPattern(entries, sid)

Strip(sid) ==
    LET ink == {i \in DOMAIN sid : sid[i] # " "}
    IN  IF ink = {} THEN <<>> ELSE SubSeq(sid, Min(ink), Max(ink))

\* SignalCatalogue.lookup
Lookup(entries, signalId) ==
    LET sid == Strip(signalId) IN IF sid = <<>> THEN 0 ELSE Explain(entries, sid)

-----------------------------------------------------------------------------

\* Entry j says more about the id than entry k: an exact id more than a pattern, and
\* a longer prefix more than a shorter one.
SaysMore(entries, j, k, sid) ==
    \/ HasId(entries[j], sid) /\ ~HasId(entries[k], sid)
    \/ /\ ~HasId(entries[k], sid)
       /\ Covers(entries[j], sid)
       /\ Len(entries[j].prefix) > Len(entries[k].prefix)

\* The loops find the entry that says most about an id, the first of several, and none
\* only when no entry is about it; and the engine, which strips the id first, and the
\* client agree on every id that has no blanks around it: what one explains is what
\* the other one documents (signals.py, lines 34-58; client.py, lines 184-200).
LoopsFindBest ==
    \A c \in Catalogues, sid \in SignalId :
        LET about == {k \in DOMAIN c : HasId(c[k], sid) \/ Covers(c[k], sid)}
            best  == {k \in about : \A j \in about : ~SaysMore(c, j, k, sid)}
        IN  /\ Explain(c, sid) = IF about = {} THEN 0 ELSE Min(best)
            /\ Strip(sid) = sid => Lookup(c, sid) = Explain(c, sid)
=============================================================================
