------------------------------ MODULE Service ------------------------------
(***************************************************************************)
(* The API as its clients see it, over restarts and redeployments:         *)
(*   - lifespan of engine/app/main.py: bootstrap of the API keys, then     *)
(*     policies.yaml and signals.yaml as they are at that moment;          *)
(*   - a check: the key, the profile that is asked for, the decision;      *)
(*   - the Node client (clients/node/src/index.ts), which answers "allow"  *)
(*     when it gets no decision;                                           *)
(*   - the explanations of the MCP server, which keeps the catalogue it    *)
(*     has fetched.                                                        *)
(*                                                                         *)
(* Every load of the two files is numbered: what a client has seen is the  *)
(* number of the load it comes from.  There is one key, the clients', and  *)
(* one subject: the rows of the key table do not depend on each other, and *)
(* the score of the subject stands for all that Checks is about.  A        *)
(* behaviour has one of the two clients: neither of them changes what the  *)
(* API or the other one does.                                              *)
(***************************************************************************)
EXTENDS Scoring, Catalogue
LOCAL INSTANCE TLC
LOCAL INSTANCE SequencesExt

CONSTANTS
    Policies,       \* what policies.yaml may hold
    SignalFiles,    \* what signals.yaml may hold
    ProfileName,    \* profiles that are asked for
    SubjectScore,
    SubjectSignal,  \* the id of a signal of the subject
    MaxCrashes      \* bound: how often the API goes down after a start

\* A file is missing or no YAML, or YAML but no mapping, or a mapping.
Shape == {"unreadable", "no mapping", "mapping"}

ASSUME ServiceAssumption ==
    /\ \A f \in Policies \cup SignalFiles : f.shape \in Shape
    /\ \A f \in Policies \cup SignalFiles : f.shape # "mapping" => f.entries = <<>>
    /\ MaxCrashes \in Nat

VARIABLES
    files,    \* what the operator has written to the two files
    boot,     \* is the clients' key in BOOTSTRAP_API_KEYS?
    row,      \* the key in the table: "none", "enabled" or "disabled"
    revoked,  \* history: the key has been disabled
    apc,      \* the API: "down", "keys", "files" or "up"
    loaded,   \* history: what every start has loaded; the last is app.state
    crashes,
    client,   \* which client there is: "node" or "mcp"
    call,     \* the call of the Node client
    request,  \* its request in the API: "none", "arrived" or "authorised"
    reply,    \* the response on its way
    result,   \* what the last call resolved to
    kept,     \* the load the kept catalogue of the MCP server is from, or 0
    seen,     \* the check the MCP server is asked to explain
    told      \* what it explained

operator == <<files, boot>>
keys     == <<row, revoked>>
node     == <<call, request, reply, result>>
mcp      == <<kept, seen, told>>
engine   == <<operator, keys, apc, loaded, crashes, client>>
vars     == <<engine, node, mcp>>

Now == Len(loaded)

NoCall    == [pc |-> "ended", profile |-> "default", revoked |-> FALSE, since |-> 0]
NoResult  == [checked |-> FALSE, decision |-> "none", profile |-> "none"]
NoReply   == [status |-> 0, decision |-> "none", profile |-> "none"]
NoAnswer  == [NoReply EXCEPT !.status = 200]
Failure(s) == [NoReply EXCEPT !.status = s]
NotSeen   == [at |-> 0, profile |-> "default"]
NotTold   == [of |-> NotSeen, meaning |-> 0, verdict |-> "none", by |-> 0]

Unchecked(profile) == [checked |-> FALSE, decision |-> "allow", profile |-> profile]
Rejected           == [checked |-> FALSE, decision |-> "rejected", profile |-> "none"]

Init ==
    /\ files \in [policies : Policies, signals : SignalFiles]
    /\ boot \in BOOLEAN
    /\ row = "none" /\ revoked = FALSE
    /\ apc = "down"
    /\ loaded = <<>>
    /\ crashes = 0
    /\ client \in {"node", "mcp"}
    /\ call = NoCall /\ request = "none" /\ reply = NoReply
    /\ result = NoResult
    /\ kept = 0 /\ seen = NotSeen /\ told = NotTold

-----------------------------------------------------------------------------
(* The operator: an edit matters at the next start only, so that is when it is made *)

Edit ==
    /\ apc = "down"
    /\ files' \in [policies : Policies, signals : SignalFiles]
    /\ boot' \in BOOLEAN
    /\ UNCHANGED <<keys, apc, loaded, crashes, client, node, mcp>>

\* Nothing in the engine sets "disabled"; it is set in the database.
Disable ==
    /\ row = "enabled"
    /\ row' = "disabled"
    /\ revoked' = TRUE
    /\ UNCHANGED <<operator, apc, loaded, crashes, client, node, mcp>>

-----------------------------------------------------------------------------
(* lifespan *)

Start ==
    /\ apc = "down"
    /\ apc' = "keys"
    /\ UNCHANGED <<operator, keys, loaded, crashes, client, node, mcp>>

\* Mutant: INSERT OR REPLACE.
UpsertReplaces == row' = IF boot THEN "enabled" ELSE row

\* On conflict only the label is updated.
Upsert == row' = IF boot /\ row = "none" THEN "enabled" ELSE row

Bootstrap ==
    /\ apc = "keys"
    /\ Upsert
    /\ apc' = "files"
    /\ UNCHANGED <<operator, revoked, loaded, crashes, client, node, mcp>>

\* Invalid entries are skipped, "default" is always there.
LoadProfiles(file) ==
    FoldLeft(LAMBDA profiles, spec :
                IF ValidThresholds(spec.challenge, spec.block)
                THEN spec.name :> [DefaultProfile EXCEPT !.challenge = spec.challenge,
                                                         !.block = spec.block] @@ profiles
                ELSE profiles,
             "default" :> DefaultProfile, file.entries)


\* What cannot be read is replaced by a default; what is no mapping raises.
Starts(f) == f.policies.shape # "no mapping" /\ f.signals.shape # "no mapping"

LoadFiles ==
    /\ apc = "files"
    /\ apc' = IF Starts(files) THEN "up" ELSE "down"
    /\ loaded' = IF Starts(files)
                 THEN Append(loaded, [profiles |-> LoadProfiles(files.policies),
                                      signals  |-> files.signals.entries])
                 ELSE loaded
    /\ UNCHANGED <<operator, keys, crashes, client, node, mcp>>

\* The process ends, and with it its requests.
Crash ==
    /\ apc # "down"
    /\ crashes < MaxCrashes
    /\ crashes' = crashes + 1
    /\ apc' = "down"
    /\ request' = "none"
    /\ UNCHANGED <<operator, keys, loaded, client, call, reply, result, mcp>>

-----------------------------------------------------------------------------
(* A check in the API *)

Answer(r) ==
    /\ reply' = r
    /\ request' = "none"
    /\ UNCHANGED <<engine, call, result, mcp>>

\* require_api_key
Authorise ==
    /\ request = "arrived"
    /\ row = "enabled"
    /\ request' = "authorised"
    /\ UNCHANGED <<engine, call, reply, result, mcp>>

Forbid == request = "arrived" /\ row # "enabled" /\ Answer(Failure(403))

Judged(name) ==
    [status |-> 200, profile |-> name,
     decision |-> Decision(SubjectScore, loaded[Now].profiles[name])]

\* Mutant: an unknown profile is replaced by the default one.
JudgeByDefault ==
    /\ request = "authorised"
    /\ Answer(Judged(IF call.profile \in DOMAIN loaded[Now].profiles
                     THEN call.profile ELSE "default"))

\* get_profile, and the check under that profile.
Judge ==
    /\ request = "authorised"
    /\ Answer(IF call.profile \in DOMAIN loaded[Now].profiles
              THEN Judged(call.profile) ELSE Failure(400))

\* The rate limit, a handler that raises, or something else at that URL.
NotJudged ==
    /\ request # "none"
    /\ \E r \in {Failure(429), Failure(500), NoAnswer} : Answer(r)

-----------------------------------------------------------------------------
(* The Node client *)

Resolve(r) ==
    /\ result' = r
    /\ call' = NoCall
    /\ request' = "none"
    /\ reply' = NoReply
    /\ UNCHANGED <<engine, mcp>>

\* The reason is reported to onError of the caller, which may throw: in the try, and
\* once more in the catch.
GivenUp == Resolve(Unchecked(call.profile)) \/ Resolve(Rejected)

\* No key, no value or no fetch: no request is made and onError is not called.  An
\* unencodable value throws before the try.
NotSent ==
    /\ client = "node"
    /\ call.pc = "ended"
    /\ \E p \in ProfileName : Resolve(Unchecked(p)) \/ Resolve(Rejected)

Send ==
    /\ client = "node"
    /\ call.pc = "ended"
    /\ \E p \in ProfileName :
          call' = [pc |-> "waiting", profile |-> p, revoked |-> revoked, since |-> Now]
    /\ request' = IF apc = "up" THEN "arrived" ELSE "none"
    /\ result' = NoResult
    /\ UNCHANGED <<engine, reply, mcp>>

ReadStatus ==
    /\ call.pc = "waiting"
    /\ reply # NoReply
    /\ \/ /\ reply.status = 200
          /\ call' = [call EXCEPT !.pc = "reading"]
          /\ UNCHANGED <<engine, request, reply, result, mcp>>
       \/ reply.status # 200 /\ GivenUp

ReadBody ==
    /\ call.pc = "reading"
    /\ \/ /\ reply.decision # "none"
          /\ Resolve([checked |-> TRUE, decision |-> reply.decision, profile |-> reply.profile])
       \/ reply.decision = "none" /\ GivenUp

\* Mutant: the timer is cleared as soon as the status is there.
GiveUpWaiting == call.pc = "waiting" /\ GivenUp

\* The timer, or the connection: "one case".
GiveUp == call.pc # "ended" /\ GivenUp

-----------------------------------------------------------------------------
(* The MCP server *)

\* GET /v1/signals and /v1/profiles of the n-th load, and the former with ?signal=.
ListSignals(n)       == loaded[n].signals
ListProfiles(n)      == loaded[n].profiles
DescribeSignal(n, s) == Lookup(loaded[n].signals, s)

Served == client = "mcp" /\ apc = "up" /\ row = "enabled"

\* A check it has made for its caller (McpBatch), with one of the profiles there are.
Check ==
    /\ Served
    /\ \E p \in ProfileName \cap DOMAIN loaded[Now].profiles : seen' = [at |-> Now, profile |-> p]
    /\ told' = NotTold
    /\ UNCHANGED <<engine, node, kept>>

\* catalogue(): GET /v1/signals, once.
FetchCatalogue ==
    /\ seen # NotSeen
    /\ kept = 0
    /\ Served
    /\ kept' = Now
    /\ UNCHANGED <<engine, node, seen, told>>

\* Mutant: a score at the block threshold is only challenged.
VerdictAbove(score, p) ==
    IF score > p.block THEN "block"
    ELSE IF score >= p.challenge THEN "challenge" ELSE "allow"

\* Which threshold the score has crossed, as the explanation words it.
Verdict(score, p) ==
    IF score >= p.block THEN "block"
    ELSE IF score >= p.challenge THEN "challenge" ELSE "allow"

\* monapi_explain_decision: the entry in the kept catalogue, and the verdict from GET
\* /v1/profiles; without an answer, or without that profile, there is no verdict.
ExplainDecision ==
    /\ seen # NotSeen
    /\ kept # 0
    /\ \E reached \in BOOLEAN :
          /\ reached => Served
          /\ told' = [of      |-> seen,
                      meaning |-> Explain(ListSignals(kept), SubjectSignal),
                      verdict |-> IF reached /\ seen.profile \in DOMAIN ListProfiles(Now)
                                  THEN Verdict(SubjectScore, ListProfiles(Now)[seen.profile])
                                  ELSE "none",
                      by      |-> Now]
    /\ seen' = NotSeen
    /\ UNCHANGED <<engine, node, kept>>

-----------------------------------------------------------------------------

Lifespan == Start \/ Bootstrap \/ LoadFiles

Next ==
    \/ Edit \/ Disable
    \/ Lifespan \/ Crash
    \/ Authorise \/ Forbid \/ Judge \/ NotJudged
    \/ NotSent \/ Send \/ ReadStatus \/ ReadBody \/ GiveUp
    \/ Check \/ FetchCatalogue \/ ExplainDecision

\* compose restarts the API, and the timer of a call runs out.  The API need not answer.
Spec == Init /\ [][Next]_vars /\ WF_vars(Lifespan) /\ WF_vars(GiveUp)

-----------------------------------------------------------------------------
(* What the clients can rely on *)

\* A call that says it was checked tells the decision of an API that ran after the call
\* was made, about the profile the caller named as that API had loaded it; any other call
\* that resolves is "allow" under that profile.  A late answer, a restart with other
\* policies or a profile that was skipped does not change that (index.ts, lines 168-241;
\* deps.py, lines 8-17; profiles.py, lines 30-63).
CheckedIsTrue ==
    [][call.pc # "ended" /\ call'.pc = "ended" =>
          \/ ~result'.checked /\ result' \in {Unchecked(call.profile), Rejected}
          \/ /\ result'.checked
             /\ result'.profile = call.profile
             /\ \E n \in call.since..Now :
                   /\ n > 0
                   /\ call.profile \in DOMAIN loaded[n].profiles
                   /\ result'.decision = Decision(SubjectScore, loaded[n].profiles[call.profile])]_vars

\* A key that is disabled stays so: no call made after that is checked, although the key
\* is still in BOOTSTRAP_API_KEYS and every start upserts it (auth.py, lines 19-41;
\* sqlite.py, lines 55-76).
RevokedKeyRefused ==
    [][call.pc # "ended" /\ call'.pc = "ended" /\ call.revoked => ~result'.checked]_vars

\* Every call of the Node client ends, although the API may be down, answer late, or
\* send a status and never the body (index.ts, lines 189-240).
NodeAnswers == call.pc # "ended" ~> call.pc = "ended"


\* Whatever catalogue is loaded, the loops over its entries find the one that says most
\* about an id, and the engine and the client the same one (signals.py, lines 34-58;
\* client.py, lines 184-200).  It does not depend on a state: it is looked at before the
\* first start.
MostSpecific == apc = "down" /\ loaded = <<>> /\ row = "none" => LoopsFindBest

\* The MCP server explains a check by what the API that made it goes by: the entry that
\* API would look up, unless its catalogue has changed since the server fetched it; and
\* the verdict that API gave, unless the profiles have changed (server.py, lines 214-269;
\* client.py, lines 174-200; meta.py, lines 27-75).
ExplainedAsDecided ==
    told # NotTold =>
        /\ ListSignals(kept) = ListSignals(told.of.at)
              => told.meaning = DescribeSignal(told.of.at, SubjectSignal)
        /\ told.verdict # "none" /\ ListProfiles(told.by) = ListProfiles(told.of.at)
              => told.verdict = Decision(SubjectScore, ListProfiles(told.of.at)[told.of.profile])
=============================================================================
