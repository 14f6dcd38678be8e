------------------------------ MODULE McpBatch ------------------------------
(***************************************************************************)
(* monapi_check_emails of the MCP server (mcp/src/monapi_mcp/server.py)    *)
(* over the client it shares (client.py): a list of addresses is checked a *)
(* few at a time against an engine that limits how many checks a key gets  *)
(* per window.                                                             *)
(*                                                                         *)
(* Every distinct address is a task.  A task holds a permit of the         *)
(* semaphore from its first request to its end, the pauses between its     *)
(* attempts included.  The tool answers when all tasks have ended; an      *)
(* exception other than MonapiError ends it at once, without an answer,    *)
(* while the other tasks run on.                                           *)
(*                                                                         *)
(* Time is abstract: a pause ends and a window begins whenever it likes.   *)
(***************************************************************************)
EXTENDS ListOps
LOCAL INSTANCE SequencesExt

CONSTANTS
    Address,
    Lists,        \* the lists of addresses the tool is called with
    Concurrency,  \* BATCH_CONCURRENCY
    MaxRetries,   \* MAX_RETRIES
    Limit,        \* RATE_LIMIT_EMAIL: the checks of a window
    DecisionOn,   \* per address: the decision of the engine, if it is asked
    RetryAfter    \* what a 429 may say: "none", "seconds" or "date"

ASSUME BatchAssumption ==
    /\ Lists \subseteq Seq(Address) \ {<<>>}
    /\ Concurrency \in Nat \ {0}
    /\ MaxRetries \in Nat \ {0}
    /\ Limit \in Nat
    /\ RetryAfter \subseteq {"none", "seconds", "date"}
    /\ DecisionOn \in [Address -> {"block", "challenge", "allow"}]

VARIABLES
    key,       \* whether the server was started with an API key
    emails,    \* the list of this call
    call,      \* "running", "returned" or "raised"
    pc,        \* per address: where its task is
    attempt,   \* per address: the attempts begun
    free,      \* the permits left
    results,   \* the addresses with a result, as they came in
    failed,    \* the addresses with a reason why not, as they came in
    used       \* checks the engine has counted in this window

vars == <<key, emails, call, pc, attempt, free, results, failed, used>>

\* The caller's order of the distinct addresses: where each stands first.
Order ==
    [a \in ToSet(emails) |->
        CHOOSE i \in DOMAIN emails : emails[i] = a /\ \A j \in 1..(i - 1) : emails[j] # a]

Tasks(list) == [a \in Address |-> IF a \in ToSet(list) THEN "queued" ELSE "absent"]

NotTried == [a \in Address |-> 0]

Init ==
    /\ key \in BOOLEAN
    /\ emails \in Lists
    /\ call = "running"
    /\ pc = Tasks(emails)
    /\ attempt = NotTried
    /\ free = Concurrency
    /\ results = <<>>
    /\ failed = <<>>
    /\ used = 0

-----------------------------------------------------------------------------
(* The task of an address *)

\* async with semaphore: first come, first served.
Acquire(a) ==
    /\ pc[a] = "queued"
    /\ free > 0
    /\ \A b \in ToSet(emails) : pc[b] = "queued" => Order[a] <= Order[b]
    /\ free' = free - 1
    /\ pc' = [pc EXCEPT ![a] = "send"]
    /\ UNCHANGED <<key, emails, call, attempt, results, failed, used>>

Send(a) ==
    /\ key
    /\ pc[a] = "send"
    /\ attempt' = [attempt EXCEPT ![a] = @ + 1]
    /\ pc' = [pc EXCEPT ![a] = "sent"]
    /\ UNCHANGED <<key, emails, call, free, results, failed, used>>

End(a, how) ==
    /\ pc' = [pc EXCEPT ![a] = how]
    /\ free' = free + 1
    /\ UNCHANGED <<key, emails, attempt>>

\* Without a key nothing is sent.
NoKey(a) ==
    /\ ~key
    /\ pc[a] = "send"
    /\ failed' = Append(failed, a)
    /\ End(a, "refused")
    /\ UNCHANGED <<call, results, used>>

\* A check that the engine has made: it always has a decision (check_email.py, line 228).
Checked(a) ==
    /\ pc[a] = "sent"
    /\ used < Limit
    /\ used' = used + 1
    /\ results' = Append(results, a)
    /\ End(a, "checked")
    /\ UNCHANGED <<call, failed>>

RefusedAsResult(a) ==   \* results.append in the except clause
    /\ pc[a] = "sent"
    /\ used' \in {used, used + 1} \cap 0..Limit
    /\ results' = Append(results, a)
    /\ End(a, "refused")
    /\ UNCHANGED <<call, failed>>

\* Every error get() and _parse() turn into a MonapiError: no answer in time, no
\* connection, 400, 401, 403, 404, 5xx, no JSON.  The engine may have counted it.
Refused(a) ==
    /\ pc[a] = "sent"
    /\ used' \in {used, used + 1} \cap 0..Limit
    /\ failed' = Append(failed, a)
    /\ End(a, "refused")
    /\ UNCHANGED <<call, results>>

LimitedWithoutEnd(a) ==   \* "while True"
    /\ pc[a] = "sent"
    /\ used >= Limit
    /\ pc' = [pc EXCEPT ![a] = "pause"]
    /\ attempt' = [attempt EXCEPT ![a] = @ - 1]
    /\ UNCHANGED <<key, emails, call, free, results, failed, used>>

LimitedOnceMore(a) ==   \* attempt < MAX_RETRIES
    /\ pc[a] = "sent"
    /\ used >= Limit
    /\ attempt[a] <= MaxRetries
    /\ pc' = [pc EXCEPT ![a] = "pause"]
    /\ UNCHANGED <<key, emails, call, attempt, free, results, failed, used>>

LimitedReleases(a) ==   \* the permit is given back for the pause, and not taken again
    /\ pc[a] = "sent"
    /\ used >= Limit
    /\ attempt[a] < MaxRetries
    /\ pc' = [pc EXCEPT ![a] = "pause"]
    /\ free' = free + 1
    /\ UNCHANGED <<key, emails, call, attempt, results, failed, used>>

\* 429, and another attempt is left: wait for as long as Retry-After says, or for
\* the client's own delay.
Limited(a) ==
    /\ pc[a] = "sent"
    /\ used >= Limit
    /\ attempt[a] < MaxRetries
    /\ RetryAfter \cap {"none", "seconds"} # {}
    /\ pc' = [pc EXCEPT ![a] = "pause"]
    /\ UNCHANGED <<key, emails, call, attempt, free, results, failed, used>>

PauseEnds(a) ==
    /\ pc[a] = "pause"
    /\ pc' = [pc EXCEPT ![a] = "send"]
    /\ UNCHANGED <<key, emails, call, attempt, free, results, failed, used>>

GiveUpSilently(a) ==   \* "except MonapiError: return"
    /\ pc[a] = "sent"
    /\ used >= Limit
    /\ attempt[a] = MaxRetries
    /\ End(a, "limited")
    /\ UNCHANGED <<call, results, failed, used>>

\* 429 on the last attempt.
GiveUp(a) ==
    /\ pc[a] = "sent"
    /\ used >= Limit
    /\ attempt[a] = MaxRetries
    /\ failed' = Append(failed, a)
    /\ End(a, "limited")
    /\ UNCHANGED <<call, results, used>>

\* float() of a Retry-After that is a date: ValueError, which nobody catches.
DateRaises(a) ==
    /\ pc[a] = "sent"
    /\ used >= Limit
    /\ attempt[a] < MaxRetries
    /\ "date" \in RetryAfter
    /\ call' = "raised"
    /\ End(a, "raised")
    /\ UNCHANGED <<results, failed, used>>

-----------------------------------------------------------------------------

Ended == {"absent", "checked", "refused", "limited", "raised"}

InOrder(s) == Sorted(s, Order)

\* gather is done: both lists are sorted and formatted.
Return ==
    /\ call = "running"
    /\ \A a \in Address : pc[a] \in Ended
    /\ call' = "returned"
    /\ results' = InOrder(results)
    /\ failed' = InOrder(failed)
    /\ UNCHANGED <<key, emails, pc, attempt, free, used>>

\* The next call; what an earlier one left running is at its end.
NextCall ==
    /\ call \in {"returned", "raised"}
    /\ \A a \in Address : pc[a] \in Ended
    /\ emails' \in Lists
    /\ call' = "running"
    /\ pc' = Tasks(emails')
    /\ attempt' = NotTried
    /\ free' = Concurrency
    /\ results' = <<>>
    /\ failed' = <<>>
    /\ UNCHANGED <<key, used>>

\* A window of the rate limit begins.
NewWindow ==
    /\ used > 0
    /\ used' = 0
    /\ UNCHANGED <<key, emails, call, pc, attempt, free, results, failed>>

Step(a) ==
    \/ Acquire(a) \/ Send(a) \/ NoKey(a) \/ Checked(a) \/ Refused(a)
    \/ Limited(a) \/ PauseEnds(a) \/ GiveUp(a) \/ DateRaises(a)

Next == Return \/ NextCall \/ NewWindow \/ \E a \in Address : Step(a)

\* Requests have a timeout and pauses an end; nobody has to call again.
Spec == Init /\ [][Next]_vars /\ WF_vars(Return) /\ \A a \in Address : WF_vars(Step(a))

-----------------------------------------------------------------------------
(* The report: format_batch *)

\* DECISION_ORDER
Decisions == {"block", "challenge", "allow"}

Section(decision) == At(results, {i \in DOMAIN results : DecisionOn[results[i]] = decision})

Report == [g \in Decisions \cup {"failed"} |-> IF g = "failed" THEN failed ELSE Section(g)]

-----------------------------------------------------------------------------
(* What the tool promises *)

Busy == {a \in Address : pc[a] \in {"send", "sent", "pause"}}

TypeOK ==
    /\ key \in BOOLEAN
    /\ emails \in Lists
    /\ call \in {"running", "returned", "raised"}
    /\ pc \in [Address -> Ended \cup {"queued", "send", "sent", "pause"}]
    /\ attempt \in [Address -> 0..MaxRetries]
    /\ free \in 0..Concurrency
    /\ ToSet(results) \cup ToSet(failed) \subseteq Address
    /\ used \in 0..Limit

\* At most BATCH_CONCURRENCY addresses are under way, whatever mixture of errors,
\* pauses and results the others end in: no permit is lost and none is made
\* (server.py, lines 129-140).
PermitsKept == Cardinality(Busy) + free = Concurrency

\* "a partial answer, never a silent gap": the report lists every distinct address of
\* the call where it belongs and nowhere else: under the decision of the engine if it was
\* checked, as not checked if its task ended in any other way.  Each of these lists is in
\* the caller's order, without repetition (server.py, lines 129-155; format.py, lines
\* 125-170).
NoSilentGap ==
    call = "returned" =>
        /\ \A a \in ToSet(emails), g \in DOMAIN Report :
              a \in ToSet(Report[g]) <=> IF pc[a] = "checked" THEN g = DecisionOn[a]
                                                           ELSE g = "failed"
        /\ \A s \in {Report[g] : g \in DOMAIN Report} :
              /\ ToSet(s) \subseteq ToSet(emails)
              /\ \A i, j \in DOMAIN s :
                    i < j => \E k, l \in DOMAIN emails :
                                /\ k < l /\ emails[k] = s[i] /\ emails[l] = s[j]
                                /\ \A m \in 1..(l - 1) : emails[m] # s[j]

\* A call ends, however often the engine limits it: no task waits for a permit that
\* never comes, and none is tried for ever (client.py, lines 86-117; server.py,
\* lines 129-146).
Answered == call = "running" ~> call # "running"

\* server.py:112-114: "Addresses that could not be checked are listed separately with
\* the reason -- a partial answer, never a silent gap."
PartialAnswer == call # "raised"
=============================================================================
