------------------------------- MODULE Checks -------------------------------
(***************************************************************************)
(* The three checks of the API (engine/app/api/v1/endpoints/check_ip.py,   *)
(* check_domain.py, check_email.py) as the event loop runs them: a handler *)
(* runs on its own from one await to the next, and what other handlers do  *)
(* comes in between.                                                       *)
(*                                                                         *)
(* All handlers share one IndexStore, which maybe_reload overwrites in     *)
(* place.  DNS is resolved by blocking calls, so everything a handler      *)
(* reads from the index it reads before its first await.  The email check  *)
(* then waits for the catch-all table and for the verifier, the other two  *)
(* for the enricher.                                                       *)
(*                                                                         *)
(* The index is worth the number of its build, and a reload brings in the  *)
(* last one, whole: IndexPublish says when that is so.  Authentication and *)
(* the choice of the profile come before the handler.                      *)
(***************************************************************************)
EXTENDS Scoring, OneEdit
LOCAL INSTANCE SequencesExt

CONSTANTS
    Request,
    Domain,
    Ip,
    Host,
    Invalid,            \* stands for the domain of an address that is no address
    Profile,            \* the profiles of policies.yaml
    Role,               \* can the local part be a role account?  a set of BOOLEANs
    Typo,               \* the domains one edit away from a mailbox provider
    MxAnswers,          \* sequences of MX hosts, <<>> for none and for a failure
    AddressOf,          \* the addresses of a host, <<>> for none and for a failure
    Category, Source,   \* what feeds.yaml and the handlers name
    DomainHits(_, _),   \* the findings of build g for a domain, one per category
    IpHits(_, _),       \* the findings of build g for an address
    MaxBuilds           \* bound: how many builds are published

\* What the index says of a name: int(...) makes the weight a number.
IndexHit == [category : Category, weight : Int, source : Source]

ASSUME ChecksAssumption ==
    /\ Invalid \notin Domain
    /\ Typo \subseteq Domain
    /\ Role \subseteq BOOLEAN
    /\ MxAnswers \subseteq Seq(Host)
    /\ AddressOf \in [Host -> Seq(Ip)]
    /\ MaxBuilds \in Nat \ {0}
    /\ {"syntax", "role_account", "typo", "mx"} \subseteq Category
    /\ {"validator", "static_list", "dns"} \subseteq Source
    /\ \A g \in 1..MaxBuilds :
          /\ \A d \in Domain : DomainHits(g, d) \in Seq(IndexHit)
          /\ \A ip \in Ip : IpHits(g, ip) \in Seq(IndexHit)
    /\ \A p \in Profile :
          /\ ValidThresholds(p.challenge, p.block)
          /\ p.weights \in [DOMAIN p.weights -> Int]

MxLimit == 5

\* VerificationResult.status
Status == {"deliverable", "undeliverable", "catchall", "unknown"}

\* What says nothing of a mailbox: a source that was not asked, and one that cannot tell.
Silent == {"none", "unknown"}
Silence == [dns |-> "none", table |-> "none", verifier |-> "none"]

VARIABLES
    published,   \* the last build
    served,      \* the build in the IndexStore
    catchall,    \* the domains in the catchall_domains table
    verifier,    \* is an external verifier configured?
    req          \* the requests; "heard" is history: what each source told a request

vars == <<published, served, catchall, verifier, req>>

Idle == [pc |-> "new", kind |-> "none", dom |-> Invalid, profile |-> DefaultProfile,
         asked |-> 0, signals |-> <<>>, evidence |-> <<>>, heard |-> Silence,
         deliverability |-> "unknown", isCatchall |-> FALSE,
         score |-> 0, confidence |-> 2, decision |-> "none"]

Init ==
    /\ published = 1
    /\ served = 1
    /\ catchall = {}
    /\ verifier \in BOOLEAN
    /\ req = [r \in Request |-> Idle]

-----------------------------------------------------------------------------
(* Around the API *)

Publish ==
    /\ published < MaxBuilds
    /\ published' = published + 1
    /\ UNCHANGED <<served, catchall, verifier, req>>

\* The table is filled by something else.
TouchCatchall(d) ==
    /\ catchall' = catchall \cup {d}
    /\ UNCHANGED <<published, served, verifier, req>>

-----------------------------------------------------------------------------
(* What a handler reads before its first await *)

Findings(kind, hits) ==
    [i \in DOMAIN hits |-> Signal(kind, hits[i].category, hits[i].weight, hits[i].source)]

IpFindings(g, ips) ==
    FlattenSeq([i \in DOMAIN ips |-> Findings("feed", IpHits(g, ips[i]))])

\* The addresses of the first five MX hosts.
MxAddresses(mx) ==
    LET n == IF Len(mx) < MxLimit THEN Len(mx) ELSE MxLimit
    IN  FlattenSeq([i \in 1..n |-> AddressOf[mx[i]]])

When(condition, signal) == IF condition THEN <<signal>> ELSE <<>>

Syntax     == Signal("invalid_syntax", "syntax", 50, "validator")
RoleFound  == Signal("role_account", "role_account", 5, "static_list")
TypoFound  == Signal("domain_typo", "typo", 10, "static_list")
NoMx       == Signal("no_mx", "mx", 30, "dns")
ImplicitMx == Signal("implicit_mx", "mx", 5, "dns")

Shows(signals, kind) == \E i \in DOMAIN signals : signals[i].kind = kind

\* Mutant: the findings of all mail servers count.
EmailSignalsPerHost(g, d, role, mx, a) ==
    LET hits == DomainHits(g, d)
    IN  Findings("email_domain", hits)
        \o When(role, RoleFound)
        \o When(hits = <<>> /\ d \in Typo, TypoFound)
        \o When(mx = <<>> /\ ~a, NoMx)
        \o When(mx = <<>> /\ a, ImplicitMx)
        \o IpFindings(g, MxAddresses(mx))

\* The findings for the address, in the order the handler collects them.
EmailSignals(g, d, role, mx, a) ==
    LET hits == DomainHits(g, d)
    IN  Findings("email_domain", hits)
        \o When(role, RoleFound)
        \o When(hits = <<>> /\ d \in Typo, TypoFound)
        \o When(mx = <<>> /\ ~a, NoMx)
        \o When(mx = <<>> /\ a, ImplicitMx)
        \o Dedupe(IpFindings(g, MxAddresses(mx)), {"datacenter"})

\* The domain check keeps the datacenter findings.
DomainSignals(g, d, ips) ==
    Findings("domain", DomainHits(g, d)) \o Dedupe(IpFindings(g, ips), {})

-----------------------------------------------------------------------------
(* The handlers *)

\* Mutant: the evidence keeps the weights of the feeds.
AnswerOldEvidence(q) ==
    LET signals == Effective(q.signals, q.profile)
    IN  [q EXCEPT !.pc         = "done",
                  !.signals    = signals,
                  !.evidence   = Kept(q.evidence, q.profile),
                  !.score      = Score(signals),
                  !.confidence = Confidence(signals),
                  !.decision   = Decision(Score(signals), q.profile)]

\* Mutant: the score is that of the findings before the profile.
AnswerScoreFirst(q) ==
    LET signals == Effective(q.signals, q.profile)
    IN  [q EXCEPT !.pc         = "done",
                  !.signals    = signals,
                  !.evidence   = Effective(q.evidence, q.profile),
                  !.score      = Score(q.signals),
                  !.confidence = Confidence(signals),
                  !.decision   = Decision(Score(signals), q.profile)]

\* Mutant: the score is the plain sum.
AnswerUnclamped(q) ==
    LET signals == Effective(q.signals, q.profile)
    IN  [q EXCEPT !.pc         = "done",
                  !.signals    = signals,
                  !.evidence   = Effective(q.evidence, q.profile),
                  !.score      = Total(signals),
                  !.confidence = Confidence(signals),
                  !.decision   = Decision(Score(signals), q.profile)]

\* apply_profile, score, confidence, decision: the end of every handler.
Answer(q) ==
    LET signals == Effective(q.signals, q.profile)
    IN  [q EXCEPT !.pc         = "done",
                  !.signals    = signals,
                  !.evidence   = Effective(q.evidence, q.profile),
                  !.score      = Score(signals),
                  !.confidence = Confidence(signals),
                  !.decision   = Decision(Score(signals), q.profile)]

\* Up to the first await: maybe_reload, then the findings.
Begin(r, kind, d, p, signals, dns) ==
    /\ req[r].pc = "new"
    /\ served' = published
    /\ req' = [req EXCEPT ![r] =
                 [Idle EXCEPT !.kind = kind, !.dom = d, !.profile = p,
                              !.asked = published,
                              !.signals = signals, !.evidence = EvidenceOf(signals),
                              !.heard.dns = dns,
                              !.pc = IF kind = "email" THEN "catchall" ELSE "enrich",
                              !.deliverability = IF Shows(signals, "no_mx")
                                                 THEN "undeliverable" ELSE "unknown"]]
    /\ UNCHANGED <<published, catchall, verifier>>

CheckEmail(r, d, p) ==
    \E role \in Role, mx \in MxAnswers, a \in BOOLEAN :
        /\ mx # <<>> => ~a     \* the A record is not asked for
        /\ Begin(r, "email", d, p, EmailSignals(published, d, role, mx, a),
                 IF mx = <<>> /\ ~a THEN "undeliverable" ELSE "unknown")

\* No domain to look at: nothing is awaited.
CheckInvalidEmail(r, p) ==
    /\ req[r].pc = "new"
    /\ served' = published
    /\ req' = [req EXCEPT ![r] =
                 Answer([Idle EXCEPT !.kind = "email", !.profile = p, !.asked = published,
                                     !.signals = <<Syntax>>,
                                     !.evidence = EvidenceOf(<<Syntax>>),
                                     !.deliverability = "undeliverable"])]
    /\ UNCHANGED <<published, catchall, verifier>>

CheckDomain(r, d, p) ==
    \E ips \in {AddressOf[h] : h \in Host} \cup {<<>>} :
        Begin(r, "domain", d, p, DomainSignals(published, d, ips), "none")

\* The ip check scores before it awaits the enricher; the answer is the same.
CheckIp(r, ip, p) ==
    Begin(r, "ip", Invalid, p, IpFindings(published, <<ip>>), "none")

\* The verifier is asked, or there is none and the answer is complete.
AfterCatchall(q) == IF verifier THEN [q EXCEPT !.pc = "verify"] ELSE Answer(q)

\* Mutant: the mail servers are looked up after the await, in the index of that time.
CatchallReadThenLookup(r) ==
    /\ req[r].pc = "catchall"
    /\ \E h \in Host :
          LET late == Dedupe(IpFindings(served, AddressOf[h]), {"datacenter"})
          IN  req' = [req EXCEPT ![r] = AfterCatchall(
                        [@ EXCEPT !.signals = @ \o late,
                                  !.evidence = @ \o EvidenceOf(late)])]
    /\ UNCHANGED <<published, served, catchall, verifier>>

CatchallRead(r) ==
    /\ req[r].pc = "catchall"
    /\ req' = [req EXCEPT ![r] = AfterCatchall(
                 IF @.dom \in catchall
                 THEN [@ EXCEPT !.isCatchall = TRUE, !.deliverability = "catchall",
                                !.heard.table = "catchall"]
                 ELSE [@ EXCEPT !.heard.table = "unknown"])]
    /\ UNCHANGED <<published, served, catchall, verifier>>

\* Mutant: what the table says of a domain is not replaced any more.
ToldUnlessListed(q, status) ==
    IF status = "unknown" \/ q.isCatchall THEN q
    ELSE [q EXCEPT !.deliverability = status, !.isCatchall = status = "catchall"]

\* A definitive status replaces what DNS and the table said; a request that fails
\* is "unknown" and replaces nothing.
Told(q, status) ==
    IF status = "unknown" THEN q
    ELSE [q EXCEPT !.deliverability = status,
                   !.isCatchall = q.isCatchall \/ status = "catchall"]

Verified(r, status) ==
    /\ req[r].pc = "verify"
    /\ req' = [req EXCEPT ![r] = Answer([Told(@, status) EXCEPT !.heard.verifier = status])]
    /\ UNCHANGED <<published, served, catchall, verifier>>

Enriched(r) ==
    /\ req[r].pc = "enrich"
    /\ req' = [req EXCEPT ![r] = Answer(@)]
    /\ UNCHANGED <<published, served, catchall, verifier>>

\* What the handler does not catch is answered with 500: a locked database, a
\* verifier whose JSON is no object, an enricher that raises in the ip check.
Raises(r) ==
    /\ \/ req[r].pc \in {"catchall", "verify"}
       \/ req[r].pc = "enrich" /\ req[r].kind = "ip"
    /\ req' = [req EXCEPT ![r].pc = "failed"]
    /\ UNCHANGED <<published, served, catchall, verifier>>

\* The client's next request.
NextRequest(r) ==
    /\ req[r].pc \in {"done", "failed"}
    /\ req' = [req EXCEPT ![r] = Idle]
    /\ UNCHANGED <<published, served, catchall, verifier>>

Next ==
    \/ Publish
    \/ \E d \in Domain : TouchCatchall(d)
    \/ \E r \in Request :
          \/ \E p \in Profile :
                \/ CheckInvalidEmail(r, p)
                \/ \E d \in Domain : CheckEmail(r, d, p) \/ CheckDomain(r, d, p)
                \/ \E ip \in Ip : CheckIp(r, ip, p)
          \/ CatchallRead(r) \/ Enriched(r) \/ Raises(r) \/ NextRequest(r)
          \/ \E status \in Status : Verified(r, status)

Spec == Init /\ [][Next]_vars
-----------------------------------------------------------------------------
(* What an answer promises *)

TypeOK ==
    /\ published \in 1..MaxBuilds /\ served \in 1..published
    /\ catchall \subseteq Domain
    /\ verifier \in BOOLEAN
    /\ \A r \in Request :
          /\ req[r].pc \in {"new", "catchall", "verify", "enrich", "done", "failed"}
          /\ req[r].kind \in {"none", "ip", "domain", "email"}
          /\ req[r].dom \in Domain \cup {Invalid}
          /\ req[r].asked \in 0..served
          /\ req[r].deliverability \in Status
          /\ req[r].score \in 0..100
          /\ req[r].decision \in {"none", "allow", "challenge", "block"}

Done(r) == req[r].pc = "done"

InBuild(g, s) ==
    \E hits \in {DomainHits(g, d) : d \in Domain} \cup {IpHits(g, ip) : ip \in Ip} :
        \E i \in DOMAIN hits : hits[i].category = s.category /\ hits[i].source = s.source

\* Every finding of an answer that comes from the index comes from one build, the
\* one that was the last when the request came, although a later request may have
\* reloaded the index while this one was waiting (check_email, lines 36-37, 78-92,
\* 191-216).
OneBuild ==
    \A r \in Request : \A i \in DOMAIN req[r].signals :
        req[r].signals[i].kind \in {"feed", "domain", "email_domain"}
            => InBuild(req[r].asked, req[r].signals[i])

\* The evidence of an answer is that of its signals, one by one and with the weights
\* the profile gave them, and it is enough to recompute the score, the confidence and
\* the decision that are reported with it: all three are of the same findings under the
\* same profile (apply_profile, lines 90-96, and the ends of the three handlers).
Explained ==
    \A r \in Request : Done(r) =>
        LET q == req[r]
        IN  /\ q.evidence = EvidenceOf(q.signals)
            /\ q.score = Score(q.evidence)
            /\ q.confidence = Confidence(q.evidence)
            /\ q.decision = Decision(q.score, q.profile)
            /\ \A i \in DOMAIN q.evidence :
                  LET e == q.evidence[i]
                  IN  /\ e.category \notin q.profile.ignore
                      /\ e.category \in DOMAIN q.profile.weights
                            => e.weight = q.profile.weights[e.category]

\* However many hosts a domain has and however many of them a feed lists, the feed
\* is one finding; and a mail server is never held against an address for being in
\* a datacenter (dedupe_host_signals, lines 59-67).
OneFindingPerFeed ==
    \A r \in Request : req[r].kind \in {"domain", "email"} =>
        LET found == req[r].signals
            feeds == {i \in DOMAIN found : found[i].kind = "feed"}
        IN  /\ \A i, j \in feeds :
                  found[i].source = found[j].source /\ found[i].category = found[j].category
                      => i = j
            /\ req[r].kind = "email" => \A i \in feeds : found[i].category # "datacenter"

\* The last source that knows wins: the verifier before the table before DNS.
LastWord(heard) ==
    IF heard.verifier \notin Silent THEN heard.verifier
    ELSE IF heard.table \notin Silent THEN heard.table ELSE heard.dns

\* The deliverability of an answer is the last word of the sources, every one of which
\* was asked, the verifier if there is one; the catch-all flag stays once a source has
\* said so, although a later one says otherwise; and a domain that no mail reaches shows
\* the finding for it, unless the profile ignores that, which changes nothing of the
\* deliverability.  What is no address is undeliverable, with no source asked and for
\* that reason only (check_email, lines 61-73, 149-176, 203-216).
DeliverabilityExplained ==
    \A r \in Request : Done(r) /\ req[r].kind = "email" =>
        LET q == req[r]
            h == req[r].heard
        IN  /\ q.dom # Invalid =>
                  /\ q.deliverability = LastWord(h)
                  /\ q.isCatchall <=> "catchall" \in {h.table, h.verifier}
                  /\ h.dns # "none" /\ h.table # "none" /\ (h.verifier # "none" <=> verifier)
                  /\ h.table = "catchall" => q.dom \in catchall
                  /\ Shows(q.signals, "no_mx") <=>
                        h.dns = "undeliverable" /\ "mx" \notin q.profile.ignore
            /\ q.dom = Invalid =>
                  /\ q.deliverability = "undeliverable" /\ ~q.isCatchall /\ h = Silence
                  /\ \A i \in DOMAIN q.signals : q.signals[i].kind = "invalid_syntax"

\* signals.yaml:177-179 says of email:no_mx: "Worth a challenge on its own at the
\* default threshold; combine with anything else and it blocks."
NoMxCombinedBlocks ==
    \A r \in Request : Done(r) /\ req[r].profile = DefaultProfile =>
        LET found == req[r].signals
        IN  Shows(found, "no_mx") /\ Len(found) > 1
                => req[r].decision = "block"

\* The test behind Typo finds exactly the words that one edit turns into each other: at
\* the first and the last letter, with repeated letters and with the empty word too
\* (email_checks.py, lines 29-61).  It does not depend on a state: it is looked at
\* before the first request.
TypoTestExact == catchall = {} /\ (\A r \in Request : req[r] = Idle) => OneEditIsOneEdit
=============================================================================
