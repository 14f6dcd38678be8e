---------------------------- MODULE Checks_proofs ----------------------------
(***************************************************************************)
(* The answers of the three checks are right for any requests, builds,     *)
(* profiles and findings.  First, what the handlers collect: lists of what *)
(* a build supports, in which a feed counts once.  Then, what a profile    *)
(* leaves of such a list.  The inductive invariant carries this from the   *)
(* first await to the answer; it needs, of a request that waits, that its  *)
(* evidence is still that of its signals, and that its deliverability is   *)
(* the last word of those who have spoken: a source that has not been      *)
(* asked has said nothing.  Last, the typo test, whose loop over two       *)
(* words is the invariant of a recursive function: before the first letter *)
(* that differs nothing is skipped, and after it one letter is.            *)
(***************************************************************************)
EXTENDS Checks, ListOps_proofs
LOCAL INSTANCE SequencesExt

-----------------------------------------------------------------------------
(* FlattenSeq *)

\* Every element of the joined list is an element of one of the lists.
LEMMA FlattenElements ==
  ASSUME NEW V, NEW ss \in Seq(Seq(V))
  PROVE  FlattenSeq(ss) \in Seq(V)
<1>1. PICK n \in Nat : n = Len(ss)
  OBVIOUS
<1>2. CASE n = 0
  <2>1. ss \in [1..n -> Seq(V)]
    BY <1>1
  <2>2. ss \in [1..0 -> V]
    BY <1>2, <2>1
  <2>3. ss \in Seq(V)
    BY <2>2
  <2>4. QED
    BY <1>1, <1>2, <2>3 DEF FlattenSeq
<1>3. CASE n # 0
  <2> DEFINE next == [i \in 1..n |-> [x \in Seq(V) |-> x \o ss[i]]]
             Is(f) == f = [i \in 1..n |-> IF i = 1 THEN ss[i] ELSE f[i - 1] \o ss[i]]
             h == CHOOSE f : Is(f)
  <2>1. \A i \in 1..n : ss[i] \in Seq(V)
    BY <1>1
  <2>2. next \in [1..n -> [Seq(V) -> Seq(V)]] /\ <<>> \in Seq(V)
    BY <2>1
  <2>3. PICK f \in [0..n -> Seq(V)] : Follows(f, <<>>, n, next)
    <3> HIDE DEF next
    <3>1. QED
      BY <2>2, Recursion
  <2>4. \A i \in 1..n : f[i] \in Seq(V) /\ f[i] = IF i = 1 THEN ss[i] ELSE f[i - 1] \o ss[i]
    <3>1. ASSUME NEW i \in 1..n
          PROVE  f[i] \in Seq(V) /\ f[i] = IF i = 1 THEN ss[i] ELSE f[i - 1] \o ss[i]
      <4>1. f[i - 1] \in Seq(V) /\ f[i] = next[i][f[i - 1]] /\ f[i] \in Seq(V)
        BY <2>3, Indices DEF Follows
      <4>2. f[i] = f[i - 1] \o ss[i]
        BY <4>1
      <4>3. CASE i = 1
        <5>1. i - 1 = 0 /\ f[0] = <<>>
          BY <2>3, <4>3 DEF Follows
        <5>2. \A s \in Seq(V) : <<>> \o s = s
          OBVIOUS
        <5>3. QED
          BY <2>1, <4>1, <4>2, <4>3, <5>1, <5>2
      <4>4. QED
        BY <4>1, <4>2, <4>3
    <3>2. QED
      BY <3>1
  <2> DEFINE g == [i \in 1..n |-> f[i]]
  <2>5. Is(g)
    <3>1. \A i \in 1..n : i = 1 \/ i - 1 \in 1..n
      OBVIOUS
    <3>2. \A i \in 1..n : g[i] = IF i = 1 THEN ss[i] ELSE g[i - 1] \o ss[i]
      BY <2>4, <3>1
    <3> HIDE DEF g
    <3>3. g = [i \in 1..n |-> g[i]]
      BY DEF g
    <3>4. QED
      BY <3>2, <3>3
  <2>6. Is(h)
    <3> HIDE DEF Is
    <3>1. QED
      BY <2>5
  <2>7. FlattenSeq(ss) = h[n]
    BY <1>1, <1>3 DEF FlattenSeq
  <2> HIDE DEF h
  <2> DEFINE T == {i \in 0..n : i = 0 \/ h[i] \in Seq(V)}
  <2>8. 0 \in T
    BY Indices
  <2>9. ASSUME NEW i \in 0..(n - 1), i \in T PROVE i + 1 \in T
    <3>1. i + 1 \in 1..n /\ i + 1 \in 0..n /\ (i + 1) - 1 = i /\ (i # 0 <=> i + 1 # 1)
      OBVIOUS
    <3>2. \A j \in 1..n : h[j] = IF j = 1 THEN ss[j] ELSE h[j - 1] \o ss[j]
      BY <2>6
    <3>3. h[i + 1] = IF i + 1 = 1 THEN ss[i + 1] ELSE h[i] \o ss[i + 1]
      BY <3>1, <3>2
    <3>4. h[i + 1] \in Seq(V)
      BY <2>1, <2>9, <3>1, <3>3
    <3>5. QED
      BY <3>1, <3>4
  <2> HIDE DEF T
  <2>10. \A i \in 0..n : i \in T
    BY <2>8, <2>9, SetInduction
  <2>11. n \in T
    BY <2>10
  <2>12. QED
    BY <1>3, <2>7, <2>11 DEF T
<1>4. QED
  BY <1>2, <1>3

-----------------------------------------------------------------------------
(* Profiles *)

Kind ==
    {"feed", "domain", "email_domain",
     "invalid_syntax", "role_account", "domain_typo", "no_mx", "implicit_mx"}

\* What comes from the index.
IndexKind == {"feed", "domain", "email_domain"}

SignalType == [kind : Kind, category : Category, weight : Int, source : Source]

\* What apply_profile leaves of a list is made of its elements, at rising places, with
\* the category kept and not ignored, and what is not ignored is there.
LEMMA EffectiveInOrder ==
  ASSUME NEW xs \in Seq(SignalType), NEW p, p.weights \in [DOMAIN p.weights -> Int]
  PROVE  /\ Effective(xs, p) \in Seq(SignalType)
         /\ \E place \in [DOMAIN Effective(xs, p) -> DOMAIN xs] :
               /\ \A j, k \in DOMAIN Effective(xs, p) : j < k => place[j] < place[k]
               /\ \A k \in DOMAIN Effective(xs, p) :
                     /\ Effective(xs, p)[k] = Reweigh(xs[place[k]], p)
                     /\ Effective(xs, p)[k].category \notin p.ignore
               /\ \A i \in DOMAIN xs : xs[i].category \notin p.ignore =>
                     \E k \in DOMAIN Effective(xs, p) : place[k] = i
<1> DEFINE S == {i \in DOMAIN xs : xs[i].category \notin p.ignore}
           kept == At(xs, S)
           eff == Effective(xs, p)
<1>1. kept \in Seq(SignalType)
  <2> HIDE DEF S
  <2>1. QED
    BY AtInOrder
<1>2. PICK place \in [DOMAIN kept -> S \cap DOMAIN xs] :
         /\ \A j, k \in DOMAIN kept : j < k => place[j] < place[k]
         /\ \A k \in DOMAIN kept : kept[k] = xs[place[k]]
         /\ \A i \in S \cap DOMAIN xs : \E k \in DOMAIN kept : place[k] = i
  <2> HIDE DEF S
  <2>1. QED
    BY AtInOrder
<1>3. eff = [k \in DOMAIN kept |-> Reweigh(kept[k], p)]
  BY DEF Effective, Kept
<1> HIDE DEF kept
<1>4. \A x \in SignalType : Reweigh(x, p) \in SignalType /\ Reweigh(x, p).category = x.category
  BY DEF SignalType, Reweigh
<1>5. /\ DOMAIN eff = DOMAIN kept
      /\ \A k \in DOMAIN kept : eff[k] = Reweigh(kept[k], p) /\ kept[k] \in SignalType
  BY <1>1, <1>3
<1>6. eff \in Seq(SignalType)
  BY <1>1, <1>3, <1>4, <1>5
<1> HIDE DEF eff
<1>7. place \in [DOMAIN eff -> DOMAIN xs]
  BY <1>2, <1>5
<1>8. \A j, k \in DOMAIN eff : j < k => place[j] < place[k]
  BY <1>2, <1>5
<1>9. \A k \in DOMAIN eff : eff[k] = Reweigh(xs[place[k]], p) /\ eff[k].category \notin p.ignore
  <2>1. ASSUME NEW k \in DOMAIN eff PROVE eff[k].category \notin p.ignore
    <3>1. place[k] \in S /\ kept[k] = xs[place[k]] /\ eff[k].category = kept[k].category
      BY <1>2, <1>4, <1>5
    <3>2. QED
      BY <3>1
  <2>2. QED
    BY <1>2, <1>5, <2>1
<1>10. \A i \in DOMAIN xs : xs[i].category \notin p.ignore => \E k \in DOMAIN eff : place[k] = i
  BY <1>2, <1>5
<1>11. QED
  BY <1>6, <1>7, <1>8, <1>9, <1>10 DEF eff

\* The profile may be applied to the signals or to their evidence.
LEMMA EvidenceOfEffective ==
  ASSUME NEW xs \in Seq(SignalType), NEW p, p.weights \in [DOMAIN p.weights -> Int]
  PROVE  Effective(EvidenceOf(xs), p) = EvidenceOf(Effective(xs, p))
<1> DEFINE ev == EvidenceOf(xs)
           S == {i \in DOMAIN xs : xs[i].category \notin p.ignore}
           place == Places(Len(xs), S)
<1>1. /\ Len(xs) \in Nat /\ DOMAIN xs = 1..Len(xs) /\ \A i \in DOMAIN xs : xs[i] \in SignalType
      /\ Len(ev) = Len(xs) /\ DOMAIN ev = DOMAIN xs
      /\ \A i \in DOMAIN xs : ev[i] = Evidence(xs[i])
  BY DEF EvidenceOf
<1>2. \A x \in SignalType : /\ Evidence(x).category = x.category
                            /\ Reweigh(Evidence(x), p) = Evidence(Reweigh(x, p))
  BY DEF SignalType, Evidence, Reweigh
<1> HIDE DEF ev
<1>3. {i \in DOMAIN ev : ev[i].category \notin p.ignore} = S
  BY <1>1, <1>2
<1>4. Kept(xs, p) = [k \in DOMAIN place |-> xs[place[k]]]
  BY DEF Kept, At
<1>5. Kept(ev, p) = [k \in DOMAIN place |-> ev[place[k]]]
  BY <1>1, <1>3 DEF Kept, At
<1>6. \A k \in DOMAIN place : place[k] \in DOMAIN xs
  <2>1. place \in Seq(S \cap 1..Len(xs))
    <3> HIDE DEF S
    <3>1. QED
      BY <1>1, PlacesInOrder
  <2> HIDE DEF place, S
  <2>2. QED
    BY <1>1, <2>1
<1> HIDE DEF place, S
<1>7. Effective(ev, p) = [k \in DOMAIN place |-> Reweigh(ev[place[k]], p)]
  BY <1>5 DEF Effective
<1>8. Effective(xs, p) = [k \in DOMAIN place |-> Reweigh(xs[place[k]], p)]
  BY <1>4 DEF Effective
<1>9. EvidenceOf(Effective(xs, p)) = [k \in DOMAIN place |-> Evidence(Reweigh(xs[place[k]], p))]
  BY <1>8 DEF EvidenceOf
<1>10. \A k \in DOMAIN place : Reweigh(ev[place[k]], p) = Evidence(Reweigh(xs[place[k]], p))
  BY <1>1, <1>2, <1>6
<1>11. QED
  BY <1>7, <1>9, <1>10 DEF ev

\* The score is in range, and is the same for the evidence; so is the confidence.
LEMMA ScoreOfEvidence ==
  ASSUME NEW xs \in Seq(SignalType)
  PROVE  /\ Total(xs) \in Int
         /\ Score(xs) \in 0..100
         /\ Score(EvidenceOf(xs)) = Score(xs)
         /\ Confidence(EvidenceOf(xs)) = Confidence(xs)
<1> DEFINE weights == [i \in DOMAIN xs |-> xs[i].weight]
<1>1. weights \in Seq(Int)
  <2>1. DOMAIN xs = 1..Len(xs) /\ \A i \in DOMAIN xs : xs[i] \in SignalType
    OBVIOUS
  <2>2. \A i \in 1..Len(xs) : xs[i].weight \in Int
    BY <2>1 DEF SignalType
  <2>3. QED
    BY <2>1, <2>2
<1>2. Total(xs) = SumOf(weights)
  BY DEF Total
<1>3. [i \in DOMAIN EvidenceOf(xs) |-> EvidenceOf(xs)[i].weight] = weights
  BY DEF EvidenceOf, Evidence
<1>4. Total(EvidenceOf(xs)) = SumOf(weights)
  BY <1>3 DEF Total
<1> HIDE DEF weights
<1>5. SumOf(weights) \in Int
  BY <1>1, SumOfType
<1>6. \A k \in Int : Clamp(k) \in 0..100
  BY DEF Clamp
<1>7. Confidence(EvidenceOf(xs)) = Confidence(xs)
  <2>1. EvidenceOf(xs) = <<>> <=> xs = <<>>
    BY DEF EvidenceOf
  <2>2. QED
    BY <1>2, <1>4, <2>1 DEF Confidence
<1>8. QED
  BY <1>2, <1>4, <1>5, <1>6, <1>7 DEF Score

-----------------------------------------------------------------------------
(* The inductive invariant *)

HeardType ==
    [dns : Status \cup {"none"}, table : Status \cup {"none"}, verifier : Status \cup {"none"}]

RequestType ==
    [pc : {"new", "catchall", "verify", "enrich", "done", "failed"},
     kind : {"none", "ip", "domain", "email"},
     dom : Domain \cup {Invalid},
     profile : Profile \cup {DefaultProfile},
     asked : Nat,
     signals : Seq(SignalType),
     evidence : Seq(IndexHit),
     heard : HeardType,
     deliverability : Status,
     isCatchall : BOOLEAN,
     score : 0..100,
     confidence : {2, 5, 7, 9},
     decision : {"none", "allow", "challenge", "block"}]

Typed ==
    /\ published \in 1..MaxBuilds /\ served \in 1..published
    /\ catchall \subseteq Domain
    /\ verifier \in BOOLEAN
    /\ req \in [Request -> RequestType]
    /\ \A r \in Request : req[r].asked <= served

\* The findings that build g supports, and everything the handlers find themselves.
Supported(g) ==
    {x \in SignalType : /\ x.kind \in IndexKind => InBuild(g, x)
                        /\ x.kind = "no_mx" => x.category = "mx"}

FeedsOnce(found) ==
    \A i, j \in DOMAIN found :
        /\ found[i].kind = "feed" /\ found[j].kind = "feed"
        /\ found[i].source = found[j].source /\ found[i].category = found[j].category
        => i = j

NoDatacenter(found) ==
    \A i \in DOMAIN found : found[i].kind = "feed" => found[i].category # "datacenter"

\* What a request has found.
Findable(q) ==
    /\ q.signals \in Seq(Supported(q.asked))
    /\ q.kind \in {"domain", "email"} => FeedsOnce(q.signals)
    /\ q.kind = "email" => NoDatacenter(q.signals)

\* What is known of the domain of an address before the verifier is asked.
Known(q) ==
    /\ q.kind = "email" /\ q.dom \in Domain
    /\ q.heard.dns \in {"undeliverable", "unknown"}
    /\ q.heard.table \in {"none", "unknown", "catchall"}
    /\ q.heard.verifier = "none"
    /\ q.deliverability = LastWord(q.heard)
    /\ q.isCatchall <=> q.heard.table = "catchall"
    /\ q.heard.table = "catchall" => q.dom \in catchall
    /\ Shows(q.signals, "no_mx") <=> q.heard.dns = "undeliverable"

\* Where a request that waits may come from, and what it has so far.
Waiting(q) ==
    /\ q.pc \in {"catchall", "verify", "enrich"} =>
          /\ q.evidence = EvidenceOf(q.signals)
          /\ q.profile \in Profile
    /\ q.pc \in {"catchall", "verify"} => Known(q)
    /\ q.pc = "catchall" => q.heard.table = "none"
    /\ q.pc = "verify" => verifier /\ q.heard.table # "none"
    /\ q.pc = "enrich" => q.kind \in {"ip", "domain"}

\* What an answer is worth.
Sound(q) == q.pc = "done" =>
    /\ q.evidence = EvidenceOf(q.signals)
    /\ q.score = Score(q.evidence)
    /\ q.confidence = Confidence(q.evidence)
    /\ q.decision = Decision(q.score, q.profile)
    /\ \A i \in DOMAIN q.evidence :
          LET e == q.evidence[i]
          IN  /\ e.category \notin q.profile.ignore
              /\ e.category \in DOMAIN q.profile.weights => e.weight = q.profile.weights[e.category]

\* All sources have had their say.
AllTold(q) ==
    /\ q.deliverability = LastWord(q.heard)
    /\ q.isCatchall <=> "catchall" \in {q.heard.table, q.heard.verifier}
    /\ q.heard.dns # "none" /\ q.heard.table # "none" /\ (q.heard.verifier # "none" <=> verifier)
    /\ q.heard.table = "catchall" => q.dom \in catchall

NoAddress(q) ==
    /\ q.deliverability = "undeliverable" /\ ~q.isCatchall /\ q.heard = Silence
    /\ \A i \in DOMAIN q.signals : q.signals[i].kind = "invalid_syntax"

\* A check of an address that only the profile is missing from.
Settled(q) == q.kind = "email" =>
    /\ q.dom # Invalid => /\ AllTold(q)
                          /\ Shows(q.signals, "no_mx") <=> q.heard.dns = "undeliverable"
    /\ q.dom = Invalid => NoAddress(q)

Deliverable(q) == q.pc = "done" /\ q.kind = "email" =>
    /\ q.dom # Invalid =>
          /\ AllTold(q)
          /\ Shows(q.signals, "no_mx") <=> q.heard.dns = "undeliverable" /\ "mx" \notin q.profile.ignore
    /\ q.dom = Invalid => NoAddress(q)

Good(q) == Findable(q) /\ Waiting(q) /\ Sound(q) /\ Deliverable(q)

IInv == Typed /\ \A r \in Request : Good(req[r])

-----------------------------------------------------------------------------
(* What the handlers find *)

\* What a handler makes of the entries of a build is supported by that build.
LEMMA FindingsSupported ==
  ASSUME NEW g, NEW kind \in IndexKind, NEW hits \in Seq(IndexHit),
         \A i \in DOMAIN hits : InBuild(g, hits[i])
  PROVE  Findings(kind, hits) \in Seq({x \in Supported(g) : x.kind = kind})
<1>1. DOMAIN hits = 1..Len(hits) /\ Len(hits) \in Nat /\ \A i \in DOMAIN hits : hits[i] \in IndexHit
  OBVIOUS
<1> DEFINE found(i) == Signal(kind, hits[i].category, hits[i].weight, hits[i].source)
<1>2. ASSUME NEW i \in DOMAIN hits PROVE found(i) \in {x \in Supported(g) : x.kind = kind}
  <2>1. found(i) \in SignalType /\ found(i).kind = kind
    BY <1>1 DEF Signal, SignalType, IndexHit, IndexKind, Kind
  <2>2. found(i).category = hits[i].category /\ found(i).source = hits[i].source
    BY DEF Signal
  <2>3. InBuild(g, found(i))
    BY <2>2 DEF InBuild
  <2>4. QED
    BY <2>1, <2>3 DEF Supported, IndexKind
<1> HIDE DEF found
<1>3. Findings(kind, hits) = [i \in 1..Len(hits) |-> found(i)]
  BY <1>1 DEF Findings, found
<1>4. QED
  BY <1>1, <1>2, <1>3

\* The findings of a list of addresses.
LEMMA IpFindingsSupported ==
  ASSUME NEW g \in 1..MaxBuilds, NEW ips \in Seq(Ip)
  PROVE  IpFindings(g, ips) \in Seq({x \in Supported(g) : x.kind = "feed"})
<1> DEFINE V == {x \in Supported(g) : x.kind = "feed"}
           found(i) == Findings("feed", IpHits(g, ips[i]))
<1>1. DOMAIN ips = 1..Len(ips) /\ Len(ips) \in Nat /\ \A i \in DOMAIN ips : ips[i] \in Ip
  OBVIOUS
<1>2. ASSUME NEW i \in DOMAIN ips PROVE found(i) \in Seq(V)
  <2> DEFINE hits == IpHits(g, ips[i])
  <2>1. hits \in Seq(IndexHit)
    BY <1>1, ChecksAssumption DEF ChecksAssumption
  <2>2. \A j \in DOMAIN hits : InBuild(g, hits[j])
    BY <1>1 DEF InBuild
  <2> HIDE DEF hits
  <2>3. \A kind \in IndexKind :
          Findings(kind, hits) \in Seq({x \in Supported(g) : x.kind = kind})
    BY <2>1, <2>2, FindingsSupported
  <2>4. QED
    BY <2>3 DEF hits, IndexKind
<1>3. IpFindings(g, ips) = FlattenSeq([i \in DOMAIN ips |-> found(i)])
  BY DEF IpFindings
<1> HIDE DEF V, found
<1>4. [i \in DOMAIN ips |-> found(i)] \in Seq(Seq(V))
  BY <1>1, <1>2
<1>5. FlattenSeq([i \in DOMAIN ips |-> found(i)]) \in Seq(V)
  BY <1>4, FlattenElements
<1>6. QED
  BY <1>3, <1>5 DEF V

\* The findings for a domain.
LEMMA DomainFindingsSupported ==
  ASSUME NEW g \in 1..MaxBuilds, NEW d \in Domain, NEW kind \in IndexKind
  PROVE  Findings(kind, DomainHits(g, d)) \in Seq({x \in Supported(g) : x.kind = kind})
<1> DEFINE hits == DomainHits(g, d)
<1>1. hits \in Seq(IndexHit)
  BY ChecksAssumption DEF ChecksAssumption
<1>2. \A j \in DOMAIN hits : InBuild(g, hits[j])
  BY DEF InBuild
<1> HIDE DEF hits
<1>3. QED
  BY <1>1, <1>2, FindingsSupported DEF hits

\* The addresses of the mail servers.
LEMMA MxAddressesType ==
  ASSUME NEW mx \in MxAnswers
  PROVE  MxAddresses(mx) \in Seq(Ip)
<1>1. PICK n \in Nat : n = IF Len(mx) < MxLimit THEN Len(mx) ELSE MxLimit
  BY ChecksAssumption DEF ChecksAssumption, MxLimit
<1>2. \A i \in 1..n : AddressOf[mx[i]] \in Seq(Ip)
  <2>1. mx \in Seq(Host) /\ AddressOf \in [Host -> Seq(Ip)]
    BY ChecksAssumption DEF ChecksAssumption
  <2>2. \A i \in 1..n : mx[i] \in Host
    BY <1>1, <2>1 DEF MxLimit
  <2>3. QED
    BY <2>1, <2>2
<1>3. [i \in 1..n |-> AddressOf[mx[i]]] \in Seq(Seq(Ip))
  BY <1>2
<1>4. MxAddresses(mx) = FlattenSeq([i \in 1..n |-> AddressOf[mx[i]]])
  BY <1>1 DEF MxAddresses
<1>5. QED
  BY <1>3, <1>4, FlattenElements

\* After deduplication a source has one finding per category, and none is of a category
\* to drop.
LEMMA DedupeOnce ==
  ASSUME NEW V, NEW xs \in Seq(V), NEW drop
  PROVE  /\ Dedupe(xs, drop) \in Seq(V)
         /\ FeedsOnce(Dedupe(xs, drop))
         /\ \A k \in DOMAIN Dedupe(xs, drop) : Dedupe(xs, drop)[k].category \notin drop
<1> DEFINE S == FirstFindings(xs, drop)
           left == At(xs, S)
<1>1. left \in Seq(V)
  BY AtInOrder
<1>2. PICK p \in [DOMAIN left -> S \cap DOMAIN xs] :
         /\ \A j, k \in DOMAIN left : j < k => p[j] < p[k]
         /\ \A k \in DOMAIN left : left[k] = xs[p[k]]
  BY AtInOrder
<1>3. left = Dedupe(xs, drop)
  BY DEF Dedupe
<1> HIDE DEF left
<1>4. ASSUME NEW k \in DOMAIN left
      PROVE  /\ p[k] \in DOMAIN xs /\ left[k] = xs[p[k]]
             /\ xs[p[k]].category \notin drop
             /\ \A j \in 1..(p[k] - 1) : \/ xs[j].source # xs[p[k]].source
                                         \/ xs[j].category # xs[p[k]].category
  <2>1. p[k] \in S /\ p[k] \in DOMAIN xs /\ left[k] = xs[p[k]]
    BY <1>2
  <2>2. QED
    BY <2>1 DEF FirstFindings
<1>5. ASSUME NEW j \in DOMAIN left, NEW k \in DOMAIN left, j < k,
             left[j].source = left[k].source, left[j].category = left[k].category
      PROVE  FALSE
  <2>1. p[j] < p[k] /\ p[j] \in DOMAIN xs /\ p[k] \in DOMAIN xs /\ left[j] = xs[p[j]]
    BY <1>2, <1>4, <1>5
  <2>2. p[j] \in 1..(p[k] - 1)
    BY <2>1
  <2>3. QED
    BY <1>4, <1>5, <2>1, <2>2
<1>6. DOMAIN left \subseteq Nat
  BY <1>1
<1>7. FeedsOnce(left)
  <2>1. SUFFICES ASSUME NEW i \in DOMAIN left, NEW j \in DOMAIN left,
                        left[i].source = left[j].source, left[i].category = left[j].category
                 PROVE  i = j
    BY DEF FeedsOnce
  <2>2. i \in Nat /\ j \in Nat /\ ~(i < j) /\ ~(j < i)
    BY <1>5, <1>6, <2>1
  <2>3. QED
    BY <2>2
<1>8. QED
  BY <1>1, <1>3, <1>4, <1>7

\* Findings of the handler itself and of the domain tables before those of the addresses.
LEMMA Joined ==
  ASSUME NEW g, NEW a \in Seq({x \in Supported(g) : x.kind # "feed"}),
         NEW b \in Seq(Supported(g)), FeedsOnce(b)
  PROVE  /\ a \o b \in Seq(Supported(g))
         /\ FeedsOnce(a \o b)
         /\ NoDatacenter(b) => NoDatacenter(a \o b)
<1> DEFINE ab == a \o b
<1>1. /\ Len(a) \in Nat /\ Len(b) \in Nat
      /\ DOMAIN a = 1..Len(a) /\ DOMAIN b = 1..Len(b) /\ DOMAIN ab = 1..(Len(a) + Len(b))
      /\ \A i \in DOMAIN a : ab[i] = a[i] /\ a[i].kind # "feed"
      /\ \A i \in DOMAIN ab : i \notin DOMAIN a => ab[i] = b[i - Len(a)]
  OBVIOUS
<1>2. ab \in Seq(Supported(g))
  <2>1. a \in Seq(Supported(g))
    OBVIOUS
  <2>2. QED
    BY <2>1
<1> HIDE DEF ab
<1>3. ASSUME NEW i \in DOMAIN ab, ab[i].kind = "feed"
      PROVE  i - Len(a) \in DOMAIN b /\ ab[i] = b[i - Len(a)] /\ i \in Nat
  <2>1. i \notin DOMAIN a
    BY <1>1, <1>3
  <2>2. QED
    BY <1>1, <2>1
<1>4. FeedsOnce(ab)
  <2>1. SUFFICES ASSUME NEW i \in DOMAIN ab, NEW j \in DOMAIN ab,
                        ab[i].kind = "feed", ab[j].kind = "feed",
                        ab[i].source = ab[j].source, ab[i].category = ab[j].category
                 PROVE  i = j
    BY DEF FeedsOnce
  <2>2. i - Len(a) = j - Len(a)
    BY <1>3, <2>1 DEF FeedsOnce
  <2>3. QED
    BY <1>1, <1>3, <2>1, <2>2
<1>5. ASSUME NoDatacenter(b) PROVE NoDatacenter(ab)
  BY <1>3, <1>5 DEF NoDatacenter
<1>6. QED
  BY <1>2, <1>4, <1>5 DEF ab

\* A finding of the handler itself, or none.
LEMMA WhenSupported ==
  ASSUME NEW V, NEW c, NEW x \in V
  PROVE  When(c, x) \in Seq(V)
BY DEF When

\* No build has to support what the handler finds itself.
LEMMA OwnFindings ==
  ASSUME NEW g
  PROVE  {RoleFound, TypoFound, NoMx, ImplicitMx, Syntax} \subseteq {x \in Supported(g) : x.kind # "feed"}
<1>1. {RoleFound, TypoFound, NoMx, ImplicitMx, Syntax} \subseteq SignalType
  BY ChecksAssumption
     DEF ChecksAssumption, RoleFound, TypoFound, NoMx, ImplicitMx, Syntax, Signal, SignalType, Kind
<1>2. \A x \in {RoleFound, TypoFound, NoMx, ImplicitMx, Syntax} :
        /\ x.kind \notin IndexKind /\ x.kind # "feed"
        /\ x.kind = "no_mx" => x.category = "mx"
  BY DEF RoleFound, TypoFound, NoMx, ImplicitMx, Syntax, Signal, IndexKind
<1>3. QED
  BY <1>1, <1>2 DEF Supported

\* The email check finds what one build supports, a feed once however many mail servers
\* it lists, and no mail server for being in a datacenter.
LEMMA EmailSignalsFindable ==
  ASSUME NEW g \in 1..MaxBuilds, NEW d \in Domain, NEW role, NEW mx \in MxAnswers, NEW a
  PROVE  /\ EmailSignals(g, d, role, mx, a) \in Seq(Supported(g))
         /\ FeedsOnce(EmailSignals(g, d, role, mx, a))
         /\ NoDatacenter(EmailSignals(g, d, role, mx, a))
<1> DEFINE V == {x \in Supported(g) : x.kind # "feed"}
           hits == DomainHits(g, d)
           first == Findings("email_domain", hits)
           s1 == When(role, RoleFound)
           s2 == When(hits = <<>> /\ d \in Typo, TypoFound)
           s3 == When(mx = <<>> /\ ~a, NoMx)
           s4 == When(mx = <<>> /\ a, ImplicitMx)
           own == first \o s1 \o s2 \o s3 \o s4
           hosts == Dedupe(IpFindings(g, MxAddresses(mx)), {"datacenter"})
<1>1. first \in Seq(V)
  <2>1. \A kind \in IndexKind :
          Findings(kind, DomainHits(g, d)) \in Seq({x \in Supported(g) : x.kind = kind})
    BY DomainFindingsSupported
  <2>2. first \in Seq({x \in Supported(g) : x.kind = "email_domain"})
    BY <2>1 DEF IndexKind
  <2> HIDE DEF first
  <2>3. QED
    BY <2>2
<1>2. RoleFound \in V /\ TypoFound \in V /\ NoMx \in V /\ ImplicitMx \in V
  BY OwnFindings
<1>3. EmailSignals(g, d, role, mx, a) = own \o hosts
  BY DEF EmailSignals
<1>4. s1 \in Seq(V) /\ s2 \in Seq(V) /\ s3 \in Seq(V) /\ s4 \in Seq(V)
  <2> HIDE DEF V
  <2>1. QED
    BY <1>2, WhenSupported
<1>5. own \in Seq(V)
  <2> HIDE DEF V, first, s1, s2, s3, s4
  <2>1. QED
    BY <1>1, <1>4
<1>6. hosts \in Seq(Supported(g)) /\ FeedsOnce(hosts) /\ NoDatacenter(hosts)
  <2> DEFINE F == {x \in Supported(g) : x.kind = "feed"}
             all == IpFindings(g, MxAddresses(mx))
  <2>1. all \in Seq(F)
    BY MxAddressesType, IpFindingsSupported
  <2>2. hosts = Dedupe(all, {"datacenter"})
    OBVIOUS
  <2> HIDE DEF all, hosts
  <2>3. hosts \in Seq(Supported(g))
    <3>1. all \in Seq(Supported(g))
      BY <2>1
    <3>2. QED
      BY <2>2, <3>1, DedupeOnce
  <2>4. FeedsOnce(hosts) /\ \A k \in DOMAIN hosts : hosts[k].category \notin {"datacenter"}
    BY <2>1, <2>2, DedupeOnce
  <2>5. QED
    BY <2>3, <2>4 DEF NoDatacenter
<1> HIDE DEF V, own, hosts
<1>7. QED
  BY <1>3, <1>5, <1>6, Joined DEF V

\* A list shows what one of its parts shows.
LEMMA ShowsJoined ==
  ASSUME NEW V, NEW a \in Seq(V), NEW b \in Seq(V), NEW kind
  PROVE  Shows(a \o b, kind) <=> Shows(a, kind) \/ Shows(b, kind)
<1> DEFINE ab == a \o b
<1>1. /\ Len(a) \in Nat /\ Len(b) \in Nat
      /\ DOMAIN a = 1..Len(a) /\ DOMAIN b = 1..Len(b) /\ DOMAIN ab = 1..(Len(a) + Len(b))
      /\ \A i \in DOMAIN a : ab[i] = a[i]
      /\ \A i \in DOMAIN ab : i \notin DOMAIN a => ab[i] = b[i - Len(a)]
      /\ \A i \in DOMAIN b : ab[i + Len(a)] = b[i]
  OBVIOUS
<1> HIDE DEF ab
<1>2. ASSUME Shows(ab, kind) PROVE Shows(a, kind) \/ Shows(b, kind)
  <2>1. PICK i \in DOMAIN ab : ab[i].kind = kind
    BY <1>2 DEF Shows
  <2>2. CASE i \in DOMAIN a
    BY <1>1, <2>1, <2>2 DEF Shows
  <2>3. CASE i \notin DOMAIN a
    <3>1. i - Len(a) \in DOMAIN b /\ b[i - Len(a)].kind = kind
      BY <1>1, <2>1, <2>3
    <3>2. QED
      BY <3>1 DEF Shows
  <2>4. QED
    BY <2>2, <2>3
<1>3. ASSUME Shows(a, kind) PROVE Shows(ab, kind)
  <2>1. PICK i \in DOMAIN a : a[i].kind = kind
    BY <1>3 DEF Shows
  <2>2. i \in DOMAIN ab /\ ab[i].kind = kind
    BY <1>1, <2>1
  <2>3. QED
    BY <2>2 DEF Shows
<1>4. ASSUME Shows(b, kind) PROVE Shows(ab, kind)
  <2>1. PICK i \in DOMAIN b : b[i].kind = kind
    BY <1>4 DEF Shows
  <2>2. i + Len(a) \in DOMAIN ab /\ ab[i + Len(a)].kind = kind
    BY <1>1, <2>1
  <2>3. QED
    BY <2>2 DEF Shows
<1>5. QED
  BY <1>2, <1>3, <1>4 DEF ab

\* The finding "no_mx" is there exactly when DNS knows neither mail servers nor an address.
LEMMA NoMxShown ==
  ASSUME NEW g \in 1..MaxBuilds, NEW d \in Domain, NEW role, NEW mx \in MxAnswers, NEW a
  PROVE  Shows(EmailSignals(g, d, role, mx, a), "no_mx") <=> mx = <<>> /\ ~a
<1> DEFINE first == Findings("email_domain", DomainHits(g, d))
           typo == DomainHits(g, d) = <<>> /\ d \in Typo
           s1 == When(role, RoleFound)
           s2 == When(typo, TypoFound)
           s3 == When(mx = <<>> /\ ~a, NoMx)
           s4 == When(mx = <<>> /\ a, ImplicitMx)
           hosts == Dedupe(IpFindings(g, MxAddresses(mx)), {"datacenter"})
           V == SignalType
<1>1. first \in Seq(V) /\ \A i \in DOMAIN first : first[i].kind = "email_domain"
  <2>1. \A kind \in IndexKind :
          Findings(kind, DomainHits(g, d)) \in Seq({x \in Supported(g) : x.kind = kind})
    BY DomainFindingsSupported
  <2>2. first \in Seq({x \in Supported(g) : x.kind = "email_domain"})
    BY <2>1 DEF IndexKind
  <2>3. \A x \in {x \in Supported(g) : x.kind = "email_domain"} : x \in V /\ x.kind = "email_domain"
    BY DEF Supported
  <2> HIDE DEF first, V
  <2>4. QED
    BY <2>2, <2>3
<1>2. hosts \in Seq(V) /\ \A i \in DOMAIN hosts : hosts[i].kind = "feed"
  <2> DEFINE F == {x \in Supported(g) : x.kind = "feed"}
             all == IpFindings(g, MxAddresses(mx))
  <2>1. all \in Seq(F)
    BY MxAddressesType, IpFindingsSupported
  <2>2. hosts = Dedupe(all, {"datacenter"})
    OBVIOUS
  <2>3. \A x \in F : x \in V /\ x.kind = "feed"
    BY DEF Supported
  <2> HIDE DEF all, hosts, F, V
  <2>4. hosts \in Seq(F)
    BY <2>1, <2>2, DedupeOnce
  <2>5. QED
    BY <2>3, <2>4
<1>3. RoleFound \in V /\ TypoFound \in V /\ NoMx \in V /\ ImplicitMx \in V
  BY OwnFindings DEF Supported
<1>4. s1 \in Seq(V) /\ s2 \in Seq(V) /\ s3 \in Seq(V) /\ s4 \in Seq(V)
  <2> HIDE DEF V, typo
  <2>1. QED
    BY <1>3, WhenSupported
<1>5. /\ ~Shows(s1, "no_mx") /\ ~Shows(s2, "no_mx") /\ ~Shows(s4, "no_mx")
      /\ Shows(s3, "no_mx") <=> mx = <<>> /\ ~a
  <2> HIDE DEF typo
  <2>1. /\ RoleFound.kind # "no_mx" /\ TypoFound.kind # "no_mx" /\ ImplicitMx.kind # "no_mx"
        /\ NoMx.kind = "no_mx"
    BY DEF RoleFound, TypoFound, NoMx, ImplicitMx, Signal
  <2>2. \A c, x : Shows(When(c, x), "no_mx") <=> c /\ x.kind = "no_mx"
    BY DEF Shows, When
  <2>3. QED
    BY <2>1, <2>2
<1>6. ~Shows(first, "no_mx") /\ ~Shows(hosts, "no_mx")
  BY <1>1, <1>2 DEF Shows
<1>7. EmailSignals(g, d, role, mx, a) = first \o s1 \o s2 \o s3 \o s4 \o hosts
  BY DEF EmailSignals
<1> HIDE DEF V, first, typo, s1, s2, s3, s4, hosts
<1>8. \A x, y \in Seq(V) :
        /\ x \o y \in Seq(V)
        /\ Shows(x \o y, "no_mx") <=> Shows(x, "no_mx") \/ Shows(y, "no_mx")
  BY ShowsJoined
<1>9. /\ first \o s1 \in Seq(V) /\ first \o s1 \o s2 \in Seq(V)
      /\ first \o s1 \o s2 \o s3 \in Seq(V) /\ first \o s1 \o s2 \o s3 \o s4 \in Seq(V)
  BY <1>1, <1>4, <1>8
<1>10. ~Shows(first \o s1 \o s2, "no_mx")
  BY <1>1, <1>4, <1>5, <1>6, <1>8, <1>9
<1>11. Shows(first \o s1 \o s2 \o s3 \o s4, "no_mx") <=> mx = <<>> /\ ~a
  BY <1>4, <1>5, <1>8, <1>9, <1>10
<1>12. PICK own \in Seq(V) : own = first \o s1 \o s2 \o s3 \o s4
  BY <1>9
<1>13. Shows(own \o hosts, "no_mx") <=> Shows(own, "no_mx") \/ Shows(hosts, "no_mx")
  BY <1>2, <1>8
<1>14. EmailSignals(g, d, role, mx, a) = own \o hosts
  BY <1>7, <1>12
<1>15. QED
  BY <1>6, <1>11, <1>12, <1>13, <1>14

\* So does the domain check, which keeps the datacenters.
LEMMA DomainSignalsFindable ==
  ASSUME NEW g \in 1..MaxBuilds, NEW d \in Domain, NEW ips \in Seq(Ip)
  PROVE  /\ DomainSignals(g, d, ips) \in Seq(Supported(g))
         /\ FeedsOnce(DomainSignals(g, d, ips))
<1> DEFINE V == {x \in Supported(g) : x.kind # "feed"}
           own == Findings("domain", DomainHits(g, d))
           all == IpFindings(g, ips)
           hosts == Dedupe(all, {})
<1>1. own \in Seq(V)
  <2>1. \A kind \in IndexKind :
          Findings(kind, DomainHits(g, d)) \in Seq({x \in Supported(g) : x.kind = kind})
    BY DomainFindingsSupported
  <2>2. own \in Seq({x \in Supported(g) : x.kind = "domain"})
    BY <2>1 DEF IndexKind
  <2> HIDE DEF own
  <2>3. QED
    BY <2>2
<1>2. all \in Seq(Supported(g))
  <2>1. all \in Seq({x \in Supported(g) : x.kind = "feed"})
    BY IpFindingsSupported
  <2> HIDE DEF all
  <2>2. QED
    BY <2>1
<1> HIDE DEF all
<1>3. hosts \in Seq(Supported(g)) /\ FeedsOnce(hosts)
  BY <1>2, DedupeOnce
<1>4. DomainSignals(g, d, ips) = own \o hosts
  BY DEF DomainSignals, all
<1> HIDE DEF own, hosts, V
<1>5. QED
  BY <1>1, <1>3, <1>4, Joined DEF V

-----------------------------------------------------------------------------
(* What an answer makes of it *)

\* Weights and ignores of a profile leave what has been found findable.
LEMMA EffectiveFindable ==
  ASSUME NEW g, NEW xs \in Seq(Supported(g)), NEW p, p.weights \in [DOMAIN p.weights -> Int]
  PROVE  /\ Effective(xs, p) \in Seq(Supported(g))
         /\ FeedsOnce(xs) => FeedsOnce(Effective(xs, p))
         /\ NoDatacenter(xs) => NoDatacenter(Effective(xs, p))
         /\ \A k \in DOMAIN Effective(xs, p) :
               /\ \E i \in DOMAIN xs : Effective(xs, p)[k].kind = xs[i].kind
               /\ Effective(xs, p)[k].category \notin p.ignore
               /\ Effective(xs, p)[k].category \in DOMAIN p.weights
                     => Effective(xs, p)[k].weight = p.weights[Effective(xs, p)[k].category]
         /\ Shows(Effective(xs, p), "no_mx") <=> Shows(xs, "no_mx") /\ "mx" \notin p.ignore
<1> DEFINE eff == Effective(xs, p)
<1>1. xs \in Seq(SignalType)
  BY DEF Supported
<1>2. eff \in Seq(SignalType)
  BY <1>1, EffectiveInOrder
<1>3. PICK place \in [DOMAIN eff -> DOMAIN xs] :
         /\ \A j, k \in DOMAIN eff : j < k => place[j] < place[k]
         /\ \A k \in DOMAIN eff :
               /\ eff[k] = Reweigh(xs[place[k]], p)
               /\ eff[k].category \notin p.ignore
         /\ \A i \in DOMAIN xs : xs[i].category \notin p.ignore => \E k \in DOMAIN eff : place[k] = i
  BY <1>1, EffectiveInOrder
<1> HIDE DEF eff
<1>4. \A x \in SignalType : /\ Reweigh(x, p) \in SignalType /\ Reweigh(x, p).kind = x.kind
                            /\ Reweigh(x, p).category = x.category
                            /\ Reweigh(x, p).source = x.source
                            /\ x.category \in DOMAIN p.weights
                                  => Reweigh(x, p).weight = p.weights[x.category]
  BY DEF SignalType, Reweigh
<1>5. ASSUME NEW x \in Supported(g) PROVE Reweigh(x, p) \in Supported(g)
  <2>1. x \in SignalType
    BY DEF Supported
  <2>2. InBuild(g, x) => InBuild(g, Reweigh(x, p))
    BY <1>4, <2>1 DEF InBuild
  <2>3. QED
    BY <1>4, <2>1, <2>2 DEF Supported
<1>6. ASSUME NEW k \in DOMAIN eff
      PROVE  /\ place[k] \in DOMAIN xs /\ xs[place[k]] \in Supported(g)
             /\ eff[k] \in Supported(g)
             /\ eff[k].kind = xs[place[k]].kind
             /\ eff[k].category = xs[place[k]].category
             /\ eff[k].source = xs[place[k]].source
             /\ eff[k].category \in DOMAIN p.weights => eff[k].weight = p.weights[eff[k].category]
  <2>1. place[k] \in DOMAIN xs /\ xs[place[k]] \in Supported(g) /\ xs[place[k]] \in SignalType
    BY <1>1, <1>3
  <2>2. QED
    BY <1>3, <1>4, <1>5, <2>1
<1>7. eff \in Seq(Supported(g))
  BY <1>2, <1>6
<1>8. DOMAIN eff \subseteq Nat
  BY <1>2
<1>9. ASSUME FeedsOnce(xs) PROVE FeedsOnce(eff)
  <2>1. SUFFICES ASSUME NEW i \in DOMAIN eff, NEW j \in DOMAIN eff,
                        eff[i].kind = "feed", eff[j].kind = "feed",
                        eff[i].source = eff[j].source, eff[i].category = eff[j].category
                 PROVE  i = j
    BY DEF FeedsOnce
  <2>2. place[i] = place[j]
    BY <1>6, <1>9, <2>1 DEF FeedsOnce
  <2>3. place[i] \in Nat
    BY <1>1, <1>6
  <2>4. ~(i < j) /\ ~(j < i)
    BY <1>3, <2>2, <2>3
  <2>5. QED
    BY <1>8, <2>4
<1>10. ASSUME NoDatacenter(xs) PROVE NoDatacenter(eff)
  BY <1>6, <1>10 DEF NoDatacenter
<1>11. \A k \in DOMAIN eff : /\ \E i \in DOMAIN xs : eff[k].kind = xs[i].kind
                             /\ eff[k].category \notin p.ignore
                             /\ eff[k].category \in DOMAIN p.weights
                                   => eff[k].weight = p.weights[eff[k].category]
  BY <1>3, <1>6
<1>12. Shows(eff, "no_mx") <=> Shows(xs, "no_mx") /\ "mx" \notin p.ignore
  <2>1. \A i \in DOMAIN xs : xs[i].kind = "no_mx" => xs[i].category = "mx"
    BY DEF Supported
  <2>2. ASSUME Shows(eff, "no_mx") PROVE Shows(xs, "no_mx") /\ "mx" \notin p.ignore
    <3>1. PICK k \in DOMAIN eff : eff[k].kind = "no_mx"
      BY <2>2 DEF Shows
    <3>2. QED
      BY <1>3, <1>6, <2>1, <3>1 DEF Shows
  <2>3. ASSUME Shows(xs, "no_mx"), "mx" \notin p.ignore PROVE Shows(eff, "no_mx")
    <3>1. PICK i \in DOMAIN xs : xs[i].kind = "no_mx"
      BY <2>3 DEF Shows
    <3>2. PICK k \in DOMAIN eff : place[k] = i
      BY <1>3, <2>1, <2>3, <3>1
    <3>3. QED
      BY <1>6, <3>1, <3>2 DEF Shows
  <2>4. QED
    BY <2>2, <2>3
<1>13. QED
  BY <1>7, <1>9, <1>10, <1>11, <1>12 DEF eff

\* Evidence looks like an entry of the index.
LEMMA EvidenceType ==
  ASSUME NEW xs \in Seq(SignalType)
  PROVE  EvidenceOf(xs) \in Seq(IndexHit)
<1>1. DOMAIN xs = 1..Len(xs) /\ Len(xs) \in Nat /\ \A i \in DOMAIN xs : xs[i] \in SignalType
  OBVIOUS
<1>2. \A i \in DOMAIN xs : Evidence(xs[i]) \in IndexHit
  BY <1>1 DEF Evidence, IndexHit, SignalType
<1>3. EvidenceOf(xs) = [i \in 1..Len(xs) |-> Evidence(xs[i])]
  BY <1>1 DEF EvidenceOf
<1>4. QED
  BY <1>1, <1>2, <1>3

\* An answer keeps what was found, and explains itself.
LEMMA AnswerSound ==
  ASSUME NEW q \in RequestType, q.profile \in Profile,
         Findable(q), q.evidence = EvidenceOf(q.signals)
  PROVE  /\ Answer(q) \in RequestType
         /\ Answer(q).pc = "done"
         /\ Answer(q).kind = q.kind /\ Answer(q).dom = q.dom /\ Answer(q).asked = q.asked
         /\ Answer(q).deliverability = q.deliverability
         /\ Answer(q).isCatchall = q.isCatchall /\ Answer(q).heard = q.heard
         /\ Answer(q).profile = q.profile
         /\ Shows(Answer(q).signals, "no_mx")
               <=> Shows(q.signals, "no_mx") /\ "mx" \notin q.profile.ignore
         /\ Findable(Answer(q)) /\ Sound(Answer(q))
         /\ (\A i \in DOMAIN q.signals : q.signals[i].kind = "invalid_syntax")
               => \A i \in DOMAIN Answer(q).signals : Answer(q).signals[i].kind = "invalid_syntax"
<1> DEFINE p == q.profile
           eff == Effective(q.signals, p)
           a == Answer(q)
<1>1. p.weights \in [DOMAIN p.weights -> Int]
  BY ChecksAssumption DEF ChecksAssumption
<1>2. q.signals \in Seq(SignalType) /\ q.signals \in Seq(Supported(q.asked))
  BY DEF RequestType, Findable
<1>3. eff \in Seq(SignalType)
  BY <1>1, <1>2, EffectiveInOrder
<1>4. Effective(q.evidence, p) = EvidenceOf(eff)
  BY <1>1, <1>2, EvidenceOfEffective
<1>5. /\ eff \in Seq(Supported(q.asked))
      /\ FeedsOnce(q.signals) => FeedsOnce(eff)
      /\ NoDatacenter(q.signals) => NoDatacenter(eff)
      /\ \A k \in DOMAIN eff : /\ \E i \in DOMAIN q.signals : eff[k].kind = q.signals[i].kind
                               /\ eff[k].category \notin p.ignore
                               /\ eff[k].category \in DOMAIN p.weights
                                     => eff[k].weight = p.weights[eff[k].category]
      /\ Shows(eff, "no_mx") <=> Shows(q.signals, "no_mx") /\ "mx" \notin p.ignore
  BY <1>1, <1>2, EffectiveFindable
<1> HIDE DEF eff
<1>6. /\ Score(eff) \in 0..100 /\ Score(EvidenceOf(eff)) = Score(eff)
      /\ Confidence(EvidenceOf(eff)) = Confidence(eff)
      /\ EvidenceOf(eff) \in Seq(IndexHit)
  BY <1>3, ScoreOfEvidence, EvidenceType
<1>7. Confidence(eff) \in {2, 5, 7, 9} /\ Decision(Score(eff), p) \in {"allow", "challenge", "block"}
  BY DEF Confidence, Decision
<1>8. a = [q EXCEPT !.pc         = "done",
                    !.signals    = eff,
                    !.evidence   = EvidenceOf(eff),
                    !.score      = Score(eff),
                    !.confidence = Confidence(eff),
                    !.decision   = Decision(Score(eff), p)]
  BY <1>4 DEF Answer, eff
<1> HIDE DEF a, p
<1>9. /\ a.pc = "done" /\ a.kind = q.kind /\ a.dom = q.dom /\ a.asked = q.asked
      /\ a.deliverability = q.deliverability /\ a.isCatchall = q.isCatchall /\ a.heard = q.heard
      /\ a.profile = q.profile /\ a.signals = eff /\ a.evidence = EvidenceOf(eff)
      /\ a.score = Score(eff) /\ a.confidence = Confidence(eff)
      /\ a.decision = Decision(Score(eff), p)
  BY <1>8 DEF RequestType
<1>10. a \in RequestType
  BY <1>3, <1>6, <1>7, <1>8 DEF RequestType
<1>11. Findable(a)
  BY <1>5, <1>9 DEF Findable
<1>12. Sound(a)
  <2>1. \A k \in DOMAIN EvidenceOf(eff) :
           /\ k \in DOMAIN eff
           /\ EvidenceOf(eff)[k].category = eff[k].category
           /\ EvidenceOf(eff)[k].weight = eff[k].weight
    BY DEF EvidenceOf, Evidence
  <2>2. a.profile = p
    BY <1>9 DEF p
  <2>3. QED
    BY <1>5, <1>6, <1>9, <2>1, <2>2 DEF Sound
<1>13. Shows(a.signals, "no_mx") <=> Shows(q.signals, "no_mx") /\ "mx" \notin q.profile.ignore
  BY <1>5, <1>9 DEF p
<1>14. QED
  BY <1>5, <1>9, <1>10, <1>11, <1>12, <1>13 DEF a

-----------------------------------------------------------------------------
(* The steps *)

\* The table only grows and the verifier stays: what was good stays good.
LEMMA GoodStays ==
  ASSUME NEW q, Good(q), catchall \subseteq catchall', verifier' = verifier
  PROVE  Good(q)'
<1>1. Findable(q)' /\ Sound(q)'
  BY DEF Good, Findable, Sound
<1>2. Waiting(q)'
  BY DEF Good, Waiting, Known
<1>3. Deliverable(q)'
  BY DEF Good, Deliverable, AllTold, NoAddress
<1>4. QED
  BY <1>1, <1>2, <1>3 DEF Good

\* One request moves to a good state.
LEMMA Moves ==
  ASSUME IInv, NEW r \in Request, NEW q \in RequestType, Good(q),
         req' = [req EXCEPT ![r] = q], q.asked <= served',
         served' \in served..published, UNCHANGED <<published, catchall, verifier>>
  PROVE  IInv'
<1>1. req' \in [Request -> RequestType] /\ req'[r] = q
      /\ \A s \in Request : s # r => req'[s] = req[s]
  BY DEF IInv, Typed
<1>2. /\ published \in Nat /\ served \in 1..published /\ served' \in 1..published'
      /\ served <= served'
  BY ChecksAssumption DEF IInv, Typed, ChecksAssumption
<1>3. ASSUME NEW s \in Request PROVE Good(req[s])' /\ req'[s].asked <= served'
  <2>1. CASE s = r
    <3>1. Good(q)'
      BY GoodStays
    <3>2. QED
      BY <1>1, <2>1, <3>1 DEF Good, Findable, Waiting, Known, Sound, Deliverable, AllTold, NoAddress
  <2>2. CASE s # r
    <3>1. PICK x : x = req[s]
      OBVIOUS
    <3>2. x \in RequestType /\ Good(x) /\ x.asked <= served
      BY <3>1 DEF IInv, Typed
    <3>3. Good(x)'
      BY <3>2, GoodStays
    <3>4. x = req'[s]
      BY <1>1, <2>2, <3>1
    <3>5. x.asked <= served'
      BY <1>2, <3>2 DEF RequestType
    <3>6. QED
      BY <3>3, <3>4, <3>5 DEF Good, Findable, Waiting, Known, Sound, Deliverable, AllTold, NoAddress
  <2>3. QED
    BY <2>1, <2>2
<1>4. Typed'
  BY <1>1, <1>2, <1>3 DEF IInv, Typed
<1>5. QED
  BY <1>3, <1>4 DEF IInv

\* Nothing has been found or promised yet.
LEMMA IdleGood ==
  Idle \in RequestType /\ Good(Idle) /\ Idle.asked = 0 /\ Idle.pc = "new"
<1>1. Idle \in RequestType /\ Idle.asked = 0 /\ Idle.pc = "new" /\ Idle.signals = <<>> /\ Idle.kind = "none"
  BY DEF Idle, RequestType, HeardType, Status, Silence
<1>2. Findable(Idle)
  BY <1>1 DEF Findable
<1>3. QED
  BY <1>1, <1>2 DEF Good, Waiting, Known, Sound, Deliverable, AllTold, NoAddress

LEMMA InitGood == Init => IInv
<1> SUFFICES ASSUME Init PROVE IInv
  OBVIOUS
<1>1. req \in [Request -> RequestType] /\ \A r \in Request : Good(req[r]) /\ req[r].asked <= served
  BY IdleGood DEF Init
<1>2. published \in 1..MaxBuilds /\ served \in 1..published
  BY ChecksAssumption DEF Init, ChecksAssumption
<1>3. QED
  BY <1>1, <1>2 DEF Init, IInv, Typed

\* A request that begins has looked into the build that is served from then on.
LEMMA BeginMoves ==
  ASSUME IInv, NEW r \in Request, NEW kind \in {"ip", "domain", "email"},
         NEW d \in Domain \cup {Invalid}, NEW p \in Profile,
         NEW signals \in Seq(Supported(published)),
         kind \in {"domain", "email"} => FeedsOnce(signals),
         NEW dns \in Status \cup {"none"},
         kind = "email" => /\ NoDatacenter(signals) /\ d \in Domain
                           /\ dns \in {"undeliverable", "unknown"}
                           /\ Shows(signals, "no_mx") <=> dns = "undeliverable",
         Begin(r, kind, d, p, signals, dns)
  PROVE  IInv'
<1>1. PICK q : q = [Idle EXCEPT !.kind = kind, !.dom = d, !.profile = p,
                              !.asked = published,
                              !.signals = signals, !.evidence = EvidenceOf(signals),
                              !.heard.dns = dns,
                              !.pc = IF kind = "email" THEN "catchall" ELSE "enrich",
                              !.deliverability = IF Shows(signals, "no_mx")
                                                 THEN "undeliverable" ELSE "unknown"]
  OBVIOUS
<1>2. /\ published \in Nat /\ published' = published /\ served' = published
      /\ served' \in served..published /\ UNCHANGED <<published, catchall, verifier>>
      /\ req' = [req EXCEPT ![r] = q]
  BY <1>1, ChecksAssumption DEF IInv, Typed, ChecksAssumption, Begin
<1>3. signals \in Seq(SignalType) /\ EvidenceOf(signals) \in Seq(IndexHit)
  BY EvidenceType DEF Supported
<1>4. PICK pc \in {"catchall", "enrich"} : pc = IF kind = "email" THEN "catchall" ELSE "enrich"
  OBVIOUS
<1>5. PICK said \in Status :
        /\ said = IF Shows(signals, "no_mx") THEN "undeliverable" ELSE "unknown"
        /\ kind = "email" => said = dns
  BY DEF Status
<1>6. PICK told : told = [dns |-> dns, table |-> "none", verifier |-> "none"]
  OBVIOUS
<1>7. /\ Idle.heard = [dns |-> "none", table |-> "none", verifier |-> "none"]
      /\ Idle.isCatchall = FALSE /\ Idle \in RequestType
  BY IdleGood DEF Idle, Silence
<1>8. [Idle.heard EXCEPT !.dns = dns] = told
  BY <1>6, <1>7
<1>9. q = [Idle EXCEPT !.kind = kind, !.dom = d, !.profile = p, !.asked = published,
                       !.signals = signals, !.evidence = EvidenceOf(signals),
                       !.heard = told, !.pc = pc, !.deliverability = said]
  BY <1>1, <1>4, <1>5, <1>8
<1>10. /\ q.kind = kind /\ q.dom = d /\ q.profile = p /\ q.asked = published
       /\ q.signals = signals /\ q.evidence = EvidenceOf(signals)
       /\ q.heard = told /\ q.pc = pc /\ q.deliverability = said /\ q.isCatchall = FALSE
  BY <1>7, <1>9 DEF RequestType
<1>11. q \in RequestType
  <2>1. told \in HeardType
    BY <1>6 DEF HeardType
  <2>2. QED
    BY <1>2, <1>3, <1>7, <1>9, <2>1 DEF RequestType
<1>12. Findable(q)
  BY <1>10 DEF Findable
<1>13. kind = "email" => Known(q)
  <2>1. told.dns = dns /\ told.table = "none" /\ told.verifier = "none"
    BY <1>6
  <2>2. LastWord(told) = dns
    BY <2>1 DEF LastWord, Silent
  <2>3. QED
    BY <1>5, <1>10, <2>1, <2>2 DEF Known
<1>14. told.table = "none"
  BY <1>6
<1>15. Waiting(q)
  BY <1>4, <1>10, <1>13, <1>14 DEF Waiting
<1>16. Sound(q) /\ Deliverable(q)
  BY <1>10 DEF Sound, Deliverable
<1>17. Good(q) /\ q.asked <= served'
  BY <1>2, <1>10, <1>12, <1>15, <1>16 DEF Good
<1>18. QED
  BY <1>2, <1>11, <1>17, Moves

LEMMA CheckEmailMoves ==
  ASSUME IInv, NEW r \in Request, NEW d \in Domain, NEW p \in Profile, CheckEmail(r, d, p)
  PROVE  IInv'
<1>1. PICK role \in Role, mx \in MxAnswers, a \in BOOLEAN :
         Begin(r, "email", d, p, EmailSignals(published, d, role, mx, a),
               IF mx = <<>> /\ ~a THEN "undeliverable" ELSE "unknown")
  BY DEF CheckEmail
<1>2. PICK g \in 1..MaxBuilds : g = published
  BY DEF IInv, Typed
<1>3. PICK signals : signals = EmailSignals(g, d, role, mx, a)
  OBVIOUS
<1>4. signals \in Seq(Supported(g)) /\ FeedsOnce(signals) /\ NoDatacenter(signals)
  BY <1>3, EmailSignalsFindable
<1>5. PICK dns \in {"undeliverable", "unknown"} :
        /\ dns = IF mx = <<>> /\ ~a THEN "undeliverable" ELSE "unknown"
        /\ Shows(signals, "no_mx") <=> dns = "undeliverable"
  BY <1>3, NoMxShown
<1>6. dns \in Status \cup {"none"}
  BY DEF Status
<1>7. \A kind \in {"ip", "domain", "email"} :
        kind = "email" /\ Begin(r, kind, d, p, signals, dns) => IInv'
  BY <1>2, <1>4, <1>5, <1>6, BeginMoves
<1>8. Begin(r, "email", d, p, signals, dns)
  BY <1>1, <1>2, <1>3, <1>5
<1>9. QED
  BY <1>7, <1>8

LEMMA CheckDomainMoves ==
  ASSUME IInv, NEW r \in Request, NEW d \in Domain, NEW p \in Profile, CheckDomain(r, d, p)
  PROVE  IInv'
<1>1. PICK ips \in {AddressOf[h] : h \in Host} \cup {<<>>} :
         Begin(r, "domain", d, p, DomainSignals(published, d, ips), "none")
  BY DEF CheckDomain
<1>2. ips \in Seq(Ip)
  <2>1. AddressOf \in [Host -> Seq(Ip)] /\ <<>> \in Seq(Ip)
    BY ChecksAssumption DEF ChecksAssumption
  <2>2. QED
    BY <1>1, <2>1
<1>3. PICK g \in 1..MaxBuilds : g = published
  BY DEF IInv, Typed
<1>4. PICK signals : signals = DomainSignals(g, d, ips)
  OBVIOUS
<1>5. signals \in Seq(Supported(g)) /\ FeedsOnce(signals)
  BY <1>2, <1>4, DomainSignalsFindable
<1>6. \A kind \in {"ip", "domain", "email"} :
        kind = "domain" /\ Begin(r, kind, d, p, signals, "none") => IInv'
  BY <1>3, <1>5, BeginMoves
<1>7. Begin(r, "domain", d, p, signals, "none")
  BY <1>1, <1>3, <1>4
<1>8. QED
  BY <1>6, <1>7

LEMMA CheckIpMoves ==
  ASSUME IInv, NEW r \in Request, NEW ip \in Ip, NEW p \in Profile, CheckIp(r, ip, p)
  PROVE  IInv'
<1>1. PICK g \in 1..MaxBuilds : g = published
  BY DEF IInv, Typed
<1>2. PICK signals : signals = IpFindings(g, <<ip>>)
  OBVIOUS
<1>3. signals \in Seq(Supported(g))
  <2>1. <<ip>> \in Seq(Ip)
    OBVIOUS
  <2>2. signals \in Seq({x \in Supported(g) : x.kind = "feed"})
    BY <1>2, <2>1, IpFindingsSupported
  <2>3. QED
    BY <2>2
<1>4. \A kind \in {"ip", "domain", "email"} :
        kind = "ip" /\ Begin(r, kind, Invalid, p, signals, "none") => IInv'
  BY <1>1, <1>3, BeginMoves
<1>5. Begin(r, "ip", Invalid, p, signals, "none")
  BY <1>1, <1>2 DEF CheckIp
<1>6. QED
  BY <1>4, <1>5

\* The end of a handler.
LEMMA AnswerMoves ==
  ASSUME IInv, NEW r \in Request, NEW q \in RequestType, q.profile \in Profile,
         Findable(q), q.evidence = EvidenceOf(q.signals), Settled(q),
         req' = [req EXCEPT ![r] = Answer(q)], q.asked <= served',
         served' \in served..published, UNCHANGED <<published, catchall, verifier>>
  PROVE  IInv'
<1>1. PICK a : a = Answer(q)
  OBVIOUS
<1>2. /\ a \in RequestType /\ a.pc = "done"
      /\ a.kind = q.kind /\ a.dom = q.dom /\ a.asked = q.asked /\ a.profile = q.profile
      /\ a.deliverability = q.deliverability /\ a.isCatchall = q.isCatchall /\ a.heard = q.heard
      /\ Shows(a.signals, "no_mx") <=> Shows(q.signals, "no_mx") /\ "mx" \notin q.profile.ignore
      /\ Findable(a) /\ Sound(a)
      /\ (\A i \in DOMAIN q.signals : q.signals[i].kind = "invalid_syntax")
            => \A i \in DOMAIN a.signals : a.signals[i].kind = "invalid_syntax"
  BY <1>1, AnswerSound
<1>3. q.kind = "email" /\ q.dom # Invalid =>
        /\ AllTold(a)
        /\ Shows(a.signals, "no_mx")
              <=> a.heard.dns = "undeliverable" /\ "mx" \notin a.profile.ignore
  BY <1>2 DEF Settled, AllTold
<1>4. q.kind = "email" /\ q.dom = Invalid => NoAddress(a)
  BY <1>2 DEF Settled, NoAddress
<1>5. Deliverable(a)
  BY <1>2, <1>3, <1>4 DEF Deliverable
<1>6. Waiting(a)
  BY <1>2 DEF Waiting
<1>7. Good(a)
  BY <1>2, <1>5, <1>6 DEF Good
<1>8. QED
  BY <1>1, <1>2, <1>7, Moves

LEMMA CheckInvalidEmailMoves ==
  ASSUME IInv, NEW r \in Request, NEW p \in Profile, CheckInvalidEmail(r, p)
  PROVE  IInv'
<1>1. PICK q : q = [Idle EXCEPT !.kind = "email", !.profile = p, !.asked = published,
                               !.signals = <<Syntax>>,
                               !.evidence = EvidenceOf(<<Syntax>>),
                               !.deliverability = "undeliverable"]
  OBVIOUS
<1>2. /\ published \in Nat /\ served' = published /\ served' \in served..published
      /\ req' = [req EXCEPT ![r] = Answer(q)] /\ UNCHANGED <<published, catchall, verifier>>
  BY <1>1, ChecksAssumption DEF IInv, Typed, ChecksAssumption, CheckInvalidEmail
<1>3. Syntax \in SignalType /\ Syntax.kind = "invalid_syntax" /\ \A g : Syntax \in Supported(g)
  BY OwnFindings DEF Supported, Syntax, Signal
<1>4. PICK signals : signals = <<Syntax>>
  OBVIOUS
<1>5. signals \in Seq(SignalType) /\ DOMAIN signals = {1} /\ signals[1] = Syntax
  BY <1>3, <1>4
<1>6. q = [Idle EXCEPT !.kind = "email", !.profile = p, !.asked = published,
                       !.signals = signals, !.evidence = EvidenceOf(signals),
                       !.deliverability = "undeliverable"]
  BY <1>1, <1>4
<1>7. q \in RequestType
  <2>1. EvidenceOf(signals) \in Seq(IndexHit) /\ "undeliverable" \in Status
    BY <1>5, EvidenceType DEF Status
  <2>2. Idle \in RequestType
    BY IdleGood
  <2>3. QED
    BY <1>2, <1>5, <1>6, <2>1, <2>2 DEF RequestType
<1>8. /\ q.kind = "email" /\ q.profile = p /\ q.asked = published /\ q.signals = signals
      /\ q.evidence = EvidenceOf(signals) /\ q.deliverability = "undeliverable"
      /\ q.isCatchall = FALSE /\ q.heard = Silence /\ q.dom = Invalid
  BY <1>6 DEF Idle
<1>9. Findable(q)
  <2>1. signals \in Seq(Supported(published))
    BY <1>3, <1>4
  <2>2. FeedsOnce(signals) /\ NoDatacenter(signals)
    BY <1>3, <1>5 DEF FeedsOnce, NoDatacenter
  <2>3. QED
    BY <1>8, <2>1, <2>2 DEF Findable
<1>10. Settled(q)
  BY <1>3, <1>5, <1>8 DEF Settled, NoAddress
<1>11. q.profile \in Profile /\ q.evidence = EvidenceOf(q.signals) /\ q.asked <= served'
  BY <1>2, <1>8
<1>12. QED
  BY <1>2, <1>7, <1>9, <1>10, <1>11, AnswerMoves

\* A request that waits goes on, in the same build.
LEMMA WaitingRequest ==
  ASSUME IInv, NEW r \in Request, req[r].pc \in {"catchall", "verify", "enrich"}
  PROVE  /\ req[r] \in RequestType /\ Good(req[r]) /\ req[r].profile \in Profile
         /\ Findable(req[r]) /\ req[r].evidence = EvidenceOf(req[r].signals)
         /\ req[r].asked <= served /\ served \in served..published
BY ChecksAssumption DEF IInv, Typed, Good, Waiting, ChecksAssumption

\* What a request has found does not depend on its other fields.
LEMMA SameFindings ==
  ASSUME NEW q, NEW x, Findable(q), q.signals = x.signals, q.asked = x.asked, q.kind = x.kind
  PROVE  Findable(x)
BY DEF Findable

\* With a verifier the request waits on, without one it is answered.
LEMMA AfterCatchallMoves ==
  ASSUME IInv, NEW r \in Request, NEW q \in RequestType, q.pc = "catchall",
         Findable(q), Known(q), q.heard.table # "none",
         q.profile \in Profile, q.evidence = EvidenceOf(q.signals),
         req' = [req EXCEPT ![r] = AfterCatchall(q)], q.asked <= served,
         UNCHANGED <<published, served, catchall, verifier>>
  PROVE  IInv'
<1>1. served' \in served..published /\ q.asked <= served'
  BY ChecksAssumption DEF IInv, Typed, ChecksAssumption
<1>2. CASE verifier
  <2>1. PICK v : v = [q EXCEPT !.pc = "verify"]
    OBVIOUS
  <2>2. /\ v \in RequestType /\ v.pc = "verify" /\ v.signals = q.signals /\ v.asked = q.asked
        /\ v.kind = q.kind /\ v.profile = q.profile /\ v.evidence = q.evidence /\ v.dom = q.dom
        /\ v.deliverability = q.deliverability /\ v.isCatchall = q.isCatchall /\ v.heard = q.heard
    BY <2>1 DEF RequestType
  <2>3. Findable(v)
    BY <2>2, SameFindings
  <2>4. Known(v)
    BY <2>2 DEF Known
  <2>5. Good(v)
    BY <1>2, <2>2, <2>3, <2>4 DEF Good, Waiting, Sound, Deliverable
  <2>6. req' = [req EXCEPT ![r] = v]
    BY <1>2, <2>1 DEF AfterCatchall
  <2>7. QED
    BY <1>1, <2>2, <2>5, <2>6, Moves
<1>3. CASE ~verifier
  <2>1. q.dom # Invalid
    BY ChecksAssumption DEF Known, ChecksAssumption
  <2>2. AllTold(q)
    BY <1>3 DEF Known, AllTold
  <2>3. Settled(q)
    BY <2>1, <2>2 DEF Settled, Known
  <2>4. req' = [req EXCEPT ![r] = Answer(q)]
    BY <1>3 DEF AfterCatchall
  <2>5. QED
    BY <1>1, <2>3, <2>4, AnswerMoves
<1>4. QED
  BY <1>2, <1>3

LEMMA CatchallReadMoves ==
  ASSUME IInv, NEW r \in Request, CatchallRead(r)
  PROVE  IInv'
<1>1. PICK q : q = req[r]
  OBVIOUS
<1>2. /\ q \in RequestType /\ Good(q) /\ q.pc = "catchall" /\ q.asked <= served
      /\ Findable(q) /\ q.profile \in Profile /\ q.evidence = EvidenceOf(q.signals)
  BY <1>1, WaitingRequest DEF CatchallRead
<1>3. Known(q) /\ q.heard.table = "none"
  BY <1>2 DEF Good, Waiting
<1>4. PICK x : x = IF q.dom \in catchall
                   THEN [q EXCEPT !.isCatchall = TRUE, !.deliverability = "catchall",
                                  !.heard.table = "catchall"]
                   ELSE [q EXCEPT !.heard.table = "unknown"]
  OBVIOUS
<1>5. req' = [req EXCEPT ![r] = AfterCatchall(x)] /\ UNCHANGED <<published, served, catchall, verifier>>
  BY <1>1, <1>4 DEF CatchallRead, IInv, Typed
<1>6. q.heard \in HeardType
  BY <1>2 DEF RequestType
<1>7. PICK told : told = [q.heard EXCEPT !.table = IF q.dom \in catchall THEN "catchall" ELSE "unknown"]
  OBVIOUS
<1>8. /\ told.dns = q.heard.dns /\ told.verifier = q.heard.verifier
      /\ told.table = IF q.dom \in catchall THEN "catchall" ELSE "unknown"
      /\ told \in HeardType
  BY <1>6, <1>7 DEF HeardType, Status
<1>9. /\ x \in RequestType /\ x.pc = q.pc /\ x.kind = q.kind /\ x.dom = q.dom
      /\ x.asked = q.asked /\ x.signals = q.signals /\ x.evidence = q.evidence
      /\ x.profile = q.profile /\ x.heard = told
      /\ q.dom \in catchall => x.isCatchall = TRUE /\ x.deliverability = "catchall"
      /\ q.dom \notin catchall => x.isCatchall = q.isCatchall /\ x.deliverability = q.deliverability
  <2>1. CASE q.dom \in catchall
    <3>1. x = [q EXCEPT !.isCatchall = TRUE, !.deliverability = "catchall", !.heard = told]
      BY <1>2, <1>4, <1>7, <2>1 DEF RequestType
    <3>2. QED
      BY <1>2, <1>8, <2>1, <3>1 DEF RequestType, Status
  <2>2. CASE q.dom \notin catchall
    <3>1. x = [q EXCEPT !.heard = told]
      BY <1>2, <1>4, <1>7, <2>2 DEF RequestType
    <3>2. QED
      BY <1>2, <1>8, <2>2, <3>1 DEF RequestType
  <2>3. QED
    BY <2>1, <2>2
<1>10. Findable(x)
  BY <1>2, <1>9, SameFindings
<1>11. LastWord(told) = x.deliverability
  BY <1>3, <1>8, <1>9 DEF Known, LastWord, Silent
<1>12. Known(x)
  BY <1>3, <1>8, <1>9, <1>11 DEF Known
<1>13. x.heard.table # "none"
  BY <1>8, <1>9
<1>14. QED
  BY <1>2, <1>5, <1>9, <1>10, <1>12, <1>13, AfterCatchallMoves

LEMMA VerifiedMoves ==
  ASSUME IInv, NEW r \in Request, NEW status \in Status, Verified(r, status)
  PROVE  IInv'
<1>1. PICK q : q = req[r]
  OBVIOUS
<1>2. /\ q \in RequestType /\ Good(q) /\ q.pc = "verify" /\ q.asked <= served
      /\ Findable(q) /\ q.profile \in Profile /\ q.evidence = EvidenceOf(q.signals)
      /\ served \in served..published
  BY <1>1, WaitingRequest DEF Verified
<1>3. verifier /\ Known(q) /\ q.heard.table # "none"
  BY <1>2 DEF Good, Waiting
<1>4. PICK x : x = [Told(q, status) EXCEPT !.heard.verifier = status]
  OBVIOUS
<1>5. req' = [req EXCEPT ![r] = Answer(x)] /\ UNCHANGED <<published, served, catchall, verifier>>
  BY <1>1, <1>4 DEF Verified
<1>6. PICK told : told = [q.heard EXCEPT !.verifier = status]
  OBVIOUS
<1>7. /\ told.dns = q.heard.dns /\ told.table = q.heard.table /\ told.verifier = status
      /\ told \in HeardType
  BY <1>2, <1>6 DEF RequestType, HeardType
<1>8. /\ Told(q, status) \in RequestType /\ Told(q, status).kind = q.kind
      /\ Told(q, status).dom = q.dom /\ Told(q, status).asked = q.asked
      /\ Told(q, status).signals = q.signals /\ Told(q, status).evidence = q.evidence
      /\ Told(q, status).profile = q.profile /\ Told(q, status).heard = q.heard
      /\ Told(q, status).deliverability = IF status = "unknown" THEN q.deliverability ELSE status
      /\ Told(q, status).isCatchall <=> q.isCatchall \/ status = "catchall"
  BY <1>2 DEF RequestType, Told
<1>9. x = [Told(q, status) EXCEPT !.heard = told]
  BY <1>4, <1>6, <1>8 DEF RequestType
<1>10. /\ x \in RequestType /\ x.kind = q.kind /\ x.dom = q.dom /\ x.asked = q.asked
       /\ x.signals = q.signals /\ x.evidence = q.evidence /\ x.profile = q.profile
       /\ x.heard = told
       /\ x.deliverability = IF status = "unknown" THEN q.deliverability ELSE status
       /\ x.isCatchall <=> q.isCatchall \/ status = "catchall"
  BY <1>7, <1>8, <1>9 DEF RequestType
<1>11. Findable(x)
  BY <1>2, <1>10, SameFindings
<1>12. status # "none"
  BY DEF Status
<1>13. LastWord(told) = x.deliverability
  BY <1>3, <1>7, <1>10, <1>12 DEF Known, LastWord, Silent
<1>14. AllTold(x)
  BY <1>3, <1>7, <1>10, <1>12, <1>13 DEF Known, AllTold
<1>15. Settled(x)
  BY <1>3, <1>7, <1>10, <1>14, ChecksAssumption DEF Known, Settled, ChecksAssumption
<1>16. /\ x.profile \in Profile /\ x.evidence = EvidenceOf(x.signals) /\ x.asked <= served'
       /\ served' \in served..published /\ UNCHANGED <<published, catchall, verifier>>
  BY <1>2, <1>5, <1>10
<1>17. QED
  BY <1>5, <1>10, <1>11, <1>15, <1>16, AnswerMoves

LEMMA EnrichedMoves ==
  ASSUME IInv, NEW r \in Request, Enriched(r)
  PROVE  IInv'
<1>1. PICK q : q = req[r]
  OBVIOUS
<1>2. /\ q \in RequestType /\ Good(q) /\ q.pc = "enrich" /\ q.asked <= served
      /\ Findable(q) /\ q.profile \in Profile /\ q.evidence = EvidenceOf(q.signals)
      /\ served \in served..published
  BY <1>1, WaitingRequest DEF Enriched
<1>3. q.kind # "email"
  BY <1>2 DEF Good, Waiting
<1>4. Settled(q)
  BY <1>3 DEF Settled
<1>5. /\ req' = [req EXCEPT ![r] = Answer(q)] /\ UNCHANGED <<published, catchall, verifier>>
      /\ served' \in served..published /\ q.asked <= served'
  BY <1>1, <1>2 DEF Enriched, IInv, Typed
<1>6. QED
  BY <1>2, <1>4, <1>5, AnswerMoves

LEMMA RaisesMoves ==
  ASSUME IInv, NEW r \in Request, Raises(r)
  PROVE  IInv'
<1>1. PICK q : q = req[r]
  OBVIOUS
<1>2. /\ q \in RequestType /\ Good(q) /\ q.asked <= served /\ Findable(q)
      /\ served \in served..published
  BY <1>1, WaitingRequest DEF Raises
<1>3. PICK x : x = [q EXCEPT !.pc = "failed"]
  OBVIOUS
<1>4. /\ x \in RequestType /\ x.pc = "failed" /\ x.signals = q.signals
      /\ x.asked = q.asked /\ x.kind = q.kind
  BY <1>2, <1>3 DEF RequestType
<1>5. Findable(x)
  BY <1>2, <1>4, SameFindings
<1>6. Good(x)
  BY <1>4, <1>5 DEF Good, Waiting, Sound, Deliverable
<1>7. /\ req' = [req EXCEPT ![r] = x] /\ UNCHANGED <<published, catchall, verifier>>
      /\ served' \in served..published /\ x.asked <= served'
  BY <1>1, <1>2, <1>3, <1>4 DEF Raises, IInv, Typed
<1>8. QED
  BY <1>4, <1>6, <1>7, Moves

LEMMA NextRequestMoves ==
  ASSUME IInv, NEW r \in Request, NextRequest(r)
  PROVE  IInv'
<1>1. PICK x : x = Idle
  OBVIOUS
<1>2. x \in RequestType /\ Good(x) /\ x.asked = 0
  BY <1>1, IdleGood
<1>3. /\ req' = [req EXCEPT ![r] = x] /\ UNCHANGED <<published, catchall, verifier>>
      /\ served' \in served..published /\ x.asked <= served'
  BY <1>1, <1>2, ChecksAssumption DEF NextRequest, IInv, Typed, ChecksAssumption
<1>4. QED
  BY <1>2, <1>3, Moves

LEMMA PublishMoves == IInv /\ Publish => IInv'
<1> SUFFICES ASSUME IInv, Publish PROVE IInv'
  OBVIOUS
<1>1. published' \in 1..MaxBuilds /\ served' \in 1..published' /\ UNCHANGED <<served, catchall, verifier, req>>
  BY ChecksAssumption DEF IInv, Typed, Publish, ChecksAssumption
<1>2. \A r \in Request : Good(req[r])'
  BY <1>1 DEF IInv, Good, Findable, Waiting, Known, Sound, Deliverable, AllTold, NoAddress
<1>3. QED
  BY <1>1, <1>2 DEF IInv, Typed

LEMMA TouchCatchallMoves ==
  ASSUME IInv, NEW d \in Domain, TouchCatchall(d)
  PROVE  IInv'
<1>1. /\ catchall \subseteq catchall' /\ catchall' \subseteq Domain
      /\ UNCHANGED <<published, served, verifier, req>>
  BY DEF IInv, Typed, TouchCatchall
<1>2. ASSUME NEW r \in Request PROVE Good(req[r])'
  <2>1. PICK x : x = req[r]
    OBVIOUS
  <2>2. Good(x)
    BY <2>1 DEF IInv
  <2>3. Good(x)'
    BY <1>1, <2>2, GoodStays
  <2>4. x = req'[r]
    BY <1>1, <2>1
  <2>5. QED
    BY <2>3, <2>4 DEF Good, Findable, Waiting, Known, Sound, Deliverable, AllTold, NoAddress
<1>3. QED
  BY <1>1, <1>2 DEF IInv, Typed

LEMMA StutterMoves == IInv /\ UNCHANGED vars => IInv'
<1> SUFFICES ASSUME IInv, UNCHANGED vars PROVE IInv'
  OBVIOUS
<1>1. UNCHANGED <<published, served, catchall, verifier, req>>
  BY DEF vars
<1>2. \A r \in Request : Good(req[r])'
  BY <1>1 DEF IInv, Good, Findable, Waiting, Known, Sound, Deliverable, AllTold, NoAddress
<1>3. QED
  BY <1>1, <1>2 DEF IInv, Typed

LEMMA NextGood == IInv /\ [Next]_vars => IInv'
<1> SUFFICES ASSUME IInv, [Next]_vars PROVE IInv'
  OBVIOUS
<1>1. CASE Publish
  BY <1>1, PublishMoves
<1>2. ASSUME NEW d \in Domain, TouchCatchall(d) PROVE IInv'
  BY <1>2, TouchCatchallMoves
<1>3. ASSUME NEW r \in Request, NEW p \in Profile, CheckInvalidEmail(r, p) PROVE IInv'
  BY <1>3, CheckInvalidEmailMoves
<1>4. ASSUME NEW r \in Request, NEW p \in Profile, NEW d \in Domain, CheckEmail(r, d, p) PROVE IInv'
  BY <1>4, CheckEmailMoves
<1>5. ASSUME NEW r \in Request, NEW p \in Profile, NEW d \in Domain, CheckDomain(r, d, p) PROVE IInv'
  BY <1>5, CheckDomainMoves
<1>6. ASSUME NEW r \in Request, NEW p \in Profile, NEW ip \in Ip, CheckIp(r, ip, p) PROVE IInv'
  BY <1>6, CheckIpMoves
<1>7. ASSUME NEW r \in Request, CatchallRead(r) PROVE IInv'
  BY <1>7, CatchallReadMoves
<1>8. ASSUME NEW r \in Request, Enriched(r) PROVE IInv'
  BY <1>8, EnrichedMoves
<1>9. ASSUME NEW r \in Request, Raises(r) PROVE IInv'
  BY <1>9, RaisesMoves
<1>10. ASSUME NEW r \in Request, NextRequest(r) PROVE IInv'
  BY <1>10, NextRequestMoves
<1>11. ASSUME NEW r \in Request, NEW status \in Status, Verified(r, status) PROVE IInv'
  BY <1>11, VerifiedMoves
<1>12. CASE UNCHANGED vars
  BY <1>12, StutterMoves
<1>13. QED
  BY <1>1, <1>2, <1>3, <1>4, <1>5, <1>6, <1>7, <1>8, <1>9, <1>10, <1>11, <1>12 DEF Next

-----------------------------------------------------------------------------
(* The theorems *)

\* The inductive invariant: a request that waits has the findings of one build and their
\* evidence, and an answer is sound (the handlers between their awaits).
THEOREM ChecksInvariance == Spec => []IInv
<1>1. Init => IInv
  BY InitGood
<1>2. IInv /\ [Next]_vars => IInv'
  BY NextGood
<1>3. QED
  BY <1>1, <1>2, PTL DEF Spec

\* Type correctness of the requests and the index they share; in particular the score
\* of an answer is between 0 and 100, whatever the weights are.
THEOREM TypeCorrect == Spec => []TypeOK
<1>1. IInv => TypeOK
  <2> SUFFICES ASSUME IInv PROVE TypeOK
    OBVIOUS
  <2>1. ASSUME NEW r \in Request
        PROVE  /\ req[r].pc \in {"new", "catchall", "verify", "enrich", "done", "failed"}
               /\ req[r].kind \in {"none", "ip", "domain", "email"}
               /\ req[r].dom \in Domain \cup {Invalid}
               /\ req[r].asked \in 0..served
               /\ req[r].deliverability \in Status
               /\ req[r].score \in 0..100
               /\ req[r].decision \in {"none", "allow", "challenge", "block"}
    BY ChecksAssumption DEF IInv, Typed, RequestType, ChecksAssumption
  <2>2. QED
    BY <2>1 DEF IInv, Typed, TypeOK
<1>2. QED
  BY <1>1, ChecksInvariance, PTL

\* All that an answer has from the index is in the build that was the last when the
\* request came, for any number of requests, builds and reloads in between.
THEOREM AnswersAreOfOneBuild == Spec => []OneBuild
<1>1. IInv => OneBuild
  <2> SUFFICES ASSUME IInv, NEW r \in Request, NEW i \in DOMAIN req[r].signals,
                      req[r].signals[i].kind \in {"feed", "domain", "email_domain"}
               PROVE  InBuild(req[r].asked, req[r].signals[i])
    BY DEF OneBuild
  <2>1. req[r].signals \in Seq(Supported(req[r].asked))
    BY DEF IInv, Good, Findable
  <2>2. req[r].signals[i] \in Supported(req[r].asked)
    BY <2>1
  <2>3. QED
    BY <2>2 DEF Supported, IndexKind
<1>2. QED
  BY <1>1, ChecksInvariance, PTL

\* The evidence of an answer is enough to recompute the score, the confidence and the
\* decision that are reported with it, and the profile's weights and ignores are in it,
\* for any profiles, weights and findings.
THEOREM AnswersAreExplained == Spec => []Explained
<1>1. IInv => Explained
  BY DEF IInv, Good, Sound, Explained, Done
<1>2. QED
  BY <1>1, ChecksInvariance, PTL

\* A feed is one finding per category, for any number of hosts and addresses.
THEOREM FeedsCountOnce == Spec => []OneFindingPerFeed
<1>1. IInv => OneFindingPerFeed
  <2> SUFFICES ASSUME IInv, NEW r \in Request, req[r].kind \in {"domain", "email"}
               PROVE  LET found == req[r].signals
                          feeds == {i \in DOMAIN found : found[i].kind = "feed"}
                      IN  /\ \A i, j \in feeds :
                                found[i].source = found[j].source
                                /\ found[i].category = found[j].category => i = j
                          /\ req[r].kind = "email" => \A i \in feeds : found[i].category # "datacenter"
    BY DEF OneFindingPerFeed
  <2>1. FeedsOnce(req[r].signals) /\ (req[r].kind = "email" => NoDatacenter(req[r].signals))
    BY DEF IInv, Good, Findable
  <2>2. QED
    BY <2>1 DEF FeedsOnce, NoDatacenter
<1>2. QED
  BY <1>1, ChecksInvariance, PTL

\* The deliverability of an answer is what the last source that knows has said, DNS, the
\* catch-all table or the verifier, each of which was asked, however the table grows and
\* whatever other requests do while the request waits.
THEOREM DeliverabilityHasACause == Spec => []DeliverabilityExplained
<1>1. IInv => DeliverabilityExplained
  BY DEF IInv, Good, Deliverable, AllTold, NoAddress, DeliverabilityExplained, Done
<1>2. QED
  BY <1>1, ChecksInvariance, PTL

-----------------------------------------------------------------------------
(* The typo test *)

\* f[j] is how many letters of long are skipped in its first j ones.
Skipping(f, short, long) ==
    /\ f[0] = 0
    /\ \A j \in 1..Len(long) :
          f[j] = IF f[j - 1] < 2 /\ j - f[j - 1] <= Len(short) /\ short[j - f[j - 1]] # long[j]
                 THEN f[j - 1] + 1 ELSE f[j - 1]

LEMMA SkipsRecursion ==
  ASSUME NEW short \in Seq(Letter), NEW long \in Seq(Letter)
  PROVE  \E f : Skipping(f, short, long) /\ (Skips(short, long) <=> f[Len(long)] < 2)
<1>1. PICK n \in Nat : n = Len(long)
  OBVIOUS
<1> DEFINE after(j, x) == IF x < 2 /\ j - x <= Len(short) /\ short[j - x] # long[j]
                          THEN x + 1 ELSE x
           next == [j \in 1..n |-> [x \in Nat |-> after(j, x)]]
           Is(f) == f = [j \in 0..n |->
                            IF j = 0 THEN 0
                            ELSE LET before == f[j - 1]
                                 IN  IF before < 2 /\ j - before <= Len(short) /\ short[j - before] # long[j]
                                     THEN before + 1 ELSE before]
           h == CHOOSE f : Is(f)
<1>2. next \in [1..n -> [Nat -> Nat]]
  OBVIOUS
<1>3. PICK f \in [0..n -> Nat] : Follows(f, 0, n, next)
  <2> HIDE DEF next
  <2>1. \A v \in Nat : \E f \in [0..n -> Nat] : Follows(f, v, n, next)
    BY <1>2, Recursion
  <2>2. QED
    BY <2>1
<1>4. \A j \in 1..n : f[j] = after(j, f[j - 1])
  <2>1. ASSUME NEW j \in 1..n PROVE f[j] = after(j, f[j - 1])
    <3>1. f[j - 1] \in Nat /\ f[j] = next[j][f[j - 1]]
      BY <1>3, Indices DEF Follows
    <3>2. next[j] = [x \in Nat |-> after(j, x)]
      OBVIOUS
    <3> HIDE DEF next, after
    <3>3. QED
      BY <3>1, <3>2
  <2>2. QED
    BY <2>1
<1>5. Is(f)
  <2>1. f[0] = 0
    BY <1>3 DEF Follows
  <2>2. QED
    BY <1>4, <2>1, Indices
<1>6. Is(h)
  <2> HIDE DEF Is
  <2>1. QED
    BY <1>5
<1>7. Skips(short, long) <=> h[n] < 2
  BY <1>1 DEF Skips
<1> HIDE DEF h
<1>8. Skipping(h, short, long)
  BY <1>1, <1>6, Indices DEF Skipping
<1>9. QED
  BY <1>1, <1>7, <1>8

\* short is long without its letter at d.
Without(short, long, d) ==
    \A k \in 1..Len(short) : short[k] = IF k < d THEN long[k] ELSE long[k + 1]

LEMMA RemoveAtIsWithout ==
  ASSUME NEW short \in Seq(Letter), NEW long \in Seq(Letter), NEW d \in DOMAIN long
  PROVE  RemoveAt(long, d) = short <=> Len(long) = Len(short) + 1 /\ Without(short, long, d)
<1>1. PICK n \in Nat : n = Len(long) /\ DOMAIN long = 1..n
  OBVIOUS
<1>2. PICK m \in Nat : m = Len(short) /\ DOMAIN short = 1..m
  OBVIOUS
<1> DEFINE head == SubSeq(long, 1, d - 1)
           tail == SubSeq(long, d + 1, n)
           r == RemoveAt(long, d)
<1>3. d \in 1..n /\ \A k \in 1..n : long[k] \in Letter
  BY <1>1
<1>4. /\ head \in Seq(Letter) /\ Len(head) = d - 1
      /\ \A k \in 1..(d - 1) : head[k] = long[k]
  BY <1>1, <1>3
<1>5. /\ tail \in Seq(Letter) /\ Len(tail) = n - d
      /\ \A k \in 1..(n - d) : tail[k] = long[d + k]
  BY <1>1, <1>3
<1>6. r = head \o tail
  BY <1>1 DEF RemoveAt
<1> HIDE DEF head, tail, r
<1>7. /\ r \in Seq(Letter) /\ Len(r) = n - 1
      /\ \A k \in 1..(n - 1) : r[k] = IF k < d THEN long[k] ELSE long[k + 1]
  <2>1. r \in Seq(Letter) /\ Len(r) = n - 1
    <3>1. r \in Seq(Letter) /\ Len(r) = Len(head) + Len(tail)
      BY <1>4, <1>5, <1>6
    <3>2. QED
      BY <1>3, <1>4, <1>5, <3>1
  <2>2. ASSUME NEW k \in 1..(n - 1) PROVE r[k] = IF k < d THEN long[k] ELSE long[k + 1]
    <3>1. CASE k < d
      BY <1>3, <1>4, <1>5, <1>6, <3>1
    <3>2. CASE ~(k < d)
      <4>1. k - (d - 1) \in 1..(n - d) /\ d + (k - (d - 1)) = k + 1
        BY <1>3, <3>2
      <4>2. r[k] = tail[k - (d - 1)]
        BY <1>3, <1>4, <1>5, <1>6, <3>2
      <4>3. QED
        BY <1>5, <3>2, <4>1, <4>2
    <3>3. QED
      BY <3>1, <3>2
  <2>3. QED
    BY <2>1, <2>2
<1>8. r = short <=> n - 1 = m /\ \A k \in 1..m : r[k] = short[k]
  <2>1. r = short => Len(r) = Len(short)
    OBVIOUS
  <2>2. ASSUME n - 1 = m, \A k \in 1..m : r[k] = short[k] PROVE r = short
    <3>1. r \in [1..m -> Letter] /\ short \in [1..m -> Letter]
      BY <1>2, <1>7, <2>2
    <3>2. QED
      BY <2>2, <3>1
  <2>3. QED
    BY <1>2, <1>7, <2>1, <2>2
<1>9. QED
  BY <1>1, <1>2, <1>7, <1>8 DEF Without, r

\* The loop says whether one letter can be removed.
LEMMA SkipsIsRemoval ==
  ASSUME NEW short \in Seq(Letter), NEW long \in Seq(Letter), Len(long) = Len(short) + 1
  PROVE  Skips(short, long) <=> \E d \in DOMAIN long : RemoveAt(long, d) = short
<1>1. PICK n \in Nat : n = Len(long) /\ DOMAIN long = 1..n /\ Len(short) = n - 1
  OBVIOUS
<1>2. PICK f : Skipping(f, short, long) /\ (Skips(short, long) <=> f[n] < 2)
  BY <1>1, SkipsRecursion
<1>3. n > 0
  BY <1>1
<1>4. ASSUME NEW j \in 0..(n - 1)
      PROVE  /\ j + 1 \in 1..n /\ j + 1 \in 0..n
             /\ f[j + 1] = IF f[j] < 2 /\ (j + 1) - f[j] <= n - 1 /\ short[(j + 1) - f[j]] # long[j + 1]
                           THEN f[j] + 1 ELSE f[j]
  <2>1. j + 1 \in 1..n /\ j + 1 \in 0..n /\ (j + 1) - 1 = j
    OBVIOUS
  <2>2. QED
    BY <1>1, <1>2, <2>1 DEF Skipping
<1>5. ASSUME NEW d \in 1..n, Without(short, long, d) PROVE f[n] < 2
  <2> DEFINE T == {j \in 0..n : f[j] = 0 \/ (f[j] = 1 /\ d <= j)}
  <2>1. 0 \in T
    BY <1>2 DEF Skipping
  <2>2. ASSUME NEW j \in 0..(n - 1), j \in T PROVE j + 1 \in T
    <3>1. CASE f[j] = 0
      <4>1. j + 1 < d /\ j + 1 <= n - 1 => short[j + 1] = long[j + 1]
        BY <1>1, <1>5 DEF Without
      <4>2. (j + 1) - f[j] = j + 1
        BY <3>1
      <4>3. QED
        BY <1>4, <3>1, <4>1, <4>2
    <3>2. CASE f[j] = 1 /\ d <= j
      <4>1. short[j] = long[j + 1]
        BY <1>1, <1>5, <3>2 DEF Without
      <4>2. (j + 1) - f[j] = j
        BY <3>2
      <4>3. QED
        BY <1>4, <3>2, <4>1, <4>2
    <3>3. QED
      BY <2>2, <3>1, <3>2
  <2> HIDE DEF T
  <2>3. \A j \in 0..n : j \in T
    BY <2>1, <2>2, SetInduction
  <2>4. n \in T
    BY <2>3
  <2>5. QED
    BY <2>4 DEF T
<1>6. ASSUME f[n] < 2 PROVE \E d \in 1..n : Without(short, long, d)
  <2> DEFINE Same(d)     == \A k \in 1..(n - 1) : k < d => short[k] = long[k]
             Later(d, j) == \A k \in 1..(n - 1) : d <= k /\ k < j => short[k] = long[k + 1]
             T == {j \in 0..n : \/ f[j] = 0 /\ Same(j + 1)
                                \/ f[j] = 1 /\ \E d \in 1..j : Same(d) /\ Later(d, j)
                                \/ f[j] = 2}
  <2>1. 0 \in T
    <3>1. Same(1) /\ 0 + 1 = 1
      OBVIOUS
    <3>2. QED
      BY <1>2, <3>1 DEF Skipping
  <2>2. ASSUME NEW j \in 0..(n - 1), j \in T PROVE j + 1 \in T
    <3>1. CASE f[j] = 0 /\ Same(j + 1)
      <4>1. (j + 1) - f[j] = j + 1 /\ j + 1 \in 1..(j + 1)
        BY <3>1
      <4>2. CASE f[j + 1] = 0
        <5>1. j + 1 <= n - 1 => short[j + 1] = long[j + 1]
          BY <1>4, <3>1, <4>1, <4>2
        <5>2. \A k \in 1..(n - 1) : k < (j + 1) + 1 => k < j + 1 \/ k = j + 1
          OBVIOUS
        <5>3. Same((j + 1) + 1)
          BY <3>1, <5>1, <5>2
        <5>4. QED
          BY <1>4, <4>2, <5>3
      <4>3. CASE f[j + 1] = 1
        <5>1. Later(j + 1, j + 1)
          OBVIOUS
        <5>2. QED
          BY <1>4, <3>1, <4>1, <4>3, <5>1
      <4>4. QED
        BY <1>4, <3>1, <4>2, <4>3
    <3>2. CASE f[j] = 1 /\ \E d \in 1..j : Same(d) /\ Later(d, j)
      <4>1. PICK d \in 1..j : Same(d) /\ Later(d, j)
        BY <3>2
      <4>2. (j + 1) - f[j] = j /\ d \in 1..(j + 1) /\ j <= n - 1
        BY <3>2
      <4>3. CASE f[j + 1] = 1
        <5>0. f[j] < 2 /\ f[j] + 1 = 2
          BY <3>2
        <5>1. short[j] = long[j + 1]
          <6>1. f[j + 1] = IF short[j] # long[j + 1] THEN 2 ELSE f[j]
            BY <1>4, <4>2, <5>0
          <6>2. QED
            BY <4>3, <6>1
        <5>2. \A k \in 1..(n - 1) : k < j + 1 => k < j \/ k = j
          OBVIOUS
        <5>3. Later(d, j + 1)
          BY <4>1, <5>1, <5>2
        <5>4. QED
          BY <1>4, <4>1, <4>2, <4>3, <5>3
      <4>4. CASE f[j + 1] = 2
        BY <1>4, <4>4
      <4>5. QED
        BY <1>4, <3>2, <4>3, <4>4
    <3>3. CASE f[j] = 2
      BY <1>4, <3>3
    <3>4. QED
      BY <2>2, <3>1, <3>2, <3>3
  <2> HIDE DEF T
  <2>3. \A j \in 0..n : j \in T
    BY <2>1, <2>2, SetInduction
  <2>4. n \in T
    BY <2>3
  <2>5. Same(n + 1) \/ \E d \in 1..n : Same(d) /\ Later(d, n)
    <3>1. f[n] # 2
      BY <1>6
    <3> HIDE DEF Same, Later
    <3>2. QED
      BY <2>4, <3>1 DEF T
  <2>6. CASE Same(n + 1)
    <3>1. Without(short, long, n)
      BY <1>1, <2>6 DEF Without
    <3>2. QED
      BY <1>3, <3>1
  <2>7. CASE \E d \in 1..n : Same(d) /\ Later(d, n)
    <3>1. PICK d \in 1..n : Same(d) /\ Later(d, n)
      BY <2>7
    <3>2. Without(short, long, d)
      BY <1>1, <3>1 DEF Without
    <3>3. QED
      BY <3>2
  <2>8. QED
    BY <2>5, <2>6, <2>7
<1>7. Skips(short, long) <=> \E d \in 1..n : Without(short, long, d)
  BY <1>2, <1>5, <1>6
<1>8. \A d \in 1..n : RemoveAt(long, d) = short <=> Without(short, long, d)
  BY <1>1, RemoveAtIsWithout
<1>9. QED
  BY <1>1, <1>7, <1>8

-----------------------------------------------------------------------------

\* One edit of a word of the same length: another letter somewhere, or two neighbours
\* that are swapped.
LEMMA SameLengthIsEdit ==
  ASSUME NEW n \in Nat, NEW a \in [1..n -> Letter], NEW b \in [1..n -> Letter]
  PROVE  SameLength(a, b) <=>
            /\ a # b
            /\ \/ \E i \in DOMAIN a \cap DOMAIN b : [a EXCEPT ![i] = b[i]] = b
               \/ \E i \in 1..(Len(a) - 1) : [a EXCEPT ![i] = a[i + 1], ![i + 1] = a[i]] = b
<1>1. DOMAIN a = 1..n /\ DOMAIN b = 1..n /\ Len(a) = n /\ Len(b) = n
  <2>1. a \in Seq(Letter) /\ b \in Seq(Letter)
    OBVIOUS
  <2>2. QED
    BY <2>1
<1>2. Differ(a, b) \in SUBSET (1..n) /\ \A i \in 1..n : i \in Differ(a, b) <=> a[i] # b[i]
  BY <1>1 DEF Differ
<1> DEFINE D == Differ(a, b)
           Swap(i) == /\ \A k \in 1..n : k = i \/ k = i + 1 \/ a[k] = b[k]
                      /\ b[i] = a[i + 1] /\ b[i + 1] = a[i]
<1>3. a = b <=> D = {}
  BY <1>2
<1> HIDE DEF D
<1>4. Cardinality(D) = 1 <=> \E i \in 1..n : D = {i}
  <2>1. D \in SUBSET (1..n) /\ IsFiniteSet(1..n)
    BY <1>2, FS_Interval DEF D
  <2>2. IsFiniteSet(D)
    BY <2>1, FS_Subset
  <2>3. Cardinality(D) = 1 <=> \E i : D = {i}
    BY <2>2, FS_Singleton
  <2>4. QED
    BY <2>1, <2>3
<1>5. ASSUME NEW i \in 1..n
      PROVE  [a EXCEPT ![i] = b[i]] = b <=> D \in SUBSET {i}
  <2>1. [a EXCEPT ![i] = b[i]] = b <=> \A k \in 1..n : k = i \/ a[k] = b[k]
    OBVIOUS
  <2>2. QED
    BY <1>2, <2>1 DEF D
<1>6. ASSUME NEW i \in 1..(n - 1)
      PROVE  /\ [a EXCEPT ![i] = a[i + 1], ![i + 1] = a[i]] = b <=> Swap(i)
             /\ Swap(i) <=> D \in SUBSET {i, i + 1} /\ a[i] = b[i + 1] /\ a[i + 1] = b[i]
  <2>1. i \in 1..n /\ i + 1 \in 1..n /\ i # i + 1
    OBVIOUS
  <2>2. [a EXCEPT ![i] = a[i + 1], ![i + 1] = a[i]] = b <=> Swap(i)
    BY <2>1
  <2>3. Swap(i) <=> D \in SUBSET {i, i + 1} /\ a[i] = b[i + 1] /\ a[i + 1] = b[i]
    BY <1>2, <2>1 DEF D
  <2>4. QED
    BY <2>2, <2>3
<1>7. ASSUME NEW i \in 1..n, D = {i, i + 1} PROVE i \in 1..(n - 1)
  BY <1>2, <1>7 DEF D
<1>8. ASSUME NEW i \in 1..(n - 1), Swap(i), D # {} PROVE D = {i, i + 1}
  <2>1. i \in 1..n /\ i + 1 \in 1..n
    OBVIOUS
  <2>2. i \in D <=> i + 1 \in D
    BY <1>2, <1>8, <2>1 DEF D
  <2>3. D \in SUBSET {i, i + 1}
    BY <1>6, <1>8
  <2>4. QED
    BY <1>8, <2>2, <2>3
<1> HIDE DEF Swap
<1>9. SameLength(a, b) <=> \/ \E i \in 1..n : D = {i}
                           \/ \E i \in 1..n : D = {i, i + 1} /\ a[i] = b[i + 1] /\ a[i + 1] = b[i]
  BY <1>1, <1>4 DEF SameLength, D
<1>10. (\E i \in 1..n : D = {i, i + 1} /\ a[i] = b[i + 1] /\ a[i + 1] = b[i])
         <=> D # {} /\ \E i \in 1..(n - 1) : Swap(i)
  <2>1. 1..(n - 1) \in SUBSET (1..n)
    OBVIOUS
  <2>2. ASSUME NEW i \in 1..n, D = {i, i + 1}, a[i] = b[i + 1], a[i + 1] = b[i]
        PROVE  D # {} /\ \E j \in 1..(n - 1) : Swap(j)
    BY <1>6, <1>7, <2>2
  <2>3. ASSUME NEW i \in 1..(n - 1), D # {}, Swap(i)
        PROVE  \E j \in 1..n : D = {j, j + 1} /\ a[j] = b[j + 1] /\ a[j + 1] = b[j]
    BY <1>6, <1>8, <2>1, <2>3
  <2>4. QED
    BY <2>2, <2>3
<1>11. (\E i \in 1..n : D = {i}) <=> D # {} /\ \E i \in 1..n : D \in SUBSET {i}
  OBVIOUS
<1>12. (\E i \in DOMAIN a \cap DOMAIN b : [a EXCEPT ![i] = b[i]] = b)
         <=> \E i \in 1..n : D \in SUBSET {i}
  BY <1>1, <1>5
<1>13. (\E i \in 1..(Len(a) - 1) : [a EXCEPT ![i] = a[i + 1], ![i + 1] = a[i]] = b)
         <=> \E i \in 1..(n - 1) : Swap(i)
  BY <1>1, <1>6
<1>14. QED
  BY <1>3, <1>9, <1>10, <1>11, <1>12, <1>13

\* The typo test is right on words of any length over any letters.
LEMMA OneEditIsRight == OneEditIsOneEdit
<1> SUFFICES ASSUME NEW a \in Word, NEW b \in Word
             PROVE  OneEditAway(a, b) <=> a # b /\ IsEdit(a, b)
  BY DEF OneEditIsOneEdit
<1>1. PICK m \in Nat : a \in [1..m -> Letter]
  BY DEF Word
<1>2. PICK n \in Nat : b \in [1..n -> Letter]
  BY DEF Word
<1>3. a \in Seq(Letter) /\ b \in Seq(Letter) /\ Len(a) = m /\ Len(b) = n
  <2>1. a \in Seq(Letter) /\ b \in Seq(Letter)
    BY <1>1, <1>2
  <2>2. QED
    BY <1>1, <1>2, <2>1
<1>4. \A i \in DOMAIN b : RemoveAt(b, i) = a => n = m + 1
  BY <1>3, RemoveAtIsWithout
<1>5. \A i \in DOMAIN a : RemoveAt(a, i) = b => m = n + 1
  BY <1>3, RemoveAtIsWithout
<1>6. ASSUME \/ \E i \in DOMAIN a \cap DOMAIN b : [a EXCEPT ![i] = b[i]] = b
             \/ \E i \in 1..(Len(a) - 1) : [a EXCEPT ![i] = a[i + 1], ![i + 1] = a[i]] = b
      PROVE  m = n
  <2>1. DOMAIN b = DOMAIN a
    BY <1>6
  <2>2. 1..m = 1..n
    BY <1>1, <1>2, <2>1
  <2>3. QED
    BY <1>1, <1>2, <2>2
<1>7. CASE m = n
  <2>1. OneEditAway(a, b) <=> SameLength(a, b)
    BY <1>3, <1>7 DEF OneEditAway
  <2>2. SameLength(a, b) <=>
           /\ a # b
           /\ \/ \E i \in DOMAIN a \cap DOMAIN b : [a EXCEPT ![i] = b[i]] = b
              \/ \E i \in 1..(Len(a) - 1) : [a EXCEPT ![i] = a[i + 1], ![i + 1] = a[i]] = b
    BY <1>1, <1>2, <1>7, SameLengthIsEdit
  <2>3. ~\E i \in DOMAIN b : RemoveAt(b, i) = a
    BY <1>4, <1>7
  <2>4. ~\E i \in DOMAIN a : RemoveAt(a, i) = b
    BY <1>5, <1>7
  <2>5. QED
    BY <2>1, <2>2, <2>3, <2>4 DEF IsEdit
<1>8. CASE m = n + 1
  <2>1. OneEditAway(a, b) <=> Skips(b, a)
    BY <1>3, <1>8 DEF OneEditAway
  <2>2. OneEditAway(a, b) <=> \E d \in DOMAIN a : RemoveAt(a, d) = b
    BY <1>3, <1>8, <2>1, SkipsIsRemoval
  <2>3. a # b
    BY <1>3, <1>8
  <2>4. QED
    BY <1>4, <1>6, <1>8, <2>2, <2>3 DEF IsEdit
<1>9. CASE n = m + 1
  <2>1. OneEditAway(a, b) <=> Skips(a, b)
    BY <1>3, <1>9 DEF OneEditAway
  <2>2. OneEditAway(a, b) <=> \E d \in DOMAIN b : RemoveAt(b, d) = a
    BY <1>3, <1>9, <2>1, SkipsIsRemoval
  <2>3. a # b
    BY <1>3, <1>9
  <2>4. QED
    BY <1>5, <1>6, <1>9, <2>2, <2>3 DEF IsEdit
<1>10. CASE m # n /\ m # n + 1 /\ n # m + 1
  BY <1>3, <1>4, <1>5, <1>6, <1>10 DEF OneEditAway, IsEdit
<1>11. QED
  BY <1>7, <1>8, <1>9, <1>10

\* The typo test behind Typo finds exactly the words that one edit turns into each other,
\* at any time (email_checks.py, lines 29-61).
THEOREM TypoTestIsExact == Spec => []TypoTestExact
<1>1. TypoTestExact
  BY OneEditIsRight DEF TypoTestExact
<1>2. QED
  BY <1>1, PTL
=============================================================================
