------------------------------ MODULE Scoring ------------------------------
(***************************************************************************)
(* From findings to a decision: engine/app/engine/scoring.py, policy.py    *)
(* and the pure parts of checks.py.                                        *)
(*                                                                         *)
(* A signal has a kind (the part of its id before the first name in it), a *)
(* category, a weight and a source.  Evidence is what is left of a signal  *)
(* without its kind.  A profile has two thresholds, a partial function     *)
(* from categories to weights, and a set of ignored categories.            *)
(* Confidence is in tenths.                                                *)
(***************************************************************************)
EXTENDS ListOps

Signal(kind, category, weight, source) ==
    [kind |-> kind, category |-> category, weight |-> weight, source |-> source]

Evidence(s) == [category |-> s.category, weight |-> s.weight, source |-> s.source]

EvidenceOf(signals) == [i \in DOMAIN signals |-> Evidence(signals[i])]

DefaultProfile ==
    [challenge |-> 30, block |-> 80, weights |-> [c \in {} |-> 0], ignore |-> {}]

\* What load_profiles accepts.
ValidThresholds(challenge, block) == 0 <= challenge /\ challenge < block /\ block <= 100

Reweigh(x, p) ==
    IF x.category \in DOMAIN p.weights THEN [x EXCEPT !.weight = p.weights[x.category]] ELSE x

Kept(xs, p) == At(xs, {i \in DOMAIN xs : xs[i].category \notin p.ignore})

\* effective_signals; apply_profile does the same to the evidence.
Effective(xs, p) == LET kept == Kept(xs, p) IN [i \in DOMAIN kept |-> Reweigh(kept[i], p)]

Total(signals) == SumOf([i \in DOMAIN signals |-> signals[i].weight])

Clamp(n) == IF n < 0 THEN 0 ELSE IF n > 100 THEN 100 ELSE n

Score(signals) == Clamp(Total(signals))

Confidence(signals) ==
    IF signals = <<>> THEN 2
    ELSE IF Total(signals) >= 80 THEN 9
    ELSE IF Total(signals) >= 30 THEN 7 ELSE 5

Decision(score, p) ==
    IF score >= p.block THEN "block"
    ELSE IF score >= p.challenge THEN "challenge" ELSE "allow"

\* The positions of the first finding per source and category.
FirstFindings(signals, drop) ==
    {i \in DOMAIN signals :
        /\ signals[i].category \notin drop
        /\ \A j \in 1..(i - 1) : \/ signals[j].source # signals[i].source
                                 \/ signals[j].category # signals[i].category}

\* dedupe_host_signals
Dedupe(signals, drop) == At(signals, FirstFindings(signals, drop))
=============================================================================
