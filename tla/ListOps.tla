------------------------------- MODULE ListOps -------------------------------
(***************************************************************************)
(* What the code does with its lists from one element to the next, as      *)
(* recursive functions: SelectSeq and FoldLeft take an operator, and what  *)
(* they return could not be proved (ListOps_proofs).                       *)
(***************************************************************************)
EXTENDS Integers, Sequences, FiniteSets

\* The members of S up to n, in order.
Places(n, S) ==
    LET upTo[i \in 0..n] ==
            IF i = 0 THEN <<>>
            ELSE IF i \in S THEN Append(upTo[i - 1], i) ELSE upTo[i - 1]
    IN  upTo[n]

\* A list with a condition: the elements of s at the positions S.
At(s, S) == LET place == Places(Len(s), S) IN [k \in DOMAIN place |-> s[place[k]]]

\* sum()
SumOf(numbers) ==
    LET upTo[i \in 0..Len(numbers)] == IF i = 0 THEN 0 ELSE upTo[i - 1] + numbers[i]
    IN  upTo[Len(numbers)]

\* list.sort(key): by the key, and what has the same key in the order it was in.
Sorted(s, key) ==
    LET Before(i, j) == key[s[i]] < key[s[j]] \/ (key[s[i]] = key[s[j]] /\ i < j)
        Nth(n) == CHOOSE i \in DOMAIN s :
                      Cardinality({j \in DOMAIN s : Before(j, i)}) = n - 1
    IN  [n \in DOMAIN s |-> s[Nth(n)]]
=============================================================================
