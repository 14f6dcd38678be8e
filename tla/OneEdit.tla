------------------------------ MODULE OneEdit ------------------------------
(***************************************************************************)
(* Which domain an address was probably meant to have: _one_edit_away and  *)
(* typo_suggestion of engine/app/services/email_checks.py.  A word is a    *)
(* sequence of letters.                                                    *)
(***************************************************************************)
EXTENDS Integers, Sequences, FiniteSets
LOCAL INSTANCE SequencesExt

CONSTANTS
    Letter,
    MaxLength   \* bound: the longest word that is compared

Word == UNION {[1..n -> Letter] : n \in 0..MaxLength}

-----------------------------------------------------------------------------

\* The while loop over the shorter and the longer word.  Every round goes on in the
\* longer one, and in the shorter one unless the letters differ, which they may once:
\* the letters skipped before tell where the shorter word is.
Skips(short, long) ==
    LET skipped[j \in 0..Len(long)] ==
            IF j = 0 THEN 0
            ELSE LET before == skipped[j - 1]
                 IN  IF before < 2 /\ j - before <= Len(short) /\ short[j - before] # long[j]
                     THEN before + 1 ELSE before
    IN  skipped[Len(long)] < 2

Differ(a, b) == {i \in DOMAIN a : a[i] # b[i]}

\* Mutant: the swapped letters need not be neighbours.
SameLengthAnySwap(a, b) ==
    \/ Cardinality(Differ(a, b)) = 1
    \/ \E i, j \in DOMAIN a : /\ Differ(a, b) = {i, j} /\ i < j
                              /\ a[i] = b[j] /\ a[j] = b[i]

SameLength(a, b) ==
    \/ Cardinality(Differ(a, b)) = 1
    \/ \E i \in DOMAIN a : /\ Differ(a, b) = {i, i + 1}
                           /\ a[i] = b[i + 1] /\ a[i + 1] = b[i]

OneEditAway(a, b) ==
    CASE Len(a) = Len(b)     -> SameLength(a, b)
      [] Len(a) = Len(b) + 1 -> Skips(b, a)
      [] Len(b) = Len(a) + 1 -> Skips(a, b)
      [] OTHER               -> FALSE

\* The first candidate in the order of a set of strings, which is another one in
\* every process: any of them.
Suggestions(d, popular) ==
    IF d \in popular THEN {} ELSE {candidate \in popular : OneEditAway(d, candidate)}

-----------------------------------------------------------------------------

\* One insertion, deletion, substitution or adjacent transposition.
IsEdit(a, b) ==
    \/ \E i \in DOMAIN b : RemoveAt(b, i) = a
    \/ \E i \in DOMAIN a : RemoveAt(a, i) = b
    \/ \E i \in DOMAIN a \cap DOMAIN b : [a EXCEPT ![i] = b[i]] = b
    \/ \E i \in 1..(Len(a) - 1) : [a EXCEPT ![i] = a[i + 1], ![i + 1] = a[i]] = b

\* The comparison by position and by skipping finds exactly the words that one edit
\* turns into each other, at the first and the last letter, with repeated letters
\* and with the empty word too; equal words are none, although the docstring says "at
\* most one": the callers have ruled them out (email_checks.py, lines 29-61).
OneEditIsOneEdit ==
    \A a, b \in Word : OneEditAway(a, b) <=> a # b /\ IsEdit(a, b)
=============================================================================
