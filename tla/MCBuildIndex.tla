---------------------------- MODULE MCBuildIndex ----------------------------
(***************************************************************************)
(* BuildIndex for TLC: two-bit addresses, so that ranges nest three deep   *)
(* (everything, a half, an address), two IP feeds and two domain feeds of  *)
(* one category, of which the second weighs less.  Four entries are enough *)
(* for a range to be read before, after and between two it covers.         *)
(***************************************************************************)
EXTENDS BuildIndex, SequencesExt

CONSTANT mailinator

MCCidr          == SeqOf({0, 1}, 2)
MCAddress       == [1..2 -> {0, 1}]
MCCovers(p, q)  == IsPrefix(p, q)
MCDomain        == {mailinator}
MCIpFeeds       == {1, 2}
MCCategory      == [f \in 1..4 |-> IF f \in MCIpFeeds THEN "abuse" ELSE "disposable"]
MCWeight        == <<20, 30, 40, 35>>
=============================================================================
