----------------------------- MODULE MCService -----------------------------
(***************************************************************************)
(* Service for TLC.  The policies and the catalogue may each be            *)
(* unreadable, no mapping, or one of two or one mappings; the score of the *)
(* subject is exactly the block threshold of the strict profile, which the *)
(* second policies get wrong.  Two crashes, so three loads.  Lookups are   *)
(* compared on all catalogues of up to three entries and on ids that both  *)
(* an id and several prefixes match.                                       *)
(***************************************************************************)
EXTENDS Service

None(shape) == [shape |-> shape, entries |-> <<>>]
Mapping(entries) == [shape |-> "mapping", entries |-> entries]

Strict(challenge, block) == [name |-> "strict", challenge |-> challenge, block |-> block]

MCPolicies ==
    {None("unreadable"), None("no mapping"),
     Mapping(<<Strict(20, 60)>>), Mapping(<<Strict(60, 20)>>)}

Exactly(id)  == [id |-> id, prefix |-> <<>>]
Pattern(pre) == [id |-> <<>>, prefix |-> pre]

MCEntries == {Exactly(<<"f", "t">>), Pattern(<<"f">>), Pattern(<<"f", "t">>), Pattern(<<>>)}

MCCatalogues == UNION {[1..n -> MCEntries] : n \in 0..3}

MCSignalId == {<<>>, <<"f">>, <<"f", "t">>, <<"f", "t", "0">>, <<"t">>, <<" ", "f">>, <<"f", " ">>}

MCSignalFiles ==
    {None("unreadable"), None("no mapping"),
     Mapping(<<Pattern(<<"f">>), Pattern(<<"f", "t">>), Exactly(<<"f", "t">>)>>)}

MCSignal == <<"f", "t", "0">>
=============================================================================
