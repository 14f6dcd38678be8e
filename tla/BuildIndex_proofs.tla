------------------------- MODULE BuildIndex_proofs -------------------------
(***************************************************************************)
(* What an address is charged with, for any ranges, feeds and entries.     *)
(*                                                                         *)
(* Reading an entry shares one effect in both branches of the loop: the    *)
(* range p is stored with a list o, its own or that of the narrowest range *)
(* around it, and the feed gets into that list.  Added(p, o) says so; that *)
(* the stored ranges around a range are always a chain with a narrowest    *)
(* element is part of the invariant, so that the longest-prefix match is   *)
(* well defined, whether there are finitely many ranges or not.            *)
(*                                                                         *)
(* The domain table has an invariant of its own, DInv: an entry sums up    *)
(* the feeds that were read to list the domain, and Merge adds one.        *)
(***************************************************************************)
EXTENDS BuildIndex, TLAPS
LOCAL INSTANCE SequencesExt

Stored == DOMAIN trie

Typed ==
    /\ Stored \subseteq Cidr
    /\ trie \in [Stored -> Stored]
    /\ lists \in [Cidr -> Seq(IpFeeds)]

\* The list of a range was made for one around it.
OwnersCover == \A p \in Stored : Covers(trie[p], p)

HasNarrowest ==
    \A p \in Cidr : Covering(p) # {} =>
        \E q \in Covering(p) : \A r \in Covering(p) : Covers(r, q)

\* What was read is stored, and in the list of its range.
NothingLost ==
    \A f \in IpFeeds, p \in Cidr : <<f, p>> \in listed => p \in Stored /\ f \in ToSet(lists[trie[p]])

\* A feed is in a list because of a range inside the one the list was made for.
ListsCharge ==
    \A o \in Cidr : \A f \in ToSet(lists[o]) : \E p \in Cidr : <<f, p>> \in listed /\ Covers(o, p)

BInv == Typed /\ OwnersCover /\ HasNarrowest /\ NothingLost /\ ListsCharge

\* An entry p of the feed is read into the list of o.
Added(p, o) ==
    /\ p \in Cidr /\ feed \in IpFeeds
    /\ o \in Stored \cup {p} /\ Covers(o, p)
    /\ Covering(p) # {} => o = trie[Longest(p)]
    /\ trie' = [q \in Stored \cup {p} |-> IF q = p THEN o ELSE trie[q]]
    /\ lists' \in [Cidr -> Seq(IpFeeds)]
    /\ \A q \in Cidr : q # o => lists'[q] = lists[q]
    /\ feed \in ToSet(lists'[o])
    /\ ToSet(lists'[o]) \subseteq ToSet(lists[o]) \cup {feed}
    /\ o \in Stored => ToSet(lists[o]) \subseteq ToSet(lists'[o])
    /\ listed' = listed \cup {<<feed, p>>}

-----------------------------------------------------------------------------
(* Longest prefixes *)

\* The longest-prefix match of a range exists, and is the narrowest stored range around it.
LEMMA LongestIsNarrowest ==
  ASSUME HasNarrowest, NEW p \in Cidr, Covering(p) # {}
  PROVE  Longest(p) \in Covering(p) /\ \A r \in Covering(p) : Covers(r, Longest(p))
  BY DEF HasNarrowest, Longest

\* A range that is stored is its own match.
LEMMA StoredIsLongest ==
  ASSUME BInv, NEW p \in Stored
  PROVE  p \in Cidr /\ Covering(p) # {} /\ Longest(p) = p
<1>1. p \in Cidr /\ p \in Covering(p)
  BY CoversAssumption DEF BInv, Typed, Stored, Covering
<1>2. Longest(p) \in Covering(p) /\ Covers(p, Longest(p))
  BY <1>1, LongestIsNarrowest DEF BInv
<1>3. Longest(p) \in Cidr /\ Covers(Longest(p), p)
  BY <1>2 DEF BInv, Typed, Stored, Covering
<1>4. QED
  BY <1>1, <1>2, <1>3, CoversAssumption

\* Longest is determined by what covers.
LEMMA LongestIsUnique ==
  ASSUME BInv, NEW p \in Cidr, NEW q \in Covering(p), \A r \in Covering(p) : Covers(r, q)
  PROVE  Longest(p) = q
<1>1. Longest(p) \in Covering(p) /\ Covers(q, Longest(p))
  BY LongestIsNarrowest DEF BInv
<1>2. Longest(p) \in Cidr /\ q \in Cidr /\ Covers(Longest(p), q)
  BY <1>1 DEF BInv, Typed, Stored, Covering
<1>3. QED
  BY <1>1, <1>2, CoversAssumption

-----------------------------------------------------------------------------
(* Reading an entry *)

LEMMA AppendToSet ==
  ASSUME NEW S, NEW s \in Seq(S), NEW x \in S
  PROVE  ToSet(Append(s, x)) = ToSet(s) \cup {x}
<1> DEFINE t == Append(s, x)
<1>1. DOMAIN s = 1..Len(s) /\ Len(s) \in Nat /\ DOMAIN t = 1..(Len(s) + 1)
  OBVIOUS
<1>2. t[Len(s) + 1] = x /\ \A i \in 1..Len(s) : t[i] = s[i]
  OBVIOUS
<1>3. \A i \in DOMAIN t : i \in DOMAIN s \/ i = Len(s) + 1
  BY <1>1
<1> HIDE DEF t
<1>4. \A y : (\E i \in DOMAIN t : t[i] = y) <=> (\E i \in DOMAIN s : s[i] = y) \/ y = x
  BY <1>1, <1>2, <1>3
<1>5. QED
  BY <1>4 DEF ToSet, t

LEMMA OneToSet == \A x : ToSet(<<x>>) = {x}
  BY DEF ToSet

LEMMA ExtendAdds ==
  ASSUME BInv, NEW p \in Cidr, ExtendList(p)
  PROVE  Added(p, trie[Longest(p)])
<1> DEFINE o == trie[Longest(p)]
<1>1. Longest(p) \in Stored /\ Covers(Longest(p), p) /\ Longest(p) \in Cidr
  BY LongestIsNarrowest DEF ExtendList, BInv, Typed, Stored, Covering
<1>2. o \in Stored /\ o \in Cidr /\ Covers(o, Longest(p))
  BY <1>1 DEF BInv, Typed, OwnersCover
<1>3. Covers(o, p)
  BY <1>1, <1>2, CoversAssumption
<1>4. feed \in IpFeeds /\ lists[o] \in Seq(IpFeeds)
  BY <1>2 DEF ExtendList, BInv, Typed
<1>5. lists' = [lists EXCEPT ![o] = Append(lists[o], feed)]
  BY DEF ExtendList
<1>6. lists' \in [Cidr -> Seq(IpFeeds)] /\ lists'[o] = Append(lists[o], feed)
  BY <1>2, <1>4, <1>5 DEF BInv, Typed
<1>7. \A q \in Cidr : q # o => lists'[q] = lists[q]
  BY <1>5 DEF BInv, Typed
<1>8. ToSet(lists'[o]) = ToSet(lists[o]) \cup {feed}
  BY <1>4, <1>6, AppendToSet
<1>9. /\ trie' = [q \in Stored \cup {p} |-> IF q = p THEN o ELSE trie[q]]
      /\ listed' = listed \cup {<<feed, p>>}
  BY DEF ExtendList, Stored
<1> HIDE DEF o
<1>10. QED
  BY <1>2, <1>3, <1>4, <1>6, <1>7, <1>8, <1>9 DEF Added, o

LEMMA MakeAdds ==
  ASSUME BInv, NEW p \in Cidr, MakeList(p)
  PROVE  Added(p, p) /\ p \notin Stored
<1>1. p \notin Stored /\ Covers(p, p)
  BY CoversAssumption DEF MakeList, Covering, Stored
<1>2. feed \in IpFeeds /\ lists' = [lists EXCEPT ![p] = <<feed>>]
  BY DEF MakeList
<1>3. lists' \in [Cidr -> Seq(IpFeeds)] /\ lists'[p] = <<feed>>
  BY <1>2 DEF BInv, Typed
<1>4. \A q \in Cidr : q # p => lists'[q] = lists[q]
  BY <1>2 DEF BInv, Typed
<1>5. ToSet(lists'[p]) = {feed}
  BY <1>3, OneToSet
<1>6. /\ trie' = [q \in Stored \cup {p} |-> IF q = p THEN p ELSE trie[q]]
      /\ listed' = listed \cup {<<feed, p>>}
      /\ Covering(p) = {}
  BY DEF MakeList, Stored
<1>7. QED
  BY <1>1, <1>2, <1>3, <1>4, <1>5, <1>6 DEF Added

LEMMA AddedTyped ==
  ASSUME BInv, NEW p, NEW o, Added(p, o)
  PROVE  /\ Typed' /\ OwnersCover'
         /\ Stored' = Stored \cup {p} /\ o \in Cidr
         /\ trie'[p] = o /\ \A q \in Stored : q # p => trie'[q] = trie[q]
         /\ p \in Stored => trie[p] = o
<1>1. /\ Stored' = Stored \cup {p}
      /\ trie' \in [Stored \cup {p} -> Stored \cup {p}]
      /\ trie'[p] = o /\ \A q \in Stored : q # p => trie'[q] = trie[q]
  BY DEF Added, BInv, Typed, Stored
<1>2. p \in Stored => trie[p] = o
  BY StoredIsLongest DEF Added
<1>3. Typed' /\ o \in Cidr
  BY <1>1 DEF Added, BInv, Typed
<1>4. OwnersCover'
  BY <1>1 DEF Added, BInv, OwnersCover
<1>5. QED
  BY <1>1, <1>2, <1>3, <1>4

LEMMA AddedCovering ==
  ASSUME BInv, NEW p, NEW o, Added(p, o), NEW q \in Cidr
  PROVE  Covering(q)' = Covering(q) \cup {r \in {p} : Covers(r, q)}
<1>1. DOMAIN trie' = DOMAIN trie \cup {p}
  BY DEF Added, Stored
<1>2. QED
  BY <1>1 DEF Covering

\* What is found for a range after an entry: what was found, and the feed if the entry
\* is around the range and in its list.
LEMMA AddedLongest ==
  ASSUME BInv, NEW p, NEW o, Added(p, o), NEW q \in Cidr, Covering(q)' # {}
  PROVE  /\ \E n \in Covering(q)' : \A r \in Covering(q)' : Covers(r, n)
         /\ Covering(q) # {} => \E n \in Covering(q)' :
                                  /\ \A r \in Covering(q)' : Covers(r, n)
                                  /\ trie'[n] = trie[Longest(q)]
<1>1. /\ p \in Cidr /\ \A r \in Stored : r \in Cidr
      /\ trie'[p] = o /\ \A r \in Stored : r # p => trie'[r] = trie[r]
      /\ p \in Stored => trie[p] = o
  BY AddedTyped DEF Added, BInv, Typed
<1>2. Covering(q)' = Covering(q) \cup {r \in {p} : Covers(r, q)}
  BY AddedCovering
<1>3. CASE Covering(q) = {}
  <2>1. Covering(q)' = {p}
    BY <1>2, <1>3
  <2>2. QED
    BY <1>1, <1>3, <2>1, CoversAssumption
<1>4. CASE Covering(q) # {}
  <2> DEFINE n == Longest(q)
  <2>1. n \in Covering(q) /\ \A r \in Covering(q) : Covers(r, n)
    BY <1>4, LongestIsNarrowest DEF BInv
  <2>2. n \in Stored /\ n \in Cidr /\ Covers(n, q)
    BY <1>1, <2>1 DEF Covering, Stored
  <2> HIDE DEF n
  <2>3. CASE ~Covers(p, q) \/ Covers(p, n)
    <3>1. \A r \in Covering(q)' : Covers(r, n)
      BY <1>2, <2>1, <2>3
    <3>2. trie'[n] = trie[n]
      BY <1>1, <2>2
    <3>3. QED
      BY <1>2, <2>1, <3>1, <3>2 DEF n
  <2>4. CASE Covers(p, q) /\ ~Covers(p, n)
    <3>1. Covers(n, p)
      BY <1>1, <2>2, <2>4, CoversAssumption
    <3>2. \A r \in Covering(q) : r \in Cidr /\ Covers(r, p)
      BY <1>1, <2>1, <2>2, <3>1, CoversAssumption DEF Covering, Stored
    <3>3. n \in Covering(p)
      BY <2>2, <3>1 DEF Covering, Stored
    <3>4. \A r \in Covering(p) : r \in Covering(q)
      BY <1>1, <2>4, CoversAssumption DEF Covering, Stored
    <3>5. Longest(p) = n
      BY <1>1, <2>1, <3>3, <3>4, LongestIsUnique
    <3>6. o = trie[n]
      BY <3>3, <3>5 DEF Added
    <3>7. p \in Covering(q)' /\ \A r \in Covering(q)' : Covers(r, p)
      BY <1>1, <1>2, <2>4, <3>2, CoversAssumption
    <3>8. QED
      BY <1>1, <3>6, <3>7 DEF n
  <2>5. QED
    BY <2>3, <2>4
<1>5. QED
  BY <1>3, <1>4

LEMMA AddedInv ==
  ASSUME BInv, NEW p, NEW o, Added(p, o)
  PROVE  BInv'
<1>1. /\ Typed' /\ OwnersCover' /\ o \in Cidr
      /\ Stored' = Stored \cup {p}
      /\ trie'[p] = o /\ \A q \in Stored : q # p => trie'[q] = trie[q]
      /\ p \in Stored => trie[p] = o
  BY AddedTyped
<1>2. HasNarrowest'
  BY AddedLongest DEF HasNarrowest
<1>3. NothingLost'
  <2> SUFFICES ASSUME NEW f \in IpFeeds, NEW q \in Cidr, <<f, q>> \in listed'
               PROVE  q \in Stored' /\ f \in ToSet(lists'[trie'[q]])
    BY DEF NothingLost
  <2>1. CASE <<f, q>> \in listed
    <3>1. q \in Stored /\ f \in ToSet(lists[trie[q]])
      BY <2>1 DEF BInv, NothingLost
    <3>2. trie'[q] = trie[q] /\ trie[q] \in Stored /\ trie[q] \in Cidr
      BY <1>1, <3>1 DEF BInv, Typed
    <3>3. ToSet(lists[trie[q]]) \subseteq ToSet(lists'[trie[q]])
      BY <3>2 DEF Added
    <3>4. QED
      BY <1>1, <3>1, <3>2, <3>3
  <2>2. CASE f = feed /\ q = p
    BY <1>1, <2>2 DEF Added
  <2>3. QED
    BY <2>1, <2>2 DEF Added
<1>4. ListsCharge'
  <2> SUFFICES ASSUME NEW w \in Cidr, NEW f \in ToSet(lists'[w])
               PROVE  \E q \in Cidr : <<f, q>> \in listed' /\ Covers(w, q)
    BY DEF ListsCharge
  <2>1. f \in ToSet(lists[w]) \/ (w = o /\ f = feed)
    BY DEF Added
  <2>2. QED
    BY <2>1 DEF Added, BInv, ListsCharge
<1>5. QED
  BY <1>1, <1>2, <1>3, <1>4 DEF BInv

LEMMA AddedHides ==
  ASSUME BInv, NEW p, NEW o, Added(p, o), NEW a \in Cidr
  PROVE  ToSet(Hits(a)) \subseteq ToSet(Hits(a))'
<1>1. CASE Covering(a) = {}
  BY <1>1 DEF Hits, ToSet
<1>2. CASE Covering(a) # {}
  <2>1. Covering(a)' # {}
    BY <1>2, AddedCovering
  <2>2. PICK n \in Covering(a)' : /\ \A r \in Covering(a)' : Covers(r, n)
                                 /\ trie'[n] = trie[Longest(a)]
    BY <1>2, <2>1, AddedLongest
  <2>3. BInv'
    BY AddedInv
  <2>4. Longest(a)' = n
    <3>1. Longest(a)' \in Covering(a)' /\ \A r \in Covering(a)' : Covers(r, Longest(a)')
      BY <2>1, <2>3 DEF BInv, HasNarrowest, Longest
    <3>2. Longest(a)' \in Cidr /\ n \in Cidr
      BY <2>3, <3>1, <2>2 DEF BInv, Typed, Stored, Covering
    <3>3. QED
      BY <2>2, <3>1, <3>2, CoversAssumption
  <2>5. trie[Longest(a)] \in Stored /\ trie[Longest(a)] \in Cidr
    BY <1>2, LongestIsNarrowest DEF BInv, Typed, Stored, Covering
  <2>6. ToSet(lists[trie[Longest(a)]]) \subseteq ToSet(lists'[trie[Longest(a)]])
    BY <2>5 DEF Added
  <2>7. Hits(a) = lists[trie[Longest(a)]] /\ Hits(a)' = lists'[trie'[Longest(a)']]
    BY <1>2, <2>1 DEF Hits
  <2>8. ToSet(Hits(a))' = ToSet(Hits(a)')
    BY DEF ToSet
  <2>9. QED
    BY <2>2, <2>4, <2>6, <2>7, <2>8
<1>3. QED
  BY <1>1, <1>2

-----------------------------------------------------------------------------
(* The specification *)

LEMMA EmptyInv ==
  ASSUME trie = [p \in {} |-> p], lists = [p \in Cidr |-> <<>>], listed = {}
  PROVE  BInv
<1>1. Stored = {} /\ \A p : Covering(p) = {}
  BY DEF Stored, Covering
<1>2. \A p \in Cidr : ToSet(lists[p]) = {}
  BY DEF ToSet
<1>3. Typed
  BY <1>1 DEF Typed
<1>4. QED
  BY <1>1, <1>2, <1>3 DEF BInv, OwnersCover, HasNarrowest, NothingLost, ListsCharge

LEMMA NextBInv == BInv /\ [Next]_vars => BInv'
<1> SUFFICES ASSUME BInv, [Next]_vars PROVE BInv'
  OBVIOUS
<1>1. ASSUME NEW p \in Cidr, ExtendList(p) PROVE BInv'
  BY <1>1, ExtendAdds, AddedInv
<1>2. ASSUME NEW p \in Cidr, MakeList(p) PROVE BInv'
  BY <1>2, MakeAdds, AddedInv
<1>3. ASSUME NEW d \in Domain, AddDomain(d) PROVE BInv'
  <2>1. \A f \in IpFeeds, p \in Cidr : <<f, p>> \in listed' => <<f, p>> \in listed
    BY <1>3 DEF AddDomain
  <2>2. UNCHANGED <<trie, lists>> /\ listed \subseteq listed'
    BY <1>3 DEF AddDomain
  <2>3. Typed' /\ OwnersCover' /\ HasNarrowest'
    BY <2>2 DEF BInv, Typed, OwnersCover, HasNarrowest, Stored, Covering
  <2>4. NothingLost' /\ ListsCharge'
    BY <2>1, <2>2 DEF BInv, NothingLost, ListsCharge, Stored
  <2>5. QED
    BY <2>3, <2>4 DEF BInv
<1>4. CASE NextBuild
  <2>1. Stored' = {} /\ \A p : Covering(p)' = {}
    BY <1>4 DEF NextBuild, Stored, Covering
  <2>2. lists' \in [Cidr -> Seq(IpFeeds)] /\ \A p \in Cidr : ToSet(lists'[p]) = {}
    BY <1>4 DEF NextBuild, ToSet
  <2>3. Typed'
    BY <1>4, <2>1, <2>2 DEF Typed, NextBuild
  <2>4. OwnersCover' /\ HasNarrowest' /\ NothingLost' /\ ListsCharge'
    BY <1>4, <2>1, <2>2 DEF NextBuild, OwnersCover, HasNarrowest, NothingLost, ListsCharge
  <2>5. QED
    BY <2>3, <2>4 DEF BInv
<1>5. CASE UNCHANGED <<trie, lists, listed>>
  BY <1>5 DEF BInv, Typed, OwnersCover, HasNarrowest, NothingLost, ListsCharge, Stored, Covering
<1>6. QED
  BY <1>1, <1>2, <1>3, <1>4, <1>5 DEF Next, vars, NextFeed

\* The inductive invariant of the tries.
THEOREM BuildInvariance == Spec => []BInv
<1>1. Init => BInv
  BY EmptyInv DEF Init
<1>2. QED
  BY <1>1, NextBInv, PTL DEF Spec

\* Every feed that lists the narrowest range stored for an address is found.
THEOREM NarrowestIsFound == Spec => []NarrowestCounts
<1>1. BInv => NarrowestCounts
  <2> SUFFICES ASSUME BInv, NEW a \in Address, Covering(a) # {},
                      NEW f \in IpFeeds, <<f, Longest(a)>> \in listed
               PROVE  f \in ToSet(Hits(a))
    BY DEF NarrowestCounts
  <2>1. Longest(a) \in Cidr
    BY LongestIsNarrowest, BuildAssumption DEF BInv, Typed, Stored, Covering
  <2>2. QED
    BY <2>1 DEF BInv, NothingLost, Hits
<1>2. QED
  BY <1>1, BuildInvariance, PTL

\* A feed is charged to an address by an entry within the range the list was made for.
THEOREM ChargesStayWithinOwner == Spec => []ChargedWithinOwner
<1>1. BInv => ChargedWithinOwner
  <2> SUFFICES ASSUME BInv, NEW a \in Address, Covering(a) # {}
               PROVE  LET owner == trie[Longest(a)]
                      IN  /\ Covers(owner, a)
                          /\ \A f \in ToSet(Hits(a)) :
                                \E p \in Cidr : <<f, p>> \in listed /\ Covers(owner, p)
    BY DEF ChargedWithinOwner
  <2>1. /\ a \in Cidr /\ Longest(a) \in Stored /\ Longest(a) \in Cidr
        /\ Covers(Longest(a), a)
    BY LongestIsNarrowest, BuildAssumption DEF BInv, Typed, Stored, Covering
  <2>2. trie[Longest(a)] \in Cidr /\ Covers(trie[Longest(a)], Longest(a))
    BY <2>1 DEF BInv, Typed, OwnersCover
  <2>3. Covers(trie[Longest(a)], a)
    BY <2>1, <2>2, CoversAssumption
  <2>4. Hits(a) = lists[trie[Longest(a)]]
    BY DEF Hits
  <2>5. QED
    BY <2>2, <2>3, <2>4 DEF BInv, ListsCharge
<1>2. QED
  BY <1>1, BuildInvariance, PTL

\* Without ranges inside other ranges the lookup is exact.
THEOREM FlatFeedsAreExact == Spec => []ExactWithoutNesting
<1>1. BInv => ExactWithoutNesting
  <2> SUFFICES ASSUME BInv, \A p, q \in Stored : Covers(p, q) => p = q, NEW a \in Address
               PROVE  ToSet(Hits(a)) = Listing(a)
    BY DEF ExactWithoutNesting, Stored
  <2>1. a \in Cidr
    BY BuildAssumption
  <2>2. ASSUME NEW f \in Listing(a)
        PROVE  Covering(a) # {} /\ f \in ToSet(Hits(a))
    <3>1. PICK p \in Cidr : f \in IpFeeds /\ <<f, p>> \in listed /\ Covers(p, a)
      BY <2>2 DEF Listing
    <3>2. p \in Stored /\ f \in ToSet(lists[trie[p]]) /\ p \in Covering(a)
      BY <3>1 DEF BInv, NothingLost, Covering, Stored
    <3>3. Longest(a) \in Stored /\ Covers(p, Longest(a))
      BY <2>1, <3>2, LongestIsNarrowest DEF BInv, Covering, Stored
    <3>4. p = Longest(a)
      BY <3>2, <3>3
    <3>5. QED
      BY <3>2, <3>4 DEF Hits
  <2>3. ASSUME NEW f \in ToSet(Hits(a))
        PROVE  f \in Listing(a)
    <3>1. Covering(a) # {}
      BY <2>3 DEF Hits, ToSet
    <3>2. /\ Longest(a) \in Stored /\ Covers(Longest(a), a)
          /\ trie[Longest(a)] \in Stored /\ Covers(trie[Longest(a)], Longest(a))
      BY <2>1, <3>1, LongestIsNarrowest DEF BInv, Typed, OwnersCover, Covering, Stored
    <3>3. trie[Longest(a)] = Longest(a) /\ Longest(a) \in Cidr
      BY <3>2 DEF BInv, Typed
    <3>4. f \in ToSet(lists[Longest(a)]) /\ lists[Longest(a)] \in Seq(IpFeeds)
      BY <2>3, <3>1, <3>3 DEF Hits, BInv, Typed
    <3>5. f \in IpFeeds
      BY <3>4 DEF ToSet
    <3>6. PICK p \in Cidr : <<f, p>> \in listed /\ Covers(Longest(a), p)
      BY <3>3, <3>4 DEF BInv, ListsCharge
    <3>7. p = Longest(a)
      BY <3>2, <3>5, <3>6 DEF BInv, NothingLost
    <3>8. QED
      BY <3>2, <3>5, <3>6, <3>7 DEF Listing
  <2>4. QED
    BY <2>2, <2>3
<1>2. QED
  BY <1>1, BuildInvariance, PTL

\* Within a build, what is found for an address stays found.
THEOREM FindingsStay == Spec => NothingHidden
<1>1. BInv /\ [Next]_vars =>
        [feed' >= feed =>
          \A a \in Address : ToSet(Hits(a)) \subseteq ToSet(Hits(a))']_vars
  <2> SUFFICES ASSUME BInv, Next, feed' >= feed, NEW a \in Address
               PROVE  ToSet(Hits(a)) \subseteq ToSet(Hits(a))'
    OBVIOUS
  <2>1. a \in Cidr
    BY BuildAssumption
  <2>2. ASSUME NEW p \in Cidr, ExtendList(p) PROVE ToSet(Hits(a)) \subseteq ToSet(Hits(a))'
    BY <2>1, <2>2, ExtendAdds, AddedHides
  <2>3. ASSUME NEW p \in Cidr, MakeList(p) PROVE ToSet(Hits(a)) \subseteq ToSet(Hits(a))'
    BY <2>1, <2>3, MakeAdds, AddedHides
  <2>4. CASE UNCHANGED <<trie, lists>>
    BY <2>4 DEF Hits, Covering, Longest, ToSet
  <2>5. ~NextBuild
    BY BuildAssumption DEF NextBuild
  <2>6. QED
    BY <2>2, <2>3, <2>4, <2>5 DEF Next, NextFeed, AddDomain
<1>2. QED
  BY <1>1, BuildInvariance, PTL DEF Spec, NothingHidden

-----------------------------------------------------------------------------
(* The domain table *)

TableTyped ==
    /\ feed \in 1..(NumFeeds + 1)
    /\ entries \in 0..MaxEntries
    /\ domains \in [Domain -> [Categories -> [weight : Nat, feeds : Seq(Feed)]]]

\* The feeds of a category that have been read to list a domain.
ListingDomain(d, c) == {f \in Feed : f \notin IpFeeds /\ Category[f] = c /\ <<f, d>> \in listed}

\* The entry says which feeds those are, each once, and the heaviest weight.
Sums(entry, fs) ==
    /\ ToSet(entry.feeds) = fs
    /\ \A i, j \in DOMAIN entry.feeds : entry.feeds[i] = entry.feeds[j] => i = j
    /\ IF fs = {} THEN entry = NoFinding
       ELSE /\ \A f \in fs : Weight[f] <= entry.weight
            /\ \E f \in fs : Weight[f] = entry.weight

DInv == TableTyped /\ \A d \in Domain, c \in Categories : Sums(domains[d][c], ListingDomain(d, c))

LEMMA MergeSums ==
  ASSUME NEW entry \in [weight : Nat, feeds : Seq(Feed)], NEW fs, NEW f \in Feed, Sums(entry, fs)
  PROVE  /\ Merge(entry, f) \in [weight : Nat, feeds : Seq(Feed)]
         /\ Sums(Merge(entry, f), fs \cup {f})
<1> DEFINE new == Merge(entry, f)
<1>1. Weight[f] \in Nat /\ \A g \in fs : g \in Feed /\ Weight[g] \in Nat
  BY BuildAssumption DEF Sums, ToSet
<1>2. /\ new \in [weight : Nat, feeds : Seq(Feed)]
      /\ new.weight = IF entry.weight > Weight[f] THEN entry.weight ELSE Weight[f]
      /\ new.feeds = IF f \in fs THEN entry.feeds ELSE Append(entry.feeds, f)
  BY <1>1 DEF Merge, Sums
<1> HIDE DEF new
<1>3. ToSet(new.feeds) = fs \cup {f}
  BY <1>2, AppendToSet DEF Sums
<1>4. \A i, j \in DOMAIN new.feeds : new.feeds[i] = new.feeds[j] => i = j
  <2>1. CASE f \in fs
    BY <1>2, <2>1 DEF Sums
  <2>2. CASE f \notin fs
    <3>1. \A i \in DOMAIN entry.feeds : entry.feeds[i] # f
      BY <2>2 DEF Sums, ToSet
    <3>2. new.feeds = Append(entry.feeds, f) /\ entry.feeds \in Seq(Feed)
      BY <1>2, <2>2
    <3>3. \A i, j \in DOMAIN entry.feeds : entry.feeds[i] = entry.feeds[j] => i = j
      BY DEF Sums
    <3>4. QED
      BY <3>1, <3>2, <3>3
  <2>3. QED
    BY <2>1, <2>2
<1>5. /\ \A g \in fs \cup {f} : Weight[g] <= new.weight
      /\ \E g \in fs \cup {f} : Weight[g] = new.weight
  <2>1. CASE fs = {}
    <3>1. entry.weight = 0
      BY <2>1 DEF Sums, NoFinding
    <3>2. QED
      BY <1>1, <1>2, <2>1, <3>1
  <2>2. CASE fs # {}
    BY <1>1, <1>2, <2>2 DEF Sums
  <2>3. QED
    BY <2>1, <2>2
<1>6. QED
  BY <1>2, <1>3, <1>4, <1>5 DEF Sums, new

LEMMA NoDomainsSums ==
  /\ NoDomains \in [Domain -> [Categories -> [weight : Nat, feeds : Seq(Feed)]]]
  /\ \A d \in Domain, c \in Categories : Sums(NoDomains[d][c], {})
<1>1. NoFinding \in [weight : Nat, feeds : Seq(Feed)]
  BY DEF NoFinding
<1>2. Sums(NoFinding, {})
  BY DEF Sums, NoFinding, ToSet
<1>3. QED
  BY <1>1, <1>2 DEF NoDomains

LEMMA InitDInv == Init => DInv
<1> SUFFICES ASSUME Init PROVE DInv
  OBVIOUS
<1>1. \A d, c : ListingDomain(d, c) = {}
  BY DEF Init, ListingDomain
<1>2. TableTyped
  BY NoDomainsSums, BuildAssumption DEF Init, TableTyped
<1>3. QED
  BY <1>1, <1>2, NoDomainsSums DEF Init, DInv

LEMMA NextDInv == DInv /\ [Next]_vars => DInv'
<1> SUFFICES ASSUME DInv, [Next]_vars PROVE DInv'
  OBVIOUS
<1>1. ASSUME NEW p \in Cidr, ExtendList(p) \/ MakeList(p) PROVE DInv'
  <2>1. feed \in IpFeeds /\ listed' = listed \cup {<<feed, p>>} /\ UNCHANGED <<feed, domains>>
    BY <1>1 DEF ExtendList, MakeList
  <2>2. \A d, c : ListingDomain(d, c)' = ListingDomain(d, c)
    BY <2>1 DEF ListingDomain
  <2>3. entries < MaxEntries /\ entries' = entries + 1
    BY <1>1 DEF ExtendList, MakeList, ReadEntry
  <2>4. QED
    BY <2>1, <2>2, <2>3, BuildAssumption DEF DInv, TableTyped
<1>2. ASSUME NEW d \in Domain, AddDomain(d) PROVE DInv'
  <2> DEFINE b == Category[feed]
  <2>1. /\ feed \in Feed /\ feed \notin IpFeeds /\ feed' = feed /\ b \in Categories
        /\ entries < MaxEntries /\ entries' = entries + 1
        /\ listed' = listed \cup {<<feed, d>>}
        /\ domains' = [domains EXCEPT ![d][b] = Merge(domains[d][b], feed)]
    BY <1>2 DEF AddDomain, ReadEntry, Categories
  <2> HIDE DEF b
  <2>2. domains[d][b] \in [weight : Nat, feeds : Seq(Feed)]
    BY <2>1 DEF DInv, TableTyped
  <2>3. /\ Merge(domains[d][b], feed) \in [weight : Nat, feeds : Seq(Feed)]
        /\ Sums(Merge(domains[d][b], feed), ListingDomain(d, b) \cup {feed})
    BY <2>1, <2>2, MergeSums DEF DInv
  <2>4. TableTyped'
    BY <2>1, <2>3, BuildAssumption DEF DInv, TableTyped
  <2>5. ASSUME NEW e \in Domain, NEW c \in Categories
        PROVE  Sums(domains[e][c], ListingDomain(e, c))'
    <3>1. CASE e = d /\ c = b
      <4>1. domains'[e][c] = Merge(domains[d][b], feed)
        BY <2>1, <3>1 DEF DInv, TableTyped
      <4>2. ListingDomain(e, c)' = ListingDomain(d, b) \cup {feed}
        BY <2>1, <3>1 DEF ListingDomain, b
      <4>3. QED
        BY <2>3, <4>1, <4>2 DEF Sums, ToSet
    <3>2. CASE ~(e = d /\ c = b)
      <4>1. domains'[e][c] = domains[e][c]
        BY <2>1, <3>2 DEF DInv, TableTyped
      <4>2. ListingDomain(e, c)' = ListingDomain(e, c)
        BY <2>1, <3>2 DEF ListingDomain, b
      <4>3. QED
        BY <4>1, <4>2 DEF DInv, Sums, ToSet
    <3>3. QED
      BY <3>1, <3>2
  <2>6. QED
    BY <2>4, <2>5 DEF DInv
<1>3. CASE NextFeed
  <2>1. \A d, c : ListingDomain(d, c)' = ListingDomain(d, c)
    BY <1>3 DEF NextFeed, ListingDomain
  <2>2. TableTyped'
    BY <1>3, BuildAssumption DEF NextFeed, DInv, TableTyped, Feed
  <2>3. QED
    BY <1>3, <2>1, <2>2 DEF NextFeed, DInv
<1>4. CASE NextBuild
  <2>1. \A d, c : ListingDomain(d, c)' = {}
    BY <1>4 DEF NextBuild, ListingDomain
  <2>2. TableTyped'
    BY <1>4, NoDomainsSums, BuildAssumption DEF NextBuild, TableTyped
  <2>3. QED
    BY <1>4, <2>1, <2>2, NoDomainsSums DEF NextBuild, DInv
<1>5. CASE UNCHANGED vars
  BY <1>5 DEF vars, DInv, TableTyped, ListingDomain
<1>6. QED
  BY <1>1, <1>2, <1>3, <1>4, <1>5 DEF Next

\* A domain has one finding per category, which names the feeds that list it once and
\* weighs what the heaviest does, for any feeds and any order of entries.
THEOREM DomainTableIsRight == Spec => []DomainFindings
<1>1. DInv => DomainFindings
  BY DEF DInv, Sums, ListingDomain, DomainFindings
<1>2. QED
  BY InitDInv, NextDInv, <1>1, PTL DEF Spec

\* Every list is the list of a range that is stored.
THEOREM TypeCorrect == Spec => []TypeOK
<1>1. BInv /\ DInv => TypeOK
  BY DEF BInv, DInv, Typed, TableTyped, Stored, TypeOK
<1>2. QED
  BY BuildInvariance, InitDInv, NextDInv, <1>1, PTL DEF Spec
=============================================================================
