----------------------------- MODULE BuildIndex -----------------------------
(***************************************************************************)
(* What build_index (engine/app/adapters/index.py) puts into an index, and *)
(* what a check reads out of it: the tries of IP ranges, and the table of  *)
(* domains.                                                                *)
(*                                                                         *)
(* The feeds are read one after the other, entry by entry.  The ranges of  *)
(* all IP feeds share a trie, whose values are lists of findings.  The     *)
(* code looks a range up before it adds one, and the lookup of pytricia is *)
(* a longest-prefix match: for a range that is new but lies inside a known *)
(* one it returns the list of the known one, the same object.  The finding *)
(* is appended to it and the list is stored a second time, under the new   *)
(* range.  A list is therefore known here by the range it was made for.    *)
(*                                                                         *)
(* Ranges are the elements of a set with a covering relation; a single     *)
(* address is a range too.  IPv4 and IPv6 ranges never cover each other,   *)
(* so one trie stands for both.                                            *)
(***************************************************************************)
EXTENDS Naturals, Sequences
LOCAL INSTANCE SequencesExt

CONSTANTS
    Cidr,            \* the IP ranges
    Address,         \* those that are a single address
    Covers(_, _),    \* Covers(p, q): range q lies within range p
    Domain,          \* the domains
    NumFeeds,        \* the feeds are 1..NumFeeds, in the order of feeds.yaml
    IpFeeds,         \* those of type ip or cidr; the others are of type domain
    Category,        \* the category and the weight of a feed
    Weight,
    MaxEntries       \* bound: how many entries a build reads

Feed == 1..NumFeeds

ASSUME BuildAssumption ==
    /\ Address \subseteq Cidr
    /\ NumFeeds \in Nat \ {0}
    /\ IpFeeds \subseteq Feed
    /\ Weight \in [Feed -> Nat \ {0}]
    /\ MaxEntries \in Nat

\* Ranges are nested or disjoint.
ASSUME CoversAssumption ==
    \A p, q \in Cidr :
        /\ Covers(p, q) \in BOOLEAN
        /\ Covers(p, p)
        /\ Covers(p, q) /\ Covers(q, p) => p = q
        /\ \A r \in Cidr :
              /\ Covers(p, q) /\ Covers(q, r) => Covers(p, r)
              /\ Covers(p, r) /\ Covers(q, r) => Covers(p, q) \/ Covers(q, p)

Categories == {Category[f] : f \in Feed}

VARIABLES
    feed,      \* the feed being read; NumFeeds + 1 when the build is complete
    trie,      \* the ranges stored, each with the range its list was made for
    lists,     \* the list made for a range: the feeds of its findings
    domains,   \* per domain and category: the weight, and the feeds in order
    listed,    \* history: the <<feed, range>> and <<feed, domain>> read
    entries

vars == <<feed, trie, lists, domains, listed, entries>>

\* Unpacked from an empty trie or dictionary.
NoFinding == [weight |-> 0, feeds |-> <<>>]
NoDomains == [d \in Domain |-> [c \in Categories |-> NoFinding]]

Init ==
    /\ feed = 1
    /\ trie = [p \in {} |-> p]
    /\ lists = [p \in Cidr |-> <<>>]
    /\ domains = NoDomains
    /\ listed = {}
    /\ entries = 0

-----------------------------------------------------------------------------

\* pytricia's search: the stored ranges that cover p, and the narrowest of them.
Covering(p) == {q \in DOMAIN trie : Covers(q, p)}
Longest(p)  == CHOOSE q \in Covering(p) : \A r \in Covering(p) : Covers(r, q)

ReadEntry ==
    /\ entries < MaxEntries
    /\ entries' = entries + 1
    /\ feed \in Feed

\* Mutant: the range gets a list of its own, which the wider one's is not in.
ExtendListFresh(p) ==
    /\ ReadEntry
    /\ feed \in IpFeeds
    /\ Covering(p) # {}
    /\ lists' = [lists EXCEPT ![p] = Append(@, feed)]
    /\ trie' = [q \in DOMAIN trie \cup {p} |-> IF q = p THEN p ELSE trie[q]]
    /\ listed' = listed \cup {<<feed, p>>}
    /\ UNCHANGED <<feed, domains>>

\* Mutant: the list is stored under the range, but nothing is appended.
ExtendListForgets(p) ==
    /\ ReadEntry
    /\ feed \in IpFeeds
    /\ Covering(p) # {}
    /\ trie' = [q \in DOMAIN trie \cup {p} |->
                   IF q = p THEN trie[Longest(p)] ELSE trie[q]]
    /\ listed' = listed \cup {<<feed, p>>}
    /\ UNCHANGED <<feed, lists, domains>>

\* try: cur = trie[cidr]; cur.append(...); trie[cidr] = cur
ExtendList(p) ==
    /\ ReadEntry
    /\ feed \in IpFeeds
    /\ Covering(p) # {}
    /\ LET owner == trie[Longest(p)]
       IN  /\ lists' = [lists EXCEPT ![owner] = Append(@, feed)]
           /\ trie' = [q \in DOMAIN trie \cup {p} |-> IF q = p THEN owner ELSE trie[q]]
    /\ listed' = listed \cup {<<feed, p>>}
    /\ UNCHANGED <<feed, domains>>

\* Mutant: a domain feed whose entries look like addresses is read as well.
MakeListAnyFeed(p) ==
    /\ ReadEntry
    /\ Covering(p) = {}
    /\ lists' = [lists EXCEPT ![p] = <<feed>>]
    /\ trie' = [q \in DOMAIN trie \cup {p} |-> IF q = p THEN p ELSE trie[q]]
    /\ listed' = listed \cup {<<feed, p>>}
    /\ UNCHANGED <<feed, domains>>

\* except KeyError: trie[cidr] = [...]
MakeList(p) ==
    /\ ReadEntry
    /\ feed \in IpFeeds
    /\ Covering(p) = {}
    /\ lists' = [lists EXCEPT ![p] = <<feed>>]
    /\ trie' = [q \in DOMAIN trie \cup {p} |-> IF q = p THEN p ELSE trie[q]]
    /\ listed' = listed \cup {<<feed, p>>}
    /\ UNCHANGED <<feed, domains>>

\* Mutant: the last feed's weight replaces the one that is there.
MergeLastWins(entry, f) ==
    [weight |-> Weight[f],
     feeds  |-> IF f \in ToSet(entry.feeds) THEN entry.feeds ELSE Append(entry.feeds, f)]

\* One entry per category, with the highest weight and every feed's name once.
Merge(entry, f) ==
    [weight |-> IF entry.weight > Weight[f] THEN entry.weight ELSE Weight[f],
     feeds  |-> IF f \in ToSet(entry.feeds) THEN entry.feeds ELSE Append(entry.feeds, f)]

AddDomain(d) ==
    /\ ReadEntry
    /\ feed \notin IpFeeds
    /\ domains' = [domains EXCEPT ![d][Category[feed]] = Merge(@, feed)]
    /\ listed' = listed \cup {<<feed, d>>}
    /\ UNCHANGED <<feed, trie, lists>>

\* The file of the feed is at its end, or is not there.
NextFeed ==
    /\ feed \in Feed
    /\ feed' = feed + 1
    /\ UNCHANGED <<trie, lists, domains, listed, entries>>

\* Mutant: the tries outlive the build they were made for.
NextBuildKeepsTries ==
    /\ feed = NumFeeds + 1
    /\ feed' = 1
    /\ domains' = NoDomains
    /\ listed' = {}
    /\ entries' = 0
    /\ UNCHANGED <<trie, lists>>

\* The next tick builds an index from nothing.
NextBuild ==
    /\ feed = NumFeeds + 1
    /\ feed' = 1
    /\ trie' = [p \in {} |-> p]
    /\ lists' = [p \in Cidr |-> <<>>]
    /\ domains' = NoDomains
    /\ listed' = {}
    /\ entries' = 0

Next ==
    \/ \E p \in Cidr : ExtendList(p) \/ MakeList(p)
    \/ \E d \in Domain : AddDomain(d)
    \/ NextFeed
    \/ NextBuild

Spec == Init /\ [][Next]_vars

-----------------------------------------------------------------------------
(* What a check finds *)

\* Mutant: only the first element of the list becomes a finding.
HitsFirst(a) == IF Covering(a) = {} THEN <<>> ELSE <<lists[trie[Longest(a)]][1]>>

\* trie.get(ip): one finding per element of the list.
Hits(a) == IF Covering(a) = {} THEN <<>> ELSE lists[trie[Longest(a)]]

\* The feeds that list a range the address lies in.
Listing(a) == {f \in IpFeeds : \E p \in Cidr : <<f, p>> \in listed /\ Covers(p, a)}

TypeOK ==
    /\ feed \in 1..(NumFeeds + 1)
    /\ DOMAIN trie \subseteq Cidr
    /\ \A p \in DOMAIN trie : trie[p] \in DOMAIN trie
    /\ lists \in [Cidr -> Seq(IpFeeds)]
    /\ DOMAIN domains = Domain
    /\ entries \in 0..MaxEntries

\* The narrowest range stored for an address always counts: every feed that lists
\* that very range is found, whichever feeds came before or after and whatever list
\* the range shares (build_index, lines 132-140; _ip_signals, lines 25-51).
NarrowestCounts ==
    \A a \in Address : Covering(a) # {} =>
        \A f \in IpFeeds : <<f, Longest(a)>> \in listed => f \in ToSet(Hits(a))

\* What was found for an address is still found after more ranges were read: a
\* narrower range does not hide the findings of the wider one it lies in.
NothingHidden ==
    [][feed' >= feed =>
          \A a \in Address : ToSet(Hits(a)) \subseteq ToSet(Hits(a))']_vars

\* As long as no range that was read lies within another one, the lookup is exact:
\* a check finds the feeds that list a range the address is in, and no others.
ExactWithoutNesting ==
    (\A p, q \in DOMAIN trie : Covers(p, q) => p = q)
        => \A a \in Address : ToSet(Hits(a)) = Listing(a)

\* A feed is only ever charged to an address by an entry in the same widest range:
\* lists are shared inside a range that was stored before all it covers, never
\* beyond it.
ChargedWithinOwner ==
    \A a \in Address : Covering(a) # {} =>
        LET owner == trie[Longest(a)]
        IN  /\ Covers(owner, a)
            /\ \A f \in ToSet(Hits(a)) :
                  \E p \in Cidr : <<f, p>> \in listed /\ Covers(owner, p)

\* A domain has one finding per category, which names each feed of the category that
\* lists it once and weighs as much as the heaviest of them, in whatever order the
\* feeds come (signals.yaml, lines 100-103).
DomainFindings ==
    \A d \in Domain, c \in Categories :
        LET fs == {f \in Feed : f \notin IpFeeds /\ Category[f] = c /\ <<f, d>> \in listed}
            entry == domains[d][c]
        IN  /\ ToSet(entry.feeds) = fs
            /\ \A i, j \in DOMAIN entry.feeds :
                  entry.feeds[i] = entry.feeds[j] => i = j
            /\ IF fs = {} THEN entry = NoFinding
               ELSE /\ \A f \in fs : Weight[f] <= entry.weight
                    /\ \E f \in fs : Weight[f] = entry.weight

\* signals.yaml:209-210, of feed:<feed_name>:<n>: "The IP falls inside a range listed
\* by that feed."
InsideListedRange == \A a \in Address : ToSet(Hits(a)) \subseteq Listing(a)
=============================================================================
