-------------------------- MODULE McpBatch_proofs --------------------------
(***************************************************************************)
(* The batch, for any lists of addresses, permits, attempts and limit.     *)
(*                                                                         *)
(* Counted: a task that begins takes a permit, a task that ends gives one  *)
(* back, and nothing else moves a task across the border of Busy or        *)
(* touches the permits, except the next call, which begins with all of     *)
(* them and with no task under way.                                        *)
(*                                                                         *)
(* Tries: a task that is about to send has an attempt left.                *)
(*                                                                         *)
(* Reported: the two lists hold, each once, the addresses whose tasks      *)
(* ended in a result and in a reason.  A call that returned has sorted     *)
(* both, and its tasks have all ended, none of them by an exception.       *)
(***************************************************************************)
EXTENDS McpBatch, ListOps_proofs
LOCAL INSTANCE SequencesExt

Place == Ended \cup {"queued", "send", "sent", "pause"}

Counted ==
    /\ pc \in [Address -> Place]
    /\ free \in Nat
    /\ IsFiniteSet(Busy)
    /\ Cardinality(Busy) + free = Concurrency

LEMMA InitCounted == Init => Counted
<1> SUFFICES ASSUME Init PROVE Counted
  OBVIOUS
<1>1. pc \in [Address -> Place] /\ \A a \in Address : pc[a] \in {"queued", "absent"}
  BY DEF Init, Tasks, Place, Ended
<1>2. Busy = {}
  BY <1>1 DEF Busy
<1>3. QED
  BY <1>1, <1>2, FS_EmptySet, BatchAssumption DEF Init, Counted

\* A task that begins: it takes a permit.
LEMMA BeginCounted ==
  ASSUME Counted, NEW a \in Address, pc[a] = "queued", free > 0,
         pc' = [pc EXCEPT ![a] = "send"], free' = free - 1
  PROVE  Counted'
<1>1. pc' \in [Address -> Place]
  BY DEF Counted, Place
<1>2. a \notin Busy /\ Busy' = Busy \cup {a}
  BY DEF Counted, Busy
<1>3. IsFiniteSet(Busy') /\ Cardinality(Busy') = Cardinality(Busy) + 1
  BY <1>2, FS_AddElement DEF Counted
<1>4. Cardinality(Busy) \in Nat
  BY FS_CardinalityType DEF Counted
<1>5. QED
  BY <1>1, <1>3, <1>4, BatchAssumption DEF Counted

\* A task that ends: it gives its permit back.
LEMMA EndCounted ==
  ASSUME Counted, NEW a \in Address, pc[a] \in {"send", "sent"},
         NEW how \in {"checked", "refused", "limited", "raised"}, End(a, how)
  PROVE  Counted'
<1>1. pc' \in [Address -> Place]
  BY DEF Counted, End, Place, Ended
<1>2. a \in Busy /\ Busy' = Busy \ {a}
  BY DEF Counted, End, Busy
<1>3. IsFiniteSet(Busy') /\ Cardinality(Busy') = Cardinality(Busy) - 1
  BY <1>2, FS_RemoveElement DEF Counted
<1>4. Cardinality(Busy) \in Nat
  BY FS_CardinalityType DEF Counted
<1>5. QED
  BY <1>1, <1>3, <1>4, BatchAssumption DEF Counted, End

\* A task that goes on, with its permit.
LEMMA GoOnCounted ==
  ASSUME Counted, NEW a \in Address, NEW next \in {"send", "sent", "pause"},
         pc[a] \in {"send", "sent", "pause"}, pc' = [pc EXCEPT ![a] = next], free' = free
  PROVE  Counted'
<1>1. pc' \in [Address -> Place]
  BY DEF Counted, Place
<1>2. Busy' = Busy
  BY DEF Counted, Busy
<1>3. QED
  BY <1>1, <1>2 DEF Counted

LEMMA NextCounted == Counted /\ [Next]_vars => Counted'
<1> SUFFICES ASSUME Counted, [Next]_vars PROVE Counted'
  OBVIOUS
<1>1. ASSUME NEW a \in Address, Step(a) PROVE Counted'
  <2>1. CASE Acquire(a)
    BY <2>1, BeginCounted DEF Acquire
  <2>2. CASE Send(a)
    BY <2>2, GoOnCounted DEF Send
  <2>3. CASE NoKey(a)
    BY <2>3, EndCounted DEF NoKey
  <2>4. CASE Checked(a)
    BY <2>4, EndCounted DEF Checked
  <2>5. CASE Refused(a)
    BY <2>5, EndCounted DEF Refused
  <2>6. CASE Limited(a)
    BY <2>6, GoOnCounted DEF Limited
  <2>7. CASE PauseEnds(a)
    BY <2>7, GoOnCounted DEF PauseEnds
  <2>8. CASE GiveUp(a)
    BY <2>8, EndCounted DEF GiveUp
  <2>9. CASE DateRaises(a)
    BY <2>9, EndCounted DEF DateRaises
  <2>10. QED
    BY <1>1, <2>1, <2>2, <2>3, <2>4, <2>5, <2>6, <2>7, <2>8, <2>9 DEF Step
<1>2. CASE NextCall
  <2>1. pc' \in [Address -> Place] /\ \A a \in Address : pc'[a] \in {"queued", "absent"}
    BY <1>2 DEF NextCall, Tasks, Place, Ended
  <2>2. Busy' = {}
    BY <2>1 DEF Busy
  <2>3. QED
    BY <1>2, <2>1, <2>2, FS_EmptySet, BatchAssumption DEF NextCall, Counted
<1>3. CASE UNCHANGED <<pc, free>>
  BY <1>3 DEF Counted, Busy
<1>4. QED
  BY <1>1, <1>2, <1>3 DEF Next, vars, Return, NewWindow

-----------------------------------------------------------------------------
(* Lists *)

Once(s) == \A i, j \in DOMAIN s : s[i] = s[j] => i = j

LEMMA AppendOnce ==
  ASSUME NEW s \in Seq(Address), NEW a \in Address, Once(s), a \notin ToSet(s)
  PROVE  /\ Append(s, a) \in Seq(Address) /\ Once(Append(s, a))
         /\ ToSet(Append(s, a)) = ToSet(s) \cup {a}
<1> DEFINE t == Append(s, a)
<1>1. /\ t \in Seq(Address) /\ Len(s) \in Nat /\ DOMAIN s = 1..Len(s)
      /\ DOMAIN t = 1..(Len(s) + 1)
      /\ t[Len(s) + 1] = a /\ \A i \in DOMAIN s : t[i] = s[i]
  OBVIOUS
<1>2. ToSet(s) = {s[i] : i \in DOMAIN s} /\ ToSet(t) = {t[i] : i \in DOMAIN t}
  BY DEF ToSet
<1> HIDE DEF t
<1>3. \A i \in DOMAIN t : i \in DOMAIN s \/ i = Len(s) + 1
  BY <1>1
<1>4. Once(t)
  BY <1>1, <1>2, <1>3 DEF Once
<1>5. DOMAIN t = DOMAIN s \cup {Len(s) + 1}
  BY <1>1
<1>6. ToSet(t) = ToSet(s) \cup {a}
  BY <1>1, <1>2, <1>5
<1>7. QED
  BY <1>1, <1>4, <1>6 DEF t

\* Sorted by an order that tells its elements apart, a list rises.
LEMMA SortedRises ==
  ASSUME NEW s \in Seq(Address), Once(s), NEW order,
         \A a, b \in ToSet(s) : order[a] \in Int /\ (order[a] = order[b] => a = b)
  PROVE  LET t == Sorted(s, order)
         IN  /\ t \in Seq(Address) /\ Once(t) /\ ToSet(t) = ToSet(s)
             /\ \A i, j \in DOMAIN t : i < j => order[t[i]] < order[t[j]]
<1> DEFINE t == Sorted(s, order)
<1>1. \A i \in DOMAIN s : s[i] \in ToSet(s) /\ order[s[i]] \in Int
  BY DEF ToSet
<1>2. PICK p \in [DOMAIN s -> DOMAIN s] :
         /\ \A i, j \in DOMAIN s : p[i] = p[j] => i = j
         /\ \A i \in DOMAIN s : \E n \in DOMAIN s : p[n] = i
         /\ t = [n \in DOMAIN s |-> s[p[n]]]
         /\ \A i, j \in DOMAIN s : i < j => Precedes(s, order, p[i], p[j])
  BY <1>1, SortedInOrder
<1>4. DOMAIN s = 1..Len(s) /\ Len(s) \in Nat /\ \A i \in DOMAIN s : s[i] \in Address
  OBVIOUS
<1>5. DOMAIN t = DOMAIN s /\ \A n \in DOMAIN s : t[n] = s[p[n]] /\ t[n] \in Address
  BY <1>2, <1>4
<1>6. t \in Seq(Address)
  BY <1>2, <1>4, <1>5
<1> HIDE DEF t
<1>7. Once(t)
  BY <1>2, <1>5 DEF Once
<1>8. ToSet(t) = ToSet(s)
  BY <1>2, <1>5 DEF ToSet
<1>9. ASSUME NEW i \in DOMAIN t, NEW j \in DOMAIN t, i < j PROVE order[t[i]] < order[t[j]]
  <2>1. t[i] = s[p[i]] /\ t[j] = s[p[j]] /\ p[i] # p[j] /\ Precedes(s, order, p[i], p[j])
    BY <1>2, <1>4, <1>5, <1>9
  <2>2. s[p[i]] # s[p[j]]
    BY <1>2, <1>5, <2>1 DEF Once
  <2>3. order[s[p[i]]] # order[s[p[j]]]
    BY <1>1, <1>2, <1>5, <2>2
  <2>4. QED
    BY <2>1, <2>3 DEF Precedes
<1>10. QED
  BY <1>6, <1>7, <1>8, <1>9 DEF t

\* Each address has a place, where it stands first.
LEMMA OrderIsFirst ==
  ASSUME emails \in Seq(Address)
  PROVE  /\ ToSet(emails) \subseteq Address
         /\ \A a \in ToSet(emails) :
               /\ Order[a] \in DOMAIN emails /\ Order[a] \in Nat /\ emails[Order[a]] = a
               /\ \A j \in 1..(Order[a] - 1) : emails[j] # a
<1>1. DOMAIN emails = 1..Len(emails) /\ Len(emails) \in Nat
  OBVIOUS
<1>2. ASSUME NEW a \in ToSet(emails)
      PROVE  /\ Order[a] \in DOMAIN emails /\ Order[a] \in Nat /\ emails[Order[a]] = a
             /\ \A j \in 1..(Order[a] - 1) : emails[j] # a
  <2> DEFINE T == {i \in DOMAIN emails : emails[i] = a}
  <2>1. T # {} /\ T \in SUBSET Nat
    BY <1>1 DEF ToSet
  <2>2. PICK x \in T : \A y \in T : x <= y
    BY <2>1, LeastElement
  <2>3. \A j \in 1..(x - 1) : emails[j] # a
    BY <1>1, <2>2
  <2>4. QED
    BY <1>1, <2>2, <2>3 DEF Order
<1>3. ToSet(emails) \subseteq Address
  BY DEF ToSet
<1>4. QED
  BY <1>2, <1>3

-----------------------------------------------------------------------------
(* The inductive invariant *)

Tries ==
    /\ attempt \in [Address -> 0..MaxRetries]
    /\ \A a \in Address :
          /\ pc[a] \in {"absent", "queued"} => attempt[a] = 0
          /\ pc[a] \in {"send", "pause"} => attempt[a] < MaxRetries

Rises(s) == \A i, j \in DOMAIN s : i < j => Order[s[i]] < Order[s[j]]

Reported ==
    /\ key \in BOOLEAN
    /\ emails \in Lists
    /\ call \in {"running", "returned", "raised"}
    /\ used \in 0..Limit
    /\ results \in Seq(Address) /\ failed \in Seq(Address)
    /\ Once(results) /\ Once(failed)
    /\ \A a \in Address :
          /\ a \in ToSet(results) <=> pc[a] = "checked"
          /\ a \in ToSet(failed) <=> pc[a] \in {"refused", "limited"}
          /\ a \in ToSet(emails) <=> pc[a] # "absent"
          /\ pc[a] = "raised" => call = "raised"
    /\ call = "returned" =>
          (\A a \in Address : pc[a] \in Ended) /\ Rises(results) /\ Rises(failed)

BatchInv == Counted /\ Tries /\ Reported

\* A call begins.
LEMMA BeginsReported ==
  ASSUME NEW list \in Lists, NEW tasks,
         tasks = [a \in Address |-> IF a \in ToSet(list) THEN "queued" ELSE "absent"]
  PROVE  /\ <<>> \in Seq(Address) /\ Once(<<>>) /\ ToSet(<<>>) = {}
         /\ \A a \in Address : /\ tasks[a] \in {"queued", "absent"}
                               /\ a \in ToSet(list) <=> tasks[a] # "absent"
  BY DEF Once, ToSet

LEMMA InitInv == Init => BatchInv
<1> SUFFICES ASSUME Init PROVE BatchInv
  OBVIOUS
<1>1. Counted
  BY InitCounted
<1>2. /\ <<>> \in Seq(Address) /\ Once(<<>>) /\ ToSet(<<>>) = {}
      /\ \A a \in Address : /\ pc[a] \in {"queued", "absent"}
                            /\ a \in ToSet(emails) <=> pc[a] # "absent"
  BY BeginsReported DEF Init, Tasks
<1>3. Tries
  BY <1>2, BatchAssumption DEF Init, NotTried, Tries
<1>4. Reported
  BY <1>2, BatchAssumption DEF Init, Reported
<1>5. QED
  BY <1>1, <1>3, <1>4 DEF BatchInv

\* A task that goes on: it ends in nothing, and reports nothing.
LEMMA GoOnReported ==
  ASSUME Reported, Counted, NEW a \in Address, NEW next \in {"send", "sent", "pause"},
         pc[a] \in {"queued", "send", "sent", "pause"}, pc' = [pc EXCEPT ![a] = next],
         UNCHANGED <<key, emails, call, results, failed, used>>
  PROVE  Reported'
<1>1. call # "returned"
  BY DEF Reported, Ended
<1>2. /\ pc'[a] = next /\ \A b \in Address : b # a => pc'[b] = pc[b]
      /\ next \notin {"absent", "checked", "refused", "limited", "raised"}
  BY DEF Counted
<1>3. \A b \in Address :
         /\ b \in ToSet(results) <=> pc'[b] = "checked"
         /\ b \in ToSet(failed) <=> pc'[b] \in {"refused", "limited"}
         /\ b \in ToSet(emails) <=> pc'[b] # "absent"
         /\ pc'[b] = "raised" => call = "raised"
  BY <1>2 DEF Reported
<1>4. QED
  BY <1>1, <1>3 DEF Reported

\* A task that ends: its address is in the list for what it ended in.
LEMMA EndReported ==
  ASSUME Reported, Counted, NEW a \in Address, pc[a] \in {"send", "sent"},
         NEW how \in {"checked", "refused", "limited", "raised"}, End(a, how),
         UNCHANGED key, used' \in 0..Limit,
         results' = IF how = "checked" THEN Append(results, a) ELSE results,
         failed' = IF how \in {"refused", "limited"} THEN Append(failed, a) ELSE failed,
         call' = IF how = "raised" THEN "raised" ELSE call
  PROVE  Reported'
<1>1. call # "returned" /\ call' # "returned" /\ call' \in {"running", "raised"}
  BY DEF Reported, Ended
<1>2. pc'[a] = how /\ emails' = emails /\ \A b \in Address : b # a => pc'[b] = pc[b]
  BY DEF Counted, End
<1>3. a \notin ToSet(results) /\ a \notin ToSet(failed) /\ a \in ToSet(emails)
  BY DEF Reported
<1>4. /\ results' \in Seq(Address) /\ Once(results)'
      /\ ToSet(results') = IF how = "checked" THEN ToSet(results) \cup {a} ELSE ToSet(results)
  <2>1. CASE how = "checked"
    BY <1>3, <2>1, AppendOnce DEF Reported, Once
  <2>2. CASE how # "checked"
    BY <2>2 DEF Reported, Once
  <2>3. QED
    BY <2>1, <2>2
<1>5. /\ failed' \in Seq(Address) /\ Once(failed)'
      /\ ToSet(failed') = IF how \in {"refused", "limited"} THEN ToSet(failed) \cup {a}
                                                            ELSE ToSet(failed)
  <2>1. CASE how \in {"refused", "limited"}
    BY <1>3, <2>1, AppendOnce DEF Reported, Once
  <2>2. CASE how \notin {"refused", "limited"}
    BY <2>2 DEF Reported, Once
  <2>3. QED
    BY <2>1, <2>2
<1>6. ASSUME NEW b \in Address
      PROVE  /\ b \in ToSet(results') <=> pc'[b] = "checked"
             /\ b \in ToSet(failed') <=> pc'[b] \in {"refused", "limited"}
             /\ b \in ToSet(emails') <=> pc'[b] # "absent"
             /\ pc'[b] = "raised" => call' = "raised"
  <2>1. CASE b = a
    BY <1>2, <1>3, <1>4, <1>5, <2>1
  <2>2. CASE b # a
    BY <1>1, <1>2, <1>4, <1>5, <2>2 DEF Reported
  <2>3. QED
    BY <2>1, <2>2
<1>7. key' \in BOOLEAN /\ emails' \in Lists
  BY <1>2 DEF Reported
<1>8. QED
  BY <1>1, <1>4, <1>5, <1>6, <1>7 DEF Reported

\* The answer: both lists are sorted, and nothing is lost on the way.
LEMMA ReturnReported == ASSUME Reported, Return PROVE Reported'
<1>1. emails \in Seq(Address) /\ emails' = emails /\ pc' = pc /\ key' = key /\ used' = used
  BY BatchAssumption DEF Reported, Return
<1>2. Order' = Order
  BY <1>1 DEF Order
<1>3. ASSUME NEW s \in Seq(Address), Once(s), ToSet(s) \subseteq ToSet(emails)
      PROVE  LET t == InOrder(s)
             IN  /\ t \in Seq(Address) /\ Once(t) /\ ToSet(t) = ToSet(s)
                 /\ \A i, j \in DOMAIN t : i < j => Order[t[i]] < Order[t[j]]
  <2>1. \A a, b \in ToSet(s) : Order[a] \in Int /\ (Order[a] = Order[b] => a = b)
    BY <1>1, <1>3, OrderIsFirst
  <2> DEFINE order == Order
  <2>2. \A a, b \in ToSet(s) : order[a] \in Int /\ (order[a] = order[b] => a = b)
    BY <2>1
  <2> HIDE DEF order
  <2>3. PICK o : o = order
    OBVIOUS
  <2>4. LET t == Sorted(s, o)
        IN  /\ t \in Seq(Address) /\ Once(t) /\ ToSet(t) = ToSet(s)
            /\ \A i, j \in DOMAIN t : i < j => o[t[i]] < o[t[j]]
    BY <1>3, <2>2, <2>3, SortedRises
  <2>5. QED
    BY <2>3, <2>4 DEF InOrder, order
<1>4. ToSet(results) \subseteq Address /\ ToSet(failed) \subseteq Address
  BY DEF Reported, ToSet
<1>5. ToSet(results) \subseteq ToSet(emails) /\ ToSet(failed) \subseteq ToSet(emails)
  BY <1>4 DEF Reported
<1>6. /\ results' \in Seq(Address) /\ Once(results)' /\ ToSet(results') = ToSet(results)
      /\ Rises(results)'
  <2>1. PICK r : r = results
    OBVIOUS
  <2>2. results' = InOrder(r) /\ r \in Seq(Address) /\ Once(r) /\ ToSet(r) \subseteq ToSet(emails)
    BY <1>5, <2>1 DEF Reported, Return, Once
  <2>3. QED
    BY <1>2, <1>3, <2>1, <2>2 DEF Once, Rises
<1>7. /\ failed' \in Seq(Address) /\ Once(failed)' /\ ToSet(failed') = ToSet(failed)
      /\ Rises(failed)'
  <2>1. PICK f : f = failed
    OBVIOUS
  <2>2. failed' = InOrder(f) /\ f \in Seq(Address) /\ Once(f) /\ ToSet(f) \subseteq ToSet(emails)
    BY <1>5, <2>1 DEF Reported, Return, Once
  <2>3. QED
    BY <1>2, <1>3, <2>1, <2>2 DEF Once, Rises
<1>8. \A a \in Address : pc[a] \in Ended /\ pc[a] # "raised"
  BY DEF Reported, Return
<1>9. \A a \in Address :
         /\ a \in ToSet(results') <=> pc'[a] = "checked"
         /\ a \in ToSet(failed') <=> pc'[a] \in {"refused", "limited"}
         /\ a \in ToSet(emails') <=> pc'[a] # "absent"
         /\ pc'[a] = "raised" => call' = "raised"
  BY <1>1, <1>6, <1>7, <1>8 DEF Reported
<1>10. QED
  BY <1>1, <1>6, <1>7, <1>8, <1>9 DEF Reported, Return, Ended

LEMMA NextReported == Counted /\ Reported /\ [Next]_vars => Reported'
<1> SUFFICES ASSUME Counted, Reported, [Next]_vars PROVE Reported'
  OBVIOUS
<1>1. ASSUME NEW a \in Address, Step(a) PROVE Reported'
  <2>0. used \in 0..Limit /\ Limit \in Nat
    BY BatchAssumption DEF Reported
  <2>1. CASE Acquire(a)
    BY <2>1, GoOnReported DEF Acquire
  <2>2. CASE Send(a)
    BY <2>2, GoOnReported DEF Send
  <2>3. CASE NoKey(a)
    BY <2>0, <2>3, EndReported DEF NoKey, End
  <2>4. CASE Checked(a)
    <3>1. used' \in 0..Limit
      BY <2>0, <2>4 DEF Checked
    <3>2. QED
      BY <2>4, <3>1, EndReported DEF Checked, End
  <2>5. CASE Refused(a)
    BY <2>0, <2>5, EndReported DEF Refused, End
  <2>6. CASE Limited(a)
    BY <2>6, GoOnReported DEF Limited
  <2>7. CASE PauseEnds(a)
    BY <2>7, GoOnReported DEF PauseEnds
  <2>8. CASE GiveUp(a)
    BY <2>0, <2>8, EndReported DEF GiveUp, End
  <2>9. CASE DateRaises(a)
    BY <2>0, <2>9, EndReported DEF DateRaises, End
  <2>10. QED
    BY <1>1, <2>1, <2>2, <2>3, <2>4, <2>5, <2>6, <2>7, <2>8, <2>9 DEF Step
<1>2. CASE Return
  BY <1>2, ReturnReported
<1>3. CASE NextCall
  <2>1. PICK list \in Lists : emails' = list
    BY <1>3 DEF NextCall
  <2>2. pc' = [a \in Address |-> IF a \in ToSet(list) THEN "queued" ELSE "absent"]
    BY <1>3, <2>1 DEF NextCall, Tasks
  <2>3. /\ <<>> \in Seq(Address) /\ Once(<<>>) /\ ToSet(<<>>) = {}
        /\ \A a \in Address : /\ pc'[a] \in {"queued", "absent"}
                              /\ a \in ToSet(list) <=> pc'[a] # "absent"
    BY <2>2, BeginsReported
  <2>4. QED
    BY <1>3, <2>1, <2>3 DEF NextCall, Reported, Once
<1>4. ASSUME UNCHANGED <<key, emails, call, pc, results, failed>>, used' \in 0..Limit
      PROVE  Reported'
  <2>1. Order' = Order
    BY <1>4 DEF Order
  <2>2. Once(results)' = Once(results) /\ Once(failed)' = Once(failed)
    BY <1>4 DEF Once
  <2>3. Rises(results)' = Rises(results) /\ Rises(failed)' = Rises(failed)
    BY <1>4, <2>1 DEF Rises
  <2>4. QED
    BY <1>4, <2>2, <2>3 DEF Reported
<1>5. CASE NewWindow \/ UNCHANGED vars
  BY <1>4, <1>5, BatchAssumption DEF NewWindow, vars, Reported
<1>6. QED
  BY <1>1, <1>2, <1>3, <1>5 DEF Next

LEMMA NextTries == Counted /\ Tries /\ [Next]_vars => Tries'
<1> SUFFICES ASSUME Counted, Tries, [Next]_vars PROVE Tries'
  OBVIOUS
<1> USE BatchAssumption DEF Tries, Counted
<1>1. ASSUME NEW a \in Address, Step(a) PROVE Tries'
  <2>1. CASE Acquire(a)
    BY <2>1 DEF Acquire
  <2>2. CASE Send(a)
    BY <2>2 DEF Send
  <2>3. CASE NoKey(a)
    BY <2>3 DEF NoKey, End
  <2>4. CASE Checked(a)
    BY <2>4 DEF Checked, End
  <2>5. CASE Refused(a)
    BY <2>5 DEF Refused, End
  <2>6. CASE Limited(a)
    BY <2>6 DEF Limited
  <2>7. CASE PauseEnds(a)
    BY <2>7 DEF PauseEnds
  <2>8. CASE GiveUp(a)
    BY <2>8 DEF GiveUp, End
  <2>9. CASE DateRaises(a)
    BY <2>9 DEF DateRaises, End
  <2>10. QED
    BY <1>1, <2>1, <2>2, <2>3, <2>4, <2>5, <2>6, <2>7, <2>8, <2>9 DEF Step
<1>2. CASE NextCall
  BY <1>2 DEF NextCall, NotTried, Tasks
<1>3. CASE Return \/ NewWindow \/ UNCHANGED vars
  BY <1>3 DEF Return, NewWindow, vars
<1>4. QED
  BY <1>1, <1>2, <1>3 DEF Next

\* The inductive invariant of a batch, for any lists of addresses, permits, attempts and
\* limit, and any number of calls.
THEOREM BatchInvariance == Spec => []BatchInv
<1>1. BatchInv /\ [Next]_vars => BatchInv'
  BY NextCounted, NextTries, NextReported DEF BatchInv
<1>2. QED
  BY InitInv, <1>1, PTL DEF Spec

\* Type correctness: no task makes more than MAX_RETRIES attempts, no permit is made,
\* and the window is never overdrawn.
THEOREM TypeCorrect == Spec => []TypeOK
<1>1. BatchInv => TypeOK
  <2> SUFFICES ASSUME BatchInv PROVE TypeOK
    OBVIOUS
  <2>1. free \in 0..Concurrency
    <3>1. Cardinality(Busy) \in Nat
      BY FS_CardinalityType DEF BatchInv, Counted
    <3>2. QED
      BY <3>1, BatchAssumption DEF BatchInv, Counted
  <2>2. ToSet(results) \cup ToSet(failed) \subseteq Address
    BY DEF BatchInv, Reported, ToSet
  <2>3. pc \in [Address -> Ended \cup {"queued", "send", "sent", "pause"}]
    BY DEF BatchInv, Counted, Place
  <2>4. QED
    BY <2>1, <2>2, <2>3 DEF BatchInv, Tries, Reported, TypeOK
<1>2. QED
  BY BatchInvariance, <1>1, PTL

-----------------------------------------------------------------------------
(* The report *)

\* A section holds the results with its decision, in the order of the results.
LEMMA SectionRises ==
  ASSUME BatchInv, Rises(results), NEW decision
  PROVE  /\ Section(decision) \in Seq(Address) /\ Rises(Section(decision))
         /\ \A a \in Address : a \in ToSet(Section(decision)) <=>
                                  a \in ToSet(results) /\ DecisionOn[a] = decision
<1> DEFINE S == {i \in DOMAIN results : DecisionOn[results[i]] = decision}
<1>1. results \in Seq(Address) /\ DOMAIN results = 1..Len(results) /\ Len(results) \in Nat
  BY DEF BatchInv, Reported
<1>2. PICK r : r = results
  OBVIOUS
<1>3. PICK T : T = S
  OBVIOUS
<1>4. Section(decision) = At(r, T)
  BY <1>2, <1>3 DEF Section
<1>5. /\ At(r, T) \in Seq(Address)
      /\ \E p \in [DOMAIN At(r, T) -> T \cap DOMAIN r] :
            /\ \A j, k \in DOMAIN At(r, T) : j < k => p[j] < p[k]
            /\ \A k \in DOMAIN At(r, T) : At(r, T)[k] = r[p[k]]
            /\ \A i \in T \cap DOMAIN r : \E k \in DOMAIN At(r, T) : p[k] = i
  <2>1. r \in Seq(Address)
    BY <1>1, <1>2
  <2>2. QED
    BY <2>1, AtInOrder
<1>6. PICK t \in Seq(Address) : t = Section(decision)
  BY <1>4, <1>5
<1>7. PICK p \in [DOMAIN t -> S] :
         /\ \A j, k \in DOMAIN t : j < k => p[j] < p[k]
         /\ \A k \in DOMAIN t : t[k] = results[p[k]]
         /\ \A i \in S : \E k \in DOMAIN t : p[k] = i
  <2>1. T \cap DOMAIN r = S
    BY <1>2, <1>3
  <2>2. QED
    BY <1>2, <1>4, <1>5, <1>6, <2>1
<1>8. Rises(t)
  BY <1>7 DEF Rises
<1>9. ASSUME NEW a \in Address
      PROVE  a \in ToSet(t) <=> a \in ToSet(results) /\ DecisionOn[a] = decision
  BY <1>7 DEF ToSet
<1>10. QED
  BY <1>6, <1>8, <1>9

\* A list that rises is in the order of the call.
LEMMA RisesInOrder ==
  ASSUME BatchInv, NEW s \in Seq(Address), Rises(s), ToSet(s) \subseteq ToSet(emails),
         NEW i \in DOMAIN s, NEW j \in DOMAIN s, i < j
  PROVE  \E k, l \in DOMAIN emails :
            /\ k < l /\ emails[k] = s[i] /\ emails[l] = s[j]
            /\ \A m \in 1..(l - 1) : emails[m] # s[j]
<1>1. emails \in Seq(Address)
  BY BatchAssumption DEF BatchInv, Reported
<1>2. s[i] \in ToSet(emails) /\ s[j] \in ToSet(emails) /\ Order[s[i]] < Order[s[j]]
  BY DEF ToSet, Rises
<1>3. QED
  BY <1>1, <1>2, OrderIsFirst

\* The report has every distinct address of a call where it belongs and nowhere else: under
\* its decision or as not checked.  Each of its lists is in the caller's order, for any
\* lists (server.py, lines 129-155; format.py, lines 125-170).
THEOREM ReportHasNoGap == Spec => []NoSilentGap
<1>1. BatchInv => NoSilentGap
  <2> SUFFICES ASSUME BatchInv, call = "returned" PROVE NoSilentGap
    BY DEF NoSilentGap
  <2>1. /\ emails \in Seq(Address) /\ failed \in Seq(Address)
        /\ Rises(results) /\ Rises(failed)
        /\ \A a \in Address : pc[a] \in Ended /\ pc[a] # "raised"
    BY BatchAssumption DEF BatchInv, Reported
  <2>2. ToSet(emails) \subseteq Address /\ ToSet(failed) \subseteq Address
    BY <2>1 DEF ToSet
  <2>3. /\ DOMAIN Report = Decisions \cup {"failed"} /\ Report["failed"] = failed
        /\ \A g \in Decisions : Report[g] = Section(g) /\ g # "failed"
    BY DEF Report, Decisions
  <2>4. \A a \in Address : DecisionOn[a] \in Decisions
    BY BatchAssumption DEF Decisions
  <2>5. ASSUME NEW a \in ToSet(emails), NEW g \in DOMAIN Report
        PROVE  a \in ToSet(Report[g]) <=> IF pc[a] = "checked" THEN g = DecisionOn[a]
                                                              ELSE g = "failed"
    <3>1. a \in Address /\ pc[a] \in {"checked", "refused", "limited"}
      BY <2>1, <2>2 DEF BatchInv, Reported, Ended
    <3>2. CASE g \in Decisions
      <4>1. a \in ToSet(Report[g]) <=> pc[a] = "checked" /\ DecisionOn[a] = g
        BY <2>1, <2>3, <3>1, <3>2, SectionRises DEF BatchInv, Reported
      <4>2. QED
        BY <2>3, <3>2, <4>1
    <3>3. CASE g = "failed"
      <4>1. a \in ToSet(Report[g]) <=> pc[a] # "checked"
        BY <2>3, <3>1, <3>3 DEF BatchInv, Reported
      <4>2. DecisionOn[a] # g
        BY <2>3, <2>4, <3>1, <3>3
      <4>3. QED
        BY <3>3, <4>1, <4>2
    <3>4. QED
      BY <2>3, <3>2, <3>3
  <2>6. ASSUME NEW g \in DOMAIN Report
        PROVE  /\ Report[g] \in Seq(Address) /\ Rises(Report[g])
               /\ ToSet(Report[g]) \subseteq ToSet(emails)
    <3>1. CASE g = "failed"
      BY <2>1, <2>2, <2>3, <3>1 DEF BatchInv, Reported
    <3>2. CASE g \in Decisions
      <4>1. /\ Report[g] \in Seq(Address) /\ Rises(Report[g])
            /\ \A a \in Address : a \in ToSet(Report[g]) => pc[a] = "checked"
        BY <2>1, <2>3, <3>2, SectionRises DEF BatchInv, Reported, Rises
      <4>2. ToSet(Report[g]) \subseteq Address
        BY <4>1 DEF ToSet
      <4>3. QED
        BY <4>1, <4>2 DEF BatchInv, Reported
    <3>3. QED
      BY <2>3, <3>1, <3>2
  <2>7. ASSUME NEW s \in {Report[g] : g \in DOMAIN Report}
        PROVE  /\ ToSet(s) \subseteq ToSet(emails)
               /\ \A i, j \in DOMAIN s :
                     i < j => \E k, l \in DOMAIN emails :
                                 /\ k < l /\ emails[k] = s[i] /\ emails[l] = s[j]
                                 /\ \A m \in 1..(l - 1) : emails[m] # s[j]
    <3>1. PICK t : t = s
      OBVIOUS
    <3>2. t \in Seq(Address) /\ Rises(t) /\ ToSet(t) \subseteq ToSet(emails)
      BY <2>6, <3>1 DEF Rises
    <3>3. QED
      BY <3>1, <3>2, RisesInOrder
  <2>8. QED
    BY <2>5, <2>7 DEF NoSilentGap
<1>2. QED
  BY BatchInvariance, <1>1, PTL

\* At most BATCH_CONCURRENCY addresses are under way, and no permit is lost, for any
\* number of calls and whatever the tasks end in (server.py, lines 129-140).
THEOREM PermitsAreKept == Spec => []PermitsKept
<1>1. Counted => PermitsKept
  BY DEF Counted, PermitsKept
<1>2. QED
  BY InitCounted, NextCounted, <1>1, PTL DEF Spec
=============================================================================
