--------------------------- MODULE Service_proofs ---------------------------
(***************************************************************************)
(* What the Node client can rely on, for any files, profiles, catalogues   *)
(* and number of crashes.  CheckedIsTrue and RevokedKeyRefused are about   *)
(* the step that resolves a call; what has to be known before it is where  *)
(* the response on its way comes from: from a request that the key table   *)
(* has let in after the call was made, and from the load of that moment.   *)
(***************************************************************************)
EXTENDS Service, ListOps_proofs
LOCAL INSTANCE FiniteSetsExt
LOCAL INSTANCE SequencesExt

Loads == {[profiles |-> LoadProfiles(p), signals |-> s.entries] : p \in Policies, s \in SignalFiles}

Typed ==
    /\ files \in [policies : Policies, signals : SignalFiles]
    /\ loaded \in Seq(Loads)
    /\ apc \in {"down", "keys", "files", "up"}
    /\ request \in {"none", "arrived", "authorised"}
    /\ call \in [pc : {"ended", "waiting", "reading"}, profile : ProfileName \cup {"default"},
                 revoked : BOOLEAN, since : Nat]

\* Requests are there while the API is up, and it is up with something loaded.
CallInv ==
    /\ apc = "up" => Now > 0
    /\ request # "none" => apc = "up"
    /\ call.since <= Now
    /\ call.pc = "ended" => request = "none" /\ reply = NoReply

\* A key that was disabled lets nothing in.
KeyInv ==
    /\ revoked \in BOOLEAN
    /\ revoked => row = "disabled"
    /\ call.revoked => revoked /\ request # "authorised" /\ reply.decision = "none"

\* n is a load since the call was made, and r says what it says of the subject.
From(r, n) ==
    /\ n \in call.since..Now
    /\ n > 0
    /\ call.profile \in DOMAIN loaded[n].profiles
    /\ r.profile = call.profile
    /\ r.decision = Decision(SubjectScore, loaded[n].profiles[call.profile])

ReplyInv == reply.decision # "none" => \E n \in Nat : From(reply, n)

SInv == Typed /\ CallInv /\ KeyInv /\ ReplyInv

-----------------------------------------------------------------------------

\* Nothing is loaded, called or answered in the beginning.
LEMMA InitSInv == Init => SInv
<1> SUFFICES ASSUME Init PROVE SInv
  OBVIOUS
<1>1. loaded = <<>> /\ Now = 0 /\ loaded \in Seq(Loads)
  BY DEF Init, Now
<1>2. Typed
  BY <1>1 DEF Init, Typed, NoCall
<1>3. CallInv
  BY <1>1 DEF Init, CallInv, NoCall
<1>4. KeyInv /\ ReplyInv
  BY DEF Init, KeyInv, ReplyInv, NoCall, NoReply
<1>5. QED
  BY <1>2, <1>3, <1>4 DEF SInv

\* A start adds one load to those there are.
LEMMA LoadsGrow ==
  ASSUME Typed, [Next]_vars
  PROVE  /\ loaded' \in Seq(Loads)
         /\ Now \in Nat /\ Now' \in Nat /\ Now <= Now'
         /\ \A n \in 1..Now : loaded'[n] = loaded[n]
<1>1. loaded \in Seq(Loads) /\ Now \in Nat
  BY DEF Typed, Now
<1>2. CASE UNCHANGED loaded
  BY <1>1, <1>2 DEF Now
<1>3. ASSUME LoadFiles, ~UNCHANGED loaded
      PROVE  \E l \in Loads : loaded' = Append(loaded, l)
  <2>1. files.policies \in Policies /\ files.signals \in SignalFiles
    BY DEF Typed
  <2>2. loaded' = Append(loaded, [profiles |-> LoadProfiles(files.policies),
                                  signals |-> files.signals.entries])
    BY <1>3 DEF LoadFiles
  <2>3. QED
    BY <2>1, <2>2 DEF Loads
<1>4. CASE LoadFiles /\ ~UNCHANGED loaded
  <2>1. PICK l \in Loads : loaded' = Append(loaded, l)
    BY <1>3, <1>4
  <2>2. QED
    BY <1>1, <2>1 DEF Now
<1>5. UNCHANGED loaded \/ LoadFiles
  BY DEF Next, vars, engine, Edit, Disable, Lifespan, Start, Bootstrap, Crash, Authorise, Forbid, Judge,
         NotJudged, Answer, NotSent, Send, ReadStatus, ReadBody, GiveUp, GivenUp, Resolve, Check,
         FetchCatalogue, ExplainDecision
<1>6. QED
  BY <1>2, <1>4, <1>5

\* An API that comes up has loaded something.
LEMMA LoadFilesLoads == ASSUME Typed, LoadFiles, apc' = "up" PROVE Now' > 0
<1>1. loaded \in Seq(Loads) /\ Starts(files)
  BY DEF Typed, LoadFiles
<1>2. Now' = Now + 1 /\ Now \in Nat
  BY <1>1 DEF LoadFiles, Now
<1>3. QED
  BY <1>2

\* Only the files, the start and the client itself change what is typed here.
LEMMA NextTyped == Typed /\ KeyInv /\ [Next]_vars => Typed'
<1> SUFFICES ASSUME Typed, KeyInv, [Next]_vars PROVE Typed'
  OBVIOUS
<1>1. loaded' \in Seq(Loads) /\ Now \in Nat
  BY LoadsGrow
<1> USE DEF Typed
<1>2. CASE Edit           BY <1>1, <1>2 DEF Edit, node
<1>3. CASE Lifespan \/ Crash
  BY <1>1, <1>3 DEF Lifespan, Start, Bootstrap, LoadFiles, Crash, operator, node
<1>4. CASE Send
  <2>1. PICK p \in ProfileName :
           call' = [pc |-> "waiting", profile |-> p, revoked |-> revoked, since |-> Now]
    BY <1>4 DEF Send
  <2>2. call' \in [pc : {"ended", "waiting", "reading"}, profile : ProfileName \cup {"default"},
                  revoked : BOOLEAN, since : Nat]
    BY <1>1, <2>1 DEF KeyInv
  <2>3. request' \in {"none", "arrived"} /\ UNCHANGED <<files, apc>>
    BY <1>4 DEF Send, engine, operator
  <2>4. QED
    BY <1>1, <2>2, <2>3
<1>5. ASSUME NEW r, Resolve(r) PROVE Typed'
  BY <1>1, <1>5 DEF Resolve, NoCall, engine, operator
<1>6. ASSUME NEW r, Answer(r) PROVE Typed'
  BY <1>1, <1>6 DEF Answer, engine, operator
<1>7. CASE ReadStatus
  BY <1>1, <1>5, <1>7 DEF ReadStatus, GivenUp, engine, operator
<1>8. CASE Authorise      BY <1>1, <1>8 DEF Authorise, engine, operator
<1>9. CASE Disable \/ Check \/ FetchCatalogue \/ ExplainDecision \/ UNCHANGED vars
  BY <1>1, <1>9 DEF Disable, Check, FetchCatalogue, ExplainDecision, vars, engine, operator, node
<1>10. QED
  BY <1>2, <1>3, <1>4, <1>5, <1>6, <1>7, <1>8, <1>9
     DEF Next, Forbid, Judge, NotJudged, NotSent, ReadBody, GiveUp, GivenUp

\* Requests end with the API or the call.
LEMMA NextCallInv == Typed /\ CallInv /\ [Next]_vars => CallInv'
<1> SUFFICES ASSUME Typed, CallInv, [Next]_vars PROVE CallInv'
  OBVIOUS
<1>1. Now \in Nat /\ Now' \in Nat /\ Now <= Now' /\ call.since \in Nat
  BY LoadsGrow DEF Typed
<1> USE DEF CallInv
<1>2. CASE Edit           BY <1>1, <1>2 DEF Edit, node
<1>3. CASE Start \/ Bootstrap
  BY <1>1, <1>3 DEF Start, Bootstrap, node
<1>4. CASE LoadFiles
  <2>1. apc = "files" /\ request = "none" /\ UNCHANGED node
    BY <1>4 DEF LoadFiles
  <2>2. apc' = "up" => Now' > 0
    BY <1>1, <1>4, LoadFilesLoads
  <2>3. QED
    BY <1>1, <2>1, <2>2 DEF node
<1>5. CASE Crash          BY <1>1, <1>5 DEF Crash
<1>6. CASE Send           BY <1>1, <1>6 DEF Send, engine, Now
<1>7. ASSUME NEW r, Resolve(r) PROVE CallInv'
  BY <1>1, <1>7 DEF Resolve, NoCall, engine, Now
<1>8. ASSUME NEW r, Answer(r), request # "none" PROVE CallInv'
  BY <1>1, <1>8 DEF Answer, engine, Now
<1>9. CASE ReadStatus
  BY <1>1, <1>7, <1>9 DEF ReadStatus, GivenUp, engine, Now, Typed
<1>10. CASE Authorise     BY <1>1, <1>10 DEF Authorise, engine, Now
<1>11. CASE Disable \/ Check \/ FetchCatalogue \/ ExplainDecision \/ UNCHANGED vars
  BY <1>1, <1>11 DEF Disable, Check, FetchCatalogue, ExplainDecision, vars, engine, node, Now
<1>12. QED
  BY <1>2, <1>3, <1>4, <1>5, <1>6, <1>7, <1>8, <1>9, <1>10, <1>11
     DEF Next, Lifespan, Forbid, Judge, NotJudged, NotSent, ReadBody, GiveUp, GivenUp

\* Nothing enables the key again, and nothing is let in by a disabled one.
LEMMA NextKeyInv == Typed /\ CallInv /\ KeyInv /\ [Next]_vars => KeyInv'
<1> SUFFICES ASSUME Typed, CallInv, KeyInv, [Next]_vars PROVE KeyInv'
  OBVIOUS
<1> USE DEF KeyInv
<1>1. CASE Edit           BY <1>1 DEF Edit, keys, node
<1>2. CASE Disable        BY <1>2 DEF Disable, node
<1>3. CASE Start \/ LoadFiles
  BY <1>3 DEF Start, LoadFiles, keys, node
<1>4. CASE Bootstrap      BY <1>4 DEF Bootstrap, Upsert, node
<1>5. CASE Crash          BY <1>5 DEF Crash, keys
<1>6. CASE Send
  <2>1. call'.revoked = revoked /\ request' # "authorised" /\ reply' = NoReply
    BY <1>6 DEF Send, CallInv
  <2>2. QED
    BY <1>6, <2>1 DEF Send, engine, keys, NoReply
<1>7. ASSUME NEW r, Resolve(r) PROVE KeyInv'
  BY <1>7 DEF Resolve, NoCall, NoReply, engine, keys
<1>8. ASSUME NEW r, Answer(r), call.revoked => r.decision = "none" PROVE KeyInv'
  BY <1>8 DEF Answer, engine, keys
<1>9. CASE Authorise      BY <1>9 DEF Authorise, engine, keys
<1>10. CASE Judge
  <2>1. ~call.revoked
    BY <1>10 DEF Judge
  <2>2. QED
    BY <1>8, <1>10, <2>1 DEF Judge
<1>11. CASE Forbid \/ NotJudged
  BY <1>8, <1>11 DEF Forbid, NotJudged, Failure, NoAnswer, NoReply
<1>12. CASE ReadStatus
  BY <1>7, <1>12 DEF ReadStatus, GivenUp, engine, keys, Typed
<1>13. CASE Check \/ FetchCatalogue \/ ExplainDecision \/ UNCHANGED vars
  BY <1>13 DEF Check, FetchCatalogue, ExplainDecision, vars, engine, keys, node
<1>14. QED
  BY <1>1, <1>2, <1>3, <1>4, <1>5, <1>6, <1>7, <1>9, <1>10, <1>11, <1>12, <1>13
     DEF Next, Lifespan, NotSent, ReadBody, GiveUp, GivenUp

\* What a load has said stays true, and a new answer is of the last load.
LEMMA NextReplyInv == SInv /\ [Next]_vars => ReplyInv'
<1> SUFFICES ASSUME SInv, [Next]_vars PROVE ReplyInv'
  OBVIOUS
<1>1. /\ Now \in Nat /\ Now' \in Nat /\ Now <= Now' /\ call.since \in Nat
      /\ \A n \in 1..Now : loaded'[n] = loaded[n]
  BY LoadsGrow DEF SInv, Typed
<1>2. ASSUME UNCHANGED reply,
             call'.profile = call.profile, call'.since = call.since
      PROVE  ReplyInv'
  <2> SUFFICES ASSUME reply.decision # "none" PROVE \E n \in Nat : From(reply, n)'
    BY <1>2 DEF ReplyInv
  <2>1. PICK n \in Nat : From(reply, n)
    BY DEF SInv, ReplyInv
  <2>2. n \in 1..Now /\ n \in call.since..Now'
    BY <1>1, <2>1 DEF From
  <2>3. loaded'[n] = loaded[n]
    BY <1>1, <2>2
  <2>4. From(reply, n)'
    BY <1>2, <2>1, <2>2, <2>3 DEF From
  <2>5. QED
    BY <2>4
<1>3. ASSUME reply'.decision = "none" PROVE ReplyInv'
  BY <1>3 DEF ReplyInv
<1>4. CASE UNCHANGED <<call, reply>>
  BY <1>2, <1>4
<1>5. CASE Send
  BY <1>3, <1>5 DEF Send, SInv, CallInv, NoReply
<1>6. ASSUME NEW r, Resolve(r) PROVE ReplyInv'
  BY <1>3, <1>6 DEF Resolve, NoReply
<1>7. CASE Judge
  <2>1. UNCHANGED <<call, loaded>> /\ Now' = Now
    BY <1>7 DEF Judge, Answer, engine, Now
  <2>2. CASE call.profile \in DOMAIN loaded[Now].profiles
    <3>1. reply' = Judged(call.profile)
      BY <1>7, <2>2 DEF Judge, Answer
    <3>2. Now > 0 /\ call.since <= Now
      BY <1>7 DEF Judge, SInv, CallInv
    <3>3. From(reply, Now)'
      BY <1>1, <2>1, <2>2, <3>1, <3>2 DEF From, Judged
    <3>4. QED
      BY <1>1, <2>1, <3>3 DEF ReplyInv
  <2>3. CASE call.profile \notin DOMAIN loaded[Now].profiles
    BY <1>3, <1>7, <2>3 DEF Judge, Answer, Failure, NoReply
  <2>4. QED
    BY <2>2, <2>3
<1>8. CASE Forbid \/ NotJudged
  BY <1>3, <1>8 DEF Forbid, NotJudged, Answer, Failure, NoAnswer, NoReply
<1>9. CASE ReadStatus
  <2>1. CASE reply.status = 200
    BY <1>2, <1>9, <2>1 DEF ReadStatus, SInv, Typed
  <2>2. CASE reply.status # 200
    BY <1>6, <1>9, <2>2 DEF ReadStatus, GivenUp
  <2>3. QED
    BY <2>1, <2>2
<1>10. QED
  BY <1>4, <1>5, <1>6, <1>7, <1>8, <1>9
     DEF Next, vars, engine, node, Edit, Disable, Lifespan, Start, Bootstrap, LoadFiles, Crash,
         Authorise, NotSent, ReadBody, GiveUp, GivenUp, Check, FetchCatalogue, ExplainDecision

\* Every step keeps all of it.
LEMMA NextSInv == SInv /\ [Next]_vars => SInv'
  BY NextTyped, NextCallInv, NextKeyInv, NextReplyInv DEF SInv

\* Where the responses come from, for any files, keys and number of crashes.
THEOREM ServiceInvariance == Spec => []SInv
  BY InitSInv, NextSInv, PTL DEF Spec

-----------------------------------------------------------------------------

\* How a call ends: with the decision of its response, or as given up.
LEMMA Endings ==
  ASSUME Next, call.pc # "ended", call'.pc = "ended", SInv
  PROVE  \/ GivenUp
         \/ /\ reply.decision # "none"
            /\ Resolve([checked |-> TRUE, decision |-> reply.decision, profile |-> reply.profile])
<1>1. CASE UNCHANGED call
  BY <1>1
<1>2. CASE ReadStatus     BY <1>2 DEF ReadStatus, SInv, Typed
<1>3. CASE ReadBody       BY <1>3 DEF ReadBody
<1>4. CASE GiveUp         BY <1>4 DEF GiveUp
<1>5. CASE NotSent \/ Send
  BY <1>5 DEF NotSent, Send
<1>6. QED
  BY <1>1, <1>2, <1>3, <1>4, <1>5
     DEF Next, engine, node, Edit, Disable, Lifespan, Start, Bootstrap, LoadFiles, Crash, Authorise,
         Forbid, Judge, NotJudged, Answer, Check, FetchCatalogue, ExplainDecision

\* A call that was made after the key was disabled is never checked.
THEOREM RevokedKeysAreRefused == Spec => RevokedKeyRefused
<1> DEFINE Refused == call.pc # "ended" /\ call'.pc = "ended" /\ call.revoked => ~result'.checked
<1>1. SInv /\ [Next]_vars => [Refused]_vars
  <2> SUFFICES ASSUME SInv, Next, call.pc # "ended", call'.pc = "ended", call.revoked
               PROVE  ~result'.checked
    OBVIOUS
  <2>1. reply.decision = "none"
    BY DEF SInv, KeyInv
  <2>2. GivenUp
    BY <2>1, Endings
  <2>3. QED
    BY <2>2 DEF GivenUp, Resolve, Unchecked, Rejected
<1>2. QED
  BY ServiceInvariance, <1>1, PTL DEF Spec, RevokedKeyRefused

\* A call that says it was checked tells what a load since it was made says of the
\* subject under its profile; any other is "allow" or rejected.
THEOREM ChecksAreTrue == Spec => CheckedIsTrue
<1> DEFINE True ==
      call.pc # "ended" /\ call'.pc = "ended" =>
          \/ ~result'.checked /\ result' \in {Unchecked(call.profile), Rejected}
          \/ /\ result'.checked
             /\ result'.profile = call.profile
             /\ \E n \in call.since..Now :
                   /\ n > 0
                   /\ call.profile \in DOMAIN loaded[n].profiles
                   /\ result'.decision = Decision(SubjectScore, loaded[n].profiles[call.profile])
<1>1. SInv /\ [Next]_vars => [True]_vars
  <2> SUFFICES ASSUME SInv, Next, call.pc # "ended", call'.pc = "ended" PROVE True
    OBVIOUS
  <2>1. CASE GivenUp
    BY <2>1 DEF GivenUp, Resolve, Unchecked, Rejected
  <2>2. CASE /\ reply.decision # "none"
             /\ Resolve([checked |-> TRUE, decision |-> reply.decision, profile |-> reply.profile])
    <3>1. PICK n \in Nat : From(reply, n)
      BY <2>2 DEF SInv, ReplyInv
    <3>2. result'.checked = TRUE /\ result'.decision = reply.decision /\ result'.profile = reply.profile
      BY <2>2 DEF Resolve
    <3>3. QED
      BY <3>1, <3>2 DEF From
  <2>3. QED
    BY <2>1, <2>2, Endings
<1>2. QED
  BY ServiceInvariance, <1>1, PTL DEF Spec, CheckedIsTrue

-----------------------------------------------------------------------------

\* What the MCP server has kept, is asked about and has told is of loads there were.
McpInv ==
    /\ kept \in 0..Now
    /\ seen # NotSeen => seen.at \in 1..Now
    /\ told # NotTold =>
         /\ kept # 0 /\ told.of.at \in 1..Now /\ told.by \in 1..Now
         /\ told.meaning = Explain(loaded[kept].signals, SubjectSignal)
         /\ told.verdict # "none" =>
              told.verdict = Verdict(SubjectScore, loaded[told.by].profiles[told.of.profile])

\* The words of the explanation follow the thresholds as the decision does.
LEMMA VerdictIsDecision == \A score, p : Verdict(score, p) = Decision(score, p)
  BY DEF Verdict, Decision

\* Loads are added, and a kept catalogue stays.
LEMMA NextMcpInv == SInv /\ McpInv /\ [Next]_vars => McpInv'
<1> SUFFICES ASSUME SInv, McpInv, [Next]_vars PROVE McpInv'
  OBVIOUS
<1>1. /\ Now \in Nat /\ Now' \in Nat /\ Now <= Now'
      /\ \A n \in 1..Now : loaded'[n] = loaded[n]
  BY LoadsGrow DEF SInv, Typed
<1>2. CASE UNCHANGED mcp
  <2>1. kept \in 0..Now' /\ (kept # 0 => kept \in 1..Now)
    BY <1>1 DEF McpInv
  <2>2. QED
    BY <1>1, <1>2, <2>1 DEF McpInv, mcp
<1>3. ASSUME UNCHANGED loaded, Check \/ FetchCatalogue \/ ExplainDecision PROVE Now' = Now
  BY <1>3 DEF Now
<1>4. CASE Check
  <2>1. Now > 0
    BY <1>4 DEF Check, Served, SInv, CallInv
  <2>2. UNCHANGED <<loaded, kept>> /\ told' = NotTold /\ seen'.at = Now
    BY <1>4 DEF Check, engine
  <2>3. QED
    BY <1>1, <1>3, <1>4, <2>1, <2>2 DEF McpInv
<1>5. CASE FetchCatalogue
  <2>1. Now > 0
    BY <1>5 DEF FetchCatalogue, Served, SInv, CallInv
  <2>2. UNCHANGED <<loaded, seen, told>> /\ kept = 0 /\ kept' = Now
    BY <1>5 DEF FetchCatalogue, engine
  <2>3. QED
    BY <1>1, <1>3, <1>5, <2>1, <2>2 DEF McpInv
<1>6. CASE ExplainDecision
  <2>1. UNCHANGED <<loaded, kept>> /\ seen' = NotSeen /\ kept \in 1..Now /\ seen.at \in 1..Now
    BY <1>1, <1>6 DEF ExplainDecision, engine, McpInv
  <2>2. /\ told'.of = seen /\ told'.by = Now
        /\ told'.meaning = Explain(loaded[kept].signals, SubjectSignal)
        /\ told'.verdict # "none" =>
             told'.verdict = Verdict(SubjectScore, loaded[Now].profiles[seen.profile])
    BY <1>6 DEF ExplainDecision, ListSignals, ListProfiles
  <2>3. QED
    BY <1>1, <1>3, <1>6, <2>1, <2>2 DEF McpInv
<1>7. QED
  BY <1>2, <1>4, <1>5, <1>6
     DEF Next, vars, engine, node, Edit, Disable, Lifespan, Start, Bootstrap, LoadFiles, Crash,
         Authorise, Forbid, Judge, NotJudged, Answer, NotSent, Send, ReadStatus, ReadBody, GiveUp,
         GivenUp, Resolve

\* A check is explained by what the API that made it goes by, if its signal has an id
\* without blanks around it: for any files, profiles, catalogues and number of restarts.
THEOREM ExplanationsFit ==
  ASSUME SubjectSignal # <<>>, Strip(SubjectSignal) = SubjectSignal
  PROVE  Spec => []ExplainedAsDecided
<1>1. Init => McpInv
  <2>1. Init => Now = 0
    BY DEF Init, Now
  <2>2. QED
    BY <2>1 DEF Init, McpInv
<1>2. SInv /\ McpInv => ExplainedAsDecided
  <2> SUFFICES ASSUME McpInv, told # NotTold
               PROVE  /\ ListSignals(kept) = ListSignals(told.of.at)
                            => told.meaning = DescribeSignal(told.of.at, SubjectSignal)
                      /\ told.verdict # "none" /\ ListProfiles(told.by) = ListProfiles(told.of.at)
                            => told.verdict = Decision(SubjectScore,
                                                       ListProfiles(told.of.at)[told.of.profile])
    BY DEF ExplainedAsDecided
  <2>1. told.meaning = Explain(loaded[kept].signals, SubjectSignal)
    BY DEF McpInv
  <2>2. \A n : DescribeSignal(n, SubjectSignal) = Explain(loaded[n].signals, SubjectSignal)
    BY DEF DescribeSignal, Lookup
  <2>3. ASSUME ListSignals(kept) = ListSignals(told.of.at)
        PROVE  told.meaning = DescribeSignal(told.of.at, SubjectSignal)
    <3>1. loaded[kept].signals = loaded[told.of.at].signals
      BY <2>3 DEF ListSignals
    <3>2. QED
      BY <2>1, <2>2, <3>1
  <2>4. ASSUME told.verdict # "none", ListProfiles(told.by) = ListProfiles(told.of.at)
        PROVE  told.verdict = Decision(SubjectScore, ListProfiles(told.of.at)[told.of.profile])
    <3>1. told.verdict = Decision(SubjectScore, loaded[told.by].profiles[told.of.profile])
      BY <2>4, VerdictIsDecision DEF McpInv
    <3>2. loaded[told.by].profiles = loaded[told.of.at].profiles
      BY <2>4 DEF ListProfiles
    <3>3. QED
      BY <3>1, <3>2 DEF ListProfiles
  <2>5. QED
    BY <2>3, <2>4
<1>3. QED
  BY ServiceInvariance, NextMcpInv, <1>1, <1>2, PTL DEF Spec

-----------------------------------------------------------------------------
(* The catalogue *)

\* f[k] is the best pattern of the first k entries.
Improves(f, c, sid) ==
    /\ f[0] = 0
    /\ \A k \in 1..Len(c) :
          f[k] = IF Covers(c[k], sid) /\ Longer(c, k, f[k - 1]) THEN k ELSE f[k - 1]

LEMMA BestPatternRecursion ==
  ASSUME NEW c \in Seq(Entry), NEW sid
  PROVE  \E f : Improves(f, c, sid) /\ BestPattern(c, sid) = f[Len(c)]
<1>1. PICK n \in Nat : n = Len(c)
  OBVIOUS
<1> DEFINE better(k, x) == IF Covers(c[k], sid) /\ Longer(c, k, x) THEN k ELSE x
           next == [k \in 1..n |-> [x \in Nat |-> better(k, x)]]
           Is(f) == f = [k \in 0..n |-> IF k = 0 THEN 0
                                        ELSE IF Covers(c[k], sid) /\ Longer(c, k, f[k - 1]) THEN k
                                        ELSE f[k - 1]]
           h == CHOOSE f : Is(f)
<1>2. next \in [1..n -> [Nat -> Nat]]
  OBVIOUS
<1>3. PICK f \in [0..n -> Nat] : Follows(f, 0, n, next)
  <2> HIDE DEF next
  <2>1. \A v \in Nat : \E f \in [0..n -> Nat] : Follows(f, v, n, next)
    BY <1>2, Recursion
  <2>2. QED
    BY <2>1
<1>4. \A k \in 1..n : f[k] = better(k, f[k - 1])
  <2>1. ASSUME NEW k \in 1..n PROVE f[k] = better(k, f[k - 1])
    <3>1. f[k - 1] \in Nat /\ f[k] = next[k][f[k - 1]]
      BY <1>3, Indices DEF Follows
    <3>2. next[k] = [x \in Nat |-> better(k, x)]
      OBVIOUS
    <3> HIDE DEF next, better
    <3>3. QED
      BY <3>1, <3>2
  <2>2. QED
    BY <2>1
<1>5. Is(f)
  <2>1. f[0] = 0
    BY <1>3 DEF Follows
  <2>2. QED
    BY <1>4, <2>1, Indices
<1>6. Is(h)
  <2> HIDE DEF Is
  <2>1. QED
    BY <1>5
<1>7. BestPattern(c, sid) = h[n]
  BY <1>1 DEF BestPattern
<1> HIDE DEF h
<1>8. Improves(h, c, sid)
  BY <1>1, <1>6, Indices DEF Improves
<1>9. QED
  BY <1>1, <1>7, <1>8

\* Of the first n entries, k is the first of those with the longest prefix of the id;
\* 0 if none has one.
IsBest(k, n, c, sid) ==
    \/ k = 0 /\ \A j \in 1..n : ~Covers(c[j], sid)
    \/ /\ k \in 1..n /\ Covers(c[k], sid)
       /\ \A j \in 1..n : Covers(c[j], sid) =>
             /\ Len(c[j].prefix) <= Len(c[k].prefix)
             /\ j < k => Len(c[j].prefix) < Len(c[k].prefix)

LEMMA BestPatternIsBest ==
  ASSUME NEW c \in Seq(Entry), NEW sid
  PROVE  IsBest(BestPattern(c, sid), Len(c), c, sid)
<1>1. PICK n \in Nat : n = Len(c)
  OBVIOUS
<1>2. \A k \in 1..n : c[k] \in Entry
  BY <1>1
<1>3. \A k \in 1..n : Len(c[k].prefix) \in Nat
  BY <1>2 DEF Entry
<1>4. PICK f : Improves(f, c, sid) /\ BestPattern(c, sid) = f[n]
  BY <1>1, BestPatternRecursion
<1> DEFINE T == {k \in 0..n : IsBest(f[k], k, c, sid)}
<1>5. 0 \in T
  BY <1>4 DEF Improves, IsBest
<1>6. ASSUME NEW k \in 0..(n - 1), k \in T PROVE k + 1 \in T
  <2>1. k + 1 \in 1..n /\ k + 1 \in 0..n /\ (k + 1) - 1 = k /\ IsBest(f[k], k, c, sid)
    BY <1>6
  <2>2. f[k + 1] = IF Covers(c[k + 1], sid) /\ Longer(c, k + 1, f[k]) THEN k + 1 ELSE f[k]
    BY <1>1, <1>4, <2>1 DEF Improves
  <2>3. \A j \in 1..(k + 1) : j = k + 1 \/ j \in 1..k
    OBVIOUS
  <2>4. IsBest(f[k + 1], k + 1, c, sid)
    <3>1. CASE ~Covers(c[k + 1], sid)
      BY <2>1, <2>2, <2>3, <3>1 DEF IsBest
    <3>2. CASE Covers(c[k + 1], sid) /\ f[k] = 0
      BY <1>3, <2>1, <2>2, <2>3, <3>2 DEF IsBest, Longer
    <3>3. CASE Covers(c[k + 1], sid) /\ f[k] # 0
      <4>1. f[k] \in 1..k /\ f[k] \in 1..n
        BY <2>1, <3>3 DEF IsBest
      <4>2. CASE Len(c[k + 1].prefix) > Len(c[f[k]].prefix)
        <5>1. f[k + 1] = k + 1
          BY <2>2, <3>3, <4>2 DEF Longer
        <5>2. \A j \in 1..k : Covers(c[j], sid) => Len(c[j].prefix) <= Len(c[f[k]].prefix)
          BY <2>1, <3>3 DEF IsBest
        <5>3. \A j \in 1..k : j \in 1..n
          BY <2>1
        <5>4. \A j \in 1..k : Covers(c[j], sid) => Len(c[j].prefix) < Len(c[k + 1].prefix)
          <6> DEFINE len(j) == Len(c[j].prefix)
          <6>1. len(k + 1) \in Nat /\ len(f[k]) \in Nat /\ \A j \in 1..k : len(j) \in Nat
            BY <1>3, <2>1, <4>1, <5>3
          <6>2. len(k + 1) > len(f[k]) /\ \A j \in 1..k : Covers(c[j], sid) => len(j) <= len(f[k])
            BY <4>2, <5>2
          <6> HIDE DEF len
          <6>3. \A j \in 1..k : Covers(c[j], sid) => len(j) < len(k + 1)
            BY <6>1, <6>2
          <6>4. QED
            BY <6>3 DEF len
        <5>5. Len(c[k + 1].prefix) <= Len(c[k + 1].prefix) /\ ~(k + 1 < k + 1)
          BY <1>3, <2>1
        <5>6. \A j \in 1..(k + 1) : Covers(c[j], sid) =>
                 /\ Len(c[j].prefix) <= Len(c[k + 1].prefix)
                 /\ j < k + 1 => Len(c[j].prefix) < Len(c[k + 1].prefix)
          BY <1>3, <2>1, <2>3, <5>3, <5>4, <5>5
        <5>7. k + 1 \in 1..(k + 1)
          BY <2>1
        <5>8. QED
          BY <3>3, <5>1, <5>6, <5>7 DEF IsBest
      <4>3. CASE ~(Len(c[k + 1].prefix) > Len(c[f[k]].prefix))
        BY <1>3, <2>1, <2>2, <2>3, <3>3, <4>1, <4>3 DEF IsBest, Longer
      <4>4. QED
        BY <4>2, <4>3
    <3>4. QED
      BY <3>1, <3>2, <3>3
  <2>5. QED
    BY <2>1, <2>4
<1> HIDE DEF T
<1>7. \A k \in 0..n : k \in T
  BY <1>5, <1>6, SetInduction
<1>8. n \in T
  BY <1>7
<1>9. QED
  BY <1>1, <1>4, <1>8 DEF T

\* The least element of a set of numbers.
LEMMA MinIsLeast ==
  ASSUME NEW S \in SUBSET Nat, NEW x \in S, \A y \in S : x <= y
  PROVE  Min(S) = x
<1>1. Min(S) \in S /\ \A y \in S : Min(S) <= y
  BY DEF Min
<1>2. Min(S) \in Nat /\ x \in Nat /\ Min(S) <= x /\ x <= Min(S)
  BY <1>1
<1>3. QED
  BY <1>2

\* An id that is looked up without blanks is none, or looked up as it is.
LEMMA LookupIsExplain ==
  ASSUME NEW c \in Seq(Entry), NEW sid \in Seq(Letter), Strip(sid) = sid
  PROVE  Lookup(c, sid) = Explain(c, sid)
<1>1. CASE sid = <<>>
  <2>1. \A k \in DOMAIN c : ~HasId(c[k], sid)
    BY <1>1 DEF HasId
  <2>2. ASSUME NEW k \in DOMAIN c PROVE ~Covers(c[k], sid)
    <3>1. c[k].prefix \in Seq(Letter)
      <4>1. c[k] \in Entry
        OBVIOUS
      <4>2. QED
        BY <4>1 DEF Entry
    <3>2. Len(c[k].prefix) <= Len(sid) => c[k].prefix = <<>>
      BY <1>1, <3>1
    <3>3. QED
      BY <3>2 DEF Covers, IsPrefix
  <2>3. IsBest(BestPattern(c, sid), Len(c), c, sid)
    BY BestPatternIsBest
  <2>4. BestPattern(c, sid) = 0
    BY <2>2, <2>3 DEF IsBest
  <2>5. Explain(c, sid) = 0
    BY <2>1, <2>4 DEF Explain
  <2>6. QED
    BY <1>1, <2>5 DEF Lookup
<1>2. CASE sid # <<>>
  BY <1>2 DEF Lookup
<1>3. QED
  BY <1>1, <1>2

\* The loops over any catalogue find the entry that says most about any id, the first of
\* several; the engine and the client find the same one (signals.py, lines 34-58;
\* client.py, lines 184-200).
LEMMA LoopsAreRight == LoopsFindBest
<1> SUFFICES ASSUME NEW c \in Catalogues, NEW sid \in SignalId
             PROVE  LET about == {k \in DOMAIN c : HasId(c[k], sid) \/ Covers(c[k], sid)}
                        best  == {k \in about : \A j \in about : ~SaysMore(c, j, k, sid)}
                    IN  /\ Explain(c, sid) = IF about = {} THEN 0 ELSE Min(best)
                        /\ Strip(sid) = sid => Lookup(c, sid) = Explain(c, sid)
  BY DEF LoopsFindBest
<1> DEFINE about == {k \in DOMAIN c : HasId(c[k], sid) \/ Covers(c[k], sid)}
           best  == {k \in about : \A j \in about : ~SaysMore(c, j, k, sid)}
           exact == {k \in DOMAIN c : HasId(c[k], sid)}
<1>1. c \in Seq(Entry) /\ sid \in Seq(Letter)
  BY CatalogueAssumption
<1>2. DOMAIN c = 1..Len(c) /\ Len(c) \in Nat /\ \A k \in DOMAIN c : Len(c[k].prefix) \in Nat
  <2>1. \A k \in DOMAIN c : c[k] \in Entry
    BY <1>1
  <2>2. QED
    BY <1>1, <2>1 DEF Entry
<1>3. Explain(c, sid) = IF about = {} THEN 0 ELSE Min(best)
  <2>1. CASE exact # {}
    <3>1. best = exact
      BY <2>1 DEF SaysMore
    <3>2. QED
      BY <2>1, <3>1 DEF Explain
  <2>2. CASE exact = {}
    <3>1. PICK b : b = BestPattern(c, sid)
      OBVIOUS
    <3>2. IsBest(b, Len(c), c, sid) /\ Explain(c, sid) = b
      BY <1>1, <2>2, <3>1, BestPatternIsBest DEF Explain
    <3>3. \A k \in DOMAIN c : k \in about <=> Covers(c[k], sid)
      BY <2>2
    <3>4. CASE b = 0
      BY <1>2, <3>2, <3>3, <3>4 DEF IsBest
    <3>5. CASE b # 0
      <4>1. /\ b \in about
            /\ \A j \in about : /\ Len(c[j].prefix) <= Len(c[b].prefix)
                                /\ j < b => Len(c[j].prefix) < Len(c[b].prefix)
        BY <1>2, <3>2, <3>3, <3>5 DEF IsBest
      <4>2. \A j, k \in about : SaysMore(c, j, k, sid) <=> Len(c[j].prefix) > Len(c[k].prefix)
        BY <2>2, <3>3 DEF SaysMore
      <4>3. best \in SUBSET Nat /\ about \in SUBSET DOMAIN c
        BY <1>2
      <4>4. b \in best
        BY <1>2, <4>1, <4>2, <4>3
      <4>5. \A y \in best : b <= y
        <5>1. ASSUME NEW y \in best, y < b PROVE FALSE
          <6>1. SaysMore(c, b, y, sid)
            BY <4>1, <4>2, <5>1
          <6>2. QED
            BY <4>1, <6>1
        <5>2. QED
          BY <4>3, <4>4, <5>1
      <4> HIDE DEF best
      <4>6. Min(best) = b
        BY <4>3, <4>4, <4>5, MinIsLeast
      <4>7. QED
        BY <3>2, <4>1, <4>6
    <3>6. QED
      BY <3>4, <3>5
  <2>3. QED
    BY <2>1, <2>2
<1>4. Strip(sid) = sid => Lookup(c, sid) = Explain(c, sid)
  BY <1>1, LookupIsExplain
<1>5. QED
  BY <1>3, <1>4

\* For every catalogue and id that may be there, at any time (signals.py, lines 34-58;
\* client.py, lines 184-200).
THEOREM MostSpecificIsFound == Spec => []MostSpecific
<1>1. MostSpecific
  BY LoopsAreRight DEF MostSpecific
<1>2. QED
  BY <1>1, PTL
=============================================================================
