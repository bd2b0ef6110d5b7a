----------------------------- MODULE KadRpc_proofs -----------------------------
(***************************************************************************)
(* Proofs about KadRpc, for any finite set of requests to any peers, with  *)
(* any number of datagrams and pauses.                                     *)
(*                                                                         *)
(* The steps are first reduced to what they do to the request map, the     *)
(* futures, the answers and the counters; the statements are then shown    *)
(* for those.  That an answer is used once rests on the datagram between   *)
(* its admission and its consumption: it is owed to the subscribers        *)
(* exactly when it found no entry.                                         *)
(***************************************************************************)
EXTENDS KadRpc, FiniteSetTheorems, SequenceTheorems, WellFoundedInduction, TLAPS

Entries == Range(pending)

MapTypes ==
  /\ pending \in Seq(Requests) /\ IsInjective(pending)
  /\ call = [r \in Requests |-> call[r]]
  /\ outcome = [r \in Requests |-> outcome[r]]
  /\ answer = [r \in Requests |-> answer[r]]
  /\ accepted \in Nat /\ broadcast \in Nat /\ stops \in Nat

\* What a datagram under way is, and what it was matched with.
FitsDatagram(r) ==
  /\ r \in Requests
  /\ Peer[r].ip = Peer[loop.of].ip
  /\ Expected(Op[r]) = Expected(Op[loop.of])

LoopTypes ==
  /\ loop = [at |-> loop.at, of |-> loop.of, from |-> loop.from, match |-> loop.match]
  /\ loop.at # "idle" => loop.of \in Requests /\ loop.from.ip = Peer[loop.of].ip
  /\ loop.at \in {"matched", "admitted"} => loop.match = Absent \/ FitsDatagram(loop.match)

Futures ==
  /\ \A r \in Requests : answer[r] # Absent => call[r] \in Live
  /\ stop # "running" => stops > 0
  /\ PendingExact

\* Requests completed by an answer, and the datagram the subscribers are still owed.
Completed == {r \in Requests : AnsweredBy(r)}
Owed == IF loop.at = "delivered" /\ loop.match = Absent THEN 1 ELSE 0

AnswersCounted == Cardinality(Completed) + broadcast + Owed <= accepted

RpcInv == MapTypes /\ LoopTypes /\ Futures /\ AnswerFits /\ AnswersCounted

-----------------------------------------------------------------------------
(* What a step may do to the futures, the map, the answers and the counts. *)

\* A future passes one of its awaits.
Advances(r) ==
  /\ \E at : /\ call' = [call EXCEPT ![r] = at]
             /\ \/ call[r] = "new" /\ at = "checked"
                \/ call[r] \in Live \ {"expired"} /\ at \in Live
  /\ UNCHANGED <<pending, outcome, answer, loop, accepted, broadcast, stop, stops>>

Inserts(r) ==
  /\ call[r] = "checked"
  /\ call' = [call EXCEPT ![r] = "inserted"]
  /\ pending' = Append(pending, r)
  /\ UNCHANGED <<outcome, answer, loop, accepted, broadcast, stop, stops>>

\* A future is over: only one that holds an answer was answered.
Ends(r) ==
  /\ \E result : End(r, result) /\ (result = "answered" => answer[r] # Absent)
  /\ UNCHANGED <<loop, accepted, broadcast, stop, stops>>

\* The receive loop goes on to another step without a delivery.
Examines ==
  /\ loop.at # "delivered" /\ loop'.at # "delivered" /\ LoopTypes'
  /\ UNCHANGED <<pending, call, outcome, answer, accepted, broadcast, stop, stops>>

\* The operator's steps.
Operates ==
  /\ \/ UNCHANGED <<pending, stop, stops>>
     \/ UNCHANGED pending /\ stops' = stops + 1
     \/ stop # "running" /\ stop' # "running" /\ pending' = <<>> /\ UNCHANGED stops
     \/ stop # "running" /\ UNCHANGED <<pending, stops>>
  /\ UNCHANGED <<call, outcome, answer, loop, accepted, broadcast>>

-----------------------------------------------------------------------------
(* Removing the entry of a request leaves exactly the others.              *)
LEMMA WithoutEntry ==
  ASSUME NEW seq \in Seq(Requests), IsInjective(seq), NEW r
  PROVE  /\ Without(seq, r) \in Seq(Requests) /\ IsInjective(Without(seq, r))
         /\ Range(Without(seq, r)) = Range(seq) \ {r}
  <1>1. CASE r \notin Range(seq)
    BY Zenon, <1>1 DEF Without
  <1>2. CASE r \in Range(seq)
    <2> DEFINE n == Len(seq)
               k == CHOOSE i \in DOMAIN seq : seq[i] = r
               t == RemoveAt(seq, k)
    <2>1. n \in Nat /\ DOMAIN seq = 1 .. n /\ k \in 1 .. n /\ seq[k] = r
      BY <1>2 DEF Range
    <2>2. Without(seq, r) = t
      BY Zenon, <1>2 DEF Without
    <2> HIDE DEF k
    <2>3. /\ SubSeq(seq, 1, k - 1) \in Seq(Requests)
          /\ Len(SubSeq(seq, 1, k - 1)) = k - 1
          /\ \A i \in 1 .. k - 1 : SubSeq(seq, 1, k - 1)[i] = seq[i]
      BY <2>1, SubSeqProperties
    <2>4. /\ SubSeq(seq, k + 1, n) \in Seq(Requests)
          /\ Len(SubSeq(seq, k + 1, n)) = n - k
          /\ \A i \in 1 .. n - k : SubSeq(seq, k + 1, n)[i] = seq[k + i]
      <3>1. k + 1 \in 1 .. n + 1 /\ n \in (k + 1) - 1 .. n
        BY <2>1
      <3>2. /\ SubSeq(seq, k + 1, n) \in Seq(Requests)
            /\ Len(SubSeq(seq, k + 1, n)) = IF k + 1 <= n THEN n - (k + 1) + 1 ELSE 0
            /\ \A i \in 1 .. n - (k + 1) + 1 : SubSeq(seq, k + 1, n)[i] = seq[(k + 1) + i - 1]
        BY SMTT(60), <3>1, SubSeqProperties
      <3> HIDE DEF n
      <3>3. n - (k + 1) + 1 = n - k /\ \A i \in 1 .. n - k : (k + 1) + i - 1 = k + i
        BY <2>1
      <3> QED
        BY <2>1, <3>2, <3>3
    <2>5. /\ t \in Seq(Requests) /\ Len(t) = n - 1
          /\ \A i \in 1 .. n - 1 : t[i] = IF i < k THEN seq[i] ELSE seq[i + 1]
      <3> DEFINE a == SubSeq(seq, 1, k - 1)
                 b == SubSeq(seq, k + 1, n)
      <3>1. t = a \o b
        BY Zenon DEF RemoveAt
      <3>2. /\ a \in Seq(Requests) /\ Len(a) = k - 1 /\ \A i \in 1 .. k - 1 : a[i] = seq[i]
            /\ b \in Seq(Requests) /\ Len(b) = n - k /\ \A i \in 1 .. n - k : b[i] = seq[k + i]
        BY Zenon, <2>3, <2>4
      <3> HIDE DEF a, b, t, n
      <3>3. t \in Seq(Requests) /\ Len(t) = n - 1
        <4>1. a \in Seq(Requests) /\ b \in Seq(Requests)
          BY Zenon, <3>2
        <4>2. t \in Seq(Requests) /\ Len(t) = Len(a) + Len(b)
          BY Zenon, <3>1, <4>1, ConcatProperties
        <4> QED
          BY <2>1, <3>2, <4>2
      <3>4. ASSUME NEW i \in 1 .. n - 1 PROVE t[i] = IF i < k THEN seq[i] ELSE seq[i + 1]
        <4>1. CASE i < k
          <5>1. i \in 1 .. Len(a)
            BY <2>1, <3>2, <4>1
          <5>2. t[i] = a[i]
            BY <3>1, <3>2, <5>1
          <5> QED
            BY SMTT(60), <2>1, <3>2, <4>1, <5>1, <5>2
        <4>2. CASE ~(i < k)
          <5>1. i - Len(a) \in 1 .. n - k /\ i - Len(a) = i - (k - 1) /\ i > Len(a)
                /\ k + (i - (k - 1)) = i + 1 /\ i \in 1 .. Len(a) + Len(b)
            BY <2>1, <3>2, <4>2
          <5>2. t[i] = b[i - Len(a)]
            BY SMTT(60), <3>1, <3>2, <5>1
          <5> QED
            BY <3>2, <4>2, <5>1, <5>2
        <4> QED
          BY Zenon, <4>1, <4>2
      <3> QED
        BY Zenon, <3>3, <3>4
    <2>6. \A i, j \in 1 .. n : seq[i] = seq[j] => i = j
      BY Zenon, <2>1 DEF IsInjective
    <2> HIDE DEF t, n
    <2>7. DOMAIN t = 1 .. n - 1
      BY <2>5
    <2>8. IsInjective(t)
      BY <2>1, <2>5, <2>6, <2>7 DEF IsInjective
    <2>9. ASSUME NEW i \in 1 .. n - 1 PROVE t[i] \in Range(seq) \ {r}
      <3>1. \E j \in 1 .. n : j # k /\ t[i] = seq[j]
        <4>1. i \in 1 .. n /\ i + 1 \in 1 .. n
          BY <2>1
        <4> QED
          BY <2>1, <2>5, <4>1
      <3> QED
        BY Zenon, <2>1, <2>6, <3>1 DEF Range
    <2>10. ASSUME NEW x \in Range(seq) \ {r} PROVE x \in Range(t)
      <3>1. PICK i \in 1 .. n : seq[i] = x /\ i # k
        BY Zenon, <2>1, <2>10 DEF Range
      <3>2. CASE i < k
        BY SMTT(60), <2>1, <2>5, <2>7, <3>1, <3>2 DEF Range
      <3>3. CASE i > k
        <4>1. i - 1 \in 1 .. n - 1 /\ ~(i - 1 < k) /\ (i - 1) + 1 = i
          BY <2>1, <3>1, <3>3
        <4>2. t[i - 1] = x
          BY Zenon, <2>5, <3>1, <4>1
        <4> QED
          BY Zenon, <2>7, <4>1, <4>2 DEF Range
      <3> QED
        BY <2>1, <3>1, <3>2, <3>3
    <2>11. Range(t) \subseteq Range(seq) \ {r}
      BY Zenon, <2>7, <2>9 DEF Range
    <2> QED
      BY Zenon, <2>2, <2>5, <2>8, <2>10, <2>11
  <1> QED
    BY Zenon, <1>1, <1>2

(* A set of numbers has a least one.                                       *)
LEMMA LeastNatural ==
  ASSUME NEW S, S \subseteq Nat, S # {}
  PROVE  \E i \in S : \A j \in S : i <= j
  <1>1. PICK i \in S : \A j \in S : ~(<<j, i>> \in OpToRel(<, Nat))
    BY Zenon, WFMin, NatLessThanWellFounded
  <1>2. \A j \in S : ~(j < i)
    BY Zenon, <1>1 DEF OpToRel
  <1> QED
    BY <1>2

(* The map Kad has once it is paused.                                      *)
LEMMA EmptyMap == <<>> \in Seq(Requests) /\ IsInjective(<<>>) /\ Range(<<>>) = {}
  <1>1. <<>> \in Seq(Requests) /\ DOMAIN <<>> = {}
    OBVIOUS
  <1> QED
    BY Zenon, <1>1 DEF IsInjective, Range

(* A new entry is added behind the others.                                 *)
LEMMA AppendEntry ==
  ASSUME NEW seq \in Seq(Requests), IsInjective(seq), NEW r \in Requests, r \notin Range(seq)
  PROVE  /\ Append(seq, r) \in Seq(Requests) /\ IsInjective(Append(seq, r))
         /\ Range(Append(seq, r)) = Range(seq) \cup {r}
  <1> DEFINE n == Len(seq)
             t == Append(seq, r)
  <1>1. n \in Nat /\ DOMAIN seq = 1 .. n /\ \A i, j \in 1 .. n : seq[i] = seq[j] => i = j
    BY DEF IsInjective
  <1>2. /\ t \in Seq(Requests) /\ DOMAIN t = 1 .. n + 1 /\ t[n + 1] = r
        /\ \A i \in 1 .. n : t[i] = seq[i] /\ seq[i] # r
    BY DEF Range
  <1> HIDE DEF t, n
  <1>3. IsInjective(t)
    BY <1>1, <1>2 DEF IsInjective
  <1>4. Range(t) = Range(seq) \cup {r}
    <2>1. ASSUME NEW i \in 1 .. n + 1 PROVE t[i] \in Range(seq) \cup {r}
      BY <1>1, <1>2 DEF Range
    <2>2. ASSUME NEW i \in 1 .. n PROVE seq[i] \in Range(t)
      BY <1>1, <1>2 DEF Range
    <2>3. r \in Range(t)
      BY <1>1, <1>2 DEF Range
    <2> QED
      BY <1>1, <1>2, <2>1, <2>2, <2>3 DEF Range
  <1> QED
    BY Zenon, <1>2, <1>3, <1>4 DEF t

(* The entry find_pending_correlation picks is one of the pending ones and *)
(* fits the datagram by address and by kind.                               *)
LEMMA MatchFits ==
  ASSUME MapTypes, LoopTypes, loop.at # "idle"
  PROVE  PendingMatch = Absent \/ FitsDatagram(PendingMatch)
  <1> DEFINE hits == IF ExactMatches # {} THEN ExactMatches ELSE AddressMatches
             first == CHOOSE i \in hits : \A j \in hits : i <= j
  <1>1. \A i \in hits : /\ i \in DOMAIN pending
                        /\ Peer[pending[i]].ip = loop.from.ip
                        /\ Expected(Op[pending[i]]) = Expected(Op[loop.of])
    BY Zenon DEF ExactMatches, AddressMatches, Response
  <1>2. PendingMatch = IF hits = {} THEN Absent ELSE pending[first]
    BY Zenon DEF PendingMatch
  <1> HIDE DEF hits
  <1>3. ASSUME hits # {} PROVE first \in hits
    <2>1. hits \subseteq Nat
      BY <1>1 DEF MapTypes
    <2>2. \E i \in hits : \A j \in hits : i <= j
      BY Zenon, <1>3, <2>1, LeastNatural
    <2> QED
      BY Zenon, <2>2
  <1> HIDE DEF first
  <1>4. ASSUME hits # {} PROVE FitsDatagram(pending[first])
    BY <1>1, <1>3, <1>4 DEF FitsDatagram, LoopTypes, MapTypes
  <1> QED
    BY Zenon, <1>2, <1>4

-----------------------------------------------------------------------------
(* Every step is one of the above, or a delivery to the future or to the   *)
(* subscribers.                                                            *)
Kinds ==
  \/ \E r \in Requests : Advances(r) \/ Inserts(r) \/ Ends(r)
  \/ Examines \/ Deliver \/ Consume \/ Operates

LEMMA StepsClassified ==
  ASSUME MapTypes, LoopTypes, [RpcNext]_rpcVars
  PROVE  Kinds
  <1> USE DEF Calls, Operator, Truth
  <1>1. ASSUME NEW r \in Requests, Check(r) PROVE Advances(r) \/ Ends(r)
    BY <1>1 DEF Check, Advances, Ends, Towards
  <1>2. ASSUME NEW r \in Requests, Insert(r) PROVE Inserts(r)
    BY Zenon, <1>2 DEF Insert, Inserts, Towards
  <1>3. ASSUME NEW r \in Requests, Limit(r) PROVE Advances(r) \/ Ends(r)
    BY <1>3 DEF Limit, Advances, Ends, Towards, Live
  <1>4. ASSUME NEW r \in Requests, Record(r) \/ Transmit(r) \/ Expire(r) PROVE Advances(r)
    BY Zenon, <1>4 DEF Record, Transmit, Expire, Advances, Towards, Live
  <1>5. ASSUME NEW r \in Requests, SendFails(r) \/ Resolve(r) \/ TakeExpired(r) \/ Abort(r)
        PROVE  Ends(r)
    BY <1>5 DEF SendFails, Resolve, TakeExpired, Abort, Ends
  <1>6. ASSUME NEW r \in Requests, Reply(r) PROVE Operates
    BY Zenon, <1>6 DEF Reply, Operates
  <1>7. ASSUME NEW r \in Requests, NEW port, Receive(r, port) PROVE Examines
    BY Zenon, <1>7 DEF Receive, Examines, LoopTypes, Idle
  <1>8. ASSUME NoteContact PROVE Examines
    BY Zenon, <1>8 DEF NoteContact, Examines, LoopTypes, FitsDatagram
  <1>9. ASSUME Correlate PROVE Examines
    <2>1. loop.at # "idle" /\ loop'.of = loop.of
      BY Zenon, <1>9 DEF Correlate, LoopTypes
    <2>2. PendingMatch = Absent \/ FitsDatagram(PendingMatch)
      BY Zenon, <2>1, MatchFits
    <2> QED
      BY Zenon, <1>9, <2>1, <2>2 DEF Correlate, Examines, LoopTypes, FitsDatagram
  <1>10. ASSUME Admit PROVE Examines
    BY Zenon, <1>10 DEF Admit, Examines, LoopTypes, FitsDatagram, Idle
  <1>11. ASSUME Flag \/ Pause \/ Resume PROVE Operates
    BY Zenon, <1>11 DEF Flag, Pause, Clear, ForgetContact, Resume, Operates
  <1>12. ASSUME UNCHANGED rpcVars PROVE Operates
    BY Zenon, <1>12 DEF rpcVars, Operates
  <1> QED
    BY Zenon, <1>1, <1>2, <1>3, <1>4, <1>5, <1>6, <1>7, <1>8, <1>9, <1>10, <1>11, <1>12
       DEF RpcNext, Progress, Handle, Kinds

(* The map, the shapes and the loop's datagram.                            *)
LEMMA TypesKept ==
  ASSUME RpcInv, Kinds
  PROVE  MapTypes' /\ LoopTypes'
  <1> USE DEF RpcInv, MapTypes
  <1>1. ASSUME NEW r \in Requests, Advances(r) PROVE MapTypes' /\ LoopTypes'
    BY Zenon, <1>1 DEF Advances, LoopTypes, FitsDatagram
  <1>2. ASSUME NEW r \in Requests, Inserts(r) PROVE MapTypes' /\ LoopTypes'
    <2>1. r \notin Range(pending)
      BY Zenon, <1>2 DEF Inserts, Futures, PendingExact, Live
    <2>2. pending' \in Seq(Requests) /\ IsInjective(pending')
      BY Zenon, <1>2, <2>1, AppendEntry DEF Inserts
    <2> QED
      BY Zenon, <1>2, <2>2 DEF Inserts, LoopTypes, FitsDatagram
  <1>3. ASSUME NEW r \in Requests, Ends(r) PROVE MapTypes' /\ LoopTypes'
    <2>1. pending' \in Seq(Requests) /\ IsInjective(pending')
      BY <1>3, WithoutEntry DEF Ends, End
    <2> QED
      BY Zenon, <1>3, <2>1 DEF Ends, End, Towards, LoopTypes, FitsDatagram
  <1>4. ASSUME Examines PROVE MapTypes' /\ LoopTypes'
    BY Zenon, <1>4 DEF Examines
  <1>5. ASSUME Deliver PROVE MapTypes' /\ LoopTypes'
    <2>1. pending' \in Seq(Requests) /\ IsInjective(pending')
      BY <1>5, WithoutEntry DEF Deliver
    <2>2. LoopTypes'
      BY Zenon, <1>5 DEF Deliver, LoopTypes
    <2> QED
      BY <1>5, <2>1, <2>2 DEF Deliver, Answered, Operator, Truth
  <1>6. ASSUME Consume PROVE MapTypes' /\ LoopTypes'
    BY <1>6 DEF Consume, LoopTypes, Idle, Calls, Operator
  <1>7. ASSUME Operates PROVE MapTypes' /\ LoopTypes'
    <2>1. pending' \in Seq(Requests) /\ IsInjective(pending')
      BY Zenon, <1>7, EmptyMap DEF Operates
    <2> QED
      BY SMTT(60), <1>7, <2>1 DEF Operates, LoopTypes, FitsDatagram
  <1> QED
    BY ZenonT(60), <1>1, <1>2, <1>3, <1>4, <1>5, <1>6, <1>7 DEF Kinds

(* A future that waits has its entry or its answer.                        *)
LEMMA FuturesKept ==
  ASSUME RpcAssumption, RpcInv, Kinds
  PROVE  Futures'
  <1> USE DEF RpcInv, MapTypes
  <1> DEFINE Holds == \A r \in Requests : answer[r] # Absent => call[r] \in Live
             Backed == \A r \in Requests : r \in Range(pending) => call[r] \in Live /\ answer[r] = Absent
             Waits == \A r \in Requests : (call[r] \in Live /\ stops = 0 /\ answer[r] = Absent)
                        => r \in Range(pending) \/ call[r] = "expired"
  <1>0. Range(pending) \subseteq Requests /\ Holds /\ Backed /\ Waits
        /\ (stop # "running" => stops > 0)
    <2>1. Range(pending) \subseteq Requests
      BY DEF Range
    <2> QED
      BY Zenon, <2>1 DEF Futures, PendingExact
  <1>1. SUFFICES Holds' /\ Backed' /\ Waits' /\ (stop' # "running" => stops' > 0)
    <2>1. MapTypes'
      BY Zenon, TypesKept
    <2>2. Range(pending') \subseteq Requests
      BY <2>1 DEF Range
    <2> QED
      BY Zenon, <1>1, <2>2 DEF Futures, PendingExact
  <1>2. ASSUME NEW r \in Requests, Advances(r)
        PROVE  Holds' /\ Backed' /\ Waits' /\ (stop' # "running" => stops' > 0)
    <2>1. PICK at : /\ call' = [call EXCEPT ![r] = at]
                    /\ \/ call[r] = "new" /\ at = "checked"
                       \/ call[r] \in Live \ {"expired"} /\ at \in Live
      BY Zenon, <1>2 DEF Advances
    <2>2. \A q \in Requests : call'[q] = IF q = r THEN at ELSE call[q]
      BY Zenon, <2>1
    <2>3. UNCHANGED <<pending, answer, stop, stops>>
      BY Zenon, <1>2 DEF Advances
    <2> QED
      BY Zenon, <1>0, <2>1, <2>2, <2>3 DEF Live
  <1>3. ASSUME NEW r \in Requests, Inserts(r)
        PROVE  Holds' /\ Backed' /\ Waits' /\ (stop' # "running" => stops' > 0)
    <2>1. r \notin Range(pending)
      BY Zenon, <1>0, <1>3 DEF Inserts, Live
    <2>2. Range(pending') = Range(pending) \cup {r}
      BY Zenon, <1>3, <2>1, AppendEntry DEF Inserts
    <2>3. \A q \in Requests : call'[q] = IF q = r THEN "inserted" ELSE call[q]
      BY Zenon, <1>3 DEF Inserts
    <2>4. UNCHANGED <<answer, stop, stops>> /\ call[r] = "checked"
      BY Zenon, <1>3 DEF Inserts
    <2> QED
      BY Zenon, <1>0, <2>2, <2>3, <2>4 DEF Live
  <1>4. ASSUME NEW r \in Requests, Ends(r)
        PROVE  Holds' /\ Backed' /\ Waits' /\ (stop' # "running" => stops' > 0)
    <2>1. Range(pending') = Range(pending) \ {r}
      BY Zenon, <1>4, WithoutEntry DEF Ends, End
    <2>2. \A q \in Requests : /\ call'[q] = IF q = r THEN "done" ELSE call[q]
                              /\ answer'[q] = IF q = r THEN Absent ELSE answer[q]
      BY Zenon, <1>4 DEF Ends, End, Towards
    <2>3. UNCHANGED <<stop, stops>>
      BY Zenon, <1>4 DEF Ends
    <2> QED
      BY <1>0, <2>1, <2>2, <2>3 DEF Live
  <1>5. ASSUME Examines \/ Consume
        PROVE  Holds' /\ Backed' /\ Waits' /\ (stop' # "running" => stops' > 0)
    <2>1. UNCHANGED <<pending, call, answer, stop, stops>>
      BY Zenon, <1>5 DEF Examines, Consume, Calls, Operator
    <2> QED
      BY Zenon, <1>0, <2>1
  <1>6. ASSUME Deliver
        PROVE  Holds' /\ Backed' /\ Waits' /\ (stop' # "running" => stops' > 0)
    <2>1. UNCHANGED <<call, stop, stops>>
      BY Zenon, <1>6 DEF Deliver, Operator
    <2>2. CASE loop.match \in Range(pending)
      <3>1. loop.match \in Requests /\ loop.of \in Requests
        BY <1>0, <1>6, <2>2 DEF Deliver, LoopTypes
      <3>2. Range(pending') = Range(pending) \ {loop.match}
        BY Zenon, <1>6, <2>2, WithoutEntry DEF Deliver
      <3>3. \A q \in Requests : answer'[q] =
              IF q # loop.match THEN answer[q]
              ELSE IF call[q] = "expired" THEN Absent ELSE loop.of
        BY Zenon, <1>6, <2>2, <3>1 DEF Deliver, Answered
      <3>4. call[loop.match] \in Live
        BY Zenon, <1>0, <2>2
      <3> QED
        BY <1>0, <2>1, <3>1, <3>2, <3>3, <3>4 DEF RpcAssumption
    <2>3. CASE loop.match \notin Range(pending)
      <3>1. UNCHANGED <<pending, answer>>
        BY Zenon, <1>6, <2>3 DEF Deliver
      <3> QED
        BY Zenon, <1>0, <2>1, <3>1
    <2> QED
      BY Zenon, <2>2, <2>3
  <1>7. ASSUME Operates
        PROVE  Holds' /\ Backed' /\ Waits' /\ (stop' # "running" => stops' > 0)
    <2>1. UNCHANGED <<call, answer>>
      BY Zenon, <1>7 DEF Operates
    <2>2. CASE UNCHANGED pending
      <3>1. /\ stops' = 0 => stops = 0
            /\ stop' # "running" => stops' > 0
        BY <1>0, <1>7 DEF Operates
      <3> QED
        BY <1>0, <2>1, <2>2, <3>1
    <2>3. CASE stop # "running" /\ pending' = <<>> /\ UNCHANGED stops
      <3>1. Range(pending') = {} /\ stops' > 0
        BY Zenon, <1>0, <2>3, EmptyMap
      <3> QED
        BY <1>0, <2>1, <3>1
    <2> QED
      BY <1>7, <2>2, <2>3 DEF Operates
  <1> QED
    BY ZenonT(60), <1>2, <1>3, <1>4, <1>5, <1>6, <1>7 DEF Kinds

(* A delivery gives a future an answer of its peer, of its kind.           *)
LEMMA FitsKept ==
  ASSUME RpcAssumption, RpcInv, Kinds
  PROVE  AnswerFits'
  <1> USE DEF RpcInv, MapTypes
  <1>1. ASSUME UNCHANGED answer PROVE AnswerFits'
    BY Zenon, <1>1 DEF AnswerFits
  <1>2. ASSUME NEW r \in Requests, Ends(r) PROVE AnswerFits'
    BY Zenon, <1>2 DEF AnswerFits, Ends, End
  <1>3. ASSUME Deliver PROVE AnswerFits'
    <2>1. CASE loop.match \in Range(pending)
      <3>1. loop.match \in Requests
        BY <2>1 DEF Range
      <3>2. FitsDatagram(loop.match)
        BY Zenon, <1>3, <3>1 DEF Deliver, LoopTypes, RpcAssumption
      <3>3. \A q \in Requests : answer'[q] =
              IF q # loop.match THEN answer[q]
              ELSE IF call[q] = "expired" THEN Absent ELSE loop.of
        BY Zenon, <1>3, <2>1, <3>1 DEF Deliver, Answered
      <3> QED
        BY Zenon, <3>2, <3>3 DEF AnswerFits, FitsDatagram
    <2> QED
      BY Zenon, <1>1, <1>3, <2>1 DEF Deliver
  <1>4. ASSUME Consume PROVE UNCHANGED answer
    BY Zenon, <1>4 DEF Consume, Calls
  <1> QED
    BY <1>1, <1>2, <1>3, <1>4 DEF Kinds, Advances, Inserts, Examines, Operates

(* A delivery completes one future at most, or leaves the datagram to the  *)
(* subscribers; nothing else completes one.                                *)
LEMMA AnswersStayCounted ==
  ASSUME RpcAssumption, RpcInv, Kinds
  PROVE  AnswersCounted'
  <1> USE DEF RpcInv, MapTypes
  <1>1. /\ IsFiniteSet(Completed) /\ Cardinality(Completed) \in Nat
        /\ IsFiniteSet(Completed')
    <2>1. Completed \subseteq Requests /\ Completed' \subseteq Requests
      BY Zenon DEF Completed
    <2> QED
      BY Zenon, <2>1, FS_Subset, FS_CardinalityType DEF RpcAssumption
  <1>2. ASSUME Completed' \subseteq Completed, UNCHANGED <<broadcast, accepted, Owed>>
        PROVE  AnswersCounted'
    <2>1. Cardinality(Completed') <= Cardinality(Completed) /\ Cardinality(Completed') \in Nat
      BY Zenon, <1>1, <1>2, FS_Subset, FS_CardinalityType
    <2> QED
      BY <1>1, <1>2, <2>1 DEF AnswersCounted, Owed
  <1>3. ASSUME NEW r \in Requests, Ends(r) PROVE AnswersCounted'
    <2>1. PICK result : End(r, result) /\ (result = "answered" => answer[r] # Absent)
      BY Zenon, <1>3 DEF Ends
    <2>2. \A q \in Requests :
             /\ outcome'[q] = IF q = r THEN result ELSE outcome[q]
             /\ answer'[q] = IF q = r THEN Absent ELSE answer[q]
      BY Zenon, <2>1 DEF End
    <2>3. Completed' \subseteq Completed
      BY Zenon, <2>1, <2>2 DEF Completed, AnsweredBy
    <2> QED
      BY Zenon, <1>2, <1>3, <2>3 DEF Ends, Owed
  <1>4. ASSUME UNCHANGED <<outcome, answer, broadcast, accepted, Owed>> PROVE AnswersCounted'
    BY Zenon, <1>2, <1>4 DEF Completed, AnsweredBy
  <1>5. ASSUME Deliver PROVE AnswersCounted'
    <2>1. /\ accepted' = accepted + 1 /\ UNCHANGED <<outcome, broadcast>>
          /\ loop.at = "admitted" /\ Owed = 0
      BY Zenon, <1>5 DEF Deliver, Truth, Owed
    <2>2. CASE loop.match \in Range(pending)
      <3>1. loop.match \in Requests
        BY <2>2 DEF Range
      <3>2. \A q \in Requests : q # loop.match => answer'[q] = answer[q]
        BY Zenon, <1>5, <2>2, <3>1 DEF Deliver, Answered
      <3>3. Completed' \subseteq Completed \cup {loop.match}
        BY Zenon, <2>1, <3>2 DEF Completed, AnsweredBy
      <3>4. Cardinality(Completed') <= Cardinality(Completed) + 1 /\ Cardinality(Completed') \in Nat
        <4>1. /\ IsFiniteSet(Completed \cup {loop.match})
              /\ Cardinality(Completed \cup {loop.match}) <= Cardinality(Completed) + 1
              /\ Cardinality(Completed \cup {loop.match}) \in Nat
          <5>1. /\ IsFiniteSet(Completed \cup {loop.match})
                /\ \/ Cardinality(Completed \cup {loop.match}) = Cardinality(Completed)
                   \/ Cardinality(Completed \cup {loop.match}) = Cardinality(Completed) + 1
            BY Zenon, <1>1, FS_AddElement
          <5> QED
            BY <1>1, <5>1
        <4>2. /\ Cardinality(Completed') <= Cardinality(Completed \cup {loop.match})
              /\ Cardinality(Completed') \in Nat
          BY <1>1, <3>3, <4>1, FS_Subset, FS_CardinalityType
        <4> QED
          BY <1>1, <4>1, <4>2
      <3>5. Owed' = 0
        BY Zenon, <1>5, <2>2, <3>1 DEF Deliver, Owed, RpcAssumption, LoopTypes
      <3> QED
        BY <1>1, <2>1, <3>4, <3>5 DEF AnswersCounted
    <2>3. CASE loop.match \notin Range(pending)
      <3>1. UNCHANGED answer /\ Owed' \in {0, 1}
        BY Zenon, <1>5, <2>3 DEF Deliver, Owed
      <3>2. Completed' = Completed
        BY Zenon, <2>1, <3>1 DEF Completed, AnsweredBy
      <3> QED
        BY <1>1, <2>1, <3>1, <3>2 DEF AnswersCounted
    <2> QED
      BY Zenon, <2>2, <2>3
  <1>6. ASSUME Consume PROVE AnswersCounted'
    <2>1. UNCHANGED <<outcome, answer, accepted>> /\ loop.at = "delivered" /\ Owed' = 0
      BY Zenon, <1>6 DEF Consume, Calls, Owed, Idle
    <2>2. broadcast' = broadcast + Owed /\ Owed \in {0, 1}
      BY <1>6 DEF Consume, Owed
    <2>3. Completed' = Completed
      BY Zenon, <2>1 DEF Completed, AnsweredBy
    <2> QED
      BY <1>1, <2>1, <2>2, <2>3 DEF AnswersCounted
  <1> QED
    BY ZenonT(60), <1>3, <1>4, <1>5, <1>6 DEF Kinds, Advances, Inserts, Examines, Operates, Owed

(* A new manager has no entries, no futures and no datagram.              *)
LEMMA InvInit ==
  ASSUME RpcAssumption, RpcInit
  PROVE  RpcInv
  <1> USE DEF RpcInit
  <1>1. Range(pending) = {} /\ MapTypes
    BY Zenon, EmptyMap DEF MapTypes
  <1>2. LoopTypes
    BY Zenon DEF LoopTypes, Idle
  <1>3. Futures /\ AnswerFits
    BY Zenon, <1>1 DEF Futures, PendingExact, AnswerFits, Live
  <1>4. Completed = {} /\ Owed = 0
    BY Zenon DEF Completed, AnsweredBy, Owed, Idle
  <1>5. AnswersCounted
    BY <1>4, FS_EmptySet DEF AnswersCounted
  <1> QED
    BY <1>1, <1>2, <1>3, <1>5 DEF RpcInv

(* The inductive invariant holds in every reachable state.                 *)
LEMMA InvHolds ==
  ASSUME RpcAssumption
  PROVE  RpcSpec => []RpcInv
  <1>1. RpcInv /\ [RpcNext]_rpcVars => RpcInv'
    <2> SUFFICES ASSUME RpcInv, [RpcNext]_rpcVars PROVE RpcInv'
      OBVIOUS
    <2>1. Kinds
      BY Zenon, StepsClassified DEF RpcInv
    <2> QED
      BY <2>1, TypesKept, FuturesKept, FitsKept, AnswersStayCounted DEF RpcInv
  <1> QED
    BY InvInit, <1>1, PTL DEF RpcSpec

-----------------------------------------------------------------------------
(***************************************************************************)
(* No two futures are completed by one accepted datagram, and none that    *)
(* completed a future is also broadcast (receive_loop.rs), whatever the    *)
(* peers, the losses, the duplicates and the moments the futures are       *)
(* dropped at.                                                             *)
(***************************************************************************)
THEOREM AnswersUsedOnce ==
  ASSUME RpcAssumption
  PROVE  RpcSpec => []EachAnswerOnce
  <1>1. RpcInv => EachAnswerOnce
    <2> SUFFICES ASSUME RpcInv PROVE EachAnswerOnce
      OBVIOUS
    <2>1. Completed \subseteq Requests
      BY Zenon DEF Completed
    <2>2. Cardinality(Completed) \in Nat
      BY Zenon, <2>1, FS_Subset, FS_CardinalityType DEF RpcAssumption
    <2>3. Owed \in {0, 1} /\ broadcast \in Nat /\ accepted \in Nat
      BY Zenon DEF Owed, RpcInv, MapTypes
    <2>4. Cardinality(Completed) + broadcast <= accepted
      BY <2>2, <2>3 DEF RpcInv, AnswersCounted
    <2> QED
      BY Zenon, <2>4 DEF EachAnswerOnce, Completed
  <1> QED
    BY <1>1, InvHolds, PTL

(***************************************************************************)
(* The removal guard of a pending entry (rpc/outbound.rs): no entry        *)
(* outlives its future, and a waiting future has its entry or its answer   *)
(* unless Kad was paused.                                                  *)
(***************************************************************************)
THEOREM EntriesFollowFutures ==
  ASSUME RpcAssumption
  PROVE  RpcSpec => []PendingExact
  <1>1. RpcInv => PendingExact
    BY Zenon DEF RpcInv, Futures
  <1> QED
    BY <1>1, InvHolds, PTL

(***************************************************************************)
(* find_pending_correlation never completes a request with an answer of    *)
(* another peer or to another kind of request.                             *)
(***************************************************************************)
THEOREM AnswersFit ==
  ASSUME RpcAssumption
  PROVE  RpcSpec => []AnswerFits
  <1>1. RpcInv => AnswerFits
    BY Zenon DEF RpcInv
  <1> QED
    BY <1>1, InvHolds, PTL

=============================================================================
