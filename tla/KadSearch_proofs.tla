--------------------------- MODULE KadSearch_proofs ---------------------------
(***************************************************************************)
(* Proofs about KadSearch, for any finite set of searches, any permits,    *)
(* any buffer and any result cap.                                          *)
(*                                                                         *)
(* Both proofs first reduce the fifteen actions to the few ways they can   *)
(* change what the property is about, and then show that those keep it.    *)
(*                                                                         *)
(* That two searches for one target never walk together is not inductive:  *)
(* it rests on who owns a target.  A search owns its target from the       *)
(* insertion in try_acquire to the first half of the permit's drop, and    *)
(* no other search owns the same one.                                      *)
(***************************************************************************)
EXTENDS KadSearch, Functions, FiniteSetTheorems, SequenceTheorems, TLAPS

TaskStates == {"idle", "slot", "admitted", "select", "sending", "closing",
               "releasing", "refused", "done"}
WalkStates == {"none", "running", "sending", "ended"}

Types ==
  /\ slots \in 0 .. MaxConcurrent
  /\ task \in [Searches -> TaskStates]
  /\ walk \in [Searches -> WalkStates]

Holders == {s \in Searches : task[s] \in {"slot"} \cup Permitted}

\* The search is between the two ends of its hold on the target.
Owns(s) ==
  \/ task[s] \in {"admitted", "select", "sending", "closing"}
  \/ task[s] = "releasing" /\ walk[s] = "none"

\* Tasks and traversals go together.
WalkFollowsTask ==
  \A s \in Searches :
    /\ task[s] \in {"idle", "slot", "admitted", "refused"} => walk[s] = "none"
    /\ walk[s] \in {"running", "sending"} => task[s] \in {"select", "sending", "closing"}

TargetsOwned ==
  /\ \A s \in Searches : Owns(s) => Target[s] \in inFlight
  /\ \A s, t \in Searches : Owns(s) /\ Owns(t) /\ Target[s] = Target[t] => s = t

SlotsCounted == slots = Cardinality(Holders)

PermitInv == Types /\ WalkFollowsTask /\ TargetsOwned /\ SlotsCounted

-----------------------------------------------------------------------------
(* The permit holders are finitely many.                                   *)
LEMMA HoldersFinite ==
  ASSUME SearchAssumption
  PROVE  /\ IsFiniteSet(Holders) /\ Cardinality(Holders) \in Nat
         /\ \A s \in Holders : Cardinality(Holders) > 0
         /\ \A s \in Holders : Cardinality(Holders \ {s}) = Cardinality(Holders) - 1
         /\ \A s : s \notin Holders => Cardinality(Holders \cup {s}) = Cardinality(Holders) + 1
  <1>1. Holders \in SUBSET Searches
    BY Zenon DEF Holders
  <1>2. IsFiniteSet(Holders) /\ Cardinality(Holders) \in Nat
    BY Zenon, <1>1, FS_Subset, FS_CardinalityType DEF SearchAssumption
  <1>3. \A s \in Holders : Cardinality(Holders \ {s}) = Cardinality(Holders) - 1
    BY Zenon, <1>2, FS_RemoveElement
  <1>4. \A s \in Holders : Cardinality(Holders) > 0
    BY <1>2, FS_EmptySet
  <1>5. \A s : s \notin Holders => Cardinality(Holders \cup {s}) = Cardinality(Holders) + 1
    BY Zenon, <1>2, FS_AddElement
  <1> QED
    BY Zenon, <1>2, <1>3, <1>4, <1>5

(* A step leaves the permits alone, or moves one search from one place of  *)
(* its task to another.  These are all the ways the permits, the targets   *)
(* and the tasks can change.                                               *)
Moves(s, from, to) == task[s] = from /\ task' = [task EXCEPT ![s] = to]

PermitStep(s) ==
  \/ /\ UNCHANGED <<slots, inFlight, task>>
     /\ \/ UNCHANGED walk
        \/ /\ walk[s] \in {"running", "sending"}
           /\ \E w \in {"running", "sending", "ended"} : walk' = [walk EXCEPT ![s] = w]
  \/ /\ UNCHANGED <<slots, inFlight, walk>>
     /\ \/ Moves(s, "idle", "refused")
        \/ Moves(s, "admitted", "releasing")
        \/ Moves(s, "select", "sending") \/ Moves(s, "select", "closing")
        \/ Moves(s, "sending", "select") \/ Moves(s, "sending", "closing")
  \/ slots < MaxConcurrent /\ slots' = slots + 1 /\ Moves(s, "idle", "slot") /\ UNCHANGED <<inFlight, walk>>
  \/ slots' = slots - 1 /\ Moves(s, "slot", "refused") /\ UNCHANGED <<inFlight, walk>>
  \/ /\ Target[s] \notin inFlight /\ inFlight' = inFlight \cup {Target[s]}
     /\ Moves(s, "slot", "admitted") /\ UNCHANGED <<slots, walk>>
  \/ /\ Moves(s, "admitted", "select") \/ Moves(s, "admitted", "closing")
     /\ walk' = [walk EXCEPT ![s] = "running"] /\ UNCHANGED <<slots, inFlight>>
  \/ /\ \/ Moves(s, "closing", "releasing") /\ walk[s] = "ended"
        \/ Moves(s, "releasing", "releasing") /\ walk[s] = "none"
     /\ inFlight' = inFlight \ {Target[s]}
     /\ walk' = [walk EXCEPT ![s] = "ended"] /\ UNCHANGED slots
  \/ /\ walk[s] = "ended" /\ slots' = slots - 1
     /\ Moves(s, "releasing", "done") /\ UNCHANGED <<inFlight, walk>>

(* Every step of the searches is one of these.                             *)
LEMMA StepsArePermitSteps ==
  ASSUME Next
  PROVE  \E s \in Searches : PermitStep(s)
  <1> PICK s \in Searches :
          \/ Acquire(s) \/ Walk(s) \/ Observe(s) \/ Task(s)
          \/ Poll(s) \/ DropStream(s) \/ Cancel(s)
    BY Zenon DEF Next
  <1> USE DEF PermitStep, Moves, To
  <1>1. CASE Acquire(s)
    BY Zenon, <1>1 DEF Acquire, AcquireSlot, InsertTarget, RefuseCancelled
  <1>2. CASE Walk(s) \/ Observe(s)
    BY Zenon, <1>2 DEF Walk, ForwardRaw, EndWalk, Observe
  <1>3. CASE Spawn(s)
    BY Zenon, <1>3 DEF Spawn
  <1>4. CASE TakeKeyword(s)
    BY Zenon, <1>4 DEF TakeKeyword
  <1>5. CASE TakeSource(s)
    BY Zenon, <1>5 DEF TakeSource
  <1>6. CASE StopTaking(s) \/ SendResult(s) \/ DropRaw(s)
    BY Zenon, <1>6 DEF StopTaking, SendResult, DropRaw
  <1>7. CASE ReleaseTarget(s) \/ ReleaseSlot(s)
    BY Zenon, <1>7 DEF ReleaseTarget, ReleaseSlot
  <1>8. CASE Poll(s) \/ DropStream(s) \/ Cancel(s)
    BY Zenon, <1>8 DEF Poll, DropStream, Cancel
  <1> QED
    BY Zenon, <1>1, <1>2, <1>3, <1>4, <1>5, <1>6, <1>7, <1>8 DEF Task

-----------------------------------------------------------------------------
(* A search that enters or leaves the permits is counted: what a step of s *)
(* does to the set of permit holders.                                      *)
LEMMA SlotsKept ==
  ASSUME SearchAssumption, PermitInv, NEW s \in Searches, PermitStep(s)
  PROVE  slots' \in 0 .. MaxConcurrent /\ SlotsCounted'
  <1> USE DEF PermitInv, Types, SlotsCounted, SearchAssumption
  <1>h. /\ Cardinality(Holders) \in Nat
        /\ s \in Holders => /\ Cardinality(Holders) > 0
                            /\ Cardinality(Holders \ {s}) = Cardinality(Holders) - 1
        /\ s \notin Holders => Cardinality(Holders \cup {s}) = Cardinality(Holders) + 1
    BY Zenon, HoldersFinite
  <1>1. CASE slots < MaxConcurrent /\ slots' = slots + 1 /\ Moves(s, "idle", "slot")
    <2>1. s \notin Holders /\ Holders' = Holders \cup {s}
      BY Zenon, <1>1 DEF Holders, Moves, Permitted
    <2> HIDE DEF Holders
    <2> QED
      BY <1>1, <1>h, <2>1
  <1>2. CASE slots' = slots - 1 /\ (Moves(s, "slot", "refused") \/ Moves(s, "releasing", "done"))
    <2>1. s \in Holders /\ Holders' = Holders \ {s}
      BY Zenon, <1>2 DEF Holders, Moves, Permitted
    <2> QED
      BY <1>2, <1>h, <2>1
  <1>3. CASE /\ UNCHANGED slots
             /\ \/ UNCHANGED task
                \/ Moves(s, "idle", "refused")
                \/ \E f, t \in {"slot"} \cup Permitted : Moves(s, f, t)
    <2>1. Holders' = Holders
      BY Zenon, <1>3 DEF Holders, Moves, Permitted
    <2> QED
      BY Zenon, <1>3, <2>1
  <1> QED
    BY Zenon, <1>1, <1>2, <1>3 DEF PermitStep, Permitted

(* A step keeps the places of tasks and traversals together.               *)
LEMMA TasksKept ==
  ASSUME PermitInv, NEW s \in Searches, PermitStep(s)
  PROVE  /\ task' \in [Searches -> TaskStates] /\ walk' \in [Searches -> WalkStates]
         /\ WalkFollowsTask'
  <1>1. task' \in [Searches -> TaskStates] /\ walk' \in [Searches -> WalkStates]
    BY Zenon DEF PermitInv, Types, PermitStep, Moves, TaskStates, WalkStates
  <1>2. ASSUME NEW t \in Searches
        PROVE  /\ task'[t] \in {"idle", "slot", "admitted", "refused"} => walk'[t] = "none"
               /\ walk'[t] \in {"running", "sending"} => task'[t] \in {"select", "sending", "closing"}
    BY DEF PermitInv, Types, PermitStep, Moves, WalkFollowsTask
  <1> QED
    BY Zenon, <1>1, <1>2 DEF WalkFollowsTask

(* A target has one owner, and is in flight while it has one: a search     *)
(* becomes an owner only by inserting a target that was not in flight.     *)
LEMMA TargetsKept ==
  ASSUME PermitInv, NEW s \in Searches, PermitStep(s)
  PROVE  TargetsOwned'
  <1> USE DEF PermitInv, Types
  <1>1. ASSUME NEW t \in Searches, t # s
        PROVE  Owns(t)' <=> Owns(t)
    BY Zenon, <1>1 DEF PermitStep, Moves, Owns
  <1>2. CASE Owns(s)' /\ ~Owns(s)
    <2>1. Target[s] \notin inFlight /\ inFlight' = inFlight \cup {Target[s]}
      BY Zenon, <1>2 DEF PermitStep, Moves, Owns, WalkFollowsTask
    <2> QED
      BY Zenon, <1>1, <2>1 DEF TargetsOwned
  <1>3. CASE Owns(s) /\ ~Owns(s)'
    <2>1. inFlight' = inFlight \ {Target[s]}
      BY Zenon, <1>3 DEF PermitStep, Moves, Owns, WalkFollowsTask
    <2> QED
      BY Zenon, <1>1, <1>3, <2>1 DEF TargetsOwned
  <1>4. CASE Owns(s)' <=> Owns(s)
    <2>1. inFlight' = inFlight
      BY Zenon, <1>4 DEF PermitStep, Moves, Owns, WalkFollowsTask
    <2> QED
      BY Zenon, <1>1, <1>4, <2>1 DEF TargetsOwned
  <1> QED
    BY Zenon, <1>2, <1>3, <1>4

(* No search holds a permit at the start.                                  *)
LEMMA PermitInvInitially ==
  ASSUME SearchAssumption
  PROVE  Init => PermitInv
  <1> SUFFICES ASSUME Init PROVE PermitInv
    OBVIOUS
  <1>1. Holders = {}
    BY Zenon DEF Init, Holders, Permitted
  <1>2. Cardinality({}) = 0
    BY Zenon, FS_EmptySet
  <1> QED
    BY <1>1, <1>2 DEF Init, PermitInv, Types, TaskStates, WalkStates, WalkFollowsTask,
                      TargetsOwned, Owns, SlotsCounted, SearchAssumption

(* The inductive step of the permit invariant.                             *)
LEMMA PermitInvPreserved ==
  ASSUME SearchAssumption, PermitInv, [Next]_vars
  PROVE  PermitInv'
  <1>1. CASE Next
    <2> PICK s \in Searches : PermitStep(s)
      BY Zenon, <1>1, StepsArePermitSteps
    <2> QED
      BY Zenon, SlotsKept, TasksKept, TargetsKept DEF PermitInv, Types
  <1>2. CASE UNCHANGED vars
    BY SMTT(60), <1>2 DEF vars, PermitInv, Types, WalkFollowsTask, TargetsOwned, Owns, SlotsCounted, Holders
  <1> QED
    BY Zenon, <1>1, <1>2

(***************************************************************************)
(* Permits are never lost or doubled, and of two searches for one target   *)
(* at most one walks (try_acquire and the permit's drop).                  *)
(***************************************************************************)
THEOREM PermitsStayAccounted ==
  ASSUME SearchAssumption
  PROVE  Spec => []PermitsAccounted
  <1>2. PermitInv => PermitsAccounted
    <2> SUFFICES ASSUME PermitInv PROVE PermitsAccounted
      OBVIOUS
    <2>1. DOMAIN task = Searches
      BY DEF PermitInv, Types
    <2> QED
      BY Zenon, <2>1 DEF PermitInv, WalkFollowsTask, TargetsOwned, Owns, SlotsCounted, Holders,
                         PermitsAccounted
  <1> QED
    BY <1>2, PermitInvInitially, PermitInvPreserved, PTL DEF Spec

(***************************************************************************)
(* max_concurrent_searches bounds the searches that hold a permit.         *)
(***************************************************************************)
THEOREM PermitsBounded ==
  ASSUME SearchAssumption
  PROVE  Spec => [](slots \in 0 .. MaxConcurrent)
  <1>1. PermitInv => slots \in 0 .. MaxConcurrent
    BY Zenon DEF PermitInv, Types
  <1> QED
    BY <1>1, PermitInvInitially, PermitInvPreserved, PTL DEF Spec

-----------------------------------------------------------------------------
(* What a step of s means to the pool: s takes or gives a permit, claims   *)
(* or disclaims its key, or the pool does not notice.                      *)
LEMMA PoolSteps ==
  ASSUME SearchAssumption, PermitInv, NEW s \in Searches, PermitStep(s)
  PROVE  Pool!PoolNext \/ UNCHANGED Pool!poolVars
  <1> DEFINE H == {u \in DOMAIN task : Holding(u)}
             O == {u \in DOMAIN task : Owning(u)}
  <1>1. /\ DOMAIN task = Searches /\ DOMAIN task' = Searches
        /\ DOMAIN walk = Searches
        /\ H = Holders /\ task[s] \in TaskStates
    BY Zenon, TasksKept DEF PermitInv, Types, Holders, Holding
  <1>2. ASSUME NEW u \in Searches, u # s
        PROVE  (Holding(u)' <=> Holding(u)) /\ (Owning(u)' <=> Owning(u))
    BY Zenon, <1>1, <1>2 DEF PermitStep, Moves, Holding, Owning
  <1>3. CASE slots < MaxConcurrent /\ slots' = slots + 1 /\ Moves(s, "idle", "slot") /\ UNCHANGED walk
    <2>1. s \notin H /\ H' = H \cup {s} /\ O' = O
      BY SMTT(60), <1>1, <1>2, <1>3 DEF Moves, Holding, Owning, Permitted
    <2>2. Cardinality(H) < MaxConcurrent
      BY Zenon, <1>1, <1>3 DEF PermitInv, SlotsCounted
    <2>3. Pool!Take(s)
      BY Zenon, <2>1, <2>2 DEF Pool!Take, Pool!Cardinality, Cardinality
    <2> QED
      BY Zenon, <2>3 DEF Pool!PoolNext
  <1>4. CASE /\ Moves(s, "slot", "admitted") /\ Target[s] \notin inFlight /\ UNCHANGED walk
    <2>1. s \in H \ O /\ H' = H /\ O' = O \cup {s}
      BY SMTT(60), <1>1, <1>2, <1>4 DEF Moves, Holding, Owning, Permitted
    <2>2. \A u \in O : Target[u] # Target[s]
      BY Zenon, <1>1, <1>4 DEF PermitInv, TargetsOwned, Owning, Owns
    <2> QED
      BY Zenon, <2>1, <2>2 DEF Pool!PoolNext, Pool!Claim
  <1>5. CASE /\ \/ Moves(s, "closing", "releasing")
                \/ Moves(s, "releasing", "releasing") /\ walk[s] = "none"
             /\ walk' = [walk EXCEPT ![s] = "ended"]
    <2>1. s \in O /\ H' = H /\ O' = O \ {s}
      BY <1>1, <1>2, <1>5 DEF Moves, Holding, Owning, Permitted
    <2> QED
      BY Zenon, <2>1 DEF Pool!PoolNext, Pool!Disclaim
  <1>6. CASE /\ UNCHANGED walk
             /\ Moves(s, "slot", "refused") \/ (Moves(s, "releasing", "done") /\ walk[s] = "ended")
    <2>1. s \in H \ O /\ H' = H \ {s} /\ O' = O
      BY SMTT(60), <1>1, <1>2, <1>6 DEF Moves, Holding, Owning, Permitted
    <2> QED
      BY Zenon, <2>1 DEF Pool!PoolNext, Pool!Give
  <1>7. CASE /\ \/ Moves(s, "idle", "refused")
                \/ Moves(s, "admitted", "releasing") /\ UNCHANGED walk
                \/ Moves(s, "admitted", "select") \/ Moves(s, "admitted", "closing")
                \/ Moves(s, "select", "sending") \/ Moves(s, "select", "closing")
                \/ Moves(s, "sending", "select") \/ Moves(s, "sending", "closing")
                \/ UNCHANGED task /\ (UNCHANGED walk \/ walk[s] \in {"running", "sending"})
    <2>1. (Holding(s)' <=> Holding(s)) /\ (Owning(s)' <=> Owning(s))
      BY Zenon, <1>1, <1>7 DEF Moves, Holding, Owning, Permitted, PermitInv, WalkFollowsTask
    <2>2. H' = H /\ O' = O
      BY Zenon, <1>1, <1>2, <2>1
    <2> QED
      BY Zenon, <2>2 DEF Pool!poolVars
  <1> QED
    BY Zenon, <1>3, <1>4, <1>5, <1>6, <1>7 DEF PermitStep

(***************************************************************************)
(* The searches implement the pool: max_concurrent_searches bounds the     *)
(* callers that hold a permit, a target has one owner, and no abort,       *)
(* refusal or cancellation makes a step the pool does not have.            *)
(***************************************************************************)
THEOREM PermitsImplementPool ==
  ASSUME SearchAssumption
  PROVE  Spec => PermitsFromPool
  <1>1. Init => Pool!PoolInit
    BY Zenon DEF Init, Pool!PoolInit, Holding, Owning, Permitted
  <1>2. ASSUME PermitInv, [Next]_vars
        PROVE  [Pool!PoolNext]_Pool!poolVars
    <2>1. CASE Next
      BY Zenon, <1>2, <2>1, StepsArePermitSteps, PoolSteps
    <2>2. CASE UNCHANGED vars
      BY Zenon, <2>2 DEF vars, Pool!poolVars, Holding, Owning
    <2> QED
      BY Zenon, <1>2, <2>1, <2>2
  <1> QED
    BY <1>1, <1>2, PermitInvInitially, PermitInvPreserved, PTL DEF Spec, PermitsFromPool, Pool!PoolSpec

-----------------------------------------------------------------------------
\* What a search's stream and its blocked send hold was accepted, and while the
\* stream is open nothing accepted is anywhere else.
Waiting(s) == held[s].task

HeldShape ==
  held = [s \in Searches |-> [walk |-> held[s].walk, task |-> held[s].task]]

StreamTypes ==
  /\ HeldShape
  /\ task = [s \in Searches |-> task[s]]
  /\ seen = [s \in Searches |-> seen[s]] /\ got = [s \in Searches |-> got[s]]
  /\ out = [s \in Searches |-> out[s]] /\ outOpen = [s \in Searches |-> outOpen[s]]

StreamOf(s) ==
  /\ IsFiniteSet(seen[s]) /\ Cardinality(seen[s]) <= ResultCap
  /\ out[s] \in Seq(seen[s]) /\ Waiting(s) \in Seq(seen[s])
  /\ got[s] \subseteq seen[s]
  /\ task[s] # "sending" => Waiting(s) = <<>>
  /\ outOpen[s] => seen[s] = got[s] \cup Range(out[s]) \cup Range(Waiting(s))

StreamInv == StreamTypes /\ \A s \in Searches : StreamOf(s)

\* The ways a step can change the stream of s.
Accept(s) ==
  \E h : /\ task[s] = "select" /\ task'[s] = "sending"
         /\ h \in seen[s] \/ Cardinality(seen[s]) < ResultCap
         /\ seen'[s] = seen[s] \cup {h} /\ Waiting(s)' = <<h>>
         /\ got'[s] = got[s] /\ out'[s] = out[s] /\ outOpen'[s] = outOpen[s]

Send(s) ==
  /\ task[s] = "sending" /\ task'[s] # "sending" /\ Waiting(s)' = <<>>
  /\ seen'[s] = seen[s] /\ got'[s] = got[s] /\ outOpen'[s] = outOpen[s]
  /\ \/ outOpen[s] /\ out'[s] = out[s] \o Waiting(s)
     \/ ~outOpen[s] /\ out'[s] = out[s]

Receive(s) ==
  /\ out[s] # <<>> /\ out'[s] = Tail(out[s])
  /\ got'[s] = got[s] \cup {Head(out[s])}
  /\ seen'[s] = seen[s] /\ outOpen'[s] = outOpen[s]
  /\ task'[s] = task[s] /\ Waiting(s)' = Waiting(s)

Abandon(s) ==
  /\ ~outOpen'[s] /\ out'[s] = <<>>
  /\ seen'[s] = seen[s] /\ got'[s] = got[s]
  /\ task'[s] = task[s] /\ Waiting(s)' = Waiting(s)

Still(s) ==
  /\ seen'[s] = seen[s] /\ got'[s] = got[s] /\ out'[s] = out[s] /\ outOpen'[s] = outOpen[s]
  /\ Waiting(s)' = Waiting(s) /\ (task[s] = "sending" <=> task'[s] = "sending")

(* A blocked send is one task's or the other's.                            *)
LEMMA HeldUpdates ==
  ASSUME HeldShape, NEW s \in Searches, NEW x
  PROVE  /\ held' = [held EXCEPT ![s].walk = x] =>
              HeldShape' /\ \A t \in Searches : held'[t].task = held[t].task
         /\ held' = [held EXCEPT ![s].task = x] =>
              /\ HeldShape' /\ held'[s].task = x
              /\ \A t \in Searches : t # s => held'[t].task = held[t].task
  BY DEF HeldShape

(* A step of search s touches no other stream, and s's own in one of these *)
(* ways.                                                                   *)
LEMMA StepsAreStreamSteps ==
  ASSUME SearchAssumption, StreamInv, Next
  PROVE  /\ StreamTypes'
         /\ \A s \in Searches : Accept(s) \/ Send(s) \/ Receive(s) \/ Abandon(s) \/ Still(s)
  <1> PICK s \in Searches :
          \/ Acquire(s) \/ Walk(s) \/ Observe(s) \/ Task(s)
          \/ Poll(s) \/ DropStream(s) \/ Cancel(s)
    BY Zenon DEF Next
  <1>0. Cardinality(seen[s]) \in Nat /\ ResultCap \in Nat
    BY Zenon, FS_CardinalityType DEF StreamInv, StreamOf, SearchAssumption
  <1> StreamTypes
    BY Zenon DEF StreamInv
  <1> USE DEF StreamTypes, Waiting, To
  <1>1. CASE Acquire(s)
    BY ZenonT(60), <1>1 DEF Acquire, AcquireSlot, InsertTarget, RefuseCancelled, Pipe, Still, HeldShape
  <1>2. CASE ForwardRaw(s) \/ Observe(s)
    <2>0. \E x : held' = [held EXCEPT ![s].walk = x]
      BY Zenon, <1>2 DEF ForwardRaw, Observe
    <2>1. HeldShape' /\ \A t \in Searches : held'[t].task = held[t].task
      BY Zenon, <2>0, HeldUpdates
    <2>2. UNCHANGED <<task, seen, got, out, outOpen>>
      BY Zenon, <1>2 DEF ForwardRaw, Observe
    <2> QED
      BY Zenon, <2>1, <2>2 DEF Still
  <1>3. CASE EndWalk(s) \/ Spawn(s)
    BY <1>3 DEF EndWalk, Spawn, Pipe, Still, HeldShape
  <1>4. CASE TakeKeyword(s) \/ TakeSource(s)
    <2>1. CASE UNCHANGED <<seen, held, task>>
      BY Zenon, <1>4, <2>1 DEF TakeKeyword, TakeSource, Still, HeldShape
    <2>2. CASE UNCHANGED <<seen, held>> /\ task' = [task EXCEPT ![s] = "closing"]
      BY Zenon, <1>4, <2>2 DEF TakeKeyword, TakeSource, Still, HeldShape
    <2>3. CASE \E h : /\ h \in seen[s] \/ Cardinality(seen[s]) < ResultCap
                      /\ seen' = [seen EXCEPT ![s] = @ \cup {h}]
                      /\ held' = [held EXCEPT ![s].task = <<h>>]
                      /\ task' = [task EXCEPT ![s] = "sending"]
      <3> PICK h : /\ h \in seen[s] \/ Cardinality(seen[s]) < ResultCap
                   /\ seen' = [seen EXCEPT ![s] = @ \cup {h}]
                   /\ held' = [held EXCEPT ![s].task = <<h>>]
                   /\ task' = [task EXCEPT ![s] = "sending"]
        BY Zenon, <2>3
      <3>1. /\ HeldShape' /\ held'[s].task = <<h>>
            /\ \A t \in Searches : t # s => held'[t].task = held[t].task
        BY Zenon, HeldUpdates
      <3>2. task[s] = "select" /\ UNCHANGED <<got, out, outOpen>>
        BY Zenon, <1>4 DEF TakeKeyword, TakeSource
      <3>3. Accept(s)
        BY Zenon, <3>1, <3>2 DEF Accept
      <3>4. \A t \in Searches : t # s => Still(t)
        BY Zenon, <3>1, <3>2 DEF Still
      <3> QED
        BY Zenon, <3>1, <3>2, <3>3, <3>4
    <2>4. CASE TakeKeyword(s)
      BY Zenon, <2>1, <2>3, <2>4 DEF TakeKeyword, KeywordAccepts
    <2>5. CASE TakeSource(s)
      <3>1. CASE Cardinality(seen[s]) >= ResultCap
        BY <1>0, <2>2, <2>5, <3>1 DEF TakeSource
      <3>2. CASE Cardinality(seen[s]) < ResultCap /\ Head(raw[s]) \in seen[s]
        BY <1>0, <2>1, <2>5, <3>2 DEF TakeSource
      <3>3. CASE Cardinality(seen[s]) < ResultCap /\ Head(raw[s]) \notin seen[s]
        <4>1. /\ seen' = [seen EXCEPT ![s] = @ \cup {Head(raw[s])}]
              /\ held' = [held EXCEPT ![s].task = <<Head(raw[s])>>]
              /\ task' = [task EXCEPT ![s] = "sending"]
          BY <1>0, <2>5, <3>3 DEF TakeSource
        <4> QED
          BY Zenon, <2>3, <3>3, <4>1
      <3> QED
        BY <1>0, <3>1, <3>2, <3>3
    <2> QED
      BY Zenon, <1>4, <2>4, <2>5
  <1>6. CASE StopTaking(s) \/ DropRaw(s)
    BY Zenon, <1>6 DEF StopTaking, DropRaw, Pipe, Still, HeldShape
  <1>7. CASE SendResult(s)
    <2>1. /\ HeldShape' /\ held'[s].task = <<>>
          /\ \A t \in Searches : t # s => held'[t].task = held[t].task
      BY Zenon, <1>7, HeldUpdates DEF SendResult
    <2>2. Send(s)
      BY Zenon, <1>7, <2>1 DEF SendResult, Send
    <2>3. \A t \in Searches : t # s => Still(t)
      BY SMTT(60), <1>7, <2>1 DEF SendResult, Still
    <2> QED
      BY Zenon, <1>7, <2>1, <2>2, <2>3 DEF SendResult
  <1>8. CASE ReleaseTarget(s) \/ ReleaseSlot(s)
    BY Zenon, <1>8 DEF ReleaseTarget, ReleaseSlot, Pipe, Still, HeldShape
  <1>9. CASE Poll(s)
    BY Zenon, <1>9 DEF Poll, Receive, Still, HeldShape
  <1>10. CASE DropStream(s) \/ Cancel(s)
    BY ZenonT(60), <1>10 DEF DropStream, Cancel, Pipe, Abandon, Still, HeldShape
  <1> QED
    BY Zenon, <1>1, <1>2, <1>3, <1>4, <1>6, <1>7, <1>8, <1>9, <1>10 DEF Task, Walk

(* A sequence over a set is one over every larger set.                     *)
LEMMA SeqWiden ==
  ASSUME NEW S, NEW T, S \subseteq T, NEW q \in Seq(S)
  PROVE  q \in Seq(T)
  <1>1. /\ q = [i \in 1 .. Len(q) |-> q[i]] /\ Len(q) \in Nat
        /\ \A i \in 1 .. Len(q) : q[i] \in T
    BY Zenon, LenProperties, ElementOfSeq
  <1> QED
    BY <1>1, IsASeq

(* A sequence holds its head and what its tail holds.                      *)
LEMMA RangeOfHeadTail ==
  ASSUME NEW S, NEW q \in Seq(S), q # <<>>
  PROVE  Range(q) = {Head(q)} \cup Range(Tail(q))
  <1>1. /\ Tail(q) \in Seq(S) /\ Len(Tail(q)) = Len(q) - 1 /\ Len(q) \in Nat /\ Len(q) > 0
        /\ \A i \in 1 .. Len(Tail(q)) : Tail(q)[i] = q[i + 1]
    BY HeadTailProperties, LenProperties, EmptySeq
  <1>2. /\ Range(q) = {q[i] : i \in 1 .. Len(q)}
        /\ Range(Tail(q)) = {Tail(q)[i] : i \in 1 .. Len(Tail(q))}
    BY Zenon, <1>1, RangeEquality
  <1>3. Head(q) = q[1]
    OBVIOUS
  <1>4. \A x : x \in Range(q) <=> x = Head(q) \/ x \in Range(Tail(q))
    <2> TAKE x
    <2>1. ASSUME x \in Range(q) PROVE x = Head(q) \/ x \in Range(Tail(q))
      <3> PICK i \in 1 .. Len(q) : x = q[i]
        BY Zenon, <1>2, <2>1
      <3>1. CASE i = 1
        BY Zenon, <1>3, <3>1
      <3>2. CASE i # 1
        <4>1. i - 1 \in 1 .. Len(Tail(q)) /\ Tail(q)[i - 1] = q[i]
          BY <1>1, <3>2
        <4> QED
          BY Zenon, <1>2, <4>1
      <3> QED
        BY Zenon, <3>1, <3>2
    <2>2. ASSUME x = Head(q) PROVE x \in Range(q)
      BY <1>1, <1>2, <1>3, <2>2
    <2>3. ASSUME x \in Range(Tail(q)) PROVE x \in Range(q)
      <3> PICK i \in 1 .. Len(Tail(q)) : x = Tail(q)[i]
        BY Zenon, <1>2, <2>3
      <3>1. i + 1 \in 1 .. Len(q) /\ x = q[i + 1]
        BY <1>1
      <3> QED
        BY Zenon, <1>2, <3>1
    <2> QED
      BY Zenon, <2>1, <2>2, <2>3
  <1> QED
    BY Zenon, <1>4

(* Each way a stream changes keeps what it holds within what was accepted. *)
LEMMA StreamKept ==
  ASSUME SearchAssumption, NEW s \in Searches, StreamOf(s),
         Accept(s) \/ Send(s) \/ Receive(s) \/ Abandon(s) \/ Still(s)
  PROVE  StreamOf(s)'
  <1> USE DEF StreamOf
  <1>1. CASE Accept(s)
    <2> PICK h : /\ task[s] = "select" /\ task'[s] = "sending"
                 /\ h \in seen[s] \/ Cardinality(seen[s]) < ResultCap
                 /\ seen'[s] = seen[s] \cup {h} /\ Waiting(s)' = <<h>>
                 /\ got'[s] = got[s] /\ out'[s] = out[s] /\ outOpen'[s] = outOpen[s]
      BY Zenon, <1>1 DEF Accept
    <2>1. IsFiniteSet(seen'[s]) /\ Cardinality(seen'[s]) <= ResultCap
      <3>1. CASE h \in seen[s]
        <4>1. seen'[s] = seen[s]
          BY Zenon, <3>1
        <4> QED
          BY Zenon, <4>1
      <3>2. CASE h \notin seen[s]
        <4>1. Cardinality(seen[s]) \in Nat /\ Cardinality(seen[s] \cup {h}) = Cardinality(seen[s]) + 1
          BY Zenon, <3>2, FS_CardinalityType, FS_AddElement
        <4>2. IsFiniteSet(seen[s] \cup {h})
          BY Zenon, FS_AddElement
        <4> QED
          BY SMTT(60), <3>2, <4>1, <4>2 DEF SearchAssumption
      <3> QED
        BY Zenon, <3>1, <3>2
    <2>2. out'[s] \in Seq(seen'[s])
      BY Zenon, SeqWiden
    <2>3. <<h>> \in Seq(seen'[s]) /\ Range(<<h>>) = {h} /\ Range(Waiting(s)) = {}
      BY DEF Range
    <2> QED
      BY Zenon, <2>1, <2>2, <2>3
  <1>2. CASE Send(s)
    <2>1. Waiting(s)' = <<>> /\ <<>> \in Seq(seen'[s]) /\ Range(<<>>) = {}
      BY <1>2, EmptySeq DEF Send, Range
    <2>2. out[s] \o Waiting(s) \in Seq(seen[s])
      BY Zenon, ConcatProperties
    <2>3. Range(out[s] \o Waiting(s)) = Range(out[s]) \cup Range(Waiting(s))
      <3>1. out[s] \in Seq(seen[s]) /\ Waiting(s) \in Seq(seen[s])
        OBVIOUS
      <3> HIDE DEF StreamOf
      <3> QED
        BY <3>1, RangeConcatenation
    <2> QED
      BY Zenon, <1>2, <2>1, <2>2, <2>3 DEF Send
  <1>3. CASE Receive(s)
    <2>1. /\ Tail(out[s]) \in Seq(seen[s]) /\ Head(out[s]) \in seen[s]
      BY Zenon, <1>3, HeadTailProperties DEF Receive
    <2>2. Range(out[s]) = {Head(out[s])} \cup Range(Tail(out[s]))
      BY Zenon, <1>3, RangeOfHeadTail DEF Receive
    <2> QED
      BY Zenon, <1>3, <2>1, <2>2 DEF Receive
  <1>4. CASE Abandon(s)
    BY Zenon, <1>4, EmptySeq DEF Abandon
  <1>5. CASE Still(s)
    BY Zenon, <1>5 DEF Still
  <1> QED
    BY Zenon, <1>1, <1>2, <1>3, <1>4, <1>5

(***************************************************************************)
(* A stream never delivers more distinct results than result_cap, and a    *)
(* caller that drains it to the end gets everything the search task        *)
(* accepted (the bounded channels of kad-dht/search.rs lose nothing).      *)
(***************************************************************************)
THEOREM StreamsStayWithinCap ==
  ASSUME SearchAssumption
  PROVE  Spec => []StreamWithinCap
  <1>1. Init => StreamInv
    <2> SUFFICES ASSUME Init PROVE StreamInv
      OBVIOUS
    <2>1. Cardinality({}) = 0 /\ IsFiniteSet({}) /\ <<>> \in Seq({}) /\ Range(<<>>) = {}
      BY FS_EmptySet, EmptySeq DEF Range
    <2>2. StreamTypes
      BY Zenon DEF Init, StreamTypes, HeldShape
    <2>3. ASSUME NEW s \in Searches PROVE StreamOf(s)
      <3>1. /\ seen[s] = {} /\ got[s] = {} /\ out[s] = <<>> /\ task[s] = "idle"
            /\ Waiting(s) = <<>>
        BY Zenon DEF Init, Waiting
      <3> QED
        BY <2>1, <3>1 DEF StreamOf, SearchAssumption
    <2> QED
      BY Zenon, <2>2, <2>3 DEF StreamInv
  <1>2. StreamInv /\ [Next]_vars => StreamInv'
    <2>1. ASSUME StreamInv, Next PROVE StreamInv'
      BY Zenon, <2>1, StepsAreStreamSteps, StreamKept DEF StreamInv
    <2>2. ASSUME StreamInv, UNCHANGED vars PROVE StreamInv'
      BY Zenon, <2>2 DEF vars, StreamInv, StreamTypes, HeldShape, StreamOf, Waiting
    <2> QED
      BY Zenon, <2>1, <2>2
  <1>3. StreamInv => StreamWithinCap
    <2> SUFFICES ASSUME StreamInv, NEW s \in Searches
                 PROVE  /\ Cardinality(got[s]) <= ResultCap
                        /\ (task[s] = "done" /\ outOpen[s] /\ out[s] = <<>>) => got[s] = seen[s]
      <3>1. ASSUME StreamInv PROVE DOMAIN task = Searches
        BY <3>1 DEF StreamInv, StreamTypes
      <3> QED
        BY Zenon, <3>1 DEF StreamWithinCap
    <2>1. StreamOf(s)
      BY Zenon DEF StreamInv
    <2>2. Cardinality(got[s]) <= Cardinality(seen[s]) /\ Cardinality(got[s]) \in Nat
          /\ Cardinality(seen[s]) \in Nat
      BY Zenon, <2>1, FS_Subset, FS_CardinalityType DEF StreamOf
    <2>3. Range(<<>>) = {}
      BY DEF Range
    <2>4. Cardinality(got[s]) <= ResultCap
      BY <2>1, <2>2 DEF StreamOf, SearchAssumption
    <2>5. (task[s] = "done" /\ outOpen[s] /\ out[s] = <<>>) => got[s] = seen[s]
      BY Zenon, <2>1, <2>3 DEF StreamOf
    <2> QED
      BY Zenon, <2>4, <2>5
  <1> QED
    BY <1>1, <1>2, <1>3, PTL DEF Spec

=============================================================================
