------------------------------ MODULE KadSearch ------------------------------
(***************************************************************************)
(* Concurrent Kad searches: the permits that bound them                    *)
(* (kad-dht/node/concurrency.rs) and the two channels a search's results   *)
(* cross (kad-dht/search.rs).  The traversal task sends observations to    *)
(* the search task, which filters them and sends results to the stream the *)
(* caller polls; both channels are bounded, so each task can block on the  *)
(* next.  KadTraversal and KadSearchPhase model what the traversal does;   *)
(* here it produces observations until its deadline or cancellation.       *)
(*                                                                         *)
(* The caller drains its stream to the end or drops it, as every caller in *)
(* the repository does.                                                    *)
(***************************************************************************)
EXTENDS Naturals, Sequences, FiniteSets

CONSTANTS
  Searches,        \* search and publish calls
  Target,          \* the key each is for
  Style,           \* "keyword", "source" (also notes) or "publish"
  MaxConcurrent,   \* permits of the node
  Buffer,          \* SEARCH_RESULT_STREAM_BUFFER
  Hashes,          \* identities results may have
  ResultCap,       \* result_cap
  MaxObservations  \* bound: observations one traversal makes

SearchAssumption ==
  /\ IsFiniteSet(Searches)
  /\ MaxConcurrent \in Nat /\ Buffer \in Nat /\ ResultCap \in Nat /\ MaxObservations \in Nat

VARIABLES
  slots,      \* semaphore permits in use
  inFlight,   \* targets being searched
  task,       \* the search task, from the caller's request on
  walk,       \* its traversal task: "none", "running", "sending", "ended"
  made,       \* observations made by the traversal
  held,       \* observation, or result, a task is blocked sending
  raw, rawOpen,   \* channel from traversal to search task; is it received?
  out, outOpen,   \* channel to the caller; is it received?
  seen,       \* seen_hashes / seen_sources
  got,        \* results the caller took from the stream
  cancelled

vars == <<slots, inFlight, task, walk, made, held, raw, rawOpen, out, outOpen, seen, got, cancelled>>

Permitted == {"admitted", "select", "sending", "closing", "releasing"}
Ended == {"refused", "done"}

-----------------------------------------------------------------------------
Init ==
  /\ slots = 0 /\ inFlight = {}
  /\ task = [s \in Searches |-> "idle"]
  /\ walk = [s \in Searches |-> "none"]
  /\ made = [s \in Searches |-> 0]
  /\ held = [s \in Searches |-> [walk |-> <<>>, task |-> <<>>]]
  /\ raw = [s \in Searches |-> <<>>] /\ rawOpen = [s \in Searches |-> TRUE]
  /\ out = [s \in Searches |-> <<>>] /\ outOpen = [s \in Searches |-> TRUE]
  /\ seen = [s \in Searches |-> {}]
  /\ got = [s \in Searches |-> {}]
  /\ cancelled = [s \in Searches |-> FALSE]

Pipe == <<made, held, raw, rawOpen, out, outOpen, seen, got>>

To(s, pc) == task' = [task EXCEPT ![s] = pc]

\* prepare_search_start: a token cancelled already refuses the search.
RefuseCancelled(s) ==
  /\ task[s] = "idle" /\ cancelled[s]
  /\ To(s, "refused")
  /\ UNCHANGED <<slots, inFlight, walk, Pipe, cancelled>>

\* try_acquire, first the semaphore ...
AcquireSlot(s) ==
  /\ task[s] = "idle" /\ ~cancelled[s]
  /\ IF slots < MaxConcurrent THEN slots' = slots + 1 /\ To(s, "slot")
                              ELSE UNCHANGED slots /\ To(s, "refused")
  /\ UNCHANGED <<inFlight, walk, Pipe, cancelled>>

\* (A target that is being searched for is not looked for.)
InsertTargetAgain(s) ==
  /\ task[s] = "slot"
  /\ inFlight' = inFlight \cup {Target[s]} /\ To(s, "admitted")
  /\ UNCHANGED <<slots, walk, Pipe, cancelled>>

\* ... then the set of targets; a target in it gives the slot back.
InsertTarget(s) ==
  /\ task[s] = "slot"
  /\ IF Target[s] \in inFlight
     THEN slots' = slots - 1 /\ UNCHANGED inFlight /\ To(s, "refused")
     ELSE inFlight' = inFlight \cup {Target[s]} /\ To(s, "admitted") /\ UNCHANGED slots
  /\ UNCHANGED <<walk, Pipe, cancelled>>

\* The second look at the token, and the spawn of search and traversal tasks.
Spawn(s) ==
  /\ task[s] = "admitted"
  /\ IF cancelled[s] THEN To(s, "releasing") /\ UNCHANGED walk
     ELSE /\ To(s, IF Style[s] = "publish" THEN "closing" ELSE "select")
          /\ walk' = [walk EXCEPT ![s] = "running"]
  /\ UNCHANGED <<slots, inFlight, Pipe, cancelled>>

-----------------------------------------------------------------------------
\* forward_search_result_entry: the traversal makes an observation and sends it,
\* waiting for room; a dropped receiver lets it go on.
Observe(s) ==
  /\ walk[s] = "running" /\ Style[s] # "publish"
  /\ made[s] < MaxObservations
  /\ \E h \in Hashes : held' = [held EXCEPT ![s].walk = <<h>>]
  /\ made' = [made EXCEPT ![s] = @ + 1]
  /\ walk' = [walk EXCEPT ![s] = "sending"]
  /\ UNCHANGED <<slots, inFlight, task, raw, rawOpen, out, outOpen, seen, got, cancelled>>

ForwardRaw(s) ==
  /\ walk[s] = "sending"
  /\ \/ rawOpen[s] /\ Len(raw[s]) < Buffer /\ raw' = [raw EXCEPT ![s] = @ \o held[s].walk]
     \/ ~rawOpen[s] /\ UNCHANGED raw
  /\ held' = [held EXCEPT ![s].walk = <<>>]
  /\ walk' = [walk EXCEPT ![s] = "running"]
  /\ UNCHANGED <<slots, inFlight, task, made, rawOpen, out, outOpen, seen, got, cancelled>>

\* The traversal's deadline or its token; a publish also has an outer timeout.
EndWalk(s) ==
  /\ walk[s] = "running"
  /\ walk' = [walk EXCEPT ![s] = "ended"]
  /\ UNCHANGED <<slots, inFlight, task, Pipe, cancelled>>

-----------------------------------------------------------------------------
\* (A cap that is never looked at.)
KeywordAcceptsAll(s, h) == TRUE

\* A keyword result past the cap is skipped, a known hash is sent again.
KeywordAccepts(s, h) == h \in seen[s] \/ Cardinality(seen[s]) < ResultCap

\* The search task takes one observation.
TakeKeyword(s) ==
  LET h == Head(raw[s])
  IN /\ task[s] = "select" /\ Style[s] = "keyword" /\ raw[s] # <<>>
     /\ raw' = [raw EXCEPT ![s] = Tail(@)]
     /\ IF KeywordAccepts(s, h)
        THEN /\ seen' = [seen EXCEPT ![s] = @ \cup {h}]
             /\ held' = [held EXCEPT ![s].task = <<h>>]
             /\ To(s, "sending")
        ELSE UNCHANGED <<seen, held, task>>
     /\ UNCHANGED <<slots, inFlight, walk, made, rawOpen, out, outOpen, got, cancelled>>

\* Sources and notes stop at the cap, and drop repeated ones.
TakeSource(s) ==
  LET h == Head(raw[s])
  IN /\ task[s] = "select" /\ Style[s] = "source" /\ raw[s] # <<>>
     /\ raw' = [raw EXCEPT ![s] = Tail(@)]
     /\ CASE Cardinality(seen[s]) >= ResultCap -> To(s, "closing") /\ UNCHANGED <<seen, held>>
          [] Cardinality(seen[s]) < ResultCap /\ h \in seen[s] -> UNCHANGED <<seen, held, task>>
          [] OTHER -> /\ seen' = [seen EXCEPT ![s] = @ \cup {h}]
                      /\ held' = [held EXCEPT ![s].task = <<h>>]
                      /\ To(s, "sending")
     /\ UNCHANGED <<slots, inFlight, walk, made, rawOpen, out, outOpen, got, cancelled>>

\* The loop ends: raw channel closed and empty, or cancelled.
StopTaking(s) ==
  /\ task[s] = "select"
  /\ cancelled[s] \/ (raw[s] = <<>> /\ walk[s] = "ended")
  /\ To(s, "closing")
  /\ UNCHANGED <<slots, inFlight, walk, Pipe, cancelled>>

\* tx.send(result).await: waits for room whatever the token says.
SendResult(s) ==
  /\ task[s] = "sending"
  /\ \/ /\ outOpen[s] /\ Len(out[s]) < Buffer
        /\ out' = [out EXCEPT ![s] = @ \o held[s].task]
        /\ To(s, "select")
     \/ ~outOpen[s] /\ UNCHANGED out /\ To(s, "closing")
  /\ held' = [held EXCEPT ![s].task = <<>>]
  /\ UNCHANGED <<slots, inFlight, walk, made, raw, rawOpen, outOpen, seen, got, cancelled>>

\* drop(raw_rx), before the traversal is awaited.
DropRawLate(s) ==
  /\ task[s] = "closing" /\ rawOpen[s] /\ walk[s] = "ended"
  /\ rawOpen' = [rawOpen EXCEPT ![s] = FALSE]
  /\ raw' = [raw EXCEPT ![s] = <<>>]
  /\ UNCHANGED <<slots, inFlight, task, walk, made, held, out, outOpen, seen, got, cancelled>>

DropRaw(s) ==
  /\ task[s] = "closing" /\ rawOpen[s]
  /\ rawOpen' = [rawOpen EXCEPT ![s] = FALSE]
  /\ raw' = [raw EXCEPT ![s] = <<>>]
  /\ UNCHANGED <<slots, inFlight, task, walk, made, held, out, outOpen, seen, got, cancelled>>

\* traversal.await, the completion receipt, and the first half of the permit's drop ...
ReleaseTarget(s) ==
  /\ \/ task[s] = "closing" /\ ~rawOpen[s] /\ walk[s] = "ended"
     \/ task[s] = "releasing" /\ Target[s] \in inFlight /\ walk[s] = "none"
  /\ inFlight' = inFlight \ {Target[s]}
  /\ walk' = [walk EXCEPT ![s] = "ended"]
  /\ To(s, "releasing")
  /\ UNCHANGED <<slots, Pipe, cancelled>>

ReleaseSlotKept(s) ==
  /\ task[s] = "releasing" /\ walk[s] = "ended"
  /\ To(s, "done")
  /\ UNCHANGED <<slots, inFlight, walk, Pipe, cancelled>>

\* ... then the semaphore slot it holds.
ReleaseSlot(s) ==
  /\ task[s] = "releasing" /\ walk[s] = "ended"
  /\ slots' = slots - 1
  /\ To(s, "done")
  /\ UNCHANGED <<inFlight, walk, Pipe, cancelled>>

-----------------------------------------------------------------------------
\* The caller polls its stream, drops it, or cancels.
Poll(s) ==
  /\ outOpen[s] /\ out[s] # <<>>
  /\ got' = [got EXCEPT ![s] = @ \cup {Head(out[s])}]
  /\ out' = [out EXCEPT ![s] = Tail(@)]
  /\ UNCHANGED <<slots, inFlight, task, walk, made, held, raw, rawOpen, outOpen, seen, cancelled>>

DropStream(s) ==
  /\ outOpen[s] /\ task[s] \in {"select", "sending", "closing"} /\ Style[s] # "publish"
  /\ outOpen' = [outOpen EXCEPT ![s] = FALSE]
  /\ out' = [out EXCEPT ![s] = <<>>]
  /\ UNCHANGED <<slots, inFlight, task, walk, made, held, raw, rawOpen, seen, got, cancelled>>

Cancel(s) ==
  /\ ~cancelled[s] /\ task[s] \notin Ended /\ Style[s] # "publish"
  /\ cancelled' = [cancelled EXCEPT ![s] = TRUE]
  /\ UNCHANGED <<slots, inFlight, task, walk, Pipe>>

Acquire(s) == AcquireSlot(s) \/ InsertTarget(s) \/ RefuseCancelled(s)
Walk(s) == ForwardRaw(s) \/ EndWalk(s)
Task(s) == \/ Spawn(s) \/ TakeKeyword(s) \/ TakeSource(s) \/ StopTaking(s) \/ SendResult(s)
           \/ DropRaw(s) \/ ReleaseTarget(s) \/ ReleaseSlot(s)

Next == \E s \in Searches :
          \/ Acquire(s) \/ Walk(s) \/ Observe(s) \/ Task(s)
          \/ Poll(s) \/ DropStream(s) \/ Cancel(s)

Spec == Init /\ [][Next]_vars

-----------------------------------------------------------------------------
TypeOK ==
  /\ slots \in 0 .. MaxConcurrent
  /\ inFlight \subseteq {Target[s] : s \in Searches}
  /\ task \in [Searches -> {"idle", "slot"} \cup Permitted \cup Ended]
  /\ walk \in [Searches -> {"none", "running", "sending", "ended"}]
  /\ \A s \in Searches : /\ Len(raw[s]) <= Buffer /\ Len(out[s]) <= Buffer
                         /\ made[s] \in 0 .. MaxObservations
  /\ seen \in [Searches -> SUBSET Hashes] /\ got \in [Searches -> SUBSET Hashes]

\* Between taking and dropping the permit; and between the two ends of the hold on the
\* target.
Holding(s) == task[s] \in {"slot"} \cup Permitted
Owning(s) == \/ task[s] \in {"admitted", "select", "sending", "closing"}
             \/ task[s] = "releasing" /\ walk[s] = "none"

Pool == INSTANCE PermitPool WITH
  Callers <- Searches, Key <- Target, Size <- MaxConcurrent,
  holders <- {s \in DOMAIN task : Holding(s)}, owners <- {s \in DOMAIN task : Owning(s)}

(***************************************************************************)
(* The semaphore and the set of targets, taken and given back in two steps *)
(* each, implement a pool of permits with one owner per target             *)
(* (SearchConcurrency in concurrency.rs).                                  *)
(***************************************************************************)
PermitsFromPool == Pool!PoolSpec

(***************************************************************************)
(* Permits are never lost or doubled: the slots in use are exactly those   *)
(* of the searches between acquiring and dropping their permit, and of two *)
(* searches for one target at most one walks (AlreadySearchingFor).        *)
(***************************************************************************)
PermitsAccounted ==
  /\ slots = Cardinality({s \in DOMAIN task : task[s] \in {"slot"} \cup Permitted})
  /\ \A s, t \in DOMAIN task :
       (s # t /\ Target[s] = Target[t]) =>
         ~(walk[s] \in {"running", "sending"} /\ walk[t] \in {"running", "sending"})

(***************************************************************************)
(* The stream never delivers more distinct results than the cap, and       *)
(* nothing the search task accepted is missing for a caller that drained   *)
(* its stream to the end without cancelling.                               *)
(***************************************************************************)
StreamWithinCap ==
  \A s \in DOMAIN task :
    /\ Cardinality(got[s]) <= ResultCap
    /\ (task[s] = "done" /\ outOpen[s] /\ out[s] = <<>>) => got[s] = seen[s]

=============================================================================
