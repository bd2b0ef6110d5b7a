-------------------------- MODULE DownloadAttempts --------------------------
(***************************************************************************)
(* The download driver of emulebb-core: the transfers and the operator's   *)
(* calls on them, the background attempt of each transfer with its dedup   *)
(* slot and cancel token, the peer-centric source registry with its        *)
(* leases, holds and dead list, and the UDP reask loop that keeps the      *)
(* lease of a source detached from TCP.                                    *)
(*                                                                         *)
(* A timer is the time left on a stamp (Tick lets it run), so a stamp that *)
(* the code compares with a constant is a small number.  What a peer       *)
(* session does is its outcome; what the searches find is a set of peers.  *)
(***************************************************************************)
EXTENDS SourceLeases, Naturals, FiniteSets

CONSTANTS
    File, Peer,
    Score,          \* candidate_score of each file: priority, then needed parts
    SoftCap,        \* sources per file past which no new one is engaged; 0: none
    PurgeAt,        \* sources per file at which a held one is purged; 0: never
    Cooldown, DeadBlock, Hold, Ttl,     \* 20, 45, 58 and 60 minutes, in ticks
    Rounds,         \* ED2K_DOWNLOAD_SOURCE_REQUERY_ROUNDS
    MaxAttempts,    \* bound: attempts started in a behaviour
    MaxCalls,       \* bound: calls of the operator in a behaviour
    MaxTicks        \* bound: ticks in a behaviour

VARIABLES
    xfer,       \* the public state of each transfer, "none" when there is none
    spawned,    \* files with a queued attempt task that has not run yet
    retry,      \* files with a delayed retry task
    slot,       \* active_download_attempts
    token,      \* download_cancels: the attempt whose cancel token is installed
    next,       \* next_download_cancel_id
    left,       \* candidates (peer, file): 0 none, 1 stale, more: its time to live, plus 1
    cool, hold, dead,   \* time left on attempt stamps, holds and dead entries
    purged,     \* files whose purge window is closed
    calls, ticks

vars == <<xfer, spawned, retry, slot, token, att, next, left, leased, act,
          cool, hold, dead, purged, reask, freed, lost, net, calls, ticks>>

Endpoint == {EndpointOf[p] : p \in Peer}
Pair == Peer \X File
Id == 1 .. MaxAttempts

AttemptsAssumption ==
    /\ Score \in [File -> Nat] /\ \A f, g \in File : Score[f] = Score[g] => f = g
    /\ {Cooldown, DeadBlock, Hold, Ttl, MaxAttempts} \subseteq Nat
    /\ 0 < Cooldown /\ Cooldown <= DeadBlock /\ DeadBlock <= Hold /\ Hold <= Ttl

Idle == [file |-> CHOOSE f \in File : TRUE, pc |-> "unused", cancelled |-> FALSE,
         found |-> {}, tried |-> {}, taken |-> {}, kept |-> {}, delay |-> 0,
         round |-> 0, todo |-> {}, res |-> "none"]

Init ==
    /\ xfer = [f \in File |-> "downloading"]
    /\ spawned = {f \in File : xfer[f] = "downloading"} /\ retry = {} /\ slot = {}
    /\ token = [f \in File |-> 0]
    /\ att = [i \in Id |-> Idle] /\ next = 1
    /\ left = [c \in Pair |-> 0]
    /\ leased = {} /\ act = {}
    /\ cool = [k \in Endpoint \X File |-> 0]
    /\ hold = [k \in Endpoint \X File |-> 0]
    /\ dead = [c \in Pair |-> 0]
    /\ purged = {} /\ reask = {} /\ freed = {} /\ lost = {} /\ net = "on" /\ calls = 0 /\ ticks = 0

transfers == <<xfer, spawned, retry, slot, token>>
registry == <<left, leased, act, cool, hold, dead, purged>>
loop == <<reask, freed, lost>>

-----------------------------------------------------------------------------
\* should_retry_download_attempt_state
Wanted(f) == xfer[f] \in {"downloading", "queued"}

\* The registered candidates, and those prune_stale_candidates leaves.
cand == {c \in Pair : left[c] > 0}
Fresh == {c \in Pair : left[c] > 1}
Without(gone) == [c \in Pair |-> IF c \in gone THEN 0 ELSE left[c]]

\* candidate_count_for_file
Count(f) == Cardinality({c \in Fresh : c[2] = f})

\* The holds without those of the candidates in gone.
Unheld(gone) == [k \in Endpoint \X File |->
    IF \E c \in gone : k = <<EndpointOf[c[1]], c[2]>> THEN 0 ELSE hold[k]]

\* lease_best_for_file, once the candidates are kept: the file must be the best of
\* all the files the peer is a candidate for.
Leasable(p, f, kept) ==
    /\ cool[<<EndpointOf[p], f>>] = 0 /\ hold[<<EndpointOf[p], f>>] = 0
    /\ <<p, f>> \in kept
    /\ \A g \in File : <<p, g>> \in kept => Score[g] <= Score[f]
    /\ p \notin leased

\* wanted_a4af_swap_target: the best other wanted file among c.
SwapTargets(p, f, c) ==
    LET others == {g \in File \ {f} : <<p, g>> \in c /\ Wanted(g)}
    IN {g \in others : \A h \in others : Score[h] <= Score[g]}

\* A mutated form: the registry's lease stays behind.
ReleaseEndpointsOnly(es) == act' = act \ es /\ leased' = leased

\* release_direct_download_source_leases
ReleaseEndpoints(es) ==
    /\ act' = act \ es
    /\ leased' = {p \in leased : EndpointOf[p] \notin es}

\* release_file, with what its callers do to the engaged endpoints.
ReleaseFile(f) ==
    LET kept == {c \in cand : c[2] # f}
        gone == {p \in leased : ~ \E g \in File : <<p, g>> \in kept}
    IN /\ left' = Without(cand \ kept)
       /\ hold' = [k \in Endpoint \X File |-> IF k[2] = f THEN 0 ELSE hold[k]]
       /\ purged' = purged \ {f}
       /\ leased' = leased \ gone
       /\ act' = act \ {EndpointOf[p] : p \in gone}
       /\ UNCHANGED <<cool, dead>>

\* register_download_source_candidates: dead-listed pairs stay out.
Register(ps, f) ==
    LET new == {<<p, f>> : p \in {q \in ps : dead[<<q, f>>] = 0}}
    IN /\ left' = [c \in Pair |-> IF c \in new THEN Ttl + 2 ELSE left[c]]
       /\ UNCHANGED <<leased, act, cool, hold, dead, purged>>

\* queue_ed2k_download_attempt, fenced by the task supervisor.
Spawn(fs) == spawned' = IF net = "on" THEN spawned \cup fs ELSE spawned

-----------------------------------------------------------------------------
\* The operator.

Call == calls < MaxCalls /\ calls' = calls + 1

\* upsert_transfer_from_parts of a new transfer that is not created paused.
Create(f) ==
    /\ Call /\ xfer[f] = "none"
    /\ xfer' = [xfer EXCEPT ![f] = "downloading"]
    /\ Spawn({f})
    /\ UNCHANGED <<retry, slot, token, att, next, registry, loop, net, ticks>>

\* cancel_download_attempt of the files in fs.
Cancelled(fs) == [i \in Id |->
    IF \E f \in fs : token[f] = i THEN [att[i] EXCEPT !.cancelled = TRUE] ELSE att[i]]

\* set_transfer_control_state: the public state is written after the cancel.
Control(f, s) ==
    /\ Call /\ xfer[f] # "none"
    /\ att' = Cancelled({f})
    /\ xfer' = [xfer EXCEPT ![f] = s]
    /\ UNCHANGED <<spawned, retry, slot, token, next, registry, loop, net, ticks>>

\* resume_transfer
Resume(f) ==
    /\ Call /\ xfer[f] \notin {"none", "completed", "stopped"}
    /\ xfer' = [xfer EXCEPT ![f] = "downloading"]
    /\ Spawn({f})
    /\ UNCHANGED <<retry, slot, token, att, next, registry, loop, net, ticks>>

\* delete_transfer_files: teardown_download_for_delete, then the row.
Delete(f) ==
    /\ Call /\ xfer[f] # "none"
    /\ att' = Cancelled({f})
    /\ ReleaseFile(f)
    /\ slot' = slot \ {f} /\ token' = [token EXCEPT ![f] = 0]
    /\ xfer' = [xfer EXCEPT ![f] = "none"]
    /\ UNCHANGED <<spawned, retry, next, loop, net, ticks>>

\* recheck_transfer: the attempt is cancelled, the parts are read again, and the
\* outcome is the manifest's.
Recheck(f) ==
    /\ Call /\ xfer[f] \notin {"none", "hashing"}
    /\ att' = Cancelled({f})
    /\ xfer' = [xfer EXCEPT ![f] = "hashing"]
    /\ UNCHANGED <<spawned, retry, slot, token, next, registry, loop, net, ticks>>

RecheckDone(f) ==
    /\ xfer[f] = "hashing"
    /\ \E s \in {"downloading", "queued", "paused", "completed"} :
         /\ xfer' = [xfer EXCEPT ![f] = s]
         /\ IF s = "downloading" THEN Spawn({f}) ELSE UNCHANGED spawned
    /\ UNCHANGED <<retry, slot, token, att, next, registry, loop, net, calls, ticks>>

\* delete_completed_transfer_row, clear_completed_transfer_rows
ClearCompleted(f) ==
    /\ Call /\ xfer[f] = "completed"
    /\ xfer' = [xfer EXCEPT ![f] = "none"]
    /\ UNCHANGED <<spawned, retry, slot, token, att, next, registry, loop, net, ticks>>

\* mark_active_downloads_insufficient
Insufficient == [f \in File |-> IF Wanted(f) THEN "insufficient" ELSE xfer[f]]

\* retry_insufficient_downloads, when the volumes have room again.
RetryInsufficient ==
    LET fs == {f \in File : xfer[f] = "insufficient"}
    IN /\ fs # {}
       /\ xfer' = [f \in File |-> IF f \in fs THEN "downloading" ELSE xfer[f]]
       /\ Spawn(fs)
       /\ UNCHANGED <<retry, slot, token, att, next, registry, loop, net, calls, ticks>>

-----------------------------------------------------------------------------
\* The attempt's task.

\* run_queued_ed2k_download_attempt up to the attempt: the dedup slot, a fresh
\* cancel token, the guard.
Start(f) ==
    /\ f \in spawned /\ spawned' = spawned \ {f}
    /\ IF f \in slot
       THEN UNCHANGED <<slot, token, att, next>>
       ELSE /\ next <= MaxAttempts /\ next' = next + 1
            /\ slot' = slot \cup {f} /\ token' = [token EXCEPT ![f] = next]
            /\ att' = [att EXCEPT ![next] = [Idle EXCEPT !.file = f, !.pc = "begin"]]
    /\ UNCHANGED <<xfer, retry, registry, loop, net, calls, ticks>>

Returned(a, r) == [Idle EXCEPT !.file = a.file, !.cancelled = a.cancelled,
                              !.pc = "settle", !.res = r]

Return(i, r) == att' = [att EXCEPT ![i] = Returned(att[i], r)]

\* run_ed2k_download_attempt up to its loop: a pending final rehash, the disk
\* guard, the first source acquisition.  Without a network or a source the verdict is
\* "queued" (or "downloading", which is retried alike).
Begin(i) ==
    LET a == att[i] f == a.file IN
    /\ a.pc = "begin"
    /\ \/ a.cancelled /\ Return(i, "none") /\ UNCHANGED <<xfer, registry>>
       \/ /\ ~a.cancelled
          /\ \E r \in {"completed", "queued", "error"} : Return(i, r)
          /\ UNCHANGED <<xfer, registry>>
       \/ /\ ~a.cancelled /\ xfer' = Insufficient
          /\ att' = [Cancelled(File) EXCEPT ![i] = Returned(att[i], "insufficient")]
          /\ UNCHANGED registry
       \/ /\ ~a.cancelled
          /\ \E ps \in SUBSET Peer \ {{}} :
               /\ Register(ps, f)
               /\ att' = [att EXCEPT ![i].pc = "round", ![i].found = ps]
          /\ UNCHANGED xfer
    /\ UNCHANGED <<spawned, retry, slot, token, next, loop, net, calls, ticks>>

\* The end of the loop: the return ladder.  Progress, a callback, a deferral, a queued
\* peer or a failed dial keeps the transfer "downloading"; without any it is "queued".
End(i) ==
    \/ att[i].cancelled /\ Return(i, "none")
    \/ ~att[i].cancelled /\ \E r \in {"downloading", "queued", "error"} : Return(i, r)

\* The longer of the two stamps that defer a source (endpoint_retry_delay).
RetryDelay(p, f) ==
    LET k == <<EndpointOf[p], f>> IN IF cool[k] > hold[k] THEN cool[k] ELSE hold[k]

\* can_engage_file_source: the live candidates of the file, those asked about
\* included, are fewer than the soft cap.
CanEngage(f) == SoftCap = 0 \/ Count(f) < SoftCap

\* The leases a turn may end up with: of the sources that can be leased, one for
\* every endpoint (the first of the list; the others find the endpoint engaged).
LeaseSets(ps, f) ==
    LET able == {p \in ps : CanEngage(f) /\ EndpointOf[p] \notin act /\ Leasable(p, f, Fresh)}
    IN {s \in SUBSET able : /\ \A p \in able : \E q \in s : EndpointOf[q] = EndpointOf[p]
                            /\ \A p, q \in s : EndpointOf[q] = EndpointOf[p] => p = q}

\* One turn of the loop up to the dials, acquire_direct_download_source_leases (the
\* callback routes before it are CallbackTickets').  A source
\* that is not leased is released, and deferred; when all are, the turn sleeps for
\* the shortest of their delays, or ends the loop when none has one.
Acquire(i) ==
    LET a == att[i] f == a.file
        new == {p \in a.found : EndpointOf[p] \notin a.tried /\ dead[<<p, f>>] = 0}
        delays(ps) == {RetryDelay(p, f) : p \in {q \in ps : CanEngage(f)
                             /\ EndpointOf[q] \notin act /\ RetryDelay(q, f) > 0}}
    IN
    /\ a.pc = "round"
    /\ \/ a.cancelled /\ Return(i, "none") /\ UNCHANGED <<registry, lost>>
       \/ /\ ~a.cancelled
          /\ \E got \in LeaseSets(new, f) :
             LET es == {EndpointOf[p] : p \in got}
                 ds == delays(new \ got)
             IN /\ leased' = (leased \ {p \in new : EndpointOf[p] \notin act}) \cup got
                /\ act' = act \cup es /\ lost' = lost \ got
                /\ cool' = [k \in Endpoint \X File |->
                              IF k[1] \in es /\ k[2] = f THEN Cooldown ELSE cool[k]]
                /\ \/ got = {} /\ new # {} /\ ds = {} /\ End(i)
                   \/ /\ got # {} \/ new = {} \/ ds # {}
                      /\ att' = [att EXCEPT ![i] = [a EXCEPT
                           !.pc = IF got # {} THEN "dialing"
                                  ELSE IF new = {} THEN "requery" ELSE "wait",
                           !.delay = IF got = {} /\ ds # {}
                                     THEN CHOOSE d \in ds : \A e \in ds : d <= e ELSE 0,
                           !.tried = @ \cup es, !.taken = got, !.kept = {}]]
          /\ left' = Without(cand \ Fresh) /\ hold' = Unheld(cand \ Fresh)
          /\ UNCHANGED <<dead, purged>>
    /\ UNCHANGED <<transfers, next, reask, freed, net, calls, ticks>>

\* A dialled peer queues us and its session detaches onto the UDP reask loop, which
\* gets the registration unless the command channel is full or closed
\* (ReaskSourceHandle::detach); the session reports the source detached either way.
Detach(i) ==
    /\ att[i].pc = "dialing"
    /\ \E p \in att[i].taken \ att[i].kept :
         /\ att' = [att EXCEPT ![i].kept = @ \cup {p}]
         /\ \/ net = "on" /\ reask' = reask \cup {<<p, att[i].file>>} /\ UNCHANGED lost
            \/ lost' = lost \cup {p} /\ UNCHANGED reask
    /\ UNCHANGED <<transfers, next, registry, freed, net, calls, ticks>>

\* The dials end (run_ed2k_direct_downloads): every leased endpoint but the detached
\* ones is released, then the outcomes are applied, per peer and file: the file itself
\* and the wanted alternates the same connection may have visited.  A failure of the
\* driver releases the detached endpoints too.
DialEnd(i) ==
    LET a == att[i]
        done == a.taken \ a.kept
    IN
    /\ a.pc = "dialing"
    /\ \/ /\ ReleaseEndpoints({EndpointOf[p] : p \in done})
          /\ att' = [att EXCEPT ![i].pc = "outcome", ![i].taken = {},
               ![i].todo = {c \in done \X File : c[2] = a.file \/ (c \in cand /\ Wanted(c[2]))}]
       \/ ReleaseEndpoints({EndpointOf[p] : p \in a.taken}) /\ Return(i, "error")
    /\ UNCHANGED <<transfers, next, left, cool, hold, dead, purged, loop, net, calls, ticks>>

Outcome(i, c) == att[i].pc = "outcome" /\ c \in att[i].todo /\ att' = [att EXCEPT ![i].todo = @ \ {c}]

\* A mutated form: the held source is not refreshed.
NoNeededPartsAging(i, c) ==
    /\ Outcome(i, c) /\ c \in cand
    /\ hold' = [hold EXCEPT ![<<EndpointOf[c[1]], c[2]>>] = Hold]
    /\ UNCHANGED <<transfers, next, left, leased, act, cool, dead, purged, loop, net, calls, ticks>>

\* No needed parts: swap_no_needed_parts_sources drives the best other file of the
\* peer; hold_no_needed_parts_sources purges the source, or holds and refreshes it.
NoNeededParts(i, c) ==
    LET key == <<EndpointOf[c[1]], c[2]>>
        purge == PurgeAt # 0 /\ Count(c[2]) >= PurgeAt /\ c[2] \notin purged
    IN /\ Outcome(i, c)
       /\ Spawn(SwapTargets(c[1], c[2], cand))
       /\ purged' = IF purge THEN purged \cup {c[2]} ELSE purged
       /\ hold' = IF c \notin cand THEN hold ELSE [hold EXCEPT ![key] = IF purge THEN 0 ELSE Hold]
       /\ left' = IF c \notin cand THEN left ELSE [left EXCEPT ![c] = IF purge THEN 0 ELSE Ttl + 2]
       /\ UNCHANGED <<xfer, retry, slot, token, next, leased, act, cool, dead, loop, net, calls, ticks>>

\* File not found: dead_list_file_not_found_sources.
FileNotFound(i, c) ==
    /\ Outcome(i, c)
    /\ dead' = [dead EXCEPT ![c] = DeadBlock]
    /\ left' = Without({c})
    /\ hold' = IF c \in cand THEN Unheld({c}) ELSE hold
    /\ Spawn(SwapTargets(c[1], c[2], cand \ {c}))
    /\ UNCHANGED <<xfer, retry, slot, token, next, leased, act, cool, purged, loop, net, calls, ticks>>

\* Any other outcome: it drives an alternate that is still wanted, or leaves it.
OtherOutcome(i, c) ==
    /\ Outcome(i, c)
    /\ \/ c[2] # att[i].file /\ Wanted(c[2]) /\ Spawn({c[2]})
       \/ UNCHANGED spawned
    /\ UNCHANGED <<xfer, retry, slot, token, next, registry, loop, net, calls, ticks>>

\* With the outcomes applied, a finished primary ends the attempt.
DialLegDone(i) ==
    /\ att[i].pc = "outcome" /\ att[i].todo = {}
    /\ \/ \E r \in {"completed", "downloading", "error"} : Return(i, r)
       \/ att' = [att EXCEPT ![i].pc = "requery"]
    /\ UNCHANGED <<transfers, next, registry, loop, net, calls, ticks>>

\* The sleep of a turn whose sources are all deferred.
Wake(i) ==
    /\ att[i].pc = "wait"
    /\ \/ att[i].cancelled /\ Return(i, "none")
       \/ att[i].delay = 0 /\ att' = [att EXCEPT ![i].pc = "round"]
    /\ UNCHANGED <<transfers, next, registry, loop, net, calls, ticks>>

\* After the dials: the manifest may be complete; the requery may be skipped, may
\* fail, or brings sources, and a turn follows when an endpoint is untried, the
\* transfer has made progress, or rounds are left after a failure.
Requery(i) ==
    LET a == att[i]
        untried(ps) == {p \in ps : EndpointOf[p] \notin a.tried}
    IN
    /\ a.pc = "requery"
    /\ \/ /\ a.cancelled /\ Return(i, "none") /\ UNCHANGED registry
       \/ /\ ~a.cancelled /\ \E r \in {"completed", "downloading", "error"} : Return(i, r)
          /\ UNCHANGED registry
       \/ /\ a.round = Rounds \/ untried(a.found) = {}
          /\ End(i) /\ UNCHANGED registry
       \/ /\ ~a.cancelled /\ a.round < Rounds
          /\ IF a.round + 1 = Rounds THEN End(i)
             ELSE att' = [att EXCEPT ![i].round = @ + 1, ![i].pc = "round"]
          /\ UNCHANGED registry
       \/ /\ ~a.cancelled /\ a.round < Rounds
          /\ \E ps \in SUBSET Peer :
               /\ Register(ps, a.file)
               /\ \/ att' = [att EXCEPT ![i].found = @ \cup ps, ![i].round = @ + 1, ![i].pc = "round"]
                  \/ untried(a.found \cup ps) = {} /\ End(i)
    /\ UNCHANGED <<transfers, next, loop, net, calls, ticks>>

\* The wrapper's match on the result: the public state is refreshed from the
\* attempt's verdict whatever it was before, when there still is a manifest.
Settle(i) ==
    LET a == att[i] f == a.file
        again == a.res \in {"downloading", "queued"}
        s == IF a.res = "error" THEN "queued" ELSE a.res
    IN
    /\ a.pc = "settle"
    /\ att' = [att EXCEPT ![i].pc = "exit", ![i].res = "none"]
    /\ IF a.res = "completed" THEN ReleaseFile(f) ELSE UNCHANGED registry
    /\ xfer' = IF a.res = "none" \/ xfer[f] = "none" THEN xfer ELSE [xfer EXCEPT ![f] = s]
    /\ retry' = IF again /\ net = "on" THEN retry \cup {f} ELSE retry
    /\ UNCHANGED <<spawned, slot, token, next, loop, net, calls, ticks>>

\* DownloadAttemptGuard::drop, a task of its own: the slot goes unconditionally, the
\* cancel entry only when it is still this attempt's.
GuardDrop(i) ==
    LET f == att[i].file IN
    /\ att[i].pc = "exit"
    /\ att' = [att EXCEPT ![i] = [Idle EXCEPT !.pc = "gone"]]
    /\ slot' = slot \ {f}
    /\ token' = IF token[f] = i THEN [token EXCEPT ![f] = 0] ELSE token
    /\ UNCHANGED <<xfer, spawned, retry, next, registry, loop, net, calls, ticks>>

\* run_queued_ed2k_download_retry, after its delay.
Retry(f) ==
    /\ f \in retry /\ retry' = retry \ {f}
    /\ IF Wanted(f) THEN Spawn({f}) ELSE UNCHANGED spawned
    /\ UNCHANGED <<xfer, slot, token, att, next, registry, loop, net, calls, ticks>>

-----------------------------------------------------------------------------
\* The UDP reask loop and its events.

\* The loop drops a source and says so.
ReaskDrop(c) ==
    /\ c \in reask /\ reask' = reask \ {c}
    /\ freed' = freed \cup {EndpointOf[c[1]]}
    /\ UNCHANGED <<transfers, att, next, registry, lost, net, calls, ticks>>

\* SourceReleased: release_direct_download_source_leases.
SourceReleased(e) ==
    /\ e \in freed /\ freed' = freed \ {e}
    /\ ReleaseEndpoints({e})
    /\ UNCHANGED <<transfers, att, next, left, cool, hold, dead, purged, reask, lost, net, calls, ticks>>

\* SourceReady: the queue rank is imminent.
SourceReady(c) ==
    /\ c \in reask /\ xfer[c[2]] = "downloading" /\ c[2] \notin spawned
    /\ Spawn({c[2]})
    /\ UNCHANGED <<xfer, retry, slot, token, att, next, registry, loop, net, calls, ticks>>

\* A source answers file-not-found over UDP: the loop drops it, and
\* dead_list_udp_fnf_source runs before the SourceReleased that follows.
SourceDead(c) ==
    LET f == c[2] e == EndpointOf[c[1]] IN
    /\ c \in reask /\ reask' = reask \ {c} /\ freed' = freed \cup {e}
    /\ IF c \notin cand
       THEN UNCHANGED <<spawned, registry>>
       ELSE /\ dead' = [dead EXCEPT ![c] = DeadBlock]
            /\ left' = Without({c}) /\ hold' = Unheld({c})
            /\ ReleaseEndpoints({e})
            /\ Spawn(SwapTargets(c[1], f, cand \ {c}))
            /\ UNCHANGED <<cool, purged>>
    /\ UNCHANGED <<xfer, retry, slot, token, att, next, lost, net, calls, ticks>>

\* disconnect_ed2k: the loop's tasks are aborted and the task supervisor fenced and
\* cancelled; queued and delayed tasks return.
Disconnect ==
    /\ Call /\ net = "on" /\ net' = "stopping"
    /\ reask' = {} /\ freed' = {}
    /\ spawned' = {} /\ retry' = {}
    /\ att' = [i \in Id |-> [att[i] EXCEPT !.cancelled = TRUE]]
    /\ UNCHANGED <<xfer, slot, token, next, registry, lost, ticks>>

\* A task that outlives the quiesce deadline is aborted wherever it waits.
Abort(i) ==
    /\ net = "stopping" /\ att[i].pc \notin {"unused", "exit", "gone"}
    /\ att' = [att EXCEPT ![i] = [Returned(@, "none") EXCEPT !.pc = "exit"]]
    /\ UNCHANGED <<transfers, next, registry, loop, net, calls, ticks>>

\* The tail of disconnect_ed2k: with the tasks drained, reset_leases.
Drained ==
    /\ net = "stopping" /\ \A i \in Id : att[i].pc \in {"unused", "exit", "gone"}
    /\ net' = "off"
    /\ leased' = {} /\ act' = act \ {EndpointOf[p] : p \in leased} /\ lost' = {}
    /\ UNCHANGED <<transfers, att, next, left, cool, hold, dead, purged, reask, freed, calls, ticks>>

\* connect_ed2k opens a fresh task generation.
Connect ==
    /\ net = "off" /\ net' = "on"
    /\ UNCHANGED <<transfers, att, next, registry, loop, calls, ticks>>

Less(t) == IF t = 0 THEN 0 ELSE t - 1

\* Time passes.
Tick ==
    /\ ticks < MaxTicks /\ ticks' = ticks + 1
    /\ \/ \E k \in Endpoint \X File : cool[k] + hold[k] > 0
       \/ \E c \in Pair : dead[c] > 0
       \/ Fresh # {}
       \/ purged # {} \/ \E i \in Id : att[i].delay > 0
    /\ cool' = [k \in Endpoint \X File |-> Less(cool[k])]
    /\ hold' = [k \in Endpoint \X File |-> Less(hold[k])]
    /\ dead' = [c \in Pair |-> Less(dead[c])]
    /\ left' = [c \in Pair |-> IF c \in Fresh THEN left[c] - 1 ELSE left[c]]
    /\ purged' = {}
    /\ att' = [i \in Id |-> [att[i] EXCEPT !.delay = Less(@)]]
    /\ UNCHANGED <<transfers, next, leased, act, loop, net, calls>>

Step(i) ==
    \/ Begin(i) \/ Acquire(i) \/ DialEnd(i) \/ DialLegDone(i)
    \/ \E c \in Pair : NoNeededParts(i, c) \/ FileNotFound(i, c) \/ OtherOutcome(i, c)
    \/ Wake(i) \/ Requery(i) \/ Settle(i) \/ GuardDrop(i) \/ Abort(i)

Next ==
    \/ \E f \in File :
         \/ Create(f) \/ Control(f, "paused") \/ Control(f, "stopped") \/ Resume(f)
         \/ Delete(f) \/ ClearCompleted(f) \/ Recheck(f) \/ RecheckDone(f) \/ Start(f) \/ Retry(f)
    \/ RetryInsufficient \/ Disconnect \/ Drained \/ Connect \/ Tick
    \/ \E i \in Id : Step(i) \/ Detach(i)
    \/ \E c \in Pair : ReaskDrop(c) \/ SourceReady(c) \/ SourceDead(c)
    \/ \E e \in Endpoint : SourceReleased(e)

Spec == Init /\ [][Next]_vars

-----------------------------------------------------------------------------
TypeOK ==
    /\ leased \subseteq Peer /\ lost \subseteq Peer /\ act \subseteq Endpoint
    /\ spawned \subseteq File /\ retry \subseteq File /\ slot \subseteq File
    /\ token \in [File -> 0 .. MaxAttempts] /\ next \in 1 .. MaxAttempts + 1
    /\ \A c \in Pair : left[c] \in 0 .. Ttl + 2 /\ dead[c] \in 0 .. DeadBlock
    /\ \A k \in Endpoint \X File : cool[k] \in 0 .. Cooldown /\ hold[k] \in 0 .. Hold

\* A source held for its parts is not aged out of the registry while it is held
\* (mark_no_needed_parts refreshes it for that): a candidate whose hold still runs
\* leaves only with its file, or by the purge, the dead list or the other outcomes
\* of a session.
HeldSurvives ==
    \A c \in cand \ cand' : hold[<<EndpointOf[c[1]], c[2]>>] > 0 => c \in Fresh

\* A pair that answered file-not-found stays out while its block runs: it is not a
\* candidate, so it is neither leased nor swapped to.
DeadStaysOut == \A c \in cand : dead[c] = 0

\* Repeated resumes and re-creations never start duplicate writers for a part file
\* (run_queued_ed2k_download_attempt: "must not start duplicate writers for the same
\* part file"; DownloadAttemptGuard: "one attempt per hash at a time by construction").
OneAttemptPerFile ==
    \A i, k \in Id : i # k /\ Busy(i) /\ Busy(k) /\ ~att[i].cancelled /\ ~att[k].cancelled
                        => att[i].file # att[k].file
=============================================================================
