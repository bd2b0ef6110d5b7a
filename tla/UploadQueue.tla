----------------------------- MODULE UploadQueue -----------------------------
(***************************************************************************)
(* The upload queue of ed2k_transfer/upload_queue.rs with the tasks that   *)
(* share it: the listener's peer connections, the promote driver that      *)
(* dials waiting HighID peers and asks LowID peers to call back, and the   *)
(* senders of those callbacks.  One mutex protects the queue, so every     *)
(* action is one critical section of one task.                             *)
(*                                                                         *)
(* A client is its user hash (a peer may ask for a file only after its     *)
(* HELLO, which carries one), so a client has at most one queue entry.     *)
(* Time is abstracted: a deadline, a cooldown, the one-second pace and the *)
(* no-request window are flags, and the actions of the last section let    *)
(* them elapse.  An operation whose own leading reap expires something is  *)
(* Reap followed by that operation.                                        *)
(***************************************************************************)
EXTENDS Naturals, FiniteSets, SequencesExt

CONSTANTS Clients,      \* user hashes
          Files,        \* files that can be asked for
          Withdrawn,    \* files that may cease to be shared
          Ips,          \* peer addresses
          IpsOf,        \* IpsOf[c]: the addresses client c connects from
          Conns,        \* bound: peer connections at a time
          Tasks,        \* bound: dials and callback senders at a time
          LowId,        \* clients that cannot be dialled
          Friends,      \* clients holding a friend slot
          Guarded,      \* clients a firewalled node can neither call nor be called by
          Verifiers,    \* clients that can prove their identity
          Expiries,     \* reasons for which entries expire
          Weight,       \* Weight[c]: the factor of c's score besides its wait
          Policies,     \* configurations [base, elastic, soft, hard]
          Lines,        \* states of the upload line that can occur
          MinUp,        \* MIN_UP_CLIENTS_ALLOWED
          PerIp,        \* MAX_CLIENTS_PER_IP
          CallbackGuard, \* FIREWALLED_CALLBACK_QUEUE_THRESHOLD
          MaxExpire     \* bound: entries that expire in one reap

VARIABLES queue,   \* the structure under the mutex
          conns,   \* peer connections past HELLO, and dialled ones before it
          tasks,   \* dials of HighID grants and senders of LowID callbacks
          banned,  \* clients on the ban list
          shared   \* files currently shared

vars == <<queue, conns, tasks, banned, shared>>

NoSession == [phase |-> "None"]
NoCallback == [task |-> "none"]
Idle == [st |-> "idle"]
Free == [kind |-> "free"]

\* A connection id or callback generation only ever gets compared with the one
\* a connection or task carries, so an entry names that holder; Gone stands for
\* an id nobody carries any more.
Gone == "gone"

-----------------------------------------------------------------------------
(* Reading the queue *)

Held(q) == {c \in Clients : q.sess[c] # NoSession}
Waiting(q) == {c \in Held(q) : q.sess[c].phase = "Waiting"}
Active(q) == Held(q) \ Waiting(q)

KeyOf(q, c) == [client |-> c, file |-> q.sess[c].file, ip |-> q.sess[c].ip]

\* The handle that k carries addresses the entry of c.
Owns(q, k, c) == c \in Held(q) /\ q.sess[c].id = k

Underfilled(q) == q.line \in {"lull", "short"}

EffectiveLimit(q) ==
    q.policy.base + (IF q.line = "short" THEN q.policy.elastic ELSE 0)

SlotOpenPaced(q) ==
    \/ Cardinality(Active(q)) < MinUp
    \/ q.line = "burst"
    \/ ~q.stamped

\* The pace matters only where a slot can be free above the minimum.
Paces == \E p \in Policies : p.base + p.elastic > MinUp

Cooled(q, c) == c \notin Friends /\ q.cooled[q.sess[c].ip] # {}

Selectable(q, c, lowIdToo) ==
    LET s == q.sess[c] IN
    \/ s.up
    \/ s.cb = NoCallback /\ ~s.mute /\ (lowIdToo \/ c \notin LowId)

\* A waiter that has waited longer at no smaller weight has the higher score;
\* between the others the scores decide either way.
Outranks(q, d, c) ==
    /\ \E i, j \in DOMAIN q.order : i < j /\ q.order[i] = d /\ q.order[j] = c
    /\ Weight[d] >= Weight[c]

RankedBehindHead(q) ==
    IF q.order = <<>> THEN {} ELSE {c \in Range(Tail(q.order)) : c \in Waiting(q)}

Ranked(q) == {c \in Range(q.order) : c \in Waiting(q)}

BestAdmissible(q, lowIdToo) ==
    LET fit == {c \in Ranked(q) : Selectable(q, c, lowIdToo)}
        free == {c \in fit : ~Cooled(q, c)}
    IN  IF free # {}
        THEN {c \in free : \A d \in free : ~Outranks(q, d, c)}
        ELSE IF Cardinality(Active(q)) < q.policy.base /\ Underfilled(q)
        THEN {c \in fit : "noRequest" \in q.cooled[q.sess[c].ip]}
        ELSE {}

-----------------------------------------------------------------------------
(* Changing the queue *)

Retire(q, c) ==
    [q EXCEPT !.sess[c] = NoSession,
              !.order = SelectSeq(@, LAMBDA d : d # c),
              !.pend = @ \ {KeyOf(q, c)}]

\* A detached LowID waiter gets an entitlement and keeps its place.
ArmCallback(q, c) ==
    [q EXCEPT
        !.sess[c].cb = [task |-> Gone, due |-> FALSE, armed |-> FALSE, live |-> TRUE],
        !.pend = @ \cup {KeyOf(q, c)}]

GrantUnannounced(q, c) ==
    [q EXCEPT
        !.sess[c] = [@ EXCEPT !.phase = "Granted", !.cb = NoCallback,
                              !.mute = FALSE, !.due = FALSE, !.idle = FALSE],
        !.order = SelectSeq(@, LAMBDA d : d # c),
        !.stamped = Paces]

Grant(q, c) ==
    [q EXCEPT
        !.sess[c] = [@ EXCEPT !.phase = "Granted", !.cb = NoCallback,
                              !.mute = FALSE, !.due = FALSE, !.idle = FALSE],
        !.order = SelectSeq(@, LAMBDA d : d # c),
        !.pend = IF q.sess[c].up THEN @ ELSE @ \cup {KeyOf(q, c)},
        !.stamped = Paces]

\* One round of the promotion loop; a round that finds no slot, no pace or no
\* waiter ends it.
PromoteRound(r) ==
    LET q == r.q
        best == IF Cardinality(Active(q)) < EffectiveLimit(q) /\ SlotOpenPaced(q)
                THEN BestAdmissible(q, ~r.armed) ELSE {}
    IN  IF best = {} THEN {r}
        ELSE {IF ~q.sess[c].up /\ c \in LowId
              THEN [q |-> ArmCallback(q, c), armed |-> TRUE]
              ELSE [q |-> Grant(q, c), armed |-> r.armed] : c \in best}

\* promote_waiters: every queue the loop can end in.
PromoteWaiters(q) ==
    LET rounds[n \in 0 .. Cardinality(Clients) + 1] ==
            IF n = 0 THEN {[q |-> q, armed |-> FALSE]}
            ELSE UNION {PromoteRound(r) : r \in rounds[n - 1]}
    IN  {r.q : r \in rounds[Cardinality(Clients) + 1]}

\* The admission gates of a peer about to wait: the guard against callbacks a
\* firewalled client cannot make, and the soft and hard queue limits.
WaitRefused(q, c) ==
    LET n == Cardinality(Waiting(q))
        total == FoldSet(LAMBDA w, sum : sum + Weight[w], 0, Ranked(q))
    IN  \/ c \in Guarded \ Friends /\ n > CallbackGuard
        \/ n >= q.policy.hard
        \/ /\ n >= q.policy.soft
           /\ c \notin Friends
           /\ Weight[c] < (IF n = 0 THEN 0 ELSE total \div n)

WorstWaiting(q) ==
    {c \in Ranked(q) : \A d \in Ranked(q) : ~Outranks(q, c, d)}

\* trim_waiting_queue, one eviction for every waiter over the capacity.
Trimmed(q) ==
    LET steps[n \in 0 .. Cardinality(Clients)] ==
            IF n = 0 THEN {q}
            ELSE UNION {IF Len(r.order) > r.policy.hard
                        THEN {Retire(r, c) : c \in WorstWaiting(r)}
                        ELSE {r} : r \in steps[n - 1]}
    IN  steps[Cardinality(Clients)]

Requeued(q, c) ==
    [q EXCEPT !.sess[c] = [@ EXCEPT !.phase = "Waiting", !.due = FALSE,
                                    !.idle = FALSE],
              !.order = Append(@, c)]


Cool(q, c, kind) ==
    IF c \in Friends THEN q ELSE [q EXCEPT !.cooled[q.sess[c].ip] = @ \cup {kind}]

\* Why the reap may take an entry: a waiter past the waiting timeout, a grant
\* whose peer never attached, a drained, slow or capped slot.  Work in flight
\* shields a slot, and a slot is only taken for somebody who waits.
Reasons(q, c) ==
    LET s == q.sess[c]
        weak == s.up /\ ~s.busy /\ Waiting(q) # {} /\ Underfilled(q)
        pressure == \E w \in Ranked(q) :
                        ~Cooled(q, w) \/ "noRequest" \in q.cooled[q.sess[w].ip]
    IN  IF c \in Waiting(q) THEN {"purge"}
        ELSE IF s.due THEN {"late"}
        ELSE {r \in {"drained", "banned"} : weak /\ s.idle /\ pressure}
             \cup {r \in {"slow"} : weak /\ s.phase = "Uploading"}
             \cup {r \in {"capped"} : /\ s.up /\ ~s.busy /\ c \notin Friends
                                      /\ BestAdmissible(q, FALSE) # {}}

\* The fate of one entry the reap has taken.
ReapOne(q, c, why) ==
    LET cooled == CASE why \in {"late", "slow"} -> Cool(q, c, "retry")
                    [] why = "drained" -> Cool(q, c, "noRequest")
                    [] OTHER -> q
    IN  IF why \in {"purge", "late", "banned"} \/ WaitRefused(cooled, c)
        THEN Retire(cooled, c)
        ELSE Requeued(cooled, c)

\* A callback deadline that passes revokes the attempt, not the entitlement.
LapseCallbacks(q, lapsed) ==
    FoldSet(LAMBDA c, r : [r EXCEPT !.sess[c].mute = TRUE,
                                    !.sess[c].cb = [@ EXCEPT !.live = FALSE,
                                                             !.due = FALSE]],
            q, lapsed)

\* The entries are chosen before any is changed, and taken in the arbitrary
\* order of the session map.
ReapExpired(q, lapsed, why) ==
    UNION {UNION {PromoteWaiters(t) :
                     t \in Trimmed(FoldLeft(LAMBDA r, c : ReapOne(r, c, why[c]),
                                            LapseCallbacks(q, lapsed), seq))} :
           seq \in SetToSeqs(DOMAIN why)}

\* The reap of an operation at an instant when nothing expires.
Settled(q) == UNION {PromoteWaiters(t) : t \in Trimmed(q)}

-----------------------------------------------------------------------------
(* Admission *)

\* Which connection may take over an entry bound to another one: a detached
\* entry with a callback entitlement, or a detached grant at its address.
Collides(s, id, ip) ==
    /\ s.id # id
    /\ ~(/\ ~s.up
         /\ \/ s.phase = "Waiting" /\ s.cb # NoCallback
            \/ s.phase = "Granted" /\ s.ip = ip)

\* A re-ask keeps the entry and its place; one with an entitlement becomes a
\* grant, on the one overflow slot if need be.
Rebind(q, c, f, ip, ver, id) ==
    LET s == q.sess[c]
        consume == /\ s.cb # NoCallback
                   /\ Cardinality(Active(q)) < EffectiveLimit(q) + 1
        bound == [s EXCEPT !.id = id, !.up = TRUE, !.due = FALSE,
                           !.file = f, !.ip = ip, !.ver = ver]
    IN  IF consume
        THEN [q EXCEPT
                !.sess[c] = [bound EXCEPT !.phase = "Granted", !.cb = NoCallback,
                                          !.mute = FALSE, !.idle = FALSE],
                !.order = SelectSeq(@, LAMBDA d : d # c),
                !.stamped = Paces]
        ELSE [q EXCEPT
                !.sess[c] = IF s.cb = NoCallback THEN [bound EXCEPT !.mute = FALSE]
                            ELSE [bound EXCEPT !.mute = TRUE,
                                    !.cb = [@ EXCEPT !.due = FALSE, !.live = FALSE,
                                                     !.armed = FALSE]]]

LiveFrom(ip) == Cardinality({k \in Conns : conns[k] # Idle /\ conns[k].ip = ip})

PerIpRefused(q, c, ip) ==
    LET there == {d \in Held(q) \ {c} : q.sess[d].ip = ip}
        up == Cardinality({d \in there : q.sess[d].up})
        others == LiveFrom(ip) - 1
    IN  (IF others > up THEN others ELSE up) + Cardinality(there) - up >= PerIp

\* A free slot goes to the newcomer only when the pace allows it and nobody
\* admissible is waiting; otherwise the newcomer queues behind the gates.
InlineGrant(q, c, ip) ==
    /\ Cardinality(Active(q)) < EffectiveLimit(q)
    /\ c \in Friends \/ q.cooled[ip] = {}
    /\ SlotOpenPaced(q)
    /\ BestAdmissible(q, FALSE) = {}

NewEntry(phase, f, ip, ver, id) ==
    [phase |-> phase, id |-> id, up |-> TRUE, file |-> f, ip |-> ip,
     ver |-> ver, cb |-> NoCallback, mute |-> FALSE, due |-> FALSE,
     busy |-> FALSE, idle |-> FALSE]

Admit(q, c, f, ip, ver, id) ==
    IF PerIpRefused(q, c, ip) THEN {q}
    ELSE IF InlineGrant(q, c, ip)
    THEN Trimmed([q EXCEPT !.sess[c] = NewEntry("Granted", f, ip, ver, id),
                           !.stamped = Paces])
    ELSE IF WaitRefused(q, c) THEN {q}
    ELSE Settled([q EXCEPT !.sess[c] = NewEntry("Waiting", f, ip, ver, id),
                           !.order = Append(@, c)])

\* begin_session_with_live_connections after its reap; unless it is refused the
\* asking connection holds the entry afterwards.
Begin(q, c, f, ip, ver, id) ==
    IF c \notin Held(q) THEN Admit(q, c, f, ip, ver, id)
    ELSE IF ~Collides(q.sess[c], id, ip) THEN {Rebind(q, c, f, ip, ver, id)}
    ELSE IF q.sess[c].ver THEN {q}
    ELSE IF ver THEN Admit(Retire(q, c), c, f, ip, ver, id)
    ELSE PromoteWaiters(Retire(q, c))

\* release_session: a waiter keeps its entry, an active slot is given up; a
\* short unproductive stint cools an address nobody else is queued from.
ReleaseSession(q, k, c) ==
    LET ip == q.sess[c].ip
        gone == Retire(q, c)
        churn == /\ \A d \in Held(gone) : gone.sess[d].ip # ip
                 /\ Waiting(gone) # {}
                 /\ c \notin Friends
    IN  IF ~Owns(q, k, c) THEN {q}
        ELSE IF c \in Waiting(q)
        THEN Settled([q EXCEPT !.sess[c] = [@ EXCEPT !.up = FALSE, !.due = FALSE]])
        ELSE UNION {Settled([gone EXCEPT !.cooled[ip] = @ \cup cool]) :
                        cool \in IF churn THEN {{}, {"retry"}} ELSE {{}}}

\* note_failed_promotion, then the release.
FailPromotion(q, k, c, ip) ==
    ReleaseSession(IF c \in Friends THEN q
                   ELSE [q EXCEPT !.cooled[ip] = @ \cup {"retry"}], k, c)

\* Connection or task x has ended; an id or generation it carried is carried by
\* nobody.
Forget(q, x) ==
    LET ids == {c \in Held(q) : q.sess[c].id = x}
        gens == {c \in Held(q) : q.sess[c].cb.task = x}
        unbound == FoldSet(LAMBDA c, r : [r EXCEPT !.sess[c].id = Gone], q, ids)
    IN  FoldSet(LAMBDA c, r : [r EXCEPT !.sess[c].cb.task = Gone], unbound, gens)

-----------------------------------------------------------------------------
(* Peer connections *)

Opened(c, ip, ver, dialed) ==
    [st |-> "open", client |-> c, ip |-> ip, ver |-> ver, dialed |-> dialed,
     work |-> FALSE]

\* The HELLO of a peer that calls back claims its armed entitlement in the same
\* critical section that makes it an active grant.
Claimable(q, c) == c \in Waiting(q) /\ q.sess[c].cb # NoCallback /\ q.sess[c].cb.armed

ClaimCallback(q, c, ip, id) ==
    [q EXCEPT
        !.sess[c] = [@ EXCEPT !.phase = "Granted", !.id = id, !.up = TRUE,
                              !.cb = NoCallback, !.mute = FALSE, !.due = FALSE,
                              !.idle = FALSE, !.ip = ip, !.ver = FALSE],
        !.order = SelectSeq(@, LAMBDA d : d # c),
        !.pend = @ \ {KeyOf(q, c)},
        !.stamped = Paces]

Connect(k, c, ip) ==
    /\ conns[k] = Idle
    /\ c \notin banned
    /\ \E q \in Settled(queue) :
        IF Claimable(q, c) /\ Cardinality(Active(q)) < EffectiveLimit(q) + 1
        THEN /\ queue' = ClaimCallback(q, c, ip, k)
             /\ conns' = [conns EXCEPT ![k] =
                    [Opened(c, ip, FALSE, FALSE) EXCEPT !.st = "attach"]]
        ELSE /\ queue' = q
             /\ conns' = [conns EXCEPT ![k] = Opened(c, ip, FALSE, FALSE)]
    /\ UNCHANGED <<tasks, banned, shared>>

\* The dial of a promoted waiter succeeded; it keeps the identity it queued with.
DialConnected(k, t) ==
    /\ conns[k] = Idle
    /\ tasks[t].kind = "dial"
    /\ LET c == tasks[t].client
           mine == Owns(queue, t, c)
       IN  /\ conns' = [conns EXCEPT ![k] =
                [Opened(c, tasks[t].ip, mine /\ queue.sess[c].ver, TRUE)
                    EXCEPT !.st = "attach"]]
           /\ queue' = IF mine THEN [queue EXCEPT !.sess[c].id = k] ELSE queue
    /\ tasks' = [tasks EXCEPT ![t] = Free]
    /\ UNCHANGED <<banned, shared>>

\* attach_granted_session binds the grant in one critical section and refreshes
\* the peer in the next.  It gives up without releasing what it has bound.
AttachPoll(k) ==
    /\ conns[k].st = "attach"
    /\ \E q \in Settled(queue) :
        LET c == conns[k].client
            mine == Owns(q, k, c)
            bound == IF mine
                     THEN [q EXCEPT !.sess[c] = [@ EXCEPT !.up = TRUE, !.due = FALSE]]
                     ELSE q
        IN  IF mine /\ c \in Active(q)
            THEN /\ queue' = bound
                 /\ conns' = [conns EXCEPT ![k].st = "refresh"]
            ELSE /\ queue' = Forget(bound, k)
                 /\ conns' = [conns EXCEPT ![k] = Idle]
    /\ UNCHANGED <<tasks, banned, shared>>

AttachRefresh(k) ==
    /\ conns[k].st = "refresh"
    /\ \E q \in Settled(queue) :
        LET c == conns[k].client
            mine == Owns(q, k, c)
            fresh == IF mine THEN [q EXCEPT !.sess[c].ver = conns[k].ver] ELSE q
        IN  IF mine /\ c \in Active(q)
            THEN /\ queue' = fresh
                 /\ conns' = [conns EXCEPT ![k].st = "open"]
            ELSE /\ queue' = Forget(fresh, k)
                 /\ conns' = [conns EXCEPT ![k] = Idle]
    /\ UNCHANGED <<tasks, banned, shared>>

\* OP_STARTUPLOADREQ or OP_REQUESTPARTS for a served file: refresh the entry the
\* connection holds for that file, else run an admission.
Ask(k, f) ==
    /\ conns[k].st = "open" /\ ~conns[k].work
    /\ f \in shared
    /\ \E q \in Settled(queue) :
        LET n == conns[k] IN
        IF Owns(q, k, n.client) /\ q.sess[n.client].file = f
        THEN queue' = [q EXCEPT !.sess[n.client].ver = n.ver]
        ELSE queue' \in Begin(q, n.client, f, n.ip, n.ver, k)
    /\ UNCHANGED <<conns, tasks, banned, shared>>

\* OP_SIGNATURE proves the identity.
VerifyIdent(k) ==
    /\ conns[k].st = "open" /\ ~conns[k].ver /\ ~conns[k].work
    /\ conns[k].client \in Verifiers
    /\ \E q \in Settled(queue) :
        queue' = IF Owns(q, k, conns[k].client)
                 THEN [q EXCEPT !.sess[conns[k].client].ver = TRUE] ELSE q
    /\ conns' = [conns EXCEPT ![k].ver = TRUE]
    /\ UNCHANGED <<tasks, banned, shared>>

\* Serving a request takes a work guard on the slot, which the reap respects.
BeginWork(k) ==
    /\ conns[k].st = "open" /\ ~conns[k].work
    /\ \E q \in Settled(queue) :
        /\ Owns(q, k, conns[k].client)
        /\ conns[k].client \in Active(q)
        /\ queue' = [q EXCEPT !.sess[conns[k].client] =
                        [@ EXCEPT !.phase = "Uploading", !.busy = TRUE, !.idle = FALSE]]
    /\ conns' = [conns EXCEPT ![k].work = TRUE]
    /\ UNCHANGED <<tasks, banned, shared>>

EndWork(k) ==
    /\ conns[k].st = "open" /\ conns[k].work
    /\ Owns(queue, k, conns[k].client)
    /\ \E q \in Settled(queue) :
        queue' = [q EXCEPT !.sess[conns[k].client].busy = FALSE]
    /\ conns' = [conns EXCEPT ![k].work = FALSE]
    /\ UNCHANGED <<tasks, banned, shared>>

\* A waiting peer that asks for blocks again clears its cooldowns once.
QueuedBlockRequest(k) ==
    /\ conns[k].st = "open" /\ ~conns[k].work
    /\ conns[k].client \in Waiting(queue)
    /\ \E left \in SUBSET queue.cooled[conns[k].ip] :
        /\ left # queue.cooled[conns[k].ip]
        /\ "noRequest" \notin left
        /\ queue' \in PromoteWaiters([queue EXCEPT !.cooled[conns[k].ip] = left])
    /\ UNCHANGED <<conns, tasks, banned, shared>>

\* Every exit of a connection releases the handle it holds, or the grant it has
\* not attached yet; an outbound one that ends in an error also counts as a
\* failed promotion.
CloseConn(k, error) ==
    /\ \/ conns[k].st = "open"
       \/ conns[k].st = "attach" /\ conns[k].dialed
    /\ error => conns[k].dialed
    /\ LET n == conns[k]
           ended == IF n.work /\ Owns(queue, k, n.client)
                    THEN [queue EXCEPT !.sess[n.client].busy = FALSE] ELSE queue
       IN  \E q \in ReleaseSession(ended, k, n.client) :
           \E r \in IF error THEN FailPromotion(q, k, n.client, n.ip) ELSE {q} :
               queue' = Forget(r, k)
    /\ conns' = [conns EXCEPT ![k] = Idle]
    /\ UNCHANGED <<tasks, banned, shared>>

-----------------------------------------------------------------------------
(* The promote driver and the callback senders *)

\* maintain_upload_queue: waiters for files no longer shared leave, then the
\* reap runs with whatever has expired.
Maintain(lapsed, why) ==
    /\ LET stale == {c \in Waiting(queue) : queue.sess[c].file \notin shared}
           q == FoldSet(LAMBDA c, r : Retire(r, c), queue, stale)
       IN  /\ \A c \in lapsed : /\ c \in Waiting(q) /\ q.sess[c].cb # NoCallback
                                /\ q.sess[c].cb.due
           /\ \A c \in DOMAIN why : c \in Held(q) /\ why[c] \in Reasons(q, c)
           /\ queue' \in ReapExpired(q, lapsed, why)
    /\ banned' = banned \cup {c \in DOMAIN why : why[c] = "banned"}
    /\ UNCHANGED <<conns, tasks, shared>>

\* take_pending_promotions: one drain hands every detached grant to a dial and
\* every entitlement without an attempt to a callback sender.
TakePending ==
    LET todo == {key \in queue.pend :
                    /\ key.client \in Held(queue) /\ KeyOf(queue, key.client) = key
                    /\ LET s == queue.sess[key.client] IN
                        /\ ~s.up
                        /\ \/ s.phase = "Granted"
                           \/ s.phase = "Waiting" /\ s.cb # NoCallback /\ ~s.cb.due}
        Task(key) == [kind |-> IF queue.sess[key.client].phase = "Granted"
                               THEN "dial" ELSE "call",
                      client |-> key.client, ip |-> key.ip, armed |-> FALSE]
        Taken(q, key, t) ==
            IF q.sess[key.client].phase = "Granted"
            THEN [q EXCEPT !.sess[key.client] = [@ EXCEPT !.id = t, !.due = TRUE]]
            ELSE [q EXCEPT !.sess[key.client].cb = [@ EXCEPT !.task = t, !.due = TRUE]]
    IN  /\ queue.pend # {}
        /\ \E at \in Injection(todo, {t \in Tasks : tasks[t] = Free}) :
            /\ tasks' = [t \in Tasks |-> IF t \in Range(at)
                                         THEN Task(CHOOSE key \in todo : at[key] = t)
                                         ELSE tasks[t]]
            /\ queue' = FoldSet(LAMBDA key, q : Taken(q, key, at[key]),
                                [queue EXCEPT !.pend = {}], todo)
        /\ UNCHANGED <<conns, banned, shared>>

\* The connect fails, or the lease is revoked before it completes.
DialFailed(t) ==
    /\ tasks[t].kind = "dial"
    /\ \E q \in FailPromotion(queue, t, tasks[t].client, tasks[t].ip) :
        queue' = Forget(q, t)
    /\ tasks' = [tasks EXCEPT ![t] = Free]
    /\ UNCHANGED <<conns, banned, shared>>

\* The permit of task t still names the attempt the entry is waiting for.
Current(q, t) ==
    LET c == tasks[t].client IN
    /\ c \in Waiting(q)
    /\ q.sess[c].cb # NoCallback
    /\ q.sess[c].cb.task = t /\ q.sess[c].cb.due /\ q.sess[c].cb.live

\* The route is armed before the request is sent, so that a HELLO may overtake
\* the sender's acknowledgement.
DispatchCallback(t) ==
    /\ tasks[t].kind = "call" /\ ~tasks[t].armed
    /\ \E q \in Settled(queue) :
        LET c == tasks[t].client IN
        IF Current(q, t) /\ ~q.sess[c].up /\ ~q.sess[c].cb.armed
        THEN /\ queue' = [q EXCEPT !.sess[c].cb.armed = TRUE]
             /\ tasks' = [tasks EXCEPT ![t].armed = TRUE]
        ELSE /\ queue' = Forget(q, t)
             /\ tasks' = [tasks EXCEPT ![t] = Free]
    /\ UNCHANGED <<conns, banned, shared>>

\* No usable route, or a request known not to have been sent.
CancelNotSent(t) ==
    /\ tasks[t].kind = "call"
    /\ \E q \in Settled(queue) :
        LET c == tasks[t].client
            revoked == [q EXCEPT !.sess[c] = [@ EXCEPT !.mute = TRUE,
                            !.cb = [@ EXCEPT !.live = FALSE, !.due = FALSE,
                                             !.armed = FALSE]]]
        IN  \E r \in IF Current(q, t) THEN PromoteWaiters(revoked) ELSE {q} :
                queue' = Forget(r, t)
    /\ tasks' = [tasks EXCEPT ![t] = Free]
    /\ UNCHANGED <<conns, banned, shared>>

\* The request was sent, or its delivery is unknown: the entitlement stays.
CallbackSent(t) ==
    /\ tasks[t].kind = "call" /\ tasks[t].armed
    /\ queue' = Forget(queue, t)
    /\ tasks' = [tasks EXCEPT ![t] = Free]
    /\ UNCHANGED <<conns, banned, shared>>

-----------------------------------------------------------------------------
(* Operator and environment *)

ReleaseClient(c) ==
    /\ \E q \in Settled(queue) :
        /\ c \in Held(q)
        /\ queue' \in Settled(Retire(q, c))
    /\ UNCHANGED <<conns, tasks, banned, shared>>

Configure(p) ==
    /\ p # queue.policy
    /\ queue' \in Settled([queue EXCEPT !.policy = p])
    /\ UNCHANGED <<conns, tasks, banned, shared>>

Unshare(f) ==
    /\ f \in shared
    /\ shared' = shared \ {f}
    /\ UNCHANGED <<queue, conns, tasks, banned>>

LineChanges(l) ==
    /\ l # queue.line
    /\ queue' = [queue EXCEPT !.line = l]
    /\ UNCHANGED <<conns, tasks, banned, shared>>

PaceElapses ==
    /\ queue.stamped
    /\ queue' = [queue EXCEPT !.stamped = FALSE]
    /\ UNCHANGED <<conns, tasks, banned, shared>>

\* A slot has had no request for granted_timeout.  The window is looked at only
\* on a connected slot without work in flight, which is where it may elapse.
WindowElapses(c) ==
    /\ c \in Active(queue) /\ ~queue.sess[c].idle
    /\ queue.sess[c].up /\ ~queue.sess[c].busy
    /\ queue' = [queue EXCEPT !.sess[c].idle = TRUE]
    /\ UNCHANGED <<conns, tasks, banned, shared>>

CooldownElapses(ip) ==
    /\ \E kind \in queue.cooled[ip] : queue' = [queue EXCEPT !.cooled[ip] = @ \ {kind}]
    /\ UNCHANGED <<conns, tasks, banned, shared>>

-----------------------------------------------------------------------------
Init ==
    /\ \E p \in Policies, l \in Lines :
        queue = [sess |-> [c \in Clients |-> NoSession], order |-> <<>>, pend |-> {},
                 cooled |-> [i \in Ips |-> {}], policy |-> p, line |-> l,
                 stamped |-> FALSE]
    /\ conns = [k \in Conns |-> Idle]
    /\ tasks = [t \in Tasks |-> Free]
    /\ banned = {}
    /\ shared = Files

Upkeep ==
    \E lapsed \in SUBSET {c \in Held(queue) : /\ queue.sess[c].cb # NoCallback
                                              /\ queue.sess[c].cb.due} :
    \E gone \in {S \in SUBSET Held(queue) : Cardinality(S) <= MaxExpire} :
    \E why \in [gone -> Expiries] : Maintain(lapsed, why)

Peer(k) ==
    \/ \E c \in Clients : \E ip \in IpsOf[c] : Connect(k, c, ip)
    \/ \E t \in Tasks : DialConnected(k, t)
    \/ AttachPoll(k) \/ AttachRefresh(k)
    \/ \E f \in Files : Ask(k, f)
    \/ VerifyIdent(k) \/ BeginWork(k) \/ EndWork(k) \/ QueuedBlockRequest(k)
    \/ \E error \in BOOLEAN : CloseConn(k, error)

Sender(t) ==
    DialFailed(t) \/ DispatchCallback(t) \/ CancelNotSent(t) \/ CallbackSent(t)

Elapse ==
    \/ PaceElapses
    \/ \E c \in Clients : WindowElapses(c)
    \/ \E ip \in Ips : CooldownElapses(ip)
    \/ \E l \in Lines : LineChanges(l)

Operator ==
    \/ \E c \in Clients : ReleaseClient(c)
    \/ \E p \in Policies : Configure(p)
    \/ \E f \in Withdrawn : Unshare(f)

Next ==
    \/ \E k \in Conns : Peer(k)
    \/ \E t \in Tasks : Sender(t)
    \/ Upkeep \/ TakePending
    \/ Elapse \/ Operator

Spec == Init /\ [][Next]_vars

-----------------------------------------------------------------------------
(* Properties *)

Entries ==
    [phase : {"Waiting", "Granted", "Uploading"}, id : Conns \cup Tasks \cup {Gone},
     up : BOOLEAN, file : Files, ip : Ips, ver : BOOLEAN,
     cb : {NoCallback} \cup
          [task : Tasks \cup {Gone}, due : BOOLEAN, armed : BOOLEAN, live : BOOLEAN],
     mute : BOOLEAN, due : BOOLEAN, busy : BOOLEAN, idle : BOOLEAN]

\* The queue, the connections and what the tasks hold keep their types.
TypeOK ==
    /\ queue.sess \in [Clients -> Entries \cup {NoSession}]
    /\ queue.order \in Seq(Clients)
    /\ queue.pend \subseteq [client : Clients, file : Files, ip : Ips]
    /\ queue.cooled \in [Ips -> SUBSET {"retry", "noRequest"}]
    /\ queue.policy \in Policies /\ queue.line \in Lines
    /\ queue.stamped \in BOOLEAN
    /\ conns \in [Conns -> {Idle} \cup
            [st : {"attach", "refresh", "open"}, client : Clients, ip : Ips,
             ver : BOOLEAN, dialed : BOOLEAN, work : BOOLEAN]]
    /\ tasks \in [Tasks -> {Free} \cup
            [kind : {"dial", "call"}, client : Clients, ip : Ips, armed : BOOLEAN]]
    /\ banned \subseteq Clients /\ shared \subseteq Files

\* waiting_order lists exactly the entries that wait, each once: after any mix
\* of admissions, promotions, claims, requeues and removals no waiter is lost
\* from the ranking, no slot holder is still in it.
OrderIsWaiting ==
    /\ IsInjective(queue.order)
    /\ Range(queue.order) = Waiting(queue)

\* A slot granted to a peer without a connection is never forgotten: either the
\* driver has still to fetch it, or its promotion deadline runs.
DetachedGrantTracked ==
    \A c \in Active(queue) :
        ~queue.sess[c].up => KeyOf(queue, c) \in queue.pend \/ queue.sess[c].due

\* A callback entitlement belongs to a waiter: whichever of promotion, claim and
\* re-ask gives the client its slot has used the entitlement up.
EntitlementWaits ==
    \A c \in Held(queue) : queue.sess[c].cb # NoCallback => c \in Waiting(queue)

\* The number of slot holders grows only to the limit in force, or one beyond it
\* when a LowID waiter answers its callback.
SlotsWithinLimit ==
    LET taken == Active(queue') \ Active(queue)
        n == Cardinality(Active(queue'))
    IN  n > Cardinality(Active(queue)) =>
         \/ n <= EffectiveLimit(queue')
         \/ /\ n = EffectiveLimit(queue') + 1
            /\ \E c \in taken : c \in Waiting(queue) \cap LowId

\* A slot whose payload is being sent is not demoted to the queue.
WorkNotDemoted ==
    \A c \in Active(queue) :
     queue.sess[c].busy /\ c \in Waiting(queue') => queue'.sess[c].id # queue.sess[c].id

\* A newcomer does not overtake a connected waiter that is not cooling down and
\* has no smaller weight: a free slot is first offered to the queue.
NoQueueJumping ==
    \A c \in Active(queue') \ Held(queue) :
     ~\E d \in Waiting(queue) \cap Waiting(queue') :
         /\ queue'.sess[d].up /\ queue.sess[d].up
         /\ ~Cooled(queue, d) /\ ~Cooled(queue', d)
         /\ Weight[d] >= Weight[c]

\* The waiting queue never exceeds its hard capacity, also after a recycle put
\* slot holders back or the operator lowered the capacity.
QueueWithinCapacity == Len(queue.order) <= queue.policy.hard

\* Above the minimum of slots a grant within the pace of the last one happens
\* only when a peer calls back, or on a line that outruns its budget.
PacedOpening ==
    /\ Cardinality(Active(queue')) > Cardinality(Active(queue))
    /\ Cardinality(Active(queue)) >= MinUp
    /\ queue.stamped /\ queue'.line # "burst"
    => \E c \in Active(queue') \ Active(queue) : c \in Waiting(queue) \cap LowId

\* A connected entry stays with its connection: another connection of the same
\* client takes its place only by proving an identity the entry did not prove.
AttachedEntryKept ==
    \A c \in Held(queue) \cap Held(queue') :
     /\ queue.sess[c].up /\ queue.sess[c].id \in Conns
     /\ queue'.sess[c].id \in Conns \ {queue.sess[c].id}
     => ~queue.sess[c].ver /\ queue'.sess[c].ver

-----------------------------------------------------------------------------
=============================================================================
