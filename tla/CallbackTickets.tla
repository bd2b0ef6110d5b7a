--------------------------- MODULE CallbackTickets ---------------------------
(***************************************************************************)
(* The admission tickets of LowID callbacks (ed2k_transfer/callback.rs)    *)
(* with the three producers that ask a peer to connect back (through its   *)
(* server, through its Kad buddy, or with a direct UDP datagram), their    *)
(* per-route cooldown, and the inbound sessions that claim the tickets.    *)
(*                                                                         *)
(* One std::sync::Mutex guards the store, another lock the cooldown maps,  *)
(* so each action below is one critical section: a download attempt (a     *)
(* task) reserves, claims the cooldown, begins the dispatch, settles the   *)
(* ticket and settles the cooldown in five separate steps.                 *)
(*                                                                         *)
(* A deadline is the number of ticks left until it; a ticket id is named   *)
(* by the task whose permit carries it (ids are only ever compared with a  *)
(* permit's) and a session generation by the session that owns it.  Every  *)
(* request of a run has the same window, as all requests of one            *)
(* configuration do.                                                       *)
(***************************************************************************)
EXTENDS Naturals, FiniteSets, Sequences, SequencesExt

CONSTANTS
    Peers,             \* remote clients; each has one user hash and client id
    Routes,            \* callback routes (server, buddy, direct endpoint)
    ServerRoutes,      \* the routes whose sources may lack a user hash
    Files,             \* wanted files
    Tasks,             \* download attempts that may originate callbacks
    Sessions,          \* inbound connections that may adopt tickets
    TicketCapacity,    \* CALLBACK_TICKET_CAPACITY
    DownloadCapacity,  \* CALLBACK_TICKET_DOWNLOAD_CAPACITY
    ClaimCapacity,     \* CALLBACK_CLAIM_DOWNLOAD_CAPACITY
    Window,            \* callback_window, in ticks
    Cooldown,          \* the route's callback cooldown, in ticks
    Absent             \* no task, session, file or server

CallbackAssumption ==
    /\ ServerRoutes \subseteq Routes
    /\ TicketCapacity \in Nat \ {0}
    /\ DownloadCapacity \in Nat \ {0}
    /\ ClaimCapacity \in Nat /\ DownloadCapacity <= ClaimCapacity
    /\ Window \in Nat \ {0} /\ Cooldown \in Nat /\ Window <= Cooldown
    /\ Absent \notin Routes \cup Tasks \cup Sessions \cup Files

VARIABLES
    tickets,   \* the VecDeque of CallbackTicketRecord
    cooldown,  \* last_sent: the ticks left, and the permit that may undo it
    pc,        \* where each task is
    permit,    \* the dispatch permit of each task: ticket id, key and deadline
    serving,   \* where each inbound session is
    driving    \* the file each session is negotiating

vars == <<tickets, cooldown, pc, permit, serving, driving>>

ReadyStates == {"Reserved", "Dispatching", "Armed"}

NoPermit == [id |-> Absent, route |-> Absent, peer |-> Absent, left |-> 0]

Requests ==
    {r \in [route : Routes, peer : Peers, hashed : BOOLEAN, file : Files] :
        r.hashed \/ r.route \in ServerRoutes}

-----------------------------------------------------------------------------
(* Operators on the ticket queue.                                          *)

\* reap: what an expiry drops.  The deadline of a ticket a dispatch guard or
\* a session owns is not consulted.
Reap(ts) ==
    SelectSeq(ts, LAMBDA k : k.state \in {"Dispatching", "SessionOwned"} \/ k.left > 0)

\* peers_can_merge and the route comparison at its callers: with one user
\* hash and one client id to a peer, both identity tests name the peer.
Mergeable(k, r) == k.route = r.route /\ k.peer = r.peer

CanAccept(k, f) == f \in ToSet(k.files) \/ Len(k.files) < DownloadCapacity

\* merge_ticket_download, once the capacity allows it.
Merged(k, r) ==
    [k EXCEPT !.hashed = @ \/ r.hashed,
              !.files = IF r.file \in ToSet(@) THEN @ ELSE Append(@, r.file)]

OwnedBy(ts, s) ==
    {i \in DOMAIN ts : ts[i].state = "SessionOwned" /\ ts[i].owner = s}

FilesOf(ts, s) == UNION {ToSet(ts[i].files) : i \in OwnedBy(ts, s)}

\* active_session_generation_for: the session of the first owned ticket that
\* answers for the requested peer.
ActiveSession(ts, r) ==
    LET i == SelectInSeq(ts, LAMBDA k :
                /\ k.state = "SessionOwned"
                /\ IF r.hashed THEN k.hashed /\ k.peer = r.peer ELSE Mergeable(k, r))
    IN  IF i = 0 THEN Absent ELSE ts[i].owner

\* The ticket of the same route that a running session would absorb.
JoinCandidate(ts, r, s) ==
    SelectInSeq(ts, LAMBDA k :
        /\ Mergeable(k, r)
        /\ (k.state = "SessionOwned" /\ k.owner = s) \/ k.state = "NeedsDispatch")

\* session_can_accept_download
SessionCanAccept(ts, r, s) ==
    LET i == JoinCandidate(ts, r, s)
        absorbed == IF i = 0 THEN {} ELSE ToSet(ts[i].files)
    IN  Cardinality(FilesOf(ts, s) \cup absorbed \cup {r.file}) <= ClaimCapacity

JoinsSession(ts, r) ==
    LET s == ActiveSession(ts, r) IN s # Absent /\ SessionCanAccept(ts, r, s)

NeedsDispatchAt(ts, r) ==
    SelectInSeq(ts, LAMBDA k : k.state = "NeedsDispatch" /\ Mergeable(k, r))

PendingAt(ts, r) ==
    SelectInSeq(ts, LAMBDA k : k.state \in ReadyStates /\ Mergeable(k, r))

NewTicket(r, id, state, owner, prior) ==
    [id |-> id, route |-> r.route, peer |-> r.peer, hashed |-> r.hashed,
     files |-> <<r.file>>, left |-> Window, restores |-> FALSE,
     state |-> state, owner |-> owner, prior |-> prior]

TicketOf(ts, id) == SelectInSeq(ts, LAMBDA k : id # Absent /\ k.id = id)

\* A permit that is gone leaves its id on a ticket nobody can name.
Disowned(ts, id) ==
    [i \in DOMAIN ts |-> IF ts[i].id = id THEN [ts[i] EXCEPT !.id = Absent] ELSE ts[i]]

-----------------------------------------------------------------------------
(* Reservation.                                                            *)

Init ==
    /\ tickets = <<>>
    /\ cooldown = [k \in Routes \X Peers |-> [left |-> 0, by |-> Absent]]
    /\ pc = [t \in Tasks |-> "idle"]
    /\ permit = [t \in Tasks |-> NoPermit]
    /\ serving = [s \in Sessions |-> "idle"]
    /\ driving = [s \in Sessions |-> Absent]

TaskUnchanged == UNCHANGED <<pc, permit, cooldown>>
SessionUnchanged == UNCHANGED <<serving, driving>>

\* reserve while a session of that peer runs: the file joins the session,
\* taking a residual ticket of its route along.
ReserveJoinsSession(r) ==
    LET ts == Reap(tickets)
        s == ActiveSession(ts, r)
        i == JoinCandidate(ts, r, s)
    IN  /\ JoinsSession(ts, r)
        /\ IF i # 0 THEN CanAccept(ts[i], r.file) ELSE Len(ts) < TicketCapacity
        /\ tickets' =
            IF i # 0
            THEN [ts EXCEPT ![i] = [Merged(@, r) EXCEPT
                    !.left = Window, !.restores = FALSE,
                    !.state = "SessionOwned", !.owner = s, !.prior = "Armed"]]
            ELSE Append(ts, NewTicket(r, Absent, "SessionOwned", s, "Armed"))
        /\ TaskUnchanged /\ SessionUnchanged

\* reserve on files an earlier session left over: a new reservation epoch,
\* under a new ticket id.
ReserveRedispatches(t, r) ==
    LET ts == Reap(tickets)
        i == NeedsDispatchAt(ts, r)
    IN  /\ pc[t] = "idle"
        /\ ~JoinsSession(ts, r)
        /\ i # 0 /\ CanAccept(ts[i], r.file)
        /\ tickets' = [ts EXCEPT ![i] = [Merged(@, r) EXCEPT
                !.id = t, !.left = Window, !.restores = TRUE, !.state = "Reserved"]]
        /\ permit' = [permit EXCEPT ![t] =
                [id |-> t, route |-> r.route, peer |-> r.peer, left |-> Window]]
        /\ pc' = [pc EXCEPT ![t] = "permitted"]
        /\ UNCHANGED cooldown /\ SessionUnchanged

\* reserve on a ticket whose request is pending: the file joins it.
ReserveJoinsPending(r) ==
    LET ts == Reap(tickets)
        i == PendingAt(ts, r)
    IN  /\ ~JoinsSession(ts, r) /\ NeedsDispatchAt(ts, r) = 0
        /\ i # 0 /\ CanAccept(ts[i], r.file)
        /\ tickets' = [ts EXCEPT ![i] = Merged(@, r)]
        /\ TaskUnchanged /\ SessionUnchanged

\* reserve with nothing to join.
ReserveOpens(t, r) ==
    LET ts == Reap(tickets)
    IN  /\ pc[t] = "idle"
        /\ ~JoinsSession(ts, r) /\ NeedsDispatchAt(ts, r) = 0 /\ PendingAt(ts, r) = 0
        /\ Len(ts) < TicketCapacity
        /\ tickets' = Append(ts, NewTicket(r, t, "Reserved", Absent, "None"))
        /\ permit' = [permit EXCEPT ![t] =
                [id |-> t, route |-> r.route, peer |-> r.peer, left |-> Window]]
        /\ pc' = [pc EXCEPT ![t] = "permitted"]
        /\ UNCHANGED cooldown /\ SessionUnchanged

-----------------------------------------------------------------------------
(* The cooldown of a route and peer, and the dispatch.                     *)

KeyOf(t) == <<permit[t].route, permit[t].peer>>

\* claim_*_callback_request: intervals that have passed are forgotten first.
ClaimCooldown(t) ==
    LET live == [k \in Routes \X Peers |->
            IF cooldown[k].left = 0 /\ k[1] = permit[t].route
            THEN [left |-> 0, by |-> Absent] ELSE cooldown[k]]
        granted == live[KeyOf(t)].left = 0
    IN  /\ pc[t] = "permitted"
        /\ cooldown' = IF granted
                       THEN [live EXCEPT ![KeyOf(t)] = [left |-> Cooldown, by |-> t]]
                       ELSE live
        /\ pc' = [pc EXCEPT ![t] = IF granted THEN "cooled" ELSE "suppressed"]
        /\ UNCHANGED <<tickets, permit>> /\ SessionUnchanged

\* begin_dispatch: only a reservation still in its first state goes out.
Began(k) ==
    IF k.state = "Reserved" THEN [k EXCEPT !.state = "Dispatching"]
                            ELSE [k EXCEPT !.prior = "Dispatching"]

MayBegin(k) ==
    \/ k.state = "Reserved"
    \/ k.state = "SessionOwned" /\ k.prior = "Reserved"

BeginDispatch(t) ==
    LET ts == Reap(tickets)
        i == TicketOf(ts, permit[t].id)
        begins == i # 0 /\ MayBegin(ts[i])
    IN  /\ pc[t] = "cooled"
        /\ tickets' = IF begins THEN [ts EXCEPT ![i] = Began(@)]
                                ELSE Disowned(ts, permit[t].id)
        /\ pc' = [pc EXCEPT ![t] = IF ~begins THEN "unsent"
                                   ELSE IF permit[t].left > 0 THEN "sending" ELSE "late"]
        /\ UNCHANGED <<cooldown, permit>> /\ SessionUnchanged

\* mark_dispatched: the ticket waits for the peer from now on.
Marked(ts, id) ==
    LET i == TicketOf(ts, id)
        unsettled == i # 0 /\ \/ ts[i].state \in {"Reserved", "Dispatching"}
                              \/ /\ ts[i].state = "SessionOwned"
                                 /\ ts[i].prior \in {"Reserved", "Dispatching"}
    IN  IF i = 0 THEN Reap(ts)
        ELSE IF ~unsettled THEN ts
        ELSE IF ts[i].state = "SessionOwned"
             THEN [ts EXCEPT ![i].prior = "Armed"]
             ELSE [ts EXCEPT ![i].state = "Armed", ![i].left = Window]

\* Mutant: the left-over files go with the reservation that renewed them.
CancelledNoRestore(ts, id) ==
    LET rs == SelectSeq(Reap(ts), LAMBDA k : ~(k.id = id /\ k.state \in {"Reserved", "Dispatching"}))
        j == TicketOf(rs, id)
    IN  IF j # 0 /\ rs[j].prior = "Dispatching" THEN [rs EXCEPT ![j].prior = "Reserved"] ELSE rs

\* cancel: the reservation of this permit is taken back, with every file that
\* joined it, unless it renewed files a session had left over.
Cancelled(ts, id) ==
    LET pending(k) == k.id = id /\ k.state \in {"Reserved", "Dispatching"}
        i == SelectInSeq(ts, pending)
        rs == Reap(ts)
        j == TicketOf(rs, id)
    IN  IF i # 0
        THEN Reap(IF ts[i].restores
                  THEN [ts EXCEPT ![i].state = "NeedsDispatch", ![i].left = Window]
                  ELSE RemoveAt(ts, i))
        ELSE IF j # 0 /\ rs[j].state = "SessionOwned" /\ rs[j].prior = "Dispatching"
             THEN [rs EXCEPT ![j].prior = "Reserved"]
             ELSE rs

\* The cooldown refused the request.
CancelPermit(t) ==
    /\ pc[t] = "suppressed"
    /\ tickets' = Disowned(Cancelled(tickets, permit[t].id), permit[t].id)
    /\ permit' = [permit EXCEPT ![t] = NoPermit]
    /\ pc' = [pc EXCEPT ![t] = "idle"]
    /\ UNCHANGED cooldown /\ SessionUnchanged

Guarding(t) == pc[t] \in {"sending", "late"}

\* The send is raced against the deadline of its permit; a dispatch whose
\* deadline had passed when it began is late and sends nothing.
OnTheWire(t) == pc[t] = "sending" /\ permit[t].left > 0

\* The request was sent, or its delivery is unknown.
SettleSent(t) ==
    /\ pc[t] = "sending"
    /\ tickets' = Disowned(Marked(tickets, permit[t].id), permit[t].id)
    /\ pc' = [pc EXCEPT ![t] = "sent"]
    /\ UNCHANGED <<cooldown, permit>> /\ SessionUnchanged

\* The request is known not to have been sent.
SettleNotSent(t) ==
    /\ Guarding(t)
    /\ tickets' = Disowned(Cancelled(tickets, permit[t].id), permit[t].id)
    /\ pc' = [pc EXCEPT ![t] = "unsent"]
    /\ UNCHANGED <<cooldown, permit>> /\ SessionUnchanged

\* Mutant: a late settlement acts on whatever claim is there.
SettledAnyCooldown(t, left) ==
    [cooldown EXCEPT ![KeyOf(t)] = [left |-> left, by |-> Absent]]

\* commit_*_callback_request and cancel_*_callback_request act on the entry
\* this task claimed and on no other.
SettledCooldown(t, left) ==
    IF cooldown[KeyOf(t)].by = t
    THEN [cooldown EXCEPT ![KeyOf(t)] = [left |-> left, by |-> Absent]]
    ELSE cooldown

SettleCooldown(t) ==
    /\ pc[t] \in {"sent", "unsent"}
    /\ cooldown' = SettledCooldown(t, IF pc[t] = "sent" THEN Cooldown ELSE 0)
    /\ permit' = [permit EXCEPT ![t] = NoPermit]
    /\ pc' = [pc EXCEPT ![t] = "idle"]
    /\ UNCHANGED tickets /\ SessionUnchanged

\* The attempt is dropped: a guard arms the ticket on its way out, a bare
\* permit vanishes, and a claimed cooldown entry stays.
AbortTask(t) ==
    /\ pc[t] # "idle"
    /\ tickets' = LET ts == IF Guarding(t) THEN Marked(tickets, permit[t].id)
                                     ELSE tickets
                  IN  Disowned(ts, permit[t].id)
    /\ cooldown' = [k \in Routes \X Peers |->
            IF cooldown[k].by = t THEN [cooldown[k] EXCEPT !.by = Absent] ELSE cooldown[k]]
    /\ permit' = [permit EXCEPT ![t] = NoPermit]
    /\ pc' = [pc EXCEPT ![t] = "idle"]
    /\ SessionUnchanged

-----------------------------------------------------------------------------
(* Inbound sessions.                                                       *)

\* lease: tickets of the HELLO's user hash, else the hashless tickets of the
\* server and client id it names.
Candidates(ts, h) ==
    LET strong == {i \in DOMAIN ts :
            ts[i].state \in ReadyStates /\ ts[i].hashed /\ ts[i].peer = h.peer}
        weak == {i \in DOMAIN ts :
            /\ ts[i].state \in ReadyStates /\ ~ts[i].hashed
            /\ ts[i].route = h.server /\ ts[i].peer = h.peer}
    IN  IF strong # {} THEN strong ELSE weak

\* The candidates in queue order, skipping any that would exceed the claim.
Selected(ts, h) ==
    LET Take(acc, i) ==
            LET fresh == acc.files \cup ToSet(ts[i].files)
            IN  IF i \notin Candidates(ts, h) \/ Cardinality(fresh) > ClaimCapacity
                THEN acc
                ELSE [at |-> acc.at \cup {i}, files |-> fresh]
    IN  FoldLeft(Take, [at |-> {}, files |-> {}], [i \in DOMAIN ts |-> i]).at

\* claim_session: lease and adoption under one lock; the session learns the
\* hash of a hashless ticket.
ClaimSession(s, h) ==
    LET ts == Reap(tickets)
        at == Selected(ts, h)
    IN  /\ serving[s] = "idle"
        /\ at # {}
        /\ tickets' = [i \in DOMAIN ts |->
                IF i \in at
                THEN [ts[i] EXCEPT !.hashed = TRUE, !.left = Window, !.owner = s,
                                   !.prior = ts[i].state, !.state = "SessionOwned"]
                ELSE ts[i]]
        /\ serving' = [serving EXCEPT ![s] = "owned"]
        /\ UNCHANGED driving /\ TaskUnchanged

\* session_current: the first file of the first owned ticket that has one.
Current(ts, s) ==
    LET i == SelectInSeq(ts, LAMBDA k :
                k.state = "SessionOwned" /\ k.owner = s /\ k.files # <<>>)
    IN  IF i = 0 THEN Absent ELSE Head(ts[i].files)

\* The session's loop reads its next file and negotiates it.
Drive(s) ==
    LET ts == Reap(tickets)
        f == Current(ts, s)
    IN  /\ serving[s] = "owned"
        /\ tickets' = ts
        /\ driving' = [driving EXCEPT ![s] = f]
        /\ serving' = [serving EXCEPT ![s] = IF f = Absent THEN "finishing" ELSE "driving"]
        /\ TaskUnchanged

Without(k, f) == [k EXCEPT !.files = SelectSeq(@, LAMBDA g : g # f)]

\* acknowledge_session_current: what is current now leaves every ticket of
\* the session; an incomplete or detached outcome ends the loop.
Acknowledge(s, more) ==
    LET ts == Reap(tickets)
        f == Current(ts, s)
    IN  /\ serving[s] = "driving"
        /\ tickets' = [i \in DOMAIN ts |->
                IF i \in OwnedBy(ts, s) THEN Without(ts[i], f) ELSE ts[i]]
        /\ driving' = [driving EXCEPT ![s] = Absent]
        /\ serving' = [serving EXCEPT ![s] = IF more THEN "owned" ELSE "finishing"]
        /\ TaskUnchanged

\* finish_session: what is left of an owned ticket needs a fresh request.
Finished(ts, s) ==
    LET residual == [i \in DOMAIN ts |->
            IF i \in OwnedBy(ts, s) /\ ts[i].files # <<>>
            THEN [ts[i] EXCEPT !.state = "NeedsDispatch", !.left = Window,
                               !.owner = Absent, !.prior = "None"]
            ELSE ts[i]]
    IN  SelectSeq(residual, LAMBDA k : ~(k.state = "SessionOwned" /\ k.owner = s))

\* finish, or the claim dropped by an error, a cancellation or a panic.
EndSession(s) ==
    /\ serving[s] # "idle"
    /\ tickets' = Finished(Reap(tickets), s)
    /\ serving' = [serving EXCEPT ![s] = "idle"]
    /\ driving' = [driving EXCEPT ![s] = Absent]
    /\ TaskUnchanged

-----------------------------------------------------------------------------
Tick ==
    /\ tickets' = [i \in DOMAIN tickets |->
            IF tickets[i].state = "SessionOwned" \/ tickets[i].left = 0
            THEN tickets[i] ELSE [tickets[i] EXCEPT !.left = @ - 1]]
    /\ cooldown' = [k \in Routes \X Peers |->
            IF cooldown[k].left = 0 THEN cooldown[k] ELSE [cooldown[k] EXCEPT !.left = @ - 1]]
    /\ permit' = [t \in Tasks |->
            IF permit[t].left = 0 THEN permit[t] ELSE [permit[t] EXCEPT !.left = @ - 1]]
    /\ UNCHANGED pc /\ SessionUnchanged

TaskStep(t) ==
    \/ \E r \in Requests : ReserveRedispatches(t, r) \/ ReserveOpens(t, r)
    \/ ClaimCooldown(t) \/ BeginDispatch(t) \/ CancelPermit(t)
    \/ SettleSent(t) \/ SettleNotSent(t) \/ SettleCooldown(t) \/ AbortTask(t)

SessionStep(s) ==
    \/ \E h \in [peer : Peers, server : ServerRoutes \cup {Absent}] : ClaimSession(s, h)
    \/ Drive(s) \/ EndSession(s)
    \/ \E more \in BOOLEAN : Acknowledge(s, more)

Next ==
    \/ \E r \in Requests : ReserveJoinsSession(r) \/ ReserveJoinsPending(r)
    \/ \E t \in Tasks : TaskStep(t)
    \/ \E s \in Sessions : SessionStep(s)
    \/ Tick

Spec == Init /\ [][Next]_vars

-----------------------------------------------------------------------------
Ticket ==
    [id : Tasks \cup {Absent}, route : Routes, peer : Peers, hashed : BOOLEAN,
     files : Seq(Files), left : 0 .. Window, restores : BOOLEAN,
     state : ReadyStates \cup {"SessionOwned", "NeedsDispatch"},
     owner : Sessions \cup {Absent}, prior : ReadyStates \cup {"None"}]

\* The shapes of the store, the cooldown map, the tasks and the sessions.
TypeOK ==
    /\ tickets \in Seq(Ticket)
    /\ cooldown \in [Routes \X Peers ->
            [left : 0 .. Cooldown, by : Tasks \cup {Absent}]]
    /\ pc \in [Tasks -> {"idle", "permitted", "cooled", "suppressed",
                         "sending", "late", "sent", "unsent"}]
    /\ \A t \in Tasks : permit[t].left \in 0 .. Window
    /\ serving \in [Sessions -> {"idle", "owned", "driving", "finishing"}]
    /\ driving \in [Sessions -> Files \cup {Absent}]

\* CallbackTicketState::Dispatching: "One linear dispatch guard owns the
\* queued or in-progress wire request".  A ticket in that state, also under a
\* session, is never reaped, so one without a live guard would stay for ever.
GuardOwnsDispatch ==
    \A i \in DOMAIN tickets :
        "Dispatching" \in {tickets[i].state} \cup
                          (IF tickets[i].state = "SessionOwned" THEN {tickets[i].prior} ELSE {})
        => \E t \in Tasks : Guarding(t) /\ permit[t].id = tickets[i].id

\* An adopted session keeps at least one ticket and never reads StaleClaim,
\* whatever cancellations, reservations and expiries do meanwhile; and no
\* ticket is owned by a session that is over.
SessionHoldsTickets ==
    \A s \in Sessions : (serving[s] # "idle") <=> (OwnedBy(tickets, s) # {})

\* The bounds of the store, and of the files one session can take on through
\* its claim and through later joins.
WithinCapacity ==
    /\ Len(tickets) <= TicketCapacity
    /\ \A i \in DOMAIN tickets : Len(tickets[i].files) <= DownloadCapacity
    /\ \A s \in Sessions : Cardinality(FilesOf(tickets, s)) <= ClaimCapacity

\* One session negotiates with one peer: neither a claim nor a join hands it
\* a ticket of somebody else.
OnePeerPerSession ==
    \A s \in Sessions : \A i, j \in OwnedBy(tickets, s) : tickets[i].peer = tickets[j].peer

\* The cooldown and the ticket together keep a second request to the same
\* peer over the same route off the wire while one is being sent.
OneRequestInFlight ==
    \A t, u \in Tasks :
        OnTheWire(t) /\ OnTheWire(u) /\ KeyOf(t) = KeyOf(u) => t = u

Held(ts, t) == IF TicketOf(ts, permit[t].id) = 0 THEN "gone"
               ELSE ts[TicketOf(ts, permit[t].id)].state

\* "Dispatching tickets remain claimable and cannot expire underneath the
\* socket write": while a guard lives, only a session takes its ticket out of
\* Dispatching.
DispatchUndisturbed ==
    \A t \in Tasks :
     /\ Guarding(t) /\ pc'[t] = pc[t]
     /\ Held(tickets, t) = "Dispatching"
     => Held(tickets', t) \in {"Dispatching", "SessionOwned"}

Holds(k, r) == Mergeable(k, r) /\ r.file \in ToSet(k.files)

\* The step takes back the reservation whose permit is id.
TakesBack(id) ==
    \E t \in Tasks : /\ pc[t] \in {"suppressed", "sending", "late"} /\ pc'[t] \in {"idle", "unsent"}
                     /\ id # Absent /\ permit[t].id = id

\* A file waiting for a peer is given up only when its ticket's window is
\* over, when a session acknowledges a file, or when the request it waited
\* for is taken back before it was sent; files an earlier session left over
\* survive even that.
FilesAccounted ==
    \A r \in Requests :
     (/\ \E i \in DOMAIN tickets : Holds(tickets[i], r)
      /\ \A i \in DOMAIN tickets' : ~Holds(tickets'[i], r))
     => \A i \in DOMAIN tickets : Holds(tickets[i], r) =>
         LET k == tickets[i]
         IN  \/ k.state \in {"Reserved", "Armed", "NeedsDispatch"} /\ k.left = 0
             \/ k.state = "SessionOwned" /\ serving[k.owner] = "driving"
                     /\ serving'[k.owner] \in {"owned", "finishing"}
             \/ k.state \in {"Reserved", "Dispatching"} /\ TakesBack(k.id) /\ ~k.restores

=============================================================================
