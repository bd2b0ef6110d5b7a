----------------------------- MODULE MCProgress -----------------------------
(***************************************************************************)
(* What the server connection, the upload queue and the Kad node owe in    *)
(* the end, for TLC: instances of ServerSession, ServerLoop, UploadQueue,  *)
(* KadSearchPhase, KadSearch and KadRpc with the fairness the scheduler,   *)
(* the drivers and the timers give them.  A behaviour belongs to one of    *)
(* them, named by scenario; the variables of the others rest.              *)
(***************************************************************************)
EXTENDS Naturals, Sequences, FiniteSets, Functions, TLC

CONSTANTS s1, s2, s3, r1, r2, f1, c1, c2, i1, x1, x2, t1, h1, h2, k1, k2, Absent, Probe

VARIABLES scenario,
    sess, queued, held, pending, pub, wire, owed, channel, call, reply,
    withdrawn, expired, expects, wrote, credited, seen,
    enabled, permit, requested, retired, caller, plan, unseen,
    pc, cur, queue, active, session, dirty, outcome, task, exit, cancelled, activation,
    public, view, runtime, holder, evidence, shutdown, commands,
    uploads, conns, senders, banned, shared,
    search, lookup, clock, stopped, step, unsent, nextEmit, attempted, queried, reason, late, after,
    slots, inFlight, walker, walk, made, guard, raw, rawOpen, out, outOpen, known, got, dropped,
    running, awaited, request, result, answer, tracked, replies, loop, handled, contact, stop, stops,
    sent, accepted, broadcast

sessions == <<sess, queued, held, pending, pub, wire, owed, channel, call, reply,
              withdrawn, expired, expects, wrote, credited, seen>>
supervisor == <<enabled, permit, requested, retired, caller, plan, unseen,
                pc, cur, queue, active, session, dirty, outcome, task, exit, cancelled,
                activation, public, view, runtime, holder, evidence, shutdown, commands>>
queueing == <<uploads, conns, senders, banned, shared>>
phase2 == <<search, lookup, clock, stopped, step, unsent, nextEmit, attempted, queried, reason, late, after>>
calls == <<slots, inFlight, walker, walk, made, guard, raw, rawOpen, out, outOpen, known, got, dropped>>
rpc == <<running, awaited, request, result, answer, tracked, replies, loop, handled, contact,
         stop, stops, sent, accepted, broadcast>>

\* A keyword search and a source search; writes to the server may fail.
Answers == INSTANCE ServerSession WITH
    Requests <- {r1, r2}, Kind <- (r1 :> "keyword") @@ (r2 :> "source"),
    Targets <- (r1 :> {}) @@ (r2 :> {f1}), Files <- {f1}, Capacity <- 1,
    TcpKinds <- {<<"id", "high">>, <<"id", "zero">>,
                 <<"page", "more">>, <<"page", "last">>, <<"page", "bad">>},
    UdpKinds <- {<<"sources", "good">>, <<"sources", "bad">>},
    ZeroAfterLogin <- FALSE, ProbeTerm <- FALSE, Split <- FALSE, WriteFails <- TRUE,
    MaxSessions <- 2, MaxWire <- 1, cancelled <- withdrawn

PlanOf(order, target, staticOnly, safe, reconnect) ==
    [order |-> order, target |-> target, staticOnly |-> staticOnly,
     safe |-> safe, reconnect |-> reconnect]

TwoServers == {s1, s2}
AnyOneByOne == PlanOf(<<s1, s2>>, Absent, FALSE, TRUE, TRUE)
PairUp == PlanOf(<<s1, s2>>, Absent, FALSE, FALSE, TRUE)

\* One server at a time: the whole list, staying disconnected, a pinned server,
\* a pinned one that has left the list, static servers only.
Single == INSTANCE ServerLoop WITH
    Servers <- TwoServers, StaticServers <- {s1}, FirstPlan <- AnyOneByOne,
    Plans <- {AnyOneByOne,
              PlanOf(<<s1, s2>>, Absent, FALSE, TRUE, FALSE),
              PlanOf(<<s1, s2>>, s2, FALSE, TRUE, TRUE),
              PlanOf(<<s1>>, s2, FALSE, TRUE, TRUE),
              PlanOf(<<s2, s1>>, Absent, TRUE, TRUE, TRUE)},
    MaxCommands <- 2, CanShutdown <- TRUE

\* Two at a time, and there are but two.
Pair == INSTANCE ServerLoop WITH
    Servers <- TwoServers, StaticServers <- {s1}, FirstPlan <- PairUp,
    Plans <- {PairUp, PlanOf(<<s1, s2>>, s1, FALSE, FALSE, TRUE)},
    MaxCommands <- 1, CanShutdown <- TRUE

\* One slot, a friend with a HighID and a stranger with a LowID.
Uploads == INSTANCE UploadQueue WITH
    Clients <- {c1, c2}, Files <- {f1}, Withdrawn <- {}, Ips <- {i1},
    IpsOf <- [x \in {c1, c2} |-> {i1}], Conns <- {x1, x2}, Tasks <- {t1},
    LowId <- {c2}, Friends <- {c1}, Guarded <- {}, Verifiers <- {},
    Expiries <- {"late"}, Weight <- [x \in {c1, c2} |-> 1],
    Policies <- {[base |-> 1, elastic |-> 0, soft |-> 4, hard |-> 4]},
    Lines <- {"lull"}, MinUp <- 2, PerIp <- 3, CallbackGuard <- 50, MaxExpire <- 1,
    queue <- uploads, tasks <- senders

Phase == INSTANCE KadSearchPhase WITH
    Timeouts <- {4, 10}, Fanouts <- {2}, MaxResponders <- 2, ResponseGrace <- 1,
    QueryTimeout <- 4, IdleGrace <- 3, Tick <- 2, Margin <- 2, Lag <- 1, MaxSend <- 1,
    pc <- step, cancelled <- stopped, now <- clock, pending <- unsent, sent <- queried

\* Two searches for different keys, of which one permit lets one run.
Streams == INSTANCE KadSearch WITH
    Searches <- {s1, s2}, Target <- (s1 :> k1) @@ (s2 :> k2),
    Style <- (s1 :> "keyword") @@ (s2 :> "source"),
    MaxConcurrent <- 1, Buffer <- 1, Hashes <- {h1}, ResultCap <- 1, MaxObservations <- 2,
    task <- walker, held <- guard, seen <- known, cancelled <- dropped

\* A search and two publishes, two of them for one key.
Permits == INSTANCE KadSearch WITH
    Searches <- {s1, s2, s3}, Target <- (s1 :> k1) @@ (s2 :> k1) @@ (s3 :> k2),
    Style <- (s1 :> "source") @@ (s2 :> "publish") @@ (s3 :> "publish"),
    MaxConcurrent <- 2, Buffer <- 1, Hashes <- {h1, h2}, ResultCap <- 1, MaxObservations <- 2,
    task <- walker, held <- guard, seen <- known, cancelled <- dropped

\* A publish and a lookup request to one address, on different ports.
Mixed == INSTANCE KadRpc WITH
    Requests <- {r1, r2}, Peer <- (r1 :> [ip |-> 1, port |-> 1]) @@ (r2 :> [ip |-> 1, port |-> 2]),
    Op <- (r1 :> "key") @@ (r2 :> "req"), ReplyPorts <- {2}, MaxDatagrams <- 2, MaxStops <- 1,
    enabled <- running, pending <- awaited, call <- request, outcome <- result

ASSUME /\ Answers!SessionAssumption /\ Single!LoopAssumption /\ Pair!LoopAssumption
       /\ Streams!SearchAssumption /\ Permits!SearchAssumption /\ Mixed!RpcAssumption

\* What the variables of a part hold while another one runs.
NoSessions ==
    /\ sess = Absent /\ queued = Absent /\ held = Absent /\ pending = Absent
    /\ pub = Absent /\ wire = Absent /\ owed = Absent /\ channel = Absent
    /\ call = Absent /\ reply = Absent /\ withdrawn = Absent /\ expired = Absent
    /\ expects = Absent /\ wrote = Absent /\ credited = Absent /\ seen = Absent
NoSupervisor ==
    /\ enabled = Absent /\ permit = Absent /\ requested = Absent /\ retired = Absent
    /\ caller = Absent /\ plan = Absent /\ unseen = Absent /\ pc = Absent
    /\ cur = Absent /\ queue = Absent /\ active = Absent /\ session = Absent
    /\ dirty = Absent /\ outcome = Absent /\ task = Absent /\ exit = Absent
    /\ cancelled = Absent /\ activation = Absent /\ public = Absent /\ view = Absent
    /\ runtime = Absent /\ holder = Absent /\ evidence = Absent /\ shutdown = Absent
    /\ commands = Absent
NoQueueing ==
    /\ uploads = Absent /\ conns = Absent /\ senders = Absent /\ banned = Absent
    /\ shared = Absent
NoPhase2 ==
    /\ search = Absent /\ lookup = Absent /\ clock = Absent /\ stopped = Absent
    /\ step = Absent /\ unsent = Absent /\ nextEmit = Absent /\ attempted = Absent
    /\ queried = Absent /\ reason = Absent /\ late = Absent /\ after = Absent
NoCalls ==
    /\ slots = Absent /\ inFlight = Absent /\ walker = Absent /\ walk = Absent
    /\ made = Absent /\ guard = Absent /\ raw = Absent /\ rawOpen = Absent
    /\ out = Absent /\ outOpen = Absent /\ known = Absent /\ got = Absent
    /\ dropped = Absent
NoRpc ==
    /\ running = Absent /\ awaited = Absent /\ request = Absent /\ result = Absent
    /\ answer = Absent /\ tracked = Absent /\ replies = Absent /\ loop = Absent
    /\ handled = Absent /\ contact = Absent /\ stop = Absent /\ stops = Absent
    /\ sent = Absent /\ accepted = Absent /\ broadcast = Absent

Init ==
    \/ scenario = "answers" /\ Answers!Init
       /\ NoSupervisor /\ NoQueueing /\ NoPhase2 /\ NoCalls /\ NoRpc
    \/ scenario = "single" /\ Single!Init
       /\ NoSessions /\ NoQueueing /\ NoPhase2 /\ NoCalls /\ NoRpc
    \/ scenario = "pair" /\ Pair!Init
       /\ NoSessions /\ NoQueueing /\ NoPhase2 /\ NoCalls /\ NoRpc
    \/ scenario = "uploads" /\ Uploads!Init
       /\ NoSessions /\ NoSupervisor /\ NoPhase2 /\ NoCalls /\ NoRpc
    \/ scenario = "phase2" /\ Phase!Init
       /\ NoSessions /\ NoSupervisor /\ NoQueueing /\ NoCalls /\ NoRpc
    \/ scenario = "streams" /\ Streams!Init
       /\ NoSessions /\ NoSupervisor /\ NoQueueing /\ NoPhase2 /\ NoRpc
    \/ scenario = "permits" /\ Permits!Init
       /\ NoSessions /\ NoSupervisor /\ NoQueueing /\ NoPhase2 /\ NoRpc
    \/ scenario = "mixed" /\ Mixed!RpcInit
       /\ NoSessions /\ NoSupervisor /\ NoQueueing /\ NoPhase2 /\ NoCalls

Next ==
    \/ scenario = "answers" /\ Answers!Next
       /\ UNCHANGED <<scenario, supervisor, queueing, phase2, calls, rpc>>
    \/ scenario = "single" /\ Single!Next
       /\ UNCHANGED <<scenario, sessions, queueing, phase2, calls, rpc>>
    \/ scenario = "pair" /\ Pair!Next
       /\ UNCHANGED <<scenario, sessions, queueing, phase2, calls, rpc>>
    \/ scenario = "uploads" /\ Uploads!Next
       /\ UNCHANGED <<scenario, sessions, supervisor, phase2, calls, rpc>>
    \/ scenario = "phase2" /\ Phase!Next
       /\ UNCHANGED <<scenario, sessions, supervisor, queueing, calls, rpc>>
    \/ scenario = "streams" /\ Streams!Next
       /\ UNCHANGED <<scenario, sessions, supervisor, queueing, phase2, rpc>>
    \/ scenario = "permits" /\ Permits!Next
       /\ UNCHANGED <<scenario, sessions, supervisor, queueing, phase2, rpc>>
    \/ scenario = "mixed" /\ Mixed!RpcNext
       /\ UNCHANGED <<scenario, sessions, supervisor, queueing, phase2, calls>>

\* The session's task runs; a caller whose answer is there
\* takes it.
SessionFair ==
    /\ WF_sessions(scenario = "answers" /\ (Answers!Dispatch \/ Answers!DispatchProbe
                                             \/ Answers!Cleanup))
    /\ \A r \in {r1, r2} : WF_sessions(scenario = "answers" /\ Answers!Receive(r))

\* The supervisor is a task that runs, a session answers its cancellation, and its
\* dial has a deadline.
LoopFair ==
    /\ WF_supervisor(\/ scenario = "single" /\ Single!Supervise
                     \/ scenario = "pair" /\ Pair!Supervise)
    /\ \A s \in TwoServers :
           WF_supervisor(\/ scenario = "single" /\ Single!SessionYields(s)
                         \/ scenario = "pair" /\ Pair!SessionYields(s))

\* The driver's loop maintains the queue for ever, and a dial and a callback sender
\* run under a timeout.
UploadFair ==
    /\ \A x \in {c1, c2} : WF_queueing(scenario = "uploads" /\ Uploads!Maintain({}, x :> "late"))
    /\ WF_queueing(scenario = "uploads" /\ Uploads!Sender(t1))

PermitsMove(s) ==
    Permits!InsertTarget(s) \/ Permits!Walk(s) \/ Permits!Task(s) \/ Permits!Poll(s)
StreamsMove(s) ==
    Streams!InsertTarget(s) \/ Streams!Walk(s) \/ Streams!Task(s) \/ Streams!Poll(s)

\* A search moves on while its timers fire and its tasks are polled.
SearchFair ==
    /\ WF_phase2(scenario = "phase2" /\ Phase!Step)
    /\ \A s \in {s1, s2, s3} :
         WF_calls(\/ scenario = "permits" /\ PermitsMove(s)
                  \/ scenario = "streams" /\ s # s3 /\ StreamsMove(s))

\* Limiters refill, sends return, timers fire and the receive loop runs.
RequestFair ==
    /\ \A r \in {r1, r2} : WF_rpc(scenario = "mixed" /\ Mixed!Progress(r))
    /\ WF_rpc(scenario = "mixed" /\ Mixed!Handle)

\* What is ready again and again is not passed over for ever: a timer that is armed anew,
\* an arm of a select (it picks among the ready ones at random) and the next turn of the
\* driver.  A behaviour belongs to one scenario, so the disjunction says of each what it
\* would say alone.
SignalTaken == (permit /\ ~permit') \/ (unseen /\ ~unseen')
ArmTaken ==
    \/ /\ scenario = "answers" /\ (Answers!LoginTimeout \/ Answers!SearchTimeout)
       /\ UNCHANGED <<supervisor, queueing>>
    \/ /\ scenario = "single" /\ Single!Supervise /\ SignalTaken
       /\ UNCHANGED <<sessions, queueing>>
    \/ /\ scenario = "pair" /\ Pair!Supervise /\ SignalTaken
       /\ UNCHANGED <<sessions, queueing>>
    \/ /\ scenario = "uploads" /\ Uploads!TakePending
       /\ UNCHANGED <<sessions, supervisor>>
ReadyFair == SF_<<sessions, supervisor, queueing>>(ArmTaken)

Fairness == SessionFair /\ LoopFair /\ UploadFair /\ SearchFair /\ RequestFair /\ ReadyFair

Spec ==
    /\ Init /\ Fairness
    /\ [][Next]_<<scenario, sessions, supervisor, queueing, phase2, calls, rpc>>

-----------------------------------------------------------------------------
\* No caller waits for ever: a session that is not logged in does not last (the
\* login is accepted or the attempt is retired by its deadline), and a request a
\* session has taken out of the channel is answered.
CallsConclude ==
    /\ []<>(scenario = "answers" => ~Answers!LoggingIn)
    /\ \A r \in {r1, r2} :
         []<>(scenario = "answers" => (call[r] = "waiting" => r \in Range(channel)))

\* What the operator asks for happens: a disconnect request is acknowledged, unless
\* the lane is enabled again or the runtime goes down; a session to a server the
\* newest plan does not allow does not go on; and while the lane is enabled, its
\* plan selects a server and allows reconnecting, the supervisor always tries again.
Supervised == scenario \in {"single", "pair"}
CommandsTakeEffect ==
    /\ []<>(Supervised => enabled \/ retired = requested \/ pc = "done")
    /\ \A s \in TwoServers :
         []<>(Supervised => task[s] # "running" \/ Single!Allows(plan, s))
    /\ []<>(scenario = "single" =>
              (\/ ~enabled \/ ~plan.reconnect \/ ~runtime \/ Single!Selected(plan) = <<>>
               \/ Single!Live # {} \/ pc \in {"resolving", "presolve"}))

\* Slots come back: one given to a peer without a connection is taken up or taken
\* back, and a free one does not stay free while a connected waiter may have it.
SlotsComeBack ==
    /\ \A x \in {c1, c2} :
         []<>(scenario = "uploads" => x \notin Uploads!Active(uploads) \/ uploads.sess[x].up)
    /\ []<>(scenario = "uploads" =>
              \/ Cardinality(Uploads!Active(uploads)) >= Uploads!EffectiveLimit(uploads)
              \/ ~Uploads!SlotOpenPaced(uploads)
              \/ \A x \in Uploads!Waiting(uploads) :
                     ~uploads.sess[x].up \/ Uploads!Cooled(uploads, x))

\* Kad work ends: every search ends and one that took a permit gives it back, whether
\* its caller drains or drops the stream or cancels, and however full the channels
\* are; and every request future ends, whatever is lost, paused or answered late.
SearchesEnd ==
    \A n \in 1 .. 3 :
        []<>(/\ scenario = "phase2" => step = "done"
             /\ scenario \in {"streams", "permits"} =>
                  \A s \in DOMAIN walker \intersect {<<s1, s2, s3>>[n]} :
                      walker[s] \in {"idle", "refused", "done"}
             /\ scenario = "mixed" => request[<<r1, r2, r2>>[n]] \in {"new", "checked", "done"})
=============================================================================
