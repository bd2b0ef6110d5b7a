----------------------------- MODULE ServerLoop -----------------------------
(***************************************************************************)
(* The supervisor of the eD2k server lane (ed2k_server/loop_runtime.rs),   *)
(* its control handle (server_control.rs), the generation-fenced server    *)
(* evidence (reachability.rs) and the callers in network_api.rs.           *)
(*                                                                         *)
(* The supervisor tries the servers of its connect plan one after the      *)
(* other, or, with safe connect off, two at a time with private state      *)
(* until one logs in.  A session is named by its server: a session is      *)
(* always joined before the next one to the same server starts.  What      *)
(* happens inside a session is the subject of ServerSession; here it       *)
(* dials, logs in, waits for its activation, runs and ends.                *)
(***************************************************************************)
EXTENDS Naturals, Sequences, FiniteSets

CONSTANTS
    Servers,        \* configured servers
    StaticServers,  \* those of them the operator marked static
    Plans,          \* connect plans the core can publish
    FirstPlan,      \* the plan the runtime was started with
    Absent,         \* no server
    MaxCommands,    \* bound: operator commands, plan refreshes, port changes
    CanShutdown     \* whether the runtime may be disconnected

VARIABLES
    enabled, permit, requested, retired, caller,
    plan, unseen,
    pc, cur, queue, active, session, dirty, outcome,
    task, exit, cancelled, activation,
    public, view,
    runtime, holder, evidence,
    shutdown, commands

control == <<enabled, permit, requested, retired, caller>>
planVars == <<plan, unseen>>
loopVars == <<pc, cur, queue, active, session, dirty, outcome>>
taskVars == <<task, exit, cancelled, activation>>
stateVars == <<public, view>>
reachVars == <<runtime, holder, evidence>>
envVars == <<shutdown, commands>>
vars == <<control, planVars, loopVars, taskVars, stateVars, reachVars,
          envVars>>

Cleared == [connecting |-> FALSE, connected |-> FALSE, endpoint |-> Absent]
Dialing(s) == [connecting |-> TRUE, connected |-> FALSE, endpoint |-> s]
LoggedIn(s) == [connecting |-> FALSE, connected |-> TRUE, endpoint |-> s]
CycleStarted == [connecting |-> TRUE, connected |-> FALSE, endpoint |-> Absent]
ConnectionStates ==
    {Cleared, CycleStarted} \cup {Dialing(s) : s \in Servers}
                            \cup {LoggedIn(s) : s \in Servers}

Outcomes == {"none", "Exhausted", "SessionEnded", "PlanChanged",
             "ReconnectRequested", "Shutdown"}
SequentialSteps == {"next", "resolving", "session", "joining", "pace",
                    "reconnectDelay"}
ParallelSteps == {"fill", "presolve", "poll", "reap", "sleep", "losers",
                  "mirror", "mirrorWait", "retiring", "cycleOver",
                  "parallelDelay"}
Steps == {"top", "acking", "idle", "retryWait", "noneWait", "done"}
             \cup SequentialSteps \cup ParallelSteps

Live == {s \in Servers : task[s] \notin {"none", "ended"}}

-----------------------------------------------------------------------------
(* The plan.                                                               *)

Selected(p) ==
    IF p.target # Absent
    THEN IF \E i \in DOMAIN p.order : p.order[i] = p.target
         THEN <<p.target>>
         ELSE <<>>
    ELSE SelectSeq(p.order,
                   LAMBDA s : p.staticOnly => s \in StaticServers)

MaxSimultaneous(p) == IF p.safe \/ p.target # Absent THEN 1 ELSE 2

Allows(p, s) == \E i \in DOMAIN Selected(p) : Selected(p)[i] = s

\* A plan names configured servers.
LoopAssumption ==
    /\ FirstPlan \in Plans
    /\ \A p \in Plans : Selected(p) \in Seq(Servers)
    /\ Absent \notin Servers
    /\ MaxCommands \in Nat

-----------------------------------------------------------------------------
(* Reachability leases and writers.                                        *)

Begins == runtime

Activated(s) ==
    /\ holder' = s
    /\ evidence' = Absent

Retired(set) ==
    /\ holder' = IF holder \in set THEN Absent ELSE holder
    /\ evidence' = IF holder \in set THEN Absent ELSE evidence

Publish(s) ==
    /\ task[s] = "running"
    /\ runtime /\ holder = s
    /\ evidence' = s
    /\ UNCHANGED <<control, planVars, loopVars, taskVars, stateVars, runtime,
                   holder, envVars>>

-----------------------------------------------------------------------------
(* One session.                                                            *)

InParallel == pc \in ParallelSteps

Write(s, st) ==
    IF InParallel
    THEN /\ view' = [view EXCEPT ![s] = st]
         /\ UNCHANGED public
    ELSE /\ public' = st
         /\ UNCHANGED view

Ended(s, how) ==
    /\ task' = [task EXCEPT ![s] = "ended"]
    /\ exit' = [exit EXCEPT ![s] = how]
    /\ UNCHANGED <<cancelled, activation>>

SessionFrame == UNCHANGED <<control, planVars, loopVars, reachVars, envVars>>

DialFails(s) ==
    /\ task[s] = "dialing"
    /\ Ended(s, "err")
    /\ Write(s, Cleared)
    /\ SessionFrame

LogsIn(s) ==
    /\ task[s] = "dialing"
    /\ Write(s, LoggedIn(s))
    /\ task' = [task EXCEPT ![s] =
                    IF activation[s] = "active" THEN "running" ELSE "gated"]
    /\ UNCHANGED <<exit, cancelled, activation>>
    /\ SessionFrame

GateOpens(s) ==
    /\ task[s] = "gated"
    /\ activation[s] = "active"
    /\ task' = [task EXCEPT ![s] = "running"]
    /\ UNCHANGED <<exit, cancelled, activation, stateVars>>
    /\ SessionFrame

GateRetires(s) ==
    /\ task[s] = "gated"
    /\ activation[s] = "retired"
    /\ Ended(s, "err")
    /\ UNCHANGED stateVars
    /\ SessionFrame

Drops(s) ==
    /\ task[s] = "running"
    /\ Ended(s, "err")
    /\ UNCHANGED stateVars
    /\ SessionFrame

Rotates(s) ==
    /\ task[s] = "running"
    /\ Ended(s, "ok")
    /\ Write(s, Cleared)
    /\ SessionFrame

SeesCancel(s) ==
    /\ task[s] \in {"dialing", "running"}
    /\ s \in cancelled
    /\ Ended(s, "ok")
    /\ Write(s, Cleared)
    /\ SessionFrame

SeesShutdown(s) ==
    /\ task[s] \in {"dialing", "running"}
    /\ shutdown
    /\ Ended(s, "shutdown")
    /\ Write(s, Cleared)
    /\ SessionFrame

SessionStep(s) ==
    \/ DialFails(s) \/ LogsIn(s) \/ GateOpens(s) \/ GateRetires(s)
    \/ Drops(s) \/ Rotates(s) \/ SeesCancel(s) \/ SeesShutdown(s)
    \/ Publish(s)

-----------------------------------------------------------------------------
(* The arms every wait of the supervisor has.                              *)

PlanArm == unseen /\ unseen' = FALSE /\ UNCHANGED <<plan, control>>
WakeArm ==
    /\ permit /\ permit' = FALSE
    /\ UNCHANGED <<enabled, requested, retired, caller, planVars>>
QuietArm == UNCHANGED <<control, planVars>>

Goto(step) ==
    /\ pc' = step
    /\ UNCHANGED <<cur, queue, active, session, dirty, outcome>>

\* Back to the head of the loop, or out of it: nothing local survives.
Restart(step) ==
    /\ pc' = step
    /\ cur' = Absent /\ queue' = <<>> /\ active' = <<>> /\ session' = Absent
    /\ dirty' = FALSE /\ outcome' = "none"

ClearPublic == public' = Cleared /\ UNCHANGED view

\* Dropping the attempts aborts their tasks and retires their leases.
DropTasks(set) ==
    /\ task' = [s \in Servers |-> IF s \in set THEN "none" ELSE task[s]]
    /\ exit' = [s \in Servers |-> IF s \in set THEN "ok" ELSE exit[s]]
    /\ cancelled' = cancelled \ set
    /\ activation' = [s \in Servers |->
                          IF s \in set THEN "retired" ELSE activation[s]]

\* (A session told to stop that keeps its evidence.)
CancelUnfenced(set) ==
    /\ cancelled' = cancelled \cup set
    /\ activation' = [s \in Servers |->
                          IF s \in set THEN "retired" ELSE activation[s]]
    /\ UNCHANGED <<task, exit, reachVars>>

\* A session that the supervisor ends itself: its evidence is revoked before
\* it is told to stop, and it is joined afterwards.
Cancel(set) ==
    /\ Retired(set)
    /\ cancelled' = cancelled \cup set
    /\ activation' = [s \in Servers |->
                          IF s \in set THEN "retired" ELSE activation[s]]
    /\ UNCHANGED <<task, exit, runtime>>

Spawn(s, gate) ==
    /\ task' = [task EXCEPT ![s] = "dialing"]
    /\ exit' = [exit EXCEPT ![s] = "ok"]
    /\ cancelled' = cancelled \ {s}
    /\ activation' = [activation EXCEPT ![s] = gate]

Quiet == UNCHANGED <<taskVars, stateVars, reachVars>>

-----------------------------------------------------------------------------
(* The head of the loop and its idle states.                               *)

TopDisabled ==
    /\ pc = "top" /\ ~shutdown /\ ~enabled
    /\ ClearPublic
    /\ Goto("acking")
    /\ UNCHANGED <<control, planVars, taskVars, reachVars, envVars>>

Acknowledge ==
    /\ pc = "acking"
    /\ retired' = IF enabled THEN retired ELSE requested
    /\ Goto("idle")
    /\ Quiet
    /\ UNCHANGED <<enabled, permit, requested, caller, planVars, envVars>>

\* Disabled, out of servers or not allowed to reconnect: only the plan, the
\* wake signal or the shutdown flag ends the wait.
WaitForCommand ==
    /\ pc \in {"idle", "retryWait"}
    /\ \/ PlanArm /\ Restart("top")
       \/ WakeArm /\ Restart("top")
       \/ shutdown /\ QuietArm /\ Restart("done")
    /\ Quiet
    /\ UNCHANGED envVars

TopEnabled ==
    /\ pc = "top" /\ ~shutdown /\ enabled
    /\ unseen' = FALSE
    /\ cur' = plan
    /\ queue' = Selected(plan)
    /\ IF MaxSimultaneous(plan) = 2 /\ Len(Selected(plan)) > 1
       THEN /\ pc' = "fill"
            /\ public' = CycleStarted
       ELSE /\ pc' = IF Selected(plan) = <<>> /\ plan.reconnect
                     THEN "noneWait"
                     ELSE "next"
            /\ UNCHANGED public
    /\ UNCHANGED <<control, plan, active, session, dirty, outcome, taskVars,
                   view, reachVars, envVars>>

LeaveLoop ==
    /\ pc \in {"top", "next"} /\ shutdown
    /\ Restart("done")
    /\ Quiet
    /\ UNCHANGED <<control, planVars, envVars>>

\* wait_for_loop_control where every way but the shutdown leads to the head.
DelayBeforeRestart ==
    /\ pc \in {"noneWait", "reconnectDelay", "parallelDelay"}
    /\ \/ QuietArm /\ Restart("top")
       \/ PlanArm /\ Restart("top")
       \/ WakeArm /\ Restart("top")
       \/ shutdown /\ QuietArm /\ Restart("done")
    /\ Quiet
    /\ UNCHANGED envVars

-----------------------------------------------------------------------------
(* One server after the other.                                             *)

NextServer ==
    /\ pc = "next" /\ ~shutdown /\ queue # <<>>
    /\ Goto("resolving")
    /\ Quiet
    /\ UNCHANGED <<control, planVars, envVars>>

OrderOver ==
    /\ pc = "next" /\ queue = <<>>
    /\ Restart(IF cur.reconnect THEN "top" ELSE "retryWait")
    /\ Quiet
    /\ UNCHANGED <<control, planVars, envVars>>

Resolved ==
    /\ pc = "resolving"
    /\ IF Begins
       THEN /\ Spawn(Head(queue), "active")
            /\ Activated(Head(queue))
            /\ public' = Dialing(Head(queue))
            /\ pc' = "session"
            /\ session' = Head(queue)
            /\ UNCHANGED <<cur, queue, active, dirty, outcome>>
       ELSE /\ Restart("done")
            /\ UNCHANGED <<taskVars, holder, evidence, public>>
    /\ UNCHANGED <<control, planVars, view, runtime, envVars>>

Unresolved ==
    /\ pc = "resolving"
    /\ outcome' = "Exhausted"
    /\ pc' = "pace"
    /\ Quiet
    /\ UNCHANGED <<control, planVars, cur, queue, active, session, dirty,
                   envVars>>

ResolveInterrupted ==
    /\ pc = "resolving"
    /\ \/ PlanArm /\ ClearPublic /\ Restart("top")
       \/ WakeArm /\ ClearPublic /\ Restart("top")
       \/ shutdown /\ QuietArm /\ Restart("done") /\ UNCHANGED stateVars
    /\ UNCHANGED <<taskVars, reachVars, envVars>>

\* The session ended by itself.  An error leaves the state as it was, and
\* what it shows tells a lost session from a failed attempt.
SessionFinished ==
    /\ pc = "session" /\ task[session] = "ended"
    /\ Retired({session})
    /\ DropTasks({session})
    /\ \/ /\ exit[session] = "shutdown"
          /\ Restart("done")
       \/ /\ exit[session] # "shutdown" /\ dirty
          /\ Restart("top")
       \/ /\ exit[session] # "shutdown" /\ ~dirty
          /\ outcome' = IF public.connected \/ exit[session] = "ok"
                        THEN "SessionEnded" ELSE "Exhausted"
          /\ pc' = "pace"
          /\ session' = Absent
          /\ UNCHANGED <<cur, queue, active, dirty>>
    /\ ClearPublic
    /\ UNCHANGED <<control, planVars, runtime, envVars>>

SessionPlan ==
    /\ pc = "session" /\ PlanArm
    /\ IF public.connected /\ Allows(plan, session)
       THEN /\ dirty' = TRUE
            /\ UNCHANGED <<pc, cur, queue, active, session, outcome, taskVars,
                           reachVars>>
       ELSE /\ Cancel({session})
            /\ outcome' = "PlanChanged"
            /\ pc' = "joining"
            /\ UNCHANGED <<cur, queue, active, session, dirty>>
    /\ UNCHANGED <<stateVars, envVars>>

SessionInterrupted ==
    /\ pc = "session"
    /\ \/ WakeArm /\ outcome' = "ReconnectRequested"
       \/ shutdown /\ QuietArm /\ outcome' = "Shutdown"
    /\ Cancel({session})
    /\ pc' = "joining"
    /\ UNCHANGED <<cur, queue, active, session, dirty, stateVars, envVars>>

Joined(set) == \A s \in set : task[s] = "ended"

SessionDetached ==
    /\ pc = "joining"
    /\ IF outcome = "Shutdown"
       THEN Restart("done") /\ UNCHANGED stateVars
       ELSE ClearPublic /\ Restart("top")
    /\ UNCHANGED <<control, planVars, taskVars, reachVars, envVars>>

SessionJoined ==
    /\ pc = "joining" /\ Joined({session})
    /\ DropTasks({session})
    /\ IF outcome = "Shutdown"
       THEN Restart("done") /\ UNCHANGED stateVars
       ELSE /\ ClearPublic
            /\ Restart(IF /\ outcome = "ReconnectRequested"
                          /\ enabled /\ cur.reconnect /\ ~shutdown
                       THEN "reconnectDelay" ELSE "top")
    /\ UNCHANGED <<control, planVars, reachVars, envVars>>

Paces ==
    /\ cur.reconnect /\ ~shutdown
    /\ Tail(queue) = <<>> \/ outcome = "SessionEnded"

\* The next server of the order, after the delay where there is one.
PaceNext ==
    /\ pc = "pace"
    /\ queue' = Tail(queue)
    /\ pc' = "next" /\ outcome' = "none"
    /\ Quiet
    /\ UNCHANGED <<control, planVars, cur, active, session, dirty, envVars>>

PaceInterrupted ==
    /\ pc = "pace" /\ Paces
    /\ \/ PlanArm /\ Restart("top")
       \/ WakeArm /\ Restart("top")
    /\ Quiet
    /\ UNCHANGED envVars

Sequential ==
    \/ NextServer \/ OrderOver \/ Resolved \/ Unresolved \/ ResolveInterrupted
    \/ SessionFinished \/ SessionPlan \/ SessionInterrupted \/ SessionJoined
    \/ PaceNext \/ PaceInterrupted

-----------------------------------------------------------------------------
(* Two attempts at a time.                                                 *)

Attempts == {active[i] : i \in DOMAIN active}

RetireCycle(how) ==
    /\ Cancel(Attempts)
    /\ outcome' = how
    /\ pc' = "retiring"
    /\ UNCHANGED <<cur, queue, active, session, dirty, stateVars>>

FillPlanChanged ==
    /\ pc = "fill" /\ Len(active) < 2 /\ unseen
    /\ RetireCycle("PlanChanged")
    /\ UNCHANGED <<control, planVars, envVars>>

Fill ==
    /\ pc = "fill" /\ (Len(active) < 2 => ~unseen)
    /\ Goto(IF Len(active) < 2 /\ queue # <<>> THEN "presolve" ELSE "poll")
    /\ Quiet
    /\ UNCHANGED <<control, planVars, envVars>>

AttemptResolved ==
    /\ pc = "presolve"
    /\ IF Begins
       THEN /\ Spawn(Head(queue), "pending")
            /\ view' = [view EXCEPT ![Head(queue)] = Dialing(Head(queue))]
            /\ active' = Append(active, Head(queue))
            /\ queue' = Tail(queue)
            /\ pc' = "fill"
            /\ UNCHANGED <<cur, session, dirty, outcome, public, reachVars>>
       ELSE RetireCycle("Shutdown")
    /\ UNCHANGED <<control, planVars, envVars>>

AttemptUnresolved ==
    /\ pc = "presolve"
    /\ queue' = Tail(queue)
    /\ pc' = "fill"
    /\ Quiet
    /\ UNCHANGED <<control, planVars, cur, active, session, dirty, outcome,
                   envVars>>

CycleInterrupted ==
    /\ pc \in {"presolve", "sleep"}
    /\ \/ PlanArm /\ RetireCycle("PlanChanged")
       \/ WakeArm /\ RetireCycle("ReconnectRequested")
       \/ shutdown /\ QuietArm /\ RetireCycle("Shutdown")
    /\ UNCHANGED <<envVars>>

PollRetires ==
    /\ pc = "poll"
    /\ \/ shutdown /\ RetireCycle("Shutdown")
       \/ ~shutdown /\ unseen /\ RetireCycle("PlanChanged")
    /\ UNCHANGED <<control, planVars, envVars>>

\* swap_remove of some of the attempts, of which there are two at most.
Left(gone) ==
    IF Attempts \cap gone = {} THEN active
    ELSE IF Attempts \subseteq gone THEN <<>>
    ELSE <<CHOOSE s \in Attempts : s \notin gone>>

FirstConnected ==
    LET hits == {i \in DOMAIN active : view[active[i]].connected}
    IN  IF hits = {} THEN Absent
        ELSE active[CHOOSE i \in hits : \A j \in hits : i <= j]

\* (The losers of a race are left to run.)
PollKeepingLosers ==
    /\ pc = "poll" /\ ~shutdown /\ ~unseen
    /\ IF FirstConnected = Absent
       THEN /\ Goto("reap")
            /\ UNCHANGED <<taskVars, reachVars>>
       ELSE /\ session' = FirstConnected
            /\ active' = <<>>
            /\ pc' = "losers"
            /\ UNCHANGED <<cur, queue, dirty, outcome, taskVars, reachVars>>
    /\ UNCHANGED <<control, planVars, stateVars, envVars>>

Poll ==
    /\ pc = "poll" /\ ~shutdown /\ ~unseen
    /\ IF FirstConnected = Absent
       THEN /\ Goto("reap")
            /\ UNCHANGED <<taskVars, reachVars>>
       ELSE /\ session' = FirstConnected
            /\ active' = Left({FirstConnected})
            /\ Cancel(Attempts \ {FirstConnected})
            /\ pc' = "losers"
            /\ UNCHANGED <<cur, queue, dirty, outcome>>
    /\ UNCHANGED <<control, planVars, stateVars, envVars>>

FinishedAttempts == {s \in Attempts : task[s] = "ended"}

\* Finished attempts leave the cycle; their leases drop.
Reap ==
    /\ pc = "reap"
    /\ \A s \in FinishedAttempts : exit[s] # "shutdown"
    /\ DropTasks(FinishedAttempts)
    /\ Retired(FinishedAttempts)
    /\ active' = Left(FinishedAttempts)
    /\ IF active' = <<>> /\ queue = <<>>
       THEN /\ ClearPublic
            /\ pc' = "cycleOver"
            /\ outcome' = "Exhausted"
       ELSE /\ pc' = "sleep"
            /\ UNCHANGED <<stateVars, outcome>>
    /\ UNCHANGED <<control, planVars, cur, queue, session, dirty, runtime,
                   envVars>>

\* An attempt saw the shutdown first: the cycle returns and drops the rest.
ReapShutdown ==
    /\ pc = "reap"
    /\ \E s \in FinishedAttempts : exit[s] = "shutdown"
    /\ DropTasks(Attempts)
    /\ Retired(Attempts)
    /\ Restart("done")
    /\ UNCHANGED <<control, planVars, stateVars, runtime, envVars>>

SleepOver ==
    /\ pc = "sleep"
    /\ Goto("fill")
    /\ Quiet
    /\ UNCHANGED <<control, planVars, envVars>>

\* The losers are joined before the winner is published and activated.
Crown ==
    /\ pc = "losers" /\ Joined(Attempts)
    /\ public' = view[session]
    /\ active' = <<session>>
    /\ queue' = <<>>
    /\ IF runtime
       THEN /\ Activated(session)
            /\ task' = [s \in Servers |-> IF s \in Attempts THEN "none" ELSE task[s]]
            /\ exit' = [s \in Servers |-> IF s \in Attempts THEN "ok" ELSE exit[s]]
            /\ cancelled' = cancelled \ Attempts
            /\ activation' = [activation EXCEPT ![session] = "active"]
            /\ pc' = "mirror"
            /\ UNCHANGED <<outcome, runtime>>
       ELSE /\ Cancel({session})
            /\ outcome' = "Shutdown"
            /\ pc' = "retiring"
    /\ UNCHANGED <<control, planVars, cur, session, dirty, view, envVars>>

MirrorEnded ==
    /\ pc = "mirror" /\ task[session] = "ended"
    /\ DropTasks({session})
    /\ Retired({session})
    /\ ClearPublic
    /\ outcome' = IF exit[session] = "shutdown" THEN "Shutdown"
                  ELSE IF dirty THEN "PlanChanged" ELSE "SessionEnded"
    /\ pc' = "cycleOver"
    /\ active' = <<>>
    /\ UNCHANGED <<control, planVars, cur, queue, session, dirty, runtime, envVars>>

MirrorTick ==
    /\ pc = "mirror" /\ task[session] # "ended"
    /\ public' = view[session]
    /\ Goto("mirrorWait")
    /\ UNCHANGED <<control, planVars, taskVars, view, reachVars, envVars>>

MirrorSlept ==
    /\ pc = "mirrorWait"
    /\ Goto("mirror")
    /\ Quiet
    /\ UNCHANGED <<control, planVars, envVars>>

MirrorPlan ==
    /\ pc = "mirrorWait" /\ PlanArm
    /\ IF view[session].connected /\ Allows(plan, session)
       THEN /\ dirty' = TRUE
            /\ pc' = "mirror"
            /\ UNCHANGED <<cur, queue, active, session, outcome, taskVars,
                           stateVars, reachVars>>
       ELSE RetireCycle("PlanChanged")
    /\ UNCHANGED <<envVars>>

MirrorInterrupted ==
    /\ pc = "mirrorWait"
    /\ \/ WakeArm /\ RetireCycle("ReconnectRequested")
       \/ shutdown /\ QuietArm /\ RetireCycle("Shutdown")
    /\ UNCHANGED <<envVars>>

CycleRetired ==
    /\ pc = "retiring" /\ Joined(Attempts)
    /\ DropTasks(Attempts)
    /\ ClearPublic
    /\ pc' = "cycleOver"
    /\ active' = <<>>
    /\ UNCHANGED <<control, planVars, cur, queue, session, dirty, outcome,
                   reachVars, envVars>>

AfterCycle ==
    CASE outcome = "Shutdown" -> "done"
      [] outcome = "PlanChanged" -> "top"
      [] outcome = "ReconnectRequested" /\ ~enabled -> "top"
      [] outcome = "ReconnectRequested" /\ enabled ->
             IF cur.reconnect THEN "parallelDelay" ELSE "top"
      [] OTHER -> IF cur.reconnect THEN "parallelDelay" ELSE "retryWait"

CycleOver ==
    /\ pc = "cycleOver"
    /\ Restart(AfterCycle)
    /\ Quiet
    /\ UNCHANGED <<control, planVars, envVars>>

Parallel ==
    \/ FillPlanChanged \/ Fill \/ AttemptResolved \/ AttemptUnresolved
    \/ CycleInterrupted \/ PollRetires \/ Poll \/ Reap \/ ReapShutdown
    \/ SleepOver \/ Crown \/ MirrorEnded \/ MirrorTick \/ MirrorSlept
    \/ MirrorPlan \/ MirrorInterrupted \/ CycleRetired \/ CycleOver

Supervise ==
    \/ TopDisabled \/ Acknowledge \/ WaitForCommand \/ TopEnabled \/ LeaveLoop
    \/ DelayBeforeRestart \/ Sequential \/ Parallel

-----------------------------------------------------------------------------
(* The callers.  Whoever holds the runtime lock (caller # "idle") keeps     *)
(* the other lock holders out; the port watcher does not take it.           *)

Command == caller = "idle" /\ runtime /\ commands > 0 /\ commands' = commands - 1
CallerFrame ==
    UNCHANGED <<loopVars, taskVars, stateVars, shutdown>>

SameLiveEndpoint(p) ==
    /\ p.target # Absent
    /\ public.endpoint = p.target
    /\ public.connected \/ public.connecting

Connect(p) ==
    /\ Command
    /\ enabled' = TRUE
    /\ permit' = (permit \/ ~enabled)
    /\ IF SameLiveEndpoint(p) /\ p = plan
       THEN UNCHANGED planVars
       ELSE plan' = p /\ unseen' = TRUE
    /\ CallerFrame
    /\ UNCHANGED <<requested, retired, caller, reachVars>>

RefreshPlan(p) ==
    /\ Command
    /\ p # plan /\ p.target = plan.target
    /\ plan' = p /\ unseen' = TRUE
    /\ CallerFrame
    /\ UNCHANGED <<control, reachVars>>

DisableSilently ==
    /\ Command
    /\ requested' = requested + 1
    /\ enabled' = FALSE
    /\ caller' = "waiting"
    /\ CallerFrame
    /\ UNCHANGED <<permit, retired, planVars, reachVars>>

Disable ==
    /\ Command
    /\ requested' = requested + 1
    /\ enabled' = FALSE
    /\ permit' = TRUE
    /\ caller' = "waiting"
    /\ CallerFrame
    /\ UNCHANGED <<retired, planVars, reachVars>>

\* The acknowledgement arrived, the supervisor is gone, or the deadline of
\* disconnect_ed2k_server passed.
DisableReturns ==
    /\ caller = "waiting"
    /\ caller' = "idle"
    /\ CallerFrame
    /\ UNCHANGED <<enabled, permit, requested, retired, planVars, reachVars,
                   commands>>

PortsChanged ==
    /\ commands > 0 /\ commands' = commands - 1
    /\ runtime
    /\ permit' = TRUE
    /\ CallerFrame
    /\ UNCHANGED <<enabled, requested, retired, caller, planVars, reachVars>>

RetireRuntime ==
    /\ CanShutdown /\ caller = "idle" /\ runtime
    /\ runtime' = FALSE /\ holder' = Absent /\ evidence' = Absent
    /\ caller' = "stopping"
    /\ CallerFrame
    /\ UNCHANGED <<enabled, permit, requested, retired, planVars, commands>>

Waits == {"idle", "retryWait", "noneWait", "reconnectDelay", "parallelDelay",
          "resolving", "session", "pace", "presolve", "sleep", "mirrorWait"}

\* notify_waiters reaches a supervisor that waits now and stores nothing.
RaiseShutdown ==
    /\ caller = "stopping" /\ ~shutdown
    /\ shutdown' = TRUE
    /\ permit' = (permit \/ pc \in Waits)
    /\ UNCHANGED <<enabled, requested, retired, caller, planVars, loopVars,
                   taskVars, stateVars, reachVars, commands>>

Commands ==
    \/ \E p \in Plans : Connect(p) \/ RefreshPlan(p)
    \/ Disable \/ DisableReturns \/ PortsChanged
    \/ RetireRuntime \/ RaiseShutdown

-----------------------------------------------------------------------------
Init ==
    /\ enabled = TRUE /\ permit = FALSE /\ requested = 0 /\ retired = 0
    /\ caller = "idle"
    /\ plan = FirstPlan /\ unseen = FALSE
    /\ pc = "top" /\ cur = Absent /\ queue = <<>> /\ active = <<>>
    /\ session = Absent /\ dirty = FALSE /\ outcome = "none"
    /\ task = [s \in Servers |-> "none"]
    /\ exit = [s \in Servers |-> "ok"]
    /\ cancelled = {}
    /\ activation = [s \in Servers |-> "retired"]
    /\ public = Cleared /\ view = [s \in Servers |-> Cleared]
    /\ runtime = TRUE /\ holder = Absent /\ evidence = Absent
    /\ shutdown = FALSE /\ commands = MaxCommands

(* What a session does about its end: its cancellation, the gate, its dial's deadline. *)
SessionYields(s) == SeesCancel(s) \/ GateRetires(s) \/ GateOpens(s) \/ DialFails(s)

Next == Supervise \/ Commands \/ \E s \in Servers : SessionStep(s)

Spec == Init /\ [][Next]_vars

-----------------------------------------------------------------------------
(* The shape of the supervisor's and the sessions' state.                  *)
TypeOK ==
    /\ enabled \in BOOLEAN /\ permit \in BOOLEAN
    /\ requested \in 0 .. MaxCommands /\ retired \in 0 .. requested
    /\ caller \in {"idle", "waiting", "stopping"}
    /\ plan \in Plans /\ unseen \in BOOLEAN
    /\ pc \in Steps /\ cur \in Plans \cup {Absent}
    /\ queue \in Seq(Servers) /\ active \in Seq(Servers) /\ Len(active) <= 2
    /\ session \in Servers \cup {Absent} /\ dirty \in BOOLEAN
    /\ outcome \in Outcomes
    /\ task \in [Servers -> {"none", "dialing", "gated", "running", "ended"}]
    /\ exit \in [Servers -> {"ok", "err", "shutdown"}]
    /\ cancelled \subseteq Servers
    /\ activation \in [Servers -> {"pending", "active", "retired"}]
    /\ public \in ConnectionStates /\ view \in [Servers -> ConnectionStates]
    /\ runtime \in BOOLEAN
    /\ holder \in Servers \cup {Absent} /\ evidence \in Servers \cup {Absent}
    /\ shutdown \in BOOLEAN /\ commands \in 0 .. MaxCommands

(* disable_and_wait returns only when "the supervisor has revoked the       *)
(* active session, joined it, and cleared its public connection state":     *)
(* while the last retirement is acknowledged and nobody enabled the lane    *)
(* again, no session runs, none is shown and none owns the evidence.        *)
AckMeansQuiet ==
    (~enabled /\ requested > 0 /\ retired = requested) =>
        /\ Live = {}
        /\ public = Cleared
        /\ holder = Absent

(* At most one server session does protocol work: once one is activated     *)
(* past its login, no other session is left that could still write.         *)
LoneWinner ==
    \A s, t \in Servers :
        (task[s] = "running" /\ t \in Live) => s = t

(* A losing attempt cannot overwrite the selected session: while a session  *)
(* is published, the public state shows that session or nothing.            *)
LosersStayPrivate ==
    /\ pc \in {"mirror", "mirrorWait"} => public.endpoint \in {session, Absent}
    /\ pc \in {"fill", "presolve", "poll", "reap", "sleep", "losers"} =>
           public = CycleStarted

(* The public address a server reported is used only while the session that *)
(* learned it is the lane's session: it is revoked before that session is   *)
(* told to stop, and with the runtime.                                      *)
EvidenceFenced ==
    evidence # Absent =>
        /\ runtime
        /\ holder = evidence
        /\ session = evidence
        /\ pc \in {"session", "mirror", "mirrorWait"}

(* "An explicit REST/UI server selection is a pinned session": once the     *)
(* supervisor has seen a plan, every session it has not cancelled goes to   *)
(* the server that plan pins, or to a server of its list and kind.          *)
PinnedSession ==
    ~unseen =>
        \A s \in Live \ cancelled :
            /\ plan.target # Absent => s = plan.target
            /\ \E i \in DOMAIN plan.order : plan.order[i] = s
            /\ (plan.target = Absent /\ plan.staticOnly) => s \in StaticServers

=============================================================================
