-------------------------- MODULE ServerLoop_proofs --------------------------
(***************************************************************************)
(* Proofs about ServerLoop, for any set of servers and any connect plans.  *)
(*                                                                         *)
(* None of the four statements is inductive.  They rest on what each step  *)
(* of the supervisor owns: at its head and in its waits it owns no         *)
(* session, in a sequential step at most the one session, in a race only   *)
(* the attempts of the cycle, and behind the crowning again one session.   *)
(* Every step that gives up a session has joined, dropped or revoked it.   *)
(***************************************************************************)
EXTENDS ServerLoop, TLAPS

\* Where the supervisor owns no session.
Free == {"top", "acking", "idle", "retryWait", "noneWait", "reconnectDelay",
         "parallelDelay", "done", "next", "resolving", "pace", "cycleOver"}
Racing == {"fill", "presolve", "poll", "reap", "sleep", "losers"}
Crowned == {"mirror", "mirrorWait"}
Trying == {"resolving", "session", "joining", "pace", "presolve"}

\* The supervisor's own variables.
LoopTypes ==
    /\ pc \in Steps
    /\ plan \in Plans
    /\ queue \in Seq(Servers)
    /\ pc \in Trying => queue # <<>>
    /\ active \in Seq(Servers) /\ Len(active) <= 2
    /\ pc = "presolve" => Len(active) < 2
    /\ pc \in {"session", "joining", "losers"} \cup Crowned => session \in Servers

TaskTypes ==
    /\ task \in [Servers -> {"none", "dialing", "gated", "running", "ended"}]
    /\ activation \in [Servers -> {"pending", "active", "retired"}]

Dead(s) == task[s] \in {"none", "ended"}

\* The sessions a step of the supervisor owns.
Owned ==
    IF pc \in Free THEN {}
    ELSE IF pc \in {"session", "joining"} \cup Crowned THEN {session}
    ELSE IF pc = "losers" THEN Attempts \cup {session}
    ELSE Attempts

Lanes ==
    /\ \A s \in Servers : s \in Owned \/ Dead(s)
    /\ pc \in Crowned => active = <<session>>

\* The lease belongs to the one session that is neither cancelled nor private.
Fence ==
    /\ holder # Absent => /\ pc \in {"session"} \cup Crowned
                          /\ holder = session
                          /\ runtime
    /\ evidence \in {holder, Absent}

\* No session is past its gate.
Gated == \A s \in Servers : Dead(s) \/ (task[s] # "running" /\ activation[s] # "active")

Gates ==
    /\ pc \in Racing => Gated
    /\ pc = "retiring" => Gated \/ \E w \in Servers : \A s \in Servers : s = w \/ Dead(s)

Acknowledged == ~enabled /\ requested > 0 /\ retired = requested

Acks ==
    /\ requested \in Nat /\ retired \in Nat /\ retired <= requested
    /\ pc \in {"acking", "idle"} => public = Cleared
    /\ Acknowledged => pc \in {"top", "acking", "idle", "done"} /\ public = Cleared

\* What an attempt may show of itself.
Shown(s) == {Cleared, Dialing(s), LoggedIn(s)}

Views ==
    /\ view = [s \in Servers |-> view[s]]
    /\ \A s \in Servers : view[s] \in Shown(s)
    /\ pc \in Racing => public = CycleStarted
    /\ pc \in Crowned => public \in Shown(session)

\* The steps between which the supervisor owns nothing.
FreeMove ==
    /\ pc \in Free /\ pc' \in Free
    /\ UNCHANGED <<task, activation, view, runtime, holder, evidence>>

\* The steps of the callers, which hold no session.
CallerMove ==
    /\ UNCHANGED <<pc, active, session, task, activation, public, view>>
    /\ \/ UNCHANGED <<runtime, holder, evidence>>
       \/ holder' = Absent /\ evidence' = Absent

\* The steps that start, end, judge or change a session.
OtherMove ==
    \/ TopEnabled \/ Resolved \/ SessionFinished \/ SessionPlan
    \/ SessionInterrupted \/ SessionJoined \/ FillPlanChanged \/ Fill
    \/ AttemptResolved \/ AttemptUnresolved \/ CycleInterrupted \/ PollRetires
    \/ Poll \/ Reap \/ ReapShutdown \/ SleepOver \/ Crown \/ MirrorEnded
    \/ MirrorTick \/ MirrorSlept \/ MirrorPlan \/ MirrorInterrupted \/ CycleRetired
    \/ \E s \in Servers : SessionStep(s)

-----------------------------------------------------------------------------
(* Taking attempts out of the cycle leaves exactly the others.             *)
LEMMA LeftAttempts ==
    ASSUME active \in Seq(Servers), Len(active) <= 2, NEW gone
    PROVE  /\ Left(gone) \in Seq(Servers) /\ Len(Left(gone)) <= Len(active)
           /\ {Left(gone)[i] : i \in DOMAIN Left(gone)} = Attempts \ gone
    <1>1. CASE Attempts \cap gone = {}
        BY <1>1 DEF Left, Attempts
    <1>2. CASE Attempts \subseteq gone /\ Attempts \cap gone # {}
        BY <1>2 DEF Left, Attempts
    <1>3. CASE ~(Attempts \subseteq gone) /\ Attempts \cap gone # {}
        <2> DEFINE one == CHOOSE s \in Attempts : s \notin gone
        <2>1. one \in Attempts /\ one \notin gone
            BY Zenon, <1>3
        <2>2. /\ Len(active) = 2 /\ active[1] \in Servers /\ active[2] \in Servers
              /\ Attempts = {active[1], active[2]}
            <3>1. Len(active) \in Nat /\ DOMAIN active = 1 .. Len(active)
                OBVIOUS
            <3>2. Len(active) # 0 /\ Len(active) # 1
                BY <1>3, <3>1 DEF Attempts
            <3>3. Len(active) = 2 /\ DOMAIN active = {1, 2}
                BY <3>1, <3>2
            <3> QED
                BY <3>1, <3>2, <3>3 DEF Attempts
        <2>3. Left(gone) = <<one>>
            BY Zenon, <1>3 DEF Left
        <2> HIDE DEF one
        <2>4. one \in Servers /\ Attempts \ gone = {one}
            BY Zenon, <1>3, <2>1, <2>2
        <2>5. /\ <<one>> \in Seq(Servers) /\ Len(<<one>>) = 1
              /\ {<<one>>[i] : i \in DOMAIN <<one>>} = {one}
            BY <2>4
        <2> QED
            BY <2>2, <2>3, <2>4, <2>5
    <1> QED
        BY Zenon, <1>1, <1>2, <1>3

(* The first connected attempt is one of the attempts.                     *)
LEMMA WinnerIsAttempt ==
    ASSUME active \in Seq(Servers), Len(active) <= 2, FirstConnected # Absent
    PROVE  FirstConnected \in Attempts /\ FirstConnected \in Servers
    <1> DEFINE hits == {i \in DOMAIN active : view[active[i]].connected}
    <1>1. hits \subseteq {1, 2} /\ hits \subseteq DOMAIN active
        OBVIOUS
    <1>2. hits # {} /\ FirstConnected = active[CHOOSE i \in hits : \A j \in hits : i <= j]
        BY Zenon DEF FirstConnected
    <1> HIDE DEF hits
    <1>3. \E i \in hits : \A j \in hits : i <= j
        <2>1. CASE 1 \in hits
            BY <1>1, <2>1
        <2>2. CASE 1 \notin hits
            <3>1. hits # {}
                BY Zenon, <1>2
            <3>2. hits = {2}
                BY Zenon, <1>1, <2>2, <3>1
            <3> QED
                BY <3>2
        <2> QED
            BY Zenon, <2>1, <2>2
    <1> DEFINE first == CHOOSE i \in hits : \A j \in hits : i <= j
    <1>4. first \in DOMAIN active /\ FirstConnected = active[first]
        BY Zenon, <1>1, <1>2, <1>3
    <1> HIDE DEF first
    <1> QED
        BY <1>4 DEF Attempts

-----------------------------------------------------------------------------
(* Going back to the head of the loop, or out of it, keeps the types.      *)
LEMMA RestartTypes ==
    ASSUME LoopTypes, plan' = plan, NEW step \in Free \ Trying, Restart(step)
    PROVE  LoopTypes'
    <1>1. pc' = step /\ queue' = <<>> /\ active' = <<>>
        BY Zenon DEF Restart
    <1>2. <<>> \in Seq(Servers) /\ Len(<<>>) = 0
        OBVIOUS
    <1>3. step \in Steps /\ step \notin {"session", "joining", "losers"} \cup Crowned
        BY Zenon DEF Free, Trying, Crowned, Steps, SequentialSteps, ParallelSteps
    <1> QED
        BY <1>1, <1>2, <1>3 DEF LoopTypes, Free, Trying

(* A session writes its own state: publicly when it runs alone, in its     *)
(* private copy while it races.                                            *)
LEMMA WriteViews ==
    ASSUME Views, NEW s \in Servers, NEW st \in Shown(s), Write(s, st), pc' = pc,
           session' = session
    PROVE  Views'
    <1>1. CASE pc \in ParallelSteps
        <2>1. view' = [view EXCEPT ![s] = st] /\ public' = public
            BY Zenon, <1>1 DEF Write, InParallel
        <2>2. \A r \in Servers : view'[r] = IF r = s THEN st ELSE view[r]
            BY Zenon, <2>1 DEF Views
        <2>3. view' = [r \in Servers |-> view'[r]]
            BY Zenon, <2>1 DEF Views
        <2> QED
            BY Zenon, <2>1, <2>2, <2>3 DEF Views
    <1>2. CASE pc \notin ParallelSteps
        BY Zenon, <1>2 DEF Write, InParallel, Views, Racing, Crowned, ParallelSteps
    <1> QED
        BY Zenon, <1>1, <1>2

(* Every step keeps the types of the loop: a server is tried only while    *)
(* one is left, and a cycle never has more than two attempts.              *)
LEMMA TypesKept ==
    ASSUME LoopAssumption, LoopTypes, [Next]_vars
    PROVE  LoopTypes'
    <1> USE DEF LoopTypes, LoopAssumption, Trying, Crowned, Steps, SequentialSteps,
        ParallelSteps, control, planVars, loopVars, taskVars, stateVars, reachVars,
        envVars
    <1>1. CASE TopDisabled
        BY Zenon, <1>1 DEF TopDisabled, ClearPublic, Goto
    <1>2. CASE Acknowledge
        BY Zenon, <1>2 DEF Acknowledge, Goto, Quiet
    <1>3. CASE WaitForCommand
        <2>1. plan' = plan /\ \E step \in Free \ Trying : Restart(step)
            BY Zenon, <1>3 DEF WaitForCommand, PlanArm, WakeArm, QuietArm, planVars, Free, Trying
        <2> QED
            BY Zenon, <2>1, RestartTypes
    <1>4. CASE TopEnabled
        BY Zenon, <1>4 DEF TopEnabled
    <1>5. CASE LeaveLoop
        <2>1. plan' = plan /\ \E step \in Free \ Trying : Restart(step)
            BY Zenon, <1>5 DEF LeaveLoop, planVars, Free, Trying
        <2> QED
            BY Zenon, <2>1, RestartTypes
    <1>6. CASE DelayBeforeRestart
        <2>1. plan' = plan /\ \E step \in Free \ Trying : Restart(step)
            BY Zenon, <1>6 DEF DelayBeforeRestart, PlanArm, WakeArm, QuietArm, planVars, Free, Trying
        <2> QED
            BY Zenon, <2>1, RestartTypes
    <1>7. CASE NextServer
        BY Zenon, <1>7 DEF NextServer, Goto, Quiet
    <1>8. CASE OrderOver
        <2>1. plan' = plan /\ \E step \in Free \ Trying : Restart(step)
            BY Zenon, <1>8 DEF OrderOver, planVars, Free, Trying
        <2> QED
            BY Zenon, <2>1, RestartTypes
    <1>9. CASE Resolved
        <2>1. CASE Begins
            BY <1>9, <2>1 DEF Resolved, Spawn, Activated, Restart, Begins
        <2>2. CASE ~Begins
            <3>1. plan' = plan /\ Restart("done")
                BY Zenon, <1>9, <2>2 DEF Resolved, planVars
            <3> QED
                BY Zenon, <3>1, RestartTypes DEF Free, Trying
        <2> QED
            BY Zenon, <2>1, <2>2
    <1>10. CASE Unresolved
        BY Zenon, <1>10 DEF Unresolved, Quiet
    <1>11. CASE ResolveInterrupted
        <2>1. plan' = plan /\ \E step \in Free \ Trying : Restart(step)
            BY Zenon, <1>11 DEF ResolveInterrupted, PlanArm, WakeArm, QuietArm, planVars, Free, Trying
        <2> QED
            BY Zenon, <2>1, RestartTypes
    <1>12. CASE SessionFinished
        <2>1. CASE pc' = "pace"
            BY Zenon, <1>12, <2>1 DEF SessionFinished, Retired, DropTasks, Restart, ClearPublic
        <2>2. CASE pc' # "pace"
            <3>1. plan' = plan /\ \E step \in Free \ Trying : Restart(step)
                BY Zenon, <1>12, <2>2 DEF SessionFinished, planVars, Free, Trying
            <3> QED
                BY Zenon, <3>1, RestartTypes
        <2> QED
            BY Zenon, <2>1, <2>2
    <1>13. CASE SessionPlan
        BY Zenon, <1>13 DEF SessionPlan, PlanArm, Cancel, Retired
    <1>14. CASE SessionInterrupted
        BY Zenon, <1>14 DEF SessionInterrupted, WakeArm, QuietArm, Cancel, Retired
    <1>15. CASE SessionJoined
        <2>1. plan' = plan /\ \E step \in Free \ Trying : Restart(step)
            BY Zenon, <1>15 DEF SessionJoined, planVars, Free, Trying
        <2> QED
            BY Zenon, <2>1, RestartTypes
    <1>16. CASE PaceNext
        BY <1>16 DEF PaceNext, Quiet
    <1>17. CASE PaceInterrupted
        <2>1. plan' = plan /\ \E step \in Free \ Trying : Restart(step)
            BY Zenon, <1>17 DEF PaceInterrupted, PlanArm, WakeArm, planVars, Free, Trying
        <2> QED
            BY Zenon, <2>1, RestartTypes
    <1>18. CASE FillPlanChanged
        BY Zenon, <1>18 DEF FillPlanChanged, RetireCycle, Cancel, Retired
    <1>19. CASE Fill
        BY Zenon, <1>19 DEF Fill, Goto, Quiet
    <1>20. CASE AttemptResolved
        <2>1. Head(queue) \in Servers /\ Tail(queue) \in Seq(Servers) /\ Len(active) < 2
            BY <1>20 DEF AttemptResolved, LoopTypes, Trying
        <2>2. Append(active, Head(queue)) \in Seq(Servers)
              /\ Len(Append(active, Head(queue))) <= 2
            BY <2>1 DEF LoopTypes
        <2> QED
            BY Zenon, <1>20, <2>1, <2>2 DEF AttemptResolved, Spawn, RetireCycle, Cancel, Retired
    <1>21. CASE AttemptUnresolved
        BY <1>21 DEF AttemptUnresolved, Quiet
    <1>22. CASE CycleInterrupted
        BY Zenon, <1>22 DEF CycleInterrupted, PlanArm, WakeArm, QuietArm, RetireCycle, Cancel, Retired
    <1>23. CASE PollRetires
        BY Zenon, <1>23 DEF PollRetires, RetireCycle, Cancel, Retired
    <1>24. CASE Poll
        <2>1. /\ Left({FirstConnected}) \in Seq(Servers)
              /\ Len(Left({FirstConnected})) <= Len(active) /\ Len(active) <= 2
              /\ Len(active) \in Nat /\ Len(Left({FirstConnected})) \in Nat
            BY LeftAttempts DEF LoopTypes
        <2>2. FirstConnected # Absent => FirstConnected \in Servers
            BY Zenon, WinnerIsAttempt DEF LoopTypes
        <2> QED
            BY <1>24, <2>1, <2>2 DEF Poll, Goto, Cancel, Retired
    <1>25. CASE Reap
        <2>1. /\ Left(FinishedAttempts) \in Seq(Servers)
              /\ Len(Left(FinishedAttempts)) <= Len(active) /\ Len(active) <= 2
              /\ Len(active) \in Nat /\ Len(Left(FinishedAttempts)) \in Nat
            BY LeftAttempts DEF LoopTypes
        <2> QED
            BY <1>25, <2>1 DEF Reap, DropTasks, Retired, ClearPublic
    <1>26. CASE ReapShutdown
        <2>1. plan' = plan /\ \E step \in Free \ Trying : Restart(step)
            BY Zenon, <1>26 DEF ReapShutdown, planVars, Free, Trying
        <2> QED
            BY Zenon, <2>1, RestartTypes
    <1>27. CASE SleepOver
        BY Zenon, <1>27 DEF SleepOver, Goto, Quiet
    <1>28. CASE Crown
        BY <1>28 DEF Crown, Activated, Cancel, Retired, Joined
    <1>29. CASE MirrorEnded
        BY <1>29 DEF MirrorEnded, DropTasks, Retired, ClearPublic
    <1>30. CASE MirrorTick
        BY Zenon, <1>30 DEF MirrorTick, Goto
    <1>31. CASE MirrorSlept
        BY Zenon, <1>31 DEF MirrorSlept, Goto, Quiet
    <1>32. CASE MirrorPlan
        BY Zenon, <1>32 DEF MirrorPlan, PlanArm, RetireCycle, Cancel, Retired
    <1>33. CASE MirrorInterrupted
        BY Zenon, <1>33 DEF MirrorInterrupted, WakeArm, QuietArm, RetireCycle, Cancel, Retired
    <1>34. CASE CycleRetired
        BY <1>34 DEF CycleRetired, Joined, DropTasks, ClearPublic
    <1>35. CASE CycleOver
        <2>1. plan' = plan /\ \E step \in Free \ Trying : Restart(step)
            BY Zenon, <1>35 DEF CycleOver, AfterCycle, planVars, Free, Trying
        <2> QED
            BY Zenon, <2>1, RestartTypes
    <1>36. ASSUME NEW s \in Servers, Publish(s) PROVE LoopTypes'
        BY Zenon, <1>36 DEF Publish
    <1>37. ASSUME NEW s \in Servers, DialFails(s) PROVE LoopTypes'
        BY Zenon, <1>37 DEF DialFails, Ended, SessionFrame, Write
    <1>38. ASSUME NEW s \in Servers, LogsIn(s) PROVE LoopTypes'
        BY Zenon, <1>38 DEF LogsIn, SessionFrame, Write
    <1>39. ASSUME NEW s \in Servers, GateOpens(s) PROVE LoopTypes'
        BY Zenon, <1>39 DEF GateOpens, SessionFrame
    <1>40. ASSUME NEW s \in Servers, GateRetires(s) PROVE LoopTypes'
        BY Zenon, <1>40 DEF GateRetires, Ended, SessionFrame
    <1>41. ASSUME NEW s \in Servers, Drops(s) PROVE LoopTypes'
        BY Zenon, <1>41 DEF Drops, Ended, SessionFrame
    <1>42. ASSUME NEW s \in Servers, Rotates(s) PROVE LoopTypes'
        BY Zenon, <1>42 DEF Rotates, Ended, SessionFrame, Write
    <1>43. ASSUME NEW s \in Servers, SeesCancel(s) PROVE LoopTypes'
        BY Zenon, <1>43 DEF SeesCancel, Ended, SessionFrame, Write
    <1>44. ASSUME NEW s \in Servers, SeesShutdown(s) PROVE LoopTypes'
        BY Zenon, <1>44 DEF SeesShutdown, Ended, SessionFrame, Write
    <1>45. ASSUME NEW p \in Plans, Connect(p) PROVE LoopTypes'
        BY Zenon, <1>45 DEF Connect, CallerFrame, Command
    <1>46. ASSUME NEW p \in Plans, RefreshPlan(p) PROVE LoopTypes'
        BY Zenon, <1>46 DEF RefreshPlan, CallerFrame, Command
    <1>47. CASE Disable
        BY Zenon, <1>47 DEF Disable, CallerFrame, Command
    <1>48. CASE DisableReturns
        BY Zenon, <1>48 DEF DisableReturns, CallerFrame
    <1>49. CASE PortsChanged
        BY Zenon, <1>49 DEF PortsChanged, CallerFrame
    <1>50. CASE RetireRuntime
        BY Zenon, <1>50 DEF RetireRuntime, CallerFrame
    <1>51. CASE RaiseShutdown
        BY Zenon, <1>51 DEF RaiseShutdown
    <1>52. CASE UNCHANGED vars
        BY Zenon, <1>52 DEF vars
    <1> QED
        BY ZenonT(40), <1>1, <1>2, <1>3, <1>4, <1>5, <1>6, <1>7, <1>8, <1>9, <1>10, <1>11,
            <1>12, <1>13, <1>14, <1>15, <1>16, <1>17, <1>18, <1>19, <1>20, <1>21,
            <1>22, <1>23, <1>24, <1>25, <1>26, <1>27, <1>28, <1>29, <1>30, <1>31,
            <1>32, <1>33, <1>34, <1>35, <1>36, <1>37, <1>38, <1>39, <1>40, <1>41,
            <1>42, <1>43, <1>44, <1>45, <1>46, <1>47, <1>48, <1>49, <1>50, <1>51,
            <1>52
        DEF Next, Supervise, Sequential, Parallel, SessionStep, Commands

(* What the supervisor does at its head and in its waits, and what its     *)
(* callers do, leaves every session and every lease as it is.              *)
LEMMA Moves ==
    ASSUME [Next]_vars
    PROVE  FreeMove \/ CallerMove \/ OtherMove
    <1> USE DEF control, planVars, loopVars, taskVars, stateVars, reachVars, envVars
    <1>1. CASE TopDisabled
        BY Zenon, <1>1 DEF TopDisabled, ClearPublic, Goto, FreeMove, Free
    <1>2. CASE Acknowledge
        BY Zenon, <1>2 DEF Acknowledge, Goto, Quiet, FreeMove, Free
    <1>3. CASE WaitForCommand
        BY Zenon, <1>3 DEF WaitForCommand, PlanArm, WakeArm, QuietArm, Restart, Quiet, FreeMove, Free
    <1>4. CASE LeaveLoop
        BY Zenon, <1>4 DEF LeaveLoop, Restart, Quiet, FreeMove, Free
    <1>5. CASE DelayBeforeRestart
        BY Zenon, <1>5 DEF DelayBeforeRestart, PlanArm, WakeArm, QuietArm, Restart, Quiet, FreeMove, Free
    <1>6. CASE NextServer
        BY Zenon, <1>6 DEF NextServer, Goto, Quiet, FreeMove, Free
    <1>7. CASE OrderOver
        BY Zenon, <1>7 DEF OrderOver, Restart, Quiet, FreeMove, Free
    <1>8. CASE Unresolved
        BY Zenon, <1>8 DEF Unresolved, Quiet, FreeMove, Free
    <1>9. CASE ResolveInterrupted
        BY Zenon, <1>9 DEF ResolveInterrupted, PlanArm, WakeArm, QuietArm, Restart, ClearPublic, FreeMove, Free
    <1>10. CASE PaceNext
        BY Zenon, <1>10 DEF PaceNext, Quiet, FreeMove, Free
    <1>11. CASE PaceInterrupted
        BY Zenon, <1>11 DEF PaceInterrupted, PlanArm, WakeArm, Restart, Quiet, FreeMove, Free
    <1>12. CASE CycleOver
        BY Zenon, <1>12 DEF CycleOver, Restart, Quiet, AfterCycle, FreeMove, Free
    <1>13. ASSUME NEW p \in Plans, Connect(p) PROVE CallerMove
        BY Zenon, <1>13 DEF Connect, CallerFrame, Command, CallerMove
    <1>14. ASSUME NEW p \in Plans, RefreshPlan(p) PROVE CallerMove
        BY Zenon, <1>14 DEF RefreshPlan, CallerFrame, Command, CallerMove
    <1>15. CASE Disable
        BY Zenon, <1>15 DEF Disable, CallerFrame, Command, CallerMove
    <1>16. CASE DisableReturns
        BY Zenon, <1>16 DEF DisableReturns, CallerFrame, CallerMove
    <1>17. CASE PortsChanged
        BY Zenon, <1>17 DEF PortsChanged, CallerFrame, CallerMove
    <1>18. CASE RetireRuntime
        BY Zenon, <1>18 DEF RetireRuntime, CallerFrame, CallerMove
    <1>19. CASE RaiseShutdown
        BY Zenon, <1>19 DEF RaiseShutdown, CallerMove
    <1>20. CASE UNCHANGED vars
        BY Zenon, <1>20 DEF vars, CallerMove
    <1> QED
        BY ZenonT(40), <1>1, <1>2, <1>3, <1>4, <1>5, <1>6, <1>7, <1>8, <1>9, <1>10, <1>11,
            <1>12, <1>13, <1>14, <1>15, <1>16, <1>17, <1>18, <1>19, <1>20
        DEF Next, Supervise, Sequential, Parallel, Commands, OtherMove

(* Every step gives up a session only after joining, dropping or seeing    *)
(* the end of it: whatever is alive is owned by the step the supervisor is *)
(* at.                                                                     *)
LEMMA LanesKept ==
    ASSUME LoopTypes, TaskTypes, Lanes, [Next]_vars
    PROVE  (TaskTypes /\ Lanes)'
    <1> USE DEF TaskTypes, Lanes, Owned, Dead, Attempts, Free, Racing, Crowned,
        Steps, SequentialSteps, ParallelSteps, control, planVars, loopVars,
        taskVars, stateVars, reachVars, envVars
    <1>1. CASE FreeMove
        BY Zenon, <1>1 DEF FreeMove
    <1>2. CASE CallerMove
        BY Zenon, <1>2 DEF CallerMove
    <1>3. CASE TopEnabled
        BY Zenon, <1>3 DEF TopEnabled
    <1>4. CASE Resolved
        BY Zenon, <1>4 DEF Resolved, Spawn, Activated, Restart, Begins
    <1>5. CASE SessionFinished
        BY Zenon, <1>5 DEF SessionFinished, Retired, DropTasks, Restart, ClearPublic
    <1>6. CASE SessionPlan
        BY Zenon, <1>6 DEF SessionPlan, PlanArm, Cancel, Retired
    <1>7. CASE SessionInterrupted
        BY Zenon, <1>7 DEF SessionInterrupted, WakeArm, QuietArm, Cancel, Retired
    <1>8. CASE SessionJoined
        BY Zenon, <1>8 DEF SessionJoined, Joined, DropTasks, Restart, ClearPublic
    <1>9. CASE FillPlanChanged
        BY Zenon, <1>9 DEF FillPlanChanged, RetireCycle, Cancel, Retired
    <1>10. CASE Fill
        BY Zenon, <1>10 DEF Fill, Goto, Quiet
    <1>11. CASE AttemptResolved
        BY SMTT(30), <1>11 DEF AttemptResolved, Spawn, RetireCycle, Cancel, Retired
    <1>12. CASE AttemptUnresolved
        BY Zenon, <1>12 DEF AttemptUnresolved, Quiet
    <1>13. CASE CycleInterrupted
        BY <1>13 DEF CycleInterrupted, PlanArm, WakeArm, QuietArm, RetireCycle, Cancel, Retired
    <1>14. CASE PollRetires
        BY <1>14 DEF PollRetires, RetireCycle, Cancel, Retired
    <1>15. CASE Poll
        <2>1. CASE FirstConnected = Absent
            BY <1>15, <2>1 DEF Poll, Goto, Cancel, Retired
        <2>2. CASE FirstConnected # Absent
            <3>1. /\ pc = "poll" /\ pc' = "losers" /\ session' = FirstConnected
                  /\ active' = Left({FirstConnected})
                  /\ task' = task /\ activation' \in [Servers -> {"pending", "active", "retired"}]
                BY Zenon, <1>15, <2>2 DEF Poll, Cancel, TaskTypes
            <3>2. Attempts' = Attempts \ {FirstConnected}
                <4>1. {Left({FirstConnected})[i] : i \in DOMAIN Left({FirstConnected})}
                          = Attempts \ {FirstConnected}
                    BY Zenon, LeftAttempts DEF LoopTypes
                <4>2. Attempts' = {active'[i] : i \in DOMAIN active'}
                    BY Zenon DEF Attempts
                <4> QED
                    BY Zenon, <3>1, <4>1, <4>2
            <3>3. Owned = Attempts /\ Owned' = Attempts' \cup {FirstConnected}
                BY Zenon, <3>1 DEF Owned, Free, Crowned
            <3>4. Owned \subseteq Owned'
                BY Zenon, <3>2, <3>3
            <3> QED
                BY Zenon, <3>1, <3>4 DEF Lanes, Dead, TaskTypes, Crowned
        <2> QED
            BY Zenon, <2>1, <2>2
    <1>16. CASE Reap
        <2>1. /\ pc = "reap" /\ pc' \in {"cycleOver", "sleep"}
              /\ active' = Left(FinishedAttempts)
              /\ pc' = "cycleOver" => active' = <<>>
              /\ \A s \in Servers : task'[s] = IF s \in FinishedAttempts THEN "none" ELSE task[s]
              /\ TaskTypes'
            BY Zenon, <1>16 DEF Reap, DropTasks, TaskTypes
        <2>2. Attempts' = Attempts \ FinishedAttempts
            BY <2>1, LeftAttempts DEF Attempts, LoopTypes
        <2>3. Owned = Attempts /\ Owned' = Attempts'
            BY <2>1 DEF Owned, Free, Crowned, Attempts
        <2> QED
            BY Zenon, <2>1, <2>2, <2>3 DEF Lanes, Dead, Crowned
    <1>17. CASE ReapShutdown
        BY Zenon, <1>17 DEF ReapShutdown, DropTasks, Retired, Restart
    <1>18. CASE SleepOver
        BY Zenon, <1>18 DEF SleepOver, Goto, Quiet
    <1>19. CASE Crown
        BY <1>19 DEF Crown, Activated, Cancel, Retired, Joined
    <1>20. CASE MirrorEnded
        BY Zenon, <1>20 DEF MirrorEnded, DropTasks, Retired, ClearPublic
    <1>21. CASE MirrorTick
        BY Zenon, <1>21 DEF MirrorTick, Goto
    <1>22. CASE MirrorSlept
        BY Zenon, <1>22 DEF MirrorSlept, Goto, Quiet
    <1>23. CASE MirrorPlan
        BY <1>23 DEF MirrorPlan, PlanArm, RetireCycle, Cancel, Retired
    <1>24. CASE MirrorInterrupted
        BY <1>24 DEF MirrorInterrupted, WakeArm, QuietArm, RetireCycle, Cancel, Retired
    <1>25. CASE CycleRetired
        BY Zenon, <1>25 DEF CycleRetired, Joined, DropTasks, ClearPublic
    <1>26. ASSUME NEW s \in Servers, Publish(s) PROVE (TaskTypes /\ Lanes)'
        BY Zenon, <1>26 DEF Publish
    <1>27. ASSUME NEW s \in Servers, DialFails(s) PROVE (TaskTypes /\ Lanes)'
        BY Zenon, <1>27 DEF DialFails, Ended, SessionFrame, Write
    <1>28. ASSUME NEW s \in Servers, LogsIn(s) PROVE (TaskTypes /\ Lanes)'
        BY Zenon, <1>28 DEF LogsIn, SessionFrame, Write
    <1>29. ASSUME NEW s \in Servers, GateOpens(s) PROVE (TaskTypes /\ Lanes)'
        BY Zenon, <1>29 DEF GateOpens, SessionFrame
    <1>30. ASSUME NEW s \in Servers, GateRetires(s) PROVE (TaskTypes /\ Lanes)'
        BY Zenon, <1>30 DEF GateRetires, Ended, SessionFrame
    <1>31. ASSUME NEW s \in Servers, Drops(s) PROVE (TaskTypes /\ Lanes)'
        BY Zenon, <1>31 DEF Drops, Ended, SessionFrame
    <1>32. ASSUME NEW s \in Servers, Rotates(s) PROVE (TaskTypes /\ Lanes)'
        BY Zenon, <1>32 DEF Rotates, Ended, SessionFrame, Write
    <1>33. ASSUME NEW s \in Servers, SeesCancel(s) PROVE (TaskTypes /\ Lanes)'
        BY Zenon, <1>33 DEF SeesCancel, Ended, SessionFrame, Write
    <1>34. ASSUME NEW s \in Servers, SeesShutdown(s) PROVE (TaskTypes /\ Lanes)'
        BY <1>34 DEF SeesShutdown, Ended, SessionFrame, Write
    <1> QED
        BY ZenonT(40), <1>1, <1>2, <1>3, <1>4, <1>5, <1>6, <1>7, <1>8, <1>9, <1>10, <1>11,
            <1>12, <1>13, <1>14, <1>15, <1>16, <1>17, <1>18, <1>19, <1>20, <1>21,
            <1>22, <1>23, <1>24, <1>25, <1>26, <1>27, <1>28, <1>29, <1>30, <1>31,
            <1>32, <1>33, <1>34, Moves
        DEF OtherMove, SessionStep

(* A session is activated only as the one session of the lane, and its     *)
(* lease is retired before the supervisor leaves it or cancels it.         *)
LEMMA FenceKept ==
    ASSUME LoopTypes, TaskTypes, Lanes, Fence, [Next]_vars
    PROVE  Fence'
    <1> USE DEF Fence, Lanes, Owned, Attempts, Free, Crowned, Steps,
        SequentialSteps, ParallelSteps, control, planVars, loopVars, taskVars,
        stateVars, reachVars, envVars
    <1>1. CASE FreeMove
        BY Zenon, <1>1 DEF FreeMove
    <1>2. CASE CallerMove
        BY Zenon, <1>2 DEF CallerMove
    <1>3. CASE TopEnabled
        BY Zenon, <1>3 DEF TopEnabled
    <1>4. CASE Resolved
        BY Zenon, <1>4 DEF Resolved, Spawn, Activated, Restart, Begins
    <1>5. CASE SessionFinished
        BY Zenon, <1>5 DEF SessionFinished, Retired, DropTasks, Restart, ClearPublic
    <1>6. CASE SessionPlan
        BY Zenon, <1>6 DEF SessionPlan, PlanArm, Cancel, Retired
    <1>7. CASE SessionInterrupted
        BY Zenon, <1>7 DEF SessionInterrupted, WakeArm, QuietArm, Cancel, Retired
    <1>8. CASE SessionJoined
        BY Zenon, <1>8 DEF SessionJoined, Joined, DropTasks, Restart, ClearPublic
    <1>9. CASE FillPlanChanged
        BY Zenon, <1>9 DEF FillPlanChanged, RetireCycle, Cancel, Retired
    <1>10. CASE Fill
        BY Zenon, <1>10 DEF Fill, Goto, Quiet
    <1>11. CASE AttemptResolved
        BY Zenon, <1>11 DEF AttemptResolved, Spawn, RetireCycle, Cancel, Retired
    <1>12. CASE AttemptUnresolved
        BY Zenon, <1>12 DEF AttemptUnresolved, Quiet
    <1>13. CASE CycleInterrupted
        BY Zenon, <1>13 DEF CycleInterrupted, PlanArm, WakeArm, QuietArm, RetireCycle, Cancel, Retired
    <1>14. CASE PollRetires
        BY Zenon, <1>14 DEF PollRetires, RetireCycle, Cancel, Retired
    <1>15. CASE Poll
        BY Zenon, <1>15 DEF Poll, Goto, Cancel, Retired
    <1>16. CASE Reap
        BY Zenon, <1>16 DEF Reap, DropTasks, Retired, ClearPublic
    <1>17. CASE ReapShutdown
        BY Zenon, <1>17 DEF ReapShutdown, DropTasks, Retired, Restart
    <1>18. CASE SleepOver
        BY Zenon, <1>18 DEF SleepOver, Goto, Quiet
    <1>19. CASE Crown
        BY Zenon, <1>19 DEF Crown, Activated, Cancel, Retired, Joined
    <1>20. CASE MirrorEnded
        BY Zenon, <1>20 DEF MirrorEnded, DropTasks, Retired, ClearPublic
    <1>21. CASE MirrorTick
        BY Zenon, <1>21 DEF MirrorTick, Goto
    <1>22. CASE MirrorSlept
        BY Zenon, <1>22 DEF MirrorSlept, Goto, Quiet
    <1>23. CASE MirrorPlan
        BY <1>23 DEF MirrorPlan, PlanArm, RetireCycle, Cancel, Retired
    <1>24. CASE MirrorInterrupted
        BY <1>24 DEF MirrorInterrupted, WakeArm, QuietArm, RetireCycle, Cancel, Retired
    <1>25. CASE CycleRetired
        BY Zenon, <1>25 DEF CycleRetired, Joined, DropTasks, ClearPublic
    <1>26. ASSUME NEW s \in Servers, Publish(s) PROVE Fence'
        BY Zenon, <1>26 DEF Publish
    <1>27. ASSUME NEW s \in Servers, DialFails(s) PROVE Fence'
        BY Zenon, <1>27 DEF DialFails, Ended, SessionFrame, Write
    <1>28. ASSUME NEW s \in Servers, LogsIn(s) PROVE Fence'
        BY Zenon, <1>28 DEF LogsIn, SessionFrame, Write
    <1>29. ASSUME NEW s \in Servers, GateOpens(s) PROVE Fence'
        BY Zenon, <1>29 DEF GateOpens, SessionFrame
    <1>30. ASSUME NEW s \in Servers, GateRetires(s) PROVE Fence'
        BY Zenon, <1>30 DEF GateRetires, Ended, SessionFrame
    <1>31. ASSUME NEW s \in Servers, Drops(s) PROVE Fence'
        BY Zenon, <1>31 DEF Drops, Ended, SessionFrame
    <1>32. ASSUME NEW s \in Servers, Rotates(s) PROVE Fence'
        BY Zenon, <1>32 DEF Rotates, Ended, SessionFrame, Write
    <1>33. ASSUME NEW s \in Servers, SeesCancel(s) PROVE Fence'
        BY Zenon, <1>33 DEF SeesCancel, Ended, SessionFrame, Write
    <1>34. ASSUME NEW s \in Servers, SeesShutdown(s) PROVE Fence'
        BY Zenon, <1>34 DEF SeesShutdown, Ended, SessionFrame, Write
    <1> QED
        BY Zenon, <1>1, <1>2, <1>3, <1>4, <1>5, <1>6, <1>7, <1>8, <1>9, <1>10, <1>11,
            <1>12, <1>13, <1>14, <1>15, <1>16, <1>17, <1>18, <1>19, <1>20, <1>21,
            <1>22, <1>23, <1>24, <1>25, <1>26, <1>27, <1>28, <1>29, <1>30, <1>31,
            <1>32, <1>33, <1>34, Moves
        DEF OtherMove, SessionStep

(* No attempt passes its gate before the losers are joined; a crowned      *)
(* session is alone.                                                       *)
LEMMA GatesKept ==
    ASSUME LoopTypes, TaskTypes, Lanes, Gates, [Next]_vars
    PROVE  Gates'
    <1> USE DEF Gates, Gated, Lanes, Owned, Dead, Attempts, Free, Racing, Crowned,
        TaskTypes, control, planVars, loopVars, taskVars, stateVars, reachVars,
        envVars
    <1>1. CASE FreeMove
        BY Zenon, <1>1 DEF FreeMove
    <1>2. CASE CallerMove
        BY Zenon, <1>2 DEF CallerMove
    <1>3. CASE TopEnabled
        BY Zenon, <1>3 DEF TopEnabled
    <1>4. CASE Resolved
        BY Zenon, <1>4 DEF Resolved, Spawn, Activated, Restart, Begins
    <1>5. CASE SessionFinished
        BY Zenon, <1>5 DEF SessionFinished, Retired, DropTasks, Restart, ClearPublic
    <1>6. CASE SessionPlan
        BY Zenon, <1>6 DEF SessionPlan, PlanArm, Cancel, Retired
    <1>7. CASE SessionInterrupted
        BY Zenon, <1>7 DEF SessionInterrupted, WakeArm, QuietArm, Cancel, Retired
    <1>8. CASE SessionJoined
        BY Zenon, <1>8 DEF SessionJoined, Joined, DropTasks, Restart, ClearPublic
    <1>9. CASE FillPlanChanged
        BY Zenon, <1>9 DEF FillPlanChanged, RetireCycle, Cancel, Retired
    <1>10. CASE Fill
        BY Zenon, <1>10 DEF Fill, Goto, Quiet
    <1>11. CASE AttemptResolved
        BY Zenon, <1>11 DEF AttemptResolved, Spawn, RetireCycle, Cancel, Retired
    <1>12. CASE AttemptUnresolved
        BY Zenon, <1>12 DEF AttemptUnresolved, Quiet
    <1>13. CASE CycleInterrupted
        BY Zenon, <1>13 DEF CycleInterrupted, PlanArm, WakeArm, QuietArm, RetireCycle, Cancel, Retired
    <1>14. CASE PollRetires
        BY Zenon, <1>14 DEF PollRetires, RetireCycle, Cancel, Retired
    <1>15. CASE Poll
        BY Zenon, <1>15 DEF Poll, Goto, Cancel, Retired
    <1>16. CASE Reap
        BY Zenon, <1>16 DEF Reap, DropTasks, Retired, ClearPublic
    <1>17. CASE ReapShutdown
        BY Zenon, <1>17 DEF ReapShutdown, DropTasks, Retired, Restart
    <1>18. CASE SleepOver
        BY Zenon, <1>18 DEF SleepOver, Goto, Quiet
    <1>19. CASE Crown
        BY SMTT(60), <1>19 DEF Crown, Activated, Cancel, Retired, Joined
    <1>20. CASE MirrorEnded
        BY Zenon, <1>20 DEF MirrorEnded, DropTasks, Retired, ClearPublic
    <1>21. CASE MirrorTick
        BY Zenon, <1>21 DEF MirrorTick, Goto
    <1>22. CASE MirrorSlept
        BY Zenon, <1>22 DEF MirrorSlept, Goto, Quiet
    <1>23. CASE MirrorPlan
        BY Zenon, <1>23 DEF MirrorPlan, PlanArm, RetireCycle, Cancel, Retired
    <1>24. CASE MirrorInterrupted
        BY Zenon, <1>24 DEF MirrorInterrupted, WakeArm, QuietArm, RetireCycle, Cancel, Retired
    <1>25. CASE CycleRetired
        BY Zenon, <1>25 DEF CycleRetired, Joined, DropTasks, ClearPublic
    <1>26. ASSUME NEW s \in Servers, Publish(s) PROVE Gates'
        BY Zenon, <1>26 DEF Publish
    <1>27. ASSUME NEW s \in Servers, DialFails(s) PROVE Gates'
        BY SMTT(60), <1>27 DEF DialFails, Ended, SessionFrame, Write
    <1>28. ASSUME NEW s \in Servers, LogsIn(s) PROVE Gates'
        BY Zenon, <1>28 DEF LogsIn, SessionFrame, Write
    <1>29. ASSUME NEW s \in Servers, GateOpens(s) PROVE Gates'
        BY Zenon, <1>29 DEF GateOpens, SessionFrame
    <1>30. ASSUME NEW s \in Servers, GateRetires(s) PROVE Gates'
        BY Zenon, <1>30 DEF GateRetires, Ended, SessionFrame
    <1>31. ASSUME NEW s \in Servers, Drops(s) PROVE Gates'
        BY Zenon, <1>31 DEF Drops, Ended, SessionFrame
    <1>32. ASSUME NEW s \in Servers, Rotates(s) PROVE Gates'
        BY Zenon, <1>32 DEF Rotates, Ended, SessionFrame, Write
    <1>33. ASSUME NEW s \in Servers, SeesCancel(s) PROVE Gates'
        BY Zenon, <1>33 DEF SeesCancel, Ended, SessionFrame, Write
    <1>34. ASSUME NEW s \in Servers, SeesShutdown(s) PROVE Gates'
        BY Zenon, <1>34 DEF SeesShutdown, Ended, SessionFrame, Write
    <1> QED
        BY ZenonT(40), <1>1, <1>2, <1>3, <1>4, <1>5, <1>6, <1>7, <1>8, <1>9, <1>10, <1>11,
            <1>12, <1>13, <1>14, <1>15, <1>16, <1>17, <1>18, <1>19, <1>20, <1>21,
            <1>22, <1>23, <1>24, <1>25, <1>26, <1>27, <1>28, <1>29, <1>30, <1>31,
            <1>32, <1>33, <1>34, Moves
        DEF OtherMove, SessionStep

(* The retirement is acknowledged behind the clearing of the public state, *)
(* at a step that owns no session; only enabling the lane leads away from  *)
(* the head again.                                                         *)
LEMMA AcksKept ==
    ASSUME LoopTypes, TaskTypes, Lanes, Acks, [Next]_vars
    PROVE  Acks'
    <1> USE DEF Acks, Acknowledged, Lanes, Owned, Dead, Free, InParallel,
        ParallelSteps, control, planVars, loopVars, taskVars, stateVars, reachVars,
        envVars
    <1>1. CASE TopDisabled
        BY Zenon, <1>1 DEF TopDisabled, ClearPublic, Goto
    <1>2. CASE Acknowledge
        BY <1>2 DEF Acknowledge, Goto, Quiet
    <1>3. CASE WaitForCommand
        BY <1>3 DEF WaitForCommand, PlanArm, WakeArm, QuietArm, Restart, Quiet
    <1>4. CASE TopEnabled
        BY Zenon, <1>4 DEF TopEnabled
    <1>5. CASE LeaveLoop
        BY Zenon, <1>5 DEF LeaveLoop, Restart, Quiet
    <1>6. CASE DelayBeforeRestart
        BY <1>6 DEF DelayBeforeRestart, PlanArm, WakeArm, QuietArm, Restart, Quiet
    <1>7. CASE NextServer
        BY Zenon, <1>7 DEF NextServer, Goto, Quiet
    <1>8. CASE OrderOver
        BY Zenon, <1>8 DEF OrderOver, Restart, Quiet
    <1>9. CASE Resolved
        BY Zenon, <1>9 DEF Resolved, Spawn, Activated, Restart, Begins
    <1>10. CASE Unresolved
        BY Zenon, <1>10 DEF Unresolved, Quiet
    <1>11. CASE ResolveInterrupted
        BY Zenon, <1>11 DEF ResolveInterrupted, PlanArm, WakeArm, QuietArm, Restart, ClearPublic
    <1>12. CASE SessionFinished
        BY Zenon, <1>12 DEF SessionFinished, Retired, DropTasks, Restart, ClearPublic
    <1>13. CASE SessionPlan
        BY Zenon, <1>13 DEF SessionPlan, PlanArm, Cancel, Retired
    <1>14. CASE SessionInterrupted
        BY Zenon, <1>14 DEF SessionInterrupted, WakeArm, QuietArm, Cancel, Retired
    <1>15. CASE SessionJoined
        BY Zenon, <1>15 DEF SessionJoined, Joined, DropTasks, Restart, ClearPublic
    <1>16. CASE PaceNext
        BY Zenon, <1>16 DEF PaceNext, Quiet
    <1>17. CASE PaceInterrupted
        BY <1>17 DEF PaceInterrupted, PlanArm, WakeArm, Restart, Quiet
    <1>18. CASE FillPlanChanged
        BY Zenon, <1>18 DEF FillPlanChanged, RetireCycle, Cancel, Retired
    <1>19. CASE Fill
        BY Zenon, <1>19 DEF Fill, Goto, Quiet
    <1>20. CASE AttemptResolved
        BY Zenon, <1>20 DEF AttemptResolved, Spawn, RetireCycle, Cancel, Retired
    <1>21. CASE AttemptUnresolved
        BY Zenon, <1>21 DEF AttemptUnresolved, Quiet
    <1>22. CASE CycleInterrupted
        BY <1>22 DEF CycleInterrupted, PlanArm, WakeArm, QuietArm, RetireCycle, Cancel, Retired
    <1>23. CASE PollRetires
        BY Zenon, <1>23 DEF PollRetires, RetireCycle, Cancel, Retired
    <1>24. CASE Poll
        BY Zenon, <1>24 DEF Poll, Goto, Cancel, Retired
    <1>25. CASE Reap
        BY Zenon, <1>25 DEF Reap, DropTasks, Retired, ClearPublic
    <1>26. CASE ReapShutdown
        BY Zenon, <1>26 DEF ReapShutdown, DropTasks, Retired, Restart
    <1>27. CASE SleepOver
        BY Zenon, <1>27 DEF SleepOver, Goto, Quiet
    <1>28. CASE Crown
        BY Zenon, <1>28 DEF Crown, Activated, Cancel, Retired, Joined
    <1>29. CASE MirrorEnded
        BY Zenon, <1>29 DEF MirrorEnded, DropTasks, Retired, ClearPublic
    <1>30. CASE MirrorTick
        BY Zenon, <1>30 DEF MirrorTick, Goto
    <1>31. CASE MirrorSlept
        BY Zenon, <1>31 DEF MirrorSlept, Goto, Quiet
    <1>32. CASE MirrorPlan
        BY Zenon, <1>32 DEF MirrorPlan, PlanArm, RetireCycle, Cancel, Retired
    <1>33. CASE MirrorInterrupted
        BY Zenon, <1>33 DEF MirrorInterrupted, WakeArm, QuietArm, RetireCycle, Cancel, Retired
    <1>34. CASE CycleRetired
        BY Zenon, <1>34 DEF CycleRetired, Joined, DropTasks, ClearPublic
    <1>35. CASE CycleOver
        BY Zenon, <1>35 DEF CycleOver, Restart, Quiet, AfterCycle
    <1>36. ASSUME NEW s \in Servers, Publish(s) PROVE Acks'
        BY Zenon, <1>36 DEF Publish
    <1>37. ASSUME NEW s \in Servers, DialFails(s) PROVE Acks'
        BY Zenon, <1>37 DEF DialFails, Ended, SessionFrame, Write
    <1>38. ASSUME NEW s \in Servers, LogsIn(s) PROVE Acks'
        BY Zenon, <1>38 DEF LogsIn, SessionFrame, Write
    <1>39. ASSUME NEW s \in Servers, GateOpens(s) PROVE Acks'
        BY Zenon, <1>39 DEF GateOpens, SessionFrame
    <1>40. ASSUME NEW s \in Servers, GateRetires(s) PROVE Acks'
        BY Zenon, <1>40 DEF GateRetires, Ended, SessionFrame
    <1>41. ASSUME NEW s \in Servers, Drops(s) PROVE Acks'
        BY Zenon, <1>41 DEF Drops, Ended, SessionFrame
    <1>42. ASSUME NEW s \in Servers, Rotates(s) PROVE Acks'
        BY Zenon, <1>42 DEF Rotates, Ended, SessionFrame, Write
    <1>43. ASSUME NEW s \in Servers, SeesCancel(s) PROVE Acks'
        BY Zenon, <1>43 DEF SeesCancel, Ended, SessionFrame, Write
    <1>44. ASSUME NEW s \in Servers, SeesShutdown(s) PROVE Acks'
        BY Zenon, <1>44 DEF SeesShutdown, Ended, SessionFrame, Write
    <1>45. ASSUME NEW p \in Plans, Connect(p) PROVE Acks'
        BY Zenon, <1>45 DEF Connect, CallerFrame, Command
    <1>46. ASSUME NEW p \in Plans, RefreshPlan(p) PROVE Acks'
        BY Zenon, <1>46 DEF RefreshPlan, CallerFrame, Command
    <1>47. CASE Disable
        BY SMTT(60), <1>47 DEF Disable, CallerFrame, Command
    <1>48. CASE DisableReturns
        BY Zenon, <1>48 DEF DisableReturns, CallerFrame
    <1>49. CASE PortsChanged
        BY Zenon, <1>49 DEF PortsChanged, CallerFrame
    <1>50. CASE RetireRuntime
        BY Zenon, <1>50 DEF RetireRuntime, CallerFrame
    <1>51. CASE RaiseShutdown
        BY Zenon, <1>51 DEF RaiseShutdown
    <1>52. CASE UNCHANGED vars
        BY Zenon, <1>52 DEF vars
    <1> QED
        BY ZenonT(40), <1>1, <1>2, <1>3, <1>4, <1>5, <1>6, <1>7, <1>8, <1>9, <1>10, <1>11,
            <1>12, <1>13, <1>14, <1>15, <1>16, <1>17, <1>18, <1>19, <1>20, <1>21,
            <1>22, <1>23, <1>24, <1>25, <1>26, <1>27, <1>28, <1>29, <1>30, <1>31,
            <1>32, <1>33, <1>34, <1>35, <1>36, <1>37, <1>38, <1>39, <1>40, <1>41,
            <1>42, <1>43, <1>44, <1>45, <1>46, <1>47, <1>48, <1>49, <1>50, <1>51,
            <1>52
        DEF Next, Supervise, Sequential, Parallel, SessionStep, Commands

(* A racing attempt writes its private state only, and what is mirrored is *)
(* the state of the crowned session.                                       *)
LEMMA ViewsKept ==
    ASSUME LoopTypes, TaskTypes, Lanes, Views, [Next]_vars
    PROVE  Views'
    <1> USE DEF Racing, Crowned, Free, Owned, Lanes, Dead, Views, control, planVars,
        loopVars, taskVars, stateVars, reachVars, envVars
    <1>1. CASE FreeMove
        BY Zenon, <1>1 DEF FreeMove
    <1>2. CASE CallerMove
        BY Zenon, <1>2 DEF CallerMove
    <1>3. CASE TopEnabled
        BY Zenon, <1>3 DEF TopEnabled
    <1>4. CASE Resolved
        BY Zenon, <1>4 DEF Resolved, Spawn, Activated, Restart, Begins
    <1>5. CASE SessionFinished
        BY Zenon, <1>5 DEF SessionFinished, Retired, DropTasks, Restart, ClearPublic
    <1>6. CASE SessionPlan
        BY Zenon, <1>6 DEF SessionPlan, PlanArm, Cancel, Retired
    <1>7. CASE SessionInterrupted
        BY Zenon, <1>7 DEF SessionInterrupted, WakeArm, QuietArm, Cancel, Retired
    <1>8. CASE SessionJoined
        BY Zenon, <1>8 DEF SessionJoined, Joined, DropTasks, Restart, ClearPublic
    <1>9. CASE FillPlanChanged
        BY Zenon, <1>9 DEF FillPlanChanged, RetireCycle, Cancel, Retired
    <1>10. CASE Fill
        BY Zenon, <1>10 DEF Fill, Goto, Quiet
    <1>11. CASE AttemptResolved
        <2>1. CASE Begins
            <3>1. Head(queue) \in Servers
                BY <1>11 DEF AttemptResolved, LoopTypes, Trying
            <3>2. /\ view' = [view EXCEPT ![Head(queue)] = Dialing(Head(queue))]
                  /\ public' = public /\ pc' = "fill" /\ pc \in Racing
                BY Zenon, <1>11, <2>1 DEF AttemptResolved, Racing
            <3> DEFINE it == Head(queue)
            <3>3. /\ \A r \in Servers : view'[r] = IF r = it THEN Dialing(it) ELSE view[r]
                  /\ view' = [r \in Servers |-> view'[r]]
                BY Zenon, <3>1, <3>2 DEF Views
            <3> HIDE DEF it
            <3> QED
                BY Zenon, <3>2, <3>3 DEF Views, Shown, Crowned
        <2>2. CASE ~Begins
            BY Zenon, <1>11, <2>2 DEF AttemptResolved, RetireCycle, stateVars, Views, Racing, Crowned
        <2> QED
            BY Zenon, <2>1, <2>2
    <1>12. CASE AttemptUnresolved
        BY Zenon, <1>12 DEF AttemptUnresolved, Quiet
    <1>13. CASE CycleInterrupted
        BY Zenon, <1>13 DEF CycleInterrupted, PlanArm, WakeArm, QuietArm, RetireCycle, Cancel, Retired
    <1>14. CASE PollRetires
        BY Zenon, <1>14 DEF PollRetires, RetireCycle, Cancel, Retired
    <1>15. CASE Poll
        BY Zenon, <1>15 DEF Poll, Goto, Cancel, Retired
    <1>16. CASE Reap
        BY Zenon, <1>16 DEF Reap, DropTasks, Retired, ClearPublic
    <1>17. CASE ReapShutdown
        BY Zenon, <1>17 DEF ReapShutdown, DropTasks, Retired, Restart
    <1>18. CASE SleepOver
        BY Zenon, <1>18 DEF SleepOver, Goto, Quiet
    <1>19. CASE Crown
        <2>1. /\ pc' \in {"mirror", "retiring"} /\ view' = view /\ session' = session
              /\ public' = view[session] /\ session \in Servers
            BY Zenon, <1>19 DEF Crown, LoopTypes
        <2> QED
            BY Zenon, <2>1 DEF Views, Racing, Crowned
    <1>20. CASE MirrorEnded
        BY Zenon, <1>20 DEF MirrorEnded, DropTasks, Retired, ClearPublic
    <1>21. CASE MirrorTick
        <2>1. /\ pc' = "mirrorWait" /\ view' = view /\ session' = session
              /\ public' = view[session] /\ session \in Servers
            BY Zenon, <1>21 DEF MirrorTick, Goto, LoopTypes, Crowned
        <2> QED
            BY Zenon, <2>1 DEF Views, Racing, Crowned
    <1>22. CASE MirrorSlept
        BY Zenon, <1>22 DEF MirrorSlept, Goto, Quiet
    <1>23. CASE MirrorPlan
        BY Zenon, <1>23 DEF MirrorPlan, PlanArm, RetireCycle, Cancel, Retired
    <1>24. CASE MirrorInterrupted
        BY Zenon, <1>24 DEF MirrorInterrupted, WakeArm, QuietArm, RetireCycle, Cancel, Retired
    <1>25. CASE CycleRetired
        BY Zenon, <1>25 DEF CycleRetired, Joined, DropTasks, ClearPublic
    <1>26. ASSUME NEW s \in Servers, Publish(s) PROVE Views'
        BY Zenon, <1>26 DEF Publish
    <1>27. ASSUME NEW s \in Servers, DialFails(s) PROVE Views'
        BY Zenon, <1>27, WriteViews DEF DialFails, SessionFrame, loopVars, Shown
    <1>28. ASSUME NEW s \in Servers, LogsIn(s) PROVE Views'
        BY Zenon, <1>28, WriteViews DEF LogsIn, SessionFrame, loopVars, Shown
    <1>29. ASSUME NEW s \in Servers, GateOpens(s) PROVE Views'
        BY Zenon, <1>29 DEF GateOpens, SessionFrame
    <1>30. ASSUME NEW s \in Servers, GateRetires(s) PROVE Views'
        BY Zenon, <1>30 DEF GateRetires, Ended, SessionFrame
    <1>31. ASSUME NEW s \in Servers, Drops(s) PROVE Views'
        BY Zenon, <1>31 DEF Drops, Ended, SessionFrame
    <1>32. ASSUME NEW s \in Servers, Rotates(s) PROVE Views'
        BY Zenon, <1>32, WriteViews DEF Rotates, SessionFrame, loopVars, Shown
    <1>33. ASSUME NEW s \in Servers, SeesCancel(s) PROVE Views'
        BY Zenon, <1>33, WriteViews DEF SeesCancel, SessionFrame, loopVars, Shown
    <1>34. ASSUME NEW s \in Servers, SeesShutdown(s) PROVE Views'
        BY Zenon, <1>34, WriteViews DEF SeesShutdown, SessionFrame, loopVars, Shown
    <1> QED
        BY ZenonT(40), <1>1, <1>2, <1>3, <1>4, <1>5, <1>6, <1>7, <1>8, <1>9, <1>10, <1>11,
            <1>12, <1>13, <1>14, <1>15, <1>16, <1>17, <1>18, <1>19, <1>20, <1>21,
            <1>22, <1>23, <1>24, <1>25, <1>26, <1>27, <1>28, <1>29, <1>30, <1>31,
            <1>32, <1>33, <1>34, Moves
        DEF OtherMove, SessionStep

-----------------------------------------------------------------------------
LoopInv == LoopTypes /\ TaskTypes /\ Lanes /\ Fence /\ Gates /\ Acks /\ Views

(* The runtime starts with no session, no lease and nothing published.     *)
LEMMA LoopInvInit ==
    ASSUME LoopAssumption, Init
    PROVE  LoopInv
    <1>1. LoopTypes
        BY DEF Init, LoopAssumption, LoopTypes, Steps, Trying, Crowned
    <1>2. TaskTypes /\ Lanes
        BY Zenon DEF Init, TaskTypes, Lanes, Owned, Dead, Free, Crowned
    <1>3. Fence /\ Gates
        BY Zenon DEF Init, Fence, Gates, Racing
    <1>4. Acks
        BY DEF Init, Acks, Acknowledged
    <1>5. Views
        BY Zenon DEF Init, Views, Shown, Racing, Crowned
    <1> QED
        BY Zenon, <1>1, <1>2, <1>3, <1>4, <1>5 DEF LoopInv

(* The invariant is inductive.                                             *)
LEMMA LoopInvKept ==
    ASSUME LoopAssumption, LoopInv, [Next]_vars
    PROVE  LoopInv'
    <1> USE DEF LoopInv
    <1> QED
        BY Zenon, TypesKept, LanesKept, FenceKept, GatesKept, AcksKept, ViewsKept

(* The invariant holds in every reachable state.                           *)
LEMMA LoopInvariant ==
    ASSUME LoopAssumption
    PROVE  Spec => []LoopInv
    <1>1. Init => LoopInv
        BY Zenon, LoopInvInit
    <1>2. LoopInv /\ [Next]_vars => LoopInv'
        BY Zenon, LoopInvKept
    <1> QED
        BY <1>1, <1>2, PTL DEF Spec

-----------------------------------------------------------------------------
(* disable_and_wait means what it says, for any servers and plans: while   *)
(* the last retirement is acknowledged and the lane is disabled, no        *)
(* session runs, none is shown and none holds the reachability lease.      *)
THEOREM AcknowledgedMeansQuiet ==
    ASSUME LoopAssumption
    PROVE  Spec => []AckMeansQuiet
    <1>1. LoopInv => AckMeansQuiet
        <2> SUFFICES ASSUME LoopInv, Acknowledged
                     PROVE  Live = {} /\ public = Cleared /\ holder = Absent
            BY Zenon DEF AckMeansQuiet, Acknowledged
        <2>1. pc \in {"top", "acking", "idle", "done"} /\ public = Cleared
            BY Zenon DEF LoopInv, Acks
        <2>2. \A s \in Servers : task[s] \in {"none", "ended"}
            BY Zenon, <2>1 DEF LoopInv, Lanes, Owned, Dead, Free
        <2>3. holder = Absent
            BY Zenon, <2>1 DEF LoopInv, Fence, Crowned
        <2> QED
            BY Zenon, <2>1, <2>2, <2>3 DEF Live
    <1> QED
        BY <1>1, LoopInvariant, PTL

(* Once a session is activated past its login, no other session is left    *)
(* that could still write to the server state or the search inbox.         *)
THEOREM WinnerIsAlone ==
    ASSUME LoopAssumption
    PROVE  Spec => []LoneWinner
    <1>1. LoopInv => LoneWinner
        <2> SUFFICES ASSUME LoopInv, NEW s \in Servers, NEW t \in Servers,
                            task[s] = "running", ~Dead(t)
                     PROVE  s = t
            BY Zenon DEF LoneWinner, Live, Dead
        <2>1. ~Dead(s)
            BY Zenon DEF Dead
        <2>2. pc \notin Racing /\ pc \notin Free
            BY Zenon, <2>1 DEF LoopInv, Gates, Gated, Dead, Lanes, Owned
        <2>3. CASE pc = "retiring"
            BY Zenon, <2>1, <2>3 DEF LoopInv, Gates, Gated, Dead
        <2>4. CASE pc # "retiring"
            BY Zenon, <2>1, <2>2, <2>4 DEF LoopInv, LoopTypes, Lanes, Owned, Steps,
               SequentialSteps, ParallelSteps, Free, Racing, Crowned
        <2> QED
            BY Zenon, <2>3, <2>4
    <1> QED
        BY <1>1, LoopInvariant, PTL

(* A losing attempt cannot overwrite the selected session: what a race     *)
(* shows is the cycle's own state, and behind it the crowned session or    *)
(* nothing.                                                                *)
THEOREM LosersNeverShown ==
    ASSUME LoopAssumption
    PROVE  Spec => []LosersStayPrivate
    <1>1. LoopInv => LosersStayPrivate
        BY DEF LoopInv, Views, LosersStayPrivate, Racing, Crowned, Shown, Cleared,
           Dialing, LoggedIn
    <1> QED
        BY <1>1, LoopInvariant, PTL

(* The address a server reported is trusted only while the session that    *)
(* learned it is the lane's session and the runtime is up.                 *)
THEOREM EvidenceStaysFenced ==
    ASSUME LoopAssumption
    PROVE  Spec => []EvidenceFenced
    <1>1. LoopInv => EvidenceFenced
        BY Zenon DEF LoopInv, Fence, EvidenceFenced, Crowned
    <1> QED
        BY <1>1, LoopInvariant, PTL

=============================================================================
