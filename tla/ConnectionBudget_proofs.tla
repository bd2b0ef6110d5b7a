---------------------- MODULE ConnectionBudget_proofs ----------------------
(***************************************************************************)
(* Proofs about ConnectionBudget, for any finite set of workers, any set   *)
(* of configurations and any window.                                       *)
(*                                                                         *)
(* The inductive invariant joins the type invariant, the accounting of the *)
(* slots and the one-sided error of the half-open count.  The last needs   *)
(* the accounting: when release_connection() finds no established slot,    *)
(* every permit is counted half-open, so taking one away leaves enough for *)
(* the handshakes of the others.                                           *)
(***************************************************************************)
EXTENDS ConnectionBudget, FiniteSetTheorems, SequenceTheorems, TLAPS

Inv == TypeOK /\ SlotAccounting /\ HalfOpenCoversHandshakes

-----------------------------------------------------------------------------

(* Expiring grants leaves a sequence of ages that is no longer than it was *)
(* (expire_connection_window() only pops).                                 *)
LEMMA LiveShrinks ==
  ASSUME NEW gs \in Seq(0 .. Window)
  PROVE  /\ Live(gs) \in Seq(0 .. Window)
         /\ Len(Live(gs)) \in Nat
         /\ Len(Live(gs)) <= Len(gs)
  <1> DEFINE Aged == {i \in 1 .. Len(gs) : gs[i] >= Window}
             k == Cardinality(Aged)
  <1>1. Len(gs) \in Nat
    BY Zenon, LenProperties
  <1>2. IsFiniteSet(1 .. Len(gs)) /\ Aged \in SUBSET (1 .. Len(gs))
    BY <1>1, FS_Interval
  <1>3. k \in Nat
    BY Zenon, <1>2, FS_Subset, FS_CardinalityType
  <1>4. \A i \in 1 + k .. Len(gs) : gs[i] \in 0 .. Window
    <2> TAKE i \in 1 + k .. Len(gs)
    <2>1. i \in 1 .. Len(gs)
      BY <1>1, <1>3
    <2> QED
      BY Zenon, <2>1, ElementOfSeq
  <1>5. /\ SubSeq(gs, 1 + k, Len(gs)) \in Seq(0 .. Window)
        /\ Len(SubSeq(gs, 1 + k, Len(gs))) =
              IF 1 + k <= Len(gs) THEN Len(gs) - (1 + k) + 1 ELSE 0
    <2> HIDE DEF k
    <2> QED
      BY <1>1, <1>3, <1>4, SubSeqProperties
  <1>6. Live(gs) = SubSeq(gs, 1 + k, Len(gs))
    BY Zenon DEF Live
  <1> HIDE DEF k
  <1> QED
    BY <1>1, <1>3, <1>5, <1>6

(* The sets of workers the counters are compared with are finite.          *)
LEMMA CountedWorkers ==
  ASSUME TypeOK
  PROVE  /\ IsFiniteSet(Connecting) /\ IsFiniteSet(PermitHolders)
         /\ Cardinality(Connecting) \in Nat /\ Cardinality(PermitHolders) \in Nat
         /\ Connecting \subseteq PermitHolders
  <1>1. /\ Connecting \in SUBSET Workers
        /\ PermitHolders \in SUBSET Workers
        /\ Connecting \subseteq PermitHolders
    BY Zenon DEF Connecting, PermitHolders
  <1> QED
    BY Zenon, <1>1, BudgetAssumption, FS_Subset, FS_CardinalityType

(* The coordinator's counters are natural numbers after every step.        *)
LEMMA TypePreserved ==
  ASSUME TypeOK, [Next]_vars
  PROVE  TypeOK'
  <1> USE DEF TypeOK
  <1>0. Live(grants) \in Seq(0 .. Window) /\ 0 \in 0 .. Window
    BY LiveShrinks, BudgetAssumption
  <1>1. ASSUME NEW w \in Workers, Admit(w)
        PROVE  TypeOK'
    <2>1. grants' \in Seq(0 .. Window)
      BY Zenon, <1>0, <1>1, AppendProperties DEF Admit
    <2>2. slots' \in [halfOpen: Nat, established: Nat]
      BY <1>1 DEF Admit
    <2>3. phase' \in [Workers -> Phases]
      BY Zenon, <1>1 DEF Admit, Phases
    <2> QED
      BY Zenon, <1>1, <2>1, <2>2, <2>3 DEF Admit
  <1>2. ASSUME NEW w \in Workers, Deny(w)
        PROVE  TypeOK'
    BY Zenon, <1>0, <1>2 DEF Deny
  <1>3. ASSUME NEW w \in Workers, Establish(w)
        PROVE  TypeOK'
    BY <1>3 DEF Establish, MarkConnectionEstablished, Phases
  <1>4. ASSUME NEW w \in Workers, Close(w)
        PROVE  TypeOK'
    BY <1>4 DEF Close, ReleaseConnection, Phases
  <1>5. ASSUME NEW c \in Configs, SetConfig(c)
        PROVE  TypeOK'
    BY Zenon, <1>5 DEF SetConfig
  <1>6. CASE Tick
    <2>1. Len(grants) \in Nat /\ \A i \in 1 .. Len(grants) : grants[i] \in 0 .. Window
      BY Zenon, LenProperties, ElementOfSeq
    <2>2. \A i \in 1 .. Len(grants) :
             (IF grants[i] < Window THEN grants[i] + 1 ELSE Window) \in 0 .. Window
      BY <2>1, BudgetAssumption
    <2>3. grants' \in Seq(0 .. Window)
      BY <1>6, <2>1, <2>2, IsASeq DEF Tick
    <2> QED
      BY Zenon, <1>6, <2>3 DEF Tick
  <1>7. CASE UNCHANGED vars
    BY Zenon, <1>7 DEF vars
  <1> QED
    BY Zenon, <1>1, <1>2, <1>3, <1>4, <1>5, <1>6, <1>7 DEF Next

(* The type invariant of the connection budget.                            *)
THEOREM TypeCorrect == Spec => []TypeOK
  <1>1. Init => TypeOK
    BY EmptySeq DEF Init, TypeOK, Phases
  <1> QED
    BY <1>1, TypePreserved, PTL DEF Spec

-----------------------------------------------------------------------------

(* What a step does to the set of workers that hold a permit and to the    *)
(* set of those still connecting: one worker enters, moves or leaves.      *)
LEMMA InvPreserved ==
  ASSUME Inv, [Next]_vars
  PROVE  Inv'
  <1> USE DEF Inv, SlotAccounting, HalfOpenCoversHandshakes, ActiveConnections
  <1>0. TypeOK /\ TypeOK'
    BY Zenon, TypePreserved
  <1> USE CountedWorkers
  <1>t. slots.halfOpen \in Nat /\ slots.established \in Nat
    BY Zenon, <1>0 DEF TypeOK
  <1>1. ASSUME NEW w \in Workers, Admit(w)
        PROVE  SlotAccounting' /\ HalfOpenCoversHandshakes'
    <2>1. /\ PermitHolders' = PermitHolders \cup {w} /\ w \notin PermitHolders
          /\ Connecting' = Connecting \cup {w} /\ w \notin Connecting
      BY SMTT(60), <1>0, <1>1 DEF TypeOK, Admit, PermitHolders, Connecting
    <2>2. /\ Cardinality(PermitHolders') = Cardinality(PermitHolders) + 1
          /\ Cardinality(Connecting') = Cardinality(Connecting) + 1
      BY Zenon, <1>0, <2>1, FS_AddElement
    <2>3. slots'.halfOpen = slots.halfOpen + 1 /\ slots'.established = slots.established
      BY Zenon, <1>0, <1>1 DEF TypeOK, Admit
    <2> QED
      BY <1>0, <1>t, <2>2, <2>3
  <1>2. ASSUME NEW w \in Workers, Establish(w)
        PROVE  SlotAccounting' /\ HalfOpenCoversHandshakes'
    <2>1. /\ PermitHolders' = PermitHolders
          /\ Connecting' = Connecting \ {w} /\ w \in Connecting
      BY Zenon, <1>0, <1>2 DEF TypeOK, Establish, PermitHolders, Connecting
    <2>2. Cardinality(Connecting') = Cardinality(Connecting) - 1
      BY Zenon, <1>0, <2>1, FS_RemoveElement
    <2>3. Cardinality(Connecting) # 0
      BY Zenon, <1>0, <2>1, FS_EmptySet
    <2>4. slots.halfOpen > 0
      BY <1>0, <1>t, <2>3
    <2>5. /\ slots'.halfOpen = slots.halfOpen - 1
          /\ slots'.established = slots.established + 1
      BY Zenon, <1>2, <2>4 DEF Establish, MarkConnectionEstablished
    <2> QED
      BY <1>0, <1>t, <2>1, <2>2, <2>5
  <1>3. ASSUME NEW w \in Workers, Close(w)
        PROVE  SlotAccounting' /\ HalfOpenCoversHandshakes'
    <2>1. /\ PermitHolders' = PermitHolders \ {w} /\ w \in PermitHolders
          /\ Connecting' = Connecting \ {w}
      BY Zenon, <1>0, <1>3 DEF TypeOK, Close, PermitHolders, Connecting
    <2>2. /\ IsFiniteSet(PermitHolders')
          /\ Cardinality(PermitHolders') = Cardinality(PermitHolders) - 1
      BY Zenon, <1>0, <2>1, FS_RemoveElement
    <2>3. /\ Connecting' \in SUBSET PermitHolders'
          /\ Connecting' \in SUBSET Connecting
      BY Zenon, <1>0, <2>1
    <2>s. /\ Cardinality(Connecting') \in Nat
          /\ Cardinality(Connecting') <= Cardinality(Connecting)
          /\ Cardinality(Connecting') <= Cardinality(PermitHolders')
      BY Zenon, <1>0, <2>2, <2>3, FS_Subset, FS_CardinalityType
    <2>4. Cardinality(PermitHolders) # 0
      BY Zenon, <1>0, <2>1, FS_EmptySet
    <2>5. CASE slots.established > 0
      <3>1. /\ slots'.halfOpen = slots.halfOpen
            /\ slots'.established = slots.established - 1
        BY Zenon, <1>0, <1>3, <2>5 DEF Close, ReleaseConnection, TypeOK
      <3> QED
        BY <1>0, <1>t, <2>2, <2>s, <3>1
    <2>6. CASE ~(slots.established > 0)
      <3>1. slots.halfOpen > 0 /\ slots.established = 0
        BY <1>0, <1>t, <2>4, <2>6
      <3>2. slots'.halfOpen = slots.halfOpen - 1 /\ slots'.established = 0
        BY <1>0, <1>3, <3>1 DEF Close, ReleaseConnection, TypeOK
      <3> QED
        BY <1>0, <1>t, <2>2, <2>s, <3>1, <3>2
    <2> QED
      BY Zenon, <2>5, <2>6
  <1>4. ASSUME UNCHANGED <<slots, phase>>
        PROVE  SlotAccounting' /\ HalfOpenCoversHandshakes'
    BY Zenon, <1>4 DEF PermitHolders, Connecting
  <1>5. ASSUME NEW w \in Workers, Deny(w)
        PROVE  UNCHANGED <<slots, phase>>
    BY Zenon, <1>5 DEF Deny
  <1>6. ASSUME NEW c \in Configs, SetConfig(c)
        PROVE  UNCHANGED <<slots, phase>>
    BY Zenon, <1>6 DEF SetConfig
  <1>7. CASE Tick \/ UNCHANGED vars
    <2>1. UNCHANGED <<slots, phase>>
      BY Zenon, <1>7 DEF Tick, vars
    <2> QED
      BY Zenon, <1>0, <1>4, <2>1
  <1> QED
    BY Zenon, <1>0, <1>1, <1>2, <1>3, <1>4, <1>5, <1>6, <1>7 DEF Next

LEMMA InvHolds == Spec => []Inv
  <1>1. Init => Inv
    <2> SUFFICES ASSUME Init PROVE Inv
      OBVIOUS
    <2>1. TypeOK
      BY Zenon, EmptySeq DEF Init, TypeOK, Phases
    <2>2. Connecting = {} /\ PermitHolders = {}
      BY Zenon DEF Init, Connecting, PermitHolders
    <2>3. slots.halfOpen = 0 /\ slots.established = 0
      BY Zenon DEF Init
    <2> QED
      BY <2>1, <2>2, <2>3, FS_EmptySet
      DEF Inv, SlotAccounting, HalfOpenCoversHandshakes, ActiveConnections
  <1> QED
    BY <1>1, InvPreserved, PTL DEF Spec

(* Permits and counters agree in every reachable state: no exit path of a  *)
(* download worker leaks a connection slot or returns it twice.            *)
THEOREM SlotsAccounted == Spec => []SlotAccounting
  BY InvHolds, PTL DEF Inv

(* The half-open counter is an upper bound of the real handshakes.         *)
THEOREM HandshakesCovered == Spec => []HalfOpenCoversHandshakes
  BY InvHolds, PTL DEF Inv

-----------------------------------------------------------------------------

(* Only an admission makes a worker connect.                               *)
LEMMA OnlyAdmitOpens ==
  ASSUME Inv, [Next]_vars,
         NEW w \in Workers, phase[w] = "idle", phase'[w] = "connecting"
  PROVE  Admit(w)
  <1> USE DEF Inv, TypeOK
  <1>1. ASSUME NEW v \in Workers, Admit(v)
        PROVE  Admit(w)
    BY Zenon, <1>1 DEF Admit
  <1>2. ASSUME NEW v \in Workers, Establish(v) \/ Close(v) \/ Deny(v)
        PROVE  FALSE
    BY Zenon, <1>2 DEF Establish, Close, Deny
  <1>3. ASSUME UNCHANGED phase
        PROVE  FALSE
    BY Zenon, <1>3
  <1>4. ASSUME NEW c \in Configs, SetConfig(c)
        PROVE  UNCHANGED phase
    BY Zenon, <1>4 DEF SetConfig
  <1>5. CASE Tick \/ UNCHANGED vars
    BY Zenon, <1>3, <1>5 DEF Tick, vars
  <1> QED
    BY Zenon, <1>1, <1>2, <1>3, <1>4, <1>5 DEF Next

(* try_acquire_connection() keeps all three limits of the configuration it *)
(* reads: the concurrent cap, the half-open cap and the cap per window.    *)
THEOREM AdmissionsWithinLimits == Spec => AdmissionWithinLimits
  <1> DEFINE Limits ==
        /\ config.maxConnections # 0 =>
              Cardinality(PermitHolders') <= config.maxConnections
        /\ config.maxHalfOpen # 0 =>
              Cardinality(Connecting') <= config.maxHalfOpen
        /\ config.maxPerWindow # 0 =>
              Len(Live(grants)') <= config.maxPerWindow
      Opens == \E w \in Workers : phase[w] = "idle" /\ phase'[w] = "connecting"
  <1>1. Inv /\ [Next]_vars => [Opens => Limits]_vars
    <2> SUFFICES ASSUME Inv, [Next]_vars, Opens
                 PROVE  Limits
      OBVIOUS
    <2>1. PICK w \in Workers : phase[w] = "idle" /\ phase'[w] = "connecting"
      OBVIOUS
    <2>2. Admit(w)
      BY Zenon, <2>1, OnlyAdmitOpens
    <2>3. PICK spike \in Spikes : ~TooManySockets(spike)
      BY Zenon, <2>2 DEF Admit
    <2>4. TypeOK /\ TypeOK' /\ Inv'
      BY Zenon, TypePreserved, InvPreserved DEF Inv
    <2>5. /\ config.maxConnections \in Nat
          /\ config.maxHalfOpen \in Nat
          /\ config.maxPerWindow \in Nat
          /\ slots.halfOpen \in Nat /\ slots.established \in Nat
      BY Zenon, <2>4, BudgetAssumption DEF TypeOK, ConfigType
    <2>6. /\ slots'.halfOpen = slots.halfOpen + 1
          /\ slots'.established = slots.established
      BY Zenon, <2>2, <2>4 DEF Admit, TypeOK
    <2>7. ASSUME config.maxConnections # 0
          PROVE  Cardinality(PermitHolders') <= config.maxConnections
      <3>1. Cardinality(PermitHolders') = slots.halfOpen + slots.established + 1
        BY <2>4, <2>5, <2>6 DEF Inv, SlotAccounting, ActiveConnections
      <3>2. slots.halfOpen + slots.established < config.maxConnections
        BY <2>3, <2>5, <2>7 DEF TooManySockets, ConcurrentCapReached, ActiveConnections
      <3> QED
        BY <2>5, <3>1, <3>2
    <2>8. ASSUME config.maxHalfOpen # 0
          PROVE  Cardinality(Connecting') <= config.maxHalfOpen
      <3>1. Cardinality(Connecting') \in Nat
        <4>1. Connecting' \in SUBSET Workers
          BY Zenon DEF Connecting
        <4> QED
          BY Zenon, <4>1, BudgetAssumption, FS_Subset, FS_CardinalityType
      <3>2. slots'.halfOpen >= Cardinality(Connecting')
        BY Zenon, <2>4 DEF Inv, HalfOpenCoversHandshakes
      <3>3. slots.halfOpen < config.maxHalfOpen
        BY <2>3, <2>5, <2>8 DEF TooManySockets, HalfOpenCapReached
      <3> QED
        BY <2>5, <2>6, <3>1, <3>2, <3>3
    <2>9. ASSUME config.maxPerWindow # 0
          PROVE  Len(Live(grants)') <= config.maxPerWindow
      <3>1. /\ Live(grants) \in Seq(0 .. Window)
            /\ Len(Live(grants)) \in Nat
        BY Zenon, <2>4, LiveShrinks DEF TypeOK
      <3>2. Len(grants') = Len(Live(grants)) + 1
        BY <2>2, <3>1, AppendProperties, BudgetAssumption DEF Admit
      <3>3. Live(grants)' = Live(grants')
        BY Zenon DEF Live
      <3>4. /\ Len(Live(grants')) \in Nat
            /\ Len(Live(grants')) <= Len(grants')
        BY Zenon, <2>4, LiveShrinks DEF TypeOK
      <3>5. spike \in Nat /\ spike >= 1
        BY <2>5 DEF Spikes, ActiveConnections
      <3>6. ~(5 * Len(Live(grants)) > EffectiveLimit5(spike))
        BY Zenon, <2>3, <2>9 DEF TooManySockets, WindowCapReached
      <3>7. Len(Live(grants)) < config.maxPerWindow
        <4> DEFINE n == Len(Live(grants))
        <4>1. n \in Nat
          BY Zenon, <3>1
        <4>2. ~(5 * n > EffectiveLimit5(spike))
          BY Zenon, <3>6
        <4> HIDE DEF n
        <4>3. n < config.maxPerWindow
          BY <2>5, <2>9, <3>5, <4>1, <4>2 DEF EffectiveLimit5
        <4> QED
          BY Zenon, <4>3 DEF n
      <3> QED
        BY <2>5, <3>1, <3>2, <3>3, <3>4, <3>7
    <2> QED
      BY Zenon, <2>7, <2>8, <2>9
  <1> QED
    BY <1>1, InvHolds, PTL DEF Spec, AdmissionWithinLimits
=============================================================================
