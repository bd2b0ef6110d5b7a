-------------------------- MODULE ConnectionBudget --------------------------
(***************************************************************************)
(* The global budget of outgoing source connections: the counters of       *)
(* Ed2kDownloadCoordinator, the RAII permit a download worker holds        *)
(* (Ed2kSourceConnectionPermit) and the worker's own progress from connect *)
(* to established to closed.  Every operation runs under the coordinator's *)
(* mutex, so it is one action; the workers interleave between operations.  *)
(*                                                                         *)
(* Time is the age of a grant in clock ticks.  The moving average behind   *)
(* MFC's spike suppressor is abstracted to "some value": the spike it      *)
(* yields ranges over everything an average of past counts can give.       *)
(***************************************************************************)
EXTENDS Integers, Sequences, FiniteSets

CONSTANTS
    Workers,        \* download workers, each for at most one connection
    Configs,        \* the configurations the settings may switch between
    Window          \* connection_window, in ticks

(* A configuration as the settings produce it; 0 switches a limit off.     *)
ConfigType ==
    [maxConnections: Nat, maxPerWindow: Nat, maxHalfOpen: Nat]

ASSUME BudgetAssumption ==
    /\ IsFiniteSet(Workers)
    /\ Configs \subseteq ConfigType
    /\ Configs # {}
    /\ Window \in Nat \ {0}

VARIABLES
    config,         \* Ed2kDownloadCoordinator.config
    slots,          \* half_open_connections and established_connections
    grants,         \* recent_connection_grants, as ages, oldest first
    phase           \* what each worker is really doing

vars == <<config, slots, grants, phase>>

Phases == {"idle", "connecting", "established"}

Connecting == {w \in Workers : phase[w] = "connecting"}
PermitHolders == {w \in Workers : phase[w] # "idle"}

-----------------------------------------------------------------------------
(* The coordinator's operations on its counters.                           *)

(* active_connections(): what the concurrent cap compares.                 *)
ActiveConnections == slots.halfOpen + slots.established

(* expire_connection_window(): aged-out grants leave from the front.       *)
Live(gs) ==
    SubSeq(gs, 1 + Cardinality({i \in 1 .. Len(gs) : gs[i] >= Window}), Len(gs))

(* effective_connection_window_limit(), times five: the configured limit   *)
(* less two fifths of the spike, and zero for a spike past the tolerance.  *)
EffectiveLimit5(spike) ==
    LET left == 5 * config.maxPerWindow - 2 * spike
    IN  IF left > 0 THEN left ELSE 0

(* The spikes an average between nothing and the present count can show.   *)
Spikes == 1 .. (IF ActiveConnections > 1 THEN ActiveConnections ELSE 1)

CapCheckedTooLate ==
    config.maxConnections # 0 /\ ActiveConnections > config.maxConnections

ConcurrentCapReached ==
    config.maxConnections # 0 /\ ActiveConnections >= config.maxConnections

WindowCapReached(spike) ==
    config.maxPerWindow # 0 /\ 5 * Len(Live(grants)) > EffectiveLimit5(spike)

HalfOpenCapReached ==
    config.maxHalfOpen # 0 /\ slots.halfOpen >= config.maxHalfOpen

(* try_acquire_connection()'s three refusals.                              *)
TooManySockets(spike) ==
    \/ ConcurrentCapReached
    \/ WindowCapReached(spike)
    \/ HalfOpenCapReached

(* mark_connection_established(): a no-op when nothing is half-open.       *)
MarkConnectionEstablished(s) ==
    IF s.halfOpen > 0
    THEN [halfOpen |-> s.halfOpen - 1, established |-> s.established + 1]
    ELSE s

LeakHalfOpenSlot(s) ==
    IF s.established > 0
    THEN [s EXCEPT !.established = @ - 1]
    ELSE s

(* release_connection(): the established bucket first, whatever the        *)
(* connection that closed had reached; both decrements saturate.           *)
ReleaseConnection(s) ==
    IF s.established > 0
    THEN [s EXCEPT !.established = @ - 1]
    ELSE [s EXCEPT !.halfOpen = IF @ > 0 THEN @ - 1 ELSE 0]

-----------------------------------------------------------------------------

Init ==
    /\ config \in Configs
    /\ slots = [halfOpen |-> 0, established |-> 0]
    /\ grants = <<>>
    /\ phase = [w \in Workers |-> "idle"]

(* try_admit_source_connection() grants the slot: the worker owns a permit *)
(* and starts to connect.                                                  *)
Admit(w) ==
    /\ phase[w] = "idle"
    /\ \E spike \in Spikes : ~TooManySockets(spike)
    /\ slots' = [slots EXCEPT !.halfOpen = @ + 1]
    /\ grants' = Append(Live(grants), 0)
    /\ phase' = [phase EXCEPT ![w] = "connecting"]
    /\ UNCHANGED config

(* The slot is refused: the source stays pending for the next round.       *)
Deny(w) ==
    /\ phase[w] = "idle"
    /\ \E spike \in Spikes : TooManySockets(spike)
    /\ grants' = Live(grants)
    /\ UNCHANGED <<config, slots, phase>>

(* The connect succeeded: the session calls mark_connection_established(). *)
Establish(w) ==
    /\ phase[w] = "connecting"
    /\ phase' = [phase EXCEPT ![w] = "established"]
    /\ slots' = MarkConnectionEstablished(slots)
    /\ UNCHANGED <<config, grants>>

(* The worker ends, on any path: the permit's Drop releases the slot.      *)
Close(w) ==
    /\ phase[w] # "idle"
    /\ phase' = [phase EXCEPT ![w] = "idle"]
    /\ slots' = ReleaseConnection(slots)
    /\ UNCHANGED <<config, grants>>

(* set_config(): a live settings update; the counters stay.                *)
SetConfig(c) ==
    /\ config' = c
    /\ UNCHANGED <<slots, grants, phase>>

(* The clock: ages saturate at Window, where only expiry looks at them.    *)
Tick ==
    /\ grants' = [i \in 1 .. Len(grants) |->
                      IF grants[i] < Window THEN grants[i] + 1 ELSE Window]
    /\ UNCHANGED <<config, slots, phase>>

Next ==
    \/ \E w \in Workers : Admit(w) \/ Deny(w) \/ Establish(w) \/ Close(w)
    \/ \E c \in Configs : SetConfig(c)
    \/ Tick

Spec == Init /\ [][Next]_vars

-----------------------------------------------------------------------------
(* Properties.                                                             *)

(* Every variable keeps its type; no counter underflows.                   *)
TypeOK ==
    /\ config \in Configs
    /\ slots \in [halfOpen: Nat, established: Nat]
    /\ grants \in Seq(0 .. Window)
    /\ phase \in [Workers -> Phases]

(* The two counters add up to the permits that are alive: a slot is        *)
(* neither leaked nor given back twice, whatever order workers end in.     *)
SlotAccounting ==
    ActiveConnections = Cardinality(PermitHolders)

(* The half-open count never falls below the handshakes really in flight:  *)
(* release_connection() guesses the bucket, and is wrong in one direction  *)
(* only, so the half-open cap still bounds the real handshakes.            *)
HalfOpenCoversHandshakes ==
    slots.halfOpen >= Cardinality(Connecting)

(* A step that opens a connection respects the three limits of the         *)
(* configuration in force, counted on what the workers really do.          *)
AdmissionWithinLimits ==
    [][(\E w \in Workers : phase[w] = "idle" /\ phase'[w] = "connecting") =>
          /\ config.maxConnections # 0 =>
                Cardinality(PermitHolders') <= config.maxConnections
          /\ config.maxHalfOpen # 0 =>
                Cardinality(Connecting') <= config.maxHalfOpen
          /\ config.maxPerWindow # 0 =>
                Len(Live(grants)') <= config.maxPerWindow]_vars

=============================================================================
