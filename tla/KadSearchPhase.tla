--------------------------- MODULE KadSearchPhase ---------------------------
(***************************************************************************)
(* Phase 2 of a Kademlia traversal (kad-dht/traversal.rs run_search_phase) *)
(* and the deadlines that run_traversal gives the two phases.  After the   *)
(* lookup one task walks the closest eligible responders, one search       *)
(* packet per tick, until the emit deadline, and takes results until the   *)
(* response deadline.                                                      *)
(*                                                                         *)
(* Time is discrete.  Timers may be noticed up to Lag late, and a send may *)
(* wait up to MaxSend for the RPC layer's budget.                          *)
(***************************************************************************)
EXTENDS Naturals, FiniteSets, FiniteSetsExt

CONSTANTS
  Timeouts,       \* active lifetimes a search may be given
  Fanouts,        \* phase-2 fanouts
  MaxResponders,  \* responders the lookup may end with
  ResponseGrace,  \* time after the emit deadline in which results count
  QueryTimeout,   \* one REQ/RES round trip
  IdleGrace,      \* SEARCH_JUMPSTART_IDLE_GRACE
  Tick,           \* SEARCH_JUMPSTART_TICK
  Margin,         \* JUMPSTART_DEADLINE_MARGIN
  Lag, MaxSend,
  Absent          \* no lookup response

VARIABLES
  search,     \* what run_traversal was given: [timeout, fanout]
  lookup,     \* how phase 1 ended: [last response, responders, eligible ones]
  now,
  cancelled,
  pc,         \* "lookup", "top", "drain", "done"
  pending,    \* eligible responders still to be asked, 1 the closest
  nextEmit,
  attempted, sent,
  reason,     \* KadSearchTerminalReason
  late,       \* time lost to slow sends and late timers
  after       \* packets attempted after the cancellation

vars == <<search, lookup, now, cancelled, pc, pending, nextEmit, attempted, sent,
          reason, late, after>>

Less(a, b) == IF a > b THEN a - b ELSE 0

EmitDeadline == search.timeout
ResponseDeadline == search.timeout + ResponseGrace

-----------------------------------------------------------------------------
\* lookup_deadline_for_search, for the kinds that have a second phase.
DesiredReserve(s) == QueryTimeout + IdleGrace + Tick * (Max({s.fanout, 1}) - 1)

LookupFloor(s) == Min({QueryTimeout, s.timeout \div 2})

LookupDeadlineOneContact(s) ==
  s.timeout - Min({QueryTimeout + IdleGrace, Less(s.timeout, LookupFloor(s))})

LookupDeadline(s) ==
  s.timeout - Min({DesiredReserve(s), Less(s.timeout, LookupFloor(s))})

InitialEmit(last, time) ==
  IF last = Absent THEN time
  ELSE Max({time, Min({Max({last + IdleGrace, time}), Less(EmitDeadline, Margin)})})

\* select_phase2_contacts: the closest eligible responders, up to the fanout.
Selected == 1 .. Min({lookup.eligible, search.fanout})

-----------------------------------------------------------------------------
(***************************************************************************)
(* The lookup ended somewhere within its deadline, with some responders of *)
(* which some pass the search tolerance (passes_search_tolerance).         *)
(***************************************************************************)
Init ==
  /\ search \in [timeout : Timeouts, fanout : Fanouts]
  /\ \E responded \in 0 .. MaxResponders, end \in 0 .. LookupDeadline(search) :
       \E eligible \in 0 .. responded,
          last \in IF responded = 0 THEN {Absent} ELSE 0 .. end :
         /\ lookup = [responded |-> responded, eligible |-> eligible, last |-> last]
         /\ now = end
  /\ cancelled = FALSE
  /\ pc = "lookup"
  /\ pending = {} /\ nextEmit = 0
  /\ attempted = {} /\ sent = {}
  /\ reason = "none"
  /\ late = 0 /\ after = 0

Finish(r) == pc' = "done" /\ reason' = r

Enter ==
  /\ pc = "lookup"
  /\ \/ cancelled /\ Finish("Cancelled") /\ UNCHANGED <<pending, nextEmit>>
     \/ /\ ~cancelled /\ now >= ResponseDeadline
        /\ Finish("Phase2DeadlineElapsed") /\ UNCHANGED <<pending, nextEmit>>
     \/ /\ ~cancelled /\ now < ResponseDeadline /\ Selected = {}
        /\ Finish(IF lookup.responded = 0 THEN "NoRespondingContacts"
                                          ELSE "NoEligibleSearchContacts")
        /\ UNCHANGED <<pending, nextEmit>>
     \/ /\ ~cancelled /\ now < ResponseDeadline /\ Selected # {}
        /\ pc' = "top"
        /\ pending' = Selected
        /\ nextEmit' = InitialEmit(lookup.last, now)
        /\ UNCHANGED reason
  /\ UNCHANGED <<search, lookup, now, cancelled, attempted, sent, late, after>>

TerminalReason ==
  CASE cancelled -> "Cancelled"
    [] ~cancelled /\ sent = {} /\ attempted # {} -> "Phase2SendFailed"
    [] ~cancelled /\ sent = {} /\ attempted = {} -> "Phase2DeadlineElapsed"
    [] OTHER -> "Completed"

\* The top of the loop.
Top ==
  /\ pc = "top"
  /\ IF cancelled \/ now >= ResponseDeadline
     THEN Finish(TerminalReason) /\ UNCHANGED pending
     ELSE /\ pc' = "drain"
          /\ pending' = IF now >= EmitDeadline THEN {} ELSE pending
          /\ UNCHANGED reason
  /\ UNCHANGED <<search, lookup, now, cancelled, nextEmit, attempted, sent, late, after>>

ReceiveUntil ==
  IF pending = {} THEN ResponseDeadline
  ELSE Min({nextEmit, EmitDeadline, ResponseDeadline})

Clock ==
  /\ pc = "drain" /\ ~cancelled
  /\ now < ReceiveUntil + Lag
  /\ now' = now + 1
  /\ late' = IF now >= ReceiveUntil THEN late + 1 ELSE late
  /\ UNCHANGED <<search, lookup, cancelled, pc, pending, nextEmit, attempted, sent, reason, after>>

Drained == pc = "drain" /\ (cancelled \/ now >= ReceiveUntil)

Stop ==
  /\ Drained /\ now >= ResponseDeadline
  /\ Finish(TerminalReason)
  /\ UNCHANGED <<search, lookup, now, cancelled, pending, nextEmit, attempted, sent, late, after>>

StopEmitting ==
  /\ Drained /\ now < ResponseDeadline /\ now >= EmitDeadline
  /\ pending' = {}
  /\ pc' = "top"
  /\ UNCHANGED <<search, lookup, now, cancelled, nextEmit, attempted, sent, reason, late, after>>

EmitDue == pending # {} /\ now >= nextEmit

Again ==
  /\ Drained /\ now < ResponseDeadline /\ now < EmitDeadline
  /\ ~EmitDue
  /\ pc' = "top"
  /\ UNCHANGED <<search, lookup, now, cancelled, pending, nextEmit, attempted, sent, reason, late, after>>

\* emit_next_search_packet: registers the contact, sends, and schedules the next slot.
Emit ==
  /\ Drained /\ now < ResponseDeadline /\ now < EmitDeadline
  /\ EmitDue
  /\ \E delay \in 0 .. MaxSend, ok \in BOOLEAN :
       LET c == Min(pending)
       IN /\ pending' = pending \ {c}
          /\ attempted' = attempted \cup {[to |-> c, at |-> now]}
          /\ sent' = IF ok THEN sent \cup {c} ELSE sent
          /\ now' = now + delay
          /\ late' = late + delay
          /\ nextEmit' = now' + Tick
  /\ after' = IF cancelled THEN after + 1 ELSE after
  /\ pc' = "top"
  /\ UNCHANGED <<search, lookup, cancelled, reason>>

Cancel ==
  /\ pc # "done" /\ ~cancelled
  /\ cancelled' = TRUE
  /\ UNCHANGED <<search, lookup, now, pc, pending, nextEmit, attempted, sent, reason, late, after>>

Step == Enter \/ Top \/ Clock \/ Stop \/ StopEmitting \/ Again \/ Emit

Next == Step \/ Cancel

Spec == Init /\ [][Next]_vars

-----------------------------------------------------------------------------
TypeOK ==
  /\ search \in [timeout : Timeouts, fanout : Fanouts]
  /\ lookup.eligible \in 0 .. lookup.responded
  /\ now \in Nat /\ nextEmit \in Nat /\ late \in Nat /\ after \in Nat
  /\ cancelled \in BOOLEAN
  /\ pc \in {"lookup", "top", "drain", "done"}
  /\ pending \subseteq 1 .. MaxResponders /\ sent \subseteq 1 .. MaxResponders
  /\ attempted \subseteq [to : 1 .. MaxResponders, at : Nat]
  /\ reason \in {"none", "Cancelled", "Phase2DeadlineElapsed", "Phase2SendFailed", "Completed",
                 "NoRespondingContacts", "NoEligibleSearchContacts"}

(***************************************************************************)
(* "Clamp the first emit before the deadline so the closest responders are *)
(* always queried": however late the lookup ended and whatever its last    *)
(* response, a search that is not cancelled asks at least the closest      *)
(* eligible responder, as long as timers are noticed within the margin.    *)
(***************************************************************************)
AlwaysQueried ==
  (pc = "done" /\ ~cancelled /\ lookup.eligible > 0 /\ search.fanout > 0) =>
    \E a \in attempted : a.to = 1

(***************************************************************************)
(* lookup_deadline_for_search reserves enough of a normal lifetime to walk *)
(* the whole fanout and leave each contact a response window of            *)
(* QueryTimeout, less what slow sends and late timers cost.                *)
(***************************************************************************)
Reserved == search.timeout >= DesiredReserve(search) + LookupFloor(search)

FanoutWalked ==
  (pc = "done" /\ ~cancelled /\ Reserved /\ late < QueryTimeout) =>
    /\ {a.to : a \in attempted} = Selected
    /\ \A a \in attempted : a.at + QueryTimeout <= EmitDeadline + late

(***************************************************************************)
(* A cancelled search stops: the drain ends at once, but the packet whose  *)
(* slot has come is still sent, and no other.                              *)
(***************************************************************************)
CancelStops == after <= 1

(***************************************************************************)
(* The terminal reason tells what was sent: "Completed" means that some    *)
(* packet went out, and an uncancelled search that sent nothing says       *)
(* whether nobody could be asked, no slot came, or every send failed.      *)
(***************************************************************************)
ReasonTruthful ==
  pc = "done" =>
    /\ reason = "Completed" <=> (~cancelled /\ sent # {})
    /\ reason = "Phase2SendFailed" => attempted # {} /\ sent = {}
    /\ (reason \in {"NoRespondingContacts", "NoEligibleSearchContacts"}) => attempted = {}
    /\ (~cancelled /\ lookup.eligible > 0) => reason \in {"Completed", "Phase2SendFailed"}

=============================================================================
