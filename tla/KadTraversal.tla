---------------------------- MODULE KadTraversal ----------------------------
(***************************************************************************)
(* The lookup phase of one Kademlia traversal (kad-dht/traversal.rs,       *)
(* run_lookup_phase) and the one-answer node refresh lookup                *)
(* (traversal/refresh.rs).  One task keeps candidates sorted by XOR        *)
(* distance, keeps up to Alpha requests in flight to the closest untried   *)
(* ones, and inserts what the answers name.  The task only waits for the   *)
(* next finished request, so a step is: one request finishes, its handler  *)
(* runs, and the next turn of the loop launches what it may.               *)
(*                                                                         *)
(* A contact is its XOR distance to the target: smaller is closer, and     *)
(* distinct identifiers have distinct distances.  Answers come from the    *)
(* environment: any contact may fail, answer late or never, or answer with *)
(* any sequence of Replies(c), over-long ones included.                    *)
(***************************************************************************)
EXTENDS Naturals, Sequences, FiniteSets, FiniteSetsExt, SequencesExt

CONSTANTS
  Contacts,     \* distances of the contacts that exist
  Seeds,        \* routing-table contacts the traversal starts from
  Kind,         \* "node", "store", "buddy", "value" or "refresh"
  Mode,         \* MoreResultsMode: "recovery" or "maximize"
  Alpha,        \* requests in flight at once (ALPHA)
  K,            \* routing bucket size (K)
  Fanout,       \* configured phase-2 fanout
  FindNode,     \* KADEMLIA_FIND_NODE, also KADEMLIA_FIND_VALUE_MORE
  Store,        \* KADEMLIA_STORE
  FindValue,    \* KADEMLIA_FIND_VALUE
  MoreReasks,   \* KADEMLIA_FIND_VALUE_MORE_REASKS
  Fit,          \* contacts whose entry passes version, port and IP filter
  Host,         \* IP address of a contact
  Net,          \* /24 of a contact
  Replies(_),   \* contact sequences a contact may answer with
  Mortal        \* contacts that may fail to answer

TraversalAssumption ==
  /\ Seeds \subseteq Contacts /\ Contacts \subseteq Nat \ {0}
  /\ Kind \in {"node", "store", "buddy", "value", "refresh"}
  /\ Mode \in {"recovery", "maximize"}
  /\ Alpha \in Nat \ {0} /\ K \in Nat \ {0}

VARIABLES
  cand,     \* the candidates, by state
  flight,   \* requests in flight: the contact asked, and whether for MORE
  asked,    \* more_asked: contacts asked for the wider answer
  phase,    \* "start", "walking", then how the lookup ended
  yielded   \* MoreResultsStats::yielded_contacts

vars == <<cand, flight, asked, phase, yielded>>

CandidateState == {"pending", "inflight", "responded", "failed"}
Ended == {"converged", "exhausted", "answered", "deadline"}

Tried(c) == c.inflight \cup c.responded \cup c.failed
Known(c) == c.pending \cup Tried(c)

\* set_candidate_state: contacts S move to a state.
Move(c, S, state) ==
  LET To(s) == IF s = state THEN c[s] \cup S ELSE c[s] \ S
  IN [pending |-> To("pending"), inflight |-> To("inflight"),
      responded |-> To("responded"), failed |-> To("failed")]

\* The n closest members of S.
Closest(S, n) == {x \in S : Cardinality({y \in S : y < x}) < n}

Less(a, b) == IF a > b THEN a - b ELSE 0

-----------------------------------------------------------------------------
\* traversal_closest_limit, req_count_for_kind and reask_limit.
ClosestLimit == IF Kind = "node" \/ Fanout < K THEN K ELSE Fanout

ReqCount ==
  CASE Kind \in {"node", "refresh"} -> FindNode
    [] Kind \in {"store", "buddy"} -> Store
    [] OTHER -> FindValue

ReaskLimit == IF Mode = "recovery" THEN 1 ELSE MoreReasks

-----------------------------------------------------------------------------
(***************************************************************************)
(* sanitize_res_contacts: unfit entries, repeated hosts (the responder's   *)
(* counts as seen) and entries beyond two of a /24 (the responder counts   *)
(* as one) are skipped; an over-long answer is dropped as a whole.         *)
(***************************************************************************)
SeenTwice(a, n) == Cardinality({x \in a.kept : Net[x] = n}) + (IF a.net = n THEN 1 ELSE 0) >= 2

SanitizeEntry(a, x) ==
  CASE x \notin Fit \/ Host[x] \in a.hosts -> a
    [] OTHER -> [a EXCEPT !.hosts = @ \cup {Host[x]},
                          !.kept = IF SeenTwice(a, Net[x]) THEN @ ELSE @ \cup {x}]

Sanitized(responder, entries) ==
  FoldLeft(SanitizeEntry,
           [hosts |-> {Host[responder]}, net |-> Net[responder], kept |-> {}],
           entries).kept

\* A wider answer is admitted only from a contact asked for MORE.
MaxContacts(c) == IF c \in asked THEN FindNode ELSE ReqCount

NewContactsKnown(c, entries) ==
  IF Len(entries) > MaxContacts(c) THEN {} ELSE Sanitized(c, entries)

NewContacts(c, entries) ==
  IF Len(entries) > MaxContacts(c) THEN {}
  ELSE Sanitized(c, entries) \ Known(cand)

-----------------------------------------------------------------------------
\* find_node_lookup_converged: K responders, nothing unfinished among them.
NodeConverged(c) ==
  LET best == Closest(c.responded, K)
  IN /\ Cardinality(best) = K
     /\ \A x \in c.pending \cup c.inflight : x > Max(best)

StoreHasFanout(c) == Cardinality(c.responded) >= ClosestLimit

\* lookup_phase_done
FrontierTriedLoosely(c) == c.inflight = {}

FrontierTried(c) ==
  /\ Closest(Known(c), ClosestLimit) \subseteq c.responded \cup c.failed
  /\ c.inflight = {}

LookupDone(c) ==
  \/ Kind = "node" /\ NodeConverged(c)
  \/ Kind = "store" /\ StoreHasFanout(c)
  \/ FrontierTried(c)

(***************************************************************************)
(* select_reask_more_target: enough contacts tried and the closest tried   *)
(* ones all dead, the closest responder is asked for more.                 *)
(***************************************************************************)
ReaskTarget(c) ==
  IF /\ ReqCount = FindValue
     /\ Cardinality(Tried(c)) >= 3 * FindValue
     /\ Closest(Tried(c), FindValue) \subseteq c.failed
  THEN Closest(c.responded, 1)
  ELSE {}

\* select_more_results_targets
MoreTargets(st, limit) ==
  IF ReqCount = FindValue THEN Closest(st.cand.responded \ st.asked, limit) ELSE {}

-----------------------------------------------------------------------------
(***************************************************************************)
(* One turn of the loop up to its wait: launch_pending_queries, the        *)
(* recovery reask (once), and the wider reasks of a converged public       *)
(* search.  st is the loop's local state.                                  *)
(***************************************************************************)
Query(S, more) == {[to |-> x, more |-> more] : x \in S}

AskMore(st, targets) ==
  [st EXCEPT !.flight = @ \cup Query(targets, TRUE), !.asked = @ \cup targets]

LaunchPending(st) ==
  LET next == Closest(st.cand.pending, Less(Alpha, Cardinality(st.flight)))
  IN [st EXCEPT !.cand = Move(@, next, "inflight"),
                !.flight = @ \cup Query(next, FALSE)]

RecoveryReask(st) == IF st.asked = {} THEN AskMore(st, ReaskTarget(st.cand)) ELSE st

WiderReasks(st) ==
  IF Mode = "maximize" /\ LookupDone(st.cand)
  THEN AskMore(st, MoreTargets(st, Min({Less(Alpha, Cardinality(st.flight)),
                                        Less(ReaskLimit, Cardinality(st.asked))})))
  ELSE st

Turn(st) == WiderReasks(RecoveryReask(LaunchPending(st)))

\* abort_all: a lookup that ends forgets its requests.
Finish(st, how) ==
  /\ cand' = st.cand /\ asked' = st.asked
  /\ flight' = {}
  /\ phase' = how

Continue(st) ==
  LET t == Turn(st)
  IN IF t.flight = {} THEN Finish(t, "exhausted")
     ELSE /\ cand' = t.cand /\ flight' = t.flight /\ asked' = t.asked
          /\ phase' = "walking"

\* The check after a handled response; in maximize mode a reask still possible goes on.
AfterResponse(st) ==
  IF /\ st.flight = {} /\ LookupDone(st.cand)
     /\ Mode = "maximize" => MoreTargets(st, 1) = {}
  THEN Finish(st, "converged")
  ELSE Continue(st)

-----------------------------------------------------------------------------
Init ==
  /\ cand = [pending |-> Seeds, inflight |-> {}, responded |-> {}, failed |-> {}]
  /\ flight = {} /\ asked = {}
  /\ phase = "start"
  /\ yielded = 0

Local == [cand |-> cand, flight |-> flight, asked |-> asked]

Begin ==
  /\ phase = "start" /\ Kind # "refresh"
  /\ Continue(Local)
  /\ UNCHANGED yielded

\* handle_lookup_response, RES: the responder counts even when its list is dropped.
Answered(q, entries) ==
  LET new == NewContacts(q.to, entries)
  IN /\ phase = "walking" /\ Kind # "refresh"
     /\ AfterResponse([Local EXCEPT
          !.cand = Move(Move(@, {q.to}, "responded"), new, "pending"),
          !.flight = @ \ {q}])
     /\ yielded' = yielded + (IF q.to \in asked THEN Cardinality(new) ELSE 0)

\* handle_lookup_response, error or unexpected packet: a MORE failure erases nothing.
Failed(q) ==
  /\ phase = "walking" /\ Kind # "refresh"
  /\ AfterResponse([Local EXCEPT !.cand = IF q.to \in asked THEN @ ELSE Move(@, {q.to}, "failed"),
                                 !.flight = @ \ {q}])
  /\ UNCHANGED yielded

-----------------------------------------------------------------------------
(***************************************************************************)
(* run_node_refresh_lookup: one REQ to the closest candidate, one more per *)
(* tick while nobody answers, and the first good RES ends the walk.        *)
(***************************************************************************)
\* send_next_refresh_req
SendNext(next) ==
  /\ cand' = Move(cand, next, "inflight")
  /\ flight' = flight \cup Query(next, FALSE)

RefreshBegin ==
  /\ phase = "start" /\ Kind = "refresh"
  /\ SendNext(Closest(cand.pending, 1))
  /\ phase' = IF Seeds = {} THEN "exhausted" ELSE "walking"
  /\ UNCHANGED <<asked, yielded>>

RefreshTick ==
  /\ phase = "walking" /\ Kind = "refresh"
  /\ SendNext(Closest(cand.pending, 1))
  /\ phase' = IF flight' = {} THEN "exhausted" ELSE phase
  /\ UNCHANGED <<asked, yielded>>

\* handle_refresh_join: an over-long RES counts as a failure, unlike above.
RefreshFailed(q) ==
  /\ phase = "walking" /\ Kind = "refresh"
  /\ cand' = Move(cand, {q.to}, "failed")
  /\ flight' = flight \ {q}
  /\ phase' = IF flight' = {} /\ cand'.pending = {} THEN "exhausted" ELSE phase
  /\ UNCHANGED <<asked, yielded>>

RefreshAnswered(q, entries) ==
  /\ phase = "walking" /\ Kind = "refresh"
  /\ Len(entries) <= FindNode
  /\ Finish([Local EXCEPT !.cand = Move(@, {q.to}, "responded")], "answered")
  /\ UNCHANGED yielded

\* The lifetime, the lookup deadline or the cancellation token ends either walk.
Deadline ==
  /\ phase = "walking"
  /\ Finish(Local, "deadline")
  /\ UNCHANGED yielded

-----------------------------------------------------------------------------
Response ==
  \E q \in flight :
    \/ \E entries \in Replies(q.to) :
         \/ Answered(q, entries)
         \/ RefreshAnswered(q, entries)
         \/ Len(entries) > FindNode /\ RefreshFailed(q)
    \/ q.to \in Mortal /\ (Failed(q) \/ RefreshFailed(q))

Walk == Begin \/ RefreshBegin \/ Response \/ RefreshTick

Next == Walk \/ Deadline

Spec == Init /\ [][Next]_vars

-----------------------------------------------------------------------------
TypeOK ==
  /\ cand \in [CandidateState -> SUBSET Contacts]
  /\ \A s, t \in CandidateState : s # t => cand[s] \cap cand[t] = {}
  /\ flight \subseteq [to : Contacts, more : BOOLEAN]
  /\ asked \subseteq Contacts
  /\ phase \in {"start", "walking"} \cup Ended
  /\ yielded \in 0 .. Cardinality(Contacts)

(***************************************************************************)
(* A lookup that ends by itself leaves no contact untried that is closer   *)
(* than the ClosestLimit tried ones in front of it: lookup_phase_done does *)
(* not stop on a frontier that a late answer has just moved.  A store      *)
(* lookup may also stop on ClosestLimit responders.                        *)
(***************************************************************************)
FrontierSettled ==
  (phase \in {"converged", "exhausted"}) =>
    \A x \in cand.pending :
      \/ Cardinality({y \in Tried(cand) : y < x}) >= ClosestLimit
      \/ Kind = "store" /\ Cardinality(cand.responded) >= ClosestLimit

(***************************************************************************)
(* The wider FIND_VALUE_MORE request goes to at most reask_limit distinct  *)
(* contacts, each of which did answer, and its failure never turns an      *)
(* answering contact into a dead one, so phase 2 can still use it.         *)
(***************************************************************************)
WiderOnlyFromResponders ==
  /\ Cardinality(asked) <= ReaskLimit
  /\ asked \subseteq cand.responded

(***************************************************************************)
(* "Keep the shared ALPHA ceiling across normal and wider REQs."           *)
(***************************************************************************)
AlphaCeiling == Cardinality(flight) <= Alpha

(***************************************************************************)
(* One answer never adds more candidates than were asked for, nor more     *)
(* than two of one /24, nor a second one of the responder's own host: a    *)
(* single contact cannot take over the frontier (sanitize_res_contacts).   *)
(***************************************************************************)
NoTakeover ==
  \A q \in flight \ flight' :
       LET new == Known(cand') \ Known(cand)
       IN /\ Cardinality(new) <= IF q.more THEN FindNode ELSE ReqCount
          /\ \A x \in new : /\ Cardinality({y \in new : Net[y] = Net[x]}) <= 2
                            /\ Host[x] # Host[q.to]

(***************************************************************************)
(* In a network where every contact answers and knows someone closer than  *)
(* itself, a lookup that ends by itself has found the closest contact of   *)
(* all: what a search needs to reach the holders of a key.                 *)
(***************************************************************************)
FindsNearest ==
  (phase \in {"converged", "exhausted"}) => Min(Contacts) \in cand.responded

(***************************************************************************)
(* A refresh lookup stops at its first good RES, and gives up by itself    *)
(* only when every candidate has been tried and none answered.             *)
(***************************************************************************)
RefreshStopsOnAnswer ==
  /\ phase = "walking" => cand.responded = {}
  /\ phase = "answered" => Cardinality(cand.responded) = 1
  /\ phase = "exhausted" => Known(cand) = cand.failed

(***************************************************************************)
(* Whatever the answers say, every step of a walk uses up something that   *)
(* cannot come back (an untried contact, a reask, a request in flight), so *)
(* no answer can keep a lookup going; and a walk that waits has a request  *)
(* to wait for.                                                            *)
(***************************************************************************)
Effort == 3 * Cardinality(Contacts \ Tried(cand)) + 3 * (ReaskLimit - Cardinality(asked))
            + Cardinality(flight)

UsesUpEffort == phase' = "walking" => Effort' < Effort /\ flight' # {}
=============================================================================
