------------------------------- MODULE KadRpc -------------------------------
(***************************************************************************)
(* The Kad RPC manager (kad-net/rpc.rs, rpc/outbound.rs,                   *)
(* rpc/receive_loop.rs, tracker/outbound.rs).  Request futures register a  *)
(* pending entry, wait for the rate limiters, send, and wait for the       *)
(* answer; they may time out or be dropped at any await.  One receive loop *)
(* matches datagrams with the pending entries by endpoint and opcode, or   *)
(* with the list of recently sent requests, and broadcasts the rest.  An   *)
(* operator pauses and resumes Kad.                                        *)
(*                                                                         *)
(* Each lock is taken and released inside one step.  Datagrams may be      *)
(* lost, delayed, reordered and duplicated.  Decoding, obfuscation and     *)
(* flood control (KadFlood) are not part of this module.                   *)
(***************************************************************************)
EXTENDS Naturals, Sequences, FiniteSets, SequencesExt

CONSTANTS
  Requests,       \* calls of request_with_class
  Peer,           \* endpoint asked: [ip, port]
  Op,             \* request opcode: "req", "key" or "source"
  ReplyPorts,     \* ports the answer may come from
  MaxDatagrams,   \* bound: datagrams the receive loop handles
  MaxStops,       \* bound: times the operator pauses Kad
  Absent

VARIABLES
  enabled,      \* kad_enabled
  pending,      \* pending requests, oldest first
  call,         \* progress of each request future
  outcome,      \* what its caller got
  answer,       \* the request whose answer its channel holds, or Absent
  tracked,      \* OutboundRequestTracker entries, newest first
  replies,      \* requests the peer has answered: their datagrams may arrive
  loop,         \* the receive loop: where it is, its datagram and what it matched
  handled,      \* datagrams handled
  contact,      \* last_contact_at is set
  stop,         \* operator: "running", "flagged", "cleared", "stopped"
  stops,
  \* what really happened, for the properties
  sent,         \* requests whose packet was given to the socket
  accepted,     \* datagrams accepted
  broadcast     \* answers given to the subscribers

rpcVars == <<enabled, pending, call, outcome, answer, tracked, replies, loop, handled,
          contact, stop, stops, sent, accepted, broadcast>>

Calls == <<pending, call, outcome, answer>>
Truth == <<sent, accepted, broadcast>>
Operator == <<enabled, contact, stop, stops>>

\* expected_opcode: every publish is answered by PUBLISH_RES.
Expected(op) == IF op = "req" THEN "res" ELSE "publish_res"

\* tracked_request_opcode_for_response: opcodes an answer may belong to, in order.
Asking(response) == IF response = "res" THEN <<"req">> ELSE <<"key", "source">>

Live == {"inserted", "limited", "recorded", "sent", "expired"}
Idle == [at |-> "idle", of |-> Absent, from |-> Absent, match |-> Absent]

\* The entries other than r's; a request has one at most.
Without(seq, r) ==
  IF r \in Range(seq) THEN RemoveAt(seq, CHOOSE i \in DOMAIN seq : seq[i] = r) ELSE seq

RpcAssumption == IsFiniteSet(Requests) /\ Absent \notin Requests

-----------------------------------------------------------------------------
RpcInit ==
  /\ enabled = TRUE
  /\ pending = <<>>
  /\ call = [r \in Requests |-> "new"]
  /\ outcome = [r \in Requests |-> "none"]
  /\ answer = [r \in Requests |-> Absent]
  /\ tracked = <<>>
  /\ replies = {}
  /\ loop = Idle /\ handled = 0
  /\ contact = FALSE
  /\ stop = "running" /\ stops = 0
  /\ sent = {} /\ accepted = 0 /\ broadcast = 0

Towards(r, at) == call' = [call EXCEPT ![r] = at]

\* (A cancelled future whose entry stays.)
EndLeaking(r, result) ==
  /\ Towards(r, "done")
  /\ outcome' = [outcome EXCEPT ![r] = result]
  /\ answer' = [answer EXCEPT ![r] = Absent]
  /\ pending' = IF result = "aborted" THEN pending ELSE Without(pending, r)

\* PendingGuard: however the future ends, its entry leaves with it.
End(r, result) ==
  /\ Towards(r, "done")
  /\ outcome' = [outcome EXCEPT ![r] = result]
  /\ pending' = Without(pending, r)
  /\ answer' = [answer EXCEPT ![r] = Absent]

\* request_with_class looks at kad_enabled ...
Check(r) ==
  /\ call[r] = "new"
  /\ IF enabled THEN Towards(r, "checked") /\ UNCHANGED <<outcome, pending, answer>>
     ELSE End(r, "stopped")
  /\ UNCHANGED <<tracked, replies, loop, handled, Operator, Truth>>

\* ... and inserts the pending entry.
Insert(r) ==
  /\ call[r] = "checked"
  /\ Towards(r, "inserted")
  /\ pending' = Append(pending, r)
  /\ UNCHANGED <<outcome, answer, tracked, replies, loop, handled, Operator, Truth>>

\* send_with_class_for_request looks again, then waits for the two rate limiters.
Limit(r) ==
  /\ call[r] = "inserted"
  /\ IF enabled THEN Towards(r, "limited") /\ UNCHANGED <<outcome, pending, answer>>
     ELSE End(r, "stopped")
  /\ UNCHANGED <<tracked, replies, loop, handled, Operator, Truth>>

\* OutboundRequestTracker::record
Record(r) ==
  /\ call[r] = "limited"
  /\ Towards(r, "recorded")
  /\ tracked' = <<[ip |-> Peer[r].ip, op |-> Op[r]]>> \o tracked
  /\ UNCHANGED <<pending, outcome, answer, replies, loop, handled, Operator, Truth>>

Transmit(r) ==
  /\ call[r] = "recorded"
  /\ Towards(r, "sent")
  /\ sent' = sent \cup {r}
  /\ UNCHANGED <<pending, outcome, answer, tracked, replies, loop, handled, Operator,
                 accepted, broadcast>>

\* A failed send takes the newest like entry back (remove_latest).
SendFails(r) ==
  /\ call[r] = "recorded"
  /\ End(r, "failed")
  /\ tracked' = RemoveFirst(tracked, [ip |-> Peer[r].ip, op |-> Op[r]])
  /\ UNCHANGED <<replies, loop, handled, Operator, Truth>>

\* timeout(rx): the answer, a dropped sender, or the deadline.
Resolve(r) ==
  /\ call[r] = "sent"
  /\ \/ answer[r] # Absent /\ End(r, "answered")
     \/ answer[r] = Absent /\ r \notin Range(pending) /\ End(r, "closed")
  /\ UNCHANGED <<tracked, replies, loop, handled, Operator, Truth>>

Expire(r) ==
  /\ call[r] = "sent" /\ answer[r] = Absent
  /\ Towards(r, "expired")
  /\ UNCHANGED <<pending, outcome, answer, tracked, replies, loop, handled, Operator, Truth>>

TakeExpired(r) ==
  /\ call[r] = "expired"
  /\ End(r, "timeout")
  /\ UNCHANGED <<tracked, replies, loop, handled, Operator, Truth>>

\* A converged traversal aborts the task: the guard's drop removes the entry.
Abort(r) ==
  /\ call[r] \in {"limited", "recorded", "sent"}
  /\ End(r, "aborted")
  /\ UNCHANGED <<tracked, replies, loop, handled, Operator, Truth>>

-----------------------------------------------------------------------------
\* The peer got the packet and answers it.
Reply(r) ==
  /\ r \in sent \ replies
  /\ replies' = replies \cup {r}
  /\ UNCHANGED <<Calls, tracked, loop, handled, Operator, Truth>>

\* The receive loop takes a datagram; a paused Kad drops it.
Receive(r, port) ==
  /\ loop.at = "idle" /\ handled < MaxDatagrams
  /\ r \in replies
  /\ handled' = handled + 1
  /\ loop' = IF enabled
             THEN [Idle EXCEPT !.at = "got", !.of = r, !.from = [ip |-> Peer[r].ip, port |-> port]]
             ELSE Idle
  /\ UNCHANGED <<Calls, tracked, replies, Operator, Truth>>

Response == Expected(Op[loop.of])

\* find_pending_correlation: the oldest entry of the endpoint, else of its IP.
ExactMatches == {i \in DOMAIN pending : Peer[pending[i]] = loop.from /\ Expected(Op[pending[i]]) = Response}
AddressMatches == {i \in DOMAIN pending : Peer[pending[i]].ip = loop.from.ip /\ Expected(Op[pending[i]]) = Response}

PendingMatch ==
  LET hits == IF ExactMatches # {} THEN ExactMatches ELSE AddressMatches
  IN IF hits = {} THEN Absent ELSE pending[CHOOSE i \in hits : \A j \in hits : i <= j]

TrackedOps == {i \in DOMAIN Asking(Response) :
                 [ip |-> loop.from.ip, op |-> Asking(Response)[i]] \in Range(tracked)}

\* last_contact_at; then the two correlations, without consuming anything; an answer
\* to nothing is dropped.
NoteContact ==
  /\ loop.at = "got"
  /\ contact' = TRUE
  /\ loop' = [loop EXCEPT !.at = "noted"]
  /\ UNCHANGED <<Calls, tracked, replies, handled, enabled, stop, stops, Truth>>

Correlate ==
  /\ loop.at = "noted"
  /\ loop' = [loop EXCEPT !.at = "matched", !.match = PendingMatch]
  /\ UNCHANGED <<Calls, tracked, replies, handled, Operator, Truth>>

Admit ==
  /\ loop.at = "matched"
  /\ loop' = IF loop.match = Absent /\ TrackedOps = {} THEN Idle
             ELSE [loop EXCEPT !.at = "admitted"]
  /\ UNCHANGED <<Calls, tracked, replies, handled, Operator, Truth>>

\* The matched entry is removed and its channel answered; the answer is lost when the
\* future has just expired.
Answered == [answer EXCEPT ![loop.match] = IF call[loop.match] = "expired" THEN Absent ELSE loop.of]

\* The entry may be gone by now: then the answer is broadcast like any other.
Deliver ==
  /\ loop.at = "admitted"
  /\ IF loop.match \in Range(pending)
     THEN /\ pending' = Without(pending, loop.match)
          /\ answer' = Answered
          /\ loop' = [loop EXCEPT !.at = "delivered"]
     ELSE /\ loop' = [loop EXCEPT !.at = "delivered", !.match = Absent]
          /\ UNCHANGED <<pending, answer>>
  /\ accepted' = accepted + 1
  /\ UNCHANGED <<call, outcome, tracked, replies, handled, Operator, sent, broadcast>>

\* find_any with remove: the newest entry of the first opcode that has one.
Consumed ==
  IF TrackedOps = {} THEN tracked
  ELSE LET first == CHOOSE i \in TrackedOps : \A j \in TrackedOps : i <= j
       IN RemoveFirst(tracked, [ip |-> loop.from.ip, op |-> Asking(Response)[first]])

ConsumeBroadcastingAll ==
  /\ loop.at = "delivered"
  /\ tracked' = Consumed
  /\ broadcast' = broadcast + 1
  /\ loop' = Idle
  /\ UNCHANGED <<Calls, replies, handled, Operator, sent, accepted>>

Consume ==
  /\ loop.at = "delivered"
  /\ tracked' = Consumed
  /\ broadcast' = IF loop.match = Absent THEN broadcast + 1 ELSE broadcast
  /\ loop' = Idle
  /\ UNCHANGED <<Calls, replies, handled, Operator, sent, accepted>>

-----------------------------------------------------------------------------
\* set_kad_enabled(false): the flag, the pending map, the contact time.
Flag ==
  /\ stop = "running" /\ stops < MaxStops
  /\ enabled' = FALSE /\ stop' = "flagged" /\ stops' = stops + 1
  /\ UNCHANGED <<Calls, tracked, replies, loop, handled, contact, Truth>>

Clear ==
  /\ stop = "flagged"
  /\ pending' = <<>> /\ stop' = "cleared"
  /\ UNCHANGED <<call, outcome, answer, tracked, replies, loop, handled, enabled, contact, stops, Truth>>

ForgetContact ==
  /\ stop = "cleared"
  /\ contact' = FALSE /\ stop' = "stopped"
  /\ UNCHANGED <<Calls, tracked, replies, loop, handled, enabled, stops, Truth>>

Resume ==
  /\ stop = "stopped"
  /\ enabled' = TRUE /\ stop' = "running"
  /\ UNCHANGED <<Calls, tracked, replies, loop, handled, contact, stops, Truth>>

-----------------------------------------------------------------------------
Progress(r) ==
  \/ Check(r) \/ Insert(r) \/ Limit(r) \/ Record(r) \/ Transmit(r) \/ SendFails(r)
  \/ Resolve(r) \/ Expire(r) \/ TakeExpired(r)

Handle == NoteContact \/ Correlate \/ Admit \/ Deliver \/ Consume
Pause == Clear \/ ForgetContact

RpcNext ==
  \/ \E r \in Requests : \/ Progress(r) \/ Abort(r) \/ Reply(r)
                         \/ \E p \in ReplyPorts : Receive(r, p)
  \/ Handle \/ Flag \/ Pause \/ Resume

RpcSpec == RpcInit /\ [][RpcNext]_rpcVars

-----------------------------------------------------------------------------
RpcTypeOK ==
  /\ enabled \in BOOLEAN /\ contact \in BOOLEAN
  /\ pending \in Seq(Requests) /\ IsInjective(pending)
  /\ call \in [Requests -> {"new", "checked", "done"} \cup Live]
  /\ answer \in [Requests -> Requests \cup {Absent}]
  /\ Len(tracked) <= Cardinality(Requests)
  /\ replies \subseteq sent /\ sent \subseteq Requests
  /\ loop.at \in {"idle", "got", "noted", "matched", "admitted", "delivered"}
  /\ handled \in 0 .. MaxDatagrams /\ stops \in 0 .. MaxStops

(***************************************************************************)
(* "guarantees a pending-request entry is removed from the map exactly     *)
(* once, even if the awaiting request future is dropped": no entry         *)
(* outlives its future, and a future that still waits either has its entry *)
(* or its answer, or was woken by a pause.                                 *)
(***************************************************************************)
PendingExact ==
  /\ \A r \in Range(pending) : call[r] \in Live /\ answer[r] = Absent
  /\ \A r \in Requests : (call[r] \in Live /\ stops = 0 /\ answer[r] = Absent) =>
        r \in Range(pending) \/ call[r] = "expired"

(***************************************************************************)
(* An answer reaches at most one place: two requests are never completed   *)
(* by answers of which only one was received, and an answer that completed *)
(* a request was not also given to the subscribers ("Packets that match a  *)
(* pending request are NOT broadcast here").                               *)
(***************************************************************************)
AnsweredBy(r) == outcome[r] = "answered" \/ answer[r] # Absent

EachAnswerOnce ==
  Cardinality({r \in Requests : AnsweredBy(r)}) + broadcast <= accepted

(***************************************************************************)
(* An answered request was answered by the peer it asked, with an answer   *)
(* to a request of the kind it made.                                       *)
(***************************************************************************)
AnswerFits ==
  \A r \in Requests : answer[r] # Absent =>
    /\ Peer[answer[r]].ip = Peer[r].ip
    /\ Expected(Op[answer[r]]) = Expected(Op[r])

=============================================================================
