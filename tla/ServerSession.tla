--------------------------- MODULE ServerSession ---------------------------
(***************************************************************************)
(* The background session with an eD2K server and the searches other tasks *)
(* run through it: the select loop of run_one_server_session, the requests *)
(* and wrappers of background.rs, and the packets that answer them.        *)
(* (ed2k_server/session_driver.rs, background.rs, packet_handler.rs,       *)
(* session.rs.)                                                            *)
(*                                                                         *)
(* The session task is either at its select (pc "select") or inside a      *)
(* handler that waits for the offer-files settle delay ("settle"), during  *)
(* which it observes nothing.  Whichever arm of the select completes drops *)
(* the futures of all the others; reading a packet is the only one that    *)
(* had already taken something, the bytes of a half-read frame.  Requests  *)
(* outlive sessions: they wait in one bounded channel.                     *)
(***************************************************************************)
EXTENDS Naturals, Sequences, FiniteSets

CONSTANTS
    Absent,       \* no request, no reply
    Probe,        \* the configured probe search, as the owner of a result page
    Requests,     \* the calls other tasks make
    Kind,         \* [Requests -> {"keyword", "source", "batch", "callback", "publish"}]
    Targets,      \* [Requests -> SUBSET Files]: the files of a source search
    Files,
    Capacity,     \* of the request channel
    TcpKinds,     \* the frames the server may send
    UdpKinds,     \* the datagrams the server may send
    ZeroAfterLogin, \* whether a server may send a zero id after accepting the login
    ProbeTerm,    \* whether a probe search is configured
    Split,        \* whether a frame may arrive in two parts
    WriteFails,   \* whether a write to the server may fail
    MaxSessions,  \* bound: connected sessions
    MaxWire       \* bound: frames on their way to the client

SessionAssumption ==
    /\ Kind \in [Requests -> {"keyword", "source", "batch", "callback", "publish"}]
    /\ Targets \in [Requests -> SUBSET Files]
    /\ Capacity \in Nat \ {0} /\ MaxSessions \in Nat /\ MaxWire \in Nat

VARIABLES
    sess,      \* the session task (ServerSession and the locals of the loop)
    queued,    \* queued_background_search
    held,      \* the request or probe being dispatched, across the settle delay
    pending,   \* pending_background_search
    pub,       \* Ed2kServerState: what the other tasks see
    wire,      \* frames sent by the server and not yet read
    owed,      \* keyword searches the server has received and not finished
    channel,   \* requests sent and not yet received
    call,      \* where each caller is
    reply,     \* the response channel of each request
    cancelled, \* callers whose token is cancelled
    expired,   \* callers whose own deadline has passed
    expects,   \* the session a callback was meant for
    wrote,     \* the session a callback frame was written to
    credited,  \* what each request was answered with
    seen       \* keyword searches of which a good page was read, in part at least

client == <<sess, queued, held, pending, pub>>
callers == <<call, cancelled, expired, expects>>
vars == <<client, wire, owed, channel, callers, reply, wrote, credited, seen>>

NoSession == [pc |-> "none", gen |-> 0, login |-> FALSE, timed |-> FALSE, high |-> FALSE,
              half |-> FALSE, torn |-> FALSE, probe |-> "notStarted", offers |-> FALSE]
Disconnected == [connected |-> FALSE, gen |-> 0, high |-> FALSE]

Init ==
    /\ sess = NoSession
    /\ queued = Absent /\ held = Absent /\ pending = Absent
    /\ pub = Disconnected
    /\ wire = <<>> /\ owed = {}
    /\ channel = <<>>
    /\ call = [r \in Requests |-> "idle"]
    /\ reply = [r \in Requests |-> Absent]
    /\ cancelled = {} /\ expired = {}
    /\ expects = [r \in Requests |-> 0]
    /\ wrote = [r \in Requests |-> Absent]
    /\ credited = [r \in Requests |-> {}]
    /\ seen = {}

---------------------------------------------------------------------------
(* The callers.                                                            *)

Outcomes == {"replied", "timedOut", "interrupted", "cancelled", "failed",
             "results", "partial", "sent", "notSent", "unknown", "stats"}

Done(r, o) == call' = [call EXCEPT ![r] = o]

\* A call starts: a callback is for the session its caller sees connected with
\* a HighID, and is refused when it is already cancelled or too late.
Submit(r) ==
    /\ call[r] = "idle"
    /\ Kind[r] = "callback" => pub.connected /\ pub.high
    /\ expects' = [expects EXCEPT ![r] = IF Kind[r] = "callback" THEN pub.gen ELSE 0]
    /\ IF r \in cancelled /\ Kind[r] = "keyword" THEN Done(r, "cancelled")
       ELSE IF r \in cancelled \cup expired /\ Kind[r] = "callback" THEN Done(r, "notSent")
       ELSE Done(r, "sending")
    /\ UNCHANGED <<client, wire, owed, channel, cancelled, expired, reply, wrote, credited, seen>>

\* What a caller makes of a channel that is closed.
ClosedOutcome(r) ==
    CASE Kind[r] = "keyword" -> "interrupted"
      [] Kind[r] = "callback" -> "notSent"
      [] OTHER -> "failed"

\* The request enters the bounded channel, or finds it closed.
Send(r) ==
    /\ call[r] = "sending"
    /\ \/ /\ sess.pc # "stopped" /\ Len(channel) < Capacity
          /\ channel' = Append(channel, r)
          /\ Done(r, "waiting")
       \/ /\ sess.pc = "stopped"
          /\ Done(r, ClosedOutcome(r))
          /\ UNCHANGED channel
    /\ UNCHANGED <<client, wire, owed, cancelled, expired, expects, reply, wrote, credited, seen>>

\* Only a keyword search and a callback can give up while the channel is full.
GiveUpSending(r) ==
    /\ call[r] = "sending"
    /\ \/ Kind[r] = "keyword" /\ r \in cancelled /\ Done(r, "cancelled")
       \/ Kind[r] = "callback" /\ r \in cancelled \cup expired /\ Done(r, "notSent")
    /\ UNCHANGED <<client, wire, owed, channel, cancelled, expired, expects, reply, wrote, credited, seen>>

\* What a caller makes of a response; a dropped responder is an interrupted
\* search to a keyword caller, an unknown delivery to a callback.
Received(r) ==
    CASE reply[r] # "dropped" ->
            IF Kind[r] = "callback" /\ reply[r] = "interrupted" THEN "notSent"
            ELSE IF Kind[r] = "source" /\ reply[r] = "timedOut" THEN "failed"
            ELSE reply[r]
      [] Kind[r] = "keyword" -> "interrupted"
      [] Kind[r] = "callback" -> "unknown"
      [] OTHER -> "failed"

Receive(r) ==
    /\ call[r] = "waiting" /\ reply[r] # Absent
    /\ Done(r, Received(r))
    /\ UNCHANGED <<client, wire, owed, channel, cancelled, expired, expects, reply, wrote, credited, seen>>

\* A cancelled search returns nothing; a callback (whose select prefers the
\* response) no longer knows, and a publish times out.
GiveUpWaiting(r) ==
    /\ call[r] = "waiting"
    /\ \/ Kind[r] \in {"keyword", "source", "batch", "publish"} /\ r \in cancelled /\ Done(r, "cancelled")
       \/ Kind[r] = "callback" /\ reply[r] = Absent /\ r \in cancelled \cup expired /\ Done(r, "unknown")
       \/ Kind[r] = "publish" /\ r \in expired /\ Done(r, "failed")
    /\ UNCHANGED <<client, wire, owed, channel, cancelled, expired, expects, reply, wrote, credited, seen>>

\* A caller's token is cancelled, or its deadline passes.
Withdraw(r) ==
    /\ call[r] \in {"idle", "sending", "waiting"}
    /\ \/ r \notin cancelled /\ cancelled' = cancelled \cup {r} /\ UNCHANGED expired
       \/ /\ Kind[r] \in {"callback", "publish"} /\ r \notin expired
          /\ expired' = expired \cup {r} /\ UNCHANGED cancelled
    /\ UNCHANGED <<client, wire, owed, channel, call, expects, reply, wrote, credited, seen>>

---------------------------------------------------------------------------
(* Beginning and ending a session.                                         *)

\* The TCP connection is up and the login request sent.
Connect ==
    /\ sess.pc = "none" /\ sess.gen < MaxSessions
    /\ sess' = [NoSession EXCEPT !.pc = "select", !.gen = sess.gen + 1, !.timed = TRUE]
    /\ pub' = Disconnected
    /\ wire' = <<>> /\ owed' = {}
    /\ UNCHANGED <<queued, held, pending, channel, callers, reply, wrote, credited, seen>>

AtSelect == sess.pc = "select"

\* Another arm than reading completed: a half-read frame loses its first part.
Interrupted(s) == [s EXCEPT !.half = FALSE, !.torn = s.torn \/ s.half]

InHand == {r \in Requests : r = queued \/ (pending # Absent /\ pending.req = r)}

\* The session task returns, leaving v in the response channels it still holds.
EndWith(v) ==
    /\ sess' = [sess EXCEPT !.pc = "ended", !.half = FALSE]
    /\ queued' = Absent /\ pending' = Absent
    /\ reply' = [r \in Requests |-> IF r \in InHand THEN v ELSE reply[r]]
    /\ wire' = <<>> /\ owed' = {}

\* fail_background_search_request and fail_pending_background_search with an
\* interrupted failure, then the public state is cleared.
Fail ==
    /\ EndWith("interrupted")
    /\ pub' = Disconnected
    /\ UNCHANGED <<held, channel, callers, wrote, credited, seen>>

\* The session is superseded (or the client shuts down).
Supersede == AtSelect /\ sess.gen < MaxSessions /\ Fail

LoginTimeoutIdle == AtSelect /\ sess.timed /\ ~sess.login /\ InHand = {} /\ Fail

\* The server did not accept the login in time.
LoginTimeout == AtSelect /\ sess.timed /\ ~sess.login /\ Fail

\* The rotation interval passed and nothing is in hand.
Rotate == AtSelect /\ sess.gen < MaxSessions /\ InHand = {} /\ Fail

\* The server closed the connection: requests are failed, the public state is
\* left to the server loop.
Closed ==
    /\ AtSelect /\ sess.gen < MaxSessions /\ ~sess.half
    /\ EndWith("interrupted")
    /\ UNCHANGED <<held, pub, channel, callers, wrote, credited, seen>>

\* An error leaves the loop through `?`: the response channels are dropped.
Broken == EndWith("dropped") /\ UNCHANGED pub

\* The bytes that follow a lost first part are no frame.
ReadTorn ==
    /\ AtSelect /\ sess.torn
    /\ Broken
    /\ UNCHANGED <<held, channel, callers, wrote, credited, seen>>

\* The server loop clears the public state before it connects again.
Cleanup ==
    /\ sess.pc = "ended"
    /\ sess' = [NoSession EXCEPT !.gen = sess.gen]
    /\ pub' = Disconnected
    /\ UNCHANGED <<queued, held, pending, wire, owed, channel, callers, reply, wrote, credited, seen>>

\* The server loop ends for good, and the request channel with it.
Stop ==
    /\ sess.pc = "none" /\ sess.gen = MaxSessions
    /\ sess' = [sess EXCEPT !.pc = "stopped"]
    /\ channel' = <<>>
    /\ reply' = [r \in Requests |-> IF \E i \in 1 .. Len(channel) : channel[i] = r THEN "dropped" ELSE reply[r]]
    /\ UNCHANGED <<queued, held, pending, pub, wire, owed, callers, wrote, credited, seen>>

---------------------------------------------------------------------------
(* Dispatching a request.                                                  *)

CallbackStopped(r) == r \in cancelled \cup expired

\* The live route is the session the callback was meant for, with a HighID.
RouteMatches(r) == pub.connected /\ pub.gen = expects[r] /\ pub.high

Answer(r, v) == reply' = [reply EXCEPT ![r] = v]

\* start_background_server_search up to the settle delay.  s is the session as
\* the select arm left it; the request is in nobody's hands but this one's.
Start(r, s) ==
    /\ pending' = Absent
    /\ CASE Kind[r] = "keyword" /\ r \in cancelled ->
              /\ Answer(r, "cancelled")
              /\ sess' = s /\ held' = Absent
         [] Kind[r] = "callback" /\ CallbackStopped(r) ->
              /\ Answer(r, "interrupted")
              /\ sess' = s /\ held' = Absent
         [] Kind[r] = "batch" /\ Targets[r] = {} ->
              /\ Answer(r, "results")
              /\ sess' = s /\ held' = Absent
         [] Kind[r] = "publish" ->
              /\ \/ Answer(r, "stats") /\ sess' = [s EXCEPT !.offers = FALSE]
                 \/ WriteFails /\ Answer(r, "dropped") /\ sess' = s
              /\ held' = Absent
         [] OTHER ->
              /\ held' = r
              /\ sess' = [s EXCEPT !.pc = "settle"]
              /\ UNCHANGED reply

\* The request is on the wire and the session waits for the answer.
Dispatched(r) ==
    /\ pending' = [req |-> r, left |-> Targets[r]]
    /\ owed' = IF Kind[r] = "keyword" THEN owed \cup {r} ELSE owed
    /\ UNCHANGED <<reply, wrote>>

\* Mutant: the route is not compared again after the settle delay.
DispatchCallbackUnchecked(r) ==
    /\ pending' = Absent
    /\ UNCHANGED owed
    /\ IF CallbackStopped(r)
       THEN Answer(r, "interrupted") /\ UNCHANGED wrote
       ELSE /\ Answer(r, "sent")
            /\ wrote' = [wrote EXCEPT ![r] = [gen |-> sess.gen, high |-> sess.high]]

\* A callback is written only if it still has a taker and the route matches.
DispatchCallback(r) ==
    /\ pending' = Absent
    /\ UNCHANGED owed
    /\ IF CallbackStopped(r) \/ ~RouteMatches(r)
       THEN Answer(r, "interrupted") /\ UNCHANGED wrote
       ELSE /\ Answer(r, "sent")
            /\ wrote' = [wrote EXCEPT ![r] = [gen |-> sess.gen, high |-> sess.high]]

\* The settle delay is over.  A failed write drops the response channel and
\* the session goes on.
Dispatch ==
    /\ sess.pc = "settle" /\ held \in Requests
    /\ \/ Kind[held] # "callback" /\ Dispatched(held)
       \/ Kind[held] = "callback" /\ DispatchCallback(held)
       \/ /\ WriteFails
          /\ Answer(held, "dropped")
          /\ pending' = Absent
          /\ UNCHANGED <<owed, wrote>>
    /\ sess' = [sess EXCEPT !.pc = "select"]
    /\ held' = Absent
    /\ UNCHANGED <<queued, pub, wire, channel, callers, credited, seen>>

\* The probe search is sent once its settle delay is over.
DispatchProbe ==
    /\ sess.pc = "settle" /\ held = Probe
    /\ held' = Absent
    /\ \/ /\ sess' = [sess EXCEPT !.pc = "select", !.probe = "active"]
          /\ owed' = owed \cup {Probe}
          /\ UNCHANGED <<queued, pending, pub, wire, reply>>
       \/ /\ WriteFails
          /\ Broken
    /\ UNCHANGED <<channel, callers, wrote, credited, seen>>

\* The session takes the next request: dispatched at once after login, parked
\* until the login otherwise.
TakeRequest ==
    /\ AtSelect /\ channel # <<>> /\ queued = Absent /\ pending = Absent
    /\ channel' = Tail(channel)
    /\ IF sess.login
       THEN Start(Head(channel), Interrupted(sess)) /\ UNCHANGED queued
       ELSE /\ queued' = Head(channel)
            /\ sess' = Interrupted(sess)
            /\ UNCHANGED <<held, pending, reply>>
    /\ UNCHANGED <<pub, wire, owed, callers, wrote, credited, seen>>

\* A cancelled keyword search is forgotten, whether parked or pending.
CancelKeyword ==
    /\ AtSelect
    /\ \E r \in InHand \cap cancelled :
          /\ Kind[r] = "keyword"
          /\ Answer(r, "dropped")
          /\ queued' = IF queued = r THEN Absent ELSE queued
          /\ pending' = IF queued = r THEN pending ELSE Absent
    /\ sess' = Interrupted(sess)
    /\ UNCHANGED <<held, pub, wire, owed, channel, callers, wrote, credited, seen>>

\* The pending search ran out of time: a batch keeps what it has.
SearchTimeout ==
    /\ AtSelect /\ pending # Absent
    /\ Answer(pending.req, IF Kind[pending.req] = "batch" THEN "partial" ELSE "timedOut")
    /\ pending' = Absent
    /\ sess' = Interrupted(sess)
    /\ UNCHANGED <<queued, held, pub, wire, owed, channel, callers, wrote, credited, seen>>

\* The arms that only send: the offer-files pump, the keepalive with its
\* status ping, the fallback of the crypt ping, and the 50 ms poll of a
\* pending login, which sends nothing.
Tick ==
    /\ AtSelect
    /\ \/ /\ sess' = Interrupted([sess EXCEPT !.offers = @ /\ InHand # {}])
          /\ sess' # sess
          /\ UNCHANGED <<queued, pending, pub, wire, owed, reply>>
       \/ WriteFails /\ sess.login /\ Broken
    /\ UNCHANGED <<held, channel, callers, wrote, credited, seen>>

---------------------------------------------------------------------------
(* Packets.                                                                *)

\* The frames the server may send now.
Frame(k, of, form) == [kind |-> k, of |-> of, form |-> form]
Sendable ==
    {Frame("id", Absent, x) : x \in {"low", "high"} \cup (IF ZeroAfterLogin \/ ~sess.login THEN {"zero"} ELSE {})}
      \cup {Frame("page", q, x) : q \in owed, x \in {"more", "last", "bad"}}
      \cup {Frame("found", f, x) : f \in Files, x \in {"good", "bad"}}
      \cup {Frame("ident", Absent, "good"), Frame("id", Absent, "short")}

\* The server sends a frame; the last page finishes its search.
ServerSends ==
    /\ sess.pc \in {"select", "settle"} /\ Len(wire) < MaxWire
    /\ \E f \in Sendable :
          /\ <<f.kind, f.form>> \in TcpKinds
          /\ wire' = Append(wire, f)
          /\ owed' = IF f.form = "last" THEN owed \ {f.of} ELSE owed
    /\ UNCHANGED <<client, channel, callers, reply, wrote, credited, seen>>

\* Good pages of the pending search the socket handed over, whatever becomes
\* of them.
SeenWith(f) ==
    seen \cup {r \in Requests : /\ pending # Absent /\ pending.req = r
                               /\ f.kind = "page" /\ f.form # "bad" /\ f.of = r}

\* The first bytes of a frame are read, and there are no more yet.
ReadPart ==
    /\ Split /\ AtSelect /\ wire # <<>> /\ ~sess.half /\ ~sess.torn
    /\ sess' = [sess EXCEPT !.half = TRUE]
    /\ seen' = SeenWith(Head(wire))
    /\ UNCHANGED <<queued, held, pending, pub, wire, owed, channel, callers, reply, wrote, credited>>

\* A whole frame f is read; r is what the pending search makes of it.
Read(f) ==
    /\ AtSelect /\ ~sess.torn /\ wire # <<>>
    /\ f = Head(wire)
    /\ seen' = SeenWith(f)

Whole == [sess EXCEPT !.half = FALSE]

PendingKind == IF pending = Absent THEN Absent ELSE Kind[pending.req]

\* A result page while a keyword search is pending is taken as its answer.
KeywordPage(f) ==
    /\ Read(f) /\ f.kind = "page" /\ PendingKind = "keyword"
    /\ \/ /\ f.form = "bad"
          /\ sess' = Whole /\ wire' = Tail(wire)
          /\ UNCHANGED <<queued, pending, owed, reply, credited>>
       \/ /\ f.form = "more"
          /\ \/ sess' = Whole /\ wire' = Tail(wire) /\ UNCHANGED <<queued, pending, owed, reply>>
             \/ WriteFails /\ EndWith("dropped")
          /\ credited' = [credited EXCEPT ![pending.req] = @ \cup {f.of}]
       \/ /\ f.form = "last"
          /\ sess' = Whole /\ wire' = Tail(wire)
          /\ credited' = [credited EXCEPT ![pending.req] = @ \cup {f.of}]
          /\ Answer(pending.req, "replied")
          /\ pending' = Absent
          /\ UNCHANGED <<queued, owed>>
    /\ UNCHANGED <<held, pub, channel, callers, wrote>>

\* decode_found_sources and validate_found_sources accept the answer, and it
\* is for a file still asked for.
SourceAccepted(f) == f.form = "good" /\ f.of \in pending.left

\* What a source search still waits for after the answer f.
SourceLeft(f) == IF Kind[pending.req] = "source" THEN {} ELSE pending.left \ {f.of}

\* The search settles: its results are in, or more are awaited.
SourcesFound(f) ==
    /\ credited' = [credited EXCEPT ![pending.req] = @ \cup {f.of}]
    /\ IF SourceLeft(f) = {}
       THEN Answer(pending.req, "results") /\ pending' = Absent
       ELSE pending' = [pending EXCEPT !.left = SourceLeft(f)] /\ UNCHANGED reply

\* A source answer while a source search or batch is pending.
FoundSources(f) ==
    /\ Read(f) /\ f.kind = "found" /\ PendingKind \in {"source", "batch"}
    /\ sess' = Whole /\ wire' = Tail(wire)
    /\ IF SourceAccepted(f) THEN SourcesFound(f) ELSE UNCHANGED <<pending, reply, credited>>
    /\ UNCHANGED <<queued, held, pub, owed, channel, callers, wrote>>

\* The public state after an accepted OP_IDCHANGE.
LoggedIn(f) == [connected |-> TRUE, gen |-> sess.gen, high |-> f.form = "high"]

\* handle_server_packet, the session's side: a zero id refuses the login and
\* keeps the session; any other id accepts it, and a new one offers the shared
\* files again; the probe's last page ends the probe.
AfterPacket(f) ==
    CASE f.kind = "id" /\ f.form = "zero" -> [Whole EXCEPT !.login = FALSE, !.high = FALSE]
      [] f.kind = "id" /\ f.form # "zero" ->
            [Whole EXCEPT !.login = TRUE, !.timed = FALSE, !.high = (f.form = "high"),
                          !.offers = @ \/ ~sess.login \/ (sess.high # (f.form = "high"))]
      [] f.kind = "page" /\ f.form = "last" /\ sess.probe = "active" -> [Whole EXCEPT !.probe = "completed"]
      [] OTHER -> Whole

PublicAfter(f) ==
    CASE f.kind # "id" \/ f.form = "short" -> pub
      [] f.form = "zero" -> Disconnected
      [] OTHER -> LoggedIn(f)

\* The frames that let the session start its probe search.
ProbeDue(f) ==
    /\ ProbeTerm /\ AfterPacket(f).login /\ sess.probe = "notStarted"
    /\ f.kind \in {"id", "ident"} /\ f.form # "zero"
    /\ queued = Absent /\ pending = Absent

\* A frame that is not the answer to the pending search.
Unclaimed(f) ==
    /\ Read(f)
    /\ ~(f.kind = "page" /\ PendingKind = "keyword")
    /\ ~(f.kind = "found" /\ PendingKind \in {"source", "batch"})

\* It is handled, and then the parked request is dispatched if the session is
\* logged in.
HandlePacket(f) ==
    /\ Unclaimed(f) /\ f.form # "short"
    /\ wire' = Tail(wire)
    /\ pub' = PublicAfter(f)
    /\ IF ProbeDue(f)
       THEN /\ held' = Probe /\ sess' = [AfterPacket(f) EXCEPT !.pc = "settle"]
            /\ UNCHANGED <<queued, pending, reply>>
       ELSE IF AfterPacket(f).login /\ pending = Absent /\ queued # Absent
       THEN queued' = Absent /\ Start(queued, AfterPacket(f))
       ELSE sess' = AfterPacket(f) /\ UNCHANGED <<queued, held, pending, reply>>
    /\ UNCHANGED <<owed, channel, callers, wrote, credited>>

\* It is malformed beyond ignoring, or what the session writes in answer to it
\* (the startup traffic, the request for the probe's next page) fails.
PacketFails(f) ==
    /\ Unclaimed(f)
    /\ \/ f.form = "short"
       \/ WriteFails /\ f.kind = "id" /\ f.form # "zero"
       \/ WriteFails /\ f.kind = "page" /\ f.form = "more" /\ sess.probe = "active"
    /\ EndWith("dropped")
    /\ pub' = PublicAfter(f)
    /\ UNCHANGED <<held, channel, callers, wrote, credited>>

\* OP_GLOBSEARCHRES: it takes the pending search out before it looks at it.
UdpSearch(form) ==
    /\ AtSelect /\ <<"search", form>> \in UdpKinds
    /\ sess' = Interrupted(sess)
    /\ CASE pending = Absent -> UNCHANGED <<pending, reply, credited>>
         [] PendingKind = "keyword" /\ form = "bad" -> UNCHANGED <<pending, reply, credited>>
         [] PendingKind = "keyword" /\ form = "good" ->
              /\ Answer(pending.req, "replied") /\ pending' = Absent
              /\ UNCHANGED credited
         [] OTHER ->
              /\ Answer(pending.req, "dropped") /\ pending' = Absent
              /\ UNCHANGED credited
    /\ UNCHANGED <<queued, held, pub, wire, owed, channel, callers, wrote, seen>>

\* Mutant: a datagram for another file discards the search.
UdpSourcesDiscard(file, form) ==
    /\ AtSelect /\ <<"sources", form>> \in UdpKinds
    /\ sess' = Interrupted(sess)
    /\ IF PendingKind = "source"
       THEN IF SourceAccepted(Frame("found", file, form)) THEN SourcesFound(Frame("found", file, form))
            ELSE Answer(pending.req, "dropped") /\ pending' = Absent /\ UNCHANGED credited
       ELSE UNCHANGED <<pending, reply, credited>>
    /\ UNCHANGED <<queued, held, pub, wire, owed, channel, callers, wrote, seen>>

\* OP_GLOBFOUNDSOURCES: answers a source search for that file, else changes
\* nothing.
UdpSources(file, form) ==
    /\ AtSelect /\ <<"sources", form>> \in UdpKinds
    /\ sess' = Interrupted(sess)
    /\ IF PendingKind = "source" /\ SourceAccepted(Frame("found", file, form))
       THEN SourcesFound(Frame("found", file, form))
       ELSE UNCHANGED <<pending, reply, credited>>
    /\ UNCHANGED <<queued, held, pub, wire, owed, channel, callers, wrote, seen>>

---------------------------------------------------------------------------
Calls == \E r \in Requests : Submit(r) \/ Send(r) \/ GiveUpSending(r) \/ Receive(r) \/ GiveUpWaiting(r) \/ Withdraw(r)
Packet == \E i \in 1 .. Len(wire) :
              KeywordPage(wire[i]) \/ FoundSources(wire[i]) \/ HandlePacket(wire[i]) \/ PacketFails(wire[i])
Datagram == \E form \in {"good", "bad"} : UdpSearch(form) \/ (\E f \in Files : UdpSources(f, form))
Ending == Supersede \/ LoginTimeout \/ Rotate \/ Closed \/ ReadTorn \/ Cleanup \/ Stop

Next == \/ Calls \/ Connect \/ Ending \/ TakeRequest \/ CancelKeyword \/ SearchTimeout \/ Tick
        \/ Dispatch \/ DispatchProbe \/ ServerSends \/ ReadPart \/ Packet \/ Datagram

Spec == Init /\ [][Next]_vars

---------------------------------------------------------------------------
(* Properties.                                                             *)

\* The type of the state.
TypeOK ==
    /\ sess \in [pc : {"none", "select", "settle", "ended", "stopped"}, gen : 0 .. MaxSessions,
                 login : BOOLEAN, timed : BOOLEAN, high : BOOLEAN, half : BOOLEAN, torn : BOOLEAN,
                 probe : {"notStarted", "active", "completed"}, offers : BOOLEAN]
    /\ queued \in Requests \cup {Absent}
    /\ held \in Requests \cup {Probe, Absent}
    /\ pending \in [req : Requests, left : SUBSET Files] \cup {Absent}
    /\ pub \in [connected : BOOLEAN, gen : 0 .. MaxSessions, high : BOOLEAN]
    /\ wire \in Seq([kind : {"id", "page", "found", "ident"}, of : Requests \cup Files \cup {Probe, Absent},
                     form : {"zero", "low", "high", "short", "more", "last", "good", "bad"}])
    /\ owed \subseteq Requests \cup {Probe}
    /\ channel \in Seq(Requests) /\ Len(channel) <= Capacity
    /\ call \in [Requests -> Outcomes \cup {"idle", "sending", "waiting"}]
    /\ reply \in [Requests -> Outcomes \cup {"dropped", Absent}]
    /\ cancelled \subseteq Requests /\ expired \subseteq Requests
    /\ expects \in [Requests -> 0 .. MaxSessions]
    /\ wrote \in [Requests -> [gen : 0 .. MaxSessions, high : BOOLEAN] \cup {Absent}]
    /\ credited \in [Requests -> SUBSET (Requests \cup Files \cup {Probe})]
    /\ seen \subseteq Requests

\* What a callback's caller is told about the request frame is true: Sent only
\* if the frame was written, NotSent only if it never was (and never will be),
\* whatever cancellations, deadlines and session changes came in between.
CallbackTruth ==
    \A r \in Requests :
        /\ Kind[r] = "callback" /\ call[r] = "sent" => wrote[r] # Absent
        /\ call[r] = "notSent" => wrote[r] = Absent /\ r # held
                                    /\ r \notin InHand /\ \A i \in 1 .. Len(channel) : channel[i] # r

\* What other tasks read as a connected server is the present session, with
\* its generation, the login it has and the kind of id it has there; a session
\* that has ended is withdrawn before another is seen.
ConnectedIsLive ==
    pub.connected => /\ sess.pc \notin {"none", "stopped"} /\ pub.gen = sess.gen
                     /\ sess.pc # "ended" => sess.login /\ pub.high = sess.high

\* A callback frame goes only to the very session its caller saw, and only
\* while this client has a HighID there: a request that waited in the channel
\* is never sent on the session that came after.
CallbackOnRoute ==
    \A r \in Requests : wrote[r] # Absent => wrote[r].gen = expects[r] /\ wrote[r].high

\* A source search is answered with sources of its own files only, and is
\* complete, unless it is the partial result of a batch that ran out of time.
SourcesExact ==
    \A r \in Requests :
        Kind[r] \in {"source", "batch"} =>
            /\ credited[r] \subseteq Targets[r]
            /\ reply[r] = "results" => credited[r] = Targets[r]

\* While its session goes on, a request that has been taken is given up without an
\* answer (its response channel dropped) in three cases only: it was cancelled, its
\* own frame could not be written (start_background_server_search), or it searches
\* for sources and a keyword datagram took it out of its place
\* (handle_background_udp_packet).  No bad, late or foreign answer, no other
\* request's failure and no timer does it.
KeptUntilDecided ==
    \A r \in Requests :
       reply[r] = Absent /\ reply'[r] = "dropped" =>
           \/ r \in cancelled \/ sess'.pc \in {"ended", "stopped"}
           \/ WriteFails /\ (held = r \/ Kind[r] = "publish")
           \/ /\ Kind[r] \in {"source", "batch"} /\ pending # Absent /\ pending.req = r
              /\ \E form \in {"good", "bad"} : UdpSearch(form)

\* What must not last: a session at its loop that is not logged in.
LoggingIn == sess.pc \in {"select", "settle"} /\ ~sess.login

\* What must be followed by an answer: a session has the request in its hands.
Taken(r) == r = queued \/ r = held \/ r \in InHand
Answered(r) == call[r] \in Outcomes

=============================================================================
