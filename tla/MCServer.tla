------------------------------ MODULE MCServer ------------------------------
(***************************************************************************)
(* The server side for TLC: instances of ServerSession (one session and    *)
(* its callers) and of ServerLoop (the supervisor over the server list).   *)
(* A behaviour belongs to one of them, named by scenario, so that the      *)
(* states explored are their sum; the variables of the other module rest.  *)
(* ServerLoop is also extended: what it promises is checked as it states   *)
(* it.  Its instances share the servers and differ in the plans.           *)
(*                                                                         *)
(* Two requests of the kinds whose interplay is of interest, over a        *)
(* channel of one place; plans over two or three servers.                  *)
(***************************************************************************)
EXTENDS ServerLoop, Naturals, Sequences, FiniteSets, TLC

CONSTANTS Probe, r1, r2, f1, f2, s1, s2, s3

VARIABLES scenario,
    sess, queued, held, pending, pub, wire, owed, channel, call, reply,
    withdrawn, expired, expects, wrote, credited, seen

requests == <<sess, queued, held, pending, pub, wire, owed, channel, call, reply,
              withdrawn, expired, expects, wrote, credited, seen>>

TwoRequests == {r1, r2}
GoodLogin == {<<"id", "high">>}
Logins == {<<"id", "zero">>, <<"id", "high">>, <<"ident", "good">>}
SourceFrames == GoodLogin \cup {<<"id", "short">>, <<"found", "good">>, <<"found", "bad">>}
AnswerFrames == {<<"id", "low">>, <<"page", "more">>, <<"page", "last">>, <<"page", "bad">>}
CrossedFrames == GoodLogin \cup {<<"found", "good">>, <<"page", "last">>}
UdpSourceAnswers == {<<"sources", "good">>, <<"sources", "bad">>}
UdpPages == {<<"search", "good">>, <<"search", "bad">>}
Datagrams == UdpSourceAnswers \cup UdpPages

\* Two callbacks, logins that are refused or accepted, and a session that is replaced.
Callbacks == INSTANCE ServerSession WITH
    cancelled <- withdrawn, Requests <- TwoRequests, Kind <- (r1 :> "callback") @@ (r2 :> "callback"),
    Targets <- (r1 :> {}) @@ (r2 :> {}), Files <- {f1}, Capacity <- 1,
    TcpKinds <- Logins, UdpKinds <- {}, ZeroAfterLogin <- TRUE, ProbeTerm <- FALSE,
    Split <- FALSE, WriteFails <- TRUE, MaxSessions <- 2, MaxWire <- 1

\* A batch of two files and a search for one of them, answered over TCP and UDP.
Sources == INSTANCE ServerSession WITH
    cancelled <- withdrawn, Requests <- TwoRequests, Kind <- (r1 :> "batch") @@ (r2 :> "source"),
    Targets <- (r1 :> {f1, f2}) @@ (r2 :> {f1}), Files <- {f1, f2}, Capacity <- 1,
    TcpKinds <- SourceFrames, UdpKinds <- UdpSourceAnswers, ZeroAfterLogin <- TRUE,
    ProbeTerm <- FALSE, Split <- FALSE, WriteFails <- TRUE, MaxSessions <- 2, MaxWire <- 1

\* A search for sources and one for a keyword, each met by datagrams of the other.
Crossed == INSTANCE ServerSession WITH
    cancelled <- withdrawn, Requests <- TwoRequests, Kind <- (r1 :> "source") @@ (r2 :> "keyword"),
    Targets <- (r1 :> {f1}) @@ (r2 :> {}), Files <- {f1}, Capacity <- 1,
    TcpKinds <- CrossedFrames, UdpKinds <- Datagrams, ZeroAfterLogin <- FALSE,
    ProbeTerm <- FALSE, Split <- FALSE, WriteFails <- TRUE, MaxSessions <- 1, MaxWire <- 1

\* A keyword search and a publication beside the probe search.
Keywords == INSTANCE ServerSession WITH
    cancelled <- withdrawn, Requests <- TwoRequests, Kind <- (r1 :> "keyword") @@ (r2 :> "publish"),
    Targets <- (r1 :> {}) @@ (r2 :> {}), Files <- {f1}, Capacity <- 1,
    TcpKinds <- AnswerFrames, UdpKinds <- UdpPages, ZeroAfterLogin <- TRUE,
    ProbeTerm <- TRUE, Split <- TRUE, WriteFails <- TRUE, MaxSessions <- 1, MaxWire <- 1

PlanOf(order, target, staticOnly, safe, reconnect) ==
    [order |-> order, target |-> target, staticOnly |-> staticOnly,
     safe |-> safe, reconnect |-> reconnect]

AnyOneByOne == PlanOf(<<s1, s2>>, Absent, FALSE, TRUE, TRUE)
AnyTwo == PlanOf(<<s1, s2, s3>>, Absent, FALSE, FALSE, TRUE)
PairUp == PlanOf(<<s1, s2>>, Absent, FALSE, FALSE, TRUE)

\* One server at a time: the whole list, staying disconnected, a pinned server,
\* a pinned one that has left the list, static servers only.
OneByOnePlans ==
    {AnyOneByOne,
     PlanOf(<<s1, s2>>, Absent, FALSE, TRUE, FALSE),
     PlanOf(<<s1, s2>>, s2, FALSE, TRUE, TRUE),
     PlanOf(<<s1>>, s2, FALSE, TRUE, TRUE),
     PlanOf(<<s2, s1>>, Absent, TRUE, TRUE, TRUE)}

\* Two at a time over three servers.
TwoOfThree == INSTANCE ServerLoop WITH
    FirstPlan <- AnyTwo,
    Plans <- {AnyTwo, PlanOf(<<s1, s2, s3>>, Absent, FALSE, FALSE, FALSE),
              PlanOf(<<s1, s2, s3>>, s3, FALSE, FALSE, TRUE)},
    MaxCommands <- 1

\* Two at a time, and there are but two.
Pair == INSTANCE ServerLoop WITH
    FirstPlan <- PairUp, Plans <- {PairUp, PlanOf(<<s1, s2>>, s1, FALSE, FALSE, TRUE)},
    MaxCommands <- 1

ASSUME /\ Callbacks!SessionAssumption /\ Sources!SessionAssumption /\ Keywords!SessionAssumption
       /\ Crossed!SessionAssumption
       /\ LoopAssumption /\ TwoOfThree!LoopAssumption /\ Pair!LoopAssumption

MCInit ==
    \/ scenario = "callbacks" /\ Callbacks!Init /\ Init
    \/ scenario = "sources" /\ Sources!Init /\ Init
    \/ scenario = "crossed" /\ Crossed!Init /\ Init
    \/ scenario = "keywords" /\ Keywords!Init /\ Init
    \/ scenario = "single" /\ Callbacks!Init /\ Init
    \/ scenario = "parallel" /\ Callbacks!Init /\ TwoOfThree!Init
    \/ scenario = "pair" /\ Callbacks!Init /\ Pair!Init

MCNext ==
    \/ scenario = "callbacks" /\ Callbacks!Next /\ UNCHANGED <<scenario, vars>>
    \/ scenario = "sources" /\ Sources!Next /\ UNCHANGED <<scenario, vars>>
    \/ scenario = "crossed" /\ Crossed!Next /\ UNCHANGED <<scenario, vars>>
    \/ scenario = "keywords" /\ Keywords!Next /\ UNCHANGED <<scenario, vars>>
    \/ scenario = "single" /\ Next /\ UNCHANGED <<scenario, requests>>
    \/ scenario = "parallel" /\ TwoOfThree!Next /\ UNCHANGED <<scenario, requests>>
    \/ scenario = "pair" /\ Pair!Next /\ UNCHANGED <<scenario, requests>>

MCSpec == MCInit /\ [][MCNext]_<<scenario, requests, vars>>

-----------------------------------------------------------------------------
\* Callers are told the truth: a callback frame is written only to the session its
\* caller saw, and its caller learns whether it was; a source search is answered
\* with all the sources of its own files and no others; and what is published as
\* the connected server is the session logged in now.
CallersToldTruth ==
    /\ scenario = "callbacks" => /\ Callbacks!TypeOK /\ Callbacks!CallbackTruth
                                 /\ Callbacks!CallbackOnRoute /\ Callbacks!ConnectedIsLive
    /\ scenario = "sources" => Sources!TypeOK /\ Sources!SourcesExact
    /\ scenario = "crossed" => Crossed!TypeOK /\ Crossed!SourcesExact
    /\ scenario = "keywords" => Keywords!TypeOK /\ Keywords!ConnectedIsLive

\* A request that was taken is not given up while its session goes on, but for a
\* source search that a datagram of a keyword search takes out.
KeptUntilDecided ==
    [][/\ scenario = "sources" => Sources!KeptUntilDecided
       /\ scenario = "crossed" => Crossed!KeptUntilDecided
       /\ scenario = "keywords" => Keywords!KeptUntilDecided]_<<scenario, requests>>

\* Whatever the plan: a session that is not cancelled goes to a server the seen plan
\* selects, evidence is owned only by the lane's session, and a loser of a parallel
\* connect never shows.
SessionsFenced ==
    /\ EvidenceFenced /\ PinnedSession /\ LosersStayPrivate
    /\ scenario = "single" => TypeOK
    /\ scenario = "parallel" => TwoOfThree!TypeOK
    /\ scenario = "pair" => Pair!TypeOK
=============================================================================
