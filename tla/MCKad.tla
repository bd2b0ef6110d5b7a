------------------------------- MODULE MCKad -------------------------------
(***************************************************************************)
(* The Kad lookup and the node's RPC layer for TLC: instances of           *)
(* KadTraversal (phase 1), KadSearchPhase (phase 2), KadSearch (permits    *)
(* and streams), KadRpc (requests, their answers and the operator's        *)
(* pause), KadFlood (inbound budgets), KadPeerKeys (receiver verify keys)  *)
(* and KadPublish (the shared library on Kad).  A behaviour belongs to one *)
(* of them, named by scenario, so that the states explored are their sum;  *)
(* the variables of the others rest.  KadSearch, KadRpc and KadFlood are   *)
(* also extended: what they promise is checked as they state it.           *)
(*                                                                         *)
(* Five or six contacts, request counts of one to three instead of 2, 4    *)
(* and 11, two requests in flight instead of three, and K = 2 instead of   *)
(* 10; two or three calls over channels of one place; one or two shared    *)
(* files with one keyword, one or two stores in flight.                    *)
(***************************************************************************)
EXTENDS KadSearch, KadRpc, KadFlood, Naturals, Sequences, FiniteSets, Functions, TLC

CONSTANTS s1, s2, s3, h1, h2, k1, k2, r1, r2, p1, p2, p3, i1, i2, f1, f2, b1

VARIABLES
  scenario,
  cand, flight, asked, phase, yielded,
  search, lookup, clock, stopped, pc, unsent, nextEmit, attempted, queried, reason, late, after,
  publicIp, learning, keys, reg, upd, lock, observed, changes,
  catalog, name, note, edit, dirty, net, fresh, toBuddy, deferred, cursor, rows, status, tick,
  tasks, active, broken, foreign, admitted, stored, again, early, spent

traversal == <<cand, flight, asked, phase, yielded>>
phase2 == <<search, lookup, clock, stopped, pc, unsent, nextEmit, attempted, queried, reason, late, after>>
peerKeys == <<publicIp, learning, keys, reg, upd, lock, observed, changes>>
publishing == <<catalog, name, note, edit, dirty, net, fresh, toBuddy, deferred, cursor, rows,
                status, tick, tasks, active, broken, foreign, admitted, stored, again, early, spent>>
lookups == <<traversal, phase2, vars>>
node == <<rpcVars, floodVars, peerKeys>>
state == <<lookups, node, publishing>>

-----------------------------------------------------------------------------
\* Everyone on hosts and networks of their own.
Alone(n) == [x \in 1 .. n |-> x]

\* Contacts 1, 2 and 3 share a /24, and 3 and 4 a host.
Clustered == [x \in 1 .. 5 |-> IF x <= 3 THEN 1 ELSE x]
SharedHost == [x \in 1 .. 5 |-> IF x = 4 THEN 3 ELSE x]

ListsUpTo(n, contacts) ==
  {s \in UNION {[1 .. m -> contacts] : m \in 0 .. n} : IsInjective(s)}

\* Any list of up to one entry more than asked for.
ListsOfFour == ListsUpTo(4, 1 .. 5)
FourReply(x) == ListsOfFour

\* Up to two entries, or a list longer than any limit.
PairsOfFive == ListsUpTo(2, 1 .. 5) \cup {[i \in 1 .. 3 |-> 1]}
PairsOfSix == ListsUpTo(2, 1 .. 6) \cup {[i \in 1 .. 3 |-> 1]}
FivePairReply(x) == PairsOfFive
SixPairReply(x) == PairsOfSix

\* Contact x knows someone closer to the target than itself, if there is anyone.
HonestReply(x) == {s \in ListsUpTo(2, 1 .. 6) : x # 1 => \E i \in DOMAIN s : s[i] < x}

Node == INSTANCE KadTraversal WITH
  Contacts <- 1 .. 5, Seeds <- {4, 5}, Kind <- "node", Mode <- "recovery", Alpha <- 2, K <- 2,
  Fanout <- 2, FindNode <- 3, Store <- 2, FindValue <- 1, MoreReasks <- 2,
  Fit <- 1 .. 4, Host <- SharedHost, Net <- Clustered, Mortal <- 1 .. 5, Replies <- FourReply

Value == INSTANCE KadTraversal WITH
  Contacts <- 1 .. 5, Seeds <- {3, 4, 5}, Kind <- "value", Mode <- "maximize", Alpha <- 2, K <- 2,
  Fanout <- 2, FindNode <- 2, Store <- 2, FindValue <- 1, MoreReasks <- 2,
  Fit <- 1 .. 5, Host <- Alone(5), Net <- Alone(5), Mortal <- 1 .. 5, Replies <- FivePairReply

StoreWalk == INSTANCE KadTraversal WITH
  Contacts <- 1 .. 6, Seeds <- {4, 5, 6}, Kind <- "store", Mode <- "recovery", Alpha <- 2, K <- 2,
  Fanout <- 2, FindNode <- 2, Store <- 2, FindValue <- 1, MoreReasks <- 2,
  Fit <- 1 .. 6, Host <- Alone(6), Net <- Alone(6), Mortal <- 1 .. 6, Replies <- SixPairReply

Honest == INSTANCE KadTraversal WITH
  Contacts <- 1 .. 6, Seeds <- {3, 4, 5, 6}, Kind <- "value", Mode <- "recovery", Alpha <- 2, K <- 2,
  Fanout <- 2, FindNode <- 3, Store <- 2, FindValue <- 2, MoreReasks <- 2,
  Fit <- 1 .. 6, Host <- Alone(6), Net <- Alone(6), Mortal <- {}, Replies <- HonestReply

Refresh == INSTANCE KadTraversal WITH
  Contacts <- 1 .. 6, Seeds <- {3, 4, 5, 6}, Kind <- "refresh", Mode <- "recovery", Alpha <- 2, K <- 2,
  Fanout <- 2, FindNode <- 2, Store <- 2, FindValue <- 1, MoreReasks <- 2,
  Fit <- 1 .. 6, Host <- Alone(6), Net <- Alone(6), Mortal <- 1 .. 6, Replies <- SixPairReply

Phase == INSTANCE KadSearchPhase WITH
  Timeouts <- {4, 15}, Fanouts <- {1, 3}, MaxResponders <- 3, ResponseGrace <- 1,
  QueryTimeout <- 4, IdleGrace <- 3, Tick <- 2, Margin <- 2, Lag <- 1, MaxSend <- 1,
  cancelled <- stopped, now <- clock, pending <- unsent, sent <- queried

\* A search and two publishes, two of them for one key, under two permits.
ThreeSearches == {s1, s2, s3}
Targets == (s1 :> k1) @@ (s2 :> k1) @@ (s3 :> k2)
Styles == (s1 :> "source") @@ (s2 :> "publish") @@ (s3 :> "publish")

\* Two searches for different keys, of which one permit lets one run.
Streams == INSTANCE KadSearch WITH
  Searches <- {s1, s3}, Style <- (s1 :> "keyword") @@ (s3 :> "source"),
  MaxConcurrent <- 1, MaxObservations <- 2

\* Two requests that ask one address, on different ports.
OneAddress == (r1 :> [ip |-> 1, port |-> 1]) @@ (r2 :> [ip |-> 1, port |-> 2])
BothPublish == (r1 :> "key") @@ (r2 :> "source")

Mixed == INSTANCE KadRpc WITH Op <- (r1 :> "key") @@ (r2 :> "req"), MaxDatagrams <- 2, MaxStops <- 1

\* CALLBACK_REQ has one packet a window, PING two.
PacketLimits == ("callback" :> 1) @@ ("ping" :> 2)

PeerKeys == INSTANCE KadPeerKeys WITH
  Peers <- {p1, p2, p3}, PublicIps <- {i1, i2},
  Persisted <- (p1 :> i1) @@ (p2 :> i2) @@ (p3 :> Absent),
  PeerMapCap <- 2, MaxChanges <- 2, Receiver <- "receive loop",
  Sync <- "address task", Stop <- "disconnect"

\* In-flight caps of the kinds: one each, or two for those that may have several.
OneOfAKind == [k \in {"source", "keyword", "notes"} |-> 1]
TwoOfAKind == [k \in {"source", "keyword", "notes"} |-> IF k = "notes" THEN 1 ELSE 2]

\* The comment of a file is edited twice.
Noted == INSTANCE KadPublish WITH
  Files <- {f1}, Keywords <- {k1}, Buddies <- {b1}, Names <- {1},
  TermsOf <- <<<<k1>>>>, Priority <- [f \in {f1} |-> 1],
  Library <- [f \in {f1} |-> "complete"],
  Window <- 2, Batch <- 2, Cap <- OneOfAKind, MaxSearches <- 2, Reserved <- 1,
  Contacts <- 1, Fanout <- 1, Chunks <- 1,
  MaxEdits <- 2, MaxMoves <- 0, MaxExpiries <- 0, MaxRestarts <- 0, MaxForeign <- 0,
  MaxNet <- 0, MaxFaults <- 0, MaxPanics <- 0, loop <- tick

\* Of two files one is completed, renamed or taken out.
Moved == INSTANCE KadPublish WITH
  Files <- {f1, f2}, Keywords <- {k1}, Buddies <- {b1}, Names <- {1, 2},
  TermsOf <- <<<<k1>>, <<>>>>, Priority <- [f \in {f1, f2} |-> 1],
  Library <- (f1 :> "complete") @@ (f2 :> "part"),
  Window <- 2, Batch <- 2, Cap <- OneOfAKind, MaxSearches <- 2, Reserved <- 1,
  Contacts <- 1, Fanout <- 1, Chunks <- 1,
  MaxEdits <- 0, MaxMoves <- 1, MaxExpiries <- 0, MaxRestarts <- 0, MaxForeign <- 0,
  MaxNet <- 0, MaxFaults <- 0, MaxPanics <- 0, loop <- tick

\* Clocks run out, the process restarts and the network changes.
Restarted == INSTANCE KadPublish WITH
  Files <- {f1}, Keywords <- {k1}, Buddies <- {b1}, Names <- {1},
  TermsOf <- <<<<k1>>>>, Priority <- [f \in {f1} |-> 1],
  Library <- [f \in {f1} |-> "complete"],
  Window <- 2, Batch <- 2, Cap <- OneOfAKind, MaxSearches <- 2, Reserved <- 1,
  Contacts <- 1, Fanout <- 1, Chunks <- 1,
  MaxEdits <- 0, MaxMoves <- 0, MaxExpiries <- 1, MaxRestarts <- 1, MaxForeign <- 0,
  MaxNet <- 1, MaxFaults <- 0, MaxPanics <- 0, loop <- tick

\* A write, a delete or the load of the rows fails; a comment is edited, and a restart.
Faulty == INSTANCE KadPublish WITH
  Files <- {f1}, Keywords <- {k1}, Buddies <- {b1}, Names <- {1},
  TermsOf <- <<<<k1>>>>, Priority <- [f \in {f1} |-> 1],
  Library <- [f \in {f1} |-> "complete"],
  Window <- 2, Batch <- 2, Cap <- OneOfAKind, MaxSearches <- 2, Reserved <- 1,
  Contacts <- 1, Fanout <- 1, Chunks <- 1,
  MaxEdits <- 1, MaxMoves <- 0, MaxExpiries <- 0, MaxRestarts <- 1, MaxForeign <- 0,
  MaxNet <- 0, MaxFaults <- 1, MaxPanics <- 0, loop <- tick

\* Two stores at once, of which a source and a note of one file want the same target.
Crowded == INSTANCE KadPublish WITH
  Files <- {f1}, Keywords <- {k1}, Buddies <- {b1}, Names <- {1},
  TermsOf <- <<<<k1>>>>, Priority <- [f \in {f1} |-> 1],
  Library <- [f \in {f1} |-> "complete"],
  Window <- 2, Batch <- 2, Cap <- OneOfAKind, MaxSearches <- 3, Reserved <- 1,
  Contacts <- 1, Fanout <- 1, Chunks <- 1,
  MaxEdits <- 1, MaxMoves <- 0, MaxExpiries <- 0, MaxRestarts <- 0, MaxForeign <- 0,
  MaxNet <- 0, MaxFaults <- 0, MaxPanics <- 0, loop <- tick

\* Others search too while the comment is edited.
Shared == INSTANCE KadPublish WITH
  Files <- {f1}, Keywords <- {k1}, Buddies <- {b1}, Names <- {1},
  TermsOf <- <<<<k1>>>>, Priority <- [f \in {f1} |-> 1],
  Library <- [f \in {f1} |-> "complete"],
  Window <- 2, Batch <- 2, Cap <- OneOfAKind, MaxSearches <- 2, Reserved <- 1,
  Contacts <- 1, Fanout <- 1, Chunks <- 1,
  MaxEdits <- 1, MaxMoves <- 0, MaxExpiries <- 0, MaxRestarts <- 0, MaxForeign <- 1,
  MaxNet <- 0, MaxFaults <- 0, MaxPanics <- 0, loop <- tick

\* Two stores at once, also of one source, as the firewall states and the buddy change; a
\* task may panic.
Rerouted == INSTANCE KadPublish WITH
  Files <- {f1}, Keywords <- {k1}, Buddies <- {b1}, Names <- {1},
  TermsOf <- <<<<k1>>>>, Priority <- [f \in {f1} |-> 1],
  Library <- [f \in {f1} |-> "complete"],
  Window <- 2, Batch <- 2, Cap <- TwoOfAKind, MaxSearches <- 3, Reserved <- 1,
  Contacts <- 1, Fanout <- 1, Chunks <- 1,
  MaxEdits <- 0, MaxMoves <- 0, MaxExpiries <- 0, MaxRestarts <- 0, MaxForeign <- 0,
  MaxNet <- 1, MaxFaults <- 0, MaxPanics <- 1, loop <- tick

ASSUME /\ Node!TraversalAssumption /\ Value!TraversalAssumption /\ StoreWalk!TraversalAssumption
       /\ Honest!TraversalAssumption /\ Refresh!TraversalAssumption
       /\ SearchAssumption /\ Streams!SearchAssumption /\ FloodAssumption
       /\ RpcAssumption /\ Mixed!RpcAssumption

-----------------------------------------------------------------------------
\* No phase 2 yet: what its variables hold while another scenario runs.
NoPhase2 ==
  /\ search = Absent /\ lookup = Absent /\ clock = 0 /\ stopped = FALSE /\ pc = "done"
  /\ unsent = {} /\ nextEmit = 0 /\ attempted = {} /\ queried = {} /\ reason = "none"
  /\ late = 0 /\ after = 0

\* What the variables of the publishing hold while another scenario runs.
NoPublishing ==
  /\ catalog = Absent /\ name = Absent /\ note = Absent /\ edit = Absent /\ dirty = Absent
  /\ net = Absent /\ fresh = Absent /\ toBuddy = Absent /\ deferred = Absent /\ cursor = Absent
  /\ rows = Absent /\ status = Absent /\ tick = Absent /\ tasks = Absent /\ active = Absent
  /\ broken = Absent /\ foreign = Absent /\ admitted = Absent /\ stored = Absent /\ again = Absent
  /\ early = Absent /\ spent = Absent

NoLookup == Node!Init /\ NoPhase2 /\ Streams!Init
NoNode == Mixed!RpcInit /\ FloodInit /\ PeerKeys!Init

MCInit ==
  \/ scenario = "node" /\ Node!Init /\ NoPhase2 /\ Streams!Init /\ NoNode /\ NoPublishing
  \/ scenario = "value" /\ Value!Init /\ NoPhase2 /\ Streams!Init /\ NoNode /\ NoPublishing
  \/ scenario = "store" /\ StoreWalk!Init /\ NoPhase2 /\ Streams!Init /\ NoNode /\ NoPublishing
  \/ scenario = "honest" /\ Honest!Init /\ NoPhase2 /\ Streams!Init /\ NoNode /\ NoPublishing
  \/ scenario = "refresh" /\ Refresh!Init /\ NoPhase2 /\ Streams!Init /\ NoNode /\ NoPublishing
  \/ scenario = "phase2" /\ Node!Init /\ Phase!Init /\ Streams!Init /\ NoNode /\ NoPublishing
  \/ scenario = "permits" /\ Node!Init /\ NoPhase2 /\ Init /\ NoNode /\ NoPublishing
  \/ scenario = "publishes" /\ NoLookup /\ RpcInit /\ FloodInit /\ PeerKeys!Init /\ NoPublishing
  \/ scenario \in {"streams", "mixed", "flood", "keys"} /\ NoLookup /\ NoNode /\ NoPublishing
  \/ scenario = "noted" /\ NoLookup /\ NoNode /\ Noted!Init
  \/ scenario = "moved" /\ NoLookup /\ NoNode /\ Moved!Init
  \/ scenario = "restarted" /\ NoLookup /\ NoNode /\ Restarted!Init
  \/ scenario = "faulty" /\ NoLookup /\ NoNode /\ Faulty!Init
  \/ scenario = "crowded" /\ NoLookup /\ NoNode /\ Crowded!Init
  \/ scenario = "shared" /\ NoLookup /\ NoNode /\ Shared!Init
  \/ scenario = "rerouted" /\ NoLookup /\ NoNode /\ Rerouted!Init

MCNext ==
  \/ scenario = "node" /\ Node!Next /\ UNCHANGED <<scenario, phase2, vars, node, publishing>>
  \/ scenario = "value" /\ Value!Next /\ UNCHANGED <<scenario, phase2, vars, node, publishing>>
  \/ scenario = "store" /\ StoreWalk!Next /\ UNCHANGED <<scenario, phase2, vars, node, publishing>>
  \/ scenario = "honest" /\ Honest!Next /\ UNCHANGED <<scenario, phase2, vars, node, publishing>>
  \/ scenario = "refresh" /\ Refresh!Next /\ UNCHANGED <<scenario, phase2, vars, node, publishing>>
  \/ scenario = "phase2" /\ Phase!Next /\ UNCHANGED <<scenario, traversal, vars, node, publishing>>
  \/ scenario = "streams" /\ Streams!Next /\ UNCHANGED <<scenario, traversal, phase2, node, publishing>>
  \/ scenario = "permits" /\ Next /\ UNCHANGED <<scenario, traversal, phase2, node, publishing>>
  \/ scenario = "publishes" /\ RpcNext /\ UNCHANGED <<scenario, lookups, floodVars, peerKeys, publishing>>
  \/ scenario = "mixed" /\ Mixed!RpcNext /\ UNCHANGED <<scenario, lookups, floodVars, peerKeys, publishing>>
  \/ scenario = "flood" /\ FloodNext /\ UNCHANGED <<scenario, lookups, rpcVars, peerKeys, publishing>>
  \/ scenario = "keys" /\ PeerKeys!Next /\ UNCHANGED <<scenario, lookups, rpcVars, floodVars, publishing>>
  \/ scenario = "noted" /\ Noted!Next /\ UNCHANGED <<scenario, lookups, node>>
  \/ scenario = "moved" /\ Moved!Next /\ UNCHANGED <<scenario, lookups, node>>
  \/ scenario = "restarted" /\ Restarted!Next /\ UNCHANGED <<scenario, lookups, node>>
  \/ scenario = "faulty" /\ Faulty!Next /\ UNCHANGED <<scenario, lookups, node>>
  \/ scenario = "crowded" /\ Crowded!Next /\ UNCHANGED <<scenario, lookups, node>>
  \/ scenario = "shared" /\ Shared!Next /\ UNCHANGED <<scenario, lookups, node>>
  \/ scenario = "rerouted" /\ Rerouted!Next /\ UNCHANGED <<scenario, lookups, node>>

MCSpec == MCInit /\ [][MCNext]_<<scenario, state>>

-----------------------------------------------------------------------------
\* A lookup that ends by itself leaves no untried contact in front of its limit, and
\* in an honest network has found the closest one; a refresh stops at its first
\* answer; at most ALPHA requests are in flight where no wider one is made, and the
\* wider one goes to a few contacts that answered and costs none of them.
FrontierSettled ==
    /\ scenario = "node" => Node!TypeOK /\ Node!FrontierSettled /\ Node!AlphaCeiling
    /\ scenario = "value" => Value!TypeOK /\ Value!FrontierSettled /\ Value!WiderOnlyFromResponders
    /\ scenario = "store" => StoreWalk!TypeOK /\ StoreWalk!FrontierSettled /\ StoreWalk!AlphaCeiling
    /\ scenario = "honest" => Honest!FindsNearest
    /\ scenario = "refresh" => Refresh!TypeOK /\ Refresh!RefreshStopsOnAnswer

\* Phase 2 does what its budget promises: the closest responder is asked however
\* late the lookup ended, a search of normal length asks its whole fanout with time
\* to answer, a cancelled one sends at most the packet whose slot has come, and the
\* terminal reason tells what was sent.
FanoutWalked ==
    scenario = "phase2" => /\ Phase!TypeOK /\ Phase!AlwaysQueried /\ Phase!FanoutWalked
                           /\ Phase!CancelStops /\ Phase!ReasonTruthful

\* Every step of a walk uses up something that cannot come back, so every lookup
\* ends; and one answer adds no more than was asked for, nor than two of one /24.
UsesUpEffort ==
    [][/\ scenario = "node" => Node!UsesUpEffort /\ Node!NoTakeover
       /\ scenario = "value" => Value!UsesUpEffort
       /\ scenario = "store" => StoreWalk!UsesUpEffort /\ StoreWalk!NoTakeover]_traversal


\* Publishing keeps to its limits and clocks: the loop counts the stores in flight and
\* those whose task panicked, no source or note is repeated before its interval without a
\* reason, clocks and rows agree while the rows can be written, an edited comment is not
\* held back by the clock of the old one while the program runs, and what is shown as
\* being published is.
PublishingPaced ==
    /\ scenario = "noted" => Noted!Paced
    /\ scenario = "moved" => Moved!Paced
    /\ scenario = "restarted" => Restarted!Paced
    /\ scenario = "faulty" => Faulty!Paced
    /\ scenario = "crowded" => Crowded!Paced
    /\ scenario = "shared" => Shared!Paced
    /\ scenario = "rerouted" => Rerouted!Paced
=============================================================================
