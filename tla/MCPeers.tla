------------------------------ MODULE MCPeers ------------------------------
(***************************************************************************)
(* Connections with peers for TLC: ConnectionBudget, instances of          *)
(* CallbackTickets, and instances of UploadQueue with two clients, two     *)
(* connections and at most one dial or callback under way.  A behaviour    *)
(* belongs to one of them, named by scenario, so that the states explored  *)
(* are their sum; the variables of the others rest.                        *)
(***************************************************************************)
EXTENDS ConnectionBudget, TLC

CONSTANTS p1, p2, server, buddy, f1, f2, t1, t2, s1, s2, Absent,
          c1, c2, u1, i1, i2, k1, k2

VARIABLES scenario, tickets, cooldown, pc, permit, serving, driving,
          queue, conns, tasks, banned, shared

callbacks == <<tickets, cooldown, pc, permit, serving, driving>>
uploads == <<queue, conns, tasks, banned, shared>>

\* A tight and a loose configuration, each with another limit that binds first.
TightOrLoose ==
    {[maxConnections |-> 3, maxPerWindow |-> 2, maxHalfOpen |-> 2],
     [maxConnections |-> 0, maxPerWindow |-> 3, maxHalfOpen |-> 1]}

\* One peer over one route: two attempts, two files.
Attempts == INSTANCE CallbackTickets WITH
    Peers <- {p1}, Routes <- {buddy}, ServerRoutes <- {}, Files <- {f1, f2},
    Tasks <- {t1, t2}, Sessions <- {s1},
    TicketCapacity <- 2, DownloadCapacity <- 2, ClaimCapacity <- 2, Window <- 1, Cooldown <- 2

\* One peer over a server and a buddy, with more files than a session may take.
TwoRoutes == INSTANCE CallbackTickets WITH
    Peers <- {p1}, Routes <- {server, buddy}, ServerRoutes <- {server}, Files <- {f1, f2},
    Tasks <- {t1}, Sessions <- {s1},
    TicketCapacity <- 1, DownloadCapacity <- 1, ClaimCapacity <- 1, Window <- 1, Cooldown <- 1

\* Two peers on one server, their hashes known or not, and two connections.
TwoPeers == INSTANCE CallbackTickets WITH
    Peers <- {p1, p2}, Routes <- {server}, ServerRoutes <- {server}, Files <- {f1},
    Tasks <- {t1}, Sessions <- {s1, s2},
    TicketCapacity <- 2, DownloadCapacity <- 1, ClaimCapacity <- 1, Window <- 1, Cooldown <- 1

TwoClients == {c1, c2}
Equal == [x \in TwoClients |-> 1]
OneIp == [x \in TwoClients |-> {i1}]
OneSlot == {[base |-> 1, elastic |-> 0, soft |-> 4, hard |-> 4]}
Shrinking == {[base |-> 1, elastic |-> 1, soft |-> 1, hard |-> 2],
              [base |-> 1, elastic |-> 0, soft |-> 1, hard |-> 1]}

\* A HighID and a LowID client; the file may be withdrawn.
Calls == INSTANCE UploadQueue WITH
    Clients <- TwoClients, Files <- {u1}, Withdrawn <- {u1}, Ips <- {i1, i2},
    IpsOf <- (c1 :> {i1}) @@ (c2 :> {i2}), Conns <- {k1, k2}, Tasks <- {t1},
    LowId <- {c2}, Friends <- {}, Guarded <- {}, Verifiers <- {},
    Expiries <- {"late"}, Weight <- Equal, Policies <- OneSlot,
    Lines <- {"lull"}, MinUp <- 2, PerIp <- 3, CallbackGuard <- 50, MaxExpire <- 1

\* Two clients of one address that take turns.
Rotation == INSTANCE UploadQueue WITH
    Clients <- TwoClients, Files <- {u1}, Withdrawn <- {}, Ips <- {i1},
    IpsOf <- OneIp, Conns <- {k1, k2}, Tasks <- {t1},
    LowId <- {}, Friends <- {}, Guarded <- {}, Verifiers <- {},
    Expiries <- {"purge", "slow"},
    Weight <- Equal, Policies <- OneSlot,
    Lines <- {"lull"}, MinUp <- 2, PerIp <- 3, CallbackGuard <- 50, MaxExpire <- 1

\* Clients that prove their identity, and connections that claim the same one.
Identity == INSTANCE UploadQueue WITH
    Clients <- TwoClients, Files <- {u1}, Withdrawn <- {}, Ips <- {i1},
    IpsOf <- OneIp, Conns <- {k1, k2}, Tasks <- {},
    LowId <- {}, Friends <- {}, Guarded <- {}, Verifiers <- TwoClients,
    Expiries <- {"banned"}, Weight <- Equal, Policies <- OneSlot,
    Lines <- {"lull"}, MinUp <- 2, PerIp <- 3, CallbackGuard <- 50, MaxExpire <- 1

\* The operator lowers the limits, the line opens and closes a second slot, and
\* the driver dials nobody.
Limits == INSTANCE UploadQueue WITH
    Clients <- TwoClients, Files <- {u1}, Withdrawn <- {}, Ips <- {i1},
    IpsOf <- OneIp, Conns <- {k1, k2}, Tasks <- {},
    LowId <- {}, Friends <- {}, Guarded <- {c2}, Verifiers <- {},
    Expiries <- {"drained", "capped"}, Weight <- (c1 :> 2) @@ (c2 :> 1), Policies <- Shrinking,
    Lines <- {"lull", "short", "burst"}, MinUp <- 1, PerIp <- 3, CallbackGuard <- 0, MaxExpire <- 1

ASSUME /\ Attempts!CallbackAssumption /\ TwoRoutes!CallbackAssumption
       /\ TwoPeers!CallbackAssumption

Alike == Permutations({p1, p2}) \cup Permutations({k1, k2})

\* What the variables of a part hold while another one runs.
NoBudget == Init /\ config = CHOOSE c \in Configs : TRUE
NoCallbacks ==
    /\ tickets = Absent /\ cooldown = Absent /\ pc = Absent /\ permit = Absent
    /\ serving = Absent /\ driving = Absent
NoUploads ==
    queue = Absent /\ conns = Absent /\ tasks = Absent /\ banned = Absent /\ shared = Absent

MCInit ==
    \/ scenario = "budget" /\ Init /\ NoCallbacks /\ NoUploads
    \/ scenario = "attempts" /\ Attempts!Init /\ NoBudget /\ NoUploads
    \/ scenario = "routes" /\ TwoRoutes!Init /\ NoBudget /\ NoUploads
    \/ scenario = "peers" /\ TwoPeers!Init /\ NoBudget /\ NoUploads
    \/ scenario = "calls" /\ Calls!Init /\ NoBudget /\ NoCallbacks
    \/ scenario = "rotation" /\ Rotation!Init /\ NoBudget /\ NoCallbacks
    \/ scenario = "identity" /\ Identity!Init /\ NoBudget /\ NoCallbacks
    \/ scenario = "limits" /\ Limits!Init /\ NoBudget /\ NoCallbacks

MCNext ==
    \/ scenario = "budget" /\ Next /\ UNCHANGED <<scenario, callbacks, uploads>>
    \/ scenario = "attempts" /\ Attempts!Next /\ UNCHANGED <<scenario, vars, uploads>>
    \/ scenario = "routes" /\ TwoRoutes!Next /\ UNCHANGED <<scenario, vars, uploads>>
    \/ scenario = "peers" /\ TwoPeers!Next /\ UNCHANGED <<scenario, vars, uploads>>
    \/ scenario = "calls" /\ Calls!Next /\ UNCHANGED <<scenario, vars, callbacks>>
    \/ scenario = "rotation" /\ Rotation!Next /\ UNCHANGED <<scenario, vars, callbacks>>
    \/ scenario = "identity" /\ Identity!Next /\ UNCHANGED <<scenario, vars, callbacks>>
    \/ scenario = "limits" /\ Limits!Next /\ UNCHANGED <<scenario, vars, callbacks>>

MCSpec == MCInit /\ [][MCNext]_<<scenario, vars, callbacks, uploads>>

-----------------------------------------------------------------------------
\* The ticket store is consistent: every ticket being dispatched has a live guard,
\* two requests for one peer and route are never on the wire together, a session
\* holds tickets exactly while it runs, all of one peer, and store, ticket and
\* session stay within their capacities.
TicketsOwned ==
    /\ scenario = "attempts" => /\ Attempts!TypeOK /\ Attempts!GuardOwnsDispatch
                                /\ Attempts!OneRequestInFlight
    /\ scenario = "routes" => TwoRoutes!TypeOK /\ TwoRoutes!WithinCapacity
    /\ scenario = "peers" => /\ TwoPeers!TypeOK /\ TwoPeers!SessionHoldsTickets
                             /\ TwoPeers!OnePeerPerSession

\* A file waiting for a callback is given up only for one of the three reasons the
\* code has, and while a guard lives only a session takes its ticket from it.
FilesAccounted ==
    [][scenario = "attempts" => Attempts!DispatchUndisturbed /\ Attempts!FilesAccounted]_callbacks

\* waiting_order lists exactly the entries that wait, within the hard capacity; a
\* slot granted to a peer without a connection is fetched by the driver or has its
\* promotion deadline running; and only a waiter holds a callback entitlement.
GrantsTracked ==
    /\ scenario = "calls" => /\ Calls!TypeOK /\ Calls!OrderIsWaiting
                             /\ Calls!DetachedGrantTracked /\ Calls!EntitlementWaits
    /\ scenario = "rotation" => Rotation!OrderIsWaiting /\ Rotation!DetachedGrantTracked
    /\ scenario = "limits" => Limits!QueueWithinCapacity

\* Turns are kept: a newcomer does not overtake a connected waiter of no smaller
\* weight, a slot whose payload is being sent is not demoted, a connected entry
\* changes its connection only for a proven identity, and slots grow only to the
\* limit in force, or one beyond it on a callback, at the pace of the line.
TurnsKept ==
    [][/\ scenario = "calls" => Calls!SlotsWithinLimit
       /\ scenario = "rotation" => Rotation!NoQueueJumping /\ Rotation!WorkNotDemoted
       /\ scenario = "identity" => Identity!AttachedEntryKept
       /\ scenario = "limits" => Limits!SlotsWithinLimit /\ Limits!PacedOpening]_uploads
=============================================================================
