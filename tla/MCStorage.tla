----------------------------- MODULE MCStorage -----------------------------
(***************************************************************************)
(* The piece store, the delivery of completed files and the shared library *)
(* for TLC: instances of PieceStore, Delivery and SharedFolders.  A        *)
(* behaviour belongs to one of them, named by scenario, so that the states *)
(* explored are their sum; the variables of the others rest.  Delivery is  *)
(* also extended: what it promises is checked as it states it.             *)
(*                                                                         *)
(* Two parts of two blocks, or one; one fault of each kind.  Delivery has  *)
(* one candidate name more than the operator can take, and one copy        *)
(* identity more than can be in use.  The library has two paths under one  *)
(* root, three generations of bytes of which two are alike, and an action  *)
(* channel of one place.                                                   *)
(***************************************************************************)
EXTENDS Delivery, Naturals, TLC

CONSTANTS s1, s2, operator, driver, p1, p2, f1, f2, f3, h1, h2, r1

VARIABLES scenario, disk, synced, len, mem, db, dirty, pc, job, draft, rows,
    rehash, recheck, sought, up, budget,
    tree, mounted, instance, member, accessible, session, failure, shared, catalog, events,
    queue, latch, consumer, running, pending, scan, asking, leaving, seen, rejoin, invalid,
    repair, owed, stale, skipped, changes, flips, requests, misses

pieceStore == <<disk, synced, len, mem, db, dirty, pc, job, draft, rows,
                rehash, recheck, sought, up, budget>>
library == <<tree, mounted, instance, member, accessible, session, failure, shared, catalog,
             events, queue, latch, consumer, running, pending, scan, asking, leaving, seen, rejoin,
             invalid, repair, owed, stale, skipped, changes, flips, requests, misses>>
state == <<pieceStore, vars, library>>

\* One session, two parts: a bad block, a power loss, the operator's recheck.
One == INSTANCE PieceStore WITH
    Sessions <- {s1}, Operator <- operator, Driver <- driver,
    NumParts <- 2, NumBlocks <- 2, Frag <- 1,
    Budget <- [bad |-> 1, crash |-> 1, fail |-> 0, recheck |-> 1]

\* One session, one part: the same, and a store that fails.
Failing == INSTANCE PieceStore WITH
    Sessions <- {s1}, Operator <- operator, Driver <- driver,
    NumParts <- 1, NumBlocks <- 2, Frag <- 1,
    Budget <- [bad |-> 1, crash |-> 1, fail |-> 1, recheck |-> 1]

\* Two sessions that write to the same parts; one bad block.
Two == INSTANCE PieceStore WITH
    Sessions <- {s1, s2}, Operator <- operator, Driver <- driver,
    NumParts <- 2, NumBlocks <- 2, Frag <- 1,
    Budget <- [bad |-> 1, crash |-> 0, fail |-> 0, recheck |-> 0]

\* Two sessions write to one part, and the power goes.
Late == INSTANCE PieceStore WITH
    Sessions <- {s1, s2}, Operator <- operator, Driver <- driver,
    NumParts <- 1, NumBlocks <- 2, Frag <- 1,
    Budget <- [bad |-> 1, crash |-> 1, fail |-> 0, recheck |-> 0]

\* The operator meddles with the destination directory; calls fail.
AnyMeddling == {"touch", "change", "remove", "replace", "occupy"}

\* The piece store loses bytes and a recorded output cannot be read back.
Damaged == INSTANCE Delivery WITH
    Meddling <- {"change", "remove", "occupy"},
    MaxFaults <- 2, DiskDamage <- TRUE, Unreadable <- TRUE

\* A loaded library: two changes of the tree, and every shape in which a rename is reported.
Watched == INSTANCE SharedFolders WITH
    Paths <- {p1, p2}, Roots <- {r1}, RootOf <- [p \in {p1, p2} |-> r1],
    DiskOf <- [p \in {p1, p2} |-> 1], Files <- {f1, f2, f3},
    HashOf <- (f1 :> h1) @@ (f2 :> h2) @@ (f3 :> h1),
    SizeOf <- (f1 :> 1) @@ (f2 :> 2) @@ (f3 :> 1), Start <- (p1 :> f1) @@ (p2 :> Absent),
    Capacity <- 1, CohortFiles <- 1, CohortBytes <- 1, MaxAttempts <- 2,
    Ignored <- {}, Loaded <- TRUE, Shapes <- {"pair", "one side", "both"}, Recreates <- FALSE,
    MaxChanges <- 2, MaxFlips <- 0, MaxRequests <- 0, MaxFaults <- 0,
    disk <- tree, up <- mounted, job <- scan, rehash <- repair, faults <- misses

\* The startup reload beside a change; a file that is ignored and one that cannot be read.
Loading == INSTANCE SharedFolders WITH
    Paths <- {p1, p2}, Roots <- {r1}, RootOf <- [p \in {p1, p2} |-> r1],
    DiskOf <- [p \in {p1, p2} |-> 1], Files <- {f1, f2, f3},
    HashOf <- (f1 :> h1) @@ (f2 :> h2) @@ (f3 :> h1),
    SizeOf <- (f1 :> 1) @@ (f2 :> 2) @@ (f3 :> 1), Start <- (p1 :> f1) @@ (p2 :> Absent),
    Capacity <- 1, CohortFiles <- 1, CohortBytes <- 1, MaxAttempts <- 2,
    Ignored <- {f2}, Loaded <- FALSE, Shapes <- {"pair"}, Recreates <- FALSE,
    MaxChanges <- 1, MaxFlips <- 0, MaxRequests <- 0, MaxFaults <- 1,
    disk <- tree, up <- mounted, job <- scan, rehash <- repair, faults <- misses

\* The root goes and comes back while the operator edits the roots or asks for a reload.
Mounting == INSTANCE SharedFolders WITH
    Paths <- {p1, p2}, Roots <- {r1}, RootOf <- [p \in {p1, p2} |-> r1],
    DiskOf <- [p \in {p1, p2} |-> 1], Files <- {f1, f2, f3},
    HashOf <- (f1 :> h1) @@ (f2 :> h2) @@ (f3 :> h1),
    SizeOf <- (f1 :> 1) @@ (f2 :> 2) @@ (f3 :> 1), Start <- (p1 :> f1) @@ (p2 :> Absent),
    Capacity <- 1, CohortFiles <- 1, CohortBytes <- 1, MaxAttempts <- 2,
    Ignored <- {}, Loaded <- TRUE, Shapes <- {"pair"}, Recreates <- FALSE,
    MaxChanges <- 0, MaxFlips <- 2, MaxRequests <- 1, MaxFaults <- 0,
    disk <- tree, up <- mounted, job <- scan, rehash <- repair, faults <- misses

\* A change while the operator edits the roots or asks for a reload.
Asked == INSTANCE SharedFolders WITH
    Paths <- {p1, p2}, Roots <- {r1}, RootOf <- [p \in {p1, p2} |-> r1],
    DiskOf <- [p \in {p1, p2} |-> 1], Files <- {f1, f2, f3},
    HashOf <- (f1 :> h1) @@ (f2 :> h2) @@ (f3 :> h1),
    SizeOf <- (f1 :> 1) @@ (f2 :> 2) @@ (f3 :> 1), Start <- (p1 :> f1) @@ (p2 :> Absent),
    Capacity <- 1, CohortFiles <- 1, CohortBytes <- 1, MaxAttempts <- 2,
    Ignored <- {}, Loaded <- TRUE, Shapes <- {"pair"}, Recreates <- FALSE,
    MaxChanges <- 1, MaxFlips <- 0, MaxRequests <- 1, MaxFaults <- 0,
    disk <- tree, up <- mounted, job <- scan, rehash <- repair, faults <- misses

\* Two changes, and a path may be written again while its rename is queued.
Backup == INSTANCE SharedFolders WITH
    Paths <- {p1, p2}, Roots <- {r1}, RootOf <- [p \in {p1, p2} |-> r1],
    DiskOf <- [p \in {p1, p2} |-> 1], Files <- {f1, f2, f3},
    HashOf <- (f1 :> h1) @@ (f2 :> h2) @@ (f3 :> h1),
    SizeOf <- (f1 :> 1) @@ (f2 :> 2) @@ (f3 :> 1), Start <- (p1 :> f1) @@ (p2 :> Absent),
    Capacity <- 1, CohortFiles <- 1, CohortBytes <- 1, MaxAttempts <- 2,
    Ignored <- {}, Loaded <- TRUE, Shapes <- {"pair"}, Recreates <- TRUE,
    MaxChanges <- 2, MaxFlips <- 0, MaxRequests <- 0, MaxFaults <- 0,
    disk <- tree, up <- mounted, job <- scan, rehash <- repair, faults <- misses

ASSUME /\ One!PieceStateAssumption /\ One!PieceStoreAssumption
       /\ Failing!PieceStateAssumption /\ Failing!PieceStoreAssumption
       /\ Two!PieceStateAssumption /\ Two!PieceStoreAssumption
       /\ Late!PieceStateAssumption /\ Late!PieceStoreAssumption
       /\ DeliveryAssumption /\ Damaged!DeliveryAssumption

\* What the variables of the library hold while another scenario runs.
NoLibrary ==
    /\ tree = Absent /\ mounted = Absent /\ instance = Absent /\ member = Absent
    /\ accessible = Absent /\ session = Absent /\ failure = Absent /\ shared = Absent
    /\ catalog = Absent /\ events = Absent /\ queue = Absent /\ latch = Absent
    /\ consumer = Absent /\ running = Absent /\ pending = Absent /\ scan = Absent
    /\ asking = Absent /\ leaving = Absent /\ seen = Absent /\ rejoin = Absent
    /\ invalid = Absent /\ repair = Absent /\ owed = Absent /\ stale = Absent /\ skipped = Absent
    /\ changes = Absent /\ flips = Absent /\ requests = Absent /\ misses = Absent

MCInit ==
    \/ scenario = "one" /\ One!Init /\ Init /\ NoLibrary
    \/ scenario = "failing" /\ Failing!Init /\ Init /\ NoLibrary
    \/ scenario = "two" /\ Two!Init /\ Init /\ NoLibrary
    \/ scenario = "meddled" /\ Failing!Init /\ Init /\ NoLibrary
    \/ scenario = "damaged" /\ Failing!Init /\ Damaged!Init /\ NoLibrary
    \/ /\ scenario \in {"watched", "mounting", "asked"}
       /\ Failing!Init /\ Init /\ Watched!Init
    \/ scenario = "loading" /\ Failing!Init /\ Init /\ Loading!Init

MCNext ==
    \/ scenario = "one" /\ One!Next /\ UNCHANGED <<scenario, vars, library>>
    \/ scenario = "failing" /\ Failing!Next /\ UNCHANGED <<scenario, vars, library>>
    \/ scenario = "two" /\ Two!Next /\ UNCHANGED <<scenario, vars, library>>
    \/ scenario = "meddled" /\ Next /\ UNCHANGED <<scenario, pieceStore, library>>
    \/ scenario = "damaged" /\ Damaged!Next /\ UNCHANGED <<scenario, pieceStore, library>>
    \/ scenario = "watched" /\ Watched!Next /\ UNCHANGED <<scenario, pieceStore, vars>>
    \/ scenario = "loading" /\ Loading!Next /\ UNCHANGED <<scenario, pieceStore, vars>>
    \/ scenario = "mounting" /\ Mounting!Next /\ UNCHANGED <<scenario, pieceStore, vars>>
    \/ scenario = "asked" /\ Asked!Next /\ UNCHANGED <<scenario, pieceStore, vars>>

MCSpec == MCInit /\ [][MCNext]_<<scenario, state>>

LateInit == scenario = "late" /\ Late!Init /\ Init /\ NoLibrary
LateNext == Late!Next /\ UNCHANGED <<scenario, vars, library>>
LateSpec == LateInit /\ [][LateNext]_<<scenario, state>>

BackupInit == scenario = "backup" /\ Failing!Init /\ Init /\ Backup!Init
BackupNext == Backup!Next /\ UNCHANGED <<scenario, pieceStore, vars>>
BackupSpec == BackupInit /\ [][BackupNext]_<<scenario, state>>

-----------------------------------------------------------------------------
\* What is called Verified is true: with one session, a power loss and failed
\* stores, SQLite calls a part Verified only over bytes no power loss takes, and
\* cache and SQLite agree on what is verified or complete; with two sessions the
\* bytes a reader finds in a Verified part are right, and progress SQLite does not
\* have yet is in the dirty set.
VerifiedIsTrue ==
    /\ scenario = "one" => One!TypeOK /\ One!DurableVerified /\ One!AuthorityPersisted
    /\ scenario = "failing" => /\ Failing!TypeOK /\ Failing!DurableVerified
                               /\ Failing!AuthorityPersisted
    /\ scenario = "two" => /\ Two!TypeOK /\ Two!AuthorityPersisted
                           /\ Two!VerifiedReadsRight /\ Two!DirtyTracked

\* A download turns completed only while every byte of the payload is right.
CompletionVerified ==
    [][/\ scenario = "one" => One!CompletionVerified
       /\ scenario = "failing" => Failing!CompletionVerified
       /\ scenario = "two" => Two!CompletionVerified]_<<scenario, state>>

\* However delivery was interrupted the operator never finds the file twice, nothing
\* the daemon does makes a file the operator created disappear, and a finished
\* deletion leaves no copy of an output the transfer owned.
OnlyOwnedRemoved ==
    [][/\ scenario = "meddled" => TypeOK' /\ NoDuplicateDelivery' /\ ForeignKept
       /\ scenario = "damaged" => Damaged!TypeOK' /\ Damaged!OwnedOutputReclaimed]_<<scenario, vars>>

\* Once the watcher, the reload and the workers have nothing left to do, what is on offer
\* is what is on the disk; and no request for a reload is lost between its two flags.
CatalogFollowsDisk ==
    /\ scenario = "watched" => Watched!TypeOK /\ Watched!CatalogFollowsDisk /\ Watched!ReloadDutyHeld
    /\ scenario = "loading" => Loading!TypeOK /\ Loading!CatalogFollowsDisk /\ Loading!ReloadDutyHeld
    /\ scenario = "mounting" => /\ Mounting!TypeOK /\ Mounting!CatalogFollowsDisk
                                /\ Mounting!ReloadDutyHeld
    /\ scenario = "asked" => Asked!TypeOK /\ Asked!CatalogFollowsDisk /\ Asked!ReloadDutyHeld

\* "This keeps a durable "Verified" manifest state from outracing the on-disk bytes
\* on an OS crash / power loss" (salvage.rs), with two sessions writing to one part.
DurableWithTwoWriters == Late!DurableVerified

\* "Collapse a queued event burst to the final intent for each path"
\* (shared_dir_monitor.rs): a file moved aside and written anew is offered in the end.
FinalIntentKept == Backup!OfferedWhenQuiet(stale)
=============================================================================
