------------------------- MODULE MCTransferProgress -------------------------
(***************************************************************************)
(* What is promised to a download in the end, for TLC: small instances of  *)
(* DownloadWindow, PieceStore, Delivery and ConnectionBudget with the      *)
(* fairness the scheduler and the timers give them.  A behaviour belongs   *)
(* to one of them, named by scenario; the variables of the others rest.    *)
(***************************************************************************)
EXTENDS Naturals, Sequences, FiniteSets, TLC

CONSTANTS Absent, slow, fast, s1, operator, driver, w1, w2

VARIABLES scenario,
    pieces, registry, cooled, stage, pending, session, losses,
    disk, synced, len, mem, db, dirty, pc, job, draft, rows,
    rehash, recheck, sought, up, budget,
    fs, store, row, attempt, tombstone, registered, task, promo, boot, meddled, faults,
    config, slots, grants, phase

window == <<pieces, registry, cooled, stage, pending, session, losses>>
parts == <<disk, synced, len, mem, db, dirty, pc, job, draft, rows,
           rehash, recheck, sought, up, budget>>
outputs == <<fs, store, row, attempt, tombstone, registered, task, promo, boot, meddled, faults>>
sockets == <<config, slots, grants, phase>>

TwoPeers == {slow, fast}

\* Two sessions share one part of two blocks; a connection breaks and an answer
\* is lost.
Lossy == INSTANCE DownloadWindow WITH
    NumParts <- 1, NumBlocks <- 2, Frag <- 2, Peers <- TwoPeers,
    Has <- [s \in TwoPeers |-> {0}], Frequency <- [p \in {0} |-> 2], Faster <- {},
    MaxPending <- 2, MinPending <- 1, Batch <- 1, EndgameLeft <- 0, StaleLimit <- 1,
    Budget <- [bad |-> 0, broken |-> 1, lost |-> 1], budget <- losses

\* One session, one part of two blocks; a bad block,
\* a power loss, a failed store and the operator's recheck.
Barrier == INSTANCE PieceStore WITH
    Sessions <- {s1}, Operator <- operator, Driver <- driver,
    NumParts <- 1, NumBlocks <- 2, Frag <- 1,
    Budget <- [bad |-> 1, crash |-> 1, fail |-> 1, recheck |-> 1]

\* Nobody meddles with the outputs; the daemon crashes twice.
Crashing == INSTANCE Delivery WITH
    Names <- 1 .. 2, Copies <- 1 .. 3, Meddling <- {},
    MaxMeddling <- 1, MaxFaults <- 2, Errors <- FALSE, DiskDamage <- FALSE, Unreadable <- FALSE

\* Two workers under a tight and a loose configuration.
Sockets == INSTANCE ConnectionBudget WITH
    Workers <- {w1, w2}, Window <- 2,
    Configs <- {[maxConnections |-> 1, maxPerWindow |-> 2, maxHalfOpen |-> 2],
                [maxConnections |-> 0, maxPerWindow |-> 1, maxHalfOpen |-> 1]}

ASSUME /\ Barrier!PieceStateAssumption /\ Barrier!PieceStoreAssumption
       /\ Crashing!DeliveryAssumption

Init ==
    /\ scenario \in {"lossy", "barrier", "crashing", "sockets"}
    /\ Lossy!Init /\ Barrier!Init /\ Crashing!Init /\ Sockets!Init

Next ==
    \/ scenario = "lossy" /\ Lossy!Next /\ UNCHANGED <<scenario, parts, outputs, sockets>>
    \/ scenario = "barrier" /\ Barrier!Next /\ UNCHANGED <<scenario, window, outputs, sockets>>
    \/ scenario = "crashing" /\ Crashing!Next /\ UNCHANGED <<scenario, window, parts, sockets>>
    \/ scenario = "sockets" /\ Sockets!Next /\ UNCHANGED <<scenario, window, parts, outputs>>

\* A session's task runs, its peer answers or the read times out.
WindowFair ==
    \A s \in TwoPeers : WF_window(scenario = "lossy" /\ (Lossy!Step(s) \/ Lossy!Answer(s)))

\* Calls run to their end, startup runs and the driver retries; the mutexes are
\* tokio's, handed over in the order of arrival.
StoreFair ==
    /\ WF_parts(scenario = "barrier" /\ Barrier!Settle(s1))
    /\ \A t \in {s1, operator, driver} :
         WF_parts(scenario = "barrier" /\ Barrier!ComputeFinalRehash(t))
    /\ SF_parts(scenario = "barrier" /\ \E t \in {s1, operator, driver} : Barrier!BeginFinalRehash(t))
    /\ SF_parts(scenario = "barrier" /\ \E t \in {s1, operator, driver} : Barrier!ConcludeFinalRehash(t))
    /\ WF_parts(scenario = "barrier" /\ Barrier!DriveFinalize)
    /\ WF_parts(scenario = "barrier" /\ Barrier!Restart)

\* A task runs to its end and a failed start is repeated; the sweep and the
\* promoter get the (FIFO) lifecycle lock however often the operator takes it.
DeliveryFair ==
    /\ WF_outputs(scenario = "crashing" /\ Crashing!Step)
    /\ WF_outputs(scenario = "crashing" /\ Crashing!Boot)
    /\ SF_outputs(scenario = "crashing" /\ Crashing!Sweep)
    /\ SF_outputs(scenario = "crashing" /\ Crashing!Promote)

\* Connections end, by a timeout at the latest, and time passes.
SocketFair ==
    /\ \A w \in {w1, w2} : WF_sockets(scenario = "sockets" /\ Sockets!Close(w))
    /\ WF_sockets(scenario = "sockets" /\ Sockets!Tick)

Fairness == WindowFair /\ StoreFair /\ DeliveryFair /\ SocketFair

Spec == Init /\ [][Next]_<<scenario, window, parts, outputs, sockets>> /\ Fairness

\* The daemon that crashes, alone.
CrashingSpec == Spec /\ scenario = "crashing"

-----------------------------------------------------------------------------
\* When peers keep answering, the file gets verified: no lease, window or bitmap
\* state leaves a missing block that no session can ask for.  And a final rehash that
\* the completion barrier announces is concluded across power losses, failed stores
\* and rechecks.
FilesConclude ==
    /\ []<>(scenario = "lossy" => Lossy!AllVerified(pieces))
    /\ []<>(scenario = "barrier" => ~mem.final_rehash_pending)

\* Every completed download ends as local content with its piece store reclaimed,
\* or deleted, wherever the crashes come; the one exception is a crash inside the
\* removal of the tombstone directory, which leaves it torn for good
\* (cleanup_transfer_directory_with_authority).
CompletedSettles ==
    []<>(scenario = "crashing" =>
           \/ row = Absent /\ store.live = "none" /\ store.tomb = "none"
           \/ row # Absent /\ store.tomb = "torn")

\* "Cleanup failures keep the intent for a later idempotent retry", of
\* delete_transfer_files (metadata.rs): a deletion on record is carried out in the end.
DeletionRetried ==
    (row # Absent /\ row.deleting) ~> row = Absent

\* The connection budget never closes for good.
BudgetReopens == []<>(\E spike \in Sockets!Spikes : ~Sockets!TooManySockets(spike))
=============================================================================
