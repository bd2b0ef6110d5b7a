------------------------------ MODULE Delivery ------------------------------
(***************************************************************************)
(* Delivery, retirement and deletion of one completed download: copying    *)
(* the verified piece store to an operator-facing file, promoting that     *)
(* file to local content, reclaiming the piece store, and destroying both  *)
(* on request.  (ed2k_transfer/deliver.rs, delivery_tombstone.rs,          *)
(* metadata.rs, payload_reconcile.rs, core/delivery.rs and the delivery    *)
(* tables of the metadata store.)                                          *)
(*                                                                         *)
(* Everything the daemon does to one transfer runs under its lifecycle     *)
(* lock, so at most one `task` is under way; what interleaves with its     *)
(* steps is the operator, who owns the destination directory too, and a    *)
(* crash.  Each step of a task is one durable effect.                      *)
(***************************************************************************)
EXTENDS Integers, FiniteSets

CONSTANTS
    Absent,       \* no file, no row, no task
    Names,        \* 1..n: the candidate file names, in the order they are tried
    Copies,       \* identities for the files the daemon creates
    Meddling,     \* what the operator may do to the destination directory
    MaxMeddling,  \* bound: operator actions
    MaxFaults,    \* bound: crashes plus failed system calls
    Errors,       \* whether a system call or a transaction may fail
    DiskDamage,   \* whether the piece store may lose its bytes
    Unreadable    \* whether a recorded output may be impossible to read back

Target(i) == <<"target", i>>
Staging(n) == <<"staging", n>>
Tomb(n) == <<"tomb", n>>
Targets == {Target(i) : i \in Names}
Paths == Targets \cup {Staging(n) : n \in Copies} \cup {Tomb(n) : n \in Copies}

\* The identity of the k-th file the operator creates.
Foreign(k) == -1 - k

\* A file: which object it is, whether it holds the transfer's bytes, whether
\* the operator ever wrote it, and a stamp every write and every rename
\* advances.  NativeFileFingerprint (identity, size and times) tells two files
\* apart exactly when id or stamp differ.
Files == [id : Copies \cup {Foreign(k) : k \in 0 .. MaxMeddling}, good : BOOLEAN, edited : BOOLEAN, stamp : Nat]

\* The transfers row.
Rows == [completed : BOOLEAN, delivered : BOOLEAN, owner : {"none", "owned", "unowned"},
         path : Targets \cup {Absent}, file : Files \cup {Absent},
         deleting : BOOLEAN, retired : BOOLEAN, authority : BOOLEAN]

DeliveryAssumption ==
    /\ IsFiniteSet(Names) /\ Names = 1 .. Cardinality(Names)
    /\ Copies \subseteq Nat \ {0}
    /\ MaxMeddling \in Nat
    /\ Absent \notin Files /\ Absent \notin Rows

VARIABLES
    fs,          \* the destination directory
    store,       \* the piece store: its directory and its deletion tombstone
    row,         \* the transfers row
    attempt,     \* the delivery_attempts row
    tombstone,   \* the delivery_output_tombstones row
    registered,  \* a verified_local_content row exists
    task,        \* the holder of the lifecycle lock and where it is
    promo,       \* what deliver_completed_transfer does next
    boot,        \* startup stage
    meddled, faults

vars == <<fs, store, row, attempt, tombstone, registered, task, promo, boot, meddled, faults>>
database == <<row, attempt, tombstone, registered>>
diskVars == <<fs, store>>
counters == <<meddled, faults>>

NewRow == [completed |-> TRUE, delivered |-> FALSE, owner |-> "none", path |-> Absent,
           file |-> Absent, deleting |-> FALSE, retired |-> FALSE, authority |-> FALSE]

Init ==
    /\ fs = [p \in Paths |-> Absent]
    /\ store = [live |-> "good", named |-> FALSE, tomb |-> "none", known |-> TRUE]
    /\ row = NewRow
    /\ attempt = Absent
    /\ tombstone = Absent
    /\ registered = FALSE
    /\ task = Absent
    /\ promo = "idle"
    /\ boot = "running"
    /\ meddled = 0
    /\ faults = 0

---------------------------------------------------------------------------
(* Files and identities.                                                   *)

\* The stamp a rename leaves on the object.
Renamed(f) == [f EXCEPT !.stamp = @ + 1]

\* renameat2(RENAME_NOREPLACE) within the directory.
Move(from, to) == [fs EXCEPT ![from] = Absent, ![to] = Renamed(fs[from])]

\* An identity no file, record or handle refers to.
FreshCopy(n) ==
    /\ \A p \in Paths : fs[p] # Absent => fs[p].id # n
    /\ row # Absent /\ row.file # Absent => row.file.id # n
    /\ fs[Tomb(n)] = Absent

\* DeliveredOutputIdentity::Matching: the recorded fingerprint, or the bytes.
Matches(p, file) == fs[p] # Absent /\ (fs[p] = file \/ fs[p].good)

\* The recorded file itself is at its path.
Standing(p, file) == p # Absent /\ fs[p] = file

\* The rows of the delivery tables, phase by phase.
Prepared(n, target) == [copy |-> n, phase |-> "prepared", target |-> target,
                        staged |-> Absent, published |-> Absent]
Staged(f) == [attempt EXCEPT !.phase = "staged", !.staged = f]
Published(f) == [attempt EXCEPT !.phase = "published", !.published = f]
Aside(n, p, file) == [copy |-> n, phase |-> "prepared", path |-> p, source |-> file,
                      moved |-> Absent]
Sealed(f) == [tombstone EXCEPT !.phase = "moved", !.moved = f]

\* Hold the lock at a step, with what the step remembers; move on.
StartTask(op, step) == [op |-> op, at |-> step, path |-> Absent, file |-> Absent,
                    owner |-> "owned", recovering |-> step = "recover"]
Holding(step) == task # Absent /\ task.at = step
GoTo(step) == task' = [task EXCEPT !.at = step]
Remember(step, p, file) == task' = [task EXCEPT !.at = step, !.path = p, !.file = file]

\* The startup stage that follows the one a task served.
AfterBoot == IF boot = "deletions" THEN "retirements"
             ELSE IF boot = "retirements" THEN "reconcile"
             ELSE "running"

\* Mutant: the promoter forgets what comes next.
ReleaseForgets(next) == task' = Absent /\ boot' = AfterBoot /\ UNCHANGED promo

\* The promoter's own tasks say what it does next; the others leave it alone.
Release(next) ==
    /\ task' = Absent
    /\ promo' = IF task.op \in {"deliver", "retire"} THEN next ELSE promo
    /\ boot' = AfterBoot

\* A step returned an error: the task ends and leaves every durable record as
\* it is.  Only the storage reconciliation makes startup itself fail.
GiveUp ==
    /\ task' = Absent
    /\ promo' = IF task.op \in {"deliver", "retire"} THEN "idle" ELSE promo
    /\ boot' = IF task.op = "reconcile" THEN "stopped" ELSE AfterBoot

---------------------------------------------------------------------------
(* recover_delivery_attempt_unlocked: what an interrupted attempt left.    *)

AfterRecovery == IF task.op = "deliver" THEN "snapshot"
                 ELSE IF task.op \in {"retire", "remove"} THEN "request"
                 ELSE "payload"

Recovered == task' = [task EXCEPT !.at = AfterRecovery, !.recovering = FALSE,
                                  !.path = Absent, !.file = Absent, !.owner = "owned"]

\* classify_delivered_output(target, None, ...) after the staging file went.
RecoverTarget(a) == Matches(a.target, Absent)

Recover ==
    /\ Holding("recover")
    /\ \/ /\ attempt = Absent
          /\ Recovered
          /\ UNCHANGED attempt
       \/ /\ attempt # Absent
          /\ \/ row.delivered
             \/ ~row.completed
             \/ attempt.phase = "prepared"
             \/ attempt.phase = "published" /\ fs[attempt.target] # attempt.published
             \/ /\ attempt.phase = "staged"
                /\ fs[Staging(attempt.copy)] # attempt.staged
                /\ fs[Staging(attempt.copy)] # Absent \/ ~RecoverTarget(attempt)
          /\ attempt' = Absent
          /\ Recovered
       \/ /\ attempt # Absent /\ ~row.delivered /\ row.completed
          /\ attempt.phase = "published" /\ fs[attempt.target] = attempt.published
          /\ Remember("commit", attempt.target, attempt.published)
          /\ UNCHANGED attempt
       \/ /\ attempt # Absent /\ ~row.delivered /\ row.completed
          /\ attempt.phase = "staged" /\ fs[Staging(attempt.copy)] = attempt.staged
          /\ Remember("install", attempt.target, attempt.staged)
          /\ UNCHANGED attempt
       \/ /\ attempt # Absent /\ ~row.delivered /\ row.completed
          /\ attempt.phase = "staged" /\ fs[Staging(attempt.copy)] = Absent
          /\ RecoverTarget(attempt)
          /\ task' = [task EXCEPT !.at = "commit", !.path = attempt.target,
                                  !.file = fs[attempt.target], !.owner = "unowned"]
          /\ UNCHANGED attempt
    /\ UNCHANGED <<diskVars, row, tombstone, registered, promo, boot, counters>>

\* commit_recovered_delivery, and phase 2 of materialize_completed_payload;
\* the trigger on transfers drops the attempt in the same transaction.
Commit ==
    /\ Holding("commit")
    /\ row' = [row EXCEPT !.delivered = TRUE, !.owner = task.owner,
                          !.path = task.path, !.file = task.file]
    /\ attempt' = Absent
    /\ IF task.recovering
       THEN Recovered /\ UNCHANGED <<promo, boot>>
       ELSE Release("register")
    /\ UNCHANGED <<diskVars, tombstone, registered, counters>>

---------------------------------------------------------------------------
(* materialize_completed_payload, after recovery.                          *)

Deliver ==
    /\ task = Absent /\ boot = "running" /\ promo = "idle"
    /\ row # Absent /\ row.completed /\ ~row.deleting /\ ~row.retired
    /\ task' = StartTask("deliver", "recover")
    /\ UNCHANGED <<diskVars, database, promo, boot, counters>>

\* Phase 1, and the check of a recorded output: only the recorded file itself
\* (or, unowned, the recorded bytes) counts as delivered; anything else is
\* left alone and the transfer goes back to pending.
Snapshot ==
    /\ Holding("snapshot")
    /\ \/ /\ row.delivered
          /\ Matches(row.path, row.file)
          /\ row.owner = "unowned" \/ fs[row.path] = row.file
          /\ Release("register")
          /\ UNCHANGED row
       \/ /\ row.delivered
          /\ \/ Unreadable
             \/ ~Matches(row.path, row.file)
             \/ row.owner = "owned" /\ fs[row.path] # row.file
          /\ row' = [row EXCEPT !.delivered = FALSE, !.owner = "none",
                                !.path = Absent, !.file = Absent]
          /\ GoTo("name")
          /\ UNCHANGED <<promo, boot>>
       \/ /\ ~row.delivered
          /\ GoTo("name")
          /\ UNCHANGED <<row, promo, boot>>
    /\ UNCHANGED <<diskVars, attempt, tombstone, registered, counters>>

\* deliver_payload_file: the first free name, recorded before anything is
\* created (begin_delivery_attempt).
Name ==
    /\ Holding("name")
    /\ \E i \in Names, n \in Copies :
          /\ fs[Target(i)] = Absent
          /\ \A j \in 1 .. i - 1 : fs[Target(j)] # Absent
          /\ FreshCopy(n)
          /\ attempt' = Prepared(n, Target(i))
          /\ Remember("stage", Target(i), Absent)
    /\ store.live # "none"
    /\ UNCHANGED <<diskVars, row, tombstone, registered, promo, boot, counters>>

\* validate_delivery_source refuses a missing payload.
NoSource ==
    /\ Holding("name")
    /\ store.live = "none"
    /\ GiveUp
    /\ UNCHANGED <<diskVars, database, counters>>

\* stage_delivery_payload: create, copy, sync.
Stage ==
    /\ Holding("stage")
    /\ fs' = [fs EXCEPT ![Staging(attempt.copy)] =
                 [id |-> attempt.copy, good |-> FALSE, edited |-> FALSE, stamp |-> 0]]
    /\ GoTo("copy")
    /\ UNCHANGED <<store, database, promo, boot, counters>>

Copy ==
    /\ Holding("copy")
    /\ fs' = [fs EXCEPT ![Staging(attempt.copy)].good = store.live = "good",
                        ![Staging(attempt.copy)].stamp = 1]
    /\ GoTo("verify")
    /\ UNCHANGED <<store, database, promo, boot, counters>>

\* open_verified_staging_file hashes the copy.
StagingVerified == fs[Staging(attempt.copy)].good

Verify ==
    /\ Holding("verify")
    /\ IF StagingVerified
       THEN /\ attempt' = Staged(fs[Staging(attempt.copy)])
            /\ Remember("install", attempt.target, fs[Staging(attempt.copy)])
            /\ UNCHANGED <<promo, boot>>
       ELSE GiveUp /\ UNCHANGED attempt
    /\ UNCHANGED <<diskVars, row, tombstone, registered, counters>>

Installable == fs[attempt.target] = Absent

\* install_staged_payload: an atomic rename that never replaces.  A name taken
\* meanwhile costs the staged copy and the attempt.
Install ==
    /\ Holding("install")
    /\ IF Installable
       THEN /\ fs' = Move(Staging(attempt.copy), attempt.target)
            /\ GoTo("capture")
            /\ UNCHANGED attempt
       ELSE /\ fs' = [fs EXCEPT ![Staging(attempt.copy)] = Absent]
            /\ attempt' = Absent
            /\ IF task.recovering THEN Recovered ELSE GoTo("name")
    /\ UNCHANGED <<store, row, tombstone, registered, promo, boot, counters>>

\* Mutant: whatever stands at the path is taken for the published copy.
CapturedUnread == fs[task.path] # Absent

\* capture_published_fingerprint: the path still names the staged object, and
\* that object still has the transfer's bytes.
Captured == /\ fs[task.path] # Absent
            /\ fs[task.path].id = task.file.id
            /\ fs[task.path].good

Capture ==
    /\ Holding("capture")
    /\ IF Captured
       THEN /\ attempt' = Published(fs[task.path])
            /\ Remember("commit", task.path, fs[task.path])
            /\ UNCHANGED <<promo, boot>>
       ELSE GiveUp /\ UNCHANGED attempt
    /\ UNCHANGED <<diskVars, row, tombstone, registered, counters>>

---------------------------------------------------------------------------
(* Promotion: promote_delivered_transfer, one lock at a time.              *)

Visible == row # Absent /\ ~row.deleting

\* register_delivered_local_content.
Register ==
    /\ promo = "register" /\ task = Absent
    /\ IF Visible /\ row.completed /\ row.delivered /\ fs[row.path] = row.file
       THEN registered' = TRUE /\ promo' = "admit"
       ELSE promo' = "idle" /\ UNCHANGED registered
    /\ UNCHANGED <<diskVars, row, attempt, tombstone, task, boot, counters>>

\* The file joins a shared root, then the row is retired.
Admit ==
    /\ promo = "admit"
    /\ promo' = "retire"
    /\ UNCHANGED <<diskVars, database, task, boot, counters>>

\* remove_completed_transfer_row, called by the promoter and by the operator.
RemoveRow(op) ==
    /\ task = Absent /\ boot = "running"
    /\ op = "retire" => promo = "retire"
    /\ IF Visible THEN task' = StartTask(op, "recover") /\ UNCHANGED promo
                  ELSE /\ op = "retire" /\ promo' = "idle"
                       /\ UNCHANGED task
    /\ UNCHANGED <<diskVars, database, boot, counters>>

\* (A payload retired before the delivered file is shared.)
RetirableUnregistered == row.completed /\ row.delivered

\* The conditions of request_transfer_retirement.
Retirable == row.completed /\ row.delivered /\ registered

\* (A retirement that is acted on before it is on record.)
RequestRetirementUnmarked ==
    /\ Holding("request")
    /\ IF row.retired \/ Retirable
       THEN /\ row' = [row EXCEPT !.authority = TRUE]
            /\ store' = [store EXCEPT !.named = TRUE]
            /\ GoTo("dirMove")
            /\ UNCHANGED <<promo, boot>>
       ELSE GiveUp /\ UNCHANGED <<row, store>>
    /\ UNCHANGED <<fs, attempt, tombstone, registered, counters>>

\* request_transfer_retirement: the row is hidden and owns only its directory.
RequestRetirement ==
    /\ Holding("request")
    /\ IF row.retired \/ Retirable
       THEN /\ row' = [row EXCEPT !.retired = TRUE,
                          !.authority = IF row.retired THEN @ ELSE store.live # "none"]
            /\ store' = [store EXCEPT !.named = @ \/ ~row.retired]
            /\ GoTo("dirMove")
            /\ UNCHANGED <<promo, boot>>
       ELSE GiveUp /\ UNCHANGED <<row, store>>
    /\ UNCHANGED <<fs, attempt, tombstone, registered, counters>>

\* cleanup_transfer_directory_with_authority: the directory the authority
\* names moves aside and is then removed; any other directory stops it.
DirMove ==
    /\ Holding("dirMove")
    /\ \/ /\ store.live = "none"
          /\ GoTo("dirRemove")
          /\ UNCHANGED <<store, promo, boot>>
       \/ /\ store.live # "none"
          /\ store.tomb = "none" /\ row.authority /\ store.named
          /\ store' = [store EXCEPT !.live = "none", !.tomb = "whole"]
          /\ GoTo("dirRemove")
          /\ UNCHANGED <<promo, boot>>
       \/ /\ store.live # "none"
          /\ store.tomb # "none" \/ ~row.authority \/ ~store.named
          /\ GiveUp
          /\ UNCHANGED store
    /\ UNCHANGED <<fs, database, counters>>

\* The second half: the marker is looked for once more, in the tombstone.
\* remove_dir_all unlinks the marker with the other files before it unlinks the
\* directory; a crash or an error in between leaves a torn tombstone, without one.
DirRemove ==
    /\ Holding("dirRemove")
    /\ \/ /\ store.tomb = "none"
          /\ GoTo("finalize")
          /\ UNCHANGED <<store, promo, boot>>
       \/ /\ store.tomb = "whole" /\ row.authority
          /\ store' = [store EXCEPT !.tomb = "torn"]
          /\ GoTo("dirClear")
          /\ UNCHANGED <<promo, boot>>
       \/ /\ store.tomb = "torn" \/ (store.tomb = "whole" /\ ~row.authority)
          /\ GiveUp
          /\ UNCHANGED store
    /\ UNCHANGED <<fs, database, counters>>

DirClear ==
    /\ Holding("dirClear")
    /\ store' = [store EXCEPT !.tomb = "none"]
    /\ GoTo("finalize")
    /\ UNCHANGED <<fs, database, promo, boot, counters>>

\* finalize_transfer_retirement, finalize_transfer_deletion: the row goes, and
\* with it (ON DELETE CASCADE) the attempt and the tombstone.
Finalize ==
    /\ Holding("finalize")
    /\ row' = Absent /\ attempt' = Absent /\ tombstone' = Absent
    /\ Release("idle")
    /\ UNCHANGED <<diskVars, registered, counters>>

---------------------------------------------------------------------------
(* delete_transfer_files.                                                  *)

Delete ==
    /\ task = Absent /\ boot = "running"
    /\ row # Absent /\ (row.deleting \/ ~row.retired)
    /\ task' = StartTask("delete", "intent")
    /\ UNCHANGED <<diskVars, database, promo, boot, counters>>

\* request_transfer_deletion: the first request also records which directory
\* the deletion owns.
Intent ==
    /\ Holding("intent")
    /\ row' = [row EXCEPT !.deleting = TRUE,
                          !.authority = IF row.deleting THEN @ ELSE store.live # "none"]
    /\ store' = [store EXCEPT !.named = @ \/ ~row.deleting]
    /\ GoTo("discard")
    /\ UNCHANGED <<fs, attempt, tombstone, registered, promo, boot, counters>>

RowOwnsOutput == row.owner = "owned"

\* discard_delivery_attempt_for_deletion_unlocked; then complete_transfer_deletion
\* takes its authority over an output from the attempt, or from an owned row.
Discard ==
    /\ Holding("discard")
    /\ LET staged == attempt # Absent /\ attempt.phase # "prepared"
                       /\ fs[Staging(attempt.copy)] = attempt.staged
           published == attempt # Absent /\ attempt.phase = "published"
       IN  /\ fs' = IF staged THEN [fs EXCEPT ![Staging(attempt.copy)] = Absent] ELSE fs
           /\ attempt' = IF published THEN attempt ELSE Absent
           /\ IF published THEN Remember("output", attempt.target, attempt.published)
              ELSE IF RowOwnsOutput THEN Remember("output", row.path, row.file)
              ELSE Remember("output", Absent, Absent)
    /\ UNCHANGED <<store, row, tombstone, registered, promo, boot, counters>>

\* cleanup_delivery_output_for_deletion: a tombstone on record is resumed;
\* without one, only the exact recorded file gets one.
Output ==
    /\ Holding("output")
    /\ \/ /\ tombstone # Absent
          /\ GoTo(IF tombstone.phase = "prepared" THEN "inspect" ELSE "reap")
          /\ UNCHANGED tombstone
       \/ /\ tombstone = Absent
          /\ ~Standing(task.path, task.file)
          /\ GoTo("dirMove")
          /\ UNCHANGED tombstone
       \/ /\ tombstone = Absent
          /\ Standing(task.path, task.file)
          /\ \E n \in Copies :
                /\ fs[Tomb(n)] = Absent
                /\ \A m \in Copies : fs[Tomb(m)] = Absent => n <= m
                /\ tombstone' = Aside(n, task.path, task.file)
          /\ GoTo("inspect")
    /\ UNCHANGED <<diskVars, row, attempt, registered, promo, boot, counters>>

\* process_prepared_tombstone, up to the rename.
Inspect ==
    /\ Holding("inspect")
    /\ LET original == fs[tombstone.path]
           hidden == fs[Tomb(tombstone.copy)]
       IN  \/ /\ original = Absent /\ hidden = Absent
              /\ GoTo("dirMove")
              /\ UNCHANGED <<tombstone, promo, boot>>
           \/ /\ original = Absent /\ hidden # Absent
              /\ hidden.id = tombstone.source.id /\ hidden.good
              /\ tombstone' = Sealed(hidden)
              /\ GoTo("reap")
              /\ UNCHANGED <<promo, boot>>
           \/ /\ original = Absent /\ hidden # Absent
              /\ hidden.id # tombstone.source.id \/ ~hidden.good
              /\ GiveUp
              /\ UNCHANGED tombstone
           \/ /\ original # Absent /\ original = tombstone.source
              /\ Remember("move", tombstone.path, original)
              /\ UNCHANGED <<tombstone, promo, boot>>
           \/ /\ original # Absent /\ original # tombstone.source
              /\ tombstone' = Absent
              /\ GoTo("dirMove")
              /\ UNCHANGED <<promo, boot>>
    /\ UNCHANGED <<diskVars, row, attempt, registered, counters>>

\* The rename itself; whatever stands at the path by now is what moves.
MoveAside ==
    /\ Holding("move")
    /\ \/ /\ fs[task.path] = Absent
          /\ GiveUp
          /\ UNCHANGED <<fs, tombstone>>
       \/ /\ fs[task.path] # Absent /\ fs[Tomb(tombstone.copy)] # Absent
          /\ tombstone' = Absent
          /\ Remember("output", tombstone.path, tombstone.source)
          /\ UNCHANGED <<fs, promo, boot>>
       \/ /\ fs[task.path] # Absent /\ fs[Tomb(tombstone.copy)] = Absent
          /\ fs' = Move(task.path, Tomb(tombstone.copy))
          /\ GoTo("seal")
          /\ UNCHANGED <<tombstone, promo, boot>>
    /\ UNCHANGED <<store, row, attempt, registered, counters>>

\* Mutant: whatever was moved aside is taken for the delivered file.
MovedOursUnread == TRUE

\* capture_moved_fingerprint: the opened file is the one that moved.
MovedOurs == fs[Tomb(tombstone.copy)] # Absent /\ fs[Tomb(tombstone.copy)].id = task.file.id

\* A replacement that slipped in before the rename goes back to its place.
Seal ==
    /\ Holding("seal")
    /\ \/ /\ MovedOurs
          /\ tombstone' = Sealed(fs[Tomb(tombstone.copy)])
          /\ GoTo("reap")
          /\ UNCHANGED <<fs, promo, boot>>
       \/ /\ ~MovedOurs /\ fs[task.path] = Absent
          /\ fs' = Move(Tomb(tombstone.copy), task.path)
          /\ tombstone' = Absent
          /\ GoTo("dirMove")
          /\ UNCHANGED <<promo, boot>>
       \/ /\ ~MovedOurs /\ fs[task.path] # Absent
          /\ GiveUp
          /\ UNCHANGED <<fs, tombstone>>
    /\ UNCHANGED <<store, row, attempt, registered, counters>>

\* reap_moved_tombstone: unlink exactly what was sealed.
Reap ==
    /\ Holding("reap")
    /\ LET hidden == Tomb(tombstone.copy)
       IN  \/ /\ fs[hidden] = Absent \/ fs[hidden] = tombstone.moved
              /\ fs' = [fs EXCEPT ![hidden] = Absent]
              /\ GoTo("dirMove")
              /\ UNCHANGED <<promo, boot>>
           \/ /\ fs[hidden] # Absent /\ fs[hidden] # tombstone.moved
              /\ GiveUp
              /\ UNCHANGED fs
    /\ UNCHANGED <<store, database, counters>>

---------------------------------------------------------------------------
(* Startup: pending deletions, pending retirements, then the piece store.  *)

BootStep ==
    /\ task = Absent /\ boot \in {"deletions", "retirements", "reconcile"}
    /\ LET todo == IF boot = "deletions" THEN row # Absent /\ row.deleting
                   ELSE IF boot = "retirements" THEN row # Absent /\ row.retired
                   ELSE row # Absent /\ ~row.deleting
       IN  \/ /\ todo
              /\ task' = IF boot = "deletions" THEN StartTask("delete", "intent")
                         ELSE IF boot = "retirements" THEN StartTask("remove", "dirMove")
                         ELSE StartTask("reconcile", "recover")
              /\ UNCHANGED boot
           \/ /\ ~todo
              /\ boot' = AfterBoot
              /\ UNCHANGED task
    /\ UNCHANGED <<diskVars, database, promo, counters>>

\* reconcile_managed_download_storage: an intact payload stands, a damaged one
\* is restored from the delivered output or the completion is withdrawn.  The
\* payload is replaced on disk before the row is stored.
Payload ==
    /\ Holding("payload")
    /\ \/ /\ ~row.completed \/ (store.live = "good" /\ store.known)
          /\ Release("idle")
          /\ UNCHANGED store
       \/ /\ row.completed /\ store.live = "good" /\ ~store.known
          /\ GoTo("storeKnown")
          /\ UNCHANGED <<store, promo, boot>>
       \/ /\ row.completed /\ store.live # "good"
          /\ row.delivered /\ Matches(row.path, row.file)
          /\ store' = [store EXCEPT !.live = "good", !.known = FALSE,
                                    !.named = @ /\ store.live # "none"]
          /\ Remember("storeKnown", row.path, fs[row.path])
          /\ UNCHANGED <<promo, boot>>
       \/ /\ row.completed /\ store.live # "good"
          /\ ~(row.delivered /\ Matches(row.path, row.file))
          /\ store' = [store EXCEPT !.live = "bad", !.known = FALSE,
                                    !.named = @ /\ store.live # "none"]
          /\ GoTo("storeDemoted")
          /\ UNCHANGED <<promo, boot>>
    /\ UNCHANGED <<fs, database, counters>>

\* upsert_transfer_manifest refuses a row with pending cleanup.
Storable == ~row.retired

StoreReconciled ==
    /\ Holding("storeKnown") \/ Holding("storeDemoted")
    /\ IF Storable
       THEN /\ row' = IF task.at = "storeDemoted"
                      THEN [NewRow EXCEPT !.completed = FALSE]
                      ELSE IF task.file = Absent THEN row
                      ELSE [row EXCEPT !.file = task.file,
                                       !.owner = IF task.file = row.file THEN @ ELSE "unowned"]
            /\ store' = [store EXCEPT !.known = task.at = "storeKnown"]
            /\ Release("idle")
       ELSE /\ task' = Absent
            /\ boot' = "refused"
            /\ UNCHANGED <<row, store, promo>>
    /\ UNCHANGED <<fs, attempt, tombstone, registered, counters>>

\* A failed startup is tried again.
Restart ==
    /\ boot \in {"stopped", "refused"}
    /\ boot' = "deletions"
    /\ UNCHANGED <<diskVars, database, task, promo, counters>>

\* The download of a withdrawn completion ends again (PieceStore).
Redownload ==
    /\ task = Absent /\ boot = "running"
    /\ Visible /\ ~row.completed
    /\ row' = [row EXCEPT !.completed = TRUE]
    /\ store' = [store EXCEPT !.live = "good", !.known = TRUE]
    /\ UNCHANGED <<fs, attempt, tombstone, registered, task, promo, boot, counters>>

---------------------------------------------------------------------------
(* The environment.                                                        *)

\* recover_pending_transfer_retirements, every 30 seconds.
RetryRetirement ==
    /\ task = Absent /\ boot = "running"
    /\ row # Absent /\ row.retired
    /\ task' = StartTask("remove", "dirMove")
    /\ UNCHANGED <<diskVars, database, promo, boot, counters>>

Crash ==
    /\ faults < MaxFaults
    /\ faults' = faults + 1
    /\ task' = Absent /\ promo' = "idle" /\ boot' = "deletions"
    /\ UNCHANGED <<diskVars, database, meddled>>

\* A system call or a transaction fails: the step does nothing.
Fault ==
    /\ Errors /\ faults < MaxFaults /\ task # Absent
    /\ faults' = faults + 1
    /\ GiveUp
    /\ UNCHANGED <<diskVars, database, meddled>>

\* A file of the operator's, different from every earlier one.
Theirs(good) == [id |-> Foreign(meddled), good |-> good, edited |-> TRUE, stamp |-> 0]

Edited(f, good) == [f EXCEPT !.good = good, !.edited = TRUE, !.stamp = @ + 1]

Meddle(kind, p) ==
    /\ kind \in Meddling /\ meddled < MaxMeddling
    /\ meddled' = meddled + 1
    /\ \/ /\ kind = "touch" /\ p \in Targets /\ fs[p] # Absent
          /\ fs' = [fs EXCEPT ![p] = Edited(@, fs[p].good)]
       \/ /\ kind = "change" /\ p \in Targets /\ fs[p] # Absent
          /\ fs' = [fs EXCEPT ![p] = Edited(@, FALSE)]
       \/ /\ kind = "remove" /\ p \in Targets /\ fs[p] # Absent
          /\ fs' = [fs EXCEPT ![p] = Absent]
       \/ /\ kind = "replace" /\ p \in Targets
          /\ \E good \in BOOLEAN : fs' = [fs EXCEPT ![p] = Theirs(good)]
       \/ /\ kind = "occupy" /\ tombstone # Absent /\ p = Tomb(tombstone.copy)
          /\ fs[p] = Absent
          /\ fs' = [fs EXCEPT ![p] = Theirs(FALSE)]
    /\ UNCHANGED <<store, database, task, promo, boot, faults>>

Damage ==
    /\ DiskDamage /\ meddled < MaxMeddling /\ store.live = "good"
    /\ meddled' = meddled + 1
    /\ store' = [store EXCEPT !.live = "bad", !.known = FALSE]
    /\ UNCHANGED <<fs, database, task, promo, boot, faults>>

Step ==
    \/ Recover \/ Commit \/ Snapshot \/ Name \/ NoSource \/ Stage \/ Copy \/ Verify
    \/ Install \/ Capture \/ RequestRetirement \/ DirMove \/ DirRemove \/ DirClear \/ Finalize
    \/ Intent \/ Discard \/ Output \/ Inspect \/ MoveAside \/ Seal \/ Reap
    \/ Payload \/ StoreReconciled

Boot == BootStep \/ Restart

\* The 30-second loop of the daemon and the promoter it calls.
Sweep == Deliver \/ RetryRetirement \/ Redownload \/ (row # Absent /\ row.deleting /\ Delete)

Promote == Register \/ Admit \/ RemoveRow("retire")

Next ==
    \/ Step \/ Boot \/ Sweep \/ Promote
    \/ Delete \/ RemoveRow("remove")
    \/ Crash \/ Fault \/ Damage
    \/ \E kind \in Meddling, p \in Paths : Meddle(kind, p)

Spec == Init /\ [][Next]_vars

---------------------------------------------------------------------------
(* Properties.                                                             *)

MaybeFiles == Files \cup {Absent}

TypeOK ==
    /\ fs \in [Paths -> MaybeFiles]
    /\ store \in [live : {"good", "bad", "none"}, named : BOOLEAN, tomb : {"none", "whole", "torn"}, known : BOOLEAN]
    /\ row # Absent => row \in Rows
    /\ attempt # Absent => attempt \in [copy : Copies, phase : {"prepared", "staged", "published"},
          target : Targets, staged : MaybeFiles, published : MaybeFiles]
    /\ tombstone # Absent => tombstone \in [copy : Copies, phase : {"prepared", "moved"},
          path : Targets, source : Files, moved : MaybeFiles]
    /\ registered \in BOOLEAN
    /\ promo \in {"idle", "register", "admit", "retire"}
    /\ boot \in {"deletions", "retirements", "reconcile", "running", "stopped", "refused"}
    /\ meddled \in 0 .. MaxMeddling /\ faults \in 0 .. MaxFaults

\* Nothing the daemon does, in delivery, recovery or deletion, makes a file
\* the operator created disappear: install_staged_payload never replaces, and
\* delivery_tombstone.rs puts back a replacement it moved by mistake.
ForeignKept ==
    meddled' = meddled =>
       \A p \in Paths :
          fs[p] # Absent /\ fs[p].id < 0 =>
             \E q \in Paths : fs'[q] # Absent /\ fs'[q].id = fs[p].id

\* What the transfers row and the delivery attempt record as the output was
\* read back and had the transfer's bytes when it was recorded, and an output
\* recorded as owned is a file the daemon itself created.
RecordedOutputVerified ==
    /\ row # Absent /\ row.delivered =>
          /\ row.file # Absent /\ row.file.good
          /\ row.owner = "owned" => row.file.id \in Copies
    /\ attempt # Absent /\ attempt.phase = "published" =>
          attempt.published.good /\ attempt.published.id = attempt.copy

\* However delivery was interrupted, the operator never finds the download
\* twice: at most one candidate name holds a copy that nobody edited.
NoDuplicateDelivery ==
    Cardinality({p \in Targets : fs[p] # Absent /\ fs[p].id > 0 /\ ~fs[p].edited}) <= 1

\* The piece store of a transfer still on record moves aside or goes only
\* under a deletion request, or once its output is registered local content.
PayloadReleased ==
    row # Absent /\ (store.live = "none" \/ store.tomb # "none") =>
        row.deleting \/ (row.retired /\ row.delivered /\ registered)

\* A finished deletion leaves no copy of an output the transfer owned, at its
\* name or at the tombstone, unless the operator edited it.
OwnedOutputReclaimed ==
    row # Absent /\ row' = Absent /\ row.deleting /\ row.owner = "owned" =>
       \A p \in Paths : fs[p] # Absent /\ fs[p].id = row.file.id => fs[p].edited

\* Where the transfer and its payload are, as the durable records have it.
LifeStage ==
    IF row = Absent THEN "gone"
    ELSE IF row.deleting THEN "deleting"
    ELSE IF row.retired THEN "retired"
    ELSE IF row.delivered THEN "delivered"
    ELSE "stored"

PayloadPlace == IF store.live # "none" THEN "held" ELSE IF store.tomb # "none" THEN "aside" ELSE "removed"

Handed == INSTANCE Handover WITH stage <- LifeStage, payload <- PayloadPlace, shared <- registered

\* Through crashes, retries, startup passes and whatever the operator does to the
\* files, a completed transfer only ever takes the steps of Handover: its payload is
\* let go only for an output that is shared or a deletion that was asked for, a
\* retirement or a deletion is never taken back, and the row goes last of all.
HandoverFollowed == Handed!HandoverSpec

=============================================================================
