--------------------------- MODULE Delivery_proofs ---------------------------
(***************************************************************************)
(* Proofs about Delivery, for any number of names, copies, faults and      *)
(* operator actions.                                                       *)
(*                                                                         *)
(* Between two steps of a task the operator may have done anything to the  *)
(* destination directory, so the argument is about what the daemon has on  *)
(* record and what the task remembers: every record of a file is of one    *)
(* the daemon created or read back, from the attempt to the row to the     *)
(* tombstone, and the staging names hold only copies of its own.           *)
(***************************************************************************)
EXTENDS Delivery, TLAPS

FileLike(f) == f \in Files

OwnFile(f, n) == FileLike(f) /\ f.id = n

\* The directory: the staging names are the daemon's.
FilesOK ==
  /\ fs = [p \in Paths |-> fs[p]]
  /\ \A p \in Paths : fs[p] # Absent => FileLike(fs[p])
  /\ \A n \in Copies : fs[Staging(n)] # Absent => fs[Staging(n)].id = n

\* The transfers row.
RowShape ==
  DOMAIN row = {"completed", "delivered", "owner", "path", "file", "deleting", "retired",
                "authority"}

RowGood ==
  /\ RowShape
  /\ row.delivered => /\ row.file # Absent /\ row.file.good
                      /\ row.owner = "owned" => row.file.id \in Copies
                      /\ row.path \in Targets
  /\ row.owner = "owned" => row.delivered
  /\ row.retired => row.delivered /\ registered

\* The delivery_attempts row.
AttemptGood ==
  /\ DOMAIN attempt = {"copy", "phase", "target", "staged", "published"}
  /\ attempt.copy \in Copies /\ attempt.target \in Targets
  /\ attempt.phase # "prepared" => OwnFile(attempt.staged, attempt.copy)
  /\ attempt.phase = "published" => /\ attempt.published # Absent /\ attempt.published.good
                                    /\ attempt.published.id = attempt.copy

\* The delivery_output_tombstones row.
TombGood ==
  /\ DOMAIN tombstone = {"copy", "phase", "path", "source", "moved"}
  /\ tombstone.copy \in Copies /\ tombstone.path \in Targets
  /\ tombstone.source.id \in Copies
  /\ tombstone.phase # "prepared" => tombstone.moved.id \in Copies

RecordsOK ==
  /\ row # Absent => RowGood
  /\ attempt # Absent => AttemptGood
  /\ tombstone # Absent => TombGood

\* What the task has established at each step.
Removing == {"discard", "output", "inspect", "move", "seal", "reap"}

TaskFiles ==
  /\ task.at \in {"stage", "copy", "verify", "install", "capture"} => AttemptGood
  /\ task.at \in {"copy", "verify", "install"} => OwnFile(fs[Staging(attempt.copy)], attempt.copy)
  /\ task.at \in {"install", "capture"} =>
        task.file.id = attempt.copy /\ task.path \in Targets /\ attempt.phase # "prepared"
  /\ task.at = "commit" => /\ task.file # Absent /\ task.file.good /\ task.path \in Targets
                           /\ task.owner = "owned" => task.file.id \in Copies
  /\ task.at = "payload" => task.file = Absent
  /\ task.at = "storeKnown" => task.file = Absent \/ task.file.good

TaskTombs ==
  /\ task.at \in {"inspect", "move", "seal", "reap"} => TombGood
  /\ task.at = "reap" => tombstone.moved.id \in Copies
  /\ task.at = "output" => task.path = Absent \/ (task.path \in Targets /\ task.file.id \in Copies)
  /\ task.at \in {"move", "seal"} => task.path \in Targets /\ task.file.id \in Copies
  /\ task.at = "seal" => FileLike(fs[Tomb(tombstone.copy)])

TaskRow ==
  /\ RowGood
  /\ task.op = "deliver" => ~row.retired
  /\ task.op = "reconcile" => ~row.deleting
  /\ task.op = "delete" => task.at \in Removing \cup {"intent", "dirMove", "dirRemove", "dirClear", "finalize"}
  /\ task.op \in {"deliver", "retire", "remove", "reconcile", "delete"}
  /\ task.at \in Removing => row.deleting
  /\ task.at \in {"dirMove", "dirRemove", "dirClear"} => row.deleting \/ row.retired
  /\ task.at = "snapshot" => task.op = "deliver"
  /\ task.at = "request" => task.op \in {"retire", "remove"}
  /\ task.at = "intent" => task.op = "delete"
  /\ task.at \in {"payload", "storeKnown", "storeDemoted"} => task.op = "reconcile"

TaskOK ==
  task # Absent =>
    /\ DOMAIN task = {"op", "at", "path", "file", "owner", "recovering"}
    /\ TaskFiles /\ TaskTombs /\ TaskRow

\* The piece store is there unless the row allows it to go.
ReleasedRow ==
  (store.live = "none" \/ store.tomb # "none") =>
     row.deleting \/ (row.retired /\ row.delivered /\ registered)

StoreOK ==
  /\ DOMAIN store = {"live", "named", "tomb", "known"}
  /\ row # Absent \/ task # Absent => ReleasedRow

DeliveryInv == FilesOK /\ RecordsOK /\ TaskOK /\ StoreOK /\ meddled \in Nat

-----------------------------------------------------------------------------
(* The three kinds of path are different.                                  *)
LEMMA PathsApart ==
  /\ \A i \in Names : Target(i) \in Targets
  /\ \A n \in Copies : Staging(n) \in Paths /\ Tomb(n) \in Paths
  /\ Targets \subseteq Paths
  /\ \A n, m \in Copies : /\ Staging(n) # Tomb(m)
                          /\ Staging(n) \notin Targets /\ Tomb(n) \notin Targets
                          /\ Staging(n) = Staging(m) => n = m
                          /\ Tomb(n) = Tomb(m) => n = m
  BY Zenon DEF Paths, Targets, Target, Staging, Tomb

(* A rename and an edit leave a file a file, and the same one.             *)
LEMMA SameFile ==
  ASSUME NEW f, FileLike(f)
  PROVE  /\ FileLike(Renamed(f)) /\ Renamed(f).id = f.id
         /\ \A good \in BOOLEAN : FileLike(Edited(f, good)) /\ Edited(f, good).id = f.id
         /\ \A good \in BOOLEAN : \A g : g = [f EXCEPT !.good = good, !.stamp = 1] =>
              FileLike(g) /\ g.id = f.id
  <1>1. FileLike(Renamed(f)) /\ Renamed(f).id = f.id
    BY DEF FileLike, Files, Renamed
  <1>2. ASSUME NEW good \in BOOLEAN PROVE FileLike(Edited(f, good)) /\ Edited(f, good).id = f.id
    <2>1. ASSUME NEW e \in BOOLEAN, NEW g,
                 g = [f EXCEPT !.good = good, !.edited = e, !.stamp = @ + 1]
          PROVE  FileLike(g) /\ g.id = f.id
      <3> DEFINE h == [f EXCEPT !.good = good]
                 k == [h EXCEPT !.edited = e]
      <3>1. FileLike(h) /\ h.id = f.id /\ h.stamp = f.stamp
        BY Zenon DEF FileLike, Files
      <3>2. g = [k EXCEPT !.stamp = f.stamp + 1]
        BY Zenon, <2>1 DEF FileLike, Files
      <3> HIDE DEF h
      <3>3. FileLike(k) /\ k.id = f.id /\ k.stamp = f.stamp
        BY Zenon, <3>1 DEF FileLike, Files
      <3> HIDE DEF k
      <3> QED
        BY <3>2, <3>3 DEF FileLike, Files
    <2> QED
      BY Zenon, <2>1 DEF Edited
  <1>3. ASSUME NEW good \in BOOLEAN, NEW g, g = [f EXCEPT !.good = good, !.stamp = 1]
        PROVE  FileLike(g) /\ g.id = f.id
    BY Zenon, <1>3 DEF FileLike, Files
  <1> QED
    BY Zenon, <1>1, <1>2, <1>3

(* Copies have positive identities, the operator's files negative ones.    *)
LEMMA CopiesPositive ==
  ASSUME DeliveryAssumption PROVE \A n \in Copies : n \in Nat /\ ~(n < 0)
  <1>1. Copies \subseteq Nat \ {0}
    BY Zenon DEF DeliveryAssumption
  <1> QED
    BY <1>1

(* The files the daemon and the operator create.                           *)
LEMMA NewFiles ==
  ASSUME DeliveryAssumption
  PROVE  /\ \A n \in Copies : FileLike([id |-> n, good |-> FALSE, edited |-> FALSE, stamp |-> 0])
         /\ meddled \in Nat /\ meddled < MaxMeddling => \A good \in BOOLEAN : FileLike(Theirs(good))
  <1>1. ASSUME meddled \in Nat, meddled < MaxMeddling
        PROVE  Foreign(meddled) \in {Foreign(k) : k \in 0 .. MaxMeddling}
    BY <1>1 DEF DeliveryAssumption
  <1> QED
    BY Zenon, <1>1 DEF FileLike, Files, Theirs

(* A file that moves to a free name leaves every other name as it was.     *)
LEMMA Moved ==
  ASSUME FilesOK, NEW from \in Paths, NEW to \in Paths, from # to, FileLike(fs[from]),
         fs' = Move(from, to)
  PROVE  /\ fs' = [p \in Paths |-> fs'[p]]
         /\ fs'[from] = Absent
         /\ FileLike(fs'[to]) /\ fs'[to].id = fs[from].id
         /\ \A p \in Paths \ {from, to} : fs'[p] = fs[p]
  <1>1. /\ fs' = [p \in Paths |-> fs'[p]]
        /\ fs'[from] = Absent /\ fs'[to] = Renamed(fs[from])
        /\ \A p \in Paths \ {from, to} : fs'[p] = fs[p]
    BY Zenon DEF Move, FilesOK
  <1> QED
    BY Zenon, <1>1, SameFile

(* A move to a name that is no staging name keeps the directory in order.  *)
LEMMA MovedKeeps ==
  ASSUME FilesOK, NEW from \in Paths, NEW to \in Paths, from # to, FileLike(fs[from]),
         fs' = Move(from, to), \A n \in Copies : Staging(n) # to
  PROVE  FilesOK'
  <1>1. /\ fs' = [p \in Paths |-> fs'[p]]
        /\ fs'[from] = Absent
        /\ FileLike(fs'[to]) /\ fs'[to].id = fs[from].id
        /\ \A p \in Paths \ {from, to} : fs'[p] = fs[p]
    BY Zenon, Moved
  <1>2. ASSUME NEW n \in Copies, fs'[Staging(n)] # Absent PROVE fs'[Staging(n)].id = n
    <2>1. Staging(n) \in Paths \ {from, to}
      BY Zenon, <1>1, <1>2, PathsApart
    <2> QED
      BY Zenon, <1>1, <1>2, <2>1 DEF FilesOK
  <1> QED
    BY Zenon, <1>1, <1>2 DEF FilesOK

(* The steps that leave the directory alone.                               *)
Looks ==
  \/ Recover \/ Commit \/ Snapshot \/ Name \/ NoSource \/ Verify \/ Capture
  \/ RequestRetirement \/ DirMove \/ DirRemove \/ DirClear \/ Finalize \/ Intent \/ Output \/ Inspect
  \/ Payload \/ StoreReconciled \/ Boot \/ Sweep \/ Promote \/ Delete \/ RemoveRow("remove")
  \/ Crash \/ Fault \/ Damage \/ UNCHANGED vars

LEMMA LooksOnly ==
  ASSUME Looks PROVE UNCHANGED fs
  <1> USE DEF diskVars, database, counters
  <1>1. ASSUME Recover \/ Commit \/ Snapshot \/ Name \/ NoSource \/ Verify \/ Capture
        PROVE  UNCHANGED fs
    BY Zenon, <1>1 DEF Recover, Commit, Snapshot, Name, NoSource, Verify, Capture
  <1>2. ASSUME RequestRetirement \/ DirMove \/ DirRemove \/ DirClear \/ Finalize \/ Intent \/ Output \/ Inspect
        PROVE  UNCHANGED fs
    BY Zenon, <1>2 DEF RequestRetirement, DirMove, DirRemove, DirClear, Finalize, Intent, Output, Inspect
  <1>3. ASSUME Payload \/ StoreReconciled \/ Boot \/ Sweep \/ Promote \/ Delete
        PROVE  UNCHANGED fs
    BY Zenon, <1>3 DEF Payload, StoreReconciled, Boot, BootStep, Restart, Sweep, Deliver, RetryRetirement,
                Redownload, Delete, Promote, Register, Admit, RemoveRow
  <1>4. ASSUME RemoveRow("remove") \/ Crash \/ Fault \/ Damage \/ UNCHANGED vars
        PROVE  UNCHANGED fs
    BY Zenon, <1>4 DEF RemoveRow, Crash, Fault, Damage, vars
  <1> QED
    BY Zenon, <1>1, <1>2, <1>3, <1>4 DEF Looks

(* Every other step writes or removes one file, or moves one; what it      *)
(* writes is a copy of its own at a staging name, or the operator's.       *)
Written(p, f) ==
  /\ fs' = [fs EXCEPT ![p] = f]
  /\ p \in Paths
  /\ f = Absent \/ FileLike(f)

LEMMA WrittenOne ==
  ASSUME FilesOK, NEW p \in Paths, NEW f, Written(p, f),
         \A n \in Copies : p = Staging(n) => f = Absent \/ f.id = n
  PROVE  /\ FilesOK'
         /\ fs'[p] = f /\ \A q \in Paths \ {p} : fs'[q] = fs[q]
  <1>1. /\ fs' = [q \in Paths |-> fs'[q]]
        /\ fs'[p] = f /\ \A q \in Paths \ {p} : fs'[q] = fs[q]
    BY Zenon DEF FilesOK, Written
  <1> QED
    BY Zenon, <1>1, PathsApart DEF FilesOK, Written

(* What the steps of a task and the operator do to the directory.          *)
LEMMA DirectoryKept ==
  ASSUME DeliveryAssumption, DeliveryInv, [Next]_vars
  PROVE  FilesOK'
  <1> USE DEF DeliveryInv
  <1>1. ASSUME Looks PROVE FilesOK'
    BY Zenon, <1>1, LooksOnly DEF FilesOK
  <1>2. ASSUME Stage PROVE FilesOK'
    <2>1. attempt.copy \in Copies
      BY Zenon, <1>2 DEF Stage, Holding, TaskOK, TaskFiles, AttemptGood
    <2> DEFINE f == [id |-> attempt.copy, good |-> FALSE, edited |-> FALSE, stamp |-> 0]
    <2>2. FileLike(f) /\ f.id = attempt.copy
      BY Zenon, <2>1, NewFiles
    <2>3. Written(Staging(attempt.copy), f)
      BY Zenon, <1>2, <2>1, <2>2, PathsApart DEF Stage, Written
    <2> HIDE DEF f
    <2> QED
      BY <2>1, <2>2, <2>3, PathsApart, WrittenOne
  <1>3. ASSUME Copy PROVE FilesOK'
    <2> DEFINE s == Staging(attempt.copy)
               f == [fs[s] EXCEPT !.good = (store.live = "good"), !.stamp = 1]
    <2>1. attempt.copy \in Copies /\ OwnFile(fs[s], attempt.copy)
      BY Zenon, <1>3 DEF Copy, Holding, TaskOK, TaskFiles, AttemptGood
    <2>2. FileLike(f) /\ f.id = attempt.copy
      BY ZenonT(60), <2>1, SameFile DEF OwnFile
    <2>3. s \in Paths
      BY Zenon, <2>1, PathsApart
    <2>4. Written(s, f)
      BY Zenon, <1>3, <2>2, <2>3 DEF Copy, Written, FilesOK
    <2> HIDE DEF f
    <2> QED
      BY <2>1, <2>2, <2>3, <2>4, PathsApart, WrittenOne
  <1>4. ASSUME Install PROVE FilesOK'
    <2> DEFINE s == Staging(attempt.copy)
    <2>1. attempt.copy \in Copies /\ OwnFile(fs[s], attempt.copy) /\ attempt.target \in Targets
      BY Zenon, <1>4 DEF Install, Holding, TaskOK, TaskFiles, AttemptGood
    <2>2. s \in Paths /\ attempt.target \in Paths /\ s # attempt.target
      BY Zenon, <2>1, PathsApart
    <2>3. CASE fs' = Move(s, attempt.target)
      <3>1. \A n \in Copies : Staging(n) # attempt.target
        BY Zenon, <2>1, PathsApart
      <3> QED
        BY Zenon, <2>1, <2>2, <2>3, <3>1, MovedKeeps DEF OwnFile
    <2>4. CASE fs' = [fs EXCEPT ![s] = Absent]
      BY Zenon, <2>2, <2>4, WrittenOne DEF Written
    <2> QED
      BY Zenon, <1>4, <2>3, <2>4 DEF Install
  <1>5. ASSUME Discard PROVE FilesOK'
    <2>1. CASE fs' = fs
      BY Zenon, <2>1 DEF FilesOK
    <2>2. CASE attempt # Absent /\ fs' = [fs EXCEPT ![Staging(attempt.copy)] = Absent]
      <3>1. Staging(attempt.copy) \in Paths
        BY Zenon, <2>2, PathsApart DEF RecordsOK, AttemptGood
      <3> QED
        BY Zenon, <2>2, <3>1, WrittenOne DEF Written
    <2> QED
      BY Zenon, <1>5, <2>1, <2>2 DEF Discard
  <1>6. ASSUME MoveAside \/ Seal PROVE FilesOK'
    <2> DEFINE t == Tomb(tombstone.copy)
    <2>1. tombstone.copy \in Copies /\ task.path \in Targets
      BY Zenon, <1>6 DEF MoveAside, Seal, Holding, TaskOK, TaskTombs, TombGood
    <2>2. t \in Paths /\ task.path \in Paths /\ t # task.path
      BY Zenon, <2>1, PathsApart
    <2>3. \A n \in Copies : Staging(n) # t /\ Staging(n) # task.path
      BY Zenon, <2>1, PathsApart
    <2>4. CASE UNCHANGED fs
      BY Zenon, <2>4 DEF FilesOK
    <2>5. CASE fs' = Move(task.path, t) /\ fs[task.path] # Absent
      <3>1. FileLike(fs[task.path])
        BY Zenon, <2>2, <2>5 DEF FilesOK
      <3> QED
        BY Zenon, <2>2, <2>3, <2>5, <3>1, MovedKeeps
    <2>6. CASE fs' = Move(t, task.path) /\ FileLike(fs[t])
      BY Zenon, <2>2, <2>3, <2>6, MovedKeeps
    <2> QED
      BY Zenon, <1>6, <2>4, <2>5, <2>6 DEF MoveAside, Seal, Holding, TaskOK, TaskTombs
  <1>7. ASSUME Reap PROVE FilesOK'
    <2>1. Tomb(tombstone.copy) \in Paths
      BY Zenon, <1>7, PathsApart DEF Reap, Holding, TaskOK, TaskTombs, TombGood
    <2>2. CASE UNCHANGED fs
      BY Zenon, <2>2 DEF FilesOK
    <2>3. CASE fs' = [fs EXCEPT ![Tomb(tombstone.copy)] = Absent]
      BY Zenon, <2>1, <2>3, WrittenOne DEF Written
    <2> QED
      BY Zenon, <1>7, <2>2, <2>3 DEF Reap
  <1>8. ASSUME NEW kind \in Meddling, NEW p \in Paths, Meddle(kind, p) PROVE FilesOK'
    <2>1. PICK f : /\ fs' = [fs EXCEPT ![p] = f]
                   /\ f = Absent \/ FileLike(f)
      <3>1. \A good \in BOOLEAN : FileLike(Theirs(good))
        BY Zenon, <1>8, NewFiles DEF Meddle
      <3>2. fs[p] # Absent => /\ \A good \in BOOLEAN : FileLike(Edited(fs[p], good))
                              /\ fs[p].good \in BOOLEAN
        BY Zenon, SameFile DEF FilesOK, FileLike, Files
      <3>3. p \in DOMAIN fs
        BY Zenon DEF FilesOK
      <3> QED
        BY Zenon, <1>8, <3>1, <3>2, <3>3 DEF Meddle
    <2>2. \A n \in Copies : p # Staging(n)
      BY Zenon, <1>8, PathsApart DEF Meddle, RecordsOK, TombGood
    <2> QED
      BY Zenon, <2>1, <2>2, WrittenOne DEF Written
  <1> QED
    BY Zenon, <1>1, <1>2, <1>3, <1>4, <1>5, <1>6, <1>7, <1>8 DEF Next, Step, Looks

(* How a task goes on.                                                     *)
TaskShape == DOMAIN task = {"op", "at", "path", "file", "owner", "recovering"}

LEMMA TaskUpdates ==
  ASSUME TaskShape
  PROVE  /\ \A step : GoTo(step) =>
              /\ TaskShape' /\ task'.at = step /\ task'.op = task.op /\ task'.path = task.path
              /\ task'.file = task.file /\ task'.owner = task.owner
         /\ \A step, p, f : Remember(step, p, f) =>
              /\ TaskShape' /\ task'.at = step /\ task'.op = task.op /\ task'.path = p
              /\ task'.file = f /\ task'.owner = task.owner
         /\ Recovered =>
              /\ TaskShape' /\ task'.at = AfterRecovery /\ task'.op = task.op
              /\ task'.path = Absent /\ task'.file = Absent /\ task'.owner = "owned"
  BY Zenon DEF TaskShape, GoTo, Remember, Recovered

(* A task that has recovered has nothing more to do with the attempt.      *)
LEMMA TaskRecovered ==
  ASSUME DeliveryInv, task # Absent, Recovered, RowGood',
         row'.retired = row.retired, row'.deleting = row.deleting, task.op # "delete"
  PROVE  TaskOK'
  <1>1. /\ TaskShape' /\ task'.at = AfterRecovery /\ task'.op = task.op /\ task'.file = Absent
    BY Zenon, TaskUpdates DEF DeliveryInv, TaskOK, TaskShape
  <1>2. /\ task.op \in {"deliver", "retire", "remove", "reconcile"}
        /\ task.op = "deliver" => ~row.retired
        /\ task.op = "reconcile" => ~row.deleting
    BY Zenon DEF DeliveryInv, TaskOK, TaskRow
  <1>3. /\ task'.at \in {"snapshot", "request", "payload"}
        /\ task'.at = "snapshot" => task.op = "deliver"
        /\ task'.at = "request" => task.op \in {"retire", "remove"}
        /\ task'.at = "payload" => task.op = "reconcile"
    BY Zenon, <1>1, <1>2 DEF AfterRecovery
  <1>4. TaskFiles'
    BY Zenon, <1>1, <1>3 DEF TaskFiles
  <1>5. TaskTombs'
    BY Zenon, <1>3 DEF TaskTombs
  <1>6. TaskRow'
    BY Zenon, <1>1, <1>2, <1>3 DEF TaskRow, Removing
  <1> QED
    BY Zenon, <1>1, <1>4, <1>5, <1>6 DEF TaskOK, TaskShape

(* Nothing is on record that was not.                                      *)
LEMMA RecordsSame ==
  ASSUME DeliveryInv, UNCHANGED <<row, attempt, tombstone>>, registered => registered'
  PROVE  RecordsOK'
  BY Zenon DEF DeliveryInv, RecordsOK, RowGood, RowShape, AttemptGood, TombGood

(* A task under way that nothing disturbs.                                 *)
LEMMA TaskStays ==
  ASSUME DeliveryInv, UNCHANGED <<fs, row, attempt, tombstone, task>>, registered => registered'
  PROVE  TaskOK'
  <1>1. task # Absent => TaskFiles'
    BY Zenon DEF DeliveryInv, TaskOK, TaskFiles, AttemptGood
  <1>2. task # Absent => TaskTombs'
    BY Zenon DEF DeliveryInv, TaskOK, TaskTombs, TombGood
  <1>3. task # Absent => TaskRow'
    BY Zenon DEF DeliveryInv, TaskOK, TaskRow, RowGood, RowShape
  <1> QED
    BY Zenon, <1>1, <1>2, <1>3 DEF DeliveryInv, TaskOK

(* A task starts on a row that is there.                                   *)
LEMMA TaskStarted ==
  ASSUME DeliveryInv, row # Absent, UNCHANGED <<row, registered>>, NEW op, NEW step,
         task' = StartTask(op, step),
         \/ /\ op \in {"deliver", "retire", "remove", "reconcile"} /\ step = "recover"
            /\ op = "deliver" => ~row.retired
            /\ op = "reconcile" => ~row.deleting
         \/ op = "delete" /\ step = "intent"
         \/ op = "remove" /\ step = "dirMove" /\ row.retired
  PROVE  TaskOK'
  <1>1. TaskShape' /\ task'.op = op /\ task'.at = step
    BY Zenon DEF StartTask, TaskShape
  <1>2. RowGood'
    BY Zenon DEF DeliveryInv, RecordsOK, RowGood, RowShape
  <1>3. TaskFiles' /\ TaskTombs'
    BY Zenon, <1>1 DEF TaskFiles, TaskTombs
  <1>4. TaskRow'
    BY Zenon, <1>1, <1>2 DEF TaskRow, Removing
  <1> QED
    BY Zenon, <1>1, <1>3, <1>4 DEF TaskOK, TaskShape

(* A task goes on to its last steps, which need nothing but the request.   *)
LEMMA TaskEnding ==
  ASSUME DeliveryInv, task # Absent, UNCHANGED <<row, registered>>, NEW step, GoTo(step),
         \/ step = "dirMove" /\ (row.deleting \/ row.retired)
         \/ step \in {"dirRemove", "dirClear"} /\ (row.deleting \/ row.retired)
         \/ step = "finalize"
  PROVE  TaskOK'
  <1>1. TaskShape' /\ task'.op = task.op /\ task'.at = step
    BY Zenon, TaskUpdates DEF DeliveryInv, TaskOK, TaskShape
  <1>2. TaskFiles' /\ TaskTombs'
    BY Zenon, <1>1 DEF TaskFiles, TaskTombs
  <1>3. TaskRow'
    BY Zenon, <1>1 DEF DeliveryInv, TaskOK, TaskRow, RowGood, RowShape, Removing
  <1> QED
    BY Zenon, <1>1, <1>2, <1>3 DEF TaskOK, TaskShape


(* Steps that start a task, end one, or leave the task alone.              *)
LEMMA RestKept ==
  ASSUME DeliveryAssumption, DeliveryInv,
         \/ NoSource \/ Crash \/ Fault
         \/ Restart \/ Admit \/ Damage \/ UNCHANGED vars
         \/ Register
         \/ Deliver \/ RetryRetirement \/ Delete \/ RemoveRow("retire") \/ RemoveRow("remove") \/ BootStep
         \/ Redownload
         \/ (\E kind \in Meddling, p \in Paths : Meddle(kind, p))
  PROVE  RecordsOK' /\ TaskOK'
  <1> USE DEF DeliveryInv, Holding, diskVars, database, counters
  <1> DEFINE Parts == RecordsOK' /\ TaskOK'
  <1>1. ASSUME NoSource \/ Crash \/ Fault PROVE Parts
    <2>1. task' = Absent /\ UNCHANGED <<row, attempt, tombstone, registered>>
      BY Zenon, <1>1 DEF NoSource, Crash, Fault, GiveUp
    <2> QED
      BY Zenon, <2>1, RecordsSame DEF TaskOK
  <1>2. ASSUME Restart \/ Admit \/ Damage \/ UNCHANGED vars PROVE Parts
    <2>1. UNCHANGED <<fs, row, attempt, tombstone, registered, task>>
      BY Zenon, <1>2 DEF Restart, Admit, Damage, vars
    <2> QED
      BY Zenon, <2>1, RecordsSame, TaskStays
  <1>3. ASSUME Register PROVE Parts
    <2>1. /\ UNCHANGED <<fs, row, attempt, tombstone, task>>
          /\ registered' = TRUE \/ registered' = registered
      BY Zenon, <1>3 DEF Register
    <2>2. registered => registered'
      BY Zenon, <2>1, Zenon
    <2> QED
      BY Zenon, <2>1, <2>2, RecordsSame, TaskStays
  <1>4. ASSUME Deliver \/ RetryRetirement \/ Delete \/ RemoveRow("retire") \/ RemoveRow("remove") \/ BootStep PROVE Parts
    <2>1. /\ UNCHANGED <<fs, row, attempt, tombstone, registered>>
          /\ \/ UNCHANGED task
             \/ row # Absent /\ \E op, step :
                  /\ task' = StartTask(op, step)
                  /\ \/ /\ op \in {"deliver", "retire", "remove", "reconcile"} /\ step = "recover"
                        /\ op = "deliver" => ~row.retired
                        /\ op = "reconcile" => ~row.deleting
                     \/ op = "delete" /\ step = "intent"
                     \/ op = "remove" /\ step = "dirMove" /\ row.retired
      BY Zenon, <1>4 DEF Deliver, RetryRetirement, Delete, RemoveRow, BootStep, Visible
    <2>2. RecordsOK'
      BY Zenon, <2>1, RecordsSame
    <2>3. TaskOK'
      BY Zenon, <2>1, TaskStays, TaskStarted
    <2> QED
      BY Zenon, <2>2, <2>3
  <1>5. ASSUME Redownload PROVE Parts
    <2>1. RowGood'
      BY Zenon, <1>5 DEF Redownload, Visible, RecordsOK, RowGood, RowShape
    <2> QED
      BY Zenon, <1>5, <2>1 DEF Redownload, RecordsOK, AttemptGood, TombGood, TaskOK
  <1>6. ASSUME NEW kind \in Meddling, NEW p \in Paths, Meddle(kind, p) PROVE Parts
    <2>1. UNCHANGED <<row, attempt, tombstone, registered, task>>
      BY Zenon, <1>6 DEF Meddle
    <2>2. RecordsOK'
      BY Zenon, <2>1 DEF RecordsOK, RowGood, RowShape, AttemptGood, TombGood
    <2>3. \A n \in Copies : fs'[Staging(n)] = fs[Staging(n)]
      <3>1. \A q \in Paths \ {p} : fs'[q] = fs[q]
        BY Zenon, <1>6 DEF Meddle, FilesOK
      <3>2. \A n \in Copies : p # Staging(n)
        BY Zenon, <1>6, PathsApart DEF Meddle, RecordsOK, TombGood
      <3> QED
        BY Zenon, <3>1, <3>2, PathsApart
    <2>4. ASSUME task # Absent, task.at = "seal" PROVE FileLike(fs'[Tomb(tombstone.copy)])
      <3>1. FileLike(fs[Tomb(tombstone.copy)]) /\ tombstone.copy \in Copies
        BY Zenon, <2>4 DEF TaskOK, TaskTombs, TombGood
      <3>2. CASE p # Tomb(tombstone.copy)
        BY Zenon, <1>6, <3>1, <3>2, PathsApart DEF Meddle, FilesOK
      <3>3. CASE p = Tomb(tombstone.copy)
        <4>1. fs' = [fs EXCEPT ![p] = Theirs(FALSE)]
          BY Zenon, <1>6, <3>1, <3>3, PathsApart DEF Meddle
        <4> QED
          BY Zenon, <1>6, <3>1, <3>3, <4>1, NewFiles, PathsApart DEF FilesOK, Meddle
      <3> QED
        BY Zenon, <3>2, <3>3
    <2>5. task # Absent => TaskFiles'
      BY Zenon, <2>1, <2>3 DEF TaskOK, TaskFiles, AttemptGood
    <2>6. task # Absent => TaskTombs' /\ TaskRow'
      BY Zenon, <2>1, <2>4 DEF TaskOK, TaskTombs, TombGood, TaskRow, RowGood, RowShape
    <2> QED
      BY Zenon, <2>1, <2>2, <2>5, <2>6 DEF TaskOK
  <1> QED
    BY Zenon, <1>1, <1>2, <1>3, <1>4, <1>5, <1>6

(* An interrupted attempt is committed, taken up again or dropped.         *)
LEMMA RecoveryKept ==
  ASSUME DeliveryAssumption, DeliveryInv,
         \/ Recover
         \/ Commit
  PROVE  RecordsOK' /\ TaskOK'
  <1> USE DEF DeliveryInv, Holding, diskVars, database, counters
  <1> DEFINE Parts == RecordsOK' /\ TaskOK'
  <1>1. ASSUME Recover PROVE Parts
    <2>1. RecordsOK'
      BY Zenon, <1>1 DEF Recover, RecordsOK, RowGood, RowShape, AttemptGood, TombGood
    <2>2. /\ task # Absent /\ TaskShape /\ RowGood /\ task.op # "delete"
          /\ UNCHANGED <<row, registered, fs, tombstone>>
      BY Zenon, <1>1 DEF Recover, TaskOK, TaskShape, TaskRow, Removing
    <2>3. RowGood'
      BY Zenon, <2>2 DEF RowGood, RowShape
    <2>4. CASE Recovered
      BY Zenon, <2>1, <2>2, <2>3, <2>4, TaskRecovered
    <2>5. CASE /\ attempt # Absent /\ attempt' = attempt
               /\ \/ /\ attempt.phase = "published"
                     /\ Remember("commit", attempt.target, attempt.published)
                  \/ /\ attempt.phase = "staged" /\ fs[Staging(attempt.copy)] = attempt.staged
                     /\ Remember("install", attempt.target, attempt.staged)
                  \/ /\ RecoverTarget(attempt)
                     /\ task' = [task EXCEPT !.at = "commit", !.path = attempt.target,
                                             !.file = fs[attempt.target], !.owner = "unowned"]
      <3>1. AttemptGood /\ AttemptGood'
        BY Zenon, <2>5 DEF RecordsOK, AttemptGood
      <3>2. TaskShape' /\ task'.op = task.op /\ task'.at \in {"commit", "install"}
        BY Zenon, <2>2, <2>5, TaskUpdates DEF TaskShape
      <3>3. task'.path = attempt.target
        BY ZenonT(60), <2>2, <2>5, TaskUpdates DEF TaskShape
      <3>4. task'.at = "install" => /\ attempt.phase = "staged" /\ task'.file = attempt.staged
                                    /\ fs[Staging(attempt.copy)] = attempt.staged
        BY ZenonT(60), <2>2, <2>5, TaskUpdates DEF TaskShape
      <3>5. task'.at = "commit" =>
               \/ attempt.phase = "published" /\ task'.file = attempt.published
               \/ /\ fs[attempt.target] # Absent /\ fs[attempt.target].good
                  /\ task'.file = fs[attempt.target] /\ task'.owner = "unowned"
        BY ZenonT(60), <2>2, <2>5, TaskUpdates DEF TaskShape, RecoverTarget, Matches
      <3>6. TaskFiles'
        BY SMTT(60), <2>2, <2>5, <3>1, <3>2, <3>3, <3>4, <3>5 DEF TaskFiles, AttemptGood, OwnFile
      <3>7. TaskTombs' /\ TaskRow'
        BY Zenon, <2>2, <2>3, <3>2 DEF TaskTombs, TaskRow, Removing, TaskOK
      <3> QED
        BY Zenon, <2>1, <3>2, <3>6, <3>7 DEF TaskOK, TaskShape
    <2> QED
      BY Zenon, <1>1, <2>4, <2>5 DEF Recover
  <1>2. ASSUME Commit PROVE Parts
    <2>1. /\ task # Absent /\ TaskShape /\ RowGood /\ task.op # "delete"
          /\ task.file # Absent /\ task.file.good /\ task.path \in Targets
          /\ task.owner = "owned" => task.file.id \in Copies
      BY Zenon, <1>2 DEF Commit, TaskOK, TaskShape, TaskRow, TaskFiles, Removing
    <2>2. /\ RowShape' /\ row'.delivered /\ row'.owner = task.owner /\ row'.path = task.path
          /\ row'.file = task.file /\ row'.retired = row.retired /\ row'.deleting = row.deleting
      BY Zenon, <1>2, <2>1 DEF Commit, RowGood, RowShape
    <2>3. RowGood' /\ UNCHANGED <<tombstone, registered>> /\ attempt' = Absent
      BY Zenon, <1>2, <2>1, <2>2 DEF Commit, RowGood
    <2>4. RecordsOK'
      BY Zenon, <2>3 DEF RecordsOK, TombGood
    <2>5. TaskOK'
      BY Zenon, <1>2, <2>1, <2>2, <2>3, TaskRecovered DEF Commit, Release, TaskOK
    <2> QED
      BY Zenon, <2>4, <2>5
  <1> QED
    BY Zenon, <1>1, <1>2

(* The steps from the name to the captured output.                         *)
LEMMA DeliveringKept ==
  ASSUME DeliveryAssumption, DeliveryInv,
         \/ Snapshot
         \/ Name
         \/ Stage
         \/ Copy
         \/ Verify
         \/ Install
         \/ Capture
  PROVE  RecordsOK' /\ TaskOK'
  <1> USE DEF DeliveryInv, Holding, diskVars, database, counters
  <1> DEFINE Parts == RecordsOK' /\ TaskOK'
  <1>1. ASSUME Snapshot PROVE Parts
    <2>1. task # Absent /\ TaskShape /\ RowGood /\ task.op = "deliver" /\ ~row.retired
      BY Zenon, <1>1 DEF Snapshot, TaskOK, TaskShape, TaskRow
    <2>2. RowGood' /\ ~row'.retired
      BY Zenon, <1>1, <2>1 DEF Snapshot, RowGood, RowShape
    <2>3. RecordsOK'
      BY Zenon, <1>1, <2>2 DEF Snapshot, RecordsOK, AttemptGood, TombGood
    <2>4. CASE task' = Absent
      BY Zenon, <2>3, <2>4 DEF TaskOK
    <2>5. CASE GoTo("name")
      <3>1. TaskShape' /\ task'.at = "name" /\ task'.op = "deliver"
        BY Zenon, <2>1, <2>5, TaskUpdates
      <3>2. TaskFiles' /\ TaskTombs' /\ TaskRow'
        BY Zenon, <2>2, <3>1 DEF TaskFiles, TaskTombs, TaskRow, Removing
      <3> QED
        BY Zenon, <2>3, <3>1, <3>2 DEF TaskOK, TaskShape
    <2> QED
      BY Zenon, <1>1, <2>4, <2>5 DEF Snapshot, Release
  <1>2. ASSUME Name PROVE Parts
    <2>1. task # Absent /\ TaskShape /\ TaskRow /\ UNCHANGED <<row, tombstone, registered>>
      BY Zenon, <1>2 DEF Name, TaskOK, TaskShape
    <2>2. PICK i \in Names, n \in Copies :
             attempt' = Prepared(n, Target(i)) /\ Remember("stage", Target(i), Absent)
      BY Zenon, <1>2 DEF Name
    <2>3. TaskShape' /\ task'.at = "stage" /\ task'.op = task.op
      BY Zenon, <2>1, <2>2, TaskUpdates
    <2>4. AttemptGood'
      BY Zenon, <2>2, PathsApart DEF Prepared, AttemptGood
    <2>5. RecordsOK'
      BY Zenon, <2>1, <2>4 DEF RecordsOK, RowGood, RowShape, TombGood
    <2>6. TaskFiles' /\ TaskTombs'
      BY Zenon, <2>3, <2>4 DEF TaskFiles, TaskTombs
    <2>7. TaskRow'
      BY <1>2, <2>1, <2>3 DEF Name, TaskRow, RowGood, RowShape, Removing
    <2> QED
      BY Zenon, <2>3, <2>5, <2>6, <2>7 DEF TaskOK, TaskShape
  <1>3. ASSUME Stage PROVE Parts
    <2>1. /\ task # Absent /\ TaskShape /\ TaskRow /\ AttemptGood /\ task.at = "stage"
          /\ UNCHANGED <<row, attempt, tombstone, registered>>
      BY Zenon, <1>3 DEF Stage, TaskOK, TaskShape, TaskFiles
    <2>2. TaskShape' /\ task'.at = "copy" /\ task'.op = task.op
      BY Zenon, <1>3, <2>1, TaskUpdates DEF Stage
    <2>3. fs'[Staging(attempt.copy)] = [id |-> attempt.copy, good |-> FALSE, edited |-> FALSE,
                                        stamp |-> 0]
      BY Zenon, <1>3, <2>1, PathsApart DEF Stage, AttemptGood, FilesOK
    <2>4. OwnFile(fs'[Staging(attempt.copy)], attempt.copy)
      BY <2>1, <2>3, NewFiles DEF OwnFile, AttemptGood
    <2>5. RecordsOK' /\ AttemptGood'
      BY Zenon, <2>1 DEF RecordsOK, RowGood, RowShape, AttemptGood, TombGood
    <2>6. TaskFiles'
      BY Zenon, <2>1, <2>2, <2>4, <2>5 DEF TaskFiles
    <2>7. TaskTombs' /\ TaskRow'
      BY Zenon, <2>1, <2>2 DEF TaskTombs, TaskRow, Removing, RowGood, RowShape
    <2> QED
      BY Zenon, <2>2, <2>5, <2>6, <2>7 DEF TaskOK, TaskShape
  <1>4. ASSUME Copy PROVE Parts
    <2>1. /\ task # Absent /\ TaskShape /\ TaskRow /\ AttemptGood /\ task.at = "copy"
          /\ OwnFile(fs[Staging(attempt.copy)], attempt.copy)
          /\ UNCHANGED <<row, attempt, tombstone, registered>>
      BY Zenon, <1>4 DEF Copy, TaskOK, TaskShape, TaskFiles
    <2>2. TaskShape' /\ task'.at = "verify" /\ task'.op = task.op
      BY Zenon, <1>4, <2>1, TaskUpdates DEF Copy
    <2>3. fs'[Staging(attempt.copy)] = [fs[Staging(attempt.copy)] EXCEPT !.good = (store.live = "good"),
                                                                          !.stamp = 1]
      BY Zenon, <1>4, <2>1, PathsApart DEF Copy, AttemptGood, FilesOK
    <2>4. OwnFile(fs'[Staging(attempt.copy)], attempt.copy)
      <3> DEFINE s == fs[Staging(attempt.copy)]
                 f == fs'[Staging(attempt.copy)]
                 live == store.live = "good"
      <3>1. live \in BOOLEAN /\ FileLike(s) /\ s.id = attempt.copy
        BY Zenon, <2>1 DEF OwnFile
      <3>2. f = [s EXCEPT !.good = live, !.stamp = 1]
        BY Zenon, <2>3
      <3> HIDE DEF s, f, live
      <3>3. FileLike(f) /\ f.id = attempt.copy
        BY ZenonT(60), <3>1, <3>2, SameFile
      <3> QED
        BY Zenon, <3>3 DEF f, OwnFile
    <2>5. RecordsOK' /\ AttemptGood'
      BY Zenon, <2>1 DEF RecordsOK, RowGood, RowShape, AttemptGood, TombGood
    <2>6. TaskFiles'
      BY Zenon, <2>1, <2>2, <2>4, <2>5 DEF TaskFiles
    <2>7. TaskTombs' /\ TaskRow'
      BY Zenon, <2>1, <2>2 DEF TaskTombs, TaskRow, Removing, RowGood, RowShape
    <2> QED
      BY Zenon, <2>2, <2>5, <2>6, <2>7 DEF TaskOK, TaskShape
  <1>5. ASSUME Verify PROVE Parts
    <2> DEFINE f == fs[Staging(attempt.copy)]
    <2>1. /\ task # Absent /\ TaskShape /\ TaskRow /\ AttemptGood /\ task.at = "verify"
          /\ OwnFile(f, attempt.copy)
          /\ UNCHANGED <<fs, row, tombstone, registered>>
      BY Zenon, <1>5 DEF Verify, TaskOK, TaskShape, TaskFiles
    <2>2. CASE attempt' = Staged(f) /\ Remember("install", attempt.target, f)
      <3> HIDE DEF f
      <3>1. /\ TaskShape' /\ task'.at = "install" /\ task'.op = task.op
            /\ task'.path = attempt.target /\ task'.file = f
        BY Zenon, <2>1, <2>2, TaskUpdates
      <3>2. /\ attempt'.copy = attempt.copy /\ attempt'.target = attempt.target
            /\ attempt'.phase = "staged" /\ attempt'.staged = f
            /\ DOMAIN attempt' = DOMAIN attempt
        BY Zenon, <2>1, <2>2 DEF Staged, AttemptGood
      <3>3. AttemptGood'
        BY Zenon, <2>1, <3>2 DEF AttemptGood
      <3>4. RecordsOK'
        BY Zenon, <2>1, <3>3 DEF RecordsOK, RowGood, RowShape, TombGood
      <3>5. TaskFiles'
        BY Zenon, <2>1, <3>1, <3>2, <3>3 DEF TaskFiles, AttemptGood, OwnFile, f
      <3>6. TaskTombs' /\ TaskRow'
        BY Zenon, <2>1, <3>1 DEF TaskTombs, TaskRow, Removing, RowGood, RowShape
      <3> QED
        BY Zenon, <3>1, <3>4, <3>5, <3>6 DEF TaskOK, TaskShape
    <2>3. CASE task' = Absent /\ attempt' = attempt
      BY Zenon, <2>1, <2>3 DEF RecordsOK, RowGood, RowShape, AttemptGood, TombGood, TaskOK
    <2> QED
      BY Zenon, <1>5, <2>2, <2>3 DEF Verify, GiveUp
  <1>6. ASSUME Install PROVE Parts
    <2> DEFINE s == Staging(attempt.copy)
    <2>1. /\ task # Absent /\ TaskShape /\ TaskRow /\ AttemptGood /\ task.at = "install"
          /\ task.file.id = attempt.copy /\ task.path \in Targets /\ attempt.phase # "prepared"
          /\ UNCHANGED <<row, tombstone, registered>>
      BY Zenon, <1>6 DEF Install, TaskOK, TaskShape, TaskFiles
    <2>2. RowGood' /\ (task.op # "delete")
      BY Zenon, <2>1 DEF TaskRow, RowGood, RowShape, Removing
    <2>3. CASE GoTo("capture") /\ attempt' = attempt
      <3>1. /\ TaskShape' /\ task'.at = "capture" /\ task'.op = task.op
            /\ task'.path = task.path /\ task'.file = task.file
        BY Zenon, <2>1, <2>3, TaskUpdates
      <3>2. RecordsOK' /\ AttemptGood'
        BY Zenon, <2>1, <2>2, <2>3 DEF RecordsOK, AttemptGood, TombGood
      <3>3. TaskFiles'
        BY Zenon, <2>1, <2>3, <3>1, <3>2 DEF TaskFiles
      <3>4. TaskTombs' /\ TaskRow'
        BY Zenon, <2>1, <2>2, <3>1 DEF TaskTombs, TaskRow, Removing
      <3> QED
        BY Zenon, <3>1, <3>2, <3>3, <3>4 DEF TaskOK, TaskShape
    <2>4. CASE attempt' = Absent /\ (Recovered \/ GoTo("name"))
      <3>1. RecordsOK'
        BY Zenon, <2>1, <2>2, <2>4 DEF RecordsOK, TombGood
      <3>2. ASSUME Recovered PROVE TaskOK'
        BY Zenon, <2>1, <2>2, <3>2, TaskRecovered
      <3>3. ASSUME GoTo("name") PROVE TaskOK'
        <4>1. TaskShape' /\ task'.at = "name" /\ task'.op = task.op
          BY Zenon, <2>1, <3>3, TaskUpdates
        <4> QED
          BY Zenon, <2>1, <2>2, <4>1 DEF TaskOK, TaskShape, TaskFiles, TaskTombs, TaskRow, Removing
      <3> QED
        BY Zenon, <2>4, <3>1, <3>2, <3>3
    <2> QED
      BY Zenon, <1>6, <2>3, <2>4 DEF Install
  <1>7. ASSUME Capture PROVE Parts
    <2> DEFINE f == fs[task.path]
    <2>1. /\ task # Absent /\ TaskShape /\ TaskRow /\ AttemptGood /\ task.at = "capture"
          /\ task.file.id = attempt.copy /\ task.path \in Targets /\ attempt.phase # "prepared"
          /\ UNCHANGED <<row, tombstone, registered>>
      BY Zenon, <1>7 DEF Capture, TaskOK, TaskShape, TaskFiles
    <2>2. CASE Captured /\ attempt' = Published(f) /\ Remember("commit", task.path, f)
      <3>0. f # Absent /\ f.id = attempt.copy /\ f.good
        BY Zenon, <2>1, <2>2 DEF Captured
      <3> HIDE DEF f
      <3>1. /\ TaskShape' /\ task'.at = "commit" /\ task'.op = task.op
            /\ task'.path = task.path /\ task'.file = f
        BY SMTT(60), <2>1, <2>2, TaskUpdates
      <3>2. /\ attempt'.copy = attempt.copy /\ attempt'.target = attempt.target
            /\ attempt'.phase = "published" /\ attempt'.staged = attempt.staged
            /\ attempt'.published = f /\ DOMAIN attempt' = DOMAIN attempt
        BY Zenon, <2>1, <2>2 DEF Published, AttemptGood
      <3>3. AttemptGood'
        BY Zenon, <2>1, <3>0, <3>2 DEF AttemptGood
      <3>4. RecordsOK'
        BY Zenon, <2>1, <3>3 DEF RecordsOK, RowGood, RowShape, TombGood
      <3>5. TaskFiles'
        BY Zenon, <2>1, <3>0, <3>1 DEF TaskFiles, AttemptGood
      <3>6. TaskTombs' /\ TaskRow'
        BY Zenon, <2>1, <3>1 DEF TaskTombs, TaskRow, Removing, RowGood, RowShape
      <3> QED
        BY Zenon, <3>1, <3>4, <3>5, <3>6 DEF TaskOK, TaskShape
    <2>3. CASE task' = Absent /\ attempt' = attempt
      BY Zenon, <2>1, <2>3 DEF RecordsOK, RowGood, RowShape, AttemptGood, TombGood, TaskOK
    <2> QED
      BY Zenon, <1>7, <2>2, <2>3 DEF Capture, GiveUp
  <1> QED
    BY Zenon, <1>1, <1>2, <1>3, <1>4, <1>5, <1>6, <1>7

(* Requests for retirement and deletion, the directory and the row's end.  *)
LEMMA RequestsKept ==
  ASSUME DeliveryAssumption, DeliveryInv,
         \/ RequestRetirement \/ Intent
         \/ DirMove \/ DirRemove \/ DirClear
         \/ Finalize
  PROVE  RecordsOK' /\ TaskOK'
  <1> USE DEF DeliveryInv, Holding, diskVars, database, counters
  <1> DEFINE Parts == RecordsOK' /\ TaskOK'
  <1>1. ASSUME RequestRetirement \/ Intent PROVE Parts
    <2>1. /\ task # Absent /\ TaskShape /\ TaskRow
          /\ UNCHANGED <<fs, attempt, tombstone, registered>>
      BY Zenon, <1>1 DEF RequestRetirement, Intent, TaskOK, TaskShape
    <2>2. CASE task' = Absent /\ row' = row
      BY Zenon, <2>1, <2>2 DEF RecordsOK, RowGood, RowShape, AttemptGood, TombGood, TaskOK
    <2>3. CASE RequestRetirement /\ (row.retired \/ Retirable) /\ GoTo("dirMove")
      <3>1. TaskShape' /\ task'.at = "dirMove" /\ task'.op = task.op
        BY Zenon, <2>1, <2>3, TaskUpdates
      <3>2. /\ RowShape' /\ row'.delivered = row.delivered /\ row'.owner = row.owner
            /\ row'.path = row.path /\ row'.file = row.file /\ row'.retired
            /\ row'.deleting = row.deleting
        BY ZenonT(60), <2>1, <2>3 DEF RequestRetirement, TaskRow, RowGood, RowShape
      <3>3. task.op # "deliver"
        BY Zenon, <2>1, <2>3 DEF RequestRetirement, TaskOK, TaskRow
      <3>4. RowGood'
        BY Zenon, <2>1, <2>3, <3>2 DEF TaskRow, RowGood, Retirable
      <3>5. RecordsOK'
        BY Zenon, <2>1, <3>4 DEF RecordsOK, AttemptGood, TombGood
      <3>6. TaskFiles' /\ TaskTombs' /\ TaskRow'
        BY Zenon, <2>1, <3>1, <3>2, <3>3, <3>4 DEF TaskFiles, TaskTombs, TaskRow, Removing
      <3> QED
        BY Zenon, <3>1, <3>5, <3>6 DEF TaskOK, TaskShape
    <2>4. CASE Intent
      <3>1. TaskShape' /\ task'.at = "discard" /\ task'.op = task.op
        BY Zenon, <2>1, <2>4, TaskUpdates DEF Intent
      <3>2. /\ RowShape' /\ row'.delivered = row.delivered /\ row'.owner = row.owner
            /\ row'.path = row.path /\ row'.file = row.file /\ row'.retired = row.retired
            /\ row'.deleting
        BY Zenon, <2>1, <2>4 DEF Intent, TaskRow, RowGood, RowShape
      <3>3. RowGood' /\ task.op = "delete"
        BY <2>1, <2>4, <3>2 DEF TaskRow, RowGood, Intent
      <3>4. RecordsOK'
        BY Zenon, <2>1, <3>3 DEF RecordsOK, AttemptGood, TombGood
      <3>5. TaskFiles' /\ TaskTombs' /\ TaskRow'
        BY Zenon, <2>1, <3>1, <3>2, <3>3 DEF TaskFiles, TaskTombs, TaskRow, Removing
      <3> QED
        BY Zenon, <3>1, <3>4, <3>5 DEF TaskOK, TaskShape
    <2> QED
      BY Zenon, <1>1, <2>2, <2>3, <2>4 DEF RequestRetirement, GiveUp
  <1>2. ASSUME DirMove \/ DirRemove \/ DirClear PROVE Parts
    <2>1. /\ task # Absent /\ UNCHANGED <<row, attempt, tombstone, registered>>
          /\ row.deleting \/ row.retired
      BY Zenon, <1>2 DEF DirMove, DirRemove, DirClear, TaskOK, TaskRow
    <2>2. task' = Absent \/ GoTo("dirRemove") \/ GoTo("dirClear") \/ GoTo("finalize")
      BY Zenon, <1>2 DEF DirMove, DirRemove, DirClear, GiveUp
    <2>3. RecordsOK'
      BY Zenon, <2>1, RecordsSame
    <2>4. TaskOK'
      BY Zenon, <2>1, <2>2, TaskEnding DEF TaskOK
    <2> QED
      BY Zenon, <2>3, <2>4
  <1>3. ASSUME Finalize PROVE Parts
    BY Zenon, <1>3 DEF Finalize, Release, RecordsOK, TaskOK
  <1> QED
    BY Zenon, <1>1, <1>2, <1>3

(* The output's way to its tombstone.                                      *)
LEMMA DestroyingKept ==
  ASSUME DeliveryAssumption, DeliveryInv,
         \/ Discard
         \/ Output
         \/ Inspect
         \/ MoveAside
         \/ Seal
         \/ Reap
  PROVE  RecordsOK' /\ TaskOK'
  <1> USE DEF DeliveryInv, Holding, diskVars, database, counters
  <1> DEFINE Parts == RecordsOK' /\ TaskOK'
  <1>1. ASSUME Discard PROVE Parts
    <2>1. /\ task # Absent /\ TaskShape /\ TaskRow /\ task.at = "discard" /\ row.deleting
          /\ UNCHANGED <<row, tombstone, registered>>
      BY Zenon, <1>1 DEF Discard, TaskOK, TaskShape, TaskRow, Removing
    <2>2. PICK p, f : /\ Remember("output", p, f)
                      /\ p = Absent \/ (p \in Targets /\ f.id \in Copies)
      <3>1. attempt # Absent /\ attempt.phase = "published" =>
               attempt.target \in Targets /\ attempt.published.id \in Copies
        BY Zenon DEF RecordsOK, AttemptGood
      <3>2. RowOwnsOutput => row.path \in Targets /\ row.file.id \in Copies
        BY Zenon, <2>1 DEF RowOwnsOutput, TaskRow, RowGood
      <3> QED
        BY Zenon, <1>1, <3>1, <3>2 DEF Discard
    <2>3. /\ TaskShape' /\ task'.at = "output" /\ task'.op = task.op
          /\ task'.path = p /\ task'.file = f
      BY Zenon, <2>1, <2>2, TaskUpdates
    <2>4. RecordsOK'
      <3>1. attempt' = attempt \/ attempt' = Absent
        BY Zenon, <1>1 DEF Discard
      <3> QED
        BY Zenon, <2>1, <3>1 DEF RecordsOK, RowGood, RowShape, AttemptGood, TombGood
    <2>5. TaskFiles' /\ TaskTombs' /\ TaskRow'
      BY Zenon, <2>1, <2>2, <2>3 DEF TaskFiles, TaskTombs, TaskRow, Removing, RowGood, RowShape
    <2> QED
      BY Zenon, <2>3, <2>4, <2>5 DEF TaskOK, TaskShape
  <1>2. ASSUME Output PROVE Parts
    <2>1. /\ task # Absent /\ TaskShape /\ TaskRow /\ row.deleting
          /\ task.path = Absent \/ (task.path \in Targets /\ task.file.id \in Copies)
          /\ UNCHANGED <<fs, row, attempt, registered>>
      BY Zenon, <1>2 DEF Output, TaskOK, TaskShape, TaskRow, TaskTombs, Removing
    <2>2. CASE UNCHANGED tombstone /\ GoTo("dirMove")
      BY Zenon, <2>1, <2>2, RecordsSame, TaskEnding
    <2>3. CASE /\ TombGood'
               /\ GoTo("inspect") \/ (GoTo("reap") /\ tombstone'.moved.id \in Copies)
      <3>1. /\ TaskShape' /\ task'.op = task.op /\ task'.at \in {"inspect", "reap"}
            /\ task'.at = "reap" => tombstone'.moved.id \in Copies
        BY <2>1, <2>3, TaskUpdates
      <3>2. RecordsOK'
        BY Zenon, <2>1, <2>3 DEF RecordsOK, RowGood, RowShape, AttemptGood
      <3>3. TaskFiles' /\ TaskTombs'
        BY Zenon, <2>3, <3>1 DEF TaskFiles, TaskTombs
      <3>4. TaskRow'
        BY Zenon, <2>1, <3>1 DEF TaskRow, RowGood, RowShape, Removing
      <3> QED
        BY Zenon, <3>1, <3>2, <3>3, <3>4 DEF TaskOK, TaskShape
    <2>4. CASE tombstone # Absent /\ UNCHANGED tombstone
      <3>1. TombGood /\ TombGood'
        BY Zenon, <2>4 DEF RecordsOK, TombGood
      <3> QED
        BY Zenon, <1>2, <2>3, <2>4, <3>1 DEF Output, TombGood
    <2>5. CASE Standing(task.path, task.file) /\ GoTo("inspect") /\ \E m \in Copies : tombstone' = Aside(m, task.path, task.file)
      <3>1. TombGood'
        BY <2>1, <2>5 DEF Standing, Aside, TombGood
      <3> QED
        BY Zenon, <2>3, <2>5, <3>1
    <2> QED
      BY Zenon, <1>2, <2>2, <2>4, <2>5 DEF Output
  <1>3. ASSUME Inspect PROVE Parts
    <2> DEFINE hidden == fs[Tomb(tombstone.copy)]
    <2>1. /\ task # Absent /\ TaskShape /\ TaskRow /\ TombGood /\ row.deleting
          /\ UNCHANGED <<fs, row, attempt, registered>>
      BY Zenon, <1>3 DEF Inspect, TaskOK, TaskShape, TaskRow, TaskTombs, Removing
    <2>2. CASE (UNCHANGED tombstone \/ tombstone' = Absent) /\ (task' = Absent \/ GoTo("dirMove"))
      <3>1. RecordsOK'
        BY Zenon, <2>1, <2>2 DEF RecordsOK, RowGood, RowShape, AttemptGood, TombGood
      <3> QED
        BY Zenon, <2>1, <2>2, <3>1, TaskEnding DEF TaskOK
    <2>3. CASE /\ hidden.id = tombstone.source.id
               /\ tombstone' = Sealed(hidden) /\ GoTo("reap")
      <3> HIDE DEF hidden
      <3>1. TaskShape' /\ task'.op = task.op /\ task'.at = "reap"
        BY Zenon, <2>1, <2>3, TaskUpdates
      <3>2. TombGood' /\ tombstone'.moved.id \in Copies
        BY Zenon, <2>1, <2>3 DEF TombGood, Sealed
      <3>3. RecordsOK'
        BY Zenon, <2>1, <3>2 DEF RecordsOK, RowGood, RowShape, AttemptGood
      <3>4. TaskFiles' /\ TaskTombs'
        BY Zenon, <3>1, <3>2 DEF TaskFiles, TaskTombs
      <3>5. TaskRow'
        BY Zenon, <2>1, <3>1 DEF TaskRow, RowGood, RowShape, Removing
      <3> QED
        BY Zenon, <3>1, <3>3, <3>4, <3>5 DEF TaskOK, TaskShape
    <2>4. CASE UNCHANGED tombstone /\ Remember("move", tombstone.path, tombstone.source)
      <3>1. /\ TaskShape' /\ task'.op = task.op /\ task'.at = "move"
            /\ task'.path = tombstone.path /\ task'.file = tombstone.source
        BY Zenon, <2>1, <2>4, TaskUpdates
      <3>2. TombGood' /\ RecordsOK'
        BY Zenon, <2>1, <2>4, RecordsSame DEF TombGood
      <3>3. TaskFiles' /\ TaskTombs'
        BY Zenon, <2>1, <3>1, <3>2 DEF TaskFiles, TaskTombs, TombGood
      <3>4. TaskRow'
        BY Zenon, <2>1, <3>1 DEF TaskRow, RowGood, RowShape, Removing
      <3> QED
        BY Zenon, <3>1, <3>2, <3>3, <3>4 DEF TaskOK, TaskShape
    <2> QED
      BY Zenon, <1>3, <2>2, <2>3, <2>4 DEF Inspect, GiveUp
  <1>4. ASSUME MoveAside PROVE Parts
    <2> DEFINE t == Tomb(tombstone.copy)
    <2>1. /\ task # Absent /\ TaskShape /\ TaskRow /\ TombGood /\ task.at = "move"
          /\ task.path \in Targets /\ task.file.id \in Copies
          /\ UNCHANGED <<row, attempt, registered>>
      BY Zenon, <1>4 DEF MoveAside, TaskOK, TaskShape, TaskTombs
    <2>2. RowGood' /\ row.deleting
      BY Zenon, <2>1 DEF TaskRow, RowGood, RowShape, Removing
    <2>3. CASE task' = Absent /\ UNCHANGED tombstone
      BY Zenon, <2>1, <2>3 DEF RecordsOK, RowGood, RowShape, AttemptGood, TombGood, TaskOK
    <2>4. CASE tombstone' = Absent /\ Remember("output", tombstone.path, tombstone.source)
      <3>1. /\ TaskShape' /\ task'.at = "output" /\ task'.op = task.op
            /\ task'.path = tombstone.path /\ task'.file = tombstone.source
        BY Zenon, <2>1, <2>4, TaskUpdates
      <3>2. RecordsOK'
        BY Zenon, <2>1, <2>4 DEF RecordsOK, RowGood, RowShape, AttemptGood, TombGood
      <3>3. TaskFiles' /\ TaskTombs' /\ TaskRow'
        BY Zenon, <2>1, <2>2, <3>1 DEF TaskFiles, TaskTombs, TaskRow, Removing, TombGood
      <3> QED
        BY Zenon, <3>1, <3>2, <3>3 DEF TaskOK, TaskShape
    <2>5. CASE /\ fs[task.path] # Absent /\ fs' = Move(task.path, t) /\ GoTo("seal")
               /\ UNCHANGED tombstone
      <3>1. /\ TaskShape' /\ task'.at = "seal" /\ task'.op = task.op
            /\ task'.path = task.path /\ task'.file = task.file
        BY Zenon, <2>1, <2>5, TaskUpdates
      <3>2. t \in Paths /\ task.path \in Paths /\ t # task.path /\ FileLike(fs[task.path])
        BY Zenon, <2>1, <2>5, PathsApart DEF TombGood, FilesOK
      <3>3. FileLike(fs'[t])
        BY Zenon, <2>5, <3>2, Moved
      <3>4. RecordsOK' /\ TombGood'
        BY Zenon, <2>1, <2>5 DEF RecordsOK, RowGood, RowShape, AttemptGood, TombGood
      <3>5. TaskFiles' /\ TaskTombs' /\ TaskRow'
        BY Zenon, <2>1, <2>2, <2>5, <3>1, <3>3, <3>4 DEF TaskFiles, TaskTombs, TaskRow, Removing
      <3> QED
        BY Zenon, <3>1, <3>4, <3>5 DEF TaskOK, TaskShape
    <2> QED
      BY Zenon, <1>4, <2>3, <2>4, <2>5 DEF MoveAside, GiveUp
  <1>5. ASSUME Seal PROVE Parts
    <2> DEFINE hidden == fs[Tomb(tombstone.copy)]
    <2>1. /\ task # Absent /\ TaskShape /\ TaskRow /\ TombGood /\ row.deleting
          /\ task.file.id \in Copies
          /\ UNCHANGED <<row, attempt, registered>>
      BY Zenon, <1>5 DEF Seal, TaskOK, TaskShape, TaskRow, TaskTombs, Removing
    <2>2. CASE (UNCHANGED tombstone \/ tombstone' = Absent) /\ (task' = Absent \/ GoTo("dirMove"))
      <3>1. RecordsOK'
        BY Zenon, <2>1, <2>2 DEF RecordsOK, RowGood, RowShape, AttemptGood, TombGood
      <3> QED
        BY Zenon, <2>1, <2>2, <3>1, TaskEnding DEF TaskOK
    <2>3. CASE MovedOurs /\ tombstone' = Sealed(hidden) /\ GoTo("reap")
      <3>0. hidden.id \in Copies
        BY Zenon, <2>1, <2>3 DEF MovedOurs
      <3> HIDE DEF hidden
      <3>1. TaskShape' /\ task'.op = task.op /\ task'.at = "reap"
        BY Zenon, <2>1, <2>3, TaskUpdates
      <3>2. TombGood' /\ tombstone'.moved.id \in Copies
        BY Zenon, <2>1, <2>3, <3>0 DEF TombGood, Sealed
      <3>3. RecordsOK'
        BY Zenon, <2>1, <3>2 DEF RecordsOK, RowGood, RowShape, AttemptGood
      <3>4. TaskFiles' /\ TaskTombs'
        BY Zenon, <3>1, <3>2 DEF TaskFiles, TaskTombs
      <3>5. TaskRow'
        BY Zenon, <2>1, <3>1 DEF TaskRow, RowGood, RowShape, Removing
      <3> QED
        BY Zenon, <3>1, <3>3, <3>4, <3>5 DEF TaskOK, TaskShape
    <2> QED
      BY Zenon, <1>5, <2>2, <2>3 DEF Seal, GiveUp
  <1>6. ASSUME Reap PROVE Parts
    <2>1. /\ task # Absent /\ row.deleting /\ UNCHANGED <<row, attempt, tombstone, registered>>
          /\ task' = Absent \/ GoTo("dirMove")
      BY Zenon, <1>6 DEF Reap, GiveUp, TaskOK, TaskRow, Removing
    <2> QED
      BY Zenon, <2>1, RecordsSame, TaskEnding DEF TaskOK
  <1> QED
    BY Zenon, <1>1, <1>2, <1>3, <1>4, <1>5, <1>6

(* The reconciliation of the piece store at startup.                       *)
LEMMA ReconcilingKept ==
  ASSUME DeliveryAssumption, DeliveryInv,
         \/ Payload
         \/ StoreReconciled
  PROVE  RecordsOK' /\ TaskOK'
  <1> USE DEF DeliveryInv, Holding, diskVars, database, counters
  <1> DEFINE Parts == RecordsOK' /\ TaskOK'
  <1>1. ASSUME Payload PROVE Parts
    <2>1. /\ task # Absent /\ TaskShape /\ TaskRow /\ task.op = "reconcile" /\ task.file = Absent
          /\ UNCHANGED <<fs, row, attempt, tombstone, registered>>
      BY Zenon, <1>1 DEF Payload, TaskOK, TaskShape, TaskRow, TaskFiles
    <2>2. RecordsOK'
      BY Zenon, <2>1, RecordsSame
    <2>3. CASE task' = Absent
      BY Zenon, <2>2, <2>3 DEF TaskOK
    <2>4. CASE /\ TaskShape' /\ task'.op = "reconcile" /\ task'.at \in {"storeKnown", "storeDemoted"}
               /\ task'.at = "storeKnown" => task'.file = Absent \/ task'.file.good
      <3>1. TaskFiles' /\ TaskTombs'
        BY Zenon, <2>4 DEF TaskFiles, TaskTombs
      <3>2. TaskRow'
        BY Zenon, <2>1, <2>4 DEF TaskRow, RowGood, RowShape, Removing
      <3> QED
        BY Zenon, <2>2, <2>4, <3>1, <3>2 DEF TaskOK, TaskShape
    <2>5. CASE GoTo("storeKnown") \/ GoTo("storeDemoted")
      BY Zenon, <2>1, <2>4, <2>5, TaskUpdates
    <2>6. CASE /\ row.delivered /\ Matches(row.path, row.file)
               /\ Remember("storeKnown", row.path, fs[row.path])
      <3>1. fs[row.path].good
        BY Zenon, <2>1, <2>6 DEF Matches, TaskRow, RowGood
      <3> QED
        BY Zenon, <2>1, <2>4, <2>6, <3>1, TaskUpdates
    <2> QED
      BY Zenon, <1>1, <2>3, <2>5, <2>6 DEF Payload, Release
  <1>2. ASSUME StoreReconciled PROVE Parts
    <2>1. /\ task # Absent /\ TaskShape /\ TaskRow /\ task' = Absent
          /\ task.at = "storeKnown" => task.file = Absent \/ task.file.good
          /\ UNCHANGED <<attempt, tombstone, registered>>
      BY Zenon, <1>2 DEF StoreReconciled, TaskOK, TaskShape, TaskFiles, Release
    <2>2. CASE row' = row
      BY Zenon, <2>1, <2>2 DEF RecordsOK, RowGood, RowShape, AttemptGood, TombGood, TaskOK
    <2>3. CASE row' = [NewRow EXCEPT !.completed = FALSE]
      <3>1. RowGood'
        BY Zenon, <2>3 DEF NewRow, RowGood, RowShape
      <3> QED
        BY Zenon, <2>1, <3>1 DEF RecordsOK, AttemptGood, TombGood, TaskOK
    <2>4. CASE /\ task.at = "storeKnown" /\ task.file # Absent
               /\ row' = [row EXCEPT !.file = task.file,
                                     !.owner = IF task.file = row.file THEN @ ELSE "unowned"]
      <3>1. /\ RowShape' /\ row'.delivered = row.delivered /\ row'.path = row.path
            /\ row'.file = task.file /\ row'.retired = row.retired
            /\ row'.owner = IF task.file = row.file THEN row.owner ELSE "unowned"
        BY Zenon, <2>1, <2>4 DEF TaskRow, RowGood, RowShape
      <3>2. RowGood'
        BY <2>1, <2>4, <3>1 DEF TaskRow, RowGood
      <3> QED
        BY Zenon, <2>1, <3>2 DEF RecordsOK, AttemptGood, TombGood, TaskOK
    <2> QED
      BY Zenon, <1>2, <2>2, <2>3, <2>4 DEF StoreReconciled
  <1> QED
    BY Zenon, <1>1, <1>2

(* What is on record and what the task relies on, whatever the step.       *)
LEMMA RecordsKept ==
  ASSUME DeliveryAssumption, DeliveryInv, [Next]_vars
  PROVE  RecordsOK' /\ TaskOK'
  BY Zenon, RestKept, RecoveryKept, DeliveringKept, RequestsKept, DestroyingKept, ReconcilingKept
     DEF Next, Step, Boot, Sweep, Promote

(* The steps that leave the piece store, the row and the registration as   *)
(* they are.                                                               *)
LEMMA StoreUntouched ==
  ASSUME \/ Recover \/ Name \/ NoSource \/ Stage \/ Copy \/ Verify \/ Install \/ Capture
         \/ Discard \/ Output \/ Inspect \/ MoveAside \/ Seal \/ Reap
         \/ Boot \/ Deliver \/ RetryRetirement \/ Delete \/ Admit \/ Register
         \/ RemoveRow("retire") \/ RemoveRow("remove")
         \/ Crash \/ Fault \/ (\E kind \in Meddling, p \in Paths : Meddle(kind, p)) \/ UNCHANGED vars
  PROVE  /\ UNCHANGED <<store, row>> /\ (registered => registered')
         /\ task' # Absent => row # Absent \/ task # Absent
  <1> USE DEF diskVars, database, counters, Holding
  <1>1. ASSUME Recover \/ Name \/ NoSource \/ Stage \/ Copy \/ Verify \/ Install \/ Capture
        PROVE  UNCHANGED <<store, row, registered>> /\ task # Absent
    BY Zenon, <1>1 DEF Recover, Name, NoSource, Stage, Copy, Verify, Install, Capture
  <1>2. ASSUME Discard \/ Output \/ Inspect \/ MoveAside \/ Seal \/ Reap
        PROVE  UNCHANGED <<store, row, registered>> /\ task # Absent
    BY Zenon, <1>2 DEF Discard, Output, Inspect, MoveAside, Seal, Reap
  <1>3. ASSUME Boot \/ Deliver \/ RetryRetirement \/ Delete
        PROVE  /\ UNCHANGED <<store, row, registered>>
               /\ task' # Absent => row # Absent \/ task # Absent
    BY Zenon, <1>3 DEF Boot, BootStep, Restart, Deliver, RetryRetirement, Delete
  <1>4. ASSUME Admit \/ Register \/ RemoveRow("retire") \/ RemoveRow("remove")
        PROVE  /\ UNCHANGED <<store, row>> /\ (registered => registered')
               /\ task' # Absent => row # Absent \/ task # Absent
    <2>1. \/ Register /\ UNCHANGED <<store, row, task>> /\ registered' = TRUE
          \/ UNCHANGED <<store, row, registered>>
      BY Zenon, <1>4 DEF Admit, Register, RemoveRow
    <2>2. registered => registered'
      BY Zenon, <2>1, Zenon
    <2> QED
      BY Zenon, <1>4, <2>1, <2>2 DEF Admit, Register, RemoveRow, Visible
  <1>5. ASSUME \/ Crash \/ Fault \/ (\E kind \in Meddling, p \in Paths : Meddle(kind, p))
               \/ UNCHANGED vars
        PROVE  /\ UNCHANGED <<store, row, registered>>
               /\ task' # Absent => row # Absent \/ task # Absent
    BY Zenon, <1>5 DEF Crash, Fault, GiveUp, Meddle, vars
  <1> QED
    BY <1>1, <1>2, <1>3, <1>4, <1>5

(* The piece store leaves only in DirMove, which a task reaches after the  *)
(* request that allows it; a row never loses that request.                 *)
LEMMA StoreKept ==
  ASSUME DeliveryAssumption, DeliveryInv, [Next]_vars
  PROVE  StoreOK'
  <1> USE DEF DeliveryInv, StoreOK, ReleasedRow, Holding, diskVars, database, counters
  <1>1. ASSUME /\ UNCHANGED <<store, row>> /\ (registered => registered')
               /\ task' # Absent => row # Absent \/ task # Absent
        PROVE  StoreOK'
    BY Zenon, <1>1
  <1>2. ASSUME Commit \/ Snapshot PROVE StoreOK'
    BY ZenonT(40), <1>2 DEF Commit, Snapshot, TaskOK, TaskRow, RowGood, RowShape
  <1>3. ASSUME RequestRetirement PROVE StoreOK'
    <2>1. CASE UNCHANGED <<store, row>>
      BY Zenon, <1>3, <2>1 DEF RequestRetirement
    <2>2. CASE row.retired \/ Retirable
      <3>1. task # Absent /\ RowGood
        BY Zenon, <1>3 DEF RequestRetirement, TaskOK, TaskRow
      <3>2. row'.delivered = row.delivered /\ row'.retired /\ row.delivered
        BY ZenonT(60), <1>3, <2>2, <3>1 DEF RequestRetirement, RowGood, RowShape, Retirable
      <3>3. registered /\ registered'
        BY Zenon, <1>3, <2>2, <3>1 DEF RequestRetirement, RowGood, Retirable
      <3> QED
        BY Zenon, <1>3, <2>2, <3>2, <3>3 DEF RequestRetirement
    <2> QED
      BY Zenon, <1>3, <2>1, <2>2 DEF RequestRetirement
  <1>4. ASSUME DirMove \/ DirRemove \/ DirClear PROVE StoreOK'
    <2>1. task # Absent /\ RowGood /\ (row.deleting \/ row.retired)
      BY Zenon, <1>4 DEF DirMove, DirRemove, DirClear, TaskOK, TaskRow
    <2>2. UNCHANGED <<row, registered>> /\ DOMAIN store' = DOMAIN store
      BY Zenon, <1>4 DEF DirMove, DirRemove, DirClear
    <2> QED
      BY Zenon, <2>1, <2>2 DEF RowGood
  <1>5. ASSUME Finalize PROVE StoreOK'
    BY Zenon, <1>5 DEF Finalize, Release
  <1>6. ASSUME Intent PROVE StoreOK'
    BY Zenon, <1>6 DEF Intent, TaskOK, TaskRow, RowGood, RowShape
  <1>7. ASSUME Payload PROVE StoreOK'
    <2>1. UNCHANGED <<row, registered>> /\ task # Absent
      BY Zenon, <1>7 DEF Payload
    <2>2. CASE UNCHANGED store
      BY Zenon, <2>1, <2>2
    <2>3. CASE \E live, named : /\ store' = [store EXCEPT !.live = live, !.known = FALSE, !.named = named]
                                /\ live # "none"
      BY Zenon, <2>1, <2>3
    <2> QED
      BY Zenon, <1>7, <2>2, <2>3 DEF Payload
  <1>8. ASSUME StoreReconciled PROVE StoreOK'
    <2>1. /\ task # Absent /\ registered' = registered /\ ~row.deleting
      BY Zenon, <1>8 DEF StoreReconciled, TaskOK, TaskRow
    <2>2. CASE UNCHANGED <<row, store>>
      BY Zenon, <2>1, <2>2
    <2>3. CASE Storable /\ store' = [store EXCEPT !.known = task.at = "storeKnown"]
      <3>1. store'.live = store.live /\ store'.tomb = store.tomb /\ DOMAIN store' = DOMAIN store
        BY Zenon, <2>3
      <3>2. store.live # "none" /\ store.tomb = "none"
        BY Zenon, <2>1, <2>3 DEF Storable
      <3> QED
        BY Zenon, <3>1, <3>2
    <2> QED
      BY Zenon, <1>8, <2>2, <2>3 DEF StoreReconciled
  <1>9. ASSUME Redownload PROVE StoreOK'
    BY Zenon, <1>9 DEF Redownload, Visible, RecordsOK, RowGood, RowShape
  <1>10. ASSUME Damage PROVE StoreOK'
    BY Zenon, <1>10 DEF Damage
  <1> QED
    BY Zenon, <1>1, <1>2, <1>3, <1>4, <1>5, <1>6, <1>7, <1>8, <1>9, <1>10, StoreUntouched
       DEF Next, Step, Sweep, Promote

(* The program starts with an empty destination and a complete store.      *)
LEMMA InvInit ==
  ASSUME Init PROVE DeliveryInv
  <1>1. FilesOK
    BY Zenon, PathsApart DEF Init, FilesOK
  <1>2. RowGood /\ ReleasedRow
    BY Zenon DEF Init, NewRow, RowGood, RowShape, ReleasedRow
  <1> QED
    BY Zenon, <1>1, <1>2 DEF Init, DeliveryInv, RecordsOK, TaskOK, StoreOK

(* The operator's actions are counted.                                     *)
LEMMA CountKept ==
  ASSUME DeliveryInv, [Next]_vars PROVE meddled' \in Nat
  <1> USE DEF DeliveryInv, diskVars, database, counters
  <1>1. ASSUME Step PROVE meddled' = meddled
    BY Zenon, <1>1 DEF Step, Recover, Commit, Snapshot, Name, NoSource, Stage, Copy, Verify, Install, Capture,
       RequestRetirement, DirMove, DirRemove, DirClear, Finalize, Intent, Discard, Output, Inspect, MoveAside,
       Seal, Reap, Payload, StoreReconciled
  <1>2. ASSUME Boot \/ Sweep \/ Promote \/ Delete \/ RemoveRow("remove") PROVE meddled' = meddled
    BY Zenon, <1>2 DEF Boot, BootStep, Restart, Sweep, Deliver, RetryRetirement, Redownload, Delete, Promote,
       Register, Admit, RemoveRow
  <1>3. ASSUME Crash \/ Fault \/ UNCHANGED vars PROVE meddled' = meddled
    BY Zenon, <1>3 DEF Crash, Fault, vars
  <1>4. ASSUME Damage \/ \E kind \in Meddling, p \in Paths : Meddle(kind, p)
        PROVE  meddled' = meddled + 1
    BY Zenon, <1>4 DEF Damage, Meddle
  <1> QED
    BY <1>1, <1>2, <1>3, <1>4 DEF Next

(* The inductive invariant holds in every reachable state.                 *)
LEMMA InvHolds ==
  ASSUME DeliveryAssumption
  PROVE  Spec => []DeliveryInv
  <1>1. DeliveryInv /\ [Next]_vars => DeliveryInv'
    BY Zenon, DirectoryKept, RecordsKept, StoreKept, CountKept DEF DeliveryInv
  <1> QED
    BY InvInit, <1>1, PTL DEF Spec

(* A step of the daemon that writes a name writes one of its own staging   *)
(* names, removes one, or removes a file it has proved to be its own; a    *)
(* move takes the file to a free name.                                     *)
LEMMA DaemonKeepsForeign ==
  ASSUME DeliveryAssumption, DeliveryInv, [Next]_vars
  PROVE  ForeignKept
  <1> USE DEF DeliveryInv, Holding
  <1> SUFFICES ASSUME meddled' = meddled, NEW p \in Paths, fs[p] # Absent, fs[p].id < 0
               PROVE  \E q \in Paths : fs'[q] # Absent /\ fs'[q].id = fs[p].id
    BY Zenon DEF ForeignKept
  <1> DEFINE Kept == \E q \in Paths : fs'[q] # Absent /\ fs'[q].id = fs[p].id
  <1>0. \A n \in Copies : n \in Nat /\ ~(n < 0)
    BY Zenon, CopiesPositive
  <1>1. ASSUME fs'[p] = fs[p] PROVE Kept
    BY Zenon, <1>1
  <1>2. \A n \in Copies : p # Staging(n)
    BY Zenon, <1>0 DEF FilesOK
  <1>3. ASSUME Looks PROVE Kept
    BY Zenon, <1>1, <1>3, LooksOnly
  <1>4. ASSUME Stage \/ Copy PROVE Kept
    <2>1. attempt.copy \in Copies
      BY Zenon, <1>4 DEF Stage, Copy, TaskOK, TaskFiles, AttemptGood
    <2>2. fs'[p] = fs[p]
      BY Zenon, <1>2, <1>4, <2>1 DEF Stage, Copy, FilesOK
    <2> QED
      BY Zenon, <1>1, <2>2
  <1>5. ASSUME Install PROVE Kept
    <2>1. attempt.copy \in Copies /\ attempt.target \in Targets
      BY Zenon, <1>5 DEF Install, TaskOK, TaskFiles, AttemptGood
    <2>2. p # attempt.target \/ fs' = [fs EXCEPT ![Staging(attempt.copy)] = Absent]
      BY Zenon, <1>5 DEF Install, Installable
    <2>3. fs'[p] = fs[p]
      BY Zenon, <1>2, <1>5, <2>1, <2>2, PathsApart DEF Install, Move, FilesOK
    <2> QED
      BY Zenon, <1>1, <2>3
  <1>6. ASSUME Discard PROVE Kept
    <2>1. attempt # Absent => attempt.copy \in Copies
      BY Zenon DEF RecordsOK, AttemptGood
    <2>2. fs'[p] = fs[p]
      BY Zenon, <1>2, <1>6, <2>1 DEF Discard, FilesOK
    <2> QED
      BY Zenon, <1>1, <2>2
  <1>7. ASSUME NEW from \in Paths, NEW to \in Paths, from # to, fs' = Move(from, to),
               FileLike(fs[from]), fs[to] = Absent
        PROVE  Kept
    <2>1. CASE p = from
      <3>1. FileLike(fs'[to]) /\ fs'[to].id = fs[p].id
        BY Zenon, <1>7, <2>1, Moved
      <3> QED
        BY Zenon, <3>1 DEF FileLike, DeliveryAssumption
    <2>2. CASE p # from
      <3>1. p # to
        BY Zenon, <1>7
      <3>2. fs'[p] = fs[p]
        BY <1>7, <2>2, <3>1, Moved
      <3> QED
        BY Zenon, <1>1, <3>2
    <2> QED
      BY Zenon, <2>1, <2>2
  <1>8. ASSUME MoveAside PROVE Kept
    <2>1. tombstone.copy \in Copies /\ task.path \in Targets
      BY Zenon, <1>8 DEF MoveAside, TaskOK, TaskTombs, TombGood
    <2>2. /\ task.path \in Paths /\ Tomb(tombstone.copy) \in Paths
          /\ task.path # Tomb(tombstone.copy)
      BY Zenon, <2>1, PathsApart
    <2>3. CASE UNCHANGED fs
      BY Zenon, <1>1, <2>3
    <2>4. CASE /\ fs[task.path] # Absent /\ fs[Tomb(tombstone.copy)] = Absent
               /\ fs' = Move(task.path, Tomb(tombstone.copy))
      BY Zenon, <1>7, <2>2, <2>4 DEF FilesOK
    <2> QED
      BY Zenon, <1>8, <2>3, <2>4 DEF MoveAside
  <1>9. ASSUME Seal PROVE Kept
    <2>1. /\ tombstone.copy \in Copies /\ task.path \in Targets
          /\ FileLike(fs[Tomb(tombstone.copy)])
      BY Zenon, <1>9 DEF Seal, TaskOK, TaskTombs, TombGood
    <2>2. /\ task.path \in Paths /\ Tomb(tombstone.copy) \in Paths
          /\ task.path # Tomb(tombstone.copy)
      BY Zenon, <2>1, PathsApart
    <2>3. CASE UNCHANGED fs
      BY Zenon, <1>1, <2>3
    <2>4. CASE fs[task.path] = Absent /\ fs' = Move(Tomb(tombstone.copy), task.path)
      BY Zenon, <1>7, <2>1, <2>2, <2>4
    <2> QED
      BY Zenon, <1>9, <2>3, <2>4 DEF Seal
  <1>10. ASSUME Reap PROVE Kept
    <2>1. tombstone.copy \in Copies /\ tombstone.moved.id \in Copies
      BY Zenon, <1>10 DEF Reap, TaskOK, TaskTombs, TombGood
    <2>2. CASE UNCHANGED fs
      BY Zenon, <1>1, <2>2
    <2>3. CASE /\ fs[Tomb(tombstone.copy)] = Absent \/ fs[Tomb(tombstone.copy)] = tombstone.moved
               /\ fs' = [fs EXCEPT ![Tomb(tombstone.copy)] = Absent]
      <3>1. p # Tomb(tombstone.copy)
        BY Zenon, <1>0, <2>1, <2>3
      <3>2. fs'[p] = fs[p]
        BY Zenon, <2>3, <3>1 DEF FilesOK
      <3> QED
        BY Zenon, <1>1, <3>2
    <2> QED
      BY Zenon, <1>10, <2>2, <2>3 DEF Reap
  <1>11. ASSUME NEW kind \in Meddling, NEW q \in Paths, Meddle(kind, q) PROVE FALSE
    BY <1>11 DEF Meddle
  <1> HIDE DEF Kept
  <1>12. Kept
    BY Zenon, <1>3, <1>4, <1>5, <1>6, <1>8, <1>9, <1>10, <1>11 DEF Next, Step, Looks
  <1> QED
    BY Zenon, <1>12 DEF Kept

-----------------------------------------------------------------------------
(***************************************************************************)
(* What the transfers row and the delivery attempt record as the output    *)
(* was read back with the transfer's bytes, and an output recorded as      *)
(* owned is one the daemon created (deliver.rs), whatever the operator     *)
(* does to the directory and wherever a crash falls.                       *)
(***************************************************************************)
THEOREM OutputsVerified ==
  ASSUME DeliveryAssumption
  PROVE  Spec => []RecordedOutputVerified
  <1>1. DeliveryInv => RecordedOutputVerified
    BY Zenon DEF DeliveryInv, RecordsOK, RowGood, AttemptGood, RecordedOutputVerified
  <1> QED
    BY <1>1, InvHolds, PTL

(***************************************************************************)
(* The piece store of a transfer on record goes only under a deletion      *)
(* request, or once its verified output is registered local content        *)
(* (cleanup_transfer_directory_with_authority).                            *)
(***************************************************************************)
THEOREM PayloadStaysUntilReleased ==
  ASSUME DeliveryAssumption
  PROVE  Spec => []PayloadReleased
  <1>1. DeliveryInv => PayloadReleased
    BY Zenon DEF DeliveryInv, StoreOK, ReleasedRow, PayloadReleased
  <1> QED
    BY <1>1, InvHolds, PTL

(***************************************************************************)
(* Nothing the daemon does, in delivery, recovery or deletion, makes a     *)
(* file the operator put into the destination directory disappear          *)
(* (install_staged_payload, delivery_tombstone.rs).                        *)
(***************************************************************************)
THEOREM OperatorFilesKept ==
  ASSUME DeliveryAssumption
  PROVE  Spec => [][ForeignKept]_vars
  <1>1. DeliveryInv /\ [Next]_vars => ForeignKept
    BY Zenon, DaemonKeepsForeign
  <1> QED
    BY <1>1, InvHolds, PTL DEF Spec

-----------------------------------------------------------------------------
(* Delivery implements Handover.                                           *)

\* A transfer leaves one way only, a task knows which, and the last steps of
\* a task find the payload gone.
LifeInv ==
  /\ row # Absent => ~(row.deleting /\ row.retired)
  /\ task # Absent =>
       /\ row # Absent
       /\ task.op = "delete" => ~row.retired
       /\ task.op # "delete" => ~row.deleting
       /\ task.at \in {"dirRemove", "dirClear", "finalize"} => store.live = "none"
       /\ task.at = "finalize" => store.tomb = "none" /\ (row.deleting \/ row.retired)

\* What the row is made of, and where its parts come from.
Typed ==
  /\ row # Absent => row \in Rows
  /\ attempt # Absent /\ attempt.phase = "published" => attempt.published \in Files
  /\ task # Absent =>
       /\ task.owner \in {"owned", "unowned"}
       /\ task.at = "commit" => task.file \in Files
       /\ task.at = "storeKnown" => task.file \in MaybeFiles

(* A step that writes the row writes one.                                  *)
LEMMA RowWritten ==
  ASSUME DeliveryInv, LifeInv, Typed,
         Commit \/ Snapshot \/ RequestRetirement \/ Intent \/ StoreReconciled \/ Redownload
  PROVE  row' \in Rows
  <1> USE DEF diskVars, database, counters, Holding
  <1>0. task # Absent => row # Absent /\ row \in Rows
    BY Zenon DEF LifeInv, Typed
  <1>1. CASE Commit
    <2>1. /\ row \in Rows /\ task.owner \in {"owned", "unowned"} /\ task.file \in Files
          /\ task.path \in Targets
      BY Zenon, <1>0, <1>1 DEF Commit, Typed, DeliveryInv, TaskOK, TaskFiles
    <2>2. row' = [row EXCEPT !.delivered = TRUE, !.owner = task.owner,
                             !.path = task.path, !.file = task.file]
      BY Zenon, <1>1 DEF Commit
    <2> QED
      BY ZenonT(60), <2>1, <2>2 DEF Rows
  <1>2. CASE Snapshot
    <2>1. \/ row' = row
          \/ row' = [row EXCEPT !.delivered = FALSE, !.owner = "none", !.path = Absent, !.file = Absent]
      BY Zenon, <1>2 DEF Snapshot
    <2>2. row \in Rows
      BY Zenon, <1>0, <1>2 DEF Snapshot
    <2> QED
      BY ZenonT(60), <2>1, <2>2 DEF Rows
  <1>3. CASE RequestRetirement \/ Intent
    <2>1. \/ row' = row
          \/ \E a \in BOOLEAN : \/ row' = [row EXCEPT !.retired = TRUE, !.authority = a]
                                \/ row' = [row EXCEPT !.deleting = TRUE, !.authority = a]
      <3>1. row.authority \in BOOLEAN /\ (store.live # "none") \in BOOLEAN
        BY <1>0, <1>3 DEF RequestRetirement, Intent, Rows
      <3> QED
        BY Zenon, <1>3, <3>1 DEF RequestRetirement, Intent
    <2>2. row \in Rows
      BY Zenon, <1>0, <1>3 DEF RequestRetirement, Intent
    <2> QED
      BY ZenonT(60), <2>1, <2>2 DEF Rows
  <1>4. CASE StoreReconciled
    <2>1. \/ row' = row
          \/ row' = [NewRow EXCEPT !.completed = FALSE]
          \/ /\ task.at = "storeKnown" /\ task.file # Absent
             /\ \E o \in {row.owner, "unowned"} : row' = [row EXCEPT !.file = task.file, !.owner = o]
      BY Zenon, <1>4 DEF StoreReconciled
    <2>2. row \in Rows /\ (task.at = "storeKnown" => task.file \in MaybeFiles)
      BY Zenon, <1>0, <1>4 DEF StoreReconciled, Typed
    <2> QED
      BY ZenonT(60), <2>1, <2>2 DEF Rows, MaybeFiles, NewRow
  <1>5. CASE Redownload
    <2>1. row' = [row EXCEPT !.completed = TRUE] /\ row \in Rows
      BY Zenon, <1>5 DEF Redownload, Visible, Typed
    <2> QED
      BY ZenonT(60), <2>1 DEF Rows
  <1> QED
    BY Zenon, <1>1, <1>2, <1>3, <1>4, <1>5

(* A task that goes on to an ordinary step, or ends, on the same row.      *)
LEMMA LifeStays ==
  ASSUME LifeInv, UNCHANGED row,
         \/ task' = Absent
         \/ UNCHANGED <<store, task>>
         \/ /\ task # Absent /\ task'.op = task.op
            /\ task'.at \notin {"dirRemove", "dirClear", "finalize"}
  PROVE  LifeInv'
  BY Zenon DEF LifeInv

(* The steps that leave the row and the piece store alone.                 *)
LEMMA QuietLifeKept ==
  ASSUME DeliveryInv, LifeInv,
         \/ Recover \/ Name \/ NoSource \/ Stage \/ Copy \/ Verify \/ Install \/ Capture
         \/ Discard \/ Output \/ Inspect \/ MoveAside \/ Seal \/ Reap
         \/ Boot \/ Deliver \/ RetryRetirement \/ Delete \/ Admit \/ Register
         \/ RemoveRow("retire") \/ RemoveRow("remove")
         \/ Crash \/ Fault \/ (\E kind \in Meddling, p \in Paths : Meddle(kind, p)) \/ UNCHANGED vars
  PROVE  LifeInv'
  <1> USE DEF diskVars, database, counters, Holding
  <1>0. task # Absent => TaskShape
    BY Zenon DEF DeliveryInv, TaskOK, TaskShape
  <1>1. ASSUME Recover PROVE LifeInv'
    <2>1. UNCHANGED row /\ task # Absent
      BY Zenon, <1>1 DEF Recover
    <2>2. AfterRecovery \notin {"dirRemove", "dirClear", "finalize"}
      BY Zenon DEF AfterRecovery
    <2>3. task'.op = task.op /\ task'.at \in {AfterRecovery, "commit", "install"}
      BY Zenon, <1>0, <1>1, <2>1, TaskUpdates DEF Recover, TaskShape
    <2> QED
      BY Zenon, <2>1, <2>2, <2>3, LifeStays
  <1>2. ASSUME Name \/ NoSource \/ Stage \/ Copy \/ Verify \/ Capture PROVE LifeInv'
    <2>1. UNCHANGED row /\ task # Absent
      BY Zenon, <1>2 DEF Name, NoSource, Stage, Copy, Verify, Capture
    <2>2. \/ task' = Absent \/ GoTo("copy") \/ GoTo("verify")
          \/ \E p, f : Remember("stage", p, f) \/ Remember("install", p, f) \/ Remember("commit", p, f)
      <3>1. CASE NoSource \/ Stage \/ Copy
        BY Zenon, <3>1 DEF NoSource, Stage, Copy, GiveUp
      <3>2. CASE Name
        BY Zenon, <3>2 DEF Name
      <3>3. CASE Verify
        BY Zenon, <3>3 DEF Verify, GiveUp
      <3>4. CASE Capture
        BY Zenon, <3>4 DEF Capture, GiveUp
      <3> QED
        BY Zenon, <1>2, <3>1, <3>2, <3>3, <3>4
    <2>3. \/ task' = Absent
          \/ task'.op = task.op /\ task'.at \in {"copy", "verify", "stage", "install", "commit"}
      BY Zenon, <1>0, <2>1, <2>2, TaskUpdates
    <2> QED
      BY Zenon, <2>1, <2>3, LifeStays
  <1>3. ASSUME Install PROVE LifeInv'
    <2>1. UNCHANGED row /\ task # Absent
      BY Zenon, <1>3 DEF Install
    <2>2. AfterRecovery \notin {"dirRemove", "dirClear", "finalize"}
      BY Zenon DEF AfterRecovery
    <2>3. task'.op = task.op /\ task'.at \in {AfterRecovery, "capture", "name"}
      BY Zenon, <1>0, <1>3, <2>1, TaskUpdates DEF Install
    <2> QED
      BY Zenon, <2>1, <2>2, <2>3, LifeStays
  <1>4. ASSUME Discard \/ Output \/ Inspect \/ MoveAside \/ Seal \/ Reap PROVE LifeInv'
    <2>1. UNCHANGED row /\ task # Absent
      BY Zenon, <1>4 DEF Discard, Output, Inspect, MoveAside, Seal, Reap
    <2>2. \/ task' = Absent \/ GoTo("inspect") \/ GoTo("reap") \/ GoTo("seal") \/ GoTo("dirMove")
          \/ \E p, f : Remember("output", p, f) \/ Remember("move", p, f)
      <3>1. CASE Discard
        BY Zenon, <3>1 DEF Discard
      <3>2. CASE Output
        BY Zenon, <3>2 DEF Output
      <3>3. CASE Inspect
        BY Zenon, <3>3 DEF Inspect, GiveUp
      <3>4. CASE MoveAside
        BY Zenon, <3>4 DEF MoveAside, GiveUp
      <3>5. CASE Seal \/ Reap
        BY Zenon, <3>5 DEF Seal, Reap, GiveUp
      <3> QED
        BY Zenon, <1>4, <3>1, <3>2, <3>3, <3>4, <3>5
    <2>3. \/ task' = Absent
          \/ /\ task'.op = task.op
             /\ task'.at \in {"inspect", "reap", "seal", "dirMove", "output", "move"}
      BY Zenon, <1>0, <2>1, <2>2, TaskUpdates
    <2> QED
      BY Zenon, <2>1, <2>3, LifeStays
  <1>5. ASSUME Boot \/ Deliver \/ RetryRetirement \/ Delete \/ RemoveRow("retire") \/ RemoveRow("remove")
        PROVE  LifeInv'
    <2> DEFINE Starts == row # Absent /\ \E op, step :
                  /\ task' = StartTask(op, step) /\ step \in {"recover", "intent", "dirMove"}
                  /\ \/ op = "delete" /\ (row.deleting \/ ~row.retired)
                     \/ op # "delete" /\ (~row.deleting \/ row.retired)
    <2>1. UNCHANGED <<row, store>> /\ (UNCHANGED task \/ Starts)
      <3>1. ASSUME BootStep PROVE UNCHANGED <<row, store>> /\ (UNCHANGED task \/ Starts)
        <4>1. UNCHANGED <<row, store>>
          BY Zenon, <3>1 DEF BootStep
        <4>2. CASE UNCHANGED task
          BY Zenon, <4>1, <4>2
        <4>3. CASE row # Absent /\ row.deleting /\ task' = StartTask("delete", "intent")
          BY Zenon, <4>1, <4>3
        <4>4. CASE row # Absent /\ row.retired /\ task' = StartTask("remove", "dirMove")
          BY <4>1, <4>4
        <4>5. CASE row # Absent /\ ~row.deleting /\ task' = StartTask("reconcile", "recover")
          BY <4>1, <4>5
        <4> HIDE DEF Starts
        <4> QED
          <5>1. CASE boot = "deletions"
            BY Zenon, <3>1, <4>2, <4>3, <5>1 DEF BootStep
          <5>2. CASE boot = "retirements"
            BY Zenon, <3>1, <4>2, <4>4, <5>2 DEF BootStep
          <5>3. CASE boot = "reconcile"
            BY Zenon, <3>1, <4>2, <4>5, <5>3 DEF BootStep
          <5> QED
            BY Zenon, <3>1, <5>1, <5>2, <5>3 DEF BootStep
      <3>2. ASSUME Restart \/ Deliver \/ RetryRetirement \/ Delete
            PROVE  UNCHANGED <<row, store>> /\ (UNCHANGED task \/ Starts)
        BY SMTT(60), <3>2 DEF Restart, Deliver, RetryRetirement, Delete
      <3>3. ASSUME NEW op \in {"retire", "remove"}, RemoveRow(op)
            PROVE  UNCHANGED <<row, store>> /\ (UNCHANGED task \/ Starts)
        <4>1. UNCHANGED task \/ (row # Absent /\ ~row.deleting /\ task' = StartTask(op, "recover"))
          BY Zenon, <3>3 DEF RemoveRow, Visible
        <4> QED
          BY Zenon, <3>3, <4>1 DEF RemoveRow
      <3> QED
        BY Zenon, <1>5, <3>1, <3>2, <3>3 DEF Boot
    <2>2. CASE UNCHANGED task
      BY Zenon, <2>1, <2>2, LifeStays
    <2>3. ASSUME NEW op, NEW step, row # Absent,
                 task' = StartTask(op, step) /\ step \in {"recover", "intent", "dirMove"},
                 \/ op = "delete" /\ (row.deleting \/ ~row.retired)
                 \/ op # "delete" /\ (~row.deleting \/ row.retired)
          PROVE  LifeInv'
      <3>1. task'.op = op /\ task'.at = step
        BY Zenon, <2>3 DEF StartTask
      <3>2. step \notin {"dirRemove", "dirClear", "finalize"}
        BY Zenon, <2>3
      <3> QED
        BY Zenon, <2>1, <2>3, <3>1, <3>2 DEF LifeInv
    <2> QED
      BY Zenon, <2>1, <2>2, <2>3
  <1>6. ASSUME \/ Admit \/ Register \/ Crash \/ Fault \/ UNCHANGED vars
               \/ (\E kind \in Meddling, p \in Paths : Meddle(kind, p))
        PROVE  LifeInv'
    <2>1. UNCHANGED row /\ (task' = Absent \/ UNCHANGED <<store, task>>)
      BY Zenon, <1>6 DEF Admit, Register, Crash, Fault, GiveUp, Meddle, vars
    <2> QED
      BY Zenon, <2>1, LifeStays
  <1> QED
    BY Zenon, <1>1, <1>2, <1>3, <1>4, <1>5, <1>6

(* The steps that change the row or the piece store.                       *)
LEMMA LifeKept ==
  ASSUME DeliveryAssumption, DeliveryInv, LifeInv, Typed, [Next]_vars
  PROVE  LifeInv'
  <1> USE DEF diskVars, database, counters, Holding
  <1>0. task # Absent => TaskShape /\ RowGood /\ row # Absent /\ TaskRow
    BY Zenon DEF DeliveryInv, TaskOK, TaskShape, TaskRow, LifeInv
  <1>1. ASSUME Commit PROVE LifeInv'
    <2>1. task # Absent /\ row'.retired = row.retired /\ row'.deleting = row.deleting
      BY Zenon, <1>0, <1>1 DEF Commit, RowGood, RowShape
    <2>2. row' # Absent
      BY Zenon, <1>1, RowWritten DEF DeliveryAssumption
    <2>3. \/ task' = Absent
          \/ task'.op = task.op /\ task'.at \in {"snapshot", "request", "payload"}
      BY Zenon, <1>0, <1>1, <2>1, TaskUpdates DEF Commit, Release, AfterRecovery
    <2> QED
      BY Zenon, <2>1, <2>2, <2>3 DEF LifeInv
  <1>2. ASSUME Snapshot PROVE LifeInv'
    <2>1. task # Absent /\ row'.retired = row.retired /\ row'.deleting = row.deleting
      BY Zenon, <1>0, <1>2 DEF Snapshot, RowGood, RowShape
    <2>2. row' # Absent
      BY Zenon, <1>2, RowWritten DEF DeliveryAssumption
    <2>3. task' = Absent \/ (task'.op = task.op /\ task'.at = "name")
      BY Zenon, <1>0, <1>2, <2>1, TaskUpdates DEF Snapshot, Release
    <2> QED
      BY Zenon, <2>1, <2>2, <2>3 DEF LifeInv
  <1>3. ASSUME RequestRetirement PROVE LifeInv'
    <2>1. task # Absent /\ task.op # "delete" /\ ~row.deleting
      BY Zenon, <1>0, <1>3 DEF RequestRetirement, TaskRow, LifeInv
    <2>2. row'.deleting = row.deleting /\ (task' = Absent \/ GoTo("dirMove"))
      BY Zenon, <1>0, <1>3, <2>1 DEF RequestRetirement, GiveUp, RowGood, RowShape
    <2>3. row' # Absent
      BY Zenon, <1>3, RowWritten DEF DeliveryAssumption
    <2>4. task' = Absent \/ (task'.op = task.op /\ task'.at = "dirMove")
      BY Zenon, <1>0, <2>1, <2>2, TaskUpdates
    <2> QED
      BY Zenon, <2>1, <2>2, <2>3, <2>4 DEF LifeInv
  <1>4. ASSUME Intent PROVE LifeInv'
    <2>1. task # Absent /\ task.op = "delete" /\ ~row.retired
      BY Zenon, <1>0, <1>4 DEF Intent, TaskRow, LifeInv
    <2>2. row'.retired = row.retired /\ GoTo("discard")
      BY Zenon, <1>0, <1>4, <2>1 DEF Intent, RowGood, RowShape
    <2>3. row' # Absent
      BY Zenon, <1>4, RowWritten DEF DeliveryAssumption
    <2>4. task'.op = task.op /\ task'.at = "discard"
      BY Zenon, <1>0, <2>1, <2>2, TaskUpdates
    <2> QED
      BY Zenon, <2>1, <2>2, <2>3, <2>4 DEF LifeInv
  <1>5. ASSUME DirMove PROVE LifeInv'
    <2>1. task # Absent /\ UNCHANGED row
      BY Zenon, <1>5 DEF DirMove
    <2>2. task' = Absent \/ (GoTo("dirRemove") /\ store'.live = "none")
      BY Zenon, <1>5 DEF DirMove, GiveUp, DeliveryInv, StoreOK
    <2>3. task' = Absent \/ (task'.op = task.op /\ task'.at = "dirRemove" /\ store'.live = "none")
      BY Zenon, <1>0, <2>1, <2>2, TaskUpdates
    <2> QED
      BY Zenon, <2>1, <2>3 DEF LifeInv
  <1>6. ASSUME DirRemove PROVE LifeInv'
    <2>1. /\ task # Absent /\ UNCHANGED row /\ store.live = "none"
          /\ row.deleting \/ row.retired
      BY Zenon, <1>0, <1>6 DEF DirRemove, LifeInv, TaskRow
    <2>2. \/ task' = Absent
          \/ GoTo("dirClear") /\ store'.live = "none"
          \/ GoTo("finalize") /\ store'.live = "none" /\ store'.tomb = "none"
      BY Zenon, <1>6, <2>1 DEF DirRemove, GiveUp, DeliveryInv, StoreOK
    <2>3. \/ task' = Absent
          \/ task'.op = task.op /\ task'.at = "dirClear" /\ store'.live = "none"
          \/ /\ task'.op = task.op /\ task'.at = "finalize"
             /\ store'.live = "none" /\ store'.tomb = "none"
      BY Zenon, <1>0, <2>1, <2>2, TaskUpdates
    <2> QED
      BY Zenon, <2>1, <2>3 DEF LifeInv
  <1>6a. ASSUME DirClear PROVE LifeInv'
    <2>1. /\ task # Absent /\ UNCHANGED row /\ store.live = "none"
          /\ row.deleting \/ row.retired
      BY Zenon, <1>0, <1>6a DEF DirClear, LifeInv, TaskRow
    <2>2. GoTo("finalize") /\ store'.live = "none" /\ store'.tomb = "none"
      BY Zenon, <1>6a, <2>1 DEF DirClear, DeliveryInv, StoreOK
    <2>3. task'.op = task.op /\ task'.at = "finalize"
      BY Zenon, <1>0, <2>1, <2>2, TaskUpdates
    <2> QED
      BY Zenon, <2>1, <2>2, <2>3 DEF LifeInv
  <1>7. ASSUME Finalize PROVE LifeInv'
    BY Zenon, <1>7 DEF Finalize, Release, LifeInv
  <1>8. ASSUME Payload PROVE LifeInv'
    <2>1. task # Absent /\ UNCHANGED row
      BY Zenon, <1>8 DEF Payload
    <2>2. \/ task' = Absent \/ GoTo("storeKnown") \/ GoTo("storeDemoted")
          \/ \E p, f : Remember("storeKnown", p, f)
      BY Zenon, <1>8 DEF Payload, Release
    <2>3. task' = Absent \/ (task'.op = task.op /\ task'.at \in {"storeKnown", "storeDemoted"})
      BY Zenon, <1>0, <2>1, <2>2, TaskUpdates
    <2> QED
      BY Zenon, <2>1, <2>3, LifeStays
  <1>9. ASSUME StoreReconciled PROVE LifeInv'
    <2>1. task # Absent /\ task' = Absent /\ (row' = row \/ ~row.retired)
      BY Zenon, <1>9 DEF StoreReconciled, Release, Storable
    <2>2. row' = row \/ ~row'.retired
      BY Zenon, <1>0, <1>9, <2>1 DEF StoreReconciled, RowGood, RowShape, NewRow
    <2> QED
      BY Zenon, <2>1, <2>2 DEF LifeInv
  <1>10. ASSUME Redownload PROVE LifeInv'
    <2>1. row # Absent /\ task = Absent /\ UNCHANGED task
      BY Zenon, <1>10 DEF Redownload, Visible
    <2>2. row'.retired = row.retired /\ row'.deleting = row.deleting
      BY Zenon, <1>10, <2>1 DEF Redownload, DeliveryInv, RecordsOK, RowGood, RowShape
    <2> QED
      BY Zenon, <2>1, <2>2 DEF LifeInv
  <1>11. ASSUME Damage PROVE LifeInv'
    <2>1. UNCHANGED <<row, task>> /\ store.live = "good"
      BY Zenon, <1>11 DEF Damage
    <2> QED
      BY Zenon, <2>1 DEF LifeInv
  <1> QED
    BY Zenon, <1>1, <1>2, <1>3, <1>4, <1>5, <1>6, <1>7, <1>8, <1>9, <1>10, <1>11, <1>6a, QuietLifeKept
       DEF Next, Step, Sweep, Promote

(* What a task takes for the row, and what the attempt published, are files. *)
LEMMA TypedKept ==
  ASSUME DeliveryAssumption, DeliveryInv, LifeInv, Typed, [Next]_vars
  PROVE  Typed'
  <1> USE DEF diskVars, database, counters, Holding
  <1> DEFINE AttemptPart == attempt' # Absent /\ attempt'.phase = "published" => attempt'.published \in Files
             TaskPart == task' # Absent =>
                           /\ task'.owner \in {"owned", "unowned"}
                           /\ task'.at = "commit" => task'.file \in Files
                           /\ task'.at = "storeKnown" => task'.file \in MaybeFiles
  <1>0. /\ task # Absent => TaskShape
        /\ \A p \in Paths : fs[p] # Absent => fs[p] \in Files
    BY Zenon DEF DeliveryInv, TaskOK, TaskShape, FilesOK, FileLike
  <1>1. row' # Absent => row' \in Rows
    <2>1. ASSUME Finalize \/ DirMove \/ DirRemove \/ DirClear \/ Payload \/ Damage
          PROVE  row' = Absent \/ row' = row
      BY Zenon, <2>1 DEF Finalize, DirMove, DirRemove, DirClear, Payload, Damage
    <2> QED
      BY Zenon, <2>1, RowWritten, StoreUntouched DEF Next, Step, Sweep, Promote, Typed
  <1>2. ASSUME UNCHANGED attempt, task' = Absent \/ UNCHANGED task
        PROVE  AttemptPart /\ TaskPart
    BY Zenon, <1>2 DEF Typed
  <1>4. ASSUME Recover \/ Commit PROVE AttemptPart /\ TaskPart
    <2>1. task # Absent /\ (attempt' = Absent \/ UNCHANGED attempt)
      BY Zenon, <1>4 DEF Recover, Commit
    <2>2. CASE task' = Absent
      BY Zenon, <2>1, <2>2 DEF Typed
    <2>3. CASE Recovered
      <3>1. task'.owner = "owned" /\ task'.at \in {"snapshot", "request", "payload"}
        BY Zenon, <1>0, <2>1, <2>3, TaskUpdates DEF AfterRecovery
      <3> QED
        BY Zenon, <2>1, <3>1 DEF Typed
    <2>4. CASE /\ attempt # Absent /\ attempt' = attempt
               /\ \/ /\ attempt.phase = "published"
                     /\ Remember("commit", attempt.target, attempt.published)
                  \/ Remember("install", attempt.target, attempt.staged)
                  \/ /\ RecoverTarget(attempt)
                     /\ task' = [task EXCEPT !.at = "commit", !.path = attempt.target,
                                             !.file = fs[attempt.target], !.owner = "unowned"]
      <3>1. attempt.target \in Paths
        BY Zenon, <2>4 DEF DeliveryInv, RecordsOK, AttemptGood, Paths
      <3>2. task'.owner \in {"owned", "unowned"}
        BY Zenon, <1>0, <2>1, <2>4, TaskUpdates DEF Typed, TaskShape
      <3>3. task'.at = "install" \/ (task'.at = "commit" /\ task'.file \in Files)
        BY ZenonT(60), <1>0, <2>1, <2>4, <3>1, TaskUpdates DEF Typed, TaskShape, RecoverTarget, Matches
      <3> QED
        BY Zenon, <2>4, <3>2, <3>3 DEF Typed
    <2> QED
      BY Zenon, <1>4, <2>2, <2>3, <2>4 DEF Recover, Commit, Release
  <1>5. ASSUME Name \/ NoSource \/ Stage \/ Copy \/ Verify \/ Snapshot PROVE AttemptPart /\ TaskPart
    <2>1. /\ task # Absent
          /\ \/ UNCHANGED attempt
             \/ attempt'.phase \in {"prepared", "staged"}
      <3>1. CASE Verify
        <4>1. AttemptGood
          BY Zenon, <3>1 DEF Verify, DeliveryInv, TaskOK, TaskFiles
        <4> QED
          BY Zenon, <3>1, <4>1 DEF Verify, Staged, AttemptGood
      <3>2. CASE Name
        <4>1. task # Absent /\ \E n, t : attempt' = Prepared(n, t)
          BY Zenon, <3>2 DEF Name
        <4> QED
          BY <4>1 DEF Prepared
      <3> QED
        BY Zenon, <1>5, <3>1, <3>2 DEF NoSource, Stage, Copy, Snapshot
    <2>2. \/ task' = Absent \/ GoTo("copy") \/ GoTo("verify") \/ GoTo("name")
          \/ \E p, f : Remember("stage", p, f) \/ Remember("install", p, f)
      <3>1. CASE NoSource \/ Stage \/ Copy
        BY Zenon, <3>1 DEF NoSource, Stage, Copy, GiveUp
      <3>2. CASE Name
        BY Zenon, <3>2 DEF Name
      <3>3. CASE Verify \/ Snapshot
        BY Zenon, <3>3 DEF Verify, Snapshot, Release, GiveUp
      <3> QED
        BY Zenon, <1>5, <3>1, <3>2, <3>3
    <2>3. \/ task' = Absent
          \/ task'.owner = task.owner /\ task'.at \in {"copy", "verify", "name", "stage", "install"}
      BY Zenon, <1>0, <2>1, <2>2, TaskUpdates
    <2> QED
      BY Zenon, <2>1, <2>3 DEF Typed
  <1>6. ASSUME Install PROVE AttemptPart /\ TaskPart
    <2>1. task # Absent /\ (attempt' = Absent \/ UNCHANGED attempt)
      BY Zenon, <1>6 DEF Install
    <2>2. GoTo("capture") \/ GoTo("name") \/ Recovered
      BY Zenon, <1>6 DEF Install
    <2>3. /\ task'.owner = task.owner \/ task'.owner = "owned"
          /\ task'.at \in {"capture", "name", "snapshot", "request", "payload"}
      BY Zenon, <1>0, <2>1, <2>2, TaskUpdates DEF AfterRecovery
    <2> QED
      BY Zenon, <2>1, <2>3 DEF Typed
  <1>7. ASSUME Capture PROVE AttemptPart /\ TaskPart
    <2>1. AttemptGood /\ task.path \in Paths /\ task # Absent
      BY Zenon, <1>7 DEF Capture, DeliveryInv, TaskOK, TaskFiles, Paths
    <2>2. CASE task' = Absent /\ UNCHANGED attempt
      BY Zenon, <2>2, <1>2
    <2>3. CASE /\ fs[task.path] # Absent /\ attempt' = Published(fs[task.path])
               /\ Remember("commit", task.path, fs[task.path])
      <3>1. attempt'.published = fs[task.path]
        BY Zenon, <2>1, <2>3 DEF Published, AttemptGood
      <3>2. task'.owner = task.owner /\ task'.file = fs[task.path] /\ task'.at = "commit"
        BY Zenon, <1>0, <2>1, <2>3, TaskUpdates
      <3> QED
        BY Zenon, <1>0, <2>1, <2>3, <3>1, <3>2 DEF Typed
    <2> QED
      BY Zenon, <1>7, <2>2, <2>3 DEF Capture, Captured, GiveUp
  <1>8. ASSUME Discard \/ Output \/ Inspect \/ MoveAside \/ Seal \/ Reap PROVE AttemptPart /\ TaskPart
    <2>1. task # Absent /\ (attempt' = Absent \/ UNCHANGED attempt)
      BY Zenon, <1>8 DEF Discard, Output, Inspect, MoveAside, Seal, Reap
    <2>2. \/ task' = Absent \/ GoTo("inspect") \/ GoTo("reap") \/ GoTo("seal") \/ GoTo("dirMove")
          \/ \E p, f : Remember("output", p, f) \/ Remember("move", p, f)
      <3>1. CASE Discard
        BY Zenon, <3>1 DEF Discard
      <3>2. CASE Output
        BY Zenon, <3>2 DEF Output
      <3>3. CASE Inspect
        BY Zenon, <3>3 DEF Inspect, GiveUp
      <3>4. CASE MoveAside
        BY Zenon, <3>4 DEF MoveAside, GiveUp
      <3>5. CASE Seal \/ Reap
        BY Zenon, <3>5 DEF Seal, Reap, GiveUp
      <3> QED
        BY Zenon, <1>8, <3>1, <3>2, <3>3, <3>4, <3>5
    <2>3. \/ task' = Absent
          \/ /\ task'.owner = task.owner
             /\ task'.at \in {"inspect", "reap", "seal", "dirMove", "output", "move"}
      BY Zenon, <1>0, <2>1, <2>2, TaskUpdates
    <2> QED
      BY Zenon, <2>1, <2>3 DEF Typed
  <1>9. ASSUME RequestRetirement \/ DirMove \/ DirRemove \/ DirClear \/ Intent PROVE AttemptPart /\ TaskPart
    <2>1. task # Absent /\ UNCHANGED attempt
      BY Zenon, <1>9 DEF RequestRetirement, DirMove, DirRemove, DirClear, Intent
    <2>2. \/ task' = Absent \/ GoTo("dirMove") \/ GoTo("dirRemove") \/ GoTo("dirClear")
          \/ GoTo("finalize") \/ GoTo("discard")
      BY Zenon, <1>9 DEF RequestRetirement, DirMove, DirRemove, DirClear, Intent, GiveUp
    <2>3. \/ task' = Absent
          \/ /\ task'.owner = task.owner
             /\ task'.at \in {"dirMove", "dirRemove", "dirClear", "finalize", "discard"}
      BY Zenon, <1>0, <2>1, <2>2, TaskUpdates
    <2> QED
      BY Zenon, <2>1, <2>3 DEF Typed
  <1>10. ASSUME Payload PROVE AttemptPart /\ TaskPart
    <2>1. task # Absent /\ UNCHANGED attempt /\ task.file = Absent
      BY Zenon, <1>10 DEF Payload, DeliveryInv, TaskOK, TaskFiles
    <2>2. \/ task' = Absent \/ GoTo("storeKnown") \/ GoTo("storeDemoted")
          \/ /\ row.delivered /\ Matches(row.path, row.file)
             /\ Remember("storeKnown", row.path, fs[row.path])
      BY Zenon, <1>10 DEF Payload, Release
    <2>3. row.delivered => row.path \in Paths
      BY Zenon, <2>1 DEF DeliveryInv, TaskOK, TaskRow, RowGood, Paths
    <2>4. \/ task' = Absent
          \/ task'.owner = task.owner /\ task'.file \in MaybeFiles /\ task'.at \in {"storeKnown", "storeDemoted"}
      BY SMTT(60), <1>0, <2>1, <2>2, <2>3, TaskUpdates DEF Matches, MaybeFiles
    <2> QED
      BY Zenon, <2>1, <2>4 DEF Typed
  <1>11. ASSUME Finalize \/ StoreReconciled PROVE AttemptPart /\ TaskPart
    <2>1. task' = Absent /\ (attempt' = Absent \/ UNCHANGED attempt)
      BY Zenon, <1>11 DEF Finalize, StoreReconciled, Release
    <2> QED
      BY Zenon, <2>1 DEF Typed
  <1>12. ASSUME Boot \/ Deliver \/ RetryRetirement \/ Delete \/ RemoveRow("retire") \/ RemoveRow("remove")
         PROVE  AttemptPart /\ TaskPart
    <2>1. UNCHANGED attempt
      BY Zenon, <1>12 DEF Boot, BootStep, Restart, Deliver, RetryRetirement, Delete, RemoveRow
    <2>2. \/ UNCHANGED task
          \/ \E op : \/ task' = StartTask(op, "recover") \/ task' = StartTask(op, "intent")
                     \/ task' = StartTask(op, "dirMove")
      BY Zenon, <1>12 DEF Boot, BootStep, Restart, Deliver, RetryRetirement, Delete, RemoveRow
    <2>3. ASSUME NEW op, NEW step, task' = StartTask(op, step)
          PROVE  task'.owner = "owned" /\ task'.at = step
      BY Zenon, <2>3 DEF StartTask
    <2>4. UNCHANGED task \/ (task'.owner = "owned" /\ task'.at \in {"recover", "intent", "dirMove"})
      BY Zenon, <2>2, <2>3
    <2>5. CASE UNCHANGED task
      BY Zenon, <1>2, <2>1, <2>5
    <2>6. CASE task'.owner = "owned" /\ task'.at \in {"recover", "intent", "dirMove"}
      BY Zenon, <2>1, <2>6 DEF Typed
    <2> QED
      BY Zenon, <2>4, <2>5, <2>6
  <1>13. ASSUME \/ Admit \/ Register \/ Crash \/ Fault \/ Redownload \/ Damage \/ UNCHANGED vars
                \/ (\E kind \in Meddling, p \in Paths : Meddle(kind, p))
         PROVE  AttemptPart /\ TaskPart
    <2>1. UNCHANGED attempt /\ (task' = Absent \/ UNCHANGED task)
      BY Zenon, <1>13 DEF Admit, Register, Crash, Fault, GiveUp, Redownload, Damage, Meddle, vars
    <2> QED
      BY Zenon, <1>2, <2>1
  <1>14. AttemptPart /\ TaskPart
    <2> HIDE DEF AttemptPart, TaskPart
    <2> QED
      BY Zenon, <1>4, <1>5, <1>6, <1>7, <1>8, <1>9, <1>10, <1>11, <1>12, <1>13
         DEF Next, Step, Sweep, Promote
  <1> QED
    BY Zenon, <1>1, <1>14 DEF Typed

(* Every step of the delivery is a step of the handover or leaves it alone. *)
LEMMA HandoverSteps ==
  ASSUME DeliveryAssumption, DeliveryInv, LifeInv, Typed, [Next]_vars
  PROVE  [Handed!HandoverNext]_(Handed!handoverVars)
  <1> USE DEF diskVars, database, counters, Holding
  <1> DEFINE Goal == [Handed!HandoverNext]_(Handed!handoverVars)
  <1>0. task # Absent => TaskShape /\ RowGood /\ row # Absent /\ TaskRow
    BY Zenon DEF DeliveryInv, TaskOK, TaskShape, TaskRow, LifeInv
  <1>1. /\ row # Absent => RowShape
        /\ DOMAIN store = {"live", "named", "tomb", "known"}
    BY Zenon DEF DeliveryInv, RecordsOK, RowGood, StoreOK
  \* Until a transfer is retired or deleted its payload is held.
  <1>2. row # Absent /\ ~row.deleting /\ ~row.retired => PayloadPlace = "held"
    BY Zenon DEF DeliveryInv, StoreOK, ReleasedRow, PayloadPlace
  <1>3. ASSUME LifeStage' = LifeStage, PayloadPlace' = PayloadPlace, registered' = registered
        PROVE  Goal
    BY Zenon, <1>3 DEF Handed!handoverVars
  <1>4. ASSUME UNCHANGED <<row, store, registered>> PROVE Goal
    BY Zenon, <1>3, <1>4 DEF LifeStage, PayloadPlace
  <1>5. ASSUME Register PROVE Goal
    <2>1. UNCHANGED <<row, store>>
      BY Zenon, <1>5 DEF Register
    <2>2. LifeStage' = LifeStage /\ PayloadPlace' = PayloadPlace
      BY Zenon, <2>1 DEF LifeStage, PayloadPlace
    <2>3. CASE registered' = TRUE /\ row # Absent /\ ~row.deleting /\ row.delivered
      <3>1. LifeStage \in {"delivered", "retired"}
        BY Zenon, <2>3 DEF LifeStage
      <3> QED
        BY Zenon, <2>2, <2>3, <3>1 DEF Handed!HandoverNext, Handed!Share
    <2> QED
      BY Zenon, <1>4, <1>5, <2>1, <2>3 DEF Register, Visible
  <1>6. ASSUME Commit PROVE Goal
    <2>1. /\ task # Absent /\ RowGood /\ row # Absent /\ UNCHANGED <<store, registered>>
          /\ row'.delivered /\ row'.deleting = row.deleting /\ row'.retired = row.retired
      BY Zenon, <1>0, <1>6 DEF Commit, RowGood, RowShape
    <2>2. row' # Absent /\ PayloadPlace' = PayloadPlace
      BY Zenon, <1>6, <2>1, RowWritten DEF DeliveryAssumption, PayloadPlace
    <2>3. CASE row.deleting \/ row.retired \/ row.delivered
      BY Zenon, <1>3, <2>1, <2>2, <2>3 DEF LifeStage
    <2>4. CASE ~row.deleting /\ ~row.retired /\ ~row.delivered
      <3>1. LifeStage = "stored" /\ LifeStage' = "delivered"
        BY Zenon, <2>1, <2>2, <2>4 DEF LifeStage
      <3> QED
        BY Zenon, <1>2, <2>1, <2>2, <2>4, <3>1 DEF Handed!HandoverNext, Handed!Recording, Handed!Record
    <2> QED
      BY Zenon, <2>3, <2>4
  <1>7. ASSUME Snapshot PROVE Goal
    <2>1. /\ task # Absent /\ RowGood /\ row # Absent /\ UNCHANGED <<store, registered>>
          /\ ~row.retired /\ ~row.deleting
      BY Zenon, <1>0, <1>7 DEF Snapshot, TaskRow, LifeInv
    <2>2. CASE row' = row
      BY Zenon, <1>4, <2>1, <2>2
    <2>3. CASE /\ row.delivered
               /\ row' = [row EXCEPT !.delivered = FALSE, !.owner = "none",
                                     !.path = Absent, !.file = Absent]
      <3>1. ~row'.delivered /\ ~row'.deleting /\ ~row'.retired
        BY Zenon, <2>1, <2>3 DEF RowGood, RowShape
      <3>2. row' # Absent /\ PayloadPlace' = PayloadPlace
        BY Zenon, <1>7, <2>1, RowWritten DEF DeliveryAssumption, PayloadPlace
      <3>3. LifeStage = "delivered" /\ LifeStage' = "stored"
        BY Zenon, <2>1, <2>3, <3>1, <3>2 DEF LifeStage
      <3> QED
        BY Zenon, <1>2, <2>1, <3>2, <3>3 DEF Handed!HandoverNext, Handed!Recording, Handed!Withdraw
    <2> QED
      BY Zenon, <1>7, <2>2, <2>3 DEF Snapshot
  <1>8. ASSUME RequestRetirement PROVE Goal
    <2>1. task # Absent /\ RowGood /\ row # Absent /\ registered' = registered /\ ~row.deleting
      BY Zenon, <1>0, <1>8 DEF RequestRetirement, TaskRow, LifeInv
    <2>2. CASE row' = row /\ store' = store
      BY Zenon, <1>4, <2>1, <2>2
    <2>3. CASE row.retired \/ Retirable
      <3>1. row'.retired /\ row'.deleting = row.deleting /\ PayloadPlace' = PayloadPlace
        BY ZenonT(60), <1>1, <1>8, <2>1, <2>3 DEF RequestRetirement, RowGood, RowShape, PayloadPlace
      <3>2. row' # Absent
        BY Zenon, <1>8, RowWritten DEF DeliveryAssumption
      <3>3. LifeStage' = "retired"
        BY Zenon, <2>1, <3>1, <3>2 DEF LifeStage
      <3>4. CASE row.retired
        BY Zenon, <1>3, <2>1, <3>1, <3>3, <3>4 DEF LifeStage
      <3>5. CASE ~row.retired
        <4>1. LifeStage = "delivered" /\ registered
          BY Zenon, <2>1, <2>3, <3>5 DEF LifeStage, Retirable
        <4> QED
          BY Zenon, <1>2, <2>1, <3>1, <3>3, <3>5, <4>1 DEF Handed!HandoverNext, Handed!Leaving, Handed!Retire
      <3> QED
        BY Zenon, <3>4, <3>5
    <2> QED
      BY Zenon, <1>8, <2>2, <2>3 DEF RequestRetirement
  <1>9. ASSUME Intent PROVE Goal
    <2>1. /\ task # Absent /\ RowGood /\ row # Absent /\ registered' = registered /\ ~row.retired
      BY Zenon, <1>0, <1>9 DEF Intent, TaskRow, LifeInv
    <2>2. row'.deleting /\ PayloadPlace' = PayloadPlace
      BY Zenon, <1>1, <1>9, <2>1 DEF Intent, RowGood, RowShape, PayloadPlace
    <2>3. row' # Absent
      BY Zenon, <1>9, RowWritten DEF DeliveryAssumption
    <2>4. LifeStage' = "deleting"
      BY Zenon, <2>2, <2>3 DEF LifeStage
    <2>5. CASE row.deleting
      BY Zenon, <1>3, <2>1, <2>2, <2>4, <2>5 DEF LifeStage
    <2>6. CASE ~row.deleting
      <3>1. LifeStage \in {"stored", "delivered"}
        BY Zenon, <2>1, <2>6 DEF LifeStage
      <3> QED
        BY Zenon, <1>2, <2>1, <2>2, <2>4, <2>6, <3>1 DEF Handed!HandoverNext, Handed!Leaving, Handed!Condemn
    <2> QED
      BY Zenon, <2>5, <2>6
  <1>10. ASSUME DirMove PROVE Goal
    <2>1. /\ task # Absent /\ row # Absent /\ UNCHANGED <<row, registered>>
          /\ row.deleting \/ row.retired
      BY Zenon, <1>0, <1>10 DEF DirMove, TaskRow
    <2>2. CASE store' = store
      BY Zenon, <1>4, <2>1, <2>2
    <2>3. CASE store.live # "none" /\ store' = [store EXCEPT !.live = "none", !.tomb = "whole"]
      <3>1. LifeStage' = LifeStage /\ LifeStage \in {"retired", "deleting"}
        BY Zenon, <2>1 DEF LifeStage
      <3>2. PayloadPlace = "held" /\ PayloadPlace' = "aside"
        BY Zenon, <1>1, <2>3 DEF PayloadPlace
      <3> QED
        BY Zenon, <2>1, <3>1, <3>2 DEF Handed!HandoverNext, Handed!Clearing, Handed!SetAside
    <2> QED
      BY Zenon, <1>10, <2>2, <2>3 DEF DirMove
  <1>11. ASSUME DirRemove PROVE Goal
    <2>1. /\ task # Absent /\ row # Absent /\ UNCHANGED <<row, registered>>
          /\ row.deleting \/ row.retired
          /\ store.live = "none"
      BY Zenon, <1>0, <1>11 DEF DirRemove, TaskRow, LifeInv
    <2>2. LifeStage' = LifeStage /\ LifeStage \in {"retired", "deleting"}
      BY Zenon, <2>1 DEF LifeStage
    <2>3. CASE store' = store
      BY Zenon, <1>4, <2>1, <2>3
    <2>4. CASE store.tomb = "whole" /\ store' = [store EXCEPT !.tomb = "torn"]
      <3>1. PayloadPlace' = PayloadPlace
        BY Zenon, <1>1, <2>1, <2>4 DEF PayloadPlace
      <3> QED
        BY Zenon, <1>3, <2>1, <2>2, <3>1
    <2> QED
      BY Zenon, <1>11, <2>3, <2>4 DEF DirRemove
  <1>11a. ASSUME DirClear PROVE Goal
    <2>1. /\ task # Absent /\ row # Absent /\ UNCHANGED <<row, registered>>
          /\ row.deleting \/ row.retired
          /\ store.live = "none"
      BY Zenon, <1>0, <1>11a DEF DirClear, TaskRow, LifeInv
    <2>2. LifeStage' = LifeStage /\ LifeStage \in {"retired", "deleting"}
      BY Zenon, <2>1 DEF LifeStage
    <2>3. PayloadPlace' = "removed" /\ PayloadPlace \in {"aside", "removed"}
      BY Zenon, <1>1, <1>11a, <2>1 DEF DirClear, PayloadPlace
    <2>4. CASE PayloadPlace = "removed"
      BY Zenon, <1>3, <2>1, <2>2, <2>3, <2>4
    <2>5. CASE PayloadPlace = "aside"
      BY Zenon, <2>1, <2>2, <2>3, <2>5 DEF Handed!HandoverNext, Handed!Clearing, Handed!Remove
    <2> QED
      BY Zenon, <2>3, <2>4, <2>5
  <1>12. ASSUME Finalize PROVE Goal
    <2>1. /\ task # Absent /\ row # Absent /\ UNCHANGED <<store, registered>> /\ row' = Absent
          /\ row.deleting \/ row.retired
          /\ store.live = "none" /\ store.tomb = "none"
      BY Zenon, <1>0, <1>12 DEF Finalize, LifeInv
    <2>2. LifeStage' = "gone" /\ LifeStage \in {"retired", "deleting"}
      BY Zenon, <2>1 DEF LifeStage
    <2>3. PayloadPlace' = PayloadPlace /\ PayloadPlace = "removed"
      BY Zenon, <2>1 DEF PayloadPlace
    <2> QED
      BY Zenon, <2>1, <2>2, <2>3 DEF Handed!HandoverNext, Handed!Forget
  <1>13. ASSUME Payload PROVE Goal
    <2>1. task # Absent /\ row # Absent /\ UNCHANGED <<row, registered>> /\ ~row.deleting
      BY Zenon, <1>0, <1>13 DEF Payload, TaskRow
    <2>2. CASE store' = store
      BY Zenon, <1>4, <2>1, <2>2
    <2>3. CASE \E live \in {"good", "bad"} : \E named :
                  store' = [store EXCEPT !.live = live, !.known = FALSE, !.named = named]
      <3>1. PayloadPlace' = "held"
        BY Zenon, <1>1, <2>3 DEF PayloadPlace
      <3>2. LifeStage' = LifeStage
        BY Zenon, <2>1 DEF LifeStage
      <3>3. CASE PayloadPlace = "held"
        BY Zenon, <1>3, <2>1, <3>1, <3>2, <3>3
      <3>4. CASE PayloadPlace # "held"
        <4>1. LifeStage = "retired"
          BY Zenon, <1>2, <2>1, <3>4 DEF LifeStage
        <4> QED
          BY Zenon, <2>1, <3>1, <3>2, <3>4, <4>1 DEF Handed!HandoverNext, Handed!Clearing, Handed!Rebuild
      <3> QED
        BY Zenon, <3>3, <3>4
    <2> QED
      BY Zenon, <1>13, <2>2, <2>3 DEF Payload
  <1>14. ASSUME StoreReconciled PROVE Goal
    <2>1. task # Absent /\ RowGood /\ row # Absent /\ registered' = registered /\ ~row.deleting
      BY Zenon, <1>0, <1>14 DEF StoreReconciled, TaskRow
    <2>2. CASE UNCHANGED <<row, store>>
      BY Zenon, <1>4, <2>1, <2>2
    <2>3. CASE Storable /\ store' = [store EXCEPT !.known = task.at = "storeKnown"]
      <3>1. row' # Absent /\ PayloadPlace' = PayloadPlace /\ ~row.retired
        BY Zenon, <1>1, <1>14, <2>3, RowWritten DEF DeliveryAssumption, PayloadPlace, Storable
      <3>2. \/ row'.deleting = row.deleting /\ row'.retired = row.retired /\ row'.delivered = row.delivered
            \/ ~row'.deleting /\ ~row'.retired /\ ~row'.delivered
        <4>1. \/ row' = row
              \/ row' = [NewRow EXCEPT !.completed = FALSE]
              \/ \E o : row' = [row EXCEPT !.file = task.file, !.owner = o]
          BY Zenon, <1>14 DEF StoreReconciled
        <4> QED
          BY Zenon, <2>1, <4>1 DEF RowGood, RowShape, NewRow
      <3>3. CASE LifeStage' = LifeStage
        BY Zenon, <1>3, <2>1, <3>1, <3>3
      <3>4. CASE LifeStage' # LifeStage
        <4>1. LifeStage = "delivered" /\ LifeStage' = "stored"
          BY Zenon, <2>1, <3>1, <3>2, <3>4 DEF LifeStage
        <4> QED
          BY Zenon, <1>2, <2>1, <3>1, <4>1 DEF Handed!HandoverNext, Handed!Recording, Handed!Withdraw
      <3> QED
        BY Zenon, <3>3, <3>4
    <2> QED
      BY Zenon, <1>14, <2>2, <2>3 DEF StoreReconciled
  <1>15. ASSUME Redownload PROVE Goal
    <2>1. row # Absent /\ ~row.deleting /\ registered' = registered
      BY Zenon, <1>15 DEF Redownload, Visible
    <2>2. /\ row'.retired = row.retired /\ row'.deleting = row.deleting
          /\ row'.delivered = row.delivered
      BY Zenon, <1>1, <1>15, <2>1 DEF Redownload, RowShape
    <2>3. row' # Absent
      BY Zenon, <1>15, RowWritten DEF DeliveryAssumption
    <2>4. LifeStage' = LifeStage /\ PayloadPlace' = "held"
      BY Zenon, <1>1, <1>15, <2>1, <2>2, <2>3 DEF Redownload, LifeStage, PayloadPlace
    <2>5. CASE PayloadPlace = "held"
      BY Zenon, <1>3, <2>1, <2>4, <2>5
    <2>6. CASE PayloadPlace # "held"
      <3>1. LifeStage = "retired"
        BY Zenon, <1>2, <2>1, <2>6 DEF LifeStage
      <3> QED
        BY Zenon, <2>1, <2>4, <2>6, <3>1 DEF Handed!HandoverNext, Handed!Clearing, Handed!Rebuild
    <2> QED
      BY Zenon, <2>5, <2>6
  <1>16. ASSUME Damage PROVE Goal
    <2>1. UNCHANGED <<row, registered>> /\ PayloadPlace' = "held" /\ PayloadPlace = "held"
      BY Zenon, <1>1, <1>16 DEF Damage, PayloadPlace
    <2> QED
      BY Zenon, <1>3, <2>1 DEF LifeStage
  <1>17. ASSUME \/ Recover \/ Name \/ NoSource \/ Stage \/ Copy \/ Verify \/ Install \/ Capture
                \/ Discard \/ Output \/ Inspect \/ MoveAside \/ Seal \/ Reap
         PROVE  Goal
    <2>1. UNCHANGED <<row, store, registered>>
      BY Zenon, <1>17 DEF Recover, Name, NoSource, Stage, Copy, Verify, Install, Capture,
         Discard, Output, Inspect, MoveAside, Seal, Reap
    <2> QED
      BY Zenon, <1>4, <2>1
  <1>18. ASSUME \/ Boot \/ Deliver \/ RetryRetirement \/ Delete \/ Admit
                \/ RemoveRow("retire") \/ RemoveRow("remove")
                \/ Crash \/ Fault \/ (\E kind \in Meddling, p \in Paths : Meddle(kind, p)) \/ UNCHANGED vars
         PROVE  Goal
    <2>1. UNCHANGED <<row, store, registered>>
      BY Zenon, <1>18 DEF Boot, BootStep, Restart, Deliver, RetryRetirement, Delete, Admit, RemoveRow,
         Crash, Fault, Meddle, vars
    <2> QED
      BY Zenon, <1>4, <2>1
  <1> HIDE DEF Goal
  <1>19. Goal
    BY Zenon, <1>5, <1>6, <1>7, <1>8, <1>9, <1>10, <1>11, <1>11a, <1>12, <1>13, <1>14, <1>15, <1>16, <1>17, <1>18
       DEF Next, Step, Sweep, Promote
  <1> QED
    BY Zenon, <1>19 DEF Goal

(* For every number of names, copies, crashes, failures and operator       *)
(* actions, Delivery implements Handover: a payload is let go only for a   *)
(* shared output or a requested deletion, neither is ever taken back, and  *)
(* remove_completed_transfer_row and delete_transfer_files drop the row    *)
(* only when the piece store is gone.                                      *)
THEOREM DeliveryImplementsHandover ==
  ASSUME DeliveryAssumption
  PROVE  Spec => HandoverFollowed
  <1>1. Init => LifeInv /\ Typed /\ Handed!HandoverInit
    <2>1. NewRow \in Rows
      BY DEF NewRow, Rows
    <2>2. NewRow # Absent
      BY Zenon, <2>1 DEF DeliveryAssumption
    <2>3. ~NewRow.deleting /\ ~NewRow.retired /\ ~NewRow.delivered
      BY Zenon DEF NewRow
    <2>4. Init => LifeInv /\ Typed
      BY Zenon, <2>1, <2>3 DEF Init, LifeInv, Typed
    <2>5. Init => LifeStage = "stored" /\ PayloadPlace = "held" /\ registered = FALSE
      BY <2>2, <2>3 DEF Init, LifeStage, PayloadPlace
    <2> QED
      BY Zenon, <2>4, <2>5 DEF Handed!HandoverInit
  <1>2. DeliveryInv /\ LifeInv /\ Typed /\ [Next]_vars => LifeInv' /\ Typed'
    BY Zenon, LifeKept, TypedKept
  <1>3. DeliveryInv /\ LifeInv /\ Typed /\ [Next]_vars => [Handed!HandoverNext]_(Handed!handoverVars)
    BY Zenon, HandoverSteps
  <1> QED
    BY InvHolds, <1>1, <1>2, <1>3, PTL DEF Spec, HandoverFollowed, Handed!HandoverSpec

=============================================================================
