--------------------------- MODULE SharedFolders ---------------------------
(***************************************************************************)
(* The shared library: the paths under the shared roots, the durable       *)
(* records of verified paths and root memberships, the offered catalog,    *)
(* and the four tasks that change them - the background reload, the        *)
(* consumer of watcher actions, the root-health worker and the worker that *)
(* rehashes a source an upload found changed.                              *)
(*                                                                         *)
(* A file is a model value that stands for one generation of bytes at one  *)
(* native identity: its fingerprint is the file itself, HashOf gives its   *)
(* ED2K hash, and a rename keeps it.  Roots are disjoint, as               *)
(* consolidate_shared_directory_roots leaves them, so RootOf is a          *)
(* function.  A root that is down reads as empty.                          *)
(***************************************************************************)
EXTENDS Naturals, Sequences, FiniteSets, FiniteSetsExt, SequencesExt

CONSTANTS
    Paths, Roots, RootOf, DiskOf, \* places, their root and their physical disk
    Files, HashOf, SizeOf,        \* generations of bytes; equal bytes, equal hash
    Ignored,                      \* files the exclusion policy refuses
    Absent,                       \* no file, no record
    Start, Loaded,                \* what is on disk first, and whether it has been loaded
    Capacity,                     \* ACTION_CHANNEL_CAPACITY
    CohortFiles, CohortBytes,     \* limits of the first-run cohort
    MaxAttempts,                  \* TARGETED_REHASH_MAX_ATTEMPTS
    Shapes,                       \* how the watcher reports a rename
    Recreates,                    \* may a path be written again while its rename is queued
    MaxChanges, MaxFlips, MaxRequests, MaxFaults \* bounds on the environment

VARIABLES
    disk, up,                     \* the file system: path -> file, root -> mounted
    instance, member, accessible, session, failure, \* the metadata store
    shared,                       \* monitor_shared_hashes: path -> [hash, fp]
    catalog,                      \* hashes of complete files on offer
    events, queue, latch,         \* unsettled events, action channel, reconcile_required
    consumer,                     \* the watcher's consumer task
    running, pending, job,        \* the reload flags and its task
    asking, leaving,              \* askers and tasks between their two accesses to the flags
    seen, rejoin,                 \* the health worker's previous and pending_rejoin
    invalid, rehash,              \* invalidated sources, and the one being rehashed
    owed,                         \* history: a reload was asked for and none has scanned since
    stale,                        \* history: what the last reload left behind the truth
    skipped,                      \* history: paths whose current file failed to hash
    changes, flips, requests, faults

store == <<instance, member, accessible, session>>
ingress == <<events, queue, latch>>
reload == <<running, pending, job, owed, asking, leaving>>
health == <<seen, rejoin>>
recovery == <<invalid, rehash>>
bounds == <<changes, flips, requests, faults>>
vars == <<disk, up, store, failure, shared, catalog, ingress, consumer, reload, health,
          recovery, skipped, stale, bounds>>

Hashes == {HashOf[f] : f \in Files}
ToShare(p) == [op |-> "share", path |-> p, to |-> p]
ToRemove(p) == [op |-> "remove", path |-> p, to |-> p]
ToRename(p, q) == [op |-> "rename", path |-> p, to |-> q]
ToReconcile == [op |-> "reconcile", path |-> Absent, to |-> Absent]

Idle == [step |-> "idle", todo |-> <<>>, path |-> Absent, fp |-> Absent, read |-> Absent,
         old |-> Absent]
NoJob == [phase |-> "none", scan |-> [p \in Paths |-> Absent], roots |-> {}, todo |-> {},
          open |-> {}, read |-> [p \in Paths |-> Absent], offers |-> {}]
NoRehash == [path |-> Absent, hash |-> Absent, fp |-> Absent, read |-> Absent, tries |-> 0]

\* What a stat of the path finds.
Found(p) == IF up[RootOf[p]] THEN disk[p] ELSE Absent

\* Loaded: the daemon's startup reload is over, and the library is what it found.
Init ==
    /\ disk = Start
    /\ up = [r \in Roots |-> TRUE]
    /\ failure = [p \in Paths |-> Absent]
    /\ accessible = [r \in Roots |-> TRUE]
    /\ LET known == [p \in Paths |-> IF Loaded /\ Start[p] \notin Ignored THEN Start[p] ELSE Absent]
       IN /\ instance = known /\ session = known
          /\ member = [p \in Paths |-> IF known[p] = Absent THEN "never" ELSE "in"]
          /\ shared = [p \in Paths |-> IF known[p] = Absent THEN Absent
                                       ELSE [hash |-> HashOf[known[p]], fp |-> known[p]]]
          /\ catalog = {HashOf[known[p]] : p \in {q \in Paths : known[q] # Absent}}
    /\ events = <<>> /\ queue = <<>> /\ latch = FALSE
    /\ consumer = Idle
    /\ running = ~Loaded /\ pending = ~Loaded /\ owed = ~Loaded
    /\ job = IF Loaded THEN NoJob ELSE [NoJob EXCEPT !.phase = "start"]
    /\ seen = up /\ rejoin = [r \in Roots |-> "no"]
    /\ invalid = <<>> /\ rehash = NoRehash
    /\ asking = 0 /\ leaving = 0
    /\ skipped = {} /\ stale = [paths |-> {}, hashes |-> {}]
    /\ changes = 0 /\ flips = 0 /\ requests = 0 /\ faults = 0

-----------------------------------------------------------------------------
(* The metadata store. *)

Active(p, mem, acc) == mem[p] = "in" /\ acc[RootOf[p]]

\* active_local_file_by_hash: a member path under an accessible root holds the hash.
Remembered(h, inst, mem, acc) ==
    \E p \in Paths : Active(p, mem, acc) /\ inst[p] # Absent /\ HashOf[inst[p]] = h

\* first_present_source: such a path still has the bytes that were verified.
PresentSources(h, inst, mem, acc) ==
    {p \in Paths : /\ Active(p, mem, acc)
                   /\ inst[p] # Absent /\ HashOf[inst[p]] = h
                   /\ Found(p) = inst[p]}

\* refresh_shared_catalog_entry for one hash; it marks the source it found.
Refreshed(cat, h, inst, mem, acc) ==
    IF PresentSources(h, inst, mem, acc) # {} THEN cat \union {h} ELSE cat \ {h}
Marked(ses, h, inst, mem, acc) ==
    [p \in Paths |-> IF p \in PresentSources(h, inst, mem, acc) THEN inst[p] ELSE ses[p]]

\* A verified path of the same native identity: the hash need not be computed again.
ReusableByIdentity(f) ==
    LET same == {p \in Paths : instance[p] = f}
    IN same # {} /\ \A p, q \in same : HashOf[instance[p]] = HashOf[instance[q]]

\* admit_local_path_to_root, for the one root that holds the path.
Admits(p, f, inst) ==
    /\ f # Absent /\ inst[p] = f
    /\ seen[RootOf[p]] /\ accessible[RootOf[p]]
Admit(p, f, inst, mem) == IF Admits(p, f, inst) THEN [mem EXCEPT ![p] = "in"] ELSE mem

Withdraw(p, mem) == IF mem[p] = "in" THEN [mem EXCEPT ![p] = "out"] ELSE mem

\* replace_root_memberships: only paths whose cached fingerprint is the scanned one.
ReplaceRoots(roots, scan, mem) ==
    [p \in Paths |->
        IF RootOf[p] \notin roots THEN mem[p]
        ELSE IF scan[p] # Absent /\ instance[p] = scan[p] THEN "in"
        ELSE IF mem[p] = "in" THEN "out" ELSE mem[p]]

WithdrawRoots(roots, mem) ==
    [p \in Paths |-> IF RootOf[p] \in roots /\ mem[p] = "in" THEN "out" ELSE mem[p]]

\* ingest_local_file: the bytes read are the ones the path still names, or it fails.
Ingests(p, read) == read # Absent /\ read \notin Ignored /\ Found(p) = read

\* A file that cannot be hashed is logged and left as it is.
IngestFails(p, read) ==
    /\ ~Ingests(p, read) \/ faults < MaxFaults
    /\ faults' = IF Ingests(p, read) THEN faults + 1 ELSE faults
    /\ skipped' = IF Found(p) = read THEN skipped \union {p} ELSE skipped

Entry(h, f) == [hash |-> h, fp |-> f]

\* upsert_verified_local_content: the path holds the bytes just hashed.
Verified(p, f) == [instance EXCEPT ![p] = f]
\* upsert_local_file_instance: the path holds bytes verified under another name.
Cached(p, f) == [instance EXCEPT ![p] = f]

-----------------------------------------------------------------------------
(* The file system, and the watcher that settles its events into actions. *)

\* A new file has a fingerprint the program has not seen.
Fresh == Files \ ({consumer.fp, rehash.fp}
                  \union {shared[p].fp : p \in {q \in Paths : shared[q] # Absent}}
                  \union UNION {{disk[p], instance[p], failure[p], job.scan[p]} : p \in Paths})

Changed(paths, happened) ==
    /\ changes < MaxChanges /\ changes' = changes + 1
    /\ skipped' = skipped \ paths
    /\ events' = events \o happened
    /\ UNCHANGED <<up, store, failure, shared, catalog, queue, latch, consumer, reload,
                   health, recovery, stale, flips, requests, faults>>

\* Bound: no new file at a path that a rename not yet applied has left (see Coalesce).
Left(p) == \E i \in DOMAIN (events \o queue) :
              LET a == (events \o queue)[i] IN a.op = "rename" /\ a.path = p
WriteFile(p, f) ==
    /\ up[RootOf[p]] /\ f \in Fresh
    /\ Recreates \/ ~Left(p)
    /\ disk' = [disk EXCEPT ![p] = f]
    /\ Changed({p}, <<ToShare(p)>>)

RemoveFile(p) ==
    /\ up[RootOf[p]] /\ disk[p] # Absent
    /\ disk' = [disk EXCEPT ![p] = Absent]
    /\ Changed({p}, <<ToRemove(p)>>)

\* A move inside the watched tree; the back end reports the pair, one side, or the pair and a change.
RenameFile(p, q) ==
    /\ p # q /\ up[RootOf[p]] /\ up[RootOf[q]]
    /\ disk[p] # Absent /\ disk[q] = Absent
    /\ disk' = [disk EXCEPT ![p] = Absent, ![q] = disk[p]]
    /\ \E shape \in Shapes :
       /\ shape = "both" => Recreates \/ ~Left(q)
       /\ Changed({p, q}, CASE shape = "pair" -> <<ToRename(p, q)>>
                       [] shape = "one side" -> <<ToReconcile>>
                       [] shape = "both" -> <<ToRename(p, q), ToShare(q)>>)

\* A volume is unmounted or comes back, and stays so until the health worker has looked.
FlipRoot(r) ==
    /\ flips < MaxFlips /\ flips' = flips + 1
    /\ seen[r] = up[r]
    /\ up' = [up EXCEPT ![r] = ~@]
    /\ UNCHANGED <<disk, store, failure, shared, catalog, ingress, consumer, reload, health,
                   recovery, skipped, stale, changes, requests, faults>>

\* coalesce_actions: the last intent of each path in order; a reconciliation stands for all.
Coalesce(actions) ==
    LET n == Len(actions)
        later(i, same(_)) == \E j \in (i + 1) .. n : same(actions[j])
        renames == {actions[i] : i \in {j \in 1 .. n : actions[j].op = "rename"}}
        kept(i) ==
            LET a == actions[i] IN
            CASE a.op = "rename" -> ~later(i, LAMBDA b : b = a)
              [] a.op \in {"share", "remove"} ->
                   /\ ~later(i, LAMBDA b : b.op \in {"share", "remove"} /\ b.path = a.path)
                   /\ \A r \in renames : a.path # r.path
                   /\ a.op = "share" => \A r \in renames : a.path # r.to
              [] OTHER -> FALSE
        indices == SetToSortSeq({i \in 1 .. n : kept(i)}, <)
    IN IF \E i \in 1 .. n : actions[i] = ToReconcile THEN <<ToReconcile>>
       ELSE [k \in 1 .. Len(indices) |-> actions[indices[k]]]

\* Mutant: what does not fit is dropped without a word.
TrySendActionsUnlatched ==
    /\ events # <<>> /\ events' = <<>>
    /\ queue' = queue \o SubSeq(Coalesce(events), 1, Min({Len(Coalesce(events)), Capacity - Len(queue)}))
    /\ UNCHANGED <<latch, disk, up, store, failure, shared, catalog, consumer, reload, health,
                   recovery, skipped, stale, bounds>>

\* The watcher callback: never blocks; a full channel latches one reconciliation.
TrySendActions ==
    /\ events # <<>> /\ events' = <<>>
    /\ LET batch == Coalesce(events)
           fit == Min({Len(batch), Capacity - Len(queue)})
       IN IF latch THEN UNCHANGED <<queue, latch>>
          ELSE /\ queue' = queue \o SubSeq(batch, 1, fit)
               /\ latch' = (fit < Len(batch))
    /\ UNCHANGED <<disk, up, store, failure, shared, catalog, consumer, reload, health,
                   recovery, skipped, stale, bounds>>

-----------------------------------------------------------------------------
(* The background reload. *)

\* reload_shared_directories_detached: the request is posted, then the flag is swapped,
\* and the asker that found it clear starts the task.
AskReload == pending' = TRUE /\ owed' = TRUE /\ asking' = asking + 1
             /\ UNCHANGED <<running, job, leaving>>

AskSwaps ==
    /\ asking > 0 /\ asking' = asking - 1
    /\ running' = TRUE
    /\ job' = IF running THEN job ELSE [NoJob EXCEPT !.phase = "start"]
    /\ UNCHANGED <<disk, up, store, failure, shared, catalog, ingress, consumer, pending, owed,
                   leaving, health, recovery, skipped, stale, bounds>>

\* The operator asks: a reload, or an edit of the exclusions.
RequestReload ==
    /\ requests < MaxRequests /\ requests' = requests + 1
    /\ AskReload
    /\ UNCHANGED <<disk, up, store, failure, shared, catalog, ingress, consumer, health,
                   recovery, skipped, stale, changes, flips, faults>>

Scan == [p \in Paths |-> IF Found(p) \in Ignored THEN Absent ELSE Found(p)]

\* plan_incremental_reload: what was verified or has failed before is not read again.
ToHash(scan) ==
    {p \in Paths : /\ scan[p] # Absent /\ failure[p] # scan[p]
                   /\ instance[p] # scan[p]
                   /\ instance[p] = Absent => ~ReusableByIdentity(scan[p])}

\* select_initial_publish_cohort: small files first, within both limits, at least one.
Cohort(scan) ==
    LET size(p) == SizeOf[scan[p]]
        order == SetToSortSeq({p \in Paths : scan[p] # Absent}, LAMBDA p, q : size(p) < size(q))
        add(chosen, p) ==
            IF Cardinality(chosen) < CohortFiles
               /\ (chosen = {} \/ MapThenSumSet(size, chosen \union {p}) <= CohortBytes)
            THEN chosen \union {p} ELSE chosen
    IN FoldLeft(add, {}, order)

\* The planned reuse: paths are registered, and a moved file's identity is cached.
Plan(scan) ==
    LET reused == {p \in Paths : scan[p] # Absent /\ failure[p] # scan[p]} \ ToHash(scan)
    IN /\ shared' = [p \in Paths |-> IF p \in reused THEN Entry(HashOf[scan[p]], scan[p])
                                     ELSE shared[p]]
       /\ instance' = [p \in Paths |-> IF p \in reused THEN scan[p] ELSE instance[p]]
       /\ UNCHANGED <<member, accessible, session>>

\* The task takes the request; an empty catalog is seeded from a small cohort first.
JobStart ==
    /\ job.phase = "start"
    /\ pending' = FALSE
    /\ LET cohort == Cohort(Scan)
           scan == [p \in Paths |-> IF p \in cohort THEN Scan[p] ELSE Absent]
       IN IF catalog = {} /\ cohort # {}
          THEN /\ Plan(scan)
               /\ job' = [NoJob EXCEPT !.phase = "seed", !.scan = scan, !.todo = ToHash(scan)]
          ELSE /\ job' = [NoJob EXCEPT !.phase = "scan"]
               /\ UNCHANGED <<shared, store>>
    /\ UNCHANGED <<disk, up, failure, catalog, ingress, consumer, running, owed, asking, leaving,
                   health, recovery, skipped, stale, bounds>>

\* The walk of every root; a root that is not there is withdrawn at once.
JobScan ==
    /\ job.phase = "scan"
    /\ LET here == {r \in Roots : up[r]} IN
       /\ job' = [NoJob EXCEPT !.phase = "plan", !.scan = Scan, !.roots = here]
       /\ accessible' = [r \in Roots |-> accessible[r] /\ r \in here]
       /\ member' = WithdrawRoots(Roots \ here, member)
    /\ owed' = FALSE
    /\ UNCHANGED <<disk, up, instance, session, failure, shared, catalog, ingress, consumer,
                   running, pending, asking, leaving, health, recovery, skipped, stale, bounds>>

JobPlan ==
    /\ job.phase = "plan"
    /\ Plan(job.scan)
    /\ job' = [job EXCEPT !.phase = "hash", !.todo = ToHash(job.scan)]
    /\ UNCHANGED <<disk, up, failure, catalog, ingress, consumer, running, pending, owed, asking,
                   leaving, health, recovery, skipped, stale, bounds>>

\* One sequential worker per disk.
JobOpens(p) ==
    /\ job.phase \in {"seed", "hash"} /\ p \in job.todo
    /\ \A q \in job.open : DiskOf[q] # DiskOf[p]
    /\ job' = [job EXCEPT !.todo = @ \ {p}, !.open = @ \union {p}, !.read[p] = Found(p)]
    /\ UNCHANGED <<disk, up, store, failure, shared, catalog, ingress, consumer, running, pending,
                   owed, asking, leaving, health, recovery, skipped, stale, bounds>>

\* The path is registered with the fingerprint of the scan; a failure is remembered.
JobHashes(p) ==
    /\ p \in job.open
    /\ job' = [job EXCEPT !.open = @ \ {p}, !.read[p] = Absent]
    /\ \/ /\ Ingests(p, job.read[p])
          /\ instance' = Verified(p, job.read[p])
          /\ shared' = [shared EXCEPT ![p] = Entry(HashOf[job.read[p]], job.scan[p])]
          /\ UNCHANGED <<failure, skipped, faults>>
       \/ /\ IngestFails(p, job.read[p])
          /\ failure' = [failure EXCEPT ![p] = job.scan[p]]
          /\ UNCHANGED <<instance, shared>>
    /\ UNCHANGED <<disk, up, member, accessible, session, catalog, ingress, consumer, running,
                   pending, owed, asking, leaving, health, recovery, stale, changes, flips, requests>>

Hashed == job.todo = {} /\ job.open = {}

\* Each file of the cohort is admitted on its own.
JobSeeded ==
    /\ job.phase = "seed" /\ Hashed
    /\ LET ready == {p \in Paths : job.scan[p] # Absent /\ Admits(p, job.scan[p], instance)}
           mem == [p \in Paths |-> IF p \in ready THEN "in" ELSE member[p]]
           Now(h) == h \in Refreshed({}, h, instance, mem, accessible)
       IN /\ member' = mem
          /\ catalog' = catalog \union {h \in {HashOf[instance[p]] : p \in ready} : Now(h)}
          /\ session' = [p \in Paths |-> IF p \in ready THEN instance[p] ELSE session[p]]
    /\ job' = [NoJob EXCEPT !.phase = "scan"]
    /\ UNCHANGED <<disk, up, instance, accessible, failure, shared, ingress, consumer, running,
                   pending, owed, asking, leaving, health, recovery, skipped, stale, bounds>>

\* admit_scanned_roots: the scan decides the members of every root it walked.
JobAdmits ==
    /\ job.phase = "hash" /\ Hashed
    /\ member' = ReplaceRoots(job.roots, job.scan, member)
    /\ accessible' = [r \in Roots |-> accessible[r] \/ r \in job.roots]
    /\ session' = [p \in Paths |-> IF RootOf[p] \in job.roots /\ member'[p] = "in"
                                   THEN instance[p] ELSE session[p]]
    /\ rejoin' = [r \in Roots |-> IF r \in job.roots /\ rejoin[r] = "armed" THEN "scanned"
                                  ELSE rejoin[r]]
    /\ stale' = [stale EXCEPT !.paths = {p \in Paths :
                   /\ shared[p] # Absent
                   /\ \/ member'[p] # "in"
                      \/ Found(p) # shared[p].fp}]
    /\ job' = [NoJob EXCEPT !.phase = "rebuild"]
    /\ UNCHANGED <<disk, up, instance, failure, shared, catalog, ingress, consumer, running,
                   pending, owed, asking, leaving, seen, recovery, skipped, bounds>>

\* refresh_complete_shared_catalog: the offers are read from the store, then swapped in.
Offers(mem, acc) == {h \in Hashes : PresentSources(h, instance, mem, acc) # {}}

JobRebuilds ==
    /\ job.phase = "rebuild"
    /\ job' = [job EXCEPT !.phase = "write", !.offers = Offers(member, accessible)]
    /\ UNCHANGED <<disk, up, store, failure, shared, catalog, ingress, consumer, running, pending,
                   owed, asking, leaving, health, recovery, skipped, stale, bounds>>

JobWrites ==
    /\ job.phase = "write"
    /\ catalog' = job.offers
    /\ stale' = [stale EXCEPT !.hashes =
                   {h \in Hashes : (h \in job.offers) # (h \in Offers(member, accessible))}]
    /\ job' = [NoJob EXCEPT !.phase = "check"]
    /\ UNCHANGED <<disk, up, store, failure, shared, ingress, consumer, running, pending, owed,
                   asking, leaving, health, recovery, skipped, bounds>>

\* No request since: the flag is given up, and the request looked for once more.
JobChecks ==
    /\ job.phase = "check"
    /\ IF pending
       THEN job' = [NoJob EXCEPT !.phase = "start"] /\ UNCHANGED <<running, leaving>>
       ELSE job' = NoJob /\ running' = FALSE /\ leaving' = leaving + 1
    /\ UNCHANGED <<disk, up, store, failure, shared, catalog, ingress, consumer, pending, owed,
                   asking, health, recovery, skipped, stale, bounds>>

JobLeaves ==
    /\ leaving > 0 /\ leaving' = leaving - 1
    /\ IF pending /\ ~running
       THEN running' = TRUE /\ job' = [NoJob EXCEPT !.phase = "start"]
       ELSE UNCHANGED <<running, job>>
    /\ UNCHANGED <<disk, up, store, failure, shared, catalog, ingress, consumer, pending, owed,
                   asking, health, recovery, skipped, stale, bounds>>

-----------------------------------------------------------------------------
(* The consumer: one action after the other. *)

RunConsumer ==
    /\ consumer.step = "idle" /\ queue # <<>>
    /\ queue' = <<>> /\ latch' = FALSE
    /\ consumer' = [Idle EXCEPT !.step = "next",
                                !.todo = IF latch THEN <<ToReconcile>> ELSE Coalesce(queue)]
    /\ UNCHANGED <<disk, up, store, failure, shared, catalog, events, reload, health,
                   recovery, skipped, stale, bounds>>

\* The action is over.
Advance == consumer' = IF Len(consumer.todo) > 1
                       THEN [Idle EXCEPT !.step = "next", !.todo = Tail(consumer.todo)]
                       ELSE Idle

Applying(op) == consumer.step = "next" /\ consumer.todo[1].op = op

\* auto_unshare_monitored_path: a path the map does not know is a no-op.
Unshare(p) ==
    IF shared[p] = Absent THEN UNCHANGED <<shared, store, catalog>>
    ELSE LET mem == Withdraw(p, member) IN
         /\ shared' = [shared EXCEPT ![p] = Absent]
         /\ member' = mem
         /\ catalog' = Refreshed(catalog, shared[p].hash, instance, mem, accessible)
         /\ session' = Marked(session, shared[p].hash, instance, mem, accessible)
         /\ UNCHANGED <<instance, accessible>>

ApplyRemove ==
    /\ Applying("remove") /\ Unshare(consumer.todo[1].path) /\ Advance
    /\ UNCHANGED <<disk, up, failure, ingress, reload, health, recovery, skipped, stale, bounds>>

\* auto_relocate_monitored_path once the destination has the old path's fingerprint.
Relocate(p, q) ==
    LET f == shared[p].fp  h == shared[p].hash
        inst == Cached(q, f)
        mem == Withdraw(p, Admit(q, f, inst, member))
    IN /\ instance' = inst /\ member' = mem
       /\ shared' = IF Admits(q, f, inst)
                    THEN [shared EXCEPT ![p] = Absent, ![q] = Entry(h, f)]
                    ELSE [shared EXCEPT ![p] = Absent]
       /\ catalog' = Refreshed(catalog, h, inst, mem, accessible)
       /\ session' = Marked(session, h, inst, mem, accessible)
       /\ UNCHANGED accessible

\* The path will be hashed; fp is what the stat before it saw.
StartHash(p) == consumer' = [consumer EXCEPT !.step = "open", !.path = p, !.fp = Found(p)]

\* Paths the map knows with this very file that are gone from disk.
Vanished(p, f) == {q \in Paths \ {p} : /\ shared[q] # Absent /\ shared[q].fp = f
                                       /\ Found(q) = Absent}

\* auto_share_monitored_path up to the hash.
ShareStat(p) ==
    \/ Found(p) = Absent /\ Unshare(p) /\ Advance
    \/ /\ Found(p) # Absent /\ shared[p] # Absent /\ shared[p].fp = Found(p)
       /\ Advance /\ UNCHANGED <<shared, store, catalog>>
    \/ /\ Found(p) # Absent /\ ~(shared[p] # Absent /\ shared[p].fp = Found(p))
       /\ \/ /\ Found(p) \notin Ignored
             /\ \E q \in Vanished(p, Found(p)) : Relocate(q, p)
             /\ IF member'[p] = "never" THEN StartHash(p) ELSE Advance
          \/ /\ Vanished(p, Found(p)) = {} \/ Found(p) \in Ignored
             /\ StartHash(p) /\ UNCHANGED <<shared, store, catalog>>

ApplyShare ==
    /\ Applying("share") /\ ShareStat(consumer.todo[1].path)
    /\ UNCHANGED <<disk, up, failure, ingress, reload, health, recovery, skipped, stale, bounds>>

ApplyRename ==
    /\ Applying("rename")
    /\ LET p == consumer.todo[1].path  q == consumer.todo[1].to IN
       \/ shared[p] = Absent /\ ShareStat(q)
       \/ /\ shared[p] # Absent /\ Found(q) \in Ignored \union {Absent}
          /\ Unshare(p) /\ Advance
       \/ /\ shared[p] # Absent /\ Found(q) \notin Ignored \union {Absent, shared[p].fp}
          /\ Unshare(p) /\ StartHash(q)
       \/ /\ shared[p] # Absent /\ Found(q) \notin Ignored \union {Absent}
          /\ shared[p].fp = Found(q)
          /\ Relocate(p, q) /\ Advance
    /\ UNCHANGED <<disk, up, failure, ingress, reload, health, recovery, skipped, stale, bounds>>

\* The file is opened without following links; what is read is what is there now.
HashOpens ==
    /\ consumer.step = "open"
    /\ consumer' = [consumer EXCEPT !.step = "hash", !.read = Found(consumer.path)]
    /\ UNCHANGED <<disk, up, store, failure, shared, catalog, ingress, reload, health,
                   recovery, skipped, stale, bounds>>

\* The ingest ends: the verified content is stored and the path registered.
HashEnds ==
    /\ consumer.step = "hash"
    /\ LET p == consumer.path IN
       \/ /\ Ingests(p, consumer.read)
          /\ instance' = Verified(p, consumer.read)
          /\ shared' = [shared EXCEPT ![p] = Entry(HashOf[consumer.read], consumer.fp)]
          /\ consumer' = [consumer EXCEPT !.step = "admit", !.old = shared[p]]
          /\ UNCHANGED <<skipped, faults>>
       \/ /\ IngestFails(p, consumer.read)
          /\ Advance /\ UNCHANGED <<instance, shared>>
    /\ UNCHANGED <<disk, up, member, accessible, session, failure, catalog, ingress, reload,
                   health, recovery, stale, changes, flips, requests>>

\* Membership and offer; then the hash's vanished other paths, and the hash replaced.
AdmitHashed ==
    /\ consumer.step = "admit"
    /\ LET p == consumer.path  f == consumer.fp  h == HashOf[consumer.read]
           admitted == Admits(p, f, instance)
           aliases == {q \in Paths \ {p} : /\ admitted /\ shared[q] # Absent
                                           /\ shared[q].hash = h /\ Found(q) = Absent}
           map == [q \in Paths |-> IF q \in aliases THEN Absent ELSE shared[q]]
           mem == [q \in Paths |-> IF q \in aliases THEN Withdraw(q, member)[q]
                                   ELSE Admit(p, f, instance, member)[q]]
           cat == IF admitted THEN Refreshed(catalog, h, instance, mem, accessible) ELSE catalog
           replaced == /\ consumer.old # Absent
                       /\ \A q \in Paths : map[q] # Absent => map[q].hash # consumer.old.hash
       IN /\ shared' = map /\ member' = mem
          /\ catalog' = IF replaced
                        THEN Refreshed(cat, consumer.old.hash, instance, mem, accessible)
                        ELSE cat
          /\ session' = IF admitted THEN [session EXCEPT ![p] = f] ELSE session
    /\ Advance
    /\ UNCHANGED <<disk, up, instance, accessible, failure, ingress, reload, health, recovery,
                   skipped, stale, bounds>>

\* A reconciliation asks for a reload and keeps the consumer behind it.
ApplyReconcile ==
    /\ Applying("reconcile") /\ AskReload
    /\ consumer' = [consumer EXCEPT !.step = "wait"]
    /\ UNCHANGED <<disk, up, store, failure, shared, catalog, ingress, health, recovery,
                   skipped, stale, bounds>>

Reconciled ==
    /\ consumer.step = "wait" /\ ~running /\ ~pending
    /\ Advance
    /\ UNCHANGED <<disk, up, store, failure, shared, catalog, ingress, reload, health,
                   recovery, skipped, stale, bounds>>

-----------------------------------------------------------------------------
(* Root health, and recovery from a source that an upload found changed. *)

HealthTick ==
    LET changed == {r \in Roots : seen[r] # up[r]}
        missing == {r \in Roots : ~up[r]}
        back == {r \in changed : up[r]}
        withdrawn == \E r \in missing : accessible[r] \/ \E p \in Paths : RootOf[p] = r /\ member[p] = "in"
        acc == [r \in Roots |-> accessible[r] /\ r \notin missing]
        mem == WithdrawRoots(missing, member)
        armed == [r \in Roots |-> IF r \in back THEN "armed"
                                  ELSE IF r \in missing THEN "no" ELSE rejoin[r]]
        left == [r \in Roots |-> IF ~running /\ armed[r] = "scanned" THEN "no" ELSE armed[r]]
    IN /\ changed # {} \/ withdrawn \/ \E r \in Roots : rejoin[r] # "no"
       /\ accessible' = acc /\ member' = mem
       /\ catalog' = IF withdrawn THEN Offers(mem, acc) ELSE catalog
       /\ rejoin' = left /\ seen' = up
       /\ IF back # {} \/ (~running /\ \E r \in Roots : left[r] # "no")
          THEN asking = 0 /\ AskReload ELSE UNCHANGED reload
       /\ UNCHANGED <<disk, up, instance, session, failure, shared, ingress, consumer, recovery,
                      skipped, stale, bounds>>

\* An upload opens the remembered path and finds another file there, or none.
WithdrawUntrusted(p) ==
    /\ Active(p, member, accessible) /\ instance[p] # Absent /\ Found(p) # instance[p]
    /\ LET h == HashOf[instance[p]]  mem == Withdraw(p, member)
           report == [path |-> p, hash |-> h]
       IN /\ member' = mem
          /\ catalog' = IF Remembered(h, instance, mem, accessible) THEN catalog ELSE catalog \ {h}
          /\ invalid' = IF report \in Range(invalid) \/ (rehash.path = p /\ rehash.hash = h)
                        THEN invalid ELSE Append(invalid, report)
    /\ UNCHANGED <<disk, up, instance, accessible, session, failure, shared, ingress, consumer,
                   reload, health, rehash, skipped, stale, bounds>>

RehashTake ==
    /\ rehash = NoRehash /\ invalid # <<>>
    /\ rehash' = [NoRehash EXCEPT !.path = invalid[1].path, !.hash = invalid[1].hash, !.tries = 1]
    /\ invalid' = Tail(invalid)
    /\ UNCHANGED <<disk, up, store, failure, shared, catalog, ingress, consumer, reload, health,
                   skipped, stale, bounds>>

\* stale_hash_is_still_present
StillPresent(h, map, inst, mem) ==
    \/ \E q \in Paths : map[q] # Absent /\ map[q].hash = h
    \/ Remembered(h, inst, mem, accessible)

\* The path is gone or excluded: the membership and the map entry of that hash go.
RehashUnavailable ==
    /\ rehash.path # Absent /\ rehash.read = Absent
    /\ LET p == rehash.path  h == rehash.hash  mem == Withdraw(p, member)
           map == IF shared[p] # Absent /\ shared[p].hash = h
                  THEN [shared EXCEPT ![p] = Absent] ELSE shared
       IN /\ Found(p) \in Ignored \union {Absent}
          /\ member' = mem /\ shared' = map
          /\ catalog' = IF StillPresent(h, map, instance, mem) THEN catalog
                        ELSE Refreshed(catalog, h, instance, mem, accessible)
    /\ rehash' = NoRehash
    /\ UNCHANGED <<disk, up, instance, accessible, session, failure, ingress, consumer, reload,
                   health, invalid, skipped, stale, bounds>>

RehashOpens ==
    /\ rehash.path # Absent /\ rehash.read = Absent
    /\ Found(rehash.path) \notin Ignored \union {Absent}
    /\ rehash' = [rehash EXCEPT !.fp = Found(rehash.path), !.read = Found(rehash.path)]
    /\ UNCHANGED <<disk, up, store, failure, shared, catalog, ingress, consumer, reload, health,
                   invalid, skipped, stale, bounds>>

\* reconcile_invalidated_shared_source, with a bounded number of attempts.
RehashEnds ==
    /\ rehash.read # Absent
    /\ LET p == rehash.path  f == rehash.read  h == HashOf[f] IN
       \/ /\ Ingests(p, f)
          /\ LET inst == Verified(p, f)
                 map == [shared EXCEPT ![p] = Entry(h, rehash.fp)]
                 mem == Admit(p, rehash.fp, inst, member)
                 old == {rehash.hash} \union (IF shared[p] = Absent THEN {} ELSE {shared[p].hash})
                 gone == {g \in old \ {h} : ~StillPresent(g, map, inst, mem)}
                 cat == IF ~Admits(p, rehash.fp, inst) THEN catalog
                        ELSE Refreshed(catalog, h, inst, mem, accessible)
             IN /\ instance' = inst /\ shared' = map /\ member' = mem
                /\ catalog' = cat \ gone
                /\ session' = IF Admits(p, rehash.fp, inst) THEN [session EXCEPT ![p] = f] ELSE session
          /\ rehash' = NoRehash
          /\ UNCHANGED <<skipped, faults>>
       \/ /\ IngestFails(p, f)
          /\ rehash' = IF rehash.tries < MaxAttempts
                       THEN [rehash EXCEPT !.tries = @ + 1, !.fp = Absent, !.read = Absent]
                       ELSE NoRehash
          /\ UNCHANGED <<store, shared, catalog>>
    /\ UNCHANGED <<disk, up, accessible, failure, ingress, consumer, reload, health, invalid,
                   stale, changes, flips, requests>>

\* The roots are edited: the watcher and its workers are torn down and started again,
\* a source being rehashed is queued again, and a reload is asked for.
RestartMonitor ==
    /\ requests < MaxRequests /\ requests' = requests + 1
    /\ consumer' = Idle /\ queue' = <<>> /\ events' = <<>> /\ latch' = FALSE
    /\ invalid' = IF rehash = NoRehash THEN invalid
                  ELSE <<[path |-> rehash.path, hash |-> rehash.hash]>> \o invalid
    /\ rehash' = NoRehash
    /\ seen' = up /\ rejoin' = [r \in Roots |-> "no"]
    /\ AskReload
    /\ UNCHANGED <<disk, up, store, failure, shared, catalog, skipped, stale, changes, flips,
                   faults>>

-----------------------------------------------------------------------------
Watcher ==
    \/ TrySendActions \/ RunConsumer
    \/ ApplyRemove \/ ApplyShare \/ ApplyRename \/ ApplyReconcile \/ Reconciled
    \/ HashOpens \/ HashEnds \/ AdmitHashed
Reloading ==
    \/ AskSwaps \/ JobStart \/ JobScan \/ JobPlan
    \/ \E p \in Paths : JobOpens(p) \/ JobHashes(p)
    \/ JobSeeded \/ JobAdmits \/ JobRebuilds \/ JobWrites \/ JobChecks \/ JobLeaves
Recovery == RehashTake \/ RehashUnavailable \/ RehashOpens \/ RehashEnds
Environment ==
    \/ \E p \in Paths, f \in Files : WriteFile(p, f)
    \/ \E p \in Paths : RemoveFile(p) \/ WithdrawUntrusted(p)
    \/ \E p, q \in Paths : RenameFile(p, q)
    \/ \E r \in Roots : FlipRoot(r)
    \/ RequestReload \/ RestartMonitor

Next == Watcher \/ Reloading \/ HealthTick \/ Recovery \/ Environment

Spec == Init /\ [][Next]_vars

-----------------------------------------------------------------------------
(* Properties. *)

\* Every task has done what it had to do.
Quiet ==
    /\ events = <<>> /\ queue = <<>> /\ consumer = Idle
    /\ ~running /\ ~pending /\ asking = 0 /\ leaving = 0
    /\ seen = up /\ \A r \in Roots : rejoin[r] = "no"
    /\ invalid = <<>> /\ rehash = NoRehash

Wanted(p) == Found(p) \notin Ignored \union {Absent}

\* Once the watcher, the reload and the workers are done, every readable file under a
\* mounted root is on offer: no interleaving of events, overflow, restart and reload
\* loses the final intent for a path.  Left out: a file whose hashing failed, and what
\* forgiven names.
OfferedWhenQuiet(forgiven) ==
    Quiet => \A p \in Paths \ (skipped \union forgiven.paths) :
                Wanted(p) /\ failure[p] # Found(p) =>
                    HashOf[Found(p)] \in catalog \union forgiven.hashes

\* And nothing else is: an offer whose file is gone has been taken back.
PresentWhenQuiet(forgiven) ==
    Quiet => \A h \in catalog \ forgiven.hashes : \E p \in Paths :
                \/ Found(p) # Absent /\ HashOf[Found(p)] = h
                \/ p \in skipped /\ instance[p] # Absent /\ HashOf[instance[p]] = h
                \/ p \in forgiven.paths /\ shared[p] # Absent /\ shared[p].hash = h

\* The catalog follows the disk, but for what the reload leaves behind: it writes offers
\* it read before a change, and it keeps the map entries of files it has not admitted.
CatalogFollowsDisk == OfferedWhenQuiet(stale) /\ PresentWhenQuiet(stale)

\* The same with nothing forgiven.
FinalIntentKept == OfferedWhenQuiet([paths |-> {}, hashes |-> {}])

\* The two flags lose no request and start no second task: while a request has not been
\* scanned for, someone still holds the duty to do so, and the running flag is set
\* exactly while one task is in its loop.
ReloadDutyHeld ==
    /\ owed => running \/ asking > 0 \/ leaving > 0
    /\ (job.phase # "none") <=> running
    /\ owed /\ ~pending => job.phase \in {"seed", "scan"}

TypeOK ==
    /\ disk \in [Paths -> Files \union {Absent}]
    /\ instance \in [Paths -> Files \union {Absent}]
    /\ member \in [Paths -> {"never", "in", "out"}]
    /\ \A p \in Paths : shared[p] # Absent => shared[p].hash \in Hashes
    /\ catalog \subseteq Hashes
    /\ Len(queue) <= Capacity
====
