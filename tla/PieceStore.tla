----------------------------- MODULE PieceStore -----------------------------
(***************************************************************************)
(* The payload of one download and the manifest that says what of it is    *)
(* good: block appends, out-of-order blocks, AICH and ICH salvage, batched *)
(* checkpoints, the whole-file rehash that stands before completion, the   *)
(* operator's recheck, power loss and startup reconciliation.              *)
(*                                                                         *)
(* Of the payload only this is kept: which fragments hold the right bytes, *)
(* as any reader sees them (disk) and as they would survive a power loss   *)
(* (synced), and how long the file is.  An MD4 or SHA-1 comparison         *)
(* succeeds exactly on right bytes; the part hashes are taken as already   *)
(* acquired.                                                               *)
(*                                                                         *)
(* The per-file manifest mutex is held from a payload write to the store   *)
(* that follows it, and nowhere else for longer than one action; the       *)
(* lifecycle mutex is held for a whole rehash.                             *)
(***************************************************************************)
EXTENDS PieceState, FiniteSetsExt

CONSTANTS
    Sessions,       \* download sessions that receive blocks
    Operator,       \* the task that serves an operator's recheck
    Driver,         \* the task that drives the transfer's attempts
    Budget          \* how many bad blocks, crashes, failed stores, rechecks

FileLen == NumParts * PartLen
Tasks == Sessions \cup {Operator, Driver}

PieceStoreAssumption ==
    /\ Budget \in [bad : Nat, crash : Nat, fail : Nat, recheck : Nat]
    /\ Operator \notin Sessions /\ Driver \notin Sessions \cup {Operator}

VARIABLES
    disk,           \* the right fragments of each part, as readers see them
    synced,         \* the right fragments that a power loss cannot take
    len,            \* payload length as readers see it, and as synced
    mem,            \* the cached manifest
    db,             \* the manifest rows in SQLite
    dirty,          \* dirty_piece_indexes: appends cached and not persisted
    pc, job,        \* each task's place in its call, and the block it brings
    draft, rows,    \* the manifest a row checkpoint stores; rows not yet done
    rehash,         \* the final rehash under the lifecycle lock
    recheck,        \* the operator's recheck of an incomplete download
    sought,         \* parts each session asked AICH recovery data for
    up, budget

payload == <<disk, synced, len>>
manifests == <<mem, db, dirty, draft, rows>>
hashing == <<rehash, recheck>>
vars == <<payload, manifests, pc, job, hashing, sought, up, budget>>

-----------------------------------------------------------------------------
ManifestType == [pieces : [Parts -> PieceType], completed : BOOLEAN,
                 final_rehash_pending : BOOLEAN]

IsVerified(m, p) == m.pieces[p].state = "Verified"
IsFullyVerified(m) == \A p \in Parts : IsVerified(m, p)

(* mark_final_rehash_pending()                                             *)
MarkFinalRehashPending(m) ==
    [m EXCEPT !.final_rehash_pending = ~m.completed /\ IsFullyVerified(m)]

Md4Matches(p) == disk[p] = Fragments

-----------------------------------------------------------------------------
(* What a call's locals are when no call is under way.                     *)
NoDraft == [pieces |-> [p \in Parts |-> Empty], completed |-> FALSE,
            final_rehash_pending |-> FALSE]
NoJob == [part |-> 0, from |-> 0, to |-> 0, good |-> TRUE]
NoHash == [clean |-> TRUE, damaged |-> {}]
NoRecheck == [clean |-> TRUE, damaged |-> {}, pieces |-> NoDraft.pieces]

Init ==
    /\ disk = [p \in Parts |-> {}] /\ synced = disk
    /\ len = [seen |-> 0, synced |-> 0]
    /\ mem = NoDraft
    /\ db = mem /\ draft = NoDraft /\ dirty = {} /\ rows = {}
    /\ pc = [t \in Tasks |-> "idle"] /\ job = [s \in Sessions |-> NoJob]
    /\ rehash = NoHash /\ recheck = NoRecheck
    /\ sought = [s \in Sessions |-> {}]
    /\ up = TRUE /\ budget = Budget

Goto(t, place) == pc' = [pc EXCEPT ![t] = place]
Leave(s, place) == Goto(s, place) /\ job' = [job EXCEPT ![s] = NoJob]

(* What holds the manifest mutex, and what the lifecycle mutex.            *)
Writing == {"prefix", "bitmap", "salvage"}
ManifestLocked == \E t \in Tasks : pc[t] \in Writing \cup {"rows"}
LifecycleLocked == \E t \in Tasks : pc[t] \in {"hashing", "hashed"}

(* A write shows at once to readers and to a hash that is running, whose   *)
(* fingerprint check will see it.                                          *)
WritePayload(j) ==
    /\ disk' = [disk EXCEPT ![j.part] = IF j.good THEN @ \cup (j.from .. j.to - 1)
                                        ELSE @ \ (j.from .. j.to - 1)]
    /\ len' = [len EXCEPT !.seen = Max({@, j.part * PartLen + j.to})]
    /\ rehash' = [rehash EXCEPT !.clean = \A t \in Tasks : pc[t] # "hashing"]
    /\ recheck' = [recheck EXCEPT !.clean = pc[Operator] # "rechecking"]
    /\ UNCHANGED synced

(* Mutant: flush() where the code has sync_all().                          *)
FlushOnlyWhen(condition) == UNCHANGED <<synced, len>>

(* sync_all() reaches the whole file.                                      *)
SyncWhen(condition) ==
    IF condition THEN synced' = disk /\ len' = [len EXCEPT !.synced = len.seen]
    ELSE UNCHANGED <<synced, len>>

(* store_manifest_unlocked(): one transaction, then the cache.             *)
StoreManifest(m) == mem' = m /\ db' = m /\ dirty' = {} /\ UNCHANGED <<draft, rows>>

-----------------------------------------------------------------------------
(* A block reaches a session.                                              *)

(* A session that starts asks recovery data for the parts the manifest     *)
(* flags, initial_aich_recovery_parts().                                   *)
Reconnect(s) ==
    /\ up /\ pc[s] = "idle" /\ ~ManifestLocked
    /\ sought' = [sought EXCEPT ![s] = {p \in Parts : mem.pieces[p].ich_corrupted}]
    /\ UNCHANGED <<payload, manifests, pc, job, hashing, up, budget>>

(* An error ends the session.                                              *)
Disconnect(s) == Leave(s, "idle") /\ sought' = [sought EXCEPT ![s] = {}]

Bring(s, p, from, to, good) ==
    /\ up /\ pc[s] = "idle"
    /\ good \/ budget.bad > 0
    /\ budget' = [budget EXCEPT !.bad = IF good THEN @ ELSE @ - 1]
    /\ job' = [job EXCEPT ![s] = [part |-> p, from |-> from, to |-> to, good |-> good]]

(* append_or_salvage_block_with_manifest(): the probe of the bitmap, under *)
(* the manifest mutex, which is given up before the write.                 *)
RouteBlock(s, p, from, good) ==
    /\ ~ManifestLocked
    /\ Bring(s, p, from, (from \div Frag + 1) * Frag, good)
    /\ Goto(s, IF mem.pieces[p].block_bitmap # {} THEN "toSalvage" ELSE "toAppend")
    /\ UNCHANGED <<payload, manifests, hashing, sought, up>>

(* flush_buffered_download_prefixes(): what a closing session holds of an  *)
(* unfinished request goes straight to the append.                         *)
FlushPrefix(s, p, from, to, good) ==
    /\ to \div Frag = from \div Frag
    /\ Bring(s, p, from, to, good)
    /\ Goto(s, "toAppend")
    /\ UNCHANGED <<payload, manifests, hashing, sought, up>>

(* append_piece_block_inner(): the next fragments of the prefix, or one    *)
(* whole requested block that is not there yet; a duplicate is dropped and *)
(* anything else is an error.                                              *)
AppendBlock(s) ==
    LET j == job[s]
        piece == mem.pieces[j.part]
        contiguous == piece.block_bitmap = {} /\ j.from = piece.bytes_written
        missing == j.from \div Frag \notin ResolveBlockBitmap(piece)
    IN  /\ pc[s] = "toAppend" /\ ~ManifestLocked
        /\ \/ /\ contiguous
              /\ WritePayload(j) /\ Goto(s, "prefix") /\ UNCHANGED <<job, sought>>
           \/ /\ ~contiguous /\ IsBlock(j.from, j.to) /\ missing
              /\ WritePayload(j) /\ Goto(s, "bitmap") /\ UNCHANGED <<job, sought>>
           \/ /\ ~contiguous /\ IsBlock(j.from, j.to) /\ ~missing
              /\ Leave(s, "idle") /\ UNCHANGED <<payload, hashing, sought>>
           \/ /\ ~contiguous /\ ~IsBlock(j.from, j.to)
              /\ Disconnect(s) /\ UNCHANGED <<payload, hashing>>
        /\ UNCHANGED <<manifests, up, budget>>

(* write_salvage_block(): any whole block of the part, present or not.     *)
SalvageBlock(s) ==
    /\ pc[s] = "toSalvage" /\ ~ManifestLocked
    /\ \/ /\ IsBlock(job[s].from, job[s].to) /\ WritePayload(job[s])
          /\ Goto(s, "salvage") /\ UNCHANGED <<job, sought>>
       \/ /\ ~IsBlock(job[s].from, job[s].to)
          /\ Disconnect(s) /\ UNCHANGED <<payload, hashing>>
    /\ UNCHANGED <<manifests, up, budget>>

-----------------------------------------------------------------------------
(* The rest of the same call, with the manifest mutex still held.          *)

NewBitmap(s) == ResolveBlockBitmap(mem.pieces[job[s].part]) \cup {job[s].from \div Frag}

(* Whether the write filled the part, which makes the call sync and check. *)
Completes(s) ==
    IF pc[s] = "prefix" THEN job[s].to = PartLen ELSE NewBitmap(s) = Blocks

Progressed(s) ==
    LET piece == [mem.pieces[job[s].part] EXCEPT !.state = "Missing"]
    IN  IF pc[s] = "prefix" THEN [piece EXCEPT !.bytes_written = job[s].to]
        ELSE ApplyBlockBitmap(piece, NewBitmap(s))

(* ich_try_rehash_part_unlocked() after a write into a corrupted part.     *)
IchSalvages(s) ==
    /\ ~Completes(s)
    /\ Progressed(s).ich_corrupted
    /\ Md4Matches(job[s].part)

SettledPiece(s) ==
    IF Completes(s)
    THEN IF Md4Matches(job[s].part) THEN VerifiedPiece ELSE Gapped(TRUE)
    ELSE IF IchSalvages(s) THEN VerifiedPiece ELSE Progressed(s)

Settled(s) ==
    LET m == [mem EXCEPT !.pieces[job[s].part] = SettledPiece(s)]
    IN  IF pc[s] = "prefix" /\ ~Completes(s) /\ ~IchSalvages(s) THEN m
        ELSE MarkFinalRehashPending(m)

(* A state transition is stored whole and at once; a salvage write always. *)
Transition(s) == Completes(s) \/ IchSalvages(s) \/ pc[s] = "salvage"

(* VerificationFailed asks for recovery data; an ICH salvage withdraws it. *)
NoteOutcome(s) ==
    sought' = [sought EXCEPT ![s] =
        IF Completes(s) /\ ~Md4Matches(job[s].part) THEN @ \cup {job[s].part}
        ELSE IF IchSalvages(s) THEN @ \ {job[s].part} ELSE @]

StoreTransition(s) ==
    /\ pc[s] \in Writing /\ Transition(s)
    /\ SyncWhen(Completes(s) \/ IchSalvages(s))
    /\ StoreManifest(Settled(s))
    /\ NoteOutcome(s)
    /\ Leave(s, IF Settled(s).final_rehash_pending THEN "toFinalize" ELSE "idle")
    /\ UNCHANGED <<disk, hashing, up, budget>>

(* Between checkpoints progress is only cached and the part noted dirty.   *)
CacheProgress(s) ==
    /\ pc[s] \in Writing /\ ~Transition(s)
    /\ mem' = Settled(s) /\ dirty' = dirty \cup {job[s].part}
    /\ Leave(s, "idle")
    /\ UNCHANGED <<payload, db, draft, rows, hashing, sought, up, budget>>

(* A checkpoint that is due: this part's row and every dirty one.          *)
CheckpointProgress(s) ==
    /\ pc[s] \in Writing /\ ~Transition(s)
    /\ draft' = Settled(s) /\ rows' = dirty \cup {job[s].part}
    /\ Leave(s, "rows")
    /\ UNCHANGED <<payload, mem, db, dirty, hashing, sought, up, budget>>

(* Every row is a commit of its own; the cache and the dirty set follow    *)
(* the last one.                                                           *)
CommitRow(s) ==
    LET row == Min(rows)
    IN  /\ pc[s] = "rows"
        /\ db' = [db EXCEPT !.pieces[row] = draft.pieces[row]]
        /\ rows' = rows \ {row}
        /\ IF rows' = {}
           THEN mem' = draft /\ draft' = NoDraft /\ dirty' = {} /\ Goto(s, "idle")
           ELSE UNCHANGED <<mem, draft, dirty, pc>>
        /\ UNCHANGED <<payload, job, hashing, sought, up, budget>>

(* checkpoint_dirty_download_progress(), once the writers are quiet.       *)
CheckpointAtShutdown(s) ==
    /\ up /\ dirty # {} /\ \A t \in Tasks : pc[t] = "idle"
    /\ draft' = mem /\ rows' = dirty /\ Goto(s, "rows")
    /\ UNCHANGED <<payload, mem, db, dirty, job, hashing, sought, up, budget>>

(* A store that fails ends the call before the cache learns of the block.  *)
StoreFails(t) ==
    /\ pc[t] \in Writing \cup {"rows"} \/ (pc[t] = "hashed" /\ ~ManifestLocked)
    /\ budget.fail > 0
    /\ SyncWhen(pc[t] \in Writing /\ (Completes(t) \/ IchSalvages(t)))
    /\ rows' = {} /\ draft' = NoDraft
    /\ rehash' = IF pc[t] = "hashed" THEN NoHash ELSE rehash
    /\ Goto(t, "idle") /\ job' = [s \in Sessions |-> IF s = t THEN NoJob ELSE job[s]]
    /\ sought' = [s \in Sessions |-> IF s = t THEN {} ELSE sought[s]]
    /\ budget' = [budget EXCEPT !.fail = @ - 1]
    /\ UNCHANGED <<disk, mem, db, dirty, recheck, up>>

-----------------------------------------------------------------------------
(* begin_part_salvage(): recovery data tells the good blocks of a part     *)
(* that is not verified from the others.                                   *)
BeginPartSalvage(s, p) ==
    LET good == {b \in Blocks : BlockOf(b) \subseteq disk[p]}
    IN  /\ up /\ pc[s] = "idle" /\ p \in sought[s] /\ ~ManifestLocked
        /\ sought' = [sought EXCEPT ![s] = @ \ {p}]
        /\ IF ~IsVerified(mem, p) /\ len.seen >= (p + 1) * PartLen
           THEN StoreManifest([mem EXCEPT !.pieces[p] =
                                  [ApplyBlockBitmap(@, good) EXCEPT !.state = "Missing"]])
           ELSE UNCHANGED manifests
        /\ UNCHANGED <<payload, pc, job, hashing, up, budget>>

-----------------------------------------------------------------------------
(* The final rehash and the operator's recheck.                            *)

(* run_ed2k_download_attempt() finds the barrier set, as after a restart.  *)
DriveFinalize ==
    /\ up /\ pc[Driver] = "idle" /\ mem.final_rehash_pending
    /\ Goto(Driver, "toFinalize")
    /\ UNCHANGED <<payload, manifests, job, hashing, sought, up, budget>>

(* final_rehash() up to the hash: completion is withdrawn and the barrier  *)
(* persisted before a byte is read.                                        *)
HasWork(t) ==
    IF pc[t] = "toForce" THEN mem.completed \/ IsFullyVerified(mem)
    ELSE mem.final_rehash_pending

BeginFinalRehash(t) ==
    /\ pc[t] \in {"toFinalize", "toForce"} /\ ~ManifestLocked /\ ~LifecycleLocked
    /\ \/ ~HasWork(t) /\ Goto(t, "idle") /\ UNCHANGED <<manifests, rehash>>
       \/ /\ HasWork(t) /\ Goto(t, "hashing")
          /\ StoreManifest([mem EXCEPT !.completed = FALSE, !.final_rehash_pending = TRUE])
          /\ rehash' = NoHash
    /\ UNCHANGED <<payload, job, recheck, sought, up, budget>>

(* compute_final_rehash(), without the manifest mutex; a payload whose     *)
(* fingerprint moved meanwhile is an error and leaves the barrier set.     *)
ComputeFinalRehash(t) ==
    /\ pc[t] = "hashing"
    /\ \/ rehash.clean /\ Goto(t, "hashed")
          /\ rehash' = [rehash EXCEPT !.damaged = {p \in Parts : ~Md4Matches(p)}]
       \/ ~rehash.clean /\ Goto(t, "idle") /\ rehash' = NoHash
    /\ UNCHANGED <<payload, manifests, job, recheck, sought, up, budget>>

(* Mutant: completion leaves the barrier standing.                         *)
ConcludedBehindBarrier(m) ==
    [m EXCEPT !.completed = rehash.damaged = {}, !.final_rehash_pending = TRUE]

(* final_rehash() after the hash: nothing if the barrier has been lifted,  *)
(* else completion, or a gap for every damaged part.                       *)
Concluded(m) ==
    IF rehash.damaged = {}
    THEN [m EXCEPT !.completed = TRUE, !.final_rehash_pending = FALSE]
    ELSE [m EXCEPT !.completed = FALSE, !.final_rehash_pending = FALSE,
                   !.pieces = [p \in Parts |-> IF p \in rehash.damaged
                                               THEN Gapped(len.seen # 0) ELSE m.pieces[p]]]

(* Mutant: the barrier is not looked at again after the hash.              *)
ConcludeUnconditionally(t) ==
    /\ pc[t] = "hashed" /\ ~ManifestLocked
    /\ StoreManifest(Concluded(mem))
    /\ Goto(t, "idle") /\ rehash' = NoHash
    /\ UNCHANGED <<payload, job, recheck, sought, up, budget>>

ConcludeFinalRehash(t) ==
    /\ pc[t] = "hashed" /\ ~ManifestLocked
    /\ IF mem.final_rehash_pending THEN StoreManifest(Concluded(mem))
       ELSE UNCHANGED manifests
    /\ Goto(t, "idle") /\ rehash' = NoHash
    /\ UNCHANGED <<payload, job, recheck, sought, up, budget>>

(* final_recheck_transfer(): by what the manifest says now.                *)
OperatorRecheck ==
    /\ up /\ pc[Operator] = "idle" /\ budget.recheck > 0 /\ ~ManifestLocked
    /\ budget' = [budget EXCEPT !.recheck = @ - 1]
    /\ \/ /\ mem.completed \/ IsFullyVerified(mem)
          /\ Goto(Operator, "toForce") /\ UNCHANGED recheck
       \/ /\ ~mem.completed /\ ~IsFullyVerified(mem) /\ \E p \in Parts : IsVerified(mem, p)
          /\ Goto(Operator, "rechecking")
          /\ recheck' = [NoRecheck EXCEPT !.pieces = mem.pieces]
    /\ UNCHANGED <<payload, manifests, job, rehash, sought, up>>

(* recheck_verified_partial_pieces(): the hash, then under the mutex the   *)
(* demotion, unless a piece changed since the snapshot.                    *)
HashVerifiedPieces ==
    /\ pc[Operator] = "rechecking"
    /\ \/ /\ recheck.clean /\ Goto(Operator, "rechecked")
          /\ recheck' = [recheck EXCEPT !.damaged =
                 {p \in Parts : recheck.pieces[p].state = "Verified" /\ ~Md4Matches(p)}]
       \/ ~recheck.clean /\ Goto(Operator, "idle") /\ recheck' = NoRecheck
    /\ UNCHANGED <<payload, manifests, job, rehash, sought, up, budget>>

DemoteDamagedPieces ==
    /\ pc[Operator] = "rechecked" /\ ~ManifestLocked
    /\ IF mem.pieces = recheck.pieces /\ ~mem.completed /\ recheck.damaged # {}
       THEN StoreManifest([mem EXCEPT !.pieces = [p \in Parts |->
                IF p \in recheck.damaged THEN Gapped(len.seen >= (p + 1) * PartLen)
                ELSE mem.pieces[p]]])
       ELSE UNCHANGED manifests
    /\ Goto(Operator, "idle") /\ recheck' = NoRecheck
    /\ UNCHANGED <<payload, job, rehash, sought, up, budget>>

-----------------------------------------------------------------------------
(* Power loss and startup.                                                 *)

(* What was not synced may or may not have reached the disk.               *)
Survivors(length) ==
    {s \in [Parts -> SUBSET Fragments] : \A p \in Parts :
        /\ disk[p] \cap synced[p] \subseteq s[p]
        /\ s[p] \subseteq {f \in disk[p] \cup synced[p] : p * PartLen + f < length}}

Crash ==
    /\ up /\ budget.crash > 0
    /\ \E length \in len.synced .. len.seen : \E s \in Survivors(length) :
        disk' = s /\ synced' = s /\ len' = [seen |-> length, synced |-> length]
    /\ mem' = db /\ dirty' = {} /\ rows' = {} /\ draft' = NoDraft
    /\ pc' = [t \in Tasks |-> "idle"] /\ job' = [s \in Sessions |-> NoJob]
    /\ rehash' = NoHash /\ recheck' = NoRecheck /\ sought' = [s \in Sessions |-> {}]
    /\ up' = FALSE /\ budget' = [budget EXCEPT !.crash = @ - 1]
    /\ UNCHANGED db

(* reconcile_manifest_payload_len(): one claim past the end of the payload *)
(* voids every claim.                                                      *)
ClaimedEnd(piece) ==
    IF piece.state = "Verified" \/ piece.ich_corrupted THEN PartLen
    ELSE Max({piece.bytes_written} \cup {(b + 1) * Frag : b \in piece.block_bitmap})

ReconciledPieces(m) ==
    LET claims == {p \in Parts : ClaimedEnd(m.pieces[p]) # 0}
        short == \E p \in claims : p * PartLen + ClaimedEnd(m.pieces[p]) > len.seen
    IN  [p \in Parts |-> IF short /\ p \in claims THEN Empty ELSE m.pieces[p]]

ReconcilePayloadLen(m) ==
    LET r == [m EXCEPT !.pieces = ReconciledPieces(m)]
    IN  [r EXCEPT !.final_rehash_pending = @ /\ IsFullyVerified(r)]

(* reconcile_managed_download_storage(), before anything else runs.  A     *)
(* completed payload that no longer has its identity is put aside and      *)
(* every claim with it.                                                    *)
Restart ==
    /\ ~up /\ up' = TRUE
    /\ IF db.completed /\ \E p \in Parts : ~Md4Matches(p)
       THEN /\ StoreManifest(NoDraft)
            /\ disk' = [p \in Parts |-> {}] /\ synced' = disk'
            /\ len' = [seen |-> 0, synced |-> 0]
       ELSE /\ StoreManifest(IF db.completed THEN db ELSE ReconcilePayloadLen(db))
            /\ UNCHANGED payload
    /\ UNCHANGED <<pc, job, hashing, sought, budget>>

-----------------------------------------------------------------------------
SessionStep(s) ==
    \/ \E p \in Parts, f \in Fragments, good \in BOOLEAN :
        \/ RouteBlock(s, p, f, good)
        \/ \E t \in f + 1 .. PartLen - 1 : FlushPrefix(s, p, f, t, good)
    \/ Reconnect(s) \/ AppendBlock(s) \/ SalvageBlock(s)
    \/ StoreTransition(s) \/ CacheProgress(s) \/ CheckpointProgress(s) \/ CommitRow(s)
    \/ CheckpointAtShutdown(s)
    \/ \E p \in Parts : BeginPartSalvage(s, p)

TaskStep(t) ==
    BeginFinalRehash(t) \/ ComputeFinalRehash(t) \/ ConcludeFinalRehash(t) \/ StoreFails(t)

Next ==
    \/ \E s \in Sessions : SessionStep(s)
    \/ \E t \in Tasks : TaskStep(t)
    \/ DriveFinalize \/ OperatorRecheck \/ HashVerifiedPieces \/ DemoteDamagedPieces
    \/ Crash \/ Restart

Spec == Init /\ [][Next]_vars

(* What a session that holds the manifest mutex does next.                 *)
Settle(s) ==
    StoreTransition(s) \/ CacheProgress(s) \/ CheckpointProgress(s) \/ CommitRow(s)

-----------------------------------------------------------------------------
Places == {"idle", "toAppend", "toSalvage", "prefix", "bitmap", "salvage", "rows",
           "toFinalize", "toForce", "hashing", "hashed", "rechecking", "rechecked"}
JobType == [part : Parts, from : Fragments, to : 0 .. PartLen, good : BOOLEAN]

(* The types of the state variables.                                       *)
TypeOK ==
    /\ disk \in [Parts -> SUBSET Fragments] /\ synced \in [Parts -> SUBSET Fragments]
    /\ len \in [seen : 0 .. FileLen, synced : 0 .. FileLen]
    /\ mem \in ManifestType /\ db \in ManifestType /\ draft \in ManifestType
    /\ dirty \subseteq Parts /\ rows \subseteq Parts
    /\ pc \in [Tasks -> Places] /\ job \in [Sessions -> JobType]
    /\ rehash \in [clean : BOOLEAN, damaged : SUBSET Parts]
    /\ recheck \in [clean : BOOLEAN, damaged : SUBSET Parts, pieces : [Parts -> PieceType]]
    /\ sought \in [Sessions -> SUBSET Parts]
    /\ up \in BOOLEAN
    /\ budget \in [bad : Nat, crash : Nat, fail : Nat, recheck : Nat]

(* A part that SQLite holds Verified has all its right bytes where a power *)
(* loss cannot take them: append_piece_block_inner, write_salvage_block    *)
(* and ich_try_rehash_part_unlocked sync the payload before the store.     *)
DurableVerified ==
    \A p \in Parts : IsVerified(db, p) => synced[p] = Fragments

(* What a part is worth to others never lives in the cache alone: which    *)
(* parts are Verified, completion and the rehash barrier are the same in   *)
(* the cache and in SQLite, whatever batching does to plain progress.      *)
AuthorityPersisted ==
    /\ mem.completed = db.completed
    /\ mem.final_rehash_pending = db.final_rehash_pending
    /\ \A p \in Parts : IsVerified(mem, p) <=> IsVerified(db, p)

(* Fragments a piece row says need not be downloaded again.                *)
Claimed(piece) ==
    {f \in Fragments : f < piece.bytes_written \/ f \div Frag \in piece.block_bitmap}

(* Progress SQLite does not have yet is tracked: the next checkpoint, by   *)
(* whichever session, writes every part in which the cache is ahead.       *)
DirtyTracked ==
    \A p \in Parts :
        p \notin dirty => Claimed(mem.pieces[p]) \subseteq Claimed(db.pieces[p])

(* A download turns completed only while every byte of the payload is      *)
(* right, although the hash runs without the manifest mutex.               *)
CompletionVerified ==
    ~mem.completed /\ mem'.completed => \A p \in Parts : disk'[p] = Fragments

(* The bytes a reader finds in a Verified part are right, except while a   *)
(* salvage write to that part has yet to settle.                           *)
VerifiedReadsRight ==
    \A p \in Parts : IsVerified(mem, p) =>
        \/ disk[p] = Fragments
        \/ \E s \in Sessions : pc[s] = "salvage" /\ job[s].part = p

=============================================================================
