--------------------------- MODULE DownloadWindow ---------------------------
(***************************************************************************)
(* The sessions that download one file from several peers: the registry of *)
(* block leases they share, each session's window of block requests, the   *)
(* answers, the flush of complete blocks in request order, and the ways a  *)
(* session ends.                                                           *)
(*                                                                         *)
(* A write changes the piece at once; the payload, the checkpoints and the *)
(* hash are PieceStore's.  A part whose blocks are all there verifies, or  *)
(* is gapped if one of them was bad; once gapped, a write may verify it    *)
(* early, and recovery data may give some of its blocks back.              *)
(***************************************************************************)
EXTENDS BlockLeases, PieceState, Sequences, FiniteSetsExt

CONSTANTS
    Peers,
    Has,            \* the parts each peer advertises
    Frequency,      \* live sources of each part
    Faster,         \* <<a, b>>: a is measured at five times b's rate
    MaxPending,     \* window of a session that has completed a block
    MinPending,
    Batch,          \* ranges in one OP_REQUESTPARTS, 3 in the code
    EndgameLeft,    \* fragments missing at which late and endgame hold
    StaleLimit,     \* STALE_BLOCK_PACKET_THRESHOLD
    Budget          \* how many bad parts, broken streams, lost sessions

DownloadWindowAssumption ==
    /\ PieceStateAssumption /\ IsFiniteSet(Peers)
    /\ Has \in [Peers -> SUBSET Parts] /\ Frequency \in [Parts -> Nat]
    /\ Faster \subseteq Peers \X Peers
    /\ MinPending \in Nat \ {0} /\ MaxPending \in Nat /\ MinPending <= MaxPending
    /\ Batch \in Nat \ {0} /\ EndgameLeft \in Nat /\ StaleLimit \in Nat \ {0}
    /\ Budget \in [bad : Nat, broken : Nat, lost : Nat]

VARIABLES
    pieces,         \* the manifest's pieces
    cooled,         \* no takeover of this file within the last minute
    session,        \* the rest of a session's state
    budget

vars == <<pieces, registry, cooled, stage, pending, session, budget>>

NoPart == -1

(* active: the part being fetched; paid: a block has completed; bitmaps,   *)
(* done: what the session's copy of the manifest says; sought: parts it    *)
(* wants recovery data for.                                                *)
NewSession(bitmaps, corrupted) ==
    [active |-> NoPart, paid |-> FALSE, stale |-> 0, bitmaps |-> bitmaps, done |-> FALSE,
     sought |-> corrupted]
NoSession == NewSession({}, {})

Bitmaps(ps) == {p \in Parts : ps[p].block_bitmap # {}}
Corrupted(ps) == {p \in Parts : ps[p].ich_corrupted}
AllVerified(ps) == \A p \in Parts : ps[p].state = "Verified"

Init ==
    /\ pieces = [p \in Parts |-> Empty]
    /\ registry = <<>> /\ cooled = TRUE
    /\ stage = [s \in Peers |-> "off"] /\ pending = [s \in Peers |-> <<>>]
    /\ session = [s \in Peers |-> NoSession]
    /\ budget = Budget

-----------------------------------------------------------------------------
(* Choosing a block: download_pick.rs and block_lease.rs.                  *)

Monus(a, b) == IF a > b THEN a - b ELSE 0

(* part_rank(): rarity, then preview parts, then how far the part is.      *)
PartRank(p) ==
    Monus(Monus(Frequency[p] * 1000, IF p \in {0, NumParts - 1} THEN 500 ELSE 0),
          (pieces[p].bytes_written * 100) \div PartLen)

(* pick_next_missing_part() over parts that are all still of interest.     *)
PickNextMissingPart(parts) ==
    LET best == {p \in parts : \A q \in parts : PartRank(p) <= PartRank(q)}
    IN  IF best = {} THEN {} ELSE {Min(best)}

Wanted(s) == {p \in Has[s] : pieces[p].state # "Verified"}

(* The range try_lease_block_in_piece() would reserve of a missing block:  *)
(* it starts past the written prefix.                                      *)
LeaseKey(p, b) ==
    <<p, Max({b * Frag, Min({pieces[p].bytes_written, (b + 1) * Frag})}), (b + 1) * Frag>>

FreeKeys(p) ==
    {k \in {LeaseKey(p, b) : b \in Blocks \ ResolveBlockBitmap(pieces[p])} :
        k[2] < k[3] /\ k \notin DOMAIN registry}
FirstFree(p) == CHOOSE k \in FreeKeys(p) : \A l \in FreeKeys(p) : k[3] <= l[3]
FreeParts(s) == {p \in Wanted(s) : FreeKeys(p) # {}}

(* endgame_policy(), with both its thresholds in one bound.                *)
EndgamePolicy ==
    Frag * Cardinality({x \in Parts \X Blocks : x[2] \notin ResolveBlockBitmap(pieces[x[1]])})
        <= EndgameLeft

(* may_steal_lease(): a lease of a measured peer, 15 seconds old and still *)
(* without a byte, goes to a peer five times as fast.                      *)
MayStealLease(s, k) ==
    /\ EndgamePolicy /\ cooled
    /\ registry[k].peer # s /\ ~registry[k].moved /\ registry[k].old
    /\ registry[k].rated /\ session[s].paid /\ <<s, registry[k].peer>> \in Faster

Stealable(s, p) == {k \in DOMAIN registry : k[1] = p /\ MayStealLease(s, k)}

(* lease_next_download_block(): the active part first, then the best part  *)
(* with a free block, and only then somebody else's block.                 *)
OrdinaryKeys(s) ==
    LET active == FreeParts(s) \cap {session[s].active}
    IN  {FirstFree(p) : p \in IF active # {} THEN active
                               ELSE PickNextMissingPart(FreeParts(s))}
TakeoverKeys(s) ==
    UNION {Stealable(s, p) :
              p \in PickNextMissingPart({q \in Wanted(s) : Stealable(s, q) # {}})}
NextKeys(s) == IF OrdinaryKeys(s) # {} THEN OrdinaryKeys(s) ELSE TakeoverKeys(s)

(* A lease id that no live token has; the code counts up.                  *)
LiveLeases == UNION {{pending[s][i].lease : i \in DOMAIN pending[s]} : s \in Peers}
NewLease == Min(1 .. Cardinality(LiveLeases) + 1 \ LiveLeases)

(* Drop of the tokens of some requests: each removes its own reservation.  *)
Release(requests) ==
    LET released == {k \in DOMAIN registry :
                        \E r \in requests : r.key = k /\ r.lease = registry[k].lease}
    IN  [k \in DOMAIN registry \ released |-> registry[k]]

-----------------------------------------------------------------------------
(* pump_download_request_window()                                          *)

(* select_download_window_limits(): one block until one has completed.     *)
MaxWindow(s) == IF session[s].paid THEN MaxPending ELSE 1
Low(requests, paid) == Len(requests) < IF paid THEN MinPending ELSE 1

(* The top of the session's loop: is there work, and is the window low?    *)
LoopStage(s) ==
    IF session'[s].done THEN "dropping"
    ELSE IF Low(pending'[s], session'[s].paid) THEN "filling" ELSE "asking"
Loop(s) == stage' = [stage EXCEPT ![s] = LoopStage(s)]

Connect(s) ==
    /\ stage[s] = "off" /\ ~AllVerified(pieces) /\ Wanted(s) # {}
    /\ session' = [session EXCEPT ![s] = NewSession(Bitmaps(pieces), Corrupted(pieces))]
    /\ UNCHANGED pending /\ Loop(s)
    /\ UNCHANGED <<pieces, registry, cooled, budget>>

Owner(s) == [lease |-> NewLease, peer |-> s, moved |-> FALSE, old |-> FALSE,
             rated |-> session[s].paid]
Request(k) == [key |-> k, from |-> k[2], got |-> k[2], queued |-> FALSE, broken |-> FALSE,
               lease |-> NewLease]

(* One turn of the fill loop; the manifest mutex is given up between turns *)
LeaseBlock(s, k) ==
    /\ stage[s] = "filling" /\ Len(pending[s]) < MaxWindow(s)
    /\ cooled' = (cooled /\ k \notin DOMAIN registry)
    /\ registry' = [l \in DOMAIN registry \cup {k} |-> IF l = k THEN Owner(s) ELSE registry[l]]
    /\ pending' = [pending EXCEPT ![s] = Append(@, Request(k))]
    /\ session' = [session EXCEPT ![s].active = k[1]]
    /\ UNCHANGED <<pieces, stage, budget>>

FillEnds(s) ==
    /\ stage[s] = "filling"
    /\ \/ Len(pending[s]) = MaxWindow(s) /\ UNCHANGED session
       \/ /\ Len(pending[s]) < MaxWindow(s) /\ NextKeys(s) = {}
          /\ session' = [session EXCEPT ![s].active = NoPart]
    /\ stage' = [stage EXCEPT ![s] = "asking"]
    /\ UNCHANGED <<pieces, registry, cooled, pending, budget>>

(* The next unasked ranges go out in one packet; a session with nothing to *)
(* ask and nothing to wait for cancels.                                    *)
RequestParts(s) ==
    LET unasked == {i \in DOMAIN pending[s] : ~pending[s][i].queued}
        asked == {i \in unasked : Cardinality({j \in unasked : j < i}) < Batch}
    IN  /\ stage[s] = "asking"
        /\ pending' = [pending EXCEPT ![s] =
               [i \in DOMAIN pending[s] |->
                   [pending[s][i] EXCEPT !.queued = pending[s][i].queued \/ i \in asked]]]
        /\ stage' = [stage EXCEPT ![s] =
               IF pending[s] = <<>> /\ session[s].active = NoPart THEN "dropping" ELSE "reading"]
        /\ UNCHANGED <<pieces, registry, cooled, session, budget>>

-----------------------------------------------------------------------------
(* What the peer sends: handle_download_part_packet().                     *)

Ready(r) == r.queued /\ r.got = r.key[3]
HeadReady(s) == \E i \in DOMAIN pending[s] : i = 1 /\ Ready(pending[s][i])
Awaited(s) == {i \in DOMAIN pending[s] : pending[s][i].queued /\ ~Ready(pending[s][i])}

(* Mutant: payload is not noted against the lease.                         *)
NotePayloadNever(s, r) == registry

(* note_payload()                                                          *)
NotePayload(s, r) ==
    [k \in DOMAIN registry |->
        [registry[k] EXCEPT !.moved = @ \/ (k = r.key /\ registry[k].lease = r.lease)]]

(* The next fragment of a requested range; peers may answer in any order.  *)
Receive(s, i) ==
    LET r == pending[s][i]
    IN  /\ stage[s] = "reading" /\ i \in Awaited(s) /\ ~r.broken
        /\ pending' = [pending EXCEPT ![s][i].got = @ + 1]
        /\ registry' = NotePayload(s, r)
        /\ session' = [session EXCEPT ![s].stale = 0]
        /\ stage' = [stage EXCEPT ![s] = "flushing"]
        /\ UNCHANGED <<pieces, cooled, budget>>

(* A compressed stream that cannot be inflated: the rest of the block is   *)
(* ignored from now on.                                                    *)
StreamFails(s, i) ==
    /\ stage[s] = "reading" /\ i \in Awaited(s) /\ ~pending[s][i].broken
    /\ budget.broken > 0
    /\ pending' = [pending EXCEPT ![s][i].broken = TRUE]
    /\ budget' = [budget EXCEPT !.broken = @ - 1]
    /\ UNCHANGED session /\ Loop(s)
    /\ UNCHANGED <<pieces, registry, cooled>>

(* drop_stale_block_packet(): a packet for no pending range; the count     *)
(* restarts when its window has passed.                                    *)
DropStaleBlockPacket(s, count) ==
    /\ stage[s] = "reading"
    /\ count \in IF \E r \in Range(pending[s]) : r.queued THEN {1, session[s].stale + 1}
                 ELSE {session[s].stale}
    /\ session' = [session EXCEPT ![s].stale = count]
    /\ UNCHANGED pending
    /\ \/ count < StaleLimit /\ Loop(s) /\ UNCHANGED budget
       \/ /\ count >= StaleLimit /\ budget.lost > 0
          /\ budget' = [budget EXCEPT !.lost = @ - 1]
          /\ stage' = [stage EXCEPT ![s] = "closing"]
    /\ UNCHANGED <<pieces, registry, cooled>>

(* Recovery data: begin_part_salvage() keeps what is good of a gapped part *)
BeginPartSalvage(s, p, good) ==
    /\ stage[s] = "reading" /\ p \in session[s].sought
    /\ ResolveBlockBitmap(pieces[p]) \cup good # Blocks
    /\ IF pieces[p].ich_corrupted
       THEN pieces' = [pieces EXCEPT ![p] = ApplyBlockBitmap(@, ResolveBlockBitmap(@) \cup good)]
       ELSE UNCHANGED pieces
    /\ session' = [session EXCEPT ![s].sought = @ \ {p}, ![s].bitmaps = Bitmaps(pieces')]
    /\ UNCHANGED pending /\ Loop(s)
    /\ UNCHANGED <<registry, cooled, budget>>

-----------------------------------------------------------------------------
(* append_or_salvage_block_with_manifest() and what it makes of the piece. *)

Contiguous(piece, from) == piece.block_bitmap = {} /\ from = piece.bytes_written
Accepts(piece, from, to) == Contiguous(piece, from) \/ IsBlock(from, to)

Written(piece, from, to) ==
    IF Contiguous(piece, from) THEN [piece EXCEPT !.bytes_written = to]
    ELSE IF piece.state = "Verified" THEN piece
    ELSE ApplyBlockBitmap(piece, ResolveBlockBitmap(piece) \cup {from \div Frag})

(* A full part is hashed; a gapped one is rehashed after every write.      *)
Outcomes(piece, from, to) ==
    LET written == Written(piece, from, to)
    IN  IF written.state = "Verified" THEN {written}
        ELSE IF written.bytes_written = PartLen
        THEN {VerifiedPiece} \cup IF budget.bad > 0 THEN {Gapped(TRUE)} ELSE {}
        ELSE {written} \cup IF piece.ich_corrupted THEN {VerifiedPiece} ELSE {}

(* The write and the session's notes on its outcome.                       *)
Write(s, p, from, to, paid) ==
    \E outcome \in Outcomes(pieces[p], from, to) :
        LET verified == outcome = VerifiedPiece /\ pieces[p] # VerifiedPiece
            failed == Written(pieces[p], from, to).bytes_written = PartLen
                      /\ outcome = Gapped(TRUE)
        IN  /\ pieces' = [pieces EXCEPT ![p] = outcome]
            /\ budget' = [budget EXCEPT !.bad = IF failed THEN @ - 1 ELSE @]
            /\ session' = [session EXCEPT ![s] = [session[s] EXCEPT
                   !.active = IF failed \/ verified THEN NoPart ELSE session[s].active,
                   !.paid = paid, !.bitmaps = Bitmaps(pieces'), !.done = AllVerified(pieces'),
                   !.sought = (session[s].sought \cup IF failed THEN {p} ELSE {})
                              \ IF verified THEN {p} ELSE {}]]

(* flush_ready_download_blocks(), one turn: strictly in request order.     *)
FlushReadyBlock(s) ==
    LET r == Head(pending[s])
    IN  /\ stage[s] = "flushing" /\ HeadReady(s)
        /\ pending' = [pending EXCEPT ![s] = Tail(@)]
        /\ registry' = Release({r})
        /\ \/ /\ Accepts(pieces[r.key[1]], r.from, r.got)
              /\ Write(s, r.key[1], r.from, r.got, TRUE)
              /\ UNCHANGED stage
           \/ /\ ~Accepts(pieces[r.key[1]], r.from, r.got)
              /\ stage' = [stage EXCEPT ![s] = "dropping"]
              /\ UNCHANGED <<pieces, session, budget>>
        /\ UNCHANGED cooled

FlushEnds(s) ==
    /\ stage[s] = "flushing" /\ ~HeadReady(s)
    /\ UNCHANGED <<pending, session>> /\ Loop(s)
    /\ UNCHANGED <<pieces, registry, cooled, budget>>

-----------------------------------------------------------------------------
(* The ways a session ends.                                                *)

(* Timeout, or the peer closes: certain once no awaited range can arrive.  *)
GoesQuiet(s) ==
    LET hopeless == \A i \in Awaited(s) : pending[s][i].broken
    IN  /\ stage[s] = "reading" /\ (hopeless \/ budget.lost > 0)
        /\ budget' = [budget EXCEPT !.lost = IF hopeless THEN @ ELSE @ - 1]
        /\ stage' = [stage EXCEPT ![s] = "closing"]
        /\ UNCHANGED <<pieces, registry, cooled, pending, session>>

(* An error, or the task is cancelled, at any await.                       *)
Abort(s) ==
    /\ stage[s] \notin {"off", "dropping", "closed"} /\ budget.lost > 0
    /\ budget' = [budget EXCEPT !.lost = @ - 1]
    /\ stage' = [stage EXCEPT ![s] = "dropping"]
    /\ UNCHANGED <<pieces, registry, cooled, pending, session>>

(* flush_buffered_download_prefixes(), one turn.                           *)
Holds(s) ==
    \E i \in DOMAIN pending[s] :
        /\ i = 1 /\ pending[s][i].queued /\ pending[s][i].got > pending[s][i].from
        /\ pending[s][i].key[1] \notin session[s].bitmaps

FlushBufferedPrefix(s) ==
    LET r == Head(pending[s])
    IN  /\ stage[s] = "closing" /\ Holds(s)
        /\ \/ /\ Accepts(pieces[r.key[1]], r.from, r.got)
              /\ Write(s, r.key[1], r.from, r.got, session[s].paid)
              /\ IF Ready(r)
                 THEN /\ pending' = [pending EXCEPT ![s] = Tail(@)]
                      /\ registry' = Release({r}) /\ UNCHANGED stage
                 ELSE /\ stage' = [stage EXCEPT ![s] = "closed"]
                      /\ UNCHANGED <<pending, registry>>
           \/ /\ ~Accepts(pieces[r.key[1]], r.from, r.got)
              /\ stage' = [stage EXCEPT ![s] = "dropping"]
              /\ UNCHANGED <<pieces, registry, pending, session, budget>>
        /\ UNCHANGED cooled

CloseEnds(s) ==
    /\ stage[s] = "closing" /\ ~Holds(s)
    /\ stage' = [stage EXCEPT ![s] = "closed"]
    /\ UNCHANGED <<pieces, registry, cooled, pending, session, budget>>

(* Mutant: only ranges that were asked for give their reservation back.    *)
DropSessionKeepingUnasked(s) ==
    /\ stage[s] \in {"dropping", "closed"}
    /\ registry' = Release({r \in Range(pending[s]) : r.queued})
    /\ stage' = [stage EXCEPT ![s] = "off"] /\ pending' = [pending EXCEPT ![s] = <<>>]
    /\ session' = [session EXCEPT ![s] = NoSession]
    /\ UNCHANGED <<pieces, cooled, budget>>

(* The session's locals go, and the tokens with them.                      *)
DropSession(s) ==
    /\ stage[s] \in {"dropping", "closed"}
    /\ registry' = Release(Range(pending[s]))
    /\ stage' = [stage EXCEPT ![s] = "off"] /\ pending' = [pending EXCEPT ![s] = <<>>]
    /\ session' = [session EXCEPT ![s] = NoSession]
    /\ UNCHANGED <<pieces, cooled, budget>>

(* Fifteen seconds of a lease, and a minute since the last takeover.       *)
AgeLease(k) ==
    /\ k \in DOMAIN registry /\ registry[k].rated /\ ~registry[k].moved /\ ~registry[k].old
    /\ registry' = [registry EXCEPT ![k].old = TRUE]
    /\ UNCHANGED <<pieces, cooled, stage, pending, session, budget>>

CoolDown ==
    /\ ~cooled /\ cooled' = TRUE
    /\ UNCHANGED <<pieces, registry, stage, pending, session, budget>>

Step(s) ==
    \/ Connect(s)
    \/ \E k \in NextKeys(s) : LeaseBlock(s, k)
    \/ FillEnds(s)
    \/ RequestParts(s)
    \/ FlushReadyBlock(s)
    \/ FlushEnds(s)
    \/ FlushBufferedPrefix(s)
    \/ CloseEnds(s)
    \/ DropSession(s)

Answer(s) == (\E i \in Awaited(s) : Receive(s, i)) \/ GoesQuiet(s)

Finished == AllVerified(pieces) /\ (\A s \in Peers : stage[s] = "off") /\ UNCHANGED vars

Next ==
    \/ \E s \in Peers :
          \/ Step(s) \/ Answer(s) \/ Abort(s)
          \/ \E i \in Awaited(s) : StreamFails(s, i)
          \/ \E count \in 0 .. StaleLimit : DropStaleBlockPacket(s, count)
          \/ \E p \in Parts, good \in SUBSET Blocks : BeginPartSalvage(s, p, good)
    \/ \E k \in DOMAIN registry : AgeLease(k)
    \/ CoolDown
    \/ Finished

Spec == Init /\ [][Next]_vars

-----------------------------------------------------------------------------
LeaseIds == 1 .. MaxPending * Cardinality(Peers)
Keys == {k \in Parts \X Fragments \X (1 .. PartLen) : k[2] < k[3] /\ k[3] % Frag = 0}
RequestType == [key : Keys, from : Fragments, got : 0 .. PartLen, queued : BOOLEAN,
                broken : BOOLEAN, lease : LeaseIds]

(* The shape of the sessions' state: a range lies in one block, a window   *)
(* holds at most MaxPending of them, received bytes stay within the range. *)
TypeOK ==
    /\ pieces \in [Parts -> PieceType] /\ cooled \in BOOLEAN
    /\ \A k \in DOMAIN registry : k \in Keys /\ registry[k] \in
           [lease : LeaseIds, peer : Peers, moved : BOOLEAN, old : BOOLEAN, rated : BOOLEAN]
    /\ \A s \in Peers :
           /\ Len(pending[s]) <= MaxPending
           /\ \A r \in Range(pending[s]) : r \in RequestType /\ r.from <= r.got /\ r.got <= r.key[3]

(* Only a lease that delivered nothing changes hands, and only to a        *)
(* session that found no free block.                                       *)
TakeoverOfIdleLeaseOnly ==
    \A k \in DOMAIN registry \cap DOMAIN registry' :
       registry[k].lease # registry'[k].lease =>
           /\ \A r \in Range(pending[registry[k].peer]) :
                 r.lease = registry[k].lease => r.got = r.key[2]
           /\ FreeParts(registry'[k].peer) = {}

(* A whole block once recorded is lost only when its part fails its hash,  *)
(* whatever order the sessions' blocks come in.                            *)
BlocksKept ==
    \A p \in Parts : \/ ResolveBlockBitmap(pieces[p]) \subseteq ResolveBlockBitmap(pieces'[p])
                     \/ pieces'[p] = Gapped(TRUE)

=============================================================================
