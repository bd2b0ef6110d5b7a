------------------------ MODULE DownloadWindow_proofs ------------------------
(***************************************************************************)
(* Proofs about DownloadWindow, for any finite set of peers, parts of any  *)
(* number of blocks, windows of any size and any number of losses.         *)
(*                                                                         *)
(* The steps are first reduced to what they do to the windows and to the   *)
(* registry (Moves): a session takes a block, a request changes without    *)
(* changing its block or its token, the head of a window is settled, a     *)
(* session's window goes, a lease gets older.  The statements are then     *)
(* shown for those.  What makes a token's release safe is that a lease id  *)
(* is carried by one request at a time (OneToken): NewLease is an id that  *)
(* no live token has.                                                      *)
(***************************************************************************)
EXTENDS DownloadWindow, FiniteSetTheorems, TLAPS

Ranges == Parts \X Nat \X Nat
Tokens == [key : Ranges, from : Nat, got : Nat, queued : BOOLEAN, broken : BOOLEAN, lease : Nat]
OwnerShape == {"lease", "peer", "moved", "old", "rated"}
Bitmap == {B \in SUBSET Nat : IsFiniteSet(B)}
Pieces == [state : {"Missing", "Verified"}, bytes_written : Nat,
           block_bitmap : Bitmap, ich_corrupted : BOOLEAN]

WindowTypes == pending \in [Peers -> Seq(Tokens)]

RegistryTypes ==
  \A k \in DOMAIN registry :
    /\ k \in Ranges /\ DOMAIN registry[k] = OwnerShape
    /\ registry[k].peer \in Peers /\ registry[k].lease \in Nat /\ registry[k].moved \in BOOLEAN

PieceTypes == pieces \in [Parts -> Pieces]

SessionTypes ==
  /\ DOMAIN session = Peers /\ DOMAIN stage = Peers
  /\ \A s \in Peers : "active" \in DOMAIN session[s]

\* A lease id is carried by one request at a time.
OneToken ==
  \A s, u \in Peers : \A i \in DOMAIN pending[s], j \in DOMAIN pending[u] :
    pending[s][i].lease = pending[u][j].lease => s = u /\ i = j

\* A request whose reservation has seen no payload has received nothing.
UnmovedIsEmpty ==
  \A s \in Peers : \A i \in DOMAIN pending[s] :
    LET r == pending[s][i]
    IN  /\ r.key \in DOMAIN registry /\ registry[r.key].lease = r.lease
        /\ ~registry[r.key].moved
        => r.got = r.key[2]

\* A session about to ask with an empty window has also no part to fetch, so it
\* gives up instead of waiting.
EmptyAsksNothing ==
  \A s \in Peers : stage[s] = "asking" /\ pending[s] = <<>> => session[s].active = NoPart

Types == WindowTypes /\ RegistryTypes /\ PieceTypes /\ SessionTypes

WindowInv ==
  /\ Types /\ RegistryBacked /\ OneToken /\ UnmovedIsEmpty
  /\ EmptyAsksNothing /\ WaitingMeansAsked

-----------------------------------------------------------------------------
(* Numbers and lease ids                                                   *)

(* A set of numbers has a least one.                                       *)
LEMMA LeastNatural ==
  ASSUME NEW S, S \subseteq Nat, S # {}
  PROVE  \E i \in S : \A j \in S : i <= j
  <1>1. PICK i \in S : \A j \in S : ~(<<j, i>> \in OpToRel(<, Nat))
    BY Zenon, WFMin, NatLessThanWellFounded
  <1>2. \A j \in S : ~(j < i)
    BY Zenon, <1>1 DEF OpToRel
  <1> QED
    BY <1>2

(* Min, of any set of numbers that is not empty, is one of them.           *)
LEMMA MinIsMember ==
  ASSUME NEW S, S \subseteq Nat, S # {}
  PROVE  Min(S) \in S
  <1>1. \E x \in S : \A y \in S : x =< y
    BY Zenon, LeastNatural
  <1> QED
    BY Zenon, <1>1 DEF Min

(* The range try_lease_block_in_piece() reserves is one of numbers.        *)
LEMMA LeaseKeyType ==
  ASSUME DownloadWindowAssumption, PieceTypes, NEW p \in Parts, NEW b \in Blocks
  PROVE  LeaseKey(p, b) \in Ranges /\ LeaseKey(p, b)[3] \in Nat
  <1> DEFINE w == pieces[p].bytes_written
             lo == b * Frag
             hi == (b + 1) * Frag
  <1>1. w \in Nat /\ lo \in Nat /\ hi \in Nat
    BY DEF DownloadWindowAssumption, PieceStateAssumption, PieceTypes, Pieces, Blocks
  <1> HIDE DEF w, lo, hi
  <1>2. Min({w, hi}) \in Nat
    BY Zenon, <1>1, MinIsMember
  <1>3. ASSUME NEW x \in Nat, NEW y \in Nat PROVE Max({x, y}) \in Nat
    <2>1. \E m \in {x, y} : \A n \in {x, y} : m >= n
      BY <1>3
    <2> QED
      BY Zenon, <2>1, <1>3 DEF Max
  <1>4. Max({lo, Min({w, hi})}) \in Nat
    BY Zenon, <1>1, <1>2, <1>3
  <1> QED
    BY Zenon, <1>1, <1>4 DEF LeaseKey, Ranges, w, lo, hi

(* A fresh lease id is one that no live token carries: the registry's      *)
(* counter never hands out the id of a request that is still under way.    *)
LEMMA NewLeaseFresh ==
  ASSUME DownloadWindowAssumption, WindowTypes
  PROVE  NewLease \in Nat /\ NewLease \notin LiveLeases
  <1> DEFINE Of(s) == {pending[s][i].lease : i \in DOMAIN pending[s]}
             c == Cardinality(LiveLeases)
             free == (1 .. c + 1) \ LiveLeases
  <1>1. ASSUME NEW s \in Peers PROVE IsFiniteSet(Of(s))
    <2>1. IsFiniteSet(DOMAIN pending[s])
      <3>1. DOMAIN pending[s] = 1 .. Len(pending[s]) /\ Len(pending[s]) \in Nat
        BY DEF WindowTypes
      <3> QED
        BY <3>1, FS_Interval
    <2> DEFINE f == [i \in DOMAIN pending[s] |-> pending[s][i].lease]
    <2>2. f \in Surjection(DOMAIN pending[s], Of(s))
      BY Zenon DEF Surjection
    <2> QED
      BY Zenon, <2>1, <2>2, FS_Surjection
  <1>2. IsFiniteSet({Of(s) : s \in Peers})
    <2> DEFINE f == [s \in Peers |-> Of(s)]
    <2>1. f \in Surjection(Peers, {Of(s) : s \in Peers})
      BY Zenon DEF Surjection
    <2> QED
      BY Zenon, <2>1, FS_Surjection DEF DownloadWindowAssumption
  <1>3. IsFiniteSet(LiveLeases)
    <2>1. LiveLeases = UNION {Of(s) : s \in Peers}
      BY Zenon DEF LiveLeases
    <2> QED
      BY Zenon, <1>1, <1>2, <2>1, FS_UNION
  <1>4. c \in Nat
    BY Zenon, <1>3, FS_CardinalityType
  <1> HIDE DEF c
  <1>5. free # {}
    <2> SUFFICES ASSUME 1 .. c + 1 \subseteq LiveLeases PROVE FALSE
      BY Zenon DEF free
    <2>1. Cardinality(1 .. c + 1) = c + 1
      <3>1. 1 \in Int /\ c + 1 \in Int /\ ~(1 > c + 1)
        BY <1>4
      <3>2. Cardinality(1 .. c + 1) = (c + 1) - 1 + 1
        BY Zenon, <3>1, FS_Interval
      <3> QED
        BY <1>4, <3>2
    <2>2. Cardinality(1 .. c + 1) <= c
      BY Zenon, <1>3, FS_Subset DEF c
    <2> QED
      BY <1>4, <2>1, <2>2
  <1>6. free \subseteq Nat
    BY <1>4
  <1>7. NewLease = Min(free)
    BY Zenon DEF NewLease, c
  <1> QED
    BY Zenon, <1>5, <1>6, <1>7, MinIsMember

-----------------------------------------------------------------------------
(* The choice of a block                                                   *)

(* The first free block of a part is one that nobody has reserved.         *)
LEMMA FirstFreeIsFree ==
  ASSUME DownloadWindowAssumption, PieceTypes, NEW p \in Parts, FreeKeys(p) # {}
  PROVE  FirstFree(p) \in Ranges /\ FirstFree(p) \notin DOMAIN registry
  <1>1. \A k \in FreeKeys(p) : k \in Ranges /\ k[3] \in Nat /\ k \notin DOMAIN registry
    BY Zenon, LeaseKeyType DEF FreeKeys
  <1> DEFINE ends == {k[3] : k \in FreeKeys(p)}
  <1>2. ends \subseteq Nat /\ ends # {}
    BY Zenon, <1>1
  <1>3. \E k \in FreeKeys(p) : \A l \in FreeKeys(p) : k[3] <= l[3]
    <2>1. PICK n \in ends : \A m \in ends : n <= m
      BY Zenon, <1>2, LeastNatural
    <2>2. PICK k \in FreeKeys(p) : n = k[3]
      BY Zenon, <2>1
    <2> QED
      BY Zenon, <2>1, <2>2
  <1>4. FirstFree(p) \in FreeKeys(p)
    BY Zenon, <1>3 DEF FirstFree
  <1> QED
    BY Zenon, <1>1, <1>4

(* A part's rank is a number.                                              *)
LEMMA PartRankType ==
  ASSUME DownloadWindowAssumption, PieceTypes, NEW p \in Parts
  PROVE  PartRank(p) \in Nat
  <1> DEFINE rarity == Frequency[p] * 1000
             preview == IF p \in {0, NumParts - 1} THEN 500 ELSE 0
             progress == (pieces[p].bytes_written * 100) \div PartLen
  <1>1. \A a, b \in Nat : Monus(a, b) \in Nat
    BY DEF Monus
  <1>2. Frequency[p] \in Nat /\ pieces[p].bytes_written \in Nat /\ PartLen \in Nat \ {0}
    BY DEF DownloadWindowAssumption, PieceStateAssumption, PartLen, PieceTypes, Pieces
  <1>3. rarity \in Nat /\ preview \in Nat /\ progress \in Nat
    BY <1>2
  <1>4. PartRank(p) = Monus(Monus(rarity, preview), progress)
    BY Zenon DEF PartRank
  <1> HIDE DEF rarity, preview, progress
  <1> QED
    BY SMTT(60), <1>1, <1>3, <1>4

(* pick_next_missing_part() picks one of the parts it is given, if any.    *)
LEMMA PickIsOne ==
  ASSUME DownloadWindowAssumption, PieceTypes, NEW parts, parts \subseteq Parts
  PROVE  /\ PickNextMissingPart(parts) \subseteq parts
         /\ parts # {} => PickNextMissingPart(parts) # {}
  <1> DEFINE best == {p \in parts : \A q \in parts : PartRank(p) <= PartRank(q)}
             ranks == {PartRank(p) : p \in parts}
  <1>1. ranks \subseteq Nat
    BY Zenon, PartRankType
  <1>2. parts # {} => best # {}
    <2> SUFFICES ASSUME parts # {} PROVE best # {}
      OBVIOUS
    <2>1. ranks # {}
      BY Zenon
    <2>2. PICK r \in ranks : \A q \in ranks : r <= q
      BY Zenon, <1>1, <2>1, LeastNatural
    <2>3. PICK p \in parts : r = PartRank(p)
      BY Zenon, <2>2
    <2> QED
      BY Zenon, <2>2, <2>3
  <1>3. best \subseteq parts /\ best \subseteq Nat
    <2>1. Parts \subseteq Nat
      BY DEF Parts, DownloadWindowAssumption, PieceStateAssumption
    <2> QED
      BY Zenon, <2>1
  <1>4. PickNextMissingPart(parts) = IF best = {} THEN {} ELSE {Min(best)}
    BY Zenon DEF PickNextMissingPart
  <1> HIDE DEF best
  <1>5. best # {} => Min(best) \in best
    BY Zenon, <1>3, MinIsMember
  <1> QED
    BY Zenon, <1>2, <1>3, <1>4, <1>5

(* lease_next_download_block() offers a block nobody has; it looks at      *)
(* somebody else's only when no part of interest has a free block.         *)
LEMMA ChoiceOfBlock ==
  ASSUME DownloadWindowAssumption, PieceTypes, RegistryTypes, NEW s \in Peers, NEW k \in NextKeys(s)
  PROVE  /\ k \in Ranges
         /\ k \in DOMAIN registry => FreeParts(s) = {} /\ MayStealLease(s, k)
  <1>1. FreeParts(s) \subseteq Parts /\ \A p \in FreeParts(s) : FreeKeys(p) # {}
    BY Zenon DEF FreeParts, Wanted, DownloadWindowAssumption
  <1> DEFINE active == FreeParts(s) \cap {session[s].active}
             chosen == IF active # {} THEN active ELSE PickNextMissingPart(FreeParts(s))
  <1>2. OrdinaryKeys(s) = {FirstFree(p) : p \in chosen}
    BY Zenon DEF OrdinaryKeys
  <1>3. chosen \subseteq FreeParts(s) /\ (FreeParts(s) # {} => chosen # {})
    BY Zenon, <1>1, PickIsOne
  <1> HIDE DEF chosen
  <1>4. CASE OrdinaryKeys(s) # {}
    <2>1. PICK p \in chosen : k = FirstFree(p)
      BY Zenon, <1>2, <1>4 DEF NextKeys
    <2>2. p \in Parts /\ FreeKeys(p) # {}
      BY Zenon, <1>1, <1>3, <2>1
    <2> QED
      BY Zenon, <2>1, <2>2, FirstFreeIsFree
  <1>5. CASE OrdinaryKeys(s) = {}
    <2>1. FreeParts(s) = {}
      BY Zenon, <1>2, <1>3, <1>5
    <2>2. k \in TakeoverKeys(s)
      BY Zenon, <1>5 DEF NextKeys
    <2>3. k \in DOMAIN registry /\ MayStealLease(s, k)
      BY Zenon, <2>2 DEF TakeoverKeys, Stealable
    <2> QED
      BY Zenon, <2>1, <2>3 DEF RegistryTypes
  <1> QED
    BY Zenon, <1>4, <1>5

-----------------------------------------------------------------------------
(* What a step does to the windows and to the registry                     *)

Takes(s, k) ==
  /\ k \in NextKeys(s)
  /\ registry' = [l \in DOMAIN registry \cup {k} |-> IF l = k THEN Owner(s) ELSE registry[l]]
  /\ pending' = [pending EXCEPT ![s] = Append(@, Request(k))]

Changes(s, q) ==
  /\ pending' = [pending EXCEPT ![s] = q] /\ registry' = registry
  /\ q \in Seq(Tokens) /\ DOMAIN q = DOMAIN pending[s]
  /\ \A i \in DOMAIN q :
       /\ q[i].key = pending[s][i].key /\ q[i].lease = pending[s][i].lease
       /\ q[i].got = pending[s][i].got

Feeds(s, i) ==
  /\ i \in DOMAIN pending[s]
  /\ pending' = [pending EXCEPT ![s][i].got = @ + 1]
  /\ registry' = NotePayload(s, pending[s][i])

Settles(s) ==
  /\ pending[s] # <<>>
  /\ pending' = [pending EXCEPT ![s] = Tail(@)]
  /\ registry' = Release({Head(pending[s])})

Drops(s) ==
  /\ pending' = [pending EXCEPT ![s] = <<>>]
  /\ registry' = Release(Range(pending[s]))

Ages(k) ==
  /\ pending' = pending
  /\ registry' = [registry EXCEPT ![k].old = TRUE]

Rests == pending' = pending /\ registry' = registry

Moves ==
  \/ Rests
  \/ \E k \in DOMAIN registry : Ages(k)
  \/ \E s \in Peers :
       \/ \E k \in NextKeys(s) : Takes(s, k)
       \/ \E q \in Seq(Tokens) : Changes(s, q)
       \/ \E i \in DOMAIN pending[s] : Feeds(s, i)
       \/ Settles(s)
       \/ Drops(s)

(* Asking for ranges marks them, and changes nothing else of the requests. *)
LEMMA AskingMoves ==
  ASSUME WindowTypes, NEW s \in Peers, RequestParts(s)
  PROVE  \E q \in Seq(Tokens) : Changes(s, q)
  <1> DEFINE unasked == {i \in DOMAIN pending[s] : ~pending[s][i].queued}
             asked == {i \in unasked : Cardinality({j \in unasked : j < i}) < Batch}
             mark(i) == pending[s][i].queued \/ i \in asked
             q == [i \in DOMAIN pending[s] |-> [pending[s][i] EXCEPT !.queued = mark(i)]]
  <1>1. pending' = [pending EXCEPT ![s] = q] /\ registry' = registry
    BY Zenon DEF RequestParts
  <1>2. ASSUME NEW i \in DOMAIN pending[s] PROVE mark(i) \in BOOLEAN
    OBVIOUS
  <1> HIDE DEF mark
  <1>3. pending[s] \in Seq(Tokens) /\ DOMAIN pending[s] = 1 .. Len(pending[s])
    BY DEF WindowTypes
  <1>4. \A i \in DOMAIN pending[s] : pending[s][i] \in Tokens
    BY <1>3
  <1>5. ASSUME NEW i \in DOMAIN pending[s]
        PROVE  /\ q[i] \in Tokens /\ q[i].key = pending[s][i].key
               /\ q[i].lease = pending[s][i].lease /\ q[i].got = pending[s][i].got
    BY Zenon, <1>2, <1>4 DEF Tokens
  <1>6. DOMAIN q = DOMAIN pending[s]
    BY Zenon
  <1>7. q = [i \in 1 .. Len(pending[s]) |-> q[i]]
    BY Zenon, <1>3
  <1> HIDE DEF q
  <1>8. q \in Seq(Tokens)
    <2>1. Len(pending[s]) \in Nat
      BY <1>3
    <2>2. q \in [1 .. Len(pending[s]) -> Tokens]
      BY Zenon, <1>3, <1>5, <1>7
    <2> QED
      BY <2>1, <2>2
  <1> QED
    BY ZenonT(60), <1>1, <1>5, <1>6, <1>8 DEF Changes

(* A stream that breaks off marks its request.                             *)
LEMMA BreakingMoves ==
  ASSUME WindowTypes, NEW s \in Peers, NEW i \in Awaited(s), StreamFails(s, i)
  PROVE  \E q \in Seq(Tokens) : Changes(s, q)
  <1> DEFINE r == [pending[s][i] EXCEPT !.broken = TRUE]
             q == [pending[s] EXCEPT ![i] = r]
  <1>1. pending' = [pending EXCEPT ![s] = q] /\ registry' = registry
    BY Zenon DEF StreamFails
  <1>2. pending[s] \in Seq(Tokens) /\ i \in DOMAIN pending[s] /\ pending[s][i] \in Tokens
    BY DEF WindowTypes, Awaited
  <1>3. r \in Tokens /\ r.key = pending[s][i].key /\ r.lease = pending[s][i].lease
        /\ r.got = pending[s][i].got
    BY Zenon, <1>2 DEF Tokens
  <1> HIDE DEF r
  <1>4. q \in Seq(Tokens) /\ DOMAIN q = DOMAIN pending[s]
    BY <1>2, <1>3
  <1>5. \A j \in DOMAIN q : q[j] = IF j = i THEN r ELSE pending[s][j]
    BY Zenon, <1>2
  <1> HIDE DEF q
  <1> QED
    BY ZenonT(60), <1>1, <1>3, <1>4, <1>5 DEF Changes

(* Every step is one of the moves.                                         *)
LEMMA StepsMove ==
  ASSUME WindowTypes, [Next]_vars
  PROVE  Moves
  <1>1. ASSUME NEW s \in Peers, Step(s) PROVE Moves
    <2>1. ASSUME NEW k \in NextKeys(s), LeaseBlock(s, k) PROVE Moves
      BY Zenon, <1>1, <2>1 DEF LeaseBlock, Takes, Moves
    <2>2. CASE RequestParts(s)
      BY Zenon, <1>1, <2>2, AskingMoves DEF Moves
    <2>3. CASE FlushReadyBlock(s)
      <3>1. pending[s] # <<>>
        <4>1. DOMAIN <<>> = {}
          OBVIOUS
        <4> QED
          BY Zenon, <2>3, <4>1 DEF FlushReadyBlock, HeadReady
      <3> QED
        BY Zenon, <1>1, <2>3, <3>1 DEF FlushReadyBlock, Settles, Moves
    <2>4. CASE FlushBufferedPrefix(s)
      <3>1. pending[s] # <<>>
        <4>1. DOMAIN <<>> = {}
          OBVIOUS
        <4> QED
          BY Zenon, <2>4, <4>1 DEF FlushBufferedPrefix, Holds
      <3> QED
        BY Zenon, <1>1, <2>4, <3>1 DEF FlushBufferedPrefix, Settles, Rests, Moves
    <2>5. CASE DropSession(s)
      BY Zenon, <1>1, <2>5 DEF DropSession, Drops, Moves
    <2>6. CASE Connect(s) \/ FillEnds(s) \/ FlushEnds(s) \/ CloseEnds(s)
      BY Zenon, <2>6 DEF Connect, FillEnds, FlushEnds, CloseEnds, Rests, Moves
    <2> QED
      BY Zenon, <1>1, <2>1, <2>2, <2>3, <2>4, <2>5, <2>6 DEF Step
  <1>2. ASSUME NEW s \in Peers, NEW i \in Awaited(s), Receive(s, i) PROVE Moves
    BY Zenon, <1>2 DEF Receive, Awaited, Feeds, Moves
  <1>3. ASSUME NEW s \in Peers, NEW i \in Awaited(s), StreamFails(s, i) PROVE Moves
    BY Zenon, <1>3, BreakingMoves DEF Moves
  <1>4. ASSUME NEW s \in Peers,
               \/ GoesQuiet(s) \/ Abort(s)
               \/ \E count \in 0 .. StaleLimit : DropStaleBlockPacket(s, count)
               \/ \E p \in Parts, good \in SUBSET Blocks : BeginPartSalvage(s, p, good)
        PROVE  Moves
    BY Zenon, <1>4 DEF GoesQuiet, Abort, DropStaleBlockPacket, BeginPartSalvage, Rests, Moves
  <1>5. ASSUME NEW k \in DOMAIN registry, AgeLease(k) PROVE Moves
    BY Zenon, <1>5 DEF AgeLease, Ages, Moves
  <1>6. CASE CoolDown \/ Finished \/ UNCHANGED vars
    BY Zenon, <1>6 DEF CoolDown, Finished, vars, Rests, Moves
  <1> QED
    BY Zenon, <1>1, <1>2, <1>3, <1>4, <1>5, <1>6 DEF Next, Answer

-----------------------------------------------------------------------------
(* The moves keep the types                                                *)

(* A new request and the reservation that goes with it.                    *)
LEMMA NewRequestType ==
  ASSUME DownloadWindowAssumption, Types, NEW s \in Peers, NEW k \in NextKeys(s)
  PROVE  /\ k \in Ranges
         /\ Request(k) \in Tokens /\ Request(k).key = k /\ Request(k).got = k[2]
         /\ Request(k).lease = NewLease
         /\ DOMAIN Owner(s) = OwnerShape /\ Owner(s).peer = s /\ Owner(s).lease = NewLease
         /\ Owner(s).moved = FALSE
  <1>1. k \in Ranges /\ k[2] \in Nat
    BY Zenon, ChoiceOfBlock DEF Types, Ranges
  <1>2. NewLease \in Nat
    BY Zenon, NewLeaseFresh DEF Types
  <1> QED
    BY Zenon, <1>1, <1>2 DEF Request, Tokens, Owner, OwnerShape

(* What is left of a window once its head is settled.                      *)
LEMMA Tailed ==
  ASSUME WindowTypes, NEW s \in Peers, pending[s] # <<>>
  PROVE  /\ Tail(pending[s]) \in Seq(Tokens)
         /\ 1 \in DOMAIN pending[s] /\ Head(pending[s]) = pending[s][1]
         /\ \A i \in DOMAIN Tail(pending[s]) :
              i \in Nat /\ i + 1 \in DOMAIN pending[s] /\ Tail(pending[s])[i] = pending[s][i + 1]
         /\ \A i \in DOMAIN pending[s] :
              i # 1 => i \in Nat /\ i - 1 \in DOMAIN Tail(pending[s])
                       /\ Tail(pending[s])[i - 1] = pending[s][i]
  BY DEF WindowTypes

(* A window with one more request.                                         *)
LEMMA Appended ==
  ASSUME WindowTypes, NEW s \in Peers, NEW r \in Tokens
  PROVE  /\ Append(pending[s], r) \in Seq(Tokens)
         /\ Len(pending[s]) + 1 \in DOMAIN Append(pending[s], r)
         /\ Append(pending[s], r)[Len(pending[s]) + 1] = r
         /\ \A i \in DOMAIN pending[s] :
              i \in DOMAIN Append(pending[s], r) /\ Append(pending[s], r)[i] = pending[s][i]
         /\ \A i \in DOMAIN Append(pending[s], r) :
              i \in DOMAIN pending[s] \/ i = Len(pending[s]) + 1
  BY DEF WindowTypes

(* A window one of whose requests has received a fragment.                 *)
LEMMA Fed ==
  ASSUME WindowTypes, NEW s \in Peers, NEW i \in DOMAIN pending[s], Feeds(s, i)
  PROVE  /\ pending'[s] \in Seq(Tokens) /\ DOMAIN pending'[s] = DOMAIN pending[s]
         /\ pending' = [pending EXCEPT ![s] = pending'[s]]
         /\ \A j \in DOMAIN pending[s] :
              /\ pending'[s][j].key = pending[s][j].key
              /\ pending'[s][j].lease = pending[s][j].lease
              /\ j # i => pending'[s][j].got = pending[s][j].got
  <1> DEFINE r == [pending[s][i] EXCEPT !.got = @ + 1]
             q == [pending[s] EXCEPT ![i] = r]
  <1>1. pending' = [pending EXCEPT ![s] = q]
    BY Zenon DEF Feeds
  <1>2. pending[s] \in Seq(Tokens) /\ pending[s][i] \in Tokens
    BY DEF WindowTypes
  <1>3. r \in Tokens /\ r.key = pending[s][i].key /\ r.lease = pending[s][i].lease
    <2>1. pending[s][i].got + 1 \in Nat
      BY SMTT(60), <1>2 DEF Tokens
    <2> DEFINE more == pending[s][i].got + 1
    <2>2. r = [pending[s][i] EXCEPT !.got = more]
      BY Zenon
    <2> HIDE DEF r, more
    <2> QED
      BY Zenon, <1>2, <2>1, <2>2 DEF Tokens, more
  <1> HIDE DEF r
  <1>4. q \in Seq(Tokens) /\ DOMAIN q = DOMAIN pending[s]
    BY <1>2, <1>3
  <1>5. \A j \in DOMAIN q : q[j] = IF j = i THEN r ELSE pending[s][j]
    BY Zenon, <1>2
  <1> HIDE DEF q
  <1>6. pending'[s] = q
    BY Zenon, <1>1 DEF WindowTypes
  <1> QED
    BY Zenon, <1>1, <1>3, <1>4, <1>5, <1>6

(* Noting a payload leaves every reservation with its owner.               *)
LEMMA Noted ==
  ASSUME RegistryTypes, NEW s, NEW r
  PROVE  /\ DOMAIN NotePayload(s, r) = DOMAIN registry
         /\ \A k \in DOMAIN registry :
              /\ DOMAIN NotePayload(s, r)[k] = OwnerShape
              /\ NotePayload(s, r)[k].peer = registry[k].peer
              /\ NotePayload(s, r)[k].lease = registry[k].lease
              /\ NotePayload(s, r)[k].moved \in BOOLEAN
              /\ registry[k].moved => NotePayload(s, r)[k].moved
              /\ k = r.key /\ registry[k].lease = r.lease => NotePayload(s, r)[k].moved
  <1>1. DOMAIN NotePayload(s, r) = DOMAIN registry
    BY Zenon DEF NotePayload
  <1>2. ASSUME NEW k \in DOMAIN registry
        PROVE  /\ DOMAIN NotePayload(s, r)[k] = OwnerShape
               /\ NotePayload(s, r)[k].peer = registry[k].peer
               /\ NotePayload(s, r)[k].lease = registry[k].lease
               /\ NotePayload(s, r)[k].moved
                    = (registry[k].moved \/ (k = r.key /\ registry[k].lease = r.lease))
    <2>1. DOMAIN registry[k] = OwnerShape
      BY Zenon DEF RegistryTypes
    <2> QED
      BY Zenon, <2>1 DEF NotePayload, OwnerShape
  <1> QED
    BY Zenon, <1>1, <1>2

(* A reservation that grows older stays as it is otherwise.                *)
LEMMA Aged ==
  ASSUME RegistryTypes, NEW k \in DOMAIN registry, Ages(k)
  PROVE  /\ DOMAIN registry' = DOMAIN registry
         /\ \A l \in DOMAIN registry :
              /\ DOMAIN registry'[l] = OwnerShape
              /\ registry'[l].peer = registry[l].peer /\ registry'[l].lease = registry[l].lease
              /\ registry'[l].moved = registry[l].moved
  <1>1. \A l \in DOMAIN registry : DOMAIN registry[l] = OwnerShape
    BY Zenon DEF RegistryTypes
  <1> QED
    BY Zenon, <1>1 DEF Ages, OwnerShape

(* Giving tokens up leaves the other reservations as they are.             *)
LEMMA Released ==
  ASSUME NEW tokens
  PROVE  /\ DOMAIN Release(tokens) \subseteq DOMAIN registry
         /\ \A k \in DOMAIN Release(tokens) :
              /\ Release(tokens)[k] = registry[k]
              /\ \A r \in tokens : ~(r.key = k /\ r.lease = registry[k].lease)
         /\ \A k \in DOMAIN registry \ DOMAIN Release(tokens) :
              \E r \in tokens : r.key = k /\ r.lease = registry[k].lease
  BY Zenon DEF Release

(* Windows hold requests, the registry owners of live sessions.            *)
LEMMA TypesKept ==
  ASSUME DownloadWindowAssumption, Types, Moves
  PROVE  WindowTypes' /\ RegistryTypes'
  <1> USE DEF Types
  <1>1. CASE Rests
    BY Zenon, <1>1 DEF Rests, WindowTypes, RegistryTypes
  <1>2. ASSUME NEW k \in DOMAIN registry, Ages(k) PROVE WindowTypes' /\ RegistryTypes'
    <2>1. WindowTypes'
      BY Zenon, <1>2 DEF Ages, WindowTypes
    <2> QED
      BY Zenon, <1>2, <2>1, Aged DEF RegistryTypes
  <1>3. ASSUME NEW s \in Peers, NEW k \in NextKeys(s), Takes(s, k)
        PROVE  WindowTypes' /\ RegistryTypes'
    <2>1. WindowTypes'
      <3>1. Append(pending[s], Request(k)) \in Seq(Tokens)
        BY Zenon, NewRequestType, Appended
      <3> QED
        BY Zenon, <1>3, <3>1 DEF Takes, WindowTypes
    <2>2. ASSUME NEW l \in DOMAIN registry'
          PROVE  IF l = k THEN registry'[l] = Owner(s)
                 ELSE l \in DOMAIN registry /\ registry'[l] = registry[l]
      BY Zenon, <1>3, <2>2 DEF Takes
    <2>3. k \in Ranges /\ NewLease \in Nat
      BY Zenon, NewRequestType, NewLeaseFresh
    <2>4. ASSUME NEW l \in DOMAIN registry'
          PROVE  /\ l \in Ranges /\ DOMAIN registry'[l] = OwnerShape
                 /\ registry'[l].peer \in Peers /\ registry'[l].lease \in Nat
                 /\ registry'[l].moved \in BOOLEAN
      <3>1. CASE l = k
        BY ZenonT(60), <2>2, <2>3, <3>1, NewRequestType
      <3>2. CASE l # k
        BY Zenon, <2>2, <3>2 DEF RegistryTypes
      <3> QED
        BY Zenon, <3>1, <3>2
    <2>5. RegistryTypes'
      BY Zenon, <2>4 DEF RegistryTypes
    <2> QED
      BY Zenon, <2>1, <2>5
  <1>4. ASSUME NEW s \in Peers, NEW q \in Seq(Tokens), Changes(s, q)
        PROVE  WindowTypes' /\ RegistryTypes'
    BY Zenon, <1>4 DEF Changes, WindowTypes, RegistryTypes
  <1>5. ASSUME NEW s \in Peers, NEW i \in DOMAIN pending[s], Feeds(s, i)
        PROVE  WindowTypes' /\ RegistryTypes'
    <2>1. WindowTypes'
      <3>1. pending' = [pending EXCEPT ![s] = pending'[s]] /\ pending'[s] \in Seq(Tokens)
        BY Zenon, <1>5, Fed
      <3> QED
        BY Zenon, <3>1 DEF WindowTypes
    <2>2. registry' = NotePayload(s, pending[s][i])
      BY Zenon, <1>5 DEF Feeds
    <2>3. RegistryTypes'
      <3>1. DOMAIN registry' = DOMAIN registry
        BY <2>2, Noted
      <3>2. \A k \in DOMAIN registry :
              /\ DOMAIN registry'[k] = OwnerShape /\ registry'[k].peer = registry[k].peer
              /\ registry'[k].lease = registry[k].lease /\ registry'[k].moved \in BOOLEAN
        BY <2>2, Noted
      <3> QED
        BY Zenon, <3>1, <3>2 DEF RegistryTypes
    <2> QED
      BY Zenon, <2>1, <2>3
  <1>6. ASSUME NEW s \in Peers, Settles(s) PROVE WindowTypes' /\ RegistryTypes'
    <2>1. Tail(pending[s]) \in Seq(Tokens)
      BY Zenon, <1>6, Tailed DEF Settles
    <2>2. WindowTypes'
      BY Zenon, <1>6, <2>1 DEF Settles, WindowTypes
    <2>3. \A l \in DOMAIN registry' : l \in DOMAIN registry /\ registry'[l] = registry[l]
      BY <1>6, Released DEF Settles
    <2>4. RegistryTypes'
      BY Zenon, <2>3 DEF RegistryTypes
    <2> QED
      BY Zenon, <2>2, <2>4
  <1>7. ASSUME NEW s \in Peers, Drops(s) PROVE WindowTypes' /\ RegistryTypes'
    <2>1. WindowTypes'
      BY <1>7 DEF Drops, WindowTypes
    <2>2. \A l \in DOMAIN registry' : l \in DOMAIN registry /\ registry'[l] = registry[l]
      BY <1>7, Released DEF Drops
    <2>3. RegistryTypes'
      BY Zenon, <2>2 DEF RegistryTypes
    <2> QED
      BY Zenon, <2>1, <2>3
  <1> QED
    BY Zenon, <1>1, <1>2, <1>3, <1>4, <1>5, <1>6, <1>7 DEF Moves

-----------------------------------------------------------------------------
(* The moves keep the tokens and the registry together                     *)

\* A window holds the token of a reservation.
Backs(w, k, lease) == \E i \in DOMAIN w : w[i].key = k /\ w[i].lease = lease

(* No move strands a reservation: whoever removes a request from a window  *)
(* releases its token in the same step.                                    *)
LEMMA BackedKept ==
  ASSUME DownloadWindowAssumption, Types, RegistryBacked, Moves
  PROVE  RegistryBacked'
  <1> USE DEF Types
  <1>0. /\ \A k \in DOMAIN registry :
             /\ registry[k].peer \in Peers
             /\ Backs(pending[registry[k].peer], k, registry[k].lease)
        /\ DOMAIN pending = Peers
    BY DEF RegistryTypes, RegistryBacked, Range, Backs, WindowTypes
  <1> SUFFICES ASSUME NEW k \in DOMAIN registry'
               PROVE  Backs(pending'[registry'[k].peer], k, registry'[k].lease)
    BY SMTT(60) DEF RegistryBacked, Range, Backs
  <1> DEFINE Goal == Backs(pending'[registry'[k].peer], k, registry'[k].lease)
  <1>1. CASE Rests
    BY Zenon, <1>0, <1>1 DEF Rests
  <1>2. ASSUME NEW l \in DOMAIN registry, Ages(l) PROVE Goal
    <2>1. k \in DOMAIN registry /\ pending' = pending
          /\ registry'[k].peer = registry[k].peer /\ registry'[k].lease = registry[k].lease
      BY Zenon, <1>2, Aged DEF Ages
    <2> QED
      BY Zenon, <1>0, <2>1
  <1>3. ASSUME NEW s \in Peers, NEW l \in NextKeys(s), Takes(s, l) PROVE Goal
    <2>1. /\ Request(l) \in Tokens /\ Request(l).key = l /\ Request(l).lease = NewLease
          /\ Owner(s).peer = s /\ Owner(s).lease = NewLease
      BY ZenonT(60), NewRequestType
    <2>2. /\ \A u \in Peers : pending'[u] = IF u = s THEN Append(pending[s], Request(l)) ELSE pending[u]
          /\ IF k = l THEN registry'[k] = Owner(s)
             ELSE k \in DOMAIN registry /\ registry'[k] = registry[k]
      BY Zenon, <1>0, <1>3 DEF Takes
    <2> DEFINE w == Append(pending[s], Request(l))
               n == Len(pending[s]) + 1
    <2>3. /\ n \in DOMAIN w /\ w[n] = Request(l)
          /\ \A i \in DOMAIN pending[s] : i \in DOMAIN w /\ w[i] = pending[s][i]
      BY Zenon, <2>1, Appended
    <2>4. \A u \in Peers : pending'[u] = IF u = s THEN w ELSE pending[u]
      BY Zenon, <2>2
    <2> HIDE DEF w, n
    <2>5. CASE k = l
      <3>1. registry'[k].peer = s /\ registry'[k].lease = NewLease /\ pending'[s] = w
        BY Zenon, <2>1, <2>2, <2>4, <2>5
      <3>2. Backs(w, k, NewLease)
        BY Zenon, <2>1, <2>3, <2>5 DEF Backs
      <3> QED
        BY Zenon, <3>1, <3>2
    <2>6. CASE k # l
      <3>1. \A u \in Peers : \A m : Backs(pending[u], k, m) => Backs(pending'[u], k, m)
        BY Zenon, <2>3, <2>4 DEF Backs
      <3> QED
        BY Zenon, <1>0, <2>2, <2>6, <3>1
    <2> QED
      BY Zenon, <2>5, <2>6
  <1>4. ASSUME NEW s \in Peers, NEW q \in Seq(Tokens), Changes(s, q) PROVE Goal
    <2>1. /\ \A u \in Peers : pending'[u] = IF u = s THEN q ELSE pending[u]
          /\ registry' = registry
      BY Zenon, <1>0, <1>4 DEF Changes
    <2> QED
      BY <1>0, <1>4, <2>1 DEF Backs, Changes
  <1>5. ASSUME NEW s \in Peers, NEW i \in DOMAIN pending[s], Feeds(s, i) PROVE Goal
    <2>1. /\ k \in DOMAIN registry /\ registry'[k].peer = registry[k].peer
          /\ registry'[k].lease = registry[k].lease
      BY <1>5, Noted DEF Feeds
    <2>2. pending' = [pending EXCEPT ![s] = pending'[s]]
      BY Zenon, <1>5, Fed
    <2>3. \A u \in Peers : u # s => pending'[u] = pending[u]
      BY Zenon, <1>0, <2>2
    <2>4. \A j \in DOMAIN pending[s] :
             /\ j \in DOMAIN pending'[s] /\ pending'[s][j].key = pending[s][j].key
             /\ pending'[s][j].lease = pending[s][j].lease
      BY SMTT(60), <1>0, <1>5, Fed
    <2>5. \A lease : Backs(pending[s], k, lease) => Backs(pending'[s], k, lease)
      BY Zenon, <2>4 DEF Backs
    <2> QED
      BY Zenon, <1>0, <2>1, <2>3, <2>5
  <1>6. ASSUME NEW s \in Peers, Settles(s) PROVE Goal
    <2>1. /\ k \in DOMAIN registry /\ registry'[k] = registry[k]
          /\ ~(Head(pending[s]).key = k /\ Head(pending[s]).lease = registry[k].lease)
      BY <1>6, Released DEF Settles
    <2>2. \A u \in Peers : pending'[u] = IF u = s THEN Tail(pending[s]) ELSE pending[u]
      BY Zenon, <1>0, <1>6 DEF Settles
    <2> DEFINE w == Tail(pending[s])
    <2>3. /\ Head(pending[s]) = pending[s][1]
          /\ \A i \in DOMAIN pending[s] : i # 1 => i - 1 \in DOMAIN w /\ w[i - 1] = pending[s][i]
      BY Zenon, <1>6, Tailed DEF Settles
    <2>4. \A u \in Peers : pending'[u] = IF u = s THEN w ELSE pending[u]
      BY Zenon, <2>2
    <2> HIDE DEF w
    <2>5. Backs(pending[s], k, registry[k].lease) => Backs(w, k, registry[k].lease)
      BY Zenon, <2>1, <2>3 DEF Backs
    <2> QED
      BY Zenon, <1>0, <2>1, <2>4, <2>5
  <1>7. ASSUME NEW s \in Peers, Drops(s) PROVE Goal
    <2>1. /\ k \in DOMAIN registry /\ registry'[k] = registry[k]
          /\ \A r \in Range(pending[s]) : ~(r.key = k /\ r.lease = registry[k].lease)
      BY <1>7, Released DEF Drops
    <2>2. \A u \in Peers : u # s => pending'[u] = pending[u]
      BY Zenon, <1>0, <1>7 DEF Drops
    <2> QED
      BY <1>0, <2>1, <2>2 DEF Backs, Range
  <1> QED
    BY Zenon, <1>1, <1>2, <1>3, <1>4, <1>5, <1>6, <1>7 DEF Moves

(* The windows after a reservation: the taker's has one more request.      *)
LEMMA Taken ==
  ASSUME DownloadWindowAssumption, Types, NEW s \in Peers, NEW k \in NextKeys(s), Takes(s, k)
  PROVE  /\ \A u \in Peers : \A i \in DOMAIN pending'[u] :
              \/ u = s /\ i = Len(pending[s]) + 1 /\ pending'[u][i] = Request(k)
              \/ i \in DOMAIN pending[u] /\ pending'[u][i] = pending[u][i]
         /\ \A u \in Peers : \A i \in DOMAIN pending[u] : pending[u][i].lease # NewLease
  <1> USE DEF Types
  <1> DEFINE n == Len(pending[s]) + 1
             w == Append(pending[s], Request(k))
  <1>1. Request(k) \in Tokens
    BY Zenon, NewRequestType
  <1>2. \A u \in Peers : pending'[u] = IF u = s THEN w ELSE pending[u]
    BY Zenon DEF Takes, WindowTypes
  <1>3. /\ w[n] = Request(k) /\ \A i \in DOMAIN pending[s] : w[i] = pending[s][i]
        /\ \A i \in DOMAIN w : i \in DOMAIN pending[s] \/ i = n
    BY Zenon, <1>1, Appended
  <1>4. \A u \in Peers : \A i \in DOMAIN pending[u] : pending[u][i].lease # NewLease
    BY NewLeaseFresh DEF LiveLeases
  <1> HIDE DEF w
  <1>5. \A u \in Peers : \A i \in DOMAIN pending'[u] :
           \/ u = s /\ i = n /\ pending'[u][i] = Request(k)
           \/ i \in DOMAIN pending[u] /\ pending'[u][i] = pending[u][i]
    <2> HIDE DEF n
    <2> QED
      BY Zenon, <1>2, <1>3
  <1> QED
    BY Zenon, <1>4, <1>5

(* Every window after a move holds requests of the window before, each at  *)
(* a place of its own, and at most one new one.                            *)
LEMMA OneTokenKept ==
  ASSUME DownloadWindowAssumption, Types, OneToken, Moves
  PROVE  OneToken'
  <1> USE DEF Types
  <1>0. DOMAIN pending = Peers
    BY Zenon DEF WindowTypes
  <1>1. CASE Rests \/ \E k \in DOMAIN registry : Ages(k)
    BY <1>1 DEF Rests, Ages, OneToken
  <1>2. ASSUME NEW s \in Peers, NEW k \in NextKeys(s), Takes(s, k) PROVE OneToken'
    <2> DEFINE n == Len(pending[s]) + 1
    <2>1. Request(k) \in Tokens /\ Request(k).lease = NewLease
      BY ZenonT(60), NewRequestType
    <2>3. \A u \in Peers : \A i \in DOMAIN pending[u] : pending[u][i].lease # NewLease
      BY Zenon, <1>2, Taken
    <2>4. \A u \in Peers : \A i \in DOMAIN pending'[u] :
             \/ u = s /\ i = n /\ pending'[u][i].lease = NewLease
             \/ i \in DOMAIN pending[u] /\ pending'[u][i] = pending[u][i]
      BY <1>2, <2>1, Taken
    <2> HIDE DEF n
    <2> QED
      BY <2>3, <2>4 DEF OneToken
  <1>3. ASSUME NEW s \in Peers, NEW q \in Seq(Tokens), Changes(s, q) PROVE OneToken'
    <2>1. \A u \in Peers : pending'[u] = IF u = s THEN q ELSE pending[u]
      BY Zenon, <1>0, <1>3 DEF Changes
    <2>2. \A u \in Peers : \A i \in DOMAIN pending'[u] :
             i \in DOMAIN pending[u] /\ pending'[u][i].lease = pending[u][i].lease
      BY <1>3, <2>1 DEF Changes
    <2> QED
      BY <2>2 DEF OneToken
  <1>4. ASSUME NEW s \in Peers, NEW i \in DOMAIN pending[s], Feeds(s, i) PROVE OneToken'
    <2>1. pending' = [pending EXCEPT ![s] = pending'[s]]
      BY Zenon, <1>4, Fed
    <2>2. \A u \in Peers : u # s => pending'[u] = pending[u]
      BY Zenon, <1>0, <2>1
    <2>3. \A u \in Peers : \A j \in DOMAIN pending'[u] :
             j \in DOMAIN pending[u] /\ pending'[u][j].lease = pending[u][j].lease
      BY <1>4, <2>2, Fed
    <2> QED
      BY <2>3 DEF OneToken
  <1>5. ASSUME NEW s \in Peers, Settles(s) PROVE OneToken'
    <2>1. \A u \in Peers : pending'[u] = IF u = s THEN Tail(pending[s]) ELSE pending[u]
      BY Zenon, <1>0, <1>5 DEF Settles
    <2>2. \A i \in DOMAIN pending'[s] :
             i \in Nat /\ i + 1 \in DOMAIN pending[s] /\ pending'[s][i] = pending[s][i + 1]
      <3>1. pending'[s] = Tail(pending[s])
        BY Zenon, <2>1
      <3>2. \A i \in DOMAIN Tail(pending[s]) :
               i \in Nat /\ i + 1 \in DOMAIN pending[s] /\ Tail(pending[s])[i] = pending[s][i + 1]
        BY Zenon, <1>5, Tailed DEF Settles
      <3> QED
        BY Zenon, <3>1, <3>2
    <2>3. ASSUME NEW i \in DOMAIN pending'[s], NEW j \in DOMAIN pending'[s],
                 pending'[s][i].lease = pending'[s][j].lease
          PROVE  i = j
      <3>1. i + 1 = j + 1
        BY <2>2, <2>3 DEF OneToken
      <3> QED
        BY <2>2, <3>1
    <2>4. \A u \in Peers : u # s => pending'[u] = pending[u]
      BY Zenon, <2>1
    <2> QED
      BY <2>2, <2>3, <2>4 DEF OneToken
  <1>6. ASSUME NEW s \in Peers, Drops(s) PROVE OneToken'
    <2>1. /\ \A u \in Peers : u # s => pending'[u] = pending[u]
          /\ DOMAIN pending'[s] = {}
      BY <1>0, <1>6 DEF Drops
    <2> QED
      BY <2>1 DEF OneToken
  <1> QED
    BY Zenon, <1>1, <1>2, <1>3, <1>4, <1>5, <1>6 DEF Moves

(* A request that has received something keeps its reservation from being  *)
(* taken over: note_payload() runs in the step that counts the bytes.      *)
LEMMA UnmovedKept ==
  ASSUME DownloadWindowAssumption, Types, UnmovedIsEmpty, Moves
  PROVE  UnmovedIsEmpty'
  <1> USE DEF Types
  <1> DEFINE Idle(r) == /\ r.key \in DOMAIN registry /\ registry[r.key].lease = r.lease
                        /\ ~registry[r.key].moved
             IdleNext(r) == /\ r.key \in DOMAIN registry' /\ registry'[r.key].lease = r.lease
                            /\ ~registry'[r.key].moved
  <1>0. /\ DOMAIN pending = Peers
        /\ \A u \in Peers : \A i \in DOMAIN pending[u] :
             Idle(pending[u][i]) => pending[u][i].got = pending[u][i].key[2]
    BY Zenon DEF WindowTypes, UnmovedIsEmpty
  <1> SUFFICES ASSUME NEW u \in Peers, NEW i \in DOMAIN pending'[u], IdleNext(pending'[u][i])
               PROVE  pending'[u][i].got = pending'[u][i].key[2]
    BY Zenon DEF UnmovedIsEmpty
  <1> DEFINE r == pending'[u][i]
             Goal == r.got = r.key[2]
  <1>1. CASE Rests
    BY Zenon, <1>0, <1>1 DEF Rests
  <1>2. ASSUME NEW k \in DOMAIN registry, Ages(k) PROVE Goal
    <2>1. /\ pending' = pending /\ DOMAIN registry' = DOMAIN registry
          /\ \A l \in DOMAIN registry :
               registry'[l].lease = registry[l].lease /\ registry'[l].moved = registry[l].moved
      BY Zenon, <1>2, Aged DEF Ages
    <2> QED
      BY Zenon, <1>0, <2>1
  <1>3. ASSUME NEW s \in Peers, NEW k \in NextKeys(s), Takes(s, k) PROVE Goal
    <2>1. Request(k).key = k /\ Request(k).got = k[2] /\ Owner(s).lease = NewLease
      BY Zenon, NewRequestType
    <2>2. \A v \in Peers : \A m \in DOMAIN pending'[v] :
             \/ v = s /\ m = Len(pending[s]) + 1 /\ pending'[v][m] = Request(k)
             \/ m \in DOMAIN pending[v] /\ pending'[v][m] = pending[v][m]
      BY Zenon, <1>3, Taken
    <2>3. \A l \in DOMAIN registry' : IF l = k THEN registry'[l] = Owner(s)
             ELSE l \in DOMAIN registry /\ registry'[l] = registry[l]
      BY Zenon, <1>3 DEF Takes
    <2>4. r = Request(k) \/ (i \in DOMAIN pending[u] /\ r = pending[u][i])
      BY Zenon, <2>2
    <2>5. ASSUME i \in DOMAIN pending[u], r = pending[u][i] PROVE Goal
      <3>1. r.lease # NewLease
        <4>1. \A v \in Peers : \A m \in DOMAIN pending[v] : pending[v][m].lease # NewLease
          BY Zenon, <1>3, Taken
        <4> QED
          BY Zenon, <2>5, <4>1
      <3>2. r.key # k
        BY Zenon, <2>1, <2>3, <3>1
      <3>3. Idle(r)
        BY Zenon, <2>3, <3>2
      <3> QED
        BY Zenon, <1>0, <2>5, <3>3
    <2> QED
      BY Zenon, <2>1, <2>4, <2>5
  <1>4. ASSUME NEW s \in Peers, NEW q \in Seq(Tokens), Changes(s, q) PROVE Goal
    <2>1. /\ \A v \in Peers : pending'[v] = IF v = s THEN q ELSE pending[v]
          /\ registry' = registry
      BY Zenon, <1>0, <1>4 DEF Changes
    <2>2. /\ i \in DOMAIN pending[u] /\ r.key = pending[u][i].key
          /\ r.lease = pending[u][i].lease /\ r.got = pending[u][i].got
      BY SMTT(30), <1>4, <2>1 DEF Changes
    <2> QED
      BY <1>0, <2>1, <2>2
  <1>5. ASSUME NEW s \in Peers, NEW j \in DOMAIN pending[s], Feeds(s, j) PROVE Goal
    <2>1. pending' = [pending EXCEPT ![s] = pending'[s]]
      BY Zenon, <1>5, Fed
    <2>2. \A v \in Peers : v # s => pending'[v] = pending[v]
      BY Zenon, <1>0, <2>1
    <2>3. /\ i \in DOMAIN pending[u] /\ r.key = pending[u][i].key
          /\ r.lease = pending[u][i].lease
          /\ r.got = pending[u][i].got \/ (u = s /\ i = j)
      <3>1. /\ DOMAIN pending'[s] = DOMAIN pending[s]
            /\ \A m \in DOMAIN pending[s] :
                 /\ pending'[s][m].key = pending[s][m].key
                 /\ pending'[s][m].lease = pending[s][m].lease
                 /\ m # j => pending'[s][m].got = pending[s][m].got
        BY Zenon, <1>5, Fed
      <3> QED
        BY Zenon, <2>2, <3>1
    <2>4. /\ DOMAIN registry' = DOMAIN registry
          /\ \A k \in DOMAIN registry :
               /\ registry'[k].lease = registry[k].lease
               /\ registry[k].moved => registry'[k].moved
               /\ k = pending[s][j].key /\ registry[k].lease = pending[s][j].lease
                    => registry'[k].moved
      <3>1. registry' = NotePayload(s, pending[s][j])
        BY Zenon, <1>5 DEF Feeds
      <3> DEFINE q == pending[s][j]
      <3>2. \A k \in DOMAIN registry :
              /\ NotePayload(s, q)[k].lease = registry[k].lease
              /\ registry[k].moved => NotePayload(s, q)[k].moved
              /\ k = q.key /\ registry[k].lease = q.lease => NotePayload(s, q)[k].moved
        BY SMTT(60), Noted
      <3>3. DOMAIN NotePayload(s, q) = DOMAIN registry
        BY Noted
      <3> QED
        BY Zenon, <3>1, <3>2, <3>3
    <2>5. Idle(pending[u][i])
      BY Zenon, <2>3, <2>4
    <2>6. ~(u = s /\ i = j)
      BY SMTT(60), <2>3, <2>4
    <2> QED
      BY Zenon, <1>0, <2>3, <2>5, <2>6
  <1>6. ASSUME NEW s \in Peers, Settles(s) PROVE Goal
    <2>1. \A k \in DOMAIN registry' : k \in DOMAIN registry /\ registry'[k] = registry[k]
      <3>1. registry' = Release({Head(pending[s])})
        BY Zenon, <1>6 DEF Settles
      <3> QED
        BY <3>1, Released
    <2>2. \A v \in Peers : pending'[v] = IF v = s THEN Tail(pending[s]) ELSE pending[v]
      BY Zenon, <1>0, <1>6 DEF Settles
    <2>3. \A m \in DOMAIN Tail(pending[s]) :
             m + 1 \in DOMAIN pending[s] /\ Tail(pending[s])[m] = pending[s][m + 1]
      BY Zenon, <1>6, Tailed DEF Settles
    <2>4. \E m \in DOMAIN pending[u] : r = pending[u][m]
      BY ZenonT(60), <2>2, <2>3
    <2> QED
      BY <1>0, <2>1, <2>4
  <1>7. ASSUME NEW s \in Peers, Drops(s) PROVE Goal
    <2>1. \A k \in DOMAIN registry' : k \in DOMAIN registry /\ registry'[k] = registry[k]
      BY SMTT(60), <1>7, Released DEF Drops
    <2>2. i \in DOMAIN pending[u] /\ r = pending[u][i]
      <3>1. \A v \in Peers : pending'[v] = IF v = s THEN <<>> ELSE pending[v]
        BY Zenon, <1>0, <1>7 DEF Drops
      <3>2. DOMAIN <<>> = {}
        OBVIOUS
      <3> QED
        BY Zenon, <3>1, <3>2
    <2> QED
      BY Zenon, <1>0, <2>1, <2>2
  <1> QED
    BY Zenon, <1>1, <1>2, <1>3, <1>4, <1>5, <1>6, <1>7 DEF Moves

-----------------------------------------------------------------------------
(* The pieces                                                              *)

(* A finite bitmap, once applied to a piece, makes a piece again.          *)
LEMMA AppliedPiece ==
  ASSUME DownloadWindowAssumption, NEW piece \in Pieces, NEW B \in Bitmap
  PROVE  ApplyBlockBitmap(piece, B) \in Pieces
  <1> DEFINE prefix == {b \in B : 0 .. b \subseteq B}
             n == Frag * Cardinality(prefix)
             c == IF prefix = B THEN {} ELSE B
  <1>1. Cardinality(prefix) \in Nat
    <2>1. IsFiniteSet(prefix)
      BY Zenon, FS_Subset DEF Bitmap
    <2> QED
      BY Zenon, <2>1, FS_CardinalityType
  <1>2. n \in Nat
    <2> HIDE DEF prefix
    <2> QED
      BY <1>1 DEF DownloadWindowAssumption, PieceStateAssumption
  <1>3. c \in Bitmap
    BY Zenon, FS_EmptySet DEF Bitmap
  <1>4. ApplyBlockBitmap(piece, B) = [piece EXCEPT !.bytes_written = n, !.block_bitmap = c]
    BY Zenon DEF ApplyBlockBitmap
  <1> HIDE DEF n, c
  <1> QED
    BY Zenon, <1>2, <1>3, <1>4 DEF Pieces

(* The blocks a piece is known to have are finitely many.                  *)
LEMMA ResolvedBitmap ==
  ASSUME DownloadWindowAssumption, NEW piece \in Pieces
  PROVE  ResolveBlockBitmap(piece) \in Bitmap
  <1> DEFINE whole == {b \in Blocks : (b + 1) * Frag <= piece.bytes_written}
  <1>1. IsFiniteSet(Blocks) /\ Blocks \subseteq Nat
    <2>1. 0 \in Int /\ NumBlocks - 1 \in Int
      BY DEF DownloadWindowAssumption, PieceStateAssumption
    <2> QED
      BY <2>1, FS_Interval DEF Blocks
  <1>2. whole \in Bitmap
    <2>1. whole \subseteq Blocks
      BY Zenon
    <2> HIDE DEF whole
    <2> QED
      BY Zenon, <1>1, <2>1, FS_Subset DEF Bitmap
  <1>3. piece.block_bitmap \in Bitmap
    BY Zenon DEF Pieces
  <1> QED
    BY Zenon, <1>2, <1>3 DEF ResolveBlockBitmap

(* A finite bitmap stays one when blocks are added to it.                  *)
LEMMA JoinedBitmap ==
  ASSUME NEW B \in Bitmap, NEW C \in Bitmap
  PROVE  B \cup C \in Bitmap
  BY Zenon, FS_Union DEF Bitmap

(* Whatever a write makes of a piece is a piece.                           *)
LEMMA OutcomesTyped ==
  ASSUME DownloadWindowAssumption, NEW piece \in Pieces, NEW from \in Nat, NEW to \in Nat,
         NEW outcome \in Outcomes(piece, from, to)
  PROVE  outcome \in Pieces
  <1>0. PartLen \in Nat /\ {} \in Bitmap
    BY FS_EmptySet DEF PartLen, Bitmap, DownloadWindowAssumption, PieceStateAssumption
  <1>1. VerifiedPiece \in Pieces
    BY Zenon, <1>0 DEF VerifiedPiece, Pieces
  <1>2. Gapped(TRUE) \in Pieces
    BY Zenon, <1>0 DEF Gapped, Empty, Pieces
  <1>3. Written(piece, from, to) \in Pieces
    <2>1. [piece EXCEPT !.bytes_written = to] \in Pieces
      BY Zenon DEF Pieces
    <2>2. {from \div Frag} \in Bitmap
      <3>1. from \div Frag \in Nat
        BY DEF DownloadWindowAssumption, PieceStateAssumption
      <3>2. IsFiniteSet({from \div Frag})
        BY Zenon, FS_Singleton
      <3> QED
        BY Zenon, <3>1, <3>2 DEF Bitmap
    <2>3. ResolveBlockBitmap(piece) \cup {from \div Frag} \in Bitmap
      BY Zenon, <2>2, ResolvedBitmap, JoinedBitmap
    <2>4. ApplyBlockBitmap(piece, ResolveBlockBitmap(piece) \cup {from \div Frag}) \in Pieces
      BY Zenon, <2>3, AppliedPiece
    <2> QED
      BY Zenon, <2>1, <2>4 DEF Written
  <1> QED
    BY Zenon, <1>1, <1>2, <1>3 DEF Outcomes

(* A write leaves pieces in the manifest.                                  *)
LEMMA WriteKeepsPieces ==
  ASSUME DownloadWindowAssumption, PieceTypes, NEW s, NEW p \in Parts,
         NEW from \in Nat, NEW to \in Nat, NEW paid, Write(s, p, from, to, paid)
  PROVE  PieceTypes'
  <1>1. PICK outcome \in Outcomes(pieces[p], from, to) : pieces' = [pieces EXCEPT ![p] = outcome]
    BY Zenon DEF Write
  <1>2. pieces[p] \in Pieces
    BY Zenon DEF PieceTypes
  <1>3. outcome \in Pieces
    BY Zenon, <1>2, OutcomesTyped
  <1> QED
    BY Zenon, <1>1, <1>3 DEF PieceTypes

(* The steps that write into the manifest.                                 *)
Writes(s) ==
  \/ FlushReadyBlock(s) \/ FlushBufferedPrefix(s)
  \/ \E p \in Parts, good \in SUBSET Blocks : BeginPartSalvage(s, p, good)

(* Only those three change the pieces.                                     *)
LEMMA OthersLeavePieces ==
  ASSUME [Next]_vars, \A s \in Peers : ~Writes(s)
  PROVE  pieces' = pieces
  BY Zenon DEF Next, Step, Answer, vars, Writes, Connect, LeaseBlock, FillEnds, RequestParts, FlushEnds,
         CloseEnds, DropSession, Receive, GoesQuiet, Abort, StreamFails, DropStaleBlockPacket,
         AgeLease, CoolDown, Finished

(* Pieces stay pieces.                                                     *)
LEMMA PiecesKept ==
  ASSUME DownloadWindowAssumption, Types, [Next]_vars
  PROVE  PieceTypes'
  <1> USE DEF Types
  <1>1. ASSUME NEW s \in Peers, pending[s] # <<>>
        PROVE  /\ Head(pending[s]).key[1] \in Parts
               /\ Head(pending[s]).from \in Nat /\ Head(pending[s]).got \in Nat
    <2>1. Head(pending[s]) \in Tokens
      BY <1>1 DEF WindowTypes
    <2> DEFINE r == Head(pending[s])
    <2> HIDE DEF r
    <2>2. r \in Tokens => r.key[1] \in Parts /\ r.from \in Nat /\ r.got \in Nat
      BY Zenon DEF Tokens, Ranges
    <2> QED
      BY Zenon, <2>1, <2>2 DEF r
  <1>2. DOMAIN <<>> = {}
    OBVIOUS
  <1>3. ASSUME NEW s \in Peers, FlushReadyBlock(s) PROVE PieceTypes'
    <2>1. pending[s] # <<>>
      BY Zenon, <1>2, <1>3 DEF FlushReadyBlock, HeadReady
    <2> DEFINE r == Head(pending[s])
    <2>2. r.key[1] \in Parts /\ r.from \in Nat /\ r.got \in Nat
      BY Zenon, <1>1, <2>1
    <2>3. Write(s, r.key[1], r.from, r.got, TRUE) \/ pieces' = pieces
      BY Zenon, <1>3 DEF FlushReadyBlock
    <2> HIDE DEF r
    <2>4. CASE Write(s, r.key[1], r.from, r.got, TRUE)
      BY Zenon, <2>2, <2>4, WriteKeepsPieces
    <2> QED
      BY Zenon, <2>3, <2>4 DEF PieceTypes
  <1>4. ASSUME NEW s \in Peers, FlushBufferedPrefix(s) PROVE PieceTypes'
    <2>1. pending[s] # <<>>
      BY Zenon, <1>2, <1>4 DEF FlushBufferedPrefix, Holds
    <2> DEFINE r == Head(pending[s])
    <2>2. r.key[1] \in Parts /\ r.from \in Nat /\ r.got \in Nat
      BY Zenon, <1>1, <2>1
    <2>3. Write(s, r.key[1], r.from, r.got, session[s].paid) \/ pieces' = pieces
      BY Zenon, <1>4 DEF FlushBufferedPrefix
    <2> HIDE DEF r
    <2>4. CASE Write(s, r.key[1], r.from, r.got, session[s].paid)
      BY Zenon, <2>2, <2>4, WriteKeepsPieces
    <2> QED
      BY Zenon, <2>3, <2>4 DEF PieceTypes
  <1>5. ASSUME NEW s \in Peers, NEW p \in Parts, NEW good \in SUBSET Blocks,
               BeginPartSalvage(s, p, good)
        PROVE  PieceTypes'
    <2> DEFINE kept == ApplyBlockBitmap(pieces[p], ResolveBlockBitmap(pieces[p]) \cup good)
    <2>1. pieces' = [pieces EXCEPT ![p] = kept] \/ pieces' = pieces
      BY Zenon, <1>5 DEF BeginPartSalvage
    <2>2. pieces[p] \in Pieces
      BY Zenon DEF PieceTypes
    <2>3. good \in Bitmap
      <3>1. IsFiniteSet(Blocks) /\ Blocks \subseteq Nat
        <4>1. 0 \in Int /\ NumBlocks - 1 \in Int
          BY DEF DownloadWindowAssumption, PieceStateAssumption
        <4> QED
          BY <4>1, FS_Interval DEF Blocks
      <3> QED
        BY Zenon, <3>1, FS_Subset DEF Bitmap
    <2>4. ResolveBlockBitmap(pieces[p]) \cup good \in Bitmap
      BY Zenon, <2>2, <2>3, ResolvedBitmap, JoinedBitmap
    <2>5. kept \in Pieces
      BY Zenon, <2>2, <2>4, AppliedPiece
    <2> HIDE DEF kept
    <2> QED
      BY Zenon, <2>1, <2>5 DEF PieceTypes
  <1> QED
    <2>1. CASE \A s \in Peers : ~Writes(s)
      BY Zenon, <2>1, OthersLeavePieces DEF PieceTypes
    <2> QED
      BY Zenon, <1>3, <1>4, <1>5, <2>1 DEF Writes

-----------------------------------------------------------------------------
(* The sessions                                                            *)

\* A step of one session leaves the others where they are.
OthersStay(s) ==
  /\ DOMAIN stage' = Peers /\ DOMAIN session' = Peers
  /\ "active" \in DOMAIN session'[s]
  /\ \A u \in Peers : u # s => /\ stage'[u] = stage[u] /\ session'[u] = session[u]
                               /\ pending'[u] = pending[u]

\* A session that asks with nothing pending has no part; one that waits has asked.
AskedRightly(where, window, part) ==
  /\ where = "asking" /\ window = <<>> => part = NoPart
  /\ where = "reading" => \E i \in DOMAIN window : window[i].queued
RightlyNext(s) == AskedRightly(stage'[s], pending'[s], session'[s].active)

(* At the top of its loop a session with an empty window fills it first.   *)
LEMMA LoopFills ==
  ASSUME DownloadWindowAssumption, SessionTypes, NEW s \in Peers, Loop(s)
  PROVE  /\ DOMAIN stage' = Peers
         /\ \A u \in Peers : u # s => stage'[u] = stage[u]
         /\ stage'[s] # "reading"
         /\ pending'[s] = <<>> => stage'[s] # "asking"
  <1>1. stage' = [stage EXCEPT ![s] = LoopStage(s)] /\ DOMAIN stage = Peers
    BY Zenon DEF Loop, SessionTypes
  <1>2. LoopStage(s) # "reading"
    BY Zenon DEF LoopStage
  <1>3. ASSUME pending'[s] = <<>> PROVE LoopStage(s) # "asking"
    <2>1. Low(pending'[s], session'[s].paid)
      <3>1. Len(<<>>) < MinPending /\ Len(<<>>) < 1
        BY DEF DownloadWindowAssumption
      <3> QED
        BY Zenon, <1>3, <3>1 DEF Low
    <2> QED
      BY Zenon, <2>1 DEF LoopStage
  <1> HIDE DEF Loop
  <1> QED
    BY Zenon, <1>1, <1>2, <1>3

(* A write keeps the shape of the session that makes it.                   *)
LEMMA WriteKeepsSession ==
  ASSUME SessionTypes, NEW s \in Peers, NEW p, NEW from, NEW to, NEW paid,
         Write(s, p, from, to, paid)
  PROVE  /\ DOMAIN session' = Peers
         /\ \A u \in Peers : u # s => session'[u] = session[u]
         /\ "active" \in DOMAIN session'[s]
  <1> DEFINE verified(o) == o = VerifiedPiece /\ pieces[p] # VerifiedPiece
             failed(o) == Written(pieces[p], from, to).bytes_written = PartLen /\ o = Gapped(TRUE)
             x(o) == [session[s] EXCEPT
                       !.active = IF failed(o) \/ verified(o) THEN NoPart ELSE session[s].active,
                       !.paid = paid, !.bitmaps = Bitmaps(pieces'), !.done = AllVerified(pieces'),
                       !.sought = (session[s].sought \cup IF failed(o) THEN {p} ELSE {})
                                  \ IF verified(o) THEN {p} ELSE {}]
  <1>1. PICK o \in Outcomes(pieces[p], from, to) : session' = [session EXCEPT ![s] = x(o)]
    BY Zenon DEF Write
  <1>2. DOMAIN x(o) = DOMAIN session[s]
    BY Zenon
  <1> HIDE DEF x
  <1> QED
    BY Zenon, <1>1, <1>2 DEF SessionTypes

(* Asking leaves at least one range asked for, or nothing to wait for.     *)
LEMMA AskingAsks ==
  ASSUME DownloadWindowAssumption, Types, NEW s \in Peers, RequestParts(s),
         AskedRightly(stage[s], pending[s], session[s].active)
  PROVE  OthersStay(s) /\ RightlyNext(s)
  <1> USE DEF Types
  <1> DEFINE unasked == {i \in DOMAIN pending[s] : ~pending[s][i].queued}
             asked == {i \in unasked : Cardinality({j \in unasked : j < i}) < Batch}
             q == [i \in DOMAIN pending[s] |->
                     [pending[s][i] EXCEPT !.queued = pending[s][i].queued \/ i \in asked]]
             y == IF pending[s] = <<>> /\ session[s].active = NoPart THEN "dropping" ELSE "reading"
  <1>1. /\ pending' = [pending EXCEPT ![s] = q] /\ session' = session
        /\ stage' = [stage EXCEPT ![s] = y] /\ stage[s] = "asking"
    BY Zenon DEF RequestParts
  <1>2. /\ DOMAIN pending = Peers /\ DOMAIN stage = Peers /\ DOMAIN session = Peers
        /\ "active" \in DOMAIN session[s]
    BY Zenon DEF WindowTypes, SessionTypes
  <1>3. pending[s] \in Seq(Tokens) /\ DOMAIN pending[s] = 1 .. Len(pending[s])
    BY DEF WindowTypes
  <1>4. \A i \in DOMAIN pending[s] : pending[s][i] \in Tokens
    BY <1>3
  <1>5. DOMAIN q = DOMAIN pending[s]
    BY Zenon
  <1>6. ASSUME NEW i \in DOMAIN pending[s]
        PROVE  q[i].queued = (pending[s][i].queued \/ i \in asked)
    <2> DEFINE m == pending[s][i].queued \/ i \in asked
    <2>1. q[i] = [pending[s][i] EXCEPT !.queued = m]
      BY Zenon
    <2> HIDE DEF m, q
    <2>2. q[i].queued = m
      BY Zenon, <1>4, <2>1 DEF Tokens
    <2> QED
      BY Zenon, <2>2 DEF m
  <1>7. ASSUME pending[s] # <<>> PROVE \E i \in DOMAIN pending[s] : q[i].queued
    <2>1. 1 \in DOMAIN pending[s]
      BY <1>3, <1>7
    <2>2. CASE unasked = {}
      <3>1. pending[s][1].queued
        BY Zenon, <2>1, <2>2
      <3> QED
        BY Zenon, <1>6, <2>1, <3>1
    <2>3. CASE unasked # {}
      <3>1. unasked \subseteq Nat
        BY <1>3
      <3>2. PICK i \in unasked : \A j \in unasked : i <= j
        BY Zenon, <2>3, <3>1, LeastNatural
      <3>3. {j \in unasked : j < i} = {}
        <4> HIDE DEF unasked
        <4>1. ASSUME NEW j \in unasked PROVE ~(j < i)
          BY <3>1, <3>2
        <4> QED
          BY Zenon, <4>1
      <3>4. Cardinality({j \in unasked : j < i}) < Batch
        <4>1. Cardinality({}) = 0
          BY Zenon, FS_EmptySet
        <4>2. 0 < Batch
          BY DEF DownloadWindowAssumption
        <4> HIDE DEF unasked
        <4> QED
          BY Zenon, <3>3, <4>1, <4>2
      <3>5. i \in asked /\ i \in DOMAIN pending[s]
        BY Zenon, <3>4
      <3> QED
        BY Zenon, <1>6, <3>5
    <2> QED
      BY Zenon, <2>2, <2>3
  <1> HIDE DEF q
  <1>8. OthersStay(s)
    BY Zenon, <1>1, <1>2 DEF OthersStay
  <1>9. pending'[s] = q /\ stage'[s] = y /\ session'[s] = session[s]
    BY Zenon, <1>1, <1>2
  <1>10. CASE pending[s] = <<>>
    <2>1. session[s].active = NoPart
      BY Zenon, <1>1, <1>10 DEF AskedRightly
    <2>2. stage'[s] = "dropping"
      BY Zenon, <1>9, <1>10, <2>1
    <2> QED
      BY Zenon, <1>8, <2>2 DEF RightlyNext, AskedRightly
  <1>11. CASE pending[s] # <<>>
    <2>1. stage'[s] = "reading"
      BY Zenon, <1>9, <1>11
    <2>2. \E i \in DOMAIN pending'[s] : pending'[s][i].queued
      BY Zenon, <1>5, <1>7, <1>9, <1>11
    <2> QED
      BY Zenon, <1>8, <2>1, <2>2 DEF RightlyNext, AskedRightly
  <1> QED
    BY Zenon, <1>10, <1>11

(* Every step of a session leaves the others alone, and leaves the session *)
(* itself either busy or with something asked for.                         *)
LEMMA StepAsks ==
  ASSUME DownloadWindowAssumption, Types, NEW s \in Peers,
         AskedRightly(stage[s], pending[s], session[s].active),
         \/ Step(s) \/ Answer(s) \/ Abort(s)
         \/ \E i \in Awaited(s) : StreamFails(s, i)
         \/ \E count \in 0 .. StaleLimit : DropStaleBlockPacket(s, count)
         \/ \E p \in Parts, good \in SUBSET Blocks : BeginPartSalvage(s, p, good)
  PROVE  OthersStay(s) /\ RightlyNext(s)
  <1> DEFINE Goal == OthersStay(s) /\ RightlyNext(s)
  <1>0. /\ DOMAIN pending = Peers /\ DOMAIN stage = Peers /\ DOMAIN session = Peers
        /\ "active" \in DOMAIN session[s] /\ pending[s] \in Seq(Tokens)
    BY Zenon DEF Types, WindowTypes, SessionTypes
  <1>1. ASSUME Loop(s), DOMAIN session' = Peers, "active" \in DOMAIN session'[s],
               \A u \in Peers : u # s => session'[u] = session[u] /\ pending'[u] = pending[u]
        PROVE  Goal
    <2>1. /\ DOMAIN stage' = Peers /\ \A u \in Peers : u # s => stage'[u] = stage[u]
          /\ stage'[s] # "reading" /\ (pending'[s] = <<>> => stage'[s] # "asking")
      BY Zenon, <1>1, LoopFills DEF Types
    <2> QED
      BY Zenon, <1>1, <2>1 DEF OthersStay, RightlyNext, AskedRightly
  <1>2. ASSUME NEW y, y \notin {"asking", "reading"},
               stage' = [stage EXCEPT ![s] = y] \/ (stage' = stage /\ stage[s] = y),
               DOMAIN session' = Peers, "active" \in DOMAIN session'[s],
               \A u \in Peers : u # s => session'[u] = session[u] /\ pending'[u] = pending[u]
        PROVE  Goal
    <2>1. /\ DOMAIN stage' = Peers /\ \A u \in Peers : u # s => stage'[u] = stage[u]
          /\ stage'[s] = y
      BY Zenon, <1>0, <1>2
    <2>2. y # "asking" /\ y # "reading"
      BY Zenon, <1>2
    <2> QED
      BY Zenon, <1>2, <2>1, <2>2 DEF OthersStay, RightlyNext, AskedRightly
  <1>4. CASE Connect(s)
    <2>1. session' = [session EXCEPT ![s] = NewSession(Bitmaps(pieces), Corrupted(pieces))]
          /\ pending' = pending /\ Loop(s)
      BY Zenon, <1>4 DEF Connect
    <2>2. "active" \in DOMAIN NewSession(Bitmaps(pieces), Corrupted(pieces))
      BY Zenon DEF NewSession
    <2>3. DOMAIN session' = Peers /\ "active" \in DOMAIN session'[s]
          /\ \A u \in Peers : u # s => session'[u] = session[u]
      BY Zenon, <1>0, <2>1, <2>2
    <2> QED
      BY Zenon, <1>1, <2>1, <2>3
  <1>5. ASSUME NEW k \in NextKeys(s), LeaseBlock(s, k) PROVE Goal
    <2>1. /\ session' = [session EXCEPT ![s].active = k[1]]
          /\ pending' = [pending EXCEPT ![s] = Append(@, Request(k))]
          /\ stage' = stage /\ stage[s] = "filling"
      BY Zenon, <1>5 DEF LeaseBlock
    <2>2. DOMAIN session' = Peers /\ "active" \in DOMAIN session'[s]
          /\ \A u \in Peers : u # s => session'[u] = session[u] /\ pending'[u] = pending[u]
      BY Zenon, <1>0, <2>1
    <2>3. "filling" \notin {"asking", "reading"}
      OBVIOUS
    <2> QED
      BY Zenon, <1>2, <2>1, <2>2, <2>3
  <1>6. CASE FillEnds(s)
    <2>1. /\ stage' = [stage EXCEPT ![s] = "asking"] /\ pending' = pending
          /\ \/ Len(pending[s]) = MaxWindow(s) /\ session' = session
             \/ session' = [session EXCEPT ![s].active = NoPart]
      BY Zenon, <1>6 DEF FillEnds
    <2>2. OthersStay(s) /\ stage'[s] = "asking" /\ pending'[s] = pending[s]
      BY Zenon, <1>0, <2>1 DEF OthersStay
    <2>3. CASE Len(pending[s]) = MaxWindow(s) /\ session' = session
      <3>1. MaxWindow(s) # 0
        BY DEF MaxWindow, DownloadWindowAssumption
      <3>2. pending'[s] # <<>>
        <4>1. Len(<<>>) = 0
          OBVIOUS
        <4> QED
          BY Zenon, <2>2, <2>3, <3>1, <4>1
      <3> QED
        BY Zenon, <2>2, <3>2 DEF RightlyNext, AskedRightly
    <2>4. CASE session' = [session EXCEPT ![s].active = NoPart]
      <3>1. session'[s].active = NoPart
        BY Zenon, <1>0, <2>4
      <3> QED
        BY Zenon, <2>2, <3>1 DEF RightlyNext, AskedRightly
    <2> QED
      BY Zenon, <2>1, <2>3, <2>4
  <1>7. CASE RequestParts(s)
    BY Zenon, <1>7, AskingAsks
  <1>8. CASE FlushReadyBlock(s)
    <2> DEFINE r == Head(pending[s])
    <2>1. /\ pending' = [pending EXCEPT ![s] = Tail(@)] /\ stage[s] = "flushing"
          /\ \/ Write(s, r.key[1], r.from, r.got, TRUE) /\ stage' = stage
             \/ stage' = [stage EXCEPT ![s] = "dropping"] /\ session' = session
      BY Zenon, <1>8 DEF FlushReadyBlock
    <2> HIDE DEF r
    <2>2. \A u \in Peers : u # s => pending'[u] = pending[u]
      BY Zenon, <1>0, <2>1
    <2>3. /\ DOMAIN session' = Peers /\ "active" \in DOMAIN session'[s]
          /\ \A u \in Peers : u # s => session'[u] = session[u]
      BY Zenon, <1>0, <2>1, WriteKeepsSession DEF Types
    <2>4. "flushing" \notin {"asking", "reading"} /\ "dropping" \notin {"asking", "reading"}
      OBVIOUS
    <2> QED
      BY Zenon, <1>2, <2>1, <2>2, <2>3, <2>4
  <1>9. CASE FlushEnds(s)
    BY Zenon, <1>0, <1>1, <1>9 DEF FlushEnds
  <1>10. CASE FlushBufferedPrefix(s)
    <2> DEFINE r == Head(pending[s])
    <2>1. /\ pending' = [pending EXCEPT ![s] = Tail(@)] \/ pending' = pending
          /\ stage[s] = "closing"
          /\ \/ /\ Write(s, r.key[1], r.from, r.got, session[s].paid)
                /\ stage' = stage \/ stage' = [stage EXCEPT ![s] = "closed"]
             \/ stage' = [stage EXCEPT ![s] = "dropping"] /\ session' = session
      BY Zenon, <1>10 DEF FlushBufferedPrefix
    <2> HIDE DEF r
    <2>2. \A u \in Peers : u # s => pending'[u] = pending[u]
      BY Zenon, <1>0, <2>1
    <2>3. /\ DOMAIN session' = Peers /\ "active" \in DOMAIN session'[s]
          /\ \A u \in Peers : u # s => session'[u] = session[u]
      BY Zenon, <1>0, <2>1, WriteKeepsSession DEF Types
    <2>4. /\ "closing" \notin {"asking", "reading"} /\ "dropping" \notin {"asking", "reading"}
          /\ "closed" \notin {"asking", "reading"}
      OBVIOUS
    <2> QED
      BY Zenon, <1>2, <2>1, <2>2, <2>3, <2>4
  <1>11. CASE DropSession(s)
    <2>1. /\ stage' = [stage EXCEPT ![s] = "off"] /\ pending' = [pending EXCEPT ![s] = <<>>]
          /\ session' = [session EXCEPT ![s] = NoSession]
      BY Zenon, <1>11 DEF DropSession
    <2>2. "active" \in DOMAIN NoSession /\ "off" \notin {"asking", "reading"}
      BY Zenon DEF NoSession, NewSession
    <2>3. /\ DOMAIN session' = Peers /\ "active" \in DOMAIN session'[s]
          /\ \A u \in Peers : u # s => session'[u] = session[u] /\ pending'[u] = pending[u]
      BY Zenon, <1>0, <2>1, <2>2
    <2> QED
      BY Zenon, <1>2, <2>1, <2>2, <2>3
  <1>12. CASE CloseEnds(s) \/ GoesQuiet(s) \/ Abort(s)
    <2>1. /\ pending' = pending /\ session' = session
          /\ \E y \in {"closed", "closing", "dropping"} : stage' = [stage EXCEPT ![s] = y]
      BY Zenon, <1>12 DEF CloseEnds, GoesQuiet, Abort
    <2>2. \A y \in {"closed", "closing", "dropping"} : y \notin {"asking", "reading"}
      OBVIOUS
    <2> QED
      BY Zenon, <1>0, <1>2, <2>1, <2>2
  <1>13. ASSUME NEW i \in Awaited(s), Receive(s, i) PROVE Goal
    <2>1. /\ session' = [session EXCEPT ![s].stale = 0]
          /\ stage' = [stage EXCEPT ![s] = "flushing"]
          /\ \A u \in Peers : u # s => pending'[u] = pending[u]
      BY Zenon, <1>0, <1>13 DEF Receive
    <2>2. /\ DOMAIN session' = Peers /\ "active" \in DOMAIN session'[s]
          /\ \A u \in Peers : u # s => session'[u] = session[u] /\ pending'[u] = pending[u]
      BY Zenon, <1>0, <2>1
    <2>3. "flushing" \notin {"asking", "reading"}
      OBVIOUS
    <2> QED
      BY Zenon, <1>2, <2>1, <2>2, <2>3
  <1>14. ASSUME NEW i \in Awaited(s), StreamFails(s, i) PROVE Goal
    <2>1. /\ \A u \in Peers : u # s => pending'[u] = pending[u]
          /\ session' = session
      BY Zenon, <1>0, <1>14 DEF StreamFails
    <2>2. Loop(s)
      BY Zenon, <1>14 DEF StreamFails
    <2> QED
      BY Zenon, <1>0, <1>1, <2>1, <2>2
  <1>15. ASSUME NEW count, DropStaleBlockPacket(s, count) PROVE Goal
    <2>1. /\ pending' = pending /\ session' = [session EXCEPT ![s].stale = count]
          /\ Loop(s) \/ stage' = [stage EXCEPT ![s] = "closing"]
      BY Zenon, <1>15 DEF DropStaleBlockPacket
    <2>2. /\ DOMAIN session' = Peers /\ "active" \in DOMAIN session'[s]
          /\ \A u \in Peers : u # s => session'[u] = session[u] /\ pending'[u] = pending[u]
      BY Zenon, <1>0, <2>1
    <2>3. "closing" \notin {"asking", "reading"}
      OBVIOUS
    <2> QED
      BY Zenon, <1>1, <1>2, <2>1, <2>2, <2>3
  <1>16. ASSUME NEW p \in Parts, NEW good, BeginPartSalvage(s, p, good) PROVE Goal
    <2>1. /\ pending' = pending /\ Loop(s)
          /\ session' = [session EXCEPT ![s].sought = @ \ {p}, ![s].bitmaps = Bitmaps(pieces')]
      BY Zenon, <1>16 DEF BeginPartSalvage
    <2>2. /\ DOMAIN session' = Peers /\ "active" \in DOMAIN session'[s]
          /\ \A u \in Peers : u # s => session'[u] = session[u] /\ pending'[u] = pending[u]
      BY Zenon, <1>0, <2>1
    <2> QED
      BY Zenon, <1>1, <2>1, <2>2
  <1> QED
    BY Zenon, <1>4, <1>5, <1>6, <1>7, <1>8, <1>9, <1>10, <1>11, <1>12, <1>13, <1>14, <1>15, <1>16
       DEF Step, Answer

(* A window that waits or asks does so rightly, at every session.          *)
LEMMA RightlyIsInv ==
  ASSUME SessionTypes
  PROVE  (\A s \in Peers : AskedRightly(stage[s], pending[s], session[s].active))
           <=> EmptyAsksNothing /\ WaitingMeansAsked
  BY Zenon DEF SessionTypes, AskedRightly, EmptyAsksNothing, WaitingMeansAsked, Range

(* Every step keeps the sessions' shape and what they ask for.             *)
LEMMA AsksKept ==
  ASSUME DownloadWindowAssumption, Types, EmptyAsksNothing, WaitingMeansAsked, [Next]_vars
  PROVE  SessionTypes' /\ EmptyAsksNothing' /\ WaitingMeansAsked'
  <1>1. \A s \in Peers : AskedRightly(stage[s], pending[s], session[s].active)
    BY Zenon, RightlyIsInv DEF Types
  <1>2. ASSUME UNCHANGED <<stage, pending, session>>
        PROVE  SessionTypes' /\ EmptyAsksNothing' /\ WaitingMeansAsked'
    BY SMTT(60), <1>2 DEF Types, SessionTypes, EmptyAsksNothing, WaitingMeansAsked, Range
  <1>3. ASSUME NEW s \in Peers,
               \/ Step(s) \/ Answer(s) \/ Abort(s)
               \/ \E i \in Awaited(s) : StreamFails(s, i)
               \/ \E count \in 0 .. StaleLimit : DropStaleBlockPacket(s, count)
               \/ \E p \in Parts, good \in SUBSET Blocks : BeginPartSalvage(s, p, good)
        PROVE  SessionTypes' /\ EmptyAsksNothing' /\ WaitingMeansAsked'
    <2>1. OthersStay(s) /\ RightlyNext(s)
      BY Zenon, <1>1, <1>3, StepAsks
    <2>2. SessionTypes'
      BY Zenon, <2>1 DEF OthersStay, Types, SessionTypes
    <2>3. \A u \in Peers : AskedRightly(stage'[u], pending'[u], session'[u].active)
      BY Zenon, <1>1, <2>1 DEF OthersStay, RightlyNext
    <2> QED
      BY Zenon, <2>2, <2>3 DEF SessionTypes, AskedRightly, EmptyAsksNothing, WaitingMeansAsked, Range
  <1>4. ASSUME NEW k \in DOMAIN registry, AgeLease(k) PROVE UNCHANGED <<stage, pending, session>>
    BY Zenon, <1>4 DEF AgeLease
  <1>5. CASE CoolDown \/ Finished \/ UNCHANGED vars
    BY Zenon, <1>2, <1>5 DEF CoolDown, Finished, vars
  <1> QED
    BY Zenon, <1>2, <1>3, <1>4, <1>5 DEF Next

-----------------------------------------------------------------------------
(* The invariant                                                           *)

(* With no session open and nothing fetched the invariant holds.           *)
LEMMA InvInit ==
  ASSUME DownloadWindowAssumption, Init
  PROVE  WindowInv
  <1>1. WindowTypes /\ RegistryTypes
    BY DEF Init, WindowTypes, RegistryTypes
  <1>2. PieceTypes
    <2>1. Empty \in Pieces
      <3>1. {} \in Bitmap
        BY Zenon, FS_EmptySet DEF Bitmap
      <3> QED
        BY Zenon, <3>1 DEF Empty, Gapped, Pieces
    <2> QED
      BY Zenon, <2>1 DEF Init, PieceTypes
  <1>3. SessionTypes
    BY Zenon DEF Init, SessionTypes, NoSession, NewSession
  <1>4. RegistryBacked
    BY DEF Init, RegistryBacked
  <1>5. DOMAIN stage = Peers /\ \A s \in Peers : DOMAIN pending[s] = {} /\ stage[s] = "off"
    BY DEF Init
  <1>6. OneToken /\ UnmovedIsEmpty /\ EmptyAsksNothing /\ WaitingMeansAsked
    BY Zenon, <1>5 DEF OneToken, UnmovedIsEmpty, EmptyAsksNothing, WaitingMeansAsked
  <1> QED
    BY Zenon, <1>1, <1>2, <1>3, <1>4, <1>6 DEF WindowInv, Types

(* The invariant holds in every state.                                     *)
LEMMA InvHolds ==
  ASSUME DownloadWindowAssumption
  PROVE  Spec => []WindowInv
  <1>1. Init => WindowInv
    BY Zenon, InvInit
  <1>2. WindowInv /\ [Next]_vars => WindowInv'
    <2> SUFFICES ASSUME WindowInv, [Next]_vars PROVE WindowInv'
      BY Zenon
    <2> USE DEF WindowInv
    <2>1. Moves
      BY Zenon, StepsMove DEF Types
    <2>2. WindowTypes' /\ RegistryTypes' /\ RegistryBacked' /\ OneToken' /\ UnmovedIsEmpty'
      BY Zenon, <2>1, TypesKept, BackedKept, OneTokenKept, UnmovedKept
    <2>3. PieceTypes'
      BY Zenon, PiecesKept
    <2>4. SessionTypes' /\ EmptyAsksNothing' /\ WaitingMeansAsked'
      BY Zenon, AsksKept
    <2> QED
      BY Zenon, <2>2, <2>3, <2>4 DEF Types
  <1> QED
    BY <1>1, <1>2, PTL DEF Spec

-----------------------------------------------------------------------------
(* The theorems                                                            *)

(* Every reservation in the registry belongs to a request that its session *)
(* still has in its window.                                                *)
THEOREM LeasesStayBacked ==
  ASSUME DownloadWindowAssumption
  PROVE  Spec => []RegistryBacked
  <1>1. WindowInv => RegistryBacked
    BY Zenon DEF WindowInv
  <1> QED
    BY <1>1, InvHolds, PTL

(* A session that waits for its peer's answer (the read of the transfer    *)
(* loop in session.rs) has a range on the wire that the answer may be for. *)
THEOREM WaitingSessionsAsked ==
  ASSUME DownloadWindowAssumption
  PROVE  Spec => []WaitingMeansAsked
  <1>1. WindowInv => WaitingMeansAsked
    BY Zenon DEF WindowInv
  <1> QED
    BY <1>1, InvHolds, PTL

(* The request that backs a reservation is the only one with its lease id. *)
LEMMA BackerIsUnique ==
  ASSUME WindowInv, NEW k \in DOMAIN registry
  PROVE  /\ registry[k].peer \in Peers
         /\ \E i \in DOMAIN pending[registry[k].peer] :
              /\ pending[registry[k].peer][i].key = k
              /\ pending[registry[k].peer][i].lease = registry[k].lease
              /\ \A u \in Peers : \A j \in DOMAIN pending[u] :
                   pending[u][j].lease = registry[k].lease => u = registry[k].peer /\ j = i
  <1>1. registry[k].peer \in Peers
    BY Zenon DEF WindowInv, Types, RegistryTypes
  <1>2. PICK i \in DOMAIN pending[registry[k].peer] :
           /\ pending[registry[k].peer][i].key = k
           /\ pending[registry[k].peer][i].lease = registry[k].lease
    <2>1. PICK r \in Range(pending[registry[k].peer]) : r.key = k /\ r.lease = registry[k].lease
      BY Zenon DEF WindowInv, RegistryBacked
    <2>2. PICK i \in DOMAIN pending[registry[k].peer] : r = pending[registry[k].peer][i]
      BY Zenon DEF Range
    <2> QED
      BY Zenon, <2>1, <2>2
  <1>3. ASSUME NEW u \in Peers, NEW j \in DOMAIN pending[u], pending[u][j].lease = registry[k].lease
        PROVE  u = registry[k].peer /\ j = i
    BY <1>1, <1>2, <1>3 DEF WindowInv, OneToken
  <1> QED
    BY Zenon, <1>1, <1>2, <1>3

(* A reservation is given up only by the session that holds it: once a     *)
(* lease was taken over, the old token releases nothing (block_lease.rs).  *)
THEOREM ForeignLeasesKept ==
  ASSUME DownloadWindowAssumption
  PROVE  Spec => [][ForeignLeaseKept]_vars
  <1>1. ASSUME WindowInv, [Next]_vars PROVE ForeignLeaseKept
    <2> SUFFICES ASSUME NEW k \in DOMAIN registry \ DOMAIN registry',
                        NEW r \in Range(pending'[registry[k].peer])
                 PROVE  r.lease # registry[k].lease
      BY Zenon DEF ForeignLeaseKept
    <2> DEFINE o == registry[k].peer
               id == registry[k].lease
    <2>1. PICK i \in DOMAIN pending[o] :
             /\ pending[o][i].key = k /\ pending[o][i].lease = id
             /\ \A u \in Peers : \A j \in DOMAIN pending[u] :
                  pending[u][j].lease = id => u = o /\ j = i
      BY SMTT(30), <1>1, BackerIsUnique
    <2>2. o \in Peers /\ WindowTypes /\ RegistryTypes /\ DOMAIN pending = Peers
      BY Zenon, <1>1, BackerIsUnique DEF WindowInv, Types, WindowTypes
    <2> HIDE DEF o, id
    <2>3. PICK j \in DOMAIN pending'[o] : r = pending'[o][j]
      BY Zenon DEF Range, o
    <2>4. Moves
      BY Zenon, <1>1, StepsMove DEF WindowInv, Types
    <2>5. k \in DOMAIN registry /\ k \notin DOMAIN registry'
      BY Zenon
    <2>6. ASSUME NEW s \in Peers, Settles(s) PROVE r.lease # id
      <3>1. Head(pending[s]).lease = id
        <4> DEFINE tokens == {Head(pending[s])}
        <4>1. registry' = Release(tokens)
          BY Zenon, <2>6 DEF Settles
        <4> HIDE DEF tokens
        <4>2. \E x \in tokens : x.key = k /\ x.lease = registry[k].lease
          BY <2>5, <4>1, Released
        <4> QED
          BY Zenon, <4>2 DEF id, tokens
      <3>2. s = o /\ i = 1
        <4>1. 1 \in DOMAIN pending[s] /\ Head(pending[s]) = pending[s][1]
          BY Zenon, <2>2, <2>6, Tailed DEF Settles
        <4>2. pending[s][1].lease = id
          BY Zenon, <3>1, <4>1
        <4> QED
          BY Zenon, <2>1, <4>1, <4>2
      <3>3. pending'[o] = Tail(pending[o]) /\ pending[o] # <<>>
        BY Zenon, <2>2, <2>6, <3>2 DEF Settles
      <3>4. j \in Nat /\ j + 1 \in DOMAIN pending[o] /\ r = pending[o][j + 1]
        BY <2>2, <2>3, <3>3, Tailed
      <3>5. j + 1 # 1
        <4>1. j # 0
          BY <2>2, <2>3, <3>3 DEF WindowTypes
        <4> QED
          BY <3>4, <4>1
      <3> QED
        BY Zenon, <2>1, <2>2, <3>2, <3>4, <3>5
    <2>7. ASSUME NEW s \in Peers, Drops(s) PROVE r.lease # id
      <3>1. \E x \in Range(pending[s]) : x.lease = id
        <4>1. registry' = Release(Range(pending[s]))
          BY Zenon, <2>7 DEF Drops
        <4>2. \E x \in Range(pending[s]) : x.key = k /\ x.lease = registry[k].lease
          BY <2>5, <4>1, Released
        <4> QED
          BY Zenon, <4>2 DEF id
      <3>2. s = o
        BY Zenon, <2>1, <3>1 DEF Range
      <3>3. pending'[o] = <<>>
        BY Zenon, <2>2, <2>7, <3>2 DEF Drops
      <3> QED
        BY <2>3, <3>3
    <2>8. ASSUME NEW l \in DOMAIN registry, Ages(l) PROVE FALSE
      BY Zenon, <2>2, <2>5, <2>8, Aged
    <2>9. ASSUME NEW s \in Peers, NEW l \in DOMAIN pending[s], Feeds(s, l) PROVE FALSE
      <3>1. registry' = NotePayload(s, pending[s][l])
        BY Zenon, <2>9 DEF Feeds
      <3>2. DOMAIN registry' = DOMAIN registry
        BY Zenon, <3>1 DEF NotePayload
      <3> QED
        BY Zenon, <2>5, <3>2
    <2>10. ASSUME NEW s \in Peers, NEW l \in NextKeys(s), Takes(s, l) PROVE FALSE
      BY Zenon, <2>5, <2>10 DEF Takes
    <2> QED
      BY Zenon, <2>4, <2>5, <2>6, <2>7, <2>8, <2>9, <2>10 DEF Moves, Rests, Changes, id
  <1> QED
    BY <1>1, InvHolds, PTL DEF Spec

(* A lease changes hands in the endgame (block_lease.rs) only while its    *)
(* holder's request is empty, and only for a session that finds no free    *)
(* block anywhere.                                                         *)
THEOREM TakeoversAreIdle ==
  ASSUME DownloadWindowAssumption
  PROVE  Spec => [][TakeoverOfIdleLeaseOnly]_vars
  <1>1. ASSUME WindowInv, [Next]_vars PROVE TakeoverOfIdleLeaseOnly
    <2> SUFFICES ASSUME NEW k \in DOMAIN registry \cap DOMAIN registry',
                        registry[k].lease # registry'[k].lease
                 PROVE  /\ \A r \in Range(pending[registry[k].peer]) :
                             r.lease = registry[k].lease => r.got = r.key[2]
                        /\ FreeParts(registry'[k].peer) = {}
      BY Zenon DEF TakeoverOfIdleLeaseOnly
    <2>1. /\ Types /\ WindowTypes /\ RegistryTypes /\ PieceTypes
          /\ k \in DOMAIN registry /\ k \in DOMAIN registry'
      BY Zenon, <1>1 DEF WindowInv, Types
    <2>2. Moves
      BY Zenon, <1>1, <2>1, StepsMove
    <2>3. ASSUME NEW l \in DOMAIN registry, Ages(l) PROVE FALSE
      BY Zenon, <2>1, <2>3, Aged
    <2>4. ASSUME NEW s \in Peers, NEW i \in DOMAIN pending[s], Feeds(s, i) PROVE FALSE
      <3> DEFINE r == pending[s][i]
      <3>1. registry' = NotePayload(s, r)
        BY Zenon, <2>4 DEF Feeds
      <3> HIDE DEF r
      <3>2. NotePayload(s, r)[k].lease = registry[k].lease
        BY <2>1, Noted
      <3> QED
        BY Zenon, <3>1, <3>2
    <2>5. ASSUME NEW s \in Peers, Settles(s) \/ Drops(s) PROVE FALSE
      <3>1. \E tokens \in {{Head(pending[s])}, Range(pending[s])} : registry' = Release(tokens)
        BY Zenon, <2>5 DEF Settles, Drops
      <3>2. PICK tokens : registry' = Release(tokens)
        BY Zenon, <3>1
      <3>3. \A l \in DOMAIN registry' : registry'[l] = registry[l]
        BY <3>2, Released
      <3> QED
        BY Zenon, <2>1, <3>3
    <2>6. PICK s \in Peers : \E l \in NextKeys(s) : Takes(s, l)
      BY Zenon, <2>2, <2>3, <2>4, <2>5 DEF Moves, Rests, Changes
    <2>7. k \in NextKeys(s) /\ registry'[k] = Owner(s)
      BY Zenon, <2>1, <2>6 DEF Takes
    <2>8. FreeParts(s) = {} /\ MayStealLease(s, k) /\ Owner(s).peer = s
      BY Zenon, <2>1, <2>7, ChoiceOfBlock, NewRequestType
    <2>9. ~registry[k].moved
      BY Zenon, <2>8 DEF MayStealLease
    <2>10. ASSUME NEW r \in Range(pending[registry[k].peer]), r.lease = registry[k].lease
           PROVE  r.got = r.key[2]
      <3> DEFINE o == registry[k].peer
      <3>1. PICK i \in DOMAIN pending[o] :
               /\ pending[o][i].key = k /\ pending[o][i].lease = registry[k].lease
               /\ \A u \in Peers : \A j \in DOMAIN pending[u] :
                    pending[u][j].lease = registry[k].lease => u = o /\ j = i
        BY SMTT(60), <1>1, <2>1, BackerIsUnique
      <3>2. o \in Peers
        BY Zenon, <1>1, <2>1, BackerIsUnique
      <3> HIDE DEF o
      <3>3. r = pending[o][i]
        BY Zenon, <2>10, <3>1, <3>2 DEF Range, o
      <3> QED
        BY Zenon, <1>1, <2>1, <2>9, <3>1, <3>2, <3>3 DEF WindowInv, UnmovedIsEmpty
    <2> QED
      BY Zenon, <2>7, <2>8, <2>10
  <1> QED
    BY <1>1, InvHolds, PTL DEF Spec

=============================================================================
