----------------------- MODULE DownloadAttempts_proofs -----------------------
(***************************************************************************)
(* Proofs about DownloadAttempts, for any files, peers and endpoints (two  *)
(* peers may share one), any timers and any number of attempts.            *)
(*                                                                         *)
(* That every leased peer has an owner is not inductive as it stands.      *)
(* A source that an attempt detached onto the reask loop is still among    *)
(* those it took, so it must not be counted as the attempt's: the loop may *)
(* have released it, and another attempt leased it since.  The books also  *)
(* stay equal only because no two leased peers share an endpoint, and the  *)
(* leases survive a disconnect only because nothing runs while it is off.  *)
(***************************************************************************)
EXTENDS DownloadAttempts, TLAPS

\* An attempt is the record the actions update; its book is what the leases depend on.
IsAttempt(a) ==
    a = [file |-> a.file, pc |-> a.pc, cancelled |-> a.cancelled, found |-> a.found,
         tried |-> a.tried, taken |-> a.taken, kept |-> a.kept, delay |-> a.delay,
         round |-> a.round, todo |-> a.todo, res |-> a.res]

Book(a, pc, taken, kept) == IsAttempt(a) /\ a.pc = pc /\ a.taken = taken /\ a.kept = kept

Attempts == att = [i \in Id |-> att[i]] /\ \A i \in Id : IsAttempt(att[i])

\* The sources an attempt took and did not detach.
Open(i) == att[i].taken \ att[i].kept

Owned(p) ==
    \/ \E i \in Id : p \in Open(i)
    \/ \E c \in reask : EndpointOf[c[1]] = EndpointOf[p]
    \/ EndpointOf[p] \in freed \/ net = "stopping"
    \/ p \in lost

BooksAgree ==
    /\ act = {EndpointOf[p] : p \in leased}
    /\ \A p, q \in leased : EndpointOf[p] = EndpointOf[q] => p = q

LeaseInv ==
    /\ Attempts /\ BooksAgree
    /\ \A i \in Id : att[i].pc # "dialing" => att[i].taken = {}
    /\ \A p \in leased : Owned(p)
    /\ net # "on" => spawned = {}
    /\ net = "off" => act = {} /\ \A i \in Id : ~Busy(i)
    /\ next \in Nat \ {0} /\ \A i \in Id : i >= next => att[i].pc = "unused"

-----------------------------------------------------------------------------
\* What a step may do to one attempt's book: nothing, or the attempt, not
\* dialling, goes on not dialling and takes nothing.
Same(k) == /\ att'[k].pc = att[k].pc
           /\ att'[k].taken = att[k].taken /\ att'[k].kept = att[k].kept

Calm(k) ==
    \/ Same(k)
    \/ /\ att[k].pc \notin {"unused", "dialing"} /\ att'[k].pc # "dialing"
       /\ att'[k].taken \in {att[k].taken, {}}
       /\ Busy(k)' => Busy(k)

\* Only attempt i changes, and this is its book.
Becomes(i, pc, taken, kept) ==
    /\ Attempts' /\ \A k \in Id \ {i} : Same(k)
    /\ att'[i].pc = pc /\ att'[i].taken = taken /\ att'[i].kept = kept

(* What writing one field of an attempt does to its book.                  *)
LEMMA BookUpdates ==
    ASSUME NEW a, NEW p, NEW t, NEW k, NEW x, Book(a, p, t, k)
    PROVE  /\ Book([a EXCEPT !.cancelled = x], p, t, k)
           /\ Book([a EXCEPT !.found = x], p, t, k)
           /\ Book([a EXCEPT !.tried = x], p, t, k)
           /\ Book([a EXCEPT !.delay = x], p, t, k)
           /\ Book([a EXCEPT !.round = x], p, t, k)
           /\ Book([a EXCEPT !.todo = x], p, t, k)
           /\ Book([a EXCEPT !.res = x], p, t, k)
           /\ Book([a EXCEPT !.file = x], p, t, k)
           /\ Book([a EXCEPT !.pc = x], x, t, k)
           /\ Book([a EXCEPT !.taken = x], p, x, k)
           /\ Book([a EXCEPT !.kept = x], p, t, x)
  BY SMTT(60) DEF IsAttempt, Book

(* A fresh attempt, and one that returned, have taken nothing.             *)
LEMMA BookOfReturned ==
    ASSUME NEW a, NEW r
    PROVE  Book(Idle, "unused", {}, {}) /\ Book(Returned(a, r), "settle", {}, {})
  <1>1. Book(Idle, "unused", {}, {})
    BY DEF Idle, Book, IsAttempt
  <1> QED
    BY ZenonT(60), <1>1, BookUpdates DEF Returned

(* Replacing one attempt leaves the others alone.                          *)
LEMMA AttemptReplaced ==
    ASSUME Attempts, NEW i \in Id, NEW b, NEW p, NEW t, NEW k, Book(b, p, t, k),
           att' = [att EXCEPT ![i] = b]
    PROVE  Becomes(i, p, t, k)
  BY Zenon DEF Attempts, Book, Becomes, Same

(* The ways an action writes one attempt.                                  *)
LEMMA AttemptWritten ==
    ASSUME Attempts, NEW i \in Id, NEW x, NEW y, NEW z
    PROVE  /\ att' = [att EXCEPT ![i].pc = x] => Becomes(i, x, att[i].taken, att[i].kept)
           /\ att' = [att EXCEPT ![i].pc = x, ![i].found = y] =>
                Becomes(i, x, att[i].taken, att[i].kept)
           /\ att' = [att EXCEPT ![i].found = @ \cup y, ![i].round = @ + 1, ![i].pc = x] =>
                Becomes(i, x, att[i].taken, att[i].kept)
           /\ att' = [att EXCEPT ![i].round = @ + 1, ![i].pc = x] =>
                Becomes(i, x, att[i].taken, att[i].kept)
           /\ att' = [att EXCEPT ![i].pc = x, ![i].res = y] =>
                Becomes(i, x, att[i].taken, att[i].kept)
           /\ att' = [att EXCEPT ![i].todo = @ \ y] =>
                Becomes(i, att[i].pc, att[i].taken, att[i].kept)
           /\ att' = [att EXCEPT ![i].kept = @ \cup y] =>
                Becomes(i, att[i].pc, att[i].taken, att[i].kept \cup y)
           /\ att' = [att EXCEPT ![i].pc = x, ![i].taken = y, ![i].todo = z] =>
                Becomes(i, x, y, att[i].kept)
           /\ Return(i, x) => Becomes(i, "settle", {}, {})
  <1>1. Book(att[i], att[i].pc, att[i].taken, att[i].kept)
    BY Zenon DEF Attempts, Book
  <1>2. att = [k \in Id |-> att[k]]
    BY Zenon DEF Attempts
  <1>3. ASSUME att' = [att EXCEPT ![i].pc = x] PROVE Becomes(i, x, att[i].taken, att[i].kept)
    <2>1. att' = [att EXCEPT ![i] = [att[i] EXCEPT !.pc = x]]
      BY Zenon, <1>2, <1>3
    <2> QED BY Zenon, <1>1, <2>1, BookUpdates, AttemptReplaced
  <1>4. ASSUME att' = [att EXCEPT ![i].pc = x, ![i].found = y]
        PROVE  Becomes(i, x, att[i].taken, att[i].kept)
    <2>1. att' = [att EXCEPT ![i] = [att[i] EXCEPT !.pc = x, !.found = y]]
      BY Zenon, <1>2, <1>4
    <2> QED BY Zenon, <1>1, <2>1, BookUpdates, AttemptReplaced
  <1>5. ASSUME att' = [att EXCEPT ![i].found = @ \cup y, ![i].round = @ + 1, ![i].pc = x]
        PROVE  Becomes(i, x, att[i].taken, att[i].kept)
    <2>1. att' = [att EXCEPT ![i] = [att[i] EXCEPT !.found = @ \cup y, !.round = @ + 1, !.pc = x]]
      BY Zenon, <1>2, <1>5
    <2> QED BY ZenonT(60), <1>1, <2>1, BookUpdates, AttemptReplaced
  <1>6. ASSUME att' = [att EXCEPT ![i].round = @ + 1, ![i].pc = x]
        PROVE  Becomes(i, x, att[i].taken, att[i].kept)
    <2>1. att' = [att EXCEPT ![i] = [att[i] EXCEPT !.round = @ + 1, !.pc = x]]
      BY Zenon, <1>2, <1>6
    <2> QED BY Zenon, <1>1, <2>1, BookUpdates, AttemptReplaced
  <1>7. ASSUME att' = [att EXCEPT ![i].pc = x, ![i].res = y]
        PROVE  Becomes(i, x, att[i].taken, att[i].kept)
    <2>1. att' = [att EXCEPT ![i] = [att[i] EXCEPT !.pc = x, !.res = y]]
      BY Zenon, <1>2, <1>7
    <2> QED BY Zenon, <1>1, <2>1, BookUpdates, AttemptReplaced
  <1>8. ASSUME att' = [att EXCEPT ![i].todo = @ \ y]
        PROVE  Becomes(i, att[i].pc, att[i].taken, att[i].kept)
    <2>1. att' = [att EXCEPT ![i] = [att[i] EXCEPT !.todo = @ \ y]]
      BY Zenon, <1>2, <1>8
    <2> QED BY Zenon, <1>1, <2>1, BookUpdates, AttemptReplaced
  <1>9. ASSUME att' = [att EXCEPT ![i].kept = @ \cup y]
        PROVE  Becomes(i, att[i].pc, att[i].taken, att[i].kept \cup y)
    <2>1. att' = [att EXCEPT ![i] = [att[i] EXCEPT !.kept = @ \cup y]]
      BY Zenon, <1>2, <1>9
    <2> QED BY Zenon, <1>1, <2>1, BookUpdates, AttemptReplaced
  <1>10. ASSUME att' = [att EXCEPT ![i].pc = x, ![i].taken = y, ![i].todo = z]
         PROVE  Becomes(i, x, y, att[i].kept)
    <2>1. att' = [att EXCEPT ![i] = [att[i] EXCEPT !.pc = x, !.taken = y, !.todo = z]]
      BY Zenon, <1>2, <1>10
    <2> QED BY Zenon, <1>1, <2>1, BookUpdates, AttemptReplaced
  <1>11. ASSUME Return(i, x) PROVE Becomes(i, "settle", {}, {})
    BY Zenon, <1>11, BookOfReturned, AttemptReplaced DEF Return
  <1> QED
    BY Zenon, <1>3, <1>4, <1>5, <1>6, <1>7, <1>8, <1>9, <1>10, <1>11

(* Cancelling attempts, or letting their delays run, keeps their books.    *)
LEMMA AllWritten ==
    ASSUME Attempts
    PROVE  /\ \A fs : att' = Cancelled(fs) => Attempts' /\ \A k \in Id : Same(k)
           /\ att' = [i \in Id |-> [att[i] EXCEPT !.cancelled = TRUE]] =>
                Attempts' /\ \A k \in Id : Same(k)
           /\ att' = [i \in Id |-> [att[i] EXCEPT !.delay = Less(@)]] =>
                Attempts' /\ \A k \in Id : Same(k)
  <1>1. ASSUME NEW i \in Id
        PROVE  /\ Book([att[i] EXCEPT !.cancelled = TRUE], att[i].pc, att[i].taken, att[i].kept)
               /\ Book([att[i] EXCEPT !.delay = Less(@)], att[i].pc, att[i].taken, att[i].kept)
               /\ Book(att[i], att[i].pc, att[i].taken, att[i].kept)
    <2>1. Book(att[i], att[i].pc, att[i].taken, att[i].kept)
      BY Zenon DEF Attempts, Book
    <2> QED
      BY Zenon, <2>1, BookUpdates
  <1>2. ASSUME NEW fs, att' = Cancelled(fs)
        PROVE  Attempts' /\ \A k \in Id : Same(k)
    <2>1. /\ att' = [i \in Id |-> att'[i]]
          /\ \A i \in Id : att'[i] \in {[att[i] EXCEPT !.cancelled = TRUE], att[i]}
      BY Zenon, <1>2 DEF Cancelled
    <2> QED
      BY Zenon, <1>1, <2>1 DEF Attempts, Book, Same
  <1>3. ASSUME att' = [i \in Id |-> [att[i] EXCEPT !.cancelled = TRUE]]
        PROVE  Attempts' /\ \A k \in Id : Same(k)
    BY Zenon, <1>1, <1>3 DEF Attempts, Book, Same
  <1>4. ASSUME att' = [i \in Id |-> [att[i] EXCEPT !.delay = Less(@)]]
        PROVE  Attempts' /\ \A k \in Id : Same(k)
    BY Zenon, <1>1, <1>4 DEF Attempts, Book, Same
  <1> QED
    BY Zenon, <1>2, <1>3, <1>4

-----------------------------------------------------------------------------
(* Releasing endpoints keeps the two books of the leases equal.            *)
LEMMA ReleaseKeepsBooks ==
    ASSUME BooksAgree, NEW es, ReleaseEndpoints(es)
    PROVE  BooksAgree' /\ act' = act \ es
  BY Zenon DEF BooksAgree, ReleaseEndpoints

(* Forgetting a file releases the endpoints of the peers it leaves without *)
(* one, and nothing else: no leased peer shares an endpoint with another.  *)
LEMMA ReleaseFileReleases ==
    ASSUME BooksAgree, NEW f, ReleaseFile(f)
    PROVE  \E es : ReleaseEndpoints(es)
  <1> DEFINE kept == {c \in cand : c[2] # f}
             gone == {p \in leased : ~ \E g \in File : <<p, g>> \in kept}
             es == {EndpointOf[p] : p \in gone}
  <1>1. leased' = leased \ gone /\ act' = act \ es
    BY Zenon DEF ReleaseFile
  <1>2. gone \subseteq leased
    OBVIOUS
  <1> HIDE DEF gone
  <1>3. leased' = {p \in leased : EndpointOf[p] \notin es}
    BY Zenon, <1>1, <1>2 DEF BooksAgree
  <1> QED
    BY Zenon, <1>1, <1>3 DEF ReleaseEndpoints

(* A step that only releases endpoints, keeps the books of the attempts    *)
(* and hands what leaves the reask loop to its events.                     *)
LEMMA CalmStep ==
    ASSUME LeaseInv, NEW es, ReleaseEndpoints(es), Attempts', \A k \in Id : Calm(k),
           UNCHANGED <<net, next, lost>>, net # "on" => spawned' \subseteq spawned,
           \A e \in act \ es :
             (\E c \in reask : EndpointOf[c[1]] = e) \/ e \in freed =>
               (\E c \in reask' : EndpointOf[c[1]] = e) \/ e \in freed'
    PROVE  LeaseInv'
  <1>1. BooksAgree' /\ act' = act \ es
    BY Zenon, ReleaseKeepsBooks DEF LeaseInv
  <1>2. \A i \in Id : att'[i].pc # "dialing" => att'[i].taken = {}
    BY Zenon DEF LeaseInv, Calm, Same
  <1>3. \A i \in Id : Open(i)' = Open(i)
    BY Zenon DEF LeaseInv, Calm, Same, Open
  <1>4. ASSUME NEW p \in leased' PROVE Owned(p)'
    <2>1. EndpointOf[p] \in act \ es /\ Owned(p)
      BY Zenon DEF LeaseInv, BooksAgree, ReleaseEndpoints
    <2> QED
      BY Zenon, <1>3, <2>1 DEF Owned
  <1>5. net' = "off" => act' = {} /\ \A i \in Id : ~Busy(i)'
    BY Zenon, <1>1 DEF LeaseInv, Calm, Same, Busy
  <1>6. \A i \in Id : i >= next' => att'[i].pc = "unused"
    BY Zenon DEF LeaseInv, Calm, Same
  <1> QED
    BY Zenon, <1>1, <1>2, <1>4, <1>5, <1>6 DEF LeaseInv

(* Nothing about the leases changes but, perhaps, attempts that do not     *)
(* dial.                                                                   *)
LEMMA QuietStep ==
    ASSUME LeaseInv, UNCHANGED <<leased, act, reask, freed, lost, net, next>>,
           Attempts', \A k \in Id : Calm(k), net # "on" => spawned' \subseteq spawned
    PROVE  LeaseInv'
  <1>1. ReleaseEndpoints({})
    BY Zenon DEF ReleaseEndpoints, LeaseInv, BooksAgree
  <1> QED
    BY Zenon, <1>1, CalmStep

-----------------------------------------------------------------------------
(* The operator's calls, and the tasks that only start attempts.           *)
LEMMA OperatorKeeps ==
    ASSUME LeaseInv, NEW f \in File,
           \/ Create(f) \/ Control(f, "paused") \/ Control(f, "stopped") \/ Resume(f)
           \/ Delete(f) \/ ClearCompleted(f) \/ Recheck(f) \/ RecheckDone(f) \/ Retry(f)
    PROVE  LeaseInv'
  <1>1. Attempts /\ BooksAgree
    BY Zenon DEF LeaseInv
  <1>2. CASE Create(f) \/ Resume(f) \/ ClearCompleted(f) \/ RecheckDone(f) \/ Retry(f)
    <2>1. UNCHANGED <<leased, act, reask, freed, lost, net, next, att>> /\ (net # "on" => spawned' \subseteq spawned)
      BY Zenon, <1>2 DEF Create, Resume, ClearCompleted, RecheckDone, Retry, registry, loop, Spawn
    <2>2. Attempts' /\ \A k \in Id : Calm(k)
      BY Zenon, <1>1, <2>1 DEF Attempts, Calm, Same
    <2> QED
      BY Zenon, <2>1, <2>2, QuietStep
  <1>3. CASE Control(f, "paused") \/ Control(f, "stopped") \/ Recheck(f)
    <2>1. UNCHANGED <<leased, act, reask, freed, lost, net, next, spawned>> /\ att' = Cancelled({f})
      BY Zenon, <1>3 DEF Control, Recheck, registry, loop
    <2>2. Attempts' /\ \A k \in Id : Calm(k)
      BY Zenon, <1>1, <2>1, AllWritten DEF Calm
    <2> QED
      BY Zenon, <2>1, <2>2, QuietStep
  <1>4. CASE Delete(f)
    <2>1. UNCHANGED <<reask, freed, lost, net, next, spawned>> /\ att' = Cancelled({f}) /\ ReleaseFile(f)
      BY Zenon, <1>4 DEF Delete, loop
    <2>2. Attempts' /\ \A k \in Id : Calm(k)
      BY Zenon, <1>1, <2>1, AllWritten DEF Calm
    <2>3. \E es : ReleaseEndpoints(es)
      BY Zenon, <1>1, <2>1, ReleaseFileReleases
    <2> QED
      BY Zenon, <2>1, <2>2, <2>3, CalmStep
  <1> QED
    BY Zenon, <1>2, <1>3, <1>4

(* The steps of attempt i that neither take nor give up sources.           *)
LEMMA CalmAttemptKeeps ==
    ASSUME LeaseInv, NEW i \in Id,
           \/ Begin(i) \/ DialLegDone(i) \/ Wake(i) \/ Requery(i)
           \/ \E c \in Pair : NoNeededParts(i, c) \/ FileNotFound(i, c) \/ OtherOutcome(i, c)
    PROVE  LeaseInv'
  <1>1. Attempts
    BY Zenon DEF LeaseInv
  <1>2. /\ UNCHANGED <<leased, act, reask, freed, lost, net, next>> /\ (net # "on" => spawned' \subseteq spawned)
        /\ att[i].pc \in {"begin", "outcome", "wait", "requery"}
    BY Zenon DEF Begin, DialLegDone, Wake, Requery, NoNeededParts, FileNotFound, OtherOutcome, Outcome,
           Register, registry, transfers, loop, Spawn
  <1>3. CASE \/ \E r : Return(i, r)
             \/ \E x, y : att' = [att EXCEPT ![i].pc = x, ![i].found = y] /\ x = "round"
             \/ \E x : att' = [att EXCEPT ![i].pc = x] /\ x \in {"requery", "round"}
             \/ \E y : att' = [att EXCEPT ![i].todo = @ \ y]
             \/ \E x, y : /\ att' = [att EXCEPT ![i].found = @ \cup y, ![i].round = @ + 1, ![i].pc = x]
                          /\ x = "round"
             \/ \E x : att' = [att EXCEPT ![i].round = @ + 1, ![i].pc = x] /\ x = "round"
    <2>1. \/ Becomes(i, "settle", {}, {})
          \/ \E x \in {"requery", "round", att[i].pc} : Becomes(i, x, att[i].taken, att[i].kept)
      BY Zenon, <1>1, <1>3, AttemptWritten
    <2>2. Attempts' /\ \A k \in Id : Calm(k)
      BY Zenon, <1>2, <2>1 DEF Becomes, Calm, Same, Busy
    <2> QED
      BY Zenon, <1>2, <2>2, QuietStep
  <1>4. CASE att' = [Cancelled(File) EXCEPT ![i] = Returned(att[i], "insufficient")]
    <2>1. Book(Returned(att[i], "insufficient"), "settle", {}, {})
      BY Zenon, BookOfReturned
    <2>2. \A k \in Id \ {i} : att'[k] = Cancelled(File)[k]
      BY Zenon, <1>4 DEF Cancelled
    <2>3. att' = [k \in Id |-> att'[k]] /\ att'[i] = Returned(att[i], "insufficient")
      BY Zenon, <1>4 DEF Cancelled
    <2>4. \A k \in Id : /\ IsAttempt(Cancelled(File)[k])
                        /\ Cancelled(File)[k].pc = att[k].pc
                        /\ Cancelled(File)[k].taken = att[k].taken
                        /\ Cancelled(File)[k].kept = att[k].kept
      <3> TAKE k \in Id
      <3>1. Book(att[k], att[k].pc, att[k].taken, att[k].kept)
        BY Zenon, <1>1 DEF Attempts, Book
      <3>2. Cancelled(File)[k] \in {[att[k] EXCEPT !.cancelled = TRUE], att[k]}
        BY Zenon DEF Cancelled
      <3>3. Book([att[k] EXCEPT !.cancelled = TRUE], att[k].pc, att[k].taken, att[k].kept)
        BY Zenon, <3>1, BookUpdates
      <3> QED
        BY Zenon, <3>1, <3>2, <3>3 DEF Book
    <2>5. Attempts' /\ \A k \in Id : Calm(k)
      BY <1>2, <2>1, <2>2, <2>3, <2>4 DEF Attempts, Calm, Same, Book, Busy
    <2> QED
      BY Zenon, <1>2, <2>5, QuietStep
  <1>5. CASE Begin(i)
    BY Zenon, <1>3, <1>4, <1>5 DEF Begin
  <1>6. CASE DialLegDone(i) \/ Wake(i)
    BY Zenon, <1>3, <1>6 DEF DialLegDone, Wake
  <1>7. CASE Requery(i)
    BY Zenon, <1>3, <1>7 DEF Requery, End
  <1>8. CASE \E c \in Pair : NoNeededParts(i, c) \/ FileNotFound(i, c) \/ OtherOutcome(i, c)
    BY Zenon, <1>3, <1>8 DEF NoNeededParts, FileNotFound, OtherOutcome, Outcome
  <1> QED
    BY Zenon, <1>5, <1>6, <1>7, <1>8

(* The start and the end of an attempt.                                    *)
LEMMA EndsKeep ==
    ASSUME AttemptsAssumption, LeaseInv,
           \/ \E f \in File : Start(f)
           \/ \E i \in Id : Settle(i) \/ GuardDrop(i)
    PROVE  LeaseInv'
  <1>1. Attempts /\ BooksAgree
    BY Zenon DEF LeaseInv
  <1>2. ASSUME NEW f \in File, Start(f) PROVE LeaseInv'
    <2>1. /\ UNCHANGED <<leased, act, reask, freed, lost, net>> /\ spawned' \subseteq spawned
          /\ net = "on"
      BY Zenon, <1>2 DEF Start, registry, loop, LeaseInv
    <2>2. CASE UNCHANGED <<att, next>>
      <3>1. Attempts' /\ \A k \in Id : Calm(k)
        BY Zenon, <1>1, <2>2 DEF Attempts, Calm, Same
      <3> QED
        BY Zenon, <2>1, <2>2, <3>1, QuietStep
    <2>3. CASE /\ next <= MaxAttempts /\ next' = next + 1
               /\ att' = [att EXCEPT ![next] = [Idle EXCEPT !.file = f, !.pc = "begin"]]
      <3>1. next \in Id /\ next' \in Nat \ {0} /\ \A i \in Id : i >= next' => i >= next /\ i # next
        BY <2>3 DEF LeaseInv, AttemptsAssumption, Id
      <3>2. Book([Idle EXCEPT !.file = f, !.pc = "begin"], "begin", {}, {})
        BY Zenon, BookOfReturned, BookUpdates
      <3>3. Becomes(next, "begin", {}, {})
        BY Zenon, <1>1, <2>3, <3>1, <3>2, AttemptReplaced
      <3>4. att[next].pc = "unused" /\ att[next].taken = {}
        BY <3>1 DEF LeaseInv
      <3>5. Attempts' /\ \A k \in Id : Open(k)' = Open(k)
        BY Zenon, <3>3, <3>4 DEF Becomes, Same, Open
      <3>6. \A k \in Id : (att'[k].pc # "dialing" => att'[k].taken = {})
        BY Zenon, <3>3, <3>4 DEF Becomes, Same, LeaseInv
      <3>7. \A p \in leased : Owned(p)'
        BY <2>1, <3>5 DEF Owned, LeaseInv
      <3>8. \A i \in Id : i >= next' => att'[i].pc = "unused"
        BY Zenon, <3>1, <3>3 DEF Becomes, Same, LeaseInv
      <3>9. BooksAgree'
        BY Zenon, <1>1, <2>1 DEF BooksAgree
      <3> QED
        BY Zenon, <2>1, <3>1, <3>5, <3>6, <3>7, <3>8, <3>9 DEF LeaseInv
    <2> QED
      BY Zenon, <1>2, <2>2, <2>3 DEF Start
  <1>3. ASSUME NEW i \in Id, Settle(i) PROVE LeaseInv'
    <2>1. /\ UNCHANGED <<reask, freed, lost, net, next, spawned>> /\ att[i].pc = "settle"
          /\ att' = [att EXCEPT ![i].pc = "exit", ![i].res = "none"]
      BY Zenon, <1>3 DEF Settle, loop
    <2>2. Becomes(i, "exit", att[i].taken, att[i].kept)
      BY Zenon, <1>1, <2>1, AttemptWritten
    <2>3. Attempts' /\ \A k \in Id : Calm(k)
      BY Zenon, <2>1, <2>2 DEF Becomes, Calm, Same, Busy
    <2>4. CASE UNCHANGED registry
      BY Zenon, <2>1, <2>3, <2>4, QuietStep DEF registry
    <2>5. CASE ReleaseFile(att[i].file)
      <3>1. \E es : ReleaseEndpoints(es)
        BY Zenon, <1>1, <2>5, ReleaseFileReleases
      <3> QED
        BY Zenon, <2>1, <2>3, <3>1, CalmStep
    <2> QED
      BY Zenon, <1>3, <2>4, <2>5 DEF Settle
  <1>4. ASSUME NEW i \in Id, GuardDrop(i) PROVE LeaseInv'
    <2>1. /\ UNCHANGED <<leased, act, reask, freed, lost, net, next, spawned>> /\ att[i].pc = "exit"
          /\ att' = [att EXCEPT ![i] = [Idle EXCEPT !.pc = "gone"]]
      BY Zenon, <1>4 DEF GuardDrop, registry, loop
    <2>2. Book([Idle EXCEPT !.pc = "gone"], "gone", {}, {})
      BY Zenon, BookOfReturned, BookUpdates
    <2>3. Becomes(i, "gone", {}, {})
      BY Zenon, <1>1, <2>1, <2>2, AttemptReplaced
    <2>4. Attempts' /\ \A k \in Id : Calm(k)
      BY Zenon, <2>1, <2>3 DEF Becomes, Calm, Same, Busy
    <2> QED
      BY Zenon, <2>1, <2>4, QuietStep
  <1> QED
    BY Zenon, <1>2, <1>3, <1>4

-----------------------------------------------------------------------------
(* A turn leases peers of distinct endpoints, none of them engaged.        *)
LEMMA LeaseSetsApart ==
    ASSUME NEW ps, NEW f, NEW got \in LeaseSets(ps, f)
    PROVE  /\ \A p \in got : p \in ps /\ EndpointOf[p] \notin act
           /\ \A p, q \in got : EndpointOf[p] = EndpointOf[q] => p = q
  BY Zenon DEF LeaseSets

(* What a turn writes into its attempt.                                    *)
LEMMA BookOfTurn ==
    ASSUME NEW a, IsAttempt(a), NEW pc, NEW d, NEW tried, NEW got
    PROVE  Book([a EXCEPT !.pc = pc, !.delay = d, !.tried = tried, !.taken = got, !.kept = {}],
                pc, got, {})
  <1>1. Book(a, a.pc, a.taken, a.kept)
    BY Zenon DEF Book
  <1>2. Book([a EXCEPT !.pc = pc, !.delay = d], pc, a.taken, a.kept)
    BY Zenon, <1>1, BookUpdates
  <1>3. Book([a EXCEPT !.pc = pc, !.delay = d, !.tried = tried], pc, a.taken, a.kept)
    BY Zenon, <1>2, BookUpdates
  <1>4. Book([a EXCEPT !.pc = pc, !.delay = d, !.tried = tried, !.taken = got], pc, got, a.kept)
    BY Zenon, <1>3, BookUpdates
  <1> QED
    BY Zenon, <1>4, BookUpdates

(* A turn that takes sources: the attempt owns every endpoint it engages.  *)
LEMMA AcquireKeeps ==
    ASSUME LeaseInv, NEW i \in Id, Acquire(i)
    PROVE  LeaseInv'
  <1>1. Attempts /\ BooksAgree
    BY Zenon DEF LeaseInv
  <1>2. /\ UNCHANGED <<reask, freed, net, next, spawned>> /\ att[i].pc = "round"
    BY Zenon DEF Acquire, transfers
  <1>3. CASE Return(i, "none") /\ UNCHANGED <<registry, lost>>
    <2>1. Becomes(i, "settle", {}, {})
      BY Zenon, <1>1, <1>3, AttemptWritten
    <2>2. Attempts' /\ \A k \in Id : Calm(k)
      BY Zenon, <1>2, <2>1 DEF Becomes, Calm, Same, Busy
    <2> QED
      BY Zenon, <1>2, <1>3, <2>2, QuietStep DEF registry
  <1>4. ASSUME NEW ps, NEW f, NEW got \in LeaseSets(ps, f), NEW pc,
               leased' = (leased \ {p \in ps : EndpointOf[p] \notin act}) \cup got,
               act' = act \cup {EndpointOf[p] : p \in got}, lost' = lost \ got,
               Becomes(i, pc, got, {}), pc # "unused", pc # "dialing" => got = {}
        PROVE  LeaseInv'
    <2>1. /\ \A p \in got : EndpointOf[p] \notin act
          /\ \A p, q \in got : EndpointOf[p] = EndpointOf[q] => p = q
      BY Zenon, LeaseSetsApart
    <2>2. leased' = leased \cup got
      BY Zenon, <1>1, <1>4 DEF BooksAgree
    <2>3. BooksAgree'
      BY <1>1, <1>4, <2>1, <2>2 DEF BooksAgree
    <2>4. /\ att[i].taken = {} /\ Open(i)' = got /\ Attempts'
          /\ \A k \in Id \ {i} : Open(k)' = Open(k)
      BY Zenon, <1>2, <1>4 DEF Becomes, Same, Open, LeaseInv
    <2>5. \A k \in Id : (att'[k].pc # "dialing" => att'[k].taken = {})
      BY Zenon, <1>4 DEF Becomes, Same, LeaseInv
    <2>6. ASSUME NEW p \in leased' PROVE Owned(p)'
      <3>1. CASE p \notin got
        <4>1. Owned(p) /\ Open(i) = {}
          BY Zenon, <2>2, <2>4, <3>1 DEF LeaseInv, Open
        <4> QED
          BY Zenon, <1>2, <1>4, <2>4, <3>1, <4>1 DEF Owned
      <3>2. CASE p \in got
        BY Zenon, <2>4, <3>2 DEF Owned
      <3> QED
        BY Zenon, <3>1, <3>2
    <2>7. net # "off"
      BY Zenon, <1>2 DEF LeaseInv, Busy
    <2>8. \A k \in Id : k >= next => att'[k].pc = "unused"
      BY Zenon, <1>2, <1>4 DEF Becomes, Same, LeaseInv
    <2> QED
      BY Zenon, <1>2, <2>3, <2>4, <2>5, <2>6, <2>7, <2>8 DEF LeaseInv
  <1> QED
    <2> DEFINE a == att[i]
               new == {p \in a.found : EndpointOf[p] \notin a.tried /\ dead[<<p, a.file>>] = 0}
    <2>1. CASE a.cancelled /\ Return(i, "none") /\ UNCHANGED <<registry, lost>>
      BY Zenon, <1>3, <2>1
    <2>2. ASSUME NEW got \in LeaseSets(new, a.file), NEW d,
                 leased' = (leased \ {p \in new : EndpointOf[p] \notin act}) \cup got,
                 act' = act \cup {EndpointOf[p] : p \in got}, lost' = lost \ got,
                 \/ got = {} /\ new # {} /\ End(i)
                 \/ att' = [att EXCEPT ![i] = [a EXCEPT
                        !.pc = IF got # {} THEN "dialing"
                               ELSE IF new = {} THEN "requery" ELSE "wait",
                        !.delay = d,
                        !.tried = @ \cup {EndpointOf[p] : p \in got}, !.taken = got, !.kept = {}]]
          PROVE  LeaseInv'
      <3>1. CASE got = {} /\ End(i)
        <4>1. Becomes(i, "settle", got, {})
          BY Zenon, <1>1, <3>1, AttemptWritten DEF End
        <4> QED
          BY <1>4, <2>2, <3>1, <4>1
      <3>2. CASE ~(got = {} /\ End(i))
        <4> DEFINE pc == IF got # {} THEN "dialing" ELSE IF new = {} THEN "requery" ELSE "wait"
                   tried == a.tried \cup {EndpointOf[p] : p \in got}
                   b == [a EXCEPT !.pc = pc, !.delay = d, !.tried = tried, !.taken = got, !.kept = {}]
        <4>1. att' = [att EXCEPT ![i] = b]
          BY Zenon, <2>2, <3>2
        <4>2. pc # "unused" /\ (pc # "dialing" => got = {})
          OBVIOUS
        <4> HIDE DEF pc, tried
        <4>3. Book(b, pc, got, {})
          BY Zenon, <1>1, BookOfTurn DEF Attempts
        <4>4. Becomes(i, pc, got, {})
          BY Zenon, <1>1, <4>1, <4>3, AttemptReplaced
        <4> QED
          BY Zenon, <1>4, <2>2, <4>2, <4>4
      <3> QED
        BY Zenon, <3>1, <3>2
    <2> QED
      BY ZenonT(60), <2>1, <2>2 DEF Acquire

(* A source detached onto the reask loop changes its owner.                *)
LEMMA DetachKeeps ==
    ASSUME LeaseInv, NEW i \in Id, Detach(i)
    PROVE  LeaseInv'
  <1>1. Attempts /\ BooksAgree
    BY Zenon DEF LeaseInv
  <1>2. /\ UNCHANGED <<leased, act, freed, net, next, spawned>> /\ att[i].pc = "dialing"
    BY Zenon DEF Detach, transfers, registry
  <1>3. PICK p \in Open(i) :
          /\ att' = [att EXCEPT ![i].kept = @ \cup {p}]
          /\ \/ reask' = reask \cup {<<p, att[i].file>>} /\ UNCHANGED lost
             \/ lost' = lost \cup {p} /\ UNCHANGED reask
    BY Zenon DEF Detach, Open
  <1>4. Becomes(i, att[i].pc, att[i].taken, att[i].kept \cup {p})
    BY Zenon, <1>1, <1>3, AttemptWritten
  <1>5. Open(i)' = Open(i) \ {p} /\ \A k \in Id \ {i} : Open(k)' = Open(k)
    BY Zenon, <1>4 DEF Becomes, Same, Open
  <1>6. ASSUME NEW q \in leased PROVE Owned(q)'
    <2>1. Owned(q)
      BY Zenon DEF LeaseInv
    <2>2. CASE q = p
      <3>1. <<p, att[i].file>>[1] = p
        OBVIOUS
      <3> QED
        BY Zenon, <1>3, <2>2, <3>1 DEF Owned
    <2>3. CASE q # p /\ \E k \in Id : q \in Open(k)
      BY Zenon, <1>5, <2>3 DEF Owned
    <2>4. CASE ~ \E k \in Id : q \in Open(k)
      BY Zenon, <1>2, <1>3, <2>1, <2>4 DEF Owned
    <2> QED
      BY Zenon, <2>2, <2>3, <2>4
  <1>7. BooksAgree'
    BY Zenon, <1>1, <1>2 DEF BooksAgree
  <1>8. /\ Attempts' /\ \A k \in Id : /\ att'[k].pc # "dialing" => att'[k].taken = {}
                                      /\ Busy(k)' => Busy(k)
                                      /\ k >= next => att'[k].pc = "unused"
    BY SMTT(60), <1>2, <1>4 DEF Becomes, Same, Busy, LeaseInv
  <1> QED
    BY Zenon, <1>2, <1>6, <1>7, <1>8 DEF LeaseInv

(* The end of a dial leg releases every endpoint the attempt still owns.   *)
LEMMA DialEndKeeps ==
    ASSUME LeaseInv, NEW i \in Id, DialEnd(i)
    PROVE  LeaseInv'
  <1>1. Attempts /\ BooksAgree
    BY Zenon DEF LeaseInv
  <1>2. UNCHANGED <<reask, freed, lost, net, next, spawned>> /\ att[i].pc = "dialing"
    BY Zenon DEF DialEnd, transfers, loop
  <1>3. \E es, pc, kept : /\ ReleaseEndpoints(es) /\ {EndpointOf[p] : p \in Open(i)} \subseteq es
                          /\ Becomes(i, pc, {}, kept) /\ pc \in {"outcome", "settle"}
    <2> DEFINE todo == {c \in (att[i].taken \ att[i].kept) \X File :
                          c[2] = att[i].file \/ (c \in cand /\ Wanted(c[2]))}
    <2>1. CASE /\ ReleaseEndpoints({EndpointOf[p] : p \in Open(i)})
               /\ att' = [att EXCEPT ![i].pc = "outcome", ![i].taken = {}, ![i].todo = todo]
      <3> HIDE DEF todo
      <3>1. Becomes(i, "outcome", {}, att[i].kept)
        BY Zenon, <1>1, <2>1, AttemptWritten
      <3> QED
        BY Zenon, <2>1, <3>1
    <2>2. CASE ReleaseEndpoints({EndpointOf[p] : p \in att[i].taken}) /\ Return(i, "error")
      <3>1. Becomes(i, "settle", {}, {})
        BY Zenon, <1>1, <2>2, AttemptWritten
      <3>2. {EndpointOf[p] : p \in Open(i)} \subseteq {EndpointOf[p] : p \in att[i].taken}
        BY Zenon DEF Open
      <3> QED
        BY Zenon, <2>2, <3>1, <3>2
    <2> QED
      BY Zenon, <2>1, <2>2 DEF DialEnd, Open
  <1>4. PICK es, pc, kept : /\ ReleaseEndpoints(es) /\ {EndpointOf[p] : p \in Open(i)} \subseteq es
                            /\ Becomes(i, pc, {}, kept) /\ pc \in {"outcome", "settle"}
    BY Zenon, <1>3
  <1>5. BooksAgree' /\ act' = act \ es
    BY Zenon, <1>1, <1>4, ReleaseKeepsBooks
  <1>6. \A k \in Id \ {i} : Open(k)' = Open(k)
    BY Zenon, <1>4 DEF Becomes, Same, Open
  <1>7. ASSUME NEW q \in leased' PROVE Owned(q)'
    <2>1. EndpointOf[q] \notin es /\ Owned(q)
      BY Zenon, <1>4 DEF LeaseInv, ReleaseEndpoints
    <2>2. q \notin Open(i)
      BY Zenon, <1>4, <2>1
    <2> QED
      BY Zenon, <1>2, <1>6, <2>1, <2>2 DEF Owned
  <1>8. /\ Attempts' /\ \A k \in Id : /\ att'[k].pc # "dialing" => att'[k].taken = {}
                                      /\ Busy(k)' => Busy(k)
                                      /\ k >= next => att'[k].pc = "unused"
    BY SMTT(60), <1>2, <1>4 DEF Becomes, Same, Busy, LeaseInv
  <1> QED
    BY Zenon, <1>2, <1>5, <1>7, <1>8 DEF LeaseInv

(* The reask loop and its events, and time.                                *)
LEMMA LoopKeeps ==
    ASSUME LeaseInv,
           \/ \E c \in Pair : ReaskDrop(c) \/ SourceReady(c) \/ SourceDead(c)
           \/ \E e \in Endpoint : SourceReleased(e)
           \/ RetryInsufficient \/ Tick
    PROVE  LeaseInv'
  <1>1. Attempts /\ BooksAgree
    BY Zenon DEF LeaseInv
  <1>2. ReleaseEndpoints({}) \/ ~UNCHANGED <<leased, act>>
    BY Zenon DEF ReleaseEndpoints
  <1>3. UNCHANGED att => Attempts' /\ \A k \in Id : Calm(k)
    BY Zenon, <1>1 DEF Attempts, Calm, Same
  <1>4. ASSUME NEW c \in Pair, ReaskDrop(c) PROVE LeaseInv'
    <2>1. UNCHANGED <<leased, act, att, lost, net, next, spawned>>
      BY Zenon, <1>4 DEF ReaskDrop, transfers, registry
    <2>2. reask' = reask \ {c} /\ freed' = freed \cup {EndpointOf[c[1]]}
      BY Zenon, <1>4 DEF ReaskDrop
    <2> QED
      BY Zenon, <1>2, <1>3, <2>1, <2>2, CalmStep
  <1>5. ASSUME NEW c \in Pair, SourceReady(c) PROVE LeaseInv'
    <2>1. /\ UNCHANGED <<leased, act, reask, freed, lost, net, next, att>>
          /\ net # "on" => spawned' \subseteq spawned
      BY Zenon, <1>5 DEF SourceReady, registry, loop, Spawn
    <2> QED
      BY Zenon, <1>3, <2>1, QuietStep
  <1>6. ASSUME NEW c \in Pair, SourceDead(c) PROVE LeaseInv'
    <2>1. UNCHANGED <<att, lost, net, next>> /\ (net # "on" => spawned' \subseteq spawned)
      BY Zenon, <1>6 DEF SourceDead, registry, Spawn
    <2>2. reask' = reask \ {c} /\ freed' = freed \cup {EndpointOf[c[1]]}
      BY Zenon, <1>6 DEF SourceDead
    <2>3. UNCHANGED <<leased, act>> \/ ReleaseEndpoints({EndpointOf[c[1]]})
      BY Zenon, <1>6 DEF SourceDead, registry
    <2> QED
      BY Zenon, <1>2, <1>3, <2>1, <2>2, <2>3, CalmStep
  <1>7. ASSUME NEW e \in Endpoint, SourceReleased(e) PROVE LeaseInv'
    <2>1. /\ UNCHANGED <<att, lost, net, next, spawned, reask>> /\ freed' = freed \ {e}
          /\ ReleaseEndpoints({e})
      BY Zenon, <1>7 DEF SourceReleased, transfers
    <2> QED
      BY Zenon, <1>3, <2>1, CalmStep
  <1>8. CASE RetryInsufficient
    <2>1. /\ UNCHANGED <<leased, act, reask, freed, lost, net, next, att>>
          /\ net # "on" => spawned' \subseteq spawned
      BY Zenon, <1>8 DEF RetryInsufficient, registry, loop, Spawn
    <2> QED
      BY Zenon, <1>3, <2>1, QuietStep
  <1>9. CASE Tick
    <2>1. /\ UNCHANGED <<leased, act, reask, freed, lost, net, next, spawned>>
          /\ att' = [i \in Id |-> [att[i] EXCEPT !.delay = Less(@)]]
      BY Zenon, <1>9 DEF Tick, transfers, loop
    <2>2. Attempts' /\ \A k \in Id : Calm(k)
      BY Zenon, <1>1, <2>1, AllWritten DEF Calm
    <2> QED
      BY Zenon, <2>1, <2>2, QuietStep
  <1> QED
    BY Zenon, <1>4, <1>5, <1>6, <1>7, <1>8, <1>9

(* Disconnecting cancels everything, drains and resets; connecting again   *)
(* finds nothing engaged.                                                  *)
LEMMA NetworkKeeps ==
    ASSUME LeaseInv, Disconnect \/ Drained \/ Connect \/ \E i \in Id : Abort(i)
    PROVE  LeaseInv'
  <1>1. Attempts /\ BooksAgree
    BY Zenon DEF LeaseInv
  <1>2. CASE Disconnect
    <2>1. /\ UNCHANGED <<leased, act, next>> /\ net' = "stopping" /\ spawned' = {}
          /\ att' = [i \in Id |-> [att[i] EXCEPT !.cancelled = TRUE]]
      BY Zenon, <1>2 DEF Disconnect, registry
    <2>2. Attempts' /\ \A k \in Id : Same(k)
      BY Zenon, <1>1, <2>1, AllWritten
    <2>3. \A k \in Id : /\ att'[k].pc # "dialing" => att'[k].taken = {}
                        /\ k >= next => att'[k].pc = "unused"
      BY Zenon, <2>2 DEF Same, LeaseInv
    <2> QED
      BY Zenon, <1>1, <2>1, <2>2, <2>3 DEF LeaseInv, BooksAgree, Owned
  <1>3. ASSUME NEW i \in Id, Abort(i) PROVE LeaseInv'
    <2>1. /\ UNCHANGED <<leased, act, next, net, spawned>> /\ net = "stopping"
          /\ att[i].pc # "unused"
          /\ att' = [att EXCEPT ![i] = [Returned(att[i], "none") EXCEPT !.pc = "exit"]]
      BY Zenon, <1>3 DEF Abort, registry, transfers
    <2>2. Book([Returned(att[i], "none") EXCEPT !.pc = "exit"], "exit", {}, {})
      BY Zenon, BookOfReturned, BookUpdates
    <2>3. Becomes(i, "exit", {}, {})
      BY Zenon, <1>1, <2>1, <2>2, AttemptReplaced
    <2>4. /\ Attempts' /\ \A k \in Id : /\ att'[k].pc # "dialing" => att'[k].taken = {}
                                        /\ k >= next => att'[k].pc = "unused"
      BY SMTT(60), <2>1, <2>3 DEF Becomes, Same, LeaseInv
    <2> QED
      BY Zenon, <1>1, <2>1, <2>4 DEF LeaseInv, BooksAgree, Owned
  <1>4. CASE Drained
    <2>1. /\ UNCHANGED <<att, next, spawned>> /\ net = "stopping" /\ net' = "off"
          /\ leased' = {} /\ act' = act \ {EndpointOf[p] : p \in leased}
          /\ \A i \in Id : ~Busy(i)
      BY Zenon, <1>4 DEF Drained, transfers, Busy
    <2>2. act' = {} /\ BooksAgree'
      BY Zenon, <1>1, <2>1 DEF BooksAgree
    <2> QED
      BY Zenon, <2>1, <2>2 DEF LeaseInv, Attempts, Busy
  <1>5. CASE Connect
    <2>1. UNCHANGED <<att, next, spawned, leased, act>> /\ net = "off" /\ net' = "on"
      BY Zenon, <1>5 DEF Connect, registry, transfers
    <2>2. act = {} /\ \A p \in leased : EndpointOf[p] \in act
      BY Zenon, <1>1, <2>1 DEF LeaseInv, BooksAgree
    <2> QED
      BY Zenon, <2>1, <2>2 DEF LeaseInv, Attempts, BooksAgree
  <1> QED
    BY Zenon, <1>2, <1>3, <1>4, <1>5

(* The inductive step.                                                     *)
LEMMA LeaseInvPreserved ==
    ASSUME AttemptsAssumption, LeaseInv, [Next]_vars
    PROVE  LeaseInv'
  <1>1. CASE UNCHANGED vars
    BY Zenon, <1>1 DEF vars, LeaseInv, Attempts, BooksAgree, Owned, Open, Busy
  <1>2. CASE Next
    <2>1. CASE \E i \in Id : Step(i) \/ Detach(i)
      <3> PICK i \in Id : Step(i) \/ Detach(i)
        BY Zenon, <2>1
      <3> QED
        BY Zenon, CalmAttemptKeeps, EndsKeep, AcquireKeeps, DetachKeeps, DialEndKeeps, NetworkKeeps DEF Step
    <2> QED
      BY Zenon, <1>2, <2>1, OperatorKeeps, EndsKeep, LoopKeeps, NetworkKeeps DEF Next
  <1> QED
    BY Zenon, <1>1, <1>2

(***************************************************************************)
(* The two books of an engagement agree, and a lease goes astray in one    *)
(* way only: every lease the driver takes is still to be released by the   *)
(* attempt that dials its peer, by the reask loop that keeps it, or by the *)
(* reset of a disconnect, or else is one that its session gave to the      *)
(* reask loop in a registration the command channel dropped.               *)
(***************************************************************************)
THEOREM LeasesStayOwned ==
    ASSUME AttemptsAssumption
    PROVE  Spec => []LeasesOwned
  <1>1. Init => LeaseInv
    <2> SUFFICES ASSUME Init PROVE LeaseInv
      OBVIOUS
    <2>1. Book(Idle, "unused", {}, {})
      BY Zenon, BookOfReturned
    <2>2. /\ att = [i \in Id |-> Idle] /\ next = 1 /\ leased = {} /\ act = {} /\ net = "on"
      BY Zenon DEF Init
    <2> QED
      BY <2>1, <2>2 DEF LeaseInv, Attempts, BooksAgree, Book
  <1>2. LeaseInv => LeasesOwned
    <2> SUFFICES ASSUME LeaseInv, NEW p \in leased
                 PROVE  \/ \E i \in Id : Dials(i, p)
                        \/ \E c \in reask : EndpointOf[c[1]] = EndpointOf[p]
                        \/ EndpointOf[p] \in freed \/ net = "stopping"
                        \/ p \in lost
      <3>1. ASSUME LeaseInv PROVE DOMAIN att = Id
        BY <3>1 DEF LeaseInv, Attempts
      <3> QED
        BY Zenon, <3>1 DEF LeasesOwned, LeaseInv, BooksAgree
    <2>1. Owned(p)
      BY Zenon DEF LeaseInv
    <2>2. ASSUME NEW i \in Id, p \in Open(i) PROVE Dials(i, p)
      BY Zenon, <2>2 DEF Open, LeaseInv, Busy, Dials
    <2> QED
      BY Zenon, <2>1, <2>2 DEF Owned
  <1> QED
    BY <1>1, <1>2, LeaseInvPreserved, PTL DEF Spec

-----------------------------------------------------------------------------
DeadInv == left \in [Pair -> Nat] /\ dead \in [Pair -> Nat] /\ DeadStaysOut

\* What a step may do to the candidates and the dead list.
Forgets == dead' = dead /\ \E gone : left' = Without(gone)
Registers == \E ps, f : Register(ps, f)
Refreshes == dead' = dead /\ \E c \in cand : left' = [left EXCEPT ![c] = Ttl + 2]
Buries == \E c \in Pair : left' = Without({c}) /\ dead' = [dead EXCEPT ![c] = DeadBlock]
Ages == /\ dead' = [c \in Pair |-> Less(dead[c])]
        /\ left' = [c \in Pair |-> IF c \in Fresh THEN left[c] - 1 ELSE left[c]]

(* Every step does one of these, or nothing, to them.                      *)
LEMMA StepsOfTheDeadList ==
    ASSUME DeadInv, Next
    PROVE  UNCHANGED <<left, dead>> \/ Forgets \/ Registers \/ Refreshes \/ Buries \/ Ages
  <1>1. ASSUME NEW f \in File,
               \/ Create(f) \/ Control(f, "paused") \/ Control(f, "stopped") \/ Resume(f)
               \/ ClearCompleted(f) \/ Recheck(f) \/ RecheckDone(f) \/ Start(f) \/ Retry(f)
        PROVE  UNCHANGED <<left, dead>>
    BY Zenon, <1>1 DEF Create, Control, Resume, ClearCompleted, Recheck, RecheckDone, Start, Retry, registry
  <1>2. ASSUME NEW f \in File, Delete(f) PROVE Forgets
    BY Zenon, <1>2 DEF Delete, ReleaseFile, Forgets
  <1>3. CASE RetryInsufficient \/ Disconnect \/ Drained \/ Connect
    BY Zenon, <1>3 DEF RetryInsufficient, Disconnect, Drained, Connect, registry
  <1>4. CASE Tick
    BY Zenon, <1>4 DEF Tick, Ages
  <1>5. ASSUME NEW i \in Id,
               \/ DialEnd(i) \/ DialLegDone(i) \/ Wake(i) \/ GuardDrop(i) \/ Abort(i) \/ Detach(i)
               \/ \E c \in Pair : OtherOutcome(i, c)
        PROVE  UNCHANGED <<left, dead>>
    BY Zenon, <1>5 DEF DialEnd, DialLegDone, Wake, GuardDrop, Abort, Detach, OtherOutcome, registry
  <1>6. ASSUME NEW i \in Id, Begin(i) PROVE UNCHANGED <<left, dead>> \/ Registers
    BY Zenon, <1>6 DEF Begin, registry, Registers
  <1>7. ASSUME NEW i \in Id, Requery(i) PROVE UNCHANGED <<left, dead>> \/ Registers
    BY Zenon, <1>7 DEF Requery, registry, Registers
  <1>8. ASSUME NEW i \in Id, Acquire(i) \/ Settle(i) PROVE UNCHANGED <<left, dead>> \/ Forgets
    BY Zenon, <1>8 DEF Acquire, Settle, ReleaseFile, registry, Forgets
  <1>9. ASSUME NEW i \in Id, NEW c \in Pair, NoNeededParts(i, c)
        PROVE  UNCHANGED <<left, dead>> \/ Refreshes \/ Forgets
    <2>1. dead' = dead
      BY Zenon, <1>9 DEF NoNeededParts
    <2>2. CASE c \notin cand
      BY Zenon, <1>9, <2>1, <2>2 DEF NoNeededParts
    <2>3. CASE c \in cand /\ left' = [left EXCEPT ![c] = Ttl + 2]
      BY Zenon, <2>1, <2>3 DEF Refreshes
    <2>4. CASE left' = [left EXCEPT ![c] = 0]
      <3>1. left' = Without({c})
        BY Zenon, <2>4 DEF DeadInv, Without
      <3> QED
        BY Zenon, <2>1, <3>1 DEF Forgets
    <2> QED
      BY Zenon, <1>9, <2>2, <2>3, <2>4 DEF NoNeededParts
  <1>10. ASSUME NEW i \in Id, NEW c \in Pair, FileNotFound(i, c) PROVE Buries
    BY Zenon, <1>10 DEF FileNotFound, Buries
  <1>11. ASSUME NEW c \in Pair, ReaskDrop(c) \/ SourceReady(c) PROVE UNCHANGED <<left, dead>>
    BY Zenon, <1>11 DEF ReaskDrop, SourceReady, registry
  <1>12. ASSUME NEW c \in Pair, SourceDead(c) PROVE UNCHANGED <<left, dead>> \/ Buries
    BY Zenon, <1>12 DEF SourceDead, registry, Buries
  <1>13. ASSUME NEW e \in Endpoint, SourceReleased(e) PROVE UNCHANGED <<left, dead>>
    BY Zenon, <1>13 DEF SourceReleased
  <1> QED
    BY Zenon, <1>1, <1>2, <1>3, <1>4, <1>5, <1>6, <1>7, <1>8, <1>9, <1>10, <1>11, <1>12, <1>13
    DEF Next, Step

(***************************************************************************)
(* A pair that answered file-not-found is no candidate while its block     *)
(* runs: no path registers, refreshes or keeps one (is_dead_source in      *)
(* register_download_source_candidates).                                   *)
(***************************************************************************)
THEOREM DeadSourcesStayOut ==
    ASSUME AttemptsAssumption
    PROVE  Spec => []DeadStaysOut
  <1> USE DEF AttemptsAssumption
  <1>1. Init => DeadInv
    BY DEF Init, DeadInv, DeadStaysOut, cand
  <1>2. ASSUME DeadInv, UNCHANGED <<left, dead>> PROVE DeadInv'
    BY Zenon, <1>2 DEF DeadInv, DeadStaysOut, cand
  <1>3. ASSUME DeadInv, Forgets PROVE DeadInv'
    BY <1>3 DEF DeadInv, DeadStaysOut, cand, Forgets, Without
  <1>4. ASSUME DeadInv, Registers PROVE DeadInv'
    <2> PICK ps, f : Register(ps, f)
      BY Zenon, <1>4 DEF Registers
    <2> DEFINE new == {<<p, f>> : p \in {q \in ps : dead[<<q, f>>] = 0}}
    <2>1. /\ left' = [c \in Pair |-> IF c \in new THEN Ttl + 2 ELSE left[c]] /\ dead' = dead
          /\ \A c \in new : dead[c] = 0
      BY Zenon DEF Register
    <2> HIDE DEF new
    <2> QED
      BY <1>4, <2>1 DEF DeadInv, DeadStaysOut, cand
  <1>5. ASSUME DeadInv, Refreshes PROVE DeadInv'
    BY <1>5 DEF DeadInv, DeadStaysOut, cand, Refreshes
  <1>6. ASSUME DeadInv, Buries PROVE DeadInv'
    BY <1>6 DEF DeadInv, DeadStaysOut, cand, Buries, Without
  <1>7. ASSUME DeadInv, Ages PROVE DeadInv'
    BY <1>7 DEF DeadInv, DeadStaysOut, cand, Fresh, Ages, Less
  <1>8. DeadInv /\ [Next]_vars => DeadInv'
    BY Zenon, <1>2, <1>3, <1>4, <1>5, <1>6, <1>7, StepsOfTheDeadList DEF vars
  <1>9. DeadInv => DeadStaysOut
    BY Zenon DEF DeadInv
  <1> QED
    BY <1>1, <1>8, <1>9, PTL DEF Spec
=============================================================================
