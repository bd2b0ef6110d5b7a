---------------------------- MODULE KadFlood_proofs ----------------------------
(***************************************************************************)
(* Proofs about KadFlood, for any addresses and families, any limits, any  *)
(* window and any ban.                                                     *)
(*                                                                         *)
(* The budget over a stretch of time is not inductive: it says nothing of  *)
(* the tokens left.  For a key with a bucket the tokens are bounded by     *)
(* what a full bucket and the refill since any earlier allowed packet      *)
(* leave after the packets allowed from there on; for a key whose bucket   *)
(* was pruned that time alone has paid for those packets, because a bucket *)
(* is pruned only a whole window after its last use.                       *)
(***************************************************************************)
EXTENDS KadFlood, TLAPS

\* The price of the packets allowed from the i-th on.
Paid(k, i) == (Len(allowed[k]) - i + 1) * Cost(k)

Types ==
  /\ now \in Nat
  /\ allowed \in [Keys -> Seq(Int)]
  /\ flooded \in [Addresses -> Int]
  /\ polite \in [Keys -> BOOLEAN]
  /\ DOMAIN buckets \subseteq Keys
  /\ \A k \in DOMAIN buckets : buckets[k].tokens \in Int /\ buckets[k].tick \in Int

Past ==
  /\ \A k \in Keys : \A i \in DOMAIN allowed[k] : allowed[k][i] <= now
  /\ \A k \in DOMAIN buckets : buckets[k].tick <= now
  /\ \A k \in DOMAIN buckets : \A i \in DOMAIN allowed[k] : allowed[k][i] <= buckets[k].tick

Funded ==
  /\ \A k \in DOMAIN buckets : \A i \in DOMAIN allowed[k] :
       Paid(k, i) <= Cap - buckets[k].tokens + (buckets[k].tick - allowed[k][i])
  /\ \A k \in Keys \ DOMAIN buckets : \A i \in DOMAIN allowed[k] :
       Paid(k, i) <= now - allowed[k][i]

BudgetInv == Types /\ Past /\ Funded /\ BudgetHolds

-----------------------------------------------------------------------------
(* A packet costs at least a millisecond and never more than the bucket.   *)
LEMMA CostType ==
  ASSUME FloodAssumption, NEW k \in Keys
  PROVE  Cost(k) \in Nat /\ 1 <= Cost(k) /\ Cost(k) <= Cap /\ Cap \in Nat
  <1> DEFINE m == MaxPackets[k[2]]
  <1>1. m \in Nat /\ Cap \in Nat /\ Cap >= 1
    BY DEF FloodAssumption, Keys, Cap
  <1>2. AtLeast(m, 1) \in Nat /\ AtLeast(m, 1) >= 1
    BY <1>1 DEF AtLeast
  <1> HIDE DEF m
  <1>3. ASSUME NEW d \in Nat, d >= 1 PROVE Cap \div d \in Nat /\ Cap \div d <= Cap
    BY <1>1, <1>3
  <1>4. Cap \div AtLeast(m, 1) \in Nat /\ Cap \div AtLeast(m, 1) <= Cap
    BY Zenon, <1>2, <1>3
  <1>5. Cost(k) = IF Cap \div AtLeast(m, 1) < 1 THEN 1 ELSE Cap \div AtLeast(m, 1)
    BY Zenon DEF Cost, AtLeast, m
  <1> QED
    BY <1>1, <1>4, <1>5

(* One more packet costs one more price.                                   *)
LEMMA OneMore ==
  ASSUME NEW n \in Int, NEW c \in Int
  PROVE  (n + 1) * c = n * c + c
  OBVIOUS

(* record_and_check never credits more than the refill, nor more than a    *)
(* full bucket.                                                            *)
LEMMA SpentBound ==
  ASSUME FloodAssumption, Types, NEW k \in Keys
  PROVE  /\ Spent(k) \in Int /\ Spent(k) <= Cap - Cost(k)
         /\ k \in DOMAIN buckets =>
              Spent(k) <= buckets[k].tokens + (now - buckets[k].tick) - Cost(k)
  <1>1. Cost(k) \in Nat /\ Cap \in Nat
    BY Zenon, CostType
  <1>2. CASE k \in DOMAIN buckets
    <2>1. now \in Int /\ buckets[k].tokens \in Int /\ buckets[k].tick \in Int
      BY <1>2 DEF Types
    <2>2. Spent(k) = Refilled(k) - Cost(k)
      BY Zenon, <1>2 DEF Spent
    <2> QED
      BY <1>1, <2>1, <2>2 DEF Refilled
  <1>3. CASE k \notin DOMAIN buckets
    BY <1>1, <1>3 DEF Spent
  <1> QED
    BY Zenon, <1>2, <1>3

\* What a packet that is accounted does to the buckets and the record.
Accounts(k) ==
  /\ now' = now
  /\ DOMAIN buckets' = DOMAIN buckets \cup {k}
  /\ buckets'[k].tokens = Spent(k) /\ buckets'[k].tick = now
  /\ \A x \in DOMAIN buckets : x # k => buckets'[x] = buckets[x]
  /\ \A x \in Keys : x # k => allowed'[x] = allowed[x]
  /\ \/ allowed'[k] = allowed[k]
     \/ Spent(k) >= 0 /\ allowed'[k] = Append(allowed[k], now)

(* A datagram is accounted on its key alone, or not at all.                *)
LEMMA PacketAccounts ==
  ASSUME FloodAssumption, Types, NEW k \in Keys, Packet(k)
  PROVE  \/ UNCHANGED <<now, buckets, bannedUntil, allowed, polite, flooded>>
         \/ Types' /\ Accounts(k)
  <1>1. CASE IsBanned(k[1])
    BY Zenon, <1>1 DEF Packet
  <1>2. CASE ~IsBanned(k[1])
    <2>1. Spent(k) \in Int
      BY Zenon, SpentBound
    <2>2. /\ now' = now
          /\ buckets' = [x \in DOMAIN buckets \cup {k} |->
                           IF x = k THEN [tokens |-> Spent(k), tick |-> now] ELSE buckets[x]]
          /\ allowed' = [allowed EXCEPT ![k] = IF Action(k) = "allow" THEN Append(@, now) ELSE @]
          /\ polite' = [polite EXCEPT ![k] = @ /\ (k \in DOMAIN buckets => Gap(k) >= Cost(k))]
          /\ flooded' = flooded \/ flooded' = [flooded EXCEPT ![k[1]] = now]
      BY Zenon, <1>2 DEF Packet
    <2>3. Action(k) = "allow" => Spent(k) >= 0
      BY <2>1 DEF Action
    <2>4. Accounts(k)
      BY Zenon, <2>2, <2>3 DEF Accounts, Types
    <2>5. allowed' \in [Keys -> Seq(Int)]
      BY <2>2 DEF Types
    <2>6. polite' \in [Keys -> BOOLEAN]
      BY Zenon, <2>2 DEF Types
    <2>7. flooded' \in [Addresses -> Int]
      BY <2>2 DEF Types
    <2>8. Types'
      BY <2>1, <2>4, <2>5, <2>6, <2>7 DEF Types, Accounts
    <2> QED
      BY Zenon, <2>4, <2>8
  <1> QED
    BY Zenon, <1>1, <1>2

(* Accounting keeps the budget of its key.                                 *)
LEMMA AccountsFund ==
  ASSUME FloodAssumption, BudgetInv, NEW k \in Keys, Types', Accounts(k)
  PROVE  BudgetInv'
  <1> DEFINE c == Cost(k)
             n == Len(allowed[k])
  <1>1. c \in Nat /\ Cap \in Nat /\ \A x \in Keys : Cost(x)' = Cost(x)
    BY Zenon, CostType DEF Cost, Cap
  <1>2. now \in Nat /\ now' = now /\ allowed[k] \in Seq(Int) /\ n \in Nat
    BY DEF BudgetInv, Types, Accounts
  <1>3. Spent(k) \in Int /\ Spent(k) <= Cap - c
        /\ (k \in DOMAIN buckets =>
              Spent(k) <= buckets[k].tokens + (now - buckets[k].tick) - c)
    BY Zenon, SpentBound DEF BudgetInv
  <1>4. Past'
    <2>1. ASSUME NEW x \in Keys, NEW i \in DOMAIN allowed'[x] PROVE allowed'[x][i] <= now
      <3>1. CASE allowed'[x] = allowed[x]
        BY Zenon, <2>1, <3>1 DEF BudgetInv, Past
      <3>2. CASE x = k /\ allowed'[k] = Append(allowed[k], now)
        <4>1. i \in 1 .. n + 1 /\ (i = n + 1 => allowed'[k][i] = now)
              /\ (i # n + 1 => i \in DOMAIN allowed[k] /\ allowed'[k][i] = allowed[k][i])
          BY <1>2, <2>1, <3>2
        <4> QED
          BY <1>2, <3>2, <4>1 DEF BudgetInv, Past
      <3> QED
        BY Zenon, <3>1, <3>2 DEF Accounts
    <2>2. ASSUME NEW x \in DOMAIN buckets' PROVE buckets'[x].tick <= now
      BY <1>2, <2>2 DEF BudgetInv, Past, Accounts
    <2>3. ASSUME NEW x \in DOMAIN buckets', NEW i \in DOMAIN allowed'[x]
          PROVE  allowed'[x][i] <= buckets'[x].tick
      <3>1. CASE x = k
        BY Zenon, <2>1, <3>1 DEF Accounts
      <3>2. CASE x # k
        BY Zenon, <2>3, <3>2 DEF BudgetInv, Past, Types, Accounts
      <3> QED
        BY Zenon, <3>1, <3>2
    <2> QED
      BY Zenon, <1>2, <2>1, <2>2, <2>3 DEF Past
  \* What the packets allowed so far cost, against the tokens left now.
  <1>5. ASSUME NEW i \in DOMAIN allowed[k]
        PROVE  Paid(k, i) + c <= Cap - Spent(k) + (now - allowed[k][i])
    <2>1. Paid(k, i) \in Int /\ allowed[k][i] \in Int
      BY <1>1, <1>2 DEF Paid
    <2>2. CASE k \in DOMAIN buckets
      <3>1. buckets[k].tokens \in Int /\ buckets[k].tick \in Int
        BY Zenon, <2>2 DEF BudgetInv, Types
      <3>2. Paid(k, i) <= Cap - buckets[k].tokens + (buckets[k].tick - allowed[k][i])
        BY Zenon, <2>2 DEF BudgetInv, Funded
      <3>3. Spent(k) <= buckets[k].tokens + (now - buckets[k].tick) - c
        BY Zenon, <1>3, <2>2
      <3>4. c \in Int /\ Cap \in Int /\ now \in Int /\ Spent(k) \in Int
        BY <1>1, <1>2, <1>3
      <3> HIDE DEF c
      <3> QED
        BY <2>1, <3>1, <3>2, <3>3, <3>4
    <2>3. CASE k \notin DOMAIN buckets
      BY SMTT(60), <1>1, <1>2, <1>3, <2>1, <2>3 DEF BudgetInv, Funded
    <2> QED
      BY Zenon, <2>2, <2>3
  \* The other keys' books are as they were.
  <1>6. ASSUME NEW x \in Keys, x # k
        PROVE  /\ allowed'[x] = allowed[x]
               /\ \A i : Paid(x, i)' = Paid(x, i)
               /\ x \in DOMAIN buckets' <=> x \in DOMAIN buckets
               /\ x \in DOMAIN buckets => buckets'[x] = buckets[x]
    BY Zenon, <1>1, <1>6 DEF Paid, Accounts
  <1>7. ASSUME \A i \in DOMAIN allowed'[k] :
                  Paid(k, i)' <= Cap - Spent(k) + (now - allowed'[k][i])
        PROVE  Funded'
    <2>1. ASSUME NEW x \in DOMAIN buckets', NEW i \in DOMAIN allowed'[x]
          PROVE  Paid(x, i)' <= Cap - buckets'[x].tokens + (buckets'[x].tick - allowed'[x][i])
      <3>1. CASE x = k
        BY Zenon, <1>7, <2>1, <3>1 DEF Accounts
      <3>2. CASE x # k
        <4>1. x \in Keys /\ x \in DOMAIN buckets
          BY Zenon, <2>1, <3>2 DEF BudgetInv, Types, Accounts
        <4> QED
          BY Zenon, <1>6, <2>1, <3>2, <4>1 DEF BudgetInv, Funded
      <3> QED
        BY Zenon, <3>1, <3>2
    <2>2. ASSUME NEW x \in Keys \ DOMAIN buckets', NEW i \in DOMAIN allowed'[x]
          PROVE  Paid(x, i)' <= now - allowed'[x][i]
      <3>1. x # k
        BY Zenon, <2>2 DEF Accounts
      <3> QED
        BY Zenon, <1>6, <2>2, <3>1 DEF BudgetInv, Funded
    <2> QED
      BY Zenon, <1>2, <2>1, <2>2 DEF Funded, Cap
  <1>8. ASSUME \A i, j \in DOMAIN allowed'[k] :
                  i <= j => (j - i + 1) * c <= Cap + (allowed'[k][j] - allowed'[k][i])
        PROVE  BudgetHolds'
    BY Zenon, <1>6, <1>8 DEF BudgetInv, BudgetHolds, Cap
  <1>9. CASE allowed'[k] = allowed[k]
    <2>1. ASSUME NEW i \in DOMAIN allowed[k]
          PROVE  Paid(k, i)' <= Cap - Spent(k) + (now - allowed[k][i])
      <3>1. Paid(k, i)' = Paid(k, i) /\ Paid(k, i) \in Int /\ allowed[k][i] \in Int
        BY <1>1, <1>2, <1>9 DEF Paid
      <3> QED
        BY SMTT(60), <1>1, <1>2, <1>3, <1>5, <3>1
    <2>2. Funded'
      BY Zenon, <1>7, <1>9, <2>1
    <2>3. BudgetHolds'
      BY Zenon, <1>8, <1>9 DEF BudgetInv, BudgetHolds
    <2> QED
      BY Zenon, <1>4, <2>2, <2>3 DEF BudgetInv
  <1>10. CASE Spent(k) >= 0 /\ allowed'[k] = Append(allowed[k], now)
    <2>1. Len(allowed'[k]) = n + 1 /\ DOMAIN allowed'[k] = 1 .. n + 1
          /\ allowed'[k][n + 1] = now /\ DOMAIN allowed[k] = 1 .. n
          /\ \A i \in 1 .. n : allowed'[k][i] = allowed[k][i] /\ allowed[k][i] \in Int
      BY <1>2, <1>10
    <2>2. ASSUME NEW i \in 1 .. n
          PROVE  Paid(k, i)' = Paid(k, i) + c /\ Paid(k, i) \in Int
      <3>1. Paid(k, i)' = ((n - i + 1) + 1) * c
        <4>1. Paid(k, i)' = ((n + 1) - i + 1) * c
          BY Zenon, <2>1 DEF Paid
        <4> HIDE DEF c, n
        <4>2. (n + 1) - i + 1 = (n - i + 1) + 1
          BY <1>2
        <4> QED
          BY Zenon, <4>1, <4>2
      <3>2. Paid(k, i) = (n - i + 1) * c
        BY Zenon DEF Paid
      <3> HIDE DEF c, n
      <3>3. n - i + 1 \in Int
        BY <1>2
      <3> QED
        BY <1>1, <3>1, <3>2, <3>3, OneMore
    <2>3. ASSUME NEW i, i = n + 1
          PROVE  Paid(k, i)' = c
      <3>1. Paid(k, i)' = ((n + 1) - (n + 1) + 1) * c
        BY Zenon, <2>1, <2>3 DEF Paid
      <3> HIDE DEF c, n
      <3>2. (n + 1) - (n + 1) + 1 = 1
        BY <1>2
      <3> QED
        BY <1>1, <3>1, <3>2
    <2>4. ASSUME NEW i \in 1 .. n + 1
          PROVE  /\ Paid(k, i)' \in Int /\ allowed'[k][i] \in Int
                 /\ Paid(k, i)' <= Cap - Spent(k) + (now - allowed'[k][i])
      <3>0. c \in Int /\ Cap \in Int /\ now \in Int /\ Spent(k) \in Int
        BY <1>1, <1>2, <1>3
      <3>1. CASE i = n + 1
        <4>1. Paid(k, i)' = c /\ allowed'[k][i] = now /\ Spent(k) <= Cap - c
          BY Zenon, <1>3, <2>1, <2>3, <3>1
        <4> HIDE DEF c, n
        <4> QED
          BY <3>0, <4>1
      <3>2. CASE i # n + 1
        <4>1. i \in 1 .. n
          BY <1>2, <3>2
        <4>2. /\ Paid(k, i)' = Paid(k, i) + c /\ Paid(k, i) \in Int
              /\ allowed'[k][i] = allowed[k][i] /\ allowed[k][i] \in Int
              /\ Paid(k, i) + c <= Cap - Spent(k) + (now - allowed[k][i])
          BY Zenon, <1>5, <2>1, <2>2, <4>1
        <4> HIDE DEF c, n
        <4> QED
          BY <3>0, <4>2
      <3> QED
        BY Zenon, <3>1, <3>2
    <2>5. Funded'
      BY Zenon, <1>7, <2>1, <2>4
    <2>6. ASSUME NEW i \in 1 .. n + 1, NEW j \in 1 .. n + 1, i <= j
          PROVE  (j - i + 1) * c <= Cap + (allowed'[k][j] - allowed'[k][i])
      <3>1. CASE j = n + 1
        <4>1. Paid(k, i)' = (j - i + 1) * c
          BY Zenon, <2>1, <3>1 DEF Paid
        <4>2. /\ Paid(k, i)' \in Int /\ allowed'[k][i] \in Int /\ allowed'[k][j] = now
              /\ Paid(k, i)' <= Cap - Spent(k) + (now - allowed'[k][i])
          BY Zenon, <2>1, <2>4, <3>1
        <4>3. Cap \in Int /\ now \in Int /\ Spent(k) \in Int /\ Spent(k) >= 0
          BY <1>1, <1>2, <1>3, <1>10
        <4>4. Paid(k, i)' <= Cap + (now - allowed'[k][i])
          BY SMTT(60), <4>2, <4>3
        <4> QED
          BY Zenon, <4>1, <4>2, <4>4
      <3>2. CASE j # n + 1
        <4>1. i \in 1 .. n /\ j \in 1 .. n
          BY SMTT(60), <1>2, <2>6, <3>2
        <4> QED
          BY Zenon, <2>1, <2>6, <4>1 DEF BudgetInv, BudgetHolds
      <3> QED
        BY Zenon, <3>1, <3>2
    <2>7. BudgetHolds'
      BY Zenon, <1>8, <2>1, <2>6
    <2> QED
      BY Zenon, <1>4, <2>5, <2>7 DEF BudgetInv
  <1> QED
    BY Zenon, <1>9, <1>10 DEF Accounts

(* A bucket is pruned only when the time since its last use alone pays for *)
(* everything its key was allowed: a fresh, full bucket overpays nobody.   *)
LEMMA PruneFunds ==
  ASSUME FloodAssumption, BudgetInv, Prune
  PROVE  BudgetInv'
  <1>1. /\ now' = now /\ allowed' = allowed /\ polite' = polite /\ flooded' = flooded
        /\ DOMAIN buckets' = DOMAIN buckets \ IdleKeys
        /\ \A k \in DOMAIN buckets' : buckets'[k] = buckets[k]
    BY Zenon DEF Prune, Restrict
  <1>2. Types' /\ Past' /\ BudgetHolds'
    BY Zenon, <1>1 DEF BudgetInv, Types, Past, BudgetHolds, Cap
  <1>3. \A k, i : Paid(k, i)' = Paid(k, i)
    BY Zenon, <1>1 DEF Paid
  <1>4. ASSUME NEW k \in DOMAIN buckets', NEW i \in DOMAIN allowed'[k]
        PROVE  Paid(k, i)' <= Cap - buckets'[k].tokens + (buckets'[k].tick - allowed'[k][i])
    BY Zenon, <1>1, <1>3, <1>4 DEF BudgetInv, Funded
  <1>5. ASSUME NEW k \in Keys \ DOMAIN buckets', NEW i \in DOMAIN allowed'[k]
        PROVE  Paid(k, i)' <= now - allowed'[k][i]
    <2>1. CASE k \notin DOMAIN buckets
      BY Zenon, <1>1, <1>3, <1>5, <2>1 DEF BudgetInv, Funded
    <2>2. CASE k \in IdleKeys
      <3> DEFINE n == Len(allowed[k])
      <3>1. allowed[k] \in Seq(Int) /\ i \in DOMAIN allowed[k]
        BY Zenon, <1>1, <1>5 DEF BudgetInv, Types
      <3>2. n \in DOMAIN allowed[k] /\ i <= n /\ i \in Int /\ n \in Int
            /\ allowed[k][n] \in Int /\ allowed[k][i] \in Int
        BY <3>1
      <3>3. Paid(k, i) <= Cap + (allowed[k][n] - allowed[k][i])
        <4>1. Paid(k, i) = (n - i + 1) * Cost(k)
          BY Zenon DEF Paid
        <4> HIDE DEF n
        <4>2. (n - i + 1) * Cost(k) <= Cap + (allowed[k][n] - allowed[k][i])
          <5>1. k \in Keys
            BY Zenon, <1>5
          <5>2. \A a, b \in DOMAIN allowed[k] :
                   a <= b => (b - a + 1) * Cost(k) <= Cap + (allowed[k][b] - allowed[k][a])
            BY Zenon, <5>1 DEF BudgetInv, BudgetHolds
          <5> QED
            BY Zenon, <3>1, <3>2, <5>2
        <4> QED
          BY Zenon, <4>1, <4>2
      <3>4. /\ allowed[k][n] <= buckets[k].tick
            /\ buckets[k].tick \in Int /\ now \in Int /\ now - buckets[k].tick >= Cap
        BY <2>2, <3>2 DEF IdleKeys, Gap, BudgetInv, Past, Types
      <3>5. Cap \in Int /\ Cost(k) \in Int
        BY CostType
      <3>6. Paid(k, i) \in Int
        BY <3>2, <3>5 DEF Paid
      <3> HIDE DEF n
      <3> QED
        BY <1>1, <1>3, <3>2, <3>3, <3>4, <3>5, <3>6
    <2> QED
      BY Zenon, <1>1, <1>5, <2>1, <2>2
  <1>6. Funded'
    BY Zenon, <1>1, <1>4, <1>5 DEF Funded, Cap
  <1> QED
    BY Zenon, <1>2, <1>6 DEF BudgetInv

(* Time passing only adds to what a key may spend.                         *)
LEMMA TickFunds ==
  ASSUME FloodAssumption, BudgetInv, Tick
  PROVE  BudgetInv'
  <1>1. /\ now' = now + 1 /\ now \in Nat
        /\ buckets' = buckets /\ allowed' = allowed /\ polite' = polite /\ flooded' = flooded
    BY Zenon DEF Tick, BudgetInv, Types
  <1>2. Types' /\ BudgetHolds'
    BY <1>1 DEF BudgetInv, Types, BudgetHolds, Cap
  <1>3. \A k, i : Paid(k, i)' = Paid(k, i)
    BY Zenon, <1>1 DEF Paid
  <1>4. \A k \in Keys : \A i \in DOMAIN allowed[k] : allowed[k][i] \in Int /\ Paid(k, i) \in Int
    BY CostType DEF BudgetInv, Types, Paid
  <1>5. Past'
    <2>1. \A k \in Keys : \A i \in DOMAIN allowed[k] : allowed[k][i] <= now + 1
      BY <1>1, <1>4 DEF BudgetInv, Past
    <2>2. \A k \in DOMAIN buckets : buckets[k].tick <= now + 1
      BY <1>1 DEF BudgetInv, Past, Types
    <2> QED
      BY Zenon, <1>1, <2>1, <2>2 DEF BudgetInv, Past
  <1>6. Funded'
    <2>1. \A k \in Keys \ DOMAIN buckets : \A i \in DOMAIN allowed[k] :
             Paid(k, i) <= (now + 1) - allowed[k][i]
      <3> SUFFICES ASSUME NEW k \in Keys \ DOMAIN buckets, NEW i \in DOMAIN allowed[k]
                   PROVE  Paid(k, i) <= (now + 1) - allowed[k][i]
        OBVIOUS
      <3>1. Paid(k, i) <= now - allowed[k][i]
        BY Zenon DEF BudgetInv, Funded
      <3> QED
        BY <1>1, <1>4, <3>1
    <2> QED
      BY Zenon, <1>1, <1>3, <2>1 DEF BudgetInv, Funded, Cap
  <1> QED
    BY Zenon, <1>2, <1>5, <1>6 DEF BudgetInv

-----------------------------------------------------------------------------
(* Every step keeps the inductive invariant of the budget.                 *)
LEMMA BudgetKept ==
  ASSUME FloodAssumption, BudgetInv, [FloodNext]_floodVars
  PROVE  BudgetInv'
  <1>1. ASSUME UNCHANGED <<now, buckets, bannedUntil, allowed, polite, flooded>>
        PROVE  BudgetInv'
    BY Zenon, <1>1 DEF BudgetInv, Types, Past, Funded, Paid, BudgetHolds, Cap
  <1>2. ASSUME NEW k \in Keys, Packet(k) PROVE BudgetInv'
    <2>1. Types
      BY Zenon DEF BudgetInv
    <2> QED
      BY Zenon, <1>1, <1>2, <2>1, PacketAccounts, AccountsFund
  <1>3. CASE UNCHANGED floodVars
    BY Zenon, <1>1, <1>3 DEF floodVars
  <1> QED
    BY Zenon, <1>2, <1>3, PruneFunds, TickFunds DEF FloodNext

(* Nothing has been sent, allowed or banned at first.                      *)
LEMMA BudgetInit ==
  ASSUME FloodAssumption, FloodInit
  PROVE  BudgetInv
  <1>1. Types
    BY DEF FloodInit, Types, FloodAssumption
  <1>2. Past /\ Funded /\ BudgetHolds
    BY DEF FloodInit, Past, Funded, BudgetHolds
  <1> QED
    BY Zenon, <1>1, <1>2 DEF BudgetInv

(* The inductive invariant of the budget holds always.                     *)
LEMMA BudgetInvariant ==
  ASSUME FloodAssumption
  PROVE  FloodSpec => []BudgetInv
  <1>1. FloodInit => BudgetInv
    BY Zenon, BudgetInit
  <1>2. BudgetInv /\ [FloodNext]_floodVars => BudgetInv'
    BY Zenon, BudgetKept
  <1> QED
    BY <1>1, <1>2, PTL DEF FloodSpec

(* For any limits and any window, record_and_check never lets a key have   *)
(* more packets over any stretch of time than a full bucket and the refill *)
(* of that stretch pay for, however the buckets are pruned in between.     *)
THEOREM BudgetAlwaysHolds ==
  ASSUME FloodAssumption
  PROVE  FloodSpec => []BudgetHolds
  <1>1. BudgetInv => BudgetHolds
    BY Zenon DEF BudgetInv
  <1> QED
    BY <1>1, BudgetInvariant, PTL

-----------------------------------------------------------------------------
(* Bans.  The list holds every ban that still runs.                        *)

BansListed ==
  \A a \in Addresses :
    /\ flooded[a] <= now
    /\ now < flooded[a] + FloodBan =>
         a \in DOMAIN bannedUntil /\ bannedUntil[a] = flooded[a] + FloodBan

BanInv == BudgetInv /\ BansListed /\ BanHolds

(* A datagram of a banned address changes nothing, so nothing of it is     *)
(* allowed; a massive flood bans from now on.                              *)
LEMMA PacketBans ==
  ASSUME FloodAssumption, BanInv, NEW k \in Keys, Packet(k)
  PROVE  BansListed' /\ BanHolds'
  <1>1. /\ now \in Nat /\ now' = now /\ FloodBan \in Nat
        /\ allowed \in [Keys -> Seq(Int)] /\ flooded \in [Addresses -> Int]
        /\ k[1] \in Addresses /\ \A x \in Keys : x[1] \in Addresses
    BY Zenon DEF BanInv, BudgetInv, Types, Packet, FloodAssumption, Keys
  <1>2. CASE IsBanned(k[1])
    BY Zenon, <1>1, <1>2 DEF Packet, BanInv, BansListed, BanHolds
  <1>3. CASE ~IsBanned(k[1])
    <2>1. now >= flooded[k[1]] + FloodBan
      <3>1. flooded[k[1]] + FloodBan \in Int
        BY <1>1
      <3> QED
        BY <1>1, <1>3, <3>1 DEF BanInv, BansListed, IsBanned
    <2>2. \/ bannedUntil' = bannedUntil /\ flooded' = flooded
          \/ /\ Action(k) = "massive"
             /\ bannedUntil' = [a \in DOMAIN bannedUntil \cup {k[1]} |->
                                  IF a = k[1] THEN now + FloodBan ELSE bannedUntil[a]]
             /\ flooded' = [flooded EXCEPT ![k[1]] = now]
      BY Zenon, <1>3 DEF Packet
    <2>3. \A a \in Addresses : flooded'[a] = flooded[a] \/ (a = k[1] /\ flooded'[a] = now)
      BY Zenon, <1>1, <2>2
    <2>4. BansListed'
      BY <1>1, <2>2 DEF BanInv, BansListed
    <2>5. allowed' = [allowed EXCEPT ![k] = IF Action(k) = "allow" THEN Append(@, now) ELSE @]
      BY Zenon, <1>3 DEF Packet
    <2>6. ASSUME NEW x \in Keys, NEW i \in DOMAIN allowed'[x]
          PROVE  allowed'[x][i] = now \/ (i \in DOMAIN allowed[x] /\ allowed'[x][i] = allowed[x][i])
      <3>1. CASE allowed'[x] = allowed[x]
        BY Zenon, <2>6, <3>1
      <3>2. CASE x = k /\ allowed'[x] = Append(allowed[x], now)
        <4>1. allowed[x] \in Seq(Int)
          BY Zenon, <1>1
        <4> QED
          BY <2>6, <3>2, <4>1
      <3> QED
        BY Zenon, <1>1, <2>5, <3>1, <3>2
    <2>7. CASE flooded' = flooded
      <3> SUFFICES ASSUME NEW x \in Keys, NEW i \in DOMAIN allowed'[x]
                   PROVE  \/ allowed'[x][i] <= flooded[x[1]]
                          \/ allowed'[x][i] >= flooded[x[1]] + FloodBan
        BY Zenon, <2>4, <2>7 DEF BanHolds
      <3>1. CASE i \in DOMAIN allowed[x] /\ allowed'[x][i] = allowed[x][i]
        BY Zenon, <3>1 DEF BanInv, BanHolds
      <3>2. CASE ~(i \in DOMAIN allowed[x] /\ allowed'[x][i] = allowed[x][i])
        <4>1. allowed'[x][i] = now /\ x = k
          BY Zenon, <1>1, <2>5, <2>6, <3>2
        <4> QED
          BY Zenon, <2>1, <4>1
      <3> QED
        BY Zenon, <3>1, <3>2
    <2>8. CASE Action(k) = "massive" /\ flooded' = [flooded EXCEPT ![k[1]] = now]
      <3>1. allowed' = allowed
        BY Zenon, <1>1, <2>5, <2>8
      <3> SUFFICES ASSUME NEW x \in Keys, NEW i \in DOMAIN allowed[x]
                   PROVE  \/ allowed[x][i] <= flooded'[x[1]]
                          \/ allowed[x][i] >= flooded'[x[1]] + FloodBan
        BY Zenon, <2>4, <3>1 DEF BanHolds
      <3>2. CASE x[1] = k[1]
        BY Zenon, <1>1, <2>8, <3>2 DEF BanInv, BudgetInv, Past
      <3>3. CASE x[1] # k[1]
        BY Zenon, <1>1, <2>8, <3>3 DEF BanInv, BanHolds
      <3> QED
        BY Zenon, <3>2, <3>3
    <2> QED
      BY Zenon, <2>2, <2>4, <2>7, <2>8
  <1> QED
    BY Zenon, <1>2, <1>3

(* Pruning drops only bans that are over, and time only ends them.         *)
LEMMA RestBans ==
  ASSUME FloodAssumption, BanInv, Prune \/ Tick \/ UNCHANGED floodVars
  PROVE  BansListed' /\ BanHolds'
  <1>1. now \in Nat /\ flooded \in [Addresses -> Int] /\ FloodBan \in Nat
    BY Zenon DEF BanInv, BudgetInv, Types, FloodAssumption
  <1>2. allowed' = allowed /\ flooded' = flooded
    BY Zenon DEF Prune, Tick, floodVars
  <1>3. BanHolds'
    BY Zenon, <1>2 DEF BanInv, BanHolds
  <1>4. CASE Prune
    <2>1. /\ DOMAIN bannedUntil' = {a \in DOMAIN bannedUntil : now < bannedUntil[a]}
          /\ \A a \in DOMAIN bannedUntil' : bannedUntil'[a] = bannedUntil[a]
          /\ now' = now
      BY Zenon, <1>4 DEF Prune, Restrict
    <2> QED
      BY Zenon, <1>1, <1>2, <1>3, <2>1 DEF BanInv, BansListed
  <1>5. CASE Tick
    <2>1. bannedUntil' = bannedUntil /\ now' = now + 1
      BY Zenon, <1>5 DEF Tick
    <2> QED
      BY <1>1, <1>2, <1>3, <2>1 DEF BanInv, BansListed
  <1>6. CASE UNCHANGED floodVars
    BY Zenon, <1>3, <1>6 DEF floodVars, BanInv, BansListed
  <1> QED
    BY Zenon, <1>4, <1>5, <1>6

(* For any ban and any pruning: while the ban of a massive flood runs,     *)
(* is_banned keeps every packet of its address from being allowed.         *)
THEOREM BansAlwaysHold ==
  ASSUME FloodAssumption
  PROVE  FloodSpec => []BanHolds
  <1>1. FloodInit => BanInv
    <2> SUFFICES ASSUME FloodInit PROVE BanInv
      OBVIOUS
    <2>1. BudgetInv
      BY Zenon, BudgetInit
    <2>2. BansListed /\ BanHolds
      BY DEF FloodInit, BansListed, BanHolds, FloodAssumption
    <2> QED
      BY Zenon, <2>1, <2>2 DEF BanInv
  <1>2. BanInv /\ [FloodNext]_floodVars => BanInv'
    <2> SUFFICES ASSUME BanInv, [FloodNext]_floodVars PROVE BanInv'
      OBVIOUS
    <2>1. BudgetInv'
      BY Zenon, BudgetKept DEF BanInv
    <2>2. BansListed' /\ BanHolds'
      BY Zenon, PacketBans, RestBans DEF FloodNext
    <2> QED
      BY Zenon, <2>1, <2>2 DEF BanInv
  <1>3. BanInv => BanHolds
    BY Zenon DEF BanInv
  <1> QED
    BY <1>1, <1>2, <1>3, PTL DEF FloodSpec

-----------------------------------------------------------------------------
(* A peer whose packets come at least one price apart is never dropped,    *)
(* whatever the window and the limit are: its bucket never runs dry.       *)
THEOREM PoliteAlwaysServed ==
  ASSUME FloodAssumption
  PROVE  FloodSpec => []PoliteNeverDropped
  <1> DEFINE Inv == BudgetInv /\ PoliteNeverDropped
  <1>1. FloodInit => Inv
    <2> SUFFICES ASSUME FloodInit PROVE Inv
      OBVIOUS
    <2> QED
      BY BudgetInit DEF FloodInit, PoliteNeverDropped
  <1>2. Inv /\ [FloodNext]_floodVars => Inv'
    <2> SUFFICES ASSUME Inv, [FloodNext]_floodVars PROVE Inv'
      OBVIOUS
    <2>1. BudgetInv'
      BY Zenon, BudgetKept
    <2>2. ASSUME NEW k \in Keys, Packet(k) PROVE PoliteNeverDropped'
      <3>1. CASE IsBanned(k[1])
        BY Zenon, <2>2, <3>1 DEF Packet, PoliteNeverDropped
      <3>2. CASE ~IsBanned(k[1])
        <4>1. /\ DOMAIN buckets' = DOMAIN buckets \cup {k}
              /\ buckets'[k].tokens = Spent(k)
              /\ \A x \in DOMAIN buckets : x # k => buckets'[x] = buckets[x]
              /\ polite' = [polite EXCEPT ![k] = @ /\ (k \in DOMAIN buckets => Gap(k) >= Cost(k))]
          BY <2>2, <3>2 DEF Packet
        <4>2. /\ \A x \in Keys : x # k => polite'[x] = polite[x]
              /\ polite'[k] = (polite[k] /\ (k \in DOMAIN buckets => Gap(k) >= Cost(k)))
          BY Zenon, <4>1 DEF BudgetInv, Types
        <4>3. ASSUME polite'[k] PROVE Spent(k) >= 0
          <5>1. Cost(k) \in Nat /\ Cost(k) <= Cap /\ Cap \in Nat
            BY Zenon, CostType
          <5>2. CASE k \notin DOMAIN buckets
            BY <5>1, <5>2 DEF Spent
          <5>3. CASE k \in DOMAIN buckets
            <6>1. buckets[k].tokens \in Int /\ buckets[k].tick \in Int /\ now \in Int
              BY <5>3 DEF BudgetInv, Types
            <6>2. buckets[k].tokens >= 0 /\ now - buckets[k].tick >= Cost(k)
              BY Zenon, <4>2, <4>3, <5>3 DEF PoliteNeverDropped, Gap
            <6> QED
              BY <5>1, <5>3, <6>1, <6>2 DEF Spent, Refilled
          <5> QED
            BY Zenon, <5>2, <5>3
        <4> SUFFICES ASSUME NEW x \in Keys, polite'[x], x \in DOMAIN buckets'
                     PROVE  buckets'[x].tokens >= 0
          BY Zenon DEF PoliteNeverDropped
        <4>4. CASE x = k
          BY Zenon, <4>1, <4>3, <4>4
        <4>5. CASE x # k
          BY Zenon, <4>1, <4>2, <4>5 DEF PoliteNeverDropped
        <4> QED
          BY Zenon, <4>4, <4>5
      <3> QED
        BY Zenon, <3>1, <3>2
    <2>3. CASE Prune
      <3>1. /\ DOMAIN buckets' \subseteq DOMAIN buckets /\ polite' = polite
            /\ \A k \in DOMAIN buckets' : buckets'[k] = buckets[k]
        BY Zenon, <2>3 DEF Prune, Restrict
      <3> QED
        BY Zenon, <2>1, <3>1 DEF PoliteNeverDropped
    <2>4. CASE Tick \/ UNCHANGED floodVars
      BY Zenon, <2>1, <2>4 DEF Tick, floodVars, PoliteNeverDropped
    <2> QED
      BY Zenon, <2>1, <2>2, <2>3, <2>4 DEF FloodNext
  <1> QED
    BY <1>1, <1>2, PTL DEF FloodSpec

=============================================================================
