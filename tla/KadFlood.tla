------------------------------ MODULE KadFlood ------------------------------
(***************************************************************************)
(* The inbound flood guard of the Kad receive loop (kad-net/tracker.rs):   *)
(* one token bucket per address and packet family, and a ban list.  Tokens *)
(* are milliseconds, and so is time.  Two packets are never handled at the *)
(* same Instant, but they may be less than a millisecond apart.  Packets   *)
(* that are exempt (LAN) or have no family never reach this module.        *)
(***************************************************************************)
EXTENDS Integers, Sequences, FiniteSets, Functions

CONSTANTS
  Addresses, Families,
  MaxPackets,    \* PacketTrackerLimit::max_packets of each family
  Window,        \* its window in ms
  FloodBan,      \* MASSIVE_FLOOD_BAN in ms
  MaxTime,       \* bound: the clock
  MaxArrivals    \* bound: packets

VARIABLES
  now,
  buckets,       \* partial function from keys to [tokens, tick]
  bannedUntil,   \* partial function from addresses to times
  \* what really happened, for the properties
  arrivals,
  allowed,       \* times at which a packet of the key was allowed
  polite,        \* the key's packets always came at least one cost apart
  flooded        \* time of the address's last massive flood, or -FloodBan

floodVars == <<now, buckets, bannedUntil, arrivals, allowed, polite, flooded>>

Keys == Addresses \X Families

FloodAssumption ==
  /\ MaxPackets \in [Families -> Nat]
  /\ Window \in Nat \ {0} /\ FloodBan \in Nat /\ MaxTime \in Nat /\ MaxArrivals \in Nat

\* bucket_cap_ms
Cap == Window

AtLeast(n, m) == IF n < m THEN m ELSE n

\* per_packet_token_cost_ms
Cost(k) == AtLeast(Cap \div AtLeast(MaxPackets[k[2]], 1), 1)

FloodInit ==
  /\ now = 0
  /\ buckets = <<>> /\ bannedUntil = <<>>
  /\ arrivals = 0
  /\ allowed = [k \in Keys |-> <<>>]
  /\ polite = [k \in Keys |-> TRUE]
  /\ flooded = [a \in Addresses |-> -FloodBan]

\* is_banned
IsBanned(a) == a \in DOMAIN bannedUntil /\ now < bannedUntil[a]

Refilled(k) ==
  LET tokens == buckets[k].tokens + (now - buckets[k].tick)
  IN IF tokens > Cap THEN Cap ELSE tokens

Spent(k) == IF k \in DOMAIN buckets THEN Refilled(k) - Cost(k) ELSE Cap - Cost(k)

MassiveFloor == -3 * Cap

Action(k) == IF Spent(k) < MassiveFloor THEN "massive" ELSE IF Spent(k) < 0 THEN "drop" ELSE "allow"

(***************************************************************************)
(* A datagram reaches the guard: a banned address is dropped before any    *)
(* accounting, the others pay (is_banned and record_and_check).            *)
(***************************************************************************)
Gap(k) == now - buckets[k].tick

Packet(k) ==
  /\ arrivals < MaxArrivals
  /\ arrivals' = arrivals + 1
  /\ IF IsBanned(k[1]) THEN UNCHANGED <<buckets, bannedUntil, allowed, polite, flooded>>
     ELSE /\ buckets' = [x \in DOMAIN buckets \cup {k} |->
                           IF x = k THEN [tokens |-> Spent(k), tick |-> now] ELSE buckets[x]]
          /\ IF Action(k) = "massive"
             THEN /\ bannedUntil' = [a \in DOMAIN bannedUntil \cup {k[1]} |->
                                       IF a = k[1] THEN now + FloodBan ELSE bannedUntil[a]]
                  /\ flooded' = [flooded EXCEPT ![k[1]] = now]
             ELSE UNCHANGED <<bannedUntil, flooded>>
          /\ allowed' = [allowed EXCEPT ![k] = IF Action(k) = "allow" THEN Append(@, now) ELSE @]
          /\ polite' = [polite EXCEPT ![k] = @ /\ (k \in DOMAIN buckets => Gap(k) >= Cost(k))]
  /\ UNCHANGED now

IdleHalfWindow == {k \in DOMAIN buckets : 2 * Gap(k) >= Cap}

\* prune: buckets idle for a window ...
IdleKeys == {k \in DOMAIN buckets : Gap(k) >= Cap}


\* ... and bans that are over.
Prune ==
  /\ buckets' = Restrict(buckets, DOMAIN buckets \ IdleKeys)
  /\ bannedUntil' = Restrict(bannedUntil, {a \in DOMAIN bannedUntil : now < bannedUntil[a]})
  /\ UNCHANGED <<now, arrivals, allowed, polite, flooded>>

Tick ==
  /\ now < MaxTime
  /\ now' = now + 1
  /\ UNCHANGED <<buckets, bannedUntil, arrivals, allowed, polite, flooded>>

FloodNext == (\E k \in Keys : Packet(k)) \/ Prune \/ Tick

FloodSpec == FloodInit /\ [][FloodNext]_floodVars

-----------------------------------------------------------------------------
FloodTypeOK ==
  /\ now \in 0 .. MaxTime /\ arrivals \in 0 .. MaxArrivals
  /\ DOMAIN buckets \subseteq Keys /\ DOMAIN bannedUntil \subseteq Addresses
  /\ \A k \in DOMAIN buckets : buckets[k].tokens <= Cap - Cost(k) /\ buckets[k].tick <= now

(***************************************************************************)
(* The budget of record_and_check over any stretch of time: a key is never *)
(* allowed more packets than a full bucket and the refill of that stretch  *)
(* pay for, prunes included.                                               *)
(***************************************************************************)
BudgetHolds ==
  \A k \in Keys : \A i, j \in DOMAIN allowed[k] :
    i <= j => (j - i + 1) * Cost(k) <= Cap + (allowed[k][j] - allowed[k][i])

\* While a massive flood's ban runs nothing of its address is allowed, whatever is pruned.
BanHolds ==
  \A k \in Keys : \A i \in DOMAIN allowed[k] :
    allowed[k][i] <= flooded[k[1]] \/ allowed[k][i] >= flooded[k[1]] + FloodBan

\* A peer that keeps to the pace of the budget is never dropped or banned for it.
PoliteNeverDropped ==
  \A k \in Keys : polite[k] /\ k \in DOMAIN buckets => buckets[k].tokens >= 0

=============================================================================
