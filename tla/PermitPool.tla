----------------------------- MODULE PermitPool -----------------------------
(***************************************************************************)
(* What the search permits of a Kad node promise (kad-dht/node/            *)
(* concurrency.rs): at most Size callers hold one, a caller that holds one *)
(* may claim its key when nobody has claimed the same key, and it gives    *)
(* the key back before the permit.  The code keeps neither set: it has a   *)
(* semaphore and a set of keys, and KadSearch is shown to implement this.  *)
(***************************************************************************)
EXTENDS Naturals, FiniteSets

CONSTANTS Callers, Key, Size

VARIABLES
  holders,   \* callers that hold a permit
  owners     \* those of them whose search for their key is under way

poolVars == <<holders, owners>>

PoolInit == holders = {} /\ owners = {}

Take(c) ==
  /\ c \notin holders /\ Cardinality(holders) < Size
  /\ holders' = holders \cup {c} /\ UNCHANGED owners

Claim(c) ==
  /\ c \in holders \ owners
  /\ \A o \in owners : Key[o] # Key[c]
  /\ owners' = owners \cup {c} /\ UNCHANGED holders

Disclaim(c) ==
  /\ c \in owners
  /\ owners' = owners \ {c} /\ UNCHANGED holders

Give(c) ==
  /\ c \in holders \ owners
  /\ holders' = holders \ {c} /\ UNCHANGED owners

PoolNext == \E c \in Callers : Take(c) \/ Claim(c) \/ Disclaim(c) \/ Give(c)

PoolSpec == PoolInit /\ [][PoolNext]_poolVars
=============================================================================
