---------------------------- MODULE BlockLeases ----------------------------
(***************************************************************************)
(* The leases of the blocks of a file: the registry the sessions share,    *)
(* the windows that hold the tokens, and what the sessions in              *)
(* DownloadWindow promise about the two.                                   *)
(***************************************************************************)
EXTENDS Functions

VARIABLES
    registry,       \* leases: <<part, from, to>> to its BlockLeaseOwner
    stage,          \* where each session is in its loop
    pending         \* pending_part_requests

(* Every reservation belongs to a request that a live session still holds: *)
(* no ending of a session, however it comes, strands a claim ("a crash,    *)
(* cancellation, or failed teardown cannot strand a durable network        *)
(* claim", block_lease.rs).                                                *)
RegistryBacked ==
    \A k \in DOMAIN registry :
        \E r \in Range(pending[registry[k].peer]) : r.key = k /\ r.lease = registry[k].lease

(* A reservation goes only when its present owner gives it up: the token   *)
(* of a session whose lease was taken over cannot release the new owner's. *)
ForeignLeaseKept ==
    \A k \in DOMAIN registry \ DOMAIN registry' :
       \A r \in Range(pending'[registry[k].peer]) : r.lease # registry[k].lease

(* A session that waits for its peer has a range on the wire: it never     *)
(* keeps an upload slot of the peer with nothing asked for.                *)
WaitingMeansAsked ==
    \A s \in DOMAIN stage : stage[s] = "reading" => \E r \in Range(pending[s]) : r.queued
=============================================================================
