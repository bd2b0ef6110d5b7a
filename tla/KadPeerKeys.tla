---------------------------- MODULE KadPeerKeys ----------------------------
(***************************************************************************)
(* The receiver verify keys of the Kad obfuscation layer                   *)
(* (kad-net/obfuscation/peer_state.rs) and the public address they are     *)
(* bound to (DhtNode::set_public_ip_for_udp_keys).  The receive loop       *)
(* learns keys; the address task resets them when the public address       *)
(* changes (run_kad_udp_key_public_ip_sync), and so does a disconnect,     *)
(* before it aborts that task.  Each step is one atomic load, store or     *)
(* swap, or one section under the map's lock; the wait for the routing     *)
(* table's lock is a step of its own.                                      *)
(*                                                                         *)
(* A key is represented by the public address the learner believed in: a   *)
(* peer derives its key from the address it sees.                          *)
(***************************************************************************)
EXTENDS Naturals, Sequences, FiniteSets

CONSTANTS
  Peers,        \* peer addresses
  PublicIps,    \* public IPv4 addresses of this node
  Persisted,    \* routing contacts' saved keys: peer -> address it is bound to, or Absent
  PeerMapCap,   \* PEER_MAP_CAP
  MaxChanges,   \* bound: calls of set_public_ip_for_udp_keys
  Receiver,     \* the receive loop
  Sync,         \* the address task
  Stop,         \* disconnect_ed2k
  Absent

VARIABLES
  publicIp,     \* current_public_ip
  learning,     \* peer_key_learning_enabled
  keys,         \* receiver_verify_keys, least recently seen first: <<peer, binding>>
  reg,          \* register_peer_key, per task: Absent, or the <<peer, binding>> it is about to insert
  upd,          \* set_public_ip_for_udp_keys, per task: where it is, its address, the contacts left
  lock,         \* holder of the routing table's lock
  observed,     \* the address task's last address
  changes

vars == <<publicIp, learning, keys, reg, upd, lock, observed, changes>>

Updaters == {Sync, Stop}
Tasks == {Receiver} \cup Updaters

Init ==
  /\ publicIp = Absent /\ observed = Absent
  /\ learning = TRUE
  /\ keys = <<>>
  /\ reg = [t \in Tasks |-> Absent]
  /\ upd = [u \in Updaters |-> [at |-> "idle", ip |-> Absent, left |-> {}]]
  /\ lock = Absent
  /\ changes = 0

\* The disconnect has raised the shutdown flag.
Stopping == upd[Stop].at # "idle"

Evicted(map) ==
  IF Len(map) > PeerMapCap THEN SubSeq(map, Len(map) - PeerMapCap + 1, Len(map)) ELSE map

Inserted(map, k) == Evicted(Append(SelectSeq(map, LAMBDA e : e[1] # k[1]), k))

At(u, step) == upd[u].at = step
GoTo(u, step) == upd' = [upd EXCEPT ![u].at = step]

-----------------------------------------------------------------------------
(* register_peer_key looks at the flag and then inserts under the lock.    *)

Learn(p) ==
  /\ reg[Receiver] = Absent /\ learning
  /\ reg' = [reg EXCEPT ![Receiver] = <<p, publicIp>>]
  /\ UNCHANGED <<publicIp, learning, keys, upd, lock, observed, changes>>

InsertKey(t) ==
  /\ reg[t] # Absent
  /\ keys' = Inserted(keys, reg[t])
  /\ reg' = [reg EXCEPT ![t] = Absent]
  /\ UNCHANGED <<publicIp, learning, upd, lock, observed, changes>>

-----------------------------------------------------------------------------
(* set_public_ip_for_udp_keys.                                             *)

\* The call is over; the address task looks at the shutdown flag and waits for its
\* next tick.
Over(u) == IF u = Sync /\ ~Stopping THEN "idle" ELSE "ended"

\* The address task sees another address than the last one; a disconnect comes
\* once, with any.  An unchanged address ends the call at the swap.
ChangeAddress(u, ip) ==
  /\ At(u, "idle") /\ changes < MaxChanges
  /\ u = Sync => ip # observed
  /\ publicIp' = ip
  /\ observed' = IF u = Sync THEN ip ELSE observed
  /\ upd' = [upd EXCEPT ![u] = [at |-> IF ip # publicIp THEN "swapped" ELSE Over(u), ip |-> ip, left |-> {}]]
  /\ changes' = changes + 1
  /\ UNCHANGED <<learning, keys, reg, lock>>

\* reset_peer_keys: disable learning, clear, enable for a known address.
Disable(u) ==
  /\ At(u, "swapped")
  /\ learning' = FALSE
  /\ GoTo(u, "disabled")
  /\ UNCHANGED <<publicIp, keys, reg, lock, observed, changes>>

Clear(u) ==
  /\ At(u, "disabled")
  /\ keys' = <<>>
  /\ GoTo(u, "cleared")
  /\ UNCHANGED <<publicIp, learning, reg, lock, observed, changes>>

Enable(u) ==
  /\ At(u, "cleared")
  /\ learning' = (upd[u].ip # Absent)
  /\ GoTo(u, IF upd[u].ip # Absent THEN "enabled" ELSE Over(u))
  /\ UNCHANGED <<publicIp, keys, reg, lock, observed, changes>>

\* The saved keys bound to the new address are registered again, under the routing
\* table's lock.
Bound(ip) == {p \in Peers : Persisted[p] = ip}

LockRouting(u) ==
  /\ At(u, "enabled") /\ lock = Absent
  /\ lock' = u
  /\ upd' = [upd EXCEPT ![u].at = "restoring", ![u].left = Bound(upd[u].ip)]
  /\ UNCHANGED <<publicIp, learning, keys, reg, observed, changes>>

RestoreNext(u) ==
  /\ At(u, "restoring") /\ reg[u] = Absent
  /\ \E p \in upd[u].left :
       /\ reg' = [reg EXCEPT ![u] = IF learning THEN <<p, upd[u].ip>> ELSE Absent]
       /\ upd' = [upd EXCEPT ![u].left = @ \ {p}]
  /\ UNCHANGED <<publicIp, learning, keys, lock, observed, changes>>

Restored(u) ==
  /\ At(u, "restoring") /\ reg[u] = Absent /\ upd[u].left = {}
  /\ lock' = Absent
  /\ GoTo(u, Over(u))
  /\ UNCHANGED <<publicIp, learning, keys, reg, observed, changes>>

Next ==
  \/ \E p \in Peers : Learn(p)
  \/ \E t \in Tasks : InsertKey(t)
  \/ \E u \in Updaters :
       \/ \E ip \in PublicIps \cup {Absent} : ChangeAddress(u, ip)
       \/ Disable(u) \/ Clear(u) \/ Enable(u) \/ LockRouting(u) \/ RestoreNext(u) \/ Restored(u)

Spec == Init /\ [][Next]_vars

-----------------------------------------------------------------------------
\* The type of the state: the map holds one key a peer and stays within its cap.
TypeOK ==
  /\ publicIp \in PublicIps \cup {Absent} /\ learning \in BOOLEAN
  /\ Len(keys) <= PeerMapCap
  /\ \A i, j \in DOMAIN keys : keys[i][1] = keys[j][1] => i = j
  /\ \A u \in Updaters : /\ upd[u].at \in {"idle", "swapped", "disabled", "cleared", "enabled", "restoring", "ended"}
                         /\ At(u, "restoring") <=> lock = u

Stale == {i \in DOMAIN keys : keys[i][2] # publicIp}

\* A change of the address has been carried out and no disconnect has begun.
Settled == ~Stopping /\ At(Sync, "idle") /\ changes > 0

\* While the address task alone changes the address, a change of it takes effect: keys
\* are learned again if and only if the address is known, the saved keys bound to it are
\* back (unless the map has filled since), and of the keys of another binding none is
\* left but one: reset_peer_keys says that the receive loop "cannot repopulate the map
\* between the clear and the new binding becoming active", but the loop reads the flag
\* before it takes the lock of the map, and may insert the key it was learning.
ChangeTakesEffect ==
  Settled =>
    /\ learning <=> publicIp # Absent
    /\ publicIp # Absent /\ Len(keys) < PeerMapCap =>
         \A p \in Bound(publicIp) : \E i \in DOMAIN keys : keys[i][1] = p
    /\ Cardinality(Stale) <= 1
=============================================================================
