------------------------------- MODULE Handover -------------------------------
(***************************************************************************)
(* What the delivery of a completed download promises, with its tables,    *)
(* tasks, startup passes, crashes and the destination directory left out.  *)
(* A transfer is stored, delivered, retired or deleted, and forgotten; its *)
(* payload is held, set aside and removed; its output may be registered as *)
(* local content.  Delivery implements this: see HandoverFollowed there.   *)
(***************************************************************************)
VARIABLES
    stage,    \* of the transfers row
    payload,  \* the piece store
    shared    \* the output is registered local content

handoverVars == <<stage, payload, shared>>

HandoverInit == stage = "stored" /\ payload = "held" /\ shared = FALSE

\* An output is recorded, or found to be gone, while the payload is held.
Record == stage = "stored" /\ stage' = "delivered"
Withdraw == stage = "delivered" /\ stage' = "stored"
Recording == payload = "held" /\ (Record \/ Withdraw) /\ UNCHANGED <<payload, shared>>

Share == stage \in {"delivered", "retired"} /\ shared' = TRUE /\ UNCHANGED <<stage, payload>>

\* Two ways to let the payload go: its output is shared, or it was asked for.
Retire == stage = "delivered" /\ shared /\ stage' = "retired"
Condemn == stage \in {"stored", "delivered"} /\ stage' = "deleting"
Leaving == payload = "held" /\ (Retire \/ Condemn) /\ UNCHANGED <<payload, shared>>

SetAside == stage \in {"retired", "deleting"} /\ payload = "held" /\ payload' = "aside"
Remove == stage \in {"retired", "deleting"} /\ payload = "aside" /\ payload' = "removed"
\* A startup finds no payload for a transfer it is not deleting.
Rebuild == stage = "retired" /\ payload # "held" /\ payload' = "held"
Clearing == (SetAside \/ Remove \/ Rebuild) /\ UNCHANGED <<stage, shared>>

\* Nothing of the transfer is left behind when its row goes, and it stays gone.
Forget ==
    /\ stage \in {"retired", "deleting"} /\ payload = "removed"
    /\ stage' = "gone"
    /\ UNCHANGED <<payload, shared>>

HandoverNext == Recording \/ Share \/ Leaving \/ Clearing \/ Forget

HandoverSpec == HandoverInit /\ [][HandoverNext]_handoverVars
=============================================================================
