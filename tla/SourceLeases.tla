---------------------------- MODULE SourceLeases ----------------------------
(***************************************************************************)
(* The leases of download sources: the state that says who is engaged with *)
(* whom, and what the driver in DownloadAttempts promises about it.        *)
(***************************************************************************)
CONSTANT EndpointOf     \* the TCP endpoint of each peer

VARIABLES
    att,        \* the attempts, by their generation id
    leased,     \* leased_peers
    act,        \* active_download_peer_endpoints
    reask,      \* (peer, file) detached onto the UDP reask loop
    freed,      \* endpoints in SourceReleased events not handled yet
    lost,       \* peers detached by a registration the reask loop never got
    net         \* the download task supervisor: "on", "stopping" or "off"

Busy(i) == att[i].pc \notin {"unused", "exit", "gone"}

\* The attempt i still has the lease of p to release.
Dials(i, p) == Busy(i) /\ p \in att[i].taken \ att[i].kept

\* The two books of an engagement agree, and a lease goes astray in one way only:
\* the endpoints that are engaged are those of the leased peers, and each of these
\* is one that an attempt is dialling, whose endpoint the reask loop keeps or has
\* just released, that a disconnect is about to reset, or whose detach the full or
\* closed command channel dropped (acquire_direct_download_source_leases, its
\* release paths, and try_detach_queued_source_for_reask, which does not learn of
\* the drop).
LeasesOwned ==
    /\ act = {EndpointOf[p] : p \in leased}
    /\ \A p \in leased :
         \/ \E i \in DOMAIN att : Dials(i, p)
         \/ \E c \in reask : EndpointOf[c[1]] = EndpointOf[p]
         \/ EndpointOf[p] \in freed \/ net = "stopping"
         \/ p \in lost

\* "a full channel just drops the detach (the source keeps its TCP behaviour), so a
\* modest bound is safe" (REASK_COMMAND_CHANNEL_BOUND): the lease of a source whose
\* detach was dropped is still its attempt's, so that the source can be dialled again.
DroppedDetachKeepsTcp ==
    \A p \in lost \cap leased : \E i \in DOMAIN att : Busy(i) /\ p \in att[i].taken
=============================================================================
