---------------------------- MODULE MCDownloads ----------------------------
(***************************************************************************)
(* The download side for TLC: instances of DownloadWindow (peers' block    *)
(* windows over one file) and of DownloadAttempts (the driver, its source  *)
(* registry and the operator).  A behaviour belongs to one of them, named  *)
(* by scenario, so that the states explored are their sum; the variables   *)
(* of the other module rest.  What BlockLeases and SourceLeases promise is *)
(* checked as they state it, in every scenario.                            *)
(*                                                                         *)
(* Two peers with every part in each window; one file and two peers, or    *)
(* two files and one peer, for the driver, whose timers of 20 to 60        *)
(* minutes are one or two ticks.                                           *)
(***************************************************************************)
EXTENDS BlockLeases, SourceLeases, Naturals, Sequences, TLC

CONSTANTS slow, fast, f1, f2, p1, p2

VARIABLES scenario,
    pieces, cooled, session, budget,
    xfer, spawned, retry, slot, token, next, left, cool, hold, dead, purged, calls, ticks

window == <<pieces, registry, cooled, stage, pending, session, budget>>
driver == <<xfer, spawned, retry, slot, token, att, next, left, leased, act, cool, hold, dead,
            purged, reask, freed, lost, net, calls, ticks>>
state == <<window, driver>>

TwoPeers == {slow, fast}
EveryPart(n) == [s \in TwoPeers |-> 0 .. n - 1]
FastBeatsSlow == {<<fast, slow>>}

\* A slow and a fast peer at the end of a part of three blocks; one session is lost.
Endgame == INSTANCE DownloadWindow WITH
    NumParts <- 1, NumBlocks <- 3, Frag <- 2, Peers <- TwoPeers, Has <- EveryPart(1),
    Frequency <- [p \in {0} |-> 2], Faster <- FastBeatsSlow,
    MaxPending <- 2, MinPending <- 1, Batch <- 1, EndgameLeft <- 4, StaleLimit <- 1,
    Budget <- [bad |-> 0, broken |-> 0, lost |-> 1]

\* Two parts, one of which is bad once.
BadPart == INSTANCE DownloadWindow WITH
    NumParts <- 2, NumBlocks <- 2, Frag <- 1, Peers <- TwoPeers, Has <- EveryPart(2),
    Frequency <- [p \in {0, 1} |-> IF p = 1 THEN 1 ELSE 2], Faster <- {},
    MaxPending <- 1, MinPending <- 1, Batch <- 1, EndgameLeft <- 0, StaleLimit <- 1,
    Budget <- [bad |-> 1, broken |-> 0, lost |-> 0]

\* A stream breaks and a session is lost.
Broken == INSTANCE DownloadWindow WITH
    NumParts <- 1, NumBlocks <- 2, Frag <- 2, Peers <- TwoPeers, Has <- EveryPart(1),
    Frequency <- [p \in {0} |-> 2], Faster <- {},
    MaxPending <- 2, MinPending <- 1, Batch <- 1, EndgameLeft <- 0, StaleLimit <- 1,
    Budget <- [bad |-> 0, broken |-> 1, lost |-> 1]

Endpoints == (p1 :> p1) @@ (p2 :> p2)
Score == (f1 :> 2) @@ (f2 :> 1)

\* One peer for two files.
Swap == INSTANCE DownloadAttempts WITH
    File <- {f1, f2}, Peer <- {p1}, SoftCap <- 0, PurgeAt <- 0,
    Cooldown <- 1, DeadBlock <- 1, Hold <- 1, Ttl <- 1, Rounds <- 0,
    MaxAttempts <- 2, MaxCalls <- 0, MaxTicks <- 0

\* One file, one peer, and a call of the operator.
Operated == INSTANCE DownloadAttempts WITH
    File <- {f1}, Peer <- {p1}, Score <- (f1 :> 1), SoftCap <- 0, PurgeAt <- 1,
    Cooldown <- 1, DeadBlock <- 1, Hold <- 2, Ttl <- 2, Rounds <- 1,
    MaxAttempts <- 2, MaxCalls <- 1, MaxTicks <- 2

\* One file whose two peers fill its soft cap.
Capped == INSTANCE DownloadAttempts WITH
    File <- {f1}, Peer <- {p1, p2}, Score <- (f1 :> 1), SoftCap <- 2, PurgeAt <- 1,
    Cooldown <- 1, DeadBlock <- 1, Hold <- 2, Ttl <- 2, Rounds <- 1,
    MaxAttempts <- 1, MaxCalls <- 0, MaxTicks <- 3

\* One file that the operator deletes and adds again.
Again == INSTANCE DownloadAttempts WITH
    File <- {f1}, Peer <- {p1}, Score <- (f1 :> 1), SoftCap <- 0, PurgeAt <- 0,
    Cooldown <- 1, DeadBlock <- 1, Hold <- 1, Ttl <- 1, Rounds <- 0,
    MaxAttempts <- 3, MaxCalls <- 3, MaxTicks <- 0

ASSUME /\ Endgame!DownloadWindowAssumption /\ BadPart!DownloadWindowAssumption
       /\ Broken!DownloadWindowAssumption
       /\ Swap!AttemptsAssumption /\ Operated!AttemptsAssumption
       /\ Capped!AttemptsAssumption /\ Again!AttemptsAssumption

MCInit ==
    \/ scenario = "endgame" /\ Endgame!Init /\ Operated!Init
    \/ scenario = "bad part" /\ BadPart!Init /\ Operated!Init
    \/ scenario = "broken" /\ Broken!Init /\ Operated!Init
    \/ scenario = "swap" /\ Broken!Init /\ Swap!Init
    \/ scenario = "operated" /\ Broken!Init /\ Operated!Init
    \/ scenario = "capped" /\ Broken!Init /\ Capped!Init

MCNext ==
    \/ scenario = "endgame" /\ Endgame!Next /\ UNCHANGED <<scenario, driver>>
    \/ scenario = "bad part" /\ BadPart!Next /\ UNCHANGED <<scenario, driver>>
    \/ scenario = "broken" /\ Broken!Next /\ UNCHANGED <<scenario, driver>>
    \/ scenario = "swap" /\ Swap!Next /\ UNCHANGED <<scenario, window>>
    \/ scenario = "operated" /\ Operated!Next /\ UNCHANGED <<scenario, window>>
    \/ scenario = "capped" /\ Capped!Next /\ UNCHANGED <<scenario, window>>

MCSpec == MCInit /\ [][MCNext]_<<scenario, state>>

AgainInit == scenario = "again" /\ Broken!Init /\ Again!Init
AgainNext == Again!Next /\ UNCHANGED <<scenario, window>>
AgainSpec == AgainInit /\ [][AgainNext]_<<scenario, state>>

-----------------------------------------------------------------------------
\* A lease goes only when its present owner gives it up or, having delivered
\* nothing, loses it to another session; a recorded block is lost only when its
\* part fails its hash; and a session that waits for its peer has asked it for
\* something.
LeasesKept ==
    [][/\ ForeignLeaseKept /\ WaitingMeansAsked'
       /\ scenario = "endgame" => Endgame!TypeOK' /\ Endgame!TakeoverOfIdleLeaseOnly
       /\ scenario = "bad part" => BadPart!TypeOK' /\ BadPart!BlocksKept
       /\ scenario = "broken" => Broken!TypeOK' /\ Broken!BlocksKept]_<<scenario, window>>

\* A source held for the parts it has not yet is not aged out while it is held, and
\* one that answered file-not-found stays out.
SourcesKept ==
    [][/\ scenario = "swap" => Swap!TypeOK' /\ Swap!DeadStaysOut'
       /\ scenario = "operated" =>
             Operated!TypeOK' /\ Operated!DeadStaysOut' /\ Operated!HeldSurvives
       /\ scenario = "capped" =>
             Capped!TypeOK' /\ Capped!DeadStaysOut' /\ Capped!HeldSurvives]_driver

\* "repeated resume requests must not start duplicate writers for the same part
\* file" (run_queued_ed2k_download_attempt).
OneAttemptPerFile == Again!OneAttemptPerFile
=============================================================================
