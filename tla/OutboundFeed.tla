----------------------------- MODULE OutboundFeed -----------------------------
(***************************************************************************)
(* What the processors of the sidecar promise to the EventStreamServer:    *)
(* the messages it is asked to broadcast in one life of the process.       *)
(* EventPipeline implements it, and it is what Producer of EventStream     *)
(* assumes.                                                                *)
(***************************************************************************)
EXTENDS Naturals, Sequences

VARIABLES
    feed,     \* messages broadcast so far in this life of the process
    over      \* the process has exited

AnnouncedVersions(s) == {s[i].ver : i \in {j \in 1 .. Len(s) : s[j].kind = "ApiVersion"}}

FeedInit == feed = <<>> /\ over = FALSE

\* Every announced version is newer than all before it.
Announce(m) ==
    /\ m.kind = "ApiVersion"
    /\ \A v \in AnnouncedVersions(feed) : m.ver > v
    /\ feed' = Append(feed, m)

\* An event comes after a version that is not older than its own.
Event(m) ==
    /\ m.kind \notin {"ApiVersion", "SidecarShutdown"}
    /\ \E v \in AnnouncedVersions(feed) : v >= m.ver
    /\ feed' = Append(feed, m)

\* The sidecar announces its own end once.
AnnounceEnd(m) ==
    /\ m.kind = "SidecarShutdown"
    /\ \A i \in 1 .. Len(feed) : feed[i].kind # "SidecarShutdown"
    /\ feed' = Append(feed, m)

Restart == feed' = <<>> /\ over' = FALSE

FeedNext ==
    \/ /\ ~over /\ over' = FALSE
       /\ Len(feed') = Len(feed) + 1
       /\ LET m == feed'[Len(feed')] IN Announce(m) \/ Event(m) \/ AnnounceEnd(m)
    \/ ~over /\ over' = TRUE /\ UNCHANGED feed
    \/ Restart

FeedSpec == FeedInit /\ [][FeedNext]_<<feed, over>>
=============================================================================
