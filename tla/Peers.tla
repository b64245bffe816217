------------------------------- MODULE Peers -------------------------------
(***************************************************************************)
(* Discovery and the table of peers of one observing node.                 *)
(*                                                                         *)
(*  - each other node runs the broadcast loop of its DiscoveryService, an  *)
(*    announcement every Interval, late by what the send itself takes;     *)
(*  - the observer's listen thread registers what it receives with         *)
(*    PeerManager.register_peer;                                           *)
(*  - the observer's window calls refresh_peers, and through it            *)
(*    PeerManager.cleanup_expired, from a timer and from a button.         *)
(*                                                                         *)
(* A node draws a new identifier each time it starts, so an identifier     *)
(* lives once. Both calls of PeerManager hold its lock, so each is one     *)
(* step. Time is counted in ticks of one unit, and what the code stores as *)
(* dates is kept as ages by the observer's wall clock, which may be moved. *)
(***************************************************************************)
EXTENDS Integers

CONSTANTS
    Ids,           \* identifiers of the nodes on the network
    Self,          \* the observer's own identifier, which may be one of Ids
    Interval,      \* DISCOVERY_INTERVAL_SECONDS
    Drift,         \* how late an announcement may be
    Delay,         \* how long a packet may take to be registered
    MaxLoss,       \* how many announcements in a row the network may lose
    Expiry,        \* PEER_EXPIRY_SECONDS
    RefreshPeriod, \* period of the window's timer
    Duplicated,    \* whether the network may deliver a packet twice
    ClockSteps,    \* by how much the observer's wall clock may be moved
    MaxJumps       \* bound: how many times it is moved

ASSUME PeersAssumption ==
    /\ Interval \in Nat \ {0} /\ Drift \in Nat /\ Delay \in Nat
    /\ MaxLoss \in Nat /\ Expiry \in Nat /\ RefreshPeriod \in Nat \ {0}
    /\ Duplicated \in BOOLEAN /\ ClockSteps \subseteq Int /\ MaxJumps \in Nat

Period == Interval + Drift

\* What the timing of the code has to satisfy for a peer never to be shown
\* offline while it is alive: enough announcements fit into the timeout.
TimingAssumption == (MaxLoss + 1) * Period + Delay <= Expiry

VARIABLES
    life,         \* "unborn", "alive" or "gone", of each identifier
    sinceSend,    \* time since its last announcement was sent
    losses,       \* how many of the last announcements were lost
    inFlight,     \* ages of the announcements on their way
    shown,        \* "unknown", "online" or "offline" in the observer's table
    seen,         \* its clock now - last_seen, for a known peer
    disturbed,    \* whether the clock was moved since last_seen was written
    silence,      \* time since the node is gone
    sinceRefresh, \* time since the timer's last refresh
    jumps

remote == <<life, sinceSend, losses, silence>>
table == <<shown, seen, disturbed>>
vars == <<remote, inFlight, table, sinceRefresh, jumps>>

\* Ages beyond Horizon make no difference.
Horizon == Delay + Expiry + RefreshPeriod + 1
Capped(t) == IF t > Horizon THEN Horizon ELSE t

Init ==
    /\ life = [i \in Ids |-> "unborn"]
    /\ sinceSend = [i \in Ids |-> 0]
    /\ losses = [i \in Ids |-> 0]
    /\ inFlight = [i \in Ids |-> {}]
    /\ shown = [i \in Ids |-> "unknown"]
    /\ seen = [i \in Ids |-> 0]
    /\ disturbed = [i \in Ids |-> FALSE]
    /\ silence = [i \in Ids |-> 0]
    /\ sinceRefresh = 0
    /\ jumps = 0

(***************************************************************************)
(* The other nodes.                                                        *)
(***************************************************************************)

\* main starts with a fresh node_id; the first announcement is due at once.
Join(i) ==
    /\ life[i] = "unborn"
    /\ life' = [life EXCEPT ![i] = "alive"]
    /\ sinceSend' = [sinceSend EXCEPT ![i] = Interval]
    /\ UNCHANGED <<losses, silence, inFlight, table, sinceRefresh, jumps>>

\* One turn of _broadcast_loop: an announcement, which an error of the socket
\* or the network may lose, and then the wait for the stop event.
AnnouncementDue(i) == life[i] = "alive" /\ sinceSend[i] >= Interval

Announce(i) ==
    /\ AnnouncementDue(i)
    /\ sinceSend' = [sinceSend EXCEPT ![i] = 0]
    /\ \/ /\ losses' = [losses EXCEPT ![i] = 0]
          /\ inFlight' = [inFlight EXCEPT ![i] = @ \cup {0}]
       \/ /\ losses[i] < MaxLoss
          /\ losses' = [losses EXCEPT ![i] = @ + 1]
          /\ UNCHANGED inFlight
    /\ UNCHANGED <<life, silence, table, sinceRefresh, jumps>>

\* The node stops or its machine does. No message says so.
Leave(i) ==
    /\ life[i] = "alive" /\ i # Self
    /\ life' = [life EXCEPT ![i] = "gone"]
    /\ UNCHANGED <<sinceSend, losses, silence, inFlight, table, sinceRefresh, jumps>>

(***************************************************************************)
(* The observer.                                                           *)
(***************************************************************************)

\* Mutant: an entry that exists is refreshed but not set online again.
RegisterKeepsStatus(i) ==
    /\ shown' = [shown EXCEPT ![i] = IF @ = "unknown" THEN "online" ELSE @]
    /\ seen' = [seen EXCEPT ![i] = 0]
    /\ disturbed' = [disturbed EXCEPT ![i] = FALSE]

\* register_peer: a new entry or the old one refreshed, online in both cases.
Register(i) ==
    /\ shown' = [shown EXCEPT ![i] = "online"]
    /\ seen' = [seen EXCEPT ![i] = 0]
    /\ disturbed' = [disturbed EXCEPT ![i] = FALSE]

\* _listen_loop receives an announcement; the node's own is ignored.
Receive(i, age) ==
    /\ age \in inFlight[i]
    /\ \/ inFlight' = [inFlight EXCEPT ![i] = @ \ {age}]
       \/ Duplicated /\ UNCHANGED inFlight
    /\ IF i = Self THEN UNCHANGED table ELSE Register(i)
    /\ UNCHANGED <<remote, sinceRefresh, jumps>>

\* Mutant: a peer expires at the timeout already.
ExpiredAtTimeout(i) == shown[i] # "unknown" /\ seen[i] >= Expiry

\* Mutant: a peer expires an announcement later.
ExpiredLate(i) == shown[i] # "unknown" /\ seen[i] > Expiry + Interval

\* cleanup_expired(remove=False): the comparison is strict, and entries stay.
Expired(i) == shown[i] # "unknown" /\ seen[i] > Expiry

\* Mutant: cleanup_expired is called with remove=True.
CleanupRemoves ==
    /\ shown' = [i \in Ids |-> IF Expired(i) THEN "unknown" ELSE shown[i]]
    /\ UNCHANGED <<seen, disturbed>>

CleanupExpired ==
    /\ shown' = [i \in Ids |-> IF Expired(i) THEN "offline" ELSE shown[i]]
    /\ UNCHANGED <<seen, disturbed>>

\* Mutant: the timer lists the peers without the cleanup.
TimerListsOnly ==
    /\ sinceRefresh = RefreshPeriod
    /\ sinceRefresh' = 0
    /\ UNCHANGED <<remote, inFlight, table, jumps>>

\* The timer of the window, a QTimer of RefreshPeriod.
TimerRefresh ==
    /\ sinceRefresh = RefreshPeriod
    /\ sinceRefresh' = 0
    /\ CleanupExpired
    /\ UNCHANGED <<remote, inFlight, jumps>>

\* The refresh button, the menu, or start_services.
ButtonRefresh ==
    /\ CleanupExpired
    /\ UNCHANGED <<remote, inFlight, sinceRefresh, jumps>>

(***************************************************************************)
(* Time.                                                                   *)
(***************************************************************************)

\* Time stops for nobody, but nobody is later than the bounds.
Deadlines ==
    /\ \A i \in Ids : life[i] = "alive" => sinceSend[i] < Period
    /\ \A i \in Ids : \A age \in inFlight[i] : age < Delay
    /\ sinceRefresh < RefreshPeriod

Known(i) == shown[i] # "unknown"

Tick ==
    /\ Deadlines
    /\ sinceSend' = [i \in Ids |-> IF life[i] = "alive" THEN sinceSend[i] + 1 ELSE sinceSend[i]]
    /\ inFlight' = [i \in Ids |-> {age + 1 : age \in inFlight[i]}]
    /\ seen' = [i \in Ids |-> IF Known(i) THEN Capped(seen[i] + 1) ELSE seen[i]]
    /\ silence' = [i \in Ids |-> IF life[i] = "gone" THEN Capped(silence[i] + 1) ELSE silence[i]]
    /\ sinceRefresh' = sinceRefresh + 1
    /\ UNCHANGED <<life, losses, shown, disturbed, jumps>>

\* last_seen is a date: a clock set forward or back, or a machine that was
\* suspended, moves every age.
MoveClock ==
    /\ jumps < MaxJumps
    /\ jumps' = jumps + 1
    /\ \E step \in ClockSteps :
         seen' = [i \in Ids |-> IF Known(i) THEN Capped(seen[i] + step) ELSE seen[i]]
    /\ disturbed' = [i \in Ids |-> Known(i)]
    /\ UNCHANGED <<remote, inFlight, shown, sinceRefresh>>

Next ==
    \/ \E i \in Ids : Join(i) \/ Announce(i) \/ Leave(i)
    \/ \E i \in Ids : \E age \in inFlight[i] : Receive(i, age)
    \/ TimerRefresh \/ ButtonRefresh
    \/ Tick \/ MoveClock

Spec == Init /\ [][Next]_vars

(***************************************************************************)
(* Time passes, the loops of the threads turn and the timer fires. Nobody  *)
(* has to join, to leave, to press the button or to move the clock. A copy *)
(* of a packet is not delivered for ever.                                  *)
(***************************************************************************)
Fairness ==
    /\ WF_vars(Tick)
    /\ WF_vars(TimerRefresh)
    /\ \A i \in Ids : WF_vars(Announce(i))
    /\ \A i \in Ids : WF_vars(\E age \in inFlight[i] :
                                 Receive(i, age) /\ inFlight'[i] = inFlight[i] \ {age})

FairSpec == Spec /\ Fairness

(***************************************************************************)
(* Properties.                                                             *)
(***************************************************************************)

TypeOK ==
    /\ life \in [Ids -> {"unborn", "alive", "gone"}]
    /\ sinceSend \in [Ids -> 0..Period]
    /\ losses \in [Ids -> 0..MaxLoss]
    /\ inFlight \in [Ids -> SUBSET (0..Delay)]
    /\ shown \in [Ids -> {"unknown", "online", "offline"}]
    /\ seen \in [Ids -> Int]
    /\ disturbed \in [Ids -> BOOLEAN]
    /\ silence \in [Ids -> 0..Horizon]
    /\ sinceRefresh \in 0..RefreshPeriod
    /\ jumps \in 0..MaxJumps

\* A peer that is alive is not shown offline, whatever the order of the
\* announcements, their losses and the refreshes, unless the clock was moved:
\* PEER_EXPIRY_SECONDS and DISCOVERY_INTERVAL_SECONDS fit together.
AlivePeerNotOffline ==
    TimingAssumption =>
        \A i \in Ids : life[i] = "alive" /\ shown[i] = "offline" => disturbed[i]

\* A peer whose machine is gone is not offered to the user as online for longer
\* than the last packet, the timeout and a period of the timer take together.
GonePeerNotOnline ==
    \A i \in Ids : silence[i] > Delay + Expiry + RefreshPeriod /\ shown[i] = "online"
                      => disturbed[i]

\* A peer that is alive for long enough is shown online and stays so, even
\* after the clock was moved.
AlivePeerStaysOnline ==
    TimingAssumption =>
        \A i \in Ids \ {Self} : <>[](life[i] = "alive") => <>[](shown[i] = "online")

\* A peer that is gone ends up offline for good, if it was ever known.
GonePeerStaysOffline ==
    \A i \in Ids : life[i] = "gone" ~> [](shown[i] # "online")

\* A peer that is alive was heard recently: since then at most losses[i]
\* announcements were lost, or the next one is on its way.
HeardInTime(i) ==
    \/ seen[i] <= losses[i] * Period + sinceSend[i]
    \/ \E age \in inFlight[i] : seen[i] <= age + (MaxLoss + 1) * Period

\* The inductive invariant: what is known of every identifier about the ages of
\* its packets and of its entry in the table, and what the last refresh left.
PeerTimes(i) ==
    /\ i = Self => shown[i] = "unknown"
    /\ life[i] = "unborn" => shown[i] = "unknown" /\ inFlight[i] = {}
    /\ life[i] # "gone" => silence[i] = 0
    /\ life[i] = "gone" => \A age \in inFlight[i] : silence[i] <= age
    /\ Known(i) /\ ~disturbed[i] =>
          /\ seen[i] >= 0
          /\ life[i] = "alive" => HeardInTime(i)
          /\ life[i] = "gone" => silence[i] <= seen[i] + Delay
          /\ shown[i] = "online" => seen[i] <= Expiry + sinceRefresh

\* The bounds on the ages of packets and entries that the two promises about
\* online and offline peers rest on, whatever announcements are lost or late.
TimingInvariant == \A i \in Ids : PeerTimes(i)

Contract == INSTANCE PeerContract

\* Discovery and the peer table behave as the failure detector of PeerContract.
ContractSpec == Contract!Spec
=============================================================================
