---------------------------- MODULE PeersProofs ----------------------------
(***************************************************************************)
(* Proofs about discovery and the table of peers, for any set of nodes and *)
(* any intervals, losses, delays and movements of the clock.               *)
(***************************************************************************)
EXTENDS Peers, TLAPS

-----------------------------------------------------------------------------
(* Arithmetic.                                                             *)

\* The constants are numbers.
LEMMA Numbers == /\ Period \in Nat \ {0} /\ Horizon \in Nat \ {0}
                 /\ Delay \in Nat /\ Expiry \in Nat /\ RefreshPeriod \in Nat \ {0}
                 /\ MaxLoss \in Nat /\ Interval \in Nat \ {0} /\ MaxJumps \in Nat
                 /\ Interval <= Period
  BY PeersAssumption DEF Period, Horizon

\* The cap stays below the horizon and never makes an age greater.
LEMMA CappedAge == \A t \in Int : /\ Capped(t) \in Int /\ Capped(t) <= t /\ Capped(t) <= Horizon
                                  /\ t >= 0 => Capped(t) \in 0..Horizon
                                  /\ t <= Horizon => Capped(t) = t
                                  /\ Capped(t) = t \/ Capped(t) = Horizon
  BY Numbers DEF Capped

\* One loss more is one period more, and losses within the bound take at most
\* as long as the bound.
LEMMA LossPeriods == \A l \in 0..MaxLoss :
    /\ l * Period \in Nat /\ (MaxLoss + 1) * Period \in Nat
    /\ (l + 1) * Period = l * Period + Period
    /\ l * Period + Period <= (MaxLoss + 1) * Period
<1>. SUFFICES ASSUME NEW l \in 0..MaxLoss
              PROVE  /\ l * Period \in Nat /\ (MaxLoss + 1) * Period \in Nat
                     /\ (l + 1) * Period = l * Period + Period
                     /\ l * Period + Period <= (MaxLoss + 1) * Period
  OBVIOUS
<1>1. \A m, n, q \in Nat : /\ m * q \in Nat
                           /\ (m + 1) * q = m * q + q
                           /\ (m + n) * q = m * q + n * q
  OBVIOUS
<1>2. PICK d \in Nat : MaxLoss = l + d
  <2>1. MaxLoss - l \in Nat /\ MaxLoss = l + (MaxLoss - l)
    BY Numbers
  <2>. QED  BY <2>1
<1>3. l \in Nat /\ MaxLoss \in Nat /\ Period \in Nat /\ d \in Nat /\ MaxLoss + 1 \in Nat
  BY <1>2, Numbers
<1>4. MaxLoss * Period = l * Period + d * Period
  BY <1>1, <1>2, <1>3
<1>5. (MaxLoss + 1) * Period = MaxLoss * Period + Period
  BY <1>1, <1>3
<1>6. l * Period \in Nat /\ d * Period \in Nat /\ (MaxLoss + 1) * Period \in Nat
  BY <1>1, <1>3
<1>7. (l + 1) * Period = l * Period + Period
  BY <1>1, <1>3
<1>. QED  BY <1>3, <1>4, <1>5, <1>6, <1>7

-----------------------------------------------------------------------------
(* Types.                                                                  *)

\* The empty table and network are well typed.
LEMMA InitTyped == Init => TypeOK
  BY Numbers DEF Init, TypeOK

\* Receiving an announcement keeps the types.
LEMMA ReceiveTyped == \A i \in Ids : \A age \in inFlight[i] :
                        TypeOK /\ Receive(i, age) => TypeOK'
<1>. SUFFICES ASSUME NEW i \in Ids, NEW age \in inFlight[i], TypeOK, Receive(i, age)
              PROVE  TypeOK'
  OBVIOUS
<1>1. inFlight' \in [Ids -> SUBSET (0..Delay)]
  BY DEF Receive, TypeOK
<1>2. shown' \in [Ids -> {"unknown", "online", "offline"}] /\ seen' \in [Ids -> Int]
  BY DEF Receive, Register, table, TypeOK
<1>3. disturbed' \in [Ids -> BOOLEAN]
  BY Zenon DEF Receive, Register, table, TypeOK
<1>. QED  BY <1>1, <1>2, <1>3 DEF Receive, remote, TypeOK

\* So does a refresh of the window.
LEMMA CleanupTyped == TypeOK /\ CleanupExpired =>
                        /\ shown' \in [Ids -> {"unknown", "online", "offline"}]
                        /\ seen' \in [Ids -> Int] /\ disturbed' \in [Ids -> BOOLEAN]
  BY DEF CleanupExpired, TypeOK

\* So does the passing of time, within the deadlines.
LEMMA TickTyped == TypeOK /\ Tick => TypeOK'
<1>. SUFFICES ASSUME TypeOK, Tick PROVE TypeOK'
  OBVIOUS
<1>1. sinceSend' \in [Ids -> 0..Period]
  BY Numbers DEF Tick, Deadlines, TypeOK
<1>2. inFlight' \in [Ids -> SUBSET (0..Delay)]
  <2>. SUFFICES ASSUME NEW i \in Ids, NEW age \in inFlight[i] PROVE age + 1 \in 0..Delay
    BY DEF Tick
  <2>1. age \in 0..Delay /\ age < Delay
    BY DEF Tick, Deadlines, TypeOK
  <2>. QED  BY <2>1, Numbers
<1>3. seen' \in [Ids -> Int]
  <2>1. \A i \in Ids : seen[i] + 1 \in Int
    BY DEF TypeOK
  <2>. QED  BY <2>1, CappedAge DEF Tick, TypeOK
<1>4. silence' \in [Ids -> 0..Horizon]
  <2>1. \A i \in Ids : silence[i] + 1 \in Int /\ silence[i] + 1 >= 0
    BY Numbers DEF TypeOK
  <2>. QED  BY <2>1, CappedAge DEF Tick, TypeOK
<1>5. sinceRefresh' \in 0..RefreshPeriod
  BY Numbers DEF Tick, Deadlines, TypeOK
<1>. QED  BY <1>1, <1>2, <1>3, <1>4, <1>5 DEF Tick, TypeOK

\* So does moving the clock.
LEMMA MoveClockTyped == TypeOK /\ MoveClock => TypeOK'
<1>. SUFFICES ASSUME TypeOK, MoveClock PROVE TypeOK'
  OBVIOUS
<1>1. seen' \in [Ids -> Int]
  <2>1. \A i \in Ids : \A step \in ClockSteps : seen[i] + step \in Int
    BY PeersAssumption DEF TypeOK
  <2>. QED  BY <2>1, CappedAge DEF MoveClock, TypeOK
<1>2. disturbed' \in [Ids -> BOOLEAN]
  BY DEF MoveClock, Known
<1>3. jumps' \in 0..MaxJumps
  BY Numbers DEF MoveClock, TypeOK
<1>. QED  BY <1>1, <1>2, <1>3 DEF MoveClock, remote, TypeOK

\* Every step keeps the types.
LEMMA NextTyped == TypeOK /\ [Next]_vars => TypeOK'
<1>. SUFFICES ASSUME TypeOK, [Next]_vars PROVE TypeOK'
  OBVIOUS
<1>1. ASSUME NEW i \in Ids, Join(i) PROVE TypeOK'
  BY <1>1, Numbers DEF Join, table, TypeOK
<1>2. ASSUME NEW i \in Ids, Announce(i) PROVE TypeOK'
  <2>1. losses' \in [Ids -> 0..MaxLoss]
    BY <1>2, Numbers DEF Announce, TypeOK
  <2>2. inFlight' \in [Ids -> SUBSET (0..Delay)]
    BY <1>2, Numbers DEF Announce, TypeOK
  <2>. QED  BY <1>2, <2>1, <2>2, Numbers DEF Announce, table, TypeOK
<1>3. ASSUME NEW i \in Ids, Leave(i) PROVE TypeOK'
  BY <1>3 DEF Leave, table, TypeOK
<1>4. ASSUME NEW i \in Ids, NEW age \in inFlight[i], Receive(i, age) PROVE TypeOK'
  BY <1>4, ReceiveTyped
<1>5. CASE TimerRefresh
  BY <1>5, CleanupTyped, Numbers DEF TimerRefresh, remote, TypeOK
<1>6. CASE ButtonRefresh
  BY <1>6, CleanupTyped DEF ButtonRefresh, remote, TypeOK
<1>7. CASE Tick
  BY <1>7, TickTyped
<1>8. CASE MoveClock
  BY <1>8, MoveClockTyped
<1>9. CASE UNCHANGED vars
  BY <1>9 DEF vars, remote, table, TypeOK
<1>. QED  BY <1>1, <1>2, <1>3, <1>4, <1>5, <1>6, <1>7, <1>8, <1>9 DEF Next

\* Type correctness.
THEOREM TypeCorrect == Spec => []TypeOK
<1>. QED  BY InitTyped, NextTyped, PTL DEF Spec

-----------------------------------------------------------------------------
(* Ages.                                                                   *)

\* Nothing has an age at first.
LEMMA InitInTime == Init => TimingInvariant
  BY DEF Init, TimingInvariant, PeerTimes, Known

\* An identifier whose part of the state a step leaves alone keeps its bounds,
\* if the timer's last refresh did not move away.
LEMMA SameTimes ==
  ASSUME TypeOK, NEW i \in Ids, PeerTimes(i),
         life'[i] = life[i], sinceSend'[i] = sinceSend[i], losses'[i] = losses[i],
         inFlight'[i] = inFlight[i], silence'[i] = silence[i], shown'[i] = shown[i],
         seen'[i] = seen[i], disturbed'[i] = disturbed[i], sinceRefresh' = sinceRefresh
  PROVE  PeerTimes(i)'
  BY DEF PeerTimes, HeardInTime, Known

\* A node that joins is not known yet.
LEMMA JoinInTime == \A i \in Ids :
                      TypeOK /\ TimingInvariant /\ Join(i) => TimingInvariant'
<1>. SUFFICES ASSUME NEW i \in Ids, TypeOK, TimingInvariant, Join(i),
                     NEW j \in Ids
              PROVE  PeerTimes(j)'
  BY DEF TimingInvariant
<1>0. PeerTimes(j)
  BY DEF TimingInvariant
<1>1. CASE j = i
  BY <1>0, <1>1 DEF Join, table, TypeOK, PeerTimes, HeardInTime, Known
<1>2. CASE j # i
  BY <1>0, <1>2, SameTimes DEF Join, table, TypeOK
<1>. QED  BY <1>1, <1>2

\* An announcement sent brings the bound of the peer forward to the packet, and
\* one lost adds a period to it.
LEMMA AnnounceInTime == \A i \in Ids :
                          TypeOK /\ TimingInvariant /\ Announce(i) => TimingInvariant'
<1>. SUFFICES ASSUME NEW i \in Ids, TypeOK, TimingInvariant, Announce(i),
                     NEW j \in Ids
              PROVE  PeerTimes(j)'
  BY DEF TimingInvariant
<1>0. PeerTimes(j)
  BY DEF TimingInvariant
<1>1. CASE j = i
  <2>1. /\ life[i] = "alive" /\ UNCHANGED <<life, silence, table, sinceRefresh, jumps>>
        /\ losses[i] \in 0..MaxLoss /\ sinceSend[i] \in 0..Period /\ sinceSend'[i] = 0
        /\ seen[i] \in Int
    BY DEF Announce, AnnouncementDue, TypeOK
  <2>2. losses[i] * Period + sinceSend[i] <= (MaxLoss + 1) * Period
    BY <2>1, LossPeriods, Numbers
  <2>3. HeardInTime(i) => HeardInTime(i)'
    <3>1. CASE losses'[i] = 0 /\ inFlight'[i] = inFlight[i] \cup {0}
      <4>. SUFFICES ASSUME HeardInTime(i)
                    PROVE  \E age \in inFlight'[i] : seen'[i] <= age + (MaxLoss + 1) * Period
        BY DEF HeardInTime
      <4>1. CASE seen[i] <= losses[i] * Period + sinceSend[i]
        <5>1. losses[i] * Period \in Nat /\ (MaxLoss + 1) * Period \in Nat
          BY <2>1, LossPeriods
        <5>2. seen'[i] <= 0 + (MaxLoss + 1) * Period
          BY <4>1, <5>1, <2>1, <2>2, Numbers DEF table
        <5>3. 0 \in inFlight'[i]
          BY <3>1
        <5>. QED  BY <5>2, <5>3
      <4>2. CASE \E age \in inFlight[i] : seen[i] <= age + (MaxLoss + 1) * Period
        BY <4>2, <2>1, <3>1 DEF table
      <4>. QED  BY <4>1, <4>2 DEF HeardInTime
    <3>2. CASE losses[i] < MaxLoss /\ losses'[i] = losses[i] + 1 /\ UNCHANGED inFlight
      <4>1. (losses[i] + 1) * Period = losses[i] * Period + Period /\ losses[i] * Period \in Nat
        BY <2>1, LossPeriods
      <4>2. losses'[i] * Period + sinceSend'[i] = losses[i] * Period + Period
        BY <4>1, <3>2, <2>1, Numbers
      <4>. QED  BY <4>1, <4>2, <3>2, <2>1, Numbers DEF HeardInTime, table
    <3>. QED  BY <3>1, <3>2 DEF Announce, TypeOK
  <2>4. ASSUME NEW age \in inFlight'[i] PROVE age \in inFlight[i] \/ age = 0
    BY <2>4 DEF Announce, TypeOK
  <2>. QED  BY <1>0, <1>1, <2>1, <2>3, <2>4 DEF PeerTimes, Known, table
<1>2. CASE j # i
  BY <1>0, <1>2, SameTimes DEF Announce, table, TypeOK
<1>. QED  BY <1>1, <1>2

\* When a node leaves, the time since then starts at nought.
LEMMA LeaveInTime == \A i \in Ids :
                       TypeOK /\ TimingInvariant /\ Leave(i) => TimingInvariant'
<1>. SUFFICES ASSUME NEW i \in Ids, TypeOK, TimingInvariant, Leave(i),
                     NEW j \in Ids
              PROVE  PeerTimes(j)'
  BY DEF TimingInvariant
<1>0. PeerTimes(j)
  BY DEF TimingInvariant
<1>1. CASE j = i
  <2>1. /\ life[i] = "alive" /\ life'[i] = "gone" /\ silence[i] = 0
        /\ UNCHANGED <<sinceSend, losses, silence, inFlight, table, sinceRefresh>>
    BY <1>0, <1>1 DEF Leave, TypeOK, PeerTimes
  <2>2. \A age \in inFlight[i] : age \in Nat
    BY DEF TypeOK
  <2>3. seen[i] \in Int
    BY DEF TypeOK
  <2>. QED  BY <1>0, <1>1, <2>1, <2>2, <2>3, Numbers DEF PeerTimes, Known, table
<1>2. CASE j # i
  BY <1>0, <1>2, SameTimes DEF Leave, table, TypeOK
<1>. QED  BY <1>1, <1>2

\* A registration starts the entry's age again.
LEMMA ReceiveInTime == \A i \in Ids : \A age \in inFlight[i] :
                         TypeOK /\ TimingInvariant /\ Receive(i, age) => TimingInvariant'
<1>. SUFFICES ASSUME NEW i \in Ids, NEW age \in inFlight[i], TypeOK, TimingInvariant,
                     Receive(i, age), NEW j \in Ids
              PROVE  PeerTimes(j)'
  BY DEF TimingInvariant
<1>0. PeerTimes(j)
  BY DEF TimingInvariant
<1>1. CASE j = i
  <2>1. /\ UNCHANGED <<remote, sinceRefresh>> /\ inFlight'[i] \subseteq inFlight[i]
        /\ life[i] # "unborn"
    BY <1>0, <1>1 DEF Receive, TypeOK, PeerTimes
  <2>2. CASE i = Self
    BY <1>0, <1>1, <2>1, <2>2 DEF Receive, PeerTimes, Known, remote, table
  <2>3. CASE i # Self
    <3>1. shown'[i] = "online" /\ seen'[i] = 0
      BY <2>3 DEF Receive, Register, TypeOK
    <3>2. losses[i] \in 0..MaxLoss /\ sinceSend[i] \in 0..Period /\ silence[i] \in 0..Horizon
      BY DEF TypeOK
    <3>3. HeardInTime(i)'
      <4>1. losses[i] * Period \in Nat
        BY <3>2, LossPeriods
      <4>. QED  BY <3>1, <3>2, <4>1, <2>1, Numbers DEF HeardInTime, remote
    <3>4. life[i] = "gone" => silence[i] <= Delay
      <4>1. age <= Delay /\ age \in Nat
        BY Numbers DEF TypeOK
      <4>. QED  BY <1>0, <1>1, <4>1, <3>2, Numbers DEF PeerTimes
    <3>5. sinceRefresh \in Nat
      BY Numbers DEF TypeOK
    <3>. QED  BY <1>0, <1>1, <2>1, <2>3, <3>1, <3>2, <3>3, <3>4, <3>5, Numbers DEF PeerTimes, Known, remote
  <2>. QED  BY <2>2, <2>3
<1>2. CASE j # i
  <2>1. inFlight'[j] = inFlight[j]
    BY <1>2 DEF Receive, TypeOK
  <2>2. shown'[j] = shown[j] /\ seen'[j] = seen[j] /\ disturbed'[j] = disturbed[j]
    BY <1>2, Zenon DEF Receive, Register, table, TypeOK
  <2>. QED  BY <1>0, <2>1, <2>2, SameTimes DEF Receive, remote
<1>. QED  BY <1>1, <1>2

\* A refresh moves no age; those it leaves online are within the timeout.
LEMMA RefreshInTime ==
    TypeOK /\ TimingInvariant /\ (TimerRefresh \/ ButtonRefresh) => TimingInvariant'
<1>. SUFFICES ASSUME TypeOK, TimingInvariant, TimerRefresh \/ ButtonRefresh, NEW j \in Ids
              PROVE  PeerTimes(j)'
  BY DEF TimingInvariant
<1>0. PeerTimes(j)
  BY DEF TimingInvariant
<1>1. /\ CleanupExpired /\ UNCHANGED <<remote, inFlight>>
      /\ sinceRefresh' = sinceRefresh \/ sinceRefresh' = 0
  BY DEF TimerRefresh, ButtonRefresh
<1>2. /\ shown'[j] = IF Expired(j) THEN "offline" ELSE shown[j]
      /\ seen'[j] = seen[j] /\ seen[j] \in Int /\ UNCHANGED disturbed
  BY <1>1 DEF CleanupExpired, TypeOK
<1>3. Known(j)' <=> Known(j)
  BY <1>2 DEF Known, Expired
<1>4. shown'[j] = "online" => shown[j] = "online" /\ seen[j] <= Expiry
  BY <1>2, Numbers DEF Expired
<1>5. HeardInTime(j)' <=> HeardInTime(j)
  BY <1>1, <1>2 DEF HeardInTime, remote
<1>6. sinceRefresh' \in Nat
  BY <1>1, Numbers DEF TypeOK
<1>7. shown'[j] = "online" => seen'[j] <= Expiry + sinceRefresh'
  BY <1>2, <1>4, <1>6, Numbers
<1>8. shown[j] = "unknown" => shown'[j] = "unknown"
  BY <1>2 DEF Expired
<1>. QED  BY <1>0, <1>1, <1>2, <1>3, <1>5, <1>7, <1>8 DEF PeerTimes, remote

\* Time passes for everybody alike.
LEMMA TickInTime == TypeOK /\ TimingInvariant /\ Tick => TimingInvariant'
<1>. SUFFICES ASSUME TypeOK, TimingInvariant, Tick, NEW j \in Ids
              PROVE  PeerTimes(j)'
  BY DEF TimingInvariant
<1>0. PeerTimes(j)
  BY DEF TimingInvariant
<1>1. /\ life' = life /\ losses' = losses /\ shown' = shown /\ disturbed' = disturbed
      /\ sinceRefresh' = sinceRefresh + 1 /\ sinceRefresh \in Nat
      /\ life[j] = "alive" => sinceSend'[j] = sinceSend[j] + 1
      /\ inFlight'[j] = {age + 1 : age \in inFlight[j]}
      /\ Known(j) => seen'[j] = Capped(seen[j] + 1)
      /\ life[j] # "gone" => silence'[j] = silence[j]
      /\ life[j] = "gone" => silence'[j] = Capped(silence[j] + 1)
  BY Numbers DEF Tick, TypeOK
<1>2. seen[j] \in Int /\ silence[j] \in 0..Horizon /\ inFlight[j] \subseteq 0..Delay
      /\ losses[j] \in 0..MaxLoss /\ sinceSend[j] \in 0..Period
  BY DEF TypeOK
<1>3. /\ Capped(seen[j] + 1) <= seen[j] + 1 /\ Capped(silence[j] + 1) <= silence[j] + 1
      /\ Capped(seen[j] + 1) \in Int /\ Capped(silence[j] + 1) \in Int
      /\ Capped(silence[j] + 1) <= Horizon
      /\ seen[j] >= 0 => Capped(seen[j] + 1) >= 0
      /\ Capped(seen[j] + 1) = seen[j] + 1 \/ Capped(seen[j] + 1) = Horizon
  BY <1>2, CappedAge, Numbers
<1>4. life[j] = "unborn" => inFlight'[j] = {}
  BY <1>0, <1>1 DEF PeerTimes
<1>5. life[j] = "gone" => \A age \in inFlight'[j] : silence'[j] <= age
  <2>. SUFFICES ASSUME life[j] = "gone", NEW age \in inFlight[j] PROVE silence'[j] <= age + 1
    BY <1>1
  <2>. QED  BY <1>0, <1>1, <1>2, <1>3, Numbers DEF PeerTimes
<1>6. Known(j) /\ life[j] = "alive" /\ HeardInTime(j) => HeardInTime(j)'
  <2>. SUFFICES ASSUME Known(j), life[j] = "alive", HeardInTime(j) PROVE HeardInTime(j)'
    OBVIOUS
  <2>0. losses[j] * Period \in Nat /\ (MaxLoss + 1) * Period \in Nat
    BY <1>2, LossPeriods
  <2>1. CASE seen[j] <= losses[j] * Period + sinceSend[j]
    <3>1. seen'[j] <= losses'[j] * Period + sinceSend'[j]
      BY <2>0, <2>1, <1>1, <1>2, <1>3, Numbers
    <3>. QED  BY <3>1 DEF HeardInTime
  <2>2. CASE \E age \in inFlight[j] : seen[j] <= age + (MaxLoss + 1) * Period
    <3>1. PICK age \in inFlight[j] : seen[j] <= age + (MaxLoss + 1) * Period
      BY <2>2
    <3>2. age + 1 \in inFlight'[j] /\ age \in Int
      BY <1>1, <1>2
    <3>3. seen'[j] <= (age + 1) + (MaxLoss + 1) * Period
      BY <2>0, <3>1, <3>2, <1>1, <1>2, <1>3
    <3>. QED  BY <3>2, <3>3 DEF HeardInTime
  <2>. QED  BY <2>1, <2>2 DEF HeardInTime
<1>7. Known(j) /\ life[j] = "gone" /\ silence[j] <= seen[j] + Delay
        => silence'[j] <= seen'[j] + Delay
  BY <1>1, <1>2, <1>3, Numbers
<1>8. Known(j) /\ seen[j] <= Expiry + sinceRefresh => seen'[j] <= Expiry + sinceRefresh'
  BY <1>1, <1>2, <1>3, Numbers
<1>9. Known(j)' <=> Known(j)
  BY <1>1 DEF Known
<1>. QED  BY <1>0, <1>1, <1>3, <1>4, <1>5, <1>6, <1>7, <1>8, <1>9 DEF PeerTimes

\* Moving the clock says nothing of the packets, and the bounds on the entries
\* are given up until their next registration.
LEMMA MoveClockInTime == TypeOK /\ TimingInvariant /\ MoveClock => TimingInvariant'
<1>. SUFFICES ASSUME TypeOK, TimingInvariant, MoveClock, NEW j \in Ids
              PROVE  PeerTimes(j)'
  BY DEF TimingInvariant
<1>0. PeerTimes(j)
  BY DEF TimingInvariant
<1>1. UNCHANGED <<remote, inFlight, shown>> /\ disturbed'[j] = Known(j)
  BY DEF MoveClock
<1>. QED  BY <1>0, <1>1 DEF PeerTimes, Known, remote

\* The invariant is inductive.
LEMMA NextInTime == TypeOK /\ TimingInvariant /\ [Next]_vars => TimingInvariant'
<1>. SUFFICES ASSUME TypeOK, TimingInvariant, [Next]_vars PROVE TimingInvariant'
  OBVIOUS
<1>1. ASSUME NEW i \in Ids, Join(i) PROVE TimingInvariant'
  BY <1>1, JoinInTime
<1>2. ASSUME NEW i \in Ids, Announce(i) PROVE TimingInvariant'
  BY <1>2, AnnounceInTime
<1>3. ASSUME NEW i \in Ids, Leave(i) PROVE TimingInvariant'
  BY <1>3, LeaveInTime
<1>4. ASSUME NEW i \in Ids, NEW age \in inFlight[i], Receive(i, age) PROVE TimingInvariant'
  BY <1>4, ReceiveInTime
<1>5. CASE TimerRefresh \/ ButtonRefresh
  BY <1>5, RefreshInTime
<1>6. CASE Tick
  BY <1>6, TickInTime
<1>7. CASE MoveClock
  BY <1>7, MoveClockInTime
<1>8. CASE UNCHANGED vars
  <2>. SUFFICES ASSUME NEW j \in Ids PROVE PeerTimes(j)'
    BY DEF TimingInvariant
  <2>1. PeerTimes(j)
    BY DEF TimingInvariant
  <2>. QED  BY <2>1, <1>8, SameTimes DEF vars, remote, table
<1>. QED  BY <1>1, <1>2, <1>3, <1>4, <1>5, <1>6, <1>7, <1>8 DEF Next

\* Every entry keeps the bounds the promises about the table rest on.
THEOREM InTime == Spec => []TimingInvariant
<1>1. Init => TypeOK /\ TimingInvariant
  BY InitTyped, InitInTime
<1>2. TypeOK /\ TimingInvariant /\ [Next]_vars => (TypeOK /\ TimingInvariant)'
  BY NextTyped, NextInTime
<1>. QED  BY <1>1, <1>2, PTL DEF Spec

-----------------------------------------------------------------------------
(* What the user sees.                                                     *)

\* A peer that is gone leaves the online peers within the bound.
THEOREM GonePeersLeave == Spec => []GonePeerNotOnline
<1>1. TypeOK /\ TimingInvariant => GonePeerNotOnline
  <2>. SUFFICES ASSUME TypeOK, TimingInvariant, NEW i \in Ids,
                       silence[i] > Delay + Expiry + RefreshPeriod, shown[i] = "online",
                       ~disturbed[i]
                PROVE  FALSE
    BY DEF GonePeerNotOnline, TypeOK
  <2>1. PeerTimes(i)
    BY DEF TimingInvariant
  <2>2. silence[i] \in Nat /\ seen[i] \in Int /\ sinceRefresh \in Nat /\ sinceRefresh <= RefreshPeriod
    BY Numbers DEF TypeOK
  <2>3. life[i] = "gone"
    BY <2>1, <2>2, Numbers DEF PeerTimes
  <2>4. silence[i] <= seen[i] + Delay /\ seen[i] <= Expiry + sinceRefresh
    BY <2>1, <2>3 DEF PeerTimes, Known
  <2>. QED  BY <2>2, <2>4, Numbers
<1>. QED  BY <1>1, TypeCorrect, InTime, PTL

\* Under the timing assumption an entry of a live peer does not expire.
LEMMA AliveNotExpired ==
  ASSUME TimingAssumption, TypeOK, TimingInvariant, NEW i \in Ids,
         life[i] = "alive", ~disturbed[i]
  PROVE  ~Expired(i)
<1>. SUFFICES ASSUME Known(i) PROVE ~(seen[i] > Expiry)
  BY DEF Expired, Known
<1>1. HeardInTime(i)
  BY DEF TimingInvariant, PeerTimes
<1>2. /\ losses[i] \in 0..MaxLoss /\ sinceSend[i] \in 0..Period /\ seen[i] \in Int
      /\ \A age \in inFlight[i] : age \in 0..Delay
  BY DEF TypeOK
<1>3. losses[i] * Period + sinceSend[i] <= (MaxLoss + 1) * Period
      /\ losses[i] * Period \in Nat /\ (MaxLoss + 1) * Period \in Nat
  BY <1>2, LossPeriods, Numbers
<1>4. (MaxLoss + 1) * Period + Delay <= Expiry
  BY DEF TimingAssumption
<1>5. CASE seen[i] <= losses[i] * Period + sinceSend[i]
  BY <1>5, <1>2, <1>3, <1>4, Numbers
<1>6. CASE \E age \in inFlight[i] : seen[i] <= age + (MaxLoss + 1) * Period
  BY <1>6, <1>2, <1>3, <1>4, Numbers
<1>. QED  BY <1>1, <1>5, <1>6 DEF HeardInTime

\* A refresh hides no live peer whose clock is right.
LEMMA RefreshHidesGone ==
  ASSUME TimingAssumption, TypeOK, TimingInvariant, CleanupExpired,
         NEW i \in Ids, shown'[i] # shown[i]
  PROVE  /\ shown[i] = "online" /\ shown'[i] = "offline"
         /\ life[i] = "gone" \/ disturbed[i]
<1>1. Expired(i) /\ shown'[i] = "offline" /\ shown[i] = "online"
  BY DEF CleanupExpired, Expired, TypeOK
<1>2. life[i] # "alive" \/ disturbed[i]
  BY <1>1, AliveNotExpired
<1>3. life[i] # "unborn"
  BY <1>1 DEF TimingInvariant, PeerTimes
<1>. QED  BY <1>1, <1>2, <1>3 DEF TypeOK

\* A peer that is alive is not shown offline, for any set of nodes and any
\* intervals that satisfy the timing assumption.
THEOREM AlivePeersStay == Spec => []AlivePeerNotOffline
<1>1. Init => AlivePeerNotOffline
  BY DEF Init, AlivePeerNotOffline
<1>2. TypeOK /\ TimingInvariant /\ AlivePeerNotOffline /\ [Next]_vars => AlivePeerNotOffline'
  <2>. SUFFICES ASSUME TypeOK, TimingInvariant, [Next]_vars, TimingAssumption,
                       NEW i \in Ids, life[i] = "alive" /\ shown[i] = "offline" => disturbed[i],
                       life'[i] = "alive", shown'[i] = "offline"
                PROVE  disturbed'[i]
    BY DEF AlivePeerNotOffline
  <2>0. life[i] = "unborn" => shown[i] = "unknown"
    BY DEF TimingInvariant, PeerTimes
  <2>1. ASSUME NEW j \in Ids, Join(j) PROVE disturbed'[i]
    BY <2>0, <2>1 DEF Join, table, TypeOK
  <2>2. ASSUME NEW j \in Ids, Announce(j) PROVE disturbed'[i]
    BY <2>2 DEF Announce, table
  <2>3. ASSUME NEW j \in Ids, Leave(j) PROVE disturbed'[i]
    BY <2>3 DEF Leave, table, TypeOK
  <2>4. ASSUME NEW j \in Ids, NEW age \in inFlight[j], Receive(j, age) PROVE disturbed'[i]
    <3>1. CASE UNCHANGED table
      BY <2>4, <3>1 DEF Receive, remote, table
    <3>2. CASE Register(j)
      <4>1. shown'[j] = "online"
        BY <3>2 DEF Register, TypeOK
      <4>2. i # j
        BY <4>1
      <4>3. shown[i] = "offline" /\ disturbed'[i] = disturbed[i] /\ life[i] = "alive"
        BY <2>4, <3>2, <4>2, Zenon DEF Register, Receive, remote, TypeOK
      <4>. QED  BY <4>3
    <3>. QED  BY <2>4, <3>1, <3>2 DEF Receive
  <2>5. CASE TimerRefresh \/ ButtonRefresh
    <3>1. CleanupExpired /\ life' = life /\ disturbed' = disturbed
      BY <2>5 DEF TimerRefresh, ButtonRefresh, remote, CleanupExpired
    <3>2. CASE shown'[i] # shown[i]
      BY <3>1, <3>2, RefreshHidesGone
    <3>3. CASE shown'[i] = shown[i]
      BY <3>1, <3>3
    <3>. QED  BY <3>2, <3>3
  <2>6. CASE Tick
    BY <2>6 DEF Tick
  <2>7. CASE MoveClock
    BY <2>7 DEF MoveClock, Known, remote
  <2>8. CASE UNCHANGED vars
    BY <2>8 DEF vars, remote, table
  <2>. QED  BY <2>1, <2>2, <2>3, <2>4, <2>5, <2>6, <2>7, <2>8 DEF Next
<1>. QED  BY <1>1, <1>2, TypeCorrect, InTime, PTL DEF Spec

-----------------------------------------------------------------------------
(* The failure detector.                                                   *)

\* Every step of discovery and of the table is one of the detector, or none.
LEMMA StepRefines ==
  ASSUME TimingAssumption, TypeOK, TimingInvariant, [Next]_vars
  PROVE  [Contract!Next]_(Contract!vars)
<1>1. ASSUME NEW i \in Ids, Join(i) PROVE Contract!Join(i)
  BY <1>1 DEF Join, Contract!Join, table
<1>2. ASSUME NEW i \in Ids, Leave(i) PROVE Contract!Leave(i)
  BY <1>2 DEF Leave, Contract!Leave, table
<1>3. ASSUME NEW i \in Ids, Announce(i) PROVE UNCHANGED Contract!vars
  BY <1>3 DEF Announce, Contract!vars, table
<1>4. ASSUME NEW i \in Ids, NEW age \in inFlight[i], Receive(i, age)
      PROVE  Contract!Show(i) \/ UNCHANGED Contract!vars
  <2>1. life[i] # "unborn" /\ UNCHANGED life
    BY <1>4 DEF TimingInvariant, PeerTimes, Receive, remote
  <2>. QED  BY <1>4, <2>1 DEF Receive, Register, Contract!Show, Contract!vars, table
<1>5. CASE TimerRefresh \/ ButtonRefresh
  <2>1. CleanupExpired /\ life' = life /\ disturbed' = disturbed
    BY <1>5 DEF TimerRefresh, ButtonRefresh, remote, CleanupExpired
  <2>. DEFINE S == {i \in Ids : shown'[i] # shown[i]}
  <2>2. \A i \in S : shown[i] = "online" /\ shown'[i] = "offline" /\ Contract!MayBeHidden(i)
    BY <2>1, RefreshHidesGone DEF Contract!MayBeHidden
  <2>3. shown' = [i \in Ids |-> IF i \in S THEN "offline" ELSE shown[i]]
    BY <2>1, <2>2 DEF CleanupExpired
  <2>4. Contract!Hide(S)
    BY <2>1, <2>2, <2>3 DEF Contract!Hide
  <2>. QED  BY <2>4 DEF Contract!Next
<1>6. CASE Tick
  BY <1>6 DEF Tick, Contract!vars
<1>7. CASE MoveClock
  BY <1>7 DEF MoveClock, Known, remote, Contract!MoveClock, Contract!Next
<1>8. CASE UNCHANGED vars
  BY <1>8 DEF vars, remote, table, Contract!vars
<1>. QED  BY <1>1, <1>2, <1>3, <1>4, <1>5, <1>6, <1>7, <1>8 DEF Next, Contract!Next

\* Discovery and the peer table implement the failure detector, whenever the
\* timing assumption holds.
THEOREM PeersImplementContract ==
  ASSUME TimingAssumption
  PROVE  Spec => ContractSpec
<1>1. Init => Contract!Init
  BY DEF Init, Contract!Init
<1>2. TypeOK /\ TimingInvariant /\ [Next]_vars => [Contract!Next]_(Contract!vars)
  BY StepRefines
<1>. QED  BY <1>1, <1>2, TypeCorrect, InTime, PTL DEF Spec, Contract!Spec, ContractSpec
=============================================================================
