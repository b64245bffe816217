--------------------------- MODULE ServicesProofs ---------------------------
(***************************************************************************)
(* Theorems about Services, for any number of starts, any faults and any   *)
(* set of threads that a join may give up.                                 *)
(***************************************************************************)
EXTENDS Services, TLAPS

\* Which flags are up at each statement of the calling thread.
Control ==
    /\ pc = "idle" => listenerRunning = appRunning /\ discoveryRunning = appRunning
    /\ pc = "startListener" => appRunning /\ ~listenerRunning /\ ~discoveryRunning
    /\ pc \in {"startServer", "startListen", "startBroadcast"} =>
          appRunning /\ listenerRunning /\ ~discoveryRunning
    /\ pc = "stopApp" => ~discoveryRunning
    /\ pc = "stopDiscovery" => ~appRunning /\ (discoveryRunning => listenerRunning)
    /\ pc = "closeSockets" => (discoveryRunning => ~appRunning)
    /\ pc \in {"joinBroadcast", "joinListen", "stopListener"} =>
          ~appRunning /\ ~discoveryRunning
    /\ pc \in {"closeServer", "joinServer"} =>
          ~appRunning /\ ~discoveryRunning /\ ~listenerRunning
    /\ pc # "idle" \/ appRunning => starts # 0

\* When the thread of each kind of the last start may live.
MayLive(k) ==
    CASE k = "server" -> listenerRunning \/ pc \in {"closeServer", "joinServer"}
      [] k = "listen" -> discoveryRunning
                           \/ pc \in {"startBroadcast", "joinBroadcast", "joinListen"}
      [] k = "broadcast" -> discoveryRunning \/ pc = "joinBroadcast"

\* When its thread has not been started yet.
NotYet(k) ==
    pc \in CASE k = "server" -> {"startListener", "startServer"}
             [] k = "listen" -> {"startListener", "startServer", "startListen"}
             [] k = "broadcast" -> {"startListener", "startServer", "startListen",
                                    "startBroadcast"}

ThreadsWhere ==
    \A k \in Kinds, g \in Starts :
        /\ g > starts \/ (g = starts /\ NotYet(k)) => thread[k][g] = "none"
        /\ Lives(k, g) /\ <<k, g>> \notin abandoned => g = starts /\ MayLive(k)

\* When a service holds the socket of its thread.
Holding(k) ==
    CASE k = "server" -> listenerRunning
      [] k = "listen" -> discoveryRunning \/ pc = "startBroadcast"
      [] k = "broadcast" -> discoveryRunning

NoneAbandoned(k) == \A h \in Starts : <<k, h>> \notin abandoned

Held ==
    \A k \in Kinds, g \in Starts :
        /\ g = starts /\ thread[k][g] \in {"binding", "check", "waiting"}
        /\ NoneAbandoned(k) /\ Holding(k)
        => ref[k] = g /\ sock[k][g] = "open"

Bools == /\ appRunning \in BOOLEAN /\ listenerRunning \in BOOLEAN
         /\ discoveryRunning \in BOOLEAN
         /\ listenerStop \in BOOLEAN /\ discoveryStop \in BOOLEAN

ServicesInv == TypeOK /\ Control /\ ThreadsWhere /\ Held

-----------------------------------------------------------------------------
\* The stop events and flags are Boolean after every step.
LEMMA BoolsStep == ASSUME Bools, [Next]_vars PROVE Bools'
<1>. USE DEF Bools
<1>1. CASE StartApp BY <1>1, Zenon DEF StartApp, events
<1>2. CASE StartListener BY <1>2, Zenon DEF StartListener
<1>3. CASE StartServer BY <1>3, Zenon DEF StartServer, flags, events
<1>4. CASE StartListen BY <1>4, Zenon DEF StartListen, SpawnFails
<1>5. CASE StartBroadcast BY <1>5, Zenon DEF StartBroadcast, SpawnFails
<1>6. CASE StopApp BY <1>6, Zenon DEF StopApp, events
<1>7. CASE StopDiscovery BY <1>7, Zenon DEF StopDiscovery, flags
<1>8. CASE CloseSockets BY <1>8, Zenon DEF CloseSockets, events
<1>9. CASE StopListener BY <1>9, Zenon DEF StopListener
<1>10. CASE CloseServer BY <1>10, Zenon DEF CloseServer, flags, events
<1>11. CASE JoinServer BY <1>11, Zenon DEF JoinServer, flags, events
<1>12. CASE Join("joinBroadcast", "broadcast", "joinListen")
    BY <1>12, Zenon DEF Join, flags, events
<1>13. CASE Join("joinListen", "listen", "stopListener")
    BY <1>13, Zenon DEF Join, flags, events
<1>14. CASE \E k \in Kinds, g \in Starts : ThreadStep(k, g)
    BY <1>14, Zenon DEF ThreadStep, Open, BindSucceeds, BindFails, CheckStop, Wake,
                        End, ThreadOnly, flags, events
<1>15. CASE UNCHANGED vars BY <1>15, Zenon DEF vars, flags, events
<1>. QED
    BY <1>1, <1>2, <1>3, <1>4, <1>5, <1>6, <1>7, <1>8, <1>9, <1>10, <1>11, <1>12,
       <1>13, <1>14, <1>15, Zenon DEF Next, CallerStep, UserStep

\* What a step of a thread leaves alone.
LEMMA ThreadStepChanges ==
    ASSUME TypeOK, NEW k \in Kinds, NEW g \in Starts, ThreadStep(k, g)
    PROVE  /\ UNCHANGED <<pc, starts, captured, told, appRunning, listenerRunning,
                          discoveryRunning, abandoned>>
           /\ \E s \in ThreadStates \ {"none"} :
                 thread' = [thread EXCEPT ![k][g] = s]
           /\ \E x \in {"open", "closed", sock[k][g]} : sock' = [sock EXCEPT ![k][g] = x]
           /\ \E r \in {0, g, ref[k]} : ref' = [ref EXCEPT ![k] = r]
           /\ Lives(k, g)
<1>. USE DEF TypeOK, ThreadOnly, caller, flags, Becomes, ThreadStates, Lives, Ended
<1>1. CASE Open(k, g) BY <1>1 DEF Open
<1>2. CASE BindSucceeds(k, g) BY <1>2 DEF BindSucceeds
<1>3. CASE BindFails(k, g) BY <1>3 DEF BindFails
<1>4. CASE CheckStop(k, g) BY <1>4 DEF CheckStop
<1>5. CASE Wake(k, g) BY <1>5 DEF Wake
<1>6. CASE End(k, g) BY <1>6 DEF End
<1>. QED BY <1>1, <1>2, <1>3, <1>4, <1>5, <1>6 DEF ThreadStep

\* What the calling thread and the threads keep, flags and events apart.
DataOK ==
    /\ pc \in CallerSteps /\ starts \in 0..MaxStarts
    /\ captured \in 0..MaxStarts
    /\ told \in {"nothing", "started", "stopping", "stopped", "failing", "failed"}
    /\ thread \in [Kinds -> [Starts -> ThreadStates]]
    /\ sock \in [Kinds -> [Starts -> {"none", "open", "closed"}]]
    /\ ref \in [Kinds -> 0..MaxStarts]
    /\ abandoned \subseteq Kinds \X Starts

\* Whenever a call is under way a start was begun.
LEMMA Begun ==
    ASSUME TypeOK, Control, pc # "idle" PROVE starts \in Starts
<1>1. starts # 0 BY Zenon DEF Control
<1>. QED BY <1>1, ServicesAssumption DEF TypeOK, Starts

\* They keep their types; only a thread of a start that was begun is touched.
LEMMA DataStep ==
    ASSUME TypeOK, Control, [Next]_vars PROVE DataOK'
<1>. USE ServicesAssumption DEF DataOK, CallerSteps, Starts, ThreadStates
<1>0. DataOK BY DEF TypeOK
<1>1. CASE StartApp BY <1>0, <1>1 DEF StartApp, threads
<1>2. CASE StartListener BY <1>0, <1>2 DEF StartListener, Goto, threads
<1>3. CASE StartServer
  <2>1. starts \in Starts BY <1>3, Begun DEF StartServer
  <2>2. CASE thread' = thread BY <1>0, <1>3, <2>2 DEF StartServer, Goto
  <2>3. CASE Becomes("server", starts, "opening")
      BY <1>0, <1>3, <2>1, <2>3 DEF StartServer, Goto, Becomes, Kinds
  <2>. QED BY <1>3, <2>2, <2>3, Zenon DEF StartServer
<1>4. CASE StartListen
  <2>1. starts \in Starts BY <1>4, Begun DEF StartListen
  <2>2. CASE thread' = thread BY <1>0, <1>4, <2>2 DEF StartListen, SpawnFails, Goto
  <2>3. CASE Becomes("listen", starts, "opening")
      BY <1>0, <1>4, <2>1, <2>3 DEF StartListen, SpawnFails, Goto, Becomes, Kinds
  <2>. QED BY <1>4, <2>2, <2>3, Zenon DEF StartListen, SpawnFails
<1>5. CASE StartBroadcast
  <2>1. starts \in Starts BY <1>5, Begun DEF StartBroadcast
  <2>2. thread' \in [Kinds -> [Starts -> ThreadStates]]
    <3>1. CASE thread' = thread BY <1>0, <3>1
    <3>2. CASE Becomes("broadcast", starts, "opening")
        BY <1>0, <2>1, <3>2 DEF Becomes, Kinds
    <3>. QED BY <1>5, <3>1, <3>2, Zenon DEF StartBroadcast, SpawnFails
  <2>3. /\ pc' \in {"idle", "closeSockets"} /\ told' \in {"started", told}
        /\ UNCHANGED <<starts, captured, sock, ref>>
      BY <1>5, Zenon DEF StartBroadcast, SpawnFails, Goto
  <2>4. abandoned' = abandoned \/ abandoned' = abandoned \cup {<<"listen", starts>>}
      BY <1>5, Zenon DEF StartBroadcast
  <2>. QED BY <1>0, <2>1, <2>2, <2>3, <2>4 DEF Kinds
<1>6. CASE StopApp BY <1>0, <1>6 DEF StopApp, threads
<1>7. CASE StopDiscovery BY <1>0, <1>7 DEF StopDiscovery, Goto, threads
<1>8. CASE CloseSockets BY <1>0, <1>8 DEF CloseSockets, Goto, Close
<1>9. CASE StopListener
    BY <1>0, <1>9 DEF StopListener, Return, Kinds
<1>10. CASE CloseServer BY <1>0, <1>10 DEF CloseServer, Close, threads
<1>11. CASE JoinServer
    BY <1>0, <1>11 DEF JoinServer, Return, Joined, threads, Kinds, Control
<1>12. CASE Join("joinBroadcast", "broadcast", "joinListen")
    BY <1>0, <1>12 DEF Join, Goto, Joined, threads, Kinds, Control
<1>13. CASE Join("joinListen", "listen", "stopListener")
    BY <1>0, <1>13 DEF Join, Goto, Joined, threads, Kinds, Control
<1>14. ASSUME NEW k \in Kinds, NEW g \in Starts, ThreadStep(k, g) PROVE DataOK'
  <2>1. PICK s \in ThreadStates : thread' = [thread EXCEPT ![k][g] = s]
      BY <1>14, ThreadStepChanges
  <2>2. PICK x \in {"open", "closed", sock[k][g]} : sock' = [sock EXCEPT ![k][g] = x]
      BY <1>14, ThreadStepChanges
  <2>3. PICK r \in {0, g, ref[k]} : ref' = [ref EXCEPT ![k] = r]
      BY <1>14, ThreadStepChanges
  <2>4. x \in {"none", "open", "closed"} /\ r \in 0..MaxStarts BY <1>0
  <2>5. UNCHANGED <<pc, starts, captured, told, abandoned>> BY <1>14, ThreadStepChanges
  <2>. QED BY <1>0, <2>1, <2>2, <2>3, <2>4, <2>5
<1>15. CASE UNCHANGED vars BY <1>0, <1>15 DEF vars, caller, threads
<1>. QED
    BY <1>1, <1>2, <1>3, <1>4, <1>5, <1>6, <1>7, <1>8, <1>9, <1>10, <1>11, <1>12,
       <1>13, <1>14, <1>15 DEF Next, CallerStep, UserStep

\* No step leaves the types.
LEMMA TypesStep ==
    ASSUME TypeOK, Control, [Next]_vars PROVE TypeOK'
<1>1. Bools BY DEF Bools, TypeOK
<1>. QED BY <1>1, BoolsStep, DataStep DEF TypeOK, Bools, DataOK

\* The flags follow the statement of the calling thread.
LEMMA ControlStep ==
    ASSUME TypeOK, Control, [Next]_vars PROVE Control'
<1>. USE ServicesAssumption DEF Control, TypeOK, CallerSteps
<1>1. CASE StartApp BY <1>1 DEF StartApp
<1>2. CASE StartListener BY <1>2 DEF StartListener, Goto
<1>3. CASE StartServer
  <2>1. pc = "startServer" /\ starts' = starts /\ pc' \in {"startListen", "stopApp"}
      BY <1>3 DEF StartServer, Goto
  <2>2. pc' = "startListen" => UNCHANGED <<appRunning, listenerRunning, discoveryRunning>>
      BY <1>3, Zenon DEF StartServer, Goto, flags
  <2>3. UNCHANGED <<appRunning, discoveryRunning>>
      BY <1>3, Zenon DEF StartServer, flags
  <2>. QED BY <2>1, <2>2, <2>3
<1>4. CASE StartListen
  <2>1. pc = "startListen" /\ starts' = starts
        /\ pc' \in {"idle", "startBroadcast", "closeSockets"}
      BY <1>4, Zenon DEF StartListen, SpawnFails, Goto
  <2>2. UNCHANGED <<appRunning, listenerRunning, discoveryRunning>>
      BY <1>4, Zenon DEF StartListen, SpawnFails
  <2>3. pc' = "idle" => discoveryRunning
      BY <1>4 DEF StartListen, SpawnFails, Goto
  <2>. QED BY <2>1, <2>2, <2>3
<1>5. CASE StartBroadcast
  <2>1. pc = "startBroadcast" /\ starts' = starts /\ pc' \in {"idle", "closeSockets"}
      BY <1>5, Zenon DEF StartBroadcast, SpawnFails, Goto
  <2>2. UNCHANGED <<appRunning, listenerRunning>> BY <1>5, Zenon DEF StartBroadcast
  <2>3. pc' = "idle" => discoveryRunning' = TRUE
      BY <1>5 DEF StartBroadcast, SpawnFails, Goto
  <2>4. pc' = "closeSockets" => discoveryRunning' = discoveryRunning
      BY <1>5 DEF StartBroadcast, SpawnFails, Goto
  <2>. QED BY <2>1, <2>2, <2>3, <2>4
<1>6. CASE StopApp /\ (pc = "stopApp" \/ (pc = "idle" /\ appRunning)) BY <1>6 DEF StopApp
<1>7. CASE StopDiscovery BY <1>7 DEF StopDiscovery, Goto, flags
<1>8. CASE CloseSockets BY <1>8 DEF CloseSockets, Goto
<1>9. CASE StopListener BY <1>9 DEF StopListener, Return
<1>10. CASE CloseServer BY <1>10 DEF CloseServer, flags
<1>11. CASE JoinServer BY <1>11 DEF JoinServer, Return, flags
<1>12. CASE Join("joinBroadcast", "broadcast", "joinListen")
    BY <1>12 DEF Join, Goto, flags
<1>13. CASE Join("joinListen", "listen", "stopListener") BY <1>13 DEF Join, Goto, flags
<1>14. ASSUME NEW k \in Kinds, NEW g \in Starts, ThreadStep(k, g) PROVE Control'
    BY <1>14, ThreadStepChanges
<1>15. CASE UNCHANGED vars BY <1>15 DEF vars, caller, flags
<1>. QED
    BY <1>1, <1>2, <1>3, <1>4, <1>5, <1>6, <1>7, <1>8, <1>9, <1>10, <1>11, <1>12,
       <1>13, <1>14, <1>15 DEF Next, CallerStep, UserStep

-----------------------------------------------------------------------------
\* A step of a thread keeps the threads where they were.
LEMMA ThreadsWhereThread ==
    ASSUME TypeOK, ThreadsWhere, NEW k \in Kinds, NEW g \in Starts, ThreadStep(k, g)
    PROVE  ThreadsWhere'
<1>1. PICK s \in ThreadStates \ {"none"} : thread' = [thread EXCEPT ![k][g] = s]
    BY ThreadStepChanges
<1>2. UNCHANGED <<pc, starts, listenerRunning, discoveryRunning, abandoned>>
    BY ThreadStepChanges
<1>3. Lives(k, g) BY ThreadStepChanges
<1>4. ASSUME NEW j \in Kinds, NEW h \in Starts, j # k \/ h # g
      PROVE  thread'[j][h] = thread[j][h]
    BY <1>1, <1>4 DEF TypeOK
<1>5. \A j \in Kinds : MayLive(j)' = MayLive(j) /\ NotYet(j)' = NotYet(j)
    BY <1>2, Zenon DEF MayLive, NotYet
<1>6. thread[k][g] # "none" BY <1>3 DEF Lives, Ended
<1>7. ASSUME NEW j \in Kinds, NEW h \in Starts,
             h > starts \/ (h = starts /\ NotYet(j))
      PROVE  thread'[j][h] = "none"
  <2>1. thread[j][h] = "none" BY <1>7, Zenon DEF ThreadsWhere
  <2>. QED BY <2>1, <1>4, <1>6
<1>8. ASSUME NEW j \in Kinds, NEW h \in Starts, Lives(j, h)', <<j, h>> \notin abandoned
      PROVE  h = starts /\ MayLive(j)
  <2>1. Lives(j, h)
    <3>1. CASE j = k /\ h = g BY <3>1, <1>3
    <3>2. CASE j # k \/ h # g BY <3>2, <1>4, <1>8 DEF Lives, Ended
    <3>. QED BY <3>1, <3>2
  <2>. QED BY <2>1, <1>8, Zenon DEF ThreadsWhere
<1>. QED BY <1>2, <1>5, <1>7, <1>8, Zenon DEF ThreadsWhere

\* A step of the calling thread that starts no thread, begins no start and
\* gives no thread up keeps them, if those that may live still may.
LEMMA ThreadsWhereCaller ==
    ASSUME TypeOK, ThreadsWhere, UNCHANGED <<thread, starts>>,
           abandoned \subseteq abandoned',
           \A j \in Kinds : NotYet(j)' => NotYet(j),
           \A j \in Kinds : MayLive(j) => MayLive(j)' \/ Ended(j, starts)
                                            \/ <<j, starts>> \in abandoned'
    PROVE  ThreadsWhere'
<1>. SUFFICES ASSUME NEW k \in Kinds, NEW g \in Starts
     PROVE  /\ (g > starts \/ (g = starts /\ NotYet(k)')) => thread[k][g] = "none"
            /\ Lives(k, g) /\ <<k, g>> \notin abandoned' => g = starts /\ MayLive(k)'
    BY Zenon DEF ThreadsWhere, Lives, Ended
<1>1. (g > starts \/ (g = starts /\ NotYet(k)')) => thread[k][g] = "none"
    BY Zenon DEF ThreadsWhere
<1>2. ASSUME Lives(k, g), <<k, g>> \notin abandoned' PROVE g = starts /\ MayLive(k)'
  <2>1. <<k, g>> \notin abandoned BY <1>2
  <2>2. g = starts /\ MayLive(k) BY <1>2, <2>1, Zenon DEF ThreadsWhere
  <2>. QED BY <1>2, <2>2, Zenon DEF Lives
<1>. QED BY <1>1, <1>2, Zenon

\* So does the start of a thread that may live from then on.
LEMMA ThreadsWhereStarted ==
    ASSUME TypeOK, ThreadsWhere, NEW j \in Kinds, starts \in Starts,
           Becomes(j, starts, "opening"), UNCHANGED <<starts, abandoned>>,
           MayLive(j)', ~NotYet(j)',
           \A k \in Kinds : NotYet(k)' => NotYet(k),
           \A k \in Kinds : MayLive(k) => MayLive(k)'
    PROVE  ThreadsWhere'
<1>. SUFFICES ASSUME NEW k \in Kinds, NEW g \in Starts
     PROVE /\ g > starts \/ (g = starts /\ NotYet(k)') => thread'[k][g] = "none"
           /\ Lives(k, g)' /\ <<k, g>> \notin abandoned => g = starts /\ MayLive(k)'
    BY Zenon DEF ThreadsWhere
<1>1. CASE k = j /\ g = starts BY <1>1, ServicesAssumption DEF Starts
<1>2. CASE k # j \/ g # starts
  <2>1. thread'[k][g] = thread[k][g] BY <1>2 DEF Becomes, TypeOK
  <2>2. Lives(k, g)' => Lives(k, g) BY <2>1 DEF Lives, Ended
  <2>3. Lives(k, g) /\ <<k, g>> \notin abandoned => g = starts /\ MayLive(k)
      BY Zenon DEF ThreadsWhere
  <2>4. g > starts \/ (g = starts /\ NotYet(k)) => thread[k][g] = "none"
      BY Zenon DEF ThreadsWhere
  <2>. QED BY <2>1, <2>2, <2>3, <2>4
<1>. QED BY <1>1, <1>2

\* Every step keeps them.
LEMMA ThreadsWhereStep ==
    ASSUME TypeOK, Control, ThreadsWhere, [Next]_vars PROVE ThreadsWhere'
<1>. USE DEF Kinds
<1>1. CASE StartApp
  <2>1. UNCHANGED <<thread, listenerRunning, discoveryRunning, abandoned>>
      BY <1>1, Zenon DEF StartApp, threads
  <2>2. ~listenerRunning /\ ~discoveryRunning
      BY <1>1 DEF StartApp, Control, TypeOK
  <2>3. pc = "idle" /\ starts' = starts + 1 BY <1>1 DEF StartApp
  <2>4. \A k \in Kinds : ~MayLive(k) BY <2>2, <2>3 DEF MayLive
  <2>5. \A k \in Kinds, g \in Starts : Lives(k, g) => <<k, g>> \in abandoned
      BY <2>4, Zenon DEF ThreadsWhere
  <2>6. \A k \in Kinds, g \in Starts : g > starts => thread[k][g] = "none"
      BY Zenon DEF ThreadsWhere
  <2>7. \A g \in Starts : g > starts' \/ g = starts' => g > starts
      BY <2>3, ServicesAssumption DEF Starts, TypeOK
  <2>. QED BY <2>1, <2>5, <2>6, <2>7, Zenon DEF ThreadsWhere, Lives, Ended
<1>2. CASE StartListener
  <2>1. UNCHANGED <<thread, starts, abandoned>> BY <1>2 DEF StartListener, Goto, threads
  <2>2. \A k \in Kinds : NotYet(k)' => NotYet(k) BY <1>2 DEF StartListener, Goto, NotYet
  <2>3. discoveryRunning' = discoveryRunning BY <1>2, Zenon DEF StartListener
  <2>4. ~listenerRunning /\ ~discoveryRunning /\ pc = "startListener"
      BY <1>2 DEF StartListener, Control, TypeOK
  <2>5. \A k \in Kinds : ~MayLive(k) BY <2>4 DEF MayLive
  <2>. QED BY <2>1, <2>2, <2>5, ThreadsWhereCaller
<1>3. CASE StartServer
  <2>1. UNCHANGED <<starts, abandoned, discoveryRunning>>
      BY <1>3, Zenon DEF StartServer, Goto, flags
  <2>2. pc = "startServer" /\ pc' \in {"startListen", "stopApp"}
      BY <1>3 DEF StartServer, Goto
  <2>3. starts \in Starts BY <2>2, Begun
  <2>4. CASE thread' = thread
    <3>1. thread["server"][starts] = "none" BY <2>2, <2>3 DEF ThreadsWhere, NotYet
    <3>2. \A k \in Kinds : NotYet(k)' => NotYet(k) BY <2>2 DEF NotYet
    <3>3. \A k \in Kinds : MayLive(k) => MayLive(k)' \/ Ended(k, starts)
        BY <2>1, <2>2, <3>1 DEF MayLive, Ended
    <3>. QED BY <2>1, <2>4, <3>2, <3>3, ThreadsWhereCaller
  <2>5. CASE Becomes("server", starts, "opening") /\ listenerRunning' = listenerRunning
             /\ pc' = "startListen"
    <3>1. listenerRunning BY <2>2, Zenon DEF Control
    <3>2. MayLive("server")' BY <3>1, <2>5, Zenon DEF MayLive
    <3>3. \A k \in Kinds : MayLive(k) => MayLive(k)'
        BY <2>1, <2>2, <2>5 DEF MayLive
    <3>4. ~NotYet("server")' /\ \A k \in Kinds : NotYet(k)' => NotYet(k)
        BY <2>2, <2>5 DEF NotYet
    <3>. QED BY <2>1, <2>3, <2>5, <3>2, <3>3, <3>4, ThreadsWhereStarted
  <2>. QED BY <1>3, <2>4, <2>5, Zenon DEF StartServer, Goto, flags
<1>4. CASE StartListen
  <2>1. UNCHANGED <<starts, abandoned, listenerRunning, discoveryRunning>>
      BY <1>4, Zenon DEF StartListen, SpawnFails, Goto
  <2>2. pc = "startListen" BY <1>4 DEF StartListen
  <2>3. starts \in Starts BY <2>2, Begun
  <2>4. ~discoveryRunning BY <2>2, Zenon DEF Control
  <2>5. CASE thread' = thread /\ pc' = "closeSockets"
    <3>1. \A k \in Kinds : NotYet(k)' => NotYet(k) BY <2>5 DEF NotYet
    <3>2. \A k \in Kinds : MayLive(k) => MayLive(k)' BY <2>1, <2>2, <2>5 DEF MayLive
    <3>. QED BY <2>1, <2>5, <3>1, <3>2, ThreadsWhereCaller
  <2>6. CASE Becomes("listen", starts, "opening") /\ pc' = "startBroadcast"
    <3>1. MayLive("listen")' BY <2>6 DEF MayLive
    <3>2. \A k \in Kinds : MayLive(k) => MayLive(k)' BY <2>1, <2>2, <2>6 DEF MayLive
    <3>3. ~NotYet("listen")' /\ \A k \in Kinds : NotYet(k)' => NotYet(k)
        BY <2>2, <2>6 DEF NotYet
    <3>. QED BY <2>1, <2>3, <2>6, <3>1, <3>2, <3>3, ThreadsWhereStarted
  <2>. QED BY <1>4, <2>4, <2>5, <2>6, Zenon DEF StartListen, SpawnFails, Goto
<1>5. CASE StartBroadcast
  <2>1. UNCHANGED <<starts, listenerRunning>> /\ pc = "startBroadcast"
      BY <1>5, Zenon DEF StartBroadcast, SpawnFails, Goto
  <2>2. starts \in Starts BY <2>1, Begun
  <2>3. ~discoveryRunning BY <2>1, Zenon DEF Control
  <2>4. CASE /\ thread' = thread /\ pc' = "closeSockets"
             /\ discoveryRunning' = discoveryRunning
             /\ abandoned' = abandoned \cup {<<"listen", starts>>}
    <3>1. \A k \in Kinds : NotYet(k)' => NotYet(k) BY <2>4 DEF NotYet
    <3>2. \A k \in Kinds : MayLive(k) => MayLive(k)' \/ <<k, starts>> \in abandoned'
        BY <2>1, <2>4 DEF MayLive
    <3>3. abandoned \subseteq abandoned' BY <2>4
    <3>. QED BY <2>1, <2>4, <3>1, <3>2, <3>3, ThreadsWhereCaller
  <2>5. CASE /\ Becomes("broadcast", starts, "opening") /\ pc' = "idle"
             /\ discoveryRunning' = TRUE /\ abandoned' = abandoned
    <3>1. MayLive("broadcast")' BY <2>5, Zenon DEF MayLive
    <3>2. MayLive("listen")' BY <2>5, Zenon DEF MayLive
    <3>3. MayLive("server") => MayLive("server")' BY <2>1, <2>5 DEF MayLive
    <3>4. ~NotYet("broadcast")' /\ \A k \in Kinds : NotYet(k)' => NotYet(k)
        BY <2>5 DEF NotYet
    <3>5. \A k \in Kinds : MayLive(k) => MayLive(k)' BY <3>1, <3>2, <3>3
    <3>. QED BY <2>1, <2>2, <2>5, <3>1, <3>4, <3>5, ThreadsWhereStarted
  <2>. QED BY <1>5, <2>4, <2>5, Zenon DEF StartBroadcast, SpawnFails, Goto
<1>6. CASE StopApp /\ (pc = "stopApp" \/ (pc = "idle" /\ appRunning))
  <2>1. UNCHANGED <<thread, starts, abandoned, listenerRunning, discoveryRunning>>
      BY <1>6, Zenon DEF StopApp, threads
  <2>2. pc \in {"stopApp", "idle"} /\ pc' = "stopDiscovery" BY <1>6 DEF StopApp
  <2>3. \A k \in Kinds : NotYet(k)' => NotYet(k) BY <2>2 DEF NotYet
  <2>4. \A k \in Kinds : MayLive(k) => MayLive(k)' BY <2>1, <2>2 DEF MayLive
  <2>. QED BY <2>1, <2>3, <2>4, ThreadsWhereCaller
<1>7. CASE StopDiscovery
  <2>1. UNCHANGED <<thread, starts, abandoned, listenerRunning, discoveryRunning>>
      BY <1>7, Zenon DEF StopDiscovery, Goto, flags, threads
  <2>2. pc = "stopDiscovery" /\ pc' \in {"closeSockets", "stopListener"}
      BY <1>7 DEF StopDiscovery, Goto
  <2>3. \A k \in Kinds : NotYet(k)' => NotYet(k) BY <2>2 DEF NotYet
  <2>4. \A k \in Kinds : MayLive(k) => MayLive(k)' BY <2>1, <2>2 DEF MayLive
  <2>. QED BY <2>1, <2>3, <2>4, ThreadsWhereCaller
<1>8. CASE CloseSockets
  <2>1. UNCHANGED <<thread, starts, abandoned, listenerRunning>>
      BY <1>8, Zenon DEF CloseSockets, Goto
  <2>2. pc = "closeSockets" /\ pc' \in {"joinBroadcast", "stopApp"}
      BY <1>8 DEF CloseSockets, Goto
  <2>3. discoveryRunning => pc' = "joinBroadcast" BY <1>8 DEF CloseSockets, Goto
  <2>4. \A k \in Kinds : NotYet(k)' => NotYet(k) BY <2>2 DEF NotYet
  <2>5. \A k \in Kinds : MayLive(k) => MayLive(k)' BY <2>1, <2>2, <2>3 DEF MayLive
  <2>. QED BY <2>1, <2>4, <2>5, ThreadsWhereCaller
<1>9. CASE StopListener
  <2>1. UNCHANGED <<thread, starts, abandoned, discoveryRunning>>
      BY <1>9, Zenon DEF StopListener, Return
  <2>2. pc = "stopListener" /\ pc' \in {"closeServer", "idle"}
      BY <1>9 DEF StopListener, Return
  <2>3. listenerRunning => pc' = "closeServer" BY <1>9 DEF StopListener
  <2>4. \A k \in Kinds : NotYet(k)' => NotYet(k) BY <2>2 DEF NotYet
  <2>5. \A k \in Kinds : MayLive(k) => MayLive(k)' BY <2>1, <2>2, <2>3 DEF MayLive
  <2>. QED BY <2>1, <2>4, <2>5, ThreadsWhereCaller
<1>10. CASE CloseServer
  <2>1. UNCHANGED <<thread, starts, abandoned, listenerRunning, discoveryRunning>>
      BY <1>10, Zenon DEF CloseServer, flags
  <2>2. pc = "closeServer" /\ pc' = "joinServer" BY <1>10 DEF CloseServer
  <2>3. \A k \in Kinds : NotYet(k)' => NotYet(k) BY <2>2 DEF NotYet
  <2>4. \A k \in Kinds : MayLive(k) => MayLive(k)' BY <2>1, <2>2 DEF MayLive
  <2>. QED BY <2>1, <2>3, <2>4, ThreadsWhereCaller
<1>11. CASE JoinServer
  <2>1. UNCHANGED <<thread, starts, listenerRunning, discoveryRunning>>
      BY <1>11, Zenon DEF JoinServer, Return, flags, threads
  <2>2. pc = "joinServer" /\ pc' = "idle" BY <1>11 DEF JoinServer, Return
  <2>3. abandoned \subseteq abandoned'
        /\ (Ended("server", starts) \/ <<"server", starts>> \in abandoned')
      BY <1>11 DEF JoinServer, Joined
  <2>4. \A k \in Kinds : NotYet(k)' => NotYet(k) BY <2>2 DEF NotYet
  <2>5. \A k \in Kinds : k # "server" /\ MayLive(k) => MayLive(k)'
      BY <2>1, <2>2 DEF MayLive
  <2>. QED BY <2>1, <2>3, <2>4, <2>5, ThreadsWhereCaller
<1>12. CASE Join("joinBroadcast", "broadcast", "joinListen")
  <2>1. UNCHANGED <<thread, starts, listenerRunning, discoveryRunning>>
      BY <1>12, Zenon DEF Join, Goto, flags, threads
  <2>2. pc = "joinBroadcast" /\ pc' = "joinListen" BY <1>12 DEF Join, Goto
  <2>3. abandoned \subseteq abandoned'
        /\ (Ended("broadcast", starts) \/ <<"broadcast", starts>> \in abandoned')
      BY <1>12 DEF Join, Joined
  <2>4. \A k \in Kinds : NotYet(k)' => NotYet(k) BY <2>2 DEF NotYet
  <2>5. \A k \in Kinds : k # "broadcast" /\ MayLive(k) => MayLive(k)'
      BY <2>1, <2>2 DEF MayLive
  <2>. QED BY <2>1, <2>3, <2>4, <2>5, ThreadsWhereCaller
<1>13. CASE Join("joinListen", "listen", "stopListener")
  <2>1. UNCHANGED <<thread, starts, listenerRunning, discoveryRunning>>
      BY <1>13, Zenon DEF Join, Goto, flags, threads
  <2>2. pc = "joinListen" /\ pc' = "stopListener" BY <1>13 DEF Join, Goto
  <2>3. abandoned \subseteq abandoned'
        /\ (Ended("listen", starts) \/ <<"listen", starts>> \in abandoned')
      BY <1>13 DEF Join, Joined
  <2>4. \A k \in Kinds : NotYet(k)' => NotYet(k) BY <2>2 DEF NotYet
  <2>5. \A k \in Kinds : k # "listen" /\ MayLive(k) => MayLive(k)'
      BY <2>1, <2>2 DEF MayLive
  <2>. QED BY <2>1, <2>3, <2>4, <2>5, ThreadsWhereCaller
<1>14. ASSUME NEW k \in Kinds, NEW g \in Starts, ThreadStep(k, g) PROVE ThreadsWhere'
    BY <1>14, ThreadsWhereThread
<1>15. CASE UNCHANGED vars
    BY <1>15, Zenon DEF vars, caller, flags, threads, ThreadsWhere, MayLive, NotYet,
                       Lives, Ended
<1>. QED
    BY <1>1, <1>2, <1>3, <1>4, <1>5, <1>6, <1>7, <1>8, <1>9, <1>10, <1>11, <1>12,
       <1>13, <1>14, <1>15 DEF Next, CallerStep, UserStep

-----------------------------------------------------------------------------
Using == {"binding", "check", "waiting"}

\* A step of the calling thread keeps what the services hold, if each service
\* that still holds a socket held it before and neither is touched.
LEMMA HeldKept ==
    ASSUME Held, starts' = starts, abandoned \subseteq abandoned',
           \A k \in Kinds : Holding(k)' /\ thread'[k][starts] \in Using =>
               /\ Holding(k) /\ thread'[k][starts] = thread[k][starts]
               /\ ref'[k] = ref[k] /\ sock'[k][starts] = sock[k][starts]
    PROVE  Held'
<1>. SUFFICES ASSUME NEW k \in Kinds, NEW g \in Starts, g = starts,
                     thread'[k][g] \in Using, NoneAbandoned(k)', Holding(k)'
     PROVE  ref'[k] = g /\ sock'[k][g] = "open"
    BY Zenon DEF Held, Using
<1>1. /\ Holding(k) /\ thread'[k][g] = thread[k][g]
      /\ ref'[k] = ref[k] /\ sock'[k][g] = sock[k][g]
    BY Zenon
<1>2. NoneAbandoned(k) BY DEF NoneAbandoned
<1>. QED BY <1>1, <1>2, Zenon DEF Held, Using

\* A step of a thread keeps it: a thread of an earlier start that lives was
\* given up, and then nothing is claimed of its kind.
LEMMA HeldThread ==
    ASSUME TypeOK, ThreadsWhere, Held,
           NEW k \in Kinds, NEW g \in Starts, ThreadStep(k, g)
    PROVE  Held'
<1>1. PICK s \in ThreadStates \ {"none"} : thread' = [thread EXCEPT ![k][g] = s]
    BY ThreadStepChanges
<1>2. PICK x \in {"open", "closed", sock[k][g]} : sock' = [sock EXCEPT ![k][g] = x]
    BY ThreadStepChanges
<1>3. PICK r \in {0, g, ref[k]} : ref' = [ref EXCEPT ![k] = r]
    BY ThreadStepChanges
<1>4. UNCHANGED <<pc, starts, listenerRunning, discoveryRunning, abandoned>>
      /\ Lives(k, g)
    BY ThreadStepChanges
<1>5. \A j \in Kinds : Holding(j)' = Holding(j) BY <1>4, Zenon DEF Holding
<1>. SUFFICES ASSUME NEW j \in Kinds, NEW h \in Starts, h = starts,
                     thread'[j][h] \in Using, NoneAbandoned(j), Holding(j)
     PROVE  ref'[j] = h /\ sock'[j][h] = "open"
    BY <1>4, <1>5, Zenon DEF Held, Using, NoneAbandoned
<1>6. CASE j # k
  <2>1. thread'[j][h] = thread[j][h] /\ ref'[j] = ref[j] /\ sock'[j][h] = sock[j][h]
      BY <1>1, <1>2, <1>3, <1>6 DEF TypeOK
  <2>. QED BY <2>1, Zenon DEF Held, Using
<1>7. CASE j = k
  <2>1. g = starts BY <1>4, <1>7, Zenon DEF ThreadsWhere, NoneAbandoned
  <2>2. thread[k][g] \in Using => ref[k] = g /\ sock[k][g] = "open"
      BY <1>7, <2>1, Zenon DEF Held, Using
  <2>. USE DEF TypeOK, Using, Becomes
  <2>3. CASE Open(k, g) BY <1>7, <2>1, <2>3 DEF Open
  <2>4. CASE BindSucceeds(k, g) BY <1>7, <2>1, <2>2, <2>4 DEF BindSucceeds
  <2>5. CASE BindFails(k, g) BY <1>7, <2>1, <2>5 DEF BindFails
  <2>6. CASE CheckStop(k, g) BY <1>7, <2>1, <2>2, <2>6 DEF CheckStop
  <2>7. CASE Wake(k, g) BY <1>7, <2>1, <2>2, <2>7 DEF Wake
  <2>8. CASE End(k, g) BY <1>7, <2>1, <2>8 DEF End
  <2>. QED BY <2>3, <2>4, <2>5, <2>6, <2>7, <2>8 DEF ThreadStep
<1>. QED BY <1>6, <1>7

\* Every step keeps it.
LEMMA HeldStep ==
    ASSUME TypeOK, Control, ThreadsWhere, Held, [Next]_vars PROVE Held'
<1>. USE DEF Kinds
<1>1. CASE StartApp
  <2>1. UNCHANGED thread /\ pc = "idle" /\ starts' = starts + 1
      BY <1>1 DEF StartApp, threads
  <2>2. \A k \in Kinds, g \in Starts : g > starts => thread[k][g] = "none"
      BY Zenon DEF ThreadsWhere
  <2>3. \A g \in Starts : g = starts' => g > starts
      BY <2>1, ServicesAssumption DEF Starts, TypeOK
  <2>4. \A k \in Kinds, g \in Starts : g = starts' => thread'[k][g] = "none"
      BY <2>1, <2>2, <2>3
  <2>. QED BY <2>4 DEF Held
<1>2. CASE StartListener
  <2>1. UNCHANGED <<thread, sock, ref, starts, abandoned, discoveryRunning>>
      BY <1>2, Zenon DEF StartListener, Goto, threads
  <2>2. pc = "startListener" /\ pc' \in {"startListen", "startServer"}
      BY <1>2 DEF StartListener, Goto
  <2>3. \A k \in Kinds : Holding(k)' /\ k # "server" => Holding(k)
      BY <2>1, <2>2 DEF Holding
  <2>4. starts \in Starts BY <2>2, Begun
  <2>5. thread["server"][starts] = "none"
      BY <2>2, <2>4 DEF ThreadsWhere, NotYet
  <2>. QED BY <2>1, <2>3, <2>5, HeldKept DEF Using
<1>3. CASE StartServer
  <2>1. UNCHANGED <<sock, ref, starts, abandoned, discoveryRunning>>
      BY <1>3, Zenon DEF StartServer, Goto, flags
  <2>2. pc = "startServer" /\ pc' \in {"startListen", "stopApp"}
      BY <1>3 DEF StartServer, Goto
  <2>3. starts \in Starts BY <2>2, Begun
  <2>4. thread' = thread \/ Becomes("server", starts, "opening")
      BY <1>3, Zenon DEF StartServer
  <2>5. \A k \in Kinds : thread'[k][starts] \in Using =>
                            thread'[k][starts] = thread[k][starts]
      BY <2>3, <2>4 DEF Becomes, Using, TypeOK
  <2>6. listenerRunning' => listenerRunning BY <2>2, Zenon DEF Control
  <2>7. \A k \in Kinds : Holding(k)' => Holding(k) BY <2>1, <2>2, <2>6 DEF Holding
  <2>. QED BY <2>1, <2>5, <2>7, HeldKept
<1>4. CASE StartListen
  <2>1. UNCHANGED <<sock, ref, starts, abandoned, listenerRunning, discoveryRunning>>
      BY <1>4, Zenon DEF StartListen, SpawnFails, Goto
  <2>2. pc = "startListen" BY <1>4 DEF StartListen
  <2>3. starts \in Starts BY <2>2, Begun
  <2>4. ~discoveryRunning BY <2>2, Zenon DEF Control
  <2>5. thread' = thread \/ Becomes("listen", starts, "opening")
      BY <1>4, Zenon DEF StartListen, SpawnFails
  <2>6. thread["listen"][starts] = "none" BY <2>2, <2>3 DEF ThreadsWhere, NotYet
  <2>7. \A k \in Kinds : thread'[k][starts] \in Using =>
                           k # "listen" /\ thread'[k][starts] = thread[k][starts]
      BY <2>3, <2>5, <2>6 DEF Becomes, Using, TypeOK
  <2>8. \A k \in Kinds : Holding(k)' /\ k # "listen" => Holding(k)
      BY <2>1 DEF Holding
  <2>. QED BY <2>1, <2>7, <2>8, HeldKept
<1>5. CASE StartBroadcast
  <2>1. UNCHANGED <<sock, ref, starts, listenerRunning>> /\ pc = "startBroadcast"
        /\ abandoned \subseteq abandoned'
      BY <1>5 DEF StartBroadcast, SpawnFails, Goto
  <2>2. starts \in Starts BY <2>1, Begun
  <2>3. thread' = thread \/ Becomes("broadcast", starts, "opening")
      BY <1>5, Zenon DEF StartBroadcast, SpawnFails
  <2>4. thread["broadcast"][starts] = "none" BY <2>1, <2>2 DEF ThreadsWhere, NotYet
  <2>5. \A k \in Kinds : thread'[k][starts] \in Using =>
                           k # "broadcast" /\ thread'[k][starts] = thread[k][starts]
      BY <2>2, <2>3, <2>4 DEF Becomes, Using, TypeOK
  <2>6. \A k \in Kinds : Holding(k)' /\ k # "broadcast" => Holding(k)
      BY <2>1 DEF Holding
  <2>. QED BY <2>1, <2>5, <2>6, HeldKept
<1>6. CASE StopApp /\ (pc = "stopApp" \/ (pc = "idle" /\ appRunning))
  <2>1. UNCHANGED <<thread, sock, ref, starts, abandoned, listenerRunning,
                    discoveryRunning>> /\ pc' = "stopDiscovery"
      BY <1>6, Zenon DEF StopApp, threads
  <2>2. \A k \in Kinds : Holding(k)' => Holding(k) BY <2>1 DEF Holding
  <2>. QED BY <2>1, <2>2, HeldKept
<1>7. CASE StopDiscovery
  <2>1. UNCHANGED <<thread, sock, ref, starts, abandoned, listenerRunning,
                    discoveryRunning>>
      BY <1>7, Zenon DEF StopDiscovery, Goto, flags, threads
  <2>2. pc' # "startBroadcast" BY <1>7 DEF StopDiscovery, Goto
  <2>3. \A k \in Kinds : Holding(k)' => Holding(k) BY <2>1, <2>2 DEF Holding
  <2>. QED BY <2>1, <2>3, HeldKept
<1>8. CASE CloseSockets
  <2>1. UNCHANGED <<thread, starts, abandoned, listenerRunning>>
        /\ discoveryRunning' = FALSE
      BY <1>8, Zenon DEF CloseSockets, Goto
  <2>2. pc' # "startBroadcast" BY <1>8 DEF CloseSockets, Goto
  <2>3. ref'["server"] = ref["server"] /\ sock'["server"] = sock["server"]
      BY <1>8 DEF CloseSockets, Close, Discovery
  <2>4. \A k \in Kinds : Holding(k)' => k = "server" /\ Holding(k)
    <3>1. ~Holding("listen")' /\ ~Holding("broadcast")'
        BY <2>1, <2>2, Zenon DEF Holding
    <3>2. Holding("server")' => Holding("server") BY <2>1, Zenon DEF Holding
    <3>. QED BY <3>1, <3>2
  <2>. QED BY <2>1, <2>3, <2>4, HeldKept
<1>9. CASE StopListener
  <2>1. UNCHANGED <<thread, sock, starts, abandoned, discoveryRunning>>
      BY <1>9, Zenon DEF StopListener, Return
  <2>2. pc' # "startBroadcast" BY <1>9 DEF StopListener, Return
  <2>3. \A k \in Kinds : k # "server" => ref'[k] = ref[k]
      BY <1>9 DEF StopListener, TypeOK
  <2>4. ~listenerRunning'
      BY <1>9, Zenon DEF StopListener
  <2>5. ~Holding("server")' BY <2>4, Zenon DEF Holding
  <2>6. \A k \in Kinds : Holding(k)' /\ k # "server" => Holding(k)
      BY <2>1, <2>2 DEF Holding
  <2>. QED BY <2>1, <2>3, <2>5, <2>6, HeldKept
<1>10. CASE CloseServer
  <2>1. UNCHANGED <<thread, ref, starts, abandoned, listenerRunning, discoveryRunning>>
      BY <1>10, Zenon DEF CloseServer, flags
  <2>2. pc = "closeServer" /\ pc' = "joinServer" BY <1>10 DEF CloseServer
  <2>3. ~listenerRunning BY <2>2, Zenon DEF Control
  <2>4. \A k \in Kinds : k # "server" => sock'[k] = sock[k]
      BY <1>10 DEF CloseServer, Close
  <2>5. \A k \in Kinds : Holding(k)' => k # "server" /\ Holding(k)
      BY <2>1, <2>2, <2>3 DEF Holding
  <2>. QED BY <2>1, <2>4, <2>5, HeldKept
<1>11. CASE JoinServer
  <2>1. UNCHANGED <<thread, sock, ref, starts, listenerRunning, discoveryRunning>>
        /\ pc' = "idle"
      BY <1>11, Zenon DEF JoinServer, Return, flags, threads
  <2>2. abandoned \subseteq abandoned' BY <1>11 DEF JoinServer, Joined
  <2>3. \A k \in Kinds : Holding(k)' => Holding(k) BY <2>1 DEF Holding
  <2>. QED BY <2>1, <2>2, <2>3, HeldKept
<1>12. ASSUME NEW step, NEW k, NEW next, Join(step, k, next), next # "startBroadcast"
       PROVE  Held'
  <2>1. UNCHANGED <<thread, sock, ref, starts, listenerRunning, discoveryRunning>>
        /\ pc' = next
      BY <1>12, Zenon DEF Join, Goto, flags, threads
  <2>2. abandoned \subseteq abandoned' BY <1>12 DEF Join, Joined
  <2>3. \A j \in Kinds : Holding(j)' => Holding(j) BY <1>12, <2>1 DEF Holding
  <2>. QED BY <2>1, <2>2, <2>3, HeldKept
<1>14. ASSUME NEW k \in Kinds, NEW g \in Starts, ThreadStep(k, g) PROVE Held'
    BY <1>14, HeldThread
<1>15. CASE UNCHANGED vars
    BY <1>15, Zenon DEF vars, caller, flags, threads, Held, Holding, NoneAbandoned
<1>. QED
    BY <1>1, <1>2, <1>3, <1>4, <1>5, <1>6, <1>7, <1>8, <1>9, <1>10, <1>11, <1>12,
       <1>14, <1>15 DEF Next, CallerStep, UserStep

-----------------------------------------------------------------------------
\* The invariant of the services: flags, threads and sockets together.
THEOREM ServicesInvariant == Spec => []ServicesInv
<1>1. Init => ServicesInv
  <2>. SUFFICES ASSUME Init PROVE ServicesInv OBVIOUS
  <2>1. TypeOK
    <3>1. DataOK BY ServicesAssumption DEF Init, DataOK, CallerSteps, ThreadStates
    <3>2. Bools BY Zenon DEF Init, Bools
    <3>. QED BY <3>1, <3>2, Zenon DEF TypeOK, DataOK, Bools
  <2>2. Control BY DEF Init, Control
  <2>3. ThreadsWhere BY DEF Init, ThreadsWhere, Lives, Ended
  <2>4. Held BY DEF Init, Held
  <2>. QED BY <2>1, <2>2, <2>3, <2>4 DEF ServicesInv
<1>2. ServicesInv /\ [Next]_vars => ServicesInv'
    BY TypesStep, ControlStep, ThreadsWhereStep, HeldStep DEF ServicesInv
<1>. QED BY <1>1, <1>2, PTL DEF Spec

\* Whatever fails and whoever is late, flags, threads and sockets keep their
\* types.
THEOREM ServicesTypes == Spec => []TypeOK
<1>1. ServicesInv => TypeOK BY DEF ServicesInv
<1>. QED BY <1>1, ServicesInvariant, PTL

\* Between two calls the application and its services agree on who runs.
THEOREM ServicesAgree == Spec => []FlagsAgree
<1>1. ServicesInv => FlagsAgree BY Zenon DEF ServicesInv, Control, FlagsAgree
<1>. QED BY <1>1, ServicesInvariant, PTL

\* A stop leaves no thread behind but those it gave up.
THEOREM NoThreadLeftBehind == Spec => []OneGeneration
<1>1. ServicesInv => OneGeneration
  <2>. SUFFICES ASSUME ServicesInv, NEW k \in Kinds, NEW g \in Starts,
                       Lives(k, g), <<k, g>> \notin abandoned
       PROVE  g = starts /\ (pc = "idle" => appRunning)
      BY Zenon DEF OneGeneration
  <2>1. g = starts /\ MayLive(k) BY Zenon DEF ServicesInv, ThreadsWhere
  <2>2. ASSUME pc = "idle" PROVE appRunning
    <3>1. listenerRunning = appRunning /\ discoveryRunning = appRunning
        BY <2>2, Zenon DEF ServicesInv, Control
    <3>2. listenerRunning \/ discoveryRunning BY <2>1, <2>2 DEF MayLive, Kinds
    <3>. QED BY <3>1, <3>2, Zenon
  <2>. QED BY <2>1, <2>2, Zenon
<1>. QED BY <1>1, ServicesInvariant, PTL

\* A stop can close the socket of every thread that waits on one.
THEOREM SocketsStayReachable == Spec => []SocketsReachable
<1>1. ServicesInv => SocketsReachable
  <2>. SUFFICES ASSUME ServicesInv, NEW k \in Kinds, NEW g \in Starts, pc = "idle",
                       g = starts, thread[k][g] \in {"check", "waiting"},
                       NoneAbandoned(k)
       PROVE  appRunning /\ ref[k] = g /\ sock[k][g] = "open"
      BY Zenon DEF SocketsReachable, NoneAbandoned
  <2>1. Lives(k, g) BY DEF Lives, Ended
  <2>2. MayLive(k) BY <2>1, Zenon DEF ServicesInv, ThreadsWhere, NoneAbandoned
  <2>3. Holding(k) BY <2>2 DEF MayLive, Holding, Kinds
  <2>4. listenerRunning = appRunning /\ discoveryRunning = appRunning
      BY Zenon DEF ServicesInv, Control
  <2>5. listenerRunning \/ discoveryRunning BY <2>3 DEF Holding, Kinds
  <2>6. appRunning BY <2>4, <2>5, Zenon
  <2>7. thread[k][g] \in {"binding", "check", "waiting"} OBVIOUS
  <2>8. ref[k] = g /\ sock[k][g] = "open" BY <2>3, <2>7, Zenon DEF ServicesInv, Held
  <2>. QED BY <2>6, <2>8
<1>. QED BY <1>1, ServicesInvariant, PTL
=============================================================================
