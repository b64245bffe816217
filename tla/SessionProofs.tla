--------------------------- MODULE SessionProofs ---------------------------
(***************************************************************************)
(* Proofs about the handshake, for any number of nodes, of sessions        *)
(* between them and of passwords.                                          *)
(***************************************************************************)
EXTENDS SessionInvariant, SequenceTheorems, TLAPS

-----------------------------------------------------------------------------
(* Types.                                                                  *)

\* Both machines start well typed.
LEMMA InitTyped == Init => TypeOK
<1>. SUFFICES ASSUME Init PROVE TypeOK
  OBVIOUS
<1>1. PasswordType
  BY SessionAssumption, PasswordAssumption DEF Init, PasswordType
<1>2. ControlType
  BY SessionAssumption DEF Init, ControlType, CallerSteps, CalleeSteps
<1>3. <<>> \in Seq(MessageType)
  OBVIOUS
<1>4. ConnectionType
  BY <1>3 DEF Init, ConnectionType
<1>. QED  BY <1>1, <1>2, <1>4 DEF TypeOK

\* Setting one value of a function leaves its type.
LEMMA Updated ==
  ASSUME NEW F, NEW S, NEW g \in [F -> S], NEW x, NEW v \in S
  PROVE  [g EXCEPT ![x] = v] \in [F -> S]
  OBVIOUS

\* A message written leaves a queue of messages.
LEMMA QueueGrows ==
  ASSUME NEW q \in [Sessions -> Seq(MessageType)], NEW s \in Sessions,
         NEW m \in MessageType
  PROVE  [q EXCEPT ![s] = Append(@, m)] \in [Sessions -> Seq(MessageType)]
<1>1. Append(q[s], m) \in Seq(MessageType)
  OBVIOUS
<1>. QED  BY <1>1

\* Likewise for a message read.
LEMMA QueueShrinks ==
  ASSUME NEW q \in [Sessions -> Seq(MessageType)], NEW s \in Sessions,
         q[s] # <<>>
  PROVE  [q EXCEPT ![s] = Tail(@)] \in [Sessions -> Seq(MessageType)]
<1>1. Tail(q[s]) \in Seq(MessageType)
  OBVIOUS
<1>. QED  BY <1>1

CallerType == /\ caller \in [Sessions -> CallerSteps]
              /\ outcome \in [Sessions -> {"none", "success", "rejected", "failed", "error"}]
              /\ cSock \in [Sessions -> {"none", "open", "dropped", "closed"}]
QueueType == /\ toCallee \in [Sessions -> Seq(MessageType)]
             /\ toCaller \in [Sessions -> Seq(MessageType)]
CalleeType == /\ callee \in [Sessions -> CalleeSteps]
              /\ lSock \in [Sessions -> {"none", "open", "closed"}]

\* send_message of the caller, written or failed, leaves the types.
LEMMA SendsTyped ==
  ASSUME TypeOK, NEW s \in Sessions, NEW m \in MessageType,
         NEW next \in CallerSteps, CallerSends(s, m, next)
  PROVE  CallerType' /\ QueueType'
<1>0. QueueType
  BY DEF TypeOK, ConnectionType, QueueType
<1>1. QueueType'
  <2>1. CASE toCallee' = [toCallee EXCEPT ![s] = Append(@, m)] /\ UNCHANGED toCaller
    BY <1>0, <2>1, QueueGrows DEF QueueType
  <2>2. CASE UNCHANGED <<toCallee, toCaller>>
    BY <1>0, <2>2 DEF QueueType
  <2>. QED  BY <2>1, <2>2 DEF CallerSends
<1>2. CallerType /\ "done" \in CallerSteps
  BY DEF TypeOK, ControlType, ConnectionType, CallerType, CallerSteps
<1>3. CallerGoto(s, next) => CallerType'
  BY <1>2 DEF CallerGoto, CallerType
<1>4. CallerEnds(s, "error", "dropped") => CallerType'
  BY <1>2 DEF CallerEnds, CallerType
<1>. QED  BY <1>1, <1>3, <1>4 DEF CallerSends

\* A message read by the caller leaves queues of messages.
LEMMA CallerReadsTyped ==
  ASSUME TypeOK, NEW s \in Sessions, NEW m, CallerReads(s, m), UNCHANGED toCallee
  PROVE  QueueType'
  BY QueueShrinks DEF TypeOK, ConnectionType, CallerReads, QueueType

\* A message read by the listener leaves queues of messages.
LEMMA CalleeReadsTyped ==
  ASSUME TypeOK, NEW s \in Sessions, NEW m, CalleeReads(s, m)
  PROVE  QueueType'
  BY QueueShrinks DEF TypeOK, ConnectionType, CalleeReads, QueueType

\* A message the listener writes, or fails to, leaves queues of messages.
LEMMA AnswersTyped ==
  ASSUME TypeOK, NEW s \in Sessions, NEW m \in MessageType,
         CalleeSends(s, m) \/ SendFails(s)
  PROVE  QueueType'
<1>1. QueueType
  BY DEF TypeOK, ConnectionType, QueueType
<1>2. CASE CalleeSends(s, m)
  BY <1>1, <1>2, QueueGrows DEF CalleeSends, QueueType
<1>3. CASE SendFails(s)
  BY <1>1, <1>3 DEF SendFails, QueueType
<1>. QED  BY <1>2, <1>3

\* Every step of the caller leaves the types.
LEMMA CallerTyped ==
  ASSUME TypeOK, NEW s \in Sessions, CallerStep(s)
  PROVE  TypeOK'
<1>. USE DEF passwordVars, callerVars, calleeVars, wireVars
<1>a. QueueType /\ CallerType /\ CalleeType
  BY DEF TypeOK, QueueType, CallerType, CalleeType, ControlType, ConnectionType
<1>b. ASSUME CallerType', QueueType', CallerOnly PROVE TypeOK'
  BY <1>b DEF TypeOK, PasswordType, ControlType, ConnectionType, CallerType,
              QueueType, CallerOnly
<1>c. "SESSION_REQUEST" \in MessageType /\ "AUTH_RESPONSE" \in MessageType
  BY DEF MessageType
<1>d. {"answer", "authRequest", "respond", "final", "done", "request"} \subseteq CallerSteps
  BY DEF CallerSteps
<1>1. CASE StartSession(s)
  <2>1. presented' \in [Sessions -> Raw \cup {NoOverride}]
    <3>1. PICK o \in Overrides :
             presented' = [presented EXCEPT ![s] =
                               IF o = NoOverride THEN app[Caller[s]] ELSE o]
      BY <1>1 DEF StartSession
    <3>2. (IF o = NoOverride THEN app[Caller[s]] ELSE o) \in Raw \cup {NoOverride}
      BY SessionAssumption DEF TypeOK, PasswordType
    <3>3. presented \in [Sessions -> Raw \cup {NoOverride}]
      BY DEF TypeOK, ControlType
    <3>. QED  BY <3>1, <3>2, <3>3, Updated
  <2>2. held' \in [Sessions -> SUBSET {Norm[p] : p \in Raw}]
    <3> DEFINE Secrets == {Norm[p] : p \in Raw}
    <3>1. held' = [held EXCEPT ![s] = {auth[Callee[s]]}]
      BY <1>1 DEF StartSession
    <3>2. held \in [Sessions -> SUBSET Secrets] /\ auth \in [Nodes -> Secrets]
      BY DEF TypeOK, PasswordType
    <3>3. auth[Callee[s]] \in Secrets
      BY <3>2, SessionAssumption
    <3>4. {auth[Callee[s]]} \in SUBSET Secrets
      BY <3>3
    <3> HIDE DEF Secrets
    <3>5. held' \in [Sessions -> SUBSET Secrets]
      BY <3>1, <3>2, <3>4, Updated
    <3>. QED  BY <3>5 DEF Secrets
  <2>3. CallerType'
    BY <1>1, <1>a DEF StartSession, CallerGoto, CallerType, CallerSteps
  <2>. QED  BY <1>1, <2>1, <2>2, <2>3 DEF StartSession, TypeOK, PasswordType,
               ControlType, ConnectionType, CallerType
<1>2. CASE Connect(s)
  BY <1>2 DEF Connect, CallerEnds, TypeOK, PasswordType, ControlType, ConnectionType,
              CallerSteps, CalleeSteps
<1>3. CASE SendRequest(s)
  BY <1>3, <1>b, <1>c, <1>d, SendsTyped DEF SendRequest
<1>4. CASE ReadAnswer(s)
  <2>1. QueueType'
    BY <1>4, CallerReadsTyped DEF ReadAnswer
  <2>2. CallerType'
    BY <1>4, <1>a, <1>d DEF ReadAnswer, CallerGoto, CallerEnds, CallerType
  <2>. QED  BY <1>4, <1>b, <2>1, <2>2 DEF ReadAnswer
<1>5. CASE ReadAuthRequest(s)
  <2>1. QueueType'
    BY <1>5, CallerReadsTyped DEF ReadAuthRequest
  <2>2. CallerType'
    BY <1>5, <1>a, <1>d DEF ReadAuthRequest, CallerGoto, CallerType
  <2>. QED  BY <1>5, <1>b, <2>1, <2>2 DEF ReadAuthRequest
<1>6. CASE SendPassword(s)
  <2>1. CASE CallerEnds(s, "error", "dropped") /\ UNCHANGED <<toCallee, toCaller>>
    <3>1. CallerType'
      BY <2>1, <1>a, <1>d DEF CallerEnds, CallerType
    <3>. QED  BY <1>6, <1>a, <1>b, <2>1, <3>1 DEF SendPassword, QueueType
  <2>2. CASE CallerSends(s, "AUTH_RESPONSE", "final")
    BY <1>6, <2>2, <1>b, <1>c, <1>d, SendsTyped DEF SendPassword
  <2>. QED  BY <1>6, <2>1, <2>2 DEF SendPassword
<1>7. CASE ReadVerdict(s)
  <2>1. QueueType'
    BY <1>7, CallerReadsTyped DEF ReadVerdict
  <2>2. CallerType'
    BY <1>7, <1>a, <1>d DEF ReadVerdict, CallerEnds, CallerType
  <2>. QED  BY <1>7, <1>b, <2>1, <2>2 DEF ReadVerdict
<1>8. CASE CallerGivesUp(s)
  <2>1. CallerType'
    BY <1>8, <1>a, <1>d DEF CallerGivesUp, CallerEnds, CallerType
  <2>. QED  BY <1>8, <1>a, <1>b, <2>1 DEF CallerGivesUp, QueueType
<1>9. CASE CloseSocket(s)
  BY <1>9 DEF CloseSocket, TypeOK, PasswordType, ControlType, ConnectionType
<1>. QED  BY <1>1, <1>2, <1>3, <1>4, <1>5, <1>6, <1>7, <1>8, <1>9 DEF CallerStep

\* Every step of the callee's thread leaves the types.
LEMMA CalleeTyped ==
  ASSUME TypeOK, NEW s \in Sessions, CalleeStep(s)
  PROVE  TypeOK'
<1>. USE DEF passwordVars, callerVars, calleeVars, wireVars
<1>a. QueueType /\ CalleeType
  BY DEF TypeOK, QueueType, CalleeType, ControlType, ConnectionType
<1>b. ASSUME CalleeType', QueueType', CalleeOnly,
             verdict' \in [Sessions -> {"none", "rejected", "granted", "denied"}]
      PROVE TypeOK'
  BY <1>b DEF TypeOK, PasswordType, ControlType, ConnectionType, CalleeType,
              QueueType, CalleeOnly
<1>c. verdict \in [Sessions -> {"none", "rejected", "granted", "denied"}]
  BY DEF TypeOK, ControlType
<1>d. \A k \in CalleeSteps : CalleeGoto(s, k) => CalleeType'
  BY <1>a DEF CalleeGoto, CalleeType
<1>e. CalleeEnds(s) => CalleeType'
  BY <1>a DEF CalleeEnds, CalleeType, CalleeSteps
<1>f. SendFails(s) => CalleeType'
  BY <1>e DEF SendFails
<1>1. CASE Accept(s)
  BY <1>1 DEF Accept, TypeOK, PasswordType, ControlType, ConnectionType, CalleeSteps
<1>2. CASE ReadRequest(s)
  <2>1. QueueType'
    BY <1>2, CalleeReadsTyped DEF ReadRequest
  <2>2. CalleeType'
    BY <1>2, <1>d, SessionAssumption DEF ReadRequest, CalleeSteps
  <2>3. verdict' \in [Sessions -> {"none", "rejected", "granted", "denied"}]
    BY <1>2, <1>c DEF ReadRequest, Decide
  <2>. QED  BY <1>2, <1>b, <2>1, <2>2, <2>3 DEF ReadRequest
<1>3. CASE SendRejection(s)
  <2>1. QueueType'
    BY <1>3, AnswersTyped DEF SendRejection, MessageType
  <2>2. CalleeType'
    BY <1>3, <1>e, <1>f DEF SendRejection
  <2>. QED  BY <1>3, <1>b, <1>c, <2>1, <2>2 DEF SendRejection
<1>4. CASE SendAcceptance(s)
  <2>1. QueueType'
    BY <1>4, AnswersTyped DEF SendAcceptance, MessageType
  <2>2. CalleeType'
    BY <1>4, <1>d, <1>f DEF SendAcceptance, CalleeSteps
  <2>. QED  BY <1>4, <1>b, <1>c, <2>1, <2>2 DEF SendAcceptance
<1>5. CASE SendAuthRequest(s)
  <2>1. QueueType'
    BY <1>5, AnswersTyped DEF SendAuthRequest, MessageType
  <2>2. CalleeType'
    BY <1>5, <1>d, <1>f DEF SendAuthRequest, CalleeSteps
  <2>. QED  BY <1>5, <1>b, <1>c, <2>1, <2>2 DEF SendAuthRequest
<1>6. CASE ReadPassword(s)
  <2>1. QueueType'
    BY <1>6, CalleeReadsTyped DEF ReadPassword
  <2>2. CalleeType'
    BY <1>6, <1>d DEF ReadPassword, CalleeSteps
  <2>. QED  BY <1>6, <1>b, <1>c, <2>1, <2>2 DEF ReadPassword
<1>7. CASE Verify(s)
  <2>1. CalleeType'
    BY <1>7, <1>d DEF Verify, CalleeSteps
  <2>2. verdict' \in [Sessions -> {"none", "rejected", "granted", "denied"}]
    BY <1>7, <1>c DEF Verify, Decide
  <2>. QED  BY <1>7, <1>a, <1>b, <2>1, <2>2 DEF Verify, QueueType
<1>8. CASE SendVerdict(s)
  <2>1. QueueType'
    BY <1>8, AnswersTyped DEF SendVerdict, MessageType
  <2>2. CalleeType'
    BY <1>8, <1>d, <1>e, <1>f DEF SendVerdict, CalleeSteps
  <2>. QED  BY <1>8, <1>b, <1>c, <2>1, <2>2 DEF SendVerdict
<1>9. CASE CalleeGivesUp(s)
  BY <1>9, <1>a, <1>b, <1>c, <1>e DEF CalleeGivesUp, QueueType
<1>. QED  BY <1>1, <1>2, <1>3, <1>4, <1>5, <1>6, <1>7, <1>8, <1>9 DEF CalleeStep

\* Setting the password of one update of a node leaves its type.
LEMMA UpdatingTyped ==
  ASSUME PasswordType, NEW n \in Nodes, NEW k \in 1..MaxUpdates,
         NEW v \in Raw \cup {NoOverride},
         updating' = [updating EXCEPT ![n][k] = v]
  PROVE  updating' \in [Nodes -> [1..MaxUpdates -> Raw \cup {NoOverride}]]
<1> DEFINE Pending == [1..MaxUpdates -> Raw \cup {NoOverride}]
<1>1. updating \in [Nodes -> Pending] /\ updating[n] \in Pending
  BY DEF PasswordType
<1>2. [updating[n] EXCEPT ![k] = v] \in Pending
  BY <1>1
<1>3. updating' = [updating EXCEPT ![n] = [updating[n] EXCEPT ![k] = v]]
  OBVIOUS
<1> HIDE DEF Pending
<1>4. updating' \in [Nodes -> Pending]
  BY <1>1, <1>2, <1>3
<1>. QED  BY <1>4 DEF Pending

\* The first write of update_shared_password leaves the types.
LEMMA UpdateAuthTyped ==
  ASSUME TypeOK, NEW n \in Nodes, NEW p \in Raw, UpdateAuth(n, p)
  PROVE  TypeOK'
<1>. USE DEF UpdateAuth, SessionsUnchanged, callerVars, calleeVars, wireVars
<1>0. PasswordType /\ updates \in Nat /\ updates + 1 \in 1..MaxUpdates
  BY SessionAssumption DEF TypeOK, PasswordType
<1>1. updates' \in 0..MaxUpdates
  BY <1>0
<1>2. auth' \in [Nodes -> {Norm[q] : q \in Raw}]
  BY DEF TypeOK, PasswordType
<1>3. updating' \in [Nodes -> [1..MaxUpdates -> Raw \cup {NoOverride}]]
  BY <1>0, UpdatingTyped
<1>4. held' \in [Sessions -> SUBSET {Norm[q] : q \in Raw}]
  <2>1. held \in [Sessions -> SUBSET {Norm[q] : q \in Raw}] /\ Norm[p] \in {Norm[q] : q \in Raw}
    BY DEF TypeOK, PasswordType
  <2>. QED  BY <2>1
<1>5. overlapped' \in [Nodes -> BOOLEAN]
  <2>1. overlapped \in [Nodes -> BOOLEAN] /\ (HalfDone(n) # {}) \in BOOLEAN
    BY DEF TypeOK, PasswordType
  <2>2. overlapped' = [overlapped EXCEPT ![n] = HalfDone(n) # {}]
    OBVIOUS
  <2>. QED  BY <2>1, <2>2, Updated, Zenon
<1>6. PasswordType'
  BY <1>1, <1>2, <1>3, <1>4, <1>5 DEF TypeOK, PasswordType
<1>7. ControlType' /\ ConnectionType'
  BY DEF TypeOK, ControlType, ConnectionType
<1>. QED  BY <1>6, <1>7 DEF TypeOK

\* Its second write leaves the types.
LEMMA UpdateAppTyped ==
  ASSUME TypeOK, NEW n \in Nodes, NEW k \in 1..MaxUpdates, UpdateApp(n, k)
  PROVE  TypeOK'
<1>1. updating' \in [Nodes -> [1..MaxUpdates -> Raw \cup {NoOverride}]]
  BY UpdatingTyped DEF UpdateApp, TypeOK
<1>2. app' \in [Nodes -> Raw]
  <2>1. updating[n][k] \in Raw
    <3>1. updating[n] \in [1..MaxUpdates -> Raw \cup {NoOverride}]
      BY DEF TypeOK, PasswordType
    <3>2. updating[n][k] # NoOverride
      BY DEF UpdateApp, HalfDone
    <3>. QED  BY <3>1, <3>2
  <2>2. app \in [Nodes -> Raw] /\ app' = [app EXCEPT ![n] = updating[n][k]]
    BY DEF UpdateApp, TypeOK, PasswordType
  <2>. QED  BY <2>1, <2>2
<1>3. PasswordType'
  BY <1>1, <1>2 DEF UpdateApp, TypeOK, PasswordType
<1>4. ControlType' /\ ConnectionType'
  BY DEF UpdateApp, SessionsUnchanged, callerVars, calleeVars, wireVars, TypeOK,
         ControlType, ConnectionType
<1>. QED  BY <1>3, <1>4 DEF TypeOK

\* Stopping the listener leaves the types.
LEMMA StopTyped ==
  ASSUME TypeOK, NEW n \in Nodes, StopListener(n)
  PROVE  TypeOK'
<1>. USE DEF StopListener, passwordVars, callerVars, calleeVars, wireVars, TypeOK
<1>1. serving' \in [Nodes -> BOOLEAN]
  <2>1. serving \in [Nodes -> BOOLEAN] /\ FALSE \in BOOLEAN
    BY DEF ControlType
  <2>2. serving' = [serving EXCEPT ![n] = FALSE]
    OBVIOUS
  <2>. QED  BY <2>1, <2>2, Updated
<1>. QED  BY <1>1 DEF PasswordType, ControlType, ConnectionType

\* A failure of the connection leaves the types.
LEMMA LinkTyped ==
  ASSUME TypeOK, NEW s \in Sessions, LinkFails(s)
  PROVE  TypeOK'
  BY DEF LinkFails, passwordVars, callerVars, calleeVars, TypeOK, PasswordType,
         ControlType, ConnectionType

\* Every step leaves the types.
LEMMA NextTyped == TypeOK /\ [Next]_vars => TypeOK'
<1>. SUFFICES ASSUME TypeOK, [Next]_vars PROVE TypeOK'
  OBVIOUS
<1>1. CASE UNCHANGED vars
  BY <1>1 DEF vars, passwordVars, callerVars, calleeVars, wireVars, TypeOK, PasswordType,
              ControlType, ConnectionType
<1>. QED  BY <1>1, CallerTyped, CalleeTyped, LinkTyped, UpdateAppTyped, StopTyped,
             UpdateAuthTyped DEF Next, Stutter

\* Every state is well typed.
THEOREM SessionTypes == Spec => []TypeOK
  BY InitTyped, NextTyped, PTL DEF Spec

-----------------------------------------------------------------------------
(* The two threads of a session are in step.                               *)

SessionInStep(s) == /\ callee[s] \in Reached(caller[s])
                    /\ Answers(s) /\ Requests(s) /\ Decided(s)

\* Nothing that SessionInStep reads has changed.
Untouched(s) == /\ caller'[s] = caller[s] /\ callee'[s] = callee[s]
                /\ toCaller'[s] = toCaller[s] /\ toCallee'[s] = toCallee[s]
                /\ verdict'[s] = verdict[s] /\ outcome'[s] = outcome[s]
                /\ lSock'[s] = lSock[s]

\* No session has begun, no message is in flight.
LEMMA InitInStep == Init => InStep
  BY DEF Init, InStep, Reached, Answers, Requests, Decided

\* A session whose control, queues and verdict stay remains in step.
LEMMA UntouchedInStep ==
  ASSUME NEW s \in Sessions, SessionInStep(s), Untouched(s)
  PROVE  SessionInStep(s)'
  BY DEF SessionInStep, Untouched, Reached, Answers, Requests, Decided, CalleeSteps

\* A step of one session leaves the others alone.
LEMMA CallerElsewhere ==
  ASSUME TypeOK, NEW s \in Sessions, NEW t \in Sessions, t # s, CallerStep(s)
  PROVE  Untouched(t)
<1>. USE DEF passwordVars, callerVars, calleeVars, wireVars, Untouched
<1>a. ASSUME NEW o, NEW k, CallerEnds(s, o, k)
      PROVE caller'[t] = caller[t] /\ outcome'[t] = outcome[t]
  BY <1>a DEF CallerEnds, TypeOK, ControlType
<1>b. ASSUME NEW k, CallerGoto(s, k)
      PROVE caller'[t] = caller[t] /\ outcome'[t] = outcome[t]
  BY <1>b DEF CallerGoto, TypeOK, ControlType
<1>c. ASSUME NEW m, CallerReads(s, m), UNCHANGED toCallee
      PROVE toCaller'[t] = toCaller[t] /\ toCallee'[t] = toCallee[t]
  BY <1>c DEF CallerReads, TypeOK, ConnectionType
<1>d. ASSUME NEW m, NEW k, CallerSends(s, m, k)
      PROVE /\ caller'[t] = caller[t] /\ outcome'[t] = outcome[t]
            /\ toCaller'[t] = toCaller[t] /\ toCallee'[t] = toCallee[t]
  BY <1>d, <1>a, <1>b DEF CallerSends, TypeOK, ConnectionType
<1>1. CASE StartSession(s)
  BY <1>1, <1>b DEF StartSession
<1>2. CASE Connect(s)
  BY <1>2, <1>a DEF Connect, TypeOK, ControlType
<1>3. CASE SendRequest(s)
  BY <1>3, <1>d DEF SendRequest, CallerOnly
<1>4. CASE ReadAnswer(s)
  BY <1>4, <1>a, <1>b, <1>c DEF ReadAnswer, CallerOnly
<1>5. CASE ReadAuthRequest(s)
  BY <1>5, <1>b, <1>c DEF ReadAuthRequest, CallerOnly
<1>6. CASE SendPassword(s)
  BY <1>6, <1>a, <1>d DEF SendPassword, CallerOnly
<1>7. CASE ReadVerdict(s)
  BY <1>7, <1>a, <1>c DEF ReadVerdict, CallerOnly
<1>8. CASE CallerGivesUp(s)
  BY <1>8, <1>a DEF CallerGivesUp, CallerOnly
<1>9. CASE CloseSocket(s)
  BY <1>9 DEF CloseSocket
<1>. QED  BY <1>1, <1>2, <1>3, <1>4, <1>5, <1>6, <1>7, <1>8, <1>9 DEF CallerStep

\* Nor does the listener's client thread of one session touch the others.
LEMMA CalleeElsewhere ==
  ASSUME TypeOK, NEW s \in Sessions, NEW t \in Sessions, t # s, CalleeStep(s)
  PROVE  Untouched(t)
<1>. USE DEF passwordVars, callerVars, calleeVars, wireVars, Untouched
<1>a. ASSUME CalleeEnds(s)
      PROVE callee'[t] = callee[t] /\ lSock'[t] = lSock[t]
  BY <1>a DEF CalleeEnds, TypeOK, ControlType, ConnectionType
<1>b. ASSUME NEW k, CalleeGoto(s, k)
      PROVE callee'[t] = callee[t] /\ lSock'[t] = lSock[t]
  BY <1>b DEF CalleeGoto, TypeOK, ControlType
<1>c. ASSUME NEW m, CalleeReads(s, m)
      PROVE toCaller'[t] = toCaller[t] /\ toCallee'[t] = toCallee[t]
  BY <1>c DEF CalleeReads, TypeOK, ConnectionType
<1>d. ASSUME NEW m, CalleeSends(s, m)
      PROVE toCaller'[t] = toCaller[t] /\ toCallee'[t] = toCallee[t]
  BY <1>d DEF CalleeSends, TypeOK, ConnectionType
<1>e. ASSUME SendFails(s)
      PROVE /\ callee'[t] = callee[t] /\ lSock'[t] = lSock[t]
            /\ toCaller'[t] = toCaller[t] /\ toCallee'[t] = toCallee[t]
  BY <1>e, <1>a DEF SendFails
<1>f. ASSUME NEW v, Decide(s, v)
      PROVE verdict'[t] = verdict[t]
  BY <1>f DEF Decide, TypeOK, ControlType
<1>1. CASE Accept(s)
  BY <1>1 DEF Accept, TypeOK, ControlType, ConnectionType
<1>2. CASE ReadRequest(s)
  BY <1>2, <1>b, <1>c, <1>f DEF ReadRequest, CalleeOnly
<1>3. CASE SendRejection(s)
  BY <1>3, <1>a, <1>d, <1>e DEF SendRejection, CalleeOnly
<1>4. CASE SendAcceptance(s)
  BY <1>4, <1>b, <1>d, <1>e DEF SendAcceptance, CalleeOnly
<1>5. CASE SendAuthRequest(s)
  BY <1>5, <1>b, <1>d, <1>e DEF SendAuthRequest, CalleeOnly
<1>6. CASE ReadPassword(s)
  BY <1>6, <1>b, <1>c DEF ReadPassword, CalleeOnly
<1>7. CASE Verify(s)
  BY <1>7, <1>b, <1>f DEF Verify, CalleeOnly
<1>8. CASE SendVerdict(s)
  BY <1>8, <1>a, <1>b, <1>d, <1>e DEF SendVerdict, CalleeOnly
<1>9. CASE CalleeGivesUp(s)
  BY <1>9, <1>a DEF CalleeGivesUp, CalleeOnly
<1>. QED  BY <1>1, <1>2, <1>3, <1>4, <1>5, <1>6, <1>7, <1>8, <1>9 DEF CalleeStep

\* A caller that ends is at a statement after which anything may be in flight.
LEMMA CallerEndsInStep ==
  ASSUME TypeOK, NEW s \in Sessions, SessionInStep(s), NEW o, NEW k,
         CallerEnds(s, o, k), UNCHANGED calleeVars, UNCHANGED toCallee
  PROVE  SessionInStep(s)'
<1>1. caller'[s] = "done"
  BY DEF CallerEnds, TypeOK, ControlType
<1>2. callee'[s] \in CalleeSteps /\ callee'[s] = callee[s] /\ verdict'[s] = verdict[s]
      /\ lSock'[s] = lSock[s] /\ toCallee'[s] = toCallee[s]
  BY DEF calleeVars, TypeOK, ControlType
<1>3. Reached(caller[s])' = CalleeSteps
  BY <1>1 DEF Reached
<1>4. Answers(s)'
  BY <1>1 DEF Answers
<1>5. Requests(s)'
  BY <1>1, <1>2 DEF Requests, SessionInStep
<1>6. Decided(s)'
  BY <1>1, <1>2 DEF Decided, SessionInStep
<1>. QED  BY <1>2, <1>3, <1>4, <1>5, <1>6 DEF SessionInStep

\* A second message is written behind the first.
LEMMA AppendToOne ==
  ASSUME NEW S, NEW a \in S, NEW b \in S
  PROVE  Append(<<a>>, b) = <<a, b>>
<1>1. <<a>> \in Seq(S) /\ Len(<<a>>) = 1 /\ <<a>>[1] = a
  OBVIOUS
<1>2. <<a, b>> \in Seq(S) /\ Len(<<a, b>>) = 2 /\ <<a, b>>[1] = a /\ <<a, b>>[2] = b
  OBVIOUS
<1>3. Append(<<a>>, b) \in Seq(S) /\ Len(Append(<<a>>, b)) = 2
  BY <1>1
<1>4. \A i \in 1..2 : Append(<<a>>, b)[i] = <<a, b>>[i]
  BY <1>1, <1>2
<1>. QED  BY <1>2, <1>3, <1>4, SeqEqual

\* A step of the caller thread leaves its session in step.
LEMMA CallerInStep ==
  ASSUME TypeOK, NEW s \in Sessions, SessionInStep(s), CallerStep(s)
  PROVE  SessionInStep(s)'
<1>. USE DEF passwordVars, callerVars, calleeVars, wireVars
<1>a. /\ toCallee \in [Sessions -> Seq(MessageType)]
      /\ toCaller \in [Sessions -> Seq(MessageType)]
      /\ caller \in [Sessions -> CallerSteps] /\ callee \in [Sessions -> CalleeSteps]
  BY DEF TypeOK, ControlType, ConnectionType
<1>1. CASE StartSession(s)
  <2>1. caller[s] = "idle" /\ caller'[s] = "connect"
    BY <1>1, <1>a DEF StartSession, CallerAt, CallerGoto
  <2>. QED  BY <1>1, <2>1 DEF StartSession, CallerGoto, SessionInStep, Reached, Answers,
               Requests, Decided
<1>2. CASE Connect(s)
  <2>1. CASE CallerEnds(s, "error", "none") /\ UNCHANGED callee
    BY <1>2, <2>1, CallerEndsInStep DEF Connect
  <2>2. CASE /\ caller' = [caller EXCEPT ![s] = "request"]
             /\ callee' = [callee EXCEPT ![s] = "backlog"] /\ UNCHANGED outcome
    <3>1. caller[s] = "connect" /\ caller'[s] = "request" /\ callee'[s] = "backlog"
      BY <1>2, <1>a, <2>2 DEF Connect, CallerAt
    <3>2. callee[s] = "none"
      BY <3>1 DEF SessionInStep, Reached
    <3>. QED  BY <1>2, <2>2, <3>1, <3>2 DEF Connect, SessionInStep, Reached, Answers,
                 Requests, Decided
  <2>. QED  BY <1>2, <2>1, <2>2 DEF Connect
<1>3. CASE SendRequest(s)
  <2>1. CASE CallerEnds(s, "error", "dropped") /\ UNCHANGED toCallee
    BY <1>3, <2>1, CallerEndsInStep DEF SendRequest, CallerOnly
  <2>2. CASE /\ toCallee' = [toCallee EXCEPT ![s] = Append(@, "SESSION_REQUEST")]
             /\ CallerGoto(s, "answer")
    <3>1. caller[s] = "request" /\ caller'[s] = "answer"
      BY <1>3, <1>a, <2>2 DEF SendRequest, CallerAt, CallerGoto
    <3>2. toCallee[s] = <<>> /\ toCaller[s] = <<>>
      BY <3>1 DEF SessionInStep, Requests, Answers
    <3>3. toCallee'[s] = <<"SESSION_REQUEST">>
      BY <2>2, <1>a, <3>2
    <3>4. callee[s] \in {"backlog", "request", "done"}
      BY <3>1 DEF SessionInStep, Reached
    <3>. QED  BY <1>3, <2>2, <3>1, <3>2, <3>3, <3>4 DEF SendRequest, CallerOnly, CallerSends,
                 CallerGoto, SessionInStep, Reached, Answers, Requests, Decided
  <2>. QED  BY <1>3, <2>1, <2>2 DEF SendRequest, CallerSends
<1>4. CASE ReadAnswer(s)
  <2>1. CASE CallerEnds(s, "rejected", "closed")
    BY <1>4, <2>1, CallerEndsInStep DEF ReadAnswer, CallerOnly
  <2>2. CASE CallerReads(s, "SESSION_ACCEPTED") /\ CallerGoto(s, "authRequest")
    <3>1. caller[s] = "answer" /\ caller'[s] = "authRequest"
      BY <1>4, <1>a, <2>2 DEF ReadAnswer, CallerAt, CallerGoto
    <3>2. toCaller'[s] = Tail(toCaller[s]) /\ Head(toCaller[s]) = "SESSION_ACCEPTED"
          /\ toCaller[s] # <<>>
      BY <1>a, <2>2 DEF CallerReads
    <3>3. toCaller[s] \in {<<"SESSION_ACCEPTED">>, <<"SESSION_ACCEPTED", "AUTH_REQUEST">>}
      BY <3>1, <3>2 DEF SessionInStep, Answers
    <3>4. \/ toCaller[s] = <<"SESSION_ACCEPTED">> /\ toCaller'[s] = <<>>
          \/ toCaller[s] = <<"SESSION_ACCEPTED", "AUTH_REQUEST">>
             /\ toCaller'[s] = <<"AUTH_REQUEST">>
      <4>1. Tail(<<"SESSION_ACCEPTED">>) = <<>>
        OBVIOUS
      <4>2. Tail(<<"SESSION_ACCEPTED", "AUTH_REQUEST">>) = <<"AUTH_REQUEST">>
        OBVIOUS
      <4>. QED  BY <3>2, <3>3, <4>1, <4>2
    <3>5. callee[s] \in {"askPassword", "password", "done"}
      BY <3>1, <3>3 DEF SessionInStep, Reached, Answers
    <3>6. callee'[s] = callee[s] /\ toCallee'[s] = toCallee[s] /\ verdict'[s] = verdict[s]
          /\ lSock'[s] = lSock[s] /\ outcome'[s] = outcome[s]
      BY <1>4, <2>2 DEF ReadAnswer, CallerOnly, CallerGoto
    <3>7. Answers(s)'
      <4>1. callee[s] = "askPassword" => toCaller'[s] = <<>>
        BY <3>1, <3>4 DEF SessionInStep, Answers
      <4>2. callee[s] = "password" => toCaller'[s] = <<"AUTH_REQUEST">>
        BY <3>1, <3>4 DEF SessionInStep, Answers
      <4>3. toCaller'[s] \in {<<>>, <<"AUTH_REQUEST">>}
        BY <3>4
      <4>. QED  BY <3>1, <3>6, <4>1, <4>2, <4>3 DEF Answers
    <3>8. Requests(s)'
      BY <3>1, <3>5, <3>6 DEF SessionInStep, Requests
    <3>. QED  BY <3>1, <3>5, <3>6, <3>7, <3>8 DEF SessionInStep, Reached, Decided
  <2>. QED  BY <1>4, <2>1, <2>2 DEF ReadAnswer
<1>5. CASE ReadAuthRequest(s)
  <2>1. caller[s] = "authRequest" /\ caller'[s] = "respond"
    BY <1>5, <1>a DEF ReadAuthRequest, CallerAt, CallerGoto
  <2>2. toCaller'[s] = Tail(toCaller[s]) /\ toCaller[s] # <<>>
    BY <1>5, <1>a DEF ReadAuthRequest, CallerReads
  <2>3. toCaller[s] = <<"AUTH_REQUEST">>
    BY <2>1, <2>2 DEF SessionInStep, Answers
  <2>4. toCaller'[s] = <<>>
    BY <2>2, <2>3
  <2>5. callee[s] \in {"password", "done"}
    BY <2>1, <2>3 DEF SessionInStep, Reached, Answers
  <2>. QED  BY <1>5, <2>1, <2>4, <2>5 DEF ReadAuthRequest, CallerOnly, CallerGoto,
               SessionInStep, Reached, Answers, Requests, Decided
<1>6. CASE SendPassword(s)
  <2>1. CASE CallerEnds(s, "error", "dropped") /\ UNCHANGED toCallee
    BY <1>6, <2>1, CallerEndsInStep DEF SendPassword, CallerOnly
  <2>2. CASE /\ toCallee' = [toCallee EXCEPT ![s] = Append(@, "AUTH_RESPONSE")]
             /\ CallerGoto(s, "final") /\ UNCHANGED toCaller
    <3>1. caller[s] = "respond" /\ caller'[s] = "final"
      BY <1>6, <1>a, <2>2 DEF SendPassword, CallerAt, CallerGoto
    <3>2. toCaller[s] = <<>> /\ callee[s] \in {"password", "done"}
      BY <3>1 DEF SessionInStep, Reached, Answers
    <3>3. CASE callee[s] = "password"
      <4>1. toCallee[s] = <<>>
        BY <3>1, <3>3 DEF SessionInStep, Requests
      <4>2. toCallee'[s] = <<"AUTH_RESPONSE">>
        BY <2>2, <1>a, <4>1
      <4>. QED  BY <1>6, <2>2, <3>1, <3>2, <3>3, <4>2 DEF SendPassword, CallerOnly,
                   CallerGoto, SessionInStep, Reached, Answers, Requests, Decided
    <3>4. CASE callee[s] = "done"
      BY <1>6, <2>2, <3>1, <3>2, <3>4 DEF SendPassword, CallerOnly,
         CallerGoto, SessionInStep, Reached, Answers, Requests, Decided
    <3>. QED  BY <3>2, <3>3, <3>4
  <2>. QED  BY <1>6, <2>1, <2>2 DEF SendPassword, CallerSends
<1>7. CASE ReadVerdict(s)
  BY <1>7, CallerEndsInStep DEF ReadVerdict, CallerOnly
<1>8. CASE CallerGivesUp(s)
  BY <1>8, CallerEndsInStep DEF CallerGivesUp, CallerOnly
<1>9. CASE CloseSocket(s)
  BY <1>9, UntouchedInStep DEF CloseSocket, Untouched
<1>. QED  BY <1>1, <1>2, <1>3, <1>4, <1>5, <1>6, <1>7, <1>8, <1>9 DEF CallerStep

\* The client thread ends without having written or read anything.
LEMMA CalleeEndsInStep ==
  ASSUME TypeOK, NEW s \in Sessions, SessionInStep(s), callee[s] # "none",
         CalleeEnds(s), UNCHANGED <<callerVars, verdict, toCallee, toCaller>>
  PROVE  SessionInStep(s)'
<1>1. callee'[s] = "done" /\ lSock'[s] = "closed"
  BY DEF CalleeEnds, TypeOK, ControlType, ConnectionType
<1>2. /\ caller'[s] = caller[s] /\ verdict'[s] = verdict[s] /\ outcome'[s] = outcome[s]
      /\ toCaller'[s] = toCaller[s] /\ toCallee'[s] = toCallee[s]
  BY DEF callerVars
<1>3. "done" \in Reached(caller[s])'
  BY <1>2 DEF SessionInStep, Reached, CalleeSteps
<1>4. Answers(s)'
  BY <1>1, <1>2 DEF SessionInStep, Answers
<1>5. Requests(s)'
  BY <1>1, <1>2 DEF SessionInStep, Requests
<1>6. Decided(s)'
  BY <1>1, <1>2 DEF SessionInStep, Decided
<1>. QED  BY <1>1, <1>3, <1>4, <1>5, <1>6 DEF SessionInStep

\* A step of _handle_client leaves its session in step.
LEMMA CalleeInStep ==
  ASSUME TypeOK, NEW s \in Sessions, SessionInStep(s), CalleeStep(s)
  PROVE  SessionInStep(s)'
<1>. USE DEF passwordVars, callerVars, calleeVars, wireVars
<1>a. /\ toCallee \in [Sessions -> Seq(MessageType)]
      /\ toCaller \in [Sessions -> Seq(MessageType)]
      /\ callee \in [Sessions -> CalleeSteps]
      /\ verdict \in [Sessions -> {"none", "rejected", "granted", "denied"}]
      /\ lSock \in [Sessions -> {"none", "open", "closed"}]
  BY DEF TypeOK, ControlType, ConnectionType
<1>b. ASSUME SendFails(s), callee[s] # "none", CalleeOnly, UNCHANGED verdict
      PROVE  SessionInStep(s)'
  BY <1>b, CalleeEndsInStep DEF SendFails, CalleeOnly
<1>c. ASSUME NEW m, CalleeSends(s, m), toCaller[s] = <<>>
      PROVE  toCaller'[s] = <<m>> /\ toCallee'[s] = toCallee[s]
  BY <1>a, <1>c DEF CalleeSends
<1>d. ASSUME NEW k, CalleeGoto(s, k)
      PROVE  callee'[s] = k /\ lSock'[s] = lSock[s]
  BY <1>a, <1>d DEF CalleeGoto
<1>e. ASSUME CalleeEnds(s)
      PROVE  callee'[s] = "done" /\ lSock'[s] = "closed"
  BY <1>a, <1>e DEF CalleeEnds
<1>f. ASSUME CalleeOnly
      PROVE  caller'[s] = caller[s] /\ outcome'[s] = outcome[s]
  BY <1>f DEF CalleeOnly
<1>1. CASE Accept(s)
  <2>1. /\ callee[s] = "backlog" /\ UNCHANGED <<callerVars, verdict, toCallee, toCaller>>
        /\ \/ callee'[s] = "request" /\ lSock'[s] = "open"
           \/ callee'[s] = "done" /\ lSock'[s] = lSock[s]
    BY <1>1, <1>a DEF Accept, CalleeAt
  <2>2. caller[s] \in {"request", "answer"} \/ Reached(caller[s]) = CalleeSteps
    BY <2>1 DEF SessionInStep, Reached
  <2>. QED  BY <2>1, <2>2 DEF SessionInStep, Reached, Answers, Requests, Decided, CalleeSteps
<1>2. CASE ReadRequest(s)
  <2>1. PICK d \in Decisions : /\ CalleeGoto(s, d)
                               /\ IF d = "reject" THEN Decide(s, "rejected")
                                  ELSE UNCHANGED verdict
    BY <1>2 DEF ReadRequest
  <2>2. callee[s] = "request" /\ callee'[s] = d /\ d \in {"accept", "reject"}
    BY <1>2, <1>d, <2>1, SessionAssumption DEF ReadRequest, CalleeAt
  <2>3. verdict'[s] = IF d = "reject" THEN "rejected" ELSE "none"
    BY <1>a, <2>1, <2>2 DEF Decide, SessionInStep, Decided
  <2>4. /\ toCallee[s] # <<>> /\ toCallee'[s] = Tail(toCallee[s])
        /\ toCaller'[s] = toCaller[s]
    BY <1>2, <1>a DEF ReadRequest, CalleeReads
  <2>5. toCallee[s] = <<"SESSION_REQUEST">>
    BY <2>2, <2>4 DEF SessionInStep, Requests
  <2>6. toCallee'[s] = <<>>
    BY <2>4, <2>5
  <2>7. caller[s] \in {"answer", "done"}
    BY <2>2, <2>5 DEF SessionInStep, Reached, Requests, TypeOK, ControlType, CallerSteps
  <2>8. caller'[s] = caller[s] /\ outcome'[s] = outcome[s] /\ lSock'[s] = lSock[s]
    BY <1>2, <1>f, <1>d, <2>1 DEF ReadRequest
  <2>9. Answers(s)'
    <3>1. caller[s] = "answer" => toCaller[s] = <<>>
      BY <2>2 DEF SessionInStep, Answers
    <3>. QED  BY <2>2, <2>4, <2>7, <2>8, <3>1 DEF Answers
  <2>10. Requests(s)' /\ Decided(s)'
    BY <2>2, <2>3, <2>6, <2>8 DEF SessionInStep, Requests, Decided
  <2>. QED  BY <2>2, <2>7, <2>8, <2>9, <2>10 DEF SessionInStep, Reached, CalleeSteps
<1>3. CASE SendRejection(s)
  <2>1. callee[s] = "reject" /\ verdict[s] = "rejected" /\ toCallee[s] = <<>>
    BY <1>3 DEF SendRejection, CalleeAt, SessionInStep, Decided, Requests
  <2>2. CASE SendFails(s)
    BY <1>3, <1>b, <2>1, <2>2 DEF SendRejection
  <2>3. CASE CalleeSends(s, "SESSION_REJECTED") /\ CalleeEnds(s)
    <3>1. /\ caller'[s] = caller[s] /\ outcome'[s] = outcome[s]
          /\ verdict'[s] = "rejected" /\ callee'[s] = "done" /\ lSock'[s] = "closed"
          /\ toCallee'[s] = <<>>
      BY <1>3, <1>e, <1>f, <2>1, <2>3 DEF SendRejection, CalleeSends
    <3>2. Answers(s)' /\ caller[s] \in {"answer", "done"}
      <4>1. caller[s] \in {"answer", "done"}
        BY <2>1 DEF SessionInStep, Reached, TypeOK, ControlType, CallerSteps
      <4>2. CASE caller[s] = "answer"
        <5>1. toCaller[s] = <<>>
          BY <2>1, <4>2 DEF SessionInStep, Answers
        <5>. QED  BY <1>c, <2>3, <3>1, <4>2, <5>1 DEF Answers
      <4>3. CASE caller[s] = "done"
        BY <3>1, <4>3 DEF Answers
      <4>. QED  BY <4>1, <4>2, <4>3
    <3>. QED  BY <3>1, <3>2 DEF SessionInStep, Reached, Requests, Decided, CalleeSteps
  <2>. QED  BY <1>3, <2>2, <2>3 DEF SendRejection
<1>4. CASE SendAcceptance(s)
  <2>1. callee[s] = "accept" /\ verdict[s] = "none" /\ toCallee[s] = <<>>
    BY <1>4 DEF SendAcceptance, CalleeAt, SessionInStep, Decided, Requests
  <2>2. CASE SendFails(s)
    BY <1>4, <1>b, <2>1, <2>2 DEF SendAcceptance
  <2>3. CASE CalleeSends(s, "SESSION_ACCEPTED") /\ CalleeGoto(s, "askPassword")
    <3>1. /\ caller'[s] = caller[s] /\ outcome'[s] = outcome[s]
          /\ verdict'[s] = "none" /\ callee'[s] = "askPassword" /\ lSock'[s] = lSock[s]
          /\ toCallee'[s] = <<>>
      BY <1>4, <1>d, <1>f, <2>1, <2>3 DEF SendAcceptance, CalleeSends
    <3>2. Answers(s)' /\ caller[s] \in {"answer", "done"}
      <4>1. caller[s] \in {"answer", "done"}
        BY <2>1 DEF SessionInStep, Reached, TypeOK, ControlType, CallerSteps
      <4>2. CASE caller[s] = "answer"
        <5>1. toCaller[s] = <<>>
          BY <2>1, <4>2 DEF SessionInStep, Answers
        <5>2. toCaller'[s] = <<"SESSION_ACCEPTED">>
          BY <1>c, <2>3, <5>1
        <5>3. <<"SESSION_ACCEPTED">> # <<"SESSION_REJECTED">>
          OBVIOUS
        <5>. QED  BY <3>1, <4>2, <5>2, <5>3 DEF Answers
      <4>3. CASE caller[s] = "done"
        BY <3>1, <4>3 DEF Answers
      <4>. QED  BY <4>1, <4>2, <4>3
    <3>. QED  BY <2>1, <3>1, <3>2 DEF SessionInStep, Reached, Requests, Decided, CalleeSteps
  <2>. QED  BY <1>4, <2>2, <2>3 DEF SendAcceptance
<1>5. CASE SendAuthRequest(s)
  <2>1. callee[s] = "askPassword" /\ verdict[s] = "none" /\ toCallee[s] = <<>>
    BY <1>5 DEF SendAuthRequest, CalleeAt, SessionInStep, Decided, Requests
  <2>2. CASE SendFails(s)
    BY <1>5, <1>b, <2>1, <2>2 DEF SendAuthRequest
  <2>3. CASE CalleeSends(s, "AUTH_REQUEST") /\ CalleeGoto(s, "password")
    <3>1. /\ caller'[s] = caller[s] /\ outcome'[s] = outcome[s]
          /\ verdict'[s] = "none" /\ callee'[s] = "password" /\ lSock'[s] = lSock[s]
          /\ toCallee'[s] = <<>>
      BY <1>5, <1>d, <1>f, <2>1, <2>3 DEF SendAuthRequest, CalleeSends
    <3>2. caller[s] \in {"answer", "authRequest", "done"}
      BY <2>1 DEF SessionInStep, Reached, TypeOK, ControlType, CallerSteps
    <3>3. Answers(s)'
      <4>1. CASE caller[s] = "answer"
        <5>1. toCaller[s] = <<"SESSION_ACCEPTED">>
          BY <2>1, <4>1 DEF SessionInStep, Answers
        <5>2. Append(<<"SESSION_ACCEPTED">>, "AUTH_REQUEST")
                = <<"SESSION_ACCEPTED", "AUTH_REQUEST">>
          <6>1. "SESSION_ACCEPTED" \in MessageType /\ "AUTH_REQUEST" \in MessageType
            BY DEF MessageType
          <6>. QED  BY <6>1, AppendToOne
        <5>3. toCaller'[s] = <<"SESSION_ACCEPTED", "AUTH_REQUEST">>
          BY <1>a, <2>3, <5>1, <5>2 DEF CalleeSends
        <5>. QED  BY <3>1, <4>1, <5>3 DEF Answers
      <4>2. CASE caller[s] = "authRequest"
        <5>1. toCaller[s] = <<>>
          BY <2>1, <4>2 DEF SessionInStep, Answers
        <5>. QED  BY <1>c, <2>3, <3>1, <4>2, <5>1 DEF Answers
      <4>3. CASE caller[s] = "done"
        BY <3>1, <4>3 DEF Answers
      <4>. QED  BY <3>2, <4>1, <4>2, <4>3
    <3>. QED  BY <2>1, <3>1, <3>2, <3>3 DEF SessionInStep, Reached, Requests, Decided, CalleeSteps
  <2>. QED  BY <1>5, <2>2, <2>3 DEF SendAuthRequest
<1>6. CASE ReadPassword(s)
  <2>1. callee[s] = "password" /\ verdict[s] = "none"
    BY <1>6 DEF ReadPassword, CalleeAt, SessionInStep, Decided
  <2>2. /\ toCallee[s] # <<>> /\ toCallee'[s] = Tail(toCallee[s])
        /\ toCaller'[s] = toCaller[s]
    BY <1>6, <1>a DEF ReadPassword, CalleeReads
  <2>3. toCallee[s] = <<"AUTH_RESPONSE">>
    BY <2>1, <2>2 DEF SessionInStep, Requests
  <2>4. toCallee'[s] = <<>>
    BY <2>2, <2>3
  <2>5. caller[s] \in {"final", "done"}
    BY <2>1, <2>3 DEF SessionInStep, Reached, Requests, TypeOK, ControlType, CallerSteps
  <2>6. /\ caller'[s] = caller[s] /\ outcome'[s] = outcome[s] /\ lSock'[s] = lSock[s]
        /\ callee'[s] = "verify" /\ verdict'[s] = "none"
    BY <1>6, <1>f, <1>d, <2>1 DEF ReadPassword
  <2>7. Answers(s)'
    BY <2>1, <2>2, <2>5, <2>6 DEF SessionInStep, Answers
  <2>. QED  BY <2>1, <2>4, <2>5, <2>6, <2>7 DEF SessionInStep, Reached, Requests,
               Decided, CalleeSteps
<1>7. CASE Verify(s)
  <2>1. /\ callee[s] = "verify" /\ toCallee[s] = <<>>
        /\ caller'[s] = caller[s] /\ outcome'[s] = outcome[s] /\ lSock'[s] = lSock[s]
        /\ toCaller'[s] = toCaller[s] /\ toCallee'[s] = toCallee[s]
    BY <1>7, <1>f DEF Verify, CalleeAt, CalleeGoto, SessionInStep, Requests
  <2>2. \/ verdict'[s] = "granted" /\ callee'[s] = "grant"
        \/ verdict'[s] = "denied" /\ callee'[s] = "deny"
    BY <1>7, <1>a, <1>d DEF Verify, Decide
  <2>3. caller[s] \in {"final", "done"}
    BY <2>1 DEF SessionInStep, Reached, TypeOK, ControlType, CallerSteps
  <2>4. Answers(s)'
    BY <2>1, <2>2, <2>3 DEF SessionInStep, Answers
  <2>. QED  BY <2>1, <2>2, <2>3, <2>4 DEF SessionInStep, Reached, Requests, Decided,
               CalleeSteps
<1>8. CASE SendVerdict(s)
  <2>1. CASE callee[s] \in {"grant", "deny"} /\ SendFails(s)
    BY <1>8, <1>b, <2>1 DEF SendVerdict
  <2>2. ASSUME callee[s] \in {"grant", "deny"}
        PROVE  caller[s] \in {"final", "done"} /\ toCallee[s] = <<>>
    BY <2>2 DEF SessionInStep, Reached, Requests, TypeOK, ControlType, CallerSteps
  <2>3. ASSUME callee[s] \in {"grant", "deny"}, caller[s] = "final"
        PROVE  toCaller[s] = <<>>
    BY <2>3 DEF SessionInStep, Answers
  <2>4. CASE CalleeAt(s, "grant") /\ CalleeSends(s, "AUTH_SUCCESS") /\ CalleeGoto(s, "stream")
    <3>1. /\ callee[s] = "grant" /\ verdict[s] = "granted" /\ verdict'[s] = "granted"
          /\ caller'[s] = caller[s] /\ outcome'[s] = outcome[s]
          /\ callee'[s] = "stream" /\ lSock'[s] = lSock[s] /\ toCallee'[s] = toCallee[s]
      BY <1>8, <1>d, <1>f, <2>4 DEF SendVerdict, CalleeAt, CalleeSends, SessionInStep, Decided
    <3>2. CASE caller[s] = "final"
      <4>1. toCaller'[s] = <<"AUTH_SUCCESS">>
        BY <1>c, <2>3, <2>4, <3>1, <3>2
      <4>. QED  BY <2>2, <3>1, <3>2, <4>1 DEF SessionInStep, Reached, Answers, Requests,
                   Decided
    <3>3. CASE caller[s] = "done"
      BY <2>2, <3>1, <3>3 DEF SessionInStep, Reached, Answers, Requests, Decided,
         CalleeSteps
    <3>. QED  BY <2>2, <3>1, <3>2, <3>3
  <2>5. CASE CalleeAt(s, "deny") /\ CalleeSends(s, "AUTH_FAILED") /\ CalleeEnds(s)
    <3>1. /\ callee[s] = "deny" /\ verdict[s] = "denied" /\ verdict'[s] = "denied"
          /\ caller'[s] = caller[s] /\ outcome'[s] = outcome[s]
          /\ callee'[s] = "done" /\ lSock'[s] = "closed" /\ toCallee'[s] = toCallee[s]
      BY <1>8, <1>e, <1>f, <2>5 DEF SendVerdict, CalleeAt, CalleeSends, SessionInStep, Decided
    <3>2. CASE caller[s] = "final"
      <4>1. toCaller'[s] = <<"AUTH_FAILED">>
        BY <1>c, <2>3, <2>5, <3>1, <3>2
      <4>. QED  BY <2>2, <3>1, <3>2, <4>1 DEF SessionInStep, Reached, Answers, Requests,
                   Decided
    <3>3. CASE caller[s] = "done"
      BY <2>2, <3>1, <3>3 DEF SessionInStep, Reached, Answers, Requests, Decided,
         CalleeSteps
    <3>. QED  BY <2>2, <3>1, <3>2, <3>3
  <2>. QED  BY <1>8, <2>1, <2>4, <2>5 DEF SendVerdict
<1>9. CASE CalleeGivesUp(s)
  BY <1>9, CalleeEndsInStep DEF CalleeGivesUp, CalleeWaits, CalleeOnly
<1>. QED  BY <1>1, <1>2, <1>3, <1>4, <1>5, <1>6, <1>7, <1>8, <1>9 DEF CalleeStep

\* Every step leaves every session in step.
LEMMA NextInStep ==
  ASSUME TypeOK, InStep, [Next]_vars
  PROVE  InStep'
<1>. USE DEF passwordVars, callerVars, calleeVars, wireVars
<1>1. SUFFICES ASSUME NEW t \in Sessions PROVE SessionInStep(t)'
  BY DEF InStep, SessionInStep
<1>2. SessionInStep(t)
  BY DEF InStep, SessionInStep
<1>3. ASSUME NEW s \in Sessions, CallerStep(s) PROVE SessionInStep(t)'
  BY <1>2, <1>3, CallerInStep, CallerElsewhere, UntouchedInStep
<1>4. ASSUME NEW s \in Sessions, CalleeStep(s) PROVE SessionInStep(t)'
  BY <1>2, <1>4, CalleeInStep, CalleeElsewhere, UntouchedInStep
<1>5. ASSUME UNCHANGED <<callerVars, calleeVars, toCallee, toCaller>>
      PROVE  SessionInStep(t)'
  BY <1>2, <1>5, UntouchedInStep DEF Untouched
<1>6. ASSUME NEW s \in Sessions, LinkFails(s) PROVE SessionInStep(t)'
  BY <1>5, <1>6 DEF LinkFails
<1>7. ASSUME NEW n \in Nodes,
             StopListener(n) \/ \E k \in 1..MaxUpdates : UpdateApp(n, k)
      PROVE  SessionInStep(t)'
  BY <1>5, <1>7 DEF UpdateApp, StopListener, SessionsUnchanged
<1>8. ASSUME NEW n \in Nodes, NEW p \in Raw, UpdateAuth(n, p)
      PROVE  SessionInStep(t)'
  BY <1>5, <1>8 DEF UpdateAuth, SessionsUnchanged
<1>9. CASE UNCHANGED vars
  BY <1>5, <1>9 DEF vars
<1>. QED  BY <1>3, <1>4, <1>6, <1>7, <1>8, <1>9 DEF Next, Stutter

-----------------------------------------------------------------------------
(* Passwords.                                                              *)

PasswordInv == Copies /\ HeldNow /\ VerdictIsGenuine /\ CopiesAgree

\* At first the two copies of each password agree and nothing is decided.
LEMMA InitPasswords == Init => PasswordInv
<1>. SUFFICES ASSUME Init PROVE PasswordInv
  OBVIOUS
<1>1. Copies /\ HeldNow /\ VerdictIsGenuine
  BY DEF Init, Copies, HalfDone, HeldNow, VerdictIsGenuine
<1>2. CopiesAgree
  BY SessionAssumption, PasswordAssumption DEF Init, CopiesAgree
<1>. QED  BY <1>1, <1>2 DEF PasswordInv

\* No password is touched, nothing is decided, no call begins.
LEMMA PasswordsRest ==
  ASSUME PasswordInv, UNCHANGED <<auth, app, updates, updating, overlapped, held, presented, verdict>>,
         \A s \in Sessions : caller[s] = "idle" <=> caller'[s] = "idle"
  PROVE  PasswordInv'
  BY DEF PasswordInv, Copies, HalfDone, HeldNow, VerdictIsGenuine, CopiesAgree

\* A call that begins presents a password and records the callee's.
LEMMA StartKeepsPasswords ==
  ASSUME TypeOK, InStep, PasswordInv, NEW s \in Sessions, StartSession(s)
  PROVE  PasswordInv'
<1>1. /\ UNCHANGED <<auth, app, updates, updating, overlapped, verdict>>
      /\ caller[s] = "idle" /\ caller'[s] = "connect"
      /\ held'[s] = {auth[Callee[s]]}
      /\ \A t \in Sessions \ {s} : /\ caller'[t] = caller[t] /\ held'[t] = held[t]
                                   /\ presented'[t] = presented[t]
  BY DEF StartSession, CallerAt, CallerGoto, TypeOK, PasswordType, ControlType, calleeVars
<1>2. verdict[s] = "none"
  BY <1>1 DEF PasswordInv, HeldNow
<1>. QED  BY <1>1, <1>2 DEF PasswordInv, Copies, HalfDone, HeldNow, VerdictIsGenuine,
             CopiesAgree

\* The rest of a call touches no password.
LEMMA CallerKeepsPasswords ==
  ASSUME TypeOK, PasswordInv, NEW s \in Sessions, CallerStep(s), ~StartSession(s)
  PROVE  PasswordInv'
<1>. USE DEF passwordVars, callerVars, calleeVars
<1>a. caller \in [Sessions -> CallerSteps]
  BY DEF TypeOK, ControlType
<1>b. ASSUME NEW o, NEW k, CallerEnds(s, o, k), caller[s] # "idle"
      PROVE  \A t \in Sessions : caller[t] = "idle" <=> caller'[t] = "idle"
  BY <1>a, <1>b DEF CallerEnds
<1>c. ASSUME NEW k, CallerGoto(s, k), caller[s] # "idle", k # "idle"
      PROVE  \A t \in Sessions : caller[t] = "idle" <=> caller'[t] = "idle"
  BY <1>a, <1>c DEF CallerGoto
<1>1. CASE CallerOnly
  <2>1. \A t \in Sessions : caller[t] = "idle" <=> caller'[t] = "idle"
    <3>1. CASE SendRequest(s)
      BY <3>1, <1>b, <1>c DEF SendRequest, CallerSends, CallerAt
    <3>2. CASE ReadAnswer(s)
      BY <3>2, <1>b, <1>c DEF ReadAnswer, CallerAt
    <3>3. CASE ReadAuthRequest(s)
      BY <3>3, <1>c DEF ReadAuthRequest, CallerAt
    <3>4. CASE SendPassword(s)
      BY <3>4, <1>b, <1>c DEF SendPassword, CallerSends, CallerAt
    <3>5. CASE ReadVerdict(s)
      BY <3>5, <1>b DEF ReadVerdict, CallerAt
    <3>6. CASE CallerGivesUp(s)
      BY <3>6, <1>b DEF CallerGivesUp, CallerWaits
    <3>7. CASE Connect(s)
      BY <3>7, <1>a, <1>b DEF Connect, CallerAt
    <3>8. CASE CloseSocket(s)
      BY <3>8 DEF CloseSocket
    <3>. QED  BY <3>1, <3>2, <3>3, <3>4, <3>5, <3>6, <3>7, <3>8 DEF CallerStep
  <2>. QED  BY <1>1, <2>1, PasswordsRest DEF CallerOnly
<1>2. CASE Connect(s)
  <2>1. \A t \in Sessions : caller[t] = "idle" <=> caller'[t] = "idle"
    BY <1>2, <1>a, <1>b DEF Connect, CallerAt
  <2>. QED  BY <1>2, <2>1, PasswordsRest DEF Connect
<1>3. CASE CloseSocket(s)
  BY <1>3, PasswordsRest DEF CloseSocket
<1>. QED  BY <1>1, <1>2, <1>3 DEF CallerStep, SendRequest, ReadAnswer, ReadAuthRequest,
             SendPassword, ReadVerdict, CallerGivesUp

\* AuthManager.verify_password decides by a password the callee holds now.
LEMMA VerifyKeepsPasswords ==
  ASSUME TypeOK, InStep, PasswordInv, NEW s \in Sessions, Verify(s)
  PROVE  PasswordInv'
<1>1. /\ UNCHANGED <<auth, app, updates, updating, overlapped, held, presented, caller>>
      /\ callee[s] = "verify"
      /\ \A t \in Sessions \ {s} : verdict'[t] = verdict[t]
      /\ verdict'[s] = IF Norm[presented[s]] = auth[Callee[s]] THEN "granted" ELSE "denied"
  BY DEF Verify, CalleeAt, CalleeGoto, CalleeOnly, Decide, passwordVars, callerVars, TypeOK,
         ControlType
<1>2. caller[s] # "idle"
  BY <1>1 DEF InStep, Reached
<1>3. auth[Callee[s]] \in held[s]
  BY <1>2 DEF PasswordInv, HeldNow
<1>4. VerdictIsGenuine'
  BY <1>1, <1>3 DEF PasswordInv, VerdictIsGenuine
<1>. QED  BY <1>1, <1>2, <1>4 DEF PasswordInv, Copies, HalfDone, HeldNow, CopiesAgree

\* A request that is accepted or rejected involves no password.
LEMMA RejectKeepsPasswords ==
  ASSUME TypeOK, InStep, PasswordInv, NEW s \in Sessions, ReadRequest(s)
  PROVE  PasswordInv'
<1>1. /\ UNCHANGED <<auth, app, updates, updating, overlapped, held, presented, caller>>
      /\ callee[s] = "request"
      /\ \A t \in Sessions \ {s} : verdict'[t] = verdict[t]
      /\ verdict'[s] = verdict[s] \/ verdict'[s] = "rejected"
  BY DEF ReadRequest, CalleeAt, CalleeOnly, Decide, passwordVars, callerVars, TypeOK,
         ControlType
<1>2. caller[s] # "idle"
  BY <1>1 DEF InStep, Reached
<1>. QED  BY <1>1, <1>2 DEF PasswordInv, Copies, HalfDone, HeldNow, VerdictIsGenuine,
             CopiesAgree

\* No step of the listener's thread breaks what is said of passwords.
LEMMA CalleeKeepsPasswords ==
  ASSUME TypeOK, InStep, PasswordInv, NEW s \in Sessions, CalleeStep(s)
  PROVE  PasswordInv'
<1>1. CASE ReadRequest(s)
  BY <1>1, RejectKeepsPasswords
<1>2. CASE Verify(s)
  BY <1>2, VerifyKeepsPasswords
<1>3. CASE UNCHANGED <<passwordVars, callerVars, verdict>>
  BY <1>3, PasswordsRest DEF passwordVars, callerVars
<1>. QED  BY <1>1, <1>2, <1>3 DEF CalleeStep, Accept, SendRejection, SendAcceptance,
             SendAuthRequest, ReadPassword, SendVerdict, CalleeGivesUp, CalleeOnly

\* Nor does AuthManager.update_password.
LEMMA UpdateAuthKeepsPasswords ==
  ASSUME TypeOK, PasswordInv, NEW n \in Nodes, NEW p \in Raw, UpdateAuth(n, p)
  PROVE  PasswordInv'
<1> DEFINE k == updates + 1
<1>a. UNCHANGED <<app, presented, verdict, caller>>
  BY DEF UpdateAuth, SessionsUnchanged, callerVars, calleeVars
<1>b. Norm[p] # Blank /\ p # NoOverride
  BY SessionAssumption DEF UpdateAuth
<1>c. k \in 1..MaxUpdates /\ updates \in Nat /\ MaxUpdates \in Nat /\ updates' = k
  BY SessionAssumption DEF UpdateAuth, TypeOK, PasswordType
<1>1. /\ auth'[n] = Norm[p]
      /\ \A m \in Nodes \ {n} : auth'[m] = auth[m]
  BY DEF UpdateAuth, TypeOK, PasswordType
<1>2. /\ updating'[n][k] = p
      /\ \A j \in 1..MaxUpdates : j # k => updating'[n][j] = updating[n][j]
      /\ \A m \in Nodes \ {n} : updating'[m] = updating[m]
  BY <1>c DEF UpdateAuth, TypeOK, PasswordType
<1>3. /\ overlapped'[n] = (HalfDone(n) # {})
      /\ \A m \in Nodes \ {n} : overlapped'[m] = overlapped[m]
  <2>1. overlapped \in [Nodes -> BOOLEAN]
        /\ overlapped' = [overlapped EXCEPT ![n] = HalfDone(n) # {}]
    BY DEF UpdateAuth, TypeOK, PasswordType
  <2>. QED  BY <2>1, Zenon
<1>4. held' = [s \in Sessions |-> IF Callee[s] = n /\ caller[s] # "idle"
                                  THEN held[s] \cup {Norm[p]} ELSE held[s]]
  BY DEF UpdateAuth
<1> HIDE DEF k
<1>5. HalfDone(n)' = HalfDone(n) \cup {k} /\ k \in HalfDone(n)'
  BY <1>b, <1>c, <1>2 DEF HalfDone
<1>6. ASSUME NEW m \in Nodes \ {n} PROVE HalfDone(m)' = HalfDone(m)
  BY <1>2 DEF HalfDone
<1>7. Copies'
  <2>. SUFFICES ASSUME NEW m \in Nodes, NEW j \in HalfDone(m)'
                PROVE  /\ j <= updates'
                       /\ ~overlapped'[m] => /\ auth'[m] = Norm[updating'[m][j]]
                                             /\ HalfDone(m)' = {j}
    BY DEF Copies
  <2>0. \A i \in Nodes : \A l \in HalfDone(i) : l \in Nat /\ l <= updates
    BY <1>c DEF PasswordInv, Copies, HalfDone
  <2>1. CASE m # n
    BY <1>1, <1>2, <1>3, <1>6, <1>c, <2>0, <2>1 DEF PasswordInv, Copies, k
  <2>2. CASE m = n /\ HalfDone(n) = {}
    <3>1. j = k /\ HalfDone(m)' = {j}
      BY <1>5, <2>2
    <3>. QED  BY <1>1, <1>2, <1>c, <2>2, <3>1
  <2>3. CASE m = n /\ HalfDone(n) # {}
    <3>1. overlapped'[m]
      BY <1>3, <2>3
    <3>2. j <= updates'
      BY <1>5, <1>c, <2>0, <2>3 DEF k
    <3>. QED  BY <3>1, <3>2
  <2>. QED  BY <2>1, <2>2, <2>3
<1>8. HeldNow'
  BY <1>a, <1>1, <1>4, SessionAssumption DEF PasswordInv, HeldNow
<1>9. VerdictIsGenuine'
  <2>. SUFFICES ASSUME NEW s \in Sessions
                PROVE  /\ verdict[s] = "granted" => Norm[presented[s]] \in held'[s]
                       /\ verdict[s] = "denied" => held'[s] # {Norm[presented[s]]}
    BY <1>a DEF VerdictIsGenuine
  <2>1. held[s] \subseteq held'[s]
    BY <1>4
  <2>2. ASSUME verdict[s] = "denied" PROVE \E q \in held[s] : q # Norm[presented[s]]
    <3>1. auth[Callee[s]] \in held[s] /\ held[s] # {Norm[presented[s]]}
      BY <2>2 DEF PasswordInv, HeldNow, VerdictIsGenuine
    <3>. QED  BY <3>1
  <2>. QED  BY <2>1, <2>2 DEF PasswordInv, VerdictIsGenuine
<1>10. CopiesAgree'
  BY <1>a, <1>b, <1>1, <1>3, <1>5, <1>6 DEF PasswordInv, CopiesAgree
<1>. QED  BY <1>7, <1>8, <1>9, <1>10 DEF PasswordInv

\* The second write of an update that overlapped none makes the copies agree.
LEMMA UpdateAppKeepsPasswords ==
  ASSUME TypeOK, PasswordInv, NEW n \in Nodes, NEW k \in 1..MaxUpdates, UpdateApp(n, k)
  PROVE  PasswordInv'
<1>1. /\ UNCHANGED <<auth, updates, overlapped, held, presented, verdict, caller>>
      /\ k \in HalfDone(n)
      /\ app'[n] = updating[n][k] /\ \A m \in Nodes \ {n} : app'[m] = app[m]
  BY DEF UpdateApp, SessionsUnchanged, callerVars, calleeVars, TypeOK, PasswordType
<1>2. /\ updating'[n][k] = NoOverride
      /\ \A j \in 1..MaxUpdates : j # k => updating'[n][j] = updating[n][j]
      /\ \A m \in Nodes \ {n} : updating'[m] = updating[m]
  BY DEF UpdateApp, TypeOK, PasswordType
<1>3. HalfDone(n)' = HalfDone(n) \ {k}
  BY <1>2 DEF HalfDone
<1>4. ASSUME NEW m \in Nodes \ {n} PROVE HalfDone(m)' = HalfDone(m)
  BY <1>2 DEF HalfDone
<1>5. ~overlapped[n] => auth[n] = Norm[app'[n]] /\ HalfDone(n)' = {}
  BY <1>1, <1>3 DEF PasswordInv, Copies
<1>6. CopiesAgree'
  BY <1>1, <1>4, <1>5 DEF PasswordInv, CopiesAgree
<1>7. Copies'
  <2>. SUFFICES ASSUME NEW m \in Nodes, NEW j \in HalfDone(m)'
                PROVE  /\ j <= updates
                       /\ ~overlapped[m] => /\ auth[m] = Norm[updating'[m][j]]
                                            /\ HalfDone(m)' = {j}
    BY <1>1 DEF Copies
  <2>1. CASE m # n
    BY <1>2, <1>4, <2>1 DEF PasswordInv, Copies
  <2>2. CASE m = n
    BY <1>3, <1>5, <2>2 DEF PasswordInv, Copies
  <2>. QED  BY <2>1, <2>2
<1>. QED  BY <1>1, <1>6, <1>7 DEF PasswordInv, HeldNow, VerdictIsGenuine

\* No step breaks what is said of passwords.
LEMMA NextPasswords ==
  ASSUME TypeOK, InStep, PasswordInv, [Next]_vars
  PROVE  PasswordInv'
<1>1. ASSUME NEW s \in Sessions, CallerStep(s) PROVE PasswordInv'
  BY <1>1, StartKeepsPasswords, CallerKeepsPasswords
<1>2. ASSUME UNCHANGED <<passwordVars, callerVars, calleeVars>> PROVE PasswordInv'
  BY <1>2, PasswordsRest DEF passwordVars, callerVars, calleeVars
<1>3. ASSUME NEW s \in Sessions, LinkFails(s) PROVE PasswordInv'
  BY <1>2, <1>3 DEF LinkFails
<1>4. ASSUME NEW n \in Nodes, StopListener(n) PROVE PasswordInv'
  BY <1>2, <1>4 DEF StopListener
<1>5. CASE UNCHANGED vars
  BY <1>2, <1>5 DEF vars
<1>. QED  BY <1>1, <1>3, <1>4, <1>5, CalleeKeepsPasswords, UpdateAuthKeepsPasswords,
             UpdateAppKeepsPasswords DEF Next, Stutter

-----------------------------------------------------------------------------
(* The invariant, and what it says.                                        *)

\* The three parts of the inductive invariant.
LEMMA SessionInvParts == SessionInv <=> TypeOK /\ InStep /\ PasswordInv
  BY DEF SessionInv, PasswordInv

\* The inductive invariant: the messages in flight and the verdict at each
\* pair of statements of the two threads of _open_authenticated_session_internal
\* and _handle_client, and the passwords they compare.
THEOREM SessionInvariantHolds == Spec => []SessionInv
<1>1. Init => SessionInv
  BY InitTyped, InitInStep, InitPasswords, SessionInvParts
<1>2. SessionInv /\ [Next]_vars => SessionInv'
  <2>. SUFFICES ASSUME SessionInv, [Next]_vars PROVE SessionInv'
    OBVIOUS
  <2>1. TypeOK' /\ InStep' /\ PasswordInv'
    BY SessionInvParts, NextTyped, NextInStep, NextPasswords
  <2>. QED  BY <2>1 DEF SessionInv, PasswordInv
<1>. QED  BY <1>1, <1>2, PTL DEF Spec

\* A session is granted or refused for a password its callee really held (or
\* did not) while the session was open, whatever updates interleave.
THEOREM VerdictsAreGenuine == Spec => []VerdictIsGenuine
<1>1. SessionInv => VerdictIsGenuine
  BY DEF SessionInv
<1>. QED  BY <1>1, SessionInvariantHolds, PTL

\* The copies of a node's password in AppManager and AuthManager agree whenever
\* no call of update_shared_password is between its two writes, unless the last
\* to write the first had overlapped another.
THEOREM PasswordCopiesAgree == Spec => []CopiesAgree
<1>1. SessionInv => CopiesAgree
  BY DEF SessionInv
<1>. QED  BY <1>1, SessionInvariantHolds, PTL

\* Neither end ever finds a message it does not expect.
THEOREM MessagesExpected == Spec => []NothingUnexpected
<1>1. SessionInv => NothingUnexpected
  <2>. SUFFICES ASSUME SessionInv, NEW s \in Sessions
                PROVE  /\ toCaller[s] # <<>> => Head(toCaller[s]) \in ExpectedByCaller(s)
                       /\ toCallee[s] # <<>> => Head(toCallee[s]) \in ExpectedByCallee(s)
    BY DEF NothingUnexpected
  <2>1. Answers(s) /\ Requests(s)
    BY DEF SessionInv, InStep
  <2>2. toCaller[s] \in Seq(MessageType) /\ toCallee[s] \in Seq(MessageType)
    BY DEF SessionInv, TypeOK, ConnectionType
  <2>3. ASSUME toCaller[s] # <<>> PROVE Head(toCaller[s]) \in ExpectedByCaller(s)
    <3>1. CASE caller[s] = "answer"
      BY <2>1, <2>3, <3>1 DEF Answers, ExpectedByCaller
    <3>2. CASE caller[s] = "authRequest"
      BY <2>1, <2>3, <3>2 DEF Answers, ExpectedByCaller
    <3>3. CASE caller[s] = "final"
      BY <2>1, <2>3, <3>3 DEF Answers, ExpectedByCaller
    <3>4. CASE caller[s] \notin {"answer", "authRequest", "final"}
      BY <2>2, <2>3, <3>4 DEF ExpectedByCaller
    <3>. QED  BY <3>1, <3>2, <3>3, <3>4
  <2>4. ASSUME toCallee[s] # <<>> PROVE Head(toCallee[s]) \in ExpectedByCallee(s)
    <3>1. CASE callee[s] = "request"
      BY <2>1, <2>4, <3>1 DEF Requests, ExpectedByCallee
    <3>2. CASE callee[s] = "password"
      BY <2>1, <2>4, <3>2 DEF Requests, ExpectedByCallee
    <3>3. CASE callee[s] \notin {"request", "password"}
      BY <2>2, <2>4, <3>3 DEF ExpectedByCallee
    <3>. QED  BY <3>1, <3>2, <3>3
  <2>. QED  BY <2>3, <2>4
<1>. QED  BY <1>1, SessionInvariantHolds, PTL

\* On a connection that works, the two threads never wait for each other.
THEOREM NeverMutualWait == Spec => []NoMutualWait
<1>1. SessionInv => NoMutualWait
  <2>. SUFFICES ASSUME SessionInv, NEW s \in Sessions,
                       caller[s] \in {"answer", "authRequest", "final"},
                       toCaller[s] = <<>>, CalleeWaits(s), toCallee[s] = <<>>
                PROVE  FALSE
    BY DEF NoMutualWait
  <2>1. Answers(s) /\ Requests(s) /\ callee[s] \in Reached(caller[s])
    BY DEF SessionInv, InStep
  <2>2. CASE caller[s] = "answer"
    BY <2>1, <2>2 DEF CalleeWaits, Reached, Answers, Requests
  <2>3. CASE caller[s] = "authRequest"
    BY <2>1, <2>3 DEF CalleeWaits, Reached, Answers, Requests
  <2>4. CASE caller[s] = "final"
    BY <2>1, <2>4 DEF CalleeWaits, Reached, Answers, Requests
  <2>. QED  BY <2>2, <2>3, <2>4
<1>. QED  BY <1>1, SessionInvariantHolds, PTL

-----------------------------------------------------------------------------
(* The handshake implements SessionContract.                               *)

\* A step of the caller tells the truth about what was decided, or says nothing.
LEMMA CallerTells ==
  ASSUME SessionInv, NEW s \in Sessions, CallerStep(s)
  PROVE  Contract!Tell(s) \/ UNCHANGED <<verdict, outcome>>
<1>a. UNCHANGED verdict
  BY DEF CallerStep, StartSession, Connect, SendRequest, ReadAnswer, ReadAuthRequest,
         SendPassword, ReadVerdict, CallerGivesUp, CloseSocket, CallerOnly, calleeVars
<1>b. ASSUME NEW o \in Contract!Truth(verdict[s]), NEW k, CallerEnds(s, o, k),
             caller[s] # "done"
      PROVE  Contract!Tell(s)
  <2>1. outcome[s] = "none"
    BY <1>b DEF SessionInv, InStep, Decided
  <2>. QED  BY <1>a, <1>b, <2>1 DEF Contract!Tell, CallerEnds
<1>c. "error" \in Contract!Truth(verdict[s])
  BY DEF Contract!Truth, SessionInv, TypeOK, ControlType
<1>e. Answers(s)
  BY DEF SessionInv, InStep
<1>1. CASE StartSession(s)
  BY <1>a, <1>1 DEF StartSession, CallerGoto
<1>2. CASE Connect(s)
  BY <1>a, <1>b, <1>c, <1>2 DEF Connect, CallerAt
<1>3. CASE SendRequest(s)
  BY <1>a, <1>b, <1>c, <1>3 DEF SendRequest, CallerSends, CallerAt, CallerGoto
<1>4. CASE ReadAnswer(s)
  <2>1. CASE CallerGoto(s, "authRequest")
    BY <1>a, <2>1 DEF CallerGoto
  <2>2. CASE CallerReads(s, "SESSION_REJECTED") /\ CallerEnds(s, "rejected", "closed")
    <3>1. caller[s] = "answer" /\ toCaller[s] # <<>> /\ Head(toCaller[s]) = "SESSION_REJECTED"
      BY <1>4, <2>2 DEF ReadAnswer, CallerAt, CallerReads
    <3>2. toCaller[s] = <<"SESSION_REJECTED">>
      BY <1>e, <3>1 DEF Answers
    <3>3. verdict[s] = "rejected"
      BY <1>e, <3>1, <3>2 DEF Answers
    <3>4. "rejected" \in Contract!Truth(verdict[s])
      BY <3>3 DEF Contract!Truth
    <3>. QED  BY <1>b, <2>2, <3>1, <3>4
  <2>. QED  BY <1>4, <2>1, <2>2 DEF ReadAnswer
<1>5. CASE ReadAuthRequest(s)
  BY <1>a, <1>5 DEF ReadAuthRequest, CallerGoto
<1>6. CASE SendPassword(s)
  BY <1>a, <1>b, <1>c, <1>6 DEF SendPassword, CallerSends, CallerAt, CallerGoto
<1>7. CASE ReadVerdict(s)
  <2>1. caller[s] = "final"
    BY <1>7 DEF ReadVerdict, CallerAt
  <2>2. CASE /\ CallerReads(s, "AUTH_SUCCESS")
             /\ \E k \in {"open", "closed"} : CallerEnds(s, "success", k)
    <3>1. toCaller[s] = <<"AUTH_SUCCESS">>
      BY <1>e, <2>1, <2>2 DEF Answers, CallerReads
    <3>2. "success" \in Contract!Truth(verdict[s])
      BY <1>e, <2>1, <3>1 DEF Answers, Contract!Truth
    <3>. QED  BY <1>b, <2>1, <2>2, <3>2
  <2>3. CASE CallerReads(s, "AUTH_FAILED") /\ CallerEnds(s, "failed", "closed")
    <3>1. toCaller[s] = <<"AUTH_FAILED">>
      BY <1>e, <2>1, <2>3 DEF Answers, CallerReads
    <3>2. "failed" \in Contract!Truth(verdict[s])
      BY <1>e, <2>1, <3>1 DEF Answers, Contract!Truth
    <3>. QED  BY <1>b, <2>1, <2>3, <3>2
  <2>. QED  BY <1>7, <2>2, <2>3 DEF ReadVerdict
<1>8. CASE CallerGivesUp(s)
  BY <1>b, <1>c, <1>8 DEF CallerGivesUp, CallerWaits
<1>9. CASE CloseSocket(s)
  BY <1>a, <1>9 DEF CloseSocket
<1>. QED  BY <1>1, <1>2, <1>3, <1>4, <1>5, <1>6, <1>7, <1>8, <1>9 DEF CallerStep

\* A step of the listener's thread decides once, or decides nothing.
LEMMA CalleeDecides ==
  ASSUME SessionInv, NEW s \in Sessions, CalleeStep(s)
  PROVE  Contract!Decide(s) \/ UNCHANGED <<verdict, outcome>>
<1>a. UNCHANGED outcome
  BY DEF CalleeStep, Accept, ReadRequest, SendRejection, SendAcceptance, SendAuthRequest,
         ReadPassword, Verify, SendVerdict, CalleeGivesUp, CalleeOnly, callerVars
<1>b. ASSUME NEW d \in {"rejected", "granted", "denied"}, Decide(s, d),
             callee[s] \in {"request", "verify"}
      PROVE  Contract!Decide(s)
  <2>1. verdict[s] = "none"
    BY <1>b DEF SessionInv, InStep, Decided
  <2>. QED  BY <1>a, <1>b, <2>1 DEF Contract!Decide, Decide
<1>1. CASE ReadRequest(s)
  BY <1>a, <1>b, <1>1 DEF ReadRequest, CalleeAt
<1>2. CASE Verify(s)
  BY <1>b, <1>2 DEF Verify, CalleeAt
<1>3. CASE UNCHANGED verdict
  BY <1>a, <1>3
<1>. QED  BY <1>1, <1>2, <1>3 DEF CalleeStep, Accept, SendRejection, SendAcceptance,
             SendAuthRequest, ReadPassword, SendVerdict, CalleeGivesUp

\* Every step of the handshake decides a session once, tells its caller what
\* was decided or of an error, or changes neither.
THEOREM SessionImplementsContract == Spec => SessionContractKept
<1>1. Init => Contract!Init
  BY DEF Init, Contract!Init
<1>2. SessionInv /\ [Next]_vars => [Contract!Next]_(Contract!vars)
  <2>. SUFFICES ASSUME SessionInv, [Next]_vars
                PROVE  Contract!Next \/ UNCHANGED <<verdict, outcome>>
    BY DEF Contract!vars
  <2>1. ASSUME UNCHANGED <<callerVars, calleeVars>>
        PROVE  UNCHANGED <<verdict, outcome>>
    BY <2>1 DEF callerVars, calleeVars
  <2>2. ASSUME NEW s \in Sessions, CallerStep(s) \/ CalleeStep(s)
        PROVE  Contract!Next \/ UNCHANGED <<verdict, outcome>>
    BY <2>2, CallerTells, CalleeDecides DEF Contract!Next
  <2>3. CASE UNCHANGED vars
    BY <2>1, <2>3 DEF vars
  <2>4. ASSUME NEW s \in Sessions, LinkFails(s) PROVE UNCHANGED <<verdict, outcome>>
    BY <2>1, <2>4 DEF LinkFails
  <2>5. ASSUME NEW n \in Nodes,
               StopListener(n) \/ \E k \in 1..MaxUpdates : UpdateApp(n, k)
        PROVE  UNCHANGED <<verdict, outcome>>
    BY <2>1, <2>5 DEF UpdateApp, StopListener, SessionsUnchanged
  <2>6. ASSUME NEW n \in Nodes, NEW p \in Raw, UpdateAuth(n, p)
        PROVE  UNCHANGED <<verdict, outcome>>
    BY <2>1, <2>6 DEF UpdateAuth, SessionsUnchanged
  <2>. QED  BY <2>2, <2>3, <2>4, <2>5, <2>6 DEF Next, Stutter
<1>. QED  BY <1>1, <1>2, SessionInvariantHolds, PTL DEF Spec, SessionContractKept, Contract!Spec
-----------------------------------------------------------------------------
(* How a call ends when nothing disturbs its session.                      *)

\* Connections do not come back, nor do listeners start again.
LEMMA StaysDisturbed ==
  ASSUME TypeOK, NEW s \in Sessions, [Next]_vars, Undisturbed(s)'
  PROVE  Undisturbed(s)
<1>. USE DEF passwordVars, callerVars, calleeVars, wireVars, Undisturbed
<1>a. serving \in [Nodes -> BOOLEAN] /\ Callee[s] \in Nodes
      /\ link \in [Sessions -> {"up", "silent", "reset"}]
  BY SessionAssumption DEF TypeOK, ControlType, ConnectionType
<1>1. CASE UNCHANGED <<link, serving>>
  BY <1>1
<1>2. ASSUME NEW n \in Nodes, StopListener(n) PROVE Undisturbed(s)
  BY <1>2, <1>a DEF StopListener
<1>3. ASSUME NEW t \in Sessions, LinkFails(t) PROVE Undisturbed(s)
  BY <1>3, <1>a DEF LinkFails
<1>4. ASSUME NEW t \in Sessions, Accept(t) PROVE Undisturbed(s)
  BY <1>4, <1>a DEF Accept
<1>5. ASSUME NEW t \in Sessions, CalleeStep(t) PROVE Accept(t) \/ UNCHANGED <<link, serving>>
  BY <1>5 DEF CalleeStep, ReadRequest, SendRejection, SendAcceptance, SendAuthRequest,
     ReadPassword, Verify, SendVerdict, CalleeGivesUp, CalleeOnly
<1>6. ASSUME NEW t \in Sessions, CallerStep(t) PROVE UNCHANGED <<link, serving>>
  BY <1>6 DEF CallerStep, StartSession, Connect, SendRequest, ReadAnswer, ReadAuthRequest,
     SendPassword, ReadVerdict, CallerGivesUp, CloseSocket, CallerOnly
<1>7. ASSUME NEW n \in Nodes,
             (\E p \in Raw : UpdateAuth(n, p)) \/ (\E k \in 1..MaxUpdates : UpdateApp(n, k))
      PROVE  UNCHANGED <<link, serving>>
  BY <1>7 DEF UpdateApp, UpdateAuth, SessionsUnchanged
<1>8. ASSUME NEW n \in Nodes, NEW k \in 1..MaxUpdates, UpdateApp(n, k)
      PROVE  UNCHANGED <<link, serving>>
  BY <1>8 DEF UpdateApp, SessionsUnchanged
<1>9. UNCHANGED vars => UNCHANGED <<link, serving>>
  BY DEF vars
<1>. QED  BY <1>1, <1>2, <1>3, <1>4, <1>5, <1>6, <1>7, <1>8, <1>9 DEF Next, Stutter

\* Nothing that Calm reads has changed.
AtRest(s) == /\ Untouched(s) /\ cSock'[s] = cSock[s] /\ presented'[s] = presented[s]

\* A session nothing happened to stays calm.
LEMMA RestsCalm ==
  ASSUME NEW s \in Sessions, Calm(s), AtRest(s)
  PROVE  Calm(s)'
<1>1. CalmQueues(s)' /\ Explained(s) = Explained(s)'
  BY DEF Calm, CalmQueues, Explained, AtRest, Untouched
<1>. QED  BY <1>1 DEF Calm, AtRest, Untouched

\* The steps of one session leave the sockets and passwords of the others.
LEMMA ElsewhereAtRest ==
  ASSUME TypeOK, NEW s \in Sessions, NEW t \in Sessions, t # s,
         CallerStep(s) \/ CalleeStep(s)
  PROVE  AtRest(t)
<1>. USE DEF callerVars
<1>a. cSock \in [Sessions -> {"none", "open", "dropped", "closed"}]
      /\ presented \in [Sessions -> Raw \cup {NoOverride}]
  BY DEF TypeOK, ControlType, ConnectionType
<1>b. ASSUME NEW o, NEW k, CallerEnds(s, o, k) PROVE cSock'[t] = cSock[t]
  BY <1>a, <1>b DEF CallerEnds
<1>c. ASSUME NEW k, CallerGoto(s, k) PROVE cSock'[t] = cSock[t]
  BY <1>c DEF CallerGoto
<1>1. CASE CallerStep(s)
  <2>1. presented'[t] = presented[t]
    BY <1>1, <1>a DEF CallerStep, StartSession, Connect, SendRequest, ReadAnswer, ReadAuthRequest,
       SendPassword, ReadVerdict, CallerGivesUp, CloseSocket, CallerOnly
  <2>2. cSock'[t] = cSock[t]
    <3>1. CASE Connect(s)
      BY <3>1, <1>a, <1>b DEF Connect
    <3>2. CASE CloseSocket(s)
      BY <3>2, <1>a DEF CloseSocket
    <3>3. CASE StartSession(s) \/ ReadAuthRequest(s)
      BY <3>3, <1>c DEF StartSession, ReadAuthRequest
    <3>4. CASE SendRequest(s) \/ SendPassword(s)
      BY <3>4, <1>b, <1>c DEF SendRequest, SendPassword, CallerSends
    <3>5. CASE ReadAnswer(s) \/ ReadVerdict(s) \/ CallerGivesUp(s)
      BY <3>5, <1>b, <1>c DEF ReadAnswer, ReadVerdict, CallerGivesUp
    <3>. QED  BY <1>1, <3>1, <3>2, <3>3, <3>4, <3>5 DEF CallerStep
  <2>. QED  BY <1>1, <2>1, <2>2, CallerElsewhere DEF AtRest
<1>2. CASE CalleeStep(s)
  <2>1. UNCHANGED <<cSock, presented>>
    BY <1>2 DEF CalleeStep, Accept, ReadRequest, SendRejection, SendAcceptance, SendAuthRequest,
       ReadPassword, Verify, SendVerdict, CalleeGivesUp, CalleeOnly
  <2>. QED  BY <1>2, <2>1, CalleeElsewhere DEF AtRest
<1>. QED  BY <1>1, <1>2

\* Nobody times out and no connection is refused by a listener that serves.
Peaceful == {"timeout", "refused"} \cap SessionFaults = {}

\* A step of the caller's thread of an undisturbed session leaves it calm.
LEMMA CallerStaysCalm ==
  ASSUME TypeOK, NEW s \in Sessions, SessionInStep(s), Undisturbed(s), Peaceful, Calm(s),
         CallerStep(s)
  PROVE  Calm(s)'
<1>. USE DEF passwordVars, callerVars, calleeVars, wireVars
<1>a. /\ toCallee \in [Sessions -> Seq(MessageType)]
      /\ toCaller \in [Sessions -> Seq(MessageType)]
      /\ caller \in [Sessions -> CallerSteps] /\ callee \in [Sessions -> CalleeSteps]
      /\ outcome \in [Sessions -> {"none", "success", "rejected", "failed", "error"}]
      /\ cSock \in [Sessions -> {"none", "open", "dropped", "closed"}]
  BY DEF TypeOK, ControlType, ConnectionType
<1>b. ASSUME NEW o, NEW k, CallerEnds(s, o, k)
      PROVE  caller'[s] = "done" /\ outcome'[s] = o /\ cSock'[s] = k
  BY <1>a, <1>b DEF CallerEnds
<1>c. ASSUME NEW k, CallerGoto(s, k)
      PROVE  caller'[s] = k /\ outcome'[s] = outcome[s] /\ cSock'[s] = cSock[s]
  BY <1>a, <1>c DEF CallerGoto
<1>d. ASSUME NEW m, CallerReads(s, m)
      PROVE  /\ toCaller[s] # <<>> /\ Head(toCaller[s]) = m
             /\ toCaller'[s] = Tail(toCaller[s])
  BY <1>a, <1>d DEF CallerReads
<1>e. ASSUME CallerOnly
      PROVE  /\ callee'[s] = callee[s] /\ verdict'[s] = verdict[s]
             /\ lSock'[s] = lSock[s] /\ presented'[s] = presented[s]
  BY <1>e DEF CallerOnly
<1>f. ASSUME NEW m, NEW k, CallerSends(s, m, k)
      PROVE  /\ toCallee'[s] = Append(toCallee[s], m) /\ toCaller'[s] = toCaller[s]
             /\ CallerGoto(s, k)
  BY <1>a, <1>f DEF CallerSends, CallerCanSend, Undisturbed
<1>g. CalmQueues(s) /\ Answers(s) /\ Requests(s) /\ Decided(s) /\ callee[s] \in Reached(caller[s])
  BY DEF SessionInStep, Calm
<1>1. CASE StartSession(s)
  <2>1. /\ caller[s] = "idle" /\ caller'[s] = "connect" /\ cSock'[s] = cSock[s]
        /\ callee'[s] = callee[s] /\ lSock'[s] = lSock[s]
        /\ toCaller'[s] = toCaller[s] /\ toCallee'[s] = toCallee[s]
    BY <1>1, <1>c DEF StartSession, CallerAt
  <2>. QED  BY <1>g, <2>1 DEF Calm, CalmQueues
<1>2. CASE Connect(s)
  <2>1. /\ caller[s] = "connect" /\ caller'[s] = "request" /\ cSock'[s] = "open"
        /\ callee'[s] = "backlog" /\ lSock'[s] = lSock[s]
        /\ toCaller'[s] = toCaller[s] /\ toCallee'[s] = toCallee[s]
    BY <1>2, <1>a DEF Connect, CallerAt, Undisturbed, Peaceful
  <2>2. callee[s] = "none"
    BY <1>g, <2>1 DEF Reached
  <2>3. lSock[s] # "closed"
    BY <1>g, <2>2 DEF CalmQueues
  <2>. QED  BY <2>1, <2>3 DEF Calm, CalmQueues
<1>3. CASE SendRequest(s)
  <2>1. CallerSends(s, "SESSION_REQUEST", "answer") /\ caller[s] = "request"
    BY <1>3 DEF SendRequest, CallerAt
  <2>2. caller'[s] = "answer" /\ cSock'[s] = cSock[s] /\ toCaller'[s] = toCaller[s]
    BY <1>c, <1>f, <2>1
  <2>3. callee'[s] = callee[s] /\ lSock'[s] = lSock[s] /\ callee[s] # "done"
    BY <1>3, <1>e, <1>g, <2>1 DEF SendRequest, CalmQueues
  <2>. QED  BY <1>g, <2>1, <2>2, <2>3 DEF Calm, CalmQueues
<1>4. CASE ReadAnswer(s)
  <2>0. /\ caller[s] = "answer" /\ toCallee'[s] = toCallee[s]
        /\ callee'[s] = callee[s] /\ verdict'[s] = verdict[s] /\ lSock'[s] = lSock[s]
        /\ presented'[s] = presented[s]
    BY <1>4, <1>e DEF ReadAnswer, CallerAt
  <2>1. CASE CallerReads(s, "SESSION_REJECTED") /\ CallerEnds(s, "rejected", "closed")
    <3>1. caller'[s] = "done" /\ outcome'[s] = "rejected"
      BY <1>b, <2>1
    <3>2. toCaller[s] = <<"SESSION_REJECTED">>
      BY <1>d, <1>g, <2>0, <2>1 DEF Answers
    <3>3. toCaller'[s] = <<>>
      BY <1>d, <2>1, <3>2
    <3>4. verdict[s] = "rejected" /\ callee[s] = "done"
      BY <1>g, <2>0, <3>2 DEF Answers, Reached
    <3>5. toCallee[s] = <<>>
      BY <1>g, <3>4 DEF CalmQueues
    <3>6. CalmQueues(s)'
      BY <1>g, <2>0, <3>1, <3>3, <3>4, <3>5 DEF CalmQueues
    <3>7. Explained(s)'
      BY <2>0, <3>1, <3>4 DEF Explained
    <3>. QED  BY <3>1, <3>6, <3>7 DEF Calm
  <2>2. CASE CallerReads(s, "SESSION_ACCEPTED") /\ CallerGoto(s, "authRequest")
    <3>1. caller'[s] = "authRequest" /\ cSock'[s] = cSock[s]
      BY <1>c, <2>2
    <3>2. Head(toCaller[s]) = "SESSION_ACCEPTED"
      BY <1>d, <2>2
    <3>3. toCaller[s] # <<"SESSION_REJECTED">>
      BY <3>2
    <3>4. callee[s] # "done"
      BY <1>g, <2>0, <3>3 DEF CalmQueues
    <3>5. CalmQueues(s)'
      BY <1>g, <2>0, <3>1, <3>4 DEF CalmQueues
    <3>. QED  BY <3>1, <3>5 DEF Calm
  <2>. QED  BY <1>4, <2>1, <2>2 DEF ReadAnswer
<1>5. CASE ReadAuthRequest(s)
  <2>1. /\ caller[s] = "authRequest" /\ caller'[s] = "respond" /\ cSock'[s] = cSock[s]
        /\ toCallee'[s] = toCallee[s] /\ callee'[s] = callee[s] /\ lSock'[s] = lSock[s]
    BY <1>5, <1>c, <1>e DEF ReadAuthRequest, CallerAt
  <2>2. CalmQueues(s)'
    BY <1>g, <2>1 DEF CalmQueues
  <2>. QED  BY <2>1, <2>2 DEF Calm
<1>6. CASE SendPassword(s)
  <2>0. /\ caller[s] = "respond" /\ callee[s] = "password" /\ toCallee[s] = <<>>
        /\ toCaller[s] = <<>> /\ verdict[s] = "none" /\ callee'[s] = callee[s]
        /\ verdict'[s] = verdict[s] /\ lSock'[s] = lSock[s] /\ presented'[s] = presented[s]
    <3>1. caller[s] = "respond"
      BY <1>6 DEF SendPassword, CallerAt
    <3>2. callee[s] = "password"
      BY <1>g, <3>1 DEF Reached, CalmQueues
    <3>3. toCallee[s] = <<>> /\ toCaller[s] = <<>> /\ verdict[s] = "none"
      BY <1>g, <3>1, <3>2 DEF Requests, Answers, Decided
    <3>. QED  BY <1>6, <1>e, <3>1, <3>2, <3>3 DEF SendPassword
  <2>1. CASE Norm[presented[s]] = Blank
    <3>1. /\ caller'[s] = "done" /\ outcome'[s] = "error"
          /\ toCallee'[s] = <<>> /\ toCaller'[s] = <<>>
      BY <1>6, <1>b, <2>0, <2>1 DEF SendPassword
    <3>2. CalmQueues(s)'
      BY <1>g, <2>0, <3>1 DEF CalmQueues
    <3>3. Explained(s)'
      BY <2>0, <2>1, <3>1 DEF Explained
    <3>. QED  BY <3>1, <3>2, <3>3 DEF Calm
  <2>2. CASE Norm[presented[s]] # Blank
    <3>1. caller'[s] = "final" /\ cSock'[s] = cSock[s]
      BY <1>6, <1>c, <1>f, <2>2 DEF SendPassword
    <3>2. CalmQueues(s)'
      BY <1>g, <2>0, <3>1 DEF CalmQueues
    <3>. QED  BY <2>0, <2>2, <3>1, <3>2 DEF Calm
  <2>. QED  BY <2>1, <2>2
<1>7. CASE ReadVerdict(s)
  <2>0. /\ caller[s] = "final" /\ toCallee'[s] = toCallee[s]
        /\ callee'[s] = callee[s] /\ verdict'[s] = verdict[s] /\ lSock'[s] = lSock[s]
        /\ presented'[s] = presented[s] /\ Norm[presented[s]] # Blank
    BY <1>7, <1>e DEF ReadVerdict, CallerAt, Calm
  <2>1. CASE /\ CallerReads(s, "AUTH_SUCCESS")
             /\ \E k \in {"open", "closed"} : CallerEnds(s, "success", k)
    <3>1. caller'[s] = "done" /\ outcome'[s] = "success"
      BY <1>b, <2>1
    <3>2. toCaller[s] = <<"AUTH_SUCCESS">>
      BY <1>d, <1>g, <2>0, <2>1 DEF Answers
    <3>3. toCaller'[s] = <<>>
      BY <1>d, <2>1, <3>2
    <3>4. verdict[s] = "granted" /\ callee[s] \in {"stream", "done"}
      BY <1>g, <2>0, <3>2 DEF Answers, Reached
    <3>5. toCallee[s] = <<>>
      BY <1>g, <3>4 DEF CalmQueues, Requests
    <3>6. CalmQueues(s)'
      BY <1>g, <2>0, <3>1, <3>3, <3>4, <3>5 DEF CalmQueues
    <3>7. Explained(s)'
      BY <2>0, <3>1, <3>4 DEF Explained
    <3>. QED  BY <3>1, <3>6, <3>7 DEF Calm
  <2>2. CASE CallerReads(s, "AUTH_FAILED") /\ CallerEnds(s, "failed", "closed")
    <3>1. caller'[s] = "done" /\ outcome'[s] = "failed"
      BY <1>b, <2>2
    <3>2. toCaller[s] = <<"AUTH_FAILED">>
      BY <1>d, <1>g, <2>0, <2>2 DEF Answers
    <3>3. toCaller'[s] = <<>>
      BY <1>d, <2>2, <3>2
    <3>4. verdict[s] = "denied" /\ callee[s] = "done"
      <4>1. <<"AUTH_FAILED">> # <<>> /\ <<"AUTH_FAILED">> # <<"AUTH_SUCCESS">>
        OBVIOUS
      <4>. QED  BY <1>g, <2>0, <3>2, <4>1 DEF Answers, Reached
    <3>5. toCallee[s] = <<>>
      BY <1>g, <3>4 DEF CalmQueues
    <3>6. CalmQueues(s)'
      BY <1>g, <2>0, <3>1, <3>3, <3>4, <3>5 DEF CalmQueues
    <3>7. Explained(s)'
      BY <2>0, <3>1, <3>4 DEF Explained
    <3>. QED  BY <3>1, <3>6, <3>7 DEF Calm
  <2>. QED  BY <1>7, <2>1, <2>2 DEF ReadVerdict
<1>8. CASE CallerGivesUp(s)
  <2>1. caller[s] \in {"answer", "authRequest", "final"}
        /\ toCaller[s] = <<>> /\ lSock[s] = "closed"
    BY <1>8 DEF CallerGivesUp, CallerWaits, Undisturbed, Peaceful
  <2>2. callee[s] = "done"
    BY <1>g, <2>1 DEF CalmQueues
  <2>3. <<"SESSION_REJECTED">> # <<>> /\ <<"AUTH_FAILED">> # <<>>
    OBVIOUS
  <2>. QED  BY <1>g, <2>1, <2>2, <2>3 DEF CalmQueues
<1>9. CASE CloseSocket(s)
  <2>1. /\ caller[s] = "done"
        /\ caller'[s] = caller[s] /\ outcome'[s] = outcome[s] /\ callee'[s] = callee[s]
        /\ verdict'[s] = verdict[s] /\ lSock'[s] = lSock[s] /\ presented'[s] = presented[s]
        /\ toCallee'[s] = toCallee[s] /\ toCaller'[s] = toCaller[s]
    BY <1>9 DEF CloseSocket, CallerAt
  <2>2. CalmQueues(s)'
    BY <1>g, <2>1 DEF CalmQueues
  <2>3. Explained(s)'
    BY <2>1 DEF Calm, Explained
  <2>. QED  BY <2>1, <2>2, <2>3 DEF Calm
<1>. QED  BY <1>1, <1>2, <1>3, <1>4, <1>5, <1>6, <1>7, <1>8, <1>9 DEF CallerStep

\* So does a step of the listener's thread, unless it resets the connection.
LEMMA CalleeStaysCalm ==
  ASSUME TypeOK, NEW s \in Sessions, SessionInStep(s), Undisturbed(s), Peaceful, Calm(s),
         CalleeStep(s)
  PROVE  Calm(s)'
<1>. USE DEF passwordVars, callerVars, calleeVars, wireVars
<1>a. /\ toCallee \in [Sessions -> Seq(MessageType)]
      /\ toCaller \in [Sessions -> Seq(MessageType)]
      /\ callee \in [Sessions -> CalleeSteps]
      /\ verdict \in [Sessions -> {"none", "rejected", "granted", "denied"}]
      /\ lSock \in [Sessions -> {"none", "open", "closed"}]
  BY DEF TypeOK, ControlType, ConnectionType
<1>b. ASSUME CalleeEnds(s) PROVE callee'[s] = "done"
  BY <1>a, <1>b DEF CalleeEnds
<1>c. ASSUME NEW k, CalleeGoto(s, k) PROVE callee'[s] = k /\ lSock'[s] = lSock[s]
  BY <1>a, <1>c DEF CalleeGoto
<1>d. ASSUME NEW m, CalleeReads(s, m)
      PROVE  /\ toCallee[s] # <<>> /\ toCallee'[s] = Tail(toCallee[s])
             /\ toCaller'[s] = toCaller[s]
  BY <1>a, <1>d DEF CalleeReads
<1>e. ASSUME NEW m, CalleeSends(s, m), toCaller[s] = <<>>
      PROVE  toCaller'[s] = <<m>> /\ toCallee'[s] = toCallee[s]
  BY <1>a, <1>e DEF CalleeSends
<1>f. ~SendFails(s)
  BY DEF SendFails, Undisturbed
<1>g. CalmQueues(s) /\ Answers(s) /\ Requests(s) /\ Decided(s) /\ callee[s] \in Reached(caller[s])
  BY DEF SessionInStep, Calm
<1>h. /\ caller'[s] = caller[s] /\ outcome'[s] = outcome[s] /\ cSock'[s] = cSock[s]
      /\ presented'[s] = presented[s]
  BY DEF CalleeStep, Accept, ReadRequest, SendRejection, SendAcceptance, SendAuthRequest,
     ReadPassword, Verify, SendVerdict, CalleeGivesUp, CalleeOnly
<1>i. caller[s] = "done" => toCallee[s] = <<>> /\ toCaller[s] = <<>> /\ Explained(s)
  BY DEF Calm, CalmQueues
<1>j. ASSUME callee'[s] # "done", lSock'[s] # "closed", caller[s] # "done"
      PROVE  Calm(s)'
  BY <1>g, <1>h, <1>j DEF Calm, CalmQueues
<1>k. callee[s] # "done" => lSock[s] # "closed"
  BY <1>g DEF CalmQueues
<1>l. ASSUME callee[s] \in {"backlog", "request", "reject", "accept", "askPassword", "verify",
                            "grant", "deny"}
      PROVE  caller[s] # "done"
  BY <1>i, <1>l DEF Explained
<1>1. CASE Accept(s)
  <2>1. callee[s] = "backlog" /\ callee'[s] = "request" /\ lSock'[s] = "open"
    BY <1>1, <1>a DEF Accept, CalleeAt, Undisturbed
  <2>. QED  BY <1>j, <1>l, <2>1
<1>2. CASE ReadRequest(s)
  <2>1. PICK d \in Decisions : CalleeGoto(s, d)
    BY <1>2 DEF ReadRequest
  <2>2. callee[s] = "request" /\ callee'[s] = d /\ d # "done" /\ lSock'[s] = lSock[s]
    BY <1>2, <1>c, <2>1, SessionAssumption DEF ReadRequest, CalleeAt
  <2>. QED  BY <1>j, <1>k, <1>l, <2>2
<1>3. CASE SendRejection(s)
  <2>1. callee[s] = "reject" /\ callee'[s] = "done" /\ CalleeSends(s, "SESSION_REJECTED")
    BY <1>3, <1>b, <1>f DEF SendRejection, CalleeAt
  <2>2. caller[s] = "answer"
    BY <1>g, <1>l, <2>1 DEF Reached, TypeOK, ControlType, CallerSteps
  <2>3. toCaller[s] = <<>> /\ toCallee[s] = <<>>
    BY <1>g, <2>1, <2>2 DEF Answers, Requests
  <2>4. toCaller'[s] = <<"SESSION_REJECTED">> /\ toCallee'[s] = <<>>
    BY <1>e, <2>1, <2>3
  <2>. QED  BY <1>g, <1>h, <2>1, <2>2, <2>4 DEF Calm, CalmQueues
<1>4. CASE SendAcceptance(s)
  <2>1. callee[s] = "accept" /\ callee'[s] = "askPassword" /\ lSock'[s] = lSock[s]
    BY <1>4, <1>c, <1>f DEF SendAcceptance, CalleeAt
  <2>. QED  BY <1>j, <1>k, <1>l, <2>1
<1>5. CASE SendAuthRequest(s)
  <2>1. callee[s] = "askPassword" /\ callee'[s] = "password" /\ lSock'[s] = lSock[s]
    BY <1>5, <1>c, <1>f DEF SendAuthRequest, CalleeAt
  <2>. QED  BY <1>j, <1>k, <1>l, <2>1
<1>6. CASE ReadPassword(s)
  <2>1. /\ callee[s] = "password" /\ callee'[s] = "verify" /\ lSock'[s] = lSock[s]
        /\ toCallee[s] # <<>>
    BY <1>6, <1>c, <1>d DEF ReadPassword, CalleeAt
  <2>2. caller[s] # "done"
    BY <1>i, <2>1
  <2>. QED  BY <1>j, <1>k, <2>1, <2>2
<1>7. CASE Verify(s)
  <2>1. /\ callee[s] = "verify" /\ callee'[s] \in {"grant", "deny"}
        /\ lSock'[s] = lSock[s]
    BY <1>7, <1>c DEF Verify, CalleeAt
  <2>. QED  BY <1>j, <1>k, <1>l, <2>1
<1>8. CASE SendVerdict(s)
  <2>0. callee[s] \in {"grant", "deny"} /\ caller[s] = "final" /\ toCaller[s] = <<>>
        /\ toCallee[s] = <<>>
    <3>1. callee[s] \in {"grant", "deny"}
      BY <1>8 DEF SendVerdict, CalleeAt
    <3>2. caller[s] = "final"
      BY <1>g, <1>l, <3>1 DEF Reached, TypeOK, ControlType, CallerSteps
    <3>. QED  BY <1>g, <3>1, <3>2 DEF Answers, Requests
  <2>1. CASE CalleeSends(s, "AUTH_SUCCESS") /\ CalleeGoto(s, "stream")
    BY <1>c, <1>j, <1>k, <2>0, <2>1
  <2>2. CASE CalleeSends(s, "AUTH_FAILED") /\ CalleeEnds(s)
    <3>1. callee'[s] = "done" /\ toCaller'[s] = <<"AUTH_FAILED">> /\ toCallee'[s] = <<>>
      BY <1>b, <1>e, <2>0, <2>2
    <3>. QED  BY <1>g, <1>h, <2>0, <3>1 DEF Calm, CalmQueues
  <2>. QED  BY <1>8, <1>f, <2>1, <2>2 DEF SendVerdict
<1>9. CASE CalleeGivesUp(s)
  <2>1. /\ callee[s] \in {"request", "password", "stream"} /\ callee'[s] = "done"
        /\ toCallee[s] = <<>> /\ cSock[s] = "closed"
        /\ verdict'[s] = verdict[s] /\ toCallee'[s] = toCallee[s]
        /\ toCaller'[s] = toCaller[s]
    BY <1>9, <1>b DEF CalleeGivesUp, CalleeWaits, CalleeAt, Undisturbed, Peaceful
  <2>2. caller[s] = "done"
    BY <1>g, <2>1 DEF CalmQueues, TypeOK, ControlType, CallerSteps
  <2>3. CalmQueues(s)'
    BY <1>h, <1>i, <2>1, <2>2 DEF CalmQueues
  <2>4. Explained(s)'
    BY <1>h, <1>i, <2>1, <2>2 DEF Explained
  <2>. QED  BY <1>h, <2>2, <2>3, <2>4 DEF Calm
<1>. QED  BY <1>1, <1>2, <1>3, <1>4, <1>5, <1>6, <1>7, <1>8, <1>9 DEF CalleeStep

\* No step disturbs the calm of a session it leaves undisturbed.
LEMMA NextCalm ==
  ASSUME SessionInv, CalmInv, Peaceful, [Next]_vars
  PROVE  CalmInv'
<1>. USE DEF passwordVars, callerVars, calleeVars, wireVars
<1>1. SUFFICES ASSUME NEW t \in Sessions, Undisturbed(t)' PROVE Calm(t)'
  BY DEF CalmInv
<1>2. TypeOK /\ SessionInStep(t)
  BY DEF SessionInv, InStep, SessionInStep
<1>3. Undisturbed(t) /\ Calm(t)
  BY <1>1, <1>2, StaysDisturbed DEF CalmInv
<1>4. ASSUME NEW s \in Sessions, CallerStep(s) PROVE Calm(t)'
  BY <1>2, <1>3, <1>4, CallerStaysCalm, ElsewhereAtRest, RestsCalm
<1>5. ASSUME NEW s \in Sessions, CalleeStep(s) PROVE Calm(t)'
  BY <1>2, <1>3, <1>5, CalleeStaysCalm, ElsewhereAtRest, RestsCalm
<1>6. ASSUME UNCHANGED <<callerVars, calleeVars, toCallee, toCaller>> PROVE Calm(t)'
  BY <1>3, <1>6, RestsCalm DEF AtRest, Untouched
<1>7. ASSUME NEW s \in Sessions, LinkFails(s) PROVE Calm(t)'
  BY <1>6, <1>7 DEF LinkFails
<1>8. ASSUME NEW n \in Nodes, StopListener(n) PROVE Calm(t)'
  BY <1>6, <1>8 DEF StopListener
<1>9. ASSUME NEW n \in Nodes,
             (\E p \in Raw : UpdateAuth(n, p)) \/ (\E k \in 1..MaxUpdates : UpdateApp(n, k))
      PROVE  Calm(t)'
  BY <1>6, <1>9 DEF UpdateAuth, UpdateApp, SessionsUnchanged
<1>10. CASE UNCHANGED vars
  BY <1>6, <1>10 DEF vars
<1>. QED  BY <1>4, <1>5, <1>7, <1>8, <1>9, <1>10 DEF Next, Stutter

\* No call has begun.
LEMMA InitCalm == Init => CalmInv
  BY DEF Init, CalmInv, Calm, CalmQueues

\* A call whose connection held and whose callee kept listening ends as the
\* callee decided, and in an error only for a password of blanks: neither
\* _open_authenticated_session_internal nor _handle_client closes on something
\* the other has still to read.
THEOREM OutcomesExplained ==
  ASSUME {"timeout", "refused"} \cap SessionFaults = {}
  PROVE  Spec => []OutcomeIsExplained
<1>1. SessionInv /\ CalmInv /\ [Next]_vars => CalmInv'
  BY NextCalm DEF Peaceful
<1>2. CalmInv => OutcomeIsExplained
  BY DEF CalmInv, Calm, OutcomeIsExplained
<1>. QED  BY <1>1, <1>2, InitCalm, SessionInvariantHolds, PTL DEF Spec

\* With no fault at all the kernel resets no connection: nobody closes with a
\* message unread.
LEMMA NextUnbroken ==
  ASSUME SessionFaults = {}, TypeOK, CalmInv, NothingBroken, [Next]_vars
  PROVE  NothingBroken'
<1>. USE DEF passwordVars, callerVars, calleeVars, wireVars, NothingBroken, Undisturbed
<1>a. ASSUME NEW s \in Sessions PROVE ~LinkFails(s)
  <2>1. Calm(s)
    BY DEF CalmInv
  <2>2. lSock[s] = "closed" => toCallee[s] = <<>>
    BY <2>1 DEF Calm, CalmQueues
  <2>3. cSock[s] = "closed" => toCaller[s] = <<>>
    BY <2>1 DEF Calm, CalmQueues, TypeOK, ControlType, CallerSteps
  <2>. QED  BY <2>2, <2>3 DEF LinkFails
<1>b. ASSUME NEW n \in Nodes PROVE ~StopListener(n)
  BY DEF StopListener
<1>1. ASSUME NEW s \in Sessions, CallerStep(s) PROVE UNCHANGED <<link, serving>>
  BY <1>1 DEF CallerStep, StartSession, Connect, SendRequest, ReadAnswer, ReadAuthRequest,
     SendPassword, ReadVerdict, CallerGivesUp, CloseSocket, CallerOnly
<1>2. ASSUME NEW s \in Sessions, CalleeStep(s) PROVE UNCHANGED <<link, serving>>
  BY <1>2 DEF CalleeStep, Accept, ReadRequest, SendRejection, SendAcceptance, SendAuthRequest,
     ReadPassword, Verify, SendVerdict, CalleeGivesUp, CalleeOnly
<1>3. ASSUME NEW n \in Nodes, NEW k \in 1..MaxUpdates, UpdateApp(n, k)
      PROVE  UNCHANGED <<link, serving>>
  BY <1>3 DEF UpdateApp, SessionsUnchanged
<1>4. ASSUME NEW n \in Nodes, NEW p \in Raw, UpdateAuth(n, p) PROVE UNCHANGED <<link, serving>>
  BY <1>4 DEF UpdateAuth, SessionsUnchanged
<1>5. UNCHANGED vars => UNCHANGED <<link, serving>>
  BY DEF vars
<1>. QED  BY <1>a, <1>b, <1>1, <1>2, <1>3, <1>4, <1>5 DEF Next, Stutter

\* Without updates what the callee holds stays what it was when the call began,
\* and a listener that accepts every session rejects none.
LEMMA NextOnePassword ==
  ASSUME MaxUpdates = 0, Decisions = {"accept"}, TypeOK, OnePassword, [Next]_vars
  PROVE  OnePassword'
<1>. USE DEF passwordVars, callerVars, calleeVars
<1>1. SUFFICES ASSUME NEW t \in Sessions
               PROVE  /\ caller'[t] # "idle" => held'[t] = {auth'[Callee[t]]}
                      /\ verdict'[t] # "rejected"
  BY DEF OnePassword
<1>a. /\ caller \in [Sessions -> CallerSteps] /\ updates \in 0..0
      /\ verdict \in [Sessions -> {"none", "rejected", "granted", "denied"}]
      /\ held \in [Sessions -> SUBSET {Norm[p] : p \in Raw}]
  BY DEF TypeOK, PasswordType, ControlType
<1>b. ASSUME UNCHANGED <<auth, held>>, caller[t] = "idle" => caller'[t] = "idle",
             verdict'[t] # "rejected"
      PROVE  /\ caller'[t] # "idle" => held'[t] = {auth'[Callee[t]]}
             /\ verdict'[t] # "rejected"
  BY <1>b DEF OnePassword
<1>c. verdict[t] # "rejected"
  BY DEF OnePassword
<1>2. ASSUME NEW s \in Sessions, StartSession(s)
      PROVE  /\ caller'[t] # "idle" => held'[t] = {auth'[Callee[t]]}
             /\ verdict'[t] # "rejected"
  <2>1. /\ UNCHANGED <<auth, verdict>>
        /\ held'[t] = IF t = s THEN {auth[Callee[t]]} ELSE held[t]
        /\ t # s => caller'[t] = caller[t]
    BY <1>2, <1>a DEF StartSession, CallerGoto
  <2>. QED  BY <1>c, <2>1 DEF OnePassword
<1>3. ASSUME NEW s \in Sessions, CallerStep(s), ~StartSession(s)
      PROVE  /\ UNCHANGED <<auth, held, verdict>>
             /\ caller[t] = "idle" => caller'[t] = "idle"
  <2>1. UNCHANGED <<auth, held, verdict>>
    BY <1>3 DEF CallerStep, Connect, SendRequest, ReadAnswer, ReadAuthRequest,
       SendPassword, ReadVerdict, CallerGivesUp, CloseSocket, CallerOnly
  <2>2. ASSUME t # s PROVE caller'[t] = caller[t]
    BY <1>3, <2>2, CallerElsewhere DEF Untouched
  <2>3. CASE t = s /\ caller[s] = "idle"
    BY <1>3, <2>3 DEF CallerStep, Connect, SendRequest, ReadAnswer, ReadAuthRequest,
       SendPassword, ReadVerdict, CallerGivesUp, CallerWaits, CloseSocket, CallerAt
  <2>. QED  BY <2>1, <2>2, <2>3
<1>4. ASSUME NEW s \in Sessions, CalleeStep(s)
      PROVE  UNCHANGED <<auth, held, caller>> /\ verdict'[t] # "rejected"
  <2>1. UNCHANGED <<auth, held, caller>>
    BY <1>4 DEF CalleeStep, Accept, ReadRequest, SendRejection, SendAcceptance,
       SendAuthRequest, ReadPassword, Verify, SendVerdict, CalleeGivesUp, CalleeOnly
  <2>2. ASSUME Verify(s) PROVE verdict'[t] # "rejected"
    BY <2>2, <1>a, <1>c DEF Verify, Decide
  <2>3. ASSUME ReadRequest(s) PROVE verdict'[t] # "rejected"
    BY <2>3, <1>c DEF ReadRequest
  <2>4. ASSUME UNCHANGED verdict PROVE verdict'[t] # "rejected"
    BY <2>4, <1>c
  <2>. QED  BY <1>4, <2>1, <2>2, <2>3, <2>4 DEF CalleeStep, Accept, SendRejection,
               SendAcceptance, SendAuthRequest, ReadPassword, SendVerdict, CalleeGivesUp
<1>5. ASSUME NEW n \in Nodes, NEW p \in Raw PROVE ~UpdateAuth(n, p)
  BY <1>a DEF UpdateAuth
<1>6. ASSUME UNCHANGED <<auth, held, caller, verdict>>
      PROVE  /\ caller'[t] # "idle" => held'[t] = {auth'[Callee[t]]}
             /\ verdict'[t] # "rejected"
  BY <1>6, <1>b, <1>c
<1>7. ASSUME NEW s \in Sessions, LinkFails(s) PROVE UNCHANGED <<auth, held, caller, verdict>>
  BY <1>7 DEF LinkFails
<1>8. ASSUME NEW n \in Nodes,
             StopListener(n) \/ \E k \in 1..MaxUpdates : UpdateApp(n, k)
      PROVE  UNCHANGED <<auth, held, caller, verdict>>
  BY <1>8 DEF UpdateApp, StopListener, SessionsUnchanged
<1>9. UNCHANGED vars => UNCHANGED <<auth, held, caller, verdict>>
  BY DEF vars
<1>. QED  BY <1>b, <1>c, <1>2, <1>3, <1>4, <1>5, <1>6, <1>7, <1>8, <1>9 DEF Next, Stutter

\* With nothing broken, no update and a callee that accepts, every call that is
\* over was told what its password deserves, for any number of nodes, sessions
\* and passwords.
THEOREM OutcomesDeserved ==
  ASSUME SessionFaults = {}, MaxUpdates = 0, Decisions = {"accept"}
  PROVE  Spec => []DeservedWhenDone
<1>1. Init => QuietInv
  <2>1. Init => NothingBroken /\ OnePassword
    BY SessionAssumption DEF Init, NothingBroken, Undisturbed, OnePassword
  <2>. QED  BY <2>1, InitCalm DEF QuietInv
<1>2. SessionInv /\ QuietInv /\ [Next]_vars => QuietInv'
  <2>1. ASSUME SessionInv, QuietInv, [Next]_vars PROVE CalmInv'
    BY <2>1, NextCalm DEF Peaceful, QuietInv
  <2>2. ASSUME SessionInv, QuietInv, [Next]_vars PROVE NothingBroken' /\ OnePassword'
    BY <2>2, NextUnbroken, NextOnePassword DEF SessionInv, QuietInv
  <2>. QED  BY <2>1, <2>2 DEF QuietInv
<1>3. SessionInv /\ QuietInv => DeservedWhenDone
  <2>. SUFFICES ASSUME SessionInv, QuietInv, NEW s \in Sessions, caller[s] = "done"
                PROVE  outcome[s] = Deserved(s)
    BY DEF DeservedWhenDone
  <2>1. Explained(s)
    BY DEF QuietInv, CalmInv, NothingBroken, Calm
  <2>2. held[s] = {auth[Callee[s]]} /\ verdict[s] # "rejected"
    BY DEF QuietInv, OnePassword
  <2>3. /\ verdict[s] = "granted" => Norm[presented[s]] = auth[Callee[s]]
        /\ verdict[s] = "denied" => Norm[presented[s]] # auth[Callee[s]]
    BY <2>2 DEF SessionInv, VerdictIsGenuine
  <2>4. auth[Callee[s]] # Blank
    BY SessionAssumption DEF SessionInv, CopiesAgree
  <2>. QED  BY <2>1, <2>2, <2>3, <2>4 DEF Explained, Deserved
<1>. QED  BY <1>1, <1>2, <1>3, SessionInvariantHolds, PTL DEF Spec
=============================================================================
