------------------------------ MODULE Session ------------------------------
(***************************************************************************)
(* The handshake that opens the sessions of NodeDrop.                      *)
(*                                                                         *)
(*  - a caller thread runs SessionClient._open_authenticated_session_internal *)
(*    on behalf of AppManager.request_session or send_transfer;            *)
(*  - a client thread of the callee's SessionListener runs _handle_client; *)
(*  - AppManager.update_shared_password replaces a node's password in two  *)
(*    writes, without a lock, so that two calls may overlap; and           *)
(*    SessionListener.stop may come at any time;                           *)
(*  - one TCP connection per session, which may fall silent or break.      *)
(*                                                                         *)
(* Sessions meet only in the passwords and in the listener's stop event.   *)
(* What flows after AUTH_SUCCESS is the subject of module Transfer.        *)
(***************************************************************************)
EXTENDS Naturals, Sequences

CONSTANTS
    Nodes,
    Sessions,      \* one element per call of request_session or send_transfer
    Caller, Callee,   \* the two nodes of each session
    Raw,           \* passwords as typed
    Norm,          \* Norm[p]: p stripped, as validation and AuthManager do
    Blank,         \* the normal form of a password of blanks
    Overrides,     \* what the password argument of a call may be
    NoOverride,
    FirstPassword, \* the shared password each node starts with
    Decisions,     \* what the session request callback may answer
    MaxUpdates,    \* bound: calls of update_shared_password, of all nodes
    SessionFaults  \* what may go wrong in this instance

ASSUME SessionAssumption ==
    /\ Caller \in [Sessions -> Nodes] /\ Callee \in [Sessions -> Nodes]
    /\ NoOverride \notin Raw
    /\ Overrides \subseteq Raw \cup {NoOverride}
    /\ Decisions \subseteq {"accept", "reject"} /\ Decisions # {}
    /\ MaxUpdates \in Nat
    /\ SessionFaults \subseteq {"net", "timeout", "stop", "refused"}

\* AuthManager refuses to be created with a blank password.
ASSUME PasswordAssumption ==
    /\ FirstPassword \in [Nodes -> Raw]
    /\ \A n \in Nodes : Norm[FirstPassword[n]] # Blank

VARIABLES
    auth,       \* AuthManager._shared_password of each node, normalized
    app,        \* AppManager._shared_password of each node, as typed
    updates,    \* how many updates were asked for
    updating,   \* the password each has still to give a node, or NoOverride
    overlapped, \* whether the last to write auth began while another was due
    serving,    \* whether the stop event of the node's listener is clear
    caller,     \* statement of the caller thread of each session
    presented,  \* the password it resolved, or NoOverride
    outcome,    \* how its call ended
    callee,     \* statement of the listener's client thread
    verdict,    \* what the listener decided about the session
    cSock, lSock,        \* the two ends of the connection
    link,                \* "up", "silent" or "reset"
    toCallee, toCaller,  \* messages in flight
    held        \* passwords the callee verified against during the session

passwordVars == <<auth, app, updates, updating, overlapped, held>>
callerVars == <<caller, presented, outcome, cSock>>
calleeVars == <<callee, verdict, lSock>>
wireVars == <<link, toCallee, toCaller>>
vars == <<passwordVars, serving, callerVars, calleeVars, wireVars>>

-----------------------------------------------------------------------------
MessageType == {"SESSION_REQUEST", "SESSION_ACCEPTED", "SESSION_REJECTED",
                "AUTH_REQUEST", "AUTH_RESPONSE", "AUTH_SUCCESS", "AUTH_FAILED"}

CallerSteps == {"idle", "connect", "request", "answer", "authRequest",
                "respond", "final", "done"}
CalleeSteps == {"none", "backlog", "request", "reject", "accept", "askPassword",
                "password", "verify", "grant", "deny", "stream", "done"}

PasswordType ==
    /\ auth \in [Nodes -> {Norm[p] : p \in Raw}]
    /\ app \in [Nodes -> Raw]
    /\ updates \in 0..MaxUpdates
    /\ updating \in [Nodes -> [1..MaxUpdates -> Raw \cup {NoOverride}]]
    /\ overlapped \in [Nodes -> BOOLEAN]
    /\ held \in [Sessions -> SUBSET {Norm[p] : p \in Raw}]

ControlType ==
    /\ serving \in [Nodes -> BOOLEAN]
    /\ caller \in [Sessions -> CallerSteps]
    /\ presented \in [Sessions -> Raw \cup {NoOverride}]
    /\ outcome \in [Sessions -> {"none", "success", "rejected", "failed", "error"}]
    /\ callee \in [Sessions -> CalleeSteps]
    /\ verdict \in [Sessions -> {"none", "rejected", "granted", "denied"}]

ConnectionType ==
    /\ cSock \in [Sessions -> {"none", "open", "dropped", "closed"}]
    /\ lSock \in [Sessions -> {"none", "open", "closed"}]
    /\ link \in [Sessions -> {"up", "silent", "reset"}]
    /\ toCallee \in [Sessions -> Seq(MessageType)]
    /\ toCaller \in [Sessions -> Seq(MessageType)]

\* Passwords, control and connection have their types in every state.
TypeOK == PasswordType /\ ControlType /\ ConnectionType

Init ==
    /\ auth = [n \in Nodes |-> Norm[FirstPassword[n]]]
    /\ app = FirstPassword
    /\ updates = 0
    /\ updating = [n \in Nodes |-> [k \in 1..MaxUpdates |-> NoOverride]]
    /\ overlapped = [n \in Nodes |-> FALSE]
    /\ serving = [n \in Nodes |-> TRUE]
    /\ caller = [s \in Sessions |-> "idle"]
    /\ presented = [s \in Sessions |-> NoOverride]
    /\ outcome = [s \in Sessions |-> "none"]
    /\ callee = [s \in Sessions |-> "none"]
    /\ verdict = [s \in Sessions |-> "none"]
    /\ cSock = [s \in Sessions |-> "none"]
    /\ lSock = [s \in Sessions |-> "none"]
    /\ link = [s \in Sessions |-> "up"]
    /\ toCallee = [s \in Sessions |-> <<>>]
    /\ toCaller = [s \in Sessions |-> <<>>]
    /\ held = [s \in Sessions |-> {}]

-----------------------------------------------------------------------------
(* The caller thread.                                                      *)

CallerAt(s, step) == caller[s] = step
CallerGoto(s, step) == /\ caller' = [caller EXCEPT ![s] = step]
                       /\ UNCHANGED <<outcome, cSock>>
\* The call ends with outcome o, its socket in state k: an exception the
\* method does not catch leaves the socket to the interpreter.
CallerEnds(s, o, k) == /\ caller' = [caller EXCEPT ![s] = "done"]
                       /\ outcome' = [outcome EXCEPT ![s] = o]
                       /\ cSock' = [cSock EXCEPT ![s] = k]

CallerOnly == UNCHANGED <<passwordVars, serving, presented, calleeVars, link>>

CallerCanSend(s) == link[s] # "reset"
CallerReads(s, m) == /\ link[s] = "up" /\ toCaller[s] # <<>>
                     /\ Head(toCaller[s]) = m
                     /\ toCaller' = [toCaller EXCEPT ![s] = Tail(@)]

\* send_message: a failure is a SessionConnectionError, caught by nobody here.
CallerSends(s, m, next) ==
    /\ UNCHANGED toCaller
    /\ \/ /\ CallerCanSend(s)
          /\ toCallee' = [toCallee EXCEPT ![s] = Append(@, m)]
          /\ CallerGoto(s, next)
       \/ /\ ~CallerCanSend(s)
          /\ CallerEnds(s, "error", "dropped")
          /\ UNCHANGED toCallee

\* request_session of AppManager: _resolve_outgoing_password.
StartSession(s) ==
    /\ CallerAt(s, "idle")
    /\ CallerGoto(s, "connect")
    /\ \E o \in Overrides :
          presented' = [presented EXCEPT ![s] =
                            IF o = NoOverride THEN app[Caller[s]] ELSE o]
    /\ held' = [held EXCEPT ![s] = {auth[Callee[s]]}]
    /\ UNCHANGED <<auth, app, updates, updating, overlapped, serving, calleeVars,
                   wireVars>>

\* The connection is made as soon as the callee's kernel queues it.
Connect(s) ==
    /\ CallerAt(s, "connect")
    /\ \/ /\ serving[Callee[s]]
          /\ caller' = [caller EXCEPT ![s] = "request"]
          /\ cSock' = [cSock EXCEPT ![s] = "open"]
          /\ callee' = [callee EXCEPT ![s] = "backlog"]
          /\ UNCHANGED outcome
       \/ /\ ~serving[Callee[s]] \/ "refused" \in SessionFaults
          /\ CallerEnds(s, "error", "none")
          /\ UNCHANGED callee
    /\ UNCHANGED <<passwordVars, serving, presented, verdict, lSock, wireVars>>

SendRequest(s) ==
    /\ CallerAt(s, "request")
    /\ CallerSends(s, "SESSION_REQUEST", "answer")
    /\ CallerOnly

ReadAnswer(s) ==
    /\ CallerAt(s, "answer")
    /\ \/ CallerReads(s, "SESSION_ACCEPTED") /\ CallerGoto(s, "authRequest")
       \/ CallerReads(s, "SESSION_REJECTED") /\ CallerEnds(s, "rejected", "closed")
    /\ CallerOnly /\ UNCHANGED toCallee

ReadAuthRequest(s) ==
    /\ CallerAt(s, "authRequest")
    /\ CallerReads(s, "AUTH_REQUEST") /\ CallerGoto(s, "respond")
    /\ CallerOnly /\ UNCHANGED toCallee

\* create_message refuses a blank password.
SendPassword(s) ==
    /\ CallerAt(s, "respond")
    /\ IF Norm[presented[s]] = Blank
       THEN CallerEnds(s, "error", "dropped") /\ UNCHANGED <<toCallee, toCaller>>
       ELSE CallerSends(s, "AUTH_RESPONSE", "final")
    /\ CallerOnly

\* send_transfer keeps the socket of a session that was granted; request_session
\* closes it whatever the answer.
ReadVerdict(s) ==
    /\ CallerAt(s, "final")
    /\ \/ /\ CallerReads(s, "AUTH_SUCCESS")
          /\ \E k \in {"open", "closed"} : CallerEnds(s, "success", k)
       \/ /\ CallerReads(s, "AUTH_FAILED")
          /\ CallerEnds(s, "failed", "closed")
    /\ CallerOnly /\ UNCHANGED toCallee

CallerWaits(s) == caller[s] \in {"answer", "authRequest", "final"}

\* Mutant: the socket of the call has no timeout.
CallerGivesUpWhenTold(s) ==
    /\ CallerWaits(s)
    /\ \/ link[s] = "reset" /\ CallerEnds(s, "error", "closed")
       \/ /\ link[s] = "up" /\ toCaller[s] = <<>> /\ lSock[s] = "closed"
          /\ CallerEnds(s, "error", "dropped")
    /\ CallerOnly /\ UNCHANGED <<toCallee, toCaller>>

\* The read fails: a timeout or a reset is caught and closes the socket; the
\* end of the stream is a SessionProtocolError, which is not.
CallerGivesUp(s) ==
    /\ CallerWaits(s)
    /\ \/ /\ \/ link[s] \in {"silent", "reset"}
             \/ "timeout" \in SessionFaults /\ toCaller[s] = <<>>
          /\ CallerEnds(s, "error", "closed")
       \/ /\ link[s] = "up" /\ toCaller[s] = <<>> /\ lSock[s] = "closed"
          /\ CallerEnds(s, "error", "dropped")
    /\ CallerOnly /\ UNCHANGED <<toCallee, toCaller>>

\* The rest of a persistent session, which ends with its socket closed; and
\* the interpreter, which closes a socket nobody refers to.
CloseSocket(s) ==
    /\ CallerAt(s, "done") /\ cSock[s] \in {"open", "dropped"}
    /\ cSock' = [cSock EXCEPT ![s] = "closed"]
    /\ UNCHANGED <<passwordVars, serving, caller, presented, outcome, calleeVars,
                   wireVars>>

CallerStep(s) ==
    \/ StartSession(s) \/ Connect(s) \/ SendRequest(s) \/ ReadAnswer(s)
    \/ ReadAuthRequest(s) \/ SendPassword(s) \/ ReadVerdict(s)
    \/ CallerGivesUp(s) \/ CloseSocket(s)

-----------------------------------------------------------------------------
(* The client thread of the callee's listener.                             *)

CalleeAt(s, step) == callee[s] = step
CalleeGoto(s, step) == /\ callee' = [callee EXCEPT ![s] = step]
                       /\ UNCHANGED lSock
\* Every way out of _handle_client closes the socket.
CalleeEnds(s) == /\ callee' = [callee EXCEPT ![s] = "done"]
                 /\ lSock' = [lSock EXCEPT ![s] = "closed"]
Decide(s, v) == verdict' = [verdict EXCEPT ![s] = v]

CalleeOnly == UNCHANGED <<passwordVars, serving, callerVars, link>>

CalleeReads(s, m) == /\ link[s] = "up" /\ toCallee[s] # <<>>
                     /\ Head(toCallee[s]) = m
                     /\ toCallee' = [toCallee EXCEPT ![s] = Tail(@)]
                     /\ UNCHANGED toCaller

CalleeSends(s, m) ==
    /\ link[s] # "reset"
    /\ toCaller' = [toCaller EXCEPT ![s] = Append(@, m)]
    /\ UNCHANGED toCallee
SendFails(s) == link[s] = "reset" /\ CalleeEnds(s) /\ UNCHANGED <<toCaller, toCallee>>

\* The server loop takes the connection; one that waits when the listener
\* stops is reset by the kernel.
Accept(s) ==
    /\ CalleeAt(s, "backlog")
    /\ \/ /\ serving[Callee[s]]
          /\ callee' = [callee EXCEPT ![s] = "request"]
          /\ lSock' = [lSock EXCEPT ![s] = "open"]
          /\ UNCHANGED link
       \/ /\ ~serving[Callee[s]]
          /\ callee' = [callee EXCEPT ![s] = "done"]
          /\ link' = [link EXCEPT ![s] = "reset"]
          /\ UNCHANGED lSock
    /\ UNCHANGED <<passwordVars, serving, callerVars, verdict, toCallee, toCaller>>

\* _handle_session_request: the callback accepts, rejects or raises; raising
\* rejects.
ReadRequest(s) ==
    /\ CalleeAt(s, "request")
    /\ CalleeReads(s, "SESSION_REQUEST")
    /\ \E d \in Decisions :
          /\ CalleeGoto(s, d)
          /\ IF d = "reject" THEN Decide(s, "rejected") ELSE UNCHANGED verdict
    /\ CalleeOnly

SendRejection(s) ==
    /\ CalleeAt(s, "reject")
    /\ \/ CalleeSends(s, "SESSION_REJECTED") /\ CalleeEnds(s)
       \/ SendFails(s)
    /\ CalleeOnly /\ UNCHANGED verdict

\* Mutant: AUTH_REQUEST comes without SESSION_ACCEPTED.
SendAcceptanceForgotten(s) ==
    /\ CalleeAt(s, "accept")
    /\ CalleeGoto(s, "askPassword")
    /\ CalleeOnly /\ UNCHANGED <<verdict, toCallee, toCaller>>

SendAcceptance(s) ==
    /\ CalleeAt(s, "accept")
    /\ \/ CalleeSends(s, "SESSION_ACCEPTED") /\ CalleeGoto(s, "askPassword")
       \/ SendFails(s)
    /\ CalleeOnly /\ UNCHANGED verdict

\* Mutant: AUTH_REQUEST is never written.
SendAuthRequestForgotten(s) ==
    /\ CalleeAt(s, "askPassword")
    /\ CalleeGoto(s, "password")
    /\ CalleeOnly /\ UNCHANGED <<verdict, toCallee, toCaller>>

SendAuthRequest(s) ==
    /\ CalleeAt(s, "askPassword")
    /\ \/ CalleeSends(s, "AUTH_REQUEST") /\ CalleeGoto(s, "password")
       \/ SendFails(s)
    /\ CalleeOnly /\ UNCHANGED verdict

ReadPassword(s) ==
    /\ CalleeAt(s, "password")
    /\ CalleeReads(s, "AUTH_RESPONSE") /\ CalleeGoto(s, "verify")
    /\ CalleeOnly /\ UNCHANGED verdict

\* Mutant: the password is compared with what AppManager keeps.
VerifyAgainstApp(s) ==
    /\ CalleeAt(s, "verify")
    /\ \/ /\ Norm[presented[s]] = app[Callee[s]]
          /\ Decide(s, "granted") /\ CalleeGoto(s, "grant")
       \/ /\ Norm[presented[s]] # app[Callee[s]]
          /\ Decide(s, "denied") /\ CalleeGoto(s, "deny")
    /\ CalleeOnly /\ UNCHANGED <<toCallee, toCaller>>

\* AuthManager.verify_password.
Verify(s) ==
    /\ CalleeAt(s, "verify")
    /\ \/ /\ Norm[presented[s]] = auth[Callee[s]]
          /\ Decide(s, "granted") /\ CalleeGoto(s, "grant")
       \/ /\ Norm[presented[s]] # auth[Callee[s]]
          /\ Decide(s, "denied") /\ CalleeGoto(s, "deny")
    /\ CalleeOnly /\ UNCHANGED <<toCallee, toCaller>>

\* Mutant: the answer is AUTH_SUCCESS before the verdict is looked at.
SendVerdictTooSoon(s) ==
    /\ callee[s] \in {"grant", "deny"}
    /\ \/ CalleeSends(s, "AUTH_SUCCESS")
          /\ IF CalleeAt(s, "grant") THEN CalleeGoto(s, "stream") ELSE CalleeEnds(s)
       \/ SendFails(s)
    /\ CalleeOnly /\ UNCHANGED verdict

SendVerdict(s) ==
    /\ \/ CalleeAt(s, "grant") /\ CalleeSends(s, "AUTH_SUCCESS") /\ CalleeGoto(s, "stream")
       \/ CalleeAt(s, "deny") /\ CalleeSends(s, "AUTH_FAILED") /\ CalleeEnds(s)
       \/ callee[s] \in {"grant", "deny"} /\ SendFails(s)
    /\ CalleeOnly /\ UNCHANGED verdict

CalleeWaits(s) == callee[s] \in {"request", "password", "stream"}

\* Mutant: the accepted socket has no timeout.
CalleeGivesUpWhenTold(s) ==
    /\ CalleeWaits(s)
    /\ \/ link[s] = "reset"
       \/ link[s] = "up" /\ toCallee[s] = <<>> /\ cSock[s] = "closed"
    /\ CalleeEnds(s) /\ CalleeOnly /\ UNCHANGED <<verdict, toCallee, toCaller>>

\* Timeout, reset or end of the stream; only the authenticated stream looks at
\* the stop event.
CalleeGivesUp(s) ==
    /\ CalleeWaits(s)
    /\ \/ link[s] \in {"silent", "reset"}
       \/ "timeout" \in SessionFaults /\ toCallee[s] = <<>>
       \/ link[s] = "up" /\ toCallee[s] = <<>> /\ cSock[s] = "closed"
       \/ CalleeAt(s, "stream") /\ ~serving[Callee[s]]
    /\ CalleeEnds(s) /\ CalleeOnly /\ UNCHANGED <<verdict, toCallee, toCaller>>

CalleeStep(s) ==
    \/ Accept(s) \/ ReadRequest(s) \/ SendRejection(s) \/ SendAcceptance(s)
    \/ SendAuthRequest(s) \/ ReadPassword(s) \/ Verify(s) \/ SendVerdict(s)
    \/ CalleeGivesUp(s)

-----------------------------------------------------------------------------
(* Password updates, the end of the listener, the network.                 *)

SessionsUnchanged == UNCHANGED <<serving, callerVars, calleeVars, wireVars>>

\* Calls of update_shared_password whose second write is due.
HalfDone(n) == {k \in 1..MaxUpdates : updating[n][k] # NoOverride}

\* Mutant: the application keeps the new password before it is accepted.
UpdateAuthUnchecked(n, p) ==
    LET k == updates + 1 IN
    /\ updates < MaxUpdates /\ updates' = k
    /\ updating' = [updating EXCEPT ![n][k] = p]
    /\ overlapped' = [overlapped EXCEPT ![n] = HalfDone(n) # {}]
    /\ UNCHANGED <<auth, app, held>> /\ SessionsUnchanged

\* AuthManager.update_password refuses a password of blanks: the call raises
\* and changes neither copy.
UpdateAuth(n, p) ==
    LET k == updates + 1 IN
    /\ updates < MaxUpdates /\ updates' = k
    /\ Norm[p] # Blank
    /\ auth' = [auth EXCEPT ![n] = Norm[p]]
    /\ updating' = [updating EXCEPT ![n][k] = p]
    /\ overlapped' = [overlapped EXCEPT ![n] = HalfDone(n) # {}]
    /\ held' = [s \in Sessions |-> IF Callee[s] = n /\ caller[s] # "idle"
                                   THEN held[s] \cup {Norm[p]} ELSE held[s]]
    /\ UNCHANGED app /\ SessionsUnchanged

UpdateApp(n, k) ==
    /\ k \in HalfDone(n)
    /\ app' = [app EXCEPT ![n] = updating[n][k]]
    /\ updating' = [updating EXCEPT ![n][k] = NoOverride]
    /\ UNCHANGED <<auth, updates, overlapped, held>> /\ SessionsUnchanged

StopListener(n) ==
    /\ "stop" \in SessionFaults /\ serving[n]
    /\ serving' = [serving EXCEPT ![n] = FALSE]
    /\ UNCHANGED <<passwordVars, callerVars, calleeVars, wireVars>>

\* A packet is lost for good, or one end finds data it will not read.
LinkFails(s) ==
    /\ \/ /\ "net" \in SessionFaults /\ cSock[s] # "none" /\ link[s] # "reset"
          /\ link' \in {[link EXCEPT ![s] = "silent"], [link EXCEPT ![s] = "reset"]}
       \/ /\ link[s] = "up"
          /\ \/ lSock[s] = "closed" /\ toCallee[s] # <<>>
             \/ cSock[s] = "closed" /\ toCaller[s] # <<>>
          /\ link' = [link EXCEPT ![s] = "reset"]
    /\ UNCHANGED <<passwordVars, serving, callerVars, calleeVars, toCallee, toCaller>>

Over == /\ \A s \in Sessions : /\ caller[s] = "done" /\ callee[s] \in {"none", "done"}
                               /\ cSock[s] \in {"none", "closed"}
        /\ \A n \in Nodes : HalfDone(n) = {}
Stutter == Over /\ UNCHANGED vars

Next ==
    \/ \E s \in Sessions : CallerStep(s) \/ CalleeStep(s) \/ LinkFails(s)
    \/ \E n \in Nodes, k \in 1..MaxUpdates : UpdateApp(n, k)
    \/ \E n \in Nodes : StopListener(n)
    \/ \E n \in Nodes, p \in Raw : UpdateAuth(n, p)
    \/ Stutter

Spec == Init /\ [][Next]_vars

\* Both threads of a session run; an update that was begun is finished.
Fairness == /\ \A s \in Sessions : WF_vars(CallerStep(s)) /\ WF_vars(CalleeStep(s))
            /\ \A n \in Nodes, k \in 1..MaxUpdates : WF_vars(UpdateApp(n, k))
FairSpec == Spec /\ Fairness

-----------------------------------------------------------------------------
(* Properties.                                                             *)

\* A session is granted only to a password the callee's AuthManager held while
\* the session was being opened, and refused for its password only if the
\* callee held another one meanwhile, however updates interleave with it.
VerdictIsGenuine ==
    \A s \in Sessions :
        /\ verdict[s] = "granted" => Norm[presented[s]] \in held[s]
        /\ verdict[s] = "denied" => held[s] # {Norm[presented[s]]}

\* The two copies of a node's password name the same secret whenever no update
\* is half done, so a node accepts what it presents; a refused update changes
\* neither.  Updates that overlap may leave them apart, until one that began
\* alone has made both writes: their second writes need not come in the order
\* of the first.
CopiesAgree ==
    \A n \in Nodes :
        /\ HalfDone(n) = {} /\ ~overlapped[n] => auth[n] = Norm[app[n]]
        /\ auth[n] # Blank

\* Between two NodeDrop nodes, whoever reads finds a message it expects: the
\* branches that answer an unexpected one are never taken.
ExpectedByCaller(s) ==
    CASE caller[s] = "answer" -> {"SESSION_ACCEPTED", "SESSION_REJECTED"}
      [] caller[s] = "authRequest" -> {"AUTH_REQUEST"}
      [] caller[s] = "final" -> {"AUTH_SUCCESS", "AUTH_FAILED"}
      [] OTHER -> MessageType
ExpectedByCallee(s) ==
    CASE callee[s] = "request" -> {"SESSION_REQUEST"}
      [] callee[s] = "password" -> {"AUTH_RESPONSE"}
      [] OTHER -> MessageType
NothingUnexpected ==
    \A s \in Sessions :
        /\ toCaller[s] # <<>> => Head(toCaller[s]) \in ExpectedByCaller(s)
        /\ toCallee[s] # <<>> => Head(toCallee[s]) \in ExpectedByCallee(s)

\* As long as the connection works the two threads never wait for each other.
NoMutualWait ==
    \A s \in Sessions :
        ~ /\ link[s] = "up" /\ lSock[s] = "open" /\ cSock[s] = "open"
          /\ caller[s] \in {"answer", "authRequest", "final"} /\ toCaller[s] = <<>>
          /\ CalleeWaits(s) /\ toCallee[s] = <<>>

\* A call that connects ends, whatever breaks; so does the thread serving it.
CallEnds == \A s \in Sessions : caller[s] = "connect" ~> caller[s] = "done"
ServingEnds == \A s \in Sessions : callee[s] = "request" ~> callee[s] = "done"
====
