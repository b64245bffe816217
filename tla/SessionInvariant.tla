-------------------------- MODULE SessionInvariant --------------------------
(***************************************************************************)
(* The inductive invariant of Session: what is in flight, and what was     *)
(* decided, at each pair of statements the two threads can be at.          *)
(***************************************************************************)
EXTENDS Session

\* Where the callee's thread can be, seen from the caller's statement.
Reached(step) ==
    CASE step \in {"idle", "connect"} -> {"none"}
      [] step = "request" -> {"backlog", "request", "done"}
      [] step = "answer" -> {"backlog", "request", "reject", "accept",
                             "askPassword", "password", "done"}
      [] step = "authRequest" -> {"askPassword", "password", "done"}
      [] step = "respond" -> {"password", "done"}
      [] step = "final" -> {"password", "verify", "grant", "deny", "stream", "done"}
      [] OTHER -> CalleeSteps

\* What the caller may still find to read.
Answers(s) ==
    LET y == toCaller[s] IN
    /\ caller[s] \in {"idle", "connect", "request", "respond"} => y = <<>>
    /\ caller[s] = "answer" =>
          /\ callee[s] \in {"backlog", "request", "reject", "accept"} => y = <<>>
          /\ callee[s] = "askPassword" => y = <<"SESSION_ACCEPTED">>
          /\ callee[s] = "password" => y = <<"SESSION_ACCEPTED", "AUTH_REQUEST">>
          /\ y \in {<<>>, <<"SESSION_REJECTED">>, <<"SESSION_ACCEPTED">>,
                    <<"SESSION_ACCEPTED", "AUTH_REQUEST">>}
          /\ y = <<"SESSION_REJECTED">> => verdict[s] = "rejected"
    /\ caller[s] = "authRequest" =>
          /\ callee[s] = "askPassword" => y = <<>>
          /\ callee[s] = "password" => y = <<"AUTH_REQUEST">>
          /\ y \in {<<>>, <<"AUTH_REQUEST">>}
    /\ caller[s] = "final" =>
          /\ callee[s] \in {"password", "verify", "grant", "deny"} => y = <<>>
          /\ callee[s] = "stream" => y = <<"AUTH_SUCCESS">>
          /\ y \in {<<>>, <<"AUTH_SUCCESS">>, <<"AUTH_FAILED">>}
          /\ y = <<"AUTH_SUCCESS">> => verdict[s] = "granted"
          /\ y = <<"AUTH_FAILED">> => verdict[s] = "denied"

\* What the callee may still find to read.
Requests(s) ==
    LET x == toCallee[s] IN
    /\ caller[s] \in {"idle", "connect", "request"} => x = <<>>
    /\ callee[s] \in {"backlog", "request"} => x \in {<<>>, <<"SESSION_REQUEST">>}
    /\ callee[s] = "password" => x \in {<<>>, <<"AUTH_RESPONSE">>}
    /\ callee[s] \in {"none", "reject", "accept", "askPassword", "verify", "grant",
                      "deny", "stream"} => x = <<>>
    /\ caller[s] = "answer" /\ callee[s] \in {"backlog", "request"} =>
          x = <<"SESSION_REQUEST">>
    /\ caller[s] \in {"answer", "authRequest", "respond"} /\ callee[s] = "password" =>
          x = <<>>
    /\ caller[s] = "final" /\ callee[s] = "password" => x = <<"AUTH_RESPONSE">>

\* What has been decided when the callee's thread reaches each statement.
Decided(s) ==
    /\ callee[s] \in {"none", "backlog", "request", "accept", "askPassword",
                      "password", "verify"} => verdict[s] = "none"
    /\ callee[s] = "reject" => verdict[s] = "rejected"
    /\ callee[s] \in {"grant", "stream"} => verdict[s] = "granted"
    /\ callee[s] = "deny" => verdict[s] = "denied"
    /\ callee[s] \in {"none", "backlog", "done"} => lSock[s] # "open"
    /\ caller[s] # "done" => outcome[s] = "none"

InStep == \A s \in Sessions : /\ callee[s] \in Reached(caller[s])
                              /\ Answers(s) /\ Requests(s) /\ Decided(s)

\* An update that overlaps none is the only one half done, and AuthManager holds
\* its password; updates not asked for yet have none.  What the callee holds now
\* is among what it held during the session.
Copies ==
    \A n \in Nodes : \A k \in HalfDone(n) :
        /\ k <= updates
        /\ ~overlapped[n] => auth[n] = Norm[updating[n][k]] /\ HalfDone(n) = {k}
HeldNow ==
    \A s \in Sessions : /\ caller[s] # "idle" => auth[Callee[s]] \in held[s]
                        /\ caller[s] = "idle" => verdict[s] = "none"

\* The inductive invariant of the handshake.
SessionInv == /\ TypeOK /\ InStep /\ Copies /\ HeldNow
              /\ VerdictIsGenuine /\ CopiesAgree

-----------------------------------------------------------------------------
(* How a call ends when nothing disturbs its session.                      *)

\* The connection never failed and the callee's listener was never stopped.
Undisturbed(s) == link[s] = "up" /\ serving[Callee[s]]

\* What a thread that is still to read will find, and who has closed.
CalmQueues(s) ==
    /\ caller[s] \in {"idle", "connect"} => cSock[s] = "none"
    /\ caller[s] \in {"request", "answer", "authRequest", "respond", "final"} =>
          cSock[s] = "open"
    /\ lSock[s] = "closed" => callee[s] = "done"
    /\ callee[s] = "done" => toCallee[s] = <<>>
    /\ caller[s] = "done" => toCallee[s] = <<>> /\ toCaller[s] = <<>>
    /\ callee[s] = "done" =>
          /\ caller[s] \notin {"request", "authRequest", "respond"}
          /\ caller[s] = "answer" => toCaller[s] = <<"SESSION_REJECTED">>
          /\ caller[s] = "final" => toCaller[s] = <<"AUTH_FAILED">>

\* Why a call that is over ended as it did, and where that leaves the callee.
Explained(s) ==
    \/ outcome[s] = "rejected" /\ verdict[s] = "rejected" /\ callee[s] = "done"
    \/ /\ outcome[s] = "success" /\ verdict[s] = "granted"
       /\ callee[s] \in {"stream", "done"} /\ Norm[presented[s]] # Blank
    \/ /\ outcome[s] = "failed" /\ verdict[s] = "denied"
       /\ callee[s] = "done" /\ Norm[presented[s]] # Blank
    \/ /\ outcome[s] = "error" /\ verdict[s] = "none"
       /\ callee[s] \in {"password", "done"} /\ Norm[presented[s]] = Blank

Calm(s) == /\ CalmQueues(s)
           /\ caller[s] = "final" => Norm[presented[s]] # Blank
           /\ caller[s] = "done" => Explained(s)

\* The inductive invariant of the outcome.
CalmInv == \A s \in Sessions : Undisturbed(s) => Calm(s)

\* Without a timeout or a refused connection, a call whose connection held and
\* whose callee kept listening ends as the callee decided; it ends in an error
\* only for a password of blanks, which is never sent. No step of the two
\* threads makes either of them close on something the other still has to read.
OutcomeIsExplained ==
    \A s \in Sessions : caller[s] = "done" /\ Undisturbed(s) => Explained(s)

\* Without updates, a callee that accepts every session holds one password.
OnePassword ==
    \A s \in Sessions : /\ caller[s] # "idle" => held[s] = {auth[Callee[s]]}
                        /\ verdict[s] # "rejected"

\* Nothing breaks: every connection holds and every listener listens.
NothingBroken == \A s \in Sessions : Undisturbed(s)
QuietInv == CalmInv /\ NothingBroken /\ OnePassword

\* Blanks are never sent, and blanks around a password do not count.
Deserved(s) ==
    CASE Norm[presented[s]] = Blank -> "error"
      [] Norm[presented[s]] = auth[Callee[s]] -> "success"
      [] OTHER -> "failed"

\* A call that is over ended as its password deserves.
DeservedWhenDone ==
    \A s \in Sessions : caller[s] = "done" => outcome[s] = Deserved(s)

-----------------------------------------------------------------------------
Contract == INSTANCE SessionContract WITH decided <- verdict, told <- outcome

\* A caller is told of a success, a refusal or a rejection only if the callee
\* decided so, once, whatever the network and the two timeouts do.
SessionContractKept == Contract!Spec
=============================================================================
