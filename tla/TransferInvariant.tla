------------------------- MODULE TransferInvariant -------------------------
(***************************************************************************)
(* The inductive invariant behind the safety theorems of Transfer.  It     *)
(* ties the statement the worker has reached to what it has written, what  *)
(* the receiver holds to the prefix of the stream it has handled, and the  *)
(* acknowledgement to the receiver's job.                                  *)
(***************************************************************************)
EXTENDS Transfer

InFile == {"checkInfo", "buildInfo", "sendInfo", "chunk", "checkChunk",
           "sendChunk", "afterChunk", "selfCancel", "sendSelfCancel",
           "checkFile", "buildFileDone", "sendFileDone"}
Opening == {"idle", "open", "bind", "buildInit", "sendInit"}
AtEnd == {"checkEnd", "buildDone", "sendDone"}
BetweenFiles == Opening \cup {"nextFile"} \cup AtEnd
Streaming == InFile \cup BetweenFiles
Failing == {"checkStatus", "fail", "emitFailed", "buildError", "sendError"}
Handling == {"handler", "branch", "tellCancel", "sendCancel"} \cup Failing

Has(t, n) == \E i \in 1..n : wire[i].type = t
Completed(f, n) == \E i \in 1..n :
                       wire[i].type = "FILE_COMPLETE" /\ wire[i].file = f

\* What the worker has written when it reaches each of its statements.
WrittenSoFar ==
    /\ worker \in Streaming =>
          \A i \in 1..Len(wire) :
              wire[i].type \notin Closing \cup {"TRANSFER_COMPLETE"}
    /\ \A i \in 1..Len(wire) :
          wire[i].type \in FileTypes => wire[i].file \in 1..fileNo
    /\ \A i \in 1..Len(wire) : wire[i].type = "TRANSFER_INIT" => i = 1
    /\ worker \in Opening => wire = <<>> /\ fileNo = 0
    /\ worker = "nextFile" => Len(wire) > 0
    /\ worker \in InFile =>
          /\ fileNo > 0 /\ Len(wire) > 0
          /\ ~Completed(fileNo, Len(wire))
          /\ \A f \in 1..(fileNo - 1) : Completed(f, Len(wire))
    /\ worker \in BetweenFiles => \A f \in 1..fileNo : Completed(f, Len(wire))
    /\ worker \in AtEnd => fileNo = NumFiles /\ Len(wire) > 0

\* At most one closing message is ever written: the marks record it, and the
\* handler consults them.
ClosedOnce ==
    /\ marks \cap {"close", "error", "cancel"} = {} =>
          \A i \in 1..Len(wire) : wire[i].type \notin Closing
    /\ worker \in Streaming \cup {"awaitAck", "ackRead"} => marks = {}
    /\ worker = "sendClose" => marks = {"ack"}
    /\ worker \in {"selfCancelled"} \cup Handling => "error" \notin marks
    /\ worker \in Failing => "cancel" \notin marks
    /\ worker \in {"sendCancel", "buildError", "sendError"} => marks = {}
    /\ worker = "sendSelfCancel" => sJob = "CANCELLED"
    /\ worker \in {"selfCancelled", "handler", "branch", "tellCancel"}
          /\ "cancel" \in marks => sJob = "CANCELLED"
    /\ worker \in Streaming => sJob \notin {"COMPLETED", "FAILED"}

\* The receiver holds what the handled prefix of the stream says: the files it
\* completed are those whose FILE_COMPLETE it handled, and they are intact.
FilesHeld ==
    \A f \in Files : /\ rFile[f] = "COMPLETED" <=> Completed(f, read)
                     /\ rFile[f] = "COMPLETED" => Intact(f)

OpenFileHeld == incoming # 0 => rFile[incoming] = "RUNNING"

JobHeld ==
    /\ rJob # "absent" => read > 0
    /\ rJob = "COMPLETED" => Has("TRANSFER_COMPLETE", read)
    /\ client \in {"none", "reading"} /\ rJob \in Terminal => ~rReg
    /\ worker \in {"idle", "open"} => client = "none"
    /\ client \in {"ack", "finish"} => rJob = "COMPLETED"
    /\ ackSent => rJob = "COMPLETED"

HeldSoFar == FilesHeld /\ OpenFileHeld /\ JobHeld

\* Only an acknowledgement lets the sender count the transfer as completed.
CompletedAfterAck ==
    /\ worker \in {"ackRead", "sendClose", "completed"} => ackSent
    /\ sJob = "COMPLETED" => ackSent
    /\ Reported(sEvents, "completed") => ackSent

\* What each application was told when a thread reaches each of its steps.
Ending == {"clearJob", "clearSocket", "closeSocket", "done"}
Ended == {<<"started", "completed">>, <<"started", "failed">>}
ToldSoFar ==
    /\ worker = "idle" => sEvents = <<>>
    /\ worker \notin {"idle", "buildError", "sendError"} \cup Ending =>
          sEvents = <<"started">>
    /\ worker \in Ending => sEvents \in Ended
    /\ worker \in {"buildError", "sendError"} => sEvents = <<"started", "failed">>
    /\ result = "raised" => Reported(sEvents, "failed")
    /\ result # "none" => sEvents \in Ended

HeardSoFar ==
    /\ rJob = "absent" => rEvents = <<>> /\ ~rReg
    /\ rJob = "RUNNING" => rEvents = <<"started">>
    /\ client \in {"ack", "finish"} => rEvents = <<"started">>
    /\ rJob = "COMPLETED" => rEvents \in {<<"started">>, <<"started", "completed">>}
    /\ rJob \in {"FAILED", "CANCELLED"} => rEvents = <<"started", "failed">>

\* How send_transfer ends, and what it has given back by then.
EndedSoFar ==
    /\ result # "none" => worker \in Ending
    /\ worker \in {"sendSelfCancel", "selfCancelled", "tellCancel", "sendCancel"} =>
          sJob = "CANCELLED"
    /\ result = "returned" => \/ Reported(sEvents, "completed")
                              \/ sJob = "CANCELLED"

FreedSoFar ==
    /\ worker \in {"sendClose", "completed", "emitFailed", "buildError",
                   "sendError"} => sJob \in Terminal
    /\ worker \in Ending => ~sReg
    /\ worker \in Ending \ {"clearJob"} => ~slotJob
    /\ worker \in {"closeSocket", "done"} => ~slotSock
    /\ worker = "done" => sSock \in {"none", "closed"}
    /\ cancelEvent => slotJob

IInv == /\ TypeOK /\ StreamWellFormed /\ WrittenSoFar /\ ClosedOnce
        /\ HeldSoFar /\ CompletedAfterAck

TellInv == IInv /\ ToldSoFar /\ HeardSoFar /\ EndedSoFar /\ FreedSoFar

\* The worker writes no more content: it is past its last piece, its socket is
\* closed, or a checkpoint lies between it and the next piece.
Past == {"selfCancel", "sendSelfCancel", "selfCancelled", "awaitAck", "ackRead",
         "sendClose", "completed"} \cup Handling \cup Ending
Quiet ==
    \/ worker \in Past
    \/ sSock = "closed" /\ worker \notin {"idle", "open"}
    \/ /\ cancelEvent
       /\ worker \in {"open", "bind", "buildInit", "sendInit", "nextFile",
                      "checkInfo", "checkEnd"}

\* A request that found no socket came before the checkpoint; one that found a
\* socket is not over before the socket is closed; and a finished job is not
\* one the worker still streams, unless an earlier request finished it.
QuietOnceCancelled ==
    /\ requests > 0 /\ canceller = "idle" => Quiet
    /\ canceller # "idle" /\ ~grabbed => Quiet
    /\ canceller # "idle" => requests > 0 /\ worker # "idle"
    /\ canceller # "idle" /\ grabbed => worker # "open"
    /\ canceller \in {"shutdown", "close"} => grabbed
    /\ canceller = "check" /\ sJob \in Terminal => Quiet

OutcomeBeforeCancel ==
    /\ requests = 0 /\ sJob \in Terminal => worker \in Past
    /\ sReg \/ worker = "idle" \/ sJob \in Terminal

SlotSoFar ==
    /\ slotJob => worker # "idle"
    /\ slotSock => worker \notin {"idle", "open"}
    /\ slotJob /\ ~slotSock => worker \in {"open", "bind"} \cup Past

StopInv == TypeOK /\ QuietOnceCancelled /\ OutcomeBeforeCancel /\ SlotSoFar

\* Which statuses a job can have where the worker writes one.
FinalSoFar ==
    /\ worker = "idle" => sJob = "absent"
    /\ sJob = "COMPLETED" => "ack" \in marks
    /\ sJob = "FAILED" => worker \in {"emitFailed", "buildError", "sendError"}
                                    \cup Ending
    /\ worker \in {"fail", "buildError", "sendError"} => sJob # "COMPLETED"
    /\ requests = 0 =>
          /\ worker \in Streaming \cup {"awaitAck", "ackRead", "fail"} =>
                sJob \notin Terminal \/ worker = "sendSelfCancel"
          /\ worker \in {"buildError", "sendError"} => sJob # "CANCELLED"

\* TRANSFER_COMPLETE is the last message the worker writes before it waits; the
\* client thread that handled it acknowledges or ends, and tells its user of
\* the completion before it reads on.
AcknowledgedSoFar ==
    /\ worker \in {"awaitAck", "ackRead"} => Has("TRANSFER_COMPLETE", Len(wire))
    /\ Has("TRANSFER_COMPLETE", read) => ackSent \/ client \in {"ack", "ended"}
    /\ client = "finish" => ackSent
    /\ ackSent => client \in {"finish", "reading", "ended"}
    /\ client = "none" => sSock # "open"
    /\ client = "ended" => rSock = "closed"
    /\ rJob = "COMPLETED" /\ client \in {"reading", "ended"} =>
          Reported(rEvents, "completed") \/ (client = "ended" /\ ~ackSent)

\* The two machines never wait for each other: over a working connection a
\* worker that waits for the acknowledgement has it, or sees the connection
\* closed, or the client thread has the acknowledgement to send or a message
\* to read.
NeverBothWait ==
    worker = "awaitAck" /\ net = "up" /\ sSock = "open" =>
        \/ ackSent
        \/ rSock = "closed"
        \/ client = "ack"
        \/ client = "reading" /\ read < Len(wire)

\* When the thread that serves an incoming transfer ends, its user was told how
\* it ended, but in two cases: the stream broke off before its closing message,
\* and the job stays RUNNING; or the acknowledgement could not be sent.
InformedUnlessCutShort ==
    client = "ended" /\ rJob # "absent" =>
        \/ Reported(rEvents, "completed") \/ Reported(rEvents, "failed")
        \/ rJob = "RUNNING"
        \/ rJob = "COMPLETED" /\ ~ackSent

-----------------------------------------------------------------------------
(* What a transfer promises, seen in this one.                             *)

Outcome == CASE rJob = "COMPLETED"             -> "delivered"
             [] rJob \in {"FAILED", "CANCELLED"} -> "refused"
             [] OTHER                          -> "pending"

Contract == INSTANCE TransferContract
                WITH told <- sEvents, heard <- rEvents, outcome <- Outcome

\* Every behaviour of the two machines is one the contract allows.
ContractKept == Contract!Spec

\* Under the fairness of their threads the sender's user is always told, but
\* when the worker stays in a send that never finds room.
ContractHonoured == Contract!Fairness \/ <>[]SendStuck
=============================================================================
