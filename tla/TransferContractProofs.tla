----------------------- MODULE TransferContractProofs -----------------------
(***************************************************************************)
(* That the two machines of Transfer implement TransferContract: what each *)
(* application is told, in which order, and how the incoming job ends.     *)
(***************************************************************************)
EXTENDS TransferProofs, FiniteSetTheorems

\* The logs a transfer can leave are told apart, and grow as expected.
LEMMA Logs ==
  /\ Append(<<>>, "started") = <<"started">>
  /\ Append(<<"started">>, "completed") = <<"started", "completed">>
  /\ Append(<<"started">>, "failed") = <<"started", "failed">>
  /\ <<>> # <<"started">>
  /\ Ended \cap {<<>>, <<"started">>} = {}
  /\ <<"started", "completed">> # <<"started", "failed">>
  /\ Reported(<<"started", "failed">>, "failed")
<1>1. /\ Len(<<>>) = 0 /\ Len(<<"started">>) = 1
      /\ Len(<<"started", "completed">>) = 2 /\ Len(<<"started", "failed">>) = 2
  OBVIOUS
<1>2. <<"started", "completed">> # <<"started", "failed">>
  <2>1. <<"started", "completed">>[2] # <<"started", "failed">>[2]
    OBVIOUS
  <2> QED
    BY <2>1
<1>3. <<"started", "failed">>[2] = "failed"
  OBVIOUS
<1>4. Append(<<>>, "started") = <<"started">>
  OBVIOUS
<1>5. ASSUME NEW e PROVE Append(<<"started">>, e) = <<"started", e>>
  <2> DEFINE T == {"started", e}
             s == Append(<<"started">>, e)
  <2>1. <<"started">> \in Seq(T) /\ e \in T
    OBVIOUS
  <2>2. s \in Seq(T) /\ Len(s) = 2 /\ s[1] = "started" /\ s[2] = e
    BY <2>1
  <2>3. <<"started", e>> \in Seq(T) /\ Len(<<"started", e>>) = 2
    OBVIOUS
  <2>4. \A i \in 1..2 : s[i] = <<"started", e>>[i]
    BY <2>2
  <2> QED
    BY <2>2, <2>3, <2>4, SeqEqual
<1> QED
  BY <1>1, <1>2, <1>3, <1>4, <1>5 DEF Ended, Reported

-----------------------------------------------------------------------------
(* What the applications were told.                                        *)

\* Every path of send_transfer reports one outcome before its finally block.
LEMMA WorkerTells ==
  ASSUME TellInv, Worker
  PROVE  ToldSoFar'
<1> USE Logs DEF TellInv, ToldSoFar, Ending, At, Goto, Raise, Leave, Emit
<1>1. CASE StartTransfer
  BY <1>1 DEF StartTransfer, IInv, TypeOK, WorkerType
<1>2. CASE \/ OpenSession \/ BindSocket \/ SendInit \/ NextFile \/ CheckInfo
           \/ SendInfo \/ ReadChunk \/ CheckChunk \/ SendChunk \/ AfterChunk
           \/ SelfCancel \/ CheckFile \/ SendFileDone \/ CheckEnd \/ SendDone
           \/ AwaitAck \/ AckRead \/ SendClose \/ Branch \/ CheckStatus \/ Fail
           \/ BuildMessage \/ SendSelfCancel
  BY <1>2 DEF BuildMessage, SendSelfCancel, OpenSession, BindSocket, SendInit, NextFile, CheckInfo, SendInfo,
     ReadChunk, CheckChunk, SendChunk, AfterChunk, SelfCancel, CheckFile,
     SendFileDone, CheckEnd, SendDone, AwaitAck, AckRead, SendClose, Branch,
     CheckStatus, Fail, Local, Writes, Checkpoint, Send, Build, Attempt,
     MarkSent, jobVars
<1>3. CASE SelfCancelled
  BY <1>3 DEF SelfCancelled, Ended
<1>4. CASE ReportCompleted
  BY <1>4 DEF ReportCompleted, Ended
<1>5. CASE Handle
  BY <1>5 DEF Handle, Ended
<1>6. CASE TellCancel \/ SendCancel
  BY <1>6 DEF TellCancel, SendCancel, Ended
<1>7. CASE ReportFailed
  BY <1>7 DEF ReportFailed, Ended
<1>8. CASE BuildError \/ SendError
  BY <1>8 DEF BuildError, SendError, Ended
<1>9. CASE ClearJob \/ ClearSocket \/ CloseSocket
  BY <1>9 DEF ClearJob, ClearSocket, CloseSocket, jobVars
<1> QED
  BY <1>1, <1>2, <1>3, <1>4, <1>5, <1>6, <1>7, <1>8, <1>9 DEF Worker

\* The client thread reports how a job ended once, when it ends it.
LEMMA ClientTells ==
  ASSUME TellInv, Client
  PROVE  HeardSoFar'
<1> USE Logs DEF TellInv, HeardSoFar, REmit, RCleanup, EndClient, KeepReading
<1>1. /\ rJob \in JobStatus
      /\ client \in {"none", "reading"} /\ rJob \in Terminal => ~rReg
      /\ client \in {"ack", "finish"} => rJob = "COMPLETED"
      /\ rJob # "absent" => read > 0
  BY DEF IInv, TypeOK, ClientType, HeldSoFar, JobHeld
<1>2. CASE ReceiveInit
  <2>1. read + 1 \in 1..Len(wire) /\ wire[read + 1].type = "TRANSFER_INIT"
    BY <1>2 DEF ReceiveInit, Accept, NextMessage, Readable, IInv, TypeOK,
       StreamType
  <2>2. read = 0
    BY <2>1 DEF IInv, WrittenSoFar, TypeOK, StreamType
  <2>3. rJob = "absent" /\ client = "reading"
    BY <1>1, <1>2, <2>2 DEF ReceiveInit, Accept, Readable
  <2> QED
    BY <1>2, <2>3 DEF ReceiveInit
<1>3. CASE ReceiveTransferComplete
  BY <1>1, <1>3 DEF ReceiveTransferComplete, Accept, Acceptable, Readable,
     Terminal,
     JobStatus
<1>4. CASE SendAck
  BY <1>1, <1>4 DEF SendAck
<1>5. CASE FinishIncoming
  BY <1>1, <1>5 DEF FinishIncoming
<1>6. CASE ReceiveError
  BY <1>1, <1>6 DEF ReceiveError, Accept, Acceptable, Readable, Terminal,
     JobStatus
<1>7. CASE ReceiveCancel
  BY <1>1, <1>7 DEF ReceiveCancel, Accept, Acceptable, Readable, Terminal,
     JobStatus
<1>8. CASE \/ ReceiveFileInfo \/ ReceiveChunk \/ ReceiveFileComplete
           \/ RejectFile \/ RejectMessage \/ ReceiveClose \/ GiveUp
  BY <1>8 DEF ReceiveFileInfo, ReceiveChunk, ReceiveFileComplete, RejectFile,
     RejectMessage, ReceiveClose, GiveUp
<1> QED
  BY <1>2, <1>3, <1>4, <1>5, <1>6, <1>7, <1>8 DEF Client

\* The other actors tell nobody anything.
LEMMA OthersTellNothing ==
  ASSUME TellInv, [Next]_vars
  PROVE  /\ Worker => HeardSoFar'
         /\ Client => ToldSoFar'
         /\ \/ RequestCancel \/ CancelSteps \/ Environment \/ Stutter
            \/ UNCHANGED vars
            => HeardSoFar' /\ ToldSoFar'
<1>1. Worker => HeardSoFar'
  <2>1. SUFFICES ASSUME Worker PROVE HeardSoFar'
    OBVIOUS
  <2>2. UNCHANGED <<rJob, rReg, rEvents>>
        /\ (UNCHANGED client \/ client' = "reading")
    BY <2>1 DEF Worker, Local, Writes, clientVars, StartTransfer, OpenSession,
         BindSocket, BuildMessage, Build, SendInit, NextFile, CheckInfo,
         SendInfo, ReadChunk, CheckChunk, SendChunk, AfterChunk, SelfCancel,
         SendSelfCancel, SelfCancelled, CheckFile, SendFileDone, CheckEnd,
         SendDone, AwaitAck, AckRead, SendClose, ReportCompleted, Handle,
         Branch, SendCancel, Attempt, MarkSent, TellCancel, CheckStatus, Fail,
         BuildError, ReportFailed, SendError, ClearJob, ClearSocket,
         CloseSocket
  <2> QED
    BY <2>2 DEF TellInv, HeardSoFar
<1>2. Client => ToldSoFar'
  BY ClientReads DEF SenderSide, workerVars, jobVars, TellInv, ToldSoFar, IInv,
     Reported
<1>3. \/ RequestCancel \/ CancelSteps \/ Environment \/ Stutter \/ UNCHANGED vars
      => HeardSoFar' /\ ToldSoFar'
  <2>1. SUFFICES ASSUME \/ RequestCancel \/ CancelSteps \/ Environment
                        \/ Stutter \/ UNCHANGED vars
                 PROVE  HeardSoFar' /\ ToldSoFar'
    OBVIOUS
  <2>2. UNCHANGED <<worker, result, sEvents, client, rJob, rEvents>>
        /\ (rReg' => rReg)
    BY <2>1 DEF RequestCancel, CancelSteps, CancelCheck, CancelMark,
       CancelShutdown, CancelClose, Environment, NetFails, PeerReset,
       OtherCleanup, Stutter, vars, workerVars, jobVars, clientVars
  <2> QED
    BY <2>2 DEF TellInv, HeardSoFar, ToldSoFar, Reported
<1> QED
  BY <1>1, <1>2, <1>3

\* send_transfer returns having reported a completion or a cancelled job.
LEMMA WorkerEnds ==
  ASSUME TellInv, Worker
  PROVE  EndedSoFar'
<1> USE Logs DEF TellInv, EndedSoFar, At, Goto, Raise, Leave, Emit
<1>1. worker \notin Ending => result = "none"
  OBVIOUS
<1>2. worker \in Streaming => sJob \notin {"COMPLETED", "FAILED"}
  BY DEF IInv, ClosedOnce
<1>3. CASE SelfCancel
  BY <1>1, <1>2, <1>3 DEF SelfCancel, Streaming, InFile, Ending, Send, Terminal,
     IInv, TypeOK, JobType, JobStatus
<1>4. CASE SendSelfCancel \/ SelfCancelled \/ Handle \/ TellCancel \/ SendCancel
  BY <1>1, <1>4 DEF SendSelfCancel, SelfCancelled, Handle, TellCancel,
     SendCancel, ExpectedCancellation, Send, Writes, jobVars, Ending
<1>5. CASE ReportCompleted
  <2>1. sEvents' = <<"started", "completed">> /\ worker' \in Ending
    BY <1>5 DEF ReportCompleted, ToldSoFar, Ending
  <2>2. Len(<<"started", "completed">>) = 2
        /\ <<"started", "completed">>[2] = "completed"
    OBVIOUS
  <2> QED
    BY <1>5, <2>1, <2>2 DEF ReportCompleted, Reported, Ending
<1>6. CASE ReportFailed \/ BuildError \/ SendError
  BY <1>1, <1>6 DEF ReportFailed, BuildError, SendError, Ending
<1>7. CASE ClearJob \/ ClearSocket \/ CloseSocket
  BY <1>7 DEF ClearJob, ClearSocket, CloseSocket, jobVars, Reported, Ending
<1>8. CASE StartTransfer \/ AckRead \/ SendClose \/ Branch \/ CheckStatus
  BY <1>1, <1>8 DEF StartTransfer, AckRead, SendClose, Branch, CheckStatus,
     Local,
     Writes, Send, jobVars, Ending
<1>9. CASE \/ OpenSession \/ BindSocket \/ SendInit \/ NextFile \/ CheckInfo
           \/ SendInfo \/ ReadChunk \/ CheckChunk \/ SendChunk \/ AfterChunk
           \/ CheckFile \/ SendFileDone \/ CheckEnd \/ SendDone \/ AwaitAck
           \/ Fail \/ BuildMessage
  BY <1>1, <1>9 DEF BuildMessage, OpenSession, BindSocket, SendInit, NextFile, CheckInfo,
     SendInfo, ReadChunk, CheckChunk, SendChunk, AfterChunk, CheckFile,
     SendFileDone, CheckEnd, SendDone, AwaitAck, Fail, Local, Writes,
     Checkpoint, Send, Build, Attempt, MarkSent, jobVars, Ending
<1> QED
  BY <1>3, <1>4, <1>5, <1>6, <1>7, <1>8, <1>9 DEF Worker

\* The finally block gives back the slot and the socket, whatever went before.
LEMMA WorkerFrees ==
  ASSUME TellInv, Worker
  PROVE  FreedSoFar'
<1> USE DEF TellInv, FreedSoFar, At, Goto, Raise, Leave, Emit, Cleanup, Terminal
<1>1. CASE ClearJob
  BY <1>1, Zenon DEF ClearJob, jobVars, Ending
<1>2. CASE ClearSocket
  BY <1>2 DEF ClearSocket, jobVars, Ending, IInv, TypeOK, SocketType
<1>3. CASE CloseSocket
  BY <1>3 DEF CloseSocket, jobVars, slotVars, Ending
<1>4. CASE StartTransfer
  <2>1. worker' = "open"
    BY <1>4 DEF StartTransfer
  <2>2. ~cancelEvent'
    BY <1>4, Zenon DEF StartTransfer
  <2> QED
    BY <2>1, <2>2 DEF Ending
<1>5. CASE SelfCancelled \/ ReportCompleted \/ Handle \/ TellCancel \/ SendCancel
           \/ ReportFailed
  <2>1. worker' \in Ending => worker' = "clearJob" /\ ~sReg'
    BY <1>5 DEF SelfCancelled, ReportCompleted, Handle, TellCancel,
       SendCancel, ReportFailed,
       ExpectedCancellation, Ending, EndedSoFar
  <2>2. /\ UNCHANGED <<sJob, slotJob, slotSock, cancelEvent>>
        /\ worker' \notin {"sendClose", "completed", "emitFailed", "sendError"}
        /\ worker' = "buildError" => worker = "emitFailed"
    BY <1>5 DEF SelfCancelled, ReportCompleted, Handle, TellCancel,
       SendCancel, ReportFailed,
       slotVars
  <2>3. worker' \notin Ending \ {"clearJob"}
    BY <2>1 DEF Ending
  <2>4. worker' \notin {"closeSocket", "done"}
    BY <2>3 DEF Ending
  <2> QED
    BY <2>1, <2>2, <2>3, <2>4
<1>6. CASE BuildError \/ SendError
  <2>1. /\ UNCHANGED <<slotJob, slotSock, cancelEvent>>
        /\ worker' \in {"sendError", "clearJob"}
        /\ worker' = "sendError" => sJob' = "FAILED"
    BY <1>6 DEF BuildError, SendError, slotVars
  <2>2. worker' = "clearJob" => ~sReg'
    BY <1>6 DEF BuildError, SendError
  <2> QED
    BY <2>1, <2>2 DEF Ending
<1>7. CASE AckRead \/ CheckStatus \/ Fail
  BY <1>7 DEF AckRead, CheckStatus, Fail, Local, jobVars, slotVars, Ending
<1>8. CASE SendClose
  BY <1>8 DEF SendClose, Send, Writes, jobVars, slotVars, Ending
<1>9. CASE BindSocket
  BY <1>9 DEF BindSocket, jobVars, Ending
<1>10. CASE \/ OpenSession \/ SendInit \/ NextFile \/ CheckInfo
            \/ SendInfo \/ ReadChunk \/ CheckChunk \/ SendChunk \/ AfterChunk
            \/ CheckFile \/ SendFileDone \/ CheckEnd \/ SendDone \/ AwaitAck
            \/ SelfCancel \/ SendSelfCancel \/ BuildMessage \/ Branch
  <2>1. UNCHANGED <<slotJob, slotSock, cancelEvent>>
        /\ worker' \notin Ending \cup {"sendClose", "completed", "emitFailed",
                                       "buildError", "sendError"}
    BY <1>10 DEF SendSelfCancel, BuildMessage, OpenSession, SendInit, NextFile, CheckInfo, SendInfo,
       ReadChunk, CheckChunk, SendChunk, AfterChunk, CheckFile, SendFileDone,
       CheckEnd, SendDone, AwaitAck, SelfCancel, Branch, Local, Writes,
       Checkpoint, Send, Build, Attempt, MarkSent, slotVars, Ending
  <2> QED
    BY <2>1 DEF Ending
<1> QED
  BY <1>1, <1>2, <1>3, <1>4, <1>5, <1>6, <1>7, <1>8, <1>9, <1>10 DEF Worker

\* The user's request comes while the slot is taken, and cancelling a job keeps
\* it terminal; the other actors touch none of this.
LEMMA OthersFree ==
  ASSUME TellInv, \/ RequestCancel \/ CancelSteps \/ Client \/ Environment
                  \/ Stutter \/ UNCHANGED vars
  PROVE  EndedSoFar' /\ FreedSoFar'
<1>1. UNCHANGED <<worker, result, sEvents, slotJob, slotSock>>
      /\ sJob' \in {sJob, "CANCELLED"} /\ (sReg' => sReg)
      /\ (cancelEvent' => cancelEvent \/ slotJob)
  BY ClientReads DEF TellInv, IInv, SenderSide, RequestCancel, CancelSteps,
     CancelCheck, CancelMark, CancelShutdown, CancelClose, Environment,
     NetFails, PeerReset, OtherCleanup, Stutter, vars, workerVars, jobVars,
     slotVars
<1>2. UNCHANGED sSock \/ sSock' = "closed" \/ (sSock = "open" /\ sSock' = "shut")
  BY ClientReads DEF TellInv, IInv, RequestCancel, CancelSteps, CancelCheck,
     CancelMark, CancelShutdown, CancelClose, Environment, NetFails,
     PeerReset, OtherCleanup, Stutter, vars, linkVars
<1> QED
  BY <1>1, <1>2 DEF TellInv, EndedSoFar, FreedSoFar, Reported, Terminal

\* The strengthening that speaks of the callbacks is inductive too.
LEMMA TellInductive == TellInv /\ [Next]_vars => TellInv'
<1> SUFFICES ASSUME TellInv, [Next]_vars PROVE TellInv'
  OBVIOUS
<1>1. IInv'
  BY Inductive DEF TellInv
<1>2. ToldSoFar' /\ HeardSoFar'
  BY WorkerTells, ClientTells, OthersTellNothing DEF Next
<1>3. EndedSoFar' /\ FreedSoFar'
  BY WorkerEnds, WorkerFrees, OthersFree DEF Next
<1> QED
  BY <1>1, <1>2, <1>3 DEF TellInv

\* What is told, and how send_transfer ends, in every reachable state.
THEOREM WhatIsTold == Spec => []TellInv
<1>1. Init => TellInv
  BY InitHolds DEF Init, TellInv, ToldSoFar, HeardSoFar, EndedSoFar, FreedSoFar,
     Ending
<1> QED
  BY <1>1, TellInductive, PTL DEF Spec

\* Counting an outcome in a log of one or two callbacks.
LEMMA Counts ==
  ASSUME NEW e \in {"completed", "failed"}
  PROVE  /\ Occurrences(<<>>, e) = 0
         /\ Occurrences(<<"started">>, e) = 0
         /\ \A x \in {"completed", "failed"} :
               Occurrences(<<"started", x>>, e) = IF x = e THEN 1 ELSE 0
<1>1. Cardinality({}) = 0 /\ Cardinality({2}) = 1
  BY FS_EmptySet, FS_Singleton
<1>2. {i \in 1..Len(<<>>) : <<>>[i] = e} = {}
  OBVIOUS
<1>3. {i \in 1..Len(<<"started">>) : <<"started">>[i] = e} = {}
  OBVIOUS
<1>4. ASSUME NEW x \in {"completed", "failed"}
      PROVE  {i \in 1..Len(<<"started", x>>) : <<"started", x>>[i] = e}
                = IF x = e THEN {2} ELSE {}
  OBVIOUS
<1> QED
  BY <1>1, <1>2, <1>3, <1>4 DEF Occurrences

\* The application of the sender hears of the start first, then of exactly one
\* outcome by the time send_transfer ends, on every path through its handlers.
THEOREM OneOutcomeIsReported == Spec => []OneOutcomeReported
<1>1. TellInv => OneOutcomeReported
  <2> SUFFICES ASSUME TellInv PROVE OneOutcomeReported
    OBVIOUS
  <2>1. sEvents \in {<<>>, <<"started">>} \cup Ended
        /\ (result # "none" => sEvents \in Ended)
    BY Logs DEF TellInv, ToldSoFar, Ended
  <2>2. CASE sEvents \in {<<>>, <<"started">>}
    BY <2>1, <2>2, Logs, Counts DEF OneOutcomeReported
  <2>3. CASE sEvents \in Ended
    <3>1. sEvents[1] = "started"
      BY <2>3 DEF Ended
    <3>2. Occurrences(sEvents, "completed") + Occurrences(sEvents, "failed") = 1
      BY <2>3, Counts DEF Ended
    <3> QED
      BY <3>1, <3>2 DEF OneOutcomeReported
  <2> QED
    BY <2>1, <2>2, <2>3
<1> QED
  BY <1>1, WhatIsTold, PTL

\* send_transfer returns on a completion or a cancelled job, and raises after a
\* failure only.
THEOREM ResultIsReported == Spec => []ResultMatchesReport
<1>1. TellInv => ResultMatchesReport
  BY DEF TellInv, ToldSoFar, EndedSoFar, ResultMatchesReport
<1> QED
  BY <1>1, WhatIsTold, PTL

\* A finished send_transfer leaves the active slot free, its socket closed and
\* its job out of the registry, and no cancellation waits for the next one.
THEOREM NothingIsLeftBehind == Spec => []NothingLeftBehind
<1>1. TellInv => NothingLeftBehind
  BY DEF TellInv, FreedSoFar, NothingLeftBehind, Ending
<1> QED
  BY <1>1, WhatIsTold, PTL

-----------------------------------------------------------------------------
(* The refinement.                                                         *)

\* A step of the worker is a callback of the sender's application, or nothing.
LEMMA WorkerImplements ==
  ASSUME TellInv, Worker
  PROVE  [Contract!Next]_(Contract!vars)
<1> USE Logs DEF TellInv, ToldSoFar, Ending, At, Emit
<1>1. UNCHANGED <<rEvents, Outcome>>
  BY DEF Outcome, Worker, Local, Writes, clientVars, StartTransfer,
       OpenSession, BindSocket, BuildMessage, Build, SendInit, NextFile,
       CheckInfo, SendInfo, ReadChunk, CheckChunk, SendChunk, AfterChunk,
       SelfCancel, SendSelfCancel, SelfCancelled, CheckFile, SendFileDone,
       CheckEnd, SendDone, AwaitAck, AckRead, SendClose, ReportCompleted,
       Handle, Branch, SendCancel, Attempt, MarkSent, TellCancel, CheckStatus,
       Fail, BuildError, ReportFailed, SendError, ClearJob, ClearSocket,
       CloseSocket
<1>2. \/ UNCHANGED sEvents
      \/ sEvents = <<>> /\ sEvents' = <<"started">>
      \/ sEvents = <<"started">> /\ sEvents' = <<"started", "failed">>
      \/ /\ sEvents = <<"started">> /\ sEvents' = <<"started", "completed">>
         /\ worker = "completed"
  BY DEF Worker, Local, Writes, jobVars, StartTransfer, OpenSession,
       BindSocket, BuildMessage, Build, SendInit, NextFile, CheckInfo,
       SendInfo, ReadChunk, CheckChunk, SendChunk, AfterChunk, SelfCancel,
       SendSelfCancel, SelfCancelled, CheckFile, SendFileDone, CheckEnd,
       SendDone, AwaitAck, AckRead, SendClose, ReportCompleted, Handle, Branch,
       SendCancel, Attempt, MarkSent, TellCancel, CheckStatus, Fail,
       BuildError, ReportFailed, SendError, ClearJob, ClearSocket, CloseSocket
<1>3. worker = "completed" => Outcome = "delivered"
  BY DEF IInv, CompletedAfterAck, HeldSoFar, JobHeld, Outcome
<1> QED
  BY <1>1, <1>2, <1>3 DEF Contract!Next, Contract!vars, Contract!Begin,
     Contract!TellSuccess, Contract!TellFailure

\* A step of the client thread starts the incoming job, ends it, or reports it.
LEMMA ClientImplements ==
  ASSUME TellInv, Client
  PROVE  [Contract!Next]_(Contract!vars)
<1> USE Logs DEF TellInv, HeardSoFar, REmit
<1>1. /\ rJob \in JobStatus
      /\ client \in {"none", "reading"} /\ rJob \in Terminal => ~rReg
      /\ client \in {"ack", "finish"} => rJob = "COMPLETED"
      /\ rJob # "absent" => read > 0
      /\ UNCHANGED sEvents
  BY ClientReads DEF IInv, TypeOK, ClientType, HeldSoFar, JobHeld, SenderSide,
     jobVars
<1>2. CASE ReceiveInit
  <2>1. read + 1 \in 1..Len(wire) /\ wire[read + 1].type = "TRANSFER_INIT"
    BY <1>2 DEF ReceiveInit, Accept, NextMessage, Readable, IInv, TypeOK,
       StreamType
  <2>2. read = 0 /\ worker # "idle"
    BY <2>1 DEF IInv, WrittenSoFar, Opening, TypeOK, StreamType
  <2>3. rJob = "absent"
    BY <1>1, <2>2
  <2>4. sEvents # <<>>
    BY <2>2 DEF ToldSoFar, Ended, IInv, TypeOK, WorkerType
  <2> QED
    BY <1>1, <1>2, <2>3, <2>4 DEF ReceiveInit, Outcome, Contract!Next,
       Contract!Arrive
<1>3. CASE ReceiveTransferComplete
  <2>1. rJob = "RUNNING" /\ rJob' = "COMPLETED" /\ UNCHANGED rEvents
    BY <1>1, <1>3 DEF ReceiveTransferComplete, Accept, Acceptable, Readable,
       Terminal, JobStatus
  <2> QED
    BY <1>1, <2>1 DEF Outcome, Contract!Next, Contract!Deliver
<1>4. CASE FinishIncoming
  BY <1>1, <1>4 DEF FinishIncoming, Outcome, Contract!Next, Contract!HearSuccess
<1>5. CASE ReceiveError \/ ReceiveCancel
  <2>1. rJob = "RUNNING" /\ rJob' \in {"FAILED", "CANCELLED"}
        /\ rEvents' = Append(rEvents, "failed")
    BY <1>1, <1>5 DEF ReceiveError, ReceiveCancel, Accept, Acceptable, Readable,
       Terminal, JobStatus
  <2> QED
    BY <1>1, <2>1 DEF Outcome, Contract!Next, Contract!Refuse
<1>6. CASE \/ ReceiveFileInfo \/ ReceiveChunk \/ ReceiveFileComplete \/ SendAck
           \/ RejectFile \/ RejectMessage \/ ReceiveClose \/ GiveUp
  BY <1>1, <1>6 DEF ReceiveFileInfo, ReceiveChunk, ReceiveFileComplete, SendAck,
     RejectFile, RejectMessage, ReceiveClose, GiveUp, Outcome, Contract!vars
<1> QED
  BY <1>2, <1>3, <1>4, <1>5, <1>6 DEF Client

\* Sender, network and receiver together keep the contract: each application
\* hears of the start, then of one outcome; the sender's never hears of a
\* success that did not happen; an outcome of the receiver is never revised.
THEOREM ContractIsKept == Spec => ContractKept
<1>1. Init => Contract!Init
  BY DEF Init, Contract!Init, Outcome
<1>2. TellInv /\ [Next]_vars => [Contract!Next]_(Contract!vars)
  <2> SUFFICES ASSUME TellInv, [Next]_vars
               PROVE  [Contract!Next]_(Contract!vars)
    OBVIOUS
  <2>1. CASE \/ RequestCancel \/ CancelSteps \/ Environment
             \/ Stutter \/ UNCHANGED vars
    BY <2>1 DEF RequestCancel, CancelSteps, CancelCheck, CancelMark,
       CancelShutdown, CancelClose, Environment, NetFails, PeerReset,
       OtherCleanup, Stutter, vars, jobVars, clientVars, Outcome, Contract!vars
  <2> QED
    BY <2>1, WorkerImplements, ClientImplements DEF Next
<1> QED
  BY <1>1, <1>2, WhatIsTold, PTL DEF Spec, ContractKept, Contract!Spec

-----------------------------------------------------------------------------
(* The acknowledgement: who waits for whom, and who is told.               *)

\* The worker waits only once TRANSFER_COMPLETE is written.
LEMMA WorkerKeepsAcknowledged ==
  ASSUME IInv, AcknowledgedSoFar, Worker
  PROVE  AcknowledgedSoFar'
<1>1. UNCHANGED <<read, ackSent, rJob, rEvents>>
  BY DEF Worker, Local, Writes, linkVars, clientVars, StartTransfer,
     OpenSession, BindSocket, BuildMessage, Build, SendInit, NextFile,
     CheckInfo, SendInfo, ReadChunk, CheckChunk, SendChunk, AfterChunk,
     SelfCancel, SendSelfCancel, SelfCancelled, CheckFile, SendFileDone,
     CheckEnd, SendDone, AwaitAck, AckRead, SendClose, ReportCompleted, Handle,
     Branch, SendCancel, Attempt, MarkSent, TellCancel, CheckStatus, Fail,
     BuildError, ReportFailed, SendError, ClearJob, ClearSocket, CloseSocket
<1>2. wire \in Seq(Message) /\ Len(wire) \in Nat /\ read \in 0..Len(wire)
  BY LenProperties DEF IInv, TypeOK, StreamType
<1>3. Has("TRANSFER_COMPLETE", read)' = Has("TRANSFER_COMPLETE", read)
  <2>1. wire' = wire \/ \E m \in Message : wire' = Append(wire, m)
    BY WorkerWrites DEF IInv
  <2>2. \A i \in 1..read : wire'[i] = wire[i]
    BY <1>2, <2>1, Appended
  <2> QED
    BY <1>1, <1>2, <2>2 DEF Has
<1>4. worker' \in {"awaitAck", "ackRead"} => Has("TRANSFER_COMPLETE", Len(wire))'
  <2>1. CASE SendDone
    <3>1. SUFFICES ASSUME worker' = "awaitAck"
                   PROVE  Has("TRANSFER_COMPLETE", Len(wire))'
      BY <2>1 DEF SendDone, Build, Attempt, MarkSent, Send, Goto, Raise
    <3> DEFINE m == JobMessage("TRANSFER_COMPLETE")
    <3>2. wire' = Append(wire, m)
      BY <2>1, <3>1 DEF SendDone, Build, Attempt, MarkSent, Send, Raise
    <3>3. m \in Message /\ m.type = "TRANSFER_COMPLETE"
      BY ManifestAssumption DEF JobMessage, FileMessage, Message, MessageType
    <3> HIDE DEF m
    <3>4. Len(wire') = Len(wire) + 1 /\ wire'[Len(wire) + 1] = m
      BY <1>2, <3>2, <3>3, Appended
    <3> QED
      BY <1>2, <3>3, <3>4 DEF Has
  <2>2. CASE AwaitAck
    BY <2>2 DEF AwaitAck, Local, linkVars, AcknowledgedSoFar, At, Has
  <2>3. CASE ~SendDone /\ ~AwaitAck
    <3>1. worker' \notin {"awaitAck", "ackRead"}
      BY <2>3 DEF Worker, At, Goto, Raise, Leave, Checkpoint, Send,
         StartTransfer, OpenSession, BindSocket, BuildMessage, Build, SendInit,
         NextFile, CheckInfo, SendInfo, ReadChunk, CheckChunk, SendChunk,
         AfterChunk, SelfCancel, SendSelfCancel, SelfCancelled, CheckFile,
         SendFileDone, CheckEnd, AckRead, SendClose, ReportCompleted, Handle,
         Branch, SendCancel, Attempt, MarkSent, TellCancel, CheckStatus, Fail,
         BuildError, ReportFailed, SendError, ClearJob, ClearSocket,
         CloseSocket
    <3> QED
      BY <3>1
  <2> QED
    BY <2>1, <2>2, <2>3
<1>5. CASE OpenSession
  <2>1. client' \in {client, "reading"} /\ rSock' \in {rSock, "open"}
        /\ (client' = client => UNCHANGED <<rSock, sSock>>)
    BY <1>5 DEF OpenSession, AcknowledgedSoFar, At, IInv, HeldSoFar, JobHeld
  <2>2. wire = <<>> /\ Len(wire) = 0
    BY <1>5 DEF OpenSession, At, IInv, WrittenSoFar, Opening
  <2>3. ~Has("TRANSFER_COMPLETE", read) /\ rJob # "COMPLETED"
    BY <1>2, <2>2 DEF Has, IInv, HeldSoFar, JobHeld
  <2>4. client = "none"
    BY <1>5 DEF OpenSession, At, IInv, HeldSoFar, JobHeld
  <2> QED
    BY <1>1, <1>3, <1>4, <2>1, <2>3, <2>4 DEF AcknowledgedSoFar
<1>6. CASE ~OpenSession
  <2>1. /\ UNCHANGED <<client, rSock>>
        /\ sSock' = "open" => sSock = "open"
    BY <1>6 DEF Worker, Local, Writes, linkVars, clientVars, StartTransfer,
       BindSocket, BuildMessage, Build, SendInit, NextFile, CheckInfo,
       SendInfo, ReadChunk, CheckChunk, SendChunk, AfterChunk, SelfCancel,
       SendSelfCancel, SelfCancelled, CheckFile, SendFileDone, CheckEnd,
       SendDone, AwaitAck, AckRead, SendClose, ReportCompleted, Handle, Branch,
       SendCancel, Attempt, MarkSent, TellCancel, CheckStatus, Fail,
       BuildError, ReportFailed, SendError, ClearJob, ClearSocket, CloseSocket
  <2> QED
    BY <1>1, <1>3, <1>4, <2>1 DEF AcknowledgedSoFar
<1> QED
  BY <1>5, <1>6

\* The client thread acknowledges what it completes, once, and then tells.
LEMMA ClientKeepsAcknowledged ==
  ASSUME IInv, AcknowledgedSoFar, Client
  PROVE  AcknowledgedSoFar'
<1>1. UNCHANGED <<worker, wire, sSock>>
  BY ClientReads DEF SenderSide, workerVars, IInv
<1>2. wire \in Seq(Message) /\ Len(wire) \in Nat /\ read \in 0..Len(wire)
  BY LenProperties DEF IInv, TypeOK, StreamType
<1>3. worker' \in {"awaitAck", "ackRead"} => Has("TRANSFER_COMPLETE", Len(wire))'
  BY <1>1 DEF AcknowledgedSoFar, Has
<1>4. ASSUME read' = read
      PROVE  Has("TRANSFER_COMPLETE", read)' = Has("TRANSFER_COMPLETE", read)
  BY <1>1, <1>4 DEF Has
<1>5. ASSUME NEW t, Accept(t), t # "TRANSFER_COMPLETE"
      PROVE  Has("TRANSFER_COMPLETE", read)' => Has("TRANSFER_COMPLETE", read)
  <2>1. read' = read + 1 /\ wire[read + 1].type # "TRANSFER_COMPLETE"
    BY <1>5 DEF Accept, NextMessage
  <2> QED
    BY <1>1, <1>2, <2>1 DEF Has
<1>6. ASSUME Accept("TRANSFER_COMPLETE")
      PROVE  ~ackSent
  <2>1. read + 1 \in 1..Len(wire) /\ wire[read + 1].type = "TRANSFER_COMPLETE"
    BY <1>2, <1>6 DEF Accept, Readable, NextMessage
  <2>2. \A i \in 1..read : wire[i].type # "TRANSFER_COMPLETE"
    <3>1. \A j \in 1..Len(wire) : \A i \in 1..(j - 1) :
             wire[i].type = "TRANSFER_COMPLETE" => wire[j].type \in Closing
      BY DEF IInv, StreamWellFormed, StreamOrder
    <3> DEFINE next == read + 1
    <3>2. next \in 1..Len(wire) /\ next - 1 = read
          /\ wire[next].type = "TRANSFER_COMPLETE"
      BY <1>2, <2>1
    <3> HIDE DEF next
    <3> QED
      BY <3>1, <3>2 DEF Closing
  <2> QED
    BY <2>2 DEF IInv, HeldSoFar, JobHeld, Has
<1>7. CASE ReceiveTransferComplete
  <2>1. ~ackSent /\ client' = "ack" /\ ackSent' = ackSent
    BY <1>6, <1>7 DEF ReceiveTransferComplete, Stream
  <2> QED
    BY <1>3, <2>1 DEF AcknowledgedSoFar
<1>8. CASE SendAck
  <2>1. client = "ack" /\ ~ackSent /\ read' = read
    BY <1>8 DEF SendAck, AcknowledgedSoFar
  <2>2. \/ client' = "finish" /\ ackSent'
        \/ client' = "ended" /\ ~ackSent' /\ rSock' = "closed"
    BY <1>8, <2>1 DEF SendAck, EndClient
  <2> QED
    BY <1>3, <2>2 DEF AcknowledgedSoFar
<1>9. CASE FinishIncoming
  <2>1. /\ ackSent /\ client' = "reading" /\ rEvents' = Append(rEvents, "completed")
        /\ UNCHANGED <<ackSent, rSock, read>>
    BY <1>9 DEF FinishIncoming, AcknowledgedSoFar, REmit, linkVars
  <2>2. Reported(rEvents', "completed")
    <3>1. rEvents \in Seq(Event) /\ "completed" \in Event
      BY DEF IInv, TypeOK, ClientType, Event
    <3> QED
      BY <2>1, <3>1, Appended, LenProperties DEF Reported
  <2> QED
    BY <1>3, <2>1, <2>2 DEF AcknowledgedSoFar
<1>10. CASE ReceiveInit \/ ReceiveError \/ ReceiveCancel
  <2>1. /\ rJob' # "COMPLETED" /\ ackSent' = ackSent /\ client = "reading"
        /\ \/ client' = "reading"
           \/ client' = "ended" /\ rSock' = "closed"
    BY <1>10 DEF ReceiveInit, ReceiveError, ReceiveCancel, KeepReading, EndClient,
       Stream, Accept, Readable
  <2>2. Has("TRANSFER_COMPLETE", read)' => Has("TRANSFER_COMPLETE", read)
    BY <1>5, <1>10 DEF ReceiveInit, ReceiveError, ReceiveCancel
  <2> QED
    BY <1>3, <2>1, <2>2 DEF AcknowledgedSoFar
<1>11. CASE \/ ReceiveFileInfo \/ ReceiveChunk \/ ReceiveFileComplete \/ RejectFile
            \/ RejectMessage \/ ReceiveClose \/ GiveUp
  <2>1. /\ UNCHANGED <<rJob, rEvents, ackSent>> /\ client = "reading"
        /\ \/ client' = "reading"
           \/ client' = "ended" /\ rSock' = "closed"
    BY <1>11 DEF ReceiveFileInfo, ReceiveChunk, ReceiveFileComplete, RejectFile,
       RejectMessage, ReceiveClose, GiveUp, KeepReading, EndClient, Stream,
       Accept, Readable
  <2>2. Has("TRANSFER_COMPLETE", read)' => Has("TRANSFER_COMPLETE", read)
    BY <1>4, <1>5, <1>11 DEF ReceiveFileInfo, ReceiveChunk, ReceiveFileComplete,
       RejectFile, RejectMessage, ReceiveClose, GiveUp
  <2> QED
    BY <1>3, <2>1, <2>2 DEF AcknowledgedSoFar
<1> QED
  BY <1>7, <1>8, <1>9, <1>10, <1>11 DEF Client

\* The other threads leave the acknowledgement alone.
LEMMA OthersKeepAcknowledged ==
  ASSUME AcknowledgedSoFar,
         \/ RequestCancel \/ CancelSteps \/ Environment \/ Stutter \/ UNCHANGED vars
  PROVE  AcknowledgedSoFar'
<1>1. /\ UNCHANGED <<worker, wire, read, ackSent, client, rSock, rJob, rEvents>>
      /\ sSock' = "open" => sSock = "open"
  BY DEF RequestCancel, CancelSteps, CancelCheck, CancelMark, CancelShutdown,
     CancelClose, Environment, NetFails, PeerReset, OtherCleanup, Stutter, vars,
     workerVars, linkVars, clientVars
<1> QED
  BY <1>1 DEF AcknowledgedSoFar, Has, Reported

\* What is known of the acknowledgement in every reachable state.
THEOREM AcknowledgementInvariant == Spec => []AcknowledgedSoFar
<1>1. Init => AcknowledgedSoFar
  <2>1. Init => read = 0 /\ ~Has("TRANSFER_COMPLETE", read)
    BY DEF Init, Has
  <2> QED
    BY <2>1 DEF Init, AcknowledgedSoFar
<1>2. IInv /\ AcknowledgedSoFar /\ [Next]_vars => AcknowledgedSoFar'
  BY WorkerKeepsAcknowledged, ClientKeepsAcknowledged, OthersKeepAcknowledged
     DEF Next
<1> QED
  BY <1>1, <1>2, Invariant, PTL DEF Spec

\* send_transfer in receive_message and the listener in its own never wait for
\* each other over a working connection, for any manifest.
THEOREM NoMutualWait == Spec => []NeverBothWait
<1>1. IInv /\ AcknowledgedSoFar => NeverBothWait
  <2> SUFFICES ASSUME IInv, AcknowledgedSoFar, worker = "awaitAck", sSock = "open",
                      client = "reading"
               PROVE  ackSent \/ read < Len(wire)
    BY DEF NeverBothWait, IInv, TypeOK, ClientType, AcknowledgedSoFar
  <2>1. Len(wire) \in Nat /\ read \in 0..Len(wire)
    BY LenProperties DEF IInv, TypeOK, StreamType
  <2>2. read = Len(wire) => Has("TRANSFER_COMPLETE", read)
    BY DEF AcknowledgedSoFar
  <2> QED
    BY <2>1, <2>2 DEF AcknowledgedSoFar
<1> QED
  BY <1>1, AcknowledgementInvariant, Invariant, PTL

\* The receiver's user is left without news in two cases only, however the
\* transfer ends (SessionListener._handle_client, AppManager._handle_transfer_message).
THEOREM InformedButWhenCutShort == Spec => []InformedUnlessCutShort
<1>1. TellInv /\ AcknowledgedSoFar => InformedUnlessCutShort
  <2> SUFFICES ASSUME TellInv, AcknowledgedSoFar, client = "ended", rJob # "absent",
                      rJob # "RUNNING", ~(rJob = "COMPLETED" /\ ~ackSent)
               PROVE  Reported(rEvents, "completed") \/ Reported(rEvents, "failed")
    BY DEF InformedUnlessCutShort
  <2>1. rJob \in {"COMPLETED", "FAILED", "CANCELLED"}
    BY DEF TellInv, IInv, TypeOK, ClientType, JobStatus, Terminal
  <2>2. CASE rJob = "COMPLETED"
    BY <2>2 DEF AcknowledgedSoFar
  <2>3. CASE rJob # "COMPLETED"
    BY <2>1, <2>3, Logs DEF TellInv, HeardSoFar
  <2> QED
    BY <2>2, <2>3
<1> QED
  BY <1>1, AcknowledgementInvariant, WhatIsTold, PTL
=============================================================================
