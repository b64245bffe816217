------------------------ MODULE TransferCancelProofs ------------------------
(***************************************************************************)
(* That a returned cancel_active_transfer has stopped the stream: the      *)
(* three ways it does so (the event, the status of the job, the socket     *)
(* closed under the worker) leave no gap, whatever the worker was doing.   *)
(***************************************************************************)
EXTENDS TransferProofs

\* Past the content, the worker does not go back to it.
LEMMA PastIsPast ==
  ASSUME TypeOK, Worker, worker \in Past
  PROVE  worker' \in Past
<1> USE DEF Past, Handling, Failing, Ending, At, Goto, Raise, Leave
<1>1. \/ SelfCancel \/ SendSelfCancel \/ SelfCancelled \/ AwaitAck \/ AckRead
      \/ SendClose \/ ReportCompleted \/ Handle \/ Branch \/ TellCancel
      \/ SendCancel \/ CheckStatus \/ Fail \/ ReportFailed \/ BuildError
      \/ SendError \/ ClearJob \/ ClearSocket \/ CloseSocket
  BY DEF Worker, StartTransfer, OpenSession, BindSocket, BuildMessage, Build,
     SendInit, NextFile, CheckInfo, SendInfo, ReadChunk, CheckChunk, SendChunk, AfterChunk,
     CheckFile, SendFileDone, CheckEnd, SendDone
<1> QED
  BY <1>1 DEF SelfCancel, SendSelfCancel, SelfCancelled, AwaitAck, AckRead,
     SendClose, ReportCompleted, Handle, Branch, TellCancel, SendCancel,
     CheckStatus, Fail, ReportFailed, BuildError, SendError, ClearJob,
     ClearSocket, CloseSocket, Send

\* A step of the worker before that either moves on or leads past the content.
LEMMA MiddleSteps ==
  ASSUME TypeOK, Worker, worker \notin Past \cup {"idle", "open"}
  PROVE  /\ UNCHANGED <<sSock, cancelEvent, sJob, sReg, slotJob>>
         /\ worker # "bind" => slotSock' = slotSock
         /\ worker' \notin {"idle", "open"}
         /\ worker = "bind" => worker' = "buildInit" /\ slotSock'
         /\ worker # "bind" => worker' # "bind"
         /\ cancelEvent => /\ worker = "buildInit" => worker' \in {"sendInit"} \cup Past
                           /\ worker = "sendInit" => worker' \in {"nextFile"} \cup Past
                           /\ worker = "nextFile" =>
                                 worker' \in {"checkInfo", "checkEnd"} \cup Past
                           /\ worker \in {"checkInfo", "checkEnd"} => worker' \in Past
<1> USE DEF Past, Handling, Failing, Ending, At, Goto, Raise
<1>1. \/ BindSocket \/ BuildMessage \/ SendInit \/ NextFile \/ CheckInfo
      \/ SendInfo \/ ReadChunk \/ CheckChunk \/ SendChunk \/ AfterChunk \/ CheckFile
      \/ SendFileDone \/ CheckEnd \/ SendDone
  BY DEF Worker, OpenSession, StartTransfer, SelfCancel, SendSelfCancel,
       SelfCancelled, AwaitAck, AckRead, SendClose, ReportCompleted, Handle,
       Branch, SendCancel, Attempt, MarkSent, TellCancel, CheckStatus, Fail,
       BuildError, ReportFailed, SendError, ClearJob, ClearSocket, CloseSocket
<1>2. UNCHANGED <<sSock, cancelEvent, sJob, sReg, slotJob>>
  BY <1>1 DEF BindSocket, BuildMessage, Build, SendInit, NextFile, CheckInfo, SendInfo, ReadChunk,
     CheckChunk,
     SendChunk, AfterChunk, CheckFile, SendFileDone, CheckEnd, SendDone,
     Local, Writes, jobVars, slotVars, linkVars
<1>3. worker # "bind" => slotSock' = slotSock
  BY <1>1 DEF BindSocket, BuildMessage, Build, SendInit, NextFile, CheckInfo, SendInfo, ReadChunk,
     CheckChunk,
     SendChunk, AfterChunk, CheckFile, SendFileDone, CheckEnd, SendDone,
     Local, Writes, slotVars
<1>4. worker = "bind" => worker' = "buildInit" /\ slotSock'
  <2>1. worker = "bind" => BindSocket
    BY <1>1 DEF BindSocket, BuildMessage, Build, SendInit, NextFile, CheckInfo, SendInfo, ReadChunk,
       CheckChunk, SendChunk, AfterChunk, CheckFile, SendFileDone, CheckEnd,
       SendDone
  <2>2. BindSocket => slotSock' = TRUE
    BY Zenon DEF BindSocket
  <2>3. BindSocket => worker' = "buildInit"
    BY DEF BindSocket
  <2> QED
    BY <2>1, <2>2, <2>3
<1>5. worker' \notin {"idle", "open"} /\ (worker # "bind" => worker' # "bind")
  BY <1>1 DEF BindSocket, BuildMessage, Build, SendInit, NextFile, CheckInfo, SendInfo, ReadChunk,
     CheckChunk, SendChunk, AfterChunk, CheckFile, SendFileDone, CheckEnd,
     SendDone, Checkpoint, Send, Build, Attempt, MarkSent
<1>6. /\ worker = "buildInit" => worker' \in {"sendInit"} \cup Past
      /\ worker = "sendInit" => worker' \in {"nextFile"} \cup Past
  BY <1>1 DEF BindSocket, BuildMessage, Build, SendInit, NextFile, CheckInfo, SendInfo, ReadChunk,
     CheckChunk,
     SendChunk, AfterChunk, CheckFile, SendFileDone, CheckEnd, SendDone, Send
<1>7. worker = "nextFile" => worker' \in {"checkInfo", "checkEnd"} \cup Past
  BY <1>1 DEF BindSocket, BuildMessage, Build, SendInit, NextFile, CheckInfo, SendInfo, ReadChunk,
     CheckChunk,
     SendChunk, AfterChunk, CheckFile, SendFileDone, CheckEnd, SendDone
<1>8. cancelEvent /\ worker \in {"checkInfo", "checkEnd"} => worker' \in Past
  BY <1>1 DEF BindSocket, BuildMessage, Build, SendInit, NextFile, CheckInfo, SendInfo, ReadChunk,
     CheckChunk,
     SendChunk, AfterChunk, CheckFile, SendFileDone, CheckEnd, SendDone,
     Checkpoint
<1> QED
  BY <1>2, <1>3, <1>4, <1>5, <1>6, <1>7, <1>8

\* Opening the session leads on, or straight to the handler.
LEMMA FirstSteps ==
  ASSUME TypeOK, Worker, worker \in {"idle", "open"}
  PROVE  /\ worker = "idle" => /\ worker' = "open"
                               /\ UNCHANGED slotSock
                               /\ sJob' = "RUNNING" /\ sReg'
         /\ worker = "open" => /\ worker' \in {"bind", "handler"}
                               /\ UNCHANGED <<sJob, sReg, slotJob, slotSock, cancelEvent>>
<1>1. StartTransfer \/ OpenSession
  BY DEF At, Worker, BindSocket, BuildMessage, Build, SendInit, NextFile,
       CheckInfo, SendInfo, ReadChunk, CheckChunk, SendChunk, AfterChunk,
       CheckFile, SendFileDone, CheckEnd, SendDone, SelfCancel, SendSelfCancel,
       SelfCancelled, AwaitAck, AckRead, SendClose, ReportCompleted, Handle,
       Branch, SendCancel, Attempt, MarkSent, TellCancel, CheckStatus, Fail,
       BuildError, ReportFailed, SendError, ClearJob, ClearSocket, CloseSocket
<1>2. CASE StartTransfer
  <2>1. sReg' = TRUE
    BY <1>2, Zenon DEF StartTransfer
  <2>2. worker = "idle" /\ worker' = "open" /\ UNCHANGED slotSock /\ sJob' = "RUNNING"
    BY <1>2 DEF StartTransfer, At, Goto
  <2> QED
    BY <2>1, <2>2
<1>3. CASE OpenSession
  BY <1>3 DEF OpenSession, At, Goto, Raise, jobVars, slotVars
<1> QED
  BY <1>1, <1>2, <1>3

\* The last steps leave a job terminal, and the slot claimed with its socket
\* until they free it.
LEMMA LastSteps ==
  ASSUME TypeOK, Worker, worker \in Past
  PROVE  /\ sJob \in Terminal => sJob' \in Terminal
         /\ sReg => sReg' \/ sJob' \in Terminal
         /\ slotJob' => slotJob
         /\ slotSock' => slotSock
<1> USE DEF Past, Handling, Failing, Ending, At, Goto, Leave, Terminal
<1>1. \/ SelfCancel \/ SendSelfCancel \/ SelfCancelled \/ AwaitAck \/ AckRead
      \/ SendClose \/ ReportCompleted \/ Handle \/ Branch \/ TellCancel
      \/ SendCancel \/ CheckStatus \/ Fail \/ ReportFailed \/ BuildError
      \/ SendError \/ ClearJob \/ ClearSocket \/ CloseSocket
  BY DEF Worker, StartTransfer, OpenSession,
       BindSocket, BuildMessage, Build, SendInit, NextFile, CheckInfo, SendInfo, ReadChunk,
       CheckChunk, SendChunk, AfterChunk, CheckFile, SendFileDone, CheckEnd,
       SendDone
<1>2. sJob \in Terminal => sJob' \in Terminal
  BY <1>1 DEF SelfCancel, SendSelfCancel, SelfCancelled, AwaitAck, AckRead,
     SendClose, ReportCompleted, Handle, Branch, TellCancel, SendCancel,
     CheckStatus, Fail, ReportFailed, BuildError, SendError, ClearJob,
     ClearSocket, CloseSocket,
     Local, Writes, jobVars
<1>3. sReg => sReg' \/ sJob' \in Terminal
  BY <1>1 DEF SelfCancel, SendSelfCancel, SelfCancelled, AwaitAck, AckRead,
     SendClose, ReportCompleted, Handle, Branch, TellCancel, SendCancel,
     CheckStatus, Fail, ReportFailed, BuildError, SendError, ClearJob,
     ClearSocket, CloseSocket,
     Local, Writes, jobVars, Cleanup
<1>4. (slotJob' => slotJob) /\ (slotSock' => slotSock)
  BY <1>1 DEF SelfCancel, SendSelfCancel, SelfCancelled, AwaitAck, AckRead,
     SendClose, ReportCompleted, Handle, Branch, TellCancel, SendCancel,
     CheckStatus, Fail, ReportFailed, BuildError, SendError, ClearJob,
     ClearSocket, CloseSocket,
     Local, Writes, slotVars
<1> QED
  BY <1>2, <1>3, <1>4

\* The worker stays quiet: no step of it reopens a closed socket, clears the
\* event before the end, or skips a checkpoint.
LEMMA WorkerStaysQuiet ==
  ASSUME TypeOK, Worker, Quiet
  PROVE  Quiet'
<1>1. CASE worker \in Past
  BY <1>1, PastIsPast DEF Quiet
<1>2. CASE worker \in {"idle", "open"}
  <2>1. worker = "open" /\ cancelEvent
    BY <1>2 DEF Quiet, Past, Handling, Failing, Ending
  <2>2. worker' \in {"bind", "handler"} /\ cancelEvent'
    BY <1>2, <2>1, FirstSteps
  <2> QED
    BY <2>2 DEF Quiet, Past, Handling
<1>3. CASE worker \notin Past \cup {"idle", "open"}
  <2>1. CASE sSock = "closed"
    BY <1>3, <2>1, MiddleSteps DEF Quiet
  <2>2. CASE cancelEvent /\ worker \in {"bind", "buildInit", "sendInit",
                                        "nextFile", "checkInfo", "checkEnd"}
    <3>1. cancelEvent'
      BY <1>3, <2>2, MiddleSteps
    <3>2. worker' \in {"buildInit", "sendInit", "nextFile", "checkInfo", "checkEnd"}
                     \cup Past
      BY <1>3, <2>2, MiddleSteps
    <3> QED
      BY <3>1, <3>2 DEF Quiet
  <2> QED
    BY <1>3, <2>1, <2>2 DEF Quiet
<1> QED
  BY <1>1, <1>2, <1>3

LEMMA WorkerKeepsQuiet ==
  ASSUME StopInv, Worker
  PROVE  StopInv'
<1> USE DEF StopInv
<1>1. TypeOK'
  BY NextTyped DEF Next
<1>2. UNCHANGED <<canceller, grabbed, requests>>
  BY DEF cancelVars, Worker, Local, Writes, StartTransfer, OpenSession,
       BindSocket, BuildMessage, Build, SendInit, NextFile, CheckInfo,
       SendInfo, ReadChunk, CheckChunk, SendChunk, AfterChunk, SelfCancel,
       SendSelfCancel, SelfCancelled, CheckFile, SendFileDone, CheckEnd,
       SendDone, AwaitAck, AckRead, SendClose, ReportCompleted, Handle, Branch,
       SendCancel, Attempt, MarkSent, TellCancel, CheckStatus, Fail,
       BuildError, ReportFailed, SendError, ClearJob, ClearSocket, CloseSocket
<1>3. worker' # "idle" /\ (worker # "idle" => worker' # "open")
  <2>1. CASE worker \in Past
    BY <2>1, PastIsPast DEF Past, Handling, Failing, Ending
  <2>2. CASE worker \in {"idle", "open"}
    BY <2>2, FirstSteps
  <2>3. CASE worker \notin Past \cup {"idle", "open"}
    BY <2>3, MiddleSteps
  <2> QED
    BY <2>1, <2>2, <2>3
<1>4. worker \notin Past \cup {"idle"} => UNCHANGED <<sJob, sReg>>
  BY FirstSteps, MiddleSteps
<1>5. SlotSoFar'
  <2>1. CASE worker \in Past
    BY <2>1, PastIsPast, LastSteps DEF SlotSoFar, Past, Handling, Failing, Ending
  <2>2. CASE worker \in {"idle", "open"}
    BY <2>2, FirstSteps DEF SlotSoFar, Past, Handling
  <2>3. CASE worker \notin Past \cup {"idle", "open"}
    <3>1. slotJob' = slotJob /\ worker' \notin {"idle", "open"}
      BY <2>3, MiddleSteps
    <3>2. slotSock' \/ ~slotJob'
      BY <2>3, <3>1, MiddleSteps DEF SlotSoFar, TypeOK, SlotType
    <3> QED
      BY <3>1, <3>2 DEF SlotSoFar
  <2> QED
    BY <2>1, <2>2, <2>3
<1>6. OutcomeBeforeCancel'
  <2>1. CASE worker \in Past
    <3>1. worker' \in Past
      BY <2>1, PastIsPast
    <3>2. sReg' \/ sJob' \in Terminal
      BY <2>1, LastSteps DEF OutcomeBeforeCancel, Past, Handling, Failing,
       Ending
    <3> QED
      BY <3>1, <3>2 DEF OutcomeBeforeCancel
  <2>2. CASE worker = "idle"
    BY <2>2, FirstSteps DEF OutcomeBeforeCancel, Terminal
  <2>3. CASE worker \notin Past \cup {"idle"}
    BY <1>2, <1>4, <2>3 DEF OutcomeBeforeCancel
  <2> QED
    BY <2>1, <2>2, <2>3
<1>7. QuietOnceCancelled'
  <2>1. canceller = "check" /\ sJob' \in Terminal => Quiet'
    <3> SUFFICES ASSUME canceller = "check", sJob' \in Terminal PROVE Quiet'
      OBVIOUS
    <3>1. CASE worker \in Past
      BY <3>1, PastIsPast DEF Quiet
    <3>2. CASE worker \notin Past
      BY <1>4, <3>2, WorkerStaysQuiet DEF QuietOnceCancelled
    <3> QED
      BY <3>1, <3>2
  <2> QED
    BY <1>2, <1>3, <2>1, WorkerStaysQuiet DEF QuietOnceCancelled
<1> QED
  BY <1>1, <1>5, <1>6, <1>7

\* A request that finds no socket finds the worker before its first checkpoint
\* or past the content; one that finds a socket goes on to close it.
LEMMA CancelKeepsQuiet ==
  ASSUME StopInv, RequestCancel \/ CancelSteps
  PROVE  StopInv'
<1> USE DEF StopInv
<1>1. TypeOK'
  BY CancelTypes
<1>2. UNCHANGED <<worker, sReg, slotJob, slotSock>>
  BY DEF RequestCancel, CancelSteps, CancelCheck, CancelMark, CancelShutdown,
     CancelClose, workerVars, jobVars, slotVars
<1>3. SlotSoFar'
  BY <1>2 DEF SlotSoFar
<1>4. Quiet => Quiet'
  <2>1. sSock' = sSock \/ sSock' = "closed" \/ sSock = "open"
    BY DEF RequestCancel, CancelSteps, CancelCheck, CancelMark, CancelShutdown,
       CancelClose, linkVars
  <2>2. cancelEvent => cancelEvent'
    BY DEF RequestCancel, CancelSteps, CancelCheck, CancelMark, CancelShutdown,
       CancelClose, slotVars
  <2> QED
    BY <1>2, <2>1, <2>2 DEF Quiet
<1>5. CASE RequestCancel
  <2>1. /\ canceller = "idle" /\ canceller' = "check" /\ grabbed' = slotSock
        /\ requests' = requests + 1 /\ slotJob /\ UNCHANGED sJob
    BY <1>5 DEF RequestCancel, CancelGoto, jobVars
  <2>2. cancelEvent'
    BY <1>5, Zenon DEF RequestCancel
  <2>3. requests \in Nat
    BY BoundsAssumption DEF TypeOK, CancelType
  <2>4. worker # "idle"
    BY <2>1 DEF SlotSoFar
  <2>5. ~grabbed' => Quiet'
    <3>1. ~slotSock => worker \in {"open", "bind"} \cup Past
      BY <2>1 DEF SlotSoFar
    <3> QED
      BY <1>2, <2>1, <2>2, <3>1 DEF Quiet
  <2>6. grabbed' => worker # "open"
    BY <2>1 DEF SlotSoFar
  <2>7. sJob \in Terminal => Quiet
    BY <2>1, <2>3 DEF OutcomeBeforeCancel, QuietOnceCancelled, Quiet
  <2>8. QuietOnceCancelled'
    BY <1>2, <1>4, <2>1, <2>3, <2>4, <2>5, <2>6, <2>7 DEF QuietOnceCancelled
  <2>9. OutcomeBeforeCancel'
    BY <1>2, <2>1, <2>3 DEF OutcomeBeforeCancel
  <2> QED
    BY <1>1, <1>3, <2>8, <2>9
<1>6. CASE CancelSteps
  <2>1. canceller # "idle" /\ UNCHANGED <<grabbed, requests>>
    BY <1>6 DEF CancelSteps, CancelCheck, CancelMark, CancelShutdown,
       CancelClose
  <2>2. requests > 0 /\ worker # "idle"
    BY <2>1 DEF QuietOnceCancelled
  <2>3. sJob' \in {sJob, "CANCELLED"}
    BY <1>6 DEF CancelSteps, CancelCheck, CancelMark, CancelShutdown,
       CancelClose,
       jobVars
  <2>4. OutcomeBeforeCancel'
    BY <1>2, <2>1, <2>2, <2>3 DEF OutcomeBeforeCancel, Terminal
  <2>5. CASE CancelCheck
    <3>1. canceller = "check" /\ UNCHANGED sJob
      BY <2>5 DEF CancelCheck, jobVars
    <3>2. \/ canceller' = "idle" /\ (~sReg \/ ~grabbed)
          \/ canceller' = "shutdown" /\ grabbed
          \/ canceller' = "mark"
      BY <2>5 DEF CancelCheck, AfterCancel, CancelGoto
    <3>3. ~sReg => Quiet
      BY <2>2, <3>1 DEF OutcomeBeforeCancel, QuietOnceCancelled
    <3> QED
      BY <1>1, <1>2, <1>3, <1>4, <2>1, <2>2, <2>4, <3>1, <3>2, <3>3
         DEF QuietOnceCancelled
  <2>6. CASE CancelMark
    <3>1. \/ canceller' = "idle" /\ ~grabbed
          \/ canceller' = "shutdown" /\ grabbed
      BY <2>6 DEF CancelMark, AfterCancel, CancelGoto
    <3> QED
      BY <1>1, <1>2, <1>3, <1>4, <2>1, <2>2, <2>4, <3>1 DEF QuietOnceCancelled
  <2>7. CASE CancelShutdown
    <3>1. canceller = "shutdown" /\ canceller' = "close"
      BY <2>7 DEF CancelShutdown, CancelGoto
    <3> QED
      BY <1>1, <1>2, <1>3, <1>4, <2>1, <2>2, <2>4, <3>1 DEF QuietOnceCancelled
  <2>8. CASE CancelClose
    <3>1. canceller = "close" /\ canceller' = "idle" /\ sSock' = "closed"
      BY <2>8 DEF CancelClose, CancelGoto
    <3>2. Quiet'
      BY <1>2, <2>2, <3>1 DEF QuietOnceCancelled, Quiet
    <3> QED
      BY <1>1, <1>2, <1>3, <2>1, <2>2, <2>4, <3>1, <3>2 DEF QuietOnceCancelled
  <2> QED
    BY <1>6, <2>5, <2>6, <2>7, <2>8 DEF CancelSteps
<1> QED
  BY <1>5, <1>6

\* Nobody else reaches the variables this argument is about, but a cleanup that
\* removes a finished job.
LEMMA OthersKeepQuiet ==
  ASSUME StopInv, Client \/ Environment \/ Stutter \/ UNCHANGED vars
  PROVE  StopInv'
<1> USE DEF StopInv
<1>1. TypeOK'
  BY NextTyped DEF Next
<1>2. /\ UNCHANGED <<worker, sSock, cancelEvent, sJob, slotJob, slotSock,
                     canceller, grabbed, requests>>
      /\ sReg' = sReg \/ sJob \in Terminal
  BY ClientReads DEF SenderSide, Environment, NetFails, PeerReset, OtherCleanup,
     Stutter, vars, workerVars, jobVars, slotVars, cancelVars, linkVars
<1>3. Quiet' <=> Quiet
  BY <1>2 DEF Quiet
<1>4. QuietOnceCancelled'
  BY <1>2, <1>3 DEF QuietOnceCancelled
<1>5. OutcomeBeforeCancel'
  BY <1>2 DEF OutcomeBeforeCancel
<1>6. SlotSoFar'
  BY <1>2 DEF SlotSoFar
<1> QED
  BY <1>1, <1>4, <1>5, <1>6

\* The invariant of cancellation holds in every reachable state.
THEOREM CancellationQuiets == Spec => []StopInv
<1>1. Init => StopInv
  BY InitTyped DEF Init, StopInv, QuietOnceCancelled, OutcomeBeforeCancel,
     SlotSoFar,
     Terminal
<1>2. StopInv /\ [Next]_vars => StopInv'
  BY WorkerKeepsQuiet, CancelKeepsQuiet, OthersKeepQuiet DEF Next
<1> QED
  BY <1>1, <1>2, PTL DEF Spec

\* A quiet worker writes TRANSFER_INIT or a closing message.
LEMMA QuietWrites ==
  ASSUME TypeOK, Worker, Quiet, wire' # wire
  PROVE  wire'[Len(wire')].type \in {"TRANSFER_INIT"} \cup Closing
<1>1. SendInit \/ SendSelfCancel \/ SendClose \/ SendCancel \/ SendError
  <2>1. SendInit \/ SendInfo \/ SendChunk \/ SendSelfCancel \/ SendFileDone
        \/ SendDone \/ SendClose \/ SendCancel \/ SendError
    BY DEF Worker, Local, linkVars, StartTransfer, OpenSession, BindSocket,
       BuildMessage, Build, SendInit, NextFile, CheckInfo, SendInfo, ReadChunk,
       CheckChunk, SendChunk, AfterChunk, SelfCancel, SendSelfCancel,
       SelfCancelled, CheckFile, SendFileDone, CheckEnd, SendDone, AwaitAck,
       AckRead, SendClose, ReportCompleted, Handle, Branch, SendCancel,
       Attempt, MarkSent, TellCancel, CheckStatus, Fail, BuildError,
       ReportFailed, SendError, ClearJob, ClearSocket, CloseSocket
  <2>2. worker \notin {"sendInfo", "sendChunk", "sendFileDone", "sendDone"}
        \/ sSock = "closed"
    BY DEF Quiet, Past, Handling, Failing, Ending
  <2>3. SendInfo \/ SendChunk \/ SendFileDone \/ SendDone => Usable
    BY DEF CanSend, SendInfo, SendChunk, SendFileDone, SendDone, Send, Build, Attempt,
       MarkSent
  <2> QED
    BY <2>1, <2>2, <2>3 DEF SendInfo, SendChunk, SendFileDone, SendDone,
       Usable, At
<1>2. \E t \in {"TRANSFER_INIT"} \cup Closing : wire' = Append(wire, JobMessage(t))
  BY <1>1 DEF SendInit, SendSelfCancel, SendClose, SendCancel, SendError, Send,
     Attempt, Closing
<1>3. PICK t \in {"TRANSFER_INIT"} \cup Closing : wire' = Append(wire, JobMessage(t))
  BY <1>2
<1>4. JobMessage(t) \in Message /\ JobMessage(t).type = t
  BY ManifestAssumption DEF JobMessage, FileMessage, Message, MessageType,
     Closing
<1>5. wire'[Len(wire')] = JobMessage(t)
  BY <1>3, <1>4, Appended DEF TypeOK, StreamType
<1> QED
  BY <1>3, <1>4, <1>5

\* Once cancel_active_transfer has returned, no file is announced, streamed or
\* completed any more, nor the transfer, wherever the worker was.
THEOREM CancelStops == Spec => CancelStopsTheStream
<1>1. StopInv /\ [Next]_vars =>
        [requests > 0 /\ canceller = "idle" /\ wire' # wire
           => wire'[Len(wire')].type \in {"TRANSFER_INIT"} \cup Closing]_vars
  <2> SUFFICES ASSUME StopInv, [Next]_vars, requests > 0, canceller = "idle",
                      wire' # wire
               PROVE  wire'[Len(wire')].type \in {"TRANSFER_INIT"} \cup Closing
    OBVIOUS
  <2>1. Worker
    BY ClientReads DEF StopInv, Next, RequestCancel, CancelSteps, CancelCheck,
       CancelMark, CancelShutdown, CancelClose, Environment, NetFails,
       PeerReset, OtherCleanup, Stutter, vars, linkVars
  <2>2. Quiet
    BY DEF StopInv, QuietOnceCancelled
  <2> QED
    BY <2>1, <2>2, QuietWrites DEF StopInv
<1> QED
  BY <1>1, CancellationQuiets, PTL DEF Spec, CancelStopsTheStream

-----------------------------------------------------------------------------
(* When the status of a finished outgoing job still changes.               *)

\* The statements that write the status write one that fits where they lead.
LEMMA WorkerKeepsFinal ==
  ASSUME TypeOK, StopInv, FinalSoFar, Worker
  PROVE  FinalSoFar'
<1> USE DEF FinalSoFar, Streaming, InFile, BetweenFiles, AtEnd, Opening, Ending,
            Terminal, At, Goto, Raise, Leave
<1>1. requests' = requests /\ marks \subseteq marks'
  BY DEF Worker, Local, Writes, cancelVars, StartTransfer, OpenSession,
     BindSocket, BuildMessage, Build, SendInit, NextFile, CheckInfo, SendInfo,
     ReadChunk, CheckChunk, SendChunk, AfterChunk, SelfCancel, SendSelfCancel,
     SelfCancelled, CheckFile, SendFileDone, CheckEnd, SendDone, AwaitAck,
     AckRead, SendClose, ReportCompleted, Handle, Branch, SendCancel, Attempt,
     MarkSent, TellCancel, CheckStatus, Fail, BuildError, ReportFailed,
     SendError, ClearJob, ClearSocket, CloseSocket
<1>2. CASE StartTransfer
  BY <1>2 DEF StartTransfer
<1>3. CASE SelfCancel
  BY <1>1, <1>3 DEF SelfCancel, Send
<1>4. CASE AckRead
  BY <1>1, <1>4 DEF AckRead
<1>5. CASE Fail
  BY <1>1, <1>5 DEF Fail
<1>6. CASE BuildError \/ SendError
  BY <1>1, <1>6 DEF BuildError, SendError
<1>7. CASE CheckStatus
  BY <1>1, <1>7 DEF CheckStatus, Local, jobVars
<1>8. CASE ReportFailed
  BY <1>1, <1>8 DEF ReportFailed, ShouldSendError
<1>9. CASE \/ OpenSession \/ BindSocket \/ SendInit \/ NextFile \/ CheckInfo
           \/ SendInfo \/ ReadChunk \/ CheckChunk \/ SendChunk \/ AfterChunk
           \/ CheckFile \/ SendFileDone \/ CheckEnd \/ SendDone \/ AwaitAck
           \/ BuildMessage
  <2>1. sJob' = sJob /\ worker # "idle"
        /\ worker \in (Streaming \ {"sendSelfCancel"}) \cup {"awaitAck"}
    BY <1>9 DEF BuildMessage, Build, OpenSession, BindSocket, SendInit, NextFile, CheckInfo, SendInfo,
       ReadChunk, CheckChunk, SendChunk, AfterChunk, CheckFile, SendFileDone,
       CheckEnd, SendDone, AwaitAck, Local, Writes, jobVars
  <2>2. worker' \in (Streaming \ {"idle", "sendSelfCancel"}) \cup {"awaitAck", "ackRead", "handler"}
    BY <1>9 DEF BuildMessage, OpenSession, BindSocket, SendInit, NextFile,
       CheckInfo, SendInfo, ReadChunk, CheckChunk, SendChunk, AfterChunk, CheckFile,
       SendFileDone, CheckEnd, SendDone, AwaitAck, Checkpoint, Send, Build,
       Attempt, MarkSent
  <2> QED
    BY <1>1, <2>1, <2>2
<1>10. CASE \/ SelfCancelled \/ SendClose \/ ReportCompleted \/ Handle \/ Branch
            \/ TellCancel \/ SendCancel \/ SendSelfCancel
            \/ ClearJob \/ ClearSocket \/ CloseSocket
  <2>1. sJob' = sJob
    BY <1>10 DEF SelfCancelled, SendClose, ReportCompleted, Handle, Branch,
       TellCancel, SendCancel, SendSelfCancel, ClearJob, ClearSocket,
       CloseSocket, Local, Writes, jobVars
  <2>2. /\ worker' \in {"selfCancelled", "completed", "handler", "branch",
                        "tellCancel", "sendCancel", "checkStatus"} \cup Ending
        /\ worker \in Ending => worker' \in Ending
        /\ worker \notin {"emitFailed", "buildError", "sendError"}
    BY <1>10 DEF SelfCancelled, SendClose, ReportCompleted, Handle, Branch,
       TellCancel, SendCancel, SendSelfCancel, ClearJob, ClearSocket,
       CloseSocket, Send
  <2> QED
    BY <1>1, <2>1, <2>2
<1> QED
  BY <1>2, <1>3, <1>4, <1>5, <1>6, <1>7, <1>8, <1>9, <1>10 DEF Worker

\* The GUI thread marks a job only once it was asked to; the others mark none.
LEMMA OthersKeepFinal ==
  ASSUME TypeOK, StopInv, FinalSoFar,
         \/ RequestCancel \/ CancelSteps \/ Client \/ Environment \/ Stutter
         \/ UNCHANGED vars
  PROVE  FinalSoFar'
<1>1. UNCHANGED <<worker, marks>>
  BY ClientReads DEF SenderSide, RequestCancel, CancelSteps, CancelCheck,
     CancelMark, CancelShutdown, CancelClose, Environment, NetFails,
     PeerReset, OtherCleanup, Stutter, vars, workerVars
<1>2. CASE RequestCancel
  <2>1. sJob' = sJob /\ requests' # 0
    BY <1>2 DEF RequestCancel, jobVars, TypeOK, CancelType
  <2> QED
    BY <1>1, <2>1 DEF FinalSoFar
<1>3. CASE CancelMark
  <2>1. sJob' = "CANCELLED" /\ requests' = requests /\ requests > 0
        /\ worker # "idle"
    BY <1>3 DEF CancelMark, StopInv, QuietOnceCancelled
  <2> QED
    BY <1>1, <2>1 DEF FinalSoFar
<1>4. CASE ~RequestCancel /\ ~CancelMark
  <2>1. UNCHANGED <<sJob, requests>>
    BY <1>4, ClientReads DEF SenderSide, CancelSteps, CancelCheck,
       CancelShutdown, CancelClose, Environment, NetFails, PeerReset,
       OtherCleanup, Stutter, vars, jobVars, cancelVars
  <2> QED
    BY <1>1, <2>1 DEF FinalSoFar
<1> QED
  BY <1>2, <1>3, <1>4

\* A finished outgoing job, COMPLETED ones included, changes its status only
\* after a request to cancel and in one of the three races of Raced: the mark of
\* cancel_transfer, the acknowledgement handled after it, the failure after it.
THEOREM OutgoingIsFinalUnlessRaced == Spec => OutgoingFinalUnlessRaced
<1>1. Init => FinalSoFar
  BY DEF Init, FinalSoFar, Terminal, Ending
<1>2. StopInv /\ FinalSoFar /\ [Next]_vars => FinalSoFar'
  BY WorkerKeepsFinal, OthersKeepFinal DEF Next, StopInv
<1>3. IInv /\ StopInv /\ FinalSoFar /\ [Next]_vars =>
        [(sJob \in Terminal /\ sJob' # sJob) => requests > 0 /\ Raced]_vars
  <2> SUFFICES ASSUME IInv, StopInv, FinalSoFar, [Next]_vars, sJob \in Terminal,
                      sJob' # sJob
               PROVE  requests > 0 /\ Raced
    OBVIOUS
  <2>1. CASE CancelMark
    BY <2>1 DEF CancelMark, StopInv, QuietOnceCancelled, Raced
  <2>2. CASE StartTransfer \/ AckRead \/ Fail \/ BuildError
    <3>1. requests \in Nat
      BY BoundsAssumption DEF StopInv, TypeOK, CancelType
    <3>2. /\ worker \in {"idle", "ackRead", "fail", "buildError"}
          /\ worker = "ackRead" => sJob' = "COMPLETED"
          /\ worker \in {"fail", "buildError"} => sJob' = "FAILED"
      BY <2>2 DEF StartTransfer, AckRead, Fail, BuildError, At
    <3>3. sJob = "CANCELLED" /\ worker # "idle"
      BY <3>2 DEF FinalSoFar, Terminal, Ending
    <3>4. requests > 0
      BY <3>1, <3>2, <3>3 DEF FinalSoFar, Terminal
    <3> QED
      BY <3>2, <3>3, <3>4 DEF Raced
  <2>3. StartTransfer \/ AckRead \/ Fail \/ BuildError \/ CancelMark
    BY ClientReads DEF IInv, Next, Worker, Local, Writes, jobVars, vars, Terminal,
       SenderSide, RequestCancel, CancelSteps, CancelCheck, CancelShutdown,
       CancelClose, Environment, NetFails, PeerReset, OtherCleanup, Stutter,
       OpenSession, BindSocket, SendInit, NextFile, CheckInfo,
       SendInfo, ReadChunk, CheckChunk, SendChunk, AfterChunk, SelfCancel,
       SelfCancelled, CheckFile, SendFileDone, CheckEnd, SendDone, AwaitAck,
       SendClose, ReportCompleted, Handle, Branch, TellCancel,
       CheckStatus, ReportFailed, SendError, SendSelfCancel, SendCancel,
       BuildMessage, ClearJob, ClearSocket, CloseSocket
  <2> QED
    BY <2>1, <2>2, <2>3
<1> QED
  BY <1>1, <1>2, <1>3, CancellationQuiets, Invariant, PTL
     DEF Spec, OutgoingFinalUnlessRaced
=============================================================================
