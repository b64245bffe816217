------------------------------ MODULE Transfer ------------------------------
(***************************************************************************)
(* One outgoing transfer of NodeDrop, end to end.                          *)
(*                                                                         *)
(*  - the worker thread of the sender runs AppManager.send_transfer, with  *)
(*    its except handler and its finally block;                            *)
(*  - the GUI thread of the sender runs AppManager.cancel_active_transfer; *)
(*  - the client thread of the receiver's listener reads the stream and    *)
(*    calls AppManager._handle_transfer_message;                           *)
(*  - a TCP connection carries the stream of messages one way and the      *)
(*    TRANSFER_ACK the other way, and may break or fall silent;            *)
(*  - other transfers of either process run cleanup_finished_transfers on  *)
(*    the registry of jobs they share with this one, without a lock.       *)
(*                                                                         *)
(* One action is one stretch of code between two points at which another   *)
(* thread can change what it reads.  A file is a number of chunks; of a    *)
(* chunk only one thing is kept: whether it is the content the manifest    *)
(* was computed from.  The exchange that opens the session is one step.    *)
(***************************************************************************)
EXTENDS Naturals, Sequences, FiniteSets

CONSTANTS
    NumFiles,      \* number of entries of the transfer manifest
    Size,          \* Size[f]: size of file f in the manifest, in chunks
    TotalBytes,    \* total_bytes of the manifest, in chunks
    CancelAfter,   \* cancel_after_chunks of send_transfer, 0 standing for None
    Buffer,        \* messages the connection holds before they are read
    MaxRequests,   \* bound: how many times the user asks for cancellation
    Faults         \* what may go wrong in this instance

FaultKinds == {"net", "timeout", "source", "disk", "cleanup", "stop", "auth"}

Files == 1..NumFiles

\* build_transfer_manifest lists at least one file and sums their sizes.
ASSUME ManifestAssumption ==
    /\ NumFiles \in Nat \ {0}
    /\ Size \in [Files -> Nat]
    /\ TotalBytes \in Nat

ASSUME BoundsAssumption ==
    /\ CancelAfter \in Nat
    /\ Buffer \in Nat \ {0}
    /\ MaxRequests \in Nat
    /\ Faults \subseteq FaultKinds

VARIABLES
    \* the worker thread: AppManager.send_transfer
    worker,        \* the statement it is about to execute
    exc,           \* kind of the exception being handled, or "none"
    fileNo,        \* files taken so far from iter_job_files
    chunkNo,       \* chunks read so far of the current file
    marks,         \* which of ack_received, session_close_sent, ... are set
    result,        \* how send_transfer ends
    \* the outgoing job, shared by the sender's threads
    sJob, sReg,    \* its status; whether it is in _active_transfers
    sEvents,       \* callbacks emitted for it
    slotJob, slotSock, cancelEvent,   \* the active outgoing transfer slot
    \* the GUI thread: AppManager.cancel_active_transfer
    canceller, grabbed, requests,
    \* the TCP connection
    sSock, rSock,  \* state of each end
    net,           \* "up", "silent" (nothing gets through) or "reset"
    wire,          \* everything the sender wrote
    read,          \* how much of it the receiver has handled
    ackSent,       \* whether the receiver wrote TRANSFER_ACK
    \* the client thread of the receiver and the incoming job
    client, rJob, rReg, incoming, rBytes, rFile, disk, rEvents

workerVars == <<worker, exc, fileNo, chunkNo, marks, result>>
jobVars    == <<sJob, sReg, sEvents>>
slotVars   == <<slotJob, slotSock, cancelEvent>>
cancelVars == <<canceller, grabbed, requests>>
linkVars   == <<sSock, rSock, net, wire, read, ackSent>>
clientVars == <<client, rJob, rReg, incoming, rBytes, rFile, disk, rEvents>>
vars == <<workerVars, jobVars, slotVars, cancelVars, linkVars, clientVars>>

-----------------------------------------------------------------------------
Terminal == {"COMPLETED", "FAILED", "CANCELLED"}
JobStatus == {"absent", "RUNNING"} \cup Terminal
FileStatus == {"absent", "RUNNING"} \cup Terminal
Event == {"started", "completed", "failed"}

MessageType == {"TRANSFER_INIT", "FILE_INFO", "FILE_CHUNK", "FILE_COMPLETE",
                "TRANSFER_COMPLETE", "TRANSFER_ERROR", "TRANSFER_CANCEL",
                "SESSION_CLOSE"}

\* A message names a file (0 when it concerns the whole job); same is about
\* the bytes that follow a FILE_CHUNK.
Message == [type : MessageType, file : 0..NumFiles, same : BOOLEAN]
FileMessage(t, f) == [type |-> t, file |-> f, same |-> TRUE]
JobMessage(t) == FileMessage(t, 0)
Chunk(f, s) == [type |-> "FILE_CHUNK", file |-> f, same |-> s]

WorkerSteps == {"idle", "open", "bind", "buildInit", "sendInit", "nextFile",
    "checkInfo", "buildInfo", "sendInfo", "chunk", "checkChunk", "sendChunk",
    "afterChunk", "selfCancel", "sendSelfCancel", "selfCancelled", "checkFile",
    "buildFileDone", "sendFileDone", "checkEnd", "buildDone", "sendDone",
    "awaitAck", "ackRead", "sendClose", "completed", "handler", "branch",
    "tellCancel", "sendCancel", "checkStatus", "fail", "emitFailed",
    "buildError", "sendError", "clearJob", "clearSocket", "closeSocket",
    "done"}

Exceptions == {"none", "session", "annule", "state", "notfound", "conn",
               "proto", "reset", "closed", "timeout", "source"}

WorkerType ==
    /\ worker \in WorkerSteps
    /\ exc \in Exceptions
    /\ fileNo \in 0..NumFiles
    /\ chunkNo \in Nat
    /\ marks \subseteq {"ack", "close", "error", "cancel"}
    /\ result \in {"none", "returned", "raised"}

JobType == sJob \in JobStatus /\ sReg \in BOOLEAN /\ sEvents \in Seq(Event)

SlotType == slotJob \in BOOLEAN /\ slotSock \in BOOLEAN /\ cancelEvent \in BOOLEAN

CancelType ==
    /\ canceller \in {"idle", "check", "mark", "shutdown", "close"}
    /\ grabbed \in BOOLEAN
    /\ requests \in 0..MaxRequests

SocketType ==
    /\ sSock \in {"none", "open", "shut", "closed"}
    /\ rSock \in {"none", "open", "closed"}
    /\ net \in {"up", "silent", "reset"}
    /\ ackSent \in BOOLEAN

StreamType == wire \in Seq(Message) /\ read \in 0..Len(wire)

ClientType ==
    /\ client \in {"none", "reading", "ack", "finish", "ended"}
    /\ rJob \in JobStatus
    /\ rReg \in BOOLEAN
    /\ incoming \in 0..NumFiles
    /\ rBytes \in Nat /\ (TotalBytes > 0 => rBytes <= TotalBytes)
    /\ rFile \in [Files -> FileStatus]
    /\ disk \in [Files -> Seq(BOOLEAN)]
    /\ rEvents \in Seq(Event)

TypeOK == /\ WorkerType /\ JobType /\ SlotType /\ CancelType
          /\ SocketType /\ StreamType /\ ClientType

Init ==
    /\ worker = "idle" /\ exc = "none" /\ fileNo = 0 /\ chunkNo = 0
    /\ marks = {} /\ result = "none"
    /\ sJob = "absent" /\ sReg = FALSE /\ sEvents = <<>>
    /\ slotJob = FALSE /\ slotSock = FALSE /\ cancelEvent = FALSE
    /\ canceller = "idle" /\ grabbed = FALSE /\ requests = 0
    /\ sSock = "none" /\ rSock = "none" /\ net = "up"
    /\ wire = <<>> /\ read = 0 /\ ackSent = FALSE
    /\ client = "none" /\ rJob = "absent" /\ rReg = FALSE /\ incoming = 0
    /\ rBytes = 0 /\ rFile = [f \in Files |-> "absent"]
    /\ disk = [f \in Files |-> <<>>] /\ rEvents = <<>>

-----------------------------------------------------------------------------
(* The worker thread.                                                      *)

At(s) == worker = s
Goto(s) == worker' = s /\ UNCHANGED <<exc, result>>
Raise(e) == worker' = "handler" /\ exc' = e /\ UNCHANGED result
Leave(r) == worker' = "clearJob" /\ result' = r /\ UNCHANGED exc

\* A send on a socket that this process closed, or that was reset, fails at
\* once; one for which the connection has no room waits, timing out and trying
\* again, until the reader takes something or the socket becomes unusable.
Usable == sSock = "open" /\ net # "reset"
Room == Len(wire) < read + Buffer
CanSend == Usable /\ Room

\* SessionClient.send_message and send_bytes: no cancellation_check is passed
\* by send_transfer, so a failed send is a SessionConnectionError.
Send(m, next) ==
    \/ CanSend /\ wire' = Append(wire, m) /\ Goto(next)
    \/ ~Usable /\ Raise("conn") /\ UNCHANGED wire

\* A mark that records a message is set once the message is sent.
MarkSent(mark) == marks' = IF CanSend THEN marks \cup {mark} ELSE marks

\* _raise_if_active_transfer_cancelled
Checkpoint(next) == IF cancelEvent THEN Raise("annule") ELSE Goto(next)

\* Steps of the worker that touch none of the shared state.
Local == UNCHANGED <<jobVars, slotVars, cancelVars, linkVars, clientVars>>
\* Steps of the worker that may only write to the stream.
Writes == UNCHANGED <<jobVars, slotVars, cancelVars, sSock, rSock, net, read,
                      ackSent, clientVars>>

\* Lines up to the try: the job is created, started and registered, the slot
\* claimed and its event cleared, on_transfer_started emitted.
StartTransfer ==
    /\ At("idle")
    /\ Goto("open")
    /\ sJob' = "RUNNING" /\ sReg' = TRUE
    /\ sEvents' = Append(sEvents, "started")
    /\ slotJob' = TRUE /\ cancelEvent' = FALSE
    /\ UNCHANGED <<fileNo, chunkNo, marks, slotSock, cancelVars, linkVars,
                   clientVars>>

OpenSession ==
    /\ At("open")
    /\ \/ /\ Goto("bind")
          /\ sSock' = "open" /\ rSock' = "open" /\ client' = "reading"
       \/ /\ "auth" \in Faults
          /\ Raise("session")
          /\ UNCHANGED <<sSock, rSock, client>>
    /\ UNCHANGED <<fileNo, chunkNo, marks, jobVars, slotVars, cancelVars, net,
                   wire, read, ackSent, rJob, rReg, incoming, rBytes, rFile,
                   disk, rEvents>>

\* _set_active_outgoing_socket: until then a cancellation finds no socket.
BindSocket ==
    /\ At("bind")
    /\ slotSock' = TRUE
    /\ Goto("buildInit")
    /\ UNCHANGED <<fileNo, chunkNo, marks, jobVars, slotJob, cancelEvent,
                   cancelVars, linkVars, clientVars>>

\* The build_..._message methods look the job up before the message is sent;
\* both ..._complete_message ones refuse a cancelled job.
Build(from, next, refusing) ==
    /\ At(from)
    /\ \/ ~sReg /\ Raise("notfound")
       \/ sReg /\ refusing /\ sJob = "CANCELLED" /\ Raise("state")
       \/ sReg /\ ~(refusing /\ sJob = "CANCELLED") /\ Goto(next)

BuildMessage ==
    /\ \/ Build("buildInit", "sendInit", FALSE)
       \/ Build("buildInfo", "sendInfo", FALSE)
       \/ Build("buildFileDone", "sendFileDone", TRUE)
       \/ Build("buildDone", "sendDone", TRUE)
    /\ Local /\ UNCHANGED <<fileNo, chunkNo, marks>>

SendInit ==
    /\ At("sendInit")
    /\ Send(JobMessage("TRANSFER_INIT"), "nextFile")
    /\ Writes /\ UNCHANGED <<fileNo, chunkNo, marks>>

\* Mutant: the iterator stops one file short.
NextFileStopsShort ==
    /\ At("nextFile")
    /\ \/ ~sReg /\ Raise("notfound") /\ UNCHANGED <<fileNo, chunkNo>>
       \/ /\ sReg /\ fileNo >= NumFiles - 1
          /\ Goto("checkEnd")
          /\ UNCHANGED <<fileNo, chunkNo>>
       \/ /\ sReg /\ fileNo < NumFiles - 1 /\ sJob = "CANCELLED"
          /\ Raise("state")
          /\ UNCHANGED <<fileNo, chunkNo>>
       \/ /\ sReg /\ fileNo < NumFiles - 1 /\ sJob # "CANCELLED"
          /\ fileNo' = fileNo + 1 /\ chunkNo' = 0
          /\ Goto("checkInfo")
    /\ Local /\ UNCHANGED marks

\* iter_job_files: the status is tested before each file and not after the last.
NextFile ==
    /\ At("nextFile")
    /\ \/ ~sReg /\ Raise("notfound") /\ UNCHANGED <<fileNo, chunkNo>>
       \/ /\ sReg /\ fileNo = NumFiles
          /\ Goto("checkEnd")
          /\ UNCHANGED <<fileNo, chunkNo>>
       \/ /\ sReg /\ fileNo < NumFiles /\ sJob = "CANCELLED"
          /\ Raise("state")
          /\ UNCHANGED <<fileNo, chunkNo>>
       \/ /\ sReg /\ fileNo < NumFiles /\ sJob # "CANCELLED"
          /\ fileNo' = fileNo + 1 /\ chunkNo' = 0
          /\ Goto("checkInfo")
    /\ Local /\ UNCHANGED marks

CheckInfo ==
    /\ At("checkInfo") /\ Checkpoint("buildInfo")
    /\ Local /\ UNCHANGED <<fileNo, chunkNo, marks>>

SendInfo ==
    /\ At("sendInfo")
    /\ Send(FileMessage("FILE_INFO", fileNo), "chunk")
    /\ Writes /\ UNCHANGED <<fileNo, chunkNo, marks>>

\* One call of the iter_file_chunks generator.  The registry and the status are
\* consulted on the first call, the status again once a chunk is read.  A
\* source that changed after the manifest was built may be longer (by one chunk
\* here: the bound) or shorter than announced, or unreadable.
ReadChunk ==
    LET first   == chunkNo = 0
        mayRead == \/ chunkNo < Size[fileNo]
                   \/ "source" \in Faults /\ chunkNo = Size[fileNo]
        mayEnd  == \/ chunkNo = Size[fileNo]
                   \/ "source" \in Faults
    IN
    /\ At("chunk")
    /\ \/ first /\ ~sReg /\ Raise("notfound") /\ UNCHANGED chunkNo
       \/ /\ first => sReg
          /\ sJob = "CANCELLED" /\ (first \/ mayRead)
          /\ Raise("state") /\ UNCHANGED chunkNo
       \/ /\ first => sReg
          /\ sJob # "CANCELLED" /\ mayRead
          /\ Goto("checkChunk") /\ chunkNo' = chunkNo + 1
       \/ /\ first => sReg /\ sJob # "CANCELLED"
          /\ mayEnd
          /\ Goto("checkFile") /\ UNCHANGED chunkNo
       \/ /\ first => sReg /\ sJob # "CANCELLED"
          /\ "source" \in Faults
          /\ Raise("source") /\ UNCHANGED chunkNo
    /\ Local /\ UNCHANGED <<fileNo, marks>>

CheckChunk ==
    /\ At("checkChunk") /\ Checkpoint("sendChunk")
    /\ Local /\ UNCHANGED <<fileNo, chunkNo, marks>>

SendChunk ==
    /\ At("sendChunk")
    /\ \E s \in BOOLEAN :
          /\ s \/ "source" \in Faults
          /\ Send(Chunk(fileNo, s), "afterChunk")
    /\ Writes /\ UNCHANGED <<fileNo, chunkNo, marks>>

\* chunks_sent: the chunks whose header and bytes were both written.
ChunksSent == Cardinality({i \in 1..Len(wire) : wire[i].type = "FILE_CHUNK"})

AfterChunk ==
    /\ At("afterChunk")
    /\ IF ~sReg THEN Raise("notfound")
       ELSE IF CancelAfter > 0 /\ ChunksSent >= CancelAfter
            THEN Checkpoint("selfCancel")
            ELSE Checkpoint("chunk")
    /\ Local /\ UNCHANGED <<fileNo, chunkNo, marks>>

\* cancel_after_chunks: the sender cancels its own job and says so.
SelfCancel ==
    /\ At("selfCancel")
    /\ \/ ~sReg /\ Raise("notfound") /\ UNCHANGED sJob
       \/ /\ sReg /\ Goto("sendSelfCancel")
          /\ sJob' = IF sJob \in Terminal THEN sJob ELSE "CANCELLED"
    /\ UNCHANGED <<fileNo, chunkNo, marks, sReg, sEvents, slotVars, cancelVars,
                   linkVars, clientVars>>

SendSelfCancel ==
    /\ At("sendSelfCancel")
    /\ Send(JobMessage("TRANSFER_CANCEL"), "selfCancelled")
    /\ MarkSent("cancel")
    /\ Writes /\ UNCHANGED <<fileNo, chunkNo>>

\* cleanup_finished_transfers, as far as the outgoing job is concerned.
Cleanup == sReg' = (sReg /\ sJob \notin Terminal)
Emit(e) == sEvents' = Append(sEvents, e)

SelfCancelled ==
    /\ At("selfCancelled")
    /\ \/ ~sReg /\ Raise("notfound") /\ UNCHANGED <<sReg, sEvents>>
       \/ sReg /\ Emit("failed") /\ Cleanup /\ Leave("returned")
    /\ UNCHANGED <<fileNo, chunkNo, marks, sJob, slotVars, cancelVars, linkVars,
                   clientVars>>

CheckFile ==
    /\ At("checkFile") /\ Checkpoint("buildFileDone")
    /\ Local /\ UNCHANGED <<fileNo, chunkNo, marks>>

SendFileDone ==
    /\ At("sendFileDone")
    /\ Send(FileMessage("FILE_COMPLETE", fileNo), "nextFile")
    /\ Writes /\ UNCHANGED <<fileNo, chunkNo, marks>>

CheckEnd ==
    /\ At("checkEnd") /\ Checkpoint("buildDone")
    /\ Local /\ UNCHANGED <<fileNo, chunkNo, marks>>

SendDone ==
    /\ At("sendDone")
    /\ Send(JobMessage("TRANSFER_COMPLETE"), "awaitAck")
    /\ Writes /\ UNCHANGED <<fileNo, chunkNo, marks>>

\* Mutant: a timeout is taken for the acknowledgement.
AwaitAckOrTimeout ==
    /\ At("awaitAck")
    /\ \/ net = "up" /\ ackSent /\ sSock # "closed" /\ Goto("ackRead")
       \/ sSock = "closed" /\ Raise("closed")
       \/ (net = "silent" \/ "timeout" \in Faults) /\ Goto("ackRead")
    /\ Local /\ UNCHANGED <<fileNo, chunkNo, marks>>

\* Mutant: the socket has no read timeout.
AwaitAckForever ==
    /\ At("awaitAck")
    /\ \/ net = "up" /\ ackSent /\ sSock # "closed" /\ Goto("ackRead")
       \/ sSock = "shut" /\ Raise("proto")
       \/ sSock = "closed" /\ Raise("closed")
       \/ net = "up" /\ rSock = "closed" /\ ~ackSent /\ Raise("proto")
       \/ net = "reset" /\ Raise("reset")
    /\ Local /\ UNCHANGED <<fileNo, chunkNo, marks>>

\* SessionClient.receive_message on a socket with the session's read timeout.
\* The GUI thread may shut or close the socket under the blocked read.
AwaitAck ==
    /\ At("awaitAck")
    /\ \/ net = "up" /\ ackSent /\ sSock # "closed" /\ Goto("ackRead")
       \/ sSock = "shut" /\ Raise("proto")
       \/ sSock = "closed" /\ Raise("closed")
       \/ net = "up" /\ rSock = "closed" /\ ~ackSent /\ Raise("proto")
       \/ net = "reset" /\ Raise("reset")
       \/ (net = "silent" \/ "timeout" \in Faults) /\ Raise("timeout")
    /\ Local /\ UNCHANGED <<fileNo, chunkNo, marks>>

\* handle_transfer_ack completes the job whatever its status.
AckRead ==
    /\ At("ackRead")
    /\ marks' = marks \cup {"ack"}
    /\ \/ ~sReg /\ Raise("notfound") /\ UNCHANGED sJob
       \/ sReg /\ Goto("sendClose") /\ sJob' = "COMPLETED"
    /\ UNCHANGED <<fileNo, chunkNo, sReg, sEvents, slotVars, cancelVars,
                   linkVars, clientVars>>

SendClose ==
    /\ At("sendClose")
    /\ Send(JobMessage("SESSION_CLOSE"), "completed")
    /\ MarkSent("close")
    /\ Writes /\ UNCHANGED <<fileNo, chunkNo>>

ReportCompleted ==
    /\ At("completed")
    /\ Emit("completed") /\ Cleanup /\ Leave("returned")
    /\ UNCHANGED <<fileNo, chunkNo, marks, sJob, slotVars, cancelVars, linkVars,
                   clientVars>>

(* The except handler of send_transfer. *)

\* A send whose failure is caught and forgotten.
Attempt(m) == \/ CanSend /\ wire' = Append(wire, m)
              \/ ~Usable /\ UNCHANGED wire

\* Mutant: the event alone makes a cancellation, whatever the job says.
ExpectedByEvent == cancelEvent /\ exc \in {"annule", "reset", "closed"}

\* _is_expected_cancellation_exception.
ExpectedCancellation ==
    sJob = "CANCELLED" /\ cancelEvent /\ exc \in {"annule", "reset", "closed"}

Handle ==
    /\ At("handler")
    /\ \/ ExpectedCancellation /\ Emit("failed") /\ Cleanup /\ Leave("returned")
       \/ ~ExpectedCancellation /\ Goto("branch") /\ UNCHANGED <<sReg, sEvents>>
    /\ UNCHANGED <<fileNo, chunkNo, marks, sJob, slotVars, cancelVars, linkVars,
                   clientVars>>

\* The status is read again, then once more before the job is failed.
Branch ==
    /\ At("branch")
    /\ Goto(IF sJob = "CANCELLED" THEN "tellCancel" ELSE "checkStatus")
    /\ Local /\ UNCHANGED <<fileNo, chunkNo, marks>>

\* The job is CANCELLED: TRANSFER_CANCEL is due unless the peer was told.
TellCancel ==
    LET due == sSock # "none" /\ sReg /\ marks \cap {"cancel", "ack", "close"} = {}
    IN
    /\ At("tellCancel")
    /\ \/ due /\ Goto("sendCancel") /\ UNCHANGED <<sReg, sEvents>>
       \/ ~due /\ Emit("failed") /\ Cleanup /\ Leave("returned")
    /\ UNCHANGED <<fileNo, chunkNo, marks, sJob, slotVars, cancelVars, linkVars,
                   clientVars>>

\* A failure to send it is ignored.
SendCancel ==
    /\ At("sendCancel")
    /\ Attempt(JobMessage("TRANSFER_CANCEL")) /\ MarkSent("cancel")
    /\ Emit("failed") /\ Cleanup /\ Leave("returned")
    /\ UNCHANGED <<fileNo, chunkNo, sJob, slotVars, cancelVars, sSock, rSock, net,
                   read, ackSent, clientVars>>

\* Mutant: a finished job is failed like any other.
CheckStatusNever ==
    /\ At("checkStatus")
    /\ Goto("fail")
    /\ Local /\ UNCHANGED <<fileNo, chunkNo, marks>>

CheckStatus ==
    /\ At("checkStatus")
    /\ Goto(IF sJob \in Terminal THEN "emitFailed" ELSE "fail")
    /\ Local /\ UNCHANGED <<fileNo, chunkNo, marks>>

Fail ==
    /\ At("fail")
    /\ sJob' = "FAILED"
    /\ Goto("emitFailed")
    /\ UNCHANGED <<fileNo, chunkNo, marks, sReg, sEvents, slotVars, cancelVars,
                   linkVars, clientVars>>

\* _should_send_transfer_error.
ShouldSendError ==
    /\ sSock # "none" /\ sJob # "CANCELLED"
    /\ marks \cap {"ack", "close"} = {} /\ exc # "reset"

\* Mutant: a job that was already cancelled is not reported.
ReportFailedUnlessCancelled ==
    /\ At("emitFailed")
    /\ IF sJob = "CANCELLED" THEN UNCHANGED sEvents ELSE Emit("failed")
    /\ Cleanup /\ Leave("raised")
    /\ UNCHANGED <<fileNo, chunkNo, marks, sJob, slotVars, cancelVars, linkVars,
                   clientVars>>

ReportFailed ==
    /\ At("emitFailed")
    /\ Emit("failed")
    /\ \/ ShouldSendError /\ Goto("buildError") /\ UNCHANGED sReg
       \/ ~ShouldSendError /\ Cleanup /\ Leave("raised")
    /\ UNCHANGED <<fileNo, chunkNo, marks, sJob, slotVars, cancelVars, linkVars,
                   clientVars>>

\* build_transfer_error_message fails the job whatever its status.
BuildError ==
    /\ At("buildError")
    /\ \/ sReg /\ sJob' = "FAILED" /\ Goto("sendError")
       \/ ~sReg /\ UNCHANGED sJob /\ Leave("raised")
    /\ UNCHANGED <<fileNo, chunkNo, marks, sReg, sEvents, slotVars, cancelVars,
                   linkVars, clientVars>>

SendError ==
    /\ At("sendError")
    /\ Attempt(JobMessage("TRANSFER_ERROR")) /\ MarkSent("error")
    /\ Cleanup /\ Leave("raised")
    /\ UNCHANGED <<fileNo, chunkNo, sJob, sEvents, slotVars, cancelVars, sSock,
                   rSock, net, read, ackSent, clientVars>>

(* The finally block.  Waiting for the remote close is bounded by a timeout *)
(* and changes nothing, so close_gracefully is its two effects.             *)
\* Mutant: the slot is cleared, its event is not.
ClearJobKeepsEvent ==
    /\ At("clearJob")
    /\ slotJob' = FALSE
    /\ Goto("clearSocket")
    /\ UNCHANGED <<fileNo, chunkNo, marks, jobVars, slotSock, cancelEvent,
                   cancelVars, linkVars, clientVars>>

ClearJob ==
    /\ At("clearJob")
    /\ slotJob' = FALSE /\ cancelEvent' = FALSE
    /\ Goto("clearSocket")
    /\ UNCHANGED <<fileNo, chunkNo, marks, jobVars, slotSock, cancelVars,
                   linkVars, clientVars>>

ClearSocket ==
    /\ At("clearSocket")
    /\ slotSock' = FALSE
    /\ Goto(IF sSock = "none" THEN "done" ELSE "closeSocket")
    /\ sSock' = IF sSock = "open" THEN "shut" ELSE sSock
    /\ UNCHANGED <<fileNo, chunkNo, marks, jobVars, slotJob, cancelEvent,
                   cancelVars, rSock, net, wire, read, ackSent, clientVars>>

CloseSocket ==
    /\ At("closeSocket")
    /\ sSock' = "closed"
    /\ Goto("done")
    /\ UNCHANGED <<fileNo, chunkNo, marks, jobVars, slotVars, cancelVars, rSock,
                   net, wire, read, ackSent, clientVars>>

Worker ==
    \/ StartTransfer \/ OpenSession \/ BindSocket \/ BuildMessage \/ SendInit
    \/ NextFile \/ CheckInfo \/ SendInfo \/ ReadChunk \/ CheckChunk \/ SendChunk
    \/ AfterChunk \/ SelfCancel \/ SendSelfCancel \/ SelfCancelled \/ CheckFile
    \/ SendFileDone \/ CheckEnd \/ SendDone \/ AwaitAck \/ AckRead \/ SendClose
    \/ ReportCompleted \/ Handle \/ Branch \/ TellCancel \/ SendCancel
    \/ CheckStatus \/ Fail \/ ReportFailed \/ BuildError \/ SendError
    \/ ClearJob \/ ClearSocket \/ CloseSocket

-----------------------------------------------------------------------------
(* The GUI thread: cancel_active_transfer.                                 *)

CancelGoto(s) == canceller' = s
\* Mutant: the socket is left open.
AfterCancelKeepsSocket == CancelGoto("idle")

AfterCancel == CancelGoto(IF grabbed THEN "shutdown" ELSE "idle")

\* Under the control lock: read the slot, set the event.  With no active job
\* the call returns at once.
RequestCancel ==
    /\ canceller = "idle" /\ requests < MaxRequests /\ slotJob
    /\ requests' = requests + 1
    /\ grabbed' = slotSock
    /\ cancelEvent' = TRUE
    /\ CancelGoto("check")
    /\ UNCHANGED <<workerVars, jobVars, slotJob, slotSock, linkVars, clientVars>>

\* cancel_transfer, without the lock: an unknown job raises, and the socket is
\* then left alone; a finished job is left as it is.
CancelCheck ==
    /\ canceller = "check"
    /\ \/ ~sReg /\ CancelGoto("idle")
       \/ sReg /\ sJob \in Terminal /\ AfterCancel
       \/ sReg /\ sJob \notin Terminal /\ CancelGoto("mark")
    /\ UNCHANGED <<workerVars, jobVars, slotVars, grabbed, requests, linkVars,
                   clientVars>>

CancelMark ==
    /\ canceller = "mark"
    /\ sJob' = "CANCELLED"
    /\ AfterCancel
    /\ UNCHANGED <<workerVars, sReg, sEvents, slotVars, grabbed, requests,
                   linkVars, clientVars>>

CancelShutdown ==
    /\ canceller = "shutdown"
    /\ sSock' = IF sSock = "open" THEN "shut" ELSE sSock
    /\ CancelGoto("close")
    /\ UNCHANGED <<workerVars, jobVars, slotVars, grabbed, requests, rSock, net,
                   wire, read, ackSent, clientVars>>

CancelClose ==
    /\ canceller = "close"
    /\ sSock' = "closed"
    /\ CancelGoto("idle")
    /\ UNCHANGED <<workerVars, jobVars, slotVars, grabbed, requests, rSock, net,
                   wire, read, ackSent, clientVars>>

CancelSteps == CancelCheck \/ CancelMark \/ CancelShutdown \/ CancelClose

-----------------------------------------------------------------------------
(* The client thread of the receiver's listener.                           *)

NextMessage == wire[read + 1]
Readable == client = "reading" /\ net = "up" /\ read < Len(wire)

\* What is on disk under the name of file f is what the manifest announced.
Intact(f) == /\ Len(disk[f]) = Size[f]
             /\ \A i \in 1..Len(disk[f]) : disk[f][i]

\* Mutant: size and checksum are not compared.
AcceptableUnverified(m) ==
    \/ m.type \in {"TRANSFER_INIT", "SESSION_CLOSE"}
    \/ rReg /\ m.type \in {"TRANSFER_ERROR", "TRANSFER_CANCEL"}
    \/ rReg /\ m.type = "FILE_INFO" /\ incoming = 0
    \/ rReg /\ m.type \in {"FILE_CHUNK", "FILE_COMPLETE"} /\ incoming = m.file
    \/ /\ m.type = "TRANSFER_COMPLETE"
       /\ rReg /\ incoming = 0 /\ (TotalBytes > 0 => rBytes = TotalBytes)

\* The conditions under which no handler of TransferManager raises.
Acceptable(m) ==
    \/ m.type \in {"TRANSFER_INIT", "SESSION_CLOSE"}
    \/ rReg /\ m.type \in {"TRANSFER_ERROR", "TRANSFER_CANCEL"}
    \/ /\ m.type = "FILE_INFO"
       /\ rReg /\ rJob # "CANCELLED" /\ incoming = 0
    \/ /\ m.type = "FILE_CHUNK"
       /\ rReg /\ rJob # "CANCELLED" /\ incoming = m.file
    \/ /\ m.type = "FILE_COMPLETE"
       /\ rReg /\ incoming = m.file /\ Intact(m.file)
    \/ /\ m.type = "TRANSFER_COMPLETE"
       /\ rReg
       /\ \/ rJob = "CANCELLED"
          \/ incoming = 0 /\ (TotalBytes > 0 => rBytes = TotalBytes)

\* Message m is the next of the stream, of type t, and its handler accepts it.
Accept(t) == /\ Readable /\ NextMessage.type = t /\ Acceptable(NextMessage)
             /\ read' = read + 1

\* An exception, EOF or a return of the loop: the socket is closed, and that
\* is all.  The incoming job and its open file stay as they are.
EndClient == client' = "ended" /\ rSock' = "closed"
KeepReading == UNCHANGED <<client, rSock>>
REmit(e) == rEvents' = Append(rEvents, e)
SenderSide == UNCHANGED <<workerVars, jobVars, slotVars, cancelVars>>
\* Of the connection, a handler moves only the reader.
Stream == UNCHANGED <<sSock, net, wire, ackSent>>

ReceiveInit ==
    /\ Accept("TRANSFER_INIT") /\ ~rReg
    /\ rJob' = "RUNNING" /\ rReg' = TRUE
    /\ REmit("started")
    /\ KeepReading /\ SenderSide /\ Stream
    /\ UNCHANGED <<incoming, rBytes, rFile, disk>>

\* Mutant: the bytes are counted anew with every file.
ReceiveFileInfoCountsAnew ==
    /\ Accept("FILE_INFO")
    /\ incoming' = NextMessage.file
    /\ rFile' = [rFile EXCEPT ![NextMessage.file] = "RUNNING"]
    /\ disk' = [disk EXCEPT ![NextMessage.file] = <<>>]
    /\ rBytes' = 0
    /\ KeepReading /\ SenderSide /\ Stream
    /\ UNCHANGED <<rJob, rReg, rEvents>>

\* The destination is opened under its final name, which truncates it.
ReceiveFileInfo ==
    /\ Accept("FILE_INFO")
    /\ incoming' = NextMessage.file
    /\ rFile' = [rFile EXCEPT ![NextMessage.file] = "RUNNING"]
    /\ disk' = [disk EXCEPT ![NextMessage.file] = <<>>]
    /\ KeepReading /\ SenderSide /\ Stream
    /\ UNCHANGED <<rJob, rReg, rBytes, rEvents>>

\* set_transferred_bytes caps the count at a positive total.
ReceiveChunk ==
    /\ Accept("FILE_CHUNK")
    /\ disk' = [disk EXCEPT ![NextMessage.file] = Append(@, NextMessage.same)]
    /\ rBytes' = IF TotalBytes > 0 /\ rBytes >= TotalBytes THEN TotalBytes
                                                          ELSE rBytes + 1
    /\ KeepReading /\ SenderSide /\ Stream
    /\ UNCHANGED <<rJob, rReg, incoming, rFile, rEvents>>

\* Mutant: the open file is not forgotten.
ReceiveFileCompleteStaysOpen ==
    /\ Accept("FILE_COMPLETE")
    /\ rFile' = [rFile EXCEPT ![NextMessage.file] = "COMPLETED"]
    /\ KeepReading /\ SenderSide /\ Stream
    /\ UNCHANGED <<rJob, rReg, incoming, rBytes, disk, rEvents>>

ReceiveFileComplete ==
    /\ Accept("FILE_COMPLETE")
    /\ rFile' = [rFile EXCEPT ![NextMessage.file] = "COMPLETED"]
    /\ incoming' = 0
    /\ KeepReading /\ SenderSide /\ Stream
    /\ UNCHANGED <<rJob, rReg, rBytes, disk, rEvents>>

\* Size or checksum mismatch: the file fails, the job does not.
RejectFile ==
    /\ Readable /\ NextMessage.type = "FILE_COMPLETE" /\ rReg /\ incoming = NextMessage.file
    /\ ~Intact(NextMessage.file)
    /\ rFile' = [rFile EXCEPT ![NextMessage.file] = "FAILED"]
    /\ incoming' = 0
    /\ EndClient /\ SenderSide /\ Stream
    /\ UNCHANGED <<read, rJob, rReg, rBytes, disk, rEvents>>

\* Any other refusal, such as a message about a job already cleaned up.
RejectMessage ==
    /\ Readable /\ ~Acceptable(NextMessage)
    /\ ~(NextMessage.type = "FILE_COMPLETE" /\ rReg /\ incoming = NextMessage.file)
    /\ EndClient /\ SenderSide /\ Stream
    /\ UNCHANGED <<read, rJob, rReg, incoming, rBytes, rFile, disk, rEvents>>

\* handle_transfer_complete returns a cancelled job as it is.
ReceiveTransferComplete ==
    /\ Accept("TRANSFER_COMPLETE")
    /\ rJob' = IF rJob = "CANCELLED" THEN rJob ELSE "COMPLETED"
    /\ client' = "ack"
    /\ SenderSide /\ Stream
    /\ UNCHANGED <<rSock, rReg, incoming, rBytes, rFile, disk, rEvents>>

\* build_transfer_ack_message looks the job up again, in a registry that
\* another thread may have cleaned up since.
SendAck ==
    /\ client = "ack"
    /\ \/ /\ rReg /\ net # "reset"
          /\ ackSent' = TRUE /\ client' = "finish" /\ UNCHANGED rSock
       \/ /\ ~(rReg /\ net # "reset")
          /\ EndClient /\ UNCHANGED ackSent
    /\ SenderSide
    /\ UNCHANGED <<sSock, net, wire, read, rJob, rReg, incoming, rBytes, rFile,
                   disk, rEvents>>

\* Mutant: finished jobs stay in the registry.
RCleanupNever(status) == UNCHANGED rReg

RCleanup(status) == rReg' = (rReg /\ status \notin Terminal)

FinishIncoming ==
    /\ client = "finish"
    /\ REmit("completed") /\ RCleanup(rJob)
    /\ client' = "reading"
    /\ SenderSide
    /\ UNCHANGED <<linkVars, rJob, incoming, rBytes, rFile, disk>>

ReceiveError ==
    /\ Accept("TRANSFER_ERROR")
    /\ rJob' = "FAILED" /\ RCleanup("FAILED")
    /\ incoming' = 0
    /\ REmit("failed")
    /\ EndClient /\ SenderSide /\ Stream
    /\ UNCHANGED <<rBytes, rFile, disk>>

\* Mutant: files already verified are cancelled too.
ReceiveCancelEverything ==
    /\ Accept("TRANSFER_CANCEL")
    /\ rJob' = "CANCELLED" /\ RCleanup("CANCELLED")
    /\ rFile' = [f \in Files |-> "CANCELLED"]
    /\ incoming' = 0
    /\ REmit("failed")
    /\ KeepReading /\ SenderSide /\ Stream
    /\ UNCHANGED <<rBytes, disk>>

\* The loop goes on after TRANSFER_CANCEL.
ReceiveCancel ==
    /\ Accept("TRANSFER_CANCEL")
    /\ rJob' = "CANCELLED" /\ RCleanup("CANCELLED")
    /\ rFile' = [f \in Files |-> IF f = incoming \/ rFile[f] = "RUNNING"
                                 THEN "CANCELLED" ELSE rFile[f]]
    /\ incoming' = 0
    /\ REmit("failed")
    /\ KeepReading /\ SenderSide /\ Stream
    /\ UNCHANGED <<rBytes, disk>>

ReceiveClose ==
    /\ Accept("SESSION_CLOSE")
    /\ EndClient /\ SenderSide /\ Stream
    /\ UNCHANGED <<rJob, rReg, incoming, rBytes, rFile, disk, rEvents>>

\* The handler of message m opens, writes, or flushes and closes a file.
TouchesDisk(m) ==
    \/ m.type \in {"FILE_INFO", "FILE_CHUNK"} /\ Acceptable(m)
    \/ m.type = "FILE_COMPLETE" /\ rReg /\ incoming = m.file

\* Mutant: the connection has no read timeout.
GiveUpOnlyWhenTold ==
    /\ client = "reading"
    /\ \/ net = "up" /\ read = Len(wire) /\ sSock \in {"shut", "closed"}
       \/ net = "reset"
    /\ EndClient /\ SenderSide /\ Stream
    /\ UNCHANGED <<read, rJob, rReg, incoming, rBytes, rFile, disk, rEvents>>

\* The reader gives up without a message: EOF, reset, read timeout, a disk
\* error while it opens, writes or closes the destination (which then stays the
\* open file of the job), or the listener stopped.
GiveUp ==
    /\ client = "reading"
    /\ \/ net = "up" /\ read = Len(wire) /\ sSock \in {"shut", "closed"}
       \/ net = "reset"
       \/ net = "silent"
       \/ "timeout" \in Faults /\ read = Len(wire)
       \/ "disk" \in Faults /\ Readable
          /\ TouchesDisk(NextMessage)
       \/ "stop" \in Faults
    /\ EndClient /\ SenderSide /\ Stream
    /\ UNCHANGED <<read, rJob, rReg, incoming, rBytes, rFile, disk, rEvents>>

Client ==
    \/ ReceiveInit \/ ReceiveFileInfo \/ ReceiveChunk \/ ReceiveFileComplete
    \/ RejectFile \/ RejectMessage \/ ReceiveTransferComplete \/ SendAck
    \/ FinishIncoming \/ ReceiveError \/ ReceiveCancel \/ ReceiveClose \/ GiveUp

-----------------------------------------------------------------------------
(* The network and the other transfers of the two processes.               *)

NetFails ==
    /\ "net" \in Faults
    /\ sSock # "none"
    /\ \/ net = "up" /\ net' \in {"silent", "reset"}
       \/ net = "silent" /\ net' = "reset"
    /\ UNCHANGED <<workerVars, jobVars, slotVars, cancelVars, sSock, rSock, wire,
                   read, ackSent, clientVars>>

\* One end closed: data that arrives for it, or that it left unread, is
\* answered by a reset.
PeerReset ==
    /\ net = "up" /\ "closed" \in {sSock, rSock}
    /\ net' = "reset"
    /\ UNCHANGED <<workerVars, jobVars, slotVars, cancelVars, sSock, rSock, wire,
                   read, ackSent, clientVars>>

\* Another transfer of the same process ends and cleans the registry up.
OtherCleanup ==
    /\ "cleanup" \in Faults
    /\ \/ sReg /\ sJob \in Terminal /\ sReg' = FALSE /\ UNCHANGED rReg
       \/ rReg /\ rJob \in Terminal /\ rReg' = FALSE /\ UNCHANGED sReg
    /\ UNCHANGED <<workerVars, sJob, sEvents, slotVars, cancelVars, linkVars,
                   client, rJob, incoming, rBytes, rFile, disk, rEvents>>

Environment == NetFails \/ PeerReset \/ OtherCleanup

\* The two machines are done with this transfer.
Over == /\ worker = "done" /\ canceller = "idle"
        /\ client \in {"none", "ended"}
Stutter == Over /\ UNCHANGED vars

Next == Worker \/ RequestCancel \/ CancelSteps \/ Client \/ Environment \/ Stutter

Spec == Init /\ [][Next]_vars

\* Threads that can run are run; the user need not cancel, nothing need break.
\* A transfer, once asked for, is started.
\* A peer that closed its end answers the probes of a full connection by a reset.
Fairness == /\ WF_vars(Worker) /\ WF_vars(CancelSteps) /\ WF_vars(Client)
            /\ WF_vars(rSock = "closed" /\ ~Room /\ PeerReset)
FairSpec == Spec /\ Fairness

-----------------------------------------------------------------------------
(* Properties.                                                             *)

Occurrences(events, e) == Cardinality({i \in 1..Len(events) : events[i] = e})
Reported(events, e) == \E i \in 1..Len(events) : events[i] = e

Delivered == \A f \in Files : rFile[f] = "COMPLETED" /\ Intact(f)

\* A transfer the sender counts as completed is complete at the receiver: its
\* job is COMPLETED and every file of the manifest is on disk, verified and
\* intact, whatever was cancelled, broken, reordered or changed meanwhile.
CompletedMeansDelivered ==
    sJob = "COMPLETED" \/ Reported(sEvents, "completed")
        => rJob = "COMPLETED" /\ Delivered

\* The receiver never completes a job that lacks a file or holds a bad one.
ReceiverCompletesWholeJobs == rJob = "COMPLETED" => Delivered

\* The callbacks of an outgoing transfer: started first, then at most one of
\* completed and failed, and exactly one by the time send_transfer ends, on
\* every path through its handlers.
OneOutcomeReported ==
    LET ends == Occurrences(sEvents, "completed") + Occurrences(sEvents, "failed")
    IN  /\ ends <= 1
        /\ ends = 1 => sEvents[1] = "started"
        /\ result # "none" => ends = 1

\* How send_transfer ends agrees with what it reported: it returns after a
\* completion, or after a failure of a job that is CANCELLED; it raises only
\* after a failure.
ResultMatchesReport ==
    /\ result = "returned" => \/ Reported(sEvents, "completed")
                              \/ sJob = "CANCELLED"
    /\ result = "raised" => Reported(sEvents, "failed")

\* Whatever happened, a finished send_transfer leaves no active slot, no
\* cancellation request pending for the next transfer, no registered job and
\* no open socket.
NothingLeftBehind ==
    /\ worker = "done" => /\ ~slotJob /\ ~slotSock /\ ~sReg
                          /\ sSock \in {"none", "closed"}
    /\ cancelEvent => slotJob

\* The stream obeys the protocol: nothing follows a closing message, only a
\* closing message follows TRANSFER_COMPLETE, which every FILE_COMPLETE
\* precedes, and no file is opened again once completed.
FileTypes == {"FILE_INFO", "FILE_CHUNK", "FILE_COMPLETE"}
Closing == {"TRANSFER_ERROR", "TRANSFER_CANCEL", "SESSION_CLOSE"}
StreamOrder ==
    \A j \in 1..Len(wire) : \A i \in 1..(j - 1) :
        /\ wire[i].type \notin Closing
        /\ wire[i].type = "TRANSFER_COMPLETE" => wire[j].type \in Closing
        /\ wire[i].type = "FILE_COMPLETE" /\ wire[j].type \in FileTypes
               => wire[i].file < wire[j].file
AllFilesAnnounced ==
    \A j \in 1..Len(wire) : wire[j].type = "TRANSFER_COMPLETE" =>
        \A f \in Files : \E i \in 1..(j - 1) :
            wire[i].type = "FILE_COMPLETE" /\ wire[i].file = f
StreamWellFormed == StreamOrder /\ AllFilesAnnounced

\* Once cancel_active_transfer has returned, the worker sends nothing more of
\* the content: no file is announced, streamed or completed, nor the transfer.
CancelStopsTheStream ==
    [][requests > 0 /\ canceller = "idle" /\ wire' # wire
         => wire'[Len(wire')].type \in {"TRANSFER_INIT"} \cup Closing]_vars

\* A finished incoming job keeps its status: a late TRANSFER_ERROR or
\* TRANSFER_CANCEL of a sender that gave up cannot undo a completed one.
IncomingOutcomeFinal == [][(rJob \in Terminal) => (rJob' = rJob)]_vars

\* A finished outgoing job changes its status only once a cancellation was asked
\* for, and in three ways only.  cancel_transfer, in the GUI thread, marks a job
\* that finished, in whatever way, since it looked; the worker completes a
\* CANCELLED job by an acknowledgement it had already read; or it fails one, by
\* a handler or an error message whose look at the status came before the mark.
Raced == \/ canceller = "mark" /\ sJob' = "CANCELLED"
         \/ sJob = "CANCELLED" /\ worker = "ackRead" /\ sJob' = "COMPLETED"
         \/ sJob = "CANCELLED" /\ worker \in {"fail", "buildError"} /\ sJob' = "FAILED"
OutgoingFinalUnlessRaced ==
    [][(sJob \in Terminal /\ sJob' # sJob) => requests > 0 /\ Raced]_vars

\* A file that was verified is never reopened, truncated or marked again.
VerifiedFilesKept ==
    [][\A f \in Files : rFile[f] = "COMPLETED" =>
          rFile'[f] = "COMPLETED" /\ disk'[f] = disk[f]]_vars

\* The worker is in a send over a connection that is full and silent, with the
\* socket open: it times out and tries again for as long as that lasts.
Sending == {"sendInit", "sendInfo", "sendChunk", "sendFileDone", "sendDone",
            "sendSelfCancel", "sendClose", "sendCancel", "sendError"}
SendStuck == /\ worker \in Sending /\ sSock = "open"
             /\ net = "silent" /\ ~Room

\* send_transfer always ends, but when a connection falls silent for good while
\* it is full and nobody closes the socket; every other way to wait, for the
\* acknowledgement or for room, comes to an end.
TransferEnds == <>(worker = "done") \/ <>[]SendStuck

\* The thread that serves the transfer always ends.
ClientEnds == client = "reading" ~> client = "ended"

\* With a connection that breaks for no other reason than that one end closed it,
\* the session granted, nothing cancelled, and the job left in the receiver's
\* registry by other transfers until it is acknowledged, both users are told of
\* success.
Undisturbed ==
    /\ net = "up" \/ (net = "reset" /\ "closed" \in {sSock, rSock})
    /\ requests = 0 /\ exc # "session"
    /\ client = "ack" => rReg
TransferSucceeds ==
    []Undisturbed => <>(Reported(sEvents, "completed") /\ Reported(rEvents, "completed"))

\* Claims of the documentation and of the code that the code does not keep.

\* "Si une erreur survient, l'utilisateur doit etre informe": when the thread
\* that serves an incoming transfer ends, its user was told how it ended.
ReceiverIsInformed ==
    client = "ended" /\ rJob # "absent"
        => Reported(rEvents, "completed") \/ Reported(rEvents, "failed")

\* handle_transfer_complete and cancel_transfer leave a cancelled job as it is:
\* one that was cancelled is not completed afterwards.
CancelledNeverCompletes == [][sJob = "CANCELLED" => sJob' # "COMPLETED"]_vars
====
