--------------------------- MODULE TransferProofs ---------------------------
(***************************************************************************)
(* Theorems about Transfer, for every manifest, every bound and every set  *)
(* of faults.  The lemmas go through the actors of Next one by one: the    *)
(* worker thread, the GUI thread, the receiver's client thread and the     *)
(* environment; a lemma names the actor and the part of IInv it preserves. *)
(***************************************************************************)
EXTENDS TransferInvariant, SequenceTheorems, TLAPS

-----------------------------------------------------------------------------
(* Sequences.                                                              *)

\* A log of events, or the blocks of a file, grow by one element.
LEMMA Appended ==
  ASSUME NEW S, NEW s \in Seq(S), NEW e \in S
  PROVE  /\ Append(s, e) \in Seq(S)
         /\ Len(Append(s, e)) = Len(s) + 1
         /\ Append(s, e)[Len(s) + 1] = e
         /\ \A i \in 1..Len(s) : Append(s, e)[i] = s[i]
  OBVIOUS

\* A table of files keeps its type when one entry is changed.
LEMMA Updated ==
  ASSUME NEW F, NEW S, NEW g \in [F -> S], NEW x, NEW v \in S
  PROVE  [g EXCEPT ![x] = v] \in [F -> S]
  OBVIOUS

\* The messages of the protocol are messages.
LEMMA MessageMade ==
  ASSUME NEW f \in 0..NumFiles, NEW t \in MessageType, NEW s \in BOOLEAN
  PROVE  /\ FileMessage(t, f) \in Message
         /\ Chunk(f, s) \in Message
         /\ JobMessage(t) \in Message
<1>1. FileMessage(t, f) \in Message
  BY DEF FileMessage, Message
<1>2. Chunk(f, s) \in Message
  BY DEF Chunk, Message, MessageType
<1>3. FileMessage(t, 0) \in Message
  BY ManifestAssumption DEF FileMessage, Message
<1> QED
  BY <1>1, <1>2, <1>3 DEF JobMessage

-----------------------------------------------------------------------------
(* Type correctness.                                                       *)

\* The initial state is typed.
LEMMA InitTyped == Init => TypeOK
<1> SUFFICES ASSUME Init PROVE TypeOK
  OBVIOUS
<1> USE DEF Init
<1>1. WorkerType
  BY ManifestAssumption DEF WorkerType, WorkerSteps, Exceptions
<1>2. <<>> \in Seq(Event) /\ <<>> \in Seq(Message) /\ <<>> \in Seq(BOOLEAN)
      /\ Len(<<>>) = 0
  BY EmptySeq
<1>3. JobType
  BY <1>2 DEF JobType, JobStatus
<1>4. SlotType
  BY Zenon DEF SlotType
<1>8. requests \in 0..MaxRequests
  BY BoundsAssumption
<1>9. CancelType /\ SocketType
  BY <1>8, Zenon DEF CancelType, SocketType
<1>5. StreamType
  BY <1>2 DEF StreamType
<1>6. rFile \in [Files -> FileStatus] /\ disk \in [Files -> Seq(BOOLEAN)]
  BY <1>2 DEF FileStatus
<1>7. rJob \in JobStatus /\ rEvents \in Seq(Event) /\ incoming \in 0..NumFiles
  BY <1>2, ManifestAssumption DEF JobStatus
<1>10. rBytes \in Nat /\ (TotalBytes > 0 => rBytes <= TotalBytes)
  BY ManifestAssumption
<1> QED
  BY <1>1, <1>3, <1>4, <1>5, <1>6, <1>7, <1>9, <1>10 DEF TypeOK, ClientType

\* The worker writes nothing, or one message that its statement names.
LEMMA WorkerWrites ==
  ASSUME TypeOK, Worker
  PROVE  /\ UNCHANGED read
         /\ wire' = wire \/ \E m \in Message : wire' = Append(wire, m)
<1>1. fileNo \in 0..NumFiles
  BY DEF TypeOK, WorkerType
<1>2. 0 \in 0..NumFiles
  BY ManifestAssumption
<1> DEFINE W(m) == wire' = wire \/ wire' = Append(wire, m)
<1>3. \/ wire' = wire
      \/ \E t \in MessageType : W(JobMessage(t)) \/ W(FileMessage(t, fileNo))
      \/ \E s \in BOOLEAN : W(Chunk(fileNo, s))
  BY DEF Worker, MessageType, Local, Writes, linkVars, Send, StartTransfer,
     OpenSession, BindSocket, BuildMessage, Build, SendInit, NextFile,
     CheckInfo, SendInfo, ReadChunk, CheckChunk, SendChunk, AfterChunk,
     SelfCancel, SendSelfCancel, SelfCancelled, CheckFile, SendFileDone,
     CheckEnd, SendDone, AwaitAck, AckRead, SendClose, ReportCompleted, Handle,
     Branch, SendCancel, Attempt, MarkSent, TellCancel, CheckStatus, Fail,
     BuildError, ReportFailed, SendError, ClearJob, ClearSocket, CloseSocket
<1>4. UNCHANGED read
  BY DEF Worker, Local, Writes, linkVars, StartTransfer, OpenSession,
     BindSocket, BuildMessage, Build, SendInit, NextFile, CheckInfo, SendInfo,
     ReadChunk, CheckChunk, SendChunk, AfterChunk, SelfCancel, SendSelfCancel,
     SelfCancelled, CheckFile, SendFileDone, CheckEnd, SendDone, AwaitAck,
     AckRead, SendClose, ReportCompleted, Handle, Branch, SendCancel, Attempt,
     MarkSent, TellCancel, CheckStatus, Fail, BuildError, ReportFailed,
     SendError, ClearJob, ClearSocket, CloseSocket
<1>5. ASSUME NEW t \in MessageType PROVE JobMessage(t) \in Message /\ FileMessage(t, fileNo) \in Message
  BY <1>1, MessageMade
<1>6. ASSUME NEW s \in BOOLEAN PROVE Chunk(fileNo, s) \in Message
  BY <1>1, MessageMade DEF MessageType
<1> QED
  BY <1>3, <1>4, <1>5, <1>6

\* The worker keeps the types of the variables it shares with the other threads
\* of the sender,
LEMMA WorkerTypesJob ==
  ASSUME TypeOK, Worker
  PROVE  JobType'
<1> USE DEF TypeOK, JobType, JobStatus, Terminal
<1>1. \/ UNCHANGED sEvents
      \/ \E e \in Event : sEvents' = Append(sEvents, e)
  BY DEF Worker, Event, Emit, jobVars, Local, Writes, StartTransfer,
       OpenSession, BindSocket, BuildMessage, Build, SendInit, NextFile,
       CheckInfo, SendInfo, ReadChunk, CheckChunk, SendChunk, AfterChunk,
       SelfCancel, SendSelfCancel, SelfCancelled, CheckFile, SendFileDone,
       CheckEnd, SendDone, AwaitAck, AckRead, SendClose, ReportCompleted,
       Handle, Branch, SendCancel, Attempt, MarkSent, TellCancel, CheckStatus,
       Fail, BuildError, ReportFailed, SendError, ClearJob, ClearSocket,
       CloseSocket
<1>2. sEvents' \in Seq(Event)
  BY <1>1, Appended
<1>3. sJob' \in JobStatus
  BY DEF Worker, jobVars, Local, Writes, StartTransfer, OpenSession,
       BindSocket, BuildMessage, Build, SendInit, NextFile, CheckInfo,
       SendInfo, ReadChunk, CheckChunk, SendChunk, AfterChunk, SelfCancel,
       SendSelfCancel, SelfCancelled, CheckFile, SendFileDone, CheckEnd,
       SendDone, AwaitAck, AckRead, SendClose, ReportCompleted, Handle, Branch,
       SendCancel, Attempt, MarkSent, TellCancel, CheckStatus, Fail,
       BuildError, ReportFailed, SendError, ClearJob, ClearSocket, CloseSocket
<1>4. sReg' \in BOOLEAN
  BY DEF Worker, Cleanup, jobVars, Local, Writes, StartTransfer, OpenSession,
       BindSocket, BuildMessage, Build, SendInit, NextFile, CheckInfo,
       SendInfo, ReadChunk, CheckChunk, SendChunk, AfterChunk, SelfCancel,
       SendSelfCancel, SelfCancelled, CheckFile, SendFileDone, CheckEnd,
       SendDone, AwaitAck, AckRead, SendClose, ReportCompleted, Handle, Branch,
       SendCancel, Attempt, MarkSent, TellCancel, CheckStatus, Fail,
       BuildError, ReportFailed, SendError, ClearJob, ClearSocket, CloseSocket
<1> QED
  BY <1>2, <1>3, <1>4

\* of the active slot,
LEMMA WorkerTypesSlot ==
  ASSUME TypeOK, Worker
  PROVE  SlotType'
  BY DEF TypeOK, SlotType, Worker, slotVars, Local, Writes, StartTransfer,
       OpenSession, BindSocket, BuildMessage, Build, SendInit, NextFile,
       CheckInfo, SendInfo, ReadChunk, CheckChunk, SendChunk, AfterChunk,
       SelfCancel, SendSelfCancel, SelfCancelled, CheckFile, SendFileDone,
       CheckEnd, SendDone, AwaitAck, AckRead, SendClose, ReportCompleted,
       Handle, Branch, SendCancel, Attempt, MarkSent, TellCancel, CheckStatus,
       Fail, BuildError, ReportFailed, SendError, ClearJob, ClearSocket,
       CloseSocket

\* of what only the other threads write,
LEMMA WorkerTypesRest ==
  ASSUME TypeOK, Worker
  PROVE  CancelType' /\ SocketType' /\ ClientType'
  BY DEF TypeOK, CancelType, SocketType, ClientType, Worker, cancelVars,
     linkVars, clientVars, Local, Writes, StartTransfer, OpenSession,
     BindSocket, BuildMessage, Build, SendInit, NextFile, CheckInfo, SendInfo,
     ReadChunk, CheckChunk, SendChunk, AfterChunk, SelfCancel, SendSelfCancel,
     SelfCancelled, CheckFile, SendFileDone, CheckEnd, SendDone, AwaitAck,
     AckRead, SendClose, ReportCompleted, Handle, Branch, SendCancel, Attempt,
     MarkSent, TellCancel, CheckStatus, Fail, BuildError, ReportFailed,
     SendError, ClearJob, ClearSocket, CloseSocket

\* of its own variables: it goes from a statement to a statement,
LEMMA WorkerTypesWorker ==
  ASSUME TypeOK, Worker
  PROVE  WorkerType'
<1> USE ManifestAssumption DEF TypeOK, WorkerType, WorkerSteps, Exceptions, At,
      Goto, Raise, Leave, Checkpoint, Send, Build, Attempt, MarkSent
<1>1. CASE StartTransfer
  BY <1>1 DEF StartTransfer
<1>2. CASE OpenSession
  BY <1>2 DEF OpenSession
<1>3. CASE BindSocket
  BY <1>3 DEF BindSocket
<1>4. CASE SendInit
  BY <1>4 DEF SendInit
<1>5. CASE NextFile
  BY <1>5 DEF NextFile
<1>6. CASE CheckInfo
  BY <1>6 DEF CheckInfo
<1>7. CASE SendInfo
  BY <1>7 DEF SendInfo
<1>8. CASE ReadChunk
  BY <1>8 DEF ReadChunk
<1>9. CASE CheckChunk
  BY <1>9 DEF CheckChunk
<1>10. CASE SendChunk
  BY <1>10 DEF SendChunk
<1>11. CASE AfterChunk
  BY <1>11 DEF AfterChunk
<1>12. CASE SelfCancel
  BY <1>12 DEF SelfCancel
<1>13. CASE SelfCancelled
  BY <1>13 DEF SelfCancelled
<1>14. CASE CheckFile
  BY <1>14 DEF CheckFile
<1>15. CASE SendFileDone
  BY <1>15 DEF SendFileDone
<1>16. CASE CheckEnd
  BY <1>16 DEF CheckEnd
<1>17. CASE SendDone
  BY <1>17 DEF SendDone
<1>18. CASE AwaitAck
  BY <1>18 DEF AwaitAck
<1>19. CASE AckRead
  BY <1>19 DEF AckRead
<1>20. CASE SendClose
  BY <1>20 DEF SendClose
<1>21. CASE ReportCompleted
  BY <1>21 DEF ReportCompleted
<1>22. CASE Handle
  BY <1>22 DEF Handle
<1>23. CASE Branch
  BY <1>23 DEF Branch
<1>24. CASE TellCancel
  BY <1>24 DEF TellCancel
<1>25. CASE CheckStatus
  BY <1>25 DEF CheckStatus
<1>26. CASE Fail
  BY <1>26 DEF Fail
<1>27. CASE ReportFailed
  BY <1>27 DEF ReportFailed
<1>28. CASE SendError
  BY <1>28 DEF SendError
<1>29. CASE ClearJob
  BY <1>29 DEF ClearJob
<1>30. CASE ClearSocket
  BY <1>30 DEF ClearSocket
<1>31. CASE CloseSocket
  BY <1>31 DEF CloseSocket
<1>32. CASE BuildMessage
  BY <1>32 DEF BuildMessage
<1>33. CASE SendSelfCancel
  BY <1>33 DEF SendSelfCancel
<1>34. CASE SendCancel
  BY <1>34 DEF SendCancel
<1>35. CASE BuildError
  BY <1>35 DEF BuildError
<1> QED
  BY <1>1, <1>2, <1>3, <1>4, <1>5, <1>6, <1>7, <1>8, <1>9, <1>10, <1>11,
  <1>12, <1>13, <1>14, <1>15, <1>16, <1>17, <1>18, <1>19, <1>20, <1>21,
  <1>22, <1>23, <1>24, <1>25, <1>26, <1>27, <1>28, <1>29, <1>30, <1>31, <1>32,
  <1>33, <1>34, <1>35 DEF Worker

\* and of the stream.
LEMMA WorkerTypesStream ==
  ASSUME TypeOK, Worker
  PROVE  StreamType'
  BY WorkerWrites, Appended DEF TypeOK, StreamType

\* The thread that cancels keeps the types.
LEMMA CancelTypes ==
  ASSUME TypeOK, RequestCancel \/ CancelSteps
  PROVE  TypeOK'
<1> USE DEF TypeOK, RequestCancel, CancelSteps, CancelCheck, CancelMark,
      CancelShutdown, CancelClose
<1>1. WorkerType' /\ ClientType'
  BY DEF WorkerType, ClientType, workerVars, clientVars
<1>2. JobType'
  BY DEF JobType, JobStatus, Terminal, jobVars
<1>3. SlotType'
  BY Zenon DEF SlotType, slotVars
<1>4. CancelType'
  <2>1. grabbed' \in BOOLEAN
    BY DEF CancelType, SlotType
  <2>2. requests' \in 0..MaxRequests
    BY BoundsAssumption DEF CancelType
  <2>3. canceller' \in {"idle", "check", "mark", "shutdown", "close"}
    BY DEF CancelType, CancelGoto, AfterCancel
  <2> QED
    BY <2>1, <2>2, <2>3 DEF CancelType
<1>5. SocketType' /\ StreamType'
  BY DEF SocketType, StreamType, linkVars
<1> QED
  BY <1>1, <1>2, <1>3, <1>4, <1>5

\* So do the network and the other transfers.
LEMMA EnvironmentTypes ==
  ASSUME TypeOK, Environment
  PROVE  TypeOK'
<1> USE DEF TypeOK, Environment, NetFails, PeerReset, OtherCleanup
<1>1. WorkerType' /\ SlotType' /\ CancelType'
  BY DEF WorkerType, SlotType, CancelType, workerVars, slotVars, cancelVars
<1>2. JobType'
  BY DEF JobType, jobVars
<1>3. SocketType' /\ StreamType'
  BY DEF SocketType, StreamType, linkVars
<1>4. ClientType'
  BY DEF ClientType, clientVars
<1> QED
  BY <1>1, <1>2, <1>3, <1>4

\* The receiver's thread leaves the sender's side alone, moves through the
\* stream and never writes to it.
LEMMA ClientReads ==
  ASSUME TypeOK, Client
  PROVE  /\ SenderSide /\ UNCHANGED <<wire, sSock, net>>
         /\ \/ UNCHANGED read
            \/ read' = read + 1 /\ Readable
         /\ Readable => NextMessage \in Message /\ NextMessage.file \in 0..NumFiles
<1>1. /\ SenderSide /\ UNCHANGED <<wire, sSock, net>>
      /\ UNCHANGED read \/ (read' = read + 1 /\ Readable)
  BY DEF Client, Accept, Stream, linkVars,
       ReceiveInit, ReceiveFileInfo, ReceiveChunk, ReceiveFileComplete,
       RejectFile, RejectMessage, ReceiveTransferComplete, SendAck,
       FinishIncoming, ReceiveError, ReceiveCancel, ReceiveClose, GiveUp
<1>2. ASSUME Readable PROVE NextMessage \in Message
  BY <1>2 DEF Readable, NextMessage, TypeOK, StreamType
<1> QED
  BY <1>1, <1>2 DEF Message

\* So does the receiver's thread, handler by handler.
LEMMA ClientTypes ==
  ASSUME TypeOK, Client
  PROVE  TypeOK'
<1> USE DEF TypeOK
<1>1. WorkerType' /\ JobType' /\ SlotType' /\ CancelType'
  BY ClientReads DEF SenderSide, WorkerType, JobType, SlotType, CancelType,
     workerVars, jobVars, slotVars, cancelVars
<1>4. StreamType'
  BY ClientReads DEF StreamType, Readable
<1> USE DEF Accept, KeepReading, EndClient, Stream
<1>2. SocketType'
  <2>1. ackSent' \in BOOLEAN
    BY Zenon DEF SocketType, Client, linkVars,
         ReceiveInit, ReceiveFileInfo, ReceiveChunk, ReceiveFileComplete,
         RejectFile, RejectMessage, ReceiveTransferComplete, SendAck,
         FinishIncoming, ReceiveError, ReceiveCancel, ReceiveClose, GiveUp
  <2>2. sSock' \in {"none", "open", "shut", "closed"} /\ net' \in {"up", "silent", "reset"}
    BY ClientReads DEF SocketType
  <2>3. rSock' \in {"none", "open", "closed"}
    BY DEF SocketType, Client, linkVars,
         ReceiveInit, ReceiveFileInfo, ReceiveChunk, ReceiveFileComplete,
         RejectFile, RejectMessage, ReceiveTransferComplete, SendAck,
         FinishIncoming, ReceiveError, ReceiveCancel, ReceiveClose, GiveUp
  <2> QED
    BY <2>1, <2>2, <2>3 DEF SocketType
<1>3. ClientType'
  <2> USE ManifestAssumption, ClientReads DEF ClientType, JobStatus, FileStatus,
     Terminal, Event, REmit, RCleanup
  <2>1. CASE ReceiveInit
    BY <2>1 DEF ReceiveInit
  <2>2. CASE ReceiveFileInfo
    <3>1. rFile' \in [Files -> FileStatus]
      BY <2>2, Updated DEF ReceiveFileInfo
    <3>2. disk' \in [Files -> Seq(BOOLEAN)]
      BY <2>2, Updated, EmptySeq DEF ReceiveFileInfo
    <3> QED
      BY <2>2, <3>1, <3>2 DEF ReceiveFileInfo
  <2>3. CASE ReceiveChunk
    <3>1. disk' \in [Files -> Seq(BOOLEAN)]
      <4> DEFINE m == NextMessage
      <4>1. m.same \in BOOLEAN
        BY <2>3 DEF ReceiveChunk, Message
      <4>2. ASSUME m.file \in Files PROVE Append(disk[m.file], m.same) \in Seq(BOOLEAN)
        BY <4>1, <4>2, Appended
      <4>3. CASE m.file \in Files
        BY <2>3, <4>2, <4>3, Updated DEF ReceiveChunk
      <4>4. CASE m.file \notin Files
        BY <2>3, <4>4 DEF ReceiveChunk
      <4> QED
        BY <4>3, <4>4
    <3>2. rBytes' \in Nat
      BY <2>3 DEF ReceiveChunk
    <3> QED
      BY <2>3, <3>1, <3>2 DEF ReceiveChunk
  <2>4. CASE ReceiveFileComplete
    <3>1. rFile' \in [Files -> FileStatus]
      BY <2>4, Updated DEF ReceiveFileComplete
    <3> QED
      BY <2>4, <3>1 DEF ReceiveFileComplete
  <2>5. CASE RejectFile
    <3>1. rFile' \in [Files -> FileStatus]
      BY <2>5, Updated DEF RejectFile
    <3> QED
      BY <2>5, <3>1 DEF RejectFile
  <2>6. CASE RejectMessage
    BY <2>6 DEF RejectMessage
  <2>7. CASE ReceiveTransferComplete
    BY <2>7 DEF ReceiveTransferComplete
  <2>8. CASE SendAck
    BY <2>8 DEF SendAck
  <2>9. CASE FinishIncoming
    BY <2>9 DEF FinishIncoming
  <2>10. CASE ReceiveError
    BY <2>10 DEF ReceiveError
  <2>11. CASE ReceiveCancel
    BY <2>11 DEF ReceiveCancel
  <2>12. CASE ReceiveClose
    BY <2>12 DEF ReceiveClose
  <2>13. CASE GiveUp
    BY <2>13 DEF GiveUp
  <2> QED
    BY <2>1, <2>2, <2>3, <2>4, <2>5, <2>6, <2>7, <2>8, <2>9, <2>10, <2>11,
    <2>12, <2>13 DEF Client
<1> QED
  BY <1>1, <1>2, <1>3, <1>4

\* Every step keeps the types.
LEMMA NextTyped == TypeOK /\ [Next]_vars => TypeOK'
<1> SUFFICES ASSUME TypeOK, [Next]_vars PROVE TypeOK'
  OBVIOUS
<1>1. CASE Worker
  BY <1>1, WorkerTypesJob, WorkerTypesSlot, WorkerTypesRest, WorkerTypesWorker,
     WorkerTypesStream DEF TypeOK
<1>2. CASE RequestCancel \/ CancelSteps
  BY <1>2, CancelTypes
<1>3. CASE Client
  BY <1>3, ClientTypes
<1>4. CASE Environment
  BY <1>4, EnvironmentTypes
<1>5. CASE UNCHANGED vars
  BY <1>5 DEF vars, workerVars, jobVars, slotVars, cancelVars, linkVars,
     clientVars,
     TypeOK, WorkerType, JobType, SlotType, CancelType, SocketType, StreamType,
     ClientType
<1> QED
  BY <1>1, <1>2, <1>3, <1>4, <1>5 DEF Next, Stutter

\* Every variable keeps to its set of values, whatever the manifest and the
\* faults: no interleaving of the threads drives one out of it.
THEOREM TypeCorrect == Spec => []TypeOK
  BY InitTyped, NextTyped, PTL DEF Spec

-----------------------------------------------------------------------------
(* The inductive invariant, part by part.                                  *)

\* Initially nothing is written, handled or counted as completed.
LEMMA InitHolds == Init => IInv
<1> SUFFICES ASSUME Init PROVE IInv
  OBVIOUS
<1>1. TypeOK
  BY InitTyped
<1>2. Len(wire) = 0 /\ Len(sEvents) = 0
  BY EmptySeq DEF Init
<1>3. StreamWellFormed
  BY <1>2 DEF StreamWellFormed, StreamOrder, AllFilesAnnounced
<1>4. WrittenSoFar
  BY <1>2 DEF Init, WrittenSoFar, InFile, BetweenFiles, AtEnd, Opening
<1>5. ClosedOnce
  BY <1>2 DEF Init, ClosedOnce
<1>6. HeldSoFar
  BY DEF Init, HeldSoFar, FilesHeld, OpenFileHeld, JobHeld, Completed, Terminal
<1>7. CompletedAfterAck
  BY <1>2 DEF Init, CompletedAfterAck, Reported
<1> QED
  BY <1>1, <1>3, <1>4, <1>5, <1>6, <1>7 DEF IInv

\* A message appended to the stream leaves the rest of it where it was.
LEMMA StreamGrows ==
  ASSUME TypeOK, NEW m \in Message, wire' = Append(wire, m)
  PROVE  /\ Len(wire) \in Nat
         /\ Len(wire') = Len(wire) + 1
         /\ wire'[Len(wire')] = m
         /\ \A i \in 1..Len(wire) : wire'[i] = wire[i]
  BY Appended DEF TypeOK, StreamType

\* What was completed stays so.
LEMMA CompletedGrows ==
  ASSUME TypeOK, NEW m \in Message, wire' = Append(wire, m), UNCHANGED read, NEW f
  PROVE  /\ Completed(f, Len(wire))' <=>
               \/ Completed(f, Len(wire))
               \/ m.type = "FILE_COMPLETE" /\ m.file = f
         /\ Completed(f, read)' <=> Completed(f, read)
<1>1. /\ Len(wire) \in Nat /\ Len(wire') = Len(wire) + 1
      /\ wire'[Len(wire) + 1] = m
      /\ \A i \in 1..Len(wire) : wire'[i] = wire[i]
      /\ read \in 0..Len(wire) /\ read' = read
  BY StreamGrows DEF TypeOK, StreamType
<1>2. Completed(f, read)' <=> Completed(f, read)
  BY <1>1 DEF Completed
<1>3. ASSUME Completed(f, Len(wire)) \/ (m.type = "FILE_COMPLETE" /\ m.file = f)
      PROVE  Completed(f, Len(wire))'
  BY <1>1, <1>3 DEF Completed
<1>4. ASSUME Completed(f, Len(wire))'
      PROVE  Completed(f, Len(wire)) \/ (m.type = "FILE_COMPLETE" /\ m.file = f)
  <2>1. PICK i \in 1..Len(wire') : wire'[i].type = "FILE_COMPLETE" /\ wire'[i].file = f
    BY <1>4 DEF Completed
  <2>2. i \in 1..Len(wire) \/ i = Len(wire) + 1
    BY <1>1, <2>1
  <2> QED
    BY <1>1, <2>1, <2>2 DEF Completed
<1> QED
  BY <1>2, <1>3, <1>4

\* A step of the worker that writes nothing keeps the account of what it wrote.
LEMMA QuietWritten ==
  ASSUME IInv, Worker, UNCHANGED wire
  PROVE  WrittenSoFar'
<1> USE ManifestAssumption DEF IInv, TypeOK, WorkerType, WrittenSoFar,
   Streaming, InFile, BetweenFiles, AtEnd, Opening, At, Goto, Raise, Leave,
   Checkpoint, Send, Build, Attempt, MarkSent, Completed
<1>1. CASE StartTransfer
  BY <1>1 DEF StartTransfer
<1>2. CASE OpenSession
  BY <1>2 DEF OpenSession
<1>3. CASE BindSocket
  BY <1>3 DEF BindSocket
<1>4. CASE SendInit
  BY <1>4 DEF SendInit
<1>5. CASE NextFile
  <2>1. CASE fileNo' = fileNo + 1 /\ worker' = "checkInfo"
    <3>1. fileNo \in Nat /\ fileNo' \in Nat /\ Len(wire) > 0 /\ wire' = wire
      BY <1>5, <2>1 DEF NextFile
    <3>2. ~Completed(fileNo', Len(wire))
      BY <3>1, <2>1 DEF FileTypes
    <3>3. \A f \in 1..(fileNo' - 1) : Completed(f, Len(wire))
      BY <1>5, <2>1, <3>1 DEF NextFile
    <3>4. \A i \in 1..Len(wire) :
            wire[i].type \in FileTypes => wire[i].file \in 1..fileNo'
      BY <2>1, <3>1
    <3> QED
      BY <1>5, <2>1, <3>1, <3>2, <3>3, <3>4 DEF NextFile
  <2>2. CASE UNCHANGED fileNo
    BY <1>5, <2>2 DEF NextFile
  <2> QED
    BY <1>5, <2>1, <2>2 DEF NextFile
<1>6. CASE CheckInfo
  BY <1>6 DEF CheckInfo
<1>7. CASE SendInfo
  BY <1>7 DEF SendInfo
<1>8. CASE ReadChunk
  BY <1>8 DEF ReadChunk
<1>9. CASE CheckChunk
  BY <1>9 DEF CheckChunk
<1>10. CASE SendChunk
  BY <1>10 DEF SendChunk
<1>11. CASE AfterChunk
  BY <1>11 DEF AfterChunk
<1>12. CASE SelfCancel
  BY <1>12 DEF SelfCancel
<1>13. CASE SelfCancelled
  BY <1>13 DEF SelfCancelled
<1>14. CASE CheckFile
  BY <1>14 DEF CheckFile
<1>15. CASE SendFileDone
  BY <1>15 DEF SendFileDone
<1>16. CASE CheckEnd
  BY <1>16 DEF CheckEnd
<1>17. CASE SendDone
  BY <1>17 DEF SendDone
<1>18. CASE AwaitAck
  BY <1>18 DEF AwaitAck
<1>19. CASE AckRead
  BY <1>19 DEF AckRead
<1>20. CASE SendClose
  BY <1>20 DEF SendClose
<1>21. CASE ReportCompleted
  BY <1>21 DEF ReportCompleted
<1>22. CASE Handle
  BY <1>22 DEF Handle
<1>23. CASE Branch
  BY <1>23 DEF Branch
<1>24. CASE TellCancel
  BY <1>24 DEF TellCancel
<1>25. CASE CheckStatus
  BY <1>25 DEF CheckStatus
<1>26. CASE Fail
  BY <1>26 DEF Fail
<1>27. CASE ReportFailed
  BY <1>27 DEF ReportFailed
<1>28. CASE SendError
  BY <1>28 DEF SendError
<1>29. CASE ClearJob
  BY <1>29 DEF ClearJob
<1>30. CASE ClearSocket
  BY <1>30 DEF ClearSocket
<1>31. CASE CloseSocket
  BY <1>31 DEF CloseSocket
<1>32. CASE BuildMessage
  BY <1>32 DEF BuildMessage
<1>33. CASE SendSelfCancel
  BY <1>33 DEF SendSelfCancel
<1>34. CASE SendCancel
  BY <1>34 DEF SendCancel
<1>35. CASE BuildError
  BY <1>35 DEF BuildError
<1> QED
  BY <1>1, <1>2, <1>3, <1>4, <1>5, <1>6, <1>7, <1>8, <1>9, <1>10, <1>11,
  <1>12, <1>13, <1>14, <1>15, <1>16, <1>17, <1>18, <1>19, <1>20, <1>21,
  <1>22, <1>23, <1>24, <1>25, <1>26, <1>27, <1>28, <1>29, <1>30, <1>31, <1>32,
  <1>33, <1>34, <1>35 DEF Worker

\* The conditions under which one more message keeps the stream well formed.
LEMMA StreamExtended ==
  ASSUME TypeOK, StreamWellFormed, NEW m \in Message, wire' = Append(wire, m),
         \A i \in 1..Len(wire) :
            /\ wire[i].type \notin Closing
            /\ wire[i].type = "TRANSFER_COMPLETE" => m.type \in Closing
            /\ wire[i].type = "FILE_COMPLETE" /\ m.type \in FileTypes
                  => wire[i].file < m.file,
         m.type = "TRANSFER_COMPLETE" => \A f \in Files : Completed(f, Len(wire))
  PROVE  StreamWellFormed'
<1>1. /\ Len(wire) \in Nat /\ Len(wire') = Len(wire) + 1
      /\ wire'[Len(wire) + 1] = m
      /\ \A i \in 1..Len(wire) : wire'[i] = wire[i]
  BY StreamGrows
<1>2. StreamOrder'
  BY <1>1 DEF StreamWellFormed, StreamOrder
<1>3. ASSUME NEW j \in 1..Len(wire'), wire'[j].type = "TRANSFER_COMPLETE", NEW f \in Files
      PROVE  \E i \in 1..(j - 1) : wire'[i].type = "FILE_COMPLETE" /\ wire'[i].file = f
  <2>1. CASE j \in 1..Len(wire)
    <3>1. PICK i \in 1..(j - 1) : wire[i].type = "FILE_COMPLETE" /\ wire[i].file = f
      BY <1>1, <1>3, <2>1 DEF StreamWellFormed, AllFilesAnnounced
    <3> QED
      BY <1>1, <2>1, <3>1
  <2>2. CASE j = Len(wire) + 1
    BY <1>1, <1>3, <2>2 DEF Completed
  <2> QED
    BY <1>1, <2>1, <2>2
<1> QED
  BY <1>2, <1>3 DEF StreamWellFormed, AllFilesAnnounced

\* What the worker writes is what its statement may write at that point.
LEMMA SentWritten ==
  ASSUME IInv, Worker, wire' # wire
  PROVE  WrittenSoFar' /\ StreamWellFormed'
<1> USE ManifestAssumption DEF IInv, TypeOK, WorkerType, WrittenSoFar,
   Streaming, InFile, BetweenFiles, AtEnd, Opening, At, Goto, Raise, Leave, Send,
   Build, Attempt, MarkSent, Writes, FileMessage, JobMessage, Chunk
<1>0. fileNo \in 0..NumFiles /\ 0 \in 0..NumFiles /\ UNCHANGED read
  BY WorkerWrites
<1>1. CASE SendInit
  <2> DEFINE m == JobMessage("TRANSFER_INIT")
  <2>1. m \in Message /\ wire' = Append(wire, m) /\ UNCHANGED fileNo
        /\ worker' = "nextFile"
    BY <1>0, <1>1, MessageMade DEF SendInit, MessageType
  <2>2. StreamWellFormed'
    BY <1>0, <1>1, <2>1, StreamExtended DEF SendInit, FileTypes, Closing,
       ClosedOnce
  <2>3. WrittenSoFar'
    BY <1>0, <1>1, <2>1, StreamGrows, CompletedGrows DEF SendInit, FileTypes,
       Closing
  <2> QED
    BY <2>2, <2>3
<1>2. CASE SendInfo
  <2> DEFINE m == FileMessage("FILE_INFO", fileNo)
  <2>1. m \in Message /\ wire' = Append(wire, m) /\ UNCHANGED fileNo
        /\ worker' = "chunk"
    BY <1>0, <1>2, MessageMade DEF SendInfo, MessageType
  <2>4. ASSUME NEW i \in 1..Len(wire), wire[i].type = "FILE_COMPLETE"
        PROVE  wire[i].file < fileNo
    <3>1. wire[i].file \in 1..fileNo /\ wire[i].file # fileNo
      BY <1>2, <2>4 DEF SendInfo, Completed, FileTypes
    <3> QED
      BY <1>0, <3>1
  <2>2. StreamWellFormed'
    BY <1>0, <1>2, <2>1, <2>4, StreamExtended DEF SendInfo, FileTypes, Closing
  <2>3. WrittenSoFar'
    BY <1>0, <1>2, <2>1, StreamGrows, CompletedGrows DEF SendInfo, FileTypes,
       Closing
  <2> QED
    BY <2>2, <2>3
<1>3. CASE SendChunk
  <2>1. PICK s \in BOOLEAN : wire' = Append(wire, Chunk(fileNo, s))
    BY <1>3 DEF SendChunk
  <2> DEFINE m == Chunk(fileNo, s)
  <2>2. m \in Message /\ UNCHANGED fileNo /\ worker' = "afterChunk"
    BY <1>0, <1>3, MessageMade DEF SendChunk, MessageType
  <2>3. ASSUME NEW i \in 1..Len(wire), wire[i].type = "FILE_COMPLETE"
        PROVE  wire[i].file < fileNo
    <3>1. wire[i].file \in 1..fileNo /\ wire[i].file # fileNo
      BY <1>3, <2>3 DEF SendChunk, Completed, FileTypes
    <3> QED
      BY <1>0, <3>1
  <2>4. StreamWellFormed'
    BY <1>0, <1>3, <2>1, <2>2, <2>3, StreamExtended DEF SendChunk, FileTypes,
       Closing
  <2>5. WrittenSoFar'
    BY <1>0, <1>3, <2>1, <2>2, StreamGrows, CompletedGrows DEF SendChunk,
       FileTypes, Closing
  <2> QED
    BY <2>4, <2>5
<1>4. CASE SendSelfCancel
  <2> DEFINE m == JobMessage("TRANSFER_CANCEL")
  <2>1. m \in Message /\ wire' = Append(wire, m) /\ UNCHANGED fileNo
        /\ worker' = "selfCancelled"
    BY <1>0, <1>4, MessageMade DEF SendSelfCancel, MessageType
  <2>2. StreamWellFormed'
    BY <1>0, <1>4, <2>1, StreamExtended DEF SendSelfCancel, FileTypes, Closing,
       ClosedOnce
  <2>3. WrittenSoFar'
    BY <1>0, <1>4, <2>1, StreamGrows, CompletedGrows DEF SendSelfCancel, FileTypes,
       Closing
  <2> QED
    BY <2>2, <2>3
<1>5. CASE SendFileDone
  <2> DEFINE m == FileMessage("FILE_COMPLETE", fileNo)
  <2>1. m \in Message /\ wire' = Append(wire, m) /\ UNCHANGED fileNo
        /\ worker' = "nextFile"
    BY <1>0, <1>5, MessageMade DEF SendFileDone, MessageType
  <2>4. ASSUME NEW i \in 1..Len(wire), wire[i].type = "FILE_COMPLETE"
        PROVE  wire[i].file < fileNo
    <3>1. wire[i].file \in 1..fileNo /\ wire[i].file # fileNo
      BY <1>5, <2>4 DEF SendFileDone, Completed, FileTypes
    <3> QED
      BY <1>0, <3>1
  <2>2. StreamWellFormed'
    BY <1>0, <1>5, <2>1, <2>4, StreamExtended DEF SendFileDone, FileTypes,
       Closing
  <2>3. WrittenSoFar'
    BY <1>0, <1>5, <2>1, StreamGrows, CompletedGrows DEF SendFileDone,
       FileTypes, Closing
  <2> QED
    BY <2>2, <2>3
<1>6. CASE SendDone
  <2> DEFINE m == JobMessage("TRANSFER_COMPLETE")
  <2>1. m \in Message /\ wire' = Append(wire, m) /\ UNCHANGED fileNo
        /\ worker' = "awaitAck"
    BY <1>0, <1>6, MessageMade DEF SendDone, MessageType
  <2>2. StreamWellFormed'
    <3>1. \A f \in Files : Completed(f, Len(wire))
      BY <1>6 DEF SendDone, Files
    <3> QED
      BY <1>0, <1>6, <2>1, <3>1, StreamExtended DEF SendDone, FileTypes, Closing
  <2>3. WrittenSoFar'
    BY <1>0, <1>6, <2>1, StreamGrows, CompletedGrows DEF SendDone, FileTypes,
       Closing
  <2> QED
    BY <2>2, <2>3
<1>7. CASE SendClose
  <2> DEFINE m == JobMessage("SESSION_CLOSE")
  <2>1. m \in Message /\ wire' = Append(wire, m) /\ UNCHANGED fileNo
        /\ worker' = "completed"
    BY <1>0, <1>7, MessageMade DEF SendClose, MessageType
  <2>2. StreamWellFormed'
    BY <1>0, <1>7, <2>1, StreamExtended DEF SendClose, FileTypes, Closing,
       ClosedOnce
  <2>3. WrittenSoFar'
    BY <1>0, <1>7, <2>1, StreamGrows, CompletedGrows DEF SendClose, FileTypes,
       Closing
  <2> QED
    BY <2>2, <2>3
<1>8. CASE SendCancel
  <2> DEFINE m == JobMessage("TRANSFER_CANCEL")
  <2>1. m \in Message /\ wire' = Append(wire, m) /\ UNCHANGED fileNo
        /\ worker' = "clearJob"
    BY <1>0, <1>8, MessageMade DEF SendCancel, MessageType
  <2>2. StreamWellFormed'
    BY <1>0, <1>8, <2>1, StreamExtended DEF SendCancel, FileTypes, Closing,
       ClosedOnce
  <2>3. WrittenSoFar'
    BY <1>0, <1>8, <2>1, StreamGrows, CompletedGrows DEF SendCancel, FileTypes,
       Closing
  <2> QED
    BY <2>2, <2>3
<1>9. CASE SendError
  <2> DEFINE m == JobMessage("TRANSFER_ERROR")
  <2>1. m \in Message /\ wire' = Append(wire, m) /\ UNCHANGED fileNo
        /\ worker' = "clearJob"
    BY <1>0, <1>9, MessageMade DEF SendError, MessageType
  <2>2. StreamWellFormed'
    BY <1>0, <1>9, <2>1, StreamExtended DEF SendError, FileTypes, Closing,
       ClosedOnce
  <2>3. WrittenSoFar'
    BY <1>0, <1>9, <2>1, StreamGrows, CompletedGrows DEF SendError, FileTypes,
       Closing
  <2> QED
    BY <2>2, <2>3
<1>10. SendInit \/ SendInfo \/ SendChunk \/ SendSelfCancel \/ SendFileDone
       \/ SendDone \/ SendClose \/ SendCancel \/ SendError
  BY DEF Worker, Local, linkVars, BuildMessage, SelfCancel, TellCancel,
       BuildError, StartTransfer, OpenSession, BindSocket, NextFile, CheckInfo,
       ReadChunk, CheckChunk, AfterChunk, SelfCancelled, CheckFile,
       CheckEnd, AwaitAck, AckRead, ReportCompleted, Handle, Branch,
       CheckStatus, Fail, ReportFailed, ClearJob, ClearSocket, CloseSocket
<1> QED
  BY <1>1, <1>2, <1>3, <1>4, <1>5, <1>6, <1>7, <1>8, <1>9, <1>10

\* The worker keeps the stream well formed.
LEMMA WorkerKeepsStream ==
  ASSUME IInv, Worker
  PROVE  WrittenSoFar' /\ StreamWellFormed'
<1>1. CASE UNCHANGED wire
  <2>1. StreamWellFormed'
    BY <1>1 DEF IInv, StreamWellFormed, StreamOrder, AllFilesAnnounced
  <2> QED
    BY <1>1, <2>1, QuietWritten
<1> QED
  BY <1>1, SentWritten

\* The worker writes one closing message at most, and marks it.
LEMMA WorkerKeepsClosedOnce ==
  ASSUME IInv, Worker
  PROVE  ClosedOnce'
<1>0. WrittenSoFar'
  BY WorkerKeepsStream
<1> USE DEF IInv, TypeOK, WorkerType, ClosedOnce, Streaming, Failing, Handling, InFile,
   BetweenFiles, AtEnd, Opening, WrittenSoFar, At, Goto, Raise, Leave, Checkpoint,
   Send, Build, Attempt, MarkSent, Local, Writes, jobVars, linkVars
<1>1. CASE StartTransfer
  BY <1>1 DEF StartTransfer
<1>2. CASE OpenSession
  BY <1>2 DEF OpenSession
<1>3. CASE BindSocket
  BY <1>3 DEF BindSocket
<1>4. CASE SendInit
  BY <1>0, <1>4 DEF SendInit
<1>5. CASE NextFile
  BY <1>5 DEF NextFile
<1>6. CASE CheckInfo
  BY <1>6 DEF CheckInfo
<1>7. CASE SendInfo
  BY <1>0, <1>7 DEF SendInfo
<1>8. CASE ReadChunk
  BY <1>8 DEF ReadChunk
<1>9. CASE CheckChunk
  BY <1>9 DEF CheckChunk
<1>10. CASE SendChunk
  BY <1>0, <1>10 DEF SendChunk
<1>11. CASE AfterChunk
  BY <1>11 DEF AfterChunk
<1>12. CASE SelfCancel
  BY <1>12 DEF SelfCancel, Terminal, JobStatus
<1>13. CASE SelfCancelled
  BY <1>13 DEF SelfCancelled
<1>14. CASE CheckFile
  BY <1>14 DEF CheckFile
<1>15. CASE SendFileDone
  BY <1>0, <1>15 DEF SendFileDone
<1>16. CASE CheckEnd
  BY <1>16 DEF CheckEnd
<1>17. CASE SendDone
  <2> DEFINE m == JobMessage("TRANSFER_COMPLETE")
  <2>1. \A i \in 1..Len(wire) : wire[i].type \notin Closing
    BY <1>17 DEF SendDone
  <2>2. CASE wire' = Append(wire, m)
    <3>1. m \in Message /\ m.type \notin Closing
      BY ManifestAssumption, MessageMade DEF MessageType, JobMessage,
         FileMessage, Closing
    <3>2. \A i \in 1..Len(wire') : wire'[i].type \notin Closing
      BY <2>1, <2>2, <3>1, StreamGrows
    <3> QED
      BY <1>17, <2>2, <3>2 DEF SendDone
  <2>3. CASE UNCHANGED wire
    BY <1>17, <2>3 DEF SendDone
  <2> QED
    BY <1>17, <2>2, <2>3 DEF SendDone
<1>18. CASE AwaitAck
  BY <1>18 DEF AwaitAck
<1>19. CASE AckRead
  BY <1>19 DEF AckRead
<1>20. CASE SendClose
  BY <1>20 DEF SendClose
<1>21. CASE ReportCompleted
  BY <1>21 DEF ReportCompleted
<1>22. CASE Handle
  BY <1>22 DEF Handle
<1>23. CASE Branch
  BY <1>23 DEF Branch
<1>24. CASE TellCancel
  BY <1>24 DEF TellCancel
<1>25. CASE CheckStatus
  BY <1>25 DEF CheckStatus
<1>26. CASE Fail
  BY <1>26 DEF Fail
<1>27. CASE ReportFailed
  <2>1. ShouldSendError => marks = {}
    BY <1>27 DEF ReportFailed, ShouldSendError
  <2> QED
    BY <1>27, <2>1 DEF ReportFailed
<1>28. CASE SendError
  BY <1>28 DEF SendError
<1>29. CASE ClearJob
  BY <1>29 DEF ClearJob
<1>30. CASE ClearSocket
  BY <1>30 DEF ClearSocket
<1>31. CASE CloseSocket
  BY <1>31 DEF CloseSocket
<1>32. CASE BuildMessage
  BY <1>32 DEF BuildMessage
<1>33. CASE SendSelfCancel
  BY <1>0, <1>33 DEF SendSelfCancel
<1>34. CASE SendCancel
  BY <1>0, <1>34 DEF SendCancel
<1>35. CASE BuildError
  BY <1>35 DEF BuildError
<1> QED
  BY <1>1, <1>2, <1>3, <1>4, <1>5, <1>6, <1>7, <1>8, <1>9, <1>10, <1>11,
  <1>12, <1>13, <1>14, <1>15, <1>16, <1>17, <1>18, <1>19, <1>20, <1>21,
  <1>22, <1>23, <1>24, <1>25, <1>26, <1>27, <1>28, <1>29, <1>30, <1>31, <1>32,
  <1>33, <1>34, <1>35 DEF Worker


\* Nothing the sender's worker does reaches the receiver but the stream.
LEMMA WorkerLeavesFiles ==
  ASSUME Worker
  PROVE  UNCHANGED <<rJob, rReg, incoming, rFile, disk, ackSent, read>>
  BY DEF Worker, Local, Writes, linkVars, clientVars, StartTransfer,
       OpenSession, BindSocket, BuildMessage, Build, SendInit, NextFile,
       CheckInfo, SendInfo, ReadChunk, CheckChunk, SendChunk, AfterChunk,
       SelfCancel, SendSelfCancel, SelfCancelled, CheckFile, SendFileDone,
       CheckEnd, SendDone, AwaitAck, AckRead, SendClose, ReportCompleted,
       Handle, Branch, SendCancel, Attempt, MarkSent, TellCancel, CheckStatus,
       Fail, BuildError, ReportFailed, SendError, ClearJob, ClearSocket,
       CloseSocket

\* What the receiver holds does not depend on the worker.
LEMMA WorkerKeepsHeld ==
  ASSUME IInv, Worker
  PROVE  HeldSoFar'
<1> USE DEF IInv, TypeOK, HeldSoFar
<1>1. UNCHANGED <<rJob, rReg, incoming, rFile, disk, ackSent, read>>
  BY WorkerLeavesFiles
<1>2. UNCHANGED client \/ (client = "none" /\ client' = "reading")
  BY DEF JobHeld, Worker, Local, Writes, clientVars, At, StartTransfer,
       OpenSession, BindSocket, BuildMessage, Build, SendInit, NextFile,
       CheckInfo, SendInfo, ReadChunk, CheckChunk, SendChunk, AfterChunk,
       SelfCancel, SendSelfCancel, SelfCancelled, CheckFile, SendFileDone,
       CheckEnd, SendDone, AwaitAck, AckRead, SendClose, ReportCompleted,
       Handle, Branch, SendCancel, Attempt, MarkSent, TellCancel, CheckStatus,
       Fail, BuildError, ReportFailed, SendError, ClearJob, ClearSocket,
       CloseSocket
<1>3. \A i \in 1..read : wire'[i] = wire[i]
  BY WorkerWrites, StreamGrows DEF StreamType
<1>4. \A f \in Files : Completed(f, read)' <=> Completed(f, read)
  BY <1>1, <1>3 DEF Completed
<1>5. Has("TRANSFER_COMPLETE", read)' <=> Has("TRANSFER_COMPLETE", read)
  BY <1>1, <1>3 DEF Has
<1>6. \A f \in Files : Intact(f)' <=> Intact(f)
  BY <1>1 DEF Intact
<1>7. (worker \in {"idle", "open"} => client = "none")'
  BY <1>1 DEF JobHeld, Worker, Local, Writes, clientVars, At, Goto, Raise,
     Leave, Checkpoint, Send, StartTransfer, OpenSession, BindSocket,
     BuildMessage, Build, SendInit, NextFile, CheckInfo, SendInfo, ReadChunk,
     CheckChunk, SendChunk, AfterChunk, SelfCancel, SendSelfCancel,
     SelfCancelled, CheckFile, SendFileDone, CheckEnd, SendDone, AwaitAck,
     AckRead, SendClose, ReportCompleted, Handle, Branch, SendCancel, Attempt,
     MarkSent, TellCancel, CheckStatus, Fail, BuildError, ReportFailed,
     SendError, ClearJob, ClearSocket, CloseSocket
<1>8. FilesHeld'
  BY <1>1, <1>4, <1>6 DEF FilesHeld
<1>9. OpenFileHeld'
  BY <1>1 DEF OpenFileHeld
<1>10. JobHeld'
  BY <1>1, <1>2, <1>5, <1>7 DEF JobHeld
<1> QED
  BY <1>8, <1>9, <1>10

\* The worker completes its job after the acknowledgement only.
LEMMA WorkerKeepsAck ==
  ASSUME IInv, Worker
  PROVE  CompletedAfterAck'
<1> USE DEF IInv, CompletedAfterAck
<1>1. UNCHANGED ackSent
  BY DEF Worker, Local, Writes, linkVars, StartTransfer, OpenSession,
       BindSocket, BuildMessage, Build, SendInit, NextFile, CheckInfo,
       SendInfo, ReadChunk, CheckChunk, SendChunk, AfterChunk, SelfCancel,
       SendSelfCancel, SelfCancelled, CheckFile, SendFileDone, CheckEnd,
       SendDone, AwaitAck, AckRead, SendClose, ReportCompleted, Handle, Branch,
       SendCancel, Attempt, MarkSent, TellCancel, CheckStatus, Fail,
       BuildError, ReportFailed, SendError, ClearJob, ClearSocket, CloseSocket
<1>2. (worker \in {"ackRead", "sendClose", "completed"} => ackSent)'
  BY <1>1 DEF TypeOK, WorkerType, WorkerSteps, At, Goto, Raise, Leave,
     Checkpoint, Send, Worker, StartTransfer, OpenSession, BindSocket,
     BuildMessage, Build, SendInit, NextFile, CheckInfo, SendInfo, ReadChunk,
     CheckChunk, SendChunk, AfterChunk, SelfCancel, SendSelfCancel,
     SelfCancelled, CheckFile, SendFileDone, CheckEnd, SendDone, AwaitAck,
     AckRead, SendClose, ReportCompleted, Handle, Branch, SendCancel, Attempt,
     MarkSent, TellCancel, CheckStatus, Fail, BuildError, ReportFailed,
     SendError, ClearJob, ClearSocket, CloseSocket
<1>3. (sJob = "COMPLETED" => ackSent)'
  BY <1>1 DEF Worker, Local, Writes, jobVars, At, StartTransfer, OpenSession,
       BindSocket, BuildMessage, Build, SendInit, NextFile, CheckInfo,
       SendInfo, ReadChunk, CheckChunk, SendChunk, AfterChunk, SelfCancel,
       SendSelfCancel, SelfCancelled, CheckFile, SendFileDone, CheckEnd,
       SendDone, AwaitAck, AckRead, SendClose, ReportCompleted, Handle, Branch,
       SendCancel, Attempt, MarkSent, TellCancel, CheckStatus, Fail,
       BuildError, ReportFailed, SendError, ClearJob, ClearSocket, CloseSocket
<1>4. (Reported(sEvents, "completed") => ackSent)'
  <2>1. \/ UNCHANGED sEvents
        \/ \E e \in {"started", "failed"} : sEvents' = Append(sEvents, e)
        \/ worker = "completed" /\ sEvents' = Append(sEvents, "completed")
    BY DEF Worker, At, Emit, jobVars, Local, Writes, StartTransfer,
         OpenSession, BindSocket, BuildMessage, Build, SendInit, NextFile,
         CheckInfo, SendInfo, ReadChunk, CheckChunk, SendChunk, AfterChunk,
         SelfCancel, SendSelfCancel, SelfCancelled, CheckFile, SendFileDone,
         CheckEnd, SendDone, AwaitAck, AckRead, SendClose, ReportCompleted,
         Handle, Branch, SendCancel, Attempt, MarkSent, TellCancel,
         CheckStatus, Fail, BuildError, ReportFailed, SendError, ClearJob,
         ClearSocket, CloseSocket
  <2>2. ASSUME NEW e \in Event, sEvents' = Append(sEvents, e), e # "completed", Reported(sEvents, "completed")'
        PROVE  Reported(sEvents, "completed")
    BY <2>2, Appended DEF Reported, TypeOK, JobType
  <2> QED
    BY <1>1, <2>1, <2>2 DEF Reported, Event
<1> QED
  BY <1>2, <1>3, <1>4

\* IInv reads only some of the variables; sJob may change to CANCELLED.
LEMMA UntouchedHolds ==
  ASSUME IInv, TypeOK',
         UNCHANGED <<worker, fileNo, marks, sEvents, wire, read, ackSent, client,
                     rJob, rFile, disk, incoming>>,
         sJob' \in {sJob, "CANCELLED"}, rReg' => rReg
  PROVE  IInv'
<1> USE DEF IInv
<1>1. StreamWellFormed' /\ WrittenSoFar'
  BY DEF StreamWellFormed, StreamOrder, AllFilesAnnounced, WrittenSoFar,
     Completed
<1>2. ClosedOnce'
  BY DEF ClosedOnce
<1>3. HeldSoFar'
  BY DEF HeldSoFar, FilesHeld, OpenFileHeld, JobHeld, Completed, Has, Intact
<1>4. CompletedAfterAck'
  BY DEF CompletedAfterAck, Reported
<1> QED
  BY <1>1, <1>2, <1>3, <1>4

\* Cancelling touches the status of the outgoing job and its socket only.
LEMMA CancelKeeps ==
  ASSUME IInv, RequestCancel \/ CancelSteps
  PROVE  IInv'
<1>1. TypeOK'
  BY CancelTypes DEF IInv
<1> QED
  BY <1>1, UntouchedHolds DEF RequestCancel, CancelSteps, CancelCheck,
     CancelMark,
     CancelShutdown, CancelClose, workerVars, jobVars, linkVars, clientVars

\* Losing the connection, or a job leaving a registry, disturbs nothing.
LEMMA EnvironmentKeeps ==
  ASSUME IInv, Environment
  PROVE  IInv'
<1>1. TypeOK'
  BY EnvironmentTypes DEF IInv
<1> QED
  BY <1>1, UntouchedHolds DEF Environment, NetFails, PeerReset, OtherCleanup,
     workerVars, jobVars, linkVars, clientVars

\* Nor does standing still.
LEMMA StutterKeeps ==
  ASSUME IInv, UNCHANGED vars
  PROVE  IInv'
<1>1. TypeOK'
  BY NextTyped DEF IInv
<1> QED
  BY <1>1, UntouchedHolds DEF vars, workerVars, jobVars, linkVars, clientVars

\* The next message enters the handled prefix.
LEMMA PrefixGrows ==
  ASSUME TypeOK, Readable, read' = read + 1, UNCHANGED wire
  PROVE  /\ \A f \in Files : Completed(f, read)' <=>
               \/ Completed(f, read)
               \/ NextMessage.type = "FILE_COMPLETE" /\ NextMessage.file = f
         /\ Has("TRANSFER_COMPLETE", read)' <=>
               \/ Has("TRANSFER_COMPLETE", read)
               \/ NextMessage.type = "TRANSFER_COMPLETE"
  BY DEF TypeOK, StreamType, Readable, NextMessage, Completed, Has

\* The handled prefix stays when nothing is handled.
LEMMA PrefixKept ==
  ASSUME UNCHANGED <<read, wire>>
  PROVE  /\ \A f \in Files : Completed(f, read)' <=> Completed(f, read)
         /\ Has("TRANSFER_COMPLETE", read)' <=> Has("TRANSFER_COMPLETE", read)
  BY DEF Completed, Has

\* A file the next message is about is not among those already completed.
LEMMA NextFileIsOpen ==
  ASSUME IInv, Readable, NextMessage.type \in FileTypes
  PROVE  ~Completed(NextMessage.file, read)
<1> SUFFICES ASSUME NEW i \in 1..read, wire[i].type = "FILE_COMPLETE",
                    wire[i].file = NextMessage.file
             PROVE  FALSE
  BY DEF Completed
<1>1. read + 1 \in 1..Len(wire) /\ i \in 1..((read + 1) - 1) /\ i \in 1..Len(wire)
  BY DEF IInv, TypeOK, StreamType, Readable
<1>2. wire[i].file < wire[read + 1].file
  BY <1>1 DEF IInv, StreamWellFormed, StreamOrder, NextMessage
<1>3. wire[i] \in Message
  BY <1>1 DEF IInv, TypeOK, StreamType
<1>4. wire[i].file \in Nat
  BY <1>3, ManifestAssumption DEF Message
<1> QED
  BY <1>2, <1>4 DEF NextMessage

\* A file of the manifest is what a message about a file names.
LEMMA NextFileIsListed ==
  ASSUME IInv, Readable, NextMessage.type \in FileTypes
  PROVE  NextMessage.file \in Files
<1>1. read + 1 \in 1..Len(wire)
  BY DEF IInv, TypeOK, StreamType, Readable
<1>2. wire[read + 1].file \in 1..fileNo /\ fileNo \in 0..NumFiles
  BY <1>1 DEF IInv, WrittenSoFar, NextMessage, TypeOK, WorkerType
<1> QED
  BY <1>2, ManifestAssumption DEF NextMessage, Files

\* A file is completed, here and in the stream, by FILE_COMPLETE alone, and
\* what is on disk of a completed file is never written again.
LEMMA OthersCompleteNothing ==
  ASSUME IInv, Client, ~ReceiveFileComplete
  PROVE  /\ \A f \in Files : rFile'[f] = "COMPLETED" <=> rFile[f] = "COMPLETED"
         /\ \A f \in Files : rFile[f] = "COMPLETED" => disk'[f] = disk[f]
         /\ \A f \in Files : Completed(f, read)' <=> Completed(f, read)
<1>1. /\ TypeOK /\ FilesHeld /\ OpenFileHeld
      /\ rFile \in [Files -> FileStatus] /\ disk \in [Files -> Seq(BOOLEAN)]
      /\ incoming \in 0..NumFiles
  BY DEF IInv, HeldSoFar, TypeOK, ClientType
<1>2. UNCHANGED wire
  BY ClientReads DEF IInv
<1>3. ASSUME Readable, NextMessage.type \in FileTypes
      PROVE  NextMessage.file \in Files /\ NextMessage.file # 0
             /\ rFile[NextMessage.file] # "COMPLETED"
  BY <1>1, <1>3, NextFileIsOpen, NextFileIsListed DEF FilesHeld, Files
<1>4. CASE ReceiveFileInfo
  <2>1. Readable /\ NextMessage.type = "FILE_INFO" /\ read' = read + 1
    BY <1>4 DEF ReceiveFileInfo, Accept
  <2>2. /\ rFile' = [rFile EXCEPT ![NextMessage.file] = "RUNNING"]
        /\ disk' = [disk EXCEPT ![NextMessage.file] = <<>>]
    BY <1>4 DEF ReceiveFileInfo
  <2>3. \A f \in Files : Completed(f, read)' <=> Completed(f, read)
    BY <1>1, <1>2, <2>1, PrefixGrows
  <2> QED
    BY <1>1, <1>3, <2>1, <2>2, <2>3 DEF FileTypes
<1>5. CASE ReceiveChunk
  <2>1. Readable /\ NextMessage.type = "FILE_CHUNK" /\ read' = read + 1
    BY <1>5 DEF ReceiveChunk, Accept
  <2>2. /\ UNCHANGED rFile
        /\ disk' = [disk EXCEPT ![NextMessage.file] = Append(@, NextMessage.same)]
    BY <1>5 DEF ReceiveChunk
  <2>3. \A f \in Files : Completed(f, read)' <=> Completed(f, read)
    BY <1>1, <1>2, <2>1, PrefixGrows
  <2> QED
    BY <1>1, <1>3, <2>1, <2>2, <2>3 DEF FileTypes
<1>6. CASE RejectFile
  <2>1. Readable /\ NextMessage.type = "FILE_COMPLETE" /\ UNCHANGED <<read, disk>>
        /\ rFile' = [rFile EXCEPT ![NextMessage.file] = "FAILED"]
    BY <1>6 DEF RejectFile
  <2>2. \A f \in Files : Completed(f, read)' <=> Completed(f, read)
    BY <1>2, <2>1, PrefixKept
  <2> QED
    BY <1>1, <1>3, <2>1, <2>2 DEF FileTypes
<1>7. CASE ReceiveCancel
  <2>1. Readable /\ NextMessage.type = "TRANSFER_CANCEL" /\ read' = read + 1
        /\ UNCHANGED disk
    BY <1>7 DEF ReceiveCancel, Accept
  <2>2. rFile' = [f \in Files |-> IF f = incoming \/ rFile[f] = "RUNNING"
                                 THEN "CANCELLED" ELSE rFile[f]]
    BY <1>7 DEF ReceiveCancel
  <2>3. \A f \in Files : Completed(f, read)' <=> Completed(f, read)
    BY <1>1, <1>2, <2>1, PrefixGrows
  <2>4. \A f \in Files : f = incoming => rFile[f] = "RUNNING"
    BY <1>1, ManifestAssumption DEF OpenFileHeld, Files
  <2> QED
    BY <1>1, <2>1, <2>2, <2>3, <2>4
<1>8. CASE \/ ReceiveInit \/ ReceiveTransferComplete \/ ReceiveError \/ ReceiveClose
  <2>1. /\ Readable /\ NextMessage.type # "FILE_COMPLETE" /\ read' = read + 1
        /\ UNCHANGED <<rFile, disk>>
    BY <1>8 DEF ReceiveInit, ReceiveTransferComplete, ReceiveError,
       ReceiveClose,
       Accept
  <2> QED
    BY <1>1, <1>2, <2>1, PrefixGrows
<1>9. CASE RejectMessage \/ SendAck \/ FinishIncoming \/ GiveUp
  <2>1. UNCHANGED <<read, rFile, disk>>
    BY <1>9 DEF RejectMessage, SendAck, FinishIncoming, GiveUp, linkVars
  <2> QED
    BY <1>2, <2>1, PrefixKept
<1> QED
  BY <1>4, <1>5, <1>6, <1>7, <1>8, <1>9 DEF Client

\* What FILE_COMPLETE completes was found intact, and is not a file of before.
LEMMA CompletionIsIntact ==
  ASSUME IInv, ReceiveFileComplete
  PROVE  /\ NextMessage.file \in Files
         /\ Intact(NextMessage.file)
         /\ rFile' = [rFile EXCEPT ![NextMessage.file] = "COMPLETED"]
         /\ UNCHANGED disk
         /\ \A f \in Files : Completed(f, read)' <=>
               Completed(f, read) \/ f = NextMessage.file
<1>1. /\ Readable /\ NextMessage.type = "FILE_COMPLETE" /\ read' = read + 1
      /\ Acceptable(NextMessage)
      /\ rFile' = [rFile EXCEPT ![NextMessage.file] = "COMPLETED"]
      /\ UNCHANGED <<disk, wire>>
  BY DEF ReceiveFileComplete, Accept, Stream
<1>2. NextMessage.file \in Files
  BY <1>1, NextFileIsListed DEF FileTypes
<1>3. Intact(NextMessage.file)
  BY <1>1 DEF Acceptable
<1> QED
  BY <1>1, <1>2, <1>3, PrefixGrows DEF IInv

\* So the files held stay those whose completion was handled.
LEMMA ClientKeepsFiles ==
  ASSUME IInv, Client
  PROVE  FilesHeld'
<1>1. FilesHeld /\ rFile \in [Files -> FileStatus]
  BY DEF IInv, HeldSoFar, TypeOK, ClientType
<1>2. \A f \in Files : disk'[f] = disk[f] => (Intact(f)' <=> Intact(f))
  BY DEF Intact
<1>3. CASE ReceiveFileComplete
  BY <1>1, <1>2, <1>3, CompletionIsIntact DEF FilesHeld
<1>4. CASE ~ReceiveFileComplete
  <2>1. /\ \A f \in Files : rFile'[f] = "COMPLETED" <=> rFile[f] = "COMPLETED"
        /\ \A f \in Files : rFile[f] = "COMPLETED" => disk'[f] = disk[f]
        /\ \A f \in Files : Completed(f, read)' <=> Completed(f, read)
    BY <1>4, OthersCompleteNothing
  <2> QED
    BY <1>1, <1>2, <2>1 DEF FilesHeld
<1> QED
  BY <1>3, <1>4

\* The file being received is one that is neither completed nor failed.
LEMMA ClientKeepsOpenFile ==
  ASSUME IInv, Client
  PROVE  OpenFileHeld'
<1> USE DEF OpenFileHeld
<1>1. /\ OpenFileHeld /\ incoming \in 0..NumFiles
      /\ rFile \in [Files -> FileStatus]
  BY DEF IInv, HeldSoFar, TypeOK, ClientType
<1>2. CASE ReceiveFileInfo
  <2>1. NextMessage.file \in Files
    BY <1>2, NextFileIsListed DEF ReceiveFileInfo, Accept, FileTypes
  <2> QED
    BY <1>1, <1>2, <2>1 DEF ReceiveFileInfo
<1>3. CASE incoming' = 0
  BY <1>3
<1>4. CASE UNCHANGED <<incoming, rFile>>
  BY <1>1, <1>4
<1> QED
  BY <1>2, <1>3, <1>4 DEF Client, ReceiveInit, ReceiveChunk,
     ReceiveFileComplete,
     RejectFile, RejectMessage, ReceiveTransferComplete, SendAck,
     FinishIncoming,
     ReceiveError, ReceiveCancel, ReceiveClose, GiveUp

\* A finished incoming job keeps its status: it is out of the registry when the
\* client thread next reads.
LEMMA ClientKeepsOutcome ==
  ASSUME IInv, Client, rJob \in Terminal
  PROVE  rJob' = rJob
<1>1. client \in {"none", "reading"} => ~rReg
  BY DEF IInv, HeldSoFar, JobHeld
<1>2. /\ rJob \notin {"absent", "RUNNING"}
      /\ rJob = "absent" \/ read > 0
  BY DEF Terminal, IInv, HeldSoFar, JobHeld
<1>3. ~ReceiveInit
  <2>1. SUFFICES ASSUME ReceiveInit PROVE FALSE
    OBVIOUS
  <2>2. Readable /\ wire[read + 1].type = "TRANSFER_INIT"
    BY <2>1 DEF ReceiveInit, Accept, NextMessage
  <2>3. read + 1 \in 1..Len(wire) /\ read \in Nat
    BY <2>2 DEF Readable, IInv, TypeOK, StreamType
  <2>4. read + 1 = 1
    BY <2>2, <2>3 DEF IInv, WrittenSoFar
  <2> QED
    BY <1>2, <2>3, <2>4
<1>4. CASE ReceiveTransferComplete \/ ReceiveError \/ ReceiveCancel
  BY <1>1, <1>4 DEF ReceiveTransferComplete, ReceiveError, ReceiveCancel,
     Accept,
     Acceptable, Readable
<1> QED
  BY <1>3, <1>4 DEF Client, ReceiveFileInfo, ReceiveChunk, ReceiveFileComplete,
     RejectFile, RejectMessage, SendAck, FinishIncoming, ReceiveClose, GiveUp

\* The incoming job completes with TRANSFER_COMPLETE, before it is acknowledged.
LEMMA ClientKeepsJob ==
  ASSUME IInv, Client
  PROVE  JobHeld'
<1>1. JobHeld /\ rJob \in JobStatus /\ read \in Nat /\ TypeOK
  BY DEF IInv, HeldSoFar, TypeOK, ClientType, StreamType
<1>2. UNCHANGED <<wire, worker>>
      /\ (UNCHANGED read \/ (Readable /\ read' = read + 1))
  BY ClientReads DEF SenderSide, workerVars, IInv
<1>3. (rJob # "absent" => read > 0)'
  BY <1>1, <1>2 DEF JobHeld, Client, ReceiveInit, ReceiveFileInfo, ReceiveChunk,
     ReceiveFileComplete, RejectFile, RejectMessage, ReceiveTransferComplete,
     SendAck, FinishIncoming, ReceiveError, ReceiveCancel, ReceiveClose, GiveUp,
     Accept
<1>4. (rJob = "COMPLETED" => Has("TRANSFER_COMPLETE", read))'
  <2>1. Has("TRANSFER_COMPLETE", read) => Has("TRANSFER_COMPLETE", read)'
    BY <1>1, <1>2, PrefixGrows, PrefixKept
  <2>2. ReceiveTransferComplete => Has("TRANSFER_COMPLETE", read)'
    BY <1>1, <1>2, PrefixGrows DEF ReceiveTransferComplete, Accept
  <2>3. rJob' = "COMPLETED" => ReceiveTransferComplete \/ rJob = "COMPLETED"
    BY DEF Client, ReceiveInit, ReceiveFileInfo, ReceiveChunk,
       ReceiveFileComplete, RejectFile, RejectMessage, ReceiveTransferComplete,
       SendAck, FinishIncoming, ReceiveError, ReceiveCancel, ReceiveClose,
       GiveUp
  <2> QED
    BY <1>1, <2>1, <2>2, <2>3 DEF JobHeld
<1>5. (client \in {"none", "reading"} /\ rJob \in Terminal => ~rReg)'
  BY <1>1 DEF JobHeld, Terminal, RCleanup, EndClient, KeepReading, Readable,
     Client, ReceiveInit, ReceiveFileInfo, ReceiveChunk,
     ReceiveFileComplete, RejectFile, RejectMessage, ReceiveTransferComplete,
     SendAck, FinishIncoming, ReceiveError, ReceiveCancel, ReceiveClose, GiveUp,
     Accept
<1>6. client # "none"
  BY DEF Client, Readable, ReceiveInit, ReceiveFileInfo, ReceiveChunk,
     ReceiveFileComplete, RejectFile, RejectMessage, ReceiveTransferComplete,
     SendAck, FinishIncoming, ReceiveError, ReceiveCancel, ReceiveClose, GiveUp,
     Accept
<1>7. (worker \in {"idle", "open"} => client = "none")'
  BY <1>1, <1>2, <1>6 DEF JobHeld
<1>8. (client \in {"ack", "finish"} => rJob = "COMPLETED")'
  BY <1>1 DEF JobHeld, Terminal, EndClient, KeepReading, Readable, Acceptable,
     Client, ReceiveInit, ReceiveFileInfo, ReceiveChunk,
     ReceiveFileComplete, RejectFile, RejectMessage, ReceiveTransferComplete,
     SendAck, FinishIncoming, ReceiveError, ReceiveCancel, ReceiveClose, GiveUp,
     Accept
<1>9. (ackSent => rJob = "COMPLETED")'
  <2>1. ackSent => rJob' = "COMPLETED"
    BY <1>1, ClientKeepsOutcome DEF JobHeld, Terminal
  <2>2. SendAck => rJob' = "COMPLETED"
    BY <1>1 DEF JobHeld, SendAck
  <2>3. SendAck \/ UNCHANGED ackSent
    BY DEF Client, ReceiveInit, ReceiveFileInfo, ReceiveChunk, Stream, linkVars,
       ReceiveFileComplete, RejectFile, RejectMessage, ReceiveTransferComplete,
       FinishIncoming, ReceiveError, ReceiveCancel, ReceiveClose, GiveUp
  <2> QED
    BY <2>1, <2>2, <2>3
<1> QED
  BY <1>3, <1>4, <1>5, <1>7, <1>8, <1>9 DEF JobHeld

\* The receiver's thread keeps the whole invariant.
LEMMA ClientKeeps ==
  ASSUME IInv, Client
  PROVE  IInv'
<1>1. TypeOK'
  BY ClientTypes DEF IInv
<1>2. UNCHANGED <<wire, worker, fileNo, marks, sJob, sEvents>>
  BY ClientReads DEF SenderSide, workerVars, jobVars, IInv
<1>3. StreamWellFormed' /\ WrittenSoFar' /\ ClosedOnce'
  BY <1>2 DEF IInv, StreamWellFormed, StreamOrder, AllFilesAnnounced,
     WrittenSoFar,
     ClosedOnce, Completed
<1>4. HeldSoFar'
  BY ClientKeepsFiles, ClientKeepsOpenFile, ClientKeepsJob DEF HeldSoFar
<1>5. ackSent => ackSent'
  BY DEF Client, ReceiveInit, ReceiveFileInfo, ReceiveChunk, Stream, linkVars,
     ReceiveFileComplete, RejectFile, RejectMessage, ReceiveTransferComplete,
     SendAck, FinishIncoming, ReceiveError, ReceiveCancel, ReceiveClose, GiveUp
<1>6. CompletedAfterAck'
  BY <1>2, <1>5 DEF IInv, CompletedAfterAck, Reported
<1> QED
  BY <1>1, <1>3, <1>4, <1>6 DEF IInv

\* The inductive step, over every action of the specification.
LEMMA Inductive == IInv /\ [Next]_vars => IInv'
<1> SUFFICES ASSUME IInv, [Next]_vars PROVE IInv'
  OBVIOUS
<1>1. CASE Worker
  <2>1. TypeOK'
    BY NextTyped DEF IInv
  <2> QED
    BY <1>1, <2>1, WorkerKeepsStream, WorkerKeepsClosedOnce, WorkerKeepsHeld,
       WorkerKeepsAck DEF IInv
<1>2. CASE RequestCancel \/ CancelSteps
  BY <1>2, CancelKeeps
<1>3. CASE Client
  BY <1>3, ClientKeeps
<1>4. CASE Environment
  BY <1>4, EnvironmentKeeps
<1>5. CASE Stutter \/ UNCHANGED vars
  BY <1>5, StutterKeeps DEF Stutter
<1> QED
  BY <1>1, <1>2, <1>3, <1>4, <1>5 DEF Next

\* The inductive invariant holds in every reachable state.
THEOREM Invariant == Spec => []IInv
<1>1. Init => IInv
  BY InitHolds
<1>2. IInv /\ [Next]_vars => IInv'
  BY Inductive
<1> QED
  BY <1>1, <1>2, PTL DEF Spec

\* send_transfer writes a stream the protocol allows on every path through its
\* handlers: nothing after a closing message, TRANSFER_COMPLETE only after the
\* FILE_COMPLETE of every file, and the files one after the other.
THEOREM StreamIsWellFormed == Spec => []StreamWellFormed
<1>1. IInv => StreamWellFormed
  BY DEF IInv
<1> QED
  BY <1>1, Invariant, PTL

\* _handle_transfer_message completes a job only with every file of the
\* manifest on disk and verified.
LEMMA CompletedIsWhole == IInv => ReceiverCompletesWholeJobs
<1> SUFFICES ASSUME IInv, rJob = "COMPLETED", NEW f \in Files
             PROVE  rFile[f] = "COMPLETED" /\ Intact(f)
  BY DEF ReceiverCompletesWholeJobs, Delivered
<1>1. PICK j \in 1..read : wire[j].type = "TRANSFER_COMPLETE"
  BY DEF IInv, HeldSoFar, JobHeld, Has
<1>2. j \in 1..Len(wire) /\ 1..(j - 1) \subseteq 1..read
  BY <1>1 DEF IInv, TypeOK, StreamType
<1>3. Completed(f, read)
  BY <1>1, <1>2 DEF IInv, StreamWellFormed, AllFilesAnnounced, Completed
<1> QED
  BY <1>3 DEF IInv, HeldSoFar, FilesHeld

\* So the receiver never completes a job that lacks a file or holds a bad one.
THEOREM ReceiverCompletesOnlyWholeJobs == Spec => []ReceiverCompletesWholeJobs
  BY CompletedIsWhole, Invariant, PTL

\* What the sender counts as completed, by its job or by its callback, is
\* complete, verified and intact at the receiver, however the transfer was
\* cancelled, broken or changed meanwhile.
THEOREM CompletedIsDelivered == Spec => []CompletedMeansDelivered
<1>1. IInv => CompletedMeansDelivered
  BY CompletedIsWhole DEF CompletedMeansDelivered, ReceiverCompletesWholeJobs,
     IInv, CompletedAfterAck, HeldSoFar, JobHeld
<1> QED
  BY <1>1, Invariant, PTL

\* No message of a sender that gave up changes how an incoming job ended.
THEOREM IncomingOutcomeIsFinal == Spec => IncomingOutcomeFinal
<1>1. IInv /\ [Next]_vars => [(rJob \in Terminal) => (rJob' = rJob)]_vars
  <2> SUFFICES ASSUME IInv, [Next]_vars, rJob \in Terminal
               PROVE  rJob' = rJob
    OBVIOUS
  <2>1. CASE Client
    BY <2>1, ClientKeepsOutcome
  <2>2. CASE Worker
    BY <2>2, WorkerLeavesFiles
  <2>3. CASE RequestCancel \/ CancelSteps \/ Environment \/ Stutter \/ UNCHANGED vars
    BY <2>3 DEF RequestCancel, CancelSteps, CancelCheck, CancelMark,
       CancelShutdown, CancelClose, Environment, NetFails, PeerReset,
       OtherCleanup, Stutter, vars, clientVars
  <2> QED
    BY <2>1, <2>2, <2>3 DEF Next
<1> QED
  BY <1>1, Invariant, PTL DEF Spec, IncomingOutcomeFinal

\* The receiver never reopens, truncates or writes a file it has verified.
THEOREM VerifiedFilesAreKept == Spec => VerifiedFilesKept
<1>1. IInv /\ [Next]_vars =>
         [\A f \in Files : rFile[f] = "COMPLETED" =>
             rFile'[f] = "COMPLETED" /\ disk'[f] = disk[f]]_vars
  <2> SUFFICES ASSUME IInv, [Next]_vars, NEW f \in Files, rFile[f] = "COMPLETED"
               PROVE  rFile'[f] = "COMPLETED" /\ disk'[f] = disk[f]
    OBVIOUS
  <2>1. CASE ReceiveFileComplete
    BY <2>1, CompletionIsIntact DEF IInv, TypeOK, ClientType
  <2>2. CASE Client /\ ~ReceiveFileComplete
    BY <2>2, OthersCompleteNothing
  <2>3. CASE Worker
    BY <2>3, WorkerLeavesFiles
  <2>4. CASE RequestCancel \/ CancelSteps \/ Environment \/ Stutter \/ UNCHANGED vars
    BY <2>4 DEF RequestCancel, CancelSteps, CancelCheck, CancelMark,
       CancelShutdown, CancelClose, Environment, NetFails, PeerReset,
       OtherCleanup, Stutter, vars, clientVars
  <2> QED
    BY <2>1, <2>2, <2>3, <2>4 DEF Next
<1> QED
  BY <1>1, Invariant, PTL DEF Spec, VerifiedFilesKept
============================================================================
