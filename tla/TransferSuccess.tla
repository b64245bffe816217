--------------------------- MODULE TransferSuccess ---------------------------
(***************************************************************************)
(* Why a transfer that nothing disturbs succeeds, for every manifest: the  *)
(* stream is fixed in advance, message by message, the sender's statement  *)
(* says how much of it is written, and what the receiver holds says how    *)
(* much of it was handled, so that no handler can refuse the next one.     *)
(*                                                                         *)
(* B[f] is the number of chunks of the first f files of the manifest.      *)
(***************************************************************************)
EXTENDS TransferInvariant

\* total_bytes is what build_transfer_manifest computes: the sum of the sizes.
PartialSums(B) ==
    /\ B \in [0..NumFiles -> Nat]
    /\ B[0] = 0 /\ \A f \in Files : B[f] = B[f - 1] + Size[f]
    /\ TotalBytes = B[NumFiles]

\* The source does not change, no disk or timeout fails, nothing is stopped or
\* cancelled by the sender itself; the network, the authentication and other
\* transfers of the two processes may still interfere.
FewFaults == Faults \subseteq {"net", "cleanup", "auth"} /\ CancelAfter = 0

\* The place of FILE_INFO of file f in the stream, after TRANSFER_INIT and, of
\* every file before it, FILE_INFO, its chunks and FILE_COMPLETE; and that of
\* TRANSFER_COMPLETE, which is where the file after the last one would begin.
Start(B, f) == B[f - 1] + 2 * f
End(B) == Start(B, NumFiles + 1)

\* Message m is the i-th of the stream.
Place(B, i, m) ==
    \/ i = 1 /\ m = JobMessage("TRANSFER_INIT")
    \/ \E f \in Files :
          \/ i = Start(B, f) /\ m = FileMessage("FILE_INFO", f)
          \/ \E k \in 1..Size[f] : i = Start(B, f) + k /\ m = Chunk(f, TRUE)
          \/ i = Start(B, f) + Size[f] + 1 /\ m = FileMessage("FILE_COMPLETE", f)
    \/ i = End(B) /\ m = JobMessage("TRANSFER_COMPLETE")
    \/ i = End(B) + 1 /\ m = JobMessage("SESSION_CLOSE")

\* The place tells the message.
Placed(B, i, m) ==
    /\ i = 1 => m = JobMessage("TRANSFER_INIT")
    /\ \A f \in Files :
          /\ i = Start(B, f) => m = FileMessage("FILE_INFO", f)
          /\ \A k \in 1..Size[f] : i = Start(B, f) + k => m = Chunk(f, TRUE)
          /\ i = Start(B, f) + Size[f] + 1 => m = FileMessage("FILE_COMPLETE", f)
    /\ i = End(B) => m = JobMessage("TRANSFER_COMPLETE")
    /\ i = End(B) + 1 => m = JobMessage("SESSION_CLOSE")

\* How much of it is written when the worker reaches each of its statements.
HowFar(B) ==
    LET n == Len(wire) IN
    /\ worker \in Opening => n = 0
    /\ worker = "nextFile" => n = Start(B, fileNo + 1) - 1
    /\ worker \in InFile => fileNo \in Files
    /\ worker \in {"checkInfo", "buildInfo", "sendInfo"} =>
          n = Start(B, fileNo) - 1 /\ chunkNo = 0
    /\ worker \in {"chunk", "afterChunk"} =>
          chunkNo <= Size[fileNo] /\ n = Start(B, fileNo) + chunkNo
    /\ worker \in {"checkChunk", "sendChunk"} =>
          /\ chunkNo \in 1..Size[fileNo]
          /\ n = Start(B, fileNo) + chunkNo - 1
    /\ worker \in {"checkFile", "buildFileDone", "sendFileDone"} =>
          n = Start(B, fileNo) + Size[fileNo]
    /\ worker \in AtEnd => n = End(B) - 1
    /\ worker \in {"awaitAck", "ackRead", "sendClose"} => n = End(B)
    /\ worker \in {"completed"} \cup Ending => n = End(B) + 1

InPlace(B) == \A i \in 1..Len(wire) : Place(B, i, wire[i])
Written(B) == InPlace(B) /\ HowFar(B)

\* The worker takes no way out: nothing it consults tells it to.
Succeeding == (Streaming \ {"selfCancel", "sendSelfCancel"})
    \cup {"awaitAck", "ackRead", "sendClose", "completed"} \cup Ending
OnItsWay ==
    /\ worker \in Succeeding /\ exc = "none"
    /\ canceller = "idle" /\ ~cancelEvent
    /\ worker \in Streaming \cup {"awaitAck", "ackRead"} /\ worker # "idle" =>
          sJob = "RUNNING" /\ sReg
    /\ worker \in {"idle", "open"} => sSock = "none" /\ client = "none"
    /\ worker \notin {"idle", "open"} => client # "none"
    /\ worker \in Succeeding \ ({"idle", "open"} \cup Ending) => sSock = "open"
    /\ sSock \in {"shut", "closed"} => worker \in Ending
    /\ worker \in Ending => Reported(sEvents, "completed")

\* What the receiver holds is what the prefix of the stream that it handled says.
Nothing == /\ read = 0 /\ rJob = "absent" /\ ~rReg
           /\ incoming = 0 /\ rBytes = 0
BetweenTwo(B) == /\ rJob = "RUNNING" /\ rReg /\ incoming = 0
                 /\ \E f \in 1..(NumFiles + 1) : /\ read = Start(B, f) - 1
                                                 /\ rBytes = B[f - 1]
InsideOne(B) ==
    /\ rJob = "RUNNING" /\ rReg /\ incoming \in Files
    /\ LET blocks == disk[incoming] IN
       /\ Len(blocks) <= Size[incoming] /\ \A i \in 1..Len(blocks) : blocks[i]
       /\ read = Start(B, incoming) + Len(blocks)
       /\ rBytes = B[incoming - 1] + Len(blocks)
Everything(B) ==
    /\ rJob = "COMPLETED"
    /\ client \in {"ack", "finish", "reading"} => read = End(B)
    /\ client \in {"finish", "reading", "ended"} => ackSent
Received(B) ==
    /\ rSock = "closed" => client = "ended"
    /\ \/ /\ client \in {"none", "reading"}
          /\ Nothing \/ BetweenTwo(B) \/ InsideOne(B)
       \/ Everything(B)

\* The receiver completed the job and another transfer of its process cleaned
\* it up before the acknowledgement could be built.
AckLost == rJob = "COMPLETED" /\ client = "ended" /\ ~ackSent

\* What the receiver holds when it reads on, and the message that comes then.
Comes(B) ==
    \/ Nothing /\ NextMessage = JobMessage("TRANSFER_INIT")
    \/ /\ rJob = "RUNNING" /\ rReg /\ incoming = 0
       /\ \E f \in Files : /\ read = Start(B, f) - 1 /\ rBytes = B[f - 1]
                           /\ NextMessage = FileMessage("FILE_INFO", f)
    \/ /\ InsideOne(B) /\ Len(disk[incoming]) < Size[incoming]
       /\ NextMessage = Chunk(incoming, TRUE)
    \/ /\ InsideOne(B) /\ Len(disk[incoming]) = Size[incoming]
       /\ NextMessage = FileMessage("FILE_COMPLETE", incoming)
    \/ /\ rJob = "RUNNING" /\ rReg /\ incoming = 0
       /\ read = End(B) - 1 /\ rBytes = TotalBytes
       /\ NextMessage = JobMessage("TRANSFER_COMPLETE")
    \/ /\ Everything(B) /\ read = End(B)
       /\ NextMessage = JobMessage("SESSION_CLOSE")

\* Once an exception is being handled, no other is raised.
RaisedOnce ==
    exc # "none" => worker \in Handling \cup Ending

Smooth(B) == OnItsWay /\ Written(B) /\ Received(B)
\* Up to now the connection is up, nothing was cancelled, the session granted.
UndisturbedSoFar == net = "up" /\ requests = 0 /\ exc # "session"
SmoothInv(B) == /\ RaisedOnce
                /\ UndisturbedSoFar => AckLost \/ Smooth(B)

-----------------------------------------------------------------------------
\* Over a connection that stays up, with the session granted and nothing
\* cancelled, send_transfer ends in only one of two ways: it reports success,
\* or the receiver holds every file and its acknowledgement was lost to
\* another transfer that cleaned the registry up.
SucceedsUnlessDisturbed ==
    worker = "done" /\ UndisturbedSoFar =>
        Delivered /\ (Reported(sEvents, "completed") \/ AckLost)
=============================================================================
