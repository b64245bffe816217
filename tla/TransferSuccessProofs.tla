------------------------ MODULE TransferSuccessProofs ------------------------
(***************************************************************************)
(* A transfer that nothing disturbs succeeds, for every manifest.          *)
(***************************************************************************)
EXTENDS TransferSuccess, TransferProofs, WellFoundedInduction

-----------------------------------------------------------------------------
(* Sums. Induction over the files of a manifest: a set of numbers that is  *)
(* not empty has a least element.                                          *)

\* Every set of natural numbers that is not empty has a least element.
LEMMA LeastNatural ==
  ASSUME NEW T, T \subseteq Nat, T # {}
  PROVE  \E x \in T : \A y \in T : x <= y
<1>1. PICK x \in T : \A y \in T : ~ (<<y, x>> \in OpToRel(<, Nat))
  BY NatLessThanWellFounded, WFMin
<1>2. ASSUME NEW y \in T PROVE ~ (y < x)
  <2>1. x \in Nat /\ y \in Nat
    OBVIOUS
  <2>2. y < x => <<y, x>> \in OpToRel(<, Nat)
    BY <2>1 DEF OpToRel
  <2> QED
    BY <2>2, <1>1, Zenon
<1> QED
  BY <1>2

\* The chunks of the first files are no more than those of more files.
LEMMA SumsGrow ==
  ASSUME NEW B, PartialSums(B), NEW a \in 0..NumFiles, NEW b \in 0..NumFiles,
         a <= b
  PROVE  B[a] <= B[b]
<1> DEFINE T == {n \in Nat : n \in a..NumFiles /\ ~ (B[a] <= B[n])}
<1>0. NumFiles \in Nat /\ Size \in [Files -> Nat] /\ B \in [0..NumFiles -> Nat]
      /\ \A f \in Files : B[f] = B[f - 1] + Size[f]
  BY ManifestAssumption DEF PartialSums
<1>1. SUFFICES T = {}
  <2> SUFFICES ASSUME T = {} PROVE B[a] <= B[b]
    OBVIOUS
  <2>1. b \in Nat /\ b \in a..NumFiles
    BY <1>0
  <2> QED
    BY <2>1
<1>2. SUFFICES ASSUME T # {} PROVE FALSE
  OBVIOUS
<1>3. PICK x \in T : \A y \in T : x <= y
  <2>1. T \subseteq Nat
    OBVIOUS
  <2> HIDE DEF T
  <2> QED
    BY <2>1, <1>2, LeastNatural
<1>4. x # a
  BY <1>0
<1>5. x - 1 \in a..NumFiles /\ x - 1 \in Nat /\ x - 1 \notin T
  BY <1>0, <1>3, <1>4
<1>6. B[x - 1] <= B[x]
  <2>1. x \in Files
    BY <1>0, <1>4 DEF Files
  <2> QED
    BY <1>0, <2>1, <1>5
<1> QED
  BY <1>0, <1>4, <1>5, <1>6

\* What one needs to know of the places of the stream.
LEMMA Starts ==
  ASSUME NEW B, PartialSums(B)
  PROVE  /\ NumFiles \in Nat \ {0} /\ Size \in [Files -> Nat]
         /\ \A f \in 1..(NumFiles + 1) : Start(B, f) \in Nat /\ Start(B, f) >= 2
         /\ Start(B, 1) = 2
         /\ \A f \in Files : Start(B, f + 1) = Start(B, f) + Size[f] + 2
         /\ \A f \in Files : \A g \in 1..(NumFiles + 1) :
               f < g => Start(B, f) + Size[f] + 2 <= Start(B, g)
<1>0. NumFiles \in Nat \ {0} /\ Size \in [Files -> Nat]
      /\ B \in [0..NumFiles -> Nat] /\ B[0] = 0
      /\ \A f \in Files : B[f] = B[f - 1] + Size[f]
  BY ManifestAssumption DEF PartialSums
<1>1. ASSUME NEW f \in 1..(NumFiles + 1)
      PROVE  Start(B, f) \in Nat /\ Start(B, f) >= 2
  <2>1. f - 1 \in 0..NumFiles
    BY <1>0
  <2>2. B[f - 1] \in Nat
    BY <2>1, <1>0
  <2> QED
    BY <2>2, <1>0 DEF Start
<1>2. Start(B, 1) = 2
  BY <1>0 DEF Start
<1>3. ASSUME NEW f \in Files
      PROVE  Start(B, f + 1) = Start(B, f) + Size[f] + 2
  <2>1. B[f] = B[f - 1] + Size[f] /\ B[f - 1] \in Nat /\ Size[f] \in Nat
    BY <1>0 DEF Files
  <2>2. f + 1 - 1 = f /\ 2 * (f + 1) = 2 * f + 2
    BY <1>0 DEF Files
  <2> QED
    BY <2>1, <2>2, <1>0 DEF Start, Files
<1>4. ASSUME NEW f \in Files, NEW g \in 1..(NumFiles + 1), f < g
      PROVE  Start(B, f) + Size[f] + 2 <= Start(B, g)
  <2>1. f \in 0..NumFiles /\ g - 1 \in 0..NumFiles /\ f <= g - 1
    BY <1>4, <1>0 DEF Files
  <2>2. B[f] <= B[g - 1]
    BY <2>1, SumsGrow
  <2>3. B[f] = B[f - 1] + Size[f] /\ B[f - 1] \in Nat /\ Size[f] \in Nat
        /\ B[g - 1] \in Nat
    BY <1>0, <2>1 DEF Files
  <2>4. 2 * f + 2 <= 2 * g
    BY <1>4, <1>0 DEF Files
  <2>5. Start(B, f) = B[f - 1] + 2 * f /\ Start(B, g) = B[g - 1] + 2 * g
    BY DEF Start
  <2>6. f \in Nat /\ g \in Nat
    BY <1>0 DEF Files
  <2> QED
    BY <2>2, <2>3, <2>4, <2>5, <2>6
<1> QED
  BY <1>0, <1>1, <1>2, <1>3, <1>4
\* The stretches of the stream that two files take up do not overlap, and lie
\* between its first message and its last two.
LEMMA Apart ==
  ASSUME NEW B, PartialSums(B), NEW i \in Nat, NEW f \in Files,
         Start(B, f) <= i, i <= Start(B, f) + Size[f] + 1
  PROVE  /\ 1 < i /\ i < End(B)
         /\ \A g \in Files : Start(B, g) <= i /\ i <= Start(B, g) + Size[g] + 1
                                => g = f
<1>1. NumFiles \in Nat /\ f \in Nat /\ Size[f] \in Nat /\ f < NumFiles + 1
      /\ f \in 1..(NumFiles + 1) /\ NumFiles + 1 \in 1..(NumFiles + 1)
  BY Starts DEF Files
<1>2. Start(B, f) \in Nat /\ Start(B, f) >= 2 /\ End(B) \in Nat
      /\ Start(B, f) + Size[f] + 2 <= End(B)
  BY <1>1, Starts DEF End
<1>3. ASSUME NEW g \in Files, Start(B, g) <= i, i <= Start(B, g) + Size[g] + 1
      PROVE  g = f
  <2>1. g \in Nat /\ Size[g] \in Nat /\ g \in 1..(NumFiles + 1)
    BY <1>1, Starts DEF Files
  <2>2. Start(B, g) \in Nat
    BY <2>1, Starts
  <2>3. g < f => Start(B, g) + Size[g] + 2 <= Start(B, f)
    BY <1>1, Starts
  <2>4. f < g => Start(B, f) + Size[f] + 2 <= Start(B, g)
    BY <2>1, Starts
  <2> QED
    BY <1>1, <1>2, <1>3, <2>1, <2>2, <2>3, <2>4
<1> QED
  BY <1>1, <1>2, <1>3

\* At each place of the stream there is one message.
LEMMA OneMessage ==
  ASSUME NEW B, PartialSums(B), NEW i \in Nat, NEW m, Place(B, i, m)
  PROVE  Placed(B, i, m)
<1> DEFINE Of(f) == \/ i = Start(B, f) /\ m = FileMessage("FILE_INFO", f)
                    \/ \E k \in 1..Size[f] : i = Start(B, f) + k /\ m = Chunk(f, TRUE)
                    \/ i = Start(B, f) + Size[f] + 1 /\ m = FileMessage("FILE_COMPLETE", f)
           In(f) == Start(B, f) <= i /\ i <= Start(B, f) + Size[f] + 1
<1>1. ASSUME NEW f \in Files
      PROVE  Size[f] \in Nat /\ Start(B, f) \in Nat
  <2>1. Size[f] \in Nat /\ f \in 1..(NumFiles + 1)
    BY Starts DEF Files
  <2> QED
    BY <2>1, Starts
<1>2. End(B) \in Nat /\ End(B) > 1
  <2>1. NumFiles + 1 \in 1..(NumFiles + 1)
    BY Starts
  <2> QED
    BY <2>1, Starts DEF End
<1>3. ASSUME NEW f \in Files, Of(f) PROVE In(f)
  <2>1. \A k \in 1..Size[f] : i = Start(B, f) + k => In(f)
    BY <1>1
  <2>2. i = Start(B, f) \/ i = Start(B, f) + Size[f] + 1 => In(f)
    BY <1>1
  <2> QED
    BY <1>3, <2>1, <2>2
<1>4. ASSUME NEW f \in Files, In(f)
      PROVE  1 < i /\ i < End(B) /\ \A g \in Files : In(g) => g = f
  BY <1>4, Apart
<1>5. \/ i = 1 /\ m = JobMessage("TRANSFER_INIT")
      \/ \E f \in Files : Of(f)
      \/ i = End(B) /\ m = JobMessage("TRANSFER_COMPLETE")
      \/ i = End(B) + 1 /\ m = JobMessage("SESSION_CLOSE")
  BY Zenon DEF Place
<1>6. ASSUME NEW f \in Files, In(f) PROVE Of(f)
  <2>1. 1 < i /\ i < End(B)
    BY <1>4, <1>6
  <2>2. PICK g \in Files : Of(g)
    <3> HIDE DEF Of, In
    <3> QED
      BY <1>5, <1>2, <2>1
  <2>3. In(g)
    BY <1>3, <2>2
  <2>4. g = f
    <3> HIDE DEF Of, In
    <3> QED
      BY <1>4, <1>6, <2>3
  <2> QED
    BY <2>2, <2>4
<1>7. ASSUME NEW f \in Files
      PROVE  /\ i = Start(B, f) => m = FileMessage("FILE_INFO", f)
             /\ \A k \in 1..Size[f] : i = Start(B, f) + k => m = Chunk(f, TRUE)
             /\ i = Start(B, f) + Size[f] + 1 => m = FileMessage("FILE_COMPLETE", f)
  <2>1. ASSUME In(f)
        PROVE  /\ i = Start(B, f) => m = FileMessage("FILE_INFO", f)
               /\ \A k \in 1..Size[f] : i = Start(B, f) + k => m = Chunk(f, TRUE)
               /\ i = Start(B, f) + Size[f] + 1 => m = FileMessage("FILE_COMPLETE", f)
    <3>1. Of(f)
      BY <2>1, <1>6
    <3>2. Size[f] \in Nat /\ Start(B, f) \in Nat
      BY <1>1
    <3>6. CASE i = Start(B, f) /\ m = FileMessage("FILE_INFO", f)
      <4>1. \A k \in 1..Size[f] : Start(B, f) + k # Start(B, f)
        BY <3>2
      <4>2. Start(B, f) + Size[f] + 1 # Start(B, f)
        BY <3>2
      <4> QED
        BY <4>1, <4>2, <3>6, Zenon
    <3>7. CASE i = Start(B, f) + Size[f] + 1 /\ m = FileMessage("FILE_COMPLETE", f)
      <4>1. \A k \in 1..Size[f] : Start(B, f) + k # Start(B, f) + Size[f] + 1
        BY <3>2
      <4>2. Start(B, f) + Size[f] + 1 # Start(B, f)
        BY <3>2
      <4> QED
        BY <4>1, <4>2, <3>7, Zenon
    <3>8. CASE \E k \in 1..Size[f] : i = Start(B, f) + k /\ m = Chunk(f, TRUE)
      <4>1. PICK j \in 1..Size[f] : i = Start(B, f) + j /\ m = Chunk(f, TRUE)
        BY <3>8
      <4>2. i # Start(B, f) /\ i # Start(B, f) + Size[f] + 1
        BY <4>1, <3>2
      <4> QED
        BY <4>1, <4>2
    <3> QED
      BY <3>1, <3>6, <3>7, <3>8
  <2>2. /\ \A k \in 1..Size[f] : i = Start(B, f) + k => In(f)
        /\ i = Start(B, f) \/ i = Start(B, f) + Size[f] + 1 => In(f)
    BY <1>1
  <2> QED
    BY <2>1, <2>2, <1>1
<1>8. ASSUME i = 1 \/ i = End(B) \/ i = End(B) + 1
      PROVE  ~ \E f \in Files : Of(f)
  <2> SUFFICES ASSUME NEW f \in Files, Of(f) PROVE FALSE
    OBVIOUS
  <2>1. In(f)
    BY <1>3
  <2>2. 1 < i /\ i < End(B)
    BY <1>4, <2>1
  <2> QED
    BY <2>2, <1>2, <1>8
<1>9. /\ i = 1 => m = JobMessage("TRANSFER_INIT")
      /\ i = End(B) => m = JobMessage("TRANSFER_COMPLETE")
      /\ i = End(B) + 1 => m = JobMessage("SESSION_CLOSE")
  <2> HIDE DEF Of, In
  <2> QED
    BY <1>5, <1>8, <1>2
<1> QED
  BY <1>7, <1>9, Zenon DEF Placed

-----------------------------------------------------------------------------
(* The worker.                                                             *)

\* The message that comes next is appended in its place.
LEMMA NextPlaced ==
  ASSUME NEW B, TypeOK, InPlace(B), NEW m, Place(B, Len(wire) + 1, m),
         m \in Message, wire' = Append(wire, m)
  PROVE  Len(wire') = Len(wire) + 1 /\ InPlace(B)'
<1>1. wire \in Seq(Message) /\ Len(wire) \in Nat
  BY DEF TypeOK, StreamType
<1>2. /\ Len(wire') = Len(wire) + 1 /\ wire'[Len(wire) + 1] = m
      /\ \A i \in 1..Len(wire) : wire'[i] = wire[i]
  BY <1>1
<1>3. \A i \in 1..Len(wire') : Place(B, i, wire'[i])
  BY <1>1, <1>2 DEF InPlace
<1>4. (\A i \in 1..Len(wire') : Place(B, i, wire'[i])) <=> InPlace(B)'
  BY DEF InPlace, Place, Start, End
<1> QED
  BY <1>2, <1>3, <1>4

-----------------------------------------------------------------------------
(* The client thread.                                                      *)

\* What comes next is what the receiver is ready for.
LEMMA ComesNext ==
  ASSUME NEW B, PartialSums(B), TypeOK, Written(B), Received(B),
         client = "reading", read < Len(wire)
  PROVE  Comes(B)
<1>1. read \in Nat /\ Len(wire) \in Nat /\ read + 1 \in 1..Len(wire)
  <2>1. wire \in Seq(Message) /\ read \in 0..Len(wire)
    BY DEF TypeOK, StreamType
  <2>2. Len(wire) \in Nat
    BY <2>1
  <2> QED
    BY <2>1, <2>2
<1>2. Place(B, read + 1, NextMessage) /\ read + 1 \in Nat
  <2>1. \A i \in 1..Len(wire) : Place(B, i, wire[i])
    BY DEF Written, InPlace
  <2>2. Place(B, read + 1, wire[read + 1])
    BY <1>1, <2>1
  <2> QED
    BY <1>1, <2>2 DEF NextMessage
<1>3. Placed(B, read + 1, NextMessage)
  BY <1>2, OneMessage, Zenon
<1>4. CASE Nothing
  <2>1. read + 1 = 1
    BY <1>4 DEF Nothing
  <2>2. NextMessage = JobMessage("TRANSFER_INIT")
    BY <1>3, <2>1, Zenon DEF Placed
  <2> QED
    BY <1>4, <2>2, Zenon DEF Comes
<1>5. CASE BetweenTwo(B)
  <2>1. PICK f \in 1..(NumFiles + 1) : read = Start(B, f) - 1 /\ rBytes = B[f - 1]
    BY <1>5 DEF BetweenTwo
  <2>2. NumFiles \in Nat /\ Start(B, f) \in Nat
    BY Starts
  <2>3. read + 1 = Start(B, f)
    BY <1>1, <2>1, <2>2
  <2>4. CASE f = NumFiles + 1
    <3>1. f - 1 = NumFiles /\ End(B) = Start(B, f)
      BY <2>2, <2>4 DEF End
    <3>2. rBytes = TotalBytes
      BY <2>1, <3>1 DEF PartialSums
    <3>3. NextMessage = JobMessage("TRANSFER_COMPLETE")
      BY <1>3, <2>3, <3>1, Zenon DEF Placed
    <3>4. read = End(B) - 1
      BY <2>1, <3>1
    <3> QED
      BY <1>5, <3>2, <3>3, <3>4, Zenon DEF BetweenTwo, Comes
  <2>5. CASE f # NumFiles + 1
    <3>1. f \in Files
      BY <2>2, <2>5 DEF Files
    <3>2. NextMessage = FileMessage("FILE_INFO", f)
      BY <1>3, <2>3, <3>1, Zenon DEF Placed
    <3> QED
      BY <1>5, <2>1, <3>1, <3>2, Zenon DEF BetweenTwo, Comes
  <2> QED
    BY <2>4, <2>5
<1>6. CASE InsideOne(B)
  <2>1. /\ incoming \in Files /\ Len(disk[incoming]) \in Nat
        /\ Len(disk[incoming]) <= Size[incoming]
        /\ read = Start(B, incoming) + Len(disk[incoming])
    BY <1>6, LenProperties DEF InsideOne, TypeOK, ClientType
  <2>2. Start(B, incoming) \in Nat /\ Size[incoming] \in Nat
    BY <2>1, Starts DEF Files
  <2>3. CASE Len(disk[incoming]) < Size[incoming]
    <3>1. Len(disk[incoming]) + 1 \in 1..Size[incoming]
          /\ read + 1 = Start(B, incoming) + (Len(disk[incoming]) + 1)
      BY <2>1, <2>2, <2>3
    <3>2. NextMessage = Chunk(incoming, TRUE)
      BY <1>3, <2>1, <3>1, Zenon DEF Placed
    <3> QED
      BY <1>6, <2>3, <3>2 DEF Comes
  <2>4. CASE Len(disk[incoming]) = Size[incoming]
    <3>1. read + 1 = Start(B, incoming) + Size[incoming] + 1
      BY <2>1, <2>2, <2>4
    <3>2. NextMessage = FileMessage("FILE_COMPLETE", incoming)
      BY <1>3, <2>1, <3>1, Zenon DEF Placed
    <3> QED
      BY <1>6, <2>4, <3>2 DEF Comes
  <2> QED
    BY <2>1, <2>2, <2>3, <2>4
<1>7. CASE Everything(B)
  <2>1. read = End(B)
    BY <1>7 DEF Everything
  <2>2. read + 1 = End(B) + 1
    BY <2>1
  <2>3. NextMessage = JobMessage("SESSION_CLOSE")
    BY <1>3, <2>2, Zenon DEF Placed
  <2> QED
    BY <1>7, <2>1, <2>3, Zenon DEF Comes
<1> QED
  BY <1>4, <1>5, <1>6, <1>7 DEF Received

\* The type of the message that comes tells the state the receiver is in.
LEMMA ReadyFor ==
  ASSUME NEW B, Comes(B)
  PROVE  LET t == NextMessage.type IN
         /\ t = "TRANSFER_INIT" => Nothing
         /\ t = "FILE_INFO" =>
               /\ rJob = "RUNNING" /\ rReg /\ incoming = 0
               /\ NextMessage.file \in Files
               /\ read = Start(B, NextMessage.file) - 1
               /\ rBytes = B[NextMessage.file - 1]
         /\ t = "FILE_CHUNK" =>
               /\ InsideOne(B) /\ Len(disk[incoming]) < Size[incoming]
               /\ NextMessage.file = incoming /\ NextMessage.same = TRUE
         /\ t = "FILE_COMPLETE" =>
               /\ InsideOne(B) /\ Len(disk[incoming]) = Size[incoming]
               /\ NextMessage.file = incoming
         /\ t = "TRANSFER_COMPLETE" =>
               /\ rJob = "RUNNING" /\ rReg /\ incoming = 0
               /\ read = End(B) - 1 /\ rBytes = TotalBytes
         /\ t = "SESSION_CLOSE" => Everything(B) /\ read = End(B)
         /\ t \in {"TRANSFER_INIT", "FILE_INFO", "FILE_CHUNK", "FILE_COMPLETE",
                   "TRANSFER_COMPLETE", "SESSION_CLOSE"}
<1>1. CASE Nothing /\ NextMessage = JobMessage("TRANSFER_INIT")
  <2>1. NextMessage.type = "TRANSFER_INIT"
    BY <1>1 DEF JobMessage, FileMessage
  <2> QED
    BY <1>1, <2>1
<1>2. CASE /\ rJob = "RUNNING" /\ rReg /\ incoming = 0
           /\ \E f \in Files : /\ read = Start(B, f) - 1 /\ rBytes = B[f - 1]
                               /\ NextMessage = FileMessage("FILE_INFO", f)
  <2>1. PICK f \in Files : /\ read = Start(B, f) - 1 /\ rBytes = B[f - 1]
                           /\ NextMessage = FileMessage("FILE_INFO", f)
    BY <1>2
  <2>2. NextMessage.type = "FILE_INFO" /\ NextMessage.file = f
    BY <2>1 DEF FileMessage
  <2> QED
    BY <1>2, <2>1, <2>2
<1>3. CASE /\ InsideOne(B) /\ Len(disk[incoming]) < Size[incoming]
           /\ NextMessage = Chunk(incoming, TRUE)
  <2>1. /\ NextMessage.type = "FILE_CHUNK" /\ NextMessage.file = incoming
        /\ NextMessage.same = TRUE
    BY <1>3 DEF Chunk
  <2> QED
    BY <1>3, <2>1
<1>4. CASE /\ InsideOne(B) /\ Len(disk[incoming]) = Size[incoming]
           /\ NextMessage = FileMessage("FILE_COMPLETE", incoming)
  <2>1. NextMessage.type = "FILE_COMPLETE" /\ NextMessage.file = incoming
    BY <1>4 DEF FileMessage
  <2> QED
    BY <1>4, <2>1
<1>5. CASE /\ rJob = "RUNNING" /\ rReg /\ incoming = 0
           /\ read = End(B) - 1 /\ rBytes = TotalBytes
           /\ NextMessage = JobMessage("TRANSFER_COMPLETE")
  <2>1. NextMessage.type = "TRANSFER_COMPLETE"
    BY <1>5 DEF JobMessage, FileMessage
  <2> QED
    BY <1>5, <2>1
<1>6. CASE /\ Everything(B) /\ read = End(B)
           /\ NextMessage = JobMessage("SESSION_CLOSE")
  <2>1. NextMessage.type = "SESSION_CLOSE"
    BY <1>6 DEF JobMessage, FileMessage
  <2> QED
    BY <1>6, <2>1
<1> QED
  BY <1>1, <1>2, <1>3, <1>4, <1>5, <1>6, Zenon DEF Comes

\* No handler refuses what comes next.
LEMMA NothingRefused ==
  ASSUME NEW B, PartialSums(B), TypeOK, Comes(B), Readable
  PROVE  ~RejectFile /\ ~RejectMessage
<1> DEFINE t == NextMessage.type
<1>1. ASSUME t = "FILE_COMPLETE"
      PROVE  rReg /\ incoming = NextMessage.file /\ Intact(NextMessage.file)
  BY <1>1, ReadyFor DEF InsideOne, Intact
<1>2. ASSUME t = "FILE_CHUNK"
      PROVE  Acceptable(NextMessage)
  BY <1>2, ReadyFor DEF InsideOne, Acceptable
<1>3. ASSUME t = "FILE_INFO"
      PROVE  Acceptable(NextMessage)
  BY <1>3, ReadyFor DEF Acceptable
<1>4. ASSUME t = "TRANSFER_COMPLETE"
      PROVE  Acceptable(NextMessage)
  BY <1>4, ReadyFor DEF Acceptable
<1>5. ASSUME t \in {"TRANSFER_INIT", "SESSION_CLOSE"}
      PROVE  Acceptable(NextMessage)
  BY <1>5 DEF Acceptable
<1>6. t \in {"TRANSFER_INIT", "FILE_INFO", "FILE_CHUNK", "FILE_COMPLETE",
             "TRANSFER_COMPLETE", "SESSION_CLOSE"}
  BY ReadyFor
<1>7. ~RejectFile
  BY <1>1 DEF RejectFile
<1>8. ~RejectMessage
  BY <1>1, <1>2, <1>3, <1>4, <1>5, <1>6 DEF RejectMessage
<1> QED
  BY <1>7, <1>8

\* The reader has no reason to give up.
LEMMA NoGivingUp ==
  ASSUME NEW B, PartialSums(B), FewFaults, TypeOK, net = "up", OnItsWay,
         Written(B), Received(B)
  PROVE  ~GiveUp
<1> SUFFICES ASSUME GiveUp PROVE FALSE
  OBVIOUS
<1>1. /\ client = "reading" /\ read = Len(wire)
      /\ sSock \in {"shut", "closed"}
  BY DEF GiveUp, FewFaults
<1>2. Len(wire) = End(B) + 1
  BY <1>1 DEF OnItsWay, Written, HowFar
<1>3. End(B) \in Nat /\ NumFiles \in Nat /\ NumFiles + 1 \in 1..(NumFiles + 1)
  <2>1. NumFiles \in Nat /\ NumFiles + 1 \in 1..(NumFiles + 1)
    BY Starts
  <2> QED
    BY <2>1, Starts DEF End
<1>4. CASE Nothing
  BY <1>1, <1>2, <1>3, <1>4 DEF Nothing
<1>5. CASE BetweenTwo(B)
  <2>1. PICK f \in 1..(NumFiles + 1) : read = Start(B, f) - 1
    BY <1>5 DEF BetweenTwo
  <2>2. Start(B, f) <= End(B) /\ Start(B, f) \in Nat
    <3>1. CASE f = NumFiles + 1
      BY <1>3, <3>1 DEF End
    <3>2. CASE f # NumFiles + 1
      <4>1. f \in Files /\ f < NumFiles + 1
        BY <1>3, <3>2 DEF Files
      <4>2. Start(B, f) + Size[f] + 2 <= End(B) /\ Size[f] \in Nat
            /\ Start(B, f) \in Nat
        BY <4>1, <1>3, Starts DEF End
      <4> QED
        BY <4>2, <1>3
    <3> QED
      BY <3>1, <3>2
  <2> QED
    BY <1>1, <1>2, <1>3, <2>1, <2>2
<1>6. CASE InsideOne(B)
  <2>1. /\ incoming \in Files /\ Len(disk[incoming]) \in Nat
        /\ Len(disk[incoming]) <= Size[incoming]
        /\ read = Start(B, incoming) + Len(disk[incoming])
    BY <1>6, LenProperties DEF InsideOne, TypeOK, ClientType
  <2>2. Start(B, incoming) + Size[incoming] + 2 <= End(B)
        /\ Size[incoming] \in Nat /\ Start(B, incoming) \in Nat
    <3>1. incoming < NumFiles + 1 /\ incoming \in 1..(NumFiles + 1)
      BY <1>3, <2>1 DEF Files
    <3> QED
      BY <2>1, <3>1, <1>3, Starts DEF End
  <2> QED
    BY <1>1, <1>2, <1>3, <2>1, <2>2
<1>7. CASE Everything(B)
  BY <1>1, <1>2, <1>3, <1>7 DEF Everything
<1> QED
  BY <1>1, <1>4, <1>5, <1>6, <1>7 DEF Received

\* A chunk goes to the end of the open file.
LEMMA ChunkHandled ==
  ASSUME NEW B, PartialSums(B), TypeOK, Comes(B), ReceiveChunk
  PROVE  InsideOne(B)'
<1>1. /\ InsideOne(B) /\ Len(disk[incoming]) < Size[incoming]
      /\ NextMessage.file = incoming /\ NextMessage.same = TRUE
  BY ReadyFor DEF ReceiveChunk, Accept
<1>2. /\ incoming \in Files /\ disk \in [Files -> Seq(BOOLEAN)] /\ read \in Nat
      /\ rBytes \in Nat /\ NumFiles \in Nat
  BY <1>1, Starts DEF InsideOne, TypeOK, ClientType, StreamType
<1> DEFINE blocks == disk[incoming]
<1>3. /\ disk'[incoming] = Append(blocks, TRUE) /\ incoming' = incoming
      /\ read' = read + 1 /\ rJob' = rJob /\ rReg' = rReg
  BY <1>1, <1>2 DEF ReceiveChunk, Accept
<1>4. /\ blocks \in Seq(BOOLEAN) /\ Len(blocks) \in Nat
      /\ Len(Append(blocks, TRUE)) = Len(blocks) + 1
      /\ Append(blocks, TRUE)[Len(blocks) + 1] = TRUE
      /\ \A i \in 1..Len(blocks) : Append(blocks, TRUE)[i] = blocks[i]
  BY <1>2
<1>5. \A i \in 1..(Len(blocks) + 1) : Append(blocks, TRUE)[i]
  <2>1. \A i \in 1..Len(blocks) : blocks[i]
    BY <1>1 DEF InsideOne
  <2>2. \A i \in 1..(Len(blocks) + 1) : i \in 1..Len(blocks) \/ i = Len(blocks) + 1
    BY <1>4
  <2> HIDE DEF blocks
  <2> QED
    BY <1>4, <2>1, <2>2, Zenon
<1>6. Start(B, incoming) \in Nat /\ Size[incoming] \in Nat
      /\ Len(blocks) + 1 <= Size[incoming]
      /\ read + 1 = Start(B, incoming) + (Len(blocks) + 1)
  <2>1. incoming \in 1..(NumFiles + 1)
    BY <1>2 DEF Files
  <2>2. Start(B, incoming) \in Nat /\ Size[incoming] \in Nat
    BY <1>2, <2>1, Starts
  <2> QED
    BY <1>1, <1>4, <2>2 DEF InsideOne
<1>7. rBytes' = B[incoming - 1] + (Len(blocks) + 1)
  <2>1. incoming \in 0..NumFiles /\ NumFiles \in 0..NumFiles /\ incoming <= NumFiles
        /\ incoming - 1 \in 0..NumFiles
    BY <1>2 DEF Files
  <2>2. B[incoming] <= B[NumFiles]
    BY <2>1, SumsGrow
  <2>3. /\ B[incoming] = B[incoming - 1] + Size[incoming]
        /\ TotalBytes = B[NumFiles] /\ B[incoming - 1] \in Nat
        /\ B[incoming] \in Nat /\ B[NumFiles] \in Nat
    BY <1>2, <2>1 DEF PartialSums
  <2>4. rBytes = B[incoming - 1] + Len(blocks)
    BY <1>1 DEF InsideOne
  <2>5. rBytes < TotalBytes
    BY <1>4, <1>6, <2>2, <2>3, <2>4
  <2>6. rBytes' = rBytes + 1
    BY <1>2, <2>5, <2>3 DEF ReceiveChunk
  <2> HIDE DEF blocks
  <2> QED
    BY <1>4, <2>3, <2>4, <2>6
<1>8. rJob = "RUNNING" /\ rReg
  BY <1>1 DEF InsideOne
<1>9. InsideOne(B)' <=>
        /\ rJob' = "RUNNING" /\ rReg' /\ incoming' \in Files
        /\ Len(disk'[incoming']) <= Size[incoming']
        /\ \A i \in 1..Len(disk'[incoming']) : disk'[incoming'][i]
        /\ read' = Start(B, incoming') + Len(disk'[incoming'])
        /\ rBytes' = B[incoming' - 1] + Len(disk'[incoming'])
  BY DEF InsideOne, Start
<1> HIDE DEF blocks
<1> QED
  BY <1>2, <1>3, <1>4, <1>5, <1>6, <1>7, <1>8, <1>9

\* What the receiver holds is still what the stream says, or it is done and its
\* acknowledgement is lost.
LEMMA ClientStaysSmooth ==
  ASSUME NEW B, PartialSums(B), FewFaults, TypeOK, IInv, net = "up", OnItsWay,
         Written(B), Received(B), Client
  PROVE  AckLost' \/ Received(B)'
<1>0. /\ NumFiles \in Nat /\ End(B) \in Nat /\ read \in Nat
      /\ \A f \in Files : f \in 1..(NumFiles + 1) /\ f + 1 \in 1..(NumFiles + 1)
                          /\ f + 1 - 1 = f
  <2>1. NumFiles \in Nat /\ NumFiles + 1 \in 1..(NumFiles + 1)
    BY Starts
  <2> QED
    BY <2>1, Starts DEF End, TypeOK, StreamType, Files
<1>1. ASSUME Readable PROVE Comes(B) /\ rSock # "closed" /\ client = "reading"
  BY <1>1, ComesNext DEF Readable, Received
<1>2. Readable => ~RejectFile /\ ~RejectMessage
  BY <1>1, NothingRefused
<1>3. CASE ReceiveInit
  <2>1. Nothing /\ Comes(B)
    BY <1>1, <1>3, ReadyFor DEF ReceiveInit, Accept
  <2>2. 1 \in 1..(NumFiles + 1) /\ Start(B, 1) = 2 /\ B[1 - 1] = 0
    <3>1. 1 \in 1..(NumFiles + 1) /\ 1 - 1 = 0
      BY <1>0
    <3> QED
      BY <3>1, Starts DEF PartialSums
  <2>3. BetweenTwo(B)'
    BY <2>1, <2>2, <1>3 DEF Nothing, BetweenTwo, ReceiveInit, Accept, Start
  <2> QED
    BY <2>3, <1>1, <1>3 DEF Received, ReceiveInit, Accept, KeepReading
<1>4. CASE ReceiveFileInfo
  <2> DEFINE f == NextMessage.file
  <2>1. /\ rJob = "RUNNING" /\ rReg /\ f \in Files
        /\ read = Start(B, f) - 1 /\ rBytes = B[f - 1]
    BY <1>1, <1>4, ReadyFor DEF ReceiveFileInfo, Accept
  <2>2. /\ incoming' = f /\ disk'[f] = <<>> /\ read' = read + 1
        /\ UNCHANGED <<rJob, rReg, rBytes>>
    BY <1>4, <2>1 DEF ReceiveFileInfo, Accept, TypeOK, ClientType
  <2>3. Start(B, f) \in Nat /\ Size[f] \in Nat /\ B[f - 1] \in Nat
    <3>1. f - 1 \in 0..NumFiles
      BY <1>0, <2>1 DEF Files
    <3> QED
      BY <1>0, <2>1, <3>1, Starts DEF PartialSums
  <2>4. Len(<<>>) = 0 /\ read' = Start(B, f) + 0 /\ rBytes' = B[f - 1] + 0
    BY <2>1, <2>2, <2>3
  <2> HIDE DEF f
  <2>5. InsideOne(B)'
    BY <2>1, <2>2, <2>3, <2>4 DEF InsideOne, Start
  <2> QED
    BY <2>5, <1>1, <1>4 DEF Received, ReceiveFileInfo, Accept, KeepReading
<1>5. CASE ReceiveChunk
  <2>1. InsideOne(B)'
    BY <1>1, <1>5, ChunkHandled DEF ReceiveChunk, Accept
  <2> QED
    BY <2>1, <1>1, <1>5 DEF Received, ReceiveChunk, Accept, KeepReading
<1>6. CASE ReceiveFileComplete
  <2>1. InsideOne(B) /\ Len(disk[incoming]) = Size[incoming]
    BY <1>1, <1>6, ReadyFor DEF ReceiveFileComplete, Accept
  <2>2. /\ incoming \in Files /\ read = Start(B, incoming) + Size[incoming]
        /\ rBytes = B[incoming - 1] + Size[incoming]
    BY <2>1 DEF InsideOne
  <2>3. /\ incoming' = 0 /\ read' = read + 1 /\ UNCHANGED <<rJob, rReg, rBytes>>
    BY <1>6 DEF ReceiveFileComplete, Accept
  <2>4. /\ Start(B, incoming + 1) = Start(B, incoming) + Size[incoming] + 2
        /\ Start(B, incoming) \in Nat /\ Size[incoming] \in Nat
    BY <1>0, <2>2, Starts
  <2>5. B[incoming] = B[incoming - 1] + Size[incoming]
    BY <2>2 DEF PartialSums
  <2> DEFINE next == incoming + 1
  <2>6. /\ read' = Start(B, next) - 1 /\ rBytes' = B[next - 1]
        /\ next \in 1..(NumFiles + 1)
    BY <1>0, <2>2, <2>3, <2>4, <2>5
  <2>7. \E g \in 1..(NumFiles + 1) : read' = Start(B, g) - 1 /\ rBytes' = B[g - 1]
    <3> HIDE DEF next
    <3> QED
      BY <2>6
  <2>8. BetweenTwo(B)'
    <3>1. rJob' = "RUNNING" /\ rReg' /\ incoming' = 0
      BY <2>1, <2>3 DEF InsideOne
    <3> QED
      BY <2>7, <3>1, Zenon DEF BetweenTwo, Start
  <2> QED
    BY <2>8, <1>1, <1>6 DEF Received, ReceiveFileComplete, Accept, KeepReading
<1>7. ~RejectFile /\ ~RejectMessage
  BY <1>2 DEF RejectFile, RejectMessage
<1>8. CASE ReceiveTransferComplete
  <2>1. rJob = "RUNNING" /\ read = End(B) - 1
    BY <1>1, <1>8, ReadyFor DEF ReceiveTransferComplete, Accept
  <2>2. read' = End(B) /\ rJob' = "COMPLETED" /\ client' = "ack"
    BY <1>0, <2>1, <1>8 DEF ReceiveTransferComplete, Accept
  <2>3. rSock' # "closed"
    BY <1>1, <1>8 DEF ReceiveTransferComplete, Accept
  <2> QED
    BY <2>2, <2>3 DEF Received, Everything, End, Start
<1>9. CASE SendAck
  <2>1. Everything(B) /\ read = End(B) /\ client = "ack" /\ rSock # "closed"
    BY <1>9 DEF SendAck, Received, Everything
  <2>2. rJob' = "COMPLETED" /\ read' = End(B)
    BY <1>9, <2>1 DEF SendAck, Everything
  <2>3. CASE ackSent' = TRUE
    <3>1. client' = "ended" \/ rSock' # "closed"
      BY <1>9, <2>1 DEF SendAck, EndClient
    <3> QED
      BY <2>2, <2>3, <3>1 DEF Received, Everything, End, Start
  <2>4. CASE ackSent' # TRUE
    <3>1. client' = "ended"
      BY <1>9, <2>4 DEF SendAck, EndClient
    <3>2. ~ackSent'
      BY <1>9, <2>4 DEF SendAck, EndClient, TypeOK, SocketType
    <3> QED
      BY <2>2, <3>1, <3>2 DEF AckLost
  <2> QED
    BY <2>3, <2>4
<1>10. CASE FinishIncoming
  <2>1. Everything(B) /\ rSock # "closed" /\ ackSent /\ read = End(B)
    BY <1>10 DEF FinishIncoming, Received, Everything
  <2>2. /\ rJob' = "COMPLETED" /\ client' = "reading" /\ ackSent'
        /\ read' = End(B) /\ rSock' # "closed"
    BY <1>10, <2>1 DEF FinishIncoming, Everything, linkVars
  <2> QED
    BY <2>2 DEF Received, Everything, End, Start
<1>11. ~ReceiveError /\ ~ReceiveCancel
  BY <1>1, ReadyFor DEF ReceiveError, ReceiveCancel, Accept
<1>12. CASE ReceiveClose
  <2>1. Everything(B) /\ read = End(B) /\ client = "reading"
    BY <1>1, <1>12, ReadyFor DEF ReceiveClose, Accept
  <2>2. rJob' = "COMPLETED" /\ client' = "ended" /\ ackSent'
    BY <1>12, <2>1 DEF ReceiveClose, EndClient, Stream, Everything
  <2> QED
    BY <2>2 DEF Received, Everything
<1>13. ~GiveUp
  BY NoGivingUp
<1> QED
  BY <1>3, <1>4, <1>5, <1>6, <1>7, <1>8, <1>9, <1>10, <1>11, <1>12, <1>13
     DEF Client

-----------------------------------------------------------------------------
(* The worker again.                                                       *)

\* A worker on its way takes none of the steps that handle an exception.
LEMMA NoDetour ==
  ASSUME OnItsWay
  PROVE  /\ ~SelfCancel /\ ~SendSelfCancel /\ ~SelfCancelled /\ ~Handle
         /\ ~Branch /\ ~TellCancel /\ ~SendCancel /\ ~CheckStatus /\ ~Fail
         /\ ~ReportFailed /\ ~BuildError /\ ~SendError
<1>1. worker \notin {"selfCancel", "sendSelfCancel", "selfCancelled"} \cup Handling
  BY DEF OnItsWay, Succeeding, Streaming, InFile, BetweenFiles, Opening, AtEnd,
     Handling, Failing, Ending
<1> QED
  BY <1>1 DEF At, Handling, Failing, SelfCancel, SendSelfCancel, SelfCancelled,
     Handle, Branch, TellCancel, SendCancel, CheckStatus, Fail, ReportFailed,
     BuildError, SendError

\* Statement by statement: no send fails, no checkpoint stops it, and the
\* acknowledgement arrives.
LEMMA WorkerStaysOnItsWay ==
  ASSUME NEW B, FewFaults, TypeOK, IInv, OnItsWay, Received(B), net = "up",
         exc' # "session", Worker
  PROVE  OnItsWay'
<1> USE DEF OnItsWay, Succeeding, Streaming, InFile, BetweenFiles, Opening,
            AtEnd, Ending, At, Goto
<1>1. worker \notin {"idle", "open"} \cup Ending => Usable
  BY DEF Usable, AtEnd
<1>2. ~cancelEvent /\ canceller = "idle"
  OBVIOUS
<1>3. CASE StartTransfer
  BY <1>3 DEF StartTransfer, cancelVars, linkVars, clientVars, Reported
<1>4. CASE OpenSession
  BY <1>4 DEF OpenSession, Raise, jobVars, slotVars, cancelVars
<1>5. CASE BindSocket
  BY <1>5 DEF BindSocket, jobVars, cancelVars, linkVars, clientVars
<1>6. CASE SendInit
  BY <1>1, <1>6 DEF SendInit, Send, CanSend, Writes, jobVars, slotVars, cancelVars,
     clientVars
<1>7. CASE NextFile
  BY <1>7 DEF NextFile, Local, jobVars, slotVars, cancelVars, linkVars, clientVars
<1>8. CASE CheckInfo \/ CheckChunk \/ CheckFile \/ CheckEnd
  BY <1>8 DEF CheckInfo, CheckChunk, CheckFile, CheckEnd, Checkpoint, Local,
     jobVars, slotVars, cancelVars, linkVars, clientVars
<1>9. CASE SendInfo
  BY <1>1, <1>9 DEF SendInfo, Send, CanSend, Writes, jobVars, slotVars, cancelVars,
     clientVars
<1>10. CASE ReadChunk
  BY <1>10 DEF ReadChunk, FewFaults, Local, jobVars, slotVars, cancelVars,
     linkVars, clientVars
<1>11. CASE SendChunk
  BY <1>1, <1>11 DEF SendChunk, Send, CanSend, Writes, jobVars, slotVars, cancelVars,
     clientVars
<1>12. CASE AfterChunk
  BY <1>12 DEF AfterChunk, FewFaults, Checkpoint, Local, jobVars, slotVars,
     cancelVars, linkVars, clientVars
<1>13. CASE SendFileDone \/ SendDone
  BY <1>1, <1>13 DEF SendFileDone, SendDone, Send, CanSend,
     Writes, jobVars, slotVars, cancelVars, clientVars
<1>14. CASE AwaitAck
  <2>1. ~(rSock = "closed" /\ ~ackSent)
    BY DEF Received, Everything
  <2>2. worker' = "ackRead" /\ exc' = exc
    BY <1>14, <2>1 DEF AwaitAck, FewFaults, Raise
  <2> QED
    BY <1>14, <2>2 DEF AwaitAck, Local, jobVars, slotVars, cancelVars, linkVars,
       clientVars
<1>15. CASE AckRead
  BY <1>15 DEF AckRead, jobVars, slotVars, cancelVars, linkVars, clientVars
<1>16. CASE SendClose
  BY <1>1, <1>16 DEF SendClose, Send, CanSend, Writes, jobVars, slotVars, cancelVars,
     clientVars
<1>17. CASE ReportCompleted
  <2>1. Len(sEvents) \in Nat /\ Reported(sEvents', "completed")
    <3>1. sEvents \in Seq(Event) /\ "completed" \in Event
      BY DEF TypeOK, JobType, Event
    <3>2. sEvents' = Append(sEvents, "completed")
      BY <1>17 DEF ReportCompleted, Emit
    <3> QED
      BY <3>1, <3>2, Appended DEF Reported
  <2> QED
    BY <1>17, <2>1 DEF ReportCompleted, Leave, slotVars, cancelVars, linkVars,
       clientVars
<1>18. CASE ClearJob
  BY <1>18 DEF ClearJob, jobVars, cancelVars, linkVars, clientVars
<1>19. CASE ClearSocket
  BY <1>19 DEF ClearSocket, jobVars, cancelVars, clientVars
<1>20. CASE CloseSocket
  BY <1>20 DEF CloseSocket, jobVars, slotVars, cancelVars, clientVars
<1>21. CASE BuildMessage
  BY <1>21 DEF BuildMessage, Build, Local, jobVars, slotVars, cancelVars,
     linkVars, clientVars
<1> QED
  BY <1>3, <1>4, <1>5, <1>6, <1>7, <1>8, <1>9, <1>10, <1>11, <1>12, <1>13,
     <1>14, <1>15, <1>16, <1>17, <1>18, <1>19, <1>20, <1>21, NoDetour DEF Worker

\* What is written is written in its place, up to the statement reached.
LEMMA WorkerStaysPlaced ==
  ASSUME NEW B, PartialSums(B), FewFaults, TypeOK, IInv, OnItsWay, Written(B),
         Received(B), net = "up", exc' # "session", Worker
  PROVE  Written(B)'
<1> USE DEF Succeeding, Streaming, InFile, BetweenFiles, Opening, AtEnd, Ending,
            At, Goto
<1>0. /\ NumFiles \in Nat \ {0} /\ End(B) \in Nat /\ fileNo \in 0..NumFiles
      /\ Len(wire) \in Nat /\ chunkNo \in Nat /\ fileNo \in Nat
  <2>1. NumFiles \in Nat \ {0} /\ NumFiles + 1 \in 1..(NumFiles + 1)
    BY Starts
  <2>2. wire \in Seq(Message) /\ fileNo \in 0..NumFiles /\ chunkNo \in Nat
    BY DEF TypeOK, StreamType, WorkerType
  <2> QED
    BY <2>1, <2>2, Starts DEF End
<1>1. ASSUME fileNo \in Files
      PROVE  /\ Start(B, fileNo) \in Nat /\ Size[fileNo] \in Nat
             /\ Start(B, fileNo + 1) = Start(B, fileNo) + Size[fileNo] + 2
  <2>1. fileNo \in 1..(NumFiles + 1)
    BY <1>0, <1>1 DEF Files
  <2> QED
    BY <1>1, <2>1, Starts
<1>2. worker \notin {"idle", "open"} \cup Ending => Usable
  BY DEF Usable, OnItsWay
<1>3. ~cancelEvent /\ InPlace(B) /\ HowFar(B)
  BY DEF OnItsWay, Written
<1>4. (worker \in Streaming /\ worker # "idle") => sReg /\ sJob = "RUNNING"
  BY DEF OnItsWay
<1>5. ASSUME wire' = wire PROVE InPlace(B)' /\ Len(wire') = Len(wire)
  BY <1>3, <1>5 DEF InPlace, Place, Start, End
<1>6. HowFar(B)' <=>
         LET n == Len(wire') IN
            /\ worker' \in Opening => n = 0
            /\ worker' = "nextFile" => n = Start(B, fileNo' + 1) - 1
            /\ worker' \in InFile => fileNo' \in Files
            /\ worker' \in {"checkInfo", "buildInfo", "sendInfo"} =>
                  n = Start(B, fileNo') - 1 /\ chunkNo' = 0
            /\ worker' \in {"chunk", "afterChunk"} =>
                  chunkNo' <= Size[fileNo'] /\ n = Start(B, fileNo') + chunkNo'
            /\ worker' \in {"checkChunk", "sendChunk"} =>
                  /\ chunkNo' \in 1..Size[fileNo']
                  /\ n = Start(B, fileNo') + chunkNo' - 1
            /\ worker' \in {"checkFile", "buildFileDone", "sendFileDone"} =>
                  n = Start(B, fileNo') + Size[fileNo']
            /\ worker' \in AtEnd => n = End(B) - 1
            /\ worker' \in {"awaitAck", "ackRead", "sendClose"} => n = End(B)
            /\ worker' \in {"completed"} \cup Ending => n = End(B) + 1
  BY DEF HowFar, Start, End
<1>7. CASE StartTransfer \/ OpenSession \/ BindSocket
  <2>1. wire' = wire /\ worker' \in Opening
    BY <1>7 DEF StartTransfer, OpenSession, BindSocket, linkVars, Raise
  <2>2. worker \in Opening
    BY <1>7 DEF StartTransfer, OpenSession, BindSocket
  <2>3. Len(wire') = 0
    BY <1>3, <1>5, <2>1, <2>2 DEF HowFar
  <2> QED
    BY <1>5, <1>6, <2>1, <2>3 DEF Written
<1>8. CASE SendInit
  <2>1. wire' = Append(wire, JobMessage("TRANSFER_INIT")) /\ worker' = "nextFile"
        /\ UNCHANGED <<fileNo, chunkNo>>
    BY <1>8, <1>2, <1>4 DEF SendInit, Send, CanSend
  <2>2. Len(wire) = 0 /\ fileNo = 0
    BY <1>8, <1>3 DEF HowFar, SendInit, IInv, WrittenSoFar
  <2>3. Place(B, Len(wire) + 1, JobMessage("TRANSFER_INIT"))
    BY <2>2 DEF Place
  <2>4. JobMessage("TRANSFER_INIT") \in Message
    BY <1>0, MessageMade DEF MessageType
  <2>5. Len(wire') = Len(wire) + 1 /\ InPlace(B)'
    BY <1>3, <2>1, <2>3, <2>4, NextPlaced
  <2>6. Start(B, fileNo' + 1) = 2
    BY <2>1, <2>2, Starts
  <2>7. HowFar(B)'
    BY <1>6, <2>1, <2>2, <2>5, <2>6
  <2> QED
    BY <2>5, <2>7 DEF Written
<1>9. CASE NextFile
  <2>1. wire' = wire /\ chunkNo' \in Nat
    BY <1>0, <1>9 DEF NextFile, Local, linkVars
  <2>2. \/ worker' = "checkEnd" /\ fileNo' = fileNo /\ fileNo = NumFiles
        \/ worker' = "checkInfo" /\ fileNo' = fileNo + 1 /\ chunkNo' = 0
           /\ fileNo < NumFiles
    BY <1>9, <1>4 DEF NextFile
  <2>3. Len(wire) = Start(B, fileNo + 1) - 1
    BY <1>3, <1>9 DEF HowFar, NextFile
  <2>4. CASE fileNo = NumFiles /\ worker' = "checkEnd"
    BY <1>5, <1>6, <2>1, <2>3, <2>4 DEF Written, End
  <2>5. CASE worker' = "checkInfo" /\ fileNo' = fileNo + 1 /\ chunkNo' = 0
             /\ fileNo < NumFiles
    <3>1. fileNo' \in Files
      BY <1>0, <2>5 DEF Files
    <3> QED
      BY <1>5, <1>6, <2>1, <2>3, <2>5, <3>1 DEF Written
  <2> QED
    BY <2>2, <2>4, <2>5
<1>10. CASE CheckInfo
  <2>1. wire' = wire /\ worker = "checkInfo" /\ worker' = "buildInfo"
        /\ UNCHANGED <<fileNo, chunkNo>>
    BY <1>10, <1>3 DEF CheckInfo, Checkpoint, Local, linkVars
  <2> QED
    BY <1>3, <1>5, <1>6, <2>1 DEF Written, HowFar
<1>11. CASE SendInfo
  <2> DEFINE m == FileMessage("FILE_INFO", fileNo)
  <2>1. wire' = Append(wire, m) /\ worker' = "chunk" /\ UNCHANGED <<fileNo, chunkNo>>
    BY <1>11, <1>2, <1>4 DEF SendInfo, Send, CanSend
  <2>2. fileNo \in Files /\ Len(wire) = Start(B, fileNo) - 1 /\ chunkNo = 0
    BY <1>11, <1>3 DEF HowFar, SendInfo
  <2>3. Len(wire) + 1 = Start(B, fileNo)
    BY <1>1, <2>2
  <2>4. Place(B, Len(wire) + 1, m)
    BY <2>2, <2>3, Zenon DEF Place
  <2>5. m \in Message
    BY <1>0, MessageMade DEF MessageType
  <2> HIDE DEF m
  <2>6. Len(wire') = Len(wire) + 1 /\ InPlace(B)'
    BY <1>3, <2>1, <2>4, <2>5, NextPlaced
  <2>7. HowFar(B)'
    BY <1>1, <1>6, <2>1, <2>2, <2>3, <2>6
  <2> QED
    BY <2>6, <2>7 DEF Written
<1>12. CASE ReadChunk
  <2>1. wire' = wire /\ fileNo' = fileNo
    BY <1>12 DEF ReadChunk, Local, linkVars
  <2>2. fileNo \in Files /\ chunkNo <= Size[fileNo]
        /\ Len(wire) = Start(B, fileNo) + chunkNo
    BY <1>12, <1>3 DEF HowFar, ReadChunk
  <2>3. \/ worker' = "checkChunk" /\ chunkNo' = chunkNo + 1 /\ chunkNo < Size[fileNo]
        \/ worker' = "checkFile" /\ chunkNo' = chunkNo /\ chunkNo = Size[fileNo]
    BY <1>12, <1>4 DEF ReadChunk, FewFaults
  <2>4. CASE worker' = "checkChunk" /\ chunkNo' = chunkNo + 1 /\ chunkNo < Size[fileNo]
    <3>1. chunkNo' \in 1..Size[fileNo] /\ Len(wire) = Start(B, fileNo) + chunkNo' - 1
      BY <1>0, <1>1, <2>2, <2>4
    <3> QED
      BY <1>5, <1>6, <2>1, <2>2, <2>4, <3>1 DEF Written
  <2>5. CASE worker' = "checkFile" /\ chunkNo' = chunkNo /\ chunkNo = Size[fileNo]
    BY <1>5, <1>6, <2>1, <2>2, <2>5 DEF Written
  <2> QED
    BY <2>3, <2>4, <2>5
<1>13. CASE CheckChunk
  <2>1. wire' = wire /\ worker = "checkChunk" /\ worker' = "sendChunk"
        /\ UNCHANGED <<fileNo, chunkNo>>
    BY <1>13, <1>3 DEF CheckChunk, Checkpoint, Local, linkVars
  <2> QED
    BY <1>3, <1>5, <1>6, <2>1 DEF Written, HowFar
<1>14. CASE SendChunk
  <2> DEFINE m == Chunk(fileNo, TRUE)
  <2>1. wire' = Append(wire, m) /\ worker' = "afterChunk"
        /\ UNCHANGED <<fileNo, chunkNo>>
    <3>1. PICK t \in BOOLEAN : /\ t \/ "source" \in Faults
                               /\ Send(Chunk(fileNo, t), "afterChunk")
      BY <1>14 DEF SendChunk
    <3>2. t = TRUE
      BY <3>1 DEF FewFaults
    <3>3. wire' = Append(wire, Chunk(fileNo, t)) /\ worker' = "afterChunk"
      BY <1>14, <1>2, <3>1 DEF SendChunk, Send, CanSend
    <3> QED
      BY <1>14, <3>2, <3>3 DEF SendChunk
  <2>2. fileNo \in Files /\ chunkNo \in 1..Size[fileNo]
        /\ Len(wire) = Start(B, fileNo) + chunkNo - 1
    BY <1>14, <1>3 DEF HowFar, SendChunk
  <2>3. Len(wire) + 1 = Start(B, fileNo) + chunkNo /\ chunkNo <= Size[fileNo]
    BY <1>1, <2>2
  <2>4. Place(B, Len(wire) + 1, m)
    BY <2>2, <2>3, Zenon DEF Place
  <2>5. m \in Message
    BY <1>0, MessageMade DEF MessageType
  <2> HIDE DEF m
  <2>6. Len(wire') = Len(wire) + 1 /\ InPlace(B)'
    BY <1>3, <2>1, <2>4, <2>5, NextPlaced
  <2>7. HowFar(B)'
    BY <1>1, <1>6, <2>1, <2>2, <2>3, <2>6
  <2> QED
    BY <2>6, <2>7 DEF Written
<1>15. CASE AfterChunk
  <2>1. wire' = wire /\ worker = "afterChunk" /\ worker' = "chunk"
        /\ UNCHANGED <<fileNo, chunkNo>>
    BY <1>15, <1>3, <1>4 DEF AfterChunk, Checkpoint, FewFaults, Local, linkVars
  <2> QED
    BY <1>3, <1>5, <1>6, <2>1 DEF Written, HowFar
<1>16. CASE CheckFile
  <2>1. wire' = wire /\ worker = "checkFile" /\ worker' = "buildFileDone"
        /\ UNCHANGED <<fileNo, chunkNo>>
    BY <1>16, <1>3 DEF CheckFile, Checkpoint, Local, linkVars
  <2> QED
    BY <1>3, <1>5, <1>6, <2>1 DEF Written, HowFar
<1>17. CASE SendFileDone
  <2> DEFINE m == FileMessage("FILE_COMPLETE", fileNo)
  <2>1. wire' = Append(wire, m) /\ worker' = "nextFile" /\ UNCHANGED <<fileNo, chunkNo>>
    BY <1>17, <1>2, <1>4 DEF SendFileDone, Send, CanSend
  <2>2. fileNo \in Files /\ Len(wire) = Start(B, fileNo) + Size[fileNo]
    BY <1>17, <1>3 DEF HowFar, SendFileDone
  <2>3. Len(wire) + 1 = Start(B, fileNo) + Size[fileNo] + 1
        /\ Len(wire) + 1 = Start(B, fileNo + 1) - 1
    BY <1>1, <2>2
  <2>4. Place(B, Len(wire) + 1, m)
    BY <2>2, <2>3, Zenon DEF Place
  <2>5. m \in Message
    BY <1>0, MessageMade DEF MessageType
  <2> HIDE DEF m
  <2>6. Len(wire') = Len(wire) + 1 /\ InPlace(B)'
    BY <1>3, <2>1, <2>4, <2>5, NextPlaced
  <2>7. HowFar(B)'
    BY <1>6, <2>1, <2>3, <2>6
  <2> QED
    BY <2>6, <2>7 DEF Written
<1>18. CASE CheckEnd
  <2>1. wire' = wire /\ worker = "checkEnd" /\ worker' = "buildDone"
        /\ UNCHANGED <<fileNo, chunkNo>>
    BY <1>18, <1>3 DEF CheckEnd, Checkpoint, Local, linkVars
  <2> QED
    BY <1>3, <1>5, <1>6, <2>1 DEF Written, HowFar
<1>19. CASE SendDone
  <2> DEFINE m == JobMessage("TRANSFER_COMPLETE")
  <2>1. wire' = Append(wire, m) /\ worker' = "awaitAck" /\ UNCHANGED <<fileNo, chunkNo>>
    BY <1>19, <1>2, <1>4 DEF SendDone, Send, CanSend
  <2>2. Len(wire) = End(B) - 1
    BY <1>19, <1>3 DEF HowFar, SendDone
  <2>3. Len(wire) + 1 = End(B)
    BY <1>0, <2>2
  <2>4. Place(B, Len(wire) + 1, m)
    BY <2>3, Zenon DEF Place
  <2>5. m \in Message
    BY <1>0, MessageMade DEF MessageType
  <2> HIDE DEF m
  <2>6. Len(wire') = Len(wire) + 1 /\ InPlace(B)'
    BY <1>3, <2>1, <2>4, <2>5, NextPlaced
  <2>7. HowFar(B)'
    BY <1>6, <2>1, <2>3, <2>6
  <2> QED
    BY <2>6, <2>7 DEF Written
<1>20. CASE AwaitAck
  <2>1. ~(rSock = "closed" /\ ~ackSent)
    BY <1>20 DEF AwaitAck, Received, Everything
  <2>2. wire' = wire /\ worker = "awaitAck" /\ worker' = "ackRead"
        /\ UNCHANGED <<fileNo, chunkNo>>
    BY <1>20, <1>2, <2>1 DEF AwaitAck, Usable, FewFaults, Raise, Local, linkVars
  <2> QED
    BY <1>3, <1>5, <1>6, <2>2 DEF Written, HowFar
<1>21. CASE AckRead
  <2>1. wire' = wire /\ worker = "ackRead" /\ worker' = "sendClose"
        /\ UNCHANGED <<fileNo, chunkNo>>
    BY <1>21 DEF AckRead, OnItsWay, linkVars
  <2> QED
    BY <1>3, <1>5, <1>6, <2>1 DEF Written, HowFar
<1>22. CASE SendClose
  <2> DEFINE m == JobMessage("SESSION_CLOSE")
  <2>1. wire' = Append(wire, m) /\ worker' = "completed" /\ UNCHANGED <<fileNo, chunkNo>>
    BY <1>22, <1>2 DEF SendClose, Send, CanSend
  <2>2. Len(wire) = End(B)
    BY <1>22, <1>3 DEF HowFar, SendClose
  <2>4. Place(B, Len(wire) + 1, m)
    BY <2>2, Zenon DEF Place
  <2>5. m \in Message
    BY <1>0, MessageMade DEF MessageType
  <2> HIDE DEF m
  <2>6. Len(wire') = Len(wire) + 1 /\ InPlace(B)'
    BY <1>3, <2>1, <2>4, <2>5, NextPlaced
  <2>7. HowFar(B)'
    BY <1>6, <2>1, <2>2, <2>6
  <2> QED
    BY <2>6, <2>7 DEF Written
<1>23. CASE ReportCompleted \/ ClearJob \/ ClearSocket \/ CloseSocket
  <2>1. wire' = wire /\ worker \in {"completed"} \cup Ending /\ worker' \in Ending
    BY <1>23 DEF ReportCompleted, ClearJob, ClearSocket, CloseSocket, Leave, linkVars
  <2>2. Len(wire) = End(B) + 1
    BY <1>3, <2>1 DEF HowFar
  <2> QED
    BY <1>5, <1>6, <2>1, <2>2 DEF Written
<1>24. CASE BuildMessage
  <2>1. wire' = wire /\ UNCHANGED <<fileNo, chunkNo>>
    BY <1>24 DEF BuildMessage, Local, linkVars
  <2>2. \/ worker = "buildInit" /\ worker' = "sendInit"
        \/ worker = "buildInfo" /\ worker' = "sendInfo"
        \/ worker = "buildFileDone" /\ worker' = "sendFileDone"
        \/ worker = "buildDone" /\ worker' = "sendDone"
    BY <1>24, <1>4 DEF BuildMessage, Build
  <2> QED
    BY <1>3, <1>5, <1>6, <2>1, <2>2 DEF Written, HowFar
<1> QED
  BY <1>7, <1>8, <1>9, <1>10, <1>11, <1>12, <1>13, <1>14, <1>15, <1>16, <1>17,
     <1>18, <1>19, <1>20, <1>21, <1>22, <1>23, <1>24, NoDetour DEF Worker

\* The worker changes nothing the receiver holds; opening the session starts
\* the client thread, which holds nothing.
LEMMA WorkerLeavesReceived ==
  ASSUME NEW B, PartialSums(B), TypeOK, IInv, Received(B), OnItsWay,
         exc' # "session", Worker
  PROVE  Received(B)'
<1>1. UNCHANGED <<read, ackSent, rJob, rReg, incoming, rBytes, disk>>
  BY DEF Worker, Local, Writes, linkVars, clientVars, StartTransfer,
     OpenSession, BindSocket, BuildMessage, Build, SendInit, NextFile,
     CheckInfo, SendInfo, ReadChunk, CheckChunk, SendChunk, AfterChunk,
     SelfCancel, SendSelfCancel, SelfCancelled, CheckFile, SendFileDone,
     CheckEnd, SendDone, AwaitAck, AckRead, SendClose, ReportCompleted, Handle,
     Branch, SendCancel, Attempt, MarkSent, TellCancel, CheckStatus, Fail,
     BuildError, ReportFailed, SendError, ClearJob, ClearSocket, CloseSocket
<1>2. /\ Nothing' = Nothing /\ BetweenTwo(B)' = BetweenTwo(B)
      /\ InsideOne(B)' = InsideOne(B)
  BY <1>1 DEF Nothing, BetweenTwo, InsideOne, Start
<1>3. CASE OpenSession
  <2>1. client = "none" /\ wire = <<>> /\ client' = "reading" /\ rSock' = "open"
    BY <1>3 DEF OpenSession, OnItsWay, Raise, At, IInv, WrittenSoFar, Opening
  <2>2. Len(wire) = 0 /\ read \in 0..0
    BY <2>1, EmptySeq DEF TypeOK, StreamType
  <2>3. read = 0
    BY <2>2
  <2>4. rJob # "COMPLETED"
    BY <2>3 DEF IInv, HeldSoFar, JobHeld
  <2>5. Nothing \/ BetweenTwo(B) \/ InsideOne(B)
    BY <2>4 DEF Received, Everything
  <2> QED
    BY <1>2, <2>1, <2>5 DEF Received
<1>4. CASE ~OpenSession
  <2>1. UNCHANGED <<client, rSock>>
    BY <1>4 DEF Worker, Local, Writes, linkVars, clientVars, StartTransfer,
       BindSocket, BuildMessage, Build, SendInit, NextFile, CheckInfo,
       SendInfo, ReadChunk, CheckChunk, SendChunk, AfterChunk, SelfCancel,
       SendSelfCancel, SelfCancelled, CheckFile, SendFileDone, CheckEnd,
       SendDone, AwaitAck, AckRead, SendClose, ReportCompleted, Handle, Branch,
       SendCancel, Attempt, MarkSent, TellCancel, CheckStatus, Fail,
       BuildError, ReportFailed, SendError, ClearJob, ClearSocket, CloseSocket
  <2>2. Everything(B)' = Everything(B)
    BY <1>1, <2>1 DEF Everything, End, Start
  <2> QED
    BY <1>1, <1>2, <2>1, <2>2 DEF Received
<1> QED
  BY <1>3, <1>4

-----------------------------------------------------------------------------
(* Everyone together.                                                      *)

\* An exception once raised is not replaced, and its kind stays known.
LEMMA RaisedIsKept ==
  ASSUME TypeOK, RaisedOnce, [Next]_vars
  PROVE  RaisedOnce' /\ (exc # "none" => exc' = exc)
<1> USE DEF RaisedOnce, Handling, Failing, Ending
<1>1. CASE Worker
  BY <1>1 DEF Worker, At, Goto, Raise, Leave, Checkpoint, Send, TypeOK,
     WorkerType, Exceptions, StartTransfer, OpenSession, BindSocket,
     BuildMessage, Build, SendInit, NextFile, CheckInfo, SendInfo, ReadChunk,
     CheckChunk, SendChunk, AfterChunk, SelfCancel, SendSelfCancel,
     SelfCancelled, CheckFile, SendFileDone, CheckEnd, SendDone, AwaitAck,
     AckRead, SendClose, ReportCompleted, Handle, Branch, SendCancel, Attempt,
     MarkSent, TellCancel, CheckStatus, Fail, BuildError, ReportFailed,
     SendError, ClearJob, ClearSocket, CloseSocket
<1>2. CASE ~Worker
  <2>1. UNCHANGED <<worker, exc>>
    BY <1>2 DEF Next, RequestCancel, CancelSteps, CancelCheck, CancelMark,
       CancelShutdown, CancelClose, Client, SenderSide, ReceiveInit,
       ReceiveFileInfo, ReceiveChunk, ReceiveFileComplete, RejectFile,
       RejectMessage, ReceiveTransferComplete, SendAck, FinishIncoming,
       ReceiveError, ReceiveCancel, ReceiveClose, GiveUp, Environment,
       NetFails, PeerReset, OtherCleanup, Stutter, vars, workerVars
  <2> QED
    BY <2>1
<1> QED
  BY <1>1, <1>2

\* What was disturbed stays disturbed.
LEMMA StaysDisturbed ==
  ASSUME TypeOK, RaisedOnce, [Next]_vars, UndisturbedSoFar'
  PROVE  UndisturbedSoFar
<1>1. exc # "session"
  BY RaisedIsKept DEF UndisturbedSoFar
<1>2. net = "up"
  BY DEF Next, Worker, RequestCancel, CancelSteps, CancelCheck, CancelMark,
     CancelShutdown, CancelClose, Client, Stream, ReceiveInit, ReceiveFileInfo,
     ReceiveChunk, ReceiveFileComplete, RejectFile, RejectMessage,
     ReceiveTransferComplete, SendAck, FinishIncoming, ReceiveError,
     ReceiveCancel, ReceiveClose, GiveUp, Environment, NetFails, PeerReset,
     OtherCleanup, Stutter, vars, linkVars, Local, Writes, StartTransfer,
     OpenSession, BindSocket, BuildMessage, Build, SendInit, NextFile,
     CheckInfo, SendInfo, ReadChunk, CheckChunk, SendChunk, AfterChunk,
     SelfCancel, SendSelfCancel, SelfCancelled, CheckFile, SendFileDone,
     CheckEnd, SendDone, AwaitAck, AckRead, SendClose, ReportCompleted, Handle,
     Branch, SendCancel, Attempt, MarkSent, TellCancel, CheckStatus, Fail,
     BuildError, ReportFailed, SendError, ClearJob, ClearSocket, CloseSocket,
     UndisturbedSoFar
<1>3. requests = 0 \/ RequestCancel
  <2>1. requests' = requests \/ RequestCancel
    BY DEF Next, Worker, CancelSteps, CancelCheck, CancelMark, CancelShutdown,
       CancelClose, Client, SenderSide, ReceiveInit, ReceiveFileInfo,
       ReceiveChunk, ReceiveFileComplete, RejectFile, RejectMessage,
       ReceiveTransferComplete, SendAck, FinishIncoming, ReceiveError,
       ReceiveCancel, ReceiveClose, GiveUp, Environment, NetFails, PeerReset,
       OtherCleanup, Stutter, vars, cancelVars, Local, Writes, StartTransfer,
       OpenSession, BindSocket, BuildMessage, Build, SendInit, NextFile,
       CheckInfo, SendInfo, ReadChunk, CheckChunk, SendChunk, AfterChunk,
       SelfCancel, SendSelfCancel, SelfCancelled, CheckFile, SendFileDone,
       CheckEnd, SendDone, AwaitAck, AckRead, SendClose, ReportCompleted,
       Handle, Branch, SendCancel, Attempt, MarkSent, TellCancel, CheckStatus,
       Fail, BuildError, ReportFailed, SendError, ClearJob, ClearSocket,
       CloseSocket
  <2> QED
    BY <2>1 DEF UndisturbedSoFar
<1>4. ~RequestCancel
  BY DEF RequestCancel, UndisturbedSoFar, TypeOK, CancelType
<1> QED
  BY <1>1, <1>2, <1>3, <1>4 DEF UndisturbedSoFar

\* A lost acknowledgement stays lost.
LEMMA AckStaysLost ==
  ASSUME TypeOK, IInv, AckLost, [Next]_vars
  PROVE  AckLost'
<1>1. worker # "open"
  BY DEF AckLost, IInv, HeldSoFar, JobHeld
<1>2. CASE Client
  BY <1>2 DEF AckLost, Client, Accept, Readable, ReceiveInit,
     ReceiveFileInfo, ReceiveChunk, ReceiveFileComplete, RejectFile,
     RejectMessage, ReceiveTransferComplete, SendAck, FinishIncoming,
     ReceiveError, ReceiveCancel, ReceiveClose, GiveUp
<1>3. CASE ~Client
  <2>1. UNCHANGED <<rJob, client, ackSent>>
    BY <1>1, <1>3 DEF Next, Worker, RequestCancel, CancelSteps, CancelCheck,
       CancelMark, CancelShutdown, CancelClose, Environment, At, NetFails,
       PeerReset, OtherCleanup, Stutter, vars, linkVars, clientVars, Local,
       Writes, StartTransfer, OpenSession, BindSocket, BuildMessage, Build,
       SendInit, NextFile, CheckInfo, SendInfo, ReadChunk, CheckChunk,
       SendChunk, AfterChunk, SelfCancel, SendSelfCancel, SelfCancelled,
       CheckFile, SendFileDone, CheckEnd, SendDone, AwaitAck, AckRead,
       SendClose, ReportCompleted, Handle, Branch, SendCancel, Attempt,
       MarkSent, TellCancel, CheckStatus, Fail, BuildError, ReportFailed,
       SendError, ClearJob, ClearSocket, CloseSocket
  <2> QED
    BY <2>1 DEF AckLost
<1> QED
  BY <1>2, <1>3

\* Every step of a transfer that nothing disturbs keeps it on its way, or loses
\* the acknowledgement.
LEMMA StaysSmooth ==
  ASSUME NEW B, PartialSums(B), FewFaults, TypeOK, IInv, Smooth(B),
         UndisturbedSoFar, UndisturbedSoFar', [Next]_vars
  PROVE  AckLost' \/ Smooth(B)'
<1>0. /\ net = "up" /\ net' = "up" /\ exc' # "session"
      /\ requests = 0 /\ requests' = 0
      /\ OnItsWay /\ Written(B) /\ Received(B)
  BY DEF UndisturbedSoFar, Smooth
<1>1. CASE Worker
  <2>1. OnItsWay' /\ Written(B)' /\ Received(B)'
    BY <1>0, <1>1, WorkerStaysOnItsWay, WorkerStaysPlaced, WorkerLeavesReceived
  <2> QED
    BY <2>1, Zenon DEF Smooth
<1>2. CASE Client
  <2>1. AckLost' \/ Received(B)'
    BY <1>0, <1>2, ClientStaysSmooth
  <2>2. /\ UNCHANGED <<workerVars, jobVars, slotVars, cancelVars, sSock, wire>>
        /\ client # "none" /\ client' # "none"
    BY <1>2 DEF SenderSide, Stream, linkVars, Client, Accept, Readable, KeepReading,
       EndClient, ReceiveInit, ReceiveFileInfo, ReceiveChunk,
       ReceiveFileComplete, RejectFile, RejectMessage,
       ReceiveTransferComplete, SendAck, FinishIncoming, ReceiveError,
       ReceiveCancel, ReceiveClose, GiveUp
  <2>3. OnItsWay'
    BY <1>0, <2>2 DEF OnItsWay, workerVars, jobVars, slotVars, cancelVars
  <2>4. Written(B)'
    BY <1>0, <2>2, Zenon DEF Written, InPlace, HowFar, Place, Start, End, workerVars
  <2> QED
    BY <2>1, <2>3, <2>4, Zenon DEF Smooth
<1>3. CASE OtherCleanup
  <2>1. /\ UNCHANGED <<workerVars, sJob, sEvents, slotVars, cancelVars, linkVars>>
        /\ UNCHANGED <<client, rJob, incoming, rBytes, disk>>
    BY <1>3 DEF OtherCleanup
  <2>2. /\ sReg' = sReg \/ sJob \in Terminal
        /\ rReg' = rReg \/ rJob \in Terminal
    BY <1>3 DEF OtherCleanup
  <2>3. OnItsWay'
    BY <1>0, <2>1, <2>2 DEF OnItsWay, Terminal, workerVars, slotVars, cancelVars,
       linkVars
  <2>4. Written(B)'
    BY <1>0, <2>1, Zenon DEF Written, InPlace, HowFar, Place, Start, End,
       workerVars, linkVars
  <2>5. UNCHANGED <<read, ackSent, rSock>>
    BY <2>1 DEF linkVars
  <2>8. rSock' = "closed" => client' = "ended"
    BY <1>0, <2>1, <2>5 DEF Received
  <2>6. ASSUME Everything(B) PROVE Received(B)'
    <3>1. Everything(B)'
      BY <2>1, <2>5, <2>6 DEF Everything, End, Start
    <3> QED
      BY <2>8, <3>1, Zenon DEF Received
  <2>7. ASSUME ~Everything(B) PROVE Received(B)'
    <3>1. /\ rJob \in {"absent", "RUNNING"}
          /\ client \in {"none", "reading"}
          /\ Nothing \/ BetweenTwo(B) \/ InsideOne(B)
      BY <1>0, <2>7 DEF Received, Nothing, BetweenTwo, InsideOne
    <3>2. rReg' = rReg
      BY <2>2, <3>1 DEF Terminal
    <3>3. Nothing' \/ BetweenTwo(B)' \/ InsideOne(B)'
      BY <2>1, <2>5, <3>1, <3>2 DEF Nothing, BetweenTwo, InsideOne, Start
    <3>4. client' \in {"none", "reading"}
      BY <2>1, <3>1
    <3> QED
      BY <2>8, <3>3, <3>4, Zenon DEF Received
  <2> QED
    BY <2>3, <2>4, <2>6, <2>7, Zenon DEF Smooth
<1>4. ~RequestCancel /\ ~CancelSteps /\ ~NetFails /\ ~PeerReset
  BY <1>0 DEF RequestCancel, CancelSteps, CancelCheck, CancelMark, CancelShutdown,
     CancelClose, NetFails, PeerReset, OnItsWay
<1>5. CASE Stutter \/ UNCHANGED vars
  <2>1. UNCHANGED vars
    BY <1>5 DEF Stutter
  <2>2. OnItsWay'
    BY <1>0, <2>1 DEF OnItsWay, vars, workerVars, jobVars, slotVars, cancelVars,
       linkVars, clientVars
  <2>3. Written(B)'
    BY <1>0, <2>1, Zenon DEF Written, InPlace, HowFar, Place, Start, End, vars,
       workerVars, linkVars
  <2>4. Received(B)'
    BY <1>0, <2>1, Zenon DEF Received, Nothing, BetweenTwo, InsideOne, Everything,
       End, Start, vars, linkVars, clientVars
  <2> QED
    BY <2>2, <2>3, <2>4, Zenon DEF Smooth
<1> QED
  BY <1>1, <1>2, <1>3, <1>4, <1>5 DEF Next, Environment

\* The transfer starts on its way.
LEMMA StartsSmooth ==
  ASSUME NEW B, PartialSums(B), Init
  PROVE  SmoothInv(B)
<1>1. wire = <<>> /\ Len(wire) = 0
  BY DEF Init
<1>2. InPlace(B)
  BY <1>1 DEF InPlace
<1>3. Written(B)
  BY <1>1, <1>2 DEF Init, Written, HowFar, InFile, AtEnd, Ending
<1>4. OnItsWay
  BY DEF Init, OnItsWay, Succeeding, Streaming, BetweenFiles, Opening, InFile, Ending
<1>5. Received(B)
  BY DEF Init, Received, Nothing
<1> QED
  BY <1>3, <1>4, <1>5 DEF SmoothInv, Smooth, RaisedOnce, Init

\* For every manifest, over a connection that stays up, with the session
\* granted, the source unchanged, the disks writable and nothing cancelled,
\* send_transfer reports success, or the receiver holds everything and lost the
\* acknowledgement to a cleanup (AppManager.send_transfer and
\* _handle_transfer_message).
THEOREM TransferSucceedsUndisturbed ==
  ASSUME NEW B, PartialSums(B), FewFaults
  PROVE  Spec => []SucceedsUnlessDisturbed
<1>1. Init => SmoothInv(B)
  BY StartsSmooth
<1>2. IInv /\ IInv' /\ SmoothInv(B) /\ [Next]_vars => SmoothInv(B)'
  <2> SUFFICES ASSUME IInv, IInv', SmoothInv(B), [Next]_vars
               PROVE  SmoothInv(B)'
    OBVIOUS
  <2>1. TypeOK /\ RaisedOnce
    BY DEF IInv, SmoothInv
  <2>2. RaisedOnce'
    BY <2>1, RaisedIsKept
  <2>3. ASSUME UndisturbedSoFar' PROVE AckLost' \/ Smooth(B)'
    <3>1. UndisturbedSoFar
      BY <2>1, <2>3, StaysDisturbed
    <3>2. AckLost \/ Smooth(B)
      BY <3>1 DEF SmoothInv
    <3> QED
      BY <2>1, <2>3, <3>1, <3>2, AckStaysLost, StaysSmooth
  <2> QED
    BY <2>2, <2>3, Zenon DEF SmoothInv
<1>3. IInv /\ SmoothInv(B) => SucceedsUnlessDisturbed
  <2> SUFFICES ASSUME IInv, SmoothInv(B), worker = "done", UndisturbedSoFar
               PROVE  Delivered /\ (Reported(sEvents, "completed") \/ AckLost)
    BY DEF SucceedsUnlessDisturbed
  <2>1. CASE AckLost
    BY <2>1, CompletedIsWhole DEF AckLost, ReceiverCompletesWholeJobs
  <2>2. CASE Smooth(B)
    <3>1. Reported(sEvents, "completed")
      BY <2>2 DEF Smooth, OnItsWay, Ending
    <3>2. rJob = "COMPLETED"
      BY <3>1 DEF IInv, CompletedAfterAck, HeldSoFar, JobHeld
    <3> QED
      BY <3>1, <3>2, CompletedIsWhole DEF ReceiverCompletesWholeJobs
  <2> QED
    BY <2>1, <2>2 DEF SmoothInv
<1>4. Spec => []IInv
  BY Invariant
<1> QED
  BY <1>1, <1>2, <1>3, <1>4, PTL DEF Spec
=============================================================================
