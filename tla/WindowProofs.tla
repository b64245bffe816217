---------------------------- MODULE WindowProofs ----------------------------
(***************************************************************************)
(* Theorems about Window, for any number of transfers and of reports.      *)
(***************************************************************************)
EXTENDS Window, TLAPS

Bools == /\ selected \in BOOLEAN /\ sendEnabled \in BOOLEAN
         /\ cancelEnabled \in BOOLEAN /\ cancelEvent \in BOOLEAN

\* TypeOK without its Boolean variables and without the queue.
DataOK ==
    /\ gui \in GuiStates
    /\ current \in 0..MaxTransfers /\ asked \in 0..MaxTransfers
    /\ slot \in 0..MaxTransfers /\ victim \in 0..MaxTransfers
    /\ panel \in [job : 0..(MaxTransfers + 1), status : {"Idle", "RUNNING", "Final"}]
    /\ worker \in [Workers -> Stages]
    /\ quitting \subseteq Workers
    /\ reports \in 0..MaxReports
    /\ incoming \in {"none", "active", "ended", "broken"}

-----------------------------------------------------------------------------
\* The Boolean variables stay Boolean.
LEMMA BoolsStep == ASSUME Bools, [Next]_vars PROVE Bools'
<1>. USE DEF Bools
<1>1. CASE SelectPeer BY <1>1, Zenon DEF SelectPeer, Busy, Running, control
<1>2. CASE ChooseAndSend BY <1>2, Zenon DEF ChooseAndSend, control, buttons
<1>3. CASE ChooserCloses BY <1>3, Zenon DEF ChooserCloses, control, buttons
<1>4. CASE AskCancel BY <1>4, Zenon DEF AskCancel, control, buttons
<1>5. CASE AnswerNo BY <1>5, Zenon DEF AnswerNo, control, buttons
<1>6. CASE AnswerYes BY <1>6, Zenon DEF AnswerYes, control, buttons
<1>7. CASE Close BY <1>7, Zenon DEF Close, control, buttons
<1>8. CASE PeersUpdated BY <1>8, Zenon DEF PeersUpdated, UpdateButtons, Busy, Running, control
<1>9. CASE \E w \in Workers : StartTransferWorker(w)
    BY <1>9, Zenon DEF StartTransferWorker, Launch, control
<1>10. CASE HandleEvent
    BY <1>10, Zenon DEF HandleEvent, Handles, OnWorkerStarted, OnTransferStarted,
          OnTransferProgress, OnTransferEnded, OnThreadQuit, CleanupTransferWorker,
          Destroy, UpdateButtons, Busy, Running, control, buttons
<1>11. CASE CancelReturns BY <1>11, Zenon DEF CancelReturns, control, buttons
<1>12. CASE WaitReturns BY <1>12, Zenon DEF WaitReturns, control, buttons
<1>13. CASE \E w \in Workers : WorkerStep(w)
    BY <1>13, Zenon DEF WorkerStep, Begin, PreparationFails, TakeSlot, TransferEnds,
          GiveSlotBack, Return, LeaveLoop, Finish, Moves, window, buttons, control
<1>14. CASE \E j \in Jobs : Progress(j)
    BY <1>14, Zenon DEF Progress, window, buttons, control
<1>15. CASE IncomingStarts BY <1>15, Zenon DEF IncomingStarts, window, buttons, control
<1>16. CASE IncomingEnds BY <1>16, Zenon DEF IncomingEnds, window, buttons, control
<1>17. CASE IncomingBreaks BY <1>17, Zenon DEF IncomingBreaks, window, buttons, control
<1>18. CASE UNCHANGED vars BY <1>18, Zenon DEF vars, window, buttons, control
<1>. QED
    BY <1>1, <1>2, <1>3, <1>4, <1>5, <1>6, <1>7, <1>8, <1>9, <1>10, <1>11, <1>12,
       <1>13, <1>14, <1>15, <1>16, <1>17, <1>18, Zenon DEF Next, UserStep
\* A posted event is one of the queue's.
LEMMA PostType ==
    ASSUME events \in Seq(Events), NEW kind, NEW j, Post(kind, j),
           [kind |-> kind, job |-> j] \in Events
    PROVE  events' \in Seq(Events)
    BY DEF Post

\* The queue holds events only.
LEMMA QueueStep ==
    ASSUME events \in Seq(Events), [Next]_vars
    PROVE  events' \in Seq(Events)
<1>1. CASE HandleEvent
  <2>1. events # <<>> /\ events' = Tail(events)
      BY <1>1, Zenon DEF HandleEvent, Handles, OnWorkerStarted, OnTransferStarted,
         OnTransferProgress, OnTransferEnded, OnThreadQuit, CleanupTransferWorker, Destroy
  <2>. QED BY <2>1
<1>2. CASE \E w \in Workers : WorkerStep(w)
  <2>1. PICK w \in Workers : WorkerStep(w) BY <1>2
  <2>2. UNCHANGED events \/ \E kind \in {"begun", "started", "ended", "quit", "finished"} :
                               Post(kind, w)
      BY <2>1 DEF WorkerStep, Begin, PreparationFails, TakeSlot, TransferEnds,
         GiveSlotBack, Return, LeaveLoop, Finish
  <2>3. \A kind \in {"begun", "started", "ended", "quit", "finished"} :
            [kind |-> kind, job |-> w] \in Events
      BY DEF Events, Jobs
  <2>. QED BY <2>2, <2>3, PostType
<1>3. CASE \E j \in Jobs : Progress(j)
  <2>1. PICK j \in Jobs : Post("progress", j) BY <1>3 DEF Progress
  <2>2. [kind |-> "progress", job |-> j] \in Events BY DEF Events
  <2>. QED BY <2>1, <2>2, PostType
<1>4. CASE IncomingStarts \/ IncomingEnds \/ IncomingBreaks
  <2>1. UNCHANGED events \/ Post("started", Incoming) \/ Post("ended", Incoming)
      BY <1>4 DEF IncomingStarts, IncomingEnds, IncomingBreaks
  <2>2. \A kind \in {"started", "ended"} : [kind |-> kind, job |-> Incoming] \in Events
      BY DEF Events, Jobs
  <2>. QED BY <2>1, <2>2, PostType
<1>5. CASE Close \/ WaitReturns
  <2>1. UNCHANGED events \/ Post("exit", 0) BY <1>5 DEF Close, WaitReturns
  <2>2. [kind |-> "exit", job |-> 0] \in Events BY DEF Events
  <2>. QED BY <2>1, <2>2, PostType
<1>6. CASE UserStep /\ ~Close
    BY <1>6, Zenon DEF UserStep, SelectPeer, ChooseAndSend, ChooserCloses, AskCancel,
       AnswerNo, AnswerYes, PeersUpdated, StartTransferWorker, Launch
<1>7. CASE CancelReturns \/ UNCHANGED vars BY <1>7, Zenon DEF CancelReturns, vars
<1>. QED BY <1>1, <1>2, <1>3, <1>4, <1>5, <1>6, <1>7, Zenon DEF Next

\* The rest of the types.
LEMMA DataStep ==
    ASSUME TypeOK, [Next]_vars
    PROVE  DataOK'
<1>. USE WindowAssumption DEF DataOK, Workers, Jobs, Incoming, GuiStates, Stages,
         window, jobs, control, buttons
<1>0. DataOK BY DEF TypeOK
<1>1. CASE SelectPeer BY <1>0, <1>1 DEF SelectPeer
<1>2. CASE ChooseAndSend BY <1>0, <1>2 DEF ChooseAndSend
<1>3. CASE ChooserCloses BY <1>0, <1>3 DEF ChooserCloses
<1>4. CASE AskCancel BY <1>0, <1>4 DEF AskCancel
<1>5. CASE AnswerNo BY <1>0, <1>5 DEF AnswerNo
<1>6. CASE AnswerYes BY <1>0, <1>6 DEF AnswerYes
<1>7. CASE Close
  <2>1. current # 0 => current \in Workers BY <1>0
  <2>2. quitting' \in SUBSET Workers
    <3>1. quitting' = quitting \/ (current # 0 /\ quitting' = quitting \cup {current})
        BY <1>7, Zenon DEF Close, Busy
    <3>2. quitting \in SUBSET Workers BY <1>0
    <3>. QED BY <2>1, <3>1, <3>2, Zenon
  <2>3. gui' \in GuiStates BY <1>7 DEF Close
  <2>. QED BY <1>0, <1>7, <2>2, <2>3 DEF Close
<1>8. CASE PeersUpdated BY <1>0, <1>8 DEF PeersUpdated
<1>9. CASE \E w \in Workers : StartTransferWorker(w)
    BY <1>0, <1>9 DEF StartTransferWorker, Launch
<1>10. CASE HandleEvent
  <2>0. Head(events) \in Events
    <3>1. events \in Seq(Events) BY DEF TypeOK
    <3>2. events # <<>>
        BY <1>10, Zenon DEF HandleEvent, Handles, OnWorkerStarted, OnTransferStarted,
         OnTransferProgress, OnTransferEnded, OnThreadQuit, CleanupTransferWorker, Destroy
    <3>. QED BY <3>1, <3>2
  <2>1. CASE OnWorkerStarted BY <1>0, <2>1 DEF OnWorkerStarted, Handles
  <2>2. CASE OnTransferStarted BY <1>0, <2>0, <2>2 DEF OnTransferStarted, Handles, Events
  <2>3. CASE OnTransferProgress BY <1>0, <2>0, <2>3 DEF OnTransferProgress, Handles, Events
  <2>4. CASE OnTransferEnded BY <1>0, <2>0, <2>4 DEF OnTransferEnded, Handles, Events
  <2>5. CASE OnThreadQuit BY <1>0, <2>0, <2>5 DEF OnThreadQuit, Handles, Events
  <2>6. CASE CleanupTransferWorker BY <1>0, <2>6 DEF CleanupTransferWorker, Handles
  <2>7. CASE Destroy BY <1>0, <2>7 DEF Destroy, Handles
  <2>. QED BY <1>10, <2>1, <2>2, <2>3, <2>4, <2>5, <2>6, <2>7 DEF HandleEvent
<1>11. CASE CancelReturns BY <1>0, <1>11 DEF CancelReturns
<1>12. CASE WaitReturns BY <1>0, <1>12 DEF WaitReturns
<1>13. CASE \E w \in Workers : WorkerStep(w)
  <2>1. PICK w \in Workers : WorkerStep(w) BY <1>13
  <2>2. UNCHANGED <<window, incoming, reports>>
      BY <2>1 DEF WorkerStep, Begin, PreparationFails, TakeSlot, TransferEnds,
         GiveSlotBack, Return, LeaveLoop, Finish, Moves
  <2>3. \E s \in Stages : worker' = [worker EXCEPT ![w] = s]
      BY <2>1 DEF WorkerStep, Begin, PreparationFails, TakeSlot, TransferEnds,
         GiveSlotBack, Return, LeaveLoop, Finish, Moves
  <2>4. slot' \in {slot, w, 0}
      BY <2>1 DEF WorkerStep, Begin, PreparationFails, TakeSlot, TransferEnds,
         GiveSlotBack, Return, LeaveLoop, Finish, Moves
  <2>. QED BY <1>0, <2>2, <2>3, <2>4
<1>14. CASE \E j \in Jobs : Progress(j) BY <1>0, <1>14 DEF Progress
<1>15. CASE IncomingStarts BY <1>0, <1>15 DEF IncomingStarts
<1>16. CASE IncomingEnds BY <1>0, <1>16 DEF IncomingEnds
<1>17. CASE IncomingBreaks BY <1>0, <1>17 DEF IncomingBreaks
<1>18. CASE UNCHANGED vars BY <1>0, <1>18 DEF vars
<1>. QED
    BY <1>1, <1>2, <1>3, <1>4, <1>5, <1>6, <1>7, <1>8, <1>9, <1>10, <1>11, <1>12,
       <1>13, <1>14, <1>15, <1>16, <1>17, <1>18, Zenon DEF Next, UserStep

\* The types are kept.
LEMMA TypesStep == TypeOK /\ [Next]_vars => TypeOK'
<1>. SUFFICES ASSUME TypeOK, [Next]_vars PROVE TypeOK' OBVIOUS
<1>1. Bools /\ events \in Seq(Events) BY Zenon DEF TypeOK, Bools
<1>2. Bools' /\ events' \in Seq(Events) BY <1>1, BoolsStep, QueueStep
<1>3. DataOK' BY DataStep
<1>. QED BY <1>2, <1>3, Zenon DEF TypeOK, Bools, DataOK

\* They hold when the window opens.
LEMMA InitTypes == Init => TypeOK
<1>. SUFFICES ASSUME Init PROVE TypeOK OBVIOUS
<1>1. DataOK BY WindowAssumption DEF Init, DataOK, GuiStates, Stages, Workers
<1>2. Bools BY Zenon DEF Init, Bools
<1>3. events \in Seq(Events) BY DEF Init
<1>. QED BY <1>1, <1>2, <1>3, Zenon DEF TypeOK, DataOK, Bools

\* Window, queue and workers keep their types, however threads and clicks meet.
THEOREM WindowTypes == Spec => []TypeOK
    BY InitTypes, TypesStep, PTL DEF Spec
-----------------------------------------------------------------------------
\* The steps that move a worker, the reference to it or the slot: all others
\* leave them alone, and none brings a program that has ended back.
LEMMA WhoMoves ==
    ASSUME [Next]_vars
    PROVE  \/ \E w \in Workers : WorkerStep(w)
           \/ \E w \in Workers : StartTransferWorker(w)
           \/ CleanupTransferWorker
           \/ /\ UNCHANGED <<worker, current, slot>>
              /\ gui = "crashed" => gui' = "crashed"
              /\ Alive' => Alive
<1>. USE DEF window, jobs, control, Alive
<1>1. CASE UserStep
    BY <1>1 DEF UserStep, SelectPeer, ChooseAndSend, ChooserCloses, AskCancel, AnswerNo,
       AnswerYes, Close, PeersUpdated
<1>2. CASE HandleEvent /\ ~CleanupTransferWorker
    BY <1>2 DEF HandleEvent, Handles, OnWorkerStarted, OnTransferStarted,
          OnTransferProgress, OnTransferEnded, OnThreadQuit, Destroy
<1>3. CASE CancelReturns \/ WaitReturns BY <1>3 DEF CancelReturns, WaitReturns
<1>4. CASE (\E j \in Jobs : Progress(j)) \/ IncomingStarts \/ IncomingEnds \/ IncomingBreaks
    BY <1>4 DEF Progress, IncomingStarts, IncomingEnds, IncomingBreaks
<1>5. CASE UNCHANGED vars BY <1>5 DEF vars
<1>. QED BY <1>1, <1>2, <1>3, <1>4, <1>5 DEF Next

\* What a step of a worker's thread does to the others, the window and the slot.
LEMMA WorkerEffect ==
    ASSUME TypeOK, NEW w \in Workers, WorkerStep(w)
    PROVE  /\ Alive /\ UNCHANGED <<gui, current, victim, asked>>
           /\ \A v \in Workers \ {w} : worker'[v] = worker[v]
           /\ Running(w)' => Running(w)
    BY DEF TypeOK, WorkerStep, Begin, PreparationFails, TakeSlot, TransferEnds, GiveSlotBack,
       Return, LeaveLoop, Finish, Moves, window, Running, Stages

\* The thread that runs stays the one the window refers to.
LEMMA OneStep ==
    ASSUME TypeOK, OneTransferAtATime, [Next]_vars
    PROVE  OneTransferAtATime'
<1>1. CASE \E w \in Workers : WorkerStep(w)
  <2>1. PICK w \in Workers : WorkerStep(w) BY <1>1
  <2>2. \A v \in Workers : Running(v)' => Running(v)
      BY <2>1, WorkerEffect DEF Running
  <2>. QED BY <2>1, <2>2, WorkerEffect DEF OneTransferAtATime
<1>2. CASE \E w \in Workers : StartTransferWorker(w)
    BY <1>2 DEF StartTransferWorker, Launch, Busy, OneTransferAtATime, Running, TypeOK, Workers
<1>3. CASE CleanupTransferWorker
    BY <1>3 DEF CleanupTransferWorker, Handles, Busy, OneTransferAtATime, Running, jobs
<1>. QED BY <1>1, <1>2, <1>3, WhoMoves DEF OneTransferAtATime, Running

\* The slot stays that of the transfer that is active.
LEMMA SlotStep ==
    ASSUME TypeOK, OneTransferAtATime, SlotIsOwn, [Next]_vars
    PROVE  SlotIsOwn'
<1>1. CASE \E w \in Workers : WorkerStep(w)
  <2>1. PICK w \in Workers : WorkerStep(w) BY <1>1
  <2>2. Alive /\ \A v \in Workers \ {w} : worker'[v] = worker[v] BY <2>1, WorkerEffect
  <2>3. \A v \in Workers : Running(v) => v = current
      BY <2>2 DEF OneTransferAtATime, Alive
  <2>4. \A v \in Workers : worker[v] \in {"active", "ending"} <=> slot = v
      BY <2>2 DEF SlotIsOwn
  <2>5. worker'[w] \in {"active", "ending"} <=> slot' = w
    <3>1. CASE TakeSlot(w) BY <3>1 DEF TakeSlot, Moves, TypeOK
    <3>2. CASE GiveSlotBack(w)
        BY <2>4, <3>2 DEF GiveSlotBack, Moves, TypeOK, control, Workers
    <3>3. CASE ~TakeSlot(w) /\ ~GiveSlotBack(w)
        BY <2>1, <2>4, <3>3 DEF WorkerStep, Begin, PreparationFails, TransferEnds, Return,
           LeaveLoop, Finish, Moves, TypeOK, control
    <3>. QED BY <3>1, <3>2, <3>3
  <2>6. ASSUME NEW v \in Workers \ {w}
        PROVE  worker'[v] \in {"active", "ending"} <=> slot' = v
    <3>1. CASE TakeSlot(w)
      <4>1. Running(w) BY <3>1 DEF TakeSlot, Moves, Running
      <4>2. ~Running(v) BY <2>3, <4>1
      <4>. QED BY <2>2, <3>1, <4>2 DEF TakeSlot, Running
    <3>2. CASE GiveSlotBack(w)
        BY <2>2, <2>4, <3>2 DEF GiveSlotBack, Moves, control, Workers
    <3>3. CASE ~TakeSlot(w) /\ ~GiveSlotBack(w)
        BY <2>1, <2>2, <2>4, <3>3 DEF WorkerStep, Begin, PreparationFails, TransferEnds,
           Return, LeaveLoop, Finish, Moves, control
    <3>. QED BY <3>1, <3>2, <3>3
  <2>. QED BY <2>5, <2>6 DEF SlotIsOwn
<1>2. CASE \E w \in Workers : StartTransferWorker(w)
    BY <1>2 DEF StartTransferWorker, Launch, SlotIsOwn, control, TypeOK, Alive
<1>3. CASE CleanupTransferWorker
    BY <1>3 DEF CleanupTransferWorker, Handles, SlotIsOwn, jobs, control, Alive
<1>. QED BY <1>1, <1>2, <1>3, WhoMoves DEF SlotIsOwn

\* What the GUI thread knows of the transfer it asks about and cancels.
CancelInv ==
    /\ victim # 0 => gui = "cancelling" /\ victim = asked
    /\ gui = "asking" => asked = current \/ current = 0

\* The event of a cancellation belongs to the transfer that was asked about.
EventInv == cancelEvent => slot # 0 /\ slot = asked

\* The active transfer is the current one.
LEMMA SlotIsCurrent ==
    ASSUME TypeOK, OneTransferAtATime, SlotIsOwn, Alive, slot # 0
    PROVE  slot = current /\ Running(slot)
<1>1. slot \in Workers BY WindowAssumption DEF TypeOK, Workers
<1>2. Running(slot) BY <1>1 DEF SlotIsOwn, Running
<1>. QED BY <1>1, <1>2 DEF OneTransferAtATime, Alive

\* No step sets a cancellation on a transfer other than the one asked about.
LEMMA CancelStep ==
    ASSUME TypeOK, OneTransferAtATime, SlotIsOwn, CancelInv, [Next]_vars
    PROVE  CancelInv'
<1>. USE DEF CancelInv
<1>1. CASE \E w \in Workers : WorkerStep(w) BY <1>1, WorkerEffect
<1>2. CASE HandleEvent
    BY <1>2 DEF HandleEvent, Handles, OnWorkerStarted, OnTransferStarted,
          OnTransferProgress, OnTransferEnded, OnThreadQuit, CleanupTransferWorker, Destroy
<1>3. CASE AnswerYes
  <2>1. slot # 0 => slot = asked BY <1>3, SlotIsCurrent DEF AnswerYes, Alive
  <2>. QED BY <1>3, <2>1 DEF AnswerYes
<1>4. CASE SelectPeer \/ ChooseAndSend \/ ChooserCloses \/ AskCancel \/ AnswerNo \/ Close
             \/ PeersUpdated \/ CancelReturns \/ WaitReturns
    BY <1>4 DEF SelectPeer, ChooseAndSend, ChooserCloses, AskCancel, AnswerNo, Close,
       PeersUpdated, CancelReturns, WaitReturns
<1>5. CASE \E w \in Workers : StartTransferWorker(w)
    BY <1>5 DEF StartTransferWorker, Launch
<1>6. CASE (\E j \in Jobs : Progress(j)) \/ IncomingStarts \/ IncomingEnds \/ IncomingBreaks
    BY <1>6 DEF Progress, IncomingStarts, IncomingEnds, IncomingBreaks, window
<1>7. CASE UNCHANGED vars BY <1>7 DEF vars, window
<1>. QED BY <1>1, <1>2, <1>3, <1>4, <1>5, <1>6, <1>7, Zenon DEF Next, UserStep

\* The event is set with the slot and cleared with it.
LEMMA EventStep ==
    ASSUME TypeOK, OneTransferAtATime, SlotIsOwn, CancelInv, EventInv, [Next]_vars
    PROVE  EventInv'
<1>1. CASE \E w \in Workers : WorkerStep(w)
  <2>1. PICK w \in Workers : WorkerStep(w) BY <1>1
  <2>2. asked' = asked BY <2>1, WorkerEffect
  <2>3. CASE TakeSlot(w) BY <2>3, Zenon DEF TakeSlot, EventInv
  <2>4. CASE GiveSlotBack(w)
    <3>1. slot = w
        BY <2>4, WorkerEffect, <2>1 DEF GiveSlotBack, Moves, SlotIsOwn, Alive
    <3>. QED BY <2>4, <3>1, Zenon DEF GiveSlotBack, EventInv
  <2>5. CASE ~TakeSlot(w) /\ ~GiveSlotBack(w)
    <3>1. slot' = slot /\ cancelEvent' = cancelEvent
        BY <2>1, <2>5, Zenon DEF WorkerStep, Begin, PreparationFails, TransferEnds,
           Return, LeaveLoop, Finish, control
    <3>. QED BY <2>2, <3>1, Zenon DEF EventInv
  <2>. QED BY <2>3, <2>4, <2>5
<1>2. CASE AnswerYes
  <2>1. slot # 0 => slot = asked
      BY <1>2, SlotIsCurrent DEF AnswerYes, Alive, CancelInv
  <2>2. slot' = slot /\ asked' = asked BY <1>2, Zenon DEF AnswerYes
  <2>3. slot = 0 => cancelEvent' = cancelEvent BY <1>2, Zenon DEF AnswerYes
  <2>. QED BY <2>1, <2>2, <2>3, Zenon DEF EventInv
<1>3. CASE AskCancel
  <2>1. Alive BY <1>3 DEF AskCancel, Alive
  <2>2. slot' = slot /\ cancelEvent' = cancelEvent /\ asked' = current
      BY <1>3, Zenon DEF AskCancel, control
  <2>3. slot # 0 => slot = current BY <2>1, SlotIsCurrent
  <2>. QED BY <2>2, <2>3, Zenon DEF EventInv
<1>4. CASE \E w \in Workers : StartTransferWorker(w)
  <2>1. Alive /\ ~Busy BY <1>4 DEF StartTransferWorker, Launch, Alive
  <2>2. slot = 0 BY <2>1, SlotIsCurrent DEF Busy
  <2>3. cancelEvent' = cancelEvent BY <1>4, Zenon DEF StartTransferWorker, Launch, control
  <2>4. ~cancelEvent BY <2>2, Zenon DEF EventInv
  <2>. QED BY <2>3, <2>4, Zenon DEF EventInv
<1>5. CASE UNCHANGED <<slot, cancelEvent, asked>> BY <1>5, Zenon DEF EventInv
<1>6. \/ \E w \in Workers : WorkerStep(w) \/ StartTransferWorker(w)
      \/ AnswerYes \/ AskCancel \/ UNCHANGED <<slot, cancelEvent, asked>>
  <2>1. CASE HandleEvent
      BY <2>1, Zenon DEF HandleEvent, Handles, OnWorkerStarted, OnTransferStarted,
          OnTransferProgress, OnTransferEnded, OnThreadQuit, CleanupTransferWorker,
          Destroy, control
  <2>2. CASE SelectPeer \/ ChooseAndSend \/ ChooserCloses \/ AnswerNo \/ Close
             \/ PeersUpdated \/ CancelReturns \/ WaitReturns
      BY <2>2, Zenon DEF SelectPeer, ChooseAndSend, ChooserCloses, AnswerNo, Close,
         PeersUpdated, CancelReturns, WaitReturns, control
  <2>3. CASE (\E j \in Jobs : Progress(j)) \/ IncomingStarts \/ IncomingEnds \/ IncomingBreaks
      BY <2>3, Zenon DEF Progress, IncomingStarts, IncomingEnds, IncomingBreaks, window, control
  <2>4. CASE UNCHANGED vars BY <2>4, Zenon DEF vars, window, control
  <2>. QED BY <2>1, <2>2, <2>3, <2>4, Zenon DEF Next, UserStep
<1>. QED BY <1>1, <1>2, <1>3, <1>4, <1>5, <1>6, Zenon

\* One transfer at a time, in the slot, and cancelled only when it was asked about:
\* the three hold together, as each is why the next one does.
WindowInv == TypeOK /\ OneTransferAtATime /\ SlotIsOwn /\ CancelInv /\ EventInv

\* The inductive invariant of the window.
THEOREM WindowInvariant == Spec => []WindowInv
<1>1. Init => WindowInv
  <2>. SUFFICES ASSUME Init PROVE WindowInv OBVIOUS
  <2>1. OneTransferAtATime BY DEF Init, OneTransferAtATime, Running
  <2>2. SlotIsOwn BY DEF Init, SlotIsOwn, Workers
  <2>3. CancelInv BY DEF Init, CancelInv
  <2>4. EventInv BY Zenon DEF Init, EventInv
  <2>5. TypeOK BY InitTypes
  <2>. QED BY <2>1, <2>2, <2>3, <2>4, <2>5 DEF WindowInv
<1>2. WindowInv /\ [Next]_vars => WindowInv'
    BY TypesStep, OneStep, SlotStep, CancelStep, EventStep DEF WindowInv
<1>. QED BY <1>1, <1>2, PTL DEF Spec

\* The thread that runs is always the one the window refers to.
THEOREM OneTransferRuns == Spec => []OneTransferAtATime
<1>1. WindowInv => OneTransferAtATime BY DEF WindowInv
<1>. QED BY <1>1, WindowInvariant, PTL

\* The single slot is never overwritten by another transfer.
THEOREM SlotIsNeverTaken == Spec => []SlotIsOwn
<1>1. WindowInv => SlotIsOwn BY DEF WindowInv
<1>. QED BY <1>1, WindowInvariant, PTL

\* A cancellation reaches the transfer the user was asked about, or none.
THEOREM CancelReachesOnlyAsked == Spec => []CancelReachesAsked
<1>1. WindowInv => CancelReachesAsked
    BY Zenon DEF WindowInv, CancelInv, EventInv, CancelReachesAsked
<1>. QED BY <1>1, WindowInvariant, PTL
-----------------------------------------------------------------------------
(* The buttons: what they miss of the thread is still to be announced.     *)

Agree == sendEnabled = (selected /\ ~Busy) /\ cancelEnabled = Busy
Moving == \E w \in Workers : worker[w] \in {"starting", "finishing"}
Announced == \E i \in 1..Len(events) : events[i].kind \in {"begun", "finished"}
ButtonsInv == Agree \/ Moving \/ Announced

\* What is in the queue stays there when something is posted.
LEMMA PostKeeps ==
    ASSUME events \in Seq(Events), NEW kind, NEW j, Post(kind, j)
    PROVE  /\ Len(events') = Len(events) + 1
           /\ \A i \in 1..Len(events) : events'[i] = events[i]
           /\ events'[Len(events')] = [kind |-> kind, job |-> j]
    BY DEF Post

\* Handling an event moves the others one place up.
LEMMA TailMoves ==
    ASSUME events \in Seq(Events), events # <<>>, events' = Tail(events)
    PROVE  /\ Len(events') = Len(events) - 1 /\ Len(events) \in Nat \ {0}
           /\ \A i \in 1..Len(events') : events'[i] = events[i + 1]
           /\ Head(events) = events[1]
    OBVIOUS

\* An announcement is in the queue until it is handled.
LEMMA AnnouncedStays ==
    ASSUME events \in Seq(Events), Announced,
           \/ events' = events
           \/ \E kind, j : Post(kind, j)
           \/ events # <<>> /\ events' = Tail(events)
                 /\ Head(events).kind \notin {"begun", "finished"}
    PROVE  Announced'
<1>. PICK i \in 1..Len(events) : events[i].kind \in {"begun", "finished"} BY DEF Announced
<1>1. CASE events' = events BY <1>1 DEF Announced
<1>2. ASSUME NEW kind, NEW j, Post(kind, j) PROVE Announced'
  <2>1. /\ Len(events') = Len(events) + 1
        /\ \A k \in 1..Len(events) : events'[k] = events[k]
      BY <1>2, PostKeeps
  <2>2. Len(events) \in Nat OBVIOUS
  <2>3. i \in 1..Len(events') /\ events'[i] = events[i] BY <2>1, <2>2
  <2>. QED BY <2>3 DEF Announced
<1>3. CASE events # <<>> /\ events' = Tail(events)
             /\ Head(events).kind \notin {"begun", "finished"}
  <2>1. /\ Len(events') = Len(events) - 1 /\ Len(events) \in Nat \ {0}
        /\ \A k \in 1..Len(events') : events'[k] = events[k + 1]
        /\ Head(events) = events[1]
      BY <1>3, TailMoves
  <2>2. i # 1 BY <1>3, <2>1
  <2>3. i - 1 \in 1..Len(events') BY <2>1, <2>2
  <2>4. events'[i - 1] = events[i] BY <2>1, <2>3
  <2>. QED BY <2>3, <2>4 DEF Announced
<1>. QED BY <1>1, <1>2, <1>3

\* A step that leaves the thread and the buttons alone leaves what they show right.
LEMMA AgreeKept ==
    ASSUME Agree \/ Moving, UNCHANGED <<worker, current, selected, sendEnabled, cancelEnabled>>
    PROVE  Agree' \/ Moving'
<1>1. Moving => Moving' BY DEF Moving
<1>2. Agree => Agree' BY Zenon DEF Agree, Busy, Running
<1>. QED BY <1>1, <1>2

\* UpdateButtons makes the buttons right.
LEMMA UpdateAgrees ==
    ASSUME UpdateButtons, UNCHANGED <<worker, current, selected>>
    PROVE  Agree'
    BY Zenon DEF UpdateButtons, Agree, Busy, Running

\* The buttons are right or will be told.
LEMMA ButtonsStep ==
    ASSUME TypeOK, ButtonsInv, [Next]_vars
    PROVE  ButtonsInv'
<1>0. events \in Seq(Events) BY DEF TypeOK
<1>1. CASE \E w \in Workers : WorkerStep(w)
  <2>1. PICK w \in Workers : WorkerStep(w) BY <1>1
  <2>2. /\ UNCHANGED <<gui, current, selected, sendEnabled, cancelEnabled>>
        /\ \A v \in Workers \ {w} : worker'[v] = worker[v]
      BY <2>1, WorkerEffect DEF WorkerStep, Begin, PreparationFails, TakeSlot, TransferEnds,
         GiveSlotBack, Return, LeaveLoop, Finish, Moves, window, buttons
  <2>3. CASE Begin(w)
    <3>1. Post("begun", w) BY <2>3 DEF Begin
    <3>2. /\ events'[Len(events')] = [kind |-> "begun", job |-> w]
          /\ Len(events') = Len(events) + 1
        BY <1>0, <3>1, PostKeeps
    <3>3. Len(events') \in 1..Len(events') BY <1>0, <3>2
    <3>. QED BY <3>2, <3>3 DEF ButtonsInv, Announced
  <2>4. CASE Finish(w)
    <3>1. Post("finished", w) BY <2>4 DEF Finish
    <3>2. /\ events'[Len(events')] = [kind |-> "finished", job |-> w]
          /\ Len(events') = Len(events) + 1
        BY <1>0, <3>1, PostKeeps
    <3>3. Len(events') \in 1..Len(events') BY <1>0, <3>2
    <3>. QED BY <3>2, <3>3 DEF ButtonsInv, Announced
  <2>5. CASE LeaveLoop(w)
      BY <2>5 DEF LeaveLoop, Moves, TypeOK, ButtonsInv, Moving
  <2>6. CASE ~Begin(w) /\ ~Finish(w) /\ ~LeaveLoop(w)
    <3>1. /\ Running(w) /\ Running(w)'
          /\ worker[w] \notin {"starting", "finishing"}
        BY <2>1, <2>6 DEF WorkerStep, PreparationFails, TakeSlot, TransferEnds, GiveSlotBack,
           Return, Moves, TypeOK, Running
    <3>2. Moving => Moving' BY <2>2, <3>1 DEF Moving
    <3>3. Busy <=> Busy'
      <4>1. current # 0 => current \in Workers BY WindowAssumption DEF TypeOK, Workers
      <4>2. \A v \in Workers : Running(v) <=> Running(v)' BY <2>2, <3>1 DEF Running
      <4>. QED BY <2>2, <4>1, <4>2 DEF Busy
    <3>4. Agree => Agree' BY <2>2, <3>3, Zenon DEF Agree
    <3>5. events' = events \/ \E kind, j : Post(kind, j)
        BY <2>1, <2>6 DEF WorkerStep, PreparationFails, TakeSlot, TransferEnds, GiveSlotBack,
           Return
    <3>6. Announced => Announced' BY <1>0, <3>5, AnnouncedStays
    <3>. QED BY <3>2, <3>4, <3>6 DEF ButtonsInv
  <2>. QED BY <2>3, <2>4, <2>5, <2>6
<1>2. CASE HandleEvent
  <2>1. CASE OnWorkerStarted \/ OnTransferStarted \/ OnTransferEnded
    <3>1. UpdateButtons /\ UNCHANGED <<worker, current, selected>>
        BY <2>1, Zenon DEF OnWorkerStarted, OnTransferStarted, OnTransferEnded, Handles, jobs
    <3>. QED BY <3>1, UpdateAgrees DEF ButtonsInv
  <2>2. CASE CleanupTransferWorker
    <3>1. /\ current' = 0 /\ selected' = selected
          /\ sendEnabled' = selected /\ cancelEnabled' = FALSE
        BY <2>2, Zenon DEF CleanupTransferWorker, Handles
    <3>2. ~Busy' BY <3>1 DEF Busy
    <3>3. selected' \in BOOLEAN BY <3>1, Zenon DEF TypeOK
    <3>4. sendEnabled' = (selected' /\ ~Busy')
      <4>1. CASE selected' = TRUE BY <3>1, <3>2, <4>1, Zenon
      <4>2. CASE selected' = FALSE BY <3>1, <3>2, <4>2, Zenon
      <4>. QED BY <3>3, <4>1, <4>2
    <3>5. cancelEnabled' = Busy' BY <3>1, <3>2, Zenon DEF Busy
    <3>. QED BY <3>4, <3>5, Zenon DEF ButtonsInv, Agree
  <2>3. CASE OnTransferProgress \/ OnThreadQuit \/ Destroy
    <3>1. /\ UNCHANGED <<worker, current, selected, sendEnabled, cancelEnabled>>
          /\ events # <<>> /\ events' = Tail(events)
          /\ Head(events).kind \notin {"begun", "finished"}
        BY <2>3 DEF OnTransferProgress, OnThreadQuit, Destroy, Handles, jobs, buttons
    <3>. QED BY <1>0, <3>1, AgreeKept, AnnouncedStays DEF ButtonsInv
  <2>. QED BY <1>2, <2>1, <2>2, <2>3 DEF HandleEvent
<1>3. CASE SelectPeer
  <2>1. /\ UNCHANGED <<worker, current>> /\ selected' = TRUE
        /\ sendEnabled' = ~Busy /\ cancelEnabled' = Busy
      BY <1>3, Zenon DEF SelectPeer, jobs
  <2>2. Busy' <=> Busy BY <2>1 DEF Busy, Running
  <2>. QED BY <2>1, <2>2, Zenon DEF ButtonsInv, Agree, Busy, Running
<1>4. CASE PeersUpdated
  <2>1. UpdateButtons /\ UNCHANGED <<worker, current, selected>>
      BY <1>4, Zenon DEF PeersUpdated, jobs
  <2>. QED BY <2>1, UpdateAgrees DEF ButtonsInv
<1>5. CASE \E w \in Workers : StartTransferWorker(w)
    BY <1>5 DEF StartTransferWorker, Launch, TypeOK, ButtonsInv, Moving
<1>6. ASSUME /\ UNCHANGED <<worker, current, selected, sendEnabled, cancelEnabled>>
             /\ events' = events \/ \E kind, j : Post(kind, j)
      PROVE  ButtonsInv'
    BY <1>0, <1>6, AgreeKept, AnnouncedStays DEF ButtonsInv
<1>7. CASE ChooseAndSend \/ ChooserCloses \/ AskCancel \/ AnswerNo \/ AnswerYes \/ Close
             \/ CancelReturns \/ WaitReturns
    BY <1>6, <1>7, Zenon DEF ChooseAndSend, ChooserCloses, AskCancel, AnswerNo, AnswerYes, Close,
       CancelReturns, WaitReturns, jobs, buttons
<1>8. CASE (\E j \in Jobs : Progress(j)) \/ IncomingStarts \/ IncomingEnds \/ IncomingBreaks
    BY <1>6, <1>8, Zenon DEF Progress, IncomingStarts, IncomingEnds, IncomingBreaks, window,
       buttons
<1>9. CASE UNCHANGED vars BY <1>6, <1>9, Zenon DEF vars, window, buttons, jobs
<1>. QED BY <1>1, <1>2, <1>3, <1>4, <1>5, <1>7, <1>8, <1>9, Zenon DEF Next, UserStep

\* Once every event is handled the buttons tell the truth.
THEOREM ButtonsAreRight == Spec => []ButtonsTellTruth
<1>1. Init => ButtonsInv
  <2>1. Init => Agree BY Zenon DEF Init, Agree, Busy
  <2>. QED BY <2>1 DEF ButtonsInv
<1>2. TypeOK /\ ButtonsInv /\ [Next]_vars => ButtonsInv' BY ButtonsStep
<1>3. ButtonsInv => ButtonsTellTruth
  <2>1. events = <<>> => ~Announced BY DEF Announced
  <2>. QED BY <2>1, Zenon DEF ButtonsInv, Moving, Agree, ButtonsTellTruth
<1>. QED BY <1>1, <1>2, <1>3, WindowTypes, PTL DEF Spec
-----------------------------------------------------------------------------
(* The panel: for each job, what the queue still holds.                    *)

Fresh(j) == IF j = Incoming THEN incoming = "none"
            ELSE worker[j] \in {"none", "starting", "preparing"}
ReportAt(i, j) == events[i].kind \in {"started", "progress"} /\ events[i].job = j
EndAfter(i, j) == \E k \in 1..Len(events) :
                      k > i /\ events[k].kind = "ended" /\ events[k].job = j
Shows(j) == panel.status = "RUNNING" /\ panel.job = j

\* The end of a transfer that is over follows its reports in the queue and is to
\* come when the panel shows it as running; nothing is said of one not started.
PanelFor(j) ==
    /\ IsFinal(j) => /\ \A i \in 1..Len(events) : ReportAt(i, j) => EndAfter(i, j)
                     /\ Shows(j) => EndAfter(0, j)
    /\ Fresh(j) => /\ \A i \in 1..Len(events) : ~ReportAt(i, j)
                   /\ ~Shows(j)
PanelInv == \A j \in Jobs : PanelFor(j)
PanelNames == panel.status = "RUNNING" => panel.job \in Jobs

\* Nothing is said of a job, and nothing becomes of it.
LEMMA PanelUntouched ==
    ASSUME events \in Seq(Events), NEW j \in Jobs, PanelFor(j), panel' = panel,
           IsFinal(j)' => IsFinal(j), Fresh(j)' => Fresh(j),
           \/ events' = events
           \/ \E kind, i : Post(kind, i) /\ (i # j \/ kind \notin {"started", "progress"})
    PROVE  PanelFor(j)'
<1>1. CASE events' = events BY <1>1 DEF PanelFor, ReportAt, EndAfter, Shows
<1>2. ASSUME NEW kind, NEW i, Post(kind, i), i # j \/ kind \notin {"started", "progress"}
      PROVE  PanelFor(j)'
  <2>1. /\ Len(events') = Len(events) + 1 /\ Len(events) \in Nat
        /\ \A k \in 1..Len(events) : events'[k] = events[k]
        /\ events'[Len(events')] = [kind |-> kind, job |-> i]
      BY <1>2, PostKeeps
  <2>2. \A k \in 1..Len(events') : ReportAt(k, j)' => k \in 1..Len(events) /\ ReportAt(k, j)
      BY <1>2, <2>1 DEF ReportAt
  <2>3. \A k : EndAfter(k, j) => EndAfter(k, j)' BY <2>1 DEF EndAfter
  <2>. QED BY <2>2, <2>3 DEF PanelFor, Shows
<1>. QED BY <1>1, <1>2

\* The end of a job is posted.
LEMMA PanelEnds ==
    ASSUME events \in Seq(Events), NEW j \in Jobs, Post("ended", j), ~Fresh(j)'
    PROVE  PanelFor(j)'
<1>1. /\ Len(events') = Len(events) + 1 /\ Len(events) \in Nat
      /\ events'[Len(events')] = [kind |-> "ended", job |-> j]
    BY PostKeeps
<1>2. \A k \in 0..Len(events) : EndAfter(k, j)' BY <1>1 DEF EndAfter
<1>3. \A i \in 1..Len(events') : ReportAt(i, j)' => i \in 0..Len(events)
    BY <1>1 DEF ReportAt
<1>. QED BY <1>1, <1>2, <1>3 DEF PanelFor

\* An event is handled: the panel shows what it says.
LEMMA PanelHandles ==
    ASSUME TypeOK, NEW j \in Jobs, PanelFor(j), HandleEvent
    PROVE  PanelFor(j)'
<1>1. /\ events # <<>> /\ events' = Tail(events) /\ UNCHANGED <<worker, incoming>>
    BY Zenon DEF HandleEvent, Handles, OnWorkerStarted, OnTransferStarted,
       OnTransferProgress, OnTransferEnded, OnThreadQuit, CleanupTransferWorker, Destroy, jobs
<1>2. /\ Len(events') = Len(events) - 1 /\ Len(events) \in Nat \ {0}
      /\ \A i \in 1..Len(events') : events'[i] = events[i + 1]
      /\ Head(events) = events[1]
    BY <1>1, TailMoves DEF TypeOK
<1>3. (IsFinal(j)' <=> IsFinal(j)) /\ (Fresh(j)' <=> Fresh(j)) BY <1>1 DEF IsFinal, Fresh
<1>4. \A i \in 1..Len(events') : ReportAt(i, j)' => ReportAt(i + 1, j) /\ i + 1 \in 1..Len(events)
    BY <1>2 DEF ReportAt
<1>5. ASSUME NEW i \in Nat, EndAfter(i + 1, j) PROVE EndAfter(i, j)'
  <2>1. PICK k \in 1..Len(events) : k > i + 1 /\ events[k].kind = "ended" /\ events[k].job = j
      BY <1>5 DEF EndAfter
  <2>2. k - 1 \in 1..Len(events') /\ k - 1 > i /\ events'[k - 1] = events[k]
      BY <1>2, <2>1
  <2>. QED BY <2>1, <2>2 DEF EndAfter
<1>6. IsFinal(j) => \A i \in 1..Len(events') : ReportAt(i, j)' => EndAfter(i, j)'
    BY <1>4, <1>5 DEF PanelFor
<1>7. Fresh(j) => \A i \in 1..Len(events') : ~ReportAt(i, j)'
    BY <1>4 DEF PanelFor
<1>8. ASSUME Shows(j)' PROVE ~Fresh(j) /\ (IsFinal(j) => EndAfter(0, j)')
  <2>1. CASE OnTransferStarted
    <3>1. Head(events).job = j /\ Head(events).kind = "started" /\ ~IsFinal(j)
        BY <1>8, <2>1 DEF OnTransferStarted, Handles, Shows
    <3>. QED BY <1>2, <3>1 DEF PanelFor, ReportAt
  <2>2. CASE OnTransferProgress
    <3>1. Head(events).job = j /\ Head(events).kind = "progress"
        BY <1>8, <2>2 DEF OnTransferProgress, Handles, Shows
    <3>2. 1 \in 1..Len(events) /\ ReportAt(1, j) BY <1>2, <3>1 DEF ReportAt
    <3>3. ~Fresh(j) /\ (IsFinal(j) => EndAfter(0 + 1, j)) BY <3>2 DEF PanelFor
    <3>. QED BY <1>5, <3>3
  <2>3. CASE OnTransferEnded BY <1>8, <2>3 DEF OnTransferEnded, Handles, Shows
  <2>4. CASE OnWorkerStarted \/ OnThreadQuit \/ CleanupTransferWorker \/ Destroy
    <3>1. panel' = panel /\ Head(events).kind # "ended"
        BY <2>4 DEF OnWorkerStarted, OnThreadQuit, CleanupTransferWorker, Destroy, Handles
    <3>2. ~Fresh(j) /\ (IsFinal(j) => EndAfter(0, j)) BY <1>8, <3>1 DEF PanelFor, Shows
    <3>3. EndAfter(0, j) => EndAfter(1, j) BY <1>2, <3>1 DEF EndAfter
    <3>. QED BY <1>5, <3>2, <3>3
  <2>. QED BY <2>1, <2>2, <2>3, <2>4 DEF HandleEvent
<1>. QED BY <1>3, <1>6, <1>7, <1>8 DEF PanelFor

\* Whatever is done, the panel is right or will be told.
LEMMA PanelStep ==
    ASSUME TypeOK, PanelInv, [Next]_vars
    PROVE  PanelInv'
<1>. SUFFICES ASSUME NEW j \in Jobs PROVE PanelFor(j)' BY DEF PanelInv, Jobs, Workers, Incoming
<1>0. PanelFor(j) /\ events \in Seq(Events) BY DEF PanelInv, TypeOK
<1>. USE DEF Jobs, Workers, Incoming
<1>1. CASE \E w \in Workers : WorkerStep(w)
  <2>1. PICK w \in Workers : WorkerStep(w) BY <1>1
  <2>0. panel' = panel /\ incoming' = incoming
      BY <2>1, Zenon DEF WorkerStep, Begin, PreparationFails, TakeSlot, TransferEnds,
         GiveSlotBack, Return, LeaveLoop, Finish, Moves, window
  <2>2. /\ panel' = panel /\ incoming' = incoming /\ w # Incoming
        /\ \A v \in Workers \ {w} : worker'[v] = worker[v]
      BY <2>0, <2>1, WindowAssumption, WorkerEffect
  <2>3. events' = events \/ \E kind : Post(kind, w)
      BY <2>1 DEF WorkerStep, Begin, PreparationFails, TakeSlot, TransferEnds, GiveSlotBack,
         Return, LeaveLoop, Finish
  <2>4. CASE j # w
    <3>1. (IsFinal(j)' => IsFinal(j)) /\ (Fresh(j)' => Fresh(j)) BY <2>2, <2>4 DEF IsFinal, Fresh
    <3>. QED BY <1>0, <2>2, <2>3, <2>4, <3>1, PanelUntouched
  <2>5. CASE j = w /\ PreparationFails(w)
    <3>1. Fresh(j) /\ ~Fresh(j)' /\ events' = events
        BY <2>2, <2>5 DEF PreparationFails, Moves, Fresh, TypeOK
    <3>. QED BY <1>0, <2>2, <3>1 DEF PanelFor, ReportAt, Shows
  <2>6. CASE j = w /\ TakeSlot(w)
    <3>1. ~IsFinal(j)' /\ ~Fresh(j)' BY <2>2, <2>6 DEF TakeSlot, Moves, IsFinal, Fresh, TypeOK
    <3>. QED BY <3>1 DEF PanelFor
  <2>7. CASE j = w /\ TransferEnds(w)
    <3>1. Post("ended", j) /\ ~Fresh(j)'
        BY <2>2, <2>7 DEF TransferEnds, Moves, Fresh, TypeOK
    <3>. QED BY <1>0, <3>1, PanelEnds
  <2>8. CASE j = w /\ ~PreparationFails(w) /\ ~TakeSlot(w) /\ ~TransferEnds(w)
    <3>1. (IsFinal(j)' => IsFinal(j)) /\ (Fresh(j)' => Fresh(j))
        BY <2>1, <2>2, <2>8 DEF WorkerStep, Begin, GiveSlotBack, Return, LeaveLoop, Finish,
           Moves, IsFinal, Fresh, TypeOK
    <3>2. events' = events \/ \E kind \in {"begun", "quit", "finished"} : Post(kind, w)
        BY <2>1, <2>8 DEF WorkerStep, Begin, GiveSlotBack, Return, LeaveLoop, Finish
    <3>. QED BY <1>0, <2>2, <3>1, <3>2, PanelUntouched
  <2>. QED BY <2>4, <2>5, <2>6, <2>7, <2>8
<1>2. CASE HandleEvent BY <1>0, <1>2, PanelHandles
<1>3. CASE \E w \in Workers : StartTransferWorker(w)
  <2>1. PICK w \in Workers : StartTransferWorker(w) BY <1>3
  <2>2. /\ panel' = panel /\ incoming' = incoming /\ events' = events
        /\ worker[w] = "none" /\ worker' = [worker EXCEPT ![w] = "starting"]
      BY <2>1 DEF StartTransferWorker, Launch
  <2>3. (IsFinal(j)' => IsFinal(j)) /\ (Fresh(j)' => Fresh(j)) BY <2>2 DEF IsFinal, Fresh, TypeOK
  <2>. QED BY <1>0, <2>2, <2>3, PanelUntouched
<1>4. CASE \E i \in Jobs : Progress(i)
  <2>1. PICK i \in Jobs : Progress(i) BY <1>4
  <2>2. UNCHANGED <<panel, worker, incoming>> /\ Post("progress", i)
      BY <2>1 DEF Progress, window
  <2>3. (IsFinal(j)' => IsFinal(j)) /\ (Fresh(j)' => Fresh(j)) BY <2>2 DEF IsFinal, Fresh
  <2>4. CASE i # j BY <1>0, <2>2, <2>3, <2>4, PanelUntouched
  <2>5. CASE i = j
    <3>1. ~IsFinal(j)' /\ ~Fresh(j)' BY <2>1, <2>2, <2>5 DEF Progress, IsFinal, Fresh
    <3>. QED BY <3>1 DEF PanelFor
  <2>. QED BY <2>4, <2>5
<1>5. CASE IncomingStarts \/ IncomingEnds \/ IncomingBreaks
  <2>1. /\ UNCHANGED <<panel, worker>>
        /\ UNCHANGED events \/ Post("started", Incoming) \/ Post("ended", Incoming)
      BY <1>5 DEF IncomingStarts, IncomingEnds, IncomingBreaks, window
  <2>2. CASE j # Incoming
    <3>1. (IsFinal(j)' => IsFinal(j)) /\ (Fresh(j)' => Fresh(j)) BY <2>1, <2>2 DEF IsFinal, Fresh
    <3>. QED BY <1>0, <2>1, <2>2, <3>1, PanelUntouched
  <2>3. CASE j = Incoming /\ IncomingStarts
    <3>1. ~IsFinal(j)' /\ ~Fresh(j)' BY <2>3 DEF IncomingStarts, IsFinal, Fresh
    <3>. QED BY <3>1 DEF PanelFor
  <2>4. CASE j = Incoming /\ IncomingEnds
    <3>1. Post("ended", j) /\ ~Fresh(j)' BY <2>4 DEF IncomingEnds, Fresh
    <3>. QED BY <1>0, <3>1, PanelEnds
  <2>5. CASE j = Incoming /\ IncomingBreaks
    <3>1. ~IsFinal(j)' /\ ~Fresh(j)' BY <2>5 DEF IncomingBreaks, IsFinal, Fresh
    <3>. QED BY <3>1 DEF PanelFor
  <2>. QED BY <1>5, <2>2, <2>3, <2>4, <2>5
<1>6. ASSUME UNCHANGED <<panel, worker, incoming>>,
             events' = events \/ Post("exit", 0)
      PROVE  PanelFor(j)'
  <2>1. (IsFinal(j)' => IsFinal(j)) /\ (Fresh(j)' => Fresh(j)) BY <1>6 DEF IsFinal, Fresh
  <2>. QED BY <1>0, <1>6, <2>1, PanelUntouched
<1>7. CASE UserStep /\ ~\E w \in Workers : StartTransferWorker(w)
  <2>1. UNCHANGED <<panel, worker, incoming>> /\ (events' = events \/ Post("exit", 0))
      BY <1>7, Zenon DEF UserStep, SelectPeer, ChooseAndSend, ChooserCloses, AskCancel,
         AnswerNo, AnswerYes, Close, PeersUpdated, jobs
  <2>. QED BY <1>6, <2>1
<1>8. CASE CancelReturns \/ WaitReturns \/ UNCHANGED vars
  <2>1. UNCHANGED <<panel, worker, incoming>> /\ (events' = events \/ Post("exit", 0))
      BY <1>8, Zenon DEF CancelReturns, WaitReturns, vars, window, jobs
  <2>. QED BY <1>6, <2>1
<1>. QED BY <1>1, <1>2, <1>3, <1>4, <1>5, <1>7, <1>8, Zenon DEF Next

\* The panel names a transfer as soon as it shows one as running.
LEMMA NamesStep ==
    ASSUME TypeOK, PanelNames, [Next]_vars
    PROVE  PanelNames'
<1>1. CASE OnTransferStarted \/ OnTransferProgress
  <2>1. Head(events) \in Events /\ Head(events).kind \in {"started", "progress"}
      BY <1>1 DEF OnTransferStarted, OnTransferProgress, Handles, TypeOK
  <2>2. Head(events).job \in Jobs BY <2>1 DEF Events
  <2>3. panel'.job = Head(events).job
      BY <1>1 DEF OnTransferStarted, OnTransferProgress
  <2>. QED BY <2>2, <2>3 DEF PanelNames, Jobs, Workers, Incoming
<1>2. CASE OnTransferEnded BY <1>2 DEF OnTransferEnded, PanelNames
<1>3. CASE panel' = panel BY <1>3 DEF PanelNames, Jobs, Workers, Incoming
<1>4. OnTransferStarted \/ OnTransferProgress \/ OnTransferEnded \/ panel' = panel
  <2>1. CASE HandleEvent
      BY <2>1, Zenon DEF HandleEvent, OnWorkerStarted, OnThreadQuit, CleanupTransferWorker,
         Destroy
  <2>2. CASE UserStep
      BY <2>2, Zenon DEF UserStep, SelectPeer, ChooseAndSend, ChooserCloses, AskCancel,
         AnswerNo, AnswerYes, Close, PeersUpdated, StartTransferWorker, Launch
  <2>3. CASE CancelReturns \/ WaitReturns \/ UNCHANGED vars
      BY <2>3, Zenon DEF CancelReturns, WaitReturns, vars, window
  <2>4. CASE \E w \in Workers : WorkerStep(w)
      BY <2>4, Zenon DEF WorkerStep, Begin, PreparationFails, TakeSlot, TransferEnds,
         GiveSlotBack, Return, LeaveLoop, Finish, Moves, window
  <2>5. CASE (\E j \in Jobs : Progress(j)) \/ IncomingStarts \/ IncomingEnds \/ IncomingBreaks
      BY <2>5, Zenon DEF Progress, IncomingStarts, IncomingEnds, IncomingBreaks, window
  <2>. QED BY <2>1, <2>2, <2>3, <2>4, <2>5, Zenon DEF Next
<1>. QED BY <1>1, <1>2, <1>3, <1>4

\* Once all is handled, the panel shows no transfer as running that is over, save a
\* received one that broke off without a callback.
THEOREM PanelIsRight == Spec => []PanelTellsTruth
<1>1. Init => PanelInv
    BY DEF Init, PanelInv, PanelFor, ReportAt, Shows, IsFinal, Fresh, Jobs, Workers, Incoming
<1>2. Init => PanelNames BY DEF Init, PanelNames
<1>3. TypeOK /\ PanelInv /\ [Next]_vars => PanelInv' BY PanelStep
<1>4. TypeOK /\ PanelNames /\ [Next]_vars => PanelNames' BY NamesStep
<1>5. PanelInv /\ PanelNames => PanelTellsTruth
    BY DEF PanelInv, PanelNames, PanelFor, Shows, EndAfter, Over, PanelTellsTruth
<1>. QED BY <1>1, <1>2, <1>3, <1>4, <1>5, WindowTypes, PTL DEF Spec
-----------------------------------------------------------------------------
(* The crashes: what the window may still delete while a thread runs.      *)

\* What an event says of the one who posted it: a finished signal comes from a
\* thread that is over, the end of the program from a window that has left.
Says(e) == /\ e.kind = "finished" => worker[e.job] = "finished"
           /\ e.kind = "exit" => gui \in {"leaving", "closed", "crashed"}
EventsTrue == \A i \in 1..Len(events) : Says(events[i])

\* The window leaves only after its thread has been told to quit.
ToldToQuit == gui \in {"waiting", "leaving"} /\ Busy => current \in quitting

\* What an event says in the next state.
WillSay(e) == /\ e.kind = "finished" => worker'[e.job] = "finished"
              /\ e.kind = "exit" => gui' \in {"leaving", "closed", "crashed"}

\* What was said stays true, and so is what is posted now.
LEMMA SaysKept ==
    ASSUME TypeOK, EventsTrue, \A e \in Events : Says(e) => WillSay(e),
           \/ events' = events
           \/ \E kind, j : Post(kind, j) /\ WillSay([kind |-> kind, job |-> j])
           \/ events # <<>> /\ events' = Tail(events)
    PROVE  EventsTrue'
<1>. events \in Seq(Events) BY DEF TypeOK
<1>0. \A i \in 1..Len(events) : WillSay(events[i]) BY DEF EventsTrue
<1>1. SUFFICES \A i \in 1..Len(events') : WillSay(events'[i]) BY DEF EventsTrue, Says, WillSay
<1>2. CASE events' = events BY <1>0, <1>2
<1>3. ASSUME NEW kind, NEW j, Post(kind, j), WillSay([kind |-> kind, job |-> j])
      PROVE  \A i \in 1..Len(events') : WillSay(events'[i])
  <2>1. /\ Len(events') = Len(events) + 1 /\ Len(events) \in Nat
        /\ \A i \in 1..Len(events) : events'[i] = events[i]
        /\ events'[Len(events')] = [kind |-> kind, job |-> j]
      BY <1>3, PostKeeps
  <2>2. \A i \in 1..Len(events') : i \in 1..Len(events) \/ i = Len(events') BY <2>1
  <2>. QED BY <1>0, <1>3, <2>1, <2>2
<1>4. CASE events # <<>> /\ events' = Tail(events)
  <2>1. /\ Len(events') = Len(events) - 1 /\ Len(events) \in Nat \ {0}
        /\ \A i \in 1..Len(events') : events'[i] = events[i + 1]
      BY <1>4, TailMoves
  <2>2. \A i \in 1..Len(events') : i + 1 \in 1..Len(events) BY <2>1
  <2>. QED BY <1>0, <2>1, <2>2
<1>. QED BY <1>2, <1>3, <1>4

\* Every step tells the truth, and leaves true what was told.
LEMMA SaysStep ==
    ASSUME TypeOK, EventsTrue, [Next]_vars
    PROVE  EventsTrue'
<1>0. ASSUME \A v \in Workers : worker[v] = "finished" => worker'[v] = "finished",
             gui \in {"leaving", "closed", "crashed"} => gui' \in {"leaving", "closed", "crashed"}
      PROVE  \A e \in Events : Says(e) => WillSay(e)
    BY <1>0 DEF Says, WillSay, Events
<1>1. ASSUME NEW w \in Workers, WorkerStep(w) PROVE EventsTrue'
  <2>1. \A v \in Workers : worker[v] = "finished" => worker'[v] = "finished"
    <3>1. worker[w] # "finished"
        BY <1>1 DEF WorkerStep, Begin, PreparationFails, TakeSlot, TransferEnds, GiveSlotBack,
           Return, LeaveLoop, Finish, Moves
    <3>. QED BY <1>1, <3>1, WorkerEffect
  <2>2. \A e \in Events : Says(e) => WillSay(e) BY <1>0, <1>1, <2>1, WorkerEffect
  <2>3. CASE Finish(w)
    <3>1. Post("finished", w) /\ worker'[w] = "finished"
        BY <2>3 DEF Finish, Moves, TypeOK
    <3>2. WillSay([kind |-> "finished", job |-> w]) BY <3>1 DEF WillSay
    <3>. QED BY <2>2, <3>1, <3>2, SaysKept
  <2>4. CASE ~Finish(w)
    <3>1. UNCHANGED events \/ \E kind \in {"begun", "started", "ended", "quit"} : Post(kind, w)
        BY <1>1, <2>4 DEF WorkerStep, Begin, PreparationFails, TakeSlot, TransferEnds,
           GiveSlotBack, Return, LeaveLoop
    <3>2. \A kind \in {"begun", "started", "ended", "quit"} : WillSay([kind |-> kind, job |-> w])
        BY DEF WillSay
    <3>. QED BY <2>2, <3>1, <3>2, SaysKept
  <2>. QED BY <2>3, <2>4
<1>2. CASE HandleEvent
  <2>1. events # <<>> /\ events' = Tail(events) /\ UNCHANGED worker
      BY <1>2, Zenon DEF HandleEvent, Handles, OnWorkerStarted, OnTransferStarted,
         OnTransferProgress, OnTransferEnded, OnThreadQuit, CleanupTransferWorker, Destroy, jobs
  <2>2. gui' = gui \/ gui' \in {"closed", "crashed"}
      BY <1>2 DEF HandleEvent, OnWorkerStarted, OnTransferStarted, OnTransferProgress,
         OnTransferEnded, OnThreadQuit, CleanupTransferWorker, Destroy
  <2>. QED BY <1>0, <2>1, <2>2, SaysKept
<1>3. ASSUME NEW w \in Workers, StartTransferWorker(w) PROVE EventsTrue'
  <2>1. /\ UNCHANGED events /\ gui = "choosing"
        /\ \A v \in Workers : worker[v] = "finished" => worker'[v] = "finished"
      BY <1>3 DEF StartTransferWorker, Launch, TypeOK
  <2>. QED BY <1>0, <2>1, SaysKept
<1>4. ASSUME UNCHANGED worker,
             gui \in {"leaving", "closed", "crashed"} => gui' \in {"leaving", "closed", "crashed"},
             \/ events' = events
             \/ \E kind \in {"progress", "started", "ended"} : \E j : Post(kind, j)
             \/ Post("exit", 0) /\ gui' = "leaving"
      PROVE  EventsTrue'
  <2>1. \A e \in Events : Says(e) => WillSay(e) BY <1>0, <1>4
  <2>2. \A kind \in {"progress", "started", "ended"} : \A j : WillSay([kind |-> kind, job |-> j])
      BY DEF WillSay
  <2>3. gui' = "leaving" => WillSay([kind |-> "exit", job |-> 0]) BY DEF WillSay
  <2>. QED BY <1>4, <2>1, <2>2, <2>3, SaysKept
<1>5. CASE UserStep /\ ~\E w \in Workers : StartTransferWorker(w)
  <2>1. /\ UNCHANGED worker /\ gui \notin {"leaving", "closed", "crashed"}
        /\ events' = events \/ (Post("exit", 0) /\ gui' = "leaving")
      BY <1>5 DEF UserStep, SelectPeer, ChooseAndSend, ChooserCloses, AskCancel,
         AnswerNo, AnswerYes, Close, PeersUpdated, jobs
  <2>. QED BY <1>4, <2>1
<1>6. CASE CancelReturns \/ WaitReturns
  <2>1. /\ UNCHANGED worker /\ gui \notin {"leaving", "closed", "crashed"}
        /\ events' = events \/ (Post("exit", 0) /\ gui' = "leaving")
      BY <1>6 DEF CancelReturns, WaitReturns, jobs
  <2>. QED BY <1>4, <2>1
<1>7. CASE \/ \E j \in Jobs : Progress(j)
           \/ IncomingStarts \/ IncomingEnds \/ IncomingBreaks \/ UNCHANGED vars
  <2>1. /\ UNCHANGED <<worker, gui>>
        /\ events' = events \/ \E kind \in {"progress", "started", "ended"} : \E j : Post(kind, j)
      BY <1>7 DEF Progress, IncomingStarts, IncomingEnds, IncomingBreaks, window, vars, jobs
  <2>. QED BY <1>4, <2>1
<1>. QED BY <1>1, <1>2, <1>3, <1>5, <1>6, <1>7, Zenon DEF Next

\* A window that is to leave has told its thread to quit, or has none that runs.
LEMMA QuitStep ==
    ASSUME TypeOK, ToldToQuit, [Next]_vars
    PROVE  ToldToQuit'
<1>1. ASSUME NEW w \in Workers, WorkerStep(w) PROVE ToldToQuit'
  <2>1. UNCHANGED <<gui, current, quitting>>
      BY <1>1 DEF WorkerStep, Begin, PreparationFails, TakeSlot, TransferEnds, GiveSlotBack,
         Return, LeaveLoop, Finish, Moves, window
  <2>2. Busy' => Busy
    <3>1. \A v \in Workers : Running(v)' => Running(v) BY <1>1, WorkerEffect DEF Running
    <3>. QED BY <2>1, <3>1 DEF Busy, Running, TypeOK, Workers
  <2>. QED BY <2>1, <2>2 DEF ToldToQuit
<1>2. CASE Close
  <2>1. Busy' = Busy BY <1>2 DEF Close, Busy, Running, jobs
  <2>. QED BY <1>2, <2>1 DEF Close, ToldToQuit
<1>3. CASE WaitReturns
  <2>1. Busy' = Busy BY <1>3 DEF WaitReturns, Busy, Running, jobs
  <2>. QED BY <1>3, <2>1 DEF WaitReturns, ToldToQuit
<1>4. CASE CleanupTransferWorker
    BY <1>4 DEF CleanupTransferWorker, ToldToQuit, Busy
<1>5. ASSUME gui' \notin {"waiting", "leaving"} PROVE ToldToQuit'
    BY <1>5 DEF ToldToQuit
<1>6. ASSUME UNCHANGED <<gui, current, worker>>, quitting \subseteq quitting' PROVE ToldToQuit'
  <2>1. Busy' = Busy BY <1>6 DEF Busy, Running
  <2>. QED BY <1>6, <2>1 DEF ToldToQuit
<1>7. CASE UserStep /\ ~Close
  <2>1. gui' \notin {"waiting", "leaving"}
      BY <1>7 DEF UserStep, SelectPeer, ChooseAndSend, ChooserCloses, AskCancel, AnswerNo,
         AnswerYes, PeersUpdated, StartTransferWorker, Launch
  <2>. QED BY <1>5, <2>1
<1>8. CASE HandleEvent /\ ~CleanupTransferWorker
  <2>1. CASE Destroy BY <1>5, <2>1 DEF Destroy
  <2>2. CASE ~Destroy
    <3>1. UNCHANGED <<gui, current, worker>> /\ quitting \subseteq quitting'
        BY <1>8, <2>2 DEF HandleEvent, Handles, OnWorkerStarted, OnTransferStarted,
           OnTransferProgress, OnTransferEnded, OnThreadQuit, jobs
    <3>. QED BY <1>6, <3>1
  <2>. QED BY <2>1, <2>2
<1>9. CASE CancelReturns BY <1>5, <1>9 DEF CancelReturns
<1>10. CASE \/ \E j \in Jobs : Progress(j)
            \/ IncomingStarts \/ IncomingEnds \/ IncomingBreaks \/ UNCHANGED vars
  <2>1. UNCHANGED <<gui, current, worker, quitting>>
      BY <1>10 DEF Progress, IncomingStarts, IncomingEnds, IncomingBreaks, vars, window, jobs
  <2>. QED BY <1>6, <2>1
<1>. QED BY <1>1, <1>2, <1>3, <1>4, <1>7, <1>8, <1>9, <1>10, Zenon DEF Next

\* The program crashes only when closeEvent gave up waiting for the thread of the
\* transfer that runs, or when _cleanup_transfer_worker handles the finished
\* signal of an earlier thread while a later one runs.
THEOREM CrashesOnlySo == Spec => CrashesExplained
<1>1. Init => EventsTrue /\ ToldToQuit
    BY DEF Init, EventsTrue, ToldToQuit
<1>2. WindowInv /\ EventsTrue /\ ToldToQuit /\ [Next]_vars => EventsTrue' /\ ToldToQuit'
    BY SaysStep, QuitStep DEF WindowInv
<1>3. WindowInv /\ EventsTrue /\ ToldToQuit /\ [Next]_vars
        => [(gui # "crashed" /\ gui' = "crashed") => CrashCause]_vars
  <2>. SUFFICES ASSUME WindowInv, EventsTrue, ToldToQuit, [Next]_vars,
                       gui # "crashed", gui' = "crashed"
                PROVE  CrashCause
      OBVIOUS
  <2>0. /\ TypeOK /\ OneTransferAtATime BY DEF WindowInv
  <2>1. CASE Destroy
    <3>1. /\ gui \in {"loop", "choosing", "asking", "leaving"} /\ events # <<>>
          /\ Head(events).kind = "exit" /\ \E w \in Workers : Running(w)
        BY <2>1 DEF Destroy, Handles
    <3>a. 1 \in 1..Len(events) /\ events[1] = Head(events) BY <2>0, <3>1 DEF TypeOK
    <3>b. gui = "leaving" BY <3>1, <3>a DEF EventsTrue, Says
    <3>2. Busy BY <2>0, <3>1 DEF OneTransferAtATime, Busy, Workers
    <3>. QED BY <3>1, <3>b, <3>2 DEF CrashCause, ToldToQuit
  <2>2. CASE CleanupTransferWorker
    <3>1. Busy /\ events # <<>> /\ Head(events).kind = "finished"
        BY <2>2 DEF CleanupTransferWorker, Handles
    <3>2. 1 \in 1..Len(events) /\ events[1] = Head(events) BY <2>0, <3>1 DEF TypeOK
    <3>3. worker[Head(events).job] = "finished" BY <3>1, <3>2 DEF EventsTrue, Says
    <3>4. Head(events).job # current BY <3>1, <3>3 DEF Busy, Running
    <3>. QED BY <3>1, <3>3, <3>4 DEF CrashCause
  <2>3. Destroy \/ CleanupTransferWorker
    <3>1. CASE UserStep
        BY <3>1 DEF UserStep, SelectPeer, ChooseAndSend, ChooserCloses, AskCancel, AnswerNo,
           AnswerYes, Close, PeersUpdated, StartTransferWorker, Launch
    <3>2. CASE HandleEvent
        BY <3>2 DEF HandleEvent, OnWorkerStarted, OnTransferStarted, OnTransferProgress,
           OnTransferEnded, OnThreadQuit
    <3>3. CASE (\E w \in Workers : WorkerStep(w)) \/ \E j \in Jobs : Progress(j)
        BY <3>3 DEF WorkerStep, Begin, PreparationFails, TakeSlot, TransferEnds, GiveSlotBack,
           Return, LeaveLoop, Finish, Moves, Progress, window
    <3>4. CASE \/ CancelReturns \/ WaitReturns \/ UNCHANGED vars
               \/ IncomingStarts \/ IncomingEnds \/ IncomingBreaks
        BY <3>4 DEF CancelReturns, WaitReturns, IncomingStarts, IncomingEnds, IncomingBreaks,
           window, vars
    <3>. QED BY <3>1, <3>2, <3>3, <3>4 DEF Next
  <2>. QED BY <2>1, <2>2, <2>3
<1>. QED BY <1>1, <1>2, <1>3, WindowInvariant, PTL DEF Spec, CrashesExplained
=============================================================================
