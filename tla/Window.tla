------------------------------- MODULE Window -------------------------------
(***************************************************************************)
(* The main window and the transfers it launches. The GUI thread runs the  *)
(* user's clicks and, one by one, the events that other threads post to    *)
(* its queue; a dialog runs the same queue in a loop of its own. Every     *)
(* transfer has a worker on a QThread of its own, which the window refers  *)
(* to from the launch until the thread's finished signal is handled. The   *)
(* transfer that runs holds the single active slot of AppManager, through  *)
(* which a cancellation reaches it.                                        *)
(*                                                                         *)
(* What a transfer does inside is module Transfer: here it prepares its    *)
(* manifest, is active, and ends in one way or another. Message boxes only *)
(* delay the thread that shows them and are left out.                      *)
(***************************************************************************)
EXTENDS Naturals, Sequences

CONSTANTS
    MaxTransfers,   \* bound: how many transfers the user launches
    MaxReports      \* bound: how many progress reports are made in all

ASSUME WindowAssumption == MaxTransfers \in Nat /\ MaxReports \in Nat

Workers == 1..MaxTransfers
Incoming == MaxTransfers + 1     \* the job of a transfer received meanwhile
Jobs == Workers \cup {Incoming}

\* Where a worker's thread is: not launched; launched; preparing its manifest;
\* holding the active slot; after its last callback; out of send_transfer; in
\* the thread's event loop; past it, the finished signal not yet posted; over.
Stages == {"none", "starting", "preparing", "active", "ending", "returning",
           "idle", "finishing", "finished"}

\* The GUI thread: in its event loop, in the file dialog, in the question of a
\* cancellation, in cancel_active_transfer, in closeEvent, on its way out.
GuiStates == {"loop", "choosing", "asking", "cancelling", "waiting", "leaving",
              "closed", "crashed"}

\* What is posted to the GUI thread: the signals of a worker and its thread, the
\* callbacks of a transfer, and the end of the program once the window is closed.
Events == [kind : {"begun", "quit", "finished"}, job : Workers]
            \cup [kind : {"started", "progress", "ended"}, job : Jobs]
            \cup [kind : {"exit"}, job : {0}]

VARIABLES
    gui,           \* what the GUI thread is doing
    current,       \* the worker the window refers to, or 0
    selected,      \* whether a row of the peer table is selected
    sendEnabled, cancelEnabled,  \* the buttons
    panel,         \* the job and the status the transfer panel shows
    events,        \* the event queue of the GUI thread
    worker,        \* stage of every worker
    quitting,      \* the workers whose thread was told to quit
    reports,       \* how many progress reports were made
    incoming,      \* "none", "active", "ended", or "broken": over, and nobody told
    slot,          \* _active_outgoing_job_id, 0 for None
    cancelEvent,   \* _active_transfer_cancel_event
    victim,        \* the job cancel_active_transfer is cancelling, or 0
    asked          \* the worker the user was last asked about, if none was launched since

buttons == <<sendEnabled, cancelEnabled>>
window == <<gui, current, selected, buttons, panel, quitting, victim, asked>>
control == <<slot, cancelEvent>>
jobs == <<worker, reports, incoming>>
vars == <<window, events, jobs, control>>

Running(w) == worker[w] \in {"starting", "preparing", "active", "ending", "returning", "idle"}
Busy == current # 0 /\ Running(current)     \* isRunning() of the current thread
Alive == gui \notin {"closed", "crashed"}
\* The status of the job is a final one.
IsFinal(j) == IF j = Incoming THEN incoming = "ended"
              ELSE worker[j] \in {"ending", "returning", "idle", "finishing", "finished"}

Init ==
    /\ gui = "loop" /\ current = 0 /\ selected = FALSE
    /\ sendEnabled = FALSE /\ cancelEnabled = FALSE
    /\ panel = [job |-> 0, status |-> "Idle"]
    /\ events = <<>> /\ quitting = {} /\ victim = 0 /\ asked = 0
    /\ worker = [w \in Workers |-> "none"]
    /\ reports = 0 /\ incoming = "none"
    /\ slot = 0 /\ cancelEvent = FALSE

Post(kind, j) == events' = Append(events, [kind |-> kind, job |-> j])
-----------------------------------------------------------------------------
(* The thread of a worker.                                                 *)

Moves(w, from, to) ==
    /\ Alive /\ worker[w] = from
    /\ worker' = [worker EXCEPT ![w] = to]
    /\ UNCHANGED <<window, incoming>>

\* TransferWorker.run emits started and calls send_transfer.
Begin(w) ==
    /\ Moves(w, "starting", "preparing")
    /\ Post("begun", w) /\ UNCHANGED <<reports, control>>

\* Mutant: an error of the preparation is not caught in run.
PreparationFailsUncaught(w) ==
    /\ Moves(w, "preparing", "idle")
    /\ UNCHANGED <<events, reports, control>>

\* The peer is unknown or the manifest cannot be built: no job was made.
PreparationFails(w) ==
    /\ Moves(w, "preparing", "returning")
    /\ UNCHANGED <<events, reports, control>>

\* The job exists: send_transfer takes the slot, then says that it started.
TakeSlot(w) ==
    /\ Moves(w, "preparing", "active")
    /\ slot' = w /\ cancelEvent' = FALSE
    /\ Post("started", w) /\ UNCHANGED reports

Progress(j) ==
    /\ Alive /\ reports < MaxReports
    /\ IF j = Incoming THEN incoming = "active" ELSE worker[j] = "active"
    /\ reports' = reports + 1
    /\ Post("progress", j) /\ UNCHANGED <<window, worker, incoming, control>>

\* Mutant: a transfer that the user cancelled says nothing when it ends.
TransferEndsSilently(w) ==
    /\ Moves(w, "active", "ending")
    /\ IF cancelEvent THEN UNCHANGED events ELSE Post("ended", w)
    /\ UNCHANGED <<reports, control>>

\* The transfer completed, failed or was cancelled, and its callback was made.
TransferEnds(w) ==
    /\ Moves(w, "active", "ending")
    /\ Post("ended", w) /\ UNCHANGED <<reports, control>>

\* Mutant: the slot is given back, the event is left set.
GiveSlotBackOnly(w) ==
    /\ Moves(w, "ending", "returning")
    /\ slot' = IF slot = w THEN 0 ELSE slot
    /\ UNCHANGED <<cancelEvent, events, reports>>

\* Mutant: the path of a cancellation leaves before the finally block.
GiveSlotBackUnlessCancelled(w) ==
    /\ Moves(w, "ending", "returning")
    /\ IF slot = w /\ ~cancelEvent THEN slot' = 0 ELSE UNCHANGED slot
    /\ UNCHANGED <<cancelEvent, events, reports>>

\* The finally block of send_transfer.
GiveSlotBack(w) ==
    /\ Moves(w, "ending", "returning")
    /\ IF slot = w THEN slot' = 0 /\ cancelEvent' = FALSE ELSE UNCHANGED control
    /\ UNCHANGED <<events, reports>>

\* run emits finished or failed, each connected to the quit slot of the QThread,
\* an object of the GUI thread; then the thread enters its event loop.
Return(w) ==
    /\ Moves(w, "returning", "idle")
    /\ Post("quit", w) /\ UNCHANGED <<reports, control>>

\* The thread leaves its event loop: isRunning is false from here on.
LeaveLoop(w) ==
    /\ w \in quitting
    /\ Moves(w, "idle", "finishing")
    /\ UNCHANGED <<events, reports, control>>

Finish(w) ==
    /\ Moves(w, "finishing", "finished")
    /\ Post("finished", w) /\ UNCHANGED <<reports, control>>

WorkerStep(w) ==
    \/ Begin(w) \/ PreparationFails(w) \/ TakeSlot(w) \/ TransferEnds(w)
    \/ GiveSlotBack(w) \/ Return(w) \/ LeaveLoop(w) \/ Finish(w)

\* A transfer this node receives reports to the same panel.
IncomingStarts ==
    /\ Alive /\ incoming = "none" /\ incoming' = "active"
    /\ Post("started", Incoming) /\ UNCHANGED <<window, worker, reports, control>>
IncomingEnds ==
    /\ Alive /\ incoming = "active" /\ incoming' = "ended"
    /\ Post("ended", Incoming) /\ UNCHANGED <<window, worker, reports, control>>
\* The connection or the disk fails, or a file does not verify: the thread of the
\* client ends without any callback, and the job stays RUNNING.
IncomingBreaks ==
    /\ Alive /\ incoming = "active" /\ incoming' = "broken"
    /\ UNCHANGED <<window, events, worker, reports, control>>
-----------------------------------------------------------------------------
(* The events of the queue, handled by the GUI thread in order.            *)

UpdateButtons ==
    /\ sendEnabled' = (selected /\ ~Busy)
    /\ cancelEnabled' = Busy

Handles(kind) ==
    /\ gui \in {"loop", "choosing", "asking", "leaving"}
    /\ events # <<>> /\ Head(events).kind = kind
    /\ events' = Tail(events)
    /\ UNCHANGED <<selected, victim, asked, jobs, control>>

OnWorkerStarted ==
    /\ Handles("begun") /\ UpdateButtons
    /\ UNCHANGED <<gui, current, panel, quitting>>

OnTransferStarted ==
    /\ Handles("started") /\ UpdateButtons
    /\ LET j == Head(events).job
       IN  panel' = [job |-> j, status |-> IF IsFinal(j) THEN "Final" ELSE "RUNNING"]
    /\ UNCHANGED <<gui, current, quitting>>

OnTransferProgress ==
    /\ Handles("progress")
    /\ panel' = [job |-> Head(events).job, status |-> "RUNNING"]
    /\ UNCHANGED <<gui, current, buttons, quitting>>

OnTransferEnded ==
    /\ Handles("ended") /\ UpdateButtons
    /\ panel' = [job |-> Head(events).job, status |-> "Final"]
    /\ UNCHANGED <<gui, current, quitting>>

OnThreadQuit ==
    /\ Handles("quit")
    /\ quitting' = quitting \cup {Head(events).job}
    /\ UNCHANGED <<gui, current, buttons, panel>>

\* Mutant: the buttons keep what they showed during the transfer.
CleanupKeepsButtons ==
    /\ Handles("finished")
    /\ gui' = IF Busy THEN "crashed" ELSE gui
    /\ current' = 0
    /\ UNCHANGED <<buttons, panel, quitting>>

\* _cleanup_transfer_worker deletes the worker and the thread the window refers
\* to, whichever thread has finished. Qt aborts the program when a thread that
\* runs is deleted; one that is finishing is waited for.
CleanupTransferWorker ==
    /\ Handles("finished")
    /\ gui' = IF Busy THEN "crashed" ELSE gui
    /\ current' = 0
    /\ sendEnabled' = selected /\ cancelEnabled' = FALSE
    /\ UNCHANGED <<panel, quitting>>

\* The event loop of main ends: the window is destroyed with its threads.
Destroy ==
    /\ Handles("exit")
    /\ gui' = IF \E w \in Workers : Running(w) THEN "crashed" ELSE "closed"
    /\ UNCHANGED <<current, buttons, panel, quitting>>

HandleEvent ==
    \/ OnWorkerStarted \/ OnTransferStarted \/ OnTransferProgress \/ OnTransferEnded
    \/ OnThreadQuit \/ CleanupTransferWorker \/ Destroy
-----------------------------------------------------------------------------
(* The user and the timer.                                                 *)

\* The list of the peers is shown again, by the timer, the button or a callback;
\* the selection is restored, as no entry of the table is ever removed.
PeersUpdated ==
    /\ gui \in {"loop", "choosing", "asking"}
    /\ UpdateButtons
    /\ UNCHANGED <<gui, current, selected, panel, quitting, victim, asked, events,
                   jobs, control>>

SelectPeer ==
    /\ gui = "loop" /\ ~selected /\ selected' = TRUE
    /\ sendEnabled' = ~Busy /\ cancelEnabled' = Busy
    /\ UNCHANGED <<gui, current, panel, quitting, victim, asked, events, jobs, control>>

\* The file dialog, modal, with an event loop of its own.
ChooseAndSend ==
    /\ gui = "loop" /\ sendEnabled /\ gui' = "choosing"
    /\ UNCHANGED <<current, selected, buttons, panel, quitting, victim, asked, events,
                   jobs, control>>

\* Nothing was chosen, or a transfer runs by now and the user is warned.
ChooserCloses ==
    /\ gui = "choosing" /\ gui' = "loop"
    /\ UNCHANGED <<current, selected, buttons, panel, quitting, victim, asked, events,
                   jobs, control>>

\* Launch the next worker: the buttons are updated before the thread starts.
Launch(w) ==
    /\ gui = "choosing" /\ gui' = "loop"
    /\ worker[w] = "none" /\ \A v \in 1..(w - 1) : worker[v] # "none"
    /\ current' = w /\ worker' = [worker EXCEPT ![w] = "starting"]
    /\ sendEnabled' = selected /\ cancelEnabled' = FALSE
    /\ asked' = 0
    /\ UNCHANGED <<selected, panel, quitting, victim, events, reports, incoming, control>>

\* Mutant: the dialog was open long, and nobody looks again before the launch.
StartUnchecked(w) == Launch(w)

\* _start_transfer_worker, refused while the current thread runs.
StartTransferWorker(w) == ~Busy /\ Launch(w)

\* The question of a cancellation, modal as well. Without a thread that runs the
\* click only shows a message.
AskCancel ==
    /\ gui = "loop" /\ cancelEnabled /\ Busy
    /\ gui' = "asking" /\ asked' = current
    /\ UNCHANGED <<current, selected, buttons, panel, quitting, victim, events, jobs, control>>

AnswerNo ==
    /\ gui = "asking" /\ gui' = "loop"
    /\ UNCHANGED <<current, selected, buttons, panel, quitting, victim, asked, events,
                   jobs, control>>

\* cancel_active_transfer, under the control lock: nothing to cancel, or the
\* event is set.
AnswerYes ==
    /\ gui = "asking"
    /\ victim' = slot
    /\ IF slot = 0 THEN gui' = "loop" /\ UNCHANGED cancelEvent
                   ELSE gui' = "cancelling" /\ cancelEvent' = TRUE
    /\ UNCHANGED <<current, selected, buttons, panel, quitting, asked, events, jobs, slot>>

\* The job is marked and its socket closed, the lock released (module Transfer).
CancelReturns ==
    /\ gui = "cancelling" /\ gui' = "loop" /\ victim' = 0
    /\ UNCHANGED <<current, selected, buttons, panel, quitting, asked, events, jobs, control>>

\* Mutant: the thread is waited for, but not told to quit.
CloseWithoutQuit ==
    /\ gui = "loop"
    /\ IF Busy THEN gui' = "waiting" /\ UNCHANGED events
               ELSE gui' = "leaving" /\ Post("exit", 0)
    /\ UNCHANGED <<current, selected, buttons, panel, quitting, victim, asked, jobs, control>>

\* closeEvent: the thread is told to quit and waited for, three seconds at most.
Close ==
    /\ gui = "loop"
    /\ IF Busy THEN /\ gui' = "waiting" /\ quitting' = quitting \cup {current}
                    /\ UNCHANGED events
               ELSE gui' = "leaving" /\ Post("exit", 0) /\ UNCHANGED quitting
    /\ UNCHANGED <<current, selected, buttons, panel, victim, asked, jobs, control>>

\* The wait ended or expired; the services are stopped and the window closes.
WaitReturns ==
    /\ gui = "waiting"
    /\ gui' = "leaving" /\ Post("exit", 0)
    /\ UNCHANGED <<current, selected, buttons, panel, quitting, victim, asked, jobs, control>>

UserStep ==
    \/ SelectPeer \/ ChooseAndSend \/ ChooserCloses \/ AskCancel \/ AnswerNo \/ AnswerYes
    \/ Close \/ PeersUpdated
    \/ \E w \in Workers : StartTransferWorker(w)

Next ==
    \/ UserStep \/ HandleEvent \/ CancelReturns \/ WaitReturns
    \/ \E w \in Workers : WorkerStep(w)
    \/ \E j \in Jobs : Progress(j)
    \/ IncomingStarts \/ IncomingEnds \/ IncomingBreaks

Spec == Init /\ [][Next]_vars

\* The GUI thread handles what is queued, its own calls return, and a worker
\* that can go on does. That a transfer ends is what Transfer shows, for every
\* transfer whose sends do not stay blocked for ever; here it is a premise. The
\* user need not do anything, and an incoming transfer need not end.
Fairness ==
    /\ WF_vars(HandleEvent) /\ WF_vars(CancelReturns) /\ WF_vars(WaitReturns)
    /\ \A w \in Workers : WF_vars(WorkerStep(w))

FairSpec == Spec /\ Fairness
-----------------------------------------------------------------------------
(* Properties.                                                             *)

\* The window, its queue and the stages of the workers have their types.
TypeOK ==
    /\ gui \in GuiStates
    /\ current \in 0..MaxTransfers /\ asked \in 0..MaxTransfers
    /\ slot \in 0..MaxTransfers /\ victim \in 0..MaxTransfers
    /\ selected \in BOOLEAN /\ sendEnabled \in BOOLEAN /\ cancelEnabled \in BOOLEAN
    /\ cancelEvent \in BOOLEAN
    /\ panel \in [job : 0..(MaxTransfers + 1), status : {"Idle", "RUNNING", "Final"}]
    /\ events \in Seq(Events)
    /\ worker \in [Workers -> Stages]
    /\ quitting \subseteq Workers
    /\ reports \in 0..MaxReports
    /\ incoming \in {"none", "active", "ended", "broken"}

\* As long as the program has not crashed, a thread that runs is the one the
\* window refers to: at most one transfer is under way, although the buttons may
\* offer a second one while the thread of the first is starting or finishing.
OneTransferAtATime ==
    gui # "crashed" => \A w \in Workers : Running(w) => w = current

\* The single slot names the transfer that is active and no other: a second
\* transfer never overwrites it, and it is given back.
SlotIsOwn ==
    Alive => \A w \in Workers : worker[w] \in {"active", "ending"} <=> slot = w

\* A confirmed cancellation reaches the transfer the user was asked about or
\* none, and its event does not outlive that transfer.
CancelReachesAsked ==
    /\ victim # 0 => victim = asked
    /\ cancelEvent => slot # 0 /\ slot = asked

\* When the GUI thread has handled every event and no thread is just starting or
\* finishing, the buttons are those of _update_action_buttons: a transfer can be
\* sent to a selected peer while none runs, and the one that runs be cancelled. The
\* interface document asks for more (SendNeedsSession below).
ButtonsTellTruth ==
    /\ gui = "loop" /\ events = <<>>
    /\ \A w \in Workers : worker[w] \notin {"starting", "finishing"}
    => /\ sendEnabled = (selected /\ ~Busy)
       /\ cancelEnabled = Busy

Over(j) == IsFinal(j) \/ (j = Incoming /\ incoming = "broken")

\* When every event is handled, the panel that outgoing and incoming transfers
\* share shows no transfer as running that is over, with one exception: a received
\* transfer that broke off, of which nobody tells the window.
PanelTellsTruth ==
    events = <<>> /\ panel.status = "RUNNING" /\ Over(panel.job)
        => panel.job = Incoming /\ incoming = "broken"

\* Every worker that is launched is over one day and the window ready for the
\* next one, unless the program ends first.
EveryWorkerIsCleanedUp ==
    \A w \in Workers :
        worker[w] = "starting" ~> (worker[w] = "finished" /\ current # w) \/ ~Alive

\* Violated: the send button is enabled only when a session is open, as the interface
\* document says. A session exists only within the transfer that opened it, from the
\* start of its job to its end.
SendNeedsSession ==
    sendEnabled => (\E w \in Workers : worker[w] = "active") \/ incoming = "active"

\* Violated: the program does not crash, whenever its window is closed.
NeverCrashes == gui # "crashed"

\* What NeverCrashes is violated by, and nothing else: a transfer runs, and either
\* the window exits although its thread, told to quit, did not within the three
\* seconds; or the finished signal of an earlier thread is handled only now.
CrashCause ==
    /\ Busy /\ events # <<>>
    /\ \/ Head(events).kind = "exit" /\ current \in quitting
       \/ /\ Head(events).kind = "finished" /\ Head(events).job # current
          /\ worker[Head(events).job] = "finished"
CrashesExplained == [][(gui # "crashed" /\ gui' = "crashed") => CrashCause]_vars
=============================================================================
