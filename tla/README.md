# NodeDrop, specified

NodeDrop sends files and folders between the machines of a local network. This
directory specifies in TLA+ how it does so, checks the specifications with TLC
on small instances and proves theorems about them with TLAPS. Paths below are
relative to the repository; `src/src/` is the program.

1. [The system](#1-the-system) – components, state, operations, interactions
2. [What is hard](#2-what-is-hard)
3. [The modules](#3-the-modules)
4. [The runs](#4-the-runs)
5. [The proofs](#5-the-proofs)
6. [What the models leave out](#6-what-the-models-leave-out)
7. [Findings](#7-findings)
8. [Plan](#8-plan)

## 1. The system

| component | code | state it keeps | operations |
|---|---|---|---|
| outgoing transfer | `core/app_manager.py` `send_transfer`, `core/transfer_manager.py` | the `TransferJob` in `_active_transfers`, the active slot (job id, socket, cancel event), the flags `ack_received`, `session_close_sent`, `transfer_error_sent`, `transfer_cancel_sent` | open a session, stream every file of the manifest, wait for `TRANSFER_ACK`, close; one handler and one `finally` for every way this fails |
| cancellation | `app_manager.py` `cancel_active_transfer`, `gui/app_bridge.py` | none of its own | set the event, cancel the job, shut and close the socket of the slot |
| incoming transfer | `network/listener.py` `_handle_client`, `_handle_authenticated_stream`; `app_manager.py` `_handle_transfer_message`; `transfer_manager.py` `handle_...` | the incoming job, the one open destination file and its checksum, `session_context` | one handler per message; verify, acknowledge |
| session handshake | `network/session.py`, `network/listener.py`, `core/auth_manager.py` | the socket at each end; the password, twice (`AuthManager`, `AppManager`) | request, accept or reject, ask for and verify the password, grant or deny; change the password |
| job registry | `transfer_manager.py` | `_active_transfers`, without a lock | register, look up, `cleanup_finished_transfers` by anyone |
| discovery | `network/discovery.py` | two threads, two UDP sockets, a stop event | announce every 5 s, listen, ignore oneself |
| peer table | `core/peer_manager.py` | peers by id, `last_seen`, `is_online` | register, snapshot, expire after 15 s |
| services | `app_manager.py` `start`/`stop`, `gui/app_bridge.py`, listener, discovery | `_running` three times, a stop event and the references to sockets and threads in each service | start and stop, with roll-back; joins of two seconds |
| manifest and accounting | `utils/file_utils.py`, `utils/hash_utils.py`, `core/models.py` | items, byte counts, statuses | walk folders, hash, count |
| message format | `network/protocol.py` | none | build, validate, serialize |
| window | `gui/main_window.py`, `workers.py`, `widgets.py`, `main.py` | the current thread and worker, the selected peer, the buttons, the panel; Qt's event queue | choose and send, ask and cancel, refresh every 3 s, handle what other threads post, clean a worker up, close |

How they interact. The window starts `send_transfer` on a worker thread and
calls `cancel_active_transfer` from its own. The worker talks to the client
thread of the peer's listener over one TCP connection: handshake first, then
the stream `TRANSFER_INIT`, per file `FILE_INFO`, `FILE_CHUNK`...,
`FILE_COMPLETE`, then `TRANSFER_COMPLETE`; one `TRANSFER_ACK` comes back and
`SESSION_CLOSE` ends it. `TRANSFER_CANCEL` or `TRANSFER_ERROR` may end it at
other points. Both applications learn of a transfer through callbacks
(`started`, `completed`, `failed`), which become Qt signals. Transfers of one
process share the registry; sessions share the password and the listener's
stop event; the listening thread of discovery and the window share the peer
table.

What makes each part correct:

- *outgoing transfer*: exactly one outcome is reported on each of its exits,
  the one reported is true, a success means the data is on the other disk, the
  stream is well formed on every path, and nothing (slot, event, registry
  entry, socket) outlives the call;
- *cancellation*: whatever it interleaves with, no content is written after it
  returned;
- *incoming transfer*: a job is completed only when every file is verified, an
  outcome is final, a verified file is never touched again;
- *session*: a caller is told of a decision only if the callee took it; a
  password is granted only if it was the right one; the two threads never wait
  for each other; both end;
- *password*: its two copies agree;
- *peer table*: a live peer is not shown offline although packets are lost, a
  silent one is not shown online for long;
- *services*: flags, threads and sockets agree; what a start left half done is
  stopped; a stop leaves no thread behind that a later start would meet;
- *window*: one transfer at a time, the cancellation reaches the one the user
  was asked about, buttons and panel tell the truth, each worker is cleaned up,
  the program does not crash;
- *manifest*: sums and paths agree.

## 2. What is hard

`PROJECT.json` lists the hazards with their lines. The main ones:

- *two threads, no common lock*. `cancel_active_transfer` sets the event under
  `_transfer_control_lock` and then, without it, cancels the job and closes the
  socket, while the worker is at any statement, perhaps already finished and
  cleaned up.
- *checks that are not atomic with what they guard*. The handler reads the
  status three times (lines 461, 482, 849 of `app_manager.py`); the registry is
  looked up again by almost every call and any transfer may clean it.
- *two machines that stop listening at different times*. The sender gives up
  after 5 s without acknowledgement; the receiver may complete the job later,
  and read a `TRANSFER_ERROR` after it.
- *many ways out*. `send_transfer` has about thirty, each with its own flags
  deciding what may still be written and what is reported.
- *liveness by timeouts only*. On a connection that has fallen silent nothing
  else ends a read. A send does not end even so: `_send_all_interruptible` tries
  one that timed out again for ever (`session.py:425-426`).
- *three clocks*. Announcements, expiry and the refresh timer run unsynchronised,
  on a network that loses packets, and ages are differences of wall clock dates.
- *threads that outlive their join*. The stop event is cleared by the next start,
  and a thread that ends clears a reference that may be its successor's.
- *one queue, many senders*. The window learns of threads and transfers by
  events posted to it; dialogs run the queue in the middle of a handler, and
  `isRunning()` changes before the event that says so.

## 3. The modules

    Transfer              the worker, the GUI thread, the receiving thread, TCP
     |                    (actions, fairness, properties)
    TransferInvariant     inductive invariants; the refinement mapping
     |   \-- TransferContract      what the two users may be told (abstract)
     +-- TransferSuccess           the stream of an undisturbed transfer, by places
     |    +-- MCTransfer           instances for TLC
     +-- TransferProofs            safety of the stream and of the receiver
          +-- TransferContractProofs   outcomes, clean-up, the refinement, the
          |                            acknowledgement, who waits for whom
          +-- TransferCancelProofs     cancellation, finality of outgoing jobs
          +-- TransferSuccessProofs    (with TransferSuccess) success when undisturbed

    Session               caller thread, listener thread, passwords, TCP
     |
    SessionInvariant -- SessionContract   what a caller may be told (abstract)
     |   \-- SessionProofs     safety of the handshake, the refinement
     |
    MCSession

    Peers                 the nodes' announcements, the observer's table, time
     |   \-- PeerContract      a failure detector (abstract)
     +-- MCPeers
     +-- PeersProofs

    Services              start, stop, the threads of listener and discovery
     +-- MCServices
     +-- ServicesProofs

    Window                the GUI thread, its queue, the workers, the slot
     +-- MCWindow
     +-- WindowProofs

How they fit together: `Window` takes a transfer as one that starts, reports and
ends, which `Transfer` shows of it; `Transfer` takes the handshake as one step
that succeeds or raises, which `Session` details; all three take the listener as
running or stopped (`"stop"` among the faults), which `Services` details; a
transfer takes the address of a peer as given, and `Peers` says when one is
offered.

### Transfer

One transfer, from `send_transfer` of one process to the client thread of the
other. One action is one stretch of code between two points at which another
thread can change what it reads.

| in the model | in the code |
|---|---|
| `worker` | the statement of `send_transfer` about to run: `buildInit`, `sendInit`, `chunk`, ... in the `try`; `handler` to `sendError` in the `except`; `clearJob` to `closeSocket` in the `finally` |
| `exc` | the kind of exception being handled, as far as the handler tells kinds apart |
| `marks` | `ack_received`, `session_close_sent`, `transfer_error_sent`, `transfer_cancel_sent` |
| `fileNo`, `chunkNo` | the two generators `iter_job_files`, `iter_file_chunks` |
| `sJob`, `sReg` | `TransferJob.status`, membership of `_active_transfers` |
| `slotJob`, `slotSock`, `cancelEvent` | `_active_outgoing_job_id`, `_active_outgoing_socket`, `_active_transfer_cancel_event` |
| `canceller`, `grabbed` | the statement of `cancel_active_transfer`, its local `active_socket` |
| `wire`, `read` | everything written on the connection; how much the receiver handled |
| `sSock`, `rSock`, `net` | each end (`shut` is after `shutdown`), and the network between |
| `client`, `rJob`, `rReg`, `incoming`, `rBytes`, `rFile` | the receiving thread and its `TransferManager` |
| `disk` | what is under each final name: a sequence of chunks, each the announced one or not |
| `sEvents`, `rEvents` | the callbacks emitted on each side |

A file is a number of chunks, a chunk is whether it has the content the manifest
was computed from; the checksum comparison is `Intact`. Everything the handlers
tell apart is kept: the status at every point it is read, the registry lookups
that may fail, the four flags, the kind of exception, the capped byte count.

A message is built and then sent, in two steps: building looks the job up, refuses
it or changes it; sending waits for room. `Send` is `_send_all_interruptible`: on a
socket that is closed or was reset it raises; as long as the connection has room
(`Buffer` messages ahead of the reader) it succeeds, even when nothing gets
through any more; otherwise it waits, and no timeout ends the wait. `Attempt` is
the same where the handler ignores a failure.

The environment: the network falls silent or resets (`NetFails`), a closed end
answers with a reset (`PeerReset`), another transfer cleans the registry
(`OtherCleanup`); within actions, reads time out, the source file changes or
becomes unreadable, the disk fails, the listener stops, authentication fails.
The constant `Faults` chooses among them.

### TransferContract

Both users are told `started` before anything else and at most one outcome; the
receiver's user hears of a success only of a delivered job, the sender's only
after delivery; a job is delivered or refused once. `TransferInvariant`
instantiates it with the callbacks emitted and the receiver's job status.

### TransferSuccess

Safety says what a transfer does when something breaks; this module says why one
that nothing breaks succeeds. The whole stream is known in advance: `Start(B, f)`
is the place of the `FILE_INFO` of file `f`, `B[f]` the number of chunks before and
in it. `HowFar` gives the length of the stream at each statement of the worker,
`Received` what the receiver holds after the prefix it handled, and `SmoothInv`
puts the two together.

### Session, SessionContract

One element of `Sessions` per call; `Caller` and `Callee` are nodes, which may
call each other. `caller[s]` is the statement of
`_open_authenticated_session_internal`, `callee[s]` that of `_handle_client`,
`toCallee` and `toCaller` the two directions of the connection. A node's
password is `auth` (in `AuthManager`, stripped) and `app` (in `AppManager`, as
typed), written one after the other by `UpdateAuth` and `UpdateApp`.
`update_shared_password` takes no lock, so several updates of a node may be between
their two writes (`updating`), in any order. A call may name a password of its own
(`Overrides`), blanks among them. Two variables are not in the code: `held`, the
passwords the callee had since the session began, needed to say what a right
verdict is, and `overlapped`, whether an update began before another was done. `Transfer` takes the whole handshake as its step
`OpenSession`, which succeeds or raises; `SessionContract` says why that is all
a transfer can see of it.

`NothingUnexpected` justifies a simplification of both modules: between two
NodeDrop nodes the branches that answer an unexpected message never run.

### Peers, PeerContract

One observer and the identifiers it may hear of. `life`, `sinceSend`, `losses`
are the broadcast loop of another node; `inFlight` holds the ages of the packets
on their way, which may be delivered twice and in any order; `shown` and `seen`
are `is_online` and the age of `last_seen` in the table, `unknown` where there is
no entry. `_listen_loop` with `register_peer` is `Receive`, `cleanup_expired` is
`CleanupExpired`, called by the 3 s timer (`TimerRefresh`) and by the button at
any time. Each holds the lock of `PeerManager`, so each is one step. `MoveClock`
moves every age at once: a clock that is set, or a machine that slept.
`disturbed` and `silence` are in the model only, to say what is promised when.

`TimingAssumption` states what makes 5 s, 15 s and 3 s fit together: announcements
that may be `Drift` late, `MaxLoss` of them lost in a row, `Delay` on the way.
`PeerContract` is what remains of all that: a node is hidden only when it is
gone, or when the clock was moved since it was heard.

### Services

`pc` is the statement of the thread that called `start` or `stop`;
`thread[k][g]` that of the thread of kind `k` (accept loop, UDP listener,
broadcaster) of the `g`-th start; `sock[k][g]` its socket, `ref[k]` the generation
whose socket the service refers to. `appRunning`, `listenerRunning` and
`discoveryRunning` are the three `_running`. `MayBeLate` names the threads whose
join may give up; `abandoned` records those that were given up, among them the
first thread of discovery when the second does not start, which the code forgets
without a join. The window starts the services once; that they may be started
again is the API of `AppManager`, which `AppBridge` exposes as slots.

### Window

`gui` is what the GUI thread does: its loop, the file dialog, the question of a
cancellation (both run the queue), `cancel_active_transfer`, the wait of
`closeEvent`. `events` is its queue. `worker[w]` is the stage of the `w`-th launch:
the thread, the manifest, the active slot, the last callback, the return, the
thread's event loop, and its end in two steps, since `isRunning()` is false before
`finished` is posted. `current` is `_transfer_thread`, `slot` and `cancelEvent` the
active slot, `panel` the job and status the panel shows. `asked` is in the model
only: whom the user was asked about. A transfer that is received posts to the
same panel; when its connection or disk fails or a file does not verify
(`IncomingBreaks`) it posts nothing.

## 4. The runs

| run | instance | shows |
|---|---|---|
| `transfer_faults` | 2 files of 1 chunk, every fault, 1 cancellation, room for the whole stream (2.5 M states) | the safety properties, the refinement of the contract; a final outgoing outcome changes only in three races |
| `transfer_ends` | files of 2 and 0 chunks, room for 2 messages, network, read timeouts, a changed source, foreign clean-ups, 2 cancellations of the user and one from inside (`cancel_after_chunks` = 3) | no content is written after a cancellation returned; both ends end and the sender's user is told, unless a send stays blocked |
| `transfer_succeeds` | files of 2 and 0 chunks, room for 2 messages, network, authentication and clean-ups, 1 cancellation | undisturbed, a call that is over has succeeded, and when nothing fails both users are told so |
| `session_faults` | 1 session, every fault, 2 updates in all, with a password of the call's own or none | verdicts, copies, order of messages, no mutual wait, the contract; the call and its server thread end |
| `peers` | 1 peer and the observer's own announcements, 5/15/3 s, 1 s drift, 3 s delay, 1 loss, copies, 1 leap of the clock | who is alive is shown, who is gone is not, for good; the failure detector |
| `services` | 2 starts, threads that do not start, ports in use, one join that gives up | flags, generations and sockets agree; calls return, threads end |
| `window` | 2 launches, 1 transfer received, 1 progress report (1.6 M states) | one transfer at a time, slot and cancellation its own, buttons and panel true, each worker cleaned up, two causes of a crash and no third |
| `receiver_informed`, `outgoing_final` | 1 file | violations: see the findings |
| `services_port`, `window_crash`, `send_button` | 1 start; as `window` | violations: see the findings |

*Bounds.* `NumFiles`, `Size` fix the manifest: two files are what it takes to
stop between files, to have a verified file before an open one and a last file;
sizes 0, 1 and 2 give an empty file, and first and later calls of the chunk
generator (its checks differ). A longer source grows by one chunk, enough for the
comparison to fail and the count to be capped; `cancel_after_chunks` = 3 is reached
only then. `Buffer` = 2 makes a sender wait in the middle of a file, of a handler
and of a closing message; 12 is more than any stream of two files of one chunk
takes. `MaxRequests` bounds how often the
user cancels: two is what it takes for one request to find the effects of
another. `MaxUpdates` = 2 bounds the password changes of both nodes together: two
is what it takes for updates to overlap and leave the copies apart; that the
copies then stay apart is why `CopiesAgree` excepts it. Each message of a transfer or
session is written at most once, and `net` only gets worse.
In `Peers` ages are capped at `Horizon`, beyond which nothing tells them apart;
peers do not influence each other, so one is enough; the instance satisfies
`TimingAssumption` with nothing to spare, so a comparison off by one shows.
`MaxJumps` bounds the leaps of the clock: one leap is what it takes to hide every
entry, and recovery from it is what the liveness properties say. In `Services` two
starts are one generation and its successor; in `Window` two launches are a
transfer and the one its late events meet, and `MaxReports` = 1 a report that may
be handled after anything else. The proofs hold for all of these.

*Fairness.* `FairSpec` of `Transfer` lets the worker, the cancelling thread and
the receiving thread run when they can: they are OS threads that hold no lock
while they wait, and every read has a timeout (5 s and 10 s), which is what makes
giving up a read a step that is enabled on a silent connection. A send has no such
step: its quarter of a second only leads to the next attempt. So `TransferEnds`
and `ContractHonoured` except a worker that stays in a send on an open socket
whose connection is full and silent for good (`SendStuck`). That an operating
system gives such a connection up after some minutes is not assumed; where it
does, that is the reset of `NetFails`. The one thing assumed of the network is
that a peer which closed its end answers the probes of a full connection by a
reset. Nothing is assumed of the user or of other transfers.
`FairSpec` of `Session` is the same, plus the end of an update that was begun.
`Peers` lets time pass, the broadcast loops turn, the timer fire and each packet
arrive once; nobody has to join, leave, press or move anything. `Services` lets
the caller and each thread run: `accept` and `recvfrom` have timeouts of a second,
`Event.wait` one of five. `Window` lets the GUI thread handle its queue and each
worker go on: that an active transfer ends is a premise here, shown by
`TransferEnds` of `Transfer` for every transfer whose sends do not stay blocked,
and `EveryWorkerIsCleanedUp` holds for those. The user need not close a dialog, as
dialogs run the queue, and a transfer that is received need not end.

*Mutants.* Next to the definitions, operators introduced by "Mutant:" are
plausible mistakes in the code they stand before: a dropped check, a missing
return, a forgotten reset. Each property is refuted by one of them;
`PROJECT.json` says which. They are used by nothing else.

The inductive invariants (`IInv`, `TellInv`, `StopInv`, `AcknowledgedSoFar`,
`FinalSoFar`, `SmoothInv`, `SessionInv`, `CalmInv`, `QuietInv`, `TimingInvariant`,
`ServicesInv`, `WindowInv`) and the type invariants are not listed in the
configurations: they were checked on the instances above before they were proved
(section 5), and the properties that follow from them are what the runs ask. The
same holds of four properties that follow from them and no run lists:
`NeverBothWait`, `InformedUnlessCutShort`, `OutcomeIsExplained` and
`DeservedWhenDone`.

*Deadlock* is checked in the runs of `Transfer`, `Session` and `Peers` (`Stutter` of
the first two is enabled only when both machines are done). It is not in
`Services` and `Window`: the last permitted stop, or the closed window, is where
they end.

## 5. The proofs

TLAPS proves every safety property that a passing run checks. For `Transfer` it does
so for every manifest, every number of cancellations and every set of faults, with
one exception that item 5 states. The assumptions are the ones declared in the
module: `ManifestAssumption` (at least one file; sizes are natural numbers; the
total is a natural number, which only item 5 needs to be their sum) and
`BoundsAssumption`.

1. `TypeCorrect` (`TransferProofs`).
2. `Invariant`: `IInv` is inductive. None of the properties is so by itself.
   That a completed transfer is delivered is a chain across the two machines:
   the sender completes only after the acknowledgement (`CompletedAfterAck`),
   which was sent only for a COMPLETED job, completed on a `TRANSFER_COMPLETE`
   (`JobHeld`), before which the stream holds a `FILE_COMPLETE` of every file
   (`WrittenSoFar`, `AllFilesAnnounced`), each of which was handled, hence
   verified (`FilesHeld`), and not undone since, as no file is opened again
   (`StreamOrder`). `ClosedOnce` ties the four flags to the stream, through the
   handler. From `IInv`: `StreamIsWellFormed`, `ReceiverCompletesOnlyWholeJobs`,
   `CompletedIsDelivered`; and as action properties `IncomingOutcomeIsFinal`,
   `VerifiedFilesAreKept`.
3. `WhatIsTold` (`TransferContractProofs`): `TellInv` adds what has been
   reported, decided and freed at each statement, from which
   `OneOutcomeIsReported`, `ResultIsReported`, `NothingIsLeftBehind`, and
   `ContractIsKept`: initial states map to initial states and each step to a
   step of the contract or a stutter.
4. `CancellationQuiets`, `CancelStops` (`TransferCancelProofs`): `StopInv` says
   where the worker can be at each step of a request that found a socket and of
   one that did not: past its last content, with a closed socket, or before a
   checkpoint that will see the event. `OutgoingIsFinalUnlessRaced` (`FinalSoFar`
   is inductive beside `IInv`): a finished outgoing job changes its status only
   after a cancellation was asked for, and only in the three races `Raced` names:
   `cancel_transfer`, in the GUI thread, marks a job that finished, completed ones
   included, since it looked; the worker completes a CANCELLED job by an
   acknowledgement it had read (the finding `outgoing_final`); or its handler or
   the error message fails a CANCELLED job past its look at the status.
5. `TransferSucceedsUndisturbed` (`TransferSuccessProofs`): with the network, the
   authentication and other transfers' clean-ups free to interfere, as long as the
   connection is up, the session granted and nothing cancelled, a `send_transfer`
   that is over has the files verified on the other disk and reports success, or
   lost the acknowledgement (`AckLost`, below). Here `PartialSums` is assumed: `B`
   adds up the sizes and `TotalBytes` is the last sum, which is what
   `build_transfer_manifest` computes (`TotalIsSum` in `MCTransfer`). `FewFaults`
   leaves out what changes the source, fails the disk or cuts by time. `SmoothInv`
   is inductive because each place of the stream has one message (`Placed`), so
   what comes next is known from what the receiver holds (`Comes`) and no handler
   refuses it. The proof turned up the one exception the property states
   (`AckLost`): another transfer of the receiving process may clean the completed
   job up before its acknowledgement is built; the sender is then told of a failure
   although every file was delivered.
   The bound `B[a] <= B[b]` for `a <= b` is an induction, which is done through a
   least counterexample (`LeastNatural`, from `WFMin` and `NatLessThanWellFounded`),
   as the induction theorems of the library cannot be instantiated.
6. `AcknowledgementInvariant`, `NoMutualWait`, `InformedButWhenCutShort`
   (`TransferContractProofs`): `AcknowledgedSoFar` follows the acknowledgement from the
   `TRANSFER_COMPLETE` that asks for it to the statement that reads it. Over a
   working connection a worker that waits for it never waits for a thread that waits
   for it. When the receiving thread ends, its user was told how the job ended,
   unless the stream broke off before its closing message (the job stays RUNNING)
   or the acknowledgement could not be sent: the exact boundary of the finding
   `receiver_informed`.

For `Session`, for every set of nodes, sessions, passwords and faults, from
`SessionAssumption` and `PasswordAssumption` (no node starts with a password of
blanks, which `AuthManager` refuses), `SessionProofs` proves all the safety
properties its runs check:

7. `SessionTypes`, then `SessionInvariantHolds`: `SessionInv` is inductive. Its
   part `InStep` says, for each pair of statements of the two threads, which
   messages are in flight and what is decided; a step of one session leaves the
   others as they were (`CallerElsewhere`, `CalleeElsewhere`). `HeldNow` and
   `Copies` are what the properties about passwords need to be inductive: what
   the callee verifies against is among what it held, and of updates that do not
   overlap, one that is half done is the last to have reached `AuthManager`.
8. From it `VerdictsAreGenuine`, `PasswordCopiesAgree`, `MessagesExpected`,
   `NeverMutualWait`, and the refinement, `SessionImplementsContract`: a call
   that ends maps to `Tell`, what it says justified by the only message it can
   have read; a rejection or a verification maps to `Decide`.
9. `OutcomesExplained`: without a timeout or a refused connection, but with every
   update, network failure and stop, a call whose connection held ends as the callee
   decided. What must not happen is that one thread closes on a message the other
   has still to read; `CalmQueues` says that it does not, at each statement, and
   `StaysDisturbed` that a broken session stays out of the claim. `OutcomesDeserved`:
   with no fault and no update, granted, denied or an error, exactly as the password
   deserves (`QuietInv` adds to `CalmInv`
   that nothing breaks and that a callee held one password).

For `Peers`, for any identifiers, intervals, losses, delays and movements of the
clock (`PeersAssumption`), `PeersProofs` proves:

10. `TypeCorrect`, `InTime`: `TimingInvariant` is inductive. It bounds the age of an
   entry by the losses since and the time since the last announcement, or by a
   packet that is on its way (`HeardInTime`), the silence of a node that is gone
   by the ages of its packets, and the age of an online entry by the timeout and
   the time since the last refresh. From it `GonePeersLeave` and, under
   `TimingAssumption`, `AlivePeersStay` and `PeersImplementContract`.

For `Services`, for any number of starts, faults and late threads:

11. `ServicesInvariant`: `ServicesInv` says at each statement of `start` and `stop`
   which flags and events are set (`Control`), which threads may live
   (`ThreadsWhere`) and that a thread with an open socket is the one its service
   refers to as long as none of its kind was given up (`Held`). From it
   `ServicesTypes`, `ServicesAgree`, `NoThreadLeftBehind`, `SocketsStayReachable`.

For `Window`, for any number of transfers and reports:

12. `WindowInvariant`: that only the current thread runs is why the slot is its own,
   and that is why a cancellation reaches the one asked about (`CancelInv`,
   `EventInv`); the launch is safe because `_start_transfer_worker` asks
   `isRunning()` again after the dialog. From it `OneTransferRuns`,
   `SlotIsNeverTaken`, `CancelReachesOnlyAsked`.
13. `ButtonsAreRight`: buttons that are wrong have a thread that starts or finishes,
    or an event in the queue that will correct them (`ButtonsInv`). `PanelIsRight`:
    in the queue the end of a transfer follows its reports (`PanelInv`); a received
    transfer that broke off has no end in the queue, and is the exception.
14. `CrashesOnlySo`: the program crashes only while a transfer is running, when the
    window exits after its three seconds or when the `finished` of an earlier thread is
    handled only after the next launch, which are the two ways section 7 describes
    and the exact boundary of the finding `window_crash`. It needs that an event in
    the queue tells the truth about the thread it comes from (`EventsTrue`) and that
    the window exits only after telling the thread to quit (`ToldToQuit`).

Liveness (`TransferEnds`, `ClientEnds`, `ContractHonoured`, `TransferSucceeds`,
`CallEnds`, `ServingEnds`, `AlivePeerStaysOnline`,
`GonePeerStaysOffline`, `CallsReturn`, `AllThreadsEnd`, `EveryWorkerIsCleanedUp`) is
checked by TLC only: the prover has no rule for fairness (`ENABLED`). Of
`TransferSucceeds` the safety half is proved, that a call which is over succeeded
(`SucceedsUnlessDisturbed`); what TLC adds is that it gets there.

## 6. What the models leave out

- *Branches two NodeDrop nodes never take*: replies to the sender other than
  `TRANSFER_ACK` (`app_manager.py:409-430`: the receiver sends nothing else), a
  second `TRANSFER_INIT` for a job, an unexpected `job_id` or `session_id`,
  malformed frames.
- *Partial frames*: a message and the bytes after it arrive as one or not at
  all. An interrupted read ends both the same way.
- *Partial sends*: room is counted in messages; a message is written as a whole or
  waits. The messages of the handshake and the acknowledgement are taken never to
  wait: each is small, and alone or nearly so on its way.
- *Callers of `update_shared_password`*: nothing in the program calls it; it is the
  API of `AppManager`, and `Session` lets any thread do so at any time.
- *Per-item status and progress* on the sender: nothing but display reads them.
  The progress snapshot between two statements is kept as the registry lookup
  it makes, merged with the next one.
- *Waiting in `close_gracefully`*: bounded, without effect on the state.
- *One end of a read*: `GiveUp` gathers EOF, reset, timeout, disk error and stop
  of the listener, whose handlers differ only in what they log.
- *Client threads and stop*: `Transfer` and `Session` let a stop end a client
  thread at any read; no code joins client threads, so `Services` has none.
- *Removal of peers*: `remove_peer`, `mark_peer_offline`, `clear` and
  `cleanup_expired(remove=True)` have no caller in the program: the table only
  grows. The selection of the window is a Boolean for that reason.
- *Fields of a peer other than its status and date*; the live objects of a
  snapshot (`peer_manager.py:92`): each field is one reference, read for display.
- *`_close_sockets`*: its test of a reference and the call of `close` are taken as
  one step; a reference cleared in between raises in `stop`, which logs it.
- *A late thread that clears the reference of its successor* is modelled (`End`),
  and is why `SocketsReachable` says nothing once a thread was given up.
- *Message boxes* only delay the handler that shows them: the buttons are
  recomputed after them. A deferred deletion is taken as immediate, and Qt's
  `quit` before the thread's event loop starts counts, as it does in Qt 6.
- *A cancellation before the job exists* (`slot` = 0 in `AnswerYes`): the user is
  told that nothing was cancelled and the transfer goes on; modelled, but no
  statement of the repository says otherwise.
- *Not modelled*: message validation (`protocol.py`: the messages the program
  exchanges are those it builds); the construction of the manifest from paths,
  hashing, configuration and logging (pure functions and input/output);
  `gui/__init__.py`, an earlier window nothing imports;
  layout and formatting of the window.

## 7. Findings

- `receiver_informed`: when the receiving thread ends on an error (disk full,
  connection lost, checksum mismatch) no callback is emitted on the receiver:
  its job stays RUNNING and its user is never told, against
  `docs/05_Interface_UI_UX/NodeDrop_Interface.md:215`; nor is a
  `TRANSFER_ERROR` sent, against
  `docs/04_Protocoles_Reseau/NodeDrop_Protocole_Communication.md:224-229`. The window
  then goes on showing a transfer that is over (the exception of `PanelTellsTruth`).
- `outgoing_final`: `handle_transfer_ack` completes whatever it finds. A job that
  `cancel_transfer` marks CANCELLED after the acknowledgement was read becomes
  COMPLETED, although the user was told that the cancellation was taken;
  `handle_transfer_complete` (`transfer_manager.py:551-552`), on the other machine,
  leaves a cancelled job as it is.
- `services_port`: a port is bound in the service's thread, after `start` has
  returned. When it is in use the thread logs the error and ends, `_running` stays
  True, the user is told that the services are started and the node goes on
  announcing itself, against `docs/05_Interface_UI_UX/NodeDrop_Interface.md:215`
  (errors are told) and `:111` ("prête à accepter une connexion").
- `window_crash`: `closeEvent` waits three seconds for the thread of a transfer,
  cancels nothing, asks nothing (`NodeDrop_Interface.md:258` says it asks) and goes on
  when the wait expired: the window is destroyed with a thread that runs, on which
  Qt aborts the program, against
  `docs/07_Tests/NodeDrop_Strategie_Tests.md:251`. A second way to the same end:
  `_cleanup_transfer_worker` deletes whatever thread is current, also one launched
  after its predecessor finished and before that was handled.
- `send_button`: the send buttons are enabled by a selected row; a session is opened
  by the transfer itself, after the click. `NodeDrop_Interface.md:135-139` says that
  the button is active only once a session is open and authenticated.
  `ButtonsTellTruth` states what the code does.

Two things the models show and no statement of the repository denies: a worker whose
connection is full and silent stays in its send for as long as that lasts
(`SendStuck`), and two calls of `update_shared_password` that overlap may leave
the two copies of the password apart for good.

## 8. Plan

Done: `Transfer`, `Session`, `Peers`, `Services`, `Window`, each with its proofs.

What is left, of less weight than what is done:

1. `Manifest`: the walk of folders, sums, relative paths that collide when several
   sources are sent; nothing concurrent depends on it.
2. Concurrent `send_transfer` calls of the API, which no caller in the program
   makes: the slot would be overwritten.
