------------------------------ MODULE Services ------------------------------
(***************************************************************************)
(* The life of the services of one application: AppManager.start and stop, *)
(* called by one thread through AppBridge, and the threads they start and  *)
(* join, those of SessionListener and of DiscoveryService.                 *)
(*                                                                         *)
(* The caller and the threads share a stop event for each service, which   *)
(* start clears and stop sets, and a reference to each thread's socket,    *)
(* through which stop closes it. A thread clears that reference when it    *)
(* ends, with no lock and without asking whose socket it names.            *)
(***************************************************************************)
EXTENDS Naturals

CONSTANTS
    MaxStarts,     \* bound: how many times the services are started
    ServiceFaults, \* what may go wrong in this instance
    MayBeLate      \* the threads, by kind and start, that a join may give up

ASSUME ServicesAssumption ==
    /\ MaxStarts \in Nat
    /\ ServiceFaults \subseteq {"spawn",  \* a thread cannot be started
                                "bind"}   \* a port cannot be bound

\* The threads of one start. Each opens a socket, and two of them bind it.
Kinds == {"server", "listen", "broadcast"}
Binding == {"server", "listen"}
Discovery == {"listen", "broadcast"}
Starts == 1..MaxStarts
ASSUME LateAssumption == MayBeLate \subseteq Kinds \X Starts

ThreadStates == {"none", "opening", "binding", "check", "waiting",
                 "closing", "ended", "failed"}
CallerSteps == {"idle", "startListener", "startServer", "startListen", "startBroadcast",
                "stopApp", "stopDiscovery", "closeSockets", "joinBroadcast",
                "joinListen", "stopListener", "closeServer", "joinServer"}

VARIABLES
    pc,         \* statement of the calling thread
    starts,     \* how many times start was entered: the current generation
    appRunning, \* AppManager._running
    listenerRunning, discoveryRunning,  \* _running of the two services
    listenerStop, discoveryStop,        \* their stop events
    thread,     \* statement of each thread of each kind and generation
    sock,       \* its socket: "none", "open" or "closed"
    ref,        \* the generation whose socket the service refers to, or 0
    captured,   \* the one SessionListener.stop read from it, or 0
    told,       \* what the user was last told of the services
    abandoned   \* the threads given up without having been seen to end

caller == <<pc, starts, captured, told>>
flags == <<appRunning, listenerRunning, discoveryRunning>>
events == <<listenerStop, discoveryStop>>
threads == <<thread, sock, ref>>
vars == <<caller, flags, events, threads, abandoned>>

Init ==
    /\ pc = "idle" /\ starts = 0 /\ captured = 0 /\ told = "nothing"
    /\ appRunning = FALSE /\ listenerRunning = FALSE /\ discoveryRunning = FALSE
    /\ listenerStop = FALSE /\ discoveryStop = FALSE
    /\ thread = [k \in Kinds |-> [g \in Starts |-> "none"]]
    /\ sock = [k \in Kinds |-> [g \in Starts |-> "none"]]
    /\ ref = [k \in Kinds |-> 0]
    /\ abandoned = {}

(***************************************************************************)
(* The threads.                                                            *)
(***************************************************************************)

StopSet(k) == IF k = "server" THEN listenerStop ELSE discoveryStop
Becomes(k, g, s) == thread' = [thread EXCEPT ![k][g] = s]
Ended(k, g) == thread[k][g] \in {"none", "ended", "failed"}
ThreadOnly == UNCHANGED <<caller, flags, events, abandoned>>

\* Mutant: the loop keeps its socket for itself.
OpenForgets(k, g) ==
    /\ thread[k][g] = "opening"
    /\ Becomes(k, g, IF k \in Binding THEN "binding" ELSE "check")
    /\ sock' = [sock EXCEPT ![k][g] = "open"]
    /\ UNCHANGED ref /\ ThreadOnly

\* The loop opens its socket and lets the service refer to it.
Open(k, g) ==
    /\ thread[k][g] = "opening"
    /\ Becomes(k, g, IF k \in Binding THEN "binding" ELSE "check")
    /\ sock' = [sock EXCEPT ![k][g] = "open"]
    /\ ref' = [ref EXCEPT ![k] = g]
    /\ ThreadOnly

\* A port in use, or a socket that stop has closed meanwhile, ends the thread;
\* the error is logged and reaches nobody.
BindSucceeds(k, g) ==
    /\ thread[k][g] = "binding" /\ sock[k][g] = "open"
    /\ Becomes(k, g, "check")
    /\ UNCHANGED <<sock, ref>> /\ ThreadOnly

BindFails(k, g) ==
    /\ thread[k][g] = "binding"
    /\ sock[k][g] = "closed" \/ "bind" \in ServiceFaults
    /\ thread' = [thread EXCEPT ![k][g] = "failed"]
    /\ sock' = [sock EXCEPT ![k][g] = "closed"]
    /\ ref' = [ref EXCEPT ![k] = 0]
    /\ ThreadOnly

\* Mutant: the loops turn for ever, and only a closed socket stops them.
CheckStopNever(k, g) ==
    /\ thread[k][g] = "check"
    /\ Becomes(k, g, "waiting")
    /\ UNCHANGED <<sock, ref>> /\ ThreadOnly

\* The test of the stop event at the head of each loop.
CheckStop(k, g) ==
    /\ thread[k][g] = "check"
    /\ Becomes(k, g, IF StopSet(k) THEN "closing" ELSE "waiting")
    /\ UNCHANGED <<sock, ref>> /\ ThreadOnly

\* Mutant: the sockets have no timeout.
WakeWhenClosed(k, g) ==
    /\ thread[k][g] = "waiting"
    /\ k = "broadcast" \/ sock[k][g] = "closed"
    /\ Becomes(k, g, IF StopSet(k) THEN "closing" ELSE "check")
    /\ UNCHANGED <<sock, ref>> /\ ThreadOnly

\* accept or recvfrom returns, expires, or fails on a closed socket: the loop
\* then ends if the stop event is set, and logs and turns if it is not. The
\* broadcast loop sends and waits for the event instead.
Wake(k, g) ==
    /\ thread[k][g] = "waiting"
    /\ IF StopSet(k) /\ (k = "broadcast" \/ sock[k][g] = "closed")
         THEN Becomes(k, g, "closing")
         ELSE Becomes(k, g, "check")
    /\ UNCHANGED <<sock, ref>> /\ ThreadOnly

\* The end of the with statement and the finally block, which forgets whatever
\* socket the service refers to.
End(k, g) ==
    /\ thread[k][g] = "closing"
    /\ Becomes(k, g, "ended")
    /\ sock' = [sock EXCEPT ![k][g] = "closed"]
    /\ ref' = [ref EXCEPT ![k] = 0]
    /\ ThreadOnly

ThreadStep(k, g) ==
    \/ Open(k, g) \/ BindSucceeds(k, g) \/ BindFails(k, g) \/ CheckStop(k, g)
    \/ Wake(k, g) \/ End(k, g)

(***************************************************************************)
(* start.                                                                  *)
(***************************************************************************)

Goto(step) == pc' = step /\ UNCHANGED <<starts, captured, told>>

\* AppBridge.start_services, which tells the user when there is nothing to do.
StartApp ==
    /\ pc = "idle" /\ ~appRunning /\ starts < MaxStarts
    /\ pc' = "startListener" /\ starts' = starts + 1 /\ UNCHANGED <<captured, told>>
    /\ appRunning' = TRUE
    /\ UNCHANGED <<listenerRunning, discoveryRunning, events, threads, abandoned>>

\* SessionListener.start, under its lock.
StartListener ==
    /\ pc = "startListener"
    /\ IF listenerRunning
         THEN Goto("startListen") /\ UNCHANGED <<listenerRunning, listenerStop>>
         ELSE /\ Goto("startServer")
              /\ listenerRunning' = TRUE /\ listenerStop' = FALSE
    /\ UNCHANGED <<appRunning, discoveryRunning, discoveryStop, threads, abandoned>>

\* The thread is started after the lock is released.
StartServer ==
    /\ pc = "startServer"
    /\ \/ /\ Goto("startListen")
          /\ Becomes("server", starts, "opening")
          /\ UNCHANGED <<flags, events>>
       \/ /\ "spawn" \in ServiceFaults
          /\ Goto("stopApp")
          /\ listenerRunning' = FALSE /\ listenerStop' = TRUE
          /\ UNCHANGED <<appRunning, discoveryRunning, discoveryStop, thread>>
    /\ UNCHANGED <<sock, ref, abandoned>>

\* Mutant: AppManager.start lets the exception through and stops nothing.
SpawnFailsUncaught ==
    /\ "spawn" \in ServiceFaults
    /\ pc' = "idle" /\ told' = "failed" /\ UNCHANGED <<starts, captured>>
    /\ discoveryStop' = TRUE
    /\ UNCHANGED <<discoveryRunning, thread>>

\* DiscoveryService.start, when a thread does not start.
SpawnFails ==
    /\ "spawn" \in ServiceFaults
    /\ Goto("closeSockets")
    /\ discoveryStop' = TRUE
    /\ UNCHANGED <<discoveryRunning, thread>>

\* DiscoveryService.start up to its first thread.
StartListen ==
    /\ pc = "startListen"
    /\ \/ /\ discoveryRunning /\ pc' = "idle" /\ told' = "started"
          /\ UNCHANGED <<starts, captured, discoveryRunning, discoveryStop, thread>>
       \/ /\ ~discoveryRunning /\ Goto("startBroadcast")
          /\ discoveryStop' = FALSE
          /\ Becomes("listen", starts, "opening")
          /\ UNCHANGED discoveryRunning
       \/ ~discoveryRunning /\ SpawnFails
    /\ UNCHANGED <<appRunning, listenerRunning, listenerStop, sock, ref, abandoned>>

\* Its second thread. The listen thread runs already: when this one does not
\* start, the other is forgotten without a join.
StartBroadcast ==
    /\ pc = "startBroadcast"
    /\ \/ /\ pc' = "idle" /\ told' = "started" /\ UNCHANGED <<starts, captured>>
          /\ discoveryRunning' = TRUE
          /\ Becomes("broadcast", starts, "opening")
          /\ UNCHANGED <<discoveryStop, abandoned>>
       \/ /\ SpawnFails
          /\ abandoned' = abandoned \cup {<<"listen", starts>>}
    /\ UNCHANGED <<appRunning, listenerRunning, listenerStop, sock, ref>>

(***************************************************************************)
(* stop, called by the user or by a start that failed.                     *)
(***************************************************************************)

StopApp ==
    /\ pc' = "stopDiscovery" /\ UNCHANGED <<starts, captured>>
    /\ told' = IF pc = "stopApp" THEN "failing" ELSE "stopping"
    /\ appRunning' = FALSE
    /\ UNCHANGED <<listenerRunning, discoveryRunning, events, threads, abandoned>>

\* DiscoveryService.stop, under its lock.
StopDiscovery ==
    /\ pc = "stopDiscovery"
    /\ IF discoveryRunning
         THEN Goto("closeSockets") /\ discoveryStop' = TRUE
         ELSE Goto("stopListener") /\ UNCHANGED discoveryStop
    /\ UNCHANGED <<flags, listenerStop, threads, abandoned>>

\* The socket of each kind in ks that generation g[k] opened is closed.
Close(ks, g) ==
    sock' = [k \in Kinds |-> IF k \in ks /\ g[k] # 0
                               THEN [sock[k] EXCEPT ![g[k]] = "closed"] ELSE sock[k]]

\* _close_sockets, at the end of a start that failed or in a stop.
CloseSockets ==
    /\ pc = "closeSockets"
    /\ Goto(IF discoveryRunning THEN "joinBroadcast" ELSE "stopApp")
    /\ Close(Discovery, ref)
    /\ ref' = [k \in Kinds |-> IF k \in Discovery THEN 0 ELSE ref[k]]
    /\ discoveryRunning' = FALSE
    /\ UNCHANGED <<appRunning, listenerRunning, events, thread, abandoned>>

\* Mutant: stop does not wait for the threads.
NotJoined(k) == UNCHANGED abandoned

\* thread.join(timeout=2.0) of the thread of this start.
Joined(k) ==
    \/ Ended(k, starts) /\ UNCHANGED abandoned
    \/ /\ ~Ended(k, starts) /\ <<k, starts>> \in MayBeLate
       /\ abandoned' = abandoned \cup {<<k, starts>>}

Join(step, k, next) ==
    /\ pc = step
    /\ Goto(next)
    /\ Joined(k)
    /\ UNCHANGED <<flags, events, threads>>

\* The user is told that the services stopped, or why they did not start.
Return ==
    /\ pc' = "idle" /\ UNCHANGED <<starts, captured>>
    /\ told' = IF told = "failing" THEN "failed" ELSE "stopped"

\* SessionListener.stop: the flags under the lock, the socket after it.
StopListener ==
    /\ pc = "stopListener"
    /\ IF listenerRunning
         THEN /\ pc' = "closeServer" /\ UNCHANGED <<starts, told>>
              /\ captured' = ref["server"] /\ ref' = [ref EXCEPT !["server"] = 0]
              /\ listenerRunning' = FALSE /\ listenerStop' = TRUE
         ELSE Return /\ UNCHANGED <<listenerRunning, listenerStop, ref>>
    /\ UNCHANGED <<appRunning, discoveryRunning, discoveryStop, thread, sock, abandoned>>

CloseServer ==
    /\ pc = "closeServer"
    /\ pc' = "joinServer" /\ captured' = 0 /\ UNCHANGED <<starts, told>>
    /\ Close({"server"}, [k \in Kinds |-> captured])
    /\ UNCHANGED <<flags, events, thread, ref, abandoned>>

JoinServer ==
    /\ pc = "joinServer"
    /\ Return
    /\ Joined("server")
    /\ UNCHANGED <<flags, events, threads>>

CallerStep ==
    \/ StartListener \/ StartServer \/ StartListen \/ StartBroadcast
    \/ pc = "stopApp" /\ StopApp
    \/ StopDiscovery \/ CloseSockets \/ StopListener \/ CloseServer \/ JoinServer
    \/ Join("joinBroadcast", "broadcast", "joinListen")
    \/ Join("joinListen", "listen", "stopListener")

UserStep == StartApp \/ (pc = "idle" /\ appRunning /\ StopApp)

Next ==
    \/ CallerStep \/ UserStep
    \/ \E k \in Kinds, g \in Starts : ThreadStep(k, g)

Spec == Init /\ [][Next]_vars

\* The calling thread and every thread it started run; nobody has to call stop.
Fairness ==
    /\ WF_vars(CallerStep)
    /\ \A k \in Kinds, g \in Starts : WF_vars(ThreadStep(k, g))
FairSpec == Spec /\ Fairness

-----------------------------------------------------------------------------
(* Properties.                                                             *)

\* Flags, sockets and threads have their types.
TypeOK ==
    /\ pc \in CallerSteps /\ starts \in 0..MaxStarts
    /\ captured \in 0..MaxStarts
    /\ told \in {"nothing", "started", "stopping", "stopped", "failing", "failed"}
    /\ appRunning \in BOOLEAN /\ listenerRunning \in BOOLEAN
    /\ discoveryRunning \in BOOLEAN
    /\ listenerStop \in BOOLEAN /\ discoveryStop \in BOOLEAN
    /\ thread \in [Kinds -> [Starts -> ThreadStates]]
    /\ sock \in [Kinds -> [Starts -> {"none", "open", "closed"}]]
    /\ ref \in [Kinds -> 0..MaxStarts]
    /\ abandoned \subseteq Kinds \X Starts

\* Between two calls the application and its two services agree on whether they
\* run, whichever thread of a start could not be started.
FlagsAgree ==
    pc = "idle" => /\ listenerRunning = appRunning
                   /\ discoveryRunning = appRunning

Lives(k, g) == ~Ended(k, g)

\* A thread that lives belongs to the last start and to services that run, or
\* it was given up: a stop that returns leaves nothing else behind, and a start
\* finds nothing of the previous one.
OneGeneration ==
    \A k \in Kinds, g \in Starts :
        Lives(k, g) /\ <<k, g>> \notin abandoned =>
            g = starts /\ (pc = "idle" => appRunning)

\* As long as no thread of its kind was given up, the reference of a service
\* that runs names the socket its thread waits on, so that stop can close it.
SocketsReachable ==
    \A k \in Kinds, g \in Starts :
        /\ pc = "idle" /\ g = starts /\ thread[k][g] \in {"check", "waiting"}
        /\ \A h \in Starts : <<k, h>> \notin abandoned
        => appRunning /\ ref[k] = g /\ sock[k][g] = "open"

\* A call of start or stop returns: its joins see the threads end.
CallsReturn == pc # "idle" ~> pc = "idle"

\* Once the services are stopped for good every thread ends, those that were
\* given up and those whose socket could not be closed included.
AllThreadsEnd ==
    <>[](pc = "idle" /\ ~appRunning)
        => <>[](\A k \in Kinds, g \in Starts : Ended(k, g))

\* Violated: a service that cannot use its port is an error the user is told of.
FailureIsTold ==
    \A k \in Binding, g \in Starts :
        thread[k][g] = "failed" /\ appRunning ~> told = "failed" \/ ~appRunning
=============================================================================
