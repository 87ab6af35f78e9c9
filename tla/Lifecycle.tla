----------------------------- MODULE Lifecycle ------------------------------
(***************************************************************************)
(* How the server starts and ends: main.c in the foreground or under the   *)
(* watchdog of daemon.c, the five threads it starts one after the other    *)
(* with the semaphores each start function makes, SIGTERM (or SIGINT), and *)
(* cleanAll of engine.c.                                                   *)
(*                                                                         *)
(* A thread is at rest between two turns of its loop; what it does in a    *)
(* turn is the business of the other modules, here it matters what         *)
(* semaphores it needs.  t_sem.events and t_sem.sheduller are made by      *)
(* nobody (t_semop returns at once for them) and left out.                 *)
(***************************************************************************)
EXTENDS Naturals, SequencesExt

VARIABLES
    daemon,   \* config.daemon
    dog,      \* where daemonize and watchDog are
    pending,  \* the blocked signals that wait for the watchdog
    main,     \* where core is; "none" and "dead": there is no such process
    run,      \* config.run
    step,     \* the start function core calls next
    made,     \* the semaphores that are made and not destroyed
    thread,   \* of each thread: where it is
    links,    \* the kinds of connections the listener has accepted
    lacking,  \* history: a start function failed
    told,     \* history: the server or its watchdog has been told to stop
    deaf      \* history: the latest signal went unnoticed

process == <<main, run, step, made, thread, links, lacking>>
vars == <<daemon, dog, pending, process, told, deaf>>

Threads == {"updater", "serverworker", "watcher", "worker", "listener"}

\* Mutant of Order: the listener is started before those it works for.
OrderReverse == <<"listener", "worker", "watcher", "serverworker", "updater">>

\* startUpdater, startServerWorker, startWatcher, startWorker, startListener.
Order == <<"updater", "serverworker", "watcher", "worker", "listener">>

\* The semaphores a start function makes, in order (updater.c:180,184; serverworker.c:268,
\* 272; watcher.c:131; worker.c:419; listener.c:147); main makes the log's.
Makes(t) == CASE t = "updater" -> <<"updater", "db">>
              [] t = "serverworker" -> <<"serverworker", "room">>
              [] t = "listener" -> <<"player">>
              [] OTHER -> <<t>>

Semaphores == {"log"} \cup UNION {ToSet(Makes(t)) : t \in Threads}

\* What it may need in a turn: without connections it looks at empty lists (updater.c:162,
\* postgres.c:24; serverworker.c:112,135,244; watcher.c:45,51,111; worker.c:109,400;
\* listener.c:78,125).
Needs(t) ==
    LET on(kind, s) == IF kind \in links THEN s ELSE {} IN
    CASE t = "updater" -> {"updater"} \cup on("server", {"db"})
      [] t = "serverworker" -> {"serverworker", "room"} \cup on("server", {"updater"})
      [] t = "watcher" -> {"watcher"} \cup on("player", {"player", "worker", "db"})
      [] t = "worker" -> {"worker"} \cup on("player", {"room"})
      [] t = "listener" -> {"serverworker", "watcher", "db"}

-----------------------------------------------------------------------------
Alive == main \notin {"none", "dead"}
NoThread == [t \in Threads |-> "none"]

\* With the process go its threads and its semaphores.
TypeOK == /\ daemon \in BOOLEAN
          /\ dog \in {"none", "start", "fork", "wait", "gone"}
          /\ pending \subseteq {"stop", "child"}
          /\ main \in {"none", "begin", "handled", "start", "loop", "enter", "console",
                       "close", "sleep", "clean", "dead"}
          /\ run \in BOOLEAN
          /\ step \in 1..Len(Order) + 1
          /\ made \subseteq Semaphores
          /\ thread \in [Threads -> {"none", "rest", "turn", "done"}]
          /\ links \subseteq {"player", "server"}
          /\ lacking \in BOOLEAN /\ told \in BOOLEAN /\ deaf \in BOOLEAN
          /\ ~Alive => made = {} /\ thread = NoThread

\* A process as config and t_sem are before core: all zero.
Fresh == /\ run = FALSE /\ step = 1 /\ made = {} /\ thread = NoThread
         /\ links = {} /\ lacking = FALSE

Init == /\ daemon \in BOOLEAN
        /\ dog = IF daemon THEN "start" ELSE "none"
        /\ main = IF daemon THEN "none" ELSE "begin"
        /\ pending = {}
        /\ Fresh
        /\ told = FALSE /\ deaf = FALSE

-----------------------------------------------------------------------------
(* The watchdog *)

\* fork and setsid, either of which may fail; then the signals are blocked.
Daemonize == /\ dog = "start"
             /\ dog' \in {"fork", "gone"}
             /\ UNCHANGED <<daemon, pending, process, told, deaf>>

ForkFails == /\ dog = "fork"
             /\ dog' = "gone"
             /\ UNCHANGED <<daemon, pending, process, told, deaf>>

\* The child has everything as the watchdog has it, the blocked signals included.
Fork == /\ dog = "fork"
        /\ dog' = "wait"
        /\ main' = "begin"
        /\ run' = FALSE /\ step' = 1 /\ made' = {} /\ thread' = NoThread
        /\ links' = {} /\ lacking' = FALSE
        /\ UNCHANGED <<daemon, pending, told, deaf>>

\* Mutant of WaitChild: the number of the dead child is kept.
WaitChildKept == /\ dog = "wait" /\ pending = {"child"}
                 /\ pending' = {}
                 /\ UNCHANGED <<daemon, dog, process, told, deaf>>

\* sigwaitinfo gives the lower number first: SIGCHLD only when no other is there.
WaitChild == /\ dog = "wait" /\ pending = {"child"}
             /\ pending' = {}
             /\ dog' = "fork"
             /\ UNCHANGED <<daemon, process, told, deaf>>

\* Pass the signal on (the child has it blocked) and end.
WaitStop == /\ dog = "wait" /\ "stop" \in pending
            /\ pending' = pending \ {"stop"}
            /\ dog' = "gone"
            /\ UNCHANGED <<daemon, process, told, deaf>>

-----------------------------------------------------------------------------
(* The end of the process; the watchdog, if any, gets SIGCHLD *)

Dies == /\ main' = "dead"
        /\ made' = {} /\ thread' = NoThread
        /\ pending' = IF dog \in {"fork", "wait"} THEN pending \cup {"child"} ELSE pending
        /\ UNCHANGED <<run, step, links, lacking>>

Crash == /\ Alive
         /\ Dies
         /\ UNCHANGED <<daemon, dog, told, deaf>>

-----------------------------------------------------------------------------
(* Someone tells the process of the pid file, or the one at the terminal, to stop *)

StopDog == /\ dog \in {"start", "fork", "wait"}
           /\ told' = TRUE
           /\ IF dog = "start" THEN dog' = "gone" /\ UNCHANGED pending
                               ELSE pending' = pending \cup {"stop"} /\ UNCHANGED dog
           /\ UNCHANGED <<daemon, process, deaf>>

\* Before the handler is there the signal ends the process.
StopEarly == /\ ~daemon /\ main = "begin"
             /\ told' = TRUE
             /\ Dies
             /\ UNCHANGED <<daemon, dog, deaf>>

\* Mutant of Stop: the handler is installed with SA_RESTART.
StopRestart == /\ ~daemon /\ Alive /\ main # "begin"
               /\ told' = TRUE
               /\ run' = FALSE
               /\ deaf' = (main \in {"handled", "enter"})
               /\ UNCHANGED <<daemon, dog, pending, main, step, made, thread, links, lacking>>

\* exit_sigaction, which also interrupts scanf and sleep.  core sets run after it
\* has installed the handler, and tests run before scanf blocks.
Stop == /\ ~daemon /\ Alive /\ main # "begin"
        /\ told' = TRUE
        /\ run' = FALSE
        /\ deaf' = (main \in {"handled", "enter"})
        /\ main' = CASE main = "console" -> "loop"
                     [] main = "sleep" -> "clean"
                     [] OTHER -> main
        /\ UNCHANGED <<daemon, dog, pending, step, made, thread, links, lacking>>

-----------------------------------------------------------------------------
(* core *)

Goes(from, to) == main = from /\ main' = to

Handlers == /\ Goes("begin", "handled")
            /\ UNCHANGED <<daemon, dog, pending, run, step, made, thread, links, lacking, told, deaf>>

\* config.run=1, the database's events and servers, the semaphore of the log.
RunOn == /\ Goes("handled", "start")
         /\ run' = TRUE
         /\ made' = {"log"}
         /\ UNCHANGED <<daemon, dog, pending, step, thread, links, lacking, told, deaf>>

\* The next start function; it returns at the first semaphore it cannot make.
StartThread == /\ main = "start" /\ step <= Len(Order)
               /\ LET t == Order[step] IN
                  \/ /\ made' = made \cup ToSet(Makes(t))
                     /\ thread' = [thread EXCEPT ![t] = "rest"]
                     /\ UNCHANGED lacking
                  \/ /\ ~lacking   \* bound of the model: one start fails
                     /\ \E n \in 0..Len(Makes(t)) : made' = made \cup ToSet(SubSeq(Makes(t), 1, n))
                     /\ lacking' = TRUE
                     /\ UNCHANGED thread
               /\ step' = step + 1
               /\ UNCHANGED <<daemon, dog, pending, main, run, links, told, deaf>>

Started == /\ step > Len(Order)
           /\ Goes("start", "loop")
           /\ UNCHANGED <<daemon, dog, pending, run, step, made, thread, links, lacking, told, deaf>>

\* while (config.run)
LoopTest == /\ main = "loop"
            /\ main' = IF run THEN "enter" ELSE "close"
            /\ UNCHANGED <<daemon, dog, pending, run, step, made, thread, links, lacking, told, deaf>>

Enter == /\ Goes("enter", "console")
         /\ UNCHANGED <<daemon, dog, pending, run, step, made, thread, links, lacking, told, deaf>>

\* scanf returns 1 or EOF, which both end the loop.
ConsoleReturns == /\ Goes("console", "loop")
                  /\ run' = FALSE
                  /\ UNCHANGED <<daemon, dog, pending, step, made, thread, links, lacking, told, deaf>>

\* The daemon has closed its stdin: scanf waits for nothing.
ConsoleEnds == daemon /\ ConsoleReturns
ConsoleTyped == ~daemon /\ ConsoleReturns

\* pgClose, sleep(5), cleanAll.
Close == /\ Goes("close", "sleep")
         /\ UNCHANGED <<daemon, dog, pending, run, step, made, thread, links, lacking, told, deaf>>

Slept == /\ Goes("sleep", "clean")
         /\ UNCHANGED <<daemon, dog, pending, run, step, made, thread, links, lacking, told, deaf>>

Clean == /\ main = "clean" /\ made # {}
         /\ made' = {}
         /\ UNCHANGED <<daemon, dog, pending, main, run, step, thread, links, lacking, told, deaf>>

\* Mutant of Exit: the threads outlive core.
ExitAlone == /\ main = "clean" /\ made = {}
             /\ main' = "dead"
             /\ pending' = IF dog \in {"fork", "wait"} THEN pending \cup {"child"} ELSE pending
             /\ UNCHANGED <<daemon, dog, run, step, made, thread, links, lacking, told, deaf>>

\* core returns to main or to the watchdog's exit(1).
Exit == /\ main = "clean" /\ made = {}
        /\ Dies
        /\ UNCHANGED <<daemon, dog, told, deaf>>

-----------------------------------------------------------------------------
(* The threads *)

At(t, from, to) == thread[t] = from /\ thread' = [thread EXCEPT ![t] = to]

\* while (config.run)
TurnOrEnd(t) == /\ At(t, "rest", IF run THEN "turn" ELSE "done")
                /\ UNCHANGED <<daemon, dog, pending, main, run, step, made, links, lacking, told, deaf>>

EndTurn(t) == /\ At(t, "turn", "rest") /\ t # "listener"
              /\ UNCHANGED <<daemon, dog, pending, main, run, step, made, links, lacking, told, deaf>>

\* The listener's turn lasts until someone connects; a connection that is not
\* one of a game server or a player is closed.
Connect == /\ At("listener", "turn", "rest")
           /\ \E kinds \in SUBSET {"player", "server"} : links' = links \cup kinds
           /\ UNCHANGED <<daemon, dog, pending, main, run, step, made, lacking, told, deaf>>

-----------------------------------------------------------------------------
Dog == Daemonize \/ ForkFails \/ Fork \/ WaitChild \/ WaitStop
Core == \/ Handlers \/ RunOn \/ StartThread \/ Started \/ LoopTest \/ Enter
        \/ ConsoleEnds \/ Close \/ Slept \/ Clean \/ Exit
Thread(t) == TurnOrEnd(t) \/ EndTurn(t)

Next == \/ Dog \/ Core \/ (\E t \in Threads : Thread(t)) \/ Connect
        \/ ConsoleTyped \/ StopDog \/ StopEarly \/ Stop \/ Crash

Spec == Init /\ [][Next]_vars

\* The processes go on, but nobody has to type, to connect or to send a signal.
LiveSpec == Spec /\ WF_vars(Dog) /\ WF_vars(Core)

-----------------------------------------------------------------------------
\* Unless a start function has failed, a thread begins no turn in which it may need a
\* semaphore that a later start function has yet to make, or that cleanAll has
\* destroyed.  After a failed start there are such turns: for a t_sem of 0 t_semop
\* returns at once (t_sem.c:37).  And a turn that core's five seconds of sleep do not
\* outlast may go on after cleanAll.
TurnsMade == [][\A t \in Threads :
    (~lacking /\ thread[t] = "rest" /\ thread'[t] = "turn") => Needs(t) \subseteq made]_vars

\* A daemon's server that has crashed or ended is replaced, if its watchdog is
\* not told to stop and can fork.
Restarted == (dog = "wait" /\ main = "dead") ~> (main # "dead" \/ dog = "gone")

\* Once told to stop, the server and its watchdog end, unless the signal fell
\* between handler and run=1 or between the test of run and scanf.
StopEnds == (told /\ ~deaf) ~> (deaf \/ (~Alive /\ dog \in {"none", "gone"}))
=============================================================================
