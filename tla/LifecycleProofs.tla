-------------------------- MODULE LifecycleProofs --------------------------
(***************************************************************************)
(* The server's start and end: what the processes may hold, and that no    *)
(* thread begins a turn without the semaphores it may need in it, however  *)
(* often the watchdog starts the server and wherever a crash or a signal   *)
(* cuts a start or an end short.                                           *)
(***************************************************************************)
EXTENDS Lifecycle, TLAPS

\* The semaphores of the start functions that core has called.
Begun == {"log"} \cup UNION {ToSet(Makes(Order[i])) : i \in 1..step - 1}

\* The threads start in the order of Order, after the semaphore of the log, and
\* there are connections only when the last of them, the listener, has started.
StartInv == /\ main \in {"begin", "handled"} => thread = NoThread /\ step = 1
            /\ \A i \in 1..Len(Order) : thread[Order[i]] # "none" => i < step
            /\ links # {} => step > Len(Order)

\* Nothing is destroyed while config.run is set, so what was begun is there.
MadeInv == /\ main \in {"none", "begin", "handled", "close", "sleep", "clean"} => ~run
           /\ Alive /\ run /\ ~lacking => Begun \subseteq made

IInv == TypeOK /\ StartInv /\ MadeInv

\* What a thread may need is made before or with it, and what its connections need
\* is made before or with the listener.
LEMMA NeedsMade ==
  ASSUME IInv, Alive, run, ~lacking, NEW t \in Threads, thread[t] # "none"
  PROVE  Needs(t) \subseteq made
<1>1. PICK i \in 1..5 : t = Order[i] /\ Len(Order) = 5
  BY DEF Threads, Order
<1>2. i < step /\ step \in 1..6
  BY <1>1 DEF IInv, StartInv, TypeOK
<1>3. Begun \subseteq made
  BY DEF IInv, MadeInv
<1>4. \A j \in 1..i : ToSet(Makes(Order[j])) \subseteq made
  BY <1>1, <1>2, <1>3 DEF Begun
<1>5. links # {} => \A j \in 1..5 : ToSet(Makes(Order[j])) \subseteq made
  BY <1>1, <1>2, <1>3 DEF IInv, StartInv, Begun
<1>6. /\ ToSet(Makes(Order[1])) = {"updater", "db"}
      /\ ToSet(Makes(Order[2])) = {"serverworker", "room"}
      /\ ToSet(Makes(Order[3])) = {"watcher"}
      /\ ToSet(Makes(Order[4])) = {"worker"}
      /\ ToSet(Makes(Order[5])) = {"player"}
  BY DEF ToSet, Makes, Order
<1> QED
  BY <1>1, <1>4, <1>5, <1>6 DEF Needs, Order

\* One more start function has been called.
LEMMA BegunGrows ==
  ASSUME step \in 1..Len(Order), step' = step + 1
  PROVE  Begun' = Begun \cup ToSet(Makes(Order[step]))
<1>1. Len(Order) = 5
  BY DEF Order
<1>2. 1..step' - 1 = (1..step - 1) \cup {step}
  BY <1>1
<1> QED
  BY <1>2 DEF Begun

LEMMA InitIInv == Init => IInv
<1> SUFFICES ASSUME Init
             PROVE  IInv
  OBVIOUS
<1> USE DEF Init, Fresh
<1>0. Len(Order) = 5
  BY DEF Order
<1>1. TypeOK
  <2>1. NoThread \in [Threads -> {"none", "rest", "turn", "done"}]
    BY DEF NoThread
  <2>2. dog \in {"none", "start"} /\ main \in {"none", "begin"}
    OBVIOUS
  <2>3. step \in 1..Len(Order) + 1 /\ made \subseteq Semaphores /\ links \subseteq {"player", "server"}
    BY <1>0
  <2>4. /\ run \in BOOLEAN /\ lacking \in BOOLEAN /\ told \in BOOLEAN /\ deaf \in BOOLEAN
        /\ daemon \in BOOLEAN /\ pending \subseteq {"stop", "child"}
    OBVIOUS
  <2>5. made = {} /\ thread = NoThread
    OBVIOUS
  <2> HIDE DEF Init, Fresh
  <2> QED
    BY <2>1, <2>2, <2>3, <2>4, <2>5 DEF TypeOK
<1>2. StartInv /\ MadeInv
  BY DEF StartInv, MadeInv, NoThread, Order, Alive, Threads
<1> QED
  BY <1>1, <1>2 DEF IInv

\* The watchdog and the end of the process.
LEMMA DogIInv ==
  ASSUME IInv, Dog \/ StopDog \/ StopEarly \/ Crash \/ Exit
  PROVE  IInv'
<1> USE DEF IInv, TypeOK, StartInv, MadeInv, process, Alive
<1>1. CASE Daemonize
  BY <1>1 DEF Daemonize, Begun
<1>2. CASE ForkFails
  BY <1>2 DEF ForkFails, Begun
<1>3. CASE Fork
  <2>1. Len(Order) = 5 /\ \A i \in 1..5 : Order[i] \in Threads
    BY DEF Order, Threads
  <2>2. /\ main' = "begin" /\ run' = FALSE /\ step' = 1 /\ made' = {} /\ thread' = NoThread
        /\ links' = {} /\ lacking' = FALSE /\ dog' = "wait"
        /\ UNCHANGED <<daemon, pending, told, deaf>>
    BY <1>3 DEF Fork
  <2>3. NoThread \in [Threads -> {"none", "rest", "turn", "done"}] /\ \A t \in Threads : NoThread[t] = "none"
    BY DEF NoThread
  <2>4. TypeOK'
    <3>0. 1 \in 1..Len(Order) + 1
      BY <2>1
    <3>1. step' \in 1..Len(Order) + 1 /\ run' \in BOOLEAN /\ lacking' \in BOOLEAN
      BY <2>2, <3>0, Zenon
    <3>2. made' \subseteq Semaphores /\ links' \subseteq {"player", "server"}
      BY <2>2
    <3> QED
      BY <2>2, <2>3, <3>1, <3>2
  <2>5. StartInv' /\ MadeInv'
    BY <2>1, <2>2, <2>3
  <2> QED
    BY <2>4, <2>5
<1>4. CASE WaitChild
  BY <1>4 DEF WaitChild, Begun
<1>5. CASE WaitStop
  BY <1>5 DEF WaitStop, Begun
<1>6. CASE StopDog
  BY <1>6 DEF StopDog, Begun
<1>7. CASE StopEarly \/ Crash \/ Exit
  <2>1. /\ main' = "dead" /\ made' = {} /\ thread' = NoThread
        /\ UNCHANGED <<daemon, dog, run, step, links, lacking, deaf>>
        /\ pending' \subseteq {"stop", "child"} /\ told' \in BOOLEAN
    BY <1>7 DEF StopEarly, Crash, Exit, Dies
  <2>2. Len(Order) = 5 /\ \A i \in 1..5 : Order[i] \in Threads
    BY DEF Order, Threads
  <2>3. NoThread \in [Threads -> {"none", "rest", "turn", "done"}] /\ \A t \in Threads : NoThread[t] = "none"
    BY DEF NoThread
  <2> QED
    BY <2>1, <2>2, <2>3
<1> QED
  BY <1>1, <1>2, <1>3, <1>4, <1>5, <1>6, <1>7 DEF Dog

\* core.
LEMMA CoreIInv ==
  ASSUME IInv, Core \/ ConsoleTyped \/ Stop, ~Exit
  PROVE  IInv'
<1> USE DEF IInv, TypeOK, StartInv, MadeInv, process, Alive, Goes
<1>0. Len(Order) = 5 /\ \A i \in 1..5 : Order[i] \in Threads
  BY DEF Order, Threads
<1>1. CASE Handlers
  BY <1>1 DEF Handlers, Begun
<1>2. CASE RunOn
  <2>1. 1..step - 1 = {}
    BY <1>2 DEF RunOn
  <2>2. Begun' = {"log"}
    BY <1>2, <2>1 DEF RunOn, Begun
  <2> QED
    BY <1>2, <2>2 DEF RunOn, Semaphores
<1>3. CASE StartThread
  <2> DEFINE t == Order[step]
  <2>1. step \in 1..5 /\ step' = step + 1 /\ step' \in 1..6 /\ main = "start" /\ t \in Threads
    BY <1>0, <1>3 DEF StartThread
  <2>2. Begun' = Begun \cup ToSet(Makes(t))
    BY <1>0, <2>1, BegunGrows
  <2>3. ToSet(Makes(t)) \subseteq Semaphores
    BY <2>1 DEF Semaphores
  <2>4. \A n \in 0..Len(Makes(t)) : ToSet(SubSeq(Makes(t), 1, n)) \subseteq ToSet(Makes(t))
    BY <2>1 DEF ToSet, Makes, Threads
  <2>5. UNCHANGED <<daemon, dog, pending, main, run, links, told, deaf>>
    BY <1>3 DEF StartThread
  <2>6. \/ /\ made' = made \cup ToSet(Makes(t)) /\ lacking' = lacking
           /\ thread' = [thread EXCEPT ![t] = "rest"]
        \/ /\ lacking' = TRUE /\ thread' = thread
           /\ \E n \in 0..Len(Makes(t)) : made' = made \cup ToSet(SubSeq(Makes(t), 1, n))
    BY <1>3 DEF StartThread
  <2> HIDE DEF t
  <2>7. made' \subseteq Semaphores
    BY <2>3, <2>4, <2>6
  <2>8. TypeOK'
    <3>1. lacking' \in BOOLEAN
      BY <2>6
    <3>2. thread' \in [Threads -> {"none", "rest", "turn", "done"}]
      BY <2>1, <2>6
    <3>3. step' \in 1..Len(Order) + 1
      BY <1>0, <2>1
    <3> QED
      BY <2>1, <2>5, <2>7, <3>1, <3>2, <3>3
  <2>9. StartInv'
    BY <1>0, <2>1, <2>5, <2>6 DEF t, Order
  <2>10. MadeInv'
    BY <2>1, <2>2, <2>5, <2>6
  <2> QED
    BY <2>8, <2>9, <2>10
<1>4. CASE Started \/ LoopTest \/ Enter \/ Close \/ Slept
  <2>1. /\ UNCHANGED <<daemon, dog, pending, run, step, made, thread, links, lacking, told, deaf>>
        /\ main \in {"start", "loop", "enter", "close", "sleep"}
        /\ main' \in {"loop", "enter", "console", "close", "sleep", "clean"}
    BY <1>4 DEF Started, LoopTest, Enter, Close, Slept
  <2>2. main' \in {"close", "sleep", "clean"} => ~run
    BY <1>4 DEF Started, LoopTest, Enter, Close, Slept
  <2>3. Begun' = Begun
    BY <2>1 DEF Begun
  <2>4. TypeOK' /\ StartInv'
    BY <2>1
  <2>5. MadeInv'
    BY <2>1, <2>2, <2>3
  <2> QED
    BY <2>4, <2>5
<1>5. CASE ConsoleEnds \/ ConsoleTyped
  BY <1>5 DEF ConsoleEnds, ConsoleTyped, ConsoleReturns, Begun
<1>6. CASE Clean
  BY <1>6 DEF Clean
<1>7. CASE Stop
  <2>1. /\ UNCHANGED <<daemon, dog, pending, step, made, thread, links, lacking>>
        /\ told' = TRUE /\ run' = FALSE /\ deaf' \in BOOLEAN
        /\ main # "begin" /\ Alive
    BY <1>7 DEF Stop
  <2>2. /\ main = "console" => main' = "loop"
        /\ main = "sleep" => main' = "clean"
        /\ main \notin {"console", "sleep"} => main' = main
    BY <1>7 DEF Stop
  <2>3. TypeOK' /\ StartInv'
    BY <2>1, <2>2
  <2>4. MadeInv'
    BY <2>1
  <2> QED
    BY <2>3, <2>4
<1> QED
  BY <1>1, <1>2, <1>3, <1>4, <1>5, <1>6, <1>7 DEF Core

LEMMA ThreadIInv ==
  ASSUME IInv, (\E t \in Threads : Thread(t)) \/ Connect \/ UNCHANGED vars
  PROVE  IInv'
<1> USE DEF IInv, TypeOK, StartInv, MadeInv, process, Alive, At
<1>0. Len(Order) = 5 /\ \A i \in 1..5 : Order[i] \in Threads
  BY DEF Order, Threads
<1>1. ASSUME NEW t \in Threads, Thread(t)
      PROVE  IInv'
  <2>1. /\ UNCHANGED <<daemon, dog, pending, main, run, step, made, links, lacking, told, deaf>>
        /\ thread[t] \in {"rest", "turn"} /\ \E p \in {"turn", "done", "rest"} : thread' = [thread EXCEPT ![t] = p]
    BY <1>1 DEF Thread, TurnOrEnd, EndTurn
  <2>2. thread # NoThread
    BY <1>1, <2>1 DEF NoThread
  <2> QED
    BY <1>0, <1>1, <2>1, <2>2 DEF Begun
<1>2. CASE Connect
  <2>1. /\ UNCHANGED <<daemon, dog, pending, main, run, step, made, lacking, told, deaf>>
        /\ thread["listener"] = "turn" /\ thread' = [thread EXCEPT !["listener"] = "rest"]
        /\ links' \subseteq {"player", "server"}
    BY <1>2 DEF Connect
  <2>2. thread # NoThread /\ "listener" \in Threads /\ Order[5] = "listener"
    BY <2>1 DEF NoThread, Threads, Order
  <2>3. step > 5
    BY <1>0, <2>1, <2>2
  <2> QED
    BY <1>0, <2>1, <2>2, <2>3 DEF Begun
<1>3. CASE UNCHANGED vars
  BY <1>3 DEF vars, Begun
<1> QED
  BY <1>1, <1>2, <1>3

LEMMA NextIInv ==
  ASSUME IInv, [Next]_vars
  PROVE  IInv'
BY DogIInv, CoreIInv, ThreadIInv DEF Next, Core

\* Where the watchdog, core and the threads can be, and that nothing of a process is
\* left when it is dead.
THEOREM LifecycleTypeOK == Spec => []TypeOK
<1>1. Init => IInv
  BY InitIInv
<1>2. IInv /\ [Next]_vars => IInv'
  BY NextIInv
<1>3. IInv => TypeOK
  BY DEF IInv
<1> QED
  BY <1>1, <1>2, <1>3, PTL DEF Spec

\* A thread begins no turn without the semaphores it may need in it, unless one of
\* the start functions failed.
THEOREM LifecycleTurnsMade == Spec => TurnsMade
<1> DEFINE Turns == \A t \in Threads :
                      (~lacking /\ thread[t] = "rest" /\ thread'[t] = "turn") => Needs(t) \subseteq made
<1>1. Init => IInv
  BY InitIInv
<1>2. IInv /\ [Next]_vars => IInv'
  BY NextIInv
<1>3. IInv /\ [Next]_vars => [Turns]_vars
  <2> SUFFICES ASSUME IInv, [Next]_vars, NEW t \in Threads,
                      ~lacking, thread[t] = "rest", thread'[t] = "turn"
               PROVE  Needs(t) \subseteq made
    OBVIOUS
  <2>1. Alive
    BY DEF IInv, TypeOK, NoThread
  <2>2. run
    BY DEF Next, Dog, Daemonize, ForkFails, Fork, WaitChild, WaitStop, StopDog, StopEarly, Stop, Crash,
           Dies, Core, Handlers, RunOn, StartThread, Started, LoopTest, Enter, ConsoleEnds, ConsoleTyped,
           ConsoleReturns, Close, Slept, Clean, Exit, Thread, TurnOrEnd, EndTurn, Connect, At, Goes,
           process, vars, NoThread, IInv, TypeOK
  <2> QED
    BY <2>1, <2>2, NeedsMade
<1> QED
  BY <1>1, <1>2, <1>3, PTL DEF Spec, TurnsMade
=============================================================================
