----------------------------- MODULE Semaphore -----------------------------
(***************************************************************************)
(* What t_sem.c promises the threads that call it: a counting semaphore.   *)
(* A call waits; at one indivisible moment it is granted and the count     *)
(* changes.  TSem shows that the polling loops of t_semop keep this        *)
(* promise, and the other modules use a semaphore in this form.            *)
(***************************************************************************)
EXTENDS Integers

CONSTANTS Threads,   \* the threads of the process
          Ops,       \* the sem_op values they pass to t_semop
          InitVal    \* the count once the creator has posted it

VARIABLES count,     \* the semaphore's value
          waiting,   \* the threads inside a call that has not been granted
          op         \* the sem_op of each thread's latest call

vars == <<count, waiting, op>>

\* When sem_op may be applied to a count: zero waits for zero, a negative
\* operation waits until the count covers it, a positive one never waits.
Passes(o, c) == (o = 0 => c = 0) /\ (o < 0 => c >= -o)

Init == /\ count = InitVal
        /\ waiting = {}
        /\ op \in [Threads -> Ops]

Call(t, o) == /\ t \notin waiting
              /\ waiting' = waiting \cup {t}
              /\ op' = [op EXCEPT ![t] = o]
              /\ UNCHANGED count

Grant(t) == /\ t \in waiting
            /\ Passes(op[t], count)
            /\ count' = count + op[t]
            /\ waiting' = waiting \ {t}
            /\ UNCHANGED op

Next == \E t \in Threads : Grant(t) \/ \E o \in Ops : Call(t, o)

Spec == Init /\ [][Next]_vars
=============================================================================
