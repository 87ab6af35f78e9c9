------------------------------- MODULE TSem -------------------------------
(***************************************************************************)
(* t_sem.c: the semaphore of the server, a counter under a pthread mutex   *)
(* that callers poll every 30 ms.  One action per step of t_semop that     *)
(* another thread can observe: take the mutex, test and change the value,  *)
(* give the mutex back, sleep before the next try.                         *)
(***************************************************************************)
EXTENDS Integers

CONSTANTS Threads, Ops, InitVal,
          MaxVal       \* bound of the model: no post starts at this value or above

ASSUME TSemAssumption == /\ Ops \subseteq Int
                         /\ InitVal \in Nat
                         /\ MaxVal \in Nat

VARIABLES val,    \* s->val[0]
          mutex,  \* the set of threads inside s->mutex
          pc,     \* where each thread is in t_semop
          op,     \* sops->sem_op of its latest call
          again   \* the loop variable $_$: the operation is still to be done

vars == <<val, mutex, pc, op, again>>

PCs == {"idle", "lock", "test", "unlock", "sleep"}

TypeOK == /\ val \in Nat
          /\ mutex \in SUBSET Threads
          /\ pc \in [Threads -> PCs]
          /\ op \in [Threads -> Ops]
          /\ again \in [Threads -> BOOLEAN]

Init == /\ val = InitVal
        /\ mutex = {}
        /\ pc = [t \in Threads |-> "idle"]
        /\ op \in [Threads -> Ops]
        /\ again = [t \in Threads |-> FALSE]

Go(t, from, to) == pc[t] = from /\ pc' = [pc EXCEPT ![t] = to]

\* Mutant of Passes: t_semop does not look at the value.
PassesBlind(o) == TRUE

\* Whether the branch t_semop takes for sem_op lets it through now.
Passes(o) == (o = 0 => val = 0) /\ (o < 0 => val >= -o)

\* A thread calls t_semop.  (A null semaphore returns at once: no call.)
Call(t, o) == /\ Go(t, "idle", "lock")
              /\ o > 0 => val < MaxVal
              /\ op' = [op EXCEPT ![t] = o]
              /\ again' = [again EXCEPT ![t] = TRUE]
              /\ UNCHANGED <<val, mutex>>

\* Mutant of Lock: no pthread_mutex_lock.
LockBlind(t) == /\ Go(t, "lock", "test")
                /\ mutex' = mutex \cup {t}
                /\ UNCHANGED <<val, op, again>>

Lock(t) == /\ Go(t, "lock", "test")
           /\ mutex = {}
           /\ mutex' = {t}
           /\ UNCHANGED <<val, op, again>>

\* Mutant of Test: the loop variable is not cleared when the operation is done.
TestTwice(t) == /\ Go(t, "test", "unlock")
                /\ val' = IF Passes(op[t]) THEN val + op[t] ELSE val
                /\ UNCHANGED <<mutex, op, again>>

Test(t) == /\ Go(t, "test", "unlock")
           /\ \/ /\ Passes(op[t])
                 /\ val' = val + op[t]
                 /\ again' = [again EXCEPT ![t] = FALSE]
              \/ /\ ~Passes(op[t])
                 /\ UNCHANGED <<val, again>>
           /\ UNCHANGED <<mutex, op>>

\* Mutant of Unlock: a thread sleeps with the mutex held.
UnlockLate(t) == /\ Go(t, "unlock", IF again[t] THEN "sleep" ELSE "idle")
                 /\ mutex' = IF again[t] THEN mutex ELSE mutex \ {t}
                 /\ UNCHANGED <<val, op, again>>

Unlock(t) == /\ Go(t, "unlock", IF again[t] THEN "sleep" ELSE "idle")
             /\ mutex' = mutex \ {t}
             /\ UNCHANGED <<val, op, again>>

Wake(t) == /\ Go(t, "sleep", "lock")
           /\ UNCHANGED <<val, mutex, op, again>>

Step(t) == Lock(t) \/ Test(t) \/ Unlock(t) \/ Wake(t)

Next == \E t \in Threads : Step(t) \/ \E o \in Ops : Call(t, o)

Spec == Init /\ [][Next]_vars

(***************************************************************************)
(* A thread inside t_semop keeps running, and a thread at                  *)
(* pthread_mutex_lock is not overtaken for ever: the mutex is held for a   *)
(* few instructions, and whoever retries sleeps 30 ms first.               *)
(***************************************************************************)
Fairness == \A t \in Threads : /\ WF_vars(Test(t) \/ Unlock(t) \/ Wake(t))
                               /\ SF_vars(Lock(t))

LiveSpec == Spec /\ Fairness

-----------------------------------------------------------------------------
\* The refinement mapping: a call is waiting until the test that lets it through.
Waiting == {t \in Threads : \/ pc[t] \in {"lock", "test", "sleep"}
                            \/ pc[t] = "unlock" /\ again[t]}

Abstract == INSTANCE Semaphore WITH count <- val, waiting <- Waiting

\* t_semop as its callers use it: every poll-and-retry execution is one of the
\* indivisible counting semaphore (t_sem.c:1-3 "counting semaphore for threads").
ImplementsSemaphore == Abstract!Spec

\* The mutex of t_sem.c really serialises the read-modify-write of val: a thread
\* between pthread_mutex_lock and _unlock is the only holder.
MutexInv == \A t \in Threads : pc[t] \in {"test", "unlock"} <=> mutex = {t}

\* A poll is never lost: a thread whose operation stays possible from some moment
\* on gets out of t_semop, however the other threads' polls interleave with it.
NoLostPoll == \A t \in Threads : <>[](Passes(op[t])) => []<>(pc[t] = "idle")
=============================================================================
