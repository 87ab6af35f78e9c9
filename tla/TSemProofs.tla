----------------------------- MODULE TSemProofs -----------------------------
(***************************************************************************)
(* t_sem.c for any number of threads, any operations and any starting      *)
(* value: typing, the mutual exclusion of its mutex, and the refinement of *)
(* the counting semaphore.                                                 *)
(***************************************************************************)
EXTENDS TSem, TLAPS

\* Typing alone is inductive: val stays a natural number because Passes keeps a
\* take from driving it below zero.
LEMMA Typing == Spec => []TypeOK
<1>1. Init => TypeOK
  BY TSemAssumption DEF Init, TypeOK, PCs
<1>2. TypeOK /\ [Next]_vars => TypeOK'
  <2> SUFFICES ASSUME TypeOK, [Next]_vars
               PROVE  TypeOK'
    OBVIOUS
  <2> USE TSemAssumption DEF TypeOK, PCs, Go
  <2>1. ASSUME NEW t \in Threads, NEW o \in Ops, Call(t, o)
        PROVE  TypeOK'
    BY <2>1 DEF Call
  <2>2. ASSUME NEW t \in Threads, Lock(t)
        PROVE  TypeOK'
    BY <2>2 DEF Lock
  <2>3. ASSUME NEW t \in Threads, Test(t)
        PROVE  TypeOK'
    <3>1. op[t] \in Int
      OBVIOUS
    <3>2. CASE Passes(op[t]) /\ val' = val + op[t]
      <4>1. val + op[t] \in Nat
        BY <3>1, <3>2 DEF Passes
      <4> QED
        BY <2>3, <3>2, <4>1 DEF Test
    <3>3. CASE UNCHANGED val
      BY <2>3, <3>3 DEF Test
    <3> QED
      BY <2>3, <3>2, <3>3 DEF Test
  <2>4. ASSUME NEW t \in Threads, Unlock(t)
        PROVE  TypeOK'
    BY <2>4 DEF Unlock
  <2>5. ASSUME NEW t \in Threads, Wake(t)
        PROVE  TypeOK'
    BY <2>5 DEF Wake
  <2>6. CASE UNCHANGED vars
    BY <2>6 DEF vars
  <2> QED
    BY <2>1, <2>2, <2>3, <2>4, <2>5, <2>6 DEF Next, Step
<1> QED
  BY <1>1, <1>2, PTL DEF Spec

\* The sets and program counters that make MutexInv and the refinement inductive:
\* the mutex is held exactly in the critical section, and a thread whose operation
\* is still to be done is outside it, or has tested in vain.
Held == /\ MutexInv
        /\ \A t \in Threads : pc[t] \in {"lock", "test", "sleep"} => again[t]

LEMMA HeldInvariant == Spec => []Held
<1>1. Init => Held
  BY DEF Init, Held, MutexInv
<1>2. TypeOK /\ Held /\ [Next]_vars => Held'
  <2> SUFFICES ASSUME TypeOK, Held, [Next]_vars
               PROVE  Held'
    OBVIOUS
  <2> USE DEF TypeOK, Held, MutexInv, PCs, Go
  <2>1. ASSUME NEW t \in Threads, NEW o \in Ops, Call(t, o)
        PROVE  Held'
    BY <2>1 DEF Call
  <2>2. ASSUME NEW t \in Threads, Lock(t)
        PROVE  Held'
    BY <2>2 DEF Lock
  <2>3. ASSUME NEW t \in Threads, Test(t)
        PROVE  Held'
    BY <2>3 DEF Test
  <2>4. ASSUME NEW t \in Threads, Unlock(t)
        PROVE  Held'
    <3>1. mutex = {t} /\ mutex' = {}
      BY <2>4 DEF Unlock
    <3> QED
      BY <2>4, <3>1 DEF Unlock
  <2>5. ASSUME NEW t \in Threads, Wake(t)
        PROVE  Held'
    BY <2>5 DEF Wake
  <2>6. CASE UNCHANGED vars
    BY <2>6 DEF vars
  <2> QED
    BY <2>1, <2>2, <2>3, <2>4, <2>5, <2>6 DEF Next, Step
<1> QED
  BY <1>1, <1>2, Typing, PTL DEF Spec

\* The value of a semaphore is always a natural number and every variable has its
\* type: t_semop never drives val[0] below zero, whatever the threads pass.
THEOREM TSemTypeOK == Spec => []TypeOK
BY Typing

\* Between pthread_mutex_lock and pthread_mutex_unlock a thread is alone, so the
\* read-modify-write of val is never torn.
THEOREM TSemMutex == Spec => []MutexInv
<1>1. Held => MutexInv
  BY DEF Held
<1> QED
  BY <1>1, HeldInvariant, PTL

\* t_semop, with its mutex and its polling, implements the counting semaphore for
\* every set of threads: only the test that lets a caller through is its grant.
THEOREM TSemRefines == Spec => ImplementsSemaphore
<1> USE TSemAssumption
<1>1. Init => Abstract!Init
  BY DEF Init, Abstract!Init, Waiting
<1>2. TypeOK /\ Held /\ [Next]_vars => [Abstract!Next]_(Abstract!vars)
  <2> SUFFICES ASSUME TypeOK, Held, [Next]_vars
               PROVE  Abstract!Next \/ UNCHANGED <<val, Waiting, op>>
    BY DEF Abstract!vars
  <2> USE DEF TypeOK, Held, MutexInv, PCs, Go
  <2>1. ASSUME NEW t \in Threads, NEW o \in Ops, Call(t, o)
        PROVE  Abstract!Call(t, o)
    <3>1. t \notin Waiting
      BY <2>1 DEF Call, Waiting
    <3>2. Waiting' = Waiting \cup {t}
      BY <2>1 DEF Call, Waiting
    <3> QED
      BY <2>1, <3>1, <3>2 DEF Call, Abstract!Call
  <2>2. ASSUME NEW t \in Threads, Lock(t)
        PROVE  UNCHANGED <<val, Waiting, op>>
    BY <2>2 DEF Lock, Waiting
  <2>3. ASSUME NEW t \in Threads, Test(t)
        PROVE  Abstract!Grant(t) \/ UNCHANGED <<val, Waiting, op>>
    <3>1. CASE Passes(op[t]) /\ val' = val + op[t] /\ again' = [again EXCEPT ![t] = FALSE]
      <4>1. t \in Waiting
        BY <2>3 DEF Test, Waiting
      <4>2. Waiting' = Waiting \ {t}
        BY <2>3, <3>1 DEF Test, Waiting
      <4>3. Abstract!Passes(op[t], val)
        BY <3>1 DEF Passes, Abstract!Passes
      <4> QED
        BY <2>3, <3>1, <4>1, <4>2, <4>3 DEF Test, Abstract!Grant
    <3>2. CASE UNCHANGED <<val, again>>
      <4>1. Waiting' = Waiting
        BY <2>3, <3>2 DEF Test, Waiting
      <4> QED
        BY <2>3, <3>2, <4>1 DEF Test
    <3> QED
      BY <2>3, <3>1, <3>2 DEF Test
  <2>4. ASSUME NEW t \in Threads, Unlock(t)
        PROVE  UNCHANGED <<val, Waiting, op>>
    BY <2>4 DEF Unlock, Waiting
  <2>5. ASSUME NEW t \in Threads, Wake(t)
        PROVE  UNCHANGED <<val, Waiting, op>>
    BY <2>5 DEF Wake, Waiting
  <2>6. CASE UNCHANGED vars
    BY <2>6 DEF vars, Waiting
  <2> QED
    BY <2>1, <2>2, <2>3, <2>4, <2>5, <2>6 DEF Next, Step, Abstract!Next
<1> QED
  BY <1>1, <1>2, Typing, HeldInvariant, PTL DEF Spec, Abstract!Spec, ImplementsSemaphore
=============================================================================
