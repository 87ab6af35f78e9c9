----------------------------- MODULE LinksProofs -----------------------------
(***************************************************************************)
(* The descriptors of game servers' connections between the listener, the  *)
(* serverworker and the updater, for any number of game servers, any limit *)
(* on descriptors and lists of any length.                                 *)
(***************************************************************************)
EXTENDS Links, TLAPS, FiniteSetTheorems, SequenceTheorems

-----------------------------------------------------------------------------
(* The inductive invariants *)

\* The node that is to be dropped or passed on is there: only its own thread takes
\* nodes from a list.
WalkInv == /\ \A w \in Workers : pc[w] \in {"status", "result", "pass", "drop"} => at[w] <= Len(List(w))
           /\ pc["u"] \in {"idle", "read", "drop"}

\* A descriptor in a local variable is there for one step, and in one variable.
HandInv == /\ ~listening => accepted = 0
           /\ pc["s"] # "pass" => passed = 0
           /\ spoiled \/ (accepted = passed => accepted = 0)

\* What descriptors refer to.
FileInv == spoiled \/ /\ \A f \in Fds : f \in others <=> file[f] = Other
                      /\ \A f \in Fds : file[f] \in Servers => file[f] <= last

InList(f, list) == \E i \in DOMAIN list : list[i] = f

\* g is the duplicate of f that was made to pass the connection on.
Duplicate(f, g) == \/ pc["s"] = "pass" /\ f = Node("s") /\ g = passed
                   \/ pc["s"] = "drop" /\ f = Node("s") /\ InList(g, tasks)

\* Two descriptors of one connection exist from dup until the serverworker closes its own.
TwinInv == spoiled \/ \A f, g \in Fds :
    f # g /\ file[f] = file[g] /\ file[f] \in Servers => Duplicate(f, g) \/ Duplicate(g, f)

TypeInv == TypeOK /\ WalkInv
OwnInv == TypeInv /\ HandInv /\ FileInv /\ SocketsOwned
IInv == OwnInv /\ TwinInv

-----------------------------------------------------------------------------
(* Typing *)

\* A non-empty set of natural numbers has a least element, and Min is it.
LEMMA MinIsLeast ==
  ASSUME NEW S \in SUBSET Nat, S # {}
  PROVE  Min(S) \in S
<1> DEFINE R == {ss \in Nat \X Nat : ss[1] < ss[2]}
<1>1. IsWellFoundedOn(R, Nat)
  BY NatLessThanWellFounded, Zenon DEF OpToRel
<1>2. PICK m \in S : \A n \in S : <<n, m>> \notin R
  <2> HIDE DEF R
  <2> QED
    BY <1>1, WFMin, Zenon
<1>3. ASSUME NEW n \in S, n < m
      PROVE  FALSE
  <2>1. <<n, m>> \in R
    BY <1>3
  <2> QED
    BY <1>2, <2>1
<1>4. \E x \in S : \A y \in S : x <= y
  <2> HIDE DEF R
  <2> QED
    BY <1>3
<1> QED
  BY <1>4, Zenon DEF Min

\* accept and dup return a descriptor that was free, if there is one.
LEMMA LowestIsFree ==
  /\ Lowest \in Fds \cup {0} /\ Lowest \in 0..Limit
  /\ Lowest # 0 => file[Lowest] = 0
  /\ Free # {} => Lowest \in Fds
<1> USE LinksAssumption DEF Fds
<1>1. CASE Free = {}
  BY <1>1 DEF Lowest
<1>2. CASE Free # {}
  <2>1. Free \in SUBSET Nat
    BY DEF Free
  <2>2. Min(Free) \in Free
    BY <1>2, <2>1, MinIsLeast
  <2> QED
    BY <1>2, <2>2 DEF Lowest, Free
<1> QED
  BY <1>1, <1>2

\* An update keeps the type of a function, also one of an argument it does not have.
LEMMA UpdateType ==
  ASSUME NEW S, NEW T, NEW f \in [S -> T], NEW x, NEW y, x \in S => y \in T
  PROVE  [f EXCEPT ![x] = y] \in [S -> T]
OBVIOUS

LEMMA OpenedType ==
  ASSUME file \in [Fds -> 0..Other], NEW f, NEW x \in 0..Other
  PROVE  Opened(f, x) \in [Fds -> 0..Other]
BY UpdateType, Zenon DEF Opened

LEMMA ClosedType ==
  ASSUME file \in [Fds -> 0..Other], NEW f
  PROVE  Closed(f) \in [Fds -> 0..Other]
<1>1. 0 \in 0..Other
  BY LinksAssumption DEF Other
<1> QED
  BY <1>1, UpdateType, Zenon DEF Closed

LEMMA RefersType ==
  ASSUME file \in [Fds -> 0..Other], NEW f \in 0..Limit
  PROVE  Refers(f) \in 0..Other
<1>1. f = 0 \/ f \in Fds
  BY LinksAssumption DEF Fds
<1>2. 0 \in 0..Other
  BY LinksAssumption DEF Other
<1> QED
  BY <1>1, <1>2, Zenon DEF Refers

\* The lists are kept by appending nodes and by taking the first.
LEMMA ListTypes ==
  ASSUME NEW list \in Seq(0..Limit)
  PROVE  /\ \A e \in 0..Limit : /\ Append(list, e) \in Seq(0..Limit)
                                /\ Len(Append(list, e)) = Len(list) + 1
                                /\ \A i \in 1..Len(list) : Append(list, e)[i] = list[i]
         /\ \A i \in Nat \ {0} : i <= Len(list) => list[i] \in 0..Limit /\ Tail(list) \in Seq(0..Limit)
<1>1. \A e \in 0..Limit : /\ Append(list, e) \in Seq(0..Limit)
                          /\ Len(Append(list, e)) = Len(list) + 1
                          /\ \A i \in 1..Len(list) : Append(list, e)[i] = list[i]
  BY AppendProperties
<1>2. Len(list) \in Nat /\ \A i \in 1..Len(list) : list[i] \in 0..Limit
  BY LenProperties, ElementOfSeq
<1>3. Len(list) # 0 => Tail(list) \in Seq(0..Limit)
  BY EmptySeq, HeadTailProperties
<1> QED
  BY <1>1, <1>2, <1>3

LEMMA NodeTypes ==
  ASSUME TypeInv, NEW w \in Workers
  PROVE  /\ List(w) \in Seq(0..Limit)
         /\ at[w] <= Len(List(w)) => Node(w) \in 0..Limit /\ Tail(List(w)) \in Seq(0..Limit)
<1>1. List(w) \in Seq(0..Limit) /\ at[w] \in Nat \ {0}
  BY DEF TypeInv, TypeOK, List, Workers
<1> QED
  BY <1>1, ListTypes DEF Node

LEMMA InitTypeInv == Init => TypeInv
<1> SUFFICES ASSUME Init
             PROVE  TypeInv
  OBVIOUS
<1> USE LinksAssumption DEF Init
<1>1. TypeOK
  <2>1. file \in [Fds -> 0..Other]
    BY DEF Other, Fds
  <2>2. clients \in Seq(0..Limit) /\ tasks \in Seq(0..Limit)
    OBVIOUS
  <2> QED
    <3>1. 0 \in 0..N /\ 0 \in 0..Limit /\ 0 \in Int /\ 1 \in Nat \ {0} /\ 1 \in 1..2
      OBVIOUS
    <3>2. /\ pc \in [Workers -> Steps] /\ val \in Nat /\ at \in [Workers -> Nat \ {0}]
          /\ try \in [Workers -> 1..2] /\ again \in [Workers -> BOOLEAN]
      BY <3>1 DEF Steps
    <3> QED
      BY <2>1, <2>2, <3>1, <3>2 DEF TypeOK
<1>2. WalkInv
  BY DEF WalkInv, Workers
<1> QED
  BY <1>1, <1>2 DEF TypeInv

LEMMA OutsideTypeInv ==
  ASSUME TypeInv, Outside \/ AddClient
  PROVE  TypeInv'
<1> USE LinksAssumption DEF TypeInv, TypeOK, threads, listener, unit
<1>1. CASE OpenOther
  <2>1. file' \in [Fds -> 0..Other] /\ others' \subseteq Fds
    BY <1>1, LowestIsFree, OpenedType DEF OpenOther, Other
  <2> QED
    BY <1>1, <2>1 DEF OpenOther, WalkInv, List
<1>2. CASE CloseOther
  <2>1. file' \in [Fds -> 0..Other] /\ others' \subseteq Fds
    BY <1>2, ClosedType DEF CloseOther
  <2> QED
    BY <1>2, <2>1 DEF CloseOther, WalkInv, List
<1>3. ASSUME NEW c \in Servers, Hangup(c)
      PROVE  TypeInv'
  BY <1>3 DEF Hangup, WalkInv, List
<1>4. CASE Accept
  <2>1. last + 1 \in 0..Other /\ last' \in 0..N
    BY <1>4 DEF Accept, Other
  <2>2. file' \in [Fds -> 0..Other] /\ accepted' \in 0..Limit
    BY <1>4, <2>1, LowestIsFree, OpenedType DEF Accept
  <2> QED
    BY <1>4, <2>1, <2>2 DEF Accept, WalkInv, List
<1>5. CASE AddClient
  <2>1. clients' \in Seq(0..Limit) /\ Len(clients') = Len(clients) + 1
    BY <1>5, ListTypes DEF AddClient
  <2>2. TypeOK'
    <3>1. num + 1 \in Int /\ 0 \in 0..Limit
      OBVIOUS
    <3> QED
      BY <1>5, <2>1, <3>1 DEF AddClient
  <2>3. WalkInv'
    BY <1>5, <2>1 DEF AddClient, WalkInv, List, Workers
  <2> QED
    BY <2>2, <2>3
<1> QED
  BY <1>1, <1>2, <1>3, <1>4, <1>5 DEF Outside

\* What one try and the step to the next node do to the place of the walk.
LEMMA TriedType ==
  ASSUME TypeOK, NEW w \in Workers, Tried(w) \/ NextNode(w)
  PROVE  /\ at' \in [Workers -> Nat \ {0}] /\ try' \in [Workers -> 1..2]
         /\ \A v \in Workers : v # w => at'[v] = at[v]
<1>1. at[w] + 1 \in Nat \ {0} /\ 1 \in 1..2 /\ 2 \in 1..2
  BY DEF TypeOK
<1>2. CASE NextNode(w)
  BY <1>1, <1>2 DEF NextNode, TypeOK
<1>3. CASE Tried(w)
  BY <1>1, <1>2, <1>3 DEF Tried, TypeOK
<1> QED
  BY <1>2, <1>3

LEMMA ReceivesType ==
  ASSUME TypeOK, NEW w \in Workers, Receives(w)
  PROVE  /\ again' \in [Workers -> BOOLEAN]
         /\ pc[w] = "read" /\ at[w] <= Len(List(w))
BY DEF TypeOK, Receives, Here

\* The walk of either thread.
LEMMA WalkTypeInv ==
  ASSUME TypeInv, NEW w \in Workers, Walk(w)
  PROVE  TypeInv'
<1> USE LinksAssumption DEF TypeInv, threads, listener, unit
<1>0. List(w) = IF w = "s" THEN clients ELSE tasks
  BY DEF List
<1>1. CASE Take(w)
  <2>1. pc' \in [Workers -> Steps] /\ again' \in [Workers -> BOOLEAN]
    BY <1>1 DEF Take, Goes, TypeOK, Steps
  <2>2. TypeOK'
    BY <1>1, <2>1 DEF Take, TypeOK
  <2>3. WalkInv'
    BY <1>1 DEF Take, Goes, WalkInv, List, TypeOK
  <2> QED
    BY <2>2, <2>3
<1>2. CASE Release(w)
  <2>1. /\ again' \in [Workers -> BOOLEAN] /\ at' \in [Workers -> Nat \ {0}]
        /\ \A v \in Workers : v # w => at'[v] = at[v]
    BY <1>2 DEF Release, TypeOK
  <2>2. /\ pc' \in [Workers -> Steps] /\ val' \in Nat
        /\ semS' \in {"free", "s"} /\ semU' \in {"free", "u"}
        /\ pc'[w] \in {"walk", "idle"} /\ (w = "u" => pc'[w] = "idle")
        /\ \A v \in Workers : v # w => pc'[v] = pc[v]
    <3>1. CASE w = "s"
      BY <1>2, <3>1 DEF Release, Goes, TypeOK, Steps
    <3>2. CASE w = "u"
      BY <1>2, <3>2 DEF Release, Goes, TypeOK, Steps
    <3> QED
      BY <3>1, <3>2 DEF Workers
  <2>3. TypeOK'
    BY <1>2, <2>1, <2>2 DEF Release, TypeOK
  <2>4. UNCHANGED <<clients, tasks>>
    BY <1>2 DEF Release
  <2>5. WalkInv'
    BY <2>1, <2>2, <2>4 DEF WalkInv, List, Workers
  <2> QED
    BY <2>3, <2>5
<1>3. CASE Silent(w)
  <2>1. /\ again' \in [Workers -> BOOLEAN] /\ pc[w] = "read" /\ pc' = pc
        /\ at' \in [Workers -> Nat \ {0}] /\ try' \in [Workers -> 1..2]
        /\ \A v \in Workers : v # w => at'[v] = at[v]
    BY <1>3, TriedType DEF Silent, Here, TypeOK
  <2>2. TypeOK'
    BY <1>3, <2>1 DEF Silent, TypeOK
  <2>3. WalkInv'
    BY <1>3, <2>1 DEF Silent, WalkInv, List
  <2> QED
    BY <2>2, <2>3
<1>4. CASE Broken(w)
  <2>1. pc' \in [Workers -> Steps] /\ at[w] <= Len(List(w))
    BY <1>4 DEF Broken, Goes, Here, TypeOK, Steps
  <2>2. TypeOK'
    BY <1>4, <2>1 DEF Broken, TypeOK
  <2>3. WalkInv'
    BY <1>4, <2>1 DEF Broken, Goes, WalkInv, List, TypeOK
  <2> QED
    BY <2>2, <2>3
<1>5. CASE Handle(w)
  <2>1. /\ again' \in [Workers -> BOOLEAN] /\ pc[w] = "read" /\ pc' = pc
        /\ at' \in [Workers -> Nat \ {0}] /\ try' \in [Workers -> 1..2]
        /\ \A v \in Workers : v # w => at'[v] = at[v]
    BY <1>5, TriedType, ReceivesType DEF Handle
  <2>2. TypeOK'
    BY <1>5, <2>1 DEF Handle, Receives, TypeOK
  <2>3. WalkInv'
    BY <1>5, <2>1 DEF Handle, Receives, WalkInv, List
  <2> QED
    BY <2>2, <2>3
<1>6. CASE Drop(w)
  <2>1. /\ pc' \in [Workers -> Steps] /\ pc'[w] = "read"
        /\ at' \in [Workers -> Nat \ {0}] /\ try' \in [Workers -> 1..2]
        /\ at[w] <= Len(List(w))
        /\ \A v \in Workers : v # w => at'[v] = at[v] /\ pc'[v] = pc[v]
    BY <1>6 DEF Drop, Goes, TypeOK, WalkInv, Steps
  <2>2. Tail(List(w)) \in Seq(0..Limit)
    BY <2>1, NodeTypes
  <2>3. file' \in [Fds -> 0..Other]
    BY <1>6, ClosedType DEF Drop, TypeOK
  <2>4. num - 1 \in Int
    BY DEF TypeOK
  <2>5. (spoiled \/ at[w] # 1) \in BOOLEAN
    BY DEF TypeOK
  <2>6. clients' \in Seq(0..Limit) /\ tasks' \in Seq(0..Limit) /\ num' \in Int /\ spoiled' \in BOOLEAN
    BY <1>6, <1>0, <2>2, <2>4, <2>5 DEF Drop, TypeOK
  <2>7. TypeOK'
    BY <1>6, <2>1, <2>3, <2>6 DEF Drop, TypeOK
  <2>8. WalkInv'
    BY <1>6, <2>1 DEF Drop, WalkInv, List, Workers
  <2> QED
    BY <2>7, <2>8
<1> QED
  BY <1>1, <1>2, <1>3, <1>4, <1>5, <1>6 DEF Walk

\* What moves a thread or t_sem.room and leaves descriptors and lists alone.
Waits == HandleLast \/ HandleRoom \/ Status \/ NoAnswer \/ EndWalk \/ Worker

LEMMA WaitsStep ==
  ASSUME TypeInv, Waits
  PROVE  /\ UNCHANGED <<listener, file, others, gone, semS, semU, clients, num, tasks, at, try, passed, spoiled>>
         /\ pc' \in [Workers -> Steps] /\ again' \in [Workers -> BOOLEAN]
         /\ val' \in Nat /\ inside' \in BOOLEAN
         /\ \/ pc' = pc
            \/ pc["u"] = "read" /\ at["u"] <= Len(List("u")) /\ pc' = [pc EXCEPT !["u"] = "drop"]
            \/ pc["s"] = "read" /\ at["s"] <= Len(List("s")) /\ pc' = [pc EXCEPT !["s"] = "status"]
            \/ pc["s"] = "read" /\ at["s"] <= Len(List("s")) /\ pc' = [pc EXCEPT !["s"] = "result"]
            \/ pc["s"] = "status" /\ pc' = [pc EXCEPT !["s"] = "drop"]
            \/ pc["s"] = "walk" /\ pc' = [pc EXCEPT !["s"] = "silent"]
            \/ pc["s"] = "walk" /\ pc' = [pc EXCEPT !["s"] = "idle"]
<1>0. /\ "s" \in Workers /\ "u" \in Workers
      /\ pc \in [Workers -> Steps] /\ again \in [Workers -> BOOLEAN]
      /\ val \in Nat /\ inside \in BOOLEAN
  BY DEF TypeInv, TypeOK, Workers
<1>1. CASE HandleLast
  BY <1>0, <1>1, ReceivesType DEF HandleLast, Receives, Goes, Here, Steps, TypeInv
<1>2. CASE HandleRoom
  BY <1>0, <1>2, ReceivesType DEF HandleRoom, Receives, Goes, Here, Steps, TypeInv
<1>3. CASE Status
  BY <1>0, <1>3 DEF Status, Goes, Steps
<1>4. CASE NoAnswer
  BY <1>0, <1>4 DEF NoAnswer, Goes, Steps, unit
<1>5. CASE EndWalk
  BY <1>0, <1>5 DEF EndWalk, Goes, Steps
<1>6. CASE Worker
  <2>1. UNCHANGED <<listener, file, others, gone, semS, semU, clients, num, threads, tasks, passed, spoiled>>
    BY <1>6, Zenon DEF Worker, WorkerTake, WorkerPost
  <2>2. val' \in Nat
    <3>1. (val > 0 /\ val' = val - 1) \/ val' = val + 1
      BY <1>6, Zenon DEF Worker, WorkerTake, WorkerPost
    <3>2. val \in Nat
      BY <1>0, Zenon
    <3> QED
      BY <3>1, <3>2
  <2>3. inside' \in BOOLEAN
    BY <1>6, Zenon DEF Worker, WorkerTake, WorkerPost
  <2> QED
    BY <1>0, <2>1, <2>2, <2>3 DEF threads
<1> QED
  BY <1>1, <1>2, <1>3, <1>4, <1>5, <1>6 DEF Waits

LEMMA WaitsTypeInv ==
  ASSUME TypeInv, Waits
  PROVE  TypeInv'
<1>1. TypeOK'
  BY WaitsStep DEF TypeInv, TypeOK, listener
<1>2. WalkInv'
  BY WaitsStep DEF TypeInv, TypeOK, WalkInv, List, Workers
<1> QED
  BY <1>1, <1>2 DEF TypeInv

\* What only the serverworker does with descriptors and lists.
LEMMA ServerworkerTypeInv ==
  ASSUME TypeInv, Result \/ Update \/ PassOn
  PROVE  TypeInv'
<1> USE LinksAssumption DEF TypeInv, threads, listener, unit
<1>0. "s" \in Workers
  BY DEF Workers
<1>1. CASE Result
  <2>1. /\ pc["s"] = "result" /\ pc' = [pc EXCEPT !["s"] = "read"] /\ pc' \in [Workers -> Steps]
        /\ at' \in [Workers -> Nat \ {0}] /\ try' \in [Workers -> 1..2]
        /\ \A v \in Workers : v # "s" => at'[v] = at[v]
    BY <1>0, <1>1, TriedType DEF Result, Goes, TypeOK, Steps
  <2>2. file' \in [Fds -> 0..Other] /\ spoiled' \in BOOLEAN
    BY <1>1, ClosedType DEF Result, TypeOK
  <2>3. TypeOK'
    BY <1>1, <2>1, <2>2 DEF Result, TypeOK
  <2>4. WalkInv'
    BY <1>1, <2>1 DEF Result, WalkInv, List, TypeOK, Workers
  <2> QED
    BY <2>3, <2>4
<1>2. CASE Update
  <2>1. /\ again' \in [Workers -> BOOLEAN] /\ at["s"] <= Len(List("s"))
        /\ pc' \in [Workers -> Steps]
    BY <1>0, <1>2, ReceivesType DEF Update, Goes, TypeOK, Steps
  <2>2. Refers(Node("s")) \in 0..Other
    <3>1. Node("s") \in 0..Limit
      BY <1>0, <2>1, NodeTypes
    <3> QED
      BY <3>1, RefersType DEF TypeOK
  <2>3. file' \in [Fds -> 0..Other] /\ passed' \in 0..Limit
    BY <1>2, <2>2, LowestIsFree, OpenedType DEF Update, TypeOK
  <2>4. TypeOK'
    BY <1>2, <2>1, <2>3 DEF Update, Receives, TypeOK
  <2>5. WalkInv'
    BY <1>2, <2>1 DEF Update, Goes, Receives, WalkInv, List, TypeOK
  <2> QED
    BY <2>4, <2>5
<1>3. CASE PassOn
  <2>1. tasks' \in Seq(0..Limit) /\ Len(tasks') = Len(tasks) + 1
    BY <1>3, ListTypes DEF PassOn, TypeOK
  <2>2. pc' \in [Workers -> Steps]
    BY <1>3 DEF PassOn, Goes, TypeOK, Steps
  <2>3. TypeOK'
    BY <1>3, <2>1, <2>2 DEF PassOn, TypeOK
  <2>4. Len(tasks) \in Nat /\ Len(clients) \in Nat
    BY LenProperties DEF TypeOK
  <2>5. WalkInv'
    BY <1>3, <2>1, <2>4 DEF PassOn, Goes, WalkInv, List, TypeOK, Workers
  <2> QED
    BY <2>3, <2>5
<1> QED
  BY <1>1, <1>2, <1>3

LEMMA StillTypeInv ==
  ASSUME TypeInv, UNCHANGED vars
  PROVE  TypeInv'
BY DEF TypeInv, TypeOK, WalkInv, List, vars, threads, listener, unit

\* Descriptors, lists and the places in them are well-formed, and the node that the
\* serverworker or the updater is about to drop or to pass on is still there.
THEOREM LinksTypeOK == Spec => []TypeOK
<1>1. Init => TypeInv
  BY InitTypeInv
<1>2. TypeInv /\ [Next]_vars => TypeInv'
  BY OutsideTypeInv, WalkTypeInv, ServerworkerTypeInv, WaitsTypeInv, StillTypeInv
     DEF Next, Serverworker, Updater, Workers, Waits
<1>3. TypeInv => TypeOK
  BY DEF TypeInv
<1> QED
  BY <1>1, <1>2, <1>3, PTL DEF Spec

-----------------------------------------------------------------------------
(* Counting the places that answer for a descriptor *)

\* A set has one element that is equal to f, or none.
LEMMA CountOne ==
  ASSUME NEW S, NEW f
  PROVE  Cardinality({g \in S : g = f}) = IF f \in S THEN 1 ELSE 0
<1>1. CASE f \in S
  <2>1. {g \in S : g = f} = {f}
    BY <1>1
  <2> QED
    BY <1>1, <2>1, FS_Singleton
<1>2. CASE f \notin S
  <2>1. {g \in S : g = f} = {}
    BY <1>2
  <2> QED
    BY <1>2, <2>1, FS_EmptySet
<1> QED
  BY <1>1, <1>2

LEMMA PlacesType ==
  ASSUME NEW list \in Seq(0..Limit), NEW f
  PROVE  /\ IsFiniteSet({i \in DOMAIN list : list[i] = f})
         /\ Places(list, f) \in Nat
<1>1. Len(list) \in Nat /\ DOMAIN list = 1..Len(list)
  BY LenProperties
<1>2. IsFiniteSet(1..Len(list))
  BY <1>1, FS_Interval
<1>3. IsFiniteSet({i \in DOMAIN list : list[i] = f})
  BY <1>1, <1>2, FS_Subset
<1> QED
  BY <1>3, FS_CardinalityType DEF Places

\* A new node is one more place of its descriptor.
LEMMA PlacesAppend ==
  ASSUME NEW list \in Seq(0..Limit), NEW e \in 0..Limit, NEW f
  PROVE  Places(Append(list, e), f) = Places(list, f) + (IF e = f THEN 1 ELSE 0)
<1> DEFINE D == {i \in DOMAIN list : list[i] = f}
           E == {i \in DOMAIN Append(list, e) : Append(list, e)[i] = f}
           n == Len(list) + 1
<1>1. /\ Len(list) \in Nat /\ DOMAIN list = 1..Len(list) /\ DOMAIN Append(list, e) = 1..n
      /\ Append(list, e)[n] = e /\ \A i \in 1..Len(list) : Append(list, e)[i] = list[i]
  BY LenProperties, AppendProperties
<1>2. IsFiniteSet(D) /\ Cardinality(D) \in Nat
  BY PlacesType DEF Places
<1>3. CASE e = f
  <2>1. E = D \cup {n} /\ n \notin D
    BY <1>1, <1>3
  <2>2. Cardinality(E) = Cardinality(D) + 1
    <3> HIDE DEF D, E, n
    <3> QED
      BY <1>2, <2>1, FS_AddElement
  <2> QED
    BY <1>3, <2>2 DEF Places
<1>4. CASE e # f
  <2>1. E = D
    BY <1>1, <1>4
  <2>2. Places(Append(list, e), f) = Places(list, f)
    BY <2>1, Zenon DEF Places
  <2>3. Places(list, f) \in Nat
    BY PlacesType
  <2> HIDE DEF D, E, n
  <2> QED
    BY <1>4, <2>2, <2>3
<1> QED
  BY <1>3, <1>4

\* Taking the first node takes one place of its descriptor.
LEMMA PlacesTail ==
  ASSUME NEW list \in Seq(0..Limit), list # <<>>, NEW f
  PROVE  Places(list, f) = Places(Tail(list), f) + (IF list[1] = f THEN 1 ELSE 0)
<1> DEFINE D == {i \in DOMAIN list : list[i] = f}
           E == {i \in DOMAIN Tail(list) : Tail(list)[i] = f}
           R == D \ {1}
           shift == [i \in E |-> i + 1]
<1>1. /\ Tail(list) \in Seq(0..Limit) /\ Len(Tail(list)) = Len(list) - 1
      /\ \A i \in 1..Len(Tail(list)) : Tail(list)[i] = list[i + 1]
  BY HeadTailProperties
<1>2. Len(list) \in Nat \ {0} /\ DOMAIN list = 1..Len(list) /\ DOMAIN Tail(list) = 1..Len(list) - 1
  BY <1>1, LenProperties, EmptySeq
<1>3. IsFiniteSet(D) /\ IsFiniteSet(E) /\ Cardinality(D) \in Nat /\ Cardinality(E) \in Nat
  BY <1>1, PlacesType DEF Places
<1>4. shift \in Bijection(E, R)
  <2>1. shift \in Injection(E, R)
    <3>1. \A i \in E : i + 1 \in R
      BY <1>1, <1>2
    <3>2. \A i, j \in E : i + 1 = j + 1 => i = j
      BY <1>2
    <3> HIDE DEF R, E
    <3> QED
      BY <3>1, <3>2 DEF Injection, IsInjective
  <2>2. \A r \in R : \E i \in E : shift[i] = r
    <3> SUFFICES ASSUME NEW r \in R
                 PROVE  r - 1 \in E /\ (r - 1) + 1 = r
      OBVIOUS
    <3> QED
      BY <1>1, <1>2
  <2> HIDE DEF R, E, shift
  <2> QED
    BY <2>1, <2>2 DEF Bijection, Surjection, Injection
<1>5. Cardinality(R) = Cardinality(E)
  <2> HIDE DEF R, E, shift
  <2> QED
    BY <1>3, <1>4, FS_Bijection DEF ExistsBijection
<1>6. Cardinality(D) = Cardinality(R) + (IF list[1] = f THEN 1 ELSE 0)
  <2>1. 1 \in D <=> list[1] = f
    BY <1>2
  <2>2. Cardinality(R) = IF 1 \in D THEN Cardinality(D) - 1 ELSE Cardinality(D)
    <3> HIDE DEF D
    <3> QED
      BY <1>3, FS_RemoveElement
  <2> HIDE DEF D, R
  <2> QED
    BY <1>3, <2>1, <2>2
<1> QED
  <2> HIDE DEF D, E, R
  <2>1. Cardinality(D) = Cardinality(E) + (IF list[1] = f THEN 1 ELSE 0)
    BY <1>5, <1>6
  <2> QED
    BY <2>1 DEF Places, D, E

\* A place of a descriptor is counted; two places are counted twice.
LEMMA PlacesFind ==
  ASSUME NEW list \in Seq(0..Limit), NEW f
  PROVE  /\ InList(f, list) <=> Places(list, f) > 0
         /\ \A i, j \in DOMAIN list : list[i] = f /\ list[j] = f /\ i # j => Places(list, f) > 1
<1> DEFINE D == {i \in DOMAIN list : list[i] = f}
<1>1. IsFiniteSet(D) /\ Cardinality(D) \in Nat
  BY PlacesType DEF Places
<1>2. Cardinality(D) = 0 <=> D = {}
  <2> HIDE DEF D
  <2> QED
    BY <1>1, FS_EmptySet
<1>3. InList(f, list) <=> D # {}
  BY DEF InList
<1>4. Cardinality(D) = 1 <=> \E x : D = {x}
  <2> HIDE DEF D
  <2> QED
    BY <1>1, FS_Singleton
<1>5. ASSUME NEW i \in D, NEW j \in D, i # j
      PROVE  Cardinality(D) > 1
  <2> HIDE DEF D
  <2>1. Cardinality(D) # 0
    BY <1>2, <1>5
  <2>2. Cardinality(D) # 1
    BY <1>4, <1>5
  <2> QED
    BY <1>1, <2>1, <2>2
<1>6. Places(list, f) = Cardinality(D)
  BY DEF Places
<1>7. InList(f, list) <=> Places(list, f) > 0
  <2> HIDE DEF D
  <2> QED
    BY <1>1, <1>2, <1>3, <1>6
<1>8. ASSUME NEW i \in DOMAIN list, NEW j \in DOMAIN list, list[i] = f, list[j] = f, i # j
      PROVE  Places(list, f) > 1
  <2>1. i \in D /\ j \in D
    BY <1>8
  <2> HIDE DEF D
  <2> QED
    BY <1>5, <1>6, <1>8, <2>1
<1> QED
  BY <1>7, <1>8

\* One place or none in each list, in the hands of a thread and outside.
Hands(f) == IF f \in {accepted, passed} THEN 1 ELSE 0
Outsiders(f) == IF f \in others THEN 1 ELSE 0

LEMMA OwnersSum ==
  ASSUME NEW f
  PROVE  Owners(f) = Places(clients, f) + Places(tasks, f) + Hands(f) + Outsiders(f)
<1>1. Cardinality({g \in {accepted, passed} : g = f}) = Hands(f)
  BY CountOne, Zenon DEF Hands
<1>2. Cardinality({g \in others : g = f}) = Outsiders(f)
  BY CountOne, Zenon DEF Outsiders
<1> QED
  BY <1>1, <1>2, Zenon DEF Owners

LEMMA OwnersSumNext ==
  ASSUME NEW f
  PROVE  Owners(f)' = Places(clients', f) + Places(tasks', f) + Hands(f)' + Outsiders(f)'
<1>1. Cardinality({g \in {accepted', passed'} : g = f}) = Hands(f)'
  BY CountOne, Zenon DEF Hands
<1>2. Cardinality({g \in others' : g = f}) = Outsiders(f)'
  BY CountOne, Zenon DEF Outsiders
<1> QED
  BY <1>1, <1>2, Zenon DEF Owners, Places

\* While no node was lost: a closed descriptor is nowhere, an open one in one place.
LEMMA OwnedOnce ==
  ASSUME TypeOK, SocketsOwned, ~spoiled, NEW f \in Fds
  PROVE  /\ file[f] = 0 => /\ ~InList(f, clients) /\ ~InList(f, tasks)
                           /\ f \notin {accepted, passed} /\ f \notin others
         /\ InList(f, clients) => /\ ~InList(f, tasks)
                                  /\ f \notin {accepted, passed} /\ f \notin others
         /\ InList(f, tasks) => f \notin {accepted, passed} /\ f \notin others
         /\ f \in {accepted, passed} => f \notin others
         /\ \A i, j \in DOMAIN clients : clients[i] = f /\ clients[j] = f => i = j
         /\ Owners(f) = IF file[f] = 0 THEN 0 ELSE 1
<1>1. Owners(f) = IF file[f] = 0 THEN 0 ELSE 1
  BY DEF SocketsOwned
<1>2. clients \in Seq(0..Limit) /\ tasks \in Seq(0..Limit)
  BY DEF TypeOK
<1>3. Places(clients, f) \in Nat /\ Places(tasks, f) \in Nat
  BY <1>2, PlacesType
<1>4. /\ InList(f, clients) <=> Places(clients, f) > 0
      /\ InList(f, tasks) <=> Places(tasks, f) > 0
      /\ \A i, j \in DOMAIN clients : clients[i] = f /\ clients[j] = f /\ i # j => Places(clients, f) > 1
  BY <1>2, PlacesFind
<1>5. Owners(f) = Places(clients, f) + Places(tasks, f) + Hands(f) + Outsiders(f)
  BY OwnersSum
<1> QED
  BY <1>1, <1>3, <1>4, <1>5 DEF Hands, Outsiders

-----------------------------------------------------------------------------
(* One owner of every descriptor *)

LEMMA StillOwned ==
  ASSUME SocketsOwned, UNCHANGED <<clients, tasks, accepted, passed, others, file, spoiled>>
  PROVE  SocketsOwned'
<1>1. ASSUME NEW f \in Fds
      PROVE  Owners(f)' = Owners(f)
  BY Zenon DEF Owners, Places
<1> QED
  BY <1>1, Zenon DEF SocketsOwned

\* The rest of the program opens a free descriptor and closes one of its own.
LEMMA OpenOtherOwned ==
  ASSUME OwnInv, OpenOther
  PROVE  SocketsOwned'
<1> SUFFICES ASSUME ~spoiled, NEW f \in Fds
             PROVE  Owners(f)' = IF file'[f] = 0 THEN 0 ELSE 1
  BY Zenon DEF SocketsOwned, OpenOther
<1> DEFINE c == Places(clients, f)
           t == Places(tasks, f)
<1>1. c \in Nat /\ t \in Nat
  BY PlacesType DEF OwnInv, TypeInv, TypeOK
<1>2. Owners(f) = c + t + Hands(f) + Outsiders(f) /\ Owners(f) = IF file[f] = 0 THEN 0 ELSE 1
  BY OwnersSum, OwnedOnce, Zenon DEF OwnInv, TypeInv
<1>3. Owners(f)' = c + t + Hands(f)' + Outsiders(f)'
  BY OwnersSumNext, Zenon DEF OpenOther, listener
<1>4. Lowest \in Fds /\ file[Lowest] = 0 /\ Lowest # 0
  BY LowestIsFree, LinksAssumption DEF OpenOther, Fds
<1>5. file' = [file EXCEPT ![Lowest] = Other] /\ others' = others \cup {Lowest} /\ Other # 0
  BY <1>4, LinksAssumption DEF OpenOther, Opened, Other
<1>6. Hands(f)' = Hands(f)
  BY Zenon DEF OpenOther, listener, Hands
<1>7. f = Lowest => f \notin others
  BY <1>4, OwnedOnce DEF OwnInv, TypeInv
<1>8. file \in [Fds -> 0..Other]
  BY DEF OwnInv, TypeInv, TypeOK
<1> HIDE DEF c, t
<1>9. CASE f = Lowest
  <2>1. Hands(f) \in Nat /\ Outsiders(f) = 0 /\ Outsiders(f)' = 1 /\ file'[f] # 0 /\ file[f] = 0
    BY <1>4, <1>5, <1>7, <1>8, <1>9 DEF Hands, Outsiders
  <2> QED
    BY <1>1, <1>2, <1>3, <1>6, <2>1
<1>10. CASE f # Lowest
  <2>1. Outsiders(f)' = Outsiders(f) /\ file'[f] = file[f]
    BY <1>4, <1>5, <1>8, <1>10 DEF Outsiders
  <2> QED
    BY <1>2, <1>3, <1>6, <2>1, Zenon
<1> QED
  BY <1>9, <1>10

LEMMA Counts ==
  ASSUME OwnInv, ~spoiled, NEW f \in Fds
  PROVE  /\ Places(clients, f) \in Nat /\ Places(tasks, f) \in Nat
         /\ Hands(f) \in 0..1 /\ Outsiders(f) \in 0..1
         /\ Owners(f) = Places(clients, f) + Places(tasks, f) + Hands(f) + Outsiders(f)
         /\ Owners(f) = IF file[f] = 0 THEN 0 ELSE 1
         /\ file[f] \in 0..Other /\ f # 0
<1>1. Places(clients, f) \in Nat /\ Places(tasks, f) \in Nat
  BY PlacesType DEF OwnInv, TypeInv, TypeOK
<1>2. Hands(f) \in 0..1 /\ Outsiders(f) \in 0..1
  BY DEF Hands, Outsiders
<1>3. Owners(f) = IF file[f] = 0 THEN 0 ELSE 1
  BY DEF OwnInv, SocketsOwned
<1>4. file[f] \in 0..Other /\ f # 0
  BY LinksAssumption DEF OwnInv, TypeInv, TypeOK, Fds
<1> QED
  BY <1>1, <1>2, <1>3, <1>4, OwnersSum

LEMMA CloseOtherOwned ==
  ASSUME OwnInv, CloseOther
  PROVE  SocketsOwned'
<1>0. UNCHANGED <<clients, tasks, accepted, passed, spoiled>>
  BY DEF CloseOther, listener
<1> SUFFICES ASSUME ~spoiled, NEW f \in Fds
             PROVE  Owners(f)' = IF file'[f] = 0 THEN 0 ELSE 1
  BY <1>0, Zenon DEF SocketsOwned
<1> DEFINE c == Places(clients, f)
           t == Places(tasks, f)
<1>1. /\ c \in Nat /\ t \in Nat /\ Hands(f) \in 0..1 /\ Outsiders(f) \in 0..1
      /\ Owners(f) = c + t + Hands(f) + Outsiders(f)
      /\ Owners(f) = IF file[f] = 0 THEN 0 ELSE 1
  BY Counts
<1>2. Owners(f)' = c + t + Hands(f)' + Outsiders(f)'
  BY <1>0, OwnersSumNext, Zenon
<1>3. Hands(f)' = Hands(f)
  BY <1>0, Zenon DEF Hands
<1>4. PICK g \in others : file' = Closed(g) /\ others' = others \ {g}
  BY DEF CloseOther
<1>5. g \in Fds /\ file[g] = Other /\ g # 0 /\ Other # 0
  BY LinksAssumption DEF OwnInv, TypeInv, TypeOK, FileInv, Fds, Other
<1>6. file \in [Fds -> 0..Other]
  BY DEF OwnInv, TypeInv, TypeOK
<1> HIDE DEF c, t
<1>7. CASE f = g
  <2>1. Outsiders(f) = 1 /\ Outsiders(f)' = 0 /\ file'[f] = 0 /\ file[f] # 0
    BY <1>4, <1>5, <1>6, <1>7 DEF Outsiders, Closed
  <2> QED
    BY <1>1, <1>2, <1>3, <2>1
<1>8. CASE f # g
  <2>1. Outsiders(f)' = Outsiders(f) /\ file'[f] = file[f]
    BY <1>4, <1>5, <1>6, <1>8 DEF Outsiders, Closed
  <2> QED
    BY <1>1, <1>2, <1>3, <2>1, Zenon
<1> QED
  BY <1>7, <1>8

\* accept and dup give a free descriptor to a thread.
LEMMA TakenOwned ==
  ASSUME OwnInv, ~spoiled, NEW x \in 1..Other,
         file' = Opened(Lowest, x),
         UNCHANGED <<clients, tasks, others>>,
         \/ accepted = 0 /\ accepted' = Lowest /\ passed' = passed
         \/ passed = 0 /\ passed' = Lowest /\ accepted' = accepted,
         NEW f \in Fds
  PROVE  Owners(f)' = IF file'[f] = 0 THEN 0 ELSE 1
<1> DEFINE c == Places(clients, f)
           t == Places(tasks, f)
<1>1. /\ c \in Nat /\ t \in Nat /\ Hands(f) \in 0..1 /\ Outsiders(f) \in 0..1
      /\ Owners(f) = c + t + Hands(f) + Outsiders(f)
      /\ Owners(f) = IF file[f] = 0 THEN 0 ELSE 1
      /\ f # 0
  BY Counts
<1>2. Owners(f)' = c + t + Hands(f)' + Outsiders(f)'
  BY OwnersSumNext, Zenon
<1>3. Outsiders(f)' = Outsiders(f)
  BY Zenon DEF Outsiders
<1>4. Lowest # 0 => Lowest \in Fds /\ file[Lowest] = 0
  BY LowestIsFree, LinksAssumption DEF Fds
<1>5. file \in [Fds -> 0..Other] /\ x # 0
  BY LinksAssumption DEF OwnInv, TypeInv, TypeOK, Other
<1> HIDE DEF c, t
<1>6. CASE f = Lowest
  <2>1. file'[f] # 0 /\ file[f] = 0
    BY <1>1, <1>4, <1>5, <1>6 DEF Opened
  <2>2. Hands(f)' = 1
    BY <1>6 DEF Hands
  <2>3. Hands(f) = 0
    BY <1>1, <2>1
  <2> QED
    BY <1>1, <1>2, <1>3, <2>1, <2>2, <2>3
<1>7. CASE f # Lowest
  <2>1. file'[f] = file[f]
    BY <1>1, <1>4, <1>5, <1>7 DEF Opened
  <2>2. Hands(f)' = Hands(f)
    BY <1>1, <1>7 DEF Hands
  <2> QED
    BY <1>1, <1>2, <1>3, <2>1, <2>2, Zenon
<1> QED
  BY <1>6, <1>7

\* The listener and the serverworker put the descriptor in hand into a list.
LEMMA ListedOwned ==
  ASSUME OwnInv, ~spoiled,
         accepted = passed => accepted = 0,
         UNCHANGED <<file, others>>,
         \/ /\ clients' = Append(clients, accepted) /\ tasks' = tasks
            /\ accepted' = 0 /\ passed' = passed
         \/ /\ tasks' = Append(tasks, passed) /\ clients' = clients
            /\ passed' = 0 /\ accepted' = accepted,
         NEW f \in Fds
  PROVE  Owners(f)' = IF file'[f] = 0 THEN 0 ELSE 1
<1> DEFINE c == Places(clients, f)
           t == Places(tasks, f)
           One(e) == IF e = f THEN 1 ELSE 0
<1>1. /\ c \in Nat /\ t \in Nat /\ Hands(f) \in 0..1 /\ Outsiders(f) \in 0..1
      /\ Owners(f) = c + t + Hands(f) + Outsiders(f)
      /\ Owners(f) = IF file[f] = 0 THEN 0 ELSE 1
      /\ f # 0
  BY Counts
<1>2. Owners(f)' = Places(clients', f) + Places(tasks', f) + Hands(f)' + Outsiders(f)'
  BY OwnersSumNext, Zenon
<1>3. Outsiders(f)' = Outsiders(f) /\ file'[f] = file[f]
  BY Zenon DEF Outsiders
<1>4. Places(Append(clients, accepted), f) = c + One(accepted) /\ Places(Append(tasks, passed), f) = t + One(passed)
  BY PlacesAppend DEF OwnInv, TypeInv, TypeOK
<1>5. One(accepted) \in 0..1 /\ One(passed) \in 0..1
  OBVIOUS
<1>6. CASE clients' = Append(clients, accepted) /\ tasks' = tasks /\ accepted' = 0 /\ passed' = passed
  <2>1. Owners(f)' = (c + One(accepted)) + t + Hands(f)' + Outsiders(f)
    BY <1>2, <1>3, <1>4, <1>6, Zenon
  <2>2. Hands(f)' + One(accepted) = Hands(f) /\ Hands(f)' \in 0..1
    BY <1>1, <1>6 DEF Hands
  <2> HIDE DEF c, t, One
  <2>3. (c + One(accepted)) + t + Hands(f)' + Outsiders(f) = c + t + Hands(f) + Outsiders(f)
    BY <1>1, <1>5, <2>2
  <2> QED
    BY <1>1, <1>3, <2>1, <2>3, Zenon
<1>7. CASE tasks' = Append(tasks, passed) /\ clients' = clients /\ passed' = 0 /\ accepted' = accepted
  <2>1. Owners(f)' = c + (t + One(passed)) + Hands(f)' + Outsiders(f)
    BY <1>2, <1>3, <1>4, <1>7, Zenon
  <2>2. Hands(f)' + One(passed) = Hands(f) /\ Hands(f)' \in 0..1
    BY <1>1, <1>7 DEF Hands
  <2> HIDE DEF c, t, One
  <2>3. c + (t + One(passed)) + Hands(f)' + Outsiders(f) = c + t + Hands(f) + Outsiders(f)
    BY <1>1, <1>5, <2>2
  <2> QED
    BY <1>1, <1>3, <2>1, <2>3, Zenon
<1> QED
  BY <1>6, <1>7

\* The node that is dropped is the first of its list, or a node is lost.
LEMMA DropOwned ==
  ASSUME OwnInv, NEW w \in Workers, Drop(w)
  PROVE  SocketsOwned'
<1>0. /\ UNCHANGED <<accepted, passed, others>>
      /\ spoiled' = (spoiled \/ at[w] # 1)
      /\ file' = Closed(Node(w))
  BY Zenon DEF Drop, listener
<1> SUFFICES ASSUME ~spoiled, at[w] = 1, NEW f \in Fds
             PROVE  Owners(f)' = IF file'[f] = 0 THEN 0 ELSE 1
  BY <1>0, Zenon DEF SocketsOwned
<1> DEFINE c == Places(clients, f)
           t == Places(tasks, f)
           n == Node(w)
           One == IF n = f THEN 1 ELSE 0
<1>1. /\ c \in Nat /\ t \in Nat /\ Hands(f) \in 0..1 /\ Outsiders(f) \in 0..1
      /\ Owners(f) = c + t + Hands(f) + Outsiders(f)
      /\ Owners(f) = IF file[f] = 0 THEN 0 ELSE 1
      /\ f # 0
  BY Counts
<1>2. Owners(f)' = Places(clients', f) + Places(tasks', f) + Hands(f)' + Outsiders(f)'
  BY OwnersSumNext, Zenon
<1>3. Outsiders(f)' = Outsiders(f) /\ Hands(f)' = Hands(f)
  BY <1>0, Zenon DEF Outsiders, Hands
<1>4. List(w) \in Seq(0..Limit) /\ List(w) # <<>> /\ n = List(w)[1]
  <2>1. at[w] <= Len(List(w))
    BY DEF Drop, Goes, OwnInv, TypeInv, WalkInv
  <2>2. List(w) \in Seq(0..Limit)
    BY NodeTypes DEF OwnInv
  <2>3. List(w) # <<>>
    BY <2>1, <2>2, EmptySeq
  <2> QED
    BY <2>2, <2>3 DEF Node
<1>5. Places(List(w), f) = Places(Tail(List(w)), f) + One
  BY <1>4, PlacesTail
<1>6. Places(Tail(List(w)), f) \in Nat
  <2>1. Tail(List(w)) \in Seq(0..Limit)
    BY <1>4, HeadTailProperties
  <2> QED
    BY <2>1, PlacesType
<1>7. One \in 0..1
  OBVIOUS
<1>8. Owners(f) = Owners(f)' + One
  <2>1. CASE w = "s"
    <3>1. clients' = Tail(List(w)) /\ tasks' = tasks /\ c = Places(List(w), f)
      BY <2>1 DEF Drop, List
    <3>2. Owners(f)' = Places(Tail(List(w)), f) + t + Hands(f) + Outsiders(f)
      BY <1>2, <1>3, <3>1, Zenon
    <3>3. c = Places(Tail(List(w)), f) + One
      BY <1>5, <3>1, Zenon
    <3> HIDE DEF c, t, One
    <3>4. c + t + Hands(f) + Outsiders(f) = (Places(Tail(List(w)), f) + t + Hands(f) + Outsiders(f)) + One
      BY <1>1, <1>6, <1>7, <3>3
    <3> QED
      BY <1>1, <3>2, <3>4, Zenon
  <2>2. CASE w = "u"
    <3>1. tasks' = Tail(List(w)) /\ clients' = clients /\ t = Places(List(w), f)
      BY <2>2 DEF Drop, List
    <3>2. Owners(f)' = c + Places(Tail(List(w)), f) + Hands(f) + Outsiders(f)
      BY <1>2, <1>3, <3>1, Zenon
    <3>3. t = Places(Tail(List(w)), f) + One
      BY <1>5, <3>1, Zenon
    <3> HIDE DEF c, t, One
    <3>4. c + t + Hands(f) + Outsiders(f) = (c + Places(Tail(List(w)), f) + Hands(f) + Outsiders(f)) + One
      BY <1>1, <1>6, <1>7, <3>3
    <3> QED
      BY <1>1, <3>2, <3>4, Zenon
  <2> QED
    BY <2>1, <2>2 DEF Workers
<1>9. file \in [Fds -> 0..Other]
  BY DEF OwnInv, TypeInv, TypeOK
<1>10. Places(clients', f) + Places(tasks', f) \in Nat
  <2>1. clients' \in Seq(0..Limit) /\ tasks' \in Seq(0..Limit)
    BY WalkTypeInv DEF Walk, OwnInv, TypeInv, TypeOK
  <2>2. Places(clients', f) \in Nat /\ Places(tasks', f) \in Nat
    BY <2>1, PlacesType
  <2> QED
    BY <2>2
<1>11. Owners(f)' \in Nat
  <2>1. Owners(f)' = (Places(clients', f) + Places(tasks', f)) + Hands(f) + Outsiders(f)
    BY <1>2, <1>3, Zenon
  <2>2. (Places(clients', f) + Places(tasks', f)) + Hands(f) + Outsiders(f) \in Nat
    BY <1>1, <1>10
  <2> QED
    BY <2>1, <2>2, Zenon
<1>12. CASE n = f
  <2>1. file'[f] = 0 /\ One = 1
    BY <1>0, <1>1, <1>9, <1>12 DEF Closed
  <2> HIDE DEF One, n, c, t
  <2> QED
    BY <1>1, <1>8, <1>11, <2>1
<1>13. CASE n # f
  <2>1. file'[f] = file[f] /\ One = 0
    BY <1>0, <1>9, <1>13 DEF Closed
  <2> HIDE DEF One, n, c, t
  <2> QED
    BY <1>1, <1>8, <1>11, <2>1
<1> QED
  BY <1>12, <1>13

\* A node whose descriptor is open stands for a game server's connection.
LEMMA NodeIsServer ==
  ASSUME OwnInv, ~spoiled, NEW w \in Workers, at[w] <= Len(List(w)), Refers(Node(w)) # 0
  PROVE  /\ Node(w) \in Fds /\ Refers(Node(w)) = file[Node(w)] /\ file[Node(w)] \in Servers
         /\ Node(w) \notin others
         /\ InList(Node(w), List(w))
<1>1. Node(w) \in 0..Limit /\ List(w) \in Seq(0..Limit)
  BY NodeTypes DEF OwnInv
<1>2. Node(w) # 0 /\ Refers(Node(w)) = file[Node(w)]
  BY Zenon DEF Refers
<1>3. Node(w) \in Fds
  BY <1>1, <1>2, LinksAssumption DEF Fds
<1>4. InList(Node(w), List(w))
  <2>1. at[w] \in DOMAIN List(w)
    BY <1>1, LenProperties DEF OwnInv, TypeInv, TypeOK
  <2> QED
    BY <2>1, Zenon DEF InList, Node
<1>5. InList(Node(w), clients) \/ InList(Node(w), tasks)
  BY <1>4 DEF List
<1>6. Node(w) \notin others
  BY <1>3, <1>5, OwnedOnce DEF OwnInv, TypeInv
<1>7. file[Node(w)] # Other /\ file[Node(w)] \in 0..Other
  BY <1>3, <1>6 DEF OwnInv, FileInv, TypeInv, TypeOK
<1>8. file[Node(w)] \in Servers
  BY <1>2, <1>7, LinksAssumption DEF Servers, Other
<1> QED
  BY <1>2, <1>3, <1>4, <1>6, <1>8

\* A descriptor that is free is in no thread's hands.
LEMMA LowestIsNew ==
  ASSUME OwnInv, ~spoiled
  PROVE  Lowest # 0 => /\ Lowest \in Fds /\ file[Lowest] = 0
                       /\ Lowest \notin {accepted, passed} /\ Lowest \notin others
                       /\ ~InList(Lowest, clients) /\ ~InList(Lowest, tasks)
<1>1. Lowest # 0 => Lowest \in Fds /\ file[Lowest] = 0
  BY LowestIsFree, LinksAssumption DEF Fds
<1> QED
  BY <1>1, OwnedOnce DEF OwnInv, TypeInv

LEMMA OutsideOwnInv ==
  ASSUME OwnInv, Outside \/ AddClient
  PROVE  OwnInv'
<1>0. TypeInv'
  BY OutsideTypeInv DEF OwnInv
<1> USE DEF listener, threads
<1>1. CASE ~spoiled /\ OpenOther
  <2>1. Lowest \in Fds /\ file[Lowest] = 0 /\ Lowest # 0
    BY <1>1, LowestIsFree, LinksAssumption DEF OpenOther, Fds
  <2>2. file' = [file EXCEPT ![Lowest] = Other] /\ others' = others \cup {Lowest}
    BY <1>1, <2>1 DEF OpenOther, Opened
  <2>3. Other \notin Servers /\ file \in [Fds -> 0..Other] /\ last' = last
    BY <1>1, LinksAssumption DEF OpenOther, Servers, Other, OwnInv, TypeInv, TypeOK
  <2>4. FileInv'
    BY <1>1, <2>1, <2>2, <2>3 DEF OwnInv, FileInv
  <2>5. HandInv'
    BY <1>1 DEF OpenOther, OwnInv, HandInv
  <2> QED
    BY <1>0, <1>1, <2>4, <2>5, OpenOtherOwned DEF OwnInv
<1>2. CASE ~spoiled /\ CloseOther
  <2>1. PICK f \in others : file' = Closed(f) /\ others' = others \ {f} /\ last' = last
    BY <1>2 DEF CloseOther
  <2>2. f \in Fds /\ f # 0 /\ file \in [Fds -> 0..Other] /\ Other # 0 /\ 0 \notin Servers
    BY LinksAssumption DEF OwnInv, TypeInv, TypeOK, Fds, Other, Servers
  <2>3. FileInv'
    BY <1>2, <2>1, <2>2 DEF OwnInv, FileInv, Closed
  <2>4. HandInv'
    BY <1>2 DEF CloseOther, OwnInv, HandInv
  <2> QED
    BY <1>0, <1>2, <2>3, <2>4, CloseOtherOwned DEF OwnInv
<1>3. CASE ~spoiled /\ Accept
  <2>1. /\ accepted = 0 /\ accepted' = Lowest /\ passed' = passed /\ spoiled' = spoiled
        /\ listening' /\ pc' = pc /\ others' = others
        /\ UNCHANGED <<clients, tasks>>
        /\ file' = Opened(Lowest, last + 1)
        /\ last' = IF Lowest = 0 THEN last ELSE last + 1
    BY <1>3 DEF Accept, OwnInv, HandInv
  <2>2. last + 1 \in 1..Other /\ last + 1 # Other /\ last \in Nat /\ last + 1 \in Servers
    BY <1>3, LinksAssumption DEF Accept, Other, Servers, OwnInv, TypeInv, TypeOK
  <2>3. SocketsOwned'
    BY <1>3, <2>1, <2>2, TakenOwned, Zenon DEF SocketsOwned
  <2>4. /\ Lowest # 0 => Lowest \in Fds /\ file[Lowest] = 0 /\ Lowest \notin others
        /\ Lowest = passed => Lowest = 0
    BY <1>3, LowestIsNew
  <2>5. file \in [Fds -> 0..Other] /\ Other # 0 /\ N \in Nat
    BY LinksAssumption DEF OwnInv, TypeInv, TypeOK, Other
  <2>6. FileInv'
    <3>1. CASE Lowest = 0
      BY <1>3, <2>1, <3>1 DEF Opened, OwnInv, FileInv
    <3>2. CASE Lowest # 0
      <4>1. file' = [file EXCEPT ![Lowest] = last + 1] /\ last' = last + 1
        BY <2>1, <3>2 DEF Opened
      <4>2. \A f \in Fds : f \in others' <=> file'[f] = Other
        BY <1>3, <2>1, <2>2, <2>4, <2>5, <3>2, <4>1 DEF OwnInv, FileInv
      <4>3. ASSUME NEW f \in Fds, file'[f] \in Servers
            PROVE  file'[f] <= last'
        <5>1. file'[f] = last + 1 \/ file'[f] = file[f]
          BY <2>5, <4>1
        <5>2. file'[f] = last + 1 \/ file'[f] <= last
          BY <1>3, <4>3, <5>1 DEF OwnInv, FileInv
        <5>3. file'[f] \in Int
          BY <4>3, LinksAssumption DEF Servers
        <5> QED
          BY <2>2, <4>1, <5>2, <5>3
      <4> QED
        BY <4>2, <4>3 DEF FileInv
    <3> QED
      BY <3>1, <3>2
  <2>7. HandInv'
    BY <2>1, <2>4 DEF OwnInv, HandInv
  <2> QED
    BY <1>0, <2>3, <2>6, <2>7 DEF OwnInv
<1>4. ASSUME NEW c \in Servers, Hangup(c)
      PROVE  OwnInv'
  <2>1. UNCHANGED <<listener, file, others, clients, tasks, pc, passed, spoiled>>
    BY <1>4 DEF Hangup
  <2>2. SocketsOwned'
    BY <2>1, StillOwned DEF OwnInv
  <2> QED
    BY <1>0, <2>1, <2>2 DEF OwnInv, HandInv, FileInv
<1>5. CASE AddClient
  <2>1. /\ accepted' = 0 /\ passed' = passed /\ clients' = Append(clients, accepted)
        /\ UNCHANGED <<tasks, file, others, spoiled, last, pc>>
    BY <1>5 DEF AddClient
  <2>2. SocketsOwned'
    BY <2>1, ListedOwned, Zenon DEF SocketsOwned, OwnInv, HandInv
  <2>3. HandInv'
    BY <2>1 DEF OwnInv, HandInv
  <2>4. FileInv'
    BY <2>1 DEF OwnInv, FileInv
  <2> QED
    BY <1>0, <2>2, <2>3, <2>4 DEF OwnInv
<1> QED
  BY <1>1, <1>2, <1>3, <1>4, <1>5 DEF Outside

\* What only reads leaves every descriptor where it is.
LEMMA ReadOwnInv ==
  ASSUME OwnInv, TypeInv',
         UNCHANGED <<listener, file, others, clients, tasks, passed, spoiled>>,
         pc'["s"] # "pass" => pc["s"] # "pass"
  PROVE  OwnInv'
<1>1. SocketsOwned'
  BY StillOwned DEF OwnInv, listener
<1>2. HandInv'
  BY DEF OwnInv, HandInv, listener
<1>3. FileInv'
  BY DEF OwnInv, FileInv, listener
<1> QED
  BY <1>1, <1>2, <1>3 DEF OwnInv

LEMMA WalkOwnInv ==
  ASSUME OwnInv, NEW w \in Workers, Walk(w)
  PROVE  OwnInv'
<1>0. TypeInv'
  BY WalkTypeInv DEF OwnInv
<1>1. CASE Take(w) \/ Release(w) \/ Broken(w)
  <2>1. /\ UNCHANGED <<listener, file, others, clients, tasks, passed, spoiled>>
    BY <1>1 DEF Take, Release, Broken
  <2>2. PICK p \in {"read", "walk", "idle", "drop"} : pc' = [pc EXCEPT ![w] = p]
    BY <1>1 DEF Take, Release, Broken, Goes
  <2>3. pc'["s"] # "pass" => pc["s"] # "pass"
    <3>1. pc \in [Workers -> Steps]
      BY DEF OwnInv, TypeInv, TypeOK
    <3>2. pc[w] # "pass"
      BY <1>1 DEF Take, Release, Broken, Goes
    <3> QED
      BY <2>2, <3>1, <3>2 DEF Workers
  <2> QED
    BY <1>0, <2>1, <2>3, ReadOwnInv
<1>2. CASE Silent(w) \/ Handle(w)
  <2>1. UNCHANGED <<listener, file, others, clients, tasks, passed, spoiled, pc>>
    BY <1>2 DEF Silent, Handle, Receives
  <2> QED
    BY <1>0, <2>1, ReadOwnInv
<1>3. CASE Drop(w)
  <2>1. /\ UNCHANGED <<listener, others, passed>>
        /\ pc[w] = "drop" /\ pc' = [pc EXCEPT ![w] = "read"]
        /\ file' = Closed(Node(w)) /\ spoiled' = (spoiled \/ at[w] # 1)
    BY <1>3, Zenon DEF Drop, Goes
  <2>2. HandInv'
    <3>1. UNCHANGED <<listening, accepted, passed>>
      BY <2>1, Zenon DEF listener
    <3>2. pc'["s"] # "pass" => pc["s"] # "pass"
      BY <2>1 DEF OwnInv, TypeInv, TypeOK
    <3>3. spoiled => spoiled'
      BY <2>1, Zenon
    <3> QED
      BY <3>1, <3>2, <3>3 DEF OwnInv, HandInv
  <2>3. ASSUME ~spoiled'
        PROVE  FileInv'
    <3>1. ~spoiled /\ last' = last /\ others' = others
      BY <2>1, <2>3, Zenon DEF listener
    <3>2. at[w] <= Len(List(w))
      BY <2>1 DEF OwnInv, TypeInv, WalkInv
    <3>3. file \in [Fds -> 0..Other] /\ 0 \notin Servers /\ Other # 0
      BY LinksAssumption DEF OwnInv, TypeInv, TypeOK, Servers, Other
    <3>4. CASE Refers(Node(w)) = 0
      <4>1. file' = file
        BY <2>1, <3>3, <3>4 DEF Closed, Refers
      <4> QED
        BY <3>1, <4>1 DEF OwnInv, FileInv
    <3>5. CASE Refers(Node(w)) # 0
      <4>1. Node(w) \in Fds /\ Node(w) \notin others
        BY <3>1, <3>2, <3>5, NodeIsServer
      <4>2. Node(w) # 0 /\ file' = [file EXCEPT ![Node(w)] = 0]
        BY <2>1, <3>5 DEF Refers, Closed
      <4> QED
        BY <3>1, <3>3, <4>1, <4>2 DEF OwnInv, FileInv
    <3> QED
      BY <3>4, <3>5
  <2>4. FileInv'
    BY <2>3 DEF FileInv
  <2> QED
    BY <1>0, <1>3, <2>2, <2>4, DropOwned DEF OwnInv
<1> QED
  BY <1>1, <1>2, <1>3 DEF Walk

LEMMA ServerworkerOwnInv ==
  ASSUME OwnInv, Result \/ Update \/ PassOn
  PROVE  OwnInv'
<1>0. TypeInv'
  BY ServerworkerTypeInv DEF OwnInv
<1>1. CASE Result
  <2>1. /\ UNCHANGED <<listener, passed, others, clients, tasks>>
        /\ spoiled' \/ UNCHANGED <<file, spoiled>>
        /\ pc["s"] = "result" /\ pc' = [pc EXCEPT !["s"] = "read"]
    BY <1>1 DEF Result, Goes
  <2>2. pc'["s"] # "pass" /\ pc["s"] # "pass"
    BY <2>1 DEF OwnInv, TypeInv, TypeOK, Workers
  <2>3. CASE UNCHANGED <<file, spoiled>>
    BY <1>0, <2>1, <2>2, <2>3, ReadOwnInv
  <2>4. CASE spoiled'
    BY <1>0, <2>1, <2>2, <2>4 DEF OwnInv, HandInv, FileInv, SocketsOwned, listener
  <2> QED
    BY <2>1, <2>3, <2>4
<1>2. CASE Update
  <2> DEFINE n == Node("s")
             x == Refers(n)
  <2>1. /\ UNCHANGED <<listening, accepted, last, others, clients, tasks, spoiled>>
        /\ pc["s"] = "read" /\ pc' = [pc EXCEPT !["s"] = "pass"]
        /\ passed' = Lowest /\ file' = Opened(Lowest, x)
        /\ at["s"] <= Len(List("s"))
    BY <1>2, Zenon DEF Update, Receives, Goes, Here, listener
  <2>2. x \in Servers \cup {Other}
    BY <1>2 DEF Update, Receives
  <2>3. x \in 1..Other /\ x # 0
    BY <2>2, LinksAssumption DEF Servers, Other
  <2>4. passed = 0
    BY <2>1 DEF OwnInv, HandInv
  <2>5. SocketsOwned'
    BY <2>1, <2>3, <2>4, TakenOwned, Zenon DEF SocketsOwned
  <2>6. pc'["s"] = "pass"
    BY <2>1 DEF OwnInv, TypeInv, TypeOK, Workers
  <2>7. HandInv'
    <3>1. ~spoiled => (accepted = Lowest => Lowest = 0)
      BY LowestIsNew
    <3> QED
      BY <2>1, <2>6, <3>1 DEF OwnInv, HandInv
  <2>8. ASSUME ~spoiled
        PROVE  FileInv'
    <3>1. "s" \in Workers
      BY DEF Workers
    <3>2. n \in Fds /\ x = file[n] /\ file[n] \in Servers
      BY <2>1, <2>3, <2>8, <3>1, NodeIsServer
    <3>3. x # Other /\ x <= last
      BY <2>8, <3>2, LinksAssumption DEF OwnInv, FileInv, Servers, Other
    <3>4. file \in [Fds -> 0..Other] /\ Other # 0
      BY LinksAssumption DEF OwnInv, TypeInv, TypeOK, Other
    <3> HIDE DEF x, n
    <3>5. CASE Lowest = 0
      <4>1. file' = file
        BY <2>1, <3>5 DEF Opened
      <4> QED
        BY <2>1, <2>8, <4>1 DEF OwnInv, FileInv
    <3>6. CASE Lowest # 0
      <4>1. file' = [file EXCEPT ![Lowest] = x]
        BY <2>1, <3>6 DEF Opened
      <4>2. Lowest \in Fds /\ file[Lowest] = 0 /\ Lowest \notin others
        BY <2>8, <3>6, LowestIsNew
      <4> QED
        BY <2>1, <2>8, <3>3, <3>4, <4>1, <4>2 DEF OwnInv, FileInv
    <3> QED
      BY <3>5, <3>6
  <2>9. spoiled => FileInv'
    BY <2>1 DEF FileInv
  <2> QED
    BY <1>0, <2>5, <2>7, <2>8, <2>9 DEF OwnInv
<1>3. CASE PassOn
  <2>1. /\ passed' = 0 /\ accepted' = accepted /\ tasks' = Append(tasks, passed)
        /\ UNCHANGED <<clients, file, others, spoiled, last, listening>>
    BY <1>3 DEF PassOn, listener
  <2>2. SocketsOwned'
    BY <2>1, ListedOwned, Zenon DEF SocketsOwned, OwnInv, HandInv
  <2>3. HandInv'
    BY <2>1 DEF OwnInv, HandInv
  <2>4. FileInv'
    BY <2>1 DEF OwnInv, FileInv
  <2> QED
    BY <1>0, <2>2, <2>3, <2>4 DEF OwnInv
<1> QED
  BY <1>1, <1>2, <1>3

LEMMA WaitsOwnInv ==
  ASSUME OwnInv, Waits
  PROVE  OwnInv'
<1>1. TypeInv /\ TypeInv'
  BY WaitsTypeInv DEF OwnInv
<1>2. pc'["s"] # "pass" => pc["s"] # "pass"
  BY <1>1, WaitsStep DEF TypeInv, TypeOK, Workers
<1> QED
  BY <1>1, <1>2, WaitsStep, ReadOwnInv

LEMMA InitOwnInv == Init => OwnInv
<1> SUFFICES ASSUME Init
             PROVE  OwnInv
  OBVIOUS
<1>1. TypeInv
  BY InitTypeInv
<1>2. HandInv
  BY DEF Init, HandInv
<1>3. FileInv
  BY LinksAssumption DEF Init, FileInv, Fds, Other, Servers
<1>4. ASSUME NEW f \in Fds
      PROVE  Owners(f) = 0 /\ file[f] = 0
  <2>1. Places(<<>>, f) = 0
    <3>1. {i \in DOMAIN <<>> : <<>>[i] = f} = {}
      OBVIOUS
    <3> QED
      BY <3>1, FS_EmptySet DEF Places
  <2>2. Hands(f) = 0 /\ Outsiders(f) = 0 /\ f # 0
    BY LinksAssumption DEF Init, Hands, Outsiders, Fds
  <2>3. Owners(f) = 0 + 0 + 0 + 0
    BY <2>1, <2>2, OwnersSum, Zenon DEF Init
  <2> QED
    BY <2>3 DEF Init
<1>5. SocketsOwned
  BY <1>4 DEF SocketsOwned
<1> QED
  BY <1>1, <1>2, <1>3, <1>5 DEF OwnInv

LEMMA StillOwnInv ==
  ASSUME OwnInv, UNCHANGED vars
  PROVE  OwnInv'
<1>1. TypeInv'
  BY StillTypeInv DEF OwnInv
<1> QED
  BY <1>1, ReadOwnInv DEF vars, threads

LEMMA NextOwnInv ==
  ASSUME OwnInv, [Next]_vars
  PROVE  OwnInv'
BY OutsideOwnInv, WalkOwnInv, ServerworkerOwnInv, WaitsOwnInv, StillOwnInv
   DEF Next, Serverworker, Updater, Workers, Waits

\* The listener, the serverworker and the updater leak no descriptor, close none
\* twice and close nobody else's, as long as only first nodes were dropped.
THEOREM LinksSocketsOwned == Spec => []SocketsOwned
<1>1. Init => OwnInv
  BY InitOwnInv
<1>2. OwnInv /\ [Next]_vars => OwnInv'
  BY NextOwnInv
<1>3. OwnInv => SocketsOwned
  BY DEF OwnInv
<1> QED
  BY <1>1, <1>2, <1>3, PTL DEF Spec

-----------------------------------------------------------------------------
(* One reader of every connection *)

NoTwins == \A f, g \in Fds : f # g /\ file[f] = file[g] => file[f] \notin Servers

\* Where the serverworker is neither passing on nor dropping, no connection has two
\* descriptors.
LEMMA TwinFree ==
  ASSUME TwinInv, ~spoiled, pc["s"] \notin {"pass", "drop"}
  PROVE  NoTwins
BY DEF TwinInv, NoTwins, Duplicate

\* A step that opens no connection and leaves the serverworker where it is.
LEMMA TwinStill ==
  ASSUME TwinInv, ~spoiled,
         \A f \in Fds : file'[f] \in Servers => file'[f] = file[f],
         \A f, g \in Fds : Duplicate(f, g) /\ file'[g] \in Servers => Duplicate(f, g)'
  PROVE  TwinInv'
<1> SUFFICES ASSUME NEW f \in Fds, NEW g \in Fds, f # g, file'[f] = file'[g], file'[f] \in Servers
             PROVE  Duplicate(f, g)' \/ Duplicate(g, f)'
  BY Zenon DEF TwinInv
<1>1. file[f] = file[g] /\ file[f] \in Servers /\ file'[g] \in Servers
  BY Zenon
<1>2. Duplicate(f, g) \/ Duplicate(g, f)
  BY <1>1, Zenon DEF TwinInv
<1> QED
  BY <1>1, <1>2, Zenon

\* The serverworker's node stays the same while the place and the list do, or the
\* list grows behind it.
LEMMA NodeStays ==
  ASSUME TypeInv, at'["s"] = at["s"], pc["s"] \in {"pass", "drop"},
         clients' = clients \/ \E e \in 0..Limit : clients' = Append(clients, e)
  PROVE  Node("s")' = Node("s")
<1>1. at["s"] \in 1..Len(clients)
  <2>1. Len(clients) \in Nat
    BY LenProperties DEF TypeInv, TypeOK
  <2> QED
    BY <2>1 DEF TypeInv, TypeOK, WalkInv, Workers, List
<1>2. clients'[at["s"]] = clients[at["s"]]
  BY <1>1, AppendProperties DEF TypeInv, TypeOK
<1> QED
  BY <1>2, Zenon DEF Node, List

LEMMA InitTwinInv == Init => TwinInv
BY LinksAssumption DEF Init, TwinInv, Fds, Servers

LEMMA OutsideTwinInv ==
  ASSUME IInv, Outside \/ AddClient
  PROVE  TwinInv'
<1> USE DEF listener, threads
<1>0. TypeInv /\ TwinInv /\ file \in [Fds -> 0..Other] /\ 0 \notin Servers /\ Other \notin Servers
  BY LinksAssumption DEF IInv, OwnInv, TypeInv, TypeOK, Servers, Other
<1>1. CASE ~spoiled /\ (OpenOther \/ CloseOther \/ \E c \in Servers : Hangup(c))
  <2>1. /\ UNCHANGED <<clients, tasks, pc, at, passed>>
        /\ \E f : file' = Opened(f, Other) \/ file' = Closed(f) \/ file' = file
    BY <1>1 DEF OpenOther, CloseOther, Hangup
  <2>2. \A f \in Fds : file'[f] \in Servers => file'[f] = file[f]
    BY <1>0, <2>1 DEF Opened, Closed
  <2>3. \A f, g \in Fds : Duplicate(f, g)' = Duplicate(f, g)
    BY <2>1, Zenon DEF Duplicate, Node, List, InList
  <2> QED
    BY <1>0, <1>1, <2>2, <2>3, TwinStill, Zenon
<1>2. CASE ~spoiled /\ Accept
  <2>1. /\ UNCHANGED <<clients, tasks, pc, at, passed>>
        /\ file' = Opened(Lowest, last + 1)
    BY <1>2 DEF Accept
  <2>2. \A f, g \in Fds : Duplicate(f, g)' = Duplicate(f, g)
    BY <2>1, Zenon DEF Duplicate, Node, List, InList
  <2>3. last \in Nat /\ \A f \in Fds : file[f] \in Servers => file[f] <= last
    BY <1>2, LinksAssumption DEF IInv, OwnInv, FileInv, TypeInv, TypeOK
  <2>4. \A f \in Fds : file[f] # last + 1 \/ last + 1 \notin Servers
    BY <2>3
  <2>5. ASSUME NEW f \in Fds, NEW g \in Fds, f # g, file'[f] = file'[g], file'[f] \in Servers
        PROVE  file[f] = file[g] /\ file[f] \in Servers
    <3>1. CASE Lowest = 0
      BY <2>1, <2>5, <3>1 DEF Opened
    <3>2. CASE Lowest # 0
      <4>1. file' = [file EXCEPT ![Lowest] = last + 1]
        BY <2>1, <3>2 DEF Opened
      <4> QED
        BY <1>0, <2>4, <2>5, <4>1
    <3> QED
      BY <3>1, <3>2
  <2> QED
    BY <1>0, <1>2, <2>2, <2>5, Zenon DEF TwinInv
<1>3. CASE AddClient
  <2>1. /\ UNCHANGED <<file, tasks, pc, at, passed, spoiled>>
        /\ clients' = Append(clients, accepted) /\ accepted \in 0..Limit
    BY <1>3 DEF AddClient, IInv, OwnInv, TypeInv, TypeOK
  <2>2. pc["s"] \in {"pass", "drop"} => Node("s")' = Node("s")
    BY <1>0, <2>1, NodeStays
  <2>3. \A f, g \in Fds : Duplicate(f, g)' = Duplicate(f, g)
    <3>1. pc' = pc /\ passed' = passed /\ tasks' = tasks
      BY <2>1
    <3> QED
      BY <2>2, <3>1 DEF Duplicate, InList
  <2> QED
    BY <1>0, <2>1, <2>3, Zenon DEF TwinInv
<1> QED
  BY <1>1, <1>2, <1>3 DEF Outside

\* A walk opens nothing; the node that is dropped is the one that had a duplicate, or
\* is no duplicate.
LEMMA WalkTwinInv ==
  ASSUME IInv, NEW w \in Workers, Walk(w)
  PROVE  TwinInv'
<1>0. TypeInv /\ TwinInv /\ file \in [Fds -> 0..Other] /\ 0 \notin Servers
  BY LinksAssumption DEF IInv, OwnInv, TypeInv, TypeOK, Servers
<1>1. CASE ~Drop(w) /\ w = "s"
  <2>1. /\ UNCHANGED <<file, spoiled>> /\ pc["s"] \notin {"pass", "drop"}
    BY <1>1 DEF Walk, Take, Release, Silent, Broken, Handle, Receives, Goes, Here
  <2> QED
    BY <1>0, <2>1, TwinFree DEF NoTwins, TwinInv
<1>2. CASE ~Drop(w) /\ w = "u"
  <2>1. /\ UNCHANGED <<file, clients, tasks, passed, spoiled>>
        /\ pc'["s"] = pc["s"] /\ at'["s"] = at["s"]
    <3>1. UNCHANGED <<file, clients, tasks, passed, spoiled>>
      BY <1>2 DEF Walk, Take, Release, Silent, Broken, Handle, Receives
    <3>2. pc' = pc \/ \E p : pc' = [pc EXCEPT ![w] = p]
      BY <1>2 DEF Walk, Take, Release, Silent, Broken, Handle, Goes
    <3>3. at' = at \/ at' = [at EXCEPT ![w] = 1] \/ Tried(w)
      BY <1>2 DEF Walk, Take, Release, Silent, Broken, Handle
    <3>4. at'["s"] = at["s"]
      BY <1>0, <1>2, <3>3, TriedType DEF Workers, TypeInv, TypeOK
    <3>5. pc'["s"] = pc["s"]
      BY <1>0, <1>2, <3>2 DEF Workers, TypeInv, TypeOK
    <3> QED
      BY <3>1, <3>4, <3>5
  <2>2. \A f, g \in Fds : Duplicate(f, g)' = Duplicate(f, g)
    BY <2>1, Zenon DEF Duplicate, Node, List, InList
  <2> QED
    BY <1>0, <2>1, <2>2, Zenon DEF TwinInv
<1>3. CASE Drop(w) /\ ~spoiled'
  <2>1. /\ ~spoiled /\ at[w] = 1 /\ file' = Closed(Node(w)) /\ passed' = passed
        /\ pc[w] = "drop"
    BY <1>3, Zenon DEF Drop, Goes
  <2>2. \A f \in Fds : file'[f] \in Servers => file'[f] = file[f] /\ f # Node(w)
    BY <1>0, <2>1, LinksAssumption DEF Closed, Fds
  <2>3. CASE w = "s"
    <3>1. ASSUME NEW f \in Fds, NEW g \in Fds, f # g, file'[f] = file'[g], file'[f] \in Servers
          PROVE  FALSE
      <4>1. file[f] = file[g] /\ file[f] \in Servers /\ f # Node("s") /\ g # Node("s")
        BY <2>2, <2>3, <3>1
      <4>2. Duplicate(f, g) \/ Duplicate(g, f)
        BY <1>0, <2>1, <3>1, <4>1, Zenon DEF TwinInv
      <4> QED
        BY <4>1, <4>2, Zenon DEF Duplicate
    <3> QED
      BY <3>1, Zenon DEF TwinInv
  <2>4. CASE w = "u"
    <3>1. clients' = clients /\ tasks' = Tail(tasks) /\ pc'["s"] = pc["s"] /\ at'["s"] = at["s"]
      BY <1>3, <2>4 DEF Drop, Goes, Workers, TypeInv, TypeOK
    <3>2. tasks \in Seq(0..Limit) /\ tasks # <<>> /\ Node("u") = tasks[1]
      <4>1. at["u"] <= Len(tasks) /\ tasks \in Seq(0..Limit)
        BY <1>0, <2>1, <2>4 DEF TypeInv, TypeOK, WalkInv, Workers, List
      <4>2. tasks # <<>>
        BY <2>1, <2>4, <4>1, EmptySeq
      <4> QED
        BY <2>1, <2>4, <4>1, <4>2 DEF Node, List
    <3>3. ASSUME NEW g \in Fds, InList(g, tasks), g # Node("u")
          PROVE  InList(g, tasks')
      <4>1. PICK i \in DOMAIN tasks : tasks[i] = g
        BY <3>3 DEF InList
      <4>2. Len(tasks) \in Nat /\ DOMAIN tasks = 1..Len(tasks)
        BY <3>2, LenProperties
      <4>3. /\ Tail(tasks) \in Seq(0..Limit) /\ Len(Tail(tasks)) = Len(tasks) - 1
            /\ \A j \in 1..Len(Tail(tasks)) : Tail(tasks)[j] = tasks[j + 1]
        BY <3>2, HeadTailProperties
      <4>4. DOMAIN Tail(tasks) = 1..Len(Tail(tasks))
        BY <4>3, LenProperties
      <4>5. i - 1 \in DOMAIN Tail(tasks) /\ Tail(tasks)[i - 1] = g
        BY <3>2, <3>3, <4>1, <4>2, <4>3, <4>4
      <4> QED
        BY <3>1, <4>5, Zenon DEF InList
    <3>4. ASSUME NEW f \in Fds, NEW g \in Fds, Duplicate(f, g), file'[g] \in Servers
          PROVE  Duplicate(f, g)'
      <4>1. InList(g, tasks) => InList(g, tasks)'
        BY <2>2, <2>4, <3>3, <3>4 DEF InList
      <4>2. Node("s")' = Node("s")
        BY <3>1, Zenon DEF Node, List
      <4> QED
        BY <2>1, <3>1, <3>4, <4>1, <4>2, Zenon DEF Duplicate
    <3> QED
      BY <1>0, <2>1, <2>2, <3>4, TwinStill
  <2> QED
    BY <2>3, <2>4 DEF Workers
<1> QED
  BY <1>1, <1>2, <1>3 DEF Workers, TwinInv

\* The serverworker makes a duplicate, and puts it into the updater's list before it
\* drops its own node.
LEMMA ServerworkerTwinInv ==
  ASSUME IInv, Result \/ Update \/ PassOn
  PROVE  TwinInv'
<1>0. /\ OwnInv /\ TypeInv /\ TwinInv /\ file \in [Fds -> 0..Other] /\ 0 \notin Servers
      /\ "s" \in Workers /\ pc \in [Workers -> Steps]
  BY LinksAssumption DEF IInv, OwnInv, TypeInv, TypeOK, Servers, Workers
<1>1. CASE Result
  <2>1. pc["s"] = "result" /\ (spoiled' \/ UNCHANGED <<file, spoiled>>)
    BY <1>1 DEF Result, Goes
  <2> QED
    BY <1>0, <2>1, TwinFree DEF NoTwins, TwinInv
<1>2. CASE Update /\ ~spoiled
  <2> DEFINE n == Node("s")
             x == Refers(n)
  <2>1. /\ pc["s"] = "read" /\ pc' = [pc EXCEPT !["s"] = "pass"]
        /\ clients' = clients /\ at' = at /\ passed' = Lowest /\ file' = Opened(Lowest, x)
        /\ at["s"] <= Len(List("s"))
    BY <1>2, Zenon DEF Update, Receives, Goes, Here
  <2>2. NoTwins
    BY <1>0, <1>2, <2>1, TwinFree
  <2>3. x # 0
    BY <1>2, LinksAssumption DEF Update, Receives, Servers, Other
  <2>4. n \in Fds /\ x = file[n] /\ file[n] \in Servers
    BY <1>0, <1>2, <2>1, <2>3, NodeIsServer
  <2>5. Node("s")' = n /\ pc'["s"] = "pass"
    BY <1>0, <2>1 DEF Node, List
  <2> HIDE DEF n, x
  <2>6. ASSUME NEW f \in Fds, NEW g \in Fds, f # g, file'[f] = file'[g], file'[f] \in Servers
        PROVE  (f = n /\ g = Lowest) \/ (g = n /\ f = Lowest)
    <3>1. CASE Lowest = 0
      BY <2>1, <2>2, <2>6, <3>1 DEF Opened, NoTwins
    <3>2. CASE Lowest # 0
      <4>1. file' = [file EXCEPT ![Lowest] = x]
        BY <2>1, <3>2 DEF Opened
      <4> QED
        BY <1>0, <2>2, <2>4, <2>6, <4>1 DEF NoTwins
    <3> QED
      BY <3>1, <3>2
  <2>7. ASSUME NEW f \in Fds, NEW g \in Fds, f = n, g = passed'
        PROVE  Duplicate(f, g)'
    BY <2>5, <2>7, Zenon DEF Duplicate
  <2> QED
    BY <2>1, <2>6, <2>7 DEF TwinInv
<1>3. CASE PassOn /\ ~spoiled
  <2>1. /\ pc["s"] = "pass" /\ pc' = [pc EXCEPT !["s"] = "drop"]
        /\ tasks' = Append(tasks, passed) /\ UNCHANGED <<file, clients, at, spoiled>>
    BY <1>3, Zenon DEF PassOn, Goes
  <2>2. pc'["s"] = "drop"
    BY <1>0, <2>1
  <2>3. InList(passed, tasks')
    <3>1. tasks \in Seq(0..Limit) /\ passed \in 0..Limit
      BY <1>0 DEF TypeInv, TypeOK
    <3>2. /\ Append(tasks, passed) \in Seq(0..Limit)
          /\ Append(tasks, passed)[Len(tasks) + 1] = passed
          /\ Len(Append(tasks, passed)) = Len(tasks) + 1 /\ Len(tasks) \in Nat
      BY <3>1, AppendProperties, LenProperties
    <3>3. Len(tasks) + 1 \in DOMAIN Append(tasks, passed)
      BY <3>2, LenProperties
    <3> QED
      BY <2>1, <3>2, <3>3, Zenon DEF InList
  <2>4. Node("s")' = Node("s")
    BY <1>0, <2>1, NodeStays
  <2>5. ASSUME NEW f \in Fds, NEW g \in Fds, Duplicate(f, g)
        PROVE  Duplicate(f, g)'
    <3>1. f = Node("s") /\ g = passed
      BY <2>1, <2>5 DEF Duplicate
    <3> QED
      BY <2>2, <2>3, <2>4, <3>1 DEF Duplicate, InList
  <2> QED
    BY <1>0, <1>3, <2>1, <2>5, TwinStill
<1>4. spoiled /\ (Update \/ PassOn) => TwinInv'
  BY DEF Update, PassOn, TwinInv
<1> QED
  BY <1>1, <1>2, <1>3, <1>4

\* A step of the serverworker that ends in "drop" comes from where there are no two
\* descriptors; a step of the updater or the worker moves neither.
LEMMA WaitsTwinInv ==
  ASSUME IInv, Waits
  PROVE  TwinInv'
<1>0. TypeInv /\ TwinInv /\ pc \in [Workers -> Steps]
  BY DEF IInv, OwnInv, TypeInv, TypeOK
<1>1. UNCHANGED <<file, clients, tasks, at, passed, spoiled>>
  BY <1>0, WaitsStep
<1>2. CASE pc'["s"] = pc["s"]
  <2>1. \A f, g \in Fds : Duplicate(f, g)' = Duplicate(f, g)
    BY <1>1, <1>2, Zenon DEF Duplicate, Node, List, InList
  <2> QED
    BY <1>0, <1>1, <2>1, Zenon DEF TwinInv
<1>3. CASE pc'["s"] # pc["s"]
  <2>1. pc["s"] \notin {"pass", "drop"}
    BY <1>0, <1>3, WaitsStep DEF Workers
  <2> QED
    BY <1>0, <1>1, <2>1, TwinFree DEF NoTwins, TwinInv
<1> QED
  BY <1>2, <1>3

LEMMA StillTwinInv ==
  ASSUME TwinInv, UNCHANGED vars
  PROVE  TwinInv'
<1>1. UNCHANGED <<file, clients, tasks, pc, at, passed, spoiled>>
  BY DEF vars, threads
<1>2. \A f, g \in Fds : Duplicate(f, g)' = Duplicate(f, g)
  BY <1>1, Zenon DEF Duplicate, Node, List, InList
<1> QED
  BY <1>1, <1>2, Zenon DEF TwinInv

LEMMA IInvOneReader == IInv => OneReader
<1> SUFFICES ASSUME IInv, ~spoiled,
                    NEW i \in DOMAIN clients, NEW j \in DOMAIN tasks,
                    Refers(clients[i]) = Refers(tasks[j]), Refers(tasks[j]) # 0
             PROVE  pc["s"] = "drop" /\ i = at["s"]
  BY DEF OneReader
<1> DEFINE f == clients[i]
           g == tasks[j]
<1>0. TypeOK /\ WalkInv /\ SocketsOwned /\ FileInv /\ TwinInv
  BY DEF IInv, OwnInv, TypeInv
<1>1. f \in 0..Limit /\ g \in 0..Limit
  <2>1. clients \in Seq(0..Limit) /\ tasks \in Seq(0..Limit)
    BY <1>0 DEF TypeOK
  <2>2. DOMAIN clients = 1..Len(clients) /\ DOMAIN tasks = 1..Len(tasks)
    BY <2>1, LenProperties
  <2> QED
    BY <2>1, <2>2, ElementOfSeq
<1>2. InList(f, clients) /\ InList(g, tasks)
  BY Zenon DEF InList
<1>3. f # 0 /\ g # 0 /\ file[f] = file[g] /\ file[g] # 0
  BY Zenon DEF Refers
<1>4. f \in Fds /\ g \in Fds
  BY <1>1, <1>3, LinksAssumption DEF Fds
<1> HIDE DEF f, g
<1>5. f # g /\ f \notin {accepted, passed} /\ f \notin others /\ g \notin {accepted, passed}
      /\ ~InList(f, tasks) /\ ~InList(g, clients)
  BY <1>0, <1>2, <1>4, OwnedOnce
<1>6. file[f] \in Servers
  <2>1. file[f] \in 0..Other /\ file[f] # Other
    BY <1>0, <1>4, <1>5 DEF TypeOK, FileInv
  <2> QED
    BY <1>3, <2>1, LinksAssumption DEF Servers, Other
<1>7. Duplicate(f, g) \/ Duplicate(g, f)
  BY <1>0, <1>3, <1>4, <1>5, <1>6 DEF TwinInv
<1>8. pc["s"] \in {"pass", "drop"}
  BY <1>7 DEF Duplicate
<1>9. at["s"] \in DOMAIN clients /\ Node("s") = clients[at["s"]]
  <2>1. clients \in Seq(0..Limit) /\ at["s"] \in Nat \ {0} /\ at["s"] <= Len(clients)
    BY <1>0, <1>8 DEF TypeOK, WalkInv, Workers, List
  <2> QED
    BY <2>1, LenProperties DEF Node, List
<1>10. InList(Node("s"), clients)
  BY <1>9, Zenon DEF InList
<1>11. pc["s"] = "drop" /\ f = Node("s")
  BY <1>5, <1>7, <1>10 DEF Duplicate
<1> QED
  BY <1>0, <1>4, <1>9, <1>11, OwnedOnce DEF f

\* A connection is read by the serverworker or by the updater, never by both: who has
\* passed it on drops it before reading again.
THEOREM LinksOneReader == Spec => []OneReader
<1>1. Init => IInv
  BY InitOwnInv, InitTwinInv DEF IInv
<1>2. IInv /\ [Next]_vars => IInv'
  <2> SUFFICES ASSUME IInv, [Next]_vars
               PROVE  IInv'
    OBVIOUS
  <2>1. OwnInv'
    BY NextOwnInv DEF IInv
  <2>2. TwinInv'
    BY OutsideTwinInv, WalkTwinInv, ServerworkerTwinInv, WaitsTwinInv, StillTwinInv
       DEF IInv, Next, Serverworker, Updater, Workers, Waits
  <2> QED
    BY <2>1, <2>2 DEF IInv
<1> QED
  BY <1>1, <1>2, IInvOneReader, PTL DEF Spec
=============================================================================
