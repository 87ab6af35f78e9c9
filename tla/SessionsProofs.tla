--------------------------- MODULE SessionsProofs ---------------------------
(***************************************************************************)
(* The hand-off of connections between listener, watcher and worker, for   *)
(* any number of connections, players and slots and any way of failing to  *)
(* sign in.  Types and locks hold throughout; the rest holds until crossed *)
(* does, that is, until a node is given up under another player's number.  *)
(***************************************************************************)
EXTENDS Sessions, TLAPS, FiniteSetTheorems, WellFoundedInduction

-----------------------------------------------------------------------------
(* The inductive invariant *)

\* The watcher is working on node c and has come to one of these points.
At(c, phases) == wcur = c /\ wpc \in phases

Phases == {"auth", "signin", "handover", "drop", "close"}

\* A connection the watcher has never seen.
Fresh(c) == /\ id[c] = 0 /\ ~data[c] /\ info[c] = "none"
            /\ c \notin wlist /\ c \notin klist

SignedIn(c) == c \in wlist /\ id[c] \in Ids /\ data[c] /\ ~At(c, {"signin", "close"})

\* Each list belongs to whoever holds its semaphore, and its cursor is on it.
LockInv == /\ semW = "watcher" <=> wpc # "idle"
           /\ semK = "worker" <=> kpc # "idle"
           /\ wpc \in Phases => wcur # 0
           /\ wpc # "idle" /\ wcur # 0 => wcur \in wlist
           /\ kpc \in {"serve", "unlink"} => kcur # 0
           /\ kpc # "idle" /\ kcur # 0 => kcur \in klist
           /\ lpc # "accept" => last # 0

\* What holds whether or not crossed does.
Ground == TypeOK /\ LockInv

\* The listener's connection and the ones to come are fresh; a node has an open socket.
FreshInv == /\ \A c \in Conns : c > last => sock[c] = "none" /\ Fresh(c)
            /\ lpc # "accept" => last # 0 /\ sock[last] = "open" /\ Fresh(last)
            /\ \A c \in wlist : sock[c] = "open"

\* What the id of a node says about its player_info and the tree.
NodeInv == \A c \in wlist :
              /\ id[c] = 0 /\ ~At(c, {"drop", "close"}) => info[c] = "none" /\ ~data[c]
              /\ id[c] # 0 /\ ~data[c] => At(c, {"auth", "drop", "close"})
              /\ id[c] # 0 /\ data[c] => id[c] \in Ids
              /\ SignedIn(c) => tree[id[c]] = c /\ Live(c)
              /\ wpc # "idle" /\ c < wcur => id[c] # 0

TreeInv == \A k \in Ids : tree[k] # 0 => SignedIn(tree[k]) /\ id[tree[k]] = k

\* The node in the watcher's hands, at each point of its treatment.
PhaseInv == /\ wpc = "auth" => id[wcur] # 0 /\ ~data[wcur] /\ info[wcur] = "connected"
            /\ wpc = "signin" => id[wcur] \in Ids /\ data[wcur] /\ info[wcur] = "connected"
            /\ wpc = "handover" => id[wcur] \in Ids /\ data[wcur] /\ info[wcur] = "connected"
            /\ wpc = "drop" =>
                 \/ /\ ~data[wcur] /\ info[wcur] \in {"none", "freed"}
                    /\ id[wcur] \in Ids => tree[id[wcur]] = 0
                 \/ id[wcur] = 0 /\ data[wcur] /\ info[wcur] = "connected"
                 \/ id[wcur] \in Ids /\ data[wcur] /\ info[wcur] = "fail"
            /\ wpc = "close" => /\ ~Live(wcur)
                                /\ id[wcur] \in Ids => tree[id[wcur]] = 0

\* The worker's nodes are connected players the watcher leaves alone, but for the one
\* the worker itself has given up and is about to unlink.
WorkerInv == /\ \A c \in klist : id[c] \in Ids
             /\ \A c \in klist : ~(kpc = "unlink" /\ kcur = c) =>
                                    /\ c \in wlist /\ info[c] = "connected"
                                    /\ ~At(c, Phases)
             /\ kpc = "unlink" => info[kcur] \in {"fail", "freed"}
             /\ OneEach

IInv == TypeOK /\ LockInv /\ FreshInv /\ NodeInv /\ TreeInv /\ PhaseInv /\ WorkerInv

-----------------------------------------------------------------------------
(* The helpers *)

\* A non-empty set of natural numbers has a least element, and Min is it.
LEMMA MinIsLeast ==
  ASSUME NEW S \in SUBSET Nat, S # {}
  PROVE  Min(S) \in S /\ \A m \in S : Min(S) <= m
<1> DEFINE R == {ss \in Nat \X Nat : ss[1] < ss[2]}
<1>1. IsWellFoundedOn(R, Nat)
  BY NatLessThanWellFounded, Zenon DEF OpToRel
<1>2. PICK m \in S : \A n \in S : <<n, m>> \notin R
  <2> HIDE DEF R
  <2> QED
    BY <1>1, WFMin, Zenon
<1>3. ASSUME NEW n \in S, n < m
      PROVE  FALSE
  <2>1. <<n, m>> \in R
    BY <1>3
  <2> QED
    BY <1>2, <2>1
<1>4. \E x \in S : \A y \in S : x <= y
  <2> HIDE DEF R
  <2> QED
    BY <1>3
<1> QED
  BY <1>4, Zenon DEF Min

\* The cursor moves to the next node of the list, or off its end.
LEMMA AfterIsNext ==
  ASSUME NEW list \in SUBSET Conns, NEW c \in 0..N
  PROVE  /\ After(list, c) \in 0..N
         /\ After(list, c) # 0 => After(list, c) \in list /\ After(list, c) > c
         /\ After(list, c) # 0 => \A d \in list : d < After(list, c) => d <= c
<1> DEFINE rest == {d \in list : d > c}
<1> USE SessionsAssumption DEF Conns
<1>1. CASE rest = {}
  BY <1>1 DEF After
<1>2. CASE rest # {}
  <2>1. rest \in SUBSET Nat
    BY rest \subseteq list, Conns \subseteq Nat
  <2>2. Min(rest) \in rest /\ \A m \in rest : Min(rest) <= m
    BY <1>2, <2>1, MinIsLeast
  <2>3. After(list, c) = Min(rest)
    BY <1>2 DEF After
  <2>4. ASSUME NEW d \in list, d < Min(rest)
        PROVE  d <= c
    <3>1. d \in Nat /\ Min(rest) \in Nat
      BY <2>1, <2>2
    <3> QED
      BY <2>2, <2>4, <3>1
  <2>5. Min(rest) \in list /\ Min(rest) > c
    BY <2>2
  <2>6. Conns \subseteq 0..N
    OBVIOUS
  <2> QED
    BY <2>3, <2>4, <2>5, <2>6, Zenon
<1> QED
  BY <1>1, <1>2

\* worklistDel finds the node it is meant for when no earlier one has the same id.
LEMMA FirstIsTheNode ==
  ASSUME NEW list \in SUBSET Conns, NEW c \in list,
         \A d \in list : id[d] = id[c] => c <= d
  PROVE  FirstWith(list, id[c]) = c
<1> DEFINE same == {d \in list : id[d] = id[c]}
<1>1. Conns \subseteq Nat
  BY SessionsAssumption DEF Conns
<1>2. same \in SUBSET Nat /\ c \in same
  BY <1>1
<1>3. Min(same) \in same /\ \A m \in same : Min(same) <= m
  BY <1>2, MinIsLeast
<1>4. Min(same) \in Nat /\ c \in Nat /\ c <= Min(same) /\ Min(same) <= c
  BY <1>1, <1>2, <1>3
<1> QED
  BY <1>4 DEF FirstWith

\* A removal that takes no key but its own takes that one.
LEMMA RemovedIsKey ==
  ASSUME NEW S, NEW k, Removed(S, k) \subseteq {k}
  PROVE  Removed(S, k) = S \cap {k}
<1>1. CASE k \in S
  <2>1. k \in Removed(S, k)
    BY <1>1 DEF Removed
  <2> QED
    BY <1>1, <2>1
<1>2. CASE k \notin S
  BY <1>2 DEF Removed
<1> QED
  BY <1>1, <1>2

-----------------------------------------------------------------------------
(* The invariant holds *)

LEMMA InitIInv == Init => IInv
<1> SUFFICES ASSUME Init
             PROVE  IInv
  OBVIOUS
<1> USE SessionsAssumption DEF Init, Conns
<1>1. TypeOK
  <2>1. 0 \in 0..N
    OBVIOUS
  <2>2. tree \in [Ids -> 0..N] /\ id \in [Conns -> Ids \cup {0, 1}]
    BY <2>1, Zenon
  <2>3. /\ sock \in [Conns -> {"none", "open", "closed"}]
        /\ data \in [Conns -> BOOLEAN]
        /\ info \in [Conns -> {"none", "connected", "fail", "freed"}]
    BY Zenon
  <2>4. /\ wlist \in SUBSET Conns /\ klist \in SUBSET Conns
        /\ wnum \in Int /\ knum \in Int /\ players \in Int
    OBVIOUS
  <2> QED
    BY <2>1, <2>2, <2>3, <2>4, Zenon DEF TypeOK
<1>2. LockInv /\ FreshInv /\ NodeInv /\ TreeInv
  BY DEF LockInv, Phases, FreshInv, Fresh, NodeInv, TreeInv
<1>3. PhaseInv /\ WorkerInv
  BY DEF PhaseInv, WorkerInv, OneEach
<1> QED
  BY <1>1, <1>2, <1>3 DEF IInv

\* The types and the locks do not depend on who has which number.
LEMMA GroundStep ==
  ASSUME Ground, Next
  PROVE  Ground'
<1> USE SessionsAssumption DEF Ground, TypeOK, LockInv, Phases
<1>1. /\ wlist \in SUBSET Conns /\ klist \in SUBSET Conns
      /\ wcur \in 0..N /\ kcur \in 0..N /\ 0 \in 0..N
      /\ Conns \subseteq 0..N /\ 0 \notin Conns
  BY DEF Conns
<1>2. ASSUME NEW list \in SUBSET Conns, NEW c \in 0..N
      PROVE  /\ After(list, c) \in 0..N
             /\ After(list, c) # 0 => After(list, c) \in list /\ After(list, c) > c
  BY <1>2, AfterIsNext, Zenon
<1>3. ASSUME NEW list \in SUBSET Conns, NEW c \in list
      PROVE  /\ Unlinked(list, id[c]) \in SUBSET Conns
             /\ Resume(list, id[c]) \in 0..N
             /\ Resume(list, id[c]) # 0 => Resume(list, id[c]) \in Unlinked(list, id[c])
  <2> DEFINE m == FirstWith(list, id[c])  same == {d \in list : id[d] = id[c]}
  <2>1. same \in SUBSET Nat /\ same # {}
    <3>1. \A d \in list : d \in Nat
      BY <1>3 DEF Conns
    <3>2. c \in same
      BY <1>3
    <3> QED
      BY <3>1, <3>2
  <2>2. m \in same
    BY <2>1, MinIsLeast, Zenon DEF FirstWith
  <2>3. m \in list /\ m \in 0..N
    BY <1>1, <2>2
  <2> HIDE DEF m
  <2>4. After(list, m) \in 0..N
    BY <1>2, <2>3
  <2>5. After(list, m) # 0 => After(list, m) \in list \ {m}
    BY <1>2, <2>3
  <2> QED
    BY <2>4, <2>5, Zenon DEF Unlinked, Resume, m
<1>4. CASE Listener
  <2>1. CASE Accept
    BY <1>1, <2>1 DEF Accept, watcher, worker, Conns
  <2>2. CASE Greet
    BY <1>1, <2>2 DEF Greet, watcher, worker, Conns
  <2>3. CASE AddClient
    BY <1>1, <2>3 DEF AddClient, watcher, worker, Conns
  <2> QED
    BY <1>4, <2>1, <2>2, <2>3 DEF Listener
<1>5. CASE WatcherTake \/ WatcherRelease \/ RefuseFull \/ HandOver \/ CheckClient
  <2>1. After(wlist, 0) \in 0..N /\ (After(wlist, 0) # 0 => After(wlist, 0) \in wlist)
    BY <1>1, <1>2
  <2>2. After(wlist, wcur) \in 0..N /\ (After(wlist, wcur) # 0 => After(wlist, wcur) \in wlist)
    BY <1>1, <1>2
  <2> QED
    <3>1. CASE WatcherTake
      BY <1>1, <2>1, <3>1 DEF WatcherTake, listener, worker
    <3>2. CASE WatcherRelease \/ RefuseFull
      BY <1>1, <3>2 DEF WatcherRelease, RefuseFull, listener, worker
    <3>3. CASE HandOver
      BY <1>1, <2>2, <3>3 DEF HandOver, listener, worker
    <3>4. CASE CheckClient
      BY <1>1, <2>2, <3>4 DEF CheckClient, listener, worker
    <3> QED
      BY <1>5, <3>1, <3>2, <3>3, <3>4
<1>6. CASE StartAuth \/ PassAuth \/ SignIn
  <2>1. wcur \in Conns /\ wcur \in wlist
    BY <1>1, <1>6 DEF StartAuth, PassAuth, SignIn
  <2>2. CASE StartAuth
    BY <1>1, <2>1, <2>2 DEF StartAuth, listener, worker
  <2>3. CASE PassAuth
    <3>1. Claims[wcur] \subseteq Ids
      BY <2>1
    <3> QED
      BY <1>1, <2>1, <2>3, <3>1 DEF PassAuth, listener, worker
  <2>4. CASE SignIn
    BY <1>1, <2>1, <2>4 DEF SignIn, listener, worker
  <2> QED
    BY <1>6, <2>2, <2>3, <2>4
<1>7. CASE FailAuth
  <2>1. wcur \in Conns /\ wcur \in wlist
    BY <1>1, <1>7 DEF FailAuth
  <2>2. PICK i \in Ids \cup {0, 1} : id' = [id EXCEPT ![wcur] = i]
    <3>1. PICK f \in Faults : \E i \in IdsAfter(f) : id' = [id EXCEPT ![wcur] = i]
      BY <1>7 DEF FailAuth, GivesUp
    <3>2. IdsAfter(f) \subseteq Ids \cup {0, 1}
      BY <2>1 DEF IdsAfter
    <3> QED
      BY <3>1, <3>2
  <2>3. crossed' \in BOOLEAN
    BY <1>7 DEF FailAuth, GivesUp
  <2> QED
    BY <1>1, <1>7, <2>1, <2>2, <2>3 DEF FailAuth, listener, worker
<1>8. CASE Drop
  <2>1. wcur \in Conns /\ wcur \in wlist
    BY <1>1, <1>8 DEF Drop
  <2>2. tree' \in [Ids -> 0..N] /\ crossed' \in BOOLEAN
    BY <1>1, <1>8 DEF Drop
  <2>3. info' \in [Conns -> {"none", "connected", "fail", "freed"}] /\ players' \in Int
    BY <1>8 DEF Drop
  <2> QED
    BY <1>8, <2>1, <2>2, <2>3 DEF Drop, listener, worker
<1>9. CASE Close
  <2>1. wcur \in wlist
    BY <1>9 DEF Close
  <2>2. /\ Unlinked(wlist, id[wcur]) \in SUBSET Conns
        /\ Resume(wlist, id[wcur]) \in 0..N
        /\ Resume(wlist, id[wcur]) # 0 => Resume(wlist, id[wcur]) \in Unlinked(wlist, id[wcur])
    BY <1>1, <1>3, <2>1
  <2> QED
    BY <1>9, <2>2 DEF Close, listener, worker
<1>10. CASE WorkerTake \/ WorkerRelease \/ Receive \/ Serve
  <2>1. After(klist, 0) \in 0..N /\ (After(klist, 0) # 0 => After(klist, 0) \in klist)
    BY <1>1, <1>2
  <2>2. After(klist, kcur) \in 0..N /\ (After(klist, kcur) # 0 => After(klist, kcur) \in klist)
    BY <1>1, <1>2
  <2> QED
    <3>1. CASE WorkerTake
      BY <1>1, <2>1, <3>1 DEF WorkerTake, listener, watcher
    <3>2. CASE WorkerRelease \/ Receive
      BY <1>1, <3>2 DEF WorkerRelease, Receive, listener, watcher
    <3>3. CASE Serve
      BY <1>1, <2>2, <3>3 DEF Serve, listener, watcher
    <3> QED
      BY <1>10, <3>1, <3>2, <3>3
<1>11. CASE Unlink
  <2>1. kcur \in klist
    BY <1>11 DEF Unlink
  <2>2. /\ Unlinked(klist, id[kcur]) \in SUBSET Conns
        /\ Resume(klist, id[kcur]) \in 0..N
        /\ Resume(klist, id[kcur]) # 0 => Resume(klist, id[kcur]) \in Unlinked(klist, id[kcur])
    BY <1>1, <1>3, <2>1
  <2> QED
    BY <1>11, <2>2 DEF Unlink, listener, watcher
<1> QED
  BY <1>4, <1>5, <1>6, <1>7, <1>8, <1>9, <1>10, <1>11 DEF Next, Watcher, Worker

\* worklistDel in the worker unlinks the node the worker is at.
LEMMA UnlinkTakesNode ==
  ASSUME IInv, Unlink
  PROVE  kcur \in klist /\ klist' = klist \ {kcur} /\ kcur' = After(klist, kcur) /\ kcur' # kcur
<1> USE SessionsAssumption DEF IInv, TypeOK, LockInv, WorkerInv, OneEach
<1>1. klist \in SUBSET Conns /\ kcur \in 0..N /\ kcur \in klist /\ kcur \in Nat
  BY DEF Unlink, Conns
<1>2. /\ After(klist, kcur) \in 0..N
      /\ After(klist, kcur) # 0 => After(klist, kcur) > kcur
  BY <1>1, AfterIsNext, Zenon
<1>3. FirstWith(klist, id[kcur]) = kcur
  BY <1>1, FirstIsTheNode
<1> QED
  BY <1>1, <1>2, <1>3 DEF Unlink, Unlinked, Resume, Conns

\* worklistDel in the watcher unlinks the node the watcher is at, although it looks for
\* the first node with the same id: an earlier one would be a player signed in.
LEMMA CloseTakesNode ==
  ASSUME IInv, Close
  PROVE  wcur \in wlist /\ wlist' = wlist \ {wcur} /\ wcur' = After(wlist, wcur) /\ wcur' # wcur
<1> USE SessionsAssumption
    DEF IInv, TypeOK, LockInv, NodeInv, PhaseInv, SignedIn, At, Live, Phases
<1>1. /\ wlist \in SUBSET Conns /\ wcur \in 0..N /\ wcur \in wlist /\ wcur # 0
      /\ Conns \subseteq 0..N /\ Conns \subseteq Int /\ 0 \notin Conns
      /\ 0 \notin Ids
  BY DEF Close, Conns
<1>2. \A d \in wlist : id[d] = id[wcur] => wcur <= d
  <2>1. SUFFICES ASSUME NEW d \in wlist, id[d] = id[wcur], d < wcur
                 PROVE  FALSE
    BY <1>1
  <2>2. id[d] # 0 /\ data[d]
    BY <1>1, <2>1 DEF Close
  <2>3. id[d] \in Ids
    BY <1>1, <2>1, <2>2
  <2>4. SignedIn(d) /\ tree[id[wcur]] = 0
    BY <2>1, <2>2, <2>3 DEF Close
  <2> QED
    BY <1>1, <2>1, <2>4
<1>3. FirstWith(wlist, id[wcur]) = wcur
  BY <1>1, <1>2, FirstIsTheNode
<1>4. /\ After(wlist, wcur) \in 0..N
      /\ After(wlist, wcur) # 0 => After(wlist, wcur) > wcur
  BY <1>1, AfterIsNext, Zenon
<1> QED
  BY <1>1, <1>3, <1>4 DEF Close, Unlinked, Resume

LEMMA ListenerStep ==
  ASSUME IInv, Listener
  PROVE  IInv'
<1> USE SessionsAssumption
    DEF watcher, worker, IInv, TypeOK, LockInv, FreshInv, NodeInv, TreeInv, PhaseInv,
        WorkerInv, OneEach, Fresh, SignedIn, At, Live, Phases, Conns
<1>1. CASE Accept
  BY <1>1 DEF Accept
<1>2. CASE Greet
  BY <1>2 DEF Greet
<1>3. CASE AddClient
  BY <1>3 DEF AddClient
<1> QED
  BY <1>1, <1>2, <1>3 DEF Listener

LEMMA WorkerStep ==
  ASSUME IInv, Worker
  PROVE  IInv'
<1> USE SessionsAssumption
    DEF listener, watcher, IInv, TypeOK, LockInv, FreshInv, NodeInv, TreeInv, PhaseInv,
        WorkerInv, OneEach, Fresh, SignedIn, At, Live, Phases
<1>1. klist \in SUBSET Conns /\ kcur \in 0..N /\ 0 \in 0..N
  BY DEF Conns
<1>2. /\ After(klist, kcur) \in 0..N
      /\ After(klist, kcur) # 0 => After(klist, kcur) \in klist /\ After(klist, kcur) > kcur
  BY <1>1, AfterIsNext, Zenon
<1>3. CASE WorkerTake
  <2>1. /\ After(klist, 0) \in 0..N
        /\ After(klist, 0) # 0 => After(klist, 0) \in klist
    BY <1>1, AfterIsNext, Zenon
  <2> QED
    BY <1>1, <1>3, <2>1 DEF WorkerTake
<1>4. CASE WorkerRelease
  BY <1>4 DEF WorkerRelease
<1>5. CASE Receive
  BY <1>5 DEF Receive
<1>6. CASE Serve
  <2>1. kcur \in klist /\ kcur \in Conns
    BY <1>1, <1>6 DEF Serve
  <2>2. TypeOK'
    BY <1>2, <1>6, <2>1 DEF Serve
  <2>3. LockInv'
    BY <1>2, <1>6, <2>1 DEF Serve
  <2>6. FreshInv'
    <3>1. \A c \in Conns : c \notin klist => info'[c] = info[c]
      BY <1>6, <2>1 DEF Serve
    <3>2. last # 0 => last \in Conns
      BY DEF Conns
    <3> QED
      BY <1>6, <3>1, <3>2 DEF Serve
  <2>4. NodeInv' /\ TreeInv' /\ PhaseInv'
    BY <1>6, <2>1 DEF Serve
  <2>5. WorkerInv'
    BY <1>6, <2>1 DEF Serve
  <2> QED
    BY <2>2, <2>3, <2>4, <2>5, <2>6 DEF IInv
<1>7. CASE Unlink
  <2>1. kcur \in klist /\ klist' = klist \ {kcur} /\ kcur' = After(klist, kcur) /\ kcur' # kcur
    BY <1>7, UnlinkTakesNode
  <2> QED
    BY <1>1, <1>2, <1>7, <2>1 DEF Unlink
<1> QED
  BY <1>3, <1>4, <1>5, <1>6, <1>7 DEF Worker

LEMMA WatcherStep ==
  ASSUME IInv, Watcher, ~crossed'
  PROVE  IInv'
<1> USE SessionsAssumption
    DEF listener, worker, IInv, TypeOK, LockInv, FreshInv, NodeInv, TreeInv, PhaseInv,
        WorkerInv, OneEach, Fresh, SignedIn, At, Live, Phases
<1>1. /\ wlist \in SUBSET Conns /\ klist \in SUBSET Conns
      /\ wcur \in 0..N /\ 0 \in 0..N
      /\ Conns \subseteq 0..N /\ 0 \notin Conns
      /\ Conns \subseteq Int
      /\ 0 \notin Ids
  BY DEF Conns
<1>2. /\ After(wlist, wcur) \in 0..N
      /\ After(wlist, wcur) # 0 =>
           /\ After(wlist, wcur) \in wlist /\ After(wlist, wcur) > wcur
           /\ \A d \in wlist : d < After(wlist, wcur) => d <= wcur
  BY <1>1, AfterIsNext, Zenon
<1>3. CASE WatcherTake
  <2>1. /\ After(wlist, 0) \in 0..N
        /\ After(wlist, 0) # 0 => /\ After(wlist, 0) \in wlist
                                  /\ \A d \in wlist : d < After(wlist, 0) => d <= 0
    BY <1>1, AfterIsNext, Zenon
  <2> QED
    BY <1>1, <1>3, <2>1 DEF WatcherTake, Conns
<1>4. CASE WatcherRelease
  BY <1>4 DEF WatcherRelease
<1>5. CASE RefuseFull
  BY <1>5 DEF RefuseFull
<1>6. CASE StartAuth
  BY <1>1, <1>6 DEF StartAuth, Conns
<1>7. CASE FailAuth
  <2>1. wcur \in wlist /\ wcur \in Conns
    BY <1>1, <1>7 DEF FailAuth
  <2>2. PICK i \in Ids \cup {0, 1} : /\ id' = [id EXCEPT ![wcur] = i]
                                     /\ i \in Ids => tree[i] = 0
    <3>1. PICK f \in Faults : \E i \in IdsAfter(f) :
                                /\ id' = [id EXCEPT ![wcur] = i]
                                /\ crossed' = (crossed \/ (f # "rejected" /\ i \in Keys))
      BY <1>7 DEF FailAuth, GivesUp
    <3>2. PICK i \in IdsAfter(f) : /\ id' = [id EXCEPT ![wcur] = i]
                                   /\ ~(f # "rejected" /\ i \in Keys)
      BY <3>1
    <3>3. i \in Ids \cup {0, 1} /\ (f = "rejected" => i = 0)
      BY <2>1, <3>2 DEF IdsAfter
    <3>4. i \in Ids => tree[i] = 0
      BY <1>1, <3>2, <3>3 DEF Keys
    <3> QED
      BY <3>2, <3>3, <3>4
  <2>3. /\ wpc = "auth" /\ wpc' = "drop"
        /\ info' = [info EXCEPT ![wcur] = "freed"]
        /\ UNCHANGED <<semW, wlist, data, tree, wcur, last, lpc, semK, klist, kpc, kcur, sock>>
    BY <1>7 DEF FailAuth
  <2>4. TypeOK' /\ LockInv'
    BY <1>7, GroundStep DEF Ground, Next, Watcher
  <2>5. /\ \A c \in Conns : c # wcur => id'[c] = id[c] /\ info'[c] = info[c]
        /\ id'[wcur] = i /\ info'[wcur] = "freed"
    <3>1. wcur \in DOMAIN id /\ wcur \in DOMAIN info /\ DOMAIN id = Conns /\ DOMAIN info = Conns
      BY <2>1
    <3>2. id' = [id EXCEPT ![wcur] = i] /\ info' = [info EXCEPT ![wcur] = "freed"]
      BY <2>2, <2>3, Zenon
    <3> QED
      BY <3>1, <3>2, Zenon
  <2>6. FreshInv'
    BY <1>1, <2>1, <2>3, <2>5 DEF Conns
  <2>7. NodeInv'
    BY <1>1, <2>1, <2>2, <2>3, <2>5
  <2>8. TreeInv'
    BY <1>1, <2>1, <2>2, <2>3, <2>5
  <2>9. PhaseInv'
    <3>1. i \in Ids => tree[i] = 0
      BY <2>2, Zenon
    <3> QED
      BY <1>1, <2>1, <2>3, <2>5, <3>1
  <2>10. WorkerInv'
    BY <1>1, <2>1, <2>3, <2>5
  <2> QED
    BY <2>4, <2>6, <2>7, <2>8, <2>9, <2>10
<1>8. CASE PassAuth
  BY <1>1, <1>8 DEF PassAuth, Conns
<1>9. CASE SignIn
  <2>1. wcur \in wlist /\ wcur \in Conns /\ id[wcur] \in Ids
    BY <1>1, <1>9 DEF SignIn
  <2>2. CASE tree[id[wcur]] = 0 /\ wpc' = "handover" /\ tree' = [tree EXCEPT ![id[wcur]] = wcur]
              /\ UNCHANGED id
    <3>1. TypeOK' /\ LockInv'
      BY <1>1, <1>9, <2>1, <2>2 DEF SignIn
    <3>2. NodeInv'
      <4>1. \A c \in wlist : SignedIn(c) => id[c] # id[wcur]
        BY <1>1, <2>2
      <4>2. \A k \in Ids : tree'[k] = IF k = id[wcur] THEN wcur ELSE tree[k]
        BY <1>9, <2>2 DEF SignIn
      <4>3. UNCHANGED <<id, data, info, wlist, wcur>> /\ wpc = "signin"
        BY <1>9, <2>2 DEF SignIn
      <4> SUFFICES ASSUME NEW c \in wlist
                   PROVE  /\ id[c] = 0 => info[c] = "none" /\ ~data[c]
                          /\ id[c] # 0 => data[c] /\ id[c] \in Ids
                          /\ id[c] \in Ids /\ data[c] => tree'[id[c]] = c /\ Live(c)
                          /\ c < wcur => id[c] # 0
        BY <2>2, <4>3
      <4>4. CASE c = wcur
        BY <1>1, <2>1, <4>2, <4>3, <4>4
      <4>5. CASE c # wcur
          <5>1. id[c] \in Ids /\ data[c] => tree'[id[c]] = tree[id[c]]
            BY <4>1, <4>2, <4>5
          <5> QED
            BY <4>3, <4>5, <5>1
      <4> QED
        BY <4>4, <4>5
    <3>5. FreshInv'
      BY <1>1, <1>9, <2>1, <2>2 DEF SignIn
    <3>3. TreeInv'
      BY <1>1, <1>9, <2>1, <2>2 DEF SignIn, Conns
    <3>4. PhaseInv' /\ WorkerInv'
      BY <1>1, <1>9, <2>1, <2>2 DEF SignIn, Conns
    <3> QED
      BY <3>1, <3>2, <3>3, <3>4, <3>5
  <2>3. CASE wpc' = "drop" /\ UNCHANGED tree /\ id' = [id EXCEPT ![wcur] = 0]
    BY <1>1, <1>9, <2>1, <2>3 DEF SignIn, Conns
  <2> QED
    BY <1>9, <2>2, <2>3 DEF SignIn
<1>10. CASE HandOver
  BY <1>1, <1>2, <1>10 DEF HandOver, Conns
<1>11. CASE CheckClient
  BY <1>1, <1>2, <1>11 DEF CheckClient, Conns
<1>12. CASE Drop
  <2>1. wcur \in wlist /\ wcur \in Conns /\ wcur # 0
    BY <1>1, <1>12 DEF Drop
  <2>2. Realized \in {0, wcur}
    BY <1>1, <1>12, <2>1 DEF Drop, Realized
  <2>3. info'[wcur] \in {"none", "freed"} /\ \A c \in Conns : c # wcur => info'[c] = info[c]
    BY <1>1, <1>12, <2>1, <2>2 DEF Drop, Realized
  <2>4. \A k \in Ids : tree'[k] = IF k = id[wcur] THEN 0 ELSE tree[k]
    <3>1. Removed(Keys, id[wcur]) = Keys \cap {id[wcur]}
      <4>1. Removed(Keys, id[wcur]) \subseteq {id[wcur]}
        BY <1>12 DEF Drop
      <4>2. \A S, k : Removed(S, k) \subseteq {k} => Removed(S, k) = S \cap {k}
        BY RemovedIsKey, Zenon
      <4> QED
        BY <4>1, <4>2
    <3> QED
      BY <1>12, <3>1 DEF Drop, Keys
  <2>5. TypeOK' /\ LockInv' /\ FreshInv'
    BY <1>1, <1>12, <2>1, <2>2 DEF Drop, Conns
  <2>6. \A c \in wlist : c # wcur /\ id[c] \in Ids /\ data[c] => id[c] # id[wcur]
    BY <1>1, <1>12, <2>1 DEF Drop
  <2>7. NodeInv'
    <3> SUFFICES ASSUME NEW c \in wlist
                 PROVE  /\ id[c] = 0 /\ c # wcur => info'[c] = "none" /\ ~data[c]
                        /\ id[c] # 0 /\ c # wcur => data[c]
                        /\ id[c] # 0 /\ data[c] => id[c] \in Ids
                        /\ c # wcur /\ id[c] \in Ids /\ data[c] => tree'[id[c]] = c /\ Live(c)'
                        /\ c < wcur => id[c] # 0
      BY <1>12, <2>1 DEF Drop
    <3>1. CASE c = wcur
      BY <1>1, <3>1
    <3>2. CASE c # wcur
      <4>1. info'[c] = info[c] /\ wpc = "drop"
        BY <1>1, <1>12, <2>3, <3>2 DEF Drop
      <4>2. id[c] \in Ids /\ data[c] => tree'[id[c]] = tree[id[c]]
        BY <2>4, <2>6, <3>2
      <4> QED
        BY <1>1, <3>2, <4>1, <4>2
    <3> QED
      BY <3>1, <3>2
  <2>8. TreeInv'
    BY <1>1, <1>12, <2>1, <2>4 DEF Drop
  <2>9. PhaseInv'
    BY <1>1, <1>12, <2>1, <2>3, <2>4 DEF Drop
  <2>10. WorkerInv'
    BY <1>1, <1>12, <2>1, <2>2, <2>3 DEF Drop
  <2> QED
    BY <2>5, <2>7, <2>8, <2>9, <2>10
<1>13. CASE Close
  <2>1. wcur \in wlist /\ wcur \in Conns /\ wcur # 0
    BY <1>1, <1>13 DEF Close
  <2>4. wlist' = wlist \ {wcur} /\ wcur' = After(wlist, wcur) /\ wcur' # wcur
    BY <1>13, CloseTakesNode
  <2>5. TypeOK' /\ LockInv' /\ FreshInv'
    BY <1>1, <1>2, <1>13, <2>1, <2>4 DEF Close, Conns
  <2>6. NodeInv' /\ TreeInv'
    BY <1>1, <1>2, <1>13, <2>1, <2>4 DEF Close, Conns
  <2>7. PhaseInv' /\ WorkerInv'
    BY <1>1, <1>2, <1>13, <2>1, <2>4 DEF Close, Conns
  <2> QED
    BY <2>5, <2>6, <2>7
<1> QED
  BY <1>3, <1>4, <1>5, <1>6, <1>7, <1>8, <1>9, <1>10, <1>11, <1>12, <1>13 DEF Watcher

\* crossed is never taken back.
LEMMA CrossedStays ==
  ASSUME Ground, [Next]_vars
  PROVE  crossed => crossed'
<1>1. CASE UNCHANGED vars \/ Listener \/ Worker
  BY <1>1 DEF vars, watcher, Listener, Accept, Greet, AddClient, Worker, WorkerTake, WorkerRelease,
              Receive, Serve, Unlink
<1>2. CASE FailAuth
  BY <1>2 DEF FailAuth, GivesUp
<1>3. CASE Watcher /\ ~FailAuth
  BY <1>3 DEF Watcher, WatcherTake, WatcherRelease, RefuseFull, StartAuth, PassAuth, SignIn, HandOver,
              CheckClient, Drop, Close
<1> QED
  BY <1>1, <1>2, <1>3 DEF Next

LEMMA IInvStep ==
  ASSUME IInv, [Next]_vars, ~crossed'
  PROVE  IInv'
<1>1. CASE UNCHANGED vars
  BY <1>1 DEF vars, listener, watcher, worker, IInv, TypeOK, LockInv, FreshInv, NodeInv,
              TreeInv, PhaseInv, WorkerInv, OneEach, Fresh, SignedIn, At, Live
<1> QED
  BY <1>1, ListenerStep, WatcherStep, WorkerStep DEF Next

LEMMA IInvInvariant == Spec => [](Ground /\ (crossed \/ IInv))
<1>1. Init => Ground /\ IInv
  BY InitIInv DEF IInv, Ground
<1>2. Ground /\ [Next]_vars => Ground'
  <2>1. UNCHANGED vars /\ Ground => Ground'
    BY DEF vars, listener, watcher, worker, Ground, TypeOK, LockInv
  <2> QED
    BY <2>1, GroundStep
<1>3. Ground /\ (crossed \/ IInv) /\ [Next]_vars => crossed' \/ IInv'
  BY CrossedStays, IInvStep
<1> QED
  BY <1>1, <1>2, <1>3, PTL DEF Spec

-----------------------------------------------------------------------------
(* What follows from it *)

\* Every variable keeps its type, so the cursors always point to nodes that exist.
THEOREM SessionsTypeOK == Spec => []TypeOK
<1>1. Ground => TypeOK
  BY DEF Ground
<1> QED
  BY <1>1, IInvInvariant, PTL

\* The node being dropped either has no player_info to find or finds its own.
LEMMA RealizesOwn ==
  ASSUME IInv, wpc = "drop"
  PROVE  /\ wcur \in wlist /\ wcur \in Conns /\ wcur # 0
         /\ Realized # 0 => Realized = wcur /\ data[wcur] /\ Live(wcur)
<1> USE SessionsAssumption DEF IInv, TypeOK, LockInv, Phases, Live
<1>1. wcur \in wlist /\ wcur \in Conns /\ wcur # 0 /\ 0 \notin Ids
  BY DEF Conns
<1>2. CASE id[wcur] = 0
  BY <1>1, <1>2 DEF Realized, PhaseInv
<1>3. CASE id[wcur] \in Ids
  <2>1. CASE data[wcur]
    <3>1. tree[id[wcur]] = wcur /\ Live(wcur)
      BY <1>1, <1>3, <2>1 DEF NodeInv, SignedIn, At
    <3> QED
      BY <1>1, <1>3, <2>1, <3>1 DEF Realized
  <2>2. CASE ~data[wcur]
    BY <1>1, <1>3, <2>2 DEF Realized, PhaseInv
  <2> QED
    BY <2>1, <2>2
<1>4. CASE id[wcur] \notin Ids \cup {0}
  BY <1>1, <1>4 DEF Realized
<1> QED
  BY <1>1, <1>2, <1>3, <1>4

\* The FAIL mark is enough to pass a player_info and its socket from the worker to the
\* watcher, for any number of connections and however they fail, until a node is given
\* up under another player's number: neither is used after the watcher frees and closes
\* it, and neither is freed or closed twice.
THEOREM SessionsNoUseAfterFree == Spec => []NoUseAfterFree
<1>1. Ground /\ (crossed \/ IInv) => NoUseAfterFree
  <2> SUFFICES ASSUME IInv, ~crossed
               PROVE  NoUseAfterFree
    BY DEF NoUseAfterFree
  <2> USE SessionsAssumption DEF IInv, TypeOK, Live
  <2>1. kpc = "serve" => Live(kcur) /\ sock[kcur] = "open"
    BY DEF LockInv, FreshInv, WorkerInv
  <2>2. wpc = "sweep" /\ wcur # 0 /\ id[wcur] # 0 /\ data[wcur] => Live(wcur)
    <3> SUFFICES ASSUME wpc = "sweep", wcur # 0, id[wcur] # 0, data[wcur]
                 PROVE  Live(wcur)
      OBVIOUS
    <3>1. wcur \in wlist /\ id[wcur] \in Ids
      BY DEF LockInv, NodeInv, At
    <3> QED
      BY <3>1 DEF NodeInv, SignedIn, At
  <2>3. wpc = "drop" /\ Realized # 0 => Live(Realized)
    BY RealizesOwn
  <2>4. wpc = "close" => sock[wcur] = "open"
    BY DEF LockInv, FreshInv, Phases
  <2> QED
    BY <2>1, <2>2, <2>3, <2>4 DEF NoUseAfterFree
<1> QED
  BY <1>1, IInvInvariant, PTL

\* The player_info that cleaning up a client frees is the client's own (watcher.c:93),
\* however the client failed, until a node is given up under another player's number.
THEOREM SessionsDropsOwnPlayer == Spec => []DropsOwnPlayer
<1>1. Ground /\ (crossed \/ IInv) => DropsOwnPlayer
  BY RealizesOwn DEF DropsOwnPlayer, OwnData
<1> QED
  BY <1>1, IInvInvariant, PTL

\* No two connections the worker serves belong to one player (watcher.c:46), until a
\* node is given up under another player's number.
THEOREM SessionsOneSession == Spec => []OneSession
<1>1. Ground /\ (crossed \/ IInv) => OneSession
  BY DEF IInv, WorkerInv, OneSession
<1> QED
  BY <1>1, IInvInvariant, PTL

-----------------------------------------------------------------------------
(* The counters *)

\* The player_infos that exist.
Allocated == {c \in Conns : Live(c)}

SlotsTrue == players = Cardinality(Allocated) /\ players <= PlayerMax /\ Allocated \subseteq wlist
WnumTrue == wnum = Cardinality(wlist)
KnumTrue == knum = Cardinality(klist) - (IF kpc = "unlink" THEN 1 ELSE 0)

\* There are finitely many connections, and one more or less counts for one.
LEMMA ConnsAreFinite ==
  ASSUME NEW S \in SUBSET Conns
  PROVE  /\ IsFiniteSet(S) /\ Cardinality(S) \in Nat
         /\ \A c : c \notin S => Cardinality(S \cup {c}) = Cardinality(S) + 1
         /\ \A c : c \in S => Cardinality(S \ {c}) = Cardinality(S) - 1
<1>1. IsFiniteSet(Conns)
  BY FS_Interval, SessionsAssumption DEF Conns
<1>2. IsFiniteSet(S) /\ Cardinality(S) \in Nat
  BY <1>1, FS_Subset, FS_CardinalityType
<1>3. \A c : c \notin S => Cardinality(S \cup {c}) = Cardinality(S) + 1
  BY <1>2, FS_AddElement
<1>4. \A c : c \in S => Cardinality(S \ {c}) = Cardinality(S) - 1
  BY <1>2, FS_RemoveElement
<1> QED
  BY <1>2, <1>3, <1>4

\* A slot is taken by one new player_info, and given back by freeing one.
LEMMA SlotsStep ==
  ASSUME IInv, SlotsTrue, Next
  PROVE  SlotsTrue'
<1> USE SessionsAssumption DEF IInv, TypeOK, LockInv, Live
<1> DEFINE L == Allocated  M == Allocated'  n == players'
<1>1. L \in SUBSET Conns /\ players \in Int /\ PlayerMax \in Nat
  BY DEF Allocated
<1>2. CASE StartAuth
  <2>1. wcur \in wlist /\ wcur \in Conns /\ wcur \notin L /\ players < PlayerMax /\ n = players + 1
    BY <1>2 DEF StartAuth, NodeInv, At, Allocated
  <2>2. M = L \cup {wcur} /\ wlist' = wlist
    BY <1>2, <2>1 DEF StartAuth, Allocated
  <2> HIDE DEF L
  <2>3. Cardinality(L \cup {wcur}) = Cardinality(L) + 1 /\ Cardinality(L) \in Nat
    BY <1>1, <2>1, ConnsAreFinite
  <2>4. players = Cardinality(L) /\ L \subseteq wlist
    BY DEF SlotsTrue, L
  <2>5. players + 1 = Cardinality(L \cup {wcur}) /\ players + 1 <= PlayerMax
    BY <1>1, <2>1, <2>3, <2>4
  <2>6. L \cup {wcur} \subseteq wlist
    BY <2>1, <2>4
  <2> HIDE DEF M, n
  <2>7. n = Cardinality(M) /\ n <= PlayerMax /\ M \subseteq wlist'
    BY <2>1, <2>2, <2>5, <2>6
  <2> QED
    BY <2>7, Zenon DEF M, n, SlotsTrue
<1>3. ASSUME NEW c \in Conns, c \in L, n = players - 1, M = L \ {c}, wlist' = wlist
      PROVE  SlotsTrue'
  <2> HIDE DEF L
  <2>1. Cardinality(L \ {c}) = Cardinality(L) - 1 /\ Cardinality(L) \in Nat
    BY <1>1, <1>3, ConnsAreFinite
  <2>2. players = Cardinality(L) /\ players <= PlayerMax /\ L \subseteq wlist
    BY DEF SlotsTrue, L
  <2>3. players - 1 = Cardinality(L \ {c}) /\ players - 1 <= PlayerMax
    BY <1>1, <2>1, <2>2
  <2> HIDE DEF M, n
  <2>4. n = Cardinality(M) /\ n <= PlayerMax /\ M \subseteq wlist'
    BY <1>3, <2>2, <2>3
  <2> QED
    BY <2>4, Zenon DEF M, n, SlotsTrue
<1>4. ASSUME n = players, M = L, L \subseteq wlist'
      PROVE  SlotsTrue'
  BY <1>4, Zenon DEF SlotsTrue
<1>5. CASE FailAuth
  <2>1. wcur \in Conns /\ wcur \in L
    BY <1>5 DEF FailAuth, PhaseInv, Allocated, Phases
  <2>2. n = players - 1 /\ M = L \ {wcur} /\ wlist' = wlist
    BY <1>5, <2>1 DEF FailAuth, Allocated
  <2> QED
    BY <1>3, <2>1, <2>2
<1>6. CASE Drop
  <2>1. wcur \in wlist /\ Realized \in {0, wcur} /\ (Realized # 0 => Live(Realized))
    BY <1>6, RealizesOwn DEF Drop
  <2>2. CASE Realized = 0
    <3>1. n = players /\ M = L /\ L \subseteq wlist'
      BY <1>6, <2>2 DEF Drop, Allocated, SlotsTrue, Conns
    <3> QED
      BY <1>4, <3>1
  <2>3. CASE Realized = wcur /\ wcur # 0
    <3>1. wcur \in Conns /\ wcur \in L
      BY <2>1, <2>3 DEF Allocated
    <3>2. n = players - 1 /\ M = L \ {wcur} /\ wlist' = wlist
      BY <1>6, <2>3, <3>1 DEF Drop, Allocated
    <3> QED
      BY <1>3, <3>1, <3>2
  <2> QED
    BY <2>1, <2>2, <2>3
<1>7. CASE Close
  <2>1. wlist' = wlist \ {wcur} /\ wcur \notin L
    BY <1>7, CloseTakesNode DEF Close, PhaseInv, Allocated
  <2>2. n = players /\ M = L
    BY <1>7 DEF Close, Allocated, worker, listener
  <2> QED
    BY <1>4, <2>1, <2>2 DEF SlotsTrue
<1>8. CASE Serve
  <2>1. kcur \in klist /\ info[kcur] = "connected" /\ klist \in SUBSET Conns
    BY <1>8 DEF Serve, WorkerInv
  <2>2. n = players /\ M = L /\ wlist' = wlist
    BY <1>8, <2>1 DEF Serve, Allocated, watcher
  <2> QED
    BY <1>4, <2>2 DEF SlotsTrue
<1>9. CASE AddClient
  <2>1. n = players /\ M = L /\ wlist' = wlist \cup {last}
    BY <1>9 DEF AddClient, Allocated
  <2> QED
    BY <1>4, <2>1 DEF SlotsTrue
<1>10. CASE UNCHANGED <<info, players, wlist>>
  BY <1>4, <1>10 DEF SlotsTrue, Allocated
<1>11. CASE \/ Accept \/ Greet \/ WatcherTake \/ WatcherRelease \/ RefuseFull \/ PassAuth
            \/ SignIn \/ HandOver \/ CheckClient \/ WorkerTake \/ WorkerRelease \/ Receive \/ Unlink
  BY <1>10, <1>11 DEF Accept, Greet, WatcherTake, WatcherRelease, RefuseFull, PassAuth, SignIn,
                      HandOver, CheckClient, WorkerTake, WorkerRelease, Receive, Unlink, watcher
<1> QED
  BY <1>2, <1>5, <1>6, <1>7, <1>8, <1>9, <1>11 DEF Next, Listener, Watcher, Worker

\* client_num of the watcher's list.
LEMMA WnumStep ==
  ASSUME IInv, WnumTrue, Next
  PROVE  WnumTrue'
<1> USE SessionsAssumption DEF IInv, TypeOK, WnumTrue
<1>1. wlist \in SUBSET Conns /\ wnum \in Int
  OBVIOUS
<1>2. CASE AddClient
  <2>1. last \in Conns /\ last \notin wlist /\ wlist' = wlist \cup {last} /\ wnum' = wnum + 1
    BY <1>2 DEF AddClient, FreshInv, Fresh, Conns
  <2>2. Cardinality(wlist \cup {last}) = Cardinality(wlist) + 1
    BY <1>1, <2>1, ConnsAreFinite
  <2> QED
    BY <2>1, <2>2
<1>3. CASE Close
  <2>1. wcur \in wlist /\ wlist' = wlist \ {wcur} /\ wnum' = wnum - 1
    BY <1>3, CloseTakesNode DEF Close
  <2>2. Cardinality(wlist \ {wcur}) = Cardinality(wlist) - 1
    BY <1>1, <2>1, ConnsAreFinite
  <2> QED
    BY <2>1, <2>2
<1>4. CASE Accept \/ Greet \/ Worker
  BY <1>4 DEF Accept, Greet, Worker, WorkerTake, WorkerRelease, Receive, Serve, Unlink, watcher
<1>5. CASE Watcher /\ ~Close
  BY <1>5 DEF Watcher, WatcherTake, WatcherRelease, RefuseFull, StartAuth, FailAuth, PassAuth,
              SignIn, HandOver, CheckClient, Drop
<1> QED
  BY <1>2, <1>3, <1>4, <1>5 DEF Next, Listener

\* client_num of the worker's list, which the worker counts down before it unlinks.
LEMMA KnumStep ==
  ASSUME IInv, KnumTrue, Next
  PROVE  KnumTrue'
<1> USE SessionsAssumption DEF IInv, TypeOK, KnumTrue
<1>1. klist \in SUBSET Conns /\ knum \in Int
  OBVIOUS
<1>2. CASE HandOver
  <2>1. wcur \notin klist /\ klist' = klist \cup {wcur} /\ knum' = knum + 1
    BY <1>2 DEF HandOver, LockInv, WorkerInv, At, Phases
  <2>2. kpc = "idle" /\ kpc' = "idle"
    BY <1>2 DEF HandOver, LockInv
  <2>3. Cardinality(klist \cup {wcur}) = Cardinality(klist) + 1 /\ Cardinality(klist) \in Nat
    BY <1>1, <2>1, ConnsAreFinite
  <2> QED
    BY <1>1, <2>1, <2>2, <2>3
<1>3. CASE Unlink
  <2>1. kcur \in klist /\ klist' = klist \ {kcur} /\ knum' = knum
    BY <1>3, UnlinkTakesNode DEF Unlink
  <2>2. kpc = "unlink" /\ kpc' = "sweep"
    BY <1>3 DEF Unlink
  <2>3. Cardinality(klist \ {kcur}) = Cardinality(klist) - 1 /\ Cardinality(klist) \in Nat
    BY <1>1, <2>1, ConnsAreFinite
  <2> QED
    BY <1>1, <2>1, <2>2, <2>3
<1>4. CASE Serve
  <2>1. Cardinality(klist) \in Nat
    BY <1>1, ConnsAreFinite
  <2>2. knum = Cardinality(klist) /\ klist' = klist
    BY <1>4, <2>1 DEF Serve
  <2> QED
    BY <1>1, <1>4, <2>1, <2>2 DEF Serve
<1>5. CASE Listener \/ (Watcher /\ ~HandOver)
  <2>1. UNCHANGED <<klist, knum, kpc>>
    BY <1>5 DEF Listener, Accept, Greet, AddClient, Watcher, WatcherTake, WatcherRelease, RefuseFull,
                StartAuth, FailAuth, PassAuth, SignIn, CheckClient, Drop, Close, worker
  <2> QED
    BY <2>1
<1>6. CASE WorkerTake \/ WorkerRelease \/ Receive
  <2>1. UNCHANGED <<klist, knum>> /\ kpc # "unlink" /\ kpc' # "unlink"
    BY <1>6 DEF WorkerTake, WorkerRelease, Receive
  <2> QED
    BY <2>1
<1> QED
  BY <1>2, <1>3, <1>4, <1>5, <1>6 DEF Next, Worker

\* What holds for as long as crossed does not.
Orderly == IInv /\ SlotsTrue /\ WnumTrue /\ KnumTrue

LEMMA CountInvariant == Spec => [](Ground /\ (crossed \/ Orderly))
<1>1. Init => Orderly
  <2> SUFFICES ASSUME Init
               PROVE  SlotsTrue /\ WnumTrue /\ KnumTrue
    BY InitIInv DEF Orderly
  <2>1. Cardinality({}) = 0
    BY FS_EmptySet
  <2>2. Allocated = {}
    BY DEF Init, Allocated, Live
  <2> QED
    BY <2>1, <2>2, SessionsAssumption DEF Init, SlotsTrue, WnumTrue, KnumTrue
<1>2. Ground /\ (crossed \/ Orderly) /\ [Next]_vars => crossed' \/ Orderly'
  <2> SUFFICES ASSUME Ground, Orderly, [Next]_vars, ~crossed'
               PROVE  Orderly'
    BY CrossedStays
  <2>1. IInv /\ SlotsTrue /\ WnumTrue /\ KnumTrue
    BY DEF Orderly
  <2>2. SlotsTrue' /\ WnumTrue' /\ KnumTrue'
    <3>1. CASE UNCHANGED vars
      BY <2>1, <3>1 DEF vars, watcher, worker, SlotsTrue, WnumTrue, KnumTrue, Allocated, Live
    <3> QED
      BY <2>1, <3>1, SlotsStep, WnumStep, KnumStep
  <2>3. IInv'
    BY <2>1, IInvStep
  <2> QED
    BY <2>2, <2>3 DEF Orderly
<1> QED
  BY <1>1, <1>2, IInvInvariant, PTL DEF Spec

\* config.$players is the number of player_infos, each of them can be reached from the
\* watcher's list, and both client_nums are the lengths of their lists: no slot is lost
\* and none is given back twice, however many connections come and however they fail,
\* until a node is given up under another player's number.
THEOREM SessionsCountsTrue == Spec => []CountsTrue
<1>1. Ground /\ (crossed \/ Orderly) => CountsTrue
  BY DEF Orderly, SlotsTrue, WnumTrue, KnumTrue, CountsTrue, Allocated
<1> QED
  BY <1>1, CountInvariant, PTL

-----------------------------------------------------------------------------
(* Refinement *)

Signing(c) == wpc = "signin" /\ wcur = c

\* A connection of which nothing changes that its stage is read from.
Still(c) == /\ sock'[c] = sock[c] /\ info'[c] = info[c] /\ data'[c] = data[c] /\ id'[c] = id[c]
            /\ (Signing(c)' <=> Signing(c))

LEMMA StillKeepsStage ==
  ASSUME NEW c, Still(c)
  PROVE  Stage(c)' = Stage(c)
BY DEF Still, Stage, Signing

\* The player the registry has for a connection.
PlayerOf(c) == IF Stage(c) \in {"online", "lost"} THEN id[c] ELSE 0

stages == [c \in Conns |-> Stage(c)]
playersOf == [c \in Conns |-> PlayerOf(c)]

LEMMA StillKeepsPlayer ==
  ASSUME NEW c, Still(c)
  PROVE  PlayerOf(c)' = PlayerOf(c)
BY StillKeepsStage DEF PlayerOf, Still

\* When all connections but c are still, the registry moves c.
LEMMA OneMoves ==
  ASSUME NEW c \in Conns, \A d \in Conns \ {c} : Still(d)
  PROVE  /\ stages' = [stages EXCEPT ![c] = Stage(c)']
         /\ playersOf' = [playersOf EXCEPT ![c] = PlayerOf(c)']
BY StillKeepsStage, StillKeepsPlayer DEF stages, playersOf

LEMMA AllStutter ==
  ASSUME \A c \in Conns : Still(c)
  PROVE  UNCHANGED <<stages, playersOf>>
BY StillKeepsStage, StillKeepsPlayer DEF stages, playersOf

\* The abstract step.
LEMMA RegistryStep ==
  ASSUME NEW c \in Conns, \A d \in Conns \ {c} : Still(d),
         \/ Stage(c) = "new" /\ Stage(c)' = "waiting"
         \/ Stage(c) = "waiting" /\ Stage(c)' = "gone"
         \/ Stage(c) = "online" /\ Stage(c)' = "lost" /\ id'[c] = id[c]
         \/ Stage(c) = "lost" /\ Stage(c)' = "gone"
         \/ Stage(c)' = Stage(c) /\ PlayerOf(c)' = PlayerOf(c)
  PROVE  [Abstract!Next]_<<stages, playersOf>>
<1> DEFINE f == stages  g == playersOf  f2 == stages'  g2 == playersOf'
<1>1. f2 = [f EXCEPT ![c] = Stage(c)'] /\ g2 = [g EXCEPT ![c] = PlayerOf(c)']
  BY OneMoves
<1>2. f[c] = Stage(c) /\ g[c] = PlayerOf(c) /\ f = [f EXCEPT ![c] = f[c]] /\ g = [g EXCEPT ![c] = g[c]]
  BY DEF stages, playersOf
<1>3. /\ Abstract!Connect(c) <=> f[c] \in {"new"} /\ f2 = [f EXCEPT ![c] = "waiting"] /\ g2 = g
      /\ Abstract!Refuse(c) <=> f[c] \in {"waiting"} /\ f2 = [f EXCEPT ![c] = "gone"] /\ g2 = g
      /\ Abstract!Lose(c) <=> f[c] \in {"online"} /\ f2 = [f EXCEPT ![c] = "lost"] /\ g2 = g
      /\ Abstract!Leave(c) <=> f[c] \in {"lost"} /\ f2 = [f EXCEPT ![c] = "gone"] /\ g2 = [g EXCEPT ![c] = 0]
  BY Zenon DEF Abstract!Connect, Abstract!Refuse, Abstract!Lose, Abstract!Leave, Abstract!Move,
               stages, playersOf, PlayerOf
<1>4. PlayerOf(c) = (IF Stage(c) \in {"online", "lost"} THEN id[c] ELSE 0)
      /\ PlayerOf(c)' = (IF Stage(c)' \in {"online", "lost"} THEN id'[c] ELSE 0)
  BY DEF PlayerOf
<1>5. \/ Abstract!Connect(c) \/ Abstract!Refuse(c) \/ Abstract!Lose(c) \/ Abstract!Leave(c)
      \/ f2 = f /\ g2 = g
  <2> HIDE DEF f, g, f2, g2
  <2> QED
    BY <1>1, <1>2, <1>3, <1>4
<1> QED
  BY <1>5, Zenon DEF Abstract!Next, Abstract!vars, stages, playersOf

\* A step that is no sign-in moves one connection at most, the way the registry does.
LEMMA PlainStep ==
  ASSUME IInv, [Next]_vars, ~(SignIn /\ wpc' = "handover")
  PROVE  [Abstract!Next]_<<stages, playersOf>>
<1> USE SessionsAssumption DEF IInv, TypeOK, LockInv, FreshInv, Fresh, Live
<1>1. /\ wlist \in SUBSET Conns /\ klist \in SUBSET Conns
      /\ 0 \notin Conns /\ \A c \in wlist : sock[c] = "open"
      /\ wpc \in Phases => wcur \in wlist
  BY DEF Conns, Phases
<1>2. ASSUME \A c \in Conns : Still(c)
      PROVE  [Abstract!Next]_<<stages, playersOf>>
  BY <1>2, AllStutter
<1>3. CASE Accept
  <2>1. PICK c \in Conns : c = last + 1 /\ sock[c] = "none" /\ info[c] = "none"
    BY <1>3 DEF Accept, Conns
  <2>2. \A d \in Conns \ {c} : Still(d)
    BY <1>3, <2>1 DEF Accept, Still, Signing, watcher
  <2>3. Stage(c) = "new" /\ Stage(c)' = "waiting"
    BY <1>3, <2>1 DEF Accept, Stage
  <2> QED
    BY <2>1, <2>2, <2>3, RegistryStep, Zenon
<1>4. CASE Greet
  <2>1. PICK c \in Conns : c = last /\ sock[c] = "open" /\ info[c] = "none"
    BY <1>4 DEF Greet, Conns
  <2>2. CASE UNCHANGED sock
    BY <1>2, <1>4, <2>2 DEF Greet, Still, Signing, watcher
  <2>3. CASE sock' = [sock EXCEPT ![c] = "closed"]
    <3>1. \A d \in Conns \ {c} : Still(d)
      BY <1>4, <2>1, <2>3 DEF Greet, Still, Signing, watcher
    <3>2. Stage(c) = "waiting" /\ Stage(c)' = "gone"
      BY <1>4, <2>1, <2>3 DEF Greet, Stage
    <3> QED
      BY <2>1, <3>1, <3>2, RegistryStep, Zenon
  <2> QED
    BY <1>4, <2>1, <2>2, <2>3 DEF Greet
<1>5. CASE StartAuth
  <2>1. PICK c \in Conns : c = wcur /\ c \in wlist /\ info[c] = "none" /\ ~data[c]
    BY <1>1, <1>5 DEF StartAuth, NodeInv, At
  <2>2. \A d \in Conns \ {c} : Still(d)
    BY <1>5, <2>1 DEF StartAuth, Still, Signing
  <2>3. Stage(c) = "waiting" /\ Stage(c)' = "waiting"
    BY <1>1, <1>5, <2>1 DEF StartAuth, Stage
  <2>4. PlayerOf(c)' = PlayerOf(c)
    BY <2>3 DEF PlayerOf
  <2> QED
    BY <2>1, <2>2, <2>3, <2>4, RegistryStep, Zenon
<1>6. CASE FailAuth
  <2>1. PICK c \in Conns : c = wcur /\ c \in wlist /\ info[c] = "connected" /\ ~data[c]
    BY <1>1, <1>6 DEF FailAuth, PhaseInv, Phases
  <2>2. \A d \in Conns \ {c} : Still(d)
    BY <1>6, <2>1 DEF FailAuth, GivesUp, Still, Signing
  <2>3. Stage(c) = "waiting" /\ Stage(c)' = "gone"
    BY <1>1, <1>6, <2>1 DEF FailAuth, Stage
  <2> QED
    BY <2>1, <2>2, <2>3, RegistryStep, Zenon
<1>7. CASE PassAuth
  <2>1. PICK c \in Conns : c = wcur /\ c \in wlist /\ info[c] = "connected" /\ ~data[c]
    BY <1>1, <1>7 DEF PassAuth, PhaseInv, Phases
  <2>2. \A d \in Conns \ {c} : Still(d)
    BY <1>7, <2>1 DEF PassAuth, Still, Signing
  <2>3. Stage(c) = "waiting" /\ Stage(c)' = "waiting"
    BY <1>1, <1>7, <2>1 DEF PassAuth, Stage
  <2>4. PlayerOf(c)' = PlayerOf(c)
    BY <2>3 DEF PlayerOf
  <2> QED
    BY <2>1, <2>2, <2>3, <2>4, RegistryStep, Zenon
<1>8. CASE SignIn /\ wpc' = "drop"
  <2>1. PICK c \in Conns : c = wcur /\ c \in wlist /\ info[c] = "connected" /\ id'[c] = 0
    BY <1>1, <1>8 DEF SignIn, PhaseInv, Phases
  <2>2. \A d \in Conns \ {c} : Still(d)
    BY <1>8, <2>1 DEF SignIn, Still, Signing
  <2>3. Stage(c) = "waiting" /\ Stage(c)' = "waiting"
    BY <1>1, <1>8, <2>1 DEF SignIn, Stage
  <2>4. PlayerOf(c)' = PlayerOf(c)
    BY <2>3 DEF PlayerOf
  <2> QED
    BY <2>1, <2>2, <2>3, <2>4, RegistryStep, Zenon
<1>9. CASE Drop
  <2>1. CASE Realized \notin Conns
    BY <1>2, <1>9, <2>1 DEF Drop, Still, Signing
  <2>2. CASE Realized \in Conns
    <3>1. PICK c \in Conns : c = wcur /\ c \in wlist /\ Realized = c
      BY <1>1, <1>9, <2>2, RealizesOwn DEF Drop
    <3>2. \A d \in Conns \ {c} : Still(d)
      BY <1>9, <3>1 DEF Drop, Still, Signing
    <3>3. \/ info[c] = "fail"
          \/ info[c] = "connected" /\ id[c] = 0
      BY <1>1, <1>9, <2>2, <3>1, RealizesOwn DEF Drop, PhaseInv
    <3>4. Stage(c) \in {"waiting", "lost"} /\ Stage(c)' = "gone"
      BY <1>1, <1>9, <3>1, <3>3 DEF Drop, Stage
    <3> QED
      BY <3>1, <3>2, <3>4, RegistryStep, Zenon
  <2> QED
    BY <2>1, <2>2
<1>10. CASE Close
  <2>1. PICK c \in Conns : c = wcur /\ c \in wlist /\ ~Live(c)
    BY <1>1, <1>10 DEF Close, PhaseInv, Phases
  <2>2. \A d \in Conns \ {c} : Still(d)
    BY <1>10, <2>1 DEF Close, Still, Signing
  <2>3. Stage(c) \in {"waiting", "gone"} /\ Stage(c)' = "gone"
    BY <1>1, <1>10, <2>1 DEF Close, Stage
  <2>4. Stage(c) = "gone" => PlayerOf(c)' = PlayerOf(c)
    BY <2>3 DEF PlayerOf
  <2> QED
    BY <2>1, <2>2, <2>3, <2>4, RegistryStep, Zenon
<1>11. CASE Serve
  <2>1. PICK c \in Conns : /\ c = kcur /\ c \in wlist /\ info[c] = "connected"
                           /\ id[c] \in Ids /\ data[c] /\ ~Signing(c)
    BY <1>1, <1>11 DEF Serve, WorkerInv, NodeInv, SignedIn, At, Phases, Signing
  <2>2. CASE kerr
    <3>1. \A d \in Conns \ {c} : Still(d)
      BY <1>11, <2>1, <2>2 DEF Serve, Still, Signing, watcher
    <3>2. Stage(c) = "online" /\ Stage(c)' = "lost" /\ id'[c] = id[c]
      BY <1>1, <1>11, <2>1, <2>2 DEF Serve, Stage, Signing, watcher
    <3> QED
      BY <2>1, <3>1, <3>2, RegistryStep, Zenon
  <2>3. CASE ~kerr
    BY <1>2, <1>11, <2>3 DEF Serve, Still, Signing, watcher
  <2> QED
    BY <2>2, <2>3
<1>12. CASE AddClient \/ WorkerTake \/ WorkerRelease \/ Receive \/ Unlink
  BY <1>2, <1>12 DEF AddClient, WorkerTake, WorkerRelease, Receive, Unlink, watcher, Still, Signing
<1>13. CASE WatcherTake \/ WatcherRelease \/ RefuseFull \/ HandOver \/ CheckClient
  BY <1>2, <1>13 DEF WatcherTake, WatcherRelease, RefuseFull, HandOver, CheckClient, Still, Signing
<1>14. CASE UNCHANGED vars
  BY <1>2, <1>14 DEF vars, watcher, Still, Signing
<1>15. SignIn => wpc' \in {"handover", "drop"}
  BY DEF SignIn
<1> QED
  BY <1>3, <1>4, <1>5, <1>6, <1>7, <1>8, <1>9, <1>10, <1>11, <1>12, <1>13, <1>14, <1>15
     DEF Next, Listener, Watcher, Worker

\* The abstract sign-in.
LEMMA RegistrySignIn ==
  ASSUME NEW c \in Conns, NEW p \in Ids,
         stages[c] = "waiting", stages' = [stages EXCEPT ![c] = "online"],
         \A d \in {e \in Conns : stages[e] \in {"online", "lost"}} : playersOf[d] # p,
         Cardinality({e \in Conns : stages[e] \in {"online", "lost"}}) < PlayerMax,
         playersOf' = [playersOf EXCEPT ![c] = p]
  PROVE  Abstract!SignIn(c, p)
<1>1. Abstract!Move(c, {"waiting"}, "online")
  BY DEF Abstract!Move, stages
<1>2. Abstract!InSession = {e \in Conns : stages[e] \in {"online", "lost"}}
  BY Zenon DEF Abstract!InSession, stages
<1>3. \A d \in Abstract!InSession : playersOf[d] # p
  BY <1>2, Zenon
<1>4. Abstract!Cardinality(Abstract!InSession) < PlayerMax
  <2>1. \A S : Abstract!Cardinality(S) = Cardinality(S)
    BY Zenon DEF Abstract!Cardinality, Cardinality
  <2> QED
    BY <1>2, <2>1, Zenon
<1> QED
  BY <1>1, <1>3, <1>4, Zenon DEF Abstract!SignIn, playersOf, PlayerOf

\* The watcher signs a player in: bintreeAdd accepted the key, so no session of the
\* player is left, and the new player_info already has its slot.
LEMMA SignInStep ==
  ASSUME IInv, SlotsTrue, SignIn, wpc' = "handover"
  PROVE  Abstract!Next
<1> USE SessionsAssumption DEF IInv, TypeOK, LockInv, FreshInv, Live
<1>1. PICK c \in Conns : /\ c = wcur /\ c \in wlist /\ info[c] = "connected" /\ data[c]
                         /\ id[c] \in Ids /\ sock[c] = "open" /\ tree[id[c]] = 0
  BY DEF SignIn, PhaseInv, Phases, Conns
<1>2. UNCHANGED <<id, sock, info, data>> /\ wpc = "signin" /\ wcur' = wcur
  BY DEF SignIn
<1>3. \A d \in Conns \ {c} : Still(d)
  BY <1>1, <1>2 DEF Still, Signing
<1>4. PICK p \in Ids : p = id[c]
  BY <1>1
<1>5. Stage(c) = "waiting" /\ Stage(c)' = "online" /\ PlayerOf(c)' = p
  <2>1. Stage(c) = "waiting" /\ Stage(c)' = "online"
    BY <1>1, <1>2 DEF Stage
  <2> QED
    BY <1>2, <1>4, <2>1 DEF PlayerOf
<1> DEFINE f == stages  g == playersOf  f2 == stages'  g2 == playersOf'
           I == {d \in Conns : f[d] \in {"online", "lost"}}
<1>6. f2 = [f EXCEPT ![c] = "online"] /\ g2 = [g EXCEPT ![c] = p] /\ f[c] = "waiting"
  BY <1>3, <1>5, OneMoves DEF stages
<1>7. \A d \in I : g[d] # p
  <2> SUFFICES ASSUME NEW d \in I, id[d] = p
               PROVE  FALSE
    BY DEF stages, playersOf, PlayerOf
  <2>1. Stage(d) \in {"online", "lost"} /\ d # c
    BY <1>6 DEF stages
  <2>2. Live(d) /\ d \in wlist
    <3>1. Live(d)
      BY <2>1 DEF Stage
    <3> QED
      BY <3>1 DEF SlotsTrue, Allocated
  <2>3. SignedIn(d)
    <3>1. id[d] \in Ids /\ id[d] # 0
      BY <1>4
    <3>2. data[d]
      BY <1>1, <1>2, <2>1, <2>2, <3>1 DEF NodeInv, At
    <3> QED
      BY <1>1, <1>2, <2>1, <2>2, <3>1, <3>2 DEF SignedIn, At
  <2> QED
    BY <1>1, <1>4, <2>2, <2>3 DEF NodeInv, Conns
<1>8. Cardinality(I) < PlayerMax
  <2>1. I \in SUBSET (Allocated \ {c}) /\ c \in Allocated
    BY <1>1, <1>6 DEF stages, Stage, Allocated
  <2> DEFINE L == Allocated
  <2>2. L \in SUBSET Conns /\ L \ {c} \in SUBSET Conns /\ players = Cardinality(L) /\ players <= PlayerMax
    BY DEF SlotsTrue, Allocated
  <2>3. I \in SUBSET (L \ {c}) /\ c \in L
    BY <2>1
  <2> HIDE DEF L, I
  <2>4. Cardinality(L \ {c}) = Cardinality(L) - 1 /\ Cardinality(L) \in Nat
    BY <2>2, <2>3, ConnsAreFinite
  <2>5. Cardinality(I) <= Cardinality(L \ {c}) /\ Cardinality(I) \in Nat
    <3>1. IsFiniteSet(L \ {c})
      BY <2>2, ConnsAreFinite
    <3> QED
      BY <2>3, <3>1, FS_Subset, FS_CardinalityType
  <2> QED
    BY <2>2, <2>4, <2>5
<1>9. Abstract!SignIn(c, p)
  BY <1>6, <1>7, <1>8, RegistrySignIn
<1> QED
  BY <1>9, Zenon DEF Abstract!Next

\* The listener, the watcher and the worker, with their two lists, the tree and the
\* FAIL mark, implement the registry: a player has one session at a time, there are
\* never more than PLAYER_MAX, and nobody leaves a session that was not lost.  Every step
\* is the registry's up to the first node given up under another player's number.
THEOREM SessionsRefines == Spec => ImplementsRegistry
<1>1. Init => Abstract!Init
  <2> SUFFICES ASSUME Init
               PROVE  \A c \in Conns : Stage(c) = "new"
    BY DEF Abstract!Init
  <2> QED
    BY DEF Init, Stage
<1>2. Ground /\ (crossed \/ Orderly) /\ [Next]_vars => [crossed' \/ Abstract!Next]_(Abstract!vars)
  <2> SUFFICES ASSUME Ground, Orderly, [Next]_vars
               PROVE  [Abstract!Next]_(Abstract!vars)
    BY CrossedStays
  <2>3. IInv /\ SlotsTrue
    BY DEF Orderly
  <2>1. CASE SignIn /\ wpc' = "handover"
    BY <2>1, <2>3, SignInStep
  <2>2. CASE ~(SignIn /\ wpc' = "handover")
    <3>1. [Abstract!Next]_<<stages, playersOf>>
      BY <2>2, <2>3, PlainStep
    <3> QED
      BY <3>1, Zenon DEF Abstract!vars, stages, playersOf, PlayerOf
  <2> QED
    BY <2>1, <2>2
<1> QED
  BY <1>1, <1>2, CountInvariant, PTL DEF Spec, ImplementsRegistry
=============================================================================
