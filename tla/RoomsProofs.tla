----------------------------- MODULE RoomsProofs -----------------------------
(***************************************************************************)
(* The life of a room between the worker and the serverworker, for any     *)
(* number of rooms, players and servers, and any length of time.           *)
(***************************************************************************)
EXTENDS Rooms, TLAPS, FiniteSetTheorems

-----------------------------------------------------------------------------
(* The inductive invariants *)

\* The worker is at this point, or comes to it once it has posted t_sem.room.
Goes(to) == wpc = to \/ (wpc = "post" /\ wnext = to)

\* What the worker's local variables say of the player it serves.  The room it has found
\* is kept over roomLeave, and it is the one the player asked for.
LocalsInv == /\ wpc # "idle" => wp \in Players
             /\ wr # 0 => \/ Goes("look") \/ wpc = "told"
                          \/ /\ wr = wid
                             /\ \/ Goes("switch")
                                \/ wback = "switch" /\ (Goes("leave") \/ wpc = "count")
             /\ wpc = "told" => wr # 0
             /\ wpc = "count" /\ lr # 0 => lr = room[wp]

\* No room of a player, and none the worker holds, is yet to be created.
UsedInv == /\ wr # 0 => mem[wr] # "none"
           /\ \A p \in Players : room[p] # 0 => mem[room[p]] # "none"

\* The worker's player is out of its room, or not yet counted in the new one.
Between == wpc = "enter" \/ (\E to \in {"add", "switch", "left"} : Goes(to))

Within(r) == {p \in Players : room[p] = r /\ ~(p = wp /\ Between)}

\* A room counts every player that is within it: it may count players that vanished
\* without roomLeave, but it never counts too few.
UsersInv == \A r \in linked : Cardinality(Within(r)) <= users[r]

\* The typing of the variables is inductive only with what the locals say: the
\* worker writes the number it was given, which no room may have, into the player's
\* room when it has found a room with that number.
TypeInv == TypeOK /\ LocalsInv
TreeInv == TypeInv /\ OneUnitLost /\ FoundStays /\ UsedInv
IInv == TreeInv /\ UsersInv

-----------------------------------------------------------------------------
(* The typing and the worker's local variables *)

LEMMA InitTypeInv == Init => TypeInv
<1> SUFFICES ASSUME Init
             PROVE  TypeInv
  OBVIOUS
<1> USE RoomsAssumption DEF Init
<1>1. TypeOK
  BY DEF TypeOK, Statuses
<1>2. LocalsInv
  BY DEF LocalsInv
<1> QED
  BY <1>1, <1>2 DEF TypeInv

\* roomGet gives a room that is in the tree, or none.
LEMMA LookupIsLinked ==
  ASSUME NEW k
  PROVE  /\ Lookup(k) \in linked \cup {0}
         /\ Lookup(k) # 0 => Lookup(k) = k
BY DEF Lookup

\* An update keeps the type of a function, also one of an argument it does not have.
LEMMA UpdateType ==
  ASSUME NEW S, NEW T, NEW f \in [S -> T], NEW x, NEW y, x \in S => y \in T
  PROVE  [f EXCEPT ![x] = y] \in [S -> T]
OBVIOUS

\* The memory of a room is freed.
LEMMA DiscardTypes ==
  ASSUME TypeOK, NEW r, Discard(r)
  PROVE  /\ linked' \subseteq linked /\ mem' \in [Rooms -> {"none", "live", "freed"}]
         /\ status' \in [Rooms -> Statuses] /\ users' \in [Rooms -> Int]
         /\ stamp' \in [Rooms -> 0..MaxTime]
<1>1. mem' \in [Rooms -> {"none", "live", "freed"}]
  BY UpdateType, Zenon DEF TypeOK, Discard
<1>2. status' \in [Rooms -> Statuses]
  <2>1. "created" \in Statuses
    BY DEF Statuses
  <2> QED
    BY <2>1, UpdateType, Zenon DEF TypeOK, Discard
<1>3. 0 \in Int /\ 0 \in 0..MaxTime
  BY RoomsAssumption
<1>4. users' \in [Rooms -> Int] /\ stamp' \in [Rooms -> 0..MaxTime]
  BY <1>3, UpdateType, Zenon DEF TypeOK, Discard
<1>5. linked' \subseteq linked
  BY DEF Discard
<1> QED
  BY <1>1, <1>2, <1>4, <1>5

\* A player's turn ends.
LEMMA DoneTypeInv ==
  ASSUME TypeInv, Done, UNCHANGED <<now, val, rooms, lr, wid, server>>,
         wnext' \in {"add", "recv", "get", "leave", "switch", "look", "left"},
         wback' \in {"add", "switch", "left"},
         room' \in [Players -> Rooms \cup {0}],
         toldAt' \in [Players -> 0..MaxTime],
         wr' = 0
  PROVE  TypeInv'
<1> USE RoomsAssumption DEF TypeInv, TypeOK, LocalsInv, Goes, Done
<1>1. LocalsInv'
  OBVIOUS
<1>2. seenAt' \in [Players -> 0..MaxTime] /\ todo' \subseteq Players /\ wp' \in Players \cup {0}
  <2>1. wnow \in 0..MaxTime
    OBVIOUS
  <2>2. seenAt' \in [Players -> 0..MaxTime]
    BY <2>1, UpdateType
  <2> QED
    BY <2>2
<1>3. now' \in 1..MaxTime /\ val' \in Nat /\ wnow' \in 1..MaxTime
  OBVIOUS
<1>4. /\ linked' \subseteq Rooms /\ mem' \in [Rooms -> {"none", "live", "freed"}]
      /\ status' \in [Rooms -> Statuses] /\ users' \in [Rooms -> Int]
      /\ stamp' \in [Rooms -> 0..MaxTime]
  BY DEF rooms
<1>5. /\ spc' \in {"idle", "reported", "result", "walk", "ask", "silent", "refuse", "remove",
                   "removing", "removed"}
      /\ sr' \in Rooms \cup {0} /\ due' \subseteq Rooms /\ swept' \subseteq Rooms /\ asked' \subseteq 1..Servers
  BY DEF server
<1> QED
  BY <1>1, <1>2, <1>3, <1>4, <1>5

LEMMA WorkerTypeInv ==
  ASSUME TypeInv, Worker
  PROVE  TypeInv'
<1> USE RoomsAssumption DEF TypeInv, TypeOK, LocalsInv, Goes, rooms, players, sweep, locals, server, WGo
<1>1. CASE WPost
  BY <1>1 DEF WPost, Post
<1>2. CASE StartTick
  BY <1>2 DEF StartTick
<1>3. CASE Serve
  BY <1>3 DEF Serve
<1>4. CASE RecvCreate \/ RecvFast \/ RecvNone
  <2>1. wpc = "recv" /\ wpc' \in {"leave", "find", "check"} /\ wback' \in {"add", wback}
    BY <1>4 DEF RecvCreate, RecvFast, RecvNone
  <2>2. UNCHANGED <<now, val, rooms, players, sweep, wnext, wr, wid, lr, server>>
    BY <1>4 DEF RecvCreate, RecvFast, RecvNone
  <2> QED
    BY <2>1, <2>2
<1>5. CASE Leave
  BY <1>5, LookupIsLinked DEF Leave, Take
<1>6. CASE Count
  <2>1. UNCHANGED <<now, val, players, sweep, wr, wid, server>>
    BY <1>6 DEF Count
  <2>2. wpc = "count" /\ wpc' = "post" /\ wnext' = wback /\ wback' = "add" /\ lr' = 0
    BY <1>6 DEF Count
  <2>3. CASE UNCHANGED rooms
    BY <2>1, <2>2, <2>3
  <2>4. CASE lr # 0 /\ Discard(lr)
    BY <2>1, <2>2, <2>4, DiscardTypes
  <2>5. CASE users' = [users EXCEPT ![lr] = @ - 1] /\ UNCHANGED <<linked, mem, status, stamp>>
    <3>1. users' \in [Rooms -> Int]
      <4>1. users \in [Rooms -> Int] /\ (lr \in Rooms => users[lr] - 1 \in Int)
        OBVIOUS
      <4>2. users' = [users EXCEPT ![lr] = users[lr] - 1]
        BY <2>5, Zenon
      <4> DEFINE y == users[lr] - 1
      <4>3. users' = [users EXCEPT ![lr] = y] /\ (lr \in Rooms => y \in Int)
        BY <4>1, <4>2, Zenon
      <4> HIDE DEF TypeInv, TypeOK, LocalsInv, Goes, y
      <4> QED
        BY <4>1, <4>3, UpdateType
    <3> QED
      BY <2>1, <2>2, <2>5, <3>1
  <2> QED
    BY <1>6, <2>3, <2>4, <2>5 DEF Count
<1>7. CASE Add
  <2>1. /\ mem' \in [Rooms -> {"none", "live", "freed"}] /\ status' \in [Rooms -> Statuses]
        /\ users' \in [Rooms -> Int] /\ linked' \subseteq Rooms
        /\ room' \in [Players -> Rooms \cup {0}]
    <3>1. PICK r \in Rooms :
             /\ mem' = [mem EXCEPT ![r] = "live"]
             /\ status' = [status EXCEPT ![r] = "prepare"]
             /\ \/ /\ linked' = linked \cup {r}
                   /\ users' = [users EXCEPT ![r] = 1]
                   /\ room' = [room EXCEPT ![wp] = r]
                \/ /\ room' = [room EXCEPT ![wp] = 0]
                   /\ UNCHANGED <<linked, users>>
      BY <1>7 DEF Add
    <3>2. mem' \in [Rooms -> {"none", "live", "freed"}] /\ status' \in [Rooms -> Statuses]
      BY <3>1, UpdateType DEF Statuses
    <3>3. users' \in [Rooms -> Int] /\ linked' \subseteq Rooms
      <4>1. 1 \in Int
        OBVIOUS
      <4>2. users' \in [Rooms -> Int]
        BY <3>1, <4>1, UpdateType, Zenon
      <4>3. linked' \subseteq Rooms
        BY <3>1
      <4> QED
        BY <4>2, <4>3
    <3>4. room' \in [Players -> Rooms \cup {0}]
      BY <3>1, UpdateType
    <3> QED
      BY <3>2, <3>3, <3>4
  <2>2. val' \in Nat
    BY <1>7 DEF Add, WLocked, Take
  <2>3. /\ wpc = "add" /\ wpc' = "post" /\ wnext' = "recv"
        /\ UNCHANGED <<now, stamp, seenAt, toldAt, sweep, wback, wr, wid, lr, server>>
    BY <1>7 DEF Add, WLocked
  <2> QED
    BY <2>1, <2>2, <2>3
<1>8. CASE Find
  BY <1>8 DEF Find, WLocked, Take, NoSuchRoom
<1>9. CASE Get
  BY <1>9, LookupIsLinked DEF Get, WLocked, Take
<1>10. CASE Switch
  BY <1>10 DEF Switch
<1>11. CASE Enter
  BY <1>11 DEF Enter, WLocked, Take
<1>12. CASE Check
  BY <1>12, LookupIsLinked DEF Check, WLocked, Take, Done
<1>13. CASE Look
  <2>1. /\ wpc = "look" /\ wr' \in {0, wr} /\ room' \in [Players -> Rooms \cup {0}]
        /\ UNCHANGED <<now, val, rooms, toldAt, wnext, wid, lr, server>>
    BY <1>13 DEF Look
  <2>2. CASE Done /\ UNCHANGED wback /\ wr' = 0
    BY <2>1, <2>2, DoneTypeInv
  <2>3. CASE wpc' = "leave" /\ wback' = "left" /\ wr' = 0 /\ UNCHANGED <<sweep, seenAt>>
    BY <2>1, <2>3
  <2>4. CASE wpc' = "told" /\ wr # 0 /\ UNCHANGED <<sweep, seenAt, wr, wback>>
    BY <2>1, <2>4
  <2> QED
    BY <1>13, <2>2, <2>3, <2>4 DEF Look
<1>15. CASE Told
  <2>1. /\ wpc = "told" /\ wr' = 0
        /\ UNCHANGED <<now, val, rooms, room, wnext, wid, lr, server>>
    BY <1>15 DEF Told
  <2>2. toldAt' \in [Players -> 0..MaxTime]
    <3>1. PICK ts \in StampRead(wr) : toldAt' = [toldAt EXCEPT ![wp] = ts]
      BY <1>15 DEF Told
    <3>2. ts \in 0..MaxTime
      BY <2>1 DEF StampRead
    <3> QED
      BY <3>1, <3>2, UpdateType
  <2>3. CASE Done /\ UNCHANGED wback
    BY <2>1, <2>2, <2>3, DoneTypeInv
  <2>4. CASE wpc' = "leave" /\ wback' = "left" /\ UNCHANGED <<sweep, seenAt>>
    BY <2>1, <2>2, <2>4
  <2> QED
    BY <1>15, <2>3, <2>4 DEF Told
<1>14. CASE Left
  BY <1>14 DEF Left, Done
<1> QED
  BY <1>1, <1>2, <1>3, <1>4, <1>5, <1>6, <1>7, <1>8, <1>9, <1>10, <1>11, <1>12, <1>13, <1>14, <1>15
     DEF Worker

LEMMA ServerTypeInv ==
  ASSUME TypeInv, ServerWorker
  PROVE  TypeInv'
<1> USE RoomsAssumption
    DEF TypeInv, TypeOK, LocalsInv, Goes, rooms, players, sweep, locals, server, SGo, Take, Post, Statuses
<1>1. CASE Report
  BY <1>1, LookupIsLinked DEF Report
<1>2. CASE Reported
  BY <1>2 DEF Reported
<1>3. CASE Result
  BY <1>3, LookupIsLinked DEF Result
<1>4. CASE Resulted
  BY <1>4 DEF Resulted
<1>5. CASE StartWalk
  BY <1>5 DEF StartWalk
<1>6. ASSUME NEW r \in Rooms, Walk(r)
      PROVE  TypeInv'
  BY <1>6 DEF Walk
<1>7. CASE EndWalk
  BY <1>7 DEF EndWalk
<1>8. CASE Ask
  <2>1. status' \in [Rooms -> Statuses] /\ asked' \subseteq 1..Servers /\ sr' \in Rooms \cup {0}
    BY <1>8 DEF Ask
  <2>2. spc' \in {"walk", "ask", "silent"} /\ UNCHANGED <<now, val, linked, mem, users, stamp, players, sweep, wpc, locals, due, swept>>
    BY <1>8 DEF Ask
  <2> QED
    BY <2>1, <2>2
<1>9. CASE GiveUp
  BY <1>9 DEF GiveUp
<1>10. CASE Refuse
  <2>1. status' \in [Rooms -> Statuses]
    BY <1>10 DEF Refuse
  <2> QED
    BY <1>10, <2>1 DEF Refuse
<1>11. CASE Remove
  BY <1>11, LookupIsLinked DEF Remove
<1>12. CASE Removing
  <2>1. UNCHANGED <<now, val, players, sweep, wpc, locals, sr, due, swept, asked>> /\ spc' = "removed"
    BY <1>12 DEF Removing
  <2>2. CASE sr # 0 /\ Discard(sr)
    <3>1. LocalsInv'
      BY <2>1
    <3>2. /\ linked' \subseteq Rooms /\ mem' \in [Rooms -> {"none", "live", "freed"}]
          /\ status' \in [Rooms -> Statuses] /\ users' \in [Rooms -> Int]
          /\ stamp' \in [Rooms -> 0..MaxTime]
      BY <2>2, DiscardTypes
    <3>3. TypeOK'
      BY <2>1, <3>2
    <3> QED
      BY <3>1, <3>3
  <2>3. CASE UNCHANGED rooms
    BY <2>1, <2>3
  <2> QED
    BY <1>12, <2>2, <2>3 DEF Removing
<1>13. CASE RemovePost
  BY <1>13 DEF RemovePost
<1> QED
  BY <1>1, <1>2, <1>3, <1>4, <1>5, <1>6, <1>7, <1>8, <1>9, <1>10, <1>11, <1>12, <1>13
     DEF ServerWorker

LEMMA NextTypeInv ==
  ASSUME TypeInv, [Next]_vars
  PROVE  TypeInv'
<1> USE RoomsAssumption
    DEF TypeInv, TypeOK, LocalsInv, Goes, rooms, players, sweep, locals, server
<1>1. CASE Tick
  BY <1>1 DEF Tick
<1>2. ASSUME NEW p \in Players, Reconnect(p)
      PROVE  TypeInv'
  BY <1>2 DEF Reconnect
<1>3. CASE UNCHANGED vars
  BY <1>3 DEF vars
<1> QED
  BY <1>1, <1>2, <1>3, WorkerTypeInv, ServerTypeInv DEF Next

LEMMA TypeInvInvariant == Spec => []TypeInv
<1>1. Init => TypeInv
  BY InitTypeInv
<1>2. TypeInv /\ [Next]_vars => TypeInv'
  BY NextTypeInv
<1> QED
  BY <1>1, <1>2, PTL DEF Spec

\* Every variable keeps its type: the numbers the worker reads from a message and
\* from the tree of rooms never come to stand for a room of a player that is none.
THEOREM RoomsTypeOK == Spec => []TypeOK
<1>1. TypeInv => TypeOK
  BY DEF TypeInv
<1> QED
  BY <1>1, TypeInvInvariant, PTL

-----------------------------------------------------------------------------
(* The unit of t_sem.room *)

\* A step of the worker leaves the semaphore alone, takes it when it comes inside, or
\* posts it when it goes.
LEMMA WorkerTakesAndPosts ==
  ASSUME TypeOK, Worker
  PROVE  /\ spc' = spc
         /\ \/ val' = val /\ (WorkerInside' <=> WorkerInside)
            \/ val' = val - 1 /\ ~WorkerInside /\ WorkerInside'
            \/ val' = val + 1 /\ WorkerInside /\ ~WorkerInside'
<1> USE DEF server, sweep, Done, WGo, WLocked, Take, Post, WorkerInside
<1>1. CASE WPost
  <2>1. wnext \notin {"post", "count"}
    BY DEF TypeOK
  <2> QED
    BY <1>1, <2>1 DEF WPost
<1>2. CASE StartTick
  BY <1>2 DEF StartTick
<1>3. CASE Serve
  BY <1>3 DEF Serve
<1>4. CASE RecvCreate \/ RecvFast \/ RecvNone
  BY <1>4 DEF RecvCreate, RecvFast, RecvNone
<1>5. CASE Leave
  BY <1>5 DEF Leave
<1>6. CASE Count
  BY <1>6 DEF Count
<1>7. CASE Add
  BY <1>7 DEF Add
<1>8. CASE Find
  BY <1>8 DEF Find
<1>9. CASE Get
  BY <1>9 DEF Get
<1>10. CASE Switch
  BY <1>10 DEF Switch
<1>11. CASE Enter
  BY <1>11 DEF Enter
<1>12. CASE Check
  BY <1>12 DEF Check
<1>13. CASE Look
  BY <1>13 DEF Look
<1>15. CASE Told
  BY <1>15 DEF Told
<1>14. CASE Left
  BY <1>14 DEF Left
<1> QED
  BY <1>1, <1>2, <1>3, <1>4, <1>5, <1>6, <1>7, <1>8, <1>9, <1>10, <1>11, <1>12, <1>13, <1>14, <1>15
     DEF Worker

\* So does a step of the serverworker, but for the walk, which posts when it starts and
\* takes when it ends, and for the answer that cannot be sent.
LEMMA ServerTakesAndPosts ==
  ASSUME TypeOK, ServerWorker
  PROVE  /\ wpc' = wpc
         /\ \/ val' = val /\ (ServerInside' <=> ServerInside) /\ (Sweeping' <=> Sweeping)
            \/ val' = val - 1 /\ ~ServerInside /\ ServerInside' /\ (Sweeping' <=> Sweeping)
            \/ val' = val + 1 /\ ServerInside /\ ~ServerInside' /\ (Sweeping' <=> Sweeping)
            \/ val' = val + 1 /\ ~Sweeping /\ Sweeping' /\ ~ServerInside /\ ~ServerInside'
            \/ val' = val - 1 /\ Sweeping /\ ~Sweeping' /\ ~ServerInside /\ ~ServerInside'
            \/ /\ val' = val /\ SendFails
               /\ ServerInside /\ ~ServerInside' /\ ~Sweeping /\ ~Sweeping'
<1> USE DEF SGo, Take, Post, ServerInside, Sweeping
<1>1. CASE Report
  BY <1>1 DEF Report
<1>2. CASE Reported
  BY <1>2 DEF Reported
<1>3. CASE Result
  BY <1>3 DEF Result
<1>4. CASE Resulted
  BY <1>4 DEF Resulted
<1>5. CASE StartWalk
  BY <1>5 DEF StartWalk
<1>6. ASSUME NEW r \in Rooms, Walk(r)
      PROVE  /\ wpc' = wpc /\ val' = val
             /\ (ServerInside' <=> ServerInside) /\ (Sweeping' <=> Sweeping)
  BY <1>6 DEF Walk
<1>7. CASE EndWalk
  BY <1>7 DEF EndWalk
<1>8. CASE Ask
  BY <1>8 DEF Ask
<1>9. CASE GiveUp
  BY <1>9 DEF GiveUp
<1>10. CASE Refuse
  BY <1>10 DEF Refuse
<1>11. CASE Remove
  BY <1>11 DEF Remove
<1>12. CASE Removing
  BY <1>12 DEF Removing
<1>13. CASE RemovePost
  BY <1>13 DEF RemovePost
<1> QED
  BY <1>1, <1>2, <1>3, <1>4, <1>5, <1>6, <1>7, <1>8, <1>9, <1>10, <1>11, <1>12, <1>13
     DEF ServerWorker

\* The units that are missing, when v are there.
Lack(sweeping, worker, serving, v) == 1 + One(sweeping) - One(worker) - One(serving) - v

\* A take or a post moves one unit between the semaphore and a thread.
LEMMA UnitStep ==
  ASSUME TypeOK, TypeOK', OneUnitLost, [Next]_vars
  PROVE  OneUnitLost'
<1> DEFINE x == Sweeping  w == WorkerInside  s == ServerInside  v == val
           x2 == Sweeping'  w2 == WorkerInside'  s2 == ServerInside'  v2 == val'
           old == Lack(x, w, s, v)
           new == Lack(x2, w2, s2, v2)
<1>1. /\ x \in BOOLEAN /\ w \in BOOLEAN /\ s \in BOOLEAN /\ v \in Nat
      /\ x2 \in BOOLEAN /\ w2 \in BOOLEAN /\ s2 \in BOOLEAN /\ v2 \in Nat
  BY DEF TypeOK, Sweeping, WorkerInside, ServerInside
<1>2. OneUnitLost <=> old \in IF SendFails THEN {0, 1} ELSE {0}
  BY DEF OneUnitLost, Missing, Lack
<1>3. OneUnitLost' <=> new \in IF SendFails THEN {0, 1} ELSE {0}
  BY DEF OneUnitLost, Missing, Lack
<1>4. \/ v2 = v /\ x2 = x /\ w2 = w /\ s2 = s
      \/ v2 = v - 1 /\ x2 = x /\ s2 = s /\ ~w /\ w2
      \/ v2 = v + 1 /\ x2 = x /\ s2 = s /\ w /\ ~w2
      \/ v2 = v - 1 /\ x2 = x /\ w2 = w /\ ~s /\ s2
      \/ v2 = v + 1 /\ x2 = x /\ w2 = w /\ s /\ ~s2
      \/ v2 = v + 1 /\ ~x /\ x2 /\ w2 = w /\ ~s /\ ~s2
      \/ v2 = v - 1 /\ x /\ ~x2 /\ w2 = w /\ ~s /\ ~s2
      \/ v2 = v /\ ~x /\ ~x2 /\ w2 = w /\ s /\ ~s2 /\ SendFails
  <2>1. CASE Worker
    <3>1. x2 = x /\ s2 = s
      BY <2>1, WorkerTakesAndPosts DEF Sweeping, ServerInside
    <3> QED
      BY <1>1, <2>1, <3>1, WorkerTakesAndPosts, Zenon
  <2>2. CASE ServerWorker
    <3>1. w2 = w
      BY <2>2, ServerTakesAndPosts DEF WorkerInside
    <3> QED
      BY <1>1, <2>2, <3>1, ServerTakesAndPosts, Zenon
  <2>3. CASE Tick \/ (\E p \in Players : Reconnect(p)) \/ UNCHANGED vars
    <3>1. UNCHANGED <<val, spc, wpc>>
      BY <2>3 DEF Tick, Reconnect, vars, server
    <3> QED
      BY <3>1, Zenon DEF Sweeping, WorkerInside, ServerInside
  <2> QED
    BY <2>1, <2>2, <2>3 DEF Next
<1> HIDE DEF x, w, s, v, x2, w2, s2, v2
<1>5. \/ new = old
      \/ SendFails /\ new = old + 1 /\ old <= 0
  BY <1>1, <1>4 DEF Lack, One
<1>6. old \in Int /\ new \in Int
  BY <1>1 DEF Lack, One
<1> HIDE DEF old, new
<1> QED
  BY <1>2, <1>3, <1>5, <1>6

-----------------------------------------------------------------------------
(* The tree of rooms and their memory *)

\* bintreeDel takes the key it is called for, if it is there.
LEMMA KeyIsRemoved ==
  ASSUME NEW S, NEW k \in S
  PROVE  k \in Removed(S, k)
BY DEF Removed

\* While one thread has found a room in the tree, the other does not count.
LEMMA OneInside ==
  ASSUME TypeOK, OneUnitLost, spc \in {"reported", "result"}
  PROVE  ~WorkerInside
<1>1. ~Sweeping /\ ServerInside /\ val \in Nat
  BY DEF Sweeping, ServerInside, TypeOK
<1> QED
  BY <1>1, RoomsAssumption DEF OneUnitLost, Missing, One

LEMMA DiscardFoundInv ==
  ASSUME TypeOK, \A q \in linked : mem[q] = "live", NEW r \in Rooms, Discard(r)
  PROVE  /\ \A q \in linked' : mem'[q] = "live"
         /\ \A q \in Rooms : mem[q] # "none" => mem'[q] # "none"
<1>1. r \notin linked'
  BY KeyIsRemoved DEF Discard
<1> QED
  BY <1>1 DEF Discard, TypeOK

LEMMA FoundStep ==
  ASSUME TypeInv, OneUnitLost, FoundStays, UsedInv, [Next]_vars
  PROVE  FoundStays' /\ UsedInv'
<1> USE RoomsAssumption DEF TypeInv, FoundStays, UsedInv
<1>1. TypeOK /\ linked \subseteq Rooms /\ mem \in [Rooms -> {"none", "live", "freed"}]
  BY DEF TypeOK
<1>2. \A k : Lookup(k) \in linked \cup {0}
  BY LookupIsLinked
<1>3. CASE Count
  <2>1. spc \notin {"reported", "result"}
    BY <1>3, OneInside DEF Count, WGo, WorkerInside
  <2>2. /\ UNCHANGED <<spc, sr, wr, room>>
    BY <1>3 DEF Count, server, players
  <2>3. CASE lr # 0 /\ Discard(lr)
    <3>1. lr \in Rooms
      BY <2>3 DEF TypeOK
    <3> QED
      BY <1>1, <2>1, <2>2, <2>3, <3>1, DiscardFoundInv DEF TypeOK
  <2>4. CASE UNCHANGED <<linked, mem>>
    BY <2>2, <2>4
  <2> QED
    BY <1>3, <2>3, <2>4 DEF Count, rooms
<1>4. CASE Add
  <2>1. UNCHANGED <<spc, sr, wr>>
    BY <1>4 DEF Add, server
  <2>2. PICK r \in Rooms :
             /\ mem[r] = "none"
             /\ mem' = [mem EXCEPT ![r] = "live"]
             /\ \/ linked' = linked \cup {r} /\ room' = [room EXCEPT ![wp] = r]
                \/ room' = [room EXCEPT ![wp] = 0] /\ UNCHANGED linked
    BY <1>4 DEF Add
  <2>3. \A q \in Rooms : mem'[q] = IF q = r THEN "live" ELSE mem[q]
    BY <1>1, <2>2
  <2>4. FoundStays' /\ (wr' # 0 => mem'[wr'] # "none")
    BY <1>1, <2>1, <2>2, <2>3 DEF TypeOK
  <2>5. \A p \in Players : room'[p] \in {0, r, room[p]} /\ room[p] \in Rooms \cup {0}
    BY <2>2 DEF TypeOK
  <2>6. \A p \in Players : room'[p] # 0 => mem'[room'[p]] # "none"
    BY <1>1, <2>3, <2>5
  <2> QED
    BY <2>4, <2>6
<1>5. CASE Get
  BY <1>1, <1>2, <1>5 DEF Get, server, players
<1>6. CASE Check
  BY <1>1, <1>2, <1>6 DEF Check, server, players, rooms
<1>7. CASE Switch \/ Look \/ Told \/ Left \/ (\E p \in Players : Reconnect(p))
  <2>1. UNCHANGED <<linked, mem, spc, sr>> /\ wr' \in {0, wr}
    BY <1>7 DEF Switch, Look, Told, Left, Reconnect, rooms, server, locals
  <2>2. \A p \in Players : room'[p] \in {0, room[p]} \/ (wr # 0 /\ room'[p] = wr)
    <3>1. CASE Switch
      <4>1. wr # 0 => wr = wid
        BY <3>1 DEF LocalsInv, Switch, WGo, Goes
      <4> QED
        BY <3>1, <4>1 DEF Switch, TypeOK
    <3>2. CASE Look \/ Told \/ Left \/ (\E p \in Players : Reconnect(p))
      BY <3>2 DEF Look, Told, Left, Reconnect, TypeOK
    <3> QED
      BY <1>7, <3>1, <3>2
  <2> QED
    BY <2>1, <2>2
<1>8. CASE WPost \/ StartTick \/ Serve \/ RecvCreate \/ RecvFast \/ RecvNone \/ Leave \/ Find \/ Enter \/ Tick
  <2>1. UNCHANGED <<linked, mem, spc, sr, wr, room>>
    BY <1>8 DEF WPost, StartTick, Serve, RecvCreate, RecvFast, RecvNone, Leave, Find, Enter, Tick,
                rooms, players, server, locals
  <2> QED
    BY <2>1
<1>9. CASE ServerWorker
  <2>1. UNCHANGED <<wr, room>>
    BY <1>9 DEF ServerWorker, Report, Reported, Result, Resulted, StartWalk, Walk, EndWalk, Ask,
                GiveUp, Refuse, Remove, Removing, RemovePost, locals, players
  <2>2. CASE Report \/ Result
    <3>1. UNCHANGED <<linked, mem>> /\ sr' \in linked \cup {0}
      BY <1>2, <2>2 DEF Report, Result
    <3> QED
      BY <2>1, <3>1
  <2>3. CASE Removing
    <3>1. spc' = "removed"
      BY <2>3 DEF Removing, SGo
    <3>2. CASE UNCHANGED <<linked, mem>>
      BY <2>1, <3>1, <3>2
    <3>3. CASE sr # 0 /\ Discard(sr)
      BY <1>1, <2>1, <3>1, <3>3, DiscardFoundInv DEF TypeOK
    <3> QED
      BY <2>3, <3>2, <3>3 DEF Removing, rooms
  <2>4. CASE \/ Reported \/ Resulted \/ StartWalk \/ (\E r \in Rooms : Walk(r)) \/ EndWalk
             \/ Ask \/ GiveUp \/ Refuse \/ Remove \/ RemovePost
    <3>1. UNCHANGED <<linked, mem>>
      BY <2>4 DEF Reported, Resulted, StartWalk, Walk, EndWalk, Ask, GiveUp, Refuse, Remove,
                  RemovePost, rooms
    <3>2. spc' \notin {"reported", "result"}
      BY <2>4 DEF Reported, Resulted, StartWalk, Walk, EndWalk, Ask, GiveUp, Refuse, Remove,
                  RemovePost, SGo
    <3> QED
      BY <2>1, <3>1, <3>2
  <2> QED
    BY <1>9, <2>2, <2>3, <2>4 DEF ServerWorker
<1>10. CASE UNCHANGED vars
  BY <1>10 DEF vars, rooms, players, server, locals
<1> QED
  BY <1>3, <1>4, <1>5, <1>6, <1>7, <1>8, <1>9, <1>10 DEF Next, Worker

LEMMA TreeInvInvariant == Spec => []TreeInv
<1>1. Init => TreeInv
  <2>1. Init => TypeInv
    BY InitTypeInv
  <2>2. Init => OneUnitLost
    BY RoomsAssumption DEF Init, OneUnitLost, Missing, Sweeping, WorkerInside, ServerInside, One
  <2>3. Init => FoundStays /\ UsedInv
    BY DEF Init, FoundStays, UsedInv
  <2> QED
    BY <2>1, <2>2, <2>3 DEF TreeInv
<1>2. TreeInv /\ [Next]_vars => TreeInv'
  BY NextTypeInv, UnitStep, FoundStep DEF TreeInv, TypeInv
<1> QED
  BY <1>1, <1>2, PTL DEF Spec

\* Over all the places where t_sem.room is taken and posted, and the walk that posts it
\* first, no unit is made up, and none is lost but the one with which serverworker.c:162
\* may return: so at most one thread is inside while no walk is under way.
THEOREM RoomsOneUnitLost == Spec => []OneUnitLost
<1>1. TreeInv => OneUnitLost
  BY DEF TreeInv
<1> QED
  BY <1>1, TreeInvInvariant, PTL

\* A room that a report or a result was looked up for is not freed before the
\* serverworker has posted, and the tree never leads to freed memory, whichever keys
\* rand() gives and however the walk meets the worker.
THEOREM RoomsFoundStays == Spec => []FoundStays
<1>1. TreeInv => FoundStays
  BY DEF TreeInv
<1> QED
  BY <1>1, TreeInvInvariant, PTL

-----------------------------------------------------------------------------
(* The count of users *)

\* Among keys none of which is on the path of another, bintreeDel takes just its own.
LEMMA RemovedIsKey ==
  ASSUME PrefixFree(Rooms), NEW S \in SUBSET Rooms, NEW k
  PROVE  Removed(S, k) = S \cap {k}
<1>1. CASE k \in S
  <2>1. ~\E j \in S : OnPath(k, j)
    BY <1>1 DEF PrefixFree
  <2>2. {j \in S : /\ OnPath(j, k)
                   /\ \A i \in S : OnPath(j, i) => i = k \/ OnPath(i, k)} = {}
    BY <1>1 DEF PrefixFree
  <2> QED
    BY <1>1, <2>1, <2>2 DEF Removed
<1>2. CASE k \notin S
  BY <1>2 DEF Removed
<1> QED
  BY <1>1, <1>2

LEMMA DiscardTakesOne ==
  ASSUME PrefixFree(Rooms), TypeOK, NEW r \in Rooms, Discard(r)
  PROVE  /\ linked' = linked \ {r}
         /\ \A q \in Rooms : q # r => users'[q] = users[q]
<1>1. Removed(linked, r) = linked \cap {r}
  BY RemovedIsKey DEF TypeOK
<1> QED
  BY <1>1 DEF Discard, TypeOK

\* The players within a room, of which there are finitely many.
LEMMA WithinIsFinite ==
  ASSUME NEW S \in SUBSET Players
  PROVE  /\ IsFiniteSet(S) /\ Cardinality(S) \in Nat
         /\ \A T \in SUBSET S : Cardinality(T) <= Cardinality(S)
         /\ \A p \in Players : /\ Cardinality(S \cup {p}) <= Cardinality(S) + 1
                               /\ p \in S => Cardinality(S \ {p}) = Cardinality(S) - 1
<1>1. IsFiniteSet(S) /\ Cardinality(S) \in Nat
  BY RoomsAssumption, FS_Subset, FS_CardinalityType
<1>2. \A T \in SUBSET S : Cardinality(T) <= Cardinality(S)
  BY <1>1, FS_Subset
<1>3. \A p \in Players : Cardinality(S \cup {p}) <= Cardinality(S) + 1
  BY <1>1, FS_AddElement
<1>4. \A p \in Players : p \in S => Cardinality(S \ {p}) = Cardinality(S) - 1
  BY <1>1, FS_RemoveElement
<1> QED
  BY <1>1, <1>2, <1>3, <1>4

\* A step that lets nobody into a room keeps the count high enough.
LEMMA NobodyEnters ==
  ASSUME TypeOK, UsersInv,
         \A r \in linked' : r \in linked /\ users'[r] = users[r] /\ Within(r)' \subseteq Within(r)
  PROVE  UsersInv'
<1> SUFFICES ASSUME NEW r \in linked'
             PROVE  Cardinality(Within(r)') <= users'[r]
  BY DEF UsersInv
<1> DEFINE S == Within(r)  T == Within(r)'  n == users'[r]
<1>1. S \in SUBSET Players /\ T \in SUBSET S
  BY DEF Within
<1>2. Cardinality(S) <= n /\ n \in Int
  BY DEF UsersInv, TypeOK
<1> HIDE DEF S, T, n
<1>3. Cardinality(T) <= Cardinality(S) /\ Cardinality(T) \in Nat /\ Cardinality(S) \in Nat
  BY <1>1, WithinIsFinite
<1>4. Cardinality(T) <= n
  BY <1>2, <1>3
<1> QED
  BY <1>4 DEF T, n

\* The last but one player leaves, or the last one: then the room goes.
LEMMA CountUsers ==
  ASSUME PrefixFree(Rooms), TreeInv, UsersInv, Count
  PROVE  UsersInv'
<1> USE DEF TreeInv, TypeInv
<1>1. /\ UNCHANGED <<room, wp>> /\ Between' /\ ~Between /\ wp \in Players
      /\ lr # 0 => lr = room[wp] /\ lr \in Rooms
  BY DEF Count, WGo, players, sweep, Between, Goes, LocalsInv, TypeOK
<1>2. \A r : Within(r)' = Within(r) \ {wp}
  BY <1>1 DEF Within
<1>3. CASE lr = 0 \/ mem[lr] # "live"
  <2>1. UNCHANGED <<linked, users>>
    BY <1>3 DEF Count, rooms
  <2> QED
    BY <1>2, <2>1, NobodyEnters
<1>4. CASE lr # 0 /\ Discard(lr)
  <2>1. linked' = linked \ {lr} /\ \A q \in Rooms : q # lr => users'[q] = users[q]
    BY <1>1, <1>4, DiscardTakesOne
  <2> QED
    BY <1>2, <2>1, NobodyEnters DEF TypeOK
<1>5. CASE lr # 0 /\ users' = [users EXCEPT ![lr] = @ - 1] /\ UNCHANGED linked
  <2> SUFFICES ASSUME NEW r \in linked
               PROVE  Cardinality(Within(r)') <= users'[r]
    BY <1>5 DEF UsersInv
  <2> DEFINE S == Within(r)  n == users[r]
  <2>1. S \in SUBSET Players /\ n \in Int /\ Cardinality(S) <= n
    BY DEF Within, UsersInv, TypeOK
  <2>2. r \in Rooms
    BY DEF TypeOK
  <2>3. CASE r = lr
    <3>1. wp \in S
      BY <1>1, <1>5, <2>3 DEF Within
    <3>2. users'[r] = n - 1
      BY <1>5, <2>2, <2>3 DEF TypeOK
    <3>3. Within(r)' = S \ {wp}
      BY <1>2
    <3> HIDE DEF S, n
    <3>4. Cardinality(S \ {wp}) = Cardinality(S) - 1 /\ Cardinality(S) \in Nat
      BY <1>1, <2>1, <3>1, WithinIsFinite
    <3>5. Cardinality(S \ {wp}) <= n - 1
      BY <2>1, <3>4
    <3> QED
      BY <3>2, <3>3, <3>5, Zenon
  <2>4. CASE r # lr
    <3>1. users'[r] = n
      BY <1>5, <2>2, <2>4 DEF TypeOK
    <3>2. Within(r)' = S \ {wp}
      BY <1>2
    <3> HIDE DEF S, n
    <3>3. Cardinality(S \ {wp}) <= Cardinality(S) /\ Cardinality(S) \in Nat /\ Cardinality(S \ {wp}) \in Nat
      BY <2>1, WithinIsFinite
    <3>4. Cardinality(S \ {wp}) <= n
      BY <2>1, <3>3
    <3> QED
      BY <3>1, <3>2, <3>4, Zenon
  <2> QED
    BY <2>3, <2>4
<1> QED
  BY <1>3, <1>4, <1>5 DEF Count

\* A new room has its one player in it, and nobody else can be.
LEMMA AddUsers ==
  ASSUME TreeInv, UsersInv, Add
  PROVE  UsersInv'
<1> USE DEF TreeInv, TypeInv
<1>1. UNCHANGED wp /\ Between /\ ~Between' /\ wp \in Players
  BY DEF Add, WLocked, WGo, sweep, Between, Goes, LocalsInv
<1>2. PICK r \in Rooms :
             /\ mem[r] = "none"
             /\ \/ /\ linked' = linked \cup {r}
                   /\ users' = [users EXCEPT ![r] = 1]
                   /\ room' = [room EXCEPT ![wp] = r]
                \/ /\ room' = [room EXCEPT ![wp] = 0]
                   /\ UNCHANGED <<linked, users>>
  BY DEF Add
<1>3. r \notin linked /\ r # 0 /\ \A p \in Players : room[p] # r
  BY <1>2, RoomsAssumption DEF FoundStays, UsedInv
<1>4. \A q \in linked : Within(q)' \subseteq Within(q)
  BY <1>1, <1>2, <1>3, RoomsAssumption DEF Within, TypeOK
<1>5. \A q \in linked : users'[q] = users[q]
  BY <1>2, <1>3 DEF TypeOK
<1>6. CASE UNCHANGED linked
  BY <1>4, <1>5, <1>6, NobodyEnters
<1>7. CASE linked' = linked \cup {r} /\ users' = [users EXCEPT ![r] = 1] /\ room' = [room EXCEPT ![wp] = r]
  <2>1. Within(r)' \in SUBSET {wp}
    BY <1>3, <1>7 DEF Within, TypeOK
  <2>2. users'[r] = 1
    BY <1>7 DEF TypeOK
  <2>3. Cardinality(Within(r)') <= 1
    <3> DEFINE T == Within(r)'
    <3>1. T \in SUBSET {wp}
      BY <2>1
    <3> HIDE DEF T
    <3>2. IsFiniteSet({wp}) /\ Cardinality({wp}) = 1
      BY FS_Singleton
    <3>3. Cardinality(T) <= 1
      BY <3>1, <3>2, FS_Subset
    <3> QED
      BY <3>3 DEF T
  <2>4. ASSUME NEW q \in linked
        PROVE  Cardinality(Within(q)') <= users'[q]
    <3> DEFINE S == Within(q)  T == Within(q)'  n == users'[q]
    <3>1. S \in SUBSET Players /\ T \in SUBSET S /\ Cardinality(S) <= n /\ n \in Int
      BY <1>4, <1>5 DEF Within, UsersInv, TypeOK
    <3> HIDE DEF S, T, n
    <3>2. Cardinality(T) <= n
      BY <3>1, WithinIsFinite
    <3> QED
      BY <3>2 DEF T, n
  <2> QED
    BY <1>7, <2>2, <2>3, <2>4 DEF UsersInv
<1> QED
  BY <1>2, <1>6, <1>7

\* A player that goes into the room it was switched to is counted, if the room is there.
LEMMA EnterUsers ==
  ASSUME TreeInv, UsersInv, Enter
  PROVE  UsersInv'
<1> USE DEF TreeInv, TypeInv
<1>1. UNCHANGED <<room, wp, linked>> /\ Between /\ ~Between' /\ wp \in Players
  BY DEF Enter, WLocked, WGo, players, sweep, Between, Goes, LocalsInv
<1> SUFFICES ASSUME NEW r \in linked
             PROVE  Cardinality(Within(r)') <= users'[r]
  BY <1>1 DEF UsersInv
<1> DEFINE S == Within(r)  n == users[r]
<1>2. S \in SUBSET Players /\ n \in Int /\ Cardinality(S) <= n /\ r \in Rooms
  BY DEF Within, UsersInv, TypeOK
<1>3. users'[r] = IF r = Lookup(room[wp]) THEN n + 1 ELSE n
  BY <1>2 DEF Enter
<1>4. CASE room[wp] = r
  <2>1. users'[r] = n + 1
    BY <1>3, <1>4 DEF Lookup
  <2>2. Within(r)' = S \cup {wp}
    BY <1>1, <1>4 DEF Within
  <2> HIDE DEF S, n
  <2>3. Cardinality(S \cup {wp}) <= Cardinality(S) + 1 /\ Cardinality(S) \in Nat
        /\ Cardinality(S \cup {wp}) \in Nat
    <3>1. S \cup {wp} \in SUBSET Players
      BY <1>1, <1>2
    <3> QED
      BY <1>1, <1>2, <3>1, WithinIsFinite
  <2>4. Cardinality(S \cup {wp}) <= n + 1
    BY <1>2, <2>3
  <2> QED
    BY <2>1, <2>2, <2>4, Zenon
<1>5. CASE room[wp] # r
  <2>1. r # 0
    BY <1>2, RoomsAssumption
  <2>2. users'[r] = n
    BY <1>3, <1>5, <2>1 DEF Lookup
  <2>3. Within(r)' = S
    BY <1>1, <1>5 DEF Within
  <2> QED
    BY <1>2, <2>2, <2>3, Zenon
<1> QED
  BY <1>4, <1>5

\* A turn ends: the player is still out of its room, or was counted.
LEMMA TurnEnds ==
  ASSUME TreeInv, UsersInv, UNCHANGED <<linked, users>>,
         \A p \in Players : room'[p] \in {0, room[p]},
         \/ ~Between
         \/ wp' = wp /\ Between'
         \/ room'[wp] = 0
  PROVE  UsersInv'
<1>1. \A r \in linked : r # 0
  BY RoomsAssumption DEF TreeInv, TypeInv, TypeOK
<1>2. \A r \in linked : Within(r)' \subseteq Within(r)
  BY <1>1 DEF Within
<1> QED
  BY <1>2, NobodyEnters DEF TreeInv, TypeInv

LEMMA UsersStep ==
  ASSUME PrefixFree(Rooms), TreeInv, UsersInv, [Next]_vars
  PROVE  UsersInv'
<1> USE DEF TreeInv, TypeInv
<1>1. CASE WPost
  <2>1. UNCHANGED <<linked, users, room, wp>>
    BY <1>1 DEF WPost, rooms, players, sweep
  <2>2. Between => Between'
    BY <1>1 DEF WPost, WGo, Between, Goes
  <2> QED
    BY <2>1, <2>2, TurnEnds
<1>2. CASE StartTick \/ Serve \/ RecvCreate \/ RecvFast \/ RecvNone \/ Leave \/ Find \/ Get \/ Check \/ Look \/ Told
  <2>1. ~Between
    <3>1. CASE StartTick \/ Serve \/ RecvCreate \/ RecvFast \/ RecvNone
      BY <3>1 DEF StartTick, Serve, RecvCreate, RecvFast, RecvNone, WGo, Between, Goes
    <3>2. CASE Leave \/ Find \/ Get \/ Check \/ Look \/ Told
      BY <3>2 DEF Leave, Find, Get, Check, Look, Told, WGo, WLocked, Between, Goes
    <3> QED
      BY <1>2, <3>1, <3>2
  <2>2. UNCHANGED <<linked, users>>
    BY <1>2 DEF StartTick, Serve, RecvCreate, RecvFast, RecvNone, Leave, Find, Get, Check, Look, Told, rooms
  <2>3. \A p \in Players : room'[p] \in {0, room[p]}
    <3>1. CASE Look
      BY <3>1 DEF Look, TypeOK
    <3>2. CASE ~Look
      BY <1>2, <3>2 DEF StartTick, Serve, RecvCreate, RecvFast, RecvNone, Leave, Find, Get, Check, Told, players
    <3> QED
      BY <3>1, <3>2
  <2> QED
    BY <2>1, <2>2, <2>3, TurnEnds
<1>3. CASE Count
  BY <1>3, CountUsers
<1>4. CASE Add
  BY <1>4, AddUsers
<1>5. CASE Switch
  <2>1. /\ UNCHANGED <<linked, users, wp>> /\ wp \in Players
        /\ \/ wr = 0 /\ room' = [room EXCEPT ![wp] = 0]
           \/ wpc' = "enter" /\ room' = [room EXCEPT ![wp] = wid]
    BY <1>5 DEF Switch, WGo, rooms, sweep, LocalsInv
  <2>2. \A r \in linked : Within(r)' \subseteq Within(r)
    BY <2>1, RoomsAssumption DEF Within, Between, TypeOK
  <2> QED
    BY <2>1, <2>2, NobodyEnters
<1>6. CASE Enter
  BY <1>6, EnterUsers
<1>7. CASE Left
  <2>1. UNCHANGED <<linked, users>> /\ room' = [room EXCEPT ![wp] = 0] /\ wp \in Players
    BY <1>7 DEF Left, rooms, LocalsInv
  <2> QED
    BY <2>1, TurnEnds DEF TypeOK
<1>8. ASSUME NEW p \in Players, Reconnect(p)
      PROVE  UsersInv'
  <2>1. UNCHANGED <<linked, users>> /\ room' = [room EXCEPT ![p] = 0] /\ ~Between
    BY <1>8 DEF Reconnect, rooms, Between, Goes
  <2> QED
    BY <2>1, TurnEnds DEF TypeOK
<1>9. CASE Removing
  <2>1. UNCHANGED <<room, wp, wpc, wnext>>
    BY <1>9 DEF Removing, players, sweep, locals
  <2>2. \A r : Within(r)' = Within(r)
    BY <2>1 DEF Within, Between, Goes
  <2>3. CASE UNCHANGED rooms
    BY <2>2, <2>3, NobodyEnters DEF rooms
  <2>4. CASE sr # 0 /\ Discard(sr)
    <3>1. linked' = linked \ {sr} /\ \A q \in Rooms : q # sr => users'[q] = users[q]
      BY <2>4, DiscardTakesOne DEF TypeOK
    <3> QED
      BY <2>2, <3>1, NobodyEnters DEF TypeOK
  <2> QED
    BY <1>9, <2>3, <2>4 DEF Removing
<1>10. CASE ServerWorker /\ ~Removing
  <2>1. UNCHANGED <<linked, users, room, wp, wpc, wnext>>
    BY <1>10 DEF ServerWorker, Report, Reported, Result, Resulted, StartWalk, Walk, EndWalk, Ask,
                 GiveUp, Refuse, Remove, RemovePost, rooms, players, sweep, locals
  <2> QED
    BY <2>1, TurnEnds DEF Between, Goes
<1>11. CASE Tick \/ UNCHANGED vars
  <2>1. UNCHANGED <<linked, users, room, wp, wpc, wnext>>
    BY <1>11 DEF Tick, vars, rooms, players, sweep, locals
  <2> QED
    BY <2>1, TurnEnds DEF Between, Goes
<1> QED
  BY <1>1, <1>2, <1>3, <1>4, <1>5, <1>6, <1>7, <1>8, <1>9, <1>10, <1>11 DEF Next, Worker

LEMMA IInvInvariant == PrefixFree(Rooms) /\ Spec => []IInv
<1> SUFFICES ASSUME PrefixFree(Rooms)
             PROVE  Spec => []IInv
  OBVIOUS
<1>1. Init => UsersInv
  BY DEF Init, UsersInv
<1>2. TreeInv /\ UsersInv /\ [Next]_vars => UsersInv'
  BY UsersStep
<1> QED
  BY <1>1, <1>2, TreeInvInvariant, PTL DEF Spec, IInv

\* The worker frees a room only when the last player in it leaves, as long as no room's
\* key is on the path to another's: among any number of players that come, go, are
\* switched and vanish, the count of users never falls below those that are there.
THEOREM RoomsLastOneOut == PrefixFree(Rooms) /\ Spec => LastOneOut
<1> SUFFICES ASSUME PrefixFree(Rooms)
             PROVE  Spec => LastOneOut
  OBVIOUS
<1> DEFINE A == \A r \in linked \ linked' :
                   wpc = "count" /\ wpc' = "post" => \A p \in Players \ {wp} : room[p] # r
<1>1. IInv /\ [Next]_vars => [A]_vars
  <2> SUFFICES ASSUME IInv, Next, NEW r \in linked \ linked', wpc = "count", wpc' = "post",
                      NEW p \in Players \ {wp}, room[p] = r
               PROVE  FALSE
    OBVIOUS
  <2> USE DEF IInv, TreeInv, TypeInv
  <2>1. Count
    BY DEF Next, Worker, Tick, WPost, StartTick, Serve, RecvCreate, RecvFast, RecvNone, Leave, Add,
           Find, Get, Switch, Enter, Check, Look, Told, Left, WGo, WLocked, Reconnect, ServerWorker,
           Report, Reported, Result, Resulted, StartWalk, Walk, EndWalk, Ask, GiveUp, Refuse,
           Remove, Removing, RemovePost, Done
  <2>2. lr # 0 /\ lr \in linked /\ users[lr] = 1 /\ Discard(lr)
    BY <2>1 DEF Count, rooms
  <2>3. lr \in Rooms /\ lr = room[wp] /\ wp \in Players
    BY <2>2 DEF LocalsInv, TypeOK
  <2>4. r = lr
    BY <2>2, <2>3, DiscardTakesOne
  <2>5. {p, wp} \in SUBSET Within(lr)
    BY <2>3, <2>4 DEF Within, Between, Goes
  <2> DEFINE S == Within(lr)
  <2>6. S \in SUBSET Players /\ Cardinality(S) <= 1
    BY <2>2 DEF Within, UsersInv
  <2>7. {p, wp} \in SUBSET S
    BY <2>5
  <2> HIDE DEF S
  <2>8. Cardinality({p, wp}) <= Cardinality(S) /\ Cardinality(S) \in Nat /\ Cardinality({p, wp}) \in Nat
    <3>1. {p, wp} \in SUBSET Players
      BY <2>3
    <3> QED
      BY <2>6, <2>7, <3>1, WithinIsFinite
  <2>9. Cardinality({p, wp}) = 2
    <3>1. IsFiniteSet({wp}) /\ Cardinality({wp}) = 1 /\ p \notin {wp}
      BY FS_Singleton
    <3>2. {p, wp} = {wp} \cup {p}
      OBVIOUS
    <3>3. Cardinality({wp} \cup {p}) = 1 + 1
      BY <3>1, FS_AddElement
    <3> QED
      BY <3>2, <3>3
  <2> QED
    BY <2>6, <2>8, <2>9
<1> QED
  BY <1>1, IInvInvariant, PTL DEF Spec, LastOneOut
=============================================================================
