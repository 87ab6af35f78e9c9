------------------------------- MODULE Rooms -------------------------------
(***************************************************************************)
(* The life of a game room between the two threads that share it:          *)
(* worker.c, which creates rooms and moves players between them, and       *)
(* serverworker.c, which asks the game servers for each room, takes their  *)
(* reports and removes rooms that failed (room.c, servers.c).              *)
(*                                                                         *)
(* A room is named by its key in the tree of rooms; every room gets a new  *)
(* random key.  All rooms and requests are of one event type, and there is *)
(* one worker.  A body between take and post of t_sem.room happens at one  *)
(* moment, but for roomLeave and roomRem, which look the room up first.    *)
(* A local variable that is not used again is reset.                       *)
(***************************************************************************)
EXTENDS Integers, FiniteSets, KeyTree

CONSTANTS Rooms,      \* bound of the model: the rooms created in one behaviour
          Players,    \* the players signed in
          Servers,    \* number of game servers in servers.ini
          SendFails,  \* whether answering a game server's report may fail
          Lossy,      \* bound of the model: the rooms in which a player's seat is lost
          MaxUsers,   \* bound of the model: it is lost in a smaller room
          MaxTime     \* bound of the model: seconds that pass

ASSUME RoomsAssumption == /\ Rooms \subseteq Nat \ {0}
                          /\ IsFiniteSet(Players)
                          /\ Servers \in Nat
                          /\ SendFails \in BOOLEAN
                          /\ Lossy \subseteq Rooms
                          /\ MaxUsers \in Nat
                          /\ MaxTime \in Nat \ {0}

VARIABLES
    now,     \* time(0), never 0
    val,     \* t_sem.room
    linked,  \* the keys in the tree of rooms
    mem,     \* of each room: its memory
    status,  \* room.status
    users,   \* room.users
    stamp,   \* room.timestamp
    room,    \* of each player: room.id
    seenAt,  \* of each player: timestamp
    toldAt,  \* of each player: room.timestamp, of the room GAME_START was sent for
    wnow,    \* _timestamp of the worker's sweep
    todo,    \* the players the sweep has not reached
    wp,      \* the player the worker serves; 0: none
    wpc,     \* where the worker is
    wnext,   \* where it goes on after posting t_sem.room
    wback,   \* where it goes on after roomLeave
    wr,      \* r_r: a room or 0
    wid,     \* room_id: a key, 0, or a number no room has
    lr,      \* room in roomLeave: a room or 0
    spc,     \* where the serverworker is
    sr,      \* r, r_r or _r in it: a room or 0
    due,     \* the rooms its walk has still to show if they stay
    swept,   \* the rooms the walk has shown
    asked    \* the servers it has asked for the room

rooms == <<linked, mem, status, users, stamp>>
players == <<room, seenAt, toldAt>>
sweep == <<wnow, todo, wp>>
locals == <<wnext, wback, wr, wid, lr>>
server == <<spc, sr, due, swept, asked>>
vars == <<now, val, rooms, players, sweep, wpc, locals, server>>

Statuses == {"created", "prepare", "wait", "run", "fail"}
NoSuchRoom == -1

TypeOK == /\ now \in 1..MaxTime
          /\ val \in Nat
          /\ linked \subseteq Rooms
          /\ mem \in [Rooms -> {"none", "live", "freed"}]
          /\ status \in [Rooms -> Statuses]
          /\ users \in [Rooms -> Int]
          /\ stamp \in [Rooms -> 0..MaxTime]
          /\ room \in [Players -> Rooms \cup {0}]
          /\ seenAt \in [Players -> 0..MaxTime]
          /\ toldAt \in [Players -> 0..MaxTime]
          /\ wnow \in 1..MaxTime /\ todo \subseteq Players /\ wp \in Players \cup {0}
          /\ wpc \in {"idle", "recv", "add", "find", "get", "switch", "enter", "leave", "count",
                      "check", "look", "told", "left", "post"}
          /\ wnext \in {"add", "recv", "get", "leave", "switch", "look", "left"}
          /\ wback \in {"add", "switch", "left"}
          /\ wr \in Rooms \cup {0} /\ wid \in Rooms \cup {0, NoSuchRoom} /\ lr \in Rooms \cup {0}
          /\ spc \in {"idle", "reported", "result", "walk", "ask", "silent", "refuse", "remove",
                      "removing", "removed"}
          /\ sr \in Rooms \cup {0} /\ due \subseteq Rooms /\ swept \subseteq Rooms /\ asked \subseteq 1..Servers

Init == /\ now = 1
        /\ val = 1
        /\ linked = {}
        /\ mem = [r \in Rooms |-> "none"]
        /\ status = [r \in Rooms |-> "created"]
        /\ users = [r \in Rooms |-> 0]
        /\ stamp = [r \in Rooms |-> 0]
        /\ room = [p \in Players |-> 0]
        /\ seenAt = [p \in Players |-> 0] /\ toldAt = [p \in Players |-> 0]
        /\ wnow = 1 /\ todo = {} /\ wp = 0
        /\ wpc = "idle" /\ wnext = "recv" /\ wback = "add"
        /\ wr = 0 /\ wid = 0 /\ lr = 0
        /\ spc = "idle" /\ sr = 0 /\ due = {} /\ swept = {} /\ asked = {}

Tick == /\ now < MaxTime
        /\ now' = now + 1
        /\ UNCHANGED <<val, rooms, players, sweep, wpc, locals, server>>

-----------------------------------------------------------------------------
(* Semaphore, tree and memory *)

Take == val > 0 /\ val' = val - 1
Post == val' = val + 1

\* Mutant of Lookup: roomGet still finds a room that was removed.
LookupGone(k) == IF k \in Rooms /\ mem[k] # "none" THEN k ELSE 0

\* roomGet.
Lookup(k) == IF k \in linked THEN k ELSE 0

\* bintreeDel and free of room r, when it is there; nothing is read back from freed memory
\* (see StatusRead), so what it held is forgotten.
Discard(r) == /\ linked' = linked \ Removed(linked, r)
              /\ mem' = [mem EXCEPT ![r] = "freed"]
              /\ status' = [status EXCEPT ![r] = "created"]
              /\ users' = [users EXCEPT ![r] = 0]
              /\ stamp' = [stamp EXCEPT ![r] = 0]

-----------------------------------------------------------------------------
(* The worker thread *)

WGo(from, to) == wpc = from /\ wpc' = to

\* Take t_sem.room, do the body, post and go on at next.
WLocked(from, next) == WGo(from, "post") /\ Take /\ wnext' = next

WPost == /\ WGo("post", wnext)
         /\ Post
         /\ wnext' = "recv"
         /\ UNCHANGED <<now, rooms, players, sweep, wback, wr, wid, lr, server>>

StartTick == /\ wpc = "idle" /\ todo = {}
             /\ todo' = Players
             /\ wnow' = now
             /\ UNCHANGED <<now, val, rooms, players, wp, wpc, locals, server>>

Serve == /\ WGo("idle", "recv")
         /\ wp' \in todo
         /\ UNCHANGED <<now, val, rooms, players, wnow, todo, locals, server>>

\* The next message asks for a new room (if the model has another).
RecvCreate == /\ WGo("recv", "leave")
              /\ \E r \in Rooms : mem[r] = "none"
              /\ wback' = "add"
              /\ UNCHANGED <<now, val, rooms, players, sweep, wnext, wr, wid, lr, server>>

\* It asks for a place in any room.
RecvFast == /\ WGo("recv", "find")
            /\ UNCHANGED <<now, val, rooms, players, sweep, locals, server>>

\* There is no message, or this was the last of ten.
RecvNone == /\ WGo("recv", "check")
            /\ UNCHANGED <<now, val, rooms, players, sweep, locals, server>>

\* roomLeave(pl->room.id), for which a player without a room has nothing to leave.
Leave == /\ WGo("leave", "count") /\ Take
         /\ lr' = Lookup(room[wp])
         /\ UNCHANGED <<now, rooms, players, sweep, wnext, wback, wr, wid, server>>

Count == /\ WGo("count", "post")
         /\ wnext' = wback
         /\ \/ ~(lr # 0 /\ mem[lr] = "live") /\ UNCHANGED rooms
            \/ /\ lr # 0 /\ mem[lr] = "live"
               /\ IF users[lr] = 1 /\ lr \in linked
                  THEN Discard(lr)
                  ELSE users' = [users EXCEPT ![lr] = @ - 1] /\ UNCHANGED <<linked, mem, status, stamp>>
         /\ wback' = "add" /\ lr' = 0
         /\ UNCHANGED <<now, val, players, sweep, wr, wid, server>>

\* roomAdd and roomEnter.  Half of what rand() returns is above MAX_KEY, and then
\* bintreeAdd gives 0, which becomes the room's id and the player's.
Add == /\ WLocked("add", "recv")
       /\ \E r \in Rooms :
             /\ mem[r] = "none"
             /\ mem' = [mem EXCEPT ![r] = "live"]
             /\ status' = [status EXCEPT ![r] = "prepare"]
             /\ \/ /\ linked' = linked \cup {r}
                   /\ users' = [users EXCEPT ![r] = 1]
                   /\ room' = [room EXCEPT ![wp] = r]
                \/ /\ room' = [room EXCEPT ![wp] = 0]
                   /\ UNCHANGED <<linked, users>>
       /\ UNCHANGED <<now, stamp, seenAt, toldAt, sweep, wback, wr, wid, lr, server>>

\* roomFind returns the key the walk shows, which reverseInt may have spoilt.
Find == /\ wid' \in IF linked = {} THEN {0} ELSE linked \cup {NoSuchRoom}
        /\ WLocked("find", IF wid' = 0 THEN "recv" ELSE "get")
        /\ UNCHANGED <<now, rooms, players, sweep, wback, wr, lr, server>>

Get == /\ WLocked("get", IF room[wp] # 0 THEN "leave" ELSE "switch")
       /\ wback' = "switch"
       /\ wr' = Lookup(wid)
       /\ stamp' = [r \in Rooms |-> IF r = Lookup(wid) THEN now ELSE stamp[r]]
       /\ UNCHANGED <<now, linked, mem, status, users, players, sweep, wid, lr, server>>

\* Mutant of Switch: r_r is not tested.
SwitchUntested == /\ WGo("switch", IF wr = 0 THEN "recv" ELSE "enter")
                  /\ room' = [room EXCEPT ![wp] = wid]
                  /\ wr' = 0 /\ wid' = 0
                  /\ UNCHANGED <<now, val, rooms, seenAt, toldAt, sweep, wnext, wback, lr, server>>

Switch == /\ WGo("switch", IF wr = 0 THEN "recv" ELSE "enter")
          /\ room' = [room EXCEPT ![wp] = IF wr = 0 THEN 0 ELSE wid]
          /\ wr' = 0 /\ wid' = 0
          /\ UNCHANGED <<now, val, rooms, seenAt, toldAt, sweep, wnext, wback, lr, server>>

\* Mutant of Enter: the user is not counted.
EnterUncounted == /\ WLocked("enter", "recv")
                  /\ UNCHANGED <<now, rooms, players, sweep, wback, wr, wid, lr, server>>

\* roomEnter.
Enter == /\ WLocked("enter", "recv")
         /\ users' = [r \in Rooms |-> IF r = Lookup(room[wp]) THEN users[r] + 1 ELSE users[r]]
         /\ UNCHANGED <<now, linked, mem, status, stamp, players, sweep, wback, wr, wid, lr, server>>

\* The end of the player's turn: pl->timestamp = _timestamp.
Done == /\ wpc' = "idle"
        /\ todo' = todo \ {wp}
        /\ seenAt' = [seenAt EXCEPT ![wp] = wnow]
        /\ wp' = 0 /\ UNCHANGED wnow

\* checkPlayerRoom looks the room up under t_sem.room and reads it afterwards.
Check == /\ \/ wpc = "check" /\ room[wp] = 0 /\ Done /\ UNCHANGED <<val, wr, wnext>>
            \/ /\ WLocked("check", "look") /\ room[wp] # 0
               /\ wr' = Lookup(room[wp])
               /\ UNCHANGED <<sweep, seenAt>>
         /\ UNCHANGED <<now, rooms, room, toldAt, wback, wid, lr, server>>

\* What reading r gives: anything once r is freed.
StatusRead(r) == IF mem[r] = "freed" THEN Statuses ELSE {status[r]}
StampRead(r) == IF mem[r] = "freed" THEN 0..MaxTime ELSE {stamp[r]}

\* A player in a running room is sent GAME_START once; when one of the sends fails,
\* checkPlayerRoom returns.
Look == /\ wpc = "look"
        /\ \/ /\ wr = 0
              /\ room' = [room EXCEPT ![wp] = 0]
              /\ Done /\ UNCHANGED <<wr, wback>>
           \/ /\ wr # 0
              /\ \E st \in StatusRead(wr), ts \in StampRead(wr) :
                   \/ /\ st = "run" /\ seenAt[wp] <= ts /\ toldAt[wp] # ts
                      /\ \/ wpc' = "told" /\ UNCHANGED <<sweep, seenAt, wr>>
                         \/ Done /\ wr' = 0
                      /\ UNCHANGED wback
                   \/ /\ st = "fail" /\ seenAt[wp] <= ts
                      /\ wpc' = "leave" /\ wback' = "left" /\ wr' = 0
                      /\ UNCHANGED <<sweep, seenAt>>
                   \/ /\ seenAt[wp] > ts \/ st \notin {"run", "fail"} \/ (st = "run" /\ toldAt[wp] = ts)
                      /\ Done /\ wr' = 0 /\ UNCHANGED wback
              /\ UNCHANGED room
        /\ UNCHANGED <<now, val, rooms, toldAt, wnext, wid, lr, server>>

\* After the sends the timestamp and the status are read once more.
Told == /\ wpc = "told" /\ wr' = 0
        /\ \E ts \in StampRead(wr) : toldAt' = [toldAt EXCEPT ![wp] = ts]
        /\ \/ "fail" \in StatusRead(wr) /\ wpc' = "leave" /\ wback' = "left" /\ UNCHANGED <<sweep, seenAt>>
           \/ StatusRead(wr) # {"fail"} /\ Done /\ UNCHANGED wback
        /\ UNCHANGED <<now, val, rooms, room, wnext, wid, lr, server>>

Left == /\ wpc = "left"
        /\ room' = [room EXCEPT ![wp] = 0]
        /\ Done
        /\ UNCHANGED <<now, val, rooms, toldAt, locals, server>>

\* A player's connection ends, without roomLeave, and the player signs in again: the
\* watcher gives the worker the new node under t_sem.worker, between two sweeps.
Reconnect(p) == /\ wpc = "idle" /\ todo = {}
                /\ room[p] \in linked => room[p] \in Lossy /\ users[room[p]] < MaxUsers
                /\ room' = [room EXCEPT ![p] = 0]
                /\ seenAt' = [seenAt EXCEPT ![p] = 0]
                /\ toldAt' = [toldAt EXCEPT ![p] = 0]
                /\ UNCHANGED <<now, val, rooms, sweep, wpc, locals, server>>

-----------------------------------------------------------------------------
(* The serverworker thread *)

SGo(from, to) == spc = from /\ spc' = to

\* Mutant of Report: the room is looked up without t_sem.room.
ReportUntaken == /\ SGo("idle", "reported")
                 /\ \E k \in Rooms : sr' = Lookup(k)
                 /\ \E st \in Statuses :
                       status' = [r \in Rooms |-> IF r = sr' THEN st ELSE status[r]]
                 /\ UNCHANGED <<now, val, linked, mem, users, stamp, players, sweep, wpc, locals, due, swept, asked>>

\* MESSAGE_ROOM_STATUS: whatever status is received, for any room.
Report == /\ SGo("idle", "reported") /\ Take
          /\ \E k \in Rooms : sr' = Lookup(k)
          /\ \E st \in Statuses :
                status' = [r \in Rooms |-> IF r = sr' THEN st ELSE status[r]]
          /\ UNCHANGED <<now, linked, mem, users, stamp, players, sweep, wpc, locals, due, swept, asked>>

\* The answer is the map's name; when it cannot be sent, proceedServerMessage returns
\* with the semaphore taken.
Reported == /\ SGo("reported", "idle") /\ sr' = 0
            /\ \/ /\ stamp' = [r \in Rooms |-> IF r = sr THEN now ELSE stamp[r]]
                  /\ Post
               \/ /\ SendFails /\ sr # 0
                  /\ UNCHANGED <<stamp, val>>
            /\ UNCHANGED <<now, linked, mem, status, users, players, sweep, wpc, locals, due, swept, asked>>

\* MESSAGE_ROOM_RESULT puts the status it receives into the room, then ROOM_FAIL.
Result == /\ SGo("idle", "result") /\ Take
          /\ \E k \in Rooms : sr' = Lookup(k)
          /\ \E st \in Statuses :
                status' = [r \in Rooms |-> IF r = sr' THEN st ELSE status[r]]
          /\ UNCHANGED <<now, linked, mem, users, stamp, players, sweep, wpc, locals, due, swept, asked>>

Resulted == /\ SGo("result", "idle") /\ Post /\ sr' = 0
            /\ status' = [r \in Rooms |-> IF r = sr THEN "fail" ELSE status[r]]
            /\ UNCHANGED <<now, linked, mem, users, stamp, players, sweep, wpc, locals, due, swept, asked>>

\* threadServerWorker posts t_sem.room before roomCheckAll and takes it afterwards.
StartWalk == /\ SGo("idle", "walk") /\ Post
             /\ due' = linked /\ swept' = {}
             /\ UNCHANGED <<now, rooms, players, sweep, wpc, locals, sr, asked>>

\* checkRoomStatus of the next room, which may be one added since the walk started.
Walk(r) == /\ spc = "walk"
           /\ r \in linked \ swept
           /\ swept' = swept \cup {r} /\ due' = due \ {r}
           /\ \/ status[r] = "prepare" /\ spc' = "ask" /\ sr' = r
              \/ status[r] = "fail" /\ spc' = "remove" /\ sr' = r
              \/ status[r] \notin {"prepare", "fail"} /\ UNCHANGED <<spc, sr>>
           /\ UNCHANGED <<now, val, rooms, players, sweep, wpc, locals, asked>>

\* Mutant of EndWalk: t_sem.room is not taken back after the walk.
EndWalkUntaken == /\ due \cap linked = {}
                  /\ SGo("walk", "idle")
                  /\ due' = {} /\ swept' = {}
                  /\ UNCHANGED <<now, val, rooms, players, sweep, wpc, locals, sr, asked>>

EndWalk == /\ due \cap linked = {}
           /\ SGo("walk", "idle") /\ Take
           /\ due' = {} /\ swept' = {}
           /\ UNCHANGED <<now, rooms, players, sweep, wpc, locals, sr, asked>>

\* serversGetSort writes the count over the first server bintreeForEach shows, the one
\* whose id has the most low zero bits.
Overwritten == {s \in 1..Servers : 2 * s > Servers /\ \E k \in 0..6 : s = 2^k}

\* connSendRecv to the next server, which takes the room, or is unreachable or refuses,
\* or accepts and never answers: the two recv calls have no time limit.  The connections
\* that are not closed are left out here (see OpenOther in Links).
Ask == /\ spc = "ask"
       /\ \E s \in (1..Servers) \ (Overwritten \cup asked) :
             \/ /\ spc' = "walk" /\ sr' = 0 /\ asked' = {}
                /\ status' = [status EXCEPT ![sr] = "wait"]
             \/ /\ asked' = asked \cup {s}
                /\ UNCHANGED <<spc, sr, status>>
             \/ /\ spc' = "silent"
                /\ UNCHANGED <<sr, status, asked>>
       /\ UNCHANGED <<now, val, linked, mem, users, stamp, players, sweep, wpc, locals, due, swept>>

GiveUp == /\ SGo("ask", "refuse")
          /\ (1..Servers) \ Overwritten \subseteq asked
          /\ UNCHANGED <<now, val, rooms, players, sweep, wpc, locals, sr, due, swept, asked>>

\* Mutant of Refuse: the room keeps its status when no server takes it.
RefuseSilent == /\ SGo("refuse", "walk") /\ sr' = 0 /\ asked' = {}
                /\ UNCHANGED <<now, val, rooms, players, sweep, wpc, locals, due, swept>>

Refuse == /\ SGo("refuse", "walk") /\ sr' = 0 /\ asked' = {}
          /\ status' = [status EXCEPT ![sr] = "fail"]
          /\ UNCHANGED <<now, val, linked, mem, users, stamp, players, sweep, wpc, locals, due, swept>>

\* roomRem and free of a failed room, whoever is in it.
Remove == /\ SGo("remove", "removing") /\ Take
          /\ sr' = Lookup(sr)
          /\ UNCHANGED <<now, rooms, players, sweep, wpc, locals, due, swept, asked>>

\* Mutant of Removing: only a room without users is removed (serverworker.c:108).
RemovingEmpty == /\ SGo("removing", "removed")
                 /\ IF sr # 0 /\ users[sr] = 0 THEN Discard(sr) ELSE UNCHANGED rooms
                 /\ UNCHANGED <<now, val, players, sweep, wpc, locals, sr, due, swept, asked>>

Removing == /\ SGo("removing", "removed")
            /\ IF sr # 0 THEN Discard(sr) ELSE UNCHANGED rooms
            /\ UNCHANGED <<now, val, players, sweep, wpc, locals, sr, due, swept, asked>>

RemovePost == /\ SGo("removed", "walk")
              /\ Post /\ sr' = 0
              /\ UNCHANGED <<now, rooms, players, sweep, wpc, locals, due, swept, asked>>

-----------------------------------------------------------------------------
Worker == \/ WPost \/ StartTick \/ Serve \/ RecvCreate \/ RecvFast \/ RecvNone \/ Leave \/ Count \/ Add \/ Find \/ Get
          \/ Switch \/ Enter \/ Check \/ Look \/ Told \/ Left
ServerWorker == \/ Report \/ Reported \/ Result \/ Resulted \/ StartWalk \/ (\E r \in Rooms : Walk(r))
                \/ EndWalk \/ Ask \/ GiveUp \/ Refuse \/ Remove \/ Removing \/ RemovePost

Next == Tick \/ Worker \/ ServerWorker \/ \E p \in Players : Reconnect(p)

Spec == Init /\ [][Next]_vars

\* Both threads loop until shutdown.  A waiting t_semop polls every 30 ms and is never
\* woken (t_sem.c:68): a take that is possible again and again is assumed to happen, the
\* polls not always missing the moment.  A connection is read at most ten (two) times in
\* a tick, so the worker comes to check and the serverworker to its walk.  Ask goes on,
\* but possibly into the silence of a game server, which nothing ends.
Fairness == /\ WF_vars(WPost \/ StartTick \/ Serve \/ Switch \/ Look \/ Told \/ Left \/ Count)
            /\ SF_vars(RecvNone)
            /\ SF_vars(Leave \/ Add \/ Find \/ Get \/ Enter \/ Check)
            /\ WF_vars(Reported \/ Resulted \/ Ask \/ GiveUp \/ Refuse \/ Removing \/ RemovePost)
            /\ \A r \in Rooms : WF_vars(Walk(r))
            /\ SF_vars(StartWalk) /\ SF_vars(EndWalk) /\ SF_vars(Remove)

LiveSpec == Spec /\ Fairness

-----------------------------------------------------------------------------
(* Properties *)

Sweeping == spc \in {"walk", "ask", "silent", "refuse", "remove", "removing", "removed"}
WorkerInside == wpc \in {"post", "count"}
ServerInside == spc \in {"reported", "result", "removing", "removed"}
One(b) == IF b THEN 1 ELSE 0

\* The units of t_sem.room that are missing: what the walk added, less what the threads
\* inside have taken, is not there.
Missing == 1 + One(Sweeping) - One(WorkerInside) - One(ServerInside) - val

\* Over takes, posts and the walk, which posts before it takes, one thread is inside,
\* and two only during the walk: no unit of t_sem.room is made up, and none is lost but
\* the one with which serverworker.c:162 may return.  The serverworker then waits for
\* the unit itself before it could lose another.
OneUnitLost == Missing \in IF SendFails THEN {0, 1} ELSE {0}

\* The room a report or a result is about is in the tree until t_sem.room is posted,
\* also when the worker came in during the walk, and the tree never leads to a room
\* that was freed.
FoundStays ==
    /\ \A r \in linked : mem[r] = "live"
    /\ spc \in {"reported", "result"} /\ sr # 0 => sr \in linked

\* The count of users goes to 0 only when the last player leaves: the worker never
\* frees a room in which another player is, though players also vanish uncounted.
LastOneOut ==
    [][ \A r \in linked \ linked' :
           wpc = "count" /\ wpc' = "post" => \A p \in Players \ {wp} : room[p] # r ]_vars

\* What stops the threads for good: a game server that accepts and never answers, and
\* the unit of t_sem.room that is lost when an answer cannot be sent.
Stopped == spc = "silent" \/ Missing = 1

\* The walk comes to every room, also to one that was added or changed while another
\* walk was under way: a room that waits for a server is answered, a failed one goes,
\* unless one of those two things stops the walk.
WalkComes ==
    \A r \in Rooms, st \in {"prepare", "fail"} :
        (r \in linked /\ status[r] = st) ~> (r \notin linked \/ status[r] # st \/ Stopped)

\* A player whose room was removed under it is put out of it, whether or not the walk
\* still goes on, unless the unit of t_sem.room is lost.
EvictedLeaves ==
    \A p \in Players, r \in Rooms : (room[p] = r /\ r \notin linked) ~> (room[p] # r \/ Missing = 1)
=============================================================================
