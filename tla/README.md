# TDef public server: models, checks and proofs

TLA+ models of the public server of TDef (the C program under `src/`): the process that
accepts players, signs them in, keeps them in touch with game rooms and asks game servers
to run those rooms. File names below are relative to `src/src/`.

## 1. The system

One process, five threads (`main.c:113-119`); each loops until shutdown, does its work
with its own semaphore held and sleeps for the rest of its tick.

| Part | State | Operations | Runs in |
|---|---|---|---|
| Semaphores `t_sem.c` | a counter under a pthread mutex | get, op (take, post, wait for zero, by polling), destroy | all threads |
| Key tree `bintree.c` | nodes, one pointer each | add, get, fetch, delete, erase, walk, size, toArray, clone | all threads |
| Worklists `list.c` | a linked list of sockets with an id and a pointer | add, delete by id, walk that removes | all threads |
| Listener `listener.c` | two listening sockets | accept a player or a game server, greet, append to the watcher's or the serverworker's list | listener |
| Watcher `watcher.c` | list of all player connections; tree of players | authenticate, sign in, hand to the worker, check, clean up | watcher |
| Authentication, slots `db.c`, `engine.c` | `$players`, `player_info` | newPlayer, dbAuth, realizePlayer | watcher |
| Worker `worker.c` | list of players served | receive, rooms, events, send; mark FAIL | worker |
| Rooms `room.c` | tree of rooms | add, remove, find, enter, leave, walk | worker, serverworker |
| Serverworker `serverworker.c` | list of game server connections | reports and results of rooms, handover of updates, walk over rooms | serverworker |
| Game servers `servers.c` | tree of servers of `servers.ini` | load, list, fail, look up | serverworker, worker |
| Updater `updater.c` | list of update requests | send maps and types | updater |
| Transfer `engine.c` | none | sendData, recvData with retries | all |
| Database `postgres.c`, `db.c` | one connection, slots of results and of updates | exec, clear, update, insert, log | listener, watcher, updater |
| Events `events.c` | tree of events | add, get, count rooms | main, worker |
| Start, shutdown `main.c`, `engine.c` | `config.run` | core, cleanAll | main |
| Daemon `daemon.c` | child process | watchDog | parent process |
| Sheduller `sheduller.c` | none | its thread is never started | none |

How they interact. The threads share memory: the listener appends to the lists of the
watcher and the serverworker under `t_sem.watcher` and `t_sem.serverworker`; the watcher
appends to the worker's list under `t_sem.worker[0]`, taken with `t_sem.watcher` and
`t_sem.player` held; the worker tells the watcher of a lost player only by
`pl->conn=FAIL`; the worker and the serverworker share the rooms under `t_sem.room`, which
the serverworker gives away during its walk (`serverworker.c:249-251`); the serverworker
passes connections to the updater under `t_sem.updater`. Clients, game servers and the
database are outside: they may send any of the messages modelled, be silent, or go away.

What is hard: freeing what another thread can still reach; keys used as names of things
that come and go; counters that must come back; a semaphore without wake-ups; answers that
cannot be sent half way through; a walk beside additions and removals. `PROJECT.json`
lists these hazards at their lines.

What makes each part correct: semaphores count; the tree is a map; a player has at most
one session and PLAYER_MAX bounds the sessions; no connection, slot or `player_info` is
lost, freed twice or used after it is freed; every client is answered, every lost client
is cleaned up; a room is there while somebody uses it, every room that waits for a server
is answered, every failed room goes and its players come out of it.

## 2. Modules

| Module | Models | Notes |
|---|---|---|
| `Semaphore` | what `t_sem.c` promises | abstract: a call waits, at one moment it is granted |
| `TSem` | `t_semop`, step by step | implements `Semaphore` |
| `TSemProofs` | theorems about `TSem` | |
| `KeyTree` | what a deletion does to the keys of a tree | operators, used by all below |
| `KeyMap` | what `bintree.c` promises | abstract: a map in which deletion may take other keys along |
| `Bintree` | `bintree.c`, node by node, and its walk | implements `KeyMap` |
| `BintreeProofs` | theorems about `Bintree` | |
| `Registry` | what listener, watcher and worker promise about players | abstract |
| `Sessions` | those threads, their lists, tree, counters and marks | implements `Registry` |
| `SessionsProofs` | theorems about `Sessions` | |
| `Rooms` | worker and serverworker on the rooms, and the game servers' reports | |
| `RoomsProofs` | theorems about `Rooms` | |
| `Links` | listener, serverworker and updater on the connections of game servers | descriptors and their reuse |
| `LinksProofs` | theorems about `Links` | |
| `Transfer` | `recvData` and `_sendData` on a stream of bytes | |
| `TransferProofs` | theorems about `Transfer` | |
| `Database` | the jobs of listener, watcher and updater on one connection and its slots | |
| `DatabaseProofs` | theorems about `Database` | |
| `Lifecycle` | start, signals, crash and end of the server, and its watchdog | |
| `LifecycleProofs` | theorems about `Lifecycle` | |
| `MC...` | constants of the runs | |

`Sessions` and `Rooms` use a semaphore in the form of `Semaphore` (a take is one step
with a guard) and a tree in the form of `KeyMap` (with `Removed`), which `TSem` and
`Bintree` justify. The operators named after a defect ("Mutant of ...") are variants of the
definition that follows them; no specification uses them. Substituting one for its
definition shows that a property notices that defect.

### TSem
`val`, `mutex` are `s->val[0]` and `s->mutex`; `pc`, `op`, `again` are each caller's
place, its `sem_op` and the loop variable `$_$`. `Lock`, `Test`, `Unlock`, `Wake` are the
four things a pass of the loop does; the three branches of `t_semop` differ in `Passes`.
Failure of a pthread call is not modelled. A call with a positive `sem_op` starts only
below `MaxVal`, so that the value stays finite.

### KeyTree, KeyMap, Bintree
A node is named by the number the walk computes for it (root 1, child *i* of *n* is
2*n*+*i*). `Descend` spells a key from the root down, `Lift` goes from a node up to the level
of another one, so that `AtOrAbove` says that a node is on the way to another; `Begins` says
the same of two keys. `Add` makes the missing nodes also when it then refuses the data. `Del`
does nothing when the node is missing (`_bintreeDel` returns 0 for it); else it frees the node if
it has no child and then every ancestor left without another child *whether or not it holds
data* (`Bare`), which is what `Removed` says in terms of keys: a key may vanish with another
one on whose path it lies. `call` and `ret`, which both `KeyMap` and `Bintree` have, name the latest
call with its key and its result, so that the refinement compares them call by call. A walk is a thread of its own (`Begin`, `Enter`,
`Child0`, `Child1`, `Back`, `End`); `Garbage` is what the uninitialized variable of
`reverseInt` may hold. A walk `Asks` for all data, for one value, or to remove what it is shown:
the callback that finds its value returns nonzero, which ends the walk (`bintree.c:153-155`, so
`roomFind`), and the one that removes deletes the key it is shown, as `worker.c:186` does. The walk
then stands on a node that may be freed; `Stray` is what it reads there. `bintreeFetch` is a get
and an add; size, toArray and clone are walks for all data.

### Sessions
Connections are numbered as accepted; the node, the socket and the `player_info` of a
connection share its number, and as both lists are appended in that order a list is a set.
Each thread has a program counter (`lpc`, `wpc`, `kpc`) and the node it is at. The
listener does `Accept`, `Greet`, `AddClient`. The watcher does `WatcherTake`; then for each
node `RefuseFull`, or `StartAuth` and `FailAuth` or `PassAuth`, then `SignIn` and `HandOver`,
or `CheckClient`; `Drop` and `Close` for a node that is to go; `WatcherRelease`. The worker
does `WorkerTake`; `Receive`, `Serve` and perhaps `Unlink` for each node; `WorkerRelease`.
`Faults` says how authentication may fail: "early" leaves the marker 1 in the node,
"rejected" leaves 0, "late" leaves the player's id. The accesses of the worker to a
`player_info` all lie between `Receive` and `Serve`. An id above MAX_KEY gets no node in the tree.
`crossed` remembers that a node was given up under the number of another player: that the
authentication failed with the number of a signed-in player in the node (`GivesUp`), or that the
removal of a player took another one's key out of the tree (`Drop`). The safety properties hold up
to there; section 3 has the runs that go on.

### Rooms
One worker and the serverworker, each with a program counter and its locals. A room is
named by its key; `linked` is the tree, `mem` the memory of each room, so that "in the
tree", "allocated" and "freed" are told apart. The worker serves each player once per
tick: `RecvCreate` or `RecvFast` any number of times, then `RecvNone`, `Check`, `Look`.
Creating is `Leave`, `Count`, `Add`; fast is `Find`, `Get`, perhaps `Leave` and `Count`,
`Switch`, `Enter`. `roomLeave` and `roomRem` are split between looking the room up and acting
on it, because during the walk two threads may be inside. The serverworker takes
`Report`/`Reported` and `Result`/`Resulted` between walks; a walk is `StartWalk`, `Walk(r)` for
each room, `EndWalk`, with `Ask`, `GiveUp`, `Refuse` for a room in preparation and `Remove`,
`Removing`, `RemovePost` for a failed one. A game server may send a report or result of any room
with any status. `Ask` may also lead to "silent", where the thread stays: `connSendRecv` waits
without limit (`serverworker.c:50,53`). `Look` sends, unless sending fails, and `Told` reads the
room again after that (`worker.c:295`). `due` are the rooms a walk must still come to; rooms
added meanwhile it may or may not meet. Reading a freed room gives anything.
`Reconnect` is a player whose connection ends (nobody calls `roomLeave`) and who is back.

### Links
What `Rooms` leaves out of the serverworker: whose connection a message comes over and what
becomes of it, and when it waits for `t_sem.room`. `file` says what each descriptor number refers to; `accept`, `dup` and the rest
of the program get the lowest free one, and none when all are taken (-1, here 0). `clients`
and `tasks` are the lists of the serverworker and the updater as sequences of the numbers in
their nodes. Both walks are the same actions with the walker as parameter: `Take`, for each node
two tries (`Silent`, `Broken`, `Handle`), `Drop`, `Release`. `HandleLast` is an exchange of the
updater that cannot be sent. A message about a room (`HandleRoom`) waits for `t_sem.room` (`val`,
which the worker takes and posts beside, `inside`) with `t_sem.serverworker` held: `Status` takes and
posts it, or keeps it when its answer cannot be sent (`serverworker.c:162`); `Result` may close the
socket of a result for an unknown room. `Release` posts it for the walk over the rooms, in which a
silent game server stops the thread (`NoAnswer`), and `EndWalk` takes it back. `Missing` is the unit
that `Status` kept, `Stopped` says that the thread is silent or the unit missing. `Update` and
`PassOn` are the two halves of the handover: dup, then waiting for `t_sem.updater`. `again` is whether
errno is EAGAIN when `recv` returns 0, which does not set it. `Drop` closes the socket of the
node at hand and unlinks the *first* node, as the ids are all 0, and the walk goes on from the
root. `spoiled` remembers that a node was lost this way, or that a result for an unknown room
closed a number its node keeps; the safety properties speak of what happens before that, and
`links_delete` of the step itself.

### Transfer
A byte is its place in the stream. `Arrive`, `Hangup` and `Reset` are the other end;
`RecvGets`, `RecvAgain` and `RecvPeer` are what `recv` without waiting returns, does to errno and
to a reset connection. A message is a type, polled for, and fields, each fetched by `First`,
`More` and `Nap` whatever the call before returned, as the handlers do. errno is anything when
`recvData` is called. `SendFirst` and `Resend` are `_sendData`. The model shows that its last
`return size` is never reached, and that `recvData` may report a field lost all of which is in
its buffer (`Verdict` names exactly these cases).

### Database
`getAccess` of `postgres.c` and of `db.c` mark nothing as used, so all queries share one slot
of results and all statements one slot of texts: `slot`, and `table` with `values`. The values a
job gives to a statement are one mark of the job: the buffers they are printed into, of which the
200 bytes of `db.c:332` overflow when two jobs mix, are left out. A result that `pgExec` overwrites
(`postgres.c:77`) leaves the slot without having been cleared. A job of a
thread is a sequence of calls, chosen as the code's branches choose it, with a query for each of
up to `MaxMaps` maps (`Offered`) and up to `MaxRows` rows of a table of types (`Rows`); `Begin` starts one, and
`Exec`, `Result`, `Read`, `Clear`, `Emptied`, `Start`, `Value`, `Build`, `Send` make its next call.
`PQclear` and `query=0` are two steps. Calls of `PQexec` that overlap on the one connection give
anything. A failing `Send` ends the updater's job where it is (`sendData` returns from the
function), without `dbClear`.

### Lifecycle
`main` is the place of `core`, `dog` that of `daemonize` and `watchDog`, `pending` the signals
blocked in the watchdog. A thread is at rest, in a turn or done; `Needs` are the semaphores a turn
may take, which grow with the kinds of connections accepted. `StartThread` may fail once.
Signals go to the process in the foreground (`StopEarly`, `Stop`) or to the watchdog (`StopDog`);
as on Linux the main thread takes them, since it blocks none. `deaf` remembers a signal that
came between the installation of the handler and `run=1`, or between the test of `run` and
`scanf`. A daemon's `scanf` returns at once, since its stdin is closed (`daemon.c:94`).

## 3. Runs

Passing runs

| Run | Bounds | Shows |
|---|---|---|
| `tsem` | 3 threads, operations -1, 1, 0, value up to 2 (+ posts under way) | types, mutual exclusion of the mutex, refinement of `Semaphore`, `NoLostPoll` |
| `bintree` | keys 1, 2, 3, 5 and MAX_KEY+1; 2 values; garbage 0 or 1; the three kinds of callback | `NoDeadBranch`, `WalkShowsAll`, refinement of `KeyMap` |
| `sessions` | 3 connections; players 1, 2, 3 and MAX_KEY+1; PLAYER_MAX 2; all three failures | `NoUseAfterFree`, `DropsOwnPlayer`, `OneSession`, `CountsTrue`, refinement of `Registry`, `LostIsCleaned`, `Answered` |
| `rooms` | 2 rooms, 2 players, 2 servers, answers may fail | `OneUnitLost`, `FoundStays`, `LastOneOut` |
| `rooms_live` | 1 room, 1 player, 2 seconds, answers may fail, game servers may be silent | `WalkComes`, `EvictedLeaves` |
| `links` | 2 game servers, 2 descriptors, one of which the rest of the program may have, lists up to 2 | `SocketsOwned`, `OneReader`, `GoneIsClosed`, `TurnsEnd` |
| `transfer` | fields of 2 and 3 bytes, 12 bytes in all (two messages), 3 tries, an answer of 3 bytes | `InOrder`, `InStep`, `Verdict`, `CallEnds` |
| `database` | all jobs of the three threads, up to 2 maps and 2 rows of types | `SlotRests`, `ReadsOwn`, `WritesOwn` |
| `lifecycle` | foreground and daemon, five threads, one failing start | `TurnsMade`, `Restarted`, `StopEnds` |

Why the bounds are enough. Three threads give a semaphore a holder, a waiter and a poster. The
five keys have every relation two keys can have in the tree: on one's path (1, 3), (1, 5),
beside each other with a common path (3, 5), apart (2), and refused. Three connections with
PLAYER_MAX 2 give a player who is online, his second connection or another player, and a third one
who finds the slots taken; the players include the marker's number, two on one path, and one whom
the tree refuses. Two rooms and two players give a player who
moves, a player who stays, and a room that is removed under either. `MaxUsers` and `Lossy` let one seat be
lost in a room with a player who keeps his. Two descriptors for two game servers let `accept` or
`dup` fail, and let a number be closed by one thread and reused by another; two links are what
it takes to drop a node that is not the first, and one connection passed on makes room for
another. More descriptors are what the proofs are for. In `transfer` two messages follow one another, so
that a byte taken too many would be the next message's; a field of three bytes comes in up to
three pieces, and three tries run out inside one. `rooms_live` gives up the second room and the
second player, who is replaced by the lost seat, for a clock that moves, on which the marks
that `Look` compares depend. `MaxTime` (the second the clock stops at), `MaxUsers` (a player's
connection is lost in a room only below it, which keeps the count of users finite), `Lossy` (the rooms in which that happens), `Rooms`,
`N`, `Others` and `MaxList` (of `Links`), `MaxVal`, `MaxMaps` and `MaxRows` are the bounds of the models; each is named where it is declared. Deadlock is
checked except in `bintree`, where a walk led astray ends the model, in `lifecycle`, where the server ends, and in `rooms` and `rooms_live`: an
answer that fails keeps one unit of `t_sem.room` for good (`serverworker.c:162`), and the threads may
all stop; `OneUnitLost` says that no second unit is ever lost. In `links` the updater goes on even then.

Runs that find a violation, each a disagreement between the code and what it says of
itself (quoted in `PROJECT.json` under "findings")

| Run | Property | What happens |
|---|---|---|
| `sessions_prefix` | `OneEach` | players 1 and 3: when 3 leaves, 1 can sign in twice |
| `sessions_marker` | `OwnData` | an exchange that fails leaves a node with the number of a player who is online, the marker 1 or his own: his `player_info` is freed |
| `links_delete` | `OpenIsListed` | dropping the second game server loses the node of the first, whose socket stays open |

There are three ways to become `crossed`: serial ids lie on one another's
path in the tree, the marker 1 of `db.c:45` is an id like others, and an answer may fail after the id
is in the node (`db.c:84`). The run `sessions` and the proofs take none of them away. They state the good
properties up to such a step, which the two violation runs of `Sessions` take: whatever else the threads do, and however else a connection ends, no
`player_info` is used after it is freed, no slot is lost and no player signed in twice. The violation
runs check the same formulas (`OwnData`, `OneEach`) without that condition. A connection whose own
player is online fails "late" in the same way as with the marker: with `Faults = {"late"}` and the
ids 2 and 3 `OwnData` is violated as well.
Likewise `FoundStays` speaks only of the room a report or a result is for: what the worker found may
be gone, as the walk frees a failed room whoever is in it (`Removing`), and so may the room the walk
itself is at (`serverworker.c:92`).

Other divergences, seen while modelling and listed as hazards, have no run of their own:
- a failed room is freed with players in it, though `serverworker.c:107` says "room is free"; they
  come out of it at their next look-ups (`EvictedLeaves`);
- a callback that removes the key it is shown, as `worker.c:186` does in a walk and the test announced
  at `bintree.c:255`, frees the node whose children the walk then reads (`bintree.c:154`; `Stray`);
- the result of the first query of each log-in is overwritten by the second and never cleared, though
  `postgres.c:80` says it must be (`postgres.c:77`, `db.c:119`);
- the walk shows a number that is no key, as `reverseInt` shifts into an uninitialized variable
  (`bintree.c:18`); `WalkShowsAll` says what is left of the key;
- of the game servers the first one of the walk is never asked (`servers.c:80`);
- a room key above MAX_KEY gives a room with id 0 that is in no tree (`room.c:32`);
- of two rooms stamped in one second the second one's GAME_START may never be sent
  (`worker.c:277`);
- a game server that accepts a request and never answers stops the serverworker for ever, and an
  answer to a report that cannot be sent takes `t_sem.room` with it: all who then wait for it stop
  (`serverworker.c:50,53,162`; `Stopped` of `Rooms` and `Links`, which the liveness properties name);
- `dbLog` and the log-in of one thread while another is in a job mix their statements and their
  results (`postgres.c:26`): `ReadsOwn` and `WritesOwn` hold only for a job that met no other;
- an empty value of the database cuts the updater's exchange short, as sending nothing returns
  0 (`main.h:232`, `updater.c:50`), and leaves a result in the slot;
- a daemon's server ends by itself: `scanf` returns at once when stdin is closed
  (`daemon.c:94`, `main.c:131`), and the watchdog starts the next one, for ever;
- a turn that is under way when `core` has slept its five seconds, at the latest the listener's
  `select`, goes on with what `cleanAll` has freed (`main.c:139-140`).

## 4. Fairness

- `TSem`: a thread inside `t_semop` goes on; a thread at `pthread_mutex_lock` is not passed
  over for ever, as the mutex is held for a few instructions and whoever retries sleeps
  30 ms.
- `Sessions`, `Rooms`: each thread goes on (weak fairness of its steps). A take of a
  semaphore that is possible again and again happens (strong fairness): every holder
  sleeps most of its tick without the semaphore (`syncTPS`) and waiters poll every 30 ms.
  Nothing wakes a waiter (`t_sem.c:68`): that the polls of one do not always miss is an assumption,
  which `NoLostPoll` of `TSem` makes precise.
- Reading with `recvData` ends: it gives up after 21 tries; the worker reads at most
  ten messages of a player in a turn and the serverworker two of a game server, so
  `RecvNone` and `StartWalk` come in spite of ever more messages (strong fairness).
- Reading with `connSendRecv` need not end: its `recv` blocks without a timeout
  (`serverworker.c:50,53`). Nothing fair leads out of "silent", and the liveness properties of
  `Rooms` and `Links` say what they say unless the serverworker is there or the unit of `t_sem.room`
  is lost (`Stopped`). Of `TurnsEnd` the updater's part has no such condition, the listener's only the
  lost unit.
- `Links`: each thread goes on, its takes as above, and the worker posts what it has taken; two
  tries for each node bound a walk.
- `Sessions` takes it that the worker comes round, which it does not for ever if that unit is lost, as it
  takes `t_sem.room` on its way.
- `Transfer`: a thread inside a call goes on; neither the other end nor the thread has to begin
  anything.
- `Lifecycle`: `core` and the watchdog go on; nobody has to type, to connect, to send a signal,
  and no thread has to end its turn.
- Sending is assumed to end: a client that never reads what it is sent would block the
  worker, and with it the watcher and the listener (listed as a hazard).

## 5. Proofs

Every type invariant, every other safety invariant and every action property that a passing
run checks is a theorem, and so are the three refinements. Each rests on an inductive
invariant: the property with what else it needs, kept by every step of `Next`. The proofs go
through the actions one by one and through the parts of the invariant that each can disturb.

| Module | Proved | For |
|---|---|---|
| `TSemProofs` | `TypeOK`, `MutexInv`, refinement of `Semaphore` | any threads, integer operations, initial value |
| `BintreeProofs` | `TypeOK`, `NoDeadBranch`, `WalkShowsAll`, refinement of `KeyMap` | any positive keys, any values, any garbage |
| `SessionsProofs` | `TypeOK`, `NoUseAfterFree`, `DropsOwnPlayer`, `OneSession`, `CountsTrue`, refinement of `Registry` | any number of connections, any players, any PLAYER_MAX |
| `RoomsProofs` | `TypeOK`, `OneUnitLost`, `FoundStays`; `LastOneOut` if no room's key is on another's path | any rooms and servers, finitely many players |
| `LinksProofs` | `TypeOK`, `SocketsOwned`, `OneReader` | any number of game servers and descriptors, lists of any length |
| `TransferProofs` | `TypeOK`, `InOrder`, `InStep`, `Verdict` | any fields, tries, answer and amount of bytes |
| `DatabaseProofs` | `TypeOK`, `SlotRests`, `ReadsOwn`, `WritesOwn` | any number of maps and rows |
| `LifecycleProofs` | `TypeOK`, `TurnsMade` | the five threads of the program |

The assumptions on the constants are those each module states (`...Assumption`) and, for
`LastOneOut`, `PrefixFree(Rooms)`: no room's key lies on another's path in the tree. Without it the
deletion of one room may take another one out of the tree, whose memory stays. For `Sessions`
nothing is assumed of the ids or of the ways in which authentication fails: what goes wrong with
them is in the state, as `crossed`.

`TSem`: beside the types, each thread is in the mutex exactly at "test" and "unlock", its loop
is to go on before the test and over when it is idle. The refinement needs the second part,
since a thread that has passed counts as granted although it still has to give the mutex back.

`Bintree`: its recursive functions (`Descend`, `Reverse`, `Lift`, and `Begins` of `KeyTree`) are
tail recursions that make a number smaller; `TailRecursion` and `TailTyped` show, by strong
induction over the natural numbers, that such a function exists and is what its definition says.
From that follows what the walk's numbers mean: `AtOrAbove` is a partial order with the root at
its bottom and, above each node, two disjoint subtrees (`UpChildren`, `UpEither`, `UpTrans`); the
descents of two keys lead one above the other exactly when the bits of one begin the other
(`DescendUp`); `reverseInt` takes back the bits that a descent has spelt (`ReverseSpells`). The
inductive invariant is that nodes hang together up to the root, that there is data at or below
each of them, and that data is only where some key has its node (`Shape`, `Alive`, `Keyed`);
`WalkInv` says in addition that the walk has shown exactly the data of the nodes that come before
the place it is at; that it has seen no node with the value it looks for; or that it has removed all
data it has passed. For the refinement, `FreedRemoved` shows that the nodes `_bintreeDel` frees hold
just the keys `Removed` names.

`Sessions`: who is inside each semaphore (`LockInv`), that connections not yet accepted
have no state (`FreshInv`), what the id, data and `player_info` of a node on the watcher's list are
to one another (`NodeInv`), that the tree leads exactly from the id of every signed-in player to
its node (`TreeInv`), what holds of the node the watcher stands on at each place of its
sweep (`PhaseInv`), and that every node of the worker's list is on the watcher's list with
the same id, its socket open and its `player_info` not freed, unless the worker is about to
unlink it (`WorkerInv`). All but `LockInv` and the types are kept only while nothing is `crossed`, and the
invariant says no more of a state after that. The argument is then: the watcher drops only a node marked FAIL or
never signed in; the worker marks as its last access; one id is in the tree for one node. The
counters follow by the cardinality of the sets they count. The refinement needs that `Stage` of
one connection changes at a time.

`Rooms`: what the worker's local variables say of the player it serves (`LocalsInv`), that no
number of a room about to be made is held by anybody (`UsedInv`), and that a room counts at least
the players within it (`UsersInv`), from which `LastOneOut` follows: a count of zero leaves nobody.
`OneUnitLost` and `FoundStays` need each other, since who is inside `t_sem.room` says who may free.

`Links`: `t_sem.room` plays no part in what is proved. The node a thread is about to drop or to pass on is there (`WalkInv`), a descriptor in a
local variable is in no other (`HandInv`), what descriptors refer to (`FileInv`), and that each open
one is owned once. `OneReader` needs `TwinInv`: two descriptors of one connection exist only from
`dup` until the serverworker closes its own.

`Transfer`: at every place of `recvData` the bytes taken since the call and what `Left` calls missing
make up the field, where `need` may or may not count the latest `recv` in already; likewise for
`_sendData` (`Progress`). `Verdict` follows step by step: at each `return` the invariant tells what is
missing. `InStep` needs the recursive `Before` (`BeforeDefined`, `BeforeGrows`) and arithmetic of
remainders (`ModStep`).

`Database`: a job is well formed when each read follows the exec of its query with no other exec
or clear in between, a statement is started, given its value and built in a row, and a clear
follows every exec. `JobsWell` shows this of every job, by induction over the maps (`OfferedIs`,
`MapsWell`). What is left of a job keeps enough of it (`Rest`, `Swept`); the invariant says that a job
that met no other is the only one, that the result it reads next is the one in the slot, that the
statement it puts together is its own, and that a result in the slot has somebody to clear it. A result that is overwritten needs nobody: `SlotRests` is about the slot.

`Lifecycle`: threads start in the order of `Order` (`StartInv`), and while `run` is set everything
begun is there (`MadeInv`), unless a start function has failed: then threads do begin turns without
some semaphore, which `t_semop` takes for granted (`t_sem.c:37`). Nor does `TurnsMade` speak of turns
under way when `cleanAll` destroys the semaphores.

The proof of `Bintree` corrected the model: `Freed` used to free the ancestors of a node that was
not there, whereas `_bintreeDel` returns 0 at the first missing child (`bintree.c:76`). No run had
noticed, as `KeyMap` did not say which call a step was; now it does, and the mutant `FreedMissing`
shows that `ImplementsKeyMap` does notice.

Left to TLC: the liveness properties (`NoLostPoll`, `LostIsCleaned`, `Answered`, `WalkComes`,
`EvictedLeaves`, `GoneIsClosed`, `TurnsEnd`, `CallEnds`, `Restarted`, `StopEnds`), as fairness and
ENABLED are beyond the prover. The invariants behind the proofs were checked with TLC on the runs'
instances, except `WalkInv` of `Bintree`, which quantifies over all numbers.

## 6. Not modelled

Allocation failure; pthread failure other than that of one `pthread_create` in `Lifecycle`;
logging and the text of SQL; the sheduller (never started); the events (one, made before the
threads start and never changed); what the worker writes to players beside whether it
can be sent; the answer to a request for Flash's policy; a connection to the database that cannot
be made; the reading of arguments and configuration files; the test clients and the unused code
under `old/`; byte order. In `Sessions` the contents of messages, in `Rooms` the types of rooms
(all rooms are of one event), the ports and tokens. In `Rooms` the tree is walked as a set of
keys: a walk over nodes that another thread frees (`serverworker.c:250` beside `roomRem`) is
undefined behaviour and left out there; `Bintree` has it for a callback of the walk (`Stray`).
The length of a text in the buffers of `db.c`; the socket `connSendRecv` leaves open when it succeeds,
cannot connect, or cannot send.

## 7. Plan

Done: all modules of section 2, and proofs of every safety property that a run checks. Left:

1. Names for the parts of the liveness arguments that are safety (that a thread at a semaphore can
   go on once it is free), proved, so that TLC's part of them is fairness alone.
2. The room that the serverworker's walk stands on while the worker removes it, node by node
   (`Bintree` with two threads).
3. The messages the worker sends a player of a room, and the events he is told of.
