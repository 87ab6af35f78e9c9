------------------------------- MODULE Links -------------------------------
(***************************************************************************)
(* The connections of game servers: the listener accepts them              *)
(* (listener.c), the serverworker reads their messages (serverworker.c),   *)
(* and a connection that asks for updates is passed to the updater by dup  *)
(* and close (updater.c).                                                  *)
(*                                                                         *)
(* The nodes of both lists have id 0, so worklistDel unlinks the first one *)
(* (list.c).  A descriptor number is reused as soon as it is closed, the   *)
(* lowest free one first; the rest of the program opens and closes         *)
(* descriptors too.  A node is the number in it, 0 for the -1 of a call    *)
(* that failed.  What messages say of rooms is in module Rooms; here are   *)
(* the takes and posts of t_sem.room, which the serverworker waits for     *)
(* with t_sem.serverworker taken and between two turns.  Sending and the   *)
(* queries of the updater are taken to end.                                *)
(***************************************************************************)
EXTENDS Integers, FiniteSets, SequencesExt, FiniteSetsExt

CONSTANTS N,        \* bound of the model: game servers that connect
          Limit,    \* descriptors the process may have open
          Others,   \* bound of the model: those the rest of the program has open at once
          MaxList   \* bound of the model: nodes the listener adds to one list

ASSUME LinksAssumption == /\ N \in Nat /\ Others \in Nat
                          /\ Limit \in Nat \ {0} /\ MaxList \in Nat \ {0}

Servers == 1..N
Other == N + 1     \* what a descriptor of the rest of the program refers to
Fds == 1..Limit

VARIABLES
    last,     \* the latest game server accepted
    file,     \* what each descriptor refers to: a server, Other, or 0 when closed
    others,   \* the descriptors the rest of the program has opened
    gone,     \* the servers whose end is closed or lost, and all they sent is read
    listening,\* whether the listener has a new node to add
    accepted, \* sock in the listener
    semS,     \* who holds t_sem.serverworker
    semU,     \* who holds t_sem.updater
    clients,  \* config.serverworker.client
    num,      \* config.serverworker.client_num
    tasks,    \* config.updater.task
    pc,       \* of the serverworker "s" and the updater "u": where it is
    at,       \* the place in its list
    try,      \* i in its recvServerData or recvUpdaterData
    again,    \* whether its errno is EAGAIN
    passed,   \* sock in proceedServerMessage: the duplicate to pass on
    val,      \* of t_sem.room
    inside,   \* whether the worker has taken t_sem.room
    spoiled   \* history: a node was lost, or a number kept after its close

listener == <<last, listening, accepted>>
threads == <<pc, at, try, again>>
unit == <<val, inside>>
vars == <<listener, file, others, gone, semS, semU, clients, num, tasks, threads, passed, unit, spoiled>>

Workers == {"s", "u"}
Steps == {"idle", "read", "status", "result", "pass", "drop", "walk", "silent"}

TypeOK == /\ last \in 0..N
          /\ file \in [Fds -> 0..Other]
          /\ others \subseteq Fds
          /\ gone \subseteq Servers
          /\ listening \in BOOLEAN /\ accepted \in 0..Limit
          /\ semS \in {"free", "s"} /\ semU \in {"free", "u"}
          /\ clients \in Seq(0..Limit) /\ tasks \in Seq(0..Limit)
          /\ num \in Int
          /\ pc \in [Workers -> Steps]
          /\ at \in [Workers -> Nat \ {0}]
          /\ try \in [Workers -> 1..2]
          /\ again \in [Workers -> BOOLEAN]
          /\ passed \in 0..Limit
          /\ val \in Nat /\ inside \in BOOLEAN
          /\ spoiled \in BOOLEAN

Init == /\ last = 0
        /\ file = [f \in Fds |-> 0]
        /\ others = {}
        /\ gone = {}
        /\ listening = FALSE /\ accepted = 0
        /\ semS = "free" /\ semU = "free"
        /\ clients = <<>> /\ tasks = <<>>
        /\ num = 0
        /\ pc = [w \in Workers |-> "idle"]
        /\ at = [w \in Workers |-> 1]
        /\ try = [w \in Workers |-> 1]
        /\ again = [w \in Workers |-> FALSE]
        /\ passed = 0
        /\ val = 1 /\ inside = FALSE
        /\ spoiled = FALSE

-----------------------------------------------------------------------------
(* Descriptors *)

Free == {f \in Fds : file[f] = 0}

\* The descriptor accept, dup or socket returns; 0 for -1 (EMFILE).
Lowest == IF Free = {} THEN 0 ELSE Min(Free)

Opened(f, x) == IF f = 0 THEN file ELSE [file EXCEPT ![f] = x]

\* close of a number, whatever it refers to by now; EBADF changes nothing.
Closed(f) == IF f = 0 THEN file ELSE [file EXCEPT ![f] = 0]

Refers(f) == IF f = 0 THEN 0 ELSE file[f]

\* Player connections, connSendRecv's sockets, the log file.
OpenOther == /\ Free # {} /\ Cardinality(others) < Others
             /\ file' = Opened(Lowest, Other)
             /\ others' = others \cup {Lowest}
             /\ UNCHANGED <<listener, gone, semS, semU, clients, num, tasks, threads, passed, unit, spoiled>>

CloseOther == \E f \in others :
    /\ file' = Closed(f)
    /\ others' = others \ {f}
    /\ UNCHANGED <<listener, gone, semS, semU, clients, num, tasks, threads, passed, unit, spoiled>>

Hangup(c) == /\ c <= last /\ c \notin gone
             /\ gone' = gone \cup {c}
             /\ UNCHANGED <<listener, file, others, semS, semU, clients, num, tasks, threads, passed, unit, spoiled>>

-----------------------------------------------------------------------------
(* The listener thread *)

\* A connection that accept cannot give a descriptor stays in the backlog.
Accept == /\ ~listening
          /\ last < N /\ Len(clients) < MaxList
          /\ accepted' = Lowest
          /\ last' = IF Lowest = 0 THEN last ELSE last + 1
          /\ file' = Opened(Lowest, last + 1)
          /\ listening' = TRUE
          /\ UNCHANGED <<others, gone, semS, semU, clients, num, tasks, threads, passed, unit, spoiled>>

\* Under t_sem.serverworker; nothing else can be seen between its take and post.
AddClient == /\ listening
             /\ semS = "free"
             /\ num' = num + 1
             /\ clients' = Append(clients, accepted)
             /\ listening' = FALSE /\ accepted' = 0
             /\ UNCHANGED <<last, file, others, gone, semS, semU, tasks, threads, passed, unit, spoiled>>

-----------------------------------------------------------------------------
(* The serverworker and the updater: the walk over a list *)

List(w) == IF w = "s" THEN clients ELSE tasks
Node(w) == List(w)[at[w]]
Goes(w, from, to) == pc[w] = from /\ pc' = [pc EXCEPT ![w] = to]
Here(w) == pc[w] = "read" /\ at[w] <= Len(List(w))

\* To the next node, and to the first try of it.
NextNode(w) == /\ at' = [at EXCEPT ![w] = @ + 1]
               /\ try' = [try EXCEPT ![w] = 1]

\* Mutant of Tried: a try that found nothing does not count.
TriedAgain(w) == \/ UNCHANGED <<try, at>>
                 \/ NextNode(w)

\* One try is over: the next one, or the next node.
Tried(w) == \/ try[w] = 1 /\ try' = [try EXCEPT ![w] = 2] /\ UNCHANGED at
            \/ try[w] = 2 /\ NextNode(w)

Take(w) == /\ Goes(w, "idle", "read")
           /\ \/ w = "s" /\ semS = "free" /\ semS' = "s" /\ UNCHANGED semU
              \/ w = "u" /\ semU = "free" /\ semU' = "u" /\ UNCHANGED semS
           /\ \E e \in BOOLEAN : again' = [again EXCEPT ![w] = e]
           /\ UNCHANGED <<listener, file, others, gone, clients, num, tasks, at, try, passed, unit, spoiled>>

\* Mutant of Release: the next walk goes on behind the list.
ReleaseBehind(w) == /\ at[w] > Len(List(w))
                    /\ \/ w = "s" /\ Goes(w, "read", "walk") /\ semS' = "free" /\ val' = val + 1 /\ UNCHANGED semU
                       \/ w = "u" /\ Goes(w, "read", "idle") /\ semU' = "free" /\ UNCHANGED <<semS, val>>
                    /\ at' = [at EXCEPT ![w] = 0]
                    /\ again' = [again EXCEPT ![w] = FALSE]
                    /\ UNCHANGED <<listener, file, others, gone, clients, num, tasks, try, passed, inside, spoiled>>

\* The serverworker posts t_sem.room next, for roomCheckAll.
Release(w) == /\ at[w] > Len(List(w))
              /\ \/ w = "s" /\ Goes(w, "read", "walk") /\ semS' = "free" /\ val' = val + 1 /\ UNCHANGED semU
                 \/ w = "u" /\ Goes(w, "read", "idle") /\ semU' = "free" /\ UNCHANGED <<semS, val>>
              /\ at' = [at EXCEPT ![w] = 1]
              /\ again' = [again EXCEPT ![w] = FALSE]
              /\ UNCHANGED <<listener, file, others, gone, clients, num, tasks, try, passed, inside, spoiled>>

\* Mutant of Silent: errno is not cleared, so the end of a stream after EAGAIN passes for silence.
SilentStale(w) == LET x == Refers(Node(w)) IN
    /\ Here(w)
    /\ x # 0
    /\ x \in gone => again[w]
    /\ again' = [again EXCEPT ![w] = x \notin gone \/ again[w]]
    /\ Tried(w)
    /\ UNCHANGED <<listener, file, others, gone, semS, semU, clients, num, tasks, pc, passed, unit, spoiled>>

\* recv finds nothing (EAGAIN), or returns 0 with an errno that was EAGAIN.
Silent(w) == LET x == Refers(Node(w)) IN
    /\ Here(w)
    /\ x # 0
    /\ x \in gone => again[w]
    /\ again' = [again EXCEPT ![w] = FALSE]
    /\ Tried(w)
    /\ UNCHANGED <<listener, file, others, gone, semS, semU, clients, num, tasks, pc, passed, unit, spoiled>>

\* recv fails on a closed descriptor, or finds that the other end is gone.
Broken(w) == LET x == Refers(Node(w)) IN
    /\ Here(w)
    /\ x \in {0, Other} \/ (x \in gone /\ ~again[w])
    /\ Goes(w, "read", "drop")
    /\ UNCHANGED <<listener, file, others, gone, semS, semU, clients, num, tasks, at, try, again, passed, unit, spoiled>>

\* A message is there; handling it leaves errno at anything.
Receives(w) == LET x == Refers(Node(w)) IN
    /\ Here(w)
    /\ x \in Servers \cup {Other} /\ x \notin gone
    /\ \E e \in BOOLEAN : again' = [again EXCEPT ![w] = e]
    /\ UNCHANGED <<listener, others, gone, semS, semU, clients, num, tasks, inside>>

\* A message with nothing to do, an exchange of the updater.
Handle(w) == /\ Receives(w)
             /\ Tried(w)
             /\ UNCHANGED <<file, pc, passed, val, spoiled>>

\* An exchange of the updater that cannot be sent.
HandleLast == /\ Receives("u")
              /\ Goes("u", "read", "drop")
              /\ UNCHANGED <<file, at, try, passed, val, spoiled>>

\* MESSAGE_ROOM_STATUS or MESSAGE_ROOM_RESULT: wait for t_sem.room.
HandleRoom == /\ Receives("s")
              /\ \/ Goes("s", "read", "status")
                 \/ Goes("s", "read", "result")
              /\ UNCHANGED <<file, at, try, passed, val, spoiled>>

\* The handler of a status takes t_sem.room and posts it; when the answer cannot be
\* sent, it returns without the post.
Status == /\ Goes("s", "status", "drop")
          /\ val > 0 /\ val' \in {val, val - 1}
          /\ UNCHANGED <<listener, file, others, gone, semS, semU, clients, num, tasks, at, try, again, passed, inside, spoiled>>

\* The handler of a result, which closes the socket when the room is not there; the
\* node stays.
Result == /\ Goes("s", "result", "read")
          /\ val > 0
          /\ Tried("s")
          /\ \/ UNCHANGED <<file, spoiled>>
             \/ file' = Closed(Node("s")) /\ spoiled' = TRUE
          /\ UNCHANGED <<listener, others, gone, semS, semU, clients, num, tasks, again, passed, unit>>

\* Mutant of Update: the number itself is passed on, not a duplicate.
UpdateSame == /\ Receives("s")
              /\ passed' = Node("s")
              /\ Goes("s", "read", "pass")
              /\ UNCHANGED <<file, at, try, val, spoiled>>

\* MESSAGE_UPDATE: duplicate the descriptor, then wait for t_sem.updater.
Update == /\ Receives("s")
          /\ passed' = Lowest
          /\ file' = Opened(Lowest, Refers(Node("s")))
          /\ Goes("s", "read", "pass")
          /\ UNCHANGED <<at, try, val, spoiled>>

\* Mutant of PassOn: the serverworker keeps its node of the connection.
PassOnKept == /\ Goes("s", "pass", "read")
              /\ semU = "free"
              /\ tasks' = Append(tasks, passed)
              /\ passed' = 0
              /\ NextNode("s")
              /\ UNCHANGED <<listener, file, others, gone, semS, semU, clients, num, again, unit, spoiled>>

PassOn == /\ Goes("s", "pass", "drop")
          /\ semU = "free"
          /\ tasks' = Append(tasks, passed)
          /\ passed' = 0
          /\ UNCHANGED <<listener, file, others, gone, semS, semU, clients, num, at, try, again, unit, spoiled>>

\* Mutant of Drop: the socket of a dropped node stays open.
DropOpen(w) == /\ Goes(w, "drop", "read")
               /\ \/ w = "s" /\ clients' = Tail(clients) /\ num' = num - 1 /\ UNCHANGED tasks
                  \/ w = "u" /\ tasks' = Tail(tasks) /\ UNCHANGED <<clients, num>>
               /\ spoiled' = (spoiled \/ at[w] # 1)
               /\ at' = [at EXCEPT ![w] = 1]
               /\ try' = [try EXCEPT ![w] = 1]
               /\ UNCHANGED <<listener, file, others, gone, semS, semU, again, passed, unit>>

\* Close the socket of the node the walk is at, unlink the first node, and go
\* on from the root.
Drop(w) == /\ Goes(w, "drop", "read")
           /\ file' = Closed(Node(w))
           /\ \/ w = "s" /\ clients' = Tail(clients) /\ num' = num - 1 /\ UNCHANGED tasks
              \/ w = "u" /\ tasks' = Tail(tasks) /\ UNCHANGED <<clients, num>>
           /\ spoiled' = (spoiled \/ at[w] # 1)
           /\ at' = [at EXCEPT ![w] = 1]
           /\ try' = [try EXCEPT ![w] = 1]
           /\ UNCHANGED <<listener, others, gone, semS, semU, again, passed, unit>>

-----------------------------------------------------------------------------
(* t_sem.room between the worker and the serverworker *)

\* The worker takes t_sem.room around each use of a room, and posts it.
WorkerTake == /\ val > 0 /\ ~inside
              /\ val' = val - 1 /\ inside' = TRUE
              /\ UNCHANGED <<listener, file, others, gone, semS, semU, clients, num, tasks, threads, passed, spoiled>>

WorkerPost == /\ inside
              /\ val' = val + 1 /\ inside' = FALSE
              /\ UNCHANGED <<listener, file, others, gone, semS, semU, clients, num, tasks, threads, passed, spoiled>>

\* A game server that connSendRecv asks accepts and never answers: recv waits for ever.
NoAnswer == /\ Goes("s", "walk", "silent")
            /\ UNCHANGED <<listener, file, others, gone, semS, semU, clients, num, tasks, at, try, again, passed, unit, spoiled>>

\* roomCheckAll is over, in which a removal takes and posts t_sem.room as well: take it.
EndWalk == /\ Goes("s", "walk", "idle")
           /\ val > 0 /\ val' = val - 1
           /\ UNCHANGED <<listener, file, others, gone, semS, semU, clients, num, tasks, at, try, again, passed, inside, spoiled>>

-----------------------------------------------------------------------------
\* Bound of the model: nothing new happens outside once a node is lost.
Outside == ~spoiled /\ (OpenOther \/ CloseOther \/ Accept \/ \E c \in Servers : Hangup(c))
Walk(w) == \/ Take(w) \/ Release(w) \/ Silent(w) \/ Broken(w)
           \/ Handle(w) \/ Drop(w)
Serverworker == \/ Walk("s") \/ HandleRoom \/ Status \/ Result \/ Update \/ PassOn
                \/ NoAnswer \/ EndWalk
Updater == Walk("u") \/ HandleLast
Worker == WorkerTake \/ WorkerPost

Next == Outside \/ AddClient \/ Serverworker \/ Updater \/ Worker

Spec == Init /\ [][Next]_vars

(***************************************************************************)
(* Each thread goes on, and the worker posts what it has taken.  Who waits *)
(* for a semaphore of another thread's gets it if it is free again and     *)
(* again: its holder sleeps most of its tick without it and waiters poll   *)
(* every 30 ms.                                                            *)
(* Nothing makes a silent game server answer.                              *)
(***************************************************************************)
Fairness == /\ SF_vars(AddClient) /\ SF_vars(PassOn)
            /\ WF_vars(Serverworker) /\ WF_vars(Updater) /\ WF_vars(WorkerPost)
            /\ SF_vars(Status \/ Result \/ EndWalk)

LiveSpec == Spec /\ Fairness

-----------------------------------------------------------------------------
\* The places that answer for closing descriptor f.
Places(list, f) == Cardinality({i \in DOMAIN list : list[i] = f})
Owners(f) == Places(clients, f) + Places(tasks, f)
             + Cardinality({g \in {accepted, passed} : g = f})
             + Cardinality({g \in others : g = f})

\* Every connection of a game server is in the hands of the thread that is to
\* close it: none loses its node while it is open (serverworker.c:231).
OpenIsListed == \A f \in Fds : file[f] \in Servers => Owners(f) > 0

\* While only first nodes have been dropped, a descriptor is open exactly as
\* long as one node or one thread has its number: accept, dup and close by three
\* threads leak none, close none twice and close nobody else's.
SocketsOwned == spoiled \/ \A f \in Fds : Owners(f) = IF file[f] = 0 THEN 0 ELSE 1

\* The serverworker and the updater never both read one connection: whoever has
\* passed it on drops it before reading again.
OneReader == spoiled \/ \A i \in DOMAIN clients, j \in DOMAIN tasks :
    (Refers(clients[i]) = Refers(tasks[j]) /\ Refers(tasks[j]) # 0) => (pc["s"] = "drop" /\ i = at["s"])

\* The unit of t_sem.room that serverworker.c:162 may return with: 1 once it is lost.
Missing == 1 + (IF pc["s"] \in {"walk", "silent"} THEN 1 ELSE 0) - (IF inside THEN 1 ELSE 0) - val

\* What may stop the serverworker for ever: an answer it waits for, or that unit.
Stopped == pc["s"] = "silent" \/ Missing = 1

\* A connection whose game server is gone is closed, by whichever thread has it, unless
\* the serverworker is stopped by one of those two things.
GoneIsClosed ==
    \A c \in Servers : c \in gone ~> (spoiled \/ Stopped \/ \A f \in Fds : file[f] # c)

\* The updater's walk ends however nodes vanish from under it; the serverworker's ends
\* too and is begun again, and a connection that is passed on gets to the updater,
\* unless one of the two stops it; an accepted connection gets onto the list, unless
\* the unit is lost: a silent game server leaves t_sem.serverworker free.
TurnsEnd == /\ pc["u"] # "idle" ~> pc["u"] = "idle"
            /\ pc["s"] # "idle" ~> (pc["s"] = "idle" \/ Stopped)
            /\ listening ~> (~listening \/ Missing = 1)
=============================================================================
