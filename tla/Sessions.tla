------------------------------ MODULE Sessions ------------------------------
(***************************************************************************)
(* The life of a client connection through the three threads that share    *)
(* it: listener.c accepts it and puts it on the watcher's list, watcher.c  *)
(* signs the player in (db.c, engine.c), hands it to worker.c and cleans   *)
(* up after the worker has marked the player FAIL.                         *)
(*                                                                         *)
(* Connections are numbered in the order they are accepted.  Both lists    *)
(* are appended in that order, so a list is the set of its nodes and its   *)
(* order is the order of the numbers; 0 stands for a null pointer.  The    *)
(* player_info made for connection c is named c as well.  Allocation is    *)
(* taken to succeed.                                                       *)
(*                                                                         *)
(* A node is cleaned up by its number, and three things the code allows    *)
(* make that the number of somebody else who is signed in: dbAuth's mark   *)
(* 1, an answer that cannot be sent, and a key on the way to another.      *)
(* crossed remembers that one of them has happened.                        *)
(***************************************************************************)
EXTENDS Integers, FiniteSets, FiniteSetsExt, KeyTree

CONSTANTS N,          \* bound of the model: connections accepted in one behaviour
          Ids,        \* the players of the database
          Claims,     \* the players each connection may sign in as
          PlayerMax,  \* PLAYER_MAX
          Faults      \* how authentication may fail: see FailAuth

Conns == 1..N

ASSUME SessionsAssumption ==
    /\ N \in Nat
    /\ Ids \subseteq Nat \ {0}
    /\ Claims \in [Conns -> SUBSET Ids]
    /\ PlayerMax \in Nat \ {0}
    /\ Faults \subseteq {"early", "rejected", "late"}

VARIABLES
    last,     \* the latest connection accepted
    sock,     \* of each connection: its socket
    lpc,      \* where the listener is
    semW,     \* who holds t_sem.watcher, guarding config.watcher
    wlist,    \* config.watcher.client: the nodes linked into it
    wnum,     \* config.watcher.client_num
    id,       \* worklist.id of each connection's node
    data,     \* whether the watcher's node points to its player_info
    info,     \* of each player_info: not allocated, pl->conn, or freed
    players,  \* config.$players: slots taken
    tree,     \* config.player.tree: the player_info under each key
    wpc,      \* where the watcher is
    wcur,     \* the node the watcher is at
    semK,     \* who holds t_sem.worker[0], guarding config.worker[0]
    klist,    \* config.worker[0].client
    knum,     \* config.worker[0].client_num
    kpc,      \* where the worker is
    kcur,     \* the node the worker is at
    kerr,     \* err: talking to the client failed
    crossed   \* history: a node was given up under the number of another player

listener == <<last, lpc>>
watcher == <<crossed, semW, wlist, wnum, id, data, players, tree, wpc, wcur>>
worker == <<semK, klist, knum, kpc, kcur, kerr>>
vars == <<listener, watcher, worker, sock, info>>

TypeOK == /\ last \in 0..N
          /\ sock \in [Conns -> {"none", "open", "closed"}]
          /\ lpc \in {"accept", "hello", "add"}
          /\ semW \in {"free", "watcher"}
          /\ wlist \in SUBSET Conns
          /\ wnum \in Int
          /\ id \in [Conns -> Ids \cup {0, 1}]
          /\ data \in [Conns -> BOOLEAN]
          /\ info \in [Conns -> {"none", "connected", "fail", "freed"}]
          /\ players \in Int
          /\ tree \in [Ids -> 0..N]
          /\ wpc \in {"idle", "sweep", "auth", "signin", "handover", "drop", "close"}
          /\ wcur \in 0..N
          /\ semK \in {"free", "worker"}
          /\ klist \in SUBSET Conns
          /\ knum \in Int
          /\ kpc \in {"idle", "sweep", "serve", "unlink"}
          /\ kcur \in 0..N
          /\ kerr \in BOOLEAN
          /\ crossed \in BOOLEAN

Init == /\ last = 0
        /\ sock = [c \in Conns |-> "none"]
        /\ lpc = "accept"
        /\ semW = "free" /\ semK = "free"
        /\ wlist = {} /\ klist = {}
        /\ wnum = 0 /\ knum = 0
        /\ id = [c \in Conns |-> 0]
        /\ data = [c \in Conns |-> FALSE]
        /\ info = [c \in Conns |-> "none"]
        /\ players = 0
        /\ tree = [k \in Ids |-> 0]
        /\ wpc = "idle" /\ kpc = "idle"
        /\ wcur = 0 /\ kcur = 0
        /\ kerr = FALSE
        /\ crossed = FALSE

-----------------------------------------------------------------------------
(* list.c *)

\* tmp->next of the node at c; the root is 0, and 0 is also the end.
After(list, c) == LET rest == {d \in list : d > c}
                  IN IF rest = {} THEN 0 ELSE Min(rest)

\* The node worklistDel(root, i) unlinks: the first one with that id.
FirstWith(list, i) == Min({d \in list : id[d] = i})

\* worklistForEachRemove goes on after the node that was unlinked.
Unlinked(list, i) == list \ {FirstWith(list, i)}
Resume(list, i) == After(list, FirstWith(list, i))

-----------------------------------------------------------------------------
(* The listener thread *)

Accept == /\ lpc = "accept"
          /\ last < N
          /\ last' = last + 1
          /\ sock' = [sock EXCEPT ![last + 1] = "open"]
          /\ lpc' = "hello"
          /\ UNCHANGED <<watcher, worker, info>>

\* No greeting, a policy request, or a greeting of no known client.
Greet == /\ lpc = "hello"
         /\ \/ /\ sock' = [sock EXCEPT ![last] = "closed"]
               /\ lpc' = "accept"
            \/ /\ lpc' = "add"
               /\ UNCHANGED sock
         /\ UNCHANGED <<last, watcher, worker, info>>

\* Under t_sem.watcher; nothing else can be seen between its take and post.
AddClient == /\ lpc = "add"
             /\ semW = "free"
             /\ wlist' = wlist \cup {last}
             /\ wnum' = wnum + 1
             /\ lpc' = "accept"
             /\ UNCHANGED <<crossed, last, sock, semW, id, data, info, players, tree, wpc, wcur, worker>>

-----------------------------------------------------------------------------
(* The watcher thread *)

WatcherTake == /\ wpc = "idle"
               /\ semW = "free"
               /\ semW' = "watcher"
               /\ wcur' = After(wlist, 0)
               /\ wpc' = "sweep"
               /\ UNCHANGED <<crossed, wlist, wnum, id, data, players, tree, listener, worker, sock, info>>

WatcherRelease == /\ wpc = "sweep"
                  /\ wcur = 0
                  /\ semW' = "free"
                  /\ wpc' = "idle"
                  /\ UNCHANGED <<crossed, wlist, wnum, id, data, players, tree, wcur, listener, worker, sock, info>>

\* Mutant of RefuseFull: when every slot is taken the client is tried again next time.
RefuseFullLater == /\ wpc = "sweep" /\ wcur # 0 /\ id[wcur] = 0
                   /\ players >= PlayerMax
                   /\ wcur' = After(wlist, wcur)
                   /\ UNCHANGED <<crossed, semW, wlist, wnum, id, data, players, tree, wpc, listener, worker, sock, info>>

\* dbAuth: every slot is taken, the node keeps id 0.
RefuseFull == /\ wpc = "sweep" /\ wcur # 0 /\ id[wcur] = 0
              /\ players >= PlayerMax
              /\ wpc' = "drop"
              /\ UNCHANGED <<crossed, semW, wlist, wnum, id, data, players, tree, wcur, listener, worker, sock, info>>

\* Mutant of StartAuth: PLAYER_MAX is not looked at.
StartAuthFull == /\ wpc = "sweep" /\ wcur # 0 /\ id[wcur] = 0
                 /\ players' = players + 1
                 /\ info' = [info EXCEPT ![wcur] = "connected"]
                 /\ id' = [id EXCEPT ![wcur] = 1]
                 /\ wpc' = "auth"
                 /\ UNCHANGED <<crossed, semW, wlist, wnum, data, tree, wcur, listener, worker, sock>>

\* dbAuth makes the player_info and marks the node with id 1 until it knows better.
StartAuth == /\ wpc = "sweep" /\ wcur # 0 /\ id[wcur] = 0
             /\ players < PlayerMax
             /\ players' = players + 1
             /\ info' = [info EXCEPT ![wcur] = "connected"]
             /\ id' = [id EXCEPT ![wcur] = 1]
             /\ wpc' = "auth"
             /\ UNCHANGED <<crossed, semW, wlist, wnum, data, tree, wcur, listener, worker, sock>>

\* Mutant of IdsAfter: a client whose exchange fails keeps the -1 of dbGetPlayer.
IdsAfterError(fault) == IF fault = "early" THEN {-1} ELSE {0}

\* Mutant of IdsAfter: a client whose token is refused keeps the id it asked for.
IdsAfterKept(fault) == IF fault = "rejected" THEN Claims[wcur] ELSE {1}

\* The id dbAuth leaves in the node: the exchange fails (early), the database does
\* not confirm the token (rejected), or the answer cannot be sent (late).
IdsAfter(fault) == CASE fault = "early" -> {1}
                     [] fault = "rejected" -> {0}
                     [] fault = "late" -> Claims[wcur]

\* The players who are signed in.
Keys == {k \in Ids : tree[k] # 0}

\* A client that fails early or late may be left with the number of one of them.
GivesUp == \E f \in Faults : \E i \in IdsAfter(f) :
              /\ id' = [id EXCEPT ![wcur] = i]
              /\ crossed' = (crossed \/ (f # "rejected" /\ i \in Keys))

\* Mutant of FailAuth: the slot is not given back.
FailAuthKeepsSlot == /\ wpc = "auth"
                     /\ GivesUp
                     /\ info' = [info EXCEPT ![wcur] = "freed"]
                     /\ wpc' = "drop"
                     /\ UNCHANGED <<semW, wlist, wnum, data, players, tree, wcur, listener, worker, sock>>

FailAuth == /\ wpc = "auth"
            /\ GivesUp
            /\ info' = [info EXCEPT ![wcur] = "freed"]
            /\ players' = players - 1
            /\ wpc' = "drop"
            /\ UNCHANGED <<semW, wlist, wnum, data, tree, wcur, listener, worker, sock>>

PassAuth == /\ wpc = "auth"
            /\ \E i \in Claims[wcur] : id' = [id EXCEPT ![wcur] = i]
            /\ data' = [data EXCEPT ![wcur] = TRUE]
            /\ wpc' = "signin"
            /\ UNCHANGED <<crossed, semW, wlist, wnum, players, tree, wcur, listener, worker, sock, info>>

\* Mutant of SignIn: what bintreeAdd returns is not looked at.
SignInAnyway == /\ wpc = "signin"
                /\ tree' = [tree EXCEPT ![id[wcur]] = IF @ = 0 THEN wcur ELSE @]
                /\ wpc' = "handover"
                /\ UNCHANGED <<crossed, semW, wlist, wnum, id, data, players, wcur, listener, worker, sock, info>>

\* bintreeAdd under t_sem.player, which no other thread takes.
SignIn == /\ wpc = "signin"
          /\ \/ /\ tree[id[wcur]] = 0 /\ id[wcur] <= MaxKey
                /\ tree' = [tree EXCEPT ![id[wcur]] = wcur]
                /\ wpc' = "handover"
                /\ UNCHANGED id
             \/ /\ tree[id[wcur]] # 0 \/ id[wcur] > MaxKey
                /\ id' = [id EXCEPT ![wcur] = 0]
                /\ wpc' = "drop"
                /\ UNCHANGED tree
          /\ UNCHANGED <<crossed, semW, wlist, wnum, data, players, wcur, listener, worker, sock, info>>

\* Under t_sem.worker[0], taken with t_sem.watcher and t_sem.player held.
HandOver == /\ wpc = "handover"
            /\ semK = "free"
            /\ klist' = klist \cup {wcur}
            /\ knum' = knum + 1
            /\ wcur' = After(wlist, wcur)
            /\ wpc' = "sweep"
            /\ UNCHANGED <<crossed, semW, wlist, wnum, id, data, players, tree, semK, kpc, kcur, kerr, listener, sock, info>>

\* Mutant of CheckClient: the FAIL mark is not looked at.
CheckClientBlind == /\ wpc = "sweep" /\ wcur # 0 /\ id[wcur] # 0
                    /\ wcur' = After(wlist, wcur)
                    /\ UNCHANGED <<crossed, semW, wlist, wnum, id, data, players, tree, wpc, listener, worker, sock, info>>

\* clientCheck of a client already signed in.
CheckClient == /\ wpc = "sweep" /\ wcur # 0 /\ id[wcur] # 0
               /\ \/ /\ data[wcur] /\ info[wcur] = "connected"
                     /\ wcur' = After(wlist, wcur)
                     /\ UNCHANGED wpc
                  \/ /\ ~(data[wcur] /\ info[wcur] = "connected")
                     /\ wpc' = "drop"
                     /\ UNCHANGED wcur
               /\ UNCHANGED <<crossed, semW, wlist, wnum, id, data, players, tree, listener, worker, sock, info>>

\* The player_info that proceed gives to realizePlayer: by key, or from the node.
Realized == IF id[wcur] = 0 THEN IF data[wcur] THEN wcur ELSE 0
            ELSE IF id[wcur] \in Ids THEN tree[id[wcur]] ELSE 0

\* bintreeDel takes the client's key, and may take others lying on the way to it.
Drop == /\ wpc = "drop"
        /\ LET gone == Removed(Keys, id[wcur])
           IN /\ tree' = [k \in Ids |-> IF k \in gone THEN 0 ELSE tree[k]]
              /\ crossed' = (crossed \/ ~(gone \subseteq {id[wcur]}))
        /\ info' = [c \in Conns |-> IF c = Realized THEN "freed" ELSE info[c]]
        /\ players' = IF Realized = 0 THEN players ELSE players - 1
        /\ wpc' = "close"
        /\ UNCHANGED <<semW, wlist, wnum, id, data, wcur, listener, worker, sock>>

\* Mutant of Close: client_num is not counted down.
CloseUncounted == /\ wpc = "close"
                  /\ sock' = [sock EXCEPT ![wcur] = "closed"]
                  /\ wlist' = Unlinked(wlist, id[wcur])
                  /\ wcur' = Resume(wlist, id[wcur])
                  /\ wpc' = "sweep"
                  /\ UNCHANGED <<crossed, semW, wnum, id, data, players, tree, listener, worker, info>>

Close == /\ wpc = "close"
         /\ sock' = [sock EXCEPT ![wcur] = "closed"]
         /\ wnum' = wnum - 1
         /\ wlist' = Unlinked(wlist, id[wcur])
         /\ wcur' = Resume(wlist, id[wcur])
         /\ wpc' = "sweep"
         /\ UNCHANGED <<crossed, semW, id, data, players, tree, listener, worker, info>>

-----------------------------------------------------------------------------
(* The worker thread *)

WorkerTake == /\ kpc = "idle"
              /\ semK = "free"
              /\ semK' = "worker"
              /\ kcur' = After(klist, 0)
              /\ kpc' = "sweep"
              /\ UNCHANGED <<klist, knum, kerr, listener, watcher, sock, info>>

WorkerRelease == /\ kpc = "sweep"
                 /\ kcur = 0
                 /\ semK' = "free"
                 /\ kpc' = "idle"
                 /\ UNCHANGED <<klist, knum, kcur, kerr, listener, watcher, sock, info>>

\* Mutant of Receive: conn is set to FAIL as soon as receiving fails.
ReceiveMarks == /\ kpc = "sweep" /\ kcur # 0
                /\ kerr' \in BOOLEAN
                /\ info' = [info EXCEPT ![kcur] = IF kerr' THEN "fail" ELSE @]
                /\ kpc' = "serve"
                /\ UNCHANGED <<semK, klist, knum, kcur, listener, watcher, sock>>

\* recvPlayerData: the client may have gone or sent what is no message.  kerr covers
\* the sends that follow as well: it says whether err will have been counted.
Receive == /\ kpc = "sweep" /\ kcur # 0
           /\ kerr' \in BOOLEAN
           /\ kpc' = "serve"
           /\ UNCHANGED <<semK, klist, knum, kcur, listener, watcher, sock, info>>

\* checkPlayerData, sendBeep and sendPlayerData, whose failures count like those of
\* recvPlayerData, then conn = FAIL if there was one.  The write revives nothing that
\* is freed.
Serve == /\ kpc = "serve"
         /\ \/ /\ kerr
               /\ info' = [info EXCEPT ![kcur] = IF @ = "freed" THEN @ ELSE "fail"]
               /\ knum' = knum - 1
               /\ kpc' = "unlink"
               /\ UNCHANGED kcur
            \/ /\ ~kerr
               /\ kcur' = After(klist, kcur)
               /\ kpc' = "sweep"
               /\ UNCHANGED <<info, knum>>
         /\ UNCHANGED <<semK, klist, kerr, listener, watcher, sock>>

Unlink == /\ kpc = "unlink"
          /\ klist' = Unlinked(klist, id[kcur])
          /\ kcur' = Resume(klist, id[kcur])
          /\ kpc' = "sweep"
          /\ UNCHANGED <<semK, knum, kerr, listener, watcher, sock, info>>

-----------------------------------------------------------------------------
Listener == Accept \/ Greet \/ AddClient
Watcher == \/ WatcherTake \/ WatcherRelease \/ RefuseFull \/ StartAuth \/ FailAuth \/ PassAuth
           \/ SignIn \/ HandOver \/ CheckClient \/ Drop \/ Close
Worker == WorkerTake \/ WorkerRelease \/ Receive \/ Serve \/ Unlink

Next == Listener \/ Watcher \/ Worker

Spec == Init /\ [][Next]_vars

(***************************************************************************)
(* Each thread keeps running.  A t_semop that could succeed again and      *)
(* again eventually does: every holder sleeps for most of its tick without *)
(* the semaphore (syncTPS) and a waiter polls every 30 ms.  The exchange   *)
(* in dbAuth ends, because recvData gives up after 21 tries; send is       *)
(* assumed to end, so clients are assumed to read what they are sent.      *)
(***************************************************************************)
Fairness == /\ WF_vars(Greet) /\ SF_vars(AddClient)
            /\ WF_vars(Watcher) /\ SF_vars(WatcherTake) /\ SF_vars(HandOver)
            /\ WF_vars(Worker) /\ SF_vars(WorkerTake)

LiveSpec == Spec /\ Fairness
-----------------------------------------------------------------------------
(* Safety *)

Live(c) == info[c] \in {"connected", "fail"}

\* The worker reads and writes player_infos and sockets that the watcher frees and
\* closes, with no lock in common but the FAIL mark: the worker never serves a freed
\* player_info or a closed socket, the watcher never looks at a freed player_info,
\* never frees one twice, and never closes a socket twice.  As long as no node was
\* given up under another player's number.
NoUseAfterFree == ~crossed =>
    /\ kpc = "serve" => Live(kcur) /\ sock[kcur] = "open"
    /\ wpc = "sweep" /\ wcur # 0 /\ id[wcur] # 0 /\ data[wcur] => Live(wcur)
    /\ wpc = "drop" /\ Realized # 0 => Live(Realized)
    /\ wpc = "close" => sock[wcur] = "open"

\* watcher.c:93 "tmp->data == pl": the player_info under the key of the client that
\* is dropped is the one its node points to.
OwnData == wpc = "drop" /\ Realized # 0 => Realized = wcur /\ data[wcur]

\* Dropping a client frees its own player_info, whatever the threads do and however the
\* client failed, unless a failure has left a node with the number of a player who was
\* signed in, or a removal took another player's key along.
DropsOwnPlayer == ~crossed => OwnData

\* watcher.c:46: a player who is already signed in is not signed in again, so the
\* worker never serves two connections of one player.
OneEach == \A c, d \in klist : id[c] = id[d] => c = d

\* It is so, reconnecting included, for as long as no node was given up under another
\* player's number.
OneSession == ~crossed => OneEach

\* $players counts the player_infos that exist, and each of them can still be reached
\* from the watcher's list: no slot is lost when a connection fails early, late, for
\* its token or while it is served, unless its node then had another player's number.
\* client_num, by which getFreeWorker balances the load, is the length of the list
\* except between the two halves of the worker's farewell.
CountsTrue == ~crossed =>
    /\ players = Cardinality({c \in Conns : Live(c)})
    /\ \A c \in Conns : Live(c) => c \in wlist
    /\ wnum = Cardinality(wlist)
    /\ knum = Cardinality(klist) - (IF kpc = "unlink" THEN 1 ELSE 0)

-----------------------------------------------------------------------------
(* Refinement: what a connection is to the player *)

Stage(c) == IF sock[c] = "none" THEN "new"
            ELSE IF info[c] = "freed" \/ sock[c] = "closed" THEN "gone"
            ELSE IF info[c] = "fail" THEN "lost"
            ELSE IF /\ info[c] = "connected" /\ data[c] /\ id[c] # 0
                    /\ ~(wpc = "signin" /\ wcur = c) THEN "online"
            ELSE "waiting"

Abstract == INSTANCE Registry
            WITH stage <- [c \in Conns |-> Stage(c)],
                 player <- [c \in Conns |-> IF Stage(c) \in {"online", "lost"} THEN id[c] ELSE 0]

\* The three threads and their lists, tree and marks implement the registry: one
\* session per player, at most PlayerMax of them, nobody leaves before being lost.
\* Every step does, up to the first node given up under another player's number.
ImplementsRegistry == Abstract!Init /\ [][crossed' \/ Abstract!Next]_(Abstract!vars)

-----------------------------------------------------------------------------
(* Liveness *)

\* Once the worker has marked a player FAIL, the watcher frees it and closes its
\* socket, and both threads forget the connection.  The worker is taken to come round:
\* it takes t_sem.room on its way, whose unit serverworker.c:162 can lose (see Links).
LostIsCleaned == \A c \in Conns :
    info[c] = "fail" ~> \/ info[c] = "freed" /\ sock[c] = "closed" /\ c \notin wlist \cup klist
                        \/ crossed

\* Every accepted connection comes to be served by the worker or is closed, under the
\* same assumption.
Answered == \A c \in Conns : sock[c] = "open" ~> c \in klist \/ sock[c] = "closed" \/ crossed
=============================================================================
