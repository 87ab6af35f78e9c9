------------------------------ MODULE Registry ------------------------------
(***************************************************************************)
(* What the listener, watcher and worker threads together promise about    *)
(* players: a connection is accepted, signs in as a player or is refused,  *)
(* is lost, and leaves; a player has one session at a time and there are   *)
(* never more than PlayerMax sessions.  Sessions implements this.          *)
(***************************************************************************)
EXTENDS Integers, FiniteSets

CONSTANTS Conns,      \* the connections, 1..N
          Ids,        \* the players of the database
          PlayerMax   \* PLAYER_MAX

VARIABLES stage,      \* of each connection: how far it has come
          player      \* who it signed in as; 0: nobody

vars == <<stage, player>>

InSession == {c \in Conns : stage[c] \in {"online", "lost"}}

Init == /\ stage = [c \in Conns |-> "new"]
        /\ player = [c \in Conns |-> 0]

Move(c, from, to) == stage[c] \in from /\ stage' = [stage EXCEPT ![c] = to]

Connect(c) == Move(c, {"new"}, "waiting") /\ UNCHANGED player

Refuse(c) == Move(c, {"waiting"}, "gone") /\ UNCHANGED player

SignIn(c, p) == /\ Move(c, {"waiting"}, "online")
                /\ \A d \in InSession : player[d] # p
                /\ Cardinality(InSession) < PlayerMax
                /\ player' = [player EXCEPT ![c] = p]

Lose(c) == Move(c, {"online"}, "lost") /\ UNCHANGED player

Leave(c) == /\ Move(c, {"lost"}, "gone")
            /\ player' = [player EXCEPT ![c] = 0]

Next == \E c \in Conns : \/ Connect(c) \/ Refuse(c) \/ Lose(c) \/ Leave(c)
                         \/ \E p \in Ids : SignIn(c, p)

Spec == Init /\ [][Next]_vars
=============================================================================
