------------------------------ MODULE Database ------------------------------
(***************************************************************************)
(* Three threads over one PostgreSQL connection (postgres.c): the listener *)
(* logs connections, the watcher signs players in and logs (db.c), the     *)
(* updater reads maps and types (updater.c).                               *)
(*                                                                         *)
(* getAccess returns the last slot whose used is 0, and nothing sets used: *)
(* every query gets the last of the slots of results, every statement is   *)
(* put together in the last of the slots of updates, and t_sem.db is held  *)
(* for no longer than that takes.  One slot of each is what the threads    *)
(* share.  The text of queries and statements is left out, and so is       *)
(* whether it fits its buffers; the database answers.                      *)
(***************************************************************************)
EXTENDS Integers, Sequences, FiniteSets

CONSTANTS MaxMaps,   \* bound: the maps whose stamps come back
          MaxRows    \* bound: the rows of a table of types

ASSUME DatabaseAssumption == MaxMaps \in Nat /\ MaxRows \in Nat

VARIABLES
    todo,      \* of each thread: what is left of its job
    slot,      \* connections[id].query: a result or None
    running,   \* of each thread: not in PQexec, or in it alone or with others
    clearing,  \* the threads between PQclear and query=0 of pgClear
    table,     \* qeueing[id].table: whose job named it last, or "none"
    values,    \* qeueing[id].values: whose jobs put a value in, in order
    met,       \* history: the threads whose job has met another one's
    cut        \* history: a job broke off and left its result in the slot

vars == <<todo, slot, running, clearing, table, values, met, cut>>

Threads == {"listener", "watcher", "updater"}

-----------------------------------------------------------------------------
(* The jobs, as sequences of calls <<what, of which query>> *)

\* dbUpdateStart, dbUpdateValue and dbUpdateEnd, or their twins for INSERT.  One "value"
\* stands for all the values of the job, eight in dbLog.  They are put together in a
\* static tmp[200] (db.c:332), which two logs at once may overrun: left out.
Statement(s) == << <<"start", s>>, <<"value", s>>, <<"build", s>>, <<"exec", s>>, <<"clear", s>> >>

\* Mutant of Log: dbInsertEnd does not clear the query.
LogUncleared == SubSeq(Statement("log"), 1, 4)

Log == Statement("log")

Clears == << <<"clear", "user">>, <<"clear", "auth">> >>

\* Mutant of Asked: the user's id is read when the second query has been made.
AskedLate == << <<"exec", "user">>, <<"exec", "auth">>, <<"read", "user">>, <<"read", "auth">> >>

\* The two queries of dbGetPlayer and what it reads of each.
Asked == << <<"exec", "user">>, <<"read", "user">>, <<"exec", "auth">>, <<"read", "auth">> >>

\* dbGetPlayer: no such user; no authentication asked for; a wrong token; the right one.
Logins == { SubSeq(Asked, 1, 2) \o << <<"clear", "user">> >>,
            Asked \o Clears,
            Asked \o Log \o Clears,
            Asked \o Statement("touch") \o Log \o Clears }

\* MESSAGE_UPDATE_MAPS: the names, then maps one by one: each name whose stamp comes back
\* is asked for its data, which is sent if it is newer.
Names == << <<"exec", "names">>, <<"read", "names">>, <<"clear", "names">> >>
Map == { << <<"send", "names">>, <<"exec", "map">>, <<"read", "map">>, <<"clear", "map">> >>,
         << <<"send", "names">>, <<"exec", "map">>, <<"read", "map">>, <<"send", "map">>, <<"clear", "map">> >> }
OneMore(J) == {job \o map : job \in J, map \in Map}
Offered[n \in 0..MaxMaps] == IF n = 0 THEN {Names} ELSE OneMore(Offered[n - 1])
Maps == {job \o << <<"send", "names">> >> : job \in UNION {Offered[n] : n \in 0..MaxMaps}}

\* The other updates: whether there is something newer; then all of it, row by row.
Newer == << <<"exec", "newer">>, <<"read", "newer">>, <<"clear", "newer">> >>
Rows(n) == [i \in 1..2 * n |-> <<IF i % 2 = 1 THEN "read" ELSE "send", "types">>]
Types == { Newer \o << <<"send", "types">> >> }
         \cup { Newer \o << <<"exec", "types">> >> \o Rows(n) \o << <<"clear", "types">>, <<"send", "types">> >> :
                  n \in 0..MaxRows }

Jobs(t) == CASE t = "listener" -> {Log}
             [] t = "watcher" -> Logins \cup {Log}
             [] t = "updater" -> Maps \cup Types

-----------------------------------------------------------------------------
None == [by |-> "none", of |-> "none", freed |-> FALSE]

\* The answer to some other query made on the connection at the same time.
Foreign == [by |-> "other", of |-> "other", freed |-> FALSE]

Queries == {"user", "auth", "log", "touch", "names", "map", "newer", "types"}

Calls == {"start", "value", "build", "exec", "read", "send", "clear"}

\* The marks in values are those of one job of each thread at most.
TypeOK == /\ todo \in [Threads -> Seq(Calls \X Queries)]
          /\ slot \in [by : Threads, of : Queries, freed : BOOLEAN]
                   \cup {None, Foreign, [Foreign EXCEPT !.freed = TRUE]}
          /\ running \in [Threads -> {"no", "alone", "shared"}]
          /\ clearing \subseteq Threads
          /\ table \in Threads \cup {"none"}
          /\ values \in Seq(Threads) /\ Len(values) <= Cardinality(Threads)
          /\ met \subseteq Threads
          /\ cut \in BOOLEAN

Init == /\ todo = [t \in Threads |-> <<>>]
        /\ slot = None
        /\ running = [t \in Threads |-> "no"]
        /\ clearing = {}
        /\ table = "none" /\ values = <<>>
        /\ met = {} /\ cut = FALSE

Busy(t) == todo[t] # <<>>

\* A thread begins a job; those that have one under way meet it.
Begin(t) == LET others == {u \in Threads \ {t} : Busy(u)} IN
    /\ ~Busy(t)
    /\ \E job \in Jobs(t) : todo' = [todo EXCEPT ![t] = job]
    /\ met' = IF others = {} THEN met \ {t} ELSE met \cup others \cup {t}
    /\ UNCHANGED <<slot, running, clearing, table, values, cut>>

\* t's next call is what; it is made and done with.
Calling(t, what) == Busy(t) /\ todo[t][1][1] = what
Done(t) == todo' = [todo EXCEPT ![t] = Tail(@)]
Query(t) == todo[t][1][2]

-----------------------------------------------------------------------------
(* Results: pgExec, pgRows and pgValue, pgClear *)

\* PQexec sends the query on the one connection.
Exec(t) == LET there == {u \in Threads : running[u] # "no"} IN
    /\ Calling(t, "exec") /\ running[t] = "no"
    /\ running' = IF there = {} THEN [running EXCEPT ![t] = "alone"]
                  ELSE [u \in Threads |-> IF u \in there \cup {t} THEN "shared" ELSE "no"]
    /\ UNCHANGED <<todo, slot, clearing, table, values, met, cut>>

\* It returns, and the result goes into the slot.  Calls of PQexec that overlap on
\* one connection are undefined: the answer may be another query's, or none.  What
\* the slot held is overwritten, without PQclear: query1's result in every login that
\* gets as far as query2.
Result(t) ==
    /\ Calling(t, "exec") /\ running[t] # "no"
    /\ \/ slot' = [by |-> t, of |-> Query(t), freed |-> FALSE]
       \/ running[t] = "shared" /\ slot' \in {Foreign, None}
    /\ running' = [running EXCEPT ![t] = "no"]
    /\ Done(t)
    /\ UNCHANGED <<clearing, table, values, met, cut>>

\* Whatever the slot holds by now is read.
Read(t) == /\ Calling(t, "read")
           /\ Done(t)
           /\ UNCHANGED <<slot, running, clearing, table, values, met, cut>>

\* PQclear of what the slot holds, if anything; then query=0.
Clear(t) == /\ Calling(t, "clear") /\ t \notin clearing
            /\ clearing' = clearing \cup {t}
            /\ slot' = IF slot = None THEN None ELSE [slot EXCEPT !.freed = TRUE]
            /\ UNCHANGED <<todo, running, table, values, met, cut>>

Emptied(t) == /\ Calling(t, "clear") /\ t \in clearing
              /\ clearing' = clearing \ {t}
              /\ slot' = None
              /\ cut' = FALSE
              /\ Done(t)
              /\ UNCHANGED <<running, table, values, met>>

-----------------------------------------------------------------------------
(* Statements: dbUpdateStart, dbUpdateValue, dbUpdateEnd and the INSERT ones *)

\* Mutant of Start: the values of the statement before are kept.
StartKept(t) == /\ Calling(t, "start")
                /\ table' = t
                /\ Done(t)
                /\ UNCHANGED <<slot, running, clearing, values, met, cut>>

Start(t) == /\ Calling(t, "start")
            /\ table' = t /\ values' = <<>>
            /\ Done(t)
            /\ UNCHANGED <<slot, running, clearing, met, cut>>

Value(t) == /\ Calling(t, "value")
            /\ values' = Append(values, t)
            /\ Done(t)
            /\ UNCHANGED <<slot, running, clearing, table, met, cut>>

\* The statement is copied out of the slot.
Build(t) == /\ Calling(t, "build")
            /\ Done(t)
            /\ UNCHANGED <<slot, running, clearing, table, values, met, cut>>

-----------------------------------------------------------------------------
(* Sending to a game server: a failure ends the updater's job on the spot *)

Send(t) == /\ Calling(t, "send")
           /\ \/ Done(t) /\ UNCHANGED cut
              \/ /\ todo' = [todo EXCEPT ![t] = <<>>]
                 /\ cut' = (cut \/ slot # None)
           /\ UNCHANGED <<slot, running, clearing, table, values, met>>

Next == \E t \in Threads : \/ Begin(t) \/ Exec(t) \/ Result(t) \/ Read(t) \/ Clear(t)
                           \/ Emptied(t) \/ Start(t) \/ Value(t) \/ Build(t) \/ Send(t)

Spec == Init /\ [][Next]_vars

-----------------------------------------------------------------------------
\* A thread whose job met no other reads the answers of its own query and no
\* other's, though its queries and statements all go through one slot, and
\* whatever earlier jobs, broken off or not, have left there.
ReadsOwn == [][\A t \in Threads : (Calling(t, "read") /\ todo'[t] # todo[t] /\ t \notin met) =>
                    slot = [by |-> t, of |-> Query(t), freed |-> FALSE]]_vars

\* Likewise the statement it sends has its own table and its own values only.
WritesOwn == [][\A t \in Threads : (Calling(t, "build") /\ todo'[t] # todo[t] /\ t \notin met) =>
                    table = t /\ values = <<t>>]_vars

\* Between jobs the slot is empty, however the jobs met in it, unless one broke off:
\* there is no result that a later job could take for its own.  A result that was
\* overwritten, as every login's first is (db.c:119), is in the slot no more, was never
\* cleared, and is not counted.
SlotRests == (\A t \in Threads : ~Busy(t)) => slot = None \/ cut
=============================================================================
