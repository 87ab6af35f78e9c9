------------------------------- MODULE KeyMap -------------------------------
(***************************************************************************)
(* bintree.c as its callers see it: a map from keys to pointers.  It is no *)
(* ordinary map, for taking out a key may take others along (Removed).     *)
(* Bintree implements it, and Sessions and Rooms use it in this form.      *)
(***************************************************************************)
EXTENDS KeyTree

CONSTANTS Keys, Values, Null

VARIABLES map,   \* what each key holds
          call,  \* the last call, and of which key
          ret    \* what it returned

vars == <<map, call, ret>>

Stored == {k \in Keys : map[k] # Null}

Init == /\ map = [k \in Keys |-> Null]
        /\ call = <<"none", 0>>
        /\ ret = 0

Add(k, v) == /\ call' = <<"add", k>>
             /\ \/ /\ k <= MaxKey /\ map[k] = Null
                   /\ map' = [map EXCEPT ![k] = v]
                   /\ ret' = k
                \/ /\ k > MaxKey \/ map[k] # Null
                   /\ ret' = 0
                   /\ UNCHANGED map

\* Whether a branch of the root went with the key is of no use to any caller.
Del(k) == /\ call' = <<"del", k>>
          /\ map' = [j \in Keys |-> IF j \in Removed(Stored, k) THEN Null ELSE map[j]]
          /\ ret' \in {0, 1}

Get(k) == /\ call' = <<"get", k>>
          /\ ret' = map[k]
          /\ UNCHANGED map

Erase == /\ call' = <<"erase", 0>>
         /\ map' = [k \in Keys |-> Null]
         /\ UNCHANGED ret

Next == \/ Erase
        \/ \E k \in Keys : Del(k) \/ Get(k) \/ \E v \in Values : Add(k, v)

Spec == Init /\ [][Next]_vars
=============================================================================
