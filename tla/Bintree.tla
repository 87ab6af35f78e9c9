------------------------------ MODULE Bintree ------------------------------
(***************************************************************************)
(* bintree.c: the binary tree under the player, room, event and server     *)
(* tables.  A node is named by the number _bintreeForEach computes for it: *)
(* the root is 1 and child i of node n is 2n + i, so a key is found by     *)
(* spelling its bits, the lowest first.  Memory allocation is taken to     *)
(* succeed, keys are positive (no caller adds another), and a walk is not  *)
(* disturbed but by its own callback, which may end it or remove the key   *)
(* it is shown.                                                            *)
(***************************************************************************)
EXTENDS KeyTree, Sequences

CONSTANTS Keys, Values, Null,
          Garbage    \* what the uninitialized o of reverseInt may hold

ASSUME BintreeAssumption == /\ Keys \subseteq Nat \ {0}
                            /\ Null \notin Values
                            /\ Garbage \subseteq Nat

VARIABLES tree,   \* the nodes that are linked, and the data of each
          call,   \* the last call, and of which key
          ret,    \* what it returned
          asks,   \* a walk: what its callback is to do
          here,   \* a walk: the node it is at
          stage,  \* a walk: what it does there
          seen,   \* a walk: the nodes whose data it has shown
          shown   \* a walk: the key it passed with the latest

vars == <<tree, call, ret, asks, here, stage, seen, shown>>
walk == <<asks, here, stage, seen, shown>>

Root == 1

\* The node where the descent of bintreeAdd and bintreeGet ends: from node s[1] with
\* the bits s[2] of the key still to spell.
Descend[s \in Nat \X Nat] ==
    IF s[2] = 0 THEN s[1] ELSE Descend[<<2 * s[1] + (s[2] % 2), s[2] \div 2>>]

NodeOf(k) == Descend[<<Root, k>>]

\* reverseInt, from the node s[1] still to reverse and what is in o, s[2].
Reverse[s \in Nat \X Nat] ==
    IF s[1] = 0 THEN s[2] ELSE Reverse[<<s[1] \div 2, 2 * s[2] + (s[1] % 2)>>]

\* Mutant of KeyOf: the leading 1 of the walk's number is not shifted out.
KeyOfUnshifted(n, o) == Reverse[<<n, o>>]

KeyOf(n, o) == Reverse[<<n, o>>] \div 2

\* From node s[2] up to where the numbers are no longer above s[1].
Lift[s \in Nat \X Nat] ==
    IF s[2] <= s[1] THEN s[2] ELSE Lift[<<s[1], s[2] \div 2>>]

AtOrAbove(a, b) == Lift[<<a, b>>] = a
Above(a, b) == a # b /\ AtOrAbove(a, b)

Nodes == DOMAIN tree
\* The node of k is linked; bintreeAdd makes none for a key above MAX_KEY.
Linked(k) == k <= MaxKey /\ NodeOf(k) \in Nodes
Holding == {n \in Nodes : tree[n] # Null}

\* Look at all the data, find a value, or remove every key.
Asks == {<<"all", Null>>, <<"remove", Null>>} \cup ({"find"} \X Values)

TypeOK == /\ Root \in Nodes /\ Nodes \subseteq Nat
          /\ \A n \in Nodes : tree[n] \in Values \cup {Null}
          /\ call \in {"none", "add", "get", "del", "erase"} \X (Keys \cup {0})
          /\ ret \in Keys \cup Values \cup {Null, 0, 1}
          /\ asks \in Asks
          /\ here \in Nat
          /\ stage \in {"none", "enter", "child0", "child1", "back", "left", "lost"}
          /\ seen \subseteq Nat
          /\ shown \in Nat

Init == /\ tree = [n \in {Root} |-> Null]
        /\ call = <<"none", 0>> /\ ret = 0
        /\ asks = <<"all", Null>>
        /\ here = Root /\ stage = "none" /\ seen = {} /\ shown = 0

-----------------------------------------------------------------------------
(* bintreeAdd, bintreeGet, bintreeDel, bintreeErase *)

\* The nodes missing on the way to n are made even when its data is then refused.
Grown(n) == [m \in Nodes \cup {m \in Root..n : AtOrAbove(m, n)} |->
                IF m \in Nodes THEN tree[m] ELSE Null]

\* Mutant of Add: the data that is there is written over.
AddOver(k, v) == /\ stage = "none"
                 /\ call' = <<"add", k>>
                 /\ \/ k > MaxKey /\ ret' = 0 /\ UNCHANGED tree
                    \/ /\ k <= MaxKey
                       /\ tree' = [Grown(NodeOf(k)) EXCEPT ![NodeOf(k)] = v]
                       /\ ret' = k
                 /\ UNCHANGED walk

Add(k, v) == /\ stage = "none"
             /\ call' = <<"add", k>>
             /\ \/ /\ k > MaxKey
                   /\ ret' = 0
                   /\ UNCHANGED tree
                \/ /\ k <= MaxKey /\ Grown(NodeOf(k))[NodeOf(k)] = Null
                   /\ tree' = [Grown(NodeOf(k)) EXCEPT ![NodeOf(k)] = v]
                   /\ ret' = k
                \/ /\ k <= MaxKey /\ Grown(NodeOf(k))[NodeOf(k)] # Null
                   /\ tree' = Grown(NodeOf(k))
                   /\ ret' = 0
             /\ UNCHANGED walk

Get(k) == /\ stage = "none"
          /\ call' = <<"get", k>>
          /\ ret' = IF Linked(k) THEN tree[NodeOf(k)] ELSE Null
          /\ UNCHANGED <<tree, walk>>

\* Mutant of Freed: the branch that led to the node is left behind.
FreedAlone(n) == {m \in (Nodes \cap {n}) \ {Root} : ~\E d \in Nodes : Above(n, d)}

\* The nodes on the way to n that have no child but on that way.
Bare(n) == {m \in Nodes \ {Root} : /\ AtOrAbove(m, n)
                                   /\ \A d \in Nodes : AtOrAbove(m, d) => AtOrAbove(d, n)}

\* Mutant of Freed: the way is freed though the node at its end is missing.
FreedMissing(n) == Bare(n)

\* The nodes _bintreeDel frees with node n, if it is there: n when it has no child, and
\* then every ancestor below the root that is left without another child.
Freed(n) == IF n \in Nodes THEN Bare(n) ELSE {}

Without(n) == [m \in Nodes \ Freed(n) |-> IF m = n THEN Null ELSE tree[m]]

\* It returns whether the branch of the root that held the key is gone.
Delete(k) == /\ call' = <<"del", k>>
             /\ tree' = IF k > MaxKey THEN tree ELSE Without(NodeOf(k))
             /\ ret' = IF k <= MaxKey /\ 2 + (k % 2) \in Freed(NodeOf(k)) THEN 1 ELSE 0

Del(k) == /\ stage = "none"
          /\ Delete(k)
          /\ UNCHANGED walk

\* Mutant of Erase: the root goes too.
EraseRoot == /\ stage = "none"
             /\ call' = <<"erase", 0>>
             /\ tree' = [n \in {} |-> Null]
             /\ UNCHANGED <<ret, walk>>

Erase == /\ stage = "none"
         /\ call' = <<"erase", 0>>
         /\ tree' = [n \in {Root} |-> Null]
         /\ UNCHANGED <<ret, walk>>

-----------------------------------------------------------------------------
(* bintreeForEach, under bintreeSize, bintreeToArray and bintreeClone too *)

Begin == /\ stage = "none"
         /\ asks' \in Asks
         /\ here' = Root
         /\ stage' = "enter"
         /\ UNCHANGED <<tree, call, ret, seen, shown>>

\* Mutant of Callback: the walk goes on when the callback has found what it asks for.
CallbackOn == \/ /\ asks[1] = "remove"
                 /\ \E k \in Keys : Linked(k) /\ NodeOf(k) = here /\ Delete(k)
                 /\ stage' = "child0"
              \/ /\ asks[1] # "remove"
                 /\ stage' = "child0"
                 /\ UNCHANGED <<tree, call, ret>>

\* The callback removes the key it is shown, or looks at the data.  The one that finds
\* returns the key, and when that is not 0 every frame of the walk returns at once.
Callback == \/ /\ asks[1] = "remove"
               /\ \E k \in Keys : Linked(k) /\ NodeOf(k) = here /\ Delete(k)
               /\ stage' = "child0"
            \/ /\ asks[1] # "remove"
               /\ stage' = IF asks = <<"find", tree[here]>> /\ shown' # 0 THEN "left" ELSE "child0"
               /\ UNCHANGED <<tree, call, ret>>

\* f(reverseInt(key)>>1, root->data, arg).
Enter == /\ stage = "enter"
         /\ \/ /\ tree[here] # Null
               /\ seen' = seen \cup {here}
               /\ \E g \in Garbage : shown' = KeyOf(here, g)
               /\ Callback
            \/ /\ tree[here] = Null
               /\ stage' = "child0"
               /\ UNCHANGED <<tree, call, ret, seen, shown>>
         /\ UNCHANGED <<asks, here>>

\* The walk reads the pointers of a node that is freed: they may still be there, both 0,
\* or the memory has another use by now and there is no telling what the walk does.
Stray == /\ here \notin Nodes
         /\ stage' = "lost"
         /\ UNCHANGED here

Into(i) == /\ 2 * here + i \in Nodes
           /\ here' = 2 * here + i
           /\ stage' = "enter"

\* Mutant of Leave: a walk coming back from child 0 does not go on to child 1.
LeaveEarly == /\ here' = IF here = Root THEN Root ELSE here \div 2
              /\ stage' = IF here = Root THEN "left" ELSE "back"

\* Return to the frame of the parent, which goes on with its next child.
Leave == /\ here' = IF here = Root THEN Root ELSE here \div 2
         /\ stage' = IF here = Root THEN "left" ELSE IF here % 2 = 0 THEN "child1" ELSE "back"

Child0 == /\ stage = "child0"
          /\ \/ Into(0)
             \/ Stray
             \/ /\ 2 * here \notin Nodes
                /\ stage' = "child1"
                /\ UNCHANGED here
          /\ UNCHANGED <<tree, call, ret, asks, seen, shown>>

Child1 == /\ stage = "child1"
          /\ \/ Into(1)
             \/ Stray
             \/ 2 * here + 1 \notin Nodes /\ Leave
          /\ UNCHANGED <<tree, call, ret, asks, seen, shown>>

Back == /\ stage = "back"
        /\ Leave
        /\ UNCHANGED <<tree, call, ret, asks, seen, shown>>

End == /\ stage = "left"
       /\ asks' = <<"all", Null>>
       /\ stage' = "none" /\ here' = Root /\ seen' = {} /\ shown' = 0
       /\ UNCHANGED <<tree, call, ret>>

Walk == Begin \/ Enter \/ Child0 \/ Child1 \/ Back \/ End

Next == \/ Erase \/ Walk
        \/ \E k \in Keys : Del(k) \/ Get(k) \/ \E v \in Values : Add(k, v)

Spec == Init /\ [][Next]_vars

-----------------------------------------------------------------------------
\* Every linked node hangs on a linked parent, and every leaf below the root holds
\* data: what bintreeDel leaves behind is never a dead branch.
NoDeadBranch == \A n \in Nodes \ {Root} :
    /\ n \div 2 \in Nodes
    /\ tree[n] = Null => 2 * n \in Nodes \/ 2 * n + 1 \in Nodes

Abstract == INSTANCE KeyMap
            WITH map <- [k \in Keys |-> IF Linked(k) THEN tree[NodeOf(k)] ELSE Null]

\* Node by node, bintree.c does what KeyMap says key by key, call by call: bintreeAdd
\* refuses a key that is held, and bintreeDel takes the keys Removed names and no other.
ImplementsKeyMap == Abstract!Spec

\* The key it passes with the data spells, in its low bits, the way to the node the data
\* was found at, whatever reverseInt starts from.
ShownSpells == stage \in {"child0", "left"} /\ here \in seen => AtOrAbove(here, NodeOf(shown))

\* A walk whose callback always returns 0 has shown every key's data.
ShowsAll == asks[1] = "all" => seen = Holding

\* A walk that looks for a value has stopped at the first node that holds it, and when
\* there is none it has shown every key's data.
Finds == asks[1] = "find" => /\ \A n \in seen \ {here} : tree[n] # asks[2]
                             /\ \/ here \in seen /\ tree[here] = asks[2]
                                \/ seen = Holding

\* A walk that removes what it is shown, and comes through, has emptied the tree.
RemovesAll == asks[1] = "remove" => Holding = {}

\* A walk to its end shows the data of every key that is stored and nothing else, or
\* finds what it looks for, or removes everything; it passes each key with a number that
\* spells it; and only a callback that removes can lead it into freed memory.
WalkShowsAll == /\ stage = "left" => ShowsAll /\ Finds /\ RemovesAll
                /\ stage = "lost" => asks[1] = "remove"
                /\ ShownSpells
=============================================================================
