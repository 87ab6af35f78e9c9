------------------------------ MODULE KeyTree ------------------------------
(***************************************************************************)
(* What bintree.c does to its keys, without its nodes.  A key is stored at *)
(* the end of a path that spells its bits, the lowest first, and a node    *)
(* may hold data and have children.  Bintree has the nodes and is shown to *)
(* do exactly this.                                                        *)
(***************************************************************************)
EXTENDS Integers

MaxKey == 1073741823

\* The bits of key s[1] are the first of those that are spelt on the way to key s[2].
Begins[s \in Nat \X Nat] ==
    IF s[1] = 0 \/ s[1] % 2 # s[2] % 2 THEN s[1] = 0 ELSE Begins[<<s[1] \div 2, s[2] \div 2>>]

\* The node of key a lies on the path from the root to the node of key b.
OnPath(a, b) == a # b /\ Begins[<<a, b>>]

\* The keys that bintreeDel(k) takes from a tree holding the keys S.  When the
\* node of k has no child it is freed, and so is every ancestor left without
\* another child, whether or not that ancestor holds data.
Removed(S, k) ==
    IF k \notin S THEN {}
    ELSE IF \E j \in S : OnPath(k, j) THEN {k}
    ELSE {k} \cup {j \in S : /\ OnPath(j, k)
                             /\ \A i \in S : OnPath(j, i) => i = k \/ OnPath(i, k)}

\* No key of S is on the path of another: then Removed(S, k) is S \cap {k}.
PrefixFree(S) == \A a, b \in S : ~OnPath(a, b)
=============================================================================
