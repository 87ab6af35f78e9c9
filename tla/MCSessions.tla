----------------------------- MODULE MCSessions -----------------------------
(* Who may sign in over which connection. *)
EXTENDS Sessions

\* Any connection as any player: two of them may want the same one.
Anyone == [c \in Conns |-> Ids]

\* The second and the third connection may want the player of the first; player 1 has the
\* number that is dbAuth's mark and lies on the way to player 3; TooBig is no key of the
\* tree.
TooBig == MaxKey + 1
Few == {1, 2, 3, TooBig}
Rivals == [c \in Conns |-> CASE c = 1 -> {1, 2} [] c = 2 -> {1, 3} [] OTHER -> {2, TooBig}]
=============================================================================
