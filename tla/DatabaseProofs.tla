--------------------------- MODULE DatabaseProofs ---------------------------
(***************************************************************************)
(* One connection, one slot of results and one of updates under three      *)
(* threads, for every order of their calls and any number of jobs.  The    *)
(* argument uses no more of a job than how its calls follow each other:    *)
(* each read follows the exec of its query with no other exec or clear in  *)
(* between, a statement is started, given its value and built in a row,    *)
(* and a clear comes after every exec.                                     *)
(***************************************************************************)
EXTENDS Database, TLAPS, FiniteSetTheorems, SequenceTheorems, WellFoundedInduction

Call == Calls \X Queries

-----------------------------------------------------------------------------
(* Jobs and what is left of them *)

\* From place i to place j of s no result is fetched and none is thrown away.
Quiet(s, i, j) == \A k \in i..j : s[k][1] \notin {"exec", "clear"}

\* The read at place i of s is of the result that an exec in s has fetched.
Fetched(s, i) == \E j \in 1..i : s[j] = <<"exec", s[i][2]>> /\ Quiet(s, j + 1, i)

\* A whole job.
Well(s) == \A i \in DOMAIN s : /\ s[i][1] = "read" => Fetched(s, i)
                               /\ s[i][1] = "build" => i > 1 /\ s[i - 1][1] = "value"
                               /\ s[i][1] = "value" => i > 1 /\ s[i - 1][1] = "start"

\* What is left of one.
Rest(s) == \A i \in DOMAIN s : /\ s[i][1] = "read" => Fetched(s, i) \/ Quiet(s, 1, i)
                               /\ i > 1 => /\ s[i][1] = "build" => s[i - 1][1] = "value"
                                           /\ s[i][1] = "value" => s[i - 1][1] = "start"

HasClear(s) == \E i \in DOMAIN s : s[i][1] = "clear"
Swept(s) == \A i \in DOMAIN s : s[i][1] = "exec" => \E k \in DOMAIN s : k > i /\ s[k][1] = "clear"

\* What the tail of a sequence of calls is.
LEMMA TailIs ==
  ASSUME NEW s \in Seq(Call), s # <<>>
  PROVE  /\ Tail(s) \in Seq(Call) /\ Len(s) \in Nat \ {0}
         /\ DOMAIN s = 1..Len(s) /\ DOMAIN Tail(s) = 1..Len(s) - 1
         /\ \A i \in 1..Len(s) - 1 : Tail(s)[i] = s[i + 1]
         /\ \A i \in 1..Len(s) : s[i] \in Call
<1>1. Len(s) \in Nat \ {0} /\ DOMAIN s = 1..Len(s)
  BY LenProperties, EmptySeq
<1>2. /\ Tail(s) \in Seq(Call) /\ Len(Tail(s)) = Len(s) - 1
      /\ \A i \in 1..Len(Tail(s)) : Tail(s)[i] = s[i + 1]
  BY HeadTailProperties
<1>3. DOMAIN Tail(s) = 1..Len(Tail(s))
  BY <1>2, LenProperties
<1>4. \A i \in 1..Len(s) : s[i] \in Call
  BY ElementOfSeq
<1> QED
  BY <1>1, <1>2, <1>3, <1>4

LEMMA TailOther ==
  ASSUME NEW s \in Seq(Call), s # <<>>
  PROVE  Tail(s) # s
<1>1. DOMAIN s = 1..Len(s) /\ DOMAIN Tail(s) = 1..Len(s) - 1 /\ Len(s) \in Nat \ {0}
  BY TailIs
<1>2. Len(s) \in DOMAIN s /\ Len(s) \notin DOMAIN Tail(s)
  BY <1>1
<1> QED
  BY <1>2, Zenon

\* A call is done, and what is left is still the rest of a job.
LEMMA RestTail ==
  ASSUME NEW s \in Seq(Call), s # <<>>, Rest(s)
  PROVE  Rest(Tail(s))
<1> DEFINE r == Tail(s)
           n == Len(s)
<1>1. /\ n \in Nat \ {0} /\ DOMAIN s = 1..n /\ DOMAIN r = 1..n - 1
      /\ \A i \in 1..n - 1 : r[i] = s[i + 1]
  BY TailIs
<1> HIDE DEF r, n
<1>2. ASSUME NEW i \in DOMAIN r, r[i][1] = "read"
      PROVE  Fetched(r, i) \/ Quiet(r, 1, i)
  <2>1. i + 1 \in DOMAIN s /\ s[i + 1] = r[i] /\ i \in 1..n - 1
    BY <1>1
  <2>2. CASE Quiet(s, 1, i + 1)
    <3>1. Quiet(r, 1, i)
      BY <1>1, <2>1, <2>2 DEF Quiet
    <3> QED
      BY <3>1
  <2>3. CASE Fetched(s, i + 1)
    <3>1. PICK j \in 1..i + 1 : s[j] = <<"exec", s[i + 1][2]>> /\ Quiet(s, j + 1, i + 1)
      BY <2>3 DEF Fetched
    <3>2. CASE j = 1
      <4>1. Quiet(r, 1, i)
        BY <1>1, <2>1, <3>1, <3>2 DEF Quiet
      <4> QED
        BY <4>1
    <3>3. CASE j # 1
      <4>1. /\ j - 1 \in 1..i /\ r[j - 1] = <<"exec", r[i][2]>>
        BY <1>1, <2>1, <3>1, <3>3
      <4>2. Quiet(r, (j - 1) + 1, i)
        BY <1>1, <2>1, <3>1, <3>3 DEF Quiet
      <4> QED
        BY <4>1, <4>2 DEF Fetched
    <3> QED
      BY <3>2, <3>3
  <2> QED
    BY <1>2, <2>1, <2>2, <2>3 DEF Rest
<1>3. ASSUME NEW i \in DOMAIN r, i > 1
      PROVE  /\ r[i][1] = "build" => r[i - 1][1] = "value"
             /\ r[i][1] = "value" => r[i - 1][1] = "start"
  <2>1. i + 1 \in DOMAIN s /\ s[i + 1] = r[i] /\ i + 1 > 1 /\ s[(i + 1) - 1] = r[i - 1]
    BY <1>1, <1>3
  <2> QED
    BY <2>1 DEF Rest
<1> QED
  BY <1>2, <1>3 DEF Rest, r

\* How the head of a rest bears on what comes next.
LEMMA TailReads ==
  ASSUME NEW s \in Seq(Call), s # <<>>, Rest(s),
         NEW i \in DOMAIN Tail(s), Tail(s)[i][1] = "read", Quiet(Tail(s), 1, i)
  PROVE  /\ s[1][1] = "exec" => s[1][2] = Tail(s)[i][2]
         /\ s[1][1] # "clear"
         /\ s[1][1] # "exec" => /\ i + 1 \in DOMAIN s /\ s[i + 1] = Tail(s)[i]
                                /\ Quiet(s, 1, i + 1)
<1> DEFINE r == Tail(s)
           n == Len(s)
<1>1. /\ n \in Nat \ {0} /\ DOMAIN s = 1..n /\ DOMAIN r = 1..n - 1
      /\ \A k \in 1..n - 1 : r[k] = s[k + 1]
  BY TailIs
<1> HIDE DEF r, n
<1>2. i + 1 \in DOMAIN s /\ s[i + 1] = r[i] /\ i \in 1..n - 1
  BY <1>1 DEF r
<1>3. \A k \in 2..i + 1 : s[k][1] \notin {"exec", "clear"}
  <2> SUFFICES ASSUME NEW k \in 2..i + 1
               PROVE  s[k][1] \notin {"exec", "clear"}
    OBVIOUS
  <2>1. k - 1 \in 1..i /\ r[k - 1] = s[k]
    BY <1>1, <1>2
  <2> QED
    BY <2>1 DEF Quiet, r
<1>4. s[1][1] \notin {"exec", "clear"} => Quiet(s, 1, i + 1)
  BY <1>2, <1>3 DEF Quiet
<1>5. Fetched(s, i + 1) \/ Quiet(s, 1, i + 1)
  BY <1>2 DEF Rest, r
<1>6. Quiet(s, 1, i + 1) => s[1][1] \notin {"exec", "clear"}
  BY <1>2 DEF Quiet
<1>7. ASSUME Fetched(s, i + 1)
      PROVE  s[1] = <<"exec", s[i + 1][2]>> \/ s[1][1] \notin {"exec", "clear"}
  <2>1. PICK j \in 1..i + 1 : s[j] = <<"exec", s[i + 1][2]>> /\ Quiet(s, j + 1, i + 1)
    BY <1>7 DEF Fetched
  <2>2. j = 1
    BY <1>2, <1>3, <2>1
  <2> QED
    BY <2>1, <2>2
<1> QED
  BY <1>2, <1>4, <1>5, <1>6, <1>7 DEF r

LEMMA TailForms ==
  ASSUME NEW s \in Seq(Call), s # <<>>, Rest(s), Tail(s) # <<>>
  PROVE  /\ Tail(s)[1][1] = "build" => s[1][1] = "value"
         /\ Tail(s)[1][1] = "value" => s[1][1] = "start"
<1>1. Tail(s)[1] = s[2] /\ 2 \in DOMAIN s
  <2>1. Len(Tail(s)) \in Nat \ {0}
    BY TailIs, LenProperties, EmptySeq
  <2>2. Len(s) > 1
    BY <2>1, TailIs, HeadTailProperties
  <2> QED
    BY <2>2, TailIs
<1>2. 2 > 1 /\ 2 - 1 = 1
  OBVIOUS
<1>3. /\ s[2][1] = "build" => s[1][1] = "value"
      /\ s[2][1] = "value" => s[1][1] = "start"
  <2>1. /\ s[2][1] = "build" => s[2 - 1][1] = "value"
        /\ s[2][1] = "value" => s[2 - 1][1] = "start"
    BY <1>1, <1>2, Zenon DEF Rest
  <2> QED
    BY <1>2, <2>1
<1> QED
  BY <1>1, <1>3

LEMMA TailClears ==
  ASSUME NEW s \in Seq(Call), s # <<>>
  PROVE  /\ HasClear(s) /\ s[1][1] # "clear" => HasClear(Tail(s))
         /\ Swept(s) /\ s[1][1] = "exec" => HasClear(Tail(s))
         /\ Swept(s) => Swept(Tail(s))
<1> DEFINE r == Tail(s)
           n == Len(s)
<1>1. /\ n \in Nat \ {0} /\ DOMAIN s = 1..n /\ DOMAIN r = 1..n - 1
      /\ \A k \in 1..n - 1 : r[k] = s[k + 1]
  BY TailIs
<1> HIDE DEF r, n
<1>2. ASSUME NEW k \in DOMAIN s, k > 1
      PROVE  k - 1 \in DOMAIN r /\ r[k - 1] = s[k]
  BY <1>1, <1>2
<1>3. ASSUME NEW k \in DOMAIN s, s[k][1] = "clear", s[1][1] # "clear"
      PROVE  HasClear(r)
  <2>1. k > 1
    BY <1>1, <1>3
  <2> QED
    BY <1>2, <1>3, <2>1 DEF HasClear
<1>4. ASSUME Swept(s), s[1][1] = "exec"
      PROVE  HasClear(r)
  <2>1. PICK k \in DOMAIN s : k > 1 /\ s[k][1] = "clear"
    BY <1>1, <1>4 DEF Swept
  <2> QED
    BY <1>2, <2>1 DEF HasClear
<1>5. ASSUME Swept(s), NEW i \in DOMAIN r, r[i][1] = "exec"
      PROVE  \E k \in DOMAIN r : k > i /\ r[k][1] = "clear"
  <2>1. i + 1 \in DOMAIN s /\ s[i + 1] = r[i] /\ i \in Nat
    BY <1>1
  <2>2. PICK k \in DOMAIN s : k > i + 1 /\ s[k][1] = "clear"
    BY <1>5, <2>1 DEF Swept
  <2>3. k - 1 \in DOMAIN r /\ r[k - 1] = s[k] /\ k - 1 > i
    BY <1>1, <2>1, <2>2
  <2> QED
    BY <2>2, <2>3
<1> QED
  BY <1>3, <1>4, <1>5 DEF HasClear, Swept, r

-----------------------------------------------------------------------------
(* The jobs are put together from well-formed parts *)

\* The calls of two parts in a row.
LEMMA Joined ==
  ASSUME NEW s \in Seq(Call), NEW r \in Seq(Call)
  PROVE  /\ s \o r \in Seq(Call) /\ Len(s) \in Nat /\ Len(r) \in Nat
         /\ Len(s \o r) = Len(s) + Len(r)
         /\ DOMAIN s = 1..Len(s) /\ DOMAIN r = 1..Len(r)
         /\ DOMAIN (s \o r) = 1..(Len(s) + Len(r))
         /\ \A i \in 1..Len(s) : (s \o r)[i] = s[i]
         /\ \A i \in 1..Len(r) : (s \o r)[Len(s) + i] = r[i]
         /\ \A i \in 1..(Len(s) + Len(r)) :
                i \in 1..Len(s) \/ (i - Len(s) \in 1..Len(r) /\ i = Len(s) + (i - Len(s)))
<1>1. /\ s \o r \in Seq(Call) /\ Len(s \o r) = Len(s) + Len(r)
      /\ \A i \in 1..(Len(s) + Len(r)) :
             (s \o r)[i] = IF i <= Len(s) THEN s[i] ELSE r[i - Len(s)]
  BY ConcatProperties
<1>2. Len(s) \in Nat /\ Len(r) \in Nat /\ DOMAIN s = 1..Len(s) /\ DOMAIN r = 1..Len(r)
  BY LenProperties
<1>3. DOMAIN (s \o r) = 1..(Len(s) + Len(r))
  BY <1>1, LenProperties
<1> DEFINE c == s \o r
           m == Len(s)
           n == Len(r)
<1>4. m \in Nat /\ n \in Nat /\ \A i \in 1..(m + n) : c[i] = IF i <= m THEN s[i] ELSE r[i - m]
  BY <1>1, <1>2
<1> HIDE DEF c, m, n
<1>5. \A i \in 1..m : c[i] = s[i]
  BY <1>4
<1>6. \A i \in 1..n : c[m + i] = r[i]
  <2> TAKE i \in 1..n
  <2>1. m + i \in 1..(m + n) /\ ~(m + i <= m) /\ (m + i) - m = i
    BY <1>4
  <2> QED
    BY <1>4, <2>1
<1>7. \A i \in 1..(m + n) : i \in 1..m \/ (i - m \in 1..n /\ i = m + (i - m))
  BY <1>4
<1> QED
  BY <1>1, <1>2, <1>3, <1>5, <1>6, <1>7 DEF c, m, n

\* A read that has its exec in a part has it in the whole.
LEMMA FetchedLeft ==
  ASSUME NEW s \in Seq(Call), NEW r \in Seq(Call), NEW i \in 1..Len(s), Fetched(s, i)
  PROVE  Fetched(s \o r, i)
<1> DEFINE c == s \o r
<1>1. Len(s) \in Nat /\ \A k \in 1..Len(s) : c[k] = s[k]
  BY Joined
<1> HIDE DEF c
<1>2. PICK j \in 1..i : s[j] = <<"exec", s[i][2]>> /\ Quiet(s, j + 1, i)
  BY DEF Fetched
<1>3. c[j] = <<"exec", c[i][2]>>
  BY <1>1, <1>2
<1>4. Quiet(c, j + 1, i)
  BY <1>1, <1>2 DEF Quiet
<1> QED
  BY <1>3, <1>4 DEF Fetched, c

LEMMA FetchedRight ==
  ASSUME NEW s \in Seq(Call), NEW r \in Seq(Call), NEW i \in 1..Len(r), Fetched(r, i)
  PROVE  Fetched(s \o r, Len(s) + i)
<1> DEFINE c == s \o r
           m == Len(s)
<1>1. m \in Nat /\ Len(r) \in Nat /\ \A k \in 1..Len(r) : c[m + k] = r[k]
  BY Joined
<1> HIDE DEF c, m
<1>2. PICK j \in 1..i : r[j] = <<"exec", r[i][2]>> /\ Quiet(r, j + 1, i)
  BY DEF Fetched
<1>3. c[m + j] = <<"exec", c[m + i][2]>> /\ m + j \in 1..(m + i)
  BY <1>1, <1>2
<1>4. Quiet(c, (m + j) + 1, m + i)
  <2> SUFFICES ASSUME NEW k \in (m + j) + 1..(m + i)
               PROVE  c[k][1] \notin {"exec", "clear"}
    BY DEF Quiet
  <2>1. k - m \in j + 1..i /\ k - m \in 1..Len(r) /\ m + (k - m) = k
    BY <1>1
  <2>2. c[k] = r[k - m]
    BY <1>1, <2>1
  <2> QED
    BY <1>2, <2>1, <2>2 DEF Quiet
<1> QED
  BY <1>3, <1>4 DEF Fetched, c, m

LEMMA JoinWell ==
  ASSUME NEW s \in Seq(Call), NEW r \in Seq(Call), Well(s), Well(r)
  PROVE  Well(s \o r)
<1> DEFINE c == s \o r
           m == Len(s)
           n == Len(r)
<1>1. /\ m \in Nat /\ n \in Nat /\ DOMAIN c = 1..(m + n) /\ DOMAIN s = 1..m /\ DOMAIN r = 1..n
      /\ \A i \in 1..m : c[i] = s[i]
      /\ \A i \in 1..n : c[m + i] = r[i]
      /\ \A i \in 1..(m + n) : i \in 1..m \/ (i - m \in 1..n /\ i = m + (i - m))
  BY Joined
<1>2. /\ \A i \in 1..m : Fetched(s, i) => Fetched(c, i)
      /\ \A i \in 1..n : Fetched(r, i) => Fetched(c, m + i)
  BY FetchedLeft, FetchedRight
<1> HIDE DEF c, m, n
<1>3. ASSUME NEW i \in 1..m
      PROVE  /\ c[i][1] = "read" => Fetched(c, i)
             /\ c[i][1] = "build" => i > 1 /\ c[i - 1][1] = "value"
             /\ c[i][1] = "value" => i > 1 /\ c[i - 1][1] = "start"
  <2>1. c[i] = s[i] /\ (i > 1 => c[i - 1] = s[i - 1])
    BY <1>1
  <2>2. /\ s[i][1] = "read" => Fetched(s, i)
        /\ s[i][1] = "build" => i > 1 /\ s[i - 1][1] = "value"
        /\ s[i][1] = "value" => i > 1 /\ s[i - 1][1] = "start"
    BY <1>1 DEF Well
  <2> QED
    BY <1>2, <2>1, <2>2
<1>4. ASSUME NEW i \in 1..n
      PROVE  /\ c[m + i][1] = "read" => Fetched(c, m + i)
             /\ c[m + i][1] = "build" => m + i > 1 /\ c[(m + i) - 1][1] = "value"
             /\ c[m + i][1] = "value" => m + i > 1 /\ c[(m + i) - 1][1] = "start"
  <2>1. c[m + i] = r[i] /\ (i > 1 => m + i > 1 /\ c[(m + i) - 1] = r[i - 1])
    <3>1. i > 1 => i - 1 \in 1..n /\ m + (i - 1) = (m + i) - 1 /\ m + i > 1
      BY <1>1
    <3> QED
      BY <1>1, <3>1
  <2>2. /\ r[i][1] = "read" => Fetched(r, i)
        /\ r[i][1] = "build" => i > 1 /\ r[i - 1][1] = "value"
        /\ r[i][1] = "value" => i > 1 /\ r[i - 1][1] = "start"
    BY <1>1 DEF Well
  <2> QED
    BY <1>2, <2>1, <2>2
<1>5. ASSUME NEW i \in DOMAIN c
      PROVE  /\ c[i][1] = "read" => Fetched(c, i)
             /\ c[i][1] = "build" => i > 1 /\ c[i - 1][1] = "value"
             /\ c[i][1] = "value" => i > 1 /\ c[i - 1][1] = "start"
  <2>1. CASE i \in 1..m
    BY <1>3, <2>1
  <2>2. CASE i - m \in 1..n /\ i = m + (i - m)
    <3> DEFINE k == i - m
    <3>1. k \in 1..n /\ i = m + k
      BY <2>2
    <3> HIDE DEF k
    <3> QED
      BY <1>4, <3>1
  <2> QED
    BY <1>1, <2>1, <2>2
<1> QED
  BY <1>5 DEF Well, c

LEMMA JoinSwept ==
  ASSUME NEW s \in Seq(Call), NEW r \in Seq(Call), Swept(r), Swept(s) \/ HasClear(r)
  PROVE  Swept(s \o r)
<1> DEFINE c == s \o r
           m == Len(s)
           n == Len(r)
<1>1. /\ m \in Nat /\ n \in Nat /\ DOMAIN c = 1..(m + n) /\ DOMAIN s = 1..m /\ DOMAIN r = 1..n
      /\ \A i \in 1..m : c[i] = s[i]
      /\ \A i \in 1..n : c[m + i] = r[i]
      /\ \A i \in 1..(m + n) : i \in 1..m \/ (i - m \in 1..n /\ i = m + (i - m))
  BY Joined
<1> HIDE DEF c, m, n
<1> SUFFICES ASSUME NEW i \in DOMAIN c, c[i][1] = "exec"
             PROVE  \E k \in DOMAIN c : k > i /\ c[k][1] = "clear"
  BY DEF Swept, c
<1>2. CASE i \in 1..m /\ Swept(s)
  <2>1. PICK k \in DOMAIN s : k > i /\ s[k][1] = "clear"
    BY <1>1, <1>2 DEF Swept
  <2>2. k \in DOMAIN c /\ c[k] = s[k]
    BY <1>1, <2>1
  <2> QED
    BY <2>1, <2>2
<1>3. CASE i \in 1..m /\ HasClear(r)
  <2>1. PICK k \in DOMAIN r : r[k][1] = "clear"
    BY <1>3 DEF HasClear
  <2>2. m + k \in DOMAIN c /\ c[m + k] = r[k] /\ m + k > i
    BY <1>1, <1>3, <2>1
  <2> QED
    BY <2>1, <2>2
<1>4. CASE i - m \in 1..n /\ i = m + (i - m)
  <2> DEFINE h == i - m
  <2>1. h \in 1..n /\ i = m + h
    BY <1>4
  <2> HIDE DEF h
  <2>2. PICK k \in DOMAIN r : k > h /\ r[k][1] = "clear"
    BY <1>1, <2>1 DEF Swept
  <2>3. m + k \in DOMAIN c /\ c[m + k] = r[k] /\ m + k > i
    BY <1>1, <2>1, <2>2
  <2> QED
    BY <2>2, <2>3
<1> QED
  BY <1>1, <1>2, <1>3, <1>4

LEMMA JoinClear ==
  ASSUME NEW s \in Seq(Call), NEW r \in Seq(Call), HasClear(s) \/ HasClear(r)
  PROVE  HasClear(s \o r)
<1> DEFINE c == s \o r
           m == Len(s)
           n == Len(r)
<1>1. /\ m \in Nat /\ n \in Nat /\ DOMAIN c = 1..(m + n) /\ DOMAIN s = 1..m /\ DOMAIN r = 1..n
      /\ \A i \in 1..m : c[i] = s[i]
      /\ \A i \in 1..n : c[m + i] = r[i]
  BY Joined
<1> HIDE DEF c, m, n
<1>2. ASSUME NEW k \in DOMAIN s, s[k][1] = "clear"
      PROVE  HasClear(c)
  <2>1. k \in DOMAIN c /\ c[k] = s[k]
    BY <1>1
  <2> QED
    BY <1>2, <2>1 DEF HasClear
<1>3. ASSUME NEW k \in DOMAIN r, r[k][1] = "clear"
      PROVE  HasClear(c)
  <2>1. m + k \in DOMAIN c /\ c[m + k] = r[k]
    BY <1>1
  <2> QED
    BY <1>3, <2>1 DEF HasClear
<1> QED
  BY <1>2, <1>3 DEF HasClear, c

\* s leaves the result of query q in the slot.
Open(s, q) == \E j \in DOMAIN s : s[j] = <<"exec", q>> /\ Quiet(s, j + 1, Len(s))

\* r does nothing but read the result of q and send it.
Reading(r, q) == \A i \in DOMAIN r : r[i] = <<"read", q>> \/ r[i][1] = "send"

\* A result may be read for as long as it is there.
LEMMA JoinReading ==
  ASSUME NEW s \in Seq(Call), NEW r \in Seq(Call), NEW q,
         Well(s), Open(s, q), Reading(r, q)
  PROVE  Well(s \o r) /\ Open(s \o r, q)
<1> DEFINE c == s \o r
           m == Len(s)
           n == Len(r)
<1>1. /\ m \in Nat /\ n \in Nat /\ DOMAIN c = 1..(m + n) /\ DOMAIN s = 1..m /\ DOMAIN r = 1..n
      /\ Len(c) = m + n
      /\ \A i \in 1..m : c[i] = s[i]
      /\ \A i \in 1..n : c[m + i] = r[i]
      /\ \A i \in 1..(m + n) : i \in 1..m \/ (i - m \in 1..n /\ i = m + (i - m))
  BY Joined
<1>2. \A i \in 1..m : Fetched(s, i) => Fetched(c, i)
  BY FetchedLeft
<1>3. PICK j \in DOMAIN s : s[j] = <<"exec", q>> /\ Quiet(s, j + 1, m)
  BY DEF Open
<1> HIDE DEF c, m, n
<1>4. \A k \in j + 1..(m + n) : c[k][1] \notin {"exec", "clear"}
  <2> SUFFICES ASSUME NEW k \in j + 1..(m + n)
               PROVE  c[k][1] \notin {"exec", "clear"}
    OBVIOUS
  <2>1. k \in 1..(m + n)
    BY <1>1
  <2>2. CASE k \in 1..m
    BY <1>1, <1>3, <2>2 DEF Quiet
  <2>3. CASE k - m \in 1..n /\ k = m + (k - m)
    <3>1. c[k] = r[k - m]
      BY <1>1, <2>3
    <3>2. r[k - m] = <<"read", q>> \/ r[k - m][1] = "send"
      BY <1>1, <2>3 DEF Reading
    <3> QED
      BY <3>1, <3>2
  <2> QED
    BY <1>1, <2>1, <2>2, <2>3
<1>5. j \in DOMAIN c /\ c[j] = <<"exec", q>>
  BY <1>1, <1>3
<1>6. Open(c, q)
  BY <1>1, <1>4, <1>5 DEF Open, Quiet
<1>7. ASSUME NEW i \in 1..m
      PROVE  /\ c[i][1] = "read" => Fetched(c, i)
             /\ c[i][1] = "build" => i > 1 /\ c[i - 1][1] = "value"
             /\ c[i][1] = "value" => i > 1 /\ c[i - 1][1] = "start"
  <2>1. c[i] = s[i] /\ (i > 1 => c[i - 1] = s[i - 1])
    BY <1>1
  <2>2. /\ s[i][1] = "read" => Fetched(s, i)
        /\ s[i][1] = "build" => i > 1 /\ s[i - 1][1] = "value"
        /\ s[i][1] = "value" => i > 1 /\ s[i - 1][1] = "start"
    BY <1>1 DEF Well
  <2> QED
    BY <1>2, <2>1, <2>2
<1>8. ASSUME NEW i \in DOMAIN c, i - m \in 1..n, i = m + (i - m)
      PROVE  /\ c[i][1] = "read" => Fetched(c, i)
             /\ c[i][1] \notin {"build", "value"}
  <2>1. c[i] = r[i - m] /\ j \in 1..i /\ i \in 1..(m + n)
    BY <1>1, <1>3, <1>8
  <2>2. r[i - m] = <<"read", q>> \/ r[i - m][1] = "send"
    BY <1>1, <1>8 DEF Reading
  <2>3. Quiet(c, j + 1, i)
    BY <1>1, <1>4, <2>1 DEF Quiet
  <2>4. CASE r[i - m] = <<"read", q>>
    <3>1. c[j] = <<"exec", c[i][2]>> /\ c[i][1] = "read"
      BY <1>5, <2>1, <2>4
    <3> QED
      BY <2>1, <2>3, <3>1 DEF Fetched
  <2>5. CASE r[i - m][1] = "send"
    BY <2>1, <2>5
  <2> QED
    BY <2>2, <2>4, <2>5
<1>9. Well(c)
  BY <1>1, <1>7, <1>8 DEF Well
<1> QED
  BY <1>6, <1>9 DEF c

\* A statement, from its start to its clear.
LEMMA StatementWell ==
  ASSUME NEW q \in Queries
  PROVE  /\ Statement(q) \in Seq(Call) /\ Well(Statement(q)) /\ Swept(Statement(q))
<1> DEFINE s == Statement(q)
<1>1. s \in Seq(Call)
  BY DEF Statement, Call, Calls
<1>2. /\ DOMAIN s = 1..5
      /\ s[1] = <<"start", q>> /\ s[2] = <<"value", q>> /\ s[3] = <<"build", q>>
      /\ s[4] = <<"exec", q>> /\ s[5] = <<"clear", q>>
  BY DEF Statement
<1> HIDE DEF s
<1>3. \A i \in DOMAIN s : i = 1 \/ i = 2 \/ i = 3 \/ i = 4 \/ i = 5
  BY <1>2
<1>4. Well(s)
  BY <1>2, <1>3 DEF Well
<1>5. Swept(s)
  BY <1>2, <1>3 DEF Swept
<1> QED
  BY <1>1, <1>4, <1>5 DEF s

\* What a query fetches is read once.
LEMMA AskWell ==
  ASSUME NEW s \in Seq(Call), NEW q, Len(s) = 2, s[1] = <<"exec", q>>, s[2] = <<"read", q>>
  PROVE  Well(s)
<1>1. DOMAIN s = 1..2
  BY LenProperties
<1>2. Quiet(s, 1 + 1, 2)
  BY DEF Quiet
<1>3. Fetched(s, 2)
  BY <1>2 DEF Fetched
<1> QED
  BY <1>1, <1>3 DEF Well

LEMMA ClearingWell ==
  ASSUME NEW s \in Seq(Call), \A i \in DOMAIN s : s[i][1] \in {"clear", "send"}
  PROVE  Well(s) /\ Swept(s)
BY DEF Well, Swept

\* What a query fetches is read once, perhaps sent, and cleared.
LEMMA LookWell ==
  ASSUME NEW s \in Seq(Call), NEW q, Len(s) \in 3..4, s[1] = <<"exec", q>>, s[2] = <<"read", q>>,
         \A i \in 3..Len(s) : s[i][1] \in {"clear", "send"},
         \E i \in 3..Len(s) : s[i][1] = "clear"
  PROVE  Well(s) /\ Swept(s) /\ HasClear(s)
<1>1. DOMAIN s = 1..Len(s)
  BY LenProperties
<1>2. Quiet(s, 1 + 1, 2)
  BY DEF Quiet
<1>3. Fetched(s, 2)
  BY <1>2 DEF Fetched
<1>4. \A i \in DOMAIN s : i = 1 \/ i = 2 \/ i \in 3..Len(s)
  BY <1>1
<1>5. Well(s)
  BY <1>3, <1>4 DEF Well
<1>6. Swept(s) /\ HasClear(s)
  BY <1>1, <1>4 DEF Swept, HasClear
<1> QED
  BY <1>5, <1>6

LEMMA LoginsWell ==
  ASSUME NEW job \in Logins
  PROVE  job \in Seq(Call) /\ Well(job) /\ Swept(job)
<1> DEFINE first == SubSeq(Asked, 1, 2)
           leave == << <<"clear", "user">> >>
<1>1. /\ Asked \in Seq(Call) /\ Len(Asked) = 4
      /\ Asked[1] = <<"exec", "user">> /\ Asked[2] = <<"read", "user">>
      /\ Asked[3] = <<"exec", "auth">> /\ Asked[4] = <<"read", "auth">>
  BY DEF Asked, Call, Calls, Queries
<1>2. first \in Seq(Call) /\ Len(first) = 2 /\ first[1] = Asked[1] /\ first[2] = Asked[2]
  <2>1. \A i \in 1..2 : Asked[i] \in Call
    BY <1>1 DEF Call, Calls, Queries
  <2>2. /\ first \in Seq(Call) /\ Len(first) = IF 1 <= 2 THEN 2 - 1 + 1 ELSE 0
        /\ \A i \in 1..2 - 1 + 1 : first[i] = Asked[1 + i - 1]
    BY <2>1, SubSeqProperties
  <2> QED
    BY <2>2
<1>3. Well(first)
  BY <1>1, <1>2, AskWell
<1>4. Well(Asked)
  <2>1. DOMAIN Asked = 1..4
    BY <1>1, LenProperties
  <2>2. Quiet(Asked, 1 + 1, 2) /\ Quiet(Asked, 3 + 1, 4)
    BY <1>1 DEF Quiet
  <2>3. Fetched(Asked, 2) /\ Fetched(Asked, 4)
    BY <1>1, <2>2 DEF Fetched
  <2> QED
    BY <1>1, <2>1, <2>3 DEF Well
<1>5. leave \in Seq(Call) /\ Well(leave) /\ Swept(leave) /\ HasClear(leave)
  <2>1. leave \in Seq(Call) /\ DOMAIN leave = 1..1 /\ leave[1][1] = "clear"
    BY DEF Call, Calls, Queries
  <2> HIDE DEF leave
  <2> QED
    BY <2>1, ClearingWell DEF HasClear
<1>6. Clears \in Seq(Call) /\ Well(Clears) /\ Swept(Clears) /\ HasClear(Clears)
  <2>1. /\ Clears \in Seq(Call) /\ DOMAIN Clears = 1..2
        /\ Clears[1][1] = "clear" /\ Clears[2][1] = "clear"
    BY DEF Clears, Call, Calls, Queries
  <2>2. \A i \in DOMAIN Clears : Clears[i][1] \in {"clear", "send"}
    BY <2>1
  <2> QED
    BY <2>1, <2>2, ClearingWell DEF HasClear
<1>7. Log \in Seq(Call) /\ Well(Log) /\ Statement("touch") \in Seq(Call) /\ Well(Statement("touch"))
  BY StatementWell DEF Log, Queries
<1> HIDE DEF first, leave
<1>8. CASE job = first \o leave
  <2>1. first \o leave \in Seq(Call)
    BY <1>2, <1>5, Joined
  <2> QED
    BY <1>2, <1>3, <1>5, <1>8, <2>1, JoinWell, JoinSwept
<1>9. CASE job = Asked \o Clears
  <2>1. Asked \o Clears \in Seq(Call)
    BY <1>1, <1>6, Joined
  <2> QED
    BY <1>1, <1>4, <1>6, <1>9, <2>1, JoinWell, JoinSwept
<1>10. CASE job = Asked \o Log \o Clears
  <2>1. Asked \o Log \in Seq(Call) /\ Well(Asked \o Log)
    BY <1>1, <1>4, <1>7, Joined, JoinWell
  <2>2. (Asked \o Log) \o Clears \in Seq(Call)
    BY <1>6, <2>1, Joined
  <2> QED
    BY <1>6, <1>10, <2>1, <2>2, JoinWell, JoinSwept
<1>11. CASE job = Asked \o Statement("touch") \o Log \o Clears
  <2>1. Asked \o Statement("touch") \in Seq(Call) /\ Well(Asked \o Statement("touch"))
    BY <1>1, <1>4, <1>7, Joined, JoinWell
  <2>2. /\ (Asked \o Statement("touch")) \o Log \in Seq(Call)
        /\ Well((Asked \o Statement("touch")) \o Log)
    BY <1>7, <2>1, Joined, JoinWell
  <2>3. ((Asked \o Statement("touch")) \o Log) \o Clears \in Seq(Call)
    BY <1>6, <2>2, Joined
  <2> QED
    BY <1>6, <1>11, <2>2, <2>3, JoinWell, JoinSwept
<1> QED
  BY <1>8, <1>9, <1>10, <1>11 DEF Logins, first, leave

\* Induction over the natural numbers, for a set of them.
LEMMA SetInduction ==
  ASSUME NEW S \in SUBSET Nat, 0 \in S, \A n \in S : n + 1 \in S
  PROVE  S = Nat
<1> SUFFICES ASSUME Nat \ S # {}
             PROVE  FALSE
  OBVIOUS
<1> DEFINE R == {ss \in Nat \X Nat : ss[1] < ss[2]}
<1>1. IsWellFoundedOn(R, Nat)
  BY NatLessThanWellFounded, Zenon DEF OpToRel
<1>2. PICK m \in Nat \ S : \A n \in Nat \ S : <<n, m>> \notin R
  <2>1. Nat \ S \subseteq Nat
    OBVIOUS
  <2> HIDE DEF R
  <2> QED
    BY <1>1, <2>1, WFMin, Zenon
<1>3. m # 0 /\ m - 1 \in Nat
  OBVIOUS
<1>4. <<m - 1, m>> \in R
  BY <1>3
<1>5. m - 1 \in S
  BY <1>2, <1>3, <1>4
<1>6. (m - 1) + 1 \in S
  BY <1>5, Zenon
<1> QED
  BY <1>2, <1>6

\* Offered is what its definition says: there is such a function.
LEMMA OfferedIs ==
  /\ Offered[0] = {Names}
  /\ \A n \in 1..MaxMaps : Offered[n] = OneMore(Offered[n - 1])
<1> DEFINE Fits(f, n) == /\ f = [k \in 0..n |-> f[k]]
                         /\ f[0] = {Names}
                         /\ \A k \in 1..n : f[k] = OneMore(f[k - 1])
           S == {n \in Nat : \E f : Fits(f, n)}
<1>1. 0 \in S
  <2>1. Fits([k \in 0..0 |-> {Names}], 0)
    OBVIOUS
  <2> QED
    BY <2>1, Zenon
<1>2. ASSUME NEW n \in S
      PROVE  n + 1 \in S
  <2>0. n \in Nat
    OBVIOUS
  <2>1. PICK f : Fits(f, n)
    OBVIOUS
  <2> DEFINE g == [k \in 0..n + 1 |-> IF k <= n THEN f[k] ELSE OneMore(f[n])]
  <2>2. f[0] = {Names} /\ \A k \in 1..n : f[k] = OneMore(f[k - 1])
    BY <2>1
  <2>3. \A k \in 0..n : g[k] = f[k]
    BY <2>0
  <2>4. g[n + 1] = OneMore(f[n])
    BY <2>0
  <2>5. g = [k \in 0..n + 1 |-> g[k]]
    OBVIOUS
  <2> HIDE DEF g
  <2>6. ASSUME NEW k \in 1..n + 1
        PROVE  g[k] = OneMore(g[k - 1])
    <3>1. CASE k \in 1..n
      <4>1. k \in 0..n /\ k - 1 \in 0..n
        BY <2>0, <3>1
      <4> QED
        BY <2>2, <2>3, <3>1, <4>1
    <3>2. CASE k = n + 1
      <4>1. k - 1 = n /\ n \in 0..n
        BY <2>0, <3>2
      <4> QED
        BY <2>3, <2>4, <3>2, <4>1
    <3> QED
      BY <2>0, <3>1, <3>2
  <2>7. Fits(g, n + 1)
    <3>1. 0 \in 0..n
      BY <2>0
    <3> QED
      BY <2>2, <2>3, <2>5, <2>6, <3>1
  <2> HIDE DEF Fits
  <2> QED
    BY <2>0, <2>7
<1>3. S = Nat
  <2>1. S \in SUBSET Nat
    OBVIOUS
  <2> HIDE DEF S
  <2> QED
    BY <1>1, <1>2, <2>1, SetInduction
<1>4. PICK f : Fits(f, MaxMaps)
  BY <1>3, DatabaseAssumption
<1>5. f = [n \in 0..MaxMaps |-> IF n = 0 THEN {Names} ELSE OneMore(f[n - 1])]
  <2>1. f = [n \in 0..MaxMaps |-> f[n]]
    BY <1>4
  <2>2. \A n \in 0..MaxMaps : f[n] = IF n = 0 THEN {Names} ELSE OneMore(f[n - 1])
    <3>1. f[0] = {Names} /\ \A n \in 1..MaxMaps : f[n] = OneMore(f[n - 1])
      BY <1>4
    <3>2. \A n \in 0..MaxMaps : n = 0 \/ (n \in 1..MaxMaps /\ n # 0)
      BY DatabaseAssumption
    <3> QED
      BY <3>1, <3>2
  <2> QED
    BY <2>1, <2>2
<1>6. Offered = [n \in 0..MaxMaps |-> IF n = 0 THEN {Names} ELSE OneMore(Offered[n - 1])]
  BY <1>5, Zenon DEF Offered
<1>7. \A n \in 0..MaxMaps : Offered[n] = IF n = 0 THEN {Names} ELSE OneMore(Offered[n - 1])
  BY <1>6, Zenon
<1>8. 0 \in 0..MaxMaps /\ \A n \in 1..MaxMaps : n \in 0..MaxMaps /\ n # 0
  BY DatabaseAssumption
<1> QED
  BY <1>7, <1>8

\* One map of the updater's job.
LEMMA MapWell ==
  ASSUME NEW map \in Map
  PROVE  map \in Seq(Call) /\ Well(map) /\ Swept(map)
<1> DEFINE name == << <<"send", "names">> >>
           old == << <<"exec", "map">>, <<"read", "map">>, <<"clear", "map">> >>
           new == << <<"exec", "map">>, <<"read", "map">>, <<"send", "map">>, <<"clear", "map">> >>
<1>1. name \in Seq(Call) /\ Well(name) /\ Swept(name)
  <2>1. name \in Seq(Call) /\ DOMAIN name = 1..1 /\ name[1][1] = "send"
    BY DEF Call, Calls, Queries
  <2> HIDE DEF name
  <2> QED
    BY <2>1, ClearingWell
<1>2. old \in Seq(Call) /\ Well(old) /\ Swept(old)
  <2>1. /\ old \in Seq(Call) /\ Len(old) = 3
        /\ old[1] = <<"exec", "map">> /\ old[2] = <<"read", "map">> /\ old[3] = <<"clear", "map">>
    BY DEF Call, Calls, Queries
  <2> HIDE DEF old
  <2>2. Len(old) \in 3..4 /\ 3..Len(old) = {3}
    BY <2>1
  <2>3. /\ \A i \in 3..Len(old) : old[i][1] \in {"clear", "send"}
        /\ \E i \in 3..Len(old) : old[i][1] = "clear"
    BY <2>1, <2>2
  <2> QED
    BY <2>1, <2>2, <2>3, LookWell
<1>3. new \in Seq(Call) /\ Well(new) /\ Swept(new)
  <2>1. /\ new \in Seq(Call) /\ Len(new) = 4
        /\ new[1] = <<"exec", "map">> /\ new[2] = <<"read", "map">>
        /\ new[3] = <<"send", "map">> /\ new[4] = <<"clear", "map">>
    BY DEF Call, Calls, Queries
  <2> HIDE DEF new
  <2>2. /\ \A i \in 3..4 : new[i][1] \in {"clear", "send"}
        /\ \E i \in 3..4 : new[i][1] = "clear"
    BY <2>1
  <2> QED
    BY <2>1, <2>2, LookWell
<1>4. map = name \o old \/ map = name \o new
  BY DEF Map
<1> HIDE DEF name, old, new
<1> QED
  BY <1>1, <1>2, <1>3, <1>4, Joined, JoinWell, JoinSwept

LEMMA MapsWell ==
  ASSUME NEW job \in Maps
  PROVE  job \in Seq(Call) /\ Well(job) /\ Swept(job)
<1> DEFINE Good(s) == s \in Seq(Call) /\ Well(s) /\ Swept(s)
           end == << <<"send", "names">> >>
           S == {n \in Nat : n <= MaxMaps => \A s \in Offered[n] : Good(s)}
<1>1. Good(Names)
  <2>1. /\ Names \in Seq(Call) /\ Len(Names) = 3
        /\ Names[1] = <<"exec", "names">> /\ Names[2] = <<"read", "names">>
        /\ Names[3] = <<"clear", "names">>
    BY DEF Names, Call, Calls, Queries
  <2>2. Len(Names) \in 3..4 /\ 3..Len(Names) = {3}
    BY <2>1
  <2>3. /\ \A i \in 3..Len(Names) : Names[i][1] \in {"clear", "send"}
        /\ \E i \in 3..Len(Names) : Names[i][1] = "clear"
    BY <2>1, <2>2
  <2> QED
    BY <2>1, <2>2, <2>3, LookWell
<1>2. Good(end)
  <2>1. end \in Seq(Call) /\ DOMAIN end = 1..1 /\ end[1][1] = "send"
    BY DEF Call, Calls, Queries
  <2> HIDE DEF end
  <2> QED
    BY <2>1, ClearingWell
<1>3. ASSUME NEW s, NEW r, Good(s), Good(r)
      PROVE  Good(s \o r)
  BY <1>3, Joined, JoinWell, JoinSwept
<1>4. \A map \in Map : Good(map)
  BY MapWell
<1> HIDE DEF Good, end
<1>5. 0 \in S
  BY <1>1, OfferedIs
<1>6. ASSUME NEW n \in S
      PROVE  n + 1 \in S
  <2> SUFFICES ASSUME n + 1 <= MaxMaps, NEW s \in Offered[n + 1]
               PROVE  Good(s)
    OBVIOUS
  <2>1. n \in Nat /\ n + 1 \in 1..MaxMaps /\ (n + 1) - 1 = n /\ n <= MaxMaps
    BY DatabaseAssumption
  <2>2. Offered[n + 1] = OneMore(Offered[n])
    <3>1. Offered[n + 1] = OneMore(Offered[(n + 1) - 1])
      BY <2>1, OfferedIs, Zenon
    <3> QED
      BY <2>1, <3>1
  <2>3. PICK r \in Offered[n], map \in Map : s = r \o map
    BY <2>2 DEF OneMore
  <2>4. Good(r)
    BY <1>6, <2>1, <2>3
  <2> QED
    BY <1>3, <1>4, <2>3, <2>4
<1>7. S = Nat
  <2>1. S \in SUBSET Nat
    OBVIOUS
  <2> HIDE DEF S
  <2> QED
    BY <1>5, <1>6, <2>1, SetInduction
<1>8. PICK n \in 0..MaxMaps : \E s \in Offered[n] : job = s \o end
  BY DEF Maps, end
<1>9. n \in S /\ n <= MaxMaps
  <2> HIDE DEF S
  <2> QED
    BY <1>7, DatabaseAssumption
<1>10. PICK s \in Offered[n] : job = s \o end
  BY <1>8
<1>11. Good(s)
  BY <1>9, <1>10
<1>12. Good(job)
  BY <1>2, <1>3, <1>10, <1>11
<1> QED
  BY <1>12 DEF Good

LEMMA TypesWell ==
  ASSUME NEW job \in Types
  PROVE  job \in Seq(Call) /\ Well(job) /\ Swept(job)
<1> DEFINE none == << <<"send", "types">> >>
           ask == << <<"exec", "types">> >>
           end == << <<"clear", "types">>, <<"send", "types">> >>
<1>1. Newer \in Seq(Call) /\ Well(Newer) /\ Swept(Newer)
  <2>1. /\ Newer \in Seq(Call) /\ Len(Newer) = 3
        /\ Newer[1] = <<"exec", "newer">> /\ Newer[2] = <<"read", "newer">>
        /\ Newer[3] = <<"clear", "newer">>
    BY DEF Newer, Call, Calls, Queries
  <2>2. Len(Newer) \in 3..4 /\ 3..Len(Newer) = {3}
    BY <2>1
  <2>3. /\ \A i \in 3..Len(Newer) : Newer[i][1] \in {"clear", "send"}
        /\ \E i \in 3..Len(Newer) : Newer[i][1] = "clear"
    BY <2>1, <2>2
  <2> QED
    BY <2>1, <2>2, <2>3, LookWell
<1>2. none \in Seq(Call) /\ Well(none) /\ Swept(none)
  <2>1. none \in Seq(Call) /\ DOMAIN none = 1..1 /\ none[1][1] = "send"
    BY DEF Call, Calls, Queries
  <2> HIDE DEF none
  <2> QED
    BY <2>1, ClearingWell
<1>3. end \in Seq(Call) /\ Well(end) /\ Swept(end) /\ HasClear(end)
  <2>1. /\ end \in Seq(Call) /\ DOMAIN end = 1..2
        /\ end[1][1] = "clear" /\ end[2][1] = "send"
    BY DEF Call, Calls, Queries
  <2> HIDE DEF end
  <2>2. \A i \in DOMAIN end : end[i][1] \in {"clear", "send"}
    BY <2>1
  <2> QED
    BY <2>1, <2>2, ClearingWell DEF HasClear
<1>4. ask \in Seq(Call) /\ Len(ask) = 1 /\ DOMAIN ask = 1..1 /\ ask[1] = <<"exec", "types">>
  BY DEF Call, Calls, Queries
<1>5. ASSUME NEW n \in Nat
      PROVE  Rows(n) \in Seq(Call) /\ Reading(Rows(n), "types")
  <2>1. DOMAIN Rows(n) = 1..2 * n /\ 2 * n \in Nat
    BY DEF Rows
  <2>2. \A i \in 1..2 * n : Rows(n)[i] = <<"read", "types">> \/ Rows(n)[i] = <<"send", "types">>
    BY DEF Rows
  <2>3. \A i \in 1..2 * n : Rows(n)[i] \in Call
    BY <2>2 DEF Call, Calls, Queries
  <2>4. Rows(n) = [i \in 1..2 * n |-> Rows(n)[i]]
    BY DEF Rows
  <2>5. Rows(n) \in Seq(Call)
    <3> DEFINE t == Rows(n)
               m == 2 * n
    <3>1. m \in Nat /\ t = [i \in 1..m |-> t[i]] /\ \A i \in 1..m : t[i] \in Call
      BY <2>1, <2>3, <2>4
    <3> HIDE DEF t, m
    <3>2. t \in Seq(Call)
      BY <3>1, SeqDef
    <3> QED
      BY <3>2 DEF t
  <2> QED
    BY <2>1, <2>2, <2>5 DEF Reading
<1> HIDE DEF none, ask, end
<1>6. Well(ask)
  BY <1>4 DEF Well
<1>7. CASE job = Newer \o none
  <2>1. Newer \o none \in Seq(Call)
    BY <1>1, <1>2, Joined
  <2> QED
    BY <1>1, <1>2, <1>7, <2>1, JoinWell, JoinSwept
<1>8. ASSUME NEW n \in 0..MaxRows, job = Newer \o ask \o Rows(n) \o end
      PROVE  job \in Seq(Call) /\ Well(job) /\ Swept(job)
  <2> DEFINE a == Newer \o ask
             b == a \o Rows(n)
  <2>1. a \in Seq(Call) /\ Well(a)
    BY <1>1, <1>4, <1>6, Joined, JoinWell
  <2>2. Open(a, "types")
    <3>1. /\ Len(Newer) \in Nat /\ a[Len(Newer) + 1] = ask[1]
          /\ Len(a) = Len(Newer) + 1 /\ DOMAIN a = 1..(Len(Newer) + 1)
      <4>1. /\ Len(Newer) \in Nat /\ \A i \in 1..Len(ask) : a[Len(Newer) + i] = ask[i]
            /\ Len(a) = Len(Newer) + Len(ask) /\ DOMAIN a = 1..(Len(Newer) + Len(ask))
        BY <1>1, <1>4, Joined
      <4> HIDE DEF a
      <4> QED
        BY <1>4, <4>1
    <3> HIDE DEF a
    <3>2. Quiet(a, (Len(Newer) + 1) + 1, Len(a))
      BY <3>1 DEF Quiet
    <3> QED
      BY <1>4, <3>1, <3>2 DEF Open
  <2> HIDE DEF a
  <2>3. n \in Nat
    BY DatabaseAssumption
  <2>4. b \in Seq(Call) /\ Well(b) /\ Open(b, "types")
    BY <1>5, <2>1, <2>2, <2>3, Joined, JoinReading
  <2> HIDE DEF b
  <2>5. b \o end \in Seq(Call) /\ Well(b \o end) /\ Swept(b \o end)
    BY <1>3, <2>4, Joined, JoinWell, JoinSwept
  <2> QED
    BY <1>8, <2>5 DEF a, b
<1> QED
  BY <1>7, <1>8 DEF Types, none, ask, end

LEMMA JobsWell ==
  ASSUME NEW t \in Threads, NEW job \in Jobs(t)
  PROVE  job \in Seq(Call) /\ Well(job) /\ Swept(job)
<1>1. Log \in Seq(Call) /\ Well(Log) /\ Swept(Log)
  BY StatementWell DEF Log, Queries
<1>2. job \in {Log} \cup Logins \cup Maps \cup Types
  BY DEF Jobs, Threads
<1> QED
  BY <1>1, <1>2, LoginsWell, MapsWell, TypesWell

-----------------------------------------------------------------------------
(* The inductive invariant *)

Shape == /\ todo \in [Threads -> Seq(Call)]
         /\ slot \in [by : Threads, of : Queries, freed : BOOLEAN]
                  \cup {None, Foreign, [Foreign EXCEPT !.freed = TRUE]}
         /\ running \in [Threads -> {"no", "alone", "shared"}]
         /\ clearing \subseteq Threads
         /\ table \in Threads \cup {"none"}
         /\ values \in Seq(Threads)
         /\ met \subseteq Threads
         /\ cut \in BOOLEAN

\* What a thread has to do is the rest of a job.
JobsInv == \A t \in Threads : Rest(todo[t]) /\ Swept(todo[t])

\* Nobody has two values in the statement, and who is about to put one in has none.
ValuesInv == /\ \A i, j \in DOMAIN values : values[i] = values[j] => i = j
             /\ \A t \in Threads : Calling(t, "value") => \A i \in DOMAIN values : values[i] # t

TypeInv == Shape /\ JobsInv /\ ValuesInv

\* A job that has met no other is the only one.
AloneInv == \A t, u \in Threads : t \notin met /\ Busy(t) /\ Busy(u) => u = t

\* PQexec overlaps with another one only in jobs that met.
RunInv == \A t \in Threads : /\ running[t] # "no" => Calling(t, "exec")
                             /\ running[t] = "shared" => t \in met

\* The result that a job alone will read next is the one in the slot.
SlotInv == \A t \in Threads : t \notin met =>
               \A i \in DOMAIN todo[t] : todo[t][i][1] = "read" /\ Quiet(todo[t], 1, i) =>
                   slot = [by |-> t, of |-> todo[t][i][2], freed |-> FALSE]

\* The statement that a job alone is putting together is its own.
StatementInv == \A t \in Threads : t \notin met =>
                    /\ Calling(t, "value") => table = t /\ values = <<>>
                    /\ Calling(t, "build") => table = t /\ values = <<t>>

\* A result is in the slot: somebody has still to clear it, or it was left there.
SweptInv == slot # None /\ ~cut => \E t \in Threads : HasClear(todo[t])

IInv == TypeInv /\ AloneInv /\ RunInv /\ SlotInv /\ StatementInv /\ SweptInv

-----------------------------------------------------------------------------
(* Types and what is left to do *)

LEMMA Begun ==
  ASSUME Shape, JobsInv, NEW t \in Threads, Begin(t)
  PROVE  /\ todo' \in [Threads -> Seq(Call)] /\ JobsInv'
         /\ ~Busy(t) /\ Well(todo'[t])
         /\ \A u \in Threads \ {t} : todo'[u] = todo[u]
<1>1. PICK job \in Jobs(t) : todo' = [todo EXCEPT ![t] = job]
  BY DEF Begin
<1>2. job \in Seq(Call) /\ Well(job) /\ Swept(job)
  BY JobsWell
<1>3. todo \in [Threads -> Seq(Call)]
  BY DEF Shape
<1>4. todo' \in [Threads -> Seq(Call)] /\ todo'[t] = job /\ \A u \in Threads \ {t} : todo'[u] = todo[u]
  BY <1>1, <1>2, <1>3
<1>5. Rest(job)
  BY <1>2 DEF Well, Rest
<1>6. ASSUME NEW u \in Threads
      PROVE  Rest(todo'[u]) /\ Swept(todo'[u])
  <2>1. CASE u = t
    BY <1>2, <1>4, <1>5, <2>1
  <2>2. CASE u # t
    BY <1>4, <2>2 DEF JobsInv
  <2> QED
    BY <2>1, <2>2
<1>7. ~Busy(t)
  BY DEF Begin
<1> QED
  BY <1>2, <1>4, <1>6, <1>7 DEF JobsInv

\* t's call is done.
LEMMA Past ==
  ASSUME Shape, JobsInv, NEW t \in Threads, Busy(t), Done(t)
  PROVE  /\ todo' \in [Threads -> Seq(Call)] /\ JobsInv'
         /\ todo'[t] = Tail(todo[t]) /\ todo[t] \in Seq(Call) /\ todo[t] # <<>> /\ Rest(todo[t])
         /\ \A u \in Threads \ {t} : todo'[u] = todo[u]
<1>1. todo \in [Threads -> Seq(Call)] /\ todo[t] \in Seq(Call) /\ todo[t] # <<>>
  BY DEF Shape, Busy
<1>2. Tail(todo[t]) \in Seq(Call)
  BY <1>1, TailIs
<1>3. /\ todo' \in [Threads -> Seq(Call)] /\ todo'[t] = Tail(todo[t])
      /\ \A u \in Threads \ {t} : todo'[u] = todo[u]
  BY <1>1, <1>2 DEF Done
<1>4. Rest(todo[t]) /\ Swept(todo[t])
  BY DEF JobsInv
<1>5. Rest(Tail(todo[t])) /\ Swept(Tail(todo[t]))
  BY <1>1, <1>4, RestTail, TailClears
<1>6. ASSUME NEW u \in Threads
      PROVE  Rest(todo'[u]) /\ Swept(todo'[u])
  <2>1. CASE u = t
    BY <1>3, <1>5, <2>1
  <2>2. CASE u # t
    BY <1>3, <2>2 DEF JobsInv
  <2> QED
    BY <2>1, <2>2
<1> QED
  BY <1>1, <1>3, <1>4, <1>6 DEF JobsInv

\* t's job breaks off.
LEMMA Broken ==
  ASSUME Shape, JobsInv, NEW t \in Threads, todo' = [todo EXCEPT ![t] = <<>>]
  PROVE  /\ todo' \in [Threads -> Seq(Call)] /\ JobsInv'
         /\ todo'[t] = <<>>
         /\ \A u \in Threads \ {t} : todo'[u] = todo[u]
<1>1. /\ todo' \in [Threads -> Seq(Call)] /\ todo'[t] = <<>>
      /\ \A u \in Threads \ {t} : todo'[u] = todo[u]
  BY DEF Shape
<1>2. Rest(<<>>) /\ Swept(<<>>)
  BY DEF Rest, Swept
<1>3. ASSUME NEW u \in Threads
      PROVE  Rest(todo'[u]) /\ Swept(todo'[u])
  <2>1. CASE u = t
    BY <1>1, <1>2, <2>1
  <2>2. CASE u # t
    BY <1>1, <2>2 DEF JobsInv
  <2> QED
    BY <2>1, <2>2
<1> QED
  BY <1>1, <1>3 DEF JobsInv

\* What t does but to begin: it makes its next call, or breaks off.
Makes(t) == \/ Exec(t) \/ Result(t) \/ Read(t) \/ Clear(t) \/ Emptied(t)
             \/ Start(t) \/ Value(t) \/ Build(t) \/ Send(t)

\* How a call of t changes what is left to do.
LEMMA Kinds ==
  ASSUME NEW t \in Threads, Makes(t)
  PROVE  /\ Busy(t) /\ UNCHANGED met
         /\ \/ Done(t)
            \/ UNCHANGED todo
            \/ Calling(t, "send") /\ todo' = [todo EXCEPT ![t] = <<>>]
BY DEF Makes, Exec, Result, Read, Clear, Emptied, Start, Value, Build, Send, Calling

LEMMA Steps ==
  ASSUME Next
  PROVE  \E t \in Threads : Begin(t) \/ Makes(t)
BY DEF Next, Makes

LEMMA JobsStay ==
  ASSUME Shape, JobsInv, [Next]_vars
  PROVE  todo' \in [Threads -> Seq(Call)] /\ JobsInv'
<1>1. CASE UNCHANGED vars
  BY <1>1 DEF vars, Shape, JobsInv
<1>2. ASSUME NEW t \in Threads, Begin(t) \/ Makes(t)
      PROVE  todo' \in [Threads -> Seq(Call)] /\ JobsInv'
  <2>1. CASE Begin(t)
    BY <2>1, Begun
  <2>2. CASE Makes(t)
    <3>1. Busy(t) /\ (Done(t) \/ UNCHANGED todo \/ todo' = [todo EXCEPT ![t] = <<>>])
      BY <2>2, Kinds
    <3>2. CASE Done(t)
      BY <3>1, <3>2, Past
    <3>3. CASE UNCHANGED todo
      BY <3>3 DEF Shape, JobsInv
    <3>4. CASE todo' = [todo EXCEPT ![t] = <<>>]
      BY <3>4, Broken
    <3> QED
      BY <3>1, <3>2, <3>3, <3>4
  <2> QED
    BY <1>2, <2>1, <2>2
<1> QED
  BY <1>1, <1>2, Steps

LEMMA ShapeStays ==
  ASSUME Shape, JobsInv, [Next]_vars
  PROVE  Shape'
<1>1. todo' \in [Threads -> Seq(Call)]
  BY JobsStay
<1>2. CASE UNCHANGED vars
  BY <1>2 DEF vars, Shape
<1>3. ASSUME NEW t \in Threads, Begin(t) \/ Makes(t)
      PROVE  Shape'
  <2>1. CASE Begin(t)
    BY <1>1, <2>1 DEF Begin, Shape
  <2>2. CASE Exec(t)
    BY <1>1, <2>2 DEF Exec, Shape
  <2>3. CASE Result(t)
    <3>1. Query(t) \in Queries
      <4>1. todo[t] \in Seq(Call) /\ todo[t] # <<>>
        BY <2>3 DEF Shape, Result, Calling, Busy
      <4>2. todo[t][1] \in Call
        BY <4>1, TailIs
      <4> QED
        BY <4>2 DEF Query, Call
    <3>2. slot' \in [by : Threads, of : Queries, freed : BOOLEAN] \cup {None, Foreign}
      <4>1. slot' \in {[by |-> t, of |-> Query(t), freed |-> FALSE], Foreign, None}
        BY <2>3, Zenon DEF Result
      <4>2. [by |-> t, of |-> Query(t), freed |-> FALSE] \in [by : Threads, of : Queries, freed : BOOLEAN]
        BY <3>1
      <4> QED
        BY <4>1, <4>2, Zenon
    <3> QED
      BY <1>1, <2>3, <3>2 DEF Result, Shape
  <2>4. CASE Read(t)
    BY <1>1, <2>4 DEF Read, Shape
  <2>5. CASE Clear(t)
    <3>1. slot' \in [by : Threads, of : Queries, freed : BOOLEAN]
                  \cup {None, Foreign, [Foreign EXCEPT !.freed = TRUE]}
      BY <2>5 DEF Clear, Shape, Foreign
    <3> QED
      BY <1>1, <2>5, <3>1 DEF Clear, Shape
  <2>6. CASE Emptied(t)
    BY <1>1, <2>6 DEF Emptied, Shape
  <2>7. CASE Start(t)
    <3>1. <<>> \in Seq(Threads)
      BY EmptySeq
    <3> QED
      BY <1>1, <2>7, <3>1 DEF Start, Shape
  <2>8. CASE Value(t)
    <3>1. values' \in Seq(Threads)
      BY <2>8, AppendProperties DEF Value, Shape
    <3> QED
      BY <1>1, <2>8, <3>1 DEF Value, Shape
  <2>9. CASE Build(t)
    BY <1>1, <2>9 DEF Build, Shape
  <2>10. CASE Send(t)
    BY <1>1, <2>10 DEF Send, Shape
  <2> QED
    BY <1>3, <2>1, <2>2, <2>3, <2>4, <2>5, <2>6, <2>7, <2>8, <2>9, <2>10 DEF Makes
<1> QED
  BY <1>2, <1>3, Steps

\* Whose next call is to put a value in has just begun the statement; whose next
\* call is to build it has just put the value in.
LEMMA Forms ==
  ASSUME Shape, JobsInv, NEW t \in Threads, Begin(t) \/ Makes(t)
  PROVE  /\ \A u \in Threads \ {t} : todo'[u] = todo[u]
         /\ Calling(t, "value")' => UNCHANGED todo \/ Start(t)
         /\ Calling(t, "build")' => UNCHANGED todo \/ Value(t)
<1>1. CASE Begin(t)
  <2>1. ~Calling(t, "value")' /\ ~Calling(t, "build")'
    <3>1. todo'[t] \in Seq(Call) /\ Well(todo'[t])
      BY <1>1, Begun
    <3>2. ASSUME todo'[t] # <<>>
          PROVE  todo'[t][1][1] \notin {"value", "build"}
      <4>1. 1 \in DOMAIN (todo'[t]) /\ ~(1 > 1)
        BY <3>1, <3>2, TailIs
      <4> QED
        BY <3>1, <4>1 DEF Well
    <3> QED
      BY <3>2 DEF Calling, Busy
  <2> QED
    BY <1>1, <2>1, Begun
<1>2. CASE UNCHANGED todo
  BY <1>2
<1>3. CASE todo' = [todo EXCEPT ![t] = <<>>]
  BY <1>3, Broken DEF Calling, Busy
<1>4. CASE Makes(t) /\ Done(t)
  <2>1. Busy(t)
    BY <1>4, Kinds
  <2>2. /\ todo'[t] = Tail(todo[t]) /\ todo[t] \in Seq(Call) /\ todo[t] # <<>> /\ Rest(todo[t])
        /\ \A u \in Threads \ {t} : todo'[u] = todo[u]
    BY <1>4, <2>1, Past
  <2>3. ASSUME todo'[t] # <<>>
        PROVE  /\ todo'[t][1][1] = "build" => todo[t][1][1] = "value"
               /\ todo'[t][1][1] = "value" => todo[t][1][1] = "start"
    BY <2>2, <2>3, TailForms
  <2>4. todo[t][1][1] = "value" => Value(t)
    BY <1>4 DEF Makes, Exec, Result, Read, Clear, Emptied, Start, Build, Send, Calling
  <2>5. todo[t][1][1] = "start" => Start(t)
    BY <1>4 DEF Makes, Exec, Result, Read, Clear, Emptied, Value, Build, Send, Calling
  <2> QED
    BY <2>2, <2>3, <2>4, <2>5 DEF Calling, Busy
<1> QED
  BY <1>1, <1>2, <1>3, <1>4, Kinds

LEMMA ValuesStay ==
  ASSUME TypeInv, [Next]_vars
  PROVE  ValuesInv'
<1> USE DEF TypeInv
<1>1. CASE UNCHANGED vars
  BY <1>1 DEF vars, ValuesInv, Calling, Busy
<1>2. ASSUME NEW t \in Threads, Begin(t) \/ Makes(t)
      PROVE  ValuesInv'
  <2>1. /\ \A u \in Threads \ {t} : todo'[u] = todo[u]
        /\ Calling(t, "value")' => UNCHANGED todo \/ Start(t)
    BY <1>2, Forms
  <2>2. CASE Start(t)
    <3>1. values' = <<>>
      BY <2>2 DEF Start
    <3>2. DOMAIN values' = {}
      BY <3>1
    <3> QED
      BY <3>2 DEF ValuesInv
  <2>3. CASE Value(t)
    <3>1. /\ values \in Seq(Threads) /\ Len(values) \in Nat /\ DOMAIN values = 1..Len(values)
      BY LenProperties DEF Shape
    <3>2. /\ values' \in Seq(Threads) /\ Len(values') = Len(values) + 1
          /\ \A i \in 1..Len(values) : values'[i] = values[i]
          /\ values'[Len(values) + 1] = t
      BY <2>3, <3>1, AppendProperties DEF Value
    <3>3. DOMAIN values' = 1..(Len(values) + 1)
      BY <3>2, LenProperties
    <3>4. \A i \in DOMAIN values : values[i] # t
      BY <2>3 DEF ValuesInv, Value
    <3>5. ASSUME NEW i \in DOMAIN values', NEW j \in DOMAIN values', values'[i] = values'[j]
          PROVE  i = j
      <4>1. \A k \in DOMAIN values' : k \in DOMAIN values \/ k = Len(values) + 1
        BY <3>1, <3>3
      <4> QED
        BY <3>1, <3>2, <3>4, <3>5, <4>1 DEF ValuesInv
    <3>6. ASSUME NEW u \in Threads, Calling(u, "value")', NEW i \in DOMAIN values'
          PROVE  values'[i] # u
      <4>1. u # t
        <5>1. ~UNCHANGED todo
          <6>1. Tail(todo[t]) # todo[t]
            <7>1. todo[t] \in Seq(Call) /\ todo[t] # <<>>
              BY <2>3 DEF Value, Calling, Busy, Shape
            <7> QED
              BY <7>1, TailOther
          <6> QED
            BY <2>3, <6>1, Past DEF Value, Calling
        <5>2. ~Start(t)
          BY <2>3 DEF Value, Start, Calling
        <5> QED
          BY <2>1, <3>6, <5>1, <5>2
      <4>2. Calling(u, "value")
        BY <2>1, <3>6, <4>1 DEF Calling, Busy
      <4>3. i \in DOMAIN values \/ i = Len(values) + 1
        BY <3>1, <3>3
      <4> QED
        BY <3>1, <3>2, <4>1, <4>2, <4>3 DEF ValuesInv
    <3> QED
      BY <3>5, <3>6 DEF ValuesInv
  <2>4. CASE ~Start(t) /\ ~Value(t)
    <3>1. UNCHANGED values
      BY <1>2, <2>4 DEF Begin, Makes, Exec, Result, Read, Clear, Emptied, Build, Send
    <3>2. ASSUME NEW u \in Threads, Calling(u, "value")'
          PROVE  Calling(u, "value")
      <4>1. CASE u = t
        BY <2>1, <2>4, <3>2, <4>1 DEF Calling, Busy
      <4>2. CASE u # t
        BY <2>1, <3>2, <4>2 DEF Calling, Busy
      <4> QED
        BY <4>1, <4>2
    <3> QED
      BY <3>1, <3>2 DEF ValuesInv
  <2> QED
    BY <2>2, <2>3, <2>4
<1> QED
  BY <1>1, <1>2, Steps

LEMMA TypeStays ==
  ASSUME TypeInv, [Next]_vars
  PROVE  TypeInv'
BY ShapeStays, JobsStay, ValuesStay DEF TypeInv

LEMMA TypeInit ==
  ASSUME Init
  PROVE  TypeInv
<1>1. <<>> \in Seq(Call) /\ <<>> \in Seq(Threads)
  BY EmptySeq
<1>2. Shape
  BY <1>1 DEF Init, Shape
<1>3. JobsInv
  BY DEF Init, JobsInv, Rest, Swept
<1>4. ValuesInv
  BY DEF Init, ValuesInv, Calling, Busy
<1> QED
  BY <1>2, <1>3, <1>4 DEF TypeInv

\* The values of a statement fit into its buffer.
LEMMA ValuesFit ==
  ASSUME TypeInv
  PROVE  Len(values) <= Cardinality(Threads)
<1>1. values \in Seq(Threads) /\ Len(values) \in Nat /\ values \in [1..Len(values) -> Threads]
  BY LenProperties DEF TypeInv, Shape
<1>2. IsFiniteSet(Threads)
  <2>1. IsFiniteSet({})
    BY FS_EmptySet
  <2>2. IsFiniteSet({"listener"})
    BY FS_Singleton
  <2>3. IsFiniteSet({"listener"} \cup {"watcher"})
    BY <2>2, FS_AddElement
  <2>4. IsFiniteSet(({"listener"} \cup {"watcher"}) \cup {"updater"})
    BY <2>3, FS_AddElement
  <2>5. Threads = ({"listener"} \cup {"watcher"}) \cup {"updater"}
    BY DEF Threads
  <2> QED
    BY <2>4, <2>5, Zenon
<1>3. values \in Injection(1..Len(values), Threads)
  BY <1>1 DEF TypeInv, ValuesInv, Injection, IsInjective
<1>4. Cardinality(1..Len(values)) <= Cardinality(Threads)
  BY <1>2, <1>3, FS_Injection
<1>5. Cardinality(1..Len(values)) = IF 1 > Len(values) THEN 0 ELSE Len(values) - 1 + 1
  BY <1>1, FS_Interval
<1>6. Cardinality(1..Len(values)) = Len(values)
  BY <1>1, <1>5
<1> QED
  BY <1>4, <1>6, Zenon

\* The variables of the three threads and of the slots keep their
\* types, and the buffer of a statement takes the values put into it.
THEOREM DatabaseTypeOK == Spec => []TypeOK
<1>1. Init => TypeInv
  BY TypeInit
<1>2. TypeInv /\ [Next]_vars => TypeInv'
  BY TypeStays
<1>3. TypeInv => TypeOK
  BY ValuesFit DEF TypeInv, Shape, TypeOK, Call
<1> QED
  BY <1>1, <1>2, <1>3, PTL DEF Spec

-----------------------------------------------------------------------------
(* Jobs that met and jobs alone *)

\* Who is busy was busy, or has just begun.
LEMMA BusyThen ==
  ASSUME Shape, JobsInv, NEW t \in Threads, Begin(t) \/ Makes(t), NEW u \in Threads, Busy(u)'
  PROVE  Busy(u) \/ (u = t /\ Begin(t))
<1>1. CASE u # t
  <2>1. todo'[u] = todo[u]
    BY <1>1, Forms
  <2> QED
    BY <2>1 DEF Busy
<1>2. CASE u = t /\ Makes(t)
  BY <1>2, Kinds
<1> QED
  BY <1>1, <1>2

LEMMA AloneStays ==
  ASSUME TypeInv, AloneInv, [Next]_vars
  PROVE  AloneInv'
<1> USE DEF TypeInv
<1>1. CASE UNCHANGED vars
  BY <1>1 DEF vars, AloneInv, Busy
<1>2. ASSUME NEW t \in Threads, Begin(t) \/ Makes(t)
      PROVE  AloneInv'
  <2> SUFFICES ASSUME NEW x \in Threads, NEW u \in Threads, x \notin met', Busy(x)', Busy(u)'
               PROVE  u = x
    BY DEF AloneInv
  <2>1. /\ Busy(x) \/ (x = t /\ Begin(t))
        /\ Busy(u) \/ (u = t /\ Begin(t))
    BY <1>2, BusyThen
  <2>2. CASE Begin(t)
    <3> DEFINE others == {v \in Threads \ {t} : Busy(v)}
    <3>1. /\ ~Busy(t)
          /\ met' = IF others = {} THEN met \ {t} ELSE met \cup others \cup {t}
      BY <2>2 DEF Begin
    <3>2. CASE others = {}
      BY <2>1, <3>2
    <3>3. CASE others # {}
      BY <2>1, <3>1, <3>3
    <3> QED
      BY <3>2, <3>3
  <2>3. CASE Makes(t) /\ ~Begin(t)
    <3>1. met' = met
      BY <2>3, Kinds
    <3> QED
      BY <2>1, <2>3, <3>1 DEF AloneInv
  <2> QED
    BY <1>2, <2>2, <2>3
<1> QED
  BY <1>1, <1>2, Steps

\* A call is made by a job that met others, or by the only one.
LEMMA Alone ==
  ASSUME AloneInv, NEW t \in Threads, Busy(t), NEW u \in Threads, u # t, Busy(u)
  PROVE  t \in met /\ u \in met
BY DEF AloneInv

\* A job that begins beside others makes them met; it is not the one of any other thread.
LEMMA BegunMet ==
  ASSUME NEW t \in Threads, Begin(t), NEW u \in Threads, u # t, u \notin met'
  PROVE  u \notin met /\ ~Busy(u)
BY DEF Begin

LEMMA RunStays ==
  ASSUME TypeInv, AloneInv, RunInv, [Next]_vars
  PROVE  RunInv'
<1> USE DEF TypeInv
<1>1. CASE UNCHANGED vars
  BY <1>1 DEF vars, RunInv, Calling, Busy
<1>2. ASSUME NEW t \in Threads, Begin(t) \/ Makes(t)
      PROVE  RunInv'
  <2>1. \A u \in Threads \ {t} : todo'[u] = todo[u]
    BY <1>2, Forms
  <2>2. running \in [Threads -> {"no", "alone", "shared"}]
    BY DEF Shape
  <2> SUFFICES ASSUME NEW u \in Threads
               PROVE  /\ running'[u] # "no" => Calling(u, "exec")'
                      /\ running'[u] = "shared" => u \in met'
    BY DEF RunInv
  <2>3. CASE Exec(t)
    <3> DEFINE there == {v \in Threads : running[v] # "no"}
    <3>1. /\ Calling(t, "exec") /\ running[t] = "no" /\ UNCHANGED <<todo, met>>
          /\ running' = IF there = {} THEN [running EXCEPT ![t] = "alone"]
                        ELSE [v \in Threads |-> IF v \in there \cup {t} THEN "shared" ELSE "no"]
      BY <2>3 DEF Exec
    <3>2. running'[u] # "no" => u = t \/ running[u] # "no"
      BY <2>2, <3>1
    <3>3. running'[u] # "no" => Calling(u, "exec")'
      BY <3>1, <3>2 DEF RunInv, Calling, Busy
    <3>4. ASSUME running'[u] = "shared"
          PROVE  u \in met
      <4>1. CASE there = {}
        BY <2>2, <3>1, <3>4, <4>1
      <4>2. CASE there # {}
        <5>1. PICK v \in Threads : running[v] # "no"
          BY <4>2
        <5>2. v # t /\ Busy(v) /\ Busy(t)
          BY <3>1, <5>1 DEF RunInv, Calling
        <5>3. t \in met
          BY <5>2, Alone
        <5>4. CASE u = t
          BY <5>3, <5>4
        <5>5. CASE u # t
          <6>1. Busy(u)
            BY <3>2, <3>4, <5>5 DEF RunInv, Calling
          <6> QED
            BY <5>2, <5>5, <6>1, Alone
        <5> QED
          BY <5>4, <5>5
      <4> QED
        BY <4>1, <4>2
    <3> QED
      BY <3>1, <3>3, <3>4
  <2>4. CASE Result(t)
    <3>1. /\ running' = [running EXCEPT ![t] = "no"] /\ UNCHANGED met
      BY <2>4 DEF Result
    <3> QED
      BY <2>1, <2>2, <3>1 DEF RunInv, Calling, Busy
  <2>5. CASE Begin(t)
    <3>1. UNCHANGED running /\ ~Busy(t)
      BY <2>5 DEF Begin
    <3>2. CASE u = t
      BY <3>1, <3>2 DEF RunInv, Calling
    <3>3. CASE u # t
      <4>1. u \in met => u \in met'
        BY <2>5, <3>3 DEF Begin
      <4> QED
        BY <2>1, <3>1, <3>3, <4>1 DEF RunInv, Calling, Busy
    <3> QED
      BY <3>2, <3>3
  <2>6. CASE Makes(t) /\ ~Exec(t) /\ ~Result(t)
    <3>1. UNCHANGED running /\ UNCHANGED met /\ ~(Calling(t, "exec") /\ ~UNCHANGED todo)
      BY <2>6 DEF Makes, Read, Clear, Emptied, Start, Value, Build, Send, Calling
    <3>2. CASE UNCHANGED todo
      BY <3>1, <3>2 DEF RunInv, Calling, Busy
    <3>3. CASE ~Calling(t, "exec")
      <4>1. CASE u = t
        BY <3>1, <3>3, <4>1 DEF RunInv
      <4>2. CASE u # t
        BY <2>1, <3>1, <4>2 DEF RunInv, Calling, Busy
      <4> QED
        BY <4>1, <4>2
    <3> QED
      BY <3>1, <3>2, <3>3
  <2> QED
    BY <1>2, <2>3, <2>4, <2>5, <2>6
<1> QED
  BY <1>1, <1>2, Steps

\* The answers of two queries are told apart by the exec that comes in between.
LEMMA SlotStays ==
  ASSUME TypeInv, AloneInv, RunInv, SlotInv, [Next]_vars
  PROVE  SlotInv'
<1> USE DEF TypeInv
<1>1. CASE UNCHANGED vars
  BY <1>1 DEF vars, SlotInv
<1>2. ASSUME NEW t \in Threads, Begin(t) \/ Makes(t)
      PROVE  SlotInv'
  <2>1. \A u \in Threads \ {t} : todo'[u] = todo[u]
    BY <1>2, Forms
  <2> SUFFICES ASSUME NEW u \in Threads, u \notin met',
                      NEW i \in DOMAIN todo'[u], todo'[u][i][1] = "read", Quiet(todo'[u], 1, i)
               PROVE  slot' = [by |-> u, of |-> todo'[u][i][2], freed |-> FALSE]
    BY DEF SlotInv, Quiet
  <2>2. CASE u # t
    <3>1. todo'[u] = todo[u]
      BY <2>1, <2>2
    <3>2. u \notin met /\ ~Busy(u)
      <4>1. CASE Begin(t)
        BY <2>2, <4>1, BegunMet
      <4>2. CASE Makes(t)
        BY <2>2, <4>2, Kinds, Alone
      <4> QED
        BY <1>2, <4>1, <4>2
    <3>3. todo'[u] # <<>>
      <4>1. DOMAIN <<>> = {}
        OBVIOUS
      <4> QED
        BY <4>1
    <3> QED
      BY <3>1, <3>2, <3>3 DEF Busy
  <2>3. CASE u = t /\ Begin(t)
    <3>1. Well(todo'[t]) /\ todo'[t] \in Seq(Call)
      BY <2>3, Begun
    <3>2. Fetched(todo'[u], i)
      BY <2>3, <3>1 DEF Well
    <3>3. PICK j \in 1..i : todo'[u][j] = <<"exec", todo'[u][i][2]>>
      BY <3>2 DEF Fetched
    <3> QED
      BY <3>3 DEF Quiet
  <2>4. CASE u = t /\ UNCHANGED todo /\ Makes(t)
    <3>1. UNCHANGED met
      BY <2>4, Kinds
    <3>2. /\ i \in DOMAIN todo[u] /\ todo[u][i][1] = "read" /\ Quiet(todo[u], 1, i) /\ u \notin met
          /\ todo'[u] = todo[u]
      BY <2>4, <3>1 DEF Quiet
    <3>3. slot = [by |-> u, of |-> todo[u][i][2], freed |-> FALSE]
      BY <3>2 DEF SlotInv
    <3>4. ~Clear(t)
      <4>1. SUFFICES ASSUME Clear(t)
                     PROVE  FALSE
        OBVIOUS
      <4>2. todo[u] \in Seq(Call)
        BY DEF Shape
      <4>3. DOMAIN todo[u] = 1..Len(todo[u])
        BY <4>2, LenProperties
      <4>4. 1 \in 1..i
        BY <3>2, <4>3
      <4> QED
        BY <2>4, <3>2, <4>1, <4>4 DEF Clear, Calling, Quiet
    <3>5. Exec(t) \/ (Makes(t) /\ ~Exec(t) /\ ~Clear(t))
      BY <2>4, <3>4
    <3>6. UNCHANGED slot
      <4>1. CASE Exec(t)
        BY <4>1 DEF Exec
      <4>2. CASE ~Exec(t) /\ ~Result(t) /\ ~Emptied(t)
        BY <2>4, <3>4, <4>2 DEF Makes, Read, Start, Value, Build, Send
      <4>3. CASE Result(t) \/ Emptied(t)
        <5>1. Done(t) /\ Busy(t)
          BY <4>3 DEF Result, Emptied, Calling
        <5>2. todo[t] \in Seq(Call) /\ todo[t] # <<>> /\ todo'[t] = Tail(todo[t])
          BY <5>1, Past
        <5> QED
          BY <2>4, <5>2, TailOther
      <4> QED
        BY <4>1, <4>2, <4>3
    <3> QED
      BY <3>2, <3>3, <3>6
  <2>5. CASE u = t /\ Makes(t) /\ Done(t)
    <3>1. Busy(t) /\ met' = met
      BY <2>5, Kinds
    <3>2. todo'[t] = Tail(todo[t]) /\ todo[t] \in Seq(Call) /\ todo[t] # <<>> /\ Rest(todo[t])
      BY <2>5, <3>1, Past
    <3> DEFINE s == todo[t]
    <3>3. /\ i \in DOMAIN Tail(s) /\ Tail(s)[i][1] = "read" /\ Quiet(Tail(s), 1, i)
      BY <2>5, <3>2
    <3>4. /\ s[1][1] = "exec" => s[1][2] = Tail(s)[i][2]
          /\ s[1][1] # "clear"
          /\ s[1][1] # "exec" => i + 1 \in DOMAIN s /\ s[i + 1] = Tail(s)[i] /\ Quiet(s, 1, i + 1)
      BY <3>2, <3>3, TailReads
    <3>5. CASE Result(t)
      <4>1. s[1][1] = "exec"
        BY <3>5 DEF Result, Calling
      <4>2. Query(t) = todo'[u][i][2]
        BY <2>5, <3>2, <3>4, <4>1 DEF Query
      <4>3. running[t] # "shared"
        BY <2>5, <3>1 DEF RunInv
      <4>4. slot' = [by |-> t, of |-> Query(t), freed |-> FALSE]
        BY <3>5, <4>3 DEF Result
      <4> QED
        BY <2>5, <4>2, <4>4
    <3>6. CASE ~Result(t)
      <4>1. s[1][1] # "exec" /\ s[1][1] # "clear" /\ UNCHANGED slot
        <5>1. ~Exec(t) /\ ~Clear(t)
          <6>1. SUFFICES ASSUME Exec(t) \/ Clear(t)
                         PROVE  FALSE
            OBVIOUS
          <6>2. todo' = todo
            BY <6>1 DEF Exec, Clear
          <6> QED
            BY <3>2, <6>2, TailOther
        <5>2. ~Emptied(t)
          BY <3>4 DEF Emptied, Calling
        <5> QED
          BY <2>5, <3>4, <3>6, <5>1, <5>2 DEF Makes, Read, Start, Value, Build, Send, Calling
      <4>2. i + 1 \in DOMAIN s /\ s[i + 1] = Tail(s)[i] /\ Quiet(s, 1, i + 1) /\ t \notin met
        BY <2>5, <3>1, <3>4, <4>1
      <4>3. slot = [by |-> t, of |-> s[i + 1][2], freed |-> FALSE]
        BY <3>3, <4>2 DEF SlotInv
      <4> QED
        BY <2>5, <3>2, <4>1, <4>2, <4>3
    <3> QED
      BY <3>5, <3>6
  <2>6. CASE u = t /\ todo' = [todo EXCEPT ![t] = <<>>]
    <3>1. todo'[u] = <<>>
      BY <2>6, Broken
    <3>2. DOMAIN <<>> = {}
      OBVIOUS
    <3> QED
      BY <3>1, <3>2
  <2> QED
    BY <1>2, <2>2, <2>3, <2>4, <2>5, <2>6, Kinds
<1> QED
  BY <1>1, <1>2, Steps

LEMMA StatementStays ==
  ASSUME TypeInv, AloneInv, StatementInv, [Next]_vars
  PROVE  StatementInv'
<1> USE DEF TypeInv
<1>1. CASE UNCHANGED vars
  BY <1>1 DEF vars, StatementInv, Calling, Busy
<1>2. ASSUME NEW t \in Threads, Begin(t) \/ Makes(t)
      PROVE  StatementInv'
  <2>1. /\ \A u \in Threads \ {t} : todo'[u] = todo[u]
        /\ Calling(t, "value")' => UNCHANGED todo \/ Start(t)
        /\ Calling(t, "build")' => UNCHANGED todo \/ Value(t)
    BY <1>2, Forms
  <2> SUFFICES ASSUME NEW u \in Threads, u \notin met'
               PROVE  /\ Calling(u, "value")' => table' = u /\ values' = <<>>
                      /\ Calling(u, "build")' => table' = u /\ values' = <<u>>
    BY DEF StatementInv, Calling, Busy
  <2>2. CASE u # t
    <3>1. todo'[u] = todo[u]
      BY <2>1, <2>2
    <3>2. ~Busy(u)
      <4>1. CASE Begin(t)
        BY <2>2, <4>1, BegunMet
      <4>2. CASE Makes(t)
        BY <2>2, <4>2, Kinds, Alone
      <4> QED
        BY <1>2, <4>1, <4>2
    <3> QED
      BY <3>1, <3>2 DEF Calling, Busy
  <2>3. CASE u = t /\ Start(t)
    <3>1. table' = t /\ values' = <<>>
      BY <2>3 DEF Start
    <3>2. ~Calling(t, "build")'
      <4>1. todo' # todo
        BY <2>3, Past, TailOther DEF Start, Calling
      <4>2. ~Value(t)
        BY <2>3 DEF Start, Value, Calling
      <4> QED
        BY <2>1, <4>1, <4>2
    <3> QED
      BY <2>3, <3>1, <3>2
  <2>4. CASE u = t /\ Value(t)
    <3>1. table = t /\ values = <<>>
      BY <2>4 DEF Value, StatementInv
    <3>2. table' = t /\ values' = <<t>>
      BY <2>4, <3>1 DEF Value
    <3>3. ~Calling(t, "value")'
      <4>1. todo' # todo
        BY <2>4, Past, TailOther DEF Value, Calling
      <4>2. ~Start(t)
        BY <2>4 DEF Start, Value, Calling
      <4> QED
        BY <2>1, <4>1, <4>2
    <3> QED
      BY <2>4, <3>2, <3>3
  <2>5. CASE u = t /\ ~Start(t) /\ ~Value(t)
    <3>1. UNCHANGED <<table, values>>
      BY <1>2, <2>5 DEF Begin, Makes, Exec, Result, Read, Clear, Emptied, Build, Send
    <3>2. ASSUME Calling(t, "value")' \/ Calling(t, "build")'
          PROVE  UNCHANGED todo
      BY <2>1, <2>5, <3>2
    <3>3. ASSUME UNCHANGED todo, Calling(t, "value")' \/ Calling(t, "build")'
          PROVE  UNCHANGED met
      <4>1. ~Begin(t)
        BY <3>3 DEF Begin, Calling, Busy
      <4> QED
        BY <1>2, <4>1, Kinds
    <3> QED
      BY <2>5, <3>1, <3>2, <3>3 DEF StatementInv, Calling, Busy
  <2> QED
    BY <2>2, <2>3, <2>4, <2>5
<1> QED
  BY <1>1, <1>2, Steps

\* Who puts a result into the slot has still to clear it, and only a clear or a
\* broken job keeps him from it.
LEMMA SweptStays ==
  ASSUME TypeInv, SweptInv, [Next]_vars
  PROVE  SweptInv'
<1> USE DEF TypeInv
<1>1. CASE UNCHANGED vars
  BY <1>1 DEF vars, SweptInv, HasClear
<1>2. ASSUME NEW t \in Threads, Begin(t) \/ Makes(t)
      PROVE  SweptInv'
  <2>1. \A u \in Threads \ {t} : todo'[u] = todo[u]
    BY <1>2, Forms
  <2> SUFFICES ASSUME slot' # None, ~cut'
               PROVE  \E u \in Threads : HasClear(todo'[u])
    BY DEF SweptInv, HasClear
  <2>2. ASSUME slot # None, ~cut, ~HasClear(todo[t])
        PROVE  \E u \in Threads : HasClear(todo'[u])
    <3>1. PICK u \in Threads : HasClear(todo[u])
      BY <2>2 DEF SweptInv
    <3>2. u # t
      BY <2>2, <3>1
    <3>3. todo'[u] = todo[u]
      BY <2>1, <3>2
    <3> QED
      BY <3>1, <3>3
  <2>3. CASE Begin(t)
    <3>1. UNCHANGED <<slot, cut>> /\ todo[t] = <<>>
      BY <2>3 DEF Begin, Busy
    <3>2. ~HasClear(todo[t])
      BY <3>1 DEF HasClear
    <3> QED
      BY <2>2, <3>1, <3>2
  <2>4. CASE Exec(t) \/ Clear(t)
    <3>1. UNCHANGED <<todo, cut>> /\ slot # None
      BY <2>4 DEF Exec, Clear
    <3>2. ~cut
      BY <3>1
    <3> QED
      BY <3>1, <3>2 DEF SweptInv
  <2>5. CASE Result(t)
    <3>1. /\ todo[t] \in Seq(Call) /\ todo[t] # <<>> /\ todo'[t] = Tail(todo[t])
      BY <2>5, Past DEF Result, Calling
    <3>2. todo[t][1][1] = "exec" /\ Swept(todo[t])
      BY <2>5 DEF Result, Calling, JobsInv
    <3> QED
      BY <3>1, <3>2, TailClears
  <2>6. CASE Emptied(t)
    BY <2>6 DEF Emptied
  <2>7. CASE Read(t) \/ Start(t) \/ Value(t) \/ Build(t) \/ (Send(t) /\ Done(t) /\ UNCHANGED cut)
    <3>1. UNCHANGED <<slot, cut>> /\ Busy(t) /\ Done(t) /\ todo[t][1][1] # "clear"
      BY <2>7 DEF Read, Start, Value, Build, Send, Calling
    <3>2. /\ todo[t] \in Seq(Call) /\ todo[t] # <<>> /\ todo'[t] = Tail(todo[t])
      BY <3>1, Past
    <3>3. CASE HasClear(todo[t])
      BY <3>1, <3>2, <3>3, TailClears
    <3>4. CASE ~HasClear(todo[t])
      BY <2>2, <3>1, <3>4
    <3> QED
      BY <3>3, <3>4
  <2>8. CASE Send(t) /\ cut' = (cut \/ slot # None)
    <3>1. UNCHANGED slot
      BY <2>8 DEF Send
    <3> QED
      BY <2>8, <3>1
  <2> QED
    BY <1>2, <2>3, <2>4, <2>5, <2>6, <2>7, <2>8 DEF Makes, Send
<1> QED
  BY <1>1, <1>2, Steps

-----------------------------------------------------------------------------
(* The theorems *)

LEMMA Inductive == Spec => []IInv
<1>1. Init => IInv
  <2> SUFFICES ASSUME Init PROVE IInv
    OBVIOUS
  <2>1. TypeInv
    BY TypeInit
  <2>2. \A t \in Threads : ~Busy(t) /\ running[t] = "no" /\ todo[t] = <<>>
    BY DEF Init, Busy
  <2>3. AloneInv /\ RunInv /\ StatementInv
    BY <2>2 DEF AloneInv, RunInv, StatementInv, Calling
  <2>4. SlotInv
    BY <2>2 DEF SlotInv
  <2>5. SweptInv
    BY DEF Init, SweptInv
  <2> QED
    BY <2>1, <2>3, <2>4, <2>5 DEF IInv
<1>2. IInv /\ [Next]_vars => IInv'
  BY TypeStays, AloneStays, RunStays, SlotStays, StatementStays, SweptStays DEF IInv
<1> QED
  BY <1>1, <1>2, PTL DEF Spec

\* Between jobs no result is left uncleared, in whatever order the three threads
\* made their calls, but for one whose job broke off.
THEOREM DatabaseSlotRests == Spec => []SlotRests
<1>1. IInv => SlotRests
  BY DEF IInv, SweptInv, SlotRests, Busy, HasClear
<1> QED
  BY <1>1, Inductive, PTL

\* A job that meets no other reads the answers to its own queries only, whatever
\* any number of earlier jobs have left in the slot.
THEOREM DatabaseReadsOwn == Spec => ReadsOwn
<1>1. IInv /\ [Next]_vars =>
        [\A t \in Threads : (Calling(t, "read") /\ todo'[t] # todo[t] /\ t \notin met) =>
             slot = [by |-> t, of |-> Query(t), freed |-> FALSE]]_vars
  <2> SUFFICES ASSUME IInv, NEW t \in Threads, Calling(t, "read"), t \notin met
               PROVE  slot = [by |-> t, of |-> Query(t), freed |-> FALSE]
    OBVIOUS
  <2>1. todo[t] \in Seq(Call) /\ todo[t] # <<>> /\ todo[t][1][1] = "read"
    BY DEF IInv, TypeInv, Shape, Calling, Busy
  <2>2. 1 \in DOMAIN todo[t]
    BY <2>1, TailIs
  <2>3. Quiet(todo[t], 1, 1)
    BY <2>1 DEF Quiet
  <2> QED
    BY <2>1, <2>2, <2>3 DEF IInv, SlotInv, Query
<1> QED
  BY <1>1, Inductive, PTL DEF Spec, ReadsOwn

\* Likewise the statement that such a job sends is its own: the table it named
\* and the one value it put in.
THEOREM DatabaseWritesOwn == Spec => WritesOwn
<1>1. IInv /\ [Next]_vars =>
        [\A t \in Threads : (Calling(t, "build") /\ todo'[t] # todo[t] /\ t \notin met) =>
             table = t /\ values = <<t>>]_vars
  BY DEF IInv, StatementInv
<1> QED
  BY <1>1, Inductive, PTL DEF Spec, WritesOwn
=============================================================================
