--------------------------- MODULE TransferProofs ---------------------------
(***************************************************************************)
(* engine.c's recvData and _sendData for every list of fields, every limit *)
(* of tries and every amount of bytes: typing, no byte out of place, and   *)
(* what a returned value tells the caller.                                 *)
(***************************************************************************)
EXTENDS Transfer, TLAPS, WellFoundedInduction

\* n bytes are still missing: need counts the latest recv or send in only when
\* the next one begins.
Left(n) == /\ get > 0 => n = need - get
           /\ get <= 0 => n = need

\* How far a call has come: the bytes taken since it began and the bytes that are
\* left make up the field, at every place of recvData, and likewise for the answer.
Progress == /\ taken <= arrived
            /\ Reading => size \in 1..MaxSize /\ tries <= MaxTries
            /\ pc = "recv" => need = size /\ taken = start
            /\ pc \in {"more", "nap"} => /\ get <= need /\ need <= size
                                         /\ Left(start + size - taken)
            /\ Sending => size = Answer
            /\ pc = "send" => need = Answer /\ get = 0 /\ wire = <<>>
            /\ pc = "resend" => /\ get \in 1..need /\ need <= Answer
                                /\ Left(Answer - Len(wire))

IInv == TypeOK /\ Progress /\ InOrder

-----------------------------------------------------------------------------
(* The two system calls *)

\* recv(sock, buf + o, n) takes what it returns and puts it at offset o; it
\* returns 0 for n > 0 only at the end of the stream, and -1 with errno other
\* than EAGAIN only when the connection is lost.
LEMMA RecvEffect ==
  ASSUME TypeOK, taken <= arrived, NEW o \in Nat, NEW n \in Nat, Recv(o, n)
  PROVE  /\ get' \in -1..n
         /\ (get' > 0 => taken' = taken + get') /\ (get' <= 0 => taken' = taken)
         /\ arrived' = arrived /\ taken' <= arrived'
         /\ again' \in BOOLEAN /\ peer' \in {"up", "closed", "reset"}
         /\ buf' = [p \in Offsets |-> IF o <= p /\ p < o + get' THEN taken + p - o + 1 ELSE buf[p]]
         /\ get' = 0 /\ peer' = "up" => n = 0
         /\ get' < 0 /\ peer' = "up" => again'
<1>0. Queued \in Nat /\ Queued = arrived - taken
  BY DEF TypeOK, Queued
<1>1. get' = RecvGets(n) /\ peer' = RecvPeer /\ again' = RecvAgain(n)
  BY DEF Recv
<1>2. RecvGets(n) \in -1..n /\ RecvGets(n) <= Queued
  BY <1>0 DEF RecvGets, TypeOK
<1>3. (get' > 0 => taken' = taken + get') /\ (get' <= 0 => taken' = taken) /\ arrived' = arrived
  BY <1>1, <1>2 DEF Recv, TypeOK
<1>4. taken' <= arrived'
  BY <1>0, <1>1, <1>2, <1>3 DEF TypeOK
<1>5. peer' \in {"up", "closed", "reset"}
  BY <1>1 DEF RecvPeer, TypeOK
<1>6. again' \in BOOLEAN
  BY <1>1 DEF RecvAgain, TypeOK
<1>7. buf' = [p \in Offsets |-> IF o <= p /\ p < o + get' THEN taken + p - o + 1 ELSE buf[p]]
  BY <1>1 DEF Recv, Copied
<1>8. get' = 0 /\ peer' = "up" => n = 0
  BY <1>0, <1>1 DEF RecvGets, RecvPeer
<1>9. get' < 0 /\ peer' = "up" => again'
  <2> SUFFICES ASSUME get' < 0, peer' = "up"
               PROVE  again'
    OBVIOUS
  <2>1. Queued = 0
    BY <1>0, <1>1 DEF RecvGets
  <2>2. peer = "up"
    BY <1>1, <2>1 DEF RecvPeer, TypeOK
  <2> QED
    BY <1>1, <2>1, <2>2 DEF RecvAgain
<1> QED
  BY <1>1, <1>2, <1>3, <1>4, <1>5, <1>6, <1>7, <1>8, <1>9

\* send(sock, buf + o, n) for the bytes from o on puts as many of them on the wire
\* as it returns, each in its place.
LEMMA SendEffect ==
  ASSUME TypeOK, InOrder, Len(wire) \in Nat, NEW n \in Nat, Send(Len(wire), n)
  PROVE  /\ get' \in -1..n
         /\ n > 0 => get' # 0
         /\ wire' \in Seq(Nat)
         /\ (get' > 0 => Len(wire') = Len(wire) + get') /\ (get' <= 0 => Len(wire') = Len(wire))
         /\ \A i \in DOMAIN wire' : wire'[i] = i - 1
<1>1. PICK g \in -1..n : /\ n > 0 => g # 0
                        /\ get' = g
                        /\ wire' = wire \o [i \in 1..(IF g > 0 THEN g ELSE 0) |-> Len(wire) + i - 1]
  BY DEF Send
<1> DEFINE k == IF g > 0 THEN g ELSE 0
           added == [i \in 1..k |-> Len(wire) + i - 1]
<1>2. k \in Nat /\ (g > 0 => k = g) /\ (g <= 0 => k = 0)
  OBVIOUS
<1>3. added \in Seq(Nat) /\ Len(added) = k
  BY <1>2
<1>4. wire \in Seq(Nat) /\ \A i \in DOMAIN wire : wire[i] = i - 1
  BY DEF TypeOK, InOrder
<1>5. wire' = wire \o added
  BY <1>1
<1> HIDE DEF k
<1>6. \A i \in 1..k : added[i] = Len(wire) + i - 1
  OBVIOUS
<1> HIDE DEF added
<1>7. Len(wire') = Len(wire) + k /\ wire' \in Seq(Nat)
  BY <1>2, <1>3, <1>4, <1>5
<1>8. ASSUME NEW i \in DOMAIN wire'
      PROVE  wire'[i] = i - 1
  BY <1>2, <1>3, <1>4, <1>5, <1>6, <1>7
<1>9. /\ g \in -1..n /\ (n > 0 => g # 0)
      /\ (g > 0 => Len(wire') = Len(wire) + g) /\ (g <= 0 => Len(wire') = Len(wire))
  <2>1. Len(wire) \in Nat /\ (n > 0 => g # 0)
    BY <1>1
  <2> QED
    BY <1>2, <1>7, <2>1
<1>10. get' = g
  BY <1>1
<1> QED
  BY <1>7, <1>8, <1>9, <1>10, Zenon

-----------------------------------------------------------------------------
(* The steps inside a call *)

\* When the buffer holds what was taken since start, and recv puts more behind it,
\* it holds what has been taken now.
LEMMA Placed ==
  ASSUME start \in Nat, taken \in Nat, taken' \in Nat, start <= taken, get' \in Int, get' >= -1,
         get' > 0 => taken' = taken + get', get' <= 0 => taken' = taken,
         buf \in [Offsets -> Nat],
         \A o \in Offsets : buf[o] = IF o < taken - start THEN start + o + 1 ELSE 0,
         buf' = [p \in Offsets |-> IF taken - start <= p /\ p < taken - start + get'
                                  THEN taken + p - (taken - start) + 1 ELSE buf[p]]
  PROVE  /\ buf' \in [Offsets -> Nat]
         /\ \A o \in Offsets : buf'[o] = IF o < taken' - start THEN start + o + 1 ELSE 0
<1> DEFINE g == get'
           u == taken'
           c == buf'
<1>1. /\ g \in Int /\ g >= -1 /\ u \in Nat
      /\ (g > 0 => u = taken + g) /\ (g <= 0 => u = taken)
      /\ c = [p \in Offsets |-> IF taken - start <= p /\ p < taken - start + g
                              THEN taken + p - (taken - start) + 1 ELSE buf[p]]
  BY Zenon
<1> HIDE DEF g, u, c
<1>2. \A o \in Offsets : o \in Nat
  BY TransferAssumption DEF Offsets
<1>3. ASSUME NEW o \in Offsets
      PROVE  c[o] \in Nat /\ c[o] = IF o < u - start THEN start + o + 1 ELSE 0
  <2>1. c[o] = IF taken - start <= o /\ o < taken - start + g THEN taken + o - (taken - start) + 1 ELSE buf[o]
    BY <1>1, Zenon
  <2>2. g \in Int /\ g >= -1 /\ u \in Nat /\ (g > 0 => u = taken + g) /\ (g <= 0 => u = taken)
    BY <1>1
  <2>3. o \in Nat
    BY <1>2
  <2>4. buf[o] = IF o < taken - start THEN start + o + 1 ELSE 0
    OBVIOUS
  <2> QED
    BY <2>1, <2>2, <2>3, <2>4
<1>4. /\ c \in [Offsets -> Nat]
      /\ \A o \in Offsets : c[o] = IF o < u - start THEN start + o + 1 ELSE 0
  BY <1>1, <1>3
<1> QED
  BY <1>4, Zenon DEF g, u, c

\* A return leaves the fields it sets in their types, and no field when the list
\* of them is at its end.
LEMMA ReturnsTypes ==
  ASSUME TypeOK, NEW r \in Int, Returns(r)
  PROVE  pc' = "idle" /\ result' = r /\ failed' \in BOOLEAN /\ field' \in 0..Len(Fields)
<1>1. Len(Fields) \in Nat
  BY TransferAssumption
<1>2. failed' \in BOOLEAN
  BY DEF Returns, TypeOK
<1> QED
  BY <1>1, <1>2 DEF Returns, TypeOK

\* What the first recv leaves behind, whether recvData returns or goes on.
LEMMA FirstEffect ==
  ASSUME IInv, First
  PROVE  /\ /\ arrived \in Nat /\ taken \in Nat /\ tries \in Nat
            /\ MaxSize \in Nat /\ MaxTries \in Nat
            /\ need \in Nat \ {0} /\ size \in 1..MaxSize /\ need = size
            /\ start \in Nat /\ taken = start /\ taken <= arrived /\ tries <= MaxTries
         /\ /\ get' \in -1..need
            /\ (get' > 0 => taken' = taken + get') /\ (get' <= 0 => taken' = taken)
            /\ arrived' = arrived /\ taken' <= arrived'
         /\ again' \in BOOLEAN /\ peer' \in {"up", "closed", "reset"}
         /\ (get' = 0 => peer' # "up") /\ (get' < 0 /\ peer' = "up" => again')
         /\ /\ buf' \in [Offsets -> Nat]
            /\ \A o \in Offsets : buf'[o] = IF o < taken' - start THEN start + o + 1 ELSE 0
<1>1. /\ pc = "recv" /\ Recv(0, need)
      /\ UNCHANGED <<size, need, tries, wire, start>>
  BY DEF First
<1>2. /\ arrived \in Nat /\ taken \in Nat /\ tries \in Nat
      /\ MaxSize \in Nat /\ MaxTries \in Nat
      /\ need \in Nat \ {0} /\ size \in 1..MaxSize /\ need = size
      /\ start \in Nat /\ taken = start /\ taken <= arrived /\ tries <= MaxTries
  BY <1>1, TransferAssumption DEF IInv, Progress, Reading, TypeOK
<1>3. /\ /\ get' \in -1..need
         /\ (get' > 0 => taken' = taken + get') /\ (get' <= 0 => taken' = taken)
         /\ arrived' = arrived /\ taken' <= arrived'
      /\ again' \in BOOLEAN /\ peer' \in {"up", "closed", "reset"}
      /\ (get' = 0 => peer' # "up") /\ (get' < 0 /\ peer' = "up" => again')
      /\ buf' = [p \in Offsets |-> IF 0 <= p /\ p < 0 + get' THEN taken + p - 0 + 1 ELSE buf[p]]
  <2>1. TypeOK
    BY DEF IInv
  <2> QED
    BY <1>1, <1>2, <2>1, RecvEffect
<1>4. /\ get' \in -1..need
       /\ (get' > 0 => taken' = taken + get') /\ (get' <= 0 => taken' = taken)
       /\ arrived' = arrived /\ taken' <= arrived'
  BY <1>3
<1>5. /\ buf \in [Offsets -> Nat]
      /\ \A o \in Offsets : buf[o] = IF o < taken - start THEN start + o + 1 ELSE 0
  BY <1>1 DEF IInv, TypeOK, InOrder, Reading
<1>6. /\ buf' \in [Offsets -> Nat]
      /\ \A o \in Offsets : buf'[o] = IF o < taken' - start THEN start + o + 1 ELSE 0
  <2>1. /\ taken - start = 0 /\ start <= taken /\ taken \in Nat
        /\ get' \in Int /\ get' >= -1
    BY <1>2, <1>4
  <2>2. buf' = [p \in Offsets |-> IF taken - start <= p /\ p < taken - start + get'
                                 THEN taken + p - (taken - start) + 1 ELSE buf[p]]
    BY <1>3, <2>1
  <2>3. start \in Nat /\ taken' \in Nat
    BY <1>2, <1>4
  <2> QED
    BY <1>5, <1>4, <2>1, <2>2, <2>3, Placed
<1> QED
  BY <1>2, <1>3, <1>4, <1>6, Zenon

LEMMA FirstStep ==
  ASSUME IInv, First
  PROVE  IInv'
<1>1. /\ pc = "recv"
      /\ UNCHANGED <<size, need, tries, wire, start>>
  BY DEF First
<1>2. /\ arrived \in Nat /\ taken \in Nat /\ tries \in Nat
      /\ MaxSize \in Nat /\ MaxTries \in Nat
      /\ need \in Nat \ {0} /\ size \in 1..MaxSize /\ need = size
      /\ start \in Nat /\ taken = start /\ taken <= arrived /\ tries <= MaxTries
  BY FirstEffect, Zenon
<1>3. again' \in BOOLEAN /\ peer' \in {"up", "closed", "reset"}
  BY FirstEffect, Zenon
<1>4. /\ get' \in -1..need
      /\ (get' > 0 => taken' = taken + get') /\ (get' <= 0 => taken' = taken)
      /\ arrived' = arrived /\ taken' <= arrived'
  BY FirstEffect, Zenon
<1>5. /\ buf' \in [Offsets -> Nat]
      /\ \A o \in Offsets : buf'[o] = IF o < taken' - start THEN start + o + 1 ELSE 0
  BY FirstEffect, Zenon
<1>6. arrived' \in Nat /\ taken' \in Nat /\ get' \in Int /\ need' \in Nat
  BY <1>1, <1>2, <1>4 DEF IInv, TypeOK
<1>7. /\ /\ pc' \in {"idle", "more"}
         /\ pc' = "more" => get' # 0 /\ get' < need
      /\ result' \in Int /\ failed' \in BOOLEAN /\ field' \in 0..Len(Fields)
  <2>1. TypeOK
    BY DEF IInv
  <2>2. CASE \E r \in {0, -1, get'} : Returns(r)
    <3>1. PICK r \in {0, -1, get'} : Returns(r)
      BY <2>2
    <3>2. r \in Int
      BY <1>4
    <3> QED
      BY <2>1, <3>1, <3>2, ReturnsTypes
  <2>3. CASE GoesOn("more") /\ get' # 0 /\ get' < need
    BY <2>1, <2>3 DEF GoesOn, TypeOK
  <2> QED
    BY <2>2, <2>3 DEF First
<1>8. TypeOK'
  <2>1. TypeOK
    BY DEF IInv
  <2> QED
    BY <1>1, <1>3, <1>5, <1>6, <1>7, <2>1 DEF TypeOK
<1>9. Progress'
  BY <1>1, <1>2, <1>4, <1>7 DEF Progress, Reading, Sending, Left
<1>10. InOrder'
  <2>1. start' <= taken' /\ taken' <= start' + size'
    BY <1>1, <1>2, <1>4
  <2>2. InOrder /\ UNCHANGED <<wire, start>>
    BY <1>1 DEF IInv
  <2> QED
    BY <1>5, <2>1, <2>2 DEF InOrder
<1> QED
  BY <1>8, <1>9, <1>10 DEF IInv

\* What a later recv leaves behind.
LEMMA MoreEffect ==
  ASSUME IInv, More
  PROVE  /\ /\ arrived \in Nat /\ taken \in Nat /\ tries \in Nat
            /\ MaxSize \in Nat /\ MaxTries \in Nat
            /\ need' \in Nat /\ size \in 1..MaxSize /\ size - need' \in Nat /\ need' <= size
            /\ start \in Nat /\ taken = start + size - need' /\ taken <= arrived /\ tries <= MaxTries
         /\ /\ get' \in -1..need'
            /\ (get' > 0 => taken' = taken + get') /\ (get' <= 0 => taken' = taken)
            /\ arrived' = arrived /\ taken' <= arrived'
         /\ again' \in BOOLEAN /\ peer' \in {"up", "closed", "reset"}
         /\ (get' = 0 /\ peer' = "up" => need' = 0) /\ (get' < 0 /\ peer' = "up" => again')
         /\ /\ buf' \in [Offsets -> Nat]
            /\ \A o \in Offsets : buf'[o] = IF o < taken' - start THEN start + o + 1 ELSE 0
<1>1. /\ pc = "more" /\ need' = (IF get > 0 THEN need - get ELSE need)
      /\ Recv(size - need', need')
      /\ UNCHANGED <<size, tries, wire, start>>
  BY DEF More
<1>2. /\ arrived \in Nat /\ taken \in Nat /\ tries \in Nat
      /\ MaxSize \in Nat /\ MaxTries \in Nat
      /\ need' \in Nat /\ size \in 1..MaxSize /\ size - need' \in Nat /\ need' <= size
      /\ start \in Nat /\ taken = start + size - need' /\ taken <= arrived /\ tries <= MaxTries
  BY <1>1, TransferAssumption DEF IInv, Progress, Reading, TypeOK, Left
<1>3. /\ /\ get' \in -1..need'
         /\ (get' > 0 => taken' = taken + get') /\ (get' <= 0 => taken' = taken)
         /\ arrived' = arrived /\ taken' <= arrived'
      /\ again' \in BOOLEAN /\ peer' \in {"up", "closed", "reset"}
      /\ (get' = 0 /\ peer' = "up" => need' = 0) /\ (get' < 0 /\ peer' = "up" => again')
      /\ buf' = [p \in Offsets |-> IF size - need' <= p /\ p < size - need' + get'
                                   THEN taken + p - (size - need') + 1 ELSE buf[p]]
  <2>1. TypeOK
    BY DEF IInv
  <2> QED
    BY <1>1, <1>2, <2>1, RecvEffect
<1>4. /\ get' \in -1..need'
       /\ (get' > 0 => taken' = taken + get') /\ (get' <= 0 => taken' = taken)
       /\ arrived' = arrived /\ taken' <= arrived'
  BY <1>3
<1>5. /\ buf \in [Offsets -> Nat]
      /\ \A o \in Offsets : buf[o] = IF o < taken - start THEN start + o + 1 ELSE 0
  BY <1>1 DEF IInv, TypeOK, InOrder, Reading
<1>6. /\ buf' \in [Offsets -> Nat]
      /\ \A o \in Offsets : buf'[o] = IF o < taken' - start THEN start + o + 1 ELSE 0
  <2>1. /\ taken - start = size - need' /\ start <= taken /\ taken \in Nat
        /\ get' \in Int /\ get' >= -1
    <3>1. get' \in Int /\ get' >= -1
      BY <1>2, <1>4
    <3>2. taken - start = size - need' /\ start <= taken /\ taken \in Nat
      <4> DEFINE n == need'
      <4>1. /\ taken \in Nat /\ start \in Nat /\ size \in 1..MaxSize /\ MaxSize \in Nat
            /\ n \in Nat /\ n <= size /\ taken = start + size - n
        BY <1>2, Zenon
      <4> HIDE DEF n
      <4>2. taken - start = size - n /\ start <= taken /\ taken \in Nat
        BY <4>1
      <4> QED
        BY <4>2, Zenon DEF n
    <3> QED
      BY <3>1, <3>2
  <2>2. buf' = [p \in Offsets |-> IF taken - start <= p /\ p < taken - start + get'
                                 THEN taken + p - (taken - start) + 1 ELSE buf[p]]
    BY <1>3, <2>1
  <2>3. start \in Nat /\ taken' \in Nat
    BY <1>2, <1>4
  <2> QED
    BY <1>5, <1>4, <2>1, <2>2, <2>3, Placed
<1> QED
  BY <1>2, <1>3, <1>4, <1>6, Zenon

LEMMA MoreStep ==
  ASSUME IInv, More
  PROVE  IInv'
<1>1. /\ pc = "more"
      /\ UNCHANGED <<size, tries, wire, start>>
  BY DEF More
<1>2. /\ arrived \in Nat /\ taken \in Nat /\ tries \in Nat
      /\ MaxSize \in Nat /\ MaxTries \in Nat
      /\ need' \in Nat /\ size \in 1..MaxSize /\ size - need' \in Nat /\ need' <= size
      /\ start \in Nat /\ taken = start + size - need' /\ taken <= arrived /\ tries <= MaxTries
  BY MoreEffect, Zenon
<1>3. again' \in BOOLEAN /\ peer' \in {"up", "closed", "reset"}
  BY MoreEffect, Zenon
<1>4. /\ get' \in -1..need'
      /\ (get' > 0 => taken' = taken + get') /\ (get' <= 0 => taken' = taken)
      /\ arrived' = arrived /\ taken' <= arrived'
  BY MoreEffect, Zenon
<1>5. /\ buf' \in [Offsets -> Nat]
      /\ \A o \in Offsets : buf'[o] = IF o < taken' - start THEN start + o + 1 ELSE 0
  BY MoreEffect, Zenon
<1>6. arrived' \in Nat /\ taken' \in Nat /\ get' \in Int /\ need' \in Nat
  <2>1. arrived' \in Nat /\ need' \in Nat /\ taken \in Nat
    BY <1>2, <1>4, Zenon
  <2>2. get' \in Int
    BY <1>4, <2>1
  <2>3. taken' \in Nat
    BY <1>4, <2>1, <2>2
  <2> QED
    BY <2>1, <2>2, <2>3
<1>7. /\ pc' \in {"idle", "nap"} /\ result' \in Int
      /\ failed' \in BOOLEAN /\ field' \in 0..Len(Fields)
  <2>1. TypeOK
    BY DEF IInv
  <2>2. CASE Returns(-1)
    BY <2>1, <2>2, ReturnsTypes
  <2>3. CASE GoesOn("nap")
    BY <2>1, <2>3 DEF GoesOn, TypeOK
  <2> QED
    BY <2>2, <2>3 DEF More
<1>8. TypeOK'
  <2>1. TypeOK
    BY DEF IInv
  <2> QED
    BY <1>1, <1>3, <1>5, <1>6, <1>7, <2>1 DEF TypeOK
<1>9. Progress'
  <2> DEFINE g == get'
             n == need'
             u == taken'
  <2>1. /\ g \in -1..n /\ (g > 0 => u = taken + g) /\ (g <= 0 => u = taken)
        /\ n \in Nat /\ n <= size /\ taken = start + size - n
        /\ taken \in Nat /\ start \in Nat /\ size \in 1..MaxSize /\ MaxSize \in Nat
    BY <1>2, <1>4, Zenon
  <2> HIDE DEF g, n, u
  <2>2. /\ g <= n /\ n <= size
        /\ (g > 0 => start + size - u = n - g) /\ (g <= 0 => start + size - u = n)
    BY <2>1
  <2>3. /\ get' <= need' /\ need' <= size'
        /\ (get' > 0 => start' + size' - taken' = need' - get')
        /\ (get' <= 0 => start' + size' - taken' = need')
    <3>1. size' = size /\ start' = start
      BY <1>1
    <3> QED
      BY <2>2, <3>1, Zenon DEF g, n, u
  <2>4. taken' <= arrived' /\ size' \in 1..MaxSize /\ tries' <= MaxTries
    BY <1>1, <1>2, <1>4
  <2>5. pc' \in {"idle", "nap"}
    BY <1>7
  <2> QED
    BY <2>3, <2>4, <2>5 DEF Progress, Reading, Sending, Left
<1>10. InOrder'
  <2>1. start' <= taken' /\ taken' <= start' + size'
    BY <1>1, <1>2, <1>4
  <2>2. InOrder /\ UNCHANGED <<wire, start>>
    BY <1>1 DEF IInv
  <2> QED
    BY <1>5, <2>1, <2>2 DEF InOrder
<1> QED
  BY <1>8, <1>9, <1>10 DEF IInv

LEMMA NapStep ==
  ASSUME IInv, Nap
  PROVE  IInv'
<1>1. /\ pc = "nap" /\ tries' = tries + 1
      /\ UNCHANGED <<arrived, taken, peer, size, need, get, again, buf, wire, start>>
  BY DEF Nap, stream
<1>2. /\ pc' \in {"idle", "more"} /\ result' \in Int
      /\ failed' \in BOOLEAN /\ field' \in 0..Len(Fields)
      /\ pc' = "more" => tries' <= MaxTries
  <2>1. TypeOK
    BY DEF IInv
  <2>2. CASE \E r \in {-1, size} : Returns(r)
    <3>1. PICK r \in {-1, size} : Returns(r)
      BY <2>2
    <3>2. r \in Int
      BY DEF IInv, TypeOK
    <3> QED
      BY <2>1, <3>1, <3>2, ReturnsTypes
  <2>3. CASE tries' <= MaxTries /\ GoesOn("more")
    BY <2>1, <2>3 DEF GoesOn, TypeOK
  <2> QED
    BY <2>2, <2>3 DEF Nap
<1>3. tries \in Nat /\ tries <= MaxTries
  BY <1>1 DEF IInv, TypeOK, Progress, Reading
<1>4. TypeOK'
  BY <1>1, <1>2, <1>3, TransferAssumption DEF IInv, TypeOK
<1>5. Progress'
  BY <1>1, <1>2 DEF IInv, Progress, Reading, Sending, Left
<1>6. InOrder'
  BY <1>1, <1>2 DEF IInv, InOrder, Reading
<1> QED
  BY <1>4, <1>5, <1>6 DEF IInv

LEMMA SendFirstStep ==
  ASSUME IInv, SendFirst
  PROVE  IInv'
<1>1. /\ pc = "send" /\ Send(0, need)
      /\ UNCHANGED <<arrived, taken, peer, field, size, need, tries, again, buf, start, failed>>
  BY DEF SendFirst, stream
<1>2. need = Answer /\ size = Answer /\ Len(wire) = 0 /\ Answer \in Nat
  BY <1>1, TransferAssumption DEF IInv, Progress, Sending
<1>3. /\ get' \in -1..Answer
      /\ wire' \in Seq(Nat)
      /\ (get' > 0 => Len(wire') = get') /\ (get' <= 0 => Len(wire') = 0)
      /\ \A i \in DOMAIN wire' : wire'[i] = i - 1
  <2>1. TypeOK /\ InOrder
    BY DEF IInv
  <2> QED
    BY <1>1, <1>2, <2>1, SendEffect
<1>4. /\ pc' \in {"idle", "resend"} /\ result' \in Int
      /\ pc' = "resend" => get' \in 1..Answer
  <2>1. CASE Sent(get')
    BY <1>3, <2>1 DEF Sent
  <2>2. CASE (get' > 0 /\ get' < need) /\ pc' = "resend" /\ UNCHANGED result
    BY <1>3, <2>2 DEF IInv, TypeOK
  <2> QED
    BY <2>1, <2>2 DEF SendFirst
<1>5. TypeOK'
  BY <1>1, <1>3, <1>4 DEF IInv, TypeOK
<1>6. Progress'
  BY <1>1, <1>2, <1>3, <1>4 DEF IInv, Progress, Reading, Sending, Left
<1>7. InOrder'
  BY <1>1, <1>2, <1>3, <1>4 DEF IInv, InOrder, Reading
<1> QED
  BY <1>5, <1>6, <1>7 DEF IInv

LEMMA ResendStep ==
  ASSUME IInv, Resend
  PROVE  IInv'
<1>1. /\ pc = "resend" /\ need' = need - get /\ Send(size - need', need')
      /\ UNCHANGED <<arrived, taken, peer, field, size, tries, again, buf, start, failed>>
  BY DEF Resend, stream
<1>2. /\ size = Answer /\ Answer \in Nat
      /\ need' \in Nat /\ need' <= Answer /\ size - need' = Len(wire) /\ Len(wire) \in Nat
  BY <1>1, TransferAssumption DEF IInv, TypeOK, Progress, Sending, Left
<1>3. /\ get' \in -1..need'
      /\ wire' \in Seq(Nat)
      /\ (get' > 0 => Len(wire') = Len(wire) + get') /\ (get' <= 0 => Len(wire') = Len(wire))
      /\ \A i \in DOMAIN wire' : wire'[i] = i - 1
  <2>1. TypeOK /\ InOrder
    BY DEF IInv
  <2> QED
    BY <1>1, <1>2, <2>1, SendEffect
<1>4. /\ pc' \in {"idle", "resend"} /\ result' \in Int
      /\ pc' = "resend" => get' > 0
  <2>1. CASE get' <= 0 /\ Sent(get')
    BY <1>3, <2>1 DEF Sent
  <2>2. CASE get' > 0 /\ UNCHANGED <<pc, result>>
    BY <1>1, <1>3, <2>2 DEF IInv, TypeOK
  <2> QED
    BY <2>1, <2>2 DEF Resend
<1>5. TypeOK'
  BY <1>1, <1>2, <1>3, <1>4 DEF IInv, TypeOK
<1>6. Progress'
  BY <1>1, <1>2, <1>3, <1>4 DEF IInv, Progress, Reading, Sending, Left
<1>7. InOrder'
  BY <1>1, <1>2, <1>3, <1>4 DEF IInv, InOrder, Reading
<1> QED
  BY <1>5, <1>6, <1>7 DEF IInv

-----------------------------------------------------------------------------
(* The induction *)

LEMMA Progressing ==
  ASSUME IInv, [Next]_vars
  PROVE  IInv'
<1> USE TransferAssumption DEF IInv, TypeOK, Progress, InOrder, Reading, Sending, Left
<1>1. CASE Arrive
  BY <1>1 DEF Arrive, call
<1>2. CASE Hangup
  BY <1>2 DEF Hangup, call
<1>3. CASE Reset
  BY <1>3 DEF Reset, call
<1>4. CASE Poll
  BY <1>4 DEF Poll, Queued, call
<1>5. CASE CallRecv
  <2>1. Fields[field] \in 1..MaxSize
    BY <1>5 DEF CallRecv
  <2>2. buf' = [o \in Offsets |-> 0]
    BY <1>5 DEF CallRecv, EmptyBuf
  <2>3. UNCHANGED <<arrived, taken, peer, field, wire, result, failed>>
    BY <1>5 DEF CallRecv, stream
  <2>4. TypeOK'
    BY <1>5, <2>1, <2>2, <2>3 DEF CallRecv
  <2>5. Progress'
    BY <1>5, <2>1, <2>3 DEF CallRecv
  <2>6. InOrder'
    <3>1. start' = taken /\ size' = Fields[field] /\ pc' = "recv"
      BY <1>5 DEF CallRecv
    <3>2. taken <= taken /\ taken <= taken + Fields[field] /\ taken - taken = 0
      BY <2>1
    <3>3. \A o \in Offsets : buf'[o] = IF o < taken - taken THEN taken + o + 1 ELSE 0
      BY <2>2, <3>2 DEF Offsets
    <3> QED
      BY <2>3, <3>1, <3>2, <3>3, Zenon DEF InOrder
  <2> QED
    BY <2>4, <2>5, <2>6
<1>6. CASE First
  BY <1>6, FirstStep
<1>7. CASE More
  BY <1>7, MoreStep
<1>8. CASE Nap
  BY <1>8, NapStep
<1>9. CASE CallSend
  BY <1>9 DEF CallSend, stream
<1>10. CASE SendFirst
  BY <1>10, SendFirstStep
<1>11. CASE Resend
  BY <1>11, ResendStep
<1>12. CASE UNCHANGED vars
  BY <1>12 DEF vars, stream, call
<1> QED
  BY <1>1, <1>2, <1>3, <1>4, <1>5, <1>6, <1>7, <1>8, <1>9, <1>10, <1>11, <1>12
  DEF Next, Peer, Step

LEMMA Progresses == Spec => []IInv
<1>1. Init => IInv
  <2> SUFFICES ASSUME Init
               PROVE  IInv
    OBVIOUS
  <2>1. buf \in [Offsets -> Nat] /\ wire \in Seq(Nat)
    BY DEF Init, EmptyBuf
  <2>2. TypeOK
    <3>1. field \in 0..Len(Fields) /\ tries \in 0..MaxTries + 1
      BY TransferAssumption DEF Init
    <3>2. again \in BOOLEAN /\ failed \in BOOLEAN
      BY DEF Init
    <3>3. /\ arrived \in Nat /\ taken \in Nat /\ size \in Nat /\ need \in Nat
          /\ get \in Int /\ result \in Int /\ start \in Nat
      BY DEF Init
    <3>4. peer = "up" /\ pc = "idle"
      BY DEF Init
    <3> QED
      BY <2>1, <3>1, <3>2, <3>3, <3>4 DEF TypeOK
  <2>3. Progress /\ InOrder
    BY TransferAssumption DEF Init, Progress, InOrder, Reading, Sending
  <2> QED
    BY <2>2, <2>3 DEF IInv
<1>2. IInv /\ [Next]_vars => IInv'
  BY Progressing
<1> QED
  BY <1>1, <1>2, PTL DEF Spec

-----------------------------------------------------------------------------
(* What the callers may rely on *)

\* The counters of a call keep their types: need never passes below zero, so the
\* last recv or send is never asked for a huge number of bytes (size_t).
THEOREM TransferTypeOK == Spec => []TypeOK
BY Progresses, PTL DEF IInv

\* Whatever pieces a message comes in and however a call ends, recvData puts each
\* byte where it belongs and takes none of the next field, and _sendData sends no
\* byte twice or out of place.
THEOREM TransferInOrder == Spec => []InOrder
BY Progresses, PTL DEF IInv

\* What the return of a call stands for.
Whole == /\ Reading /\ result' > 0 => /\ result' = size /\ taken' = start + size
                                      /\ \A o \in 0..size - 1 : buf'[o] = start + o + 1
         /\ Sending /\ result' > 0 => Len(wire') = Answer
         /\ Reading /\ result' <= 0 /\ peer' = "up" => tries' > MaxTries \/ taken' = start + size

LEMMA ReturnsWhole ==
  ASSUME IInv, [Next]_vars, pc # "idle", pc' = "idle"
  PROVE  Whole
<1> USE DEF Whole
<1>1. CASE First
  <2>1. pc = "recv" /\ size \in Nat
    BY <1>1 DEF First, IInv, TypeOK
  <2>2. CASE get' = 0 /\ Returns(0)
    <3>1. peer' # "up" /\ result' = 0
      BY <1>1, <2>2, FirstEffect DEF Returns
    <3> QED
      BY <2>1, <3>1 DEF Reading, Sending
  <2>3. CASE get' < 0 /\ ~again' /\ Returns(-1)
    <3>1. peer' # "up"
      BY <1>1, <2>3, FirstEffect, Zenon
    <3>2. result' = -1
      BY <2>3 DEF Returns
    <3> QED
      BY <2>1, <3>1, <3>2 DEF Reading, Sending
  <2>4. CASE get' = need /\ get' # 0 /\ Returns(get')
    <3>1. need > 0 /\ need = size /\ need \in Nat /\ taken = start /\ start \in Nat /\ size \in 1..MaxSize
          /\ MaxSize \in Nat
      BY <1>1, FirstEffect
    <3>2. get' > 0 => taken' = taken + get'
      BY <1>1, FirstEffect, Zenon
    <3>3. taken' = start + size /\ result' = size
      BY <2>4, <3>1, <3>2 DEF Returns
    <3>4. \A o \in Offsets : buf'[o] = IF o < taken' - start THEN start + o + 1 ELSE 0
      BY <1>1, FirstEffect, Zenon
    <3>5. start + size - start = size /\ \A o \in 0..size - 1 : o \in Offsets /\ o < size
      BY <3>1 DEF Offsets
    <3>6. taken' - start = size
      <4> DEFINE u == taken'
      <4>1. u = start + size
        BY <3>3
      <4> HIDE DEF u
      <4>2. u - start = size
        BY <3>1, <4>1
      <4> QED
        BY <4>2, Zenon DEF u
    <3>7. \A o \in 0..size - 1 : buf'[o] = start + o + 1
      BY <3>4, <3>5, <3>6, Zenon
    <3> QED
      BY <2>1, <3>1, <3>3, <3>7 DEF Reading, Sending
  <2> QED
    BY <1>1, <2>2, <2>3, <2>4 DEF First, GoesOn
<1>2. CASE More
  <2>1. pc = "more" /\ get' <= 0 /\ ~again' /\ Returns(-1)
    BY <1>2 DEF More, GoesOn
  <2>2. result' = -1
    BY <2>1 DEF Returns
  <2>3. peer' = "up" => need' = 0 /\ taken' = taken
    <3>1. get' \in -1..need' /\ (get' <= 0 => taken' = taken)
          /\ (get' = 0 /\ peer' = "up" => need' = 0) /\ (get' < 0 /\ peer' = "up" => again')
      BY <1>2, MoreEffect, Zenon
    <3> QED
      BY <2>1, <3>1
  <2>4. taken = start + size - need' /\ start \in Nat /\ size \in Nat
    BY <1>2, MoreEffect DEF IInv, TypeOK
  <2>5. peer' = "up" => taken' = start + size
    BY <2>3, <2>4
  <2> QED
    BY <2>1, <2>2, <2>5 DEF Reading, Sending
<1>3. CASE Nap
  <2>1. pc = "nap" /\ UNCHANGED <<taken, size, buf, start>>
    BY <1>3 DEF Nap, stream
  <2>2. CASE tries' > MaxTries /\ Returns(-1)
    BY <2>1, <2>2 DEF Returns, Reading, Sending
  <2>3. CASE need = 0 /\ Returns(size)
    <3>1. result' = size
      BY <2>3 DEF Returns
    <3>2. /\ get \in Int /\ taken \in Nat /\ start \in Nat /\ size \in 1..MaxSize /\ MaxSize \in Nat
          /\ get <= 0 /\ Left(start + size - taken)
      BY <2>1, <2>3, TransferAssumption DEF IInv, TypeOK, Progress, Reading
    <3>3. taken = start + size
      BY <2>3, <3>2 DEF Left
    <3>4. \A o \in Offsets : buf[o] = IF o < taken - start THEN start + o + 1 ELSE 0
      BY <2>1 DEF IInv, InOrder, Reading
    <3>5. taken - start = size /\ \A o \in 0..size - 1 : o \in Offsets /\ o < size
      BY <3>2, <3>3 DEF Offsets
    <3>6. \A o \in 0..size - 1 : buf[o] = start + o + 1
      BY <3>4, <3>5
    <3> QED
      BY <2>1, <3>1, <3>2, <3>3, <3>6 DEF Reading, Sending
  <2> QED
    BY <1>3, <2>2, <2>3 DEF Nap, GoesOn
<1>4. CASE SendFirst
  <2>1. pc = "send" /\ need = Answer /\ Send(Len(wire), need) /\ Sent(get')
    BY <1>4 DEF SendFirst, IInv, Progress
  <2>2. Len(wire) = 0 /\ TypeOK /\ InOrder /\ Answer \in Nat
    BY <2>1, TransferAssumption DEF IInv, Progress
  <2>3. get' \in -1..Answer /\ (get' > 0 => Len(wire') = Len(wire) + get')
    BY <2>1, <2>2, SendEffect
  <2>4. get' <= 0 \/ get' = Answer
    BY <1>4, <2>1 DEF SendFirst
  <2>5. get' > 0 => Len(wire') = Answer
    <3>1. Len(wire) + Answer = Answer
      BY <2>2
    <3>2. CASE get' = Answer
      BY <2>3, <3>1, <3>2, Zenon
    <3> QED
      BY <2>3, <2>4, <3>2
  <2> QED
    BY <2>1, <2>5 DEF Sent, Reading, Sending
<1>5. CASE Resend
  <2>1. pc = "resend" /\ get' <= 0 /\ Sent(get')
    BY <1>5 DEF Resend
  <2>2. result' <= 0 /\ result' \in Int
    BY <1>5, <2>1, ResendStep DEF IInv, TypeOK, Sent
  <2> QED
    BY <2>1, <2>2 DEF Reading, Sending
<1>6. CASE Peer \/ Poll \/ CallRecv \/ CallSend \/ UNCHANGED vars
  BY <1>6 DEF Peer, Arrive, Hangup, Reset, Poll, CallRecv, CallSend, vars, call
<1> QED
  BY <1>1, <1>2, <1>3, <1>4, <1>5, <1>6 DEF Next, Step

\* A positive result of recvData or _sendData stands for the whole field or the
\* whole answer, and recvData gives up on a peer that is there only after its last
\* try, or with the whole field taken.
THEOREM TransferVerdict == Spec => Verdict
<1>1. IInv /\ [Next]_vars => [pc # "idle" /\ pc' = "idle" => Whole]_vars
  BY ReturnsWhole
<1> QED
  BY <1>1, Progresses, PTL DEF Spec, Verdict, Whole

-----------------------------------------------------------------------------
(* Where the fields of a message begin *)

\* Induction over the natural numbers, for a set of them.
LEMMA SetInduction ==
  ASSUME NEW S \in SUBSET Nat, 0 \in S, \A n \in S : n + 1 \in S
  PROVE  S = Nat
<1> SUFFICES ASSUME Nat \ S # {}
             PROVE  FALSE
  OBVIOUS
<1> DEFINE R == {ss \in Nat \X Nat : ss[1] < ss[2]}
<1>1. IsWellFoundedOn(R, Nat)
  BY NatLessThanWellFounded, Zenon DEF OpToRel
<1>2. PICK m \in Nat \ S : \A n \in Nat \ S : <<n, m>> \notin R
  <2>1. Nat \ S \subseteq Nat
    OBVIOUS
  <2> HIDE DEF R
  <2> QED
    BY <1>1, <2>1, WFMin, Zenon
<1>3. m # 0 /\ m - 1 \in Nat
  OBVIOUS
<1>4. <<m - 1, m>> \in R
  BY <1>3
<1>5. m - 1 \in S
  BY <1>2, <1>3, <1>4
<1>6. (m - 1) + 1 \in S
  BY <1>5, Zenon
<1> QED
  BY <1>2, <1>6

\* Before is what its definition says: there is such a function.
LEMMA BeforeDefined ==
  Before = [k \in 0..Len(Fields) + 1 |->
              CASE k = 0 -> 0 [] k = 1 -> 1 [] OTHER -> Before[k - 1] + Fields[k - 1]]
<1> DEFINE Fits(f, n) == /\ f \in [0..n -> Nat]
                         /\ f[0] = 0 /\ (n > 0 => f[1] = 1)
                         /\ \A k \in 2..n : f[k] = f[k - 1] + Fields[k - 1]
           S == {n \in Nat : n <= Len(Fields) + 1 => \E f : Fits(f, n)}
<1>0. Len(Fields) \in Nat /\ \A k \in 1..Len(Fields) : Fields[k] \in Nat
  BY TransferAssumption
<1>1. 0 \in S
  <2>1. Fits([k \in 0..0 |-> 0], 0)
    OBVIOUS
  <2> QED
    BY <2>1, Zenon
<1>2. ASSUME NEW n \in S
      PROVE  n + 1 \in S
  <2>0. n \in Nat
    OBVIOUS
  <2> HIDE DEF Fits
  <2> SUFFICES ASSUME n + 1 <= Len(Fields) + 1
               PROVE  \E f : Fits(f, n + 1)
    BY <2>0
  <2>1. PICK f : Fits(f, n)
    BY <1>0, <1>2, <2>0
  <2> DEFINE g == [k \in 0..n + 1 |-> IF k <= n THEN f[k] ELSE IF n = 0 THEN 1 ELSE f[n] + Fields[n]]
  <2>2. n > 0 => Fields[n] \in Nat
    BY <1>0, <1>2
  <2>3. f \in [0..n -> Nat] /\ f[0] = 0 /\ (n > 0 => f[1] = 1)
        /\ \A k \in 2..n : f[k] = f[k - 1] + Fields[k - 1]
    BY <2>1 DEF Fits
  <2>4. g \in [0..n + 1 -> Nat]
    BY <2>0, <2>2, <2>3
  <2>5. g[0] = 0 /\ g[1] = 1
    BY <2>0, <2>3
  <2>6. ASSUME NEW k \in 2..n + 1
        PROVE  g[k] = g[k - 1] + Fields[k - 1]
    BY <2>0, <2>3, <2>6
  <2>7. Fits(g, n + 1)
    <3> HIDE DEF g
    <3> QED
      BY <2>4, <2>5, <2>6 DEF Fits
  <2> QED
    BY <2>7, Zenon
<1>3. S = Nat
  <2>1. S \in SUBSET Nat
    OBVIOUS
  <2> HIDE DEF S
  <2> QED
    BY <1>1, <1>2, <2>1, SetInduction
<1>4. PICK f : Fits(f, Len(Fields) + 1)
  <2>1. Len(Fields) + 1 \in Nat /\ Len(Fields) + 1 <= Len(Fields) + 1
    BY <1>0
  <2> HIDE DEF Fits
  <2> QED
    BY <1>3, <2>1
<1>5. f = [k \in 0..Len(Fields) + 1 |->
             CASE k = 0 -> 0 [] k = 1 -> 1 [] OTHER -> f[k - 1] + Fields[k - 1]]
  BY <1>0, <1>4
<1> QED
  BY <1>5, Zenon DEF Before

\* Quotient and remainder are determined by what they are made from.
LEMMA DivMod ==
  ASSUME NEW a \in Nat, NEW L \in Nat \ {0}
  PROVE  a \div L \in Nat /\ a % L \in 0..L - 1 /\ a = L * (a \div L) + (a % L)
OBVIOUS

LEMMA OneRemainder ==
  ASSUME NEW L \in Nat \ {0}, NEW p \in Nat, NEW q \in Nat,
         NEW r \in 0..L - 1, NEW s \in 0..L - 1, L * p + r = L * q + s
  PROVE  r = s
<1>1. ASSUME NEW x \in Nat, NEW y \in Nat, x < y
      PROVE  L * x + L <= L * y
  <2>1. y - x \in Nat /\ y - x >= 1
    BY <1>1
  <2>2. L * (y - x) >= L
    BY <2>1
  <2>3. L * (y - x) = L * y - L * x
    OBVIOUS
  <2> QED
    BY <2>2, <2>3
<1>2. ~(p < q) /\ ~(q < p)
  BY <1>1
<1> QED
  BY <1>2

\* c bytes further on within a message of L bytes, or at its end.
LEMMA ModStep ==
  ASSUME NEW a \in Nat, NEW c \in Nat, NEW L \in Nat \ {0}
  PROVE  /\ (a % L) + c < L => (a + c) % L = (a % L) + c
         /\ (a % L) + c = L => (a + c) % L = 0
<1> DEFINE q == a \div L
           m == a % L
           p == (a + c) \div L
           n == (a + c) % L
<1>1. q \in Nat /\ m \in 0..L - 1 /\ a = L * q + m
  BY DivMod
<1>2. p \in Nat /\ n \in 0..L - 1 /\ a + c = L * p + n
  <2>1. a + c \in Nat
    OBVIOUS
  <2> QED
    BY <2>1, DivMod
<1> HIDE DEF q, m, p, n
<1>3. ASSUME m + c < L
      PROVE  n = m + c
  <2>1. m + c \in 0..L - 1
    BY <1>1, <1>3
  <2>2. L * p + n = L * q + (m + c)
    BY <1>1, <1>2
  <2> QED
    BY <1>1, <1>2, <2>1, <2>2, OneRemainder
<1>4. ASSUME m + c = L
      PROVE  n = 0
  <2>1. q + 1 \in Nat /\ 0 \in 0..L - 1
    BY <1>1
  <2>2. L * (q + 1) = L * q + L
    BY <1>1
  <2>3. L * p + n = L * (q + 1) + 0
    BY <1>1, <1>2, <1>4, <2>2
  <2> QED
    BY <1>1, <1>2, <2>1, <2>3, OneRemainder
<1> QED
  BY <1>3, <1>4 DEF m, n

\* The fields of a message begin one after the other, each behind the one before.
LEMMA BeforeGrows ==
  /\ \A k \in 0..Len(Fields) + 1 : Before[k] \in Nat
  /\ Before[0] = 0 /\ Before[1] = 1
  /\ \A k \in 1..Len(Fields) : Before[k + 1] = Before[k] + Fields[k]
  /\ \A k \in 0..Len(Fields) : Before[k] < Before[Len(Fields) + 1]
<1> DEFINE last == Len(Fields) + 1
           Grows(n) == Before[n] \in Nat /\ \A k \in 0..n - 1 : Before[k] < Before[n]
           S == {n \in Nat : n <= last => \A m \in 0..n : Grows(m)}
<1>0. last \in Nat /\ last = Len(Fields) + 1 /\ \A k \in 1..Len(Fields) : Fields[k] \in Nat \ {0}
  BY TransferAssumption
<1>1. Before[0] = 0 /\ Before[1] = 1
  BY <1>0, BeforeDefined
<1>2. ASSUME NEW k \in 1..Len(Fields)
      PROVE  Before[k + 1] = Before[k] + Fields[k]
  <2>1. k + 1 \in 0..Len(Fields) + 1 /\ k + 1 # 0 /\ k + 1 # 1 /\ (k + 1) - 1 = k
    BY <1>0
  <2>2. Before[k + 1] = Before[(k + 1) - 1] + Fields[(k + 1) - 1]
    BY <2>1, BeforeDefined, Zenon
  <2> QED
    BY <2>1, <2>2, Zenon
<1> HIDE DEF last
<1>3. 0 \in S
  BY <1>1
<1>4. ASSUME NEW n \in S
      PROVE  n + 1 \in S
  <2> SUFFICES ASSUME n + 1 <= last
               PROVE  \A m \in 0..n + 1 : Grows(m)
    OBVIOUS
  <2>1. n \in Nat /\ \A m \in 0..n : Grows(m)
    BY <1>0, <1>4
  <2>2. Grows(n + 1)
    <3>1. CASE n = 0
      BY <1>1, <3>1
    <3>2. CASE n # 0
      <4>1. Before[n + 1] = Before[n] + Fields[n] /\ Fields[n] \in Nat \ {0}
        BY <1>0, <1>2, <2>1, <3>2
      <4>2. Before[n] \in Nat /\ \A k \in 0..n - 1 : Before[k] \in Nat /\ Before[k] < Before[n]
        BY <2>1
      <4> QED
        BY <2>1, <4>1, <4>2
    <3> QED
      BY <3>1, <3>2
  <2> QED
    <3> HIDE DEF Grows
    <3> QED
      BY <2>1, <2>2
<1>5. S = Nat
  <2>1. S \in SUBSET Nat
    OBVIOUS
  <2> HIDE DEF S
  <2> QED
    BY <1>3, <1>4, <2>1, SetInduction
<1>6. \A m \in 0..last : Grows(m)
  <2> HIDE DEF Grows
  <2> QED
    BY <1>0, <1>5
<1> QED
  BY <1>0, <1>1, <1>2, <1>6

-----------------------------------------------------------------------------
(* In step with the messages *)

\* Where the stream is when a call begins and when none is under way, as long as
\* every call for a field has brought it.
StepInv == /\ Sending => field = 0
           /\ ~failed => /\ ~Reading => taken % Before[Len(Fields) + 1] = Before[field]
                         /\ Reading => /\ field \in 1..Len(Fields) /\ size = Fields[field]
                                       /\ start % Before[Len(Fields) + 1] = Before[field]

\* A field that has been taken ends where the next one or the next message begins.
LEMMA FieldTaken ==
  ASSUME TypeOK, NEW k \in 1..Len(Fields), NEW a \in Nat,
         a % Before[Len(Fields) + 1] = Before[k]
  PROVE  (a + Fields[k]) % Before[Len(Fields) + 1] = Before[IF k = Len(Fields) THEN 0 ELSE k + 1]
<1> DEFINE L == Before[Len(Fields) + 1]
<1>1. Len(Fields) \in Nat /\ Fields[k] \in Nat \ {0}
  BY TransferAssumption
<1>2. L \in Nat \ {0} /\ Before[0] = 0 /\ Before[k + 1] = Before[k] + Fields[k]
  BY <1>1, BeforeGrows
<1>3. k < Len(Fields) => Before[k + 1] < L
  BY <1>1, BeforeGrows
<1>4. k = Len(Fields) => Before[k + 1] = L
  OBVIOUS
<1> HIDE DEF L
<1>5. /\ Before[k] + Fields[k] < L => (a + Fields[k]) % L = Before[k] + Fields[k]
      /\ Before[k] + Fields[k] = L => (a + Fields[k]) % L = 0
  <2>1. a % L = Before[k]
    BY DEF L
  <2>2. /\ (a % L) + Fields[k] < L => (a + Fields[k]) % L = (a % L) + Fields[k]
        /\ (a % L) + Fields[k] = L => (a + Fields[k]) % L = 0
    BY <1>1, <1>2, ModStep
  <2> QED
    BY <2>1, <2>2, Zenon
<1>6. (a + Fields[k]) % L = IF k = Len(Fields) THEN 0 ELSE Before[k + 1]
  BY <1>1, <1>2, <1>3, <1>4, <1>5
<1> QED
  BY <1>2, <1>6, Zenon DEF L

LEMMA StepStays ==
  ASSUME IInv, StepInv, [Next]_vars
  PROVE  StepInv'
<1> DEFINE L == Before[Len(Fields) + 1]
<1>0. Len(Fields) \in Nat /\ L \in Nat \ {0} /\ Before[0] = 0 /\ Before[1] = 1 /\ (Len(Fields) > 0 => 1 < L)
  <2>1. Len(Fields) \in Nat
    BY TransferAssumption
  <2> QED
    BY <2>1, BeforeGrows
<1> HIDE DEF L
<1>1. CASE Peer \/ UNCHANGED vars
  <2>1. UNCHANGED <<taken, field, pc, size, start, failed>>
    BY <1>1 DEF Peer, Arrive, Hangup, Reset, vars, stream, call
  <2> QED
    BY <2>1 DEF StepInv, Reading, Sending
<1>2. CASE Poll
  <2>1. /\ pc = "idle" /\ field = 0 /\ taken' = taken + 1 /\ field' = 1
        /\ UNCHANGED <<pc, failed>> /\ Len(Fields) > 0 /\ taken \in Nat
    BY <1>0, <1>2, TransferAssumption DEF Poll, call, IInv, TypeOK
  <2>2. taken % L = 0 => (taken + 1) % L = 1
    <3>1. (taken % L) + 1 < L => (taken + 1) % L = (taken % L) + 1
      BY <1>0, <2>1, ModStep
    <3> QED
      BY <1>0, <2>1, <3>1
  <2>3. ~failed => taken % L = 0
    BY <1>0, <2>1 DEF StepInv, Reading, L
  <2>4. ~failed' => taken' % L = Before[field']
    BY <1>0, <2>1, <2>2, <2>3, Zenon
  <2>5. pc' = "idle"
    BY <2>1
  <2> QED
    BY <2>4, <2>5 DEF StepInv, Reading, Sending, L
<1>3. CASE CallRecv
  <2>1. /\ pc = "idle" /\ field > 0 /\ pc' = "recv" /\ size' = Fields[field] /\ start' = taken
        /\ UNCHANGED <<taken, field, failed>> /\ field \in 1..Len(Fields)
    BY <1>0, <1>3 DEF CallRecv, stream, IInv, TypeOK
  <2> QED
    BY <2>1 DEF StepInv, Reading, Sending
<1>4. CASE CallSend
  <2>1. pc = "idle" /\ field = 0 /\ pc' = "send" /\ UNCHANGED <<taken, field, failed>>
    BY <1>4 DEF CallSend, stream
  <2> QED
    BY <2>1 DEF StepInv, Reading, Sending
<1>5. CASE SendFirst \/ Resend
  <2>1. /\ pc \in {"send", "resend"} /\ pc' \in {"send", "resend", "idle"}
        /\ UNCHANGED <<taken, field, failed>>
    BY <1>5 DEF SendFirst, Resend, Sent, stream
  <2> QED
    BY <2>1 DEF StepInv, Reading, Sending
<1>6. CASE (First \/ More \/ Nap) /\ pc' # "idle"
  <2>1. /\ pc \in {"recv", "more", "nap"} /\ pc' \in {"more", "nap"}
        /\ UNCHANGED <<size, start, field, failed>>
    BY <1>6 DEF First, More, Nap, GoesOn, Returns
  <2> QED
    BY <2>1 DEF StepInv, Reading, Sending
<1>7. CASE (First \/ More \/ Nap) /\ pc' = "idle"
  <2>1. pc \in {"recv", "more", "nap"} /\ \E r : Returns(r)
    BY <1>7 DEF First, More, Nap, GoesOn
  <2>2. /\ failed' = (failed \/ result' <= 0)
        /\ field' = IF field = Len(Fields) THEN 0 ELSE field + 1
    BY <2>1 DEF Returns
  <2> SUFFICES ASSUME ~failed'
               PROVE  taken' % L = Before[field']
    BY <1>7 DEF StepInv, Reading, Sending, L
  <2>3. ~failed /\ ~(result' <= 0)
    BY <2>2
  <2>4. result' \in Int
    BY Progressing DEF IInv, TypeOK
  <2>5. result' > 0
    BY <2>3, <2>4
  <2>6. taken' = start + size
    BY <1>7, <2>1, <2>5, ReturnsWhole DEF Whole, Reading
  <2>7. field \in 1..Len(Fields) /\ size = Fields[field] /\ start % L = Before[field]
    BY <2>1, <2>3 DEF StepInv, Reading, L
  <2>8. TypeOK /\ start \in Nat
    BY DEF IInv, TypeOK
  <2>9. (start + Fields[field]) % L = Before[IF field = Len(Fields) THEN 0 ELSE field + 1]
    BY <2>7, <2>8, FieldTaken DEF L
  <2> QED
    BY <2>2, <2>6, <2>7, <2>9, Zenon
<1> QED
  BY <1>1, <1>2, <1>3, <1>4, <1>5, <1>6, <1>7 DEF Next, Step

\* As long as no call has failed, a thread that begins to read begins where a message
\* begins, and reads each of its fields where that field begins, whatever their sizes.
THEOREM TransferInStep == Spec => []InStep
<1>1. Init => StepInv
  <2>1. Len(Fields) \in Nat
    BY TransferAssumption
  <2>2. Before[Len(Fields) + 1] \in Nat \ {0} /\ Before[0] = 0
    BY <2>1, BeforeGrows
  <2>3. 0 % Before[Len(Fields) + 1] = 0
    BY <2>2
  <2> QED
    BY <2>2, <2>3 DEF Init, StepInv, Reading, Sending
<1>2. IInv /\ StepInv /\ [Next]_vars => StepInv'
  BY StepStays
<1>3. StepInv => InStep
  BY DEF StepInv, InStep, Reading
<1> QED
  BY <1>1, <1>2, <1>3, Progresses, PTL DEF Spec
=============================================================================
