------------------------------ MODULE Transfer ------------------------------
(***************************************************************************)
(* recvData and _sendData of engine.c: how a thread gets a message of      *)
(* several fields out of a stream of bytes without waiting for it for      *)
(* ever, and puts an answer of several bytes into one.                     *)
(*                                                                         *)
(* The stream is a sequence of messages, each a type of one byte and then  *)
(* Fields[1], Fields[2], ... bytes; a byte is the number of its place in   *)
(* the stream.  The thread polls for the type and calls recvData for each  *)
(* field, whatever the call before returned, as the handlers of            *)
(* serverworker.c and worker.c do.                                         *)
(***************************************************************************)
EXTENDS Integers, Sequences

CONSTANTS Fields,    \* the sizes of a message's fields
          MaxSize,   \* the largest of them
          MaxTries,  \* the 20 of recvData
          Answer,    \* bytes of an answer
          MaxBytes   \* bound of the model: bytes the peer sends

ASSUME TransferAssumption == /\ MaxSize \in Nat \ {0}
                             /\ Fields \in Seq(1..MaxSize)
                             /\ MaxTries \in Nat
                             /\ Answer \in Nat \ {0}
                             /\ MaxBytes \in Nat

VARIABLES
    arrived,  \* bytes that have come in since the connection was made
    taken,    \* bytes recv has taken of them
    peer,     \* the other end: "up", "closed", or "reset" until recv has told
    field,    \* the field to be read next; 0: the type
    pc,       \* where the thread is in recvData or _sendData
    size,     \* argument of the latest call
    need,     \* need in it
    get,      \* get in it
    tries,    \* $$ in recvData
    again,    \* whether errno is EAGAIN
    buf,      \* *buf of recvData: the byte at each offset, 0 before
    wire,     \* the offsets _sendData has sent, in order
    result,   \* what the latest call returned
    start,    \* history: taken when recvData was called
    failed    \* history: whether a call has returned 0 or -1 for a field

stream == <<arrived, taken, peer>>
call == <<pc, size, need, get, tries, again, buf, wire, result>>
vars == <<stream, field, call, start, failed>>

Offsets == 0..MaxSize - 1
EmptyBuf == [o \in Offsets |-> 0]

TypeOK == /\ arrived \in Nat /\ taken \in Nat
          /\ peer \in {"up", "closed", "reset"}
          /\ field \in 0..Len(Fields)
          /\ pc \in {"idle", "recv", "more", "nap", "send", "resend"}
          /\ size \in Nat /\ need \in Nat
          /\ get \in Int /\ tries \in 0..MaxTries + 1
          /\ again \in BOOLEAN
          /\ buf \in [Offsets -> Nat]
          /\ wire \in Seq(Nat)
          /\ result \in Int
          /\ start \in Nat
          /\ failed \in BOOLEAN

Init == /\ arrived = 0 /\ taken = 0 /\ peer = "up"
        /\ field = 0
        /\ pc = "idle"
        /\ size = 0 /\ need = 0 /\ get = 0 /\ tries = 0 /\ result = 0
        /\ again = FALSE
        /\ buf = EmptyBuf /\ wire = <<>>
        /\ start = 0 /\ failed = FALSE

-----------------------------------------------------------------------------
(* The other end and the network *)

Arrive == /\ peer = "up" /\ arrived < MaxBytes
          /\ \E n \in 1..MaxBytes - arrived : arrived' = arrived + n
          /\ UNCHANGED <<taken, peer, field, call, start, failed>>

Hangup == /\ peer = "up"
          /\ peer' = "closed"
          /\ UNCHANGED <<arrived, taken, field, call, start, failed>>

\* A reset takes what has not been read along.
Reset == /\ peer = "up"
         /\ peer' = "reset"
         /\ arrived' = taken
         /\ UNCHANGED <<taken, field, call, start, failed>>

-----------------------------------------------------------------------------
(* recv(sock, buf, n, MSG_DONTWAIT) *)

Queued == arrived - taken

\* Bytes, 0 at the end of the stream (and for n = 0 with bytes queued), or -1.
RecvGets(n) == CASE Queued > 0 -> IF n < Queued THEN n ELSE Queued
                 [] Queued = 0 /\ peer = "closed" -> 0
                 [] OTHER -> -1

\* errno changes only when -1 is returned.
RecvAgain(n) == IF Queued = 0 /\ peer # "closed" THEN peer = "up" ELSE again

\* A reset is told once; after that the stream has ended.
RecvPeer == IF Queued = 0 /\ peer = "reset" THEN "closed" ELSE peer

\* n bytes of the stream copied to offset o of the buffer.
Copied(o, n) == [p \in Offsets |-> IF o <= p /\ p < o + n THEN taken + p - o + 1 ELSE buf[p]]

\* recv of n bytes to buf + o.
Recv(o, n) == /\ get' = RecvGets(n)
              /\ again' = RecvAgain(n)
              /\ peer' = RecvPeer
              /\ taken' = IF RecvGets(n) > 0 THEN taken + RecvGets(n) ELSE taken
              /\ buf' = Copied(o, RecvGets(n))
              /\ UNCHANGED arrived

-----------------------------------------------------------------------------
(* recvData *)

\* The type of the next message; nothing is told apart when there is none.
Poll == /\ pc = "idle" /\ field = 0 /\ Fields # <<>>
        /\ Queued > 0
        /\ taken' = taken + 1
        /\ field' = 1
        /\ UNCHANGED <<arrived, peer, call, start, failed>>

\* errno may be anything when recvData is called: logging goes before.
CallRecv == /\ pc = "idle" /\ field > 0
            /\ pc' = "recv"
            /\ size' = Fields[field] /\ need' = Fields[field]
            /\ get' = 0 /\ tries' = 0
            /\ again' \in BOOLEAN
            /\ buf' = EmptyBuf
            /\ start' = taken
            /\ UNCHANGED <<stream, field, wire, result, failed>>

\* return r; the handler goes on to the next field, or to the next message.
Returns(r) == /\ pc' = "idle"
              /\ result' = r
              /\ failed' = (failed \/ r <= 0)
              /\ field' = IF field = Len(Fields) THEN 0 ELSE field + 1

GoesOn(to) == /\ pc' = to
              /\ UNCHANGED <<result, failed, field>>

\* Mutant of First: part of a field is taken for the field.
FirstShort == /\ pc = "recv"
              /\ Recv(0, need)
              /\ \/ get' = 0 /\ Returns(0)
                 \/ get' < 0 /\ ~again' /\ Returns(-1)
                 \/ get' > 0 /\ Returns(get')
                 \/ get' < 0 /\ again' /\ GoesOn("more")
              /\ UNCHANGED <<size, need, tries, wire, start>>

\* The first recv.
First == /\ pc = "recv"
         /\ Recv(0, need)
         /\ \/ get' = 0 /\ Returns(0)
            \/ get' < 0 /\ ~again' /\ Returns(-1)
            \/ get' = need /\ get' # 0 /\ Returns(get')
            \/ get' # 0 /\ get' < need /\ (get' > 0 \/ again') /\ GoesOn("more")
         /\ UNCHANGED <<size, need, tries, wire, start>>

\* Mutant of More: the rest of a field is put at the start of the buffer.
MoreOver == /\ pc = "more"
            /\ need' = IF get > 0 THEN need - get ELSE need
            /\ Recv(0, need')
            /\ \/ get' <= 0 /\ ~again' /\ Returns(-1)
               \/ (get' > 0 \/ again') /\ GoesOn("nap")
            /\ UNCHANGED <<size, tries, wire, start>>

\* Mutant of More: an empty stream is taken for an error.
MoreHasty == /\ pc = "more"
             /\ need' = IF get > 0 THEN need - get ELSE need
             /\ Recv(size - need', need')
             /\ \/ get' <= 0 /\ Returns(-1)
                \/ get' > 0 /\ GoesOn("nap")
             /\ UNCHANGED <<size, tries, wire, start>>

\* The body of the loop up to the sleep.
More == /\ pc = "more"
        /\ need' = IF get > 0 THEN need - get ELSE need
        /\ Recv(size - need', need')
        /\ \/ get' <= 0 /\ ~again' /\ Returns(-1)
           \/ (get' > 0 \/ again') /\ GoesOn("nap")
        /\ UNCHANGED <<size, tries, wire, start>>

\* Mutant of Nap: no limit of tries.
NapUnlimited == /\ pc = "nap"
                /\ tries' = tries + 1
                /\ \/ need > 0 /\ GoesOn("more")
                   \/ need = 0 /\ Returns(size)
                /\ UNCHANGED <<stream, size, need, get, again, buf, wire, start>>

\* Mutant of Nap: the tries are not counted.
NapUncounted == /\ pc = "nap"
                /\ \/ need > 0 /\ GoesOn("more")
                   \/ need = 0 /\ Returns(size)
                /\ UNCHANGED <<stream, size, need, get, tries, again, buf, wire, start>>

\* The sleep, the limit of tries and the test of the loop.
Nap == /\ pc = "nap"
       /\ tries' = tries + 1
       /\ \/ tries' > MaxTries /\ Returns(-1)
          \/ tries' <= MaxTries /\ need > 0 /\ GoesOn("more")
          \/ tries' <= MaxTries /\ need = 0 /\ Returns(size)
       /\ UNCHANGED <<stream, size, need, get, again, buf, wire, start>>

-----------------------------------------------------------------------------
(* _sendData *)

CallSend == /\ pc = "idle" /\ field = 0
            /\ pc' = "send"
            /\ size' = Answer /\ need' = Answer /\ get' = 0
            /\ wire' = <<>>
            /\ UNCHANGED <<stream, field, tries, again, buf, result, start, failed>>

\* send(sock, buf + o, n): some of the bytes, none of none, or -1.
Send(o, n) == \E g \in -1..n :
    /\ n > 0 => g # 0
    /\ get' = g
    /\ wire' = wire \o [i \in 1..(IF g > 0 THEN g ELSE 0) |-> o + i - 1]

Sent(r) == pc' = "idle" /\ result' = r

\* The first send.
SendFirst == /\ pc = "send"
             /\ Send(0, need)
             /\ \/ (get' <= 0 \/ get' = need) /\ Sent(get')
                \/ (get' > 0 /\ get' < need) /\ pc' = "resend" /\ UNCHANGED result
             /\ UNCHANGED <<stream, field, size, need, tries, again, buf, start, failed>>

\* A pass of the loop.  Its test never fails, as need is what was left before
\* the latest send: after the last byte come a send of nothing and return 0.
Resend == /\ pc = "resend"
          /\ need' = need - get
          /\ Send(size - need', need')
          /\ \/ get' <= 0 /\ Sent(get')
             \/ get' > 0 /\ UNCHANGED <<pc, result>>
          /\ UNCHANGED <<stream, field, size, tries, again, buf, start, failed>>

-----------------------------------------------------------------------------
Peer == Arrive \/ Hangup \/ Reset
Step == First \/ More \/ Nap \/ SendFirst \/ Resend
Next == Peer \/ Poll \/ CallRecv \/ CallSend \/ Step

Spec == Init /\ [][Next]_vars

\* A thread inside a call goes on.  recv does not block and naps end; send may
\* block while the peer does not read, and is taken to end.
LiveSpec == Spec /\ WF_vars(Step)

-----------------------------------------------------------------------------
Reading == pc \in {"recv", "more", "nap"}
Sending == pc \in {"send", "resend"}

\* What recvData has put into its buffer is what came next on the stream, byte
\* after byte, and it takes no byte of the next field even when it fails;
\* _sendData sends every byte once and in its place (the offsets size-need).
InOrder == /\ Reading => /\ start <= taken /\ taken <= start + size
                         /\ \A o \in Offsets : buf[o] = IF o < taken - start THEN start + o + 1 ELSE 0
           /\ Len(wire) <= Answer
           /\ \A i \in DOMAIN wire : wire[i] = i - 1

\* How recvData and _sendData may end.  A positive result means that all of the
\* field is in the buffer, or all of the answer sent.  While the other end is up,
\* recvData gives a field up only after its last try or, by the recv of nothing
\* that follows a field in pieces (engine.c:50), with all of it taken.
Verdict == [][pc # "idle" /\ pc' = "idle" =>
                /\ Reading /\ result' > 0 => /\ result' = size /\ taken' = start + size
                                             /\ \A o \in 0..size - 1 : buf'[o] = start + o + 1
                /\ Sending /\ result' > 0 => Len(wire') = Answer
                /\ Reading /\ result' <= 0 /\ peer' = "up" => tries' > MaxTries \/ taken' = start + size]_vars

\* Bytes of a message before its k-th field; Before[Len(Fields) + 1] is its length.
Before[k \in 0..Len(Fields) + 1] == CASE k = 0 -> 0 [] k = 1 -> 1 [] OTHER -> Before[k - 1] + Fields[k - 1]

\* The handlers stay in step with the messages as long as no call has failed:
\* a type is read where a message begins, a field where that field begins.
InStep == ~failed /\ pc = "idle" => taken % Before[Len(Fields) + 1] = Before[field]

\* No call goes on for ever: recvData gives up by itself after MaxTries more tries, at
\* whatever pace the bytes come; _sendData ends because a send is taken to end.
CallEnds == pc # "idle" ~> pc = "idle"
=============================================================================
