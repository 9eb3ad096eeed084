------------------------------- MODULE Streams -------------------------------
(* One file or socket (cio.c): its ring buffer, the sends and receives of     *)
(* several fibers, and how a socket gets connected or bound.  The natives are *)
(* reentrant: they ask the device for a read or a write and return; the fiber *)
(* is resumed, and comes back with the result of that operation.  The io      *)
(* object is locked during each such round and not between them, and the bytes*)
(* of a receive are copied out of the buffer after the lock is given back.    *)
(* A byte of the device is its number in the stream.                          *)
EXTENDS Integers, Sequences, FiniteSets, SequencesExt

CONSTANTS
  Fibers,
  BufferSize,     \* BUFFER_SIZE
  Wants,          \* what is asked of recv; 0 is nil
  Lengths,        \* of the binaries that are sent
  MostIn,         \* bound: bytes the device has
  MaxCalls        \* bound: calls in a behaviour

VARIABLES
  io,             \* struct gab_io with its struct iobuf
  calls,          \* per fiber, the native it is in
  device,         \* external: bytes given and taken, whether it is connected
  made,           \* calls so far
  heard,          \* history: what receives have answered
  sent,           \* history: the sends that were answered with ok
  settled,        \* history: connects and binds that were answered with ok
  odd             \* history: what has happened that breaks a stream (README)

streamVars == <<io, calls, device, made, heard, sent, settled, odd>>

Streaming == {"file", "client"}

Idle == [name |-> "none", stage |-> "idle", want |-> 0, got |-> <<>>, left |-> <<>>,
         place |-> 0, room |-> 0, result |-> 0, ended |-> FALSE, id |-> 0]

Init ==
  /\ \E k \in Streaming \cup {"unspecified"} :
       /\ io = [k |-> k, locked |-> FALSE, bfront |-> 0, bback |-> 0,
                buffer |-> [i \in 0..(BufferSize - 1) |-> 0]]
       /\ device = [given |-> 0, taken |-> <<>>, up |-> k # "unspecified"]
  /\ calls = [f \in Fibers |-> Idle]
  /\ made = 0 /\ heard = <<>> /\ sent = {} /\ settled = 0 /\ odd = {}

(****************************************************************************)
(* struct iobuf                                                             *)
(****************************************************************************)
Lesser(a, b) == IF a < b THEN a ELSE b

BufferBack(b) == b.bback % BufferSize
BufferFront(b) == b.bfront % BufferSize

(* What can be read in one piece.                                           *)
BufferLen(b) ==
  IF BufferFront(b) > BufferBack(b) THEN BufferSize - BufferFront(b)
  ELSE b.bback - b.bfront

(* Where a read is directed to, whatever is there.                          *)
BufferAvail(b) == BufferSize - BufferBack(b)

(* What lies at a place; after the end of the buffer, no byte of the stream.*)
BufferByte(place) == IF place < BufferSize THEN io.buffer[place] ELSE 0

(* The places that hold a byte which nobody has copied yet.                 *)
Unread == {i % BufferSize : i \in io.bfront..(io.bback - 1)}
Promised(f) == IF calls[f].stage = "copy"
               THEN calls[f].place..(calls[f].place + calls[f].room - 1) ELSE {}
Live == Unread \cup UNION {Promised(f) : f \in Fibers}

(****************************************************************************)
(* Calls.  An assertion that fails ends the process; a panic ends the fiber,*)
(* which is a call less.  Bound: once a stream is broken nothing is promised*)
(* of it any more, and the behaviour is followed no further.                *)
(****************************************************************************)
Runs == odd = {}
In(f, name, stage) == Runs /\ calls[f].name = name /\ calls[f].stage = stage
Set(f, call) == calls' = [calls EXCEPT ![f] = call]
End(f) == Set(f, Idle)
Note(what) == odd' = odd \cup what

Abort == Note({"aborted"}) /\ UNCHANGED <<io, calls, heard, sent, settled>>

NewCall(f) ==
  /\ Runs /\ calls[f].stage = "idle" /\ made < MaxCalls
  /\ made' = made + 1
  /\ UNCHANGED device

(****************************************************************************)
(* stream\recv                                                              *)
(****************************************************************************)
(* Faulty variant of Need: what the fiber has got is asked for again.       *)
NeedAll(c) == Lesser(c.want, BufferSize)

(* The difference is unsigned.                                              *)
Need(c) == IF Len(c.got) > c.want THEN BufferSize
           ELSE Lesser(c.want - Len(c.got), BufferSize)

Take(f, b, c, n) ==
  /\ io' = [b EXCEPT !.bfront = @ + n]
  /\ Set(f, [c EXCEPT !.stage = "copy", !.place = BufferFront(b), !.room = n])
  /\ Note(IF b.bback - b.bfront = BufferSize /\ BufferFront(b) + n > BufferSize
          THEN {"beyond"} ELSE {})

Reading(f) == calls[f].name = "recv" /\ calls[f].stage \in {"asked", "done"}

AskRead(f, b, c) ==
  /\ io' = b
  /\ Set(f, [c EXCEPT !.stage = "asked", !.place = BufferBack(b),
                      !.room = BufferAvail(b)])
  /\ Note(IF \E g \in Fibers \ {f} : Reading(g) THEN {"shared"} ELSE {})

(* iobuf_recv, when no read is under way.                                   *)
IobufRecv(f, b, c) ==
  LET available == BufferLen(b)
      len == IF Need(c) = 0 THEN available ELSE Need(c)
      consume == Lesser(len, available)
  IN /\ IF available = 0 \/ (consume < len /\ b.bback - b.bfront < BufferSize)
        THEN AskRead(f, b, c)
        ELSE Take(f, b, c, consume)
     /\ UNCHANGED <<heard, sent, settled>>

Recv(f) ==
  /\ NewCall(f)
  /\ \E want \in Wants :
       IF io.k \in Streaming
       THEN ~io.locked /\ IobufRecv(f, io, [Idle EXCEPT !.name = "recv", !.want = want])
       ELSE UNCHANGED <<io, calls, heard, sent, settled, odd>>

(* An error ends the receive, and what it has got so far is lost.           *)
Fail(f) ==
  /\ End(f)
  /\ Note(IF calls[f].got = <<>> THEN {} ELSE {"lost"})
  /\ UNCHANGED <<io, heard, sent, settled>>

(* readmore:                                                                *)
ReadMore(f) ==
  /\ In(f, "recv", "more") /\ ~io.locked
  /\ IF io.k \in Streaming THEN IobufRecv(f, io, calls[f])
     ELSE Fail(f)
  /\ UNCHANGED <<device, made>>

(* The device gives some bytes, none at its end, or an error.               *)
DeviceReads(f) ==
  /\ In(f, "recv", "asked")
  /\ \E n \in -1..Lesser(calls[f].room, MostIn - device.given) :
       /\ n = 0 => device.given = MostIn
       /\ n >= 0 => device.up
       /\ LET place == calls[f].place
              written == place..(place + n - 1)
          IN /\ io' = [io EXCEPT !.buffer = [i \in DOMAIN @ |->
                         IF i \in written THEN device.given + 1 + i - place ELSE @[i]]]
             /\ Note(IF written \cap Live # {} THEN {"overwritten"} ELSE {})
       /\ device' = [device EXCEPT !.given = IF n > 0 THEN @ + n ELSE @]
       /\ Set(f, [calls[f] EXCEPT !.stage = "done", !.result = n])
  /\ UNCHANGED <<made, heard, sent, settled>>

(* iobuf_recv, when the read has ended.                                     *)
ResumeRecv(f) ==
  /\ In(f, "recv", "done") /\ ~io.locked
  /\ LET c == calls[f]
         n == BufferLen(io)
     IN IF io.k \notin Streaming \/ c.result < 0 THEN Fail(f)
        ELSE IF c.result > 0
        THEN IobufRecv(f, [io EXCEPT !.bback = @ + c.result], c)
        ELSE IF n > 0 /\ n >= Need(c) THEN Abort
        ELSE Take(f, io, [c EXCEPT !.ended = TRUE], n) /\ UNCHANGED <<heard, sent, settled>>
  /\ UNCHANGED <<device, made>>

(* The rest of recv, without the lock.  Bytes are kept in the fiber until   *)
(* all that were asked for are there; from the second piece on, a piece that*)
(* is not the last is kept twice.                                           *)
Copy(f) ==
  /\ In(f, "recv", "copy")
  /\ LET c == calls[f]
         piece == [i \in 1..c.room |-> BufferByte(c.place + i - 1)]
         kept == IF c.got = <<>> THEN <<>> ELSE c.got \o piece
         more == piece # <<>> /\ Len(c.got) + c.room < c.want
     IN /\ IF more
           THEN /\ Set(f, [c EXCEPT !.stage = "more", !.got = kept \o piece])
                /\ UNCHANGED heard
           ELSE /\ End(f)
                /\ heard' = Append(heard,
                     [want |-> c.want, ended |-> c.ended,
                      bytes |-> IF c.got = <<>> THEN piece ELSE kept])
        /\ Note(IF more /\ c.got # <<>> THEN {"doubled"} ELSE {})
  /\ UNCHANGED <<io, device, made, sent, settled>>

(****************************************************************************)
(* stream\send                                                              *)
(****************************************************************************)
AskWrite(f, c, data) ==
  /\ Set(f, [c EXCEPT !.stage = "asked", !.left = data])
  /\ UNCHANGED <<io, sent, odd>>

(* The panic leaves the io object locked.                                   *)
SendPanics(f) ==
  /\ End(f)
  /\ io' = [io EXCEPT !.locked = TRUE]
  /\ UNCHANGED <<sent, odd>>

Payload(id, n) == [i \in 1..n |-> <<id, i>>]

Send(f) ==
  /\ NewCall(f) /\ ~io.locked
  /\ \E n \in Lengths :
       IF io.k \in Streaming
       THEN AskWrite(f, [Idle EXCEPT !.name = "send", !.want = n, !.id = made'],
                     Payload(made', n))
       ELSE SendPanics(f)
  /\ UNCHANGED <<heard, settled>>

(* The device takes some of the bytes, or answers an error.                 *)
DeviceWrites(f) ==
  /\ In(f, "send", "asked")
  /\ LET data == calls[f].left
     IN \E n \in -1..Len(data) :
          /\ n = 0 => data = <<>>
          /\ n >= 0 => device.up
          /\ device' = [device EXCEPT !.taken = @ \o SubSeq(data, 1, n)]
          /\ Set(f, [calls[f] EXCEPT !.stage = "done", !.result = n])
  /\ UNCHANGED <<io, made, heard, sent, settled, odd>>

Sent(f) ==
  /\ End(f)
  /\ sent' = sent \cup {[id |-> calls[f].id, len |-> calls[f].want, k |-> io.k]}
  /\ UNCHANGED <<io, odd>>

(* Faulty variant of ResumeFileSend: it starts over.                        *)
ResumeFileSendAgain(f, c) ==
  IF c.result < 0 THEN End(f) /\ UNCHANGED <<io, sent, odd>>
  ELSE IF c.result < Len(c.left) THEN AskWrite(f, c, c.left)
  ELSE Sent(f)

(* resume_filesend writes what is left.                                     *)
ResumeFileSend(f, c) ==
  IF c.result < 0 THEN End(f) /\ UNCHANGED <<io, sent, odd>>
  ELSE IF c.result < Len(c.left)
  THEN AskWrite(f, c, SubSeq(c.left, c.result + 1, Len(c.left)))
  ELSE Sent(f)

(* resume_socksend does not look at how much was taken.                     *)
ResumeSockSend(f, c) ==
  IF c.result < 0 THEN End(f) /\ UNCHANGED <<io, sent, odd>>
  ELSE IF c.result = 0 THEN Note({"aborted"}) /\ UNCHANGED <<io, calls, sent>>
  ELSE Sent(f)

ResumeSend(f) ==
  /\ In(f, "send", "done") /\ ~io.locked
  /\ CASE io.k = "file"   -> ResumeFileSend(f, calls[f])
       [] io.k = "client" -> ResumeSockSend(f, calls[f])
       [] OTHER           -> SendPanics(f)
  /\ UNCHANGED <<device, made, heard, settled>>

(****************************************************************************)
(* connect and bind.  The kind of the socket is read, and then set by a     *)
(* compare-and-swap.  A second connect, or bind, of a socket of that kind is*)
(* taken for one that is resumed.                                           *)
(****************************************************************************)
Kind(name) == IF name = "connect" THEN "client" ELSE "server"

Settle(f) ==
  /\ NewCall(f)
  /\ \E name \in {"connect", "bind"} :
       IF io.k = Kind(name) THEN Note({"aborted"}) /\ UNCHANGED calls
       ELSE /\ IF io.k = "unspecified"
               THEN Set(f, [Idle EXCEPT !.name = name, !.stage = "seen"])
               ELSE UNCHANGED calls
            /\ UNCHANGED odd
  /\ UNCHANGED <<io, heard, sent, settled>>

Settling(f) == calls[f].name \in {"connect", "bind"} /\ calls[f].stage # "seen"

(* Faulty variant of Swap: the kind is set whatever it is by now.           *)
SwapBlind(f) ==
  /\ Runs /\ calls[f].stage = "seen"
  /\ io' = [io EXCEPT !.k = Kind(calls[f].name)]
  /\ Set(f, [calls[f] EXCEPT !.stage = "swapped"])
  /\ UNCHANGED <<device, made, heard, sent, settled, odd>>

Swap(f) ==
  /\ Runs /\ calls[f].stage = "seen"
  /\ IF io.k = "unspecified"
     THEN /\ io' = [io EXCEPT !.k = Kind(calls[f].name)]
          /\ Set(f, [calls[f] EXCEPT !.stage = "swapped"])
     ELSE End(f) /\ UNCHANGED io
  /\ UNCHANGED <<device, made, heard, sent, settled, odd>>

(* A failure makes the socket what it was.                                  *)
Unsettle(f) ==
  /\ End(f)
  /\ io' = [io EXCEPT !.k = "unspecified"]

(* The address is none, or the operation starts.                            *)
AskSettle(f) ==
  /\ Runs /\ Settling(f) /\ calls[f].stage = "swapped"
  /\ \/ Unsettle(f)
     \/ Set(f, [calls[f] EXCEPT !.stage = "asked"]) /\ UNCHANGED io
  /\ UNCHANGED <<device, made, heard, sent, settled, odd>>

DeviceSettles(f) ==
  /\ Runs /\ Settling(f) /\ calls[f].stage = "asked"
  /\ \E n \in {-1, 0} :
       /\ device' = [device EXCEPT !.up = n = 0 /\ calls[f].name = "connect"]
       /\ Set(f, [calls[f] EXCEPT !.stage = "done", !.result = n])
  /\ UNCHANGED <<io, made, heard, sent, settled, odd>>

ResumeSettle(f) ==
  /\ Runs /\ Settling(f) /\ calls[f].stage = "done"
  /\ IF calls[f].result < 0 THEN Unsettle(f) /\ UNCHANGED settled
     ELSE End(f) /\ settled' = settled + 1 /\ UNCHANGED io
  /\ UNCHANGED <<device, made, heard, sent, odd>>

Next == \E f \in Fibers :
  \/ Recv(f) \/ ReadMore(f) \/ ResumeRecv(f) \/ Copy(f)
  \/ Send(f) \/ ResumeSend(f)
  \/ Settle(f) \/ Swap(f) \/ AskSettle(f) \/ ResumeSettle(f)
  \/ DeviceReads(f) \/ DeviceWrites(f) \/ DeviceSettles(f)

Spec == Init /\ [][Next]_streamVars

(****************************************************************************)
(* Properties                                                               *)
(****************************************************************************)
Increasing(bytes) == \A i, j \in DOMAIN bytes : i < j => bytes[i] < bytes[j]

(* What a receive has taken out of the buffer and not answered yet.         *)
Carried(f) ==
  calls[f].got \o
  IF calls[f].stage = "copy"
  THEN [i \in 1..calls[f].room |-> BufferByte(calls[f].place + i - 1)] ELSE <<>>

(* What has left the buffer, in pieces: answers, and what is on its way.    *)
Pieces == ({"heard"} \X DOMAIN heard) \cup ({"carried"} \X Fibers)
Piece(p) == IF p[1] = "heard" THEN heard[p[2]].bytes ELSE Carried(p[2])

(* Nothing the device gave is lost, doubled or out of order, wherever it is:*)
(* answered, on its way, or in the buffer (iobuf_recv, recv).  A receive of *)
(* a number of bytes answers so many, unless the device has ended.          *)
BytesAreWhole ==
  odd = {} =>
    /\ UNION {ToSet(Piece(p)) : p \in Pieces} = 1..io.bfront
    /\ \A p \in Pieces : Increasing(Piece(p))
    /\ \A p, q \in Pieces : p # q => ToSet(Piece(p)) \cap ToSet(Piece(q)) = {}
    /\ \A i \in io.bfront..(io.bback - 1) : io.buffer[i % BufferSize] = i + 1
    /\ \A i \in DOMAIN heard :
         LET n == Len(heard[i].bytes)
         IN /\ heard[i].want # 0 => n <= heard[i].want
            /\ ~heard[i].ended =>
                 n \in IF heard[i].want = 0 THEN 1..BufferSize ELSE {heard[i].want}

(* The device took the first n bytes of a send, in order.                   *)
TakenOf(id, n) ==
  LET mine == {i \in DOMAIN device.taken : device.taken[i][1] = id}
  IN /\ {device.taken[i][2] : i \in mine} = 1..n
     /\ \A i, j \in mine : i < j => device.taken[i][2] < device.taken[j][2]

(* A send to a file that is answered with ok was taken whole and in order,  *)
(* however many writes it took; one to a socket was taken from its start    *)
(* (resume_filesend, resume_socksend).                                      *)
SendsAreTaken ==
  \A s \in sent : IF s.k = "file" THEN TakenOf(s.id, s.len)
                  ELSE \E n \in 1..s.len : TakenOf(s.id, n)

(* A socket is connected or bound by one fiber at a time, once for good, and*)
(* is unspecified again when that fails (connect, bind).                    *)
SettledOnce ==
  Cardinality({f \in Fibers : Settling(f)}) + settled <= 1
  /\ (settled = 1 \/ \E f \in Fibers : Settling(f)) => io.k \in {"client", "server"}
  /\ \A f \in Fibers : Settling(f) => io.k = Kind(calls[f].name)
=============================================================================
