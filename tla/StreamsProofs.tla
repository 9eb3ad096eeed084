---------------------------- MODULE StreamsProofs ----------------------------
(* What goes through a file or a socket is whole, and a socket is settled     *)
(* once, for any number of fibers, any buffer and any device.                 *)
EXTENDS Streams, FiniteSetTheorems, TLAPS

(* A buffer has places; what is asked for and what is sent has a length.      *)
SizesAreNumbers ==
  BufferSize \in Nat \ {0} /\ Wants \subseteq Nat /\ Lengths \subseteq Nat /\ MostIn \in Nat

-----------------------------------------------------------------------------
(* Types                                                                      *)

Kinds == {"file", "client", "server", "unspecified"}
Place == 0..(BufferSize - 1)

Io == [k : Kinds, locked : BOOLEAN, bfront : Nat, bback : Nat, buffer : [Place -> Nat]]

(* A byte that is sent: of which send, and which of its bytes.                *)
Tagged == Nat \X Nat

Device == [given : Nat, taken : Seq(Tagged), up : BOOLEAN]

Names == {"none", "recv", "send", "connect", "bind"}
Stages == {"idle", "more", "asked", "done", "copy", "seen", "swapped"}

Call == [name : Names, stage : Stages, want : Nat, got : Seq(Nat), left : Seq(Tagged),
         place : Nat, room : Nat, result : Int, ended : BOOLEAN, id : Nat]

(* The stages of a call.  Only a receive keeps bytes.                         *)
Staged(c) ==
  \/ c.name = "none" /\ c.stage = "idle" /\ c.got = <<>>
  \/ c.name = "recv" /\ c.stage \in {"more", "asked", "done", "copy"}
  \/ c.name = "send" /\ c.stage \in {"asked", "done"} /\ c.got = <<>>
  \/ /\ c.name \in {"connect", "bind"} /\ c.stage \in {"seen", "swapped", "asked", "done"}
     /\ c.got = <<>>

Answer == [want : Nat, ended : BOOLEAN, bytes : Seq(Nat)]
Receipt == [id : Nat, len : Nat, k : Streaming]

TypeOK ==
  /\ io \in Io /\ device \in Device
  /\ calls \in [Fibers -> Call] /\ \A f \in Fibers : Staged(calls[f])
  /\ made \in Nat /\ settled \in Nat
  /\ heard \in Seq(Answer) /\ sent \subseteq Receipt

-----------------------------------------------------------------------------
(* Remainders                                                                 *)

(* What is left of a division.                                                *)
LEMMA ModFacts ==
  ASSUME NEW n \in Nat \ {0}, NEW a \in Int
  PROVE  \E q \in Int, r \in 0..(n - 1) : r = a % n /\ a = q * n + r
  <1>1. \E q, r \in Int : q = a \div n /\ r = a % n /\ a = q * n + r
    BY SMTT(20)
  <1>2. a % n \in 0..(n - 1)
    OBVIOUS
  <1>3. QED
    BY <1>1, <1>2

(* A multiple of n that is closer to 0 than n is 0.                           *)
LEMMA NoMultiple ==
  ASSUME NEW n \in Nat \ {0}, NEW d \in Int, -n < d * n, d * n < n
  PROVE  d = 0
  <1>1. d >= 1 => d * n >= n
    OBVIOUS
  <1>2. d <= -1 => d * n <= -n
    OBVIOUS
  <1>3. QED
    BY <1>1, <1>2

(* There is only one way to divide.                                           *)
LEMMA ModUnique ==
  ASSUME NEW n \in Nat \ {0}, NEW q \in Int, NEW r \in 0..(n - 1), NEW a \in Int, a = q * n + r
  PROVE  a % n = r
  <1>1. PICK p \in Int, s \in 0..(n - 1) : s = a % n /\ a = p * n + s
    BY ModFacts
  <1>2. p * n + s = q * n + r
    BY <1>1
  <1>3. (p - q) * n = p * n - q * n
    OBVIOUS
  <1>4. (p - q) * n = r - s
    BY <1>2, <1>3
  <1>5. p - q = 0
    <2>1. PICK d \in Int : d = p - q
      OBVIOUS
    <2>2. d * n = r - s
      BY <1>4, <2>1
    <2>3. -n < d * n /\ d * n < n
      BY <2>2
    <2>4. QED
      BY <2>1, <2>3, NoMultiple
  <1>6. r = s
    BY <1>2, <1>5
  <1>7. QED
    BY <1>1, <1>6

(* The same, with the multiple named.                                         *)
LEMMA ModIs ==
  ASSUME NEW n \in Nat \ {0}, NEW q \in Int, NEW m \in Int, m = q * n,
         NEW r \in 0..(n - 1), NEW a \in Int, a = m + r
  PROVE  a % n = r
  <1>1. a = q * n + r
    OBVIOUS
  <1>2. QED
    BY <1>1, ModUnique

(* Going on from a place, before the end and beyond it.                       *)
LEMMA ModGoesOn ==
  ASSUME NEW n \in Nat \ {0}, NEW a \in Int, NEW d \in Nat
  PROVE  /\ (a % n) + d < n => (a + d) % n = (a % n) + d
         /\ d < n /\ (a % n) + d >= n => (a + d) % n = (a % n) + d - n
         /\ d = n => (a + d) % n = a % n
  <1>1. PICK q \in Int, r \in 0..(n - 1) : r = a % n /\ a = q * n + r
    BY ModFacts
  <1>2. PICK m \in Int : m = q * n
    OBVIOUS
  <1>3. a = m + r
    BY <1>1, <1>2
  <1>4. PICK p \in Int, l \in Int : p = q + 1 /\ l = p * n
    OBVIOUS
  <1>5. l = m + n
    <2>1. (q + 1) * n = q * n + n
      OBVIOUS
    <2>2. QED
      BY <1>2, <1>4, <2>1
  <1>6. ASSUME r + d < n PROVE (a + d) % n = r + d
    <2>1. PICK e \in 0..(n - 1), b \in Int : e = r + d /\ b = a + d /\ b = m + e
      BY <1>3, <1>6
    <2>1a. b = m + e
      BY <2>1
    <2>2. b % n = e
      BY <1>2, <2>1a, ModIs
    <2>3. QED
      BY <2>1, <2>2
  <1>7. ASSUME d < n, r + d >= n PROVE (a + d) % n = r + d - n
    <2>1. PICK e \in 0..(n - 1), b \in Int : e = r + d - n /\ b = a + d /\ b = l + e
      BY <1>3, <1>5, <1>7
    <2>1a. b = l + e
      BY <2>1
    <2>2. b % n = e
      BY <1>4, <2>1a, ModIs
    <2>3. QED
      BY <2>1, <2>2
  <1>8. ASSUME d = n PROVE (a + d) % n = r
    <2>1. PICK b \in Int : b = a + d /\ b = l + r
      BY <1>3, <1>5, <1>8
    <2>1a. b = l + r
      BY <2>1
    <2>2. b % n = r
      BY <1>4, <2>1a, ModIs
    <2>3. QED
      BY <2>1, <2>2
  <1>9. QED
    BY <1>1, <1>6, <1>7, <1>8

-----------------------------------------------------------------------------
(* Sequences                                                                  *)

(* A sequence after another.                                                  *)
LEMMA Joined ==
  ASSUME NEW S, NEW s \in Seq(S), NEW t \in Seq(S)
  PROVE  /\ s \o t \in Seq(S) /\ Len(s \o t) = Len(s) + Len(t)
         /\ \A i \in 1..Len(s) : (s \o t)[i] = s[i]
         /\ \A i \in 1..Len(t) : (s \o t)[Len(s) + i] = t[i]
  OBVIOUS

(* The sends that bytes are of.                                               *)
LEMMA TagsAre ==
  ASSUME NEW t \in Seq(Tagged)
  PROVE  \A i \in DOMAIN t : t[i][1] \in Nat
  BY DEF Tagged

(* What is in it is in one of them.                                           *)
LEMMA InJoined ==
  ASSUME NEW s \in Seq(Tagged), NEW t \in Seq(Tagged)
  PROVE  \A i \in DOMAIN (s \o t) : \/ i \in DOMAIN s /\ (s \o t)[i] = s[i]
                                   \/ \E k \in 1..Len(t) : (s \o t)[i] = t[k]
  <1>1. SUFFICES ASSUME NEW i \in 1..(Len(s) + Len(t)), i \notin DOMAIN s
                 PROVE  \E k \in 1..Len(t) : (s \o t)[i] = t[k]
    OBVIOUS
  <1>2. i - Len(s) \in 1..Len(t) /\ (s \o t)[i] = t[i - Len(s)]
    BY <1>1
  <1>3. QED
    BY <1>2

(* Some of a sequence, from place m + 1 on.                                   *)
LEMMA SomeOf ==
  ASSUME NEW S, NEW s \in Seq(S), NEW m \in Nat, NEW n \in Int, m <= n, n <= Len(s)
  PROVE  /\ SubSeq(s, m + 1, n) \in Seq(S) /\ Len(SubSeq(s, m + 1, n)) = n - m
         /\ \A i \in 1..(n - m) : SubSeq(s, m + 1, n)[i] = s[m + i]
  OBVIOUS

(* Nothing of a sequence.                                                     *)
LEMMA NoneOf ==
  ASSUME NEW S, NEW s \in Seq(S), NEW n \in Int, n < 1
  PROVE  SubSeq(s, 1, n) = <<>>
  OBVIOUS

-----------------------------------------------------------------------------
(* The buffer                                                                 *)

(* What is unread has room in the buffer.                                     *)
Fits(b) == b.bfront <= b.bback /\ b.bback <= b.bfront + BufferSize

(* What can be read in one piece is there, and ends with the buffer unless    *)
(* the buffer is full.                                                        *)
LEMMA BufferLenIs ==
  ASSUME SizesAreNumbers, NEW b \in Io, Fits(b)
  PROVE  /\ BufferFront(b) \in Place /\ BufferBack(b) \in Place
         /\ BufferAvail(b) = BufferSize - BufferBack(b)
         /\ BufferLen(b) \in 0..BufferSize /\ BufferLen(b) <= b.bback - b.bfront
         /\ b.bback - b.bfront = BufferSize \/ BufferFront(b) + BufferLen(b) <= BufferSize
  <1>1. PICK n \in Nat \ {0} : n = BufferSize
    BY DEF SizesAreNumbers
  <1>2. PICK p \in Nat, q \in Nat : p = b.bfront /\ q = b.bback
    BY DEF Io
  <1>3. PICK d \in Nat : q = p + d /\ d <= n
    <2>1. p <= q /\ q <= p + n
      BY <1>1, <1>2 DEF Fits
    <2>2. q - p \in Nat /\ q = p + (q - p) /\ q - p <= n
      BY <2>1
    <2>3. QED
      BY <2>2
  <1>4. PICK r \in 0..(n - 1), s \in 0..(n - 1) : r = p % n /\ s = q % n
    OBVIOUS
  <1>4a. /\ r + d < n => s = r + d
         /\ d < n /\ r + d >= n => s = r + d - n
         /\ d = n => s = r
    <2>0. p \in Int
      OBVIOUS
    <2>1. /\ (p % n) + d < n => (p + d) % n = (p % n) + d
          /\ d < n /\ (p % n) + d >= n => (p + d) % n = (p % n) + d - n
          /\ d = n => (p + d) % n = p % n
      BY <2>0, ModGoesOn, Zenon
    <2>2. s = (p + d) % n
      BY <1>3, <1>4
    <2>3. QED
      BY <1>4, <2>1, <2>2
  <1>5. BufferFront(b) = r /\ BufferBack(b) = s /\ BufferAvail(b) = n - s
    BY <1>1, <1>2, <1>4 DEF BufferFront, BufferBack, BufferAvail
  <1>6. BufferLen(b) = IF r > s THEN n - r ELSE d
    <2>1. q - p = d
      BY <1>3
    <2>2. QED
      BY <1>1, <1>2, <1>5, <2>1 DEF BufferLen
  <1>7. CASE d = n
    <2>1. s = r
      BY <1>4a, <1>7
    <2>2. BufferLen(b) = n
      BY <1>6, <1>7, <2>1
    <2>3. QED
      BY <1>1, <1>2, <1>3, <1>5, <1>7, <2>2 DEF Place
  <1>8. CASE d < n /\ r + d < n
    <2>1. s = r + d
      BY <1>4a, <1>8
    <2>2. BufferLen(b) = d
      BY <1>6, <2>1
    <2>3. QED
      BY <1>1, <1>2, <1>3, <1>5, <1>8, <2>2 DEF Place
  <1>9. CASE d < n /\ r + d >= n
    <2>1. s = r + d - n
      BY <1>4a, <1>9
    <2>2. BufferLen(b) = n - r
      BY <1>6, <1>9, <2>1
    <2>3. QED
      BY <1>1, <1>2, <1>3, <1>5, <1>9, <2>2 DEF Place
  <1>10. QED
    BY <1>3, <1>7, <1>8, <1>9

-----------------------------------------------------------------------------
(* The inductive invariant                                                    *)

(* One fiber at a time connects or binds, and one succeeds.                   *)
SettleInv ==
  /\ \A f, g \in Fibers : Settling(f) /\ Settling(g) => f = g
  /\ settled \in {0, 1}
  /\ settled = 1 => io.k \in {"client", "server"} /\ \A f \in Fibers : ~Settling(f)
  /\ \A f \in Fibers : Settling(f) => io.k = Kind(calls[f].name)

(* The device answers a stream, and what answers is a stream for good.        *)
UpInv ==
  /\ device.up => /\ io.k \in Streaming
                  /\ \A f \in Fibers : Settling(f) =>
                       calls[f].stage = "done" /\ calls[f].result >= 0
  /\ \A f \in Fibers : calls[f].name \in {"recv", "send"} /\ calls[f].stage = "done"
                         /\ calls[f].result >= 0 => device.up

(* What the device has taken of a send that is under way.                     *)
Brought(c) == IF c.stage = "done" /\ c.result > 0 THEN c.result ELSE 0
Written(c) == c.want - Len(c.left) + Brought(c)

Sending(f) == calls[f].name = "send"

(* The bytes of the send id that follow the first w.                          *)
Follows(s, id, w) == \A i \in 1..Len(s) : s[i] = <<id, w + i>>

SendOK(c) ==
  /\ c.id \in 1..made /\ Len(c.left) <= c.want
  /\ Follows(c.left, c.id, c.want - Len(c.left))
  /\ io.k # "file" => Len(c.left) = c.want
  /\ c.stage = "done" => c.result <= Len(c.left)
  /\ TakenOf(c.id, Written(c))

(* Every send has a number, and the bytes the device took of it are its first.*)
SendInv ==
  /\ \A f \in Fibers : Sending(f) => SendOK(calls[f])
  /\ \A f, g \in Fibers : Sending(f) /\ Sending(g) /\ calls[f].id = calls[g].id => f = g
  /\ \A f \in Fibers, s \in sent : Sending(f) => calls[f].id # s.id
  /\ \A s \in sent : s.id <= made /\ (s.k = "file" <=> io.k = "file")
  /\ \A i \in DOMAIN device.taken : device.taken[i][1] <= made
  /\ SendsAreTaken

(* A read under way is directed to the back of the buffer, and what it has    *)
(* brought is what comes next.                                                *)
ReadOK(c) ==
  /\ c.place = BufferBack(io)
  /\ c.stage = "asked" => c.room = BufferSize - c.place
  /\ device.given = io.bback + Brought(c)
  /\ c.place + Brought(c) <= BufferSize
  /\ io.bback + Brought(c) <= io.bfront + BufferSize
  /\ \A j \in 0..(Brought(c) - 1) : io.buffer[c.place + j] = io.bback + j + 1

OneReader == \A f, g \in Fibers : Reading(f) /\ Reading(g) => f = g

Pending ==
  /\ (\A f \in Fibers : ~Reading(f)) => device.given = io.bback
  /\ \A f \in Fibers : Reading(f) => ReadOK(calls[f])

Buffered ==
  /\ Fits(io)
  /\ \A i \in io.bfront..(io.bback - 1) : io.buffer[i % BufferSize] = i + 1

(* A receive keeps less than it wants until it has it all.                    *)
RecvOK(c) ==
  /\ c.got # <<>> => Len(c.got) < c.want
  /\ c.stage = "copy" => /\ c.place + c.room <= BufferSize
                         /\ c.want # 0 => Len(c.got) + c.room <= c.want
                         /\ ~c.ended => c.room >= 1

AnswerOK(a) ==
  /\ a.want # 0 => Len(a.bytes) <= a.want
  /\ ~a.ended => Len(a.bytes) \in IF a.want = 0 THEN 1..BufferSize ELSE {a.want}

(* What answers hold and what is on its way: every byte that has left the     *)
(* buffer, once and in order (the pieces of BytesAreWhole, by kind).          *)
Apart(s, t) == ToSet(s) \cap ToSet(t) = {}

Answered == UNION {ToSet(heard[i].bytes) : i \in DOMAIN heard}
OnItsWay == UNION {ToSet(Carried(f)) : f \in Fibers}

Whole ==
  /\ Answered \cup OnItsWay = 1..io.bfront
  /\ \A i \in DOMAIN heard : Increasing(heard[i].bytes)
  /\ \A f \in Fibers : Increasing(Carried(f))
  /\ \A i, j \in DOMAIN heard : i # j => Apart(heard[i].bytes, heard[j].bytes)
  /\ \A i \in DOMAIN heard, f \in Fibers : Apart(heard[i].bytes, Carried(f))
  /\ \A f, g \in Fibers : f # g => Apart(Carried(f), Carried(g))

ReadInv ==
  odd = {} =>
    /\ OneReader /\ Pending /\ Buffered
    /\ \A f \in Fibers : RecvOK(calls[f])
    /\ \A i \in DOMAIN heard : AnswerOK(heard[i])
    /\ Whole

IInv == TypeOK /\ SettleInv /\ UpInv /\ SendInv /\ ReadInv

-----------------------------------------------------------------------------
(* What the natives change                                                    *)

(* The call of f becomes c.                                                   *)
Becomes(f, c) ==
  /\ c \in Call /\ Staged(c) /\ calls' = [calls EXCEPT ![f] = c]
  /\ c.stage = "done" /\ c.result >= 0 /\ c.name \in {"recv", "send"} =>
       device.up

(* A receive leaves alone what sends and connects look at.                    *)
RecvLike(f) ==
  /\ io' \in Io /\ io'.k = io.k
  /\ device' \in Device /\ device'.up = device.up /\ device'.taken = device.taken
  /\ made' \in Nat /\ made <= made' /\ sent' = sent /\ settled' = settled
  /\ heard' \in Seq(Answer)
  /\ calls[f].name \in {"none", "recv"}
  /\ \E c : Becomes(f, c) /\ c.name \in {"none", "recv"}

(* A send, what receives and connects look at.                                *)
SendLike(f) ==
  /\ io' \in Io /\ io'.k = io.k
  /\ io'.bfront = io.bfront /\ io'.bback = io.bback /\ io'.buffer = io.buffer
  /\ device' \in Device /\ device'.up = device.up /\ device'.given = device.given
  /\ made' \in Nat /\ made <= made' /\ sent' \subseteq Receipt
  /\ heard' = heard /\ settled' = settled
  /\ calls[f].name \in {"none", "send"}
  /\ \E c : Becomes(f, c) /\ c.name \in {"none", "send"}

(* A connect or bind, what receives and sends look at.                        *)
SettleLike(f) ==
  /\ io' \in Io /\ io'.bfront = io.bfront /\ io'.bback = io.bback /\ io'.buffer = io.buffer
  /\ device' \in Device /\ device'.taken = device.taken /\ device'.given = device.given
  /\ made' \in Nat /\ made <= made' /\ settled' \in Nat
  /\ heard' = heard /\ sent' = sent
  /\ calls[f].name \in {"none", "connect", "bind"}
  /\ \E c : Becomes(f, c) /\ c.name \in {"none", "connect", "bind"}

(* No call is at no stage.                                                    *)
LEMMA IdleIs == Idle \in Call /\ Staged(Idle) /\ Idle.name = "none" /\ Idle.stage = "idle"
                /\ Idle.got = <<>>
  BY DEF Idle, Call, Staged, Names, Stages

(* The parts of an io object and of a call.                                   *)
LEMMA Parts ==
  ASSUME TypeOK, NEW f \in Fibers
  PROVE  /\ calls[f] \in Call /\ Staged(calls[f])
         /\ io \in Io /\ device \in Device
  BY DEF TypeOK

(* A fiber that is in no call.                                                *)
LEMMA IdleHasNoName ==
  ASSUME TypeOK, NEW f \in Fibers, calls[f].stage = "idle"
  PROVE  calls[f].name = "none"
  BY DEF TypeOK, Staged

(* The lesser of two numbers.                                                 *)
LEMMA LesserIs ==
  ASSUME NEW a \in Int, NEW b \in Int
  PROVE  /\ Lesser(a, b) \in Int /\ Lesser(a, b) <= a /\ Lesser(a, b) <= b
         /\ Lesser(a, b) = a \/ Lesser(a, b) = b
  BY DEF Lesser

(* A call that stays as it was.                                               *)
LEMMA StaysCall ==
  ASSUME TypeOK, NEW f \in Fibers, calls' = calls, calls[f].stage = "idle"
  PROVE  Becomes(f, calls[f])
  BY DEF TypeOK, Becomes

(* A round of a receive, without its arithmetic.                              *)
LEMMA RoundIs ==
  ASSUME SizesAreNumbers, TypeOK, NEW f \in Fibers, NEW b \in Io, NEW c \in Call,
         c.name = "recv", b.k = io.k, Fits(b), IobufRecv(f, b, c)
  PROVE  /\ io' \in Io /\ io'.k = io.k
         /\ \E d : Becomes(f, d) /\ d.name = "recv"
         /\ heard' = heard /\ sent' = sent /\ settled' = settled
  <1> DEFINE available == BufferLen(b)
             len == IF Need(c) = 0 THEN available ELSE Need(c)
             consume == Lesser(len, available)
  <1>1. heard' = heard /\ sent' = sent /\ settled' = settled
    BY DEF IobufRecv
  <1>2. CASE AskRead(f, b, c)
    <2>1. BufferBack(b) \in Nat /\ BufferAvail(b) \in Nat
      BY DEF BufferBack, BufferAvail, SizesAreNumbers, Io
    <2>2. PICK d : d = [c EXCEPT !.stage = "asked", !.place = BufferBack(b), !.room = BufferAvail(b)]
      OBVIOUS
    <2>3. d \in Call /\ Staged(d) /\ d.name = "recv" /\ d.stage = "asked"
      BY <2>1, <2>2 DEF Call, Staged, Stages
    <2>4. io' = b /\ calls' = [calls EXCEPT ![f] = d]
      BY <1>2, <2>2 DEF AskRead, Set
    <2>5. QED
      BY <1>1, <2>3, <2>4 DEF Becomes
  <1>3. ASSUME NEW n \in Nat, Take(f, b, c, n)
        PROVE  /\ io' \in Io /\ io'.k = io.k
               /\ \E d : Becomes(f, d) /\ d.name = "recv"
    <2>1. BufferFront(b) \in Nat
      BY DEF BufferFront, SizesAreNumbers, Io
    <2>2. PICK d : d = [c EXCEPT !.stage = "copy", !.place = BufferFront(b), !.room = n]
      OBVIOUS
    <2>3. d \in Call /\ Staged(d) /\ d.name = "recv" /\ d.stage = "copy"
      BY <2>1, <2>2 DEF Call, Staged, Stages
    <2>4. io' = [b EXCEPT !.bfront = @ + n] /\ calls' = [calls EXCEPT ![f] = d]
      BY <1>3, <2>2 DEF Take, Set
    <2>5. io' \in Io /\ io'.k = io.k
      BY <2>4 DEF Io
    <2>6. QED
      BY <2>3, <2>4, <2>5 DEF Becomes
  <1>4. consume \in Nat
    <2>1. available \in Nat
      BY BufferLenIs
    <2>2. len \in Nat
      <3>1. PICK w \in Nat, l \in Nat, n \in Nat : w = c.want /\ l = Len(c.got) /\ n = BufferSize
        BY DEF Call, SizesAreNumbers
      <3>2. Need(c) = IF l > w THEN n ELSE Lesser(w - l, n)
        BY <3>1 DEF Need
      <3>3. Need(c) \in Nat
        BY <3>2 DEF Lesser
      <3>4. QED
        BY <2>1, <3>3
    <2>3. QED
      BY <2>1, <2>2 DEF Lesser
  <1>5. AskRead(f, b, c) \/ Take(f, b, c, consume)
    BY DEF IobufRecv
  <1> HIDE DEF consume
  <1>6. QED
    BY <1>1, <1>2, <1>3, <1>4, <1>5

(* A receive that has failed.                                                 *)
LEMMA EndIs ==
  ASSUME NEW f \in Fibers, End(f)
  PROVE  Becomes(f, Idle)
  BY IdleIs DEF End, Set, Becomes

(* The steps of a receive.                                                    *)
LEMMA RecvIs ==
  ASSUME SizesAreNumbers, IInv, NEW f \in Fibers, Recv(f)
  PROVE  RecvLike(f)
  <1>1. TypeOK /\ odd = {} /\ calls[f].stage = "idle" /\ made' = made + 1 /\ device' = device
    BY DEF Recv, NewCall, Runs, IInv
  <1>2. calls[f].name = "none" /\ Fits(io)
    BY <1>1, IdleHasNoName DEF IInv, ReadInv, Buffered
  <1>3. PICK want \in Wants :
          IF io.k \in Streaming
          THEN IobufRecv(f, io, [Idle EXCEPT !.name = "recv", !.want = want])
          ELSE UNCHANGED <<io, calls, heard, sent, settled, odd>>
    BY DEF Recv
  <1>4. /\ io' \in Io /\ io'.k = io.k /\ sent' = sent /\ settled' = settled
        /\ heard' = heard /\ \E d : Becomes(f, d) /\ d.name \in {"none", "recv"}
    <2>1. CASE io.k \in Streaming
      <3>1. PICK c : c = [Idle EXCEPT !.name = "recv", !.want = want]
        OBVIOUS
      <3>2. c \in Call /\ c.name = "recv"
        BY <3>1, IdleIs DEF Call, Names, SizesAreNumbers
      <3>3. io \in Io /\ IobufRecv(f, io, c)
        BY <1>1, <1>3, <2>1, <3>1 DEF TypeOK
      <3>4. QED
        BY <1>1, <1>2, <3>2, <3>3, RoundIs
    <2>2. CASE io.k \notin Streaming
      BY <1>1, <1>2, <1>3, <2>2, StaysCall DEF TypeOK
    <2>3. QED
      BY <2>1, <2>2
  <1>5. QED
    BY <1>1, <1>2, <1>4 DEF RecvLike, TypeOK

(* What iobuf_recv changes when it asks for more.                             *)
LEMMA ReadMoreIs ==
  ASSUME SizesAreNumbers, IInv, NEW f \in Fibers, ReadMore(f)
  PROVE  RecvLike(f)
  <1>1. TypeOK /\ odd = {} /\ calls[f].name = "recv" /\ made' = made /\ device' = device
    BY DEF ReadMore, In, Runs, IInv
  <1>2. calls[f] \in Call /\ Fits(io) /\ io \in Io
    BY <1>1 DEF IInv, TypeOK, ReadInv, Buffered
  <1>3. /\ io' \in Io /\ io'.k = io.k /\ sent' = sent /\ settled' = settled
        /\ heard' = heard /\ \E d : Becomes(f, d) /\ d.name \in {"none", "recv"}
    <2>1. CASE IobufRecv(f, io, calls[f])
      BY <1>1, <1>2, <2>1, RoundIs
    <2>2. CASE Fail(f)
      BY <1>2, <2>2, EndIs, IdleIs DEF Fail
    <2>3. QED
      BY <2>1, <2>2 DEF ReadMore
  <1>4. QED
    BY <1>1, <1>3 DEF RecvLike, TypeOK

(* What the answer of the device to a read changes.                           *)
LEMMA ResumeRecvIs ==
  ASSUME SizesAreNumbers, IInv, NEW f \in Fibers, ResumeRecv(f)
  PROVE  RecvLike(f)
  <1>1. TypeOK /\ odd = {} /\ made' = made /\ device' = device
        /\ calls[f].name = "recv" /\ calls[f].stage = "done"
    BY DEF ResumeRecv, In, Runs, IInv
  <1>2. PICK c \in Call : c = calls[f] /\ c.name = "recv"
    BY <1>1 DEF TypeOK
  <1>3. Fits(io) /\ io \in Io
    BY <1>1 DEF IInv, TypeOK, ReadInv, Buffered
  <1>4. /\ io' \in Io /\ io'.k = io.k /\ sent' = sent /\ settled' = settled
        /\ heard' = heard /\ \E d : Becomes(f, d) /\ d.name \in {"none", "recv"}
    <2>1. CASE Fail(f)
      BY <1>3, <2>1, EndIs, IdleIs DEF Fail
    <2>2. CASE c.result > 0 /\ IobufRecv(f, [io EXCEPT !.bback = @ + c.result], c)
      <3>1. PICK b : b = [io EXCEPT !.bback = @ + c.result]
        OBVIOUS
      <3>2. b \in Io /\ b.k = io.k /\ b.bback = io.bback + c.result /\ b.bfront = io.bfront
        <4>1. PICK r \in Nat : r = c.result
          BY <2>2 DEF Call
        <4>2. b = [io EXCEPT !.bback = @ + r]
          BY <3>1, <4>1
        <4>3. QED
          BY <1>3, <4>1, <4>2 DEF Io
      <3>3. Fits(b)
        <4>1. ReadOK(calls[f])
          BY <1>1 DEF IInv, ReadInv, Pending, Reading
        <4>2. io.bback + c.result <= io.bfront + BufferSize
          BY <1>1, <1>2, <2>2, <4>1 DEF ReadOK, Brought
        <4>3. io.bback \in Nat /\ io.bfront \in Nat /\ c.result \in Int
          BY <1>3 DEF Io, Call
        <4>4. QED
          BY <1>3, <2>2, <3>2, <4>2, <4>3 DEF Fits
      <3>4. QED
        BY <1>1, <1>2, <2>2, <3>1, <3>2, <3>3, RoundIs
    <2>3. CASE Abort
      <3>1. Becomes(f, c)
        BY <1>1, <1>2, <2>3 DEF Abort, Becomes, TypeOK, IInv, UpInv
      <3>2. QED
        BY <1>2, <1>3, <2>3, <3>1 DEF Abort
    <2>4. CASE /\ Take(f, io, [c EXCEPT !.ended = TRUE], BufferLen(io))
               /\ UNCHANGED <<heard, sent, settled>>
      <3>1. BufferLen(io) \in Nat /\ BufferFront(io) \in Nat
        BY <1>3, BufferLenIs DEF SizesAreNumbers, Place
      <3>2. PICK e : e = [c EXCEPT !.ended = TRUE]
        OBVIOUS
      <3>3. e \in Call /\ e.name = "recv"
        BY <1>2, <3>2 DEF Call
      <3>4. PICK d : d = [e EXCEPT !.stage = "copy", !.place = BufferFront(io), !.room = BufferLen(io)]
        OBVIOUS
      <3>5. d \in Call /\ Staged(d) /\ d.name = "recv" /\ d.stage = "copy"
        BY <3>1, <3>3, <3>4 DEF Call, Staged, Stages
      <3>6. io' = [io EXCEPT !.bfront = @ + BufferLen(io)] /\ calls' = [calls EXCEPT ![f] = d]
        BY <2>4, <3>2, <3>4 DEF Take, Set
      <3>7. io' \in Io /\ io'.k = io.k
        BY <1>3, <3>1, <3>6 DEF Io
      <3>8. QED
        BY <2>4, <3>5, <3>6, <3>7 DEF Becomes
    <2>5. QED
      BY <1>2, <2>1, <2>2, <2>3, <2>4 DEF ResumeRecv
  <1>5. QED
    BY <1>1, <1>4 DEF RecvLike, TypeOK

(* A read that brings n bytes, or fails.                                      *)
LEMMA DeviceReadsIs ==
  ASSUME SizesAreNumbers, IInv, NEW f \in Fibers, DeviceReads(f)
  PROVE  RecvLike(f)
  <1>1. TypeOK /\ odd = {} /\ calls[f].name = "recv" /\ calls[f].stage = "asked"
        /\ made' = made /\ sent' = sent /\ settled' = settled /\ heard' = heard
    BY DEF DeviceReads, In, Runs, IInv
  <1>2. PICK c \in Call : c = calls[f] /\ c.name = "recv"
    BY <1>1 DEF TypeOK
  <1>3. PICK place \in Nat, room \in Nat, given \in Nat :
          place = c.place /\ room = c.room /\ given = device.given
    BY <1>1 DEF Call, TypeOK, Device
  <1>4. PICK n \in -1..Lesser(calls[f].room, MostIn - device.given) :
          /\ n >= 0 => device.up
          /\ io' = [io EXCEPT !.buffer = [i \in DOMAIN io.buffer |->
                      IF i \in calls[f].place..(calls[f].place + n - 1)
                      THEN device.given + 1 + i - calls[f].place ELSE io.buffer[i]]]
          /\ device' = [device EXCEPT !.given = IF n > 0 THEN device.given + n ELSE device.given]
          /\ calls' = [calls EXCEPT ![f] = [calls[f] EXCEPT !.stage = "done", !.result = n]]
    BY Zenon DEF DeviceReads, Set
  <1>5. n \in Int
    BY <1>4
  <1>6. io \in Io /\ device \in Device
    BY <1>1 DEF TypeOK
  <1>7. io' \in Io /\ io'.k = io.k
    <2>1. PICK buffer : buffer = [i \in DOMAIN io.buffer |->
                          IF i \in place..(place + n - 1) THEN given + 1 + i - place
                          ELSE io.buffer[i]]
      OBVIOUS
    <2>2. buffer \in [Place -> Nat]
      <3>1. DOMAIN io.buffer = Place /\ \A i \in Place : io.buffer[i] \in Nat /\ i \in Nat
        BY <1>6 DEF Io, Place, SizesAreNumbers
      <3>2. SUFFICES ASSUME NEW i \in Place PROVE buffer[i] \in Nat
        BY <2>1, <3>1
      <3>3. i \in place..(place + n - 1) => given + 1 + i - place \in Nat
        BY <1>5, <3>1
      <3>4. QED
        BY <2>1, <3>1, <3>3
    <2>3. io' = [io EXCEPT !.buffer = buffer]
      BY <1>2, <1>3, <1>4, <2>1
    <2>4. QED
      BY <1>6, <2>2, <2>3 DEF Io
  <1>8. device' \in Device /\ device'.up = device.up /\ device'.taken = device.taken
    <2>1. PICK m \in Nat : m = IF n > 0 THEN given + n ELSE given
      BY <1>5
    <2>2. device' = [device EXCEPT !.given = m]
      BY <1>3, <1>4, <2>1
    <2>3. QED
      BY <1>6, <2>2 DEF Device
  <1>9. PICK d : d = [c EXCEPT !.stage = "done", !.result = n]
    OBVIOUS
  <1>10. d \in Call /\ Staged(d) /\ d.name = "recv" /\ d.result = n
    BY <1>2, <1>5, <1>9 DEF Call, Staged, Stages
  <1>11. device'.up = device.up /\ Becomes(f, d)
    BY <1>2, <1>4, <1>8, <1>9, <1>10 DEF Becomes
  <1>12. QED
    BY <1>1, <1>7, <1>8, <1>10, <1>11 DEF RecvLike, TypeOK

(* What lies in the buffer, and beyond its end.                               *)
LEMMA PieceIsSeq ==
  ASSUME SizesAreNumbers, NEW b \in [Place -> Nat], b = io.buffer,
         NEW place \in Nat, NEW room \in Nat
  PROVE  [i \in 1..room |-> BufferByte(place + i - 1)] \in Seq(Nat)
  <1>1. ASSUME NEW i \in 1..room PROVE BufferByte(place + i - 1) \in Nat
    <2>1. PICK p \in Nat : p = place + i - 1
      OBVIOUS
    <2>2. p < BufferSize => p \in Place
      BY DEF Place, SizesAreNumbers
    <2>3. BufferByte(p) \in Nat
      BY <2>2 DEF BufferByte
    <2>4. QED
      BY <2>1, <2>3
  <1>2. QED
    BY <1>1

(* What the copy of one stretch of the ring changes.                          *)
LEMMA CopyIs ==
  ASSUME SizesAreNumbers, IInv, NEW f \in Fibers, Copy(f)
  PROVE  RecvLike(f)
  <1>1. TypeOK /\ odd = {} /\ calls[f].name = "recv" /\ calls[f].stage = "copy"
        /\ made' = made /\ sent' = sent /\ settled' = settled /\ io' = io /\ device' = device
    BY DEF Copy, In, Runs, IInv
  <1>2. PICK c \in Call : c = calls[f] /\ c.name = "recv"
    BY <1>1 DEF TypeOK
  <1>3. PICK piece \in Seq(Nat) : piece = [i \in 1..c.room |-> BufferByte(c.place + i - 1)]
    <2>1. io.buffer \in [Place -> Nat]
      BY <1>1 DEF TypeOK, Io
    <2>2. c.place \in Nat /\ c.room \in Nat
      BY DEF Call
    <2>3. QED
      BY <2>1, <2>2, PieceIsSeq
  <1>4. c.got \in Seq(Nat) /\ c.want \in Nat /\ c.ended \in BOOLEAN
    BY DEF Call
  <1>5. PICK kept \in Seq(Nat) : kept = IF c.got = <<>> THEN <<>> ELSE c.got \o piece
    <2>1. c.got \o piece \in Seq(Nat)
      BY <1>4, Joined
    <2>2. <<>> \in Seq(Nat)
      OBVIOUS
    <2>3. CASE c.got = <<>>
      BY <2>2, <2>3
    <2>4. CASE c.got # <<>>
      BY <2>1, <2>4
    <2>5. QED
      BY <2>3, <2>4
  <1>6. \/ /\ Set(f, [c EXCEPT !.stage = "more", !.got = kept \o piece])
           /\ UNCHANGED heard
        \/ /\ End(f)
           /\ heard' = Append(heard, [want |-> c.want, ended |-> c.ended,
                                      bytes |-> IF c.got = <<>> THEN piece ELSE kept])
    BY <1>2, <1>3, <1>5 DEF Copy
  <1>7. heard' \in Seq(Answer) /\ \E d : Becomes(f, d) /\ d.name \in {"none", "recv"}
    <2>1. CASE /\ Set(f, [c EXCEPT !.stage = "more", !.got = kept \o piece])
               /\ UNCHANGED heard
      <3>1. PICK got \in Seq(Nat) : got = kept \o piece
        BY Joined
      <3>2. PICK d : d = [c EXCEPT !.stage = "more", !.got = got]
        OBVIOUS
      <3>3. d \in Call /\ Staged(d) /\ d.name = "recv" /\ d.stage = "more"
        BY <1>2, <3>2 DEF Call, Staged, Stages
      <3>4. calls' = [calls EXCEPT ![f] = d] /\ heard' = heard
        BY <2>1, <3>1, <3>2 DEF Set
      <3>5. QED
        BY <1>1, <3>3, <3>4 DEF Becomes, TypeOK
    <2>2. CASE /\ End(f)
               /\ heard' = Append(heard, [want |-> c.want, ended |-> c.ended,
                                          bytes |-> IF c.got = <<>> THEN piece ELSE kept])
      <3>1. PICK bytes \in Seq(Nat) : bytes = IF c.got = <<>> THEN piece ELSE kept
        OBVIOUS
      <3>2. PICK a \in Answer : a = [want |-> c.want, ended |-> c.ended, bytes |-> bytes]
        BY <1>4 DEF Answer
      <3>3. heard' = Append(heard, a)
        BY <2>2, <3>1, <3>2
      <3>4. heard' \in Seq(Answer)
        BY <1>1, <3>3 DEF TypeOK
      <3>5. QED
        BY <2>2, <3>4, EndIs, IdleIs
    <2>3. QED
      BY <1>6, <2>1, <2>2
  <1>8. QED
    BY <1>1, <1>7 DEF RecvLike, TypeOK

(* What a send has left to write, and what an answered one is noted as.       *)
LEMMA PayloadIs ==
  ASSUME NEW id \in Nat, NEW n \in Nat
  PROVE  /\ Payload(id, n) \in Seq(Tagged) /\ Len(Payload(id, n)) = n
         /\ Follows(Payload(id, n), id, 0)
  BY DEF Payload, Tagged, Follows

(* A send that ends, and one that panics.                                     *)
LEMMA SendEnds ==
  ASSUME TypeOK, NEW f \in Fibers, io.k \in Streaming, Sent(f)
  PROVE  io' = io /\ sent' \subseteq Receipt /\ Becomes(f, Idle)
  <1>1. calls[f].id \in Nat /\ calls[f].want \in Nat
    BY DEF TypeOK, Call
  <1>2. [id |-> calls[f].id, len |-> calls[f].want, k |-> io.k] \in Receipt
    BY <1>1 DEF Receipt
  <1>3. QED
    BY <1>2, EndIs DEF Sent, TypeOK

(* What a send changes.                                                       *)
LEMMA SendIs ==
  ASSUME SizesAreNumbers, IInv, NEW f \in Fibers, Send(f)
  PROVE  SendLike(f)
  <1>1. TypeOK /\ odd = {} /\ calls[f].stage = "idle" /\ made' = made + 1 /\ device' = device
        /\ heard' = heard /\ settled' = settled /\ made \in Nat /\ io \in Io
    BY DEF Send, NewCall, Runs, IInv, TypeOK
  <1>2. calls[f].name = "none"
    BY <1>1, IdleHasNoName
  <1>3. PICK n \in Lengths :
          IF io.k \in Streaming
          THEN AskWrite(f, [Idle EXCEPT !.name = "send", !.want = n, !.id = made'],
                        Payload(made', n))
          ELSE SendPanics(f)
    BY DEF Send
  <1>4. n \in Nat /\ made' \in Nat
    BY <1>1 DEF SizesAreNumbers
  <1>5. CASE io.k \in Streaming
    <2>1. PICK left \in Seq(Tagged) : left = Payload(made', n)
      BY <1>4, PayloadIs
    <2>2. PICK c : c = [Idle EXCEPT !.name = "send", !.want = n, !.id = made']
      OBVIOUS
    <2>3. c \in Call /\ c.name = "send" /\ c.got = <<>>
      BY <1>4, <2>2, IdleIs DEF Call, Names
    <2>4. PICK d : d = [c EXCEPT !.stage = "asked", !.left = left]
      OBVIOUS
    <2>5. d \in Call /\ Staged(d) /\ d.name = "send" /\ d.stage = "asked"
      BY <2>3, <2>4 DEF Call, Staged, Stages
    <2>6. calls' = [calls EXCEPT ![f] = d] /\ io' = io /\ sent' = sent
      BY <1>3, <1>5, <2>1, <2>2, <2>4 DEF AskWrite, Set
    <2>7. Becomes(f, d)
      BY <2>5, <2>6 DEF Becomes
    <2>8. sent' \subseteq Receipt /\ device' \in Device /\ made <= made'
      BY <1>1, <2>6 DEF TypeOK
    <2>9. QED
      BY <1>1, <1>2, <1>4, <2>5, <2>6, <2>7, <2>8 DEF SendLike
  <1>6. CASE io.k \notin Streaming
    <2>1. io' = [io EXCEPT !.locked = TRUE] /\ sent' = sent /\ End(f)
      BY <1>3, <1>6 DEF SendPanics
    <2>2. io' \in Io /\ io'.k = io.k /\ io'.bfront = io.bfront /\ io'.bback = io.bback
          /\ io'.buffer = io.buffer
      BY <1>1, <2>1 DEF Io
    <2>3. QED
      BY <1>1, <1>2, <1>4, <2>1, <2>2, EndIs, IdleIs DEF SendLike, TypeOK
  <1>7. QED
    BY <1>5, <1>6

(* What the device changes when it writes.                                    *)
LEMMA DeviceWritesIs ==
  ASSUME SizesAreNumbers, IInv, NEW f \in Fibers, DeviceWrites(f)
  PROVE  SendLike(f)
  <1>1. TypeOK /\ odd = {} /\ calls[f].name = "send" /\ calls[f].stage = "asked"
        /\ io' = io /\ made' = made /\ heard' = heard /\ sent' = sent /\ settled' = settled
    BY DEF DeviceWrites, In, Runs, IInv
  <1>2. PICK c \in Call : c = calls[f] /\ c.name = "send" /\ c.got = <<>>
    BY <1>1 DEF TypeOK, Staged
  <1>3. PICK n \in -1..Len(calls[f].left) :
          /\ n >= 0 => device.up
          /\ device' = [device EXCEPT !.taken = device.taken \o SubSeq(calls[f].left, 1, n)]
          /\ calls' = [calls EXCEPT ![f] = [calls[f] EXCEPT !.stage = "done", !.result = n]]
    BY Zenon DEF DeviceWrites, Set
  <1>4. n \in Int /\ n <= Len(c.left)
    BY <1>2, <1>3 DEF Call
  <1>5. PICK more \in Seq(Tagged) : more = SubSeq(c.left, 1, n)
    <2>1. c.left \in Seq(Tagged)
      BY DEF Call
    <2>2. n >= 0 => SubSeq(c.left, 0 + 1, n) \in Seq(Tagged)
      BY <1>4, <2>1, SomeOf
    <2>3. n < 1 => SubSeq(c.left, 1, n) = <<>>
      BY <1>4, <2>1, NoneOf
    <2>4. <<>> \in Seq(Tagged)
      OBVIOUS
    <2>5. SubSeq(c.left, 1, n) \in Seq(Tagged)
      BY <1>4, <2>2, <2>3, <2>4
    <2>6. QED
      BY <2>5
  <1>6. device' \in Device /\ device'.up = device.up /\ device'.given = device.given
    <2>0. device.taken \in Seq(Tagged)
      BY <1>1 DEF TypeOK, Device
    <2>1. PICK taken \in Seq(Tagged) : taken = device.taken \o more
      BY <2>0, Joined
    <2>2. device' = [device EXCEPT !.taken = taken]
      BY <1>2, <1>3, <1>5, <2>1
    <2>3. QED
      BY <1>1, <2>2 DEF TypeOK, Device
  <1>7. PICK d : d = [c EXCEPT !.stage = "done", !.result = n]
    OBVIOUS
  <1>8. d \in Call /\ Staged(d) /\ d.name = "send" /\ d.result = n
    BY <1>2, <1>4, <1>7 DEF Call, Staged, Stages
  <1>9. Becomes(f, d)
    BY <1>2, <1>3, <1>7, <1>8 DEF Becomes
  <1>10. QED
    BY <1>1, <1>6, <1>8, <1>9 DEF SendLike, TypeOK

(* What the answer of the device to a write changes.                          *)
LEMMA ResumeSendIs ==
  ASSUME SizesAreNumbers, IInv, NEW f \in Fibers, ResumeSend(f)
  PROVE  SendLike(f)
  <1>1. TypeOK /\ odd = {} /\ calls[f].name = "send" /\ calls[f].stage = "done"
        /\ made' = made /\ device' = device /\ heard' = heard /\ settled' = settled
    BY DEF ResumeSend, In, Runs, IInv
  <1>2. PICK c \in Call : c = calls[f] /\ c.name = "send" /\ c.stage = "done" /\ c.got = <<>>
    BY <1>1 DEF TypeOK, Staged
  <1>3. io \in Io /\ made \in Nat /\ device \in Device
    BY <1>1 DEF TypeOK
  <1>4. /\ io' \in Io /\ io'.k = io.k
        /\ io'.bfront = io.bfront /\ io'.bback = io.bback /\ io'.buffer = io.buffer
        /\ sent' \subseteq Receipt /\ \E d : Becomes(f, d) /\ d.name \in {"none", "send"}
    <2>1. CASE End(f) /\ UNCHANGED <<io, sent, odd>>
      BY <1>1, <1>3, <2>1, EndIs, IdleIs DEF TypeOK
    <2>2. CASE io.k \in Streaming /\ Sent(f)
      BY <1>1, <1>3, <2>2, SendEnds, IdleIs
    <2>3. CASE SendPanics(f)
      <3>1. io' = [io EXCEPT !.locked = TRUE] /\ sent' = sent /\ End(f)
        BY <2>3 DEF SendPanics
      <3>2. io' \in Io /\ io'.k = io.k /\ io'.bfront = io.bfront /\ io'.bback = io.bback
            /\ io'.buffer = io.buffer
        BY <1>3, <3>1 DEF Io
      <3>3. QED
        BY <1>1, <3>1, <3>2, EndIs, IdleIs DEF TypeOK
    <2>4. CASE UNCHANGED <<io, calls, sent>>
      <3>1. Becomes(f, c)
        BY <1>1, <1>2, <2>4 DEF Becomes, TypeOK, IInv, UpInv
      <3>2. QED
        BY <1>1, <1>2, <1>3, <2>4, <3>1 DEF TypeOK
    <2>5. CASE c.result >= 0 /\ c.result < Len(c.left)
               /\ AskWrite(f, c, SubSeq(c.left, c.result + 1, Len(c.left)))
      <3>1. c.left \in Seq(Tagged) /\ c.result \in Nat
        BY <2>5 DEF Call
      <3>2. PICK left \in Seq(Tagged) : left = SubSeq(c.left, c.result + 1, Len(c.left))
        <4>1. Len(c.left) \in Int /\ c.result <= Len(c.left)
          BY <2>5, <3>1
        <4>2. SubSeq(c.left, c.result + 1, Len(c.left)) \in Seq(Tagged)
          BY <3>1, <4>1, SomeOf
        <4>3. QED
          BY <4>2
      <3>3. PICK d : d = [c EXCEPT !.stage = "asked", !.left = left]
        OBVIOUS
      <3>4. d \in Call /\ Staged(d) /\ d.name = "send" /\ d.stage = "asked"
        BY <1>2, <3>3 DEF Call, Staged, Stages
      <3>5. calls' = [calls EXCEPT ![f] = d] /\ io' = io /\ sent' = sent
        BY <2>5, <3>2, <3>3 DEF AskWrite, Set
      <3>6. QED
        BY <1>1, <1>3, <3>4, <3>5 DEF Becomes, TypeOK
    <2>6. CASE io.k = "file"
      <3>1. c.result \in Int /\ Len(c.left) \in Nat
        BY DEF Call
      <3>2. ResumeFileSend(f, c)
        BY <1>2, <2>6 DEF ResumeSend
      <3>3. io.k \in Streaming
        BY <2>6 DEF Streaming
      <3>4. QED
        BY <2>1, <2>2, <2>5, <3>1, <3>2, <3>3 DEF ResumeFileSend
    <2>7. CASE io.k = "client"
      <3>1. ResumeSockSend(f, c)
        BY <1>2, <2>7 DEF ResumeSend
      <3>2. io.k \in Streaming
        BY <2>7 DEF Streaming
      <3>3. QED
        BY <2>1, <2>2, <2>4, <3>1, <3>2 DEF ResumeSockSend
    <2>8. CASE io.k \notin {"file", "client"}
      BY <2>3, <2>8 DEF ResumeSend
    <2>9. QED
      BY <2>6, <2>7, <2>8
  <1>5. QED
    BY <1>1, <1>3, <1>4 DEF SendLike

(* The steps of a connect or bind.                                            *)
LEMMA SettleIs ==
  ASSUME SizesAreNumbers, IInv, NEW f \in Fibers, Settle(f)
  PROVE  SettleLike(f)
  <1>1. TypeOK /\ odd = {} /\ calls[f].stage = "idle" /\ made' = made + 1 /\ device' = device
        /\ io' = io /\ heard' = heard /\ sent' = sent /\ settled' = settled
        /\ made \in Nat /\ settled \in Nat /\ io \in Io /\ device \in Device
    BY DEF Settle, NewCall, Runs, IInv, TypeOK
  <1>2. calls[f].name = "none"
    BY <1>1, IdleHasNoName
  <1>3. \E d : Becomes(f, d) /\ d.name \in {"none", "connect", "bind"}
    <2>1. CASE calls' = calls
      BY <1>1, <1>2, <2>1, StaysCall
    <2>2. ASSUME NEW name \in {"connect", "bind"},
                 Set(f, [Idle EXCEPT !.name = name, !.stage = "seen"])
          PROVE  \E d : Becomes(f, d) /\ d.name \in {"none", "connect", "bind"}
      <3>1. PICK d : d = [Idle EXCEPT !.name = name, !.stage = "seen"]
        OBVIOUS
      <3>2. d \in Call /\ Staged(d) /\ d.name = name /\ d.stage = "seen"
        BY <3>1, IdleIs DEF Call, Names, Stages, Staged
      <3>3. calls' = [calls EXCEPT ![f] = d]
        BY <2>2, <3>1 DEF Set
      <3>4. QED
        BY <3>2, <3>3 DEF Becomes
    <2>3. QED
      BY <2>1, <2>2 DEF Settle
  <1>4. QED
    BY <1>1, <1>2, <1>3 DEF SettleLike

(* What the swap of the kind changes.                                         *)
LEMMA SwapIs ==
  ASSUME SizesAreNumbers, IInv, NEW f \in Fibers, Swap(f)
  PROVE  SettleLike(f)
  <1>1. TypeOK /\ calls[f].stage = "seen" /\ made' = made /\ device' = device
        /\ heard' = heard /\ sent' = sent /\ settled' = settled
        /\ made \in Nat /\ settled \in Nat /\ io \in Io /\ device \in Device
    BY DEF Swap, IInv, TypeOK
  <1>2. PICK c \in Call : c = calls[f] /\ c.name \in {"connect", "bind"} /\ c.stage = "seen"
                           /\ c.got = <<>>
    BY <1>1 DEF TypeOK, Staged
  <1>3. CASE /\ io' = [io EXCEPT !.k = Kind(calls[f].name)]
             /\ Set(f, [calls[f] EXCEPT !.stage = "swapped"])
    <2>1. io' \in Io /\ io'.bfront = io.bfront /\ io'.bback = io.bback /\ io'.buffer = io.buffer
      <3>1. Kind(c.name) \in Kinds
        BY DEF Kind, Kinds
      <3>2. QED
        BY <1>1, <1>2, <1>3, <3>1 DEF Io
    <2>2. PICK d : d = [c EXCEPT !.stage = "swapped"]
      OBVIOUS
    <2>3. d \in Call /\ Staged(d) /\ d.name = c.name /\ d.stage = "swapped"
      BY <1>2, <2>2 DEF Call, Stages, Staged
    <2>4. Becomes(f, d)
      BY <1>2, <1>3, <2>2, <2>3 DEF Set, Becomes
    <2>5. QED
      BY <1>1, <1>2, <2>1, <2>3, <2>4 DEF SettleLike
  <1>4. CASE End(f) /\ UNCHANGED io
    BY <1>1, <1>2, <1>4, EndIs, IdleIs DEF SettleLike
  <1>5. QED
    BY <1>3, <1>4 DEF Swap

(* The fiber that settles, and a socket that is unspecified again.            *)
LEMMA SettlingIs ==
  ASSUME TypeOK, NEW f \in Fibers, Settling(f)
  PROVE  /\ calls[f].name \in {"connect", "bind"} /\ calls[f].stage \in {"swapped", "asked", "done"}
         /\ calls[f].got = <<>>
  BY DEF TypeOK, Settling, Staged

(* What a settling that fails changes.                                        *)
LEMMA UnsettleIs ==
  ASSUME TypeOK, NEW f \in Fibers, Unsettle(f)
  PROVE  /\ io' \in Io /\ io'.bfront = io.bfront /\ io'.bback = io.bback
         /\ io'.buffer = io.buffer /\ io'.k = "unspecified" /\ Becomes(f, Idle)
  <1>1. io \in Io /\ io' = [io EXCEPT !.k = "unspecified"]
    BY DEF TypeOK, Unsettle
  <1>2. io' \in Io /\ io'.bfront = io.bfront /\ io'.bback = io.bback
        /\ io'.buffer = io.buffer /\ io'.k = "unspecified"
    BY <1>1 DEF Io, Kinds
  <1>3. QED
    BY <1>2, EndIs DEF Unsettle

(* What follows a swap.                                                       *)
LEMMA AskSettleIs ==
  ASSUME SizesAreNumbers, IInv, NEW f \in Fibers, AskSettle(f)
  PROVE  SettleLike(f)
  <1>1. TypeOK /\ made' = made /\ device' = device
        /\ heard' = heard /\ sent' = sent /\ settled' = settled
        /\ made \in Nat /\ settled \in Nat /\ io \in Io /\ device \in Device
    BY DEF AskSettle, IInv, TypeOK
  <1>2. PICK c \in Call : c = calls[f] /\ c.name \in {"connect", "bind"} /\ c.got = <<>>
    BY <1>1, SettlingIs DEF TypeOK, AskSettle
  <1>3. CASE Unsettle(f)
    BY <1>1, <1>2, <1>3, UnsettleIs, IdleIs DEF SettleLike
  <1>4. CASE Set(f, [c EXCEPT !.stage = "asked"]) /\ UNCHANGED io
    <2>1. PICK d : d = [c EXCEPT !.stage = "asked"]
      OBVIOUS
    <2>2. d \in Call /\ Staged(d) /\ d.name = c.name /\ d.stage = "asked"
      BY <1>2, <2>1 DEF Call, Stages, Staged
    <2>3. Becomes(f, d)
      BY <1>4, <2>1, <2>2 DEF Set, Becomes
    <2>4. QED
      BY <1>1, <1>2, <1>4, <2>2, <2>3 DEF SettleLike
  <1>5. QED
    BY <1>2, <1>3, <1>4 DEF AskSettle

(* What the device changes when it connects or binds.                         *)
LEMMA DeviceSettlesIs ==
  ASSUME SizesAreNumbers, IInv, NEW f \in Fibers, DeviceSettles(f)
  PROVE  SettleLike(f)
  <1>1. TypeOK /\ made' = made /\ io' = io
        /\ heard' = heard /\ sent' = sent /\ settled' = settled
        /\ made \in Nat /\ settled \in Nat /\ io \in Io /\ device \in Device
    BY DEF DeviceSettles, IInv, TypeOK
  <1>2. PICK c \in Call : c = calls[f] /\ c.name \in {"connect", "bind"} /\ c.got = <<>>
    BY <1>1, SettlingIs DEF TypeOK, DeviceSettles
  <1>3. PICK n \in {-1, 0} :
          /\ device' = [device EXCEPT !.up = n = 0 /\ calls[f].name = "connect"]
          /\ Set(f, [calls[f] EXCEPT !.stage = "done", !.result = n])
    BY DEF DeviceSettles
  <1>4. device' \in Device /\ device'.taken = device.taken /\ device'.given = device.given
    <2>1. PICK up \in BOOLEAN : up = (n = 0 /\ calls[f].name = "connect")
      OBVIOUS
    <2>2. device' = [device EXCEPT !.up = up]
      BY <1>3, <2>1
    <2>3. QED
      BY <1>1, <2>2 DEF Device
  <1>5. PICK d : d = [c EXCEPT !.stage = "done", !.result = n]
    OBVIOUS
  <1>6. d \in Call /\ Staged(d) /\ d.name = c.name
    <2>1. n \in Int
      OBVIOUS
    <2>2. QED
      BY <1>2, <1>5, <2>1 DEF Call, Stages, Staged
  <1>7. Becomes(f, d)
    BY <1>2, <1>3, <1>5, <1>6 DEF Set, Becomes
  <1>8. QED
    BY <1>1, <1>2, <1>4, <1>6, <1>7 DEF SettleLike

(* What the answer of the device to a connect or bind changes.                *)
LEMMA ResumeSettleIs ==
  ASSUME SizesAreNumbers, IInv, NEW f \in Fibers, ResumeSettle(f)
  PROVE  SettleLike(f)
  <1>1. TypeOK /\ made' = made /\ device' = device /\ heard' = heard /\ sent' = sent
        /\ made \in Nat /\ settled \in Nat /\ io \in Io /\ device \in Device
        /\ calls[f].name \in {"connect", "bind"}
    BY SettlingIs DEF ResumeSettle, IInv, TypeOK
  <1>2. CASE Unsettle(f) /\ UNCHANGED settled
    BY <1>1, <1>2, UnsettleIs, IdleIs DEF SettleLike
  <1>3. CASE End(f) /\ settled' = settled + 1 /\ UNCHANGED io
    BY <1>1, <1>3, EndIs, IdleIs DEF SettleLike
  <1>4. QED
    BY <1>2, <1>3 DEF ResumeSettle

-----------------------------------------------------------------------------
(* Types, and how a socket is settled                                         *)

(* One call is another, and the rest are as they were.                        *)
LEMMA OneCall ==
  ASSUME TypeOK, NEW f \in Fibers, NEW c, Becomes(f, c)
  PROVE  /\ calls' \in [Fibers -> Call] /\ \A g \in Fibers : Staged(calls'[g])
         /\ calls'[f] = c /\ \A g \in Fibers \ {f} : calls'[g] = calls[g]
  <1>1. calls \in [Fibers -> Call] /\ \A g \in Fibers : Staged(calls[g])
    BY DEF TypeOK
  <1>2. c \in Call /\ Staged(c) /\ calls' = [calls EXCEPT ![f] = c]
    BY DEF Becomes
  <1>3. calls'[f] = c /\ \A g \in Fibers \ {f} : calls'[g] = calls[g]
    BY <1>1, <1>2
  <1>4. \A g \in Fibers : Staged(calls'[g])
    BY <1>1, <1>2, <1>3
  <1>5. QED
    BY <1>1, <1>2, <1>3, <1>4

(* Every step keeps the types.                                                *)
LEMMA KeepsTypes ==
  ASSUME TypeOK, NEW f \in Fibers, RecvLike(f) \/ SendLike(f) \/ SettleLike(f)
  PROVE  TypeOK'
  <1>1. /\ io' \in Io /\ device' \in Device /\ made' \in Nat /\ settled' \in Nat
        /\ heard' \in Seq(Answer) /\ sent' \subseteq Receipt
        /\ \E c : Becomes(f, c)
    BY DEF RecvLike, SendLike, SettleLike, TypeOK
  <1>2. PICK c : Becomes(f, c)
    BY <1>1
  <1>3. calls' \in [Fibers -> Call] /\ \A g \in Fibers : Staged(calls'[g])
    BY <1>2, OneCall
  <1>4. QED
    BY <1>1, <1>3 DEF TypeOK

(* A step of no connect or bind that is past its swap.                        *)
LEMMA KeepsSettled ==
  ASSUME TypeOK, SettleInv, UpInv, NEW f \in Fibers, NEW c, Becomes(f, c),
         io'.k = io.k, device'.up = device.up, settled' = settled,
         ~Settling(f), c.name \in {"connect", "bind"} => c.stage = "seen"
  PROVE  SettleInv' /\ UpInv'
  <1>1. calls'[f] = c /\ \A g \in Fibers \ {f} : calls'[g] = calls[g]
    BY OneCall
  <1>2. \A g \in Fibers : Settling(g)' => Settling(g) /\ g # f /\ calls'[g] = calls[g]
    BY <1>1 DEF Settling
  <1>3. SettleInv'
    BY <1>2 DEF SettleInv
  <1>4. \A g \in Fibers : calls'[g].name \in {"recv", "send"} /\ calls'[g].stage = "done"
                            /\ calls'[g].result >= 0 => device'.up
    BY <1>1 DEF UpInv, Becomes
  <1>5. UpInv'
    BY <1>2, <1>4 DEF UpInv
  <1>6. QED
    BY <1>3, <1>5

(* A recv settles nothing.                                                    *)
LEMMA RecvKeepsSettled ==
  ASSUME TypeOK, SettleInv, UpInv, NEW f \in Fibers, RecvLike(f) \/ SendLike(f)
  PROVE  SettleInv' /\ UpInv'
  <1>1. /\ io'.k = io.k /\ device'.up = device.up /\ settled' = settled
        /\ calls[f].name \in {"none", "recv", "send"}
        /\ \E c : Becomes(f, c) /\ c.name \in {"none", "recv", "send"}
    BY DEF RecvLike, SendLike
  <1>2. ~Settling(f)
    BY <1>1 DEF Settling
  <1>3. PICK c : Becomes(f, c) /\ c.name \in {"none", "recv", "send"}
    BY <1>1
  <1>4. QED
    BY <1>1, <1>2, <1>3, KeepsSettled

(* A connect or bind that begins has seen the kind only.                      *)
LEMMA SettleKeepsSettled ==
  ASSUME IInv, NEW f \in Fibers, Settle(f)
  PROVE  SettleInv' /\ UpInv' /\ (io'.k = "file" <=> io.k = "file")
  <1>1. TypeOK /\ SettleInv /\ UpInv /\ io' = io /\ device' = device /\ settled' = settled
        /\ calls[f].stage = "idle" /\ calls[f].name = "none"
    BY IdleHasNoName DEF IInv, Settle, NewCall
  <1>2. ~Settling(f)
    BY <1>1 DEF Settling
  <1>3. CASE calls' = calls
    <2>1. Becomes(f, calls[f])
      BY <1>1, <1>3, StaysCall
    <2>2. QED
      BY <1>1, <1>2, <2>1, KeepsSettled
  <1>4. ASSUME NEW name \in {"connect", "bind"},
               Set(f, [Idle EXCEPT !.name = name, !.stage = "seen"])
        PROVE  SettleInv' /\ UpInv'
    <2>1. PICK d : d = [Idle EXCEPT !.name = name, !.stage = "seen"]
      OBVIOUS
    <2>2. d \in Call /\ Staged(d) /\ d.name = name /\ d.stage = "seen"
      BY <2>1, IdleIs DEF Call, Names, Stages, Staged
    <2>3. Becomes(f, d)
      BY <1>4, <2>1, <2>2 DEF Set, Becomes
    <2>4. QED
      BY <1>1, <1>2, <2>2, <2>3, KeepsSettled
  <1>5. QED
    BY <1>1, <1>3, <1>4 DEF Settle

(* The swap succeeds for one fiber.                                           *)
LEMMA SwapKeepsSettled ==
  ASSUME IInv, NEW f \in Fibers, Swap(f)
  PROVE  SettleInv' /\ UpInv' /\ (io'.k = "file" <=> io.k = "file")
  <1>1. TypeOK /\ SettleInv /\ UpInv /\ device' = device /\ settled' = settled
        /\ calls[f].stage = "seen" /\ calls[f] \in Call
    BY DEF IInv, Swap, TypeOK
  <1>2. calls[f].name \in {"connect", "bind"} /\ ~Settling(f)
    BY <1>1 DEF TypeOK, Staged, Settling
  <1>3. ASSUME io.k = "unspecified", io' = [io EXCEPT !.k = Kind(calls[f].name)],
               Set(f, [calls[f] EXCEPT !.stage = "swapped"])
        PROVE  SettleInv' /\ UpInv' /\ (io'.k = "file" <=> io.k = "file")
    <2>1. io'.k = Kind(calls[f].name) /\ io'.k \in {"client", "server"}
      BY <1>1, <1>2, <1>3 DEF TypeOK, Io, Kind
    <2>2. (\A g \in Fibers : ~Settling(g)) /\ settled = 0
      BY <1>1, <1>3 DEF SettleInv, Kind
    <2>3. ~device.up
      BY <1>1, <1>3 DEF UpInv, Streaming
    <2>4. calls' = [calls EXCEPT ![f].stage = "swapped"]
      BY <1>3 DEF Set
    <2>5. calls'[f] = [calls[f] EXCEPT !.stage = "swapped"]
          /\ \A g \in Fibers \ {f} : calls'[g] = calls[g]
      BY <1>1, <2>4 DEF TypeOK
    <2>6. calls'[f].name = calls[f].name /\ calls'[f].stage = "swapped"
      BY <1>1, <2>5 DEF Call
    <2>7. \A g \in Fibers : Settling(g)' => g = f
      BY <2>2, <2>5 DEF Settling
    <2>8. SettleInv'
      BY <1>1, <2>1, <2>2, <2>6, <2>7 DEF SettleInv
    <2>9. UpInv'
      BY <1>1, <2>3, <2>5, <2>6 DEF UpInv
    <2>10. QED
      BY <1>3, <2>1, <2>8, <2>9
  <1>4. ASSUME End(f), UNCHANGED io
        PROVE  SettleInv' /\ UpInv' /\ (io'.k = "file" <=> io.k = "file")
    BY <1>1, <1>2, <1>4, EndIs, IdleIs, KeepsSettled
  <1>5. QED
    BY <1>3, <1>4 DEF Swap

(* A connect or bind that fails, while the device answers nothing.            *)
LEMMA UnsettleKeepsSettled ==
  ASSUME IInv, NEW f \in Fibers, Settling(f), ~device.up, Unsettle(f),
         device' = device, settled' = settled
  PROVE  SettleInv' /\ UpInv' /\ (io'.k = "file" <=> io.k = "file")
  <1>1. TypeOK /\ SettleInv /\ UpInv
    BY DEF IInv
  <1>2. io'.k = "unspecified" /\ Becomes(f, Idle)
    BY <1>1, UnsettleIs
  <1>3. calls'[f] = Idle /\ \A g \in Fibers \ {f} : calls'[g] = calls[g]
    BY <1>1, <1>2, OneCall
  <1>4. \A g \in Fibers : ~Settling(g)'
    BY <1>1, <1>3, IdleIs DEF SettleInv, Settling
  <1>5. settled = 0 /\ io.k # "file"
    BY <1>1, SettlingIs DEF SettleInv, Kind
  <1>6. SettleInv'
    BY <1>4, <1>5 DEF SettleInv
  <1>7. UpInv'
    BY <1>1, <1>3, IdleIs DEF UpInv
  <1>8. QED
    BY <1>2, <1>5, <1>6, <1>7

(* A step of the fiber that settles, with the socket as it is.                *)
LEMMA SettlerKeepsSettled ==
  ASSUME TypeOK, SettleInv, NEW f \in Fibers, Settling(f), NEW c, Becomes(f, c),
         io' = io, settled' = settled, c.name = calls[f].name, c.stage # "seen",
         ~device.up,
         device'.up => io.k \in Streaming /\ c.stage = "done" /\ c.result >= 0,
         UpInv
  PROVE  SettleInv' /\ UpInv'
  <1>1. calls'[f] = c /\ \A g \in Fibers \ {f} : calls'[g] = calls[g]
    BY OneCall
  <1>2. \A g \in Fibers : Settling(g)' <=> Settling(g)
    BY <1>1 DEF Settling
  <1>3. \A g \in Fibers : Settling(g) => g = f
    BY DEF SettleInv
  <1>4. SettleInv'
    BY <1>1, <1>2 DEF SettleInv
  <1>5. UpInv'
    BY <1>1, <1>2, <1>3, SettlingIs DEF UpInv
  <1>6. QED
    BY <1>4, <1>5

(* The fiber that swapped asks the device, or gives the kind back.            *)
LEMMA AskSettleKeepsSettled ==
  ASSUME IInv, NEW f \in Fibers, AskSettle(f)
  PROVE  SettleInv' /\ UpInv' /\ (io'.k = "file" <=> io.k = "file")
  <1>1. TypeOK /\ SettleInv /\ UpInv /\ device' = device /\ settled' = settled
        /\ Settling(f) /\ calls[f].stage = "swapped"
    BY DEF IInv, AskSettle
  <1>2. ~device.up
    BY <1>1 DEF UpInv
  <1>3. CASE Unsettle(f)
    BY <1>1, <1>2, <1>3, UnsettleKeepsSettled
  <1>4. ASSUME Set(f, [calls[f] EXCEPT !.stage = "asked"]), UNCHANGED io
        PROVE  SettleInv' /\ UpInv' /\ (io'.k = "file" <=> io.k = "file")
    <2>1. PICK d : d = [calls[f] EXCEPT !.stage = "asked"]
      OBVIOUS
    <2>2. d \in Call /\ Staged(d) /\ d.name = calls[f].name /\ d.stage = "asked"
      BY <1>1, <2>1, SettlingIs, Parts DEF Call, Stages, Staged
    <2>3. Becomes(f, d)
      BY <1>4, <2>1, <2>2 DEF Set, Becomes
    <2>4. QED
      BY <1>1, <1>2, <1>4, <2>2, <2>3, SettlerKeepsSettled
  <1>5. QED
    BY <1>3, <1>4 DEF AskSettle

(* The device does not look at the kind.                                      *)
LEMMA DeviceSettlesKeepsSettled ==
  ASSUME IInv, NEW f \in Fibers, DeviceSettles(f)
  PROVE  SettleInv' /\ UpInv' /\ (io'.k = "file" <=> io.k = "file")
  <1>1. TypeOK /\ SettleInv /\ UpInv /\ io' = io /\ settled' = settled
        /\ Settling(f) /\ calls[f].stage = "asked" /\ device \in Device
    BY DEF IInv, DeviceSettles, TypeOK
  <1>2. ~device.up
    BY <1>1 DEF UpInv
  <1>3. PICK n \in {-1, 0} :
          /\ device' = [device EXCEPT !.up = n = 0 /\ calls[f].name = "connect"]
          /\ Set(f, [calls[f] EXCEPT !.stage = "done", !.result = n])
    BY DEF DeviceSettles
  <1>4. device'.up => n = 0 /\ io.k \in Streaming
    <2>1. device'.up => n = 0 /\ calls[f].name = "connect"
      BY <1>1, <1>3 DEF Device
    <2>2. io.k = Kind(calls[f].name)
      BY <1>1 DEF SettleInv
    <2>3. QED
      BY <2>1, <2>2 DEF Kind, Streaming
  <1>5. PICK d : d = [calls[f] EXCEPT !.stage = "done", !.result = n]
    OBVIOUS
  <1>6. d \in Call /\ Staged(d) /\ d.name = calls[f].name /\ d.stage = "done" /\ d.result = n
    <2>1. n \in Int
      OBVIOUS
    <2>2. QED
      BY <1>1, <1>5, <2>1, SettlingIs, Parts DEF Call, Stages, Staged
  <1>7. Becomes(f, d)
    BY <1>1, <1>3, <1>5, <1>6, SettlingIs DEF Set, Becomes
  <1>8. QED
    BY <1>1, <1>2, <1>4, <1>6, <1>7, SettlerKeepsSettled

(* The fiber that swapped settles the socket, or gives the kind back.         *)
LEMMA ResumeSettleKeepsSettled ==
  ASSUME IInv, NEW f \in Fibers, ResumeSettle(f)
  PROVE  SettleInv' /\ UpInv' /\ (io'.k = "file" <=> io.k = "file")
  <1>1. TypeOK /\ SettleInv /\ UpInv /\ device' = device /\ Settling(f)
    BY DEF IInv, ResumeSettle
  <1>2. ASSUME calls[f].result < 0, Unsettle(f), settled' = settled
        PROVE  SettleInv' /\ UpInv' /\ (io'.k = "file" <=> io.k = "file")
    <2>1. ~device.up
      <3>1. calls[f].result \in Int
        BY <1>1, Parts DEF Call
      <3>2. QED
        BY <1>1, <1>2, <3>1 DEF UpInv
    <2>2. QED
      BY <1>1, <1>2, <2>1, UnsettleKeepsSettled
  <1>3. ASSUME End(f), settled' = settled + 1, io' = io
        PROVE  SettleInv' /\ UpInv' /\ (io'.k = "file" <=> io.k = "file")
    <2>1. calls'[f] = Idle /\ \A g \in Fibers \ {f} : calls'[g] = calls[g]
      BY <1>1, <1>3, EndIs, OneCall
    <2>2. \A g \in Fibers : ~Settling(g)'
      BY <1>1, <2>1, IdleIs DEF SettleInv, Settling
    <2>3. settled' = 1 /\ io.k \in {"client", "server"}
      BY <1>1, <1>3, SettlingIs DEF SettleInv, Kind
    <2>4. SettleInv'
      BY <1>3, <2>2, <2>3 DEF SettleInv
    <2>5. UpInv'
      BY <1>1, <1>3, <2>1, <2>2, IdleIs DEF UpInv
    <2>6. QED
      BY <1>3, <2>4, <2>5
  <1>4. QED
    BY <1>2, <1>3 DEF ResumeSettle

-----------------------------------------------------------------------------
(* Sends                                                                      *)

(* TakenOf, of any sequence, element by element.                              *)
TakenIn(t, id, n) ==
  /\ \A i \in DOMAIN t : t[i][1] = id => t[i][2] \in 1..n
  /\ \A v \in 1..n : \E i \in DOMAIN t : t[i][1] = id /\ t[i][2] = v
  /\ \A i, j \in DOMAIN t : t[i][1] = id /\ t[j][1] = id /\ i < j => t[i][2] < t[j][2]

(* What the device took of a send is in what it took.                         *)
LEMMA TakenOfIs ==
  ASSUME NEW id, NEW n
  PROVE  TakenOf(id, n) <=> TakenIn(device.taken, id, n)
  BY Zenon DEF TakenOf, TakenIn

(* And after a step.                                                          *)
LEMMA TakenOfIsThen ==
  ASSUME NEW id, NEW n
  PROVE  TakenOf(id, n)' <=> TakenIn(device'.taken, id, n)
  BY Zenon DEF TakenOf, TakenIn

(* The next bytes of a send are taken.                                        *)
LEMMA TakenMore ==
  ASSUME NEW t \in Seq(Tagged), NEW more \in Seq(Tagged), NEW id \in Nat, NEW w \in Nat,
         Follows(more, id, w), TakenIn(t, id, w)
  PROVE  TakenIn(t \o more, id, w + Len(more))
  <1>1. PICK l \in Nat, m \in Nat : l = Len(t) /\ m = Len(more)
    OBVIOUS
  <1>2. PICK u : u = t \o more
    OBVIOUS
  <1>3. /\ u \in Seq(Tagged) /\ DOMAIN u = 1..(l + m)
        /\ \A i \in 1..l : u[i] = t[i]
        /\ \A i \in 1..m : u[l + i] = more[i]
    <2>0. t \o more \in Seq(Tagged)
      BY Joined
    <2>1. /\ Len(t \o more) = Len(t) + Len(more)
          /\ \A i \in 1..Len(t) : (t \o more)[i] = t[i]
          /\ \A i \in 1..Len(more) : (t \o more)[Len(t) + i] = more[i]
      OBVIOUS
    <2>2. u \in Seq(Tagged) /\ Len(u) = l + m
      BY <1>1, <1>2, <2>0, <2>1
    <2>3. QED
      BY <1>1, <1>2, <2>1, <2>2
  <1>4. DOMAIN t = 1..l
    BY <1>1
  <1>5. \A i \in DOMAIN u : i \in 1..l \/ \E k \in 1..m : i = l + k
    <2>1. SUFFICES ASSUME NEW i \in 1..(l + m), i \notin 1..l
                   PROVE  \E k \in 1..m : i = l + k
      BY <1>3
    <2>2. i - l \in 1..m /\ i = l + (i - l)
      BY <2>1
    <2>3. QED
      BY <2>2
  <1>6. \A i \in 1..m : u[l + i][1] = id /\ u[l + i][2] = w + i
    <2>1. \A i \in 1..m : more[i][1] = id /\ more[i][2] = w + i
      BY <1>1 DEF Follows
    <2>2. QED
      BY <1>3, <2>1
  <1>7. ASSUME NEW i \in DOMAIN u, u[i][1] = id PROVE u[i][2] \in 1..(w + m)
    <2>1. CASE i \in 1..l
      <3>1. u[i][2] \in 1..w
        BY <1>3, <1>4, <1>7, <2>1 DEF TakenIn
      <3>2. QED
        BY <3>1
    <2>2. ASSUME NEW k \in 1..m, i = l + k PROVE u[i][2] \in 1..(w + m)
      <3>1. u[i][2] = w + k
        BY <1>6, <2>2
      <3>2. QED
        BY <3>1
    <2>3. QED
      BY <1>5, <2>1, <2>2
  <1>8. ASSUME NEW v \in 1..(w + m) PROVE \E i \in DOMAIN u : u[i][1] = id /\ u[i][2] = v
    <2>1. CASE v \in 1..w
      <3>1. PICK i \in 1..l : t[i][1] = id /\ t[i][2] = v
        BY <1>4, <2>1 DEF TakenIn
      <3>2. i \in DOMAIN u /\ u[i] = t[i]
        BY <1>3
      <3>3. QED
        BY <3>1, <3>2
    <2>2. CASE v \notin 1..w
      <3>1. PICK k \in 1..m : v = w + k
        <4>1. v - w \in 1..m /\ v = w + (v - w)
          BY <2>2
        <4>2. QED
          BY <4>1
      <3>2. l + k \in DOMAIN u
        BY <1>3
      <3>3. QED
        BY <1>6, <3>1, <3>2
    <2>3. QED
      BY <2>1, <2>2
  <1>9. ASSUME NEW i \in DOMAIN u, NEW j \in DOMAIN u, u[i][1] = id, u[j][1] = id, i < j
        PROVE  u[i][2] < u[j][2]
    <2>1. CASE i \in 1..l /\ j \in 1..l
      <3>1. u[i] = t[i] /\ u[j] = t[j]
        BY <1>3, <2>1
      <3>2. QED
        BY <1>4, <1>9, <2>1, <3>1 DEF TakenIn
    <2>2. ASSUME i \in 1..l, NEW k \in 1..m, j = l + k PROVE u[i][2] < u[j][2]
      <3>1. u[i][2] \in 1..w
        BY <1>3, <1>4, <1>9, <2>2 DEF TakenIn
      <3>2. u[j][2] = w + k
        BY <1>6, <2>2
      <3>3. QED
        BY <3>1, <3>2
    <2>3. ASSUME NEW h \in 1..m, i = l + h, NEW k \in 1..m, j = l + k PROVE u[i][2] < u[j][2]
      <3>1. u[i][2] = w + h /\ u[j][2] = w + k
        BY <1>6, <2>3
      <3>2. h < k
        BY <1>9, <2>3
      <3>3. QED
        BY <3>1, <3>2
    <2>4. ASSUME NEW h \in 1..m, i = l + h PROVE j \notin 1..l
      BY <1>9, <2>4
    <2>5. QED
      BY <1>5, <2>1, <2>2, <2>3, <2>4
  <1>10. QED
    BY <1>1, <1>2, <1>7, <1>8, <1>9 DEF TakenIn

(* The bytes of another are taken.                                            *)
LEMMA TakenElse ==
  ASSUME NEW t \in Seq(Tagged), NEW more \in Seq(Tagged), NEW id, NEW other, NEW n,
         other # id, \A i \in 1..Len(more) : more[i][1] = other, TakenIn(t, id, n)
  PROVE  TakenIn(t \o more, id, n)
  <1>1. PICK l \in Nat, m \in Nat : l = Len(t) /\ m = Len(more)
    OBVIOUS
  <1>2. PICK u : u = t \o more
    OBVIOUS
  <1>3. /\ DOMAIN u = 1..(l + m)
        /\ \A i \in 1..l : u[i] = t[i]
        /\ \A i \in 1..m : u[l + i][1] = other
    BY <1>1, <1>2, Joined
  <1>4. DOMAIN t = 1..l
    BY <1>1
  <1>5. \A i \in DOMAIN u : u[i][1] = id => i \in DOMAIN t /\ u[i] = t[i]
    <2>1. SUFFICES ASSUME NEW i \in 1..(l + m), i \notin 1..l
                   PROVE  u[i][1] = other
      BY <1>3, <1>4
    <2>2. i - l \in 1..m /\ i = l + (i - l)
      BY <2>1
    <2>3. QED
      BY <1>3, <2>2
  <1>6. \A i \in DOMAIN t : i \in DOMAIN u /\ u[i] = t[i]
    BY <1>3, <1>4
  <1>7. QED
    BY <1>2, <1>5, <1>6 DEF TakenIn

(* Nothing is taken of a send that begins.                                    *)
LEMMA TakenNone ==
  ASSUME NEW t, NEW id, \A i \in DOMAIN t : t[i][1] # id
  PROVE  TakenIn(t, id, 0)
  BY DEF TakenIn

(* What is sent when the device has taken more, of one send only.             *)
LEMMA KeepsTaken ==
  ASSUME NEW id, NEW n, TakenOf(id, n), device'.taken = device.taken
  PROVE  TakenOf(id, n)'
  BY TakenOfIs, TakenOfIsThen

(* What was said of a send is still so when the device took nothing.          *)
LEMMA KeepsSendOK ==
  ASSUME NEW c, SendOK(c), c.id \in Nat, made \in Nat, made' \in Nat, made <= made',
         io'.k = "file" <=> io.k = "file", device'.taken = device.taken
  PROVE  SendOK(c)'
  <1>1. TakenOf(c.id, Written(c))'
    BY KeepsTaken DEF SendOK
  <1>2. c.id \in 1..made'
    BY DEF SendOK
  <1>3. QED
    BY <1>1, <1>2 DEF SendOK, Written, Brought

(* A step after which the fiber is in no send.                                *)
LEMMA KeepsSends ==
  ASSUME TypeOK, SendInv, NEW f \in Fibers, NEW c, Becomes(f, c), c.name # "send",
         made' \in Nat, made <= made', sent' = sent, device'.taken = device.taken,
         io'.k = "file" <=> io.k = "file"
  PROVE  SendInv'
  <1>1. calls'[f] = c /\ \A g \in Fibers \ {f} : calls'[g] = calls[g]
    BY OneCall
  <1>2. \A g \in Fibers : Sending(g)' => Sending(g) /\ calls'[g] = calls[g]
    BY <1>1 DEF Sending
  <1>3. ASSUME NEW g \in Fibers, Sending(g)' PROVE SendOK(calls[g])' /\ calls'[g] = calls[g]
    <2>1. SendOK(calls[g]) /\ calls[g].id \in Nat /\ made \in Nat
      BY <1>2, <1>3, Parts DEF SendInv, TypeOK, Call
    <2>2. PICK e : e = calls[g] /\ e = calls'[g]
      BY <1>2, <1>3
    <2>3. SendOK(e)'
      BY <2>1, <2>2, KeepsSendOK
    <2>4. QED
      BY <2>2, <2>3 DEF SendOK, Written, Brought
  <1>4. \A s \in sent : s.id <= made' /\ (s.k = "file" <=> io'.k = "file")
    BY DEF SendInv, TypeOK, Receipt
  <1>5. \A i \in DOMAIN device.taken : device.taken[i][1] <= made'
    <2>1. device.taken \in Seq(Tagged) /\ made \in Nat
      BY DEF TypeOK, Device
    <2>2. \A i \in DOMAIN device.taken : device.taken[i][1] \in Nat
      BY <2>1, TagsAre
    <2>3. QED
      BY <2>1, <2>2 DEF SendInv
  <1>6. SendsAreTaken'
    BY KeepsTaken DEF SendInv, SendsAreTaken
  <1>7. QED
    BY <1>2, <1>3, <1>4, <1>5, <1>6 DEF SendInv

(* A send that starts, goes on or has written more: its bytes are as SendOK   *)
(* says, and what is said of the others stays true.                           *)
LEMMA SendsGoOn ==
  ASSUME TypeOK, SendInv, NEW f \in Fibers, NEW c, Becomes(f, c), c.name = "send",
         made' \in Nat, made <= made', sent' = sent, io'.k = io.k,
         SendOK(c)',
         \A g \in Fibers \ {f} : Sending(g) => calls[g].id # c.id,
         \A s \in sent : s.id # c.id,
         \A i \in DOMAIN device'.taken : device'.taken[i][1] <= made',
         \A id, n : id # c.id /\ TakenOf(id, n) => TakenOf(id, n)'
  PROVE  SendInv'
  <1>1. calls'[f] = c /\ \A g \in Fibers \ {f} : calls'[g] = calls[g]
    BY OneCall
  <1>2. \A g \in Fibers \ {f} : Sending(g)' => Sending(g) /\ calls'[g] = calls[g]
    BY <1>1 DEF Sending
  <1>3. ASSUME NEW g \in Fibers \ {f}, Sending(g)' PROVE SendOK(calls[g])'
    <2>1. PICK e : e = calls[g] /\ e = calls'[g]
      BY <1>1
    <2>2. SendOK(e) /\ e.id # c.id /\ e.id \in Nat /\ made \in Nat
      BY <1>2, <1>3, <2>1, Parts DEF SendInv, TypeOK, Call
    <2>3. TakenOf(e.id, Written(e))'
      BY <2>2 DEF SendOK
    <2>4. SendOK(e)'
      BY <2>2, <2>3 DEF SendOK, Written, Brought
    <2>5. QED
      BY <2>1, <2>4 DEF SendOK, Written, Brought
  <1>4. SendOK(calls[f])'
    BY <1>1 DEF SendOK, Written, Brought
  <1>5. \A g, h \in Fibers : Sending(g)' /\ Sending(h)' /\ calls'[g].id = calls'[h].id => g = h
    BY <1>1, <1>2 DEF SendInv
  <1>6. \A g \in Fibers, s \in sent : Sending(g)' => calls'[g].id # s.id
    BY <1>1, <1>2 DEF SendInv
  <1>7. \A s \in sent : s.id <= made' /\ (s.k = "file" <=> io'.k = "file")
    BY DEF SendInv, TypeOK, Receipt
  <1>8. SendsAreTaken'
    <2>1. SUFFICES ASSUME NEW s \in sent
                   PROVE  IF s.k = "file" THEN TakenOf(s.id, s.len)'
                          ELSE \E n \in 1..s.len : TakenOf(s.id, n)'
      BY DEF SendsAreTaken
    <2>2. s.id # c.id /\ IF s.k = "file" THEN TakenOf(s.id, s.len)
                         ELSE \E n \in 1..s.len : TakenOf(s.id, n)
      BY DEF SendInv, SendsAreTaken
    <2>3. QED
      BY <2>2
  <1>9. \A g \in Fibers : Sending(g)' => SendOK(calls[g])'
    BY <1>3, <1>4
  <1>10. QED
    BY <1>5, <1>6, <1>7, <1>8, <1>9 DEF SendInv

(* A send that begins has had nothing taken.                                  *)
LEMMA SendKeepsSends ==
  ASSUME SizesAreNumbers, IInv, NEW f \in Fibers, Send(f)
  PROVE  SendInv'
  <1>1. TypeOK /\ SendInv /\ calls[f].stage = "idle" /\ made' = made + 1 /\ device' = device
        /\ made \in Nat /\ io \in Io /\ device.taken \in Seq(Tagged)
    BY DEF Send, NewCall, IInv, TypeOK, Device
  <1>2. PICK n \in Lengths :
          IF io.k \in Streaming
          THEN AskWrite(f, [Idle EXCEPT !.name = "send", !.want = n, !.id = made'],
                        Payload(made', n))
          ELSE SendPanics(f)
    BY DEF Send
  <1>3. n \in Nat /\ made' \in Nat /\ made <= made'
    <2>1. n \in Nat
      BY DEF SizesAreNumbers
    <2>2. made \in Nat /\ made' = made + 1
      BY <1>1
    <2>3. QED
      BY <2>1, <2>2
  <1>4. CASE io.k \in Streaming
    <2>1. PICK left \in Seq(Tagged) : left = Payload(made', n)
      BY <1>3, PayloadIs
    <2>2. PICK d : d = [Idle EXCEPT !.name = "send", !.want = n, !.id = made',
                                    !.stage = "asked", !.left = left]
      OBVIOUS
    <2>3. /\ d \in Call /\ Staged(d) /\ d.name = "send" /\ d.stage = "asked"
          /\ d.want = n /\ d.id = made' /\ d.left = left
      BY <1>3, <2>2, IdleIs DEF Call, Names, Stages, Staged
    <2>4. calls' = [calls EXCEPT ![f] = d] /\ io' = io /\ sent' = sent
      BY <1>2, <1>4, <2>1, <2>2 DEF AskWrite, Set
    <2>5. Becomes(f, d)
      BY <2>3, <2>4 DEF Becomes
    <2>6. \A g \in Fibers : Sending(g) => calls[g].id # d.id
      <3>1. ASSUME NEW g \in Fibers, Sending(g) PROVE calls[g].id \in 1..made
        BY <1>1, <3>1 DEF SendInv, SendOK
      <3>2. d.id = made + 1
        BY <1>1, <2>3
      <3>3. QED
        BY <1>1, <3>1, <3>2
    <2>7. \A s \in sent : s.id # d.id
      <3>1. \A s \in sent : s.id <= made /\ s.id \in Nat
        BY <1>1 DEF SendInv, TypeOK, Receipt
      <3>2. QED
        BY <1>1, <2>3, <3>1
    <2>8. \A i \in DOMAIN device.taken : device.taken[i][1] <= made /\ device.taken[i][1] \in Nat
      BY <1>1, TagsAre DEF SendInv
    <2>9. \A id, m : TakenOf(id, m) => TakenOf(id, m)'
      BY <1>1, KeepsTaken
    <2>10. SendOK(d)'
      <3>1. Len(left) = n /\ Follows(left, made', 0)
        BY <1>3, <2>1, PayloadIs
      <3>2. Written(d) = 0
        BY <1>3, <2>3, <3>1 DEF Written, Brought
      <3>3. TakenIn(device.taken, made', 0)
        <4>1. \A i \in DOMAIN device.taken : device.taken[i][1] # made'
          BY <1>1, <2>8
        <4>2. QED
          BY <4>1, TakenNone
      <3>4. TakenOf(d.id, Written(d))'
        <4>1. TakenIn(device'.taken, d.id, 0)
          BY <1>1, <2>3, <3>3
        <4>2. Written(d)' = 0
          BY <3>2 DEF Written, Brought
        <4>3. TakenOf(d.id, 0)'
          BY <4>1, TakenOfIsThen
        <4>4. QED
          BY <4>2, <4>3
      <3>5. d.id \in 1..made' /\ Len(d.left) = d.want
        BY <1>1, <1>3, <2>3, <3>1
      <3>6. Follows(d.left, d.id, d.want - Len(d.left))
        <4>1. d.want - Len(d.left) = 0
          BY <1>3, <2>3, <3>1
        <4>2. QED
          BY <2>3, <3>1, <4>1
      <3>7. QED
        BY <1>3, <2>3, <3>4, <3>5, <3>6 DEF SendOK
    <2>11. \A i \in DOMAIN device'.taken : device'.taken[i][1] <= made'
      BY <1>1, <2>8
    <2>12. QED
      BY <1>1, <1>3, <2>3, <2>4, <2>5, <2>6, <2>7, <2>9, <2>10, <2>11, SendsGoOn
  <1>5. CASE SendPanics(f)
    <2>1. End(f) /\ io' = [io EXCEPT !.locked = TRUE] /\ sent' = sent
      BY <1>5 DEF SendPanics
    <2>2. io'.k = io.k
      BY <1>1, <2>1 DEF Io
    <2>3. QED
      BY <1>1, <1>3, <2>1, <2>2, EndIs, IdleIs, KeepsSends
  <1>6. QED
    BY <1>2, <1>4, <1>5

(* What a send has left, and how much it had.                                 *)
LEMMA LeftIs ==
  ASSUME TypeOK, SendInv, NEW f \in Fibers, Sending(f)
  PROVE  /\ SendOK(calls[f]) /\ calls[f].id \in Nat /\ calls[f].want \in Nat
         /\ calls[f].left \in Seq(Tagged) /\ calls[f].result \in Int
         /\ \E l \in Nat, w \in Nat :
              /\ l = Len(calls[f].left) /\ calls[f].want = w + l /\ w = calls[f].want - l
              /\ Follows(calls[f].left, calls[f].id, w)
  <1>1. PICK c \in Call : c = calls[f]
    BY DEF TypeOK
  <1>2. SendOK(c)
    BY <1>1 DEF SendInv
  <1>3. c.id \in Nat /\ c.want \in Nat /\ c.left \in Seq(Tagged) /\ c.result \in Int
    BY DEF Call
  <1>4. PICK l \in Nat : l = Len(c.left) /\ l <= c.want
    BY <1>2, <1>3 DEF SendOK
  <1>5. PICK w \in Nat : w = c.want - l /\ c.want = w + l
    <2>1. c.want - l \in Nat /\ c.want = (c.want - l) + l
      BY <1>3, <1>4
    <2>2. QED
      BY <2>1
  <1>6. Follows(c.left, c.id, c.want - l)
    BY <1>2, <1>4 DEF SendOK
  <1>7. Follows(c.left, c.id, w)
    BY <1>5, <1>6
  <1>8. QED
    BY <1>1, <1>2, <1>3, <1>4, <1>5, <1>7

(* The first bytes that are left.                                             *)
LEMMA FirstOf ==
  ASSUME NEW s \in Seq(Tagged), NEW id, NEW w, NEW n \in Nat, n <= Len(s), Follows(s, id, w)
  PROVE  /\ SubSeq(s, 1, n) \in Seq(Tagged) /\ Len(SubSeq(s, 1, n)) = n
         /\ Follows(SubSeq(s, 1, n), id, w)
  <1>1. PICK u : u = SubSeq(s, 0 + 1, n)
    OBVIOUS
  <1>2. u \in Seq(Tagged) /\ Len(u) = n - 0 /\ \A i \in 1..(n - 0) : u[i] = s[0 + i]
    <2>1. u \in Seq(Tagged)
      BY <1>1, SomeOf
    <2>2. Len(u) = n - 0 /\ \A i \in 1..(n - 0) : u[i] = s[0 + i]
      BY <1>1, SomeOf
    <2>3. QED
      BY <2>1, <2>2
  <1>3. Len(u) = n /\ \A i \in 1..n : u[i] = s[i] /\ i \in 1..Len(s)
    BY <1>2
  <1>4. Follows(u, id, w)
    BY <1>3 DEF Follows
  <1>5. u = SubSeq(s, 1, n)
    BY <1>1
  <1>6. QED
    BY <1>2, <1>3, <1>4, <1>5

(* The device takes the next bytes of what a send has left.                   *)
LEMMA DeviceWritesKeepsSends ==
  ASSUME SizesAreNumbers, IInv, NEW f \in Fibers, DeviceWrites(f)
  PROVE  SendInv'
  <1>1. TypeOK /\ SendInv /\ calls[f].name = "send" /\ calls[f].stage = "asked"
        /\ io' = io /\ made' = made /\ sent' = sent /\ made \in Nat
        /\ device \in Device /\ device.taken \in Seq(Tagged)
    BY DEF DeviceWrites, In, IInv, TypeOK, Device
  <1>2. PICK c \in Call : c = calls[f] /\ c.name = "send" /\ c.stage = "asked" /\ c.got = <<>>
    BY <1>1 DEF TypeOK, Staged
  <1>3. PICK n \in -1..Len(calls[f].left) :
          /\ n >= 0 => device.up
          /\ device' = [device EXCEPT !.taken = device.taken \o SubSeq(calls[f].left, 1, n)]
          /\ calls' = [calls EXCEPT ![f] = [calls[f] EXCEPT !.stage = "done", !.result = n]]
    BY Zenon DEF DeviceWrites, Set
  <1>4. /\ SendOK(c) /\ c.id \in Nat /\ c.want \in Nat /\ c.left \in Seq(Tagged)
        /\ \E l \in Nat, w \in Nat :
             /\ l = Len(c.left) /\ c.want = w + l /\ w = c.want - l
             /\ Follows(c.left, c.id, w)
    BY <1>1, <1>2, LeftIs DEF Sending
  <1>5. PICK l \in Nat, w \in Nat, id \in Nat :
             /\ l = Len(c.left) /\ c.want = w + l /\ w = c.want - l /\ id = c.id
             /\ Follows(c.left, id, w)
    BY <1>4
  <1>6. n \in Int /\ n <= l
    BY <1>2, <1>3, <1>5
  <1>7. PICK b \in 0..l : b = IF n > 0 THEN n ELSE 0
    BY <1>6
  <1>8. PICK more : more = SubSeq(c.left, 1, n)
    OBVIOUS
  <1>8a. more \in Seq(Tagged) /\ Len(more) = b /\ Follows(more, id, w)
    <2>1. CASE n >= 1
      <3>1. PICK k \in Nat : k = n /\ k <= l /\ b = k
        BY <1>6, <1>7, <2>1
      <3>2. more = SubSeq(c.left, 1, k)
        BY <1>8, <3>1
      <3>3. QED
        BY <1>4, <1>5, <3>1, <3>2, FirstOf
    <2>2. CASE n < 1
      <3>1. more = <<>>
        BY <1>4, <1>6, <1>8, <2>2, NoneOf
      <3>2. <<>> \in Seq(Tagged) /\ Len(<<>>) = 0
        OBVIOUS
      <3>3. b = 0
        BY <1>6, <1>7, <2>2
      <3>4. QED
        BY <3>1, <3>2, <3>3 DEF Follows
    <2>3. QED
      BY <1>6, <2>1, <2>2
  <1>9. device'.taken = device.taken \o more
    BY <1>1, <1>2, <1>3, <1>8 DEF Device
  <1>10. PICK d : d = [c EXCEPT !.stage = "done", !.result = n]
    OBVIOUS
  <1>11. /\ d \in Call /\ Staged(d) /\ d.name = "send" /\ d.stage = "done" /\ d.result = n
         /\ d.id = id /\ d.left = c.left /\ d.want = c.want
    BY <1>2, <1>5, <1>6, <1>10 DEF Call, Staged, Stages
  <1>12. Becomes(f, d)
    BY <1>2, <1>3, <1>10, <1>11 DEF Becomes
  <1>13. TakenIn(device'.taken, id, w + b)
    <2>1. Written(c) = w
      BY <1>2, <1>4, <1>5 DEF Written, Brought
    <2>2. TakenIn(device.taken, id, w)
      BY <1>4, <1>5, <2>1, TakenOfIs DEF SendOK
    <2>3. TakenIn(device.taken \o more, id, w + Len(more))
      BY <1>1, <1>8a, <2>2, TakenMore
    <2>4. QED
      BY <1>8a, <1>9, <2>3
  <1>14. SendOK(d)'
    <2>1. Written(d)' = w + b
      BY <1>4, <1>5, <1>6, <1>7, <1>11 DEF Written, Brought
    <2>2. TakenOf(d.id, Written(d))'
      <3>1. TakenOf(d.id, w + b)'
        BY <1>11, <1>13, TakenOfIsThen
      <3>2. QED
        BY <2>1, <3>1
    <2>3. d.stage = "done" => d.result <= Len(d.left)
      BY <1>5, <1>6, <1>11
    <2>4. /\ d.id \in 1..made' /\ Len(d.left) <= d.want
          /\ Follows(d.left, d.id, d.want - Len(d.left))
          /\ io'.k # "file" => Len(d.left) = d.want
      BY <1>1, <1>4, <1>5, <1>11 DEF SendOK
    <2>5. QED
      BY <2>2, <2>3, <2>4 DEF SendOK
  <1>15. \A j, m : j # d.id /\ TakenOf(j, m) => TakenOf(j, m)'
    <2>1. SUFFICES ASSUME NEW j, NEW m, j # id, TakenOf(j, m) PROVE TakenOf(j, m)'
      BY <1>11
    <2>2. TakenIn(device.taken, j, m)
      BY <2>1, TakenOfIs
    <2>3. \A i \in 1..Len(more) : more[i][1] = id
      BY <1>8a DEF Follows
    <2>4. TakenIn(device'.taken, j, m)
      BY <1>1, <1>8a, <1>9, <2>1, <2>2, <2>3, TakenElse
    <2>5. QED
      BY <2>4, TakenOfIsThen
  <1>16. \A i \in DOMAIN device'.taken : device'.taken[i][1] <= made'
    <2>1. \A i \in DOMAIN device.taken : device.taken[i][1] <= made
      BY <1>1 DEF SendInv
    <2>2. id <= made
      BY <1>1, <1>4, <1>5 DEF SendOK
    <2>3. \A i \in 1..Len(more) : more[i][1] = id
      BY <1>8a DEF Follows
    <2>4. \A i \in DOMAIN device'.taken :
             \/ i \in DOMAIN device.taken /\ device'.taken[i] = device.taken[i]
             \/ \E k \in 1..Len(more) : device'.taken[i] = more[k]
      <3>1. \A i \in DOMAIN (device.taken \o more) :
               \/ i \in DOMAIN device.taken /\ (device.taken \o more)[i] = device.taken[i]
               \/ \E k \in 1..Len(more) : (device.taken \o more)[i] = more[k]
        BY <1>1, <1>8a, InJoined
      <3>2. QED
        BY <1>9, <3>1
    <2>5. QED
      BY <1>1, <2>1, <2>2, <2>3, <2>4
  <1>17. (\A g \in Fibers \ {f} : Sending(g) => calls[g].id # d.id) /\ \A s \in sent : s.id # d.id
    BY <1>1, <1>2, <1>5, <1>11 DEF SendInv, Sending
  <1>17a. made' \in Nat /\ made <= made' /\ io'.k = io.k
    BY <1>1
  <1>18. QED
    BY <1>1, <1>17a, <1>11, <1>12, <1>14, <1>15, <1>16, <1>17, SendsGoOn

(* A send that is answered with ok.                                           *)
LEMMA SentKeepsSends ==
  ASSUME IInv, NEW f \in Fibers, Sending(f), Sent(f), made' = made, device' = device, io' = io,
         IF io.k = "file" THEN TakenOf(calls[f].id, calls[f].want)
         ELSE \E n \in 1..calls[f].want : TakenOf(calls[f].id, n)
  PROVE  SendInv'
  <1>1. TypeOK /\ SendInv /\ made \in Nat
    BY DEF IInv, TypeOK
  <1>2. PICK c \in Call : c = calls[f] /\ SendOK(c)
    BY <1>1 DEF TypeOK, SendInv
  <1>3. PICK s : s = [id |-> c.id, len |-> c.want, k |-> io.k]
    OBVIOUS
  <1>4. s.id = c.id /\ s.len = c.want /\ s.k = io.k /\ sent' = sent \cup {s}
    BY <1>2, <1>3 DEF Sent
  <1>5. calls'[f] = Idle /\ \A g \in Fibers \ {f} : calls'[g] = calls[g]
    BY <1>1, EndIs, OneCall DEF Sent
  <1>6. \A g \in Fibers : Sending(g)' => g # f /\ Sending(g) /\ calls'[g] = calls[g]
    BY <1>5, IdleIs DEF Sending
  <1>7. ASSUME NEW g \in Fibers, Sending(g)' PROVE SendOK(calls[g])'
    <2>1. PICK e : e = calls[g] /\ e = calls'[g]
      BY <1>6, <1>7
    <2>2. SendOK(e)
      BY <1>1, <1>6, <1>7, <2>1 DEF SendInv
    <2>3. TakenOf(e.id, Written(e))'
      BY <2>2, KeepsTaken DEF SendOK
    <2>4. SendOK(e)'
      BY <2>2, <2>3 DEF SendOK, Written, Brought
    <2>5. QED
      BY <2>1, <2>4 DEF SendOK, Written, Brought
  <1>8. \A g, h \in Fibers : Sending(g)' /\ Sending(h)' /\ calls'[g].id = calls'[h].id => g = h
    BY <1>1, <1>6 DEF SendInv
  <1>9. \A g \in Fibers, r \in sent' : Sending(g)' => calls'[g].id # r.id
    BY <1>1, <1>2, <1>4, <1>6 DEF SendInv
  <1>10. \A r \in sent' : r.id <= made' /\ (r.k = "file" <=> io'.k = "file")
    BY <1>1, <1>2, <1>4 DEF SendInv, SendOK
  <1>11. \A i \in DOMAIN device'.taken : device'.taken[i][1] <= made'
    BY <1>1 DEF SendInv
  <1>12. SendsAreTaken'
    <2>1. \A id, n : TakenOf(id, n) => TakenOf(id, n)'
      BY KeepsTaken
    <2>2. SUFFICES ASSUME NEW r \in sent'
                   PROVE  IF r.k = "file" THEN TakenOf(r.id, r.len)'
                          ELSE \E n \in 1..r.len : TakenOf(r.id, n)'
      BY DEF SendsAreTaken
    <2>3. IF r.k = "file" THEN TakenOf(r.id, r.len) ELSE \E n \in 1..r.len : TakenOf(r.id, n)
      <3>1. CASE r = s
        BY <1>2, <1>4, <3>1
      <3>2. CASE r \in sent
        BY <1>1, <3>2 DEF SendInv, SendsAreTaken
      <3>3. QED
        BY <1>4, <3>1, <3>2
    <2>4. QED
      BY <2>1, <2>3
  <1>13. \A g \in Fibers : Sending(g)' => SendOK(calls[g])'
    BY <1>7
  <1>14. QED
    BY <1>8, <1>9, <1>10, <1>11, <1>12, <1>13 DEF SendInv

(* What is left of a send when r more bytes of it are written.                *)
LEMMA LessLeft ==
  ASSUME NEW s \in Seq(Tagged), NEW id \in Nat, NEW w \in Nat, NEW l \in Nat, NEW r \in Nat,
         l = Len(s), r < l, Follows(s, id, w)
  PROVE  /\ SubSeq(s, r + 1, l) \in Seq(Tagged) /\ Len(SubSeq(s, r + 1, l)) = l - r
         /\ Follows(SubSeq(s, r + 1, l), id, w + r)
  <1>1. PICK u : u = SubSeq(s, r + 1, l)
    OBVIOUS
  <1>2. u \in Seq(Tagged) /\ Len(u) = l - r /\ \A i \in 1..(l - r) : u[i] = s[r + i]
    <2>1. l \in Int /\ r <= l /\ l <= Len(s)
      OBVIOUS
    <2>2. u \in Seq(Tagged)
      BY <1>1, <2>1, SomeOf
    <2>3. Len(u) = l - r /\ \A i \in 1..(l - r) : u[i] = s[r + i]
      BY <1>1, <2>1, SomeOf
    <2>4. QED
      BY <2>2, <2>3
  <1>3. ASSUME NEW i \in 1..(l - r) PROVE u[i] = <<id, w + r + i>>
    <2>1. PICK j \in 1..l : j = r + i
      OBVIOUS
    <2>2. s[j] = <<id, w + j>>
      BY DEF Follows
    <2>3. w + j = w + r + i
      BY <2>1
    <2>4. QED
      BY <1>2, <2>1, <2>2, <2>3
  <1>4. QED
    BY <1>1, <1>2, <1>3 DEF Follows

(* A send to a file that writes what is left.                                 *)
LEMMA AskWriteKeepsSends ==
  ASSUME SizesAreNumbers, IInv, NEW f \in Fibers, Sending(f), NEW c \in Call, c = calls[f],
         c.stage = "done", io.k = "file", NEW l \in Nat, l = Len(c.left), NEW r \in Nat, r = c.result,
         NEW w \in Nat, c.want = w + l, SendOK(c),
         NEW left \in Seq(Tagged), Len(left) = l - r, r < l,
         Follows(left, c.id, w + r),
         AskWrite(f, c, left), made' = made, device' = device
  PROVE  SendInv'
  <1>1. TypeOK /\ SendInv /\ made \in Nat /\ c.name = "send" /\ c.got = <<>>
    BY DEF IInv, TypeOK, Sending, Staged
  <1>2. PICK id \in Nat : id = c.id
    BY DEF Call
  <1>7. PICK d : d = [c EXCEPT !.stage = "asked", !.left = left]
    OBVIOUS
  <1>8. /\ d \in Call /\ Staged(d) /\ d.name = "send" /\ d.stage = "asked"
        /\ d.want = w + l /\ d.id = id /\ d.left = left
    BY <1>1, <1>2, <1>7 DEF Call, Staged, Stages
  <1>9. calls' = [calls EXCEPT ![f] = d] /\ io' = io /\ sent' = sent
    BY <1>7 DEF AskWrite, Set
  <1>10. Becomes(f, d)
    BY <1>8, <1>9 DEF Becomes
  <1>11. \A j, m : TakenOf(j, m) => TakenOf(j, m)'
    BY KeepsTaken
  <1>12. SendOK(d)'
    <2>1. Written(c) = w + r
      <3>1. c.want - Len(c.left) = w
        OBVIOUS
      <3>2. Brought(c) = r
        BY DEF Brought
      <3>3. QED
        BY <3>1, <3>2 DEF Written
    <2>2. d.want - Len(d.left) = w + r
      <3>1. d.want = w + l /\ Len(d.left) = l - r
        BY <1>8
      <3>2. (w + l) - (l - r) = w + r
        OBVIOUS
      <3>3. QED
        BY <3>1, <3>2
    <2>3. Written(d)' = w + r
      BY <1>8, <2>2 DEF Written, Brought
    <2>4. TakenOf(d.id, Written(d))'
      BY <1>2, <1>8, <1>11, <2>1, <2>3 DEF SendOK
    <2>5. d.id \in 1..made'
      BY <1>2, <1>8 DEF SendOK
    <2>6. Len(d.left) <= d.want
      BY <1>8
    <2>7. Follows(d.left, d.id, d.want - Len(d.left))
      BY <1>2, <1>8, <2>2
    <2>8. QED
      BY <1>8, <1>9, <2>4, <2>5, <2>6, <2>7 DEF SendOK
  <1>13. (\A g \in Fibers \ {f} : Sending(g) => calls[g].id # d.id) /\ \A s \in sent : s.id # d.id
    BY <1>1, <1>2, <1>8 DEF SendInv, Sending
  <1>14. \A i \in DOMAIN device'.taken : device'.taken[i][1] <= made'
    BY <1>1 DEF SendInv
  <1>15. made' \in Nat /\ made <= made' /\ io'.k = io.k
    BY <1>1, <1>9
  <1>16. QED
    BY <1>1, <1>8, <1>9, <1>10, <1>11, <1>12, <1>13, <1>14, <1>15, SendsGoOn

(* The answer to a write leaves what was taken, and what is left.             *)
LEMMA ResumeSendKeepsSends ==
  ASSUME SizesAreNumbers, IInv, NEW f \in Fibers, ResumeSend(f)
  PROVE  SendInv'
  <1>1. TypeOK /\ SendInv /\ Sending(f) /\ calls[f].stage = "done"
        /\ made' = made /\ device' = device /\ made \in Nat /\ io \in Io
    BY DEF ResumeSend, In, IInv, TypeOK, Sending
  <1>2. PICK c \in Call : c = calls[f] /\ c.name = "send" /\ c.stage = "done"
    BY <1>1 DEF TypeOK, Sending
  <1>3. /\ SendOK(c) /\ c.want \in Nat /\ c.result \in Int
        /\ c.left \in Seq(Tagged) /\ c.id \in Nat
        /\ \E l \in Nat, w \in Nat :
             /\ l = Len(c.left) /\ c.want = w + l /\ w = c.want - l
             /\ Follows(c.left, c.id, w)
    BY <1>1, <1>2, LeftIs
  <1>4. PICK l \in Nat, w \in Nat :
             /\ l = Len(c.left) /\ c.want = w + l /\ w = c.want - l
             /\ Follows(c.left, c.id, w)
    BY <1>3
  <1>5. c.result <= l /\ (io.k # "file" => l = c.want)
    BY <1>2, <1>3, <1>4 DEF SendOK
  <1>6. CASE End(f) /\ UNCHANGED <<io, sent, odd>>
    BY <1>1, <1>6, EndIs, IdleIs, KeepsSends
  <1>7. CASE SendPanics(f)
    <2>1. io' = [io EXCEPT !.locked = TRUE] /\ sent' = sent /\ End(f)
      BY <1>7 DEF SendPanics
    <2>2. io'.k = io.k
      BY <1>1, <2>1 DEF Io
    <2>3. QED
      BY <1>1, <2>1, <2>2, EndIs, IdleIs, KeepsSends
  <1>8. CASE UNCHANGED <<io, calls, sent>>
    <2>1. \A g \in Fibers : Sending(g)' <=> Sending(g)
      BY <1>8 DEF Sending
    <2>2. \A id, n : TakenOf(id, n) => TakenOf(id, n)'
      BY <1>1, KeepsTaken
    <2>3. \A g \in Fibers : Sending(g) => SendOK(calls[g])'
      BY <1>1, <1>8, <2>2 DEF SendInv, SendOK, Written, Brought
    <2>4. SendsAreTaken'
      BY <1>1, <1>8, <2>2 DEF SendInv, SendsAreTaken
    <2>5. QED
      BY <1>1, <1>8, <2>1, <2>3, <2>4 DEF SendInv
  <1>9. CASE io.k = "file"
    <2>1. ResumeFileSend(f, c)
      BY <1>2, <1>9 DEF ResumeSend
    <2>2. ASSUME c.result >= 0, c.result < l,
                 AskWrite(f, c, SubSeq(c.left, c.result + 1, Len(c.left)))
          PROVE  SendInv'
      <3>1. PICK r \in Nat : r = c.result
        BY <1>3, <2>2
      <3>2. PICK left : left = SubSeq(c.left, r + 1, l)
        OBVIOUS
      <3>3. AskWrite(f, c, left) /\ r < l
        BY <1>4, <2>2, <3>1, <3>2
      <3>4. left \in Seq(Tagged) /\ Len(left) = l - r
            /\ Follows(left, c.id, w + r)
        BY <1>3, <1>4, <3>2, <3>3, LessLeft
      <3>5. QED
        BY <1>1, <1>2, <1>3, <1>4, <1>9, <3>1, <3>3, <3>4, AskWriteKeepsSends
    <2>3. ASSUME c.result >= l, c.result >= 0, Sent(f) PROVE SendInv'
      <3>1. Written(c) = c.want
        BY <1>2, <1>3, <1>4, <1>5, <2>3 DEF Written, Brought
      <3>2. TakenOf(c.id, c.want)
        BY <1>3, <3>1 DEF SendOK
      <3>3. io' = io
        BY <2>3 DEF Sent
      <3>4. QED
        BY <1>1, <1>2, <1>9, <2>3, <3>2, <3>3, SentKeepsSends
    <2>4. QED
      BY <1>3, <1>4, <1>6, <2>1, <2>2, <2>3 DEF ResumeFileSend
  <1>10. CASE io.k = "client"
    <2>1. ResumeSockSend(f, c)
      BY <1>2, <1>10 DEF ResumeSend
    <2>2. ASSUME c.result > 0, Sent(f) PROVE SendInv'
      <3>1. Written(c) = c.result /\ c.result \in 1..c.want
        BY <1>2, <1>3, <1>4, <1>5, <1>10, <2>2 DEF Written, Brought
      <3>2. \E n \in 1..c.want : TakenOf(c.id, n)
        BY <1>3, <3>1 DEF SendOK
      <3>3. io' = io
        BY <2>2 DEF Sent
      <3>4. QED
        BY <1>1, <1>2, <1>10, <2>2, <3>2, <3>3, SentKeepsSends
    <2>3. QED
      BY <1>3, <1>6, <1>8, <2>1, <2>2 DEF ResumeSockSend
  <1>11. CASE io.k \notin {"file", "client"}
    BY <1>7, <1>11 DEF ResumeSend
  <1>12. QED
    BY <1>9, <1>10, <1>11

-----------------------------------------------------------------------------
(* Steps that receive nothing                                                 *)

(* What a fiber has taken and not answered, of one that stays as it was.      *)
LEMMA SameCarried ==
  ASSUME NEW g, calls'[g] = calls[g], io'.buffer = io.buffer
  PROVE  Carried(g)' = Carried(g)
  <1>1. \A p : BufferByte(p)' = BufferByte(p)
    BY DEF BufferByte
  <1>2. QED
    BY <1>1 DEF Carried

(* A fiber that receives nothing has taken nothing.                           *)
LEMMA CarriesNothing ==
  ASSUME NEW g, calls[g].got = <<>>, calls[g].stage # "copy"
  PROVE  Carried(g) = <<>>
  BY DEF Carried

(* The bytes stay whole when no answer and no fiber has more or less of them. *)
LEMMA SameWhole ==
  ASSUME Whole, heard' = heard, io'.bfront = io.bfront,
         \A g \in Fibers : Carried(g)' = Carried(g)
  PROVE  Whole'
  <1>1. Answered' = Answered
    BY DEF Answered, ToSet
  <1>2. OnItsWay' = OnItsWay
    BY DEF OnItsWay, ToSet
  <1>3. QED
    BY <1>1, <1>2 DEF Whole

(* A step of a call that is no recv leaves the bytes where they are.          *)
LEMMA KeepsReads ==
  ASSUME TypeOK, ReadInv, odd = {}, NEW f \in Fibers, NEW c, Becomes(f, c),
         c.name # "recv", calls[f].name # "recv",
         io'.bfront = io.bfront, io'.bback = io.bback, io'.buffer = io.buffer,
         device'.given = device.given, heard' = heard
  PROVE  ReadInv'
  <1>1. calls'[f] = c /\ \A g \in Fibers \ {f} : calls'[g] = calls[g]
    BY OneCall
  <1>2. c.got = <<>> /\ c.stage # "copy" /\ calls[f].got = <<>> /\ calls[f].stage # "copy"
    BY DEF Becomes, Staged, TypeOK
  <1>3. \A g \in Fibers : Reading(g)' <=> Reading(g)
    BY <1>1 DEF Reading
  <1>4. OneReader /\ Pending /\ Buffered /\ Whole
        /\ (\A g \in Fibers : RecvOK(calls[g])) /\ \A i \in DOMAIN heard : AnswerOK(heard[i])
    BY DEF ReadInv
  <1>5. OneReader'
    BY <1>3, <1>4 DEF OneReader
  <1>6. Pending'
    <2>1. \A g \in Fibers : Reading(g) => g # f /\ calls'[g] = calls[g]
      BY <1>1 DEF Reading
    <2>2. ASSUME NEW e, ReadOK(e) PROVE ReadOK(e)'
      BY <2>2 DEF ReadOK, Brought, BufferBack
    <2>3. ASSUME NEW g \in Fibers, Reading(g) PROVE ReadOK(calls[g])'
      <3>1. PICK e : e = calls[g] /\ e = calls'[g]
        BY <2>1, <2>3
      <3>2. ReadOK(e)'
        BY <1>4, <2>2, <2>3, <3>1 DEF Pending
      <3>3. QED
        BY <3>1, <3>2 DEF ReadOK, Brought
    <2>4. QED
      BY <1>3, <1>4, <2>3 DEF Pending
  <1>7. Buffered'
    BY <1>4 DEF Buffered, Fits
  <1>8. \A g \in Fibers : RecvOK(calls[g])'
    BY <1>1, <1>2, <1>4 DEF RecvOK
  <1>9. Whole'
    <2>1. Carried(f) = <<>> /\ Carried(f)' = <<>>
      BY <1>1, <1>2, CarriesNothing DEF Carried
    <2>2. \A g \in Fibers : Carried(g)' = Carried(g)
      BY <1>1, <2>1, SameCarried
    <2>3. QED
      BY <1>4, <2>2, SameWhole
  <1>10. QED
    BY <1>4, <1>5, <1>6, <1>7, <1>8, <1>9 DEF ReadInv, AnswerOK

(* A send reads nothing.                                                      *)
LEMMA SendKeepsReads ==
  ASSUME IInv, odd = {}, NEW f \in Fibers, SendLike(f) \/ SettleLike(f)
  PROVE  ReadInv'
  <1>1. TypeOK /\ ReadInv
    BY DEF IInv
  <1>2. /\ io'.bfront = io.bfront /\ io'.bback = io.bback /\ io'.buffer = io.buffer
        /\ device'.given = device.given /\ heard' = heard
        /\ calls[f].name # "recv" /\ \E c : Becomes(f, c) /\ c.name # "recv"
    BY DEF SendLike, SettleLike
  <1>3. QED
    BY <1>1, <1>2, KeepsReads

-----------------------------------------------------------------------------
(* Bytes that leave the buffer, and bytes that are answered                   *)

(* A sequence of numbers after another.                                       *)
LEMMA JoinedNumbers ==
  ASSUME NEW s \in Seq(Nat), NEW t \in Seq(Nat), NEW l \in Nat, l = Len(s),
         NEW n \in Nat, n = Len(t), NEW u, u = s \o t
  PROVE  /\ u \in Seq(Nat) /\ Len(u) = l + n /\ DOMAIN u = 1..(l + n) /\ DOMAIN s = 1..l
         /\ \A i \in 1..l : u[i] = s[i]
         /\ \A i \in 1..n : u[l + i] = t[i]
  <1>1. u \in Seq(Nat)
    BY Joined
  <1>2. Len(u) = l + n /\ DOMAIN u = 1..(l + n) /\ DOMAIN s = 1..l
    OBVIOUS
  <1>3. /\ \A i \in 1..l : u[i] = s[i]
        /\ \A i \in 1..n : u[l + i] = t[i]
    OBVIOUS
  <1>4. QED
    BY <1>1, <1>2, <1>3

(* The bytes after the first p, behind others.                                *)
Extends(u, got, new, p, n) ==
  /\ got \in Seq(Nat) /\ new \in Seq(Nat) /\ n = Len(new) /\ u = got \o new
  /\ \A i \in 1..n : new[i] = p + i
  /\ ToSet(got) \subseteq 1..p /\ Increasing(got)

Extended(u, got, p, n) ==
  /\ u \in Seq(Nat) /\ Len(u) = Len(got) + n
  /\ ToSet(u) = ToSet(got) \cup ((p + 1)..(p + n))
  /\ Increasing(u)

(* They are all there, and in order.                                          *)
LEMMA JoinedBytes ==
  ASSUME NEW got, NEW new, NEW p \in Nat, NEW n \in Nat, NEW u, Extends(u, got, new, p, n)
  PROVE  Extended(u, got, p, n)
  <1>1. /\ got \in Seq(Nat) /\ new \in Seq(Nat) /\ n = Len(new) /\ u = got \o new
        /\ \A i \in 1..n : new[i] = p + i
        /\ ToSet(got) \subseteq 1..p /\ Increasing(got)
    BY DEF Extends
  <1>2. PICK l \in Nat : l = Len(got)
    BY <1>1
  <1>3. /\ u \in Seq(Nat) /\ Len(u) = l + n /\ DOMAIN u = 1..(l + n) /\ DOMAIN got = 1..l
        /\ \A i \in 1..l : u[i] = got[i]
        /\ \A i \in 1..n : u[l + i] = new[i]
    <2>1. got \in Seq(Nat) /\ new \in Seq(Nat) /\ n = Len(new) /\ u = got \o new
      BY <1>1
    <2>2. QED
      BY <1>2, <2>1, JoinedNumbers
  <1>4. /\ DOMAIN u = 1..(l + n) /\ DOMAIN got = 1..l
        /\ \A i \in 1..l : u[i] = got[i]
        /\ \A i \in 1..n : u[l + i] = p + i
        /\ ToSet(got) \subseteq 1..p /\ Increasing(got)
    BY <1>1, <1>3
  <1>5. \A i \in DOMAIN u : i \in 1..l \/ \E k \in 1..n : i = l + k
    <2>1. SUFFICES ASSUME NEW i \in 1..(l + n), i \notin 1..l
                   PROVE  \E k \in 1..n : i = l + k
      BY <1>4
    <2>2. i - l \in 1..n /\ i = l + (i - l)
      BY <2>1
    <2>3. QED
      BY <2>2
  <1>6. \A i \in 1..l : got[i] \in ToSet(got) /\ got[i] \in 1..p
    BY <1>4 DEF ToSet
  <1>7. ToSet(u) = ToSet(got) \cup ((p + 1)..(p + n))
    <2>1. ASSUME NEW v \in ToSet(u) PROVE v \in ToSet(got) \cup ((p + 1)..(p + n))
      <3>1. PICK i \in DOMAIN u : v = u[i]
        BY DEF ToSet
      <3>2. CASE i \in 1..l
        BY <1>4, <1>6, <3>1, <3>2
      <3>3. ASSUME NEW k \in 1..n, i = l + k PROVE v \in (p + 1)..(p + n)
        <4>1. v = p + k
          BY <1>4, <3>1, <3>3
        <4>2. QED
          BY <4>1
      <3>4. QED
        BY <1>5, <3>2, <3>3
    <2>2. ASSUME NEW v \in ToSet(got) PROVE v \in ToSet(u)
      <3>1. PICK i \in 1..l : v = got[i]
        BY <1>4 DEF ToSet
      <3>2. i \in DOMAIN u /\ v = u[i]
        BY <1>4, <3>1
      <3>3. QED
        BY <3>2 DEF ToSet
    <2>3. ASSUME NEW v \in (p + 1)..(p + n) PROVE v \in ToSet(u)
      <3>1. PICK k \in 1..n : v = p + k
        <4>1. v - p \in 1..n /\ v = p + (v - p)
          OBVIOUS
        <4>2. QED
          BY <4>1
      <3>2. l + k \in DOMAIN u /\ u[l + k] = v
        BY <1>4, <3>1
      <3>3. QED
        BY <3>2 DEF ToSet
    <2>4. QED
      BY <2>1, <2>2, <2>3
  <1>8. ASSUME NEW i \in DOMAIN u, NEW j \in DOMAIN u, i < j PROVE u[i] < u[j]
    <2>1. CASE i \in 1..l /\ j \in 1..l
      BY <1>4, <1>8, <2>1 DEF Increasing
    <2>2. ASSUME i \in 1..l, NEW k \in 1..n, j = l + k PROVE u[i] < u[j]
      <3>1. u[i] \in 1..p /\ u[j] = p + k
        BY <1>4, <1>6, <2>2
      <3>2. QED
        BY <3>1
    <2>3. ASSUME NEW h \in 1..n, i = l + h, NEW k \in 1..n, j = l + k PROVE u[i] < u[j]
      <3>1. u[i] = p + h /\ u[j] = p + k
        BY <1>4, <2>3
      <3>2. h < k
        BY <1>8, <2>3
      <3>3. QED
        BY <3>1, <3>2
    <2>4. ASSUME NEW h \in 1..n, i = l + h PROVE j \notin 1..l
      BY <1>8, <2>4
    <2>5. QED
      BY <1>5, <2>1, <2>2, <2>3, <2>4
  <1>9. Increasing(u)
    BY <1>8 DEF Increasing
  <1>10. u \in Seq(Nat) /\ Len(u) = Len(got) + n
    BY <1>2, <1>3
  <1>11. QED
    BY <1>7, <1>9, <1>10 DEF Extended

(* The next n bytes leave the buffer with a fiber.                            *)
LEMMA WholeGrows ==
  ASSUME Whole, NEW f \in Fibers, NEW p \in Nat, p = io.bfront, NEW n \in Nat,
         io'.bfront = p + n, heard' = heard, NEW u, Carried(f)' = u,
         ToSet(u) = ToSet(Carried(f)) \cup ((p + 1)..(p + n)), Increasing(u),
         \A g \in Fibers \ {f} : Carried(g)' = Carried(g)
  PROVE  Whole'
  <1>1. \A g \in Fibers : ToSet(Carried(g)) \subseteq 1..p
    BY DEF Whole, OnItsWay
  <1>2. \A i \in DOMAIN heard : ToSet(heard[i].bytes) \subseteq 1..p
    BY DEF Whole, Answered
  <1>3. PICK fresh, got : fresh = (p + 1)..(p + n) /\ got = Carried(f)
    OBVIOUS
  <1>4. ToSet(u) = ToSet(got) \cup fresh /\ Increasing(u)
    BY <1>3
  <1>5. Carried(f)' = u
    OBVIOUS
  <1>6. fresh \cap (1..p) = {} /\ (1..p) \cup fresh = 1..(p + n)
    BY <1>3
  <1>7. Answered' = Answered
    BY DEF Answered
  <1>8. OnItsWay' = OnItsWay \cup fresh
    <2>1. ASSUME NEW v \in OnItsWay' PROVE v \in OnItsWay \cup fresh
      <3>1. PICK g \in Fibers : v \in ToSet(Carried(g)')
        BY <2>1 DEF OnItsWay, ToSet
      <3>2. QED
        BY <1>3, <1>4, <1>5, <3>1 DEF OnItsWay
    <2>2. ASSUME NEW v \in OnItsWay PROVE v \in OnItsWay'
      <3>1. PICK g \in Fibers : v \in ToSet(Carried(g))
        BY <2>2 DEF OnItsWay
      <3>2. v \in ToSet(Carried(g)')
        BY <1>3, <1>4, <1>5, <3>1
      <3>3. QED
        BY <3>2 DEF OnItsWay, ToSet
    <2>3. ASSUME NEW v \in fresh PROVE v \in OnItsWay'
      <3>1. v \in ToSet(Carried(f)')
        BY <1>4, <1>5, <2>3
      <3>2. QED
        BY <3>1 DEF OnItsWay, ToSet
    <2>4. QED
      BY <2>1, <2>2, <2>3
  <1>9. Answered' \cup OnItsWay' = 1..io'.bfront
    BY <1>6, <1>7, <1>8 DEF Whole
  <1>10. \A g \in Fibers : Increasing(Carried(g)')
    BY <1>4, <1>5 DEF Whole
  <1>11. \A i \in DOMAIN heard, g \in Fibers : Apart(heard[i].bytes, Carried(g)')
    <2>1. SUFFICES ASSUME NEW i \in DOMAIN heard PROVE Apart(heard[i].bytes, u)
      BY <1>5 DEF Whole
    <2>2. ToSet(heard[i].bytes) \cap ToSet(got) = {} /\ ToSet(heard[i].bytes) \cap fresh = {}
      BY <1>2, <1>3, <1>6 DEF Whole, Apart
    <2>3. QED
      BY <1>4, <2>2 DEF Apart
  <1>12. \A g \in Fibers \ {f} : ToSet(Carried(g)) \cap ToSet(u) = {}
    <2>1. SUFFICES ASSUME NEW g \in Fibers \ {f} PROVE ToSet(Carried(g)) \cap ToSet(u) = {}
      OBVIOUS
    <2>2. ToSet(Carried(g)) \cap ToSet(got) = {} /\ ToSet(Carried(g)) \cap fresh = {}
      BY <1>1, <1>3, <1>6 DEF Whole, Apart
    <2>3. QED
      BY <1>4, <2>2
  <1>13. \A g, h \in Fibers : g # h => Apart(Carried(g)', Carried(h)')
    BY <1>5, <1>12 DEF Whole, Apart
  <1>14. QED
    BY <1>9, <1>10, <1>11, <1>13 DEF Whole

(* What a fiber carries becomes an answer.                                    *)
LEMMA WholeAnswers ==
  ASSUME Whole, NEW f \in Fibers, io'.bfront = io.bfront, heard \in Seq(Answer), NEW a \in Answer,
         heard' = Append(heard, a), a.bytes = Carried(f), Carried(f)' = <<>>,
         \A g \in Fibers \ {f} : Carried(g)' = Carried(g)
  PROVE  Whole'
  <1>1. PICK l \in Nat : l = Len(heard)
    OBVIOUS
  <1>2. /\ DOMAIN heard = 1..l /\ DOMAIN heard' = 1..(l + 1)
        /\ heard'[l + 1] = a /\ \A i \in 1..l : heard'[i] = heard[i]
    BY <1>1
  <1>3. \A i \in DOMAIN heard' : i = l + 1 \/ i \in DOMAIN heard
    BY <1>2
  <1>4. l + 1 \in DOMAIN heard' /\ \A i \in DOMAIN heard : i \in DOMAIN heard' /\ i # l + 1
    BY <1>2
  <1>5. \A i \in DOMAIN heard : heard'[i] = heard[i]
    BY <1>2
  <1>6. ToSet(<<>>) = {}
    BY DEF ToSet
  <1>7. Answered' \cup OnItsWay' = Answered \cup OnItsWay
    <2>1. ASSUME NEW v \in Answered' PROVE v \in Answered \cup OnItsWay
      <3>1. PICK i \in DOMAIN heard' : v \in ToSet(heard'[i].bytes)
        BY <2>1 DEF Answered, ToSet
      <3>2. QED
        BY <1>2, <1>3, <1>5, <3>1 DEF Answered, OnItsWay
    <2>2. ASSUME NEW v \in OnItsWay' PROVE v \in OnItsWay
      <3>1. PICK g \in Fibers : v \in ToSet(Carried(g)')
        BY <2>2 DEF OnItsWay, ToSet
      <3>2. QED
        BY <1>6, <3>1 DEF OnItsWay
    <2>3. ASSUME NEW v \in Answered PROVE v \in Answered'
      <3>1. PICK i \in DOMAIN heard : v \in ToSet(heard[i].bytes)
        BY <2>3 DEF Answered
      <3>2. i \in DOMAIN heard' /\ v \in ToSet(heard'[i].bytes)
        BY <1>4, <1>5, <3>1
      <3>3. QED
        BY <3>2 DEF Answered, ToSet
    <2>4. ASSUME NEW v \in OnItsWay PROVE v \in Answered' \cup OnItsWay'
      <3>1. PICK g \in Fibers : v \in ToSet(Carried(g))
        BY <2>4 DEF OnItsWay
      <3>2. CASE g = f
        <4>1. v \in ToSet(heard'[l + 1].bytes)
          BY <1>2, <3>1, <3>2
        <4>2. QED
          BY <1>4, <4>1 DEF Answered, ToSet
      <3>3. CASE g # f
        <4>1. v \in ToSet(Carried(g)')
          BY <3>1, <3>3
        <4>2. QED
          BY <4>1 DEF OnItsWay, ToSet
      <3>4. QED
        BY <3>2, <3>3
    <2>5. QED
      BY <2>1, <2>2, <2>3, <2>4
  <1>8. \A i \in DOMAIN heard' : Increasing(heard'[i].bytes)
    BY <1>2, <1>3, <1>5 DEF Whole
  <1>9. Increasing(<<>>)
    BY DEF Increasing
  <1>10. \A g \in Fibers : Increasing(Carried(g)')
    BY <1>9 DEF Whole
  <1>11. \A s : Apart(s, <<>>) /\ Apart(<<>>, s)
    BY <1>6 DEF Apart
  <1>12. \A s, t : Apart(s, t) <=> Apart(t, s)
    BY DEF Apart
  <1>13. \A i, j \in DOMAIN heard' : i # j => Apart(heard'[i].bytes, heard'[j].bytes)
    <2>1. SUFFICES ASSUME NEW i \in DOMAIN heard', NEW j \in DOMAIN heard', i # j
                   PROVE  Apart(heard'[i].bytes, heard'[j].bytes)
      OBVIOUS
    <2>2. CASE i = l + 1
      BY <1>2, <1>3, <1>5, <1>12, <2>1, <2>2 DEF Whole
    <2>3. CASE j = l + 1
      BY <1>2, <1>3, <1>5, <2>1, <2>3 DEF Whole
    <2>4. CASE i \in DOMAIN heard /\ j \in DOMAIN heard
      BY <1>5, <2>1, <2>4 DEF Whole
    <2>5. QED
      BY <1>3, <2>2, <2>3, <2>4
  <1>14. \A i \in DOMAIN heard', g \in Fibers : Apart(heard'[i].bytes, Carried(g)')
    BY <1>2, <1>3, <1>5, <1>11, <1>12 DEF Whole
  <1>15. \A g, h \in Fibers : g # h => Apart(Carried(g)', Carried(h)')
    BY <1>11 DEF Whole
  <1>16. QED
    BY <1>7, <1>8, <1>10, <1>13, <1>14, <1>15 DEF Whole

-----------------------------------------------------------------------------
(* The rounds of a receive                                                    *)

Holds(b) == \A i \in b.bfront..(b.bback - 1) : b.buffer[i % BufferSize] = i + 1

(* The io object as f has brought it up to date.                              *)
Ready(f, b) ==
  /\ b \in Io /\ Fits(b) /\ Holds(b) /\ b.bfront = io.bfront /\ b.buffer = io.buffer
  /\ \A g \in Fibers \ {f} : Reading(g) => b.bback = io.bback
  /\ (\A g \in Fibers \ {f} : ~Reading(g)) => device.given = b.bback

(* A call of a receive that may take, or ask for, more.                       *)
Wanting(f, c) ==
  /\ c \in Call /\ c.name = "recv" /\ c.got = calls[f].got
  /\ calls[f].stage # "copy" /\ (c.got # <<>> => Len(c.got) < c.want)

(* The bytes from place on, of those that are unread.                         *)
LEMMA BytesFrom ==
  ASSUME SizesAreNumbers, NEW b \in Io, Fits(b), Holds(b), NEW n \in Nat,
         n <= b.bback - b.bfront, BufferFront(b) + n <= BufferSize
  PROVE  \A i \in 1..n : /\ BufferFront(b) + i - 1 \in Place
                         /\ b.buffer[BufferFront(b) + i - 1] = b.bfront + i
  <1>1. PICK size \in Nat \ {0} : size = BufferSize
    BY DEF SizesAreNumbers
  <1>2. PICK p \in Nat, q \in Nat : p = b.bfront /\ q = b.bback
    BY DEF Io
  <1>3. PICK r \in 0..(size - 1) : r = p % size /\ r = BufferFront(b)
    BY <1>1, <1>2 DEF BufferFront
  <1>4. SUFFICES ASSUME NEW i \in 1..n
                 PROVE  r + i - 1 \in 0..(size - 1) /\ b.buffer[r + i - 1] = p + i
    BY <1>1, <1>2, <1>3 DEF Place
  <1>5. r + n <= size /\ n <= q - p
    BY <1>1, <1>2, <1>3
  <1>6. PICK d \in Nat : d = i - 1 /\ r + d < size /\ p + d <= q - 1
    <2>1. i - 1 \in Nat /\ r + (i - 1) < size /\ p + (i - 1) <= q - 1
      BY <1>5
    <2>2. QED
      BY <2>1
  <1>7. (p + d) % size = r + d
    <2>1. p \in Int
      OBVIOUS
    <2>2. (p % size) + d < size => (p + d) % size = (p % size) + d
      BY <2>1, ModGoesOn, Zenon
    <2>3. QED
      BY <1>3, <1>6, <2>2
  <1>8. b.buffer[(p + d) % size] = p + d + 1
    <2>1. p + d \in p..(q - 1)
      BY <1>6
    <2>2. QED
      BY <1>1, <1>2, <2>1 DEF Holds
  <1>9. b.buffer[r + d] = p + d + 1 /\ p + d + 1 = p + i /\ r + d = r + i - 1
        /\ r + d \in 0..(size - 1)
    BY <1>6, <1>7, <1>8
  <1>10. QED
    BY <1>9

(* A reader is not disturbed when another takes bytes out.                    *)
LEMMA KeepsReadOK ==
  ASSUME NEW e \in Call, ReadOK(e), io \in Io, io' \in Io, SizesAreNumbers,
         io'.bback = io.bback, io.bfront <= io'.bfront, io'.buffer = io.buffer,
         device'.given = device.given
  PROVE  ReadOK(e)'
  <1>1. io.bfront \in Nat /\ io'.bfront \in Nat /\ io.bback \in Nat /\ Brought(e) \in Nat
        /\ BufferSize \in Nat
    BY DEF Io, Brought, Call, SizesAreNumbers
  <1>2. io.bback + Brought(e) <= io'.bfront + BufferSize
    BY <1>1 DEF ReadOK
  <1>3. Brought(e)' = Brought(e)
    BY DEF Brought
  <1>4. QED
    BY <1>2, <1>3 DEF ReadOK, BufferBack

(* A fiber takes n bytes out of the buffer.                                   *)
LEMMA TakeKeepsReads ==
  ASSUME SizesAreNumbers, TypeOK, ReadInv, odd = {}, odd' = {}, NEW f \in Fibers,
         NEW b, Ready(f, b), NEW c, Wanting(f, c), NEW n \in Nat, n <= BufferLen(b),
         c.want # 0 => Len(c.got) + n <= c.want, ~c.ended => n >= 1,
         Take(f, b, c, n), device' = device, heard' = heard
  PROVE  ReadInv'
  <1>1. /\ b \in Io /\ Fits(b) /\ Holds(b) /\ b.bfront = io.bfront /\ b.buffer = io.buffer
        /\ c \in Call /\ c.name = "recv" /\ io \in Io
    BY DEF Ready, Wanting, TypeOK
  <1>2. PICK place \in Nat, p \in Nat, q \in Nat, size \in Nat :
          place = BufferFront(b) /\ p = b.bfront /\ q = b.bback /\ size = BufferSize
    BY <1>1 DEF BufferFront, Io, SizesAreNumbers
  <1>3. n <= q - p /\ place + n <= size /\ p <= q /\ q <= p + size
    <2>1. /\ BufferLen(b) \in 0..BufferSize /\ BufferLen(b) <= b.bback - b.bfront
          /\ b.bback - b.bfront = BufferSize \/ BufferFront(b) + BufferLen(b) <= BufferSize
      BY <1>1, BufferLenIs
    <2>2. PICK m \in Nat : m = BufferLen(b)
      BY <2>1, <1>2
    <2>3. m <= q - p /\ (q - p = size \/ place + m <= size) /\ n <= m
      BY <1>2, <2>1, <2>2
    <2>4. ~(q - p = size /\ place + n > size)
      BY <1>2 DEF Take, Note
    <2>5. p <= q /\ q <= p + size
      BY <1>1, <1>2 DEF Fits
    <2>6. QED
      BY <2>3, <2>4, <2>5
  <1>4. PICK d : d = [c EXCEPT !.stage = "copy", !.place = place, !.room = n]
    OBVIOUS
  <1>5. /\ d \in Call /\ d.name = "recv" /\ d.stage = "copy" /\ d.place = place /\ d.room = n
        /\ d.got = c.got /\ d.want = c.want /\ d.ended = c.ended
    BY <1>1, <1>4 DEF Call, Stages
  <1>6. calls'[f] = d /\ \A g \in Fibers \ {f} : calls'[g] = calls[g]
    BY <1>2, <1>4 DEF Take, Set, TypeOK
  <1>7. io' \in Io /\ io'.bfront = p + n /\ io'.bback = q /\ io'.buffer = io.buffer
    <2>1. io' = [b EXCEPT !.bfront = p + n]
      BY <1>2 DEF Take
    <2>2. p + n \in Nat
      OBVIOUS
    <2>3. QED
      BY <1>1, <1>2, <2>1, <2>2 DEF Io
  <1>8. Whole'
    <2>1. PICK got, new, u : /\ got = c.got /\ u = got \o new
                             /\ new = [i \in 1..n |-> p + i]
      OBVIOUS
    <2>2. Carried(f) = got
      <3>1. c.got \in Seq(Nat) /\ calls[f].got = c.got /\ calls[f].stage # "copy"
        BY <1>1 DEF Wanting, Call
      <3>2. c.got \o <<>> = c.got
        BY <3>1
      <3>3. QED
        BY <2>1, <3>1, <3>2 DEF Carried
    <2>3. Carried(f)' = u
      <3>1. \A i \in 1..n : place + i - 1 \in Place /\ b.buffer[place + i - 1] = p + i
        BY <1>1, <1>2, <1>3, BytesFrom
      <3>2. \A i \in 1..n : BufferByte(place + i - 1)' = p + i
        BY <1>1, <1>7, <3>1 DEF BufferByte, Place, SizesAreNumbers
      <3>3. [i \in 1..n |-> BufferByte(place + i - 1)'] = new
        BY <2>1, <3>2
      <3>4. Carried(f)' = c.got \o [i \in 1..n |-> BufferByte(place + i - 1)']
        BY <1>5, <1>6 DEF Carried
      <3>5. QED
        BY <2>1, <3>3, <3>4
    <2>4. Whole /\ Increasing(got) /\ ToSet(got) \subseteq 1..p
      <3>1. Whole
        BY DEF ReadInv
      <3>2. ToSet(Carried(f)) \subseteq 1..io.bfront /\ Increasing(Carried(f))
        BY <3>1 DEF Whole, OnItsWay
      <3>3. QED
        BY <1>1, <1>2, <2>2, <3>1, <3>2
    <2>5. ToSet(u) = ToSet(got) \cup ((p + 1)..(p + n)) /\ Increasing(u)
      <3>1. got \in Seq(Nat) /\ new \in Seq(Nat) /\ n = Len(new)
            /\ \A i \in 1..n : new[i] = p + i
        BY <1>1, <2>1 DEF Call
      <3>2. u = got \o new
        BY <2>1
      <3>3. Extends(u, got, new, p, n)
        BY <2>4, <3>1, <3>2 DEF Extends
      <3>4. Extended(u, got, p, n)
        BY <3>3, JoinedBytes
      <3>5. QED
        BY <3>4 DEF Extended
    <2>6. \A g \in Fibers \ {f} : Carried(g)' = Carried(g)
      BY <1>6, <1>7, SameCarried
    <2>7. QED
      BY <1>1, <1>2, <1>7, <2>2, <2>3, <2>4, <2>5, <2>6, WholeGrows
  <1>9. \A g \in Fibers : Reading(g)' <=> g # f /\ Reading(g)
    BY <1>5, <1>6 DEF Reading
  <1>10. OneReader'
    BY <1>9 DEF OneReader, ReadInv
  <1>11. Pending'
    <2>1. (\A g \in Fibers : ~Reading(g)') => device'.given = io'.bback
      BY <1>2, <1>7, <1>9 DEF Ready
    <2>2. ASSUME NEW g \in Fibers, Reading(g)' PROVE ReadOK(calls[g])'
      <3>1. PICK e \in Call : e = calls[g] /\ e = calls'[g]
        BY <1>6, <1>9, <2>2 DEF TypeOK
      <3>2. ReadOK(e) /\ b.bback = io.bback
        BY <1>9, <2>2, <3>1 DEF ReadInv, Pending, Ready
      <3>3. io.bfront <= io'.bfront /\ io'.bback = io.bback
        BY <1>1, <1>2, <1>7, <3>2
      <3>4. ReadOK(e)'
        BY <1>1, <1>7, <3>2, <3>3, KeepsReadOK
      <3>5. QED
        BY <3>1, <3>4 DEF ReadOK, Brought
    <2>3. QED
      BY <2>1, <2>2 DEF Pending
  <1>12. Buffered'
    <2>1. p + n <= q /\ q <= p + n + size
      BY <1>3
    <2>2. Fits(io)'
      BY <1>2, <1>7, <2>1 DEF Fits
    <2>3. \A i \in (p + n)..(q - 1) : i \in p..(q - 1)
      OBVIOUS
    <2>4. \A i \in io'.bfront..(io'.bback - 1) : io'.buffer[i % BufferSize] = i + 1
      BY <1>1, <1>2, <1>7, <2>3 DEF Holds
    <2>5. QED
      BY <2>2, <2>4 DEF Buffered
  <1>13. \A g \in Fibers : RecvOK(calls[g])'
    <2>1. d.place + d.room <= BufferSize
      BY <1>2, <1>3, <1>5
    <2>2. RecvOK(d)
      BY <1>5, <2>1 DEF RecvOK, Wanting
    <2>3. QED
      BY <1>6, <2>2 DEF ReadInv, RecvOK
  <1>14. \A i \in DOMAIN heard' : AnswerOK(heard'[i])
    BY DEF ReadInv
  <1>15. QED
    BY <1>8, <1>10, <1>11, <1>12, <1>13, <1>14 DEF ReadInv, AnswerOK

(* What a fiber has kept, when its call is not copying.                       *)
LEMMA CarriesGot ==
  ASSUME NEW g, calls[g].got \in Seq(Nat), calls[g].stage # "copy"
  PROVE  Carried(g) = calls[g].got
  <1>1. calls[g].got \o <<>> = calls[g].got
    OBVIOUS
  <1>2. QED
    BY <1>1 DEF Carried

(* A fiber asks for a read.                                                   *)
LEMMA AskReadKeepsReads ==
  ASSUME SizesAreNumbers, TypeOK, ReadInv, odd = {}, odd' = {}, NEW f \in Fibers,
         NEW b, Ready(f, b), NEW c, Wanting(f, c),
         AskRead(f, b, c), device' = device, heard' = heard
  PROVE  ReadInv'
  <1>1. /\ b \in Io /\ Fits(b) /\ Holds(b) /\ b.bfront = io.bfront /\ b.buffer = io.buffer
        /\ c \in Call /\ c.name = "recv" /\ io' = b
        /\ c.got = calls[f].got /\ calls[f].stage # "copy" /\ c.got \in Seq(Nat)
        /\ (c.got # <<>> => Len(c.got) < c.want)
    BY DEF Ready, Wanting, AskRead, Call
  <1>2. PICK place \in Nat, room \in Nat : place = BufferBack(b) /\ room = BufferAvail(b)
                                           /\ room = BufferSize - place /\ place <= BufferSize
    <2>1. BufferBack(b) \in Place /\ BufferAvail(b) = BufferSize - BufferBack(b)
      BY <1>1, BufferLenIs
    <2>2. QED
      BY <2>1 DEF Place, SizesAreNumbers
  <1>3. PICK d : d = [c EXCEPT !.stage = "asked", !.place = place, !.room = room]
    OBVIOUS
  <1>4. /\ d \in Call /\ d.name = "recv" /\ d.stage = "asked" /\ d.place = place /\ d.room = room
        /\ d.got = c.got /\ d.want = c.want
    BY <1>1, <1>3 DEF Call, Stages
  <1>5. calls'[f] = d /\ \A g \in Fibers \ {f} : calls'[g] = calls[g]
    BY <1>2, <1>3 DEF AskRead, Set, TypeOK
  <1>6. \A g \in Fibers \ {f} : ~Reading(g)
    BY DEF AskRead, Note
  <1>7. \A g \in Fibers : Reading(g)' <=> g = f
    BY <1>4, <1>5, <1>6 DEF Reading
  <1>8. Whole'
    <2>1. Carried(f) = c.got
      BY <1>1, CarriesGot
    <2>2. Carried(f)' = c.got
      <3>1. Carried(f)' = d.got \o <<>>
        BY <1>4, <1>5 DEF Carried
      <3>2. QED
        BY <1>1, <1>4, <3>1
    <2>3. \A g \in Fibers : Carried(g)' = Carried(g)
      BY <1>1, <1>5, <2>1, <2>2, SameCarried
    <2>4. QED
      BY <1>1, <2>3, SameWhole DEF ReadInv
  <1>9. OneReader'
    BY <1>7 DEF OneReader
  <1>10. Pending'
    <2>1. device.given = b.bback
      BY <1>6 DEF Ready
    <2>2. Brought(d) = 0
      BY <1>4 DEF Brought
    <2>3. b.bback \in Nat /\ b.bback <= b.bfront + BufferSize
      BY <1>1 DEF Fits, Io
    <2>4. ReadOK(d)'
      BY <1>1, <1>2, <1>4, <2>1, <2>2, <2>3 DEF ReadOK, Brought, BufferBack
    <2>5. ReadOK(calls[f])'
      BY <1>5, <2>4 DEF ReadOK, Brought
    <2>6. QED
      BY <1>7, <2>5 DEF Pending
  <1>11. Buffered'
    BY <1>1 DEF Buffered, Fits, Holds
  <1>12. \A g \in Fibers : RecvOK(calls[g])'
    <2>1. RecvOK(d)
      BY <1>1, <1>4 DEF RecvOK
    <2>2. QED
      BY <1>5, <2>1 DEF ReadInv, RecvOK
  <1>13. \A i \in DOMAIN heard' : AnswerOK(heard'[i])
    BY DEF ReadInv
  <1>14. QED
    BY <1>8, <1>9, <1>10, <1>11, <1>12, <1>13 DEF ReadInv, AnswerOK

(* What a round takes of what is available, when l bytes of w are there.      *)
Consumes(n, size, w, l, available, need) ==
  /\ available # 0 /\ (l < w \/ l = 0)
  /\ need = IF l > w THEN size ELSE Lesser(w - l, size)
  /\ n = Lesser(IF need = 0 THEN available ELSE need, available)

(* It is no more than what is wanted, and something.                          *)
LEMMA ConsumeIs ==
  ASSUME NEW size \in Nat \ {0}, NEW w \in Nat, NEW l \in Nat, NEW available \in Nat,
         NEW need, NEW n, Consumes(n, size, w, l, available, need)
  PROVE  n \in Nat /\ n <= available /\ n >= 1 /\ (w # 0 => l + n <= w)
  <1>1. need = IF w - l <= size THEN w - l ELSE size
    BY DEF Consumes, Lesser
  <1>2. need \in Nat /\ (need = 0 => w = 0) /\ (w # 0 => l + need <= w)
    BY <1>1 DEF Consumes
  <1>3. n = IF need # 0 /\ need <= available THEN need ELSE available
    BY <1>2 DEF Consumes, Lesser
  <1>4. QED
    BY <1>2, <1>3 DEF Consumes

(* A round of a receive.                                                      *)
LEMMA RoundKeepsReads ==
  ASSUME SizesAreNumbers, TypeOK, ReadInv, odd = {}, odd' = {}, NEW f \in Fibers,
         NEW b, Ready(f, b), NEW c, Wanting(f, c), IobufRecv(f, b, c), device' = device
  PROVE  ReadInv'
  <1>1. heard' = heard
    BY DEF IobufRecv
  <1>2. PICK available : available = BufferLen(b)
    OBVIOUS
  <1>3. PICK n : n = Lesser(IF Need(c) = 0 THEN available ELSE Need(c), available)
    OBVIOUS
  <1>4. CASE AskRead(f, b, c)
    BY <1>1, <1>4, AskReadKeepsReads
  <1>5. CASE available # 0 /\ Take(f, b, c, n)
    <2>1. PICK w \in Nat, l \in Nat, size \in Nat \ {0} :
            w = c.want /\ l = Len(c.got) /\ size = BufferSize /\ (l < w \/ l = 0)
      <3>1. c.want \in Nat /\ c.got \in Seq(Nat) /\ (c.got # <<>> => Len(c.got) < c.want)
        BY DEF Wanting, Call
      <3>2. Len(c.got) \in Nat /\ (Len(c.got) < c.want \/ Len(c.got) = 0)
        BY <3>1
      <3>3. BufferSize \in Nat \ {0}
        BY DEF SizesAreNumbers
      <3>4. \E w \in Nat : w = c.want
        BY <3>1
      <3>5. \E l \in Nat : l = Len(c.got)
        BY <3>2
      <3>6. QED
        BY <3>2, <3>3, <3>4, <3>5, Zenon
    <2>2. available \in Nat
      <3>1. b \in Io /\ Fits(b)
        BY DEF Ready
      <3>2. BufferLen(b) \in 0..BufferSize
        BY <3>1, BufferLenIs
      <3>3. QED
        BY <1>2, <2>1, <3>2
    <2>3. PICK need : need = Need(c) /\ need = IF l > w THEN size ELSE Lesser(w - l, size)
      <3>1. Need(c) = IF l > w THEN size ELSE Lesser(w - l, size)
        BY <2>1 DEF Need
      <3>2. QED
        BY <3>1
    <2>4. n \in Nat /\ n <= available /\ n >= 1 /\ (w # 0 => l + n <= w)
      <3>1. n = Lesser(IF need = 0 THEN available ELSE need, available)
        BY <1>3, <2>3
      <3>2. need = IF l > w THEN size ELSE Lesser(w - l, size)
        BY <2>3
      <3>3. available \in Nat /\ available # 0 /\ (l < w \/ l = 0)
        BY <1>5, <2>1, <2>2
      <3>4. Consumes(n, size, w, l, available, need)
        BY <3>1, <3>2, <3>3 DEF Consumes
      <3>5. QED
        BY <2>2, <3>4, ConsumeIs
    <2>5. /\ n \in Nat /\ n <= BufferLen(b) /\ (~c.ended => n >= 1)
          /\ (c.want # 0 => Len(c.got) + n <= c.want)
      <3>1. n <= BufferLen(b)
        BY <1>2, <2>4, Zenon
      <3>2. c.want # 0 => Len(c.got) + n <= c.want
        <4>1. w = c.want /\ l = Len(c.got)
          BY <2>1
        <4>2. w # 0 => l + n <= w
          BY <2>4
        <4>3. QED
          BY <4>1, <4>2, Zenon
      <3>3. QED
        BY <2>4, <3>1, <3>2, Zenon
    <2>6. Take(f, b, c, n)
      BY <1>5
    <2>7. QED
      BY <1>1, <2>5, <2>6, TakeKeepsReads
  <1>6. AskRead(f, b, c) \/ (available # 0 /\ Take(f, b, c, n))
    BY <1>2, <1>3 DEF IobufRecv
  <1>7. QED
    BY <1>4, <1>5, <1>6

(* A fiber that is not reading finds the io object up to date.                *)
LEMMA ReadyNow ==
  ASSUME TypeOK, ReadInv, odd = {}, NEW f \in Fibers, ~Reading(f)
  PROVE  Ready(f, io)
  BY DEF TypeOK, ReadInv, Buffered, Holds, Pending, Ready

(* Nothing changes for the readers.                                           *)
LEMMA StandsStill ==
  ASSUME ReadInv, io' = io, calls' = calls, device' = device, heard' = heard, odd' = odd
  PROVE  ReadInv'
  <1>1. Whole' = Whole
    <2>1. \A g \in Fibers : Carried(g)' = Carried(g)
      BY SameCarried
    <2>2. Answered' = Answered
      BY DEF Answered, ToSet
    <2>3. OnItsWay' = OnItsWay
      BY <2>1 DEF OnItsWay, ToSet
    <2>4. QED
      BY <2>1, <2>2, <2>3 DEF Whole
  <1>2. \A g : Reading(g)' <=> Reading(g)
    BY DEF Reading
  <1>3. OneReader' = OneReader
    BY <1>2 DEF OneReader
  <1>4. \A e : ReadOK(e)' <=> ReadOK(e)
    BY DEF ReadOK, Brought, BufferBack
  <1>5. ASSUME NEW g \in Fibers, ReadOK(calls[g]) PROVE ReadOK(calls[g])'
    <2>1. PICK e : e = calls[g] /\ e = calls'[g]
      OBVIOUS
    <2>2. ReadOK(e)'
      BY <1>4, <1>5, <2>1
    <2>3. QED
      BY <2>1, <2>2 DEF ReadOK, Brought
  <1>6. Pending => Pending'
    BY <1>2, <1>5 DEF Pending
  <1>7. Buffered' = Buffered
    BY DEF Buffered, Fits
  <1>8. QED
    BY <1>1, <1>3, <1>6, <1>7 DEF ReadInv, RecvOK, AnswerOK

(* A receive that fails with nothing kept, and nothing brought.               *)
LEMMA FailKeepsReads ==
  ASSUME TypeOK, ReadInv, odd = {}, odd' = {}, NEW f \in Fibers, calls[f].stage # "copy",
         Reading(f) => Brought(calls[f]) = 0, Fail(f), device' = device
  PROVE  ReadInv'
  <1>1. calls[f].got = <<>> /\ io' = io /\ heard' = heard
    BY DEF Fail, Note
  <1>2. calls'[f] = Idle /\ \A g \in Fibers \ {f} : calls'[g] = calls[g]
    BY EndIs, OneCall DEF Fail
  <1>3. \A g \in Fibers : Reading(g)' <=> g # f /\ Reading(g)
    BY <1>2, IdleIs DEF Reading
  <1>4. OneReader /\ Pending /\ Buffered /\ Whole
        /\ (\A g \in Fibers : RecvOK(calls[g])) /\ \A i \in DOMAIN heard : AnswerOK(heard[i])
    BY DEF ReadInv
  <1>5. OneReader'
    BY <1>3, <1>4 DEF OneReader
  <1>6. Pending'
    <2>1. ASSUME NEW g \in Fibers, Reading(g)' PROVE ReadOK(calls[g])'
      <3>1. PICK e : e = calls[g] /\ e = calls'[g]
        BY <1>2, <1>3, <2>1
      <3>2. ReadOK(e)
        BY <1>3, <1>4, <2>1, <3>1 DEF Pending
      <3>3. ReadOK(e)'
        BY <1>1, <3>2 DEF ReadOK, Brought, BufferBack
      <3>4. QED
        BY <3>1, <3>3 DEF ReadOK, Brought
    <2>2. ASSUME \A g \in Fibers : ~Reading(g)' PROVE device'.given = io'.bback
      <3>1. CASE Reading(f)
        <4>1. device.given = io.bback + Brought(calls[f]) /\ Brought(calls[f]) = 0
          BY <1>4, <3>1 DEF Pending, ReadOK
        <4>2. io.bback \in Nat
          BY DEF TypeOK, Io
        <4>3. QED
          BY <1>1, <4>1, <4>2
      <3>2. CASE ~Reading(f)
        BY <1>1, <1>3, <1>4, <2>2, <3>2 DEF Pending
      <3>3. QED
        BY <3>1, <3>2
    <2>3. QED
      BY <2>1, <2>2 DEF Pending
  <1>7. Buffered'
    BY <1>1, <1>4 DEF Buffered, Fits
  <1>8. \A g \in Fibers : RecvOK(calls[g])'
    BY <1>2, <1>4, IdleIs DEF RecvOK
  <1>9. Whole'
    <2>1. Carried(f) = <<>>
      BY <1>1, CarriesNothing
    <2>2. Carried(f)' = <<>>
      BY <1>2, IdleIs DEF Carried
    <2>3. \A g \in Fibers : Carried(g)' = Carried(g)
      BY <1>1, <1>2, <2>1, <2>2, SameCarried
    <2>4. QED
      BY <1>1, <1>4, <2>3, SameWhole
  <1>10. QED
    BY <1>1, <1>4, <1>5, <1>6, <1>7, <1>8, <1>9 DEF ReadInv, AnswerOK

(* recv                                                                       *)
LEMMA RecvKeepsReads ==
  ASSUME SizesAreNumbers, IInv, NEW f \in Fibers, Recv(f)
  PROVE  ReadInv'
  <1>1. TypeOK /\ ReadInv /\ odd = {} /\ calls[f].stage = "idle" /\ device' = device
    BY DEF Recv, NewCall, Runs, IInv
  <1>2. PICK want \in Wants :
          IF io.k \in Streaming
          THEN IobufRecv(f, io, [Idle EXCEPT !.name = "recv", !.want = want])
          ELSE UNCHANGED <<io, calls, heard, sent, settled, odd>>
    BY DEF Recv
  <1>3. CASE io.k \in Streaming /\ odd' = {}
    <2>1. PICK c : c = [Idle EXCEPT !.name = "recv", !.want = want]
      OBVIOUS
    <2>2. c \in Call /\ c.name = "recv" /\ c.got = <<>>
      BY <2>1, IdleIs DEF Call, Names, SizesAreNumbers
    <2>3. calls[f].got = <<>>
      BY <1>1, IdleHasNoName DEF TypeOK, Staged
    <2>4. Wanting(f, c)
      BY <1>1, <2>2, <2>3 DEF Wanting
    <2>5. Ready(f, io)
      <3>1. ~Reading(f)
        BY <1>1 DEF Reading
      <3>2. QED
        BY <1>1, <3>1, ReadyNow
    <2>6. IobufRecv(f, io, c)
      BY <1>2, <1>3, <2>1
    <2>7. QED
      BY <1>1, <1>3, <2>4, <2>5, <2>6, RoundKeepsReads
  <1>4. CASE io.k \notin Streaming
    BY <1>1, <1>2, <1>4, StandsStill
  <1>5. CASE odd' # {}
    BY <1>5 DEF ReadInv
  <1>6. QED
    BY <1>3, <1>4, <1>5

(* readmore:                                                                  *)
LEMMA ReadMoreKeepsReads ==
  ASSUME SizesAreNumbers, IInv, NEW f \in Fibers, ReadMore(f)
  PROVE  ReadInv'
  <1>1. TypeOK /\ ReadInv /\ odd = {} /\ device' = device
        /\ calls[f].name = "recv" /\ calls[f].stage = "more"
    BY DEF ReadMore, In, Runs, IInv
  <1>2. ~Reading(f)
    BY <1>1 DEF Reading
  <1>3. CASE IobufRecv(f, io, calls[f]) /\ odd' = {}
    <2>1. Wanting(f, calls[f])
      <3>1. calls[f] \in Call /\ RecvOK(calls[f])
        BY <1>1 DEF TypeOK, ReadInv
      <3>2. QED
        BY <1>1, <3>1 DEF Wanting, RecvOK
    <2>2. Ready(f, io)
      BY <1>1, <1>2, ReadyNow
    <2>3. IobufRecv(f, io, calls[f])
      BY <1>3
    <2>4. QED
      BY <1>1, <1>3, <2>1, <2>2, <2>3, RoundKeepsReads
  <1>4. CASE Fail(f) /\ odd' = {}
    BY <1>1, <1>2, <1>4, FailKeepsReads
  <1>5. CASE odd' # {}
    BY <1>5 DEF ReadInv
  <1>6. QED
    BY <1>3, <1>4, <1>5 DEF ReadMore

(* What a read has brought becomes part of the buffer.                        *)
LEMMA BroughtIsHeld ==
  ASSUME SizesAreNumbers, io \in Io, Buffered, NEW c \in Call, ReadOK(c), NEW r \in Nat,
         r = Brought(c), NEW b \in Io, b.bfront = io.bfront, b.buffer = io.buffer,
         b.bback = io.bback + r
  PROVE  Fits(b) /\ Holds(b)
  <1>1. PICK size \in Nat \ {0}, p \in Nat, q \in Nat, place \in Nat :
          size = BufferSize /\ p = io.bfront /\ q = io.bback /\ place = c.place
    BY DEF SizesAreNumbers, Io, Call
  <1>2. /\ place = q % size /\ place + r <= size /\ q + r <= p + size
        /\ \A j \in 0..(r - 1) : io.buffer[place + j] = q + j + 1
    BY <1>1 DEF ReadOK, BufferBack
  <1>3. p <= q /\ \A i \in p..(q - 1) : io.buffer[i % size] = i + 1
    BY <1>1 DEF Buffered, Fits
  <1>4. Fits(b)
    BY <1>1, <1>2, <1>3 DEF Fits
  <1>5. ASSUME NEW i \in p..(q + r - 1) PROVE io.buffer[i % size] = i + 1
    <2>1. CASE i < q
      <3>1. i \in p..(q - 1)
        BY <2>1
      <3>2. QED
        BY <1>3, <3>1
    <2>2. CASE i >= q
      <3>1. PICK j \in Nat : j = i - q /\ j \in 0..(r - 1) /\ i = q + j /\ place + j < size
        <4>1. i - q \in Nat /\ i - q \in 0..(r - 1) /\ i = q + (i - q) /\ place + (i - q) < size
          BY <1>2, <2>2
        <4>2. QED
          BY <4>1
      <3>2. i % size = place + j
        <4>1. q \in Int
          OBVIOUS
        <4>2. (q % size) + j < size => (q + j) % size = (q % size) + j
          BY <4>1, ModGoesOn, Zenon
        <4>3. QED
          BY <1>2, <3>1, <4>2
      <3>3. QED
        BY <1>2, <3>1, <3>2
    <2>3. QED
      BY <2>1, <2>2
  <1>6. QED
    BY <1>1, <1>4, <1>5 DEF Holds

(* iobuf_recv, when the read has ended.                                       *)
LEMMA ResumeRecvKeepsReads ==
  ASSUME SizesAreNumbers, IInv, NEW f \in Fibers, ResumeRecv(f)
  PROVE  ReadInv'
  <1>1. TypeOK /\ ReadInv /\ UpInv /\ odd = {} /\ device' = device
        /\ calls[f].name = "recv" /\ calls[f].stage = "done"
    BY DEF ResumeRecv, In, Runs, IInv
  <1>2. PICK c \in Call : c = calls[f] /\ c.name = "recv" /\ c.stage = "done"
    BY <1>1 DEF TypeOK
  <1>3. io \in Io /\ Buffered /\ ReadOK(c) /\ RecvOK(c) /\ (\A g \in Fibers \ {f} : ~Reading(g))
    BY <1>1, <1>2 DEF TypeOK, ReadInv, OneReader, Pending, Reading
  <1>4. PICK w \in Nat, l \in Nat, size \in Nat \ {0} :
          w = c.want /\ l = Len(c.got) /\ size = BufferSize /\ (l < w \/ l = 0)
    <2>1. c.want \in Nat /\ c.got \in Seq(Nat) /\ (c.got # <<>> => Len(c.got) < c.want)
      BY <1>3 DEF RecvOK, Call
    <2>2. Len(c.got) \in Nat /\ (Len(c.got) < c.want \/ Len(c.got) = 0)
      BY <2>1
    <2>3. BufferSize \in Nat \ {0}
      BY DEF SizesAreNumbers
    <2>4. \E w \in Nat : w = c.want
      BY <2>1
    <2>5. \E l \in Nat : l = Len(c.got)
      BY <2>2
    <2>6. QED
      BY <2>2, <2>3, <2>4, <2>5, Zenon
  <1>5. CASE odd' # {}
    BY <1>5 DEF ReadInv
  <1>6. CASE (io.k \notin Streaming \/ c.result < 0) /\ Fail(f) /\ odd' = {}
    <2>1. ~(c.result > 0)
      <3>1. c.result \in Int
        BY DEF Call
      <3>2. c.result >= 0 => io.k \in Streaming
        BY <1>1, <1>2 DEF UpInv
      <3>3. QED
        BY <1>6, <3>1, <3>2
    <2>2. Brought(calls[f]) = 0
      BY <1>2, <2>1 DEF Brought
    <2>3. calls[f].stage # "copy"
      BY <1>1
    <2>4. QED
      BY <1>1, <1>6, <2>2, <2>3, FailKeepsReads
  <1>7. CASE /\ c.result > 0 /\ odd' = {}
             /\ IobufRecv(f, [io EXCEPT !.bback = @ + c.result], c)
    <2>1. PICK r \in Nat : r = c.result /\ r = Brought(c)
      BY <1>2, <1>7 DEF Call, Brought
    <2>2. PICK b : b = [io EXCEPT !.bback = @ + r]
      OBVIOUS
    <2>3. b \in Io /\ b.bfront = io.bfront /\ b.buffer = io.buffer /\ b.bback = io.bback + r
      BY <1>3, <2>2 DEF Io
    <2>4. Fits(b) /\ Holds(b)
      BY <1>3, <2>1, <2>3, BroughtIsHeld
    <2>5. device.given = b.bback
      BY <1>3, <2>1, <2>3 DEF ReadOK
    <2>6. Ready(f, b)
      BY <1>3, <2>3, <2>4, <2>5 DEF Ready
    <2>7. Wanting(f, c)
      BY <1>2, <1>3 DEF Wanting, RecvOK
    <2>8. IobufRecv(f, b, c)
      BY <1>7, <2>1, <2>2
    <2>9. QED
      BY <1>1, <1>7, <2>6, <2>7, <2>8, RoundKeepsReads
  <1>8. CASE /\ ~(c.result < 0) /\ ~(c.result > 0) /\ odd' = {}
             /\ ~(BufferLen(io) > 0 /\ BufferLen(io) >= Need(c))
             /\ Take(f, io, [c EXCEPT !.ended = TRUE], BufferLen(io)) /\ heard' = heard
    <2>1. PICK n \in Nat : n = BufferLen(io)
      <3>1. BufferLen(io) \in 0..BufferSize
        BY <1>3, BufferLenIs DEF Buffered
      <3>2. BufferLen(io) \in Nat
        BY <1>4, <3>1
      <3>3. QED
        BY <3>2
    <2>2. PICK e : e = [c EXCEPT !.ended = TRUE]
      OBVIOUS
    <2>3. /\ e \in Call /\ e.name = "recv" /\ e.got = c.got /\ e.want = c.want /\ e.ended = TRUE
      BY <1>2, <2>2 DEF Call
    <2>4. Wanting(f, e)
      BY <1>2, <1>3, <2>3 DEF Wanting, RecvOK
    <2>5. Ready(f, io)
      <3>1. Brought(c) = 0
        BY <1>8 DEF Brought
      <3>2. device.given = io.bback
        <4>1. io.bback \in Nat
          BY <1>3 DEF Io
        <4>2. QED
          BY <1>3, <3>1, <4>1 DEF ReadOK
      <3>3. QED
        BY <1>3, <3>2 DEF Ready, Buffered, Holds
    <2>6. w # 0 => l + n <= w
      <3>1. PICK need : need = Need(c) /\ need = IF l > w THEN size ELSE Lesser(w - l, size)
        <4>1. Need(c) = IF l > w THEN size ELSE Lesser(w - l, size)
          BY <1>4 DEF Need
        <4>2. QED
          BY <4>1
      <3>2. n = 0 \/ n < need
        <4>1. need \in Nat
          BY <1>4, <3>1 DEF Lesser
        <4>2. ~(n > 0 /\ n >= need)
          BY <1>8, <2>1, <3>1
        <4>3. QED
          BY <4>1, <4>2
      <3>3. l <= w
        BY <1>4
      <3>4. need = IF w - l <= size THEN w - l ELSE size
        BY <1>4, <3>1, <3>3 DEF Lesser
      <3>5. QED
        BY <1>4, <3>2, <3>3, <3>4
    <2>7. e.want # 0 => Len(e.got) + n <= e.want
      <3>1. w = e.want /\ l = Len(e.got)
        BY <1>4, <2>3
      <3>2. QED
        BY <2>6, <3>1, Zenon
    <2>8. Take(f, io, e, n) /\ n <= BufferLen(io)
      BY <1>8, <2>1, <2>2
    <2>9. ~e.ended => n >= 1
      BY <2>3
    <2>10. odd' = {} /\ heard' = heard
      BY <1>8
    <2>11. QED
      BY <1>1, <2>4, <2>5, <2>7, <2>8, <2>9, <2>10, TakeKeepsReads
  <1>9. QED
    BY <1>2, <1>5, <1>6, <1>7, <1>8 DEF ResumeRecv, Abort, Note


(* A read that overwrites nothing brings no more than there is room for.      *)
LEMMA RoomIsLeft ==
  ASSUME SizesAreNumbers, io \in Io, Fits(io), NEW r \in Nat, NEW place \in Nat,
         place = BufferBack(io), place + r <= BufferSize,
         \A i \in io.bfront..(io.bback - 1) : i % BufferSize \notin place..(place + r - 1)
  PROVE  io.bback + r <= io.bfront + BufferSize
  <1>1. PICK size \in Nat \ {0}, p \in Nat, q \in Nat :
          size = BufferSize /\ p = io.bfront /\ q = io.bback
    BY DEF SizesAreNumbers, Io
  <1>2. place = q % size /\ place + r <= size /\ p <= q /\ q <= p + size
    BY <1>1 DEF BufferBack, Fits
  <1>3. SUFFICES ASSUME q + r > p + size PROVE FALSE
    BY <1>1
  <1>4. PICK i \in Nat, j \in Nat : j = r - 1 /\ i = q + j - size
                                    /\ i >= p /\ i <= q - 1 /\ place + j < size
    <2>1. r - 1 \in Nat /\ q + (r - 1) - size \in Nat /\ q + (r - 1) - size >= p
          /\ q + (r - 1) - size <= q - 1 /\ place + (r - 1) < size
      BY <1>2, <1>3
    <2>2. QED
      BY <2>1
  <1>5. (q + j) % size = place + j
    <2>1. q \in Int
      OBVIOUS
    <2>2. (q % size) + j < size => (q + j) % size = (q % size) + j
      BY <2>1, ModGoesOn, Zenon
    <2>3. QED
      BY <1>2, <1>4, <2>2
  <1>6. i % size = place + j
    <2>1. i \in Int /\ size \in Nat
      OBVIOUS
    <2>2. (i + size) % size = i % size
      BY <2>1, ModGoesOn, Zenon
    <2>3. i + size = q + j
      BY <1>4
    <2>4. QED
      BY <1>5, <2>2, <2>3
  <1>7. i \in io.bfront..(io.bback - 1) /\ place + j \in place..(place + r - 1)
    BY <1>1, <1>4
  <1>8. QED
    BY <1>1, <1>6, <1>7

(* The device gives some bytes, or fails.                                     *)
LEMMA DeviceReadsKeepsReads ==
  ASSUME SizesAreNumbers, IInv, NEW f \in Fibers, DeviceReads(f)
  PROVE  ReadInv'
  <1>1. TypeOK /\ ReadInv /\ odd = {} /\ heard' = heard
        /\ calls[f].name = "recv" /\ calls[f].stage = "asked"
    BY DEF DeviceReads, In, Runs, IInv
  <1>2. PICK c \in Call : c = calls[f] /\ c.name = "recv" /\ c.stage = "asked"
    BY <1>1 DEF TypeOK
  <1>3. io \in Io /\ Buffered /\ ReadOK(c) /\ RecvOK(c) /\ device \in Device
        /\ \A g \in Fibers \ {f} : ~Reading(g)
    BY <1>1, <1>2 DEF TypeOK, ReadInv, OneReader, Pending, Reading
  <1>4. PICK place \in Nat, room \in Nat, given \in Nat, size \in Nat \ {0}, q \in Nat :
          /\ place = c.place /\ room = c.room /\ given = device.given
          /\ size = BufferSize /\ q = io.bback
    BY <1>3 DEF Call, Device, SizesAreNumbers, Io
  <1>5. place = BufferBack(io) /\ room = size - place /\ given = q /\ place <= size
    <2>1. Brought(c) = 0
      BY <1>2 DEF Brought
    <2>2. QED
      BY <1>2, <1>3, <1>4, <2>1 DEF ReadOK
  <1>6. SUFFICES ASSUME odd' = {} PROVE ReadInv'
    BY DEF ReadInv
  <1>7. PICK n \in -1..Lesser(calls[f].room, MostIn - device.given) :
          /\ io' = [io EXCEPT !.buffer = [i \in DOMAIN io.buffer |->
                      IF i \in calls[f].place..(calls[f].place + n - 1)
                      THEN device.given + 1 + i - calls[f].place ELSE io.buffer[i]]]
          /\ odd' = odd \cup (IF calls[f].place..(calls[f].place + n - 1) \cap Live # {}
                              THEN {"overwritten"} ELSE {})
          /\ device' = [device EXCEPT !.given = IF n > 0 THEN device.given + n ELSE device.given]
          /\ calls' = [calls EXCEPT ![f] = [calls[f] EXCEPT !.stage = "done", !.result = n]]
    BY Zenon DEF DeviceReads, Set, Note
  <1>8. n \in Int /\ n <= room
    <2>1. room \in Int /\ MostIn - given \in Int
      BY DEF SizesAreNumbers
    <2>2. Lesser(room, MostIn - given) \in Int /\ Lesser(room, MostIn - given) <= room
      BY <2>1, LesserIs
    <2>3. n \in -1..Lesser(room, MostIn - given)
      BY <1>2, <1>4, <1>7
    <2>4. QED
      BY <2>2, <2>3
  <1>9. PICK r \in Nat : /\ r = IF n > 0 THEN n ELSE 0
                         /\ place..(place + n - 1) = place..(place + r - 1)
    <2>1. n <= 0 => place..(place + n - 1) = {} /\ place..(place + 0 - 1) = {}
      BY <1>8
    <2>2. CASE n > 0
      BY <1>8, <2>2
    <2>3. CASE ~(n > 0)
      BY <1>8, <2>1, <2>3
    <2>4. QED
      BY <2>2, <2>3
  <1>10. place + r <= size
    BY <1>5, <1>8, <1>9
  <1>11. PICK written : written = place..(place + r - 1)
    OBVIOUS
  <1>12. written \cap Live = {}
    BY <1>2, <1>4, <1>6, <1>7, <1>9, <1>11
  <1>13. PICK buffer : buffer = [i \in DOMAIN io.buffer |->
                                   IF i \in written THEN given + 1 + i - place ELSE io.buffer[i]]
    OBVIOUS
  <1>14. io' \in Io /\ io'.bfront = io.bfront /\ io'.bback = io.bback /\ io'.buffer = buffer
    <2>1. io' = [io EXCEPT !.buffer = buffer]
      BY <1>2, <1>4, <1>7, <1>9, <1>11, <1>13
    <2>2. io' \in Io
      BY DeviceReadsIs DEF RecvLike
    <2>3. QED
      BY <1>3, <2>1, <2>2 DEF Io
  <1>15. DOMAIN io.buffer = Place /\ \A i \in Place : i \notin written => buffer[i] = io.buffer[i]
    BY <1>3, <1>13 DEF Io
  <1>16. PICK d : d = [c EXCEPT !.stage = "done", !.result = n]
    OBVIOUS
  <1>17. /\ d \in Call /\ d.name = "recv" /\ d.stage = "done" /\ d.place = place /\ d.result = n
         /\ d.got = c.got /\ d.want = c.want
    BY <1>2, <1>4, <1>8, <1>16 DEF Call, Stages
  <1>18. calls'[f] = d /\ \A g \in Fibers \ {f} : calls'[g] = calls[g]
    BY <1>1, <1>2, <1>7, <1>16 DEF TypeOK
  <1>19. device'.given = given + r
    <2>1. device'.given = IF n > 0 THEN given + n ELSE given
      BY <1>3, <1>4, <1>7 DEF Device
    <2>2. QED
      BY <1>9, <2>1
  <1>20. Brought(d) = r
    BY <1>9, <1>17 DEF Brought
  <1>21. \A i \in io.bfront..(io.bback - 1) : i % BufferSize \notin written
    BY <1>12 DEF Live, Unread
  <1>22. \A g \in Fibers : Reading(g)' <=> g = f
    BY <1>3, <1>17, <1>18 DEF Reading
  <1>23. OneReader'
    BY <1>22 DEF OneReader
  <1>24. ReadOK(d)'
    <2>1. io.bback + r <= io.bfront + BufferSize
      BY <1>3, <1>4, <1>5, <1>10, <1>11, <1>21, RoomIsLeft DEF Buffered
    <2>2. ASSUME NEW j \in 0..(r - 1) PROVE buffer[place + j] = q + j + 1
      <3>1. place + j \in Place /\ place + j \in written
        <4>1. place + j \in 0..(size - 1) /\ place + j \in place..(place + r - 1)
          BY <1>10
        <4>2. size = BufferSize
          BY <1>4
        <4>3. QED
          BY <1>11, <4>1, <4>2 DEF Place
      <3>2. buffer[place + j] = given + 1 + (place + j) - place
        BY <1>13, <1>15, <3>1
      <3>3. QED
        BY <1>5, <3>2
    <2>3. BufferBack(io)' = BufferBack(io)
      BY <1>14 DEF BufferBack
    <2>4. Brought(d)' = r
      BY <1>20 DEF Brought
    <2>5. d.stage # "asked" /\ d.place = BufferBack(io)' /\ device'.given = io'.bback + r
          /\ d.place + r <= BufferSize /\ io'.bback + r <= io'.bfront + BufferSize
      BY <1>4, <1>5, <1>10, <1>14, <1>17, <1>19, <2>1, <2>3
    <2>6. \A j \in 0..(r - 1) : io'.buffer[d.place + j] = io'.bback + j + 1
      BY <1>4, <1>14, <1>17, <2>2
    <2>7. QED
      BY <2>4, <2>5, <2>6 DEF ReadOK
  <1>25. Pending'
    <2>1. ReadOK(calls[f])'
      BY <1>18, <1>24 DEF ReadOK, Brought
    <2>2. QED
      BY <1>22, <2>1 DEF Pending
  <1>26. Buffered'
    <2>1. ASSUME NEW i \in io.bfront..(io.bback - 1) PROVE buffer[i % BufferSize] = i + 1
      <3>1. i % BufferSize \in Place
        <4>1. i \in Int
          BY <1>3 DEF Io
        <4>2. i % size \in 0..(size - 1)
          BY <4>1
        <4>3. QED
          BY <1>4, <4>2 DEF Place
      <3>2. buffer[i % BufferSize] = io.buffer[i % BufferSize]
        BY <1>15, <1>21, <3>1
      <3>3. QED
        BY <1>3, <3>2 DEF Buffered
    <2>2. QED
      BY <1>3, <1>14, <2>1 DEF Buffered, Fits
  <1>27. Whole'
    <2>1. Carried(f)' = Carried(f)
      <3>1. c.got \in Seq(Nat)
        BY DEF Call
      <3>2. Carried(f) = c.got
        BY <1>2, <3>1, CarriesGot
      <3>3. Carried(f)' = d.got \o <<>>
        BY <1>17, <1>18 DEF Carried
      <3>4. QED
        BY <1>17, <3>1, <3>2, <3>3
    <2>2. ASSUME NEW g \in Fibers \ {f} PROVE Carried(g)' = Carried(g)
      <3>1. PICK e \in Call : e = calls[g] /\ e = calls'[g]
        BY <1>1, <1>18 DEF TypeOK
      <3>2. CASE e.stage = "copy"
        <4>1. PICK a \in Nat, b \in Nat : a = e.place /\ b = e.room
          BY DEF Call
        <4>2. \A v \in a..(a + b - 1) : v \notin written
          <5>1. Promised(g) = a..(a + b - 1)
            BY <3>1, <3>2, <4>1 DEF Promised
          <5>2. QED
            BY <1>12, <5>1 DEF Live
        <4>3. ASSUME NEW i \in 1..b PROVE BufferByte(a + i - 1)' = BufferByte(a + i - 1)
          <5>1. PICK v \in Nat : v = a + i - 1 /\ v \notin written
            <6>1. a + i - 1 \in Nat /\ a + i - 1 \in a..(a + b - 1)
              OBVIOUS
            <6>2. QED
              BY <4>2, <6>1
          <5>2. v < BufferSize => v \in Place
            BY <1>4 DEF Place
          <5>3. BufferByte(v)' = BufferByte(v)
            BY <1>14, <1>15, <5>1, <5>2 DEF BufferByte
          <5>4. QED
            BY <5>1, <5>3 DEF BufferByte
        <4>4. [i \in 1..b |-> BufferByte(a + i - 1)'] = [i \in 1..b |-> BufferByte(a + i - 1)]
          BY <4>3
        <4>5. Carried(g)' = e.got \o [i \in 1..b |-> BufferByte(a + i - 1)']
          BY <3>1, <3>2, <4>1 DEF Carried
        <4>6. Carried(g) = e.got \o [i \in 1..b |-> BufferByte(a + i - 1)]
          BY <3>1, <3>2, <4>1 DEF Carried
        <4>7. QED
          BY <4>4, <4>5, <4>6
      <3>3. CASE e.stage # "copy"
        BY <3>1, <3>3 DEF Carried
      <3>4. QED
        BY <3>2, <3>3
    <2>3. \A g \in Fibers : Carried(g)' = Carried(g)
      BY <2>1, <2>2
    <2>4. QED
      BY <1>1, <1>14, <2>3, SameWhole DEF ReadInv
  <1>28. \A g \in Fibers : RecvOK(calls[g])'
    <2>1. RecvOK(d)
      BY <1>3, <1>17 DEF RecvOK
    <2>2. QED
      BY <1>1, <1>18, <2>1 DEF ReadInv, RecvOK
  <1>29. \A i \in DOMAIN heard' : AnswerOK(heard'[i])
    BY <1>1 DEF ReadInv
  <1>30. QED
    BY <1>23, <1>25, <1>26, <1>27, <1>28, <1>29 DEF ReadInv, AnswerOK

(* What a copy does: it keeps its piece and goes on, or answers.              *)
LEMMA CopyDoes ==
  ASSUME SizesAreNumbers, IInv, NEW f \in Fibers, Copy(f), odd' = {}, NEW c, c = calls[f],
         NEW piece \in Seq(Nat), piece = [i \in 1..c.room |-> BufferByte(c.place + i - 1)]
  PROVE  \/ /\ c.got = <<>> /\ piece # <<>> /\ Len(c.got) + c.room < c.want
            /\ Set(f, [c EXCEPT !.stage = "more", !.got = piece]) /\ heard' = heard
         \/ /\ ~(piece # <<>> /\ Len(c.got) + c.room < c.want)
            /\ End(f)
            /\ heard' = Append(heard, [want |-> c.want, ended |-> c.ended,
                                       bytes |-> c.got \o piece])
  <1>1. PICK kept : kept = IF c.got = <<>> THEN <<>> ELSE c.got \o piece
    OBVIOUS
  <1>2. \/ /\ piece # <<>> /\ Len(c.got) + c.room < c.want
           /\ Set(f, [c EXCEPT !.stage = "more", !.got = kept \o piece])
           /\ heard' = heard /\ Note(IF c.got # <<>> THEN {"doubled"} ELSE {})
        \/ /\ ~(piece # <<>> /\ Len(c.got) + c.room < c.want)
           /\ End(f)
           /\ heard' = Append(heard, [want |-> c.want, ended |-> c.ended,
                                      bytes |-> IF c.got = <<>> THEN piece ELSE kept])
    BY <1>1 DEF Copy
  <1>3. <<>> \o piece = piece
    OBVIOUS
  <1>4. c.got = <<>> => kept \o piece = piece
    BY <1>1, <1>3
  <1>5. (IF c.got = <<>> THEN piece ELSE kept) = c.got \o piece
    <2>1. CASE c.got = <<>>
      BY <1>3, <2>1
    <2>2. CASE c.got # <<>>
      BY <1>1, <2>2
    <2>3. QED
      BY <2>1, <2>2
  <1>6. CASE /\ piece # <<>> /\ Len(c.got) + c.room < c.want
             /\ Set(f, [c EXCEPT !.stage = "more", !.got = kept \o piece])
             /\ heard' = heard /\ Note(IF c.got # <<>> THEN {"doubled"} ELSE {})
    <2>1. c.got = <<>>
      BY <1>6 DEF Note
    <2>2. kept \o piece = piece
      BY <1>4, <2>1
    <2>3. QED
      BY <1>6, <2>1, <2>2
  <1>7. CASE /\ ~(piece # <<>> /\ Len(c.got) + c.room < c.want)
             /\ End(f)
             /\ heard' = Append(heard, [want |-> c.want, ended |-> c.ended,
                                        bytes |-> IF c.got = <<>> THEN piece ELSE kept])
    BY <1>5, <1>7
  <1>8. QED
    BY <1>2, <1>6, <1>7

(* An answer is as long as it should be.                                      *)
LEMMA AnswerIs ==
  ASSUME NEW w \in Nat, NEW l \in Nat, NEW room \in Nat, NEW size \in Nat, NEW place \in Nat,
         NEW ended, NEW n, n = l + room, place + room <= size,
         l = 0 \/ l < w, w # 0 => l + room <= w, ~ended => room >= 1,
         ~(room # 0 /\ l + room < w)
  PROVE  /\ w # 0 => n <= w
         /\ ~ended => n \in IF w = 0 THEN 1..size ELSE {w}
  <1>1. w # 0 => n <= w
    OBVIOUS
  <1>2. ~ended /\ w = 0 => n \in 1..size
    OBVIOUS
  <1>3. ~ended /\ w # 0 => n = w
    OBVIOUS
  <1>4. QED
    BY <1>1, <1>2, <1>3

(* The rest of recv, without the lock.                                        *)
LEMMA CopyKeepsReads ==
  ASSUME SizesAreNumbers, IInv, NEW f \in Fibers, Copy(f)
  PROVE  ReadInv'
  <1>1. TypeOK /\ ReadInv /\ odd = {} /\ io' = io /\ device' = device
        /\ calls[f].name = "recv" /\ calls[f].stage = "copy"
    BY DEF Copy, In, Runs, IInv
  <1>2. PICK c \in Call : c = calls[f] /\ c.name = "recv" /\ c.stage = "copy"
    BY <1>1 DEF TypeOK
  <1>3. SUFFICES ASSUME odd' = {} PROVE ReadInv'
    BY DEF ReadInv
  <1>4. OneReader /\ Pending /\ Buffered /\ Whole /\ RecvOK(c)
        /\ (\A g \in Fibers : RecvOK(calls[g])) /\ \A i \in DOMAIN heard : AnswerOK(heard[i])
    BY <1>1, <1>2 DEF ReadInv
  <1>5. PICK w \in Nat, l \in Nat, room \in Nat, place \in Nat, size \in Nat :
          /\ w = c.want /\ l = Len(c.got) /\ room = c.room /\ place = c.place
          /\ size = BufferSize
    <2>1. c.want \in Nat /\ c.got \in Seq(Nat) /\ c.room \in Nat /\ c.place \in Nat
      BY DEF Call
    <2>2. Len(c.got) \in Nat
      BY <2>1
    <2>3. BufferSize \in Nat
      BY DEF SizesAreNumbers
    <2>4. \E l \in Nat : l = Len(c.got)
      BY <2>2
    <2>5. QED
      BY <2>1, <2>3, <2>4, Zenon
  <1>6. PICK piece \in Seq(Nat) : piece = [i \in 1..c.room |-> BufferByte(c.place + i - 1)]
    <2>1. io.buffer \in [Place -> Nat]
      BY <1>1 DEF TypeOK, Io
    <2>2. c.place \in Nat /\ c.room \in Nat
      BY DEF Call
    <2>3. QED
      BY <2>1, <2>2, PieceIsSeq
  <1>7. Len(piece) = room /\ (piece # <<>> <=> room # 0)
    <2>1. piece = [i \in 1..room |-> BufferByte(c.place + i - 1)]
      BY <1>5, <1>6
    <2>2. Len(piece) = room
      BY <2>1
    <2>3. QED
      BY <2>2
  <1>8. c.got \in Seq(Nat)
    BY DEF Call
  <1>9. Carried(f) = c.got \o piece
    BY <1>2, <1>6 DEF Carried
  <1>10. ASSUME NEW d, d.name # "recv" \/ d.stage \notin {"asked", "done"}, calls'[f] = d,
                \A g \in Fibers \ {f} : calls'[g] = calls[g]
         PROVE  OneReader' /\ Pending' /\ Buffered'
    <2>1. \A g \in Fibers : Reading(g)' <=> Reading(g)
      BY <1>1, <1>10 DEF Reading
    <2>2. OneReader'
      BY <1>4, <2>1 DEF OneReader
    <2>3. ASSUME NEW g \in Fibers, Reading(g) PROVE ReadOK(calls[g])'
      <3>1. PICK e : e = calls[g] /\ e = calls'[g]
        BY <1>10, <2>1, <2>3 DEF Reading
      <3>2. ReadOK(e)
        BY <1>4, <2>3, <3>1 DEF Pending
      <3>3. ReadOK(e)'
        BY <1>1, <3>2 DEF ReadOK, Brought, BufferBack
      <3>4. QED
        BY <3>1, <3>3 DEF ReadOK, Brought
    <2>4. Pending'
      BY <1>1, <1>4, <2>1, <2>3 DEF Pending
    <2>5. Buffered'
      BY <1>1, <1>4 DEF Buffered, Fits
    <2>6. QED
      BY <2>2, <2>4, <2>5
  <1>11. CASE /\ c.got = <<>> /\ piece # <<>> /\ Len(c.got) + c.room < c.want
              /\ Set(f, [c EXCEPT !.stage = "more", !.got = piece]) /\ heard' = heard
    <2>1. PICK d : d = [c EXCEPT !.stage = "more", !.got = piece]
      OBVIOUS
    <2>2. /\ d \in Call /\ d.name = "recv" /\ d.stage = "more" /\ d.got = piece
          /\ d.want = c.want
      BY <1>2, <2>1 DEF Call, Stages
    <2>3. calls'[f] = d /\ \A g \in Fibers \ {f} : calls'[g] = calls[g]
      BY <1>1, <1>11, <2>1 DEF Set, TypeOK
    <2>4. OneReader' /\ Pending' /\ Buffered'
      BY <1>10, <2>2, <2>3
    <2>5. Carried(f)' = Carried(f)
      <3>1. Carried(f)' = piece \o <<>>
        BY <2>2, <2>3 DEF Carried
      <3>2. piece \o <<>> = piece /\ <<>> \o piece = piece
        OBVIOUS
      <3>3. QED
        BY <1>9, <1>11, <3>1, <3>2
    <2>6. \A g \in Fibers : Carried(g)' = Carried(g)
      BY <1>1, <2>3, <2>5, SameCarried
    <2>7. Whole'
      BY <1>1, <1>4, <1>11, <2>6, SameWhole
    <2>8. RecvOK(d)
      <3>1. Len(<<>>) = 0
        OBVIOUS
      <3>2. room < w
        <4>1. l = 0 /\ l + room < w
          BY <1>5, <1>11, <3>1
        <4>2. QED
          BY <4>1
      <3>3. Len(d.got) < d.want
        BY <1>5, <1>7, <2>2, <3>2
      <3>4. QED
        BY <2>2, <3>3 DEF RecvOK
    <2>9. \A g \in Fibers : RecvOK(calls[g])'
      BY <1>4, <2>3, <2>8 DEF RecvOK
    <2>10. QED
      BY <1>4, <1>11, <2>4, <2>7, <2>9 DEF ReadInv, AnswerOK
  <1>12. CASE /\ ~(piece # <<>> /\ Len(c.got) + c.room < c.want)
              /\ End(f)
              /\ heard' = Append(heard, [want |-> c.want, ended |-> c.ended,
                                         bytes |-> c.got \o piece])
    <2>1. calls'[f] = Idle /\ \A g \in Fibers \ {f} : calls'[g] = calls[g]
      BY <1>1, <1>12, EndIs, OneCall
    <2>2. OneReader' /\ Pending' /\ Buffered'
      BY <1>10, <2>1, IdleIs
    <2>3. PICK bytes \in Seq(Nat) : bytes = c.got \o piece /\ Len(bytes) = l + room
      <3>1. c.got \o piece \in Seq(Nat) /\ Len(c.got \o piece) = Len(c.got) + Len(piece)
        BY <1>8
      <3>2. Len(c.got \o piece) = l + room
        BY <1>5, <1>7, <3>1
      <3>3. QED
        BY <3>1, <3>2
    <2>4. PICK a : a = [want |-> c.want, ended |-> c.ended, bytes |-> bytes]
      OBVIOUS
    <2>5. a \in Answer /\ a.want = w /\ a.ended = c.ended /\ a.bytes = bytes
      BY <1>5, <2>4 DEF Answer, Call
    <2>6. heard \in Seq(Answer) /\ heard' = Append(heard, a)
      BY <1>1, <1>12, <2>3, <2>4 DEF TypeOK
    <2>7. Whole'
      <3>1. Carried(f)' = <<>>
        BY <2>1, IdleIs DEF Carried
      <3>2. \A g \in Fibers \ {f} : Carried(g)' = Carried(g)
        BY <1>1, <2>1, SameCarried
      <3>3. a.bytes = Carried(f) /\ io'.bfront = io.bfront
        BY <1>1, <1>9, <2>3, <2>5
      <3>4. QED
        BY <1>4, <2>5, <2>6, <3>1, <3>2, <3>3, WholeAnswers
    <2>8. AnswerOK(a)
      <3>1. /\ place + room <= size /\ (l = 0 \/ l < w) /\ (w # 0 => l + room <= w)
            /\ (~c.ended => room >= 1)
        <4>1. Len(<<>>) = 0
          OBVIOUS
        <4>2. l = 0 \/ l < w
          BY <1>4, <1>5, <4>1 DEF RecvOK
        <4>3. QED
          BY <1>2, <1>4, <1>5, <4>2 DEF RecvOK
      <3>2. ~(room # 0 /\ l + room < w)
        BY <1>5, <1>7, <1>12
      <3>3. PICK n : n = l + room
        OBVIOUS
      <3>4. /\ w # 0 => n <= w
            /\ ~c.ended => n \in IF w = 0 THEN 1..size ELSE {w}
        BY <3>1, <3>2, <3>3, AnswerIs
      <3>5. Len(a.bytes) = n /\ a.want = w /\ a.ended = c.ended /\ size = BufferSize
        BY <1>5, <2>3, <2>5, <3>3
      <3>6. QED
        BY <3>4, <3>5 DEF AnswerOK
    <2>9. \A i \in DOMAIN heard' : AnswerOK(heard'[i])
      <3>1. \A i \in DOMAIN heard' : heard'[i] = a \/ (i \in DOMAIN heard /\ heard'[i] = heard[i])
        BY <2>5, <2>6
      <3>2. QED
        BY <1>4, <2>8, <3>1
    <2>10. \A g \in Fibers : RecvOK(calls[g])'
      BY <1>4, <2>1, IdleIs DEF RecvOK
    <2>11. QED
      BY <2>2, <2>7, <2>9, <2>10 DEF ReadInv, AnswerOK
  <1>13. QED
    BY <1>2, <1>3, <1>6, <1>11, <1>12, CopyDoes

-----------------------------------------------------------------------------
(* The invariant holds                                                        *)

(* A step of a receive, of which the readers are safe.                        *)
LEMMA RecvKeeps ==
  ASSUME IInv, NEW f \in Fibers, RecvLike(f), ReadInv'
  PROVE  IInv'
  <1>1. TypeOK /\ SettleInv /\ UpInv /\ SendInv
    BY DEF IInv
  <1>2. TypeOK'
    BY <1>1, KeepsTypes
  <1>3. SettleInv' /\ UpInv'
    BY <1>1, RecvKeepsSettled
  <1>4. SendInv'
    <2>1. PICK c : Becomes(f, c) /\ c.name \in {"none", "recv"}
      BY DEF RecvLike
    <2>2. /\ made' \in Nat /\ made <= made' /\ sent' = sent
          /\ device'.taken = device.taken /\ io'.k = io.k
      BY DEF RecvLike
    <2>3. QED
      BY <1>1, <2>1, <2>2, KeepsSends
  <1>5. QED
    BY <1>2, <1>3, <1>4 DEF IInv

(* A step of a send, of which the sends are safe.                             *)
LEMMA SendKeeps ==
  ASSUME IInv, odd = {}, NEW f \in Fibers, SendLike(f), SendInv'
  PROVE  IInv'
  <1>1. TypeOK /\ SettleInv /\ UpInv
    BY DEF IInv
  <1>2. TypeOK'
    BY <1>1, KeepsTypes
  <1>3. SettleInv' /\ UpInv'
    BY <1>1, RecvKeepsSettled
  <1>4. ReadInv'
    BY SendKeepsReads
  <1>5. QED
    BY <1>2, <1>3, <1>4 DEF IInv

(* A step of a connect or a bind, of which these are safe.                    *)
LEMMA SettleKeeps ==
  ASSUME IInv, odd = {}, NEW f \in Fibers, SettleLike(f), SettleInv', UpInv',
         io'.k = "file" <=> io.k = "file"
  PROVE  IInv'
  <1>1. TypeOK /\ SendInv
    BY DEF IInv
  <1>2. TypeOK'
    BY <1>1, KeepsTypes
  <1>3. ReadInv'
    BY SendKeepsReads
  <1>4. SendInv'
    <2>1. PICK c : Becomes(f, c) /\ c.name \in {"none", "connect", "bind"}
      BY DEF SettleLike
    <2>2. /\ made' \in Nat /\ made <= made' /\ sent' = sent /\ device'.taken = device.taken
      BY DEF SettleLike
    <2>3. QED
      BY <1>1, <2>1, <2>2, KeepsSends
  <1>5. QED
    BY <1>2, <1>3, <1>4 DEF IInv

(* No action follows once a stream is broken.                                 *)
LEMMA EachRuns ==
  ASSUME NEW f \in Fibers
  PROVE  /\ Send(f) => odd = {}
         /\ DeviceWrites(f) => odd = {}
         /\ ResumeSend(f) => odd = {}
         /\ Settle(f) => odd = {}
         /\ Swap(f) => odd = {}
         /\ AskSettle(f) => odd = {}
         /\ DeviceSettles(f) => odd = {}
         /\ ResumeSettle(f) => odd = {}
  BY DEF Send, DeviceWrites, ResumeSend, Settle, Swap, AskSettle, DeviceSettles, ResumeSettle,
         NewCall, In, Runs

(* The invariant holds at first.                                              *)
LEMMA InitHolds == SizesAreNumbers /\ Init => IInv
  <1>1. SUFFICES ASSUME SizesAreNumbers, Init PROVE IInv
    OBVIOUS
  <1>2. PICK k \in Streaming \cup {"unspecified"} :
          /\ io = [k |-> k, locked |-> FALSE, bfront |-> 0, bback |-> 0,
                   buffer |-> [i \in 0..(BufferSize - 1) |-> 0]]
          /\ device = [given |-> 0, taken |-> <<>>, up |-> k # "unspecified"]
    BY <1>1 DEF Init
  <1>3. /\ calls = [f \in Fibers |-> Idle] /\ made = 0 /\ heard = <<>> /\ sent = {}
        /\ settled = 0 /\ odd = {}
    BY <1>1 DEF Init
  <1>4. /\ io.k = k /\ io.bfront = 0 /\ io.bback = 0
        /\ device.given = 0 /\ device.taken = <<>> /\ device.up = (k # "unspecified")
    BY <1>2
  <1>5. TypeOK
    <2>1. [i \in 0..(BufferSize - 1) |-> 0] \in [Place -> Nat]
      BY DEF Place
    <2>2. io \in Io
      BY <1>2, <2>1 DEF Io, Kinds, Streaming
    <2>3. device \in Device
      BY <1>2 DEF Device
    <2>4. calls \in [Fibers -> Call] /\ \A f \in Fibers : Staged(calls[f])
      BY <1>3, IdleIs
    <2>5. heard \in Seq(Answer)
      BY <1>3
    <2>6. QED
      BY <1>3, <2>2, <2>3, <2>4, <2>5 DEF TypeOK
  <1>6. \A f \in Fibers : calls[f].name = "none" /\ calls[f].stage = "idle" /\ calls[f].got = <<>>
    BY <1>3, IdleIs
  <1>7. SettleInv
    BY <1>3, <1>6 DEF SettleInv, Settling
  <1>8. UpInv
    BY <1>2, <1>4, <1>6 DEF UpInv, Settling
  <1>9. SendInv
    <2>1. DOMAIN device.taken = {}
      BY <1>4
    <2>2. QED
      BY <1>3, <1>6, <2>1 DEF SendInv, Sending, SendsAreTaken
  <1>10. DOMAIN heard = {}
    BY <1>3
  <1>11. \A f \in Fibers : Carried(f) = <<>>
    BY <1>6, CarriesNothing
  <1>12. ToSet(<<>>) = {} /\ Increasing(<<>>) /\ Apart(<<>>, <<>>)
    BY DEF ToSet, Increasing, Apart
  <1>13. Whole
    <2>1. Answered = {} /\ OnItsWay = {}
      BY <1>10, <1>11, <1>12 DEF Answered, OnItsWay
    <2>2. 1..io.bfront = {}
      BY <1>4
    <2>3. QED
      BY <1>10, <1>11, <1>12, <2>1, <2>2 DEF Whole
  <1>14. Pending /\ OneReader
    BY <1>4, <1>6 DEF Pending, OneReader, Reading
  <1>15. Buffered
    <2>1. Fits(io)
      BY <1>1, <1>4 DEF Fits, SizesAreNumbers
    <2>2. io.bfront..(io.bback - 1) = {}
      BY <1>4
    <2>3. QED
      BY <2>1, <2>2 DEF Buffered
  <1>16. \A f \in Fibers : RecvOK(calls[f])
    BY <1>6 DEF RecvOK
  <1>17. ReadInv
    BY <1>10, <1>13, <1>14, <1>15, <1>16 DEF ReadInv
  <1>18. QED
    BY <1>5, <1>7, <1>8, <1>9, <1>17 DEF IInv

(* Every step keeps the invariant.                                            *)
LEMMA NextKeeps == SizesAreNumbers /\ IInv /\ [Next]_streamVars => IInv'
  <1>1. SUFFICES ASSUME SizesAreNumbers, IInv, [Next]_streamVars PROVE IInv'
    OBVIOUS
  <1>2. CASE UNCHANGED streamVars
    <2>1. /\ io' = io /\ calls' = calls /\ device' = device /\ made' = made
          /\ heard' = heard /\ sent' = sent /\ settled' = settled /\ odd' = odd
      BY <1>2 DEF streamVars
    <2>2. ReadInv'
      BY <1>1, <2>1, StandsStill DEF IInv
    <2>3. TypeOK'
      BY <1>1, <2>1 DEF IInv, TypeOK
    <2>4. SettleInv' /\ UpInv'
      BY <1>1, <2>1 DEF IInv, SettleInv, UpInv, Settling
    <2>5. SendInv'
      BY <1>1, <2>1 DEF IInv, SendInv, SendOK, Sending, Written, Brought, TakenOf,
                        SendsAreTaken
    <2>6. QED
      BY <2>2, <2>3, <2>4, <2>5 DEF IInv
  <1>3. ASSUME NEW f \in Fibers, Recv(f) PROVE IInv'
    BY <1>1, <1>3, RecvIs, RecvKeepsReads, RecvKeeps
  <1>4. ASSUME NEW f \in Fibers, ReadMore(f) PROVE IInv'
    BY <1>1, <1>4, ReadMoreIs, ReadMoreKeepsReads, RecvKeeps
  <1>5. ASSUME NEW f \in Fibers, ResumeRecv(f) PROVE IInv'
    BY <1>1, <1>5, ResumeRecvIs, ResumeRecvKeepsReads, RecvKeeps
  <1>6. ASSUME NEW f \in Fibers, Copy(f) PROVE IInv'
    BY <1>1, <1>6, CopyIs, CopyKeepsReads, RecvKeeps
  <1>7. ASSUME NEW f \in Fibers, DeviceReads(f) PROVE IInv'
    BY <1>1, <1>7, DeviceReadsIs, DeviceReadsKeepsReads, RecvKeeps
  <1>8. ASSUME NEW f \in Fibers, Send(f) PROVE IInv'
    BY <1>1, <1>8, EachRuns, SendIs, SendKeepsSends, SendKeeps
  <1>9. ASSUME NEW f \in Fibers, ResumeSend(f) PROVE IInv'
    BY <1>1, <1>9, EachRuns, ResumeSendIs, ResumeSendKeepsSends, SendKeeps
  <1>10. ASSUME NEW f \in Fibers, DeviceWrites(f) PROVE IInv'
    BY <1>1, <1>10, EachRuns, DeviceWritesIs, DeviceWritesKeepsSends, SendKeeps
  <1>11. ASSUME NEW f \in Fibers, Settle(f) PROVE IInv'
    BY <1>1, <1>11, EachRuns, SettleIs, SettleKeepsSettled, SettleKeeps
  <1>12. ASSUME NEW f \in Fibers, Swap(f) PROVE IInv'
    BY <1>1, <1>12, EachRuns, SwapIs, SwapKeepsSettled, SettleKeeps
  <1>13. ASSUME NEW f \in Fibers, AskSettle(f) PROVE IInv'
    BY <1>1, <1>13, EachRuns, AskSettleIs, AskSettleKeepsSettled, SettleKeeps
  <1>14. ASSUME NEW f \in Fibers, DeviceSettles(f) PROVE IInv'
    BY <1>1, <1>14, EachRuns, DeviceSettlesIs, DeviceSettlesKeepsSettled, SettleKeeps
  <1>15. ASSUME NEW f \in Fibers, ResumeSettle(f) PROVE IInv'
    BY <1>1, <1>15, EachRuns, ResumeSettleIs, ResumeSettleKeepsSettled, SettleKeeps
  <1>16. CASE Next
    BY <1>3, <1>4, <1>5, <1>6, <1>7, <1>8, <1>9, <1>10, <1>11, <1>12, <1>13, <1>14, <1>15, <1>16
       DEF Next
  <1>17. QED
    BY <1>1, <1>2, <1>16

(* The inductive invariant of a stream and its fibers (cio.c).                *)
THEOREM Inductive == SizesAreNumbers => (Spec => []IInv)
  <1>1. SUFFICES ASSUME SizesAreNumbers PROVE Spec => []IInv
    OBVIOUS
  <1>2. Init => IInv
    BY <1>1, InitHolds
  <1>3. IInv /\ [Next]_streamVars => IInv'
    BY <1>1, NextKeeps
  <1>4. QED
    BY <1>2, <1>3, PTL DEF Spec

-----------------------------------------------------------------------------
(* What follows                                                               *)

(* At most one fiber is past its swap, and none once the socket is settled.   *)
LEMMA SettledOnceHolds ==
  ASSUME SettleInv
  PROVE  SettledOnce
  <1>1. /\ \A f, g \in Fibers : Settling(f) /\ Settling(g) => f = g
        /\ settled \in {0, 1}
        /\ settled = 1 => io.k \in {"client", "server"} /\ \A f \in Fibers : ~Settling(f)
        /\ \A f \in Fibers : Settling(f) => io.k = Kind(calls[f].name)
    BY DEF SettleInv
  <1>2. Cardinality({f \in Fibers : Settling(f)}) + settled <= 1
    <2>1. CASE \A f \in Fibers : ~Settling(f)
      <3>1. {f \in Fibers : Settling(f)} = {}
        BY <2>1
      <3>2. Cardinality({f \in Fibers : Settling(f)}) = 0
        BY <3>1, FS_EmptySet
      <3>3. QED
        BY <1>1, <3>2
    <2>2. ASSUME NEW f \in Fibers, Settling(f)
          PROVE  Cardinality({g \in Fibers : Settling(g)}) + settled <= 1
      <3>1. {g \in Fibers : Settling(g)} = {f}
        BY <1>1, <2>2
      <3>2. Cardinality({g \in Fibers : Settling(g)}) = 1
        BY <3>1, FS_Singleton
      <3>3. settled = 0
        BY <1>1, <2>2
      <3>4. QED
        BY <3>2, <3>3
    <2>3. QED
      BY <2>1, <2>2
  <1>3. \A f \in Fibers : Settling(f) => io.k \in {"client", "server"}
    BY <1>1 DEF Kind
  <1>4. QED
    BY <1>1, <1>2, <1>3 DEF SettledOnce

(* The pieces are the answers, and what each fiber carries.                   *)
LEMMA PiecesAre ==
  /\ \A i \in DOMAIN heard : <<"heard", i>> \in Pieces /\ Piece(<<"heard", i>>) = heard[i].bytes
  /\ \A f \in Fibers : <<"carried", f>> \in Pieces /\ Piece(<<"carried", f>>) = Carried(f)
  /\ \A p \in Pieces : \/ \E i \in DOMAIN heard : p = <<"heard", i>>
                       \/ \E f \in Fibers : p = <<"carried", f>>
  BY DEF Pieces, Piece

(* What is said of answers and carried bytes is said of the pieces.           *)
LEMMA BytesAreWholeHolds ==
  ASSUME ReadInv
  PROVE  BytesAreWhole
  <1>1. SUFFICES ASSUME odd = {}
                 PROVE  /\ UNION {ToSet(Piece(p)) : p \in Pieces} = 1..io.bfront
                        /\ \A p \in Pieces : Increasing(Piece(p))
                        /\ \A p, q \in Pieces : p # q => ToSet(Piece(p)) \cap ToSet(Piece(q)) = {}
                        /\ \A i \in io.bfront..(io.bback - 1) : io.buffer[i % BufferSize] = i + 1
                        /\ \A i \in DOMAIN heard : AnswerOK(heard[i])
    BY DEF BytesAreWhole, AnswerOK
  <1>2. Whole /\ Buffered /\ \A i \in DOMAIN heard : AnswerOK(heard[i])
    BY <1>1 DEF ReadInv
  <1>3. \A p \in Pieces : \/ \E i \in DOMAIN heard : p = <<"heard", i>> /\ Piece(p) = heard[i].bytes
                          \/ \E f \in Fibers : p = <<"carried", f>> /\ Piece(p) = Carried(f)
    BY PiecesAre
  <1>4. UNION {ToSet(Piece(p)) : p \in Pieces} = Answered \cup OnItsWay
    <2>1. ASSUME NEW v, NEW p \in Pieces, v \in ToSet(Piece(p)) PROVE v \in Answered \cup OnItsWay
      BY <1>3, <2>1 DEF Answered, OnItsWay
    <2>2. ASSUME NEW v \in Answered PROVE \E p \in Pieces : v \in ToSet(Piece(p))
      <3>1. PICK i \in DOMAIN heard : v \in ToSet(heard[i].bytes)
        BY <2>2 DEF Answered
      <3>2. PICK p \in Pieces : Piece(p) = heard[i].bytes
        BY PiecesAre
      <3>3. QED
        BY <3>1, <3>2
    <2>3. ASSUME NEW v \in OnItsWay PROVE \E p \in Pieces : v \in ToSet(Piece(p))
      <3>1. PICK f \in Fibers : v \in ToSet(Carried(f))
        BY <2>3 DEF OnItsWay
      <3>2. PICK p \in Pieces : Piece(p) = Carried(f)
        BY PiecesAre
      <3>3. QED
        BY <3>1, <3>2
    <2>4. QED
      BY <2>1, <2>2, <2>3
  <1>5. \A p \in Pieces : Increasing(Piece(p))
    BY <1>2, <1>3 DEF Whole
  <1>6. \A p, q \in Pieces : p # q => Apart(Piece(p), Piece(q))
    <2>1. SUFFICES ASSUME NEW p \in Pieces, NEW q \in Pieces, p # q
                   PROVE  Apart(Piece(p), Piece(q))
      OBVIOUS
    <2>2. ASSUME NEW i \in DOMAIN heard, p = <<"heard", i>>, Piece(p) = heard[i].bytes
          PROVE  Apart(Piece(p), Piece(q))
      <3>1. ASSUME NEW j \in DOMAIN heard, q = <<"heard", j>>, Piece(q) = heard[j].bytes
            PROVE  Apart(Piece(p), Piece(q))
        <4>1. i # j
          BY <2>1, <2>2, <3>1
        <4>2. QED
          BY <1>2, <2>2, <3>1, <4>1 DEF Whole
      <3>2. ASSUME NEW g \in Fibers, Piece(q) = Carried(g) PROVE Apart(Piece(p), Piece(q))
        BY <1>2, <2>2, <3>2 DEF Whole
      <3>3. QED
        BY <1>3, <3>1, <3>2
    <2>3. ASSUME NEW f \in Fibers, p = <<"carried", f>>, Piece(p) = Carried(f)
          PROVE  Apart(Piece(p), Piece(q))
      <3>1. ASSUME NEW j \in DOMAIN heard, Piece(q) = heard[j].bytes
            PROVE  Apart(Piece(p), Piece(q))
        <4>1. Apart(heard[j].bytes, Carried(f))
          BY <1>2 DEF Whole
        <4>2. QED
          BY <2>3, <3>1, <4>1 DEF Apart
      <3>2. ASSUME NEW g \in Fibers, q = <<"carried", g>>, Piece(q) = Carried(g)
            PROVE  Apart(Piece(p), Piece(q))
        <4>1. f # g
          BY <2>1, <2>3, <3>2
        <4>2. QED
          BY <1>2, <2>3, <3>2, <4>1 DEF Whole
      <3>3. QED
        BY <1>3, <3>1, <3>2
    <2>4. QED
      BY <1>3, <2>2, <2>3
  <1>7. QED
    BY <1>2, <1>4, <1>5, <1>6 DEF Whole, Apart, Buffered

(* All that the runs check.                                                   *)
LEMMA InvGives == IInv => SettledOnce /\ SendsAreTaken /\ BytesAreWhole
  BY SettledOnceHolds, BytesAreWholeHolds DEF IInv, SendInv

-----------------------------------------------------------------------------
(* Theorems                                                                   *)

(* A socket is connected or bound by one fiber at a time, once for good.      *)
THEOREM SocketSettledOnce == SizesAreNumbers => (Spec => []SettledOnce)
  BY InvGives, Inductive, PTL

(* A send to a file that is answered with ok was taken whole and in order; of *)
(* one to a socket, its first bytes were.                                     *)
THEOREM SendsTakenWhole == SizesAreNumbers => (Spec => []SendsAreTaken)
  BY InvGives, Inductive, PTL

(* Until something happens that breaks a stream, every byte of it arrives,    *)
(* once and in order, and answers are as long as they should be.              *)
THEOREM BytesArriveWhole == SizesAreNumbers => (Spec => []BytesAreWhole)
  BY InvGives, Inductive, PTL
=============================================================================
