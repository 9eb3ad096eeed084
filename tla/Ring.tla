--------------------------------- MODULE Ring ---------------------------------
(***************************************************************************)
(* The queues of queue.h: a ring of cap entries with two positions that    *)
(* only count up, modulo the machine word, and are masked when they are    *)
(* used.  A ring of fixed size (a job's working queue) refuses what does   *)
(* not fit; the other one (its waiting queue) moves to a larger array.     *)
(***************************************************************************)
EXTENDS Integers, Sequences

CONSTANTS
  Word,      \* 2 ^ 32: head and tail are of type uint32_t
  FirstCap,  \* cGAB_WORKER_LOCALQUEUE_MAX, and the first size of the other
  LastCap,   \* bound: the size where a growing ring is no longer filled
  Values     \* what is queued

VARIABLES
  ring,     \* the struct: head, tail, cap, data
  grows,    \* SIZE is not defined
  queued    \* history: what was pushed and not yet popped

ringVars == <<ring, grows, queued>>

Unset == 0

RingLen(q)     == (q.tail - q.head) % Word
RingIsFull(q)  == RingLen(q) = q.cap
RingIsEmpty(q) == q.head = q.tail
At(q, i)       == q.data[((q.head + i) % Word) % q.cap]

Init ==
  /\ ring = [head |-> 0, tail |-> 0, cap |-> FirstCap,
             data |-> [i \in 0..(FirstCap - 1) |-> Unset]]
  /\ grows \in BOOLEAN
  /\ queued = <<>>

(* Faulty variant: the array is copied as it is.                           *)
EnlargedAsIs(q) ==
  [head |-> 0, tail |-> RingLen(q), cap |-> 2 * q.cap,
   data |-> [i \in 0..(2 * q.cap - 1) |-> IF i < RingLen(q) THEN q.data[i] ELSE Unset]]

(* METHOD(cap): the entries in their order, from the start.                *)
Enlarged(q) ==
  [head |-> 0, tail |-> RingLen(q), cap |-> 2 * q.cap,
   data |-> [i \in 0..(2 * q.cap - 1) |-> IF i < RingLen(q) THEN At(q, i) ELSE Unset]]

Added(q, v) ==
  [head |-> q.head, tail |-> (q.tail + 1) % Word, cap |-> q.cap,
   data |-> [q.data EXCEPT ![q.tail % q.cap] = v]]

(* METHOD(push)                                                            *)
Push(v) ==
  /\ \/ /\ ~RingIsFull(ring)
        /\ ring' = Added(ring, v)
     \/ /\ RingIsFull(ring)
        /\ grows
        /\ ring.cap < LastCap
        /\ ring' = Added(Enlarged(ring), v)
  /\ queued' = Append(queued, v)
  /\ UNCHANGED grows

(* METHOD(pop)                                                             *)
Pop ==
  /\ ~RingIsEmpty(ring)
  /\ ring' = [ring EXCEPT !.head = (@ + 1) % Word]
  /\ queued' = Tail(queued)
  /\ UNCHANGED grows

Next == Pop \/ \E v \in Values : Push(v)

(* However often the positions went around the ring and around the word,   *)
(* and wherever they were when it grew: the entries from head on are what  *)
(* was pushed and not popped, in that order, so that is_empty, is_full,    *)
(* peek and pop answer what a sequence would.                              *)
RingIsSequence ==
  /\ RingLen(ring) = Len(queued)
  /\ RingIsEmpty(ring) = (queued = <<>>)
  /\ \A i \in 1..Len(queued) : At(ring, i - 1) = queued[i]
===============================================================================
