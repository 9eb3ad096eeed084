--------------------------------- MODULE Heap ---------------------------------
(***************************************************************************)
(* The garbage collector: deferred reference counting in three epochs.     *)
(* Jobs never touch a count.  Each buffers, per epoch, the increments and  *)
(* decrements it asks for (gab_iref, gab_dref); when a collection reaches  *)
(* it (module Signal), it adds a snapshot of its fibers' stacks and moves  *)
(* to the next epoch.  When all have done so the collector applies the     *)
(* increments of the epoch and the decrements of the epoch before, while   *)
(* the jobs already fill the next one.                                     *)
(*                                                                         *)
(* An object is born with one reference and a decrement for it in the      *)
(* buffer, so that it dies unless something counts it within an epoch.     *)
(* Its children are counted when it first is (the NEW flag).               *)
(*                                                                         *)
(* Objects are numbered as they are created; the objects one refers to are *)
(* chosen at creation and are older, so the heap has no cycles.  A job is  *)
(* a worker; the values on the stacks of all its fibers are one set.       *)
(***************************************************************************)
EXTENDS Integers, FiniteSets

CONSTANTS
  Jobs,       \* number of workers
  Objects,    \* bound: objects ever created
  MaxKept,    \* bound: counted references to one object
  MaxQueued,  \* bound: increments of one object in one buffer
  MaxRounds,  \* bound: collections before gab_destroy
  Locker,     \* jobs that use gab_gclock
  Definer,    \* jobs that define messages
  Reader,     \* jobs that read the messages record
  Late,       \* what may happen while some jobs have reported and others not
  None

Job == 1..Jobs
Gc  == 0
Obj == 1..Objects
Epoch == 0..2

ASSUME ConstantsAssumption ==
  /\ Jobs \in Nat \ {0}
  /\ {Objects, MaxKept, MaxQueued, MaxRounds} \subseteq Nat
  /\ Locker \cup Definer \cup Reader \subseteq Job
  /\ Late \subseteq {"hand", "define"}
  /\ None \notin Obj

VARIABLES
  status,    \* of each object
  refs,      \* obj->references
  fresh,     \* objects with the flag NEW
  buffered,  \* objects with the flag BUFFERED
  kids,      \* what __gab_gcobjeachdo visits
  stack,     \* the objects on the stacks of a job's fibers
  locked,    \* jobs[j].locked
  lockbuf,   \* jobs[j].lockbuf
  kept,      \* counted references outside the stacks (gab_iref, gab_egkeep)
  messages,  \* eg->messages
  reading,   \* a messages record that a job has loaded and still reads
  snapshot,  \* gc.msg
  inc, dec, stk,  \* buffers[kGAB_BUF_*][epoch] of each job
  epoch,     \* jobs[j].epoch % 3
  turn,      \* the job that the collection has reached, or none (0)
  rounds,    \* collections so far
  down       \* collections since gab_destroy dropped everything, or -1

objects == <<status, refs, fresh, buffered, kids>>
roots   == <<stack, locked, lockbuf, kept, messages, reading>>
buffers == <<inc, dec, stk>>
vars    == <<objects, roots, snapshot, buffers, epoch, turn, rounds, down>>

Empty == [e \in Epoch |-> [o \in Obj |-> 0]]

(* eg->messages starts as an empty record, which gab_create has made.      *)
Init ==
  /\ status = [o \in Obj |-> "unborn"]
  /\ refs = [o \in Obj |-> 0]
  /\ fresh = {}
  /\ buffered = {}
  /\ kids = [o \in Obj |-> {}]
  /\ stack = [j \in Job |-> {}]
  /\ locked = [j \in Job |-> 0]
  /\ lockbuf = [j \in Job |-> {}]
  /\ kept = [o \in Obj |-> 0]
  /\ messages = None
  /\ reading = [j \in Job |-> None]
  /\ snapshot = [e \in Epoch |-> None]
  /\ inc = [j \in Job |-> Empty]
  /\ dec = [j \in Job |-> Empty]
  /\ stk = [j \in Job |-> Empty]
  /\ epoch = [j \in Job \cup {Gc} |-> 1]
  /\ turn = 0
  /\ rounds = 0
  /\ down = -1

Up == down = -1

-----------------------------------------------------------------------------
(* What the jobs do.                                                       *)

(* __gab_gcqinc and __gab_gcqdec, into the buffer of the job's epoch.      *)
Queue(buf, j, o) == [buf EXCEPT ![j][epoch[j]][o] = @ + 1]

Youngest == Cardinality({o \in Obj : status[o] # "unborn"})

(* __gab_objcreate: while locked the object goes to the lock buffer, else  *)
(* its birth reference is given back at once and it lands on the stack.    *)
New(j) ==
  /\ Up
  /\ Youngest < Objects
  /\ LET o == Youngest + 1
     IN /\ status' = [status EXCEPT ![o] = "live"]
        /\ refs' = [refs EXCEPT ![o] = 1]
        /\ fresh' = fresh \cup {o}
        /\ \E K \in SUBSET (stack[j] \cup lockbuf[j]) :
             kids' = [kids EXCEPT ![o] = K]
        /\ IF locked[j] > 0
           THEN /\ lockbuf' = [lockbuf EXCEPT ![j] = @ \cup {o}]
                /\ buffered' = buffered \cup {o}
                /\ UNCHANGED <<stack, dec>>
           ELSE /\ dec' = Queue(dec, j, o)
                /\ stack' = [stack EXCEPT ![j] = @ \cup {o}]
                /\ UNCHANGED <<lockbuf, buffered>>
  /\ UNCHANGED <<locked, kept, messages, reading, snapshot, inc, stk, epoch,
                 turn, rounds, down>>

(* The VM pushes a value that another one refers to, and drops values.     *)
Push(j) ==
  /\ Up
  /\ \E p \in stack[j] : \E o \in kids[p] \ stack[j] :
        stack' = [stack EXCEPT ![j] = @ \cup {o}]
  /\ UNCHANGED <<objects, locked, lockbuf, kept, messages, reading, snapshot,
                 buffers, epoch, turn, rounds, down>>

Pop(j) ==
  /\ \E o \in stack[j] : stack' = [stack EXCEPT ![j] = @ \ {o}]
  /\ UNCHANGED <<objects, locked, lockbuf, kept, messages, reading, snapshot,
                 buffers, epoch, turn, rounds, down>>

(* gab_iref of a value that the job holds, and later gab_dref by anybody.  *)
Keep(j) ==
  /\ Up
  /\ \E o \in stack[j] \cup lockbuf[j] :
       /\ kept[o] < MaxKept /\ inc[j][epoch[j]][o] < MaxQueued
       /\ inc' = Queue(inc, j, o)
       /\ kept' = [kept EXCEPT ![o] = @ + 1]
  /\ UNCHANGED <<objects, stack, locked, lockbuf, messages, reading, snapshot,
                 dec, stk, epoch, turn, rounds, down>>

Drop(j) ==
  /\ \E o \in Obj :
       /\ kept[o] > 0
       /\ dec' = Queue(dec, j, o)
       /\ kept' = [kept EXCEPT ![o] = @ - 1]
  /\ UNCHANGED <<objects, stack, locked, lockbuf, messages, reading, snapshot,
                 inc, stk, epoch, turn, rounds, down>>

(* gab_gclock nests.                                                       *)
Lock(j) ==
  /\ Up
  /\ j \in Locker
  /\ locked[j] < 2
  /\ locked' = [locked EXCEPT ![j] = @ + 1]
  /\ UNCHANGED <<objects, stack, lockbuf, kept, messages, reading, snapshot,
                 buffers, epoch, turn, rounds, down>>

(* Faulty variants of gab_gcunlock: every call flushes; the flag stays.    *)
UnlockEvery(j) ==
  /\ locked[j] > 0
  /\ locked' = [locked EXCEPT ![j] = @ - 1]
  /\ buffered' = buffered \ lockbuf[j]
  /\ dec' = [dec EXCEPT ![j][epoch[j]] =
                [o \in Obj |-> @[o] + IF o \in lockbuf[j] THEN 1 ELSE 0]]
  /\ \E S \in SUBSET lockbuf[j] : stack' = [stack EXCEPT ![j] = @ \cup S]
  /\ UNCHANGED lockbuf
  /\ UNCHANGED <<status, refs, fresh, kids, kept, messages, reading, snapshot,
                 inc, stk, epoch, turn, rounds, down>>

UnlockFlagged(j) ==
  /\ locked[j] > 0
  /\ locked' = [locked EXCEPT ![j] = @ - 1]
  /\ \/ locked[j] > 1 /\ UNCHANGED <<dec, lockbuf, stack>>
     \/ /\ locked[j] = 1
        /\ dec' = [dec EXCEPT ![j][epoch[j]] =
                      [o \in Obj |-> @[o] + IF o \in lockbuf[j] THEN 1 ELSE 0]]
        /\ \E S \in SUBSET lockbuf[j] : stack' = [stack EXCEPT ![j] = @ \cup S]
        /\ lockbuf' = [lockbuf EXCEPT ![j] = {}]
  /\ UNCHANGED <<status, refs, fresh, buffered, kids, kept, messages, reading,
                 snapshot, inc, stk, epoch, turn, rounds, down>>

(* gab_gcunlock: the outermost one gives back the birth references of all  *)
(* objects of the lock buffer; the job has put some on its stack.          *)
Unlock(j) ==
  /\ locked[j] > 0
  /\ locked' = [locked EXCEPT ![j] = @ - 1]
  /\ \/ locked[j] > 1 /\ UNCHANGED <<buffered, dec, lockbuf, stack>>
     \/ /\ locked[j] = 1
        /\ buffered' = buffered \ lockbuf[j]
        /\ dec' = [dec EXCEPT ![j][epoch[j]] =
                      [o \in Obj |-> @[o] + IF o \in lockbuf[j] THEN 1 ELSE 0]]
        /\ \E S \in SUBSET lockbuf[j] : stack' = [stack EXCEPT ![j] = @ \cup S]
        /\ lockbuf' = [lockbuf EXCEPT ![j] = {}]
  /\ UNCHANGED <<status, refs, fresh, kids, kept, messages, reading, snapshot,
                 inc, stk, epoch, turn, rounds, down>>

(* gab_ndef swaps in a new messages record; no count is touched.  It is    *)
(* late if a job has reported that may look into the old one.              *)
Define(j) ==
  /\ Up
  /\ turn > 1 => "define" \in Late
  /\ j \in Definer
  /\ \E o \in stack[j] \ {messages} : messages' = o
  /\ UNCHANGED <<objects, stack, locked, lockbuf, kept, reading, snapshot,
                 buffers, epoch, turn, rounds, down>>

(* A send loads the record, looks into it and pushes what it finds.        *)
ReadLoad(j) ==
  /\ Up
  /\ j \in Reader
  /\ messages # None
  /\ reading[j] = None
  /\ reading' = [reading EXCEPT ![j] = messages]
  /\ UNCHANGED <<objects, stack, locked, lockbuf, kept, messages, snapshot,
                 buffers, epoch, turn, rounds, down>>

ReadUse(j) ==
  /\ reading[j] # None
  /\ \E S \in {{}} \cup {{o} : o \in kids[reading[j]]} :
       stack' = [stack EXCEPT ![j] = @ \cup S]
  /\ reading' = [reading EXCEPT ![j] = None]
  /\ UNCHANGED <<objects, locked, lockbuf, kept, messages, snapshot, buffers,
                 epoch, turn, rounds, down>>

(* A take copies a value from the stack of the putter (module Channel).    *)
(* It is late if the collection has reached the taker but not the putter.  *)
Hand(i, j) ==
  /\ Up
  /\ i # j
  /\ reading[i] = None
  /\ turn <= i /\ j < turn => "hand" \in Late
  /\ \E o \in stack[i] : stack' = [stack EXCEPT ![j] = @ \cup {o}]
  /\ UNCHANGED <<objects, locked, lockbuf, kept, messages, reading, snapshot,
                 buffers, epoch, turn, rounds, down>>

-----------------------------------------------------------------------------
(* A collection.                                                           *)

Start ==
  /\ turn = 0
  /\ IF Up THEN rounds < MaxRounds ELSE down < 4
  /\ turn' = 1
  /\ UNCHANGED <<objects, roots, snapshot, buffers, epoch, rounds, down>>

Next3(e) == (e + 1) % 3
Prev3(e) == (e + 2) % 3

Bit(b) == IF b THEN 1 ELSE 0

(* Faulty variant: the lock buffer is no root.                             *)
ReportStacks(j) ==
  /\ turn = j
  /\ reading[j] = None
  /\ stk' = [stk EXCEPT ![j][epoch[j]] = [o \in Obj |-> @[o] + Bit(o \in stack[j])]]
  /\ epoch' = [epoch EXCEPT ![j] = Next3(@)]
  /\ turn' = turn + 1
  /\ UNCHANGED <<objects, roots, snapshot, inc, dec, rounds, down>>

(* __gab_gcdoepoch: the stacks and the lock buffer, then the next epoch.   *)
(* A job looks for signals between operations only.                        *)
Report(j) ==
  /\ turn = j
  /\ reading[j] = None
  /\ stk' = [stk EXCEPT ![j][epoch[j]] =
                [o \in Obj |-> @[o] + Bit(o \in stack[j]) + Bit(o \in lockbuf[j])]]
  /\ epoch' = [epoch EXCEPT ![j] = Next3(@)]
  /\ turn' = turn + 1
  /\ UNCHANGED <<objects, roots, snapshot, inc, dec, rounds, down>>

(* How often o stands in the buffers b of all jobs.                        *)
Sum(b, e, o) ==
  LET s[j \in 0..Jobs] == IF j = 0 THEN 0 ELSE s[j - 1] + b[j][e][o] IN s[Jobs]

(* Faulty variant: the children of a new object are not counted.           *)
CountedAlone(more) == [o \in Obj |-> more[o] > 0]

(* The objects that __gab_gcobjincref reaches, given the increments in the *)
(* buffers: those, and through new objects their children.                 *)
Counted(more) ==
  LET c[o \in Obj] ==
        \/ more[o] > 0
        \/ \E p \in (o + 1)..Objects : p \in fresh /\ o \in kids[p] /\ c[p]
  IN c

(* Faulty variant: a dying object keeps its references to its children.    *)
FallsAlone(count, less, new) == [o \in Obj |-> less[o] > 0 /\ count[o] = less[o]]

(* The objects whose count __gab_gcobjdecref takes to zero, given counts,  *)
(* decrements in the buffers and the objects still new.                    *)
Falls(count, less, new) ==
  LET f[o \in Obj] ==
        LET n == less[o] + Cardinality({p \in (o + 1)..Objects :
                                          p \notin new /\ o \in kids[p] /\ f[p]})
        IN n > 0 /\ count[o] = n
  IN f

(* Faulty variant: the decrements of this epoch are applied at once.       *)
DecrementsNow(e) == [o \in Obj |-> Sum(dec, e, o) + Sum(stk, Prev3(e), o)
                                   + Bit(snapshot[Prev3(e)] = o)]

(* Faulty variant: the current messages fall instead of those of the epoch *)
(* before.                                                                 *)
DecrementsCurrent(e) == [o \in Obj |-> Sum(dec, Prev3(e), o) + Sum(stk, Prev3(e), o)
                                       + Bit(messages = o)]

Decrements(e) == [o \in Obj |-> Sum(dec, Prev3(e), o) + Sum(stk, Prev3(e), o)
                                + Bit(snapshot[Prev3(e)] = o)]

Increments(e) == [o \in Obj |-> Sum(inc, e, o) + Sum(stk, e, o) + Bit(messages = o)]

Cleared(buf, e) == [j \in Job |-> [buf[j] EXCEPT ![e] = [o \in Obj |-> 0]]]

(* gab_gcdocollect: snapshot the messages, increment, decrement, destroy   *)
(* what fell to zero.                                                      *)
Collect ==
  /\ turn = Jobs + 1
  /\ LET e       == epoch[Gc]
         more    == Increments(e)
         less    == Decrements(e)
         counted == Counted(more)
         count   == [o \in Obj |-> refs[o] + more[o] +
                       Cardinality({p \in Obj : p \in fresh /\ counted[p] /\ o \in kids[p]})]
         new     == {o \in fresh : ~counted[o]}
         falls   == Falls(count, less, new)
     IN /\ refs' = [o \in Obj |-> count[o] - less[o] -
                      Cardinality({p \in Obj : p \notin new /\ falls[p] /\ o \in kids[p]})]
        /\ fresh' = new
        /\ status' = [o \in Obj |-> IF falls[o] /\ o \notin buffered
                                    THEN "freed" ELSE status[o]]
        /\ buffered' = buffered \cup {o \in Obj : falls[o]}
        /\ snapshot' = [snapshot EXCEPT ![e] = messages]
        /\ inc' = Cleared(inc, e)
        /\ dec' = Cleared(dec, Prev3(e))
        /\ stk' = Cleared(stk, Prev3(e))
        /\ epoch' = [epoch EXCEPT ![Gc] = Next3(@)]
  /\ turn' = 0
  /\ IF Up THEN rounds' = rounds + 1 /\ UNCHANGED down
           ELSE down' = down + 1 /\ UNCHANGED rounds
  /\ UNCHANGED <<kids, roots>>

(* gab_destroy, when all workers are dead: main (whose buffers are those   *)
(* of the first job here) drops all that was kept, and the messages.       *)
Destroy ==
  /\ Up
  /\ turn = 0
  /\ \A j \in Job : stack[j] = {} /\ locked[j] = 0 /\ reading[j] = None
  /\ dec' = [dec EXCEPT ![1][epoch[1]] = [o \in Obj |-> @[o] + kept[o]]]
  /\ kept' = [o \in Obj |-> 0]
  /\ messages' = None
  /\ down' = 0
  /\ UNCHANGED <<objects, stack, locked, lockbuf, reading, snapshot, inc, stk,
                 epoch, turn, rounds>>

(* A job does nothing else while it reads the messages.                    *)
Mutate(j) ==
  \/ /\ reading[j] = None
     /\ \/ New(j) \/ Push(j) \/ Pop(j) \/ Keep(j) \/ Drop(j) \/ Lock(j) \/ Unlock(j)
        \/ Define(j) \/ ReadLoad(j) \/ \E i \in Job : Hand(i, j)
  \/ ReadUse(j)

Next ==
  \/ \E j \in Job : Mutate(j) \/ Report(j)
  \/ Start \/ Collect \/ Destroy

Spec == Init /\ [][Next]_vars

-----------------------------------------------------------------------------
TypeOK ==
  /\ status \in [Obj -> {"unborn", "live", "freed"}]
  /\ refs \in [Obj -> Nat]
  /\ fresh \subseteq Obj /\ buffered \subseteq Obj
  /\ kids \in [Obj -> SUBSET Obj]
  /\ stack \in [Job -> SUBSET Obj]
  /\ locked \in [Job -> Nat]
  /\ lockbuf \in [Job -> SUBSET Obj]
  /\ kept \in [Obj -> Nat]
  /\ messages \in Obj \cup {None}
  /\ reading \in [Job -> Obj \cup {None}]
  /\ snapshot \in [Epoch -> Obj \cup {None}]
  /\ {inc, dec, stk} \subseteq [Job -> [Epoch -> [Obj -> Nat]]]
  /\ epoch \in [Job \cup {Gc} -> Epoch]
  /\ turn \in 0..(Jobs + 1)
  /\ rounds \in Nat
  /\ down \in -1..4

Live(o) == status[o] = "live"

(* What a program can still get at: the values on its stacks and in its    *)
(* lock buffers, those that are kept, the messages, and all they refer to. *)
Reachable ==
  LET r[o \in Obj] ==
        \/ \E j \in Job : o \in stack[j] \cup lockbuf[j]
        \/ kept[o] > 0
        \/ messages = o
        \/ \E p \in (o + 1)..Objects : o \in kids[p] /\ r[p]
  IN {o \in Obj : r[o]}

(* Nothing that a job can still reach is destroyed (__gab_gcdestroy frees  *)
(* the memory).  A new object that nobody counted within an epoch is       *)
(* garbage and may outlive its children by one collection.                 *)
ReachableIsLive == \A o \in Reachable : Live(o)

(* The record in which a job looks up a message exists while it looks.     *)
ReadIsLive == \A j \in Job : reading[j] # None => Live(reading[j])

(* No buffer holds an object that is destroyed (the check "UAF" in         *)
(* __gab_gcbufeachdo): decrements never outnumber references.              *)
BuffersAreLive ==
  \A o \in Obj : status[o] = "freed" =>
     \A j \in Job : \A e \in Epoch :
        inc[j][e][o] = 0 /\ dec[j][e][o] = 0 /\ stk[j][e][o] = 0

(* What one count stands for: the counted parents, the references that are *)
(* kept, the birth reference while locked, what the last collection took   *)
(* from stacks and messages, the decrements that wait, less the increments *)
(* that wait.                                                              *)
Pending(b, o) == Sum(b, 0, o) + Sum(b, 1, o) + Sum(b, 2, o)

Last == Prev3(epoch[Gc])

Accounting ==
  \A o \in Obj : Live(o) =>
     refs[o] + Pending(inc, o) =
       Cardinality({p \in Obj : Live(p) /\ p \notin fresh /\ o \in kids[p]})
       + kept[o] + Pending(dec, o) + Sum(stk, Last, o)
       + Bit(snapshot[Last] = o)
       + Cardinality({j \in Job : o \in lockbuf[j]})

(* Four collections after everything was dropped the buffers are empty     *)
(* (gab_verify in gab_destroy) and every object is destroyed.              *)
AllReclaimed ==
  down = 4 =>
     /\ inc = [j \in Job |-> Empty] /\ dec = [j \in Job |-> Empty]
     /\ stk = [j \in Job |-> Empty]
     /\ \A o \in Obj : ~Live(o)

(* While a job holds the lock nothing is collected (gab_gclock).           *)
LockPreventsCollection ==
  [][(\E j \in Job : locked[j] > 0) => \A o \in Obj : Live(o) => status'[o] = "live"]_vars

==============================================================================
