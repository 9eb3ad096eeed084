------------------------------- MODULE Channel -------------------------------
(***************************************************************************)
(* The unbuffered channel of the engine (gab_ochannel): one slot, a        *)
(* spinlock, an epoch that moves at every put, take and abandon, and the   *)
(* token protocol by which a putter learns that its values were taken.     *)
(*                                                                         *)
(* Two kinds of processes use a channel.  A Thread calls the blocking API  *)
(* (gab_ntchnput, gab_ntchntake) from C.  A Fiber executes the VM's put    *)
(* and take primitives, which try once and then yield to the scheduler.    *)
(*                                                                         *)
(* The slot holds a pointer into the putter's own memory, so a value is    *)
(* represented by the call that owns the memory: <<process, call number>>. *)
(* Each atomic access that another process can observe is a step of its    *)
(* own; accesses made under the spinlock and observed only under it (len)  *)
(* are merged with their neighbour.  Waiting costs one step per iteration. *)
(* COLL signals received while waiting touch no channel state.             *)
(***************************************************************************)
EXTENDS Integers, FiniteSets

CONSTANTS
  Thread,       \* OS threads that call the blocking C API
  Fiber,        \* fibers that run the VM's put and take primitives
  Closer,       \* the processes that may close the channel
  Terminable,   \* the processes whose worker may be sent sGAB_TERM
  Tries,        \* the values of "tries" that threads pass
  Forever,      \* (uint64_t)-1 tries: never times out
  Lens,         \* the numbers of values that one put offers
  MaxCalls,     \* bound: calls made by one process
  MaxEpoch,     \* bound: the largest epoch, 2^32 - 1 in the code
  None          \* the null data pointer, the free spinlock

Process == Thread \cup Fiber
Id      == Process \X (1..MaxCalls)

ASSUME ConstantsAssumption ==
  /\ Thread \cap Fiber = {}
  /\ None \notin Process
  /\ None \notin Id
  /\ Forever \notin Nat
  /\ Tries \subseteq Nat \cup {Forever}
  /\ Lens \subseteq Nat
  /\ MaxCalls \in Nat
  /\ MaxEpoch \in Nat \ {0}

VARIABLES
  closed,   \* header.kind = kGAB_CHANNELCLOSED
  lock,     \* the holder of the spinlock
  epoch,    \* channel->epoch
  data,     \* channel->data: the call whose memory it points into
  len,      \* channel->len
  term,     \* processes whose worker has a TERM signal waiting
  pc,       \* where each process is
  call,     \* the number of calls each process has begun
  tries,    \* argument of the current call
  sofar,    \* failed attempts of the current call
  size,     \* how many values the current put offers
  token,    \* what __gab_chnput returned to the current put
  src,      \* what a taker exchanged out of the slot
  outcome,  \* how each call ended
  copies    \* how often the memory of each call was copied by a taker

slot  == <<closed, lock, epoch, data, len>>
local == <<call, tries, sofar, size, token, src>>
vars  == <<slot, term, pc, local, outcome, copies>>

Label == {"idle", "dead",
          "put_top", "put_full", "put_wait", "put_lock", "put_store",
          "put_epoch", "put_match", "put_block", "put_abandon", "put_recheck",
          "put_reset", "parked", "put_enter",
          "take_top", "take_empty", "take_wait", "take_lock", "take_swap",
          "take_copy", "take_enter"}

Kind == {"unused", "open",
         "valid",        \* gab_cvalid, or a VM put that went on
         "taken",        \* a take that got values
         "timeout", "undefined", "invalid",
         "terminated"}   \* VM_TERM ended the fiber

cur(p) == <<p, call[p]>>

Goto(p, l) == pc' = [pc EXCEPT ![p] = l]

(* The call of p ends with kind k: a thread may call again, a fiber that   *)
(* VM_TERM ended runs no more.                                             *)
Return(p, k) ==
  /\ outcome' = [outcome EXCEPT ![cur(p)] = k]
  /\ Goto(p, IF k = "terminated" THEN "dead" ELSE "idle")

(* gab_cinvalid: the API reports it, the VM ends the fiber.                *)
Invalid(p) == Return(p, IF p \in Fiber THEN "terminated" ELSE "invalid")

Expired(p) == tries[p] # Forever /\ sofar[p] + 1 > tries[p]

Count(p) == sofar' = IF tries[p] = Forever THEN sofar
                     ELSE [sofar EXCEPT ![p] = @ + 1]

Free == lock = None

(* Faulty variant: the epoch counts down.                                  *)
EpochDec ==
  /\ epoch + 2 <= MaxEpoch
  /\ epoch' = epoch - 2

EpochInc ==
  /\ epoch + 2 <= MaxEpoch
  /\ epoch' = epoch + 2

Init ==
  /\ closed = FALSE
  /\ lock = None
  /\ epoch = 1
  /\ data = None
  /\ len = 0
  /\ term = {}
  /\ pc = [p \in Process |-> "idle"]
  /\ call = [p \in Process |-> 0]
  /\ tries = [p \in Process |-> 0]
  /\ sofar = [p \in Process |-> 0]
  /\ size = [p \in Process |-> 0]
  /\ token = [p \in Process |-> 0]
  /\ src = [p \in Process |-> None]
  /\ outcome = [i \in Id |-> "unused"]
  /\ copies = [i \in Id |-> 0]

(* Faulty variants: the slot keeps its values, or only its pointer.        *)
ClearNothing == UNCHANGED <<data, len>>
ClearLen     == len' = 0 /\ UNCHANGED data

Clear ==
  /\ data' = None
  /\ len' = 0

(* A call begins.  A fiber always passes 0 tries (cGAB_VM_CHANNEL_*_TRIES).*)
Begin(p) ==
  /\ pc[p] = "idle"
  /\ call[p] < MaxCalls
  /\ call' = [call EXCEPT ![p] = @ + 1]
  /\ sofar' = [sofar EXCEPT ![p] = 0]
  /\ \E t \in (IF p \in Fiber THEN {0} ELSE Tries) :
        tries' = [tries EXCEPT ![p] = t]
  /\ token' = [token EXCEPT ![p] = 0]
  /\ src' = [src EXCEPT ![p] = None]
  /\ outcome' = [outcome EXCEPT ![<<p, call'[p]>>] = "open"]
  /\ UNCHANGED <<slot, term, copies>>

(* gab_ntchnput, gab_untchnput: enter; a VM put checks its signal first.   *)
BeginPut(p) ==
  /\ Begin(p)
  /\ \E n \in Lens : size' = [size EXCEPT ![p] = n]
  /\ Goto(p, "put_enter")

BeginTake(p) ==
  /\ Begin(p)
  /\ Goto(p, "take_enter")
  /\ UNCHANGED size

(* gab_cundefined: the channel is closed.  A VM put yields once more with  *)
(* it; everyone else returns it.                                           *)
Undefined(p, isPut) ==
  IF isPut /\ p \in Fiber THEN Goto(p, "parked") /\ UNCHANGED outcome
                          ELSE Return(p, "undefined")

(* The kind is read once on entry.  For a fiber this is also where it      *)
(* comes back after yielding gab_ctimeout: CHECK_SIGNAL, then a fresh try. *)
Enter(p, from, to, isPut) ==
  /\ pc[p] = from
  /\ \/ p \in Fiber \cap term /\ Return(p, "terminated")
     \/ p \notin Fiber \cap term /\ closed /\ Undefined(p, isPut)
     \/ p \notin Fiber \cap term /\ ~closed /\ Goto(p, to) /\ UNCHANGED outcome
  /\ UNCHANGED <<slot, term, local, copies>>

PutEnter(p)  == Enter(p, "put_enter", "put_top", TRUE)
TakeEnter(p) == Enter(p, "take_enter", "take_top", FALSE)

(* The loop condition of __gab_ubchnput and __gab_bchntake.                *)
Top(p, from, to) ==
  /\ pc[p] = from
  /\ \/ closed /\ Invalid(p)
     \/ ~closed /\ Goto(p, to) /\ UNCHANGED outcome
  /\ UNCHANGED <<slot, term, local, copies>>

PutTop(p)  == Top(p, "put_top", "put_full")
TakeTop(p) == Top(p, "take_top", "take_empty")

(* The three wait loops differ in the condition they poll ...              *)
Poll(p, from, ready, to, wait) ==
  /\ pc[p] = from
  /\ Goto(p, IF ready THEN to ELSE wait)
  /\ UNCHANGED <<slot, term, local, outcome, copies>>

PutPoll(p)   == Poll(p, "put_full", data = None, "put_lock", "put_wait")
TakePoll(p)  == Poll(p, "take_empty", data # None, "take_lock", "take_wait")

(* Faulty variant: an empty slot is taken for a finished transfer.         *)
MatchPollSlot(p) ==
  /\ pc[p] = "put_match"
  /\ \/ data = None /\ Return(p, "valid")
     \/ data # None /\ Goto(p, "put_block") /\ UNCHANGED outcome
  /\ UNCHANGED <<slot, term, local, copies>>

MatchPoll(p) ==
  /\ pc[p] = "put_match"
  /\ \/ epoch # token[p] /\ Return(p, "valid")
     \/ epoch = token[p] /\ Goto(p, "put_block") /\ UNCHANGED outcome
  /\ UNCHANGED <<slot, term, local, copies>>

(* Faulty variant: waiting does not look at the kind of the channel.       *)
WaitUnaware(p, from, again, isPut, timeout) ==
  /\ pc[p] = from
  /\ \/ Expired(p) /\ timeout /\ UNCHANGED sofar
     \/ ~Expired(p) /\ p \in term /\ Invalid(p) /\ UNCHANGED sofar
     \/ /\ ~Expired(p) /\ p \notin term
        /\ Goto(p, again) /\ Count(p) /\ UNCHANGED outcome
  /\ UNCHANGED <<slot, term, call, tries, size, token, src, copies>>

(* ... and share what they do when it does not hold: closed, then tries,   *)
(* then the signal.                                                        *)
Wait(p, from, again, isPut, timeout) ==
  /\ pc[p] = from
  /\ \/ closed /\ Undefined(p, isPut) /\ UNCHANGED sofar
     \/ ~closed /\ Expired(p) /\ timeout /\ UNCHANGED sofar
     \/ ~closed /\ ~Expired(p) /\ p \in term /\ Invalid(p) /\ UNCHANGED sofar
     \/ /\ ~closed /\ ~Expired(p) /\ p \notin term
        /\ Goto(p, again) /\ Count(p) /\ UNCHANGED outcome
  /\ UNCHANGED <<slot, term, call, tries, size, token, src, copies>>

(* A thread reports the timeout, a fiber yields and enters again.          *)
TimedOut(p, enter) ==
  IF p \in Fiber THEN Goto(p, enter) /\ UNCHANGED outcome
                 ELSE Return(p, "timeout")

PutWait(p)   == Wait(p, "put_wait", "put_full", TRUE, TimedOut(p, "put_enter"))
TakeWait(p)  == Wait(p, "take_wait", "take_empty", FALSE, TimedOut(p, "take_enter"))

(* Faulty variant: a put times out without taking its values back.         *)
MatchWaitLeave(p) == Wait(p, "put_block", "put_match", TRUE, Return(p, "timeout"))

MatchWait(p) == Wait(p, "put_block", "put_match", TRUE,
                     Goto(p, "put_abandon") /\ UNCHANGED outcome)

(* __gab_chntrylock from __gab_chnput and __gab_chntake: on failure the    *)
(* caller goes round its loop again.                                       *)
TryLock(p, from, to, else) ==
  /\ pc[p] = from
  /\ \/ Free /\ lock' = p /\ Goto(p, to)
     \/ ~Free /\ UNCHANGED lock /\ Goto(p, else)
  /\ UNCHANGED <<closed, epoch, data, len, term, local, outcome, copies>>

PutLock(p)  == TryLock(p, "put_lock", "put_store", "put_top")
TakeLock(p) == TryLock(p, "take_lock", "take_swap", "take_top")

(* Faulty variants: an occupied slot is overwritten, or the lock kept.     *)
PutStoreBlind(p) ==
  /\ pc[p] = "put_store"
  /\ data' = cur(p)
  /\ len' = size[p]
  /\ Goto(p, "put_epoch")
  /\ UNCHANGED <<closed, lock, epoch, term, local, outcome, copies>>

PutStoreLeak(p) ==
  /\ pc[p] = "put_store"
  /\ \/ (len # 0 \/ data # None) /\ Goto(p, "put_top") /\ UNCHANGED <<data, len>>
     \/ /\ len = 0 /\ data = None /\ Goto(p, "put_epoch")
        /\ data' = cur(p) /\ len' = size[p]
  /\ UNCHANGED <<closed, lock, epoch, term, local, outcome, copies>>

(* __gab_chnput under the lock: bail when occupied, else publish.          *)
PutStore(p) ==
  /\ pc[p] = "put_store"
  /\ \/ /\ len # 0 \/ data # None
        /\ lock' = None
        /\ Goto(p, "put_top")
        /\ UNCHANGED <<data, len>>
     \/ /\ len = 0 /\ data = None
        /\ data' = cur(p)
        /\ len' = size[p]
        /\ Goto(p, "put_epoch")
        /\ UNCHANGED lock
  /\ UNCHANGED <<closed, epoch, term, local, outcome, copies>>

(* Faulty variant: the token is what fetch_add returns, the old epoch.     *)
PutEpochOld(p) ==
  /\ pc[p] = "put_epoch"
  /\ EpochInc
  /\ token' = [token EXCEPT ![p] = epoch]
  /\ lock' = None
  /\ Goto(p, IF p \in Fiber THEN "parked" ELSE "put_match")
  /\ UNCHANGED <<closed, data, len, term, call, tries, sofar, size, src,
                 outcome, copies>>

(* The token is the new epoch.  A thread waits for a taker, a VM put parks *)
(* its fiber with the token.                                               *)
PutEpoch(p) ==
  /\ pc[p] = "put_epoch"
  /\ EpochInc
  /\ token' = [token EXCEPT ![p] = epoch']
  /\ lock' = None
  /\ Goto(p, IF p \in Fiber THEN "parked" ELSE "put_match")
  /\ UNCHANGED <<closed, data, len, term, call, tries, sofar, size, src,
                 outcome, copies>>

(* Faulty variant: a fiber goes on as soon as the slot is empty.           *)
ResumeEager(p) ==
  /\ pc[p] = "parked"
  /\ data = None
  /\ Return(p, "valid")
  /\ UNCHANGED <<slot, term, local, copies>>

(* The scheduler runs a fiber that has put: it goes on when the channel is *)
(* closed or the epoch has left its token, and yields again otherwise.     *)
Resume(p) ==
  /\ pc[p] = "parked"
  /\ \/ p \in term /\ Return(p, "terminated")
     \/ p \notin term /\ (closed \/ epoch # token[p]) /\ Return(p, "valid")
  /\ UNCHANGED <<slot, term, local, copies>>

(* __gab_bchnabandon: spin for the lock, take the values back unless the   *)
(* epoch shows that a taker came.                                          *)
AbandonLock(p) ==
  /\ pc[p] = "put_abandon"
  /\ Free
  /\ lock' = p
  /\ Goto(p, "put_recheck")
  /\ UNCHANGED <<closed, epoch, data, len, term, local, outcome, copies>>

(* Faulty variants: no second look at the epoch; the lock is not released. *)
AbandonBlind(p) ==
  /\ pc[p] = "put_recheck"
  /\ Clear
  /\ Goto(p, "put_reset")
  /\ UNCHANGED <<closed, lock, epoch, outcome, term, local, copies>>

AbandonLeak(p) ==
  /\ pc[p] = "put_recheck"
  /\ \/ epoch # token[p] /\ Return(p, "valid") /\ UNCHANGED <<data, len>>
     \/ epoch = token[p] /\ Clear /\ Goto(p, "put_reset") /\ UNCHANGED outcome
  /\ UNCHANGED <<closed, lock, epoch, term, local, copies>>

AbandonCheck(p) ==
  /\ pc[p] = "put_recheck"
  /\ \/ /\ epoch # token[p]
        /\ lock' = None
        /\ Return(p, "valid")
        /\ UNCHANGED <<data, len>>
     \/ /\ epoch = token[p]
        /\ Clear
        /\ Goto(p, "put_reset")
        /\ UNCHANGED <<lock, outcome>>
  /\ UNCHANGED <<closed, epoch, term, local, copies>>

AbandonEpoch(p) ==
  /\ pc[p] = "put_reset"
  /\ EpochInc
  /\ lock' = None
  /\ Return(p, "timeout")
  /\ UNCHANGED <<closed, data, len, term, local, copies>>

(* __gab_chntake under the lock: empty the slot; a slot without values is  *)
(* no take and does not move the epoch.                                    *)
TakeSwap(p) ==
  /\ pc[p] = "take_swap"
  /\ Clear
  /\ \/ /\ len # 0 /\ data # None
        /\ src' = [src EXCEPT ![p] = data]
        /\ Goto(p, "take_copy")
        /\ UNCHANGED lock
     \/ /\ len = 0 \/ data = None
        /\ lock' = None
        /\ Goto(p, "take_top")
        /\ UNCHANGED src
  /\ UNCHANGED <<closed, epoch, term, call, tries, sofar, size, token,
                 outcome, copies>>

(* Faulty variant: the taker forgets to move the epoch.                    *)
TakeCopySilent(p) ==
  /\ pc[p] = "take_copy"
  /\ copies' = [copies EXCEPT ![src[p]] = @ + 1]
  /\ lock' = None
  /\ Return(p, "taken")
  /\ UNCHANGED <<closed, epoch, data, len, term, local>>

(* memcpy out of the putter's memory, then the epoch moves.                *)
TakeCopy(p) ==
  /\ pc[p] = "take_copy"
  /\ copies' = [copies EXCEPT ![src[p]] = @ + 1]
  /\ EpochInc
  /\ lock' = None
  /\ Return(p, "taken")
  /\ UNCHANGED <<closed, data, len, term, local>>

(* gab_chnclose takes no lock.                                             *)
Close(p) ==
  /\ p \in Closer
  /\ pc[p] = "idle"
  /\ ~closed
  /\ closed' = TRUE
  /\ UNCHANGED <<lock, epoch, data, len, term, pc, local, outcome, copies>>

(* The TERM signal reaches the worker that runs p and stays there.         *)
Terminate(p) ==
  /\ p \in Terminable \ term
  /\ term' = term \cup {p}
  /\ UNCHANGED <<slot, pc, local, outcome, copies>>

PutStep(p) ==
  \/ PutEnter(p) \/ PutTop(p) \/ PutPoll(p) \/ PutWait(p) \/ PutLock(p)
  \/ PutStore(p) \/ PutEpoch(p) \/ MatchPoll(p) \/ MatchWait(p)
  \/ AbandonLock(p) \/ AbandonCheck(p) \/ AbandonEpoch(p)

TakeStep(p) ==
  \/ TakeEnter(p) \/ TakeTop(p) \/ TakePoll(p) \/ TakeWait(p) \/ TakeLock(p)
  \/ TakeSwap(p) \/ TakeCopy(p)

Step(p) == PutStep(p) \/ TakeStep(p) \/ Resume(p)

Next ==
  \E p \in Process :
     Step(p) \/ BeginPut(p) \/ BeginTake(p) \/ Close(p) \/ Terminate(p)

Spec == Init /\ [][Next]_vars

(* Each OS thread keeps being scheduled, and a worker returns to each of   *)
(* its fibers (round robin over the working queue).                        *)
FairSpec == Spec /\ \A p \in Process : WF_vars(Step(p))

-----------------------------------------------------------------------------
TypeOK ==
  /\ closed \in BOOLEAN
  /\ lock \in Process \cup {None}
  /\ epoch \in 1..MaxEpoch
  /\ data \in Id \cup {None}
  /\ len \in Nat
  /\ term \subseteq Process
  /\ pc \in [Process -> Label]
  /\ call \in [Process -> 0..MaxCalls]
  /\ tries \in [Process -> Nat \cup {Forever}]
  /\ sofar \in [Process -> Nat]
  /\ size \in [Process -> Nat]
  /\ token \in [Process -> 0..MaxEpoch]
  /\ src \in [Process -> Id \cup {None}]
  /\ outcome \in [Id -> Kind]
  /\ copies \in [Id -> Nat]

PutLabel == {"put_enter", "put_top", "put_full", "put_wait", "put_lock",
             "put_store", "put_epoch", "put_match", "put_block",
             "put_abandon", "put_recheck", "put_reset", "parked"}

Putting(p) == pc[p] \in PutLabel
Taking(p)  == pc[p] \notin PutLabel \cup {"idle", "dead"}

(* No value is received twice, and only values that were put: whatever     *)
(* takers, abandoning putters and closers do to the slot (__gab_chntake).  *)
AtMostOnce == \A i \in Id : copies[i] <= 1

(* A put that reports success (gab_cvalid; for a VM put: going on while    *)
(* the channel is open) has been received: the epoch can have left the     *)
(* token for no other reason (__gab_bchnput, MICRO_OP_PUT).                *)
SuccessMeansReceived ==
  \A i \in Id : outcome[i] = "valid" /\ ~(closed /\ i[1] \in Fiber)
                 => copies[i] = 1

(* A put that reports a timeout was never received and never will be: its  *)
(* values are gone from the slot (__gab_bchnabandon against a late taker). *)
TimeoutMeansWithdrawn ==
  \A i \in Id : outcome[i] = "timeout" =>
     /\ copies[i] = 0
     /\ data # i
     /\ \A p \in Process : pc[p] = "take_copy" => src[p] # i

(* The memory that the slot points into, or that a taker is copying, is    *)
(* the memory of a call that has not returned: "the thread/fiber blocks    *)
(* until a put/take completes" (struct gab_ochannel).                      *)
BufferLive ==
  /\ data # None => outcome[data] = "open"
  /\ \A p \in Process : pc[p] = "take_copy" => outcome[src[p]] = "open"

(* Under the spinlock data and len are both set or both unset, which       *)
(* __gab_chnput and __gab_chntake assert before they use them.             *)
BothOrNeither ==
  \A p \in Process : pc[p] \in {"put_store", "take_swap"}
                     => (len = 0 <=> data = None)

(* A fiber is ended by its put or take only when its worker was told to    *)
(* terminate, and the API reports gab_cinvalid only then.                  *)
InvalidMeansTerminate ==
  \A i \in Id : outcome[i] \in {"invalid", "terminated"} => i[1] \in term

(* A closed channel cannot receive new values (gab_chnclose).              *)
ClosedReceivesNothing == [][closed => data' \in {data, None}]_vars

(* No lost wakeup: a put whose values were received returns                *)
(* (__gab_bchnput).                                                        *)
ReceivedPutReturns ==
  \A i \in Id : outcome[i] = "open" /\ copies[i] = 1 ~> outcome[i] # "open"

(* So does every call with a finite number of tries, and every call of     *)
(* threads and fibers on a channel that is closed.                         *)
TimedCallReturns ==
  \A p \in Thread :
     pc[p] \notin {"idle", "dead"} /\ tries[p] # Forever ~> pc[p] = "idle"

ClosedCallReturns ==
  \A p \in Process :
     closed /\ pc[p] \notin {"idle", "dead"} ~> pc[p] \in {"idle", "dead"}

CallsReturn == TimedCallReturns /\ ClosedCallReturns

(* A put and a take never wait side by side for ever.  (Each process makes *)
(* at most MaxCalls calls, so "for ever" means these very calls.)          *)
PutMeetsTake ==
  []<>~(/\ \E p \in Process : Putting(p) /\ size[p] > 0
        /\ \E q \in Process : Taking(q))

(* Refinement: a value is on offer while the slot or a taker that is       *)
(* copying points to it.                                                   *)
Stage(i) ==
  IF copies[i] > 0 THEN "received"
  ELSE IF data = i \/ \E p \in Process : pc[p] = "take_copy" /\ src[p] = i
       THEN "offered"
       ELSE "absent"

Promise == INSTANCE Rendezvous WITH
  Call    <- Id,
  Relaxed <- {i \in Id : i[1] \in Fiber},
  stage   <- [i \in Id |-> Stage(i)],
  ended   <- outcome,
  shut    <- closed

(* Locks, epochs, polling and abandoning together implement a rendezvous.  *)
ImplementsRendezvous == Promise!Spec

-----------------------------------------------------------------------------
(* The strengthening that makes the safety properties inductive.           *)

Critical == {"put_store", "put_epoch", "put_recheck", "put_reset",
             "take_swap", "take_copy"}

(* The spinlock excludes: its holder is the process in a critical section. *)
LockInv == \A p \in Process : pc[p] \in Critical <=> lock = p

(* i's values can still be received. *)
Offered(i) ==
  \/ data = i
  \/ \E p \in Process : pc[p] = "take_copy" /\ src[p] = i

(* Calls are open exactly while their process is inside them. *)
CallInv ==
  /\ \A p \in Process : pc[p] \notin {"idle", "dead"}
        => call[p] > 0 /\ outcome[cur(p)] = "open"
  /\ \A p \in Process : \A c \in 1..MaxCalls :
        c > call[p] => outcome[<<p, c>>] = "unused"

(* len and data agree, and a copying taker has emptied the slot. *)
SlotInv ==
  /\ len = 0 <=> data = None
  /\ \A p \in Process : pc[p] = "take_copy" => src[p] # None /\ data = None
  /\ \A p \in Process : Putting(p) => size[p] > 0
  /\ \A p \in Process : pc[p] = "put_epoch" => data = cur(p)
  /\ \A p \in Process : pc[p] = "put_reset" => data = None

(* Only threads wait inside the call, only fibers park.  A put that waits  *)
(* for a taker has a token; the epoch equals it exactly while the values   *)
(* of the put can still be received.                                       *)
Matching == {"put_match", "put_block", "put_abandon", "put_recheck"}

Waiting(p) == pc[p] \in Matching \/ (pc[p] = "parked" /\ token[p] # 0)

TokenInv ==
  \A p \in Process :
    /\ token[p] <= epoch
    /\ pc[p] \in Matching \cup {"put_reset"} => p \notin Fiber
    /\ pc[p] = "parked" => p \in Fiber /\ (token[p] = 0 => closed)
    /\ Putting(p) /\ ~Waiting(p) /\ pc[p] # "put_reset" => token[p] = 0
    /\ Waiting(p) /\ epoch = token[p] => Offered(cur(p))
    /\ Waiting(p) /\ epoch # token[p] => copies[cur(p)] = 1 /\ ~Offered(cur(p))

(* What can still be received was not received; a call that has not put,   *)
(* or has withdrawn, offers nothing.                                       *)
CopyInv ==
  \A i \in Id :
    /\ copies[i] <= 1
    /\ Offered(i) => copies[i] = 0
    /\ outcome[i] \in {"unused", "timeout"} => copies[i] = 0 /\ ~Offered(i)
    /\ outcome[i] = "valid" /\ ~(closed /\ i[1] \in Fiber) => copies[i] = 1

FreshInv ==
  \A p \in Process :
    pc[p] \notin {"idle", "dead", "put_epoch"} /\ ~Waiting(p)
    => copies[cur(p)] = 0 /\ ~Offered(cur(p))

IInv ==
  TypeOK /\ LockInv /\ CallInv /\ SlotInv /\ TokenInv /\ CopyInv /\ FreshInv

==============================================================================
