-------------------------------- MODULE Signal --------------------------------
(***************************************************************************)
(* How the engine stops its jobs for a collection (COLL) or for good       *)
(* (TERM).  All of it hangs on one atomic word, eg->sig: the mask of the   *)
(* jobs that are alive, the signal, and the job whose turn it is.  Whoever *)
(* raises a signal wakes the collector's thread (job 0) and waits for it   *)
(* to acknowledge; the signal then visits the jobs 1, 2, ... in order,     *)
(* each passing it on, and reaches the collector last, which clears it.    *)
(*                                                                         *)
(* Job 1 is the thread that called gab_create, the others are workers that *)
(* running jobs spawn.  A job at "run" stands for everything a thread does *)
(* between two looks at the word.  A load, a pure computation and a        *)
(* compare-and-swap in a loop are one step; where the loop has effects     *)
(* before the swap (counting epochs, handling a signal) the load is a step *)
(* of its own and the loaded word is kept in seen.  gc_mtx is held by the  *)
(* collector whenever it is not inside cnd_wait, so it needs no variable.  *)
(***************************************************************************)
EXTENDS Integers, FiniteSets

CONSTANTS
  Len,          \* eg->len, the number of job slots
  Workers0,     \* how many workers run at first
  Raiser,       \* <<job, signal>>: who may raise which signal
  Spawner,      \* jobs that may spawn workers
  Quitter,      \* workers whose step may fail without a TERM (jbstep)
  Interactive,  \* main runs gab_repl: it passes TERM on and stays alive
  MayDestroy,   \* main may call gab_destroy
  Spurious,     \* cnd_wait may return without a cnd_signal
  Started,      \* the collector's thread has reached cnd_wait
  MaxSignals    \* bound: signals raised outside gab_destroy

Job  == 0..(Len - 1)
Gc   == 0
Main == 1

ASSUME ConstantsAssumption ==
  /\ Len \in Nat /\ Len >= 2
  /\ Workers0 \in 0..(Len - 2)
  /\ Raiser \subseteq (Job \ {Gc}) \X {"COLL", "TERM"}
  /\ Spawner \subseteq Job \ {Gc}
  /\ Quitter \subseteq Job \ {Gc, Main}
  /\ {Interactive, MayDestroy, Spurious, Started} \subseteq BOOLEAN
  /\ MaxSignals \in Nat

VARIABLES
  sig,     \* the atomic word: mask, schedule, signal
  epoch,   \* jobs[j].epoch
  pc,      \* where each thread is
  goal,    \* the signal that a call of gab_signal raises
  after,   \* where that call returns to
  target,  \* the argument of gab_signext
  then,    \* where gab_signext returns to
  child,   \* the slot that __gab_jbnext reserved
  seen,    \* the word that a loop has loaded
  syncs,   \* collections that gab_destroy has waited for
  raised,  \* how many signals were raised
  owing,   \* history: jobs that ran when COLL was raised and did not report
  odd      \* history: a worker quit by itself, or main stayed after a TERM

call == <<goal, after, target, then>>
vars == <<sig, epoch, pc, call, child, seen, syncs, raised, owing, odd>>

NoSignal == -1     \* schedule: nobody's turn
Calling  == -2     \* schedule: waiting for the collector's acknowledgement

Running == {"run", "look", "spawn", "sync", "drained"}
Dying   == {"unalive", "unload", "uncas"}
Label   == Running \cup Dying \cup
  {"none", "begin", "signal", "lock", "ack", "next", "skip", "bail", "await",
   "await_yield", "drain", "gc_unalive", "join", "done",
   "wait", "wake", "read", "collect", "clear", "loop", "exit"}

Least(S) == CHOOSE i \in S : \A j \in S : i <= j

Goto(p, l) == pc' = [pc EXCEPT ![p] = l]

Turn(p, s) == sig.schedule = p /\ sig.signal = s

(* The collector has gc_mtx unless it sleeps in cnd_wait (or is not there).*)
CollectorSleeps == pc[Gc] \in {"begin", "wait", "exit"}

(* gab_gcepochnext: report the stacks, move to the next epoch.             *)
EpochNext(p) ==
  /\ epoch' = [epoch EXCEPT ![p] = @ + 1]
  /\ owing' = owing \ {p}
  /\ UNCHANGED odd

(* gab_signext(t), to return to l.                                         *)
CallNext(p, t, l) ==
  /\ target' = [target EXCEPT ![p] = t]
  /\ then' = [then EXCEPT ![p] = l]
  /\ Goto(p, "next")

(* gab_signal(s), to return to l.                                          *)
CallSignal(p, s, l) ==
  /\ goal' = [goal EXCEPT ![p] = s]
  /\ after' = [after EXCEPT ![p] = l]
  /\ Goto(p, "signal")

(* Faulty variant: the next job is left out.                               *)
PropagateFar(p, l) ==
  /\ CallNext(p, IF p + 2 > Len THEN Len ELSE p + 2, l)
  /\ UNCHANGED <<goal, after>>

(* gab_sigpropagate, to return to l.                                       *)
Propagate(p, l) ==
  /\ CallNext(p, p + 1, l)
  /\ UNCHANGED <<goal, after>>

(* What every loop over gab_yield does with COLL.                          *)
Collected(p, l) ==
  /\ Turn(p, "COLL")
  /\ EpochNext(p)
  /\ Propagate(p, l)

(* gab_create has returned: main and the collector are alive, and some     *)
(* workers were spawned.                                                   *)
Init ==
  /\ sig = [mask |-> 0..(Workers0 + 1), schedule |-> NoSignal, signal |-> "IGN"]
  /\ epoch = [p \in Job |-> 1]
  /\ pc = [p \in Job |-> IF p = Gc THEN IF Started THEN "wait" ELSE "begin"
                         ELSE IF p <= Workers0 + 1 THEN "run" ELSE "none"]
  /\ goal = [p \in Job |-> "IGN"]
  /\ after = [p \in Job |-> "run"]
  /\ target = [p \in Job |-> 0]
  /\ then = [p \in Job |-> "run"]
  /\ child = [p \in Job |-> 0]
  /\ seen = [p \in Job |-> sig]
  /\ syncs = 0
  /\ raised = 0
  /\ owing = {}
  /\ odd = FALSE

-----------------------------------------------------------------------------
(* gab_signal and gab_signext.                                             *)

(* A running job asks for a collection (a full buffer, __gab_gcqdec) or    *)
(* for termination, and looks at the word right after.                     *)
Raise(p) ==
  /\ pc[p] = "run"
  /\ raised < MaxSignals
  /\ \E s \in {"COLL", "TERM"} : <<p, s>> \in Raiser /\ CallSignal(p, s, "look")
  /\ UNCHANGED <<sig, epoch, target, then, child, seen, syncs, raised, owing, odd>>

(* The signal is already on its way, or p is told to terminate.            *)
SignalReturn(p) ==
  /\ pc[p] = "signal"
  /\ sig.signal = goal[p] \/ Turn(p, "TERM")
  /\ Goto(p, after[p])
  /\ UNCHANGED <<sig, epoch, call, child, seen, syncs, raised, owing, odd>>

(* A collection reaches p while it wants to raise something else.          *)
SignalCollected(p) ==
  /\ pc[p] = "signal"
  /\ goal[p] # "COLL"
  /\ Collected(p, "signal")
  /\ UNCHANGED <<sig, child, seen, syncs, raised>>

(* Faulty variant: a signal replaces the one that is under way.            *)
SignalRaiseOver(p) ==
  /\ pc[p] = "signal"
  /\ sig.signal # goal[p]
  /\ sig' = [sig EXCEPT !.schedule = Calling, !.signal = goal[p]]
  /\ raised' = raised + 1
  /\ owing' = IF goal[p] = "COLL" THEN sig.mask \ {Gc} ELSE {}
  /\ Goto(p, "lock")
  /\ UNCHANGED <<epoch, call, child, seen, syncs, odd>>

SignalRaise(p) ==
  /\ pc[p] = "signal"
  /\ sig.schedule = NoSignal /\ sig.signal = "IGN"
  /\ sig' = [sig EXCEPT !.schedule = Calling, !.signal = goal[p]]
  /\ raised' = raised + 1
  /\ owing' = IF goal[p] = "COLL" THEN sig.mask \ {Gc} ELSE {}
  /\ Goto(p, "lock")
  /\ UNCHANGED <<epoch, call, child, seen, syncs, odd>>

(* Lock gc_mtx, cnd_signal, unlock: lost unless the collector waits.       *)
SignalWake(p) ==
  /\ pc[p] = "lock"
  /\ CollectorSleeps
  /\ pc' = [pc EXCEPT ![p] = "ack",
                      ![Gc] = IF @ = "wait" THEN "wake" ELSE @]
  /\ UNCHANGED <<sig, epoch, call, child, seen, syncs, raised, owing, odd>>

(* Faulty variant: the signal starts before the collector has answered.    *)
SignalAckEager(p) ==
  /\ pc[p] = "ack"
  /\ CallNext(p, Main, after[p])
  /\ UNCHANGED <<sig, epoch, goal, after, child, seen, syncs, raised, owing, odd>>

SignalAck(p) ==
  /\ pc[p] = "ack"
  /\ sig.schedule = NoSignal
  /\ CallNext(p, Main, after[p])
  /\ UNCHANGED <<sig, epoch, goal, after, child, seen, syncs, raised, owing, odd>>

(* gab_signext with nobody left to signal, or nobody left but the          *)
(* collector, or a job that is alive.                                      *)
NextNobody(p) ==
  /\ pc[p] = "next"
  /\ sig.mask = {}
  /\ Goto(p, then[p])
  /\ UNCHANGED <<sig, epoch, call, child, seen, syncs, raised, owing, odd>>

(* Faulty variant: the turn goes to the slot after the last one.           *)
NextWrapPast(p) ==
  /\ pc[p] = "next"
  /\ sig.mask # {}
  /\ target[p] >= Len
  /\ sig' = [sig EXCEPT !.schedule = target[p]]
  /\ Goto(p, then[p])
  /\ UNCHANGED <<epoch, call, child, seen, syncs, raised, owing, odd>>

NextWrap(p) ==
  /\ pc[p] = "next"
  /\ sig.mask # {}
  /\ target[p] >= Len
  /\ sig' = [sig EXCEPT !.schedule = Gc]
  /\ Goto(p, then[p])
  /\ UNCHANGED <<epoch, call, child, seen, syncs, raised, owing, odd>>

NextAlive(p) ==
  /\ pc[p] = "next"
  /\ target[p] \in sig.mask
  /\ sig.schedule <= target[p]
  /\ sig' = [sig EXCEPT !.schedule = target[p]]
  /\ Goto(p, then[p])
  /\ UNCHANGED <<epoch, call, child, seen, syncs, raised, owing, odd>>

(* The first job alive from t on, else the collector.                      *)
Following(t, mask) ==
  LET later == {j \in mask : j >= t} IN IF later = {} THEN Gc ELSE Least(later)

(* Faulty variant: the jobs that are skipped keep their epoch.             *)
NextSkipQuiet(p) ==
  /\ pc[p] = "next"
  /\ sig.mask # {}
  /\ target[p] < Len /\ target[p] \notin sig.mask
  /\ UNCHANGED epoch
  /\ seen' = [seen EXCEPT ![p] = sig]
  /\ Goto(p, "skip")
  /\ UNCHANGED <<sig, call, child, syncs, raised, owing, odd>>

(* Skipping jobs that are not alive: first their epochs are counted on     *)
(* their behalf, then the word is swapped, else everything is done again.  *)
NextSkip(p) ==
  /\ pc[p] = "next"
  /\ sig.mask # {}
  /\ target[p] < Len /\ target[p] \notin sig.mask
  /\ LET n    == Following(target[p], sig.mask)
         last == IF n = Gc THEN Len ELSE n
     IN epoch' = [j \in Job |->
                   IF sig.signal = "COLL" /\ target[p] <= j /\ j < last
                   THEN epoch[j] + 1 ELSE epoch[j]]
  /\ seen' = [seen EXCEPT ![p] = sig]
  /\ Goto(p, "skip")
  /\ UNCHANGED <<sig, call, child, syncs, raised, owing, odd>>

SkipSwap(p) ==
  /\ pc[p] = "skip"
  /\ \/ /\ sig = seen[p]
        /\ sig' = [sig EXCEPT !.schedule = Following(target[p], sig.mask)]
        /\ Goto(p, then[p])
     \/ /\ sig # seen[p]
        /\ Goto(p, "next")
        /\ UNCHANGED sig
  /\ UNCHANGED <<epoch, call, child, seen, syncs, raised, owing, odd>>

SignalStep(p) ==
  \/ SignalReturn(p) \/ SignalCollected(p) \/ SignalRaise(p) \/ SignalWake(p)
  \/ SignalAck(p) \/ NextNobody(p) \/ NextWrap(p) \/ NextAlive(p)
  \/ NextSkip(p) \/ SkipSwap(p)

-----------------------------------------------------------------------------
(* Jobs.                                                                   *)

(* A running job looks at its signal (jbstep, fibawait, the VM ...).  A    *)
(* worker bails on TERM.  Main ends its wait and goes on to gab_destroy,   *)
(* or, in the REPL, passes TERM on and stays.                              *)
Yield(p) ==
  /\ pc[p] \in {"run", "look"}
  /\ \/ Collected(p, "run")
     \/ /\ pc[p] = "look" /\ sig.schedule # p
        /\ Goto(p, "run")
        /\ UNCHANGED <<epoch, call, owing, odd>>
     \/ /\ Turn(p, "TERM") /\ p # Main
        /\ Goto(p, "bail")
        /\ UNCHANGED <<epoch, call, owing, odd>>
     \/ /\ Turn(p, "TERM") /\ p = Main /\ Interactive
        /\ Propagate(p, "run")
        /\ odd' = TRUE
        /\ UNCHANGED <<epoch, owing>>
     \/ /\ Turn(p, "TERM") /\ p = Main /\ MayDestroy
        /\ CallSignal(p, "TERM", "bail")
        /\ UNCHANGED <<epoch, target, then, owing, odd>>
  /\ UNCHANGED <<sig, child, seen, syncs, raised>>

(* Faulty variant: the search for a free slot starts at the bottom.        *)
SpawnClaimLow(p) ==
  /\ p \in Spawner
  /\ pc[p] = "run"
  /\ LET free == Job \ sig.mask
     IN /\ free # {}
        /\ sig' = [sig EXCEPT !.mask = @ \cup {Least(free)}]
        /\ child' = [child EXCEPT ![p] = Least(free)]
  /\ Goto(p, "spawn")
  /\ UNCHANGED <<epoch, call, seen, syncs, raised, owing, odd>>

(* __gab_jbnext claims the first free slot above p, __gab_job fills it and *)
(* starts the thread, which repeats the claim (__gab_jbalive).             *)
SpawnClaim(p) ==
  /\ p \in Spawner
  /\ pc[p] = "run"
  /\ LET free == {j \in Job : j >= p} \ sig.mask
     IN /\ free # {}
        /\ sig' = [sig EXCEPT !.mask = @ \cup {Least(free)}]
        /\ child' = [child EXCEPT ![p] = Least(free)]
  /\ Goto(p, "spawn")
  /\ UNCHANGED <<epoch, call, seen, syncs, raised, owing, odd>>

SpawnThread(p) ==
  /\ pc[p] = "spawn"
  /\ pc' = [pc EXCEPT ![p] = "run", ![child[p]] = "begin"]
  /\ UNCHANGED <<sig, epoch, call, child, seen, syncs, raised, owing, odd>>

Begin(p) ==
  /\ pc[p] = "begin"
  /\ p # Gc
  /\ sig' = [sig EXCEPT !.mask = @ \cup {p}]
  /\ Goto(p, "run")
  /\ UNCHANGED <<epoch, call, child, seen, syncs, raised, owing, odd>>

(* jbstep fails without a TERM: its work channel was closed, or a fiber    *)
(* was ended by a closed channel.                                          *)
Quit(p) ==
  /\ p \in Quitter
  /\ pc[p] = "run"
  /\ Goto(p, "bail")
  /\ odd' = TRUE
  /\ UNCHANGED <<sig, epoch, call, child, seen, syncs, raised, owing>>

(* __gab_jbbail: a job that is not alive leaves at once, the others wait   *)
(* for TERM.  The loop's condition and its body look at the word           *)
(* separately.                                                             *)
Exit(p) == Goto(p, IF p = Main THEN "drained" ELSE "done")

Bail(p) ==
  /\ pc[p] = "bail"
  /\ \/ p \notin sig.mask /\ Exit(p)
     \/ p \in sig.mask /\ Goto(p, "await")
  /\ UNCHANGED <<sig, epoch, call, child, seen, syncs, raised, owing, odd>>

(* Faulty variant: nobody waits for the signal.                            *)
AwaitNothing(p) ==
  /\ pc[p] = "await"
  /\ Goto(p, "drain")
  /\ UNCHANGED <<sig, epoch, call, child, seen, syncs, raised, owing, odd>>

Await(p) ==
  /\ pc[p] = "await"
  /\ Goto(p, IF sig.schedule = p THEN "drain" ELSE "await_yield")
  /\ UNCHANGED <<sig, epoch, call, child, seen, syncs, raised, owing, odd>>

AwaitYield(p) ==
  /\ pc[p] = "await_yield"
  /\ \/ Collected(p, "await")
     \/ /\ Turn(p, "TERM")
        /\ Goto(p, "drain")
        /\ UNCHANGED <<epoch, call, owing, odd>>
     \/ /\ sig.schedule # p
        /\ Goto(p, "await")
        /\ UNCHANGED <<epoch, call, owing, odd>>
  /\ UNCHANGED <<sig, child, seen, syncs, raised>>

(* The queued fibers end themselves.                                       *)
Drain(p) ==
  /\ pc[p] = "drain"
  /\ Goto(p, "unalive")
  /\ UNCHANGED <<sig, epoch, call, child, seen, syncs, raised, owing, odd>>

(* Faulty variant: a dying job keeps the TERM signal to itself.            *)
UnaliveKeep(p) ==
  /\ pc[p] = "unalive"
  /\ \/ Collected(p, "unload")
     \/ /\ ~Turn(p, "COLL")
        /\ Goto(p, "unload")
        /\ UNCHANGED <<epoch, call, owing, odd>>
  /\ UNCHANGED <<sig, child, seen, syncs, raised>>

(* __gab_jbunalive: pass the signal on, load the word, swap the bit away;  *)
(* when the swap fails, look for a signal again.                           *)
Unalive(p) ==
  /\ pc[p] = "unalive"
  /\ \/ Collected(p, "unload")
     \/ /\ Turn(p, "TERM")
        /\ Propagate(p, "unload")
        /\ UNCHANGED <<epoch, owing, odd>>
     \/ /\ sig.schedule # p
        /\ Goto(p, "unload")
        /\ UNCHANGED <<epoch, call, owing, odd>>
  /\ UNCHANGED <<sig, child, seen, syncs, raised>>

UnaliveLoad(p) ==
  /\ pc[p] = "unload"
  /\ seen' = [seen EXCEPT ![p] = sig]
  /\ Goto(p, "uncas")
  /\ UNCHANGED <<sig, epoch, call, child, syncs, raised, owing, odd>>

UnaliveSwap(p) ==
  /\ pc[p] = "uncas"
  /\ \/ /\ sig = seen[p]
        /\ sig' = [sig EXCEPT !.mask = @ \ {p}]
        /\ owing' = owing \ {p}
        /\ Exit(p)
     \/ /\ sig # seen[p]
        /\ Goto(p, "unalive")
        /\ UNCHANGED <<sig, owing>>
  /\ UNCHANGED <<epoch, call, child, seen, syncs, raised, odd>>

JobStep(p) ==
  \/ Yield(p) \/ SpawnThread(p) \/ Begin(p) \/ Bail(p) \/ Await(p)
  \/ AwaitYield(p) \/ Drain(p) \/ Unalive(p) \/ UnaliveLoad(p) \/ UnaliveSwap(p)

-----------------------------------------------------------------------------
(* gab_destroy, called by main.                                            *)

(* First everybody is terminated, main among them.                         *)
Destroy ==
  /\ MayDestroy
  /\ pc[Main] = "run"
  /\ CallSignal(Main, "TERM", "bail")
  /\ UNCHANGED <<sig, epoch, target, then, child, seen, syncs, raised, owing, odd>>

(* When only the collector is left, four collections ...                   *)
Syncs == 4

DestroyCollect ==
  /\ \/ pc[Main] = "drained" /\ Cardinality(sig.mask) = 1 /\ UNCHANGED syncs
     \/ /\ pc[Main] = "sync" /\ sig.signal = "IGN" /\ syncs + 1 < Syncs
        /\ syncs' = syncs + 1
  /\ CallSignal(Main, "COLL", "sync")
  /\ UNCHANGED <<sig, epoch, target, then, child, seen, raised, owing, odd>>

DestroyCollected ==
  /\ pc[Main] = "sync" /\ sig.signal = "IGN" /\ syncs + 1 = Syncs
  /\ syncs' = Syncs
  /\ Goto(Main, "gc_unalive")
  /\ UNCHANGED <<sig, epoch, call, child, seen, raised, owing, odd>>

(* ... then the collector's bit is cleared for it (gab_gcdestroy), it is   *)
(* woken with a last TERM, and joined.                                     *)
DestroyGc ==
  /\ pc[Main] = "gc_unalive"
  /\ sig' = [sig EXCEPT !.mask = @ \ {Gc}]
  /\ CallSignal(Main, "TERM", "join")
  /\ UNCHANGED <<epoch, target, then, child, seen, syncs, raised, owing, odd>>

DestroyJoin ==
  /\ pc[Main] = "join"
  /\ pc[Gc] = "exit"
  /\ Goto(Main, "done")
  /\ UNCHANGED <<sig, epoch, call, child, seen, syncs, raised, owing, odd>>

DestroyStep == DestroyCollect \/ DestroyCollected \/ DestroyGc \/ DestroyJoin

-----------------------------------------------------------------------------
(* __gab_jbgc, the collector's thread.                                     *)

(* The loop condition, at the top and after every round.                   *)
GcLoop ==
  /\ pc[Gc] \in {"begin", "loop"}
  /\ Goto(Gc, IF sig.mask = {} THEN "exit" ELSE "wait")
  /\ UNCHANGED <<sig, epoch, call, child, seen, syncs, raised, owing, odd>>

GcWakeSpurious ==
  /\ Spurious
  /\ pc[Gc] = "wait"
  /\ Goto(Gc, "wake")
  /\ UNCHANGED <<sig, epoch, call, child, seen, syncs, raised, owing, odd>>

GcAck ==
  /\ pc[Gc] = "wake"
  /\ sig.schedule = Calling
  /\ sig' = [sig EXCEPT !.schedule = NoSignal]
  /\ Goto(Gc, "read")
  /\ UNCHANGED <<epoch, call, child, seen, syncs, raised, owing, odd>>

(* Spin until the signal comes round, or nobody is left.                   *)
GcRead ==
  /\ pc[Gc] = "read"
  /\ \/ Turn(Gc, "TERM") /\ Goto(Gc, "clear")
     \/ Turn(Gc, "COLL") /\ Goto(Gc, "collect")
     \/ sig.schedule # Gc /\ sig.mask = {} /\ Goto(Gc, "loop")
  /\ UNCHANGED <<sig, epoch, call, child, seen, syncs, raised, owing, odd>>

(* Faulty variant: the collector does not move to the next epoch.          *)
GcCollectStay ==
  /\ pc[Gc] = "collect"
  /\ Goto(Gc, "clear")
  /\ UNCHANGED <<sig, epoch, call, child, seen, syncs, raised, owing, odd>>

(* gab_gcdocollect, which Heap models: its own epoch moves first.          *)
GcCollect ==
  /\ pc[Gc] = "collect"
  /\ epoch' = [epoch EXCEPT ![Gc] = @ + 1]
  /\ Goto(Gc, "clear")
  /\ UNCHANGED <<sig, call, child, seen, syncs, raised, owing, odd>>

(* Faulty variant: the schedule is left at the collector.                  *)
GcClearHalf ==
  /\ pc[Gc] = "clear"
  /\ sig.schedule = Gc
  /\ sig' = [sig EXCEPT !.schedule = NoSignal]
  /\ Goto(Gc, "loop")
  /\ UNCHANGED <<epoch, call, child, seen, syncs, raised, owing, odd>>

GcClear ==
  /\ pc[Gc] = "clear"
  /\ sig.schedule = Gc
  /\ sig' = [sig EXCEPT !.schedule = NoSignal, !.signal = "IGN"]
  /\ Goto(Gc, "loop")
  /\ UNCHANGED <<epoch, call, child, seen, syncs, raised, owing, odd>>

GcStep == GcLoop \/ GcAck \/ GcRead \/ GcCollect \/ GcClear

-----------------------------------------------------------------------------
Next ==
  \/ \E p \in Job \ {Gc} :
       SignalStep(p) \/ JobStep(p) \/ Raise(p) \/ SpawnClaim(p) \/ Quit(p)
  \/ Destroy \/ DestroyStep
  \/ GcStep \/ GcWakeSpurious

Spec == Init /\ [][Next]_vars

(* Every OS thread keeps being scheduled, and a running job looks for its  *)
(* signal again and again.                                                 *)
FairSpec ==
  /\ Spec
  /\ \A p \in Job \ {Gc} : WF_vars(SignalStep(p) \/ JobStep(p))
  /\ WF_vars(DestroyStep)
  /\ WF_vars(GcStep)

-----------------------------------------------------------------------------
Word == [mask : SUBSET Job, schedule : (Calling)..(Len - 1),
         signal : {"IGN", "COLL", "TERM"}]

TypeOK ==
  /\ sig \in Word
  /\ epoch \in [Job -> Nat]
  /\ pc \in [Job -> Label]
  /\ goal \in [Job -> {"IGN", "COLL", "TERM"}]
  /\ after \in [Job -> {"run", "look", "bail", "sync", "join"}]
  /\ target \in [Job -> 0..Len]
  /\ then \in [Job -> {"run", "look", "signal", "await", "unload", "bail", "sync", "join"}]
  /\ child \in [Job -> Job]
  /\ seen \in [Job -> Word]
  /\ syncs \in 0..Syncs
  /\ raised \in Nat
  /\ owing \subseteq Job
  /\ odd \in BOOLEAN

(* When the collector collects, all jobs have moved to the same epoch as   *)
(* it (__gab_gcassert_workers_have_epoch), so that it finds every buffer   *)
(* of the epoch it works on complete and nobody still writes to it.        *)
EpochsAgree ==
  ~odd /\ pc[Gc] = "clear" /\ sig.signal = "COLL" =>
     \A p \in Job : epoch[p] % 3 = epoch[Gc] % 3

(* Every job that ran when the collection was asked for has reported its   *)
(* own stacks before the collector begins, or is dead (gab_gcepochnext).   *)
EveryJobReported == pc[Gc] = "collect" => owing = {}

(* A TERM that has come round to the collector leaves no job behind: each  *)
(* one is dying, and none was spawned behind its back (__gab_jbnext looks  *)
(* for slots above its own only).                                          *)
TermReachesAll ==
  ~odd /\ pc[Gc] = "clear" /\ sig.signal = "TERM" =>
     \A p \in sig.mask \ {Gc} : pc[p] \in Dying

(* Whoever passes a signal on has one to pass on (the precondition of      *)
(* gab_signext), and the turn is never given to a job that is dead.        *)
TurnIsAlive ==
  odd \/
  /\ \A p \in Job : pc[p] \in {"next", "skip"} /\ sig.mask # {} => sig.signal # "IGN"
  /\ sig.schedule >= 0 => sig.schedule \in sig.mask

(* While a job drains its queue the signal that waits for it is TERM       *)
(* (the assertion in __gab_jbbail).                                        *)
BailSeesTerm == odd \/ \A p \in Job : pc[p] = "drain" => Turn(p, "TERM")

(* A round never goes back: the turn moves to higher jobs, then to the     *)
(* collector, and a new round begins only when this one is cleared.        *)
RoundIsOrdered ==
  [][\/ sig'.schedule = sig.schedule
     \/ sig.schedule \notin {Gc, Calling} /\ sig'.schedule > sig.schedule
     \/ sig.schedule # Calling /\ sig'.schedule = Gc
     \/ sig.schedule \in {Gc, Calling} /\ sig'.schedule = NoSignal
     \/ sig.schedule = NoSignal /\ sig.signal = "IGN" /\ sig'.schedule = Calling]_sig

(* A collection that was asked for is completed.                           *)
CollectionFinishes == sig.signal = "COLL" ~> sig.signal # "COLL"

(* A call of gab_signal returns, as long as anybody is alive to answer it. *)
SignalReturns ==
  \A p \in Job : pc[p] \in {"signal", "lock", "ack"} /\ sig.mask # {}
                   ~> pc[p] \notin {"signal", "lock", "ack"}

(* TERM takes all jobs down but the collector.                             *)
TermStops == sig.signal = "TERM" ~> sig.mask \subseteq {Gc}

(* gab_destroy comes to its end.                                           *)
DestroyReturns == pc[Main] = "bail" ~> pc[Main] = "done"

==============================================================================
