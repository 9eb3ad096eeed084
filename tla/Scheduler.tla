------------------------------ MODULE Scheduler ------------------------------
(***************************************************************************)
(* How fibers reach the jobs that run them.  A fiber is created by the     *)
(* host (gab_arun, gab_asend) or by a running fiber (Fibers.make, use),    *)
(* starts a new job while a slot is free, and is otherwise handed over in  *)
(* a work channel: the global one, or the job's own when it is pinned.     *)
(* Each job moves what it takes to its waiting queue (unbounded), from     *)
(* there to its working queue (fixed capacity), and runs the fibers of     *)
(* that queue in turn until they finish or yield.                          *)
(*                                                                         *)
(* A work channel does what Rendezvous promises, which Channel implements: *)
(* it holds one value, a put ends when the value is taken or withdrawn, a  *)
(* put interrupted by TERM leaves the value behind.  Job 1 is the host's   *)
(* thread, which works while it awaits a fiber.  Job 0 (the collector) and *)
(* COLL appear in Signal only.                                             *)
(***************************************************************************)
EXTENDS Integers, Sequences, FiniteSets

CONSTANTS
  Top,        \* eg->len - 1, the highest job
  Cap,        \* capacity of a working queue
  Fiber,
  Work,       \* Work[f]: what fiber f does, see Task
  Program,    \* the host's calls in order, see Request
  MayTerm,    \* the embedder may raise TERM at any time
  TermOnErr   \* fGAB_SIGTERM_ON_ERR

Job    == 1..Top
Main   == 1
Global == 0     \* the global work channel; channel p belongs to job p
None   == "none"

Task ==
  [op : {"run", "panic", "put", "take"}] \cup
  [op : {"fork", "use", "await"}, arg : Fiber]

Request == [fib : Fiber, call : {"run", "send"}, pin : SUBSET (0..Top)]

ASSUME ConstantsAssumption ==
  /\ {Top, Cap} \subseteq Nat \ {0}
  /\ Work \in [Fiber -> Task]
  /\ Program \in Seq(Request)
  /\ {MayTerm, TermOnErr} \subseteq BOOLEAN
  /\ None \notin Fiber

VARIABLES
  kind,     \* header.kind of each fiber; "none" before it is created
  parked,   \* fibers whose put is in the channel (reentrant is its token)
  home,     \* history: the job that first ran the fiber, 0 before
  working,  \* jobs[p].working_queue
  waiting,  \* jobs[p].waiting_queue
  slot,     \* what each work channel holds
  owner,    \* whose put that is, 0 when the put was interrupted
  alive,    \* eg->sig.mask without the collector's bit
  turn,     \* TERM: 0 not raised, the job whose turn it is, Top + 1 over
  offer,    \* the fiber whose value is in the channel that fibers share
  pc,       \* what each job is doing
  hand,     \* the fiber that the job is handing over
  dest,     \* the work channel it uses, or the job it is pinned to
  timed,    \* the put gives up (tries 1), or waits for ever
  at        \* the host's position in Program

queues == <<working, waiting>>
chans  == <<slot, owner>>
fibers == <<kind, parked, home, offer>>
locals == <<pc, hand, dest, timed, at>>
vars   == <<fibers, queues, chans, alive, turn, locals>>

Label == {"none", "host", "step", "exec", "pin", "offer", "offered", "back",
          "join", "bail", "dead", "crashed"}

Least(S) == CHOOSE i \in S : \A j \in S : i <= j

Goto(p, l) == pc' = [pc EXCEPT ![p] = l]

(* gab_yield answers TERM.                                                 *)
Told(p) == turn = p

(* The front of the working queue: gab_thisfiber.                          *)
Front(p) == Head(working[p])

(* __gab_jbisrunning                                                       *)
IsRunning(p) == working[p] # <<>> /\ kind[Front(p)] = "RUNNING"

(* Where a job goes after a step: workers step again, the host looks at    *)
(* the fiber it awaits (gab_fibawait).                                     *)
Loop(p) == IF p = Main THEN "host" ELSE "step"

Init ==
  /\ kind = [f \in Fiber |-> "none"]
  /\ parked = {}
  /\ home = [f \in Fiber |-> 0]
  /\ working = [p \in Job |-> <<>>]
  /\ waiting = [p \in Job |-> <<>>]
  /\ slot = [c \in 0..Top |-> None]
  /\ owner = [c \in 0..Top |-> 0]
  /\ alive = {Main}
  /\ turn = 0
  /\ offer = None
  /\ pc = [p \in Job |-> IF p = Main THEN "host" ELSE "none"]
  /\ hand = [p \in Job |-> None]
  /\ dest = [p \in Job |-> Global]
  /\ timed = [p \in Job |-> FALSE]
  /\ at = 1

-----------------------------------------------------------------------------
(* Handing a fiber over.                                                   *)

Free(p) == {j \in Job : j >= p} \ alive

(* __gab_jbspawn: the first free slot above the caller gets new queues, a  *)
(* new work channel and a thread; the fiber is the first of its queue.     *)
Spawn(p, f, l) ==
  LET j == Least(Free(p))
  IN /\ Free(p) # {}
     /\ alive' = alive \cup {j}
     /\ working' = [working EXCEPT ![j] = <<f>>]
     /\ waiting' = [waiting EXCEPT ![j] = <<>>]
     /\ slot' = [slot EXCEPT ![j] = None]
     /\ owner' = [owner EXCEPT ![j] = 0]
     /\ pc' = [pc EXCEPT ![p] = l, ![j] = "step"]
     /\ UNCHANGED <<hand, dest, timed>>

(* Begin a put of f into work channel c.                                   *)
Put(p, f, c, limited) ==
  /\ hand' = [hand EXCEPT ![p] = f]
  /\ dest' = [dest EXCEPT ![p] = c]
  /\ timed' = [timed EXCEPT ![p] = limited]
  /\ Goto(p, "offer")
  /\ UNCHANGED <<queues, chans, alive>>

(* A new job if there is room, else the global channel: for good           *)
(* (gab_arun) or for one try (__gab_egqfib, when limited).                 *)
Launch(p, f, limited) ==
  \/ Spawn(p, f, "back")
  \/ Free(p) = {} /\ Put(p, f, Global, limited)

(* A timed put that failed, for whatever reason, ends in the own queue.    *)
KeepIfTimed(p) ==
  IF timed[p] THEN waiting' = [waiting EXCEPT ![p] = Append(@, hand[p])]
              ELSE UNCHANGED waiting

(* gab_tchnput, storing the value ...                                      *)
Offer(p) ==
  /\ pc[p] = "offer"
  /\ \/ /\ slot[dest[p]] = None
        /\ slot' = [slot EXCEPT ![dest[p]] = hand[p]]
        /\ owner' = [owner EXCEPT ![dest[p]] = p]
        /\ Goto(p, "offered")
        /\ UNCHANGED waiting
     \/ /\ slot[dest[p]] # None
        /\ timed[p] \/ Told(p)
        /\ KeepIfTimed(p)
        /\ Goto(p, "back")
        /\ UNCHANGED chans
  /\ UNCHANGED <<fibers, working, alive, turn, hand, dest, timed, at>>

(* Faulty variant: a put that gives up leaves its value in the channel.    *)
OfferedStays(p) ==
  /\ pc[p] = "offered"
  /\ timed[p] \/ Told(p) \/ owner[dest[p]] # p
  /\ IF owner[dest[p]] = p THEN KeepIfTimed(p) ELSE UNCHANGED waiting
  /\ Goto(p, "back")
  /\ UNCHANGED <<fibers, working, chans, alive, turn, hand, dest, timed, at>>

(* ... and waiting for a taker.  What TERM interrupts stays in the channel.*)
Offered(p) ==
  LET mine == owner[dest[p]] = p /\ slot[dest[p]] = hand[p]
  IN /\ pc[p] = "offered"
     /\ \/ ~mine /\ UNCHANGED <<waiting, chans>>
        \/ /\ mine /\ timed[p]
           /\ KeepIfTimed(p)
           /\ slot' = [slot EXCEPT ![dest[p]] = None]
           /\ owner' = [owner EXCEPT ![dest[p]] = 0]
        \/ /\ mine /\ Told(p)
           /\ KeepIfTimed(p)
           /\ owner' = [owner EXCEPT ![dest[p]] = 0]
           /\ UNCHANGED slot
     /\ Goto(p, "back")
     /\ UNCHANGED <<fibers, working, alive, turn, hand, dest, timed, at>>

-----------------------------------------------------------------------------
(* The host: it makes its calls, then awaits every fiber.                  *)

(* gab_fiber: a new fiber is none of those there are.                      *)
Created(f) ==
  /\ kind[f] = "none"
  /\ kind' = [kind EXCEPT ![f] = "FIBER"]

(* gab_asend loads the word and chooses the job: bit k of the pinmask      *)
(* stands for job k + 1, provided that job k is alive.                     *)
Pinned(r) == {k + 1 : k \in r.pin \cap (alive \cup {0})}

(* The chosen job starts with the fiber if it is not alive; else the fiber *)
(* goes to the host's own queue or, without limit, to the job's channel.   *)
PutPinned(f, k) ==
  \/ /\ k \notin alive
     /\ hand' = [hand EXCEPT ![Main] = f]
     /\ Goto(Main, "pin")
     /\ UNCHANGED <<queues, chans, alive, dest, timed>>
  \/ /\ k = Main
     /\ waiting' = [waiting EXCEPT ![Main] = Append(@, f)]
     /\ Goto(Main, "back")
     /\ UNCHANGED <<working, chans, alive, hand, dest, timed>>
  \/ /\ k \in alive \ {Main}
     /\ Put(Main, f, k, FALSE)

HostCall ==
  /\ pc[Main] = "host"
  /\ at <= Len(Program)
  /\ LET r == Program[at]
     IN \/ /\ r.call = "run" \/ r.pin = {}
           /\ Created(r.fib)
           /\ Launch(Main, r.fib, r.call = "send")
        \/ /\ r.call = "send" /\ r.pin # {}
           /\ Pinned(r) # {} /\ Least(Pinned(r)) <= Top
           /\ Created(r.fib)
           /\ PutPinned(r.fib, Least(Pinned(r)))
        \/ /\ r.call = "send" /\ r.pin # {}
           /\ Pinned(r) = {} \/ Least(Pinned(r)) > Top
           /\ Goto(Main, "back")
           /\ UNCHANGED <<kind, queues, chans, alive, hand, dest, timed>>
  /\ UNCHANGED <<parked, home, offer, turn, at>>

(* The job that was chosen was not alive: the fiber starts a new one, the  *)
(* first that is free by now, or is dropped when none is.                  *)
HostPin ==
  /\ pc[Main] = "pin"
  /\ \/ /\ Spawn(Main, hand[Main], "back")
        /\ UNCHANGED kind
     \/ /\ Free(Main) = {}
        /\ kind' = [kind EXCEPT ![hand[Main]] = "none"]
        /\ Goto(Main, "back")
        /\ UNCHANGED <<queues, chans, alive, hand, dest, timed>>
  /\ UNCHANGED <<parked, home, offer, turn, at>>

(* gab_fibawait on one fiber after the other: done, go to gab_destroy,     *)
(* which raises TERM; else work.                                           *)
HostAwait ==
  /\ pc[Main] = "host"
  /\ at > Len(Program)
  /\ \/ /\ Told(Main)
        /\ Goto(Main, "bail")
        /\ UNCHANGED turn
     \/ /\ ~Told(Main)
        /\ \E i \in 1..Len(Program) : kind[Program[i].fib] \in {"FIBER", "RUNNING"}
        /\ Goto(Main, "step")
        /\ UNCHANGED turn
     \/ /\ \A i \in 1..Len(Program) : kind[Program[i].fib] \in {"none", "DONE"}
        /\ turn' = IF turn = 0 THEN Main ELSE turn
        /\ Goto(Main, "bail")
  /\ UNCHANGED <<fibers, queues, chans, alive, hand, dest, timed, at>>

-----------------------------------------------------------------------------
(* Jobs: __gab_jbstep.                                                     *)

(* Faulty variant: a job does not look into the global channel.            *)
SourceOwn(p) == p

(* The work channel that a job takes from: its own, else the global one.   *)
Source(p) == IF slot[p] # None THEN p ELSE Global

(* Take a fiber if there is one, move one to the working queue if there is *)
(* room, and start the one in front (__gab_vmexec).  Only the takes touch  *)
(* what other jobs see, and a take decides at one moment.                  *)
Step(p) ==
  /\ pc[p] = "step"
  /\ ~Told(p)
  /\ LET f      == slot[Source(p)]
         queued == IF f = None THEN waiting[p] ELSE Append(waiting[p], f)
         moves  == Len(working[p]) < Cap /\ queued # <<>>
         now    == IF moves THEN Append(working[p], Head(queued)) ELSE working[p]
     IN /\ slot' = [slot EXCEPT ![Source(p)] = None]
        /\ owner' = [owner EXCEPT ![Source(p)] = 0]
        /\ waiting' = [waiting EXCEPT ![p] = IF moves THEN Tail(queued) ELSE queued]
        /\ working' = [working EXCEPT ![p] = now]
        /\ \/ /\ now = <<>>
              /\ Goto(p, Loop(p))
              /\ UNCHANGED <<kind, home>>
           \/ /\ now # <<>>
              /\ kind' = [kind EXCEPT ![Head(now)] = "RUNNING"]
              /\ home' = [home EXCEPT ![Head(now)] = IF @ = 0 THEN p ELSE @]
              /\ Goto(p, "exec")
  /\ UNCHANGED <<parked, offer, alive, turn, hand, dest, timed, at>>

(* The memory of an interrupted put may have been used again: then what is *)
(* taken is no fiber, and the assertion after the take ends the program.   *)
StepJunk(p) ==
  /\ pc[p] = "step"
  /\ ~Told(p)
  /\ slot[Source(p)] # None /\ owner[Source(p)] = 0
  /\ slot' = [slot EXCEPT ![Source(p)] = None]
  /\ Goto(p, "crashed")
  /\ UNCHANGED <<fibers, queues, owner, alive, turn, hand, dest, timed, at>>

StepTold(p) ==
  /\ pc[p] = "step"
  /\ Told(p)
  /\ Goto(p, "bail")
  /\ UNCHANGED <<fibers, queues, chans, alive, turn, hand, dest, timed, at>>

(* __gab_vmok: the fiber in front is done and leaves the queue.            *)
Finish(p) ==
  /\ kind' = [kind EXCEPT ![Front(p)] = "DONE"]
  /\ working' = [working EXCEPT ![p] = Tail(@)]
  /\ Goto(p, Loop(p))

(* Faulty variant: a fiber that yields goes back to the waiting queue.     *)
YieldFar(p) ==
  /\ kind' = [kind EXCEPT ![Front(p)] = "FIBER"]
  /\ working' = [working EXCEPT ![p] = Tail(@)]
  /\ Goto(p, Loop(p))

(* __gab_vmyield: the fiber goes to the back of the same queue.            *)
Yield(p) ==
  /\ kind' = [kind EXCEPT ![Front(p)] = "FIBER"]
  /\ working' = [working EXCEPT ![p] = Append(Tail(@), Front(p))]
  /\ Goto(p, Loop(p))

Doing(p, op) ==
  /\ pc[p] = "exec"
  /\ ~Told(p)
  /\ Work[Front(p)].op = op

ExecRun(p) ==
  /\ Doing(p, "run")
  /\ Finish(p)
  /\ UNCHANGED <<parked, home, offer, waiting, chans, alive, turn, hand, dest, timed, at>>

(* An error: recorded, and raised as TERM if the flags say so.             *)
ExecPanic(p) ==
  /\ Doing(p, "panic")
  /\ Finish(p)
  /\ turn' = IF TermOnErr /\ turn = 0 THEN Least(alive) ELSE turn
  /\ UNCHANGED <<parked, home, offer, waiting, chans, alive, hand, dest, timed, at>>

(* MICRO_OP_PUT: offer once the channel is empty, then yield until taken.  *)
ExecPut(p) ==
  /\ Doing(p, "put")
  /\ LET f == Front(p)
     IN \/ /\ f \notin parked /\ offer = None
           /\ offer' = f
           /\ parked' = parked \cup {f}
           /\ Yield(p)
        \/ /\ IF f \in parked THEN offer = f ELSE offer # None
           /\ Yield(p)
           /\ UNCHANGED <<offer, parked>>
        \/ /\ f \in parked /\ offer # f
           /\ parked' = parked \ {f}
           /\ Finish(p)
           /\ UNCHANGED offer
  /\ UNCHANGED <<home, waiting, chans, alive, turn, hand, dest, timed, at>>

(* MICRO_OP_TAKE                                                           *)
ExecTake(p) ==
  /\ Doing(p, "take")
  /\ \/ /\ offer # None
        /\ offer' = None
        /\ Finish(p)
     \/ /\ offer = None
        /\ Yield(p)
        /\ UNCHANGED offer
  /\ UNCHANGED <<parked, home, waiting, chans, alive, turn, hand, dest, timed, at>>

(* Fibers.await: yields until the other fiber is done.                     *)
ExecAwait(p) ==
  /\ Doing(p, "await")
  /\ IF kind[Work[Front(p)].arg] = "DONE" THEN Finish(p) ELSE Yield(p)
  /\ UNCHANGED <<parked, home, offer, waiting, chans, alive, turn, hand, dest, timed, at>>

(* MICRO_OP_FIBER: a new job, or one try in the global channel.            *)
ExecFork(p) ==
  /\ Doing(p, "fork")
  /\ Created(Work[Front(p)].arg)
  /\ Launch(p, Work[Front(p)].arg, TRUE)
  /\ UNCHANGED <<parked, home, offer, turn, at>>

(* MICRO_OP_USE: the loader runs the module's block (gab_exec).            *)
ExecUse(p) ==
  /\ Doing(p, "use")
  /\ Created(Work[Front(p)].arg)
  /\ Launch(p, Work[Front(p)].arg, FALSE)
  /\ UNCHANGED <<parked, home, offer, turn, at>>

(* Faulty variant: the host goes on whoever called.                        *)
BackAdvances(p) ==
  /\ pc[p] = "back"
  /\ \/ /\ ~IsRunning(p)
        /\ Goto(p, "host")
        /\ UNCHANGED <<kind, working>>
     \/ /\ IsRunning(p) /\ Work[Front(p)].op = "fork"
        /\ Finish(p)
     \/ /\ IsRunning(p) /\ Work[Front(p)].op = "use"
        /\ Goto(p, "join")
        /\ UNCHANGED <<kind, working>>
  /\ at' = at + 1
  /\ UNCHANGED <<parked, home, offer, waiting, chans, alive, turn, hand, dest, timed>>

(* The call that handed the fiber over has returned: to the host, to the   *)
(* end of the forking fiber, or to gab_fibawait in the using fiber, which  *)
(* holds the thread.                                                       *)
Back(p) ==
  /\ pc[p] = "back"
  /\ \/ /\ ~IsRunning(p)
        /\ at' = at + 1
        /\ Goto(p, "host")
        /\ UNCHANGED <<kind, working>>
     \/ /\ IsRunning(p) /\ Work[Front(p)].op = "fork"
        /\ Finish(p)
        /\ UNCHANGED at
     \/ /\ IsRunning(p) /\ Work[Front(p)].op = "use"
        /\ Goto(p, "join")
        /\ UNCHANGED <<kind, working, at>>
  /\ UNCHANGED <<parked, home, offer, waiting, chans, alive, turn, hand, dest, timed>>

Join(p) ==
  /\ pc[p] = "join"
  /\ kind[Work[Front(p)].arg] = "DONE"
  /\ Finish(p)
  /\ UNCHANGED <<parked, home, offer, waiting, chans, alive, turn, hand, dest, timed, at>>

(* CHECK_SIGNAL or gab_fibawait in a fiber that is told to terminate: it   *)
(* is done, and the step fails.                                            *)
ExecTold(p) ==
  /\ pc[p] \in {"exec", "join"}
  /\ Told(p)
  /\ kind' = [kind EXCEPT ![Front(p)] = "DONE"]
  /\ working' = [working EXCEPT ![p] = Tail(@)]
  /\ Goto(p, "bail")
  /\ UNCHANGED <<parked, home, offer, waiting, chans, alive, turn, hand, dest, timed, at>>

Members(s) == {s[i] : i \in 1..Len(s)}

(* Faulty variant: the fibers in the queue are left as they are.           *)
BailAtOnce(p) ==
  /\ pc[p] = "bail"
  /\ Told(p)
  /\ working' = [working EXCEPT ![p] = <<>>]
  /\ alive' = alive \ {p}
  /\ turn' = Least({j \in alive : j > p} \cup {Top + 1})
  /\ Goto(p, "dead")
  /\ UNCHANGED <<fibers, waiting, chans, hand, dest, timed, at>>

(* __gab_jbbail: every fiber of the working queue runs into its TERM (the  *)
(* waiting queue is left alone), then the next job has its turn.           *)
Bail(p) ==
  /\ pc[p] = "bail"
  /\ Told(p)
  /\ kind' = [f \in Fiber |-> IF f \in Members(working[p]) THEN "DONE" ELSE kind[f]]
  /\ home' = [f \in Fiber |-> IF f \in Members(working[p]) /\ home[f] = 0
                              THEN p ELSE home[f]]
  /\ working' = [working EXCEPT ![p] = <<>>]
  /\ alive' = alive \ {p}
  /\ turn' = Least({j \in alive : j > p} \cup {Top + 1})
  /\ Goto(p, "dead")
  /\ UNCHANGED <<parked, offer, waiting, chans, hand, dest, timed, at>>

(* gab_sigterm by the embedder.                                            *)
Terminate ==
  /\ MayTerm
  /\ turn = 0
  /\ turn' = Least(alive)
  /\ UNCHANGED <<fibers, queues, chans, alive, locals>>

Exec(p) ==
  \/ ExecRun(p) \/ ExecPanic(p) \/ ExecPut(p) \/ ExecTake(p)
  \/ ExecAwait(p) \/ ExecFork(p) \/ ExecUse(p) \/ ExecTold(p)

JobStep(p) ==
  \/ Step(p) \/ StepJunk(p) \/ StepTold(p) \/ Exec(p)
  \/ Offer(p) \/ Offered(p) \/ Back(p) \/ Join(p) \/ Bail(p)

HostStep == HostCall \/ HostPin \/ HostAwait

Next ==
  \/ \E p \in Job : JobStep(p)
  \/ HostStep
  \/ Terminate

Spec == Init /\ [][Next]_vars

(* Every thread keeps being scheduled by the operating system.             *)
FairSpec ==
  /\ Spec
  /\ \A p \in Job : WF_vars(JobStep(p))
  /\ WF_vars(HostStep)

-----------------------------------------------------------------------------
TypeOK ==
  /\ kind \in [Fiber -> {"none", "FIBER", "RUNNING", "DONE"}]
  /\ parked \subseteq Fiber
  /\ home \in [Fiber -> 0..Top]
  /\ working \in [Job -> Seq(Fiber)]
  /\ waiting \in [Job -> Seq(Fiber)]
  /\ slot \in [0..Top -> Fiber \cup {None}]
  /\ owner \in [0..Top -> 0..Top]
  /\ alive \subseteq Job
  /\ turn \in 0..(Top + 1)
  /\ offer \in Fiber \cup {None}
  /\ pc \in [Job -> Label]
  /\ hand \in [Job -> Fiber \cup {None}]
  /\ dest \in [Job -> 0..Top]
  /\ timed \in [Job -> BOOLEAN]
  /\ at \in 1..(Len(Program) + 1)

(* The places where f waits to be run: in queues, in a work channel, or in *)
(* the hands of a job that has not stored it yet.                          *)
Queued(queue, f) ==
  Cardinality({x \in UNION {{p} \X DOMAIN queue[p] : p \in Job} :
                 queue[x[1]][x[2]] = f})

Places(f) ==
  Queued(working, f) + Queued(waiting, f)
  + Cardinality({c \in 0..Top : slot[c] = f})
  + Cardinality({p \in Job : pc[p] \in {"pin", "offer"} /\ hand[p] = f})

(* A fiber is neither lost nor queued twice on its way through channels    *)
(* and queues, and one that is done is nowhere (jbstep pops what it ran).  *)
(* Once TERM is raised a fiber may be left in a channel, or both there and *)
(* in a queue that nobody empties; still no two jobs run it.               *)
OnePlace ==
  \A f \in Fiber :
    /\ turn = 0 => Places(f) = IF kind[f] \in {"FIBER", "RUNNING"} THEN 1 ELSE 0
    /\ Queued(working, f) <= 1

(* "Once a fiber has begun running in a job, it may not migrate" (struct   *)
(* gab_job): until it is done it is in the working queue of that job,      *)
(* where the collector looks for its stack.                                *)
RanStaysHome ==
  \A f \in Fiber :
    home[f] # 0 /\ kind[f] # "DONE" => f \in Members(working[home[f]])

(* When TERM has been round, no fiber is left half run: each one that ever *)
(* ran is done, so whoever awaits it can tell (gab_tfibawait).             *)
NoneHalfRun ==
  turn = Top + 1 => \A f \in Fiber : home[f] # 0 => kind[f] = "DONE"

(* Every fiber that was accepted is run to its end, unless TERM is raised: *)
(* neither a queue nor a work channel keeps one for ever.  (A program is   *)
(* finite, so this is said of all fibers at once.)                         *)
EveryFiberFinishes ==
  <>[](turn # 0 \/ \A f \in Fiber : kind[f] \in {"none", "DONE"})

(* Handing a fiber over ends: gab_arun and gab_asend return a handle.      *)
CallReturns ==
  \A p \in Job : pc[p] \in {"offer", "offered"} ~> pc[p] = "back"
=============================================================================
