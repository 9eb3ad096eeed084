--------------------------- MODULE SchedulerProofs ---------------------------
(* Theorems about Scheduler and their proofs.                              *)
EXTENDS Scheduler, TLAPS, SequenceTheorems, FiniteSetTheorems,
        NaturalsInduction, WellFoundedInduction

(* What the constants are: there is a job, a queue has room for one fiber. *)
LEMMA Sizes == Top \in Nat \ {0} /\ Cap \in Nat \ {0} /\ None \notin Fiber
  BY ConstantsAssumption

USE Sizes DEF Job, Main, Global

-----------------------------------------------------------------------------
(* Facts about the operators that the actions are built from.              *)

(* The global work channel is one of the work channels.                    *)
LEMMA ZeroIndex == 0 \in 0..Top
  OBVIOUS

(* What a fiber's task names is a fiber.                                   *)
LEMMA ArgType ==
  ASSUME NEW f \in Fiber, Work[f].op \in {"fork", "use", "await"}
  PROVE  Work[f].arg \in Fiber
  BY ConstantsAssumption DEF Task

(* A set of naturals that is not empty has a least member.                 *)
LEMMA LeastIsLeast ==
  ASSUME NEW S \in SUBSET Nat, S # {}
  PROVE  Least(S) \in S /\ \A j \in S : Least(S) <= j
  <1>1. \E x \in S : \A y \in S : ~ (<<y, x>> \in OpToRel(<, Nat))
    BY WFMin, NatLessThanWellFounded, Zenon
  <1>2. ASSUME NEW x \in Nat, NEW y \in Nat, ~ (<<y, x>> \in OpToRel(<, Nat))
        PROVE  x <= y
    <2>1. <<y, x>> \in Nat \X Nat
      OBVIOUS
    <2>2. ~ (y < x)
      BY <2>1, <1>2, Zenon DEF OpToRel
    <2>3. QED
      BY <2>2
  <1>4. \E x \in S : \A y \in S : x <= y
    BY <1>1, <1>2, Zenon
  <1>3. QED
    BY <1>4 DEF Least

(* No value occurs twice in s.                                             *)
Once(s) == \A i, j \in 1..Len(s) : s[i] = s[j] => i = j

(* An empty queue has no members.                                          *)
LEMMA EmptyQueue == Members(<<>>) = {} /\ Once(<<>>) /\ <<>> \in Seq(Fiber)
  BY DEF Members, Once

(* A queue with e at its end has one member more, or e was there before.   *)
LEMMA AppendQueue ==
  ASSUME NEW s \in Seq(Fiber), NEW e \in Fiber
  PROVE  /\ Append(s, e) \in Seq(Fiber)
         /\ Append(s, e) # <<>>
         /\ Len(Append(s, e)) = Len(s) + 1
         /\ Members(Append(s, e)) = Members(s) \cup {e}
         /\ Once(s) /\ e \notin Members(s) => Once(Append(s, e))
         /\ Head(Append(s, e)) = IF s = <<>> THEN e ELSE Head(s)
  <1>1. /\ Append(s, e) \in Seq(Fiber)
        /\ Append(s, e) # <<>>
        /\ Len(Append(s, e)) = Len(s) + 1
        /\ \A i \in 1..Len(s) : Append(s, e)[i] = s[i]
        /\ Append(s, e)[Len(s) + 1] = e
    BY AppendProperties
  <1>2. Len(s) \in Nat
    OBVIOUS
  <1>3. Members(Append(s, e)) = Members(s) \cup {e}
    BY <1>1, <1>2 DEF Members
  <1>4. Once(s) /\ e \notin Members(s) => Once(Append(s, e))
    BY <1>1, <1>2 DEF Members, Once
  <1>5. Head(Append(s, e)) = IF s = <<>> THEN e ELSE Head(s)
    BY HeadTailAppend
  <1>6. QED
    BY <1>1, <1>3, <1>4, <1>5

(* A queue is its head and its tail; if nothing occurs twice, the head is  *)
(* not in the tail.                                                        *)
LEMMA TailQueue ==
  ASSUME NEW s \in Seq(Fiber), s # <<>>
  PROVE  /\ Head(s) \in Fiber
         /\ Tail(s) \in Seq(Fiber)
         /\ Members(s) = {Head(s)} \cup Members(Tail(s))
         /\ Once(s) => Once(Tail(s)) /\ Head(s) \notin Members(Tail(s))
  <1>1. /\ Head(s) \in Fiber
        /\ Tail(s) \in Seq(Fiber)
        /\ Len(Tail(s)) = Len(s) - 1
        /\ \A i \in 1..Len(Tail(s)) : Tail(s)[i] = s[i + 1]
    BY HeadTailProperties
  <1>2. Len(s) \in Nat /\ Len(s) # 0 /\ Head(s) = s[1]
    BY EmptySeq
  <1>3. ASSUME NEW i \in 2..Len(s)
        PROVE  i - 1 \in 1..Len(Tail(s)) /\ s[i] = Tail(s)[i - 1]
    <2>1. i - 1 \in 1..Len(Tail(s))
      BY <1>1, <1>2
    <2>2. s[(i - 1) + 1] = s[i]
      OBVIOUS
    <2>3. QED
      BY <1>1, <2>1, <2>2
  <1>4. Members(s) = {Head(s)} \cup Members(Tail(s))
    <2>1. Members(s) \subseteq {Head(s)} \cup Members(Tail(s))
      <3>1. SUFFICES ASSUME NEW i \in 1..Len(s), i # 1
                     PROVE  s[i] \in Members(Tail(s))
        BY <1>2 DEF Members
      <3>2. i \in 2..Len(s)
        BY <3>1, <1>2
      <3>3. QED
        BY <3>2, <1>3 DEF Members
    <2>2. Members(Tail(s)) \subseteq Members(s)
      BY <1>1, <1>2 DEF Members
    <2>3. QED
      BY <2>1, <2>2, <1>2 DEF Members
  <1>5. ASSUME Once(s)
        PROVE  Once(Tail(s)) /\ Head(s) \notin Members(Tail(s))
    BY <1>1, <1>2, <1>5 DEF Once, Members
  <1>6. QED
    BY <1>1, <1>4, <1>5

(* What is in front of a queue is in the queue.                            *)
LEMMA HeadMember ==
  ASSUME NEW s \in Seq(Fiber), s # <<>>
  PROVE  Head(s) \in Members(s) /\ Head(s) \in Fiber
  BY TailQueue

-----------------------------------------------------------------------------
(* The inductive invariant.                                                *)

(* TERM has not reached p: what is in its waiting queue will be run.       *)
Live(p) == turn < p

(* Where a fiber can be.                                                   *)
Spot == {"working", "waiting", "slot", "hand"}

(* Fiber f is at spot k of job or channel p, where a job may yet run it.   *)
Holds(k, p, f) ==
  \/ k = "working" /\ p \in Job /\ f \in Members(working[p])
  \/ k = "waiting" /\ p \in Job /\ Live(p) /\ f \in Members(waiting[p])
  \/ k = "slot" /\ slot[p] = f
  \/ k = "hand" /\ p \in Job /\ pc[p] \in {"pin", "offer"} /\ hand[p] = f

(* A fiber is in one place at most.                                        *)
AtMostOne ==
  \A f \in Fiber, k, l \in Spot, p, q \in 0..Top :
    Holds(k, p, f) /\ Holds(l, q, f) => k = l /\ p = q

(* No queue holds a fiber twice.                                           *)
QueuesOnce ==
  \A p \in Job : Once(working[p]) /\ (Live(p) => Once(waiting[p]))

(* A job has a thread while it is alive, and TERM goes round upwards.      *)
Threads ==
  /\ \A p \in Job : p \in alive <=> pc[p] \notin {"none", "dead"}
  /\ turn # 0 => \A p \in alive : turn <= p
  /\ turn = 0 => Main \in alive
  /\ \A p \in Job \ alive : working[p] = <<>>

(* Only the host is at its own labels; a job that hands a fiber over has   *)
(* one, and one that executes has a running fiber in front; a put is made  *)
(* by a running fiber, or by the host in the middle of a call.             *)
Labels ==
  \A p \in Job :
    /\ pc[p] \in {"host", "pin"} => p = Main
    /\ pc[p] \in {"pin", "offer", "offered"} => hand[p] \in Fiber
    /\ pc[p] \in {"exec", "join"} => IsRunning(p)
    /\ pc[p] \in {"back", "offer", "offered", "pin"} /\ ~IsRunning(p)
         => p = Main /\ at <= Len(Program)

(* Where the code expects a fiber that can run it finds one, and one that  *)
(* ran before only in the working queue of its job.                        *)
Kinds ==
  \A f \in Fiber :
    /\ kind[f] = "none" => home[f] = 0
    /\ \A k \in Spot, p \in 0..Top :
         Holds(k, p, f) =>
           /\ kind[f] \in {"FIBER", "RUNNING"}
           /\ home[f] \in IF k = "working" THEN {0, p} ELSE {0}

(* Before TERM no fiber that can run is missing ...                        *)
NoneMissing ==
  turn = 0 =>
    \A f \in Fiber : kind[f] \in {"FIBER", "RUNNING"}
                      => \E k \in Spot, p \in 0..Top : Holds(k, p, f)

(* ... and no job that could start, or put that is left, would lose one.   *)
Kept ==
  turn = 0 =>
    /\ \A p \in Job \ alive : waiting[p] = <<>> /\ slot[p] = None
    /\ \A p \in Job : pc[p] \in {"offer", "offered"} => dest[p] \in alive \cup {Global}
    /\ \A c \in 0..Top : slot[c] # None => owner[c] # 0

(* All of it: what TypeOK, OnePlace, RanStaysHome and NoneHalfRun need to  *)
(* be kept by every action.                                                *)
IInv ==
  /\ TypeOK /\ AtMostOne /\ QueuesOnce /\ Threads /\ Labels
  /\ Kinds /\ RanStaysHome /\ NoneMissing /\ Kept

(* A step may raise TERM, which begins with the lowest job.                *)
TurnStep ==
  \/ turn' = turn
  \/ /\ turn = 0
     /\ turn' \in Job \cap alive
     /\ \A j \in Job : j \in alive => turn' <= j

(* TERM, once raised, stays raised, and cuts queues off, never back in.    *)
LEMMA TurnFacts ==
  ASSUME TypeOK, TurnStep
  PROVE  /\ turn' \in 0..(Top + 1)
         /\ turn' = 0 => turn = 0
         /\ \A p \in Job : Live(p)' => Live(p)
         /\ \A p \in Job : turn' = 0 => Live(p)' /\ Live(p)
         /\ Threads => (turn' # 0 => \A p \in alive : turn' <= p)
  <1>0. turn \in 0..(Top + 1) /\ alive \subseteq 1..Top
    BY DEF TypeOK
  <1>1. turn' \in 0..(Top + 1)
    BY <1>0 DEF TurnStep
  <1>2. turn' = 0 => turn = 0
    BY <1>0 DEF TurnStep
  <1>3. ASSUME NEW p \in Job PROVE (Live(p)' => Live(p)) /\ (turn' = 0 => Live(p)' /\ Live(p))
    BY <1>0, <1>1, <1>2 DEF TurnStep, Live
  <1>4. ASSUME Threads, turn' # 0, NEW p \in alive PROVE turn' <= p
    BY <1>0, <1>4 DEF TurnStep, Threads
  <1>5. QED
    BY <1>1, <1>2, <1>3, <1>4

(* At first there is no fiber anywhere.                                    *)
LEMMA InitInv == Init => IInv
  <1> SUFFICES ASSUME Init PROVE IInv
    OBVIOUS
  <1>1. TypeOK
    <2>1. \A p \in Job : working[p] \in Seq(Fiber) /\ waiting[p] \in Seq(Fiber)
      BY EmptyQueue DEF Init
    <2>2. QED
      BY <2>1 DEF Init, TypeOK, Label
  <1>2. \A f \in Fiber, k \in Spot, p \in 0..Top : ~Holds(k, p, f)
    BY EmptyQueue DEF Init, Holds
  <1>3. AtMostOne /\ Kinds
    BY <1>2 DEF AtMostOne, Kinds, Init
  <1>4. QueuesOnce
    BY EmptyQueue DEF QueuesOnce, Init
  <1>5. Threads /\ Labels
    BY DEF Threads, Labels, Init
  <1>6. RanStaysHome /\ NoneMissing /\ Kept
    BY DEF RanStaysHome, NoneMissing, Kept, Init
  <1>7. QED
    BY <1>1, <1>3, <1>4, <1>5, <1>6 DEF IInv

(* A fiber that ran has a home.                                            *)
LEMMA HomeJob ==
  ASSUME TypeOK, NEW f \in Fiber, home[f] # 0
  PROVE  home[f] \in Job
  <1>1. home \in [Fiber -> 0..Top]
    BY DEF TypeOK
  <1>2. home[f] \in 0..Top
    BY <1>1
  <1>3. QED
    BY <1>2

(* A job whose queue does not change runs what it ran.                     *)
LEMMA SameFront ==
  ASSUME TypeOK, NEW q \in Job, working'[q] = working[q],
         \A f \in Members(working[q]) : kind'[f] = "RUNNING" <=> kind[f] = "RUNNING"
  PROVE  IsRunning(q)' <=> IsRunning(q)
  <1>1. CASE working[q] = <<>>
    BY <1>1 DEF IsRunning
  <1>2. CASE working[q] # <<>>
    <2>1. working \in [Job -> Seq(Fiber)]
      BY DEF TypeOK
    <2>2. working[q] \in Seq(Fiber)
      BY <2>1
    <2>3. Front(q) \in Members(working[q])
      BY <1>2, <2>2, HeadMember DEF Front
    <2>4. QED
      BY <1>2, <2>3 DEF IsRunning, Front
  <1>3. QED
    BY <1>1, <1>2

(* The front of a running job: it is at home, and nowhere else.            *)
LEMMA FrontFacts ==
  ASSUME IInv, NEW p \in Job, IsRunning(p)
  PROVE  /\ Front(p) \in Fiber
         /\ Holds("working", p, Front(p))
         /\ Tail(working[p]) \in Seq(Fiber)
         /\ Members(working[p]) = {Front(p)} \cup Members(Tail(working[p]))
         /\ Front(p) \notin Members(Tail(working[p]))
         /\ Once(Tail(working[p]))
         /\ \A q \in Job \ {p} : Front(p) \notin Members(working[q])
         /\ \A q \in Job : IsRunning(q) /\ q # p => Front(q) # Front(p)
  <1> USE DEF IInv, TypeOK
  <1>1. working[p] \in Seq(Fiber) /\ working[p] # <<>>
    BY DEF IsRunning
  <1>2. /\ Front(p) \in Fiber
        /\ Tail(working[p]) \in Seq(Fiber)
        /\ Members(working[p]) = {Front(p)} \cup Members(Tail(working[p]))
        /\ Front(p) \notin Members(Tail(working[p]))
        /\ Once(Tail(working[p]))
    BY <1>1, TailQueue DEF Front, QueuesOnce
  <1>3. Holds("working", p, Front(p))
    BY <1>2 DEF Holds
  <1>4. ASSUME NEW q \in Job \ {p} PROVE Front(p) \notin Members(working[q])
    BY <1>2, <1>3 DEF Holds, AtMostOne, Spot
  <1>5. ASSUME NEW q \in Job, IsRunning(q), q # p PROVE Front(q) # Front(p)
    BY <1>4, <1>5, HeadMember DEF IsRunning, Front
  <1>6. QED
    BY <1>1, <1>2, <1>3, <1>4, <1>5

(* What becomes of the front of p is nothing to the other jobs.            *)
LEMMA OthersRun ==
  ASSUME IInv, NEW p \in Job, IsRunning(p),
         \A q \in Job \ {p} : working'[q] = working[q],
         \A f \in Fiber \ {Front(p)} : kind'[f] = kind[f]
  PROVE  \A q \in Job \ {p} : IsRunning(q)' <=> IsRunning(q)
  <1> SUFFICES ASSUME NEW q \in Job \ {p} PROVE IsRunning(q)' <=> IsRunning(q)
    OBVIOUS
  <1>1. TypeOK
    BY DEF IInv
  <1>2. working \in [Job -> Seq(Fiber)]
    BY <1>1 DEF TypeOK
  <1>3. Front(p) \notin Members(working[q])
    BY FrontFacts
  <1>4. ASSUME NEW f \in Members(working[q]) PROVE kind'[f] = kind[f]
    <2>1. working[q] \in Seq(Fiber)
      BY <1>2
    <2>2. f \in Fiber /\ f # Front(p)
      BY <1>3, <2>1 DEF Members
    <2>3. QED
      BY <2>2
  <1>5. QED
    BY <1>1, <1>4, SameFront

(* The running fiber leaves its queue when it is done.                     *)
LEMMA DropFront ==
  ASSUME IInv, NEW p \in Job, IsRunning(p), pc[p] \in {"exec", "join", "back"},
         NEW l \in {"host", "step", "bail"}, l = "host" => p = Main,
         kind' = [kind EXCEPT ![Front(p)] = "DONE"],
         working' = [working EXCEPT ![p] = Tail(@)],
         Goto(p, l), TurnStep,
         parked' \subseteq Fiber, offer' \in Fiber \cup {None},
         UNCHANGED <<home, waiting, slot, owner, alive, hand, dest, timed, at>>
  PROVE  IInv'
  <1> USE DEF IInv, Goto
  <1>0. TypeOK
    OBVIOUS
  <1>w. /\ Members(working'[p]) = Members(working[p]) \ {Front(p)}
        /\ Once(working'[p])
        /\ \A q \in Job \ {p} : working'[q] = working[q]
    <2>1. working'[p] = Tail(working[p]) /\ \A q \in Job \ {p} : working'[q] = working[q]
      BY DEF TypeOK
    <2>2. QED
      BY <2>1, FrontFacts
  <1>k. /\ kind' \in [Fiber -> {"none", "FIBER", "RUNNING", "DONE"}]
        /\ kind'[Front(p)] = "DONE"
        /\ \A f \in Fiber \ {Front(p)} : kind'[f] = kind[f]
    <2>1. kind \in [Fiber -> {"none", "FIBER", "RUNNING", "DONE"}]
      BY DEF TypeOK
    <2>2. Front(p) \in Fiber
      BY FrontFacts
    <2>3. QED
      BY <2>1, <2>2
  <1>t. TypeOK'
    <2>1. kind' \in [Fiber -> {"none", "FIBER", "RUNNING", "DONE"}]
      BY <1>k
    <2>2. working' \in [Job -> Seq(Fiber)] /\ pc' \in [Job -> Label]
      BY FrontFacts DEF TypeOK, Label
    <2>3. QED
      BY <2>1, <2>2, TurnFacts DEF TypeOK
  <1>h. \A k \in Spot, q \in 0..Top, f \in Fiber :
          Holds(k, q, f)' => Holds(k, q, f) /\ f # Front(p)
    <2> SUFFICES ASSUME NEW k \in Spot, NEW q \in 0..Top, NEW f \in Fiber, Holds(k, q, f)'
                 PROVE  Holds(k, q, f) /\ f # Front(p)
      OBVIOUS
    <2>1. Holds(k, q, f)
      <3>1. CASE k = "working"
        BY <1>w, <3>1 DEF Holds
      <3>2. CASE k = "waiting"
        BY <3>2, TurnFacts DEF Holds
      <3>3. CASE k \in {"slot", "hand"}
        BY <3>3 DEF Holds, TypeOK
      <3>4. QED
        BY <3>1, <3>2, <3>3 DEF Spot
    <2>2. ~(k = "working" /\ q = p /\ f = Front(p))
      BY <1>w DEF Holds
    <2>3. /\ Front(p) \in Fiber /\ p \in 0..Top /\ "working" \in Spot
          /\ Holds("working", p, Front(p))
      BY FrontFacts DEF Spot
    <2>4. QED
      BY <2>1, <2>2, <2>3 DEF AtMostOne
  <1>1. AtMostOne'
    BY <1>h DEF AtMostOne
  <1>2. QueuesOnce'
    BY <1>w, TurnFacts DEF QueuesOnce
  <1>3. Threads'
    <2>1. working[p] # <<>> /\ working' = [working EXCEPT ![p] = Tail(@)]
      BY DEF IsRunning
    <2>2. \A q \in Job : q \in alive <=> pc'[q] \notin {"none", "dead"}
      BY DEF Threads, TypeOK
    <2>3. \A q \in Job \ alive : working'[q] = <<>>
      BY <1>w, <2>1 DEF Threads
    <2>4. QED
      BY <2>2, <2>3, TurnFacts DEF Threads
  <1>4. Labels'
    <2>1. \A q \in Job \ {p} : IsRunning(q)' <=> IsRunning(q)
      <3> HIDE DEF IInv
      <3>1. QED
        BY <1>w, <1>k, OthersRun
    <2>2. QED
      BY <2>1 DEF Labels, TypeOK
  <1>5. Kinds'
    <2>1. \A f \in Fiber : kind'[f] = "none" => home'[f] = 0
      BY <1>k DEF Kinds
    <2>2. ASSUME NEW f \in Fiber, NEW k \in Spot, NEW q \in 0..Top, Holds(k, q, f)'
          PROVE  /\ kind'[f] \in {"FIBER", "RUNNING"}
                 /\ home'[f] \in IF k = "working" THEN {0, q} ELSE {0}
      <3>1. Holds(k, q, f) /\ kind'[f] = kind[f]
        BY <1>h, <1>k, <2>2
      <3>2. QED
        BY <3>1 DEF Kinds
    <2>3. QED
      BY <2>1, <2>2 DEF Kinds
  <1>6. RanStaysHome'
    <2> SUFFICES ASSUME NEW f \in Fiber, home[f] # 0, kind'[f] # "DONE"
                 PROVE  f \in Members(working'[home[f]])
      BY DEF RanStaysHome
    <2>1. f # Front(p) /\ kind'[f] = kind[f] /\ home[f] \in Job
      BY <1>0, <1>k, HomeJob
    <2>2. f \in Members(working[home[f]])
      BY <2>1 DEF RanStaysHome
    <2>3. QED
      BY <1>w, <2>1, <2>2
  <1>7. NoneMissing'
    <2>1. ASSUME NEW k \in Spot, NEW q \in 0..Top, NEW f \in Fiber \ {Front(p)},
                 turn' = 0, Holds(k, q, f)
          PROVE  Holds(k, q, f)'
      <3>1. CASE k = "working"
        BY <1>w, <2>1, <3>1 DEF Holds
      <3>2. CASE k = "waiting"
        BY <2>1, <3>2, TurnFacts DEF Holds
      <3>3. CASE k \in {"slot", "hand"}
        BY <2>1, <3>3 DEF Holds, TypeOK
      <3>4. QED
        BY <3>1, <3>2, <3>3 DEF Spot
    <2>2. ASSUME NEW f \in Fiber, turn' = 0, kind'[f] \in {"FIBER", "RUNNING"}
          PROVE  \E k \in Spot, q \in 0..Top : Holds(k, q, f)'
      <3>1. f # Front(p) /\ kind'[f] = kind[f] /\ turn = 0
        BY <1>0, <1>k, <2>2, TurnFacts
      <3>2. PICK k \in Spot, q \in 0..Top : Holds(k, q, f)
        BY <2>2, <3>1 DEF NoneMissing
      <3>3. QED
        BY <2>1, <2>2, <3>1, <3>2
    <2>3. QED
      BY <2>2 DEF NoneMissing
  <1>8. Kept'
    BY TurnFacts DEF Kept, TypeOK
  <1>9. QED
    BY <1>t, <1>1, <1>2, <1>3, <1>4, <1>5, <1>6, <1>7, <1>8

(* Every fiber stays where it is, but for what TERM leaves behind.         *)
Unmoved ==
  /\ home' = home
  /\ \A f \in Fiber : \/ kind'[f] = kind[f]
                      \/ {kind[f], kind'[f]} \subseteq {"FIBER", "RUNNING"}
  /\ \A k \in Spot, q \in 0..Top, f \in Fiber : Holds(k, q, f)' => Holds(k, q, f)
  /\ turn' = 0 => /\ turn = 0
                  /\ \A k \in Spot, q \in 0..Top, f \in Fiber :
                       Holds(k, q, f) => Holds(k, q, f)'

(* A step that moves no fiber keeps what is said of spots.                 *)
LEMMA SameSpots ==
  ASSUME IInv, Unmoved
  PROVE  AtMostOne' /\ Kinds' /\ NoneMissing'
  <1> USE DEF IInv, Unmoved
  <1>1. AtMostOne'
    BY DEF AtMostOne
  <1>2. Kinds'
    BY DEF Kinds
  <1>3. ASSUME turn' = 0, NEW f \in Fiber, kind'[f] \in {"FIBER", "RUNNING"}
        PROVE  \E k \in Spot, q \in 0..Top : Holds(k, q, f)'
    <2>1. kind[f] \in {"FIBER", "RUNNING"} /\ turn = 0
      BY <1>3
    <2>2. PICK k \in Spot, q \in 0..Top : Holds(k, q, f)
      BY <2>1 DEF NoneMissing
    <2>3. QED
      BY <1>3, <2>2
  <1>4. QED
    BY <1>1, <1>2, <1>3 DEF NoneMissing

(* The running fiber goes to the back of its queue.                        *)
LEMMA RotateFront ==
  ASSUME IInv, NEW p \in Job, IsRunning(p), pc[p] = "exec",
         NEW l \in {"host", "step"}, l = "host" => p = Main,
         kind' = [kind EXCEPT ![Front(p)] = "FIBER"],
         working' = [working EXCEPT ![p] = Append(Tail(@), Front(p))],
         Goto(p, l), turn' = turn,
         parked' \subseteq Fiber, offer' \in Fiber \cup {None},
         UNCHANGED <<home, waiting, slot, owner, alive, hand, dest, timed, at>>
  PROVE  IInv'
  <1> USE DEF IInv, Goto
  <1>0. TypeOK
    OBVIOUS
  <1>w. /\ working'[p] \in Seq(Fiber)
        /\ Members(working'[p]) = Members(working[p])
        /\ Once(working'[p])
        /\ \A q \in Job \ {p} : working'[q] = working[q]
    <2>1. /\ working'[p] = Append(Tail(working[p]), Front(p))
          /\ \A q \in Job \ {p} : working'[q] = working[q]
      BY DEF TypeOK
    <2>2. /\ Tail(working[p]) \in Seq(Fiber) /\ Front(p) \in Fiber
          /\ Members(working[p]) = {Front(p)} \cup Members(Tail(working[p]))
          /\ Front(p) \notin Members(Tail(working[p]))
          /\ Once(Tail(working[p]))
      BY FrontFacts
    <2> DEFINE t == Append(Tail(working[p]), Front(p))
    <2>3. t \in Seq(Fiber) /\ Once(t)
          /\ Members(t) = Members(Tail(working[p])) \cup {Front(p)}
      <3> HIDE DEF IInv
      <3>1. QED
        BY <2>2, AppendQueue
    <2>4. QED
      BY <2>1, <2>2, <2>3
  <1>k. /\ kind[Front(p)] = "RUNNING" /\ kind'[Front(p)] = "FIBER"
        /\ \A f \in Fiber \ {Front(p)} : kind'[f] = kind[f]
    <2>1. kind \in [Fiber -> {"none", "FIBER", "RUNNING", "DONE"}]
      BY DEF TypeOK
    <2>2. Front(p) \in Fiber /\ kind[Front(p)] = "RUNNING"
      BY FrontFacts DEF IsRunning, Front
    <2>3. QED
      BY <2>1, <2>2
  <1>t. TypeOK'
    <2>1. kind' \in [Fiber -> {"none", "FIBER", "RUNNING", "DONE"}]
      BY FrontFacts DEF TypeOK
    <2>2. working' \in [Job -> Seq(Fiber)] /\ pc' \in [Job -> Label]
      BY <1>w DEF TypeOK, Label
    <2>3. QED
      BY <2>1, <2>2 DEF TypeOK
  <1>h. \A k \in Spot, q \in 0..Top, f \in Fiber : Holds(k, q, f)' <=> Holds(k, q, f)
    <2> SUFFICES ASSUME NEW k \in Spot, NEW q \in 0..Top, NEW f \in Fiber
                 PROVE  Holds(k, q, f)' <=> Holds(k, q, f)
      OBVIOUS
    <2>1. CASE k = "working"
      BY <1>w, <2>1 DEF Holds
    <2>2. CASE k = "waiting"
      BY <2>2 DEF Holds, Live
    <2>3. CASE k \in {"slot", "hand"}
      BY <2>3 DEF Holds, TypeOK
    <2>4. QED
      BY <2>1, <2>2, <2>3 DEF Spot
  <1>1. /\ AtMostOne'
        /\ Kinds'
        /\ NoneMissing'
    <2>1. \A f \in Fiber : \/ kind'[f] = kind[f]
                           \/ {kind[f], kind'[f]} \subseteq {"FIBER", "RUNNING"}
      BY <1>k
    <2>2. Unmoved
      BY <1>h, <2>1 DEF Unmoved
    <2>3. QED
      BY <2>2, SameSpots
  <1>2. QueuesOnce'
    BY <1>w DEF QueuesOnce, Live
  <1>3. Threads'
    <2>1. working[p] # <<>>
      BY DEF IsRunning
    <2>2. \A q \in Job : q \in alive <=> pc'[q] \notin {"none", "dead"}
      BY DEF Threads, TypeOK
    <2>3. \A q \in Job \ alive : working'[q] = <<>>
      BY <1>w, <2>1 DEF Threads
    <2>4. QED
      BY <2>2, <2>3 DEF Threads
  <1>4. Labels'
    <2>1. \A q \in Job \ {p} : IsRunning(q)' <=> IsRunning(q)
      <3> HIDE DEF IInv
      <3>1. QED
        BY <1>w, <1>k, OthersRun
    <2>2. QED
      BY <2>1 DEF Labels, TypeOK
  <1>5. RanStaysHome'
    <2> SUFFICES ASSUME NEW f \in Fiber, home[f] # 0, kind'[f] # "DONE"
                 PROVE  f \in Members(working'[home[f]])
      BY DEF RanStaysHome
    <2>1. kind[f] # "DONE"
      BY <1>k
    <2>0. home[f] \in Job
      BY <1>0, HomeJob
    <2>2. f \in Members(working[home[f]])
      BY <2>1 DEF RanStaysHome
    <2>3. QED
      BY <1>w, <2>0, <2>2
  <1>6. Kept'
    BY DEF Kept, TypeOK
  <1>7. QED
    BY <1>t, <1>1, <1>2, <1>3, <1>4, <1>5, <1>6

(* A job goes on, and no fiber moves.                                      *)
LEMMA JustGoto ==
  ASSUME IInv, NEW p \in Job, pc[p] \notin {"none", "dead", "pin", "offer"},
         NEW l \in {"host", "step", "bail", "back", "join"},
         l = "host" => p = Main,
         l = "back" => pc[p] = "offered" \/ (p = Main /\ at <= Len(Program)),
         l = "join" => IsRunning(p),
         Goto(p, l), TurnStep,
         at' = at \/ (l = "host" /\ at' = at + 1 /\ at <= Len(Program)),
         UNCHANGED <<kind, parked, home, working, waiting, slot, owner, alive,
                     offer, hand, dest, timed>>
  PROVE  IInv'
  <1> USE DEF IInv, Goto
  <1>0. TypeOK
    OBVIOUS
  <1>t. TypeOK'
    <2>1. pc' \in [Job -> Label]
      BY DEF TypeOK, Label
    <2>2. at' \in 1..(Len(Program) + 1)
      <3>1. Len(Program) \in Nat
        BY ConstantsAssumption
      <3>2. at \in 1..(Len(Program) + 1)
        BY DEF TypeOK
      <3>3. QED
        BY <3>1, <3>2
    <2>3. QED
      BY <2>1, <2>2, TurnFacts DEF TypeOK
  <1>h. ASSUME NEW k \in Spot, NEW q \in 0..Top, NEW f \in Fiber
        PROVE  /\ Holds(k, q, f)' => Holds(k, q, f)
               /\ turn' = 0 => (Holds(k, q, f) => Holds(k, q, f)')
    <2>1. CASE k = "working"
      BY <2>1 DEF Holds
    <2>2. CASE k = "waiting"
      BY <2>2, TurnFacts DEF Holds
    <2>3. CASE k = "slot"
      BY <2>3 DEF Holds
    <2>4. CASE k = "hand"
      BY <2>4 DEF Holds, TypeOK
    <2>5. QED
      BY <2>1, <2>2, <2>3, <2>4 DEF Spot
  <1>1. /\ AtMostOne'
        /\ Kinds'
        /\ NoneMissing'
    <2>1. Unmoved
      BY <1>h, TurnFacts DEF Unmoved
    <2>2. QED
      BY <2>1, SameSpots
  <1>2. QueuesOnce'
    BY TurnFacts DEF QueuesOnce
  <1>3. Threads'
    <2>1. \A q \in Job : q \in alive <=> pc'[q] \notin {"none", "dead"}
      BY DEF Threads, TypeOK
    <2>2. QED
      BY <2>1, TurnFacts DEF Threads
  <1>4. Labels'
    <2>1. \A q \in Job : IsRunning(q)' <=> IsRunning(q)
      BY DEF IsRunning, Front
    <2>2. \A q \in Job \ {p} : pc'[q] = pc[q]
      BY DEF TypeOK
    <2>3. pc'[p] = l
      BY DEF TypeOK
    <2>4. at' # at => \A q \in Job : q # p => q # Main
      BY DEF TypeOK
    <2>5. QED
      BY <2>1, <2>2, <2>3, <2>4 DEF Labels
  <1>5. RanStaysHome'
    BY DEF RanStaysHome
  <1>6. Kept'
    BY TurnFacts DEF Kept, TypeOK
  <1>7. QED
    BY <1>t, <1>1, <1>2, <1>3, <1>4, <1>5, <1>6

(* When one fiber goes to one spot, and the others stay.                   *)
Moved(g, K, P) ==
  /\ \A f \in Fiber \ {g} : kind'[f] = kind[f] /\ home'[f] = home[f]
  /\ kind'[g] \in {"FIBER", "RUNNING"} /\ home'[g] = 0
  /\ \A k \in Spot, q \in 0..Top, f \in Fiber :
       Holds(k, q, f)' => IF f = g THEN k = K /\ q = P ELSE Holds(k, q, f)
  /\ turn' = 0 => /\ turn = 0
                  /\ Holds(K, P, g)'
                  /\ \A k \in Spot, q \in 0..Top, f \in Fiber \ {g} :
                       Holds(k, q, f) => Holds(k, q, f)'

(* A step that moves one fiber to a spot keeps what is said of spots.      *)
LEMMA MovedSpot ==
  ASSUME IInv, NEW g \in Fiber, NEW K \in Spot, NEW P \in 0..Top, Moved(g, K, P)
  PROVE  AtMostOne' /\ Kinds' /\ NoneMissing'
  <1> USE DEF IInv, Moved
  <1>1. AtMostOne'
    <2> SUFFICES ASSUME NEW f \in Fiber, NEW k \in Spot, NEW l \in Spot,
                        NEW p \in 0..Top, NEW q \in 0..Top,
                        Holds(k, p, f)', Holds(l, q, f)'
                 PROVE  k = l /\ p = q
      BY DEF AtMostOne
    <2>1. CASE f = g
      BY <2>1
    <2>2. CASE f # g
      <3>1. Holds(k, p, f) /\ Holds(l, q, f)
        BY <2>2
      <3>2. QED
        BY <3>1 DEF AtMostOne
    <2>3. QED
      BY <2>1, <2>2
  <1>2. Kinds'
    <2>1. \A f \in Fiber : kind'[f] = "none" => home'[f] = 0
      BY DEF Kinds
    <2>2. ASSUME NEW f \in Fiber, NEW k \in Spot, NEW q \in 0..Top, Holds(k, q, f)'
          PROVE  /\ kind'[f] \in {"FIBER", "RUNNING"}
                 /\ home'[f] \in IF k = "working" THEN {0, q} ELSE {0}
      <3>1. CASE f = g
        BY <3>1
      <3>2. CASE f # g
        <4>1. Holds(k, q, f) /\ kind'[f] = kind[f] /\ home'[f] = home[f]
          BY <2>2, <3>2
        <4>2. QED
          BY <4>1 DEF Kinds
      <3>3. QED
        BY <3>1, <3>2
    <2>3. QED
      BY <2>1, <2>2 DEF Kinds
  <1>3. ASSUME turn' = 0, NEW f \in Fiber, kind'[f] \in {"FIBER", "RUNNING"}
        PROVE  \E k \in Spot, q \in 0..Top : Holds(k, q, f)'
    <2>1. CASE f = g
      BY <1>3, <2>1
    <2>2. CASE f # g
      <3>1. kind[f] \in {"FIBER", "RUNNING"} /\ turn = 0
        BY <1>3, <2>2
      <3>2. PICK k \in Spot, q \in 0..Top : Holds(k, q, f)
        BY <3>1 DEF NoneMissing
      <3>3. QED
        BY <1>3, <2>2, <3>2
    <2>3. QED
      BY <2>1, <2>2
  <1>4. QED
    BY <1>1, <1>2, <1>3 DEF NoneMissing

(* A put that begins has its fiber in the channel that was empty.          *)
LEMMA OfferStores ==
  ASSUME IInv, NEW p \in Job, pc[p] = "offer", slot[dest[p]] = None,
         slot' = [slot EXCEPT ![dest[p]] = hand[p]],
         owner' = [owner EXCEPT ![dest[p]] = p],
         Goto(p, "offered"),
         UNCHANGED <<fibers, queues, alive, turn, hand, dest, timed, at>>
  PROVE  IInv'
  <1> USE DEF IInv, Goto, fibers, queues
  <1>0. /\ TypeOK
        /\ hand[p] \in Fiber /\ dest[p] \in 0..Top
        /\ Holds("hand", p, hand[p])
    BY DEF Labels, TypeOK, Holds
  <1>s. /\ slot \in [0..Top -> Fiber \cup {None}] /\ owner \in [0..Top -> 0..Top]
        /\ p \in 0..Top
        /\ slot'[dest[p]] = hand[p] /\ owner'[dest[p]] = p
        /\ \A c \in 0..Top \ {dest[p]} : slot'[c] = slot[c] /\ owner'[c] = owner[c]
    <2>1. slot \in [0..Top -> Fiber \cup {None}] /\ owner \in [0..Top -> 0..Top]
      BY DEF TypeOK
    <2>2. QED
      BY <1>0, <2>1
  <1>t. TypeOK'
    <2>1. pc' \in [Job -> Label]
      BY DEF TypeOK, Label
    <2>2. slot' \in [0..Top -> Fiber \cup {None}] /\ owner' \in [0..Top -> 0..Top]
      BY <1>0, <1>s
    <2>3. QED
      BY <2>1, <2>2 DEF TypeOK
  <1>h. ASSUME NEW k \in Spot, NEW q \in 0..Top, NEW f \in Fiber
        PROVE  /\ Holds(k, q, f)' =>
                    IF f = hand[p] THEN k = "slot" /\ q = dest[p] ELSE Holds(k, q, f)
               /\ f # hand[p] => (Holds(k, q, f) => Holds(k, q, f)')
    <2>1. f = hand[p] => (Holds(k, q, f) => k = "hand" /\ q = p)
      BY <1>0 DEF AtMostOne, Spot
    <2>2. CASE k = "working"
      BY <2>1, <2>2 DEF Holds
    <2>3. CASE k = "waiting"
      BY <2>1, <2>3 DEF Holds, Live
    <2>4. CASE k = "slot"
      BY <1>0, <2>1, <2>4 DEF Holds, TypeOK
    <2>5. CASE k = "hand"
      BY <2>1, <2>5 DEF Holds, TypeOK
    <2>6. QED
      BY <2>2, <2>3, <2>4, <2>5 DEF Spot
  <1>1. /\ AtMostOne'
        /\ Kinds'
        /\ NoneMissing'
    <2>1. Holds("slot", dest[p], hand[p])'
      BY <1>0 DEF Holds, TypeOK
    <2>2. kind[hand[p]] \in {"FIBER", "RUNNING"} /\ home[hand[p]] = 0
      BY <1>0 DEF Kinds, Spot
    <2>3. "slot" \in Spot /\ hand[p] \in Fiber /\ dest[p] \in 0..Top
      BY <1>0 DEF Spot
    <2>4. kind' = kind /\ home' = home /\ turn' = turn
      OBVIOUS
    <2>5. \A k \in Spot, q \in 0..Top, f \in Fiber :
            /\ Holds(k, q, f)' =>
                 IF f = hand[p] THEN k = "slot" /\ q = dest[p] ELSE Holds(k, q, f)
            /\ f # hand[p] => (Holds(k, q, f) => Holds(k, q, f)')
      BY <1>h
    <2>6. Moved(hand[p], "slot", dest[p])
      BY <2>1, <2>2, <2>4, <2>5 DEF Moved
    <2>7. QED
      BY <2>3, <2>6, MovedSpot
  <1>2. QueuesOnce'
    BY DEF QueuesOnce, Live
  <1>3. Threads'
    BY DEF Threads, TypeOK
  <1>4. Labels'
    <2>1. \A q \in Job : IsRunning(q)' <=> IsRunning(q)
      BY DEF IsRunning, Front
    <2>2. QED
      BY <2>1 DEF Labels, TypeOK
  <1>5. RanStaysHome'
    BY DEF RanStaysHome
  <1>6. Kept'
    <2>1. ASSUME turn = 0, NEW q \in Job \ alive PROVE slot'[q] = None
      <3>1. slot[q] = None /\ dest[p] # q
        BY <2>1 DEF Kept
      <3>2. QED
        BY <1>s, <3>1
    <2>2. ASSUME turn = 0, NEW c \in 0..Top, slot'[c] # None PROVE owner'[c] # 0
      <3>1. CASE c = dest[p]
        BY <1>s, <3>1
      <3>2. CASE c # dest[p]
        <4>1. slot'[c] = slot[c] /\ owner'[c] = owner[c]
          BY <1>s, <3>2
        <4>2. QED
          BY <2>2, <4>1 DEF Kept
      <3>3. QED
        BY <3>1, <3>2
    <2>3. turn = 0 => \A q \in Job : pc'[q] \in {"offer", "offered"} => dest[q] \in alive \cup {Global}
      BY DEF Kept, TypeOK
    <2>4. QED
      BY <2>1, <2>2, <2>3 DEF Kept
  <1>7. QED
    BY <1>t, <1>1, <1>2, <1>3, <1>4, <1>5, <1>6

(* A put interrupted by TERM: whatever is left will not be run by p.       *)
LEMMA GivesUpTold ==
  ASSUME IInv, NEW p \in Job, pc[p] \in {"offer", "offered"}, Told(p),
         KeepIfTimed(p), Goto(p, "back"),
         slot' \in [0..Top -> Fiber \cup {None}], owner' \in [0..Top -> 0..Top],
         \A c \in 0..Top : slot'[c] \in {slot[c], None},
         UNCHANGED <<fibers, working, alive, turn, hand, dest, timed, at>>
  PROVE  IInv'
  <1> USE DEF IInv, Goto, fibers
  <1>0. /\ TypeOK /\ hand[p] \in Fiber
        /\ turn = p /\ turn # 0 /\ ~Live(p)
    <2>1. TypeOK /\ hand[p] \in Fiber
      BY DEF Labels
    <2>2. turn = p /\ turn # 0 /\ ~(turn < p)
      <3> HIDE DEF IInv
      <3>1. QED
        BY DEF Told
    <2>3. QED
      BY <2>1, <2>2 DEF Live
  <1>w. /\ waiting' \in [Job -> Seq(Fiber)]
        /\ \A q \in Job \ {p} : waiting'[q] = waiting[q]
    <2>1. waiting \in [Job -> Seq(Fiber)]
      BY DEF TypeOK
    <2>2. Append(waiting[p], hand[p]) \in Seq(Fiber)
      BY <1>0, <2>1, AppendQueue
    <2>3. QED
      BY <2>1, <2>2 DEF KeepIfTimed
  <1>t. TypeOK'
    <2>1. pc' \in [Job -> Label]
      BY DEF TypeOK, Label
    <2>2. QED
      BY <1>w, <2>1 DEF TypeOK
  <1>h. ASSUME NEW k \in Spot, NEW q \in 0..Top, NEW f \in Fiber, Holds(k, q, f)'
        PROVE  Holds(k, q, f)
    <2>1. CASE k = "working"
      BY <1>h, <2>1 DEF Holds
    <2>2. CASE k = "waiting"
      BY <1>h, <1>0, <1>w, <2>2 DEF Holds, Live
    <2>3. CASE k = "slot"
      BY <1>h, <2>3, Sizes DEF Holds
    <2>4. CASE k = "hand"
      BY <1>h, <2>4 DEF Holds, TypeOK
    <2>5. QED
      BY <2>1, <2>2, <2>3, <2>4 DEF Spot
  <1>1. AtMostOne' /\ Kinds' /\ NoneMissing'
    <2>1. Unmoved
      BY <1>h, <1>0 DEF Unmoved
    <2>2. QED
      BY <2>1, SameSpots
  <1>2. QueuesOnce'
    BY <1>0, <1>w DEF QueuesOnce, Live
  <1>3. Threads'
    BY DEF Threads, TypeOK
  <1>4. Labels'
    <2>1. \A q \in Job : IsRunning(q)' <=> IsRunning(q)
      BY DEF IsRunning, Front
    <2>2. QED
      BY <2>1 DEF Labels, TypeOK
  <1>5. RanStaysHome' /\ Kept'
    BY <1>0 DEF RanStaysHome, Kept
  <1>6. QED
    BY <1>t, <1>1, <1>2, <1>3, <1>4, <1>5

(* A timed put that fails: the fiber goes to the waiting queue of p.       *)
LEMMA GivesUpTimed ==
  ASSUME IInv, NEW p \in Job, ~Told(p), timed[p],
         \/ pc[p] = "offer" /\ UNCHANGED chans
         \/ /\ pc[p] = "offered" /\ slot[dest[p]] = hand[p]
            /\ slot' = [slot EXCEPT ![dest[p]] = None]
            /\ owner' = [owner EXCEPT ![dest[p]] = 0],
         KeepIfTimed(p), Goto(p, "back"),
         UNCHANGED <<fibers, working, alive, turn, hand, dest, timed, at>>
  PROVE  IInv'
  <1> USE DEF IInv, Goto, fibers, chans
  <1>p. pc[p] \in {"offer", "offered"}
    OBVIOUS
  <1>0. TypeOK /\ hand[p] \in Fiber /\ dest[p] \in 0..Top /\ p \in 0..Top
    <2>1. TypeOK /\ Labels
      OBVIOUS
    <2>2. hand[p] \in Fiber
      BY <1>p, <2>1 DEF Labels
    <2>3. dest[p] \in 0..Top
      BY <2>1 DEF TypeOK
    <2>4. QED
      BY <2>1, <2>2, <2>3
  <1>l. Live(p)
    <2>1. p \in alive
      BY DEF Threads
    <2>2. turn \in 0..(Top + 1) /\ turn # p /\ (turn # 0 => turn <= p)
      BY <2>1 DEF Threads, TypeOK, Told
    <2>3. QED
      BY <2>2 DEF Live
  <1>o. \E k \in {"hand", "slot"}, q \in 0..Top : Holds(k, q, hand[p])
    BY <1>0 DEF Holds
  <1>w. /\ waiting'[p] = Append(waiting[p], hand[p])
        /\ waiting' \in [Job -> Seq(Fiber)]
        /\ Members(waiting'[p]) = Members(waiting[p]) \cup {hand[p]}
        /\ Once(waiting'[p])
        /\ \A q \in Job \ {p} : waiting'[q] = waiting[q]
    <2>1. waiting \in [Job -> Seq(Fiber)] /\ Once(waiting[p])
      BY <1>l DEF TypeOK, QueuesOnce
    <2>2. hand[p] \notin Members(waiting[p])
      BY <1>0, <1>l, <1>o DEF AtMostOne, Holds, Spot
    <2>3. /\ Append(waiting[p], hand[p]) \in Seq(Fiber)
          /\ Members(Append(waiting[p], hand[p])) = Members(waiting[p]) \cup {hand[p]}
          /\ Once(Append(waiting[p], hand[p]))
      BY <1>0, <2>1, <2>2, AppendQueue
    <2>4. waiting' = [waiting EXCEPT ![p] = Append(@, hand[p])]
      BY DEF KeepIfTimed
    <2>5. QED
      BY <2>1, <2>3, <2>4
  <1>s. /\ slot' \in [0..Top -> Fiber \cup {None}] /\ owner' \in [0..Top -> 0..Top]
        /\ \A c \in 0..Top : \/ slot'[c] = slot[c] /\ owner'[c] = owner[c]
                             \/ slot'[c] = None
        /\ pc[p] = "offered" => slot'[dest[p]] = None
    <2>1. slot \in [0..Top -> Fiber \cup {None}] /\ owner \in [0..Top -> 0..Top]
      BY DEF TypeOK
    <2>2. CASE pc[p] = "offer"
      <3>1. slot' = slot /\ owner' = owner /\ pc[p] # "offered"
        BY <2>2
      <3>2. QED
        BY <2>1, <3>1
    <2>3. CASE pc[p] = "offered"
      <3>1. /\ slot' = [slot EXCEPT ![dest[p]] = None]
            /\ owner' = [owner EXCEPT ![dest[p]] = 0]
        BY <2>3
      <3>2. slot'[dest[p]] = None
        BY <1>0, <2>1, <3>1
      <3>3. slot' \in [0..Top -> Fiber \cup {None}]
        BY <2>1, <3>1
      <3>4. owner' \in [0..Top -> 0..Top]
        <4>1. 0 \in 0..Top
          OBVIOUS
        <4>2. QED
          BY <2>1, <3>1, <4>1, Zenon
      <3>5. QED
        BY <1>0, <2>1, <3>1, <3>2, <3>3, <3>4
    <2>4. QED
      BY <1>p, <2>2, <2>3
  <1>t. TypeOK'
    <2>1. pc' \in [Job -> Label]
      BY DEF TypeOK, Label
    <2>2. QED
      BY <1>w, <1>s, <2>1 DEF TypeOK
  <1>h. ASSUME NEW k \in Spot, NEW q \in 0..Top, NEW f \in Fiber
        PROVE  /\ Holds(k, q, f)' =>
                    IF f = hand[p] THEN k = "waiting" /\ q = p ELSE Holds(k, q, f)
               /\ f # hand[p] => (Holds(k, q, f) => Holds(k, q, f)')
    <2>1. f = hand[p] => (Holds(k, q, f) =>
             IF pc[p] = "offer" THEN k = "hand" /\ q = p ELSE k = "slot" /\ q = dest[p])
      <3>1. CASE pc[p] = "offer"
        <4>1. Holds("hand", p, hand[p])
          BY <3>1 DEF Holds
        <4>2. QED
          BY <1>0, <3>1, <4>1 DEF AtMostOne, Spot
      <3>2. CASE pc[p] = "offered"
        <4>1. Holds("slot", dest[p], hand[p])
          BY <3>2 DEF Holds
        <4>2. QED
          BY <1>0, <3>2, <4>1 DEF AtMostOne, Spot
      <3>3. QED
        BY <3>1, <3>2
    <2>2. CASE k = "working"
      BY <2>1, <2>2 DEF Holds
    <2>3. CASE k = "waiting"
      BY <1>w, <2>1, <2>3 DEF Holds, Live
    <2>4. CASE k = "slot"
      <3>1. Holds(k, q, f)' => Holds(k, q, f)
        BY <1>s, <2>4, Sizes DEF Holds
      <3>2. f # hand[p] => (Holds(k, q, f) => Holds(k, q, f)')
        BY <1>0, <2>4 DEF Holds, TypeOK
      <3>3. f = hand[p] => ~Holds(k, q, f)'
        BY <1>s, <2>1, <2>4, <3>1, Sizes DEF Holds
      <3>4. QED
        BY <3>1, <3>2, <3>3
    <2>5. CASE k = "hand"
      BY <2>1, <2>5 DEF Holds, TypeOK
    <2>6. QED
      BY <2>2, <2>3, <2>4, <2>5 DEF Spot
  <1>1. AtMostOne' /\ Kinds' /\ NoneMissing'
    <2>1. Holds("waiting", p, hand[p])'
      BY <1>l, <1>w DEF Holds, Live
    <2>2. kind[hand[p]] \in {"FIBER", "RUNNING"} /\ home[hand[p]] = 0
      BY <1>0, <1>o DEF Kinds, Spot
    <2>3. "waiting" \in Spot /\ hand[p] \in Fiber /\ p \in 0..Top
      BY <1>0 DEF Spot
    <2>4. kind' = kind /\ home' = home /\ turn' = turn
      OBVIOUS
    <2>5. \A k \in Spot, q \in 0..Top, f \in Fiber :
            /\ Holds(k, q, f)' =>
                 IF f = hand[p] THEN k = "waiting" /\ q = p ELSE Holds(k, q, f)
            /\ f # hand[p] => (Holds(k, q, f) => Holds(k, q, f)')
      BY <1>h
    <2>6. Moved(hand[p], "waiting", p)
      BY <2>1, <2>2, <2>4, <2>5 DEF Moved
    <2>7. QED
      BY <2>3, <2>6, MovedSpot
  <1>2. QueuesOnce'
    BY <1>w DEF QueuesOnce, Live
  <1>3. Threads'
    BY DEF Threads, TypeOK
  <1>4. Labels'
    <2>1. \A q \in Job : IsRunning(q)' <=> IsRunning(q)
      BY DEF IsRunning, Front
    <2>2. QED
      BY <2>1 DEF Labels, TypeOK
  <1>5. RanStaysHome'
    BY DEF RanStaysHome
  <1>6. Kept'
    <2>1. \A q \in Job \ alive : q # p
      BY DEF Threads
    <2>2. turn = 0 => \A q \in Job \ alive : waiting'[q] = <<>> /\ slot'[q] = None
      <3>1. ASSUME turn = 0, NEW q \in Job \ alive
            PROVE  waiting'[q] = <<>> /\ slot'[q] = None
        <4>1. q \in 0..Top /\ q \in Job /\ q # p /\ waiting[q] = <<>> /\ slot[q] = None
          BY <2>1, <3>1 DEF Kept
        <4>2. QED
          BY <1>w, <1>s, <4>1
      <3>2. QED
        BY <3>1
    <2>3. turn = 0 => \A c \in 0..Top : slot'[c] # None => owner'[c] # 0
      BY <1>s DEF Kept
    <2>4. turn = 0 => \A q \in Job : pc'[q] \in {"offer", "offered"} => dest[q] \in alive \cup {Global}
      BY DEF Kept, TypeOK
    <2>5. QED
      BY <2>2, <2>3, <2>4 DEF Kept
  <1>7. QED
    BY <1>t, <1>1, <1>2, <1>3, <1>4, <1>5, <1>6

-----------------------------------------------------------------------------
(* New fibers.                                                             *)

(* Nothing holds a fiber that does not exist.                              *)
LEMMA NewIsNowhere ==
  ASSUME IInv, NEW f \in Fiber, kind[f] = "none"
  PROVE  /\ home[f] = 0
         /\ \A k \in Spot, q \in 0..Top : ~Holds(k, q, f)
  BY DEF IInv, Kinds

(* The job that __gab_jbspawn starts: it is new, or was left by TERM, and  *)
(* TERM has not been there.                                                *)
LEMMA FreeFacts ==
  ASSUME IInv, NEW p \in alive, Free(p) # {}
  PROVE  LET j == Least(Free(p))
         IN  /\ j \in Job \ alive /\ j # p /\ turn <= j /\ Live(j)
             /\ working[j] = <<>> /\ pc[j] \in {"none", "dead"}
             /\ turn = 0 => waiting[j] = <<>> /\ slot[j] = None
  <1> DEFINE j == Least(Free(p))
  <1>1. alive \subseteq 1..Top /\ turn \in 0..(Top + 1)
    BY DEF IInv, TypeOK
  <1>2. j \in Free(p)
    BY LeastIsLeast DEF Free
  <1>3. j \in Job \ alive /\ j # p /\ j >= p
    BY <1>2 DEF Free
  <1>4. turn # 0 => turn <= p
    BY DEF IInv, Threads
  <1>5. turn <= j /\ Live(j)
    BY <1>1, <1>3, <1>4 DEF Live
  <1>6. working[j] = <<>> /\ pc[j] \in {"none", "dead"}
    BY <1>3 DEF IInv, Threads
  <1>7. turn = 0 => waiting[j] = <<>> /\ slot[j] = None
    BY <1>3 DEF IInv, Kept
  <1>8. QED
    BY <1>3, <1>5, <1>6, <1>7

(* A new job begins with the fiber f, which is new or was in the hand of p.*)
LEMMA SpawnBegins ==
  ASSUME IInv, NEW p \in Job, NEW f \in Fiber,
         \/ pc[p] \in {"host", "exec"} /\ Created(f)
         \/ pc[p] = "pin" /\ hand[p] = f /\ kind' = kind,
         pc[p] = "host" => at <= Len(Program),
         Spawn(p, f, "back"),
         UNCHANGED <<parked, home, offer, turn, at>>
  PROVE  IInv'
  <1>i. /\ TypeOK /\ AtMostOne /\ QueuesOnce /\ Threads /\ Labels
        /\ Kinds /\ RanStaysHome /\ NoneMissing /\ Kept
    BY DEF IInv
  <1>p. p \in alive /\ p \in 0..Top /\ pc[p] \in {"host", "exec", "pin"}
    BY <1>i DEF Threads
  <1>f. LET i == Least(Free(p))
        IN  /\ i \in Job \ alive /\ i # p /\ turn <= i /\ Live(i)
            /\ working[i] = <<>> /\ pc[i] \in {"none", "dead"}
            /\ turn = 0 => waiting[i] = <<>> /\ slot[i] = None
    BY <1>p, FreeFacts DEF Spawn
  <1>g. PICK j \in Job : j = Least(Free(p))
    BY <1>f
  <1>j. /\ j \in Job \ alive /\ j # p /\ turn <= j /\ Live(j)
        /\ working[j] = <<>> /\ pc[j] \in {"none", "dead"}
        /\ turn = 0 => waiting[j] = <<>> /\ slot[j] = None
        /\ j \in 0..Top
    BY <1>f, <1>g
  <1>k. /\ kind' \in [Fiber -> {"none", "FIBER", "RUNNING", "DONE"}]
        /\ \A x \in Fiber : kind'[x] = "RUNNING" <=> kind[x] = "RUNNING"
        /\ \A x \in Fiber \ {f} : kind'[x] = kind[x]
        /\ kind'[f] \in {"FIBER", "RUNNING"} /\ kind'[f] # "DONE" /\ home[f] = 0
        /\ \A k \in Spot, q \in 0..Top :
             Holds(k, q, f) => k = "hand" /\ q = p /\ pc[p] = "pin"
    <2>1. CASE pc[p] \in {"host", "exec"} /\ Created(f)
      <3>1. kind[f] = "none" /\ kind' = [kind EXCEPT ![f] = "FIBER"]
        BY <2>1 DEF Created
      <3>2. home[f] = 0 /\ \A k \in Spot, q \in 0..Top : ~Holds(k, q, f)
        BY <3>1, NewIsNowhere
      <3>3. QED
        BY <1>i, <3>1, <3>2 DEF TypeOK
    <2>2. CASE pc[p] = "pin" /\ hand[p] = f /\ kind' = kind
      <3>1. Holds("hand", p, f)
        BY <2>2 DEF Holds
      <3>2. kind[f] \in {"FIBER", "RUNNING"} /\ home[f] = 0
        BY <1>i, <1>p, <3>1 DEF Kinds, Spot
      <3>3. \A k \in Spot, q \in 0..Top : Holds(k, q, f) => k = "hand" /\ q = p
        BY <1>i, <1>p, <3>1 DEF AtMostOne, Spot
      <3>4. QED
        BY <1>i, <2>2, <3>2, <3>3 DEF TypeOK
    <2>3. QED
      BY <2>1, <2>2
  <1>s. /\ alive' = alive \cup {j}
        /\ working' = [working EXCEPT ![j] = <<f>>]
        /\ waiting' = [waiting EXCEPT ![j] = <<>>]
        /\ slot' = [slot EXCEPT ![j] = None]
        /\ owner' = [owner EXCEPT ![j] = 0]
        /\ pc' = [pc EXCEPT ![p] = "back", ![j] = "step"]
        /\ UNCHANGED <<hand, dest, timed>>
    BY <1>g DEF Spawn
  <1>w. /\ working' \in [Job -> Seq(Fiber)] /\ working'[j] = <<f>>
        /\ \A q \in Job \ {j} : working'[q] = working[q]
        /\ waiting' \in [Job -> Seq(Fiber)] /\ waiting'[j] = <<>>
        /\ \A q \in Job \ {j} : waiting'[q] = waiting[q]
    <2>1. working \in [Job -> Seq(Fiber)] /\ waiting \in [Job -> Seq(Fiber)]
      BY <1>i DEF TypeOK
    <2>2. <<f>> \in Seq(Fiber) /\ <<>> \in Seq(Fiber)
      OBVIOUS
    <2>3. /\ working' \in [Job -> Seq(Fiber)] /\ working'[j] = <<f>>
          /\ \A q \in Job \ {j} : working'[q] = working[q]
      BY <1>j, <1>s, <2>1, <2>2
    <2>4. /\ waiting' \in [Job -> Seq(Fiber)] /\ waiting'[j] = <<>>
          /\ \A q \in Job \ {j} : waiting'[q] = waiting[q]
      BY <1>j, <1>s, <2>1, <2>2
    <2>5. QED
      BY <2>3, <2>4
  <1>c. /\ slot' \in [0..Top -> Fiber \cup {None}] /\ slot'[j] = None
        /\ \A c \in 0..Top \ {j} : slot'[c] = slot[c] /\ owner'[c] = owner[c]
    BY <1>i, <1>j, <1>s DEF TypeOK
  <1>l. /\ pc' \in [Job -> Label] /\ pc'[p] = "back" /\ pc'[j] = "step"
        /\ \A q \in Job \ {p, j} : pc'[q] = pc[q]
    BY <1>i, <1>j, <1>s DEF TypeOK, Label
  <1>m. /\ Members(working'[j]) = {f} /\ Once(working'[j])
        /\ Members(waiting'[j]) = {} /\ Once(waiting'[j])
        /\ Members(working[j]) = {}
    <2>1. Members(<<f>>) = {f} /\ Once(<<f>>)
      BY DEF Members, Once
    <2>2. QED
      BY <2>1, <1>j, <1>w, EmptyQueue
  <1>t. TypeOK'
    <2>0. owner \in [0..Top -> 0..Top]
      BY <1>i DEF TypeOK
    <2>1. owner' \in [0..Top -> 0..Top]
      BY <1>s, <2>0, ZeroIndex, Zenon
    <2>2. QED
      BY <1>i, <1>j, <1>k, <1>s, <1>w, <1>c, <1>l, <2>1 DEF TypeOK
  <1>h. ASSUME NEW k \in Spot, NEW q \in 0..Top, NEW x \in Fiber
        PROVE  /\ Holds(k, q, x)' =>
                    IF x = f THEN k = "working" /\ q = j ELSE Holds(k, q, x)
               /\ turn = 0 => (x # f => (Holds(k, q, x) => Holds(k, q, x)'))
    <2>1. x = f => (Holds(k, q, x) => k = "hand" /\ q = p /\ pc[p] = "pin")
      BY <1>k
    <2>2. CASE k = "working"
      <3>1. CASE q = j
        BY <1>j, <1>m, <2>1, <2>2, <3>1 DEF Holds
      <3>2. CASE q # j
        BY <1>w, <2>1, <2>2, <3>2 DEF Holds
      <3>3. QED
        BY <3>1, <3>2
    <2>3. CASE k = "waiting"
      BY <1>j, <1>w, <2>1, <2>3, EmptyQueue DEF Holds, Live
    <2>4. CASE k = "slot"
      BY <1>j, <1>c, <2>1, <2>4, Sizes DEF Holds
    <2>5. CASE k = "hand"
      BY <1>j, <1>l, <1>s, <2>1, <2>5 DEF Holds
    <2>6. QED
      BY <2>2, <2>3, <2>4, <2>5 DEF Spot
  <1>1. AtMostOne' /\ Kinds' /\ NoneMissing'
    <2>1. Holds("working", j, f)'
      BY <1>j, <1>w, <1>m DEF Holds
    <2>2. \A k \in Spot, q \in 0..Top, x \in Fiber :
            /\ Holds(k, q, x)' =>
                 IF x = f THEN k = "working" /\ q = j ELSE Holds(k, q, x)
            /\ turn = 0 => (x # f => (Holds(k, q, x) => Holds(k, q, x)'))
      BY <1>h
    <2>3. Moved(f, "working", j)
      BY <1>k, <2>1, <2>2 DEF Moved
    <2>4. "working" \in Spot
      BY DEF Spot
    <2>5. QED
      BY <1>j, <2>3, <2>4, MovedSpot
  <1>2. QueuesOnce'
    BY <1>i, <1>w, <1>m, EmptyQueue DEF QueuesOnce, Live
  <1>3. Threads'
    BY <1>i, <1>j, <1>p, <1>s, <1>w, <1>l DEF Threads
  <1>4. Labels'
    <2>1. \A q \in Job \ {j} : IsRunning(q)' <=> IsRunning(q)
      <3>1. working \in [Job -> Seq(Fiber)]
        BY <1>i DEF TypeOK
      <3>2. \A q \in Job : Members(working[q]) \subseteq Fiber
        BY <3>1 DEF Members
      <3>3. QED
        BY <1>i, <1>w, <1>k, <3>2, SameFront
    <2>2. ~IsRunning(p) => p = Main /\ at <= Len(Program)
      BY <1>i, <1>p DEF Labels
    <2>3. QED
      BY <1>i, <1>j, <1>l, <1>s, <2>1, <2>2 DEF Labels
  <1>5. RanStaysHome'
    <2> SUFFICES ASSUME NEW x \in Fiber, home[x] # 0, kind'[x] # "DONE"
                 PROVE  x \in Members(working'[home[x]])
      BY DEF RanStaysHome
    <2>0. home[x] \in Job
      BY <1>i, HomeJob
    <2>1. x # f /\ kind[x] # "DONE" /\ home[x] \in Job
      BY <1>k, <2>0
    <2>2. x \in Members(working[home[x]])
      BY <1>i, <2>1 DEF RanStaysHome
    <2>3. home[x] # j
      BY <1>j, <2>2, EmptyQueue
    <2>4. QED
      BY <1>w, <2>1, <2>2, <2>3
  <1>6. Kept'
    <2>1. turn = 0 => \A q \in Job \ alive' : waiting'[q] = <<>> /\ slot'[q] = None
      BY <1>i, <1>s, <1>w, <1>c DEF Kept
    <2>2. turn = 0 => \A q \in Job : pc'[q] \in {"offer", "offered"}
                                       => dest[q] \in alive' \cup {Global}
      BY <1>i, <1>s, <1>l DEF Kept
    <2>3. turn = 0 => \A c \in 0..Top : slot'[c] # None => owner'[c] # 0
      BY <1>i, <1>c DEF Kept
    <2>4. QED
      BY <1>s, <2>1, <2>2, <2>3 DEF Kept
  <1>7. QED
    BY <1>t, <1>1, <1>2, <1>3, <1>4, <1>5, <1>6 DEF IInv

(* A put begins, or a job is to be chosen: the new fiber is in the hand.   *)
LEMMA HandTakes ==
  ASSUME IInv, NEW p \in Job, NEW f \in Fiber, pc[p] \in {"host", "exec"}, Created(f),
         pc[p] = "host" => at <= Len(Program),
         NEW l \in {"pin", "offer"}, l = "pin" => p = Main,
         Goto(p, l),
         hand' = [hand EXCEPT ![p] = f],
         NEW c \in alive \cup {Global}, dest' = [dest EXCEPT ![p] = c] \/ dest' = dest,
         l = "offer" => dest' = [dest EXCEPT ![p] = c],
         timed' \in [Job -> BOOLEAN],
         UNCHANGED <<parked, home, offer, queues, chans, alive, turn, at>>
  PROVE  IInv'
  <1>i. /\ TypeOK /\ AtMostOne /\ QueuesOnce /\ Threads /\ Labels
        /\ Kinds /\ RanStaysHome /\ NoneMissing /\ Kept
    BY DEF IInv
  <1> USE DEF Goto, queues, chans
  <1>k. /\ kind[f] = "none" /\ kind' = [kind EXCEPT ![f] = "FIBER"]
        /\ kind' \in [Fiber -> {"none", "FIBER", "RUNNING", "DONE"}]
        /\ kind'[f] = "FIBER" /\ home[f] = 0
        /\ \A x \in Fiber \ {f} : kind'[x] = kind[x]
        /\ \A k \in Spot, q \in 0..Top : ~Holds(k, q, f)
    <2>1. kind[f] = "none" /\ kind' = [kind EXCEPT ![f] = "FIBER"]
      BY DEF Created
    <2>2. home[f] = 0 /\ \A k \in Spot, q \in 0..Top : ~Holds(k, q, f)
      BY <2>1, NewIsNowhere
    <2>3. QED
      BY <1>i, <2>1, <2>2 DEF TypeOK
  <1>l. /\ pc' \in [Job -> Label] /\ pc'[p] = l
        /\ \A q \in Job \ {p} : pc'[q] = pc[q]
        /\ hand' \in [Job -> Fiber \cup {None}] /\ hand'[p] = f
        /\ \A q \in Job \ {p} : hand'[q] = hand[q]
    BY <1>i DEF TypeOK, Label
  <1>d. /\ dest' \in [Job -> 0..Top]
        /\ l = "offer" => dest'[p] = c
        /\ \A q \in Job \ {p} : dest'[q] = dest[q]
    <2>1. dest \in [Job -> 0..Top] /\ alive \subseteq Job
      BY <1>i DEF TypeOK
    <2>2. c \in 0..Top
      BY <2>1, ZeroIndex
    <2>3. QED
      BY <2>1, <2>2
  <1>t. TypeOK'
    BY <1>i, <1>k, <1>l, <1>d DEF TypeOK
  <1>h. ASSUME NEW k \in Spot, NEW q \in 0..Top, NEW x \in Fiber
        PROVE  /\ Holds(k, q, x)' =>
                    IF x = f THEN k = "hand" /\ q = p ELSE Holds(k, q, x)
               /\ x # f => (Holds(k, q, x) => Holds(k, q, x)')
    <2>1. x = f => ~Holds(k, q, x)
      BY <1>k
    <2>2. CASE k = "working"
      BY <2>1, <2>2 DEF Holds
    <2>3. CASE k = "waiting"
      BY <2>1, <2>3 DEF Holds, Live
    <2>4. CASE k = "slot"
      BY <2>1, <2>4 DEF Holds
    <2>5. CASE k = "hand"
      BY <1>l, <2>1, <2>5 DEF Holds
    <2>6. QED
      BY <2>2, <2>3, <2>4, <2>5 DEF Spot
  <1>1. AtMostOne' /\ Kinds' /\ NoneMissing'
    <2>1. Holds("hand", p, f)'
      BY <1>l DEF Holds
    <2>2. \A k \in Spot, q \in 0..Top, x \in Fiber :
            /\ Holds(k, q, x)' =>
                 IF x = f THEN k = "hand" /\ q = p ELSE Holds(k, q, x)
            /\ x # f => (Holds(k, q, x) => Holds(k, q, x)')
      BY <1>h
    <2>3. Moved(f, "hand", p)
      BY <1>k, <2>1, <2>2 DEF Moved
    <2>4. "hand" \in Spot /\ p \in 0..Top
      BY DEF Spot
    <2>5. QED
      BY <2>3, <2>4, MovedSpot
  <1>2. QueuesOnce'
    BY <1>i DEF QueuesOnce, Live
  <1>3. Threads'
    BY <1>i, <1>l DEF Threads
  <1>4. Labels'
    <2>1. \A q \in Job : IsRunning(q)' <=> IsRunning(q)
      BY <1>i, <1>k, HeadMember DEF IsRunning, Front, TypeOK
    <2>2. ~IsRunning(p) => p = Main /\ at <= Len(Program)
      BY <1>i DEF Labels
    <2>3. QED
      BY <1>i, <1>l, <2>1, <2>2 DEF Labels
  <1>5. RanStaysHome'
    BY <1>i, <1>k DEF RanStaysHome
  <1>6. Kept'
    BY <1>i, <1>l, <1>d DEF Kept
  <1>7. QED
    BY <1>t, <1>1, <1>2, <1>3, <1>4, <1>5, <1>6 DEF IInv

(* The new fiber is put in the host's own waiting queue.                   *)
LEMMA QueueTakes ==
  ASSUME IInv, NEW f \in Fiber, pc[Main] = "host", at <= Len(Program), Created(f),
         waiting' = [waiting EXCEPT ![Main] = Append(@, f)],
         Goto(Main, "back"),
         UNCHANGED <<parked, home, offer, working, chans, alive, turn, hand, dest, timed, at>>
  PROVE  IInv'
  <1>i. /\ TypeOK /\ AtMostOne /\ QueuesOnce /\ Threads /\ Labels
        /\ Kinds /\ RanStaysHome /\ NoneMissing /\ Kept
    BY DEF IInv
  <1> USE DEF Goto, chans
  <1>p. Main \in Job /\ Main \in 0..Top /\ Main \in alive
    BY <1>i DEF Threads
  <1>k. /\ kind' \in [Fiber -> {"none", "FIBER", "RUNNING", "DONE"}]
        /\ kind[f] = "none" /\ kind'[f] = "FIBER" /\ home[f] = 0
        /\ \A x \in Fiber \ {f} : kind'[x] = kind[x]
        /\ \A k \in Spot, q \in 0..Top : ~Holds(k, q, f)
    <2>1. kind[f] = "none" /\ kind' = [kind EXCEPT ![f] = "FIBER"]
      BY DEF Created
    <2>2. home[f] = 0 /\ \A k \in Spot, q \in 0..Top : ~Holds(k, q, f)
      BY <2>1, NewIsNowhere
    <2>3. QED
      BY <1>i, <2>1, <2>2 DEF TypeOK
  <1>l. /\ pc' \in [Job -> Label] /\ pc'[Main] = "back"
        /\ \A q \in Job \ {Main} : pc'[q] = pc[q]
    BY <1>i, <1>p DEF TypeOK, Label
  <1>w. /\ waiting' \in [Job -> Seq(Fiber)]
        /\ Members(waiting'[Main]) = Members(waiting[Main]) \cup {f}
        /\ Live(Main) => Once(waiting'[Main])
        /\ \A q \in Job \ {Main} : waiting'[q] = waiting[q]
    <2>1. waiting \in [Job -> Seq(Fiber)] /\ (Live(Main) => Once(waiting[Main]))
      BY <1>i, <1>p DEF TypeOK, QueuesOnce
    <2>2. Live(Main) => f \notin Members(waiting[Main])
      BY <1>k, <1>p DEF Holds, Spot
    <2>3. /\ Append(waiting[Main], f) \in Seq(Fiber)
          /\ Members(Append(waiting[Main], f)) = Members(waiting[Main]) \cup {f}
          /\ Live(Main) => Once(Append(waiting[Main], f))
      BY <1>p, <2>1, <2>2, AppendQueue
    <2>4. QED
      BY <1>p, <2>1, <2>3
  <1>t. TypeOK'
    BY <1>i, <1>k, <1>l, <1>w DEF TypeOK
  <1>h. ASSUME NEW k \in Spot, NEW q \in 0..Top, NEW x \in Fiber
        PROVE  /\ Holds(k, q, x)' =>
                    IF x = f THEN k = "waiting" /\ q = Main ELSE Holds(k, q, x)
               /\ x # f => (Holds(k, q, x) => Holds(k, q, x)')
    <2>1. x = f => ~Holds(k, q, x)
      BY <1>k
    <2>2. CASE k = "working"
      BY <2>1, <2>2 DEF Holds
    <2>3. CASE k = "waiting"
      BY <1>w, <2>1, <2>3 DEF Holds, Live
    <2>4. CASE k = "slot"
      BY <2>1, <2>4 DEF Holds
    <2>5. CASE k = "hand"
      BY <1>l, <2>1, <2>5 DEF Holds
    <2>6. QED
      BY <2>2, <2>3, <2>4, <2>5 DEF Spot
  <1>1. AtMostOne' /\ Kinds' /\ NoneMissing'
    <2>1. turn' = 0 => Holds("waiting", Main, f)'
      BY <1>p, <1>w DEF Holds, Live
    <2>2. \A k \in Spot, q \in 0..Top, x \in Fiber :
            /\ Holds(k, q, x)' =>
                 IF x = f THEN k = "waiting" /\ q = Main ELSE Holds(k, q, x)
            /\ x # f => (Holds(k, q, x) => Holds(k, q, x)')
      BY <1>h
    <2>3. Moved(f, "waiting", Main)
      BY <1>k, <2>1, <2>2 DEF Moved
    <2>4. "waiting" \in Spot
      BY DEF Spot
    <2>5. QED
      BY <1>p, <2>3, <2>4, MovedSpot
  <1>2. QueuesOnce'
    BY <1>i, <1>w DEF QueuesOnce, Live
  <1>3. Threads'
    BY <1>i, <1>l DEF Threads
  <1>4. Labels'
    <2>1. \A q \in Job : IsRunning(q)' <=> IsRunning(q)
      BY <1>i, <1>k, HeadMember DEF IsRunning, Front, TypeOK
    <2>2. QED
      BY <1>i, <1>l, <2>1 DEF Labels
  <1>5. RanStaysHome'
    BY <1>i, <1>k DEF RanStaysHome
  <1>6. Kept'
    BY <1>i, <1>p, <1>l, <1>w DEF Kept
  <1>7. QED
    BY <1>t, <1>1, <1>2, <1>3, <1>4, <1>5, <1>6 DEF IInv

(* No job can be chosen or started: the fiber is given up.                 *)
LEMMA PinDrops ==
  ASSUME IInv, pc[Main] = "pin",
         kind' = [kind EXCEPT ![hand[Main]] = "none"],
         Goto(Main, "back"),
         UNCHANGED <<parked, home, offer, queues, chans, alive, turn, hand, dest, timed, at>>
  PROVE  IInv'
  <1>i. /\ TypeOK /\ AtMostOne /\ QueuesOnce /\ Threads /\ Labels
        /\ Kinds /\ RanStaysHome /\ NoneMissing /\ Kept
    BY DEF IInv
  <1> USE DEF Goto, queues, chans
  <1>p. Main \in Job /\ Main \in 0..Top
    OBVIOUS
  <1>f. PICK f \in Fiber : f = hand[Main]
    BY <1>i, <1>p DEF Labels
  <1>k. /\ kind' \in [Fiber -> {"none", "FIBER", "RUNNING", "DONE"}]
        /\ kind'[f] = "none" /\ home[f] = 0
        /\ \A x \in Fiber \ {f} : kind'[x] = kind[x]
        /\ \A k \in Spot, q \in 0..Top : Holds(k, q, f) => k = "hand" /\ q = Main
    <2>1. Holds("hand", Main, f) /\ "hand" \in Spot
      BY <1>f, <1>p DEF Holds, Spot
    <2>2. home[f] = 0
      BY <1>i, <1>p, <2>1 DEF Kinds
    <2>3. \A k \in Spot, q \in 0..Top : Holds(k, q, f) => k = "hand" /\ q = Main
      BY <1>i, <1>p, <2>1 DEF AtMostOne
    <2>4. QED
      BY <1>i, <1>f, <2>2, <2>3 DEF TypeOK
  <1>l. /\ pc' \in [Job -> Label] /\ pc'[Main] = "back"
        /\ \A q \in Job \ {Main} : pc'[q] = pc[q]
    BY <1>i, <1>p DEF TypeOK, Label
  <1>t. TypeOK'
    BY <1>i, <1>k, <1>l DEF TypeOK
  <1>h. ASSUME NEW k \in Spot, NEW q \in 0..Top, NEW x \in Fiber
        PROVE  /\ Holds(k, q, x)' => x # f /\ Holds(k, q, x)
               /\ x # f => (Holds(k, q, x) => Holds(k, q, x)')
    <2>1. x = f => (Holds(k, q, x) => k = "hand" /\ q = Main)
      BY <1>k
    <2>2. CASE k = "working"
      BY <2>1, <2>2 DEF Holds
    <2>3. CASE k = "waiting"
      BY <2>1, <2>3 DEF Holds, Live
    <2>4. CASE k = "slot"
      BY <2>1, <2>4 DEF Holds
    <2>5. CASE k = "hand"
      BY <1>f, <1>l, <2>1, <2>5 DEF Holds
    <2>6. QED
      BY <2>2, <2>3, <2>4, <2>5 DEF Spot
  <1>1. AtMostOne'
    BY <1>i, <1>h DEF AtMostOne
  <1>2. Kinds'
    BY <1>i, <1>h, <1>k DEF Kinds
  <1>3. NoneMissing'
    <2> SUFFICES ASSUME turn = 0, NEW x \in Fiber, kind'[x] \in {"FIBER", "RUNNING"}
                 PROVE  \E k \in Spot, q \in 0..Top : Holds(k, q, x)'
      BY DEF NoneMissing
    <2>1. x # f /\ kind[x] \in {"FIBER", "RUNNING"}
      BY <1>k
    <2>2. PICK k \in Spot, q \in 0..Top : Holds(k, q, x)
      BY <1>i, <2>1 DEF NoneMissing
    <2>3. QED
      BY <1>h, <2>1, <2>2
  <1>4. QueuesOnce'
    BY <1>i DEF QueuesOnce, Live
  <1>5. Threads'
    BY <1>i, <1>l DEF Threads
  <1>6. Labels'
    <2>1. ASSUME NEW q \in Job, working[q] # <<>> PROVE Front(q) # f /\ Front(q) \in Fiber
      <3>1. working[q] \in Seq(Fiber)
        BY <1>i DEF TypeOK
      <3>2. Front(q) \in Fiber /\ Front(q) \in Members(working[q])
        BY <2>1, <3>1, HeadMember DEF Front
      <3>3. Holds("working", q, Front(q)) /\ "working" \in Spot /\ q \in 0..Top
        BY <3>2 DEF Holds, Spot
      <3>4. QED
        BY <1>k, <3>2, <3>3
    <2>2. \A q \in Job : IsRunning(q)' <=> IsRunning(q)
      BY <1>k, <2>1 DEF IsRunning, Front
    <2>3. QED
      BY <1>i, <1>l, <2>2 DEF Labels
  <1>7. RanStaysHome'
    BY <1>i, <1>k DEF RanStaysHome
  <1>8. Kept'
    BY <1>i, <1>l DEF Kept
  <1>9. QED
    BY <1>t, <1>1, <1>2, <1>3, <1>4, <1>5, <1>6, <1>7, <1>8 DEF IInv

(* What an interrupted put left is no fiber any more: the program ends.    *)
LEMMA JunkCrashes ==
  ASSUME IInv, NEW p \in Job, StepJunk(p)
  PROVE  IInv'
  <1>i. /\ TypeOK /\ AtMostOne /\ QueuesOnce /\ Threads /\ Labels
        /\ Kinds /\ RanStaysHome /\ NoneMissing /\ Kept
    BY DEF IInv
  <1> USE DEF Goto, queues, fibers
  <1>s. /\ pc[p] = "step" /\ Source(p) \in 0..Top
        /\ slot[Source(p)] # None /\ owner[Source(p)] = 0
        /\ slot' = [slot EXCEPT ![Source(p)] = None]
        /\ pc' = [pc EXCEPT ![p] = "crashed"]
        /\ UNCHANGED <<fibers, queues, owner, alive, turn, hand, dest, timed, at>>
    BY ZeroIndex DEF StepJunk, Source
  <1>0. turn # 0
    BY <1>i, <1>s DEF Kept
  <1>c. /\ slot' \in [0..Top -> Fiber \cup {None}]
        /\ \A c \in 0..Top : slot'[c] \in {slot[c], None}
        /\ pc' \in [Job -> Label] /\ pc'[p] = "crashed"
        /\ \A q \in Job \ {p} : pc'[q] = pc[q]
    BY <1>i, <1>s DEF TypeOK, Label
  <1>t. TypeOK'
    BY <1>i, <1>s, <1>c DEF TypeOK
  <1>h. ASSUME NEW k \in Spot, NEW q \in 0..Top, NEW f \in Fiber, Holds(k, q, f)'
        PROVE  Holds(k, q, f)
    <2>1. CASE k = "working"
      BY <1>h, <1>s, <2>1 DEF Holds
    <2>2. CASE k = "waiting"
      BY <1>h, <1>s, <2>2 DEF Holds, Live
    <2>3. CASE k = "slot"
      BY <1>h, <1>c, <2>3, Sizes DEF Holds
    <2>4. CASE k = "hand"
      BY <1>h, <1>s, <1>c, <2>4 DEF Holds
    <2>5. QED
      BY <2>1, <2>2, <2>3, <2>4 DEF Spot
  <1>1. AtMostOne' /\ Kinds' /\ NoneMissing'
    <2>1. Unmoved
      BY <1>h, <1>0, <1>s DEF Unmoved
    <2>2. QED
      BY <2>1, SameSpots
  <1>2. QueuesOnce' /\ RanStaysHome'
    BY <1>i, <1>s DEF QueuesOnce, Live, RanStaysHome
  <1>3. Threads'
    BY <1>i, <1>s, <1>c DEF Threads
  <1>4. Labels'
    <2>1. \A q \in Job : IsRunning(q)' <=> IsRunning(q)
      BY <1>s DEF IsRunning, Front
    <2>2. QED
      BY <1>i, <1>s, <1>c, <2>1 DEF Labels
  <1>5. Kept'
    BY <1>0, <1>s DEF Kept
  <1>6. QED
    BY <1>t, <1>1, <1>2, <1>3, <1>4, <1>5 DEF IInv

(* __gab_jbbail: what the job would have run is done, then TERM goes on.   *)
LEMMA BailEnds ==
  ASSUME IInv, NEW p \in Job, Bail(p)
  PROVE  IInv'
  <1>i. /\ TypeOK /\ AtMostOne /\ QueuesOnce /\ Threads /\ Labels
        /\ Kinds /\ RanStaysHome /\ NoneMissing /\ Kept
    BY DEF IInv
  <1> USE DEF Goto, chans
  <1> DEFINE Mine == Members(working[p])
             Next_ == {j \in alive : j > p} \cup {Top + 1}
  <1>s. /\ pc[p] = "bail" /\ turn = p /\ turn # 0
        /\ kind' = [f \in Fiber |-> IF f \in Mine THEN "DONE" ELSE kind[f]]
        /\ home' = [f \in Fiber |-> IF f \in Mine /\ home[f] = 0 THEN p ELSE home[f]]
        /\ working' = [working EXCEPT ![p] = <<>>]
        /\ alive' = alive \ {p}
        /\ turn' = Least(Next_)
        /\ pc' = [pc EXCEPT ![p] = "dead"]
        /\ UNCHANGED <<parked, offer, waiting, chans, hand, dest, timed, at>>
    BY DEF Bail, Told
  <1>a. alive \subseteq 1..Top /\ p \in 1..Top
    BY <1>i DEF TypeOK
  <1>n. /\ turn' \in 1..(Top + 1) /\ turn' > turn
        /\ \A q \in alive' : turn' <= q
    <2>0. Top + 1 \in Nat /\ \A j \in alive : j \in Nat
      BY <1>a
    <2>1. Next_ \in SUBSET Nat /\ Next_ # {}
      BY <2>0, Zenon
    <2>2. turn' \in Next_ /\ \A q \in Next_ : turn' <= q
      BY <1>s, <2>1, LeastIsLeast
    <2>3. turn' \in 1..(Top + 1) /\ turn' > turn
      BY <1>a, <1>s, <2>2
    <2>4. ASSUME NEW q \in alive' PROVE turn' <= q
      <3>1. q \in alive /\ q # p /\ p <= q
        BY <1>i, <1>s, <2>4 DEF Threads
      <3>2. q \in Next_
        BY <1>a, <3>1
      <3>3. QED
        BY <2>2, <3>2
    <2>5. QED
      BY <2>3, <2>4
  <1>w. /\ working' \in [Job -> Seq(Fiber)] /\ working'[p] = <<>>
        /\ Members(working'[p]) = {} /\ Once(working'[p])
        /\ \A q \in Job \ {p} : working'[q] = working[q]
    <2>1. working \in [Job -> Seq(Fiber)]
      BY <1>i DEF TypeOK
    <2>2. working' \in [Job -> Seq(Fiber)] /\ working'[p] = <<>>
      BY <1>s, <2>1, EmptyQueue
    <2>3. QED
      BY <1>s, <2>1, <2>2, EmptyQueue
  <1>l. /\ pc' \in [Job -> Label] /\ pc'[p] = "dead"
        /\ \A q \in Job \ {p} : pc'[q] = pc[q]
    BY <1>i, <1>s DEF TypeOK, Label
  <1>k. /\ kind' \in [Fiber -> {"none", "FIBER", "RUNNING", "DONE"}]
        /\ home' \in [Fiber -> 0..Top]
        /\ \A f \in Fiber : IF f \in Mine THEN kind'[f] = "DONE"
                            ELSE kind'[f] = kind[f] /\ home'[f] = home[f]
    <2>1. /\ kind \in [Fiber -> {"none", "FIBER", "RUNNING", "DONE"}]
          /\ home \in [Fiber -> 0..Top]
      BY <1>i DEF TypeOK
    <2>2. p \in 0..Top
      BY <1>a
    <2>3. QED
      BY <1>s, <2>1, <2>2
  <1>t. TypeOK'
    <2>1. alive' \subseteq Job
      BY <1>a, <1>s
    <2>2. turn' \in 0..(Top + 1)
      BY <1>n
    <2>3. QED
      BY <1>i, <1>s, <1>w, <1>l, <1>k, <2>1, <2>2 DEF TypeOK
  <1>h. ASSUME NEW k \in Spot, NEW q \in 0..Top, NEW f \in Fiber, Holds(k, q, f)'
        PROVE  Holds(k, q, f) /\ f \notin Mine
    <2>1. Holds(k, q, f)
      <3>1. CASE k = "working"
        BY <1>h, <1>w, <3>1 DEF Holds
      <3>2. CASE k = "waiting"
        <4>1. turn \in Int /\ turn' \in Int
          BY <1>a, <1>s, <1>n
        <4>2. QED
          BY <1>h, <1>s, <1>n, <3>2, <4>1 DEF Holds, Live
      <3>3. CASE k = "slot"
        BY <1>h, <1>s, <3>3 DEF Holds
      <3>4. CASE k = "hand"
        BY <1>h, <1>s, <1>l, <3>4 DEF Holds
      <3>5. QED
        BY <3>1, <3>2, <3>3, <3>4 DEF Spot
    <2>2. ~(k = "working" /\ q = p)
      BY <1>h, <1>w DEF Holds
    <2>3. f \in Mine => Holds("working", p, f)
      BY DEF Holds
    <2>4. "working" \in Spot /\ p \in 0..Top
      BY <1>a DEF Spot
    <2>5. QED
      BY <1>i, <2>1, <2>2, <2>3, <2>4 DEF AtMostOne
  <1>1. AtMostOne'
    BY <1>i, <1>h DEF AtMostOne
  <1>2. Kinds'
    <2>1. \A f \in Fiber : kind'[f] = "none" => home'[f] = 0
      BY <1>i, <1>k DEF Kinds
    <2>2. QED
      BY <1>i, <1>h, <1>k, <2>1 DEF Kinds
  <1>3. NoneMissing' /\ Kept'
    BY <1>n DEF NoneMissing, Kept
  <1>4. QueuesOnce'
    <2>1. \A q \in Job : Live(q)' => Live(q)
      BY <1>a, <1>s, <1>n DEF Live
    <2>2. QED
      BY <1>i, <1>s, <1>w, <2>1 DEF QueuesOnce
  <1>5. Threads'
    <2>1. turn' # 0
      BY <1>n
    <2>2. QED
      BY <1>i, <1>s, <1>n, <1>w, <1>l, <2>1 DEF Threads
  <1>6. Labels'
    <2>1. ASSUME NEW q \in Job \ {p} PROVE IsRunning(q)' <=> IsRunning(q)
      <3>1. CASE working[q] = <<>>
        BY <1>w, <2>1, <3>1 DEF IsRunning
      <3>2. CASE working[q] # <<>>
        <4>1. Front(q) \in Fiber /\ Front(q) \in Members(working[q])
          BY <1>i, <3>2, HeadMember DEF Front, TypeOK
        <4>2. Holds("working", q, Front(q)) /\ "working" \in Spot /\ q \in 0..Top /\ p \in 0..Top
          BY <4>1, <1>a DEF Holds, Spot
        <4>3. Front(q) \in Mine => Holds("working", p, Front(q))
          BY DEF Holds
        <4>4. Front(q) \notin Mine
          BY <1>i, <2>1, <4>1, <4>2, <4>3 DEF AtMostOne
        <4>5. QED
          BY <1>k, <1>w, <2>1, <4>1, <4>4 DEF IsRunning, Front
      <3>3. QED
        BY <3>1, <3>2
    <2>2. QED
      BY <1>i, <1>s, <1>l, <2>1 DEF Labels
  <1>7. RanStaysHome'
    <2> SUFFICES ASSUME NEW f \in Fiber, home'[f] # 0, kind'[f] # "DONE"
                 PROVE  f \in Members(working'[home'[f]])
      BY DEF RanStaysHome
    <2>1. f \notin Mine /\ kind'[f] = kind[f] /\ home'[f] = home[f]
      BY <1>k
    <2>2. home[f] \in Job
      BY <1>i, <2>1, HomeJob
    <2>3. f \in Members(working[home[f]])
      BY <1>i, <2>1 DEF RanStaysHome
    <2>4. QED
      BY <1>w, <2>1, <2>2, <2>3
  <1>8. QED
    BY <1>t, <1>1, <1>2, <1>3, <1>4, <1>5, <1>6, <1>7 DEF IInv

-----------------------------------------------------------------------------
(* __gab_jbstep.                                                           *)

(* What p has in reach: its queues, and what its work channel offers.      *)
Queue(p) == IF slot[Source(p)] = None THEN waiting[p] ELSE Append(waiting[p], slot[Source(p)])
Moves(p) == Len(working[p]) < Cap /\ Queue(p) # <<>>
Reach(p) == Members(working[p]) \cup Members(Queue(p))

(* A job that TERM has not told may run whatever it has.                   *)
LEMMA StepperLives ==
  ASSUME IInv, NEW p \in Job, pc[p] = "step", ~Told(p)
  PROVE  p \in alive /\ Live(p)
  <1>1. p \in alive
    BY DEF IInv, Threads
  <1>2. turn \in 0..(Top + 1) /\ turn # p /\ (turn # 0 => turn <= p)
    BY <1>1 DEF IInv, Threads, TypeOK, Told
  <1>3. QED
    BY <1>1, <1>2 DEF Live

(* What is in reach of p is nowhere else, occurs once, and can run on p.   *)
LEMMA ReachFacts ==
  ASSUME IInv, NEW p \in Job, pc[p] = "step", ~Told(p)
  PROVE  /\ Source(p) \in 0..Top
         /\ Queue(p) \in Seq(Fiber) /\ Once(Queue(p))
         /\ working[p] \in Seq(Fiber) /\ Once(working[p])
         /\ Members(working[p]) \cap Members(Queue(p)) = {}
         /\ \A x \in Fiber, k \in Spot, q \in 0..Top :
              Holds(k, q, x) =>
                (x \in Reach(p) <=> \/ k \in {"working", "waiting"} /\ q = p
                                    \/ k = "slot" /\ q = Source(p))
         /\ \A x \in Members(Queue(p)) : x \in Fiber /\ home[x] = 0
         /\ \A x \in Reach(p) : /\ x \in Fiber
                                /\ kind[x] \in {"FIBER", "RUNNING"}
                                /\ home[x] \in {0, p}
  <1>i. TypeOK /\ AtMostOne /\ QueuesOnce /\ Kinds
    BY DEF IInv
  <1>p. Live(p) /\ p \in 0..Top
    BY StepperLives
  <1>c. PICK c \in 0..Top : c = Source(p)
    BY <1>p, ZeroIndex DEF Source
  <1>1. /\ waiting[p] \in Seq(Fiber) /\ Once(waiting[p])
        /\ working[p] \in Seq(Fiber) /\ Once(working[p])
        /\ slot[c] \in Fiber \cup {None}
    BY <1>i, <1>p DEF TypeOK, QueuesOnce
  <1>2. slot[c] # None => slot[c] \notin Members(waiting[p])
    <2> SUFFICES ASSUME slot[c] \in Fiber, slot[c] \in Members(waiting[p]) PROVE FALSE
      BY <1>1
    <2>1. Holds("slot", c, slot[c]) /\ Holds("waiting", p, slot[c])
      BY <1>p DEF Holds
    <2>2. "slot" \in Spot /\ "waiting" \in Spot
      BY DEF Spot
    <2>3. QED
      BY <1>i, <1>p, <2>1, <2>2 DEF AtMostOne
  <1>3. /\ Queue(p) \in Seq(Fiber) /\ Once(Queue(p))
        /\ Members(Queue(p)) =
             Members(waiting[p]) \cup (IF slot[c] = None THEN {} ELSE {slot[c]})
    <2>1. CASE slot[c] = None
      BY <1>c, <1>1, <2>1 DEF Queue
    <2>2. CASE slot[c] # None
      <3>1. slot[c] \in Fiber /\ Queue(p) = Append(waiting[p], slot[c])
        BY <1>c, <1>1, <2>2 DEF Queue
      <3>2. QED
        BY <1>1, <1>2, <2>2, <3>1, AppendQueue
    <2>3. QED
      BY <2>1, <2>2
  <1>4. \A x \in Reach(p) : x \in Fiber
    BY <1>1, <1>3 DEF Reach, Members
  <1>5. ASSUME NEW x \in Fiber
        PROVE  /\ Holds("working", p, x) <=> x \in Members(working[p])
               /\ Holds("waiting", p, x) <=> x \in Members(waiting[p])
               /\ Holds("slot", c, x) <=> x = slot[c]
    BY <1>p DEF Holds
  <1>6. ASSUME NEW x \in Fiber
        PROVE  x \in Members(Queue(p)) <=> Holds("waiting", p, x) \/ Holds("slot", c, x)
    BY <1>3, <1>5, Sizes
  <1>7. ASSUME NEW x \in Fiber, NEW k \in Spot, NEW q \in 0..Top, Holds(k, q, x)
        PROVE  x \in Reach(p) <=> \/ k \in {"working", "waiting"} /\ q = p
                                  \/ k = "slot" /\ q = c
    <2>1. x \in Reach(p) <=> Holds("working", p, x) \/ Holds("waiting", p, x) \/ Holds("slot", c, x)
      BY <1>5, <1>6 DEF Reach
    <2>2. {"working", "waiting", "slot"} \subseteq Spot
      BY DEF Spot
    <2>3. QED
      BY <1>i, <1>p, <1>7, <2>1, <2>2 DEF AtMostOne
  <1>8. Members(working[p]) \cap Members(Queue(p)) = {}
    <2> SUFFICES ASSUME NEW x \in Members(working[p]), x \in Members(Queue(p)) PROVE FALSE
      OBVIOUS
    <2>1. x \in Fiber
      BY <1>4 DEF Reach
    <2>2. Holds("working", p, x) /\ (Holds("waiting", p, x) \/ Holds("slot", c, x))
      BY <1>5, <1>6, <2>1
    <2>3. {"working", "waiting", "slot"} \subseteq Spot
      BY DEF Spot
    <2>4. QED
      BY <1>i, <1>p, <2>1, <2>2, <2>3 DEF AtMostOne
  <1>9. ASSUME NEW x \in Members(Queue(p))
        PROVE  x \in Fiber /\ home[x] = 0 /\ kind[x] \in {"FIBER", "RUNNING"}
    <2>1. x \in Fiber /\ (Holds("waiting", p, x) \/ Holds("slot", c, x))
      BY <1>4, <1>6 DEF Reach
    <2>2. {"waiting", "slot"} \subseteq Spot
      BY DEF Spot
    <2>3. QED
      BY <1>i, <1>p, <2>1, <2>2 DEF Kinds
  <1>10. ASSUME NEW x \in Members(working[p])
         PROVE  kind[x] \in {"FIBER", "RUNNING"} /\ home[x] \in {0, p}
    <2>1. x \in Fiber /\ Holds("working", p, x) /\ "working" \in Spot
      BY <1>4, <1>5 DEF Reach, Spot
    <2>2. QED
      BY <1>i, <1>p, <2>1 DEF Kinds
  <1>11. QED
    BY <1>c, <1>1, <1>3, <1>4, <1>7, <1>8, <1>9, <1>10 DEF Reach

(* The queues after the step.                                              *)
LEMMA StepQueues ==
  ASSUME IInv, NEW p \in Job, Step(p)
  PROVE  /\ working' \in [Job -> Seq(Fiber)] /\ waiting' \in [Job -> Seq(Fiber)]
         /\ \A q \in Job \ {p} : working'[q] = working[q] /\ waiting'[q] = waiting[q]
         /\ Once(working'[p]) /\ Once(waiting'[p])
         /\ Members(working'[p]) \cup Members(waiting'[p]) = Reach(p)
         /\ Members(working'[p]) \cap Members(waiting'[p]) = {}
         /\ Members(working[p]) \subseteq Members(working'[p])
         /\ Members(waiting'[p]) \subseteq Members(Queue(p))
  <1>i. pc[p] = "step" /\ ~Told(p)
    BY DEF Step
  <1>t. working \in [Job -> Seq(Fiber)] /\ waiting \in [Job -> Seq(Fiber)]
    BY DEF IInv, TypeOK
  <1>r. /\ Queue(p) \in Seq(Fiber) /\ Once(Queue(p))
        /\ working[p] \in Seq(Fiber) /\ Once(working[p])
        /\ Members(working[p]) \cap Members(Queue(p)) = {}
    BY <1>i, ReachFacts
  <1> DEFINE now  == IF Moves(p) THEN Append(working[p], Head(Queue(p))) ELSE working[p]
             left == IF Moves(p) THEN Tail(Queue(p)) ELSE Queue(p)
  <1>s. /\ waiting' = [waiting EXCEPT ![p] = left]
        /\ working' = [working EXCEPT ![p] = now]
    BY Zenon DEF Step, Queue, Moves
  <1>1. CASE Moves(p)
    <2>1. Queue(p) # <<>>
      BY <1>1 DEF Moves
    <2>2. /\ Head(Queue(p)) \in Fiber
          /\ Tail(Queue(p)) \in Seq(Fiber) /\ Once(Tail(Queue(p)))
          /\ Members(Queue(p)) = {Head(Queue(p))} \cup Members(Tail(Queue(p)))
          /\ Head(Queue(p)) \notin Members(Tail(Queue(p)))
      BY <1>r, <2>1, TailQueue
    <2>3. Head(Queue(p)) \notin Members(working[p])
      BY <1>r, <2>2
    <2>4. /\ Append(working[p], Head(Queue(p))) \in Seq(Fiber)
          /\ Once(Append(working[p], Head(Queue(p))))
          /\ Members(Append(working[p], Head(Queue(p)))) = Members(working[p]) \cup {Head(Queue(p))}
      BY <1>r, <2>2, <2>3, AppendQueue
    <2>5. working'[p] = Append(working[p], Head(Queue(p))) /\ waiting'[p] = Tail(Queue(p))
      BY <1>1, <1>s, <1>t
    <2>6. /\ working' \in [Job -> Seq(Fiber)] /\ waiting' \in [Job -> Seq(Fiber)]
          /\ \A q \in Job \ {p} : working'[q] = working[q] /\ waiting'[q] = waiting[q]
      BY <1>1, <1>s, <1>t, <2>2, <2>4
    <2>7. QED
      BY <1>r, <2>2, <2>4, <2>5, <2>6 DEF Reach
  <1>2. CASE ~Moves(p)
    <2>1. working'[p] = working[p] /\ waiting'[p] = Queue(p)
      BY <1>2, <1>s, <1>t
    <2>2. /\ working' \in [Job -> Seq(Fiber)] /\ waiting' \in [Job -> Seq(Fiber)]
          /\ \A q \in Job \ {p} : working'[q] = working[q] /\ waiting'[q] = waiting[q]
      BY <1>2, <1>r, <1>s, <1>t
    <2>3. QED
      BY <1>r, <2>1, <2>2 DEF Reach
  <1>3. QED
    BY <1>1, <1>2

(* A step takes, moves and starts fibers within reach, and keeps it all.   *)
LEMMA StepRuns ==
  ASSUME IInv, NEW p \in Job, Step(p)
  PROVE  IInv'
  <1>i. /\ TypeOK /\ AtMostOne /\ QueuesOnce /\ Threads /\ Labels
        /\ Kinds /\ RanStaysHome /\ NoneMissing /\ Kept
    BY DEF IInv
  <1>a. pc[p] = "step" /\ ~Told(p) /\ p \in alive /\ Live(p) /\ p \in 0..Top
    <2>1. pc[p] = "step" /\ ~Told(p)
      BY DEF Step
    <2>2. p \in 0..Top
      OBVIOUS
    <2>3. QED
      BY <2>1, <2>2, StepperLives
  <1>c. PICK c \in 0..Top : c = Source(p)
    BY <1>a, ReachFacts
  <1>r. /\ \A x \in Fiber, k \in Spot, q \in 0..Top :
             Holds(k, q, x) =>
               (x \in Reach(p) <=> \/ k \in {"working", "waiting"} /\ q = p
                                   \/ k = "slot" /\ q = c)
        /\ \A x \in Members(Queue(p)) : x \in Fiber /\ home[x] = 0
        /\ \A x \in Reach(p) : /\ x \in Fiber
                               /\ kind[x] \in {"FIBER", "RUNNING"}
                               /\ home[x] \in {0, p}
    BY <1>a, <1>c, ReachFacts
  <1>w. /\ working' \in [Job -> Seq(Fiber)] /\ waiting' \in [Job -> Seq(Fiber)]
        /\ \A q \in Job \ {p} : working'[q] = working[q] /\ waiting'[q] = waiting[q]
        /\ Once(working'[p]) /\ Once(waiting'[p])
        /\ Members(working'[p]) \cup Members(waiting'[p]) = Reach(p)
        /\ Members(working'[p]) \cap Members(waiting'[p]) = {}
        /\ Members(working[p]) \subseteq Members(working'[p])
        /\ Members(waiting'[p]) \subseteq Members(Queue(p))
    BY StepQueues
  <1>s. /\ slot' = [slot EXCEPT ![c] = None]
        /\ owner' = [owner EXCEPT ![c] = 0]
        /\ \/ /\ working'[p] = <<>>
              /\ Goto(p, Loop(p))
              /\ UNCHANGED <<kind, home>>
           \/ /\ working'[p] # <<>>
              /\ kind' = [kind EXCEPT ![Head(working'[p])] = "RUNNING"]
              /\ home' = [home EXCEPT ![Head(working'[p])] = IF @ = 0 THEN p ELSE @]
              /\ Goto(p, "exec")
        /\ UNCHANGED <<parked, offer, alive, turn, hand, dest, timed, at>>
    <2> DEFINE now == IF Moves(p) THEN Append(working[p], Head(Queue(p))) ELSE working[p]
    <2>1. /\ working' = [working EXCEPT ![p] = now]
          /\ slot' = [slot EXCEPT ![c] = None]
          /\ owner' = [owner EXCEPT ![c] = 0]
          /\ \/ /\ now = <<>>
                /\ Goto(p, Loop(p))
                /\ UNCHANGED <<kind, home>>
             \/ /\ now # <<>>
                /\ kind' = [kind EXCEPT ![Head(now)] = "RUNNING"]
                /\ home' = [home EXCEPT ![Head(now)] = IF @ = 0 THEN p ELSE @]
                /\ Goto(p, "exec")
          /\ UNCHANGED <<parked, offer, alive, turn, hand, dest, timed, at>>
      BY <1>c, Zenon DEF Step, Queue, Moves
    <2>2. working'[p] = now
      BY <1>i, <2>1 DEF TypeOK
    <2> HIDE DEF now
    <2>3. QED
      BY <2>1, <2>2
  <1>l. /\ pc' \in [Job -> Label] /\ pc'[p] \in {"exec", "host", "step"}
        /\ pc'[p] = "exec" => working'[p] # <<>>
        /\ pc'[p] = "host" => p = Main
        /\ \A q \in Job \ {p} : pc'[q] = pc[q]
    BY <1>i, <1>s DEF TypeOK, Label, Goto, Loop
  <1>o. /\ slot' \in [0..Top -> Fiber \cup {None}] /\ slot'[c] = None
        /\ \A d \in 0..Top \ {c} : slot'[d] = slot[d] /\ owner'[d] = owner[d]
    BY <1>i, <1>s DEF TypeOK
  <1>f. /\ working'[p] # <<>> => /\ Head(working'[p]) \in Members(working'[p])
                                 /\ Head(working'[p]) \in Reach(p)
                                 /\ Head(working'[p]) \in Fiber
        /\ \A x \in Fiber : \/ kind'[x] = kind[x] /\ home'[x] = home[x]
                            \/ /\ working'[p] # <<>> /\ x = Head(working'[p])
                               /\ kind'[x] = "RUNNING" /\ home'[x] = p
        /\ working'[p] # <<>> => kind'[Head(working'[p])] = "RUNNING"
        /\ kind' \in [Fiber -> {"none", "FIBER", "RUNNING", "DONE"}]
        /\ home' \in [Fiber -> 0..Top]
    <2>1. /\ kind \in [Fiber -> {"none", "FIBER", "RUNNING", "DONE"}]
          /\ home \in [Fiber -> 0..Top]
      BY <1>i DEF TypeOK
    <2>2. CASE working'[p] = <<>>
      BY <1>s, <2>1, <2>2
    <2>3. CASE working'[p] # <<>>
      <3>1. PICK h \in Fiber : h = Head(working'[p]) /\ h \in Members(working'[p])
        BY <1>w, <2>3, HeadMember
      <3>2. h \in Reach(p) /\ home[h] \in {0, p}
        BY <1>r, <1>w, <3>1
      <3>3. /\ kind' = [kind EXCEPT ![h] = "RUNNING"]
            /\ home' = [home EXCEPT ![h] = IF @ = 0 THEN p ELSE @]
        BY <1>s, <2>3, <3>1
      <3>4. /\ kind'[h] = "RUNNING" /\ home'[h] = p
            /\ \A x \in Fiber \ {h} : kind'[x] = kind[x] /\ home'[x] = home[x]
            /\ kind' \in [Fiber -> {"none", "FIBER", "RUNNING", "DONE"}]
            /\ home' \in [Fiber -> 0..Top]
        BY <1>a, <2>1, <3>2, <3>3
      <3>5. QED
        BY <2>3, <3>1, <3>2, <3>4
    <2>4. QED
      BY <2>2, <2>3
  <1>t. TypeOK'
    <2>1. owner \in [0..Top -> 0..Top]
      BY <1>i DEF TypeOK
    <2>2. owner' \in [0..Top -> 0..Top]
      BY <1>s, <2>1, ZeroIndex, Zenon
    <2>3. QED
      BY <1>i, <1>w, <1>s, <1>l, <1>o, <1>f, <2>2 DEF TypeOK
  <1>h. ASSUME NEW k \in Spot, NEW q \in 0..Top, NEW x \in Fiber
        PROVE  /\ Holds(k, q, x)' =>
                    IF x \in Reach(p)
                    THEN /\ q = p
                         /\ \/ k = "working" /\ x \in Members(working'[p])
                            \/ k = "waiting" /\ x \in Members(waiting'[p])
                    ELSE Holds(k, q, x)
               /\ x \notin Reach(p) => (Holds(k, q, x) => Holds(k, q, x)')
    <2>1. Holds(k, q, x) => (x \in Reach(p) <=> \/ k \in {"working", "waiting"} /\ q = p
                                                \/ k = "slot" /\ q = c)
      BY <1>r
    <2>2. CASE k = "working"
      <3>1. q # p => (Holds(k, q, x)' <=> Holds(k, q, x))
        BY <1>w, <2>2 DEF Holds
      <3>2. q = p => (Holds(k, q, x)' <=> x \in Members(working'[p]))
        BY <2>2 DEF Holds
      <3>3. q = p => (Holds(k, q, x) <=> x \in Members(working[p]))
        BY <2>2 DEF Holds
      <3>4. QED
        BY <1>w, <2>1, <2>2, <3>1, <3>2, <3>3
    <2>3. CASE k = "waiting"
      <3>1. q # p => (Holds(k, q, x)' <=> Holds(k, q, x))
        BY <1>w, <1>s, <2>3 DEF Holds, Live
      <3>2. q = p => (Holds(k, q, x)' <=> x \in Members(waiting'[p]))
        BY <1>a, <1>s, <2>3 DEF Holds, Live
      <3>4. QED
        BY <1>w, <2>1, <2>3, <3>1, <3>2
    <2>4. CASE k = "slot"
      <3>1. q # c => (Holds(k, q, x)' <=> Holds(k, q, x))
        BY <1>o, <2>4 DEF Holds
      <3>2. q = c => ~Holds(k, q, x)'
        BY <1>o, <2>4, Sizes DEF Holds
      <3>3. QED
        BY <2>1, <2>4, <3>1, <3>2
    <2>5. CASE k = "hand"
      <3>1. Holds(k, q, x)' <=> Holds(k, q, x)
        BY <1>a, <1>l, <1>s, <2>5 DEF Holds
      <3>2. QED
        BY <2>1, <2>5, <3>1
    <2>6. QED
      BY <2>2, <2>3, <2>4, <2>5 DEF Spot
  <1>1. AtMostOne'
    <2> SUFFICES ASSUME NEW f \in Fiber, NEW k \in Spot, NEW l \in Spot,
                        NEW q \in 0..Top, NEW r \in 0..Top,
                        Holds(k, q, f)', Holds(l, r, f)'
                 PROVE  k = l /\ q = r
      BY DEF AtMostOne
    <2>1. CASE f \in Reach(p)
      <3>1. /\ q = p /\ \/ k = "working" /\ f \in Members(working'[p])
                        \/ k = "waiting" /\ f \in Members(waiting'[p])
            /\ r = p /\ \/ l = "working" /\ f \in Members(working'[p])
                        \/ l = "waiting" /\ f \in Members(waiting'[p])
        BY <1>h, <2>1
      <3>2. ~(f \in Members(working'[p]) /\ f \in Members(waiting'[p]))
        BY <1>w
      <3>3. QED
        BY <3>1, <3>2
    <2>2. CASE f \notin Reach(p)
      <3>1. Holds(k, q, f) /\ Holds(l, r, f)
        BY <1>h, <2>2
      <3>2. QED
        BY <1>i, <3>1 DEF AtMostOne
    <2>3. QED
      BY <2>1, <2>2
  <1>2. Kinds'
    <2>1. \A f \in Fiber : kind'[f] = "none" => home'[f] = 0
      BY <1>i, <1>f DEF Kinds
    <2>2. ASSUME NEW f \in Fiber, NEW k \in Spot, NEW q \in 0..Top, Holds(k, q, f)'
          PROVE  /\ kind'[f] \in {"FIBER", "RUNNING"}
                 /\ home'[f] \in IF k = "working" THEN {0, q} ELSE {0}
      <3>1. CASE f \in Reach(p)
        <4>1. kind[f] \in {"FIBER", "RUNNING"} /\ home[f] \in {0, p}
          BY <1>r, <3>1
        <4>2. q = p /\ \/ k = "working" /\ f \in Members(working'[p])
                       \/ k = "waiting" /\ f \in Members(waiting'[p])
          BY <1>h, <2>2, <3>1
        <4>3. CASE k = "working"
          BY <1>f, <4>1, <4>2, <4>3
        <4>4. CASE k = "waiting" /\ f \in Members(waiting'[p])
          <5>1. home[f] = 0
            BY <1>r, <1>w, <4>4
          <5>2. f \notin Members(working'[p])
            BY <1>w, <4>4
          <5>3. QED
            BY <1>f, <4>1, <4>4, <5>1, <5>2
        <4>5. QED
          BY <4>2, <4>3, <4>4
      <3>2. CASE f \notin Reach(p)
        <4>1. Holds(k, q, f)
          BY <1>h, <2>2, <3>2
        <4>2. kind'[f] = kind[f] /\ home'[f] = home[f]
          BY <1>f, <3>2
        <4>3. QED
          BY <1>i, <4>1, <4>2 DEF Kinds
      <3>3. QED
        BY <3>1, <3>2
    <2>3. QED
      BY <2>1, <2>2 DEF Kinds
  <1>3. NoneMissing'
    <2> SUFFICES ASSUME turn = 0, NEW x \in Fiber, kind'[x] \in {"FIBER", "RUNNING"}
                 PROVE  \E k \in Spot, q \in 0..Top : Holds(k, q, x)'
      BY <1>s DEF NoneMissing
    <2>1. CASE x \in Reach(p)
      <3>1. Holds("working", p, x)' \/ Holds("waiting", p, x)'
        BY <1>a, <1>s, <1>w, <2>1 DEF Holds, Live
      <3>2. "working" \in Spot /\ "waiting" \in Spot
        BY DEF Spot
      <3>3. QED
        BY <1>a, <3>1, <3>2
    <2>2. CASE x \notin Reach(p)
      <3>1. kind[x] \in {"FIBER", "RUNNING"}
        BY <1>f, <2>2
      <3>2. PICK k \in Spot, q \in 0..Top : Holds(k, q, x)
        BY <1>i, <3>1 DEF NoneMissing
      <3>3. QED
        BY <1>h, <2>2, <3>2
    <2>3. QED
      BY <2>1, <2>2
  <1>4. QueuesOnce'
    BY <1>i, <1>s, <1>w DEF QueuesOnce, Live
  <1>5. Threads'
    BY <1>i, <1>a, <1>s, <1>w, <1>l DEF Threads
  <1>6. Labels'
    <2>1. ASSUME NEW q \in Job \ {p} PROVE IsRunning(q)' <=> IsRunning(q)
      <3>1. CASE working[q] = <<>>
        BY <1>w, <2>1, <3>1 DEF IsRunning
      <3>2. CASE working[q] # <<>>
        <4>1. working[q] \in Seq(Fiber)
          BY <1>i DEF TypeOK
        <4>2. Front(q) \in Fiber /\ Front(q) \in Members(working[q])
          BY <3>2, <4>1, HeadMember DEF Front
        <4>3. Holds("working", q, Front(q)) /\ "working" \in Spot /\ q \in 0..Top
          BY <4>2 DEF Holds, Spot
        <4>4. Front(q) \notin Reach(p)
          BY <1>r, <2>1, <4>2, <4>3
        <4>5. kind'[Front(q)] = kind[Front(q)] /\ working'[q] = working[q]
          BY <1>f, <1>w, <2>1, <4>2, <4>4
        <4>6. QED
          BY <4>5 DEF IsRunning, Front
      <3>3. QED
        BY <3>1, <3>2
    <2>2. pc'[p] = "exec" => IsRunning(p)'
      BY <1>f, <1>l DEF IsRunning, Front
    <2>3. QED
      BY <1>i, <1>s, <1>l, <2>1, <2>2 DEF Labels
  <1>7. RanStaysHome'
    <2> SUFFICES ASSUME NEW x \in Fiber, home'[x] # 0, kind'[x] # "DONE"
                 PROVE  x \in Members(working'[home'[x]])
      BY DEF RanStaysHome
    <2>1. CASE working'[p] # <<>> /\ x = Head(working'[p]) /\ home'[x] = p
      BY <1>f, <2>1
    <2>2. CASE kind'[x] = kind[x] /\ home'[x] = home[x]
      <3>1. home[x] \in Job
        BY <1>i, <2>2, HomeJob
      <3>2. x \in Members(working[home[x]])
        BY <1>i, <2>2 DEF RanStaysHome
      <3>3. QED
        BY <1>w, <2>2, <3>1, <3>2
    <2>3. QED
      BY <1>f, <2>1, <2>2
  <1>8. Kept'
    <2>1. ASSUME turn = 0, NEW q \in Job \ alive
          PROVE  waiting'[q] = <<>> /\ slot'[q] = None
      <3>1. q \in 0..Top /\ q \in Job /\ q # p /\ waiting[q] = <<>> /\ slot[q] = None
        BY <1>i, <1>a, <2>1 DEF Kept
      <3>2. QED
        BY <1>w, <1>o, <3>1
    <2>2. turn = 0 => \A q \in Job : pc'[q] \in {"offer", "offered"}
                                       => dest[q] \in alive \cup {Global}
      BY <1>i, <1>l DEF Kept
    <2>3. turn = 0 => \A d \in 0..Top : slot'[d] # None => owner'[d] # 0
      BY <1>i, <1>o DEF Kept
    <2>4. QED
      BY <1>s, <2>1, <2>2, <2>3 DEF Kept
  <1>9. QED
    BY <1>t, <1>1, <1>2, <1>3, <1>4, <1>5, <1>6, <1>7, <1>8 DEF IInv

-----------------------------------------------------------------------------
(* Each action is one of the moves above.                                  *)

(* Where a job goes after a step of a fiber.                               *)
LEMMA LoopFacts ==
  ASSUME NEW p \in Job
  PROVE  Loop(p) \in {"host", "step"} /\ (Loop(p) = "host" => p = Main)
  BY DEF Loop

(* A fiber that runs is given up to the end of the fiber: Finish.          *)
LEMMA FinishKeeps ==
  ASSUME IInv, NEW p \in Job, pc[p] \in {"exec", "join", "back"}, IsRunning(p),
         Finish(p), TurnStep, parked' \subseteq Fiber, offer' \in Fiber \cup {None},
         UNCHANGED <<home, waiting, slot, owner, alive, hand, dest, timed, at>>
  PROVE  IInv'
  <1>1. PICK l \in {"host", "step"} : l = Loop(p) /\ (l = "host" => p = Main)
    BY LoopFacts
  <1>2. Goto(p, l)
    BY <1>1 DEF Finish, Goto
  <1>3. kind' = [kind EXCEPT ![Front(p)] = "DONE"] /\ working' = [working EXCEPT ![p] = Tail(@)]
    BY DEF Finish
  <1>4. QED
    BY <1>1, <1>2, <1>3, DropFront

(* A fiber that yields stays with its job: Yield.                          *)
LEMMA YieldKeeps ==
  ASSUME IInv, NEW p \in Job, pc[p] = "exec", IsRunning(p), Yield(p),
         parked' \subseteq Fiber, offer' \in Fiber \cup {None},
         UNCHANGED <<home, waiting, slot, owner, alive, turn, hand, dest, timed, at>>
  PROVE  IInv'
  <1>1. PICK l \in {"host", "step"} : l = Loop(p) /\ (l = "host" => p = Main)
    BY LoopFacts
  <1>2. Goto(p, l)
    BY <1>1 DEF Yield, Goto
  <1>3. /\ kind' = [kind EXCEPT ![Front(p)] = "FIBER"]
        /\ working' = [working EXCEPT ![p] = Append(Tail(@), Front(p))]
    BY DEF Yield
  <1>4. QED
    BY <1>1, <1>2, <1>3, RotateFront

(* The lowest job that is alive is one of them.                            *)
LEMMA LowestJob ==
  ASSUME IInv, alive # {}
  PROVE  Least(alive) \in Job \cap alive /\ \A j \in Job : j \in alive => Least(alive) <= j
  <1>1. alive \subseteq Job
    BY DEF IInv, TypeOK
  <1>2. PICK S \in SUBSET Nat : S = alive
    BY <1>1
  <1>3. QED
    BY <1>1, <1>2, LeastIsLeast

(* The opcodes that finish, yield, or hand a fiber over.                   *)
LEMMA ExecKeeps ==
  ASSUME IInv, NEW p \in Job, Exec(p)
  PROVE  IInv'
  <1>i. /\ parked \subseteq Fiber /\ offer \in Fiber \cup {None}
        /\ \A q \in Job : pc[q] \in {"exec", "join"} => IsRunning(q)
        /\ \A q \in Job : pc[q] = "exec" => q \in alive
    BY DEF IInv, TypeOK, Labels, Threads
  <1>1. CASE ExecRun(p)
    <2>1. pc[p] = "exec" /\ Finish(p) /\ TurnStep
      BY <1>1 DEF ExecRun, Doing, TurnStep
    <2>2. UNCHANGED <<parked, home, offer, waiting, slot, owner, alive, hand, dest, timed, at>>
      BY <1>1 DEF ExecRun, chans
    <2>3. QED
      BY <1>i, <2>1, <2>2, FinishKeeps
  <1>2. CASE ExecPanic(p)
    <2>1. pc[p] = "exec" /\ Finish(p) /\ p \in alive
      BY <1>2, <1>i DEF ExecPanic, Doing
    <2>2. UNCHANGED <<parked, home, offer, waiting, slot, owner, alive, hand, dest, timed, at>>
      BY <1>2 DEF ExecPanic, chans
    <2>3. turn' = IF TermOnErr /\ turn = 0 THEN Least(alive) ELSE turn
      BY <1>2 DEF ExecPanic
    <2>4. TurnStep
      BY <2>1, <2>3, LowestJob DEF TurnStep
    <2>5. QED
      BY <1>i, <2>1, <2>2, <2>4, FinishKeeps
  <1>3. CASE ExecPut(p)
    <2>1. pc[p] = "exec" /\ IsRunning(p) /\ Front(p) \in Fiber
      BY <1>3, <1>i, FrontFacts DEF ExecPut, Doing
    <2>2. UNCHANGED <<home, waiting, slot, owner, alive, turn, hand, dest, timed, at>>
      BY <1>3 DEF ExecPut, chans
    <2>3. parked' \subseteq Fiber /\ offer' \in Fiber \cup {None}
      BY <1>3, <1>i, <2>1 DEF ExecPut
    <2>4. Yield(p) \/ Finish(p)
      BY <1>3 DEF ExecPut
    <2>5. QED
      BY <2>1, <2>2, <2>3, <2>4, FinishKeeps, YieldKeeps DEF TurnStep
  <1>4. CASE ExecTake(p)
    <2>1. pc[p] = "exec" /\ IsRunning(p)
      BY <1>4, <1>i DEF ExecTake, Doing
    <2>2. UNCHANGED <<home, waiting, slot, owner, alive, turn, hand, dest, timed, at>>
      BY <1>4 DEF ExecTake, chans
    <2>3. parked' \subseteq Fiber /\ offer' \in Fiber \cup {None}
      BY <1>4, <1>i DEF ExecTake
    <2>4. Yield(p) \/ Finish(p)
      BY <1>4 DEF ExecTake
    <2>5. QED
      BY <2>1, <2>2, <2>3, <2>4, FinishKeeps, YieldKeeps DEF TurnStep
  <1>5. CASE ExecAwait(p)
    <2>1. pc[p] = "exec" /\ IsRunning(p)
      BY <1>5, <1>i DEF ExecAwait, Doing
    <2>2. UNCHANGED <<parked, home, offer, waiting, slot, owner, alive, turn, hand, dest, timed, at>>
      BY <1>5 DEF ExecAwait, chans
    <2>4. Yield(p) \/ Finish(p)
      BY <1>5 DEF ExecAwait
    <2>5. QED
      BY <1>i, <2>1, <2>2, <2>4, FinishKeeps, YieldKeeps DEF TurnStep
  <1>6. ASSUME NEW limited \in BOOLEAN,
               pc[p] = "exec", Work[Front(p)].op \in {"fork", "use"},
               Created(Work[Front(p)].arg), Launch(p, Work[Front(p)].arg, limited),
               UNCHANGED <<parked, home, offer, turn, at>>
        PROVE  IInv'
    <2>1. Front(p) \in Fiber
      BY <1>6, <1>i, FrontFacts
    <2>2. PICK g \in Fiber : g = Work[Front(p)].arg
      BY <1>6, <2>1, ArgType
    <2>3. Created(g)
      BY <1>6, <2>2 DEF Created
    <2>4. CASE Spawn(p, g, "back")
      BY <1>6, <2>3, <2>4, SpawnBegins
    <2>5. CASE Put(p, g, Global, limited)
      <3>1. /\ Goto(p, "offer") /\ hand' = [hand EXCEPT ![p] = g]
            /\ dest' = [dest EXCEPT ![p] = Global]
            /\ UNCHANGED <<queues, chans, alive>>
        BY <2>5 DEF Put
      <3>2. timed' \in [Job -> BOOLEAN]
        <4>1. timed \in [Job -> BOOLEAN] /\ timed' = [timed EXCEPT ![p] = limited]
          BY <2>5 DEF IInv, TypeOK, Put
        <4>2. QED
          BY <4>1
      <3>3. QED
        BY <1>6, <2>3, <3>1, <3>2, HandTakes
    <2>6. QED
      BY <1>6, <2>2, <2>4, <2>5 DEF Launch
  <1>7. CASE ExecFork(p)
    BY <1>7, <1>6 DEF ExecFork, Doing
  <1>8. CASE ExecUse(p)
    BY <1>8, <1>6 DEF ExecUse, Doing
  <1>9. CASE ExecTold(p)
    <2>1. pc[p] \in {"exec", "join"} /\ IsRunning(p)
      BY <1>9, <1>i DEF ExecTold
    <2>2. UNCHANGED <<parked, home, offer, waiting, slot, owner, alive, turn, hand, dest, timed, at>>
      BY <1>9 DEF ExecTold, chans
    <2>3. /\ kind' = [kind EXCEPT ![Front(p)] = "DONE"]
          /\ working' = [working EXCEPT ![p] = Tail(@)] /\ Goto(p, "bail")
      BY <1>9 DEF ExecTold
    <2>4. QED
      BY <1>i, <2>1, <2>2, <2>3, DropFront DEF TurnStep
  <1>10. QED
    BY <1>1, <1>2, <1>3, <1>4, <1>5, <1>7, <1>8, <1>9 DEF Exec

(* What a put begins, ends, or gives up.                                   *)
LEMMA PutKeeps ==
  ASSUME IInv, NEW p \in Job, Offer(p) \/ Offered(p)
  PROVE  IInv'
  <1>1. CASE Offer(p)
    <2>1. /\ pc[p] = "offer"
          /\ UNCHANGED <<fibers, working, alive, turn, hand, dest, timed, at>>
      BY <1>1 DEF Offer
    <2>2. CASE /\ slot[dest[p]] = None
               /\ slot' = [slot EXCEPT ![dest[p]] = hand[p]]
               /\ owner' = [owner EXCEPT ![dest[p]] = p]
               /\ Goto(p, "offered")
               /\ UNCHANGED waiting
      BY <2>1, <2>2, OfferStores DEF queues
    <2>3. CASE /\ timed[p] \/ Told(p)
               /\ KeepIfTimed(p)
               /\ Goto(p, "back")
               /\ UNCHANGED chans
      <3>1. CASE Told(p)
        <4>1. /\ slot' \in [0..Top -> Fiber \cup {None}]
              /\ owner' \in [0..Top -> 0..Top]
              /\ \A c \in 0..Top : slot'[c] \in {slot[c], None}
          BY <2>3 DEF chans, IInv, TypeOK
        <4>2. QED
          BY <2>1, <2>3, <3>1, <4>1, GivesUpTold
      <3>2. CASE ~Told(p)
        BY <2>1, <2>3, <3>2, GivesUpTimed
      <3>3. QED
        BY <3>1, <3>2
    <2>4. QED
      BY <1>1, <2>2, <2>3 DEF Offer
  <1>2. CASE Offered(p)
    <2>1. /\ pc[p] = "offered" /\ Goto(p, "back")
          /\ UNCHANGED <<fibers, working, alive, turn, hand, dest, timed, at>>
      BY <1>2 DEF Offered
    <2>2. CASE UNCHANGED <<waiting, chans>>
      <3>1. /\ TurnStep
            /\ at' = at
            /\ UNCHANGED <<kind, parked, home, working, waiting, slot, owner, alive,
                           offer, hand, dest, timed>>
        BY <2>1, <2>2 DEF fibers, chans, TurnStep
      <3>2. QED
        BY <2>1, <3>1, JustGoto
    <2>i. /\ slot \in [0..Top -> Fiber \cup {None}] /\ owner \in [0..Top -> 0..Top]
          /\ dest[p] \in 0..Top
      BY DEF IInv, TypeOK
    <2>3. CASE /\ slot[dest[p]] = hand[p] /\ timed[p]
               /\ KeepIfTimed(p)
               /\ slot' = [slot EXCEPT ![dest[p]] = None]
               /\ owner' = [owner EXCEPT ![dest[p]] = 0]
      <3>1. CASE Told(p)
        <4>1. /\ slot' \in [0..Top -> Fiber \cup {None}]
              /\ owner' \in [0..Top -> 0..Top]
              /\ \A c \in 0..Top : slot'[c] \in {slot[c], None}
          BY <2>3, <2>i, ZeroIndex, Zenon
        <4>2. QED
          BY <2>1, <2>3, <3>1, <4>1, GivesUpTold
      <3>2. CASE ~Told(p)
        BY <2>1, <2>3, <3>2, GivesUpTimed
      <3>3. QED
        BY <3>1, <3>2
    <2>4. CASE /\ Told(p)
               /\ KeepIfTimed(p)
               /\ owner' = [owner EXCEPT ![dest[p]] = 0]
               /\ UNCHANGED slot
      <3>1. /\ slot' \in [0..Top -> Fiber \cup {None}]
            /\ \A c \in 0..Top : slot'[c] \in {slot[c], None}
        BY <2>4, <2>i
      <3>2. owner' \in [0..Top -> 0..Top]
        BY <2>4, <2>i, ZeroIndex, Zenon
      <3>3. QED
        BY <2>1, <2>4, <3>1, <3>2, GivesUpTold
    <2>5. QED
      BY <1>2, <2>2, <2>3, <2>4 DEF Offered
  <1>3. QED
    BY <1>1, <1>2

(* Every step of a job keeps the invariant.                                *)
LEMMA JobKeeps ==
  ASSUME IInv, NEW p \in Job, JobStep(p)
  PROVE  IInv'
  <1>i. /\ \A q \in Job : pc[q] \in {"exec", "join"} => IsRunning(q)
        /\ \A q \in Job : pc[q] = "back" /\ ~IsRunning(q) => q = Main /\ at <= Len(Program)
        /\ parked \subseteq Fiber /\ offer \in Fiber \cup {None}
    BY DEF IInv, Labels, TypeOK
  <1>1. CASE StepTold(p)
    <2>1. /\ pc[p] = "step" /\ Goto(p, "bail") /\ TurnStep /\ at' = at
          /\ UNCHANGED <<kind, parked, home, working, waiting, slot, owner, alive,
                         offer, hand, dest, timed>>
      BY <1>1 DEF StepTold, TurnStep, fibers, queues, chans
    <2>2. QED
      BY <2>1, JustGoto
  <1>2. CASE Back(p)
    <2>1. /\ pc[p] = "back" /\ TurnStep
          /\ UNCHANGED <<parked, home, offer, waiting, slot, owner, alive, hand, dest, timed>>
      BY <1>2 DEF Back, TurnStep, chans
    <2>2. CASE ~IsRunning(p) /\ at' = at + 1 /\ Goto(p, "host") /\ UNCHANGED <<kind, working>>
      BY <1>i, <2>1, <2>2, JustGoto
    <2>3. CASE IsRunning(p) /\ Finish(p) /\ UNCHANGED at
      BY <1>i, <2>1, <2>3, FinishKeeps
    <2>4. CASE IsRunning(p) /\ Goto(p, "join") /\ UNCHANGED <<kind, working, at>>
      <3>1. /\ at' = at
            /\ UNCHANGED <<kind, parked, home, working, waiting, slot, owner, alive,
                           offer, hand, dest, timed>>
        BY <2>1, <2>4
      <3>2. QED
        BY <2>1, <2>4, <3>1, JustGoto
    <2>5. QED
      BY <1>2, <2>2, <2>3, <2>4 DEF Back
  <1>3. CASE Join(p)
    <2>1. /\ pc[p] = "join" /\ IsRunning(p) /\ Finish(p) /\ TurnStep
          /\ UNCHANGED <<parked, home, offer, waiting, slot, owner, alive, hand, dest, timed, at>>
      BY <1>i, <1>3 DEF Join, TurnStep, chans
    <2>2. QED
      BY <1>i, <2>1, FinishKeeps
  <1>4. QED
    BY <1>1, <1>2, <1>3, StepRuns, JunkCrashes, ExecKeeps, PutKeeps, BailEnds DEF JobStep

(* gab_sigterm by the embedder raises TERM and moves no fiber.             *)
LEMMA TermOnly ==
  ASSUME IInv, TurnStep,
         UNCHANGED <<kind, parked, home, offer, working, waiting, slot, owner, alive,
                     pc, hand, dest, timed, at>>
  PROVE  IInv'
  <1>i. /\ TypeOK /\ QueuesOnce /\ Threads /\ Labels /\ RanStaysHome /\ Kept
    BY DEF IInv
  <1>s. /\ turn' \in 0..(Top + 1)
        /\ turn' = 0 => turn = 0
        /\ \A p \in Job : Live(p)' => Live(p)
        /\ \A p \in Job : turn' = 0 => Live(p)' /\ Live(p)
        /\ turn' # 0 => \A p \in alive : turn' <= p
    BY <1>i, TurnFacts
  <1>1. Unmoved
    <2>1. ASSUME NEW k \in Spot, NEW q \in 0..Top, NEW f \in Fiber
          PROVE  /\ Holds(k, q, f)' => Holds(k, q, f)
                 /\ turn' = 0 => (Holds(k, q, f) => Holds(k, q, f)')
      BY <1>s DEF Holds
    <2>2. QED
      BY <1>s, <2>1 DEF Unmoved
  <1>2. AtMostOne' /\ Kinds' /\ NoneMissing'
    BY <1>1, SameSpots
  <1>3. TypeOK'
    BY <1>i, <1>s DEF TypeOK
  <1>4. QueuesOnce' /\ RanStaysHome' /\ Kept'
    BY <1>i, <1>s DEF QueuesOnce, RanStaysHome, Kept
  <1>5. Threads' /\ Labels'
    BY <1>i, <1>s DEF Threads, Labels, IsRunning, Front
  <1>6. QED
    BY <1>2, <1>3, <1>4, <1>5 DEF IInv

(* A call of the host creates a fiber and hands it over, or fails.         *)
LEMMA CallKeeps ==
  ASSUME IInv, HostCall
  PROVE  IInv'
  <1>1. /\ pc[Main] = "host" /\ at <= Len(Program)
        /\ UNCHANGED <<parked, home, offer, turn, at>>
    BY DEF HostCall
  <1>2. at \in 1..Len(Program) /\ Main \in Job
    BY <1>1 DEF IInv, TypeOK
  <1>3. Program[at] \in Request
    BY <1>2, ConstantsAssumption, ElementOfSeq
  <1>4. PICK f \in Fiber : f = Program[at].fib
    BY <1>3 DEF Request
  <1>5. timed \in [Job -> BOOLEAN] /\ alive \subseteq Job /\ Main \in alive
    BY <1>1, <1>2 DEF IInv, TypeOK, Threads
  <1>6. ASSUME NEW limited \in BOOLEAN, Created(f), NEW c \in alive \cup {Global},
               Put(Main, f, c, limited)
        PROVE  IInv'
    <2>1. timed' \in [Job -> BOOLEAN]
      BY <1>5, <1>6 DEF Put
    <2>2. /\ Goto(Main, "offer") /\ hand' = [hand EXCEPT ![Main] = f]
          /\ dest' = [dest EXCEPT ![Main] = c]
          /\ UNCHANGED <<queues, chans, alive>>
      BY <1>6 DEF Put
    <2>3. QED
      BY <1>1, <1>2, <1>6, <2>1, <2>2, HandTakes
  <1>7. ASSUME NEW limited \in BOOLEAN, Created(f), Launch(Main, f, limited)
        PROVE  IInv'
    <2>1. CASE Spawn(Main, f, "back")
      BY <1>1, <1>2, <1>7, <2>1, SpawnBegins
    <2>2. CASE Put(Main, f, Global, limited)
      BY <1>7, <1>6, <2>2
    <2>3. QED
      BY <1>7, <2>1, <2>2 DEF Launch
  <1>8. ASSUME NEW k, Created(f), PutPinned(f, k)
        PROVE  IInv'
    <2>1. CASE /\ hand' = [hand EXCEPT ![Main] = f] /\ Goto(Main, "pin")
               /\ UNCHANGED <<queues, chans, alive, dest, timed>>
      BY <1>1, <1>2, <1>5, <1>8, <2>1, HandTakes
    <2>2. CASE /\ waiting' = [waiting EXCEPT ![Main] = Append(@, f)]
               /\ Goto(Main, "back")
               /\ UNCHANGED <<working, chans, alive, hand, dest, timed>>
      BY <1>1, <1>8, <2>2, QueueTakes
    <2>3. CASE k \in alive \ {Main} /\ Put(Main, f, k, FALSE)
      BY <1>8, <1>6, <2>3
    <2>4. QED
      BY <1>8, <2>1, <2>2, <2>3 DEF PutPinned
  <1>9. CASE Goto(Main, "back") /\ UNCHANGED <<kind, queues, chans, alive, hand, dest, timed>>
    <2>1. /\ TurnStep /\ at' = at
          /\ UNCHANGED <<kind, parked, home, working, waiting, slot, owner, alive,
                         offer, hand, dest, timed>>
      BY <1>1, <1>9 DEF TurnStep, queues, chans
    <2>2. QED
      BY <1>1, <1>2, <1>9, <2>1, JustGoto
  <1>10. QED
    BY <1>4, <1>7, <1>8, <1>9 DEF HostCall

(* The host begins the job it chose, awaits its fibers, or raises TERM.    *)
LEMMA HostKeeps ==
  ASSUME IInv, HostStep
  PROVE  IInv'
  <1>m. Main \in Job
    OBVIOUS
  <1>1. CASE HostPin
    <2>1. pc[Main] = "pin" /\ UNCHANGED <<parked, home, offer, turn, at>>
      BY <1>1 DEF HostPin
    <2>2. PICK f \in Fiber : f = hand[Main]
      BY <2>1, <1>m DEF IInv, Labels
    <2>3. CASE Spawn(Main, f, "back") /\ UNCHANGED kind
      BY <1>m, <2>1, <2>2, <2>3, SpawnBegins
    <2>4. CASE /\ kind' = [kind EXCEPT ![hand[Main]] = "none"]
               /\ Goto(Main, "back")
               /\ UNCHANGED <<queues, chans, alive, hand, dest, timed>>
      BY <2>1, <2>4, PinDrops
    <2>5. QED
      BY <1>1, <2>2, <2>3, <2>4 DEF HostPin
  <1>2. CASE HostAwait
    <2>1. /\ pc[Main] = "host" /\ at' = at
          /\ UNCHANGED <<kind, parked, home, working, waiting, slot, owner, alive,
                         offer, hand, dest, timed>>
          /\ Goto(Main, "bail") \/ Goto(Main, "step")
          /\ turn' \in {turn, IF turn = 0 THEN Main ELSE turn}
      BY <1>2 DEF HostAwait, fibers, queues, chans
    <2>2. Main \in alive /\ alive \subseteq Job
      BY <1>m, <2>1 DEF IInv, TypeOK, Threads
    <2>3. TurnStep
      BY <2>1, <2>2 DEF TurnStep
    <2>4. QED
      BY <1>m, <2>1, <2>3, JustGoto
  <1>3. QED
    BY <1>1, <1>2, CallKeeps DEF HostStep

(* Every step keeps the invariant.                                         *)
LEMMA NextKeeps == IInv /\ [Next]_vars => IInv'
  <1> SUFFICES ASSUME IInv, [Next]_vars PROVE IInv'
    OBVIOUS
  <1>1. ASSUME NEW p \in Job, JobStep(p) PROVE IInv'
    BY <1>1, JobKeeps
  <1>2. CASE HostStep
    BY <1>2, HostKeeps
  <1>3. CASE Terminate
    <2>1. /\ turn = 0 /\ turn' = Least(alive)
          /\ UNCHANGED <<kind, parked, home, offer, working, waiting, slot, owner, alive,
                         pc, hand, dest, timed, at>>
      BY <1>3 DEF Terminate, fibers, queues, chans, locals
    <2>2. TurnStep
      BY <2>1, LowestJob DEF TurnStep, IInv, Threads
    <2>3. QED
      BY <2>1, <2>2, TermOnly
  <1>4. CASE UNCHANGED vars
    <2>1. /\ TurnStep
          /\ UNCHANGED <<kind, parked, home, offer, working, waiting, slot, owner, alive,
                         pc, hand, dest, timed, at>>
      BY <1>4 DEF TurnStep, vars, fibers, queues, chans, locals
    <2>2. QED
      BY <2>1, TermOnly
  <1>5. QED
    BY <1>1, <1>2, <1>3, <1>4 DEF Next

(* The inductive invariant holds in every state that can be reached.       *)
THEOREM Inductive == Spec => []IInv
  BY InitInv, NextKeeps, PTL DEF Spec

-----------------------------------------------------------------------------
(* What the invariant says of the scheduler.                               *)

(* Every variable has its type: no queue, channel or hand holds anything   *)
(* but fibers, and every job is at one of its labels.                      *)
THEOREM TypesHold == Spec => []TypeOK
  <1>1. IInv => TypeOK
    BY DEF IInv
  <1>2. QED
    BY <1>1, Inductive, PTL

(* "Once a fiber has begun running in a job, it may not migrate": until it *)
(* is done it stays in the working queue of the job that first ran it.     *)
THEOREM NoMigration == Spec => []RanStaysHome
  <1>1. IInv => RanStaysHome
    BY DEF IInv
  <1>2. QED
    BY <1>1, Inductive, PTL

(* Once TERM has been round, each fiber that ever ran is done: the jobs    *)
(* are all gone, and with them the queues where it could be half run.      *)
THEOREM NobodyHalfRun == Spec => []NoneHalfRun
  <1>1. ASSUME IInv PROVE NoneHalfRun
    <2> SUFFICES ASSUME turn = Top + 1, NEW f \in Fiber, home[f] # 0, kind[f] # "DONE"
                 PROVE  FALSE
      BY DEF NoneHalfRun
    <2>1. home[f] \in Job
      BY <1>1 DEF IInv, TypeOK
    <2>2. f \in Members(working[home[f]])
      BY <1>1 DEF IInv, RanStaysHome
    <2>3. home[f] \notin alive
      BY <1>1, <2>1 DEF IInv, Threads, TypeOK
    <2>4. working[home[f]] = <<>>
      BY <1>1, <2>1, <2>3 DEF IInv, Threads
    <2>5. QED
      BY <2>2, <2>4, EmptyQueue
  <1>2. QED
    BY <1>1, Inductive, PTL

(* What no queue holds is counted nowhere ...                              *)
LEMMA QueuedNowhere ==
  ASSUME NEW queue \in [Job -> Seq(Fiber)], NEW f \in Fiber,
         \A p \in Job : f \notin Members(queue[p])
  PROVE  Queued(queue, f) = 0
  <1>1. \A p \in Job : \A i \in DOMAIN queue[p] : queue[p][i] # f
    BY DEF Members
  <1>2. {x \in UNION {{p} \X DOMAIN queue[p] : p \in Job} : queue[x[1]][x[2]] = f} = {}
    <2> SUFFICES ASSUME NEW p \in Job, NEW x \in {p} \X DOMAIN queue[p]
                 PROVE  queue[x[1]][x[2]] # f
      OBVIOUS
    <2>1. x[1] = p /\ x[2] \in DOMAIN queue[p]
      OBVIOUS
    <2>2. QED
      BY <1>1, <2>1
  <1>3. QED
    BY <1>2, FS_EmptySet DEF Queued

(* ... and what one queue holds, once, is counted once.                    *)
LEMMA QueuedOnce ==
  ASSUME NEW queue \in [Job -> Seq(Fiber)], NEW f \in Fiber, NEW p \in Job,
         Once(queue[p]), f \in Members(queue[p]),
         \A q \in Job \ {p} : f \notin Members(queue[q])
  PROVE  Queued(queue, f) = 1
  <1>1. PICK i \in DOMAIN queue[p] : queue[p][i] = f
    BY DEF Members
  <1>2. \A j \in DOMAIN queue[p] : queue[p][j] = f => j = i
    BY <1>1 DEF Once
  <1>3. \A q \in Job \ {p} : \A j \in DOMAIN queue[q] : queue[q][j] # f
    BY DEF Members
  <1>4. ASSUME NEW q \in Job, NEW x \in {q} \X DOMAIN queue[q], queue[x[1]][x[2]] = f
        PROVE  x = <<p, i>>
    <2>1. x = <<x[1], x[2]>> /\ x[1] = q /\ x[2] \in DOMAIN queue[q]
      OBVIOUS
    <2>2. q = p
      BY <1>3, <1>4, <2>1
    <2>3. x[2] = i
      BY <1>2, <1>4, <2>1, <2>2
    <2>4. QED
      BY <2>1, <2>2, <2>3
  <1>5. <<p, i>> \in {p} \X DOMAIN queue[p] /\ queue[<<p, i>>[1]][<<p, i>>[2]] = f
    BY <1>1
  <1>6. {x \in UNION {{q} \X DOMAIN queue[q] : q \in Job} : queue[x[1]][x[2]] = f} = {<<p, i>>}
    BY <1>4, <1>5
  <1>7. QED
    BY <1>6, FS_Singleton DEF Queued

(* Before TERM the invariant's spots are the places that Places counts.    *)
LEMMA PlacesCounted ==
  ASSUME IInv, turn = 0, NEW f \in Fiber
  PROVE  Places(f) = IF kind[f] \in {"FIBER", "RUNNING"} THEN 1 ELSE 0
  <1>i. /\ working \in [Job -> Seq(Fiber)] /\ waiting \in [Job -> Seq(Fiber)]
        /\ \A p \in Job : Once(working[p]) /\ Once(waiting[p])
    <2>1. working \in [Job -> Seq(Fiber)] /\ waiting \in [Job -> Seq(Fiber)]
      BY DEF IInv, TypeOK
    <2>2. \A p \in Job : Live(p)
      BY DEF Live
    <2>3. QED
      BY <2>1, <2>2 DEF IInv, QueuesOnce
  <1> DEFINE slots == {c \in 0..Top : slot[c] = f}
             hands == {p \in Job : pc[p] \in {"pin", "offer"} /\ hand[p] = f}
  <1>h. /\ \A p \in Job : f \in Members(working[p]) <=> Holds("working", p, f)
        /\ \A p \in Job : f \in Members(waiting[p]) <=> Holds("waiting", p, f)
        /\ \A c \in 0..Top : c \in slots <=> Holds("slot", c, f)
        /\ \A p \in Job : p \in hands <=> Holds("hand", p, f)
        /\ \A p \in 0..Top : Holds("working", p, f) \/ Holds("waiting", p, f)
                               \/ Holds("hand", p, f) => p \in Job
    BY DEF Holds, Live
  <1>n. /\ (\A p \in Job : ~Holds("working", p, f)) => Queued(working, f) = 0
        /\ (\A p \in Job : ~Holds("waiting", p, f)) => Queued(waiting, f) = 0
        /\ (\A c \in 0..Top : ~Holds("slot", c, f)) => Cardinality(slots) = 0
        /\ (\A p \in Job : ~Holds("hand", p, f)) => Cardinality(hands) = 0
    <2>1. /\ (\A c \in 0..Top : ~Holds("slot", c, f)) => slots = {}
          /\ (\A p \in Job : ~Holds("hand", p, f)) => hands = {}
      BY <1>h
    <2>2. Cardinality({}) = 0
      BY FS_EmptySet
    <2>3. QED
      BY <1>i, <1>h, <2>1, <2>2, QueuedNowhere
  <1>p. Places(f) = Queued(working, f) + Queued(waiting, f)
                      + Cardinality(slots) + Cardinality(hands)
    BY DEF Places
  <1> HIDE DEF slots, hands
  <1>1. CASE kind[f] \in {"FIBER", "RUNNING"}
    <2>1. PICK k \in Spot, q \in 0..Top : Holds(k, q, f)
      BY <1>1 DEF IInv, NoneMissing
    <2>2. \A l \in Spot, r \in 0..Top : Holds(l, r, f) => l = k /\ r = q
      BY <2>1 DEF IInv, AtMostOne
    <2>3. \A p \in Job : p \in 0..Top
      OBVIOUS
    <2>4. CASE k = "working"
      <3>1. Queued(working, f) = 1
        BY <1>i, <1>h, <2>1, <2>2, <2>3, <2>4, QueuedOnce DEF Spot
      <3>2. /\ Queued(waiting, f) = 0 /\ Cardinality(slots) = 0 /\ Cardinality(hands) = 0
        BY <1>n, <2>2, <2>3, <2>4 DEF Spot
      <3>3. QED
        BY <1>1, <1>p, <3>1, <3>2
    <2>5. CASE k = "waiting"
      <3>1. Queued(waiting, f) = 1
        BY <1>i, <1>h, <2>1, <2>2, <2>3, <2>5, QueuedOnce DEF Spot
      <3>2. /\ Queued(working, f) = 0 /\ Cardinality(slots) = 0 /\ Cardinality(hands) = 0
        BY <1>n, <2>2, <2>3, <2>5 DEF Spot
      <3>3. QED
        BY <1>1, <1>p, <3>1, <3>2
    <2>6. CASE k = "slot"
      <3>1. slots = {q}
        BY <1>h, <2>1, <2>2, <2>6 DEF Spot, slots
      <3>2. /\ Queued(working, f) = 0 /\ Queued(waiting, f) = 0 /\ Cardinality(hands) = 0
        BY <1>n, <2>2, <2>3, <2>6 DEF Spot
      <3>3. Cardinality(slots) = 1
        BY <3>1, FS_Singleton
      <3>4. QED
        BY <1>1, <1>p, <3>2, <3>3
    <2>7. CASE k = "hand"
      <3>1. hands = {q}
        BY <1>h, <2>1, <2>2, <2>3, <2>7 DEF Spot, hands
      <3>2. /\ Queued(working, f) = 0 /\ Queued(waiting, f) = 0 /\ Cardinality(slots) = 0
        BY <1>n, <2>2, <2>3, <2>7 DEF Spot
      <3>3. Cardinality(hands) = 1
        BY <3>1, FS_Singleton
      <3>4. QED
        BY <1>1, <1>p, <3>2, <3>3
    <2>8. QED
      BY <2>4, <2>5, <2>6, <2>7 DEF Spot
  <1>2. CASE kind[f] \notin {"FIBER", "RUNNING"}
    <2>1. \A k \in Spot, q \in 0..Top : ~Holds(k, q, f)
      BY <1>2 DEF IInv, Kinds
    <2>2. /\ \A p \in Job : ~Holds("working", p, f) /\ ~Holds("waiting", p, f)
                               /\ ~Holds("hand", p, f)
          /\ \A c \in 0..Top : ~Holds("slot", c, f)
      BY <2>1 DEF Spot
    <2>3. QED
      BY <1>2, <1>n, <1>p, <2>2
  <1>3. QED
    BY <1>1, <1>2

(* A fiber is in one place on its way through channels and queues until it *)
(* is done, and nowhere then: none is lost, queued twice, or run by two    *)
(* jobs, whatever the number of jobs, the capacity and the tasks.          *)
THEOREM OnePlaceEach == Spec => []OnePlace
  <1>1. ASSUME IInv PROVE OnePlace
    <2>1. ASSUME NEW f \in Fiber PROVE Queued(working, f) <= 1
      <3>1. working \in [Job -> Seq(Fiber)] /\ \A p \in Job : Once(working[p])
        BY <1>1 DEF IInv, TypeOK, QueuesOnce
      <3>2. CASE \A p \in Job : f \notin Members(working[p])
        <4>1. Queued(working, f) = 0
          BY <3>1, <3>2, QueuedNowhere
        <4>2. QED
          BY <4>1
      <3>3. ASSUME NEW p \in Job, f \in Members(working[p])
            PROVE  Queued(working, f) <= 1
        <4>1. \A q \in Job : f \in Members(working[q]) => q = p
          BY <1>1, <3>3 DEF IInv, AtMostOne, Holds, Spot
        <4>2. Queued(working, f) = 1
          BY <3>1, <3>3, <4>1, QueuedOnce
        <4>3. QED
          BY <4>2
      <3>4. QED
        BY <3>2, <3>3
    <2>2. QED
      BY <1>1, <2>1, PlacesCounted DEF OnePlace
  <1>2. QED
    BY <1>1, Inductive, PTL
=============================================================================
