----------------------------- MODULE SignalProofs -----------------------------
(* Theorems about Signal and their proofs.                                 *)
EXTENDS Signal, TLAPS, FiniteSetTheorems, NaturalsInduction, WellFoundedInduction

(* There are a collector and a host.                                       *)
LEMMA Sizes == Len \in Nat /\ Len >= 2 /\ 0 \in 0..(Len - 1) /\ 1 \in 0..(Len - 1)
  BY ConstantsAssumption

USE Sizes DEF Job, Gc, Main, NoSignal, Calling

-----------------------------------------------------------------------------
(* Whom gab_signext signals.                                               *)

(* A set of naturals that is not empty has a least member.                 *)
LEMMA LeastIsLeast ==
  ASSUME NEW S \in SUBSET Nat, S # {}
  PROVE  Least(S) \in S /\ \A j \in S : Least(S) <= j
  <1>1. \E x \in S : \A y \in S : ~ (<<y, x>> \in OpToRel(<, Nat))
    BY WFMin, NatLessThanWellFounded, Zenon
  <1>2. ASSUME NEW x \in Nat, NEW y \in Nat, ~ (<<y, x>> \in OpToRel(<, Nat))
        PROVE  x <= y
    <2>1. <<y, x>> \in Nat \X Nat
      OBVIOUS
    <2>2. ~ (y < x)
      BY <2>1, <1>2, Zenon DEF OpToRel
    <2>3. QED
      BY <2>2
  <1>3. \E x \in S : \A y \in S : x <= y
    BY <1>1, <1>2, Zenon
  <1>4. QED
    BY <1>3 DEF Least

(* The turn goes to a job that is alive and skips none that is, or to the  *)
(* collector when nobody is left.                                          *)
LEMMA FollowingFacts ==
  ASSUME NEW t \in Nat, NEW mask \in SUBSET Job
  PROVE  LET n == Following(t, mask)
         IN \/ n = Gc /\ \A j \in mask : j < t
            \/ n \in mask /\ t <= n /\ \A j \in mask : t <= j => n <= j
  <1> DEFINE later == {j \in mask : j >= t}
  <1>1. CASE later = {}
    BY <1>1 DEF Following
  <1>2. CASE later # {}
    <2>1. later \in SUBSET Nat
      <3>1. \A j \in later : j \in Job
        OBVIOUS
      <3>2. \A j \in Job : j \in Nat
        OBVIOUS
      <3>3. QED
        BY <3>1, <3>2, Zenon
    <2>2. Least(later) \in later /\ \A j \in later : Least(later) <= j
      BY <1>2, <2>1, LeastIsLeast
    <2>3. Following(t, mask) = Least(later)
      BY <1>2 DEF Following
    <2>4. QED
      BY <2>2, <2>3
  <1>3. QED
    BY <1>1, <1>2

-----------------------------------------------------------------------------
(* The inductive invariant.                                                *)

(* Where the collector's thread is.                                        *)
GcLabel == {"begin", "loop", "wait", "wake", "read", "collect", "clear", "exit"}

(* p has the signal in its hands: it raised it, or its turn is over and it *)
(* looks for the next job.                                                 *)
Carries(p) == pc[p] \in {"next", "skip"}
Carrier(p) == pc[p] \in {"lock", "ack", "next", "skip"}

(* The round has been at p, or has left it out.                            *)
Passed(p) ==
  \/ sig.schedule = Gc
  \/ p < sig.schedule
  \/ p = sig.schedule /\ Carries(p)

(* gab_destroy raises the last TERM, for a collector that is not alive ... *)
Last ==
  \/ pc[Main] \in {"join", "done"}
  \/ pc[Main] \in {"signal", "lock", "ack"} /\ after[Main] = "join"
  \/ Carries(Main) /\ then[Main] = "join"

(* ... and has found before that nobody else is.                           *)
Late ==
  \/ Last
  \/ pc[Main] \in {"sync", "gc_unalive"}
  \/ pc[Main] \in {"signal", "lock", "ack"} /\ after[Main] = "sync"
  \/ Carries(Main) /\ then[Main] = "sync"

(* Every thread that acts on the word is in the mask, until main alone is  *)
(* left to destroy the engine.                                             *)
Masked(p) == pc[p] \notin {"none", "done"} /\ ~(p = Main /\ (Late \/ pc[Main] = "drained"))

Members ==
  /\ pc[Gc] \in GcLabel
  /\ Gc \in sig.mask \/ sig.mask = {}
  /\ sig.mask = {} <=> Last
  /\ Late => sig.mask \subseteq {Gc}
  /\ \A p \in Job : pc[p] = "skip" => sig.mask # {}
  /\ \A p \in Job \ {Gc} : Masked(p) => p \in sig.mask
  /\ pc[Main] = "gc_unalive" \/ (pc[Main] = "signal" /\ after[Main] = "join")
       => sig.signal = "IGN"

(* A slot that was claimed waits for its thread, above the one that claimed*)
(* it, and nobody else has claimed it.                                     *)
Claims ==
  \A p \in Job : pc[p] = "spawn" =>
    /\ child[p] \in sig.mask /\ child[p] > p
    /\ pc[child[p]] \in {"none", "done"}
    /\ \A q \in Job : pc[q] = "spawn" /\ child[q] = child[p] => q = p

(* Who calls gab_signal and gab_signext for what.                          *)
Calls ==
  \A p \in Job :
    /\ pc[p] \in {"signal", "lock", "ack"} \/ (Carries(p) /\ then[p] = "signal") =>
         /\ goal[p] # "IGN"
         /\ after[p] \in {"bail", "sync", "join"} => p = Main
         /\ after[p] \in {"bail", "join"} => goal[p] = "TERM"
         /\ after[p] = "sync" => goal[p] = "COLL"
         /\ after[p] \in {"sync", "join"} => ~Carries(p)
    /\ Carries(p) /\ then[p] \in {"bail", "sync", "join"} => p = Main /\ target[p] = Main
    /\ Carries(p) /\ then[p] = "bail" => sig.signal = "TERM"

(* One thread at most has the signal in its hands: the one that raised it, *)
(* or the one whose turn it is.                                            *)
Rounds ==
  /\ \A p, q \in Job : Carrier(p) /\ Carrier(q) => p = q
  /\ \A p \in Job : Carrier(p) => sig.signal # "IGN"
  /\ \A p \in Job : pc[p] \in {"lock", "ack"} =>
       sig.schedule \in {Calling, NoSignal} /\ sig.signal = goal[p]
  /\ \A p \in Job : Carries(p) =>
       \/ target[p] = Main /\ sig.schedule = NoSignal
       \/ target[p] = p + 1 /\ sig.schedule = p
  /\ sig.schedule # NoSignal => sig.signal # "IGN"
  /\ pc[Gc] \in {"collect", "clear"} => sig.schedule = Gc
  /\ pc[Gc] = "collect" => sig.signal = "COLL"

(* Jobs that have not reported are ahead of the collection.                *)
Reports ==
  \A p \in owing : p \in sig.mask \ {Gc} /\ sig.signal = "COLL" /\ ~Passed(p)

(* TERM was handled by p, which is about to clear its bit.                 *)
Leaving(p) == pc[p] \in Dying \/ (Carries(p) /\ then[p] = "unload")
AllLeaving == \A p \in sig.mask \ {Gc} : Leaving(p)

(* Why p may leave: TERM has passed it, or has its turn there, or has come *)
(* round, and then all leave.                                              *)
MayLeaveAt(p, l) ==
  \/ sig.signal = "TERM" /\ Passed(p)
  \/ l = "unalive" /\ Turn(p, "TERM")
  \/ sig.signal = "IGN" /\ AllLeaving
MayLeave(p) == MayLeaveAt(p, pc[p])

(* Why p may drain: it is its turn to terminate, or soon will be (main).   *)
MayDrainAt(p, l) ==
  \/ Turn(p, "TERM")
  \/ /\ p = Main /\ l # "drain" /\ sig.signal = "TERM"
     /\ sig.schedule \in {Calling, NoSignal}
MayDrain(p) == MayDrainAt(p, pc[p])

Leavers ==
  /\ sig.signal = "TERM" => \A p \in sig.mask \ {Gc} : Passed(p) => Leaving(p)
  /\ \A p \in Job \ {Gc} : Leaving(p) => MayLeave(p)
  /\ \A p \in Job \ {Gc} : pc[p] \in {"bail", "await", "await_yield", "drain"} => MayDrain(p)
  /\ \A p \in Job : Carries(p) => then[p] # "await"
  /\ sig.schedule >= 0 => sig.schedule \in sig.mask

Safe == Members /\ Claims /\ Calls /\ Rounds /\ Reports /\ (odd \/ Leavers)

IInv == TypeOK /\ Safe

-----------------------------------------------------------------------------
(* Initially nothing is raised and nobody leaves.                          *)
LEMMA InitInv == Init => IInv
  <1> SUFFICES ASSUME Init PROVE IInv
    OBVIOUS
  <1>1. /\ sig.mask = 0..(Workers0 + 1) /\ sig.schedule = NoSignal /\ sig.signal = "IGN"
        /\ sig \in Word
    BY ConstantsAssumption DEF Init, Word
  <1>2. /\ pc \in [Job -> {"wait", "begin", "run", "none"}]
        /\ pc[Gc] \in {"wait", "begin"}
        /\ \A p \in Job \ {Gc} : IF p <= Workers0 + 1 THEN pc[p] = "run" ELSE pc[p] = "none"
    BY ConstantsAssumption DEF Init
  <1>3. TypeOK
    <2>1. pc \in [Job -> Label]
      BY <1>2 DEF Label, Running, Dying
    <2>2. epoch \in [Job -> Nat] /\ seen \in [Job -> Word]
      BY <1>1 DEF Init
    <2>3. /\ goal \in [Job -> {"IGN", "COLL", "TERM"}]
          /\ after \in [Job -> {"run", "look", "bail", "sync", "join"}]
          /\ target \in [Job -> 0..Len]
          /\ then \in [Job -> {"run", "look", "signal", "await", "unload", "bail", "sync", "join"}]
          /\ child \in [Job -> Job]
      BY DEF Init
    <2>4. syncs = 0 /\ raised = 0 /\ owing = {} /\ odd = FALSE
      BY DEF Init
    <2>6. syncs \in 0..Syncs /\ raised \in Nat /\ owing \subseteq Job
      BY <2>4 DEF Syncs
    <2>7. odd \in BOOLEAN
      BY <2>4, Zenon
    <2>5. QED
      BY <1>1, <2>1, <2>2, <2>3, <2>6, <2>7 DEF TypeOK
  <1>4. pc[Main] = "run"
    BY <1>2, ConstantsAssumption
  <1>5. Members
    BY <1>1, <1>2, <1>4, ConstantsAssumption DEF Members, GcLabel, Masked, Late, Last, Carries
  <1>6. Claims /\ Calls /\ Rounds
    BY <1>1, <1>2 DEF Claims, Calls, Rounds, Carrier, Carries
  <1>7. Reports /\ Leavers
    BY <1>1, <1>2 DEF Init, Reports, Leavers, Leaving, Carries, Dying
  <1>8. QED
    BY <1>3, <1>5, <1>6, <1>7 DEF IInv, Safe

(* The parts of the invariant, for proofs that need to pick.               *)
LEMMA Parts ==
  IInv <=> TypeOK /\ Members /\ Claims /\ Calls /\ Rounds /\ Reports /\ (odd \/ Leavers)
  BY DEF IInv, Safe

(* The word, taken apart.                                                  *)
LEMMA WordFacts ==
  ASSUME TypeOK
  PROVE  /\ sig.mask \in SUBSET Job
         /\ sig.schedule \in (-2)..(Len - 1)
         /\ sig.signal \in {"IGN", "COLL", "TERM"}
         /\ sig = [mask |-> sig.mask, schedule |-> sig.schedule, signal |-> sig.signal]
  BY DEF TypeOK, Word

-----------------------------------------------------------------------------
(* A thread goes on, and the word stays as it is.                          *)

(* The calls of the other threads are as they were.                        *)
Others(p) ==
  \A q \in Job \ {p} :
    /\ goal'[q] = goal[q] /\ after'[q] = after[q]
    /\ target'[q] = target[q] /\ then'[q] = then[q]

(* p goes from one place to another where it has nothing in its hands.     *)
Walks(p, l) ==
  /\ pc[p] \notin {"none", "done", "lock", "ack", "next", "skip", "spawn"}
  /\ l \notin {"none", "lock", "ack", "next", "skip", "spawn"}
  /\ pc' = [pc EXCEPT ![p] = l]
  /\ sig' = sig /\ owing' = owing /\ child' = child
  /\ Others(p)
  /\ odd => odd'

(* What p must know to go there.                                           *)
Entitled(p, l) ==
  /\ p = Main => (Last' <=> Last) /\ (Late => Late') /\ (Late' => Late \/ sig.mask \subseteq {Gc})
  /\ pc[p] = "drained" => p = Main /\ Late'
  /\ p = Main /\ (l = "gc_unalive" \/ (l = "signal" /\ after'[p] = "join"))
       => sig.signal = "IGN"
  /\ l = "signal" =>
       /\ goal'[p] # "IGN"
       /\ after'[p] \in {"bail", "sync", "join"} => p = Main
       /\ after'[p] \in {"bail", "join"} => goal'[p] = "TERM"
       /\ after'[p] = "sync" => goal'[p] = "COLL"
  /\ \/ odd'
     \/ /\ pc[p] \in Dying => l \in Dying
        /\ l \in Dying => MayLeaveAt(p, l)
        /\ l \in {"bail", "await", "await_yield", "drain"} => MayDrainAt(p, l)

(* Walking on keeps the invariant.                                         *)
LEMMA WalkKeeps ==
  ASSUME IInv, TypeOK', NEW p \in Job \ {Gc}, NEW l \in Label, Walks(p, l), Entitled(p, l)
  PROVE  IInv'
  <1>i. TypeOK /\ Members /\ Claims /\ Calls /\ Rounds /\ Reports /\ (odd \/ Leavers)
    BY Parts
  <1>s. /\ sig' = sig /\ owing' = owing /\ child' = child /\ Others(p) /\ (odd => odd')
        /\ pc[p] \notin {"none", "done", "lock", "ack", "next", "skip", "spawn"}
        /\ l \notin {"none", "lock", "ack", "next", "skip", "spawn"}
    BY DEF Walks
  <1>l. pc'[p] = l /\ \A q \in Job \ {p} : pc'[q] = pc[q]
    BY <1>i DEF TypeOK, Walks
  <1>c. \A q \in Job : (Carries(q)' <=> Carries(q)) /\ (Carrier(q)' <=> Carrier(q))
    BY <1>l, <1>s DEF Carries, Carrier
  <1>p. \A q \in Job : Passed(q)' <=> Passed(q)
    BY <1>c, <1>s DEF Passed
  <1>m. (Last' <=> Last) /\ (Late => Late') /\ (Late' => Late \/ sig.mask \subseteq {Gc})
    <2>1. CASE p = Main
      BY <2>1 DEF Entitled
    <2>2. CASE p # Main
      BY <1>l, <1>s, <2>2 DEF Late, Last, Carries, Others
    <2>3. QED
      BY <2>1, <2>2
  <1>1. Members'
    <2>1. pc'[Gc] \in GcLabel
      BY <1>i, <1>l DEF Members
    <2>2. \A q \in Job \ {Gc} : Masked(q)' => Masked(q)
      BY <1>l, <1>m, <1>s DEF Masked, Entitled
    <2>3. pc'[Main] = "gc_unalive" \/ (pc'[Main] = "signal" /\ after'[Main] = "join")
            => sig.signal = "IGN"
      BY <1>i, <1>l, <1>s DEF Members, Entitled, Others
    <2>4. \A q \in Job : pc'[q] = "skip" => pc[q] = "skip"
      BY <1>l, <1>s
    <2>5. QED
      BY <1>i, <1>m, <1>s, <2>1, <2>2, <2>3, <2>4 DEF Members
  <1>2. Claims'
    <2>1. \A q \in Job : pc'[q] = "spawn" => pc[q] = "spawn"
      BY <1>l, <1>s
    <2>2. ASSUME NEW q \in Job, pc[q] = "spawn" PROVE pc'[child[q]] \in {"none", "done"}
      <3>1. pc[child[q]] \in {"none", "done"} /\ child[q] \in Job
        BY <1>i, <2>2, WordFacts DEF Claims
      <3>2. child[q] # p
        BY <1>s, <3>1
      <3>3. QED
        BY <1>l, <3>1, <3>2
    <2>3. QED
      BY <1>i, <1>s, <2>1, <2>2 DEF Claims
  <1>3. Calls'
    <2>1. ASSUME NEW q \in Job \ {p}
          PROVE  /\ pc'[q] = pc[q] /\ goal'[q] = goal[q] /\ after'[q] = after[q]
                 /\ target'[q] = target[q] /\ then'[q] = then[q]
      BY <1>l, <1>s DEF Others
    <2>2. ~Carries(p)' /\ pc'[p] \notin {"lock", "ack"}
      BY <1>l, <1>s DEF Carries
    <2>3. pc'[p] = "signal" =>
            /\ goal'[p] # "IGN"
            /\ after'[p] \in {"bail", "sync", "join"} => p = Main
            /\ after'[p] \in {"bail", "join"} => goal'[p] = "TERM"
            /\ after'[p] = "sync" => goal'[p] = "COLL"
      BY <1>l DEF Entitled
    <2>4. QED
      BY <1>i, <1>c, <1>s, <2>1, <2>2, <2>3 DEF Calls
  <1>4. Rounds'
    <2>1. \A q \in Job : Carrier(q) => q # p /\ goal'[q] = goal[q] /\ target'[q] = target[q]
      BY <1>s DEF Carrier, Others
    <2>2. pc'[Gc] = pc[Gc]
      BY <1>l
    <2>3. \A q \in Job : pc'[q] \in {"lock", "ack"} => pc[q] \in {"lock", "ack"} /\ Carrier(q)
      BY <1>l, <1>s DEF Carrier
    <2>4. \A q \in Job : Carries(q) => Carrier(q)
      BY DEF Carries, Carrier
    <2>5. QED
      BY <1>i, <1>c, <1>s, <2>1, <2>2, <2>3, <2>4 DEF Rounds
  <1>5. Reports'
    BY <1>i, <1>p, <1>s DEF Reports, TypeOK
  <1>6. (odd \/ Leavers)'
    <2> SUFFICES ASSUME ~odd' PROVE Leavers'
      OBVIOUS
    <2>1. /\ pc[p] \in Dying => l \in Dying
          /\ l \in Dying => MayLeaveAt(p, l)
          /\ l \in {"bail", "await", "await_yield", "drain"} => MayDrainAt(p, l)
      BY DEF Entitled
    <2>2. Leavers
      BY <1>i, <1>s
    <2>3. \A q \in Job \ {p} : Leaving(q)' <=> Leaving(q)
      BY <1>l, <1>s DEF Leaving, Carries, Others
    <2>4. (Leaving(p) => Leaving(p)') /\ (Leaving(p)' <=> l \in Dying)
      BY <1>l, <1>s, <2>1 DEF Leaving, Carries, Dying
    <2>m. sig.mask \subseteq Job
      BY <1>i, WordFacts
    <2>5. AllLeaving => AllLeaving'
      BY <1>s, <2>3, <2>4, <2>m DEF AllLeaving
    <2>6. sig.signal = "TERM" => \A q \in sig.mask \ {Gc} : Passed(q)' => Leaving(q)'
      BY <1>p, <2>2, <2>3, <2>4, <2>m DEF Leavers
    <2>7. ASSUME NEW q \in Job \ {Gc}, Leaving(q)' PROVE MayLeave(q)'
      <3>1. CASE q = p
        BY <1>l, <1>p, <1>s, <2>1, <2>4, <2>5, <2>7, <3>1 DEF MayLeave, MayLeaveAt, Turn
      <3>2. CASE q # p
        BY <1>l, <1>p, <1>s, <2>2, <2>3, <2>5, <2>7, <3>2 DEF MayLeave, MayLeaveAt, Turn, Leavers
      <3>3. QED
        BY <3>1, <3>2
    <2>8. ASSUME NEW q \in Job \ {Gc}, pc'[q] \in {"bail", "await", "await_yield", "drain"}
          PROVE  MayDrain(q)'
      <3>1. CASE q = p
        BY <1>l, <1>s, <2>1, <2>8, <3>1 DEF MayDrain, MayDrainAt, Turn
      <3>2. CASE q # p
        BY <1>l, <1>s, <2>2, <2>8, <3>2 DEF MayDrain, MayDrainAt, Turn, Leavers
      <3>3. QED
        BY <3>1, <3>2
    <2>9. \A q \in Job : Carries(q)' => then'[q] # "await"
      <3>1. ~Carries(p)
        BY <1>s DEF Carries
      <3>2. QED
        BY <1>c, <1>s, <2>2, <3>1 DEF Leavers, Others
    <2>10. QED
      BY <1>s, <2>2, <2>6, <2>7, <2>8, <2>9 DEF Leavers
  <1>7. QED
    BY <1>1, <1>2, <1>3, <1>4, <1>5, <1>6 DEF IInv, Safe

-----------------------------------------------------------------------------
(* A thread whose turn it is is done with the signal and passes it on.     *)
Passes(p, l) ==
  /\ pc[p] \notin {"none", "done", "drained", "lock", "ack", "next", "skip", "spawn"}
  /\ sig.schedule = p
  /\ pc' = [pc EXCEPT ![p] = "next"]
  /\ target' = [target EXCEPT ![p] = p + 1]
  /\ then' = [then EXCEPT ![p] = l]
  /\ sig' = sig /\ child' = child /\ goal' = goal /\ after' = after
  /\ owing' \subseteq owing \ {p}
  /\ odd => odd'

(* Passing the turn on keeps the invariant.                                *)
LEMMA PassKeeps ==
  ASSUME IInv, TypeOK', NEW p \in Job \ {Gc}, p \in sig.mask,
         NEW l \in {"run", "signal", "await", "unload"}, Passes(p, l),
         l = "signal" => pc[p] = "signal",
         odd' \/ (l # "await" /\ (sig.signal = "TERM" <=> l = "unload")
                  /\ (pc[p] \in Dying => l = "unload"))
  PROVE  IInv'
  <1>i. TypeOK /\ Members /\ Claims /\ Calls /\ Rounds /\ Reports /\ (odd \/ Leavers)
    BY Parts
  <1>s. /\ sig' = sig /\ child' = child /\ goal' = goal /\ after' = after
        /\ owing' \subseteq owing \ {p} /\ (odd => odd') /\ sig.schedule = p
        /\ pc[p] \notin {"none", "done", "drained", "lock", "ack", "next", "skip", "spawn"}
    BY DEF Passes
  <1>l. /\ pc'[p] = "next" /\ \A q \in Job \ {p} : pc'[q] = pc[q]
        /\ target'[p] = p + 1 /\ \A q \in Job \ {p} : target'[q] = target[q]
        /\ then'[p] = l /\ \A q \in Job \ {p} : then'[q] = then[q]
    BY <1>i DEF TypeOK, Passes
  <1>n. \A q \in Job : ~Carrier(q)
    BY <1>i, <1>s DEF Rounds, Carrier, Carries
  <1>c. /\ Carries(p)' /\ Carrier(p)' /\ ~Carries(p)
        /\ \A q \in Job \ {p} : ~Carries(q) /\ ~Carries(q)' /\ ~Carrier(q)'
    BY <1>l, <1>n DEF Carries, Carrier
  <1>p. /\ Passed(p)' /\ ~Passed(p)
        /\ \A q \in Job \ {p} : Passed(q)' <=> Passed(q)
    BY <1>c, <1>s DEF Passed
  <1>m. ~Late /\ ~Last /\ ~Late' /\ ~Last'
    <2>1. ~Late
      BY <1>i DEF Members
    <2>2. ~Late'
      BY <2>1, <1>c, <1>l, <1>s DEF Late, Last, Carries
    <2>3. QED
      BY <2>1, <2>2 DEF Late
  <1>g. sig.signal # "IGN" /\ sig.mask \subseteq Job
    BY <1>i, <1>s, WordFacts DEF Rounds
  <1>1. Members'
    <2>1. \A q \in Job \ {Gc} : Masked(q)' => Masked(q)
      BY <1>l, <1>m, <1>s DEF Masked
    <2>2. \A q \in Job : pc'[q] = "skip" => pc[q] = "skip"
      BY <1>l
    <2>3. pc'[Gc] = pc[Gc]
      BY <1>l
    <2>4. ~(pc'[Main] = "gc_unalive" \/ (pc'[Main] = "signal" /\ after'[Main] = "join"))
      BY <1>m DEF Late, Last
    <2>5. QED
      BY <1>i, <1>m, <1>s, <2>1, <2>2, <2>3, <2>4 DEF Members
  <1>2. Claims'
    <2>1. \A q \in Job : pc'[q] = "spawn" => pc[q] = "spawn"
      BY <1>l
    <2>2. ASSUME NEW q \in Job, pc[q] = "spawn" PROVE pc'[child[q]] \in {"none", "done"}
      <3>1. pc[child[q]] \in {"none", "done"} /\ child[q] \in Job
        BY <1>i, <1>g, <2>2 DEF Claims
      <3>2. QED
        BY <1>l, <1>s, <3>1
    <2>3. QED
      BY <1>i, <1>s, <2>1, <2>2 DEF Claims
  <1>3. Calls'
    <2>1. \A q \in Job \ {p} : pc'[q] \in {"signal", "lock", "ack"} => pc[q] \in {"signal", "lock", "ack"}
      BY <1>l
    <2>2. pc[p] = "signal" => after[p] \notin {"sync", "join"}
      BY <1>i, <1>m DEF Calls, Late, Last
    <2>3. ASSUME NEW q \in Job \ {p},
                 pc'[q] \in {"signal", "lock", "ack"} \/ (Carries(q)' /\ then'[q] = "signal")
          PROVE  pc[q] \in {"signal", "lock", "ack"} /\ ~Carries(q)'
      BY <1>c, <2>1, <2>3
    <2>4. pc'[p] \notin {"signal", "lock", "ack"} /\ (then'[p] = "signal" => pc[p] = "signal")
      BY <1>l
    <2>5. QED
      BY <1>i, <1>c, <1>l, <1>s, <2>2, <2>3, <2>4 DEF Calls
  <1>4. Rounds'
    <2>1. \A q \in Job : pc'[q] \notin {"lock", "ack"}
      BY <1>l, <1>n DEF Carrier
    <2>2. pc'[Gc] = pc[Gc]
      BY <1>l
    <2>3. QED
      BY <1>i, <1>c, <1>g, <1>l, <1>s, <2>1, <2>2 DEF Rounds
  <1>5. Reports'
    BY <1>i, <1>p, <1>s DEF Reports, TypeOK
  <1>6. (odd \/ Leavers)'
    <2> SUFFICES ASSUME ~odd' PROVE Leavers'
      OBVIOUS
    <2>1. /\ l # "await" /\ (sig.signal = "TERM" <=> l = "unload")
          /\ (pc[p] \in Dying => l = "unload") /\ Leavers
      BY <1>i, <1>s
    <2>2. /\ \A q \in Job \ {p} : Leaving(q)' <=> Leaving(q)
          /\ Leaving(p)' <=> l = "unload"
      BY <1>c, <1>l DEF Leaving, Dying
    <2>3. sig.signal = "TERM" => \A q \in sig.mask \ {Gc} : Passed(q)' => Leaving(q)'
      BY <1>g, <1>p, <2>1, <2>2 DEF Leavers
    <2>4. ASSUME NEW q \in Job \ {Gc}, Leaving(q)' PROVE MayLeave(q)'
      <3>1. CASE q = p
        BY <1>p, <1>s, <2>1, <2>2, <2>4, <3>1 DEF MayLeave, MayLeaveAt
      <3>2. CASE q # p
        BY <1>g, <1>l, <1>p, <1>s, <2>1, <2>2, <2>4, <3>2 DEF MayLeave, MayLeaveAt, Turn, Leavers
      <3>3. QED
        BY <3>1, <3>2
    <2>5. ASSUME NEW q \in Job \ {Gc}, pc'[q] \in {"bail", "await", "await_yield", "drain"}
          PROVE  MayDrain(q)'
      BY <1>l, <1>s, <2>1, <2>5 DEF MayDrain, MayDrainAt, Turn, Leavers
    <2>6. \A q \in Job : Carries(q)' => then'[q] # "await"
      BY <1>c, <1>l, <2>1
    <2>7. QED
      BY <1>s, <2>1, <2>3, <2>4, <2>5, <2>6 DEF Leavers
  <1>7. QED
    BY <1>1, <1>2, <1>3, <1>4, <1>5, <1>6 DEF IInv, Safe

-----------------------------------------------------------------------------
(* Every step keeps the types.                                             *)

(* Where gab_signext may return to.                                        *)
Returns == {"run", "look", "signal", "await", "unload", "bail", "sync", "join"}

(* p goes somewhere.                                                       *)
LEMMA GotoTypes ==
  ASSUME TypeOK, NEW p \in Job, NEW l \in Label, Goto(p, l)
  PROVE  pc' \in [Job -> Label]
  BY DEF TypeOK, Goto

(* p calls gab_signext.                                                    *)
LEMMA CallNextTypes ==
  ASSUME TypeOK, NEW p \in Job, NEW t \in 0..Len, NEW l \in Returns, CallNext(p, t, l)
  PROVE  /\ pc' \in [Job -> Label]
         /\ target' \in [Job -> 0..Len]
         /\ then' \in [Job -> Returns]
  <1>1. "next" \in Label
    BY DEF Label
  <1>2. pc \in [Job -> Label] /\ target \in [Job -> 0..Len] /\ then \in [Job -> Returns]
    BY DEF TypeOK, Returns
  <1>3. QED
    BY <1>1, <1>2 DEF CallNext, Goto

(* p calls gab_signal.                                                     *)
LEMMA CallSignalTypes ==
  ASSUME TypeOK, NEW p \in Job, NEW s \in {"COLL", "TERM"},
         NEW l \in {"look", "bail", "sync", "join"}, CallSignal(p, s, l)
  PROVE  /\ pc' \in [Job -> Label]
         /\ goal' \in [Job -> {"IGN", "COLL", "TERM"}]
         /\ after' \in [Job -> {"run", "look", "bail", "sync", "join"}]
  <1>1. "signal" \in Label
    BY DEF Label
  <1>2. QED
    BY <1>1 DEF TypeOK, CallSignal, Goto

(* p handles COLL.                                                         *)
LEMMA CollectedTypes ==
  ASSUME TypeOK, NEW p \in Job \ {Gc}, NEW l \in Returns, Collected(p, l)
  PROVE  /\ pc' \in [Job -> Label] /\ target' \in [Job -> 0..Len] /\ then' \in [Job -> Returns]
         /\ goal' = goal /\ after' = after /\ odd' = odd
         /\ epoch' \in [Job -> Nat]
         /\ owing' \subseteq Job
  <1>1. CallNext(p, p + 1, l) /\ goal' = goal /\ after' = after /\ odd' = odd
    BY DEF Collected, Propagate, EpochNext
  <1>2. p + 1 \in 0..Len
    OBVIOUS
  <1>3. pc' \in [Job -> Label] /\ target' \in [Job -> 0..Len] /\ then' \in [Job -> Returns]
    BY <1>1, <1>2, CallNextTypes
  <1>4. epoch \in [Job -> Nat] /\ owing \subseteq Job
    BY DEF TypeOK
  <1>5. epoch' \in [Job -> Nat] /\ owing' \subseteq Job
    BY <1>4 DEF Collected, EpochNext
  <1>6. QED
    BY <1>1, <1>3, <1>5

(* The word is written.                                                    *)
LEMMA WordTypes ==
  ASSUME NEW m \in SUBSET Job, NEW n \in (-2)..(Len - 1), NEW s \in {"IGN", "COLL", "TERM"},
         sig' = [mask |-> m, schedule |-> n, signal |-> s]
  PROVE  sig' \in Word
  BY DEF Word

(* A step of any thread.                                                   *)
LEMMA TypeStep == ASSUME TypeOK, [Next]_vars PROVE TypeOK'
  <1>w. /\ sig.mask \in SUBSET Job /\ sig.schedule \in (-2)..(Len - 1)
        /\ sig.signal \in {"IGN", "COLL", "TERM"}
        /\ sig = [mask |-> sig.mask, schedule |-> sig.schedule, signal |-> sig.signal]
    BY WordFacts
  <1>t. /\ sig \in Word /\ epoch \in [Job -> Nat] /\ pc \in [Job -> Label]
        /\ goal \in [Job -> {"IGN", "COLL", "TERM"}]
        /\ after \in [Job -> {"run", "look", "bail", "sync", "join"}]
        /\ target \in [Job -> 0..Len] /\ then \in [Job -> Returns]
        /\ child \in [Job -> Job] /\ seen \in [Job -> Word]
        /\ syncs \in 0..Syncs /\ raised \in Nat /\ owing \subseteq Job /\ odd \in BOOLEAN
    BY DEF TypeOK, Returns
  <1>p. pc \in [Job -> Label]
    BY <1>t
  <1>e. epoch \in [Job -> Nat]
    BY <1>t
  <1>g. target \in [Job -> 0..Len]
    BY <1>t
  <1>y. syncs \in 0..4
    BY <1>t DEF Syncs
  <1>1. ASSUME NEW p \in Job \ {Gc}, SignalReturn(p) PROVE TypeOK'
    <2>1. pc' \in [Job -> Label]
      BY <1>1, <1>t DEF SignalReturn, Goto, Label, Running, Dying
    <2>2. QED
      BY <1>t, <1>1, <2>1, Zenon DEF TypeOK, Returns, SignalReturn, call
  <1>2. ASSUME NEW p \in Job \ {Gc}, SignalCollected(p) PROVE TypeOK'
    <2>1. /\ pc' \in [Job -> Label] /\ target' \in [Job -> 0..Len] /\ then' \in [Job -> Returns]
          /\ goal' = goal /\ after' = after /\ odd' = odd
          /\ epoch' \in [Job -> Nat] /\ owing' \subseteq Job
      BY <1>2, CollectedTypes DEF SignalCollected, Returns
    <2>2. QED
      BY <1>t, <1>2, <2>1, Zenon DEF TypeOK, Returns, SignalCollected, call
  <1>3. ASSUME NEW p \in Job \ {Gc}, SignalRaise(p) PROVE TypeOK'
    <2>1. pc' \in [Job -> Label]
      BY <1>3, <1>t DEF SignalRaise, Goto, Label, Running, Dying
    <2>2. sig' = [mask |-> sig.mask, schedule |-> -2, signal |-> goal[p]]
      BY <1>3, <1>w DEF SignalRaise
    <2>3. -2 \in (-2)..(Len - 1) /\ goal[p] \in {"IGN", "COLL", "TERM"}
      BY <1>3, <1>t DEF SignalRaise
    <2>4. sig' \in Word
      BY <1>3, <2>2, <2>3, <1>w, WordTypes DEF SignalRaise
    <2>5. raised' \in Nat
      BY <1>3, <1>t DEF SignalRaise
    <2>6. owing' \subseteq Job
      BY <1>3, <1>w DEF SignalRaise
    <2>7. QED
      BY <1>t, <1>3, <2>1, <2>2, <2>3, <2>4, <2>5, <2>6, Zenon DEF TypeOK, Returns, SignalRaise, call
  <1>4. ASSUME NEW p \in Job \ {Gc}, SignalWake(p) PROVE TypeOK'
    <2>1. pc' \in [Job -> Label]
      BY <1>4, <1>t DEF SignalWake, Goto, Label, Running, Dying
    <2>2. QED
      BY <1>t, <1>4, <2>1, Zenon DEF TypeOK, Returns, SignalWake, call
  <1>5. ASSUME NEW p \in Job \ {Gc}, SignalAck(p) PROVE TypeOK'
    <2>1. after[p] \in Returns
      BY <1>5, <1>t DEF SignalAck, Returns
    <2>2. Main \in 0..Len
      BY <1>5 DEF SignalAck
    <2>3. pc' \in [Job -> Label] /\ target' \in [Job -> 0..Len] /\ then' \in [Job -> Returns]
      BY <1>5, <2>1, <2>2, CallNextTypes DEF SignalAck
    <2>4. QED
      BY <1>t, <1>5, <2>1, <2>2, <2>3, Zenon DEF TypeOK, Returns, SignalAck, call
  <1>6. ASSUME NEW p \in Job \ {Gc}, NextNobody(p) PROVE TypeOK'
    <2>1. pc' \in [Job -> Label]
      BY <1>6, <1>t DEF NextNobody, Goto, Returns, Label, Running, Dying
    <2>2. QED
      BY <1>t, <1>6, <2>1, Zenon DEF TypeOK, Returns, NextNobody, call
  <1>7. ASSUME NEW p \in Job \ {Gc}, NextWrap(p) PROVE TypeOK'
    <2>1. pc' \in [Job -> Label]
      BY <1>7, <1>t DEF NextWrap, Goto, Returns, Label, Running, Dying
    <2>2. sig' = [mask |-> sig.mask, schedule |-> 0, signal |-> sig.signal]
      BY <1>7, <1>w DEF NextWrap
    <2>3. 0 \in (-2)..(Len - 1)
      BY <1>7, <1>t, <1>w DEF NextWrap
    <2>4. sig' \in Word
      BY <1>7, <2>2, <2>3, <1>w, WordTypes DEF NextWrap
    <2>5. QED
      BY <1>t, <1>7, <2>1, <2>2, <2>3, <2>4, Zenon DEF TypeOK, Returns, NextWrap, call
  <1>8. ASSUME NEW p \in Job \ {Gc}, NextAlive(p) PROVE TypeOK'
    <2>1. pc' \in [Job -> Label]
      BY <1>8, <1>t DEF NextAlive, Goto, Returns, Label, Running, Dying
    <2>2. sig' = [mask |-> sig.mask, schedule |-> target[p], signal |-> sig.signal]
      BY <1>8, <1>w DEF NextAlive
    <2>3. target[p] \in (-2)..(Len - 1)
      BY <1>8, <1>t, <1>w DEF NextAlive
    <2>4. sig' \in Word
      BY <1>8, <2>2, <2>3, <1>w, WordTypes DEF NextAlive
    <2>5. QED
      BY <1>t, <1>8, <2>1, <2>2, <2>3, <2>4, Zenon DEF TypeOK, Returns, NextAlive, call
  <1>9. ASSUME NEW p \in Job \ {Gc}, NextSkip(p) PROVE TypeOK'
    <2>1. pc' \in [Job -> Label]
      BY <1>9, <1>t DEF NextSkip, Goto, Label, Running, Dying
    <2>2. epoch' \in [Job -> Nat]
      <3>1. \A j \in Job : epoch[j] \in Nat /\ epoch[j] + 1 \in Nat
        BY <1>e
      <3>2. epoch' = [j \in Job |-> epoch'[j]]
            /\ \A j \in Job : epoch'[j] \in {epoch[j], epoch[j] + 1}
        BY <1>9 DEF NextSkip
      <3>3. QED
        BY <3>1, <3>2
    <2>3. seen' \in [Job -> Word]
      BY <1>9, <1>t DEF NextSkip
    <2>4. QED
      BY <1>t, <1>9, <2>1, <2>2, <2>3, Zenon DEF TypeOK, Returns, NextSkip, call
  <1>10. ASSUME NEW p \in Job \ {Gc}, SkipSwap(p) PROVE TypeOK'
    <2>1. pc' \in [Job -> Label]
      BY <1>t, <1>10 DEF SkipSwap, Goto, Returns, Label, Running, Dying
    <2>2. sig' \in Word
      <3>1. PICK n : n = Following(target[p], sig.mask)
        OBVIOUS
      <3>2. n \in Job
        <4>1. target[p] \in Nat
          BY <1>g
        <4>2. n = Gc \/ n \in sig.mask
          BY <1>w, <3>1, <4>1, FollowingFacts
        <4>3. QED
          BY <1>w, <4>2
      <3>3. CASE sig' = [sig EXCEPT !.schedule = Following(target[p], sig.mask)]
        <4>1. sig' = [mask |-> sig.mask, schedule |-> n, signal |-> sig.signal]
          BY <1>w, <3>1, <3>3
        <4>2. n \in (-2)..(Len - 1)
          BY <3>2
        <4>3. QED
          BY <1>w, <4>1, <4>2, WordTypes
      <3>4. QED
        BY <1>t, <1>10, <3>3 DEF SkipSwap
    <2>3. QED
      BY <1>t, <1>10, <2>1, <2>2, Zenon DEF TypeOK, Returns, SkipSwap, call
  <1>11. ASSUME NEW p \in Job \ {Gc}, Yield(p) PROVE TypeOK'
    <2> DEFINE Moved == /\ pc' \in [Job -> Label] /\ goal' \in [Job -> {"IGN", "COLL", "TERM"}]
                        /\ after' \in [Job -> {"run", "look", "bail", "sync", "join"}]
                        /\ target' \in [Job -> 0..Len] /\ then' \in [Job -> Returns]
                        /\ epoch' \in [Job -> Nat] /\ owing' \subseteq Job /\ odd' \in BOOLEAN
    <2>1. ASSUME Collected(p, "run")
          PROVE  Moved
      <3>1. 
        /\ pc' \in [Job -> Label] /\ target' \in [Job -> 0..Len] /\ then' \in [Job -> Returns]
        /\ goal' = goal /\ after' = after /\ odd' = odd
        /\ epoch' \in [Job -> Nat] /\ owing' \subseteq Job
        BY <1>t, <2>1, CollectedTypes DEF Returns
      <3>2. QED
        BY <1>t, <2>1, <3>1, Zenon DEF call
    <2>2. ASSUME Goto(p, "run") /\ UNCHANGED <<epoch, call, owing, odd>>
          PROVE  Moved
      <3>1. pc' \in [Job -> Label]
        BY <1>t, <2>2 DEF Goto, Label, Running, Dying
      <3>2. QED
        BY <1>t, <2>2, <3>1, Zenon DEF call
    <2>3. ASSUME Goto(p, "bail") /\ UNCHANGED <<epoch, call, owing, odd>>
          PROVE  Moved
      <3>1. pc' \in [Job -> Label]
        BY <1>t, <2>3 DEF Goto, Label, Running, Dying
      <3>2. QED
        BY <1>t, <2>3, <3>1, Zenon DEF call
    <2>4. ASSUME Propagate(p, "run") /\ odd' = TRUE /\ UNCHANGED <<epoch, owing>>
          PROVE  Moved
      <3>1. p + 1 \in 0..Len
        BY <1>t, <2>4 DEF Returns
      <3>2. pc' \in [Job -> Label] /\ target' \in [Job -> 0..Len] /\ then' \in [Job -> Returns] /\ goal' = goal /\ after' = after
        BY <1>t, <2>4, <3>1, CallNextTypes DEF Propagate, Returns
      <3>3. QED
        BY <1>t, <2>4, <3>1, <3>2, Zenon DEF call
    <2>5. ASSUME CallSignal(p, "TERM", "bail") /\ UNCHANGED <<epoch, target, then, owing, odd>>
          PROVE  Moved
      <3>1. /\ pc' \in [Job -> Label] /\ goal' \in [Job -> {"IGN", "COLL", "TERM"}]
            /\ after' \in [Job -> {"run", "look", "bail", "sync", "join"}]
        BY <1>t, <2>5, CallSignalTypes DEF Returns
      <3>2. QED
        BY <1>t, <2>5, <3>1, Zenon DEF call
    <2>6. Moved
      BY <1>11, <2>1, <2>2, <2>3, <2>4, <2>5 DEF Yield
    <2>7. QED
      BY <1>t, <1>11, <2>6, Zenon DEF TypeOK, Returns, Yield
  <1>12. ASSUME NEW p \in Job \ {Gc}, SpawnThread(p) PROVE TypeOK'
    <2>1. pc' \in [Job -> Label]
      BY <1>12, <1>t DEF SpawnThread, Goto, Label, Running, Dying
    <2>2. QED
      BY <1>t, <1>12, <2>1, Zenon DEF TypeOK, Returns, SpawnThread, call
  <1>13. ASSUME NEW p \in Job \ {Gc}, Begin(p) PROVE TypeOK'
    <2>1. pc' \in [Job -> Label]
      BY <1>13, <1>t DEF Begin, Goto, Label, Running, Dying
    <2>2. sig' = [mask |-> sig.mask \cup {p}, schedule |-> sig.schedule, signal |-> sig.signal]
      BY <1>13, <1>w DEF Begin
    <2>3. sig' \in Word
      BY <1>13, <2>2, <1>w, WordTypes DEF Begin
    <2>4. QED
      BY <1>t, <1>13, <2>1, <2>2, <2>3, Zenon DEF TypeOK, Returns, Begin, call
  <1>14. ASSUME NEW p \in Job \ {Gc}, Bail(p) PROVE TypeOK'
    <2>1. Goto(p, "done") \/ Goto(p, "drained") \/ Goto(p, "await")
      BY <1>14 DEF Bail, Exit
    <2>2. pc' \in [Job -> Label]
      BY <1>14, <2>1, <1>p DEF Bail, Exit, Goto, Label, Running, Dying
    <2>3. QED
      BY <1>t, <1>14, <2>1, <2>2, Zenon DEF TypeOK, Returns, Bail, call
  <1>15. ASSUME NEW p \in Job \ {Gc}, Await(p) PROVE TypeOK'
    <2>1. pc' \in [Job -> Label]
      BY <1>15, <1>t DEF Await, Goto, Label, Running, Dying
    <2>2. QED
      BY <1>t, <1>15, <2>1, Zenon DEF TypeOK, Returns, Await, call
  <1>16. ASSUME NEW p \in Job \ {Gc}, AwaitYield(p) PROVE TypeOK'
    <2> DEFINE Moved == /\ pc' \in [Job -> Label] /\ goal' \in [Job -> {"IGN", "COLL", "TERM"}]
                        /\ after' \in [Job -> {"run", "look", "bail", "sync", "join"}]
                        /\ target' \in [Job -> 0..Len] /\ then' \in [Job -> Returns]
                        /\ epoch' \in [Job -> Nat] /\ owing' \subseteq Job /\ odd' \in BOOLEAN
    <2>1. ASSUME Collected(p, "await")
          PROVE  Moved
      <3>1. 
        /\ pc' \in [Job -> Label] /\ target' \in [Job -> 0..Len] /\ then' \in [Job -> Returns]
        /\ goal' = goal /\ after' = after /\ odd' = odd
        /\ epoch' \in [Job -> Nat] /\ owing' \subseteq Job
        BY <1>t, <2>1, CollectedTypes DEF Returns
      <3>2. QED
        BY <1>t, <2>1, <3>1, Zenon DEF call
    <2>2. ASSUME Goto(p, "drain") /\ UNCHANGED <<epoch, call, owing, odd>>
          PROVE  Moved
      <3>1. pc' \in [Job -> Label]
        BY <1>t, <2>2 DEF Goto, Label, Running, Dying
      <3>2. QED
        BY <1>t, <2>2, <3>1, Zenon DEF call
    <2>3. ASSUME Goto(p, "await") /\ UNCHANGED <<epoch, call, owing, odd>>
          PROVE  Moved
      <3>1. pc' \in [Job -> Label]
        BY <1>t, <2>3 DEF Goto, Label, Running, Dying
      <3>2. QED
        BY <1>t, <2>3, <3>1, Zenon DEF call
    <2>4. Moved
      BY <1>16, <2>1, <2>2, <2>3 DEF AwaitYield
    <2>5. QED
      BY <1>t, <1>16, <2>4, Zenon DEF TypeOK, Returns, AwaitYield
  <1>17. ASSUME NEW p \in Job \ {Gc}, Drain(p) PROVE TypeOK'
    <2>1. pc' \in [Job -> Label]
      BY <1>17, <1>t DEF Drain, Goto, Label, Running, Dying
    <2>2. QED
      BY <1>t, <1>17, <2>1, Zenon DEF TypeOK, Returns, Drain, call
  <1>18. ASSUME NEW p \in Job \ {Gc}, Unalive(p) PROVE TypeOK'
    <2> DEFINE Moved == /\ pc' \in [Job -> Label] /\ goal' \in [Job -> {"IGN", "COLL", "TERM"}]
                        /\ after' \in [Job -> {"run", "look", "bail", "sync", "join"}]
                        /\ target' \in [Job -> 0..Len] /\ then' \in [Job -> Returns]
                        /\ epoch' \in [Job -> Nat] /\ owing' \subseteq Job /\ odd' \in BOOLEAN
    <2>1. ASSUME Collected(p, "unload")
          PROVE  Moved
      <3>1. 
        /\ pc' \in [Job -> Label] /\ target' \in [Job -> 0..Len] /\ then' \in [Job -> Returns]
        /\ goal' = goal /\ after' = after /\ odd' = odd
        /\ epoch' \in [Job -> Nat] /\ owing' \subseteq Job
        BY <1>t, <2>1, CollectedTypes DEF Returns
      <3>2. QED
        BY <1>t, <2>1, <3>1, Zenon DEF call
    <2>2. ASSUME Propagate(p, "unload") /\ UNCHANGED <<epoch, owing, odd>>
          PROVE  Moved
      <3>1. p + 1 \in 0..Len
        BY <1>t, <2>2 DEF Returns
      <3>2. pc' \in [Job -> Label] /\ target' \in [Job -> 0..Len] /\ then' \in [Job -> Returns] /\ goal' = goal /\ after' = after
        BY <1>t, <2>2, <3>1, CallNextTypes DEF Propagate, Returns
      <3>3. QED
        BY <1>t, <2>2, <3>1, <3>2, Zenon DEF call
    <2>3. ASSUME Goto(p, "unload") /\ UNCHANGED <<epoch, call, owing, odd>>
          PROVE  Moved
      <3>1. pc' \in [Job -> Label]
        BY <1>t, <2>3 DEF Goto, Label, Running, Dying
      <3>2. QED
        BY <1>t, <2>3, <3>1, Zenon DEF call
    <2>4. Moved
      BY <1>18, <2>1, <2>2, <2>3 DEF Unalive
    <2>5. QED
      BY <1>t, <1>18, <2>4, Zenon DEF TypeOK, Returns, Unalive
  <1>19. ASSUME NEW p \in Job \ {Gc}, UnaliveLoad(p) PROVE TypeOK'
    <2>1. pc' \in [Job -> Label]
      BY <1>19, <1>t DEF UnaliveLoad, Goto, Label, Running, Dying
    <2>2. seen' \in [Job -> Word]
      BY <1>19, <1>t DEF UnaliveLoad
    <2>3. QED
      BY <1>t, <1>19, <2>1, <2>2, Zenon DEF TypeOK, Returns, UnaliveLoad, call
  <1>20. ASSUME NEW p \in Job \ {Gc}, UnaliveSwap(p) PROVE TypeOK'
    <2>1. pc' \in [Job -> Label]
      BY <1>t, <1>20 DEF UnaliveSwap, Exit, Goto, Label, Running, Dying
    <2>2. owing' \subseteq Job
      BY <1>t, <1>20 DEF UnaliveSwap
    <2>3. sig' \in Word
      <3>1. CASE sig' = [sig EXCEPT !.mask = @ \ {p}]
        <4>1. sig' = [mask |-> sig.mask \ {p}, schedule |-> sig.schedule, signal |-> sig.signal]
          BY <1>w, <3>1
        <4>2. QED
          BY <1>w, <4>1, WordTypes
      <3>2. QED
        BY <1>t, <1>20, <3>1 DEF UnaliveSwap
    <2>4. QED
      BY <1>t, <1>20, <2>1, <2>2, <2>3, Zenon DEF TypeOK, Returns, UnaliveSwap, call
  <1>21. ASSUME NEW p \in Job \ {Gc}, Raise(p) PROVE TypeOK'
    <2>1. /\ pc' \in [Job -> Label] /\ goal' \in [Job -> {"IGN", "COLL", "TERM"}]
          /\ after' \in [Job -> {"run", "look", "bail", "sync", "join"}]
      BY <1>21, CallSignalTypes DEF Raise
    <2>2. QED
      BY <1>t, <1>21, <2>1, Zenon DEF TypeOK, Returns, Raise, call
  <1>22. ASSUME NEW p \in Job \ {Gc}, SpawnClaim(p) PROVE TypeOK'
    <2> DEFINE free == {j \in Job : j >= p} \ sig.mask
    <2>1. PICK n : n = Least(free)
      OBVIOUS
    <2>2. free \in SUBSET Nat /\ free \subseteq Job
      OBVIOUS
    <2>3. n \in Job
      BY <1>22, <2>1, <2>2, LeastIsLeast DEF SpawnClaim
    <2>4. pc' \in [Job -> Label]
      BY <1>t, <1>22 DEF SpawnClaim, Goto, Label, Running
    <2>5. sig' = [mask |-> sig.mask \cup {n}, schedule |-> sig.schedule, signal |-> sig.signal]
      BY <1>w, <1>22, <2>1 DEF SpawnClaim
    <2>6. sig' \in Word
      BY <1>w, <2>3, <2>5, WordTypes
    <2>7. child' = [child EXCEPT ![p] = n]
      BY <1>22, <2>1 DEF SpawnClaim
    <2>8. child' \in [Job -> Job]
      BY <1>t, <2>3, <2>7
    <2>9. QED
      BY <1>t, <1>22, <2>4, <2>6, <2>8, Zenon DEF TypeOK, Returns, SpawnClaim, call
  <1>23. ASSUME NEW p \in Job \ {Gc}, Quit(p) PROVE TypeOK'
    <2>1. pc' \in [Job -> Label]
      BY <1>23, <1>t DEF Quit, Goto, Label, Running, Dying
    <2>2. odd' \in BOOLEAN
      BY <1>23 DEF Quit
    <2>3. QED
      BY <1>t, <1>23, <2>1, <2>2, Zenon DEF TypeOK, Returns, Quit, call
  <1>24. ASSUME Destroy PROVE TypeOK'
    <2>1. /\ pc' \in [Job -> Label] /\ goal' \in [Job -> {"IGN", "COLL", "TERM"}]
          /\ after' \in [Job -> {"run", "look", "bail", "sync", "join"}]
      BY <1>24, CallSignalTypes DEF Destroy
    <2>2. QED
      BY <1>t, <1>24, <2>1, Zenon DEF TypeOK, Returns, Destroy, call
  <1>25. ASSUME DestroyCollect PROVE TypeOK'
    <2>1. /\ pc' \in [Job -> Label] /\ goal' \in [Job -> {"IGN", "COLL", "TERM"}]
          /\ after' \in [Job -> {"run", "look", "bail", "sync", "join"}]
      BY <1>25, CallSignalTypes DEF DestroyCollect
    <2>2. syncs' = syncs \/ (syncs + 1 < Syncs /\ syncs' = syncs + 1)
      BY <1>25 DEF DestroyCollect
    <2>3. syncs' \in 0..Syncs
      BY <1>25, <1>y, <2>2 DEF DestroyCollect, Syncs
    <2>4. QED
      BY <1>t, <1>25, <2>1, <2>2, <2>3, Zenon DEF TypeOK, Returns, DestroyCollect, call
  <1>26. ASSUME DestroyCollected PROVE TypeOK'
    <2>1. pc' \in [Job -> Label]
      BY <1>26, <1>t DEF DestroyCollected, Goto, Label, Running, Dying
    <2>2. syncs' \in 0..Syncs
      BY <1>26, <1>t DEF DestroyCollected, Syncs
    <2>3. QED
      BY <1>t, <1>26, <2>1, <2>2, Zenon DEF TypeOK, Returns, DestroyCollected, call
  <1>27. ASSUME DestroyGc PROVE TypeOK'
    <2>1. /\ pc' \in [Job -> Label] /\ goal' \in [Job -> {"IGN", "COLL", "TERM"}]
          /\ after' \in [Job -> {"run", "look", "bail", "sync", "join"}]
      BY <1>27, CallSignalTypes DEF DestroyGc
    <2>2. sig' = [mask |-> sig.mask \ {0}, schedule |-> sig.schedule, signal |-> sig.signal]
      BY <1>27, <1>w DEF DestroyGc
    <2>3. sig' \in Word
      BY <1>27, <2>2, <1>w, WordTypes DEF DestroyGc
    <2>4. QED
      BY <1>t, <1>27, <2>1, <2>2, <2>3, Zenon DEF TypeOK, Returns, DestroyGc, call
  <1>28. ASSUME DestroyJoin PROVE TypeOK'
    <2>1. pc' \in [Job -> Label]
      BY <1>28, <1>t DEF DestroyJoin, Goto, Label, Running, Dying
    <2>2. QED
      BY <1>t, <1>28, <2>1, Zenon DEF TypeOK, Returns, DestroyJoin, call
  <1>29. ASSUME GcLoop PROVE TypeOK'
    <2>1. pc' \in [Job -> Label]
      BY <1>29, <1>t DEF GcLoop, Goto, Label, Running, Dying
    <2>2. QED
      BY <1>t, <1>29, <2>1, Zenon DEF TypeOK, Returns, GcLoop, call
  <1>30. ASSUME GcAck PROVE TypeOK'
    <2>1. pc' \in [Job -> Label]
      BY <1>30, <1>t DEF GcAck, Goto, Label, Running, Dying
    <2>2. sig' = [mask |-> sig.mask, schedule |-> -1, signal |-> sig.signal]
      BY <1>30, <1>w DEF GcAck
    <2>3. -1 \in (-2)..(Len - 1)
      BY <1>30 DEF GcAck
    <2>4. sig' \in Word
      BY <1>30, <2>2, <2>3, <1>w, WordTypes DEF GcAck
    <2>5. QED
      BY <1>t, <1>30, <2>1, <2>2, <2>3, <2>4, Zenon DEF TypeOK, Returns, GcAck, call
  <1>31. ASSUME GcRead PROVE TypeOK'
    <2>1. Goto(Gc, "clear") \/ Goto(Gc, "collect") \/ Goto(Gc, "loop")
      BY <1>31 DEF GcRead
    <2>2. pc' \in [Job -> Label]
      BY <1>31, <2>1, <1>p DEF GcRead, Goto, Label, Running, Dying
    <2>3. QED
      BY <1>t, <1>31, <2>1, <2>2, Zenon DEF TypeOK, Returns, GcRead, call
  <1>32. ASSUME GcCollect PROVE TypeOK'
    <2>1. pc' \in [Job -> Label]
      BY <1>32, <1>t DEF GcCollect, Goto, Label, Running, Dying
    <2>2. epoch[0] + 1 \in Nat
      BY <1>32, <1>e DEF GcCollect
    <2>3. epoch' = [epoch EXCEPT ![0] = epoch[0] + 1]
      BY <1>32 DEF GcCollect
    <2>4. epoch' \in [Job -> Nat]
      BY <1>32, <1>e, <2>2, <2>3 DEF GcCollect
    <2>5. QED
      BY <1>t, <1>32, <2>1, <2>2, <2>3, <2>4, Zenon DEF TypeOK, Returns, GcCollect, call
  <1>33. ASSUME GcClear PROVE TypeOK'
    <2>1. pc' \in [Job -> Label]
      BY <1>33, <1>t DEF GcClear, Goto, Label, Running, Dying
    <2>2. sig' = [mask |-> sig.mask, schedule |-> -1, signal |-> "IGN"]
      BY <1>33, <1>w DEF GcClear
    <2>3. -1 \in (-2)..(Len - 1)
      BY <1>33 DEF GcClear
    <2>4. sig' \in Word
      BY <1>33, <2>2, <2>3, <1>w, WordTypes DEF GcClear
    <2>5. QED
      BY <1>t, <1>33, <2>1, <2>2, <2>3, <2>4, Zenon DEF TypeOK, Returns, GcClear, call
  <1>34. ASSUME GcWakeSpurious PROVE TypeOK'
    <2>1. pc' \in [Job -> Label]
      BY <1>34, <1>t DEF GcWakeSpurious, Goto, Label, Running, Dying
    <2>2. QED
      BY <1>t, <1>34, <2>1, Zenon DEF TypeOK, Returns, GcWakeSpurious, call
  <1>35. ASSUME UNCHANGED vars PROVE TypeOK'
    BY <1>t, <1>35, Zenon DEF TypeOK, Returns, vars, call
  <1>36. QED
    BY <1>1, <1>2, <1>3, <1>4, <1>5, <1>6, <1>7, <1>8, <1>9, <1>10, <1>11, <1>12, <1>13, <1>14, <1>15, <1>16, <1>17, <1>18, <1>19, <1>20, <1>21, <1>22, <1>23, <1>24, <1>25, <1>26, <1>27, <1>28, <1>29, <1>30, <1>31, <1>32, <1>33, <1>34, <1>35 DEF Next, SignalStep, JobStep, DestroyStep, GcStep

-----------------------------------------------------------------------------
(* The steps of a thread that only goes on, or only passes the signal on.  *)

(* Where a thread is at work, and main has not begun to destroy.           *)
AtWork == {"run", "look", "spawn", "unalive", "unload", "uncas",
           "begin", "bail", "await", "await_yield", "drain"}

(* A thread at work is in the mask.                                        *)
LEMMA IsMember ==
  ASSUME IInv, NEW p \in Job \ {Gc}, pc[p] \in AtWork
  PROVE  p \in sig.mask
  <1>1. Members
    BY Parts
  <1>2. p = Main => ~Late
    BY DEF AtWork, Late, Last, Carries
  <1>3. Masked(p)
    BY <1>2 DEF AtWork, Masked
  <1>4. QED
    BY <1>1, <1>3 DEF Members

(* A walk between two places where main has nothing to do with destroying. *)
LEMMA PlainWalk ==
  ASSUME IInv, TypeOK', NEW p \in Job \ {Gc}, NEW l \in AtWork \ {"spawn"},
         pc[p] \in AtWork \ {"spawn"}, Goto(p, l),
         sig' = sig, owing' = owing, child' = child, call' = call, odd => odd',
         \/ odd'
         \/ /\ pc[p] \in Dying => l \in Dying
            /\ l \in Dying => MayLeaveAt(p, l)
            /\ l \in {"bail", "await", "await_yield", "drain"} => MayDrainAt(p, l)
  PROVE  IInv'
  <1>1. l \in Label
    BY DEF AtWork, Label, Running, Dying
  <1>2. pc' = [pc EXCEPT ![p] = l] /\ TypeOK
    BY Parts DEF Goto
  <1>3. goal' = goal /\ after' = after /\ target' = target /\ then' = then
    BY DEF call
  <1>4. Walks(p, l)
    BY <1>2, <1>3 DEF Walks, AtWork, Others
  <1>5. p = Main => ~Late /\ ~Late'
    <2>1. pc'[p] = l
      BY <1>2 DEF TypeOK
    <2>2. QED
      BY <2>1 DEF Late, Last, Carries, AtWork
  <1>6. l # "gc_unalive" /\ l # "signal" /\ pc[p] # "drained"
    BY DEF AtWork
  <1>7. p = Main => ~Last /\ ~Last'
    BY <1>5 DEF Late
  <1>8. Entitled(p, l)
    BY <1>5, <1>6, <1>7 DEF Entitled
  <1>9. QED
    BY <1>1, <1>4, <1>8, WalkKeeps

(* A call of gab_signal by a thread that runs.                             *)
LEMMA CallKeeps ==
  ASSUME IInv, TypeOK', NEW p \in Job \ {Gc}, NEW s \in {"COLL", "TERM"},
         NEW l \in {"look", "bail", "sync"},
         l = "bail" => p = Main /\ s = "TERM",
         l = "sync" => p = Main /\ s = "COLL",
         pc[p] \in {"run", "look", "sync"}, l = "sync" <=> pc[p] = "sync",
         CallSignal(p, s, l),
         sig' = sig, owing' = owing, child' = child, target' = target, then' = then,
         odd => odd'
  PROVE  IInv'
  <1>1. /\ TypeOK /\ pc' = [pc EXCEPT ![p] = "signal"]
        /\ goal' = [goal EXCEPT ![p] = s] /\ after' = [after EXCEPT ![p] = l]
    BY Parts DEF CallSignal, Goto
  <1>2. goal'[p] = s /\ after'[p] = l /\ pc'[p] = "signal"
    BY <1>1 DEF TypeOK
  <1>3. Walks(p, "signal")
    <2>1. Others(p)
      BY <1>1 DEF Others, TypeOK
    <2>2. QED
      BY <1>1, <2>1 DEF Walks
  <1>4. p = Main => (Late' <=> Late) /\ (Last' <=> Last)
    <2>1. p = Main => ~Last /\ ~Last'
      BY <1>2 DEF Last, Carries
    <2>2. p = Main => (Late <=> pc[p] = "sync") /\ (Late' <=> l = "sync")
      BY <1>2, <2>1 DEF Late, Carries
    <2>3. QED
      BY <2>1, <2>2
  <1>5. Entitled(p, "signal")
    BY <1>2, <1>4 DEF Entitled, Dying
  <1>6. "signal" \in Label
    BY DEF Label
  <1>7. QED
    BY <1>3, <1>5, <1>6, WalkKeeps

(* A thread that handles COLL passes it on.                                *)
LEMMA CollectedKeeps ==
  ASSUME IInv, TypeOK', NEW p \in Job \ {Gc}, p \in sig.mask,
         NEW l \in {"run", "signal", "await", "unload"}, Collected(p, l),
         pc[p] \in AtWork \cup {"signal"}, pc[p] # "spawn",
         l = "signal" => pc[p] = "signal",
         odd \/ (l \notin {"await", "unload"} /\ pc[p] \notin Dying),
         sig' = sig, child' = child
  PROVE  IInv'
  <1>1. TypeOK /\ sig.signal = "COLL" /\ sig.schedule = p
    BY Parts DEF Collected, Turn
  <1>2. Passes(p, l)
    <2>1. /\ CallNext(p, p + 1, l) /\ goal' = goal /\ after' = after
          /\ owing' = owing \ {p} /\ odd' = odd
      BY DEF Collected, Propagate, EpochNext
    <2>2. QED
      BY <1>1, <2>1 DEF Passes, CallNext, Goto, AtWork
  <1>3. odd' = odd
    BY DEF Collected, EpochNext
  <1>4. QED
    BY <1>1, <1>2, <1>3, PassKeeps

(* A thread whose turn it is to terminate passes it on.                    *)
LEMMA PropagateKeeps ==
  ASSUME IInv, TypeOK', NEW p \in Job \ {Gc}, NEW l \in {"run", "unload"},
         pc[p] \in AtWork \ {"spawn"}, Turn(p, "TERM"), Propagate(p, l),
         odd' \/ l = "unload",
         odd => odd', sig' = sig, child' = child, owing' = owing
  PROVE  IInv'
  <1>1. TypeOK /\ sig.signal = "TERM" /\ sig.schedule = p
    BY Parts DEF Turn
  <1>2. p \in sig.mask
    BY IsMember
  <1>3. Carrier(p) \/ p \notin owing
    BY <1>1, Parts DEF Reports
  <1>4. ~Carrier(p)
    BY DEF AtWork, Carrier
  <1>5. Passes(p, l)
    <2>1. CallNext(p, p + 1, l) /\ goal' = goal /\ after' = after
      BY DEF Propagate
    <2>2. owing' \subseteq owing \ {p}
      BY <1>3, <1>4
    <2>3. QED
      BY <1>1, <2>1, <2>2 DEF Passes, CallNext, Goto, AtWork
  <1>6. odd' \/ (l # "await" /\ (sig.signal = "TERM" <=> l = "unload")
                 /\ (pc[p] \in Dying => l = "unload"))
    BY <1>1
  <1>7. QED
    BY <1>2, <1>5, <1>6, PassKeeps

(* A job looks at its signal, goes on, spawns nothing and quits.           *)
LEMMA YieldKeeps ==
  ASSUME IInv, TypeOK', NEW p \in Job \ {Gc}, Yield(p)
  PROVE  IInv'
  <1>1. /\ pc[p] \in {"run", "look"} /\ sig' = sig /\ child' = child
        /\ pc[p] \in AtWork \ {"spawn"} /\ pc[p] \notin Dying
    BY DEF Yield, AtWork, Dying
  <1>2. p \in sig.mask
    BY <1>1, IsMember
  <1>3. CASE Collected(p, "run")
    BY <1>1, <1>2, <1>3, CollectedKeeps
  <1>4. ASSUME Goto(p, "run"), UNCHANGED <<epoch, call, owing, odd>> PROVE IInv'
    <2>1. "run" \in AtWork \ {"spawn"} /\ "run" \notin Dying
      BY DEF AtWork, Dying
    <2>2. QED
      BY <1>1, <1>4, <2>1, PlainWalk
  <1>5. ASSUME Turn(p, "TERM"), Goto(p, "bail"), UNCHANGED <<epoch, call, owing, odd>> PROVE IInv'
    <2>1. "bail" \in AtWork \ {"spawn"} /\ "bail" \notin Dying /\ MayDrainAt(p, "bail")
      BY <1>5 DEF AtWork, Dying, MayDrainAt
    <2>2. QED
      BY <1>1, <1>5, <2>1, PlainWalk
  <1>6. ASSUME Turn(p, "TERM"), Propagate(p, "run"), odd' = TRUE, owing' = owing PROVE IInv'
    BY <1>1, <1>6, PropagateKeeps
  <1>7. ASSUME p = Main, CallSignal(p, "TERM", "bail"), UNCHANGED <<target, then, owing, odd>> PROVE IInv'
    BY <1>1, <1>7, CallKeeps
  <1>8. QED
    BY <1>3, <1>4, <1>5, <1>6, <1>7 DEF Yield

(* A running job wants to raise a signal, or main begins to destroy.       *)
LEMMA RaiseCallKeeps ==
  ASSUME IInv, TypeOK', NEW p \in Job \ {Gc}, Raise(p)
  PROVE  IInv'
  <1>1. pc[p] = "run" /\ UNCHANGED <<sig, target, then, child, owing, odd>>
    BY DEF Raise
  <1>2. PICK s \in {"COLL", "TERM"} : CallSignal(p, s, "look")
    BY DEF Raise
  <1>3. QED
    BY <1>1, <1>2, CallKeeps

(* Main begins to destroy.                                                 *)
LEMMA DestroyKeeps == ASSUME IInv, TypeOK', Destroy PROVE IInv'
  <1>1. /\ pc[Main] = "run" /\ UNCHANGED <<sig, target, then, child, owing, odd>>
        /\ CallSignal(Main, "TERM", "bail")
    BY DEF Destroy
  <1>2. Main \in Job \ {Gc}
    OBVIOUS
  <1>3. QED
    BY <1>1, <1>2, CallKeeps

(* A spawned thread begins, and finds its bit set.                         *)
LEMMA BeginKeeps ==
  ASSUME IInv, TypeOK', NEW p \in Job \ {Gc}, Begin(p)
  PROVE  IInv'
  <1>1. /\ pc[p] = "begin" /\ Goto(p, "run") /\ owing' = owing /\ child' = child /\ call' = call
        /\ odd' = odd /\ sig' = [sig EXCEPT !.mask = @ \cup {p}]
    BY DEF Begin
  <1>2. pc[p] \in AtWork \ {"spawn"} /\ pc[p] \notin Dying
    BY <1>1 DEF AtWork, Dying
  <1>3. p \in sig.mask
    BY <1>2, IsMember
  <1>4. sig' = sig
    <2>1. sig = [mask |-> sig.mask, schedule |-> sig.schedule, signal |-> sig.signal]
      BY Parts, WordFacts
    <2>2. sig.mask \cup {p} = sig.mask
      BY <1>3
    <2>3. QED
      BY <1>1, <2>1, <2>2
  <1>5. "run" \in AtWork \ {"spawn"} /\ "run" \notin Dying
    BY DEF AtWork, Dying
  <1>6. QED
    BY <1>1, <1>2, <1>4, <1>5, PlainWalk

(* A worker's step fails.                                                  *)
LEMMA QuitKeeps ==
  ASSUME IInv, TypeOK', NEW p \in Job \ {Gc}, Quit(p)
  PROVE  IInv'
  <1>1. /\ pc[p] \in AtWork \ {"spawn"} /\ "bail" \in AtWork \ {"spawn"} /\ Goto(p, "bail") /\ odd'
        /\ UNCHANGED <<sig, call, child, owing>>
    BY DEF Quit, AtWork
  <1>2. QED
    BY <1>1, PlainWalk

(* What main and the workers know while they wait for TERM and drain.      *)
LEMMA DrainFacts ==
  ASSUME IInv, ~odd, NEW p \in Job \ {Gc}
  PROVE  /\ pc[p] \in {"bail", "await", "await_yield", "drain"} => MayDrainAt(p, pc[p])
         /\ pc[p] \in Dying => MayLeaveAt(p, pc[p])
  BY Parts DEF Leavers, MayDrain, MayLeave, Leaving

(* A job that leaves its loop, waits for TERM and drains its queue.        *)
LEMMA BailKeeps ==
  ASSUME IInv, TypeOK', NEW p \in Job \ {Gc}, Bail(p) \/ Await(p) \/ Drain(p)
  PROVE  IInv'
  <1>1. UNCHANGED <<sig, call, child, owing, odd>>
    BY DEF Bail, Await, Drain
  <1>2. PICK l \in {"await", "drain", "await_yield", "unalive"} :
          /\ Goto(p, l)
          /\ \/ pc[p] = "bail" /\ l = "await"
             \/ pc[p] = "await" /\ l = "drain" /\ sig.schedule = p
             \/ pc[p] = "await" /\ l = "await_yield"
             \/ pc[p] = "drain" /\ l = "unalive"
    <2>1. CASE Bail(p)
      <3>1. pc[p] = "bail"
        BY <2>1 DEF Bail
      <3>2. p \in sig.mask
        BY <3>1, IsMember DEF AtWork
      <3>3. QED
        BY <2>1, <3>1, <3>2 DEF Bail
    <2>2. CASE Await(p)
      BY <2>2 DEF Await
    <2>3. CASE Drain(p)
      BY <2>3 DEF Drain
    <2>4. QED
      BY <2>1, <2>2, <2>3
  <1>3. pc[p] \in AtWork \ {"spawn"} /\ l \in AtWork \ {"spawn"} /\ pc[p] \notin Dying
    BY <1>2 DEF AtWork, Dying
  <1>4. ASSUME ~odd
        PROVE  /\ l \in Dying => MayLeaveAt(p, l)
               /\ l \in {"bail", "await", "await_yield", "drain"} => MayDrainAt(p, l)
    <2>1. MayDrainAt(p, pc[p])
      BY <1>2, <1>4, DrainFacts
    <2>2. QED
      BY <1>2, <2>1 DEF MayDrainAt, MayLeaveAt, Turn, Dying
  <1>5. QED
    BY <1>1, <1>2, <1>3, <1>4, PlainWalk

(* One look at the word in the loop that waits for TERM.                   *)
LEMMA AwaitYieldKeeps ==
  ASSUME IInv, TypeOK', NEW p \in Job \ {Gc}, AwaitYield(p)
  PROVE  IInv'
  <1>1. pc[p] = "await_yield" /\ sig' = sig /\ child' = child
    BY DEF AwaitYield
  <1>2. pc[p] \in AtWork \ {"spawn"} /\ pc[p] \notin Dying
    BY <1>1 DEF AtWork, Dying
  <1>3. p \in sig.mask
    BY <1>2, IsMember
  <1>4. ~odd => MayDrainAt(p, "await_yield")
    BY <1>1, DrainFacts
  <1>5. CASE Collected(p, "await")
    <2>1. odd
      BY <1>4, <1>5 DEF Collected, Turn, MayDrainAt
    <2>2. QED
      BY <1>1, <1>2, <1>3, <1>5, <2>1, CollectedKeeps
  <1>6. ASSUME NEW l \in {"drain", "await"}, Goto(p, l), UNCHANGED <<epoch, call, owing, odd>>,
               l = "drain" => Turn(p, "TERM")
        PROVE  IInv'
    <2>1. l \in AtWork \ {"spawn"} /\ l \notin Dying
      BY DEF AtWork, Dying
    <2>2. ~odd => MayDrainAt(p, l)
      BY <1>4, <1>6 DEF MayDrainAt
    <2>3. QED
      BY <1>1, <1>2, <1>6, <2>1, <2>2, PlainWalk
  <1>7. QED
    BY <1>5, <1>6 DEF AwaitYield

(* A dying job passes the signal on and loads the word.                    *)
LEMMA UnaliveKeeps ==
  ASSUME IInv, TypeOK', NEW p \in Job \ {Gc}, Unalive(p)
  PROVE  IInv'
  <1>1. pc[p] = "unalive" /\ sig' = sig /\ child' = child
    BY DEF Unalive
  <1>2. pc[p] \in AtWork \ {"spawn"} /\ pc[p] \in Dying
    BY <1>1 DEF AtWork, Dying
  <1>3. p \in sig.mask
    BY <1>2, IsMember
  <1>4. ~odd => MayLeaveAt(p, "unalive")
    BY <1>1, <1>2, DrainFacts
  <1>5. CASE Collected(p, "unload")
    <2>1. odd
      BY <1>4, <1>5 DEF Collected, Turn, MayLeaveAt
    <2>2. QED
      BY <1>1, <1>2, <1>3, <1>5, <2>1, CollectedKeeps
  <1>6. ASSUME Turn(p, "TERM"), Propagate(p, "unload"), UNCHANGED <<epoch, owing, odd>> PROVE IInv'
    BY <1>1, <1>2, <1>6, PropagateKeeps
  <1>7. ASSUME sig.schedule # p, Goto(p, "unload"), UNCHANGED <<epoch, call, owing, odd>> PROVE IInv'
    <2>1. "unload" \in AtWork \ {"spawn"} /\ "unload" \in Dying
      BY DEF AtWork, Dying
    <2>2. ~odd => MayLeaveAt(p, "unload")
      BY <1>4, <1>7 DEF MayLeaveAt, Turn
    <2>3. QED
      BY <1>1, <1>2, <1>7, <2>1, <2>2, PlainWalk
  <1>8. QED
    BY <1>5, <1>6, <1>7 DEF Unalive

(* The swap fails or is prepared.                                          *)
LEMMA UnloadKeeps ==
  ASSUME IInv, TypeOK', NEW p \in Job \ {Gc}, NEW l \in {"uncas", "unalive"},
         pc[p] = "unload" \/ pc[p] = "uncas", Goto(p, l),
         UNCHANGED <<sig, owing, call, child, odd>>
  PROVE  IInv'
  <1>1. pc[p] \in AtWork \ {"spawn"} /\ pc[p] \in Dying /\ l \in AtWork \ {"spawn"} /\ l \in Dying
        /\ l \notin {"bail", "await", "await_yield", "drain"}
    BY DEF AtWork, Dying
  <1>2. ~odd => MayLeaveAt(p, pc[p])
    BY <1>1, DrainFacts
  <1>3. ~odd => MayLeaveAt(p, l)
    BY <1>2 DEF MayLeaveAt
  <1>4. QED
    BY <1>1, <1>3, PlainWalk

(* The signal that a thread wants to raise is on its way.                  *)
LEMMA ReturnKeeps ==
  ASSUME IInv, TypeOK', NEW p \in Job \ {Gc}, SignalReturn(p)
  PROVE  IInv'
  <1>i. TypeOK /\ Members /\ Calls /\ (odd \/ Leavers)
    BY Parts
  <1>1. /\ pc[p] = "signal" /\ (sig.signal = goal[p] \/ Turn(p, "TERM"))
        /\ Goto(p, after[p]) /\ UNCHANGED <<sig, call, child, owing, odd>>
    BY DEF SignalReturn
  <1>2. PICK l \in {"run", "look", "bail", "sync", "join"} : l = after[p]
    BY <1>i DEF TypeOK
  <1>3. pc' = [pc EXCEPT ![p] = l] /\ pc'[p] = l /\ goal' = goal /\ after' = after
        /\ target' = target /\ then' = then
    BY <1>i, <1>1, <1>2 DEF TypeOK, Goto, call
  <1>4. Walks(p, l)
    BY <1>1, <1>3 DEF Walks, Others
  <1>5. p = Main => (Late' <=> Late) /\ (Last' <=> Last)
    <2>1. p = Main => (Last <=> l = "join") /\ (Last' <=> l = "join")
      BY <1>1, <1>2, <1>3 DEF Last, Carries
    <2>2. p = Main => (Late <=> l \in {"sync", "join"}) /\ (Late' <=> l \in {"sync", "join"})
      BY <1>1, <1>2, <1>3, <2>1 DEF Late, Carries
    <2>3. QED
      BY <2>1, <2>2
  <1>6. ASSUME l = "bail", ~odd PROVE MayDrainAt(p, l)
    <2>1. p = Main /\ goal[p] = "TERM"
      BY <1>1, <1>2, <1>6, <1>i DEF Calls
    <2>2. sig.signal = "TERM"
      BY <1>1, <2>1 DEF Turn
    <2>3. ~Late
      BY <1>1, <1>2, <1>6, <2>1 DEF Late, Last, Carries
    <2>4. p \in sig.mask
      BY <1>i, <1>1, <2>1, <2>3 DEF Members, Masked
    <2>5. ~Leaving(p)
      BY <1>1 DEF Leaving, Dying, Carries
    <2>6. ~Passed(p)
      BY <1>i, <1>6, <2>2, <2>4, <2>5 DEF Leavers
    <2>7. sig.schedule \in (-2)..(Len - 1) /\ sig.schedule # 0 /\ ~(1 < sig.schedule)
      BY <1>i, <2>1, <2>6, WordFacts DEF Passed
    <2>8. sig.schedule \in {-2, -1, 1}
      BY <2>7
    <2>9. QED
      BY <1>6, <2>1, <2>2, <2>8 DEF MayDrainAt, Turn
  <1>7. Entitled(p, l)
    <2>1. l \notin Dying /\ pc[p] \notin Dying
      BY <1>1 DEF Dying
    <2>2. QED
      BY <1>1, <1>5, <1>6, <2>1 DEF Entitled
  <1>8. l \in Label
    BY DEF Label, Running
  <1>9. QED
    BY <1>4, <1>7, <1>8, WalkKeeps

(* A collection reaches a thread that wants to raise a termination.        *)
LEMMA SignalCollectedKeeps ==
  ASSUME IInv, TypeOK', NEW p \in Job \ {Gc}, SignalCollected(p)
  PROVE  IInv'
  <1>i. TypeOK /\ Members /\ Calls
    BY Parts
  <1>1. /\ pc[p] = "signal" /\ goal[p] # "COLL" /\ Collected(p, "signal") /\ sig' = sig /\ child' = child
    BY DEF SignalCollected
  <1>2. sig.signal = "COLL"
    BY <1>1 DEF Collected, Turn
  <1>3. ~(p = Main /\ Late)
    BY <1>i, <1>1, <1>2 DEF Calls, Members, Late, Last, Carries
  <1>4. p \in sig.mask
    BY <1>i, <1>1, <1>3 DEF Members, Masked
  <1>5. pc[p] \in AtWork \cup {"signal"} /\ pc[p] \notin Dying
    BY <1>1 DEF Dying
  <1>6. QED
    BY <1>1, <1>4, <1>5, CollectedKeeps

(* Main has asked for its collections, or joins the collector.             *)
LEMMA DestroyWalkKeeps ==
  ASSUME IInv, TypeOK', DestroyCollected \/ DestroyJoin
  PROVE  IInv'
  <1>1. PICK l \in {"gc_unalive", "done"} :
          /\ Goto(Main, l) /\ UNCHANGED <<sig, call, child, owing, odd>>
          /\ \/ pc[Main] = "sync" /\ sig.signal = "IGN" /\ l = "gc_unalive"
             \/ pc[Main] = "join" /\ l = "done"
    BY DEF DestroyCollected, DestroyJoin
  <1>2. /\ pc' = [pc EXCEPT ![Main] = l] /\ pc'[Main] = l
        /\ goal' = goal /\ after' = after /\ target' = target /\ then' = then
    BY <1>1, Parts DEF TypeOK, Goto, call
  <1>3. Walks(Main, l)
    BY <1>1, <1>2 DEF Walks, Others
  <1>4. (Last <=> l = "done") /\ (Last' <=> l = "done")
    BY <1>1, <1>2 DEF Last, Carries
  <1>5. Late /\ Late'
    BY <1>1, <1>2, <1>4 DEF Late
  <1>6. Entitled(Main, l)
    BY <1>1, <1>4, <1>5 DEF Entitled, Dying
  <1>7. l \in Label /\ Main \in Job \ {Gc}
    BY DEF Label
  <1>8. QED
    BY <1>3, <1>6, <1>7, WalkKeeps

-----------------------------------------------------------------------------
(* The collector, as long as it does not write to the word.                *)
LEMMA GcWalkKeeps ==
  ASSUME IInv, TypeOK', NEW l \in GcLabel, Goto(Gc, l),
         UNCHANGED <<sig, call, child, owing, odd>>,
         l \in {"collect", "clear"} => sig.schedule = Gc,
         l = "collect" => sig.signal = "COLL"
  PROVE  IInv'
  <1>i. TypeOK /\ Members /\ Claims /\ Calls /\ Rounds /\ Reports /\ (odd \/ Leavers)
    BY Parts
  <1>s. /\ sig' = sig /\ child' = child /\ owing' = owing /\ odd' = odd
        /\ goal' = goal /\ after' = after /\ target' = target /\ then' = then
    BY DEF call
  <1>l. pc'[Gc] = l /\ \A q \in Job \ {Gc} : pc'[q] = pc[q]
    BY <1>i DEF TypeOK, Goto
  <1>g. /\ pc[Gc] \in GcLabel
        /\ \A k \in GcLabel : k \notin {"none", "done", "next", "skip", "signal", "lock", "ack", "spawn"} \cup Dying
    BY <1>i DEF Members, GcLabel, Dying
  <1>c. \A q \in Job : (Carries(q)' <=> Carries(q)) /\ (Carrier(q)' <=> Carrier(q))
    BY <1>g, <1>l DEF Carries, Carrier
  <1>p. \A q \in Job : Passed(q)' <=> Passed(q)
    BY <1>c, <1>s DEF Passed
  <1>m. (Late' <=> Late) /\ (Last' <=> Last)
    BY <1>c, <1>l, <1>s DEF Late, Last
  <1>1. Members'
    <2>1. \A q \in Job \ {Gc} : Masked(q)' <=> Masked(q)
      BY <1>l, <1>m DEF Masked
    <2>2. \A q \in Job : pc'[q] = "skip" => pc[q] = "skip"
      BY <1>g, <1>l
    <2>3. QED
      BY <1>i, <1>l, <1>m, <1>s, <2>1, <2>2 DEF Members
  <1>2. Claims'
    <2>1. \A q \in Job : pc'[q] = "spawn" => pc[q] = "spawn"
      BY <1>g, <1>l
    <2>2. ASSUME NEW q \in Job, pc[q] = "spawn" PROVE pc'[child[q]] \in {"none", "done"}
      <3>1. pc[child[q]] \in {"none", "done"} /\ child[q] \in Job
        BY <1>i, <2>2, WordFacts DEF Claims
      <3>2. child[q] # Gc
        BY <1>g, <3>1
      <3>3. QED
        BY <1>l, <3>1, <3>2
    <2>3. QED
      BY <1>i, <1>s, <2>1, <2>2 DEF Claims
  <1>3. Calls'
    BY <1>i, <1>c, <1>g, <1>l, <1>s DEF Calls
  <1>4. Rounds'
    <2>1. \A q \in Job : pc'[q] \in {"lock", "ack"} => pc[q] \in {"lock", "ack"}
      BY <1>g, <1>l
    <2>2. QED
      BY <1>i, <1>c, <1>l, <1>s, <2>1 DEF Rounds
  <1>5. Reports'
    BY <1>i, <1>p, <1>s DEF Reports, TypeOK
  <1>6. (odd \/ Leavers)'
    <2> SUFFICES ASSUME ~odd, Leavers PROVE Leavers'
      BY <1>i, <1>s
    <2>1. \A q \in Job : Leaving(q)' <=> Leaving(q)
      BY <1>c, <1>g, <1>l, <1>s DEF Leaving
    <2>2. sig.mask \subseteq Job
      BY <1>i, WordFacts
    <2>3. AllLeaving' <=> AllLeaving
      BY <1>s, <2>1, <2>2 DEF AllLeaving
    <2>4. \A q \in Job \ {Gc} : (MayLeave(q)' <=> MayLeave(q)) /\ (MayDrain(q)' <=> MayDrain(q))
      BY <1>l, <1>p, <1>s, <2>3 DEF MayLeave, MayLeaveAt, MayDrain, MayDrainAt, Turn
    <2>5. QED
      BY <1>c, <1>l, <1>p, <1>s, <2>1, <2>2, <2>4 DEF Leavers
  <1>7. QED
    BY <1>1, <1>2, <1>3, <1>4, <1>5, <1>6 DEF IInv, Safe

(* The loop's condition, a spurious wake-up, the spin and the collection.  *)
LEMMA GcPlainKeeps ==
  ASSUME IInv, TypeOK', GcLoop \/ GcWakeSpurious \/ GcRead \/ GcCollect
  PROVE  IInv'
  <1>1. UNCHANGED <<sig, call, child, owing, odd>>
    BY DEF GcLoop, GcWakeSpurious, GcRead, GcCollect
  <1>2. PICK l \in GcLabel :
          /\ Goto(Gc, l)
          /\ l \in {"collect", "clear"} => sig.schedule = Gc
          /\ l = "collect" => sig.signal = "COLL"
    <2>1. CASE GcLoop
      BY <2>1 DEF GcLoop, GcLabel
    <2>2. CASE GcWakeSpurious
      BY <2>2 DEF GcWakeSpurious, GcLabel
    <2>3. CASE GcRead
      BY <2>3 DEF GcRead, GcLabel, Turn
    <2>4. CASE GcCollect
      BY <2>4, Parts DEF GcCollect, GcLabel, Rounds
    <2>5. QED
      BY <2>1, <2>2, <2>3, <2>4
  <1>3. QED
    BY <1>1, <1>2, GcWalkKeeps

-----------------------------------------------------------------------------
(* gab_destroy's collections, and its last signal.                         *)
LEMMA OnlyCollector ==
  ASSUME IInv, pc[Main] = "drained", Cardinality(sig.mask) = 1
  PROVE  sig.mask \subseteq {Gc}
  <1>1. TypeOK /\ Members
    BY Parts
  <1>2. sig.mask \subseteq 0..(Len - 1) /\ IsFiniteSet(0..(Len - 1))
    BY <1>1, WordFacts, FS_Interval
  <1>3. IsFiniteSet(sig.mask)
    BY <1>2, FS_Subset
  <1>4. ~Last
    BY DEF Last, Carries
  <1>5. Gc \in sig.mask
    BY <1>1, <1>4 DEF Members
  <1>6. PICK x : sig.mask = {x}
    BY <1>3, FS_Singleton
  <1>7. QED
    BY <1>5, <1>6

(* Only the collector is left: main asks for a collection, four times.     *)
LEMMA CollectKeeps ==
  ASSUME IInv, TypeOK', DestroyCollect
  PROVE  IInv'
  <1>1. /\ CallSignal(Main, "COLL", "sync")
        /\ UNCHANGED <<sig, target, then, child, owing, odd>>
    BY DEF DestroyCollect
  <1>2. CASE pc[Main] = "sync"
    <2>1. Main \in Job \ {Gc}
      OBVIOUS
    <2>2. QED
      BY <1>1, <1>2, <2>1, CallKeeps
  <1>3. CASE pc[Main] = "drained"
    <2>1. sig.mask \subseteq {Gc}
      BY <1>3, OnlyCollector DEF DestroyCollect
    <2>2. /\ TypeOK /\ pc' = [pc EXCEPT ![Main] = "signal"]
          /\ goal' = [goal EXCEPT ![Main] = "COLL"] /\ after' = [after EXCEPT ![Main] = "sync"]
      BY <1>1, Parts DEF CallSignal, Goto
    <2>3. goal'[Main] = "COLL" /\ after'[Main] = "sync" /\ pc'[Main] = "signal"
      BY <2>2 DEF TypeOK
    <2>4. Others(Main)
      BY <1>1, <2>2 DEF Others, TypeOK
    <2>5. Walks(Main, "signal")
      BY <1>1, <1>3, <2>2, <2>4 DEF Walks
    <2>6. ~Last /\ ~Last' /\ Late'
      BY <1>3, <2>3 DEF Last, Late, Carries
    <2>7. Entitled(Main, "signal")
      BY <1>3, <2>1, <2>3, <2>6 DEF Entitled, Dying
    <2>8. "signal" \in Label /\ Main \in Job \ {Gc}
      BY DEF Label
    <2>9. QED
      BY <2>5, <2>7, <2>8, WalkKeeps
  <1>4. QED
    BY <1>2, <1>3 DEF DestroyCollect

(* The collector's bit is cleared for it.                                  *)
LEMMA GcUnaliveKeeps ==
  ASSUME IInv, TypeOK', DestroyGc
  PROVE  IInv'
  <1>i. TypeOK /\ Members /\ Claims /\ Calls /\ Rounds /\ Reports /\ (odd \/ Leavers)
    BY Parts
  <1>w. /\ sig.mask \in SUBSET Job
        /\ sig = [mask |-> sig.mask, schedule |-> sig.schedule, signal |-> sig.signal]
    BY <1>i, WordFacts
  <1>1. /\ pc[Main] = "gc_unalive" /\ CallSignal(Main, "TERM", "join")
        /\ sig' = [sig EXCEPT !.mask = @ \ {Gc}]
        /\ UNCHANGED <<target, then, child, owing, odd>>
    BY DEF DestroyGc
  <1>2. Late /\ sig.mask \subseteq {Gc} /\ sig.signal = "IGN"
    BY <1>i, <1>1 DEF Members, Late
  <1>3. sig'.mask = {} /\ sig'.schedule = sig.schedule /\ sig'.signal = "IGN"
    BY <1>w, <1>1, <1>2
  <1>4. \A q \in Job : ~Carrier(q)
    BY <1>i, <1>2 DEF Rounds
  <1>5. sig.schedule = NoSignal /\ owing = {}
    BY <1>i, <1>2 DEF Rounds, Reports, TypeOK
  <1>l. /\ pc'[Main] = "signal" /\ \A q \in Job \ {Main} : pc'[q] = pc[q]
        /\ goal'[Main] = "TERM" /\ after'[Main] = "join"
    BY <1>i, <1>1 DEF CallSignal, Goto, TypeOK
  <1>6. \A q \in Job \ {Gc, Main} : pc'[q] \in {"none", "done"}
    BY <1>i, <1>2, <1>l DEF Members, Masked
  <1>g. /\ pc'[Gc] = pc[Gc] /\ pc[Gc] \in GcLabel
        /\ \A k \in GcLabel : k \notin {"none", "done", "next", "skip", "signal", "lock", "ack", "spawn"} \cup Dying
    BY <1>i, <1>l DEF Members, GcLabel, Dying
  <1>7. \A q \in Job : ~Carrier(q)' /\ ~Carries(q)' /\ pc'[q] # "spawn" /\ pc'[q] \notin {"lock", "ack"}
    BY <1>6, <1>g, <1>l DEF Carrier, Carries
  <1>8. Last' /\ Late'
    BY <1>l DEF Last, Late
  <1>9. Members'
    BY <1>3, <1>6, <1>7, <1>8, <1>g DEF Members, Masked, Carrier
  <1>10. Claims' /\ Reports'
    BY <1>1, <1>5, <1>7 DEF Claims, Reports
  <1>11. Calls'
    <2>1. \A q \in Job : pc'[q] = "signal" => q = Main
      BY <1>6, <1>g
    <2>2. QED
      BY <1>7, <1>l, <2>1 DEF Calls
  <1>12. Rounds'
    BY <1>i, <1>3, <1>5, <1>7, <1>g DEF Rounds
  <1>13. Leavers'
    <2>1. \A q \in Job \ {Gc} : ~Leaving(q)' /\ pc'[q] \notin {"bail", "await", "await_yield", "drain"}
      BY <1>6, <1>7, <1>l DEF Leaving, Dying
    <2>2. QED
      BY <1>3, <1>5, <1>7, <2>1 DEF Leavers
  <1>14. QED
    BY <1>9, <1>10, <1>11, <1>12, <1>13 DEF IInv, Safe

-----------------------------------------------------------------------------
(* The collector answers, and clears the signal that has come round.       *)

(* It wakes up and tells who called that it may begin.                     *)
LEMMA GcAckKeeps ==
  ASSUME IInv, TypeOK', GcAck
  PROVE  IInv'
  <1>i. TypeOK /\ Members /\ Claims /\ Calls /\ Rounds /\ Reports /\ (odd \/ Leavers)
    BY Parts
  <1>w. /\ sig.mask \in SUBSET Job
        /\ sig = [mask |-> sig.mask, schedule |-> sig.schedule, signal |-> sig.signal]
    BY <1>i, WordFacts
  <1>1. /\ pc[Gc] = "wake" /\ sig.schedule = Calling /\ Goto(Gc, "read")
        /\ sig' = [sig EXCEPT !.schedule = NoSignal]
        /\ child' = child /\ owing' = owing /\ odd' = odd
        /\ goal' = goal /\ after' = after /\ target' = target /\ then' = then
    BY DEF GcAck, call
  <1>2. sig'.mask = sig.mask /\ sig'.schedule = NoSignal /\ sig'.signal = sig.signal
    BY <1>w, <1>1
  <1>l. pc'[Gc] = "read" /\ \A q \in Job \ {Gc} : pc'[q] = pc[q]
    BY <1>i, <1>1 DEF TypeOK, Goto
  <1>c. \A q \in Job : ~Carries(q) /\ ~Carries(q)' /\ (Carrier(q)' <=> Carrier(q))
    <2>1. \A q \in Job : ~Carries(q)
      BY <1>i, <1>1 DEF Rounds
    <2>2. QED
      BY <1>1, <1>l, <2>1 DEF Carries, Carrier
  <1>p. \A q \in Job : ~Passed(q) /\ ~Passed(q)'
    BY <1>1, <1>2, <1>c DEF Passed
  <1>m. (Late' <=> Late) /\ (Last' <=> Last)
    BY <1>1, <1>c, <1>l DEF Late, Last
  <1>3. Members'
    <2>1. \A q \in Job \ {Gc} : Masked(q)' <=> Masked(q)
      BY <1>l, <1>m DEF Masked
    <2>2. \A q \in Job : pc'[q] # "skip"
      BY <1>c DEF Carries
    <2>3. QED
      BY <1>i, <1>1, <1>2, <1>l, <1>m, <2>1, <2>2 DEF Members, GcLabel
  <1>4. Claims'
    <2>1. \A q \in Job : pc'[q] = "spawn" => pc[q] = "spawn"
      BY <1>l
    <2>2. ASSUME NEW q \in Job, pc[q] = "spawn" PROVE pc'[child[q]] \in {"none", "done"}
      <3>1. pc[child[q]] \in {"none", "done"} /\ child[q] \in Job
        BY <1>i, <1>w, <2>2 DEF Claims
      <3>2. QED
        BY <1>1, <1>l, <3>1
    <2>3. QED
      BY <1>i, <1>1, <1>2, <2>1, <2>2 DEF Claims
  <1>5. Calls'
    BY <1>i, <1>1, <1>c, <1>l DEF Calls
  <1>6. Rounds'
    BY <1>i, <1>1, <1>2, <1>c, <1>l DEF Rounds
  <1>7. Reports'
    BY <1>i, <1>1, <1>2, <1>p DEF Reports, TypeOK
  <1>8. (odd \/ Leavers)'
    <2> SUFFICES ASSUME ~odd, Leavers PROVE Leavers'
      BY <1>i, <1>1
    <2>1. \A q \in Job : Leaving(q)' <=> Leaving(q)
      BY <1>1, <1>c, <1>l DEF Leaving, Dying
    <2>2. AllLeaving' <=> AllLeaving
      BY <1>2, <1>w, <2>1 DEF AllLeaving
    <2>3. \A q \in Job \ {Gc} : MayLeave(q) => MayLeave(q)'
      BY <1>1, <1>2, <1>l, <1>p, <2>2 DEF MayLeave, MayLeaveAt, Turn
    <2>4. \A q \in Job \ {Gc} : MayDrain(q) => MayDrain(q)'
      BY <1>1, <1>2, <1>l DEF MayDrain, MayDrainAt, Turn
    <2>5. QED
      BY <1>2, <1>c, <1>l, <1>p, <1>w, <2>1, <2>3, <2>4 DEF Leavers
  <1>9. QED
    BY <1>3, <1>4, <1>5, <1>6, <1>7, <1>8 DEF IInv, Safe

(* The round is over.                                                      *)
LEMMA GcClearKeeps ==
  ASSUME IInv, TypeOK', GcClear
  PROVE  IInv'
  <1>i. TypeOK /\ Members /\ Claims /\ Calls /\ Rounds /\ Reports /\ (odd \/ Leavers)
    BY Parts
  <1>w. /\ sig.mask \in SUBSET Job
        /\ sig = [mask |-> sig.mask, schedule |-> sig.schedule, signal |-> sig.signal]
    BY <1>i, WordFacts
  <1>1. /\ pc[Gc] = "clear" /\ sig.schedule = Gc /\ Goto(Gc, "loop")
        /\ sig' = [sig EXCEPT !.schedule = NoSignal, !.signal = "IGN"]
        /\ child' = child /\ owing' = owing /\ odd' = odd
        /\ goal' = goal /\ after' = after /\ target' = target /\ then' = then
    BY DEF GcClear, call
  <1>2. sig'.mask = sig.mask /\ sig'.schedule = NoSignal /\ sig'.signal = "IGN"
    BY <1>w, <1>1
  <1>l. pc'[Gc] = "loop" /\ \A q \in Job \ {Gc} : pc'[q] = pc[q]
    BY <1>i, <1>1 DEF TypeOK, Goto
  <1>c. \A q \in Job : ~Carries(q) /\ ~Carrier(q) /\ ~Carries(q)' /\ ~Carrier(q)'
    <2>1. ASSUME NEW q \in Job PROVE ~Carrier(q)
      <3>1. pc[q] \notin {"lock", "ack"}
        BY <1>i, <1>1 DEF Rounds
      <3>2. ~Carries(q)
        <4>1. Carries(q) => q = Gc
          BY <1>i, <1>1 DEF Rounds
        <4>2. QED
          BY <1>1, <4>1 DEF Carries
      <3>3. QED
        BY <3>1, <3>2 DEF Carrier, Carries
    <2>2. QED
      BY <1>l, <2>1 DEF Carries, Carrier
  <1>p. \A q \in Job : Passed(q) /\ ~Passed(q)'
    BY <1>1, <1>2, <1>c DEF Passed
  <1>m. (Late' <=> Late) /\ (Last' <=> Last)
    BY <1>1, <1>c, <1>l DEF Late, Last
  <1>3. Members'
    <2>1. \A q \in Job \ {Gc} : Masked(q)' <=> Masked(q)
      BY <1>l, <1>m DEF Masked
    <2>2. \A q \in Job : pc'[q] # "skip"
      BY <1>c DEF Carries
    <2>3. QED
      BY <1>i, <1>1, <1>2, <1>l, <1>m, <2>1, <2>2 DEF Members, GcLabel
  <1>4. Claims'
    <2>1. \A q \in Job : pc'[q] = "spawn" => pc[q] = "spawn"
      BY <1>l
    <2>2. ASSUME NEW q \in Job, pc[q] = "spawn" PROVE pc'[child[q]] \in {"none", "done"}
      <3>1. pc[child[q]] \in {"none", "done"} /\ child[q] \in Job
        BY <1>i, <1>w, <2>2 DEF Claims
      <3>2. QED
        BY <1>1, <1>l, <3>1
    <2>3. QED
      BY <1>i, <1>1, <1>2, <2>1, <2>2 DEF Claims
  <1>5. Calls'
    BY <1>i, <1>1, <1>c, <1>l DEF Calls
  <1>6. Rounds'
    BY <1>2, <1>c, <1>l DEF Rounds, Carrier
  <1>7. Reports'
    BY <1>i, <1>1, <1>p DEF Reports, TypeOK
  <1>8. (odd \/ Leavers)'
    <2> SUFFICES ASSUME ~odd, Leavers PROVE Leavers'
      BY <1>i, <1>1
    <2>1. \A q \in Job : Leaving(q)' <=> Leaving(q)
      BY <1>1, <1>c, <1>l DEF Leaving, Dying
    <2>2. sig.signal # "IGN"
      BY <1>i, <1>1 DEF Rounds
    <2>3. ASSUME NEW q \in Job \ {Gc}, Leaving(q) PROVE MayLeave(q)'
      <3>1. sig.signal = "TERM"
        BY <1>1, <2>2, <2>3 DEF Leavers, MayLeave, MayLeaveAt, Turn
      <3>2. AllLeaving
        BY <1>p, <1>w, <3>1 DEF Leavers, AllLeaving
      <3>3. AllLeaving'
        BY <1>2, <1>w, <2>1, <3>2 DEF AllLeaving
      <3>4. QED
        BY <1>2, <3>3 DEF MayLeave, MayLeaveAt
    <2>4. \A q \in Job \ {Gc} : pc'[q] \notin {"bail", "await", "await_yield", "drain"}
      BY <1>1, <1>l DEF Leavers, MayDrain, MayDrainAt, Turn
    <2>5. QED
      BY <1>2, <1>c, <2>1, <2>3, <2>4 DEF Leavers
  <1>9. QED
    BY <1>3, <1>4, <1>5, <1>6, <1>7, <1>8 DEF IInv, Safe

-----------------------------------------------------------------------------
(* gab_signal: raise, wake, wait for the answer.                           *)

(* A thread raises a signal: nobody else has one in hand.                  *)
LEMMA RaiseKeeps ==
  ASSUME IInv, TypeOK', NEW p \in Job \ {Gc}, SignalRaise(p)
  PROVE  IInv'
  <1>i. TypeOK /\ Members /\ Claims /\ Calls /\ Rounds /\ Reports /\ (odd \/ Leavers)
    BY Parts
  <1>w. /\ sig.mask \in SUBSET Job
        /\ sig = [mask |-> sig.mask, schedule |-> sig.schedule, signal |-> sig.signal]
    BY <1>i, WordFacts
  <1>1. /\ pc[p] = "signal" /\ sig.schedule = NoSignal /\ sig.signal = "IGN"
        /\ sig' = [sig EXCEPT !.schedule = Calling, !.signal = goal[p]]
        /\ owing' = IF goal[p] = "COLL" THEN sig.mask \ {Gc} ELSE {}
        /\ pc' = [pc EXCEPT ![p] = "lock"]
        /\ child' = child /\ odd' = odd
        /\ goal' = goal /\ after' = after /\ target' = target /\ then' = then
    BY DEF SignalRaise, Goto, call
  <1>2. sig'.mask = sig.mask /\ sig'.schedule = Calling /\ sig'.signal = goal[p] /\ goal[p] # "IGN"
    BY <1>i, <1>w, <1>1 DEF Calls
  <1>l. pc'[p] = "lock" /\ \A q \in Job \ {p} : pc'[q] = pc[q]
    BY <1>i, <1>1 DEF TypeOK
  <1>n. \A q \in Job : ~Carrier(q) /\ ~Carries(q)
    BY <1>i, <1>1 DEF Rounds, Carrier, Carries
  <1>c. Carrier(p)' /\ ~Carries(p)' /\ \A q \in Job \ {p} : ~Carrier(q)' /\ ~Carries(q)'
    BY <1>l, <1>n DEF Carrier, Carries
  <1>m. (Late' <=> Late) /\ (Last' <=> Last)
    BY <1>1, <1>c, <1>l, <1>n DEF Late, Last
  <1>d. odd \/ \A q \in Job \ {Gc} : ~Leaving(q)
    <2> SUFFICES ASSUME ~odd, NEW q \in Job \ {Gc}, Leaving(q) PROVE FALSE
      OBVIOUS
    <2>1. pc[q] \in Dying
      BY <1>n DEF Leaving
    <2>2. AllLeaving
      BY <1>i, <1>1, <2>1 DEF Leavers, MayLeave, MayLeaveAt, Leaving, Turn
    <2>3. ~Leaving(p)
      BY <1>1, <1>n DEF Leaving, Dying
    <2>4. p \notin sig.mask
      BY <2>2, <2>3 DEF AllLeaving
    <2>5. p = Main /\ Late
      BY <1>i, <1>1, <2>4 DEF Members, Masked
    <2>6. sig.mask \subseteq {Gc} /\ q # Main
      BY <1>i, <1>1, <2>1, <2>5 DEF Members, Dying
    <2>7. Masked(q)
      BY <2>1, <2>6 DEF Masked, Dying
    <2>8. QED
      BY <1>i, <2>6, <2>7 DEF Members
  <1>3. Members'
    <2>1. \A q \in Job \ {Gc} : Masked(q)' => Masked(q)
      BY <1>1, <1>l, <1>m DEF Masked
    <2>2. \A q \in Job : pc'[q] # "skip"
      BY <1>c DEF Carries
    <2>3. pc'[Main] # "gc_unalive"
      <3>1. CASE p = Main
        BY <1>l, <3>1
      <3>2. CASE p # Main
        <4>1. p \in sig.mask
          BY <1>i, <1>1, <3>2 DEF Members, Masked
        <4>2. ~Late
          BY <1>i, <4>1 DEF Members
        <4>3. QED
          BY <1>l, <3>2, <4>2 DEF Late
      <3>3. QED
        BY <3>1, <3>2
    <2>4. ~(pc'[Main] = "signal" /\ after'[Main] = "join")
      <3>1. CASE p = Main
        BY <1>l, <3>1
      <3>2. CASE p # Main
        <4>1. p \in sig.mask
          BY <1>i, <1>1, <3>2 DEF Members, Masked
        <4>2. ~Last
          BY <1>i, <4>1 DEF Members
        <4>3. QED
          BY <1>1, <1>l, <3>2, <4>2 DEF Last
      <3>3. QED
        BY <3>1, <3>2
    <2>5. pc'[Gc] = pc[Gc]
      BY <1>l
    <2>6. QED
      BY <1>i, <1>2, <1>m, <2>1, <2>2, <2>3, <2>4, <2>5 DEF Members
  <1>4. Claims'
    <2>1. \A q \in Job : pc'[q] = "spawn" => pc[q] = "spawn"
      BY <1>l
    <2>2. ASSUME NEW q \in Job, pc[q] = "spawn" PROVE pc'[child[q]] \in {"none", "done"}
      <3>1. pc[child[q]] \in {"none", "done"} /\ child[q] \in Job
        BY <1>i, <1>w, <2>2 DEF Claims
      <3>2. QED
        BY <1>1, <1>l, <3>1
    <2>3. QED
      BY <1>i, <1>1, <1>2, <2>1, <2>2 DEF Claims
  <1>5. Calls'
    <2>1. \A q \in Job : pc'[q] \in {"signal", "lock", "ack"} => pc[q] \in {"signal", "lock", "ack"}
      BY <1>1, <1>l
    <2>2. QED
      BY <1>i, <1>1, <1>c, <2>1 DEF Calls
  <1>6. Rounds'
    <2>1. pc'[Gc] = pc[Gc] /\ pc[Gc] \notin {"collect", "clear"}
      BY <1>i, <1>1, <1>l DEF Rounds
    <2>2. \A q \in Job : pc'[q] \in {"lock", "ack"} => q = p
      BY <1>l, <1>n DEF Carrier
    <2>3. QED
      BY <1>1, <1>2, <1>c, <2>1, <2>2 DEF Rounds
  <1>p. \A q \in Job : ~Passed(q)'
    BY <1>2, <1>c DEF Passed
  <1>7. Reports'
    BY <1>1, <1>2, <1>p, <1>w DEF Reports
  <1>8. (odd \/ Leavers)'
    <2> SUFFICES ASSUME ~odd, Leavers PROVE Leavers'
      BY <1>i, <1>1
    <2>1. \A q \in Job \ {Gc} : ~Leaving(q)'
      BY <1>c, <1>d, <1>l DEF Leaving, Dying
    <2>2. \A q \in Job \ {Gc} : pc'[q] \notin {"bail", "await", "await_yield", "drain"}
      BY <1>1, <1>l DEF Leavers, MayDrain, MayDrainAt, Turn
    <2>3. QED
      BY <1>2, <1>c, <1>p, <1>w, <2>1, <2>2 DEF Leavers
  <1>9. QED
    BY <1>3, <1>4, <1>5, <1>6, <1>7, <1>8 DEF IInv, Safe

(* The one that raised it wakes the collector, or waits for the answer and *)
(* begins with main.                                                       *)
Begins(p) ==
  /\ sig' = sig /\ child' = child /\ owing' = owing /\ odd' = odd
  /\ goal' = goal /\ after' = after
  /\ \/ /\ pc[p] = "lock" /\ pc'[p] = "ack"
        /\ pc'[Gc] = pc[Gc] \/ (pc[Gc] = "wait" /\ pc'[Gc] = "wake")
        /\ target' = target /\ then' = then
     \/ /\ pc[p] = "ack" /\ sig.schedule = NoSignal /\ pc'[p] = "next"
        /\ pc'[Gc] = pc[Gc]
        /\ target'[p] = Main /\ \A q \in Job \ {p} : target'[q] = target[q]
        /\ then'[p] = after[p] /\ \A q \in Job \ {p} : then'[q] = then[q]
  /\ \A q \in Job \ {p, Gc} : pc'[q] = pc[q]

(* Beginning to run keeps the invariant.                                   *)
LEMMA BeginsKeeps ==
  ASSUME IInv, TypeOK', NEW p \in Job \ {Gc}, Begins(p)
  PROVE  IInv'
  <1>i. TypeOK /\ Members /\ Claims /\ Calls /\ Rounds /\ Reports /\ (odd \/ Leavers)
    BY Parts
  <1>w. sig.mask \in SUBSET Job
    BY <1>i, WordFacts
  <1>s. /\ sig' = sig /\ child' = child /\ owing' = owing /\ odd' = odd
        /\ goal' = goal /\ after' = after
        /\ \A q \in Job \ {p} : target'[q] = target[q] /\ then'[q] = then[q]
        /\ \A q \in Job \ {p, Gc} : pc'[q] = pc[q]
    BY DEF Begins
  <1>a. pc[p] \in {"lock", "ack"} /\ sig.schedule \in {Calling, NoSignal} /\ sig.signal = goal[p]
    BY <1>i DEF Begins, Rounds
  <1>b. \/ pc[p] = "lock" /\ pc'[p] = "ack"
        \/ /\ pc[p] = "ack" /\ pc'[p] = "next" /\ sig.schedule = NoSignal
           /\ target'[p] = Main /\ then'[p] = after[p]
    BY DEF Begins
  <1>g. /\ pc[Gc] \in GcLabel /\ pc'[Gc] \in GcLabel
        /\ pc'[Gc] \in {"collect", "clear"} => pc'[Gc] = pc[Gc]
    BY <1>i DEF Members, Begins, GcLabel
  <1>k. \A k \in GcLabel : k \notin {"none", "done", "next", "skip", "signal", "lock", "ack", "spawn",
                                    "bail", "await", "await_yield", "drain"} \cup Dying
    BY DEF GcLabel, Dying
  <1>c. /\ Carrier(p) /\ Carrier(p)'
        /\ \A q \in Job \ {p} : ~Carrier(q) /\ ~Carrier(q)' /\ ~Carries(q) /\ ~Carries(q)'
    <2>1. Carrier(p) /\ Carrier(p)'
      BY <1>b DEF Carrier
    <2>2. \A q \in Job \ {p} : ~Carrier(q)
      BY <1>i, <2>1 DEF Rounds
    <2>3. \A q \in Job \ {p} : ~Carrier(q)'
      BY <1>g, <1>k, <1>s, <2>2 DEF Carrier
    <2>4. QED
      BY <2>1, <2>2, <2>3 DEF Carrier, Carries
  <1>d. ~Carries(p) /\ (Carries(p)' <=> pc'[p] = "next")
    BY <1>b DEF Carries
  <1>e. pc'[p] = "next" => target'[p] = Main /\ then'[p] = after[p] /\ sig.schedule = NoSignal
    BY <1>b
  <1>p. \A q \in Job \ {Gc} : ~Passed(q) /\ ~Passed(q)'
    BY <1>a, <1>s DEF Passed
  <1>m. (Late' <=> Late) /\ (Last' <=> Last)
    <2>1. CASE p = Main
      <3>1. (Last <=> after[Main] = "join") /\ (Last' <=> after[Main] = "join")
        BY <1>b, <1>d, <1>s, <2>1 DEF Last
      <3>2. (Late <=> after[Main] \in {"sync", "join"}) /\ (Late' <=> after[Main] \in {"sync", "join"})
        BY <1>b, <1>d, <1>s, <2>1, <3>1 DEF Late
      <3>3. QED
        BY <3>1, <3>2
    <2>2. CASE p # Main
      <3>1. pc'[Main] = pc[Main] /\ ~Carries(Main) /\ ~Carries(Main)'
        BY <1>c, <1>s, <2>2
      <3>2. QED
        BY <1>s, <3>1 DEF Late, Last
    <2>3. QED
      BY <2>1, <2>2
  <1>3. Members'
    <2>1. \A q \in Job \ {Gc} : Masked(q)' => Masked(q)
      BY <1>b, <1>m, <1>s DEF Masked
    <2>2. \A q \in Job : pc'[q] # "skip"
      BY <1>b, <1>c DEF Carries
    <2>3. ~(pc'[Main] = "gc_unalive" \/ (pc'[Main] = "signal" /\ after'[Main] = "join"))
      <3>1. sig.signal # "IGN"
        BY <1>i, <1>c DEF Rounds
      <3>2. CASE p = Main
        BY <1>b, <3>2
      <3>3. CASE p # Main
        BY <1>i, <1>s, <3>1, <3>3 DEF Members
      <3>4. QED
        BY <3>2, <3>3
    <2>4. QED
      BY <1>i, <1>g, <1>m, <1>s, <2>1, <2>2, <2>3 DEF Members
  <1>4. Claims'
    <2>1. \A q \in Job : pc'[q] = "spawn" => pc[q] = "spawn"
      BY <1>b, <1>g, <1>k, <1>s
    <2>2. ASSUME NEW q \in Job, pc[q] = "spawn" PROVE pc'[child[q]] \in {"none", "done"}
      <3>1. pc[child[q]] \in {"none", "done"} /\ child[q] \in Job
        BY <1>i, <1>w, <2>2 DEF Claims
      <3>2. child[q] # p /\ child[q] # Gc
        BY <1>a, <1>g, <1>k, <3>1
      <3>3. QED
        BY <1>s, <3>1, <3>2
    <2>3. QED
      BY <1>i, <1>s, <2>1, <2>2 DEF Claims
  <1>5. Calls'
    <2>1. \A q \in Job : pc'[q] \in {"signal", "lock", "ack"} => pc[q] \in {"signal", "lock", "ack"}
      BY <1>b, <1>g, <1>k, <1>s
    <2>2. after[p] \in {"run", "look", "bail", "sync", "join"}
      BY <1>i DEF TypeOK
    <2>3. /\ after[p] \in {"bail", "sync", "join"} => p = Main
          /\ after[p] = "bail" => sig.signal = "TERM"
      BY <1>i, <1>a DEF Calls
    <2>4. ASSUME NEW q \in Job,
                 pc'[q] \in {"signal", "lock", "ack"} \/ (Carries(q)' /\ then'[q] = "signal")
          PROVE  pc[q] \in {"signal", "lock", "ack"} /\ ~Carries(q)'
      BY <1>c, <1>d, <1>e, <2>1, <2>2, <2>4
    <2>5. ASSUME NEW q \in Job, Carries(q)' PROVE q = p /\ target'[q] = Main /\ then'[q] = after[p]
      BY <1>c, <1>d, <1>e, <2>5
    <2>6. QED
      BY <1>i, <1>s, <2>3, <2>4, <2>5 DEF Calls
  <1>6. Rounds'
    <2>1. \A q \in Job : Carries(q)' => target'[q] = Main /\ sig.schedule = NoSignal
      BY <1>c, <1>d, <1>e
    <2>2. \A q \in Job : pc'[q] \in {"lock", "ack"} => q = p
      BY <1>c DEF Carrier
    <2>3. sig.signal # "IGN"
      BY <1>i, <1>c DEF Rounds
    <2>4. QED
      BY <1>i, <1>a, <1>c, <1>g, <1>s, <2>1, <2>2, <2>3 DEF Rounds
  <1>7. Reports'
    BY <1>i, <1>p, <1>s, <1>w DEF Reports
  <1>8. (odd \/ Leavers)'
    <2> SUFFICES ASSUME ~odd, Leavers PROVE Leavers'
      BY <1>i, <1>s
    <2>1. after[p] \notin {"unload", "await"}
      BY <1>i DEF TypeOK
    <2>2. \A q \in Job \ {Gc} : Leaving(q)' <=> Leaving(q)
      BY <1>b, <1>c, <1>d, <1>s, <2>1 DEF Leaving, Dying
    <2>3. AllLeaving' <=> AllLeaving
      BY <1>s, <1>w, <2>2 DEF AllLeaving
    <2>4. ASSUME NEW q \in Job \ {Gc}, Leaving(q)' PROVE MayLeave(q)'
      <3>1. Leaving(q) /\ MayLeave(q)
        BY <2>2, <2>4 DEF Leavers
      <3>2. sig.schedule # q
        BY <1>a
      <3>3. QED
        BY <1>p, <1>s, <2>3, <3>1, <3>2 DEF MayLeave, MayLeaveAt, Turn
    <2>5. ASSUME NEW q \in Job \ {Gc}, pc'[q] \in {"bail", "await", "await_yield", "drain"}
          PROVE  MayDrain(q)'
      <3>1. q # p /\ pc'[q] = pc[q]
        BY <1>b, <1>s, <2>5
      <3>2. QED
        BY <1>s, <2>5, <3>1 DEF Leavers, MayDrain, MayDrainAt, Turn
    <2>6. \A q \in Job : Carries(q)' => then'[q] # "await"
      BY <1>c, <1>d, <1>e, <2>1
    <2>7. sig.mask \subseteq Job /\ (sig.schedule >= 0 => sig.schedule \in sig.mask)
      BY <1>w DEF Leavers
    <2>8. QED
      BY <1>p, <1>s, <2>4, <2>5, <2>6, <2>7 DEF Leavers
  <1>9. QED
    BY <1>3, <1>4, <1>5, <1>6, <1>7, <1>8 DEF IInv, Safe

(* Lock, signal the condition, unlock; and the acknowledgement.            *)
LEMMA WakeAckKeeps ==
  ASSUME IInv, TypeOK', NEW p \in Job \ {Gc}, SignalWake(p) \/ SignalAck(p)
  PROVE  IInv'
  <1>1. TypeOK
    BY Parts
  <1>2. CASE SignalWake(p)
    <2>1. /\ pc[p] = "lock"
          /\ pc' = [pc EXCEPT ![p] = "ack", ![Gc] = IF @ = "wait" THEN "wake" ELSE @]
          /\ UNCHANGED <<sig, child, owing, odd>>
          /\ goal' = goal /\ after' = after /\ target' = target /\ then' = then
      BY <1>2 DEF SignalWake, call
    <2>2. /\ pc'[p] = "ack" /\ \A q \in Job \ {p, Gc} : pc'[q] = pc[q]
          /\ pc'[Gc] = pc[Gc] \/ (pc[Gc] = "wait" /\ pc'[Gc] = "wake")
      BY <1>1, <2>1 DEF TypeOK
    <2>3. Begins(p)
      BY <2>1, <2>2 DEF Begins
    <2>4. QED
      BY <2>3, BeginsKeeps
  <1>3. CASE SignalAck(p)
    <2>1. /\ pc[p] = "ack" /\ sig.schedule = NoSignal /\ pc' = [pc EXCEPT ![p] = "next"]
          /\ target' = [target EXCEPT ![p] = Main] /\ then' = [then EXCEPT ![p] = after[p]]
          /\ UNCHANGED <<sig, child, owing, odd, goal, after>>
      BY <1>3 DEF SignalAck, CallNext, Goto
    <2>2. /\ pc'[p] = "next" /\ \A q \in Job \ {p, Gc} : pc'[q] = pc[q]
          /\ pc'[Gc] = pc[Gc]
          /\ target'[p] = Main /\ \A q \in Job \ {p} : target'[q] = target[q]
          /\ then'[p] = after[p] /\ \A q \in Job \ {p} : then'[q] = then[q]
      BY <1>1, <2>1 DEF TypeOK
    <2>3. Begins(p)
      BY <2>1, <2>2 DEF Begins
    <2>4. QED
      BY <2>3, BeginsKeeps
  <1>4. QED
    BY <1>2, <1>3

-----------------------------------------------------------------------------
(* gab_signext: the turn goes to the next job that is alive.               *)

(* n is the job that follows the target of p.                              *)
Follows(p, n) ==
  \/ n = Gc /\ Gc \in sig.mask /\ \A j \in sig.mask : j < target[p]
  \/ n \in sig.mask /\ target[p] <= n /\ \A j \in sig.mask : target[p] <= j => n <= j

(* p hands the turn to n and returns.                                      *)
Turns(p, n) ==
  /\ Carries(p)
  /\ sig.mask # {}
  /\ Follows(p, n)
  /\ sig' = [sig EXCEPT !.schedule = n]
  /\ pc' = [pc EXCEPT ![p] = then[p]]
  /\ UNCHANGED <<call, child, owing, odd>>

(* Handing over the turn keeps the invariant.                              *)
LEMMA TurnKeeps ==
  ASSUME IInv, TypeOK', NEW p \in Job \ {Gc}, NEW n \in Job, Turns(p, n)
  PROVE  IInv'
  <1>i. TypeOK /\ Members /\ Claims /\ Calls /\ Rounds /\ Reports /\ (odd \/ Leavers)
    BY Parts
  <1>w. /\ sig.mask \in SUBSET Job /\ sig.schedule \in (-2)..(Len - 1)
        /\ sig = [mask |-> sig.mask, schedule |-> sig.schedule, signal |-> sig.signal]
    BY <1>i, WordFacts
  <1>1. /\ Carries(p) /\ sig.mask # {} /\ Follows(p, n)
        /\ sig' = [sig EXCEPT !.schedule = n]
        /\ child' = child /\ owing' = owing /\ odd' = odd
        /\ goal' = goal /\ after' = after /\ target' = target /\ then' = then
    BY DEF Turns, call
  <1>2. sig'.mask = sig.mask /\ sig'.schedule = n /\ sig'.signal = sig.signal
    BY <1>w, <1>1
  <1>t. PICK l \in {"run", "look", "signal", "await", "unload", "bail", "sync", "join"} : l = then[p]
    BY <1>i DEF TypeOK
  <1>l. pc'[p] = l /\ \A q \in Job \ {p} : pc'[q] = pc[q]
    BY <1>i, <1>t DEF TypeOK, Turns
  <1>3. Carrier(p) /\ pc[p] \in {"next", "skip"}
    BY <1>1 DEF Carrier, Carries
  <1>c. /\ \A q \in Job \ {p} : ~Carrier(q) /\ ~Carries(q)
        /\ \A q \in Job : ~Carrier(q)' /\ ~Carries(q)' /\ pc'[q] \notin {"lock", "ack", "skip"}
    <2>1. \A q \in Job \ {p} : ~Carrier(q)
      BY <1>i, <1>3 DEF Rounds
    <2>2. QED
      BY <1>l, <2>1 DEF Carrier, Carries
  <1>g. sig.signal # "IGN"
    BY <1>i, <1>3 DEF Rounds
  <1>r. /\ target[p] \in Nat
        /\ \/ target[p] = Main /\ sig.schedule = NoSignal
           \/ target[p] = p + 1 /\ sig.schedule = p
    <2>1. target[p] \in 0..Len
      BY <1>i DEF TypeOK
    <2>2. QED
      BY <1>i, <1>1, <2>1 DEF Rounds
  <1>n. n \in sig.mask /\ (n = Gc \/ target[p] <= n)
    BY <1>1 DEF Follows
  <1>e. \A q \in sig.mask \ {Gc} : Passed(q)' => Passed(q)
    <2> SUFFICES ASSUME NEW q \in sig.mask \ {Gc}, Passed(q)' PROVE Passed(q)
      OBVIOUS
    <2>1. q \in Job /\ (n = Gc \/ q < n)
      BY <1>2, <1>c, <1>w DEF Passed
    <2>2. q < target[p]
      BY <1>1, <1>r, <2>1 DEF Follows
    <2>3. QED
      BY <1>1, <1>r, <2>1, <2>2 DEF Passed
  <1>f. \A q \in Job \ {Gc} : Passed(q) => Passed(q)'
    <2> SUFFICES ASSUME NEW q \in Job \ {Gc}, Passed(q) PROVE Passed(q)'
      OBVIOUS
    <2>1. sig.schedule = p /\ target[p] = p + 1 /\ q <= p
      BY <1>r DEF Passed
    <2>2. n = Gc \/ q < n
      BY <1>n, <2>1
    <2>3. QED
      BY <1>2, <2>2 DEF Passed
  <1>v. \A q \in Job \ {p} : sig.schedule # q \/ q = Gc
    BY <1>r
  <1>z. sig.schedule # Gc
    BY <1>r
  <1>m. ~Last /\ (Late' <=> Late) /\ ~Last'
    <2>1. ~Last
      BY <1>i, <1>1 DEF Members
    <2>2. CASE p = Main
      <3>1. l # "join" /\ (Late <=> l = "sync")
        BY <1>1, <1>3, <1>t, <2>1, <2>2 DEF Last, Late
      <3>2. l = "signal" => after[Main] \notin {"sync", "join"}
        BY <1>i, <1>1, <1>t, <2>2 DEF Calls
      <3>3. ~Last'
        BY <1>1, <1>c, <1>l, <2>2, <3>1, <3>2 DEF Last
      <3>4. Late' <=> l = "sync"
        BY <1>1, <1>c, <1>l, <2>2, <3>1, <3>2, <3>3 DEF Late
      <3>5. QED
        BY <2>1, <3>1, <3>3, <3>4
    <2>3. CASE p # Main
      <3>1. pc'[Main] = pc[Main] /\ ~Carries(Main) /\ ~Carries(Main)'
        BY <1>c, <1>l, <2>3
      <3>2. QED
        BY <1>1, <2>1, <3>1 DEF Late, Last
    <2>4. QED
      BY <2>2, <2>3
  <1>4. Members'
    <2>1. \A q \in Job \ {Gc} : Masked(q)' => Masked(q)
      BY <1>3, <1>l, <1>m DEF Masked
    <2>2. ~(pc'[Main] = "gc_unalive" \/ (pc'[Main] = "signal" /\ after'[Main] = "join"))
      <3>1. ~(pc'[Main] = "signal" /\ after'[Main] = "join")
        BY <1>m DEF Last
      <3>2. CASE p = Main
        BY <1>l, <3>1, <3>2
      <3>3. CASE p # Main
        BY <1>i, <1>g, <1>l, <3>1, <3>3 DEF Members
      <3>4. QED
        BY <3>2, <3>3
    <2>3. pc'[Gc] = pc[Gc]
      BY <1>l
    <2>4. QED
      BY <1>i, <1>1, <1>2, <1>c, <1>m, <2>1, <2>2, <2>3 DEF Members
  <1>5. Claims'
    <2>1. \A q \in Job : pc'[q] = "spawn" => pc[q] = "spawn"
      BY <1>l
    <2>2. ASSUME NEW q \in Job, pc[q] = "spawn" PROVE pc'[child[q]] \in {"none", "done"}
      <3>1. pc[child[q]] \in {"none", "done"} /\ child[q] \in Job
        BY <1>i, <1>w, <2>2 DEF Claims
      <3>2. QED
        BY <1>3, <1>l, <3>1
    <2>3. QED
      BY <1>i, <1>1, <1>2, <2>1, <2>2 DEF Claims
  <1>6. Calls'
    <2>1. ASSUME NEW q \in Job,
                 pc'[q] \in {"signal", "lock", "ack"} \/ (Carries(q)' /\ then'[q] = "signal")
          PROVE  pc[q] \in {"signal", "lock", "ack"} \/ (Carries(q) /\ then[q] = "signal")
      BY <1>1, <1>c, <1>l, <1>t, <2>1
    <2>2. QED
      BY <1>i, <1>1, <1>c, <2>1 DEF Calls
  <1>7. Rounds'
    <2>1. pc'[Gc] = pc[Gc] /\ pc[Gc] \notin {"collect", "clear"}
      BY <1>i, <1>l, <1>z DEF Rounds
    <2>2. QED
      BY <1>2, <1>c, <1>g, <2>1 DEF Rounds
  <1>8. Reports'
    BY <1>i, <1>1, <1>2, <1>e, <1>w DEF Reports
  <1>9. (odd \/ Leavers)'
    <2> SUFFICES ASSUME ~odd, Leavers PROVE Leavers'
      BY <1>i, <1>1
    <2>1. \A q \in Job : Leaving(q)' <=> Leaving(q)
      BY <1>1, <1>3, <1>c, <1>l, <1>t DEF Leaving, Dying
    <2>2. sig.signal = "TERM" => \A q \in sig.mask \ {Gc} : Passed(q)' => Leaving(q)'
      BY <1>e, <1>w, <2>1 DEF Leavers
    <2>3. ASSUME NEW q \in Job \ {Gc}, Leaving(q)' PROVE MayLeave(q)'
      <3>1. MayLeave(q)
        BY <2>1, <2>3 DEF Leavers
      <3>2. ~(pc[q] = "unalive" /\ Turn(q, "TERM"))
        BY <1>3, <1>v DEF Turn
      <3>3. sig.signal = "TERM" /\ Passed(q)
        BY <1>g, <3>1, <3>2 DEF MayLeave, MayLeaveAt
      <3>4. QED
        BY <1>2, <1>f, <3>3 DEF MayLeave, MayLeaveAt
    <2>4. ASSUME target[p] = Main, Main \in sig.mask PROVE n = Main
      BY <1>1, <1>w, <2>4 DEF Follows
    <2>5. ASSUME NEW q \in Job \ {Gc}, pc'[q] \in {"bail", "await", "await_yield", "drain"}
          PROVE  MayDrain(q)'
      <3>1. CASE q = p
        <4>1. l = "bail"
          BY <1>1, <1>l, <1>t, <2>5, <3>1 DEF Leavers
        <4>2. p = Main /\ target[p] = Main /\ sig.signal = "TERM"
          BY <1>i, <1>1, <1>t, <4>1 DEF Calls
        <4>3. ~Late
          BY <1>3, <1>m, <1>t, <4>1, <4>2 DEF Late
        <4>4. Main \in sig.mask
          BY <1>i, <1>3, <4>2, <4>3 DEF Members, Masked
        <4>5. QED
          BY <1>2, <2>4, <3>1, <4>2, <4>4 DEF MayDrain, MayDrainAt, Turn
      <3>2. CASE q # p
        <4>1. pc[q] \in {"bail", "await", "await_yield", "drain"} /\ MayDrain(q)
          BY <1>l, <2>5, <3>2 DEF Leavers
        <4>2. q = Main /\ sig.signal = "TERM" /\ sig.schedule \in {Calling, NoSignal}
          BY <1>v, <3>2, <4>1 DEF MayDrain, MayDrainAt, Turn
        <4>3. target[p] = Main
          BY <1>r, <4>2
        <4>4. ~Late
          BY <1>c, <1>m, <3>2, <4>1, <4>2 DEF Late
        <4>5. Main \in sig.mask
          BY <1>i, <4>1, <4>2, <4>4 DEF Members, Masked
        <4>6. QED
          BY <1>2, <2>4, <4>2, <4>3, <4>5 DEF MayDrain, MayDrainAt, Turn
      <3>3. QED
        BY <3>1, <3>2
    <2>6. QED
      BY <1>2, <1>c, <1>n, <2>2, <2>3, <2>5 DEF Leavers
  <1>10. QED
    BY <1>4, <1>5, <1>6, <1>7, <1>8, <1>9 DEF IInv, Safe

(* The collector is in a mask that is not empty.                           *)
LEMMA CollectorAlive == ASSUME IInv, sig.mask # {} PROVE Gc \in sig.mask
  BY Parts DEF Members

(* The target of gab_signext is a natural.                                 *)
LEMMA TargetNat == ASSUME IInv, NEW p \in Job PROVE target[p] \in Nat
  <1>1. target \in [Job -> 0..Len]
    BY Parts DEF TypeOK
  <1>2. target[p] \in 0..Len
    BY <1>1
  <1>3. QED
    BY <1>2

(* gab_signext finds the next job, or nobody after the target.             *)
LEMMA NextTurns ==
  ASSUME IInv, NEW p \in Job \ {Gc}, NextAlive(p) \/ NextWrap(p)
  PROVE  \E n \in Job : Turns(p, n)
  <1>1. sig.mask \in SUBSET Job /\ target[p] \in Nat
    BY Parts, WordFacts, TargetNat
  <1>2. CASE NextAlive(p)
    <2>1. PICK n : n = target[p]
      OBVIOUS
    <2>2. n \in sig.mask /\ n \in Job
      BY <1>1, <1>2, <2>1 DEF NextAlive
    <2>3. Turns(p, n)
      <3>1. Follows(p, n)
        BY <1>1, <2>1, <2>2 DEF Follows
      <3>2. sig.mask # {}
        BY <2>2
      <3>3. QED
        BY <1>2, <2>1, <3>1, <3>2 DEF NextAlive, Turns, Carries, Goto
    <2>4. QED
      BY <2>2, <2>3
  <1>3. CASE NextWrap(p)
    <2>1. Gc \in sig.mask
      BY <1>3, CollectorAlive DEF NextWrap
    <2>2. \A j \in sig.mask : j < target[p]
      BY <1>1, <1>3 DEF NextWrap
    <2>3. Turns(p, 0)
      BY <1>3, <2>1, <2>2 DEF NextWrap, Turns, Carries, Goto, Follows
    <2>4. QED
      BY <2>3
  <1>4. QED
    BY <1>2, <1>3

(* The swap that skips jobs which are not alive.                           *)
LEMMA SwapTurns ==
  ASSUME IInv, NEW p \in Job \ {Gc}, pc[p] = "skip",
         sig' = [sig EXCEPT !.schedule = Following(target[p], sig.mask)],
         Goto(p, then[p]), UNCHANGED <<call, child, owing, odd>>
  PROVE  \E n \in Job : Turns(p, n)
  <1>1. sig.mask \in SUBSET Job /\ target[p] \in Nat
    BY Parts, WordFacts, TargetNat
  <1>2. sig.mask # {}
    BY Parts DEF Members
  <1>3. PICK n : n = Following(target[p], sig.mask)
    OBVIOUS
  <1>4. Follows(p, n) /\ n \in sig.mask
    <2>1. \/ n = Gc /\ \A j \in sig.mask : j < target[p]
          \/ n \in sig.mask /\ target[p] <= n /\ \A j \in sig.mask : target[p] <= j => n <= j
      BY <1>1, <1>3, FollowingFacts
    <2>2. QED
      BY <1>2, <2>1, CollectorAlive DEF Follows
  <1>5. Turns(p, n)
    BY <1>2, <1>3, <1>4 DEF Turns, Carries, Goto
  <1>6. QED
    BY <1>1, <1>4, <1>5

(* Nobody is left to signal: that is main, which destroys the collector.   *)
LEMMA NobodyKeeps ==
  ASSUME IInv, TypeOK', NEW p \in Job \ {Gc}, NextNobody(p)
  PROVE  IInv'
  <1>i. TypeOK /\ Members /\ Claims /\ Calls /\ Rounds /\ Reports /\ (odd \/ Leavers)
    BY Parts
  <1>1. /\ pc[p] = "next" /\ sig.mask = {} /\ pc' = [pc EXCEPT ![p] = then[p]]
        /\ sig' = sig /\ child' = child /\ owing' = owing /\ odd' = odd
        /\ goal' = goal /\ after' = after /\ target' = target /\ then' = then
    BY DEF NextNobody, Goto, call
  <1>2. Last /\ Late
    BY <1>i, <1>1 DEF Members, Late
  <1>3. \A q \in Job \ {Gc, Main} : pc[q] \in {"none", "done"}
    BY <1>i, <1>1 DEF Members, Masked
  <1>4. p = Main /\ then[Main] = "join"
    <2>1. p = Main
      BY <1>1, <1>3
    <2>2. QED
      BY <1>1, <1>2, <2>1 DEF Last
  <1>l. pc'[Main] = "join" /\ \A q \in Job \ {Main} : pc'[q] = pc[q]
    BY <1>i, <1>1, <1>4 DEF TypeOK
  <1>g. /\ pc'[Gc] = pc[Gc] /\ pc[Gc] \in GcLabel
        /\ \A k \in GcLabel : k \notin {"none", "done", "next", "skip", "signal", "lock", "ack", "spawn"} \cup Dying
    BY <1>i, <1>l DEF Members, GcLabel, Dying
  <1>5. \A q \in Job : /\ ~Carrier(q)' /\ ~Carries(q)'
                       /\ pc'[q] \notin {"spawn", "lock", "ack", "signal", "skip"}
    BY <1>3, <1>g, <1>l DEF Carrier, Carries
  <1>6. sig.signal # "IGN" /\ owing = {}
    BY <1>i, <1>1 DEF Rounds, Carrier, Reports, TypeOK
  <1>7. Last' /\ Late'
    BY <1>l DEF Last, Late
  <1>8. Members'
    BY <1>1, <1>3, <1>5, <1>7, <1>g, <1>l DEF Members, Masked
  <1>9. Claims' /\ Calls' /\ Reports'
    BY <1>1, <1>5, <1>6 DEF Claims, Calls, Reports
  <1>10. Rounds'
    BY <1>i, <1>1, <1>5, <1>6, <1>g DEF Rounds
  <1>11. (odd \/ Leavers)'
    <2>1. \A q \in Job \ {Gc} : ~Leaving(q)' /\ pc'[q] \notin {"bail", "await", "await_yield", "drain"}
      BY <1>3, <1>5, <1>l DEF Leaving, Dying
    <2>2. QED
      BY <1>i, <1>1, <1>5, <2>1 DEF Leavers
  <1>12. QED
    BY <1>8, <1>9, <1>10, <1>11 DEF IInv, Safe

(* Jobs that are not alive are counted, or the swap has failed and all is  *)
(* done again.                                                             *)
LEMMA SkipKeeps ==
  ASSUME IInv, TypeOK', NEW p \in Job \ {Gc}, NEW l \in {"next", "skip"},
         Carries(p), Goto(p, l), l = "skip" => sig.mask # {},
         UNCHANGED <<sig, call, child, owing, odd>>
  PROVE  IInv'
  <1>i. TypeOK /\ Members /\ Claims /\ Calls /\ Rounds /\ Reports /\ (odd \/ Leavers)
    BY Parts
  <1>w. sig.mask \in SUBSET Job
    BY <1>i, WordFacts
  <1>s. /\ sig' = sig /\ child' = child /\ owing' = owing /\ odd' = odd
        /\ goal' = goal /\ after' = after /\ target' = target /\ then' = then
    BY DEF call
  <1>l. pc'[p] = l /\ \A q \in Job \ {p} : pc'[q] = pc[q]
    BY <1>i DEF TypeOK, Goto
  <1>a. pc[p] \in {"next", "skip"}
    BY DEF Carries
  <1>c. \A q \in Job : (Carries(q)' <=> Carries(q)) /\ (Carrier(q)' <=> Carrier(q))
    BY <1>a, <1>l DEF Carries, Carrier
  <1>p. \A q \in Job : Passed(q)' <=> Passed(q)
    BY <1>c, <1>s DEF Passed
  <1>o. \A q \in Job : pc'[q] = pc[q] \/ (pc[q] \in {"next", "skip"} /\ pc'[q] \in {"next", "skip"})
    BY <1>a, <1>l
  <1>m. (Late' <=> Late) /\ (Last' <=> Last)
    BY <1>c, <1>o, <1>s DEF Late, Last
  <1>1. Members'
    <2>1. \A q \in Job \ {Gc} : Masked(q)' <=> Masked(q)
      BY <1>m, <1>o DEF Masked
    <2>2. \A q \in Job : pc'[q] = "skip" => sig.mask # {}
      BY <1>i, <1>l DEF Members
    <2>3. pc'[Gc] = pc[Gc]
      BY <1>l
    <2>4. QED
      BY <1>i, <1>m, <1>o, <1>s, <2>1, <2>2, <2>3 DEF Members
  <1>2. Claims'
    <2>1. ASSUME NEW q \in Job, pc[q] = "spawn" PROVE pc'[child[q]] \in {"none", "done"}
      <3>1. pc[child[q]] \in {"none", "done"} /\ child[q] \in Job
        BY <1>i, <1>w, <2>1 DEF Claims
      <3>2. QED
        BY <1>o, <3>1
    <2>2. QED
      BY <1>i, <1>o, <1>s, <2>1 DEF Claims
  <1>3. Calls'
    BY <1>i, <1>c, <1>o, <1>s DEF Calls
  <1>4. Rounds'
    <2>1. pc'[Gc] = pc[Gc]
      BY <1>l
    <2>2. QED
      BY <1>i, <1>c, <1>o, <1>s, <2>1 DEF Rounds
  <1>5. Reports'
    BY <1>i, <1>p, <1>s, <1>w DEF Reports
  <1>6. (odd \/ Leavers)'
    <2> SUFFICES ASSUME ~odd, Leavers PROVE Leavers'
      BY <1>i, <1>s
    <2>1. \A q \in Job : Leaving(q)' <=> Leaving(q)
      BY <1>c, <1>o, <1>s DEF Leaving, Dying
    <2>2. AllLeaving' <=> AllLeaving
      BY <1>s, <1>w, <2>1 DEF AllLeaving
    <2>3. \A q \in Job \ {Gc} : MayLeave(q) => MayLeave(q)'
      BY <1>o, <1>p, <1>s, <2>2 DEF MayLeave, MayLeaveAt, Turn
    <2>4. \A q \in Job \ {Gc} : pc'[q] \in {"bail", "await", "await_yield", "drain"} => MayDrain(q)'
      BY <1>o, <1>s DEF MayDrain, MayDrainAt, Turn, Leavers
    <2>5. QED
      BY <1>c, <1>p, <1>s, <1>w, <2>1, <2>3, <2>4 DEF Leavers
  <1>7. QED
    BY <1>1, <1>2, <1>3, <1>4, <1>5, <1>6 DEF IInv, Safe

-----------------------------------------------------------------------------
(* The members of the mask change.                                         *)

(* A running job claims a free slot above its own.                         *)
LEMMA ClaimKeeps ==
  ASSUME IInv, TypeOK', NEW p \in Job \ {Gc}, SpawnClaim(p)
  PROVE  IInv'
  <1>i. TypeOK /\ Members /\ Claims /\ Calls /\ Rounds /\ Reports /\ (odd \/ Leavers)
    BY Parts
  <1>w. /\ sig.mask \in SUBSET Job /\ sig.schedule \in (-2)..(Len - 1)
        /\ sig = [mask |-> sig.mask, schedule |-> sig.schedule, signal |-> sig.signal]
    BY <1>i, WordFacts
  <1>0. pc[p] = "run"
    BY DEF SpawnClaim
  <1>a. p \in sig.mask
    BY <1>0, IsMember DEF AtWork
  <1>j. PICK j \in Job : /\ j > p /\ j \notin sig.mask
                         /\ sig' = [sig EXCEPT !.mask = @ \cup {j}]
                         /\ child' = [child EXCEPT ![p] = j]
    <2> DEFINE free == {j \in Job : j >= p} \ sig.mask
    <2>1. PICK n : n = Least(free)
      OBVIOUS
    <2>2. free \in SUBSET Nat
      OBVIOUS
    <2>3. n \in free
      BY <2>1, <2>2, LeastIsLeast DEF SpawnClaim
    <2>4. n \in Job /\ n > p /\ n \notin sig.mask
      BY <1>a, <2>3
    <2>5. sig' = [sig EXCEPT !.mask = @ \cup {n}] /\ child' = [child EXCEPT ![p] = n]
      BY <2>1 DEF SpawnClaim
    <2>6. QED
      BY <2>4, <2>5
  <1>1. /\ pc' = [pc EXCEPT ![p] = "spawn"] /\ owing' = owing /\ odd' = odd
        /\ goal' = goal /\ after' = after /\ target' = target /\ then' = then
    BY DEF SpawnClaim, Goto, call
  <1>2. /\ sig'.mask = sig.mask \cup {j} /\ sig'.schedule = sig.schedule /\ sig'.signal = sig.signal
        /\ child'[p] = j /\ \A q \in Job \ {p} : child'[q] = child[q]
    BY <1>i, <1>j, <1>w DEF TypeOK
  <1>l. pc'[p] = "spawn" /\ \A q \in Job \ {p} : pc'[q] = pc[q]
    BY <1>i, <1>1 DEF TypeOK
  <1>c. \A q \in Job : (Carries(q)' <=> Carries(q)) /\ (Carrier(q)' <=> Carrier(q))
    BY <1>0, <1>l DEF Carries, Carrier
  <1>p. \A q \in Job : Passed(q)' <=> Passed(q)
    BY <1>2, <1>c DEF Passed
  <1>b. ~Late /\ ~Last /\ Gc \in sig.mask
    BY <1>i, <1>a DEF Members, Late
  <1>m. ~Late' /\ ~Last'
    BY <1>1, <1>b, <1>c, <1>l DEF Late, Last
  <1>n. pc[j] \in {"none", "done"}
    BY <1>i, <1>j DEF Members, Masked
  <1>3. Members'
    <2>1. \A q \in Job \ {Gc} : Masked(q)' => Masked(q)
      BY <1>0, <1>b, <1>l, <1>m DEF Masked
    <2>2. pc'[Gc] = pc[Gc]
      BY <1>l
    <2>3. ~(pc'[Main] = "gc_unalive" \/ (pc'[Main] = "signal" /\ after'[Main] = "join"))
      BY <1>m DEF Late, Last
    <2>4. QED
      BY <1>i, <1>2, <1>b, <1>m, <2>1, <2>2, <2>3 DEF Members
  <1>4. Claims'
    <2>1. ASSUME NEW q \in Job \ {p}, pc'[q] = "spawn"
          PROVE  /\ child'[q] = child[q] /\ child[q] \in sig.mask /\ child[q] > q /\ child[q] # j
                 /\ pc'[child[q]] \in {"none", "done"}
                 /\ \A r \in Job : pc[r] = "spawn" /\ child[r] = child[q] => r = q
      <3>1. pc[q] = "spawn" /\ child'[q] = child[q]
        BY <1>2, <1>l, <2>1
      <3>2. /\ child[q] \in sig.mask /\ child[q] > q /\ child[q] # j /\ child[q] \in Job
            /\ pc[child[q]] \in {"none", "done"}
            /\ \A r \in Job : pc[r] = "spawn" /\ child[r] = child[q] => r = q
        BY <1>i, <1>j, <1>w, <3>1 DEF Claims
      <3>3. QED
        BY <1>0, <1>l, <3>1, <3>2
    <2>2. pc'[j] \in {"none", "done"}
      BY <1>j, <1>l, <1>n
    <2>3. ASSUME NEW q \in Job, pc'[q] = "spawn" PROVE
            /\ child'[q] \in sig.mask \cup {j} /\ child'[q] > q
            /\ pc'[child'[q]] \in {"none", "done"}
            /\ \A r \in Job : pc'[r] = "spawn" /\ child'[r] = child'[q] => r = q
      <3>1. CASE q = p
        <4>1. child'[q] = j
          BY <1>2, <3>1
        <4>2. \A r \in Job : pc'[r] = "spawn" /\ child'[r] = j => r = p
          BY <2>1
        <4>3. QED
          BY <1>j, <2>2, <3>1, <4>1, <4>2
      <3>2. CASE q # p
        <4>1. \A r \in Job : pc'[r] = "spawn" /\ child'[r] = child'[q] => r # p
          BY <1>2, <2>1, <2>3, <3>2
        <4>2. QED
          BY <1>2, <1>l, <2>1, <2>3, <3>2, <4>1
      <3>3. QED
        BY <3>1, <3>2
    <2>4. QED
      BY <1>2, <2>3 DEF Claims
  <1>5. Calls'
    <2>1. \A q \in Job : pc'[q] \in {"signal", "lock", "ack"} => pc[q] \in {"signal", "lock", "ack"}
      BY <1>l
    <2>2. QED
      BY <1>i, <1>1, <1>2, <1>c, <2>1 DEF Calls
  <1>6. Rounds'
    <2>1. pc'[Gc] = pc[Gc]
      BY <1>l
    <2>2. \A q \in Job : pc'[q] \in {"lock", "ack"} => pc[q] \in {"lock", "ack"}
      BY <1>l
    <2>3. QED
      BY <1>i, <1>1, <1>2, <1>c, <2>1, <2>2 DEF Rounds
  <1>7. Reports'
    BY <1>i, <1>1, <1>2, <1>p, <1>w DEF Reports
  <1>8. (odd \/ Leavers)'
    <2> SUFFICES ASSUME ~odd, Leavers PROVE Leavers'
      BY <1>i, <1>1
    <2>1. \A q \in Job : Leaving(q)' <=> Leaving(q)
      BY <1>0, <1>1, <1>c, <1>l DEF Leaving, Dying
    <2>2. ~Leaving(p)
      BY <1>0 DEF Leaving, Dying, Carries
    <2>3. sig.signal = "TERM" => ~Passed(p)
      BY <1>a, <2>2 DEF Leavers
    <2>4. Passed(j) => Passed(p)
      BY <1>j, <1>n, <1>w DEF Passed, Carries
    <2>5. sig.signal = "TERM" => \A q \in sig'.mask \ {Gc} : Passed(q)' => Leaving(q)'
      BY <1>2, <1>p, <1>w, <2>1, <2>3, <2>4 DEF Leavers
    <2>6. ~AllLeaving
      BY <1>a, <2>2 DEF AllLeaving
    <2>7. ASSUME NEW q \in Job \ {Gc}, Leaving(q)' PROVE MayLeave(q)'
      <3>1. Leaving(q) /\ MayLeave(q)
        BY <2>1, <2>7 DEF Leavers
      <3>2. q # p /\ pc'[q] = pc[q]
        BY <1>l, <2>2, <3>1
      <3>3. QED
        BY <1>2, <1>p, <2>6, <3>1, <3>2 DEF MayLeave, MayLeaveAt, Turn
    <2>8. ASSUME NEW q \in Job \ {Gc}, pc'[q] \in {"bail", "await", "await_yield", "drain"}
          PROVE  MayDrain(q)'
      <3>1. q # p /\ pc'[q] = pc[q]
        BY <1>l, <2>8
      <3>2. QED
        BY <1>2, <2>8, <3>1 DEF Leavers, MayDrain, MayDrainAt, Turn
    <2>9. QED
      BY <1>1, <1>2, <1>c, <2>5, <2>7, <2>8 DEF Leavers
  <1>9. QED
    BY <1>3, <1>4, <1>5, <1>6, <1>7, <1>8 DEF IInv, Safe

(* It starts the thread.                                                   *)
LEMMA ThreadKeeps ==
  ASSUME IInv, TypeOK', NEW p \in Job \ {Gc}, SpawnThread(p)
  PROVE  IInv'
  <1>i. TypeOK /\ Members /\ Claims /\ Calls /\ Rounds /\ Reports /\ (odd \/ Leavers)
    BY Parts
  <1>w. sig.mask \in SUBSET Job
    BY <1>i, WordFacts
  <1>0. pc[p] = "spawn"
    BY DEF SpawnThread
  <1>j. PICK j \in Job : j = child[p] /\ j \in sig.mask /\ j > p /\ pc[j] \in {"none", "done"}
    BY <1>i, <1>w, <1>0 DEF Claims
  <1>e. pc' = [pc EXCEPT ![p] = "run", ![child[p]] = "begin"]
    BY DEF SpawnThread
  <1>f. pc' = [pc EXCEPT ![p] = "run", ![j] = "begin"]
    BY <1>e, <1>j
  <1>h. sig' = sig /\ call' = call /\ child' = child /\ owing' = owing /\ odd' = odd
    BY Zenon DEF SpawnThread
  <1>s. /\ sig' = sig /\ child' = child /\ owing' = owing /\ odd' = odd
        /\ goal' = goal /\ after' = after /\ target' = target /\ then' = then
    BY <1>h DEF call
  <1>g. pc \in [Job -> Label]
    BY <1>i DEF TypeOK
  <1>k. p \in Job /\ p # j
    BY <1>j
  <1>l. pc'[p] = "run" /\ pc'[j] = "begin" /\ \A q \in Job \ {p, j} : pc'[q] = pc[q]
    BY <1>f, <1>g, <1>k
  <1>c. \A q \in Job : (Carries(q)' <=> Carries(q)) /\ (Carrier(q)' <=> Carrier(q))
    BY <1>0, <1>j, <1>l DEF Carries, Carrier
  <1>p. \A q \in Job : Passed(q)' <=> Passed(q)
    BY <1>c, <1>s DEF Passed
  <1>a. p \in sig.mask
    BY <1>0, IsMember DEF AtWork
  <1>b. ~Late /\ ~Last
    BY <1>i, <1>a DEF Members, Late
  <1>m. ~Late' /\ ~Last'
    BY <1>b, <1>c, <1>j, <1>l, <1>s DEF Late, Last
  <1>1. Members'
    <2>1. \A q \in Job \ {Gc} : Masked(q)' => q \in sig.mask
      <3> SUFFICES ASSUME NEW q \in Job \ {Gc, p, j}, Masked(q)' PROVE q \in sig.mask
        BY <1>a, <1>j
      <3>1. Masked(q)
        BY <1>b, <1>l, <1>m DEF Masked
      <3>2. QED
        BY <1>i, <3>1 DEF Members
    <2>2. pc'[Gc] = pc[Gc]
      BY <1>j, <1>l
    <2>3. ~(pc'[Main] = "gc_unalive" \/ (pc'[Main] = "signal" /\ after'[Main] = "join"))
      BY <1>m DEF Late, Last
    <2>4. \A q \in Job : pc'[q] = "skip" => pc[q] = "skip"
      BY <1>l
    <2>5. QED
      BY <1>i, <1>b, <1>m, <1>s, <2>1, <2>2, <2>3, <2>4 DEF Members
  <1>2. Claims'
    <2>1. ASSUME NEW q \in Job, pc'[q] = "spawn"
          PROVE  pc[q] = "spawn" /\ pc'[child[q]] \in {"none", "done"}
      <3>1. pc[q] = "spawn" /\ q # p
        BY <1>l, <2>1
      <3>2. pc[child[q]] \in {"none", "done"} /\ child[q] \in Job /\ child[q] # child[p]
        BY <1>i, <1>0, <1>w, <3>1 DEF Claims
      <3>3. QED
        BY <1>0, <1>j, <1>l, <3>1, <3>2
    <2>2. QED
      BY <1>i, <1>s, <2>1 DEF Claims
  <1>3. Calls'
    <2>1. \A q \in Job : pc'[q] \in {"signal", "lock", "ack"} => pc[q] \in {"signal", "lock", "ack"}
      BY <1>l
    <2>2. QED
      BY <1>i, <1>c, <1>s, <2>1 DEF Calls
  <1>4. Rounds'
    <2>1. pc'[Gc] = pc[Gc]
      BY <1>j, <1>l
    <2>2. \A q \in Job : pc'[q] \in {"lock", "ack"} => pc[q] \in {"lock", "ack"}
      BY <1>l
    <2>3. QED
      BY <1>i, <1>c, <1>s, <2>1, <2>2 DEF Rounds
  <1>5. Reports'
    BY <1>i, <1>p, <1>s, <1>w DEF Reports
  <1>6. (odd \/ Leavers)'
    <2> SUFFICES ASSUME ~odd, Leavers PROVE Leavers'
      BY <1>i, <1>s
    <2>1. \A q \in Job : Leaving(q)' <=> Leaving(q)
      BY <1>0, <1>c, <1>j, <1>l, <1>s DEF Leaving, Dying
    <2>2. AllLeaving' <=> AllLeaving
      BY <1>s, <1>w, <2>1 DEF AllLeaving
    <2>3. ASSUME NEW q \in Job \ {Gc}, Leaving(q)' PROVE MayLeave(q)'
      <3>1. Leaving(q) /\ MayLeave(q)
        BY <2>1, <2>3 DEF Leavers
      <3>2. pc'[q] = pc[q]
        BY <1>0, <1>j, <1>l, <3>1 DEF Leaving, Dying, Carries
      <3>3. QED
        BY <1>p, <1>s, <2>2, <3>1, <3>2 DEF MayLeave, MayLeaveAt, Turn
    <2>4. ASSUME NEW q \in Job \ {Gc}, pc'[q] \in {"bail", "await", "await_yield", "drain"}
          PROVE  MayDrain(q)'
      <3>1. pc'[q] = pc[q]
        BY <1>l, <2>4
      <3>2. QED
        BY <1>s, <2>4, <3>1 DEF Leavers, MayDrain, MayDrainAt, Turn
    <2>5. QED
      BY <1>c, <1>p, <1>s, <1>w, <2>1, <2>3, <2>4 DEF Leavers
  <1>7. QED
    BY <1>1, <1>2, <1>3, <1>4, <1>5, <1>6 DEF IInv, Safe

(* A job clears its bit and leaves.                                        *)
LEMMA DieKeeps ==
  ASSUME IInv, TypeOK', NEW p \in Job \ {Gc}, pc[p] = "uncas",
         sig' = [sig EXCEPT !.mask = @ \ {p}], owing' = owing \ {p}, Exit(p),
         UNCHANGED <<call, child, odd>>
  PROVE  IInv'
  <1>i. TypeOK /\ Members /\ Claims /\ Calls /\ Rounds /\ Reports /\ (odd \/ Leavers)
    BY Parts
  <1>w. /\ sig.mask \in SUBSET Job
        /\ sig = [mask |-> sig.mask, schedule |-> sig.schedule, signal |-> sig.signal]
    BY <1>i, WordFacts
  <1>a. p \in sig.mask
    BY IsMember DEF AtWork
  <1>s. /\ child' = child /\ odd' = odd
        /\ goal' = goal /\ after' = after /\ target' = target /\ then' = then
    BY DEF call
  <1>2. sig'.mask = sig.mask \ {p} /\ sig'.schedule = sig.schedule /\ sig'.signal = sig.signal
    BY <1>w
  <1>l. /\ pc'[p] \in {"drained", "done"} /\ (pc'[p] = "drained" <=> p = Main)
        /\ \A q \in Job \ {p} : pc'[q] = pc[q]
    BY <1>i DEF TypeOK, Exit, Goto
  <1>c. \A q \in Job : (Carries(q)' <=> Carries(q)) /\ (Carrier(q)' <=> Carrier(q))
    BY <1>l DEF Carries, Carrier
  <1>p. \A q \in Job : Passed(q)' <=> Passed(q)
    BY <1>2, <1>c DEF Passed
  <1>b. ~Late /\ ~Last /\ Gc \in sig.mask
    BY <1>i, <1>a DEF Members, Late
  <1>m. ~Late' /\ ~Last'
    <2>1. pc'[Main] \in {pc[Main], "drained"}
      BY <1>l
    <2>2. ~Last'
      BY <1>b, <1>c, <1>s, <2>1 DEF Last, Late
    <2>3. QED
      BY <1>b, <1>c, <1>s, <2>1, <2>2 DEF Late
  <1>3. Members'
    <2>1. \A q \in Job \ {Gc} : Masked(q)' => q # p /\ Masked(q)
      BY <1>b, <1>l, <1>m DEF Masked
    <2>2. pc'[Gc] = pc[Gc]
      BY <1>l
    <2>3. ~(pc'[Main] = "gc_unalive" \/ (pc'[Main] = "signal" /\ after'[Main] = "join"))
      BY <1>m DEF Late, Last
    <2>4. QED
      BY <1>i, <1>2, <1>b, <1>m, <2>1, <2>2, <2>3 DEF Members
  <1>4. Claims'
    <2>1. \A q \in Job : pc'[q] = "spawn" => pc[q] = "spawn"
      BY <1>l
    <2>2. ASSUME NEW q \in Job, pc[q] = "spawn"
          PROVE  pc'[child[q]] \in {"none", "done"} /\ child[q] # p
      <3>1. pc[child[q]] \in {"none", "done"} /\ child[q] \in Job
        BY <1>i, <1>w, <2>2 DEF Claims
      <3>2. QED
        BY <1>l, <3>1
    <2>3. QED
      BY <1>i, <1>2, <1>s, <2>1, <2>2 DEF Claims
  <1>5. Calls'
    <2>1. \A q \in Job : pc'[q] \in {"signal", "lock", "ack"} => pc[q] \in {"signal", "lock", "ack"}
      BY <1>l
    <2>2. QED
      BY <1>i, <1>2, <1>c, <1>s, <2>1 DEF Calls
  <1>6. Rounds'
    <2>1. pc'[Gc] = pc[Gc]
      BY <1>l
    <2>2. \A q \in Job : pc'[q] \in {"lock", "ack"} => pc[q] \in {"lock", "ack"}
      BY <1>l
    <2>3. QED
      BY <1>i, <1>2, <1>c, <1>s, <2>1, <2>2 DEF Rounds
  <1>7. Reports'
    BY <1>i, <1>2, <1>p, <1>w DEF Reports
  <1>8. (odd \/ Leavers)'
    <2> SUFFICES ASSUME ~odd, Leavers PROVE Leavers'
      BY <1>i, <1>s
    <2>1. /\ \A q \in Job \ {p} : Leaving(q)' <=> Leaving(q)
          /\ ~Leaving(p)' /\ Leaving(p)
      BY <1>c, <1>l, <1>s DEF Leaving, Dying, Carries
    <2>2. AllLeaving => AllLeaving'
      BY <1>2, <1>w, <2>1 DEF AllLeaving
    <2>3. MayLeave(p)
      BY <2>1 DEF Leavers
    <2>4. sig.schedule # p
      BY <1>i, <2>3 DEF MayLeave, MayLeaveAt, Passed, Carries, Rounds
    <2>5. ASSUME NEW q \in Job \ {Gc}, Leaving(q)' PROVE MayLeave(q)'
      <3>1. q # p /\ MayLeave(q) /\ pc'[q] = pc[q]
        BY <1>l, <2>1, <2>5 DEF Leavers
      <3>2. QED
        BY <1>2, <1>p, <2>2, <3>1 DEF MayLeave, MayLeaveAt, Turn
    <2>6. ASSUME NEW q \in Job \ {Gc}, pc'[q] \in {"bail", "await", "await_yield", "drain"}
          PROVE  MayDrain(q)'
      <3>1. pc'[q] = pc[q]
        BY <1>l, <2>6
      <3>2. QED
        BY <1>2, <2>6, <3>1 DEF Leavers, MayDrain, MayDrainAt, Turn
    <2>7. QED
      BY <1>2, <1>c, <1>p, <1>s, <1>w, <2>1, <2>4, <2>5, <2>6 DEF Leavers
  <1>9. QED
    BY <1>3, <1>4, <1>5, <1>6, <1>7, <1>8 DEF IInv, Safe

(* The swap of a dying job, and the loop around it.                        *)
LEMMA UnaliveSwapKeeps ==
  ASSUME IInv, TypeOK', NEW p \in Job \ {Gc}, UnaliveSwap(p)
  PROVE  IInv'
  <1>1. pc[p] = "uncas" /\ UNCHANGED <<call, child, odd>>
    BY DEF UnaliveSwap
  <1>2. CASE sig = seen[p]
    BY <1>1, <1>2, DieKeeps DEF UnaliveSwap
  <1>3. CASE sig # seen[p]
    BY <1>1, <1>3, UnloadKeeps DEF UnaliveSwap
  <1>4. QED
    BY <1>2, <1>3

-----------------------------------------------------------------------------
(* The theorems.                                                           *)

(* Every step of every thread keeps the invariant.                         *)
LEMMA StepInv == IInv /\ [Next]_vars => IInv'
  <1> SUFFICES ASSUME IInv, [Next]_vars PROVE IInv'
    OBVIOUS
  <1>t. TypeOK'
    BY Parts, TypeStep
  <1>1. ASSUME NEW p \in Job \ {Gc}, SignalStep(p) PROVE IInv'
    <2>1. CASE SignalReturn(p) \/ SignalCollected(p) \/ SignalRaise(p) \/ SignalWake(p) \/ SignalAck(p)
      BY <1>t, <2>1, ReturnKeeps, SignalCollectedKeeps, RaiseKeeps, WakeAckKeeps
    <2>2. CASE NextNobody(p) \/ NextWrap(p) \/ NextAlive(p)
      BY <1>t, <2>2, NobodyKeeps, NextTurns, TurnKeeps
    <2>3. CASE NextSkip(p)
      <3>1. /\ Carries(p) /\ Goto(p, "skip") /\ sig.mask # {}
            /\ UNCHANGED <<sig, call, child, owing, odd>>
        BY <2>3 DEF NextSkip, Carries
      <3>2. QED
        BY <1>t, <3>1, SkipKeeps
    <2>4. CASE SkipSwap(p)
      <3>1. pc[p] = "skip" /\ Carries(p) /\ UNCHANGED <<call, child, owing, odd>>
        BY <2>4 DEF SkipSwap, Carries
      <3>2. CASE sig = seen[p]
        BY <1>t, <2>4, <3>1, <3>2, SwapTurns, TurnKeeps DEF SkipSwap
      <3>3. CASE sig # seen[p]
        BY <1>t, <2>4, <3>1, <3>3, SkipKeeps DEF SkipSwap
      <3>4. QED
        BY <3>2, <3>3
    <2>5. QED
      BY <1>1, <2>1, <2>2, <2>3, <2>4 DEF SignalStep
  <1>2. ASSUME NEW p \in Job \ {Gc}, JobStep(p) PROVE IInv'
    <2>1. CASE Yield(p) \/ SpawnThread(p) \/ Begin(p) \/ Bail(p) \/ Await(p)
      BY <1>t, <2>1, YieldKeeps, ThreadKeeps, BeginKeeps, BailKeeps
    <2>2. CASE AwaitYield(p) \/ Drain(p) \/ Unalive(p) \/ UnaliveSwap(p)
      BY <1>t, <2>2, AwaitYieldKeeps, BailKeeps, UnaliveKeeps, UnaliveSwapKeeps
    <2>3. CASE UnaliveLoad(p)
      <3>1. /\ pc[p] = "unload" /\ Goto(p, "uncas")
            /\ UNCHANGED <<sig, owing, call, child, odd>>
        BY <2>3 DEF UnaliveLoad
      <3>2. QED
        BY <1>t, <3>1, UnloadKeeps
    <2>4. QED
      BY <1>2, <2>1, <2>2, <2>3 DEF JobStep
  <1>3. ASSUME NEW p \in Job \ {Gc}, Raise(p) \/ SpawnClaim(p) \/ Quit(p) PROVE IInv'
    BY <1>t, <1>3, RaiseCallKeeps, ClaimKeeps, QuitKeeps
  <1>4. CASE Destroy \/ DestroyStep
    BY <1>t, <1>4, DestroyKeeps, CollectKeeps, DestroyWalkKeeps, GcUnaliveKeeps DEF DestroyStep
  <1>5. CASE GcStep \/ GcWakeSpurious
    BY <1>t, <1>5, GcPlainKeeps, GcAckKeeps, GcClearKeeps DEF GcStep
  <1>6. CASE UNCHANGED vars
    <2>1. /\ sig' = sig /\ epoch' = epoch /\ pc' = pc /\ goal' = goal /\ after' = after
          /\ target' = target /\ then' = then /\ child' = child /\ owing' = owing /\ (odd' <=> odd)
      BY <1>6 DEF vars, call
    <2>2. Members' /\ Claims' /\ Calls'
      BY <2>1, Parts DEF Members, GcLabel, Masked, Late, Last, Carries, Claims, Calls
    <2>3. Rounds' /\ Reports'
      BY <2>1, Parts DEF Rounds, Reports, Carrier, Carries, Passed
    <2>4. odd' \/ Leavers'
      BY <2>1, Parts DEF Leavers, Leaving, AllLeaving, MayLeave, MayLeaveAt, MayDrain, MayDrainAt,
                         Turn, Carries, Passed
    <2>5. QED
      BY <1>t, <2>2, <2>3, <2>4 DEF IInv, Safe
  <1>7. QED
    BY <1>1, <1>2, <1>3, <1>4, <1>5, <1>6 DEF Next

(* The invariant is inductive: whatever the number of slots, the signals   *)
(* that are raised and the workers that are spawned, every step of every   *)
(* thread keeps it.                                                        *)
THEOREM Inductive == Spec => []IInv
  BY InitInv, StepInv, PTL DEF Spec

(* Every variable keeps to its type.                                       *)
THEOREM TypesHold == Spec => []TypeOK
  <1>1. IInv => TypeOK
    BY Parts
  <1>2. QED
    BY <1>1, Inductive, PTL

(* Whoever passes a signal on has one to pass on (the precondition of      *)
(* gab_signext), and the turn is never given to a job that is dead.        *)
THEOREM TurnToTheLiving == Spec => []TurnIsAlive
  <1>1. IInv => TurnIsAlive
    <2> SUFFICES ASSUME IInv, ~odd PROVE TurnIsAlive
      BY DEF TurnIsAlive
    <2>1. Rounds /\ Leavers
      BY Parts
    <2>2. QED
      BY <2>1 DEF Rounds, Leavers, Carrier, TurnIsAlive
  <1>2. QED
    BY <1>1, Inductive, PTL

(* The assertion in __gab_jbbail: the signal that waits for a job which    *)
(* drains its queue is TERM.                                               *)
THEOREM DrainsForTerm == Spec => []BailSeesTerm
  <1>1. IInv => BailSeesTerm
    <2> SUFFICES ASSUME IInv, ~odd, NEW p \in Job, pc[p] = "drain" PROVE Turn(p, "TERM")
      BY DEF BailSeesTerm
    <2>1. p # Gc
      BY Parts DEF Members, GcLabel
    <2>2. MayDrainAt(p, "drain")
      BY <2>1, DrainFacts
    <2>3. QED
      BY <2>2 DEF MayDrainAt
  <1>2. QED
    BY <1>1, Inductive, PTL

(* A collection begins with every stack of the jobs that ran when it was   *)
(* asked for: each has reported its own, or is dead (gab_gcepochnext).     *)
THEOREM EveryJobReports == Spec => []EveryJobReported
  <1>1. IInv => EveryJobReported
    <2> SUFFICES ASSUME IInv, pc[Gc] = "collect" PROVE owing = {}
      BY DEF EveryJobReported
    <2>1. sig.schedule = Gc
      BY Parts DEF Rounds
    <2>2. \A p \in owing : p \notin owing
      BY <2>1, Parts DEF Reports, Passed
    <2>3. QED
      BY <2>2
  <1>2. QED
    BY <1>1, Inductive, PTL

(* When TERM has come round to the collector every job that is left is     *)
(* dying, and none was spawned behind its back.                            *)
THEOREM TermReaches == Spec => []TermReachesAll
  <1>1. IInv => TermReachesAll
    <2> SUFFICES ASSUME IInv, ~odd, pc[Gc] = "clear", sig.signal = "TERM",
                        NEW p \in sig.mask \ {Gc}
                 PROVE  pc[p] \in Dying
      BY DEF TermReachesAll
    <2>1. TypeOK /\ Rounds /\ Leavers
      BY Parts
    <2>2. sig.schedule = Gc /\ p \in Job
      BY <2>1, WordFacts DEF Rounds
    <2>3. Leaving(p)
      BY <2>1, <2>2 DEF Leavers, Passed
    <2>4. ~Carries(p)
      BY <2>1, <2>2 DEF Rounds
    <2>5. QED
      BY <2>3, <2>4 DEF Leaving
  <1>2. QED
    BY <1>1, Inductive, PTL

(* A step that gives the turn to somebody else gives it to a job further   *)
(* up, or to the collector.                                                *)
LEMMA TurnGoesUp ==
  ASSUME IInv, NEW p \in Job \ {Gc}, NEW n \in Job, Turns(p, n)
  PROVE  \/ sig.schedule \notin {Gc, Calling} /\ sig'.schedule > sig.schedule
         \/ sig.schedule # Calling /\ sig'.schedule = Gc
  <1>1. TypeOK /\ Rounds
    BY Parts
  <1>2. sig'.schedule = n
    BY <1>1, WordFacts DEF Turns
  <1>3. \/ target[p] = Main /\ sig.schedule = NoSignal
        \/ target[p] = p + 1 /\ sig.schedule = p
    BY <1>1 DEF Rounds, Turns
  <1>4. n = Gc \/ target[p] <= n
    BY DEF Turns, Follows
  <1>5. QED
    BY <1>2, <1>3, <1>4

(* A round never goes back: the turn moves to higher jobs, then to the     *)
(* collector, and a new round begins only when this one is cleared.        *)
THEOREM RoundsGoUp == Spec => RoundIsOrdered
  <1> DEFINE Ordered ==
        \/ sig'.schedule = sig.schedule
        \/ sig.schedule \notin {Gc, Calling} /\ sig'.schedule > sig.schedule
        \/ sig.schedule # Calling /\ sig'.schedule = Gc
        \/ sig.schedule \in {Gc, Calling} /\ sig'.schedule = NoSignal
        \/ sig.schedule = NoSignal /\ sig.signal = "IGN" /\ sig'.schedule = Calling
  <1>1. ASSUME IInv, [Next]_vars PROVE [Ordered]_sig
    <2>w. sig = [mask |-> sig.mask, schedule |-> sig.schedule, signal |-> sig.signal]
      BY <1>1, Parts, WordFacts
    <2>1. ASSUME NEW p \in Job \ {Gc}, NEW n \in Job, Turns(p, n) PROVE Ordered
      BY <1>1, <2>1, TurnGoesUp
    <2>2. ASSUME NEW p \in Job \ {Gc}, SignalStep(p) PROVE sig' = sig \/ Ordered
      <3>1. CASE NextWrap(p) \/ NextAlive(p)
        BY <1>1, <2>1, <3>1, NextTurns
      <3>2. CASE SkipSwap(p)
        <4>1. pc[p] = "skip" /\ UNCHANGED <<call, child, owing, odd>>
          BY <3>2 DEF SkipSwap
        <4>2. CASE sig = seen[p]
          BY <1>1, <2>1, <3>2, <4>1, <4>2, SwapTurns DEF SkipSwap
        <4>3. CASE sig # seen[p]
          BY <3>2, <4>3 DEF SkipSwap
        <4>4. QED
          BY <4>2, <4>3
      <3>3. CASE SignalRaise(p)
        BY <2>w, <3>3 DEF SignalRaise
      <3>4. QED
        BY <2>2, <3>1, <3>2, <3>3 DEF SignalStep, SignalReturn, SignalCollected, SignalWake,
                                      SignalAck, NextNobody, NextSkip
    <2>3. ASSUME NEW p \in Job \ {Gc}, JobStep(p) PROVE sig' = sig \/ Ordered
      <3>1. CASE Begin(p)
        BY <2>w, <3>1 DEF Begin
      <3>2. CASE UnaliveSwap(p)
        BY <2>w, <3>2 DEF UnaliveSwap
      <3>3. QED
        BY <2>3, <3>1, <3>2 DEF JobStep, Yield, SpawnThread, Bail, Await, AwaitYield, Drain,
                                Unalive, UnaliveLoad
    <2>4. ASSUME NEW p \in Job \ {Gc}, Raise(p) \/ SpawnClaim(p) \/ Quit(p) PROVE sig' = sig \/ Ordered
      BY <2>w, <2>4 DEF Raise, SpawnClaim, Quit
    <2>5. CASE Destroy \/ DestroyStep
      BY <2>w, <2>5 DEF Destroy, DestroyStep, DestroyCollect, DestroyCollected, DestroyGc, DestroyJoin
    <2>6. CASE GcStep \/ GcWakeSpurious
      BY <2>w, <2>6 DEF GcStep, GcLoop, GcAck, GcRead, GcCollect, GcClear, GcWakeSpurious
    <2>7. CASE UNCHANGED vars
      BY <2>7 DEF vars
    <2>8. QED
      BY <1>1, <2>2, <2>3, <2>4, <2>5, <2>6, <2>7 DEF Next
  <1>2. QED
    BY <1>1, Inductive, PTL DEF Spec, RoundIsOrdered

-----------------------------------------------------------------------------
(* Epochs.  They agree as long as no swap fails after dead jobs were       *)
(* counted.                                                                *)

(* gab_signext, called by q, has counted p on its behalf and not yet       *)
(* swapped the word.                                                       *)
LeftOut(q, p) ==
  /\ pc[q] = "skip" /\ target[q] <= p
  /\ \/ Following(target[q], seen[q].mask) = Gc
     \/ p < Following(target[q], seen[q].mask)

(* p has moved to the next epoch in this collection.                       *)
Counted(p) ==
  /\ sig.signal = "COLL"
  /\ \/ p = Gc /\ pc[Gc] = "clear"
     \/ p # Gc /\ Passed(p)
     \/ p # Gc /\ \E q \in Job : LeftOut(q, p)

(* All jobs are at the same epoch, those that were counted one further.    *)
EpochsCount ==
  \E e \in Nat : \A p \in Job : epoch[p] = IF Counted(p) THEN e + 1 ELSE e

(* No swap that skips dead jobs fails in a collection: the mask stays as   *)
(* it was when they were counted.                                          *)
NoTornSkip == \A p \in Job : pc[p] = "skip" /\ pc'[p] = "next" => sig.signal # "COLL"

(* A step moves the epochs of the jobs that it counts, and no others.      *)
Moves ==
  \A p \in Job :
    /\ Counted(p) => Counted(p)'
    /\ epoch'[p] = IF Counted(p)' /\ ~Counted(p) THEN epoch[p] + 1 ELSE epoch[p]

LEMMA MovesKeep == ASSUME EpochsCount, Moves PROVE EpochsCount'
  <1>1. PICK e \in Nat : \A p \in Job : epoch[p] = IF Counted(p) THEN e + 1 ELSE e
    BY DEF EpochsCount
  <1>2. ASSUME NEW p \in Job PROVE epoch'[p] = IF Counted(p)' THEN e + 1 ELSE e
    <2>1. CASE Counted(p)
      BY <1>1, <2>1 DEF Moves
    <2>2. CASE ~Counted(p)
      BY <1>1, <2>2 DEF Moves
    <2>3. QED
      BY <2>1, <2>2
  <1>3. QED
    BY <1>2 DEF EpochsCount

(* While it is no collection nothing is counted.                           *)
LEMMA NoCollMoves ==
  ASSUME epoch' = epoch, sig.signal # "COLL", sig'.signal # "COLL"
  PROVE  Moves
  BY DEF Moves, Counted

(* Steps that have nothing to do with the round.                           *)
Aside ==
  /\ epoch' = epoch /\ sig'.schedule = sig.schedule /\ sig'.signal = sig.signal
  /\ pc'[Gc] = "clear" <=> pc[Gc] = "clear"
  /\ \A q \in Job :
       /\ pc'[q] = "next" <=> pc[q] = "next"
       /\ pc'[q] = "skip" <=> pc[q] = "skip"
       /\ pc[q] = "skip" => target'[q] = target[q] /\ seen'[q] = seen[q]

LEMMA AsideMoves == ASSUME Aside PROVE Moves
  <1>1. \A q, p \in Job : LeftOut(q, p)' <=> LeftOut(q, p)
    BY DEF Aside, LeftOut
  <1>2. \A p \in Job : Passed(p)' <=> Passed(p)
    BY DEF Aside, Passed, Carries
  <1>3. \A p \in Job : Counted(p)' <=> Counted(p)
    BY <1>1, <1>2 DEF Aside, Counted
  <1>4. QED
    BY <1>3 DEF Aside, Moves

(* Who is counted while p looks for the next job ...                       *)
LEMMA CountedAtNext ==
  ASSUME IInv, NEW p \in Job \ {Gc}, pc[p] = "next", sig.signal = "COLL"
  PROVE  /\ ~Counted(Gc)
         /\ \A q \in Job \ {Gc} : Counted(q) <=> q < target[p]
  <1>1. /\ \/ target[p] = Main /\ sig.schedule = NoSignal
           \/ target[p] = p + 1 /\ sig.schedule = p
        /\ pc[Gc] # "clear"
        /\ \A r \in Job : Carries(r) => r = p
    BY Parts DEF Rounds, Carries, Carrier
  <1>2. \A r \in Job : pc[r] # "skip"
    BY <1>1 DEF Carries
  <1>3. ASSUME NEW q \in Job \ {Gc} PROVE Passed(q) <=> q < target[p]
    <2>1. q \in Nat /\ p \in Nat /\ q # 0 /\ p # 0
      OBVIOUS
    <2>2. CASE target[p] = Main /\ sig.schedule = NoSignal
      BY <2>1, <2>2 DEF Passed
    <2>3. CASE target[p] = p + 1 /\ sig.schedule = p
      BY <2>1, <2>3 DEF Passed, Carries
    <2>4. QED
      BY <1>1, <2>2, <2>3
  <1>4. QED
    BY <1>1, <1>2, <1>3 DEF Counted, LeftOut

(* ... while it is about to swap the word ...                              *)
LEMMA CountedAtSkip ==
  ASSUME IInv, NEW p \in Job \ {Gc}, pc[p] = "skip", sig.signal = "COLL"
  PROVE  /\ ~Counted(Gc)
         /\ \A q \in Job \ {Gc} :
              Counted(q) <=> \/ q < target[p]
                             \/ Following(target[p], seen[p].mask) = Gc
                             \/ q < Following(target[p], seen[p].mask)
  <1>1. /\ \/ target[p] = Main /\ sig.schedule = NoSignal
           \/ target[p] = p + 1 /\ sig.schedule = p
        /\ pc[Gc] # "clear"
        /\ \A r \in Job : Carries(r) => r = p
    BY Parts DEF Rounds, Carries, Carrier
  <1>2. \A r \in Job : pc[r] = "skip" <=> r = p
    BY <1>1 DEF Carries
  <1>3. ASSUME NEW q \in Job \ {Gc} PROVE Passed(q) <=> q < target[p]
    <2>1. q \in Nat /\ p \in Nat /\ q # 0 /\ p # 0
      OBVIOUS
    <2>2. CASE target[p] = Main /\ sig.schedule = NoSignal
      BY <2>1, <2>2 DEF Passed
    <2>3. CASE target[p] = p + 1 /\ sig.schedule = p
      BY <2>1, <2>3 DEF Passed, Carries
    <2>4. QED
      BY <1>1, <2>2, <2>3
  <1>4. ASSUME NEW q \in Job \ {Gc}
        PROVE  (\E r \in Job : LeftOut(r, q)) <=> LeftOut(p, q)
    BY <1>2 DEF LeftOut
  <1>5. target[p] \in Nat
    BY TargetNat
  <1>6. PICK f, t : f = Following(target[p], seen[p].mask) /\ t = target[p]
    OBVIOUS
  <1>7. \A q \in Job \ {Gc} : LeftOut(p, q) <=> t <= q /\ (f = Gc \/ q < f)
    BY <1>6 DEF LeftOut
  <1>8. \A q \in Job \ {Gc} : q < t \/ t <= q
    BY <1>5, <1>6
  <1>9. \A q \in Job \ {Gc} : Counted(q) <=> q < t \/ (t <= q /\ (f = Gc \/ q < f))
    BY <1>3, <1>4, <1>6, <1>7 DEF Counted
  <1>10. ~Counted(Gc)
    BY <1>1 DEF Counted
  <1>11. QED
    BY <1>6, <1>8, <1>9, <1>10, Zenon

(* ... and while nobody does.                                              *)
LEMMA CountedAtRest ==
  ASSUME IInv, sig.signal = "COLL", \A r \in Job : ~Carries(r)
  PROVE  \A q \in Job \ {Gc} : Counted(q) <=> sig.schedule = Gc \/ q < sig.schedule
  BY DEF Counted, Passed, LeftOut, Carries

(* The turn goes to n: those before n are counted, as they were.           *)
LEMMA TurnMoves ==
  ASSUME IInv, NEW p \in Job \ {Gc}, NEW n \in Job, Carries(p), Goto(p, then[p]),
         epoch' = epoch, sig' = [sig EXCEPT !.schedule = n],
         sig.signal = "COLL" =>
           \A q \in Job \ {Gc} : Counted(q) <=> n = Gc \/ q < n
  PROVE  Moves
  <1>1. sig'.schedule = n /\ sig'.signal = sig.signal
    BY Parts, WordFacts
  <1>2. pc \in [Job -> Label] /\ then[p] \notin {"next", "skip"}
    BY Parts DEF TypeOK
  <1>3. \A r \in Job : ~(pc'[r] \in {"next", "skip"})
    <2>1. \A r \in Job : Carries(r) => r = p
      BY Parts DEF Rounds, Carries, Carrier
    <2>2. QED
      BY <1>2, <2>1 DEF Goto, Carries
  <1>4. CASE sig.signal # "COLL"
    BY <1>1, <1>4, NoCollMoves
  <1>5. CASE sig.signal = "COLL"
    <2>1. \A q \in Job \ {Gc} : Passed(q)' <=> n = Gc \/ q < n
      BY <1>1, <1>3 DEF Passed, Carries
    <2>2. \A r, q \in Job : ~LeftOut(r, q)'
      BY <1>3 DEF LeftOut
    <2>3. \A q \in Job \ {Gc} : Counted(q)' <=> Counted(q)
      BY <1>1, <1>5, <2>1, <2>2 DEF Counted
    <2>4. pc'[Gc] = pc[Gc]
      BY <1>2 DEF Goto
    <2>5. Counted(Gc)' <=> Counted(Gc)
      BY <1>1, <2>4 DEF Counted
    <2>6. QED
      BY <2>3, <2>5 DEF Moves
  <1>6. QED
    BY <1>4, <1>5

(* The swap of gab_signext, in its three forms.                            *)
LEMMA NextMoves ==
  ASSUME IInv, NEW p \in Job \ {Gc},
         \/ NextAlive(p) \/ NextWrap(p)
         \/ SkipSwap(p) /\ sig = seen[p]
  PROVE  Moves
  <1>1. sig.mask \in SUBSET Job /\ target[p] \in Nat
    BY Parts, WordFacts, TargetNat
  <1>2. CASE NextAlive(p)
    <2>1. pc[p] = "next" /\ Goto(p, then[p]) /\ epoch' = epoch
      BY <1>2 DEF NextAlive
    <2>2. PICK n \in Job : n = target[p] /\ n # Gc
      <3>1. target[p] \in Job
        BY <1>1, <1>2 DEF NextAlive
      <3>2. target[p] # 0
        BY <2>1, Parts DEF Rounds, Carries
      <3>3. QED
        BY <3>1, <3>2
    <2>3. sig' = [sig EXCEPT !.schedule = n] /\ Carries(p)
      BY <1>2, <2>1, <2>2 DEF NextAlive, Carries
    <2>4. QED
      BY <2>1, <2>2, <2>3, CountedAtNext, TurnMoves
  <1>3. CASE NextWrap(p)
    <2>1. /\ pc[p] = "next" /\ Goto(p, then[p]) /\ epoch' = epoch
          /\ sig' = [sig EXCEPT !.schedule = 0] /\ Carries(p) /\ target[p] >= Len
      BY <1>3 DEF NextWrap, Carries
    <2>2. \A q \in Job \ {Gc} : q < target[p]
      BY <1>1, <2>1
    <2>3. 0 \in Job
      OBVIOUS
    <2>4. QED
      BY <2>1, <2>2, <2>3, CountedAtNext, TurnMoves
  <1>4. CASE SkipSwap(p) /\ sig = seen[p]
    <2>1. /\ pc[p] = "skip" /\ Goto(p, then[p]) /\ epoch' = epoch /\ Carries(p)
          /\ sig' = [sig EXCEPT !.schedule = Following(target[p], sig.mask)]
      BY <1>4 DEF SkipSwap, Carries
    <2>2. PICK n, t : n = Following(target[p], sig.mask) /\ t = target[p]
      OBVIOUS
    <2>3. n = Gc \/ (n \in sig.mask /\ t <= n)
      BY <1>1, <2>2, FollowingFacts
    <2>4. n \in Job
      BY <1>1, <2>3
    <2>5. sig.signal = "COLL" =>
            \A q \in Job \ {Gc} : Counted(q) <=> q < t \/ n = Gc \/ q < n
      BY <1>4, <2>1, <2>2, CountedAtSkip
    <2>6. \A q \in Job \ {Gc} : q < t => n = Gc \/ q < n
      BY <1>1, <2>2, <2>3, <2>4
    <2>7. QED
      BY <2>1, <2>2, <2>4, <2>5, <2>6, TurnMoves
  <1>5. QED
    BY <1>2, <1>3, <1>4

(* The dead jobs that are skipped are counted, each one once.              *)
LEMMA SkipMoves ==
  ASSUME IInv, NEW p \in Job \ {Gc}, NextSkip(p)
  PROVE  Moves
  <1>1. pc[p] = "next" /\ sig' = sig /\ target' = target
    BY DEF NextSkip, call
  <1>2. PICK t, f : t = target[p] /\ f = Following(target[p], sig.mask)
    OBVIOUS
  <1>3. epoch' = [j \in Job |-> IF sig.signal = "COLL" /\ t <= j /\ j < (IF f = Gc THEN Len ELSE f)
                                THEN epoch[j] + 1 ELSE epoch[j]]
    BY <1>2 DEF NextSkip
  <1>4. /\ pc' = [pc EXCEPT ![p] = "skip"] /\ pc \in [Job -> Label]
        /\ seen' = [seen EXCEPT ![p] = sig] /\ seen \in [Job -> Word]
        /\ epoch \in [Job -> Nat]
    BY Parts DEF NextSkip, Goto, TypeOK
  <1>5. CASE sig.signal # "COLL"
    <2>1. epoch' = epoch
      BY <1>3, <1>4, <1>5
    <2>2. QED
      BY <1>1, <1>5, <2>1, NoCollMoves
  <1>6. CASE sig.signal = "COLL"
    <2>1. ~Counted(Gc) /\ \A q \in Job \ {Gc} : Counted(q) <=> q < t
      BY <1>1, <1>2, <1>6, CountedAtNext
    <2>2. \A r \in Job : Carries(r) => r = p
      BY <1>1, Parts DEF Rounds, Carries, Carrier
    <2>3. \A q \in Job : Passed(q)' <=> Passed(q)
      <3>1. \A r \in Job : Carries(r)' <=> Carries(r)
        BY <1>1, <1>4 DEF Carries
      <3>2. QED
        BY <1>1, <3>1 DEF Passed
    <2>4. \A q \in Job : (\E r \in Job : LeftOut(r, q)') <=> t <= q /\ (f = Gc \/ q < f)
      <3>1. \A r \in Job : pc'[r] = "skip" <=> r = p
        BY <1>1, <1>4, <2>2 DEF Carries
      <3>2. target'[p] = t /\ Following(target'[p], seen'[p].mask) = f
        BY <1>1, <1>2, <1>4
      <3>3. QED
        BY <3>1, <3>2 DEF LeftOut
    <2>5. \A q, r \in Job : ~LeftOut(r, q)
      BY <1>1, <2>2 DEF LeftOut, Carries
    <2>6. ASSUME NEW q \in Job \ {Gc}
          PROVE  Counted(q)' <=> Counted(q) \/ (t <= q /\ (f = Gc \/ q < f))
      BY <1>1, <1>6, <2>3, <2>4, <2>5 DEF Counted
    <2>7. pc'[Gc] = pc[Gc] /\ ~Counted(Gc)'
      <3>1. pc'[Gc] = pc[Gc]
        BY <1>4
      <3>2. QED
        BY <1>1, <2>1, <3>1 DEF Counted
    <2>8. t \in Nat /\ t # 0
      <3>1. t \in Nat
        BY <1>2, TargetNat
      <3>2. target[p] # 0
        BY <1>1, Parts DEF Rounds, Carries
      <3>3. QED
        BY <1>2, <3>1, <3>2
    <2>9. f = Gc \/ f \in Nat
      <3>1. sig.mask \in SUBSET Job
        BY Parts, WordFacts
      <3>2. f = Gc \/ f \in sig.mask
        BY <1>2, <2>8, <3>1, FollowingFacts
      <3>3. QED
        BY <3>1, <3>2
    <2>10. ASSUME NEW q \in Job
           PROVE  /\ Counted(q) => Counted(q)'
                  /\ epoch'[q] = IF Counted(q)' /\ ~Counted(q) THEN epoch[q] + 1 ELSE epoch[q]
      <3>1. epoch'[q] = IF t <= q /\ (f = Gc \/ q < f) THEN epoch[q] + 1 ELSE epoch[q]
        BY <1>3, <1>6, <2>9
      <3>2. CASE q = Gc
        BY <2>1, <2>7, <2>8, <3>1, <3>2
      <3>3. CASE q # Gc
        <4>1. t <= q => ~Counted(q)
          BY <2>1, <2>8, <3>3
        <4>2. QED
          BY <2>6, <3>1, <3>3, <4>1
      <3>4. QED
        BY <3>2, <3>3
    <2>11. QED
      BY <2>10 DEF Moves
  <1>7. QED
    BY <1>5, <1>6

(* A job that has its turn is counted when it reports (gab_gcepochnext).   *)
LEMMA CollectedMoves ==
  ASSUME IInv, NEW p \in Job \ {Gc}, NEW l, Collected(p, l), sig' = sig,
         pc[p] \notin {"next", "skip"}
  PROVE  Moves
  <1>1. /\ sig.schedule = p /\ sig.signal = "COLL"
        /\ epoch' = [epoch EXCEPT ![p] = @ + 1] /\ epoch \in [Job -> Nat]
        /\ pc' = [pc EXCEPT ![p] = "next"] /\ pc \in [Job -> Label]
    BY Parts DEF Collected, Turn, EpochNext, Propagate, CallNext, Goto, TypeOK
  <1>2. \A r \in Job : ~Carries(r)
    <2>1. \A r \in Job : Carries(r) => r = p
      BY <1>1, Parts DEF Rounds
    <2>2. QED
      BY <2>1 DEF Carries
  <1>3. pc[Gc] # "clear" /\ pc'[Gc] # "clear"
    BY <1>1, Parts DEF Rounds
  <1>4. \A q, r \in Job : ~LeftOut(r, q) /\ ~LeftOut(r, q)'
    BY <1>1, <1>2 DEF LeftOut, Carries
  <1>5. ASSUME NEW q \in Job \ {Gc}
        PROVE  (Counted(q) <=> q < p) /\ (Counted(q)' <=> q < p \/ q = p)
    <2>1. Passed(q) <=> q < p
      BY <1>1, <1>2 DEF Passed
    <2>2. Passed(q)' <=> q < p \/ q = p
      BY <1>1 DEF Passed, Carries
    <2>3. QED
      BY <1>1, <1>4, <2>1, <2>2 DEF Counted
  <1>6. ~Counted(Gc) /\ ~Counted(Gc)'
    BY <1>3 DEF Counted
  <1>7. ASSUME NEW q \in Job
        PROVE  /\ Counted(q) => Counted(q)'
               /\ epoch'[q] = IF Counted(q)' /\ ~Counted(q) THEN epoch[q] + 1 ELSE epoch[q]
    <2>1. epoch'[q] = IF q = p THEN epoch[q] + 1 ELSE epoch[q]
      BY <1>1
    <2>2. CASE q = Gc
      BY <1>6, <2>1, <2>2
    <2>3. CASE q # Gc
      BY <1>5, <2>1, <2>3
    <2>4. QED
      BY <2>2, <2>3
  <1>8. QED
    BY <1>7 DEF Moves

(* Nobody is counted when a signal is raised, acknowledged or started.     *)
LEMMA RaiseMoves ==
  ASSUME IInv, NEW p \in Job \ {Gc}, SignalRaise(p) \/ SignalAck(p)
  PROVE  Moves
  <1>1. epoch' = epoch /\ pc' = [pc EXCEPT ![p] = pc'[p]] /\ pc'[p] # "skip" /\ pc \in [Job -> Label]
    BY Parts DEF SignalRaise, SignalAck, CallNext, Goto, TypeOK
  <1>2. sig.schedule = NoSignal /\ sig'.schedule \in {NoSignal, Calling}
    BY Parts, WordFacts DEF SignalRaise, SignalAck
  <1>3. \A r \in Job : pc[r] # "skip" /\ pc'[r] # "skip"
    <2>1. SignalRaise(p) => \A r \in Job : ~Carrier(r)
      BY Parts DEF Rounds, SignalRaise
    <2>2. SignalAck(p) => \A r \in Job : Carrier(r) => r = p
      BY Parts DEF Rounds, SignalAck, Carrier
    <2>3. QED
      BY <1>1, <2>1, <2>2 DEF Carrier, SignalRaise, SignalAck
  <1>4. pc[Gc] # "clear" /\ pc'[Gc] = pc[Gc]
    BY <1>1, <1>2, Parts DEF Rounds
  <1>5. \A q \in Job : ~Passed(q) /\ ~Passed(q)'
    BY <1>2 DEF Passed
  <1>6. \A q \in Job : ~Counted(q) /\ ~Counted(q)'
    BY <1>3, <1>4, <1>5 DEF Counted, LeftOut
  <1>7. QED
    BY <1>1, <1>6 DEF Moves

(* The collector acknowledges.                                             *)
LEMMA AckMoves == ASSUME IInv, GcAck PROVE Moves
  <1>1. /\ epoch' = epoch /\ pc[Gc] = "wake" /\ target' = target /\ seen' = seen
        /\ pc' = [pc EXCEPT ![Gc] = "read"] /\ pc \in [Job -> Label]
    BY Parts DEF GcAck, Goto, call, TypeOK
  <1>2. sig.schedule = Calling /\ sig'.schedule = NoSignal /\ sig'.signal = sig.signal
    BY Parts, WordFacts DEF GcAck
  <1>3. \A q \in Job : ~Passed(q) /\ ~Passed(q)'
    BY <1>2 DEF Passed
  <1>4. \A q, r \in Job : LeftOut(r, q)' <=> LeftOut(r, q)
    BY <1>1 DEF LeftOut
  <1>5. pc'[Gc] = "read"
    BY <1>1
  <1>6. \A q \in Job : Counted(q)' <=> Counted(q)
    BY <1>1, <1>2, <1>3, <1>4, <1>5 DEF Counted
  <1>7. QED
    BY <1>1, <1>6 DEF Moves

(* Nobody is left to signal: that is main, and no round was begun.         *)
LEMMA NobodyMoves ==
  ASSUME IInv, NEW p \in Job \ {Gc}, NextNobody(p)
  PROVE  Moves
  <1>1. /\ epoch' = epoch /\ pc[p] = "next" /\ sig' = sig /\ sig.mask = {}
        /\ pc' = [pc EXCEPT ![p] = then[p]] /\ pc \in [Job -> Label]
        /\ then[p] \notin {"next", "skip"}
    BY Parts DEF NextNobody, Goto, TypeOK
  <1>2. Last /\ p = Main
    <2>1. Last
      BY <1>1, Parts DEF Members
    <2>2. ~Masked(p)
      BY <1>1, Parts DEF Members
    <2>3. QED
      BY <1>1, <2>1, <2>2 DEF Masked
  <1>3. target[Main] = Main
    BY <1>1, <1>2, Parts DEF Last, Calls, Carries
  <1>4. sig.schedule = NoSignal
    BY <1>1, <1>2, <1>3, Parts DEF Rounds, Carries
  <1>5. \A r \in Job : pc[r] # "skip" /\ pc'[r] # "skip"
    <2>1. \A r \in Job : Carries(r) => r = p
      BY <1>1, Parts DEF Rounds, Carries, Carrier
    <2>2. QED
      BY <1>1, <2>1 DEF Carries
  <1>6. pc'[Gc] = pc[Gc] /\ \A q \in Job : ~Passed(q) /\ ~Passed(q)'
    BY <1>1, <1>4 DEF Passed
  <1>7. \A q \in Job : Counted(q)' <=> Counted(q)
    BY <1>1, <1>5, <1>6 DEF Counted, LeftOut
  <1>8. QED
    BY <1>1, <1>7 DEF Moves

(* The collector counts itself when it collects.                           *)
LEMMA GcCollectMoves == ASSUME IInv, GcCollect PROVE Moves
  <1>1. /\ epoch' = [epoch EXCEPT ![Gc] = @ + 1] /\ epoch \in [Job -> Nat]
        /\ pc[Gc] = "collect" /\ sig' = sig /\ target' = target /\ seen' = seen
        /\ pc' = [pc EXCEPT ![Gc] = "clear"] /\ pc \in [Job -> Label]
    BY Parts DEF GcCollect, Goto, call, TypeOK
  <1>2. sig.signal = "COLL"
    BY <1>1, Parts DEF Rounds
  <1>3. \A r \in Job \ {Gc} : pc'[r] = pc[r]
    BY <1>1
  <1>4. /\ \A q, r \in Job : LeftOut(r, q)' <=> LeftOut(r, q)
        /\ \A q \in Job \ {Gc} : Passed(q)' <=> Passed(q)
    BY <1>1, <1>3 DEF LeftOut, Passed, Carries
  <1>5. \A q \in Job \ {Gc} : Counted(q)' <=> Counted(q)
    BY <1>1, <1>4 DEF Counted
  <1>6. ~Counted(Gc) /\ Counted(Gc)'
    BY <1>1, <1>2 DEF Counted
  <1>7. epoch'[Gc] = epoch[Gc] + 1 /\ \A q \in Job \ {Gc} : epoch'[q] = epoch[q]
    BY <1>1
  <1>8. QED
    BY <1>5, <1>6, <1>7 DEF Moves

(* All are counted when the collector clears the word, and the next round  *)
(* begins with nobody counted.                                             *)
LEMMA AllCounted ==
  ASSUME IInv, pc[Gc] = "clear", sig.signal = "COLL"
  PROVE  \A q \in Job : Counted(q)
  BY Parts DEF Rounds, Counted, Passed

LEMMA GcClearCounts == ASSUME IInv, EpochsCount, GcClear PROVE EpochsCount'
  <1>1. epoch' = epoch /\ pc[Gc] = "clear" /\ sig'.signal = "IGN"
    BY Parts, WordFacts DEF GcClear
  <1>2. CASE sig.signal # "COLL"
    BY <1>1, <1>2, NoCollMoves, MovesKeep
  <1>3. CASE sig.signal = "COLL"
    <2>1. PICK e \in Nat : \A p \in Job : epoch[p] = IF Counted(p) THEN e + 1 ELSE e
      BY DEF EpochsCount
    <2>2. \A p \in Job : epoch[p] = e + 1
      BY <1>1, <1>3, <2>1, AllCounted
    <2>3. \A p \in Job : ~Counted(p)'
      BY <1>1 DEF Counted
    <2>4. e + 1 \in Nat
      OBVIOUS
    <2>5. QED
      BY <1>1, <2>2, <2>3, <2>4 DEF EpochsCount
  <1>4. QED
    BY <1>2, <1>3

(* Where a thread is that neither looks for the next job nor has collected.*)
Elsewhere == Label \ {"next", "skip", "clear"}

(* One thread goes on, and has nothing to do with the round.               *)
LEMMA WalkMoves ==
  ASSUME IInv, NEW p \in Job, pc[p] \in Elsewhere, NEW l \in Elsewhere, Goto(p, l),
         epoch' = epoch, sig'.schedule = sig.schedule, sig'.signal = sig.signal,
         target' = target, \A q \in Job \ {p} : seen'[q] = seen[q]
  PROVE  Moves
  <1>1. pc' = [pc EXCEPT ![p] = l] /\ pc \in [Job -> Label]
    BY Parts DEF Goto, TypeOK
  <1>2. Aside
    BY <1>1 DEF Aside, Elsewhere
  <1>3. QED
    BY <1>2, AsideMoves

(* Where a TERM was, nothing was counted.                                  *)
LEMMA TermMoves ==
  ASSUME epoch' = epoch, sig' = sig, NEW p, Turn(p, "TERM")
  PROVE  Moves
  BY NoCollMoves DEF Turn

(* A step of gab_signal or gab_signext.                                    *)
LEMMA SignalStepMoves ==
  ASSUME IInv, NEW p \in Job \ {Gc}, SignalStep(p), NoTornSkip
  PROVE  Moves
  <1>1. CASE SignalReturn(p)
    <2>1. pc[p] \in Elsewhere /\ after[p] \in Elsewhere
      BY <1>1, Parts DEF SignalReturn, TypeOK, Elsewhere, Label, Running, Dying
    <2>2. QED
      BY <1>1, <2>1, WalkMoves DEF SignalReturn, call
  <1>2. CASE SignalCollected(p)
    BY <1>2, CollectedMoves DEF SignalCollected
  <1>3. CASE SignalRaise(p) \/ SignalAck(p)
    BY <1>3, RaiseMoves
  <1>4. CASE SignalWake(p)
    <2>1. /\ epoch' = epoch /\ sig' = sig /\ target' = target /\ seen' = seen
          /\ pc[p] = "lock" /\ pc[Gc] # "clear" /\ pc \in [Job -> Label]
          /\ pc' = [pc EXCEPT ![p] = "ack", ![Gc] = IF @ = "wait" THEN "wake" ELSE @]
      BY <1>4, Parts DEF SignalWake, CollectorSleeps, call, TypeOK
    <2>2. /\ pc'[p] = "ack" /\ pc'[Gc] = IF pc[Gc] = "wait" THEN "wake" ELSE pc[Gc]
          /\ \A q \in Job \ {p, Gc} : pc'[q] = pc[q]
      BY <2>1
    <2>3. Aside
      BY <2>1, <2>2 DEF Aside
    <2>4. QED
      BY <2>3, AsideMoves
  <1>5. CASE NextNobody(p)
    BY <1>5, NobodyMoves
  <1>6. CASE NextAlive(p) \/ NextWrap(p)
    BY <1>6, NextMoves
  <1>7. CASE NextSkip(p)
    BY <1>7, SkipMoves
  <1>8. CASE SkipSwap(p)
    <2>1. CASE sig = seen[p]
      BY <1>8, <2>1, NextMoves
    <2>2. CASE sig # seen[p]
      <3>1. pc[p] = "skip" /\ pc' = [pc EXCEPT ![p] = "next"] /\ epoch' = epoch /\ sig' = sig
        BY <1>8, <2>2 DEF SkipSwap, Goto
      <3>2. pc'[p] = "next"
        BY <3>1, Parts DEF TypeOK
      <3>3. sig.signal # "COLL"
        BY <3>1, <3>2 DEF NoTornSkip
      <3>4. QED
        BY <3>1, <3>3, NoCollMoves
    <2>3. QED
      BY <2>1, <2>2
  <1>9. QED
    BY <1>1, <1>2, <1>3, <1>4, <1>5, <1>6, <1>7, <1>8 DEF SignalStep

(* A step of a job.                                                        *)
LEMMA JobStepMoves ==
  ASSUME IInv, NEW p \in Job \ {Gc}, JobStep(p)
  PROVE  Moves
  <1>1. CASE Yield(p)
    <2>1. sig' = sig /\ seen' = seen /\ pc[p] \in Elsewhere
      BY <1>1 DEF Yield, Elsewhere, Label, Running, Dying
    <2>2. CASE Collected(p, "run")
      BY <1>1, <2>1, <2>2, CollectedMoves DEF Yield
    <2>3. CASE Goto(p, "run") /\ epoch' = epoch /\ UNCHANGED call
      BY <2>1, <2>3, WalkMoves DEF Elsewhere, Label, Running, Dying, call
    <2>4. CASE Turn(p, "TERM") /\ epoch' = epoch
      BY <2>1, <2>4, TermMoves
    <2>5. QED
      BY <1>1, <2>2, <2>3, <2>4 DEF Yield, Propagate, CallSignal
  <1>2. CASE SpawnThread(p)
    <2>1. /\ epoch' = epoch /\ sig' = sig /\ target' = target /\ seen' = seen
          /\ pc[p] = "spawn" /\ pc \in [Job -> Label] /\ child[p] \in Job
          /\ pc' = [pc EXCEPT ![p] = "run", ![child[p]] = "begin"]
      BY <1>2, Parts DEF SpawnThread, call, TypeOK
    <2>2. PICK c \in Job : c = child[p] /\ pc[c] \in {"none", "done"} /\ c # Gc /\ c # p
      BY <2>1, Parts DEF Claims
    <2>3. /\ pc'[p] = "run" /\ pc'[c] = "begin"
          /\ \A q \in Job \ {p, c} : pc'[q] = pc[q]
      BY <2>1, <2>2
    <2>4. Aside
      BY <2>1, <2>2, <2>3 DEF Aside
    <2>5. QED
      BY <2>4, AsideMoves
  <1>3. CASE Begin(p)
    <2>1. sig'.schedule = sig.schedule /\ sig'.signal = sig.signal
      BY <1>3, Parts, WordFacts DEF Begin
    <2>2. QED
      BY <1>3, <2>1, WalkMoves DEF Begin, Elsewhere, Label, Running, Dying, call
  <1>4. CASE Bail(p) \/ Await(p) \/ Drain(p) \/ UnaliveLoad(p)
    <2>1. /\ pc[p] \in Elsewhere /\ epoch' = epoch /\ sig' = sig /\ target' = target
          /\ \A q \in Job \ {p} : seen'[q] = seen[q]
      BY <1>4, Parts
         DEF Bail, Await, Drain, UnaliveLoad, Elsewhere, Label, Running, Dying, call, TypeOK
    <2>2. \E l \in Elsewhere : Goto(p, l)
      BY <1>4 DEF Bail, Await, Drain, UnaliveLoad, Exit, Elsewhere, Label, Running, Dying
    <2>3. QED
      BY <2>1, <2>2, WalkMoves
  <1>5. CASE AwaitYield(p)
    <2>1. sig' = sig /\ seen' = seen /\ pc[p] \in Elsewhere
      BY <1>5 DEF AwaitYield, Elsewhere, Label, Running, Dying
    <2>2. CASE Collected(p, "await")
      BY <1>5, <2>1, <2>2, CollectedMoves DEF AwaitYield
    <2>3. CASE Goto(p, "await") /\ epoch' = epoch /\ UNCHANGED call
      BY <2>1, <2>3, WalkMoves DEF Elsewhere, Label, Running, Dying, call
    <2>4. CASE Turn(p, "TERM") /\ epoch' = epoch
      BY <2>1, <2>4, TermMoves
    <2>5. QED
      BY <1>5, <2>2, <2>3, <2>4 DEF AwaitYield
  <1>6. CASE Unalive(p)
    <2>1. sig' = sig /\ seen' = seen /\ pc[p] \in Elsewhere
      BY <1>6 DEF Unalive, Elsewhere, Label, Running, Dying
    <2>2. CASE Collected(p, "unload")
      BY <1>6, <2>1, <2>2, CollectedMoves DEF Unalive
    <2>3. CASE Goto(p, "unload") /\ epoch' = epoch /\ UNCHANGED call
      BY <2>1, <2>3, WalkMoves DEF Elsewhere, Label, Running, Dying, call
    <2>4. CASE Turn(p, "TERM") /\ epoch' = epoch
      BY <2>1, <2>4, TermMoves
    <2>5. QED
      BY <1>6, <2>2, <2>3, <2>4 DEF Unalive
  <1>7. CASE UnaliveSwap(p)
    <2>1. /\ pc[p] \in Elsewhere /\ epoch' = epoch /\ target' = target /\ seen' = seen
      BY <1>7 DEF UnaliveSwap, Elsewhere, Label, Running, Dying, call
    <2>2. sig'.schedule = sig.schedule /\ sig'.signal = sig.signal
      BY <1>7, Parts, WordFacts DEF UnaliveSwap
    <2>3. \E l \in Elsewhere : Goto(p, l)
      BY <1>7 DEF UnaliveSwap, Exit, Elsewhere, Label, Running, Dying
    <2>4. QED
      BY <2>1, <2>2, <2>3, WalkMoves
  <1>8. QED
    BY <1>1, <1>2, <1>3, <1>4, <1>5, <1>6, <1>7 DEF JobStep

(* What a job does of its own accord.                                      *)
LEMMA OwnMoves ==
  ASSUME IInv, NEW p \in Job \ {Gc}, Raise(p) \/ SpawnClaim(p) \/ Quit(p)
  PROVE  Moves
  <1>1. /\ pc[p] \in Elsewhere /\ epoch' = epoch /\ target' = target /\ seen' = seen
    BY DEF Raise, SpawnClaim, Quit, Elsewhere, Label, Running, Dying, call
  <1>2. sig'.schedule = sig.schedule /\ sig'.signal = sig.signal
    BY Parts, WordFacts DEF Raise, SpawnClaim, Quit
  <1>3. \E l \in Elsewhere : Goto(p, l)
    BY DEF Raise, CallSignal, SpawnClaim, Quit, Elsewhere, Label, Running, Dying
  <1>4. QED
    BY <1>1, <1>2, <1>3, WalkMoves

(* The end of the engine.                                                  *)
LEMMA DestroyMoves == ASSUME IInv, Destroy \/ DestroyStep PROVE Moves
  <1>1. /\ pc[Main] \in Elsewhere /\ epoch' = epoch /\ target' = target /\ seen' = seen
    BY DEF Destroy, DestroyStep, DestroyCollect, DestroyCollected, DestroyGc, DestroyJoin,
           Elsewhere, Label, Running, Dying, call
  <1>2. sig'.schedule = sig.schedule /\ sig'.signal = sig.signal
    BY Parts, WordFacts
       DEF Destroy, DestroyStep, DestroyCollect, DestroyCollected, DestroyGc, DestroyJoin
  <1>3. \E l \in Elsewhere : Goto(Main, l)
    BY DEF Destroy, DestroyStep, DestroyCollect, DestroyCollected, DestroyGc, DestroyJoin,
           CallSignal, Elsewhere, Label, Running, Dying
  <1>4. QED
    BY <1>1, <1>2, <1>3, WalkMoves

(* A step of the collector.                                                *)
LEMMA GcStepCounts ==
  ASSUME IInv, EpochsCount, GcStep \/ GcWakeSpurious
  PROVE  EpochsCount'
  <1>1. CASE GcLoop \/ GcWakeSpurious
    <2>1. /\ pc[Gc] \in Elsewhere /\ epoch' = epoch /\ target' = target /\ seen' = seen
          /\ sig' = sig
      BY <1>1 DEF GcLoop, GcWakeSpurious, Elsewhere, Label, Running, Dying, call
    <2>2. \E l \in Elsewhere : Goto(Gc, l)
      BY <1>1 DEF GcLoop, GcWakeSpurious, Elsewhere, Label, Running, Dying
    <2>3. QED
      BY <2>1, <2>2, WalkMoves, MovesKeep
  <1>2. CASE GcRead
    <2>1. /\ pc[Gc] \in Elsewhere /\ epoch' = epoch /\ target' = target /\ seen' = seen
          /\ sig' = sig
      BY <1>2 DEF GcRead, Elsewhere, Label, Running, Dying, call
    <2>2. CASE Turn(Gc, "TERM")
      BY <2>1, <2>2, TermMoves, MovesKeep
    <2>3. CASE ~Turn(Gc, "TERM")
      <3>1. \E l \in Elsewhere : Goto(Gc, l)
        BY <1>2, <2>3 DEF GcRead, Elsewhere, Label, Running, Dying
      <3>2. QED
        BY <2>1, <3>1, WalkMoves, MovesKeep
    <2>4. QED
      BY <2>2, <2>3
  <1>3. QED
    BY <1>1, <1>2, AckMoves, GcCollectMoves, GcClearCounts, MovesKeep DEF GcStep

(* Every step but a torn skip keeps the count.                             *)
LEMMA EpochStep ==
  ASSUME IInv, EpochsCount, [Next]_vars, [NoTornSkip]_vars
  PROVE  EpochsCount'
  <1>1. CASE UNCHANGED vars
    <2>1. Aside
      BY <1>1 DEF Aside, vars, call
    <2>2. QED
      BY <2>1, AsideMoves, MovesKeep
  <1>2. CASE Next /\ NoTornSkip
    BY <1>2, SignalStepMoves, JobStepMoves, OwnMoves, DestroyMoves, GcStepCounts, MovesKeep
       DEF Next
  <1>3. QED
    BY <1>1, <1>2

(* A torn skip is all that can put the epochs apart.  In a behaviour in    *)
(* which no swap of gab_signext fails after it has counted the dead jobs   *)
(* of a collection, all jobs are at the collector's epoch when it collects *)
(* (__gab_gcassert_workers_have_epoch), whoever spawns, quits or raises.   *)
(* Run signal_double_skip shows that a torn skip does put them apart.      *)
THEOREM EpochsAgreeUntorn == Spec /\ [][NoTornSkip]_vars => []EpochsAgree
  <1>1. Init => EpochsCount
    <2> SUFFICES ASSUME Init PROVE EpochsCount
      OBVIOUS
    <2>1. \A p \in Job : epoch[p] = 1 /\ ~Counted(p)
      BY DEF Init, Counted
    <2>2. 1 \in Nat
      OBVIOUS
    <2>3. QED
      BY <2>1, <2>2 DEF EpochsCount
  <1>2. IInv /\ EpochsCount /\ [Next]_vars /\ [NoTornSkip]_vars => EpochsCount'
    BY EpochStep
  <1>3. IInv /\ EpochsCount => EpochsAgree
    <2> SUFFICES ASSUME IInv, EpochsCount, pc[Gc] = "clear", sig.signal = "COLL", NEW p \in Job
                 PROVE  epoch[p] % 3 = epoch[Gc] % 3
      BY DEF EpochsAgree
    <2>1. PICK e \in Nat : \A q \in Job : epoch[q] = IF Counted(q) THEN e + 1 ELSE e
      BY DEF EpochsCount
    <2>2. epoch[p] = e + 1 /\ epoch[Gc] = e + 1
      BY <2>1, AllCounted
    <2>3. QED
      BY <2>2
  <1>4. QED
    BY <1>1, <1>2, <1>3, Inductive, PTL DEF Spec
===============================================================================
