---------------------------- MODULE ChannelProofs ----------------------------
(* Theorems about Channel and their proofs: its invariants, and that it    *)
(* implements Rendezvous.                                                  *)
EXTENDS Channel, TLAPS

USE ConstantsAssumption

LEMMA IdFacts ==
  /\ \A p \in Process, c \in 1..MaxCalls : <<p, c>> \in Id
  /\ \A i \in Id : i # None
  /\ \A p \in Process : p # None
  BY DEF Id, Process

LEMMA TypeInit == Init => TypeOK
  <1> SUFFICES ASSUME Init
               PROVE  TypeOK
    OBVIOUS
  <1>1. epoch \in 1..MaxEpoch /\ data \in Id \cup {None} /\ len \in Nat
    BY DEF Init
  <1>2. pc \in [Process -> Label] /\ outcome \in [Id -> Kind]
    BY DEF Init, Label, Kind
  <1>3. /\ call \in [Process -> 0..MaxCalls]
        /\ token \in [Process -> 0..MaxEpoch]
        /\ tries \in [Process -> Nat \cup {Forever}]
    BY DEF Init
  <1>4. QED
    BY <1>1, <1>2, <1>3 DEF Init, TypeOK

LEMMA TypeStep == TypeOK /\ CallInv /\ SlotInv /\ [Next]_vars => TypeOK'
  <1> SUFFICES ASSUME TypeOK, CallInv, SlotInv, [Next]_vars
               PROVE  TypeOK'
    OBVIOUS
  <1> USE DEF TypeOK, slot, local, Goto
  <1> DEFINE Busy(p) == pc[p] \notin {"idle", "dead"}
  <1>cur. \A p \in Process : Busy(p) => cur(p) \in Id
    BY IdFacts DEF CallInv, cur
  <1>ret. ASSUME NEW p \in Process, NEW k \in Kind, Return(p, k)
          PROVE  pc' \in [Process -> Label] /\ outcome' \in [Id -> Kind]
    BY <1>ret DEF Return, Label
  <1>kind. {"valid", "taken", "timeout", "undefined", "invalid", "terminated"}
           \subseteq Kind
    BY DEF Kind
  <1>1. CASE UNCHANGED vars
    BY <1>1 DEF vars
  <1>2. ASSUME NEW p \in Process, BeginPut(p) \/ BeginTake(p)
        PROVE  TypeOK'
    <2>1. call[p] + 1 \in 1..MaxCalls
      BY <1>2 DEF BeginPut, BeginTake, Begin
    <2>2. tries' \in [Process -> Nat \cup {Forever}]
      BY <1>2 DEF BeginPut, BeginTake, Begin
    <2>3. size' \in [Process -> Nat] /\ pc' \in [Process -> Label]
      BY <1>2 DEF BeginPut, BeginTake, Begin, Label
    <2>4. outcome' \in [Id -> Kind]
      BY <1>2 DEF BeginPut, BeginTake, Begin, Kind
    <2>5. QED
      BY <1>2, <2>1, <2>2, <2>3, <2>4 DEF BeginPut, BeginTake, Begin
  <1>3. ASSUME NEW p \in Process, PutEnter(p) \/ TakeEnter(p)
        PROVE  TypeOK'
    BY <1>3, <1>ret, <1>kind DEF PutEnter, TakeEnter, Enter, Undefined, Label
  <1>4. ASSUME NEW p \in Process, PutTop(p) \/ TakeTop(p)
        PROVE  TypeOK'
    BY <1>4, <1>ret, <1>kind DEF PutTop, TakeTop, Top, Invalid, Label
  <1>5. ASSUME NEW p \in Process, PutPoll(p) \/ TakePoll(p) \/ MatchPoll(p)
        PROVE  TypeOK'
    BY <1>5, <1>ret, <1>kind DEF PutPoll, TakePoll, MatchPoll, Poll, Label
  <1>6. ASSUME NEW p \in Process, PutWait(p) \/ TakeWait(p) \/ MatchWait(p)
        PROVE  TypeOK'
    <2>1. pc' \in [Process -> Label] /\ outcome' \in [Id -> Kind]
      BY <1>6, <1>ret, <1>kind
         DEF PutWait, TakeWait, MatchWait, Wait, Undefined, TimedOut, Invalid, Label
    <2>2. sofar' \in [Process -> Nat]
      <3>1. sofar' = sofar \/ sofar' = [sofar EXCEPT ![p] = @ + 1]
        BY <1>6, Zenon DEF PutWait, TakeWait, MatchWait, Wait, Count
      <3>2. QED
        BY <3>1
    <2>3. QED
      BY <1>6, <2>1, <2>2 DEF PutWait, TakeWait, MatchWait, Wait
  <1>7. ASSUME NEW p \in Process, PutLock(p) \/ TakeLock(p) \/ AbandonLock(p)
        PROVE  TypeOK'
    BY <1>7 DEF PutLock, TakeLock, TryLock, AbandonLock, Label
  <1>8. ASSUME NEW p \in Process, PutStore(p)
        PROVE  TypeOK'
    BY <1>8, <1>cur DEF PutStore, Label
  <1>9. ASSUME NEW p \in Process, PutEpoch(p)
        PROVE  TypeOK'
    BY <1>9 DEF PutEpoch, EpochInc, Label
  <1>10. ASSUME NEW p \in Process, AbandonCheck(p) \/ AbandonEpoch(p) \/ Resume(p)
         PROVE  TypeOK'
    BY <1>10, <1>ret, <1>kind
       DEF AbandonCheck, AbandonEpoch, Resume, Clear, EpochInc, Label
  <1>11. ASSUME NEW p \in Process, TakeSwap(p)
         PROVE  TypeOK'
    BY <1>11 DEF TakeSwap, Clear, Label
  <1>12. ASSUME NEW p \in Process, TakeCopy(p)
         PROVE  TypeOK'
    <2>1. src[p] \in Id
      BY <1>12 DEF TakeCopy, SlotInv
    <2>2. QED
      BY <1>12, <2>1, <1>ret, <1>kind DEF TakeCopy, EpochInc
  <1>13. ASSUME NEW p \in Process, Close(p) \/ Terminate(p)
         PROVE  TypeOK'
    BY <1>13 DEF Close, Terminate
  <1>14. QED
    BY <1>1, <1>2, <1>3, <1>4, <1>5, <1>6, <1>7, <1>8, <1>9, <1>10, <1>11,
       <1>12, <1>13 DEF Next, Step, PutStep, TakeStep

-----------------------------------------------------------------------------
(* Steps that leave the slot alone keep what can be received.              *)
LEMMA OfferedFrame ==
  ASSUME TypeOK, NEW p \in Process, NEW l,
         l # "take_copy", pc[p] # "take_copy",
         pc' = [pc EXCEPT ![p] = l], data' = data,
         \A q \in Process \ {p} : src'[q] = src[q]
  PROVE  \A i \in Id : Offered(i)' <=> Offered(i)
  BY DEF TypeOK, Offered

(* One value at most can be received at any time. *)
LEMMA OfferedUnique ==
  ASSUME TypeOK, LockInv, SlotInv, NEW i \in Id, NEW j \in Id, Offered(i), Offered(j)
  PROVE  i = j
  BY DEF TypeOK, LockInv, SlotInv, Offered, Critical

(* A step of p inside its call that touches neither slot nor outcome. *)
LEMMA QuietMove ==
  ASSUME IInv, TypeOK', NEW p \in Process, NEW l \in Label,
         pc[p] \notin Critical \cup {"idle", "dead"},
         l \notin Critical \cup {"idle", "dead"},
         pc' = [pc EXCEPT ![p] = l],
         UNCHANGED <<closed, lock, epoch, data, len, call, size, token, src,
                     outcome, copies>>,
         l \in PutLabel <=> pc[p] \in PutLabel,
         l \in Matching <=> pc[p] \in Matching,
         l = "parked" => p \in Fiber /\ token[p] = 0 /\ closed,
         pc[p] # "parked"
  PROVE  IInv'
  <1> USE DEF IInv, TypeOK
  <1>1. \A i \in Id : Offered(i)' <=> Offered(i)
    BY OfferedFrame DEF Critical
  <1>2. \A q \in Process : cur(q)' = cur(q)
    BY DEF cur
  <1>3. \A q \in Process : Waiting(q)' <=> Waiting(q)
    BY DEF Waiting
  <1>4. \A q \in Process : pc[q] \notin {"idle", "dead"} => cur(q) \in Id
    BY IdFacts DEF CallInv, cur
  <1>5. LockInv'
    BY DEF LockInv, Critical
  <1>6. CallInv'
    BY <1>2 DEF CallInv
  <1>7. SlotInv'
    BY <1>2 DEF SlotInv, Putting, Critical
  <1>8. TokenInv'
    BY <1>1, <1>2, <1>3, <1>4 DEF TokenInv, Putting, Waiting, Matching, Critical
  <1>9. CopyInv'
    BY <1>1 DEF CopyInv
  <1>10. FreshInv'
    BY <1>1, <1>2, <1>3, <1>4 DEF FreshInv, Critical
  <1>11. QED
    BY <1>5, <1>6, <1>7, <1>8, <1>9, <1>10

(* A step by which p leaves its call without touching the slot. *)
LEMMA QuietReturn ==
  ASSUME IInv, TypeOK', NEW p \in Process, NEW k \in Kind \ {"unused", "open"},
         pc[p] \notin Critical \cup {"idle", "dead"},
         Return(p, k),
         UNCHANGED <<closed, lock, epoch, data, len, call, size, token, src, copies>>,
         k = "valid" => copies[cur(p)] = 1 \/ (closed /\ p \in Fiber),
         k = "timeout" => copies[cur(p)] = 0 /\ ~Offered(cur(p))
  PROVE  IInv'
  <1> USE DEF IInv, TypeOK
  <1> DEFINE l == IF k = "terminated" THEN "dead" ELSE "idle"
  <1>0. pc' = [pc EXCEPT ![p] = l] /\ outcome' = [outcome EXCEPT ![cur(p)] = k]
    BY DEF Return, Goto
  <1>1. \A i \in Id : Offered(i)' <=> Offered(i)
    BY <1>0, OfferedFrame DEF Critical
  <1>2. \A q \in Process : cur(q)' = cur(q)
    BY DEF cur
  <1>3. \A q \in Process : pc'[q] \notin {"idle", "dead"} =>
           q # p /\ pc'[q] = pc[q] /\ (Waiting(q)' <=> Waiting(q))
    BY <1>0 DEF Waiting
  <1>4. \A q \in Process : pc[q] \notin {"idle", "dead"} => cur(q) \in Id
    BY IdFacts DEF CallInv, cur
  <1>5. LockInv'
    BY <1>0 DEF LockInv, Critical
  <1>6. CallInv'
    BY <1>0, <1>2, <1>4 DEF CallInv, cur
  <1>7. SlotInv'
    BY <1>0, <1>2, <1>3 DEF SlotInv, Putting, PutLabel
  <1>8. TokenInv'
    BY <1>0, <1>1, <1>2, <1>3, <1>4 DEF TokenInv, Putting, PutLabel, Waiting, Matching
  <1>9. CopyInv'
    BY <1>0, <1>1, <1>4 DEF CopyInv, cur
  <1>10. FreshInv'
    BY <1>0, <1>1, <1>2, <1>3, <1>4 DEF FreshInv
  <1>11. QED
    BY <1>5, <1>6, <1>7, <1>8, <1>9, <1>10

LEMMA BeginStep ==
  ASSUME IInv, TypeOK', 0 \notin Lens, NEW p \in Process, BeginPut(p) \/ BeginTake(p)
  PROVE  IInv'
  <1> USE DEF IInv, TypeOK
  <1> DEFINE c == call[p] + 1
             l == pc'[p]
  <1>0. /\ c \in 1..MaxCalls /\ <<p, c>> \in Id
        /\ l \in {"put_enter", "take_enter"} /\ pc' = [pc EXCEPT ![p] = l]
        /\ call' = [call EXCEPT ![p] = c] /\ cur(p)' = <<p, c>>
        /\ outcome' = [outcome EXCEPT ![<<p, c>>] = "open"]
        /\ pc[p] = "idle"
    <2>1. c \in 1..MaxCalls /\ <<p, c>> \in Id
      BY IdFacts DEF BeginPut, BeginTake, Begin
    <2>2. call' = [call EXCEPT ![p] = c] /\ call'[p] = c /\ pc[p] = "idle"
      BY DEF BeginPut, BeginTake, Begin
    <2>3. l \in {"put_enter", "take_enter"} /\ pc' = [pc EXCEPT ![p] = l]
      BY DEF BeginPut, BeginTake, Goto
    <2>4. outcome' = [outcome EXCEPT ![<<p, c>>] = "open"]
      BY <2>2 DEF BeginPut, BeginTake, Begin
    <2>5. QED
      BY <2>1, <2>2, <2>3, <2>4 DEF cur
  <1>1. \A i \in Id : Offered(i)' <=> Offered(i)
    BY <1>0, OfferedFrame DEF BeginPut, BeginTake, Begin, slot
  <1>2. \A q \in Process \ {p} : /\ cur(q)' = cur(q) /\ pc'[q] = pc[q]
                                 /\ token'[q] = token[q] /\ src'[q] = src[q]
                                 /\ size'[q] = size[q] /\ (Waiting(q)' <=> Waiting(q))
    BY <1>0 DEF cur, BeginPut, BeginTake, Begin, Waiting
  <1>3. outcome[<<p, c>>] = "unused"
    BY <1>0 DEF CallInv
  <1>4. ~Waiting(p)' /\ token'[p] = 0 /\ (l = "put_enter" => size'[p] \in Lens)
    <2>1. token' = [token EXCEPT ![p] = 0] /\ ~Waiting(p)'
      BY <1>0 DEF Waiting, Matching, BeginPut, BeginTake, Begin
    <2>2. CASE BeginPut(p)
      BY <2>1, <2>2 DEF BeginPut
    <2>3. CASE BeginTake(p)
      BY <2>1, <2>3 DEF BeginTake, Goto
    <2>4. QED
      BY <2>2, <2>3
  <1>5. UNCHANGED <<closed, lock, epoch, data, len, copies>>
    BY DEF BeginPut, BeginTake, Begin, slot
  <1>6. \A q \in Process : pc[q] \notin {"idle", "dead"} => cur(q) \in Id
    BY IdFacts DEF CallInv, cur
  <1>7. LockInv'
    BY <1>0, <1>5 DEF LockInv, Critical
  <1>8. CallInv'
    <2>1. ASSUME NEW q \in Process, pc'[q] \notin {"idle", "dead"}
          PROVE  call'[q] > 0 /\ outcome'[cur(q)'] = "open"
      <3>1. CASE q = p
        BY <1>0, <3>1
      <3>2. CASE q # p
        <4>1. /\ pc'[q] = pc[q] /\ call'[q] = call[q] /\ cur(q)' = cur(q)
              /\ cur(q) \in Id /\ cur(q) # <<p, c>>
          BY <1>0, <1>2, <1>6, <2>1, <3>2 DEF cur
        <4>2. outcome'[cur(q)] = outcome[cur(q)]
          BY <1>0, <4>1
        <4>3. QED
          BY <2>1, <4>1, <4>2 DEF CallInv
      <3>3. QED
        BY <3>1, <3>2
    <2>2. ASSUME NEW q \in Process, NEW d \in 1..MaxCalls, d > call'[q]
          PROVE  outcome'[<<q, d>>] = "unused"
      <3>1. d > call[q] /\ <<q, d>> \in Id /\ <<q, d>> # <<p, c>>
        BY <1>0, <2>2, IdFacts
      <3>2. QED
        BY <1>0, <3>1 DEF CallInv
    <2>3. QED
      BY <2>1, <2>2 DEF CallInv
  <1>9. SlotInv'
    BY <1>0, <1>2, <1>4, <1>5 DEF SlotInv, Putting, PutLabel
  <1>10. TokenInv'
    BY <1>0, <1>1, <1>2, <1>4, <1>5, <1>6 DEF TokenInv, Putting, PutLabel, Matching, Waiting
  <1>11. CopyInv'
    BY <1>0, <1>1, <1>5 DEF CopyInv
  <1>12. FreshInv'
    BY <1>0, <1>1, <1>2, <1>3, <1>5, <1>6 DEF FreshInv, CopyInv
  <1>13. QED
    BY <1>7, <1>8, <1>9, <1>10, <1>11, <1>12

(* Taking the spinlock. *)
LEMMA LockStep ==
  ASSUME IInv, TypeOK', NEW p \in Process, NEW l \in {"put_store", "put_recheck", "take_swap"},
         lock = None, lock' = p, pc' = [pc EXCEPT ![p] = l],
         pc[p] \in {"put_lock", "put_abandon", "take_lock"},
         l = "put_store" <=> pc[p] = "put_lock",
         l = "put_recheck" <=> pc[p] = "put_abandon",
         UNCHANGED <<closed, epoch, data, len, local, outcome, copies>>
  PROVE  IInv'
  <1> USE DEF IInv, TypeOK, local
  <1>1. \A i \in Id : Offered(i)' <=> Offered(i)
    BY OfferedFrame DEF Label
  <1>2. \A q \in Process : cur(q)' = cur(q) /\ (Waiting(q)' <=> Waiting(q))
    BY DEF cur, Waiting, Matching
  <1>3. \A q \in Process : pc[q] \notin {"idle", "dead"} => cur(q) \in Id
    BY IdFacts DEF CallInv, cur
  <1>4. LockInv'
    BY IdFacts DEF LockInv, Critical
  <1>5. CallInv' /\ CopyInv'
    BY <1>1, <1>2 DEF CallInv, CopyInv
  <1>6. SlotInv'
    BY <1>2 DEF SlotInv, Putting, PutLabel
  <1>7. TokenInv'
    BY <1>1, <1>2, <1>3 DEF TokenInv, Putting, PutLabel, Waiting, Matching
  <1>8. FreshInv'
    BY <1>1, <1>2, <1>3 DEF FreshInv
  <1>9. QED
    BY <1>4, <1>5, <1>6, <1>7, <1>8

LEMMA StoreStep ==
  ASSUME IInv, TypeOK', NEW p \in Process, PutStore(p)
  PROVE  IInv'
  <1> USE DEF IInv, TypeOK, local, Goto
  <1>1. \A q \in Process : cur(q)' = cur(q) /\ (Waiting(q)' <=> Waiting(q))
    BY DEF cur, Waiting, Matching, PutStore
  <1>2. \A q \in Process : pc[q] \notin {"idle", "dead"} => cur(q) \in Id
    BY IdFacts DEF CallInv, cur
  <1>3. LockInv'
    BY IdFacts DEF LockInv, Critical, PutStore
  <1>4. CallInv'
    BY <1>1 DEF CallInv, PutStore
  <1>5. CASE len # 0 \/ data # None
    <2>0. /\ pc' = [pc EXCEPT ![p] = "put_top"] /\ UNCHANGED <<data, len>>
      BY <1>5 DEF PutStore
    <2>1. \A i \in Id : Offered(i)' <=> Offered(i)
      BY <2>0, OfferedFrame DEF PutStore
    <2>2. SlotInv' /\ CopyInv'
      BY <1>1, <2>0, <2>1 DEF SlotInv, CopyInv, Putting, PutLabel, PutStore
    <2>3. TokenInv'
      BY <1>1, <1>2, <2>0, <2>1 DEF TokenInv, Putting, PutLabel, Waiting, Matching, PutStore
    <2>4. FreshInv'
      BY <1>1, <1>2, <2>0, <2>1 DEF FreshInv, PutStore
    <2>5. QED
      BY <1>3, <1>4, <2>2, <2>3, <2>4
  <1>6. CASE len = 0 /\ data = None
    <2>0. /\ pc' = [pc EXCEPT ![p] = "put_epoch"] /\ data' = cur(p) /\ len' = size[p]
          /\ pc[p] = "put_store"
      BY <1>6 DEF PutStore
    <2>1. \A i \in Id : ~Offered(i) /\ (Offered(i)' <=> i = cur(p))
      BY <1>2, <1>6, <2>0, IdFacts DEF PutStore, Offered, LockInv, Critical
    <2>2. copies[cur(p)] = 0 /\ size[p] > 0 /\ outcome[cur(p)] = "open"
      BY <2>0 DEF FreshInv, Waiting, Matching, SlotInv, Putting, PutLabel, CallInv
    <2>3. \A q \in Process \ {p} : cur(q) # cur(p)
      BY DEF cur
    <2>4. \A q \in Process : pc'[q] # "take_copy"
      BY <2>0 DEF LockInv, Critical
    <2>5. SlotInv'
      BY <1>1, <1>2, <2>0, <2>2, <2>4, IdFacts DEF SlotInv, Putting, PutLabel, LockInv, Critical, PutStore
    <2>6. CopyInv'
      BY <1>1, <2>1, <2>2 DEF CopyInv, PutStore
    <2>7. TokenInv'
      BY <1>1, <1>2, <2>0, <2>1, <2>3 DEF TokenInv, Putting, PutLabel, Waiting, Matching, PutStore
    <2>8. FreshInv'
      BY <1>1, <1>2, <2>0, <2>1, <2>3 DEF FreshInv, PutStore
    <2>9. QED
      BY <1>3, <1>4, <2>5, <2>6, <2>7, <2>8
  <1>7. QED
    BY <1>5, <1>6 DEF PutStore

LEMMA EpochStep ==
  ASSUME IInv, TypeOK', NEW p \in Process, PutEpoch(p)
  PROVE  IInv'
  <1> USE DEF IInv, TypeOK, Goto
  <1>0. /\ pc[p] = "put_epoch" /\ data = cur(p) /\ lock = p /\ epoch' = epoch + 2
        /\ pc' = [pc EXCEPT ![p] = IF p \in Fiber THEN "parked" ELSE "put_match"]
        /\ token' = [token EXCEPT ![p] = epoch + 2] /\ lock' = None
        /\ UNCHANGED <<closed, data, len, term, call, tries, sofar, size, src,
                       outcome, copies>>
    BY DEF PutEpoch, EpochInc, SlotInv, LockInv, Critical
  <1>1. \A i \in Id : Offered(i)' <=> Offered(i)
    BY <1>0, OfferedFrame
  <1>2. cur(p) \in Id /\ Offered(cur(p)) /\ token'[p] = epoch'
    BY <1>0, IdFacts DEF CallInv, cur, Offered
  <1>3. \A q \in Process : cur(q)' = cur(q)
    BY <1>0 DEF cur
  <1>4. \A q \in Process \ {p} : (Waiting(q)' <=> Waiting(q)) /\ token'[q] = token[q]
    BY <1>0 DEF Waiting
  <1>5. Waiting(p)'
    BY <1>0 DEF Waiting, Matching
  <1>6. \A q \in Process : pc[q] \notin {"idle", "dead"} => cur(q) \in Id
    BY IdFacts DEF CallInv, cur
  <1>7. \A q \in Process \ {p} : Waiting(q) => epoch # token[q]
    <2> SUFFICES ASSUME NEW q \in Process \ {p}, Waiting(q), epoch = token[q]
                 PROVE  FALSE
      OBVIOUS
    <2>1. cur(q) \in Id /\ Offered(cur(q))
      BY <1>6 DEF TokenInv, Waiting, Matching
    <2>2. cur(q) = cur(p)
      BY <1>2, <2>1, OfferedUnique
    <2>3. QED
      BY <2>2 DEF cur
  <1>8. LockInv'
    BY <1>0, IdFacts DEF LockInv, Critical
  <1>9. CallInv' /\ CopyInv'
    BY <1>0, <1>1, <1>3 DEF CallInv, CopyInv
  <1>10. SlotInv'
    BY <1>0, <1>3 DEF SlotInv, Putting, PutLabel
  <1>11. TokenInv'
    BY <1>0, <1>1, <1>2, <1>3, <1>4, <1>5, <1>6, <1>7
       DEF TokenInv, Putting, PutLabel, Matching, Waiting
  <1>12. FreshInv'
    BY <1>0, <1>1, <1>3, <1>4, <1>5, <1>6 DEF FreshInv
  <1>13. QED
    BY <1>8, <1>9, <1>10, <1>11, <1>12

LEMMA AbandonCheckStep ==
  ASSUME IInv, TypeOK', NEW p \in Process, AbandonCheck(p)
  PROVE  IInv'
  <1> USE DEF IInv, TypeOK, Goto, local
  <1>0. pc[p] = "put_recheck" /\ lock = p /\ cur(p) \in Id /\ Waiting(p)
    BY IdFacts DEF AbandonCheck, LockInv, Critical, CallInv, cur, Waiting, Matching
  <1>1. \A q \in Process : cur(q)' = cur(q)
    BY DEF cur, AbandonCheck
  <1>2. \A q \in Process \ {p} : pc'[q] = pc[q] /\ (Waiting(q)' <=> Waiting(q))
    BY DEF AbandonCheck, Return, Waiting
  <1>3. \A q \in Process : pc[q] \notin {"idle", "dead"} => cur(q) \in Id
    BY IdFacts DEF CallInv, cur
  <1>4. ~Waiting(p)'
    BY DEF AbandonCheck, Return, Waiting, Matching
  <1>5. CASE epoch # token[p]
    <2>0. /\ pc' = [pc EXCEPT ![p] = "idle"] /\ lock' = None
          /\ outcome' = [outcome EXCEPT ![cur(p)] = "valid"]
          /\ UNCHANGED <<closed, epoch, data, len, term, local, copies>>
      BY <1>5 DEF AbandonCheck, Return
    <2>1. \A i \in Id : Offered(i)' <=> Offered(i)
      BY <1>0, <2>0, OfferedFrame
    <2>2. copies[cur(p)] = 1
      BY <1>0, <1>5 DEF TokenInv
    <2>3. LockInv' /\ SlotInv'
      BY <1>0, <1>1, <2>0, IdFacts DEF LockInv, SlotInv, Critical, Putting, PutLabel
    <2>4. CallInv'
      BY <1>0, <1>1, <1>3, <2>0 DEF CallInv, cur
    <2>5. TokenInv'
      BY <1>1, <1>2, <1>3, <2>0, <2>1, <1>4 DEF TokenInv, Putting, PutLabel, Waiting, Matching
    <2>6. CopyInv'
      BY <1>0, <2>0, <2>1, <2>2 DEF CopyInv
    <2>7. FreshInv'
      BY <1>1, <1>2, <1>3, <2>0, <2>1 DEF FreshInv
    <2>8. QED
      BY <2>3, <2>4, <2>5, <2>6, <2>7
  <1>6. CASE epoch = token[p]
    <2>0. /\ pc' = [pc EXCEPT ![p] = "put_reset"] /\ data' = None /\ len' = 0
          /\ UNCHANGED <<closed, epoch, lock, outcome, term, local, copies>>
      BY <1>6 DEF AbandonCheck, Clear
    <2>1. \A q \in Process : pc'[q] # "take_copy" /\ pc[q] # "take_copy"
      BY <1>0, <2>0 DEF LockInv, Critical
    <2>2. Offered(cur(p)) /\ copies[cur(p)] = 0
      BY <1>0, <1>6 DEF TokenInv, CopyInv
    <2>3. \A i \in Id : ~Offered(i)' /\ (Offered(i) => i = cur(p))
      BY <1>0, <2>0, <2>1, <2>2, IdFacts, OfferedUnique DEF Offered
    <2>4. \A q \in Process \ {p} : cur(q) # cur(p)
      BY DEF cur
    <2>5. LockInv' /\ SlotInv'
      BY <1>0, <1>1, <2>0, <2>1, IdFacts DEF LockInv, SlotInv, Critical, Putting, PutLabel
    <2>6. CallInv' /\ CopyInv'
      BY <1>0, <1>1, <2>0, <2>3 DEF CallInv, CopyInv
    <2>7. TokenInv'
      BY <1>0, <1>1, <1>2, <1>3, <1>4, <2>0, <2>3, <2>4
         DEF TokenInv, Putting, PutLabel, Waiting, Matching
    <2>8. FreshInv'
      BY <1>0, <1>1, <1>2, <1>3, <2>0, <2>2, <2>3 DEF FreshInv
    <2>9. QED
      BY <2>5, <2>6, <2>7, <2>8
  <1>7. QED
    BY <1>5, <1>6

LEMMA AbandonEpochStep ==
  ASSUME IInv, TypeOK', NEW p \in Process, AbandonEpoch(p)
  PROVE  IInv'
  <1> USE DEF IInv, TypeOK, Goto, local
  <1>0. /\ pc[p] = "put_reset" /\ lock = p /\ cur(p) \in Id /\ data = None
        /\ pc' = [pc EXCEPT ![p] = "idle"] /\ lock' = None /\ epoch' = epoch + 2
        /\ outcome' = [outcome EXCEPT ![cur(p)] = "timeout"]
        /\ UNCHANGED <<closed, data, len, term, local, copies>>
    BY IdFacts DEF AbandonEpoch, EpochInc, Return, LockInv, Critical, CallInv, cur, SlotInv
  <1>1. \A q \in Process : cur(q)' = cur(q)
    BY <1>0 DEF cur
  <1>2. \A q \in Process \ {p} : pc'[q] = pc[q] /\ (Waiting(q)' <=> Waiting(q))
    BY <1>0 DEF Waiting
  <1>3. \A q \in Process : pc[q] \notin {"idle", "dead"} => cur(q) \in Id
    BY IdFacts DEF CallInv, cur
  <1>4. \A q \in Process : pc[q] # "take_copy" /\ pc'[q] # "take_copy"
    BY <1>0 DEF LockInv, Critical
  <1>5. \A i \in Id : ~Offered(i) /\ ~Offered(i)'
    BY <1>0, <1>4, IdFacts DEF Offered
  <1>6. \A q \in Process : Waiting(q) => epoch # token[q]
    BY <1>3, <1>5 DEF TokenInv, Waiting, Matching
  <1>7. copies[cur(p)] = 0
    BY <1>0 DEF FreshInv, Waiting, Matching
  <1>8. LockInv' /\ SlotInv'
    BY <1>0, <1>1, <1>4, IdFacts DEF LockInv, SlotInv, Critical, Putting, PutLabel
  <1>9. CallInv'
    BY <1>0, <1>1, <1>3 DEF CallInv, cur
  <1>10. TokenInv'
    BY <1>0, <1>1, <1>2, <1>3, <1>5, <1>6 DEF TokenInv, Putting, PutLabel, Waiting, Matching
  <1>11. CopyInv'
    BY <1>0, <1>5, <1>7 DEF CopyInv
  <1>12. FreshInv'
    BY <1>0, <1>1, <1>2, <1>3, <1>5 DEF FreshInv
  <1>13. QED
    BY <1>8, <1>9, <1>10, <1>11, <1>12

LEMMA SwapStep ==
  ASSUME IInv, TypeOK', NEW p \in Process, TakeSwap(p)
  PROVE  IInv'
  <1> USE DEF IInv, TypeOK, Goto
  <1>0. /\ pc[p] = "take_swap" /\ lock = p /\ cur(p) \in Id /\ data' = None /\ len' = 0
        /\ UNCHANGED <<closed, epoch, term, call, tries, sofar, size, token,
                       outcome, copies>>
    BY IdFacts DEF TakeSwap, Clear, LockInv, Critical, CallInv, cur
  <1>1. \A q \in Process : cur(q)' = cur(q)
    BY <1>0 DEF cur
  <1>2. \A q \in Process : Waiting(q)' <=> Waiting(q)
    BY <1>0 DEF Waiting, Matching, TakeSwap
  <1>3. \A q \in Process : pc[q] \notin {"idle", "dead"} => cur(q) \in Id
    BY IdFacts DEF CallInv, cur
  <1>4. \A q \in Process : pc[q] # "take_copy" /\ (q # p => pc'[q] = pc[q])
    BY <1>0 DEF LockInv, Critical, TakeSwap
  <1>5. \A i \in Id : Offered(i)' <=> Offered(i)
    <2>1. CASE data # None
      <3>1. /\ pc' = [pc EXCEPT ![p] = "take_copy"] /\ src' = [src EXCEPT ![p] = data]
        BY <2>1 DEF TakeSwap, SlotInv
      <3>2. QED
        BY <1>0, <1>4, <3>1, IdFacts DEF Offered
    <2>2. CASE data = None
      <3>1. pc' = [pc EXCEPT ![p] = "take_top"] /\ src' = src
        BY <2>2 DEF TakeSwap
      <3>2. QED
        BY <1>0, <1>4, <2>2, <3>1, IdFacts DEF Offered
    <2>3. QED
      BY <2>1, <2>2
  <1>6. LockInv'
    BY <1>0, IdFacts DEF LockInv, Critical, TakeSwap
  <1>7. CallInv' /\ CopyInv'
    BY <1>0, <1>1, <1>4, <1>5 DEF CallInv, CopyInv
  <1>8. SlotInv'
    BY <1>0, <1>1, <1>4 DEF SlotInv, Putting, PutLabel, TakeSwap, LockInv, Critical
  <1>9. TokenInv'
    BY <1>0, <1>1, <1>2, <1>3, <1>4, <1>5
       DEF TokenInv, Putting, PutLabel, Waiting, Matching, TakeSwap
  <1>10. FreshInv'
    BY <1>0, <1>1, <1>2, <1>3, <1>4, <1>5 DEF FreshInv
  <1>11. QED
    BY <1>6, <1>7, <1>8, <1>9, <1>10

LEMMA CopyStep ==
  ASSUME IInv, TypeOK', NEW p \in Process, TakeCopy(p)
  PROVE  IInv'
  <1> USE DEF IInv, TypeOK, Goto, local
  <1> DEFINE i == src[p]
  <1>0. /\ pc[p] = "take_copy" /\ lock = p /\ cur(p) \in Id /\ i \in Id /\ data = None
        /\ pc' = [pc EXCEPT ![p] = "idle"] /\ lock' = None /\ epoch' = epoch + 2
        /\ outcome' = [outcome EXCEPT ![cur(p)] = "taken"]
        /\ copies' = [copies EXCEPT ![i] = copies[i] + 1]
        /\ UNCHANGED <<closed, data, len, term, local>>
    BY IdFacts DEF TakeCopy, EpochInc, Return, LockInv, Critical, CallInv, cur, SlotInv
  <1>1. \A q \in Process : cur(q)' = cur(q)
    BY <1>0 DEF cur
  <1>2. \A q \in Process \ {p} : pc'[q] = pc[q] /\ (Waiting(q)' <=> Waiting(q))
    BY <1>0 DEF Waiting
  <1>3. \A q \in Process : pc[q] \notin {"idle", "dead"} => cur(q) \in Id
    BY IdFacts DEF CallInv, cur
  <1>4. \A q \in Process : pc'[q] # "take_copy" /\ (pc[q] = "take_copy" => q = p)
    BY <1>0 DEF LockInv, Critical
  <1>5. Offered(i) /\ copies[i] = 0
    BY <1>0 DEF Offered, CopyInv
  <1>6. \A j \in Id : ~Offered(j)' /\ (Offered(j) => j = i)
    BY <1>0, <1>4, <1>5, IdFacts, OfferedUnique DEF Offered
  <1>7. \A q \in Process : Waiting(q) =>
           /\ cur(q) = i => epoch = token[q]
           /\ cur(q) # i => epoch # token[q]
    BY <1>3, <1>5, <1>6 DEF TokenInv, Waiting, Matching
  <1>8. LockInv' /\ SlotInv'
    BY <1>0, <1>1, <1>4, IdFacts DEF LockInv, SlotInv, Critical, Putting, PutLabel
  <1>9. CallInv'
    BY <1>0, <1>1, <1>3 DEF CallInv, cur
  <1>10. TokenInv'
    BY <1>0, <1>1, <1>2, <1>3, <1>5, <1>6, <1>7
       DEF TokenInv, Putting, PutLabel, Waiting, Matching
  <1>11. CopyInv'
    BY <1>0, <1>5, <1>6 DEF CopyInv
  <1>12. FreshInv'
    BY <1>0, <1>1, <1>2, <1>3, <1>5, <1>6 DEF FreshInv
  <1>13. QED
    BY <1>8, <1>9, <1>10, <1>11, <1>12

-----------------------------------------------------------------------------
(* The steps that are instances of QuietMove and QuietReturn.              *)
LEMMA QuietStep ==
  ASSUME IInv, TypeOK', NEW p \in Process,
         \/ PutEnter(p) \/ TakeEnter(p) \/ PutTop(p) \/ TakeTop(p)
         \/ PutPoll(p) \/ TakePoll(p) \/ MatchPoll(p)
         \/ PutWait(p) \/ TakeWait(p) \/ MatchWait(p) \/ Resume(p)
  PROVE  IInv'
  <1> USE DEF slot, local, Goto
  <1>t. TypeOK
    BY DEF IInv
  <1>f. ASSUME pc[p] \in {"put_enter", "take_enter", "put_top", "take_top", "put_full",
                          "take_empty", "put_wait", "take_wait"}
        PROVE  copies[cur(p)] = 0 /\ ~Offered(cur(p))
    BY <1>f DEF IInv, FreshInv, Waiting, Matching
  <1>z. ASSUME pc[p] \in {"put_enter", "put_wait"}
        PROVE  token[p] = 0
    BY <1>z DEF IInv, TokenInv, Putting, PutLabel, Waiting, Matching
  <1>m. ASSUME pc[p] \in {"put_match", "put_block"}
        PROVE  p \notin Fiber /\ (epoch # token[p] => copies[cur(p)] = 1)
    BY <1>m DEF IInv, TokenInv, Waiting, Matching
  <1>1. CASE PutEnter(p) \/ TakeEnter(p)
    <2>1. ASSUME \E k \in {"terminated", "undefined"} : Return(p, k)
          PROVE  IInv'
      BY <1>1, <2>1, QuietReturn DEF PutEnter, TakeEnter, Enter, Kind, Critical
    <2>2. ASSUME \E l \in {"put_top", "take_top", "parked"} :
                    /\ pc' = [pc EXCEPT ![p] = l] /\ outcome' = outcome
                    /\ l = "parked" => p \in Fiber /\ closed
                    /\ l = "take_top" <=> pc[p] = "take_enter"
          PROVE  IInv'
      BY <1>1, <1>z, <2>2, QuietMove
         DEF PutEnter, TakeEnter, Enter, Label, PutLabel, Matching, Critical
    <2>3. QED
      BY <1>1, <2>1, <2>2 DEF PutEnter, TakeEnter, Enter, Undefined
  <1>2. CASE PutTop(p) \/ TakeTop(p)
    <2>1. ASSUME \E k \in {"terminated", "invalid"} : Return(p, k)
          PROVE  IInv'
      BY <1>2, <2>1, QuietReturn DEF PutTop, TakeTop, Top, Kind, Critical
    <2>2. ASSUME \E l \in {"put_full", "take_empty"} :
                    /\ pc' = [pc EXCEPT ![p] = l] /\ outcome' = outcome
                    /\ l = "put_full" <=> pc[p] = "put_top"
          PROVE  IInv'
      BY <1>2, <2>2, QuietMove DEF PutTop, TakeTop, Top, Label, PutLabel, Matching, Critical
    <2>3. QED
      BY <1>2, <2>1, <2>2 DEF PutTop, TakeTop, Top, Invalid
  <1>3. CASE PutPoll(p) \/ TakePoll(p)
    BY <1>3, QuietMove DEF PutPoll, TakePoll, Poll, Label, PutLabel, Matching, Critical
  <1>4. CASE MatchPoll(p)
    <2>1. ASSUME epoch # token[p], Return(p, "valid")
          PROVE  IInv'
      BY <1>4, <1>m, <2>1, QuietReturn DEF MatchPoll, Kind, Critical
    <2>2. ASSUME pc' = [pc EXCEPT ![p] = "put_block"], outcome' = outcome
          PROVE  IInv'
      BY <1>4, <2>2, QuietMove DEF MatchPoll, Label, PutLabel, Matching, Critical
    <2>3. QED
      BY <1>4, <2>1, <2>2 DEF MatchPoll
  <1>5. CASE PutWait(p) \/ TakeWait(p) \/ MatchWait(p)
    <2>1. ASSUME \E k \in {"terminated", "invalid", "undefined", "timeout"} :
                    Return(p, k) /\ (k = "timeout" => pc[p] # "put_block")
          PROVE  IInv'
      BY <1>5, <1>f, <2>1, QuietReturn
         DEF PutWait, TakeWait, MatchWait, Wait, Kind, Critical
    <2>2. ASSUME \E l \in {"put_full", "take_empty", "put_match", "put_enter",
                           "take_enter", "put_abandon", "parked"} :
                    /\ pc' = [pc EXCEPT ![p] = l] /\ outcome' = outcome
                    /\ l = "parked" => pc[p] = "put_wait" /\ p \in Fiber /\ closed
                    /\ l \in {"put_full", "put_enter"} => pc[p] = "put_wait"
                    /\ l \in {"take_empty", "take_enter"} => pc[p] = "take_wait"
                    /\ l \in {"put_match", "put_abandon"} => pc[p] = "put_block"
          PROVE  IInv'
      BY <1>5, <1>z, <2>2, QuietMove
         DEF PutWait, TakeWait, MatchWait, Wait, Label, PutLabel, Matching, Critical
    <2>3. CASE PutWait(p)
      BY <2>1, <2>2, <2>3 DEF PutWait, Wait, Undefined, Invalid, TimedOut
    <2>4. CASE TakeWait(p)
      BY <2>1, <2>2, <2>4 DEF TakeWait, Wait, Undefined, Invalid, TimedOut
    <2>5. CASE MatchWait(p)
      BY <2>1, <2>2, <2>5, <1>m DEF MatchWait, Wait, Undefined, Invalid
    <2>6. QED
      BY <1>5, <2>3, <2>4, <2>5
  <1>6. CASE Resume(p)
    <2>1. p \in Fiber /\ (token[p] = 0 => closed)
          /\ (token[p] # 0 /\ epoch # token[p] => copies[cur(p)] = 1)
      BY <1>6 DEF Resume, IInv, TokenInv, Waiting
    <2>2. \E k \in {"terminated", "valid"} :
             Return(p, k) /\ (k = "valid" => closed \/ epoch # token[p])
      BY <1>6 DEF Resume
    <2>3. QED
      BY <1>6, <2>1, <2>2, QuietReturn DEF Resume, Kind, Critical
  <1>7. QED
    BY <1>1, <1>2, <1>3, <1>4, <1>5, <1>6

(* Closing and signalling touch no call. *)
LEMMA EnvironmentStep ==
  ASSUME IInv, TypeOK', NEW p \in Process, Close(p) \/ Terminate(p)
  PROVE  IInv'
  <1>1. /\ UNCHANGED <<lock, epoch, data, len, pc, call, size, token, src, outcome, copies>>
        /\ closed => closed'
    BY DEF Close, Terminate, slot, local
  <1>2. \A i \in Id : Offered(i)' <=> Offered(i)
    BY <1>1 DEF Offered
  <1>3. \A q \in Process : cur(q)' = cur(q) /\ (Waiting(q)' <=> Waiting(q))
    BY <1>1 DEF cur, Waiting
  <1>4. \A q \in Process : pc[q] \notin {"idle", "dead"} => cur(q) \in Id
    BY IdFacts DEF IInv, TypeOK, CallInv, cur
  <1>5. LockInv' /\ CallInv' /\ SlotInv'
    BY <1>1, <1>3 DEF IInv, LockInv, CallInv, SlotInv, Putting
  <1>6. TokenInv'
    BY <1>1, <1>2, <1>3, <1>4 DEF IInv, TokenInv, Putting, PutLabel, Waiting, Matching
  <1>7. CopyInv'
    BY <1>1, <1>2 DEF IInv, CopyInv
  <1>8. FreshInv'
    BY <1>1, <1>2, <1>3, <1>4 DEF IInv, FreshInv
  <1>9. QED
    BY <1>5, <1>6, <1>7, <1>8 DEF IInv

LEMMA IInvInit == Init => IInv
  <1> SUFFICES ASSUME Init PROVE IInv
    OBVIOUS
  <1>1. TypeOK
    BY TypeInit
  <1>2. LockInv /\ CallInv /\ SlotInv
    BY IdFacts DEF Init, LockInv, CallInv, SlotInv, Putting, PutLabel, Critical, Id
  <1>3. TokenInv
    BY DEF Init, TokenInv, Putting, PutLabel, Waiting, Matching
  <1>4. \A i \in Id : ~Offered(i)
    BY IdFacts DEF Init, Offered
  <1>5. CopyInv /\ FreshInv
    BY <1>4 DEF Init, CopyInv, FreshInv, Offered
  <1>6. QED
    BY <1>1, <1>2, <1>3, <1>5 DEF IInv

LEMMA IInvStep ==
  ASSUME 0 \notin Lens
  PROVE  IInv /\ [Next]_vars => IInv'
  <1> SUFFICES ASSUME IInv, [Next]_vars
               PROVE  IInv'
    OBVIOUS
  <1>t. TypeOK'
    BY TypeStep DEF IInv
  <1>1. CASE UNCHANGED vars
    <2>1. /\ \A q \in Process : cur(q)' = cur(q) /\ (Waiting(q)' <=> Waiting(q))
          /\ \A q \in Process : Putting(q)' <=> Putting(q)
          /\ \A i \in Id : Offered(i)' <=> Offered(i)
      BY <1>1 DEF vars, slot, local, cur, Waiting, Putting, Offered
    <2>2. LockInv' /\ CallInv' /\ SlotInv' /\ CopyInv'
      BY <1>1, <2>1 DEF vars, slot, local, IInv, LockInv, CallInv, SlotInv, CopyInv
    <2>3. \A q \in Process : pc[q] \notin {"idle", "dead"} => cur(q) \in Id
      BY IdFacts DEF IInv, TypeOK, CallInv, cur
    <2>4. TokenInv' /\ FreshInv'
      BY <1>1, <2>1, <2>3 DEF vars, slot, local, IInv, TokenInv, FreshInv, Waiting, Matching,
         Putting, PutLabel
    <2>5. QED
      BY <1>t, <2>2, <2>4 DEF IInv
  <1>2. ASSUME NEW p \in Process, PutLock(p) \/ TakeLock(p) \/ AbandonLock(p)
        PROVE  IInv'
    <2>1. CASE lock = None
      <3>1. \E l \in {"put_store", "put_recheck", "take_swap"} :
               /\ pc' = [pc EXCEPT ![p] = l] /\ lock' = p
               /\ l = "put_store" <=> pc[p] = "put_lock"
               /\ l = "put_recheck" <=> pc[p] = "put_abandon"
        BY <1>2, <2>1, IdFacts DEF PutLock, TakeLock, TryLock, AbandonLock, Free, Goto
      <3>2. QED
        BY <1>2, <1>t, <2>1, <3>1, LockStep DEF PutLock, TakeLock, TryLock, AbandonLock
    <2>2. CASE lock # None
      <3>1. \E l \in {"put_top", "take_top"} :
               /\ pc' = [pc EXCEPT ![p] = l] /\ lock' = lock
               /\ l = "put_top" <=> pc[p] = "put_lock"
        BY <1>2, <2>2 DEF PutLock, TakeLock, TryLock, AbandonLock, Free, Goto
      <3>2. pc[p] \in {"put_lock", "take_lock"}
        BY <1>2, <2>2 DEF PutLock, TakeLock, TryLock, AbandonLock, Free
      <3>3. QED
        BY <1>2, <1>t, <3>1, <3>2, QuietMove
           DEF PutLock, TakeLock, TryLock, AbandonLock, local, Label, PutLabel, Matching,
               Critical
    <2>3. QED
      BY <2>1, <2>2
  <1>3. ASSUME NEW p \in Process,
               Step(p) \/ BeginPut(p) \/ BeginTake(p) \/ Close(p) \/ Terminate(p)
        PROVE  IInv'
    BY <1>t, <1>2, <1>3, BeginStep, QuietStep, StoreStep, EpochStep, AbandonCheckStep,
       AbandonEpochStep, SwapStep, CopyStep, EnvironmentStep
       DEF Step, PutStep, TakeStep
  <1>4. QED
    BY <1>1, <1>3 DEF Next

(* The inductive invariant holds in every behaviour of the channel, for    *)
(* any numbers of threads, fibers, closers, terminations, tries and calls, *)
(* when no put is empty.                                                   *)
THEOREM Invariance == ASSUME 0 \notin Lens PROVE Spec => []IInv
  <1>1. Init => IInv
    BY IInvInit
  <1>2. IInv /\ [Next]_vars => IInv'
    BY IInvStep
  <1>3. QED
    BY <1>1, <1>2, PTL DEF Spec

(* Every variable keeps its type: no step of any call, close or signal     *)
(* takes the channel out of its state space.                               *)
THEOREM TypeCorrect == ASSUME 0 \notin Lens PROVE Spec => []TypeOK
  <1>1. IInv => TypeOK
    BY DEF IInv
  <1>2. QED
    BY <1>1, Invariance, PTL

(* No value that was put on the channel is received twice.                 *)
THEOREM ReceivedAtMostOnce == ASSUME 0 \notin Lens PROVE Spec => []AtMostOnce
  <1>1. IInv => AtMostOnce
    BY DEF IInv, CopyInv, AtMostOnce
  <1>2. QED
    BY <1>1, Invariance, PTL

(* A put that reports success was received (__gab_bchnput, MICRO_OP_PUT).  *)
THEOREM SuccessIsTrue == ASSUME 0 \notin Lens PROVE Spec => []SuccessMeansReceived
  <1>1. IInv => SuccessMeansReceived
    BY DEF IInv, CopyInv, SuccessMeansReceived
  <1>2. QED
    BY <1>1, Invariance, PTL

(* A put that reports a timeout is never received: __gab_bchnabandon wins  *)
(* or loses against the taker, but never half.                             *)
THEOREM TimeoutIsTrue == ASSUME 0 \notin Lens PROVE Spec => []TimeoutMeansWithdrawn
  <1>1. IInv => TimeoutMeansWithdrawn
    BY DEF IInv, CopyInv, Offered, TimeoutMeansWithdrawn
  <1>2. QED
    BY <1>1, Invariance, PTL

(* The assertion of __gab_chnput and __gab_chntake holds: data and len are *)
(* both set or both unset whenever the spinlock is held to use them.       *)
THEOREM AssertionHolds == ASSUME 0 \notin Lens PROVE Spec => []BothOrNeither
  <1>1. IInv => BothOrNeither
    BY DEF IInv, SlotInv, BothOrNeither
  <1>2. QED
    BY <1>1, Invariance, PTL
-----------------------------------------------------------------------------
(* Channel implements Rendezvous, step by step.                            *)

(* A step that leaves what can be received, and was received, as it was.   *)
LEMMA StageFrame ==
  ASSUME copies' = copies, \A i \in Id : Offered(i)' <=> Offered(i)
  PROVE  [i \in Id |-> Stage(i)]' = [i \in Id |-> Stage(i)]
  <1>1. \A i \in Id : Stage(i)' = Stage(i)
    BY DEF Stage, Offered
  <1>2. QED
    BY <1>1

(* p goes on inside its call or ends it, and what it reports is true.      *)
Reported(p) ==
  /\ pc[p] \notin {"idle", "dead"}
  /\ closed' = closed /\ copies' = copies
  /\ \A i \in Id : Offered(i)' <=> Offered(i)
  /\ \/ outcome' = outcome
     \/ \E k \in {"valid", "timeout", "undefined", "invalid", "terminated"} :
          /\ outcome' = [outcome EXCEPT ![cur(p)] = k]
          /\ k = "valid" => copies[cur(p)] = 1 \/ (closed /\ p \in Fiber)
          /\ k = "timeout" => copies[cur(p)] = 0 /\ ~Offered(cur(p))

(* That is the end of a call, or nothing, to those who only see the        *)
(* rendezvous.                                                             *)
LEMMA ReportRefines ==
  ASSUME IInv, NEW p \in Process, Reported(p)
  PROVE  [Promise!Step]_(Promise!abstractVars)
  <1>1. [i \in Id |-> Stage(i)]' = [i \in Id |-> Stage(i)]
    BY StageFrame DEF Reported
  <1>2. CASE outcome' = outcome
    BY <1>1, <1>2 DEF Reported, Promise!abstractVars
  <1>3. ASSUME NEW k \in {"valid", "timeout", "undefined", "invalid", "terminated"},
               outcome' = [outcome EXCEPT ![cur(p)] = k],
               k = "valid" => copies[cur(p)] = 1 \/ (closed /\ p \in Fiber),
               k = "timeout" => copies[cur(p)] = 0 /\ ~Offered(cur(p))
        PROVE  Promise!Step
    <2>1. cur(p) \in Id /\ outcome[cur(p)] = "open" /\ cur(p)[1] = p
      BY IdFacts DEF Reported, IInv, TypeOK, CallInv, cur
    <2>2. k = "valid" => Stage(cur(p)) = "received" \/ (closed /\ cur(p) \in {i \in Id : i[1] \in Fiber})
      BY <1>3, <2>1 DEF Stage
    <2>3. k = "timeout" => Stage(cur(p)) = "absent"
      BY <1>3, <2>1 DEF Stage, Offered
    <2>4. Promise!End(cur(p), k)
      BY <1>1, <1>3, <2>1, <2>2, <2>3 DEF Promise!End, Reported
    <2>5. QED
      BY <2>1, <2>4 DEF Promise!Step
  <1>4. QED
    BY <1>2, <1>3 DEF Reported

(* A step that leaves the slot alone and stays in the call, or ends it     *)
(* with a true report.                                                     *)
LEMMA Reports ==
  ASSUME IInv, NEW p \in Process, NEW l, l # "take_copy",
         pc[p] \notin {"idle", "dead", "take_copy"}, pc' = [pc EXCEPT ![p] = l],
         data' = data, src' = src, closed' = closed, copies' = copies,
         \/ outcome' = outcome
         \/ \E k \in {"valid", "timeout", "undefined", "invalid", "terminated"} :
              /\ outcome' = [outcome EXCEPT ![cur(p)] = k]
              /\ k = "valid" => copies[cur(p)] = 1 \/ (closed /\ p \in Fiber)
              /\ k = "timeout" => copies[cur(p)] = 0 /\ ~Offered(cur(p))
  PROVE  [Promise!Step]_(Promise!abstractVars)
  <1>1. TypeOK
    BY DEF IInv
  <1>2. \A i \in Id : Offered(i)' <=> Offered(i)
    BY <1>1, OfferedFrame
  <1>3. Reported(p)
    BY <1>2 DEF Reported
  <1>4. QED
    BY <1>3, ReportRefines

(* The same for a step that ends the call by Return.                       *)
LEMMA ReturnReports ==
  ASSUME IInv, NEW p \in Process,
         NEW k \in {"valid", "timeout", "undefined", "invalid", "terminated"},
         Return(p, k), pc[p] \notin {"idle", "dead", "take_copy"},
         data' = data, src' = src, closed' = closed, copies' = copies,
         k = "valid" => copies[cur(p)] = 1 \/ (closed /\ p \in Fiber),
         k = "timeout" => copies[cur(p)] = 0 /\ ~Offered(cur(p))
  PROVE  [Promise!Step]_(Promise!abstractVars)
  <1> DEFINE l == IF k = "terminated" THEN "dead" ELSE "idle"
  <1>1. l # "take_copy" /\ pc' = [pc EXCEPT ![p] = l]
        /\ outcome' = [outcome EXCEPT ![cur(p)] = k]
    BY DEF Return, Goto
  <1> HIDE DEF l
  <1>2. QED
    BY <1>1, Reports

(* The steps of a call that touch neither lock nor slot.                   *)
LEMMA QuietReports ==
  ASSUME IInv, NEW p \in Process,
         \/ PutEnter(p) \/ TakeEnter(p) \/ PutTop(p) \/ TakeTop(p)
         \/ PutPoll(p) \/ TakePoll(p) \/ MatchPoll(p)
         \/ PutWait(p) \/ TakeWait(p) \/ MatchWait(p) \/ Resume(p)
  PROVE  [Promise!Step]_(Promise!abstractVars)
  <1> DEFINE Goal == [Promise!Step]_(Promise!abstractVars)
             Stays == \E l \in Label \ {"take_copy"} : Goto(p, l) /\ outcome' = outcome
             Ends == \E k \in {"terminated", "undefined", "invalid"} : Return(p, k)
  <1>u. /\ data' = data /\ src' = src /\ closed' = closed /\ copies' = copies
        /\ pc[p] \notin {"idle", "dead", "take_copy"}
    BY DEF PutEnter, TakeEnter, Enter, PutTop, TakeTop, Top, PutPoll, TakePoll, Poll,
           MatchPoll, PutWait, TakeWait, MatchWait, Wait, Resume, slot, local
  <1>s. ASSUME Stays PROVE Goal
    <2>1. PICK l \in Label \ {"take_copy"} : pc' = [pc EXCEPT ![p] = l] /\ outcome' = outcome
      BY <1>s DEF Goto
    <2>2. QED
      BY <1>u, <2>1, Reports
  <1>e. ASSUME Ends PROVE Goal
    BY <1>e, <1>u, ReturnReports
  <1> HIDE DEF Goal
  <1>1. CASE PutEnter(p) \/ TakeEnter(p)
    <2>1. Stays \/ Ends
      BY <1>1 DEF PutEnter, TakeEnter, Enter, Undefined, Label
    <2>2. QED
      BY <1>s, <1>e, <2>1 DEF Goal
  <1>2. CASE PutTop(p) \/ TakeTop(p)
    <2>1. Stays \/ Ends
      BY <1>2 DEF PutTop, TakeTop, Top, Invalid, Label
    <2>2. QED
      BY <1>s, <1>e, <2>1 DEF Goal
  <1>3. CASE PutPoll(p) \/ TakePoll(p)
    <2>1. Stays
      BY <1>3 DEF PutPoll, TakePoll, Poll, Label
    <2>2. QED
      BY <1>s, <2>1 DEF Goal
  <1>4. CASE MatchPoll(p)
    <2>1. Stays \/ (epoch # token[p] /\ Return(p, "valid"))
      BY <1>4 DEF MatchPoll, Label
    <2>2. epoch # token[p] => copies[cur(p)] = 1
      BY <1>4 DEF MatchPoll, IInv, TokenInv, Waiting, Matching
    <2>3. ASSUME epoch # token[p], Return(p, "valid") PROVE Goal
      BY <1>u, <2>2, <2>3, ReturnReports DEF Goal
    <2>4. QED
      BY <1>s, <2>1, <2>3 DEF Goal
  <1>5. CASE PutWait(p) \/ TakeWait(p) \/ MatchWait(p)
    <2>1. Stays \/ Ends \/ (pc[p] # "put_block" /\ Return(p, "timeout"))
      <3>1. CASE PutWait(p)
        BY <3>1 DEF PutWait, Wait, Undefined, Invalid, TimedOut, Label
      <3>2. CASE TakeWait(p)
        BY <3>2 DEF TakeWait, Wait, Undefined, Invalid, TimedOut, Label
      <3>3. CASE MatchWait(p)
        BY <3>3 DEF MatchWait, Wait, Undefined, Invalid, Label
      <3>4. QED
        BY <1>5, <3>1, <3>2, <3>3
    <2>2. pc[p] \in {"put_wait", "take_wait", "put_block"}
      BY <1>5 DEF PutWait, TakeWait, MatchWait, Wait
    <2>3. ASSUME pc[p] # "put_block", Return(p, "timeout") PROVE Goal
      <3>1. copies[cur(p)] = 0 /\ ~Offered(cur(p))
        BY <2>2, <2>3 DEF IInv, FreshInv, Waiting, Matching
      <3>2. QED
        BY <1>u, <2>3, <3>1, ReturnReports DEF Goal
    <2>4. QED
      BY <1>s, <1>e, <2>1, <2>3 DEF Goal
  <1>6. CASE Resume(p)
    <2>1. Ends \/ ((closed \/ epoch # token[p]) /\ Return(p, "valid"))
      BY <1>6 DEF Resume
    <2>2. p \in Fiber /\ (token[p] = 0 => closed)
          /\ (token[p] # 0 /\ epoch # token[p] => copies[cur(p)] = 1)
      BY <1>6 DEF Resume, IInv, TokenInv, Waiting
    <2>3. ASSUME closed \/ epoch # token[p], Return(p, "valid") PROVE Goal
      BY <1>u, <2>2, <2>3, ReturnReports DEF Goal
    <2>4. QED
      BY <1>e, <2>1, <2>3 DEF Goal
  <1>7. QED
    BY <1>1, <1>2, <1>3, <1>4, <1>5, <1>6 DEF Goal

(* Trying for the spinlock is nothing to the rendezvous.                   *)
LEMMA LockRefines ==
  ASSUME IInv, NEW p \in Process, PutLock(p) \/ TakeLock(p) \/ AbandonLock(p) \/ PutEpoch(p)
  PROVE  [Promise!Step]_(Promise!abstractVars)
  <1>1. /\ data' = data /\ src' = src /\ closed' = closed /\ copies' = copies
        /\ outcome' = outcome /\ pc[p] \notin {"idle", "dead", "take_copy"}
    BY DEF PutLock, TakeLock, TryLock, AbandonLock, PutEpoch, local
  <1>2. \E l \in Label \ {"take_copy"} : pc' = [pc EXCEPT ![p] = l]
    BY DEF PutLock, TakeLock, TryLock, AbandonLock, PutEpoch, Goto, Label
  <1>3. QED
    BY <1>1, <1>2, Reports

(* A call begins.                                                          *)
LEMMA BeginRefines ==
  ASSUME IInv, NEW p \in Process, BeginPut(p) \/ BeginTake(p)
  PROVE  Promise!Step
  <1> DEFINE c == <<p, call[p] + 1>>
  <1>1. c \in Id /\ outcome[c] = "unused"
    <2>1. call[p] \in 0..MaxCalls /\ call[p] < MaxCalls
      BY DEF BeginPut, BeginTake, Begin, IInv, TypeOK
    <2>2. call[p] + 1 \in 1..MaxCalls /\ call[p] + 1 > call[p]
      BY <2>1
    <2>3. QED
      BY <2>2, IdFacts DEF IInv, CallInv
  <1>2. closed' = closed /\ copies' = copies /\ data' = data /\ pc[p] = "idle"
    BY DEF BeginPut, BeginTake, Begin, slot
  <1>3. call' = [call EXCEPT ![p] = call[p] + 1] /\ outcome' = [outcome EXCEPT ![c] = "open"]
    <2>1. call' = [call EXCEPT ![p] = call[p] + 1]
      BY DEF BeginPut, BeginTake, Begin
    <2>2. outcome' = [outcome EXCEPT ![<<p, call'[p]>>] = "open"]
      BY DEF BeginPut, BeginTake, Begin
    <2>3. call'[p] = call[p] + 1
      BY <2>1 DEF IInv, TypeOK
    <2>4. QED
      BY <2>1, <2>2, <2>3
  <1>4. \E l \in {"put_enter", "take_enter"} : pc' = [pc EXCEPT ![p] = l]
    BY DEF BeginPut, BeginTake, Goto
  <1>5. \A q \in Process \ {p} : src'[q] = src[q]
    BY DEF BeginPut, BeginTake, Begin, IInv, TypeOK
  <1>6. \A i \in Id : Offered(i)' <=> Offered(i)
    BY <1>2, <1>4, <1>5, OfferedFrame DEF IInv
  <1>7. [i \in Id |-> Stage(i)]' = [i \in Id |-> Stage(i)]
    BY <1>2, <1>6, StageFrame
  <1>8. Promise!Open(c)
    BY <1>1, <1>2, <1>3, <1>7 DEF Promise!Open
  <1>9. QED
    BY <1>1, <1>8 DEF Promise!Step

(* What a step that changes the stage of one call only does to all stages. *)
LEMMA StageMoves ==
  ASSUME NEW c \in Id, NEW s,
         Stage(c)' = s,
         \A i \in Id \ {c} : Stage(i)' = Stage(i)
  PROVE  [i \in Id |-> Stage(i)]' = [[i \in Id |-> Stage(i)] EXCEPT ![c] = s]
  OBVIOUS

(* A process inside a call has a number for it.                            *)
LEMMA IsCall ==
  ASSUME IInv, NEW p \in Process, pc[p] \notin {"idle", "dead"}
  PROVE  cur(p) \in Id
  BY IdFacts DEF IInv, TypeOK, CallInv, cur

(* Publishing a value offers it, unless the slot is occupied.              *)
LEMMA StoreRefines ==
  ASSUME IInv, NEW p \in Process, PutStore(p)
  PROVE  [Promise!Step]_(Promise!abstractVars)
  <1>c. PICK c \in Id : c = cur(p)
    BY IsCall DEF PutStore
  <1>0. /\ pc[p] = "put_store" /\ outcome[c] = "open" /\ copies[c] = 0
        /\ src' = src /\ closed' = closed /\ copies' = copies /\ outcome' = outcome
    BY <1>c DEF PutStore, local, IInv, CallInv, FreshInv, Waiting, Matching
  <1>1. CASE len # 0 \/ data # None
    <2>1. pc' = [pc EXCEPT ![p] = "put_top"] /\ data' = data
      BY <1>1 DEF PutStore, Goto
    <2>2. QED
      BY <1>0, <2>1, Reports
  <1>2. CASE len = 0 /\ data = None
    <2>1. pc' = [pc EXCEPT ![p] = "put_epoch"] /\ data' = c
      BY <1>2, <1>c DEF PutStore, Goto
    <2>2. \A q \in Process : pc[q] # "take_copy" /\ pc'[q] # "take_copy"
      BY <1>0, <2>1 DEF IInv, TypeOK, LockInv, Critical
    <2>3. \A i \in Id : ~Offered(i) /\ (Offered(i)' <=> i = c)
      BY <1>2, <2>1, <2>2, IdFacts DEF Offered
    <2>4. Stage(c)' = "offered" /\ Stage(c) = "absent"
      BY <1>0, <2>3 DEF Stage, Offered
    <2>5. \A i \in Id \ {c} : Stage(i)' = Stage(i)
      BY <1>0, <2>3 DEF Stage, Offered
    <2>6. \A i \in Id : Stage(i) # "offered"
      BY <2>3 DEF Stage, Offered
    <2>7. [i \in Id |-> Stage(i)]' = [[i \in Id |-> Stage(i)] EXCEPT ![c] = "offered"]
      BY <1>0, <2>4, <2>5, StageMoves
    <2>8. Promise!Offer(c)
      BY <1>0, <2>4, <2>6, <2>7 DEF Promise!Offer
    <2>9. QED
      BY <1>0, <2>8 DEF Promise!Step
  <1>3. QED
    BY <1>1, <1>2

(* Abandoning withdraws a value, or finds that it was received.            *)
LEMMA AbandonCheckRefines ==
  ASSUME IInv, NEW p \in Process, AbandonCheck(p)
  PROVE  [Promise!Step]_(Promise!abstractVars)
  <1>c. PICK c \in Id : c = cur(p)
    BY IsCall DEF AbandonCheck
  <1>0. /\ pc[p] = "put_recheck" /\ outcome[c] = "open"
        /\ src' = src /\ closed' = closed /\ copies' = copies
    BY <1>c DEF AbandonCheck, local, IInv, CallInv
  <1>1. /\ epoch # token[p] => copies[c] = 1
        /\ epoch = token[p] => Offered(c) /\ copies[c] = 0
    BY <1>0, <1>c DEF IInv, TokenInv, CopyInv, Waiting, Matching
  <1>2. CASE epoch # token[p]
    <2>1. Return(p, "valid") /\ data' = data
      BY <1>2 DEF AbandonCheck
    <2>2. QED
      BY <1>0, <1>1, <1>2, <1>c, <2>1, ReturnReports
  <1>3. CASE epoch = token[p]
    <2>1. pc' = [pc EXCEPT ![p] = "put_reset"] /\ data' = None /\ outcome' = outcome
      BY <1>3 DEF AbandonCheck, Clear, Goto
    <2>2. \A q \in Process : pc[q] # "take_copy" /\ pc'[q] # "take_copy"
      BY <1>0, <2>1 DEF IInv, TypeOK, LockInv, Critical
    <2>3. \A i \in Id : ~Offered(i)' /\ (Offered(i) => i = c)
      BY <1>1, <1>3, <2>1, <2>2, IdFacts DEF Offered
    <2>4. Stage(c)' = "absent" /\ Stage(c) = "offered"
      BY <1>0, <1>1, <1>3, <2>3 DEF Stage, Offered
    <2>5. \A i \in Id \ {c} : Stage(i)' = Stage(i)
      BY <1>0, <2>3 DEF Stage, Offered
    <2>6. [i \in Id |-> Stage(i)]' = [[i \in Id |-> Stage(i)] EXCEPT ![c] = "absent"]
      BY <1>0, <2>4, <2>5, StageMoves
    <2>7. Promise!Withdraw(c)
      BY <1>0, <2>1, <2>4, <2>6 DEF Promise!Withdraw
    <2>8. QED
      BY <1>0, <2>7 DEF Promise!Step
  <1>4. QED
    BY <1>2, <1>3

(* A put that has withdrawn its value reports the timeout.                 *)
LEMMA AbandonEpochRefines ==
  ASSUME IInv, NEW p \in Process, AbandonEpoch(p)
  PROVE  [Promise!Step]_(Promise!abstractVars)
  <1>1. /\ pc[p] = "put_reset" /\ Return(p, "timeout")
        /\ data' = data /\ src' = src /\ closed' = closed /\ copies' = copies
    BY DEF AbandonEpoch, local
  <1>2. copies[cur(p)] = 0 /\ ~Offered(cur(p))
    BY <1>1 DEF IInv, FreshInv, Waiting, Matching
  <1>3. QED
    BY <1>1, <1>2, ReturnReports

(* Emptying the slot moves its value into the hands of the taker: it is    *)
(* still on offer.                                                         *)
LEMMA SwapRefines ==
  ASSUME IInv, NEW p \in Process, TakeSwap(p)
  PROVE  UNCHANGED Promise!abstractVars
  <1>0. /\ pc[p] = "take_swap" /\ data' = None
        /\ closed' = closed /\ outcome' = outcome /\ copies' = copies
    BY DEF TakeSwap, Clear
  <1>t. pc \in [Process -> Label] /\ src \in [Process -> Id \cup {None}] /\ SlotInv
    BY DEF IInv, TypeOK
  <1>1. \A q \in Process : pc[q] # "take_copy" /\ (q # p => pc'[q] = pc[q])
    BY <1>0 DEF IInv, TypeOK, LockInv, Critical, TakeSwap, Goto
  <1>2. \A i \in Id : Offered(i)' <=> Offered(i)
    <2>1. CASE data # None
      <3>1. pc' = [pc EXCEPT ![p] = "take_copy"] /\ src' = [src EXCEPT ![p] = data]
        BY <1>t, <2>1 DEF TakeSwap, SlotInv, Goto
      <3>2. QED
        BY <1>0, <1>t, <1>1, <3>1, IdFacts DEF Offered
    <2>2. CASE data = None
      <3>1. pc' = [pc EXCEPT ![p] = "take_top"] /\ src' = src
        BY <2>2 DEF TakeSwap, Goto
      <3>2. QED
        BY <1>0, <1>t, <1>1, <2>2, <3>1, IdFacts DEF Offered
    <2>3. QED
      BY <2>1, <2>2
  <1>3. [i \in Id |-> Stage(i)]' = [i \in Id |-> Stage(i)]
    BY <1>0, <1>2, StageFrame
  <1>4. QED
    BY <1>0, <1>3 DEF Promise!abstractVars

(* The copy receives the value and ends the take.                          *)
LEMMA CopyRefines ==
  ASSUME IInv, NEW p \in Process, TakeCopy(p)
  PROVE  Promise!Step
  <1>c. PICK c \in Id : c = src[p]
    BY IdFacts DEF TakeCopy, IInv, TypeOK, SlotInv
  <1>e. PICK t \in Id : t = cur(p)
    BY IsCall DEF TakeCopy
  <1>0. /\ pc[p] = "take_copy" /\ outcome[t] = "open" /\ data = None
        /\ pc' = [pc EXCEPT ![p] = "idle"] /\ outcome' = [outcome EXCEPT ![t] = "taken"]
        /\ copies' = [copies EXCEPT ![c] = copies[c] + 1]
        /\ closed' = closed /\ data' = data /\ src' = src
    BY <1>c, <1>e DEF TakeCopy, Return, Goto, local, IInv, CallInv, SlotInv
  <1>t. pc \in [Process -> Label] /\ copies \in [Id -> Nat]
    BY DEF IInv, TypeOK
  <1>1. \A q \in Process : pc'[q] # "take_copy" /\ (pc[q] = "take_copy" => q = p)
    BY <1>0, <1>t DEF IInv, LockInv, Critical
  <1>2. Offered(c) /\ copies[c] = 0
    BY <1>0, <1>c DEF IInv, Offered, CopyInv
  <1>3. \A i \in Id : ~Offered(i)' /\ (Offered(i) => i = c)
    BY <1>0, <1>1, <1>c, IdFacts DEF Offered
  <1>4. copies'[c] = 1 /\ \A i \in Id \ {c} : copies'[i] = copies[i]
    BY <1>0, <1>2, <1>t
  <1>5. Stage(c)' = "received" /\ Stage(c) = "offered"
    BY <1>2, <1>4 DEF Stage, Offered
  <1>6. \A i \in Id \ {c} : Stage(i)' = Stage(i)
    BY <1>3, <1>4 DEF Stage, Offered
  <1>7. [i \in Id |-> Stage(i)]' = [[i \in Id |-> Stage(i)] EXCEPT ![c] = "received"]
    BY <1>0, <1>5, <1>6, StageMoves
  <1>8. Promise!Receive(c, t)
    BY <1>0, <1>5, <1>7 DEF Promise!Receive
  <1>9. QED
    BY <1>0, <1>8 DEF Promise!Step

(* Closing shuts, and a signal to terminate is nothing to the rendezvous.  *)
LEMMA EnvironmentRefines ==
  ASSUME NEW p \in Process, Close(p) \/ Terminate(p)
  PROVE  [Promise!Step]_(Promise!abstractVars)
  <1>1. /\ pc' = pc /\ data' = data /\ src' = src /\ outcome' = outcome /\ copies' = copies
        /\ closed' \in {TRUE, closed}
    BY DEF Close, Terminate, slot, local
  <1>2. \A i \in Id : Offered(i)' <=> Offered(i)
    BY <1>1 DEF Offered
  <1>3. [i \in Id |-> Stage(i)]' = [i \in Id |-> Stage(i)]
    BY <1>1, <1>2, StageFrame
  <1>4. CASE closed' = TRUE
    BY <1>1, <1>3, <1>4 DEF Promise!Step, Promise!Shut
  <1>5. CASE closed' = closed
    BY <1>1, <1>3, <1>5 DEF Promise!abstractVars
  <1>6. QED
    BY <1>1, <1>4, <1>5

(* Every step of the channel is a step of the rendezvous, or none.         *)
LEMMA StepRefines ==
  ASSUME IInv, [Next]_vars
  PROVE  [Promise!Step]_(Promise!abstractVars)
  <1>1. CASE UNCHANGED vars
    <2>1. /\ pc' = pc /\ data' = data /\ src' = src /\ outcome' = outcome
          /\ copies' = copies /\ closed' = closed
      BY <1>1 DEF vars, slot, local
    <2>2. \A i \in Id : Offered(i)' <=> Offered(i)
      BY <2>1 DEF Offered
    <2>3. [i \in Id |-> Stage(i)]' = [i \in Id |-> Stage(i)]
      BY <2>1, <2>2, StageFrame
    <2>4. QED
      BY <2>1, <2>3 DEF Promise!abstractVars
  <1>2. ASSUME NEW p \in Process,
               Step(p) \/ BeginPut(p) \/ BeginTake(p) \/ Close(p) \/ Terminate(p)
        PROVE  [Promise!Step]_(Promise!abstractVars)
    BY <1>2, BeginRefines, QuietReports, LockRefines, StoreRefines, AbandonCheckRefines,
       AbandonEpochRefines, SwapRefines, CopyRefines, EnvironmentRefines
       DEF Step, PutStep, TakeStep
  <1>3. QED
    BY <1>1, <1>2 DEF Next

(* An idle channel is an untouched rendezvous.                             *)
LEMMA InitRefines == Init => Promise!Start
  <1> SUFFICES ASSUME Init PROVE Promise!Start
    OBVIOUS
  <1>1. \A i \in Id : Stage(i) = "absent"
    BY IdFacts DEF Init, Stage
  <1>2. QED
    BY <1>1 DEF Init, Promise!Start

(* Whatever the spinlock, the epoch, polling, abandoning, closing and      *)
(* termination do, what callers see is a rendezvous: values are offered    *)
(* one at a time, received once or withdrawn, and every call reports what  *)
(* became of its values (gab_ntchnput, gab_ntchntake, MICRO_OP_PUT).       *)
THEOREM Refines == ASSUME 0 \notin Lens PROVE Spec => ImplementsRendezvous
  <1>1. Init => Promise!Start
    BY InitRefines
  <1>2. IInv /\ [Next]_vars => [Promise!Step]_(Promise!abstractVars)
    BY StepRefines
  <1>3. QED
    BY <1>1, <1>2, Invariance, PTL DEF Spec, ImplementsRendezvous, Promise!Spec
=============================================================================
