----------------------------- MODULE LibraryProofs -----------------------------
(* What the parts of the library promise, for every value of the constants:   *)
(* counts that are exact, queues that are sequences, definitions that are     *)
(* seen, and beside them the strings, the modules and the streams, by the     *)
(* proofs of their own modules.                                               *)
EXTENDS Library, FiniteSets, FiniteSetTheorems, WellFoundedInduction,
        NaturalsInduction, TLAPS

-----------------------------------------------------------------------------
(* Definitions and sends: the inductive invariant                             *)

(* The record holds no version it has not had, and nothing older than what  *)
(* has returned.                                                            *)
SpecsInv ==
  /\ specs \in [version : Nat, impl : [D!Slots -> Nat]]
  /\ returned \in [D!Slots -> Nat]
  /\ \A s \in D!Slots : returned[s] <= specs.impl[s] /\ specs.impl[s] <= specs.version

(* A definition that is swapped in stays until something newer is.          *)
DefineInv ==
  /\ running = [j \in Jobs |-> running[j]]
  /\ \A j \in Jobs : running[j].at \in {"swap", "bump"} => running[j].args \subseteq D!Slots
  /\ \A j \in Jobs : running[j].at = "bump" =>
       /\ running[j].new \in Nat
       /\ \A s \in running[j].args : running[j].new <= specs.impl[s]

(* What was looked up is as new as what had returned, until an epoch ends.  *)
SendInv ==
  \A j \in Jobs : running[j].at = "fill" =>
    /\ running[j].message \in Messages
    /\ running[j].epoch \in Nat /\ running[j].epoch <= epoch
    /\ \A t \in DOMAIN running[j].impl :
         /\ t \in Types /\ running[j].impl[t] \in Nat
         /\ running[j].epoch = epoch
              => running[j].impl[t] >= returned[<<running[j].message, t>>]

(* And so is what is kept, but for the sends that are torn.                 *)
CacheInv ==
  /\ epoch \in Nat
  /\ cache = [j \in Jobs |-> [m \in Messages |-> cache[j][m]]]
  /\ \A j \in Jobs, m \in Messages :
       /\ cache[j][m].epoch \in Int /\ cache[j][m].epoch <= epoch
       /\ \A t \in DOMAIN cache[j][m].impl :
            /\ t \in Types /\ cache[j][m].impl[t] \in Nat
            /\ cache[j][m].epoch = epoch /\ <<j, m>> \notin torn
                 => cache[j][m].impl[t] >= returned[<<m, t>>]

DefInv == SpecsInv /\ DefineInv /\ SendInv /\ CacheInv

-----------------------------------------------------------------------------
(* A message and a type make a slot.                                          *)
LEMMA SlotFacts == \A m \in Messages, t \in Types : <<m, t>> \in D!Slots
  BY DEF D!Slots

(* At the start nothing is defined.                                           *)
LEMMA DefInit == D!Init => DefInv
  <1> SUFFICES ASSUME D!Init PROVE DefInv
    OBVIOUS
  <1>1. SpecsInv
    BY DEF D!Init, SpecsInv, D!Record, D!Never
  <1>2. DefineInv /\ SendInv
    BY DEF D!Init, DefineInv, SendInv, D!Quiet
  <1>3. CacheInv
    BY DEF D!Init, CacheInv, D!Empty
  <1>4. QED
    BY <1>1, <1>2, <1>3 DEF DefInv

(* A definition begins with what the pointer is.                              *)
LEMMA DefineStep == ASSUME NEW j \in Jobs, DefInv, D!Define(j) PROVE DefInv'
  <1> USE DEF DefInv, D!Define, D!Quiet
  <1>1. SpecsInv'
    BY DEF SpecsInv
  <1>2. DefineInv'
    BY DEF DefineInv
  <1>3. SendInv'
    BY DEF DefineInv, SendInv
  <1>4. CacheInv'
    BY DEF CacheInv
  <1>5. QED
    BY <1>1, <1>2, <1>3, <1>4

(* What is swapped in is newer than all before, or nothing is swapped in.     *)
LEMMA SwapStep == ASSUME NEW j \in Jobs, DefInv, D!Swap(j) PROVE DefInv'
  <1> USE DEF DefInv, D!Swap
  <1>grow. /\ specs' \in [version : Nat, impl : [D!Slots -> Nat]]
           /\ \A s \in D!Slots : specs.impl[s] <= specs'.impl[s]
           /\ \A s \in D!Slots : specs'.impl[s] <= specs'.version
    <2>1. CASE specs = running[j].base
      BY <2>1 DEF SpecsInv, DefineInv, D!Added, D!Record
    <2>2. CASE specs # running[j].base
      BY <2>2 DEF SpecsInv
    <2>3. QED
      BY <2>1, <2>2
  <1>1. SpecsInv'
    BY <1>grow DEF SpecsInv
  <1>2. DefineInv'
    <2>1. CASE specs = running[j].base
      <3>1. running' = [running EXCEPT ![j] = [at |-> "bump", new |-> specs'.version,
                                               args |-> running[j].args]]
        BY <2>1
      <3>2. \A s \in running[j].args : specs'.version <= specs'.impl[s]
        BY <2>1 DEF SpecsInv, DefineInv, D!Added, D!Record
      <3>3. specs'.version \in Nat
        BY <1>grow
      <3>4. ASSUME NEW i \in Jobs, running'[i].at = "bump", NEW s \in running'[i].args
            PROVE  running'[i].new <= specs'.impl[s]
        <4>1. CASE i = j
          BY <3>1, <3>2, <3>4, <4>1 DEF DefineInv
        <4>2. CASE i # j
          <5>1. running'[i] = running[i]
            BY <3>1, <4>2 DEF DefineInv
          <5>2. s \in D!Slots /\ running[i].new <= specs.impl[s] /\ running[i].new \in Nat
            BY <3>4, <5>1 DEF DefineInv
          <5>3. specs.impl[s] \in Nat /\ specs'.impl[s] \in Nat
            BY <1>grow, <5>2 DEF SpecsInv
          <5>4. QED
            BY <1>grow, <5>1, <5>2, <5>3
        <4>3. QED
          BY <4>1, <4>2
      <3>5. QED
        BY <3>1, <3>3, <3>4 DEF DefineInv
    <2>2. CASE specs # running[j].base
      <3>1. /\ running' = [running EXCEPT ![j] = [at |-> "swap", base |-> specs,
                                                   args |-> running[j].args]]
            /\ UNCHANGED specs
        BY <2>2
      <3>2. QED
        BY <3>1 DEF DefineInv
    <2>3. QED
      BY <2>1, <2>2
  <1>3. SendInv'
    <2>1. \A i \in Jobs : running'[i].at = "fill" => running'[i] = running[i]
      BY DEF DefineInv
    <2>2. QED
      BY <2>1 DEF SendInv
  <1>4. CacheInv'
    BY DEF CacheInv
  <1>5. QED
    BY <1>1, <1>2, <1>3, <1>4

(* What returns is in the record, and no kept epoch is the new one.           *)
LEMMA BumpStep == ASSUME NEW j \in Jobs, DefInv, D!Bump(j) PROVE DefInv'
  <1> USE DEF DefInv
  <1>same. \A i \in Jobs : i # j => running'[i] = running[i]
    BY DEF DefineInv, D!Bump
  <1>quiet. running'[j].at = "quiet"
    BY DEF DefineInv, D!Quiet, D!Bump
  <1>1. SpecsInv'
    BY DEF SpecsInv, DefineInv, D!Bump
  <1>2. DefineInv'
    BY <1>same, <1>quiet DEF DefineInv, D!Quiet, D!Bump
  <1>3. SendInv'
    <2>1. ASSUME NEW i \in Jobs, running'[i].at = "fill"
          PROVE  /\ running[i].at = "fill" /\ running'[i] = running[i]
      BY <1>same, <1>quiet, <2>1
    <2>2. epoch' = epoch + 1 /\ epoch \in Nat
      BY DEF CacheInv, D!Bump
    <2>3. QED
      BY <2>1, <2>2 DEF SendInv
  <1>4. CacheInv'
    <2>1. epoch \in Nat /\ epoch' = epoch + 1 /\ UNCHANGED <<cache, torn>>
      BY DEF CacheInv, D!Bump
    <2>2. ASSUME NEW i \in Jobs, NEW m \in Messages
          PROVE  /\ cache[i][m].epoch \in Int /\ cache[i][m].epoch < epoch'
                 /\ \A t \in DOMAIN cache[i][m].impl :
                      t \in Types /\ cache[i][m].impl[t] \in Nat
      <3>1. cache[i][m].epoch \in Int /\ cache[i][m].epoch <= epoch
        BY DEF CacheInv
      <3>2. \A t \in DOMAIN cache[i][m].impl : t \in Types /\ cache[i][m].impl[t] \in Nat
        BY DEF CacheInv
      <3>3. QED
        BY <2>1, <3>1, <3>2
    <2>3. cache' = [i \in Jobs |-> [m \in Messages |-> cache'[i][m]]]
      BY <2>1 DEF CacheInv
    <2>4. QED
      BY <2>1, <2>2, <2>3 DEF CacheInv
  <1>5. QED
    BY <1>1, <1>2, <1>3, <1>4
(* What is found is no older than what has returned.                          *)
LEMMA LookStep == ASSUME NEW j \in Jobs, DefInv, D!Look(j) PROVE DefInv'
  <1> USE DEF DefInv
  <1>same. UNCHANGED <<specs, epoch, cache, returned, torn>>
    BY DEF D!Look
  <1>pick. PICK m \in Messages, kept \in SUBSET Types :
             running' = [running EXCEPT ![j] =
               [at |-> "fill", message |-> m, epoch |-> epoch,
                impl |-> [u \in kept |-> specs.impl[<<m, u>>]]]]
    <2>1. PICK m \in Messages, t \in Types :
            \E kept \in {{t}, {u \in Types : specs.impl[<<m, u>>] # D!Never}} :
              running' = [running EXCEPT ![j] =
                [at |-> "fill", message |-> m, epoch |-> epoch,
                 impl |-> [u \in kept |-> specs.impl[<<m, u>>]]]]
      BY DEF D!Look
    <2>2. {t} \in SUBSET Types /\ {u \in Types : specs.impl[<<m, u>>] # D!Never} \in SUBSET Types
      OBVIOUS
    <2>3. QED
      BY <2>1, <2>2
  <1>others. \A i \in Jobs : i # j => running'[i] = running[i]
    BY <1>pick DEF DefineInv
  <1>mine. running'[j] = [at |-> "fill", message |-> m, epoch |-> epoch,
                          impl |-> [u \in kept |-> specs.impl[<<m, u>>]]]
    BY <1>pick DEF DefineInv
  <1>1. SpecsInv'
    BY <1>same DEF SpecsInv
  <1>2. DefineInv'
    <2>1. running' = [i \in Jobs |-> running'[i]]
      BY <1>pick DEF DefineInv
    <2>2. QED
      BY <2>1, <1>same, <1>others, <1>mine DEF DefineInv
  <1>3. SendInv'
    <2>1. ASSUME NEW t \in kept
          PROVE  /\ specs.impl[<<m, t>>] \in Nat
                 /\ specs.impl[<<m, t>>] >= returned[<<m, t>>]
      BY SlotFacts DEF SpecsInv
    <2>2. epoch \in Nat
      BY DEF CacheInv
    <2>3. QED
      BY <2>1, <2>2, <1>same, <1>others, <1>mine DEF SendInv
  <1>4. CacheInv'
    BY <1>same DEF CacheInv
  <1>5. QED
    BY <1>1, <1>2, <1>3, <1>4

(* What is kept is what was found, or the send is torn.                       *)
LEMMA FillStep == ASSUME NEW j \in Jobs, DefInv, D!Fill(j) PROVE DefInv'
  <1> USE DEF DefInv
  <1> DEFINE m == running[j].message
             impl == running[j].impl
  <1>fill. running[j].at = "fill" /\ UNCHANGED <<specs, epoch, returned>>
    BY DEF D!Fill
  <1>running. running' = [running EXCEPT ![j] = D!Quiet]
    BY DEF D!Fill
  <1>m. m \in Messages /\ \A t \in DOMAIN impl : t \in Types /\ impl[t] \in Nat
    BY <1>fill DEF SendInv
  <1>same. \A i \in Jobs : i # j => running'[i] = running[i]
    BY <1>running DEF DefineInv
  <1>quiet. running'[j].at = "quiet"
    BY <1>running DEF DefineInv, D!Quiet
  <1>1. SpecsInv'
    BY <1>fill DEF SpecsInv
  <1>2. DefineInv'
    <2>1. running' = [i \in Jobs |-> running'[i]]
      BY <1>running DEF DefineInv
    <2>2. QED
      BY <2>1, <1>fill, <1>same, <1>quiet DEF DefineInv
  <1>3. SendInv'
    BY <1>fill, <1>same, <1>quiet DEF SendInv
  <1>4. CacheInv'
    <2>1. /\ cache' = [cache EXCEPT ![j][m] = [epoch |-> epoch, impl |-> impl]]
          /\ torn' = IF /\ epoch # running[j].epoch
                        /\ \E t \in DOMAIN impl : specs.impl[<<m, t>>] # impl[t]
                     THEN torn \cup {<<j, m>>} ELSE torn \ {<<j, m>>}
      BY DEF D!Fill
    <2>2. /\ cache' = [i \in Jobs |-> [n \in Messages |-> cache'[i][n]]]
          /\ cache'[j][m] = [epoch |-> epoch, impl |-> impl]
          /\ \A i \in Jobs, n \in Messages : <<i, n>> # <<j, m>> => cache'[i][n] = cache[i][n]
      BY <2>1, <1>m DEF CacheInv
    <2>3. \A i \in Jobs, n \in Messages :
            <<i, n>> # <<j, m>> => (<<i, n>> \in torn' <=> <<i, n>> \in torn)
      BY <2>1
    <2>4. ASSUME <<j, m>> \notin torn', NEW t \in DOMAIN impl
          PROVE  impl[t] >= returned[<<m, t>>]
      <3>1. CASE epoch = running[j].epoch
        BY <3>1, <1>fill DEF SendInv
      <3>2. CASE epoch # running[j].epoch
        <4>1. specs.impl[<<m, t>>] = impl[t]
          BY <2>1, <2>4, <3>2
        <4>2. <<m, t>> \in D!Slots
          BY <1>m, SlotFacts
        <4>3. QED
          BY <4>1, <4>2 DEF SpecsInv
      <3>3. QED
        BY <3>1, <3>2
    <2>5. epoch' \in Nat /\ epoch' = epoch
      BY <1>fill DEF CacheInv
    <2>6. ASSUME NEW i \in Jobs, NEW n \in Messages
          PROVE  /\ cache'[i][n].epoch \in Int /\ cache'[i][n].epoch <= epoch'
                 /\ \A t \in DOMAIN cache'[i][n].impl :
                      /\ t \in Types /\ cache'[i][n].impl[t] \in Nat
                      /\ cache'[i][n].epoch = epoch' /\ <<i, n>> \notin torn'
                           => cache'[i][n].impl[t] >= returned'[<<n, t>>]
      <3>1. CASE <<i, n>> = <<j, m>>
        <4>1. i = j /\ n = m
          BY <3>1
        <4>2. cache'[i][n].epoch = epoch /\ cache'[i][n].impl = impl
          BY <2>2, <4>1
        <4>3. QED
          BY <4>1, <4>2, <2>4, <2>5, <1>m, <1>fill
      <3>2. CASE <<i, n>> # <<j, m>>
        BY <3>2, <2>2, <2>3, <2>5, <1>fill DEF CacheInv
      <3>3. QED
        BY <3>1, <3>2
    <2>7. QED
      BY <2>2, <2>5, <2>6 DEF CacheInv
  <1>5. QED
    BY <1>1, <1>2, <1>3, <1>4

(* Every step of a definition or a send keeps the invariant.                  *)
LEMMA DefNext == DefInv /\ [D!Next]_defVars => DefInv'
  <1> SUFFICES ASSUME DefInv, [D!Next]_defVars PROVE DefInv'
    OBVIOUS
  <1>1. CASE D!Next
    BY <1>1, DefineStep, SwapStep, BumpStep, LookStep, FillStep DEF D!Next
  <1>2. CASE UNCHANGED defVars
    BY <1>2 DEF defVars, DefInv, SpecsInv, DefineInv, SendInv, CacheInv
  <1>3. QED
    BY <1>1, <1>2

(* What a send would run comes from the record, or from what is kept.         *)
LEMMA DefInvSees == DefInv => D!DefsSeen
  <1> SUFFICES ASSUME DefInv, NEW j \in Jobs, NEW m \in Messages, NEW t \in Types,
                      <<j, m>> \notin torn
               PROVE  D!WouldRun(j, m, t) >= returned[<<m, t>>]
    BY DEF D!DefsSeen
  <1>1. CASE D!Hits(j, m, t)
    BY <1>1 DEF DefInv, CacheInv, D!Hits, D!WouldRun
  <1>2. CASE ~D!Hits(j, m, t)
    BY <1>2, SlotFacts DEF DefInv, SpecsInv, D!WouldRun
  <1>3. QED
    BY <1>1, <1>2

-----------------------------------------------------------------------------
(* Remainders                                                                 *)

(* What is left of a division.                                                *)
LEMMA ModFacts ==
  ASSUME NEW n \in Nat \ {0}, NEW a \in Int
  PROVE  \E q \in Int, r \in 0..(n - 1) : r = a % n /\ a = q * n + r
  <1>1. \E q, r \in Int : q = a \div n /\ r = a % n /\ a = q * n + r
    BY SMTT(20)
  <1>2. a % n \in 0..(n - 1)
    OBVIOUS
  <1>3. QED
    BY <1>1, <1>2

(* A multiple of n that is closer to 0 than n is 0.                           *)
LEMMA NoMultiple ==
  ASSUME NEW n \in Nat \ {0}, NEW d \in Int, -n < d * n, d * n < n
  PROVE  d = 0
  <1>1. d >= 1 => d * n >= n
    OBVIOUS
  <1>2. d <= -1 => d * n <= -n
    OBVIOUS
  <1>3. QED
    BY <1>1, <1>2

(* There is only one way to divide.                                           *)
LEMMA ModUnique ==
  ASSUME NEW n \in Nat \ {0}, NEW q \in Int, NEW r \in 0..(n - 1), NEW a \in Int, a = q * n + r
  PROVE  a % n = r
  <1>1. PICK p \in Int, s \in 0..(n - 1) : s = a % n /\ a = p * n + s
    BY ModFacts
  <1>2. p * n + s = q * n + r
    BY <1>1
  <1>3. (p - q) * n = p * n - q * n
    OBVIOUS
  <1>4. (p - q) * n = r - s
    BY <1>2, <1>3
  <1>5. p - q = 0
    <2>1. PICK d \in Int : d = p - q
      OBVIOUS
    <2>2. d * n = r - s
      BY <1>4, <2>1
    <2>3. -n < d * n /\ d * n < n
      BY <2>2
    <2>4. QED
      BY <2>1, <2>3, NoMultiple
  <1>6. r = s
    BY <1>2, <1>5
  <1>7. QED
    BY <1>1, <1>6

(* What is smaller than n is left as it is.                                   *)
LEMMA ModSmall ==
  ASSUME NEW n \in Nat \ {0}, NEW r \in 0..(n - 1)
  PROVE  r % n = r
  <1>1. r = 0 * n + r
    OBVIOUS
  <1>2. QED
    BY <1>1, ModUnique

(* Positions may be reduced at any time.                                      *)
LEMMA ModAdd ==
  ASSUME NEW n \in Nat \ {0}, NEW a \in Int, NEW b \in Int
  PROVE  ((a % n) + b) % n = (a + b) % n
  <1>1. PICK q \in Int, x \in 0..(n - 1) : x = a % n /\ a = q * n + x
    BY ModFacts
  <1>2. PICK y \in Int : y = x + b
    OBVIOUS
  <1>3. PICK s \in Int, r \in 0..(n - 1) : r = y % n /\ y = s * n + r
    BY ModFacts
  <1>4. (q + s) * n = q * n + s * n
    OBVIOUS
  <1>5. a = q * n + x /\ y = s * n + r
    BY <1>1, <1>3
  <1>6. a + b = (q + s) * n + r
    BY <1>2, <1>4, <1>5
  <1>7. (a + b) % n = r
    <2>1. PICK p \in Int : p = q + s
      OBVIOUS
    <2>2. PICK z \in Int : z = a + b
      OBVIOUS
    <2>3. z = p * n + r
      BY <1>6, <2>1, <2>2
    <2>4. z % n = r
      BY <2>3, ModUnique
    <2>5. QED
      BY <2>2, <2>4
  <1>8. QED
    BY <1>1, <1>2, <1>3, <1>7

(* A position of the word is masked as the number it stands for.              *)
LEMMA ModMod ==
  ASSUME NEW n \in Nat \ {0}, NEW c \in Nat \ {0}, NEW k \in Nat, n = k * c, NEW a \in Int
  PROVE  (a % n) % c = a % c
  <1>1. PICK q \in Int, x \in 0..(n - 1) : x = a % n /\ a = q * n + x
    BY ModFacts
  <1>2. PICK s \in Int, r \in 0..(c - 1) : r = x % c /\ x = s * c + r
    BY ModFacts
  <1>3. PICK p \in Int : p = q * k + s
    OBVIOUS
  <1>4. a = q * n + x /\ x = s * c + r
    BY <1>1, <1>2
  <1>5. q * n = (q * k) * c
    OBVIOUS
  <1>6. p * c = (q * k) * c + s * c
    BY <1>3
  <1>7. a = p * c + r
    BY <1>4, <1>5, <1>6
  <1>8. a % c = r
    BY <1>7, ModUnique
  <1>9. QED
    BY <1>1, <1>2, <1>8

(* Numbers that are closer than n have different remainders.                  *)
LEMMA ModApart ==
  ASSUME NEW n \in Nat \ {0}, NEW a \in Int, NEW b \in Int, a < b, b < a + n
  PROVE  a % n # b % n
  <1>1. PICK p \in Int, r \in 0..(n - 1) : r = a % n /\ a = p * n + r
    BY ModFacts
  <1>2. PICK q \in Int, s \in 0..(n - 1) : s = b % n /\ b = q * n + s
    BY ModFacts
  <1>3. a = p * n + r /\ b = q * n + s
    BY <1>1, <1>2
  <1>4. r # s
    <2> SUFFICES ASSUME r = s PROVE FALSE
      OBVIOUS
    <2>1. PICK d \in Int : d = q - p
      OBVIOUS
    <2>2. d * n = q * n - p * n
      BY <2>1
    <2>3. d * n = b - a
      BY <1>3, <2>2
    <2>4. d = 0
      BY <2>3, NoMultiple
    <2>5. QED
      BY <2>3, <2>4
  <1>5. QED
    BY <1>1, <1>2, <1>4

(* What is left of a sum, for the numbers below n: each one once.             *)
LEMMA ModAll ==
  ASSUME NEW c \in Nat \ {0}, NEW h \in Nat
  PROVE  /\ \A i \in 0..(c - 1) : (h + i) % c \in 0..(c - 1)
         /\ \A i, j \in 0..(c - 1) : (h + i) % c = (h + j) % c => i = j
         /\ \A p \in 0..(c - 1) : \E i \in 0..(c - 1) : (h + i) % c = p
  <1>1. \A i \in 0..(c - 1) : (h + i) % c \in 0..(c - 1)
    OBVIOUS
  <1>2. ASSUME NEW i \in 0..(c - 1), NEW j \in 0..(c - 1), i < j
        PROVE  (h + i) % c # (h + j) % c
    <2>1. PICK a \in Int, b \in Int : a = h + i /\ b = h + j
      OBVIOUS
    <2>2. a < b /\ b < a + c
      BY <1>2, <2>1
    <2>3. a % c # b % c
      BY <2>2, ModApart
    <2>4. QED
      BY <2>1, <2>3
  <1>3. ASSUME NEW i \in 0..(c - 1), NEW j \in 0..(c - 1), (h + i) % c = (h + j) % c
        PROVE  i = j
    <2>1. ~(i < j) /\ ~(j < i)
      BY <1>2, <1>3
    <2>2. QED
      BY <2>1
  <1>4. ASSUME NEW p \in 0..(c - 1)
        PROVE  \E i \in 0..(c - 1) : (h + i) % c = p
    <2>1. PICK a \in Int, g \in Int : a = p - h /\ g = h
      OBVIOUS
    <2>2. PICK i \in 0..(c - 1) : i = a % c
      <3>1. a % c \in 0..(c - 1)
        OBVIOUS
      <3>2. QED
        BY <3>1
    <2>3. ((a % c) + g) % c = (a + g) % c
      BY ModAdd
    <2>4. a + g = p
      BY <2>1
    <2>5. p % c = p
      BY ModSmall
    <2>6. (i + g) % c = p
      BY <2>2, <2>3, <2>4, <2>5
    <2>7. i + g = h + i
      BY <2>1
    <2>8. QED
      BY <2>6, <2>7
  <1>5. QED
    BY <1>1, <1>3, <1>4

-----------------------------------------------------------------------------
(* Tables: a table is one in which every search ends where it should          *)

(* Hashes are numbers, and a table has three buckets or more.                 *)
TableGiven ==
  /\ Address \in [Objects -> Nat]
  /\ TableCap \in Nat /\ TableCap >= 3
  /\ Byte \in Nat \ {0}

(* The buckets there can be, and those that were used.                        *)
Bucket == [status : {"empty", C!D!Tombstone, C!D!Full}, key : Objects \cup {Byte}, val : Nat]

Used(d) == {p \in 0..(d.cap - 1) : d.buckets[p].status # "empty"}

FullAt(d, p) == p \in 0..(d.cap - 1) /\ d.buckets[p].status = C!D!Full

(* The search for the key comes to p and passes no empty bucket before.       *)
Reaches(d, key, p) ==
  \E i \in 0..(d.cap - 1) :
    /\ C!D!ProbeAt(d, key, i) = p
    /\ \A j \in 0..(i - 1) : d.buckets[C!D!ProbeAt(d, key, j)].status # "empty"

(* The length is the number of used buckets; a key is in one, on its way.     *)
IsTable(d) ==
  /\ d = [len |-> d.len, cap |-> d.cap, buckets |-> d.buckets]
  /\ d.cap \in Nat /\ d.cap >= 3
  /\ d.buckets \in [0..(d.cap - 1) -> Bucket]
  /\ d.len = Cardinality(Used(d))
  /\ \A p, q : FullAt(d, p) /\ FullAt(d, q) /\ d.buckets[p].key = d.buckets[q].key => p = q
  /\ \A p : FullAt(d, p) => d.buckets[p].key \in Objects /\ Reaches(d, d.buckets[p].key, p)

(* The table has the key.                                                     *)
Has(d, key) == \E p : FullAt(d, p) /\ d.buckets[p].key = key

(* The table says val of the key.                                             *)
Says(d, key, val) == \E p : FullAt(d, p) /\ d.buckets[p].key = key /\ d.buckets[p].val = val

(* The buckets where the search for a key looks: all, each one once.          *)
LEMMA ProbeFacts ==
  ASSUME TableGiven, NEW d, IsTable(d), NEW key \in Objects
  PROVE  /\ \A i \in 0..(d.cap - 1) : C!D!ProbeAt(d, key, i) \in 0..(d.cap - 1)
         /\ \A i, j \in 0..(d.cap - 1) : C!D!ProbeAt(d, key, i) = C!D!ProbeAt(d, key, j) => i = j
         /\ \A p \in 0..(d.cap - 1) : \E i \in 0..(d.cap - 1) : C!D!ProbeAt(d, key, i) = p
  <1>1. PICK c \in Nat \ {0} : c = d.cap
    BY DEF IsTable
  <1>2. PICK h \in Nat : h = Address[key]
    BY DEF TableGiven
  <1>3. /\ \A i \in 0..(c - 1) : (h + i) % c \in 0..(c - 1)
        /\ \A i, j \in 0..(c - 1) : (h + i) % c = (h + j) % c => i = j
        /\ \A p \in 0..(c - 1) : \E i \in 0..(c - 1) : (h + i) % c = p
    BY ModAll
  <1>4. \A i : C!D!ProbeAt(d, key, i) = (h + i) % c
    BY <1>1, <1>2 DEF C!D!ProbeAt
  <1>5. QED
    BY <1>1, <1>3, <1>4

(* A set of naturals that is not empty has a least member.                    *)
LEMMA HasLeast ==
  ASSUME NEW S \in SUBSET Nat, S # {}
  PROVE  \E k \in S : \A i \in S : k <= i
  <1>1. \E x \in S : \A y \in S : ~ (<<y, x>> \in OpToRel(<, Nat))
    BY WFMin, NatLessThanWellFounded, Zenon
  <1>2. ASSUME NEW x \in Nat, NEW y \in Nat, ~ (<<y, x>> \in OpToRel(<, Nat))
        PROVE  x <= y
    <2>1. <<y, x>> \in Nat \X Nat
      OBVIOUS
    <2>2. ~ (y < x)
      BY <2>1, <1>2, Zenon DEF OpToRel
    <2>3. QED
      BY <2>2
  <1>3. QED
    BY <1>1, <1>2, Zenon

(* It is the one that is chosen.                                              *)
LEMMA LeastIs ==
  ASSUME NEW S \in SUBSET Nat, S # {}
  PROVE  C!D!Least(S) \in S /\ \A i \in S : C!D!Least(S) <= i
  <1>1. \E k \in S : \A i \in S : k <= i
    BY HasLeast
  <1>2. QED
    BY <1>1, Zenon DEF C!D!Least

(* What is used is some of the places.                                        *)
LEMMA UsedFacts ==
  ASSUME NEW d, IsTable(d)
  PROVE  /\ IsFiniteSet(Used(d)) /\ d.len \in Nat /\ d.len <= d.cap
         /\ d.len < d.cap => \E p \in 0..(d.cap - 1) : d.buckets[p].status = "empty"
         /\ d.len = 0 => \A p : ~FullAt(d, p)
  <1>1. PICK c \in Nat \ {0} : c = d.cap
    BY DEF IsTable
  <1>2. IsFiniteSet(0..(c - 1)) /\ Cardinality(0..(c - 1)) = c
    <2>1. 0 \in Int /\ c - 1 \in Int /\ 0 <= c - 1 /\ (c - 1) - 0 + 1 = c
      OBVIOUS
    <2>2. QED
      BY <2>1, FS_Interval
  <1>3. Used(d) \subseteq 0..(c - 1)
    BY <1>1 DEF Used
  <1>4. IsFiniteSet(Used(d)) /\ Cardinality(Used(d)) <= c
    BY <1>2, <1>3, FS_Subset
  <1>5. d.len = Cardinality(Used(d)) /\ d.len \in Nat
    BY <1>4, FS_CardinalityType DEF IsTable
  <1>6. ASSUME d.len < c PROVE \E p \in 0..(c - 1) : d.buckets[p].status = "empty"
    <2>1. Used(d) # 0..(c - 1)
      BY <1>2, <1>5, <1>6
    <2>2. PICK p \in 0..(c - 1) : p \notin Used(d)
      BY <1>3, <2>1
    <2>3. QED
      BY <1>1, <2>2 DEF Used
  <1>7. ASSUME d.len = 0, NEW p PROVE ~FullAt(d, p)
    <2>1. Used(d) = {}
      BY <1>4, <1>5, <1>7, FS_EmptySet
    <2>2. QED
      BY <2>1 DEF Used, FullAt, C!D!Full
  <1>8. QED
    BY <1>1, <1>4, <1>5, <1>6, <1>7

(* d_index_of: the bucket with the key; without one, a bucket that is not full*)
(* and that the search for the key comes to.                                  *)
LEMMA IndexIs ==
  ASSUME TableGiven, NEW d, IsTable(d), d.len < d.cap, NEW key \in Objects
  PROVE  /\ C!D!IndexOf(d, key) \in 0..(d.cap - 1)
         /\ \A p : FullAt(d, p) /\ d.buckets[p].key = key => C!D!IndexOf(d, key) = p
         /\ ~Has(d, key) => /\ ~FullAt(d, C!D!IndexOf(d, key))
                            /\ Reaches(d, key, C!D!IndexOf(d, key))
  <1> DEFINE P(i) == C!D!ProbeAt(d, key, i)
             S == C!D!Stops(d, key)
             stop == C!D!Least(S)
             there == d.buckets[P(stop)].status = C!D!Full
             tombs == {i \in C!D!Tombstones(d, key) : i < stop}
  <1>1. /\ \A i \in 0..(d.cap - 1) : P(i) \in 0..(d.cap - 1)
        /\ \A i, j \in 0..(d.cap - 1) : P(i) = P(j) => i = j
        /\ \A p \in 0..(d.cap - 1) : \E i \in 0..(d.cap - 1) : P(i) = p
    BY ProbeFacts
  <1>2. C!D!IndexOf(d, key) = IF there \/ tombs = {} THEN P(stop) ELSE P(C!D!Least(tombs))
    BY DEF C!D!IndexOf
  <1>3. S = {i \in 0..(d.cap - 1) : \/ d.buckets[P(i)].status = "empty"
                                    \/ FullAt(d, P(i)) /\ d.buckets[P(i)].key = key}
    BY <1>1 DEF C!D!Stops, FullAt
  <1>4. C!D!Tombstones(d, key) = {i \in 0..(d.cap - 1) : d.buckets[P(i)].status = C!D!Tombstone}
    BY DEF C!D!Tombstones
  <1>5. d.cap \in Nat
    BY DEF IsTable
  <1> HIDE DEF P, S
  <1>6. S \in SUBSET Nat /\ S # {} /\ S \subseteq 0..(d.cap - 1)
    <2>1. PICK p \in 0..(d.cap - 1) : d.buckets[p].status = "empty"
      BY UsedFacts
    <2>2. PICK i \in 0..(d.cap - 1) : P(i) = p
      BY <1>1
    <2>3. i \in S
      BY <1>3, <2>1, <2>2
    <2>4. QED
      BY <1>3, <1>5, <2>3
  <1>7. stop \in S /\ \A i \in S : stop <= i
    BY <1>6, LeastIs
  <1> HIDE DEF stop
  <1>8. stop \in 0..(d.cap - 1) /\ stop \in Nat
    BY <1>6, <1>7
  <1>9. ASSUME NEW i \in 0..(stop - 1)
        PROVE  i \in 0..(d.cap - 1) /\ d.buckets[P(i)].status # "empty"
    <2>1. i \in 0..(d.cap - 1) /\ i \notin S
      BY <1>5, <1>7, <1>8
    <2>2. QED
      BY <1>3, <2>1
  <1>10. tombs \in SUBSET Nat /\ tombs \subseteq 0..(stop - 1)
    BY <1>4, <1>5, <1>8
  <1>11. tombs # {} => C!D!Least(tombs) \in tombs
    BY <1>10, LeastIs
  <1>12. C!D!IndexOf(d, key) \in 0..(d.cap - 1)
    <2>1. tombs # {} => C!D!Least(tombs) \in 0..(d.cap - 1)
      BY <1>9, <1>10, <1>11
    <2>2. QED
      BY <1>1, <1>2, <1>8, <2>1
  <1>13. ASSUME NEW p, FullAt(d, p), d.buckets[p].key = key
         PROVE  C!D!IndexOf(d, key) = p
    <2>1. PICK i \in 0..(d.cap - 1) :
            /\ P(i) = p
            /\ \A j \in 0..(i - 1) : d.buckets[P(j)].status # "empty"
      BY <1>13 DEF IsTable, Reaches, P
    <2>2. i \in S
      BY <1>3, <1>13, <2>1
    <2>3. stop <= i
      BY <1>7, <2>2
    <2>4. stop = i
      <3>1. SUFFICES ASSUME stop < i PROVE FALSE
        BY <1>8, <2>3
      <3>2. d.buckets[P(stop)].status # "empty"
        BY <1>8, <2>1, <3>1
      <3>3. FullAt(d, P(stop)) /\ d.buckets[P(stop)].key = key
        BY <1>3, <1>7, <3>2
      <3>4. P(stop) = p
        BY <1>13, <3>3 DEF IsTable
      <3>5. QED
        BY <1>1, <1>8, <2>1, <3>1, <3>4
    <2>5. there
      BY <1>13, <2>1, <2>4 DEF FullAt
    <2>6. QED
      BY <1>2, <2>1, <2>4, <2>5
  <1>14. ASSUME ~Has(d, key)
         PROVE  ~FullAt(d, C!D!IndexOf(d, key)) /\ Reaches(d, key, C!D!IndexOf(d, key))
    <2>1. d.buckets[P(stop)].status = "empty"
      BY <1>3, <1>7, <1>14 DEF Has
    <2>2. ~there
      BY <2>1 DEF C!D!Full
    <2>3. PICK i \in 0..stop : C!D!IndexOf(d, key) = P(i) /\ d.buckets[P(i)].status # C!D!Full
      <3>1. CASE tombs = {}
        BY <1>2, <1>8, <2>2, <3>1
      <3>2. CASE tombs # {}
        <4>1. C!D!Least(tombs) \in 0..stop
          BY <1>8, <1>10, <1>11, <3>2
        <4>2. d.buckets[P(C!D!Least(tombs))].status # C!D!Full
          BY <1>4, <1>11, <3>2 DEF C!D!Tombstone, C!D!Full
        <4>3. QED
          BY <1>2, <2>2, <3>2, <4>1, <4>2
      <3>3. QED
        BY <3>1, <3>2
    <2>4. i \in 0..(d.cap - 1) /\ \A j \in 0..(i - 1) : d.buckets[P(j)].status # "empty"
      <3>1. \A j \in 0..(i - 1) : j \in 0..(stop - 1)
        BY <1>8
      <3>2. i \in 0..(d.cap - 1)
        BY <1>5, <1>8
      <3>3. QED
        BY <1>9, <3>1, <3>2
    <2>5. QED
      BY <2>3, <2>4 DEF Reaches, FullAt, P
  <1>15. QED
    BY <1>12, <1>13, <1>14

(* d_read                                                                     *)
LEMMA ReadIs ==
  ASSUME TableGiven, NEW d, IsTable(d), d.len < d.cap, NEW key \in Objects
  PROVE  /\ \A val : Says(d, key, val) => C!D!Read(d, key) = val
         /\ ~Has(d, key) => C!D!Read(d, key) = Byte
  <1>1. /\ C!D!IndexOf(d, key) \in 0..(d.cap - 1)
        /\ \A p : FullAt(d, p) /\ d.buckets[p].key = key => C!D!IndexOf(d, key) = p
        /\ ~Has(d, key) => ~FullAt(d, C!D!IndexOf(d, key))
    BY IndexIs
  <1>2. PICK i : i = C!D!IndexOf(d, key)
    OBVIOUS
  <1>3. C!D!Read(d, key) = IF d.len = 0 \/ d.buckets[i].status # C!D!Full THEN Byte
                       ELSE d.buckets[i].val
    BY <1>2 DEF C!D!Read
  <1>4. ASSUME NEW val, Says(d, key, val) PROVE C!D!Read(d, key) = val
    <2>1. PICK p : FullAt(d, p) /\ d.buckets[p].key = key /\ d.buckets[p].val = val
      BY <1>4 DEF Says
    <2>2. p = i /\ d.len # 0
      BY <1>1, <1>2, <2>1, UsedFacts
    <2>3. QED
      BY <1>3, <2>1, <2>2 DEF FullAt
  <1>5. ASSUME ~Has(d, key) PROVE C!D!Read(d, key) = Byte
    <2>1. d.buckets[i].status # C!D!Full
      BY <1>1, <1>2, <1>5 DEF FullAt
    <2>2. QED
      BY <1>3, <2>1
  <1>6. QED
    BY <1>4, <1>5

(* A table where one bucket changed and none became empty.                    *)
LEMMA Reached ==
  ASSUME NEW d, NEW e, e.cap = d.cap, NEW key, NEW p, Reaches(d, key, p),
         \A q \in 0..(d.cap - 1) : d.buckets[q].status # "empty" => e.buckets[q].status # "empty",
         \A i \in 0..(d.cap - 1) : C!D!ProbeAt(d, key, i) \in 0..(d.cap - 1), d.cap \in Nat
  PROVE  Reaches(e, key, p)
  <1>1. PICK i \in 0..(d.cap - 1) :
          /\ C!D!ProbeAt(d, key, i) = p
          /\ \A j \in 0..(i - 1) : d.buckets[C!D!ProbeAt(d, key, j)].status # "empty"
    BY DEF Reaches
  <1>2. \A j : C!D!ProbeAt(e, key, j) = C!D!ProbeAt(d, key, j)
    BY DEF C!D!ProbeAt
  <1>3. \A j \in 0..(i - 1) : e.buckets[C!D!ProbeAt(d, key, j)].status # "empty"
    BY <1>1
  <1>4. QED
    BY <1>1, <1>2, <1>3 DEF Reaches

(* d_insert, once there is room.                                              *)
LEMMA StoreIs ==
  ASSUME TableGiven, NEW d, IsTable(d), d.len < d.cap, NEW key \in Objects, NEW val \in Nat
  PROVE  /\ IsTable(C!D!Store(d, key, val))
         /\ C!D!Store(d, key, val).cap = d.cap /\ C!D!Store(d, key, val).len <= d.len + 1
         /\ \A k, v : Says(C!D!Store(d, key, val), k, v) <=>
                        IF k = key THEN v = val ELSE Says(d, k, v)
  <1>1. PICK at \in 0..(d.cap - 1) :
          /\ at = C!D!IndexOf(d, key)
          /\ \A p : FullAt(d, p) /\ d.buckets[p].key = key => at = p
          /\ ~Has(d, key) => ~FullAt(d, at) /\ Reaches(d, key, at)
    BY IndexIs
  <1>2. PICK new \in Bucket : new = [status |-> C!D!Full, key |-> key, val |-> val]
    BY DEF Bucket, C!D!Full
  <1>3. PICK e : e = C!D!Store(d, key, val)
    OBVIOUS
  <1>4. e = [len     |-> d.len + (IF d.buckets[at].status = "empty" THEN 1 ELSE 0),
             cap     |-> d.cap,
             buckets |-> [d.buckets EXCEPT ![at] = new]]
    BY <1>1, <1>2, <1>3 DEF C!D!Store
  <1>5. /\ e.cap = d.cap /\ e.buckets \in [0..(d.cap - 1) -> Bucket] /\ e.buckets[at] = new
        /\ \A p \in 0..(d.cap - 1) : p # at => e.buckets[p] = d.buckets[p]
        /\ e = [len |-> e.len, cap |-> e.cap, buckets |-> e.buckets]
        /\ e.len = d.len + (IF d.buckets[at].status = "empty" THEN 1 ELSE 0)
    BY <1>4 DEF IsTable
  <1>6. d.len \in Nat /\ d.cap \in Nat /\ d.cap >= 3
    BY UsedFacts DEF IsTable
  <1>7. new.status = C!D!Full /\ new.key = key /\ new.val = val /\ C!D!Full # "empty"
    BY <1>2 DEF C!D!Full
  <1>8. \A p : FullAt(e, p) <=> p = at \/ (p # at /\ FullAt(d, p))
    BY <1>5, <1>7 DEF FullAt
  <1>9. e.len = Cardinality(Used(e))
    <2>1. Used(e) = Used(d) \cup {at}
      BY <1>5, <1>7 DEF Used
    <2>2. IsFiniteSet(Used(d)) /\ d.len = Cardinality(Used(d))
      BY UsedFacts DEF IsTable
    <2>3. CASE d.buckets[at].status = "empty"
      <3>1. at \notin Used(d)
        BY <2>3 DEF Used
      <3>2. Cardinality(Used(d) \cup {at}) = Cardinality(Used(d)) + 1
        BY <2>2, <3>1, FS_AddElement
      <3>3. QED
        BY <1>5, <2>1, <2>2, <2>3, <3>2
    <2>4. CASE d.buckets[at].status # "empty"
      <3>1. Used(d) \cup {at} = Used(d)
        BY <2>4 DEF Used
      <3>2. e.len = d.len
        BY <1>5, <1>6, <2>4
      <3>3. QED
        BY <2>1, <2>2, <3>1, <3>2
    <2>5. QED
      BY <2>3, <2>4
  <1>10. ASSUME NEW p, NEW q, FullAt(e, p), FullAt(e, q), e.buckets[p].key = e.buckets[q].key
         PROVE  p = q
    <2>1. ASSUME NEW r, r # at, FullAt(e, r) PROVE e.buckets[r].key # key /\ FullAt(d, r) /\ e.buckets[r] = d.buckets[r]
      BY <1>1, <1>5, <1>8, <2>1 DEF FullAt
    <2>2. e.buckets[at].key = key
      BY <1>5, <1>7
    <2>3. QED
      BY <1>10, <2>1, <2>2 DEF IsTable
  <1>11. ASSUME NEW p, FullAt(e, p)
         PROVE  e.buckets[p].key \in Objects /\ Reaches(e, e.buckets[p].key, p)
    <2>1. \A q \in 0..(d.cap - 1) : d.buckets[q].status # "empty" => e.buckets[q].status # "empty"
      BY <1>5, <1>7
    <2>2. ASSUME NEW k \in Objects, Reaches(d, k, p) PROVE Reaches(e, k, p)
      <3>1. \A i \in 0..(d.cap - 1) : C!D!ProbeAt(d, k, i) \in 0..(d.cap - 1)
        BY ProbeFacts
      <3>2. QED
        BY <1>5, <1>6, <2>1, <2>2, <3>1, Reached
    <2>3. CASE p = at
      <3>1. e.buckets[p].key = key
        BY <1>5, <1>7, <2>3
      <3>2. Reaches(d, key, p)
        <4>1. CASE Has(d, key)
          BY <1>1, <2>3, <4>1 DEF Has, IsTable
        <4>2. CASE ~Has(d, key)
          BY <1>1, <2>3, <4>2
        <4>3. QED
          BY <4>1, <4>2
      <3>3. QED
        BY <2>2, <3>1, <3>2
    <2>4. CASE p # at
      <3>1. FullAt(d, p) /\ e.buckets[p] = d.buckets[p]
        BY <1>5, <1>8, <1>11, <2>4 DEF FullAt
      <3>2. d.buckets[p].key \in Objects /\ Reaches(d, d.buckets[p].key, p)
        BY <3>1 DEF IsTable
      <3>3. QED
        BY <2>2, <3>1, <3>2
    <2>5. QED
      BY <2>3, <2>4
  <1>12. ASSUME NEW k, NEW v
         PROVE  Says(e, k, v) <=> IF k = key THEN v = val ELSE Says(d, k, v)
    <2>1. FullAt(e, at) /\ e.buckets[at].key = key /\ e.buckets[at].val = val
      BY <1>5, <1>7, <1>8
    <2>2. ASSUME NEW p, p # at
          PROVE  FullAt(e, p) <=> FullAt(d, p) /\ d.buckets[p].key # key
      BY <1>1, <1>8, <2>2
    <2>3. ASSUME NEW p, p # at, FullAt(d, p) PROVE e.buckets[p] = d.buckets[p]
      BY <1>5, <2>3 DEF FullAt
    <2>4. CASE k = key
      BY <2>1, <2>2, <2>3, <2>4 DEF Says
    <2>5. CASE k # key
      <3>1. ASSUME NEW p, FullAt(d, p), d.buckets[p].key = k PROVE p # at
        BY <1>1, <2>5, <3>1 DEF Has
      <3>2. QED
        BY <2>1, <2>2, <2>3, <2>5, <3>1 DEF Says
    <2>6. QED
      BY <2>4, <2>5
  <1>13. IsTable(e)
    BY <1>5, <1>6, <1>9, <1>10, <1>11 DEF IsTable
  <1>14. e.len <= d.len + 1
    BY <1>5, <1>6
  <1>15. QED
    BY <1>3, <1>5, <1>12, <1>13, <1>14

(* d_remove                                                                   *)
LEMMA RemoveIs ==
  ASSUME TableGiven, NEW d, IsTable(d), d.len < d.cap, NEW key \in Objects
  PROVE  /\ IsTable(C!D!RemoveKey(d, key))
         /\ C!D!RemoveKey(d, key).cap = d.cap /\ C!D!RemoveKey(d, key).len = d.len
         /\ \A k, v : Says(C!D!RemoveKey(d, key), k, v) <=> k # key /\ Says(d, k, v)
  <1>1. PICK at \in 0..(d.cap - 1) :
          /\ at = C!D!IndexOf(d, key)
          /\ \A p : FullAt(d, p) /\ d.buckets[p].key = key => at = p
          /\ ~Has(d, key) => ~FullAt(d, at)
    BY IndexIs
  <1>2. CASE ~Has(d, key)
    <2>1. C!D!RemoveKey(d, key) = d
      BY <1>1, <1>2 DEF C!D!RemoveKey, FullAt
    <2>2. ASSUME NEW v PROVE ~Says(d, key, v)
      BY <1>2 DEF Has, Says
    <2>3. QED
      BY <2>1, <2>2
  <1>3. CASE Has(d, key)
    <2>1. FullAt(d, at) /\ d.buckets[at].key = key /\ d.len # 0
      BY <1>1, <1>3, UsedFacts DEF Has
    <2>2. PICK old \in Bucket : old = d.buckets[at]
      BY DEF IsTable
    <2>3. PICK new \in Bucket : new = [old EXCEPT !.status = C!D!Tombstone]
      BY DEF Bucket
    <2>4. new.status = C!D!Tombstone
      BY <2>3 DEF Bucket
    <2>5. PICK e : e = C!D!RemoveKey(d, key)
      OBVIOUS
    <2>6. e = [len |-> d.len, cap |-> d.cap, buckets |-> [d.buckets EXCEPT ![at] = new]]
      <3>1. e = [d EXCEPT !.buckets[at].status = C!D!Tombstone]
        BY <1>1, <2>1, <2>5, Zenon DEF C!D!RemoveKey, FullAt
      <3>2. PICK l, c, b : l = d.len /\ c = d.cap /\ b = d.buckets
        OBVIOUS
      <3>3. d = [len |-> l, cap |-> c, buckets |-> b]
        BY <3>2 DEF IsTable
      <3>4. b[at] = old
        BY <2>2, <3>2
      <3>5. e = [len |-> l, cap |-> c, buckets |-> [b EXCEPT ![at] = new]]
        BY <2>3, <3>1, <3>3, <3>4
      <3>6. QED
        BY <3>2, <3>5
    <2>7. /\ e.cap = d.cap /\ e.len = d.len
          /\ e.buckets \in [0..(d.cap - 1) -> Bucket] /\ e.buckets[at] = new
          /\ \A p \in 0..(d.cap - 1) : p # at => e.buckets[p] = d.buckets[p]
          /\ e = [len |-> e.len, cap |-> e.cap, buckets |-> e.buckets]
      BY <2>6 DEF IsTable
    <2>8. d.len \in Nat /\ d.cap \in Nat /\ d.cap >= 3
      BY UsedFacts DEF IsTable
    <2>9. C!D!Tombstone # "empty" /\ C!D!Tombstone # C!D!Full /\ C!D!Full # "empty"
      BY DEF C!D!Tombstone, C!D!Full
    <2>10. \A p : FullAt(e, p) <=> p # at /\ FullAt(d, p)
      BY <2>4, <2>7, <2>9 DEF FullAt
    <2>11. \A p : FullAt(e, p) => e.buckets[p] = d.buckets[p]
      BY <2>7, <2>10 DEF FullAt
    <2>12. Used(e) = Used(d)
      BY <2>1, <2>4, <2>7, <2>9 DEF Used, FullAt
    <2>13. ASSUME NEW p, FullAt(e, p)
           PROVE  e.buckets[p].key \in Objects /\ Reaches(e, e.buckets[p].key, p)
      <3>1. FullAt(d, p) /\ e.buckets[p] = d.buckets[p]
        BY <2>10, <2>11, <2>13
      <3>2. PICK k \in Objects : k = d.buckets[p].key /\ Reaches(d, k, p)
        BY <3>1 DEF IsTable
      <3>3. \A q \in 0..(d.cap - 1) : d.buckets[q].status # "empty" => e.buckets[q].status # "empty"
        BY <2>4, <2>7, <2>9
      <3>4. \A i \in 0..(d.cap - 1) : C!D!ProbeAt(d, k, i) \in 0..(d.cap - 1)
        BY ProbeFacts
      <3>5. Reaches(e, k, p)
        BY <2>7, <2>8, <3>2, <3>3, <3>4, Reached
      <3>6. QED
        BY <3>1, <3>2, <3>5
    <2>14. ASSUME NEW p, NEW q, FullAt(e, p), FullAt(e, q), e.buckets[p].key = e.buckets[q].key
           PROVE  p = q
      BY <2>10, <2>11, <2>14 DEF IsTable
    <2>15. IsTable(e)
      <3>1. d.len = Cardinality(Used(d))
        BY DEF IsTable
      <3>2. QED
        BY <2>7, <2>8, <2>12, <2>13, <2>14, <3>1 DEF IsTable
    <2>16. ASSUME NEW k, NEW v PROVE Says(e, k, v) <=> k # key /\ Says(d, k, v)
      <3>1. \A p : FullAt(e, p) <=> FullAt(d, p) /\ d.buckets[p].key # key
        BY <1>1, <2>1, <2>10
      <3>2. QED
        BY <2>11, <3>1 DEF Says
    <2>17. QED
      BY <2>5, <2>7, <2>15, <2>16
  <1>4. QED
    BY <1>2, <1>3

(* d_create                                                                   *)
LEMMA CreateIs ==
  ASSUME TableGiven, NEW cap \in Nat, cap >= 3
  PROVE  /\ IsTable(C!D!Create(cap)) /\ C!D!Create(cap).cap = cap /\ C!D!Create(cap).len = 0
         /\ \A k, v : ~Says(C!D!Create(cap), k, v)
  <1>1. PICK e : e = C!D!Create(cap)
    OBVIOUS
  <1>2. e.cap = cap /\ e.len = 0 /\ e = [len |-> e.len, cap |-> e.cap, buckets |-> e.buckets]
        /\ e.buckets = [i \in 0..(cap - 1) |-> C!D!Empty]
    BY <1>1 DEF C!D!Create
  <1>3. C!D!Empty \in Bucket /\ C!D!Empty.status = "empty"
    BY DEF C!D!Empty, Bucket, TableGiven
  <1>4. e.buckets \in [0..(cap - 1) -> Bucket] /\ Used(e) = {}
    BY <1>2, <1>3 DEF Used
  <1>5. \A p : ~FullAt(e, p)
    BY <1>2, <1>3 DEF FullAt, C!D!Full
  <1>6. e.len = Cardinality(Used(e))
    BY <1>2, <1>4, FS_EmptySet
  <1>7. IsTable(e)
    BY <1>2, <1>4, <1>5, <1>6 DEF IsTable
  <1>8. QED
    BY <1>1, <1>2, <1>5, <1>7 DEF Says

(* What one bucket adds to the new table.                                     *)
Carry(to, b) == IF b.status = C!D!Full THEN C!D!Store(to, b.key, b.val) ELSE to

(* The tables that come one after the other, the first n of them.             *)
Tables(d, cap, f, n) ==
  f = [i \in 0..n |-> IF i = 0 THEN C!D!Create(cap) ELSE Carry(f[i - 1], d.buckets[i - 1])]

(* There are such tables, by induction.                                       *)
LEMMA HasTables ==
  ASSUME NEW d, NEW cap, NEW n \in Nat
  PROVE  \E f : Tables(d, cap, f, n)
  <1> DEFINE Without == {i \in 0..n : ~ \E f : Tables(d, cap, f, i)}
  <1>1. SUFFICES ASSUME Without # {} PROVE FALSE
    BY n \in 0..n
  <1>2. PICK m \in Without : \A i \in Without : m <= i
    BY <1>1, HasLeast, Without \in SUBSET Nat
  <1>3. m \in 0..n /\ ~ \E f : Tables(d, cap, f, m)
    BY <1>2
  <1>4. CASE m = 0
    <2>1. PICK f : f = [i \in 0..0 |-> C!D!Create(cap)]
      OBVIOUS
    <2>2. f = [i \in 0..0 |-> IF i = 0 THEN C!D!Create(cap) ELSE Carry(f[i - 1], d.buckets[i - 1])]
      BY <2>1
    <2>3. QED
      BY <1>3, <1>4, <2>2 DEF Tables
  <1>5. CASE m # 0
    <2>1. PICK k \in 0..n : m = k + 1
      BY <1>3, <1>5
    <2>2. k \notin Without
      BY <1>2, <2>1
    <2>3. PICK f : Tables(d, cap, f, k)
      BY <2>2
    <2>4. f = [i \in 0..k |-> IF i = 0 THEN C!D!Create(cap) ELSE Carry(f[i - 1], d.buckets[i - 1])]
      BY <2>3 DEF Tables
    <2>5. PICK g : g = [i \in 0..m |-> IF i <= k THEN f[i] ELSE Carry(f[k], d.buckets[k])]
      OBVIOUS
    <2>6. ASSUME NEW i \in 0..m
          PROVE  g[i] = IF i = 0 THEN C!D!Create(cap) ELSE Carry(g[i - 1], d.buckets[i - 1])
      <3>1. CASE i = 0
        <4>1. g[i] = f[0] /\ 0 \in 0..k
          BY <2>1, <2>5, <3>1
        <4>2. f[0] = C!D!Create(cap)
          BY <2>4, <4>1
        <4>3. QED
          BY <3>1, <4>1, <4>2
      <3>2. CASE i # 0
        <4>1. i - 1 \in 0..k /\ i - 1 \in 0..m
          BY <2>1, <3>2
        <4>2. g[i - 1] = f[i - 1]
          BY <2>5, <4>1
        <4>3. CASE i <= k
          <5>1. g[i] = f[i] /\ i \in 0..k
            BY <2>5, <4>3
          <5>2. f[i] = Carry(f[i - 1], d.buckets[i - 1])
            BY <2>4, <3>2, <5>1
          <5>3. QED
            BY <3>2, <4>2, <5>1, <5>2
        <4>4. CASE ~(i <= k)
          <5>1. i - 1 = k
            BY <2>1, <4>4
          <5>2. g[i] = Carry(f[k], d.buckets[k])
            BY <2>5, <4>4
          <5>3. QED
            BY <3>2, <4>2, <5>1, <5>2
        <4>5. QED
          BY <4>3, <4>4
      <3>3. QED
        BY <3>1, <3>2
    <2>7. g = [i \in 0..m |-> g[i]]
      BY <2>5
    <2>8. g = [i \in 0..m |-> IF i = 0 THEN C!D!Create(cap) ELSE Carry(g[i - 1], d.buckets[i - 1])]
      BY <2>6, <2>7
    <2>9. QED
      BY <1>3, <2>8 DEF Tables
  <1>6. QED
    BY <1>4, <1>5

(* So the tables of d_cap are those.                                          *)
LEMMA MovedIs ==
  ASSUME NEW d, d.cap \in Nat, NEW cap
  PROVE  Tables(d, cap, C!D!Moved(d, cap), d.cap)
  <1>1. \E f : Tables(d, cap, f, d.cap)
    BY HasTables
  <1>2. C!D!Moved(d, cap) = CHOOSE f : Tables(d, cap, f, d.cap)
    BY DEF C!D!Moved, Tables, Carry
  <1>3. QED
    BY <1>1, <1>2

(* The n-th of these tables has what the first n buckets have.                *)
HasFirst(d, cap, e, n) ==
  /\ IsTable(e) /\ e.cap = cap /\ e.len <= n
  /\ \A k, v : Says(e, k, v) <=> \E p \in 0..(n - 1) :
                                   FullAt(d, p) /\ d.buckets[p].key = k /\ d.buckets[p].val = v

(* What the n-th bucket brings to the new table.                              *)
LEMMA CarryIs ==
  ASSUME TableGiven, NEW d, IsTable(d), NEW cap \in Nat, cap > d.cap,
         NEW e, NEW n \in 0..(d.cap - 1), HasFirst(d, cap, e, n)
  PROVE  HasFirst(d, cap, Carry(e, d.buckets[n]), n + 1)
  <1>1. d.cap \in Nat /\ d.buckets[n] \in Bucket /\ n \in Nat
    BY DEF IsTable
  <1>2. \A p : p \in 0..n <=> p \in 0..(n - 1) \/ p = n
    BY <1>1
  <1>3. e.len < e.cap /\ IsTable(e) /\ e.len \in Nat /\ e.cap = cap /\ e.len <= n
    BY <1>1, UsedFacts DEF HasFirst
  <1>4. CASE ~FullAt(d, n)
    <2>1. Carry(e, d.buckets[n]) = e
      BY <1>1, <1>4 DEF Carry, FullAt
    <2>2. \A k, v : (\E p \in 0..n : FullAt(d, p) /\ d.buckets[p].key = k /\ d.buckets[p].val = v)
            <=> \E p \in 0..(n - 1) : FullAt(d, p) /\ d.buckets[p].key = k /\ d.buckets[p].val = v
      BY <1>2, <1>4
    <2>3. e.len <= n + 1 /\ (n + 1) - 1 = n
      BY <1>1, <1>3
    <2>4. QED
      BY <2>1, <2>2, <2>3 DEF HasFirst
  <1>5. CASE FullAt(d, n)
    <2>1. PICK key \in Objects, val \in Nat : key = d.buckets[n].key /\ val = d.buckets[n].val
      BY <1>1, <1>5 DEF IsTable, Bucket
    <2>2. Carry(e, d.buckets[n]) = C!D!Store(e, key, val)
      BY <1>5, <2>1 DEF Carry, FullAt
    <2>3. /\ IsTable(C!D!Store(e, key, val))
          /\ C!D!Store(e, key, val).cap = e.cap /\ C!D!Store(e, key, val).len <= e.len + 1
          /\ \A k, v : Says(C!D!Store(e, key, val), k, v) <=> IF k = key THEN v = val ELSE Says(e, k, v)
      BY <1>3, StoreIs
    <2>4. ASSUME NEW k, NEW v
          PROVE  Says(C!D!Store(e, key, val), k, v)
                   <=> \E p \in 0..n : FullAt(d, p) /\ d.buckets[p].key = k /\ d.buckets[p].val = v
      <3>1. Says(e, k, v) <=> \E p \in 0..(n - 1) :
              FullAt(d, p) /\ d.buckets[p].key = k /\ d.buckets[p].val = v
        BY DEF HasFirst
      <3>2. n \in 0..n
        BY <1>1
      <3>3. CASE k = key
        <4>1. \A p : FullAt(d, p) /\ d.buckets[p].key = k => p = n
          BY <1>5, <2>1, <3>3 DEF IsTable
        <4>2. QED
          BY <1>5, <2>1, <2>3, <3>2, <3>3, <4>1
      <3>4. CASE k # key
        <4>1. (\E p \in 0..n : FullAt(d, p) /\ d.buckets[p].key = k /\ d.buckets[p].val = v)
                <=> \E p \in 0..(n - 1) : FullAt(d, p) /\ d.buckets[p].key = k /\ d.buckets[p].val = v
          BY <1>2, <2>1, <3>4
        <4>2. QED
          BY <2>3, <3>1, <3>4, <4>1
      <3>5. QED
        BY <3>3, <3>4
    <2>5. C!D!Store(e, key, val).len \in Nat
      BY <2>3, UsedFacts
    <2>6. C!D!Store(e, key, val).len <= n + 1 /\ (n + 1) - 1 = n
      BY <1>1, <1>3, <2>3, <2>5
    <2>7. QED
      BY <1>3, <2>2, <2>3, <2>4, <2>6 DEF HasFirst
  <1>6. QED
    BY <1>4, <1>5

(* After n buckets the new table says what these say.                         *)
LEMMA TablesHave ==
  ASSUME TableGiven, NEW d, IsTable(d), NEW cap \in Nat, cap > d.cap,
         NEW f, Tables(d, cap, f, d.cap)
  PROVE  HasFirst(d, cap, f[d.cap], d.cap)
  <1> DEFINE Without == {i \in 0..d.cap : ~HasFirst(d, cap, f[i], i)}
  <1>0. d.cap \in Nat /\ d.cap >= 3
    BY DEF IsTable
  <1>1. SUFFICES ASSUME Without # {} PROVE FALSE
    BY <1>0
  <1>2. PICK m \in Without : \A i \in Without : m <= i
    BY <1>1, HasLeast, Without \in SUBSET Nat
  <1>3. m \in 0..d.cap /\ ~HasFirst(d, cap, f[m], m)
    BY <1>2
  <1>4. f = [i \in 0..d.cap |-> IF i = 0 THEN C!D!Create(cap) ELSE Carry(f[i - 1], d.buckets[i - 1])]
    BY DEF Tables
  <1>5. CASE m = 0
    <2>1. f[m] = C!D!Create(cap)
      BY <1>3, <1>4, <1>5
    <2>2. HasFirst(d, cap, C!D!Create(cap), 0)
      <3>1. cap >= 3
        BY <1>0
      <3>2. /\ IsTable(C!D!Create(cap)) /\ C!D!Create(cap).cap = cap /\ C!D!Create(cap).len = 0
            /\ \A k, v : ~Says(C!D!Create(cap), k, v)
        BY <3>1, CreateIs
      <3>3. \A p : p \notin 0..(0 - 1)
        OBVIOUS
      <3>4. QED
        BY <3>2, <3>3 DEF HasFirst
    <2>3. QED
      BY <1>3, <1>5, <2>1, <2>2
  <1>6. CASE m # 0
    <2>1. PICK k \in 0..(d.cap - 1) : m = k + 1
      BY <1>0, <1>3, <1>6
    <2>2. HasFirst(d, cap, f[k], k)
      BY <1>0, <1>2, <2>1
    <2>3. f[m] = Carry(f[k], d.buckets[k])
      <3>1. m - 1 = k
        BY <2>1
      <3>2. QED
        BY <1>3, <1>4, <1>6, <3>1
    <2>4. HasFirst(d, cap, Carry(f[k], d.buckets[k]), k + 1)
      BY <2>2, CarryIs
    <2>5. QED
      BY <1>3, <2>1, <2>3, <2>4
  <1>7. QED
    BY <1>5, <1>6

(* d_cap                                                                      *)
LEMMA GrowIs ==
  ASSUME TableGiven, NEW d, IsTable(d)
  PROVE  /\ IsTable(C!D!Grow(d)) /\ C!D!Grow(d).cap >= 2 * d.cap /\ C!D!Grow(d).len <= d.cap
         /\ \A k, v : Says(C!D!Grow(d), k, v) <=> Says(d, k, v)
  <1>1. d.cap \in Nat /\ d.cap >= 3
    BY DEF IsTable
  <1>2. PICK cap \in Nat : cap = (IF 2 * d.cap > TableCap THEN 2 * d.cap ELSE TableCap)
    BY <1>1 DEF TableGiven
  <1>3. cap >= 2 * d.cap /\ cap > d.cap
    BY <1>1, <1>2 DEF TableGiven
  <1>4. PICK e : e = C!D!Moved(d, cap)[d.cap]
    OBVIOUS
  <1>5. HasFirst(d, cap, e, d.cap)
    <2>1. Tables(d, cap, C!D!Moved(d, cap), d.cap)
      BY <1>1, MovedIs
    <2>2. QED
      BY <1>3, <1>4, <2>1, TablesHave
  <1>6. C!D!Grow(d) = e
    BY <1>2, <1>4 DEF C!D!Grow
  <1>7. ASSUME NEW k, NEW v PROVE Says(e, k, v) <=> Says(d, k, v)
    BY <1>5 DEF HasFirst, Says, FullAt
  <1>8. QED
    BY <1>3, <1>5, <1>6, <1>7 DEF HasFirst

(* The table is not so full that a search would not end.                      *)
Roomy(d) == IsTable(d) /\ 10 * (d.len - 1) < 6 * d.cap

(* A table with room has an empty bucket.                                     *)
LEMMA RoomyIs ==
  ASSUME NEW d, Roomy(d)
  PROVE  IsTable(d) /\ d.len < d.cap /\ C!D!SearchEnds(d)
  <1>1. IsTable(d) /\ d.len \in Nat /\ d.cap \in Nat /\ d.cap >= 3
    BY UsedFacts DEF Roomy, IsTable
  <1>2. d.len < d.cap
    BY <1>1 DEF Roomy
  <1>3. QED
    BY <1>1, <1>2, UsedFacts DEF C!D!SearchEnds

(* d_insert                                                                   *)
LEMMA InsertIs ==
  ASSUME TableGiven, NEW d, Roomy(d), NEW key \in Objects, NEW val \in Nat
  PROVE  /\ Roomy(C!D!Insert(d, key, val))
         /\ \A k, v : Says(C!D!Insert(d, key, val), k, v) <=>
                        IF k = key THEN v = val ELSE Says(d, k, v)
  <1>1. IsTable(d) /\ d.len \in Nat /\ d.cap \in Nat /\ d.cap >= 3 /\ d.len < d.cap
    BY RoomyIs, UsedFacts DEF IsTable
  <1>2. PICK to : to = IF 10 * d.len >= 6 * d.cap THEN C!D!Grow(d) ELSE d
    OBVIOUS
  <1>3. C!D!Insert(d, key, val) = C!D!Store(to, key, val)
    BY <1>2 DEF C!D!Insert
  <1>4. IsTable(to) /\ 10 * to.len < 6 * to.cap /\ \A k, v : Says(to, k, v) <=> Says(d, k, v)
    <2>1. CASE 10 * d.len >= 6 * d.cap
      <3>1. to = C!D!Grow(d)
        BY <1>2, <2>1
      <3>2. /\ IsTable(to) /\ to.cap >= 2 * d.cap /\ to.len <= d.cap
            /\ \A k, v : Says(to, k, v) <=> Says(d, k, v)
        BY <1>1, <3>1, GrowIs
      <3>3. to.len \in Nat /\ to.cap \in Nat
        BY <3>2, UsedFacts DEF IsTable
      <3>4. 10 * to.len < 6 * to.cap
        BY <1>1, <3>2, <3>3
      <3>5. QED
        BY <3>2, <3>4
    <2>2. CASE ~(10 * d.len >= 6 * d.cap)
      <3>1. to = d
        BY <1>2, <2>2
      <3>2. QED
        BY <1>1, <2>2, <3>1
    <2>3. QED
      BY <2>1, <2>2
  <1>5. to.len \in Nat /\ to.cap \in Nat /\ to.cap >= 3
    BY <1>4, UsedFacts DEF IsTable
  <1>6. to.len < to.cap
    BY <1>4, <1>5
  <1>7. PICK e : e = C!D!Store(to, key, val)
    OBVIOUS
  <1>8. /\ IsTable(e) /\ e.cap = to.cap /\ e.len <= to.len + 1
        /\ \A k, v : Says(e, k, v) <=> IF k = key THEN v = val ELSE Says(to, k, v)
    BY <1>4, <1>6, <1>7, StoreIs
  <1>9. e.len \in Nat
    BY <1>8, UsedFacts
  <1>10. 10 * (e.len - 1) < 6 * e.cap
    BY <1>4, <1>5, <1>8, <1>9
  <1>11. QED
    BY <1>3, <1>4, <1>7, <1>8, <1>10 DEF Roomy

(* What the table says, and what is read of it.                               *)
LEMMA HasIs ==
  ASSUME NEW d, NEW key
  PROVE  Has(d, key) <=> \E v : Says(d, key, v)
  BY DEF Has, Says

(* What is read is what the table says, or the default.                       *)
LEMMA ReadSays ==
  ASSUME TableGiven, NEW d, Roomy(d), NEW key \in Objects
  PROVE  /\ Has(d, key) => Says(d, key, C!D!Read(d, key))
         /\ ~Has(d, key) => C!D!Read(d, key) = Byte
         /\ \A v : Says(d, key, v) => C!D!Read(d, key) = v
         /\ C!D!Read(d, key) \in Nat
  <1>1. IsTable(d) /\ d.len < d.cap
    BY RoomyIs
  <1>2. /\ \A v : Says(d, key, v) => C!D!Read(d, key) = v
        /\ ~Has(d, key) => C!D!Read(d, key) = Byte
    BY <1>1, ReadIs
  <1>3. ASSUME Has(d, key) PROVE Says(d, key, C!D!Read(d, key)) /\ C!D!Read(d, key) \in Nat
    <2>1. PICK v : Says(d, key, v)
      BY <1>3, HasIs
    <2>2. v \in Nat
      BY <1>1, <2>1 DEF Says, FullAt, IsTable, Bucket
    <2>3. QED
      BY <1>2, <2>1, <2>2
  <1>4. Byte \in Nat
    BY DEF TableGiven
  <1>5. QED
    BY <1>2, <1>3, <1>4

(* What is read after an insertion, and after a removal.                      *)
LEMMA InsertReads ==
  ASSUME TableGiven, NEW d, Roomy(d), NEW key \in Objects, NEW val \in Nat
  PROVE  /\ Roomy(C!D!Insert(d, key, val))
         /\ C!D!Read(C!D!Insert(d, key, val), key) = val
         /\ \A k \in Objects : k # key =>
              /\ C!D!Read(C!D!Insert(d, key, val), k) = C!D!Read(d, k)
              /\ Has(C!D!Insert(d, key, val), k) <=> Has(d, k)
  <1>1. PICK e : e = C!D!Insert(d, key, val)
    OBVIOUS
  <1>2. Roomy(e) /\ \A k, v : Says(e, k, v) <=> IF k = key THEN v = val ELSE Says(d, k, v)
    BY <1>1, InsertIs
  <1>3. C!D!Read(e, key) = val
    BY <1>2, ReadSays
  <1>4. ASSUME NEW k \in Objects, k # key
        PROVE  C!D!Read(e, k) = C!D!Read(d, k) /\ (Has(e, k) <=> Has(d, k))
    <2>1. \A v : Says(e, k, v) <=> Says(d, k, v)
      BY <1>2, <1>4
    <2>2. Has(e, k) <=> Has(d, k)
      BY <2>1, HasIs
    <2>3. C!D!Read(e, k) = C!D!Read(d, k)
      <3>1. CASE Has(d, k)
        <4>1. Says(d, k, C!D!Read(d, k))
          BY <3>1, ReadSays
        <4>2. Says(e, k, C!D!Read(d, k))
          BY <2>1, <4>1
        <4>3. QED
          BY <1>2, <4>2, ReadSays
      <3>2. CASE ~Has(d, k)
        BY <1>2, <2>2, <3>2, ReadSays
      <3>3. QED
        BY <3>1, <3>2
    <2>4. QED
      BY <2>2, <2>3
  <1>5. QED
    BY <1>1, <1>2, <1>3, <1>4

(* What is read after a removal.                                              *)
LEMMA RemoveReads ==
  ASSUME TableGiven, NEW d, Roomy(d), NEW key \in Objects
  PROVE  /\ Roomy(C!D!RemoveKey(d, key)) /\ ~Has(C!D!RemoveKey(d, key), key)
         /\ \A k \in Objects : k # key =>
              /\ C!D!Read(C!D!RemoveKey(d, key), k) = C!D!Read(d, k)
              /\ Has(C!D!RemoveKey(d, key), k) <=> Has(d, k)
  <1>1. PICK e : e = C!D!RemoveKey(d, key)
    OBVIOUS
  <1>2. IsTable(d) /\ d.len < d.cap
    BY RoomyIs
  <1>3. /\ IsTable(e) /\ e.cap = d.cap /\ e.len = d.len
        /\ \A k, v : Says(e, k, v) <=> k # key /\ Says(d, k, v)
    BY <1>1, <1>2, RemoveIs
  <1>4. Roomy(e)
    BY <1>3 DEF Roomy
  <1>5. ~Has(e, key)
    BY <1>3, HasIs
  <1>6. ASSUME NEW k \in Objects, k # key
        PROVE  C!D!Read(e, k) = C!D!Read(d, k) /\ (Has(e, k) <=> Has(d, k))
    <2>1. \A v : Says(e, k, v) <=> Says(d, k, v)
      BY <1>3, <1>6
    <2>2. Has(e, k) <=> Has(d, k)
      BY <2>1, HasIs
    <2>3. C!D!Read(e, k) = C!D!Read(d, k)
      <3>1. CASE Has(d, k)
        <4>1. Says(d, k, C!D!Read(d, k))
          BY <3>1, ReadSays
        <4>2. Says(e, k, C!D!Read(d, k))
          BY <2>1, <4>1
        <4>3. QED
          BY <1>4, <4>2, ReadSays
      <3>2. CASE ~Has(d, k)
        BY <1>4, <2>2, <3>2, ReadSays
      <3>3. QED
        BY <3>1, <3>2
    <2>4. QED
      BY <2>2, <2>3
  <1>7. QED
    BY <1>1, <1>4, <1>5, <1>6

-----------------------------------------------------------------------------
(* Counts: the inductive invariant                                            *)

(* Below the limit the byte is the count and the table has nothing; at the    *)
(* limit the table is right, or silent.                                       *)
CountOK(o) ==
  /\ references[o] \in 0..Byte /\ true[o] \in Nat
  /\ references[o] # Byte => true[o] = references[o] /\ ~Has(overflow, o)
  /\ references[o] = Byte => true[o] = C!D!Read(overflow, o)

(* Every count is right, and the table has room.                              *)
CountInv ==
  /\ references = [o \in Objects |-> references[o]]
  /\ true = [o \in Objects |-> true[o]]
  /\ Roomy(overflow)
  /\ \A o \in Objects : CountOK(o)

(* Every object has one reference, and the table is empty.                    *)
LEMMA CountInit == ASSUME TableGiven, C!Init PROVE CountInv
  <1>1. /\ references = [o \in Objects |-> 1] /\ true = [o \in Objects |-> 1]
        /\ overflow = C!D!Create(TableCap)
    BY DEF C!Init
  <1>2. /\ IsTable(overflow) /\ overflow.cap = TableCap /\ overflow.len = 0
        /\ \A k, v : ~Says(overflow, k, v)
    BY <1>1, CreateIs DEF TableGiven
  <1>3. Roomy(overflow)
    BY <1>2 DEF Roomy, TableGiven
  <1>4. ASSUME NEW o \in Objects PROVE CountOK(o)
    <2>1. ~Has(overflow, o)
      BY <1>2, HasIs
    <2>2. C!D!Read(overflow, o) = Byte
      BY <1>3, <2>1, ReadSays
    <2>3. references[o] = 1 /\ true[o] = 1 /\ Byte \in Nat \ {0}
      BY <1>1 DEF TableGiven
    <2>4. 1 \in 0..Byte
      BY <2>3
    <2>5. QED
      BY <2>1, <2>2, <2>3, <2>4 DEF CountOK
  <1>5. QED
    BY <1>1, <1>3, <1>4 DEF CountInv

(* A step that counts one object, and leaves what is said of the others.      *)
LEMMA CountStep ==
  ASSUME TableGiven, CountInv, NEW o \in Objects, NEW byte, NEW n,
         references' = [references EXCEPT ![o] = byte], true' = [true EXCEPT ![o] = n],
         Roomy(overflow'), byte \in 0..Byte, n \in Nat,
         byte # Byte => n = byte /\ ~Has(overflow', o),
         byte = Byte => n = C!D!Read(overflow', o),
         \A k \in Objects : k # o =>
              /\ C!D!Read(overflow', k) = C!D!Read(overflow, k)
              /\ Has(overflow', k) <=> Has(overflow, k)
  PROVE  CountInv'
  <1>1. /\ references' = [k \in Objects |-> references'[k]]
        /\ true' = [k \in Objects |-> true'[k]]
        /\ references'[o] = byte /\ true'[o] = n
        /\ \A k \in Objects : k # o => references'[k] = references[k] /\ true'[k] = true[k]
    BY DEF CountInv
  <1>2. ASSUME NEW k \in Objects PROVE CountOK(k)'
    <2>1. CASE k = o
      BY <1>1, <2>1 DEF CountOK
    <2>2. CASE k # o
      BY <1>1, <2>2 DEF CountInv, CountOK
    <2>3. QED
      BY <2>1, <2>2
  <1>3. QED
    BY <1>1, <1>2 DEF CountInv

(* __gab_gcobjinc                                                             *)
LEMMA IncStep == ASSUME TableGiven, CountInv, NEW o \in Objects, C!Inc(o) PROVE CountInv'
  <1>1. Roomy(overflow) /\ CountOK(o) /\ true' = [true EXCEPT ![o] = @ + 1]
    BY DEF CountInv, C!Inc
  <1>2. PICK n \in Nat : n = true[o] + 1
    BY <1>1 DEF CountOK
  <1>3. true' = [true EXCEPT ![o] = n]
    BY <1>1, <1>2
  <1>4. Byte \in Nat \ {0}
    BY DEF TableGiven
  <1>5. CASE references[o] = Byte
    <2>1. overflow' = C!D!Insert(overflow, o, n) /\ references' = references
      <3>1. C!D!Read(overflow, o) + 1 = n
        BY <1>1, <1>2, <1>5 DEF CountOK
      <3>2. QED
        BY <1>5, <3>1 DEF C!Inc
    <2>2. references' = [references EXCEPT ![o] = Byte]
      BY <1>5, <2>1 DEF CountInv
    <2>3. /\ Roomy(overflow') /\ C!D!Read(overflow', o) = n
          /\ \A k \in Objects : k # o =>
               /\ C!D!Read(overflow', k) = C!D!Read(overflow, k)
               /\ Has(overflow', k) <=> Has(overflow, k)
      <3>1. PICK d, e : d = overflow /\ e = overflow'
        OBVIOUS
      <3>2. Roomy(d) /\ e = C!D!Insert(d, o, n)
        BY <1>1, <2>1, <3>1
      <3>3. /\ Roomy(e) /\ C!D!Read(e, o) = n
            /\ \A k \in Objects : k # o =>
                 /\ C!D!Read(e, k) = C!D!Read(d, k)
                 /\ Has(e, k) <=> Has(d, k)
        BY <3>2, InsertReads
      <3>4. QED
        BY <3>1, <3>3
    <2>4. Byte \in 0..Byte
      BY <1>4
    <2>5. QED
      BY <1>3, <2>2, <2>3, <2>4, CountStep
  <1>6. CASE references[o] # Byte
    <2>1. overflow' = overflow /\ references' = [references EXCEPT ![o] = @ + 1]
      BY <1>6 DEF C!Inc
    <2>2. references' = [references EXCEPT ![o] = n] /\ ~Has(overflow, o)
      BY <1>1, <1>2, <1>6, <2>1 DEF CountOK
    <2>3. n \in 0..Byte
      BY <1>1, <1>2, <1>4, <1>6 DEF CountOK
    <2>4. n = Byte => n = C!D!Read(overflow', o)
      BY <1>1, <2>1, <2>2, ReadSays
    <2>5. QED
      BY <1>1, <1>3, <2>1, <2>2, <2>3, <2>4, CountStep
  <1>7. QED
    BY <1>5, <1>6

(* __gab_gcobjdec                                                             *)
LEMMA DecStep == ASSUME TableGiven, CountInv, NEW o \in Objects, C!Dec(o) PROVE CountInv'
  <1>1. Roomy(overflow) /\ CountOK(o) /\ true' = [true EXCEPT ![o] = @ - 1] /\ true[o] > 0
    BY DEF CountInv, C!Dec
  <1>2. PICK n \in Nat : n = true[o] - 1
    BY <1>1 DEF CountOK
  <1>3. true' = [true EXCEPT ![o] = n]
    BY <1>1, <1>2
  <1>4. Byte \in Nat \ {0}
    BY DEF TableGiven
  <1>5. ASSUME references[o] = Byte, C!D!Read(overflow, o) # Byte,
               overflow' = C!D!Insert(overflow, o, C!D!Read(overflow, o) - 1),
               references' = references
        PROVE  CountInv'
    <2>1. C!D!Read(overflow, o) - 1 = n
      BY <1>1, <1>2, <1>5 DEF CountOK
    <2>2. references' = [references EXCEPT ![o] = Byte]
      BY <1>5 DEF CountInv
    <2>3. overflow' = C!D!Insert(overflow, o, n)
      BY <1>5, <2>1
    <2>4. /\ Roomy(overflow') /\ C!D!Read(overflow', o) = n
          /\ \A k \in Objects : k # o =>
               /\ C!D!Read(overflow', k) = C!D!Read(overflow, k)
               /\ Has(overflow', k) <=> Has(overflow, k)
      <3>1. PICK d, e : d = overflow /\ e = overflow'
        OBVIOUS
      <3>2. Roomy(d) /\ e = C!D!Insert(d, o, n)
        BY <1>1, <2>3, <3>1
      <3>3. /\ Roomy(e) /\ C!D!Read(e, o) = n
            /\ \A k \in Objects : k # o =>
                 /\ C!D!Read(e, k) = C!D!Read(d, k)
                 /\ Has(e, k) <=> Has(d, k)
        BY <3>2, InsertReads
      <3>4. QED
        BY <3>1, <3>3
    <2>5. Byte \in 0..Byte
      BY <1>4
    <2>6. QED
      BY <1>3, <2>2, <2>4, <2>5, CountStep
  <1>6. ASSUME references[o] = Byte, C!D!Read(overflow, o) = Byte,
               overflow' = C!D!RemoveKey(overflow, o),
               references' = [references EXCEPT ![o] = @ - 1]
        PROVE  CountInv'
    <2>1. n = Byte - 1
      BY <1>1, <1>2, <1>6 DEF CountOK
    <2>2. references' = [references EXCEPT ![o] = n]
      BY <1>6, <2>1
    <2>3. /\ Roomy(overflow') /\ ~Has(overflow', o)
          /\ \A k \in Objects : k # o =>
               /\ C!D!Read(overflow', k) = C!D!Read(overflow, k)
               /\ Has(overflow', k) <=> Has(overflow, k)
      <3>1. PICK d, e : d = overflow /\ e = overflow'
        OBVIOUS
      <3>2. Roomy(d) /\ e = C!D!RemoveKey(d, o)
        BY <1>1, <1>6, <3>1
      <3>3. /\ Roomy(e) /\ ~Has(e, o)
            /\ \A k \in Objects : k # o =>
                 /\ C!D!Read(e, k) = C!D!Read(d, k)
                 /\ Has(e, k) <=> Has(d, k)
        BY <3>2, RemoveReads
      <3>4. QED
        BY <3>1, <3>3
    <2>4. n \in 0..Byte /\ n # Byte
      BY <1>4, <2>1
    <2>5. QED
      BY <1>3, <2>2, <2>3, <2>4, CountStep
  <1>7. ASSUME references[o] # Byte, overflow' = overflow,
               references' = [references EXCEPT ![o] = @ - 1]
        PROVE  CountInv'
    <2>1. true[o] = references[o] /\ ~Has(overflow, o)
      BY <1>1, <1>7 DEF CountOK
    <2>2. references' = [references EXCEPT ![o] = n]
      BY <1>2, <1>7, <2>1
    <2>3. n \in 0..Byte /\ n # Byte
      BY <1>1, <1>2, <1>4, <2>1 DEF CountOK
    <2>4. QED
      BY <1>1, <1>3, <1>7, <2>1, <2>2, <2>3, CountStep
  <1>8. QED
    BY <1>5, <1>6, <1>7 DEF C!Dec

(* Every step keeps the invariant.                                            *)
LEMMA CountNext == ASSUME TableGiven, CountInv, [C!Next]_countVars PROVE CountInv'
  <1>1. CASE UNCHANGED countVars
    BY <1>1 DEF countVars, CountInv, CountOK
  <1>2. CASE C!Next
    BY <1>2, IncStep, DecStep DEF C!Next
  <1>3. QED
    BY <1>1, <1>2

(* And gives what the run checks.                                             *)
LEMMA CountGives ==
  ASSUME TableGiven, CountInv
  PROVE  C!CountsAreExact /\ C!TableSearchEnds
  <1>1. C!TableSearchEnds
    BY RoomyIs DEF CountInv, C!TableSearchEnds
  <1>2. C!CountsAreExact
    BY DEF CountInv, CountOK, C!CountsAreExact
  <1>3. QED
    BY <1>1, <1>2

-----------------------------------------------------------------------------
(* Queues: the capacities                                                     *)
(* The capacities: a power of two divides 2 ^ 32, and so does the next one as *)
(* long as it is smaller.                                                     *)
Caps == {c \in 1..(Word - 1) : \E k \in Nat : Word = k * c}

CapsDivide ==
  /\ Word \in Nat \ {0} /\ LastCap \in Nat
  /\ RingCap \in Caps
  /\ \A c \in Caps : c < LastCap => 2 * c \in Caps

-----------------------------------------------------------------------------
(* The inductive invariant                                                    *)

Positions == 0..(Word - 1)
Entries == Values \cup {Q!Unset}

IsRing(q) ==
  \E c \in Caps, h, t \in Positions :
    \E d \in [0..(c - 1) -> Entries] : q = [head |-> h, tail |-> t, cap |-> c, data |-> d]

(* The entries from head on are those of s, and tail is behind them.          *)
Agrees(q, s) ==
  /\ Len(s) <= q.cap
  /\ q.tail = (q.head + Len(s)) % Word
  /\ \A i \in 1..Len(s) : q.data[(q.head + (i - 1)) % q.cap] = s[i]

RingInv == IsRing(ring) /\ queued \in Seq(Values) /\ Agrees(ring, queued)

(* A capacity is a number.                                                    *)
LEMMA CapFacts ==
  ASSUME CapsDivide, NEW c \in Caps
  PROVE  c \in Nat \ {0} /\ c < Word /\ Word \in Nat \ {0} /\ \E k \in Nat : Word = k * c
  <1>1. Word \in Nat \ {0}
    BY DEF CapsDivide
  <1>2. c \in 1..(Word - 1) /\ \E k \in Nat : Word = k * c
    BY DEF Caps
  <1>3. QED
    BY <1>1, <1>2

(* A position is what is left of a number.                                    *)
LEMMA IsPosition ==
  ASSUME CapsDivide, NEW a \in Int
  PROVE  a % Word \in Positions
  <1>1. Word \in Nat \ {0}
    BY DEF CapsDivide
  <1>2. \E q \in Int, r \in 0..(Word - 1) : r = a % Word /\ a = q * Word + r
    BY <1>1, ModFacts
  <1>3. QED
    BY <1>2 DEF Positions

(* The parts of a ring.                                                       *)
LEMMA RingFacts ==
  ASSUME CapsDivide, NEW q, IsRing(q)
  PROVE  /\ q.cap \in Nat \ {0} /\ q.cap < Word /\ q.cap \in Caps
         /\ \E k \in Nat : Word = k * q.cap
         /\ q.head \in Positions /\ q.tail \in Positions /\ q.head \in Nat /\ q.tail \in Nat
         /\ Word \in Nat \ {0}
         /\ q.data \in [0..(q.cap - 1) -> Entries]
         /\ q = [head |-> q.head, tail |-> q.tail, cap |-> q.cap, data |-> q.data]
  <1>0. PICK c \in Caps, h \in Positions, t \in Positions :
          \E d \in [0..(c - 1) -> Entries] : q = [head |-> h, tail |-> t, cap |-> c, data |-> d]
    BY DEF IsRing
  <1>1. PICK d \in [0..(c - 1) -> Entries] : q = [head |-> h, tail |-> t, cap |-> c, data |-> d]
    BY <1>0
  <1>2. q.cap = c /\ q.head = h /\ q.tail = t /\ q.data = d
    BY <1>1
  <1>3. /\ c \in Nat \ {0} /\ c < Word /\ (\E k \in Nat : Word = k * c)
        /\ h \in Nat /\ t \in Nat /\ Word \in Nat \ {0}
    <2>1. c \in Nat \ {0} /\ c < Word /\ Word \in Nat \ {0} /\ \E k \in Nat : Word = k * c
      BY CapFacts
    <2>2. h \in Nat /\ t \in Nat
      BY DEF Positions
    <2>3. QED
      BY <2>1, <2>2
  <1>4. QED
    BY <1>1, <1>2, <1>3

(* METHOD(len) answers the length, and is_empty whether there is anything.    *)
LEMMA LenIs ==
  ASSUME CapsDivide, NEW q, IsRing(q), NEW s \in Seq(Values), Agrees(q, s)
  PROVE  Q!RingLen(q) = Len(s) /\ (Q!RingIsEmpty(q) <=> s = <<>>)
  <1>1. /\ q.cap < Word /\ q.cap \in Nat /\ q.head \in Positions /\ q.tail \in Nat
        /\ q.head \in Nat /\ Word \in Nat \ {0}
    BY RingFacts
  <1>2. PICK l \in 0..(Word - 1) : l = Len(s)
    BY <1>1 DEF Agrees
  <1>3. PICK h \in Positions : h = q.head
    BY <1>1
  <1>4. q.tail = (h + l) % Word
    BY <1>2, <1>3 DEF Agrees
  <1>5. h \in Int /\ h + l \in Int /\ -h \in Int /\ (h + l) + (-h) = l
    BY <1>1, <1>3
  <1>6. (((h + l) % Word) + (-h)) % Word = l
    <2>1. (((h + l) % Word) + (-h)) % Word = ((h + l) + (-h)) % Word
      BY <1>1, <1>5, ModAdd
    <2>2. l % Word = l
      BY <1>1, ModSmall
    <2>3. QED
      BY <1>5, <2>1, <2>2
  <1>7. Q!RingLen(q) = l
    <2>1. q.tail - q.head = q.tail + (-h)
      BY <1>1, <1>3
    <2>2. QED
      BY <1>4, <1>6, <2>1 DEF Q!RingLen
  <1>8. Q!RingIsEmpty(q) <=> l = 0
    <2>1. h % Word = h
      BY <1>1, ModSmall DEF Positions
    <2>2. CASE l = 0
      BY <1>3, <1>4, <1>5, <2>1, <2>2 DEF Q!RingIsEmpty
    <2>3. CASE l # 0
      <3>1. h < h + l /\ h + l < h + Word
        BY <1>1, <1>5, <2>3
      <3>2. h % Word # (h + l) % Word
        BY <1>1, <1>5, <3>1, ModApart
      <3>3. QED
        BY <1>3, <1>4, <2>1, <2>3, <3>2 DEF Q!RingIsEmpty
    <2>4. QED
      BY <2>2, <2>3
  <1>9. QED
    BY <1>2, <1>7, <1>8

(* The place of an entry is a place of the array.                             *)
LEMMA PlaceOf ==
  ASSUME CapsDivide, NEW q, IsRing(q), NEW i \in Int
  PROVE  /\ ((q.head + i) % Word) % q.cap = (q.head + i) % q.cap
         /\ (q.head + i) % q.cap \in 0..(q.cap - 1)
  <1>1. /\ q.cap \in Nat \ {0} /\ (\E k \in Nat : Word = k * q.cap)
        /\ q.head \in Nat /\ Word \in Nat \ {0}
    BY RingFacts
  <1>2. PICK a \in Int : a = q.head + i
    BY <1>1
  <1>3. PICK c \in Nat \ {0} : c = q.cap
    BY <1>1
  <1>4. PICK k \in Nat : Word = k * c
    BY <1>1, <1>3
  <1>5. (a % Word) % c = a % c
    BY <1>1, <1>4, ModMod
  <1>6. a % c \in 0..(c - 1)
    BY ModFacts
  <1>7. QED
    BY <1>2, <1>3, <1>5, <1>6

(* What METHOD(push) does to a ring that is not full.                         *)
LEMMA AddedAgrees ==
  ASSUME CapsDivide, NEW q, IsRing(q), NEW s \in Seq(Values), Agrees(q, s),
         Len(s) < q.cap, NEW v \in Values
  PROVE  IsRing(Q!Added(q, v)) /\ Agrees(Q!Added(q, v), Append(s, v))
  <1>1. /\ q.cap \in Nat \ {0} /\ q.cap < Word /\ q.cap \in Caps
        /\ q.head \in Positions /\ q.tail \in Positions /\ q.head \in Nat /\ q.tail \in Nat
        /\ Word \in Nat \ {0} /\ q.data \in [0..(q.cap - 1) -> Entries]
        /\ q = [head |-> q.head, tail |-> q.tail, cap |-> q.cap, data |-> q.data]
    BY RingFacts
  <1>2. PICK h \in Nat : h = q.head
    BY <1>1
  <1>3. PICK c \in Nat \ {0} : c = q.cap
    BY <1>1
  <1>4. PICK l \in Nat : l = Len(s) /\ l < c
    BY <1>3
  <1>5. PICK d \in [0..(c - 1) -> Entries] : d = q.data
    BY <1>1, <1>3
  <1>6. q.tail = (h + l) % Word
    BY <1>2, <1>4 DEF Agrees
  <1>7. PICK place \in 0..(c - 1) : place = (h + l) % c /\ q.tail % c = place
    <2>0. l \in Int
      OBVIOUS
    <2>1. /\ ((q.head + l) % Word) % q.cap = (q.head + l) % q.cap
          /\ (q.head + l) % q.cap \in 0..(q.cap - 1)
      BY <2>0, PlaceOf, SMTT(30)
    <2>2. ((h + l) % Word) % c = (h + l) % c /\ (h + l) % c \in 0..(c - 1)
      BY <1>2, <1>3, <2>1
    <2>3. QED
      BY <1>6, <2>2
  <1>8. PICK t \in Positions : t = (h + (l + 1)) % Word /\ (q.tail + 1) % Word = t
    <2>0. PICK a \in Int : a = h + l
      OBVIOUS
    <2>a. ((a % Word) + 1) % Word = (a + 1) % Word
      <3>1. PICK n \in Nat \ {0}, one \in Int : n = Word /\ one = 1
        BY <1>1
      <3>2. ((a % n) + one) % n = (a + one) % n
        BY ModAdd
      <3>3. QED
        BY <3>1, <3>2
    <2>1. (((h + l) % Word) + 1) % Word = ((h + l) + 1) % Word
      BY <2>0, <2>a
    <2>2. (h + l) + 1 = h + (l + 1) /\ h + (l + 1) \in Int
      OBVIOUS
    <2>3. (h + (l + 1)) % Word \in Positions
      BY <2>2, IsPosition
    <2>4. QED
      BY <1>6, <2>1, <2>2, <2>3
  <1> DEFINE e == [d EXCEPT ![place] = v]
             new == [head |-> h, tail |-> t, cap |-> c, data |-> e]
  <1>9. Q!Added(q, v) = new
    BY <1>2, <1>3, <1>5, <1>7, <1>8 DEF Q!Added
  <1>10. e \in [0..(c - 1) -> Entries]
    BY DEF Entries
  <1>11. IsRing(new)
    <2>1. h \in Positions /\ c \in Caps
      BY <1>1, <1>2, <1>3
    <2> HIDE DEF e
    <2>2. QED
      BY <1>10, <2>1 DEF IsRing
  <1>12. Agrees(new, Append(s, v))
    <2>1. Len(Append(s, v)) = l + 1
      BY <1>4
    <2>2. ASSUME NEW i \in 1..(l + 1)
          PROVE  e[(h + (i - 1)) % c] = Append(s, v)[i]
      <3>1. CASE i = l + 1
        <4>1. Append(s, v)[i] = v
          BY <1>4, <3>1
        <4>2. i - 1 = l
          BY <3>1
        <4>3. QED
          BY <1>7, <4>1, <4>2
      <3>2. CASE i # l + 1
        <4>1. i \in 1..l /\ Append(s, v)[i] = s[i]
          BY <1>4, <3>2
        <4>2. d[(h + (i - 1)) % c] = s[i]
          BY <1>2, <1>3, <1>4, <1>5, <4>1 DEF Agrees
        <4>3. PICK a \in Int : a = h + (i - 1)
          OBVIOUS
        <4>4. a < h + l /\ h + l < a + c /\ h + l \in Int
          BY <1>4, <4>1, <4>3
        <4>5. a % c # (h + l) % c
          BY <4>4, ModApart
        <4>6. a % c \in 0..(c - 1)
          BY ModFacts
        <4>7. e[a % c] = d[a % c]
          BY <1>7, <4>5, <4>6
        <4>8. QED
          BY <4>1, <4>2, <4>3, <4>7
      <3>3. QED
        BY <3>1, <3>2
    <2> HIDE DEF e
    <2>3. new.cap = c /\ new.head = h /\ new.tail = t /\ new.data = e
      OBVIOUS
    <2> HIDE DEF new
    <2>4. Len(Append(s, v)) <= new.cap
      BY <1>4, <2>1, <2>3
    <2>5. new.tail = (new.head + Len(Append(s, v))) % Word
      BY <1>8, <2>1, <2>3
    <2>6. \A i \in 1..Len(Append(s, v)) :
            new.data[(new.head + (i - 1)) % new.cap] = Append(s, v)[i]
      BY <2>1, <2>2, <2>3
    <2>7. QED
      BY <2>4, <2>5, <2>6 DEF Agrees
  <1>13. QED
    BY <1>9, <1>11, <1>12

(* What METHOD(cap) does to a full one.                                       *)
LEMMA EnlargedAgrees ==
  ASSUME CapsDivide, NEW q, IsRing(q), NEW s \in Seq(Values), Agrees(q, s),
         q.cap < LastCap
  PROVE  /\ IsRing(Q!Enlarged(q)) /\ Agrees(Q!Enlarged(q), s)
         /\ Len(s) < Q!Enlarged(q).cap
  <1>1. /\ q.cap \in Nat \ {0} /\ q.cap < Word /\ q.cap \in Caps
        /\ q.head \in Positions /\ q.head \in Nat /\ Word \in Nat \ {0}
        /\ q.data \in [0..(q.cap - 1) -> Entries]
    BY RingFacts
  <1>2. PICK c \in Nat \ {0} : c = q.cap
    BY <1>1
  <1>3. PICK l \in Nat : l = Len(s) /\ l <= c
    BY <1>2 DEF Agrees
  <1>4. Q!RingLen(q) = l
    BY <1>3, LenIs
  <1> DEFINE d == [i \in 0..(2 * c - 1) |-> IF i < l THEN Q!At(q, i) ELSE Q!Unset]
             new == [head |-> 0, tail |-> l, cap |-> 2 * c, data |-> d]
  <1>5. Q!Enlarged(q) = new
    BY <1>2, <1>4 DEF Q!Enlarged
  <1>6. 2 * c \in Caps /\ 2 * c \in Nat \ {0} /\ 2 * c < Word /\ c < 2 * c
    <2>1. 2 * c \in Caps
      BY <1>1, <1>2 DEF CapsDivide
    <2>2. PICK b \in Caps : b = 2 * c
      BY <2>1
    <2>3. b \in Nat \ {0} /\ b < Word
      BY CapFacts
    <2>4. c < 2 * c
      OBVIOUS
    <2>5. QED
      BY <2>1, <2>2, <2>3, <2>4
  <1>7. ASSUME NEW i \in 0..(l - 1)
        PROVE  Q!At(q, i) = s[i + 1] /\ Q!At(q, i) \in Entries
    <2>0. ((q.head + i) % Word) % q.cap = (q.head + i) % q.cap
      BY PlaceOf
    <2>1. Q!At(q, i) = q.data[(q.head + i) % q.cap]
      BY <2>0 DEF Q!At
    <2>2. i + 1 \in 1..Len(s) /\ (i + 1) - 1 = i
      BY <1>3
    <2>3. q.data[(q.head + ((i + 1) - 1)) % q.cap] = s[i + 1]
      BY <2>2 DEF Agrees
    <2>4. Q!At(q, i) = s[i + 1]
      BY <2>1, <2>2, <2>3
    <2>5. s[i + 1] \in Values
      BY <2>2
    <2>6. QED
      BY <2>4, <2>5 DEF Entries
  <1>8. d \in [0..(2 * c - 1) -> Entries]
    <2>1. ASSUME NEW i \in 0..(2 * c - 1)
          PROVE  (IF i < l THEN Q!At(q, i) ELSE Q!Unset) \in Entries
      BY <1>7 DEF Entries
    <2>2. QED
      BY <2>1
  <1>9. l \in Positions /\ 0 \in Positions
    BY <1>1, <1>2, <1>3 DEF Positions
  <1>10. ASSUME NEW i \in 1..l PROVE d[(0 + (i - 1)) % (2 * c)] = s[i]
    <2>1. i - 1 \in 0..(l - 1) /\ i - 1 \in 0..(2 * c - 1)
      BY <1>3
    <2>2. (i - 1) % (2 * c) = i - 1
      BY <1>6, <2>1, ModSmall
    <2>3. d[i - 1] = Q!At(q, i - 1)
      BY <2>1
    <2>4. Q!At(q, i - 1) = s[(i - 1) + 1]
      BY <1>7, <2>1
    <2>5. 0 + (i - 1) = i - 1 /\ (i - 1) + 1 = i
      OBVIOUS
    <2> HIDE DEF d
    <2>6. QED
      BY <2>2, <2>3, <2>4, <2>5
  <1> HIDE DEF d
  <1>11. new.cap = 2 * c /\ new.head = 0 /\ new.tail = l /\ new.data = d
    OBVIOUS
  <1>12. IsRing(new)
    BY <1>6, <1>8, <1>9 DEF IsRing
  <1> HIDE DEF new
  <1>13. l = (0 + l) % Word
    <2>1. l % Word = l
      BY <1>1, <1>9, ModSmall DEF Positions
    <2>2. 0 + l = l
      OBVIOUS
    <2>3. QED
      BY <2>1, <2>2
  <1>14. Agrees(new, s)
    <2>1. Len(s) <= new.cap
      BY <1>3, <1>6, <1>11
    <2>2. new.tail = (new.head + Len(s)) % Word
      BY <1>3, <1>11, <1>13
    <2>3. \A i \in 1..Len(s) : new.data[(new.head + (i - 1)) % new.cap] = s[i]
      BY <1>3, <1>10, <1>11
    <2>4. QED
      BY <2>1, <2>2, <2>3 DEF Agrees
  <1>15. QED
    BY <1>3, <1>5, <1>6, <1>11, <1>12, <1>14

(* What METHOD(pop) does.                                                     *)
LEMMA PopAgrees ==
  ASSUME CapsDivide, NEW q, IsRing(q), NEW s \in Seq(Values), Agrees(q, s), s # <<>>
  PROVE  LET new == [q EXCEPT !.head = (@ + 1) % Word]
         IN IsRing(new) /\ Agrees(new, Tail(s))
  <1>1. /\ q.cap \in Nat \ {0} /\ q.cap < Word /\ q.cap \in Caps
        /\ q.head \in Positions /\ q.tail \in Positions /\ q.head \in Nat
        /\ Word \in Nat \ {0} /\ q.data \in [0..(q.cap - 1) -> Entries]
        /\ q = [head |-> q.head, tail |-> q.tail, cap |-> q.cap, data |-> q.data]
        /\ \E k \in Nat : Word = k * q.cap
    BY RingFacts
  <1>2. PICK h \in Nat : h = q.head
    BY <1>1
  <1>3. PICK c \in Nat \ {0} : c = q.cap
    BY <1>1
  <1>4. PICK l \in Nat : Len(s) = l + 1 /\ Len(Tail(s)) = l /\ \A i \in 1..l : Tail(s)[i] = s[i + 1]
    <2>1. Len(s) \in Nat /\ Len(s) # 0
      OBVIOUS
    <2>2. PICK l \in Nat : l = Len(s) - 1
      BY <2>1
    <2>3. Len(Tail(s)) = l /\ \A i \in 1..l : Tail(s)[i] = s[i + 1]
      BY <2>2
    <2>4. QED
      BY <2>1, <2>2, <2>3
  <1>5. PICK n \in Positions : n = (h + 1) % Word
    <2>1. (h + 1) % Word \in Positions
      <3>1. h + 1 \in Int
        OBVIOUS
      <3>2. QED
        BY <3>1, IsPosition
    <2>2. QED
      BY <2>1
  <1>6. PICK t \in Positions, d \in [0..(c - 1) -> Entries] : t = q.tail /\ d = q.data
    BY <1>1, <1>3
  <1> DEFINE new == [head |-> n, tail |-> t, cap |-> c, data |-> d]
  <1>7. [q EXCEPT !.head = (@ + 1) % Word] = new
    <2>1. q = [head |-> h, tail |-> t, cap |-> c, data |-> d]
      BY <1>1, <1>2, <1>3, <1>6
    <2>2. [q EXCEPT !.head = (@ + 1) % Word] = [q EXCEPT !.head = n]
      BY <1>2, <1>5, <2>1
    <2>3. QED
      BY <2>1, <2>2
  <1>8. IsRing(new)
    BY <1>1, <1>3 DEF IsRing
  <1>9. new.cap = c /\ new.head = n /\ new.tail = t /\ new.data = d /\ n \in Int
    BY DEF Positions
  <1> HIDE DEF new
  <1>10. \A i \in Int : (n + i) % Word = ((h + 1) + i) % Word
    <2> TAKE i \in Int
    <2>1. PICK a \in Int : a = h + 1
      OBVIOUS
    <2>2. ((a % Word) + i) % Word = (a + i) % Word
      BY <1>1, ModAdd
    <2>3. QED
      BY <1>5, <2>1, <2>2
  <1>11. t = (n + l) % Word
    <2>1. t = (h + (l + 1)) % Word
      BY <1>2, <1>4, <1>6 DEF Agrees
    <2>2. h + (l + 1) = (h + 1) + l
      OBVIOUS
    <2>3. QED
      BY <1>10, <2>1, <2>2
  <1>12. ASSUME NEW i \in 1..l PROVE d[(n + (i - 1)) % c] = Tail(s)[i]
    <2>1. i + 1 \in 1..Len(s) /\ Tail(s)[i] = s[i + 1]
      BY <1>4
    <2>2. d[(h + ((i + 1) - 1)) % c] = s[i + 1]
      BY <1>2, <1>3, <1>6, <2>1 DEF Agrees
    <2>3. (h + ((i + 1) - 1)) % c = (n + (i - 1)) % c
      <3>1. PICK a \in Int, b \in Int : a = n + (i - 1) /\ b = h + i
        BY <1>9
      <3>2. a % Word = b % Word
        <4>1. i - 1 \in Int /\ (h + 1) + (i - 1) = h + i
          OBVIOUS
        <4>2. QED
          BY <1>10, <3>1, <4>1
      <3>3. PICK k \in Nat : Word = k * c
        BY <1>1, <1>3
      <3>4. (a % Word) % c = a % c /\ (b % Word) % c = b % c
        BY <1>1, <3>3, ModMod
      <3>5. h + ((i + 1) - 1) = h + i
        OBVIOUS
      <3>6. QED
        BY <3>1, <3>2, <3>4, <3>5
    <2>4. QED
      BY <2>1, <2>2, <2>3
  <1>13. Agrees(new, Tail(s))
    <2>1. Len(Tail(s)) <= new.cap
      BY <1>3, <1>4, <1>9 DEF Agrees
    <2>2. new.tail = (new.head + Len(Tail(s))) % Word
      BY <1>4, <1>9, <1>11
    <2>3. \A i \in 1..Len(Tail(s)) : new.data[(new.head + (i - 1)) % new.cap] = Tail(s)[i]
      BY <1>4, <1>9, <1>12
    <2>4. QED
      BY <2>1, <2>2, <2>3 DEF Agrees
  <1>14. QED
    BY <1>7, <1>8, <1>13

(* A push to a ring that is full is refused, or goes to a larger one.         *)
LEMMA PushStep ==
  ASSUME CapsDivide, RingInv, NEW v \in Values, Q!Push(v)
  PROVE  RingInv'
  <1>1. IsRing(ring) /\ queued \in Seq(Values) /\ Agrees(ring, queued)
    BY DEF RingInv
  <1>2. queued' = Append(queued, v) /\ queued' \in Seq(Values)
    BY <1>1 DEF Q!Push
  <1>3. CASE ~Q!RingIsFull(ring) /\ ring' = Q!Added(ring, v)
    <2>1. Q!RingLen(ring) = Len(queued)
      BY <1>1, LenIs
    <2>2. Len(queued) < ring.cap
      <3>1. ring.cap \in Nat
        BY <1>1, RingFacts
      <3>2. QED
        BY <1>1, <1>3, <2>1, <3>1 DEF Agrees, Q!RingIsFull
    <2>3. IsRing(ring') /\ Agrees(ring', queued')
      BY <1>1, <1>2, <1>3, <2>2, AddedAgrees
    <2>4. QED
      BY <1>2, <2>3 DEF RingInv
  <1>4. CASE ring.cap < LastCap /\ ring' = Q!Added(Q!Enlarged(ring), v)
    <2>1. /\ IsRing(Q!Enlarged(ring)) /\ Agrees(Q!Enlarged(ring), queued)
          /\ Len(queued) < Q!Enlarged(ring).cap
      BY <1>1, <1>4, EnlargedAgrees
    <2>2. IsRing(ring') /\ Agrees(ring', queued')
      BY <1>1, <1>2, <1>4, <2>1, AddedAgrees
    <2>3. QED
      BY <1>2, <2>2 DEF RingInv
  <1>5. QED
    BY <1>3, <1>4 DEF Q!Push

(* A pop of a ring that is not empty.                                         *)
LEMMA PopStep ==
  ASSUME CapsDivide, RingInv, Q!Pop
  PROVE  RingInv'
  <1>1. IsRing(ring) /\ queued \in Seq(Values) /\ Agrees(ring, queued)
    BY DEF RingInv
  <1>2. queued # <<>>
    BY <1>1, LenIs DEF Q!Pop
  <1>3. ring' = [ring EXCEPT !.head = (@ + 1) % Word] /\ queued' = Tail(queued)
    BY DEF Q!Pop
  <1>4. IsRing(ring') /\ Agrees(ring', queued')
    BY <1>1, <1>2, <1>3, PopAgrees
  <1>5. queued' \in Seq(Values)
    BY <1>1, <1>2, <1>3
  <1>6. QED
    BY <1>4, <1>5 DEF RingInv

(* The ring is empty at first.                                                *)
LEMMA RingInit ==
  ASSUME CapsDivide, Q!Init
  PROVE  RingInv
  <1>1. RingCap \in Caps
    BY DEF CapsDivide
  <1>2. RingCap \in Nat \ {0} /\ Word \in Nat \ {0}
    BY <1>1, CapFacts
  <1>3. PICK d \in [0..(RingCap - 1) -> Entries] :
          ring = [head |-> 0, tail |-> 0, cap |-> RingCap, data |-> d]
    BY DEF Q!Init, Entries
  <1>4. queued = <<>>
    BY DEF Q!Init
  <1>5. 0 \in Positions
    BY <1>2 DEF Positions
  <1>6. IsRing(ring)
    BY <1>1, <1>3, <1>5 DEF IsRing
  <1>7. 0 % Word = 0
    BY <1>2, <1>5, ModSmall DEF Positions
  <1>8. ring.cap = RingCap /\ ring.tail = 0 /\ ring.head = 0
    BY <1>3
  <1>9. Agrees(ring, queued)
    BY <1>2, <1>4, <1>7, <1>8 DEF Agrees
  <1>10. QED
    BY <1>4, <1>6, <1>9 DEF RingInv

(* The invariant gives what the methods promise.                              *)
LEMMA RingInvGives ==
  ASSUME CapsDivide, RingInv
  PROVE  Q!RingIsSequence
  <1>1. IsRing(ring) /\ queued \in Seq(Values) /\ Agrees(ring, queued)
    BY DEF RingInv
  <1>2. Q!RingLen(ring) = Len(queued) /\ (Q!RingIsEmpty(ring) <=> queued = <<>>)
    BY <1>1, LenIs
  <1>3. ASSUME NEW i \in 1..Len(queued) PROVE Q!At(ring, i - 1) = queued[i]
    <2>1. i - 1 \in Int
      OBVIOUS
    <2>2. Q!At(ring, i - 1) = ring.data[(ring.head + (i - 1)) % ring.cap]
      <3>1. ((ring.head + (i - 1)) % Word) % ring.cap = (ring.head + (i - 1)) % ring.cap
        BY <1>1, <2>1, PlaceOf
      <3>2. QED
        BY <3>1 DEF Q!At
    <2>3. QED
      BY <1>1, <2>2 DEF Agrees
  <1>4. Q!RingIsEmpty(ring) = (queued = <<>>)
    BY <1>2 DEF Q!RingIsEmpty
  <1>5. QED
    BY <1>2, <1>3, <1>4 DEF Q!RingIsSequence

(* Every push and pop keeps the invariant.                                    *)
LEMMA RingNext == ASSUME CapsDivide, RingInv, [Q!Next]_ringVars PROVE RingInv'
  <1>1. CASE UNCHANGED ringVars
    BY <1>1 DEF ringVars, RingInv, IsRing, Agrees
  <1>2. CASE Q!Next
    BY <1>2, PopStep, PushStep DEF Q!Next
  <1>3. QED
    BY <1>1, <1>2

-----------------------------------------------------------------------------
(* The parts side by side                                                     *)

(* A step of the library is one of the part that was chosen, and leaves the   *)
(* other parts alone.                                                         *)
LEMMA OnePart ==
  ASSUME [Next]_vars
  PROVE  /\ part' = part
         /\ part = "counts" => [C!Next]_countVars
         /\ part = "rings" => [Q!Next]_ringVars
         /\ part = "strings" => [I!Next]_stringVars
         /\ part = "definitions" => [D!Next]_defVars
         /\ part = "modules" => [M!Next]_moduleVars
         /\ part = "streams" => [F!Next]_streamVars
  BY DEF Next, vars

CountPart  == part = "counts" => CountInv
RingPart   == part = "rings" => RingInv
DefPart    == part = "definitions" => DefInv

(* For any hashes of the objects, any capacity of 3 or more and any limit of  *)
(* the byte: byte and table are the number of references of every object, and *)
(* a search in the table ends.                                                *)
THEOREM CountsAreRight == TableGiven => (Spec => []CountsHold)
  <1> SUFFICES ASSUME TableGiven PROVE Spec => []CountsHold
    OBVIOUS
  <1>1. Init => CountPart
    BY CountInit DEF Init, CountPart
  <1>2. CountPart /\ [Next]_vars => CountPart'
    <2> SUFFICES ASSUME CountPart, [Next]_vars, part' = "counts" PROVE CountInv'
      BY DEF CountPart
    <2>1. CountInv /\ [C!Next]_countVars
      BY OnePart DEF CountPart
    <2>2. QED
      BY <2>1, CountNext
  <1>3. CountPart => CountsHold
    BY CountGives DEF CountPart, CountsHold
  <1>4. QED
    BY <1>1, <1>2, <1>3, PTL DEF Spec

(* For any width of the positions that the capacities divide, a queue answers *)
(* what a sequence would, wherever its positions are.  CapsDivide holds when  *)
(* the width and the first capacity are powers of two, as 2 ^ 32 and those of *)
(* the code are.                                                              *)
THEOREM QueueIsSequence == CapsDivide => (Spec => []RingIsSequence)
  <1> SUFFICES ASSUME CapsDivide PROVE Spec => []RingIsSequence
    OBVIOUS
  <1>1. Init => RingPart
    BY RingInit DEF Init, RingPart
  <1>2. RingPart /\ [Next]_vars => RingPart'
    <2> SUFFICES ASSUME RingPart, [Next]_vars, part' = "rings" PROVE RingInv'
      BY DEF RingPart
    <2>1. RingInv /\ [Q!Next]_ringVars
      BY OnePart DEF RingPart
    <2>2. QED
      BY <2>1, RingNext
  <1>3. RingPart => RingIsSequence
    BY RingInvGives DEF RingPart, RingIsSequence
  <1>4. QED
    BY <1>1, <1>2, <1>3, PTL DEF Spec

(* For any number of jobs, messages, types and definitions: once gab_ndef     *)
(* has returned, no send on any job runs an implementation older than what    *)
(* it defined, unless that send's look-up and epoch were torn apart by a      *)
(* definition (OP_SEND).                                                      *)
THEOREM DefsAreSeen == Spec => []DefsSeen
  <1>1. Init => DefPart
    BY DefInit DEF Init, DefPart
  <1>2. DefPart /\ [Next]_vars => DefPart'
    <2> SUFFICES ASSUME DefPart, [Next]_vars, part' = "definitions" PROVE DefInv'
      BY DEF DefPart
    <2>1. DefInv /\ [D!Next]_defVars
      BY OnePart DEF DefPart
    <2>2. QED
      BY <2>1, DefNext
  <1>3. DefPart => DefsSeen
    BY DefInvSees DEF DefPart, DefsSeen
  <1>4. QED
    BY <1>1, <1>2, <1>3, PTL DEF Spec

-----------------------------------------------------------------------------
(* Strings, modules and streams: the proofs of their modules, of the          *)
(* constants this library gives them.  What is defined once in a module is    *)
(* the same in an instance of its proofs.                                     *)

IP == INSTANCE StringsProofs WITH objects <- strObjects, Texts <- BytesMade,
                                  MaxObjects <- MaxStrings
MP == INSTANCE ModulesProofs WITH answer <- answered
FP == INSTANCE StreamsProofs

(* Strings.                                                                   *)
LEMMA TextsInit == I!Init <=> IP!Init
  BY Zenon DEF I!Init, IP!Init, I!Idle, IP!Idle

(* The steps on strings.                                                      *)
LEMMA TextsNext == I!Next <=> IP!Next
  BY Zenon DEF I!Next, IP!Next, I!EndCollection, IP!EndCollection, I!Copies,
         IP!Copies, I!ObjectsOf, IP!ObjectsOf, I!IsObject, IP!IsObject,
         I!InFlight, IP!InFlight, I!Unreachable, IP!Unreachable,
         I!StartCollection, IP!StartCollection, I!Report, IP!Report, I!Drop,
         IP!Drop, I!Idle, IP!Idle, I!Convert, IP!Convert, I!Retag, IP!Retag,
         I!Reply, IP!Reply, I!StrMbLen, IP!StrMbLen, I!StrData, IP!StrData,
         I!Codepoints, IP!Codepoints, I!CString, IP!CString, I!Decoded,
         IP!Decoded, I!Accept, IP!Accept, I!Decode, IP!Decode, I!Reject,
         IP!Reject, I!Lead, IP!Lead, I!Tags, IP!Tags, I!Insert, IP!Insert,
         I!Begin, IP!Begin, I!Object, IP!Object, I!Create, IP!Create, I!Look,
         IP!Look, I!StrCat, IP!StrCat, I!ShortCat, IP!ShortCat, I!StrLen,
         IP!StrLen, I!ShortMost, IP!ShortMost, I!StrBytes, IP!StrBytes, I!Pad,
         IP!Pad, I!FitsShort, IP!FitsShort, I!Given, IP!Given, I!NString,
         IP!NString, I!Short, IP!Short, I!Cardinality, IP!Cardinality,
         I!FoldSet, IP!FoldSet, I!FoldLeft, IP!FoldLeft, I!MapThenFoldSet,
         IP!MapThenFoldSet, I!Max, IP!Max, I!SelectInSeq, IP!SelectInSeq,
         I!Min, IP!Min

(* Equal texts in both instances.                                             *)
LEMMA TextsEqual == I!EqualIsSame <=> IP!EqualIsSame
  BY Zenon DEF I!EqualIsSame, IP!EqualIsSame, I!Held, IP!Held

(* Exact texts in both instances.                                             *)
LEMMA TextsExact == I!TextIsExact <=> IP!TextIsExact
  BY Zenon DEF I!TextIsExact, IP!TextIsExact, I!Codepoints, IP!Codepoints,
         I!CString, IP!CString, I!Decoded, IP!Decoded, I!Accept, IP!Accept,
         I!Decode, IP!Decode, I!Reject, IP!Reject, I!Lead, IP!Lead,
         I!StrMbLen, IP!StrMbLen, I!StrData, IP!StrData, I!IsObject,
         IP!IsObject, I!StrBytes, IP!StrBytes, I!StrLen, IP!StrLen,
         I!ShortMost, IP!ShortMost, I!Held, IP!Held, I!FoldLeft, IP!FoldLeft,
         I!MapThenFoldSet, IP!MapThenFoldSet, I!Max, IP!Max, I!SelectInSeq,
         IP!SelectInSeq, I!Min, IP!Min

(* Modules: first what a request resolves to.                                 *)
LEMMA ResolveSame ==
  ASSUME NEW r
  PROVE  M!Resolve(r) = MP!Resolve(r)
  BY Zenon DEF M!Resolve, MP!Resolve, M!MResolve, MP!MResolve, M!ResMatch,
         MP!ResMatch, M!Nowhere, MP!Nowhere, M!Resources, MP!Resources,
         M!SelectInSeq, MP!SelectInSeq, M!Min, MP!Min

(* How a use begins.                                                          *)
LEMMA BeginSame ==
  ASSUME NEW u, NEW r
  PROVE  M!Begin(u, r) <=> MP!Begin(u, r)
  BY ResolveSame DEF M!Begin, MP!Begin, M!NoModule, MP!NoModule, M!Nowhere, MP!Nowhere

(* The empty cache.                                                           *)
LEMMA CacheInit == M!Init <=> MP!Init
  BY Zenon DEF M!Init, MP!Init, M!NoAnswer, MP!NoAnswer, M!Failure,
         MP!Failure, M!NoModule, MP!NoModule

(* The steps of uses, one after the other.                                    *)
LEMMA CacheNext == M!Next <=> MP!Next
  <1>1. ASSUME NEW u PROVE M!Use(u) <=> MP!Use(u)
    BY BeginSame, Zenon DEF M!Use, MP!Use, M!Working, MP!Working
  <1>2. ASSUME NEW u PROVE M!Need(u) <=> MP!Need(u)
    <2>1. PICK top : top = M!Top(u)
      OBVIOUS
    <2>2. top = MP!Top(u)
      BY <2>1, Zenon DEF M!Top, MP!Top, M!Last, MP!Last
    <2>3. M!At(u, "load") <=> MP!At(u, "load")
      BY Zenon DEF M!At, MP!At, M!Working, MP!Working, M!Top, MP!Top, M!Last, MP!Last
    <2>4. QED
      BY <2>1, <2>2, <2>3, BeginSame, Zenon DEF M!Need, MP!Need
  <1>3. ASSUME NEW u PROVE M!Look(u) <=> MP!Look(u)
    BY Zenon DEF M!Look, MP!Look, M!At, MP!At, M!Working, MP!Working, M!Top,
           MP!Top, M!Last, MP!Last, M!Front, MP!Front, M!Rivals, MP!Rivals,
           M!Loading, MP!Loading, M!NoModule, MP!NoModule, M!Answer,
           MP!Answer, M!NoAnswer, MP!NoAnswer, M!Failure, MP!Failure
  <1>4. ASSUME NEW u PROVE M!Load(u) <=> MP!Load(u)
    BY Zenon DEF M!Load, MP!Load, M!At, MP!At, M!Working, MP!Working, M!Top,
           MP!Top, M!Last, MP!Last
  <1>5. ASSUME NEW u PROVE M!LoadFails(u) <=> MP!LoadFails(u)
    BY Zenon DEF M!LoadFails, MP!LoadFails, M!At, MP!At, M!Working,
           MP!Working, M!Top, MP!Top, M!Last, MP!Last, M!Goto, MP!Goto
  <1>6. ASSUME NEW u PROVE M!Fail(u) <=> MP!Fail(u)
    BY Zenon DEF M!Fail, MP!Fail, M!At, MP!At, M!Working, MP!Working, M!Top,
           MP!Top, M!Last, MP!Last, M!Front, MP!Front, M!Answer, MP!Answer,
           M!NoAnswer, MP!NoAnswer, M!Failure, MP!Failure
  <1>7. ASSUME NEW u PROVE M!Keep(u) <=> MP!Keep(u)
    BY Zenon DEF M!Keep, MP!Keep, M!At, MP!At, M!Working, MP!Working, M!Top,
           MP!Top, M!Last, MP!Last, M!Front, MP!Front, M!Answer, MP!Answer,
           M!NoAnswer, MP!NoAnswer, M!Failure, MP!Failure, M!Goto, MP!Goto,
           M!SegModPut, MP!SegModPut, M!NoModule, MP!NoModule, M!Refused,
           MP!Refused
  <1>8. ASSUME NEW u PROVE M!Put(u) <=> MP!Put(u)
    BY Zenon DEF M!Put, MP!Put, M!At, MP!At, M!Working, MP!Working, M!Top,
           MP!Top, M!Last, MP!Last, M!Front, MP!Front, M!Answer, MP!Answer,
           M!NoAnswer, MP!NoAnswer, M!Failure, MP!Failure, M!SegModPut,
           MP!SegModPut, M!NoModule, MP!NoModule
  <1>9. QED
    BY <1>1, <1>2, <1>3, <1>4, <1>5, <1>6, <1>7, <1>8, Zenon DEF M!Next, MP!Next

(* One instance in both instances.                                            *)
LEMMA CacheOne == M!OneInstance <=> MP!OneInstance
  BY Zenon DEF M!OneInstance, MP!OneInstance, M!Failure, MP!Failure

(* Streams.                                                                   *)
LEMMA StreamInit == F!Init <=> FP!Init
  BY Zenon DEF F!Init, FP!Init, F!Idle, FP!Idle, F!Streaming, FP!Streaming

(* The steps on streams.                                                      *)
LEMMA StreamNext == F!Next <=> FP!Next
  BY Zenon DEF F!Next, FP!Next, F!DeviceSettles, FP!DeviceSettles, F!Set,
         FP!Set, F!Settling, FP!Settling, F!Runs, FP!Runs, F!DeviceWrites,
         FP!DeviceWrites, F!In, FP!In, F!DeviceReads, FP!DeviceReads, F!Live,
         FP!Live, F!Promised, FP!Promised, F!Unread, FP!Unread, F!Note,
         FP!Note, F!Lesser, FP!Lesser, F!ResumeSettle, FP!ResumeSettle, F!End,
         FP!End, F!Idle, FP!Idle, F!Unsettle, FP!Unsettle, F!AskSettle,
         FP!AskSettle, F!Swap, FP!Swap, F!Kind, FP!Kind, F!Settle, FP!Settle,
         F!NewCall, FP!NewCall, F!ResumeSend, FP!ResumeSend, F!SendPanics,
         FP!SendPanics, F!ResumeSockSend, FP!ResumeSockSend, F!Sent, FP!Sent,
         F!ResumeFileSend, FP!ResumeFileSend, F!AskWrite, FP!AskWrite, F!Send,
         FP!Send, F!Payload, FP!Payload, F!Streaming, FP!Streaming, F!Copy,
         FP!Copy, F!BufferByte, FP!BufferByte, F!ResumeRecv, FP!ResumeRecv,
         F!Take, FP!Take, F!BufferFront, FP!BufferFront, F!Abort, FP!Abort,
         F!Need, FP!Need, F!IobufRecv, FP!IobufRecv, F!AskRead, FP!AskRead,
         F!Reading, FP!Reading, F!BufferAvail, FP!BufferAvail, F!BufferBack,
         FP!BufferBack, F!BufferLen, FP!BufferLen, F!Fail, FP!Fail,
         F!ReadMore, FP!ReadMore, F!Recv, FP!Recv

(* Whole bytes in both instances.                                             *)
LEMMA StreamBytes == F!BytesAreWhole <=> FP!BytesAreWhole
  BY Zenon DEF F!BytesAreWhole, FP!BytesAreWhole, F!Piece, FP!Piece,
         F!Carried, FP!Carried, F!BufferByte, FP!BufferByte, F!Pieces,
         FP!Pieces, F!Increasing, FP!Increasing, F!ToSet, FP!ToSet

(* Taken sends in both instances.                                             *)
LEMMA StreamSends == F!SendsAreTaken <=> FP!SendsAreTaken
  BY Zenon DEF F!SendsAreTaken, FP!SendsAreTaken, F!TakenOf, FP!TakenOf

(* A settled socket in both instances.                                        *)
LEMMA StreamSettled == F!SettledOnce <=> FP!SettledOnce
  BY Zenon DEF F!SettledOnce, FP!SettledOnce, F!Kind, FP!Kind, F!Settling,
         FP!Settling, F!Cardinality, FP!Cardinality

TextPart   == part = "strings" => IP!IInv
CachePart  == part = "modules" => MP!IInv
StreamPart == part = "streams" => FP!IInv

(* A string is its text, whichever jobs make it at once and whatever is       *)
(* collected: equal texts are one value but for the race that gab_tnstring    *)
(* leaves open, and a value reads as the text it was made for.                *)
THEOREM StringIsText == IP!TextsAreBytes => (Spec => []ValueIsText)
  <1> SUFFICES ASSUME IP!TextsAreBytes PROVE Spec => []ValueIsText
    OBVIOUS
  <1>1. Init => TextPart
    BY TextsInit, IP!InitHolds DEF Init, TextPart
  <1>2. TextPart /\ [Next]_vars => TextPart'
    <2> SUFFICES ASSUME TextPart, [Next]_vars, part' = "strings" PROVE IP!IInv'
      BY DEF TextPart
    <2>1. IP!IInv /\ [I!Next]_stringVars
      BY OnePart DEF TextPart
    <2>2. [IP!Next]_(IP!textVars)
      BY <2>1, TextsNext DEF IP!textVars, stringVars
    <2>3. QED
      BY <2>1, <2>2, IP!NextKeeps
  <1>3. TextPart => ValueIsText
    BY TextsEqual, TextsExact, IP!EqualHolds, IP!ExactHolds DEF TextPart, ValueIsText
  <1>4. QED
    BY <1>1, <1>2, <1>3, PTL DEF Spec

(* For any files, roots and needs: all uses of a module get one instance of   *)
(* it (gab_use).                                                              *)
THEOREM UsesShareInstance == MP!NeedsAreRequests => (Spec => []OneInstance)
  <1> SUFFICES ASSUME MP!NeedsAreRequests PROVE Spec => []OneInstance
    OBVIOUS
  <1>1. Init => CachePart
    BY CacheInit, MP!InitHolds DEF Init, CachePart
  <1>2. CachePart /\ [Next]_vars => CachePart'
    <2> SUFFICES ASSUME CachePart, [Next]_vars, part' = "modules" PROVE MP!IInv'
      BY DEF CachePart
    <2>1. MP!IInv /\ [M!Next]_moduleVars
      BY OnePart DEF CachePart
    <2>2. [MP!Next]_(MP!moduleVars)
      BY <2>1, CacheNext DEF MP!moduleVars, moduleVars
    <2>3. QED
      BY <2>1, <2>2, MP!NextStep
  <1>3. CachePart => OneInstance
    BY CacheOne, MP!OneHolds DEF CachePart, OneInstance
  <1>4. QED
    BY <1>1, <1>2, <1>3, PTL DEF Spec

(* For any fibers and any sizes: what goes through a file or a socket arrives *)
(* whole, what is sent is taken, and a socket is connected or bound once.     *)
THEOREM StreamsAreWhole == FP!SizesAreNumbers => (Spec => []StreamsHold)
  <1> SUFFICES ASSUME FP!SizesAreNumbers PROVE Spec => []StreamsHold
    OBVIOUS
  <1>1. Init => StreamPart
    BY StreamInit, FP!InitHolds DEF Init, StreamPart
  <1>2. StreamPart /\ [Next]_vars => StreamPart'
    <2> SUFFICES ASSUME StreamPart, [Next]_vars, part' = "streams" PROVE FP!IInv'
      BY DEF StreamPart
    <2>1. FP!IInv /\ [F!Next]_streamVars
      BY OnePart DEF StreamPart
    <2>2. [FP!Next]_(FP!streamVars)
      BY <2>1, StreamNext DEF FP!streamVars, streamVars
    <2>3. QED
      BY <2>1, <2>2, FP!NextKeeps
  <1>3. StreamPart => StreamsHold
    BY StreamBytes, StreamSends, StreamSettled, FP!InvGives DEF StreamPart, StreamsHold
  <1>4. QED
    BY <1>1, <1>2, <1>3, PTL DEF Spec
=============================================================================
