----------------------------- MODULE Definitions -----------------------------
(* Definitions and sends on several jobs (cgab.c, gab_ndef, gab_impl and      *)
(* OP_SEND).  The implementations of all messages are one immutable record    *)
(* behind an atomic pointer; a definition makes another record and swaps the  *)
(* pointer, then advances messages_epoch.  A send keeps what it looked up in  *)
(* the constants of its instruction, which every job has a copy of, and uses  *)
(* it while the epoch is the one it loaded after the look-up.                 *)
(*                                                                            *)
(* An implementation is named by the version of the record that brought it.   *)
EXTENDS Integers, FiniteSets

CONSTANTS
  Jobs,
  Messages,
  Types,          \* types of receivers
  MaxDefs         \* bound: definitions in a behaviour

VARIABLES
  specs,          \* eg->messages, as the version of each implementation
  epoch,          \* eg->messages_epoch
  cache,          \* per job and message, the constants of its send
  running,        \* per job, the definition or the send it is in
  returned,       \* the implementations whose definition has returned
  torn            \* the sends whose look-up and epoch belong to two versions

defVars == <<specs, epoch, cache, running, returned, torn>>

Slots == Messages \X Types
Never == 0
Quiet == [at |-> "quiet"]
Empty == [epoch |-> -1, impl |-> [t \in {} |-> Never]]

Record(version, impl) == [version |-> version, impl |-> impl]

(****************************************************************************)
(* gab_ndef: the definition of some implementations at once.                *)
(****************************************************************************)
Define(j) ==
  /\ running[j] = Quiet
  /\ Cardinality({i \in Jobs : running[i].at = "swap"}) + specs.version < MaxDefs
  /\ \E args \in SUBSET Slots \ {{}} :
       running' = [running EXCEPT ![j] = [at |-> "swap", base |-> specs, args |-> args]]
  /\ UNCHANGED <<specs, epoch, cache, returned, torn>>

(* __gab_egdodef                                                            *)
Added(base, args) ==
  Record(base.version + 1,
         [s \in Slots |-> IF s \in args THEN base.version + 1 ELSE base.impl[s]])

(* Faulty variant of Swap: the pointer is stored without a comparison.      *)
SwapBlind(j) ==
  /\ running[j].at = "swap"
  /\ specs' = Added(running[j].base, running[j].args)
  /\ running' = [running EXCEPT ![j] = [at |-> "bump", new |-> specs'.version,
                                        args |-> running[j].args]]
  /\ UNCHANGED <<epoch, cache, returned, torn>>

(* A comparison that fails loads the pointer again.                         *)
Swap(j) ==
  /\ running[j].at = "swap"
  /\ IF specs = running[j].base
     THEN /\ specs' = Added(specs, running[j].args)
          /\ running' = [running EXCEPT ![j] = [at |-> "bump", new |-> specs'.version,
                                                args |-> running[j].args]]
     ELSE /\ running' = [running EXCEPT ![j] = [at |-> "swap", base |-> specs,
                                                args |-> running[j].args]]
          /\ UNCHANGED specs
  /\ UNCHANGED <<epoch, cache, returned, torn>>

Bump(j) ==
  /\ running[j].at = "bump"
  /\ epoch' = epoch + 1
  /\ returned' = [s \in Slots |->
       IF s \in running[j].args /\ returned[s] < running[j].new
       THEN running[j].new ELSE returned[s]]
  /\ running' = [running EXCEPT ![j] = Quiet]
  /\ UNCHANGED <<specs, cache, torn>>

(****************************************************************************)
(* A send                                                                   *)
(****************************************************************************)
Hits(j, m, t) == cache[j][m].epoch = epoch /\ t \in DOMAIN cache[j][m].impl

(* The guards of a rewritten send fail: gab_impl reads the pointer.  A match*)
(* (__gab_vmtrysetuplocalmatch) keeps all types, another send only its own. *)
Look(j) ==
  /\ running[j] = Quiet
  /\ \E m \in Messages, t \in Types :
       /\ ~Hits(j, m, t) /\ specs.impl[<<m, t>>] # Never
       /\ \E kept \in {{t}, {u \in Types : specs.impl[<<m, u>>] # Never}} :
            running' = [running EXCEPT ![j] =
              [at |-> "fill", message |-> m, epoch |-> epoch,
               impl |-> [u \in kept |-> specs.impl[<<m, u>>]]]]
  /\ UNCHANGED <<specs, epoch, cache, returned, torn>>

(* Only then the epoch is loaded and kept with what was found.              *)
Fill(j) ==
  /\ running[j].at = "fill"
  /\ LET m == running[j].message
         impl == running[j].impl
         replaced == \E t \in DOMAIN impl : specs.impl[<<m, t>>] # impl[t]
     IN /\ cache' = [cache EXCEPT ![j][m] = [epoch |-> epoch, impl |-> impl]]
        /\ torn' = IF epoch # running[j].epoch /\ replaced
                   THEN torn \cup {<<j, m>>} ELSE torn \ {<<j, m>>}
  /\ running' = [running EXCEPT ![j] = Quiet]
  /\ UNCHANGED <<specs, epoch, returned>>

Init ==
  /\ specs = Record(0, [s \in Slots |-> Never]) /\ epoch = 0
  /\ cache = [j \in Jobs |-> [m \in Messages |-> Empty]]
  /\ running = [j \in Jobs |-> Quiet]
  /\ returned = [s \in Slots |-> Never]
  /\ torn = {}

Next ==
  \E j \in Jobs : Define(j) \/ Swap(j) \/ Bump(j) \/ Look(j) \/ Fill(j)

Spec == Init /\ [][Next]_defVars

-----------------------------------------------------------------------------
(* What a send of m to a receiver of type t would run on j.                 *)
WouldRun(j, m, t) ==
  IF Hits(j, m, t) THEN cache[j][m].impl[t] ELSE specs.impl[<<m, t>>]

(* Once a definition has returned, every send on every job runs what it     *)
(* defined or something defined later: none is lost to a definition made at *)
(* the same time, and none is hidden by what a send has kept.  The exception*)
(* is a send that looked up before and loaded the epoch after the end of a  *)
(* definition (OP_SEND); it stays hidden until the next definition.         *)
DefsSeen ==
  \A j \in Jobs, m \in Messages, t \in Types :
    running[j] = Quiet /\ <<j, m>> \notin torn
      => WouldRun(j, m, t) >= returned[<<m, t>>]
=============================================================================
