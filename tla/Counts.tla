------------------------------- MODULE Counts --------------------------------
(***************************************************************************)
(* Reference counts.  An object has a byte for its count; what does not    *)
(* fit is in a table of the collector, which is read and written only when *)
(* the byte is at its limit.  An object at the limit that is not in the    *)
(* table counts as the limit itself, which is what the table answers for a *)
(* missing key.                                                            *)
(***************************************************************************)
EXTENDS Integers

CONSTANTS
  Objects,     \* the objects
  Byte,        \* UINT8_MAX, 255
  MostCount,   \* bound: references to one object
  FirstCap,    \* the capacity of the table: 8
  ObjectHash   \* the hash of each object's address

VARIABLES
  references,  \* the byte in each object
  overflow,    \* gc.overflow_rc
  true         \* history: how many references there are

countVars == <<references, overflow, true>>

D == INSTANCE Dict WITH
  DictHash <- ObjectHash, LoadTenths <- 6, LeastCap <- FirstCap, Missing <- Byte

Init ==
  /\ references = [o \in Objects |-> 1]
  /\ overflow = D!Create(FirstCap)
  /\ true = [o \in Objects |-> 1]

(* __gab_gcobjinc                                                          *)
Inc(o) ==
  /\ true[o] < MostCount
  /\ IF references[o] = Byte
     THEN /\ overflow' = D!Insert(overflow, o, D!Read(overflow, o) + 1)
          /\ UNCHANGED references
     ELSE /\ references' = [references EXCEPT ![o] = @ + 1]
          /\ UNCHANGED overflow
  /\ true' = [true EXCEPT ![o] = @ + 1]

(* Faulty variant: at the limit the table is not looked at.                *)
DecBlind(o) ==
  /\ true[o] > 0
  /\ overflow' = IF references[o] = Byte THEN D!RemoveKey(overflow, o) ELSE overflow
  /\ references' = [references EXCEPT ![o] = @ - 1]
  /\ true' = [true EXCEPT ![o] = @ - 1]

(* __gab_gcobjdec                                                          *)
Dec(o) ==
  /\ true[o] > 0
  /\ LET rc == D!Read(overflow, o)
     IN \/ /\ references[o] = Byte /\ rc # Byte
           /\ overflow' = D!Insert(overflow, o, rc - 1)
           /\ UNCHANGED references
        \/ /\ references[o] = Byte /\ rc = Byte
           /\ overflow' = D!RemoveKey(overflow, o)
           /\ references' = [references EXCEPT ![o] = @ - 1]
        \/ /\ references[o] # Byte
           /\ references' = [references EXCEPT ![o] = @ - 1]
           /\ UNCHANGED overflow
  /\ true' = [true EXCEPT ![o] = @ - 1]

Next == \E o \in Objects : Inc(o) \/ Dec(o)

(* Byte and table together are the number of references, however often the *)
(* count went over the limit and back.                                     *)
CountsAreExact ==
  \A o \in Objects :
    true[o] = IF references[o] = Byte THEN D!Read(overflow, o) ELSE references[o]

(* The table never fills up with the tombstones of objects whose count     *)
(* went over the limit and back: a search for an object that is not in it  *)
(* ends (the collector's thread would not come back from one that does     *)
(* not).                                                                   *)
TableSearchEnds == D!SearchEnds(overflow)
=============================================================================
