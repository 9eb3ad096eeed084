------------------------------- MODULE Library -------------------------------
(* The parts of the runtime that can be checked each by itself, side by    *)
(* side: the counts of references, the queues, the interned strings, the   *)
(* definitions of messages, the module cache and the streams.  A behaviour *)
(* is one of one part, chosen in the initial state.                        *)
EXTENDS Integers, Sequences

CONSTANTS
  Parts,                                \* the parts of this run
  Objects, Byte, MostCount, TableCap, Address,
  Word, RingCap, LastCap, Values,
  Jobs, BytesMade, MaxHeld, MaxStrings,
  Messages, Types, MaxDefs,
  Users, Roots, Files, Requests, Needs, MaxLoads,
  Fibers, BufferSize, Wants, Lengths, MostIn, MaxCalls

VARIABLES
  part,
  references, overflow, true,
  ring, grows, queued,
  strObjects, strings, held, doing, collecting, reported, raced,
  specs, epoch, cache, running, returned, torn,
  modules, cut, frames, loads, answered,
  io, calls, device, made, heard, sent, settled, odd

C == INSTANCE Counts WITH FirstCap <- TableCap, ObjectHash <- Address
Q == INSTANCE Ring WITH FirstCap <- RingCap
I == INSTANCE Strings WITH objects <- strObjects, Texts <- BytesMade,
                           MaxObjects <- MaxStrings
D == INSTANCE Definitions
M == INSTANCE Modules WITH answer <- answered
F == INSTANCE Streams

countVars  == <<references, overflow, true>>
ringVars   == <<ring, grows, queued>>
stringVars == <<strObjects, strings, held, doing, collecting, reported, raced>>
defVars    == <<specs, epoch, cache, running, returned, torn>>
moduleVars == <<modules, cut, frames, loads, answered>>
streamVars == <<io, calls, device, made, heard, sent, settled, odd>>
vars       == <<part, countVars, ringVars, stringVars, defVars, moduleVars, streamVars>>

Nothing == "nothing"

Init ==
  /\ part \in Parts
  /\ IF part = "counts" THEN C!Init
     ELSE references = Nothing /\ overflow = Nothing /\ true = Nothing
  /\ IF part = "rings" THEN Q!Init
     ELSE ring = Nothing /\ grows = Nothing /\ queued = Nothing
  /\ IF part = "strings" THEN I!Init
     ELSE strObjects = Nothing /\ strings = Nothing /\ held = Nothing
          /\ doing = Nothing /\ collecting = Nothing
          /\ reported = Nothing /\ raced = Nothing
  /\ IF part = "definitions" THEN D!Init
     ELSE specs = Nothing /\ epoch = Nothing /\ cache = Nothing
          /\ running = Nothing /\ returned = Nothing /\ torn = Nothing
  /\ IF part = "modules" THEN M!Init
     ELSE modules = Nothing /\ cut = Nothing /\ frames = Nothing
          /\ loads = Nothing /\ answered = Nothing
  /\ IF part = "streams" THEN F!Init
     ELSE io = Nothing /\ calls = Nothing /\ device = Nothing /\ made = Nothing
          /\ heard = Nothing /\ sent = Nothing /\ settled = Nothing
          /\ odd = Nothing

Next ==
  \/ /\ part = "counts"
     /\ C!Next
     /\ UNCHANGED <<part, ringVars, stringVars, defVars, moduleVars, streamVars>>
  \/ /\ part = "rings"
     /\ Q!Next
     /\ UNCHANGED <<part, countVars, stringVars, defVars, moduleVars, streamVars>>
  \/ /\ part = "strings"
     /\ I!Next
     /\ UNCHANGED <<part, countVars, ringVars, defVars, moduleVars, streamVars>>
  \/ /\ part = "definitions"
     /\ D!Next
     /\ UNCHANGED <<part, countVars, ringVars, stringVars, moduleVars, streamVars>>
  \/ /\ part = "modules"
     /\ M!Next
     /\ UNCHANGED <<part, countVars, ringVars, stringVars, defVars, streamVars>>
  \/ /\ part = "streams"
     /\ F!Next
     /\ UNCHANGED <<part, countVars, ringVars, stringVars, defVars, moduleVars>>

Spec == Init /\ [][Next]_vars

(* Byte and overflow table count every reference (__gab_gcobjinc), and a   *)
(* search in the table ends (d_index_of).                                  *)
CountsHold      == part = "counts" => C!CountsAreExact /\ C!TableSearchEnds
(* A ring answers what a sequence would (queue.h).                         *)
RingIsSequence  == part = "rings" => Q!RingIsSequence
(* A string is its text, whoever makes it and whatever is collected        *)
(* (gab_tnstring, gab_strcat).                                             *)
ValueIsText     == part = "strings" => I!EqualIsSame /\ I!TextIsExact
(* A send runs no definition older than one that has returned (gab_ndef).  *)
DefsSeen        == part = "definitions" => D!DefsSeen
(* All uses of a module get one instance of it (gab_use).                  *)
OneInstance     == part = "modules" => M!OneInstance
(* What goes through a file or a socket is whole, and a socket is connected*)
(* or bound once (stream\recv, stream\send, connect, bind in cio.c).       *)
StreamsHold     == part = "streams" =>
                     F!BytesAreWhole /\ F!SendsAreTaken /\ F!SettledOnce
=============================================================================
