------------------------------ MODULE MCLibrary ------------------------------
(* The library, and beside it the parts whose trees and texts take an      *)
(* induction: the shapes, the records and the natives on strings.          *)
EXTENDS Library

CONSTANTS
  Bits,                                 \* GAB_PVEC_BITS
  HashLen, Hashes, ShapeKeys, MaxShapes,
  RecordKeys, Sizes, Cats, MaxRecords,
  MostGraphemes

VARIABLES
  shapeMem, table, spelled,
  recordMem, records, means,
  text, use, parts, rest, at, answer

(* Two objects collide, a third one is in their way.                       *)
AddressGiven == [o \in Objects |-> <<0, 0, 1, 3>>[o]]

(* A part of a character, four characters, the two together, and these with*)
(* a byte that makes them no UTF-8.                                        *)
BytesGiven == {<<195>>, <<169, 1, 1, 1>>, <<195, 169, 1, 1, 1>>,
               <<195, 169, 1, 1, 1, 195>>}

(* A native module, a source that hides another in a later root, and one   *)
(* that a package names with a colon and that needs the native.            *)
Request(module, colon, reload) ==
  [package |-> "p", module |-> module, colon |-> colon, reload |-> reload]
RootsGiven == <<"r1", "r2">>
FilesGiven == {<<"r2", "p", "c", ".so">>, <<"r1", "p", "mod", ".gab">>,
               <<"r2", "p", "mod", ".gab">>, <<"r1", "p", "mod/", "m", ".gab">>}
RequestsGiven == {Request(<<"c">>, FALSE, FALSE), Request(<<"c">>, FALSE, TRUE),
                  Request(<<>>, FALSE, FALSE), Request(<<"m">>, TRUE, FALSE)}
NeedsGiven == [path \in {<<"r1", "p", "mod/", "m", ".gab">>} |->
                 <<Request(<<"c">>, FALSE, FALSE)>>]

ShapesGiven  == {<<>>, <<0, 1, 0>>, <<4, 2, 0>>}
RecordsGiven == {<<7, 0, 7>>}

Letters == {<<97>>, <<32>>, <<195, 169>>}    \* a, a blank and e with an accent
Numbers == -2..4

S == INSTANCE Shapes WITH
  mem <- shapeMem, ShpBits <- Bits, Keys <- ShapeKeys, Given <- ShapesGiven
R == INSTANCE Records WITH
  mem <- recordMem, PvecBits <- Bits, Keys <- RecordKeys, Given <- RecordsGiven
N == INSTANCE Texts

shapeVars  == <<shapeMem, table, spelled>>
recordVars == <<recordMem, records, means>>
nativeVars == <<text, use, parts, rest, at, answer>>

AllInit ==
  /\ Init
  /\ IF part = "shapes" THEN S!Init
     ELSE shapeMem = Nothing /\ table = Nothing /\ spelled = Nothing
  /\ IF part = "records" THEN R!Init
     ELSE recordMem = Nothing /\ records = Nothing /\ means = Nothing
  /\ IF part = "natives" THEN N!Init
     ELSE text = Nothing /\ use = Nothing /\ parts = Nothing
          /\ rest = Nothing /\ at = Nothing /\ answer = Nothing

AllNext ==
  \/ Next /\ UNCHANGED <<shapeVars, recordVars, nativeVars>>
  \/ /\ part = "shapes"
     /\ S!Next
     /\ UNCHANGED <<vars, recordVars, nativeVars>>
  \/ /\ part = "records"
     /\ R!Next
     /\ UNCHANGED <<vars, shapeVars, nativeVars>>
  \/ /\ part = "natives"
     /\ N!Next
     /\ UNCHANGED <<vars, shapeVars, recordVars>>

(* A behaviour of all the parts is one of the library.                     *)
AllSpec == AllInit /\ [][AllNext]_<<vars, shapeVars, recordVars, nativeVars>>

(* Every interned shape keeps its keys and their order (gab_shpfind), and  *)
(* shapes with the same keys are the same object (gab_shpwith).            *)
ShapesHold      == part = "shapes" => S!ShapesKeep /\ S!ShapesAreUnique
(* Every record keeps its keys and values (gab_uvrecat).                   *)
RecordsKeep     == part = "records" => R!RecordsKeep
(* The natives on strings answer what their names say (cstrings.c).        *)
AnswersAreRight == part = "natives" => N!AnswersAreRight
=============================================================================
