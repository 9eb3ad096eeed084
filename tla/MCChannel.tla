------------------------------ MODULE MCChannel ------------------------------
(* The instance of Channel that TLC checks; the configurations say which   *)
(* threads and fibers there are.  They are not declared interchangeable:   *)
(* the run checks liveness, and symmetry would not be sound there.         *)
EXTENDS Channel
==============================================================================
