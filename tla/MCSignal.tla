------------------------------- MODULE MCSignal -------------------------------
(* Instances of Signal for TLC: which jobs raise which signals.            *)
EXTENDS Signal

AllJobs == 1..(Len - 1)

CollByAll      == AllJobs \X {"COLL"}
CollTermByAll  == AllJobs \X {"COLL", "TERM"}
CollByWorkers  == (2..(Len - 1)) \X {"COLL"}
TermByMain     == {<<Main, "TERM">>}
CollByTermMain == TermByMain \cup CollByAll
Nobody         == {}
==============================================================================
