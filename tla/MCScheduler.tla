----------------------------- MODULE MCScheduler -----------------------------
(* Small programs for Scheduler.                                           *)
EXTENDS Scheduler, TLC

CONSTANTS f1, f2, f3, f4, f5, f6, f7, f8

Op(o)      == [op |-> o]
With(o, x) == [op |-> o, arg |-> x]
Run(x)     == [fib |-> x, call |-> "run", pin |-> {}]
Send(x, m) == [fib |-> x, call |-> "send", pin |-> m]

(* A taker pinned to job 2 meets the putter that another fiber makes, a    *)
(* fiber uses a module, one pinned to the host's thread panics, and two    *)
(* are pinned to jobs that may not be there.                               *)
MixedFibers == {f1, f2, f3, f4, f5, f6, f7, f8}
MixedWork ==
  (f1 :> With("fork", f3)) @@ (f2 :> Op("take")) @@ (f3 :> Op("put"))
  @@ (f4 :> With("use", f5)) @@ (f5 :> Op("run")) @@ (f6 :> Op("panic"))
  @@ (f7 :> With("await", f1)) @@ (f8 :> Op("run"))
MixedProgram ==
  <<Run(f1), Send(f7, {2}), Send(f2, {1}), Send(f6, {0}), Send(f4, {}), Send(f8, {3})>>

(* A module that uses a module.                                            *)
UsingFibers == {f1, f2, f3}
UsingWork == (f1 :> With("use", f2)) @@ (f2 :> With("use", f3)) @@ (f3 :> Op("run"))
UsingProgram == <<Run(f1)>>
=============================================================================
