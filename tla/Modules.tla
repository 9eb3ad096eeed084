------------------------------- MODULE Modules -------------------------------
(* The module cache (gab_use in cgab.c) and the loaders of the command line   *)
(* tool (gab.c).  A request is resolved to a file, the cache is asked, the    *)
(* file is loaded without any lock, and what it gave is put in the cache.     *)
(* Several fibers use modules at the same time, and a module may use another  *)
(* while it is loaded: the frames of a fiber are one such chain, of which     *)
(* only the last runs.                                                        *)
EXTENDS Integers, Sequences, SequencesExt

CONSTANTS
  Users,          \* the fibers that use modules
  Files,          \* the files that exist, as sequences of words
  Roots,          \* eg->resroots
  Requests,       \* what is used: package, module, colon, reload
  Needs,          \* what the source files use: from a file to requests
  MaxLoads        \* bound: files loaded in a behaviour

VARIABLES
  modules,        \* eg->modules
  cut,            \* the packages whose text has lost its colon
  frames,         \* per fiber, its uses, one inside the other
  loads,          \* files loaded so far; each gives another module
  answer          \* history: what the last use of each fiber has returned

moduleVars == <<modules, cut, frames, loads, answer>>

NoModule == 0
Failure == -1
Refused == -2
NoAnswer == [path |-> <<>>, late |-> FALSE, alone |-> FALSE, result |-> Failure]

(****************************************************************************)
(* Resolution: gab_mresolve tries the resources in order and each of them in*)
(* every root.                                                              *)
(****************************************************************************)
Resources == <<
  [prefix |-> <<>>,       suffix |-> <<".so">>,         loader |-> "dynlib"],
  [prefix |-> <<"mod/">>, suffix |-> <<".so">>,         loader |-> "dynlib"],
  [prefix |-> <<>>,       suffix |-> <<"mod", ".gab">>, loader |-> "source"],
  [prefix |-> <<>>,       suffix |-> <<".gab">>,        loader |-> "source"],
  [prefix |-> <<"mod/">>, suffix |-> <<".gab">>,        loader |-> "source"],
  [prefix |-> <<"data/">>, suffix |-> <<>>,             loader |-> "data"] >>

Nowhere == [path |-> <<>>, loader |-> "none"]

(* __gab_resmatch: the first root that has the file.                        *)
ResMatch(resource, package, module) ==
  LET Path(root) == <<root, package>> \o resource.prefix \o module \o resource.suffix
      at == SelectInSeq(Roots, LAMBDA root : Path(root) \in Files)
  IN IF at = 0 THEN Nowhere
     ELSE [path |-> Path(Roots[at]), loader |-> resource.loader]

MResolve(package, module) ==
  LET found(resource) == ResMatch(resource, package, module)
      at == SelectInSeq(Resources, LAMBDA resource : found(resource) # Nowhere)
  IN IF at = 0 THEN Nowhere ELSE found(Resources[at])

(* A package with a colon implies a module.  The colon is overwritten in the*)
(* string itself, so that the next use of that string has no module.        *)
Resolve(r) ==
  MResolve(r.package, IF r.colon /\ r.package \in cut THEN <<>> ELSE r.module)

(****************************************************************************)
(* The uses of one fiber                                                    *)
(****************************************************************************)
Working(u) == frames[u] # <<>>
Top(u) == Last(frames[u])
At(u, stage) == Working(u) /\ Top(u).stage = stage
Goto(u, stage) == frames' = [frames EXCEPT ![u][Len(frames[u])].stage = stage]

(* A use returns to the module that needs it, which fails when it does.     *)
Answer(u, result) ==
  LET top == Top(u)
      rest == Front(frames[u])
      late == top.late /\ ~top.request.reload
  IN /\ answer' = [answer EXCEPT ![u] =
          IF late \/ top.alone
          THEN [path |-> top.path, late |-> late, alone |-> top.alone, result |-> result]
          ELSE NoAnswer]
     /\ frames' = [frames EXCEPT ![u] =
          IF rest = <<>> THEN rest
          ELSE [rest EXCEPT ![Len(rest)].needs =
                  IF result > 0 THEN Tail(@) ELSE @,
                ![Len(rest)].stage = IF result > 0 THEN @ ELSE "fail"]]

(* gab_use, to its look at the cache.                                       *)
Begin(u, r) ==
  LET found == Resolve(r)
      new == [request |-> r, path |-> found.path, loader |-> found.loader,
              stage |-> IF found = Nowhere THEN "fail" ELSE "look",
              needs |-> IF found.loader = "source" /\ found.path \in DOMAIN Needs
                        THEN Needs[found.path] ELSE <<>>,
              late |-> found # Nowhere /\ modules[found.path] # NoModule,
              alone |-> FALSE, result |-> NoModule]
  IN /\ frames' = [frames EXCEPT ![u] = Append(@, new)]
     /\ cut' = IF r.colon THEN cut \cup {r.package} ELSE cut
     /\ UNCHANGED <<modules, loads, answer>>

Use(u) == ~Working(u) /\ \E r \in Requests : Begin(u, r)

(* The uses that are between their look at the cache and their answer.      *)
Loading(f, path) == f.path = path /\ f.stage \in {"load", "keep", "put"}

Rivals(path) ==
  {u \in Users : \E i \in DOMAIN frames[u] : Loading(frames[u][i], path)}

(* gab_segmodat, unless a reload is asked for.                              *)
Look(u) ==
  /\ At(u, "look")
  /\ LET path == Top(u).path
         alone == Rivals(path) = {} /\ (Top(u).request.reload => modules[path] = NoModule)
     IN IF ~Top(u).request.reload /\ modules[path] # NoModule
        THEN Answer(u, modules[path])
        ELSE /\ frames' = [v \in Users |-> [i \in DOMAIN frames[v] |->
                  IF v = u /\ i = Len(frames[u])
                  THEN [frames[v][i] EXCEPT !.stage = "load", !.alone = alone]
                  ELSE IF Loading(frames[v][i], path)
                  THEN [frames[v][i] EXCEPT !.alone = FALSE] ELSE frames[v][i]]]
             /\ UNCHANGED answer
  /\ UNCHANGED <<modules, cut, loads>>

(* The code of a source file uses another module, on another fiber that the *)
(* loader waits for.                                                        *)
Need(u) ==
  /\ At(u, "load") /\ Top(u).needs # <<>>
  /\ Begin(u, Head(Top(u).needs))

(* The loader: gab_use_source runs the file, gab_use_dynlib its main        *)
(* function, gab_use_data reads it.                                         *)
Load(u) ==
  /\ At(u, "load") /\ Top(u).needs = <<>> /\ loads < MaxLoads
  /\ loads' = loads + 1
  /\ frames' = [frames EXCEPT ![u][Len(frames[u])] =
       [@ EXCEPT !.result = loads + 1,
                 !.stage = IF Top(u).loader = "dynlib" THEN "keep" ELSE "put"]]
  /\ UNCHANGED <<modules, cut, answer>>

(* The file does not load, its code panics or does not return ok:.          *)
LoadFails(u) ==
  /\ At(u, "load") /\ Top(u).needs = <<>> /\ Top(u).loader # "data"
  /\ Goto(u, "fail")
  /\ UNCHANGED <<modules, cut, loads, answer>>

Fail(u) ==
  /\ At(u, "fail")
  /\ Answer(u, Failure)
  /\ UNCHANGED <<modules, cut, loads>>

(* gab_segmodput keeps what is there.                                       *)
SegModPut(path, result) ==
  IF modules[path] = NoModule THEN [modules EXCEPT ![path] = result] ELSE modules

(* gab_use_dynlib puts the module itself and fails when it could not.       *)
Keep(u) ==
  /\ At(u, "keep")
  /\ modules' = SegModPut(Top(u).path, Top(u).result)
  /\ IF modules[Top(u).path] = NoModule
     THEN Goto(u, "put") /\ UNCHANGED answer
     ELSE Answer(u, Refused)
  /\ UNCHANGED <<cut, loads>>

(* Faulty variant of Put: what is in the cache is replaced.                 *)
PutOver(u) ==
  /\ At(u, "put")
  /\ modules' = [modules EXCEPT ![Top(u).path] = Top(u).result]
  /\ Answer(u, Top(u).result)
  /\ UNCHANGED <<cut, loads>>

(* gab_use does not look at what gab_segmodput says.                        *)
Put(u) ==
  /\ At(u, "put")
  /\ modules' = SegModPut(Top(u).path, Top(u).result)
  /\ Answer(u, Top(u).result)
  /\ UNCHANGED <<cut, loads>>

Init ==
  /\ modules = [path \in Files |-> NoModule] /\ cut = {}
  /\ frames = [u \in Users |-> <<>>] /\ loads = 0
  /\ answer = [u \in Users |-> NoAnswer]

Next ==
  \E u \in Users :
    Use(u) \/ Look(u) \/ Need(u) \/ Load(u) \/ LoadFails(u) \/ Fail(u) \/ Keep(u) \/ Put(u)

-----------------------------------------------------------------------------
(* A program has one instance of each module.  A use that began when the    *)
(* module was in the cache returns that instance; one that loads it returns *)
(* what every later use will get, and is never refused, unless another use  *)
(* of the same file overlapped its load.  Reloads are the exception.        *)
OneInstance ==
  \A u \in Users :
    /\ answer[u].late => answer[u].result = modules[answer[u].path]
    /\ answer[u].alone => answer[u].result \in {modules[answer[u].path], Failure}
=============================================================================
