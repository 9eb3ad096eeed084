---------------------------- MODULE ModulesProofs ----------------------------
(* A program has one instance of each module, for any files, roots and        *)
(* fibers, and modules that use each other in any way.                        *)
EXTENDS Modules, TLAPS, WellFoundedInduction, NaturalsInduction

Spec == Init /\ [][Next]_moduleVars

(* The files use what can be used.                                            *)
NeedsAreRequests == \A path \in DOMAIN Needs : Needs[path] \in Seq(Requests)

-----------------------------------------------------------------------------
(* Resolution                                                                 *)

(* A set of naturals that is not empty has a least member.                    *)
LEMMA HasLeast ==
  ASSUME NEW S \in SUBSET Nat, S # {}
  PROVE  Min(S) \in S
  <1>1. \E x \in S : \A y \in S : ~ (<<y, x>> \in OpToRel(<, Nat))
    BY WFMin, NatLessThanWellFounded, Zenon
  <1>2. ASSUME NEW x \in Nat, NEW y \in Nat, ~ (<<y, x>> \in OpToRel(<, Nat))
        PROVE  x <= y
    <2>1. <<y, x>> \in Nat \X Nat
      OBVIOUS
    <2>2. ~ (y < x)
      BY <2>1, <1>2, Zenon DEF OpToRel
    <2>3. QED
      BY <2>2
  <1>3. \E x \in S : \A y \in S : x <= y
    BY <1>1, <1>2, Zenon
  <1>4. QED
    BY <1>3 DEF Min

(* What a resource matches is a file.                                         *)
LEMMA MatchesAreFiles ==
  ASSUME NEW resource, NEW package, NEW module
  PROVE  /\ \/ ResMatch(resource, package, module) = Nowhere
            \/ ResMatch(resource, package, module).path \in Files
         /\ ResMatch(resource, package, module).loader \in {resource.loader, "none"}
  <1> DEFINE Path(root) == <<root, package>> \o resource.prefix \o module \o resource.suffix
             I == {i \in 1..Len(Roots) : Path(Roots[i]) \in Files}
  <1>1. I \in SUBSET Nat
    OBVIOUS
  <1>2. I # {} => Min(I) \in I
    BY <1>1, HasLeast
  <1> DEFINE at == IF I # {} THEN Min(I) ELSE 0
  <1>3. ResMatch(resource, package, module) =
          IF at = 0 THEN Nowhere ELSE [path |-> Path(Roots[at]), loader |-> resource.loader]
    BY DEF ResMatch, SelectInSeq
  <1>4. at # 0 => Path(Roots[at]) \in Files
    BY <1>2
  <1> HIDE DEF at, Path
  <1>5. CASE at = 0
    BY <1>3, <1>5 DEF Nowhere
  <1>6. CASE at # 0
    <2>1. /\ ResMatch(resource, package, module).path = Path(Roots[at])
          /\ ResMatch(resource, package, module).loader = resource.loader
      BY <1>3, <1>6
    <2>2. QED
      BY <1>4, <1>6, <2>1
  <1>7. QED
    BY <1>5, <1>6

Loaders == {"dynlib", "source", "data", "none"}

(* What a request is resolved to is a file, or nothing.                       *)
LEMMA ResolvedAreFiles ==
  ASSUME NEW r
  PROVE  /\ Resolve(r) = Nowhere \/ Resolve(r).path \in Files
         /\ Resolve(r).loader \in Loaders /\ Nowhere.path = <<>>
  <1>1. PICK m : Resolve(r) = MResolve(r.package, m)
    BY DEF Resolve
  <1> DEFINE found(resource) == ResMatch(resource, r.package, m)
             I == {i \in 1..Len(Resources) : found(Resources[i]) # Nowhere}
             at == IF I # {} THEN Min(I) ELSE 0
  <1>2. MResolve(r.package, m) = IF at = 0 THEN Nowhere ELSE found(Resources[at])
    BY DEF MResolve, SelectInSeq
  <1>3. at # 0 => at \in I
    <2>1. I \in SUBSET Nat
      OBVIOUS
    <2>2. QED
      BY <2>1, HasLeast
  <1>4. at # 0 => Resources[at].loader \in Loaders
    <2>1. Len(Resources) = 6
      BY DEF Resources
    <2>2. at # 0 => at \in {1, 2, 3, 4, 5, 6}
      BY <1>3, <2>1
    <2> HIDE DEF at
    <2>3. /\ Resources[1].loader = "dynlib" /\ Resources[2].loader = "dynlib"
          /\ Resources[3].loader = "source" /\ Resources[4].loader = "source"
          /\ Resources[5].loader = "source" /\ Resources[6].loader = "data"
      BY DEF Resources
    <2>4. QED
      BY <2>2, <2>3 DEF Loaders
  <1> HIDE DEF at
  <1>5. ASSUME NEW resource
        PROVE  /\ found(resource) = Nowhere \/ found(resource).path \in Files
               /\ found(resource).loader \in {resource.loader, "none"}
    BY MatchesAreFiles
  <1>n. Nowhere.path = <<>> /\ Nowhere.loader = "none"
    BY DEF Nowhere
  <1>6. CASE at = 0
    BY <1>1, <1>2, <1>6, <1>n DEF Loaders
  <1>7. CASE at # 0
    <2>1. Resolve(r) = found(Resources[at])
      BY <1>1, <1>2, <1>7
    <2>2. QED
      BY <1>4, <1>5, <1>7, <1>n, <2>1 DEF Loaders
  <1>8. QED
    BY <1>6, <1>7

-----------------------------------------------------------------------------
(* The inductive invariant                                                    *)

Stages == {"look", "load", "keep", "put", "fail"}

Frame == [request : Requests, path : Files \cup {<<>>}, loader : Loaders,
          stage : Stages, needs : Seq(Requests), late : BOOLEAN,
          alone : BOOLEAN, result : Nat]

Reply == [path : Files \cup {<<>>}, late : BOOLEAN, alone : BOOLEAN, result : Int]

TypeOK ==
  /\ modules \in [Files -> Nat]
  /\ frames \in [Users -> Seq(Frame)]
  /\ loads \in Nat
  /\ answer \in [Users -> Reply]

(* A use that began with the module in the cache finds it there; one          *)
(* that is alone is the only one that may put its file in the cache.          *)
Sound(f, cache) ==
  /\ f.stage # "fail" => f.path \in Files
  /\ f.stage \in {"keep", "put"} => f.result # NoModule
  /\ f.late /\ ~f.request.reload => f.stage = "look" /\ cache[f.path] # NoModule
  /\ f.alone => f.stage # "look"
  /\ f.alone /\ f.stage \in {"load", "keep"} => cache[f.path] = NoModule
  /\ f.alone /\ f.stage = "put" => cache[f.path] \in {NoModule, f.result}

AllSound == \A u \in Users : \A i \in 1..Len(frames[u]) : Sound(frames[u][i], modules)

(* A use waits only while its file is loaded.                                 *)
Waits == \A u \in Users : \A i \in 1..(Len(frames[u]) - 1) : frames[u][i].stage = "load"

(* Nobody else is between the look and the answer for the same file.          *)
Sole ==
  \A u, v \in Users :
    \A i \in 1..Len(frames[u]) : \A k \in 1..Len(frames[v]) :
      /\ frames[u][i].alone
      /\ Loading(frames[u][i], frames[u][i].path)
      /\ Loading(frames[v][k], frames[u][i].path)
      => u = v /\ i = k

(* What has been answered stays true.                                         *)
Holds(a, cache) ==
  a.late \/ (a.alone /\ a.result # Failure)
    => a.path \in Files /\ a.result = cache[a.path] /\ a.result # NoModule

Told == \A u \in Users : Holds(answer[u], modules)

IInv == TypeOK /\ AllSound /\ Waits /\ Sole /\ Told

-----------------------------------------------------------------------------
(* What the actions do to the frames                                          *)

(* A use that begins has not looked yet.                                      *)
LEMMA BeginDoes ==
  ASSUME NeedsAreRequests, TypeOK, NEW u \in Users, NEW r \in Requests, Begin(u, r)
  PROVE  /\ UNCHANGED <<modules, loads, answer>>
         /\ \E f \in Frame :
              /\ frames' = [frames EXCEPT ![u] = Append(frames[u], f)]
              /\ f.stage \in {"look", "fail"} /\ f.alone = FALSE
              /\ f.stage # "fail" => f.path \in Files
              /\ f.late => f.stage = "look" /\ modules[f.path] # NoModule
  <1> DEFINE found == Resolve(r)
             f == [request |-> r, path |-> found.path, loader |-> found.loader,
                   stage |-> IF found = Nowhere THEN "fail" ELSE "look",
                   needs |-> IF found.loader = "source" /\ found.path \in DOMAIN Needs
                             THEN Needs[found.path] ELSE <<>>,
                   late |-> found # Nowhere /\ modules[found.path] # NoModule,
                   alone |-> FALSE, result |-> NoModule]
  <1>1. UNCHANGED <<modules, loads, answer>> /\ frames' = [frames EXCEPT ![u] = Append(frames[u], f)]
    BY DEF Begin
  <1>2. /\ found = Nowhere \/ found.path \in Files
        /\ found.loader \in Loaders /\ Nowhere.path = <<>>
    BY ResolvedAreFiles
  <1> HIDE DEF found
  <1>3. f.needs \in Seq(Requests)
    BY DEF NeedsAreRequests
  <1>4. f.late \in BOOLEAN
    OBVIOUS
  <1>5. f.path \in Files \cup {<<>>}
    BY <1>2
  <1>6. f \in Frame
    <2> DEFINE n == f.needs
               l == f.late
               p == f.path
               s == f.stage
    <2>1. f = [request |-> r, path |-> p, loader |-> found.loader, stage |-> s, needs |-> n,
               late |-> l, alone |-> FALSE, result |-> NoModule]
      BY Zenon
    <2>2. s \in Stages
      BY DEF Stages
    <2>3. n \in Seq(Requests) /\ l \in BOOLEAN /\ p \in Files \cup {<<>>}
      BY <1>3, <1>4, <1>5
    <2> HIDE DEF n, l, p, s, f
    <2>4. QED
      BY <1>2, <2>1, <2>2, <2>3 DEF Frame, NoModule
  <1>7. /\ f.stage \in {"look", "fail"} /\ f.alone = FALSE
        /\ f.stage # "fail" => f.path \in Files
    BY <1>2
  <1>8. f.late => f.stage = "look" /\ modules[f.path] # NoModule
    BY Zenon
  <1> HIDE DEF f
  <1>9. QED
    BY <1>1, <1>6, <1>7, <1>8, Zenon

(* The use that a fiber is in.                                                *)
LEMMA TopFacts ==
  ASSUME TypeOK, NEW u \in Users, Working(u)
  PROVE  /\ frames[u] \in Seq(Frame) /\ Len(frames[u]) \in Nat /\ Len(frames[u]) >= 1
         /\ Len(frames[u]) \in 1..Len(frames[u])
         /\ Top(u) = frames[u][Len(frames[u])] /\ Top(u) \in Frame
  <1>1. frames[u] \in Seq(Frame) /\ frames[u] # <<>>
    BY DEF TypeOK, Working
  <1>2. QED
    BY <1>1 DEF Top, Last

(* All but the last of a sequence.                                            *)
LEMMA FrontFacts ==
  ASSUME NEW S, NEW s \in Seq(S), s # <<>>
  PROVE  /\ Front(s) \in Seq(S) /\ Len(Front(s)) = Len(s) - 1
         /\ \A i \in 1..(Len(s) - 1) : Front(s)[i] = s[i]
  <1>1. PICK n \in Nat : n = Len(s) - 1
    OBVIOUS
  <1>2. \A i \in 1..n : s[i] \in S
    BY <1>1
  <1>3. Front(s) = SubSeq(s, 1, n)
    BY <1>1 DEF Front
  <1>4. SubSeq(s, 1, n) \in Seq(S) /\ Len(SubSeq(s, 1, n)) = n
        /\ \A i \in 1..n : SubSeq(s, 1, n)[i] = s[i]
    BY <1>1, <1>2
  <1>5. QED
    BY <1>1, <1>3, <1>4

(* g is f, or what is left of it when a module that it needs is answered.     *)
After(g, f) ==
  /\ g.request = f.request /\ g.path = f.path /\ g.result = f.result
  /\ g.late = f.late /\ g.alone = f.alone
  /\ g.stage \in {f.stage, "fail"}

(* An answer ends the last use of a fiber, and may make the one before fail.  *)
LEMMA AnswerDoes ==
  ASSUME TypeOK, NEW u \in Users, Working(u), NEW result \in Int, Answer(u, result)
  PROVE  LET n == Len(frames[u])
             a == IF (Top(u).late /\ ~Top(u).request.reload) \/ Top(u).alone
                  THEN [path |-> Top(u).path, late |-> Top(u).late /\ ~Top(u).request.reload,
                        alone |-> Top(u).alone, result |-> result]
                  ELSE NoAnswer
         IN /\ frames' \in [Users -> Seq(Frame)]
            /\ \A v \in Users \ {u} : frames'[v] = frames[v]
            /\ Len(frames'[u]) = n - 1
            /\ \A i \in 1..(n - 1) : After(frames'[u][i], frames[u][i])
            /\ \A i \in 1..(n - 2) : frames'[u][i] = frames[u][i]
            /\ a \in Reply
            /\ answer' = [answer EXCEPT ![u] = a]
  <1> DEFINE n == Len(frames[u])
             top == Top(u)
             rest == Front(frames[u])
             m == Len(rest)
             g == [rest[m] EXCEPT !.needs = IF result > 0 THEN Tail(@) ELSE @,
                                  !.stage = IF result > 0 THEN @ ELSE "fail"]
             a == IF (top.late /\ ~top.request.reload) \/ top.alone
                  THEN [path |-> top.path, late |-> top.late /\ ~top.request.reload,
                        alone |-> top.alone, result |-> result]
                  ELSE NoAnswer
  <1>1. /\ frames[u] \in Seq(Frame) /\ n \in Nat /\ n >= 1 /\ top \in Frame
        /\ frames \in [Users -> Seq(Frame)]
    BY TopFacts DEF TypeOK
  <1>2. answer' = [answer EXCEPT ![u] = a]
    BY DEF Answer
  <1>3. frames' = [frames EXCEPT ![u] = IF rest = <<>> THEN rest
              ELSE [rest EXCEPT ![m].needs = IF result > 0 THEN Tail(@) ELSE @,
                                ![m].stage = IF result > 0 THEN @ ELSE "fail"]]
    BY DEF Answer
  <1>4. a \in Reply
    <2>1. NoAnswer \in Reply
      BY DEF NoAnswer, Reply, Failure
    <2>2. (top.late /\ ~top.request.reload) \in BOOLEAN
      OBVIOUS
    <2>3. top.path \in Files \cup {<<>>} /\ top.alone \in BOOLEAN
      BY <1>1 DEF Frame
    <2> HIDE DEF top
    <2>4. QED
      BY <2>1, <2>2, <2>3 DEF Reply
  <1>5. rest \in Seq(Frame) /\ m = n - 1 /\ \A i \in 1..m : rest[i] = frames[u][i]
    BY <1>1, FrontFacts DEF Working
  <1>6. CASE rest = <<>>
    <2>1. frames' = [frames EXCEPT ![u] = <<>>] /\ m = 0 /\ n = 1
      BY <1>1, <1>3, <1>5, <1>6
    <2> HIDE DEF n, m, a
    <2>2. /\ frames' \in [Users -> Seq(Frame)] /\ frames'[u] = <<>>
          /\ \A v \in Users \ {u} : frames'[v] = frames[v]
      BY <1>1, <2>1
    <2>3. QED
      BY <1>2, <1>4, <2>1, <2>2 DEF a, n
  <1>7. CASE rest # <<>>
    <2>1. m \in 1..m /\ rest[m] \in Frame
      BY <1>1, <1>5, <1>7
    <2>2. g \in Frame /\ After(g, rest[m])
      <3>1. PICK f \in Frame : f = rest[m]
        BY <2>1
      <3>2. f.needs \in Seq(Requests) /\ f.stage \in Stages
        BY DEF Frame
      <3>3. CASE result > 0
        <4>1. g = [f EXCEPT !.needs = Tail(f.needs)]
          BY <3>1, <3>3 DEF Frame
        <4>2. CASE f.needs = <<>>
          <5>1. Tail(f.needs) \in Seq(Requests)
            BY <4>2
          <5>2. QED
            BY <3>1, <4>1, <5>1 DEF Frame, After
        <4>3. CASE f.needs # <<>>
          <5>1. Tail(f.needs) \in Seq(Requests)
            BY <3>2, <4>3
          <5>2. QED
            BY <3>1, <4>1, <5>1 DEF Frame, After
        <4>4. QED
          BY <4>2, <4>3
      <3>4. CASE ~(result > 0)
        <4>1. g = [f EXCEPT !.stage = "fail"]
          BY <3>1, <3>4 DEF Frame
        <4>2. QED
          BY <3>1, <4>1 DEF Frame, After, Stages
      <3>5. QED
        BY <3>3, <3>4
    <2>3. frames' = [frames EXCEPT ![u] = [rest EXCEPT ![m] = g]]
      BY <1>3, <1>7, <2>1
    <2> HIDE DEF g, a
    <2> DEFINE s == [rest EXCEPT ![m] = g]
    <2>4. s \in Seq(Frame) /\ Len(s) = m /\ s[m] = g /\ \A i \in 1..(m - 1) : s[i] = rest[i]
      BY <1>5, <2>1, <2>2
    <2>5. frames'[u] = s /\ (\A v \in Users \ {u} : frames'[v] = frames[v])
          /\ frames' \in [Users -> Seq(Frame)]
      BY <1>1, <2>3, <2>4
    <2> HIDE DEF s
    <2>6. \A i \in 1..m : After(s[i], rest[i])
      BY <2>2, <2>4 DEF After
    <2>7. /\ Len(frames'[u]) = n - 1
          /\ \A i \in 1..(n - 1) : After(frames'[u][i], frames[u][i])
          /\ \A i \in 1..(n - 2) : frames'[u][i] = frames[u][i]
      <3>1. \A i \in 1..(n - 1) : frames[u][i] = rest[i]
        BY <1>5
      <3>2. Len(s) = n - 1 /\ \A i \in 1..(n - 1) : After(s[i], frames[u][i])
        BY <1>5, <2>4, <2>6, <3>1
      <3>3. \A i \in 1..(n - 2) : s[i] = frames[u][i]
        BY <1>1, <1>5, <2>4, <3>1
      <3>4. QED
        BY <2>5, <3>2, <3>3
    <2>8. QED
      BY <1>2, <1>4, <2>5, <2>7 DEF a
  <1>8. QED
    BY <1>6, <1>7

-----------------------------------------------------------------------------
(* The invariant is kept                                                      *)

(* The cache changes only for the file that the frame f has loaded.           *)
Puts(f) ==
  /\ modules' \in [Files -> Nat]
  /\ \A q \in Files : modules'[q] = modules[q] \/ (modules[q] = NoModule /\ Loading(f, q))

(* gab_segmodput does so.                                                     *)
LEMMA SegModPutPuts ==
  ASSUME TypeOK, NEW f \in Frame, Loading(f, f.path), f.path \in Files,
         modules' = SegModPut(f.path, f.result)
  PROVE  Puts(f) /\ modules'[f.path] = IF modules[f.path] = NoModule THEN f.result
                                         ELSE modules[f.path]
  <1>1. modules \in [Files -> Nat] /\ f.result \in Nat
    BY DEF TypeOK, Frame
  <1>2. CASE modules[f.path] = NoModule
    <2>1. modules' = [modules EXCEPT ![f.path] = f.result]
      BY <1>2 DEF SegModPut
    <2>2. QED
      BY <1>1, <1>2, <2>1 DEF Puts
  <1>3. CASE modules[f.path] # NoModule
    BY <1>1, <1>3 DEF SegModPut, Puts
  <1>4. QED
    BY <1>2, <1>3

(* Such a change disturbs no frame but the one that makes it.                 *)
LEMMA OthersSound ==
  ASSUME IInv, NEW u \in Users, NEW n \in 1..Len(frames[u]), Puts(frames[u][n]),
         NEW v \in Users, NEW i \in 1..Len(frames[v]), ~(u = v /\ n = i),
         NEW g, After(g, frames[v][i]), g.stage = frames[v][i].stage \/ frames[v][i].stage = "load"
  PROVE  Sound(g, modules')
  <1> DEFINE f == frames[v][i]
  <1>1. Sound(f, modules) /\ f \in Frame
    BY DEF IInv, AllSound, TypeOK
  <1>2. f.alone /\ Loading(f, f.path) => ~Loading(frames[u][n], f.path)
    BY DEF IInv, Sole
  <1> HIDE DEF f
  <1>a. After(g, f) /\ (g.stage = f.stage \/ (f.stage = "load" /\ g.stage = "fail"))
    BY DEF f, After
  <1>3. f.stage # "fail" => f.path \in Files
    BY <1>1 DEF Sound
  <1>4. f.path \in Files =>
          \/ modules'[f.path] = modules[f.path]
          \/ modules[f.path] = NoModule /\ Loading(frames[u][n], f.path)
    BY DEF Puts
  <1>5. g.stage # "fail" => g.path \in Files
    BY <1>3, <1>a DEF After
  <1>6. g.stage \in {"keep", "put"} => g.result # NoModule
    BY <1>1, <1>a DEF After, Sound
  <1>7. g.late /\ ~g.request.reload => g.stage = "look" /\ modules'[g.path] # NoModule
    BY <1>1, <1>3, <1>4, <1>a DEF After, Sound
  <1>8. g.alone => g.stage # "look"
    BY <1>1, <1>a DEF After, Sound
  <1>9. g.alone /\ g.stage \in {"load", "keep"} => modules'[g.path] = NoModule
    <2> SUFFICES ASSUME g.alone, g.stage \in {"load", "keep"} PROVE modules'[g.path] = NoModule
      OBVIOUS
    <2>1. f.alone /\ f.stage = g.stage /\ g.path = f.path
      BY <1>a DEF After
    <2>2. Loading(f, f.path) /\ f.path \in Files /\ modules[f.path] = NoModule
      BY <1>1, <1>3, <2>1 DEF Loading, Sound
    <2>3. QED
      BY <1>2, <1>4, <2>1, <2>2
  <1>10. g.alone /\ g.stage = "put" => modules'[g.path] \in {NoModule, g.result}
    <2> SUFFICES ASSUME g.alone, g.stage = "put" PROVE modules'[g.path] \in {NoModule, g.result}
      OBVIOUS
    <2>1. f.alone /\ f.stage = "put" /\ g.path = f.path /\ g.result = f.result
      BY <1>a DEF After
    <2>2. Loading(f, f.path) /\ f.path \in Files /\ modules[f.path] \in {NoModule, f.result}
      BY <1>1, <1>3, <2>1 DEF Loading, Sound
    <2>3. QED
      BY <1>2, <1>4, <2>1, <2>2
  <1>11. QED
    BY <1>5, <1>6, <1>7, <1>8, <1>9, <1>10 DEF Sound

(* Nor an answer.                                                             *)
LEMMA AnswersHold ==
  ASSUME IInv, NEW f, Puts(f), NEW a \in Reply, Holds(a, modules)
  PROVE  Holds(a, modules')
  BY DEF Holds, Puts

(* A step of a use that goes on.                                              *)
LEMMA TopStep ==
  ASSUME IInv, NEW u \in Users, Working(u), NEW g \in Frame,
         frames' = [frames EXCEPT ![u][Len(frames[u])] = g],
         g.path = Top(u).path, g.alone => Top(u).alone,
         Loading(g, g.path) => Loading(Top(u), g.path),
         Puts(Top(u)), Sound(g, modules'), loads' \in Nat, answer' = answer
  PROVE  IInv'
  <1>i. TypeOK /\ AllSound /\ Waits /\ Sole /\ Told
    BY DEF IInv
  <1> DEFINE n == Len(frames[u])
  <1>1. /\ frames[u] \in Seq(Frame) /\ n \in Nat /\ n >= 1 /\ n \in 1..n
        /\ Top(u) = frames[u][n] /\ Top(u) \in Frame
    BY <1>i, TopFacts
  <1>2. frames \in [Users -> Seq(Frame)]
    BY <1>i DEF TypeOK
  <1> DEFINE s == [frames[u] EXCEPT ![n] = g]
  <1>3. s \in Seq(Frame) /\ Len(s) = n /\ s[n] = g /\ \A i \in 1..n : i # n => s[i] = frames[u][i]
    BY <1>1
  <1>4. frames' = [frames EXCEPT ![u] = s]
    BY <1>2
  <1> HIDE DEF s
  <1>5. frames' \in [Users -> Seq(Frame)] /\ frames'[u] = s
        /\ \A v \in Users \ {u} : frames'[v] = frames[v]
    BY <1>2, <1>3, <1>4
  <1>6. /\ \A v \in Users : Len(frames'[v]) = Len(frames[v])
        /\ \A v \in Users : \A i \in 1..Len(frames[v]) :
             frames'[v][i] = IF v = u /\ i = n THEN g ELSE frames[v][i]
    BY <1>3, <1>5
  <1>7. TypeOK'
    BY <1>i, <1>5 DEF TypeOK, Puts
  <1>8. AllSound'
    <2> SUFFICES ASSUME NEW v \in Users, NEW i \in 1..Len(frames[v]) PROVE Sound(frames'[v][i], modules')
      BY <1>6 DEF AllSound
    <2>1. CASE v = u /\ i = n
      BY <1>6, <2>1
    <2>2. CASE ~(v = u /\ i = n)
      <3>1. frames'[v][i] = frames[v][i] /\ After(frames[v][i], frames[v][i])
        BY <1>6, <2>2 DEF After
      <3>2. QED
        BY <1>1, <2>2, <3>1, OthersSound
    <2>3. QED
      BY <2>1, <2>2
  <1>9. Waits'
    BY <1>i, <1>1, <1>6 DEF Waits
  <1>10. Sole'
    <2> SUFFICES ASSUME NEW v \in Users, NEW w \in Users, NEW i \in 1..Len(frames'[v]),
                        NEW k \in 1..Len(frames'[w]),
                        frames'[v][i].alone, Loading(frames'[v][i], frames'[v][i].path),
                        Loading(frames'[w][k], frames'[v][i].path)
                 PROVE  v = w /\ i = k
      BY SMTT(20) DEF Sole
    <2>0. i \in 1..Len(frames[v]) /\ k \in 1..Len(frames[w])
      BY <1>6
    <2>1. /\ frames'[v][i].path = frames[v][i].path /\ frames[v][i].alone
          /\ Loading(frames[v][i], frames[v][i].path)
      BY <1>1, <1>6, <2>0
    <2>2. Loading(frames[w][k], frames[v][i].path)
      <3>1. CASE w = u /\ k = n
        <4>1. frames'[w][k] = g /\ frames[w][k] = Top(u)
          BY <1>1, <1>6, <2>0, <3>1
        <4>2. g.path = frames[v][i].path /\ Loading(g, g.path)
          BY <2>1, <4>1 DEF Loading
        <4>3. QED
          BY <4>1, <4>2
      <3>2. CASE ~(w = u /\ k = n)
        BY <1>6, <2>0, <2>1, <3>2
      <3>3. QED
        BY <3>1, <3>2
    <2>3. QED
      BY <1>i, <2>0, <2>1, <2>2 DEF Sole
  <1>11. Told'
    BY <1>i, AnswersHold DEF Told, TypeOK
  <1>12. QED
    BY <1>7, <1>8, <1>9, <1>10, <1>11 DEF IInv

(* A use that returns.                                                        *)
LEMMA AnswerStep ==
  ASSUME IInv, NEW u \in Users, Working(u), NEW result \in Int, Answer(u, result),
         Puts(Top(u)), loads' = loads,
         Top(u).late /\ ~Top(u).request.reload
           => Top(u).path \in Files /\ result = modules'[Top(u).path] /\ result # NoModule,
         Top(u).alone /\ result # Failure
           => Top(u).path \in Files /\ result = modules'[Top(u).path] /\ result # NoModule
  PROVE  IInv'
  <1>i. TypeOK /\ AllSound /\ Waits /\ Sole /\ Told
    BY DEF IInv
  <1> DEFINE n == Len(frames[u])
             a == IF (Top(u).late /\ ~Top(u).request.reload) \/ Top(u).alone
                  THEN [path |-> Top(u).path, late |-> Top(u).late /\ ~Top(u).request.reload,
                        alone |-> Top(u).alone, result |-> result]
                  ELSE NoAnswer
  <1>1. /\ frames[u] \in Seq(Frame) /\ n \in Nat /\ n >= 1 /\ n \in 1..n
        /\ Top(u) = frames[u][n] /\ Top(u) \in Frame
    BY <1>i, TopFacts
  <1>2. /\ frames' \in [Users -> Seq(Frame)]
        /\ \A v \in Users \ {u} : frames'[v] = frames[v]
        /\ Len(frames'[u]) = n - 1
        /\ \A i \in 1..(n - 1) : After(frames'[u][i], frames[u][i])
        /\ \A i \in 1..(n - 2) : frames'[u][i] = frames[u][i]
        /\ a \in Reply
        /\ answer' = [answer EXCEPT ![u] = a]
    BY <1>i, AnswerDoes
  <1>3. Holds(a, modules')
    BY DEF Holds, NoAnswer
  <1> HIDE DEF a
  <1>4. answer \in [Users -> Reply]
    BY <1>i DEF TypeOK
  <1>5. TypeOK'
    BY <1>i, <1>2, <1>4 DEF TypeOK, Puts
  <1>6. ASSUME NEW v \in Users, NEW i \in 1..Len(frames'[v])
        PROVE  /\ i \in 1..Len(frames[v]) /\ ~(v = u /\ i = n)
               /\ After(frames'[v][i], frames[v][i])
               /\ frames'[v][i] = frames[v][i] \/ frames[v][i].stage = "load"
    <2>1. CASE v # u
      BY <1>2, <2>1 DEF After
    <2>2. CASE v = u
      <3>1. i \in 1..(n - 1) /\ frames[u][i].stage = "load" /\ i # n
        BY <1>1, <1>2, <1>i, <2>2 DEF Waits
      <3>2. QED
        BY <1>1, <1>2, <2>2, <3>1
    <2>3. QED
      BY <2>1, <2>2
  <1>7. AllSound'
    <2> SUFFICES ASSUME NEW v \in Users, NEW i \in 1..Len(frames'[v]) PROVE Sound(frames'[v][i], modules')
      BY DEF AllSound
    <2>1. /\ i \in 1..Len(frames[v]) /\ ~(u = v /\ n = i) /\ After(frames'[v][i], frames[v][i])
          /\ frames'[v][i].stage = frames[v][i].stage \/ frames[v][i].stage = "load"
      BY <1>6
    <2>2. QED
      BY <1>1, <2>1, OthersSound
  <1>8. Waits'
    <2> SUFFICES ASSUME NEW v \in Users, NEW i \in 1..(Len(frames'[v]) - 1)
                 PROVE  frames'[v][i].stage = "load"
      BY DEF Waits
    <2>1. CASE v # u
      BY <1>2, <1>i, <2>1 DEF Waits
    <2>2. CASE v = u
      <3>1. i \in 1..(n - 2) /\ i \in 1..(n - 1)
        BY <1>1, <1>2, <2>2
      <3>2. QED
        BY <1>2, <1>i, <2>2, <3>1 DEF Waits
    <2>3. QED
      BY <2>1, <2>2
  <1>9. Sole'
    <2> SUFFICES ASSUME NEW v \in Users, NEW w \in Users, NEW i \in 1..Len(frames'[v]),
                        NEW k \in 1..Len(frames'[w]),
                        frames'[v][i].alone, Loading(frames'[v][i], frames'[v][i].path),
                        Loading(frames'[w][k], frames'[v][i].path)
                 PROVE  v = w /\ i = k
      BY DEF Sole
    <2>1. i \in 1..Len(frames[v]) /\ After(frames'[v][i], frames[v][i])
      BY <1>6
    <2>2. k \in 1..Len(frames[w]) /\ After(frames'[w][k], frames[w][k])
      BY <1>6
    <2>3. /\ frames[v][i].alone /\ Loading(frames[v][i], frames[v][i].path)
          /\ Loading(frames[w][k], frames[v][i].path)
      BY <2>1, <2>2 DEF After, Loading
    <2>4. QED
      BY <1>i, <2>1, <2>2, <2>3 DEF Sole
  <1>10. Told'
    <2> SUFFICES ASSUME NEW v \in Users PROVE Holds(answer'[v], modules')
      BY DEF Told
    <2>1. CASE v = u
      BY <1>2, <1>3, <1>4, <2>1
    <2>2. CASE v # u
      <3>1. answer'[v] = answer[v] /\ answer[v] \in Reply /\ Holds(answer[v], modules)
        BY <1>2, <1>4, <1>i, <2>2 DEF Told
      <3>2. QED
        BY <3>1, AnswersHold
    <2>3. QED
      BY <2>1, <2>2
  <1>11. QED
    BY <1>5, <1>7, <1>8, <1>9, <1>10 DEF IInv

(* A use that begins, or is needed.                                           *)
LEMMA BeginStep ==
  ASSUME NeedsAreRequests, IInv, NEW u \in Users, NEW r \in Requests, Begin(u, r),
         Working(u) => Top(u).stage = "load"
  PROVE  IInv'
  <1>i. TypeOK /\ AllSound /\ Waits /\ Sole /\ Told
    BY DEF IInv
  <1>1. PICK f \in Frame :
          /\ frames' = [frames EXCEPT ![u] = Append(frames[u], f)]
          /\ f.stage \in {"look", "fail"} /\ f.alone = FALSE
          /\ f.stage # "fail" => f.path \in Files
          /\ f.late => f.stage = "look" /\ modules[f.path] # NoModule
    BY <1>i, BeginDoes
  <1>2. UNCHANGED <<modules, loads, answer>>
    BY DEF Begin
  <1>3. frames \in [Users -> Seq(Frame)]
    BY <1>i DEF TypeOK
  <1>4. PICK n \in Nat : n = Len(frames[u])
    BY <1>3
  <1> DEFINE s == Append(frames[u], f)
  <1>5. s \in Seq(Frame) /\ Len(s) = n + 1 /\ s[n + 1] = f /\ \A i \in 1..n : s[i] = frames[u][i]
    BY <1>3, <1>4
  <1> HIDE DEF s
  <1>6. frames' \in [Users -> Seq(Frame)] /\ frames'[u] = s
        /\ \A v \in Users \ {u} : frames'[v] = frames[v]
    BY <1>1, <1>3, <1>5 DEF s
  <1>7. Sound(f, modules) /\ \A q : ~Loading(f, q)
    BY <1>1 DEF Sound, Loading
  <1>8. ASSUME NEW v \in Users, NEW i \in 1..Len(frames'[v])
        PROVE  \/ v = u /\ i = n + 1 /\ frames'[v][i] = f
               \/ i \in 1..Len(frames[v]) /\ frames'[v][i] = frames[v][i]
    <2>1. CASE v # u
      BY <1>6, <2>1
    <2>2. CASE v = u
      BY <1>4, <1>5, <1>6, <2>2
    <2>3. QED
      BY <2>1, <2>2
  <1>9. TypeOK'
    BY <1>i, <1>2, <1>6 DEF TypeOK
  <1>10. AllSound'
    BY <1>i, <1>2, <1>7, <1>8 DEF AllSound
  <1>11. Waits'
    <2> SUFFICES ASSUME NEW v \in Users, NEW i \in 1..(Len(frames'[v]) - 1)
                 PROVE  frames'[v][i].stage = "load"
      BY DEF Waits
    <2>1. CASE v # u
      BY <1>6, <1>i, <2>1 DEF Waits
    <2>2. CASE v = u
      <3>1. i \in 1..n /\ frames'[u][i] = frames[u][i]
        BY <1>5, <1>6, <2>2
      <3>2. CASE i = n
        <4>1. Working(u)
          BY <1>3, <1>4, <3>1, <3>2 DEF Working
        <4>2. Top(u) = frames[u][n]
          BY <1>4, <1>i, <4>1, TopFacts
        <4>3. QED
          BY <2>2, <3>1, <3>2, <4>1, <4>2
      <3>3. CASE i # n
        <4>1. i \in 1..(n - 1)
          BY <3>1, <3>3
        <4>2. QED
          BY <1>4, <1>i, <2>2, <3>1, <4>1 DEF Waits
      <3>4. QED
        BY <3>2, <3>3
    <2>3. QED
      BY <2>1, <2>2
  <1>12. Sole'
    <2> SUFFICES ASSUME NEW v \in Users, NEW w \in Users, NEW i \in 1..Len(frames'[v]),
                        NEW k \in 1..Len(frames'[w]),
                        frames'[v][i].alone, Loading(frames'[v][i], frames'[v][i].path),
                        Loading(frames'[w][k], frames'[v][i].path)
                 PROVE  v = w /\ i = k
      BY DEF Sole
    <2>1. i \in 1..Len(frames[v]) /\ frames'[v][i] = frames[v][i]
      BY <1>7, <1>8
    <2>2. k \in 1..Len(frames[w]) /\ frames'[w][k] = frames[w][k]
      BY <1>7, <1>8
    <2>3. QED
      BY <1>i, <2>1, <2>2 DEF Sole
  <1>13. Told'
    BY <1>i, <1>2 DEF Told
  <1>14. QED
    BY <1>9, <1>10, <1>11, <1>12, <1>13 DEF IInv

(* A use that finds nothing in the cache is alone until another one looks for *)
(* the same file.                                                             *)
LEMMA LookStep ==
  ASSUME IInv, NEW u \in Users, Look(u)
  PROVE  IInv'
  <1>i. TypeOK /\ AllSound /\ Waits /\ Sole /\ Told
    BY DEF IInv
  <1> DEFINE n == Len(frames[u])
             top == Top(u)
             path == top.path
             alone == Rivals(path) = {} /\ (top.request.reload => modules[path] = NoModule)
  <1>w. Working(u) /\ top.stage = "look" /\ UNCHANGED <<modules, cut, loads>>
    BY DEF Look, At
  <1>1. /\ frames[u] \in Seq(Frame) /\ n \in Nat /\ n >= 1 /\ n \in 1..n
        /\ top = frames[u][n] /\ top \in Frame
    BY <1>i, <1>w, TopFacts
  <1>2. frames \in [Users -> Seq(Frame)] /\ modules \in [Files -> Nat]
    BY <1>i DEF TypeOK
  <1>3. Sound(top, modules) /\ path \in Files
    BY <1>i, <1>1, <1>w DEF AllSound, Sound
  <1>4. CASE ~top.request.reload /\ modules[path] # NoModule
    <2>1. Answer(u, modules[path])
      BY <1>4 DEF Look
    <2>2. modules[path] \in Int /\ Puts(top) /\ modules' = modules
      BY <1>2, <1>3, <1>w DEF Puts
    <2>3. loads' = loads
      BY <1>w
    <2>4. ~top.alone
      BY <1>3, <1>w DEF Sound
    <2> HIDE DEF top
    <2>5. QED
      BY <1>3, <1>4, <1>w, <2>1, <2>2, <2>3, <2>4, AnswerStep DEF top
  <1>5. CASE ~(~top.request.reload /\ modules[path] # NoModule)
    <2> DEFINE mine == [top EXCEPT !.stage = "load", !.alone = alone]
               next(f) == IF Loading(f, path) THEN [f EXCEPT !.alone = FALSE] ELSE f
    <2>1. /\ answer' = answer
          /\ frames' = [v \in Users |-> [i \in DOMAIN frames[v] |->
                IF v = u /\ i = n THEN [frames[v][i] EXCEPT !.stage = "load", !.alone = alone]
                ELSE next(frames[v][i])]]
      BY <1>5, Zenon DEF Look
    <2>2. \A v \in Users : DOMAIN frames[v] = 1..Len(frames[v]) /\ Len(frames[v]) \in Nat
      BY <1>2
    <2>a. alone \in BOOLEAN
      OBVIOUS
    <2>3. /\ mine \in Frame /\ mine.stage = "load" /\ mine.alone = alone /\ mine.path = path
          /\ mine.late = top.late /\ mine.request = top.request
      <3> HIDE DEF alone, top
      <3>1. QED
        BY <1>1, <2>a DEF Frame, Stages
    <2>4. ASSUME NEW f \in Frame
          PROVE  /\ next(f) \in Frame /\ next(f).path = f.path /\ next(f).stage = f.stage
                 /\ next(f).late = f.late /\ next(f).request = f.request
                 /\ next(f).result = f.result
                 /\ next(f).alone => f.alone /\ ~Loading(f, path)
      BY DEF Frame
    <2>5. \A v \in Users : \A i \in 1..Len(frames[v]) : frames[v][i] \in Frame
      BY <1>2
    <2>m. /\ alone => modules[path] = NoModule
          /\ ~top.request.reload => modules[path] = NoModule
          /\ alone => \A v \in Users : \A i \in 1..Len(frames[v]) : ~Loading(frames[v][i], path)
      BY <1>5, <2>2 DEF Rivals
    <2> HIDE DEF mine, next, alone
    <2>6. /\ \A v \in Users : Len(frames'[v]) = Len(frames[v]) /\ frames'[v] \in Seq(Frame)
          /\ \A v \in Users : \A i \in 1..Len(frames[v]) :
               frames'[v][i] = IF v = u /\ i = n THEN mine ELSE next(frames[v][i])
      <3> SUFFICES ASSUME NEW v \in Users
                   PROVE  /\ Len(frames'[v]) = Len(frames[v]) /\ frames'[v] \in Seq(Frame)
                          /\ \A i \in 1..Len(frames[v]) :
                                frames'[v][i] = IF v = u /\ i = n THEN mine ELSE next(frames[v][i])
        BY Zenon
      <3>1. frames'[v] = [i \in 1..Len(frames[v]) |->
                            IF v = u /\ i = n THEN mine ELSE next(frames[v][i])]
        <4>1. \A i \in 1..Len(frames[v]) : v = u /\ i = n =>
                 [frames[v][i] EXCEPT !.stage = "load", !.alone = alone] = mine
          BY <1>1 DEF mine
        <4>2. QED
          BY <2>1, <2>2, <4>1
      <3>2. \A i \in 1..Len(frames[v]) : (IF v = u /\ i = n THEN mine ELSE next(frames[v][i])) \in Frame
        BY <2>3, <2>4, <2>5
      <3>3. Len(frames[v]) \in Nat
        BY <2>2
      <3>4. QED
        BY <3>1, <3>2, <3>3
    <2>7. TypeOK'
      <3>1. frames' \in [Users -> Seq(Frame)]
        BY <2>1, <2>6
      <3>2. QED
        BY <1>i, <1>w, <2>1, <3>1 DEF TypeOK
    <2>8. AllSound'
      <3> SUFFICES ASSUME NEW v \in Users, NEW i \in 1..Len(frames[v])
                   PROVE  Sound(frames'[v][i], modules)
        BY <1>w, <2>6 DEF AllSound
      <3>1. CASE v = u /\ i = n
        <4>1. frames'[v][i] = mine
          BY <2>6, <3>1
        <4>2. ~(top.late /\ ~top.request.reload)
          BY <1>3, <2>m DEF Sound
        <4>3. Sound(mine, modules)
          BY <1>3, <2>3, <2>m, <4>2 DEF Sound
        <4>4. QED
          BY <4>1, <4>3
      <3>2. CASE ~(v = u /\ i = n)
        <4>1. frames'[v][i] = next(frames[v][i]) /\ Sound(frames[v][i], modules)
          BY <1>i, <2>6, <3>2 DEF AllSound
        <4>2. QED
          BY <2>4, <2>5, <4>1 DEF Sound
      <3>3. QED
        BY <3>1, <3>2
    <2>9. Waits'
      <3> SUFFICES ASSUME NEW v \in Users, NEW i \in 1..(Len(frames'[v]) - 1)
                   PROVE  frames'[v][i].stage = "load"
        BY DEF Waits
      <3>1. i \in 1..(Len(frames[v]) - 1) /\ i \in 1..Len(frames[v])
        BY <2>2, <2>6
      <3>2. frames[v][i].stage = "load" /\ ~(v = u /\ i = n)
        BY <1>i, <1>1, <3>1 DEF Waits
      <3>3. frames'[v][i] = next(frames[v][i]) /\ frames[v][i] \in Frame
        BY <2>5, <2>6, <3>1, <3>2
      <3>4. QED
        BY <2>4, <3>2, <3>3
    <2>10. Sole'
      <3> SUFFICES ASSUME NEW v \in Users, NEW w \in Users, NEW i \in 1..Len(frames[v]),
                          NEW k \in 1..Len(frames[w]),
                          frames'[v][i].alone, Loading(frames'[v][i], frames'[v][i].path),
                          Loading(frames'[w][k], frames'[v][i].path)
                   PROVE  v = w /\ i = k
        BY <2>6 DEF Sole
      <3>1. CASE v = u /\ i = n
        <4>1. frames'[v][i] = mine /\ alone
          BY <2>3, <2>6, <3>1
        <4>2. CASE w = u /\ k = n
          BY <3>1, <4>2
        <4>3. CASE ~(w = u /\ k = n)
          <5>1. frames'[w][k] = next(frames[w][k]) /\ Loading(frames'[w][k], path)
            BY <2>3, <2>6, <4>1, <4>3
          <5>2. Loading(frames[w][k], path)
            BY <2>4, <2>5, <5>1 DEF Loading
          <5>3. QED
            BY <2>m, <4>1, <5>2
        <4>4. QED
          BY <4>2, <4>3
      <3>2. CASE ~(v = u /\ i = n)
        <4>1. frames'[v][i] = next(frames[v][i])
          BY <2>6, <3>2
        <4>2. /\ frames[v][i].alone /\ ~Loading(frames[v][i], path)
              /\ frames'[v][i].path = frames[v][i].path
              /\ Loading(frames[v][i], frames[v][i].path)
          BY <2>4, <2>5, <4>1 DEF Loading
        <4>3. frames[v][i].path # path
          BY <4>2
        <4>4. CASE w = u /\ k = n
          BY <2>3, <2>6, <4>2, <4>3, <4>4 DEF Loading
        <4>5. CASE ~(w = u /\ k = n)
          <5>1. frames'[w][k] = next(frames[w][k])
            BY <2>6, <4>5
          <5>2. Loading(frames[w][k], frames[v][i].path)
            BY <2>4, <2>5, <4>2, <5>1 DEF Loading
          <5>3. QED
            BY <1>i, <4>2, <5>2 DEF Sole
        <4>6. QED
          BY <4>4, <4>5
      <3>3. QED
        BY <3>1, <3>2
    <2>11. Told'
      BY <1>i, <1>w, <2>1 DEF Told
    <2>12. QED
      BY <2>7, <2>8, <2>9, <2>10, <2>11 DEF IInv
  <1>6. QED
    BY <1>4, <1>5

(* A use that is past its look at the cache.                                  *)
LEMMA WorkFacts ==
  ASSUME IInv, NEW u \in Users, Working(u), Top(u).stage # "look"
  PROVE  /\ frames[u][Len(frames[u])] = Top(u) /\ Top(u) \in Frame /\ Sound(Top(u), modules)
         /\ ~(Top(u).late /\ ~Top(u).request.reload)
         /\ modules \in [Files -> Nat] /\ loads \in Nat
         /\ modules' = modules => Puts(Top(u))
  <1>1. TypeOK /\ AllSound
    BY DEF IInv
  <1>2. /\ Len(frames[u]) \in 1..Len(frames[u]) /\ Top(u) \in Frame
        /\ frames[u][Len(frames[u])] = Top(u)
    BY <1>1, TopFacts
  <1>3. Sound(Top(u), modules)
    BY <1>1, <1>2 DEF AllSound
  <1>4. modules \in [Files -> Nat] /\ loads \in Nat
    BY <1>1 DEF TypeOK
  <1>5. QED
    BY <1>2, <1>3, <1>4 DEF Sound, Puts

(* A module that is needed.                                                   *)
LEMMA NeedStep ==
  ASSUME NeedsAreRequests, IInv, NEW u \in Users, Need(u)
  PROVE  IInv'
  <1>1. Working(u) /\ Top(u).stage = "load" /\ Top(u).needs # <<>> /\ Begin(u, Head(Top(u).needs))
    BY DEF Need, At
  <1>2. Top(u) \in Frame
    BY <1>1, WorkFacts
  <1>3. Head(Top(u).needs) \in Requests
    <2>1. PICK s \in Seq(Requests) : s = Top(u).needs
      BY <1>2 DEF Frame
    <2>2. Head(s) \in Requests
      BY <1>1, <2>1
    <2>3. QED
      BY <2>1, <2>2
  <1>4. QED
    BY <1>1, <1>3, BeginStep

(* A file that gives a module.                                                *)
LEMMA LoadStep ==
  ASSUME IInv, NEW u \in Users, Load(u)
  PROVE  IInv'
  <1>1. /\ Working(u) /\ Top(u).stage = "load" /\ loads' = loads + 1
        /\ modules' = modules /\ answer' = answer
    BY DEF Load, At
  <1>2. /\ frames[u][Len(frames[u])] = Top(u) /\ Top(u) \in Frame /\ Sound(Top(u), modules)
        /\ ~(Top(u).late /\ ~Top(u).request.reload)
        /\ loads \in Nat /\ Puts(Top(u))
    BY <1>1, WorkFacts
  <1>3. PICK f \in Frame : f = Top(u)
    BY <1>2
  <1>4. PICK stage \in {"keep", "put"} : stage = IF Top(u).loader = "dynlib" THEN "keep" ELSE "put"
    OBVIOUS
  <1> DEFINE g == [f EXCEPT !.result = loads + 1, !.stage = stage]
  <1>5. frames \in [Users -> Seq(Frame)]
    BY DEF IInv, TypeOK
  <1>6. frames' = [frames EXCEPT ![u][Len(frames[u])] = g]
    <2>1. frames' = [frames EXCEPT ![u][Len(frames[u])] =
                       [@ EXCEPT !.result = loads + 1, !.stage = stage]]
      BY <1>4 DEF Load
    <2>2. QED
      BY <1>2, <1>3, <1>5, <2>1
  <1>7. /\ g \in Frame /\ g.path = f.path /\ g.alone = f.alone /\ g.late = f.late
        /\ g.request = f.request /\ g.stage = stage /\ g.result = loads + 1
    <2>1. PICK module \in Nat : module = loads + 1
      BY <1>2
    <2>2. g = [f EXCEPT !.result = module, !.stage = stage]
      BY <2>1
    <2> HIDE DEF g
    <2>3. g \in Frame
      BY <2>2 DEF Frame, Stages
    <2>4. QED
      BY <2>1, <2>2, <2>3 DEF Frame
  <1> HIDE DEF g
  <1>8. Sound(g, modules')
    <2>1. /\ f.path \in Files /\ f.alone => modules[f.path] = NoModule
      BY <1>1, <1>2, <1>3 DEF Sound
    <2>2. g.result # NoModule
      BY <1>2, <1>7 DEF NoModule
    <2>3. QED
      BY <1>1, <1>2, <1>3, <1>7, <2>1, <2>2 DEF Sound
  <1>9. Loading(g, g.path) => Loading(Top(u), g.path)
    BY <1>1, <1>3, <1>7 DEF Loading
  <1>10. loads' \in Nat
    BY <1>1, <1>2
  <1>11. QED
    BY <1>1, <1>2, <1>3, <1>6, <1>7, <1>8, <1>9, <1>10, TopStep

(* A file that gives none.                                                    *)
LEMMA LoadFailsStep ==
  ASSUME IInv, NEW u \in Users, LoadFails(u)
  PROVE  IInv'
  <1>1. /\ Working(u) /\ Top(u).stage = "load" /\ loads' = loads
        /\ modules' = modules /\ answer' = answer /\ Goto(u, "fail")
    BY DEF LoadFails, At
  <1>2. /\ frames[u][Len(frames[u])] = Top(u) /\ Top(u) \in Frame /\ Sound(Top(u), modules)
        /\ ~(Top(u).late /\ ~Top(u).request.reload)
        /\ loads \in Nat /\ Puts(Top(u))
    BY <1>1, WorkFacts
  <1>3. PICK f \in Frame : f = Top(u)
    BY <1>2
  <1> DEFINE g == [f EXCEPT !.stage = "fail"]
  <1>4. frames \in [Users -> Seq(Frame)]
    BY DEF IInv, TypeOK
  <1>5. frames' = [frames EXCEPT ![u][Len(frames[u])] = g]
    BY <1>1, <1>2, <1>3, <1>4 DEF Goto
  <1>6. /\ g \in Frame /\ g.path = f.path /\ g.alone = f.alone /\ g.late = f.late
        /\ g.request = f.request /\ g.stage = "fail"
    BY DEF Frame, Stages
  <1> HIDE DEF g
  <1>7. Sound(g, modules') /\ ~Loading(g, g.path)
    BY <1>2, <1>3, <1>6 DEF Sound, Loading
  <1>8. QED
    BY <1>1, <1>2, <1>3, <1>5, <1>6, <1>7, TopStep

(* A use that fails.                                                          *)
LEMMA FailStep ==
  ASSUME IInv, NEW u \in Users, Fail(u)
  PROVE  IInv'
  <1>1. /\ Working(u) /\ Top(u).stage = "fail" /\ loads' = loads
        /\ modules' = modules /\ Answer(u, Failure)
    BY DEF Fail, At
  <1>2. /\ ~(Top(u).late /\ ~Top(u).request.reload) /\ Puts(Top(u))
    BY <1>1, WorkFacts
  <1>3. Failure \in Int
    BY DEF Failure
  <1>4. QED
    BY <1>1, <1>2, <1>3, AnswerStep

(* A dynamic library's loader puts the module in the cache, or fails.         *)
LEMMA KeepStep ==
  ASSUME IInv, NEW u \in Users, Keep(u)
  PROVE  IInv'
  <1>1. /\ Working(u) /\ Top(u).stage = "keep" /\ loads' = loads
        /\ modules' = SegModPut(Top(u).path, Top(u).result)
    BY DEF Keep, At
  <1>2. /\ frames[u][Len(frames[u])] = Top(u) /\ Top(u) \in Frame /\ Sound(Top(u), modules)
        /\ ~(Top(u).late /\ ~Top(u).request.reload)
        /\ loads \in Nat /\ modules \in [Files -> Nat]
    BY <1>1, WorkFacts
  <1>3. PICK f \in Frame : f = Top(u)
    BY <1>2
  <1>4. f.path \in Files /\ Loading(f, f.path) /\ f.result # NoModule /\ TypeOK
    BY <1>1, <1>2, <1>3 DEF Sound, Loading, IInv
  <1>5. Puts(f) /\ modules'[f.path] = IF modules[f.path] = NoModule THEN f.result
                                       ELSE modules[f.path]
    BY <1>1, <1>3, <1>4, SegModPutPuts
  <1>6. CASE modules[f.path] = NoModule
    <2>1. Goto(u, "put") /\ answer' = answer
      BY <1>3, <1>6 DEF Keep
    <2> DEFINE g == [f EXCEPT !.stage = "put"]
    <2>2. frames \in [Users -> Seq(Frame)]
      BY DEF IInv, TypeOK
    <2>3. frames' = [frames EXCEPT ![u][Len(frames[u])] = g]
      BY <1>2, <1>3, <2>1, <2>2 DEF Goto
    <2>4. /\ g \in Frame /\ g.path = f.path /\ g.alone = f.alone /\ g.late = f.late
          /\ g.request = f.request /\ g.stage = "put" /\ g.result = f.result
      BY DEF Frame, Stages
    <2> HIDE DEF g
    <2>5. modules'[g.path] = g.result
      BY <1>5, <1>6, <2>4
    <2>6. Sound(g, modules')
      BY <1>2, <1>3, <1>4, <2>4, <2>5 DEF Sound
    <2>7. Loading(g, g.path) => Loading(f, g.path)
      BY <1>4, <2>4 DEF Loading
    <2>8. QED
      BY <1>1, <1>2, <1>3, <1>5, <2>1, <2>3, <2>4, <2>6, <2>7, TopStep
  <1>7. CASE modules[f.path] # NoModule
    <2>1. Answer(u, Refused) /\ Refused \in Int
      BY <1>3, <1>7 DEF Keep, Refused
    <2>2. ~Top(u).alone
      BY <1>1, <1>2, <1>3, <1>7 DEF Sound
    <2>3. QED
      BY <1>1, <1>2, <1>3, <1>5, <2>1, <2>2, AnswerStep
  <1>8. QED
    BY <1>6, <1>7

(* A use puts its module in the cache and returns it.                         *)
LEMMA PutStep ==
  ASSUME IInv, NEW u \in Users, Put(u)
  PROVE  IInv'
  <1>1. /\ Working(u) /\ Top(u).stage = "put" /\ loads' = loads
        /\ modules' = SegModPut(Top(u).path, Top(u).result) /\ Answer(u, Top(u).result)
    BY DEF Put, At
  <1>2. /\ Top(u) \in Frame /\ Sound(Top(u), modules)
        /\ ~(Top(u).late /\ ~Top(u).request.reload)
    BY <1>1, WorkFacts
  <1>3. PICK f \in Frame : f = Top(u)
    BY <1>2
  <1>4. /\ f.path \in Files /\ Loading(f, f.path) /\ f.result # NoModule /\ TypeOK
        /\ f.result \in Int
    BY <1>1, <1>2, <1>3 DEF Sound, Loading, IInv, Frame
  <1>5. Puts(f) /\ modules'[f.path] = IF modules[f.path] = NoModule THEN f.result
                                       ELSE modules[f.path]
    BY <1>1, <1>3, <1>4, SegModPutPuts
  <1>6. f.alone => f.result = modules'[f.path]
    BY <1>1, <1>2, <1>3, <1>5 DEF Sound
  <1>7. QED
    BY <1>1, <1>2, <1>3, <1>4, <1>5, <1>6, AnswerStep

(* Every step of a fiber.                                                     *)
LEMMA NextStep ==
  ASSUME NeedsAreRequests, IInv, [Next]_moduleVars
  PROVE  IInv'
  <1>1. CASE UNCHANGED moduleVars
    BY <1>1 DEF moduleVars, IInv, TypeOK, AllSound, Waits, Sole, Told
  <1>2. ASSUME NEW u \in Users, Use(u) PROVE IInv'
    BY <1>2, BeginStep DEF Use
  <1>3. ASSUME NEW u \in Users,
               Use(u) \/ Look(u) \/ Need(u) \/ Load(u) \/ LoadFails(u) \/ Fail(u)
                 \/ Keep(u) \/ Put(u)
        PROVE  IInv'
    BY <1>2, <1>3, LookStep, NeedStep, LoadStep, LoadFailsStep, FailStep, KeepStep, PutStep
  <1>4. QED
    BY <1>1, <1>3 DEF Next

(* No file is loaded at first.                                                *)
LEMMA InitHolds == Init => IInv
  <1> SUFFICES ASSUME Init PROVE IInv
    OBVIOUS
  <1>1. NoAnswer \in Reply /\ ~NoAnswer.late /\ ~NoAnswer.alone
    BY DEF NoAnswer, Reply, Failure
  <1>2. /\ modules \in [Files -> Nat] /\ loads \in Nat
        /\ \A u \in Users : answer[u] = NoAnswer
        /\ answer \in [Users -> Reply]
    BY <1>1 DEF Init, NoModule
  <1>3. /\ frames \in [Users -> Seq(Frame)] /\ \A u \in Users : frames[u] = <<>>
    BY DEF Init
  <1>4. AllSound /\ Waits /\ Sole
    BY <1>3 DEF AllSound, Waits, Sole
  <1>5. Told
    BY <1>1, <1>2 DEF Told, Holds
  <1>6. QED
    BY <1>2, <1>3, <1>4, <1>5 DEF IInv, TypeOK

(* What each use has been told is what the cache holds, or its file failed.   *)
LEMMA OneHolds == IInv => OneInstance
  BY DEF IInv, Told, Holds, OneInstance

(* The invariant holds of every program: what is in the cache, what each use  *)
(* that is under way knows of it, and what has been answered agree.           *)
THEOREM Inductive == NeedsAreRequests => (Spec => []IInv)
  <1>1. NeedsAreRequests /\ IInv /\ [Next]_moduleVars => IInv'
    BY NextStep
  <1>2. NeedsAreRequests => (IInv /\ [][Next]_moduleVars => []IInv)
    <2> SUFFICES ASSUME NeedsAreRequests PROVE IInv /\ [][Next]_moduleVars => []IInv
      OBVIOUS
    <2>1. IInv /\ [Next]_moduleVars => IInv'
      BY NextStep
    <2>2. QED
      BY <2>1, PTL
  <1>3. QED
    BY <1>2, InitHolds, PTL DEF Spec

(* A program has one instance of each module (gab_use): one that began when   *)
(* the module was in the cache returns that instance, and one that is alone   *)
(* in loading a file returns what every later use will get, or its file       *)
(* failed; a lost race of gab_segmodput is possible only to the others.       *)
THEOREM ModuleIsOne == NeedsAreRequests => (Spec => []OneInstance)
  BY OneHolds, Inductive, PTL
=============================================================================
