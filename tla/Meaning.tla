------------------------------ MODULE Meaning -------------------------------
(* What a program of src/src/cgab/cgab.c means, said over its tree: no     *)
(* instructions, no stack, no caches.  It is the reference the compiled    *)
(* program is compared with.  A state is [ok, vals, env, table]: the values*)
(* of the tuple so far, the names in scope, and what implements a message  *)
(* for a type.                                                             *)
EXTENDS Values

(* A block closes over the values its names have where it is made.         *)
Closure(params, tree, env) == [params |-> params, tree |-> tree, env |-> env]

(* The table before a program runs: gab's own implementations.             *)
Meanings ==
  LET Is(m, type, spec) == <<m, type>> :> spec
      On(m, kind, op)   == Is(m, Str("gab\\" \o kind), Prim(op))
      Both(m, op)       == Is(m, Bool(TRUE), Prim(op)) @@ Is(m, Bool(FALSE), Prim(op))
  IN  On("+", "number", "ADD") @@ On("-", "number", "SUB") @@ On("*", "number", "MUL") @@
      On("<", "number", "LT")  @@ On("<=", "number", "LTE") @@
      On(">", "number", "GT")  @@ On(">=", "number", "GTE") @@
      On("~", "number", "BIN") @@ On("+", "string", "CONCAT") @@
      Both("&", "LND") @@ Both("|", "LOR") @@ Both("!", "LIN") @@
      On("*", "record", "SPLATLIST") @@ On("**", "record", "SPLATDICT") @@
      On("*", "shape", "SPLATSHAPE") @@ On("make", "shape", "MAKE_SHAPE") @@
      On("cons", "record", "CONS_RECORD") @@ Is("cons", General, Prim("CONS")) @@
      Is("make", Msg("gab\\list"), Prim("LIST")) @@
      Is("make", Msg("gab\\record"), Prim("RECORD")) @@
      Is("make", Msg("gab\\shape"), Prim("SHAPE")) @@
      On("", "block", "CALL_BLOCK") @@ Is("==", General, Prim("EQ")) @@
      Is("def", Str("gab\\message"), Native("def")) @@
      Is("defcase", Str("gab\\message"), Native("defcase")) @@
      [at \in {<<"?", Str(Kinds[i])>> : i \in DOMAIN Kinds} |-> Prim("TYPE")]

(* What a message finds for a value, as a set of at most one: the narrowest*)
(* type that has something, else a property of a record.                   *)
Finds(table, m, v) ==
  LET types == SelectSeq(<<Type(v), Kind(v), General>>,
                         LAMBDA t : <<m, t>> \in DOMAIN table)
  IN  IF types # <<>> THEN {table[m, types[1]]}
      ELSE IF IsRec(v)
      THEN {[index |-> i] : i \in {j \in DOMAIN v.keys : v.keys[j] = Msg(m)}}
      ELSE {}

(* The names that targets bind: each the next value or nil, and one that   *)
(* packs all that the others leave.                                        *)
Binds(targets, given) ==
  LET n      == Len(targets)
      packs  == {i \in 1..n : IsPack(targets[i])}
      at     == CHOOSE i \in 1..n + 1 : IF packs = {} THEN i = n + 1 ELSE i \in packs
      need   == IF packs = {} THEN n ELSE n - 1
      vals   == given \o Nils(need - Len(given))
      spare  == Len(vals) - need
      packed == SubSeq(vals, at, at + spare - 1)
      Of(i)  == CASE i < at -> vals[i]
                  [] i > at -> vals[i + spare - 1]
                  [] OTHER  -> IF targets[at].send = "*" THEN List(packed)
                               ELSE Record(packed)
  IN  [x \in {Target(targets[i]) : i \in 1..n} |->
         Of(CHOOSE i \in 1..n : Target(targets[i]) = x)]

Give(s, vals) == [s EXCEPT !.vals = @ \o vals]
Fails(s)      == [s EXCEPT !.ok = FALSE]

RECURSIVE EvalTup(_, _), EvalVal(_, _), EvalSend(_, _), Perform(_, _, _)

(* The values of a tuple, behind those the state has; and of a tuple alone.*)
EvalTup(tuple, s) == FoldLeft(LAMBDA t, v : EvalVal(v, t), s, tuple)
Alone(tuple, s)   == EvalTup(tuple, [s EXCEPT !.vals = <<>>])

EvalVal(v, s) ==
  CASE ~s.ok -> s
    [] s.ok /\ IsSym(v)  -> Give(s, <<s.env[v.sym]>>)
    [] s.ok /\ IsBody(v) ->
         LET last == FoldLeft(LAMBDA t, tuple : Alone(tuple, t),
                              [s EXCEPT !.vals = <<>>], v.body)
         IN  [last EXCEPT !.vals = s.vals \o @]
    [] s.ok /\ IsSend(v) -> EvalSend(v, s)
    [] OTHER             -> Give(s, <<v>>)

EvalSend(v, s) ==
  LET bound == Alone(v.rhs, s)
      env   == Binds(v.lhs, bound.vals)
      sent  == Alone(v.lhs \o v.rhs, s)
      args  == IF sent.vals = <<>> THEN <<Nil>> ELSE sent.vals
      found == Finds(sent.table, v.send, args[1])
  IN  CASE v.send = "::" -> Give(s, <<Closure(v.lhs, v.rhs, s.env)>>)
        [] v.send = ":=" ->
             IF ~bound.ok THEN bound
             ELSE [bound EXCEPT !.env = env @@ @,
                                !.vals = s.vals \o <<env[Target(v.lhs[1])]>>]
        [] OTHER -> IF ~sent.ok \/ found = {} THEN Fails(sent)
                    ELSE LET done == Perform(CHOOSE f \in found : TRUE, args, sent)
                         IN  [done EXCEPT !.vals = s.vals \o @]

(* What an implementation makes of the values it is sent.                  *)
Perform(spec, args, s) ==
  LET blk   == IF spec = Prim("CALL_BLOCK") THEN args[1] ELSE spec
      rest  == Tail(args)
      other == IF rest = <<>> THEN Nil ELSE rest[1]
      Returns(vals) == [s EXCEPT !.vals = vals]
  IN  CASE IsBlk(blk) ->
             LET ran == Alone(blk.tree,
                              [s EXCEPT !.env = Binds(<<Sym("self")>> \o blk.params, args)
                                                @@ blk.env])
             IN  [ran EXCEPT !.env = s.env]
        [] IsPrim(spec) /\ spec.prim \in BinaryOps ->
             IF Fits(spec.prim, other) THEN Returns(<<Compute(spec.prim, args[1], other)>>)
             ELSE Fails(s)
        [] IsPrim(spec) /\ spec.prim \in UnaryOps ->
             Returns(<<Compute(spec.prim, args[1], args[1])>>)
        [] spec = Prim("EQ")         -> Returns(<<Bool(args[1] = other)>>)
        [] spec = Prim("TYPE")       -> Returns(<<Type(args[1])>>)
        [] spec = Prim("LIST")       -> Returns(<<List(rest)>>)
        [] spec = Prim("SHAPE")      -> Returns(<<Shape(rest)>>)
        [] spec = Prim("MAKE_SHAPE") -> Returns(<<Rec(args[1].shape, rest)>>)
        [] spec = Prim("RECORD")     ->
             Returns(<<Record(rest \o (IF Len(rest) % 2 = 1 THEN <<Nil>> ELSE <<>>))>>)
        [] spec = Prim("CONS")        -> Returns(<<List(<<args[1], other>>)>>)
        [] spec = Prim("CONS_RECORD") -> Returns(<<List(Append(args[1].vals, other))>>)
        [] spec = Prim("SPLATLIST")   -> Returns(args[1].vals)
        [] spec = Prim("SPLATSHAPE")  -> Returns(args[1].shape)
        [] spec = Prim("SPLATDICT")   ->
             Returns(FlattenSeq([i \in DOMAIN args[1].keys |->
                                  <<args[1].keys[i], args[1].vals[i]>>]))
        [] DOMAIN spec = {"index"}  -> Returns(<<args[1].vals[spec.index]>>)
        [] spec = Native("def") ->
             LET types == IF Len(args) <= 2 THEN {General}
                          ELSE {args[i] : i \in 2..Len(args) - 1}
             IN  [Returns(<<Nil>>) EXCEPT !.table =
                    [at \in {<<args[1].msg, t>> : t \in types} |-> Last(args)] @@ @]
        [] spec = Native("defcase") ->
             IF ~IsRec(other) THEN Fails(s)
             ELSE [Returns(<<Nil>>) EXCEPT !.table =
                     [at \in {<<args[1].msg, t>> : t \in ToSet(other.keys)} |->
                        other.vals[CHOOSE i \in DOMAIN other.keys : other.keys[i] = at[2]]]
                     @@ @]
        [] OTHER -> Returns(<<spec>>)

(* A block is known by being one, in a record too.                         *)
RECURSIVE Shown(_)
Shown(v) ==
  CASE IsBlk(v) -> [block |-> TRUE]
    [] IsRec(v) -> [v EXCEPT !.vals = [i \in DOMAIN @ |-> Shown(@[i])]]
    [] OTHER    -> v

(* The outcome of a program: the main block's self is the main block.      *)
Means(tree) ==
  LET main == Closure(<<>>, tree, <<>>)
      ran  == EvalTup(tree, [ok |-> TRUE, vals |-> <<>>, env |-> ("self" :> main),
                             table |-> Meanings])
  IN  IF ran.ok THEN [status |-> "ok", values |-> [i \in DOMAIN ran.vals |-> Shown(ran.vals[i])]]
      ELSE [status |-> "panic", values |-> <<>>]

(* Names within one block: its own, those of the blocks around it, and of  *)
(* these the ones used so far, which it can no longer bind itself.         *)
Names(targets) == {Target(t) : t \in ToSet(targets)}

WellFormed(targets) ==
  /\ \A t \in ToSet(targets) : IsSym(t) \/ IsPack(t)
  /\ Cardinality({i \in DOMAIN targets : IsPack(targets[i])}) <= 1

RECURSIVE ScopeVal(_, _)
ScopeTup(tuple, s) == FoldLeft(LAMBDA t, v : ScopeVal(v, t), s, tuple)

ScopeVal(v, s) ==
  CASE ~s.ok -> s
    [] s.ok /\ IsSym(v) ->
         [s EXCEPT !.ok = v.sym \in s.own \cup s.outer,
                   !.used = @ \cup ({v.sym} \ s.own)]
    [] s.ok /\ IsBody(v) -> FoldLeft(LAMBDA t, tuple : ScopeTup(tuple, t), s, v.body)
    [] s.ok /\ IsSend(v) /\ v.send = "::" ->
         IF ~WellFormed(v.lhs) THEN Fails(s)
         ELSE LET inner == ScopeTup(v.rhs, [ok |-> TRUE, used |-> {},
                                            own |-> Names(v.lhs) \cup {"self"},
                                            outer |-> s.own \cup s.outer])
              IN  [s EXCEPT !.ok = inner.ok, !.used = @ \cup (inner.used \ s.own)]
    [] s.ok /\ IsSend(v) /\ v.send = ":=" ->
         LET t == ScopeTup(v.rhs, s)
         IN  IF ~WellFormed(v.lhs) \/ Names(v.lhs) \cap t.used # {} THEN Fails(t)
             ELSE [t EXCEPT !.own = @ \cup Names(v.lhs)]
    [] s.ok /\ IsSend(v) /\ ~IsBuiltin(v) -> ScopeTup(v.rhs, ScopeTup(v.lhs, s))
    [] OTHER -> s

Scoped(tree) ==
  ScopeTup(tree, [ok |-> TRUE, own |-> {"self"}, outer |-> {}, used |-> {}]).ok
=============================================================================
