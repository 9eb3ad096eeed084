------------------------------ MODULE Compiler ------------------------------
(* The bytecode compiler of src/src/cgab/cgab.c: from trees to prototypes. *)
(* An instruction is [op, tup, args]: the tuples it opens and its operands,*)
(* values in place of indices into the constants.  A context is the        *)
(* sequence of a scope's bindings [name, upv], upv being Local or the index*)
(* of a captured name; an env is a sequence of contexts, the innermost     *)
(* last.  The compiler's state is [ok, code, env, protos].                 *)
EXTENDS Values

Local == -1

(* A send's cache: the epoch it was filled in, and by the hash of a type   *)
(* that type and what implements the message for it.                       *)
NoCache == [epoch |-> 0, slots |-> [h \in 0..3 |-> <<>>]]

Instr(op, args) == [op |-> op, tup |-> 0, args |-> args]

(* The op of the k-th instruction from the end (prev_op and pprev_op).     *)
Op(c, k) == IF Len(c.code) < k THEN "NOP" ELSE c.code[Len(c.code) + 1 - k].op

(* __gab_obcpush: an instruction that is never merged.                     *)
Emit(c, op, args) == [c EXCEPT !.code = Append(@, Instr(op, args))]

Super ==
  <<"LOAD_LOCAL", "LOAD_LOCAL">>           :> "NLOAD_LOCAL" @@
  <<"NLOAD_LOCAL", "LOAD_LOCAL">>          :> "NLOAD_LOCAL" @@
  <<"STORE_LOCAL", "POP">>                 :> "POPSTORE_LOCAL" @@
  <<"POPSTORE_LOCAL", "STORE_LOCAL">>      :> "NPOPSTORE_STORE_LOCAL" @@
  <<"NPOPSTORE_LOCAL", "STORE_LOCAL">>     :> "NPOPSTORE_STORE_LOCAL" @@
  <<"NPOPSTORE_STORE_LOCAL", "POP">>       :> "NPOPSTORE_LOCAL" @@
  <<"LOAD_UPVALUE", "LOAD_UPVALUE">>       :> "NLOAD_UPVALUE" @@
  <<"NLOAD_UPVALUE", "LOAD_UPVALUE">>      :> "NLOAD_UPVALUE" @@
  <<"CONSTANT", "CONSTANT">>               :> "NCONSTANT" @@
  <<"NCONSTANT", "CONSTANT">>              :> "NCONSTANT" @@
  <<"TUPLE", "TUPLE">>                     :> "NTUPLE" @@
  <<"NTUPLE", "TUPLE">>                    :> "NTUPLE" @@
  <<"NTUPLE", "CONSTANT">>                 :> "NTUPLE_CONSTANT" @@
  <<"NTUPLE_CONSTANT", "CONSTANT">>        :> "NTUPLE_NCONSTANT" @@
  <<"NTUPLE_NCONSTANT", "CONSTANT">>       :> "NTUPLE_NCONSTANT" @@
  <<"TUPLE", "CONSTANT">>                  :> "TUPLE_CONSTANT" @@
  <<"TUPLE_CONSTANT", "CONSTANT">>         :> "TUPLE_NCONSTANT" @@
  <<"TUPLE_NCONSTANT", "CONSTANT">>        :> "TUPLE_NCONSTANT" @@
  <<"TUPLE", "LOAD_LOCAL">>                :> "TUPLE_LOAD_LOCAL" @@
  <<"TUPLE_LOAD_LOCAL", "LOAD_LOCAL">>     :> "TUPLE_NLOAD_LOCAL" @@
  <<"TUPLE_NLOAD_LOCAL", "LOAD_LOCAL">>    :> "TUPLE_NLOAD_LOCAL" @@
  <<"NTUPLE", "LOAD_LOCAL">>               :> "NTUPLE_LOAD_LOCAL" @@
  <<"NTUPLE_LOAD_LOCAL", "LOAD_LOCAL">>    :> "NTUPLE_NLOAD_LOCAL" @@
  <<"NTUPLE_NLOAD_LOCAL", "LOAD_LOCAL">>   :> "NTUPLE_NLOAD_LOCAL"

(* __gab_ibcpush: an instruction that joins the one before where it can.   *)
Merge(c, op, tup, args) ==
  IF <<Op(c, 1), op>> \in DOMAIN Super
  THEN [c EXCEPT !.code[Len(c.code)] =
          [op |-> Super[Op(c, 1), op], tup |-> @.tup + tup, args |-> @.args \o args]]
  ELSE [c EXCEPT !.code =
          Append(@, [op |-> op, tup |-> tup, args |-> args])]

Constants(c, values) ==
  FoldLeft(LAMBDA d, v : Merge(d, "CONSTANT", 0, <<v>>), c, values)

Pop(c, n) == IF n > 1 THEN Emit(c, "POP_N", <<n>>) ELSE Merge(c, "POP", 0, <<>>)

(* Make a tuple of a known length of the current one; given is <<>> when   *)
(* the values have no tree (they are arguments).                           *)
TrimNode(c, want, given) ==
  LET len == NodeLen(given[1]) IN
  CASE Op(c, 1) = "TRIM" -> [c EXCEPT !.code[Len(c.code)].args = <<want>>]
    [] Op(c, 1) # "TRIM" /\ given = <<>> -> Emit(c, "TRIM", <<want>>)
    [] OTHER -> CASE NodeIsMulti(given[1]) -> Emit(c, "TRIM", <<want>>)
                  [] ~NodeIsMulti(given[1]) /\ len > want -> Pop(c, len - want)
                  [] OTHER -> Constants(c, Nils(want - len))

Lookup(ctx, name) == {i \in DOMAIN ctx : ctx[i].name = name}
Has(ctx, name)    == Lookup(ctx, name) # {}
Upv(ctx, name)    == ctx[CHOOSE i \in Lookup(ctx, name) : TRUE].upv
IsLocal(ctx, name)    == Has(ctx, name) /\ Upv(ctx, name) = Local
IsCaptured(ctx, name) == Has(ctx, name) /\ Upv(ctx, name) # Local

Locals(ctx)   == SelectSeq(ctx, LAMBDA b : b.upv = Local)
Upvalues(ctx) == SelectSeq(ctx, LAMBDA b : b.upv # Local)

(* The slot of a local: its place among the locals, from 0.                *)
LocAt(ctx, name) ==
  (CHOOSE i \in DOMAIN Locals(ctx) : Locals(ctx)[i].name = name) - 1

PutLoc(ctx, name) ==
  IF Has(ctx, name) THEN ctx ELSE Append(ctx, [name |-> name, upv |-> Local])

Peek(env, depth) == env[Len(env) - depth]

(* Capture a name in the context at a depth.                               *)
PutUpv(env, depth, name) ==
  LET ctx == Peek(env, depth)
  IN  IF Has(ctx, name) THEN env
      ELSE [env EXCEPT ![Len(env) - depth] =
              Append(@, [name |-> name, upv |-> Len(Upvalues(ctx))])]

(* The env in which a name of an outer scope is captured at a depth and at *)
(* each on the way there; <<>> if no scope binds it.                       *)
RECURSIVE Capture(_, _, _)
Capture(env, depth, name) ==
  CASE depth + 1 >= Len(env) -> <<>>
    [] depth + 1 < Len(env) /\ IsLocal(Peek(env, depth + 1), name) ->
         PutUpv(env, depth, name)
    [] OTHER -> LET outer == Capture(env, depth + 1, name)
                IN  IF outer = <<>> THEN <<>> ELSE PutUpv(outer, depth, name)

Refuse(c) == [c EXCEPT !.ok = FALSE]

CompSym(c, name) ==
  LET found == Capture(c.env, 0, name)
  IN  CASE IsLocal(Last(c.env), name) ->
             Merge(c, "LOAD_LOCAL", 0, <<LocAt(Last(c.env), name)>>)
        [] ~IsLocal(Last(c.env), name) /\ found # <<>> ->
             [Merge(c, "LOAD_UPVALUE", 0, <<Upv(Last(found), name)>>)
                EXCEPT !.env = found]
        [] OTHER -> Refuse(c)

(* Bind the targets in a context, from the first to the last.              *)
Unpack(ctx, bindings) ==
  LET Bound(u, b) ==
        IF \/ ~u.ok \/ ~(IsSym(b) \/ IsPack(b))
           \/ IsCaptured(u.ctx, Target(b))
           \/ IsPack(b) /\ u.packs # <<>>
        THEN [u EXCEPT !.ok = FALSE]
        ELSE [ok    |-> TRUE,
              ctx   |-> PutLoc(u.ctx, Target(b)),
              names |-> Append(u.names, Target(b)),
              packs |-> IF IsPack(b)
                        THEN <<[op    |-> IF b.send = "*" THEN "PACK_LIST"
                                          ELSE "PACK_DICT",
                                below |-> Len(u.names)]>>
                        ELSE u.packs]
  IN  FoldLeft(Bound, [ok |-> TRUE, ctx |-> ctx, names |-> <<>>, packs |-> <<>>],
               bindings)

(* Shape the current tuple after the names bound and, if it has a tree,   *)
(* store it: from the last name to the first, whose value stays.           *)
Bind(c, u, given) ==
  LET want == Len(u.names)
      pack == u.packs[1]
      shaped == IF u.packs = <<>> THEN TrimNode(c, want, given)
                ELSE Emit(c, pack.op, <<pack.below, want - pack.below - 1>>)
      Stored(d, i) ==
        Merge(d, "STORE_LOCAL", 0, <<LocAt(u.ctx, u.names[want + 1 - i])>>)
      Store(d, i) == IF i = want THEN Stored(d, i) ELSE Pop(Stored(d, i), 1)
  IN  IF ~u.ok THEN Refuse(c)
      ELSE [(IF given = <<>> THEN shaped
             ELSE FoldLeft(Store, shaped, [i \in 1..want |-> i]))
              EXCEPT !.env[Len(c.env)] = u.ctx]

EnvUnpack(c, bindings, given) ==
  IF bindings = <<>> THEN c ELSE Bind(c, Unpack(Last(c.env), bindings), given)

(* Faulty variant: any send at the end is a tail call.                     *)
RetLast(c, tuple) ==
  Emit(IF Op(c, 1) = "SEND" THEN [c EXCEPT !.code[Len(c.code)].args[2] = TRUE] ELSE c,
       "RETURN", <<>>)

(* A return; what only passes on a send's values is a tail call.           *)
Ret(c, tuple) ==
  LET len  == NodeLen(tuple) - (IF NodeIsMulti(tuple) /\ NodeLen(tuple) > 0
                                THEN 1 ELSE 0)
      Tailed(code) == [code EXCEPT ![Len(code)].args[2] = TRUE]
  IN  CASE len = 0 /\ Op(c, 1) = "SEND" ->
             Emit([c EXCEPT !.code = Tailed(c.code)], "RETURN", <<>>)
        [] len = 0 /\ Op(c, 1) = "TRIM" /\ Op(c, 2) = "SEND" ->
             Emit([c EXCEPT !.code = Tailed(Front(c.code))], "RETURN", <<>>)
        [] OTHER -> Emit(c, "RETURN", <<>>)

(* The first TRIM makes room for all locals.                               *)
PatchInit(code, n) ==
  [code EXCEPT ![IF code[1].op = "TRIM" THEN 1 ELSE 2].args = <<n>>]

(* Where a new block finds what it captures: in its parent's locals or its *)
(* parent's own captures.                                                  *)
UpvData(env) ==
  LET ctx    == Last(env)
      parent == Peek(env, 1)
  IN  [i \in DOMAIN Upvalues(ctx) |->
         LET name  == Upvalues(ctx)[i].name
             local == Len(env) < 3 \/ IsLocal(parent, name)
         IN  [local |-> local,
              index |-> IF local THEN LocAt(parent, name) ELSE Upv(parent, name)]]

RECURSIVE CompVal(_, _), CompSend(_, _), CompBody(_, _), CompBlock(_, _),
          Compile(_, _, _, _)

CompTup(c, tuple) == FoldLeft(CompVal, c, tuple)

CompVal(c, v) ==
  CASE ~c.ok -> c
    [] c.ok /\ IsSym(v)  -> CompSym(c, v.sym)
    [] c.ok /\ IsSend(v) -> CompSend(c, v)
    [] c.ok /\ IsBody(v) -> CompBody(c, v.body)
    [] OTHER             -> Constants(c, <<v>>)

(* The operands of a send: its message, whether it is a tail call, and the *)
(* cache that the machine fills.                                           *)
CompSend(c, v) ==
  CASE v.send = "::" -> CompBlock(c, v)
    [] v.send = ":=" -> EnvUnpack(CompTup(c, v.rhs), v.lhs, <<v.rhs>>)
    [] OTHER -> Emit(CompTup(Merge(c, "TUPLE", 1, <<>>), v.lhs \o v.rhs),
                     "SEND", <<v.send, FALSE, NoCache>>)

CompBody(c, tuples) ==
  LET Step(d, i) == IF i = Len(tuples) THEN CompTup(d, tuples[i])
                    ELSE TrimNode(CompTup(d, tuples[i]), 0, <<tuples[i]>>)
  IN  FoldLeft(Step, c, [i \in DOMAIN tuples |-> i])

Made(c, made) ==
  IF ~made.ok THEN Refuse(c)
  ELSE Emit([c EXCEPT !.env = Front(made.env), !.protos = made.protos],
            "BLOCK", <<Len(made.protos)>>)

CompBlock(c, v) ==
  Made(c, Compile(v.rhs, Append(c.env, <<>>), <<Sym("self")>> \o v.lhs, c.protos))

(* gab_compile: the arguments' tuple is shaped, and an empty one is opened *)
(* that the block returns.                                                 *)
Open(start) ==
  Merge(TrimNode(start, Len(Last(start.env)), <<>>), "TUPLE", 1, <<>>)

Close(body, tree) ==
  LET ctx == Last(body.env)
  IN  IF ~body.ok THEN body
      ELSE [body EXCEPT
              !.protos = Append(@,
                [code |-> PatchInit(Ret(body, tree).code, Len(Locals(ctx))),
                 upvs |-> IF Upvalues(ctx) = <<>> THEN <<>> ELSE UpvData(body.env)])]

Compile(tree, env, bindings, protos) ==
  LET new == [ok |-> TRUE, code |-> <<>>, env |-> env, protos |-> protos]
  IN  Close(CompTup(Open(EnvUnpack(new, bindings, <<>>)), tree), tree)

(* gab_build: a module binds self alone.                                   *)
Build(tree, protos) ==
  Compile(tree, << <<[name |-> "self", upv |-> Local]>> >>, <<>>, protos)
=============================================================================
