------------------------------- MODULE Values -------------------------------
(* The values of a running program, and their types.  Numbers, messages and*)
(* strings are their own trees; blocks, records, shapes, primitives and    *)
(* natives have none.  A block is a prototype and what it captured.        *)
EXTENDS Parser, SequencesExt

Nil           == Msg("nil")
Nils(n)       == [i \in 1..(IF n > 0 THEN n ELSE 0) |-> Nil]
Blk(p, upvs)  == [proto |-> p, upvs |-> upvs]
Rec(keys, vs) == [keys |-> keys, vals |-> vs]
Prim(op)      == [prim |-> op]
Native(f)     == [native |-> f]

IsNum(v)   == DOMAIN v = {"num"}
IsMsg(v)   == DOMAIN v = {"msg"}
IsStr(v)   == DOMAIN v = {"str"}
IsShp(v)   == DOMAIN v = {"shape"}
IsBlk(v)   == DOMAIN v \cap {"proto", "tree"} # {}
IsRec(v)   == DOMAIN v = {"keys", "vals"}
IsPrim(v)  == DOMAIN v = {"prim"}
IsNative(v) == DOMAIN v = {"native"}

Bool(b) == Msg(IF b THEN "true" ELSE "false")
List(vs) == Rec([i \in DOMAIN vs |-> Num(i - 1)], vs)

(* A record of pairs; the last value given for a key counts.               *)
Record(pairs) ==
  LET Put(r, i) ==
        LET k == pairs[2 * i - 1]
            v == pairs[2 * i]
            at == {j \in DOMAIN r.keys : r.keys[j] = k}
        IN  IF at = {} THEN Rec(Append(r.keys, k), Append(r.vals, v))
            ELSE [r EXCEPT !.vals = [j \in DOMAIN @ |-> IF j \in at THEN v ELSE @[j]]]
  IN  FoldLeft(Put, Rec(<<>>, <<>>), [i \in 1..Len(pairs) \div 2 |-> i])

(* The kinds of values have names, which are strings.                      *)
Kinds == <<"gab\\number", "gab\\message", "gab\\block", "gab\\record",
           "gab\\shape", "gab\\string">>

Kind(v) ==
  Str(CASE IsNum(v) -> "gab\\number" [] IsMsg(v) -> "gab\\message"
        [] IsBlk(v) -> "gab\\block"  [] IsRec(v) -> "gab\\record"
        [] IsShp(v) -> "gab\\shape"  [] OTHER    -> "gab\\string")

(* A message is its own type, a record's type is its shape.                *)
Shape(keys) == [shape |-> keys]
Type(v) == CASE IsMsg(v) -> v [] IsRec(v) -> Shape(v.keys) [] OTHER -> Kind(v)

General == [general |-> "gab_cundefined"]

(* What the operators are defined on, and what they compute.               *)
NumberOps  == {"ADD", "SUB", "MUL", "LT", "LTE", "GT", "GTE", "BIN"}
BooleanOps == {"LOR", "LND", "LIN"}
UnaryOps   == {"BIN", "LIN"}
BinaryOps  == ((NumberOps \cup BooleanOps) \ UnaryOps) \cup {"CONCAT"}

Fits(op, v) ==
  CASE op \in NumberOps  -> IsNum(v)
    [] op \in BooleanOps -> v \in {Bool(TRUE), Bool(FALSE)}
    [] op = "CONCAT"     -> IsStr(v)

Compute(op, a, b) ==
  CASE op = "ADD" -> Num(a.num + b.num)   [] op = "LT"  -> Bool(a.num < b.num)
    [] op = "SUB" -> Num(a.num - b.num)   [] op = "LTE" -> Bool(a.num <= b.num)
    [] op = "MUL" -> Num(a.num * b.num)   [] op = "GT"  -> Bool(a.num > b.num)
    [] op = "BIN" -> Num(-1 - a.num)      [] op = "GTE" -> Bool(a.num >= b.num)
    [] op = "LOR" -> Bool(Bool(TRUE) \in {a, b})
    [] op = "LND" -> Bool(Bool(FALSE) \notin {a, b})
    [] op = "LIN" -> Bool(a = Bool(FALSE))
    [] op = "CONCAT" -> Str(a.str \o b.str)
=============================================================================
