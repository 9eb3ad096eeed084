------------------------------ MODULE Language ------------------------------
(* A program of gab from its text to its outcome: src/src/cgab/cgab.c reads*)
(* the text (Lexer, Parser), compiles it (Compiler) and runs it in a fiber *)
(* (Machine).  The programs are trees; the text of each is spelled here.   *)
EXTENDS Machine, Lexer, Meaning

CONSTANT Programs       \* the programs, each the tuples of its statements

VARIABLE program        \* the one that is run

vars == <<program, stack, hv, fb, ip, code, messages, epoch, outcome>>

-----------------------------------------------------------------------------
(* Texts                                                                   *)

Chars(word) == [i \in 1..Len(word) |-> SubSeq(word, i, i)]

MakerTypes == {"gab\\list", "gab\\record", "gab\\shape"}
IsMaking(v) ==
  IsSend(v) /\ v.send = "make" /\ v.lhs \in {<<Msg(t)>> : t \in MakerTypes}

IsOperator(v) == IsSend(v) /\ v.send # "" /\ SubSeq(v.send, 1, 1) \in StartOp

(* How tightly a value holds together: as an operand it needs parentheses  *)
(* where a tighter one is called for.                                      *)
Tight(v) ==
  CASE ~IsSend(v) \/ IsMaking(v)        -> 4
    [] IsSend(v) /\ IsBuiltin(v)        -> 1
    [] IsSend(v) /\ IsOperator(v)       -> 2
    [] OTHER                            -> 3

Brackets ==
  "gab\\list" :> <<"[", "]">> @@ "gab\\record" :> <<"{", "}">> @@
  "gab\\shape" :> <<"\\{", "}">>

Escaped(c) == CASE c = "\n" -> <<"\\", "n">> [] c = "'" -> <<"\\", "'">> [] OTHER -> <<c>>

RECURSIVE SpellVal(_), SpellTup(_, _), SpellAll(_, _), SpellBody(_)

(* Values with a separator behind each.                                    *)
SpellAll(tuple, sep) == FlattenSeq([i \in DOMAIN tuple |-> SpellVal(tuple[i]) \o sep])

(* A tuple as an operand that must be at least so tight.                   *)
SpellTup(tuple, tight) ==
  IF Len(tuple) = 1 /\ Tight(tuple[1]) >= tight THEN SpellVal(tuple[1])
  ELSE <<"(">> \o SpellAll(tuple, <<",", " ">>) \o <<")">>

SpellBody(tuples) ==
  FlattenSeq([i \in DOMAIN tuples |->
                SpellTup(tuples[i], 1) \o <<" ", "#", " ", "x", "\n">>])

SpellVal(v) ==
  LET name == IF v.send = "" THEN <<".">> ELSE <<".">> \o Chars(v.send)
      rhs  == IF v.rhs = <<>> THEN <<>> ELSE <<" ">> \o SpellTup(v.rhs, 4)
  IN  CASE DOMAIN v = {"num"} -> <<ToString(v.num)>>
        [] DOMAIN v = {"sym"} -> Chars(v.sym)
        [] DOMAIN v = {"msg"} -> Chars(v.msg) \o <<":">>
        [] DOMAIN v = {"str"} ->
             IF "\\" \in ToSet(Chars(v.str)) THEN <<"\"">> \o Chars(v.str) \o <<"\"">>
             ELSE <<"'">> \o FlattenSeq([i \in 1..Len(v.str) |-> Escaped(Chars(v.str)[i])])
                  \o <<"'">>
        [] IsBody(v) -> Chars("do\n") \o SpellBody(v.body) \o Chars("end")
        [] IsSend(v) /\ IsMaking(v) ->
             Chars(Brackets[v.lhs[1].msg][1]) \o SpellAll(v.rhs, <<" ">>)
             \o Chars(Brackets[v.lhs[1].msg][2])
        [] IsSend(v) /\ IsBuiltin(v) ->
             SpellTup(v.lhs, 4) \o <<" ">> \o Chars(v.send) \o <<" ">> \o SpellTup(v.rhs, 1)
        [] IsSend(v) /\ ~IsMaking(v) /\ IsOperator(v) ->
             SpellTup(v.lhs, 2) \o Chars(v.send) \o
             (IF v.rhs = <<>> THEN <<>> ELSE <<" ">> \o SpellTup(v.rhs, 3))
        [] OTHER -> SpellTup(v.lhs, 3) \o name \o rhs

(* A program is the body of its statements, each a tuple.                  *)
(* Reading and compiling depend on nothing else, and neither does meaning. *)
SourceOf(tree, read) ==
  [tree  |-> tree,
   read  |-> read,
   built |-> IF read.ok THEN Build(read.node, <<VirtualFrame>>) ELSE [ok |-> FALSE],
   means |-> IF Scoped(tree) THEN Means(tree)
             ELSE [status |-> "refused", values |-> <<>>]]

Sources ==
  [tuples \in Programs |-> SourceOf(<<Body(tuples)>>, Parse(Lex(SpellBody(tuples))))]

-----------------------------------------------------------------------------
Init ==
  /\ program \in Programs
  /\ stack = <<>> /\ hv = 0 /\ fb = 0 /\ code = <<>>
  /\ ip = [p |-> 1, at |-> 1]
  /\ messages = Messages0
  /\ epoch = 1
  /\ outcome = [status |-> "source", values |-> <<>>]

(* Read and compile, and make the fiber; or refuse.                        *)
LoadBuilt(built) ==
  IF built.ok THEN Start(built.protos)
  ELSE /\ outcome' = [status |-> "refused", values |-> <<>>]
       /\ UNCHANGED <<stack, hv, fb, ip, code, messages, epoch>>

Load ==
  /\ outcome.status = "source"
  /\ LoadBuilt(Sources[program].built)
  /\ UNCHANGED program

Run == Step /\ UNCHANGED program

Over == outcome.status \in {"ok", "panic", "refused"}

Next == Load \/ Run \/ (Over /\ UNCHANGED vars)

Spec == Init /\ [][Next]_vars

-----------------------------------------------------------------------------
Shows(values) == [i \in DOMAIN values |-> Shown(values[i])]

(* Compiling, tuples on one stack, tail calls and specialized instructions *)
(* are not to be seen: a program comes to what its text means.             *)
RunsAsWritten ==
  Over => [outcome EXCEPT !.values = Shows(@)] = Sources[program].means

Markers == {i \in DOMAIN stack : IsMarker(stack[i])}

(* The count on top is the number of values of the tuple on top, and each  *)
(* tuple's is kept below the next: how returns know what they return.      *)
CountIsTrue ==
  outcome.status = "running" =>
    LET Below1(i) == {j \in Markers : j < i}
        Nearest(i) == IF Below1(i) = {} THEN 0
                      ELSE CHOOSE j \in Below1(i) : \A k \in Below1(i) : k <= j
    IN  /\ hv = Len(stack) - Nearest(Len(stack) + 1)
        /\ \A i \in Markers : stack[i].have = IF i = 1 THEN 0 ELSE i - 1 - Nearest(i)

(* What a specialized send is about to run.                                *)
Specialized ==
  CASE I.op \in MatchOps -> Matched[2]
    [] I.op \in {"CALL_BLOCK", "TAIL_CALL_BLOCK"} -> Prim("CALL_BLOCK")
    [] I.op \in CachedOps \ (MatchOps \cup {"CALL_BLOCK", "TAIL_CALL_BLOCK"}) -> Cached[2]

(* A send whose checks pass runs what the look-up would find now, however  *)
(* the messages have changed since its cache was filled.                   *)
CachedIsCurrent ==
  Sends(CachedOps) => Specialized \in Impl(Message, IF hv = 0 THEN Nil ELSE Receiver)

(* What the printer of a tree writes, the lexer and the parser read back.  *)
IsReadBack(source) == source.read.ok /\ source.read.node = source.tree
ReadsBack == outcome.status = "source" => IsReadBack(Sources[program])
=============================================================================
