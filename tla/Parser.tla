------------------------------- MODULE Parser -------------------------------
(* The parser of src/src/cgab/cgab.c: a Pratt parser from tokens to trees. *)
(* A tuple is the sequence of its values; a value is a number, a symbol, a *)
(* message, a string, a send, or a body: a sequence of tuples, as between  *)
(* do and end.  A parser's state is its place in the tokens; a parse gives *)
(* [ok, at, node].                                                         *)
EXTENDS Integers, Sequences, TLC

Num(n)        == [num |-> n]
Sym(x)        == [sym |-> x]
Msg(m)        == [msg |-> m]
Str(s)        == [str |-> s]
Body(tuples)  == [body |-> tuples]
Send(l, m, r) == [lhs |-> l, send |-> m, rhs |-> r]

IsSym(v)     == DOMAIN v = {"sym"}
IsBody(v)    == DOMAIN v = {"body"}
IsSend(v)    == DOMAIN v = {"lhs", "send", "rhs"}
Builtins     == {":=", "::"}
IsBuiltin(v) == IsSend(v) /\ v.send \in Builtins

IsPack(b) ==
  IsSend(b) /\ b.send \in {"*", "**"} /\ b.rhs = <<>> /\ IsSym(Head(b.lhs))

(* The name a target binds: a name, or x* and x** that pack what is left.  *)
Target(b) == IF IsPack(b) THEN Head(b.lhs).sym ELSE b.sym

(* Does a tuple hold a send, so that its length is known at run time only? *)
RECURSIVE NodeIsMulti(_)
NodeIsMulti(tuple) ==
  \E i \in DOMAIN tuple :
    LET v == tuple[i]
    IN  \/ IsSend(v) /\ ~IsBuiltin(v)
        \/ IsBody(v) /\ \E j \in DOMAIN v.body : NodeIsMulti(v.body[j])

(* The length of a tuple, each send counted once; of a body, the length of *)
(* its last tuple, and 1 if it has none.                                   *)
RECURSIVE NodeLen(_)
NodeLen(tuple) ==
  IF tuple = <<>> THEN 0
  ELSE LET v == Head(tuple)
       IN  NodeLen(Tail(tuple)) +
           (IF IsBody(v) /\ v.body # <<>> THEN NodeLen(v.body[Len(v.body)]) ELSE 1)

kEXP == 1  kBINARY_SEND == 2  kSEND == 3  kBUILTIN == 4

(* Faulty variant: operators bind as tightly as sends.                     *)
PrecFlat(kind) ==
  CASE kind \in {"COLONCOLON", "COLONEQUAL"} -> kBUILTIN
    [] kind \in {"SEND", "OPERATOR"} -> kSEND
    [] OTHER -> 0

Prec(kind) ==
  CASE kind \in {"COLONCOLON", "COLONEQUAL"} -> kBUILTIN
    [] kind = "SEND"     -> kSEND
    [] kind = "OPERATOR" -> kBINARY_SEND
    [] OTHER             -> 0

Starts == {"DO", "LBRACE", "LBRACK", "LPAREN", "SYMBOL", "MESSAGE",
             "SINGLESTRING", "DOUBLESTRING", "NUMBER", "SLBRACK"}

(* Eat a token.  It is an error if a malformed one follows, and then that  *)
(* one is gone too.                                                        *)
RECURSIVE TokEat(_, _)
TokEat(toks, at) ==
  CASE toks[at].kind = "EOF"       -> [ok |-> FALSE, at |-> at]
    [] toks[at].kind # "EOF" /\ toks[at + 1].kind = "ERROR" ->
         [ok |-> FALSE, at |-> TokEat(toks, at + 1).at]
    [] OTHER                       -> [ok |-> TRUE, at |-> at + 1]

MatchEat(toks, at, kind) ==
  CASE toks[at].kind # kind -> [ok |-> FALSE, at |-> at]
    [] kind = "EOF" /\ toks[at].kind = kind -> [ok |-> TRUE, at |-> at]
    [] OTHER -> TokEat(toks, at)

RECURSIVE Newlines(_, _)
Newlines(toks, at) ==
  LET m == MatchEat(toks, at, "NEWLINE")
  IN  IF m.ok THEN Newlines(toks, m.at) ELSE m.at

Got(node, at) == [ok |-> TRUE, at |-> at, node |-> node]
Fail(at)      == [ok |-> FALSE, at |-> at, node |-> <<>>]

DigitValue ==
  [c \in {"0", "1", "2", "3", "4", "5", "6", "7", "8", "9"} |->
     CHOOSE n \in 0..9 : ToString(n) = c]

(* The text of a single quoted string, from its i-th character.  A closing *)
(* quote behind a backslash is taken as an escape, so that it stays; a code*)
(* point is known by its digits.                                           *)
Escapes ==
  "r" :> "\r" @@ "n" :> "\n" @@ "t" :> "\t" @@ "{" :> "{" @@ "\"" :> "\"" @@
  "'" :> "'" @@ "\\" :> "\\" @@ "0" :> "<0>" @@ "e" :> "<1b>"

Hex == DOMAIN DigitValue \cup {"a", "b", "c", "d", "e", "f"}

RECURSIVE StrRaw(_, _)
StrRaw(word, i) ==
  LET Char(k)   == SubSeq(word, k, k)
      close     == {k \in i + 3..Len(word) : Char(k) = "]"}
      to        == CHOOSE k \in close : \A j \in close : k <= j
      Then(c, k) == LET more == StrRaw(word, k)
                    IN  [ok |-> more.ok, str |-> c \o more.str]
  IN  CASE i >= Len(word)     -> [ok |-> TRUE, str |-> ""]
        [] i < Len(word) /\ Char(i) # "\\" -> Then(Char(i), i + 1)
        [] i < Len(word) /\ Char(i) = "\\" /\ Char(i + 1) \in DOMAIN Escapes ->
             Then(Escapes[Char(i + 1)], i + 2)
        [] OTHER ->
             IF /\ Char(i + 1) = "u" /\ Char(i + 2) = "[" /\ close # {}
                /\ to - i \in 4..10 /\ \A k \in i + 3..to - 1 : Char(k) \in Hex
             THEN Then("<" \o SubSeq(word, i + 3, to - 1) \o ">", to + 1)
             ELSE [ok |-> FALSE, str |-> ""]

RECURSIVE Exp(_, _, _), Continue(_, _, _), ExpUntil(_, _, _, _, _)

(* The tuples up to a closing token: joined to one, or kept apart as the   *)
(* tuples of a body.                                                       *)
More(toks, e, close, apart, result) ==
  IF ~e.ok THEN e
  ELSE ExpUntil(toks, Newlines(toks, e.at), close, apart,
                result \o (IF apart THEN <<e.node>> ELSE e.node))

ExpUntil(toks, at, close, apart, result) ==
  LET m == MatchEat(toks, at, close)
  IN  IF m.ok THEN Got(result, m.at)
      ELSE More(toks, Exp(toks, Newlines(toks, m.at), kEXP), close, apart, result)

Until(toks, at, close, apart) ==
  ExpUntil(toks, Newlines(toks, at), close, apart, <<>>)

Bodied(parsed) ==
  IF parsed.ok THEN Got(<<Body(parsed.node)>>, parsed.at) ELSE parsed

ExpBody(toks, at, close) == Bodied(Until(toks, at, close, TRUE))

(* A list, a record or a shape is made by a send to its type.              *)
Making(type, parsed) ==
  IF parsed.ok THEN Got(<<Send(<<Msg(type)>>, "make", parsed.node)>>, parsed.at)
  ELSE parsed

(* What a token starts; at is the place behind it.                         *)
Prefix(toks, at) ==
  LET kind == toks[at - 1].kind  word == toks[at - 1].word IN
  CASE kind = "DO"      -> ExpBody(toks, at, "END")
    [] kind = "LPAREN"  -> Until(toks, at, "RPAREN", FALSE)
    [] kind = "LBRACE"  -> Making("gab\\list", Until(toks, at, "RBRACE", FALSE))
    [] kind = "LBRACK"  -> Making("gab\\record", Until(toks, at, "RBRACK", FALSE))
    [] kind = "SLBRACK" -> Making("gab\\shape", Until(toks, at, "RBRACK", FALSE))
    [] kind = "SYMBOL"  -> Got(<<Sym(word)>>, at)
    [] kind = "MESSAGE" -> Got(<<Msg(SubSeq(word, 1, Len(word) - 1))>>, at)
    [] kind = "NUMBER"  -> Got(<<Num(DigitValue[word])>>, at)
    [] kind = "DOUBLESTRING" -> Got(<<Str(SubSeq(word, 2, Len(word) - 1))>>, at)
    [] kind = "SINGLESTRING" ->
         LET raw == StrRaw(word, 2)
         IN  IF raw.ok THEN Got(<<Str(raw.str)>>, at) ELSE Fail(at)

(* What a token continues: the send of a message with an optional tuple, or*)
(* a binding or a block, whose right side takes all that follows.          *)
Sent(lhs, msg, parsed) ==
  IF parsed.ok THEN Got(<<Send(lhs, msg, parsed.node)>>, parsed.at) ELSE parsed

Infix(toks, at, lhs) ==
  LET kind == toks[at - 1].kind
      word == toks[at - 1].word
      msg  == IF kind = "SEND" THEN SubSeq(word, 2, Len(word)) ELSE word
      none == kind \in {"SEND", "OPERATOR"} /\ toks[at].kind \notin Starts
  IN  Sent(lhs, msg,
           IF none THEN Got(<<>>, at)
           ELSE Exp(toks, at, IF kind \in {"SEND", "OPERATOR"}
                              THEN Prec(kind) + 1 ELSE kEXP))

(* Newlines before an infix token are skipped, others are left to the      *)
(* caller.                                                                 *)
Continue(toks, left, prec) ==
  LET next == Newlines(toks, left.at)
      eat  == TokEat(toks, next)
  IN  CASE ~left.ok \/ prec > Prec(toks[next].kind) -> left
        [] left.ok /\ prec <= Prec(toks[next].kind) /\ ~eat.ok -> Fail(eat.at)
        [] OTHER -> Continue(toks, Infix(toks, eat.at, left.node), prec)

Exp(toks, at, prec) ==
  LET eat == TokEat(toks, at)
  IN  IF ~eat.ok \/ toks[at].kind \notin Starts THEN Fail(eat.at)
      ELSE Continue(toks, Prefix(toks, eat.at), prec)

(* __gab_parse: the whole source is one body that ends at its end.         *)
Parse(toks) ==
  IF toks[1].kind \in {"EOF", "ERROR"} THEN Fail(1) ELSE ExpBody(toks, 1, "EOF")
=============================================================================
