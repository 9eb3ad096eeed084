------------------------------- MODULE Lexer --------------------------------
(* The lexer of src/src/cgab/cgab.c: from a text to its tokens.  A text is *)
(* a sequence of characters; what lies behind its last character reads as  *)
(* the NUL that ends every source.                                         *)
EXTENDS Integers, Sequences, SequencesExt

Nul == "nul"
At(text, i) == IF i \in 1..Len(text) THEN text[i] ELSE Nul

Blank    == {" ", "\t"}
Digit    == {"0", "1", "2", "3", "4", "5", "6", "7", "8", "9"}
HexDigit == Digit \cup {"a", "b", "c", "d", "e", "f"}
StartOp  == {"!", "$", "%", "^", "*", "/", "+", "-", "&", "|", "=", "<", ">",
             "?", "~", "@"}
StartSym == {"a", "b", "c", "d", "e", "f", "g", "h", "i", "j", "k", "l", "m",
             "n", "o", "p", "q", "r", "s", "t", "u", "v", "w", "x", "y", "z", "_"}
InSym    == StartSym \cup Digit \cup {"\\"}

(* The first place at or behind i that is outside the class.               *)
Past(text, i, class) ==
  CHOOSE j \in i..Len(text) + 1 :
    At(text, j) \notin class /\ \A k \in i..j - 1 : text[k] \in class

(* The characters from one place to before another, joined.                *)
Word(text, from, to) ==
  FoldLeft(LAMBDA w, c : w \o c, "",
           SubSeq(text, from, IF to > Len(text) THEN Len(text) ELSE to - 1))

(* What one scan returns: a kind of token and the place behind it.         *)
Tok(kind, to) == [kind |-> kind, to |-> to]

LexStr(text, i) ==
  LET quote == text[i]
      stop  == {quote, Nul} \cup (IF quote = "'" THEN {"\n"} ELSE {})
      j     == CHOOSE j \in i + 1..Len(text) + 1 :
                 At(text, j) \in stop /\ \A k \in i + 1..j - 1 : text[k] \notin stop
  IN  IF At(text, j) # quote THEN Tok("ERROR", j)
      ELSE Tok(IF quote = "'" THEN "SINGLESTRING" ELSE "DOUBLESTRING", j + 1)

LexOp(text, i) ==
  LET j == Past(text, i, StartOp)
  IN  IF At(text, j) = ":" THEN Tok("MESSAGE", j + 1) ELSE Tok("OPERATOR", j)

(* A keyword is one only when the whole token, its dot too, spells it.     *)
LexSym(text, from, i) ==
  LET j    == Past(text, i, InSym)
      word == Word(text, from, j)
  IN  CASE At(text, j) = ":" -> Tok("MESSAGE", j + 1)
        [] At(text, j) # ":" /\ word = "do" -> Tok("DO", j)
        [] At(text, j) # ":" /\ word = "end" -> Tok("END", j)
        [] OTHER -> Tok("SYMBOL", j)

Exponent(text, j, mark) ==
  IF At(text, j) = mark /\ At(text, j + 1) \in Digit \cup {"+", "-"}
  THEN Past(text, j + 2, Digit) ELSE j

LexNum(text, i) ==
  LET j == Past(text, i, Digit)
  IN  Tok("NUMBER",
          IF At(text, i) = "0" /\ At(text, i + 1) = "x"
          THEN Exponent(text, Past(text, i + 2, HexDigit), "p")
          ELSE IF At(text, j) = "." /\ At(text, j + 1) \in Digit
          THEN Exponent(text, Past(text, j + 2, Digit), "e")
          ELSE Exponent(text, j, "e"))

(* A dot and what follows it: a message to send, a number or the bare send.*)
LexSend(text, i) ==
  LET c    == At(text, i + 1)
      name == IF c \in StartOp THEN LexOp(text, i + 2) ELSE LexSym(text, i, i + 2)
  IN  CASE c \in StartOp \cup StartSym ->
             IF name.kind \in {"OPERATOR", "SYMBOL"} THEN Tok("SEND", name.to)
             ELSE Tok("ERROR", name.to)
        [] c \in Digit -> Tok("NUMBER", Past(text, i + 1, Digit))
        [] OTHER -> Tok("SEND", i + 1)

Punctuation ==
  [c \in {";", ",", "(", ")", "[", "]", "{", "}"} |->
     CASE c \in {";", ","} -> "NEWLINE"
       [] c = "(" -> "LPAREN" [] c = ")" -> "RPAREN"
       [] c = "[" -> "LBRACE" [] c = "]" -> "RBRACE"
       [] c = "{" -> "LBRACK" [] c = "}" -> "RBRACK"]

(* After a lone backslash one more character belongs to the bad token.     *)
LexOther(text, i) ==
  LET c == text[i]  d == At(text, i + 1) IN
  CASE c \in DOMAIN Punctuation -> Tok(Punctuation[c], i + 1)
    [] c = ":"  -> CASE d = ":" -> Tok("COLONCOLON", i + 2)
                     [] d = "=" -> Tok("COLONEQUAL", i + 2)
                     [] OTHER   -> Tok("MESSAGE", i + 1)
    [] c = "\\" -> IF d = "{" THEN Tok("SLBRACK", i + 2) ELSE Tok("ERROR", i + 2)
    [] c = "."  -> LexSend(text, i)
    [] c \in StartOp -> LexOp(text, i)
    [] OTHER    -> Tok("ERROR", i + 1)

(* __gab_lexskipcmt stops at a newline, or on the last character.  A text  *)
(* must not end in its comment sign: the code would then read behind it.   *)
SkipComment(text, i) ==
  CHOOSE j \in i + 1..Len(text) + 1 :
    /\ At(text, j) = "\n" \/ j >= Len(text)
    /\ \A k \in i + 1..j - 1 : text[k] # "\n" /\ k < Len(text)

RECURSIVE SkipBlanks(_, _)
SkipBlanks(text, i) ==
  CASE At(text, i) = "#"      -> SkipBlanks(text, SkipComment(text, i))
    [] At(text, i) \in Blank  -> SkipBlanks(text, i + 1)
    [] OTHER                  -> i

LexNext(text, i) ==
  LET c == At(text, i)  d == At(text, i + 1) IN
  CASE c = Nul               -> Tok("EOF", i)
    [] c = "\r" /\ d = "\n"  -> Tok("NEWLINE", i + 2)
    [] c = "\n"              -> Tok("NEWLINE", i + 1)
    [] c \in StartSym        -> LexSym(text, i, i + 1)
    [] c = "-" /\ d \in Digit -> LexNum(text, i + 1)
    [] c \in Digit           -> LexNum(text, i)
    [] c \in {"\"", "'"}     -> LexStr(text, i)
    [] OTHER                 -> LexOther(text, i)

RECURSIVE LexFrom(_, _, _)

(* The token behind the blanks, and those that follow.                     *)
LexTok(text, from, tok, row) ==
  LET token == [kind |-> tok.kind, word |-> Word(text, from, tok.to), row |-> row]
      ends  == tok.kind = "NEWLINE" /\ At(text, tok.to - 1) = "\n"
  IN  IF tok.kind = "EOF" THEN <<token>>
      ELSE <<token>> \o LexFrom(text, tok.to, IF ends THEN row + 1 ELSE row)

LexBehind(text, from, row) == LexTok(text, from, LexNext(text, from), row)

LexFrom(text, i, row) == LexBehind(text, SkipBlanks(text, i), row)

Lex(text) == LexFrom(text, 1, 1)
=============================================================================
