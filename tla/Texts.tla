-------------------------------- MODULE Texts --------------------------------
(* The natives of src/src/mod/cstrings.c.  A text is its bytes, in UTF-8;  *)
(* what one native answers a program sends on to the next: graphemes are   *)
(* read one by one, a text is split as long as something is left, and      *)
(* popped until it is empty.  Every other native is asked once.            *)
EXTENDS Integers, Sequences, SequencesExt, FiniteSets, TLC

CONSTANTS
  Letters,        \* the graphemes texts are made of, each its bytes
  MostGraphemes,  \* bound: graphemes in a text
  Numbers         \* the numbers that are sent along

VARIABLES
  text,           \* the receiver
  use,            \* what the program does with it
  parts,          \* what it has been given so far
  rest,           \* what it sends the next message to
  at,             \* the state of the reader of graphemes
  answer          \* the last answer

textsVars == <<text, use, parts, rest, at, answer>>

Joined(graphemes) == FlattenSeq(graphemes)
UpTo(n)      == UNION {[1..k -> Letters] : k \in 0..n}
Texts        == {Joined(g) : g \in UpTo(MostGraphemes)}
Patterns     == {Joined(g) : g \in UpTo(2)}
Blanks       == {32, 10, 9}

(* libgrapheme: a grapheme ends before the next byte that starts one.      *)
Break(data, from) ==
  CHOOSE n \in 1..Len(data) - from :
    /\ from + n = Len(data) \/ data[from + n + 1] \notin 128..191
    /\ \A k \in 1..n - 1 : data[from + k + 1] \in 128..191

Chars(data) == Cardinality({i \in DOMAIN data : data[i] \notin 128..191})

Slice(data, from, n) == SubSeq(data, from + 1, from + n)
Drop(data, n)        == SubSeq(data, n + 1, Len(data))
Holds(data, pattern, from) ==
  from + Len(pattern) <= Len(data) /\ Slice(data, from, Len(pattern)) = pattern

Ok(values) == <<"ok">> \o values
None       == <<"none">>
IsOk(a)    == a[1] = "ok"

-----------------------------------------------------------------------------
(* Natives that are asked once                                             *)

TextTrim(data, set) ==
  LET n     == Len(data)
      keeps == {i \in 1..n : data[i] \notin set}
      front == IF keeps = {} THEN n ELSE CHOOSE i \in keeps : \A j \in keeps : i <= j
      back  == IF keeps = {} THEN n ELSE CHOOSE i \in keeps : \A j \in keeps : i >= j
  IN  IF n = 0 THEN data ELSE SubSeq(data, front, back)

Begins(data, pattern, offset) == Holds(data, pattern, offset)

Ends(data, pattern, offset) ==
  /\ Len(data) >= offset + Len(pattern)
  /\ Holds(data, pattern, Len(data) - offset - Len(pattern))

HasSub(data, pattern) == \E i \in 0..Len(data) : Holds(data, pattern, i)

IsBlank(data) == ToSet(data) \subseteq Blanks

(* A byte of a text, from the end for a negative index.                    *)
ByteAt(data, index) ==
  LET i == IF index < 0 THEN Len(data) + index ELSE index
  IN  IF i \in 0..Len(data) - 1 THEN Ok(<<data[i + 1]>>) ELSE None

(* The place of the n-th grapheme.                                         *)
Place(data, n) ==
  CHOOSE p \in 0..Len(data) :
    /\ p = Len(data) \/ data[p + 1] \notin 128..191
    /\ Chars(SubSeq(data, 1, p)) = n

(* Negative indices and the limits are counted in bytes, graphemes are     *)
(* taken: see the inputs that IsAsked leaves out.                            *)
Clamp(index, n) == LET i == IF index < 0 THEN index + n ELSE index
                   IN  IF i < n THEN i ELSE n

TextSlice(data, vfrom, vto) ==
  LET from == Clamp(vfrom, Len(data))
      to   == Clamp(vto, Len(data))
  IN  IF from > to THEN <<"panic">>
      ELSE Ok(<<Slice(data, Place(data, from), Place(data, to) - Place(data, from))>>)

-----------------------------------------------------------------------------
(* GAB_DYNLIB_MAIN_FN: what is defined for which type, by what native.     *)

Natives ==
  <<"is\\blank", "string">> :> "blank" @@ <<"has\\sub", "string">> :> "has" @@
  <<"has\\suffix", "string">> :> "ends" @@ <<"has\\prefix", "string">> :> "begins" @@
  <<"trim", "string">> :> "trim" @@ <<"slice", "string">> :> "slice" @@
  <<"at", "string">> :> "at" @@ <<"len", "string">> :> "len" @@
  <<"at", "binary">> :> "binary at" @@ <<"len", "binary">> :> "binary len"

Answer(native, data, args) ==
  CASE native = "blank"  -> IsBlank(data)
    [] native = "has"    -> HasSub(data, args[1])
    [] native = "ends"   -> Ends(data, args[1], 0)
    [] native = "begins" -> Begins(data, args[1], IF Len(args) = 2 THEN args[2] ELSE 0)
    [] native = "trim"   -> TextTrim(data, IF args = <<>> THEN Blanks ELSE ToSet(args[1]))
    [] native = "slice"  -> IF Len(args) = 1 THEN TextSlice(data, 0, args[1])
                            ELSE TextSlice(data, args[1], args[2])
    [] native \in {"at", "binary at"} -> ByteAt(data, args[1])
    [] native = "len"        -> Chars(data)
    [] native = "binary len" -> Len(data)

Arguments(message) ==
  CASE message = "is\\blank" \/ message = "len" -> {<<>>}
    [] message \in {"has\\sub", "has\\suffix"} -> {<<p>> : p \in Patterns}
    [] message = "has\\prefix" ->
         {<<p>> : p \in Patterns} \cup {<<p, n>> : p \in Patterns, n \in Numbers \cap Nat}
    [] message = "trim"  -> {<<>>} \cup {<<p>> : p \in Patterns}
    [] message = "at"    -> {<<n>> : n \in Numbers}
    [] message = "slice" -> {<<n>> : n \in Numbers} \cup {<<m, n>> : m, n \in Numbers}

(* Left out, since the code does not answer: an index into a slice that is *)
(* behind the graphemes but not the bytes, or negative and not in the text *)
(* or in one with other than one byte a grapheme; a binary index that is   *)
(* one before the first byte; has\suffix with an offset.                   *)
IsAsked(key, args) ==
  CASE key[1] = "slice" ->
         \A i \in DOMAIN args :
           IF args[i] < 0 THEN Chars(text) = Len(text) /\ Len(text) + args[i] >= 0
           ELSE args[i] <= Chars(text) \/ Chars(text) = Len(text)
    [] key = <<"at", "binary">> -> Len(text) + args[1] >= 0
    [] OTHER -> TRUE

Ask ==
  /\ use.does = "any"
  /\ \E key \in DOMAIN Natives :
       \E args \in Arguments(key[1]) :
         /\ IsAsked(key, args)
         /\ use' = [does |-> "ask", message |-> key[1], type |-> key[2], args |-> args]
         /\ answer' = Answer(Natives[key], text, args)
  /\ UNCHANGED <<text, parts, rest, at>>

-----------------------------------------------------------------------------
(* Natives that are sent again                                             *)

SeqInit ==
  /\ use.does = "any"
  /\ use' = [does |-> "seq"]
  /\ IF Chars(text) = 0
     THEN answer' = None /\ UNCHANGED parts
     ELSE /\ answer' = Ok(<<>>)
          /\ parts' = <<Slice(text, 0, Break(text, 0))>>
  /\ at' = 0
  /\ UNCHANGED <<text, rest>>

(* Faulty variant of Following: the bytes that were given are counted twice. *)
FollowingTwice(from) == from + 2 * Break(text, from)

(* The state is where the grapheme begins that was given last.             *)
Following(from) == from + Break(text, from)

SeqNext ==
  /\ use.does = "seq" /\ IsOk(answer)
  /\ LET new == Following(at)
     IN  IF Len(text) <= at \/ Len(text) <= new
         THEN answer' = None /\ UNCHANGED <<parts, at>>
         ELSE /\ answer' = Ok(<<>>)
              /\ parts' = Append(parts, Slice(text, new, Break(text, new)))
              /\ at' = new
  /\ UNCHANGED <<text, use, rest>>

(* The first place where the separator is, or the whole text.              *)
Split ==
  /\ \/ use.does = "any" /\ \E sep \in Patterns : use' = [does |-> "split", sep |-> sep]
     \/ use.does = "split" /\ IsOk(answer) /\ UNCHANGED use
  /\ LET sep   == use'.sep
         found == {i \in 0..Len(rest) : Holds(rest, sep, i)}
         first == CHOOSE i \in found : \A j \in found : i <= j
     IN  CASE rest = <<>> \/ sep = <<>> -> answer' = None /\ UNCHANGED <<parts, rest>>
           [] rest # <<>> /\ sep # <<>> /\ found # {} ->
                /\ answer' = Ok(<<>>)
                /\ parts' = Append(parts, Slice(rest, 0, first))
                /\ rest' = Drop(rest, first + Len(sep))
           [] OTHER -> /\ answer' = Ok(<<>>)
                       /\ parts' = Append(parts, rest)
                       /\ rest' = <<>>
  /\ UNCHANGED <<text, at>>

(* The last byte, be it a character or not.                                *)
Pop ==
  /\ \/ use.does = "any"
     \/ use.does = "pop" /\ IsOk(answer)
  /\ use' = [does |-> "pop"]
  /\ IF rest = <<>> THEN answer' = None /\ UNCHANGED <<parts, rest>>
     ELSE /\ answer' = Ok(<<>>)
          /\ parts' = Append(parts, <<Last(rest)>>)
          /\ rest' = Front(rest)
  /\ UNCHANGED <<text, at>>

Init ==
  /\ text \in Texts
  /\ use = [does |-> "any"] /\ parts = <<>> /\ rest = text /\ at = 0
  /\ answer = None

Next == Ask \/ SeqInit \/ SeqNext \/ Split \/ Pop

-----------------------------------------------------------------------------
(* What the messages promise, said of the graphemes of the text.           *)
Graphemes == CHOOSE g \in UpTo(MostGraphemes) : Joined(g) = text

FromEnd(index, n) == IF index < 0 THEN n + index ELSE IF index < n THEN index ELSE n

RightSlice(from, to) ==
  IF from > to THEN answer = <<"panic">>
  ELSE answer = Ok(<<Joined(SubSeq(Graphemes, from + 1, to))>>)

(* Nothing is left to trim; of a text of nothing else one byte is kept.    *)
RightTrim(set) ==
  \E i \in 1..Len(text) + 1, j \in 0..Len(text) :
    /\ answer = SubSeq(text, i, j)
    /\ \A k \in DOMAIN text \ (i..j) : text[k] \in set
    /\ IF ToSet(text) \subseteq set THEN text # <<>> => i = j
       ELSE text[i] \notin set /\ text[j] \notin set

RightAnswer(message, type, args) ==
  LET n    == Len(Graphemes)
      byte == IF args[1] < 0 THEN Len(text) + args[1] ELSE args[1]
  IN  CASE message = "len" -> answer = IF type = "binary" THEN Len(text) ELSE n
        [] message = "is\\blank" -> answer = \A i \in 1..n : Graphemes[i] \in {<<b>> : b \in Blanks}
        [] message = "has\\sub" -> answer = \E i, j \in 0..n : Joined(SubSeq(Graphemes, i + 1, j)) = args[1]
        [] message = "has\\suffix" -> answer = IsSuffix(args[1], text)
        [] message = "has\\prefix" ->
             LET skip == IF Len(args) = 2 THEN args[2] ELSE 0
             IN  answer = (skip <= Len(text) /\ IsPrefix(args[1], Drop(text, skip)))
        [] message = "trim" -> RightTrim(IF args = <<>> THEN Blanks ELSE ToSet(args[1]))
        [] message = "at" -> IF byte \in 0..Len(text) - 1 THEN answer = Ok(<<text[byte + 1]>>)
                             ELSE answer = None
        [] message = "slice" ->
             IF Len(args) = 1 THEN RightSlice(0, FromEnd(args[1], n))
             ELSE RightSlice(FromEnd(args[1], n), FromEnd(args[2], n))

(* The parts with the separator between them.                              *)
Rejoined(sep) ==
  FlattenSeq([i \in DOMAIN parts |-> IF i = 1 THEN parts[1] ELSE sep \o parts[i]])

(* Whatever a native is asked, and however often it is sent again to what  *)
(* it answered, nothing of the text is lost, doubled or moved: graphemes   *)
(* are read in order up to the last, the parts of a split with their       *)
(* separators are the text, and so is what was popped behind what is left  *)
(* (src/src/mod/cstrings.c).                                               *)
AnswersAreRight ==
  CASE use.does = "any" -> TRUE
    [] use.does = "ask" -> RightAnswer(use.message, use.type, use.args)
    [] use.does = "seq" ->
         parts = IF IsOk(answer) THEN SubSeq(Graphemes, 1, Len(parts)) ELSE Graphemes
    [] use.does = "split" ->
         /\ \A i \in DOMAIN parts : ~HasSub(parts[i], use.sep)
         /\ \/ parts # <<>> /\ text = Rejoined(use.sep) \o use.sep \o rest
            \/ parts # <<>> /\ text = Rejoined(use.sep) /\ rest = <<>>
            \/ parts = <<>> /\ text = rest
         /\ ~IsOk(answer) => rest = <<>> \/ use.sep = <<>>
    [] use.does = "pop" -> /\ text = rest \o Joined(Reverse(parts))
                           /\ ~IsOk(answer) => rest = <<>>
=============================================================================
