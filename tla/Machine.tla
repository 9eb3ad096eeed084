------------------------------- MODULE Machine ------------------------------
(* The virtual machine of src/src/cgab/cgab.c, running one fiber.  The     *)
(* stack holds values and the marker that opens each tuple: how many values*)
(* its outer tuple has and, once a block runs on the tuple, that block and *)
(* the frame to return to.  Instructions rewrite themselves: a trim and a  *)
(* return after the lengths they meet, a send after its receiver's type.   *)
EXTENDS Compiler

VARIABLES
  stack,    \* values and markers
  hv,       \* the values of the tuple on top (HV)
  fb,       \* the place of the frame's first local
  ip,       \* the next instruction: prototype and place
  code,     \* the prototypes
  messages, \* the implementations of each message, as [type, spec]
  epoch,    \* messages_epoch
  outcome   \* what came of the program so far

machine == <<stack, hv, fb, ip, code, messages, epoch, outcome>>

Letters == <<"a", "b", "c", "d", "e", "f", "g", "h", "i", "j", "k", "l", "m",
             "n", "o", "p", "q", "r", "s", "t", "u", "v", "w", "x", "y", "z">>

(* The low bits of a type: of a pointer, of the first letter of a name that*)
(* fits a word, or of gab_cundefined.                                      *)
SendHash(t) ==
  CASE t = General -> 1
    [] IsMsg(t) /\ Len(t.msg) \in 1..5 ->
         (CHOOSE i \in DOMAIN Letters : Letters[i] = SubSeq(t.msg, 1, 1)) % 4
    [] OTHER -> 0

Specs(m) == IF m \in DOMAIN messages THEN messages[m] ELSE <<>>

SpecFor(m, t) == {Specs(m)[i].spec : i \in {j \in DOMAIN Specs(m) : Specs(m)[j].type = t}}

(* What implements a message for a receiver, as a set of at most one: by   *)
(* its type, its kind, in general, or as a property of a record.           *)
Impl(m, r) ==
  LET byType == IF IsMsg(r) \/ IsRec(r) THEN SpecFor(m, Type(r)) ELSE {}
      byKind == SpecFor(m, Kind(r))
      at     == {[index |-> i] : i \in {j \in DOMAIN r.keys : r.keys[j] = Msg(m)}}
  IN  CASE byType # {} -> byType
        [] byType = {} /\ byKind # {} -> byKind
        [] byType = {} /\ byKind = {} /\ SpecFor(m, General) # {} ->
             SpecFor(m, General)
        [] OTHER -> IF IsRec(r) THEN at ELSE {}

(* The implementations gab starts with, and those of the messages module.  *)
Messages0 ==
  LET Is(type, spec) == [type |-> type, spec |-> spec]
      On(kind, op)   == Is(Str("gab\\" \o kind), Prim(op))
      To(name, op)   == Is(Msg(name), Prim(op))
      Numbers == ("-" :> "SUB") @@ ("<" :> "LT") @@ ("<=" :> "LTE") @@
                 (">" :> "GT") @@ (">=" :> "GTE") @@ ("~" :> "BIN")
  IN  [m \in DOMAIN Numbers |-> <<On("number", Numbers[m])>>] @@
      "+"  :> <<On("number", "ADD"), On("string", "CONCAT")>> @@
      "*"  :> <<On("number", "MUL"), On("record", "SPLATLIST"), On("shape", "SPLATSHAPE")>> @@
      "**" :> <<On("record", "SPLATDICT")>> @@
      "cons" :> <<On("record", "CONS_RECORD"), Is(General, Prim("CONS"))>> @@
      "make" :> <<On("shape", "MAKE_SHAPE"), To("gab\\list", "LIST"),
                  To("gab\\record", "RECORD"), To("gab\\shape", "SHAPE")>> @@
      ""   :> <<On("block", "CALL_BLOCK")>> @@
      "==" :> <<Is(General, Prim("EQ"))>> @@
      "&"  :> <<To("false", "LND"), To("true", "LND")>> @@
      "|"  :> <<To("false", "LOR"), To("true", "LOR")>> @@
      "!"  :> <<To("false", "LIN"), To("true", "LIN")>> @@
      "?"  :> [i \in DOMAIN Kinds |-> Is(Str(Kinds[i]), Prim("TYPE"))] @@
      "def"     :> <<Is(Str("gab\\message"), Native("def"))>> @@
      "defcase" :> <<Is(Str("gab\\message"), Native("defcase"))>>

(* gab_ndef, for one implementation.                                       *)
Define(table, m, t, spec) ==
  LET specs == IF m \in DOMAIN table THEN table[m] ELSE <<>>
      at    == {i \in DOMAIN specs : specs[i].type = t}
      entry == [type |-> t, spec |-> spec]
  IN  (m :> IF at = {} THEN Append(specs, entry)
            ELSE [i \in DOMAIN specs |-> IF i \in at THEN entry ELSE specs[i]])
      @@ table

Marker(have) == [have |-> have, delta |-> 0, blk |-> <<>>, ret |-> <<>>]
IsMarker(x)  == "have" \in DOMAIN x

Base     == fb - 1                          \* the marker below the frame
Block    == stack[Base].blk[1]
Values(n) == SubSeq(stack, Len(stack) - n + 1, Len(stack))
Below(n)  == SubSeq(stack, 1, Len(stack) - n)

I         == code[ip.p].code[ip.at]
Runs(ops) == outcome.status = "running" /\ I.op \in ops
Advance   == ip' = [ip EXCEPT !.at = @ + 1]
Rewrite(instr) == code' = [code EXCEPT ![ip.p].code[ip.at] = instr]
Panic     == outcome' = [status |-> "panic", values |-> <<>>]

(* __gab_fibsetup: a send of the empty message, made by no block.          *)
VirtualFrame ==
  [code |-> <<Instr("SEND", <<"", TRUE, NoCache>>), Instr("RETURN", <<>>)>>,
   upvs |-> <<>>]

(* gab_fiber, running the last prototype.                                  *)
Start(protos) ==
  /\ stack' = <<Marker(0), Blk(Len(protos), <<>>)>>
  /\ hv' = 1
  /\ fb' = 2
  /\ ip' = [p |-> 1, at |-> 1]
  /\ code' = protos
  /\ outcome' = [status |-> "running", values |-> <<>>]
  /\ UNCHANGED <<messages, epoch>>

-----------------------------------------------------------------------------
(* Tuples, locals and constants                                            *)

Push(values) ==
  /\ stack' = stack \o [i \in 1..I.tup |-> Marker(IF i = 1 THEN hv ELSE 0)] \o values
  /\ hv' = (IF I.tup > 0 THEN 0 ELSE hv) + Len(values)
  /\ Advance
  /\ UNCHANGED <<fb, code, messages, epoch, outcome>>

ConstantOps ==
  {"TUPLE", "NTUPLE", "CONSTANT", "NCONSTANT", "TUPLE_CONSTANT",
   "TUPLE_NCONSTANT", "NTUPLE_CONSTANT", "NTUPLE_NCONSTANT"}
LocalOps ==
  {"LOAD_LOCAL", "NLOAD_LOCAL", "TUPLE_LOAD_LOCAL", "TUPLE_NLOAD_LOCAL",
   "NTUPLE_LOAD_LOCAL", "NTUPLE_NLOAD_LOCAL"}

LoadConstants == Runs(ConstantOps) /\ Push(I.args)

LoadLocals ==
  Runs(LocalOps) /\ Push([i \in DOMAIN I.args |-> stack[fb + I.args[i]]])

LoadUpvalues ==
  /\ Runs({"LOAD_UPVALUE", "NLOAD_UPVALUE"})
  /\ Push([i \in DOMAIN I.args |-> Block.upvs[I.args[i] + 1]])

MakeBlock ==
  /\ Runs({"BLOCK"})
  /\ LET data == code[I.args[1]].upvs
     IN  Push(<<Blk(I.args[1],
                    [i \in DOMAIN data |->
                       IF data[i].local THEN stack[fb + data[i].index]
                       ELSE Block.upvs[data[i].index + 1]])>>)

(* Store the values from the top down, each in its local; all are popped,  *)
(* but the last one when the instruction ends in a store.                  *)
Store ==
  /\ Runs({"STORE_LOCAL", "POPSTORE_LOCAL", "NPOPSTORE_LOCAL", "NPOPSTORE_STORE_LOCAL"})
  /\ LET n      == Len(I.args)
         pops   == IF I.op \in {"STORE_LOCAL", "NPOPSTORE_STORE_LOCAL"} THEN n - 1 ELSE n
         stored == FoldLeft(LAMBDA s, i : [s EXCEPT ![fb + I.args[i]] = s[Len(s) + 1 - i]],
                            stack, [i \in 1..n |-> i])
     IN  /\ stack' = SubSeq(stored, 1, Len(stored) - pops)
         /\ hv' = hv - pops
  /\ Advance
  /\ UNCHANGED <<fb, code, messages, epoch, outcome>>

Discard ==
  /\ Runs({"POP", "POP_N"})
  /\ LET n == IF I.op = "POP" THEN 1 ELSE I.args[1]
     IN  stack' = Below(n) /\ hv' = hv - n
  /\ Advance
  /\ UNCHANGED <<fb, code, messages, epoch, outcome>>

(* A trim of a difference below ten becomes one for that difference.       *)
TrimKind(want) ==
  CASE hv = want -> "TRIM_EXACTLY" [] hv > want -> "TRIM_DOWN" [] OTHER -> "TRIM_UP"

TrimFits ==
  CASE I.op = "TRIM_EXACTLY" -> hv = I.args[1]
    [] I.op = "TRIM_DOWN"    -> hv - I.args[2] = I.args[1]
    [] I.op = "TRIM_UP"      -> hv + I.args[2] = I.args[1]
    [] OTHER -> FALSE

Distance(want) == IF hv > want THEN hv - want ELSE want - hv
Small(want)    == IF hv = want THEN want < 10 ELSE Distance(want) < 10

Trimmed(want) ==
  /\ stack' = Below(hv) \o [i \in 1..want |-> IF i <= hv THEN Values(hv)[i] ELSE Nil]
  /\ hv' = want
  /\ Advance
  /\ UNCHANGED <<fb, code, messages, epoch, outcome>>

SpecializeTrim ==
  /\ Runs({"TRIM", "TRIM_EXACTLY", "TRIM_DOWN", "TRIM_UP"})
  /\ ~TrimFits
  /\ Small(I.args[1])
  /\ Rewrite(Instr(TrimKind(I.args[1]), <<I.args[1], Distance(I.args[1])>>))
  /\ UNCHANGED <<stack, hv, fb, ip, messages, epoch, outcome>>

Trim ==
  /\ Runs({"TRIM", "TRIM_EXACTLY", "TRIM_DOWN", "TRIM_UP"})
  /\ TrimFits \/ ~Small(I.args[1])
  /\ Trimmed(I.args[1])

(* Collect what is between the first and the last values of a tuple.       *)
Pack ==
  /\ Runs({"PACK_LIST", "PACK_DICT"})
  /\ LET want   == I.args[1] + I.args[2]
         padded == Values(hv) \o Nils(want - hv)
         len    == Len(padded) - want
         middle == SubSeq(padded, I.args[1] + 1, I.args[1] + len)
     IN  /\ stack' = Below(hv) \o SubSeq(padded, 1, I.args[1])
                     \o <<IF I.op = "PACK_LIST" THEN List(middle) ELSE Record(middle)>>
                     \o SubSeq(padded, I.args[1] + len + 1, Len(padded))
         /\ hv' = want + 1
  /\ Advance
  /\ UNCHANGED <<fb, code, messages, epoch, outcome>>

-----------------------------------------------------------------------------
(* Sends                                                                   *)

Message  == I.args[1]
IsTail   == I.args[2]
Cache    == I.args[3]
Cached   == Cache.slots[0]
Opening  == Len(stack) - hv                 \* the marker of the tuple on top

(* The receiver is the first value.  A cached send looks for it below the  *)
(* count of an empty tuple too, and there is the count, which reads as 0.  *)
Receiver == IF hv = 0 THEN Num(0) ELSE stack[Opening + 1]

(* Faulty variant: a cache is good once it is filled.                      *)
FilledOnce == Cache.epoch # 0

SameEpoch == Cache.epoch = epoch

SameType == Cached[1] = Type(Receiver)
Matched == Cache.slots[SendHash(Type(Receiver))]

Checked ==
  {"SEND_NATIVE", "SEND_BLOCK", "TAILSEND_BLOCK", "CALL_BLOCK", "SPLATLIST",
   "SPLATDICT", "EQ", "TYPE", "CONS", "SEND_CONSTANT"}
Makers == {"LIST", "RECORD", "SHAPE", "MAKE_SHAPE"}
MatchOps  == {"MATCHSEND_BLOCK", "MATCHTAILSEND_BLOCK"}
CachedOps == Checked \cup MatchOps \cup Makers \cup UnaryOps \cup BinaryOps \cup
  {"TAIL_CALL_BLOCK", "SEND_PROPERTY", "SPLATSHAPE", "CONS_RECORD"}

(* What a specialized send checks before it goes ahead.                    *)
GuardHolds ==
  CASE I.op \in Checked            -> SameEpoch /\ SameType
    [] I.op \in MatchOps           -> /\ SameEpoch
                                      /\ Matched # <<>>
                                      /\ Matched[1] = Type(Receiver)
    [] I.op = "TAIL_CALL_BLOCK"    -> IsBlk(Receiver)
    [] I.op \in UnaryOps \cup BinaryOps -> SameEpoch /\ Fits(I.op, Receiver)
    [] I.op = "SPLATSHAPE"         -> SameEpoch /\ IsShp(Receiver)
    [] I.op = "CONS_RECORD"        -> SameEpoch /\ IsRec(Receiver)
    [] I.op = "SEND_PROPERTY"      -> IsRec(Receiver) /\ SameType
    [] I.op \in Makers             -> SameType

Sends(ops) == Runs(ops) /\ GuardHolds

(* Fill the slots with two to four blocks that implement the message, each *)
(* in the slot of its type.  It fails when a slot is taken, and keeps what *)
(* it has filled by then.                                                  *)
LocalMatch(specs, slots) ==
  LET Fill(f, entry) ==
        LET h == SendHash(entry.type)
        IN  IF f.ok /\ IsBlk(entry.spec) /\ f.slots[h] = <<>>
            THEN [f EXCEPT !.slots[h] = <<entry.type, entry.spec>>]
            ELSE [f EXCEPT !.ok = FALSE]
  IN  FoldLeft(Fill, [ok |-> Len(specs) \in 2..4, slots |-> slots], specs)

SendOp(spec) ==
  CASE IsPrim(spec)   -> IF spec.prim = "CALL_BLOCK" /\ IsTail THEN "TAIL_CALL_BLOCK"
                         ELSE spec.prim
    [] IsBlk(spec)    -> IF IsTail THEN "TAILSEND_BLOCK" ELSE "SEND_BLOCK"
    [] IsNative(spec) -> "SEND_NATIVE"
    [] DOMAIN spec = {"index"} -> "SEND_PROPERTY"
    [] OTHER          -> "SEND_CONSTANT"

(* Look the message up, fill the cache and specialize.  A send to nothing  *)
(* goes to nil.  A binary operation that finds its cache stale has padded  *)
(* its operands and lost the count: no program here sends it fewer than 2. *)
Resolve ==
  /\ Runs(CachedOps \cup {"SEND"})
  /\ I.op # "SEND" => ~GuardHolds
  /\ I.op \in BinaryOps \cup {"EQ"} => hv > 1
  /\ LET padded == IF hv = 0 THEN Append(stack, Nil) ELSE stack
         r      == padded[Opening + 1]
         local  == IF stack[Base].blk = <<>> THEN [ok |-> FALSE, slots |-> Cache.slots]
                   ELSE LocalMatch(Specs(Message), Cache.slots)
         Becomes(op, when, slots) ==
           Rewrite([I EXCEPT !.op = op,
                             !.args[3] = [epoch |-> when, slots |-> slots]])
     IN  /\ stack' = padded
         /\ hv' = Len(padded) - Opening
         /\ CASE local.ok ->
                   /\ Becomes(IF IsTail THEN "MATCHTAILSEND_BLOCK" ELSE "MATCHSEND_BLOCK",
                              epoch, local.slots)
                   /\ UNCHANGED outcome
              [] ~local.ok /\ Impl(Message, r) = {} ->
                   /\ Becomes(I.op, Cache.epoch, local.slots)
                   /\ Panic
              [] OTHER ->
                   \E spec \in Impl(Message, r) :
                     /\ Becomes(SendOp(spec), epoch,
                                [local.slots EXCEPT ![0] = <<Type(r), spec>>])
                     /\ UNCHANGED outcome
  /\ UNCHANGED <<fb, ip, messages, epoch>>

(* Run a block on the tuple: its marker becomes the frame's.               *)
Call(blk) ==
  /\ stack' = [stack EXCEPT ![Opening] =
                 [@ EXCEPT !.blk = <<blk>>, !.delta = Opening + 1 - fb,
                           !.ret = << [ip EXCEPT !.at = @ + 1] >>]]
  /\ fb' = Opening + 1
  /\ ip' = [p |-> blk.proto, at |-> 1]
  /\ UNCHANGED <<hv, code, messages, epoch, outcome>>

(* Run it in place of the one that sends.                                  *)
TailCall(blk) ==
  /\ stack' = [SubSeq(stack, 1, Base) EXCEPT ![Base].blk = <<blk>>] \o Values(hv)
  /\ ip' = [p |-> blk.proto, at |-> 1]
  /\ UNCHANGED <<hv, fb, code, messages, epoch, outcome>>

SendBlock == Sends({"SEND_BLOCK"}) /\ Call(Cached[2])
TailSendBlock == Sends({"TAILSEND_BLOCK"}) /\ TailCall(Cached[2])
MatchSendBlock == Sends({"MATCHSEND_BLOCK"}) /\ Call(Matched[2])
MatchTailSendBlock == Sends({"MATCHTAILSEND_BLOCK"}) /\ TailCall(Matched[2])
CallBlock == Sends({"CALL_BLOCK"}) /\ Call(Receiver)
TailCallBlock == Sends({"TAIL_CALL_BLOCK"}) /\ TailCall(Receiver)

(* Faulty variant: the count of the outer tuple is forgotten.              *)
ReplyAlone(values) ==
  /\ stack' = Below(hv + 1) \o values
  /\ hv' = Len(values)
  /\ Advance
  /\ UNCHANGED <<fb, code, outcome>>

(* The values take the place of the tuple that was sent.                   *)
Reply(values) ==
  /\ stack' = Below(hv + 1) \o values
  /\ hv' = stack[Opening].have + Len(values)
  /\ Advance
  /\ UNCHANGED <<fb, code, outcome>>

Answer(values) == Reply(values) /\ UNCHANGED <<messages, epoch>>

(* The operands of a binary operation, padded with nil.                    *)
Operand(i) == IF hv < i THEN Nil ELSE Values(hv)[i]

SendBinary ==
  /\ Sends(BinaryOps)
  /\ IF Fits(I.op, Operand(2)) THEN Answer(<<Compute(I.op, Receiver, Operand(2))>>)
     ELSE Panic /\ UNCHANGED <<stack, hv, fb, ip, code, messages, epoch>>

SendUnary    == Sends(UnaryOps) /\ Answer(<<Compute(I.op, Receiver, Receiver)>>)
SendEq       == Sends({"EQ"}) /\ Answer(<<Bool(Operand(1) = Operand(2))>>)
SendType     == Sends({"TYPE"}) /\ Answer(<<Type(Receiver)>>)
SendConstant == Sends({"SEND_CONSTANT"}) /\ Answer(<<Cached[2]>>)
SendProperty == Sends({"SEND_PROPERTY"}) /\ Answer(<<Receiver.vals[Cached[2].index]>>)
SendSplat    == Sends({"SPLATLIST"}) /\ Answer(Receiver.vals)
SendSplatShape == Sends({"SPLATSHAPE"}) /\ Answer(Receiver.shape)

(* The keys and the values of a record, of which the count takes half.     *)
SendSplatDict ==
  /\ Sends({"SPLATDICT"})
  /\ LET n == Len(Receiver.keys)
     IN  /\ stack' = Below(hv + 1) \o
                     [i \in 1..2 * n |-> IF i % 2 = 1 THEN Receiver.keys[(i + 1) \div 2]
                                        ELSE Receiver.vals[i \div 2]]
         /\ hv' = stack[Opening].have + n
  /\ Advance
  /\ UNCHANGED <<fb, code, messages, epoch, outcome>>

(* With one argument or none a cons is skipped, and its tuple stays open.  *)
SendCons ==
  /\ Sends({"CONS", "CONS_RECORD"})
  /\ IF hv < 2
     THEN /\ hv' = stack[Opening].have + 1
          /\ Advance
          /\ UNCHANGED <<stack, fb, code, messages, epoch, outcome>>
     ELSE Answer(<<List(IF I.op = "CONS" THEN SubSeq(Values(hv), 1, 2)
                        ELSE Append(Receiver.vals, Operand(2)))>>)

(* A shape makes records of as many values as it has keys.                 *)
SendMake ==
  /\ Sends(Makers)
  /\ I.op = "MAKE_SHAPE" => hv - 1 = Len(Receiver.shape)
  /\ LET given == Values(hv - 1)
     IN  Answer(<<CASE I.op = "LIST"   -> List(given)
                    [] I.op = "RECORD" -> Record(given \o (IF hv % 2 = 0 THEN <<Nil>> ELSE <<>>))
                    [] I.op = "SHAPE"  -> Shape(given)
                    [] I.op = "MAKE_SHAPE" -> Rec(Receiver.shape, given)>>)

(* The natives def and defcase: each type gets an implementation, each in  *)
(* an epoch of its own.                                                    *)
SendNative ==
  /\ Sends({"SEND_NATIVE"})
  /\ LET args  == Values(hv)
         cases == Operand(2)
         Defines(types, Spec(_)) ==
           /\ messages' = FoldLeft(LAMBDA t, i : Define(t, args[1].msg, types[i], Spec(i)),
                                   messages, [i \in DOMAIN types |-> i])
           /\ epoch' = epoch + Len(types)
           /\ Reply(<<Nil>>)
     IN  CASE Cached[2].native = "def" ->
                Defines(IF hv <= 2 THEN <<General>> ELSE SubSeq(args, 2, hv - 1),
                        LAMBDA i : args[hv])
           [] Cached[2].native = "defcase" /\ IsRec(cases) ->
                Defines(cases.keys, LAMBDA i : cases.vals[i])
           [] OTHER -> Panic /\ UNCHANGED <<stack, hv, fb, ip, code, messages, epoch>>

-----------------------------------------------------------------------------
(* Returns.  A return of one to nine values becomes one for that number.   *)

SpecializeReturn ==
  /\ Runs({"RETURN", "RETURN_N"})
  /\ hv \in 1..9
  /\ I.op = "RETURN_N" => I.args[1] # hv
  /\ Rewrite(Instr("RETURN_N", <<hv>>))
  /\ UNCHANGED <<stack, hv, fb, ip, messages, epoch, outcome>>

Return ==
  /\ Runs({"RETURN", "RETURN_N"})
  /\ hv \in 1..9 => I.op = "RETURN_N" /\ I.args[1] = hv
  /\ LET frame == stack[Base]
     IN  /\ stack' = SubSeq(stack, 1, Base - 1) \o Values(hv)
         /\ hv' = frame.have + hv
         /\ IF frame.delta = 0
            THEN /\ outcome' = [status |-> "ok", values |-> Values(hv)]
                 /\ UNCHANGED <<fb, ip>>
            ELSE /\ fb' = fb - frame.delta
                 /\ ip' = frame.ret[1]
                 /\ UNCHANGED outcome
  /\ UNCHANGED <<code, messages, epoch>>

Step ==
  \/ LoadConstants \/ LoadLocals \/ LoadUpvalues \/ MakeBlock \/ Store \/ Discard
  \/ SpecializeTrim \/ Trim \/ Pack
  \/ Resolve
  \/ SendBlock \/ TailSendBlock \/ MatchSendBlock \/ MatchTailSendBlock
  \/ CallBlock \/ TailCallBlock
  \/ SendBinary \/ SendUnary \/ SendEq \/ SendType \/ SendConstant \/ SendProperty
  \/ SendSplat \/ SendSplatShape \/ SendSplatDict \/ SendCons \/ SendMake \/ SendNative
  \/ SpecializeReturn \/ Return
=============================================================================
