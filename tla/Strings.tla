------------------------------- MODULE Strings -------------------------------
(* Strings of gab (cgab.c, section 4): a text of up to five bytes is packed   *)
(* into the value, a longer one is an object that is looked up in the intern  *)
(* table first.  Messages and binaries are strings under another tag.  Values *)
(* are compared as words, so a program relies on one value per text.          *)
(*                                                                            *)
(* Jobs make strings while a collection may begin at any moment.  The         *)
(* collector owns gc_mtx from the acknowledgment of its signal to the end of  *)
(* the collection; the jobs only ever try that lock.  Which unreachable       *)
(* objects a collection frees is left open (module Heap says it exactly).     *)
EXTENDS Integers, Sequences, SequencesExt, FiniteSets

CONSTANTS
  Jobs,
  Texts,          \* the texts that are made, as sequences of bytes
  MaxHeld,        \* bound: values on the stacks of all jobs
  MaxObjects      \* bound: string objects in the heap

VARIABLES
  objects,        \* the string objects in the heap
  strings,        \* eg->strings, the intern table
  held,           \* per job, the values it holds and the text each stands for
  doing,          \* per job, the string it is making
  collecting,     \* the collector owns gc_mtx
  reported,       \* the jobs that have reported their stacks to it
  raced           \* texts that two jobs looked up before either inserted

textVars == <<objects, strings, held, doing, collecting, reported, raced>>

ShortMost == 5

(****************************************************************************)
(* Decoding UTF-8.  A state is what must follow: nothing, or a number of    *)
(* continuation bytes the first of which is in a range.                     *)
(****************************************************************************)
Accept == [more |-> 0, from |-> 0, to |-> 0]
Reject == [more |-> -1, from |-> 0, to |-> 0]

Lead(byte) ==
  CASE byte < 128 -> Accept
    [] byte \in 194..223 -> [more |-> 1, from |-> 128, to |-> 191]
    [] byte = 224 -> [more |-> 2, from |-> 160, to |-> 191]
    [] byte = 237 -> [more |-> 2, from |-> 128, to |-> 159]
    [] byte \in 225..239 \ {237} -> [more |-> 2, from |-> 128, to |-> 191]
    [] byte = 240 -> [more |-> 3, from |-> 144, to |-> 191]
    [] byte \in 241..243 -> [more |-> 3, from |-> 128, to |-> 191]
    [] byte = 244 -> [more |-> 3, from |-> 128, to |-> 143]
    [] OTHER -> Reject

Decode(state, byte) ==
  IF state = Accept THEN Lead(byte)
  ELSE IF state = Reject \/ byte \notin state.from..state.to THEN Reject
  ELSE IF state.more = 1 THEN Accept
  ELSE [more |-> state.more - 1, from |-> 128, to |-> 191]

(* What a C function reads of some bytes, up to the first zero.             *)
CString(bytes) ==
  LET zero == SelectInSeq(bytes, LAMBDA b : b = 0)
  IN IF zero = 0 THEN bytes ELSE SubSeq(bytes, 1, zero - 1)

(* The code points of what is read, -1 when it is not UTF-8.                *)
Decoded(read) ==
  LET step(seen, b) == LET next == Decode(seen.state, b)
                       IN [state |-> next,
                           count |-> seen.count + (IF next = Accept THEN 1 ELSE 0)]
      end == FoldLeft(step, [state |-> Accept, count |-> 0], read)
  IN IF end.state = Accept THEN end.count ELSE -1

Codepoints(bytes) == Decoded(CString(bytes))

(****************************************************************************)
(* Values                                                                   *)
(****************************************************************************)
Tags == {"string", "message", "binary"}

Pad(bytes) == [i \in 1..ShortMost |-> IF i <= Len(bytes) THEN bytes[i] ELSE 0]

Short(bytes) ==
  [tag |-> "string", short |-> Pad(bytes), spare |-> ShortMost - Len(bytes)]

Object(o) == [tag |-> "string", object |-> o]

IsObject(v) == "object" \in DOMAIN v

StrLen(v) ==
  IF IsObject(v) THEN objects[v.object].len ELSE ShortMost - v.spare

StrData(v) ==
  IF IsObject(v) THEN objects[v.object].data ELSE v.short \o <<v.spare>>

(* What a reader of the value sees.                                         *)
StrBytes(v) == SubSeq(StrData(v), 1, StrLen(v))

StrMbLen(v) ==
  IF IsObject(v) THEN objects[v.object].mbLen ELSE Codepoints(StrData(v))

(* Faulty variant of ShortCat: the length of the first text only.           *)
ShortCatFirst(a, b) ==
  [tag |-> "string", short |-> Pad(StrBytes(a) \o StrBytes(b)),
   spare |-> ShortMost - StrLen(a)]

ShortCat(a, b) ==
  [tag |-> "string", short |-> Pad(StrBytes(a) \o StrBytes(b)),
   spare |-> ShortMost - (StrLen(a) + StrLen(b))]

(****************************************************************************)
(* A job makes a string.                                                    *)
(****************************************************************************)
Idle == [at |-> "idle"]

(* A call drops its arguments from the stack and pushes its result.         *)
Reply(j, args, v, text) ==
  held' = [held EXCEPT ![j] = (@ \ args) \cup {[value |-> v, text |-> text]}]

Given(j, tag) == {h \in held[j] : h.value.tag = tag}

ObjectsOf(j) == {h.value.object : h \in {g \in held[j] : IsObject(g.value)}}

InFlight == {doing[j].object : j \in {i \in Jobs : doing[i].at = "insert"}}

Copies(text) ==
  {o \in DOMAIN objects : objects[o].data = text /\
     (o \in strings \cup InFlight \/ \E j \in Jobs : o \in ObjectsOf(j))}

Begin(j, args, text) ==
  doing' = [doing EXCEPT ![j] = [at |-> "look", text |-> text, args |-> args]]

(* gab_nstring: a short text is a value at once.                            *)
NString(j) ==
  /\ doing[j] = Idle
  /\ FoldSet(LAMBDA i, n : n + Cardinality(held[i]), 0, Jobs) < MaxHeld
  /\ \E text \in Texts :
       \/ /\ Len(text) <= ShortMost
          /\ Reply(j, {}, Short(text), text)
          /\ UNCHANGED doing
       \/ /\ Len(text) > ShortMost
          /\ Begin(j, {}, text)
          /\ UNCHANGED held
  /\ UNCHANGED <<objects, strings, collecting, reported, raced>>

(* Faulty variant of FitsShort: off by one, so that a text of five bytes    *)
(* becomes an object.                                                       *)
FitsShortLess(n) == n < ShortMost

FitsShort(n) == n <= ShortMost

(* gab_strcat: with an empty text it is the other one.                      *)
StrCat(j) ==
  /\ doing[j] = Idle
  /\ \E a, b \in Given(j, "string") :
       LET n == StrLen(a.value) + StrLen(b.value)
           text == a.text \o b.text
           reply(v) == Reply(j, {a, b}, v, text) /\ UNCHANGED doing
       IN /\ text \in Texts
          /\ CASE StrLen(a.value) = 0 -> reply(b.value)
               [] StrLen(b.value) = 0 -> reply(a.value)
               [] FitsShort(n) -> reply(ShortCat(a.value, b.value))
               [] OTHER -> Begin(j, {a, b}, text) /\ UNCHANGED held
  /\ UNCHANGED <<objects, strings, collecting, reported, raced>>

(* The look-up under the lock; a busy lock is tried again.                  *)
Look(j) ==
  /\ doing[j].at = "look" /\ ~collecting
  /\ LET text == doing[j].text
         found == {o \in strings : objects[o].data = text}
     IN \/ \E o \in found : Reply(j, doing[j].args, Object(o), text)
                            /\ doing' = [doing EXCEPT ![j] = Idle]
                            /\ UNCHANGED raced
        \/ /\ found = {}
           /\ doing' = [doing EXCEPT ![j].at = "create"]
           /\ raced' = IF \E i \in Jobs \ {j} : doing[i].at \in {"create", "insert"}
                                                 /\ doing[i].text = text
                       THEN raced \cup {text} ELSE raced
           /\ UNCHANGED held
  /\ UNCHANGED <<objects, strings, collecting, reported>>

(* The object is made without the lock, since that may raise a collection.  *)
Create(j) ==
  /\ doing[j].at = "create"
  /\ \E o \in 1..MaxObjects \ DOMAIN objects :
       LET text == doing[j].text
           new == [data |-> text, len |-> Len(text), mbLen |-> Codepoints(text)]
       IN /\ \A p \in 1..(o - 1) : p \in DOMAIN objects
          /\ objects' = [q \in DOMAIN objects \cup {o} |-> IF q = o THEN new ELSE objects[q]]
          /\ doing' = [doing EXCEPT ![j] = [at |-> "insert", text |-> text, object |-> o,
                                        args |-> doing[j].args]]
  /\ UNCHANGED <<strings, held, collecting, reported, raced>>

(* It is put in the table without a second look-up; when the lock is busy   *)
(* the object is forgotten and everything begins again.                     *)
Insert(j) ==
  /\ doing[j].at = "insert"
  /\ \/ /\ ~collecting
        /\ strings' = strings \cup {doing[j].object}
        /\ Reply(j, doing[j].args, Object(doing[j].object), doing[j].text)
        /\ doing' = [doing EXCEPT ![j] = Idle]
     \/ /\ collecting
        /\ Begin(j, doing[j].args, doing[j].text)
        /\ UNCHANGED <<strings, held>>
  /\ UNCHANGED <<objects, collecting, reported, raced>>

(****************************************************************************)
(* Conversions put another tag on the same word.  A binary becomes a string *)
(* only if it is UTF-8.                                                     *)
(****************************************************************************)
Retag(v, tag) == [v EXCEPT !.tag = tag]

Convert(j) ==
  /\ doing[j] = Idle
  /\ \E h \in held[j], tag \in Tags :
       /\ h.value.tag = "string" \/ tag = "string"
       /\ h.value.tag # tag
       /\ h.value.tag = "binary" => StrMbLen(h.value) # -1
       /\ Reply(j, {h}, Retag(h.value, tag), h.text)
  /\ UNCHANGED <<objects, strings, doing, collecting, reported, raced>>

Drop(j) ==
  /\ doing[j] = Idle
  /\ \E h \in held[j] : held' = [held EXCEPT ![j] = @ \ {h}]
  /\ UNCHANGED <<objects, strings, doing, collecting, reported, raced>>

(****************************************************************************)
(* A collection                                                             *)
(****************************************************************************)
StartCollection ==
  /\ ~collecting /\ collecting' = TRUE /\ reported' = {}
  /\ UNCHANGED <<objects, strings, held, doing, raced>>

(* gab_yield at the head of the loops, and in the creation of an object     *)
(* whose decrement no longer fits the buffer.                               *)
Report(j) ==
  /\ collecting /\ j \notin reported /\ doing[j].at # "create"
  /\ reported' = reported \cup {j}
  /\ UNCHANGED <<objects, strings, held, doing, collecting, raced>>

Unreachable == DOMAIN objects \ (InFlight \cup UNION {ObjectsOf(j) : j \in Jobs})

(* A string that is destroyed leaves the table (__gab_objdestroy).          *)
EndCollection ==
  /\ collecting /\ reported = Jobs
  /\ \E dead \in SUBSET Unreachable :
       /\ objects' = [o \in DOMAIN objects \ dead |-> objects[o]]
       /\ strings' = strings \ dead
       /\ raced' = {t \in raced : Cardinality(Copies(t) \ dead) > 1
                      \/ \E j \in Jobs : doing[j].at \in {"create", "insert"}
                                         /\ doing[j].text = t}
  /\ collecting' = FALSE /\ reported' = {}
  /\ UNCHANGED <<held, doing>>

Init ==
  /\ objects = <<>> /\ strings = {} /\ held = [j \in Jobs |-> {}]
  /\ doing = [j \in Jobs |-> Idle]
  /\ collecting = FALSE /\ reported = {} /\ raced = {}

Next ==
  \/ \E j \in Jobs : NString(j) \/ StrCat(j) \/ Look(j) \/ Create(j) \/ Insert(j)
                     \/ Convert(j) \/ Drop(j) \/ Report(j)
  \/ StartCollection
  \/ EndCollection

(****************************************************************************)
(* Properties                                                               *)
(****************************************************************************)
Held == UNION {held[j] : j \in Jobs}

(* Equal texts are the same value (gab_valeq compares words), whichever way *)
(* and by whichever job they were made, and whatever was collected between. *)
(* The only exception is the race that gab_tnstring admits to: two jobs     *)
(* that both look a text up before either has inserted it.                  *)
EqualIsSame ==
  \A x, y \in Held :
     x.text = y.text /\ x.value.tag = y.value.tag /\ x.text \notin raced
       => x.value = y.value

(* A value reads as the text it was made for: its bytes (gab_strdata,       *)
(* gab_strlen) and its number of characters (gab_strmblen).                 *)
TextIsExact ==
  \A h \in Held :
     StrBytes(h.value) = h.text /\ StrMbLen(h.value) = Codepoints(h.text)
=============================================================================
