---------------------------- MODULE StringsProofs ----------------------------
(* Equal texts are one value, and a value reads as its text, for any number   *)
(* of jobs, texts and collections.                                            *)
EXTENDS Strings, FiniteSetTheorems, SequenceTheorems, WellFoundedInduction, NaturalsInduction, TLAPS

Spec == Init /\ [][Next]_textVars

(* Texts are bytes.                                                           *)
Bytes == Nat
TextsAreBytes == Texts \subseteq Seq(Bytes)

-----------------------------------------------------------------------------
(* Short texts                                                                *)

(* The least of a set of naturals.                                            *)
LEMMA LeastIs ==
  ASSUME NEW S \in SUBSET Nat, NEW k \in S, \A i \in S : k <= i
  PROVE  Min(S) = k
  <1>1. k \in Nat
    OBVIOUS
  <1>2. \A x \in S : (\A y \in S : x <= y) => x = k
    BY <1>1
  <1>3. Min(S) \in S /\ \A y \in S : Min(S) <= y
    BY Zenon DEF Min
  <1>4. QED
    BY <1>2, <1>3

(* A set of naturals that is not empty has a least member.                    *)
LEMMA HasLeast ==
  ASSUME NEW S \in SUBSET Nat, S # {}
  PROVE  \E k \in S : \A i \in S : k <= i
  <1>1. \E x \in S : \A y \in S : ~ (<<y, x>> \in OpToRel(<, Nat))
    BY WFMin, NatLessThanWellFounded, Zenon
  <1>2. ASSUME NEW x \in Nat, NEW y \in Nat, ~ (<<y, x>> \in OpToRel(<, Nat))
        PROVE  x <= y
    <2>1. <<y, x>> \in Nat \X Nat
      OBVIOUS
    <2>2. ~ (y < x)
      BY <2>1, <1>2, Zenon DEF OpToRel
    <2>3. QED
      BY <2>2
  <1>3. QED
    BY <1>1, <1>2, Zenon

(* Lengths that fit.                                                          *)
LEMMA UpToFive ==
  ASSUME NEW l \in Nat, l <= 5
  PROVE  l \in 0..5
  OBVIOUS

(* What is read of some bytes ends before the first zero.                     *)
LEMMA CStringIs ==
  ASSUME NEW bytes \in Seq(Bytes)
  PROVE  /\ (\A i \in 1..Len(bytes) : bytes[i] # 0) => CString(bytes) = bytes
         /\ \A k \in 1..Len(bytes) :
              bytes[k] = 0 /\ (\A i \in 1..(k - 1) : bytes[i] # 0)
                => CString(bytes) = SubSeq(bytes, 1, k - 1)
  <1> DEFINE I == {i \in 1..Len(bytes) : bytes[i] = 0}
             zero == IF I # {} THEN Min(I) ELSE 0
  <1>1. CString(bytes) = IF zero = 0 THEN bytes ELSE SubSeq(bytes, 1, zero - 1)
    BY DEF CString, SelectInSeq
  <1>2. ASSUME \A i \in 1..Len(bytes) : bytes[i] # 0 PROVE CString(bytes) = bytes
    <2>1. zero = 0
      BY <1>2
    <2> HIDE DEF zero
    <2>2. QED
      BY <1>1, <2>1
  <1>3. ASSUME NEW k \in 1..Len(bytes), bytes[k] = 0, \A i \in 1..(k - 1) : bytes[i] # 0
        PROVE  CString(bytes) = SubSeq(bytes, 1, k - 1)
    <2>1. I \in SUBSET Nat /\ k \in I /\ \A i \in I : k <= i
      BY <1>3
    <2>2. Min(I) = k
      BY <2>1, LeastIs
    <2>3. zero = k /\ zero # 0
      BY <2>1, <2>2
    <2> HIDE DEF zero
    <2>4. QED
      BY <1>1, <2>3
  <1>4. QED
    BY <1>2, <1>3

(* A sequence up to some place.                                               *)
LEMMA SubSeqIs ==
  ASSUME NEW S, NEW s \in Seq(S), NEW m \in Nat, m <= Len(s)
  PROVE  /\ SubSeq(s, 1, m) \in Seq(S) /\ Len(SubSeq(s, 1, m)) = m
         /\ \A i \in 1..m : SubSeq(s, 1, m)[i] = s[i]
  <1>1. \A i \in 1..m : s[i] \in S
    OBVIOUS
  <1>2. QED
    BY <1>1

(* A sequence with one element more.                                         *)
LEMMA ConcatIs ==
  ASSUME NEW S, NEW s \in Seq(S), NEW e \in S
  PROVE  /\ s \o <<e>> \in Seq(S) /\ Len(s \o <<e>>) = Len(s) + 1
         /\ \A i \in 1..Len(s) : (s \o <<e>>)[i] = s[i]
         /\ (s \o <<e>>)[Len(s) + 1] = e
  <1>1. <<e>> \in Seq(S) /\ Len(<<e>>) = 1 /\ <<e>>[1] = e
    OBVIOUS
  <1>2. QED
    BY <1>1

(* The bytes of a short value: the text, zeros, and what is left of five.     *)
ShortData(text) == Pad(text) \o <<5 - Len(text)>>

(* The text is at its head, and a zero follows it.                            *)
LEMMA ShortDataIs ==
  ASSUME NEW text \in Seq(Bytes), Len(text) <= 5
  PROVE  /\ ShortData(text) \in Seq(Bytes) /\ Len(ShortData(text)) = 6
         /\ \A i \in 1..Len(text) : ShortData(text)[i] = text[i]
         /\ ShortData(text)[Len(text) + 1] = 0
         /\ SubSeq(ShortData(text), 1, Len(text)) = text
  <1>1. PICK l \in Nat : l = Len(text) /\ l <= 5
    OBVIOUS
  <1>1a. l \in 0..5
    BY <1>1, UpToFive
  <1> DEFINE pad == Pad(text)
             spare == 5 - l
             d == pad \o <<spare>>
  <1>2. pad = [i \in 1..5 |-> IF i <= l THEN text[i] ELSE 0]
    BY <1>1 DEF Pad, ShortMost
  <1>3. \A i \in 1..5 : (IF i <= l THEN text[i] ELSE 0) \in Bytes
    <2>1. 0 \in Bytes
      BY DEF Bytes
    <2>2. QED
      BY <1>1, <2>1
  <1>4. pad \in Seq(Bytes) /\ Len(pad) = 5
    BY <1>2, <1>3
  <1>5. ShortData(text) = d
    BY <1>1 DEF ShortData
  <1>6. spare \in Bytes
    BY <1>1a DEF Bytes
  <1> HIDE DEF pad, spare
  <1>7. d \in Seq(Bytes) /\ Len(d) = 6 /\ (\A i \in 1..5 : d[i] = pad[i]) /\ d[6] = spare
    <2>1. /\ d \in Seq(Bytes) /\ Len(d) = Len(pad) + 1 /\ d[Len(pad) + 1] = spare
          /\ \A i \in 1..Len(pad) : d[i] = pad[i]
      <3>1. PICK p \in Seq(Bytes), e \in Bytes : p = pad /\ e = spare
        BY <1>4, <1>6
      <3>2. /\ p \o <<e>> \in Seq(Bytes) /\ Len(p \o <<e>>) = Len(p) + 1
            /\ (\A i \in 1..Len(p) : (p \o <<e>>)[i] = p[i]) /\ (p \o <<e>>)[Len(p) + 1] = e
        BY ConcatIs
      <3>3. QED
        BY <3>1, <3>2
    <2>2. Len(pad) + 1 = 6 /\ Len(pad) = 5
      BY <1>4
    <2> HIDE DEF d
    <2>3. QED
      BY <2>1, <2>2
  <1> HIDE DEF d
  <1>8. \A i \in 1..l : d[i] = text[i]
    <2>1. \A i \in 1..l : i \in 1..5 /\ i <= l
      BY <1>1a
    <2>2. QED
      BY <1>2, <1>7, <2>1
  <1>9. d[l + 1] = 0
    <2>1. CASE l = 5
      BY <1>7, <2>1 DEF spare
    <2>2. CASE l # 5
      <3>1. l + 1 \in 1..5 /\ ~(l + 1 <= l)
        BY <1>1, <2>2
      <3>2. QED
        BY <1>2, <1>7, <3>1
    <2>3. QED
      BY <2>1, <2>2
  <1>10. SubSeq(d, 1, l) = text
    <2>1. l \in Nat /\ l <= 6
      BY <1>1
    <2>2. SubSeq(d, 1, l) \in Seq(Bytes) /\ Len(SubSeq(d, 1, l)) = l
          /\ \A i \in 1..l : SubSeq(d, 1, l)[i] = d[i]
      BY <1>7, <2>1, SubSeqIs
    <2>3. QED
      BY <1>1, <1>8, <2>2
  <1>11. QED
    BY <1>1, <1>5, <1>7, <1>8, <1>9, <1>10

(* What a C function reads of a short value is what it reads of the text.     *)
LEMMA ShortReads ==
  ASSUME NEW text \in Seq(Bytes), Len(text) <= 5
  PROVE  Codepoints(ShortData(text)) = Codepoints(text)
  <1>1. PICK d \in Seq(Bytes) : d = ShortData(text)
    BY ShortDataIs
  <1>2. PICK l \in Nat : l = Len(text) /\ l <= 5
    OBVIOUS
  <1>2a. l \in 0..5
    BY <1>2, UpToFive
  <1>3. /\ Len(d) = 6 /\ (\A i \in 1..l : d[i] = text[i]) /\ d[l + 1] = 0
        /\ SubSeq(d, 1, l) = text
    BY <1>1, <1>2, ShortDataIs
  <1>4. CString(d) = CString(text)
    <2>1. CASE \A i \in 1..l : text[i] # 0
      <3>1. CString(text) = text
        BY <1>2, <2>1, CStringIs
      <3>2. PICK k \in 1..Len(d) : k = l + 1
        BY <1>3
      <3>3. d[k] = 0 /\ \A i \in 1..(k - 1) : d[i] # 0
        BY <1>3, <2>1, <3>2
      <3>4. CString(d) = SubSeq(d, 1, k - 1)
        BY <3>3, CStringIs
      <3>5. k - 1 = l
        BY <3>2
      <3>6. QED
        BY <1>3, <3>1, <3>4, <3>5
    <2>2. CASE \E i \in 1..l : text[i] = 0
      <3> DEFINE I == {i \in 1..l : text[i] = 0}
      <3>0. \A i \in 1..l : i \in Nat
        OBVIOUS
      <3>1. I \in SUBSET Nat /\ I # {}
        BY <2>2, <3>0
      <3>2. PICK k \in I : \A i \in I : k <= i
        BY <3>1, HasLeast
      <3>3. /\ k \in 1..Len(text) /\ k \in 1..Len(d) /\ text[k] = 0 /\ d[k] = 0
            /\ k <= l
        <4>1. k \in 1..l /\ text[k] = 0 /\ k \in Nat
          OBVIOUS
        <4>2. k >= 1 /\ k <= l /\ l <= 6
          BY <1>2, <4>1
        <4>3. k \in 1..Len(text) /\ k \in 1..Len(d)
          BY <1>2, <1>3, <4>1, <4>2
        <4>4. d[k] = 0
          BY <1>3, <4>1
        <4>5. QED
          BY <4>1, <4>2, <4>3, <4>4
      <3>4. \A i \in 1..(k - 1) : text[i] # 0 /\ d[i] # 0 /\ d[i] = text[i]
        BY <1>3, <3>2, <3>3
      <3> HIDE DEF I
      <3>5. CString(text) = SubSeq(text, 1, k - 1) /\ CString(d) = SubSeq(d, 1, k - 1)
        BY <3>3, <3>4, CStringIs
      <3>6. PICK m \in Nat : m = k - 1 /\ m <= l /\ m <= 6
        BY <3>3
      <3>7. SubSeq(d, 1, m) = SubSeq(text, 1, m)
        <4>1. SubSeq(d, 1, m) = [i \in 1..m |-> d[i]]
          BY <1>3, <3>6
        <4>2. SubSeq(text, 1, m) = [i \in 1..m |-> text[i]]
          BY <1>2, <3>6
        <4>3. QED
          BY <3>4, <3>6, <4>1, <4>2
      <3>8. QED
        BY <3>5, <3>6, <3>7
    <2>3. QED
      BY <2>1, <2>2
  <1>5. QED
    BY <1>1, <1>4 DEF Codepoints

-----------------------------------------------------------------------------
(* The inductive invariant                                                    *)

FunctionsOK ==
  /\ IsFiniteSet(DOMAIN objects)
  /\ objects = [o \in DOMAIN objects |-> objects[o]]
  /\ strings \subseteq DOMAIN objects
  /\ held = [j \in Jobs |-> held[j]]
  /\ doing = [j \in Jobs |-> doing[j]]

(* An object is made with its length and its number of characters.            *)
Rendered(text) == [data |-> text, len |-> Len(text), mbLen |-> Codepoints(text)]

ObjectsOK ==
  \A o \in DOMAIN objects :
    objects[o].data \in Seq(Bytes) /\ objects[o] = Rendered(objects[o].data)

(* A value stands for its text: packed, or by an object in the table.         *)
Packed(v, text) ==
  /\ Len(text) <= 5
  /\ \E tag \in Tags : v = [tag |-> tag, short |-> Pad(text), spare |-> 5 - Len(text)]

Interned(v, text, heap, table) ==
  /\ 5 < Len(text)
  /\ \E tag \in Tags, o \in table :
       v = [tag |-> tag, object |-> o] /\ o \in DOMAIN heap /\ heap[o].data = text

Stands(v, text, heap, table) ==
  text \in Seq(Bytes) /\ (Packed(v, text) \/ Interned(v, text, heap, table))

HeldOK == \A j \in Jobs : \A h \in held[j] : Stands(h.value, h.text, objects, strings)

(* What a job is doing.                                                       *)
Longs == {text \in Seq(Bytes) : 5 < Len(text)}

Busy(d, heap) ==
  \/ d = Idle
  \/ \E text \in Longs, at \in {"look", "create"} : \E args :
       d = [at |-> at, text |-> text, args |-> args]
  \/ \E text \in Longs, o \in DOMAIN heap : \E args :
       /\ d = [at |-> "insert", text |-> text, object |-> o, args |-> args]
       /\ heap[o].data = text

DoingOK == \A j \in Jobs : Busy(doing[j], objects)

(* A job that has looked a text up and not inserted it.                       *)
Making(d, text) == d.at \in {"create", "insert"} /\ d.text = text

(* Of a text that was not raced for, there is one object in the table, or one *)
(* job that makes it.                                                         *)
Single ==
  \A text : text \notin raced =>
    /\ \A o, p \in strings : objects[o].data = text /\ objects[p].data = text => o = p
    /\ \A j \in Jobs : Making(doing[j], text) => \A o \in strings : objects[o].data # text
    /\ \A i, j \in Jobs : Making(doing[i], text) /\ Making(doing[j], text) => i = j

IInv == FunctionsOK /\ ObjectsOK /\ HeldOK /\ DoingOK /\ Single

-----------------------------------------------------------------------------
(* Reading a value                                                            *)

(* What a reader sees is the text.                                            *)
LEMMA ReadsAs ==
  ASSUME ObjectsOK, NEW v, NEW text, Stands(v, text, objects, strings)
  PROVE  /\ text \in Seq(Bytes) /\ StrLen(v) = Len(text) /\ StrBytes(v) = text
         /\ StrMbLen(v) = Codepoints(text) /\ v.tag \in Tags
  <1>0. text \in Seq(Bytes)
    BY DEF Stands
  <1>1. CASE Packed(v, text)
    <2>1. PICK tag \in Tags : v = [tag |-> tag, short |-> Pad(text), spare |-> 5 - Len(text)]
      BY <1>1 DEF Packed
    <2>2. PICK l \in Nat : l = Len(text) /\ l <= 5
      BY <1>0, <1>1 DEF Packed
    <2>3. /\ ~IsObject(v) /\ v.short = Pad(text) /\ v.spare = 5 - l /\ v.tag = tag
      BY <2>1, <2>2 DEF IsObject
    <2>4. StrLen(v) = l
      <3>1. ShortMost - v.spare = 5 - (5 - l)
        BY <2>3 DEF ShortMost
      <3>2. 5 - (5 - l) = l
        BY <2>2
      <3>3. QED
        BY <2>3, <3>1, <3>2 DEF StrLen
    <2>5. StrData(v) = ShortData(text)
      BY <2>2, <2>3 DEF StrData, ShortData
    <2>6. StrBytes(v) = text
      <3>1. SubSeq(ShortData(text), 1, Len(text)) = text
        BY <1>0, <1>1, ShortDataIs DEF Packed
      <3>2. QED
        BY <2>2, <2>4, <2>5, <3>1 DEF StrBytes
    <2>7. StrMbLen(v) = Codepoints(text)
      BY <1>0, <1>1, <2>3, <2>5, ShortReads DEF Packed, StrMbLen
    <2>8. QED
      BY <1>0, <2>1, <2>2, <2>3, <2>4, <2>6, <2>7
  <1>2. CASE Interned(v, text, objects, strings)
    <2>1. PICK tag \in Tags, o \in strings :
            v = [tag |-> tag, object |-> o] /\ o \in DOMAIN objects /\ objects[o].data = text
      BY <1>2 DEF Interned
    <2>2. IsObject(v) /\ v.object = o /\ v.tag = tag
      BY <2>1 DEF IsObject
    <2>3. objects[o] = [data |-> text, len |-> Len(text), mbLen |-> Codepoints(text)]
      BY <2>1 DEF ObjectsOK, Rendered
    <2>4. objects[o].len = Len(text) /\ objects[o].mbLen = Codepoints(text)
      BY <2>3
    <2>5. StrLen(v) = Len(text) /\ StrData(v) = text /\ StrMbLen(v) = Codepoints(text)
      BY <2>1, <2>2, <2>4 DEF StrLen, StrData, StrMbLen
    <2>6. SubSeq(text, 1, Len(text)) = text
      BY <1>0
    <2>7. QED
      BY <1>0, <2>1, <2>2, <2>5, <2>6 DEF StrBytes
  <1>3. QED
    BY <1>1, <1>2 DEF Stands

(* A conversion keeps what a value stands for.                                *)
LEMMA RetagStands ==
  ASSUME NEW v, NEW text, Stands(v, text, objects, strings), NEW tag \in Tags
  PROVE  Stands(Retag(v, tag), text, objects, strings)
  <1>1. CASE Packed(v, text)
    <2>1. PICK old \in Tags : v = [tag |-> old, short |-> Pad(text), spare |-> 5 - Len(text)]
      BY <1>1 DEF Packed
    <2>2. Retag(v, tag) = [tag |-> tag, short |-> Pad(text), spare |-> 5 - Len(text)]
      <3>1. PICK short, spare : short = Pad(text) /\ spare = 5 - Len(text)
        OBVIOUS
      <3>2. v = [tag |-> old, short |-> short, spare |-> spare]
        BY <2>1, <3>1
      <3>3. Retag(v, tag) = [tag |-> tag, short |-> short, spare |-> spare]
        BY <3>2 DEF Retag
      <3>4. QED
        BY <3>1, <3>3
    <2>3. QED
      BY <1>1, <2>2 DEF Stands, Packed
  <1>2. CASE Interned(v, text, objects, strings)
    <2>1. PICK old \in Tags, o \in strings :
            v = [tag |-> old, object |-> o] /\ o \in DOMAIN objects /\ objects[o].data = text
      BY <1>2 DEF Interned
    <2>2. Retag(v, tag) = [tag |-> tag, object |-> o]
      BY <2>1 DEF Retag
    <2>3. QED
      BY <1>2, <2>1, <2>2 DEF Stands, Interned
  <1>3. QED
    BY <1>1, <1>2 DEF Stands

(* What a value stands for outlives changes elsewhere in the heap.            *)
LEMMA StillStands ==
  ASSUME NEW v, NEW text, NEW heap, NEW table, NEW heap2, NEW table2,
         Stands(v, text, heap, table),
         \A o \in table \cap DOMAIN heap : 
            (\E tag : v = [tag |-> tag, object |-> o])
              => o \in table2 /\ o \in DOMAIN heap2 /\ heap2[o].data = heap[o].data
  PROVE  Stands(v, text, heap2, table2)
  <1>1. CASE Packed(v, text)
    BY <1>1 DEF Stands
  <1>2. CASE Interned(v, text, heap, table)
    <2>1. PICK tag \in Tags, o \in table :
            v = [tag |-> tag, object |-> o] /\ o \in DOMAIN heap /\ heap[o].data = text
      BY <1>2 DEF Interned
    <2>2. o \in table2 /\ o \in DOMAIN heap2 /\ heap2[o].data = text
      BY <2>1
    <2>3. QED
      BY <1>2, <2>1, <2>2 DEF Stands, Interned
  <1>3. QED
    BY <1>1, <1>2 DEF Stands

-----------------------------------------------------------------------------
(* The invariant is kept                                                      *)

(* A call that answers.                                                       *)
LEMMA ReplyKeeps ==
  ASSUME IInv, NEW j \in Jobs, NEW args, NEW v, NEW text, Reply(j, args, v, text),
         objects' = objects, strings \subseteq strings', Stands(v, text, objects, strings')
  PROVE  HeldOK' /\ held' = [i \in Jobs |-> held'[i]]
  <1>1. held = [i \in Jobs |-> held[i]]
    BY DEF IInv, FunctionsOK
  <1>2. /\ held' = [i \in Jobs |-> held'[i]]
        /\ \A i \in Jobs \ {j} : held'[i] = held[i]
        /\ held'[j] = (held[j] \ args) \cup {[value |-> v, text |-> text]}
    <2>1. held' = [held EXCEPT ![j] = (held[j] \ args) \cup {[value |-> v, text |-> text]}]
      BY DEF Reply
    <2>2. QED
      BY <1>1, <2>1
  <1>3. ASSUME NEW i \in Jobs, NEW h \in held'[i] PROVE Stands(h.value, h.text, objects, strings')
    <2>1. CASE h \in held[i]
      <3>1. Stands(h.value, h.text, objects, strings)
        BY <2>1 DEF IInv, HeldOK
      <3>2. QED
        BY <3>1, StillStands
    <2>2. CASE h = [value |-> v, text |-> text]
      BY <2>2
    <2>3. QED
      BY <1>2, <2>1, <2>2
  <1>4. HeldOK'
    BY <1>3 DEF HeldOK
  <1>5. QED
    BY <1>2, <1>4

(* A job that goes on to d.                                                   *)
LEMMA DoingKeeps ==
  ASSUME IInv, NEW j \in Jobs, NEW d, doing' = [doing EXCEPT ![j] = d],
         objects' = objects, Busy(d, objects)
  PROVE  /\ DoingOK' /\ doing' = [i \in Jobs |-> doing'[i]]
         /\ doing'[j] = d /\ \A i \in Jobs \ {j} : doing'[i] = doing[i]
  <1>1. doing = [i \in Jobs |-> doing[i]]
    BY DEF IInv, FunctionsOK
  <1>2. /\ doing' = [i \in Jobs |-> doing'[i]]
        /\ doing'[j] = d /\ \A i \in Jobs \ {j} : doing'[i] = doing[i]
    BY <1>1
  <1>3. DoingOK'
    BY <1>2 DEF DoingOK, IInv
  <1>4. QED
    BY <1>2, <1>3

(* A job that begins to make a string.                                        *)
LEMMA BeginKeeps ==
  ASSUME IInv, NEW j \in Jobs, NEW args, NEW text \in Longs, Begin(j, args, text),
         objects' = objects
  PROVE  /\ DoingOK' /\ doing' = [i \in Jobs |-> doing'[i]]
         /\ \A i \in Jobs : \A t : Making(doing'[i], t) => Making(doing[i], t)
  <1> DEFINE d == [at |-> "look", text |-> text, args |-> args]
  <1>1. Busy(d, objects) /\ d.at = "look"
    BY DEF Busy
  <1>2. doing' = [doing EXCEPT ![j] = d]
    BY DEF Begin
  <1> HIDE DEF d
  <1>3. /\ DoingOK' /\ doing' = [i \in Jobs |-> doing'[i]]
        /\ doing'[j] = d /\ \A i \in Jobs \ {j} : doing'[i] = doing[i]
    BY <1>1, <1>2, DoingKeeps
  <1>4. QED
    BY <1>1, <1>3 DEF Making

(* A step that touches neither heap nor table, and after which nobody makes   *)
(* another string.                                                            *)
LEMMA QuietStep ==
  ASSUME IInv, UNCHANGED <<objects, strings, raced>>,
         HeldOK', held' = [i \in Jobs |-> held'[i]],
         DoingOK', doing' = [i \in Jobs |-> doing'[i]],
         \A i \in Jobs : \A t : Making(doing'[i], t) => Making(doing[i], t)
  PROVE  IInv'
  <1>1. FunctionsOK' /\ ObjectsOK'
    BY DEF IInv, FunctionsOK, ObjectsOK
  <1>2. Single'
    BY DEF IInv, Single
  <1>3. QED
    BY <1>1, <1>2 DEF IInv

(* The same, when nobody does anything else.                                  *)
LEMMA ReplyStep ==
  ASSUME IInv, UNCHANGED <<objects, strings, raced, doing>>,
         HeldOK', held' = [i \in Jobs |-> held'[i]]
  PROVE  IInv'
  <1>1. DoingOK' /\ doing' = [i \in Jobs |-> doing'[i]]
    BY DEF IInv, DoingOK, FunctionsOK
  <1>2. QED
    BY <1>1, QuietStep

(* A short text is packed.                                                    *)
LEMMA ShortStands ==
  ASSUME NEW text \in Seq(Bytes), Len(text) <= 5, NEW heap, NEW table
  PROVE  Stands(Short(text), text, heap, table)
  <1>1. Short(text) = [tag |-> "string", short |-> Pad(text), spare |-> 5 - Len(text)]
    BY DEF Short, ShortMost
  <1>2. "string" \in Tags
    BY DEF Tags
  <1>3. Packed(Short(text), text)
    BY <1>1, <1>2 DEF Packed
  <1>4. QED
    BY <1>3 DEF Stands

(* A job that begins to make a string, and has answered nothing.              *)
LEMMA BeginStep ==
  ASSUME IInv, UNCHANGED <<objects, strings, raced, held>>, NEW j \in Jobs, NEW args,
         NEW text \in Longs, Begin(j, args, text)
  PROVE  IInv'
  <1>1. HeldOK' /\ held' = [i \in Jobs |-> held'[i]]
    BY DEF IInv, HeldOK, FunctionsOK
  <1>2. QED
    BY <1>1, BeginKeeps, QuietStep

(* gab_nstring                                                                *)
LEMMA NStringStep ==
  ASSUME TextsAreBytes, IInv, NEW j \in Jobs, NString(j)
  PROVE  IInv'
  <1>1. PICK text \in Texts :
          \/ Len(text) <= ShortMost /\ Reply(j, {}, Short(text), text) /\ UNCHANGED doing
          \/ Len(text) > ShortMost /\ Begin(j, {}, text) /\ UNCHANGED held
    BY DEF NString
  <1>2. UNCHANGED <<objects, strings, raced>>
    BY DEF NString
  <1>3. text \in Seq(Bytes)
    BY DEF TextsAreBytes
  <1>4. CASE Len(text) <= ShortMost /\ Reply(j, {}, Short(text), text) /\ UNCHANGED doing
    <2>1. Stands(Short(text), text, objects, strings')
      BY <1>3, <1>4, ShortStands DEF ShortMost
    <2>2. HeldOK' /\ held' = [i \in Jobs |-> held'[i]]
      BY <1>2, <1>4, <2>1, ReplyKeeps
    <2>3. QED
      BY <1>2, <1>4, <2>2, ReplyStep
  <1>5. CASE Len(text) > ShortMost /\ Begin(j, {}, text) /\ UNCHANGED held
    <2>1. text \in Longs
      BY <1>3, <1>5 DEF Longs, ShortMost
    <2>2. QED
      BY <1>2, <1>5, <2>1, BeginStep
  <1>6. QED
    BY <1>1, <1>4, <1>5

(* gab_strcat                                                                 *)
LEMMA StrCatStep ==
  ASSUME IInv, NEW j \in Jobs, StrCat(j)
  PROVE  IInv'
  <1>1. PICK a \in Given(j, "string"), b \in Given(j, "string") :
          LET n == StrLen(a.value) + StrLen(b.value)
              text == a.text \o b.text
              reply(v) == Reply(j, {a, b}, v, text) /\ UNCHANGED doing
          IN /\ text \in Texts
             /\ CASE StrLen(a.value) = 0 -> reply(b.value)
                  [] StrLen(b.value) = 0 -> reply(a.value)
                  [] FitsShort(n) -> reply(ShortCat(a.value, b.value))
                  [] OTHER -> Begin(j, {a, b}, text) /\ UNCHANGED held
    BY DEF StrCat
  <1>2. UNCHANGED <<objects, strings, raced>>
    BY DEF StrCat
  <1>3. PICK x, y : x = a.text /\ y = b.text
    OBVIOUS
  <1>4. /\ Stands(a.value, x, objects, strings) /\ Stands(b.value, y, objects, strings)
        /\ ObjectsOK
    BY <1>3 DEF IInv, HeldOK, Given
  <1>5. /\ x \in Seq(Bytes) /\ StrLen(a.value) = Len(x) /\ StrBytes(a.value) = x
        /\ y \in Seq(Bytes) /\ StrLen(b.value) = Len(y) /\ StrBytes(b.value) = y
    BY <1>4, ReadsAs
  <1>6. PICK k \in Nat, l \in Nat : k = Len(x) /\ l = Len(y)
    BY <1>5
  <1>7. PICK text \in Seq(Bytes) : text = x \o y /\ Len(text) = k + l
    <2>1. x \o y \in Seq(Bytes) /\ Len(x \o y) = Len(x) + Len(y)
      BY <1>5
    <2>2. QED
      BY <1>6, <2>1
  <1>c. \/ StrLen(a.value) = 0 /\ Reply(j, {a, b}, b.value, text) /\ doing' = doing
        \/ StrLen(b.value) = 0 /\ Reply(j, {a, b}, a.value, text) /\ doing' = doing
        \/ /\ FitsShort(StrLen(a.value) + StrLen(b.value))
           /\ Reply(j, {a, b}, ShortCat(a.value, b.value), text) /\ doing' = doing
        \/ /\ ~FitsShort(StrLen(a.value) + StrLen(b.value))
           /\ Begin(j, {a, b}, text) /\ held' = held
    BY <1>1, <1>3, <1>7
  <1>8. ASSUME NEW v, Reply(j, {a, b}, v, text), doing' = doing, Stands(v, text, objects, strings)
        PROVE  IInv'
    <2>1. HeldOK' /\ held' = [i \in Jobs |-> held'[i]]
      BY <1>2, <1>8, ReplyKeeps
    <2>2. QED
      BY <1>2, <1>8, <2>1, ReplyStep
  <1>9. CASE StrLen(a.value) = 0 /\ Reply(j, {a, b}, b.value, text) /\ doing' = doing
    <2>1. text = y
      <3>1. x = <<>>
        <4>1. Len(x) = 0
          BY <1>5, <1>9
        <4>2. QED
          BY <1>5, <4>1, EmptySeq
      <3>2. <<>> \o y = y
        BY <1>5
      <3>3. QED
        BY <1>7, <3>1, <3>2
    <2>2. QED
      BY <1>4, <1>8, <1>9, <2>1
  <1>10. CASE StrLen(b.value) = 0 /\ Reply(j, {a, b}, a.value, text) /\ doing' = doing
    <2>1. text = x
      <3>1. y = <<>>
        <4>1. Len(y) = 0
          BY <1>5, <1>10
        <4>2. QED
          BY <1>5, <4>1, EmptySeq
      <3>2. x \o <<>> = x
        BY <1>5
      <3>3. QED
        BY <1>7, <3>1, <3>2
    <2>2. QED
      BY <1>4, <1>8, <1>10, <2>1
  <1>11. CASE /\ FitsShort(StrLen(a.value) + StrLen(b.value))
              /\ Reply(j, {a, b}, ShortCat(a.value, b.value), text) /\ doing' = doing
    <2>1. k + l <= 5
      BY <1>5, <1>6, <1>11 DEF FitsShort, ShortMost
    <2>2. ShortCat(a.value, b.value) = Short(text)
      BY <1>5, <1>6, <1>7 DEF ShortCat, Short
    <2>3. Stands(Short(text), text, objects, strings)
      BY <1>7, <2>1, ShortStands
    <2>4. QED
      BY <1>8, <1>11, <2>2, <2>3
  <1>12. CASE /\ ~FitsShort(StrLen(a.value) + StrLen(b.value))
              /\ Begin(j, {a, b}, text) /\ held' = held
    <2>1. ~(k + l <= 5)
      BY <1>5, <1>6, <1>12 DEF FitsShort, ShortMost
    <2>2. text \in Longs
      BY <1>7, <2>1 DEF Longs
    <2>3. QED
      BY <1>2, <1>12, <2>2, BeginStep
  <1>13. QED
    BY <1>c, <1>9, <1>10, <1>11, <1>12

(* The look-up (gab_tnstring): the object is found, or will be made; two jobs *)
(* that are to make the same have raced.                                      *)
LEMMA LookStep ==
  ASSUME IInv, NEW j \in Jobs, Look(j)
  PROVE  IInv'
  <1>i. FunctionsOK /\ ObjectsOK /\ HeldOK /\ DoingOK /\ Single
    BY DEF IInv
  <1>1. doing[j].at = "look" /\ UNCHANGED <<objects, strings>>
    BY DEF Look
  <1>2. PICK text, args : /\ text \in Longs
                          /\ doing[j] = [at |-> "look", text |-> text, args |-> args]
    <2>1. Busy(doing[j], objects)
      BY <1>i DEF DoingOK
    <2>2. CASE doing[j] = Idle
      BY <1>1, <2>2 DEF Idle
    <2>3. CASE \E text \in Longs, at \in {"look", "create"} : \E args :
                 doing[j] = [at |-> at, text |-> text, args |-> args]
      <3>1. PICK text \in Longs, at \in {"look", "create"} : \E args :
                 doing[j] = [at |-> at, text |-> text, args |-> args]
        BY <2>3
      <3>2. doing[j].at = at
        BY <3>1
      <3>3. QED
        BY <1>1, <3>1, <3>2
    <2>4. CASE \E text \in Longs, o \in DOMAIN objects : \E args :
                 doing[j] = [at |-> "insert", text |-> text, object |-> o, args |-> args]
      BY <1>1, <2>4
    <2>5. QED
      BY <2>1, <2>2, <2>3, <2>4 DEF Busy
  <1>3. doing[j].text = text /\ doing[j].args = args
    BY <1>2
  <1> DEFINE found == {o \in strings : objects[o].data = text}
  <1>4. CASE \E o \in found : Reply(j, args, Object(o), text)
                 /\ doing' = [doing EXCEPT ![j] = Idle] /\ UNCHANGED raced
    <2>1. PICK o \in found : Reply(j, args, Object(o), text)
      BY <1>4
    <2>2. Stands(Object(o), text, objects, strings')
      BY <1>1, <1>2, <1>i, <2>1 DEF Stands, Interned, Object, Tags, Longs, FunctionsOK
    <2>3. HeldOK' /\ held' = [i \in Jobs |-> held'[i]]
      BY <1>1, <2>1, <2>2, ReplyKeeps
    <2>4. Busy(Idle, objects) /\ \A t : ~Making(Idle, t)
      BY DEF Busy, Idle, Making
    <2>5. /\ DoingOK' /\ doing' = [i \in Jobs |-> doing'[i]]
          /\ doing'[j] = Idle /\ \A i \in Jobs \ {j} : doing'[i] = doing[i]
      BY <1>1, <1>4, <2>4, DoingKeeps
    <2>6. \A i \in Jobs : \A t : Making(doing'[i], t) => Making(doing[i], t)
      BY <2>4, <2>5
    <2>7. QED
      BY <1>1, <1>4, <2>3, <2>5, <2>6, QuietStep
  <1>5. CASE /\ found = {} /\ UNCHANGED held
             /\ doing' = [doing EXCEPT ![j].at = "create"]
             /\ raced' = IF \E i \in Jobs \ {j} : doing[i].at \in {"create", "insert"}
                                                  /\ doing[i].text = text
                         THEN raced \cup {text} ELSE raced
    <2> DEFINE d == [at |-> "create", text |-> text, args |-> args]
    <2>1. doing' = [doing EXCEPT ![j] = d]
      <3>1. [doing[j] EXCEPT !.at = "create"] = d
        BY <1>2
      <3> HIDE DEF d
      <3>2. doing = [i \in Jobs |-> doing[i]]
        BY <1>i DEF FunctionsOK
      <3>3. QED
        BY <1>5, <3>1, <3>2
    <2>2. Busy(d, objects) /\ \A t : Making(d, t) => t = text
      BY <1>2 DEF Busy, Making
    <2> HIDE DEF d
    <2>3. /\ DoingOK' /\ doing' = [i \in Jobs |-> doing'[i]]
          /\ doing'[j] = d /\ \A i \in Jobs \ {j} : doing'[i] = doing[i]
      BY <1>1, <2>1, <2>2, DoingKeeps
    <2>4. FunctionsOK' /\ ObjectsOK' /\ HeldOK'
      BY <1>1, <1>5, <1>i, <2>3 DEF FunctionsOK, ObjectsOK, HeldOK
    <2>5. Single'
      <3> SUFFICES ASSUME NEW t, t \notin raced'
                   PROVE  /\ \A o, p \in strings : objects[o].data = t /\ objects[p].data = t => o = p
                          /\ \A i \in Jobs : Making(doing'[i], t) => \A o \in strings : objects[o].data # t
                          /\ \A i, k \in Jobs : Making(doing'[i], t) /\ Making(doing'[k], t) => i = k
        BY <1>1 DEF Single
      <3>1. t \notin raced /\ (t = text => \A i \in Jobs \ {j} : ~Making(doing[i], t))
        BY <1>5 DEF Making
      <3>2. /\ \A o, p \in strings : objects[o].data = t /\ objects[p].data = t => o = p
            /\ \A i \in Jobs : Making(doing[i], t) => \A o \in strings : objects[o].data # t
            /\ \A i, k \in Jobs : Making(doing[i], t) /\ Making(doing[k], t) => i = k
        BY <1>i, <3>1 DEF Single
      <3>3. CASE t = text
        BY <1>5, <2>3, <3>1, <3>2, <3>3
      <3>4. CASE t # text
        BY <2>2, <2>3, <3>2, <3>4
      <3>5. QED
        BY <3>3, <3>4
    <2>6. QED
      BY <2>3, <2>4, <2>5 DEF IInv
  <1>6. QED
    BY <1>3, <1>4, <1>5 DEF Look

(* What a job makes, once it has looked.                                      *)
LEMMA MakingIs ==
  ASSUME IInv, NEW j \in Jobs
  PROVE  /\ doing[j].at = "create" => \E text \in Longs : \E args :
                doing[j] = [at |-> "create", text |-> text, args |-> args]
         /\ doing[j].at = "insert" => \E text \in Longs, o \in DOMAIN objects : \E args :
                /\ doing[j] = [at |-> "insert", text |-> text, object |-> o, args |-> args]
                /\ objects[o].data = text
  <1>1. Busy(doing[j], objects)
    BY DEF IInv, DoingOK
  <1>2. CASE doing[j] = Idle
    BY <1>2 DEF Idle
  <1>3. CASE \E text \in Longs, at \in {"look", "create"} : \E args :
               doing[j] = [at |-> at, text |-> text, args |-> args]
    <2>1. PICK text \in Longs, at \in {"look", "create"} : \E args :
               doing[j] = [at |-> at, text |-> text, args |-> args]
      BY <1>3
    <2>2. doing[j].at = at
      BY <2>1
    <2>3. QED
      BY <2>1, <2>2
  <1>4. CASE \E text \in Longs, o \in DOMAIN objects : \E args :
               /\ doing[j] = [at |-> "insert", text |-> text, object |-> o, args |-> args]
               /\ objects[o].data = text
    <2>1. PICK text \in Longs, o \in DOMAIN objects : \E args :
               /\ doing[j] = [at |-> "insert", text |-> text, object |-> o, args |-> args]
               /\ objects[o].data = text
      BY <1>4
    <2>2. doing[j].at = "insert"
      BY <2>1
    <2>3. QED
      BY <2>1, <2>2
  <1>5. QED
    BY <1>1, <1>2, <1>3, <1>4 DEF Busy

(* The object is made outside the lock, and is in no table yet.               *)
LEMMA CreateStep ==
  ASSUME IInv, NEW j \in Jobs, Create(j)
  PROVE  IInv'
  <1>i. FunctionsOK /\ ObjectsOK /\ HeldOK /\ DoingOK /\ Single
    BY DEF IInv
  <1>1. doing[j].at = "create" /\ UNCHANGED <<strings, held, raced>>
    BY DEF Create
  <1>2. PICK text, args : /\ text \in Longs
                          /\ doing[j] = [at |-> "create", text |-> text, args |-> args]
    BY <1>1, MakingIs
  <1>3. doing[j].text = text /\ doing[j].args = args
    BY <1>2
  <1>4. PICK o : /\ o \notin DOMAIN objects
                 /\ objects' = [q \in DOMAIN objects \cup {o} |->
                                  IF q = o THEN Rendered(text) ELSE objects[q]]
                 /\ doing' = [doing EXCEPT ![j] = [at |-> "insert", text |-> text,
                                                   object |-> o, args |-> args]]
    BY <1>3 DEF Create, Rendered
  <1>5. /\ DOMAIN objects' = DOMAIN objects \cup {o} /\ objects'[o] = Rendered(text)
        /\ \A p \in DOMAIN objects : objects'[p] = objects[p]
    BY <1>4
  <1> DEFINE d == [at |-> "insert", text |-> text, object |-> o, args |-> args]
  <1>6. /\ doing' = [i \in Jobs |-> doing'[i]]
        /\ doing'[j] = d /\ \A i \in Jobs \ {j} : doing'[i] = doing[i]
    <2> HIDE DEF d
    <2>1. doing' = [doing EXCEPT ![j] = d] /\ doing = [i \in Jobs |-> doing[i]]
      BY <1>4, <1>i DEF FunctionsOK, d
    <2>2. QED
      BY <2>1
  <1>7. Rendered(text).data = text /\ text \in Seq(Bytes)
    BY <1>2 DEF Rendered, Longs
  <1>8. FunctionsOK'
    <2>1. IsFiniteSet(DOMAIN objects')
      <3>1. IsFiniteSet(DOMAIN objects)
        BY <1>i DEF FunctionsOK
      <3>2. QED
        BY <1>5, <3>1, FS_AddElement
    <2>2. objects' = [q \in DOMAIN objects' |-> objects'[q]]
      BY <1>4
    <2>3. strings' \subseteq DOMAIN objects' /\ held' = [i \in Jobs |-> held'[i]]
      BY <1>1, <1>5, <1>i DEF FunctionsOK
    <2>4. QED
      BY <1>6, <2>1, <2>2, <2>3 DEF FunctionsOK
  <1>9. ObjectsOK'
    <2>1. ASSUME NEW p \in DOMAIN objects'
          PROVE  objects'[p].data \in Seq(Bytes) /\ objects'[p] = Rendered(objects'[p].data)
      <3>1. CASE p = o
        BY <1>5, <1>7, <3>1
      <3>2. CASE p \in DOMAIN objects
        BY <1>5, <1>i, <3>2 DEF ObjectsOK
      <3>3. QED
        BY <1>5, <3>1, <3>2
    <2>2. QED
      BY <2>1 DEF ObjectsOK
  <1>10. HeldOK'
    <2>1. ASSUME NEW i \in Jobs, NEW h \in held[i]
          PROVE  Stands(h.value, h.text, objects', strings)
      <3>1. Stands(h.value, h.text, objects, strings)
        BY <1>i DEF HeldOK
      <3>2. QED
        BY <1>5, <3>1, StillStands
    <2>2. QED
      BY <1>1, <2>1 DEF HeldOK
  <1>11. DoingOK'
    <2>1. ASSUME NEW i \in Jobs, i # j PROVE Busy(doing[i], objects')
      <3>1. Busy(doing[i], objects)
        BY <1>i DEF DoingOK
      <3>2. CASE \E t \in Longs, p \in DOMAIN objects : \E as :
                   /\ doing[i] = [at |-> "insert", text |-> t, object |-> p, args |-> as]
                   /\ objects[p].data = t
        <4>1. PICK t \in Longs, p \in DOMAIN objects : \E as :
                   /\ doing[i] = [at |-> "insert", text |-> t, object |-> p, args |-> as]
                   /\ objects[p].data = t
          BY <3>2
        <4>2. p \in DOMAIN objects' /\ objects'[p].data = t
          BY <1>5, <4>1
        <4>3. QED
          BY <4>1, <4>2 DEF Busy
      <3>3. QED
        BY <3>1, <3>2 DEF Busy
    <2>2. Busy(d, objects')
      <3>1. o \in DOMAIN objects' /\ objects'[o].data = text
        BY <1>5, <1>7
      <3>2. QED
        BY <1>2, <3>1 DEF Busy
    <2>3. QED
      BY <1>6, <2>1, <2>2 DEF DoingOK
  <1>12. Single'
    <2>1. \A i \in Jobs : \A t : Making(doing'[i], t) => Making(doing[i], t)
      BY <1>2, <1>6 DEF Making
    <2>2. \A p \in strings' : p \in strings /\ objects'[p] = objects[p]
      BY <1>1, <1>5, <1>i DEF FunctionsOK
    <2> SUFFICES ASSUME NEW t, t \notin raced
                 PROVE  /\ \A p, q \in strings' : objects'[p].data = t /\ objects'[q].data = t => p = q
                        /\ \A i \in Jobs : Making(doing'[i], t) => \A p \in strings' : objects'[p].data # t
                        /\ \A i, k \in Jobs : Making(doing'[i], t) /\ Making(doing'[k], t) => i = k
      BY <1>1 DEF Single
    <2>3. /\ \A p, q \in strings : objects[p].data = t /\ objects[q].data = t => p = q
          /\ \A i \in Jobs : Making(doing[i], t) => \A p \in strings : objects[p].data # t
          /\ \A i, k \in Jobs : Making(doing[i], t) /\ Making(doing[k], t) => i = k
      BY <1>i DEF Single
    <2>4. QED
      BY <2>1, <2>2, <2>3
  <1>13. QED
    BY <1>8, <1>9, <1>10, <1>11, <1>12 DEF IInv

(* The object goes into the table, or is forgotten when the lock is busy.     *)
LEMMA InsertStep ==
  ASSUME IInv, NEW j \in Jobs, Insert(j)
  PROVE  IInv'
  <1>i. FunctionsOK /\ ObjectsOK /\ HeldOK /\ DoingOK /\ Single
    BY DEF IInv
  <1>1. doing[j].at = "insert" /\ UNCHANGED <<objects, raced>>
    BY DEF Insert
  <1>2. PICK text, o, args :
          /\ text \in Longs /\ o \in DOMAIN objects
          /\ doing[j] = [at |-> "insert", text |-> text, object |-> o, args |-> args]
          /\ objects[o].data = text
    <2>1. \E text \in Longs, o \in DOMAIN objects : \E args :
             /\ doing[j] = [at |-> "insert", text |-> text, object |-> o, args |-> args]
             /\ objects[o].data = text
      BY <1>1, MakingIs
    <2>2. QED
      BY <2>1
  <1>3. doing[j].text = text /\ doing[j].args = args /\ doing[j].object = o
    BY <1>2
  <1>4. CASE /\ strings' = strings \cup {o} /\ Reply(j, args, Object(o), text)
             /\ doing' = [doing EXCEPT ![j] = Idle]
    <2>1. Stands(Object(o), text, objects, strings')
      BY <1>2, <1>4 DEF Stands, Interned, Object, Tags, Longs
    <2>2. HeldOK' /\ held' = [i \in Jobs |-> held'[i]]
      BY <1>1, <1>4, <2>1, ReplyKeeps
    <2>3. Busy(Idle, objects) /\ \A t : ~Making(Idle, t)
      BY DEF Busy, Idle, Making
    <2>4. /\ DoingOK' /\ doing' = [i \in Jobs |-> doing'[i]]
          /\ doing'[j] = Idle /\ \A i \in Jobs \ {j} : doing'[i] = doing[i]
      BY <1>1, <1>4, <2>3, DoingKeeps
    <2>5. FunctionsOK' /\ ObjectsOK'
      BY <1>1, <1>2, <1>4, <1>i, <2>2, <2>4 DEF FunctionsOK, ObjectsOK
    <2>6. Single'
      <3> SUFFICES ASSUME NEW t, t \notin raced
                   PROVE  /\ \A p, q \in strings' : objects[p].data = t /\ objects[q].data = t => p = q
                          /\ \A i \in Jobs : Making(doing'[i], t) => \A p \in strings' : objects[p].data # t
                          /\ \A i, k \in Jobs : Making(doing'[i], t) /\ Making(doing'[k], t) => i = k
        BY <1>1 DEF Single
      <3>1. /\ \A p, q \in strings : objects[p].data = t /\ objects[q].data = t => p = q
            /\ \A i \in Jobs : Making(doing[i], t) => \A p \in strings : objects[p].data # t
            /\ \A i, k \in Jobs : Making(doing[i], t) /\ Making(doing[k], t) => i = k
        BY <1>i DEF Single
      <3>2. Making(doing[j], text)
        BY <1>1, <1>3 DEF Making
      <3>3. CASE t = text
        BY <1>4, <2>3, <2>4, <3>1, <3>2, <3>3
      <3>4. CASE t # text
        BY <1>2, <1>4, <2>3, <2>4, <3>1, <3>4
      <3>5. QED
        BY <3>3, <3>4
    <2>7. QED
      BY <2>2, <2>4, <2>5, <2>6 DEF IInv
  <1>5. CASE Begin(j, args, text) /\ UNCHANGED <<strings, held>>
    BY <1>1, <1>2, <1>5, BeginStep
  <1>6. QED
    BY <1>3, <1>4, <1>5 DEF Insert

(* A conversion answers with the same word under another tag.                 *)
LEMMA ConvertStep ==
  ASSUME IInv, NEW j \in Jobs, Convert(j)
  PROVE  IInv'
  <1>1. UNCHANGED <<objects, strings, raced, doing>>
    BY DEF Convert
  <1>2. PICK h \in held[j], tag \in Tags : Reply(j, {h}, Retag(h.value, tag), h.text)
    BY DEF Convert
  <1>3. Stands(h.value, h.text, objects, strings)
    BY DEF IInv, HeldOK
  <1>4. Stands(Retag(h.value, tag), h.text, objects, strings')
    BY <1>1, <1>3, RetagStands
  <1>5. HeldOK' /\ held' = [i \in Jobs |-> held'[i]]
    BY <1>1, <1>2, <1>4, ReplyKeeps
  <1>6. QED
    BY <1>1, <1>5, ReplyStep

(* A value is dropped from a stack.                                           *)
LEMMA DropStep ==
  ASSUME IInv, NEW j \in Jobs, Drop(j)
  PROVE  IInv'
  <1>1. UNCHANGED <<objects, strings, raced, doing>>
    BY DEF Drop
  <1>2. PICK h \in held[j] : held' = [held EXCEPT ![j] = @ \ {h}]
    BY DEF Drop
  <1>3. held = [i \in Jobs |-> held[i]] /\ HeldOK
    BY DEF IInv, FunctionsOK
  <1>4. held' = [i \in Jobs |-> held'[i]] /\ \A i \in Jobs : held'[i] \subseteq held[i]
    BY <1>2, <1>3
  <1>5. HeldOK'
    BY <1>1, <1>3, <1>4 DEF HeldOK
  <1>6. QED
    BY <1>1, <1>4, <1>5, ReplyStep

(* The steps of a collection that free nothing.                               *)
LEMMA OtherStep ==
  ASSUME IInv, UNCHANGED <<objects, strings, held, doing, raced>>
  PROVE  IInv'
  <1>1. HeldOK' /\ held' = [i \in Jobs |-> held'[i]]
    BY DEF IInv, HeldOK, FunctionsOK
  <1>2. QED
    BY <1>1, ReplyStep

(* The end of a collection: what is held or about to be inserted stays, and   *)
(* of a text whose race is over at most one object is left.                   *)
LEMMA EndCollectionStep ==
  ASSUME IInv, EndCollection
  PROVE  IInv'
  <1>i. FunctionsOK /\ ObjectsOK /\ HeldOK /\ DoingOK /\ Single
    BY DEF IInv
  <1>1. PICK dead \in SUBSET Unreachable :
          /\ objects' = [o \in DOMAIN objects \ dead |-> objects[o]]
          /\ strings' = strings \ dead
          /\ raced' = {t \in raced : Cardinality(Copies(t) \ dead) > 1
                         \/ \E j \in Jobs : doing[j].at \in {"create", "insert"}
                                            /\ doing[j].text = t}
    BY DEF EndCollection
  <1>2. held' = held /\ doing' = doing
    BY DEF EndCollection
  <1>3. DOMAIN objects' = DOMAIN objects \ dead /\ \A o \in DOMAIN objects' : objects'[o] = objects[o]
    BY <1>1
  <1>4. FunctionsOK'
    <2>1. IsFiniteSet(DOMAIN objects')
      <3>1. IsFiniteSet(DOMAIN objects)
        BY <1>i DEF FunctionsOK
      <3>2. QED
        BY <1>3, <3>1, FS_Subset
    <2>2. objects' = [q \in DOMAIN objects' |-> objects'[q]]
      BY <1>1
    <2>3. strings' \subseteq DOMAIN objects' /\ held' = [i \in Jobs |-> held'[i]]
          /\ doing' = [i \in Jobs |-> doing'[i]]
      BY <1>1, <1>2, <1>3, <1>i DEF FunctionsOK
    <2>4. QED
      BY <2>1, <2>2, <2>3 DEF FunctionsOK
  <1>5. ObjectsOK'
    BY <1>3, <1>i DEF ObjectsOK
  <1>6. HeldOK'
    <2>1. ASSUME NEW i \in Jobs, NEW h \in held[i]
          PROVE  Stands(h.value, h.text, objects', strings')
      <3>1. Stands(h.value, h.text, objects, strings)
        BY <1>i DEF HeldOK
      <3>2. ASSUME NEW o \in strings \cap DOMAIN objects, NEW tag,
                   h.value = [tag |-> tag, object |-> o]
            PROVE  o \notin dead
        <4>1. IsObject(h.value) /\ h.value.object = o
          BY <3>2 DEF IsObject
        <4>2. o \in ObjectsOf(i)
          BY <4>1 DEF ObjectsOf
        <4>3. QED
          BY <1>1, <4>2 DEF Unreachable
      <3>3. QED
        BY <1>1, <1>3, <3>1, <3>2, StillStands
    <2>2. QED
      BY <1>2, <2>1 DEF HeldOK
  <1>7. DoingOK'
    <2>1. ASSUME NEW i \in Jobs PROVE Busy(doing[i], objects')
      <3>1. Busy(doing[i], objects)
        BY <1>i DEF DoingOK
      <3>2. CASE \E t \in Longs, p \in DOMAIN objects : \E as :
                   /\ doing[i] = [at |-> "insert", text |-> t, object |-> p, args |-> as]
                   /\ objects[p].data = t
        <4>1. PICK t \in Longs, p \in DOMAIN objects : \E as :
                   /\ doing[i] = [at |-> "insert", text |-> t, object |-> p, args |-> as]
                   /\ objects[p].data = t
          BY <3>2
        <4>2. doing[i].at = "insert" /\ doing[i].object = p
          BY <4>1
        <4>3. p \in InFlight
          BY <4>2 DEF InFlight
        <4>4. p \in DOMAIN objects' /\ objects'[p].data = t
          BY <1>1, <1>3, <4>1, <4>3 DEF Unreachable
        <4>5. QED
          BY <4>1, <4>4 DEF Busy
      <3>3. QED
        BY <3>1, <3>2 DEF Busy
    <2>2. QED
      BY <1>2, <2>1 DEF DoingOK
  <1>8. Single'
    <2>1. \A p \in strings' : p \in strings /\ p \notin dead /\ objects'[p] = objects[p]
      BY <1>1, <1>3, <1>i DEF FunctionsOK
    <2> SUFFICES ASSUME NEW t, t \notin raced'
                 PROVE  /\ \A o, p \in strings' : objects'[o].data = t /\ objects'[p].data = t => o = p
                        /\ \A i \in Jobs : Making(doing[i], t) => \A o \in strings' : objects'[o].data # t
                        /\ \A i, k \in Jobs : Making(doing[i], t) /\ Making(doing[k], t) => i = k
      BY <1>2 DEF Single
    <2>2. CASE t \notin raced
      BY <1>i, <2>1, <2>2 DEF Single
    <2>3. CASE t \in raced
      <3> DEFINE left == Copies(t) \ dead
      <3>1. ~(Cardinality(left) > 1) /\ \A i \in Jobs : ~Making(doing[i], t)
        BY <1>1, <2>3 DEF Making
      <3>2. IsFiniteSet(left)
        <4>1. left \subseteq DOMAIN objects
          BY DEF Copies
        <4>2. QED
          BY <1>i, <4>1, FS_Subset DEF FunctionsOK
      <3>3. ASSUME NEW o \in strings', NEW p \in strings',
                   objects'[o].data = t, objects'[p].data = t, o # p
            PROVE  FALSE
        <4>1. {o, p} \subseteq left
          BY <1>i, <2>1, <3>3 DEF Copies, FunctionsOK
        <4> HIDE DEF left
        <4>2. Cardinality({o, p}) = 2
          <5>1. IsFiniteSet({o}) /\ Cardinality({o}) = 1
            BY FS_Singleton
          <5>2. Cardinality({o} \cup {p}) = Cardinality({o}) + 1
            BY <3>3, <5>1, FS_AddElement
          <5>3. {o} \cup {p} = {o, p}
            OBVIOUS
          <5>4. QED
            BY <5>1, <5>2, <5>3
        <4>3. Cardinality(left) \in Nat /\ Cardinality({o, p}) <= Cardinality(left)
          BY <3>2, <4>1, FS_Subset, FS_CardinalityType
        <4>4. QED
          BY <3>1, <4>2, <4>3
      <3>4. QED
        BY <3>1, <3>3
    <2>4. QED
      BY <2>2, <2>3
  <1>9. QED
    BY <1>4, <1>5, <1>6, <1>7, <1>8 DEF IInv

-----------------------------------------------------------------------------
(* What the steps of all jobs keep, and what follows                         *)

(* Nothing is made and nobody holds anything at the start.                    *)
LEMMA InitHolds == Init => IInv
  <1> SUFFICES ASSUME Init PROVE IInv
    OBVIOUS
  <1>1. DOMAIN objects = {} /\ objects = <<>> /\ strings = {}
    BY DEF Init
  <1>2. FunctionsOK
    BY <1>1, FS_EmptySet DEF Init, FunctionsOK
  <1>3. ObjectsOK /\ HeldOK
    BY <1>1 DEF Init, ObjectsOK, HeldOK
  <1>4. DoingOK
    BY DEF Init, DoingOK, Busy
  <1>5. Single
    BY <1>1 DEF Init, Single, Making, Idle
  <1>6. QED
    BY <1>2, <1>3, <1>4, <1>5 DEF IInv

(* Every step keeps the invariant.                                            *)
LEMMA NextKeeps == TextsAreBytes /\ IInv /\ [Next]_textVars => IInv'
  <1> SUFFICES ASSUME TextsAreBytes, IInv, [Next]_textVars PROVE IInv'
    OBVIOUS
  <1>1. ASSUME NEW j \in Jobs, NString(j) PROVE IInv'
    BY <1>1, NStringStep
  <1>2. ASSUME NEW j \in Jobs, StrCat(j) PROVE IInv'
    BY <1>2, StrCatStep
  <1>3. ASSUME NEW j \in Jobs, Look(j) PROVE IInv'
    BY <1>3, LookStep
  <1>4. ASSUME NEW j \in Jobs, Create(j) PROVE IInv'
    BY <1>4, CreateStep
  <1>5. ASSUME NEW j \in Jobs, Insert(j) PROVE IInv'
    BY <1>5, InsertStep
  <1>6. ASSUME NEW j \in Jobs, Convert(j) PROVE IInv'
    BY <1>6, ConvertStep
  <1>7. ASSUME NEW j \in Jobs, Drop(j) PROVE IInv'
    BY <1>7, DropStep
  <1>8. CASE (\E j \in Jobs : Report(j)) \/ StartCollection
    BY <1>8, OtherStep DEF Report, StartCollection
  <1>9. CASE EndCollection
    BY <1>9, EndCollectionStep
  <1>10. CASE UNCHANGED textVars
    BY <1>10, OtherStep DEF textVars
  <1>11. QED
    BY <1>1, <1>2, <1>3, <1>4, <1>5, <1>6, <1>7, <1>8, <1>9, <1>10 DEF Next

(* Two values of a text and a tag are both packed, or the one object of the   *)
(* table with that text.                                                      *)
LEMMA EqualHolds == IInv => EqualIsSame
  <1> SUFFICES ASSUME IInv, NEW x \in Held, NEW y \in Held,
                      x.text = y.text, x.value.tag = y.value.tag, x.text \notin raced
               PROVE  x.value = y.value
    BY DEF EqualIsSame
  <1>1. PICK v, w, text : v = x.value /\ w = y.value /\ text = x.text
    OBVIOUS
  <1>2. Stands(v, text, objects, strings) /\ Stands(w, text, objects, strings)
    BY <1>1 DEF IInv, HeldOK, Held
  <1>3. v.tag = w.tag /\ text \notin raced
    BY <1>1
  <1>3a. PICK l \in Nat : l = Len(text)
    BY <1>2 DEF Stands
  <1>4. CASE Packed(v, text) /\ Packed(w, text)
    <2>1. PICK t1 \in Tags : v = [tag |-> t1, short |-> Pad(text), spare |-> 5 - Len(text)]
      BY <1>4 DEF Packed
    <2>2. PICK t2 \in Tags : w = [tag |-> t2, short |-> Pad(text), spare |-> 5 - Len(text)]
      BY <1>4 DEF Packed
    <2>3. v.tag = t1 /\ w.tag = t2
      BY <2>1, <2>2
    <2>4. QED
      BY <1>1, <1>3, <2>1, <2>2, <2>3
  <1>5. CASE Interned(v, text, objects, strings) /\ Interned(w, text, objects, strings)
    <2>1. PICK t1 \in Tags, o \in strings : v = [tag |-> t1, object |-> o] /\ objects[o].data = text
      BY <1>5 DEF Interned
    <2>2. PICK t2 \in Tags, p \in strings : w = [tag |-> t2, object |-> p] /\ objects[p].data = text
      BY <1>5 DEF Interned
    <2>3. o = p
      BY <1>3, <2>1, <2>2 DEF IInv, Single
    <2>4. v.tag = t1 /\ w.tag = t2
      BY <2>1, <2>2
    <2>5. QED
      BY <1>1, <1>3, <2>1, <2>2, <2>3, <2>4
  <1>6. ~(Len(text) <= 5 /\ 5 < Len(text))
    BY <1>3a
  <1>7. QED
    BY <1>2, <1>4, <1>5, <1>6 DEF Stands, Packed, Interned

(* What stands for a text reads as it.                                        *)
LEMMA ExactHolds == IInv => TextIsExact
  <1> SUFFICES ASSUME IInv, NEW j \in Jobs, NEW h \in held[j]
               PROVE  StrBytes(h.value) = h.text /\ StrMbLen(h.value) = Codepoints(h.text)
    BY DEF TextIsExact, Held
  <1>1. Stands(h.value, h.text, objects, strings) /\ ObjectsOK
    BY DEF IInv, HeldOK
  <1>2. QED
    BY <1>1, ReadsAs

-----------------------------------------------------------------------------
(* Theorems                                                                   *)

(* The invariant holds at the start and is kept by every step: what each job  *)
(* holds stands for its text, and of a text there is one object in the table  *)
(* or one job that makes it, unless two jobs raced for it.                    *)
THEOREM Inductive == TextsAreBytes => (Spec => []IInv)
  <1> SUFFICES ASSUME TextsAreBytes PROVE Spec => []IInv
    OBVIOUS
  <1>1. IInv /\ [Next]_textVars => IInv'
    BY NextKeeps
  <1>2. QED
    BY InitHolds, <1>1, PTL DEF Spec

(* Equal texts are one value, so that comparing words compares texts, however *)
(* the strings were made and whatever was collected in between; the one       *)
(* exception is the race that gab_tnstring leaves open.                       *)
THEOREM EqualTextsAreOneValue == TextsAreBytes => (Spec => []EqualIsSame)
  BY EqualHolds, Inductive, PTL

(* A value reads as the text it was made for, its bytes and its number of     *)
(* characters: packed with its padding and its length byte, joined from two,  *)
(* retagged, or read from an object that many jobs share.                     *)
THEOREM ValueReadsAsText == TextsAreBytes => (Spec => []TextIsExact)
  BY ExactHolds, Inductive, PTL
=============================================================================
