------------------------------ MODULE Records -------------------------------
(***************************************************************************)
(* Records: immutable maps from the keys of a shape to values.  The values *)
(* are in a tree of nodes with at most Width entries each, at the index    *)
(* that the shape gives their key.  An update copies the path to what it   *)
(* changes and shares the rest with the old record.                        *)
(*                                                                         *)
(* A shape is the sequence of its keys: that is what Shapes promises.      *)
(* mem is the memory, an address is a position in it.  In the data of a    *)
(* node positive numbers are addresses, negative ones are values.          *)
(***************************************************************************)
EXTENDS Integers, Sequences, FiniteSets, SequencesExt

CONSTANTS
  PvecBits,   \* GAB_PVEC_BITS, 5
  Keys,       \* the keys; number k is gab_number(k)
  Given,      \* the arrays of keys that gab_record is called with
  Sizes,      \* the sizes of the first record
  Cats,       \* how many records a call of gab_nlstcat gets
  MaxRecords  \* bound: records made

Width   == 2 ^ PvecBits
Invalid == 0     \* gab_cinvalid
Zeroed  == -1    \* the number 0, which is what calloc leaves
Nil     == -2

VARIABLES
  mem,      \* the nodes, in order of their creation
  records,  \* the records that the program holds
  means     \* history: what each of them should map its keys to

recordVars == <<mem, records, means>>

(* Values that are in no record yet.                                       *)
Fresh(m, i) == -3 - 100 * Len(m) - i

Newest(m) == Len(m)
NewNode(m, n)   == Append(m, [kind |-> "node", shift |-> 0, shape |-> <<>>,
                              data |-> [i \in 1..n |-> Invalid]])
Assoc(m, a, v, i) == [m EXCEPT ![a].data[i + 1] = v]
Nth(m, a, i)      == m[a].data[i + 1]
NodeLen(m, a)     == IF a = Invalid THEN 0 ELSE Len(m[a].data)
Index(i, level)   == (i \div 2 ^ level) % Width

(* __gab_reccpy, more in {-1, 0, 1}: an inner node that would be empty is  *)
(* not made; a copy of nothing is a node with room for one entry.          *)
Copy(m, a, more) ==
  LET n == NodeLen(m, a) + more
  IN CASE a = Invalid -> [mem |-> NewNode(m, 1), root |-> Newest(m) + 1]
       [] a # Invalid /\ m[a].kind = "node" /\ n <= 0 -> [mem |-> m, root |-> Invalid]
       [] OTHER ->
            [mem |-> Append(m, [m[a] EXCEPT !.data =
                       [i \in 1..n |-> IF i <= Len(@) THEN @[i] ELSE Invalid]]),
             root |-> Newest(m) + 1]

RECURSIVE At(_, _, _, _), PutDown(_, _, _, _, _), PutHere(_, _, _, _, _),
          Fill(_, _, _, _, _, _), TakeDown(_, _, _, _, _, _), ShiftFor(_, _)

(* gab_uvrecat                                                             *)
At(m, a, level, i) ==
  IF level = 0 THEN Nth(m, a, Index(i, 0))
               ELSE At(m, Nth(m, a, Index(i, level)), level - PvecBits, i)
Value(m, r, i) == At(m, r, m[r].shift, i)

(* __gab_mrecput: a write into a record that nobody else has seen.         *)
PutHere(m, a, level, v, i) ==
  IF level = 0 THEN Assoc(m, a, v, Index(i, 0))
               ELSE PutHere(m, Nth(m, a, Index(i, level)), level - PvecBits, v, i)

(* __gab_recput below node a, which is new: each node on the path is       *)
(* replaced by a copy, with one more entry where the next step needs it.   *)
PutDown(m, a, level, v, i) ==
  LET x == Index(i, level)
      y == Index(i, level - PvecBits)
      t == IF x < NodeLen(m, a)
           THEN Copy(m, Nth(m, a, x),
                     IF y >= NodeLen(m, Nth(m, a, x)) THEN 1 ELSE 0)
           ELSE [mem |-> NewNode(m, 1), root |-> Newest(m) + 1]
  IN IF level = 0 THEN Assoc(m, a, v, Index(i, 0))
     ELSE PutDown(Assoc(t.mem, a, t.root, x), t.root, level - PvecBits, v, i)

(* Faulty variant: only the root of the path is copied.                    *)
RecPutShallow(m, r, v, i) ==
  LET t == Copy(m, r, IF Index(i, m[r].shift) >= NodeLen(m, r) THEN 1 ELSE 0)
  IN [mem  |-> IF i < Len(m[r].shape) THEN PutHere(t.mem, t.root, m[r].shift, v, i)
               ELSE PutDown(t.mem, t.root, m[r].shift, v, i),
      root |-> t.root]

(* __gab_recput on a copy of the root, with __gab_recneedsspace.           *)
RecPut(m, r, v, i) ==
  LET t == Copy(m, r, IF Index(i, m[r].shift) >= NodeLen(m, r) THEN 1 ELSE 0)
  IN [mem |-> PutDown(t.mem, t.root, m[r].shift, v, i), root |-> t.root]

(* __gab_reccons: a value after the last; a full tree gets a new root.     *)
RecCons(m, r, v, shape) ==
  LET i    == Len(m[r].shape)
      full == i \div Width >= 2 ^ m[r].shift
      m1   == Append(m, [kind |-> "record", shift |-> m[r].shift + PvecBits,
                         shape |-> shape, data |-> <<r, Invalid>>])
      t    == RecPut(m, r, v, i)
  IN IF full
     THEN [mem |-> PutDown(m1, Newest(m1), m1[Newest(m1)].shift, v, i),
           root |-> Newest(m1)]
     ELSE [t EXCEPT !.mem[t.root].shape = shape]

(* __gab_rectake below node a: entry i becomes v (unless v is Invalid),    *)
(* and the last entry goes if a is on the rightmost path (right).  While   *)
(* both paths are the same they are walked once.                           *)
TakeDown(m, a, level, i, v, right) ==
  LET x     == Index(i, level)
      last  == Len(m[a].data) - 1
      below == level - PvecBits
      same  == right /\ v # Invalid /\ x = last
      r     == IF right
               THEN TakeDown(m, Nth(m, a, last), below, i,
                             IF same THEN v ELSE Invalid, TRUE)
               ELSE [mem |-> m, root |-> Nth(m, a, last)]
      c     == IF v # Invalid /\ ~same
               THEN TakeDown(r.mem, Nth(m, a, x), below, i, v, FALSE)
               ELSE [mem |-> r.mem, root |-> Invalid]
      t     == Copy(c.mem, a, IF r.root = Invalid THEN -1 ELSE 0)
      m1    == IF r.root = Invalid THEN t.mem ELSE Assoc(t.mem, t.root, r.root, last)
      leaf  == Copy(m, a, IF right THEN -1 ELSE 0)
  IN CASE level = 0 ->
            IF v # Invalid /\ x < NodeLen(leaf.mem, leaf.root)
            THEN [leaf EXCEPT !.mem = Assoc(@, leaf.root, v, x)]
            ELSE leaf
       [] level # 0 /\ (t.root = Invalid \/ v = Invalid \/ same) ->
            [mem |-> m1, root |-> t.root]
       [] OTHER -> [mem |-> Assoc(m1, t.root, c.root, x), root |-> t.root]

(* __gab_pvecshift and __gab_pveclen: the form of a tree for n values.     *)
ShiftFor(n, shift) ==
  IF (IF n = 0 THEN 0 ELSE n - 1) \div Width >= 2 ^ shift
  THEN ShiftFor(n, shift + PvecBits)
  ELSE shift
LenFor(n, shift) == Index(IF n = 0 THEN 0 ELSE n - 1, shift) + 1

(* __gab_recfillchildren: full children, and on the right what is left.    *)
Fill(m, a, shift, n, len, right) ==
  LET Add(t, i) ==
        LET size == IF right /\ i = len THEN LenFor(n, shift - PvecBits) ELSE Width
            m1   == NewNode(t, size)
            m2   == Fill(m1, Newest(m1), shift - PvecBits, n, size, right /\ i = len)
        IN Assoc(m2, a, Newest(m1), i - 1)
  IN IF shift = 0 THEN m ELSE FoldLeft(Add, m, [i \in 1..len |-> i])

(* gab_recordfrom, gab_shptorec: a new tree for a shape, then its values.  *)
Build(m, shape, vals) ==
  LET n     == Len(shape)
      shift == ShiftFor(n, 0)
      len   == LenFor(n, shift)
      m0    == Append(m, [kind |-> "record", shift |-> shift, shape |-> shape,
                          data |-> [i \in 1..len |-> Zeroed]])
      r     == Newest(m0)
      m1    == IF n = 0 THEN m0 ELSE Fill(m0, r, shift, n, len, TRUE)
  IN [mem |-> FoldLeft(LAMBDA t, i : PutHere(t, r, shift, vals[i], i - 1), m1,
                       [i \in 1..n |-> i]),
      root |-> r]

-----------------------------------------------------------------------------
(* The calls.                                                              *)

Shape(r)      == mem[r].shape
Size(r)       == Len(mem[r].shape)
Has(r, k)     == Contains(Shape(r), k)
KeyIndex(s, k) == (CHOOSE i \in 1..Len(s) : s[i] = k) - 1

(* The values of r in order, read from the tree.                           *)
Vals(r) == [i \in 1..Size(r) |-> Value(mem, r, i - 1)]

Numbers(n) == [i \in 1..n |-> i - 1]

Distinct(keys) ==
  FoldLeft(LAMBDA seen, k : IF Contains(seen, k) THEN seen ELSE Append(seen, k),
           <<>>, keys)

(* What a map with these keys and values should be: the last one counts.   *)
MapOf(keys, vals) ==
  [k \in ToSet(keys) |->
     vals[CHOOSE i \in 1..Len(keys) :
            keys[i] = k /\ \A j \in (i + 1)..Len(keys) : keys[j] # k]]

(* Its values in order.                                                    *)
Listed(r) == [i \in 1..Size(r) |-> means[r][Shape(r)[i]]]

With(map, k, v) == [j \in DOMAIN map \cup {k} |-> IF j = k THEN v ELSE map[j]]
Without(map, k) == [j \in DOMAIN map \ {k} |-> map[j]]

(* A call returns record t.root, which should be map.                      *)
Return(t, map) ==
  /\ Cardinality(records) < MaxRecords
  /\ mem' = t.mem
  /\ records' = records \cup {t.root}
  /\ means' = [r \in records \cup {t.root} |-> IF r = t.root THEN map ELSE means[r]]

(* The program holds a list that gab_list made.                            *)
Init ==
  \E n \in Sizes :
    LET vals == [i \in 1..n |-> Fresh(<<>>, i)]
        t    == Build(<<>>, Numbers(n), vals)
    IN /\ mem = t.mem
       /\ records = {t.root}
       /\ means = [r \in {t.root} |-> MapOf(Numbers(n), vals)]

(* gab_record: when keys are repeated, the values are gathered first.      *)
Record(given) ==
  LET shape == Distinct(given)
      vals  == [i \in 1..Len(given) |-> Fresh(mem, i)]
      dedup == FoldLeft(LAMBDA d, i : [d EXCEPT ![KeyIndex(shape, given[i]) + 1] = vals[i]],
                        [i \in 1..Len(shape) |-> Nil], [i \in 1..Len(given) |-> i])
  IN Return(Build(mem, shape, IF Len(shape) < Len(given) THEN dedup ELSE vals),
            MapOf(given, vals))

(* gab_shptorec                                                            *)
FromShape(r) ==
  Return(Build(mem, Shape(r), [i \in 1..Size(r) |-> Nil]),
         [k \in DOMAIN means[r] |-> Nil])

(* gab_recput, in memory m.                                                *)
PutKey(m, r, k, v) ==
  IF Contains(m[r].shape, k)
  THEN RecPut(m, r, v, KeyIndex(m[r].shape, k))
  ELSE RecCons(m, r, v, Append(m[r].shape, k))

Put(r, k) ==
  Return(PutKey(mem, r, k, Fresh(mem, 1)), With(means[r], k, Fresh(mem, 1)))

(* gab_urecput                                                             *)
PutAt(r, i) ==
  /\ i < Size(r)
  /\ LET t == Copy(mem, r, 0)
     IN Return([t EXCEPT !.mem = PutDown(@, t.root, mem[r].shift, Fresh(mem, 1), i)],
               With(means[r], Shape(r)[i + 1], Fresh(mem, 1)))

(* gab_rectake: the last value moves to where the taken one was, in the    *)
(* tree and in the shape.  With gab_recpop k is the last key.              *)
Take(r, k) ==
  LET i    == KeyIndex(Shape(r), k)
      n    == Size(r)
      last == Value(mem, r, n - 1)
      t    == TakeDown(mem, r, mem[r].shift, i, last, TRUE)
      rest == SubSeq([Shape(r) EXCEPT ![i + 1] = Shape(r)[n]], 1, n - 1)
  IN /\ Has(r, k)
     /\ Return(IF n = 1 THEN Build(mem, <<>>, <<>>)
                        ELSE [t EXCEPT !.mem[t.root].shape = rest],
               Without(means[r], k))

(* gab_nlstpush: keys are numbered on from the size.                       *)
Push(r, n) ==
  LET v(i) == Fresh(mem, i)
      k(i) == Size(r) + i - 1
  IN Return(FoldLeft(LAMBDA t, i : PutKey(t.mem, t.root, k(i), v(i)),
                     [mem |-> mem, root |-> r], [i \in 1..n |-> i]),
            FoldLeft(LAMBDA map, i : With(map, k(i), v(i)),
                     means[r], [i \in 1..n |-> i]))

(* Faulty variant: a value that is at the end of one record is looked for  *)
(* in the next.                                                            *)
AmongstLate(rs, n) ==
  LET before(r) == FoldLeft(LAMBDA sum, j : sum + Size(rs[j]), 0, [j \in 1..r |-> j])
      total     == before(Len(rs))
      r         == CHOOSE r \in 0..total :
                     /\ r = total \/ n <= before(r + 1)
                     /\ \A q \in 0..(r - 1) : n > before(q + 1)
  IN Value(mem, rs[r + 1], n - before(r))

(* __gab_recnthamongst as gab_nlstcat calls it: with the number of values  *)
(* in the place of the number of records.                                  *)
Amongst(rs, n) ==
  LET before(r) == FoldLeft(LAMBDA sum, j : sum + Size(rs[j]), 0, [j \in 1..r |-> j])
      total     == before(Len(rs))
      r         == CHOOSE r \in 0..total :
                     /\ r = total \/ n < before(r + 1)
                     /\ \A q \in 0..(r - 1) : n >= before(q + 1)
  IN Value(mem, rs[r + 1], n - before(r))

(* gab_nlstcat                                                             *)
Cat(rs) ==
  LET n    == FoldLeft(LAMBDA sum, r : sum + Size(r), 0, rs)
      vals == [i \in 1..n |-> Amongst(rs, i - 1)]
  IN Return(Build(mem, Numbers(n), vals),
            MapOf(Numbers(n), FlattenSeq([j \in 1..Len(rs) |-> Listed(rs[j])])))

(* gab_nreccat: the keys in the order they are met, values of the last.    *)
RecCat(rs) ==
  LET shape == Distinct(FlattenSeq([j \in 1..Len(rs) |-> Shape(rs[j])]))
      val(k) == FoldLeft(LAMBDA v, r : IF Has(r, k) THEN Value(mem, r, KeyIndex(Shape(r), k))
                                                    ELSE v,
                         Nil, rs)
  IN Return(Build(mem, shape, [i \in 1..Len(shape) |-> val(shape[i])]),
            FoldLeft(LAMBDA map, r : [k \in DOMAIN map \cup DOMAIN means[r] |->
                       IF k \in DOMAIN means[r] THEN means[r][k] ELSE map[k]],
                     means[rs[1]], rs))

(* slice of crecords.c: a list of what is between two positions.           *)
Slice(r, from, to) ==
  LET n == to - from
  IN /\ from <= to /\ to <= Size(r)
     /\ Return(Build(mem, Numbers(n), SubSeq(Vals(r), from + 1, to)),
               MapOf(Numbers(n), SubSeq(Listed(r), from + 1, to)))

Next ==
  \/ \E given \in Given : Record(given)
  \/ \E n \in Cats : \E rs \in [1..n -> records] : Cat(rs) \/ RecCat(rs)
  \/ \E r \in records :
       \/ FromShape(r)
       \/ \E k \in Keys : Put(r, k) \/ Take(r, k)
       \/ \E i \in 0..(Size(r) - 1) : PutAt(r, i) \/ Slice(r, i, Size(r)) \/ Slice(r, 0, i)
       \/ \E n \in 1..2 : Push(r, n)

-----------------------------------------------------------------------------
(* Every record that the program holds maps its keys to the values it was  *)
(* made with, whatever was made from it and with its nodes since (at every *)
(* depth of the tree, on the way up and on the way down).                  *)
RecordsKeep ==
  \A r \in records :
    /\ ToSet(Shape(r)) = DOMAIN means[r]
    /\ Size(r) = Cardinality(DOMAIN means[r])
    /\ Vals(r) = Listed(r)
=============================================================================
