------------------------------- MODULE Shapes -------------------------------
(***************************************************************************)
(* Shapes: immutable sequences of distinct keys, each stored as a hash     *)
(* array mapped trie whose leaves hold a key and its index.  New shapes    *)
(* share nodes with old ones; a node is written only while it is new.      *)
(* Every shape is interned, so that equal sequences are the same object    *)
(* and records can be compared by the address of their shape.              *)
(*                                                                         *)
(* mem is the memory, an address is a position in it.  A node's array of   *)
(* masks and pairs is the function "at" from the used indices to entries;  *)
(* "room" is the number of pairs that its array was allocated for.         *)
(***************************************************************************)
EXTENDS Integers, Sequences, FiniteSets, SequencesExt

CONSTANTS
  ShpBits,   \* GAB_PVEC_BITS, 5
  HashLen,   \* bits of a key, 64
  Keys,      \* the keys; number k is gab_number(k)
  Given,     \* the arrays of keys that gab_shape is called with
  Hashes,    \* the values of a hash: small, for collisions
  MaxShapes  \* bound: shapes in the table

Width   == 2 ^ ShpBits
Invalid == 0             \* gab_cinvalid
NotFound == -1

VARIABLES
  mem,     \* the nodes, in order of their creation
  table,   \* eg->shapes: the interned shapes
  spelled  \* history: the keys for which each interned shape was made

shapeVars == <<mem, table, spelled>>

Node(kind, len, hash, room, at) ==
  [kind |-> kind, len |-> len, hash |-> hash, room |-> room, at |-> at]

Leaf(key, i)  == [leaf |-> TRUE, key |-> key, val |-> i]
Branch(child) == [leaf |-> FALSE, key |-> child, val |-> 0]

NoEntries == [x \in {} |-> Leaf(0, 0)]

(* The bits of a key that select the entry at some depth; when they are    *)
(* used up, the next round starts one bit later.                           *)
Midx(key, shift) == (key \div 2 ^ shift) % Width
NextShift(shift) ==
  IF shift + ShpBits >= HashLen THEN (shift + ShpBits + 1) % ShpBits
                                ELSE shift + ShpBits

(* Memory operations; a new node is the last one.                          *)
New(m, node) == Append(m, node)
Newest(m)    == Len(m)
SetEntry(m, a, x, e) ==
  [m EXCEPT ![a].at = [y \in DOMAIN @ \cup {x} |-> IF y = x THEN e ELSE @[y]]]
Copy(m, a, more) == New(m, [m[a] EXCEPT !.room = @ + more])

RECURSIVE FindFrom(_, _, _, _), Leaves(_, _), PutIn(_, _, _, _, _),
          Promote(_, _, _, _, _, _), TakeFrom(_, _, _, _)

(* gab_shpfind                                                             *)
FindFrom(m, a, key, shift) ==
  LET x == Midx(key, shift)
      e == m[a].at[x]
  IN CASE x \notin DOMAIN m[a].at -> NotFound
       [] x \in DOMAIN m[a].at /\ e.leaf -> IF e.key = key THEN e.val ELSE NotFound
       [] OTHER -> FindFrom(m, e.key, key, NextShift(shift))

Find(m, a, key) == FindFrom(m, a, key, 0)

(* What a walk over the tree meets.                                        *)
Leaves(m, a) ==
  UNION {IF m[a].at[x].leaf THEN {m[a].at[x]} ELSE Leaves(m, m[a].at[x].key) :
           x \in DOMAIN m[a].at}

(* gab_ushpat                                                              *)
KeyAt(m, a, i) == (CHOOSE e \in Leaves(m, a) : e.val = i).key

(* Two keys that agree so far: new nodes until they differ.                *)
Promote(m, a, shift, x, new, old) ==
  LET s  == NextShift(shift)
      y  == Midx(new.key, s)
      z  == Midx(old.key, s)
      m1 == New(m, Node("node", 0, 0, IF y = z THEN 1 ELSE 2, NoEntries))
      b  == Newest(m1)
      m2 == SetEntry(m1, a, x, Branch(b))
  IN IF y = z THEN Promote(m2, b, s, y, new, old)
              ELSE SetEntry(SetEntry(m2, b, y, new), b, z, old)

(* __gab_shpput below node a, which is new.                                *)
PutIn(m, a, key, i, shift) ==
  LET x    == Midx(key, shift)
      used == x \in DOMAIN m[a].at
      e    == m[a].at[x]
      m1   == Copy(m, e.key,
                   IF Midx(key, NextShift(shift)) \in DOMAIN m[e.key].at THEN 0 ELSE 1)
  IN CASE ~used -> SetEntry(m, a, x, Leaf(key, i))
       [] used /\ ~e.leaf ->
            PutIn(SetEntry(m1, a, x, Branch(Newest(m1))), Newest(m1), key, i,
                  NextShift(shift))
       [] used /\ e.leaf /\ e.key = key -> SetEntry(m, a, x, Leaf(key, i))
       [] OTHER -> Promote(m, a, shift, x, Leaf(key, i), e)

(* Faulty variant: the root is written where it is.                        *)
ShpPutHere(m, a, key, i) == [mem |-> PutIn(m, a, key, i, 0), root |-> a]

(* __gab_shpput: the new shape and the memory that it is in.               *)
ShpPut(m, a, key, i) ==
  LET m1 == Copy(m, a, IF Midx(key, 0) \in DOMAIN m[a].at THEN 0 ELSE 1)
  IN [mem |-> PutIn(m1, Newest(m1), key, i, 0), root |-> Newest(m1)]

(* A copy of node a without entry x, unless it is an inner node that would *)
(* be empty.                                                               *)
Shrink(m, a, x) ==
  IF m[a].kind = "node" /\ m[a].room = 1
  THEN [mem |-> m, root |-> Invalid]
  ELSE LET m1 == Copy(m, a, -1)
       IN [mem |-> [m1 EXCEPT ![Newest(m1)].at =
                      [y \in DOMAIN @ \ {x} |-> @[y]]],
           root |-> Newest(m1)]

(* __gab_rshptake: the path to the key is copied, from the leaf upwards.   *)
TakeFrom(m, a, key, shift) ==
  LET x   == Midx(key, shift)
      e   == m[a].at[x]
      sub == TakeFrom(m, e.key, key, NextShift(shift))
      m1  == Copy(sub.mem, a, 0)
  IN CASE e.leaf -> Shrink(m, a, x)
       [] ~e.leaf /\ sub.root = Invalid -> Shrink(sub.mem, a, x)
       [] OTHER -> [mem |-> SetEntry(m1, Newest(m1), x, Branch(sub.root)),
                    root |-> Newest(m1)]

(* __gab_shptake: the last key moves to where the taken one was.           *)
ShpTake(m, a, key, last, i) ==
  LET t == TakeFrom(m, a, key, 0)
  IN IF last = key THEN t ELSE ShpPut(t.mem, t.root, last, i)

-----------------------------------------------------------------------------
(* The intern table.                                                       *)

(* __gab_chshwords, with collisions; the hash of a single key tells it     *)
(* from the others, which FNV-1a over 64 bits does short of an attack.     *)
HashOn(hash, key) == (hash + key + 1) % Hashes
Hash(keys) == FoldLeft(HashOn, 0, keys)

(* __gab_egshpfind: interned shapes with these keys.                       *)
Interned(keys) ==
  {a \in table :
     /\ mem[a].len = Len(keys)
     /\ mem[a].hash = Hash(keys)
     /\ \A e \in Leaves(mem, a) : keys[e.val + 1] = e.key}

(* Faulty variant: the length of a is compared.                            *)
InternedSameLen(a, key) ==
  {b \in table : mem[b].len = mem[a].len /\ mem[b].hash = HashOn(mem[a].hash, key)}

(* __gab_legshpfind: interned shapes with the keys of a and then key.      *)
InternedWith(a, key) ==
  {b \in table :
     /\ mem[b].len = mem[a].len + 1
     /\ mem[b].hash = HashOn(mem[a].hash, key)
     /\ \/ mem[a].len = 0
        \/ /\ KeyAt(mem, b, mem[a].len) = key
           /\ \A e \in Leaves(mem, a) : Find(mem, b, e.key) = e.val}

(* d_shapes_insert, and what a caller will believe of the new shape.       *)
Intern(m, a, keys) ==
  /\ Cardinality(table) < MaxShapes
  /\ mem' = m
  /\ table' = table \cup {a}
  /\ spelled' = [b \in table \cup {a} |-> IF b = a THEN keys ELSE spelled[b]]

Init ==
  /\ mem = <<>>
  /\ table = {}
  /\ spelled = [a \in {} |-> <<>>]

(* __gab_shpprepkeys: a key counts where it is first seen.                 *)
Distinct(keys) ==
  FoldLeft(LAMBDA seen, k : IF Contains(seen, k) THEN seen ELSE Append(seen, k),
           <<>>, keys)

(* __gab_shpchkdemote: a list has number i as its key i.                   *)
Demote(t, key, i) ==
  IF t.mem[t.root].kind = "list" /\ key # i
  THEN [t EXCEPT !.mem[t.root].kind = "shape"]
  ELSE t

(* __gab_nshape: one put after the other, from an empty list.              *)
Built(m, keys) ==
  LET m0 == New(m, Node("list", Len(keys), Hash(keys), 0, NoEntries))
  IN FoldLeft(LAMBDA t, i : Demote(ShpPut(t.mem, t.root, keys[i], i - 1), keys[i], i - 1),
              [mem |-> m0, root |-> Newest(m0)],
              [i \in 1..Len(keys) |-> i])

(* gab_tshape                                                              *)
Make(given) ==
  LET keys == Distinct(given)
      t    == Built(mem, keys)
  IN /\ Interned(keys) = {}
     /\ Intern(t.mem, t.root, keys)

(* gab_tshpwith: nothing to do if the key is there or the result is known. *)
With(a, key) ==
  LET t  == ShpPut(mem, a, key, mem[a].len)
      t1 == [t EXCEPT !.mem[t.root].hash = HashOn(mem[a].hash, key),
                      !.mem[t.root].len = mem[a].len + 1]
      t2 == Demote(t1, key, mem[a].len)
  IN /\ Find(mem, a, key) = NotFound
     /\ InternedWith(a, key) = {}
     /\ Intern(t2.mem, t2.root, Append(spelled[a], key))

(* Faulty variant: a shape stays what it was when a key leaves.            *)
StillList(a, keys, last) == mem[a].kind = "list"

(* The promotion test of __gab_shppopulate_keys: of the last key only the  *)
(* place where it moves counts.                                            *)
IsList(a, keys, last) ==
  \A e \in Leaves(mem, a) :
    e.key # last => keys[e.val + 1] = e.val

(* gab_tshpwithout: "mimics the swap-and-pop that records do".             *)
Without(a, key) ==
  LET len   == mem[a].len
      last  == KeyAt(mem, a, len - 1)
      found == Find(mem, a, key)
      all   == [i \in 1..len |->
                  LET k == KeyAt(mem, a, i - 1) IN IF k = key THEN last ELSE k]
      keys  == SubSeq(all, 1, len - 1)
      t     == ShpTake(mem, a, key, last, found)
      t1    == [t EXCEPT !.mem[t.root].hash = Hash(keys),
                         !.mem[t.root].len = len - 1,
                         !.mem[t.root].kind = IF IsList(a, all, last)
                                              THEN "list" ELSE "shape"]
      moved == SubSeq([spelled[a] EXCEPT ![found + 1] = spelled[a][len]], 1, len - 1)
  IN /\ len > 0
     /\ found # NotFound
     /\ Interned(keys) = {}
     /\ Intern(t1.mem, t1.root, moved)

Next ==
  \/ \E given \in Given : Make(given)
  \/ \E a \in table, key \in Keys : With(a, key) \/ Without(a, key)

-----------------------------------------------------------------------------
(* Every interned shape still says what it was made to say, whatever was   *)
(* made from it since: its length, the index of every key, the key at      *)
(* every index, whether it is a list (gab_shpfind, gab_ushpat, gab_shpisl),*)
(* and its arrays have exactly the size of what is in them                 *)
(* (__gab_validatenode).                                                   *)
RECURSIVE Valid(_, _)
Valid(m, a) ==
  /\ m[a].room = Cardinality(DOMAIN m[a].at)
  /\ \A x \in DOMAIN m[a].at : m[a].at[x].leaf \/ Valid(m, m[a].at[x].key)

ShapesKeep ==
  \A a \in table :
    LET keys == spelled[a]
    IN /\ mem[a].len = Len(keys)
       /\ \A k \in Keys : Find(mem, a, k) =
            IF Contains(keys, k) THEN (CHOOSE i \in 1..Len(keys) : keys[i] = k) - 1
                                 ELSE NotFound
       /\ \A i \in 1..Len(keys) : KeyAt(mem, a, i - 1) = keys[i]
       /\ (mem[a].kind = "list") = (\A i \in 1..Len(keys) : keys[i] = i - 1)
       /\ Valid(mem, a)

(* Two shapes with the same keys are the same object, whichever calls led  *)
(* to them (gabtest/shapes.c, test_shape_transitions).  One thread is      *)
(* assumed: for several, see Intern.                                       *)
ShapesAreUnique ==
  \A a, b \in table : spelled[a] = spelled[b] => a = b
=============================================================================
