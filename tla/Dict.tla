-------------------------------- MODULE Dict ---------------------------------
(***************************************************************************)
(* The hash tables of dict.h: open addressing, linear probing, tombstones  *)
(* for removed keys.  A table has cap buckets; len counts the buckets that *)
(* were ever used since the table last grew, tombstones included.  That is *)
(* what keeps a bucket empty, without which a search would not end.        *)
(***************************************************************************)
EXTENDS Integers

CONSTANTS
  DictHash,    \* HASH: a function from keys to numbers
  LoadTenths,  \* LOAD, in tenths: 6
  LeastCap,    \* a table that grows gets at least this size: 8
  Missing      \* DEF_V, what a read answers for a key that is not there

Least(S) == CHOOSE i \in S : \A j \in S : i <= j

Empty     == [status |-> "empty", key |-> Missing, val |-> Missing]
Tombstone == "tombstone"
Full      == "full"

(* d_create                                                                *)
Create(cap) == [len |-> 0, cap |-> cap, buckets |-> [i \in 0..(cap - 1) |-> Empty]]

(* The i-th bucket where a key is looked for.                              *)
ProbeAt(d, key, i) == (DictHash[key] + i) % d.cap

(* The steps at which a search may stop, and those where it sees a         *)
(* tombstone.                                                              *)
Stops(d, key) ==
  {i \in 0..(d.cap - 1) :
     LET b == d.buckets[ProbeAt(d, key, i)]
     IN b.status = "empty" \/ (b.status = Full /\ b.key = key)}

Tombstones(d, key) ==
  {i \in 0..(d.cap - 1) : d.buckets[ProbeAt(d, key, i)].status = Tombstone}

(* Faulty variant: the first tombstone ends the search.                    *)
IndexOfEarly(d, key) ==
  ProbeAt(d, key, Least(Stops(d, key) \cup Tombstones(d, key)))

(* d_index_of: the bucket of the key; else the first tombstone on the way  *)
(* to an empty bucket, or that bucket.                                     *)
IndexOf(d, key) ==
  LET stop  == Least(Stops(d, key))
      there == d.buckets[ProbeAt(d, key, stop)].status = Full
      tombs == {i \in Tombstones(d, key) : i < stop}
  IN IF there \/ tombs = {} THEN ProbeAt(d, key, stop)
                            ELSE ProbeAt(d, key, Least(tombs))

(* The bucket of a new or known key is filled.                             *)
Store(d, key, val) ==
  LET i == IndexOf(d, key)
  IN [len     |-> d.len + (IF d.buckets[i].status = "empty" THEN 1 ELSE 0),
      cap     |-> d.cap,
      buckets |-> [d.buckets EXCEPT ![i] = [status |-> Full, key |-> key, val |-> val]]]

(* The full ones of the first n buckets, stored one after the other.       *)
Moved(d, cap) ==
  LET moved[n \in 0..d.cap] ==
        IF n = 0 THEN Create(cap)
        ELSE LET b == d.buckets[n - 1]
             IN IF b.status = Full THEN Store(moved[n - 1], b.key, b.val) ELSE moved[n - 1]
  IN moved

(* d_cap: a new table with what the old one has.                           *)
Grow(d) ==
  Moved(d, IF 2 * d.cap > LeastCap THEN 2 * d.cap ELSE LeastCap)[d.cap]

(* d_insert                                                                *)
Insert(d, key, val) ==
  Store(IF 10 * d.len >= LoadTenths * d.cap THEN Grow(d) ELSE d, key, val)

(* Faulty variant: a removed key gives its place back.                     *)
RemoveKeyCounts(d, key) ==
  LET i == IndexOf(d, key)
  IN IF d.len = 0 \/ d.buckets[i].status # Full THEN d
     ELSE [d EXCEPT !.buckets[i].status = Tombstone, !.len = @ - 1]

(* d_remove                                                                *)
RemoveKey(d, key) ==
  LET i == IndexOf(d, key)
  IN IF d.len = 0 \/ d.buckets[i].status # Full THEN d
     ELSE [d EXCEPT !.buckets[i].status = Tombstone]

(* d_read                                                                  *)
Read(d, key) ==
  LET i == IndexOf(d, key)
  IN IF d.len = 0 \/ d.buckets[i].status # Full THEN Missing
     ELSE d.buckets[i].val

(* A search for any key ends.                                              *)
SearchEnds(d) == d.len = 0 \/ \E i \in 0..(d.cap - 1) : d.buckets[i].status = "empty"
=============================================================================
