------------------------------ MODULE HashMap -------------------------------
(***************************************************************************)
(* The hash map of shared/src/HashMapImpl.c over the hash table of         *)
(* portable/src/phashtable.c: buckets of doubly linked entries, entries    *)
(* allocated in blocks and kept on a free list, a table that grows in      *)
(* place.  An entry is its number; Null is no entry.  Each call is a step. *)
(*                                                                         *)
(* The key of a new entry is a copy the map allocates; values belong to    *)
(* the caller, so removing with and without freeing them is the same here. *)
(***************************************************************************)
EXTENDS Integers, Sequences, FiniteSets, SequencesExt, FiniteSetsExt

CONSTANTS Keys, Values,
          NoValue,       \* NULL
          Untouched,     \* the caller's variable for the answer, not written to
          HashCode,      \* the hash function
          Capacities,    \* initial number of buckets, one of these
          LoadFactor,    \* maxLoadFactor, as <<numerator, denominator>>
          ALLOC_SIZE     \* entries in a block

ASSUME HashAssumption == /\ HashCode \in [Keys -> Nat] /\ Capacities \subseteq Nat \ {0}
                         /\ LoadFactor[1] \in Nat \ {0} /\ LoadFactor[2] \in Nat \ {0}
                         /\ ALLOC_SIZE \in Nat \ {0}

VARIABLES table,     \* the PHashTable
          copies,    \* history: copies of keys allocated and not freed
          result     \* the last call's: rc returned, value in the caller's variable

vars == <<table, copies, result>>

Null == 0

Threshold(capacity) == (capacity * LoadFactor[1]) \div LoadFactor[2]

(* PHashTableCreate; buckets[i + 1] is entries[i] of the code. *)
Created(capacity) == [buckets |-> [i \in 1 .. capacity |-> Null], size |-> 0,
                      freeList |-> Null, entries |-> <<>>]

Capacity(t) == Len(t.buckets)

Bucket(t, key) == HashCode[key] % Capacity(t)

First(t, idx) == t.buckets[idx + 1]

(* The entries from e on, where next leads, each at most once. *)
Walk(t, next, e) ==
  LET at[n \in 0 .. Len(t.entries)] == IF n = 0 THEN e ELSE next[at[n - 1]]
      steps == Cardinality({n \in 1 .. Len(t.entries) : at[n - 1] # Null})
  IN  SubSeq([n \in 1 .. Len(t.entries) |-> at[n - 1]], 1, steps)

Chain(t, e) ==
  Walk(t, [x \in 0 .. Len(t.entries) |-> IF x = Null THEN Null ELSE t.entries[x].next], e)

(* getEntry *)
GetEntry(t, key) ==
  LET chain == Chain(t, First(t, Bucket(t, key)))
      i     == SelectInSeq(chain, LAMBDA e : t.entries[e].key = key)
  IN  IF i = 0 THEN Null ELSE chain[i]

(* Takes entry e out of the list of a bucket. *)
Unlinked(t, e, idx) ==
  LET x == t.entries[e]
      forward == IF x.prev = Null THEN [t EXCEPT !.buckets[idx + 1] = x.next]
                 ELSE [t EXCEPT !.entries[x.prev].next = x.next]
  IN  IF x.next = Null THEN forward ELSE [forward EXCEPT !.entries[x.next].prev = x.prev]

(* Faulty, used by no action: what was ahead of it still held to be. *)
LinkedBehind(t, e, idx) ==
  LET first == First(t, idx)
      ahead == [t EXCEPT !.entries[e].next = first, !.entries[e].idx = idx,
                         !.buckets[idx + 1] = e]
  IN  IF first = Null THEN ahead ELSE [ahead EXCEPT !.entries[first].prev = e]

(* Puts entry e first in the list of a bucket. *)
Linked(t, e, idx) ==
  LET first == First(t, idx)
      ahead == [t EXCEPT !.entries[e].next = first, !.entries[e].prev = Null,
                         !.entries[e].idx = idx, !.buckets[idx + 1] = e]
  IN  IF first = Null THEN ahead ELSE [ahead EXCEPT !.entries[first].prev = e]

Blank(next) == [key |-> NoValue, value |-> NoValue, idx |-> 0, prev |-> Null, next |-> next]

(* removeEntry: from here on the entry's next leads along the free list.    *)
(* What else the code leaves in it, nobody reads.                           *)
Removed(t, e) ==
  [Unlinked(t, e, t.entries[e].idx) EXCEPT !.size = @ - 1, !.freeList = e,
                                           !.entries[e] = Blank(t.freeList)]

(* An entry of a bucket moves when its hash code now says another one. *)
Moved(t, e, idx) ==
  LET new == Bucket(t, t.entries[e].key)
  IN  IF new = idx THEN t ELSE Linked(Unlinked(t, e, idx), e, new)

(* The list of a bucket, where it is: what follows an entry is read first. *)
Spread(t, idx) ==
  LET spread[n \in 0 .. Len(t.entries)] ==
        IF n = 0 THEN [t |-> t, at |-> First(t, idx)]
        ELSE LET acc == spread[n - 1]
             IN  IF acc.at = Null THEN acc
                 ELSE [t |-> Moved(acc.t, acc.at, idx), at |-> acc.t.entries[acc.at].next]
  IN  spread[Len(t.entries)].t

Widened(t) == [t EXCEPT !.buckets = @ \o [i \in 1 .. Capacity(t) + 1 |-> Null]]

(* PHashTableRehash: in the array it has, one old bucket after the other. *)
Rehashed(t) ==
  LET rehashed[n \in 0 .. Capacity(t)] ==
        IF n = 0 THEN Widened(t) ELSE Spread(rehashed[n - 1], n - 1)
  IN  rehashed[Capacity(t)]

(* A block of entries on the free list, when that is empty. *)
Replenished(t) ==
  LET n == Len(t.entries)
      fresh(i) == Blank(IF i = ALLOC_SIZE THEN Null ELSE n + i + 1)
  IN  [t EXCEPT !.entries = @ \o [i \in 1 .. ALLOC_SIZE |-> fresh(i)], !.freeList = n + 1]

(* Takes an entry off the free list for a key. *)
Inserted(t, key, value) ==
  LET e == t.freeList
  IN  Linked([t EXCEPT !.freeList = t.entries[e].next, !.size = @ + 1,
                       !.entries[e].key = key, !.entries[e].value = value],
             e, Bucket(t, key))

(* iteratorAdvance *)
Advance(t, e) ==
  LET later == {i \in 0 .. Capacity(t) - 1 :
                  First(t, i) # Null /\ (e # Null => i > t.entries[e].idx)}
  IN  IF e # Null /\ t.entries[e].next # Null THEN t.entries[e].next
      ELSE IF later = {} THEN Null ELSE First(t, Min(later))

(* The entries an iteration comes to. *)
Visited(t) ==
  Walk(t, [x \in 0 .. Len(t.entries) |-> IF x = Null THEN Null ELSE Advance(t, x)],
       Advance(t, Null))

(* HashMap_GetEntryAtIndex, Null when there are no more than n entries. *)
EntryAtIndex(t, n) == IF n < Len(Visited(t)) THEN Visited(t)[n + 1] ELSE Null
-----------------------------------------------------------------------------
Init == /\ table \in {Created(c) : c \in Capacities}
        /\ copies = 0
        /\ result = [rc |-> "SUCCESS", value |-> Untouched]

Returns(rc, value) == result' = [rc |-> rc, value |-> value]

Answers(rc, value) == Returns(rc, value) /\ UNCHANGED <<table, copies>>

PutOver(key, value) ==
  /\ GetEntry(table, key) # Null
  /\ table' = [table EXCEPT !.entries[GetEntry(table, key)].value = value]
  /\ Returns("SUCCESS", Untouched)
  /\ UNCHANGED copies

Grown == IF table.size >= Threshold(Capacity(table)) THEN Rehashed(table) ELSE table

(* Faulty, used by no action: the copy of the key kept when the put fails. *)
PutLeaks(key) ==
  /\ GetEntry(table, key) = Null
  /\ table' \in {table} \cup (IF Grown.freeList = Null THEN {Grown} ELSE {})
  /\ Returns("OUT_OF_MEMORY", Untouched)
  /\ copies' \in {copies, copies + 1}

(* No memory for the copy or for the larger array, or, when the table may   *)
(* have grown already, for a block; the copy is freed.                      *)
PutFails(key) ==
  /\ GetEntry(table, key) = Null
  /\ table' \in {table} \cup (IF Grown.freeList = Null THEN {Grown} ELSE {})
  /\ Returns("OUT_OF_MEMORY", Untouched)
  /\ UNCHANGED copies

PutNew(key, value) ==
  /\ GetEntry(table, key) = Null
  /\ table' = Inserted(IF Grown.freeList = Null THEN Replenished(Grown) ELSE Grown, key, value)
  /\ copies' = copies + 1
  /\ Returns("SUCCESS", Untouched)

(* The copy of its key is freed with an entry. *)
Drop(e) == /\ table' = Removed(table, e)
           /\ copies' = copies - 1
           /\ Returns("SUCCESS", Untouched)

RemoveKey(key) == IF GetEntry(table, key) # Null THEN Drop(GetEntry(table, key))
                  ELSE Answers("NO_MATCH_ERROR", Untouched)

Get(key) ==
  LET e == GetEntry(table, key)
  IN  IF e # Null THEN Answers("SUCCESS", table.entries[e].value)
      ELSE Answers("NO_MATCH_ERROR", Untouched)

RemoveAtIndex(n) == IF EntryAtIndex(table, n) # Null THEN Drop(EntryAtIndex(table, n))
                    ELSE Answers("ARGUMENT_OUT_OF_BOUNDS", Untouched)

GetKeyAtIndex(n) ==
  LET e == EntryAtIndex(table, n)
  IN  IF e # Null THEN Answers("SUCCESS", table.entries[e].key)
      ELSE Answers("ARGUMENT_OUT_OF_BOUNDS", Untouched)

GetValueAtIndex(n) ==
  LET e == EntryAtIndex(table, n)
  IN  IF e # Null THEN Answers("SUCCESS", table.entries[e].value)
      ELSE Answers("ARGUMENT_OUT_OF_BOUNDS", Untouched)

(* HashMap_RemoveAll: an entry is left behind before it is removed. *)
Emptied(t) ==
  LET emptied[n \in 0 .. Len(t.entries)] ==
        IF n = 0 THEN [t |-> t, at |-> Advance(t, Null), freed |-> 0]
        ELSE LET acc == emptied[n - 1]
             IN  IF acc.at = Null THEN acc
                 ELSE [t |-> Removed(acc.t, acc.at), at |-> Advance(acc.t, acc.at),
                       freed |-> acc.freed + 1]
  IN  emptied[Len(t.entries)]

RemoveAll == /\ table' = Emptied(table).t
             /\ copies' = copies - Emptied(table).freed
             /\ Returns("SUCCESS", Untouched)

GetSize == Answers("SUCCESS", table.size)

Next == \/ \E key \in Keys, value \in Values : PutNew(key, value) \/ PutOver(key, value)
        \/ \E key \in Keys : PutFails(key) \/ RemoveKey(key) \/ Get(key)
        \/ \E n \in 0 .. Cardinality(Keys) :
             RemoveAtIndex(n) \/ GetKeyAtIndex(n) \/ GetValueAtIndex(n)
        \/ RemoveAll \/ GetSize

Spec == Init /\ [][Next]_vars
-----------------------------------------------------------------------------
(* The keys a search finds, and the order of the indices. *)
Contents == [k \in {key \in Keys : GetEntry(table, key) # Null} |->
               table.entries[GetEntry(table, k)].value]

Order == LET visited == Visited(table)
         IN  [i \in DOMAIN visited |-> table.entries[visited[i]].key]

Mapping == INSTANCE KeyMap WITH map <- Contents, order <- Order

(* The lists hold together: an entry is in one list only, of its bucket or  *)
(* of those that are free, linked both ways, where its hash code says; none *)
(* is lost when the table grows in place, and as many copies of keys are    *)
(* allocated as the table holds, failed puts included (phashtable.c:190,    *)
(* 274-336, 369-412, HashMapImpl.c:93).                                     *)
ListsHoldTogether ==
  LET list == [idx \in 0 .. Capacity(table) - 1 |-> Chain(table, First(table, idx))]
      free == Chain(table, table.freeList)
      used == UNION {Range(list[idx]) : idx \in DOMAIN list}
  IN  /\ IsInjective(free) /\ \A idx \in DOMAIN list : IsInjective(list[idx])
      /\ \A i, j \in DOMAIN list : i # j => Range(list[i]) \cap Range(list[j]) = {}
      /\ used \cap Range(free) = {} /\ used \cup Range(free) = DOMAIN table.entries
      /\ Cardinality(used) = table.size
      /\ copies = table.size
      /\ \A idx \in DOMAIN list : \A i \in DOMAIN list[idx] :
           LET x == table.entries[list[idx][i]]
           IN  /\ x.idx = idx /\ Bucket(table, x.key) = idx
               /\ x.prev = IF i = 1 THEN Null ELSE list[idx][i - 1]

(* The map is a mapping listed by index: whatever was put is found until it *)
(* is removed, a put without memory changes nothing, and indices list every *)
(* key once, in an order removals do not disturb (HashMapImpl.c:79-278).    *)
(* What a miss leaves in the caller's variable is open: HashMap.h:118       *)
(* promises null, and HashMapImpl.c:194 leaves before it is written.        *)
ImplementsMapping == Mapping!Spec
=============================================================================
