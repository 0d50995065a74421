--------------------------- MODULE HashMapProofs ---------------------------
(***************************************************************************)
(* The hash map keeps its lists together and is the mapping of KeyMap,     *)
(* for all keys, every hash function, load factor, block size and          *)
(* capacity.                                                               *)
(*                                                                         *)
(* Both follow from one inductive invariant, that some sequence V of       *)
(* entries is the lists of all buckets one after the other and a sequence  *)
(* F of the other entries is the free list.  An iteration then comes to V. *)
(***************************************************************************)
EXTENDS HashMap, SequenceTheorems, FiniteSetTheorems, FunctionTheorems, WellFoundedInduction, TLAPS

-----------------------------------------------------------------------------
(* The inductive invariant. *)

Entry == [key : Keys \cup {NoValue}, value : Values \cup {NoValue},
          idx : Nat, prev : Nat, next : Nat]

Tables == [buckets : Seq(Nat), size : Nat, freeList : Nat, entries : Seq(Entry)]

(* The lists of all C buckets, one after the other, are the L entries of V. *)
Threaded(t, V, L, C) ==
  /\ \A j, k \in 1 .. L : V[j] = V[k] => j = k
  /\ \A j \in 1 .. L : t.entries[V[j]].idx \in 0 .. C - 1
  /\ \A j, k \in 1 .. L : j < k => t.entries[V[j]].idx <= t.entries[V[k]].idx
  /\ \A j \in 1 .. L :
       t.entries[V[j]].next = IF j < L /\ t.entries[V[j + 1]].idx = t.entries[V[j]].idx
                              THEN V[j + 1] ELSE Null
  /\ \A j \in 1 .. L :
       t.entries[V[j]].prev = IF 1 < j /\ t.entries[V[j - 1]].idx = t.entries[V[j]].idx
                              THEN V[j - 1] ELSE Null
  /\ \A i \in 0 .. C - 1 :
       \/ First(t, i) = Null /\ \A j \in 1 .. L : t.entries[V[j]].idx # i
       \/ \E j \in 1 .. L : /\ V[j] = First(t, i) /\ t.entries[V[j]].idx = i
                            /\ 1 < j => t.entries[V[j - 1]].idx # i

Strung(t, V) == V \in Seq(DOMAIN t.entries) /\ Threaded(t, V, Len(V), Capacity(t))

(* The free list holds the entries of F. *)
Spare(t, F) ==
  /\ F \in Seq(DOMAIN t.entries)
  /\ \A j, k \in 1 .. Len(F) : F[j] = F[k] => j = k
  /\ t.freeList = IF Len(F) = 0 THEN Null ELSE F[1]
  /\ \A j \in 1 .. Len(F) : t.entries[F[j]].next = IF j < Len(F) THEN F[j + 1] ELSE Null

(* What the entries of V hold. *)
Holds(t, V) ==
  /\ \A x \in Range(V) : t.entries[x].key \in Keys /\ t.entries[x].value \in Values
  /\ \A x, y \in Range(V) : t.entries[x].key = t.entries[y].key => x = y

Shape(t, V, F) ==
  /\ t \in Tables /\ Capacity(t) > 0 /\ t.size = Len(V)
  /\ Strung(t, V) /\ Spare(t, F) /\ Holds(t, V)
  /\ \A x \in DOMAIN t.entries : (x \in Range(V)) # (x \in Range(F))

Settled(t, V) == \A x \in Range(V) : t.entries[x].idx = Bucket(t, t.entries[x].key)

HashOK(t) == \E V, F \in Seq(DOMAIN t.entries) : Shape(t, V, F) /\ Settled(t, V)

Inv == HashOK(table) /\ copies = table.size

-----------------------------------------------------------------------------
(* Loops and walks. *)

(* A set that holds 0 and with a number the next one holds all numbers: the *)
(* induction the loops of the hash table are proved by.                     *)
LEMMA SetInduction ==
  ASSUME NEW S, 0 \in S, \A n \in Nat : n \in S => n + 1 \in S
  PROVE  Nat \subseteq S
<1> SUFFICES ASSUME ~(Nat \subseteq S) PROVE FALSE
  OBVIOUS
<1> DEFINE R == OpToRel(<, Nat)
           T == Nat \ S
<1>1. IsWellFoundedOn(R, Nat)
  BY NatLessThanWellFounded
<1>2. T \subseteq Nat /\ T # {}
  OBVIOUS
<1>3. ASSUME NEW y \in Nat, NEW x \in Nat, y < x PROVE <<y, x>> \in R
  BY <1>3, Zenon DEF OpToRel
<1> HIDE DEF R
<1>4. PICK x \in T : \A y \in T : <<y, x>> \notin R
  <2> HIDE DEF T
  <2> QED BY <1>1, <1>2, WFMin
<1>5. x \in Nat /\ x # 0 /\ x - 1 \in Nat /\ x - 1 < x
  BY <1>4
<1>6. x - 1 \in S
  BY <1>3, <1>4, <1>5
<1>7. QED
  BY <1>4, <1>5, <1>6

(* The least number of a set is in it and no other is less: the bucket      *)
(* iteratorAdvance comes to next.                                           *)
LEMMA MinIn ==
  ASSUME NEW S \in SUBSET Nat, S # {}
  PROVE  Min(S) \in S /\ \A x \in S : Min(S) <= x
<1> DEFINE R == OpToRel(<, Nat)
<1>1. IsWellFoundedOn(R, Nat)
  BY NatLessThanWellFounded
<1>2. ASSUME NEW y \in Nat, NEW x \in Nat, y < x PROVE <<y, x>> \in R
  BY <1>2, Zenon DEF OpToRel
<1> HIDE DEF R
<1>3. PICK x \in S : \A y \in S : <<y, x>> \notin R
  BY <1>1, WFMin
<1>4. ASSUME NEW y \in S PROVE x <= y
  <2>1. x \in Nat /\ y \in Nat
    OBVIOUS
  <2>2. ~(y < x)
    BY <1>2, <1>3, <2>1
  <2> QED BY <2>1, <2>2
<1> QED BY <1>3, <1>4 DEF Min

(* What op makes of base in N steps. *)
IsRun(g, S, N, base, op) ==
  g \in [0 .. N -> S] /\ g[0] = base /\ \A n \in 1 .. N : g[n] = op[<<g[n - 1], n>>]

(* A step repeated from a start has a result after each of its turns: the   *)
(* loops of phashtable.c.                                                   *)
LEMMA Repeats ==
  ASSUME NEW S, NEW N \in Nat, NEW base \in S, NEW op \in [S \X (1 .. N) -> S]
  PROVE  \E g : IsRun(g, S, N, base, op)
<1> DEFINE Good(n) == \E g \in [0 .. n -> S] :
                        g[0] = base /\ \A m \in 1 .. n : g[m] = op[<<g[m - 1], m>>]
           P == {n \in Nat : n <= N => Good(n)}
<1> HIDE DEF Good
<1>0. \A n \in Nat : n \in P <=> (n <= N => Good(n))
  OBVIOUS
<1> HIDE DEF P
<1>1. 0 \in P
  <2> DEFINE g == [n \in 0 .. 0 |-> base]
  <2>1. g \in [0 .. 0 -> S] /\ g[0] = base /\ 1 .. 0 = {}
    OBVIOUS
  <2> HIDE DEF g
  <2>2. Good(0)
    BY <2>1 DEF Good
  <2> QED BY <1>0, <2>2
<1>2. ASSUME NEW n \in Nat, n \in P PROVE n + 1 \in P
  <2> SUFFICES ASSUME n + 1 <= N PROVE Good(n + 1)
    BY <1>0
  <2>1. PICK g \in [0 .. n -> S] : g[0] = base /\ \A m \in 1 .. n : g[m] = op[<<g[m - 1], m>>]
    <3>1. Good(n)
      BY <1>0, <1>2
    <3> QED BY <3>1 DEF Good
  <2> DEFINE h == [m \in 0 .. n + 1 |-> IF m = n + 1 THEN op[<<g[n], n + 1>>] ELSE g[m]]
  <2>2. op[<<g[n], n + 1>>] \in S
    OBVIOUS
  <2>3. /\ h \in [0 .. n + 1 -> S] /\ h[n + 1] = op[<<g[n], n + 1>>]
        /\ \A m \in 0 .. n : h[m] = g[m]
    BY <2>2
  <2> HIDE DEF h
  <2>4. ASSUME NEW m \in 1 .. n + 1 PROVE h[m] = op[<<h[m - 1], m>>]
    <3>1. CASE m = n + 1
      <4>1. m - 1 = n /\ n \in 0 .. n
        BY <3>1
      <4>2. h[m - 1] = g[n] /\ h[m] = op[<<g[n], n + 1>>]
        BY <4>1, <3>1, <2>3
      <4> QED BY <4>2, <3>1
    <3>2. CASE m \in 1 .. n
      <4>1. m \in 0 .. n /\ m - 1 \in 0 .. n
        BY <3>2
      <4> QED BY <4>1, <3>2, <2>1, <2>3
    <3> QED BY <3>1, <3>2
  <2> QED BY <2>1, <2>3, <2>4 DEF Good
<1>3. N \in P
  BY <1>1, <1>2, SetInduction
<1>4. Good(N)
  BY <1>0, <1>3
<1> QED BY <1>4 DEF Good, IsRun

(* What holds at first and goes on holding, turn by turn up to n, holds up  *)
(* to n: induction over the turns of a loop.                                *)
LEMMA Climb ==
  ASSUME NEW n \in Nat, NEW S, 0 \in S,
         \A k \in Nat : k \in S /\ k + 1 <= n => k + 1 \in S
  PROVE  0 .. n \subseteq S
<1> DEFINE T == {k \in Nat : k <= n => k \in S}
<1>1. \A k \in Nat : k \in T => k + 1 \in T
  OBVIOUS
<1>2. 0 \in T
  OBVIOUS
<1> HIDE DEF T
<1>3. Nat \subseteq T
  BY <1>1, <1>2, SetInduction
<1> QED BY <1>3 DEF T

(* Where a walk is after each of its steps. *)
IsWalk(at, t, next, e) ==
  /\ at \in [0 .. Len(t.entries) -> 0 .. Len(t.entries)]
  /\ at[0] = e /\ \A n \in 1 .. Len(t.entries) : at[n] = next[at[n - 1]]
  /\ Walk(t, next, e) = SubSeq([n \in 1 .. Len(t.entries) |-> at[n - 1]], 1,
                               Cardinality({n \in 1 .. Len(t.entries) : at[n - 1] # Null}))

(* Where a walk along next is after each of its steps, as getEntry and the  *)
(* iterator make them.                                                      *)
LEMMA WalkAt ==
  ASSUME NEW t, Len(t.entries) \in Nat,
         NEW next \in [0 .. Len(t.entries) -> 0 .. Len(t.entries)], NEW e \in 0 .. Len(t.entries)
  PROVE  \E at : IsWalk(at, t, next, e)
<1> DEFINE N == Len(t.entries)
           S == 0 .. N
           op == [p \in S \X (1 .. N) |-> next[p[1]]]
           at == CHOOSE f : f = [n \in 0 .. N |-> IF n = 0 THEN e ELSE next[f[n - 1]]]
<1>1. Walk(t, next, e) = SubSeq([n \in 1 .. N |-> at[n - 1]], 1,
                                 Cardinality({n \in 1 .. N : at[n - 1] # Null}))
  BY Zenon DEF Walk
<1>2. op \in [S \X (1 .. N) -> S] /\ \A a \in S, n \in 1 .. N : op[<<a, n>>] = next[a]
  OBVIOUS
<1> HIDE DEF op
<1>3. PICK g : IsRun(g, S, N, e, op)
  <2>1. N \in Nat /\ e \in S /\ op \in [S \X (1 .. N) -> S]
    BY <1>2
  <2> HIDE DEF N, S
  <2> QED BY <2>1, Repeats
<1>4. \A n \in 1 .. N : n - 1 \in 0 .. N /\ g[n - 1] \in S
  BY <1>3 DEF IsRun
<1>5. \A n \in 1 .. N : g[n] = next[g[n - 1]]
  BY <1>2, <1>3, <1>4 DEF IsRun
<1>6. g = [n \in 0 .. N |-> IF n = 0 THEN e ELSE next[g[n - 1]]]
  BY SMTT(30), <1>3, <1>5 DEF IsRun
<1>7. at = [n \in 0 .. N |-> IF n = 0 THEN e ELSE next[at[n - 1]]]
  BY <1>6, Zenon
<1> HIDE DEF at
<1>8. at[0] = e /\ \A n \in 1 .. N : at[n] = next[at[n - 1]]
  <2>1. N \in Nat
    OBVIOUS
  <2> HIDE DEF N
  <2> QED BY <1>7, <2>1
<1> DEFINE T == {n \in Nat : n <= N => at[n] \in S}
<1>9. 0 \in T /\ \A n \in Nat : n \in T => n + 1 \in T
  BY <1>8
<1> HIDE DEF T
<1>10. Nat \subseteq T
  BY <1>9, SetInduction
<1>11. \A n \in 0 .. N : at[n] \in S
  BY <1>10 DEF T
<1>12. at \in [0 .. N -> S]
  BY <1>7, <1>11
<1>13. IsWalk(at, t, next, e)
  BY <1>1, <1>8, <1>12, Zenon DEF IsWalk
<1> HIDE DEF N
<1> QED BY <1>13

(* There are n numbers from 1 to n: how many entries an array has. *)
LEMMA Interval ==
  ASSUME NEW n \in Nat
  PROVE  IsFiniteSet(1 .. n) /\ Cardinality(1 .. n) = n
<1>1. 1 \in Int /\ n \in Int
  OBVIOUS
<1>2. IsFiniteSet(1 .. n) /\ Cardinality(1 .. n) = IF 1 > n THEN 0 ELSE n - 1 + 1
  BY <1>1, FS_Interval
<1> QED BY <1>2

(* A sequence is a function on its indices: entries and buckets are arrays. *)
LEMMA SeqFun ==
  ASSUME NEW U, NEW f \in Seq(U)
  PROVE  /\ Len(f) \in Nat /\ DOMAIN f = 1 .. Len(f) /\ \A i \in 1 .. Len(f) : f[i] \in U
         /\ f \in [1 .. Len(f) -> U]
OBVIOUS

(* A function on the first numbers is a sequence: entries and buckets are   *)
(* arrays.                                                                  *)
LEMMA FunSeq ==
  ASSUME NEW U, NEW n \in Nat, NEW f \in [1 .. n -> U]
  PROVE  f \in Seq(U) /\ Len(f) = n /\ DOMAIN f = 1 .. n
OBVIOUS

(* A list that names none of n entries twice is no longer than n: no list   *)
(* outruns the blocks allocated.                                            *)
LEMMA NoLonger ==
  ASSUME NEW n \in Nat, NEW W \in Seq(1 .. n),
         \A j, k \in 1 .. Len(W) : W[j] = W[k] => j = k
  PROVE  Len(W) <= n
<1> DEFINE S == 1 .. Len(W)
<1>1. Len(W) \in Nat /\ W \in [S -> 1 .. n]
  BY SeqFun
<1>2. W \in Injection(S, 1 .. n)
  BY <1>1 DEF Injection, IsInjective
<1>3. IsFiniteSet(1 .. n) /\ Cardinality(1 .. n) = n /\ Cardinality(S) = Len(W)
  BY <1>1, Interval
<1>4. Cardinality(S) <= Cardinality(1 .. n)
  BY <1>2, <1>3, FS_Injection
<1> QED BY <1>3, <1>4

(* W leads from e to Null. *)
Path(W, e, next) ==
  /\ e = IF Len(W) = 0 THEN Null ELSE W[1]
  /\ \A j \in 1 .. Len(W) : next[W[j]] = IF j < Len(W) THEN W[j + 1] ELSE Null

(* A walk along a list that ends comes to what is in the list, in its       *)
(* order, and ends: getEntry and the iterator come back.                    *)
LEMMA WalkIs ==
  ASSUME NEW t, Len(t.entries) \in Nat,
         NEW next \in [0 .. Len(t.entries) -> 0 .. Len(t.entries)], next[Null] = Null,
         NEW W \in Seq(1 .. Len(t.entries)), \A j, k \in 1 .. Len(W) : W[j] = W[k] => j = k,
         NEW e, Path(W, e, next)
  PROVE  Walk(t, next, e) = W
<1> DEFINE N == Len(t.entries)
           L == Len(W)
           Past(n) == IF n < L THEN W[n + 1] ELSE Null
<1>1. N \in Nat /\ L \in Nat /\ L <= N /\ \A j \in 1 .. L : W[j] \in 1 .. N
  BY SeqFun, NoLonger
<1>2. e \in 0 .. N /\ e = Past(0)
  BY <1>1 DEF Path, Null
<1>3. PICK at : IsWalk(at, t, next, e)
  BY <1>2, WalkAt
<1> HIDE DEF N, L
<1>4. \A n \in Nat : n < N => next[Past(n)] = Past(n + 1)
  <2> TAKE n \in Nat
  <2> HAVE n < N
  <2>1. CASE n < L
    <3>1. n + 1 \in 1 .. L /\ Past(n) = W[n + 1]
      BY <2>1, <1>1
    <3>2. next[W[n + 1]] = IF n + 1 < L THEN W[n + 1 + 1] ELSE Null
      BY <3>1 DEF Path, L
    <3> QED BY <3>1, <3>2
  <2>2. CASE ~(n < L)
    <3>1. ~(n + 1 < L)
      BY <2>2, <1>1
    <3> QED BY <2>2, <3>1
  <2> QED BY <2>1, <2>2
<1>5. \A n \in 0 .. N : at[n] = Past(n)
  <2> DEFINE T == {n \in 0 .. N : at[n] = Past(n)}
  <2>1. 0 \in T
    BY <1>1, <1>2, <1>3 DEF IsWalk
  <2>2. ASSUME NEW k \in Nat, k \in T, k + 1 <= N PROVE k + 1 \in T
    <3>1. k + 1 \in 1 .. N /\ k + 1 - 1 = k /\ k < N
      BY <2>2, <1>1
    <3>2. at[k + 1] = next[at[k]]
      BY <3>1, <1>3 DEF IsWalk, N
    <3>3. at[k] = Past(k)
      BY <2>2
    <3> QED BY <3>1, <3>2, <3>3, <1>4
  <2> HIDE DEF T
  <2>3. 0 .. N \subseteq T
    BY <1>1, <2>1, <2>2, Climb
  <2> QED BY <2>3 DEF T
<1>6. \A n \in 1 .. N : at[n - 1] = IF n <= L THEN W[n] ELSE Null
  <2> TAKE n \in 1 .. N
  <2>1. n - 1 \in 0 .. N /\ (n - 1 < L <=> n <= L) /\ n - 1 + 1 = n
    BY <1>1
  <2> QED BY <1>5, <2>1
<1>7. {n \in 1 .. N : at[n - 1] # Null} = 1 .. L
  <2>1. \A n \in 1 .. N : at[n - 1] # Null <=> n <= L
    <3> TAKE n \in 1 .. N
    <3>1. n <= L => W[n] # Null
      BY <1>1 DEF Null
    <3> QED BY <3>1, <1>6
  <2>2. \A n : n \in 1 .. N /\ n <= L <=> n \in 1 .. L
    BY <1>1
  <2> QED BY <2>1, <2>2
<1>8. Cardinality(1 .. L) = L
  BY <1>1, Interval
<1> DEFINE f == [n \in 1 .. N |-> at[n - 1]]
<1>9. \A i \in 1 .. L : f[i] = W[i] /\ f[i] \in 1 .. N
  <2> TAKE i \in 1 .. L
  <2>1. i \in 1 .. N /\ i <= L /\ W[i] \in 1 .. N
    BY <1>1
  <2>2. f[i] = at[i - 1]
    BY <2>1
  <2> QED BY <2>1, <2>2, <1>6
<1> HIDE DEF f
<1>10. /\ SubSeq(f, 1, L) \in Seq(1 .. N)
       /\ Len(SubSeq(f, 1, L)) = IF 1 <= L THEN L - 1 + 1 ELSE 0
       /\ \A i \in 1 .. L - 1 + 1 : SubSeq(f, 1, L)[i] = f[1 + i - 1]
  <2>1. 1 \in Int /\ L \in Int
    BY <1>1
  <2> QED BY <2>1, <1>9, SubSeqProperties
<1>11. /\ Len(SubSeq(f, 1, L)) = Len(W)
       /\ \A i \in 1 .. Len(SubSeq(f, 1, L)) : SubSeq(f, 1, L)[i] = W[i]
  BY <1>1, <1>9, <1>10 DEF L
<1>12. SubSeq(f, 1, L) = W
  <2>1. W \in Seq(1 .. N)
    BY DEF N
  <2> QED BY <2>1, <1>10, <1>11, SeqEqual
<1> QED BY <1>3, <1>7, <1>8, <1>12, Zenon DEF f, IsWalk, N

-----------------------------------------------------------------------------
(* What the operators write. *)

(* The parts of a table: its entries, its buckets, and what an entry and    *)
(* the head of a bucket can be.                                             *)
LEMMA TableParts ==
  ASSUME NEW t \in Tables
  PROVE  /\ Len(t.entries) \in Nat /\ DOMAIN t.entries = 1 .. Len(t.entries)
         /\ Capacity(t) \in Nat /\ t.size \in Nat /\ t.freeList \in Nat
         /\ t.entries \in Seq(Entry) /\ t.buckets \in Seq(Nat)
         /\ \A x \in 1 .. Len(t.entries) :
              /\ t.entries[x] \in Entry
              /\ t.entries[x].key \in Keys \cup {NoValue} /\ t.entries[x].value \in Values \cup {NoValue}
              /\ t.entries[x].idx \in Nat /\ t.entries[x].prev \in Nat /\ t.entries[x].next \in Nat
         /\ \A i \in 0 .. Capacity(t) - 1 : First(t, i) \in Nat /\ i + 1 \in 1 .. Len(t.buckets)
<1>1. t.entries \in Seq(Entry) /\ t.buckets \in Seq(Nat) /\ t.size \in Nat /\ t.freeList \in Nat
  BY DEF Tables
<1>2. /\ Len(t.entries) \in Nat /\ DOMAIN t.entries = 1 .. Len(t.entries)
      /\ \A x \in 1 .. Len(t.entries) : t.entries[x] \in Entry
  BY <1>1, SeqFun
<1>3. Len(t.buckets) \in Nat /\ \A i \in 1 .. Len(t.buckets) : t.buckets[i] \in Nat
  BY <1>1, SeqFun
<1>4. \A i \in 0 .. Capacity(t) - 1 : i + 1 \in 1 .. Len(t.buckets)
  BY <1>3 DEF Capacity
<1>5. \A i \in 0 .. Capacity(t) - 1 : First(t, i) \in Nat
  BY <1>3, <1>4 DEF First
<1>6. \A x \in Entry : /\ x.key \in Keys \cup {NoValue} /\ x.value \in Values \cup {NoValue}
                       /\ x.idx \in Nat /\ x.prev \in Nat /\ x.next \in Nat
  BY DEF Entry
<1> QED BY <1>1, <1>2, <1>3, <1>4, <1>5, <1>6 DEF Capacity

(* Two tables that differ in their links only. *)
Alike(t, u) ==
  /\ u \in Tables /\ Len(u.entries) = Len(t.entries) /\ Capacity(u) = Capacity(t)
  /\ u.size = t.size /\ u.freeList = t.freeList
  /\ \A x \in 1 .. Len(t.entries) : /\ u.entries[x].key = t.entries[x].key
                                    /\ u.entries[x].value = t.entries[x].value

(* A table with one link changed. *)
WithNext(t, e, v) == [t EXCEPT !.entries[e].next = v]

WithPrev(t, e, v) == [t EXCEPT !.entries[e].prev = v]

WithFirst(t, idx, v) == [t EXCEPT !.buckets[idx + 1] = v]

(* Setting where an entry leads next changes nothing else of a table        *)
(* (phashtable.c:195, 311).                                                 *)
LEMMA SetNext ==
  ASSUME NEW t \in Tables, NEW e \in 1 .. Len(t.entries), NEW v \in Nat
  PROVE  LET u == WithNext(t, e, v)
         IN  /\ Alike(t, u) /\ u.buckets = t.buckets
             /\ \A x \in 1 .. Len(t.entries) :
                  /\ u.entries[x].next = IF x = e THEN v ELSE t.entries[x].next
                  /\ u.entries[x].prev = t.entries[x].prev /\ u.entries[x].idx = t.entries[x].idx
<1> DEFINE x0 == [t.entries[e] EXCEPT !.next = v]
           es == [t.entries EXCEPT ![e] = x0]
           u == WithNext(t, e, v)
<1>1. /\ t.entries[e] \in Entry /\ t.entries \in Seq(Entry) /\ Len(t.entries) \in Nat
  BY TableParts
<1>2. /\ x0 \in Entry /\ x0.next = v /\ x0.key = t.entries[e].key /\ x0.value = t.entries[e].value
      /\ x0.idx = t.entries[e].idx /\ x0.prev = t.entries[e].prev
  BY <1>1 DEF Entry
<1>3. u = [t EXCEPT !.entries = es]
  BY DEF Tables, WithNext
<1> HIDE DEF x0
<1>4. /\ es \in Seq(Entry) /\ Len(es) = Len(t.entries)
      /\ \A x \in 1 .. Len(t.entries) : es[x] = IF x = e THEN x0 ELSE t.entries[x]
  BY <1>1, <1>2, ExceptSeq
<1> HIDE DEF es, u
<1>5. /\ u \in Tables /\ u.entries = es /\ u.buckets = t.buckets /\ u.size = t.size
      /\ u.freeList = t.freeList
  BY <1>3, <1>4 DEF Tables
<1>6. Alike(t, u)
  BY <1>2, <1>4, <1>5 DEF Alike, Capacity
<1> QED BY <1>2, <1>4, <1>5, <1>6 DEF u

(* Setting what is ahead of an entry changes nothing else of a table        *)
(* (phashtable.c:198, 316).                                                 *)
LEMMA SetPrev ==
  ASSUME NEW t \in Tables, NEW e \in 1 .. Len(t.entries), NEW v \in Nat
  PROVE  LET u == WithPrev(t, e, v)
         IN  /\ Alike(t, u) /\ u.buckets = t.buckets
             /\ \A x \in 1 .. Len(t.entries) :
                  /\ u.entries[x].prev = IF x = e THEN v ELSE t.entries[x].prev
                  /\ u.entries[x].next = t.entries[x].next /\ u.entries[x].idx = t.entries[x].idx
<1> DEFINE x0 == [t.entries[e] EXCEPT !.prev = v]
           es == [t.entries EXCEPT ![e] = x0]
           u == WithPrev(t, e, v)
<1>1. /\ t.entries[e] \in Entry /\ t.entries \in Seq(Entry) /\ Len(t.entries) \in Nat
  BY TableParts
<1>2. /\ x0 \in Entry /\ x0.prev = v /\ x0.key = t.entries[e].key /\ x0.value = t.entries[e].value
      /\ x0.idx = t.entries[e].idx /\ x0.next = t.entries[e].next
  BY <1>1 DEF Entry
<1>3. u = [t EXCEPT !.entries = es]
  BY DEF Tables, WithPrev
<1> HIDE DEF x0
<1>4. /\ es \in Seq(Entry) /\ Len(es) = Len(t.entries)
      /\ \A x \in 1 .. Len(t.entries) : es[x] = IF x = e THEN x0 ELSE t.entries[x]
  BY <1>1, <1>2, ExceptSeq
<1> HIDE DEF es, u
<1>5. /\ u \in Tables /\ u.entries = es /\ u.buckets = t.buckets /\ u.size = t.size
      /\ u.freeList = t.freeList
  BY <1>3, <1>4 DEF Tables
<1>6. Alike(t, u)
  BY <1>2, <1>4, <1>5 DEF Alike, Capacity
<1> QED BY <1>2, <1>4, <1>5, <1>6 DEF u

(* Setting the first entry of a bucket changes nothing else of a table      *)
(* (phashtable.c:193, 313).                                                 *)
LEMMA SetFirst ==
  ASSUME NEW t \in Tables, NEW idx \in 0 .. Capacity(t) - 1, NEW v \in Nat
  PROVE  LET u == WithFirst(t, idx, v)
         IN  /\ Alike(t, u) /\ u.entries = t.entries
             /\ \A i \in 0 .. Capacity(t) - 1 : First(u, i) = IF i = idx THEN v ELSE First(t, i)
<1> DEFINE bs == [t.buckets EXCEPT ![idx + 1] = v]
           u == WithFirst(t, idx, v)
<1>1. t.buckets \in Seq(Nat) /\ idx + 1 \in 1 .. Len(t.buckets) /\ Len(t.buckets) = Capacity(t)
  BY TableParts DEF Capacity
<1>2. u = [t EXCEPT !.buckets = bs]
  BY DEF Tables, WithFirst
<1>3. /\ bs \in Seq(Nat) /\ Len(bs) = Len(t.buckets)
      /\ \A x \in 1 .. Len(t.buckets) : bs[x] = IF x = idx + 1 THEN v ELSE t.buckets[x]
  BY <1>1, ExceptSeq
<1> HIDE DEF bs, u
<1>4. /\ u \in Tables /\ u.entries = t.entries /\ u.buckets = bs /\ u.size = t.size
      /\ u.freeList = t.freeList
  BY <1>2, <1>3 DEF Tables
<1>5. Alike(t, u)
  BY <1>3, <1>4 DEF Alike, Capacity
<1>6. \A i \in 0 .. Capacity(t) - 1 : First(u, i) = IF i = idx THEN v ELSE First(t, i)
  <2> TAKE i \in 0 .. Capacity(t) - 1
  <2>1. i + 1 \in 1 .. Len(t.buckets) /\ (i + 1 = idx + 1 <=> i = idx)
    BY TableParts
  <2>2. u.buckets[i + 1] = IF i = idx THEN v ELSE t.buckets[i + 1]
    BY <1>3, <1>4, <2>1
  <2> QED BY <2>2 DEF First
<1> QED BY <1>4, <1>5, <1>6 DEF u

(* What taking an entry out of the list of a bucket changes: its two        *)
(* neighbours or the head (phashtable.c:192-198, 310-316).                  *)
LEMMA UnlinkedIs ==
  ASSUME NEW t \in Tables, NEW e \in 1 .. Len(t.entries), NEW idx \in 0 .. Capacity(t) - 1,
         t.entries[e].next \in 0 .. Len(t.entries), t.entries[e].prev \in 0 .. Len(t.entries)
  PROVE  LET u == Unlinked(t, e, idx)
             x == t.entries[e]
         IN  /\ Alike(t, u)
             /\ \A y \in 1 .. Len(t.entries) :
                  /\ u.entries[y].next = IF y = x.prev THEN x.next ELSE t.entries[y].next
                  /\ u.entries[y].prev = IF y = x.next THEN x.prev ELSE t.entries[y].prev
                  /\ u.entries[y].idx = t.entries[y].idx
             /\ \A i \in 0 .. Capacity(t) - 1 :
                  First(u, i) = IF x.prev = Null /\ i = idx THEN x.next ELSE First(t, i)
<1> DEFINE N == Len(t.entries)
           x == t.entries[e]
           f == IF x.prev = Null THEN WithFirst(t, idx, x.next)
                ELSE WithNext(t, x.prev, x.next)
           u == IF x.next = Null THEN f ELSE WithPrev(f, x.next, x.prev)
<1>1. Unlinked(t, e, idx) = u
  BY Zenon DEF Unlinked, WithFirst, WithNext, WithPrev
<1>2. N \in Nat /\ x.next \in Nat /\ x.prev \in Nat
  BY TableParts
<1>3. /\ Alike(t, f)
      /\ \A y \in 1 .. N :
           /\ f.entries[y].next = IF y = x.prev THEN x.next ELSE t.entries[y].next
           /\ f.entries[y].prev = t.entries[y].prev
           /\ f.entries[y].idx = t.entries[y].idx
      /\ \A i \in 0 .. Capacity(t) - 1 :
           First(f, i) = IF x.prev = Null /\ i = idx THEN x.next ELSE First(t, i)
  <2>1. CASE x.prev = Null
    <3>1. f = WithFirst(t, idx, x.next)
      BY <2>1
    <3>2. \A y \in 1 .. N : y # x.prev
      BY <2>1, <1>2 DEF Null
    <3>3. x.next \in Nat
      BY <1>2
    <3> HIDE DEF f, x
    <3>4. /\ Alike(t, f) /\ f.entries = t.entries
          /\ \A i \in 0 .. Capacity(t) - 1 : First(f, i) = IF i = idx THEN x.next ELSE First(t, i)
      BY <3>1, <3>3, SetFirst
    <3> QED BY <2>1, <3>2, <3>4
  <2>2. CASE x.prev # Null
    <3>1. f = WithNext(t, x.prev, x.next) /\ x.prev \in 1 .. N
      BY <2>2, <1>2 DEF Null
    <3>20. x.prev \in 1 .. Len(t.entries) /\ x.next \in Nat
      BY <3>1, <1>2
    <3> HIDE DEF f, x
    <3>2. /\ Alike(t, f) /\ f.buckets = t.buckets
          /\ \A y \in 1 .. N :
               /\ f.entries[y].next = IF y = x.prev THEN x.next ELSE t.entries[y].next
               /\ f.entries[y].prev = t.entries[y].prev
               /\ f.entries[y].idx = t.entries[y].idx
      BY SMTT(30), <3>1, <3>20, SetNext
    <3>3. \A i \in 0 .. Capacity(t) - 1 : First(f, i) = First(t, i)
      BY <3>2 DEF First
    <3> QED BY <3>2, <3>3, <2>2
  <2> QED BY <2>1, <2>2
<1> HIDE DEF f
<1>4. CASE x.next = Null
  <2>1. u = f
    BY <1>4
  <2>2. \A y \in 1 .. N : y # x.next
    BY <1>4, <1>2 DEF Null
  <2> HIDE DEF u, x, N
  <2> QED BY <2>1, <2>2, <1>1, <1>3 DEF N, x
<1>5. CASE x.next # Null
  <2>1. u = WithPrev(f, x.next, x.prev) /\ x.next \in 1 .. N
    BY <1>5, <1>2 DEF Null
  <2>2. f \in Tables /\ Len(f.entries) = N /\ Capacity(f) = Capacity(t)
    BY <1>3 DEF Alike
  <2>10. x.next \in 1 .. Len(f.entries) /\ x.prev \in Nat
    BY <2>1, <2>2, <1>2
  <2> HIDE DEF u, x, N
  <2>3. /\ Alike(f, u) /\ u.buckets = f.buckets
        /\ \A y \in 1 .. N :
             /\ u.entries[y].prev = IF y = x.next THEN x.prev ELSE f.entries[y].prev
             /\ u.entries[y].next = f.entries[y].next
             /\ u.entries[y].idx = f.entries[y].idx
    BY SMTT(30), <2>1, <2>2, <2>10, SetPrev
  <2>4. \A i \in 0 .. Capacity(t) - 1 : First(u, i) = First(f, i)
    BY <2>3 DEF First
  <2>5. Alike(t, u)
    BY <2>3, <2>2, <1>3 DEF Alike, N
  <2> QED BY <2>3, <2>4, <2>5, <1>1, <1>3 DEF N, x
<1> QED BY <1>4, <1>5

(* An entry ahead of v in a bucket. *)
Ahead(t, e, idx, v) == [t EXCEPT !.entries[e].next = v, !.entries[e].prev = Null,
                                 !.entries[e].idx = idx, !.buckets[idx + 1] = e]

(* What putting an entry at the head of a bucket writes to the entry and    *)
(* the head (phashtable.c:318-323, 410-414).                                *)
LEMMA AheadIs ==
  ASSUME NEW t \in Tables, NEW e \in 1 .. Len(t.entries), NEW idx \in 0 .. Capacity(t) - 1,
         NEW v \in Nat
  PROVE  LET u == Ahead(t, e, idx, v)
         IN  /\ Alike(t, u)
             /\ \A y \in 1 .. Len(t.entries) :
                  /\ u.entries[y].next = IF y = e THEN v ELSE t.entries[y].next
                  /\ u.entries[y].prev = IF y = e THEN Null ELSE t.entries[y].prev
                  /\ u.entries[y].idx = IF y = e THEN idx ELSE t.entries[y].idx
             /\ \A i \in 0 .. Capacity(t) - 1 : First(u, i) = IF i = idx THEN e ELSE First(t, i)
<1> DEFINE x0 == [t.entries[e] EXCEPT !.next = v, !.prev = Null, !.idx = idx]
           es == [t.entries EXCEPT ![e] = x0]
           w == [t EXCEPT !.entries = es]
           u == Ahead(t, e, idx, v)
<1>1. /\ t.entries[e] \in Entry /\ t.entries \in Seq(Entry) /\ Len(t.entries) \in Nat
      /\ Capacity(t) \in Nat
  BY TableParts
<1>2. /\ x0 \in Entry /\ x0.next = v /\ x0.key = t.entries[e].key /\ x0.value = t.entries[e].value
      /\ x0.idx = idx /\ x0.prev = Null
  <2>1. idx \in Nat /\ Null \in Nat
    BY <1>1 DEF Null
  <2> QED BY <1>1, <2>1 DEF Entry
<1>3. u = WithFirst(w, idx, e)
  BY ZenonT(30) DEF Tables, Ahead, WithFirst
<1> HIDE DEF x0
<1>4. /\ es \in Seq(Entry) /\ Len(es) = Len(t.entries)
      /\ \A x \in 1 .. Len(t.entries) : es[x] = IF x = e THEN x0 ELSE t.entries[x]
  BY <1>1, <1>2, ExceptSeq
<1> HIDE DEF es, u
<1>5. /\ w \in Tables /\ w.entries = es /\ w.buckets = t.buckets /\ w.size = t.size
      /\ w.freeList = t.freeList
  BY <1>4 DEF Tables
<1> HIDE DEF w
<1>6. Capacity(w) = Capacity(t) /\ \A i \in 0 .. Capacity(t) - 1 : First(w, i) = First(t, i)
  BY <1>5 DEF Capacity, First
<1>7. e \in Nat /\ idx \in 0 .. Capacity(w) - 1
  BY <1>1, <1>6
<1>8. /\ Alike(w, u) /\ u.entries = w.entries
      /\ \A i \in 0 .. Capacity(w) - 1 : First(u, i) = IF i = idx THEN e ELSE First(w, i)
  BY <1>3, <1>5, <1>7, SetFirst
<1>9. Alike(t, u)
  BY <1>2, <1>4, <1>5, <1>6, <1>8 DEF Alike
<1>10. \A y \in 1 .. Len(t.entries) :
              /\ u.entries[y].next = IF y = e THEN v ELSE t.entries[y].next
              /\ u.entries[y].prev = IF y = e THEN Null ELSE t.entries[y].prev
              /\ u.entries[y].idx = IF y = e THEN idx ELSE t.entries[y].idx
  <2> TAKE y \in 1 .. Len(t.entries)
  <2>1. u.entries[y] = IF y = e THEN x0 ELSE t.entries[y]
    BY <1>4, <1>5, <1>8
  <2> QED BY <2>1, <1>2
<1> QED BY <1>6, <1>8, <1>9, <1>10 DEF u

(* What putting an entry first in a bucket changes: the entry, the head,    *)
(* and who was first (phashtable.c:318-323, 410-414).                       *)
LEMMA LinkedIs ==
  ASSUME NEW t \in Tables, NEW e \in 1 .. Len(t.entries), NEW idx \in 0 .. Capacity(t) - 1,
         First(t, idx) \in 0 .. Len(t.entries), First(t, idx) # e
  PROVE  LET u == Linked(t, e, idx)
         IN  /\ Alike(t, u)
             /\ \A y \in 1 .. Len(t.entries) :
                  /\ u.entries[y].next = IF y = e THEN First(t, idx) ELSE t.entries[y].next
                  /\ u.entries[y].prev = IF y = e THEN Null ELSE
                                         IF y = First(t, idx) THEN e ELSE t.entries[y].prev
                  /\ u.entries[y].idx = IF y = e THEN idx ELSE t.entries[y].idx
             /\ \A i \in 0 .. Capacity(t) - 1 : First(u, i) = IF i = idx THEN e ELSE First(t, i)
<1> DEFINE N == Len(t.entries)
           first == First(t, idx)
           a == Ahead(t, e, idx, first)
           u == IF first = Null THEN a ELSE WithPrev(a, first, e)
<1>1. Linked(t, e, idx) = u
  BY Zenon DEF Linked, Ahead, WithPrev
<1>2. N \in Nat /\ first \in Nat /\ e \in Nat
  BY TableParts
<1> HIDE DEF a, first
<1>4. /\ Alike(t, a)
      /\ \A y \in 1 .. N :
           /\ a.entries[y].next = IF y = e THEN first ELSE t.entries[y].next
           /\ a.entries[y].prev = IF y = e THEN Null ELSE t.entries[y].prev
           /\ a.entries[y].idx = IF y = e THEN idx ELSE t.entries[y].idx
      /\ \A i \in 0 .. Capacity(t) - 1 : First(a, i) = IF i = idx THEN e ELSE First(t, i)
  BY <1>2, AheadIs DEF a
<1>5. CASE first = Null
  <2>1. u = a
    BY <1>5
  <2>2. \A y \in 1 .. N : y # first
    BY <1>5, <1>2 DEF Null
  <2> HIDE DEF u, N
  <2> QED BY <2>1, <2>2, <1>1, <1>4 DEF N, first
<1>6. CASE first # Null
  <2>1. u = WithPrev(a, first, e) /\ first \in 1 .. N
    BY <1>6, <1>2 DEF Null, first
  <2>2. a \in Tables /\ Len(a.entries) = N /\ Capacity(a) = Capacity(t)
    BY <1>4 DEF Alike
  <2> HIDE DEF u
  <2>3. /\ Alike(a, u) /\ u.buckets = a.buckets
        /\ \A y \in 1 .. N :
             /\ u.entries[y].prev = IF y = first THEN e ELSE a.entries[y].prev
             /\ u.entries[y].next = a.entries[y].next
             /\ u.entries[y].idx = a.entries[y].idx
    BY <2>1, <2>2, <1>2, SetPrev
  <2>4. \A i \in 0 .. Capacity(t) - 1 : First(u, i) = First(a, i)
    BY <2>3 DEF First
  <2>5. Alike(t, u)
    BY <2>3, <2>2, <1>4 DEF Alike
  <2>6. first # e
    BY DEF first
  <2> HIDE DEF N
  <2> QED BY <2>3, <2>4, <2>5, <2>6, <1>1, <1>4 DEF N, first
<1> QED BY <1>5, <1>6

(* A list without what is at p, and with e at q. *)
Cut(V, p) == [j \in 1 .. Len(V) - 1 |-> IF j < p THEN V[j] ELSE V[j + 1]]

PutAt(V, q, e) ==
  [j \in 1 .. Len(V) + 1 |-> IF j < q THEN V[j] ELSE IF j = q THEN e ELSE V[j - 1]]

(* A sequence of different elements without its p-th: one shorter, all the  *)
(* others in their order.                                                   *)
LEMMA CutIs ==
  ASSUME NEW S, NEW V \in Seq(S), NEW p \in 1 .. Len(V),
         \A j, k \in 1 .. Len(V) : V[j] = V[k] => j = k
  PROVE  /\ Cut(V, p) \in Seq(S) /\ Len(Cut(V, p)) = Len(V) - 1
         /\ \A j \in 1 .. Len(V) - 1 : Cut(V, p)[j] = IF j < p THEN V[j] ELSE V[j + 1]
         /\ \A j, k \in 1 .. Len(V) - 1 : Cut(V, p)[j] = Cut(V, p)[k] => j = k
         /\ Range(Cut(V, p)) = Range(V) \ {V[p]}
<1> DEFINE W == Cut(V, p)
           L == Len(V)
<1>1. /\ L \in Nat /\ DOMAIN V = 1 .. L /\ \A i \in 1 .. L : V[i] \in S
      /\ L - 1 \in Nat /\ \A j \in 1 .. L - 1 : j \in 1 .. L /\ j + 1 \in 1 .. L
  BY SeqFun
<1>2. W \in [1 .. L - 1 -> S]
  BY <1>1 DEF Cut
<1>3. \A j \in 1 .. L - 1 : W[j] = IF j < p THEN V[j] ELSE V[j + 1]
  BY DEF Cut
<1> HIDE DEF W
<1>4. W \in Seq(S) /\ Len(W) = L - 1 /\ DOMAIN W = 1 .. L - 1
  BY <1>1, <1>2, FunSeq
<1>5. ASSUME NEW j \in 1 .. L - 1, NEW k \in 1 .. L - 1, W[j] = W[k] PROVE j = k
  BY <1>1, <1>3, <1>5
<1>6. Range(W) = Range(V) \ {V[p]}
  <2>1. \A j \in 1 .. L - 1 : W[j] \in Range(V) \ {V[p]}
    <3> TAKE j \in 1 .. L - 1
    <3>1. \E k \in 1 .. L : W[j] = V[k] /\ k # p
      <4>1. CASE j < p
        BY <4>1, <1>1, <1>3
      <4>2. CASE ~(j < p)
        <5>1. j + 1 \in 1 .. L /\ j + 1 # p /\ W[j] = V[j + 1]
          BY <4>2, <1>1, <1>3
        <5> QED BY <5>1
      <4> QED BY <4>1, <4>2
    <3> QED BY <3>1, <1>1 DEF Range
  <2>2. ASSUME NEW k \in 1 .. L, k # p PROVE \E j \in 1 .. L - 1 : W[j] = V[k]
    <3>1. CASE k < p
      BY <3>1, <1>1, <1>3
    <3>2. CASE k > p
      <4>1. k - 1 \in 1 .. L - 1 /\ ~(k - 1 < p) /\ k - 1 + 1 = k
        BY <3>2, <1>1
      <4> QED BY <4>1, <1>3
    <3> QED BY <2>2, <3>1, <3>2
  <2>3. Range(V) \ {V[p]} \subseteq Range(W)
    <3>1. \A x \in Range(V) \ {V[p]} : \E k \in 1 .. L : x = V[k] /\ k # p
      BY <1>1 DEF Range
    <3>2. \A j \in 1 .. L - 1 : W[j] \in Range(W)
      BY <1>4 DEF Range
    <3>3. ASSUME NEW x \in Range(V) \ {V[p]} PROVE x \in Range(W)
      <4>1. PICK k \in 1 .. L : x = V[k] /\ k # p
        BY <3>1
      <4>2. PICK j \in 1 .. L - 1 : W[j] = V[k]
        BY <2>2, <4>1
      <4> QED BY <3>2, <4>1, <4>2
    <3> QED BY <3>3
  <2>4. Range(W) \subseteq Range(V) \ {V[p]}
    <3>1. \A x \in Range(W) : \E j \in 1 .. L - 1 : x = W[j]
      BY <1>4 DEF Range
    <3> QED BY <2>1, <3>1
  <2> QED BY <2>3, <2>4
<1> QED BY <1>3, <1>4, <1>5, <1>6 DEF W

(* A sequence of different elements with one more at place q: one longer,   *)
(* all the others in their order.                                           *)
LEMMA PutAtIs ==
  ASSUME NEW S, NEW V \in Seq(S), NEW q \in 1 .. Len(V) + 1, NEW e \in S,
         \A j, k \in 1 .. Len(V) : V[j] = V[k] => j = k, e \notin Range(V)
  PROVE  /\ PutAt(V, q, e) \in Seq(S) /\ Len(PutAt(V, q, e)) = Len(V) + 1
         /\ \A j \in 1 .. Len(V) + 1 :
              PutAt(V, q, e)[j] = IF j < q THEN V[j] ELSE IF j = q THEN e ELSE V[j - 1]
         /\ \A j, k \in 1 .. Len(V) + 1 : PutAt(V, q, e)[j] = PutAt(V, q, e)[k] => j = k
         /\ Range(PutAt(V, q, e)) = Range(V) \cup {e}
<1> DEFINE W == PutAt(V, q, e)
           L == Len(V)
<1>1. /\ L \in Nat /\ DOMAIN V = 1 .. L /\ \A i \in 1 .. L : V[i] \in S /\ V[i] # e
  BY SeqFun DEF Range
<1>2. W \in [1 .. L + 1 -> S]
  <2>1. \A j \in 1 .. L + 1 : (j < q => j \in 1 .. L) /\ (~(j < q) /\ j # q => j - 1 \in 1 .. L)
    BY <1>1
  <2> QED BY <1>1, <2>1 DEF PutAt
<1>3. \A j \in 1 .. L + 1 : W[j] = IF j < q THEN V[j] ELSE IF j = q THEN e ELSE V[j - 1]
  BY DEF PutAt
<1> HIDE DEF W
<1>4. W \in Seq(S) /\ Len(W) = L + 1 /\ DOMAIN W = 1 .. L + 1
  BY <1>1, <1>2, FunSeq
<1>5. ASSUME NEW j \in 1 .. L + 1, NEW k \in 1 .. L + 1, W[j] = W[k] PROVE j = k
  BY <1>1, <1>3, <1>5
<1>6. Range(W) = Range(V) \cup {e}
  <2>1. \A j \in 1 .. L + 1 : W[j] \in Range(V) \cup {e}
    <3> TAKE j \in 1 .. L + 1
    <3>1. (j < q => j \in 1 .. L) /\ (~(j < q) /\ j # q => j - 1 \in 1 .. L)
      BY <1>1
    <3> QED BY <3>1, <1>1, <1>3 DEF Range
  <2>2. ASSUME NEW k \in 1 .. L PROVE \E j \in 1 .. L + 1 : W[j] = V[k]
    <3>1. CASE k < q
      <4>1. k \in 1 .. L + 1
        BY <1>1
      <4> QED BY <4>1, <3>1, <1>3
    <3>2. CASE ~(k < q)
      <4>1. k + 1 \in 1 .. L + 1 /\ ~(k + 1 < q) /\ k + 1 # q /\ k + 1 - 1 = k
        BY <3>2, <1>1
      <4>2. W[k + 1] = V[k]
        BY <4>1, <1>3
      <4> QED BY <4>1, <4>2
    <3> QED BY <3>1, <3>2
  <2>3. W[q] = e /\ q \in 1 .. L + 1
    BY <1>1, <1>3
  <2> QED BY <2>1, <2>2, <2>3, <1>1, <1>4 DEF Range
<1> QED BY <1>3, <1>4, <1>5, <1>6 DEF W

-----------------------------------------------------------------------------
(* The lists of the buckets. *)

(* The lists of the buckets, one after the other: every entry is named once *)
(* and the buckets come in order.                                           *)
LEMMA StrungParts ==
  ASSUME NEW t \in Tables, NEW V, Strung(t, V)
  PROVE  /\ V \in Seq(1 .. Len(t.entries)) /\ Len(V) \in Nat /\ DOMAIN V = 1 .. Len(V)
         /\ \A j \in 1 .. Len(V) :
              /\ V[j] \in 1 .. Len(t.entries) /\ V[j] # Null
              /\ t.entries[V[j]].idx \in 0 .. Capacity(t) - 1 /\ t.entries[V[j]].idx \in Int
         /\ \A j, k \in 1 .. Len(V) : V[j] = V[k] => j = k
         /\ \A j, k \in 1 .. Len(V) : j < k => t.entries[V[j]].idx <= t.entries[V[k]].idx
<1>1. DOMAIN t.entries = 1 .. Len(t.entries)
  BY TableParts
<1>2. V \in Seq(1 .. Len(t.entries))
  BY <1>1 DEF Strung, Threaded
<1>3. /\ Len(V) \in Nat /\ DOMAIN V = 1 .. Len(V)
      /\ \A j \in 1 .. Len(V) : V[j] \in 1 .. Len(t.entries)
  BY <1>2, SeqFun
<1>4. \A j \in 1 .. Len(V) : V[j] # Null
  BY <1>1, <1>3, TableParts DEF Null
<1>5. \A j \in 1 .. Len(V) : t.entries[V[j]].idx \in 0 .. Capacity(t) - 1
  BY DEF Strung, Threaded
<1>6. \A i \in 0 .. Capacity(t) - 1 : i \in Int
  BY TableParts
<1>7. /\ \A j, k \in 1 .. Len(V) : V[j] = V[k] => j = k
      /\ \A j, k \in 1 .. Len(V) : j < k => t.entries[V[j]].idx <= t.entries[V[k]].idx
  BY DEF Strung, Threaded
<1> QED BY <1>2, <1>3, <1>4, <1>5, <1>6, <1>7

(* What Unlinked makes of the links of a table. *)
Parted(t, u, e) ==
  LET x == t.entries[e]
  IN  /\ Alike(t, u)
      /\ \A y \in 1 .. Len(t.entries) :
           /\ u.entries[y].next = IF y = x.prev THEN x.next ELSE t.entries[y].next
           /\ u.entries[y].prev = IF y = x.next THEN x.prev ELSE t.entries[y].prev
           /\ u.entries[y].idx = t.entries[y].idx
      /\ \A i \in 0 .. Capacity(t) - 1 :
           First(u, i) = IF x.prev = Null /\ i = x.idx THEN x.next ELSE First(t, i)

(* An entry that is taken out of its list leaves all the other lists as     *)
(* they were (phashtable.c:192-198, 310-316).                               *)
LEMMA PullOut ==
  ASSUME NEW t \in Tables, NEW V, Strung(t, V), NEW p \in 1 .. Len(V),
         NEW u, Parted(t, u, V[p])
  PROVE  Strung(u, Cut(V, p))
<1> DEFINE L == Len(V)
           N == Len(t.entries)
           C == Capacity(t)
           W == Cut(V, p)
           I(j) == t.entries[V[j]].idx
           s(j) == IF j < p THEN j ELSE j + 1
           A == 1 < p /\ I(p - 1) = I(p)
           B == p < L /\ I(p + 1) = I(p)
           Nx(j) == IF j < L /\ I(j + 1) = I(j) THEN V[j + 1] ELSE Null
           Pv(j) == IF 1 < j /\ I(j - 1) = I(j) THEN V[j - 1] ELSE Null
<1>1. /\ V \in Seq(1 .. N) /\ L \in Nat /\ N \in Nat /\ C \in Nat
      /\ \A j \in 1 .. L : V[j] \in 1 .. N /\ V[j] # Null /\ I(j) \in 0 .. C - 1 /\ I(j) \in Int
      /\ \A j, k \in 1 .. L : V[j] = V[k] => j = k
      /\ \A j, k \in 1 .. L : j < k => I(j) <= I(k)
  <2>1. N \in Nat /\ C \in Nat
    BY TableParts
  <2> QED BY <2>1, StrungParts
<1>0. \A j, k \in 1 .. L : j <= k => I(j) <= I(k)
  <2> HIDE DEF I, L
  <2> TAKE j, k \in 1 .. L
  <2>1. I(j) \in Int /\ (j < k => I(j) <= I(k))
    BY <1>1
  <2>2. j <= k => j = k \/ j < k
    BY <1>1
  <2> QED BY <2>1, <2>2
<1>2. \A j \in 1 .. L : t.entries[V[j]].next = Nx(j) /\ t.entries[V[j]].prev = Pv(j)
  BY DEF Strung, Threaded
<1>3. /\ W \in Seq(1 .. N) /\ Len(W) = L - 1
      /\ \A j \in 1 .. L - 1 : W[j] = IF j < p THEN V[j] ELSE V[j + 1]
      /\ \A j, k \in 1 .. L - 1 : W[j] = W[k] => j = k
  BY SMTT(30), <1>1, CutIs
<1>4. /\ p \in 1 .. L
      /\ \A j \in 1 .. L - 1 : s(j) \in 1 .. L /\ s(j) # p /\ W[j] = V[s(j)]
  <2>1. p \in 1 .. L
    OBVIOUS
  <2> HIDE DEF W, L
  <2>2. ASSUME NEW j \in 1 .. L - 1 PROVE s(j) \in 1 .. L /\ s(j) # p /\ W[j] = V[s(j)]
    <3>1. j \in Int /\ p \in Int /\ L \in Int /\ 1 <= j /\ j <= L - 1
      BY <2>1, <1>1
    <3>2. s(j) \in 1 .. L /\ s(j) # p
      BY <3>1
    <3> QED BY <3>2, <1>3
  <2> QED BY <2>1, <2>2
<1>5. /\ Len(u.entries) = N /\ Capacity(u) = C /\ u \in Tables
      /\ \A y \in 1 .. N :
           /\ u.entries[y].next = IF y = Pv(p) THEN Nx(p) ELSE t.entries[y].next
           /\ u.entries[y].prev = IF y = Nx(p) THEN Pv(p) ELSE t.entries[y].prev
           /\ u.entries[y].idx = t.entries[y].idx
      /\ \A i \in 0 .. C - 1 :
           First(u, i) = IF Pv(p) = Null /\ i = I(p) THEN Nx(p) ELSE First(t, i)
  <2>1. /\ t.entries[V[p]].next = Nx(p) /\ t.entries[V[p]].prev = Pv(p)
        /\ t.entries[V[p]].idx = I(p)
    BY <1>2, <1>4
  <2>2. Parted(t, u, V[p])
    OBVIOUS
  <2> HIDE DEF Nx, Pv, I
  <2> QED BY <2>1, <2>2 DEF Parted, Alike
<1>6. DOMAIN u.entries = 1 .. N
  BY <1>5, TableParts
<1>7. \A i \in 0 .. C - 1 :
       \/ First(t, i) = Null /\ \A j \in 1 .. L : I(j) # i
       \/ \E j \in 1 .. L : V[j] = First(t, i) /\ I(j) = i /\ (1 < j => I(j - 1) # i)
  BY DEF Strung, Threaded
<1>8. \A j \in 1 .. L - 1 : u.entries[W[j]].idx = I(s(j))
  <2> TAKE j \in 1 .. L - 1
  <2> DEFINE k == s(j)
  <2>1. k \in 1 .. L /\ W[j] = V[k]
    BY <1>4
  <2> HIDE DEF k, W
  <2>2. V[k] \in 1 .. N
    BY <2>1, <1>1
  <2>3. u.entries[V[k]].idx = t.entries[V[k]].idx
    BY <2>2, <1>5
  <2> QED BY <2>1, <2>3 DEF k
<1>9. /\ Pv(p) = IF A THEN V[p - 1] ELSE Null
      /\ Nx(p) = IF B THEN V[p + 1] ELSE Null
      /\ A => p - 1 \in 1 .. L
      /\ B => p + 1 \in 1 .. L
  BY <1>4, <1>1
<1> HIDE DEF I, W, N, C, L, Nx, Pv, A, B
<1>10. \A k \in 1 .. L : /\ (V[k] = Pv(p)) <=> (A /\ k = p - 1)
                         /\ (V[k] = Nx(p)) <=> (B /\ k = p + 1)
  BY <1>1, <1>9
<1>11. \A j \in 1 .. L - 1 :
         /\ u.entries[W[j]].next = IF A /\ s(j) = p - 1 THEN Nx(p) ELSE Nx(s(j))
         /\ u.entries[W[j]].prev = IF B /\ s(j) = p + 1 THEN Pv(p) ELSE Pv(s(j))
  <2> TAKE j \in 1 .. L - 1
  <2>1. s(j) \in 1 .. L /\ W[j] = V[s(j)] /\ V[s(j)] \in 1 .. N
    BY <1>1, <1>4
  <2> HIDE DEF s
  <2>2. /\ u.entries[V[s(j)]].next = IF V[s(j)] = Pv(p) THEN Nx(p) ELSE t.entries[V[s(j)]].next
        /\ u.entries[V[s(j)]].prev = IF V[s(j)] = Nx(p) THEN Pv(p) ELSE t.entries[V[s(j)]].prev
    BY <2>1, <1>5
  <2>3. t.entries[V[s(j)]].next = Nx(s(j)) /\ t.entries[V[s(j)]].prev = Pv(s(j))
    BY <2>1, <1>2
  <2>4. /\ (V[s(j)] = Pv(p)) <=> (A /\ s(j) = p - 1)
        /\ (V[s(j)] = Nx(p)) <=> (B /\ s(j) = p + 1)
    BY <2>1, <1>10
  <2> QED BY <2>1, <2>2, <2>3, <2>4
<1>12. ASSUME NEW j \in 1 .. L - 1
       PROVE  u.entries[W[j]].next =
                IF j < L - 1 /\ u.entries[W[j + 1]].idx = u.entries[W[j]].idx
                THEN W[j + 1] ELSE Null
  <2>1. CASE j < p - 1
    <3>1. s(j) = j /\ s(j + 1) = j + 1 /\ j + 1 \in 1 .. L - 1 /\ j < L /\ j < L - 1
      BY <2>1, <1>1, <1>4
    <3>2. u.entries[W[j]].next = Nx(j)
      BY <3>1, <2>1, <1>11
    <3> QED BY <3>1, <3>2, <1>4, <1>8 DEF Nx
  <2>2. CASE j = p - 1
    <3>1. s(j) = p - 1 /\ 1 < p /\ p - 1 \in 1 .. L /\ p - 1 < L /\ p - 1 + 1 = p /\ p \in 1 .. L
      BY <2>2, <1>1, <1>4
    <3>2. I(p - 1) <= I(p) /\ I(p - 1) \in Int /\ I(p) \in Int
      BY <3>1, <1>1
    <3>3. j < L - 1 <=> p < L
      BY <2>2, <1>1, <1>4
    <3>4. CASE p < L
      <4>1. j + 1 \in 1 .. L - 1 /\ s(j + 1) = p + 1 /\ p + 1 \in 1 .. L
        BY <3>4, <2>2, <1>1
      <4>2. I(p) <= I(p + 1) /\ I(p + 1) \in Int
        BY <4>1, <1>1
      <4>3. CASE A
        BY <4>1, <4>2, <4>3, <3>1, <3>2, <3>3, <3>4, <1>8, <1>9, <1>11, <1>4 DEF A, B
      <4>4. CASE ~A
        <5>1. u.entries[W[j]].next = Nx(p - 1) /\ Nx(p - 1) = Null
          BY <4>4, <3>1, <1>11 DEF A, Nx
        <5>2. I(p + 1) # I(p - 1)
          BY <4>4, <4>2, <3>1, <3>2 DEF A
        <5> QED BY <5>1, <5>2, <4>1, <3>1, <1>8
      <4> QED BY <4>3, <4>4
    <3>5. CASE ~(p < L)
      <4>1. CASE A
        BY <4>1, <3>5, <3>3, <3>1, <1>9, <1>11 DEF B
      <4>2. CASE ~A
        BY <4>2, <3>5, <3>3, <3>1, <1>11 DEF A, Nx
      <4> QED BY <4>1, <4>2
    <3> QED BY <3>4, <3>5
  <2>3. CASE j >= p
    <3>1. s(j) = j + 1 /\ j + 1 \in 1 .. L /\ j + 1 # p - 1 /\ (j < L - 1 <=> j + 1 < L)
      BY <2>3, <1>1
    <3>2. u.entries[W[j]].next = Nx(j + 1)
      BY <3>1, <1>11
    <3>3. CASE j < L - 1
      <4>1. j + 1 \in 1 .. L - 1 /\ s(j + 1) = j + 1 + 1
        BY <3>3, <2>3, <1>1
      <4> QED BY <4>1, <3>1, <3>2, <3>3, <1>4, <1>8 DEF Nx
    <3>4. CASE ~(j < L - 1)
      BY <3>1, <3>2, <3>4 DEF Nx
    <3> QED BY <3>3, <3>4
  <2>4. j < p - 1 \/ j = p - 1 \/ j >= p
    BY <1>1
  <2> QED BY <2>1, <2>2, <2>3, <2>4, Zenon
<1>13. ASSUME NEW j \in 1 .. L - 1
       PROVE  u.entries[W[j]].prev =
                IF 1 < j /\ u.entries[W[j - 1]].idx = u.entries[W[j]].idx
                THEN W[j - 1] ELSE Null
  <2>1. CASE j < p
    <3>1. s(j) = j /\ s(j) # p + 1 /\ j \in 1 .. L
      BY <2>1, <1>1
    <3>2. u.entries[W[j]].prev = Pv(j)
      BY <3>1, <1>11
    <3>3. CASE 1 < j
      <4>1. j - 1 \in 1 .. L - 1 /\ s(j - 1) = j - 1
        BY <3>3, <2>1, <1>1
      <4> QED BY <4>1, <3>1, <3>2, <3>3, <1>4, <1>8 DEF Pv
    <3>4. CASE ~(1 < j)
      BY <3>1, <3>2, <3>4 DEF Pv
    <3> QED BY <3>3, <3>4
  <2>2. CASE j = p
    <3>1. s(j) = p + 1 /\ p + 1 \in 1 .. L /\ p < L /\ p + 1 - 1 = p /\ 1 < p + 1
      BY <2>2, <1>1
    <3>2. I(p) <= I(p + 1) /\ I(p) \in Int /\ I(p + 1) \in Int
      BY <3>1, <1>1, <1>4
    <3>3. CASE 1 < p
      <4>1. j - 1 \in 1 .. L - 1 /\ s(j - 1) = p - 1 /\ p - 1 \in 1 .. L
        BY <3>3, <2>2, <1>1
      <4>2. I(p - 1) <= I(p) /\ I(p - 1) \in Int
        BY <4>1, <1>1, <1>4
      <4>3. CASE B
        BY <4>1, <4>2, <4>3, <3>1, <3>2, <3>3, <2>2, <1>8, <1>9, <1>11, <1>4 DEF A, B
      <4>4. CASE ~B
        <5>1. u.entries[W[j]].prev = Pv(p + 1) /\ Pv(p + 1) = Null
          BY <4>4, <3>1, <1>11 DEF B, Pv
        <5>2. I(p + 1) # I(p - 1)
          BY <4>4, <4>2, <3>1, <3>2 DEF B
        <5> QED BY <5>1, <5>2, <4>1, <3>1, <1>8
      <4> QED BY <4>3, <4>4
    <3>4. CASE ~(1 < p)
      <4>1. CASE B
        BY <4>1, <3>4, <2>2, <3>1, <1>9, <1>11 DEF A
      <4>2. CASE ~B
        BY <4>2, <3>4, <2>2, <3>1, <1>11 DEF B, Pv
      <4> QED BY <4>1, <4>2
    <3> QED BY <3>3, <3>4
  <2>3. CASE j > p
    <3>1. s(j) = j + 1 /\ j + 1 \in 1 .. L /\ j + 1 # p + 1 /\ 1 < j /\ 1 < j + 1 /\ j + 1 - 1 = j
          /\ j - 1 \in 1 .. L - 1 /\ s(j - 1) = j
      BY <2>3, <1>1
    <3>2. u.entries[W[j]].prev = Pv(j + 1)
      BY <3>1, <1>11
    <3> QED BY <3>1, <3>2, <1>4, <1>8 DEF Pv
  <2>4. j < p \/ j = p \/ j > p
    BY <1>1
  <2> QED BY <2>1, <2>2, <2>3, <2>4, Zenon
<1>14. ASSUME NEW i \in 0 .. C - 1
       PROVE  \/ First(u, i) = Null /\ \A j \in 1 .. L - 1 : u.entries[W[j]].idx # i
              \/ \E j \in 1 .. L - 1 : /\ W[j] = First(u, i) /\ u.entries[W[j]].idx = i
                                       /\ 1 < j => u.entries[W[j - 1]].idx # i
  <2>1. CASE ~A /\ i = I(p)
    <3>1. First(u, i) = Nx(p)
      BY <2>1, <1>5, <1>9
    <3>2. CASE B
      <4>1. p + 1 \in 1 .. L /\ p \in 1 .. L - 1 /\ s(p) = p + 1 /\ I(p + 1) = i
        BY <3>2, <2>1, <1>1, <1>4 DEF B
      <4>2. W[p] = First(u, i) /\ u.entries[W[p]].idx = i
        BY <4>1, <3>1, <3>2, <1>4, <1>8, <1>9
      <4>3. 1 < p => u.entries[W[p - 1]].idx # i
        <5> HAVE 1 < p
        <5>1. p - 1 \in 1 .. L - 1 /\ s(p - 1) = p - 1
          BY <4>1, <1>1
        <5> QED BY <5>1, <2>1, <1>8 DEF A
      <4> QED BY <4>1, <4>2, <4>3
    <3>3. CASE ~B
      <4>1. First(u, i) = Null
        BY <3>1, <3>3, <1>9
      <4>2. ASSUME NEW j \in 1 .. L - 1 PROVE u.entries[W[j]].idx # i
        <5>1. s(j) \in 1 .. L /\ u.entries[W[j]].idx = I(s(j)) /\ I(s(j)) \in Int /\ I(p) \in Int
          BY <1>1, <1>4, <1>8
        <5>2. CASE s(j) < p
          <6>1. 1 < p /\ p - 1 \in 1 .. L /\ I(p - 1) \in Int /\ I(p - 1) <= I(p)
            <7> HIDE DEF s
            <7>1. 1 < p /\ p - 1 \in 1 .. L /\ p - 1 < p
              BY <5>1, <5>2, <1>1, <1>4
            <7> QED BY <7>1, <1>1, <1>4
          <6>2. I(s(j)) <= I(p - 1)
            <7> HIDE DEF s
            <7>1. s(j) <= p - 1
              BY <5>1, <5>2, <1>1
            <7> QED BY <7>1, <5>1, <6>1, <1>0, Zenon
          <6> QED BY <5>1, <6>1, <6>2, <2>1 DEF A
        <5>3. CASE p < s(j)
          <6>1. p < L /\ p + 1 \in 1 .. L /\ I(p + 1) \in Int /\ I(p) <= I(p + 1)
            <7> HIDE DEF s
            <7>1. p < L /\ p + 1 \in 1 .. L /\ p < p + 1
              BY <5>1, <5>3, <1>1, <1>4
            <7> QED BY <7>1, <1>1, <1>4
          <6>2. I(p + 1) <= I(s(j))
            <7> HIDE DEF s
            <7>1. p + 1 <= s(j)
              BY <5>1, <5>3, <1>1
            <7> QED BY <7>1, <5>1, <6>1, <1>0, Zenon
          <6> QED BY <5>1, <6>1, <6>2, <2>1, <3>3 DEF B
        <5>4. s(j) # p
          BY <1>4
        <5> HIDE DEF s
        <5> QED BY <5>1, <5>2, <5>3, <5>4, <1>1
      <4> QED BY <4>1, <4>2
    <3> QED BY <3>2, <3>3
  <2>2. CASE ~(~A /\ i = I(p))
    <3>1. First(u, i) = First(t, i)
      <4>1. Pv(p) = Null => ~A
        BY <1>1, <1>9
      <4> QED BY <2>2, <1>5, <4>1
    <3>2. CASE First(t, i) = Null /\ \A j \in 1 .. L : I(j) # i
      BY <3>1, <3>2, <1>4, <1>8
    <3>3. ASSUME NEW k \in 1 .. L, V[k] = First(t, i), I(k) = i, 1 < k => I(k - 1) # i
          PROVE  \E j \in 1 .. L - 1 : /\ W[j] = First(u, i) /\ u.entries[W[j]].idx = i
                                       /\ 1 < j => u.entries[W[j - 1]].idx # i
      <4>1. k # p
        BY <3>3, <2>2, <1>4 DEF A
      <4>2. CASE k < p
        <5>1. k \in 1 .. L - 1 /\ s(k) = k /\ (1 < k => k - 1 \in 1 .. L - 1 /\ s(k - 1) = k - 1)
          <6>1. k \in Int /\ p \in Int /\ L \in Int /\ 1 <= k /\ p <= L /\ k < p
            BY <4>2, <1>1, <1>4
          <6> QED BY <6>1
        <5>2. W[k] = First(u, i) /\ u.entries[W[k]].idx = i /\ (1 < k => u.entries[W[k - 1]].idx # i)
          BY <5>1, <3>1, <3>3, <1>4, <1>8
        <5> QED BY <5>1, <5>2
      <4>3. CASE k > p
        <5>1. k - 1 \in 1 .. L - 1 /\ s(k - 1) = k /\ 1 < k /\ k - 1 \in 1 .. L
          BY <4>3, <1>1
        <5>2. W[k - 1] = First(u, i) /\ u.entries[W[k - 1]].idx = i
          BY <5>1, <3>1, <3>3, <1>4, <1>8
        <5>3. ASSUME 1 < k - 1 PROVE u.entries[W[k - 1 - 1]].idx # i
          <6>1. k - 1 - 1 \in 1 .. L - 1
            BY <5>1, <5>3, <1>1
          <6>2. CASE k - 1 - 1 < p
            <7>1. k - 1 = p /\ s(k - 1 - 1) = p - 1 /\ p - 1 \in 1 .. L /\ p - 1 < p
              BY <6>1, <6>2, <4>3, <1>1
            <7>2. I(p - 1) <= I(p) /\ I(p) <= I(k) /\ I(p) # i /\ I(p - 1) \in Int /\ I(p) \in Int
              BY <7>1, <5>1, <3>3, <4>3, <1>1, <1>4
            <7> QED BY <7>1, <7>2, <6>1, <3>3, <1>8
          <6>3. CASE ~(k - 1 - 1 < p)
            <7>1. s(k - 1 - 1) = k - 1
              BY <6>1, <6>3
            <7> QED BY <7>1, <6>1, <5>1, <3>3, <1>8
          <6> QED BY <6>2, <6>3
        <5> QED BY <5>1, <5>2, <5>3
      <4> QED BY <4>1, <4>2, <4>3, <1>1
    <3> QED BY <3>2, <3>3, <1>7
  <2> QED BY <2>1, <2>2
<1>15. \A j, k \in 1 .. L - 1 : j < k => u.entries[W[j]].idx <= u.entries[W[k]].idx
  <2> TAKE j, k \in 1 .. L - 1
  <2> HAVE j < k
  <2>1. s(j) \in 1 .. L /\ s(k) \in 1 .. L /\ s(j) < s(k)
    BY <1>1, <1>4
  <2> HIDE DEF s
  <2> QED BY <2>1, <1>1, <1>8
<1>16. \A j \in 1 .. L - 1 : u.entries[W[j]].idx \in 0 .. C - 1
  <2> HIDE DEF s
  <2> QED BY <1>1, <1>4, <1>8
<1> HIDE DEF s
<1>17. N = Len(u.entries) /\ L - 1 = Len(W) /\ C = Capacity(u) /\ u \in Tables /\ W \in Seq(1 .. N)
  BY <1>3, <1>5
<1>18. Threaded(u, W, L - 1, C)
  BY <1>3, <1>12, <1>13, <1>14, <1>15, <1>16, Zenon DEF Threaded
<1>19. Strung(u, W)
  BY <1>6, <1>17, <1>18 DEF Strung
<1> QED BY <1>19 DEF W

(* A place for an entry of bucket b in the lists of all buckets. *)
IsPlace(q, t, V, b) ==
  /\ q \in 1 .. Len(V) + 1
  /\ \A j \in 1 .. Len(V) : IF j < q THEN t.entries[V[j]].idx < b ELSE b <= t.entries[V[j]].idx

(* The entries of the buckets before b end at some place of the lists: that *)
(* is where bucket b begins.                                                *)
LEMMA PlaceExists ==
  ASSUME NEW t \in Tables, NEW V, Strung(t, V), NEW b \in 0 .. Capacity(t)
  PROVE  \E q : IsPlace(q, t, V, b)
<1> DEFINE L == Len(V)
           I(j) == t.entries[V[j]].idx
           S == {j \in 1 .. L : b <= I(j)}
<1>1. /\ L \in Nat /\ b \in Int /\ \A j \in 1 .. L : I(j) \in Int
      /\ \A j, k \in 1 .. L : j < k => I(j) <= I(k)
  <2>1. b \in Int
    BY TableParts
  <2> QED BY <2>1, StrungParts
<1>2. CASE S = {}
  <2>1. L + 1 \in 1 .. L + 1 /\ \A j \in 1 .. L : j < L + 1 /\ I(j) < b
    <3> HIDE DEF I, L
    <3> QED BY <1>1, <1>2
  <2> QED BY <2>1 DEF IsPlace
<1>3. CASE S # {}
  <2>1. Min(S) \in S /\ \A x \in S : Min(S) <= x
    <3>1. S \in SUBSET Nat
      <4> HIDE DEF L, I
      <4> QED BY <1>1
    <3> HIDE DEF S
    <3> QED BY <1>3, <3>1, MinIn
  <2> DEFINE q == Min(S)
  <2> HIDE DEF q
  <2>2. q \in 1 .. L /\ b <= I(q) /\ \A x \in S : q <= x
    BY <2>1 DEF q
  <2> HIDE DEF I, L
  <2>3. q \in 1 .. L + 1
    BY <2>2, <1>1
  <2>4. ASSUME NEW j \in 1 .. L PROVE IF j < q THEN I(j) < b ELSE b <= I(j)
    <3>1. CASE j < q
      <4>1. j \notin S
        <5> HIDE DEF S
        <5> QED BY <3>1, <2>2, <1>1
      <4> QED BY <4>1, <3>1, <1>1
    <3>2. CASE q = j
      BY <3>2, <2>2, <1>1
    <3>3. CASE q < j
      <4>1. I(q) <= I(j) /\ I(q) \in Int /\ I(j) \in Int /\ ~(j < q)
        BY <3>3, <2>2, <1>1
      <4> QED BY <4>1, <2>2, <1>1
    <3> QED BY <3>1, <3>2, <3>3, <1>1, <2>2
  <2>5. IsPlace(q, t, V, b)
    BY <2>3, <2>4, Zenon DEF IsPlace, I, L
  <2> QED BY <2>5
<1> QED BY <1>2, <1>3

(* The head of a bucket is the entry at its place in the lists, or nothing  *)
(* when the bucket is empty.                                                *)
LEMMA HeadIs ==
  ASSUME NEW t \in Tables, NEW V, Strung(t, V), NEW b \in 0 .. Capacity(t) - 1,
         NEW q, IsPlace(q, t, V, b)
  PROVE  First(t, b) = IF q <= Len(V) /\ t.entries[V[q]].idx = b THEN V[q] ELSE Null
<1> DEFINE L == Len(V)
           I(j) == t.entries[V[j]].idx
<1>1. /\ L \in Nat /\ b \in Int /\ \A j \in 1 .. L : I(j) \in Int
      /\ \A j, k \in 1 .. L : j < k => I(j) <= I(k)
      /\ \A j \in 1 .. L : V[j] # Null
  <2>1. b \in Int
    BY TableParts
  <2> QED BY <2>1, StrungParts
<1>2. q \in 1 .. L + 1 /\ \A j \in 1 .. L : IF j < q THEN I(j) < b ELSE b <= I(j)
  BY DEF IsPlace
<1>3. \/ First(t, b) = Null /\ \A j \in 1 .. L : I(j) # b
      \/ \E j \in 1 .. L : V[j] = First(t, b) /\ I(j) = b /\ (1 < j => I(j - 1) # b)
  BY DEF Strung, Threaded
<1> HIDE DEF L, I
<1>4. ASSUME NEW k \in 1 .. L, V[k] = First(t, b), I(k) = b, 1 < k => I(k - 1) # b
      PROVE  k = q
  <2>1. ~(k < q)
    BY <1>1, <1>2, <1>4
  <2>2. ASSUME q < k PROVE FALSE
    <3>1. 1 < k /\ k - 1 \in 1 .. L /\ ~(k - 1 < q) /\ k - 1 < k
      BY <2>2, <1>1, <1>2
    <3>2. b <= I(k - 1) /\ I(k - 1) <= I(k) /\ I(k - 1) \in Int
      BY <3>1, <1>1, <1>2
    <3> QED BY <3>1, <3>2, <1>1, <1>4
  <2> QED BY <2>1, <2>2, <1>1, <1>2
<1>5. CASE First(t, b) = Null /\ \A j \in 1 .. L : I(j) # b
  <2>1. ~(q <= L /\ I(q) = b)
    BY <1>1, <1>2, <1>5
  <2> QED BY <2>1, <1>5 DEF L, I
<1>6. CASE \E j \in 1 .. L : V[j] = First(t, b) /\ I(j) = b /\ (1 < j => I(j - 1) # b)
  <2>1. q \in 1 .. L /\ V[q] = First(t, b) /\ I(q) = b
    BY <1>4, <1>6
  <2>2. q <= L
    BY <2>1, <1>1
  <2> QED BY <2>1, <2>2 DEF L, I
<1> QED BY <1>3, <1>5, <1>6

(* What Linked makes of the links of a table. *)
Joined(t, u, e, b) ==
  /\ Alike(t, u)
  /\ \A y \in 1 .. Len(t.entries) :
       /\ u.entries[y].next = IF y = e THEN First(t, b) ELSE t.entries[y].next
       /\ u.entries[y].prev = IF y = e THEN Null ELSE
                              IF y = First(t, b) THEN e ELSE t.entries[y].prev
       /\ u.entries[y].idx = IF y = e THEN b ELSE t.entries[y].idx
  /\ \A i \in 0 .. Capacity(t) - 1 : First(u, i) = IF i = b THEN e ELSE First(t, i)

(* An entry put first into a bucket is in that list, and all the other      *)
(* lists are as they were (phashtable.c:318-323, 410-414).                  *)
LEMMA PutIn ==
  ASSUME NEW t \in Tables, NEW V, Strung(t, V), NEW b \in 0 .. Capacity(t) - 1,
         NEW e \in 1 .. Len(t.entries), e \notin Range(V),
         NEW q, IsPlace(q, t, V, b), NEW u, Joined(t, u, e, b)
  PROVE  Strung(u, PutAt(V, q, e))
<1> DEFINE L == Len(V)
           N == Len(t.entries)
           C == Capacity(t)
           W == PutAt(V, q, e)
           I(j) == t.entries[V[j]].idx
           s(j) == IF j < q THEN j ELSE j - 1
           A == q <= L /\ I(q) = b
           Nx(j) == IF j < L /\ I(j + 1) = I(j) THEN V[j + 1] ELSE Null
           Pv(j) == IF 1 < j /\ I(j - 1) = I(j) THEN V[j - 1] ELSE Null
           F == First(t, b)
<1>1. /\ V \in Seq(1 .. N) /\ L \in Nat /\ N \in Nat /\ C \in Nat /\ b \in Int /\ b \in 0 .. C - 1
      /\ \A j \in 1 .. L : V[j] \in 1 .. N /\ V[j] # Null /\ I(j) \in 0 .. C - 1 /\ I(j) \in Int
      /\ \A j, k \in 1 .. L : V[j] = V[k] => j = k
      /\ \A j, k \in 1 .. L : j < k => I(j) <= I(k)
  <2>1. N \in Nat /\ C \in Nat /\ b \in Int /\ b \in 0 .. C - 1
    BY TableParts
  <2> QED BY <2>1, StrungParts
<1>2. \A j \in 1 .. L : t.entries[V[j]].next = Nx(j) /\ t.entries[V[j]].prev = Pv(j)
  BY DEF Strung, Threaded
<1>20. \A j \in 1 .. L : V[j] # e
  BY StrungParts DEF Range
<1>21. q \in 1 .. L + 1 /\ \A j \in 1 .. L : IF j < q THEN I(j) < b ELSE b <= I(j)
  BY DEF IsPlace
<1>22. F = IF A THEN V[q] ELSE Null
  BY HeadIs
<1>3. /\ W \in Seq(1 .. N) /\ Len(W) = L + 1
      /\ \A j \in 1 .. L + 1 : W[j] = IF j < q THEN V[j] ELSE IF j = q THEN e ELSE V[j - 1]
      /\ \A j, k \in 1 .. L + 1 : W[j] = W[k] => j = k
  <2> DEFINE S == 1 .. N
  <2>1. /\ V \in Seq(S) /\ e \in S /\ q \in 1 .. Len(V) + 1 /\ e \notin Range(V)
        /\ \A j, k \in 1 .. Len(V) : V[j] = V[k] => j = k
    BY <1>1, <1>21
  <2> HIDE DEF N, L, C, I, s, A, Nx, Pv, F, W, S
  <2>2. /\ PutAt(V, q, e) \in Seq(S) /\ Len(PutAt(V, q, e)) = Len(V) + 1
        /\ \A j \in 1 .. Len(V) + 1 :
              PutAt(V, q, e)[j] = IF j < q THEN V[j] ELSE IF j = q THEN e ELSE V[j - 1]
        /\ \A j, k \in 1 .. Len(V) + 1 : PutAt(V, q, e)[j] = PutAt(V, q, e)[k] => j = k
    BY <2>1, PutAtIs
  <2> QED BY <2>2 DEF W, L, S
<1>5. /\ Len(u.entries) = N /\ Capacity(u) = C /\ u \in Tables
      /\ \A y \in 1 .. N :
           /\ u.entries[y].next = IF y = e THEN F ELSE t.entries[y].next
           /\ u.entries[y].prev = IF y = e THEN Null ELSE
                                  IF y = F THEN e ELSE t.entries[y].prev
           /\ u.entries[y].idx = IF y = e THEN b ELSE t.entries[y].idx
      /\ \A i \in 0 .. C - 1 : First(u, i) = IF i = b THEN e ELSE First(t, i)
  BY DEF Joined, Alike
<1>6. DOMAIN u.entries = 1 .. N
  BY <1>5, TableParts
<1>7. \A i \in 0 .. C - 1 :
       \/ First(t, i) = Null /\ \A j \in 1 .. L : I(j) # i
       \/ \E j \in 1 .. L : V[j] = First(t, i) /\ I(j) = i /\ (1 < j => I(j - 1) # i)
  BY DEF Strung, Threaded
<1> DEFINE X(j) == u.entries[W[j]].idx
<1>70. e \in 1 .. N /\ e # Null
  BY <1>1 DEF Null
<1> HIDE DEF I, W, N, C, L, Nx, Pv, A, F
<1>4. ASSUME NEW j \in 1 .. L + 1, j # q
      PROVE  /\ s(j) \in 1 .. L /\ W[j] = V[s(j)] /\ X(j) = I(s(j))
             /\ u.entries[W[j]].next = Nx(s(j))
             /\ u.entries[W[j]].prev = IF A /\ s(j) = q THEN e ELSE Pv(s(j))
  <2>1. s(j) \in 1 .. L
    BY <1>1, <1>21, <1>4
  <2>2. W[j] = V[s(j)]
    BY <1>3, <1>4
  <2> HIDE DEF s
  <2>3. V[s(j)] \in 1 .. N /\ V[s(j)] # e
    BY <2>1, <1>1, <1>20
  <2>4. t.entries[V[s(j)]].next = Nx(s(j)) /\ t.entries[V[s(j)]].prev = Pv(s(j))
    BY <2>1, <1>2
  <2>5. V[s(j)] = F <=> A /\ s(j) = q
    <3>1. CASE A
      <4>1. q \in 1 .. L /\ F = V[q]
        BY <3>1, <1>1, <1>21, <1>22 DEF A
      <4> QED BY <4>1, <3>1, <2>1, <1>1
    <3>2. CASE ~A
      BY <3>2, <2>1, <1>1, <1>22
    <3> QED BY <3>1, <3>2
  <2>6. /\ u.entries[V[s(j)]].next = t.entries[V[s(j)]].next
        /\ u.entries[V[s(j)]].prev = IF V[s(j)] = F THEN e ELSE t.entries[V[s(j)]].prev
        /\ u.entries[V[s(j)]].idx = t.entries[V[s(j)]].idx
    BY <2>3, <1>5
  <2>7. X(j) = I(s(j))
    BY <2>2, <2>6 DEF I
  <2> QED BY <2>1, <2>2, <2>4, <2>5, <2>6, <2>7
<1>40. /\ q \in 1 .. L + 1 /\ W[q] = e /\ X(q) = b
       /\ u.entries[W[q]].next = F /\ u.entries[W[q]].prev = Null
  BY <1>3, <1>5, <1>21, <1>70, <1>1
<1>41. \A j \in 1 .. L : j < q => I(j) < b /\ I(j) # b
  BY <1>1, <1>21
<1> HIDE DEF X
<1>12. ASSUME NEW j \in 1 .. L + 1
       PROVE  u.entries[W[j]].next = IF j < L + 1 /\ X(j + 1) = X(j) THEN W[j + 1] ELSE Null
  <2>1. CASE j < q - 1
    <3>1. s(j) = j /\ s(j + 1) = j + 1 /\ j + 1 \in 1 .. L + 1 /\ j + 1 # q /\ j # q /\ j < L
          /\ j < L + 1
      BY <2>1, <1>1, <1>21
    <3>2. u.entries[W[j]].next = Nx(j) /\ W[j + 1] = V[j + 1] /\ X(j) = I(j) /\ X(j + 1) = I(j + 1)
      BY <3>1, <1>4
    <3> QED BY <3>1, <3>2 DEF Nx
  <2>2. CASE j = q - 1
    <3>1. s(j) = j /\ j \in 1 .. L /\ j # q /\ j + 1 = q /\ j < q
      BY <2>2, <1>1, <1>21
    <3>2. u.entries[W[j]].next = Nx(j) /\ X(j) = I(j)
      BY <3>1, <1>4
    <3>3. I(j) < b
      BY <3>1, <1>41
    <3>4. Nx(j) = Null
      <4>1. CASE j < L
        <5>1. q \in 1 .. L /\ ~(q < q)
          BY <4>1, <2>2, <1>1, <1>21
        <5>2. b <= I(q) /\ I(q) \in Int /\ I(j) \in Int
          BY <5>1, <3>1, <1>1, <1>21
        <5> QED BY <5>2, <3>1, <3>3, <1>1 DEF Nx
      <4>2. CASE ~(j < L)
        BY <4>2 DEF Nx
      <4> QED BY <4>1, <4>2
    <3>5. X(j + 1) # X(j)
      BY <3>1, <3>2, <1>40, <1>41
    <3> QED BY <3>2, <3>4, <3>5
  <2>3. CASE j = q
    <3>1. CASE q <= L
      <4>1. q + 1 \in 1 .. L + 1 /\ q + 1 # q /\ s(q + 1) = q /\ q < L + 1
        BY <3>1, <1>1, <1>21
      <4>2. X(q + 1) = I(q) /\ W[q + 1] = V[q]
        BY <4>1, <1>4
      <4> QED BY <4>1, <4>2, <3>1, <2>3, <1>40, <1>22 DEF A
    <3>2. CASE ~(q <= L)
      <4>1. ~(q < L + 1)
        BY <3>2, <1>1, <1>21
      <4> QED BY <4>1, <3>2, <2>3, <1>40, <1>22 DEF A
    <3> QED BY <3>1, <3>2
  <2>4. CASE j > q
    <3>1. s(j) = j - 1 /\ j # q /\ j - 1 + 1 = j /\ (j - 1 < L <=> j < L + 1)
      BY <2>4, <1>1, <1>21
    <3>2. u.entries[W[j]].next = Nx(j - 1) /\ X(j) = I(j - 1)
      BY <3>1, <1>4
    <3>3. CASE j < L + 1
      <4>1. j + 1 \in 1 .. L + 1 /\ j + 1 # q /\ s(j + 1) = j
        BY <3>3, <2>4, <1>1, <1>21
      <4>2. W[j + 1] = V[j] /\ X(j + 1) = I(j)
        BY <4>1, <1>4
      <4> QED BY <4>2, <3>1, <3>2, <3>3 DEF Nx
    <3>4. CASE ~(j < L + 1)
      BY <3>1, <3>2, <3>4 DEF Nx
    <3> QED BY <3>3, <3>4
  <2> QED BY <2>1, <2>2, <2>3, <2>4, <1>1, <1>21
<1>13. ASSUME NEW j \in 1 .. L + 1
       PROVE  u.entries[W[j]].prev = IF 1 < j /\ X(j - 1) = X(j) THEN W[j - 1] ELSE Null
  <2>1. CASE j < q
    <3>1. s(j) = j /\ j # q
      BY <2>1, <1>1, <1>21
    <3>2. u.entries[W[j]].prev = Pv(j) /\ X(j) = I(j)
      BY <3>1, <1>4
    <3>3. CASE 1 < j
      <4>1. j - 1 \in 1 .. L + 1 /\ j - 1 # q /\ s(j - 1) = j - 1
        BY <3>3, <2>1, <1>1, <1>21
      <4>2. W[j - 1] = V[j - 1] /\ X(j - 1) = I(j - 1)
        BY <4>1, <1>4
      <4> QED BY <4>2, <3>2, <3>3 DEF Pv
    <3>4. CASE ~(1 < j)
      BY <3>2, <3>4 DEF Pv
    <3> QED BY <3>3, <3>4
  <2>2. CASE j = q
    <3>1. CASE 1 < q
      <4>1. q - 1 \in 1 .. L + 1 /\ q - 1 # q /\ s(q - 1) = q - 1 /\ q - 1 \in 1 .. L /\ q - 1 < q
        BY <3>1, <1>1, <1>21
      <4>2. X(q - 1) = I(q - 1) /\ I(q - 1) # b
        BY <4>1, <1>4, <1>41
      <4> QED BY <4>2, <2>2, <1>40
    <3>2. CASE ~(1 < q)
      BY <3>2, <2>2, <1>40
    <3> QED BY <3>1, <3>2
  <2>3. CASE j = q + 1
    <3>1. s(j) = q /\ j # q /\ q \in 1 .. L /\ 1 < j /\ j - 1 = q /\ q <= L
      BY <2>3, <1>1, <1>21
    <3>2. X(j) = I(q) /\ u.entries[W[j]].prev = IF A THEN e ELSE Pv(q)
      BY <3>1, <1>4
    <3>3. CASE A
      BY <3>1, <3>2, <3>3, <1>40 DEF A
    <3>4. CASE ~A
      <4>1. I(q) # b
        BY <3>1, <3>4 DEF A
      <4>2. Pv(q) = Null
        <5>1. CASE 1 < q
          <6>1. q - 1 \in 1 .. L /\ q - 1 < q /\ ~(q < q)
            BY <5>1, <3>1, <1>1
          <6>2. I(q - 1) < b /\ b <= I(q) /\ I(q) \in Int /\ I(q - 1) \in Int
            BY <6>1, <3>1, <1>1, <1>21
          <6> QED BY <6>2, <1>1 DEF Pv
        <5>2. CASE ~(1 < q)
          BY <5>2 DEF Pv
        <5> QED BY <5>1, <5>2
      <4> QED BY <4>1, <4>2, <3>1, <3>2, <3>4, <1>40
    <3> QED BY <3>3, <3>4
  <2>4. CASE j > q + 1
    <3>1. s(j) = j - 1 /\ j # q /\ j - 1 # q /\ j - 1 \in 1 .. L + 1 /\ s(j - 1) = j - 1 - 1
          /\ 1 < j /\ 1 < j - 1
      BY <2>4, <1>1, <1>21
    <3>2. /\ u.entries[W[j]].prev = Pv(j - 1) /\ X(j) = I(j - 1)
          /\ W[j - 1] = V[j - 1 - 1] /\ X(j - 1) = I(j - 1 - 1)
      BY <3>1, <1>4
    <3> QED BY <3>1, <3>2 DEF Pv
  <2> QED BY <2>1, <2>2, <2>3, <2>4, <1>1, <1>21
<1>14. ASSUME NEW i \in 0 .. C - 1
       PROVE  \/ First(u, i) = Null /\ \A j \in 1 .. L + 1 : X(j) # i
              \/ \E j \in 1 .. L + 1 : W[j] = First(u, i) /\ X(j) = i /\ (1 < j => X(j - 1) # i)
  <2>1. CASE i = b
    <3>1. First(u, i) = e
      BY <2>1, <1>5
    <3>2. 1 < q => X(q - 1) # b
      <4> HAVE 1 < q
      <4>1. q - 1 \in 1 .. L + 1 /\ q - 1 # q /\ s(q - 1) = q - 1 /\ q - 1 \in 1 .. L /\ q - 1 < q
        BY <1>1, <1>21
      <4> QED BY <4>1, <1>4, <1>41
    <3> QED BY <3>1, <3>2, <2>1, <1>40
  <2>2. CASE i # b
    <3>1. First(u, i) = First(t, i)
      BY <2>2, <1>5
    <3>2. CASE First(t, i) = Null /\ \A j \in 1 .. L : I(j) # i
      <4>1. ASSUME NEW j \in 1 .. L + 1 PROVE X(j) # i
        <5>1. CASE j = q
          BY <5>1, <2>2, <1>40
        <5>2. CASE j # q
          <6> HIDE DEF s
          <6> QED BY <5>2, <3>2, <1>4
        <5> QED BY <5>1, <5>2
      <4> QED BY <4>1, <3>1, <3>2
    <3>3. ASSUME NEW k \in 1 .. L, V[k] = First(t, i), I(k) = i, 1 < k => I(k - 1) # i
          PROVE  \E j \in 1 .. L + 1 : W[j] = First(u, i) /\ X(j) = i /\ (1 < j => X(j - 1) # i)
      <4>1. CASE k < q
        <5>1. k \in 1 .. L + 1 /\ k # q /\ s(k) = k
          BY <4>1, <1>1, <1>21
        <5>2. W[k] = First(u, i) /\ X(k) = i
          BY <5>1, <3>1, <3>3, <1>4
        <5>3. 1 < k => X(k - 1) # i
          <6> HAVE 1 < k
          <6>1. k - 1 \in 1 .. L + 1 /\ k - 1 # q /\ s(k - 1) = k - 1
            BY <4>1, <1>1, <1>21
          <6> QED BY <6>1, <3>3, <1>4
        <5> QED BY <5>1, <5>2, <5>3
      <4>2. CASE ~(k < q)
        <5>1. k + 1 \in 1 .. L + 1 /\ k + 1 # q /\ s(k + 1) = k /\ k + 1 - 1 = k
          BY <4>2, <1>1, <1>21
        <5>2. W[k + 1] = First(u, i) /\ X(k + 1) = i
          BY <5>1, <3>1, <3>3, <1>4
        <5>3. X(k) # i
          <6>1. CASE k = q
            BY <6>1, <2>2, <1>40
          <6>2. CASE k # q
            <7>1. k \in 1 .. L + 1 /\ s(k) = k - 1 /\ 1 < k
              BY <6>2, <4>2, <1>1, <1>21
            <7> QED BY <7>1, <6>2, <3>3, <1>4
          <6> QED BY <6>1, <6>2
        <5> QED BY <5>1, <5>2, <5>3
      <4> QED BY <4>1, <4>2
    <3> QED BY <3>2, <3>3, <1>7
  <2> QED BY <2>1, <2>2
<1>15. ASSUME NEW j \in 1 .. L + 1, NEW k \in 1 .. L + 1, j < k PROVE X(j) <= X(k)
  <2>1. CASE j = q
    <3>1. k # q /\ s(k) \in 1 .. L /\ ~(s(k) < q)
      BY <2>1, <1>15, <1>1, <1>21
    <3> HIDE DEF s
    <3> QED BY <3>1, <2>1, <1>4, <1>40, <1>21
  <2>2. CASE k = q
    <3>1. j # q /\ s(j) \in 1 .. L /\ s(j) < q
      BY <2>2, <1>15, <1>1, <1>21
    <3> HIDE DEF s
    <3>2. X(j) = I(s(j)) /\ I(s(j)) < b /\ I(s(j)) \in Int
      BY <3>1, <1>4, <1>41, <1>1
    <3> QED BY <3>2, <2>2, <1>40, <1>1
  <2>3. CASE j # q /\ k # q
    <3>1. s(j) \in 1 .. L /\ s(k) \in 1 .. L /\ s(j) < s(k)
      BY <2>3, <1>15, <1>1, <1>21
    <3> HIDE DEF s
    <3> QED BY <3>1, <2>3, <1>1, <1>4
  <2> QED BY <2>1, <2>2, <2>3
<1>16. \A j \in 1 .. L + 1 : X(j) \in 0 .. C - 1
  <2> HIDE DEF s
  <2> QED BY <1>1, <1>4, <1>40
<1> HIDE DEF s
<1>17. N = Len(u.entries) /\ L + 1 = Len(W) /\ C = Capacity(u) /\ u \in Tables /\ W \in Seq(1 .. N)
  BY <1>3, <1>5
<1>18. Threaded(u, W, L + 1, C)
  BY <1>3, <1>12, <1>13, <1>14, <1>15, <1>16, Zenon DEF Threaded, X
<1>19. Strung(u, W)
  BY <1>6, <1>17, <1>18 DEF Strung
<1> QED BY <1>19 DEF W

(* Q is the list of bucket b. *)
IsList(Q, t, V, b) ==
  /\ Q \in Seq(1 .. Len(t.entries))
  /\ \A j, k \in 1 .. Len(Q) : Q[j] = Q[k] => j = k
  /\ First(t, b) = IF Len(Q) = 0 THEN Null ELSE Q[1]
  /\ \A j \in 1 .. Len(Q) :
       /\ Q[j] \in Range(V)
       /\ t.entries[Q[j]].idx = b
       /\ t.entries[Q[j]].next = IF j < Len(Q) THEN Q[j + 1] ELSE Null
       /\ t.entries[Q[j]].prev = IF j = 1 THEN Null ELSE Q[j - 1]
  /\ \A x \in Range(V) : t.entries[x].idx = b => \E j \in 1 .. Len(Q) : x = Q[j]

(* The entries of a bucket are a list of their own, linked both ways, from  *)
(* its head to its end.                                                     *)
LEMMA ListOf ==
  ASSUME NEW t \in Tables, NEW V, Strung(t, V), NEW b \in 0 .. Capacity(t) - 1
  PROVE  \E Q : IsList(Q, t, V, b)
<1> DEFINE L == Len(V)
           N == Len(t.entries)
           I(j) == t.entries[V[j]].idx
           Nx(j) == IF j < L /\ I(j + 1) = I(j) THEN V[j + 1] ELSE Null
           Pv(j) == IF 1 < j /\ I(j - 1) = I(j) THEN V[j - 1] ELSE Null
<1>1. /\ V \in Seq(1 .. N) /\ L \in Nat /\ b \in Int /\ DOMAIN V = 1 .. L
      /\ \A j \in 1 .. L : V[j] \in 1 .. N /\ I(j) \in Int
      /\ \A j, k \in 1 .. L : V[j] = V[k] => j = k
  <2>1. b \in Int
    BY TableParts
  <2> QED BY <2>1, StrungParts
<1>2. \A j \in 1 .. L : t.entries[V[j]].next = Nx(j) /\ t.entries[V[j]].prev = Pv(j)
  BY DEF Strung, Threaded
<1>3. PICK q : IsPlace(q, t, V, b)
  <2>1. b \in 0 .. Capacity(t)
    BY TableParts
  <2> QED BY <2>1, PlaceExists
<1>4. PICK r : IsPlace(r, t, V, b + 1)
  <2>1. b + 1 \in 0 .. Capacity(t)
    BY TableParts
  <2> QED BY <2>1, PlaceExists
<1>5. /\ q \in 1 .. L + 1 /\ r \in 1 .. L + 1
      /\ \A j \in 1 .. L : /\ IF j < q THEN I(j) < b ELSE b <= I(j)
                           /\ IF j < r THEN I(j) < b + 1 ELSE b + 1 <= I(j)
  BY <1>3, <1>4 DEF IsPlace
<1>6. First(t, b) = IF q <= L /\ I(q) = b THEN V[q] ELSE Null
  BY <1>3, HeadIs
<1> HIDE DEF I, L, N, Nx, Pv
<1>7. q <= r
  <2> SUFFICES ASSUME r < q PROVE FALSE
    BY <1>1, <1>5
  <2>1. r \in 1 .. L /\ ~(r < r)
    BY <1>1, <1>5
  <2>2. I(r) \in Int /\ I(r) < b /\ b + 1 <= I(r)
    BY <2>1, <1>1, <1>5
  <2> QED BY <2>2, <1>1
<1> DEFINE M == r - q
           at(j) == q + j - 1
           Q == [j \in 1 .. M |-> V[at(j)]]
<1>8. ASSUME NEW j \in 1 .. M
      PROVE  at(j) \in 1 .. L /\ q <= at(j) /\ at(j) < r /\ I(at(j)) = b
  <2>1. at(j) \in 1 .. L /\ ~(at(j) < q) /\ at(j) < r
    BY <1>1, <1>5, <1>7
  <2> HIDE DEF at
  <2> QED BY <2>1, <1>1, <1>5
<1>9. M \in Nat
  BY <1>1, <1>5, <1>7
<1>10. Q \in [1 .. M -> 1 .. N] /\ \A j \in 1 .. M : Q[j] = V[at(j)]
  <2> HIDE DEF at, M
  <2> QED BY <1>8, <1>1
<1> HIDE DEF Q
<1>11. Q \in Seq(1 .. N) /\ Len(Q) = M /\ DOMAIN Q = 1 .. M
  <2> HIDE DEF M, at
  <2> QED BY <1>9, <1>10, FunSeq
<1>12. ASSUME NEW j \in 1 .. M, NEW k \in 1 .. M, Q[j] = Q[k] PROVE j = k
  <2>1. at(j) = at(k)
    <3> HIDE DEF at, M
    <3> QED BY <1>1, <1>8, <1>10, <1>12
  <2> QED BY <2>1, <1>5, <1>9
<1>13. First(t, b) = IF M = 0 THEN Null ELSE Q[1]
  <2>1. CASE M = 0
    <3>1. q <= L => q \in 1 .. L /\ ~(q < r)
      BY <2>1, <1>1, <1>5
    <3>2. q <= L => I(q) # b
      BY <3>1, <1>5, <1>1
    <3> QED BY <3>2, <2>1, <1>6
  <2>2. CASE M # 0
    <3>1. 1 \in 1 .. M /\ at(1) = q
      BY <2>2, <1>9, <1>5
    <3>2. q \in 1 .. L /\ I(q) = b /\ Q[1] = V[q]
      <4> HIDE DEF at, M
      <4> QED BY <3>1, <1>8, <1>10
    <3>3. q <= L
      BY <3>2, <1>1
    <3> HIDE DEF M
    <3> QED BY <3>2, <3>3, <2>2, <1>6
  <2> QED BY <2>1, <2>2
<1>14. ASSUME NEW j \in 1 .. M
       PROVE  t.entries[Q[j]].next = IF j < M THEN Q[j + 1] ELSE Null
  <2>1. t.entries[Q[j]].next = Nx(at(j)) /\ I(at(j)) = b
    <3> HIDE DEF at, M
    <3> QED BY <1>2, <1>8, <1>10
  <2>2. CASE j < M
    <3>1. j + 1 \in 1 .. M /\ at(j + 1) = at(j) + 1
      BY <2>2, <1>9, <1>5
    <3> HIDE DEF M
    <3>2. at(j) + 1 \in 1 .. L /\ I(at(j) + 1) = b /\ Q[j + 1] = V[at(j) + 1]
      <4> HIDE DEF at
      <4> QED BY <3>1, <1>8, <1>10
    <3>3. at(j) < L
      <4>1. at(j) \in 1 .. L
        BY <1>8
      <4> HIDE DEF at
      <4> QED BY <4>1, <3>2, <1>1
    <3> HIDE DEF at
    <3> QED BY <2>1, <2>2, <3>2, <3>3 DEF Nx
  <2>3. CASE ~(j < M)
    <3>1. at(j) + 1 = r /\ at(j) \in 1 .. L
      BY <2>3, <1>9, <1>5, <1>8
    <3>2. at(j) < L => I(at(j) + 1) # b
      <4> HIDE DEF at
      <4> HAVE at(j) < L
      <4>1. r \in 1 .. L /\ ~(r < r)
        BY <3>1, <1>1, <1>5
      <4> QED BY <4>1, <3>1, <1>1, <1>5
    <3> HIDE DEF at, M
    <3> QED BY <2>1, <2>3, <3>2 DEF Nx
  <2> QED BY <2>2, <2>3
<1>15. ASSUME NEW j \in 1 .. M
       PROVE  t.entries[Q[j]].prev = IF j = 1 THEN Null ELSE Q[j - 1]
  <2>1. t.entries[Q[j]].prev = Pv(at(j)) /\ I(at(j)) = b
    <3> HIDE DEF at, M
    <3> QED BY <1>2, <1>8, <1>10
  <2>2. CASE j # 1
    <3>1. j - 1 \in 1 .. M /\ at(j - 1) = at(j) - 1 /\ 1 < at(j)
      BY <2>2, <1>9, <1>5
    <3>2. I(at(j) - 1) = b /\ Q[j - 1] = V[at(j) - 1]
      <4> HIDE DEF at, M
      <4> QED BY <3>1, <1>8, <1>10
    <3> HIDE DEF at, M
    <3> QED BY <2>1, <2>2, <3>1, <3>2 DEF Pv
  <2>3. CASE j = 1
    <3>1. at(j) = q
      BY <2>3, <1>5
    <3>2. 1 < q => I(q - 1) # b
      <4> HAVE 1 < q
      <4>1. q - 1 \in 1 .. L /\ q - 1 < q
        BY <1>1, <1>5
      <4> QED BY <4>1, <1>1, <1>5
    <3> HIDE DEF at, M
    <3> QED BY <2>1, <2>3, <3>1, <3>2 DEF Pv
  <2> QED BY <2>2, <2>3
<1>16. \A j \in 1 .. M : Q[j] \in Range(V) /\ t.entries[Q[j]].idx = b
  <2> HIDE DEF at, M
  <2> QED BY <1>1, <1>8, <1>10 DEF Range, I
<1>17. ASSUME NEW x \in Range(V), t.entries[x].idx = b PROVE \E j \in 1 .. M : x = Q[j]
  <2>1. PICK k \in 1 .. L : x = V[k]
    BY <1>1 DEF Range
  <2>2. I(k) = b
    BY <2>1, <1>17 DEF I
  <2>3. ~(k < q) /\ k < r
    BY <2>2, <1>1, <1>5
  <2>4. k - q + 1 \in 1 .. M /\ at(k - q + 1) = k
    BY <2>3, <1>5, <1>1
  <2> HIDE DEF at, M
  <2> QED BY <2>1, <2>4, <1>10
<1> HIDE DEF M
<1>18. IsList(Q, t, V, b)
  BY <1>11, <1>12, <1>13, <1>14, <1>15, <1>16, <1>17 DEF IsList, N
<1> QED BY <1>18

-----------------------------------------------------------------------------
(* What a search and an iteration come to. *)

(* The free list: it names every spare entry once, from the head to its     *)
(* end.                                                                     *)
LEMMA SpareParts ==
  ASSUME NEW t \in Tables, NEW F, Spare(t, F)
  PROVE  /\ F \in Seq(1 .. Len(t.entries)) /\ Len(F) \in Nat /\ DOMAIN F = 1 .. Len(F)
         /\ \A j \in 1 .. Len(F) : F[j] \in 1 .. Len(t.entries)
         /\ \A j, k \in 1 .. Len(F) : F[j] = F[k] => j = k
         /\ t.freeList = IF Len(F) = 0 THEN Null ELSE F[1]
         /\ \A j \in 1 .. Len(F) : t.entries[F[j]].next = IF j < Len(F) THEN F[j + 1] ELSE Null
<1>1. DOMAIN t.entries = 1 .. Len(t.entries)
  BY TableParts
<1>2. F \in Seq(1 .. Len(t.entries))
  BY <1>1 DEF Spare
<1>3. /\ Len(F) \in Nat /\ DOMAIN F = 1 .. Len(F)
      /\ \A j \in 1 .. Len(F) : F[j] \in 1 .. Len(t.entries)
  BY <1>2, SeqFun
<1> QED BY <1>2, <1>3 DEF Spare

(* The parts of a table whose lists are whole. *)
LEMMA ShapeParts ==
  ASSUME NEW t, NEW V, NEW F, Shape(t, V, F)
  PROVE  /\ t \in Tables /\ Capacity(t) \in Nat \ {0} /\ t.size = Len(V) /\ Len(V) \in Nat
         /\ Strung(t, V) /\ Spare(t, F) /\ Holds(t, V)
         /\ \A x \in 1 .. Len(t.entries) : (x \in Range(V)) # (x \in Range(F))
<1>1. t \in Tables /\ Strung(t, V)
  BY DEF Shape
<1> QED BY <1>1, TableParts, StrungParts DEF Shape

(* The links of an entry. *)
LEMMA LinksIn ==
  ASSUME NEW t, NEW V, NEW F, Shape(t, V, F)
  PROVE  /\ \A x \in 1 .. Len(t.entries) : t.entries[x].next \in 0 .. Len(t.entries)
         /\ \A x \in Range(V) : /\ x \in 1 .. Len(t.entries)
                                /\ t.entries[x].prev \in 0 .. Len(t.entries)
                                /\ t.entries[x].idx \in 0 .. Capacity(t) - 1
         /\ \A b \in 0 .. Capacity(t) - 1 : First(t, b) \in 0 .. Len(t.entries)
<1>1. /\ t \in Tables /\ Strung(t, V) /\ Spare(t, F)
      /\ \A x \in 1 .. Len(t.entries) : (x \in Range(V)) # (x \in Range(F))
  BY ShapeParts
<1> DEFINE N == Len(t.entries)
           L == Len(V)
           I(j) == t.entries[V[j]].idx
<1>2. /\ L \in Nat /\ DOMAIN V = 1 .. L /\ \A j \in 1 .. L : V[j] \in 1 .. N
      /\ \A j \in 1 .. L : I(j) \in 0 .. Capacity(t) - 1
  BY <1>1, StrungParts
<1>3. /\ \A j \in 1 .. L : t.entries[V[j]].next = IF j < L /\ I(j + 1) = I(j) THEN V[j + 1] ELSE Null
      /\ \A j \in 1 .. L : t.entries[V[j]].prev = IF 1 < j /\ I(j - 1) = I(j) THEN V[j - 1] ELSE Null
      /\ \A i \in 0 .. Capacity(t) - 1 :
           First(t, i) = Null \/ \E j \in 1 .. L : V[j] = First(t, i)
  BY <1>1 DEF Strung, Threaded
<1>4. /\ Len(F) \in Nat /\ DOMAIN F = 1 .. Len(F) /\ \A j \in 1 .. Len(F) : F[j] \in 1 .. N
      /\ \A j \in 1 .. Len(F) : t.entries[F[j]].next = IF j < Len(F) THEN F[j + 1] ELSE Null
  BY <1>1, SpareParts
<1>5. N \in Nat /\ Null \in 0 .. N /\ 1 .. N \subseteq 0 .. N
  BY <1>1, TableParts DEF Null
<1> HIDE DEF N, L
<1>6. \A j \in 1 .. L : /\ t.entries[V[j]].next \in 0 .. N /\ t.entries[V[j]].prev \in 0 .. N
                        /\ t.entries[V[j]].idx \in 0 .. Capacity(t) - 1
  <2> TAKE j \in 1 .. L
  <2>1. (j < L => j + 1 \in 1 .. L) /\ (1 < j => j - 1 \in 1 .. L)
    BY <1>2
  <2> QED BY <2>1, <1>2, <1>3, <1>5
<1>7. \A j \in 1 .. Len(F) : t.entries[F[j]].next \in 0 .. N
  <2> TAKE j \in 1 .. Len(F)
  <2>1. j < Len(F) => j + 1 \in 1 .. Len(F)
    BY <1>4
  <2> QED BY <2>1, <1>4, <1>5
<1>8. /\ \A x \in Range(V) : \E j \in 1 .. L : x = V[j]
      /\ \A x \in Range(F) : \E j \in 1 .. Len(F) : x = F[j]
  BY <1>2, <1>4 DEF Range
<1>9. \A x \in 1 .. N : t.entries[x].next \in 0 .. N
  BY <1>1, <1>6, <1>7, <1>8 DEF N
<1>10. \A x \in Range(V) : /\ x \in 1 .. N /\ t.entries[x].prev \in 0 .. N
                           /\ t.entries[x].idx \in 0 .. Capacity(t) - 1
  BY <1>2, <1>6, <1>8
<1>11. \A b \in 0 .. Capacity(t) - 1 : First(t, b) \in 0 .. N
  BY <1>2, <1>3, <1>5
<1> QED BY <1>9, <1>10, <1>11 DEF N

(* Following next from the head of a list comes to what is in it, in its    *)
(* order.                                                                   *)
LEMMA ChainIs ==
  ASSUME NEW t, NEW V, NEW F, Shape(t, V, F), NEW W \in Seq(1 .. Len(t.entries)), NEW e,
         \A j, k \in 1 .. Len(W) : W[j] = W[k] => j = k,
         e = IF Len(W) = 0 THEN Null ELSE W[1],
         \A j \in 1 .. Len(W) : t.entries[W[j]].next = IF j < Len(W) THEN W[j + 1] ELSE Null
  PROVE  Chain(t, e) = W
<1> DEFINE N == Len(t.entries)
           next == [x \in 0 .. N |-> IF x = Null THEN Null ELSE t.entries[x].next]
<1>1. N \in Nat /\ \A x \in 1 .. N : t.entries[x].next \in 0 .. N
  BY ShapeParts, TableParts, LinksIn
<1>2. Chain(t, e) = Walk(t, next, e)
  BY Zenon DEF Chain
<1>3. next \in [0 .. N -> 0 .. N] /\ next[Null] = Null /\ \A x \in 1 .. N : next[x] = t.entries[x].next
  BY <1>1 DEF Null
<1>4. \A j \in 1 .. Len(W) : W[j] \in 1 .. N
  BY SeqFun
<1> HIDE DEF next
<1>5. Path(W, e, next)
  BY <1>3, <1>4 DEF Path
<1> QED BY <1>1, <1>2, <1>3, <1>5, WalkIs

(* Following next from the head of a bucket comes to exactly the entries of *)
(* the bucket (phashtable.c:159-188).                                       *)
LEMMA BucketChain ==
  ASSUME NEW t, NEW V, NEW F, Shape(t, V, F), NEW b \in 0 .. Capacity(t) - 1
  PROVE  IsList(Chain(t, First(t, b)), t, V, b)
<1>1. t \in Tables /\ Strung(t, V)
  BY ShapeParts
<1>2. PICK Q : IsList(Q, t, V, b)
  BY <1>1, ListOf
<1>3. /\ Q \in Seq(1 .. Len(t.entries))
      /\ \A j, k \in 1 .. Len(Q) : Q[j] = Q[k] => j = k
      /\ First(t, b) = IF Len(Q) = 0 THEN Null ELSE Q[1]
      /\ \A j \in 1 .. Len(Q) : t.entries[Q[j]].next = IF j < Len(Q) THEN Q[j + 1] ELSE Null
  BY <1>2 DEF IsList
<1>4. Chain(t, First(t, b)) = Q
  BY <1>3, ChainIs
<1> QED BY <1>2, <1>4

(* Following next from the head of the free list comes to exactly the spare *)
(* entries (phashtable.c:202, 401).                                         *)
LEMMA FreeChain ==
  ASSUME NEW t, NEW V, NEW F, Shape(t, V, F)
  PROVE  Chain(t, t.freeList) = F
<1>1. t \in Tables /\ Spare(t, F)
  BY ShapeParts
<1> QED BY <1>1, SpareParts, ChainIs

(* A hash code modulo the capacity is the index of a bucket                 *)
(* (phashtable.c:265).                                                      *)
LEMMA BucketIn ==
  ASSUME NEW t, Capacity(t) \in Nat \ {0}, NEW key \in Keys
  PROVE  Bucket(t, key) \in 0 .. Capacity(t) - 1
<1>1. HashCode[key] \in Nat
  BY HashAssumption
<1> QED BY <1>1 DEF Bucket

(* The entry getEntry finds is the one that holds the key, if there is one. *)
LEMMA GetEntryIs ==
  ASSUME NEW t, NEW V, NEW F, Shape(t, V, F), Settled(t, V), NEW key \in Keys
  PROVE  \/ /\ GetEntry(t, key) = Null
            /\ \A j \in 1 .. Len(V) : t.entries[V[j]].key # key
         \/ \E j \in 1 .. Len(V) : /\ GetEntry(t, key) = V[j] /\ V[j] # Null
                                   /\ t.entries[V[j]].key = key
<1> DEFINE b == Bucket(t, key)
           Q == Chain(t, First(t, b))
           I == {i \in 1 .. Len(Q) : t.entries[Q[i]].key = key}
           i == SelectInSeq(Q, LAMBDA e : t.entries[e].key = key)
<1>1. t \in Tables /\ Strung(t, V) /\ Capacity(t) \in Nat \ {0}
  BY ShapeParts
<1>2. IsList(Q, t, V, b)
  <2>1. b \in 0 .. Capacity(t) - 1
    BY <1>1, BucketIn
  <2> HIDE DEF b
  <2> QED BY <2>1, BucketChain
<1>3. i = IF I # {} THEN Min(I) ELSE 0
  BY Zenon DEF SelectInSeq
<1>4. GetEntry(t, key) = IF i = 0 THEN Null ELSE Q[i]
  BY Zenon DEF GetEntry
<1>5. \A j \in 1 .. Len(V) : t.entries[V[j]].key = key => t.entries[V[j]].idx = b
  <2>1. \A j \in 1 .. Len(V) : V[j] \in Range(V)
    BY <1>1, StrungParts DEF Range
  <2> HIDE DEF b
  <2>2. ASSUME NEW x \in Range(V), t.entries[x].key = key PROVE t.entries[x].idx = b
    BY <2>2 DEF Settled, b
  <2> QED BY <2>1, <2>2
<1>6. /\ Len(V) \in Nat /\ DOMAIN V = 1 .. Len(V) /\ \A j \in 1 .. Len(V) : V[j] # Null
  BY <1>1, StrungParts
<1>7. /\ Q \in Seq(1 .. Len(t.entries)) /\ \A j \in 1 .. Len(Q) : Q[j] \in Range(V)
      /\ \A x \in Range(V) : t.entries[x].idx = b => \E j \in 1 .. Len(Q) : x = Q[j]
  BY <1>2 DEF IsList
<1>8. Len(Q) \in Nat
  BY <1>7, SeqFun
<1> HIDE DEF b, Q, i
<1>9. CASE I = {}
  <2>1. GetEntry(t, key) = Null
    BY <1>3, <1>4, <1>9
  <2>2. ASSUME NEW j \in 1 .. Len(V), t.entries[V[j]].key = key PROVE FALSE
    <3>1. V[j] \in Range(V)
      BY <1>6 DEF Range
    <3>2. \E k \in 1 .. Len(Q) : V[j] = Q[k]
      BY <3>1, <2>2, <1>5, <1>7
    <3> QED BY <3>2, <2>2, <1>9
  <2> QED BY <2>1, <2>2
<1>10. CASE I # {}
  <2>1. Min(I) \in I
    <3>1. I \in SUBSET Nat
      BY <1>8
    <3> HIDE DEF I
    <3> QED BY <3>1, <1>10, MinIn
  <2>2. i \in I
    <3> HIDE DEF I
    <3> QED BY <2>1, <1>3, <1>10
  <2>3. i \in 1 .. Len(Q) /\ t.entries[Q[i]].key = key
    BY <2>2
  <2>4. GetEntry(t, key) = Q[i] /\ Q[i] \in Range(V)
    BY <2>3, <1>4, <1>7, <1>8
  <2>5. \E j \in 1 .. Len(V) : Q[i] = V[j]
    BY <2>4, <1>6 DEF Range
  <2> QED BY <2>3, <2>4, <2>5, <1>6
<1> QED BY <1>9, <1>10

(* The first entry of the lists of all buckets, or the one after entry j. *)
LEMMA AdvanceIs ==
  ASSUME NEW t, NEW V, NEW F, Shape(t, V, F), NEW j \in 0 .. Len(V)
  PROVE  Advance(t, IF j = 0 THEN Null ELSE V[j]) = IF j < Len(V) THEN V[j + 1] ELSE Null
<1> DEFINE L == Len(V)
           C == Capacity(t)
           I(k) == t.entries[V[k]].idx
           e == IF j = 0 THEN Null ELSE V[j]
           later == {i \in 0 .. C - 1 : First(t, i) # Null /\ (e # Null => i > t.entries[e].idx)}
           next == t.entries[e].next
<1>1. t \in Tables /\ Strung(t, V)
  BY ShapeParts
<1>2. /\ L \in Nat /\ C \in Nat /\ j \in 0 .. L
      /\ \A k \in 1 .. L : I(k) \in Int /\ I(k) \in 0 .. C - 1 /\ V[k] # Null
      /\ \A k, m \in 1 .. L : k < m => I(k) <= I(m)
  BY <1>1, StrungParts, TableParts
<1>3. /\ \A k \in 1 .. L : t.entries[V[k]].next = IF k < L /\ I(k + 1) = I(k) THEN V[k + 1] ELSE Null
      /\ \A i \in 0 .. C - 1 :
           \/ First(t, i) = Null /\ \A k \in 1 .. L : I(k) # i
           \/ \E k \in 1 .. L : V[k] = First(t, i) /\ I(k) = i /\ (1 < k => I(k - 1) # i)
  BY <1>1 DEF Strung, Threaded
<1>4. Advance(t, e) = IF e # Null /\ next # Null THEN next
                      ELSE IF later = {} THEN Null ELSE First(t, Min(later))
  BY Zenon DEF Advance
<1>5. e # Null <=> j # 0
  BY <1>2
<1>6. j # 0 => t.entries[e].idx = I(j) /\ j \in 1 .. L
  BY <1>2
<1>60. j # 0 => next = IF j < L /\ I(j + 1) = I(j) THEN V[j + 1] ELSE Null
  BY <1>6, <1>3
<1> HIDE DEF e, I, L, C, next
<1>7. \A i \in 0 .. C - 1 : i \in later <=> First(t, i) # Null /\ (j # 0 => i > I(j))
  BY <1>5, <1>6
<1>70. later \in SUBSET (0 .. C - 1) /\ later \in SUBSET Nat
  BY <1>2
<1> HIDE DEF later
<1>8. CASE j < L
  <2>1. j + 1 \in 1 .. L /\ j + 1 \in Nat
    BY <1>8, <1>2
  <2>2. V[j + 1] # Null /\ I(j + 1) \in Int /\ I(j + 1) \in 0 .. C - 1
    BY <2>1, <1>2
  <2>3. CASE j # 0 /\ I(j + 1) = I(j)
    <3>1. next = V[j + 1]
      BY <2>3, <1>60, <1>8
    <3>2. Advance(t, e) = V[j + 1]
      BY <3>1, <2>2, <2>3, <1>4, <1>5
    <3> QED BY <3>2, <1>8 DEF e, L
  <2>4. CASE ~(j # 0 /\ I(j + 1) = I(j))
    <3>1. j # 0 => I(j) < I(j + 1) /\ I(j) \in Int
      <4> HAVE j # 0
      <4>1. j \in 1 .. L /\ j < j + 1
        BY <1>2
      <4>2. I(j) <= I(j + 1) /\ I(j) \in Int
        BY <4>1, <2>1, <1>2
      <4> QED BY <4>2, <2>2, <2>4
    <3>2. First(t, I(j + 1)) = V[j + 1]
      <4> DEFINE b == I(j + 1)
      <4>1. IsPlace(j + 1, t, V, b)
        <5>1. j + 1 \in 1 .. L + 1
          BY <2>1, <1>2
        <5>2. ASSUME NEW k \in 1 .. L PROVE IF k < j + 1 THEN I(k) < b ELSE b <= I(k)
          <6>1. CASE k < j + 1
            <7>1. j # 0 /\ (k < j \/ k = j) /\ j \in 1 .. L
              BY <6>1, <1>2
            <7>2. I(k) <= I(j) /\ I(k) \in Int
              BY <7>1, <1>2
            <7> QED BY <7>1, <7>2, <6>1, <3>1, <2>2
          <6>2. CASE ~(k < j + 1)
            <7>1. j + 1 < k \/ k = j + 1
              BY <6>2, <1>2
            <7> QED BY <7>1, <6>2, <2>1, <2>2, <1>2
          <6> QED BY <6>1, <6>2
        <5> HIDE DEF b
        <5> QED BY <5>1, <5>2 DEF IsPlace, I, L
      <4>2. b \in 0 .. Capacity(t) - 1 /\ j + 1 <= L /\ I(j + 1) = b
        BY <2>1, <2>2, <1>2 DEF C
      <4> HIDE DEF b
      <4>3. First(t, b) = IF j + 1 <= Len(V) /\ t.entries[V[j + 1]].idx = b THEN V[j + 1] ELSE Null
        BY <4>1, <4>2, <1>1, HeadIs
      <4> QED BY <4>2, <4>3 DEF L, I
    <3>3. I(j + 1) \in later
      BY <3>1, <3>2, <2>2, <1>7
    <3>4. ASSUME NEW i \in later PROVE I(j + 1) <= i
      <4>1. i \in 0 .. C - 1 /\ i \in Int /\ First(t, i) # Null /\ (j # 0 => i > I(j))
        BY <1>7, <1>70, <1>2
      <4>2. PICK k \in 1 .. L : I(k) = i
        BY <4>1, <1>3
      <4>3. ~(k <= j)
        <5> SUFFICES ASSUME k <= j PROVE FALSE
          OBVIOUS
        <5>1. j # 0 /\ j \in 1 .. L /\ (k < j \/ k = j)
          BY <1>2
        <5>2. I(k) <= I(j) /\ I(k) \in Int /\ I(j) \in Int
          BY <5>1, <1>2
        <5> QED BY <5>1, <5>2, <4>1, <4>2
      <4>4. j + 1 < k \/ k = j + 1
        BY <4>3, <1>2
      <4> QED BY <4>4, <4>2, <2>1, <2>2, <1>2
    <3>5. Min(later) = I(j + 1)
      <4>1. Min(later) \in later /\ \A x \in later : Min(later) <= x
        BY <3>3, <1>70, MinIn
      <4>2. Min(later) \in Int
        <5> DEFINE m == Min(later)
        <5> HIDE DEF m
        <5>1. m \in later
          BY <4>1 DEF m
        <5>2. m \in Nat
          BY <5>1, <1>70
        <5> QED BY <5>2 DEF m
      <4> QED BY <4>1, <4>2, <3>3, <3>4, <2>2
    <3>6. ~(e # Null /\ next # Null)
      BY <2>4, <1>5, <1>60, <1>8
    <3> QED BY <3>2, <3>3, <3>5, <3>6, <1>4, <1>8 DEF e, L
  <2> QED BY <2>3, <2>4
<1>9. CASE ~(j < L)
  <2>1. ~(e # Null /\ next # Null)
    BY <1>5, <1>60, <1>9
  <2>2. ASSUME NEW i \in later PROVE FALSE
    <3>1. i \in 0 .. C - 1 /\ First(t, i) # Null /\ (j # 0 => i > I(j)) /\ i \in Int
      BY <1>7, <1>70, <1>2
    <3>2. PICK k \in 1 .. L : I(k) = i
      BY <3>1, <1>3
    <3>3. j # 0 /\ j = L /\ j \in 1 .. L /\ (k < j \/ k = j)
      BY <1>9, <1>2 DEF L
    <3>4. I(k) <= I(j) /\ I(k) \in Int /\ I(j) \in Int
      BY <3>3, <1>2
    <3> QED BY <3>1, <3>2, <3>3, <3>4
  <2>3. Advance(t, e) = Null
    BY <2>1, <2>2, <1>4
  <2> QED BY <2>3, <1>9 DEF e, L
<1> QED BY <1>8, <1>9

(* The iterator moves to an entry of the table or to none. *)
LEMMA AdvanceIn ==
  ASSUME NEW t, NEW V, NEW F, Shape(t, V, F), NEW x \in 1 .. Len(t.entries)
  PROVE  Advance(t, x) \in 0 .. Len(t.entries)
<1> DEFINE C == Capacity(t)
           later == {i \in 0 .. C - 1 : First(t, i) # Null /\ (x # Null => i > t.entries[x].idx)}
           next == t.entries[x].next
           m == Min(later)
<1>1. /\ next \in 0 .. Len(t.entries) /\ Null \in 0 .. Len(t.entries) /\ C \in Nat
      /\ \A b \in 0 .. C - 1 : First(t, b) \in 0 .. Len(t.entries)
  BY ShapeParts, TableParts, LinksIn DEF Null
<1>2. Advance(t, x) = IF x # Null /\ next # Null THEN next
                      ELSE IF later = {} THEN Null ELSE First(t, m)
  BY Zenon DEF Advance
<1>3. later \in SUBSET (0 .. C - 1) /\ later \in SUBSET Nat
  BY <1>1
<1> HIDE DEF later
<1>4. later # {} => m \in later
  BY <1>3, MinIn
<1> HIDE DEF m, next
<1> QED BY <1>1, <1>2, <1>3, <1>4

(* An iteration comes to the lists of the buckets one after the other. *)
LEMMA VisitedIs ==
  ASSUME NEW t, NEW V, NEW F, Shape(t, V, F)
  PROVE  Visited(t) = V
<1> DEFINE N == Len(t.entries)
           L == Len(V)
           next == [x \in 0 .. N |-> IF x = Null THEN Null ELSE Advance(t, x)]
<1>1. /\ t \in Tables /\ Strung(t, V) /\ N \in Nat
      /\ V \in Seq(1 .. N) /\ L \in Nat /\ \A j \in 1 .. L : V[j] \in 1 .. N /\ V[j] # Null
      /\ \A j, k \in 1 .. L : V[j] = V[k] => j = k
  <2>1. t \in Tables /\ Strung(t, V)
    BY ShapeParts
  <2> QED BY <2>1, StrungParts, TableParts
<1>2. Visited(t) = Walk(t, next, Advance(t, Null))
  BY Zenon DEF Visited
<1>3. Advance(t, Null) = IF L = 0 THEN Null ELSE V[1]
  <2>1. 0 \in 0 .. L
    BY <1>1
  <2> HIDE DEF L
  <2>2. Advance(t, IF 0 = 0 THEN Null ELSE V[0]) = IF 0 < L THEN V[0 + 1] ELSE Null
    BY <2>1, AdvanceIs DEF L
  <2> QED BY <2>2, <1>1
<1>4. ASSUME NEW j \in 1 .. L PROVE Advance(t, V[j]) = IF j < L THEN V[j + 1] ELSE Null
  <2>1. j \in 0 .. L /\ j # 0
    BY <1>1
  <2>2. Advance(t, IF j = 0 THEN Null ELSE V[j]) = IF j < L THEN V[j + 1] ELSE Null
    BY <2>1, AdvanceIs
  <2> QED BY <2>1, <2>2
<1>5. \A j \in 1 .. L : next[V[j]] = Advance(t, V[j])
  BY <1>1
<1>6. next[Null] = Null /\ Null \in 0 .. N
  BY <1>1 DEF Null
<1>7. next \in [0 .. N -> 0 .. N]
  <2>1. \A x \in 1 .. N : Advance(t, x) \in 0 .. N
    BY AdvanceIn
  <2> QED BY <2>1, <1>6 DEF Null
<1> DEFINE e == Advance(t, Null)
<1> HIDE DEF next, e
<1>8. Path(V, e, next)
  BY <1>3, <1>4, <1>5 DEF Path, e
<1>9. Walk(t, next, e) = V
  BY <1>1, <1>6, <1>7, <1>8, WalkIs
<1> QED BY <1>2, <1>9 DEF e

-----------------------------------------------------------------------------
(* An entry leaves, an entry comes. *)

(* The lists of u are those of t, in the buckets t has. *)
LEMMA StrungLocal ==
  ASSUME NEW t \in Tables, NEW u \in Tables, NEW V, Strung(t, V),
         Len(t.entries) <= Len(u.entries), Capacity(t) <= Capacity(u),
         \A x \in Range(V) : /\ u.entries[x].next = t.entries[x].next
                             /\ u.entries[x].prev = t.entries[x].prev
                             /\ u.entries[x].idx = t.entries[x].idx,
         \A i \in 0 .. Capacity(u) - 1 : First(u, i) = IF i < Capacity(t) THEN First(t, i) ELSE Null
  PROVE  Strung(u, V)
<1> DEFINE L == Len(V)
           C == Capacity(t)
           D == Capacity(u)
<1>1. /\ V \in Seq(1 .. Len(t.entries)) /\ L \in Nat /\ DOMAIN V = 1 .. L
      /\ \A j \in 1 .. L : V[j] \in 1 .. Len(t.entries) /\ V[j] \in Range(V)
      /\ \A j \in 1 .. L : t.entries[V[j]].idx \in 0 .. C - 1 /\ t.entries[V[j]].idx \in Int
  BY StrungParts DEF Range
<1>2. /\ Len(t.entries) \in Nat /\ Len(u.entries) \in Nat /\ DOMAIN u.entries = 1 .. Len(u.entries)
      /\ C \in Nat /\ D \in Nat /\ C <= D
  BY TableParts
<1>3. V \in Seq(DOMAIN u.entries)
  <2>1. V \in [1 .. L -> 1 .. Len(u.entries)]
    <3>1. \A x \in 1 .. Len(t.entries) : x \in 1 .. Len(u.entries)
      BY <1>2
    <3> HIDE DEF L
    <3>2. V \in [1 .. L -> 1 .. Len(t.entries)]
      BY <1>1, SeqFun DEF L
    <3> QED BY <3>1, <3>2, <1>1
  <2> HIDE DEF L
  <2> QED BY <2>1, <1>1, <1>2, FunSeq
<1>4. Threaded(t, V, L, C)
  BY DEF Strung
<1> HIDE DEF L, C, D
<1>5. \A j \in 1 .. L : /\ u.entries[V[j]].next = t.entries[V[j]].next
                        /\ u.entries[V[j]].prev = t.entries[V[j]].prev
                        /\ u.entries[V[j]].idx = t.entries[V[j]].idx
  BY <1>1
<1>6. /\ \A j \in 1 .. L : j < L => j + 1 \in 1 .. L
      /\ \A j \in 1 .. L : 1 < j => j - 1 \in 1 .. L
  BY <1>1
<1>7. \A j, k \in 1 .. L : V[j] = V[k] => j = k
  BY <1>4 DEF Threaded
<1>8. \A j \in 1 .. L : u.entries[V[j]].idx \in 0 .. D - 1
  <2>1. \A i \in 0 .. C - 1 : i \in 0 .. D - 1
    BY <1>2
  <2>2. \A j \in 1 .. L : u.entries[V[j]].idx \in 0 .. C - 1
    BY <1>1, <1>5
  <2> QED BY <2>1, <2>2
<1>9. \A j, k \in 1 .. L : j < k => u.entries[V[j]].idx <= u.entries[V[k]].idx
  BY <1>4, <1>5 DEF Threaded
<1>10. \A j \in 1 .. L :
         u.entries[V[j]].next = IF j < L /\ u.entries[V[j + 1]].idx = u.entries[V[j]].idx
                                THEN V[j + 1] ELSE Null
  <2> TAKE j \in 1 .. L
  <2>1. t.entries[V[j]].next = IF j < L /\ t.entries[V[j + 1]].idx = t.entries[V[j]].idx
                                THEN V[j + 1] ELSE Null
    BY <1>4 DEF Threaded
  <2> QED BY <2>1, <1>5, <1>6
<1>11. \A j \in 1 .. L :
         u.entries[V[j]].prev = IF 1 < j /\ u.entries[V[j - 1]].idx = u.entries[V[j]].idx
                                THEN V[j - 1] ELSE Null
  <2> TAKE j \in 1 .. L
  <2>1. t.entries[V[j]].prev = IF 1 < j /\ t.entries[V[j - 1]].idx = t.entries[V[j]].idx
                                THEN V[j - 1] ELSE Null
    BY <1>4 DEF Threaded
  <2> QED BY <2>1, <1>5, <1>6
<1>12. ASSUME NEW i \in 0 .. D - 1
       PROVE  \/ First(u, i) = Null /\ \A j \in 1 .. L : u.entries[V[j]].idx # i
              \/ \E j \in 1 .. L : /\ V[j] = First(u, i) /\ u.entries[V[j]].idx = i
                                   /\ 1 < j => u.entries[V[j - 1]].idx # i
  <2>1. First(u, i) = IF i < C THEN First(t, i) ELSE Null
    BY DEF C, D
  <2>2. CASE i < C
    <3>1. i \in 0 .. C - 1
      BY <2>2, <1>2
    <3>2. \/ First(t, i) = Null /\ \A j \in 1 .. L : t.entries[V[j]].idx # i
          \/ \E j \in 1 .. L : /\ V[j] = First(t, i) /\ t.entries[V[j]].idx = i
                               /\ 1 < j => t.entries[V[j - 1]].idx # i
      BY <3>1, <1>4 DEF Threaded
    <3>3. CASE First(t, i) = Null /\ \A j \in 1 .. L : t.entries[V[j]].idx # i
      BY <3>3, <2>1, <2>2, <1>5
    <3>4. ASSUME NEW j \in 1 .. L, V[j] = First(t, i), t.entries[V[j]].idx = i,
                 1 < j => t.entries[V[j - 1]].idx # i
          PROVE  \E k \in 1 .. L : /\ V[k] = First(u, i) /\ u.entries[V[k]].idx = i
                                   /\ 1 < k => u.entries[V[k - 1]].idx # i
      BY <3>4, <2>1, <2>2, <1>5, <1>6
    <3> QED BY <3>2, <3>3, <3>4
  <2>3. CASE ~(i < C)
    <3>1. \A j \in 1 .. L : u.entries[V[j]].idx # i
      BY <2>3, <1>1, <1>2, <1>5
    <3> QED BY <3>1, <2>1, <2>3
  <2> QED BY <2>2, <2>3
<1>13. Threaded(u, V, L, D)
  BY <1>7, <1>8, <1>9, <1>10, <1>11, <1>12 DEF Threaded
<1> QED BY <1>3, <1>13 DEF Strung, L, D

(* A table with an entry, its size and its free list set. *)
WithEntry(t, e, x, size, free) == [t EXCEPT !.size = size, !.freeList = free, !.entries[e] = x]

(* Writing one entry, the size and the head of the free list changes        *)
(* nothing else of a table.                                                 *)
LEMMA SetEntry ==
  ASSUME NEW t \in Tables, NEW e \in 1 .. Len(t.entries), NEW x \in Entry,
         NEW size \in Nat, NEW free \in Nat
  PROVE  LET u == WithEntry(t, e, x, size, free)
         IN  /\ u \in Tables /\ Len(u.entries) = Len(t.entries) /\ Capacity(u) = Capacity(t)
             /\ u.size = size /\ u.freeList = free /\ u.buckets = t.buckets
             /\ \A i : First(u, i) = First(t, i)
             /\ \A y \in 1 .. Len(t.entries) : u.entries[y] = IF y = e THEN x ELSE t.entries[y]
<1> DEFINE es == [t.entries EXCEPT ![e] = x]
           u == WithEntry(t, e, x, size, free)
<1>1. t.entries \in Seq(Entry)
  BY TableParts
<1>2. u = [t EXCEPT !.size = size, !.freeList = free, !.entries = es]
  BY DEF Tables, WithEntry
<1>3. /\ es \in Seq(Entry) /\ Len(es) = Len(t.entries)
      /\ \A y \in 1 .. Len(t.entries) : es[y] = IF y = e THEN x ELSE t.entries[y]
  BY <1>1, ExceptSeq
<1> HIDE DEF es, u
<1>4. /\ u \in Tables /\ u.entries = es /\ u.buckets = t.buckets /\ u.size = size
      /\ u.freeList = free
  BY <1>2, <1>3 DEF Tables
<1>5. Capacity(u) = Capacity(t) /\ \A i : First(u, i) = First(t, i)
  BY <1>4 DEF Capacity, First
<1> QED BY <1>3, <1>4, <1>5 DEF u

(* The lists of the buckets lead to their own entries only. *)
LEMMA LinksStay ==
  ASSUME NEW t \in Tables, NEW V, Strung(t, V)
  PROVE  /\ \A x \in Range(V) : /\ t.entries[x].prev \in Range(V) \cup {Null}
                                /\ t.entries[x].next \in Range(V) \cup {Null}
         /\ \A b \in 0 .. Capacity(t) - 1 : First(t, b) \in Range(V) \cup {Null}
<1> DEFINE L == Len(V)
           I(j) == t.entries[V[j]].idx
<1>1. L \in Nat /\ DOMAIN V = 1 .. L
  BY StrungParts
<1>2. /\ \A j \in 1 .. L : t.entries[V[j]].next = IF j < L /\ I(j + 1) = I(j) THEN V[j + 1] ELSE Null
      /\ \A j \in 1 .. L : t.entries[V[j]].prev = IF 1 < j /\ I(j - 1) = I(j) THEN V[j - 1] ELSE Null
      /\ \A i \in 0 .. Capacity(t) - 1 :
           First(t, i) = Null \/ \E j \in 1 .. L : V[j] = First(t, i)
  BY DEF Strung, Threaded
<1> HIDE DEF L
<1>3. \A j \in 1 .. L : V[j] \in Range(V)
  BY <1>1 DEF Range
<1>4. \A x \in Range(V) : \E j \in 1 .. L : x = V[j]
  BY <1>1 DEF Range
<1>5. /\ \A j \in 1 .. L : j < L => j + 1 \in 1 .. L
      /\ \A j \in 1 .. L : 1 < j => j - 1 \in 1 .. L
  BY <1>1
<1>6. \A j \in 1 .. L : /\ t.entries[V[j]].prev \in Range(V) \cup {Null}
                        /\ t.entries[V[j]].next \in Range(V) \cup {Null}
  <2> HIDE DEF I
  <2> QED BY <1>2, <1>3, <1>5
<1>7. \A b \in 0 .. Capacity(t) - 1 : First(t, b) \in Range(V) \cup {Null}
  BY <1>2, <1>3
<1> QED BY <1>4, <1>6, <1>7

(* What entry x holds, and where. *)
Keeps(t, u, x) == /\ u.entries[x].key = t.entries[x].key /\ u.entries[x].value = t.entries[x].value
                  /\ u.entries[x].idx = t.entries[x].idx

(* Entries that keep their keys and values go on holding different keys. *)
LEMMA HoldsOn ==
  ASSUME NEW t, NEW u, NEW V, NEW W, Holds(t, V), Range(W) \subseteq Range(V),
         \A x \in Range(W) : u.entries[x].key = t.entries[x].key /\ u.entries[x].value = t.entries[x].value
  PROVE  Holds(u, W)
BY Zenon DEF Holds

(* u is t without the entry at p. *)
Dropped(t, u, V, F, p) ==
  /\ Shape(u, Cut(V, p), PutAt(F, 1, V[p]))
  /\ Len(u.entries) = Len(t.entries) /\ Capacity(u) = Capacity(t)
  /\ \A x \in Range(V) \ {V[p]} : Keeps(t, u, x)

(* removeEntry takes one entry out of its list and puts it first on the     *)
(* free list; every other entry keeps its bucket, key and value             *)
(* (phashtable.c:190-206).                                                  *)
LEMMA RemovedIs ==
  ASSUME NEW t, NEW V, NEW F, Shape(t, V, F), NEW p \in 1 .. Len(V)
  PROVE  Dropped(t, Removed(t, V[p]), V, F, p)
<1> DEFINE e == V[p]
           N == Len(t.entries)
           C == Capacity(t)
           x == t.entries[e]
           U == Unlinked(t, e, x.idx)
           W == Cut(V, p)
           G == PutAt(F, 1, e)
           blank == Blank(t.freeList)
           u == WithEntry(U, e, blank, U.size - 1, e)
<1>1. /\ t \in Tables /\ Strung(t, V) /\ Spare(t, F) /\ Holds(t, V) /\ t.size = Len(V) /\ Len(V) \in Nat
      /\ \A y \in 1 .. Len(t.entries) : (y \in Range(V)) # (y \in Range(F))
      /\ Capacity(t) \in Nat \ {0}
  BY ShapeParts
<1>2. e \in 1 .. N /\ e # Null /\ e \in Range(V) /\ e \notin Range(F)
  <2> HIDE DEF x, U, W, G, u, C
  <2>1. DOMAIN V = 1 .. Len(V) /\ e \in 1 .. N /\ e # Null
    BY <1>1, StrungParts
  <2>2. e \in Range(V)
    BY <2>1 DEF Range
  <2> QED BY <2>1, <2>2, <1>1
<1>3. x.next \in 0 .. N /\ x.prev \in 0 .. N /\ x.idx \in 0 .. C - 1
  <2> HIDE DEF e
  <2> QED BY <1>2, LinksIn
<1>4. Parted(t, U, e)
  <2> HIDE DEF e
  <2>1. x.next \in 0 .. Len(t.entries) /\ x.prev \in 0 .. Len(t.entries) /\ x.idx \in 0 .. Capacity(t) - 1
    BY <1>3
  <2> DEFINE i == x.idx
  <2>2. i \in 0 .. Capacity(t) - 1
    BY <2>1
  <2> HIDE DEF i
  <2>3. LET v == Unlinked(t, e, i)
        IN  /\ Alike(t, v)
            /\ \A y \in 1 .. Len(t.entries) :
                  /\ v.entries[y].next = IF y = x.prev THEN x.next ELSE t.entries[y].next
                  /\ v.entries[y].prev = IF y = x.next THEN x.prev ELSE t.entries[y].prev
                  /\ v.entries[y].idx = t.entries[y].idx
            /\ \A b \in 0 .. Capacity(t) - 1 :
                  First(v, b) = IF x.prev = Null /\ b = i THEN x.next ELSE First(t, b)
    BY <2>1, <2>2, <1>1, <1>2, UnlinkedIs
  <2> QED BY <2>3 DEF Parted, i
<1>5. Strung(U, W)
  <2> HIDE DEF U
  <2> QED BY <1>1, <1>4, PullOut
<1>6. Removed(t, e) = u
  <2>1. U.size = U.size
    OBVIOUS
  <2> QED BY Zenon DEF Removed, WithEntry
<1>7. /\ W \in Seq(1 .. N) /\ Len(W) = Len(V) - 1 /\ Range(W) = Range(V) \ {e}
  <2> DEFINE S == 1 .. N
  <2>1. V \in Seq(S) /\ \A j, k \in 1 .. Len(V) : V[j] = V[k] => j = k
    BY <1>1, StrungParts
  <2> HIDE DEF S
  <2>2. /\ Cut(V, p) \in Seq(S) /\ Len(Cut(V, p)) = Len(V) - 1
        /\ Range(Cut(V, p)) = Range(V) \ {V[p]}
    BY <2>1, CutIs
  <2> QED BY <2>2 DEF S
<1>8. /\ F \in Seq(1 .. N) /\ Len(F) \in Nat /\ \A j \in 1 .. Len(F) : F[j] \in 1 .. N /\ F[j] \in Range(F)
      /\ \A j, k \in 1 .. Len(F) : F[j] = F[k] => j = k
      /\ t.freeList = IF Len(F) = 0 THEN Null ELSE F[1]
      /\ \A j \in 1 .. Len(F) : t.entries[F[j]].next = IF j < Len(F) THEN F[j + 1] ELSE Null
  <2> HIDE DEF e, x, U, W, G, blank, u, C
  <2>1. DOMAIN F = 1 .. Len(F)
    BY <1>1, SpareParts
  <2>2. \A j \in 1 .. Len(F) : F[j] \in Range(F)
    BY <2>1 DEF Range
  <2> QED BY <2>2, <1>1, SpareParts
<1>9. /\ G \in Seq(1 .. N) /\ Len(G) = Len(F) + 1 /\ Range(G) = Range(F) \cup {e}
      /\ \A j \in 1 .. Len(F) + 1 : G[j] = IF j = 1 THEN e ELSE F[j - 1]
      /\ \A j, k \in 1 .. Len(G) : G[j] = G[k] => j = k
  <2> DEFINE S == 1 .. N
  <2>1. F \in Seq(S) /\ e \in S /\ 1 \in 1 .. Len(F) + 1
    BY <1>2, <1>8
  <2> HIDE DEF S, e
  <2>2. /\ PutAt(F, 1, e) \in Seq(S) /\ Len(PutAt(F, 1, e)) = Len(F) + 1
        /\ \A j \in 1 .. Len(F) + 1 :
              PutAt(F, 1, e)[j] = IF j < 1 THEN F[j] ELSE IF j = 1 THEN e ELSE F[j - 1]
        /\ \A j, k \in 1 .. Len(F) + 1 : PutAt(F, 1, e)[j] = PutAt(F, 1, e)[k] => j = k
        /\ Range(PutAt(F, 1, e)) = Range(F) \cup {e}
    BY <2>1, <1>2, <1>8, PutAtIs
  <2>3. \A j \in 1 .. Len(F) + 1 : ~(j < 1)
    BY <1>8
  <2> QED BY <2>2, <2>3 DEF S
<1>10. /\ U \in Tables /\ Len(U.entries) = N /\ Capacity(U) = C /\ U.size = t.size /\ t.freeList \in Nat
       /\ \A y \in 1 .. N :
            /\ U.entries[y].key = t.entries[y].key /\ U.entries[y].value = t.entries[y].value
            /\ U.entries[y].next = IF y = x.prev THEN x.next ELSE t.entries[y].next
            /\ U.entries[y].idx = t.entries[y].idx
  <2>1. t.freeList \in Nat
    BY <1>1, TableParts
  <2> HIDE DEF U
  <2> QED BY <2>1, <1>4 DEF Parted, Alike
<1> HIDE DEF U, W, G, x
<1>11. blank \in Entry /\ blank.next = t.freeList
  BY <1>10 DEF Blank, Entry, Null
<1> HIDE DEF blank, u
<1>12. /\ u \in Tables /\ Len(u.entries) = N /\ Capacity(u) = C /\ u.size = Len(W) /\ u.freeList = e
       /\ \A i : First(u, i) = First(U, i)
       /\ \A y \in 1 .. N : u.entries[y] = IF y = e THEN blank ELSE U.entries[y]
  <2>1. e \in 1 .. Len(U.entries) /\ e \in Nat /\ U.size - 1 \in Nat /\ U.size - 1 = Len(W)
    BY <1>1, <1>2, <1>7, <1>10
  <2> HIDE DEF e, N, C
  <2> DEFINE size == U.size - 1
  <2>2. size \in Nat
    BY <2>1
  <2> HIDE DEF size
  <2>3. LET v == WithEntry(U, e, blank, size, e)
        IN  /\ v \in Tables /\ Len(v.entries) = Len(U.entries) /\ Capacity(v) = Capacity(U)
             /\ v.size = size /\ v.freeList = e
             /\ \A i : First(v, i) = First(U, i)
             /\ \A y \in 1 .. Len(U.entries) : v.entries[y] = IF y = e THEN blank ELSE U.entries[y]
    BY SMTT(30), <2>1, <2>2, <1>10, <1>11, SetEntry
  <2> QED BY <2>1, <2>3, <1>10 DEF u, size
<1>13. Range(V) \subseteq 1 .. N
  BY LinksIn DEF N
<1> HIDE DEF e, N, C
<1>14. \A y \in Range(V) \ {e} : /\ y \in 1 .. N /\ u.entries[y] = U.entries[y] /\ Keeps(t, u, y)
  BY <1>10, <1>12, <1>13 DEF Keeps
<1>15. Strung(u, W)
  <2>1. Len(U.entries) <= Len(u.entries) /\ Capacity(U) <= Capacity(u)
    BY <1>1, <1>10, <1>12, TableParts DEF N, C
  <2>2. \A i \in 0 .. Capacity(u) - 1 : First(u, i) = IF i < Capacity(U) THEN First(U, i) ELSE Null
    BY <1>1, <1>10, <1>12 DEF C
  <2> QED BY <2>1, <2>2, <1>5, <1>7, <1>10, <1>12, <1>14, StrungLocal
<1>16. Spare(u, G)
  <2>1. G \in Seq(DOMAIN u.entries)
    <3>1. DOMAIN u.entries = 1 .. N
      BY <1>12, TableParts
    <3> QED BY <3>1, <1>9
  <2>2. u.freeList = IF Len(G) = 0 THEN Null ELSE G[1]
    BY <1>8, <1>9, <1>12
  <2>3. ASSUME NEW j \in 1 .. Len(G)
        PROVE  u.entries[G[j]].next = IF j < Len(G) THEN G[j + 1] ELSE Null
    <3>1. CASE j = 1
      <4>1. u.entries[G[j]].next = t.freeList
        BY <3>1, <1>2, <1>9, <1>11, <1>12
      <4>2. Len(F) = 0 \/ (1 < Len(G) /\ G[2] = F[1])
        <5>1. Len(F) # 0 => 2 \in 1 .. Len(F) + 1 /\ 2 - 1 = 1 /\ 2 # 1
          BY <1>8
        <5> QED BY <5>1, <1>8, <1>9
      <4> QED BY <3>1, <4>1, <4>2, <1>8, <1>9
    <3>2. CASE j # 1
      <4>1. j - 1 \in 1 .. Len(F) /\ (j - 1 < Len(F) <=> j < Len(G)) /\ j - 1 + 1 = j
        BY <3>2, <1>8, <1>9
      <4>2. G[j] = F[j - 1] /\ F[j - 1] \in Range(F) /\ F[j - 1] \in 1 .. N
        BY <3>2, <1>8, <1>9, <4>1
      <4>3. F[j - 1] # e /\ F[j - 1] # x.prev
        <5>1. x.prev \in Range(V) \cup {Null}
          BY <1>1, <1>2, LinksStay DEF x
        <5>2. Null \notin 1 .. N
          BY <1>1, TableParts DEF N, Null
        <5> QED BY <4>2, <5>1, <5>2, <1>1, <1>2 DEF N
      <4>4. u.entries[G[j]].next = t.entries[F[j - 1]].next
        BY SMTT(30), <4>2, <4>3, <1>10, <1>12
      <4>5. t.entries[F[j - 1]].next = IF j < Len(G) THEN F[j] ELSE Null
        BY <4>1, <1>8
      <4>6. j < Len(G) => G[j + 1] = F[j]
        <5>1. j < Len(G) => j + 1 \in 1 .. Len(F) + 1 /\ j + 1 # 1 /\ j + 1 - 1 = j
          BY <1>8, <1>9
        <5> QED BY <5>1, <1>9
      <4> QED BY <4>4, <4>5, <4>6
    <3> QED BY <3>1, <3>2
  <2> QED BY <2>1, <2>2, <2>3, <1>9 DEF Spare
<1>17. Holds(u, W)
  <2>1. Range(W) \subseteq Range(V)
    BY <1>7
  <2>2. \A y \in Range(W) : u.entries[y].key = t.entries[y].key /\ u.entries[y].value = t.entries[y].value
    BY <1>7, <1>14 DEF Keeps
  <2> QED BY <2>1, <2>2, <1>1, HoldsOn
<1>18. \A y \in DOMAIN u.entries : (y \in Range(W)) # (y \in Range(G))
  <2>1. DOMAIN u.entries = 1 .. N
    BY <1>12, TableParts
  <2> QED BY <2>1, <1>1, <1>2, <1>7, <1>9 DEF N
<1>19. Shape(u, W, G)
  BY <1>1, <1>12, <1>15, <1>16, <1>17, <1>18 DEF Shape, C
<1>20. Dropped(t, u, V, F, p)
  BY <1>12, <1>14, <1>19 DEF Dropped, W, G, N, C, e
<1> QED BY <1>6, <1>20 DEF e

(* A list of entries with one more at place q. *)
LEMMA PutAtFacts ==
  ASSUME NEW n \in Nat, NEW V \in Seq(1 .. n), NEW q \in 1 .. Len(V) + 1, NEW e \in 1 .. n,
         \A j, k \in 1 .. Len(V) : V[j] = V[k] => j = k, e \notin Range(V)
  PROVE  /\ PutAt(V, q, e) \in Seq(1 .. n) /\ Len(PutAt(V, q, e)) = Len(V) + 1
         /\ Range(PutAt(V, q, e)) = Range(V) \cup {e}
<1> DEFINE S == 1 .. n
<1>1. V \in Seq(S) /\ e \in S
  OBVIOUS
<1> HIDE DEF S
<1>2. /\ PutAt(V, q, e) \in Seq(S) /\ Len(PutAt(V, q, e)) = Len(V) + 1
      /\ Range(PutAt(V, q, e)) = Range(V) \cup {e}
  BY <1>1, PutAtIs
<1> QED BY <1>2 DEF S

(* A list of entries without its p-th. *)
LEMMA CutFacts ==
  ASSUME NEW n \in Nat, NEW V \in Seq(1 .. n), NEW p \in 1 .. Len(V),
         \A j, k \in 1 .. Len(V) : V[j] = V[k] => j = k
  PROVE  /\ Cut(V, p) \in Seq(1 .. n) /\ Len(Cut(V, p)) = Len(V) - 1
         /\ \A j \in 1 .. Len(V) - 1 : Cut(V, p)[j] = IF j < p THEN V[j] ELSE V[j + 1]
         /\ \A j, k \in 1 .. Len(V) - 1 : Cut(V, p)[j] = Cut(V, p)[k] => j = k
         /\ Range(Cut(V, p)) = Range(V) \ {V[p]}
<1> DEFINE S == 1 .. n
<1>1. V \in Seq(S)
  OBVIOUS
<1> HIDE DEF S
<1>2. /\ Cut(V, p) \in Seq(S) /\ Len(Cut(V, p)) = Len(V) - 1
      /\ \A j \in 1 .. Len(V) - 1 : Cut(V, p)[j] = IF j < p THEN V[j] ELSE V[j + 1]
      /\ \A j, k \in 1 .. Len(V) - 1 : Cut(V, p)[j] = Cut(V, p)[k] => j = k
      /\ Range(Cut(V, p)) = Range(V) \ {V[p]}
  BY <1>1, CutIs
<1> QED BY <1>2 DEF S

(* An entry goes first into the list of a bucket. *)
LEMMA JoinsAt ==
  ASSUME NEW t \in Tables, NEW V, Strung(t, V), NEW b \in 0 .. Capacity(t) - 1,
         NEW e \in 1 .. Len(t.entries), e \notin Range(V)
  PROVE  /\ Joined(t, Linked(t, e, b), e, b)
         /\ \E q \in 1 .. Len(V) + 1 : Strung(Linked(t, e, b), PutAt(V, q, e))
<1> DEFINE u == Linked(t, e, b)
<1>1. /\ Len(t.entries) \in Nat /\ b \in 0 .. Capacity(t) /\ First(t, b) \in Range(V) \cup {Null}
      /\ \A x \in Range(V) : x \in 1 .. Len(t.entries)
  BY TableParts, StrungParts, LinksStay DEF Range
<1>2. First(t, b) \in 0 .. Len(t.entries) /\ First(t, b) # e
  BY <1>1 DEF Null
<1>3. Joined(t, u, e, b)
  BY <1>2, LinkedIs DEF Joined
<1> HIDE DEF u
<1>4. PICK q : IsPlace(q, t, V, b)
  BY <1>1, PlaceExists
<1>5. Strung(u, PutAt(V, q, e))
  BY <1>3, <1>4, PutIn
<1>6. q \in 1 .. Len(V) + 1
  BY <1>4 DEF IsPlace
<1> QED BY <1>3, <1>5, <1>6 DEF u

(* u is t with a key in the first entry of the free list. *)
Gained(t, u, V, F, q, key, value) ==
  /\ Shape(u, PutAt(V, q, F[1]), Cut(F, 1))
  /\ Len(u.entries) = Len(t.entries) /\ Capacity(u) = Capacity(t)
  /\ \A x \in Range(V) : Keeps(t, u, x)
  /\ u.entries[F[1]].key = key /\ u.entries[F[1]].value = value
  /\ u.entries[F[1]].idx = Bucket(t, key)

(* An entry taken off the free list for a key. *)
Taken(t, e, key, value) == [t EXCEPT !.freeList = t.entries[e].next, !.size = @ + 1,
                                     !.entries[e].key = key, !.entries[e].value = value]

(* Taking an entry off the free list writes that entry, the size and the    *)
(* head of the free list (phashtable.c:401-415).                            *)
LEMMA TakenIs ==
  ASSUME NEW t \in Tables, NEW e \in 1 .. Len(t.entries), NEW key, NEW value
  PROVE  Taken(t, e, key, value) =
           WithEntry(t, e, [t.entries[e] EXCEPT !.key = key, !.value = value],
                     t.size + 1, t.entries[e].next)
BY ZenonT(30) DEF Tables, WithEntry, Taken

(* A new key takes the first free entry and goes first into the bucket of   *)
(* its hash code; every other entry keeps its bucket, key and value         *)
(* (phashtable.c:400-415).                                                  *)
LEMMA InsertedIs ==
  ASSUME NEW t, NEW V, NEW F, Shape(t, V, F), t.freeList # Null, NEW key \in Keys, NEW value \in Values,
         \A x \in Range(V) : t.entries[x].key # key
  PROVE  \E q \in 1 .. Len(V) + 1 : Gained(t, Inserted(t, key, value), V, F, q, key, value)
<1> DEFINE e == t.freeList
           N == Len(t.entries)
           C == Capacity(t)
           b == Bucket(t, key)
           x0 == [t.entries[e] EXCEPT !.key = key, !.value = value]
           P == WithEntry(t, e, x0, t.size + 1, t.entries[e].next)
           u == Linked(P, e, b)
           G == Cut(F, 1)
<1>1. /\ t \in Tables /\ Strung(t, V) /\ Spare(t, F) /\ Holds(t, V) /\ t.size = Len(V) /\ Len(V) \in Nat
      /\ \A y \in 1 .. Len(t.entries) : (y \in Range(V)) # (y \in Range(F))
      /\ C \in Nat \ {0} /\ N \in Nat
  BY ShapeParts, TableParts
<1>2. /\ F \in Seq(1 .. N) /\ Len(F) \in Nat /\ DOMAIN F = 1 .. Len(F)
      /\ \A j \in 1 .. Len(F) : F[j] \in 1 .. N
      /\ \A j, k \in 1 .. Len(F) : F[j] = F[k] => j = k
      /\ e = IF Len(F) = 0 THEN Null ELSE F[1]
      /\ \A j \in 1 .. Len(F) : t.entries[F[j]].next = IF j < Len(F) THEN F[j + 1] ELSE Null
  BY <1>1, SpareParts
<1>3. b \in 0 .. C - 1
  BY <1>1, BucketIn
<1>4. /\ Len(F) # 0 /\ e = F[1] /\ 1 \in 1 .. Len(F) /\ e \in 1 .. N /\ e \in Range(F) /\ e \notin Range(V)
      /\ \A j \in 1 .. Len(F) : F[j] \in Range(F)
  <2> HIDE DEF x0, P, u, G, b
  <2>1. Len(F) # 0 /\ e = F[1] /\ 1 \in 1 .. Len(F)
    BY <1>2
  <2>2. \A j \in 1 .. Len(F) : F[j] \in Range(F)
    BY <1>2 DEF Range
  <2> QED BY <2>1, <2>2, <1>1, <1>2
<1>5. Inserted(t, key, value) = Linked(Taken(t, e, key, value), e, b)
  BY Zenon DEF Inserted, Taken
<1> HIDE DEF e
<1>6. Taken(t, e, key, value) = P
  BY <1>1, <1>4, TakenIs
<1>7. x0 \in Entry /\ x0.key = key /\ x0.value = value /\ x0.next = t.entries[e].next
      /\ t.entries[e].next \in Nat
  <2>1. t.entries[e] \in Entry /\ t.entries[e].next \in Nat
    BY <1>1, <1>4, TableParts
  <2>2. \A y \in Entry : LET z == [y EXCEPT !.key = key, !.value = value]
                       IN  z \in Entry /\ z.key = key /\ z.value = value /\ z.next = y.next
    BY DEF Entry
  <2> QED BY <2>1, <2>2
<1> HIDE DEF x0
<1>8. /\ P \in Tables /\ Len(P.entries) = N /\ Capacity(P) = C /\ P.size = Len(V) + 1
      /\ P.freeList = t.entries[e].next /\ \A i : First(P, i) = First(t, i)
      /\ \A y \in 1 .. N : P.entries[y] = IF y = e THEN x0 ELSE t.entries[y]
  <2> DEFINE size == t.size + 1
             next == t.entries[e].next
  <2>1. size \in Nat /\ size = Len(V) + 1 /\ next \in Nat
    BY <1>1, <1>7
  <2>2. P = WithEntry(t, e, x0, size, next)
    OBVIOUS
  <2> HIDE DEF size, next, P
  <2> QED BY <2>1, <2>2, <1>1, <1>4, <1>7, SetEntry DEF next
<1> HIDE DEF P
<1>9. /\ Range(V) \subseteq 1 .. N
      /\ V \in Seq(1 .. N) /\ \A j, k \in 1 .. Len(V) : V[j] = V[k] => j = k
  <2> HIDE DEF b, G, u
  <2> QED BY <1>1, StrungParts, LinksIn
<1>10. Strung(P, V)
  <2>1. Len(t.entries) <= Len(P.entries) /\ Capacity(t) <= Capacity(P)
    BY <1>1, <1>8
  <2>2. \A i \in 0 .. Capacity(P) - 1 : First(P, i) = IF i < Capacity(t) THEN First(t, i) ELSE Null
    BY <1>1, <1>8
  <2>3. \A y \in Range(V) : P.entries[y] = t.entries[y]
    BY <1>4, <1>8, <1>9
  <2> QED BY <2>1, <2>2, <2>3, <1>1, <1>8, StrungLocal
<1>11. PICK q \in 1 .. Len(V) + 1 : Strung(u, PutAt(V, q, e))
  <2>1. b \in 0 .. Capacity(P) - 1 /\ e \in 1 .. Len(P.entries)
    BY <1>3, <1>4, <1>8
  <2> HIDE DEF b
  <2> QED BY <2>1, <1>4, <1>8, <1>10, JoinsAt
<1>12. Joined(P, u, e, b)
  <2>1. b \in 0 .. Capacity(P) - 1 /\ e \in 1 .. Len(P.entries)
    BY <1>3, <1>4, <1>8
  <2> HIDE DEF b
  <2> QED BY <2>1, <1>4, <1>8, <1>10, JoinsAt
<1> HIDE DEF u, b, G
<1>13. /\ u \in Tables /\ Len(u.entries) = N /\ Capacity(u) = C /\ u.size = Len(V) + 1
       /\ u.freeList = t.entries[e].next
       /\ \A y \in 1 .. N :
            /\ u.entries[y].key = P.entries[y].key /\ u.entries[y].value = P.entries[y].value
            /\ y # e => u.entries[y].next = P.entries[y].next
            /\ u.entries[y].idx = IF y = e THEN b ELSE P.entries[y].idx
  BY <1>8, <1>12 DEF Joined, Alike
<1>14. /\ u.entries[e].key = key /\ u.entries[e].value = value /\ u.entries[e].idx = b
       /\ \A y \in 1 .. N : y # e => Keeps(t, u, y) /\ u.entries[y].next = t.entries[y].next
  <2>1. u.entries[e].key = key /\ u.entries[e].value = value /\ u.entries[e].idx = b
    BY <1>4, <1>7, <1>8, <1>13
  <2>2. ASSUME NEW y \in 1 .. N, y # e PROVE Keeps(t, u, y) /\ u.entries[y].next = t.entries[y].next
    <3>1. P.entries[y] = t.entries[y]
      BY <2>2, <1>8
    <3>2. /\ u.entries[y].key = P.entries[y].key /\ u.entries[y].value = P.entries[y].value
          /\ u.entries[y].next = P.entries[y].next /\ u.entries[y].idx = P.entries[y].idx
      BY <2>2, <1>13
    <3> QED BY <3>1, <3>2 DEF Keeps
  <2> QED BY <2>1, <2>2
<1> DEFINE W == PutAt(V, q, e)
<1>15. W \in Seq(1 .. N) /\ Len(W) = Len(V) + 1 /\ Range(W) = Range(V) \cup {e}
  <2> HIDE DEF N
  <2> QED BY <1>1, <1>4, <1>9, PutAtFacts
<1>16. /\ G \in Seq(1 .. N) /\ Len(G) = Len(F) - 1 /\ Range(G) = Range(F) \ {e}
       /\ \A j \in 1 .. Len(F) - 1 : G[j] = F[j + 1]
       /\ \A j, k \in 1 .. Len(G) : G[j] = G[k] => j = k
  <2> HIDE DEF N, W
  <2>0. /\ N \in Nat /\ F \in Seq(1 .. N) /\ 1 \in 1 .. Len(F)
        /\ \A j, k \in 1 .. Len(F) : F[j] = F[k] => j = k
    BY <1>1, <1>2, <1>4 DEF N
  <2>1. /\ Cut(F, 1) \in Seq(1 .. N) /\ Len(Cut(F, 1)) = Len(F) - 1
        /\ \A j \in 1 .. Len(F) - 1 : Cut(F, 1)[j] = IF j < 1 THEN F[j] ELSE F[j + 1]
        /\ \A j, k \in 1 .. Len(F) - 1 : Cut(F, 1)[j] = Cut(F, 1)[k] => j = k
        /\ Range(Cut(F, 1)) = Range(F) \ {F[1]}
    BY SMTT(30), <2>0, CutFacts
  <2>2. \A j \in 1 .. Len(F) - 1 : ~(j < 1)
    BY <1>2
  <2> QED BY <2>1, <2>2, <1>4 DEF G
<1> HIDE DEF W
<1>160. Len(F) \in Nat /\ Len(F) # 0 /\ Len(G) = Len(F) - 1
  BY <1>2, <1>4, <1>16
<1>17. Spare(u, G)
  <2>1. G \in Seq(DOMAIN u.entries)
    BY <1>13, <1>16, TableParts
  <2>2. u.freeList = IF Len(G) = 0 THEN Null ELSE G[1]
    <3>1. t.entries[e].next = IF 1 < Len(F) THEN F[2] ELSE Null
      BY <1>2, <1>4
    <3>2. /\ 1 < Len(F) => Len(G) # 0 /\ 1 \in 1 .. Len(F) - 1
          /\ ~(1 < Len(F)) => Len(G) = 0
      <4>1. \A l \in Nat : l # 0 => /\ 1 < l => l - 1 # 0 /\ 1 \in 1 .. l - 1
                                    /\ ~(1 < l) => l - 1 = 0
        OBVIOUS
      <4> QED BY <4>1, <1>160
    <3> QED BY <3>1, <3>2, <1>13, <1>16
  <2>3. ASSUME NEW j \in 1 .. Len(G)
        PROVE  u.entries[G[j]].next = IF j < Len(G) THEN G[j + 1] ELSE Null
    <3>1. j + 1 \in 1 .. Len(F) /\ j \in 1 .. Len(F) - 1 /\ (j < Len(G) <=> j + 1 < Len(F))
          /\ (j < Len(G) => j + 1 \in 1 .. Len(F) - 1) /\ j + 1 # 1
      BY <1>160
    <3>2. G[j] = F[j + 1] /\ F[j + 1] # e /\ F[j + 1] \in 1 .. N
      BY <3>1, <1>2, <1>4, <1>16
    <3>3. u.entries[G[j]].next = t.entries[F[j + 1]].next
      BY <3>2, <1>14
    <3>4. t.entries[F[j + 1]].next = IF j + 1 < Len(F) THEN F[j + 1 + 1] ELSE Null
      BY <3>1, <1>2
    <3> QED BY <3>1, <3>3, <3>4, <1>16
  <2> QED BY <2>1, <2>2, <2>3, <1>16 DEF Spare
<1>18. Holds(u, W)
  <2>1. /\ \A y \in Range(V) : t.entries[y].key \in Keys /\ t.entries[y].value \in Values
        /\ \A x, y \in Range(V) : t.entries[x].key = t.entries[y].key => x = y
    BY <1>1 DEF Holds
  <2>2. \A y \in Range(V) : u.entries[y].key = t.entries[y].key /\ u.entries[y].value = t.entries[y].value
    BY <1>4, <1>9, <1>14 DEF Keeps
  <2> QED BY SMTT(30), <2>1, <2>2, <1>14, <1>15 DEF Holds
<1>19. \A y \in DOMAIN u.entries : (y \in Range(W)) # (y \in Range(G))
  <2>1. DOMAIN u.entries = 1 .. N
    BY <1>13, TableParts
  <2> QED BY <2>1, <1>1, <1>4, <1>15, <1>16
<1>20. Shape(u, W, G)
  BY <1>1, <1>11, <1>13, <1>15, <1>17, <1>18, <1>19 DEF Shape, W
<1>21. \A x \in Range(V) : Keeps(t, u, x)
  BY <1>4, <1>9, <1>14
<1>22. Gained(t, u, V, F, q, key, value)
  BY <1>4, <1>13, <1>14, <1>20, <1>21 DEF Gained, W, G, b
<1> QED BY <1>5, <1>6, <1>22 DEF u

-----------------------------------------------------------------------------
(* Values, buckets and blocks. *)

(* A table keeps its shape when neither its lists nor their keys change. *)
LEMMA ShapeLocal ==
  ASSUME NEW t, NEW V, NEW F, Shape(t, V, F), NEW u \in Tables,
         Len(u.entries) = Len(t.entries), Capacity(t) <= Capacity(u), u.size = t.size,
         u.freeList = t.freeList,
         \A x \in 1 .. Len(t.entries) :
            /\ u.entries[x].next = t.entries[x].next /\ u.entries[x].prev = t.entries[x].prev
            /\ u.entries[x].idx = t.entries[x].idx /\ u.entries[x].key = t.entries[x].key,
         \A x \in Range(V) : u.entries[x].value \in Values,
         \A i \in 0 .. Capacity(u) - 1 : First(u, i) = IF i < Capacity(t) THEN First(t, i) ELSE Null
  PROVE  Shape(u, V, F)
<1>1. /\ t \in Tables /\ Strung(t, V) /\ Spare(t, F) /\ Holds(t, V) /\ t.size = Len(V) /\ Len(V) \in Nat
      /\ \A y \in 1 .. Len(t.entries) : (y \in Range(V)) # (y \in Range(F))
      /\ Capacity(t) \in Nat \ {0} /\ Len(t.entries) \in Nat
  BY ShapeParts, TableParts
<1>2. Range(V) \subseteq 1 .. Len(t.entries)
  BY LinksIn
<1>3. Strung(u, V)
  <2>1. \A x \in Range(V) : /\ u.entries[x].next = t.entries[x].next
                            /\ u.entries[x].prev = t.entries[x].prev
                            /\ u.entries[x].idx = t.entries[x].idx
    BY <1>2
  <2>2. Len(t.entries) <= Len(u.entries)
    BY <1>1
  <2> QED BY <2>1, <2>2, <1>1, StrungLocal
<1>4. Spare(u, F)
  <2>1. /\ F \in Seq(1 .. Len(t.entries))
        /\ \A j \in 1 .. Len(F) : F[j] \in 1 .. Len(t.entries)
        /\ \A j, k \in 1 .. Len(F) : F[j] = F[k] => j = k
        /\ t.freeList = IF Len(F) = 0 THEN Null ELSE F[1]
        /\ \A j \in 1 .. Len(F) : t.entries[F[j]].next = IF j < Len(F) THEN F[j + 1] ELSE Null
    BY <1>1, SpareParts
  <2>2. DOMAIN u.entries = 1 .. Len(t.entries)
    BY TableParts
  <2> QED BY <2>1, <2>2 DEF Spare
<1>5. Holds(u, V)
  BY <1>1, <1>2 DEF Holds
<1>6. \A y \in DOMAIN u.entries : (y \in Range(V)) # (y \in Range(F))
  <2>1. DOMAIN u.entries = 1 .. Len(t.entries)
    BY TableParts
  <2> QED BY <2>1, <1>1
<1>7. Capacity(u) > 0
  BY <1>1, TableParts
<1> QED BY <1>1, <1>3, <1>4, <1>5, <1>6, <1>7 DEF Shape

(* A new value for an entry. *)
WithValue(t, e, value) == [t EXCEPT !.entries[e].value = value]

(* Putting a value over another writes that entry only                      *)
(* (phashtable.c:475-484).                                                  *)
LEMMA WithValueIs ==
  ASSUME NEW t \in Tables, NEW e \in 1 .. Len(t.entries), NEW value
  PROVE  WithValue(t, e, value) =
           WithEntry(t, e, [t.entries[e] EXCEPT !.value = value], t.size, t.freeList)
BY DEF Tables, WithEntry, WithValue

(* Putting a value over another keeps all lists and keys                    *)
(* (phashtable.c:475-484).                                                  *)
LEMMA ValueSet ==
  ASSUME NEW t, NEW V, NEW F, Shape(t, V, F), NEW e \in Range(V), NEW value \in Values
  PROVE  LET u == WithValue(t, e, value)
         IN  /\ Shape(u, V, F) /\ Capacity(u) = Capacity(t) /\ Len(u.entries) = Len(t.entries)
             /\ u.entries[e].value = value
             /\ \A x \in 1 .. Len(t.entries) :
                  /\ u.entries[x].key = t.entries[x].key /\ u.entries[x].idx = t.entries[x].idx
                  /\ x # e => u.entries[x].value = t.entries[x].value
<1> DEFINE x0 == [t.entries[e] EXCEPT !.value = value]
           u == WithEntry(t, e, x0, t.size, t.freeList)
<1>1. t \in Tables /\ Holds(t, V) /\ e \in 1 .. Len(t.entries) /\ Range(V) \subseteq 1 .. Len(t.entries)
      /\ Capacity(t) \in Nat
  BY ShapeParts, LinksIn
<1>2. WithValue(t, e, value) = u
  BY <1>1, WithValueIs
<1>3. /\ x0 \in Entry /\ x0.value = value /\ x0.key = t.entries[e].key /\ x0.idx = t.entries[e].idx
      /\ x0.next = t.entries[e].next /\ x0.prev = t.entries[e].prev
      /\ t.size \in Nat /\ t.freeList \in Nat
  BY <1>1, TableParts DEF Entry
<1> HIDE DEF x0, u
<1>4. /\ u \in Tables /\ Len(u.entries) = Len(t.entries) /\ Capacity(u) = Capacity(t)
      /\ u.size = t.size /\ u.freeList = t.freeList /\ \A i : First(u, i) = First(t, i)
      /\ \A y \in 1 .. Len(t.entries) : u.entries[y] = IF y = e THEN x0 ELSE t.entries[y]
  BY <1>1, <1>3, SetEntry DEF u
<1>5. \A y \in 1 .. Len(t.entries) :
        /\ u.entries[y].key = t.entries[y].key /\ u.entries[y].idx = t.entries[y].idx
        /\ u.entries[y].next = t.entries[y].next /\ u.entries[y].prev = t.entries[y].prev
        /\ u.entries[y].value = IF y = e THEN value ELSE t.entries[y].value
  BY <1>3, <1>4
<1>6. \A x \in Range(V) : u.entries[x].value \in Values
  BY <1>1, <1>5 DEF Holds
<1>7. Capacity(t) <= Capacity(u)
      /\ \A i \in 0 .. Capacity(u) - 1 : First(u, i) = IF i < Capacity(t) THEN First(t, i) ELSE Null
  BY <1>1, <1>4
<1>8. Shape(u, V, F)
  BY <1>4, <1>5, <1>6, <1>7, ShapeLocal
<1> QED BY <1>1, <1>2, <1>4, <1>5, <1>8

(* The elements of two arrays one after the other: buckets and entries that *)
(* are added.                                                               *)
LEMMA Together ==
  ASSUME NEW S, NEW f \in Seq(S), NEW g \in Seq(S), NEW m, NEW n, m = Len(f), n = Len(g)
  PROVE  /\ f \o g \in Seq(S) /\ Len(f \o g) = m + n
         /\ \A i \in 1 .. m + n : (f \o g)[i] = IF i <= m THEN f[i] ELSE g[i - m]
BY ConcatProperties

(* More buckets, with nothing in them. *)
LEMMA WidenedIs ==
  ASSUME NEW t, NEW V, NEW F, Shape(t, V, F)
  PROVE  /\ Shape(Widened(t), V, F) /\ Widened(t).entries = t.entries
         /\ Capacity(Widened(t)) >= Capacity(t) /\ Widened(t).freeList = t.freeList
<1> DEFINE C == Capacity(t)
           more == [i \in 1 .. C + 1 |-> Null]
           bs == t.buckets \o more
           u == Widened(t)
<1>1. t \in Tables /\ t.buckets \in Seq(Nat) /\ C \in Nat /\ C = Len(t.buckets) /\ Holds(t, V)
  BY ShapeParts, TableParts DEF Capacity
<1>2. u = [t EXCEPT !.buckets = bs]
  BY Zenon DEF Widened
<1>3. more \in Seq(Nat) /\ Len(more) = C + 1 /\ \A i \in 1 .. C + 1 : more[i] = Null
  BY <1>1 DEF Null
<1> HIDE DEF more
<1>4. /\ bs \in Seq(Nat) /\ Len(bs) = C + (C + 1)
      /\ \A i \in 1 .. C + (C + 1) : bs[i] = IF i <= C THEN t.buckets[i] ELSE more[i - C]
  <2> HIDE DEF C, u
  <2> DEFINE n == C + 1
             S == Nat
             f == t.buckets
  <2>1. n = Len(more) /\ C = Len(f) /\ f \in Seq(S) /\ more \in Seq(S)
    BY <1>1, <1>3
  <2> HIDE DEF n, S, f
  <2>2. /\ f \o more \in Seq(S) /\ Len(f \o more) = C + n
        /\ \A i \in 1 .. C + n : (f \o more)[i] = IF i <= C THEN f[i] ELSE more[i - C]
    BY <2>1, Together
  <2> QED BY <2>2 DEF n, S, f
<1> HIDE DEF bs, u, C
<1>5. /\ u \in Tables /\ u.buckets = bs /\ u.entries = t.entries /\ u.size = t.size
      /\ u.freeList = t.freeList
  BY <1>1, <1>2, <1>4 DEF Tables
<1>6. Capacity(u) = C + (C + 1)
  BY <1>4, <1>5 DEF Capacity
<1>7. \A i \in 0 .. Capacity(u) - 1 : First(u, i) = IF i < C THEN First(t, i) ELSE Null
  <2> TAKE i \in 0 .. Capacity(u) - 1
  <2>1. /\ i + 1 \in 1 .. C + (C + 1) /\ (i < C <=> i + 1 <= C)
        /\ ~(i + 1 <= C) => (i + 1) - C \in 1 .. C + 1
    BY <1>1, <1>6
  <2>2. First(u, i) = bs[i + 1] /\ First(t, i) = t.buckets[i + 1]
    BY <1>5 DEF First
  <2>3. bs[i + 1] = IF i + 1 <= C THEN t.buckets[i + 1] ELSE more[(i + 1) - C]
    <3> DEFINE k == i + 1
               D == C + (C + 1)
    <3>1. k \in 1 .. D
      BY <2>1
    <3>2. \A j \in 1 .. D : bs[j] = IF j <= C THEN t.buckets[j] ELSE more[j - C]
      BY <1>4
    <3> HIDE DEF k, D
    <3>3. bs[k] = IF k <= C THEN t.buckets[k] ELSE more[k - C]
      BY <3>1, <3>2
    <3> QED BY <3>3 DEF k
  <2>4. ~(i + 1 <= C) => more[(i + 1) - C] = Null
    BY <2>1, <1>3
  <2> QED BY <2>1, <2>2, <2>3, <2>4
<1>8. \A x \in Range(V) : u.entries[x].value \in Values
  BY <1>1, <1>5 DEF Holds
<1>9. C <= Capacity(u)
  BY <1>1, <1>6
<1>10. Shape(u, V, F)
  BY <1>5, <1>7, <1>8, <1>9, ShapeLocal DEF C
<1> QED BY <1>1, <1>5, <1>6, <1>10 DEF u, C

-----------------------------------------------------------------------------
(* The table grows. *)

(* Nothing is free: a block of entries is. *)
LEMMA ReplenishedIs ==
  ASSUME NEW t, NEW V, NEW F, Shape(t, V, F), t.freeList = Null
  PROVE  /\ \E G : Shape(Replenished(t), V, G)
         /\ Replenished(t).freeList # Null
         /\ Capacity(Replenished(t)) = Capacity(t)
         /\ \A x \in 1 .. Len(t.entries) : Replenished(t).entries[x] = t.entries[x]
<1> DEFINE N == Len(t.entries)
           A == ALLOC_SIZE
           more == [i \in 1 .. A |-> Blank(IF i = A THEN Null ELSE N + i + 1)]
           es == t.entries \o more
           G == [i \in 1 .. A |-> N + i]
           u == Replenished(t)
<1>1. /\ t \in Tables /\ Strung(t, V) /\ Spare(t, F) /\ Holds(t, V) /\ t.size = Len(V) /\ Len(V) \in Nat
      /\ \A y \in 1 .. Len(t.entries) : (y \in Range(V)) # (y \in Range(F))
      /\ Capacity(t) \in Nat \ {0} /\ N \in Nat /\ t.entries \in Seq(Entry)
  BY ShapeParts, TableParts
<1>2. A \in Nat \ {0}
  BY HashAssumption
<1>3. Range(F) = {}
  <2>1. /\ Len(F) \in Nat /\ DOMAIN F = 1 .. Len(F) /\ \A j \in 1 .. Len(F) : F[j] \in 1 .. Len(t.entries)
        /\ t.freeList = IF Len(F) = 0 THEN Null ELSE F[1]
    BY <1>1, SpareParts
  <2>2. Len(F) = 0
    <3> SUFFICES ASSUME Len(F) # 0 PROVE FALSE
      OBVIOUS
    <3>1. 1 \in 1 .. Len(F)
      BY <2>1
    <3> QED BY <2>1, <3>1 DEF Null
  <2>3. DOMAIN F = {}
    BY <2>1, <2>2
  <2> QED BY <2>3 DEF Range
<1>4. u = [t EXCEPT !.entries = es, !.freeList = N + 1]
  BY Zenon DEF Replenished
<1> HIDE DEF N, A
<1>5. \A i \in 1 .. A : /\ Blank(IF i = A THEN Null ELSE N + i + 1) \in Entry
                        /\ Blank(IF i = A THEN Null ELSE N + i + 1).next = IF i = A THEN Null ELSE N + i + 1
  BY <1>1, <1>2 DEF Blank, Entry, Null
<1>6. /\ more \in Seq(Entry) /\ Len(more) = A
      /\ \A i \in 1 .. A : more[i].next = IF i = A THEN Null ELSE N + i + 1
  <2>1. more \in [1 .. A -> Entry]
    BY <1>5
  <2>2. \A i \in 1 .. A : more[i] = Blank(IF i = A THEN Null ELSE N + i + 1)
    OBVIOUS
  <2> HIDE DEF more
  <2> QED BY <2>1, <2>2, <1>2, <1>5, FunSeq
<1> HIDE DEF more
<1>7. /\ es \in Seq(Entry) /\ Len(es) = N + A
      /\ \A i \in 1 .. N + A : es[i] = IF i <= N THEN t.entries[i] ELSE more[i - N]
  <2> DEFINE f == t.entries
  <2>1. f \in Seq(Entry) /\ N = Len(f) /\ A = Len(more)
    BY <1>1, <1>6 DEF N
  <2> HIDE DEF f
  <2>2. /\ f \o more \in Seq(Entry) /\ Len(f \o more) = N + A
        /\ \A i \in 1 .. N + A : (f \o more)[i] = IF i <= N THEN f[i] ELSE more[i - N]
    BY <2>1, <1>6, Together
  <2> QED BY <2>2 DEF f
<1> HIDE DEF es, u
<1>8. /\ u \in Tables /\ u.buckets = t.buckets /\ u.entries = es /\ u.size = t.size
      /\ u.freeList = N + 1
  <2> DEFINE free == N + 1
  <2>1. free \in Nat /\ u = [t EXCEPT !.entries = es, !.freeList = free] /\ es \in Seq(Entry)
    BY <1>1, <1>4, <1>7
  <2> HIDE DEF free, G
  <2>2. /\ u \in Tables /\ u.buckets = t.buckets /\ u.entries = es /\ u.size = t.size
        /\ u.freeList = free
    BY <2>1, <1>1 DEF Tables
  <2> QED BY <2>2 DEF free
<1>9. Capacity(u) = Capacity(t) /\ \A i : First(u, i) = First(t, i)
  BY <1>8 DEF Capacity, First
<1>10. \A x \in 1 .. N : u.entries[x] = t.entries[x]
  <2> TAKE x \in 1 .. N
  <2>1. x \in 1 .. N + A /\ x <= N
    BY <1>1, <1>2
  <2> QED BY <2>1, <1>7, <1>8
<1>11. Range(V) \subseteq 1 .. N
  BY LinksIn DEF N
<1>12. Strung(u, V)
  <2>1. Len(t.entries) <= Len(u.entries) /\ Capacity(t) <= Capacity(u)
    BY <1>1, <1>2, <1>7, <1>8, <1>9 DEF N
  <2>2. \A i \in 0 .. Capacity(u) - 1 : First(u, i) = IF i < Capacity(t) THEN First(t, i) ELSE Null
    BY <1>1, <1>9
  <2>3. \A y \in Range(V) : u.entries[y] = t.entries[y]
    BY <1>10, <1>11
  <2> QED BY <2>1, <2>2, <2>3, <1>1, <1>8, StrungLocal
<1>13. /\ G \in Seq(1 .. N + A) /\ Len(G) = A /\ DOMAIN G = 1 .. A /\ \A i \in 1 .. A : G[i] = N + i
  <2>1. \A i \in 1 .. A : N + i \in 1 .. N + A
    BY <1>1, <1>2
  <2>2. G \in [1 .. A -> 1 .. N + A] /\ \A i \in 1 .. A : G[i] = N + i
    BY <2>1
  <2> DEFINE S == 1 .. N + A
  <2> HIDE DEF G, S
  <2>3. G \in Seq(S) /\ Len(G) = A /\ DOMAIN G = 1 .. A
    BY <2>2, <1>2, FunSeq DEF S
  <2> QED BY <2>2, <2>3 DEF S
<1> HIDE DEF G
<1>14. DOMAIN u.entries = 1 .. N + A
  BY <1>7, <1>8, TableParts
<1>15. Spare(u, G)
  <2>1. u.freeList = IF Len(G) = 0 THEN Null ELSE G[1]
    BY <1>2, <1>8, <1>13
  <2>2. \A j, k \in 1 .. Len(G) : G[j] = G[k] => j = k
    BY <1>1, <1>13
  <2>3. ASSUME NEW j \in 1 .. Len(G)
        PROVE  u.entries[G[j]].next = IF j < Len(G) THEN G[j + 1] ELSE Null
    <3>1. j \in 1 .. A /\ N + j \in 1 .. N + A /\ ~(N + j <= N) /\ (N + j) - N = j
      BY <1>1, <1>2, <1>13
    <3>2. u.entries[G[j]] = more[j]
      <4> DEFINE k == N + j
      <4>1. k \in 1 .. N + A /\ ~(k <= N) /\ k - N = j /\ G[j] = k
        BY <3>1, <1>13
      <4> HIDE DEF k
      <4> QED BY <4>1, <1>7, <1>8
    <3>3. (j = A <=> ~(j < A)) /\ (j < A => j + 1 \in 1 .. A /\ N + (j + 1) = N + j + 1)
      BY <3>1, <1>1, <1>2
    <3> QED BY <3>1, <3>2, <3>3, <1>6, <1>13
  <2> QED BY <2>1, <2>2, <2>3, <1>13, <1>14 DEF Spare
<1>16. Holds(u, V)
  BY <1>1, <1>10, <1>11 DEF Holds
<1>17. ASSUME NEW y \in DOMAIN u.entries PROVE (y \in Range(V)) # (y \in Range(G))
  <2>1. y \in 1 .. N + A
    BY <1>14
  <2>2. \A x \in Range(G) : \E i \in 1 .. A : x = N + i
    BY <1>13 DEF Range
  <2>3. CASE y <= N
    <3>1. y \in 1 .. N
      BY <2>1, <2>3, <1>1
    <3>2. y \notin Range(G)
      BY <2>2, <3>1, <1>1
    <3> QED BY <3>1, <3>2, <1>1, <1>3 DEF N
  <2>4. CASE ~(y <= N)
    <3>1. y - N \in 1 .. A /\ N + (y - N) = y
      BY <2>1, <2>4, <1>1, <1>2
    <3>2. y \in Range(G)
      BY <3>1, <1>13 DEF Range
    <3>3. y \notin Range(V)
      BY <2>4, <1>11, <1>1
    <3> QED BY <3>2, <3>3
  <2> QED BY <2>3, <2>4
<1>18. Shape(u, V, G)
  BY <1>1, <1>8, <1>9, <1>12, <1>15, <1>16, <1>17 DEF Shape
<1>19. u.freeList # Null
  BY <1>1, <1>8 DEF Null
<1> QED BY <1>9, <1>10, <1>18, <1>19 DEF u, N

(* u is t after entry e moved to the bucket of its key. *)
Resettled(t, u, V, F, e) ==
  /\ \E W : Shape(u, W, F) /\ Range(W) = Range(V)
  /\ Alike(t, u)
  /\ u.entries[e].idx = Bucket(t, t.entries[e].key)
  /\ \A y \in 1 .. Len(t.entries) :
       y # e => /\ u.entries[y].idx = t.entries[y].idx
                /\ t.entries[y].next # e => u.entries[y].next = t.entries[y].next

(* The entry ahead of an entry leads to it: the links go both ways. *)
LEMMA PrevLeadsHere ==
  ASSUME NEW t \in Tables, NEW V, Strung(t, V), NEW x \in Range(V), t.entries[x].prev # Null
  PROVE  t.entries[t.entries[x].prev].next = x
<1> DEFINE L == Len(V)
           I(j) == t.entries[V[j]].idx
<1>1. L \in Nat /\ DOMAIN V = 1 .. L
  BY StrungParts
<1>2. PICK k \in 1 .. L : x = V[k]
  BY <1>1 DEF Range
<1>3. /\ \A j \in 1 .. L : t.entries[V[j]].next = IF j < L /\ I(j + 1) = I(j) THEN V[j + 1] ELSE Null
      /\ \A j \in 1 .. L : t.entries[V[j]].prev = IF 1 < j /\ I(j - 1) = I(j) THEN V[j - 1] ELSE Null
  BY DEF Strung, Threaded
<1> HIDE DEF L, I
<1>4. 1 < k /\ I(k - 1) = I(k) /\ t.entries[x].prev = V[k - 1]
  BY <1>2, <1>3
<1>5. k - 1 \in 1 .. L /\ k - 1 < L /\ (k - 1) + 1 = k
  BY <1>1, <1>4
<1> QED BY <1>2, <1>3, <1>4, <1>5

(* Moving an entry of a growing table to the bucket its hash code now says  *)
(* keeps every other entry in its bucket and its place in the list it is in *)
(* (phashtable.c:302-324).                                                  *)
LEMMA MovedIs ==
  ASSUME NEW t, NEW V, NEW F, Shape(t, V, F), NEW e \in Range(V)
  PROVE  Resettled(t, Moved(t, e, t.entries[e].idx), V, F, e)
<1> DEFINE N == Len(t.entries)
           C == Capacity(t)
           x == t.entries[e]
           b == Bucket(t, x.key)
           U == Unlinked(t, e, x.idx)
           u == Linked(U, e, b)
<1>1. /\ t \in Tables /\ Strung(t, V) /\ Spare(t, F) /\ Holds(t, V) /\ t.size = Len(V) /\ Len(V) \in Nat
      /\ \A y \in 1 .. Len(t.entries) : (y \in Range(V)) # (y \in Range(F))
      /\ C \in Nat \ {0} /\ N \in Nat
  BY ShapeParts, TableParts
<1>2. /\ e \in 1 .. N /\ x.next \in 0 .. N /\ x.prev \in 0 .. N /\ x.idx \in 0 .. C - 1
      /\ x.key \in Keys /\ e \notin Range(F) /\ Range(V) \subseteq 1 .. N
  BY <1>1, LinksIn DEF Holds
<1>3. b \in 0 .. C - 1
  <2> DEFINE key == x.key
  <2>1. key \in Keys
    BY <1>2
  <2> HIDE DEF key
  <2>2. Bucket(t, key) \in 0 .. Capacity(t) - 1
    BY <2>1, <1>1, BucketIn
  <2> QED BY <2>2 DEF key
<1>4. Moved(t, e, x.idx) = IF b = x.idx THEN t ELSE u
  BY Zenon DEF Moved
<1> HIDE DEF b
<1>5. CASE b = x.idx
  <2>1. Alike(t, t)
    BY <1>1 DEF Alike
  <2> HIDE DEF N, C, x, u, U
  <2>2. Resettled(t, t, V, F, e)
    BY <2>1, <1>5 DEF Resettled, b, x
  <2> QED BY <2>2, <1>4, <1>5 DEF x
<1>6. CASE b # x.idx
  <2>1. PICK p \in 1 .. Len(V) : e = V[p]
    BY <1>1, StrungParts DEF Range
  <2>2. Parted(t, U, e)
    <3> DEFINE i == x.idx
    <3>1. /\ x.next \in 0 .. Len(t.entries) /\ x.prev \in 0 .. Len(t.entries)
          /\ i \in 0 .. Capacity(t) - 1
      BY <1>2
    <3> HIDE DEF i
    <3>2. LET v == Unlinked(t, e, i)
          IN  /\ Alike(t, v)
              /\ \A y \in 1 .. Len(t.entries) :
                    /\ v.entries[y].next = IF y = x.prev THEN x.next ELSE t.entries[y].next
                    /\ v.entries[y].prev = IF y = x.next THEN x.prev ELSE t.entries[y].prev
                    /\ v.entries[y].idx = t.entries[y].idx
              /\ \A j \in 0 .. Capacity(t) - 1 :
                    First(v, j) = IF x.prev = Null /\ j = i THEN x.next ELSE First(t, j)
      BY <3>1, <1>1, <1>2, UnlinkedIs
    <3> QED BY <3>2 DEF Parted, i
  <2> HIDE DEF U
  <2> DEFINE M == Cut(V, p)
  <2>3. Strung(U, M)
    BY <2>1, <2>2, <1>1, PullOut
  <2>4. /\ V \in Seq(1 .. N) /\ \A j, k \in 1 .. Len(V) : V[j] = V[k] => j = k
    BY <1>1, StrungParts
  <2> HIDE DEF N, C, x, u
  <2>5. Range(M) = Range(V) \ {e} /\ Len(M) = Len(V) - 1
    BY <2>1, <2>4, <1>1, CutFacts
  <2> HIDE DEF M
  <2>6. /\ U \in Tables /\ Len(U.entries) = N /\ Capacity(U) = C /\ U.size = t.size
        /\ U.freeList = t.freeList
        /\ \A y \in 1 .. N :
            /\ U.entries[y].key = t.entries[y].key /\ U.entries[y].value = t.entries[y].value
            /\ U.entries[y].next = IF y = x.prev THEN x.next ELSE t.entries[y].next
            /\ U.entries[y].idx = t.entries[y].idx
    BY <2>2 DEF Parted, Alike, N, C, x
  <2>7. Joined(U, u, e, b)
    <3>1. b \in 0 .. Capacity(U) - 1 /\ e \in 1 .. Len(U.entries) /\ e \notin Range(M)
      BY <2>5, <2>6, <1>2, <1>3
    <3> QED BY <3>1, <2>3, <2>6, JoinsAt DEF u
  <2>8. PICK q \in 1 .. Len(M) + 1 : Strung(u, PutAt(M, q, e))
    <3>1. b \in 0 .. Capacity(U) - 1 /\ e \in 1 .. Len(U.entries) /\ e \notin Range(M)
      BY <2>5, <2>6, <1>2, <1>3
    <3> QED BY <3>1, <2>3, <2>6, JoinsAt DEF u
  <2> DEFINE W == PutAt(M, q, e)
  <2>9. Range(W) = Range(V) /\ Len(W) = Len(V)
    <3>1. M \in Seq(1 .. N) /\ Len(M) \in Nat /\ \A j, k \in 1 .. Len(M) : M[j] = M[k] => j = k
      BY <2>3, <2>6, StrungParts
    <3>2. Range(PutAt(M, q, e)) = Range(M) \cup {e} /\ Len(PutAt(M, q, e)) = Len(M) + 1
      <4>1. N \in Nat /\ e \in 1 .. N /\ e \notin Range(M) /\ q \in 1 .. Len(M) + 1
        BY <2>5, <1>1, <1>2 DEF N
      <4> HIDE DEF W
      <4> QED BY <3>1, <4>1, PutAtFacts
    <3>3. Len(V) - 1 + 1 = Len(V)
      BY <1>1
    <3> QED BY <3>2, <3>3, <2>5
  <2> HIDE DEF W
  <2>10. /\ u \in Tables /\ Len(u.entries) = N /\ Capacity(u) = C /\ u.size = t.size
         /\ u.freeList = t.freeList
         /\ \A y \in 1 .. N :
              /\ u.entries[y].key = t.entries[y].key /\ u.entries[y].value = t.entries[y].value
              /\ y # e => u.entries[y].next = U.entries[y].next
              /\ u.entries[y].idx = IF y = e THEN b ELSE t.entries[y].idx
    BY <2>6, <2>7 DEF Joined, Alike
  <2>11. Alike(t, u)
    BY <2>10 DEF Alike, N, C
  <2>12. Spare(u, F)
    <3>1. /\ F \in Seq(1 .. N)
          /\ \A j \in 1 .. Len(F) : F[j] \in 1 .. N /\ F[j] \in Range(F)
          /\ \A j, k \in 1 .. Len(F) : F[j] = F[k] => j = k
          /\ t.freeList = IF Len(F) = 0 THEN Null ELSE F[1]
          /\ \A j \in 1 .. Len(F) : t.entries[F[j]].next = IF j < Len(F) THEN F[j + 1] ELSE Null
      BY <1>1, SpareParts DEF Range, N
    <3>2. DOMAIN u.entries = 1 .. N
      BY <2>10, TableParts
    <3>3. ASSUME NEW y \in Range(F), y \in 1 .. N PROVE u.entries[y].next = t.entries[y].next
      <4>1. x.prev \in Range(V) \cup {Null}
        BY <1>1, LinksStay DEF x
      <4>2. y # e /\ y # x.prev
        <5>1. Null \notin 1 .. N
          BY <1>1 DEF Null
        <5> QED BY <5>1, <4>1, <3>3, <1>1, <1>2 DEF N
      <4> QED BY <4>2, <3>3, <2>6, <2>10
    <3> QED BY <3>1, <3>2, <3>3, <2>10 DEF Spare
  <2>13. Holds(u, W)
    <3>1. \A y \in Range(W) : u.entries[y].key = t.entries[y].key /\ u.entries[y].value = t.entries[y].value
      BY <2>9, <2>10, <1>2
    <3> QED BY <3>1, <2>9, <1>1, HoldsOn
  <2>14. \A y \in DOMAIN u.entries : (y \in Range(W)) # (y \in Range(F))
    <3>1. DOMAIN u.entries = 1 .. N
      BY <2>10, TableParts
    <3> QED BY <3>1, <2>9, <1>1 DEF N
  <2>15. Shape(u, W, F)
    BY <2>8, <2>9, <2>10, <2>12, <2>13, <2>14, <1>1 DEF Shape, W, C
  <2>16. ASSUME NEW y \in 1 .. N, y # e
         PROVE  /\ u.entries[y].idx = t.entries[y].idx
                /\ t.entries[y].next # e => u.entries[y].next = t.entries[y].next
    <3>1. y = x.prev => t.entries[y].next = e
      <4>1. y # Null
        BY <1>1 DEF Null
      <4> QED BY <4>1, <1>1, PrevLeadsHere DEF x
    <3> QED BY <3>1, <2>16, <2>6, <2>10
  <2>17. u.entries[e].idx = b
    BY <2>10, <1>2
  <2>18. Resettled(t, u, V, F, e)
    BY <2>9, <2>11, <2>15, <2>16, <2>17 DEF Resettled, N, b, x
  <2> QED BY <2>18, <1>4, <1>6 DEF x
<1> QED BY <1>5, <1>6

(* The steps of the three loops over entries and over buckets. *)
SpreadStep(acc, idx) ==
  IF acc.at = Null THEN acc
  ELSE [t |-> Moved(acc.t, acc.at, idx), at |-> acc.t.entries[acc.at].next]

EmptyStep(acc) ==
  IF acc.at = Null THEN acc
  ELSE [t |-> Removed(acc.t, acc.at), at |-> Advance(acc.t, acc.at), freed |-> acc.freed + 1]

LoopStep(loop, acc, n) == IF loop[1] = 0 THEN Spread(acc, n - 1)
                          ELSE IF loop[1] = 1 THEN SpreadStep(acc, loop[2]) ELSE EmptyStep(acc)

IsLoop(f, loop, base, N) ==
  f = [n \in 0 .. N |-> IF n = 0 THEN base ELSE LoopStep(loop, f[n - 1], n)]

(* The loops of the hash table, turn by turn. *)
LEMMA LoopRuns ==
  ASSUME NEW loop, NEW base, NEW N \in Nat
  PROVE  \E f : IsLoop(f, loop, base, N)
<1> DEFINE Good(k) == \E f : IsLoop(f, loop, base, k)
           P == {k \in Nat : Good(k)}
<1>1. Good(0)
  <2> DEFINE f == [n \in 0 .. 0 |-> base]
  <2>1. f = [n \in 0 .. 0 |-> IF n = 0 THEN base ELSE LoopStep(loop, f[n - 1], n)]
    OBVIOUS
  <2> HIDE DEF f
  <2> QED BY <2>1 DEF IsLoop
<1>2. ASSUME NEW k \in Nat, Good(k) PROVE Good(k + 1)
  <2>1. PICK f : f = [n \in 0 .. k |-> IF n = 0 THEN base ELSE LoopStep(loop, f[n - 1], n)]
    BY <1>2 DEF IsLoop
  <2>2. \A n \in 0 .. k : f[n] = IF n = 0 THEN base ELSE LoopStep(loop, f[n - 1], n)
    BY <2>1
  <2> DEFINE g == [n \in 0 .. k + 1 |-> IF n = k + 1 THEN LoopStep(loop, f[k], k + 1) ELSE f[n]]
  <2>3. /\ \A n \in 0 .. k : g[n] = f[n]
        /\ g[k + 1] = LoopStep(loop, f[k], k + 1)
    OBVIOUS
  <2>4. ASSUME NEW n \in 0 .. k + 1
        PROVE  g[n] = IF n = 0 THEN base ELSE LoopStep(loop, g[n - 1], n)
    <3> HIDE DEF g
    <3>1. CASE n = k + 1
      <4>1. n # 0 /\ n - 1 = k /\ k \in 0 .. k
        BY <3>1
      <4> QED BY <4>1, <3>1, <2>3
    <3>2. CASE n # k + 1
      <4>1. n \in 0 .. k /\ (n # 0 => n - 1 \in 0 .. k)
        BY <3>2
      <4> QED BY <4>1, <2>2, <2>3
    <3> QED BY <3>1, <3>2
  <2>5. g = [n \in 0 .. k + 1 |-> g[n]]
    OBVIOUS
  <2> HIDE DEF g
  <2>6. g = [n \in 0 .. k + 1 |-> IF n = 0 THEN base ELSE LoopStep(loop, g[n - 1], n)]
    BY <2>4, <2>5
  <2> QED BY <2>6 DEF IsLoop
<1> HIDE DEF Good
<1>3. 0 \in P /\ \A n \in Nat : n \in P => n + 1 \in P
  BY <1>1, <1>2
<1> HIDE DEF P
<1>4. N \in P
  BY <1>3, SetInduction
<1>5. Good(N)
  BY <1>4 DEF P
<1> QED BY <1>5 DEF Good

IsSpread(f, t, idx) ==
  /\ f[0] = [t |-> t, at |-> First(t, idx)]
  /\ \A n \in 1 .. Len(t.entries) : f[n] = SpreadStep(f[n - 1], idx)
  /\ Spread(t, idx) = f[Len(t.entries)].t

(* The loop over the list of a bucket, turn by turn (phashtable.c:300-332). *)
LEMMA SpreadRuns ==
  ASSUME NEW t, Len(t.entries) \in Nat, NEW idx
  PROVE  \E f : IsSpread(f, t, idx)
<1> DEFINE N == Len(t.entries)
           base == [t |-> t, at |-> First(t, idx)]
           loop == <<1, idx>>
           f == CHOOSE f : f = [n \in 0 .. N |->
                  IF n = 0 THEN [t |-> t, at |-> First(t, idx)]
                  ELSE LET acc == f[n - 1]
                       IN  IF acc.at = Null THEN acc
                           ELSE [t |-> Moved(acc.t, acc.at, idx), at |-> acc.t.entries[acc.at].next]]
<1>1. Spread(t, idx) = f[N].t
  BY Zenon DEF Spread
<1>2. PICK g : IsLoop(g, loop, base, N)
  <2> HIDE DEF base, loop, N, f
  <2>1. N \in Nat
    BY DEF N
  <2> QED BY <2>1, LoopRuns
<1>3. \A acc, n : LoopStep(loop, acc, n) = SpreadStep(acc, idx)
  BY DEF LoopStep
<1> HIDE DEF loop
<1>4. g = [n \in 0 .. N |-> IF n = 0 THEN base ELSE SpreadStep(g[n - 1], idx)]
  BY <1>2, <1>3 DEF IsLoop
<1>5. f = [n \in 0 .. N |-> IF n = 0 THEN base ELSE SpreadStep(f[n - 1], idx)]
  BY <1>4, Zenon DEF SpreadStep
<1> HIDE DEF f, base
<1>6. f[0] = base /\ \A n \in 1 .. N : f[n] = SpreadStep(f[n - 1], idx)
  <2>1. N \in Nat
    OBVIOUS
  <2> HIDE DEF N
  <2> QED BY <1>5, <2>1
<1>7. IsSpread(f, t, idx)
  BY <1>1, <1>6, Zenon DEF IsSpread, base
<1> QED BY <1>7

IsRehash(f, t) ==
  /\ f[0] = Widened(t)
  /\ \A n \in 1 .. Capacity(t) : f[n] = Spread(f[n - 1], n - 1)
  /\ Rehashed(t) = f[Capacity(t)]

(* The loop over the buckets of a growing table, turn by turn               *)
(* (phashtable.c:298-333).                                                  *)
LEMMA RehashRuns ==
  ASSUME NEW t, Capacity(t) \in Nat
  PROVE  \E f : IsRehash(f, t)
<1> DEFINE N == Capacity(t)
           base == Widened(t)
           loop == <<0>>
           f == CHOOSE f : f = [n \in 0 .. N |-> IF n = 0 THEN Widened(t) ELSE Spread(f[n - 1], n - 1)]
<1>1. Rehashed(t) = f[N]
  BY Zenon DEF Rehashed
<1>2. PICK g : IsLoop(g, loop, base, N)
  <2> HIDE DEF base, loop, N, f
  <2>1. N \in Nat
    BY DEF N
  <2> QED BY <2>1, LoopRuns
<1>3. \A acc, n : LoopStep(loop, acc, n) = Spread(acc, n - 1)
  BY DEF LoopStep
<1> HIDE DEF loop
<1>4. g = [n \in 0 .. N |-> IF n = 0 THEN base ELSE Spread(g[n - 1], n - 1)]
  BY <1>2, <1>3 DEF IsLoop
<1>5. f = [n \in 0 .. N |-> IF n = 0 THEN base ELSE Spread(f[n - 1], n - 1)]
  BY <1>4, Zenon
<1> HIDE DEF f, base
<1>6. f[0] = base /\ \A n \in 1 .. N : f[n] = Spread(f[n - 1], n - 1)
  <2>1. N \in Nat
    OBVIOUS
  <2> HIDE DEF N
  <2> QED BY <1>5, <2>1
<1>7. IsRehash(f, t)
  BY <1>1, <1>6, Zenon DEF IsRehash, base
<1> QED BY <1>7

IsEmptying(f, t) ==
  /\ f[0] = [t |-> t, at |-> Advance(t, Null), freed |-> 0]
  /\ \A n \in 1 .. Len(t.entries) : f[n] = EmptyStep(f[n - 1])
  /\ Emptied(t) = f[Len(t.entries)]

(* The loop that removes all entries, turn by turn (HashMapImpl.c:151-162). *)
LEMMA EmptyingRuns ==
  ASSUME NEW t, Len(t.entries) \in Nat
  PROVE  \E f : IsEmptying(f, t)
<1> DEFINE N == Len(t.entries)
           base == [t |-> t, at |-> Advance(t, Null), freed |-> 0]
           loop == <<2>>
           f == CHOOSE f : f = [n \in 0 .. N |->
                  IF n = 0 THEN [t |-> t, at |-> Advance(t, Null), freed |-> 0]
                  ELSE LET acc == f[n - 1]
                       IN  IF acc.at = Null THEN acc
                           ELSE [t |-> Removed(acc.t, acc.at), at |-> Advance(acc.t, acc.at),
                                 freed |-> acc.freed + 1]]
<1>1. Emptied(t) = f[N]
  BY Zenon DEF Emptied
<1>2. PICK g : IsLoop(g, loop, base, N)
  <2> HIDE DEF base, loop, N, f
  <2>1. N \in Nat
    BY DEF N
  <2> QED BY <2>1, LoopRuns
<1>3. \A acc, n : LoopStep(loop, acc, n) = EmptyStep(acc)
  BY DEF LoopStep
<1> HIDE DEF loop
<1>4. g = [n \in 0 .. N |-> IF n = 0 THEN base ELSE EmptyStep(g[n - 1])]
  BY <1>2, <1>3 DEF IsLoop
<1>5. f = [n \in 0 .. N |-> IF n = 0 THEN base ELSE EmptyStep(f[n - 1])]
  BY <1>4, Zenon DEF EmptyStep
<1> HIDE DEF f, base
<1>6. f[0] = base /\ \A n \in 1 .. N : f[n] = EmptyStep(f[n - 1])
  <2>1. N \in Nat
    OBVIOUS
  <2> HIDE DEF N
  <2> QED BY <1>5, <2>1
<1>7. IsEmptying(f, t)
  BY <1>1, <1>6, Zenon DEF IsEmptying, base
<1> QED BY <1>7

(* u holds what t holds, in the same entries, free ones included. *)
Rearranged(t, u, V, F) == /\ \E W : Shape(u, W, F) /\ Range(W) = Range(V)
                          /\ Alike(t, u)

Home(t, x) == Bucket(t, t.entries[x].key)

(* The bucket of a key depends on the capacity only. *)
LEMMA AlikeHome ==
  ASSUME NEW t, NEW u, Alike(t, u), NEW x \in 1 .. Len(t.entries)
  PROVE  Home(u, x) = Home(t, x)
BY DEF Alike, Home, Bucket

(* Where a Spread is after n entries of the list Q of bucket idx. *)
SpreadTo(acc, n, t, V, F, Q, idx) ==
  /\ acc.at = IF n < Len(Q) THEN Q[n + 1] ELSE Null
  /\ Rearranged(t, acc.t, V, F)
  /\ \A j \in 1 .. Len(Q) :
       IF j <= n THEN acc.t.entries[Q[j]].idx = Home(t, Q[j])
       ELSE /\ acc.t.entries[Q[j]].idx = idx
            /\ acc.t.entries[Q[j]].next = IF j < Len(Q) THEN Q[j + 1] ELSE Null
  /\ \A x \in Range(V) : t.entries[x].idx # idx => acc.t.entries[x].idx = t.entries[x].idx

(* One turn of the loop over a bucket: what follows the entry was read      *)
(* before it moved, so the loop goes on along the old list                  *)
(* (phashtable.c:300-332).                                                  *)
LEMMA SpreadGoesOn ==
  ASSUME NEW t, NEW V, NEW F, Shape(t, V, F), NEW idx \in 0 .. Capacity(t) - 1,
         NEW Q, IsList(Q, t, V, idx), NEW n \in Nat, n < Len(Q),
         NEW acc, SpreadTo(acc, n, t, V, F, Q, idx)
  PROVE  SpreadTo(SpreadStep(acc, idx), n + 1, t, V, F, Q, idx)
<1> DEFINE M == Len(Q)
           N == Len(t.entries)
           e == Q[n + 1]
           s == acc.t
           u == Moved(s, e, idx)
<1>1. /\ Q \in Seq(1 .. N) /\ M \in Nat /\ \A j \in 1 .. M : Q[j] \in 1 .. N /\ Q[j] \in Range(V)
      /\ \A j, k \in 1 .. M : Q[j] = Q[k] => j = k
      /\ \A j \in 1 .. M : t.entries[Q[j]].idx = idx
  <2>1. Q \in Seq(1 .. N)
    BY DEF IsList
  <2> QED BY <2>1, SeqFun DEF IsList
<1>2. n + 1 \in 1 .. M /\ ~(n + 1 <= n) /\ N \in Nat
  BY <1>1, ShapeParts, TableParts
<1>3. e \in 1 .. N /\ e \in Range(V) /\ e # Null
  BY <1>1, <1>2 DEF Null
<1>4. /\ acc.at = e /\ s.entries[e].idx = idx
      /\ s.entries[e].next = IF n + 1 < M THEN Q[(n + 1) + 1] ELSE Null
  BY <1>2 DEF SpreadTo
<1>5. PICK W : Shape(s, W, F) /\ Range(W) = Range(V)
  BY DEF SpreadTo, Rearranged
<1>6. Alike(t, s)
  BY DEF SpreadTo, Rearranged
<1>7. SpreadStep(acc, idx) = [t |-> u, at |-> s.entries[e].next]
  BY <1>3, <1>4 DEF SpreadStep
<1>8. Resettled(s, u, W, F, e)
  <2> HIDE DEF u, e, s
  <2>1. Resettled(s, Moved(s, e, s.entries[e].idx), W, F, e)
    BY <1>3, <1>5, MovedIs
  <2> QED BY <2>1, <1>4 DEF u
<1> DEFINE new == SpreadStep(acc, idx)
<1>9. new.t = u /\ new.at = s.entries[e].next
  BY <1>7
<1> HIDE DEF new, u, e, s
<1>10. Rearranged(t, u, V, F)
  <2>1. \E X : Shape(u, X, F) /\ Range(X) = Range(V)
    BY <1>5, <1>8 DEF Resettled
  <2>2. Alike(t, u)
    BY <1>6, <1>8 DEF Alike, Resettled
  <2> QED BY <2>1, <2>2 DEF Rearranged
<1>11. /\ u.entries[e].idx = Home(t, e)
       /\ \A y \in 1 .. N :
            y # e => /\ u.entries[y].idx = s.entries[y].idx
                     /\ s.entries[y].next # e => u.entries[y].next = s.entries[y].next
  <2>1. Home(s, e) = Home(t, e)
    BY <1>3, <1>6, AlikeHome
  <2>2. Len(s.entries) = N
    BY <1>6 DEF Alike
  <2> QED BY <2>1, <2>2, <1>8 DEF Resettled, Home
<1>12. ASSUME NEW j \in 1 .. M
       PROVE  IF j <= n + 1 THEN u.entries[Q[j]].idx = Home(t, Q[j])
              ELSE /\ u.entries[Q[j]].idx = idx
                   /\ u.entries[Q[j]].next = IF j < M THEN Q[j + 1] ELSE Null
  <2>0. IF j <= n THEN s.entries[Q[j]].idx = Home(t, Q[j])
        ELSE /\ s.entries[Q[j]].idx = idx
             /\ s.entries[Q[j]].next = IF j < M THEN Q[j + 1] ELSE Null
    BY DEF SpreadTo, s
  <2>1. CASE j = n + 1
    BY <2>1, <1>2, <1>11 DEF e
  <2>2. CASE j # n + 1
    <3>1. Q[j] # e /\ Q[j] \in 1 .. N
      BY <2>2, <1>1, <1>2 DEF e
    <3>2. CASE j <= n
      BY <3>1, <3>2, <2>0, <1>11
    <3>3. CASE ~(j <= n)
      <4>1. j < M => j + 1 \in 1 .. M /\ j + 1 # n + 1
        BY <3>3, <1>1
      <4>2. s.entries[Q[j]].next # e
        BY <4>1, <3>3, <2>0, <1>1, <1>2, <1>3 DEF e
      <4>3. ~(j <= n + 1)
        BY <3>3, <2>2, <1>1
      <4> QED BY <4>2, <4>3, <3>1, <3>3, <2>0, <1>11
    <3>4. j <= n => j <= n + 1
      BY <1>1
    <3> QED BY <3>2, <3>3, <3>4
  <2> QED BY <2>1, <2>2
<1>13. ASSUME NEW x \in Range(V), t.entries[x].idx # idx
       PROVE  u.entries[x].idx = t.entries[x].idx
  <2>1. s.entries[x].idx = t.entries[x].idx
    BY <1>13 DEF SpreadTo, s
  <2>2. x # e /\ x \in 1 .. N
    BY <1>13, <1>1, <1>2, LinksIn DEF e
  <2> QED BY <2>1, <2>2, <1>11
<1>14. SpreadTo(new, n + 1, t, V, F, Q, idx)
  BY <1>4, <1>9, <1>10, <1>12, <1>13 DEF SpreadTo
<1> QED BY <1>14 DEF new

(* u is t after the entries of bucket idx went where their keys say. *)
SpreadOut(t, u, V, F, idx) ==
  /\ Rearranged(t, u, V, F)
  /\ \A x \in Range(V) :
       u.entries[x].idx = IF t.entries[x].idx = idx THEN Home(t, x) ELSE t.entries[x].idx

(* After the loop over a bucket each of its entries is in the bucket of its *)
(* hash code, and none is lost (phashtable.c:300-332).                      *)
LEMMA SpreadIs ==
  ASSUME NEW t, NEW V, NEW F, Shape(t, V, F), NEW idx \in 0 .. Capacity(t) - 1
  PROVE  SpreadOut(t, Spread(t, idx), V, F, idx)
<1> DEFINE N == Len(t.entries)
<1>1. t \in Tables /\ Strung(t, V) /\ N \in Nat
  BY ShapeParts, TableParts
<1>2. PICK Q : IsList(Q, t, V, idx)
  BY <1>1, ListOf
<1> DEFINE M == Len(Q)
<1>3. /\ Q \in Seq(1 .. N) /\ M \in Nat /\ \A j, k \in 1 .. M : Q[j] = Q[k] => j = k
  <2>1. Q \in Seq(1 .. N)
    BY <1>2 DEF IsList
  <2> QED BY <2>1, <1>2, SeqFun DEF IsList
<1>4. M <= N
  <2> HIDE DEF N
  <2> QED BY <1>1, <1>3, NoLonger
<1>5. PICK f : IsSpread(f, t, idx)
  BY <1>1, SpreadRuns
<1> HIDE DEF M, N
<1>6. SpreadTo(f[0], 0, t, V, F, Q, idx)
  <2>1. f[0].t = t /\ f[0].at = First(t, idx)
    BY <1>5 DEF IsSpread
  <2>2. Rearranged(t, t, V, F)
    BY <1>1 DEF Rearranged, Alike
  <2>3. \A j \in 1 .. Len(Q) : ~(j <= 0)
    BY <1>3
  <2>4. First(t, idx) = IF 0 < Len(Q) THEN Q[0 + 1] ELSE Null
    BY <1>2, <1>3 DEF IsList, M
  <2> QED BY <1>2, <2>1, <2>2, <2>3, <2>4 DEF SpreadTo, IsList
<1>7. \A n \in 0 .. M : SpreadTo(f[n], n, t, V, F, Q, idx)
  <2> DEFINE S == {n \in 0 .. M : SpreadTo(f[n], n, t, V, F, Q, idx)}
  <2>1. 0 \in S
    BY <1>3, <1>6
  <2>2. ASSUME NEW k \in Nat, k \in S, k + 1 <= M PROVE k + 1 \in S
    <3>1. k + 1 \in 1 .. N /\ (k + 1) - 1 = k /\ k < M /\ k + 1 \in 0 .. M
      BY <2>2, <1>1, <1>3, <1>4 DEF N
    <3>2. f[k + 1] = SpreadStep(f[k], idx)
      BY <3>1, <1>5 DEF IsSpread, N
    <3>3. SpreadTo(f[k], k, t, V, F, Q, idx)
      BY <2>2
    <3>4. SpreadTo(SpreadStep(f[k], idx), k + 1, t, V, F, Q, idx)
      BY <3>1, <3>3, <1>2, SpreadGoesOn DEF M
    <3> QED BY <3>1, <3>2, <3>4
  <2> HIDE DEF S
  <2>3. 0 .. M \subseteq S
    BY <1>3, <2>1, <2>2, Climb
  <2> QED BY <2>3 DEF S
<1>8. f[M].at = Null /\ SpreadTo(f[M], M, t, V, F, Q, idx)
  <2>1. M \in 0 .. M /\ ~(M < M)
    BY <1>3
  <2> QED BY <1>7, <2>1 DEF SpreadTo, M
<1>9. f[N] = f[M]
  <2> DEFINE S == {n \in 0 .. N : M <= n => f[n] = f[M]}
  <2>1. 0 \in S
    BY <1>1, <1>3 DEF N
  <2>2. ASSUME NEW k \in Nat, k \in S, k + 1 <= N PROVE k + 1 \in S
    <3>1. k + 1 \in 1 .. N /\ (k + 1) - 1 = k /\ k + 1 \in 0 .. N /\ (M <= k + 1 => M <= k \/ k + 1 = M)
      BY <2>2, <1>1, <1>3 DEF N
    <3>2. f[k + 1] = SpreadStep(f[k], idx)
      BY <3>1, <1>5 DEF IsSpread, N
    <3>3. M <= k => f[k + 1] = f[M]
      BY <2>2, <3>2, <1>8 DEF SpreadStep
    <3> QED BY <3>1, <3>3
  <2> HIDE DEF S
  <2>3. 0 .. N \subseteq S
    BY <1>1, <2>1, <2>2, Climb DEF N
  <2>4. N \in 0 .. N
    BY <1>1 DEF N
  <2> QED BY <2>3, <2>4, <1>4 DEF S
<1> DEFINE u == Spread(t, idx)
<1>10. u = f[M].t
  BY <1>5, <1>9 DEF IsSpread, N
<1> HIDE DEF u
<1>11. ASSUME NEW x \in Range(V)
       PROVE  u.entries[x].idx = IF t.entries[x].idx = idx THEN Home(t, x) ELSE t.entries[x].idx
  <2>1. CASE t.entries[x].idx = idx
    <3>1. PICK j \in 1 .. M : x = Q[j]
      BY <2>1, <1>2 DEF IsList, M
    <3>2. j <= M
      BY <1>3
    <3> QED BY <2>1, <3>1, <3>2, <1>8, <1>10 DEF SpreadTo, M
  <2>2. CASE t.entries[x].idx # idx
    BY <2>2, <1>8, <1>10 DEF SpreadTo
  <2> QED BY <2>1, <2>2
<1>12. SpreadOut(t, u, V, F, idx)
  BY <1>8, <1>10, <1>11 DEF SpreadOut, SpreadTo
<1> QED BY <1>12 DEF u

(* Where a rehash is after n buckets of the widened table w. *)
RehashTo(u, n, w, V, F) ==
  /\ Rearranged(w, u, V, F)
  /\ \A x \in Range(V) : \/ u.entries[x].idx = Home(w, x)
                         \/ u.entries[x].idx = w.entries[x].idx /\ n <= w.entries[x].idx

(* One turn of the loop over the old buckets: an entry that came to a later *)
(* bucket already is where it belongs, so meeting it again moves nothing    *)
(* (phashtable.c:298-333).                                                  *)
LEMMA RehashGoesOn ==
  ASSUME NEW w, NEW V, NEW F, Shape(w, V, F), NEW n \in 0 .. Capacity(w) - 1,
         NEW u, RehashTo(u, n, w, V, F)
  PROVE  RehashTo(Spread(u, n), n + 1, w, V, F)
<1> DEFINE s == Spread(u, n)
<1>1. PICK W : Shape(u, W, F) /\ Range(W) = Range(V)
  BY DEF RehashTo, Rearranged
<1>2. Alike(w, u)
  BY DEF RehashTo, Rearranged
<1>3. SpreadOut(u, s, W, F, n)
  <2>1. n \in 0 .. Capacity(u) - 1
    BY <1>2 DEF Alike
  <2> QED BY <2>1, <1>1, SpreadIs
<1> HIDE DEF s
<1>4. Rearranged(w, s, V, F)
  <2>1. \E X : Shape(s, X, F) /\ Range(X) = Range(V)
    BY <1>1, <1>3 DEF SpreadOut, Rearranged
  <2>2. Alike(w, s)
    BY <1>2, <1>3 DEF SpreadOut, Rearranged, Alike
  <2> QED BY <2>1, <2>2 DEF Rearranged
<1>5. ASSUME NEW x \in Range(V)
      PROVE  \/ s.entries[x].idx = Home(w, x)
             \/ s.entries[x].idx = w.entries[x].idx /\ n + 1 <= w.entries[x].idx
  <2>1. s.entries[x].idx = IF u.entries[x].idx = n THEN Home(u, x) ELSE u.entries[x].idx
    BY <1>1, <1>3 DEF SpreadOut
  <2>2. x \in 1 .. Len(w.entries) /\ w.entries[x].idx \in 0 .. Capacity(w) - 1 /\ Capacity(w) \in Nat
    BY LinksIn, ShapeParts
  <2>3. Home(u, x) = Home(w, x)
    BY <2>2, <1>2, AlikeHome
  <2>4. \/ u.entries[x].idx = Home(w, x)
        \/ u.entries[x].idx = w.entries[x].idx /\ n <= w.entries[x].idx
    BY DEF RehashTo
  <2>5. CASE u.entries[x].idx = n
    BY <2>1, <2>3, <2>5
  <2>6. CASE u.entries[x].idx # n
    <3>1. n <= w.entries[x].idx /\ w.entries[x].idx # n => n + 1 <= w.entries[x].idx
      BY <2>2
    <3> QED BY <3>1, <2>1, <2>4, <2>6
  <2> QED BY <2>5, <2>6
<1>6. RehashTo(s, n + 1, w, V, F)
  BY <1>4, <1>5 DEF RehashTo
<1> QED BY <1>6 DEF s

(* u holds what t holds, where the keys say. *)
Regrown(t, u, V, F) ==
  /\ \E W : Shape(u, W, F) /\ Settled(u, W) /\ Range(W) = Range(V)
  /\ Len(u.entries) = Len(t.entries) /\ u.size = t.size /\ u.freeList = t.freeList
  /\ \A x \in 1 .. Len(t.entries) : /\ u.entries[x].key = t.entries[x].key
                                    /\ u.entries[x].value = t.entries[x].value

(* A table that has grown in place holds the entries it held, each in the   *)
(* bucket of its hash code (phashtable.c:274-335).                          *)
LEMMA RehashedIs ==
  ASSUME NEW t, NEW V, NEW F, Shape(t, V, F)
  PROVE  Regrown(t, Rehashed(t), V, F)
<1> DEFINE C == Capacity(t)
           w == Widened(t)
           u == Rehashed(t)
<1>1. t \in Tables /\ C \in Nat /\ t.size = Len(V)
  BY ShapeParts
<1>2. Shape(w, V, F) /\ w.entries = t.entries /\ C <= Capacity(w) /\ w.freeList = t.freeList
  <2>1. Shape(w, V, F) /\ w.entries = t.entries /\ Capacity(w) >= Capacity(t) /\ w.freeList = t.freeList
    BY WidenedIs
  <2>2. Capacity(w) \in Nat
    <3> HIDE DEF w
    <3> QED BY <2>1, ShapeParts
  <2> QED BY <2>1, <2>2, <1>1
<1>3. PICK f : IsRehash(f, t)
  BY <1>1, RehashRuns
<1>4. \A n \in 1 .. C : f[n] = Spread(f[n - 1], n - 1)
  BY <1>3 DEF IsRehash
<1>5. f[0] = w /\ u = f[C]
  BY <1>3 DEF IsRehash
<1> HIDE DEF w, u
<1>6. w \in Tables /\ w.size = Len(V) /\ Capacity(w) \in Nat
      /\ \A x \in Range(V) : /\ x \in 1 .. Len(w.entries) /\ w.entries[x].idx \in Int
                             /\ 0 <= w.entries[x].idx
  BY <1>2, ShapeParts, LinksIn
<1>60. \A x \in Range(V) : w.entries[x].idx < C
  <2>1. \A x \in Range(V) : t.entries[x].idx \in 0 .. C - 1
    BY LinksIn
  <2> QED BY <2>1, <1>1, <1>2
<1> HIDE DEF C
<1>7. RehashTo(f[0], 0, w, V, F)
  <2>1. Rearranged(w, w, V, F)
    BY <1>2, <1>6 DEF Rearranged, Alike
  <2> QED BY <2>1, <1>5, <1>6 DEF RehashTo
<1> DEFINE S == {n \in 0 .. C : RehashTo(f[n], n, w, V, F)}
<1>8. 0 \in S
  BY <1>1, <1>7
<1>9. ASSUME NEW k \in Nat, k \in S, k + 1 <= C PROVE k + 1 \in S
  <2>1. k + 1 \in 1 .. C /\ (k + 1) - 1 = k /\ k + 1 \in 0 .. C /\ k \in 0 .. Capacity(w) - 1
    BY <1>1, <1>2, <1>6, <1>9
  <2>2. f[k + 1] = Spread(f[k], k)
    BY <2>1, <1>4
  <2>3. RehashTo(f[k], k, w, V, F)
    BY <1>9
  <2>4. RehashTo(Spread(f[k], k), k + 1, w, V, F)
    BY <2>1, <2>3, <1>2, RehashGoesOn
  <2> QED BY <2>1, <2>2, <2>4
<1> HIDE DEF S
<1>10. 0 .. C \subseteq S
  BY <1>1, <1>8, <1>9, Climb
<1>11. RehashTo(u, C, w, V, F)
  <2>1. C \in 0 .. C
    BY <1>1
  <2> QED BY <2>1, <1>5, <1>10 DEF S
<1>12. PICK W : Shape(u, W, F) /\ Range(W) = Range(V)
  BY <1>11 DEF RehashTo, Rearranged
<1>13. Alike(w, u)
  BY <1>11 DEF RehashTo, Rearranged
<1>14. Settled(u, W)
  <2> SUFFICES ASSUME NEW x \in Range(V) PROVE u.entries[x].idx = Home(u, x)
    BY <1>12 DEF Settled, Home
  <2>1. \/ u.entries[x].idx = Home(w, x)
        \/ u.entries[x].idx = w.entries[x].idx /\ C <= w.entries[x].idx
    BY <1>11 DEF RehashTo
  <2>2. ~(C <= w.entries[x].idx)
    BY <1>1, <1>6, <1>60
  <2>3. Home(u, x) = Home(w, x)
    BY <1>6, <1>13, AlikeHome
  <2> QED BY <2>1, <2>2, <2>3
<1>15. Regrown(t, u, V, F)
  BY <1>1, <1>2, <1>6, <1>12, <1>13, <1>14 DEF Regrown, Alike
<1> QED BY <1>15 DEF u

(* Where an emptying is after n entries. *)
EmptyTo(acc, n, t, V) ==
  /\ acc.freed = n /\ Capacity(acc.t) = Capacity(t)
  /\ \E W, G : /\ Shape(acc.t, W, G) /\ Len(W) = Len(V) - n
               /\ acc.at = IF Len(W) = 0 THEN Null ELSE W[1]

(* One turn of the loop that removes all entries: the iterator has left an  *)
(* entry before that is removed (HashMapImpl.c:151-162).                    *)
LEMMA EmptyGoesOn ==
  ASSUME NEW t, NEW V, Len(V) \in Nat, NEW n \in Nat, n < Len(V), NEW acc, EmptyTo(acc, n, t, V)
  PROVE  EmptyTo(EmptyStep(acc), n + 1, t, V)
<1> DEFINE s == acc.t
           new == EmptyStep(acc)
<1>1. PICK W, G : /\ Shape(s, W, G) /\ Len(W) = Len(V) - n
                  /\ acc.at = IF Len(W) = 0 THEN Null ELSE W[1]
  BY DEF EmptyTo
<1>2. Len(W) \in Nat /\ 1 \in 1 .. Len(W) /\ Len(W) # 0
  BY <1>1
<1>3. s \in Tables /\ Strung(s, W)
  BY <1>1, ShapeParts
<1> DEFINE e == W[1]
           u == Removed(s, e)
<1>4. e # Null /\ acc.at = e
  BY <1>1, <1>2, <1>3, StrungParts
<1>5. new = [t |-> u, at |-> Advance(s, e), freed |-> acc.freed + 1]
  BY <1>4 DEF EmptyStep
<1> HIDE DEF s
<1>6. Dropped(s, u, W, G, 1)
  BY <1>1, <1>2, RemovedIs
<1>7. Advance(s, e) = IF 1 < Len(W) THEN W[1 + 1] ELSE Null
  <2>1. 1 \in 0 .. Len(W) /\ ~(1 = 0)
    BY <1>2
  <2> DEFINE j == 1
  <2>2. Advance(s, IF j = 0 THEN Null ELSE W[j]) = IF j < Len(W) THEN W[j + 1] ELSE Null
    <3> HIDE DEF j
    <3>1. j \in 0 .. Len(W)
      BY <2>1 DEF j
    <3> QED BY <3>1, <1>1, AdvanceIs
  <2> QED BY <2>1, <2>2
<1> HIDE DEF u, new
<1>8. /\ new.t = u /\ new.at = Advance(s, e) /\ new.freed = n + 1
  BY <1>5 DEF EmptyTo
<1> DEFINE X == Cut(W, 1)
           H == PutAt(G, 1, e)
<1>9. Shape(u, X, H) /\ Capacity(u) = Capacity(s)
  BY <1>6 DEF Dropped
<1>10. Len(X) = Len(W) - 1 /\ \A j \in 1 .. Len(W) - 1 : X[j] = W[j + 1]
  <2>1. /\ W \in Seq(1 .. Len(s.entries)) /\ \A j, k \in 1 .. Len(W) : W[j] = W[k] => j = k
        /\ Len(s.entries) \in Nat
    BY <1>3, StrungParts, TableParts
  <2>2. /\ Len(X) = Len(W) - 1
        /\ \A j \in 1 .. Len(W) - 1 : X[j] = IF j < 1 THEN W[j] ELSE W[j + 1]
    <3> HIDE DEF e
    <3> QED BY <2>1, <1>2, CutFacts
  <2>3. \A j \in 1 .. Len(W) - 1 : ~(j < 1)
    BY <1>2
  <2> HIDE DEF X
  <2> QED BY <2>2, <2>3
<1> HIDE DEF X, H
<1>11. new.at = IF Len(X) = 0 THEN Null ELSE X[1]
  <2>1. CASE 1 < Len(W)
    <3>1. 1 \in 1 .. Len(W) - 1 /\ Len(X) # 0
      BY <2>1, <1>2, <1>10
    <3> QED BY <2>1, <3>1, <1>7, <1>8, <1>10
  <2>2. CASE ~(1 < Len(W))
    <3>1. Len(X) = 0
      BY <2>2, <1>2, <1>10
    <3> QED BY <2>2, <3>1, <1>7, <1>8
  <2> QED BY <2>1, <2>2
<1>12. Len(X) = Len(V) - (n + 1)
  BY <1>1, <1>2, <1>10
<1>13. Capacity(s) = Capacity(t)
  BY DEF EmptyTo, s
<1>14. EmptyTo(new, n + 1, t, V)
  BY <1>8, <1>9, <1>11, <1>12, <1>13 DEF EmptyTo
<1> QED BY <1>14 DEF new

(* Removing all entries frees as many keys as there were entries and leaves *)
(* an empty table (HashMapImpl.c:151-162).                                  *)
LEMMA EmptiedIs ==
  ASSUME NEW t, NEW V, NEW F, Shape(t, V, F)
  PROVE  /\ Emptied(t).freed = Len(V)
         /\ \E W, G : Shape(Emptied(t).t, W, G) /\ Len(W) = 0
<1> DEFINE N == Len(t.entries)
           M == Len(V)
<1>1. /\ t \in Tables /\ Strung(t, V) /\ N \in Nat /\ M \in Nat /\ V \in Seq(1 .. N)
      /\ \A j, k \in 1 .. M : V[j] = V[k] => j = k
  <2>1. t \in Tables /\ Strung(t, V)
    BY ShapeParts
  <2> QED BY <2>1, StrungParts, TableParts
<1>2. M <= N
  <2> HIDE DEF N
  <2> QED BY <1>1, NoLonger
<1>3. PICK f : IsEmptying(f, t)
  BY <1>1, EmptyingRuns
<1>4. /\ f[0] = [t |-> t, at |-> Advance(t, Null), freed |-> 0]
      /\ \A n \in 1 .. N : f[n] = EmptyStep(f[n - 1])
      /\ Emptied(t) = f[N]
  BY <1>3 DEF IsEmptying
<1>5. Advance(t, Null) = IF M = 0 THEN Null ELSE V[1]
  <2> DEFINE j == 0
  <2>1. j \in 0 .. Len(V) /\ j = 0 /\ j + 1 = 1 /\ (j < M <=> M # 0)
    BY <1>1
  <2> HIDE DEF j
  <2>2. Advance(t, IF j = 0 THEN Null ELSE V[j]) = IF j < Len(V) THEN V[j + 1] ELSE Null
    BY <2>1, AdvanceIs
  <2> QED BY <2>1, <2>2
<1> HIDE DEF M, N
<1>6. EmptyTo(f[0], 0, t, V)
  <2>1. f[0].t = t /\ f[0].at = Advance(t, Null) /\ f[0].freed = 0
    BY <1>4
  <2>2. Len(V) = Len(V) - 0
    BY <1>1 DEF M
  <2> QED BY <2>1, <2>2, <1>5 DEF EmptyTo, M
<1>7. \A n \in 0 .. M : EmptyTo(f[n], n, t, V)
  <2> DEFINE S == {n \in 0 .. M : EmptyTo(f[n], n, t, V)}
  <2>1. 0 \in S
    BY <1>1, <1>6
  <2>2. ASSUME NEW k \in Nat, k \in S, k + 1 <= M PROVE k + 1 \in S
    <3>1. k + 1 \in 1 .. N /\ (k + 1) - 1 = k /\ k < M /\ k + 1 \in 0 .. M
      BY <2>2, <1>1, <1>2
    <3>2. f[k + 1] = EmptyStep(f[k])
      BY <3>1, <1>4
    <3>3. EmptyTo(f[k], k, t, V)
      BY <2>2
    <3>4. EmptyTo(EmptyStep(f[k]), k + 1, t, V)
      BY <3>1, <3>3, <1>1, EmptyGoesOn DEF M
    <3> QED BY <3>1, <3>2, <3>4
  <2> HIDE DEF S
  <2>3. 0 .. M \subseteq S
    BY <1>1, <2>1, <2>2, Climb
  <2> QED BY <2>3 DEF S
<1>8. EmptyTo(f[M], M, t, V)
  <2>1. M \in 0 .. M
    BY <1>1
  <2> QED BY <1>7, <2>1
<1>9. PICK W, G : Shape(f[M].t, W, G) /\ Len(W) = 0 /\ f[M].at = Null
  <2>1. Len(V) - M = 0
    BY <1>1 DEF M
  <2> QED BY <2>1, <1>8 DEF EmptyTo
<1>10. f[N] = f[M]
  <2> DEFINE S == {n \in 0 .. N : M <= n => f[n] = f[M]}
  <2>1. 0 \in S
    BY <1>1
  <2>2. ASSUME NEW k \in Nat, k \in S, k + 1 <= N PROVE k + 1 \in S
    <3>1. k + 1 \in 1 .. N /\ (k + 1) - 1 = k /\ k + 1 \in 0 .. N /\ (M <= k + 1 => M <= k \/ k + 1 = M)
      BY <2>2, <1>1
    <3>2. f[k + 1] = EmptyStep(f[k])
      BY <3>1, <1>4
    <3>3. M <= k => f[k + 1] = f[M]
      BY <2>2, <3>2, <1>9 DEF EmptyStep
    <3> QED BY <3>1, <3>3
  <2> HIDE DEF S
  <2>3. 0 .. N \subseteq S
    BY <1>1, <2>1, <2>2, Climb
  <2>4. N \in 0 .. N
    BY <1>1
  <2> QED BY <2>3, <2>4, <1>2 DEF S
<1>11. f[M].freed = Len(V)
  BY <1>8 DEF EmptyTo, M
<1> QED BY <1>4, <1>9, <1>10, <1>11

-----------------------------------------------------------------------------
(* The calls keep the table in order. *)

(* Everything is where it should be: the lists hold the entries of V, F is free. *)
InOrder(t, V, F) == Shape(t, V, F) /\ Settled(t, V)

(* The inductive invariant says that some lists are in order. *)
LEMMA OrderIsOK ==
  ASSUME NEW t
  PROVE  HashOK(t) <=> \E V, F : InOrder(t, V, F)
<1>1. ASSUME NEW V, NEW F, InOrder(t, V, F)
      PROVE  V \in Seq(DOMAIN t.entries) /\ F \in Seq(DOMAIN t.entries)
  BY <1>1 DEF InOrder, Shape, Strung, Spare
<1> QED BY <1>1, Zenon DEF HashOK, InOrder

(* A new table is in order: no entries, and all buckets empty               *)
(* (phashtable.c:74-127).                                                   *)
LEMMA CreatedInOrder ==
  ASSUME NEW capacity \in Capacities
  PROVE  InOrder(Created(capacity), << >>, << >>)
<1> DEFINE bs == [i \in 1 .. capacity |-> Null]
           u == Created(capacity)
           E == << >>
<1>1. capacity \in Nat \ {0}
  BY HashAssumption
<1>2. bs \in Seq(Nat) /\ Len(bs) = capacity /\ \A i \in 1 .. capacity : bs[i] = Null
  BY <1>1 DEF Null
<1> HIDE DEF bs
<1>3. /\ u = [buckets |-> bs, size |-> 0, freeList |-> Null, entries |-> << >>]
      /\ u.buckets = bs /\ u.size = 0 /\ u.freeList = Null /\ u.entries = << >>
  BY DEF Created, bs
<1>4. u \in Tables
  BY <1>2, <1>3 DEF Tables, Null
<1>5. E \in Seq(DOMAIN u.entries) /\ Len(E) = 0 /\ Range(E) = {} /\ DOMAIN u.entries = {}
  BY <1>3 DEF Range
<1> HIDE DEF u
<1>6. Capacity(u) = capacity /\ \A i \in 0 .. capacity - 1 : First(u, i) = Null
  <2>1. \A i \in 0 .. capacity - 1 : i + 1 \in 1 .. capacity
    BY <1>1
  <2> QED BY <2>1, <1>2, <1>3 DEF Capacity, First
<1> HIDE DEF E
<1>7. Strung(u, E)
  <2>1. 1 .. 0 = {}
    OBVIOUS
  <2> QED BY <2>1, <1>5, <1>6 DEF Strung, Threaded
<1>8. Spare(u, E)
  BY <1>3, <1>5 DEF Spare
<1>9. Holds(u, E) /\ Settled(u, E)
  BY <1>5 DEF Holds, Settled
<1>10. Shape(u, E, E)
  BY <1>1, <1>3, <1>4, <1>5, <1>6, <1>7, <1>8, <1>9 DEF Shape
<1> QED BY <1>9, <1>10 DEF InOrder, E, u

(* A put that needs a larger table keeps the entries, in order, before it   *)
(* adds its own (phashtable.c:361-366).                                     *)
LEMMA GrownIs ==
  ASSUME NEW V, NEW F, InOrder(table, V, F)
  PROVE  Regrown(table, Grown, V, F)
<1>1. Regrown(table, Rehashed(table), V, F)
  BY RehashedIs DEF InOrder
<1>2. Regrown(table, table, V, F)
  BY DEF InOrder, Regrown
<1> QED BY <1>1, <1>2 DEF Grown

(* u holds one key more. *)
Added(t, u, V, key, value) ==
  \E W, F, e : /\ InOrder(u, W, F) /\ e \notin Range(V) /\ Range(W) = Range(V) \cup {e}
               /\ u.entries[e].key = key /\ u.entries[e].value = value
               /\ \A x \in Range(V) : /\ u.entries[x].key = t.entries[x].key
                                      /\ u.entries[x].value = t.entries[x].value
               /\ u.size = t.size + 1

(* A table in order with a free entry is in order after it took in a new    *)
(* key.                                                                     *)
LEMMA InsertedInOrder ==
  ASSUME NEW t, NEW V, NEW F, InOrder(t, V, F), t.freeList # Null, NEW key \in Keys,
         NEW value \in Values, \A x \in Range(V) : t.entries[x].key # key
  PROVE  Added(t, Inserted(t, key, value), V, key, value)
<1> DEFINE u == Inserted(t, key, value)
           N == Len(t.entries)
           e == F[1]
<1>1. Shape(t, V, F)
  BY DEF InOrder
<1>2. PICK q \in 1 .. Len(V) + 1 : Gained(t, u, V, F, q, key, value)
  <2> HIDE DEF u
  <2> QED BY <1>1, InsertedIs DEF u
<1> HIDE DEF u
<1>3. /\ t \in Tables /\ Strung(t, V) /\ Spare(t, F) /\ N \in Nat /\ t.size = Len(V)
      /\ \A y \in 1 .. N : (y \in Range(V)) # (y \in Range(F))
  BY <1>1, ShapeParts, TableParts
<1>4. /\ e \in 1 .. N /\ e \in Range(F)
  <2>1. /\ Len(F) \in Nat /\ DOMAIN F = 1 .. Len(F) /\ \A j \in 1 .. Len(F) : F[j] \in 1 .. N
        /\ t.freeList = IF Len(F) = 0 THEN Null ELSE F[1]
    BY <1>3, SpareParts
  <2>2. 1 \in 1 .. Len(F)
    BY <2>1
  <2> QED BY <2>1, <2>2 DEF Range
<1> DEFINE W == PutAt(V, q, e)
<1>5. Range(W) = Range(V) \cup {e} /\ Len(W) = Len(V) + 1
  <2>1. V \in Seq(1 .. N) /\ \A j, k \in 1 .. Len(V) : V[j] = V[k] => j = k
    BY <1>3, StrungParts
  <2>2. e \notin Range(V)
    BY <1>3, <1>4
  <2> HIDE DEF N, e, W
  <2> QED BY <2>1, <2>2, <1>3, <1>4, PutAtFacts DEF W
<1> HIDE DEF W, e
<1>6. /\ Shape(u, W, Cut(F, 1)) /\ Capacity(u) = Capacity(t)
      /\ \A x \in Range(V) : Keeps(t, u, x)
      /\ u.entries[e].key = key /\ u.entries[e].value = value /\ u.entries[e].idx = Bucket(t, key)
  BY <1>2 DEF Gained, W, e
<1>7. Settled(u, W)
  <2>1. \A x \in Range(V) : t.entries[x].idx = Bucket(t, t.entries[x].key)
    BY DEF InOrder, Settled
  <2>2. \A k : Bucket(u, k) = Bucket(t, k)
    BY <1>6 DEF Bucket
  <2> QED BY <2>1, <2>2, <1>5, <1>6 DEF Settled, Keeps
<1>8. u.size = t.size + 1
  BY <1>3, <1>5, <1>6, ShapeParts
<1>9. Added(t, u, V, key, value)
  <2>1. InOrder(u, W, Cut(F, 1)) /\ e \notin Range(V)
    BY <1>3, <1>4, <1>6, <1>7 DEF InOrder
  <2> QED BY <2>1, <1>5, <1>6, <1>8 DEF Added, Keeps
<1> QED BY <1>9 DEF u

(* A put of a key that is not there adds one entry with that key and value, *)
(* and keeps all the others, whether the table grows, a block is allocated, *)
(* both or neither (HashMapImpl.c:79-107).                                  *)
LEMMA PutNewAdds ==
  ASSUME NEW V, NEW F, InOrder(table, V, F), NEW key \in Keys, NEW value \in Values,
         PutNew(key, value)
  PROVE  /\ \A x \in Range(V) : table.entries[x].key # key
         /\ Added(table, table', V, key, value)
<1>1. ASSUME NEW x \in Range(V) PROVE table.entries[x].key # key
  <2>1. Shape(table, V, F) /\ Settled(table, V)
    BY DEF InOrder
  <2>2. table \in Tables /\ Strung(table, V)
    BY <2>1, ShapeParts
  <2>3. PICK j \in 1 .. Len(V) : x = V[j]
    BY <2>2, StrungParts DEF Range
  <2>4. GetEntry(table, key) = Null
    BY DEF PutNew
  <2> QED BY <2>1, <2>3, <2>4, GetEntryIs
<1> DEFINE g == Grown
           s == IF g.freeList = Null THEN Replenished(g) ELSE g
<1>2. Regrown(table, g, V, F)
  BY GrownIs
<1>3. table' = Inserted(s, key, value)
  BY Zenon DEF PutNew
<1> HIDE DEF g
<1>4. PICK W : Shape(g, W, F) /\ Settled(g, W) /\ Range(W) = Range(V)
  BY <1>2 DEF Regrown
<1>5. /\ Range(V) \subseteq 1 .. Len(g.entries) /\ g.size = table.size
      /\ \A x \in Range(V) : /\ g.entries[x].key = table.entries[x].key
                             /\ g.entries[x].value = table.entries[x].value
  <2>1. Range(V) \subseteq 1 .. Len(table.entries)
    BY LinksIn DEF InOrder
  <2> QED BY <2>1, <1>2 DEF Regrown
<1>6. /\ \E G : Shape(s, W, G)
      /\ s.freeList # Null /\ Capacity(s) = Capacity(g)
      /\ \A x \in 1 .. Len(g.entries) : s.entries[x] = g.entries[x]
  <2>1. CASE g.freeList = Null
    <3>1. s = Replenished(g)
      BY <2>1
    <3> HIDE DEF s
    <3> QED BY <3>1, <2>1, <1>4, ReplenishedIs
  <2>2. CASE g.freeList # Null
    BY <2>2, <1>4
  <2> QED BY <2>1, <2>2
<1> HIDE DEF s
<1>7. PICK G : Shape(s, W, G)
  BY <1>6
<1>8. Settled(s, W)
  BY <1>4, <1>5, <1>6 DEF Settled, Bucket
<1>9. \A x \in Range(W) : s.entries[x].key # key
  BY <1>1, <1>4, <1>5, <1>6
<1>10. Added(s, table', W, key, value)
  BY <1>3, <1>6, <1>7, <1>8, <1>9, InsertedInOrder DEF InOrder
<1>11. s.size = table.size
  BY <1>4, <1>5, <1>7, ShapeParts
<1>12. Added(table, table', V, key, value)
  BY <1>4, <1>5, <1>6, <1>10, <1>11 DEF Added
<1> QED BY <1>1, <1>12

(* A table in order is in order after an entry was removed, and all the     *)
(* others are kept.                                                         *)
LEMMA RemovedInOrder ==
  ASSUME NEW t, NEW V, NEW F, InOrder(t, V, F), NEW p \in 1 .. Len(V)
  PROVE  /\ \E G : InOrder(Removed(t, V[p]), Cut(V, p), G)
         /\ Range(Cut(V, p)) = Range(V) \ {V[p]}
         /\ \A x \in Range(V) \ {V[p]} : Keeps(t, Removed(t, V[p]), x)
         /\ Removed(t, V[p]).size = t.size - 1
<1> DEFINE u == Removed(t, V[p])
           W == Cut(V, p)
<1>1. Shape(t, V, F) /\ Settled(t, V)
  BY DEF InOrder
<1>2. Dropped(t, u, V, F, p)
  BY <1>1, RemovedIs
<1>3. Range(W) = Range(V) \ {V[p]} /\ Len(W) = Len(V) - 1
  <2>1. t \in Tables /\ Strung(t, V)
    BY <1>1, ShapeParts
  <2>2. /\ Len(t.entries) \in Nat /\ V \in Seq(1 .. Len(t.entries))
        /\ \A j, k \in 1 .. Len(V) : V[j] = V[k] => j = k
    BY <2>1, StrungParts, TableParts
  <2> HIDE DEF W
  <2> QED BY <2>2, CutFacts DEF W
<1> HIDE DEF u, W
<1>4. /\ Shape(u, W, PutAt(F, 1, V[p])) /\ Capacity(u) = Capacity(t)
      /\ \A x \in Range(V) \ {V[p]} : Keeps(t, u, x)
  BY <1>2 DEF Dropped, W
<1>5. Settled(u, W)
  BY <1>1, <1>3, <1>4 DEF Settled, Keeps, Bucket
<1>6. u.size = t.size - 1
  BY <1>1, <1>3, <1>4, ShapeParts
<1> QED BY <1>3, <1>4, <1>5, <1>6 DEF InOrder, u, W

(* An emptied table is in order. *)
LEMMA EmptyInOrder ==
  ASSUME NEW t, NEW V, NEW F, InOrder(t, V, F)
  PROVE  \E W, G : InOrder(Emptied(t).t, W, G) /\ Len(W) = 0 /\ Range(W) = {}
<1> DEFINE u == Emptied(t).t
<1>1. \E W, G : Shape(u, W, G) /\ Len(W) = 0
  BY EmptiedIs DEF InOrder
<1> HIDE DEF u
<1>2. PICK W, G : Shape(u, W, G) /\ Len(W) = 0
  BY <1>1
<1>3. u \in Tables /\ Strung(u, W)
  BY <1>2, ShapeParts
<1>4. Range(W) = {}
  BY <1>2, <1>3, StrungParts DEF Range
<1>5. InOrder(u, W, G)
  BY <1>2, <1>4 DEF InOrder, Settled
<1> QED BY <1>2, <1>4, <1>5 DEF u

(* A list of different entries has as many entries as it is long: the size  *)
(* the table keeps is counted right.                                        *)
LEMMA RangeSize ==
  ASSUME NEW S, NEW V \in Seq(S), \A j, k \in 1 .. Len(V) : V[j] = V[k] => j = k
  PROVE  Cardinality(Range(V)) = Len(V)
<1> DEFINE D == 1 .. Len(V)
<1>1. Len(V) \in Nat /\ DOMAIN V = D /\ V \in [D -> S]
  BY SeqFun
<1>2. V \in Bijection(D, Range(V))
  <2>1. V \in [D -> Range(V)]
    BY <1>1 DEF Range
  <2>2. V \in Injection(D, Range(V))
    BY <2>1 DEF Injection, IsInjective
  <2>3. V \in Surjection(D, Range(V))
    <3>1. \A y \in Range(V) : \E x \in D : V[x] = y
      BY <1>1 DEF Range
    <3> QED BY <2>1, <3>1 DEF Surjection
  <2> QED BY <2>2, <2>3 DEF Bijection
<1>3. IsFiniteSet(D) /\ Cardinality(D) = Len(V)
  BY <1>1, Interval
<1>4. ExistsBijection(D, Range(V))
  BY <1>2 DEF ExistsBijection
<1>5. Cardinality(Range(V)) = Cardinality(D)
  BY <1>3, <1>4, FS_Bijection
<1> QED BY <1>3, <1>5

(* The inductive invariant says that the lists hold together. *)
LEMMA ListsOfOrder ==
  ASSUME Inv
  PROVE  ListsHoldTogether
<1> DEFINE t == table
           C == Capacity(t)
           list == [idx \in 0 .. C - 1 |-> Chain(t, First(t, idx))]
           free == Chain(t, t.freeList)
           used == UNION {Range(list[idx]) : idx \in DOMAIN list}
<1>1. PICK V, F : InOrder(t, V, F)
  BY OrderIsOK DEF Inv
<1>2. Shape(t, V, F) /\ Settled(t, V)
  BY <1>1 DEF InOrder
<1>3. /\ t \in Tables /\ Strung(t, V) /\ Spare(t, F) /\ t.size = Len(V)
      /\ \A y \in 1 .. Len(t.entries) : (y \in Range(V)) # (y \in Range(F))
      /\ DOMAIN t.entries = 1 .. Len(t.entries)
  BY <1>2, ShapeParts, TableParts
<1>4. DOMAIN list = 0 .. C - 1 /\ \A i \in 0 .. C - 1 : IsList(list[i], t, V, i)
  BY <1>2, BucketChain
<1>5. free = F
  BY <1>2, FreeChain
<1> HIDE DEF list, free
<1>6. \A i \in 0 .. C - 1 :
        /\ list[i] \in Seq(1 .. Len(t.entries)) /\ DOMAIN list[i] = 1 .. Len(list[i])
        /\ \A j, k \in 1 .. Len(list[i]) : list[i][j] = list[i][k] => j = k
        /\ \A j \in 1 .. Len(list[i]) :
             /\ list[i][j] \in Range(V) /\ t.entries[list[i][j]].idx = i
             /\ t.entries[list[i][j]].prev = IF j = 1 THEN Null ELSE list[i][j - 1]
        /\ \A x \in Range(V) : t.entries[x].idx = i => \E j \in 1 .. Len(list[i]) : x = list[i][j]
  <2> TAKE i \in 0 .. C - 1
  <2> DEFINE Q == list[i]
  <2>1. IsList(Q, t, V, i)
    BY <1>4
  <2> HIDE DEF Q
  <2>2. Q \in Seq(1 .. Len(t.entries))
    BY <2>1 DEF IsList
  <2>3. DOMAIN Q = 1 .. Len(Q)
    BY <2>2, SeqFun
  <2> HIDE DEF t
  <2>4. /\ \A j, k \in 1 .. Len(Q) : Q[j] = Q[k] => j = k
        /\ \A j \in 1 .. Len(Q) :
             /\ Q[j] \in Range(V) /\ t.entries[Q[j]].idx = i
             /\ t.entries[Q[j]].prev = IF j = 1 THEN Null ELSE Q[j - 1]
        /\ \A x \in Range(V) : t.entries[x].idx = i => \E j \in 1 .. Len(Q) : x = Q[j]
    BY <2>1 DEF IsList
  <2> QED BY <2>2, <2>3, <2>4 DEF Q
<1>7. \A i \in 0 .. C - 1 : Range(list[i]) = {x \in Range(V) : t.entries[x].idx = i}
  <2> TAKE i \in 0 .. C - 1
  <2> DEFINE Q == list[i]
  <2>1. /\ DOMAIN Q = 1 .. Len(Q)
        /\ \A j \in 1 .. Len(Q) : Q[j] \in Range(V) /\ t.entries[Q[j]].idx = i
        /\ \A x \in Range(V) : t.entries[x].idx = i => \E j \in 1 .. Len(Q) : x = Q[j]
    BY <1>6
  <2> HIDE DEF Q
  <2>2. Range(Q) = {x \in Range(V) : t.entries[x].idx = i}
    BY <2>1 DEF Range
  <2> QED BY <2>2 DEF Q
<1>8. used = Range(V)
  <2>1. \A x \in Range(V) : t.entries[x].idx \in 0 .. C - 1
    BY <1>2, LinksIn
  <2> QED BY <2>1, <1>4, <1>7
<1> HIDE DEF used
<1>9. IsInjective(free) /\ \A i \in DOMAIN list : IsInjective(list[i])
  <2>1. IsInjective(free)
    <3>1. DOMAIN F = 1 .. Len(F) /\ \A j, k \in 1 .. Len(F) : F[j] = F[k] => j = k
      BY <1>3, SpareParts
    <3> QED BY <3>1, <1>5 DEF IsInjective
  <2>2. ASSUME NEW i \in DOMAIN list PROVE IsInjective(list[i])
    <3> DEFINE Q == list[i]
    <3>1. i \in 0 .. C - 1
      BY <1>4
    <3>2. DOMAIN Q = 1 .. Len(Q) /\ \A j, k \in 1 .. Len(Q) : Q[j] = Q[k] => j = k
      BY <3>1, <1>6
    <3> HIDE DEF Q
    <3>3. IsInjective(Q)
      BY <3>2 DEF IsInjective
    <3> QED BY <3>3 DEF Q
  <2> QED BY <2>1, <2>2
<1>10. \A i, j \in DOMAIN list : i # j => Range(list[i]) \cap Range(list[j]) = {}
  BY <1>4, <1>7
<1>11. used \cap Range(free) = {} /\ used \cup Range(free) = DOMAIN t.entries
  <2>1. Range(V) \subseteq 1 .. Len(t.entries)
    BY <1>2, LinksIn
  <2>2. Range(F) \subseteq 1 .. Len(t.entries)
    BY <1>3, SpareParts DEF Range
  <2> QED BY <2>1, <2>2, <1>3, <1>5, <1>8
<1>12. Cardinality(used) = t.size
  <2>1. V \in Seq(1 .. Len(t.entries)) /\ \A j, k \in 1 .. Len(V) : V[j] = V[k] => j = k
    BY <1>3, StrungParts
  <2> QED BY <2>1, <1>3, <1>8, RangeSize
<1>13. copies = t.size
  BY DEF Inv
<1>14. ASSUME NEW i \in DOMAIN list, NEW j \in DOMAIN list[i]
       PROVE  LET x == t.entries[list[i][j]]
              IN  /\ x.idx = i /\ Bucket(t, x.key) = i
                  /\ x.prev = IF j = 1 THEN Null ELSE list[i][j - 1]
  <2>1. /\ list[i][j] \in Range(V) /\ t.entries[list[i][j]].idx = i
        /\ t.entries[list[i][j]].prev = IF j = 1 THEN Null ELSE list[i][j - 1]
    <3> DEFINE Q == list[i]
    <3>1. i \in 0 .. C - 1
      BY <1>4
    <3>2. /\ DOMAIN Q = 1 .. Len(Q)
          /\ \A m \in 1 .. Len(Q) :
               /\ Q[m] \in Range(V) /\ t.entries[Q[m]].idx = i
               /\ t.entries[Q[m]].prev = IF m = 1 THEN Null ELSE Q[m - 1]
      BY <3>1, <1>6
    <3>3. j \in DOMAIN Q
      OBVIOUS
    <3> HIDE DEF Q
    <3>4. /\ Q[j] \in Range(V) /\ t.entries[Q[j]].idx = i
          /\ t.entries[Q[j]].prev = IF j = 1 THEN Null ELSE Q[j - 1]
      BY <3>2, <3>3
    <3> QED BY <3>4 DEF Q
  <2> QED BY <2>1, <1>2 DEF Settled
<1>15. ListsHoldTogether
  BY <1>9, <1>10, <1>11, <1>12, <1>13, <1>14, Zenon DEF ListsHoldTogether, list, free, used
<1> QED BY <1>15

(* A table in order is in order after a value was put over another. *)
LEMMA ValueInOrder ==
  ASSUME NEW t, NEW V, NEW F, InOrder(t, V, F), NEW e \in Range(V), NEW value \in Values
  PROVE  LET u == [t EXCEPT !.entries[e].value = value]
         IN  /\ InOrder(u, V, F) /\ u.entries[e].value = value /\ u.size = t.size
             /\ \A x \in Range(V) : /\ u.entries[x].key = t.entries[x].key
                                    /\ x # e => u.entries[x].value = t.entries[x].value
<1> DEFINE u == WithValue(t, e, value)
<1>1. Shape(t, V, F) /\ Settled(t, V)
  BY DEF InOrder
<1>2. /\ Shape(u, V, F) /\ Capacity(u) = Capacity(t) /\ u.entries[e].value = value
      /\ \A x \in 1 .. Len(t.entries) :
                  /\ u.entries[x].key = t.entries[x].key /\ u.entries[x].idx = t.entries[x].idx
                  /\ x # e => u.entries[x].value = t.entries[x].value
  BY <1>1, ValueSet
<1> HIDE DEF u
<1>3. Range(V) \subseteq 1 .. Len(t.entries)
  BY <1>1, LinksIn
<1>4. Settled(u, V)
  BY <1>1, <1>2, <1>3 DEF Settled, Bucket
<1>5. u.size = t.size
  BY <1>1, <1>2, ShapeParts
<1> QED BY <1>2, <1>3, <1>4, <1>5 DEF InOrder, u, WithValue

(* A search that finds an entry finds one of the lists, with the key it was *)
(* for.                                                                     *)
LEMMA FoundEntry ==
  ASSUME NEW V, NEW F, InOrder(table, V, F), NEW key \in Keys, GetEntry(table, key) # Null
  PROVE  \E j \in 1 .. Len(V) : GetEntry(table, key) = V[j] /\ table.entries[V[j]].key = key
BY GetEntryIs DEF InOrder

(* The entry at an index is the one at that place of the lists. *)
LEMMA IndexedEntry ==
  ASSUME NEW V, NEW F, InOrder(table, V, F), NEW n \in Nat
  PROVE  EntryAtIndex(table, n) = IF n < Len(V) THEN V[n + 1] ELSE Null
BY VisitedIs DEF InOrder, EntryAtIndex

(* Removing an entry and freeing the copy of its key keeps the inductive    *)
(* invariant.                                                               *)
LEMMA DropKeepsInv ==
  ASSUME Inv, NEW V, NEW F, InOrder(table, V, F), NEW p \in 1 .. Len(V), Drop(V[p])
  PROVE  Inv'
<1>1. table' = Removed(table, V[p]) /\ copies' = copies - 1
  BY DEF Drop
<1>2. (\E G : InOrder(table', Cut(V, p), G)) /\ table'.size = table.size - 1
  BY <1>1, RemovedInOrder
<1>3. HashOK(table')
  BY <1>2, OrderIsOK
<1> QED BY <1>1, <1>2, <1>3 DEF Inv

(* Every call of the map keeps the inductive invariant, those that fail for *)
(* want of memory too.                                                      *)
LEMMA InvInductive ==
  ASSUME Inv, [Next]_vars
  PROVE  Inv'
<1>1. PICK V, F : InOrder(table, V, F)
  BY OrderIsOK DEF Inv
<1>2. table \in Tables /\ Strung(table, V) /\ copies = table.size /\ table.size = Len(V) /\ Len(V) \in Nat
      /\ DOMAIN V = 1 .. Len(V)
  BY <1>1, ShapeParts, StrungParts DEF Inv, InOrder
<1>3. ASSUME NEW key \in Keys, NEW value \in Values, PutNew(key, value) PROVE Inv'
  <2>1. Added(table, table', V, key, value)
    BY <1>1, <1>3, PutNewAdds
  <2>2. HashOK(table') /\ table'.size = table.size + 1
    BY <2>1, OrderIsOK DEF Added
  <2> QED BY <2>2, <1>2, <1>3 DEF Inv, PutNew
<1>4. ASSUME NEW key \in Keys, NEW value \in Values, PutOver(key, value) PROVE Inv'
  <2>1. PICK j \in 1 .. Len(V) : GetEntry(table, key) = V[j]
    BY <1>1, <1>4, FoundEntry DEF PutOver
  <2> DEFINE e == V[j]
  <2>2. e \in Range(V)
    BY <1>2 DEF Range
  <2>3. table' = [table EXCEPT !.entries[e].value = value] /\ copies' = copies
    BY <1>4, <2>1 DEF PutOver
  <2> HIDE DEF e
  <2>4. InOrder(table', V, F) /\ table'.size = table.size
    BY <2>2, <2>3, <1>1, ValueInOrder
  <2> QED BY <2>3, <2>4, <1>2, OrderIsOK DEF Inv
<1>5. ASSUME NEW key \in Keys, PutFails(key) PROVE Inv'
  <2>1. Regrown(table, Grown, V, F)
    BY <1>1, GrownIs
  <2>2. table' = table \/ table' = Grown
    BY <1>5 DEF PutFails
  <2>3. HashOK(Grown) /\ Grown.size = table.size
    BY <2>1, OrderIsOK DEF Regrown, InOrder
  <2> QED BY <2>2, <2>3, <1>2, <1>5 DEF Inv, PutFails
<1>6. ASSUME NEW key \in Keys, RemoveKey(key) PROVE Inv'
  <2>1. CASE GetEntry(table, key) # Null
    <3>1. PICK j \in 1 .. Len(V) : GetEntry(table, key) = V[j]
      BY <2>1, <1>1, FoundEntry
    <3>2. Drop(V[j])
      BY <2>1, <3>1, <1>6 DEF RemoveKey
    <3> QED BY <3>2, <1>1, DropKeepsInv
  <2>2. CASE GetEntry(table, key) = Null
    BY <2>2, <1>6 DEF RemoveKey, Answers, Inv
  <2> QED BY <2>1, <2>2
<1>7. ASSUME NEW n \in Nat, RemoveAtIndex(n) PROVE Inv'
  <2>1. CASE EntryAtIndex(table, n) # Null
    <3>1. n < Len(V) /\ EntryAtIndex(table, n) = V[n + 1]
      BY <2>1, <1>1, IndexedEntry
    <3>2. Drop(V[n + 1])
      BY <2>1, <3>1, <1>7 DEF RemoveAtIndex
    <3>3. n + 1 \in 1 .. Len(V)
      BY <3>1, <1>2
    <3> QED BY <3>2, <3>3, <1>1, DropKeepsInv
  <2>2. CASE EntryAtIndex(table, n) = Null
    BY <2>2, <1>7 DEF RemoveAtIndex, Answers, Inv
  <2> QED BY <2>1, <2>2
<1>8. ASSUME RemoveAll PROVE Inv'
  <2>1. table' = Emptied(table).t /\ copies' = copies - Emptied(table).freed
    BY <1>8 DEF RemoveAll
  <2>2. Emptied(table).freed = Len(V)
    BY <1>1, EmptiedIs DEF InOrder
  <2>3. PICK W, G : InOrder(table', W, G) /\ Len(W) = 0
    BY <1>1, <2>1, EmptyInOrder
  <2>4. table'.size = 0 /\ copies' = 0
    BY <2>1, <2>2, <2>3, <1>2, ShapeParts DEF InOrder
  <2> QED BY <2>3, <2>4, OrderIsOK DEF Inv
<1>9. ASSUME UNCHANGED <<table, copies>> PROVE Inv'
  BY <1>9 DEF Inv
<1>10. ASSUME Next PROVE Inv'
  <2>1. CASE \E key \in Keys, value \in Values : PutNew(key, value) \/ PutOver(key, value)
    BY <2>1, <1>3, <1>4
  <2>2. CASE \E key \in Keys : PutFails(key) \/ RemoveKey(key) \/ Get(key)
    BY <2>2, <1>5, <1>6, <1>9 DEF Get, Answers
  <2>3. CASE \E n \in 0 .. Cardinality(Keys) : RemoveAtIndex(n) \/ GetKeyAtIndex(n) \/ GetValueAtIndex(n)
    <3>1. PICK n \in 0 .. Cardinality(Keys) : RemoveAtIndex(n) \/ GetKeyAtIndex(n) \/ GetValueAtIndex(n)
      BY <2>3
    <3>2. n \in Nat
      OBVIOUS
    <3> QED BY <3>1, <3>2, <1>7, <1>9 DEF GetKeyAtIndex, GetValueAtIndex, Answers
  <2>4. CASE RemoveAll \/ GetSize
    BY <2>4, <1>8, <1>9 DEF GetSize, Answers
  <2> QED BY <2>1, <2>2, <2>3, <2>4, <1>10 DEF Next
<1> QED BY <1>9, <1>10 DEF vars

(* A new map satisfies the inductive invariant. *)
LEMMA InvInit ==
  ASSUME Init
  PROVE  Inv
<1>1. PICK c \in Capacities : table = Created(c)
  BY DEF Init
<1>2. HashOK(table)
  BY <1>1, CreatedInOrder, OrderIsOK
<1>3. table.size = 0
  BY <1>1 DEF Created
<1> QED BY <1>2, <1>3 DEF Init, Inv

(* Whatever is called in whatever order, the lists of the table are in      *)
(* order and as many copies of keys are allocated as it holds: the          *)
(* inductive invariant, for all keys, hash functions, load factors, block   *)
(* sizes and capacities.                                                    *)
THEOREM HashInvariant == Spec => []Inv
<1>1. Init => Inv
  BY InvInit
<1>2. Inv /\ [Next]_vars => Inv'
  BY InvInductive
<1> QED BY <1>1, <1>2, PTL DEF Spec

(* For every hash function and all sizes: every entry is in exactly one     *)
(* list, of its bucket or the free ones, linked both ways, where its hash   *)
(* code says; growing in place loses none and failing puts leak no key      *)
(* (phashtable.c:190, 274-335, 368-415, HashMapImpl.c:93).                  *)
THEOREM TableHoldsTogether == Spec => []ListsHoldTogether
<1>1. Inv => ListsHoldTogether
  BY ListsOfOrder
<1> QED BY <1>1, HashInvariant, PTL

-----------------------------------------------------------------------------
(* The map is the mapping it promises to be. *)

ContentsOf(t) == [k \in {key \in Keys : GetEntry(t, key) # Null} |-> t.entries[GetEntry(t, k)].value]

OrderOf(t) == LET visited == Visited(t) IN [i \in DOMAIN visited |-> t.entries[visited[i]].key]

(* The mapping and the listing of a table are made of that table only. *)
LEMMA Views ==
  /\ Contents = ContentsOf(table) /\ Order = OrderOf(table)
  /\ Contents' = ContentsOf(table') /\ Order' = OrderOf(table')
BY DEF Contents, ContentsOf, Order, OrderOf

(* The mapping and the listing of a table in order, in terms of its entries. *)
Presents(c, o, t, V) ==
  /\ o = [j \in 1 .. Len(V) |-> t.entries[V[j]].key]
  /\ DOMAIN c = {t.entries[x].key : x \in Range(V)} /\ c = [k \in DOMAIN c |-> c[k]]
  /\ \A x \in Range(V) : c[t.entries[x].key] = t.entries[x].value

(* The mapping of a table in order has the keys of its entries, with their  *)
(* values, and the indices list them in the order of the lists.             *)
LEMMA PresentsIs ==
  ASSUME NEW t, NEW V, NEW F, InOrder(t, V, F)
  PROVE  Presents(ContentsOf(t), OrderOf(t), t, V)
<1> DEFINE c == ContentsOf(t)
           o == OrderOf(t)
           D == {key \in Keys : GetEntry(t, key) # Null}
<1>1. Shape(t, V, F) /\ Settled(t, V)
  BY DEF InOrder
<1>2. t \in Tables /\ Strung(t, V) /\ Holds(t, V)
  BY <1>1, ShapeParts
<1>3. DOMAIN V = 1 .. Len(V) /\ \A j \in 1 .. Len(V) : V[j] \in Range(V) /\ V[j] # Null
  BY <1>2, StrungParts DEF Range
<1>4. \A key \in Keys : \/ /\ GetEntry(t, key) = Null
                           /\ \A j \in 1 .. Len(V) : t.entries[V[j]].key # key
                        \/ \E j \in 1 .. Len(V) : /\ GetEntry(t, key) = V[j] /\ V[j] # Null
                                                  /\ t.entries[V[j]].key = key
  BY <1>1, GetEntryIs
<1>5. \A x \in Range(V) : \E j \in 1 .. Len(V) : x = V[j]
  BY <1>3 DEF Range
<1>6. ASSUME NEW x \in Range(V) PROVE t.entries[x].key \in D /\ GetEntry(t, t.entries[x].key) = x
  <2>1. t.entries[x].key \in Keys /\ \A y \in Range(V) : t.entries[y].key = t.entries[x].key => y = x
    BY <1>2 DEF Holds
  <2>2. PICK k \in 1 .. Len(V) : x = V[k]
    BY <1>5
  <2>3. PICK j \in 1 .. Len(V) : /\ GetEntry(t, t.entries[x].key) = V[j] /\ V[j] # Null
                                 /\ t.entries[V[j]].key = t.entries[x].key
    BY <2>1, <2>2, <1>4
  <2>4. V[j] = x
    BY <2>1, <2>3, <1>3
  <2> QED BY <2>1, <2>3, <2>4
<1>7. D = {t.entries[x].key : x \in Range(V)}
  <2>1. ASSUME NEW key \in D PROVE key \in {t.entries[x].key : x \in Range(V)}
    BY <1>3, <1>4
  <2> QED BY <2>1, <1>6
<1>8. DOMAIN c = D /\ \A k \in D : c[k] = t.entries[GetEntry(t, k)].value
  BY DEF ContentsOf
<1>9. c = [k \in DOMAIN c |-> c[k]]
  BY DEF ContentsOf
<1>10. o = [j \in 1 .. Len(V) |-> t.entries[V[j]].key]
  BY <1>1, <1>3, VisitedIs DEF OrderOf
<1> HIDE DEF c, o, D
<1>11. Presents(c, o, t, V)
  BY <1>6, <1>7, <1>8, <1>9, <1>10 DEF Presents
<1> QED BY <1>11 DEF c, o

(* The indices of a table in order list every key of its mapping once. *)
LEMMA OrderLists ==
  ASSUME NEW t, NEW V, NEW F, InOrder(t, V, F), NEW c, NEW o, Presents(c, o, t, V)
  PROVE  /\ o \in Seq(Keys) /\ Len(o) = Len(V) /\ DOMAIN o = 1 .. Len(V)
         /\ \A j, k \in 1 .. Len(V) : o[j] = o[k] => j = k
         /\ Mapping!IsInjective(o) /\ Mapping!Range(o) = DOMAIN c
<1>1. Shape(t, V, F)
  BY DEF InOrder
<1>2. t \in Tables /\ Strung(t, V) /\ Holds(t, V) /\ Len(V) \in Nat
  BY <1>1, ShapeParts
<1>3. /\ DOMAIN V = 1 .. Len(V) /\ \A j \in 1 .. Len(V) : V[j] \in Range(V)
      /\ \A x \in Range(V) : \E j \in 1 .. Len(V) : x = V[j]
      /\ \A j, k \in 1 .. Len(V) : V[j] = V[k] => j = k
  BY <1>2, StrungParts DEF Range
<1>4. /\ o = [j \in 1 .. Len(V) |-> t.entries[V[j]].key]
      /\ DOMAIN o = 1 .. Len(V) /\ \A j \in 1 .. Len(V) : o[j] = t.entries[V[j]].key
  BY DEF Presents
<1>5. \A j \in 1 .. Len(V) : o[j] \in Keys
  BY <1>2, <1>3, <1>4 DEF Holds
<1>6. \A j, k \in 1 .. Len(V) : o[j] = o[k] => j = k
  BY <1>2, <1>3, <1>4 DEF Holds
<1>7. o \in Seq(Keys) /\ Len(o) = Len(V)
  <2>1. o \in [1 .. Len(V) -> Keys]
    BY <1>4, <1>5
  <2> QED BY <2>1, <1>2, FunSeq
<1>8. Mapping!IsInjective(o)
  BY <1>4, <1>6 DEF Mapping!IsInjective
<1>9. Mapping!Range(o) = DOMAIN c
  <2>1. DOMAIN c = {t.entries[x].key : x \in Range(V)}
    BY DEF Presents
  <2> QED BY <2>1, <1>3, <1>4 DEF Mapping!Range
<1> QED BY <1>4, <1>6, <1>7, <1>8, <1>9

(* A list without the element at an index: those after it move up by one. *)
LEMMA RemoveAtIs ==
  ASSUME NEW S, NEW o \in Seq(S), NEW p \in 1 .. Len(o)
  PROVE  Mapping!RemoveAt(o, p) = [j \in 1 .. Len(o) - 1 |-> IF j < p THEN o[j] ELSE o[j + 1]]
<1> DEFINE a == SubSeq(o, 1, p - 1)
           b == SubSeq(o, p + 1, Len(o))
           r == a \o b
           n == Len(o)
<1>1. n \in Nat /\ p \in 1 .. n
  OBVIOUS
<1>2. a \in Seq(S) /\ Len(a) = p - 1 /\ \A j \in 1 .. p - 1 : a[j] = o[j]
  OBVIOUS
<1>3. b \in Seq(S) /\ Len(b) = n - p /\ \A j \in 1 .. n - p : b[j] = o[p + j]
  OBVIOUS
<1>4. Mapping!RemoveAt(o, p) = r
  BY DEF Mapping!RemoveAt
<1> HIDE DEF a, b, n
<1>5. /\ Len(r) = n - 1 /\ r \in Seq(S)
      /\ \A j \in 1 .. n - 1 : r[j] = IF j <= p - 1 THEN a[j] ELSE b[j - (p - 1)]
  <2>1. /\ Len(r) = Len(a) + Len(b) /\ r \in Seq(S)
        /\ \A j \in 1 .. Len(a) + Len(b) : r[j] = IF j <= Len(a) THEN a[j] ELSE b[j - Len(a)]
    BY <1>2, <1>3, ConcatProperties
  <2>2. Len(a) + Len(b) = n - 1
    BY <1>1, <1>2, <1>3
  <2> QED BY <2>1, <2>2, <1>2
<1> HIDE DEF r
<1>6. DOMAIN r = 1 .. n - 1 /\ r = [j \in 1 .. n - 1 |-> r[j]]
  BY <1>1, <1>5
<1>7. ASSUME NEW j \in 1 .. n - 1 PROVE r[j] = IF j < p THEN o[j] ELSE o[j + 1]
  <2>1. CASE j < p
    BY <2>1, <1>1, <1>2, <1>5
  <2>2. CASE ~ (j < p)
    <3>1. r[j] = b[j - (p - 1)] /\ j - (p - 1) \in 1 .. n - p /\ p + (j - (p - 1)) = j + 1
      BY <2>2, <1>1, <1>5
    <3> QED BY <3>1, <2>2, <1>3
  <2> QED BY <2>1, <2>2
<1>8. r = [j \in 1 .. n - 1 |-> IF j < p THEN o[j] ELSE o[j + 1]]
  BY <1>6, <1>7
<1> QED BY <1>4, <1>8 DEF n

(* Tables that hold the same keys and values are the same mapping, however  *)
(* their lists run.                                                         *)
LEMMA SameContents ==
  ASSUME NEW t, NEW V, NEW c, NEW o, Presents(c, o, t, V),
         NEW u, NEW W, NEW d, NEW p, Presents(d, p, u, W), Range(W) = Range(V),
         \A x \in Range(V) : u.entries[x].key = t.entries[x].key /\ u.entries[x].value = t.entries[x].value
  PROVE  d = c
<1>1. /\ DOMAIN c = {t.entries[x].key : x \in Range(V)} /\ c = [k \in DOMAIN c |-> c[k]]
      /\ \A x \in Range(V) : c[t.entries[x].key] = t.entries[x].value
  BY DEF Presents
<1>2. /\ DOMAIN d = {u.entries[x].key : x \in Range(V)} /\ d = [k \in DOMAIN d |-> d[k]]
      /\ \A x \in Range(V) : d[u.entries[x].key] = u.entries[x].value
  BY DEF Presents
<1>3. DOMAIN d = DOMAIN c
  BY <1>1, <1>2
<1>4. \A k \in DOMAIN c : d[k] = c[k]
  BY <1>1, <1>2
<1> QED BY <1>1, <1>2, <1>3, <1>4

(* A new map is the empty mapping. *)
LEMMA MapsInit ==
  ASSUME Init
  PROVE  Mapping!Init
<1> DEFINE E == << >>
<1>1. PICK a \in Capacities : table = Created(a)
  BY DEF Init
<1>2. InOrder(table, E, E)
  BY <1>1, CreatedInOrder
<1>3. Presents(Contents, Order, table, E)
  BY <1>2, PresentsIs, Views
<1>4. Range(E) = {} /\ Len(E) = 0
  BY DEF Range
<1> HIDE DEF E
<1>5. DOMAIN Contents = {} /\ Contents = [k \in DOMAIN Contents |-> Contents[k]]
  BY <1>3, <1>4 DEF Presents
<1>6. Contents = [k \in {} |-> NoValue]
  BY <1>5
<1>7. Order = << >>
  <2>1. Order \in Seq(Keys) /\ Len(Order) = 0
    BY <1>2, <1>3, <1>4, OrderLists
  <2> QED BY <2>1
<1> QED BY <1>6, <1>7 DEF Init, Mapping!Init

(* A put of a new key adds it to the mapping and to the indices. *)
LEMMA MapsPutNew ==
  ASSUME NEW V, NEW F, InOrder(table, V, F), NEW key \in Keys, NEW value \in Values,
         PutNew(key, value)
  PROVE  Mapping!PutNew(key, value)
<1>1. Presents(Contents, Order, table, V)
  BY PresentsIs, Views
<1>2. /\ \A x \in Range(V) : table.entries[x].key # key
      /\ Added(table, table', V, key, value)
  BY PutNewAdds
<1>3. PICK W, G, e :
        /\ InOrder(table', W, G) /\ e \notin Range(V) /\ Range(W) = Range(V) \cup {e}
        /\ table'.entries[e].key = key /\ table'.entries[e].value = value
        /\ \A x \in Range(V) : /\ table'.entries[x].key = table.entries[x].key
                               /\ table'.entries[x].value = table.entries[x].value
  BY <1>2 DEF Added
<1>4. Presents(Contents', Order', table', W)
  BY <1>3, PresentsIs, Views
<1>5. key \notin DOMAIN Contents
  BY <1>1, <1>2 DEF Presents
<1> DEFINE c == Contents
           d == Contents'
<1>6. /\ DOMAIN c = {table.entries[x].key : x \in Range(V)}
      /\ \A x \in Range(V) : c[table.entries[x].key] = table.entries[x].value
  BY <1>1 DEF Presents
<1>7. /\ DOMAIN d = {table'.entries[x].key : x \in Range(W)} /\ d = [k \in DOMAIN d |-> d[k]]
      /\ \A x \in Range(W) : d[table'.entries[x].key] = table'.entries[x].value
  BY <1>4 DEF Presents
<1> HIDE DEF c, d
<1>8. DOMAIN d = DOMAIN c \cup {key}
  BY <1>3, <1>6, <1>7
<1>9. d[key] = value /\ \A k \in DOMAIN c : d[k] = c[k]
  BY <1>3, <1>6, <1>7
<1>10. d = [k \in DOMAIN c \cup {key} |-> IF k = key THEN value ELSE c[k]]
  BY <1>7, <1>8, <1>9
<1>11. Mapping!IsInjective(Order') /\ Mapping!Range(Order') = DOMAIN d
  BY <1>3, <1>4, OrderLists DEF d
<1>12. result' = [rc |-> "SUCCESS", value |-> Untouched]
  BY DEF PutNew, Returns
<1> QED BY <1>5, <1>10, <1>11, <1>12 DEF Mapping!PutNew, Mapping!Returns, c, d

(* A put of a key that is there changes its value and no index. *)
LEMMA MapsPutOver ==
  ASSUME NEW V, NEW F, InOrder(table, V, F), NEW key \in Keys, NEW value \in Values,
         PutOver(key, value)
  PROVE  Mapping!PutOver(key, value)
<1>1. Presents(Contents, Order, table, V)
  BY PresentsIs, Views
<1>2. PICK j \in 1 .. Len(V) : GetEntry(table, key) = V[j] /\ table.entries[V[j]].key = key
  BY FoundEntry DEF PutOver
<1> DEFINE e == V[j]
<1>3. e \in Range(V) /\ \A k \in 1 .. Len(V) : V[k] \in Range(V)
  <2>1. table \in Tables /\ Strung(table, V)
    BY ShapeParts DEF InOrder
  <2> QED BY <2>1, StrungParts DEF Range
<1>4. table' = [table EXCEPT !.entries[e].value = value]
  BY <1>2 DEF PutOver
<1> HIDE DEF e
<1>5. /\ InOrder(table', V, F) /\ table'.entries[e].value = value
      /\ \A x \in Range(V) : /\ table'.entries[x].key = table.entries[x].key
                             /\ x # e => table'.entries[x].value = table.entries[x].value
  BY <1>3, <1>4, ValueInOrder
<1>6. Presents(Contents', Order', table', V)
  BY <1>5, PresentsIs, Views
<1> DEFINE c == Contents
           d == Contents'
<1>7. /\ DOMAIN c = {table.entries[x].key : x \in Range(V)}
      /\ \A x \in Range(V) : c[table.entries[x].key] = table.entries[x].value
  BY <1>1 DEF Presents
<1>8. /\ DOMAIN d = {table'.entries[x].key : x \in Range(V)} /\ d = [k \in DOMAIN d |-> d[k]]
      /\ \A x \in Range(V) : d[table'.entries[x].key] = table'.entries[x].value
  BY <1>6 DEF Presents
<1>9. Order' = Order
  BY <1>1, <1>3, <1>5, <1>6 DEF Presents
<1> HIDE DEF c, d
<1>10. table.entries[e].key = key
  BY <1>2 DEF e
<1>11. DOMAIN d = DOMAIN c /\ key \in DOMAIN c
  BY <1>3, <1>5, <1>7, <1>8, <1>10
<1>12. d[key] = value /\ \A k \in DOMAIN c : k # key => d[k] = c[k]
  BY <1>3, <1>5, <1>7, <1>8, <1>10
<1>13. c = [k \in DOMAIN c |-> c[k]]
  BY <1>1 DEF Presents, c
<1>14. d = [c EXCEPT ![key] = value]
  BY <1>8, <1>11, <1>12, <1>13
<1>15. result' = [rc |-> "SUCCESS", value |-> Untouched]
  BY DEF PutOver, Returns
<1> QED BY <1>9, <1>11, <1>14, <1>15 DEF Mapping!PutOver, Mapping!Returns, c, d

(* A put that fails for want of memory changes the mapping nowhere, though  *)
(* the table may have grown and the indices changed.                        *)
LEMMA MapsPutFails ==
  ASSUME NEW V, NEW F, InOrder(table, V, F), NEW key \in Keys, PutFails(key)
  PROVE  Mapping!PutFails(key)
<1>1. Presents(Contents, Order, table, V)
  BY PresentsIs, Views
<1>2. \E W : /\ InOrder(table', W, F) /\ Range(W) = Range(V)
             /\ \A x \in Range(V) : /\ table'.entries[x].key = table.entries[x].key
                                    /\ table'.entries[x].value = table.entries[x].value
  <2>1. CASE table' = table
    BY <2>1
  <2>2. CASE table' = Grown
    <3>1. Regrown(table, Grown, V, F)
      BY GrownIs
    <3>2. Range(V) \subseteq 1 .. Len(table.entries)
      BY LinksIn DEF InOrder
    <3> QED BY <2>2, <3>1, <3>2 DEF Regrown, InOrder
  <2> QED BY <2>1, <2>2 DEF PutFails
<1>3. PICK W : /\ InOrder(table', W, F) /\ Range(W) = Range(V)
               /\ \A x \in Range(V) : /\ table'.entries[x].key = table.entries[x].key
                                      /\ table'.entries[x].value = table.entries[x].value
  BY <1>2
<1>4. Presents(Contents', Order', table', W)
  BY <1>3, PresentsIs, Views
<1>5. Contents' = Contents
  BY <1>1, <1>3, <1>4, SameContents
<1>6. Mapping!IsInjective(Order') /\ Mapping!Range(Order') = DOMAIN (Contents')
  BY <1>3, <1>4, OrderLists
<1>7. key \notin DOMAIN Contents
  BY DEF Contents, PutFails
<1>8. result' = [rc |-> "OUT_OF_MEMORY", value |-> Untouched]
  BY DEF PutFails, Returns
<1> QED BY <1>5, <1>6, <1>7, <1>8 DEF Mapping!PutFails, Mapping!Returns

(* Removing an entry takes its key from the mapping, and the keys after it  *)
(* move up by one index.                                                    *)
LEMMA MapsDrop ==
  ASSUME NEW V, NEW F, InOrder(table, V, F), NEW p \in 1 .. Len(V), Drop(V[p])
  PROVE  /\ Order[p] = table.entries[V[p]].key /\ p \in DOMAIN Order
         /\ Mapping!Without(Order[p])
<1>1. Presents(Contents, Order, table, V)
  BY PresentsIs, Views
<1> DEFINE W == Cut(V, p)
           o == Order
           q == Order'
           c == Contents
           d == Contents'
           key == Order[p]
<1>2. table' = Removed(table, V[p]) /\ Returns("SUCCESS", Untouched)
  BY DEF Drop
<1>3. PICK G : InOrder(table', W, G)
  BY <1>2, RemovedInOrder
<1>4. /\ Range(W) = Range(V) \ {V[p]}
      /\ \A x \in Range(V) \ {V[p]} : Keeps(table, table', x)
  BY <1>2, RemovedInOrder
<1>5. Presents(d, q, table', W)
  BY <1>3, PresentsIs, Views
<1>6. table \in Tables /\ Strung(table, V) /\ Holds(table, V) /\ Len(V) \in Nat
  BY ShapeParts DEF InOrder
<1>7. /\ DOMAIN V = 1 .. Len(V) /\ V \in Seq(1 .. Len(table.entries)) /\ Len(table.entries) \in Nat
      /\ \A j \in 1 .. Len(V) : V[j] \in Range(V)
      /\ \A j, k \in 1 .. Len(V) : V[j] = V[k] => j = k
  BY <1>6, StrungParts, TableParts DEF Range
<1>8. /\ Len(W) = Len(V) - 1
      /\ \A j \in 1 .. Len(V) - 1 : W[j] = IF j < p THEN V[j] ELSE V[j + 1]
  <2> DEFINE N == Len(table.entries)
  <2>1. N \in Nat /\ V \in Seq(1 .. N) /\ \A j, k \in 1 .. Len(V) : V[j] = V[k] => j = k
    BY <1>7
  <2> HIDE DEF N, W
  <2> QED BY <2>1, CutFacts DEF W
<1> HIDE DEF W, c, d, o, q
<1>9. o = [j \in 1 .. Len(V) |-> table.entries[V[j]].key]
  BY <1>1 DEF Presents, o
<1>10. q = [j \in 1 .. Len(V) - 1 |-> table'.entries[W[j]].key]
  BY <1>5, <1>8 DEF Presents
<1>11. ASSUME NEW j \in 1 .. Len(V) - 1
       PROVE  table'.entries[W[j]].key = IF j < p THEN o[j] ELSE o[j + 1]
  <2> DEFINE i == IF j < p THEN j ELSE j + 1
  <2>1. i \in 1 .. Len(V) /\ i # p
    BY <1>6
  <2>2. W[j] = V[i]
    BY <1>8
  <2>3. V[i] \in Range(V) \ {V[p]}
    BY <2>1, <1>7
  <2>4. table'.entries[V[i]].key = table.entries[V[i]].key
    BY <2>3, <1>4 DEF Keeps
  <2>5. o[i] = table.entries[V[i]].key
    BY <2>1, <1>9
  <2> QED BY <2>2, <2>4, <2>5
<1>12. q = [j \in 1 .. Len(V) - 1 |-> IF j < p THEN o[j] ELSE o[j + 1]]
  BY <1>10, <1>11
<1>13. o \in Seq(Keys) /\ Len(o) = Len(V) /\ DOMAIN o = 1 .. Len(V)
  BY <1>1, OrderLists DEF o
<1>14. q = Mapping!RemoveAt(o, p)
  BY <1>12, <1>13, RemoveAtIs
<1>15. /\ DOMAIN c = {table.entries[x].key : x \in Range(V)}
       /\ \A x \in Range(V) : c[table.entries[x].key] = table.entries[x].value
  BY <1>1 DEF Presents, c
<1>16. /\ DOMAIN d = {table'.entries[x].key : x \in Range(W)} /\ d = [k \in DOMAIN d |-> d[k]]
       /\ \A x \in Range(W) : d[table'.entries[x].key] = table'.entries[x].value
  BY <1>5 DEF Presents
<1>17. o[p] = table.entries[V[p]].key
  BY <1>9
<1>18. \A x \in Range(V) \ {V[p]} : table.entries[x].key # o[p]
  BY <1>6, <1>7, <1>17 DEF Holds
<1>19. \A x \in Range(W) : /\ x \in Range(V) /\ x # V[p] /\ table'.entries[x].key = table.entries[x].key
                           /\ table'.entries[x].value = table.entries[x].value
  BY <1>4 DEF Keeps
<1>20. DOMAIN d = DOMAIN c \ {o[p]}
  BY <1>4, <1>15, <1>16, <1>17, <1>18, <1>19
<1>21. \A k \in DOMAIN d : d[k] = c[k]
  BY <1>15, <1>16, <1>19
<1>22. d = [k \in DOMAIN c \ {o[p]} |-> c[k]]
  BY <1>16, <1>20, <1>21
<1>23. Mapping!Without(o[p])
  BY <1>2, <1>13, <1>14, <1>22 DEF Mapping!Without, Mapping!Returns, Returns, c, d, o, q
<1> QED BY <1>13, <1>17, <1>23 DEF o

(* A call that changes nothing of the table changes nothing of the mapping. *)
LEMMA MapsAnswers ==
  ASSUME NEW rc, NEW value, Answers(rc, value)
  PROVE  Mapping!Answers(rc, value)
<1>1. table' = table /\ result' = [rc |-> rc, value |-> value]
  BY DEF Answers, Returns
<1>2. Contents' = Contents /\ Order' = Order
  BY <1>1, Views
<1> QED BY <1>1, <1>2 DEF Mapping!Answers, Mapping!Returns

(* Removing a key takes it from the mapping, or says that it is not there. *)
LEMMA MapsRemoveKey ==
  ASSUME NEW V, NEW F, InOrder(table, V, F), NEW key \in Keys, RemoveKey(key)
  PROVE  Mapping!RemoveKey(key)
<1>1. CASE GetEntry(table, key) # Null
  <2>1. PICK j \in 1 .. Len(V) : GetEntry(table, key) = V[j] /\ table.entries[V[j]].key = key
    BY <1>1, FoundEntry
  <2>2. Drop(V[j])
    BY <1>1, <2>1 DEF RemoveKey
  <2>3. Mapping!Without(key)
    BY <2>1, <2>2, MapsDrop
  <2>4. key \in DOMAIN Contents
    BY <1>1 DEF Contents
  <2> QED BY <2>3, <2>4 DEF Mapping!RemoveKey
<1>2. CASE GetEntry(table, key) = Null
  <2>1. key \notin DOMAIN Contents
    BY <1>2 DEF Contents
  <2>2. Mapping!Answers("NO_MATCH_ERROR", Untouched)
    BY <1>2, MapsAnswers DEF RemoveKey
  <2> QED BY <2>1, <2>2 DEF Mapping!RemoveKey
<1> QED BY <1>1, <1>2

(* A search answers with the value of the mapping, or says that there is    *)
(* none.                                                                    *)
LEMMA MapsGet ==
  ASSUME NEW key \in Keys, Get(key)
  PROVE  Mapping!Get(key)
<1>1. CASE GetEntry(table, key) # Null
  <2>1. key \in DOMAIN Contents /\ Contents[key] = table.entries[GetEntry(table, key)].value
    BY <1>1 DEF Contents
  <2>2. Mapping!Answers("SUCCESS", Contents[key])
    BY <1>1, <2>1, MapsAnswers DEF Get
  <2> QED BY <2>1, <2>2 DEF Mapping!Get
<1>2. CASE GetEntry(table, key) = Null
  <2>1. key \notin DOMAIN Contents
    BY <1>2 DEF Contents
  <2>2. Mapping!Answers("NO_MATCH_ERROR", Untouched)
    BY <1>2, MapsAnswers DEF Get
  <2> QED BY <2>1, <2>2 DEF Mapping!Get, Mapping!Misses
<1> QED BY <1>1, <1>2

(* The entry at an index holds the key listed there, and its value; past    *)
(* the last index there is none.                                            *)
LEMMA IndexedKey ==
  ASSUME NEW V, NEW F, InOrder(table, V, F), NEW n \in Nat
  PROVE  \/ /\ n < Len(Order) /\ n + 1 \in 1 .. Len(V) /\ EntryAtIndex(table, n) = V[n + 1]
            /\ V[n + 1] # Null /\ Order[n + 1] = table.entries[V[n + 1]].key
            /\ Contents[Order[n + 1]] = table.entries[V[n + 1]].value
         \/ ~ (n < Len(Order)) /\ EntryAtIndex(table, n) = Null
<1>1. Presents(Contents, Order, table, V)
  BY PresentsIs, Views
<1>2. Len(Order) = Len(V)
  BY <1>1, OrderLists
<1>3. EntryAtIndex(table, n) = IF n < Len(V) THEN V[n + 1] ELSE Null
  BY IndexedEntry
<1>4. table \in Tables /\ Strung(table, V) /\ Len(V) \in Nat
  BY ShapeParts DEF InOrder
<1>5. \A j \in 1 .. Len(V) : V[j] # Null /\ V[j] \in Range(V)
  BY <1>4, StrungParts DEF Range
<1>6. CASE n < Len(V)
  <2>1. n + 1 \in 1 .. Len(V)
    BY <1>4, <1>6
  <2>2. /\ Order[n + 1] = table.entries[V[n + 1]].key
        /\ Contents[table.entries[V[n + 1]].key] = table.entries[V[n + 1]].value
    BY <2>1, <1>1, <1>5 DEF Presents
  <2> QED BY <1>2, <1>3, <1>5, <1>6, <2>1, <2>2
<1>7. CASE ~ (n < Len(V))
  BY <1>2, <1>3, <1>7
<1> QED BY <1>6, <1>7

(* The calls by index answer with, and remove, the key listed there. *)
LEMMA MapsAtIndex ==
  ASSUME NEW V, NEW F, InOrder(table, V, F), NEW n \in Nat
  PROVE  /\ RemoveAtIndex(n) => Mapping!RemoveAtIndex(n)
         /\ GetKeyAtIndex(n) => Mapping!GetKeyAtIndex(n)
         /\ GetValueAtIndex(n) => Mapping!GetValueAtIndex(n)
<1>1. CASE n < Len(Order)
  <2>1. /\ n + 1 \in 1 .. Len(V) /\ EntryAtIndex(table, n) = V[n + 1]
        /\ V[n + 1] # Null /\ Order[n + 1] = table.entries[V[n + 1]].key
        /\ Contents[Order[n + 1]] = table.entries[V[n + 1]].value
    BY <1>1, IndexedKey
  <2>2. ASSUME RemoveAtIndex(n) PROVE Mapping!RemoveAtIndex(n)
    <3>1. Drop(V[n + 1])
      BY <2>1, <2>2 DEF RemoveAtIndex
    <3>2. Mapping!Without(Order[n + 1])
      BY <2>1, <3>1, MapsDrop
    <3> QED BY <3>2, <1>1 DEF Mapping!RemoveAtIndex
  <2>3. ASSUME GetKeyAtIndex(n) PROVE Mapping!GetKeyAtIndex(n)
    <3>1. Mapping!Answers("SUCCESS", Order[n + 1])
      BY <2>1, <2>3, MapsAnswers DEF GetKeyAtIndex
    <3> QED BY <3>1, <1>1 DEF Mapping!GetKeyAtIndex
  <2>4. ASSUME GetValueAtIndex(n) PROVE Mapping!GetValueAtIndex(n)
    <3>1. Mapping!Answers("SUCCESS", Contents[Order[n + 1]])
      BY <2>1, <2>4, MapsAnswers DEF GetValueAtIndex
    <3> QED BY <3>1, <1>1 DEF Mapping!GetValueAtIndex
  <2> QED BY <2>2, <2>3, <2>4
<1>2. CASE ~ (n < Len(Order))
  <2>1. EntryAtIndex(table, n) = Null
    BY <1>2, IndexedKey
  <2>2. RemoveAtIndex(n) \/ GetKeyAtIndex(n) \/ GetValueAtIndex(n)
          => Mapping!Answers("ARGUMENT_OUT_OF_BOUNDS", Untouched)
    BY <2>1, MapsAnswers DEF RemoveAtIndex, GetKeyAtIndex, GetValueAtIndex
  <2> QED BY <2>2, <1>2 DEF Mapping!RemoveAtIndex, Mapping!GetKeyAtIndex,
                               Mapping!GetValueAtIndex, Mapping!Misses
<1> QED BY <1>1, <1>2

(* Removing all leaves the empty mapping. *)
LEMMA MapsRemoveAll ==
  ASSUME NEW V, NEW F, InOrder(table, V, F), RemoveAll
  PROVE  Mapping!RemoveAll
<1>1. table' = Emptied(table).t /\ result' = [rc |-> "SUCCESS", value |-> Untouched]
  BY DEF RemoveAll, Returns
<1>2. PICK W, G : InOrder(table', W, G) /\ Len(W) = 0 /\ Range(W) = {}
  BY <1>1, EmptyInOrder
<1>3. Presents(Contents', Order', table', W)
  BY <1>2, PresentsIs, Views
<1> DEFINE d == Contents'
<1>4. DOMAIN d = {} /\ d = [k \in DOMAIN d |-> d[k]]
  BY <1>2, <1>3 DEF Presents
<1> HIDE DEF d
<1>5. d = [k \in {} |-> NoValue]
  BY <1>4
<1>6. Order' = << >>
  <2>1. Order' \in Seq(Keys) /\ Len(Order') = 0
    BY <1>2, <1>3, OrderLists
  <2> QED BY <2>1
<1> QED BY <1>1, <1>5, <1>6 DEF Mapping!RemoveAll, Mapping!Returns, d

(* The size the table keeps is the number of keys of the mapping. *)
LEMMA MapsGetSize ==
  ASSUME NEW V, NEW F, InOrder(table, V, F), GetSize
  PROVE  Mapping!GetSize
<1>1. Presents(Contents, Order, table, V)
  BY PresentsIs, Views
<1>2. /\ Order \in Seq(Keys) /\ Len(Order) = Len(V)
      /\ \A j, k \in 1 .. Len(V) : Order[j] = Order[k] => j = k
      /\ Mapping!Range(Order) = DOMAIN Contents
  BY <1>1, OrderLists
<1>3. Range(Order) = DOMAIN Contents
  BY <1>2 DEF Range, Mapping!Range
<1>4. Cardinality(DOMAIN Contents) = Len(Order)
  <2> DEFINE o == Order
  <2>1. o \in Seq(Keys) /\ (\A j, k \in 1 .. Len(o) : o[j] = o[k] => j = k) /\ Range(o) = DOMAIN Contents
    BY <1>2, <1>3
  <2> HIDE DEF o
  <2>2. Cardinality(Range(o)) = Len(o)
    BY <2>1, RangeSize
  <2> QED BY <2>1, <2>2 DEF o
<1>5. table.size = Cardinality(DOMAIN Contents)
  BY <1>2, <1>4, ShapeParts DEF InOrder
<1>6. Cardinality(DOMAIN Contents) = Mapping!Cardinality(DOMAIN Contents)
  BY Zenon DEF Cardinality, Mapping!Cardinality
<1>7. Mapping!Answers("SUCCESS", table.size)
  BY MapsAnswers DEF GetSize
<1> QED BY <1>5, <1>6, <1>7 DEF Mapping!GetSize

(* Every call of the map is the same call of the mapping.                   *)
LEMMA MapsNext ==
  ASSUME Inv, [Next]_vars
  PROVE  [Mapping!Next]_Mapping!vars
<1>1. PICK V, F : InOrder(table, V, F)
  BY OrderIsOK DEF Inv
<1>2. CASE UNCHANGED vars
  <2>1. table' = table /\ result' = result
    BY <1>2 DEF vars
  <2>2. Contents' = Contents /\ Order' = Order
    BY <2>1, Views
  <2> QED BY <2>1, <2>2 DEF Mapping!vars
<1>3. CASE \E key \in Keys, value \in Values : PutNew(key, value) \/ PutOver(key, value)
  BY <1>1, <1>3, MapsPutNew, MapsPutOver DEF Mapping!Next
<1>4. CASE \E key \in Keys : PutFails(key) \/ RemoveKey(key) \/ Get(key)
  BY <1>1, <1>4, MapsPutFails, MapsRemoveKey, MapsGet DEF Mapping!Next
<1>5. CASE \E n \in 0 .. Cardinality(Keys) : RemoveAtIndex(n) \/ GetKeyAtIndex(n) \/ GetValueAtIndex(n)
  <2>1. PICK n \in 0 .. Cardinality(Keys) : RemoveAtIndex(n) \/ GetKeyAtIndex(n) \/ GetValueAtIndex(n)
    BY <1>5
  <2>2. n \in Nat
    OBVIOUS
  <2>3. Mapping!RemoveAtIndex(n) \/ Mapping!GetKeyAtIndex(n) \/ Mapping!GetValueAtIndex(n)
    BY <1>1, <2>1, <2>2, MapsAtIndex
  <2>4. Cardinality(Keys) = Mapping!Cardinality(Keys)
    BY Zenon DEF Cardinality, Mapping!Cardinality
  <2> QED BY <2>3, <2>4 DEF Mapping!Next
<1>6. CASE RemoveAll \/ GetSize
  BY <1>1, <1>6, MapsRemoveAll, MapsGetSize DEF Mapping!Next
<1> QED BY <1>2, <1>3, <1>4, <1>5, <1>6 DEF Next

(* The hash map implements the mapping of KeyMap, for every hash function   *)
(* and all sizes: what was put is found until it is removed, a put without  *)
(* memory changes nothing, and the indices list every key once, in an order *)
(* removals do not disturb.  What a miss leaves in the caller's variable is *)
(* open there, and nothing here (HashMapImpl.c:188-199).                    *)
THEOREM TableImplementsMapping == Spec => ImplementsMapping
<1>1. Init => Mapping!Init
  BY MapsInit
<1>2. Inv /\ [Next]_vars => [Mapping!Next]_Mapping!vars
  BY MapsNext
<1> QED BY <1>1, <1>2, HashInvariant, PTL DEF Spec, ImplementsMapping, Mapping!Spec
=============================================================================
