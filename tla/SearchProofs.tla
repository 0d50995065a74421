---------------------------- MODULE SearchProofs ----------------------------
(***************************************************************************)
(* The search keeps its word tokens, for every grammar whose words lie     *)
(* within it and all sizes of pool, queue, lattice and beam: whatever is   *)
(* still read is not in the pool, backtraces lead back in time, the queue  *)
(* keeps the cheapest words and the lattice is in order.                   *)
(*                                                                         *)
(* All five follow from one inductive invariant, SearchOK(R), for a set R  *)
(* of nodes no boundary leaves, which holds those before the first frame.  *)
(***************************************************************************)
EXTENDS Search, SequenceTheorems, FiniteSetTheorems, FunctionTheorems, WellFoundedInduction, TLAPS

-----------------------------------------------------------------------------
(* The inductive invariant. *)

Nil == Wtokens \cup {None}

AltOf(B) == [word : Labels, bt : B, delta : Nat]

AltsOf(B) == Seq(AltOf(B))

ModelArcs == {a \in DOMAIN Arcs : Arcs[a].ilabel \in Models}

PathOf(B) == [arc : ModelArcs, cost : Nat, word : Labels, bt : B, alts : AltsOf(B)]

TokenOf(B) == [node : NodeIds, cost : Nat, word : Labels, bt : B, alts : AltsOf(B)]

Word == [word : Labels, end_time : 0 .. MaxFrames, end_node : NodeIds \cup {None},
         backtrace : Nil, cost : Nat]

Histories == Labels \X (NodeIds \cup {None}) \X ({<<>>} \cup (Labels \X (0 .. MaxFrames)))

Steps == [nodes : Seq(TokenOf(Nil)), pq : Seq(Wtokens), wtoken : [Wtokens -> Word],
          freelist : Seq(Wtokens), offers : SUBSET (Histories \X Nat),
          blocked : BOOLEAN, made : Nil]

Live(s) == Wtokens \ Range(s.freelist)

Until(s, n) == {t \in Live(s) : s.wtoken[t].end_time < n} \cup {None}

(* A token that one search leaves to another as it was. *)
Same(s, r, t) == t \in Live(r) /\ r.wtoken[t] = s.wtoken[t]

Sound(s, b) == b = None \/ b \in Live(s) \/ s.wtoken[b].end_time = MaxFrames

PoolOK(s, n) ==
  /\ IsInjective(s.freelist)
  /\ \A t \in Live(s) : /\ s.wtoken[t].end_time < n
                        /\ s.wtoken[t].backtrace \in Until(s, s.wtoken[t].end_time)

(* The tokens of a list, each once, the worst first. *)
InOrder(toks, list) ==
  /\ IsInjective(list)
  /\ \A i, j \in DOMAIN list : i < j => toks[list[i]].cost >= toks[list[j]].cost

Ordered(s, list) == InOrder(s.wtoken, list) /\ Len(list) <= MaxInQ

(* The same, the best first. *)
Climbs(toks, list) ==
  /\ IsInjective(list)
  /\ \A i, j \in DOMAIN list : i < j => toks[list[i]].cost <= toks[list[j]].cost

(* The words of frame f, in the order that the flags set tell. *)
Listed(toks, flags, f, list) ==
  /\ Len(list) <= MaxInQ
  /\ IF f \in flags THEN Climbs(toks, list) ELSE InOrder(toks, list)

QueueOK(s, n) ==
  /\ Ordered(s, s.pq)
  /\ \A t \in Range(s.pq) : t \in Live(s) /\ s.wtoken[t].end_time = n

HistoryOf(toks, t) == History(toks, toks[t].word, toks[t].end_node, toks[t].backtrace)

Keeps(s) ==
  /\ IsFiniteSet(s.offers)
  /\ \A t, u \in Range(s.pq) : HistoryOf(s.wtoken, t) = HistoryOf(s.wtoken, u) => t = u
  /\ \A t \in Range(s.pq) : <<HistoryOf(s.wtoken, t), s.wtoken[t].cost>> \in s.offers
  /\ \A o \in s.offers :
       \/ \E t \in Range(s.pq) : HistoryOf(s.wtoken, t) = o[1] /\ s.wtoken[t].cost <= o[2]
       \/ /\ Len(s.pq) = MaxInQ
          /\ \A t \in Range(s.pq) : HistoryOf(s.wtoken, t) # o[1] /\ s.wtoken[t].cost <= o[2]

EndsOK(s) == PoolOK(s, csf + 1) /\ QueueOK(s, csf) /\ Keeps(s)

(* The nodes of a search whose words have ended before frame n. *)
NodesOK(s, n) ==
  /\ \A i, j \in DOMAIN s.nodes : s.nodes[i].node = s.nodes[j].node => i = j
  /\ \A i \in DOMAIN s.nodes :
       LET x == s.nodes[i]
       IN  /\ Sound(s, x.bt) /\ x.alts \in AltsOf(Until(s, n))
           /\ x.cost < MAXcostdata => x.bt \in Live(s) \cup {None}

LatticeOK ==
  \A f \in DOMAIN lattice :
    /\ Listed(wtoken, sorted, f, lattice[f])
    /\ \A t \in Range(lattice[f]) :
         /\ t \in Live(Pending)
         /\ EndTime(t) = IF phase = "ended" /\ f = csf THEN f ELSE f - 1
         /\ phase = "ended" /\ f = csf => wtoken[t].end_node = EndNode
         /\ phase = "epsilon" => EndTime(t) < csf

Typed ==
  /\ phase \in {"idle", "begin", "epsilon", "ready", "ended"}
  /\ csf \in 0 .. MaxFrames - 1 /\ current \in NodeIds \cup {None}
  /\ active \in Seq(PathOf(Nil)) /\ \A i \in DOMAIN active : active[i].cost < PruneDelta
  /\ Pending \in Steps
  /\ lattice \in [0 .. MaxFrames - 1 -> Seq(Wtokens)]
  /\ sorted \in SUBSET (0 .. MaxFrames - 1)

(* Only lists that are complete are sorted. *)
Flags == \A f \in sorted : f < csf \/ (phase = "ended" /\ f = csf)

Idle == phase = "idle" => /\ csf = 0 /\ active = <<>> /\ nodes = <<>> /\ pq = <<>>
                          /\ freelist = <<>> /\ offers = {}
                          /\ \A f \in DOMAIN lattice : lattice[f] = <<>>

InBegin(R) == phase = "begin" \/ (phase = "ready" /\ csf = 0) =>
                csf = 0 /\ \A i \in DOMAIN nodes : nodes[i].node \in R

Running ==
  /\ phase \in {"begin", "ready"} =>
       /\ PoolOK(Pending, csf) /\ NodesOK(Pending, csf) /\ offers = {}
       /\ active \in Seq(PathOf(Until(Pending, csf)))
  /\ phase = "epsilon" =>
       /\ csf < MaxFrames - 1
       /\ PoolOK(Pending, csf + 1) /\ NodesOK(Pending, csf)
       /\ active \in Seq(PathOf(Until(Pending, csf)))
       /\ QueueOK(Pending, csf) /\ Keeps(Pending)
  /\ phase \in {"begin", "epsilon"} /\ current # None =>
       \E i \in DOMAIN nodes : nodes[i].node = current
  /\ phase = "ready" /\ csf > 0 => QueueOK(Pending, csf - 1)
  /\ phase = "epsilon" \/ (phase = "ready" /\ csf > 0) =>
       \A t \in Range(pq) : wtoken[t].end_node # EndNode
  /\ phase \in {"begin", "ready"} /\ csf = 0 => \A t \in Range(pq) : wtoken[t].end_node = EndNode

Ended ==
  phase = "ended" =>
    /\ PoolOK(Pending, csf + 1)
    /\ csf > 0 /\ csf \notin sorted => QueueOK(Pending, csf) /\ Keeps(Pending)
    /\ csf > 0 => \A t \in Range(pq) : t \in Live(Pending)
    /\ \A t \in Range(pq) : wtoken[t].end_node = EndNode

SearchOK(R) == Typed /\ Flags /\ Idle /\ InBegin(R) /\ Running /\ Ended /\ (phase # "idle" => LatticeOK)
-----------------------------------------------------------------------------
(* Naturals and folds over them. *)

(* Induction over the naturals, for a set rather than an operator. *)
LEMMA SetInduction ==
  ASSUME NEW S, 0 \in S, \A n \in Nat : n \in S => n + 1 \in S
  PROVE  Nat \subseteq S
<1> SUFFICES ASSUME ~(Nat \subseteq S) PROVE FALSE
  OBVIOUS
<1> DEFINE R == OpToRel(<, Nat)
           T == Nat \ S
<1>1. IsWellFoundedOn(R, Nat)
  BY NatLessThanWellFounded
<1>2. T \subseteq Nat /\ T # {}
  OBVIOUS
<1>3. ASSUME NEW y \in Nat, NEW x \in Nat, y < x PROVE <<y, x>> \in R
  BY <1>3, Zenon DEF OpToRel
<1> HIDE DEF R
<1>4. PICK x \in T : \A y \in T : <<y, x>> \notin R
  <2> HIDE DEF T
  <2> QED BY <1>1, <1>2, WFMin
<1>5. x \in Nat /\ x # 0 /\ x - 1 \in Nat /\ x - 1 < x
  BY <1>4
<1>6. x - 1 \in S
  BY <1>3, <1>4, <1>5
<1>7. QED
  BY <1>4, <1>5, <1>6

(* The least of a set of naturals, which Min chooses, exists. *)
LEMMA MinIn ==
  ASSUME NEW S \in SUBSET Nat, S # {}
  PROVE  Min(S) \in S /\ \A x \in S : Min(S) <= x
<1> DEFINE R == OpToRel(<, Nat)
<1>1. IsWellFoundedOn(R, Nat)
  BY NatLessThanWellFounded
<1>2. ASSUME NEW y \in Nat, NEW x \in Nat, y < x PROVE <<y, x>> \in R
  BY <1>2, Zenon DEF OpToRel
<1> HIDE DEF R
<1>3. PICK x \in S : \A y \in S : <<y, x>> \notin R
  BY <1>1, WFMin
<1>4. ASSUME NEW y \in S PROVE x <= y
  <2>1. x \in Nat /\ y \in Nat
    OBVIOUS
  <2>2. ~(y < x)
    BY <1>2, <1>3, <2>1
  <2> QED BY <2>1, <2>2
<1> QED BY <1>3, <1>4 DEF Min

(* So does the greatest of a set of indices. *)
LEMMA MaxIn ==
  ASSUME NEW n \in Nat, NEW S \in SUBSET (1 .. n), S # {}
  PROVE  Max(S) \in S /\ \A x \in S : x <= Max(S)
<1> DEFINE T == {n - x : x \in S}
<1>1. T \in SUBSET Nat /\ T # {}
  <2>1. \A x \in S : n - x \in Nat
    OBVIOUS
  <2> QED BY <2>1
<1>2. PICK m \in T : \A y \in T : m <= y
  BY <1>1, MinIn
<1>3. PICK x \in S : m = n - x
  OBVIOUS
<1>4. \A y \in S : x >= y
  <2> TAKE y \in S
  <2>1. n - y \in T
    OBVIOUS
  <2> QED BY <2>1, <1>2, <1>3
<1> QED BY <1>3, <1>4 DEF Max

(* The index that a fold takes last. *)
LEMMA MaxOfUpTo ==
  ASSUME NEW n \in Nat, NEW S \in SUBSET (1 .. n + 1), n + 1 \in S
  PROVE  Max(S) = n + 1
<1>1. n + 1 \in Nat /\ S # {}
  OBVIOUS
<1>2. Max(S) \in S /\ \A x \in S : x <= Max(S)
  BY <1>1, MaxIn
<1> HIDE DEF Max
<1>3. Max(S) \in 1 .. n + 1 /\ n + 1 <= Max(S)
  BY <1>2
<1> QED BY <1>3

(* A run of the fold of op over the indices of a list: what it has come to *)
(* after each set of them.                                                  *)
IsRun(g, S, N, base, op) ==
  /\ g \in [SUBSET (1 .. N) -> S]
  /\ g[{}] = base
  /\ \A s \in SUBSET (1 .. N) : s # {} => g[s] = op[<<g[s \ {Max(s)}], Max(s)>>]

(* A fold over the indices of a list exists as a function on sets of         *)
(* indices.                                                                  *)
LEMMA FoldExists ==
  ASSUME NEW S, NEW N \in Nat, NEW base \in S, NEW op \in [S \X (1 .. N) -> S]
  PROVE  \E g : IsRun(g, S, N, base, op)
<1> DEFINE Good(n) == \E g \in [SUBSET (1 .. n) -> S] :
           \A s \in SUBSET (1 .. n) :
             g[s] = IF s = {} THEN base ELSE op[<<g[s \ {Max(s)}], Max(s)>>]
           P == {n \in Nat : n <= N => Good(n)}
<1> HIDE DEF Good
<1>0. \A n \in Nat : n \in P <=> (n <= N => Good(n))
  OBVIOUS
<1> HIDE DEF P
<1>1. 0 \in P
  <2> DEFINE g == [s \in SUBSET (1 .. 0) |-> base]
  <2>1. 1 .. 0 = {}
    OBVIOUS
  <2>2. g \in [SUBSET (1 .. 0) -> S]
    OBVIOUS
  <2>3. \A s \in SUBSET (1 .. 0) : s = {} /\ g[s] = base
    BY <2>1
  <2> HIDE DEF g
  <2> QED BY <1>0, <2>2, <2>3 DEF Good
<1>2. ASSUME NEW n \in Nat, n \in P PROVE n + 1 \in P
  <2> SUFFICES ASSUME n + 1 <= N PROVE Good(n + 1)
    BY <1>0
  <2>1. PICK g \in [SUBSET (1 .. n) -> S] :
          \A s \in SUBSET (1 .. n) :
             g[s] = IF s = {} THEN base ELSE op[<<g[s \ {Max(s)}], Max(s)>>]
    <3>1. Good(n)
      BY <1>0, <1>2
    <3> QED BY <3>1 DEF Good
  <2> DEFINE h == [s \in SUBSET (1 .. n + 1) |->
                     IF n + 1 \in s THEN op[<<g[s \ {n + 1}], n + 1>>] ELSE g[s]]
  <2>2. ASSUME NEW s \in SUBSET (1 .. n + 1), n + 1 \in s
        PROVE  /\ s \ {n + 1} \in SUBSET (1 .. n) /\ Max(s) = n + 1
               /\ h[s \ {n + 1}] = g[s \ {n + 1}]
    BY <2>2, MaxOfUpTo
  <2>3. ASSUME NEW s \in SUBSET (1 .. n + 1), n + 1 \notin s
        PROVE  s \in SUBSET (1 .. n) /\ h[s] = g[s] /\ g[s] \in S
    BY <2>3
  <2>4. ASSUME NEW s \in SUBSET (1 .. n + 1)
        PROVE  h[s] \in S
    <3>1. CASE n + 1 \in s
      <4>1. g[s \ {n + 1}] \in S /\ n + 1 \in 1 .. N
        BY <2>2, <3>1
      <4>2. op[<<g[s \ {n + 1}], n + 1>>] \in S
        BY <4>1
      <4>3. QED
        BY <4>2, <3>1
    <3>2. CASE n + 1 \notin s
      BY <3>2, <2>3
    <3> QED BY <3>1, <3>2
  <2>5. ASSUME NEW s \in SUBSET (1 .. n + 1)
        PROVE  h[s] = IF s = {} THEN base ELSE op[<<h[s \ {Max(s)}], Max(s)>>]
    <3>1. CASE n + 1 \in s
      <4>1. h[s] = op[<<g[s \ {n + 1}], n + 1>>]
        BY <3>1
      <4> QED BY <4>1, <2>2, <3>1
    <3>2. CASE n + 1 \notin s
      <4>0. s \in SUBSET (1 .. n) /\ h[s] = g[s]
        BY <2>3, <3>2
      <4>2. CASE s # {}
        <5>0. s \ {Max(s)} \in SUBSET (1 .. n) /\ n + 1 \notin s \ {Max(s)}
          BY <4>0, <3>2
        <5>1. h[s \ {Max(s)}] = g[s \ {Max(s)}]
          BY <2>3, <5>0
        <5> HIDE DEF h
        <5> QED BY <5>1, <4>0, <2>1, <4>2
      <4>3. CASE s = {}
        BY <4>3, <4>0, <2>1
      <4> QED BY <4>2, <4>3
    <3> QED BY <3>1, <3>2
  <2>6. h \in [SUBSET (1 .. n + 1) -> S]
    BY <2>4
  <2> HIDE DEF h
  <2> QED BY <2>5, <2>6 DEF Good
<1>3. N \in P
  BY <1>1, <1>2, SetInduction
<1>4. Good(N)
  BY <1>0, <1>3
<1> QED BY <1>4 DEF Good, IsRun

(* What one more element keeps, all of them keep. *)
LEMMA FoldStays ==
  ASSUME NEW S, NEW N \in Nat, NEW g, g[{}] \in S,
         \A k \in Nat : k + 1 <= N /\ g[1 .. k] \in S => g[1 .. k + 1] \in S
  PROVE  g[1 .. N] \in S
<1> DEFINE T == {k \in Nat : k <= N => g[1 .. k] \in S}
<1>1. 0 \in T
  <2>1. 1 .. 0 = {}
    OBVIOUS
  <2> QED BY <2>1
<1>2. \A k \in Nat : k \in T => k + 1 \in T
  OBVIOUS
<1> HIDE DEF T
<1>3. N \in T
  BY <1>1, <1>2, SetInduction
<1> QED BY <1>3 DEF T

(* A set of indices and the one after. *)
LEMMA UpToNext ==
  ASSUME NEW n \in Nat, NEW k \in Nat, k + 1 <= n
  PROVE  /\ 1 .. k + 1 \in SUBSET (1 .. n) /\ 1 .. k + 1 # {} /\ k + 1 \in 1 .. n
         /\ (1 .. k + 1) \ {k + 1} = 1 .. k /\ Max(1 .. k + 1) = k + 1
<1>1. /\ 1 .. k + 1 \in SUBSET (1 .. n) /\ k + 1 \in 1 .. k + 1 /\ k + 1 \in 1 .. n
      /\ (1 .. k + 1) \ {k + 1} = 1 .. k
  OBVIOUS
<1>2. Max(1 .. k + 1) = k + 1
  <2>1. 1 .. k + 1 \in SUBSET (1 .. k + 1)
    OBVIOUS
  <2> QED BY <1>1, <2>1, MaxOfUpTo
<1> QED BY <1>1, <1>2

(* The alternatives of a token keep what each of them keeps. *)
LEMMA AltsFold ==
  ASSUME NEW S, NEW s \in S, NEW tok, NEW cost, NEW n \in Nat, DOMAIN tok.alts = 1 .. n,
         \A acc \in S, i \in 1 .. n : Offer(acc, tok, tok.alts[i], cost) \in S
  PROVE  Alternatives(s, tok, cost) \in S
<1> DEFINE D == 1 .. n
           Step(acc, i) == Offer(acc, tok, tok.alts[i], cost)
           op == [p \in S \X D |-> Step(p[1], p[2])]
           iter == CHOOSE g : g = [d \in SUBSET D |->
                                     IF d = {} THEN s ELSE Step(g[d \ {Max(d)}], Max(d))]
<1>1. Alternatives(s, tok, cost) = iter[D]
  BY Zenon DEF Alternatives, FoldLeft, MapThenFoldSet
<1>2. \A a \in S, i \in D : Step(a, i) \in S
  OBVIOUS
<1> HIDE DEF Step
<1>3. op \in [S \X D -> S] /\ \A a \in S, i \in D : op[<<a, i>>] = Step(a, i)
  BY <1>2
<1> HIDE DEF op
<1>4. PICK g : IsRun(g, S, n, s, op)
  BY <1>3, FoldExists
<1>5. ASSUME NEW d \in SUBSET D, d # {}
      PROVE  op[<<g[d \ {Max(d)}], Max(d)>>] = Step(g[d \ {Max(d)}], Max(d))
  <2>1. g[d \ {Max(d)}] \in S
    BY <1>4 DEF IsRun
  <2>2. Max(d) \in D
    BY <1>5, MaxIn
  <2> QED BY <1>3, <2>1, <2>2
<1>6. g = [d \in SUBSET D |-> IF d = {} THEN s ELSE Step(g[d \ {Max(d)}], Max(d))]
  BY <1>4, <1>5 DEF IsRun
<1>7. iter = [d \in SUBSET D |-> IF d = {} THEN s ELSE Step(iter[d \ {Max(d)}], Max(d))]
  BY <1>6, Zenon
<1> HIDE DEF iter
<1>8. iter[{}] \in S
  BY <1>7
<1>9. ASSUME NEW k \in Nat, k + 1 <= n, iter[1 .. k] \in S
      PROVE  iter[1 .. k + 1] \in S
  <2>1. /\ 1 .. k + 1 \in SUBSET D /\ 1 .. k + 1 # {} /\ k + 1 \in D
        /\ (1 .. k + 1) \ {k + 1} = 1 .. k /\ Max(1 .. k + 1) = k + 1
    BY <1>9, UpToNext
  <2>2. iter[1 .. k + 1] = Step(iter[1 .. k], k + 1)
    BY <1>7, <2>1
  <2> QED BY <1>2, <1>9, <2>1, <2>2
<1>10. iter[D] \in S
  BY <1>8, <1>9, FoldStays
<1> QED BY <1>1, <1>10
-----------------------------------------------------------------------------
(* Lists: what Only picks. *)

(* r holds those of the first n elements of a list that are in S, in their  *)
(* order; h tells which they are.                                           *)
Tells(h, m, r, list, n, S) ==
  /\ h \in [1 .. m -> 1 .. n]
  /\ \A j, k \in 1 .. m : j < k => h[j] < h[k]
  /\ \A j \in 1 .. m : r[j] = list[h[j]] /\ r[j] \in S
  /\ \A i \in 1 .. n : list[i] \in S => \E j \in 1 .. m : h[j] = i

Picks(r, list, n, S) == \E h : Tells(h, Len(r), r, list, n, S)

(* The indices of a list are as many as it is long. *)
LEMMA UpTo ==
  ASSUME NEW n \in Nat
  PROVE  IsFiniteSet(1 .. n) /\ Cardinality(1 .. n) = n
<1>1. 1 \in Int /\ n \in Int
  OBVIOUS
<1>2. IsFiniteSet(1 .. n) /\ Cardinality(1 .. n) = IF 1 > n THEN 0 ELSE n - 1 + 1
  BY <1>1, FS_Interval
<1> QED BY <1>2

(* One more element, that the list keeps. *)
LEMMA PicksMore ==
  ASSUME NEW T, NEW list \in Seq(T), NEW S, NEW n \in Nat, n + 1 <= Len(list),
         NEW r \in Seq(T), Picks(r, list, n, S), list[n + 1] \in S
  PROVE  Append(r, list[n + 1]) \in Seq(T) /\ Picks(Append(r, list[n + 1]), list, n + 1, S)
<1> DEFINE x == list[n + 1]
           q == Append(r, x)
           m == Len(r)
<1>1. x \in T /\ m \in Nat
  OBVIOUS
<1>20. PICK h : Tells(h, m, r, list, n, S)
  BY Zenon DEF Picks
<1>2. /\ h \in [1 .. m -> 1 .. n]
      /\ \A j, k \in 1 .. m : j < k => h[j] < h[k]
      /\ \A j \in 1 .. m : r[j] = list[h[j]] /\ r[j] \in S
      /\ \A i \in 1 .. n : list[i] \in S => \E j \in 1 .. m : h[j] = i
  BY <1>20 DEF Tells
<1>3. /\ q \in Seq(T) /\ Len(q) = m + 1 /\ q[m + 1] = x
      /\ \A i \in 1 .. m : q[i] = r[i]
  BY <1>1, AppendProperties
<1> DEFINE g == [j \in 1 .. m + 1 |-> IF j <= m THEN h[j] ELSE n + 1]
<1>4. \A j \in 1 .. m : g[j] = h[j] /\ h[j] \in 1 .. n /\ g[j] \in 1 .. n + 1 /\ g[j] < n + 1
  BY <1>1, <1>2
<1>5. g[m + 1] = n + 1 /\ DOMAIN g = 1 .. m + 1
  BY <1>1
<1>6. g \in [1 .. m + 1 -> 1 .. n + 1]
  BY <1>1, <1>2
<1> HIDE DEF g, q, x, m
<1>7. \A j, k \in 1 .. m + 1 : j < k => g[j] < g[k]
  <2> SUFFICES ASSUME NEW j \in 1 .. m + 1, NEW k \in 1 .. m + 1, j < k PROVE g[j] < g[k]
    OBVIOUS
  <2>1. j \in 1 .. m
    BY <1>1
  <2>2. CASE k = m + 1
    BY <2>1, <2>2, <1>4, <1>5
  <2>3. CASE k # m + 1
    <3>1. k \in 1 .. m
      BY <2>3, <1>1
    <3> QED BY <2>1, <3>1, <1>2, <1>4
  <2> QED BY <2>2, <2>3
<1>8. \A j \in 1 .. m + 1 : q[j] = list[g[j]] /\ q[j] \in S
  <2> TAKE j \in 1 .. m + 1
  <2>2. CASE j = m + 1
    BY <2>2, <1>3, <1>5 DEF x
  <2>3. CASE j # m + 1
    <3>1. j \in 1 .. m
      BY <2>3, <1>1
    <3> QED BY <3>1, <1>2, <1>3, <1>4
  <2> QED BY <2>2, <2>3
<1>9. \A i \in 1 .. n + 1 : list[i] \in S => \E j \in 1 .. m + 1 : g[j] = i
  <2> SUFFICES ASSUME NEW i \in 1 .. n + 1, list[i] \in S PROVE \E j \in 1 .. m + 1 : g[j] = i
    OBVIOUS
  <2>2. CASE i = n + 1
    <3>1. m + 1 \in 1 .. m + 1
      BY <1>1
    <3> QED BY <2>2, <1>5, <3>1
  <2>3. CASE i # n + 1
    <3>1. i \in 1 .. n
      BY <2>3
    <3>2. PICK j \in 1 .. m : h[j] = i
      BY <3>1, <1>2
    <3>3. j \in 1 .. m + 1 /\ g[j] = i
      BY <3>2, <1>1, <1>4
    <3> QED BY <3>3
  <2> QED BY <2>2, <2>3
<1>10. Picks(q, list, n + 1, S)
  <2>1. Tells(g, m + 1, q, list, n + 1, S)
    BY <1>6, <1>7, <1>8, <1>9 DEF Tells
  <2> QED BY <2>1, <1>3, Zenon DEF Picks
<1> QED BY <1>3, <1>10 DEF q, x

(* One more element, that it does not keep. *)
LEMMA PicksNoMore ==
  ASSUME NEW list, NEW S, NEW n \in Nat, NEW r, Len(r) \in Nat, Picks(r, list, n, S), list[n + 1] \notin S
  PROVE  Picks(r, list, n + 1, S)
<1> DEFINE m == Len(r)
<1>20. PICK h : Tells(h, m, r, list, n, S)
  BY Zenon DEF Picks
<1>2. /\ h \in [1 .. m -> 1 .. n]
      /\ \A j, k \in 1 .. m : j < k => h[j] < h[k]
      /\ \A j \in 1 .. m : r[j] = list[h[j]] /\ r[j] \in S
      /\ \A i \in 1 .. n : list[i] \in S => \E j \in 1 .. m : h[j] = i
  BY <1>20 DEF Tells
<1>3. h \in [1 .. m -> 1 .. n + 1]
  BY <1>2
<1>4. \A i \in 1 .. n + 1 : list[i] \in S => i \in 1 .. n
  OBVIOUS
<1>5. Tells(h, m, r, list, n + 1, S)
  BY <1>2, <1>3, <1>4 DEF Tells
<1> QED BY <1>5, Zenon DEF Picks

(* Only picks the elements that are in the set, in their order. *)
LEMMA OnlyPicks ==
  ASSUME NEW T, NEW list \in Seq(T), NEW S
  PROVE  Only(list, S) \in Seq(T) /\ Picks(Only(list, S), list, Len(list), S)
<1> DEFINE n == Len(list)
           D == 1 .. n
           Step(acc, i) == IF list[i] \in S THEN Append(acc, list[i]) ELSE acc
           op == [p \in Seq(T) \X D |-> Step(p[1], p[2])]
           iter == CHOOSE g : g = [d \in SUBSET D |->
                                     IF d = {} THEN <<>> ELSE Step(g[d \ {Max(d)}], Max(d))]
<1>0. n \in Nat /\ DOMAIN list = D /\ <<>> \in Seq(T)
  OBVIOUS
<1>1. Only(list, S) = iter[D]
  BY <1>0, Zenon DEF Only, FoldLeft, MapThenFoldSet
<1>2. \A a \in Seq(T), i \in D : Step(a, i) \in Seq(T)
  OBVIOUS
<1>20. \A a, i : Step(a, i) = IF list[i] \in S THEN Append(a, list[i]) ELSE a
  OBVIOUS
<1> HIDE DEF Step
<1>3. op \in [Seq(T) \X D -> Seq(T)] /\ \A a \in Seq(T), i \in D : op[<<a, i>>] = Step(a, i)
  BY <1>2
<1> HIDE DEF op
<1>4. PICK g : IsRun(g, Seq(T), n, <<>>, op)
  BY <1>0, <1>3, FoldExists
<1>5. ASSUME NEW d \in SUBSET D, d # {}
      PROVE  op[<<g[d \ {Max(d)}], Max(d)>>] = Step(g[d \ {Max(d)}], Max(d))
  <2>1. g[d \ {Max(d)}] \in Seq(T)
    BY <1>4 DEF IsRun
  <2>2. Max(d) \in D
    BY <1>0, <1>5, MaxIn
  <2> QED BY <1>3, <2>1, <2>2
<1>6. g = [d \in SUBSET D |-> IF d = {} THEN <<>> ELSE Step(g[d \ {Max(d)}], Max(d))]
  BY <1>4, <1>5 DEF IsRun
<1>7. iter = [d \in SUBSET D |-> IF d = {} THEN <<>> ELSE Step(iter[d \ {Max(d)}], Max(d))]
  BY <1>6, Zenon
<1> HIDE DEF iter
<1> DEFINE Good(k) == iter[1 .. k] \in Seq(T) /\ Picks(iter[1 .. k], list, k, S)
           P == {k \in Nat : k <= n => Good(k)}
<1>8. Good(0)
  <2>1. 1 .. 0 = {}
    OBVIOUS
  <2>2. iter[{}] = <<>>
    BY <1>7
  <2>3. Picks(<<>>, list, 0, S)
    <3> DEFINE h == [j \in {} |-> 0]
    <3>1. h \in [{} -> {}]
      OBVIOUS
    <3> HIDE DEF h
    <3>2. Tells(h, 0, <<>>, list, 0, S)
      BY <2>1, <3>1 DEF Tells
    <3>3. Len(<<>>) = 0
      OBVIOUS
    <3> QED BY <3>2, <3>3 DEF Picks
  <2>4. iter[1 .. 0] = <<>>
    BY <2>1, <2>2
  <2> QED BY <1>0, <2>3, <2>4
<1>9. ASSUME NEW k \in Nat, k + 1 <= n, Good(k)
      PROVE  Good(k + 1)
  <2>1. /\ 1 .. k + 1 \in SUBSET D /\ 1 .. k + 1 # {} /\ k + 1 \in D
        /\ (1 .. k + 1) \ {k + 1} = 1 .. k /\ Max(1 .. k + 1) = k + 1
    BY <1>0, <1>9, UpToNext
  <2>2. iter[1 .. k + 1] = Step(iter[1 .. k], k + 1)
    BY <1>7, <2>1
  <2>3. CASE list[k + 1] \in S
    <3>1. iter[1 .. k + 1] = Append(iter[1 .. k], list[k + 1])
      BY <1>20, <2>2, <2>3
    <3> QED BY <1>0, <1>9, <2>3, <3>1, PicksMore
  <2>4. CASE list[k + 1] \notin S
    <3>1. iter[1 .. k + 1] = iter[1 .. k]
      BY <1>20, <2>2, <2>4
    <3>2. Len(iter[1 .. k]) \in Nat
      BY <1>9
    <3> QED BY <1>9, <2>4, <3>1, <3>2, PicksNoMore
  <2> QED BY <2>3, <2>4
<1> HIDE DEF Good
<1>10. 0 \in P /\ \A k \in Nat : k \in P => k + 1 \in P
  BY <1>8, <1>9
<1> HIDE DEF P
<1>11. n \in P
  BY <1>0, <1>10, SetInduction
<1>12. Good(n)
  BY <1>0, <1>11 DEF P
<1> QED BY <1>1, <1>12 DEF Good

(* What Only keeps of a list. *)
LEMMA OnlyKeeps ==
  ASSUME NEW T, NEW list \in Seq(T), NEW S
  PROVE  /\ Only(list, S) \in Seq(T) /\ Range(Only(list, S)) = Range(list) \cap S
         /\ \A j, k \in DOMAIN Only(list, S) : j < k =>
              \E x, y \in DOMAIN list : x < y /\ Only(list, S)[j] = list[x] /\ Only(list, S)[k] = list[y]
<1> DEFINE r == Only(list, S)
           n == Len(list)
<1>1. r \in Seq(T) /\ Picks(r, list, n, S)
  BY OnlyPicks
<1> HIDE DEF r
<1>20. PICK h : Tells(h, Len(r), r, list, n, S)
  BY <1>1, Zenon DEF Picks
<1>2. /\ h \in [1 .. Len(r) -> 1 .. n]
      /\ \A j, k \in 1 .. Len(r) : j < k => h[j] < h[k]
      /\ \A j \in 1 .. Len(r) : r[j] = list[h[j]] /\ r[j] \in S
      /\ \A i \in 1 .. n : list[i] \in S => \E j \in 1 .. Len(r) : h[j] = i
  BY <1>20 DEF Tells
<1>3. DOMAIN r = 1 .. Len(r) /\ DOMAIN list = 1 .. n
  BY <1>1
<1>4. Range(r) = Range(list) \cap S
  <2>1. Range(r) \subseteq Range(list) \cap S
    BY <1>2, <1>3 DEF Range
  <2>2. ASSUME NEW x \in Range(list) \cap S PROVE x \in Range(r)
    <3>1. PICK i \in 1 .. n : x = list[i]
      BY <1>3 DEF Range
    <3>2. PICK j \in 1 .. Len(r) : h[j] = i
      BY <3>1, <1>2
    <3> QED BY <3>1, <3>2, <1>2, <1>3 DEF Range
  <2> QED BY <2>1, <2>2
<1>5. ASSUME NEW j \in DOMAIN r, NEW k \in DOMAIN r, j < k
      PROVE  \E x, y \in DOMAIN list : x < y /\ r[j] = list[x] /\ r[k] = list[y]
  <2>1. h[j] \in DOMAIN list /\ h[k] \in DOMAIN list /\ h[j] < h[k]
    BY <1>2, <1>3, <1>5
  <2> QED BY <2>1, <1>2, <1>3
<1> QED BY <1>1, <1>4, <1>5 DEF r

(* How long it is. *)
LEMMA OnlyLen ==
  ASSUME NEW T, NEW list \in Seq(T), NEW S
  PROVE  Len(Only(list, S)) = Cardinality({i \in DOMAIN list : list[i] \in S})
<1> DEFINE r == Only(list, S)
           n == Len(list)
           I == {i \in DOMAIN list : list[i] \in S}
<1>1. r \in Seq(T) /\ Picks(r, list, n, S)
  BY OnlyPicks
<1> HIDE DEF r
<1>20. PICK h : Tells(h, Len(r), r, list, n, S)
  BY <1>1, Zenon DEF Picks
<1>2. /\ h \in [1 .. Len(r) -> 1 .. n]
      /\ \A j, k \in 1 .. Len(r) : j < k => h[j] < h[k]
      /\ \A j \in 1 .. Len(r) : r[j] = list[h[j]] /\ r[j] \in S
      /\ \A i \in 1 .. n : list[i] \in S => \E j \in 1 .. Len(r) : h[j] = i
  BY <1>20 DEF Tells
<1>3. Len(r) \in Nat /\ DOMAIN list = 1 .. n
  BY <1>1
<1>4. IsFiniteSet(1 .. Len(r)) /\ Cardinality(1 .. Len(r)) = Len(r)
  BY <1>3, UpTo
<1>5. \A j, k \in 1 .. Len(r) : h[j] = h[k] => j = k
  <2> SUFFICES ASSUME NEW j \in 1 .. Len(r), NEW k \in 1 .. Len(r), h[j] = h[k] PROVE j = k
    OBVIOUS
  <2>1. ~(j < k) /\ ~(k < j) /\ j \in Int /\ k \in Int
    BY <1>2, <1>3
  <2> QED BY <2>1
<1>6. h \in [1 .. Len(r) -> I]
  BY <1>2, <1>3
<1>7. h \in Bijection(1 .. Len(r), I)
  BY <1>2, <1>3, <1>5, <1>6 DEF Bijection, Injection, Surjection, IsInjective
<1>8. ExistsBijection(1 .. Len(r), I)
  BY <1>7 DEF ExistsBijection
<1>9. Cardinality(I) = Len(r)
  BY <1>4, <1>8, FS_Bijection
<1> QED BY <1>9 DEF r
-----------------------------------------------------------------------------
(* Arcs and alternatives. *)

(* Functions on indices and lists are the same. *)
LEMMA FunSeq ==
  ASSUME NEW U, NEW n \in Nat, NEW f \in [1 .. n -> U]
  PROVE  f \in Seq(U) /\ Len(f) = n /\ DOMAIN f = 1 .. n
OBVIOUS

(* What a list is as a function. *)
LEMMA SeqFun ==
  ASSUME NEW U, NEW f \in Seq(U)
  PROVE  /\ Len(f) \in Nat /\ DOMAIN f = 1 .. Len(f) /\ \A i \in DOMAIN f : f[i] \in U
         /\ f \in [DOMAIN f -> U] /\ Range(f) \subseteq U
BY DEF Range

(* The arcs of a grammar. *)
LEMMA ArcTypes ==
  ASSUME NEW a \in DOMAIN Arcs
  PROVE  /\ Arcs[a].from \in NodeIds /\ Arcs[a].to \in NodeIds /\ Arcs[a].cost \in Nat
         /\ Arcs[a].ilabel \in Models \cup {"boundary", "epsilon"} /\ Arcs[a].olabel \in Labels
<1> DEFINE R == [from : NodeIds, to : NodeIds, ilabel : Models \cup {"boundary", "epsilon"},
                 olabel : Labels, cost : Nat]
<1>1. Arcs \in Seq(R)
  BY GrammarAssumption
<1>2. Arcs[a] \in R
  <2> HIDE DEF R
  <2> QED BY <1>1, SeqFun
<1> QED BY <1>2

(* Arcs that leave a node. *)
LEMMA LeavingArcs ==
  ASSUME NEW node, NEW kinds
  PROVE  /\ Leaving(node, kinds) \in Seq(DOMAIN Arcs)
         /\ Range(Leaving(node, kinds)) = {a \in DOMAIN Arcs : Arcs[a].from = node /\ Arcs[a].ilabel \in kinds}
<1> DEFINE all == [a \in DOMAIN Arcs |-> a]
<1>1. DOMAIN Arcs = 1 .. Len(Arcs) /\ Len(Arcs) \in Nat
  BY GrammarAssumption
<1>2. all \in [1 .. Len(Arcs) -> DOMAIN Arcs]
  BY <1>1
<1>3. Range(all) = DOMAIN Arcs
  BY <1>1 DEF Range
<1>4. all \in Seq(DOMAIN Arcs)
  BY <1>1, <1>2, FunSeq
<1>5. Leaving(node, kinds) = Only(all, {a \in DOMAIN Arcs : Arcs[a].from = node /\ Arcs[a].ilabel \in kinds})
  BY DEF Leaving
<1> HIDE DEF all
<1> QED BY <1>3, <1>4, <1>5, OnlyKeeps

(* Alternatives of greater cost are alternatives. *)
LEMMA AltType ==
  ASSUME NEW B, NEW alts \in AltsOf(B), NEW d \in Nat
  PROVE  [i \in DOMAIN alts |-> [alts[i] EXCEPT !.delta = @ + d]] \in AltsOf(B)
<1> DEFINE f == [i \in DOMAIN alts |-> [alts[i] EXCEPT !.delta = @ + d]]
<1>1. alts \in Seq(AltOf(B))
  BY DEF AltsOf
<1>2. Len(alts) \in Nat /\ DOMAIN alts = 1 .. Len(alts) /\ \A i \in DOMAIN alts : alts[i] \in AltOf(B)
  BY <1>1, SeqFun
<1>3. ASSUME NEW w \in AltOf(B) PROVE [w EXCEPT !.delta = @ + d] \in AltOf(B)
  BY DEF AltOf
<1>4. f \in [1 .. Len(alts) -> AltOf(B)]
  BY <1>2, <1>3
<1>5. f \in Seq(AltOf(B))
  BY <1>2, <1>4, FunSeq
<1> QED BY <1>5 DEF AltsOf

(* So are those that copy_altwords keeps. *)
LEMMA CopyAltwordsType ==
  ASSUME NEW B, NEW alts \in AltsOf(B), NEW d \in Nat
  PROVE  CopyAltwords(alts, d) \in AltsOf(B)
<1> DEFINE later == [i \in DOMAIN alts |-> [alts[i] EXCEPT !.delta = @ + d]]
           S == {w \in Range(later) : w.delta <= PruneDelta}
<1>1. later \in AltsOf(B)
  BY AltType
<1>2. CopyAltwords(alts, d) = Only(later, S)
  BY DEF CopyAltwords, Map
<1> HIDE DEF later, S
<1> QED BY <1>1, <1>2, OnlyKeeps DEF AltsOf

(* Sorted, each of a list of costs has a place of its own. *)
LEMMA RankIsPlace ==
  ASSUME NEW n \in Nat, NEW costs \in [1 .. n -> Nat]
  PROVE  /\ \A j, k \in 1 .. n : costs[j] < costs[k] => Rank(costs, j) < Rank(costs, k)
         /\ \A j, k \in 1 .. n : Rank(costs, j) = Rank(costs, k) => j = k
         /\ \A k \in 1 .. n : Rank(costs, k) \in 0 .. n - 1
         /\ \A r \in 1 .. n : Nth(costs, r) \in 1 .. n /\ Rank(costs, Nth(costs, r)) = r - 1
<1> DEFINE D == 1 .. n
           before(j, k) == \/ costs[j] < costs[k]
                           \/ costs[j] = costs[k] /\ j < k
           Bef(k) == {j \in D : before(j, k)}
           f == [k \in D |-> Rank(costs, k)]
<1>1. DOMAIN costs = D /\ \A k \in D : costs[k] \in Nat
  OBVIOUS
<1>2. \A k \in D : Rank(costs, k) = Cardinality(Bef(k))
  BY <1>1 DEF Rank
<1>3. IsFiniteSet(D) /\ Cardinality(D) = n
  BY UpTo
<1>4. ASSUME NEW k \in D
      PROVE  IsFiniteSet(Bef(k)) /\ Cardinality(Bef(k)) \in Nat /\ Cardinality(Bef(k)) < n
  <2>1. Bef(k) \subseteq D \ {k}
    BY <1>1
  <2>2. IsFiniteSet(D \ {k}) /\ Cardinality(D \ {k}) = n - 1
    BY <1>3, FS_RemoveElement
  <2> HIDE DEF Bef
  <2>3. IsFiniteSet(Bef(k)) /\ Cardinality(Bef(k)) <= n - 1
    BY <2>1, <2>2, FS_Subset
  <2> QED BY <2>3, FS_CardinalityType
<1>5. ASSUME NEW j \in D, NEW k \in D, before(j, k)
      PROVE  Cardinality(Bef(j)) < Cardinality(Bef(k))
  <2>1. j \in Bef(k) /\ j \notin Bef(j)
    BY <1>1, <1>5
  <2>2. Bef(j) \subseteq Bef(k)
    BY <1>1, <1>5
  <2> HIDE DEF Bef
  <2>3. Cardinality(Bef(j)) <= Cardinality(Bef(k)) /\ Cardinality(Bef(j)) # Cardinality(Bef(k))
    BY <2>1, <2>2, <1>4, FS_Subset
  <2> QED BY <2>3, <1>4
<1>6. ASSUME NEW j \in D, NEW k \in D, j # k
      PROVE  before(j, k) \/ before(k, j)
  BY <1>1, <1>6
<1>a. \A j, k \in D : costs[j] < costs[k] => Rank(costs, j) < Rank(costs, k)
  BY <1>2, <1>5
<1> HIDE DEF before, Bef
<1>7. \A j, k \in D : f[j] = f[k] => j = k
  <2>1. ASSUME NEW j \in D, NEW k \in D, j # k
        PROVE  Cardinality(Bef(j)) # Cardinality(Bef(k))
    <3>1. /\ Cardinality(Bef(j)) \in Nat /\ Cardinality(Bef(k)) \in Nat
          /\ \/ Cardinality(Bef(j)) < Cardinality(Bef(k))
             \/ Cardinality(Bef(k)) < Cardinality(Bef(j))
      BY <1>4, <1>5, <1>6, <2>1
    <3> QED BY <3>1
  <2> QED BY <1>2, <2>1
<1>8. f \in [D -> 0 .. n - 1]
  BY <1>1, <1>2, <1>4
<1>b. /\ \A j, k \in D : Rank(costs, j) = Rank(costs, k) => j = k
      /\ \A k \in D : Rank(costs, k) \in 0 .. n - 1
  BY <1>7, <1>8
<1>9. f \in Injection(D, 0 .. n - 1)
  <2> HIDE DEF f
  <2> QED BY <1>7, <1>8 DEF Injection, IsInjective
<1>10. IsFiniteSet(0 .. n - 1) /\ Cardinality(0 .. n - 1) = n
  <2>1. 0 \in Int /\ n - 1 \in Int
    OBVIOUS
  <2>2. IsFiniteSet(0 .. n - 1) /\ Cardinality(0 .. n - 1) = IF 0 > n - 1 THEN 0 ELSE n - 1 - 0 + 1
    BY <2>1, FS_Interval
  <2> QED BY <2>2
<1> HIDE DEF f
<1>11. f \in Surjection(D, 0 .. n - 1)
  BY <1>3, <1>9, <1>10, FS_Injection
<1>c. ASSUME NEW r \in 1 .. n
      PROVE  Nth(costs, r) \in D /\ Rank(costs, Nth(costs, r)) = r - 1
  <2>1. PICK k \in D : f[k] = r - 1
    <3>1. r - 1 \in 0 .. n - 1
      OBVIOUS
    <3> QED BY <1>11, <3>1 DEF Surjection
  <2>2. Rank(costs, k) = r - 1
    BY <2>1 DEF f
  <2> QED BY <1>1, <2>2 DEF Nth
<1> QED BY <1>a, <1>b, <1>c

(* So are those that sizewise_altwords keeps: it invents none. *)
LEMMA SizewiseType ==
  ASSUME NEW B, NEW alts \in AltsOf(B)
  PROVE  Sizewise(alts) \in AltsOf(B)
<1> DEFINE target == (MaxInQ * 4) \div 5
           costs == [i \in DOMAIN alts |-> alts[i].delta]
<1>1. MaxInQ \in Nat /\ target \in Nat /\ target <= MaxInQ
  BY SearchAssumption
<1>2. /\ Len(alts) \in Nat /\ alts \in Seq(AltOf(B)) /\ DOMAIN alts = 1 .. Len(alts)
      /\ \A i \in DOMAIN alts : alts[i] \in AltOf(B)
  BY SeqFun DEF AltsOf
<1>3. Sizewise(alts) = IF target > 0 /\ Len(alts) <= MaxInQ THEN alts
                       ELSE [r \in 1 .. target |-> alts[Nth(costs, r)]]
  BY DEF Sizewise, Map
<1>6. costs \in [1 .. Len(alts) -> Nat]
  BY <1>2 DEF AltOf
<1> HIDE DEF target, costs
<1>4. CASE target > 0 /\ Len(alts) <= MaxInQ
  BY <1>3, <1>4
<1>5. CASE ~(target > 0 /\ Len(alts) <= MaxInQ)
  <2>1. ASSUME NEW r \in 1 .. target PROVE alts[Nth(costs, r)] \in AltOf(B)
    <3>1. r \in 1 .. Len(alts)
      BY <1>1, <1>2, <1>5
    <3>2. Nth(costs, r) \in 1 .. Len(alts)
      BY <3>1, <1>2, <1>6, RankIsPlace
    <3> QED BY <3>2, <1>2
  <2>2. [r \in 1 .. target |-> alts[Nth(costs, r)]] \in Seq(AltOf(B))
    <3>1. [r \in 1 .. target |-> alts[Nth(costs, r)]] \in [1 .. target -> AltOf(B)]
      BY <2>1
    <3> QED BY <3>1, <1>1, FunSeq
  <2> QED BY <1>3, <1>5, <2>2 DEF AltsOf
<1> QED BY <1>4, <1>5
-----------------------------------------------------------------------------
(* Paths and tokens. *)

(* One alternative more, at either end. *)
LEMMA OneAlt ==
  ASSUME NEW B, NEW word \in Labels, NEW bt \in B, NEW d \in Nat, NEW alts \in AltsOf(B)
  PROVE  /\ <<[word |-> word, bt |-> bt, delta |-> d]>> \o alts \in AltsOf(B)
         /\ alts \o <<[word |-> word, bt |-> bt, delta |-> d]>> \in AltsOf(B)
<1> DEFINE w == [word |-> word, bt |-> bt, delta |-> d]
<1>1. w \in AltOf(B)
  BY DEF AltOf
<1> HIDE DEF w
<1>2. <<w>> \in Seq(AltOf(B)) /\ alts \in Seq(AltOf(B))
  BY <1>1 DEF AltsOf
<1>3. <<w>> \o alts \in Seq(AltOf(B)) /\ alts \o <<w>> \in Seq(AltOf(B))
  BY <1>2
<1> QED BY <1>3 DEF AltsOf, w

(* Two lists of alternatives, one after the other. *)
LEMMA MoreAlts ==
  ASSUME NEW B, NEW alts \in AltsOf(B), NEW more \in AltsOf(B)
  PROVE  alts \o more \in AltsOf(B)
BY DEF AltsOf

(* A path that reaches a node leaves it a token. *)
LEMMA MergeType ==
  ASSUME NEW B, NEW tok \in TokenOf(B), NEW p \in PathOf(B)
  PROVE  Merge(tok, p) \in TokenOf(B) /\ Merge(tok, p).node = tok.node
<1>1. /\ tok.node \in NodeIds /\ tok.cost \in Nat /\ tok.word \in Labels /\ tok.bt \in B /\ tok.alts \in AltsOf(B)
      /\ DOMAIN tok = {"node", "cost", "word", "bt", "alts"}
  BY DEF TokenOf
<1>2. p.cost \in Nat /\ p.word \in Labels /\ p.bt \in B /\ p.alts \in AltsOf(B)
  BY DEF PathOf
<1>3. CASE p.cost < tok.cost \/ Preferred(p, tok)
  <2> DEFINE d     == tok.cost - p.cost
             later == [i \in DOMAIN tok.alts |-> [tok.alts[i] EXCEPT !.delta = @ + d]]
             older == Sizewise(<<[word |-> tok.word, bt |-> tok.bt, delta |-> d]>> \o later)
             alts  == CASE tok.word = None -> tok.alts
                        [] tok.word # None /\ older = <<>> -> <<>>
                        [] OTHER -> Sizewise(older \o CopyAltwords(p.alts, 0))
  <2>1. d \in Nat
    BY <1>1, <1>2, <1>3 DEF Preferred
  <2>2. Merge(tok, p) = [node |-> tok.node, cost |-> p.cost, word |-> p.word, bt |-> p.bt, alts |-> alts]
    BY <1>3 DEF Merge, Map
  <2>3. later \in AltsOf(B)
    <3> HIDE DEF d
    <3> QED BY <1>1, <2>1, AltType
  <2>4. older \in AltsOf(B)
    <3> HIDE DEF later, d
    <3>1. <<[word |-> tok.word, bt |-> tok.bt, delta |-> d]>> \o later \in AltsOf(B)
      BY <1>1, <2>1, <2>3, OneAlt
    <3> QED BY <3>1, SizewiseType
  <2>5. CopyAltwords(p.alts, 0) \in AltsOf(B)
    BY <1>2, CopyAltwordsType
  <2> HIDE DEF older
  <2>6. Sizewise(older \o CopyAltwords(p.alts, 0)) \in AltsOf(B)
    <3>1. older \o CopyAltwords(p.alts, 0) \in AltsOf(B)
      BY <2>4, <2>5, MoreAlts
    <3> QED BY <3>1, SizewiseType
  <2>7. <<>> \in AltsOf(B)
    BY DEF AltsOf
  <2>8. alts \in AltsOf(B)
    BY <1>1, <2>6, <2>7
  <2> HIDE DEF alts
  <2> QED BY <1>1, <1>2, <2>2, <2>8 DEF TokenOf
<1>4. CASE ~(p.cost < tok.cost \/ Preferred(p, tok))
  <2> DEFINE d     == p.cost - tok.cost
             more == Sizewise(tok.alts \o <<[word |-> p.word, bt |-> p.bt, delta |-> d]>>
                                                \o CopyAltwords(p.alts, d))
             alts == IF tok.word = None THEN tok.alts ELSE more
  <2>1. d \in Nat
    BY <1>1, <1>2, <1>4
  <2>2. Merge(tok, p) = [tok EXCEPT !.alts = alts]
    BY <1>4 DEF Merge
  <2> HIDE DEF d
  <2>3. tok.alts \o <<[word |-> p.word, bt |-> p.bt, delta |-> d]>> \in AltsOf(B)
    BY <1>1, <1>2, <2>1, OneAlt
  <2>4. CopyAltwords(p.alts, d) \in AltsOf(B)
    BY <1>2, <2>1, CopyAltwordsType
  <2>5. more \in AltsOf(B)
    <3>1. tok.alts \o <<[word |-> p.word, bt |-> p.bt, delta |-> d]>> \o CopyAltwords(p.alts, d) \in AltsOf(B)
      BY <2>3, <2>4, MoreAlts
    <3> QED BY <3>1, SizewiseType
  <2> HIDE DEF more
  <2>6. alts \in AltsOf(B)
    BY <1>1, <2>5
  <2> HIDE DEF alts
  <2> QED BY <1>1, <2>2, <2>6 DEF TokenOf
<1> QED BY <1>3, <1>4

(* A token that goes into an arc is a path. *)
LEMMA EnteringType ==
  ASSUME NEW B, NEW tok \in TokenOf(B), NEW a \in ModelArcs, NEW score \in Scores
  PROVE  Entering(tok, a, score) \in PathOf(B)
<1>1. /\ tok.cost \in Nat /\ tok.word \in Labels /\ tok.bt \in B /\ tok.alts \in AltsOf(B)
  BY DEF TokenOf
<1>2. a \in DOMAIN Arcs /\ Arcs[a].ilabel \in Models
  BY DEF ModelArcs
<1>3. Arcs[a].cost \in Nat /\ Arcs[a].olabel \in Labels
  BY <1>2, ArcTypes
<1>4. score[Arcs[a].ilabel] \in Nat
  BY <1>2, GrammarAssumption
<1>5. tok.cost + score[Arcs[a].ilabel] + Arcs[a].cost \in Nat
  BY <1>1, <1>3, <1>4
<1>6. (IF Arcs[a].olabel # Epsilon THEN Arcs[a].olabel ELSE tok.word) \in Labels
  BY <1>1, <1>3
<1> QED BY <1>1, <1>5, <1>6 DEF Entering, PathOf

(* The cheaper of two paths on an arc is one of them. *)
LEMMA MaximizeType ==
  ASSUME NEW T, NEW paths \in Seq(T), NEW p \in T
  PROVE  Maximize(paths, p) \in Seq(T)
<1> DEFINE i == SelectInSeq(paths, LAMBDA q : q.arc = p.arc)
           n == Len(paths)
           longer == <<p>> \o paths
           better == [k \in DOMAIN paths |-> IF k = i THEN p ELSE paths[k]]
<1>1. longer \in Seq(T)
  OBVIOUS
<1>2. n \in Nat /\ DOMAIN paths = 1 .. n /\ \A k \in 1 .. n : paths[k] \in T
  OBVIOUS
<1>3. Maximize(paths, p) \in {paths, longer, better}
  BY DEF Maximize
<1> HIDE DEF i, longer, n
<1>4. better \in [1 .. n -> T]
  BY <1>2
<1>5. better \in Seq(T)
  BY <1>2, <1>4, FunSeq
<1> QED BY <1>1, <1>3, <1>5

(* The paths within the beam cost less than it is wide. *)
LEMMA PrunedType ==
  ASSUME NEW B, NEW paths \in Seq(PathOf(B))
  PROVE  /\ Pruned(paths) \in Seq(PathOf(B))
         /\ \A i \in DOMAIN Pruned(paths) : Pruned(paths)[i].cost < PruneDelta
<1> DEFINE costs == {paths[i].cost : i \in DOMAIN paths}
           best == IF paths = <<>> THEN 0 ELSE Min(costs)
           S == {p \in Range(paths) : p.cost < best + PruneDelta}
           kept == Only(paths, S)
           less == [i \in DOMAIN kept |-> [kept[i] EXCEPT !.cost = @ - best]]
<1>1. Pruned(paths) = less
  BY DEF Pruned, Map
<1>2. Range(paths) \subseteq PathOf(B) /\ DOMAIN paths = 1 .. Len(paths) /\ Len(paths) \in Nat
  BY SeqFun
<1>3. PruneDelta \in Nat
  BY SearchAssumption
<1>4. ASSUME NEW p \in PathOf(B) PROVE p.cost \in Nat
  BY DEF PathOf
<1>5. best \in Nat /\ \A p \in Range(paths) : best <= p.cost
  <2>1. CASE paths = <<>>
    BY <2>1, <1>2 DEF Range
  <2>2. CASE paths # <<>>
    <3>1. costs \in SUBSET Nat /\ \A p \in Range(paths) : p.cost \in costs
      BY <1>2, <1>4 DEF Range
    <3>2. costs # {}
      <4>1. Len(paths) # 0
        BY <2>2, EmptySeq
      <4>2. 1 \in DOMAIN paths
        BY <4>1, <1>2
      <4> QED BY <4>2
    <3> HIDE DEF costs
    <3>3. Min(costs) \in costs /\ \A x \in costs : Min(costs) <= x
      BY <3>1, <3>2, MinIn
    <3> QED BY <2>2, <3>1, <3>3
  <2> QED BY <2>1, <2>2
<1> HIDE DEF best
<1>6. kept \in Seq(PathOf(B)) /\ Range(kept) = Range(paths) \cap S
  <2> HIDE DEF S
  <2> QED BY OnlyKeeps
<1>7. ASSUME NEW i \in DOMAIN kept
      PROVE  kept[i] \in PathOf(B) /\ kept[i].cost \in Nat /\ best <= kept[i].cost /\ kept[i].cost < best + PruneDelta
  <2>1. kept[i] \in Range(kept)
    BY DEF Range
  <2> HIDE DEF kept
  <2>2. kept[i] \in Range(paths) /\ kept[i].cost < best + PruneDelta
    BY <2>1, <1>6
  <2> QED BY <2>2, <1>2, <1>4, <1>5
<1> HIDE DEF kept, S
<1>8. ASSUME NEW i \in DOMAIN kept
      PROVE  less[i] \in PathOf(B) /\ less[i].cost < PruneDelta
  <2> DEFINE c == kept[i].cost - best
  <2>1. c \in Nat /\ c < PruneDelta
    BY <1>3, <1>5, <1>7
  <2> HIDE DEF c
  <2>2. [kept[i] EXCEPT !.cost = c] \in PathOf(B) /\ [kept[i] EXCEPT !.cost = c].cost = c
    BY <1>7, <2>1 DEF PathOf
  <2> QED BY <2>1, <2>2 DEF c
<1>9. less \in [1 .. Len(kept) -> PathOf(B)] /\ Len(kept) \in Nat /\ DOMAIN less = DOMAIN kept
  BY <1>6, <1>8, SeqFun
<1> HIDE DEF less
<1>10. less \in Seq(PathOf(B))
  BY <1>9, FunSeq
<1> QED BY <1>1, <1>8, <1>9, <1>10

(* The paths of a frame after a token has gone into its arcs. *)
LEMMA EnterArcsType ==
  ASSUME NEW B, NEW paths \in Seq(PathOf(B)), NEW tok \in TokenOf(B), NEW score \in Scores
  PROVE  EnterArcs(paths, tok, score) \in Seq(PathOf(B))
<1> DEFINE list == Leaving(tok.node, Models)
           n == Len(list)
           D == 1 .. n
           Step(acc, i) == Maximize(acc, Entering(tok, list[i], score))
           op == [p \in Seq(PathOf(B)) \X D |-> Step(p[1], p[2])]
           iter == CHOOSE g : g = [d \in SUBSET D |->
                                     IF d = {} THEN paths ELSE Step(g[d \ {Max(d)}], Max(d))]
<1>0. n \in Nat /\ DOMAIN list = D
  BY LeavingArcs, SeqFun
<1>1. EnterArcs(paths, tok, score) = iter[D]
  BY <1>0, Zenon DEF EnterArcs, FoldLeft, MapThenFoldSet
<1>2. \A a \in Seq(PathOf(B)), i \in D : Step(a, i) \in Seq(PathOf(B))
  <2> TAKE a \in Seq(PathOf(B)), i \in D
  <2>1. list[i] \in ModelArcs
    BY <1>0, LeavingArcs DEF ModelArcs, Range
  <2>2. Entering(tok, list[i], score) \in PathOf(B)
    BY <2>1, EnteringType
  <2> QED BY <2>2, MaximizeType
<1> HIDE DEF Step
<1>3. op \in [Seq(PathOf(B)) \X D -> Seq(PathOf(B))] /\ \A a \in Seq(PathOf(B)), i \in D : op[<<a, i>>] = Step(a, i)
  BY <1>2
<1> HIDE DEF op
<1>4. PICK g : IsRun(g, Seq(PathOf(B)), n, paths, op)
  BY <1>0, <1>3, FoldExists
<1>5. ASSUME NEW d \in SUBSET D, d # {}
      PROVE  op[<<g[d \ {Max(d)}], Max(d)>>] = Step(g[d \ {Max(d)}], Max(d))
  <2>1. g[d \ {Max(d)}] \in Seq(PathOf(B))
    BY <1>4 DEF IsRun
  <2>2. Max(d) \in D
    BY <1>0, <1>5, MaxIn
  <2> QED BY <1>3, <2>1, <2>2
<1>6. g = [d \in SUBSET D |-> IF d = {} THEN paths ELSE Step(g[d \ {Max(d)}], Max(d))]
  BY <1>4, <1>5 DEF IsRun
<1>7. iter = [d \in SUBSET D |-> IF d = {} THEN paths ELSE Step(iter[d \ {Max(d)}], Max(d))]
  BY <1>6, Zenon
<1> HIDE DEF iter
<1>8. iter[{}] \in Seq(PathOf(B))
  BY <1>0, <1>7
<1>9. ASSUME NEW k \in Nat, k + 1 <= n, iter[1 .. k] \in Seq(PathOf(B))
      PROVE  iter[1 .. k + 1] \in Seq(PathOf(B))
  <2>1. /\ 1 .. k + 1 \in SUBSET D /\ 1 .. k + 1 # {} /\ k + 1 \in D
        /\ (1 .. k + 1) \ {k + 1} = 1 .. k /\ Max(1 .. k + 1) = k + 1
    BY <1>0, <1>9, UpToNext
  <2>2. iter[1 .. k + 1] = Step(iter[1 .. k], k + 1)
    BY <1>7, <2>1
  <2> QED BY <1>2, <1>9, <2>1, <2>2
<1>10. iter[D] \in Seq(PathOf(B))
  BY <1>0, <1>8, <1>9, FoldStays
<1> QED BY <1>1, <1>10

(* The nodes the words go on from, with what they trace back to. *)
LEMMA FromNodesToHmmsType ==
  ASSUME NEW B, active \in Seq(PathOf(B)), nodes \in Seq(TokenOf(Nil)), NEW score \in Scores,
         \A i \in DOMAIN nodes : nodes[i].cost < MAXcostdata => nodes[i] \in TokenOf(B)
  PROVE  FromNodesToHmms(score) \in Seq(PathOf(B))
<1> DEFINE going == {tok \in Range(nodes) : tok.node # EndNode /\ tok.cost < MAXcostdata}
           staying == [i \in DOMAIN active |->
                         [active[i] EXCEPT !.cost = @ + score[Arcs[active[i].arc].ilabel]]]
           list == Only(nodes, going)
           n == Len(list)
           D == 1 .. n
           Step(acc, i) == EnterArcs(acc, list[i], score)
           op == [p \in Seq(PathOf(B)) \X D |-> Step(p[1], p[2])]
           iter == CHOOSE g : g = [d \in SUBSET D |->
                                     IF d = {} THEN staying ELSE Step(g[d \ {Max(d)}], Max(d))]
<1>0. /\ n \in Nat /\ DOMAIN list = D
      /\ staying \in Seq(PathOf(B))
  <2>1. n \in Nat /\ DOMAIN list = D
    <3> HIDE DEF going
    <3> QED BY OnlyKeeps, SeqFun
  <2>2. Len(active) \in Nat /\ DOMAIN active = 1 .. Len(active) /\ \A i \in DOMAIN active : active[i] \in PathOf(B)
    BY SeqFun
  <2>3. ASSUME NEW i \in DOMAIN active PROVE staying[i] \in PathOf(B)
    <3> DEFINE more == score[Arcs[active[i].arc].ilabel]
    <3>1. active[i] \in PathOf(B) /\ active[i].arc \in ModelArcs /\ active[i].cost \in Nat
      BY <2>2 DEF PathOf
    <3>2. more \in Nat
      BY <3>1, GrammarAssumption DEF ModelArcs
    <3>3. active[i].cost + more \in Nat
      BY <3>1, <3>2
    <3> HIDE DEF more
    <3>4. [active[i] EXCEPT !.cost = @ + more] \in PathOf(B)
      BY <3>1, <3>3 DEF PathOf
    <3> QED BY <3>4 DEF more
  <2>4. staying \in [1 .. Len(active) -> PathOf(B)]
    BY <2>2, <2>3
  <2> HIDE DEF staying
  <2>5. staying \in Seq(PathOf(B))
    BY <2>2, <2>4, FunSeq
  <2> QED BY <2>1, <2>5
<1>1. FromNodesToHmms(score) = iter[D]
  BY <1>0, Zenon DEF FromNodesToHmms, Map, FoldLeft, MapThenFoldSet
<1>2. \A a \in Seq(PathOf(B)), i \in D : Step(a, i) \in Seq(PathOf(B))
  <2> TAKE a \in Seq(PathOf(B)), i \in D
  <2>1. list[i] \in TokenOf(B)
    <3>1. list[i] \in Range(nodes) /\ list[i] \in going
      <4> HIDE DEF going
      <4>1. Range(list) = Range(nodes) \cap going
        BY OnlyKeeps
      <4>2. list[i] \in Range(list)
        BY <1>0 DEF Range
      <4> QED BY <4>1, <4>2
    <3> QED BY <3>1 DEF Range
  <2> HIDE DEF list
  <2> QED BY <2>1, EnterArcsType
<1> HIDE DEF Step
<1>3. op \in [Seq(PathOf(B)) \X D -> Seq(PathOf(B))] /\ \A a \in Seq(PathOf(B)), i \in D : op[<<a, i>>] = Step(a, i)
  BY <1>2
<1> HIDE DEF op
<1>4. PICK g : IsRun(g, Seq(PathOf(B)), n, staying, op)
  BY <1>0, <1>3, FoldExists
<1>5. ASSUME NEW d \in SUBSET D, d # {}
      PROVE  op[<<g[d \ {Max(d)}], Max(d)>>] = Step(g[d \ {Max(d)}], Max(d))
  <2>1. g[d \ {Max(d)}] \in Seq(PathOf(B))
    BY <1>4 DEF IsRun
  <2>2. Max(d) \in D
    BY <1>0, <1>5, MaxIn
  <2> QED BY <1>3, <2>1, <2>2
<1>6. g = [d \in SUBSET D |-> IF d = {} THEN staying ELSE Step(g[d \ {Max(d)}], Max(d))]
  BY <1>4, <1>5 DEF IsRun
<1>7. iter = [d \in SUBSET D |-> IF d = {} THEN staying ELSE Step(iter[d \ {Max(d)}], Max(d))]
  BY <1>6, Zenon
<1> HIDE DEF iter
<1>8. iter[{}] \in Seq(PathOf(B))
  BY <1>0, <1>7
<1>9. ASSUME NEW k \in Nat, k + 1 <= n, iter[1 .. k] \in Seq(PathOf(B))
      PROVE  iter[1 .. k + 1] \in Seq(PathOf(B))
  <2>1. /\ 1 .. k + 1 \in SUBSET D /\ 1 .. k + 1 # {} /\ k + 1 \in D
        /\ (1 .. k + 1) \ {k + 1} = 1 .. k /\ Max(1 .. k + 1) = k + 1
    BY <1>0, <1>9, UpToNext
  <2>2. iter[1 .. k + 1] = Step(iter[1 .. k], k + 1)
    BY <1>7, <2>1
  <2> QED BY <1>2, <1>9, <2>1, <2>2
<1>10. iter[D] \in Seq(PathOf(B))
  BY <1>0, <1>8, <1>9, FoldStays
<1> QED BY <1>1, <1>10

(* A node has an index when it is in the list. *)
LEMMA IndexOfIs ==
  ASSUME NEW T, NEW list \in Seq(T), NEW node
  PROVE  \/ IndexOf(list, node) = 0 /\ \A k \in DOMAIN list : list[k].node # node
         \/ IndexOf(list, node) \in DOMAIN list /\ list[IndexOf(list, node)].node = node
<1> DEFINE I == {i \in 1 .. Len(list) : list[i].node = node}
<1>1. IndexOf(list, node) = IF I # {} THEN Min(I) ELSE 0
  BY DEF IndexOf, SelectInSeq
<1>2. DOMAIN list = 1 .. Len(list) /\ I \in SUBSET Nat
  BY SeqFun
<1>3. CASE I = {}
  BY <1>1, <1>2, <1>3
<1>4. CASE I # {}
  <2>1. Min(I) \in I
    <3> HIDE DEF I
    <3> QED BY <1>2, <1>4, MinIn
  <2> QED BY <1>1, <1>2, <1>4, <2>1
<1> QED BY <1>3, <1>4

(* The tokens of a list are on nodes of their own. *)
Apart(list) == \A i, j \in DOMAIN list : list[i].node = list[j].node => i = j

TokensOf(B) == {list \in Seq(TokenOf(B)) : Apart(list)}

(* A node that had no token gets one. *)
LEMMA NewTokenFirst ==
  ASSUME NEW B, NEW list \in TokensOf(B), NEW tok \in TokenOf(B), \A k \in DOMAIN list : list[k].node # tok.node
  PROVE  <<tok>> \o list \in TokensOf(B)
<1> DEFINE r == <<tok>> \o list
           n == Len(list)
<1>1. list \in Seq(TokenOf(B)) /\ <<tok>> \in Seq(TokenOf(B)) /\ n \in Nat
  BY DEF TokensOf
<1>2. /\ r \in Seq(TokenOf(B)) /\ Len(r) = n + 1 /\ DOMAIN r = 1 .. n + 1 /\ DOMAIN list = 1 .. n
      /\ r[1] = tok /\ \A i \in 1 .. n : r[i + 1] = list[i]
  BY <1>1
<1> HIDE DEF r
<1>3. ASSUME NEW i \in DOMAIN r, NEW j \in DOMAIN r, r[i].node = r[j].node PROVE i = j
  <2>1. (i = 1 \/ i - 1 \in 1 .. n) /\ (j = 1 \/ j - 1 \in 1 .. n)
    BY <1>1, <1>2
  <2>2. (i - 1 \in 1 .. n => r[i] = list[i - 1]) /\ (j - 1 \in 1 .. n => r[j] = list[j - 1])
    <3>1. i = (i - 1) + 1 /\ j = (j - 1) + 1
      BY <1>2
    <3> QED BY <1>2, <3>1
  <2>3. CASE i = 1 /\ j - 1 \in 1 .. n
    BY <2>2, <2>3, <1>2, <1>3
  <2>4. CASE j = 1 /\ i - 1 \in 1 .. n
    BY <2>2, <2>4, <1>2, <1>3
  <2>5. CASE i - 1 \in 1 .. n /\ j - 1 \in 1 .. n
    <3>1. i - 1 = j - 1
      BY <2>2, <2>5, <1>2, <1>3 DEF TokensOf, Apart
    <3> QED BY <3>1, <1>2
  <2> QED BY <2>1, <2>3, <2>4, <2>5
<1> QED BY <1>2, <1>3 DEF TokensOf, Apart, r

(* A node keeps its place. *)
LEMMA TokenChanged ==
  ASSUME NEW B, NEW list \in TokensOf(B), NEW i \in DOMAIN list, NEW tok \in TokenOf(B), tok.node = list[i].node
  PROVE  [list EXCEPT ![i] = tok] \in TokensOf(B)
<1> DEFINE r == [list EXCEPT ![i] = tok]
<1>1. list \in Seq(TokenOf(B))
  BY DEF TokensOf
<1>2. r \in Seq(TokenOf(B)) /\ DOMAIN r = DOMAIN list
  BY <1>1
<1>3. \A k \in DOMAIN list : r[k].node = list[k].node
  OBVIOUS
<1> HIDE DEF r
<1> QED BY <1>2, <1>3 DEF TokensOf, Apart, r

(* After a frame every node that a path has reached has one token. *)
LEMMA FromHmmsToNodesType ==
  ASSUME NEW B, NEW paths \in Seq(PathOf(B))
  PROVE  FromHmmsToNodes(paths) \in TokensOf(B)
<1> DEFINE list == paths
           n == Len(list)
           D == 1 .. n
           Step(acc, i) ==
             LET node == Arcs[list[i].arc].to
                 k    == IndexOf(acc, node)
             IN  IF k = 0
                 THEN <<[node |-> node, cost |-> list[i].cost, word |-> list[i].word, bt |-> list[i].bt,
                         alts |-> Arriving(node, list[i].alts)]>> \o acc
                 ELSE [acc EXCEPT ![k] = Merge(@, list[i])]
           op == [p \in TokensOf(B) \X D |-> Step(p[1], p[2])]
           iter == CHOOSE g : g = [d \in SUBSET D |->
                                     IF d = {} THEN <<>> ELSE Step(g[d \ {Max(d)}], Max(d))]
<1>0. /\ n \in Nat /\ DOMAIN list = D /\ \A i \in D : list[i] \in PathOf(B)
      /\ <<>> \in TokensOf(B)
  <2>1. <<>> \in Seq(TokenOf(B)) /\ DOMAIN <<>> = {}
    OBVIOUS
  <2>2. <<>> \in TokensOf(B)
    BY <2>1 DEF TokensOf, Apart
  <2> QED BY <2>2, SeqFun
<1>1. FromHmmsToNodes(paths) = iter[D]
  BY <1>0, Zenon DEF FromHmmsToNodes, FoldLeft, MapThenFoldSet
<1>2. \A a \in TokensOf(B), i \in D : Step(a, i) \in TokensOf(B)
  <2> TAKE a \in TokensOf(B), i \in D
  <2> DEFINE p == list[i]
             node == Arcs[p.arc].to
             k == IndexOf(a, node)
             tok == [node |-> node, cost |-> p.cost, word |-> p.word, bt |-> p.bt, alts |-> Arriving(node, p.alts)]
  <2>0. Step(a, i) = IF k = 0 THEN <<tok>> \o a ELSE [a EXCEPT ![k] = Merge(@, p)]
    OBVIOUS
  <2>1. p \in PathOf(B)
    BY <1>0
  <2>2. p.arc \in DOMAIN Arcs /\ p.cost \in Nat /\ p.word \in Labels /\ p.bt \in B /\ p.alts \in AltsOf(B)
    BY <2>1 DEF PathOf, ModelArcs
  <2>3. node \in NodeIds /\ Arriving(node, p.alts) \in AltsOf(B)
    BY <2>2, ArcTypes, CopyAltwordsType, 0 \in Nat DEF Arriving
  <2>4. tok \in TokenOf(B) /\ tok.node = node
    BY <2>2, <2>3 DEF TokenOf
  <2>5. a \in Seq(TokenOf(B))
    BY DEF TokensOf
  <2> HIDE DEF Step, tok, node, p, list
  <2>6. CASE k = 0 /\ \A j \in DOMAIN a : a[j].node # node
    <3>1. <<tok>> \o a \in TokensOf(B)
      BY <2>4, <2>6, NewTokenFirst
    <3> QED BY <2>0, <2>6, <3>1
  <2>7. CASE k \in DOMAIN a /\ a[k].node = node
    <3>1. a[k] \in TokenOf(B) /\ k # 0
      BY <2>5, <2>7, SeqFun
    <3>2. Merge(a[k], p) \in TokenOf(B) /\ Merge(a[k], p).node = a[k].node
      BY <2>1, <3>1, MergeType
    <3> HIDE DEF k
    <3>3. [a EXCEPT ![k] = Merge(a[k], p)] \in TokensOf(B)
      BY <2>7, <3>2, TokenChanged
    <3> QED BY <2>0, <3>1, <3>3
  <2> QED BY <2>5, <2>6, <2>7, IndexOfIs
<1> HIDE DEF Step
<1>3. op \in [TokensOf(B) \X D -> TokensOf(B)] /\ \A a \in TokensOf(B), i \in D : op[<<a, i>>] = Step(a, i)
  BY <1>2
<1> HIDE DEF op
<1>4. PICK g : IsRun(g, TokensOf(B), n, <<>>, op)
  BY <1>0, <1>3, FoldExists
<1>5. ASSUME NEW d \in SUBSET D, d # {}
      PROVE  op[<<g[d \ {Max(d)}], Max(d)>>] = Step(g[d \ {Max(d)}], Max(d))
  <2>1. g[d \ {Max(d)}] \in TokensOf(B)
    BY <1>4 DEF IsRun
  <2>2. Max(d) \in D
    BY <1>0, <1>5, MaxIn
  <2> QED BY <1>3, <2>1, <2>2
<1>6. g = [d \in SUBSET D |-> IF d = {} THEN <<>> ELSE Step(g[d \ {Max(d)}], Max(d))]
  BY <1>4, <1>5 DEF IsRun
<1>7. iter = [d \in SUBSET D |-> IF d = {} THEN <<>> ELSE Step(iter[d \ {Max(d)}], Max(d))]
  BY <1>6, Zenon
<1> HIDE DEF iter
<1>8. iter[{}] \in TokensOf(B)
  BY <1>0, <1>7
<1>9. ASSUME NEW k \in Nat, k + 1 <= n, iter[1 .. k] \in TokensOf(B)
      PROVE  iter[1 .. k + 1] \in TokensOf(B)
  <2>1. /\ 1 .. k + 1 \in SUBSET D /\ 1 .. k + 1 # {} /\ k + 1 \in D
        /\ (1 .. k + 1) \ {k + 1} = 1 .. k /\ Max(1 .. k + 1) = k + 1
    BY <1>0, <1>9, UpToNext
  <2>2. iter[1 .. k + 1] = Step(iter[1 .. k], k + 1)
    BY <1>7, <2>1
  <2> QED BY <1>2, <1>9, <2>1, <2>2
<1>10. iter[D] \in TokensOf(B)
  BY <1>0, <1>8, <1>9, FoldStays
<1> QED BY <1>1, <1>10
-----------------------------------------------------------------------------
(* The order of the queue. *)

(* A list in order stays so when some leave. *)
LEMMA OnlyInOrder ==
  ASSUME NEW toks, NEW list \in Seq(Wtokens), NEW S, InOrder(toks, list)
  PROVE  InOrder(toks, Only(list, S)) /\ Len(Only(list, S)) <= Len(list)
<1> DEFINE r == Only(list, S)
<1>1. /\ r \in Seq(Wtokens)
      /\ \A j, k \in DOMAIN r : j < k => \E x, y \in DOMAIN list : x < y /\ r[j] = list[x] /\ r[k] = list[y]
  BY OnlyKeeps
<1>2. Len(r) <= Len(list)
  <2>1. Len(r) = Cardinality({i \in DOMAIN list : list[i] \in S})
    BY OnlyLen
  <2>2. Len(list) \in Nat /\ DOMAIN list = 1 .. Len(list)
    BY SeqFun
  <2>3. IsFiniteSet(1 .. Len(list)) /\ Cardinality(1 .. Len(list)) = Len(list)
    BY <2>2, UpTo
  <2>4. {i \in DOMAIN list : list[i] \in S} \in SUBSET (1 .. Len(list))
    BY <2>2
  <2> QED BY <2>1, <2>3, <2>4, FS_Subset
<1> HIDE DEF r
<1>3. DOMAIN r \subseteq Int
  BY <1>1
<1>4. ASSUME NEW j \in DOMAIN r, NEW k \in DOMAIN r, j < k
      PROVE  r[j] # r[k] /\ toks[r[j]].cost >= toks[r[k]].cost
  <2>1. PICK x \in DOMAIN list, y \in DOMAIN list : x < y /\ r[j] = list[x] /\ r[k] = list[y]
    BY <1>1, <1>4
  <2>2. x # y
    <3>1. x \in Int /\ y \in Int
      OBVIOUS
    <3> QED BY <2>1, <3>1
  <2> QED BY <2>1, <2>2 DEF InOrder, IsInjective
<1>5. \A j, k \in DOMAIN r : r[j] = r[k] => j = k
  BY <1>3, <1>4
<1> QED BY <1>2, <1>4, <1>5 DEF InOrder, IsInjective, r

(* So does a list the best first. *)
LEMMA OnlyClimbs ==
  ASSUME NEW toks, NEW list \in Seq(Wtokens), NEW S, Climbs(toks, list)
  PROVE  Climbs(toks, Only(list, S))
<1> DEFINE r == Only(list, S)
<1>1. /\ r \in Seq(Wtokens)
      /\ \A j, k \in DOMAIN r : j < k => \E x, y \in DOMAIN list : x < y /\ r[j] = list[x] /\ r[k] = list[y]
  BY OnlyKeeps
<1> HIDE DEF r
<1>2. DOMAIN r \subseteq Int
  BY <1>1
<1>3. ASSUME NEW j \in DOMAIN r, NEW k \in DOMAIN r, j < k
      PROVE  r[j] # r[k] /\ toks[r[j]].cost <= toks[r[k]].cost
  <2>1. PICK x \in DOMAIN list, y \in DOMAIN list : x < y /\ r[j] = list[x] /\ r[k] = list[y]
    BY <1>1, <1>3
  <2>2. x \in Int /\ y \in Int
    OBVIOUS
  <2> QED BY <2>1, <2>2 DEF Climbs, IsInjective
<1>4. \A j, k \in DOMAIN r : r[j] = r[k] => j = k
  BY <1>2, <1>3
<1> QED BY <1>3, <1>4 DEF Climbs, IsInjective, r

(* The words of a frame stay in order when some leave. *)
LEMMA OnlyListed ==
  ASSUME NEW toks, NEW flags, NEW f, NEW list \in Seq(Wtokens), NEW S, Listed(toks, flags, f, list), MaxInQ \in Nat
  PROVE  Listed(toks, flags, f, Only(list, S))
<1>1. Len(Only(list, S)) <= Len(list)
  <2>1. Len(Only(list, S)) = Cardinality({i \in DOMAIN list : list[i] \in S})
    BY OnlyLen
  <2>2. Len(list) \in Nat /\ DOMAIN list = 1 .. Len(list)
    BY SeqFun
  <2>3. IsFiniteSet(1 .. Len(list)) /\ Cardinality(1 .. Len(list)) = Len(list)
    BY <2>2, UpTo
  <2>4. {i \in DOMAIN list : list[i] \in S} \in SUBSET (1 .. Len(list))
    BY <2>2
  <2> QED BY <2>1, <2>3, <2>4, FS_Subset
<1>2. Only(list, S) \in Seq(Wtokens)
  BY OnlyKeeps
<1>3. Len(Only(list, S)) <= MaxInQ
  <2>1. Len(Only(list, S)) \in Nat /\ Len(list) \in Nat /\ Len(list) <= MaxInQ
    BY <1>2 DEF Listed
  <2> QED BY <1>1, <2>1
<1> QED BY <1>3, OnlyClimbs, OnlyInOrder DEF Listed

(* Sorting puts the words the best first, and changes nothing else. *)
LEMMA SortedIs ==
  ASSUME NEW list \in Seq(Wtokens), wtoken \in [Wtokens -> Word], IsInjective(list)
  PROVE  /\ Sorted(list) \in Seq(Wtokens) /\ Len(Sorted(list)) = Len(list)
         /\ Range(Sorted(list)) \subseteq Range(list) /\ Climbs(wtoken, Sorted(list))
<1> DEFINE n == Len(list)
           costs == [i \in DOMAIN list |-> wtoken[list[i]].cost]
           s == [r \in DOMAIN list |-> list[Nth(costs, r)]]
<1>1. n \in Nat /\ DOMAIN list = 1 .. n /\ \A i \in 1 .. n : list[i] \in Wtokens
  BY SeqFun
<1>2. costs \in [1 .. n -> Nat]
  BY <1>1 DEF Word
<1>3. /\ \A i, j \in 1 .. n : costs[i] < costs[j] => Rank(costs, i) < Rank(costs, j)
      /\ \A r \in 1 .. n : Nth(costs, r) \in 1 .. n /\ Rank(costs, Nth(costs, r)) = r - 1
  BY <1>1, <1>2, RankIsPlace
<1>4. Sorted(list) = s
  BY DEF Sorted, Map
<1>5. \A i \in 1 .. n : costs[i] = wtoken[list[i]].cost
  BY <1>1
<1> HIDE DEF costs
<1>6. s \in [1 .. n -> Wtokens]
  BY <1>1, <1>3
<1>7. s \in Seq(Wtokens) /\ Len(s) = n /\ DOMAIN s = 1 .. n
  BY <1>1, <1>6, FunSeq
<1>8. Range(s) \subseteq Range(list)
  BY <1>1, <1>3 DEF Range
<1>9. ASSUME NEW i \in 1 .. n, NEW j \in 1 .. n, i < j
      PROVE  wtoken[s[i]].cost <= wtoken[s[j]].cost
  <2> DEFINE x == Nth(costs, i)
             y == Nth(costs, j)
  <2>1. x \in 1 .. n /\ y \in 1 .. n /\ Rank(costs, x) = i - 1 /\ Rank(costs, y) = j - 1
    BY <1>3
  <2>2. s[i] = list[x] /\ s[j] = list[y]
    BY <1>1
  <2> HIDE DEF x, y
  <2>3. ~(costs[y] < costs[x])
    <3>1. ~(Rank(costs, y) < Rank(costs, x))
      BY <2>1, <1>9
    <3> QED BY <3>1, <2>1, <1>3
  <2>4. costs[x] \in Nat /\ costs[y] \in Nat
    BY <1>2, <2>1
  <2>5. costs[x] <= costs[y]
    BY <2>3, <2>4
  <2> QED BY <2>1, <2>2, <2>5, <1>5
<1>10. \A i, j \in 1 .. n : s[i] = s[j] => i = j
  <2> SUFFICES ASSUME NEW i \in 1 .. n, NEW j \in 1 .. n, s[i] = s[j] PROVE i = j
    OBVIOUS
  <2>1. Nth(costs, i) = Nth(costs, j)
    BY <1>1, <1>3 DEF IsInjective
  <2>2. i - 1 = j - 1
    BY <1>3, <2>1
  <2> QED BY <2>2
<1> HIDE DEF s
<1> QED BY <1>4, <1>7, <1>8, <1>9, <1>10 DEF Climbs, IsInjective

(* Sorting the lists of some frames keeps their words, and each list in the  *)
(* order of its flag.                                                        *)
LEMMA SortedAtIs ==
  ASSUME NEW f \in DOMAIN lattice, NEW frames, lattice[f] \in Seq(Wtokens),
         wtoken \in [Wtokens -> Word], Listed(wtoken, sorted, f, lattice[f])
  PROVE  /\ SortedAt(frames)[f] \in Seq(Wtokens)
         /\ Range(SortedAt(frames)[f]) \subseteq Range(lattice[f])
         /\ Listed(wtoken, sorted \cup frames, f, SortedAt(frames)[f])
<1>1. SortedAt(frames)[f] = IF f \in frames \ sorted THEN Sorted(lattice[f]) ELSE lattice[f]
  BY DEF SortedAt
<1>2. CASE f \in frames \ sorted
  <2>1. IsInjective(lattice[f])
    BY <1>2 DEF Listed, InOrder
  <2>2. /\ Sorted(lattice[f]) \in Seq(Wtokens) /\ Len(Sorted(lattice[f])) = Len(lattice[f])
        /\ Range(Sorted(lattice[f])) \subseteq Range(lattice[f]) /\ Climbs(wtoken, Sorted(lattice[f]))
    BY <2>1, SortedIs
  <2> QED BY <2>2, <1>1, <1>2 DEF Listed
<1>3. CASE f \notin frames \ sorted
  BY <1>1, <1>3 DEF Listed
<1> QED BY <1>2, <1>3

(* The order of a list is that of the words it names. *)
LEMMA ListedAlike ==
  ASSUME NEW toks, NEW toks2, NEW flags, NEW f, NEW list \in Seq(Wtokens), Listed(toks, flags, f, list),
         \A t \in Range(list) : toks2[t] = toks[t]
  PROVE  Listed(toks2, flags, f, list)
<1>1. \A i \in DOMAIN list : toks2[list[i]] = toks[list[i]]
  BY DEF Range
<1> QED BY <1>1 DEF Listed, Climbs, InOrder

(* What the list looks like once an element has been inserted. *)
LEMMA InsertAtIs ==
  ASSUME NEW T, NEW list \in Seq(T), NEW p \in 1 .. Len(list) + 1, NEW x \in T
  PROVE  /\ InsertAt(list, p, x) \in Seq(T) /\ Len(InsertAt(list, p, x)) = Len(list) + 1
         /\ DOMAIN InsertAt(list, p, x) = 1 .. Len(list) + 1
         /\ \A k \in 1 .. Len(list) + 1 :
              InsertAt(list, p, x)[k] = IF k < p THEN list[k] ELSE IF k = p THEN x ELSE list[k - 1]
         /\ Range(InsertAt(list, p, x)) = Range(list) \cup {x}
<1> DEFINE n == Len(list)
           a == SubSeq(list, 1, p - 1)
           b == SubSeq(list, p, n)
           c == a \o <<x>>
           r == InsertAt(list, p, x)
<1>1. n \in Nat /\ DOMAIN list = 1 .. n /\ p \in Int
  BY SeqFun
<1>2. a \in Seq(T) /\ Len(a) = p - 1 /\ \A k \in 1 .. p - 1 : a[k] = list[k]
  BY <1>1
<1>3. b \in Seq(T) /\ Len(b) = n + 1 - p /\ \A k \in 1 .. n + 1 - p : b[k] = list[k + p - 1]
  BY <1>1
<1> HIDE DEF a, b
<1>4. <<x>> \in Seq(T) /\ Len(<<x>>) = 1 /\ <<x>>[1] = x
  OBVIOUS
<1>5. c \in Seq(T) /\ Len(c) = p /\ c[p] = x /\ \A k \in 1 .. p - 1 : c[k] = list[k]
  <2>1. /\ c \in Seq(T) /\ Len(c) = Len(a) + Len(<<x>>)
        /\ \A i \in 1 .. Len(a) + Len(<<x>>) : c[i] = IF i <= Len(a) THEN a[i] ELSE <<x>>[i - Len(a)]
    BY <1>2, <1>4, ConcatProperties
  <2> HIDE DEF c
  <2>2. p \in Nat /\ Len(a) + Len(<<x>>) = p
    BY <1>1, <1>2, <1>4
  <2>3. c[p] = x
    BY <2>1, <2>2, <1>2, <1>4
  <2>4. \A k \in 1 .. p - 1 : c[k] = list[k]
    BY <2>1, <2>2, <1>2
  <2> QED BY <2>1, <2>2, <2>3, <2>4
<1>6. r = c \o b
  BY DEF InsertAt, a, b
<1> HIDE DEF c
<1>7. /\ r \in Seq(T) /\ Len(r) = n + 1
      /\ \A k \in 1 .. n + 1 : r[k] = IF k <= p THEN c[k] ELSE b[k - p]
  <2>1. /\ c \o b \in Seq(T) /\ Len(c \o b) = Len(c) + Len(b)
        /\ \A i \in 1 .. Len(c) + Len(b) : (c \o b)[i] = IF i <= Len(c) THEN c[i] ELSE b[i - Len(c)]
    BY <1>3, <1>5, ConcatProperties
  <2>2. Len(c) + Len(b) = n + 1
    BY <1>1, <1>3, <1>5
  <2> QED BY <2>1, <2>2, <1>5, <1>6
<1> HIDE DEF r, n
<1>8. ASSUME NEW k \in 1 .. n + 1
      PROVE  r[k] = IF k < p THEN list[k] ELSE IF k = p THEN x ELSE list[k - 1]
  <2>1. CASE k < p
    BY <2>1, <1>1, <1>5, <1>7
  <2>2. CASE k = p
    BY <2>2, <1>1, <1>5, <1>7
  <2>3. CASE k > p
    <3>1. k - p \in 1 .. n + 1 - p /\ (k - p) + p - 1 = k - 1
      BY <2>3, <1>1
    <3>2. b[k - p] = list[k - 1]
      BY <3>1, <1>3
    <3>3. r[k] = b[k - p]
      BY <2>3, <1>1, <1>7
    <3> QED BY <2>3, <3>2, <3>3, <1>1
  <2> QED BY <2>1, <2>2, <2>3, <1>1
<1>9. Range(r) = Range(list) \cup {x}
  <2>1. DOMAIN r = 1 .. n + 1
    BY <1>7
  <2>2. ASSUME NEW k \in 1 .. n + 1 PROVE r[k] \in Range(list) \cup {x}
    <3>1. (k < p => k \in 1 .. n) /\ (k > p => k - 1 \in 1 .. n)
      BY <1>1
    <3>2. r[k] \in {list[k], x, list[k - 1]} /\ (k < p => r[k] = list[k]) /\ (k = p => r[k] = x)
          /\ (k > p => r[k] = list[k - 1])
      BY <1>1, <1>8
    <3>3. CASE k < p
      BY <3>1, <3>2, <3>3, <1>1 DEF Range
    <3>4. CASE k > p
      BY <3>1, <3>2, <3>4, <1>1 DEF Range
    <3> QED BY <3>2, <3>3, <3>4, <1>1
  <2>3. ASSUME NEW k \in 1 .. n PROVE list[k] \in Range(r)
    <3>1. CASE k < p
      <4>1. r[k] = list[k] /\ k \in 1 .. n + 1
        BY <3>1, <1>1, <1>8
      <4> QED BY <4>1, <2>1 DEF Range
    <3>2. CASE k >= p
      <4>1. r[k + 1] = list[k] /\ k + 1 \in 1 .. n + 1
        <5>1. k + 1 \in 1 .. n + 1 /\ ~(k + 1 < p) /\ k + 1 # p /\ (k + 1) - 1 = k
          BY <3>2, <1>1
        <5> QED BY <5>1, <1>8
      <4> QED BY <4>1, <2>1 DEF Range
    <3> QED BY <3>1, <3>2, <1>1
  <2>4. x \in Range(r)
    <3>1. p \in 1 .. n + 1 /\ r[p] = x
      BY <1>1, <1>8
    <3> QED BY <3>1, <2>1 DEF Range
  <2> QED BY <2>1, <2>2, <2>3, <2>4, <1>1 DEF Range
<1>10. DOMAIN r = 1 .. n + 1
  BY <1>7
<1> QED BY <1>7, <1>8, <1>9, <1>10 DEF r, n

(* A new word goes after all that cost as much and before all that cost      *)
(* less.                                                                     *)
LEMMA PlaceIs ==
  ASSUME NEW q \in Seq(Wtokens), NEW toks \in [Wtokens -> Word], NEW t \in Wtokens, InOrder(toks, q)
  PROVE  /\ Place(q, toks, t) \in 1 .. Len(q) + 1
         /\ \A k \in 1 .. Len(q) : IF k < Place(q, toks, t) THEN toks[q[k]].cost >= toks[t].cost
                                   ELSE toks[q[k]].cost < toks[t].cost
<1> DEFINE I == {k \in 1 .. Len(q) : toks[q[k]].cost < toks[t].cost}
           i == IF I # {} THEN Min(I) ELSE 0
<1>1. Place(q, toks, t) = IF i = 0 THEN Len(q) + 1 ELSE i
  BY DEF Place, SelectInSeq
<1>2. Len(q) \in Nat /\ DOMAIN q = 1 .. Len(q) /\ \A k \in 1 .. Len(q) : q[k] \in Wtokens
  BY SeqFun
<1>3. toks[t].cost \in Nat /\ \A k \in 1 .. Len(q) : toks[q[k]].cost \in Nat
  BY <1>2 DEF Word
<1>4. CASE I = {}
  BY <1>1, <1>2, <1>3, <1>4
<1>5. CASE I # {}
  <2>1. PICK m \in I : m = Min(I) /\ \A x \in I : m <= x
    <3>1. I \in SUBSET Nat
      OBVIOUS
    <3> HIDE DEF I
    <3> QED BY <1>5, <3>1, MinIn
  <2>2. m \in 1 .. Len(q) /\ toks[q[m]].cost < toks[t].cost
    OBVIOUS
  <2>3. Place(q, toks, t) = m
    <3>1. i = m /\ i # 0
      <4>1. m # 0
        BY <2>2
      <4> HIDE DEF I
      <4> QED BY <4>1, <1>5, <2>1
    <3> QED BY <1>1, <3>1
  <2>4. ASSUME NEW k \in 1 .. Len(q), k < m PROVE toks[q[k]].cost >= toks[t].cost
    <3>1. k \notin I
      <4> HIDE DEF I
      <4>1. m \in Int /\ k \in Int
        BY <2>2
      <4> QED BY <2>1, <2>4, <4>1
    <3>2. ~(toks[q[k]].cost < toks[t].cost)
      BY <3>1
    <3> QED BY <3>2, <1>3
  <2>5. ASSUME NEW k \in 1 .. Len(q), ~(k < m) PROVE toks[q[k]].cost < toks[t].cost
    <3>1. CASE k = m
      BY <3>1, <2>2
    <3>2. CASE k # m
      <4>1. m < k
        BY <3>2, <2>2, <2>5
      <4>2. toks[q[m]].cost >= toks[q[k]].cost
        BY <4>1, <2>2, <1>2 DEF InOrder
      <4>3. toks[q[k]].cost \in Nat /\ toks[q[m]].cost \in Nat
        BY <2>2, <1>3
      <4> HIDE DEF I
      <4> QED BY <4>2, <4>3, <2>2, <1>3
    <3> QED BY <3>1, <3>2
  <2> HIDE DEF I
  <2> QED BY <2>2, <2>3, <2>4, <2>5, <1>2
<1> QED BY <1>4, <1>5

(* A token put in its place. *)
LEMMA InsertedInOrder ==
  ASSUME NEW q \in Seq(Wtokens), NEW toks \in [Wtokens -> Word], NEW t \in Wtokens \ Range(q), InOrder(toks, q)
  PROVE  /\ InsertAt(q, Place(q, toks, t), t) \in Seq(Wtokens)
         /\ Len(InsertAt(q, Place(q, toks, t), t)) = Len(q) + 1
         /\ Range(InsertAt(q, Place(q, toks, t), t)) = Range(q) \cup {t}
         /\ InOrder(toks, InsertAt(q, Place(q, toks, t), t))
<1> DEFINE p == Place(q, toks, t)
           n == Len(q)
           r == InsertAt(q, p, t)
<1>1. /\ p \in 1 .. n + 1
      /\ \A k \in 1 .. n : IF k < p THEN toks[q[k]].cost >= toks[t].cost ELSE toks[q[k]].cost < toks[t].cost
  BY PlaceIs
<1>2. n \in Nat /\ DOMAIN q = 1 .. n /\ \A k \in 1 .. n : q[k] \in Wtokens /\ q[k] # t
  BY SeqFun DEF Range
<1> HIDE DEF p
<1>3. /\ r \in Seq(Wtokens) /\ Len(r) = n + 1 /\ DOMAIN r = 1 .. n + 1 /\ Range(r) = Range(q) \cup {t}
      /\ \A k \in 1 .. n + 1 : r[k] = IF k < p THEN q[k] ELSE IF k = p THEN t ELSE q[k - 1]
  BY <1>1, InsertAtIs
<1> HIDE DEF r
<1>4. toks[t].cost \in Nat /\ \A k \in 1 .. n : toks[q[k]].cost \in Nat
  BY <1>2 DEF Word
<1>5. \A i, j \in 1 .. n : i < j => q[i] # q[j] /\ toks[q[i]].cost >= toks[q[j]].cost
  BY <1>2 DEF InOrder, IsInjective
<1>6. ASSUME NEW i \in 1 .. n + 1, NEW j \in 1 .. n + 1, i < j
      PROVE  r[i] # r[j] /\ toks[r[i]].cost >= toks[r[j]].cost
  <2>1. p \in Int
    BY <1>1
  <2>2. CASE j < p
    <3>1. i < p /\ i \in 1 .. n /\ j \in 1 .. n
      BY <2>1, <2>2, <1>1, <1>2, <1>6
    <3>2. r[i] = q[i] /\ r[j] = q[j]
      BY <2>2, <3>1, <1>3
    <3> QED BY <3>1, <3>2, <1>5, <1>6
  <2>3. CASE j = p
    BY <2>1, <2>3, <1>1, <1>2, <1>3, <1>6
  <2>4. CASE j > p /\ i < p
    <3>1. i \in 1 .. n /\ j - 1 \in 1 .. n /\ i < j - 1
      BY <2>1, <2>4, <1>1, <1>2
    <3> QED BY <3>1, <2>1, <2>4, <1>3, <1>5
  <2>5. CASE j > p /\ i = p
    <3>1. j - 1 \in 1 .. n /\ ~(j - 1 < p)
      BY <2>1, <2>5, <1>2
    <3> QED BY <3>1, <2>1, <2>5, <1>1, <1>2, <1>3, <1>4
  <2>6. CASE j > p /\ i > p
    <3>1. j - 1 \in 1 .. n /\ i - 1 \in 1 .. n /\ i - 1 < j - 1
      BY <2>1, <2>6, <1>1, <1>2, <1>6
    <3> QED BY <3>1, <2>1, <2>6, <1>3, <1>5
  <2> QED BY <2>1, <2>2, <2>3, <2>4, <2>5, <2>6
<1>7. \A i, j \in 1 .. n + 1 : r[i] = r[j] => i = j
  BY <1>2, <1>6
<1>8. InOrder(toks, r)
  BY <1>3, <1>6, <1>7 DEF InOrder, IsInjective
<1> QED BY <1>3, <1>8 DEF r, p

(* The word pushed out costs most. *)
LEMMA TailInOrder ==
  ASSUME NEW toks, NEW q \in Seq(Wtokens), q # <<>>, InOrder(toks, q)
  PROVE  /\ Tail(q) \in Seq(Wtokens) /\ Len(Tail(q)) = Len(q) - 1 /\ InOrder(toks, Tail(q))
         /\ Head(q) \in Wtokens /\ Range(Tail(q)) = Range(q) \ {Head(q)} /\ Head(q) \in Range(q)
         /\ \A t \in Range(Tail(q)) : toks[Head(q)].cost >= toks[t].cost
<1> DEFINE r == Tail(q)
           n == Len(q)
<1>1. n \in Nat /\ n > 0 /\ DOMAIN q = 1 .. n /\ Head(q) = q[1] /\ Head(q) \in Wtokens
  <2>1. Len(q) # 0
    BY EmptySeq
  <2> QED BY <2>1
<1>2. r \in Seq(Wtokens) /\ Len(r) = n - 1 /\ DOMAIN r = 1 .. n - 1 /\ \A i \in 1 .. n - 1 : r[i] = q[i + 1]
  <2>1. r \in Seq(Wtokens) /\ Len(r) = n - 1 /\ \A i \in 1 .. Len(r) : r[i] = q[i + 1]
    BY HeadTailProperties
  <2> QED BY <2>1, SeqFun
<1> HIDE DEF r
<1>3. \A i, j \in 1 .. n : i < j => q[i] # q[j] /\ toks[q[i]].cost >= toks[q[j]].cost
  BY <1>1 DEF InOrder, IsInjective
<1>4. ASSUME NEW i \in 1 .. n - 1, NEW j \in 1 .. n - 1, i < j
      PROVE  r[i] # r[j] /\ toks[r[i]].cost >= toks[r[j]].cost
  <2>1. i + 1 \in 1 .. n /\ j + 1 \in 1 .. n /\ i + 1 < j + 1
    BY <1>1, <1>4
  <2> QED BY <2>1, <1>2, <1>3
<1>5. InOrder(toks, r)
  <2>1. \A i, j \in 1 .. n - 1 : r[i] = r[j] => i = j
    BY <1>1, <1>4
  <2> QED BY <2>1, <1>2, <1>4 DEF InOrder, IsInjective
<1>6. ASSUME NEW i \in 1 .. n - 1
      PROVE  r[i] \in Range(q) /\ r[i] # Head(q) /\ toks[Head(q)].cost >= toks[r[i]].cost
  <2>1. i + 1 \in 1 .. n /\ 1 \in 1 .. n /\ 1 < i + 1
    BY <1>1
  <2> QED BY <2>1, <1>1, <1>2, <1>3 DEF Range
<1>7. ASSUME NEW x \in Range(q), x # Head(q) PROVE x \in Range(r)
  <2>1. PICK i \in 1 .. n : x = q[i]
    BY <1>1 DEF Range
  <2>2. i - 1 \in 1 .. n - 1 /\ (i - 1) + 1 = i
    BY <2>1, <1>1, <1>7
  <2>3. r[i - 1] = x
    BY <2>1, <2>2, <1>2
  <2> QED BY <2>2, <2>3, <1>2 DEF Range
<1>8. Head(q) \in Range(q)
  BY <1>1 DEF Range
<1>9. Range(r) = Range(q) \ {Head(q)}
  BY <1>2, <1>6, <1>7 DEF Range
<1>10. \A t \in Range(r) : toks[Head(q)].cost >= toks[t].cost
  BY <1>2, <1>6 DEF Range
<1> QED BY <1>1, <1>2, <1>5, <1>8, <1>9, <1>10 DEF r
-----------------------------------------------------------------------------
(* What the queue answers. *)

(* The three things that the queue may answer to a new word t. *)
Refuses(a, q, toks, t) ==
  /\ a.q = q /\ a.removed = t
  /\ \/ \E x \in Range(q) : SameHistory(toks, x, t) /\ toks[x].cost < toks[t].cost
     \/ Len(q) = MaxInQ /\ \A x \in Range(q) : toks[x].cost <= toks[t].cost

Takes(a, q, toks, t) ==
  /\ a.removed = None
  /\ Range(a.q) = {t} \cup {x \in Range(q) : ~SameHistory(toks, x, t)}
  /\ \A x \in Range(q) : SameHistory(toks, x, t) => toks[t].cost <= toks[x].cost
  /\ Len(q) = MaxInQ => Len(a.q) = MaxInQ /\ \E x \in Range(q) : toks[t].cost < toks[x].cost

Pushes(a, q, toks, t) ==
  /\ a.removed \in Range(q) /\ Range(a.q) = {t} \cup (Range(q) \ {a.removed})
  /\ \A x \in Range(q) : ~SameHistory(toks, x, t)
  /\ Len(a.q) = MaxInQ
  /\ toks[t].cost < toks[a.removed].cost
  /\ \A x \in Range(a.q) : toks[x].cost <= toks[a.removed].cost

(* The queue refuses a new word, takes it, or takes it and pushes one out. *)
LEMMA AddIs ==
  ASSUME NEW q \in Seq(Wtokens), NEW toks \in [Wtokens -> Word], NEW t \in Wtokens \ Range(q),
         InOrder(toks, q), Len(q) <= MaxInQ,
         \A x, y \in Range(q) : SameHistory(toks, x, t) /\ SameHistory(toks, y, t) => x = y
  PROVE  LET a == Add(q, toks, t)
         IN  /\ a.q \in Seq(Wtokens) /\ InOrder(toks, a.q) /\ Len(a.q) <= MaxInQ
             /\ Refuses(a, q, toks, t) \/ Takes(a, q, toks, t) \/ Pushes(a, q, toks, t)
<1> DEFINE a == Add(q, toks, t)
           ins == InsertAt(q, Place(q, toks, t), t)
           S == {t} \cup {x \in Range(q) : ~SameHistory(toks, x, t)}
           longer == Only(ins, S)
           full == toks[t].cost >= MaxCostInQ(q, toks) /\ Len(q) >= MaxInQ
           worse == \E x \in Range(q) : SameHistory(toks, x, t) /\ toks[x].cost < toks[t].cost
           n == Len(q)
           I == {i \in DOMAIN ins : ins[i] \in S}
<1>1. a = IF full \/ worse THEN [q |-> q, removed |-> t] ELSE Shortened(longer)
  BY DEF Add
<1>2. MaxInQ \in Nat /\ MaxInQ > 0
  BY SearchAssumption
<1>3. n \in Nat /\ DOMAIN q = 1 .. n /\ Range(q) \subseteq Wtokens /\ t \in Wtokens
  BY SeqFun
<1>4. \A x \in Wtokens : toks[x].cost \in Nat
  BY DEF Word
<1>5. n = MaxInQ => /\ MaxCostInQ(q, toks) = toks[Head(q)].cost /\ Head(q) \in Range(q)
                    /\ \A x \in Range(q) : toks[x].cost <= toks[Head(q)].cost
  <2> SUFFICES ASSUME n = MaxInQ
               PROVE  /\ MaxCostInQ(q, toks) = toks[Head(q)].cost /\ Head(q) \in Range(q)
                      /\ \A x \in Range(q) : toks[x].cost <= toks[Head(q)].cost
    OBVIOUS
  <2>1. q # <<>>
    BY <1>2
  <2>2. Head(q) \in Range(q) /\ Range(Tail(q)) = Range(q) \ {Head(q)}
        /\ \A x \in Range(Tail(q)) : toks[Head(q)].cost >= toks[x].cost
    BY <2>1, TailInOrder
  <2>3. MaxCostInQ(q, toks) = toks[Head(q)].cost
    BY <1>2 DEF MaxCostInQ
  <2>4. ASSUME NEW x \in Range(q) PROVE toks[x].cost <= toks[Head(q)].cost
    <3>1. toks[x].cost \in Nat /\ toks[Head(q)].cost \in Nat
      BY <2>2, <1>3, <1>4
    <3>2. x = Head(q) \/ toks[Head(q)].cost >= toks[x].cost
      BY <2>2
    <3> QED BY <3>1, <3>2
  <2> QED BY <2>2, <2>3, <2>4
<1>6. CASE full \/ worse
  <2>1. a.q = q /\ a.removed = t
    BY <1>1, <1>6
  <2>2. full => n = MaxInQ /\ \A x \in Range(q) : toks[x].cost <= toks[t].cost
    <3> SUFFICES ASSUME full PROVE n = MaxInQ /\ \A x \in Range(q) : toks[x].cost <= toks[t].cost
      OBVIOUS
    <3>1. n = MaxInQ
      <4>1. Len(q) >= MaxInQ /\ Len(q) <= MaxInQ /\ Len(q) \in Nat
        BY <1>3
      <4> HIDE DEF full
      <4> QED BY <4>1, <1>2
    <3>2. toks[t].cost >= toks[Head(q)].cost
      BY <3>1, <1>5
    <3>3. ASSUME NEW x \in Range(q) PROVE toks[x].cost <= toks[t].cost
      <4>1. toks[x].cost \in Nat /\ toks[Head(q)].cost \in Nat /\ toks[t].cost \in Nat
        BY <3>1, <1>3, <1>4, <1>5
      <4>2. toks[x].cost <= toks[Head(q)].cost
        BY <3>1, <1>5
      <4> QED BY <3>2, <4>1, <4>2
    <3> QED BY <3>1, <3>3
  <2>3. Refuses(a, q, toks, t)
    BY <1>6, <2>1, <2>2 DEF Refuses
  <2> QED BY <2>1, <2>3
<1>7. CASE ~full /\ ~worse
  <2>1. a = Shortened(longer)
    BY <1>1, <1>7
  <2>2. /\ ins \in Seq(Wtokens) /\ Len(ins) = n + 1 /\ Range(ins) = Range(q) \cup {t} /\ InOrder(toks, ins)
    BY InsertedInOrder
  <2> HIDE DEF a, full, worse, ins
  <2>3. longer \in Seq(Wtokens) /\ Range(longer) = Range(ins) \cap S
    <3> HIDE DEF S
    <3> QED BY <2>2, OnlyKeeps
  <2>4. InOrder(toks, longer) /\ Len(longer) <= n + 1 /\ Len(longer) = Cardinality(I)
    <3>1. InOrder(toks, longer) /\ Len(longer) <= Len(ins)
      BY <2>2, OnlyInOrder
    <3>2. Len(longer) = Cardinality(I)
      <4> HIDE DEF S
      <4> QED BY <2>2, OnlyLen
    <3> HIDE DEF longer, I
    <3> QED BY <2>2, <3>1, <3>2
  <2>5. Range(longer) = S
    BY <2>2, <2>3
  <2>6. /\ DOMAIN ins = 1 .. n + 1 /\ IsFiniteSet(1 .. n + 1) /\ Cardinality(1 .. n + 1) = n + 1
        /\ I \subseteq 1 .. n + 1 /\ n + 1 \in Nat
    <3>1. n + 1 \in Nat
      BY <1>3
    <3>2. DOMAIN ins = 1 .. n + 1
      BY <2>2, SeqFun
    <3> HIDE DEF n, S
    <3> QED BY <3>1, <3>2, UpTo
  <2>7. ASSUME NEW x \in Range(q), SameHistory(toks, x, t)
        PROVE  /\ toks[t].cost <= toks[x].cost
               /\ Cardinality(I) = n
    <3>1. toks[t].cost <= toks[x].cost
      BY <2>7, <1>3, <1>4, <1>7 DEF worse
    <3>2. PICK i \in 1 .. n + 1 : ins[i] = x
      BY <2>2, <2>6 DEF Range
    <3>3. \A k \in 1 .. n + 1 : ins[k] = x => k = i
      BY <2>2, <2>6, <3>2 DEF InOrder, IsInjective
    <3>4. ASSUME NEW k \in 1 .. n + 1, k # i PROVE ins[k] \in S
      <4>1. ins[k] \in Range(q) \cup {t} /\ ins[k] # x
        BY <2>2, <2>6, <3>3, <3>4 DEF Range
      <4> QED BY <4>1, <2>7
    <3>5. ins[i] \notin S
      BY <3>2, <2>7
    <3>6. I = (1 .. n + 1) \ {i}
      <4> HIDE DEF S
      <4> QED BY <2>6, <3>4, <3>5
    <3>7. Cardinality((1 .. n + 1) \ {i}) = n + 1 - 1
      <4> DEFINE U == 1 .. n + 1
      <4>1. i \in U /\ IsFiniteSet(U) /\ Cardinality(U) = n + 1
        BY <2>6
      <4> HIDE DEF U
      <4>2. Cardinality(U \ {i}) = Cardinality(U) - 1
        BY <4>1, FS_RemoveElement
      <4> QED BY <4>1, <4>2 DEF U
    <3>8. n + 1 - 1 = n
      BY <1>3
    <3> HIDE DEF I, n
    <3> QED BY <3>1, <3>6, <3>7, <3>8
  <2>8. ~full => (n = MaxInQ => toks[t].cost < toks[Head(q)].cost)
    <3> SUFFICES ASSUME ~full, n = MaxInQ PROVE toks[t].cost < toks[Head(q)].cost
      OBVIOUS
    <3>1. ~(toks[t].cost >= toks[Head(q)].cost)
      BY <1>2, <1>5 DEF full
    <3>2. toks[Head(q)].cost \in Nat /\ toks[t].cost \in Nat
      BY <1>3, <1>4, <1>5
    <3> QED BY <3>1, <3>2
  <2>9. Len(longer) \in Nat
    BY <2>3
  <2>10. CASE Len(longer) > MaxInQ
    <3>1. a.q = Tail(longer) /\ a.removed = Head(longer)
      BY <2>1, <2>10 DEF Shortened
    <3>2. longer # <<>>
      BY <2>10, <1>2
    <3>3. /\ Tail(longer) \in Seq(Wtokens) /\ Len(Tail(longer)) = Len(longer) - 1 /\ InOrder(toks, Tail(longer))
          /\ Head(longer) \in Wtokens /\ Range(Tail(longer)) = Range(longer) \ {Head(longer)}
          /\ Head(longer) \in Range(longer)
          /\ \A x \in Range(Tail(longer)) : toks[Head(longer)].cost >= toks[x].cost
      <4> HIDE DEF longer
      <4> QED BY <2>3, <2>4, <3>2, TailInOrder
    <3>4. n = MaxInQ /\ Len(longer) = n + 1
      <4>1. n <= MaxInQ
        OBVIOUS
      <4> HIDE DEF longer, I, n
      <4> QED BY <4>1, <2>4, <2>9, <2>10, <1>2, <1>3
    <3>5. \A x \in Range(q) : ~SameHistory(toks, x, t)
      <4> SUFFICES ASSUME NEW x \in Range(q), SameHistory(toks, x, t) PROVE FALSE
        OBVIOUS
      <4>1. Cardinality(I) = n
        BY <2>7
      <4> HIDE DEF I, longer
      <4> QED BY <4>1, <3>4, <2>4, <1>3
    <3>6. S = {t} \cup Range(q)
      BY <3>5
    <3>7. Head(q) \in Range(q) /\ Head(q) # t
      BY <1>5, <3>4
    <3> HIDE DEF longer, S
    <3>8. Head(longer) # t
      <4> SUFFICES ASSUME Head(longer) = t PROVE FALSE
        OBVIOUS
      <4>1. Head(q) \in Range(Tail(longer))
        BY <2>5, <3>3, <3>6, <3>7
      <4>2. toks[t].cost >= toks[Head(q)].cost
        BY <4>1, <3>3
      <4>3. toks[t].cost < toks[Head(q)].cost
        BY <1>7, <2>8, <3>4
      <4>4. toks[Head(q)].cost \in Nat /\ toks[t].cost \in Nat
        BY <1>3, <1>4, <3>7
      <4> QED BY <4>2, <4>3, <4>4
    <3>9. a.removed \in Range(q) /\ Range(a.q) = {t} \cup (Range(q) \ {a.removed})
      BY <2>5, <3>1, <3>3, <3>6, <3>8
    <3>10. \A x \in Range(a.q) : toks[x].cost <= toks[a.removed].cost
      <4> TAKE x \in Range(a.q)
      <4>1. toks[a.removed].cost >= toks[x].cost
        BY <3>1, <3>3
      <4>2. x \in Wtokens /\ a.removed \in Wtokens
        BY <3>9, <1>3
      <4> QED BY <4>1, <4>2, <1>4
    <3>11. toks[t].cost < toks[a.removed].cost
      <4>1. toks[t].cost < toks[Head(q)].cost
        BY <1>7, <2>8, <3>4
      <4>2. Head(q) = a.removed \/ Head(q) \in Range(a.q)
        BY <3>7, <3>9
      <4>3. toks[Head(q)].cost <= toks[a.removed].cost
        <5>1. toks[a.removed].cost \in Nat
          BY <3>9, <1>3, <1>4
        <5> QED BY <4>2, <5>1, <3>10
      <4>4. toks[Head(q)].cost \in Nat /\ toks[t].cost \in Nat /\ toks[a.removed].cost \in Nat
        BY <1>3, <1>4, <3>7, <3>9
      <4> QED BY <4>1, <4>3, <4>4
    <3>12. Len(a.q) = MaxInQ /\ a.q \in Seq(Wtokens) /\ InOrder(toks, a.q)
      BY <3>1, <3>3, <3>4, <1>2, <1>3
    <3>13. Pushes(a, q, toks, t)
      BY <3>5, <3>9, <3>10, <3>11, <3>12 DEF Pushes
    <3>14. Len(a.q) <= MaxInQ
      BY <3>12, <1>2
    <3> QED BY <3>12, <3>13, <3>14 DEF a
  <2>11. CASE ~(Len(longer) > MaxInQ)
    <3>1. a.q = longer /\ a.removed = None
      BY <2>1, <2>11 DEF Shortened
    <3>2. n = MaxInQ => Len(longer) = MaxInQ
      <4> SUFFICES ASSUME n = MaxInQ PROVE Len(longer) = MaxInQ
        OBVIOUS
      <4>1. CASE \E x \in Range(q) : SameHistory(toks, x, t)
        <5>1. Cardinality(I) = n
          BY <4>1, <2>7
        <5> HIDE DEF I, longer
        <5> QED BY <5>1, <2>4
      <4>2. CASE ~\E x \in Range(q) : SameHistory(toks, x, t)
        <5>1. S = {t} \cup Range(q)
          BY <4>2
        <5>2. I = 1 .. n + 1
          <6> HIDE DEF S
          <6> QED BY <5>1, <2>2, <2>6 DEF Range
        <5> HIDE DEF I, longer
        <5> QED BY <5>2, <2>4, <2>6, <2>9, <2>11, <1>2
      <4> QED BY <4>1, <4>2
    <3>3. n = MaxInQ => \E x \in Range(q) : toks[t].cost < toks[x].cost
      BY <1>5, <1>7, <2>8
    <3> HIDE DEF longer
    <3>4. Takes(a, q, toks, t)
      BY <2>5, <2>7, <3>1, <3>2, <3>3 DEF Takes
    <3>5. Len(a.q) <= MaxInQ
      BY <3>1, <2>9, <2>11, <1>2
    <3> QED BY <2>3, <2>4, <3>1, <3>4, <3>5 DEF a
  <2> QED BY <2>10, <2>11
<1> QED BY <1>6, <1>7
-----------------------------------------------------------------------------
(* The pool. *)

(* The parts of a search. *)
LEMMA StepsTypes ==
  ASSUME NEW s \in Steps
  PROVE  /\ s.nodes \in Seq(TokenOf(Nil)) /\ s.pq \in Seq(Wtokens) /\ s.wtoken \in [Wtokens -> Word]
         /\ s.freelist \in Seq(Wtokens) /\ s.offers \in SUBSET (Histories \X Nat)
         /\ s.blocked \in BOOLEAN /\ s.made \in Nil
BY Zenon DEF Steps

(* A word that was freed ends in no frame. *)
LEMMA KilledType == Killed \in Word /\ Killed.end_time = MaxFrames
<1>1. MaxFrames \in 0 .. MaxFrames /\ MAXcostdata \in Nat
  BY SearchAssumption
<1>2. None \in Labels /\ None \in NodeIds \cup {None} /\ None \in Nil
  BY DEF Labels, Nil
<1> QED BY <1>1, <1>2 DEF Killed, Word

(* A token that was not in the pool goes back into it. *)
LEMMA PushFirst ==
  ASSUME NEW list \in Seq(Wtokens), IsInjective(list), NEW t \in Wtokens \ Range(list)
  PROVE  /\ <<t>> \o list \in Seq(Wtokens) /\ IsInjective(<<t>> \o list)
         /\ Range(<<t>> \o list) = Range(list) \cup {t}
<1> DEFINE r == <<t>> \o list
           n == Len(list)
<1>1. n \in Nat /\ DOMAIN list = 1 .. n /\ <<t>> \in Seq(Wtokens)
  OBVIOUS
<1>2. /\ r \in Seq(Wtokens) /\ DOMAIN r = 1 .. n + 1
      /\ r[1] = t /\ \A i \in 1 .. n : r[i + 1] = list[i]
  OBVIOUS
<1> HIDE DEF r, n
<1>3. \A i \in 1 .. n : list[i] \in Range(list) /\ list[i] # t
  BY <1>1 DEF Range
<1>4. ASSUME NEW i \in 1 .. n + 1 PROVE (i = 1 /\ r[i] = t) \/ (i - 1 \in 1 .. n /\ r[i] = list[i - 1])
  <2>1. CASE i = 1
    BY <2>1, <1>2
  <2>2. CASE i # 1
    <3>1. i - 1 \in 1 .. n /\ (i - 1) + 1 = i
      BY <2>2, <1>1
    <3> QED BY <3>1, <1>2
  <2> QED BY <2>1, <2>2
<1>5. ASSUME NEW i \in 1 .. n + 1, NEW j \in 1 .. n + 1, r[i] = r[j] PROVE i = j
  <2>1. CASE i = 1 \/ j = 1
    BY <2>1, <1>3, <1>4, <1>5
  <2>2. CASE i # 1 /\ j # 1
    <3>1. i - 1 = j - 1
      BY <2>2, <1>1, <1>4, <1>5 DEF IsInjective
    <3> QED BY <3>1
  <2> QED BY <2>1, <2>2
<1>6. IsInjective(r)
  BY <1>2, <1>5 DEF IsInjective
<1>7. Range(r) \subseteq Range(list) \cup {t}
  BY <1>2, <1>3, <1>4 DEF Range
<1>8. ASSUME NEW i \in 1 .. n PROVE list[i] \in Range(r)
  <2>1. i + 1 \in 1 .. n + 1 /\ r[i + 1] = list[i]
    BY <1>1, <1>2
  <2> QED BY <2>1, <1>2 DEF Range
<1>9. t \in Range(r)
  <2>1. 1 \in 1 .. n + 1
    BY <1>1
  <2> QED BY <2>1, <1>2 DEF Range
<1>10. Range(r) = Range(list) \cup {t}
  BY <1>1, <1>7, <1>8, <1>9 DEF Range
<1> QED BY <1>2, <1>6, <1>10 DEF r

(* The nodes of one search and another: only costs have changed, to the most. *)
Blocks(s, r, u) ==
  /\ DOMAIN r.nodes = DOMAIN s.nodes
  /\ \A i \in DOMAIN s.nodes :
       /\ r.nodes[i].node = s.nodes[i].node /\ r.nodes[i].bt = s.nodes[i].bt
       /\ r.nodes[i].alts = s.nodes[i].alts
       /\ r.nodes[i].cost = IF u # None /\ s.nodes[i].bt = u THEN MAXcostdata ELSE s.nodes[i].cost

(* What is removed is in the pool and none of the nodes that go on leads to  *)
(* it.                                                                       *)
LEMMA RemovedIs ==
  ASSUME NEW g \in Steps, NEW u \in Nil, IsInjective(g.freelist), u \notin Range(g.freelist)
  PROVE  /\ Removed(g, u) \in Steps /\ IsInjective(Removed(g, u).freelist)
         /\ Removed(g, u).pq = g.pq /\ Removed(g, u).offers = g.offers /\ Removed(g, u).made = g.made
         /\ Live(Removed(g, u)) = Live(g) \ {u}
         /\ \A x \in Wtokens : Removed(g, u).wtoken[x] = IF x = u THEN Killed ELSE g.wtoken[x]
         /\ Blocks(g, Removed(g, u), u)
<1>0. None \notin Wtokens /\ MAXcostdata \in Nat
  BY GrammarAssumption, SearchAssumption
<1>1. CASE u = None
  <2>1. Removed(g, u) = g
    BY <1>1 DEF Removed
  <2>2. Live(g) = Live(g) \ {u} /\ \A x \in Wtokens : x # u
    BY <1>0, <1>1 DEF Live
  <2>3. Blocks(g, g, u)
    BY <1>1 DEF Blocks
  <2> QED BY <2>1, <2>2, <2>3
<1>2. CASE u # None
  <2> DEFINE list == [i \in DOMAIN g.nodes |->
                        IF g.nodes[i].bt = u THEN [g.nodes[i] EXCEPT !.cost = MAXcostdata] ELSE g.nodes[i]]
             b == g.blocked \/ \E i \in DOMAIN g.nodes : g.nodes[i].bt = u
             free == <<u>> \o g.freelist
             toks == [g.wtoken EXCEPT ![u] = Killed]
             r == Removed(g, u)
  <2>1. r = [g EXCEPT !.nodes = list, !.blocked = b, !.wtoken = toks, !.freelist = free]
    BY <1>2, Zenon DEF Removed, Free, Block, Map, Steps
  <2>2. u \in Wtokens \ Range(g.freelist)
    BY <1>2 DEF Nil
  <2>3. free \in Seq(Wtokens) /\ IsInjective(free) /\ Range(free) = Range(g.freelist) \cup {u}
    BY <2>2, StepsTypes, PushFirst
  <2>4. toks \in [Wtokens -> Word] /\ \A x \in Wtokens : toks[x] = IF x = u THEN Killed ELSE g.wtoken[x]
    BY <2>2, StepsTypes, KilledType
  <2>5. /\ list \in Seq(TokenOf(Nil)) /\ DOMAIN list = DOMAIN g.nodes
        /\ \A i \in DOMAIN g.nodes :
             /\ list[i].node = g.nodes[i].node /\ list[i].bt = g.nodes[i].bt
             /\ list[i].alts = g.nodes[i].alts
             /\ list[i].cost = IF g.nodes[i].bt = u THEN MAXcostdata ELSE g.nodes[i].cost
    <3>1. Len(g.nodes) \in Nat /\ DOMAIN g.nodes = 1 .. Len(g.nodes) /\ \A i \in DOMAIN g.nodes : g.nodes[i] \in TokenOf(Nil)
      BY StepsTypes, SeqFun
    <3>2. ASSUME NEW i \in DOMAIN g.nodes
          PROVE  /\ list[i] \in TokenOf(Nil)
                 /\ list[i].node = g.nodes[i].node /\ list[i].bt = g.nodes[i].bt
                 /\ list[i].alts = g.nodes[i].alts
                 /\ list[i].cost = IF g.nodes[i].bt = u THEN MAXcostdata ELSE g.nodes[i].cost
      <4>1. g.nodes[i] \in TokenOf(Nil)
        BY <3>1
      <4>2. CASE g.nodes[i].bt = u
        <5>1. list[i] = [g.nodes[i] EXCEPT !.cost = MAXcostdata]
          BY <4>2
        <5> HIDE DEF list
        <5> QED BY <5>1, <4>1, <4>2, <1>0 DEF TokenOf
      <4>3. CASE g.nodes[i].bt # u
        BY <4>1, <4>3
      <4> QED BY <4>2, <4>3
    <3>3. list \in [1 .. Len(g.nodes) -> TokenOf(Nil)]
      BY <3>1, <3>2
    <3>4. list \in Seq(TokenOf(Nil))
      <4> HIDE DEF list
      <4> QED BY <3>1, <3>3, FunSeq
    <3> QED BY <3>2, <3>4
  <2>6. b \in BOOLEAN
    BY StepsTypes, Zenon
  <2> HIDE DEF list, b, free, toks, r
  <2>7. /\ r.nodes = list /\ r.wtoken = toks /\ r.freelist = free
        /\ r.pq = g.pq /\ r.offers = g.offers /\ r.made = g.made
    BY <2>1 DEF Steps
  <2>8. r \in Steps
    BY <2>1, <2>3, <2>4, <2>5, <2>6 DEF Steps
  <2>9. Live(r) = Live(g) \ {u}
    BY <2>3, <2>7 DEF Live
  <2>10. Blocks(g, r, u)
    BY <1>2, <2>5, <2>7 DEF Blocks
  <2> QED BY <2>3, <2>4, <2>7, <2>8, <2>9, <2>10 DEF r
<1> QED BY <1>1, <1>2

(* The parts of a word. *)
LEMMA WordTypes ==
  ASSUME NEW toks \in [Wtokens -> Word], NEW t \in Wtokens
  PROVE  /\ toks[t].word \in Labels /\ toks[t].end_time \in 0 .. MaxFrames
         /\ toks[t].end_node \in NodeIds \cup {None}
         /\ toks[t].backtrace \in Nil /\ toks[t].cost \in Nat
BY DEF Word

(* compare_histories compares what History remembers. *)
LEMMA SameHistoryIs ==
  ASSUME NEW toks, NEW s, NEW t
  PROVE  SameHistory(toks, s, t) <=> HistoryOf(toks, s) = HistoryOf(toks, t)
<1> DEFINE x == toks[s].backtrace
           y == toks[t].backtrace
           before(b) == IF b = None THEN <<>> ELSE <<toks[b].word, toks[b].end_time>>
<1>1. HistoryOf(toks, s) = HistoryOf(toks, t) <=>
        toks[s].word = toks[t].word /\ toks[s].end_node = toks[t].end_node /\ before(x) = before(y)
  BY DEF HistoryOf, History
<1>2. before(x) = before(y) <=> /\ (x = None) <=> (y = None)
                                /\ x # None => /\ toks[x].word = toks[y].word
                                               /\ toks[x].end_time = toks[y].end_time
  OBVIOUS
<1> HIDE DEF before
<1> QED BY <1>1, <1>2 DEF SameHistory

(* A history is of a word and the one before it, and changes with these      *)
(* only.                                                                     *)
LEMMA HistoryStays ==
  ASSUME NEW toks, NEW other, NEW t, toks[t] = other[t],
         toks[t].backtrace # None => toks[toks[t].backtrace] = other[toks[t].backtrace]
  PROVE  HistoryOf(toks, t) = HistoryOf(other, t)
BY DEF HistoryOf, History

(* What a history is. *)
LEMMA HistoryType ==
  ASSUME NEW toks \in [Wtokens -> Word], NEW t \in Wtokens
  PROVE  HistoryOf(toks, t) \in Histories
<1> DEFINE b == toks[t].backtrace
<1>1. toks[t].word \in Labels /\ toks[t].end_node \in NodeIds \cup {None} /\ b \in Nil
  BY WordTypes
<1>2. CASE b = None
  BY <1>1, <1>2 DEF HistoryOf, History, Histories
<1>3. CASE b # None
  <2>1. toks[b].word \in Labels /\ toks[b].end_time \in 0 .. MaxFrames
    BY <1>1, <1>3, WordTypes DEF Nil
  <2> QED BY <1>1, <1>3, <2>1 DEF HistoryOf, History, Histories
<1> QED BY <1>2, <1>3

(* What has ended by a frame. *)
LEMMA UntilGrows ==
  ASSUME NEW s, NEW r, NEW n, \A t \in Live(s) : s.wtoken[t].end_time < n => Same(s, r, t)
  PROVE  Until(s, n) \subseteq Until(r, n)
BY DEF Until, Same

(* Alternatives of fewer words. *)
LEMMA AltsGrow ==
  ASSUME NEW B, NEW C, B \subseteq C
  PROVE  AltsOf(B) \subseteq AltsOf(C)
<1>1. AltOf(B) \subseteq AltOf(C)
  BY DEF AltOf
<1> QED BY <1>1, SeqMonotonic DEF AltsOf

(* What a word in use traces back to is in use. *)
LEMMA PoolIs ==
  ASSUME NEW s \in Steps, NEW n, PoolOK(s, n), NEW t \in Live(s)
  PROVE  /\ t \in Wtokens /\ s.wtoken[t].end_time < n
         /\ s.wtoken[t].backtrace # None =>
              s.wtoken[t].backtrace \in Live(s) /\ s.wtoken[s.wtoken[t].backtrace].end_time < s.wtoken[t].end_time
BY DEF PoolOK, Until, Live
-----------------------------------------------------------------------------
(* A word filled in. *)

(* A word t has been filled in, and the queue has answered with u. *)
Filled(s, r, t, u, w) ==
  /\ t \in Wtokens \ Live(s) /\ u \in {t, None} \cup Range(s.pq)
  /\ r \in Steps /\ IsInjective(r.freelist) /\ Live(r) = (Live(s) \cup {t}) \ {u}
  /\ \A x \in Wtokens : r.wtoken[x] = IF x = u THEN Killed ELSE IF x = t THEN w ELSE s.wtoken[x]
  /\ Blocks(s, r, u)

(* The word that srec_process_word_boundary_nbest fills in. *)
NewWord(word, node, bt, cost) ==
  [word |-> word, end_time |-> csf, end_node |-> node, backtrace |-> bt, cost |-> cost]

(* A token filled in and another freed: the rest of the words are as they    *)
(* were.                                                                     *)
LEMMA FilledKeeps ==
  ASSUME NEW s \in Steps, csf \in 0 .. MaxFrames - 1, PoolOK(s, csf + 1),
         QueueOK(s, csf), NEW r, NEW t, NEW u, NEW word \in Labels, NEW node \in NodeIds,
         NEW bt \in Until(s, csf), NEW cost \in Nat,
         Filled(s, r, t, u, NewWord(word, node, bt, cost))
  PROVE  /\ PoolOK(r, csf + 1)
         /\ \A x \in Live(s) \ {u} : Same(s, r, x) /\ HistoryOf(r.wtoken, x) = HistoryOf(s.wtoken, x)
         /\ u # t => /\ t \in Live(r) /\ r.wtoken[t] = NewWord(word, node, bt, cost)
                     /\ HistoryOf(r.wtoken, t) = History(s.wtoken, word, node, bt)
         /\ \A b \in Nil : Sound(s, b) => Sound(r, b)
         /\ NodesOK(s, csf) => NodesOK(r, csf)
<1> DEFINE w == NewWord(word, node, bt, cost)
<1>1. csf \in Nat /\ csf < MaxFrames /\ MaxFrames \in Nat /\ None \notin Wtokens
  BY SearchAssumption, GrammarAssumption
<1>2. /\ t \in Wtokens \ Live(s) /\ u \in {t, None} \cup Range(s.pq)
      /\ r \in Steps /\ IsInjective(r.freelist) /\ Live(r) = (Live(s) \cup {t}) \ {u}
      /\ \A x \in Wtokens : r.wtoken[x] = IF x = u THEN Killed ELSE IF x = t THEN w ELSE s.wtoken[x]
      /\ Blocks(s, r, u)
  BY DEF Filled
<1>3. w.end_time = csf /\ w.backtrace = bt /\ w.word = word /\ w.end_node = node /\ w.cost = cost
  BY DEF NewWord
<1> HIDE DEF w
<1>4. \A x \in Live(s) \cap {u} : s.wtoken[x].end_time = csf
  <2> SUFFICES ASSUME NEW x \in Live(s), x = u PROVE s.wtoken[x].end_time = csf
    OBVIOUS
  <2>1. x # None /\ x # t
    BY <1>1, <1>2 DEF Live
  <2>2. x \in Range(s.pq)
    BY <2>1, <1>2
  <2> QED BY <2>2 DEF QueueOK
<1>5. Live(s) \subseteq Wtokens /\ \A x \in Wtokens : s.wtoken[x].end_time \in Nat
  BY StepsTypes, WordTypes, <1>1 DEF Live
<1>6. ASSUME NEW x \in Live(s), x # u PROVE Same(s, r, x) /\ r.wtoken[x] = s.wtoken[x]
  BY <1>2, <1>5, <1>6 DEF Same
<1>7. ASSUME NEW x \in Live(s), s.wtoken[x].end_time < csf PROVE x # u
  BY <1>1, <1>4, <1>5, <1>7
<1>8. ASSUME NEW n \in 0 .. csf, NEW b \in Until(s, n)
      PROVE  b \in Until(r, n) /\ (b # None => b \in Live(s) /\ b # u /\ r.wtoken[b] = s.wtoken[b])
  <2>1. CASE b = None
    BY <2>1 DEF Until
  <2>2. CASE b # None
    <3>1. b \in Live(s) /\ s.wtoken[b].end_time < n
      BY <2>2, <1>8 DEF Until
    <3>2. s.wtoken[b].end_time < csf
      BY <3>1, <1>1, <1>5
    <3>3. Same(s, r, b) /\ r.wtoken[b] = s.wtoken[b] /\ b # u
      BY <3>1, <3>2, <1>6, <1>7
    <3> QED BY <3>1, <3>3 DEF Until, Same
  <2> QED BY <2>1, <2>2
<1>9. ASSUME NEW x \in Live(s), x # u
      PROVE  HistoryOf(r.wtoken, x) = HistoryOf(s.wtoken, x)
  <2>1. /\ s.wtoken[x].end_time < csf + 1
        /\ s.wtoken[x].backtrace \in Until(s, s.wtoken[x].end_time)
    BY DEF PoolOK
  <2>2. s.wtoken[x].end_time \in 0 .. csf
    BY <2>1, <1>1, <1>5
  <2>3. s.wtoken[x].backtrace # None =>
          r.wtoken[s.wtoken[x].backtrace] = s.wtoken[s.wtoken[x].backtrace]
    BY <2>1, <2>2, <1>8
  <2> QED BY <2>3, <1>6, <1>9, HistoryStays
<1>10. ASSUME u # t
       PROVE  /\ t \in Live(r) /\ r.wtoken[t] = w
              /\ HistoryOf(r.wtoken, t) = History(s.wtoken, word, node, bt)
  <2>1. t \in Live(r) /\ r.wtoken[t] = w
    BY <1>2, <1>10
  <2>2. bt # None => r.wtoken[bt] = s.wtoken[bt]
    <3>1. csf \in 0 .. csf
      BY <1>1
    <3> QED BY <3>1, <1>8
  <2> QED BY <2>1, <2>2, <1>3 DEF HistoryOf, History
<1>11. PoolOK(r, csf + 1)
  <2> SUFFICES ASSUME NEW x \in Live(r)
               PROVE  /\ r.wtoken[x].end_time < csf + 1
                      /\ r.wtoken[x].backtrace \in Until(r, r.wtoken[x].end_time)
    BY <1>2 DEF PoolOK
  <2>1. CASE x = t
    <3>1. u # t /\ r.wtoken[x] = w
      BY <2>1, <1>2
    <3>2. csf \in 0 .. csf /\ csf < csf + 1
      BY <1>1
    <3>3. bt \in Until(r, csf)
      BY <3>2, <1>8
    <3> QED BY <3>1, <3>2, <3>3, <1>3
  <2>2. CASE x # t
    <3>1. x \in Live(s) /\ x # u
      BY <2>2, <1>2
    <3>2. /\ s.wtoken[x].end_time < csf + 1
          /\ s.wtoken[x].backtrace \in Until(s, s.wtoken[x].end_time)
      BY <3>1 DEF PoolOK
    <3>3. s.wtoken[x].end_time \in 0 .. csf
      BY <3>1, <3>2, <1>1, <1>5
    <3>4. s.wtoken[x].backtrace \in Until(r, s.wtoken[x].end_time)
      BY <3>2, <3>3, <1>8
    <3> QED BY <3>1, <3>2, <3>4, <1>6
  <2> QED BY <2>1, <2>2
<1>12. ASSUME NEW b \in Nil, Sound(s, b) PROVE Sound(r, b)
  <2>1. CASE b = None
    BY <2>1 DEF Sound
  <2>2. CASE b = u /\ b # None
    <3>1. b \in Wtokens /\ r.wtoken[b] = Killed
      BY <2>2, <1>2 DEF Nil
    <3> QED BY <3>1, KilledType DEF Sound
  <2>3. CASE b # None /\ b # u /\ b \in Live(s)
    BY <2>3, <1>2 DEF Sound
  <2>4. CASE b # None /\ b # u /\ s.wtoken[b].end_time = MaxFrames
    <3>1. CASE b = t
      BY <3>1, <2>4, <1>2 DEF Sound
    <3>2. CASE b # t
      <4>1. r.wtoken[b] = s.wtoken[b]
        BY <3>2, <2>4, <1>2 DEF Nil
      <4> QED BY <4>1, <2>4 DEF Sound
    <3> QED BY <3>1, <3>2
  <2> QED BY <2>1, <2>2, <2>3, <2>4, <1>12 DEF Sound
<1>13. ASSUME NodesOK(s, csf) PROVE NodesOK(r, csf)
  <2>1. /\ DOMAIN r.nodes = DOMAIN s.nodes
        /\ \A i \in DOMAIN s.nodes :
             /\ r.nodes[i].node = s.nodes[i].node /\ r.nodes[i].bt = s.nodes[i].bt
             /\ r.nodes[i].alts = s.nodes[i].alts
             /\ r.nodes[i].cost = IF u # None /\ s.nodes[i].bt = u THEN MAXcostdata ELSE s.nodes[i].cost
    BY <1>2 DEF Blocks
  <2>2. \A i, j \in DOMAIN r.nodes : r.nodes[i].node = r.nodes[j].node => i = j
    BY <2>1, <1>13 DEF NodesOK
  <2>3. Until(s, csf) \subseteq Until(r, csf)
    <3>1. csf \in 0 .. csf
      BY <1>1
    <3> QED BY <3>1, <1>8
  <2>4. ASSUME NEW i \in DOMAIN s.nodes
        PROVE  /\ Sound(r, r.nodes[i].bt) /\ r.nodes[i].alts \in AltsOf(Until(r, csf))
               /\ r.nodes[i].cost < MAXcostdata => r.nodes[i].bt \in Live(r) \cup {None}
    <3>1. /\ Sound(s, s.nodes[i].bt) /\ s.nodes[i].alts \in AltsOf(Until(s, csf))
          /\ s.nodes[i].cost < MAXcostdata => s.nodes[i].bt \in Live(s) \cup {None}
      BY <1>13 DEF NodesOK
    <3>2. s.nodes[i] \in TokenOf(Nil) /\ s.nodes[i].bt \in Nil
      <4>1. s.nodes[i] \in TokenOf(Nil)
        BY StepsTypes, SeqFun
      <4> QED BY <4>1 DEF TokenOf
    <3>3. Sound(r, r.nodes[i].bt)
      BY <3>1, <3>2, <2>1, <1>12
    <3>4. r.nodes[i].alts \in AltsOf(Until(r, csf))
      BY <3>1, <2>1, <2>3, AltsGrow
    <3>5. ASSUME r.nodes[i].cost < MAXcostdata PROVE r.nodes[i].bt \in Live(r) \cup {None}
      <4>1. ~(MAXcostdata < MAXcostdata)
        BY SearchAssumption
      <4>2. ~(u # None /\ s.nodes[i].bt = u)
        BY <4>1, <3>5, <2>1
      <4>3. s.nodes[i].bt \in Live(s) \cup {None} /\ (s.nodes[i].bt # None => s.nodes[i].bt # u)
        BY <4>2, <3>1, <3>5, <2>1
      <4> QED BY <4>3, <2>1, <1>2
    <3> QED BY <3>3, <3>4, <3>5
  <2> QED BY <2>1, <2>2, <2>4 DEF NodesOK
<1> QED BY <1>6, <1>9, <1>10, <1>11, <1>12, <1>13 DEF w

(* What the queue answers when word is offered to a search, in the token t. *)
Answer(s, t, w) == Add(s.pq, [s.wtoken EXCEPT ![t] = w], t)

(* The token from the pool is no one's, and the queue can answer. *)
LEMMA FreshToken ==
  ASSUME NEW s \in Steps, csf \in 0 .. MaxFrames - 1, EndsOK(s), s.freelist # <<>>,
         NEW w \in Word, w.backtrace \in Until(s, csf)
  PROVE  LET t    == Head(s.freelist)
             toks == [s.wtoken EXCEPT ![t] = w]
             a    == Answer(s, t, w)
         IN  /\ t \in Wtokens \ Live(s) /\ toks \in [Wtokens -> Word] /\ toks[t] = w
             /\ \A x \in Wtokens : x # t => toks[x] = s.wtoken[x]
             /\ \A x \in Range(s.pq) : x # t /\ x \in Live(s) /\ HistoryOf(toks, x) = HistoryOf(s.wtoken, x)
             /\ a.q \in Seq(Wtokens) /\ InOrder(toks, a.q) /\ Len(a.q) <= MaxInQ
             /\ Refuses(a, s.pq, toks, t) \/ Takes(a, s.pq, toks, t) \/ Pushes(a, s.pq, toks, t)
<1> DEFINE t    == Head(s.freelist)
           toks == [s.wtoken EXCEPT ![t] = w]
           q    == s.pq
<1>1. PoolOK(s, csf + 1) /\ QueueOK(s, csf) /\ Keeps(s)
  BY DEF EndsOK
<1>2. t \in Range(s.freelist) /\ t \in Wtokens
  <2>1. Len(s.freelist) \in Nat /\ Len(s.freelist) # 0 /\ s.freelist \in Seq(Wtokens)
    BY StepsTypes, EmptySeq
  <2>2. t = s.freelist[1] /\ 1 \in DOMAIN s.freelist
    BY <2>1
  <2> QED BY <2>1, <2>2, SeqFun DEF Range
<1>3. t \in Wtokens \ Live(s)
  BY <1>2 DEF Live
<1> HIDE DEF t
<1>4. toks \in [Wtokens -> Word] /\ toks[t] = w /\ \A x \in Wtokens : x # t => toks[x] = s.wtoken[x]
  BY <1>2, StepsTypes
<1> HIDE DEF toks
<1>5. /\ q \in Seq(Wtokens) /\ Range(q) \subseteq Live(s) /\ t \notin Range(q) /\ Live(s) \subseteq Wtokens
      /\ InOrder(s.wtoken, q) /\ Len(q) <= MaxInQ
  BY <1>1, <1>3, StepsTypes DEF QueueOK, Ordered, Live
<1>6. ASSUME NEW x \in Live(s) PROVE x # t /\ toks[x] = s.wtoken[x] /\ HistoryOf(toks, x) = HistoryOf(s.wtoken, x)
  <2>1. x # t /\ toks[x] = s.wtoken[x]
    BY <1>3, <1>4, <1>5
  <2>2. s.wtoken[x].backtrace # None => s.wtoken[x].backtrace \in Live(s)
    BY <1>1, PoolIs
  <2>3. toks[x].backtrace # None => toks[toks[x].backtrace] = s.wtoken[toks[x].backtrace]
    BY <2>1, <2>2, <1>3, <1>4, <1>5
  <2> QED BY <2>1, <2>3, HistoryStays
<1>7. InOrder(toks, q)
  <2>1. \A i \in DOMAIN q : toks[q[i]] = s.wtoken[q[i]]
    BY <1>5, <1>6 DEF Range
  <2> QED BY <2>1, <1>5 DEF InOrder
<1>8. \A x, y \in Range(q) : SameHistory(toks, x, t) /\ SameHistory(toks, y, t) => x = y
  <2> SUFFICES ASSUME NEW x \in Range(q), NEW y \in Range(q), SameHistory(toks, x, t), SameHistory(toks, y, t)
               PROVE x = y
    OBVIOUS
  <2>1. HistoryOf(toks, x) = HistoryOf(toks, t) /\ HistoryOf(toks, y) = HistoryOf(toks, t)
    BY SameHistoryIs
  <2>2. HistoryOf(s.wtoken, x) = HistoryOf(s.wtoken, y)
    BY <2>1, <1>5, <1>6
  <2> QED BY <2>2, <1>1 DEF Keeps
<1> DEFINE a == Add(q, toks, t)
<1>9. /\ a.q \in Seq(Wtokens) /\ InOrder(toks, a.q) /\ Len(a.q) <= MaxInQ
      /\ Refuses(a, q, toks, t) \/ Takes(a, q, toks, t) \/ Pushes(a, q, toks, t)
  <2>1. t \in Wtokens \ Range(q)
    BY <1>2, <1>5
  <2> HIDE DEF q
  <2> QED BY <2>1, <1>4, <1>5, <1>7, <1>8, AddIs
<1>10. a = Answer(s, t, w)
  BY DEF Answer, toks
<1> HIDE DEF a
<1> QED BY <1>3, <1>4, <1>5, <1>6, <1>9, <1>10 DEF t, toks

(* The pool without its first token. *)
LEMMA TailOfFree ==
  ASSUME NEW list \in Seq(Wtokens), list # <<>>, IsInjective(list)
  PROVE  /\ Tail(list) \in Seq(Wtokens) /\ IsInjective(Tail(list))
         /\ Range(Tail(list)) = Range(list) \ {Head(list)} /\ Head(list) \in Range(list)
<1> DEFINE zero == [t \in Wtokens |-> [cost |-> 0]]
<1>1. InOrder(zero, list)
  <2>1. \A t \in Wtokens : zero[t].cost >= zero[t].cost /\ zero[t].cost = 0
    OBVIOUS
  <2>2. \A i \in DOMAIN list : list[i] \in Wtokens
    BY SeqFun
  <2> HIDE DEF zero
  <2> QED BY <2>1, <2>2 DEF InOrder
<1> HIDE DEF zero
<1>2. /\ Tail(list) \in Seq(Wtokens) /\ InOrder(zero, Tail(list))
      /\ Range(Tail(list)) = Range(list) \ {Head(list)} /\ Head(list) \in Range(list)
  BY <1>1, TailInOrder
<1> QED BY <1>2 DEF InOrder

(* The step of the search that the answer means. *)
LEMMA QueuedIs ==
  ASSUME NEW s \in Steps, csf \in 0 .. MaxFrames - 1, EndsOK(s), s.freelist # <<>>,
         NEW w \in Word, w.backtrace \in Until(s, csf), NEW offer \in Histories \X Nat
  PROVE  LET t == Head(s.freelist)
             a == Answer(s, t, w)
             r == Queued(s, t, [s.wtoken EXCEPT ![t] = w], a, offer)
         IN  /\ Filled(s, r, t, a.removed, w)
             /\ r.pq = a.q /\ r.offers = s.offers \cup {offer}
             /\ r.made = IF a.removed = t THEN None ELSE t
<1> DEFINE t    == Head(s.freelist)
           toks == [s.wtoken EXCEPT ![t] = w]
           a    == Answer(s, t, w)
           free == Tail(s.freelist)
           made == IF a.removed = t THEN None ELSE t
           g    == [s EXCEPT !.wtoken = toks, !.freelist = free, !.pq = a.q, !.made = made,
                             !.offers = @ \cup {offer}]
           u    == a.removed
           r    == Removed(g, u)
<1>1. /\ t \in Wtokens \ Live(s) /\ toks \in [Wtokens -> Word] /\ toks[t] = w
      /\ \A x \in Wtokens : x # t => toks[x] = s.wtoken[x]
      /\ \A x \in Range(s.pq) : x # t /\ x \in Live(s)
      /\ a.q \in Seq(Wtokens)
      /\ Refuses(a, s.pq, toks, t) \/ Takes(a, s.pq, toks, t) \/ Pushes(a, s.pq, toks, t)
  BY FreshToken
<1>2. Queued(s, t, toks, a, offer) = r
  BY DEF Queued
<1>3. /\ free \in Seq(Wtokens) /\ IsInjective(free)
      /\ Range(free) = Range(s.freelist) \ {t} /\ t \in Range(s.freelist)
  BY StepsTypes, TailOfFree DEF EndsOK, PoolOK
<1> HIDE DEF toks, free, a, t
<1>4. u \in {t, None} \cup Range(s.pq)
  BY <1>1 DEF Refuses, Takes, Pushes
<1>5. made \in Nil /\ u \in Nil
  BY <1>1, <1>4, StepsTypes, SeqFun DEF Nil
<1>6. s.offers \cup {offer} \in SUBSET (Histories \X Nat)
  BY StepsTypes
<1> HIDE DEF made
<1>7. /\ g.nodes = s.nodes /\ g.wtoken = toks /\ g.freelist = free /\ g.pq = a.q
      /\ g.made = made /\ g.offers = s.offers \cup {offer}
  BY DEF Steps
<1>8. g \in Steps
  <2> HIDE DEF u, r
  <2> QED BY <1>1, <1>3, <1>5, <1>6 DEF Steps
<1> HIDE DEF g
<1>9. u \notin Range(free)
  <2>1. None \notin Wtokens
    BY GrammarAssumption
  <2>2. Range(s.freelist) \subseteq Wtokens /\ Range(s.pq) \cap Range(s.freelist) = {}
    BY <1>1, StepsTypes, SeqFun DEF Live
  <2> QED BY <2>1, <2>2, <1>3, <1>4
<1> HIDE DEF u
<1>10. /\ r \in Steps /\ IsInjective(r.freelist)
       /\ r.pq = g.pq /\ r.offers = g.offers /\ r.made = g.made
       /\ Live(r) = Live(g) \ {u}
       /\ \A x \in Wtokens : r.wtoken[x] = IF x = u THEN Killed ELSE g.wtoken[x]
       /\ Blocks(g, r, u)
  BY <1>3, <1>5, <1>7, <1>8, <1>9, RemovedIs
<1> HIDE DEF r
<1>11. Live(g) = Live(s) \cup {t}
  BY <1>1, <1>3, <1>7 DEF Live
<1>12. Blocks(s, r, u)
  BY <1>7, <1>10 DEF Blocks
<1>13. Filled(s, r, t, u, w)
  BY <1>1, <1>4, <1>7, <1>10, <1>11, <1>12 DEF Filled
<1> QED BY <1>2, <1>7, <1>10, <1>13 DEF u, made, t, toks, a
-----------------------------------------------------------------------------
(* The queue keeps the cheapest. *)

(* The queue of a search and the one after it, in terms of histories and    *)
(* costs alone: a word t of history h has been offered.                     *)
Answered(s, r, t, u, h, cost) ==
  LET of(x) == HistoryOf(s.wtoken, x)
      c(x)  == s.wtoken[x].cost
      q     == Range(s.pq)
  IN  \/ /\ u = t /\ r.pq = s.pq
         /\ \/ \E x \in q : of(x) = h /\ c(x) < cost
            \/ Len(s.pq) = MaxInQ /\ \A x \in q : c(x) <= cost
      \/ /\ u = None /\ Range(r.pq) = {t} \cup {x \in q : of(x) # h}
         /\ \A x \in q : of(x) = h => cost <= c(x)
         /\ Len(s.pq) = MaxInQ => Len(r.pq) = MaxInQ /\ \E x \in q : cost < c(x)
      \/ /\ u \in q /\ Range(r.pq) = {t} \cup (q \ {u}) /\ \A x \in q : of(x) # h
         /\ Len(r.pq) = MaxInQ /\ cost < c(u) /\ \A x \in q \ {u} : c(x) <= c(u)

(* The answer of the queue, in terms of histories and costs. *)
LEMMA AnsweredIs ==
  ASSUME NEW s \in Steps, csf \in 0 .. MaxFrames - 1, EndsOK(s), s.freelist # <<>>,
         NEW w \in Word, w.backtrace \in Until(s, csf), NEW r,
         r.pq = Answer(s, Head(s.freelist), w).q
  PROVE  Answered(s, r, Head(s.freelist), Answer(s, Head(s.freelist), w).removed,
                  History(s.wtoken, w.word, w.end_node, w.backtrace), w.cost)
<1> DEFINE t    == Head(s.freelist)
           toks == [s.wtoken EXCEPT ![t] = w]
           a    == Answer(s, t, w)
           h    == History(s.wtoken, w.word, w.end_node, w.backtrace)
           q    == Range(s.pq)
<1>1. /\ t \in Wtokens \ Live(s) /\ toks[t] = w
      /\ \A x \in Wtokens : x # t => toks[x] = s.wtoken[x]
      /\ \A x \in q : x # t /\ x \in Live(s) /\ HistoryOf(toks, x) = HistoryOf(s.wtoken, x)
      /\ Refuses(a, s.pq, toks, t) \/ Takes(a, s.pq, toks, t) \/ Pushes(a, s.pq, toks, t)
  BY FreshToken
<1> HIDE DEF t, toks, a
<1>2. HistoryOf(toks, t) = h
  <2>1. w.backtrace # None => w.backtrace \in Live(s) /\ w.backtrace \in Wtokens
    BY DEF Until, Live
  <2>2. w.backtrace # None => toks[w.backtrace] = s.wtoken[w.backtrace]
    BY <2>1, <1>1
  <2> QED BY <2>2, <1>1 DEF HistoryOf, History
<1>3. \A x \in q : SameHistory(toks, x, t) <=> HistoryOf(s.wtoken, x) = h
  BY <1>1, <1>2, SameHistoryIs
<1>4. \A x \in q : toks[x].cost = s.wtoken[x].cost
  BY <1>1 DEF Live
<1>5. toks[t].cost = w.cost
  BY <1>1
<1> HIDE DEF h, q
<1>6. CASE Refuses(a, s.pq, toks, t)
  <2>1. /\ a.q = s.pq /\ a.removed = t
        /\ \/ \E x \in q : HistoryOf(s.wtoken, x) = h /\ s.wtoken[x].cost < w.cost
           \/ Len(s.pq) = MaxInQ /\ \A x \in q : s.wtoken[x].cost <= w.cost
    BY <1>3, <1>4, <1>5, <1>6 DEF Refuses, q
  <2> QED BY <2>1 DEF Answered, h, t, a, q
<1>7. CASE Takes(a, s.pq, toks, t)
  <2>1. /\ a.removed = None /\ Range(a.q) = {t} \cup {x \in q : HistoryOf(s.wtoken, x) # h}
        /\ \A x \in q : HistoryOf(s.wtoken, x) = h => w.cost <= s.wtoken[x].cost
        /\ Len(s.pq) = MaxInQ => Len(a.q) = MaxInQ /\ \E x \in q : w.cost < s.wtoken[x].cost
    BY <1>3, <1>4, <1>5, <1>7 DEF Takes, q
  <2> QED BY <2>1 DEF Answered, h, t, a, q
<1>8. CASE Pushes(a, s.pq, toks, t)
  <2>1. /\ a.removed \in q /\ Range(a.q) = {t} \cup (q \ {a.removed})
        /\ \A x \in q : HistoryOf(s.wtoken, x) # h
        /\ Len(a.q) = MaxInQ /\ w.cost < s.wtoken[a.removed].cost
        /\ \A x \in q \ {a.removed} : s.wtoken[x].cost <= s.wtoken[a.removed].cost
    BY <1>3, <1>4, <1>5, <1>8 DEF Pushes, q
  <2> QED BY <2>1 DEF Answered, h, t, a, q
<1> QED BY <1>1, <1>6, <1>7, <1>8

(* What the queue keeps, it keeps when one more word is offered. *)
LEMMA KeepsStays ==
  ASSUME NEW s \in Steps, NEW r \in Steps, Keeps(s), NEW t \in Wtokens \ Range(s.pq), NEW u, NEW h, NEW cost \in Nat,
         Answered(s, r, t, u, h, cost), r.offers = s.offers \cup {<<h, cost>>},
         \A x \in Range(s.pq) \ {u} : r.wtoken[x] = s.wtoken[x] /\ HistoryOf(r.wtoken, x) = HistoryOf(s.wtoken, x),
         u # t => r.wtoken[t].cost = cost /\ HistoryOf(r.wtoken, t) = h
  PROVE  Keeps(r)
<1> DEFINE of(x) == HistoryOf(s.wtoken, x)
           c(x)  == s.wtoken[x].cost
           q     == Range(s.pq)
           ofr(x) == HistoryOf(r.wtoken, x)
           cr(x)  == r.wtoken[x].cost
           p     == Range(r.pq)
<1>1. /\ IsFiniteSet(s.offers)
      /\ \A x, y \in q : of(x) = of(y) => x = y
      /\ \A x \in q : <<of(x), c(x)>> \in s.offers
      /\ \A o \in s.offers :
           \/ \E x \in q : of(x) = o[1] /\ c(x) <= o[2]
           \/ Len(s.pq) = MaxInQ /\ \A x \in q : of(x) # o[1] /\ c(x) <= o[2]
  BY DEF Keeps
<1>2. \/ /\ u = t /\ r.pq = s.pq
         /\ \/ \E x \in q : of(x) = h /\ c(x) < cost
            \/ Len(s.pq) = MaxInQ /\ \A x \in q : c(x) <= cost
      \/ /\ u = None /\ p = {t} \cup {x \in q : of(x) # h}
         /\ \A x \in q : of(x) = h => cost <= c(x)
         /\ Len(s.pq) = MaxInQ => Len(r.pq) = MaxInQ /\ \E x \in q : cost < c(x)
      \/ /\ u \in q /\ p = {t} \cup (q \ {u}) /\ \A x \in q : of(x) # h
         /\ Len(r.pq) = MaxInQ /\ cost < c(u) /\ \A x \in q \ {u} : c(x) <= c(u)
  BY DEF Answered
<1>3. q \subseteq Wtokens /\ t \notin q /\ None \notin Wtokens
  BY StepsTypes, SeqFun, GrammarAssumption
<1>4. (\A x \in q : c(x) \in Nat) /\ \A o \in s.offers : o[2] \in Nat
  BY <1>3, StepsTypes, WordTypes
<1>5. \A x \in q \ {u} : cr(x) = c(x) /\ ofr(x) = of(x)
  OBVIOUS
<1>6. u # t => cr(t) = cost /\ ofr(t) = h
  OBVIOUS
<1>7. IsFiniteSet(r.offers)
  <2> HIDE DEF of, c, q, ofr, cr, p
  <2>1. IsFiniteSet(s.offers \cup {<<h, cost>>})
    BY <1>1, FS_AddElement
  <2> QED BY <2>1
<1>8. SUFFICES
        /\ \A x, y \in p : ofr(x) = ofr(y) => x = y
        /\ \A x \in p : <<ofr(x), cr(x)>> \in r.offers
        /\ \A o \in r.offers :
             \/ \E x \in p : ofr(x) = o[1] /\ cr(x) <= o[2]
             \/ Len(r.pq) = MaxInQ /\ \A x \in p : ofr(x) # o[1] /\ cr(x) <= o[2]
  BY <1>7 DEF Keeps
<1>9. r.offers = s.offers \cup {<<h, cost>>}
  OBVIOUS
<1>10. r.pq = s.pq => p = q
  OBVIOUS
<1> HIDE DEF of, c, q, ofr, cr, p
<1>11. CASE /\ u = t /\ r.pq = s.pq
            /\ \/ \E x \in q : of(x) = h /\ c(x) < cost
               \/ Len(s.pq) = MaxInQ /\ \A x \in q : c(x) <= cost
  <2>1. p = q /\ \A x \in q : cr(x) = c(x) /\ ofr(x) = of(x)
    BY <1>3, <1>5, <1>10, <1>11
  <2>2. \/ \E x \in p : ofr(x) = h /\ cr(x) <= cost
        \/ Len(r.pq) = MaxInQ /\ \A x \in p : ofr(x) # h /\ cr(x) <= cost
    <3>1. CASE \E x \in q : of(x) = h /\ c(x) < cost
      BY <3>1, <2>1, <1>4
    <3>2. CASE Len(s.pq) = MaxInQ /\ \A x \in q : c(x) <= cost
      BY <3>2, <2>1, <1>11
    <3> QED BY <3>1, <3>2, <1>11
  <2> QED BY <2>1, <2>2, <1>1, <1>9, <1>11
<1>12. CASE /\ u = None /\ p = {t} \cup {x \in q : of(x) # h}
            /\ \A x \in q : of(x) = h => cost <= c(x)
            /\ Len(s.pq) = MaxInQ => Len(r.pq) = MaxInQ /\ \E x \in q : cost < c(x)
  <2>1. /\ \A x \in q : cr(x) = c(x) /\ ofr(x) = of(x)
        /\ cr(t) = cost /\ ofr(t) = h
    BY <1>3, <1>5, <1>6, <1>12
  <2>2. \A x, y \in p : ofr(x) = ofr(y) => x = y
    BY <2>1, <1>1, <1>12
  <2>3. \A x \in p : <<ofr(x), cr(x)>> \in r.offers
    BY <2>1, <1>1, <1>9, <1>12
  <2>4. ASSUME NEW o \in s.offers
        PROVE  \/ \E x \in p : ofr(x) = o[1] /\ cr(x) <= o[2]
               \/ Len(r.pq) = MaxInQ /\ \A x \in p : ofr(x) # o[1] /\ cr(x) <= o[2]
    <3>1. CASE \E x \in q : of(x) = o[1] /\ c(x) <= o[2]
      <4>1. PICK x \in q : of(x) = o[1] /\ c(x) <= o[2]
        BY <3>1
      <4>2. CASE of(x) # h
        BY <4>1, <4>2, <2>1, <1>12
      <4>3. CASE of(x) = h
        <5>1. cost <= c(x) /\ c(x) \in Nat /\ o[2] \in Nat
          BY <4>3, <1>4, <1>12
        <5>2. cost <= o[2]
          BY <5>1, <4>1
        <5> QED BY <5>2, <4>1, <4>3, <2>1, <1>12
      <4> QED BY <4>2, <4>3
    <3>2. CASE Len(s.pq) = MaxInQ /\ \A x \in q : of(x) # o[1] /\ c(x) <= o[2]
      <4>1. PICK x \in q : cost < c(x)
        BY <3>2, <1>12
      <4>2. cost <= o[2]
        <5>1. c(x) \in Nat /\ o[2] \in Nat /\ c(x) <= o[2]
          BY <3>2, <1>4
        <5> QED BY <5>1, <4>1
      <4>3. CASE h = o[1]
        BY <4>2, <4>3, <2>1, <1>12
      <4>4. CASE h # o[1]
        BY <4>2, <4>4, <3>2, <2>1, <1>12
      <4> QED BY <4>3, <4>4
    <3> QED BY <3>1, <3>2, <1>1
  <2>5. \E x \in p : ofr(x) = h /\ cr(x) <= cost
    BY <2>1, <1>12
  <2> QED BY <2>2, <2>3, <2>4, <2>5, <1>9
<1>13. CASE /\ u \in q /\ p = {t} \cup (q \ {u}) /\ \A x \in q : of(x) # h
            /\ Len(r.pq) = MaxInQ /\ cost < c(u) /\ \A x \in q \ {u} : c(x) <= c(u)
  <2>1. /\ \A x \in q \ {u} : cr(x) = c(x) /\ ofr(x) = of(x)
        /\ cr(t) = cost /\ ofr(t) = h
    BY <1>3, <1>5, <1>6, <1>13
  <2>2. \A x, y \in p : ofr(x) = ofr(y) => x = y
    BY <2>1, <1>1, <1>13
  <2>3. \A x \in p : <<ofr(x), cr(x)>> \in r.offers
    BY <2>1, <1>1, <1>9, <1>13
  <2>4. ASSUME NEW o \in s.offers
        PROVE  \/ \E x \in p : ofr(x) = o[1] /\ cr(x) <= o[2]
               \/ Len(r.pq) = MaxInQ /\ \A x \in p : ofr(x) # o[1] /\ cr(x) <= o[2]
    <3>0. o[2] \in Nat /\ c(u) \in Nat /\ \A x \in q : c(x) \in Nat
      BY <1>4, <1>13
    <3>1. CASE \E x \in q : of(x) = o[1] /\ c(x) <= o[2]
      <4>1. PICK x \in q : of(x) = o[1] /\ c(x) <= o[2]
        BY <3>1
      <4>2. CASE x # u
        BY <4>1, <4>2, <2>1, <1>13
      <4>3. CASE x = u
        <5>1. \A y \in q \ {u} : of(y) # o[1] /\ c(y) <= o[2]
          BY <4>1, <4>3, <3>0, <1>1, <1>13
        <5>2. h # o[1] /\ cost <= o[2]
          BY <4>1, <4>3, <3>0, <1>13
        <5> QED BY <5>1, <5>2, <2>1, <1>13
      <4> QED BY <4>2, <4>3
    <3>2. CASE Len(s.pq) = MaxInQ /\ \A x \in q : of(x) # o[1] /\ c(x) <= o[2]
      <4>2. cost <= o[2]
        BY <3>0, <3>2, <1>13
      <4>3. CASE h = o[1]
        BY <4>2, <4>3, <2>1, <1>13
      <4>4. CASE h # o[1]
        BY <4>2, <4>4, <3>2, <2>1, <1>13
      <4> QED BY <4>3, <4>4
    <3> QED BY <3>1, <3>2, <1>1
  <2>5. \E x \in p : ofr(x) = h /\ cr(x) <= cost
    BY <2>1, <1>13
  <2> QED BY <2>2, <2>3, <2>4, <2>5, <1>9
<1> QED BY <1>2, <1>11, <1>12, <1>13
-----------------------------------------------------------------------------
(* A word offered. *)

(* Every word of the queue ends in one of the nodes. *)
Ends(s, E) == \A x \in Range(s.pq) : s.wtoken[x].end_node \in E

(* What one offered word leaves to the search as it was. *)
Later(s, r) ==
  /\ r \in Steps /\ EndsOK(r)
  /\ \A x \in Live(s) : s.wtoken[x].end_time < csf => Same(s, r, x)
  /\ \A b \in Nil : Sound(s, b) => Sound(r, b)
  /\ NodesOK(s, csf) => NodesOK(r, csf)
  /\ DOMAIN r.nodes = DOMAIN s.nodes
  /\ \A i \in DOMAIN s.nodes : r.nodes[i].node = s.nodes[i].node

(* The queue after an answer: what it holds, and what it gave away. *)
LEMMA AnsweredMeans ==
  ASSUME NEW s \in Steps, NEW r, NEW t \in Wtokens \ Live(s), NEW u, NEW h, NEW cost \in Nat,
         QueueOK(s, csf), Answered(s, r, t, u, h, cost)
  PROVE  /\ Range(r.pq) \subseteq ({t} \cup Range(s.pq)) \ {u}
         /\ \A x \in Live(s) : x = u => cost < s.wtoken[x].cost
<1> DEFINE q == Range(s.pq)
           p == Range(r.pq)
           c(x) == s.wtoken[x].cost
<1>1. q \subseteq Live(s) /\ Live(s) \subseteq Wtokens /\ t \notin q /\ None \notin Wtokens
  BY GrammarAssumption DEF QueueOK, Live
<1>2. \/ u = t /\ r.pq = s.pq
      \/ u = None /\ p \subseteq {t} \cup q
      \/ u \in q /\ p = {t} \cup (q \ {u}) /\ cost < c(u)
  BY DEF Answered
<1>3. r.pq = s.pq => p = q
  OBVIOUS
<1> HIDE DEF q, p, c
<1>4. p \subseteq ({t} \cup q) \ {u} /\ \A x \in Live(s) : x = u => cost < c(x)
  BY <1>1, <1>2, <1>3
<1> QED BY <1>4 DEF q, p, c

(* srec_process_word_boundary_nbest keeps the search in order, and lives     *)
(* with the word it made.                                                    *)
LEMMA WordBoundaryOK ==
  ASSUME NEW s \in Steps, csf \in 0 .. MaxFrames - 1, EndsOK(s), NEW word \in Labels,
         NEW E, NEW node \in NodeIds \cap E, Ends(s, E),
         NEW bt \in Nil, Sound(s, bt), NEW cost \in Nat
  PROVE  LET r == WordBoundary(s, node, word, bt, cost)
         IN  /\ Later(s, r) /\ Ends(r, E)
             /\ \A x \in Live(s) : s.wtoken[x].cost <= cost => Same(s, r, x)
             /\ r.made # None => r.made \in Live(r) /\ r.wtoken[r.made].cost = cost
<1> DEFINE r == WordBoundary(s, node, word, bt, cost)
<1>0. csf \in Nat /\ csf < MaxFrames /\ MaxFrames \in Nat /\ None \notin Wtokens /\ None \in Nil
  BY SearchAssumption, GrammarAssumption DEF Nil
<1>1. CASE Refused(s, bt)
  <2>1. r = [s EXCEPT !.made = None]
    BY <1>1 DEF WordBoundary
  <2> HIDE DEF r
  <2>2. /\ r \in Steps /\ r.nodes = s.nodes /\ r.pq = s.pq /\ r.wtoken = s.wtoken
        /\ r.freelist = s.freelist /\ r.offers = s.offers /\ r.made = None
    BY <2>1, <1>0 DEF Steps
  <2>3. Live(r) = Live(s) /\ \A n : Until(r, n) = Until(s, n)
    BY <2>2 DEF Live, Until
  <2>4. /\ EndsOK(r) /\ Ends(r, E) /\ (NodesOK(s, csf) => NodesOK(r, csf))
        /\ \A b : Sound(s, b) => Sound(r, b)
    BY <2>2, <2>3 DEF EndsOK, PoolOK, QueueOK, Keeps, Ordered, Ends, NodesOK, Sound
  <2>5. \A x \in Live(s) : Same(s, r, x)
    BY <2>2, <2>3 DEF Same
  <2> QED BY <2>2, <2>4, <2>5 DEF Later, r
<1>2. CASE ~Refused(s, bt)
  <2> DEFINE t     == Head(s.freelist)
             w     == NewWord(word, node, bt, cost)
             toks  == [s.wtoken EXCEPT ![t] = w]
             a     == Answer(s, t, w)
             u     == a.removed
             h     == History(s.wtoken, word, node, bt)
             offer == <<History(toks, word, node, bt), cost>>
  <2>1. r = Queued(s, t, toks, a, offer)
    BY <1>2 DEF WordBoundary, Answer, NewWord
  <2>2. s.freelist # <<>> /\ (bt # None => ~(s.wtoken[bt].end_time >= csf))
    BY <1>2 DEF Refused
  <2>3. bt \in Until(s, csf)
    <3>1. CASE bt = None
      BY <3>1 DEF Until
    <3>2. CASE bt # None
      <4>1. bt \in Wtokens /\ s.wtoken[bt].end_time \in Nat
        <5>1. bt \in Wtokens
          BY <3>2 DEF Nil
        <5> QED BY <5>1, <1>0, StepsTypes, WordTypes
      <4>2. s.wtoken[bt].end_time < csf
        BY <4>1, <2>2, <3>2, <1>0
      <4>3. s.wtoken[bt].end_time # MaxFrames
        BY <4>1, <4>2, <1>0
      <4> QED BY <4>2, <4>3, <3>2 DEF Until, Sound
    <3> QED BY <3>1, <3>2
  <2>4. w \in Word /\ w.backtrace = bt /\ w.word = word /\ w.end_node = node /\ w.cost = cost /\ w.end_time = csf
    <3>1. csf \in 0 .. MaxFrames
      BY <1>0
    <3> QED BY <3>1 DEF NewWord, Word
  <2> HIDE DEF w
  <2>5. /\ t \in Wtokens \ Live(s) /\ toks \in [Wtokens -> Word] /\ toks[t] = w
        /\ \A x \in Wtokens : x # t => toks[x] = s.wtoken[x]
        /\ a.q \in Seq(Wtokens) /\ InOrder(toks, a.q) /\ Len(a.q) <= MaxInQ
    BY <2>2, <2>3, <2>4, FreshToken
  <2>6. offer = <<h, cost>>
    <3>1. bt # None => bt \in Wtokens /\ bt \in Live(s)
      BY <2>3 DEF Until, Live
    <3>2. bt # None => toks[bt] = s.wtoken[bt]
      BY <3>1, <2>5
    <3> HIDE DEF toks
    <3> QED BY <3>2 DEF History
  <2>7. offer \in Histories \X Nat
    <3> HIDE DEF t, toks
    <3>1. HistoryOf(toks, t) = History(toks, word, node, bt)
      BY <2>4, <2>5 DEF HistoryOf
    <3>2. HistoryOf(toks, t) \in Histories
      BY <2>5, HistoryType
    <3> QED BY <3>1, <3>2
  <2> HIDE DEF offer
  <2>8. /\ Filled(s, r, t, u, w) /\ r.pq = a.q /\ r.offers = s.offers \cup {offer}
        /\ r.made = IF u = t THEN None ELSE t
    <3>1. w.backtrace \in Until(s, csf)
      BY <2>3, <2>4
    <3> HIDE DEF r
    <3> QED BY <3>1, <2>1, <2>2, <2>4, <2>7, QueuedIs
  <2> HIDE DEF r
  <2>9. Answered(s, r, t, u, h, cost)
    <3>1. w.backtrace \in Until(s, csf)
      BY <2>3, <2>4
    <3>2. Answered(s, r, t, u, History(s.wtoken, w.word, w.end_node, w.backtrace), w.cost)
      BY <3>1, <2>2, <2>4, <2>8, AnsweredIs
    <3> QED BY <3>2, <2>4
  <2> HIDE DEF t, a, u, h, toks
  <2>10. PoolOK(s, csf + 1) /\ QueueOK(s, csf) /\ Keeps(s)
    BY DEF EndsOK
  <2>11. /\ PoolOK(r, csf + 1)
         /\ \A x \in Live(s) \ {u} : Same(s, r, x) /\ HistoryOf(r.wtoken, x) = HistoryOf(s.wtoken, x)
         /\ u # t => t \in Live(r) /\ r.wtoken[t] = w /\ HistoryOf(r.wtoken, t) = h
         /\ \A b \in Nil : Sound(s, b) => Sound(r, b)
         /\ NodesOK(s, csf) => NodesOK(r, csf)
    BY <2>3, <2>8, <2>10, FilledKeeps DEF w, h
  <2>12. /\ Range(r.pq) \subseteq ({t} \cup Range(s.pq)) \ {u}
         /\ \A x \in Live(s) : x = u => cost < s.wtoken[x].cost
    BY <2>5, <2>9, <2>10, AnsweredMeans
  <2>13. /\ r \in Steps /\ Live(r) = (Live(s) \cup {t}) \ {u}
         /\ \A x \in Wtokens : r.wtoken[x] = IF x = u THEN Killed ELSE IF x = t THEN w ELSE s.wtoken[x]
         /\ Blocks(s, r, u)
    BY <2>8 DEF Filled
  <2>14. Range(s.pq) \subseteq Live(s) /\ Live(s) \subseteq Wtokens
    BY <2>10 DEF QueueOK, Live
  <2>15. \A x \in Range(r.pq) : r.wtoken[x] = toks[x] /\ x \in Live(r) /\ (x = t \/ x \in Range(s.pq))
    BY <2>5, <2>12, <2>13, <2>14
  <2>16. QueueOK(r, csf)
    <3>1. \A i \in DOMAIN r.pq : r.wtoken[r.pq[i]] = toks[r.pq[i]]
      BY <2>15 DEF Range
    <3>2. InOrder(r.wtoken, r.pq)
      BY <3>1, <2>5, <2>8 DEF InOrder
    <3>3. \A x \in Range(r.pq) : toks[x].end_time = csf
      BY <2>4, <2>5, <2>10, <2>14, <2>15 DEF QueueOK
    <3> QED BY <3>2, <3>3, <2>5, <2>8, <2>15 DEF QueueOK, Ordered
  <2>17. Ends(r, E)
    <3> SUFFICES ASSUME NEW x \in Range(r.pq) PROVE r.wtoken[x].end_node \in E
      BY DEF Ends
    <3>1. CASE x = t
      BY <3>1, <2>4, <2>5, <2>15
    <3>2. CASE x # t
      <4>1. x \in Range(s.pq) /\ r.wtoken[x] = s.wtoken[x]
        BY <3>2, <2>5, <2>14, <2>15
      <4> QED BY <4>1 DEF Ends
    <3> QED BY <3>1, <3>2
  <2>18. Keeps(r)
    <3>1. t \in Wtokens \ Range(s.pq)
      BY <2>5, <2>14
    <3>2. \A x \in Range(s.pq) \ {u} : r.wtoken[x] = s.wtoken[x] /\ HistoryOf(r.wtoken, x) = HistoryOf(s.wtoken, x)
      BY <2>11, <2>14 DEF Same
    <3>3. u # t => r.wtoken[t].cost = cost /\ HistoryOf(r.wtoken, t) = h
      BY <2>4, <2>11
    <3>4. r.offers = s.offers \cup {<<h, cost>>}
      BY <2>6, <2>8
    <3> QED BY <3>1, <3>2, <3>3, <3>4, <2>9, <2>10, <2>13, KeepsStays
  <2>19. \A x \in Live(s) : s.wtoken[x].end_time < csf => x # u
    <3>1. u \in {t, None} \cup Range(s.pq)
      BY <2>8 DEF Filled
    <3>2. \A x \in Range(s.pq) : ~(s.wtoken[x].end_time < csf)
      BY <2>10, <1>0 DEF QueueOK
    <3> QED BY <3>1, <3>2, <2>5, <2>14, <1>0
  <2>20. \A x \in Live(s) : s.wtoken[x].cost <= cost => x # u
    <3> SUFFICES ASSUME NEW x \in Live(s), s.wtoken[x].cost <= cost, x = u PROVE FALSE
      OBVIOUS
    <3>1. cost < s.wtoken[x].cost
      BY <2>12
    <3>2. s.wtoken[x].cost \in Nat
      BY <2>14, StepsTypes, WordTypes
    <3> QED BY <3>1, <3>2
  <2>21. /\ DOMAIN r.nodes = DOMAIN s.nodes
         /\ \A i \in DOMAIN s.nodes : r.nodes[i].node = s.nodes[i].node
    BY <2>13 DEF Blocks
  <2>22. Later(s, r)
    BY <2>11, <2>13, <2>16, <2>18, <2>19, <2>21 DEF Later, EndsOK
  <2>23. r.made # None => r.made \in Live(r) /\ r.wtoken[r.made].cost = cost
    BY <2>4, <2>8, <2>11
  <2>24. \A x \in Live(s) : s.wtoken[x].cost <= cost => Same(s, r, x)
    BY <2>11, <2>20
  <2> QED BY <2>17, <2>22, <2>23, <2>24 DEF r
<1> QED BY <1>1, <1>2

(* The searches that differ in what nobody asks the queue or the pool. *)
LEMMA Alike ==
  ASSUME NEW r, NEW q \in Steps, q.nodes = r.nodes, q.pq = r.pq, q.wtoken = r.wtoken,
         q.freelist = r.freelist, q.offers = r.offers
  PROVE  /\ Live(q) = Live(r) /\ \A n : Until(q, n) = Until(r, n)
         /\ \A b : Sound(q, b) = Sound(r, b)
         /\ EndsOK(q) = EndsOK(r) /\ \A n : NodesOK(q, n) = NodesOK(r, n)
         /\ \A E : Ends(q, E) = Ends(r, E)
         /\ \A s : Later(s, r) => Later(s, q)
<1>1. Live(q) = Live(r)
  BY DEF Live
<1>2. \A n : Until(q, n) = Until(r, n)
  BY <1>1 DEF Until
<1>3. \A b : Sound(q, b) = Sound(r, b)
  BY <1>1 DEF Sound
<1>4. EndsOK(q) = EndsOK(r)
  <2>1. PoolOK(q, csf + 1) = PoolOK(r, csf + 1)
    BY <1>1, <1>2 DEF PoolOK
  <2>2. QueueOK(q, csf) = QueueOK(r, csf)
    BY <1>1 DEF QueueOK, Ordered
  <2>3. Keeps(q) = Keeps(r)
    BY DEF Keeps
  <2> QED BY <2>1, <2>2, <2>3 DEF EndsOK
<1>5. \A n : NodesOK(q, n) = NodesOK(r, n)
  BY <1>1, <1>2, <1>3 DEF NodesOK
<1>6. \A E : Ends(q, E) = Ends(r, E)
  BY DEF Ends
<1>7. ASSUME NEW s, Later(s, r) PROVE Later(s, q)
  <2>1. \A x : Same(s, r, x) => Same(s, q, x)
    BY <1>1 DEF Same
  <2> QED BY <2>1, <1>3, <1>4, <1>5, <1>7 DEF Later
<1> QED BY <1>1, <1>2, <1>3, <1>4, <1>5, <1>6, <1>7

(* One word after another. *)
LEMMA LaterStill ==
  ASSUME NEW s, NEW r, NEW q, Later(s, r), Later(r, q)
  PROVE  Later(s, q)
<1>1. ASSUME NEW x \in Live(s), s.wtoken[x].end_time < csf PROVE Same(s, q, x)
  <2>1. x \in Live(r) /\ r.wtoken[x] = s.wtoken[x]
    BY <1>1 DEF Later, Same
  <2>2. Same(r, q, x)
    BY <2>1, <1>1 DEF Later
  <2> QED BY <2>1, <2>2 DEF Same
<1> QED BY <1>1 DEF Later

(* No word at all. *)
LEMMA LaterItself ==
  ASSUME NEW s \in Steps, EndsOK(s)
  PROVE  Later(s, s)
BY DEF Later, Same

(* An alternative offered keeps the search in order. *)
LEMMA OfferOK ==
  ASSUME NEW s \in Steps, csf \in 0 .. MaxFrames - 1, EndsOK(s), NEW E, Ends(s, E),
         NEW tok, tok.node \in NodeIds \cap E, NEW w \in AltOf(Nil), Sound(s, w.bt), NEW cost \in Nat,
         s.made # None => s.made \in Live(s) /\ s.wtoken[s.made].cost = cost
  PROVE  LET r == Offer(s, tok, w, cost)
         IN  /\ Later(s, r) /\ Ends(r, E) /\ r.made = s.made
             /\ r.made # None => r.made \in Live(r) /\ r.wtoken[r.made].cost = cost
<1> DEFINE b == WordBoundary(s, tok.node, w.word, w.bt, cost + w.delta)
           r == Offer(s, tok, w, cost)
<1>1. w.word \in Labels /\ w.bt \in Nil /\ w.delta \in Nat
  BY DEF AltOf
<1>2. cost + w.delta \in Nat /\ cost <= cost + w.delta
  BY <1>1
<1>3. /\ Later(s, b) /\ Ends(b, E)
      /\ \A x \in Live(s) : s.wtoken[x].cost <= cost + w.delta => Same(s, b, x)
  BY <1>1, <1>2, WordBoundaryOK
<1>4. r = [b EXCEPT !.blocked = s.blocked, !.made = s.made]
  BY DEF Offer
<1> HIDE DEF b, r
<1>5. b \in Steps /\ s.blocked \in BOOLEAN /\ s.made \in Nil
  BY <1>3, StepsTypes DEF Later
<1>6. /\ r \in Steps /\ r.nodes = b.nodes /\ r.pq = b.pq /\ r.wtoken = b.wtoken
      /\ r.freelist = b.freelist /\ r.offers = b.offers /\ r.made = s.made
  BY <1>4, <1>5 DEF Steps
<1>7. Later(s, r) /\ Ends(r, E) /\ Live(r) = Live(b)
  BY <1>3, <1>6, Alike
<1>8. ASSUME s.made # None PROVE s.made \in Live(r) /\ r.wtoken[s.made].cost = cost
  <2>1. Same(s, b, s.made)
    BY <1>2, <1>3, <1>8
  <2> QED BY <2>1, <1>6, <1>7, <1>8 DEF Same
<1> QED BY <1>6, <1>7, <1>8 DEF r

(* So do all of them. *)
LEMMA AlternativesOK ==
  ASSUME NEW s \in Steps, csf \in 0 .. MaxFrames - 1, EndsOK(s), NEW E, Ends(s, E),
         NEW tok, tok.node \in NodeIds \cap E, tok.alts \in AltsOf(Nil),
         \A i \in DOMAIN tok.alts : Sound(s, tok.alts[i].bt), NEW cost \in Nat,
         s.made # None => s.made \in Live(s) /\ s.wtoken[s.made].cost = cost
  PROVE  LET r == Alternatives(s, tok, cost)
         IN  /\ Later(s, r) /\ Ends(r, E) /\ r.made = s.made
             /\ r.made # None => r.made \in Live(r) /\ r.wtoken[r.made].cost = cost
<1> DEFINE S == {r \in Steps : /\ Later(s, r) /\ Ends(r, E) /\ r.made = s.made
                               /\ r.made # None => r.made \in Live(r) /\ r.wtoken[r.made].cost = cost}
<1>1. s \in S
  BY LaterItself
<1>2. Len(tok.alts) \in Nat /\ DOMAIN tok.alts = 1 .. Len(tok.alts) /\ \A i \in DOMAIN tok.alts : tok.alts[i] \in AltOf(Nil)
  BY SeqFun DEF AltsOf
<1>3. ASSUME NEW acc \in S, NEW i \in 1 .. Len(tok.alts)
      PROVE  Offer(acc, tok, tok.alts[i], cost) \in S
  <2>1. tok.alts[i] \in AltOf(Nil) /\ tok.alts[i].bt \in Nil
    BY <1>2 DEF AltOf
  <2>2. Sound(acc, tok.alts[i].bt)
    BY <2>1, <1>2 DEF Later
  <2>3. acc \in Steps /\ EndsOK(acc) /\ Ends(acc, E) /\ Later(s, acc)
    BY DEF Later
  <2> DEFINE r == Offer(acc, tok, tok.alts[i], cost)
  <2>4. /\ Later(acc, r) /\ Ends(r, E) /\ r.made = acc.made
        /\ r.made # None => r.made \in Live(r) /\ r.wtoken[r.made].cost = cost
    BY <2>1, <2>2, <2>3, OfferOK
  <2>5. Later(s, r)
    BY <2>3, <2>4, LaterStill
  <2>6. r \in Steps
    BY <2>5 DEF Later
  <2> QED BY <2>4, <2>5, <2>6
<1> HIDE DEF S
<1>4. Alternatives(s, tok, cost) \in S
  BY <1>1, <1>2, <1>3, AltsFold
<1> QED BY <1>4 DEF S
-----------------------------------------------------------------------------
(* The nodes. *)

(* What holds of each token of a node. *)
NodeOK(s, n, x) ==
  /\ Sound(s, x.bt) /\ x.alts \in AltsOf(Until(s, n))
  /\ x.cost < MAXcostdata => x.bt \in Live(s) \cup {None}

(* The nodes in order, taken one by one. *)
LEMMA NodesAre ==
  ASSUME NEW s, NEW n
  PROVE  NodesOK(s, n) <=> Apart(s.nodes) /\ \A x \in Range(s.nodes) : NodeOK(s, n, x)
<1>1. NodesOK(s, n) <=> Apart(s.nodes) /\ \A i \in DOMAIN s.nodes : NodeOK(s, n, s.nodes[i])
  BY DEF NodesOK, Apart, NodeOK
<1> QED BY <1>1 DEF Range

NodesIn(s) == {s.nodes[i].node : i \in DOMAIN s.nodes}

(* Fewer tokens are on nodes of their own. *)
LEMMA OnlyApart ==
  ASSUME NEW T, NEW list \in Seq(T), NEW S, Apart(list)
  PROVE  Apart(Only(list, S))
<1> DEFINE r == Only(list, S)
<1>1. /\ r \in Seq(T)
      /\ \A j, k \in DOMAIN r : j < k => \E x, y \in DOMAIN list : x < y /\ r[j] = list[x] /\ r[k] = list[y]
  BY OnlyKeeps
<1>2. DOMAIN list \subseteq Int /\ DOMAIN r \subseteq Int
  <2>1. r \in Seq(T)
    BY <1>1
  <2> HIDE DEF r
  <2> QED BY <2>1, SeqFun
<1> HIDE DEF r
<1>3. ASSUME NEW j \in DOMAIN r, NEW k \in DOMAIN r, j < k, r[j].node = r[k].node PROVE FALSE
  <2>1. PICK x \in DOMAIN list, y \in DOMAIN list : x < y /\ r[j] = list[x] /\ r[k] = list[y]
    BY <1>1, <1>3
  <2>2. x = y
    BY <2>1, <1>3 DEF Apart
  <2> QED BY <2>1, <2>2, <1>2
<1>4. \A j, k \in DOMAIN r : r[j].node = r[k].node => j = k
  BY <1>2, <1>3
<1> QED BY <1>4 DEF Apart, r

(* So are they with one on another node. *)
LEMMA InsertApart ==
  ASSUME NEW T, NEW list \in Seq(T), NEW p \in 1 .. Len(list) + 1, NEW x \in T, Apart(list),
         \A i \in DOMAIN list : list[i].node # x.node
  PROVE  Apart(InsertAt(list, p, x))
<1> DEFINE r == InsertAt(list, p, x)
           n == Len(list)
<1>1. n \in Nat /\ DOMAIN list = 1 .. n
  OBVIOUS
<1>2. /\ DOMAIN r = 1 .. n + 1
      /\ \A k \in 1 .. n + 1 : r[k] = IF k < p THEN list[k] ELSE IF k = p THEN x ELSE list[k - 1]
  BY InsertAtIs
<1> HIDE DEF r, n
<1>3. p \in 1 .. n + 1
  BY DEF n
<1>4. \A k \in 1 .. n + 1 : \/ k < p /\ k \in 1 .. n
                            \/ k = p
                            \/ ~(k < p) /\ k # p /\ k - 1 \in 1 .. n
  BY <1>1, <1>3
<1> DEFINE from(k) == IF k < p THEN k ELSE k - 1
<1>5. \A k \in 1 .. n + 1 : k # p => from(k) \in DOMAIN list /\ r[k] = list[from(k)]
  BY <1>1, <1>2, <1>4
<1>6. \A j, k \in 1 .. n + 1 : j # p /\ k # p /\ from(j) = from(k) => j = k
  BY <1>1, <1>3
<1> HIDE DEF from
<1>7. r[p] = x
  BY <1>2, <1>3, <1>1
<1>8. \A j, k \in 1 .. n + 1 : r[j].node = r[k].node => j = k
  BY <1>5, <1>6, <1>7 DEF Apart
<1> QED BY <1>2, <1>8 DEF Apart, r

(* Nodes given to a search, its words as they were. *)
LEMMA WithNodes ==
  ASSUME NEW s \in Steps, NEW list \in Seq(TokenOf(Nil)), NEW n, Apart(list),
         \A x \in Range(list) : NodeOK(s, n, x)
  PROVE  LET r == [s EXCEPT !.nodes = list]
         IN  /\ r \in Steps /\ r.nodes = list /\ r.pq = s.pq /\ r.wtoken = s.wtoken /\ r.freelist = s.freelist
             /\ r.offers = s.offers /\ r.blocked = s.blocked /\ r.made = s.made
             /\ NodesOK(r, n)
<1> DEFINE r == [s EXCEPT !.nodes = list]
<1>1. /\ r \in Steps /\ r.nodes = list /\ r.pq = s.pq /\ r.wtoken = s.wtoken /\ r.freelist = s.freelist
      /\ r.offers = s.offers /\ r.blocked = s.blocked /\ r.made = s.made
  BY DEF Steps
<1> HIDE DEF r
<1>2. Live(r) = Live(s)
  BY <1>1 DEF Live
<1>3. Until(r, n) = Until(s, n)
  BY <1>1, <1>2 DEF Until
<1>4. \A x : NodeOK(s, n, x) => NodeOK(r, n, x)
  BY <1>1, <1>2, <1>3 DEF NodeOK, Sound
<1>5. NodesOK(r, n)
  BY <1>1, <1>4, NodesAre
<1> QED BY <1>1, <1>5 DEF r

(* A token put across an arc. *)
LEMMA CrossOK ==
  ASSUME NEW s \in Steps, NEW n, NodesOK(s, n), NEW node, NEW tok \in TokenOf(Nil), NodeOK(s, n, tok)
  PROVE  LET r == Cross(s, node, tok)
         IN  /\ r \in Steps /\ r.pq = s.pq /\ r.wtoken = s.wtoken /\ r.freelist = s.freelist
             /\ r.offers = s.offers /\ r.blocked = s.blocked /\ r.made = s.made
             /\ NodesOK(r, n) /\ NodesIn(s) \subseteq NodesIn(r) /\ NodesIn(r) \subseteq NodesIn(s) \cup {tok.node}
<1> DEFINE others == Only(s.nodes, {x \in Range(s.nodes) : x.node # tok.node})
           p == IndexOf(others, node) + 1
           list == InsertAt(others, p, tok)
           i == IndexOf(s.nodes, tok.node)
           r == Cross(s, node, tok)
<1>1. CASE i # 0 /\ tok.cost >= s.nodes[i].cost
  <2>1. r = s
    BY <1>1 DEF Cross
  <2> HIDE DEF r
  <2> QED BY <2>1 DEF r
<1>2. CASE ~(i # 0 /\ tok.cost >= s.nodes[i].cost)
  <2>1. r = [s EXCEPT !.nodes = list]
    BY <1>2 DEF Cross
  <2>2. s.nodes \in Seq(TokenOf(Nil)) /\ Apart(s.nodes) /\ \A x \in Range(s.nodes) : NodeOK(s, n, x)
    BY StepsTypes, NodesAre
  <2>3. /\ others \in Seq(TokenOf(Nil)) /\ Apart(others)
        /\ Range(others) = {x \in Range(s.nodes) : x.node # tok.node}
    BY <2>2, OnlyKeeps, OnlyApart
  <2> HIDE DEF others
  <2>4. p \in 1 .. Len(others) + 1
    <3>1. Len(others) \in Nat /\ DOMAIN others = 1 .. Len(others)
      BY <2>3
    <3>2. IndexOf(others, node) = 0 \/ IndexOf(others, node) \in DOMAIN others
      BY <2>3, IndexOfIs
    <3> QED BY <3>1, <3>2
  <2> HIDE DEF p
  <2>5. \A k \in DOMAIN others : others[k].node # tok.node
    BY <2>3 DEF Range
  <2>6. list \in Seq(TokenOf(Nil)) /\ Range(list) = Range(others) \cup {tok} /\ Apart(list)
    <3> HIDE DEF r, i
    <3>1. list \in Seq(TokenOf(Nil)) /\ Range(list) = Range(others) \cup {tok}
      BY <2>3, <2>4, InsertAtIs
    <3>2. Apart(list)
      BY <2>3, <2>4, <2>5, InsertApart
    <3> QED BY <3>1, <3>2
  <2> HIDE DEF list
  <2>7. \A x \in Range(list) : NodeOK(s, n, x)
    BY <2>2, <2>3, <2>6
  <2>8. /\ r \in Steps /\ r.pq = s.pq /\ r.wtoken = s.wtoken /\ r.freelist = s.freelist /\ r.nodes = list
        /\ r.offers = s.offers /\ r.blocked = s.blocked /\ r.made = s.made
        /\ NodesOK(r, n)
    BY <2>1, <2>6, <2>7, WithNodes
  <2> HIDE DEF r
  <2>9. NodesIn(s) = {x.node : x \in Range(s.nodes)} /\ NodesIn(r) = {x.node : x \in Range(list)}
    BY <2>8 DEF NodesIn, Range
  <2>10. NodesIn(s) \subseteq NodesIn(r) /\ NodesIn(r) \subseteq NodesIn(s) \cup {tok.node}
    BY <2>3, <2>6, <2>9
  <2> QED BY <2>8, <2>10 DEF r
<1> QED BY <1>1, <1>2

(* A node without its alternatives. *)
LEMMA WithoutAltsOK ==
  ASSUME NEW s \in Steps, NEW n, NodesOK(s, n), NEW node \in NodesIn(s)
  PROVE  LET r == WithoutAlts(s, node)
         IN  /\ r \in Steps /\ r.pq = s.pq /\ r.wtoken = s.wtoken /\ r.freelist = s.freelist
             /\ r.offers = s.offers /\ r.blocked = s.blocked /\ r.made = s.made
             /\ NodesOK(r, n) /\ NodesIn(r) = NodesIn(s)
<1> DEFINE i == IndexOf(s.nodes, node)
           tok == [s.nodes[i] EXCEPT !.alts = <<>>]
           list == [s.nodes EXCEPT ![i] = tok]
           r == WithoutAlts(s, node)
<1>1. s.nodes \in Seq(TokenOf(Nil)) /\ Apart(s.nodes) /\ \A x \in Range(s.nodes) : NodeOK(s, n, x)
  BY StepsTypes, NodesAre
<1>2. i \in DOMAIN s.nodes
  BY <1>1, IndexOfIs DEF NodesIn
<1> HIDE DEF i
<1>3. r = [s EXCEPT !.nodes = list]
  <2>1. s.nodes \in [DOMAIN s.nodes -> TokenOf(Nil)]
    BY <1>1, SeqFun
  <2> QED BY <2>1, Zenon DEF WithoutAlts, Steps, i
<1>4. s.nodes[i] \in TokenOf(Nil) /\ s.nodes[i] \in Range(s.nodes)
  BY <1>1, <1>2, SeqFun DEF Range
<1>5. /\ tok \in TokenOf(Nil) /\ tok.node = s.nodes[i].node /\ tok.bt = s.nodes[i].bt
      /\ tok.cost = s.nodes[i].cost /\ tok.alts = <<>>
  <2> HIDE DEF list, r
  <2>1. <<>> \in AltsOf(Nil)
    BY DEF AltsOf
  <2>2. \A x \in TokenOf(Nil), alts \in AltsOf(Nil) :
          LET y == [x EXCEPT !.alts = alts]
          IN  y \in TokenOf(Nil) /\ y.node = x.node /\ y.bt = x.bt /\ y.cost = x.cost /\ y.alts = alts
    BY DEF TokenOf
  <2> QED BY <2>1, <2>2, <1>4
<1> HIDE DEF tok
<1>6. NodeOK(s, n, tok)
  <2>1. NodeOK(s, n, s.nodes[i])
    BY <1>1, <1>4
  <2>2. <<>> \in AltsOf(Until(s, n))
    BY DEF AltsOf
  <2> QED BY <2>1, <2>2, <1>5 DEF NodeOK
<1>7. list \in Seq(TokenOf(Nil)) /\ Apart(list)
  <2>1. s.nodes \in TokensOf(Nil)
    BY <1>1 DEF TokensOf
  <2> QED BY <2>1, <1>2, <1>5, TokenChanged DEF TokensOf
<1>8. DOMAIN list = DOMAIN s.nodes /\ \A k \in DOMAIN list : list[k] = IF k = i THEN tok ELSE s.nodes[k]
  BY <1>1
<1> HIDE DEF list
<1>9. \A x \in Range(list) : NodeOK(s, n, x)
  BY <1>1, <1>6, <1>8 DEF Range
<1>10. /\ r \in Steps /\ r.pq = s.pq /\ r.wtoken = s.wtoken /\ r.freelist = s.freelist /\ r.nodes = list
       /\ r.offers = s.offers /\ r.blocked = s.blocked /\ r.made = s.made
       /\ NodesOK(r, n)
  BY <1>3, <1>7, <1>9, WithNodes
<1> HIDE DEF r
<1>11. \A k \in DOMAIN list : list[k].node = s.nodes[k].node
  BY <1>5, <1>8
<1>12. NodesIn(r) = NodesIn(s)
  BY <1>8, <1>10, <1>11 DEF NodesIn
<1> QED BY <1>10, <1>12 DEF r

(* The nodes that were blocked are released, the current one not. *)
LEMMA PruneBlockedOK ==
  ASSUME NEW s \in Steps, NEW n, NodesOK(s, n), NEW node \in NodesIn(s)
  PROVE  LET r == PruneBlocked(s, node)
         IN  /\ r \in Steps /\ r.pq = s.pq /\ r.wtoken = s.wtoken /\ r.freelist = s.freelist
             /\ r.offers = s.offers /\ NodesOK(r, n) /\ node \in NodesIn(r) /\ NodesIn(r) \subseteq NodesIn(s)
<1> DEFINE r == PruneBlocked(s, node)
           list == Only(s.nodes, {x \in Range(s.nodes) : x.node = node \/ 2 * x.cost < MAXcostdata})
<1>1. CASE ~s.blocked
  <2>1. r = s
    BY <1>1 DEF PruneBlocked
  <2> HIDE DEF r
  <2> QED BY <2>1 DEF r
<1>2. CASE s.blocked
  <2>1. r = [s EXCEPT !.nodes = list]
    BY <1>2, StepsTypes, Zenon DEF PruneBlocked, Steps
  <2>2. s.nodes \in Seq(TokenOf(Nil)) /\ Apart(s.nodes) /\ \A x \in Range(s.nodes) : NodeOK(s, n, x)
    BY StepsTypes, NodesAre
  <2>3. /\ list \in Seq(TokenOf(Nil)) /\ Apart(list)
        /\ Range(list) = Range(s.nodes) \cap {x \in Range(s.nodes) : x.node = node \/ 2 * x.cost < MAXcostdata}
    BY <2>2, OnlyKeeps, OnlyApart
  <2> HIDE DEF list
  <2>4. \A x \in Range(list) : NodeOK(s, n, x)
    BY <2>2, <2>3
  <2>5. /\ r \in Steps /\ r.pq = s.pq /\ r.wtoken = s.wtoken /\ r.freelist = s.freelist /\ r.nodes = list
        /\ r.offers = s.offers /\ NodesOK(r, n)
    BY <2>1, <2>3, <2>4, WithNodes
  <2> HIDE DEF r
  <2>6. NodesIn(s) = {x.node : x \in Range(s.nodes)} /\ NodesIn(r) = {x.node : x \in Range(list)}
    BY <2>5 DEF NodesIn, Range
  <2>7. node \in NodesIn(r) /\ NodesIn(r) \subseteq NodesIn(s)
    BY <2>3, <2>6
  <2> QED BY <2>5, <2>7 DEF r
<1> QED BY <1>1, <1>2
-----------------------------------------------------------------------------
(* Arcs crossed. *)

(* A search after the arcs that leave a node without a model. *)
Crossed(s, node) ==
  FoldLeft(LAMBDA acc, a : CrossArc(acc, node, a), s, Leaving(node, {"boundary", "epsilon"}))

(* The arcs of a node keep what each of them keeps. *)
LEMMA CrossedFold ==
  ASSUME NEW S, NEW s \in S, NEW node,
         \A acc \in S, a \in Range(Leaving(node, {"boundary", "epsilon"})) : CrossArc(acc, node, a) \in S
  PROVE  Crossed(s, node) \in S
<1> DEFINE list == Leaving(node, {"boundary", "epsilon"})
           n == Len(list)
           D == 1 .. n
           Step(acc, i) == CrossArc(acc, node, list[i])
           op == [p \in S \X D |-> Step(p[1], p[2])]
           iter == CHOOSE g : g = [d \in SUBSET D |->
                                     IF d = {} THEN s ELSE Step(g[d \ {Max(d)}], Max(d))]
<1>0. n \in Nat /\ DOMAIN list = D
  BY LeavingArcs, SeqFun
<1>1. Crossed(s, node) = iter[D]
  BY <1>0, Zenon DEF Crossed, FoldLeft, MapThenFoldSet
<1>2. \A a \in S, i \in D : Step(a, i) \in S
  <2>1. \A i \in D : list[i] \in Range(list)
    BY <1>0 DEF Range
  <2> HIDE DEF n
  <2> QED BY <2>1
<1> HIDE DEF Step
<1>3. op \in [S \X D -> S] /\ \A a \in S, i \in D : op[<<a, i>>] = Step(a, i)
  BY <1>2
<1> HIDE DEF op
<1>4. PICK g : IsRun(g, S, n, s, op)
  BY <1>0, <1>3, FoldExists
<1>5. ASSUME NEW d \in SUBSET D, d # {}
      PROVE  op[<<g[d \ {Max(d)}], Max(d)>>] = Step(g[d \ {Max(d)}], Max(d))
  <2>1. g[d \ {Max(d)}] \in S
    BY <1>4 DEF IsRun
  <2>2. Max(d) \in D
    BY <1>0, <1>5, MaxIn
  <2> QED BY <1>3, <2>1, <2>2
<1>6. g = [d \in SUBSET D |-> IF d = {} THEN s ELSE Step(g[d \ {Max(d)}], Max(d))]
  BY <1>4, <1>5 DEF IsRun
<1>7. iter = [d \in SUBSET D |-> IF d = {} THEN s ELSE Step(iter[d \ {Max(d)}], Max(d))]
  BY <1>6, Zenon
<1> HIDE DEF iter
<1>8. iter[{}] \in S
  BY <1>0, <1>7
<1>9. ASSUME NEW k \in Nat, k + 1 <= n, iter[1 .. k] \in S
      PROVE  iter[1 .. k + 1] \in S
  <2>1. /\ 1 .. k + 1 \in SUBSET D /\ 1 .. k + 1 # {} /\ k + 1 \in D
        /\ (1 .. k + 1) \ {k + 1} = 1 .. k /\ Max(1 .. k + 1) = k + 1
    BY <1>0, <1>9, UpToNext
  <2>2. iter[1 .. k + 1] = Step(iter[1 .. k], k + 1)
    BY <1>7, <2>1
  <2> QED BY <1>2, <1>9, <2>1, <2>2
<1>10. iter[D] \in S
  BY <1>0, <1>8, <1>9, FoldStays
<1> QED BY <1>1, <1>10

(* The queue and the pool alone. *)
LEMMA AlikeWords ==
  ASSUME NEW r, NEW q, q.pq = r.pq, q.wtoken = r.wtoken, q.freelist = r.freelist, q.offers = r.offers
  PROVE  /\ Live(q) = Live(r) /\ \A n : Until(q, n) = Until(r, n)
         /\ EndsOK(r) => EndsOK(q)
         /\ \A E : Ends(r, E) => Ends(q, E)
<1>1. Live(q) = Live(r)
  BY DEF Live
<1>2. \A n : Until(q, n) = Until(r, n)
  BY <1>1 DEF Until
<1>3. EndsOK(r) => EndsOK(q)
  <2>1. PoolOK(r, csf + 1) => PoolOK(q, csf + 1)
    BY <1>1, <1>2 DEF PoolOK
  <2>2. QueueOK(r, csf) => QueueOK(q, csf)
    BY <1>1 DEF QueueOK, Ordered
  <2>3. Keeps(r) => Keeps(q)
    BY DEF Keeps
  <2> QED BY <2>1, <2>2, <2>3 DEF EndsOK
<1> QED BY <1>1, <1>2, <1>3 DEF Ends

(* The token of a node in the list. *)
LEMMA CurrentToken ==
  ASSUME NEW s \in Steps, NEW n, NodesOK(s, n), NEW node \in NodesIn(s)
  PROVE  LET tok == s.nodes[IndexOf(s.nodes, node)]
         IN  tok \in TokenOf(Nil) /\ tok.node = node /\ NodeOK(s, n, tok)
<1> DEFINE i == IndexOf(s.nodes, node)
<1>1. s.nodes \in Seq(TokenOf(Nil)) /\ \A x \in Range(s.nodes) : NodeOK(s, n, x)
  BY StepsTypes, NodesAre
<1>2. i \in DOMAIN s.nodes /\ s.nodes[i].node = node
  BY <1>1, IndexOfIs DEF NodesIn
<1> HIDE DEF i
<1>3. s.nodes[i] \in Range(s.nodes) /\ s.nodes[i] \in TokenOf(Nil)
  BY <1>1, <1>2, SeqFun DEF Range
<1> QED BY <1>1, <1>2, <1>3 DEF i

(* The alternatives at the other side of an arc. *)
LEMMA AltsAtOK ==
  ASSUME NEW s \in Steps, NEW n, NodesOK(s, n), NEW node
  PROVE  AltsAt(s, node) \in AltsOf(Until(s, n))
<1> DEFINE i == IndexOf(s.nodes, node)
<1>1. i = 0 \/ i \in DOMAIN s.nodes
  BY StepsTypes, IndexOfIs
<1>2. AltsAt(s, node) = IF i = 0 THEN <<>> ELSE s.nodes[i].alts
  BY DEF AltsAt
<1> HIDE DEF i
<1>3. <<>> \in AltsOf(Until(s, n))
  BY DEF AltsOf
<1>4. i \in DOMAIN s.nodes => s.nodes[i].alts \in AltsOf(Until(s, n))
  BY DEF NodesOK
<1> QED BY <1>1, <1>2, <1>3, <1>4

(* What has ended is a token or none. *)
LEMMA UntilNil == ASSUME NEW s, NEW n PROVE Until(s, n) \subseteq Nil
BY DEF Until, Live, Nil

(* The searches of a frame that started with base, about to cross an arc of *)
(* node.                                                                    *)
Frame(base, E, node) ==
  {r \in Steps : /\ EndsOK(r) /\ NodesOK(r, csf) /\ Ends(r, E) /\ node \in NodesIn(r)
                 /\ \A x \in Live(base) : base.wtoken[x].end_time < csf => Same(base, r, x)}

(* A word goes across the arc. *)
LEMMA BoundaryOK ==
  ASSUME csf \in 0 .. MaxFrames - 1, NEW base, NEW E, NEW node \in NodeIds \cap E,
         NEW s \in Frame(base, E, node), NEW tok \in TokenOf(Nil), tok.node = node, NodeOK(s, csf, tok),
         NEW cost \in Nat, NEW word \in Labels, NEW to \in NodeIds
  PROVE  CrossAsWord(WithoutAlts(Alternatives(WordBoundary(s, node, word, tok.bt, cost), tok, cost), node),
                     node, to, cost) \in Frame(base, E, node)
<1> DEFINE b == WordBoundary(s, node, word, tok.bt, cost)
           a == Alternatives(b, tok, cost)
           c == WithoutAlts(a, node)
           new == [node |-> to, cost |-> cost, word |-> Epsilon, bt |-> c.made, alts |-> AltsAt(c, to)]
           r == CrossAsWord(c, node, to, cost)
<1>1. /\ s \in Steps /\ EndsOK(s) /\ NodesOK(s, csf) /\ Ends(s, E) /\ node \in NodesIn(s)
      /\ \A x \in Live(base) : base.wtoken[x].end_time < csf => Same(base, s, x)
  BY DEF Frame
<1>2. /\ tok.bt \in Nil /\ tok.alts \in AltsOf(Nil) /\ Sound(s, tok.bt) /\ tok.alts \in AltsOf(Until(s, csf))
      /\ tok.node \in NodeIds \cap E
  BY DEF TokenOf, NodeOK
<1>3. /\ Later(s, b) /\ Ends(b, E)
      /\ b.made # None => b.made \in Live(b) /\ b.wtoken[b.made].cost = cost
  BY <1>1, <1>2, WordBoundaryOK
<1> HIDE DEF b
<1>4. b \in Steps /\ EndsOK(b)
  BY <1>3 DEF Later
<1>5. \A i \in DOMAIN tok.alts : Sound(b, tok.alts[i].bt)
  <2> SUFFICES ASSUME NEW i \in DOMAIN tok.alts PROVE Sound(b, tok.alts[i].bt)
    OBVIOUS
  <2>1. tok.alts[i] \in AltOf(Until(s, csf))
    BY <1>2, SeqFun DEF AltsOf
  <2>2. tok.alts[i].bt \in Until(s, csf)
    BY <2>1 DEF AltOf
  <2>3. tok.alts[i].bt \in Nil /\ Sound(s, tok.alts[i].bt)
    BY <2>2, UntilNil DEF Until, Sound
  <2> QED BY <2>3, <1>3 DEF Later
<1>6. /\ Later(b, a) /\ Ends(a, E) /\ a.made = b.made
      /\ a.made # None => a.made \in Live(a) /\ a.wtoken[a.made].cost = cost
  BY <1>2, <1>3, <1>4, <1>5, AlternativesOK
<1> HIDE DEF a
<1>7. Later(s, a)
  BY <1>3, <1>6, LaterStill
<1>8. a \in Steps /\ EndsOK(a) /\ NodesOK(a, csf) /\ node \in NodesIn(a)
  BY <1>1, <1>7 DEF Later, NodesIn
<1>9. \A x \in Live(base) : base.wtoken[x].end_time < csf => Same(base, a, x)
  BY <1>1, <1>7 DEF Later, Same
<1>10. /\ c \in Steps /\ c.pq = a.pq /\ c.wtoken = a.wtoken /\ c.freelist = a.freelist
       /\ c.offers = a.offers /\ c.made = a.made
       /\ NodesOK(c, csf) /\ node \in NodesIn(c)
  BY <1>8, WithoutAltsOK
<1> HIDE DEF c
<1>11. /\ r \in Steps /\ r.pq = a.pq /\ r.wtoken = a.wtoken /\ r.freelist = a.freelist /\ r.offers = a.offers
       /\ NodesOK(r, csf) /\ node \in NodesIn(r)
  <2>1. CASE c.made = None
    <3>1. r = c
      BY <2>1 DEF CrossAsWord
    <3> HIDE DEF r
    <3> QED BY <3>1, <1>10
  <2>2. CASE c.made # None
    <3>1. r = Cross(c, node, new)
      BY <2>2 DEF CrossAsWord
    <3>2. Live(c) = Live(a)
      BY <1>10 DEF Live
    <3>3. c.made \in Live(c) /\ c.made \in Nil
      BY <3>2, <2>2, <1>6, <1>10, StepsTypes
    <3>4. AltsAt(c, to) \in AltsOf(Until(c, csf)) /\ AltsAt(c, to) \in AltsOf(Nil)
      BY <1>10, AltsAtOK, UntilNil, AltsGrow
    <3>5. Epsilon \in Labels
      BY DEF Labels
    <3>6. new \in TokenOf(Nil)
      <4> DEFINE alts == AltsAt(c, to)
      <4>1. alts \in AltsOf(Nil)
        BY <3>4
      <4> HIDE DEF alts
      <4>2. [node |-> to, cost |-> cost, word |-> Epsilon, bt |-> c.made, alts |-> alts] \in TokenOf(Nil)
        BY <4>1, <3>3, <3>5 DEF TokenOf
      <4> QED BY <4>2 DEF alts
    <3>7. NodeOK(c, csf, new)
      BY <3>3, <3>4 DEF NodeOK, Sound
    <3> HIDE DEF new, r
    <3> QED BY <3>1, <3>6, <3>7, <1>10, CrossOK
  <2> QED BY <2>1, <2>2
<1> HIDE DEF r
<1>12. EndsOK(r) /\ Ends(r, E) /\ Live(r) = Live(a)
  BY <1>6, <1>8, <1>11, AlikeWords
<1>13. \A x \in Live(base) : base.wtoken[x].end_time < csf => Same(base, r, x)
  BY <1>9, <1>11, <1>12 DEF Same
<1>14. r \in Frame(base, E, node)
  BY <1>11, <1>12, <1>13 DEF Frame
<1> QED BY <1>14 DEF r, c, a, b

(* The threshold of the queue is a cost. *)
LEMMA ThresholdType ==
  ASSUME NEW q \in Seq(Wtokens), NEW toks \in [Wtokens -> Word]
  PROVE  MaxCostInQ(q, toks) \in Nat
<1>1. MaxInQ \in Nat /\ MaxInQ > 0 /\ MAXcostdata \in Nat
  BY SearchAssumption
<1>2. CASE Len(q) >= MaxInQ
  <2>1. Len(q) \in Nat /\ q # <<>>
    BY <1>1, <1>2
  <2>2. Head(q) \in Wtokens
    BY <2>1
  <2>3. toks[Head(q)].cost \in Nat
    BY <2>2, WordTypes
  <2> QED BY <2>3, <1>2 DEF MaxCostInQ
<1>3. CASE ~(Len(q) >= MaxInQ)
  BY <1>1, <1>3 DEF MaxCostInQ
<1> QED BY <1>2, <1>3

(* The search after an arc, with its word or without one. *)
AcrossBoundary(s, node, tok, to, cost, word) ==
  CrossAsWord(WithoutAlts(Alternatives(WordBoundary(s, node, word, tok.bt, cost), tok, cost), node),
              node, to, cost)

AcrossEpsilon(s, node, tok, to, cost, word) ==
  Cross(s, node, [node |-> to, cost |-> cost, word |-> word, bt |-> tok.bt, alts |-> tok.alts])

(* An arc is not crossed, crossed as a boundary or crossed as an epsilon. *)
LEMMA CrossToIs ==
  ASSUME NEW s \in Steps, NEW node, NEW tok, NEW arc, arc.cost \in Nat, arc.ilabel \in {"boundary", "epsilon"},
         NEW cost \in Nat, NEW word
  PROVE  \/ CrossTo(s, node, tok, arc, cost, word) = s
         \/ /\ arc.ilabel = "boundary"
            /\ CrossTo(s, node, tok, arc, cost, word) = AcrossBoundary(s, node, tok, arc.to, cost, word)
         \/ /\ arc.ilabel = "epsilon"
            /\ CrossTo(s, node, tok, arc, cost, word) = AcrossEpsilon(s, node, tok, arc.to, cost, word)
<1> DEFINE m == MaxCostInQ(s.pq, s.wtoken)
           r == CrossTo(s, node, tok, arc, cost, word)
           b == AcrossBoundary(s, node, tok, arc.to, cost, word)
           e == AcrossEpsilon(s, node, tok, arc.to, cost, word)
           p == \/ arc.cost >= PruneDelta
                \/ arc.ilabel = "boundary" /\ cost >= m
           pb == arc.ilabel = "boundary" /\ arc.cost < PruneDelta /\ cost < m
           pe == arc.ilabel = "epsilon" /\ arc.cost < PruneDelta
<1>1. r = CASE p -> s [] pb -> b [] pe -> e
  BY Zenon DEF CrossTo, AcrossBoundary, AcrossEpsilon
<1>2. m \in Nat /\ PruneDelta \in Nat
  BY StepsTypes, ThresholdType, SearchAssumption
<1> HIDE DEF m, r, b, e
<1>3. (p /\ ~pb /\ ~pe) \/ (~p /\ pb /\ ~pe) \/ (~p /\ ~pb /\ pe)
  BY <1>2
<1>4. (pb => arc.ilabel = "boundary") /\ (pe => arc.ilabel = "epsilon")
  OBVIOUS
<1> HIDE DEF p, pb, pe
<1>5. r = s \/ (arc.ilabel = "boundary" /\ r = b) \/ (arc.ilabel = "epsilon" /\ r = e)
  BY <1>1, <1>3, <1>4
<1> QED BY <1>5 DEF r, b, e

(* What the path brings to the other side of an arc. *)
LEMMA AcrossTypes ==
  ASSUME NEW s, NEW n, NEW tok \in TokenOf(Nil), NodeOK(s, n, tok), NEW a \in DOMAIN Arcs
  PROVE  LET cost == tok.cost + Arcs[a].cost
             word == IF Arcs[a].olabel # Epsilon THEN Arcs[a].olabel ELSE tok.word
             new  == [node |-> Arcs[a].to, cost |-> cost, word |-> word, bt |-> tok.bt, alts |-> tok.alts]
         IN  cost \in Nat /\ word \in Labels /\ new \in TokenOf(Nil) /\ NodeOK(s, n, new)
<1> DEFINE cost == tok.cost + Arcs[a].cost
           word == IF Arcs[a].olabel # Epsilon THEN Arcs[a].olabel ELSE tok.word
           new  == [node |-> Arcs[a].to, cost |-> cost, word |-> word, bt |-> tok.bt, alts |-> tok.alts]
<1>1. tok.cost \in Nat /\ tok.word \in Labels /\ tok.bt \in Nil /\ tok.alts \in AltsOf(Nil)
  BY DEF TokenOf
<1>2. Arcs[a].cost \in Nat /\ Arcs[a].olabel \in Labels /\ Arcs[a].to \in NodeIds
  BY ArcTypes
<1>3. cost \in Nat /\ word \in Labels /\ (cost < MAXcostdata => tok.cost < MAXcostdata)
  BY <1>1, <1>2, SearchAssumption
<1> HIDE DEF cost, word
<1>4. /\ new \in TokenOf(Nil) /\ new.cost = cost /\ new.bt = tok.bt /\ new.alts = tok.alts
  BY <1>1, <1>2, <1>3 DEF TokenOf
<1> HIDE DEF new
<1>5. NodeOK(s, n, new)
  BY <1>3, <1>4 DEF NodeOK
<1> QED BY <1>3, <1>4, <1>5 DEF cost, word, new

(* A crossed arc keeps the search of the frame in order. *)
LEMMA CrossArcOK ==
  ASSUME csf \in 0 .. MaxFrames - 1, NEW base, NEW E, NEW node \in NodeIds,
         \A a \in DOMAIN Arcs : Arcs[a].from = node /\ Arcs[a].ilabel = "boundary" => node \in E,
         NEW s \in Frame(base, E, node), NEW a \in Range(Leaving(node, {"boundary", "epsilon"}))
  PROVE  CrossArc(s, node, a) \in Frame(base, E, node)
<1> DEFINE tok == s.nodes[IndexOf(s.nodes, node)]
           arc == Arcs[a]
           cost == tok.cost + arc.cost
           word == IF arc.olabel # Epsilon THEN arc.olabel ELSE tok.word
           new  == [node |-> arc.to, cost |-> cost, word |-> word, bt |-> tok.bt, alts |-> tok.alts]
           r == CrossArc(s, node, a)
<1>1. s \in Steps /\ NodesOK(s, csf) /\ node \in NodesIn(s) /\ EndsOK(s) /\ Ends(s, E)
  BY DEF Frame
<1>2. tok \in TokenOf(Nil) /\ tok.node = node /\ NodeOK(s, csf, tok)
  BY <1>1, CurrentToken
<1> HIDE DEF tok
<1>3. /\ a \in DOMAIN Arcs /\ arc.from = node /\ arc.ilabel \in {"boundary", "epsilon"}
      /\ arc.cost \in Nat /\ arc.to \in NodeIds
  BY LeavingArcs, ArcTypes
<1>4. cost \in Nat /\ word \in Labels /\ new \in TokenOf(Nil) /\ NodeOK(s, csf, new)
  BY <1>2, <1>3, AcrossTypes
<1>5. r = CrossTo(s, node, tok, arc, cost, word)
  BY Zenon DEF CrossArc, tok
<1>0. arc.ilabel = "boundary" => node \in E
  BY <1>3
<1> HIDE DEF cost, word, r, arc
<1>6. \/ r = s
      \/ node \in E /\ r = AcrossBoundary(s, node, tok, arc.to, cost, word)
      \/ r = AcrossEpsilon(s, node, tok, arc.to, cost, word)
  BY <1>0, <1>1, <1>3, <1>4, <1>5, CrossToIs
<1>7. node \in E => AcrossBoundary(s, node, tok, arc.to, cost, word) \in Frame(base, E, node)
  <2> HIDE DEF new
  <2> QED BY <1>2, <1>3, <1>4, BoundaryOK DEF AcrossBoundary
<1>8. AcrossEpsilon(s, node, tok, arc.to, cost, word) \in Frame(base, E, node)
  <2> DEFINE q == Cross(s, node, new)
  <2>1. AcrossEpsilon(s, node, tok, arc.to, cost, word) = q
    BY DEF AcrossEpsilon
  <2> HIDE DEF new
  <2>2. /\ q \in Steps /\ q.pq = s.pq /\ q.wtoken = s.wtoken /\ q.freelist = s.freelist /\ q.offers = s.offers
        /\ NodesOK(q, csf) /\ NodesIn(s) \subseteq NodesIn(q)
    BY <1>1, <1>4, CrossOK
  <2> HIDE DEF q
  <2>3. EndsOK(q) /\ Ends(q, E) /\ Live(q) = Live(s)
    BY <1>1, <2>2, AlikeWords
  <2>4. \A x \in Live(base) : base.wtoken[x].end_time < csf => Same(base, q, x)
    BY <2>2, <2>3 DEF Same, Frame
  <2> QED BY <1>1, <2>1, <2>2, <2>3, <2>4 DEF Frame
<1> QED BY <1>6, <1>7, <1>8 DEF r

(* A node's turn in a frame. *)
LEMMA ProcessedOK ==
  ASSUME csf \in 0 .. MaxFrames - 1, NEW E, NEW node \in NodeIds,
         \A a \in DOMAIN Arcs : Arcs[a].from = node /\ Arcs[a].ilabel = "boundary" => node \in E,
         NEW s \in Steps, EndsOK(s), NodesOK(s, csf), Ends(s, E), node \in NodesIn(s)
  PROVE  Processed(s, node) \in Frame(s, E, node)
<1> DEFINE c == Crossed(s, node)
           r == PruneBlocked(c, node)
<1>1. s \in Frame(s, E, node)
  BY DEF Frame, Same
<1>2. \A acc \in Frame(s, E, node), a \in Range(Leaving(node, {"boundary", "epsilon"})) :
        CrossArc(acc, node, a) \in Frame(s, E, node)
  BY CrossArcOK
<1>3. c \in Frame(s, E, node)
  BY <1>1, <1>2, CrossedFold
<1>4. Processed(s, node) = r
  BY DEF Processed, Crossed
<1> HIDE DEF c
<1>5. /\ c \in Steps /\ EndsOK(c) /\ NodesOK(c, csf) /\ Ends(c, E) /\ node \in NodesIn(c)
      /\ \A x \in Live(s) : s.wtoken[x].end_time < csf => Same(s, c, x)
  BY <1>3 DEF Frame
<1>6. /\ r \in Steps /\ r.pq = c.pq /\ r.wtoken = c.wtoken /\ r.freelist = c.freelist
      /\ r.offers = c.offers /\ NodesOK(r, csf) /\ node \in NodesIn(r)
  BY <1>5, PruneBlockedOK
<1> HIDE DEF r
<1>7. EndsOK(r) /\ Ends(r, E) /\ Live(r) = Live(c)
  BY <1>5, <1>6, AlikeWords
<1>8. \A x \in Live(s) : s.wtoken[x].end_time < csf => Same(s, r, x)
  BY <1>5, <1>6, <1>7 DEF Same
<1> QED BY <1>4, <1>6, <1>7, <1>8 DEF Frame

(* The searches before the first frame. *)
Before(s, R, node) ==
  {r \in Steps : /\ r.pq = s.pq /\ r.wtoken = s.wtoken /\ r.freelist = s.freelist /\ r.offers = s.offers
                 /\ NodesOK(r, 0) /\ node \in NodesIn(r) /\ NodesIn(r) \subseteq R}

(* A node's turn before the first frame: no word ends. *)
LEMMA ProcessedBefore ==
  ASSUME NEW R, Silent(R), NEW s \in Steps, NodesOK(s, 0), NodesIn(s) \subseteq R, NEW node \in NodesIn(s)
  PROVE  Processed(s, node) \in Before(s, R, node)
<1> DEFINE B == Before(s, R, node)
<1>1. s \in B
  BY DEF Before
<1>2. ASSUME NEW acc \in B, NEW a \in Range(Leaving(node, {"boundary", "epsilon"}))
      PROVE  CrossArc(acc, node, a) \in B
  <2> DEFINE tok == acc.nodes[IndexOf(acc.nodes, node)]
             arc == Arcs[a]
             cost == tok.cost + arc.cost
             word == IF arc.olabel # Epsilon THEN arc.olabel ELSE tok.word
             new  == [node |-> arc.to, cost |-> cost, word |-> word, bt |-> tok.bt, alts |-> tok.alts]
             r == CrossArc(acc, node, a)
             q == Cross(acc, node, new)
  <2>1. /\ acc \in Steps /\ NodesOK(acc, 0) /\ node \in NodesIn(acc) /\ NodesIn(acc) \subseteq R
        /\ acc.pq = s.pq /\ acc.wtoken = s.wtoken /\ acc.freelist = s.freelist /\ acc.offers = s.offers
    BY DEF Before
  <2>2. tok \in TokenOf(Nil) /\ tok.node = node /\ NodeOK(acc, 0, tok)
    BY <2>1, CurrentToken
  <2> HIDE DEF tok, B
  <2>3. a \in DOMAIN Arcs /\ arc.from = node /\ arc.ilabel \in {"boundary", "epsilon"} /\ arc.cost \in Nat
    BY LeavingArcs, ArcTypes
  <2>4. arc.ilabel # "boundary" /\ arc.to \in R
    BY <2>3 DEF Silent
  <2>5. cost \in Nat /\ word \in Labels /\ new \in TokenOf(Nil) /\ NodeOK(acc, 0, new)
    BY <2>2, <2>3, AcrossTypes
  <2>6. r = CrossTo(acc, node, tok, arc, cost, word)
    BY Zenon DEF CrossArc, tok
  <2>7. AcrossEpsilon(acc, node, tok, arc.to, cost, word) = q
    BY DEF AcrossEpsilon
  <2> HIDE DEF cost, word, r, arc
  <2>8. r = acc \/ r = q
    BY <2>1, <2>3, <2>4, <2>5, <2>6, <2>7, CrossToIs
  <2>9. new.node = arc.to
    OBVIOUS
  <2> HIDE DEF new
  <2>10. /\ q \in Steps /\ q.pq = acc.pq /\ q.wtoken = acc.wtoken /\ q.freelist = acc.freelist
         /\ q.offers = acc.offers /\ NodesOK(q, 0) /\ NodesIn(acc) \subseteq NodesIn(q)
         /\ NodesIn(q) \subseteq NodesIn(acc) \cup {arc.to}
    BY <2>1, <2>5, <2>9, CrossOK
  <2> HIDE DEF q
  <2>11. q \in B
    BY <2>1, <2>4, <2>10 DEF B, Before
  <2> QED BY <2>8, <2>11 DEF r
<1> DEFINE c == Crossed(s, node)
           p == PruneBlocked(c, node)
<1>3. c \in B
  <2> HIDE DEF B
  <2> QED BY <1>1, <1>2, CrossedFold
<1>4. Processed(s, node) = p
  BY DEF Processed, Crossed
<1> HIDE DEF c
<1>5. /\ c \in Steps /\ NodesOK(c, 0) /\ node \in NodesIn(c) /\ NodesIn(c) \subseteq R
      /\ c.pq = s.pq /\ c.wtoken = s.wtoken /\ c.freelist = s.freelist /\ c.offers = s.offers
  BY <1>3 DEF Before
<1>6. /\ p \in Steps /\ p.pq = c.pq /\ p.wtoken = c.wtoken /\ p.freelist = c.freelist
      /\ p.offers = c.offers /\ NodesOK(p, 0) /\ node \in NodesIn(p) /\ NodesIn(p) \subseteq NodesIn(c)
  BY <1>5, PruneBlockedOK
<1> QED BY <1>4, <1>5, <1>6 DEF Before
-----------------------------------------------------------------------------
(* The steps: epsilons. *)

(* Paths of fewer words. *)
LEMMA PathsGrow ==
  ASSUME NEW B, NEW C, B \subseteq C
  PROVE  Seq(PathOf(B)) \subseteq Seq(PathOf(C))
<1>1. AltsOf(B) \subseteq AltsOf(C)
  BY AltsGrow
<1>2. PathOf(B) \subseteq PathOf(C)
  BY <1>1 DEF PathOf
<1> QED BY <1>2, SeqMonotonic

(* The search as the state has it. *)
LEMMA PendingTypes ==
  /\ Pending.nodes = nodes /\ Pending.pq = pq /\ Pending.wtoken = wtoken /\ Pending.freelist = freelist
  /\ Pending.offers = offers /\ Pending.blocked = FALSE /\ Pending.made = None
BY DEF Pending

(* The search after a step. *)
LEMMA BecomesIs ==
  ASSUME NEW s \in Steps, Becomes(s)
  PROVE  /\ Pending' \in Steps
         /\ Pending'.nodes = s.nodes /\ Pending'.pq = s.pq /\ Pending'.wtoken = s.wtoken
         /\ Pending'.freelist = s.freelist /\ Pending'.offers = s.offers
<1>1. /\ Pending'.nodes = nodes' /\ Pending'.pq = pq' /\ Pending'.wtoken = wtoken'
      /\ Pending'.freelist = freelist' /\ Pending'.offers = offers'
  BY DEF Pending
<1>2. None \in Nil
  BY DEF Nil
<1>3. Pending' \in Steps
  BY <1>2, StepsTypes DEF Pending, Becomes, Steps
<1> QED BY <1>1, <1>3 DEF Becomes

(* What a turn of the loop over the nodes must leave for the search to go on. *)
LEMMA TurnOK ==
  ASSUME NEW R, SearchOK(R), phase \in {"begin", "epsilon"}, UNCHANGED <<phase, csf, active, lattice, sorted>>,
         Pending' \in Steps, NodesOK(Pending', csf), current' # None => current' \in NodesIn(Pending'),
         phase = "begin" => /\ UNCHANGED <<words, offers>>
                            /\ NodesIn(Pending') \subseteq R,
         phase = "epsilon" => /\ EndsOK(Pending') /\ \A t \in Range(pq') : wtoken'[t].end_node # EndNode
                              /\ \A t \in Live(Pending) : wtoken[t].end_time < csf => Same(Pending, Pending', t)
  PROVE  SearchOK(R)'
<1> DEFINE P == Pending
           Q == Pending'
<1>1. /\ Q.nodes = nodes' /\ Q.pq = pq' /\ Q.wtoken = wtoken' /\ Q.freelist = freelist' /\ Q.offers = offers'
      /\ P.nodes = nodes /\ P.pq = pq /\ P.wtoken = wtoken /\ P.freelist = freelist /\ P.offers = offers
  BY DEF Pending
<1> HIDE DEF P, Q
<1>2. Typed /\ Running /\ LatticeOK /\ P \in Steps /\ Q \in Steps
  BY DEF SearchOK, Typed, P, Q
<1>3. phase = "begin" => pq' = pq /\ wtoken' = wtoken /\ freelist' = freelist /\ offers' = offers
  BY DEF words
<1>4. phase = "begin" => Live(Q) = Live(P) /\ \A n : Until(Q, n) = Until(P, n)
  BY <1>1, <1>3 DEF Live, Until
<1>5. \A t \in Live(P) : wtoken[t].end_time < csf => Same(P, Q, t)
  BY <1>1, <1>3, <1>4 DEF P, Q, Same
<1>6. csf \in Nat /\ csf < MaxFrames
  BY <1>2, SearchAssumption DEF Typed
<1>7. /\ phase' = phase /\ csf' = csf /\ active' = active /\ lattice' = lattice
      /\ sorted' = sorted
  OBVIOUS
<1>8. Typed'
  <2>1. current' \in NodeIds \cup {None}
    <3>1. ASSUME current' # None PROVE current' \in NodeIds
      <4>1. PICK i \in DOMAIN Q.nodes : current' = Q.nodes[i].node
        BY <3>1 DEF NodesIn, Q
      <4>2. Q.nodes[i] \in TokenOf(Nil)
        BY <1>2, StepsTypes, SeqFun
      <4> QED BY <4>1, <4>2 DEF TokenOf
    <3> QED BY <3>1
  <2> QED BY <2>1, <1>2, <1>7 DEF Typed
<1>9. Idle'
  BY <1>7 DEF Idle
<1>10. InBegin(R)'
  <2>1. InBegin(R)
    BY DEF SearchOK
  <2>2. phase = "begin" => \A i \in DOMAIN nodes' : nodes'[i].node \in R
    BY <1>1 DEF NodesIn, Q
  <2> QED BY <2>1, <2>2, <1>7 DEF InBegin
<1>11. active \in Seq(PathOf(Until(Q, csf)))
  <2>1. Until(P, csf) \subseteq Until(Q, csf)
    BY <1>1, <1>5, UntilGrows
  <2>2. active \in Seq(PathOf(Until(P, csf)))
    BY <1>2 DEF Running, P
  <2> QED BY <2>1, <2>2, PathsGrow
<1>12. current' # None => \E i \in DOMAIN nodes' : nodes'[i].node = current'
  BY <1>1 DEF NodesIn, Q
<1>13. ASSUME phase = "begin" PROVE Running'
  <2>1. PoolOK(P, csf) /\ offers = {} /\ csf = 0 /\ \A t \in Range(pq) : wtoken[t].end_node = EndNode
    BY <1>2, <1>13 DEF SearchOK, Running, P, InBegin
  <2>2. PoolOK(Q, csf)
    BY <2>1, <1>1, <1>3, <1>4, <1>13 DEF PoolOK
  <2> QED BY <2>1, <2>2, <1>3, <1>7, <1>11, <1>12, <1>13 DEF Running, Q
<1>14. ASSUME phase = "epsilon" PROVE Running'
  <2>1. csf < MaxFrames - 1
    BY <1>2, <1>14 DEF Running
  <2>2. PoolOK(Q, csf + 1) /\ QueueOK(Q, csf) /\ Keeps(Q) /\ NodesOK(Q, csf)
    BY <1>14 DEF EndsOK, Q
  <2> QED BY <2>1, <2>2, <1>7, <1>11, <1>12, <1>14 DEF Running, Q
<1>15. Ended'
  BY <1>7 DEF Ended
<1>16. LatticeOK'
  <2> SUFFICES ASSUME NEW f \in DOMAIN lattice
               PROVE  /\ Listed(wtoken', sorted, f, lattice[f])
                      /\ \A t \in Range(lattice[f]) :
                           /\ t \in Live(Q) /\ wtoken'[t].end_time = f - 1
                           /\ phase = "epsilon" => wtoken'[t].end_time < csf
    BY <1>7 DEF LatticeOK, Listed, EndTime, Q
  <2>1. /\ Listed(wtoken, sorted, f, lattice[f])
        /\ \A t \in Range(lattice[f]) :
             /\ t \in Live(P) /\ wtoken[t].end_time = f - 1
             /\ phase = "epsilon" => wtoken[t].end_time < csf
    BY <1>2 DEF LatticeOK, EndTime, P
  <2>2. \A t \in Range(lattice[f]) : t \in Live(Q) /\ wtoken'[t] = wtoken[t]
    <3>1. \A t \in Range(lattice[f]) : phase = "begin" \/ Same(P, Q, t)
      BY <2>1, <1>5
    <3> QED BY <3>1, <2>1, <1>1, <1>3, <1>4 DEF Same
  <2>3. lattice[f] \in Seq(Wtokens)
    BY <1>2 DEF Typed
  <2>4. Listed(wtoken', sorted, f, lattice[f])
    BY <2>1, <2>2, <2>3, ListedAlike
  <2> QED BY <2>1, <2>2, <2>4
<1>17. Flags'
  BY <1>7 DEF SearchOK, Flags
<1> QED BY <1>8, <1>9, <1>10, <1>13, <1>14, <1>15, <1>16, <1>17 DEF SearchOK

Within(R) ==
  /\ Silent(R)
  /\ \A a \in DOMAIN Arcs : Arcs[a].ilabel = "boundary" => Arcs[a].from # EndNode

(* The node after a node. *)
LEMMA AfterIs ==
  ASSUME NEW list \in Seq(TokenOf(Nil)), Apart(list), NEW node, \E i \in DOMAIN list : list[i].node = node
  PROVE  \/ After(list, node) = None
         \/ \E k \in DOMAIN list : After(list, node) = list[k].node /\ list[k].node # node
<1> DEFINE i == IndexOf(list, node)
<1>1. i \in DOMAIN list /\ list[i].node = node
  BY IndexOfIs
<1>2. After(list, node) = IF i = Len(list) THEN None ELSE list[i + 1].node
  BY DEF After
<1>3. Len(list) \in Nat /\ DOMAIN list = 1 .. Len(list)
  BY SeqFun
<1> HIDE DEF i
<1>4. CASE i = Len(list)
  BY <1>2, <1>4
<1>5. CASE i # Len(list)
  <2>1. i + 1 \in DOMAIN list /\ i + 1 # i
    BY <1>1, <1>3, <1>5
  <2>2. list[i + 1].node # node
    BY <2>1, <1>1 DEF Apart
  <2> QED BY <2>1, <2>2, <1>2, <1>5
<1> QED BY <1>4, <1>5

(* A turn of do_epsilon_updates. *)
LEMMA EpsilonStepOK ==
  ASSUME NEW R, Within(R), SearchOK(R), EpsilonStep
  PROVE  SearchOK(R)'
<1>1. /\ phase \in {"begin", "epsilon"} /\ current # None /\ UNCHANGED <<phase, csf, active, lattice, sorted>>
      /\ \/ /\ nodes' = Only(nodes, {x \in Range(nodes) : x.node # current})
            /\ current' = After(nodes, current)
            /\ UNCHANGED <<words, offers>>
         \/ \E s \in {Processed(Pending, current)} : Becomes(s) /\ current' = After(s.nodes, current)
  BY DEF EpsilonStep
<1>2. Typed /\ Running /\ InBegin(R)
  BY DEF SearchOK
<1>3. Pending \in Steps /\ csf \in 0 .. MaxFrames - 1 /\ csf \in Nat
  BY <1>2, SearchAssumption DEF Typed
<1>4. NodesOK(Pending, csf) /\ current \in NodesIn(Pending)
  BY <1>1, <1>2, PendingTypes DEF Running, NodesIn
<1>5. nodes \in Seq(TokenOf(Nil)) /\ Apart(nodes) /\ \A x \in Range(nodes) : NodeOK(Pending, csf, x)
  BY <1>3, <1>4, PendingTypes, StepsTypes, NodesAre
<1>6. phase = "begin" => csf = 0 /\ NodesIn(Pending) \subseteq R
  BY <1>2, PendingTypes DEF InBegin, NodesIn
<1>7. phase = "epsilon" => EndsOK(Pending) /\ \A t \in Range(pq) : wtoken[t].end_node # EndNode
  BY <1>2 DEF Running, EndsOK
<1>8. CASE /\ nodes' = Only(nodes, {x \in Range(nodes) : x.node # current})
           /\ current' = After(nodes, current)
           /\ UNCHANGED <<words, offers>>
  <2> DEFINE list == Only(nodes, {x \in Range(nodes) : x.node # current})
             r == [Pending EXCEPT !.nodes = list]
  <2>1. list \in Seq(TokenOf(Nil)) /\ Range(list) = {x \in Range(nodes) : x.node # current} /\ Apart(list)
    BY <1>5, OnlyKeeps, OnlyApart
  <2>2. nodes' = list
    BY <1>8
  <2> HIDE DEF list
  <2>3. \A x \in Range(list) : NodeOK(Pending, csf, x)
    BY <2>1, <1>5
  <2>4. /\ r \in Steps /\ NodesOK(r, csf) /\ r.nodes = list /\ r.pq = pq /\ r.wtoken = wtoken
        /\ r.freelist = freelist /\ r.offers = offers
    BY <2>1, <2>3, <1>3, WithNodes, PendingTypes
  <2> HIDE DEF r
  <2>5. Becomes(r)
    BY <2>2, <2>4, <1>8 DEF Becomes, words
  <2>6. Pending' \in Steps /\ NodesOK(Pending', csf)
    <3> DEFINE q == Pending'
    <3>1. /\ q \in Steps /\ q.nodes = r.nodes /\ q.pq = r.pq /\ q.wtoken = r.wtoken
          /\ q.freelist = r.freelist /\ q.offers = r.offers
      BY <2>4, <2>5, BecomesIs
    <3> HIDE DEF q
    <3>2. NodesOK(q, csf)
      BY <3>1, <2>4, Alike
    <3> QED BY <3>1, <3>2 DEF q
  <2>7. NodesIn(Pending') = {x.node : x \in Range(list)} /\ NodesIn(Pending) = {x.node : x \in Range(nodes)}
    BY <2>2 DEF NodesIn, Pending, Range
  <2>8. current' # None => current' \in NodesIn(Pending')
    <3> SUFFICES ASSUME current' # None PROVE current' \in NodesIn(Pending')
      OBVIOUS
    <3>1. \E i \in DOMAIN nodes : nodes[i].node = current
      BY <1>4, PendingTypes DEF NodesIn
    <3>2. PICK k \in DOMAIN nodes : current' = nodes[k].node /\ nodes[k].node # current
      BY <3>1, <1>5, <1>8, AfterIs
    <3>3. nodes[k] \in Range(nodes)
      BY DEF Range
    <3> QED BY <3>2, <3>3, <2>1, <2>7
  <2>9. /\ Pending'.pq = pq /\ Pending'.wtoken = wtoken /\ Pending'.freelist = freelist /\ Pending'.offers = offers
        /\ pq' = pq /\ wtoken' = wtoken
    BY <1>8 DEF Pending, words
  <2>10. Live(Pending') = Live(Pending) /\ (EndsOK(Pending) => EndsOK(Pending'))
    BY <2>9, PendingTypes, AlikeWords
  <2>11. \A t \in Live(Pending) : Same(Pending, Pending', t)
    BY <2>9, <2>10, PendingTypes DEF Same
  <2> QED BY <2>1, <2>6, <2>7, <2>8, <2>9, <2>10, <2>11, <1>1, <1>6, <1>7, <1>8, TurnOK
<1>9. ASSUME NEW s, s = Processed(Pending, current), Becomes(s), current' = After(s.nodes, current),
             s \in Steps, NodesOK(s, csf), current \in NodesIn(s)
      PROVE  /\ Pending' \in Steps /\ NodesOK(Pending', csf)
             /\ current' # None => current' \in NodesIn(Pending')
             /\ NodesIn(Pending') = NodesIn(s)
             /\ Pending'.nodes = s.nodes /\ Pending'.pq = s.pq /\ Pending'.wtoken = s.wtoken
             /\ Pending'.freelist = s.freelist /\ Pending'.offers = s.offers
  <2>1. /\ Pending' \in Steps
        /\ Pending'.nodes = s.nodes /\ Pending'.pq = s.pq /\ Pending'.wtoken = s.wtoken
        /\ Pending'.freelist = s.freelist /\ Pending'.offers = s.offers
    BY <1>9, BecomesIs
  <2> DEFINE q == Pending'
  <2> HIDE DEF q
  <2>2. NodesOK(q, csf)
    BY <2>1, <1>9, Alike DEF q
  <2>3. NodesIn(q) = NodesIn(s)
    BY <2>1 DEF NodesIn, q
  <2>4. s.nodes \in Seq(TokenOf(Nil)) /\ Apart(s.nodes) /\ \E i \in DOMAIN s.nodes : s.nodes[i].node = current
    BY <1>9, StepsTypes, NodesAre DEF NodesIn
  <2>5. current' # None => current' \in NodesIn(s)
    BY <2>4, <1>9, AfterIs DEF NodesIn
  <2> QED BY <2>1, <2>2, <2>3, <2>5 DEF q
<1>10. CASE phase = "begin" /\ \E s \in {Processed(Pending, current)} : Becomes(s) /\ current' = After(s.nodes, current)
  <2>1. PICK s : s = Processed(Pending, current) /\ Becomes(s) /\ current' = After(s.nodes, current)
    BY <1>10
  <2>2. s \in Before(Pending, R, current)
    BY <2>1, <1>3, <1>4, <1>6, <1>10, ProcessedBefore DEF Within
  <2>3. /\ s \in Steps /\ NodesOK(s, csf) /\ current \in NodesIn(s) /\ NodesIn(s) \subseteq R
        /\ s.pq = pq /\ s.wtoken = wtoken /\ s.freelist = freelist /\ s.offers = offers
    BY <2>2, <1>6, <1>10, PendingTypes DEF Before
  <2>4. UNCHANGED <<words, offers>>
    BY <2>1, <2>3 DEF Becomes, words
  <2> QED BY <2>1, <2>3, <2>4, <1>1, <1>9, <1>10, TurnOK
<1>11. CASE phase = "epsilon" /\ \E s \in {Processed(Pending, current)} : Becomes(s) /\ current' = After(s.nodes, current)
  <2> DEFINE E == (NodeIds \cup {None}) \ {EndNode}
  <2>1. PICK s : s = Processed(Pending, current) /\ Becomes(s) /\ current' = After(s.nodes, current)
    BY <1>11
  <2>2. Range(pq) \subseteq Wtokens /\ \A t \in Wtokens : wtoken[t].end_node \in NodeIds \cup {None}
    BY <1>3, PendingTypes, StepsTypes, SeqFun, WordTypes
  <2>3. Ends(Pending, E)
    BY <2>2, <1>7, <1>11, PendingTypes DEF Ends
  <2>4. current \in NodeIds
    BY <1>1, <1>2 DEF Typed
  <2>5. \A a \in DOMAIN Arcs : Arcs[a].from = current /\ Arcs[a].ilabel = "boundary" => current \in E
    BY <2>4 DEF Within
  <2> HIDE DEF E
  <2>6. s \in Frame(Pending, E, current)
    BY <2>1, <2>3, <2>4, <2>5, <1>3, <1>4, <1>7, <1>11, ProcessedOK
  <2>7. /\ s \in Steps /\ NodesOK(s, csf) /\ current \in NodesIn(s) /\ EndsOK(s) /\ Ends(s, E)
        /\ \A x \in Live(Pending) : wtoken[x].end_time < csf => Same(Pending, s, x)
    BY <2>6, PendingTypes DEF Frame
  <2>8. /\ Pending' \in Steps /\ NodesOK(Pending', csf)
        /\ current' # None => current' \in NodesIn(Pending')
        /\ Pending'.nodes = s.nodes /\ Pending'.pq = s.pq /\ Pending'.wtoken = s.wtoken
        /\ Pending'.freelist = s.freelist /\ Pending'.offers = s.offers
    BY <2>1, <2>7, <1>9
  <2> DEFINE q == Pending'
  <2> HIDE DEF q
  <2>9. EndsOK(q) /\ Live(q) = Live(s)
    BY <2>7, <2>8, AlikeWords DEF q
  <2>10. \A x \in Live(Pending) : wtoken[x].end_time < csf => Same(Pending, q, x)
    BY <2>7, <2>8, <2>9 DEF Same, q
  <2>11. \A t \in Range(pq') : wtoken'[t].end_node # EndNode
    BY <2>1, <2>7 DEF Becomes, Ends, E
  <2> QED BY <2>8, <2>9, <2>10, <2>11, <1>1, <1>11, TurnOK DEF q
<1> QED BY <1>1, <1>8, <1>10, <1>11
-----------------------------------------------------------------------------
(* The steps: begin and the end of a frame. *)

(* An empty list is in order. *)
LEMMA NothingInOrder ==
  ASSUME NEW toks, NEW flags, NEW f
  PROVE  Listed(toks, flags, f, <<>>) /\ Range(<<>>) = {}
<1>1. MaxInQ >= 0
  BY SearchAssumption
<1>2. DOMAIN <<>> = {} /\ Len(<<>>) = 0
  OBVIOUS
<1> QED BY <1>1, <1>2 DEF Listed, Climbs, InOrder, IsInjective, Range

(* Before the first utterance. *)
LEMMA InitOK ==
  ASSUME NEW R, Init
  PROVE  SearchOK(R)
<1>1. /\ phase = "idle" /\ csf = 0 /\ active = <<>> /\ nodes = <<>> /\ current = None /\ pq = <<>>
      /\ freelist = <<>> /\ wtoken = [t \in Wtokens |-> Killed] /\ offers = {}
      /\ lattice = [f \in 0 .. MaxFrames - 1 |-> <<>>] /\ sorted = {}
  BY DEF Init
<1>2. 0 \in 0 .. MaxFrames - 1 /\ None \in Nil
  BY SearchAssumption DEF Nil
<1>3. Pending \in Steps
  <2>1. wtoken \in [Wtokens -> Word]
    BY <1>1, KilledType
  <2>2. nodes \in Seq(TokenOf(Nil)) /\ pq \in Seq(Wtokens) /\ freelist \in Seq(Wtokens)
    BY <1>1
  <2>3. offers \in SUBSET (Histories \X Nat)
    BY <1>1
  <2> QED BY <2>1, <2>2, <2>3, <1>2 DEF Pending, Steps
<1>4. Typed
  <2>1. active \in Seq(PathOf(Nil)) /\ DOMAIN active = {}
    BY <1>1
  <2>2. lattice \in [0 .. MaxFrames - 1 -> Seq(Wtokens)]
    BY <1>1
  <2> QED BY <2>1, <2>2, <1>1, <1>2, <1>3 DEF Typed
<1> QED BY <1>1, <1>4 DEF SearchOK, Flags, Idle, InBegin, Running, Ended

(* The pool at the start of an utterance. *)
LEMMA AllFree ==
  LET list == [i \in 1 .. NumWtokens |-> i - 1]
  IN  list \in Seq(Wtokens) /\ IsInjective(list) /\ Range(list) = Wtokens
<1> DEFINE list == [i \in 1 .. NumWtokens |-> i - 1]
<1>1. NumWtokens \in Nat
  BY SearchAssumption
<1>2. \A i \in 1 .. NumWtokens : list[i] = i - 1 /\ i - 1 \in Wtokens
  BY <1>1 DEF Wtokens
<1>3. DOMAIN list = 1 .. NumWtokens /\ list \in [1 .. NumWtokens -> Wtokens]
  BY <1>2
<1> HIDE DEF list
<1>4. list \in Seq(Wtokens)
  BY <1>1, <1>3, FunSeq
<1>5. IsInjective(list)
  BY <1>1, <1>2, <1>3 DEF IsInjective
<1>6. ASSUME NEW t \in Wtokens PROVE t \in Range(list)
  <2>1. t + 1 \in 1 .. NumWtokens /\ (t + 1) - 1 = t
    BY <1>1 DEF Wtokens
  <2> QED BY <2>1, <1>2, <1>3 DEF Range
<1>7. Range(list) \subseteq Wtokens
  BY <1>2, <1>3 DEF Range
<1> QED BY <1>4, <1>5, <1>6, <1>7 DEF list

(* srec_begin. *)
LEMMA BeginOK ==
  ASSUME NEW R, Within(R), SearchOK(R), Begin
  PROVE  SearchOK(R)'
<1> DEFINE tok == [node |-> StartNode, cost |-> 0, word |-> None, bt |-> None, alts |-> <<>>]
           Q == Pending'
<1>1. /\ phase \in {"idle", "ended"} /\ phase' = "begin" /\ csf' = 0 /\ active' = <<>>
      /\ nodes' = <<tok>> /\ current' = StartNode
      /\ freelist' = [i \in 1 .. NumWtokens |-> i - 1]
      /\ lattice' = [f \in DOMAIN lattice |-> <<>>] /\ offers' = {}
      /\ wtoken' = [t \in Wtokens |-> IF t \in Range(pq) THEN wtoken[t] ELSE Killed]
      /\ pq' = pq /\ sorted' = {}
  BY DEF Begin, Unflagged
<1>2. Typed /\ Idle /\ Ended
  BY DEF SearchOK
<1>3. /\ Pending \in Steps /\ pq \in Seq(Wtokens) /\ wtoken \in [Wtokens -> Word]
      /\ lattice \in [0 .. MaxFrames - 1 -> Seq(Wtokens)] /\ Range(pq) \subseteq Wtokens
  BY <1>2, PendingTypes, StepsTypes, SeqFun DEF Typed
<1>4. 0 \in 0 .. MaxFrames - 1 /\ None \in Nil /\ None \in Labels /\ StartNode \in NodeIds
  BY SearchAssumption, GrammarAssumption DEF Nil, Labels
<1>5. tok \in TokenOf(Nil) /\ tok.node = StartNode /\ tok.bt = None /\ tok.alts = <<>>
  <2>1. <<>> \in AltsOf(Nil)
    BY DEF AltsOf
  <2> QED BY <2>1, <1>4 DEF TokenOf
<1> HIDE DEF tok
<1>6. /\ nodes' \in Seq(TokenOf(Nil)) /\ DOMAIN nodes' = {1} /\ nodes'[1] = tok
  BY <1>1, <1>5
<1>7. freelist' \in Seq(Wtokens) /\ IsInjective(freelist') /\ Range(freelist') = Wtokens
  BY <1>1, AllFree
<1>8. wtoken' \in [Wtokens -> Word] /\ \A t \in Range(pq) : wtoken'[t] = wtoken[t]
  BY <1>1, <1>3, KilledType
<1>9. Pending' \in Steps
  BY <1>1, <1>3, <1>4, <1>6, <1>7, <1>8 DEF Pending, Steps
<1>10. /\ Q.nodes = nodes' /\ Q.pq = pq' /\ Q.wtoken = wtoken' /\ Q.freelist = freelist' /\ Q.offers = offers'
  BY DEF Pending
<1> HIDE DEF Q
<1>11. Live(Q) = {}
  BY <1>7, <1>10 DEF Live
<1>12. PoolOK(Q, 0)
  BY <1>7, <1>10, <1>11 DEF PoolOK
<1>13. NodesOK(Q, 0)
  <2>1. <<>> \in AltsOf(Until(Q, 0))
    BY DEF AltsOf
  <2> QED BY <2>1, <1>5, <1>6, <1>10 DEF NodesOK, Sound
<1>14. \A t \in Range(pq') : wtoken'[t].end_node = EndNode
  <2>1. CASE phase = "idle"
    <3>1. pq' = <<>>
      BY <2>1, <1>1, <1>2 DEF Idle
    <3> QED BY <3>1, NothingInOrder
  <2>2. CASE phase = "ended"
    BY <2>2, <1>1, <1>2, <1>8 DEF Ended
  <2> QED BY <2>1, <2>2, <1>1
<1>15. Typed'
  <2>1. active' \in Seq(PathOf(Nil)) /\ DOMAIN active' = {}
    BY <1>1
  <2>2. lattice' \in [0 .. MaxFrames - 1 -> Seq(Wtokens)]
    BY <1>1, <1>3
  <2> QED BY <2>1, <2>2, <1>1, <1>4, <1>9 DEF Typed
<1>16. Running'
  <2>1. active' \in Seq(PathOf(Until(Q, 0)))
    BY <1>1
  <2>2. \E i \in DOMAIN nodes' : nodes'[i].node = current'
    BY <1>1, <1>5, <1>6
  <2> QED BY <2>1, <2>2, <1>1, <1>12, <1>13, <1>14 DEF Running, Q
<1>17. InBegin(R)'
  BY <1>1, <1>5, <1>6 DEF InBegin, Within, Silent
<1>18. LatticeOK'
  <2>1. \A f \in DOMAIN lattice' : lattice'[f] = <<>>
    BY <1>1
  <2>2. /\ \A f : Listed(wtoken', sorted', f, <<>>)
        /\ Range(<<>>) = {}
    BY NothingInOrder
  <2> QED BY <2>1, <2>2 DEF LatticeOK
<1>19. Idle' /\ Ended' /\ Flags'
  BY <1>1 DEF Idle, Ended, Flags
<1> QED BY <1>15, <1>16, <1>17, <1>18, <1>19 DEF SearchOK

(* The end of a frame. *)
LEMMA EndFrameOK ==
  ASSUME NEW R, SearchOK(R), EndFrame
  PROVE  SearchOK(R)'
<1> DEFINE P == Pending
           Q == Pending'
<1>1. /\ phase \in {"begin", "epsilon"} /\ current = None /\ phase' = "ready" /\ offers' = {}
      /\ \/ phase = "begin" /\ csf' = csf /\ lattice' = lattice
         \/ phase = "epsilon" /\ csf' = csf + 1 /\ lattice' = [lattice EXCEPT ![csf + 1] = pq]
      /\ active' = active /\ nodes' = nodes /\ current' = current
      /\ pq' = pq /\ wtoken' = wtoken /\ freelist' = freelist /\ sorted' = sorted
  BY DEF EndFrame, words
<1>2. Typed /\ Running /\ LatticeOK /\ InBegin(R) /\ Flags
  BY <1>1 DEF SearchOK
<1>3. P \in Steps /\ csf \in 0 .. MaxFrames - 1 /\ csf \in Nat /\ MaxFrames \in Nat
  BY <1>2, SearchAssumption DEF Typed
<1>4. Q \in Steps
  <2>1. {} \in SUBSET (Histories \X Nat) /\ None \in Nil
    BY DEF Nil
  <2> QED BY <2>1, <1>1, <1>3, StepsTypes, PendingTypes DEF Pending, Steps
<1>5. /\ Q.nodes = nodes /\ Q.pq = pq /\ Q.wtoken = wtoken /\ Q.freelist = freelist /\ Q.offers = {}
      /\ P.nodes = nodes /\ P.pq = pq /\ P.wtoken = wtoken /\ P.freelist = freelist
  BY <1>1 DEF Pending
<1> HIDE DEF P, Q
<1>6. Live(Q) = Live(P) /\ \A n : Until(Q, n) = Until(P, n)
  BY <1>5 DEF Live, Until
<1>7. /\ \A n : PoolOK(P, n) => PoolOK(Q, n)
      /\ \A n : QueueOK(P, n) => QueueOK(Q, n)
      /\ \A n : NodesOK(P, n) => NodesOK(Q, n)
  BY <1>5, <1>6 DEF PoolOK, QueueOK, NodesOK, Ordered, Sound
<1>8. CASE phase = "begin"
  <2>1. csf = 0 /\ csf' = csf /\ lattice' = lattice
    BY <1>1, <1>2, <1>8 DEF InBegin
  <2>2. Typed'
    BY <2>1, <1>1, <1>2, <1>4 DEF Typed, Q
  <2>3. Running'
    <3>1. PoolOK(Q, csf) /\ NodesOK(Q, csf) /\ active \in Seq(PathOf(Until(Q, csf)))
      BY <1>2, <1>6, <1>7, <1>8 DEF Running, P
    <3>2. \A t \in Range(pq) : wtoken[t].end_node = EndNode
      BY <2>1, <1>2, <1>8 DEF Running
    <3> QED BY <3>1, <3>2, <2>1, <1>1 DEF Running, Q
  <2>4. InBegin(R)'
    BY <2>1, <1>1, <1>2, <1>8 DEF InBegin
  <2>5. LatticeOK'
    <3>1. \A f \in DOMAIN lattice :
            /\ Listed(wtoken, sorted, f, lattice[f])
            /\ \A t \in Range(lattice[f]) : t \in Live(Q) /\ wtoken[t].end_time = f - 1
      BY <1>2, <1>6, <1>8 DEF LatticeOK, EndTime, P
    <3> QED BY <3>1, <2>1, <1>1 DEF LatticeOK, Listed, EndTime, Q
  <2>6. Idle' /\ Ended' /\ Flags'
    BY <2>1, <1>1, <1>2, <1>8 DEF Idle, Ended, Flags
  <2> QED BY <2>2, <2>3, <2>4, <2>5, <2>6 DEF SearchOK
<1>9. CASE phase = "epsilon"
  <2>1. csf' = csf + 1 /\ lattice' = [lattice EXCEPT ![csf + 1] = pq] /\ csf < MaxFrames - 1
    BY <1>1, <1>2, <1>9 DEF Running
  <2>2. csf + 1 \in 0 .. MaxFrames - 1 /\ csf + 1 > 0 /\ (csf + 1) - 1 = csf
    BY <2>1, <1>3
  <2>3. lattice \in [0 .. MaxFrames - 1 -> Seq(Wtokens)] /\ pq \in Seq(Wtokens)
    BY <1>2, <1>3, <1>5, StepsTypes DEF Typed
  <2>4. /\ lattice' \in [0 .. MaxFrames - 1 -> Seq(Wtokens)] /\ DOMAIN lattice' = DOMAIN lattice
        /\ lattice'[csf + 1] = pq /\ \A f \in DOMAIN lattice : f # csf + 1 => lattice'[f] = lattice[f]
    BY <2>1, <2>2, <2>3
  <2>5. Typed'
    BY <2>1, <2>2, <2>4, <1>1, <1>2, <1>4 DEF Typed, Q
  <2>6. Until(Q, csf) \subseteq Until(Q, csf + 1)
    <3>1. \A t \in Live(Q) : wtoken[t].end_time \in Nat
      BY <1>3, <1>4, <1>5, StepsTypes, WordTypes DEF Live
    <3> QED BY <3>1, <1>3, <1>5 DEF Until
  <2>7. PoolOK(Q, csf + 1) /\ QueueOK(Q, csf)
    BY <1>2, <1>7, <1>9 DEF Running, P
  <2>8. NodesOK(Q, csf + 1)
    <3>1. NodesOK(Q, csf)
      BY <1>2, <1>7, <1>9 DEF Running, P
    <3>2. AltsOf(Until(Q, csf)) \subseteq AltsOf(Until(Q, csf + 1))
      BY <2>6, AltsGrow
    <3> QED BY <3>1, <3>2 DEF NodesOK
  <2>9. active \in Seq(PathOf(Until(Q, csf + 1)))
    <3>1. active \in Seq(PathOf(Until(P, csf)))
      BY <1>2, <1>9 DEF Running, P
    <3> QED BY <3>1, <2>6, <1>6, PathsGrow
  <2>10. Running'
    <3>1. \A t \in Range(pq) : wtoken[t].end_node # EndNode
      BY <1>2, <1>9 DEF Running
    <3>2. csf' # 0 /\ csf' - 1 = csf
      BY <2>1, <2>2, <1>3
    <3> QED BY <3>1, <3>2, <2>1, <2>2, <2>7, <2>8, <2>9, <1>1 DEF Running, Q
  <2>11. InBegin(R)'
    BY <2>1, <2>2, <1>1 DEF InBegin
  <2>12. LatticeOK'
    <3> SUFFICES ASSUME NEW f \in DOMAIN lattice
                 PROVE  /\ Listed(wtoken, sorted, f, lattice'[f])
                        /\ \A t \in Range(lattice'[f]) : t \in Live(Q) /\ wtoken[t].end_time = f - 1
      BY <2>4, <1>1 DEF LatticeOK, Listed, EndTime, Q
    <3>1. CASE f = csf + 1
      <4>1. f \notin sorted
        BY <3>1, <1>2, <1>3, <1>9, <2>2 DEF Flags
      <4>2. Ordered(Q, pq) /\ \A t \in Range(pq) : t \in Live(Q) /\ wtoken[t].end_time = csf
        BY <2>7, <1>5 DEF QueueOK
      <4>3. Listed(wtoken, sorted, f, pq)
        BY <4>1, <4>2, <1>5 DEF Ordered, Listed
      <4> QED BY <4>2, <4>3, <3>1, <2>2, <2>4
    <3>2. CASE f # csf + 1
      <4>1. /\ Listed(wtoken, sorted, f, lattice[f])
            /\ \A t \in Range(lattice[f]) : t \in Live(Q) /\ wtoken[t].end_time = f - 1
        BY <1>2, <1>6, <1>9 DEF LatticeOK, EndTime, P
      <4> QED BY <4>1, <3>2, <2>4
    <3> QED BY <3>1, <3>2
  <2>13. Idle' /\ Ended' /\ Flags'
    <3>1. \A f \in sorted : f < csf + 1
      <4>1. \A f \in sorted : f < csf /\ f \in Int
        BY <1>2, <1>9 DEF Flags, Typed
      <4> QED BY <4>1, <1>3
    <3> QED BY <3>1, <2>1, <1>1 DEF Idle, Ended, Flags
  <2> QED BY <2>5, <2>10, <2>11, <2>12, <2>13 DEF SearchOK
<1> QED BY <1>1, <1>8, <1>9
-----------------------------------------------------------------------------
(* The steps: a frame. *)

(* Within what is closed, a trace stays. *)
LEMMA TraceIs ==
  ASSUME NEW toks, NEW D \in SUBSET Wtokens, Closed(toks, D), NEW S \in SUBSET D
  PROVE  /\ S \subseteq Trace(toks, S) /\ Trace(toks, S) \subseteq D
         /\ Closed(toks, Trace(toks, S))
<1>1. S \subseteq Trace(toks, S)
  BY DEF Trace
<1>2. Trace(toks, S) \subseteq D
  BY DEF Trace
<1>3. ASSUME NEW t \in Trace(toks, S), toks[t].backtrace # None PROVE toks[t].backtrace \in Trace(toks, S)
  <2>1. toks[t].backtrace \in Wtokens
    BY <1>2, <1>3 DEF Closed
  <2>2. ASSUME NEW C \in SUBSET Wtokens, S \subseteq C, Closed(toks, C) PROVE toks[t].backtrace \in C
    <3>1. t \in C
      BY <2>2 DEF Trace
    <3> QED BY <3>1, <2>2, <1>3 DEF Closed
  <2> QED BY <2>1, <2>2 DEF Trace
<1> QED BY <1>1, <1>2, <1>3 DEF Closed

(* What lives traces back to what lives. *)
LEMMA LiveClosed ==
  ASSUME NEW s \in Steps, NEW n, PoolOK(s, n)
  PROVE  Live(s) \in SUBSET Wtokens /\ Closed(s.wtoken, Live(s))
BY PoolIs DEF Closed, Live

(* A list the other way round has the same elements. *)
LEMMA ReverseIs ==
  ASSUME NEW list \in Seq(Wtokens), IsInjective(list)
  PROVE  Reverse(list) \in Seq(Wtokens) /\ IsInjective(Reverse(list)) /\ Range(Reverse(list)) = Range(list)
<1> DEFINE n == Len(list)
           r == Reverse(list)
<1>1. n \in Nat /\ DOMAIN list = 1 .. n /\ \A i \in 1 .. n : list[i] \in Wtokens
  BY SeqFun
<1>2. r = [i \in 1 .. n |-> list[(n - i) + 1]]
  BY DEF Reverse
<1> HIDE DEF n, r
<1>3. \A i \in 1 .. n : (n - i) + 1 \in 1 .. n /\ (n - ((n - i) + 1)) + 1 = i
  BY <1>1
<1>4. r \in Seq(Wtokens) /\ DOMAIN r = 1 .. n
  <2>1. r \in [1 .. n -> Wtokens]
    BY <1>1, <1>2, <1>3
  <2> QED BY <2>1, <1>1, FunSeq
<1>5. ASSUME NEW i \in 1 .. n, NEW j \in 1 .. n, r[i] = r[j] PROVE i = j
  <2>1. list[(n - i) + 1] = list[(n - j) + 1]
    BY <1>2, <1>5
  <2>2. (n - i) + 1 = (n - j) + 1
    BY <2>1, <1>1, <1>3 DEF IsInjective
  <2> QED BY <2>2, <1>1
<1>6. \A i \in 1 .. n : r[(n - i) + 1] = list[i] /\ r[i] = list[(n - i) + 1]
  BY <1>2, <1>3
<1>7. Range(r) = Range(list)
  BY <1>1, <1>3, <1>4, <1>6 DEF Range
<1> QED BY <1>4, <1>5, <1>7 DEF IsInjective, r

(* Two lists that share nothing, one after the other. *)
LEMMA JoinedApart ==
  ASSUME NEW a \in Seq(Wtokens), NEW b \in Seq(Wtokens), IsInjective(a), IsInjective(b),
         Range(a) \cap Range(b) = {}
  PROVE  a \o b \in Seq(Wtokens) /\ IsInjective(a \o b) /\ Range(a \o b) = Range(a) \cup Range(b)
<1> DEFINE m == Len(a)
           n == Len(b)
           r == a \o b
<1>1. m \in Nat /\ n \in Nat /\ DOMAIN a = 1 .. m /\ DOMAIN b = 1 .. n
  OBVIOUS
<1>2. /\ r \in Seq(Wtokens) /\ DOMAIN r = 1 .. m + n
      /\ \A i \in 1 .. m : r[i] = a[i]
      /\ \A i \in 1 .. n : r[m + i] = b[i]
  OBVIOUS
<1> HIDE DEF m, n, r
<1>3. \A i \in 1 .. m + n : i \in 1 .. m \/ (i - m \in 1 .. n /\ m + (i - m) = i)
  BY <1>1
<1>4. \A i \in 1 .. m : i \in 1 .. m + n /\ a[i] \in Range(a)
  BY <1>1 DEF Range
<1>5. \A i \in 1 .. n : m + i \in 1 .. m + n /\ b[i] \in Range(b)
  BY <1>1 DEF Range
<1>6. ASSUME NEW i \in 1 .. m + n, NEW j \in 1 .. m + n, r[i] = r[j] PROVE i = j
  <2>1. CASE i \in 1 .. m /\ j \in 1 .. m
    BY <2>1, <1>1, <1>2, <1>6 DEF IsInjective
  <2>2. CASE i \in 1 .. m /\ j \notin 1 .. m
    BY <2>2, <1>2, <1>3, <1>4, <1>5, <1>6
  <2>3. CASE i \notin 1 .. m /\ j \in 1 .. m
    BY <2>3, <1>2, <1>3, <1>4, <1>5, <1>6
  <2>4. CASE i \notin 1 .. m /\ j \notin 1 .. m
    <3>1. b[i - m] = b[j - m] /\ i - m \in 1 .. n /\ j - m \in 1 .. n
      BY <2>4, <1>2, <1>3, <1>6
    <3>2. i - m = j - m
      BY <3>1, <1>1 DEF IsInjective
    <3> QED BY <3>2, <1>1
  <2> QED BY <2>1, <2>2, <2>3, <2>4
<1>7. Range(r) \subseteq Range(a) \cup Range(b)
  <2>1. \A i \in 1 .. m + n : r[i] \in Range(a) \/ r[i] \in Range(b)
    BY <1>2, <1>3, <1>4, <1>5
  <2> QED BY <2>1, <1>2 DEF Range
<1>8. Range(a) \subseteq Range(r)
  <2>1. \A i \in 1 .. m : a[i] \in Range(r)
    BY <1>2, <1>4 DEF Range
  <2> QED BY <2>1, <1>1 DEF Range
<1>9. Range(b) \subseteq Range(r)
  <2>1. \A i \in 1 .. n : b[i] \in Range(r)
    BY <1>2, <1>5 DEF Range
  <2> QED BY <2>1, <1>1 DEF Range
<1>10. IsInjective(r)
  BY <1>2, <1>6 DEF IsInjective
<1> QED BY <1>2, <1>7, <1>8, <1>9, <1>10 DEF r

(* The pool when all but the tokens kept have gone back to it. *)
LEMMA UnusedIs ==
  ASSUME freelist \in Seq(Wtokens), IsInjective(freelist), NEW kept \in SUBSET (Wtokens \ Range(freelist))
  PROVE  LET free == Reverse(Unused(kept)) \o freelist
         IN  /\ free \in Seq(Wtokens) /\ IsInjective(free) /\ Wtokens \ Range(free) = kept
             /\ Range(Unused(kept)) = Wtokens \ (kept \cup Range(freelist))
<1> DEFINE all == [i \in 1 .. NumWtokens |-> i - 1]
           S == Wtokens \ (kept \cup Range(freelist))
           u == Unused(kept)
           zero == [t \in Wtokens |-> [cost |-> 0]]
<1>1. all \in Seq(Wtokens) /\ IsInjective(all) /\ Range(all) = Wtokens
  BY AllFree
<1>2. u = Only(all, S)
  BY DEF Unused
<1> HIDE DEF all, S
<1>3. u \in Seq(Wtokens) /\ Range(u) = Wtokens \cap S
  BY <1>1, <1>2, OnlyKeeps
<1>4. IsInjective(u)
  <2>1. InOrder(zero, all)
    <3>1. \A t \in Wtokens : zero[t].cost >= zero[t].cost /\ zero[t].cost = 0
      OBVIOUS
    <3>2. \A i \in DOMAIN all : all[i] \in Wtokens
      BY <1>1, SeqFun
    <3> HIDE DEF zero
    <3> QED BY <1>1, <3>1, <3>2 DEF InOrder
  <2> HIDE DEF zero
  <2>2. InOrder(zero, u)
    BY <2>1, <1>1, <1>2, OnlyInOrder
  <2> QED BY <2>2 DEF InOrder
<1> HIDE DEF u
<1>5. Reverse(u) \in Seq(Wtokens) /\ IsInjective(Reverse(u)) /\ Range(Reverse(u)) = Range(u)
  BY <1>3, <1>4, ReverseIs
<1> DEFINE back == Reverse(u)
<1> HIDE DEF back
<1>6. Range(back) \cap Range(freelist) = {}
  BY <1>3, <1>5 DEF back, S
<1>7. /\ back \o freelist \in Seq(Wtokens) /\ IsInjective(back \o freelist)
      /\ Range(back \o freelist) = Range(back) \cup Range(freelist)
  BY <1>5, <1>6, JoinedApart DEF back
<1>8. Range(freelist) \subseteq Wtokens
  BY SeqFun
<1>9. Wtokens \ Range(back \o freelist) = kept
  BY <1>3, <1>5, <1>7, <1>8 DEF back, S
<1> QED BY <1>3, <1>7, <1>9 DEF back, u, S

(* What alternatives trace back to. *)
LEMMA AltsTrace ==
  ASSUME NEW B, NEW C, NEW alts \in AltsOf(B)
  PROVE  /\ \A k \in DOMAIN alts : alts[k].bt \in B
         /\ (\A k \in DOMAIN alts : alts[k].bt \in C) => alts \in AltsOf(C)
<1>1. Len(alts) \in Nat /\ DOMAIN alts = 1 .. Len(alts) /\ \A k \in DOMAIN alts : alts[k] \in AltOf(B)
  BY SeqFun DEF AltsOf
<1>2. \A k \in DOMAIN alts : alts[k].bt \in B /\ (alts[k].bt \in C => alts[k] \in AltOf(C))
  BY <1>1 DEF AltOf
<1>3. ASSUME \A k \in DOMAIN alts : alts[k].bt \in C PROVE alts \in AltsOf(C)
  <2>1. \A k \in 1 .. Len(alts) : alts[k] \in AltOf(C)
    BY <1>1, <1>2, <1>3
  <2>2. alts \in [1 .. Len(alts) -> AltOf(C)]
    <3>1. alts \in [DOMAIN alts -> AltOf(B)]
      BY SeqFun DEF AltsOf
    <3> QED BY <3>1, <2>1, <1>1
  <2> QED BY <2>2, <1>1, FunSeq DEF AltsOf
<1> QED BY <1>2, <1>3

(* What paths trace back to is all that their types need. *)
LEMMA TracedPaths ==
  ASSUME NEW B, NEW paths \in Seq(PathOf(B))
  PROVE  /\ TracedBy(paths) \subseteq B
         /\ \A C : TracedBy(paths) \subseteq C => paths \in Seq(PathOf(C))
<1>1. Len(paths) \in Nat /\ DOMAIN paths = 1 .. Len(paths) /\ \A i \in DOMAIN paths : paths[i] \in PathOf(B)
  BY SeqFun
<1>2. \A i \in DOMAIN paths : paths[i].bt \in B /\ paths[i].alts \in AltsOf(B)
  BY <1>1 DEF PathOf
<1>3. TracedBy(paths) \subseteq B
  <2>1. \A i \in DOMAIN paths : \A k \in DOMAIN paths[i].alts : paths[i].alts[k].bt \in B
    BY <1>2, AltsTrace
  <2> QED BY <2>1, <1>2 DEF TracedBy
<1>4. ASSUME NEW C, TracedBy(paths) \subseteq C PROVE paths \in Seq(PathOf(C))
  <2>1. ASSUME NEW i \in DOMAIN paths PROVE paths[i] \in PathOf(C)
    <3>1. paths[i].bt \in C /\ \A k \in DOMAIN paths[i].alts : paths[i].alts[k].bt \in C
      BY <1>4 DEF TracedBy
    <3>2. paths[i].alts \in AltsOf(C)
      BY <3>1, <1>2, AltsTrace
    <3>3. paths[i] \in PathOf(B)
      BY <1>1
    <3> QED BY <3>1, <3>2, <3>3 DEF PathOf
  <2>2. paths \in [1 .. Len(paths) -> PathOf(C)]
    <3>1. paths \in [DOMAIN paths -> PathOf(B)]
      BY SeqFun
    <3> QED BY <3>1, <2>1, <1>1
  <2> QED BY <2>2, <1>1, FunSeq
<1> QED BY <1>3, <1>4

(* What a frame keeps: all that its paths trace back to, and nothing free. *)
LEMMA KeptIs ==
  ASSUME Pending \in Steps, NEW n, PoolOK(Pending, n), NEW paths, TracedBy(paths) \subseteq Live(Pending) \cup {None},
         NEW chosen \in SUBSET Live(Pending)
  PROVE  /\ Kept(paths, chosen) \in SUBSET Live(Pending) /\ TracedBy(paths) \subseteq Kept(paths, chosen) \cup {None}
         /\ Closed(wtoken, Kept(paths, chosen))
<1> DEFINE S == (TracedBy(paths) \ {None}) \cup chosen
           D == Live(Pending)
<1>1. D \in SUBSET Wtokens /\ Closed(wtoken, D)
  BY LiveClosed, PendingTypes
<1>2. S \in SUBSET D
  OBVIOUS
<1>3. D = Wtokens \ Range(freelist)
  BY PendingTypes DEF Live
<1>4. TracedBy(paths) \subseteq S \cup {None} /\ TracedBy(paths) \subseteq D \cup {None}
  OBVIOUS
<1>5. CASE Len(freelist) < 2 * MaxInQ
  <2>1. Kept(paths, chosen) = Trace(wtoken, S)
    BY <1>5 DEF Kept
  <2> HIDE DEF S, D
  <2>2. S \subseteq Trace(wtoken, S) /\ Trace(wtoken, S) \subseteq D /\ Closed(wtoken, Trace(wtoken, S))
    BY <1>1, <1>2, TraceIs
  <2> QED BY <2>1, <2>2, <1>4 DEF D
<1>6. CASE ~(Len(freelist) < 2 * MaxInQ)
  <2>1. Kept(paths, chosen) = D
    BY <1>3, <1>6 DEF Kept
  <2> QED BY <2>1, <1>1, <1>4
<1> QED BY <1>5, <1>6

(* A frame of the Viterbi search, with the pool cleared when it runs low. *)
LEMMA ObserveOK ==
  ASSUME NEW R, SearchOK(R), NEW score \in Scores, NEW frames \in SUBSET DOMAIN lattice,
         NEW chosen \in SUBSET WordsAt(frames), Observe(score, frames, chosen)
  PROVE  SearchOK(R)'
<1> DEFINE P == Pending
           Q == Pending'
           B == Until(P, csf)
           paths == Pruned(FromNodesToHmms(score))
           kept == Kept(paths, chosen)
<1>1. /\ phase = "ready" /\ phase' = "epsilon" /\ csf < MaxFrames - 1
      /\ active' = paths /\ nodes' = FromHmmsToNodes(paths)
      /\ wtoken' = [t \in Wtokens |-> IF t \in Range(Unused(kept)) THEN Killed ELSE wtoken[t]]
      /\ freelist' = Reverse(Unused(kept)) \o freelist
      /\ lattice' = Map(LAMBDA list : Only(list, kept), SortedAt(frames))
      /\ sorted' = sorted \cup frames
      /\ pq' = <<>> /\ offers' = {} /\ csf' = csf
      /\ current' = IF nodes' = <<>> THEN None ELSE nodes'[1].node
      /\ Searched(paths, frames) \/ frames = {}
  BY DEF Observe
<1>2. Typed /\ Running /\ LatticeOK /\ Flags
  BY <1>1 DEF SearchOK
<1>3. /\ P \in Steps /\ csf \in 0 .. MaxFrames - 1 /\ csf \in Nat /\ MaxFrames \in Nat
      /\ lattice \in [0 .. MaxFrames - 1 -> Seq(Wtokens)]
  BY <1>2, SearchAssumption DEF Typed
<1>4. /\ P.nodes = nodes /\ P.pq = pq /\ P.wtoken = wtoken /\ P.freelist = freelist
      /\ Q.nodes = nodes' /\ Q.pq = pq' /\ Q.wtoken = wtoken' /\ Q.freelist = freelist' /\ Q.offers = offers'
  BY DEF Pending
<1>5. PoolOK(P, csf) /\ NodesOK(P, csf) /\ active \in Seq(PathOf(B))
  BY <1>1, <1>2 DEF Running
<1>6. /\ nodes \in Seq(TokenOf(Nil)) /\ wtoken \in [Wtokens -> Word]
      /\ freelist \in Seq(Wtokens) /\ IsInjective(freelist)
  BY <1>3, <1>4, <1>5, StepsTypes DEF PoolOK
<1>7. Live(P) \subseteq Wtokens /\ \A t \in Live(P) : wtoken[t].end_time < csf
  BY <1>4, <1>5 DEF PoolOK, Live
<1> HIDE DEF P, Q
<1>8. B = Live(P) \cup {None}
  BY <1>4, <1>7 DEF Until
<1> HIDE DEF B
<1>9. \A i \in DOMAIN nodes : nodes[i].cost < MAXcostdata => nodes[i] \in TokenOf(B)
  <2> SUFFICES ASSUME NEW i \in DOMAIN nodes, nodes[i].cost < MAXcostdata PROVE nodes[i] \in TokenOf(B)
    OBVIOUS
  <2>1. nodes[i] \in TokenOf(Nil)
    BY <1>6, SeqFun
  <2>2. nodes[i].bt \in B /\ nodes[i].alts \in AltsOf(B)
    BY <1>4, <1>5, <1>8 DEF NodesOK, B
  <2> QED BY <2>1, <2>2 DEF TokenOf
<1>10. FromNodesToHmms(score) \in Seq(PathOf(B))
  BY <1>5, <1>6, <1>9, FromNodesToHmmsType
<1>11. paths \in Seq(PathOf(B)) /\ \A i \in DOMAIN paths : paths[i].cost < PruneDelta
  BY <1>10, PrunedType
<1> HIDE DEF paths
<1>12. TracedBy(paths) \subseteq Live(P) \cup {None}
  BY <1>8, <1>11, TracedPaths
<1>13. InLattice \subseteq Live(P)
  <2>1. \A f \in DOMAIN lattice : Range(lattice[f]) \subseteq Live(P)
    BY <1>2 DEF LatticeOK, P
  <2> QED BY <2>1 DEF InLattice, WordsAt
<1>a. WordsAt(frames) \subseteq InLattice
  BY DEF WordsAt, InLattice
<1>b. \A f \in frames : f < csf
  <2> SUFFICES ASSUME NEW f \in frames PROVE f < csf
    OBVIOUS
  <2>1. /\ paths \in Seq(PathOf(B))
        /\ \A b \in B : b = None \/ b \in Live(P)
    BY <1>8, <1>11
  <2>2. \A i \in DOMAIN paths : paths[i].bt \in B
    <3>1. \A i \in DOMAIN paths : paths[i] \in PathOf(B)
      BY <2>1, SeqFun
    <3> QED BY <3>1 DEF PathOf
  <2>3. PICK t \in Live(P) : t # None /\ wtoken[t].backtrace # None /\ f = Begun(t)
    <3>1. \E t \in Backed({paths[i].bt : i \in DOMAIN paths}) \cup Backed(WordsAt(frames)) : f = Begun(t)
      BY <1>1 DEF Searched
    <3> QED BY <3>1, <2>1, <2>2, <1>13, <1>a DEF Backed
  <2>4. wtoken[t].end_time < csf /\ wtoken[t].backtrace \in Live(P)
        /\ wtoken[wtoken[t].backtrace].end_time < wtoken[t].end_time
    BY <2>3, <1>3, <1>4, <1>5, PoolIs
  <2>5. wtoken[t].end_time \in Nat /\ wtoken[wtoken[t].backtrace].end_time \in Nat
    <3>1. \A u \in Wtokens : wtoken[u].end_time \in 0 .. MaxFrames
      BY <1>6, WordTypes
    <3>2. \A u \in Live(P) : wtoken[u].end_time \in Nat
      BY <3>1, <1>3, <1>7
    <3> QED BY <3>2, <2>4
  <2> DEFINE began == wtoken[wtoken[t].backtrace].end_time
             ended == wtoken[t].end_time
  <2>6. f = began + 1
    BY <2>3 DEF Begun, EndTime
  <2>7. began \in Nat /\ ended \in Nat /\ began < ended /\ ended < csf
    BY <2>4, <2>5
  <2> HIDE DEF began, ended
  <2> QED BY <2>6, <2>7, <1>3
<1>c. ASSUME NEW f \in DOMAIN lattice
      PROVE  /\ SortedAt(frames)[f] \in Seq(Wtokens)
             /\ Range(SortedAt(frames)[f]) \subseteq Range(lattice[f])
             /\ Listed(wtoken, sorted \cup frames, f, SortedAt(frames)[f])
  <2>1. Listed(wtoken, sorted, f, lattice[f])
    BY <1>2 DEF LatticeOK
  <2> QED BY <2>1, <1>2, <1>3, <1>6, SortedAtIs
<1>d. /\ DOMAIN lattice' = DOMAIN lattice
      /\ \A f \in DOMAIN lattice : lattice'[f] = Only(SortedAt(frames)[f], kept)
  BY <1>1 DEF Map, SortedAt
<1>14. /\ kept \in SUBSET Live(P) /\ TracedBy(paths) \subseteq kept \cup {None} /\ Closed(wtoken, kept)
  <2>1. chosen \in SUBSET Live(P)
    BY <1>13, <1>a
  <2> QED BY <2>1, <1>3, <1>5, <1>12, KeptIs DEF P
<1> HIDE DEF kept
<1>15. Live(P) = Wtokens \ Range(freelist)
  BY <1>4 DEF Live
<1>16. /\ freelist' \in Seq(Wtokens) /\ IsInjective(freelist') /\ Live(Q) = kept
       /\ Range(Unused(kept)) = Wtokens \ (kept \cup Range(freelist))
  BY <1>1, <1>4, <1>6, <1>14, <1>15, UnusedIs DEF Live
<1>17. wtoken' \in [Wtokens -> Word] /\ \A t \in kept : wtoken'[t] = wtoken[t] /\ wtoken[t].end_time < csf
  BY <1>1, <1>6, <1>7, <1>14, <1>16, KilledType
<1>18. kept \cup {None} = Until(Q, csf)
  BY <1>4, <1>16, <1>17 DEF Until
<1>19. paths \in Seq(PathOf(Until(Q, csf)))
  BY <1>11, <1>14, <1>18, TracedPaths
<1>20. nodes' \in TokensOf(Until(Q, csf))
  BY <1>1, <1>19, FromHmmsToNodesType
<1>21. Len(nodes') \in Nat /\ DOMAIN nodes' = 1 .. Len(nodes') /\ \A i \in DOMAIN nodes' : nodes'[i] \in TokenOf(Until(Q, csf))
  BY <1>20, SeqFun DEF TokensOf
<1>22. nodes' \in Seq(TokenOf(Nil))
  <2>1. Until(Q, csf) \subseteq Nil
    BY UntilNil
  <2>2. TokenOf(Until(Q, csf)) \subseteq TokenOf(Nil)
    BY <2>1, AltsGrow DEF TokenOf
  <2> QED BY <2>2, <1>20, SeqMonotonic DEF TokensOf
<1>23. Pending' \in Steps
  <2>1. None \in Nil /\ {} \in SUBSET (Histories \X Nat)
    BY DEF Nil
  <2> QED BY <2>1, <1>1, <1>16, <1>17, <1>22 DEF Pending, Steps
<1>24. current' # None => \E i \in DOMAIN nodes' : nodes'[i].node = current'
  <2> SUFFICES ASSUME nodes' # <<>> PROVE 1 \in DOMAIN nodes'
    BY <1>1
  <2>1. nodes' \in Seq(TokenOf(Nil)) /\ Len(nodes') # 0
    BY <1>22
  <2> QED BY <2>1, <1>21
<1>25. Typed'
  <2>1. current' \in NodeIds \cup {None}
    <3>1. \A i \in DOMAIN nodes' : nodes'[i].node \in NodeIds
      BY <1>21 DEF TokenOf
    <3> QED BY <3>1, <1>24
  <2>2. lattice' \in [0 .. MaxFrames - 1 -> Seq(Wtokens)]
    <3>1. \A f \in DOMAIN lattice : Only(SortedAt(frames)[f], kept) \in Seq(Wtokens)
      BY <1>c, OnlyKeeps
    <3>2. lattice' = [f \in DOMAIN lattice |-> Only(SortedAt(frames)[f], kept)]
      BY <1>1 DEF Map, SortedAt
    <3> QED BY <3>1, <3>2, <1>3
  <2>4. sorted' \in SUBSET (0 .. MaxFrames - 1)
    BY <1>1, <1>2, <1>3 DEF Typed
  <2>3. active' \in Seq(PathOf(Nil))
    BY <1>1, <1>19, UntilNil, PathsGrow
  <2> QED BY <2>1, <2>2, <2>3, <2>4, <1>1, <1>3, <1>11, <1>23 DEF Typed
<1>26. PoolOK(Q, csf + 1)
  <2> SUFFICES ASSUME NEW t \in kept
               PROVE  /\ wtoken'[t].end_time < csf + 1
                      /\ wtoken'[t].backtrace \in Until(Q, wtoken'[t].end_time)
    BY <1>4, <1>16 DEF PoolOK
  <2>1. wtoken'[t] = wtoken[t] /\ wtoken[t].end_time < csf /\ t \in Live(P) /\ t \in Wtokens
    BY <1>7, <1>14, <1>17
  <2>2. wtoken[t].end_time \in Nat
    <3>1. wtoken[t].end_time \in 0 .. MaxFrames
      BY <2>1, <1>6, WordTypes
    <3> QED BY <3>1, <1>3
  <2>3. wtoken[t].end_time < csf + 1
    BY <2>1, <2>2, <1>3
  <2>4. wtoken[t].backtrace # None =>
          /\ wtoken[t].backtrace \in kept
          /\ wtoken[wtoken[t].backtrace].end_time < wtoken[t].end_time
    BY <2>1, <1>3, <1>4, <1>5, <1>14, PoolIs DEF Closed
  <2>5. wtoken[t].backtrace \in Until(Q, wtoken[t].end_time)
    BY <2>4, <1>4, <1>16, <1>17 DEF Until
  <2> QED BY <2>1, <2>3, <2>5
<1>27. NodesOK(Q, csf)
  <2>1. \A i, j \in DOMAIN nodes' : nodes'[i].node = nodes'[j].node => i = j
    BY <1>20 DEF TokensOf, Apart
  <2>2. ASSUME NEW i \in DOMAIN nodes'
        PROVE  nodes'[i].bt \in Live(Q) \cup {None} /\ nodes'[i].alts \in AltsOf(Until(Q, csf))
    <3>1. nodes'[i].bt \in Until(Q, csf) /\ nodes'[i].alts \in AltsOf(Until(Q, csf))
      BY <1>21 DEF TokenOf
    <3> QED BY <3>1, <1>16, <1>18
  <2> QED BY <2>1, <2>2, <1>4 DEF NodesOK, Sound
<1>28. QueueOK(Q, csf) /\ Keeps(Q)
  <2>1. IsFiniteSet({})
    BY FS_EmptySet
  <2>2. Listed(wtoken', {}, 0, <<>>) /\ Range(<<>>) = {}
    BY NothingInOrder
  <2> QED BY <2>1, <2>2, <1>1, <1>4 DEF QueueOK, Keeps, Ordered, Listed
<1>29. Running'
  <2>1. Range(pq') = {}
    BY <1>1, NothingInOrder
  <2> QED BY <2>1, <1>1, <1>19, <1>24, <1>26, <1>27, <1>28 DEF Running, Q
<1>30. LatticeOK'
  <2> SUFFICES ASSUME NEW f \in DOMAIN lattice
               PROVE  /\ Listed(wtoken', sorted', f, lattice'[f])
                      /\ \A t \in Range(lattice'[f]) :
                           /\ t \in Live(Q) /\ wtoken'[t].end_time = f - 1
                           /\ wtoken'[t].end_time < csf
    BY <1>1, <1>d DEF LatticeOK, EndTime, Q
  <2>1. \A t \in Range(lattice[f]) : wtoken[t].end_time = f - 1
    BY <1>1, <1>2, <1>3 DEF LatticeOK, EndTime
  <2> DEFINE list == Only(SortedAt(frames)[f], kept)
  <2>2. /\ list \in Seq(Wtokens) /\ Range(list) = Range(SortedAt(frames)[f]) \cap kept
        /\ Listed(wtoken, sorted', f, list)
    BY <1>1, <1>c, SearchAssumption, OnlyKeeps, OnlyListed
  <2>3. lattice'[f] = list
    BY <1>d
  <2> HIDE DEF list
  <2>4. \A t \in Range(list) : t \in Range(lattice[f]) /\ t \in kept
    BY <2>2, <1>c
  <2>5. \A t \in Range(list) : wtoken'[t] = wtoken[t] /\ wtoken[t].end_time < csf
    BY <2>4, <1>17
  <2>6. Listed(wtoken', sorted', f, list)
    BY <2>2, <2>5, ListedAlike
  <2> QED BY <2>1, <2>3, <2>4, <2>5, <2>6, <1>16
<1>31. Idle' /\ Ended' /\ InBegin(R)'
  BY <1>1 DEF Idle, Ended, InBegin
<1>32. Flags'
  BY <1>1, <1>2, <1>b DEF Flags
<1> QED BY <1>25, <1>29, <1>30, <1>31, <1>32 DEF SearchOK
-----------------------------------------------------------------------------
(* The steps: no more frames. *)

(* A token freed. *)
LEMMA FreeIs ==
  ASSUME NEW s \in Steps, NEW t \in Wtokens
  PROVE  LET r == Free(s, t)
         IN  /\ r \in Steps /\ r.nodes = s.nodes /\ r.pq = s.pq /\ r.offers = s.offers
             /\ \A x \in Wtokens : r.wtoken[x] = IF x = t THEN Killed ELSE s.wtoken[x]
             /\ IsInjective(s.freelist) /\ t \notin Range(s.freelist) =>
                  IsInjective(r.freelist) /\ Live(r) = Live(s) \ {t}
<1> DEFINE toks == [s.wtoken EXCEPT ![t] = Killed]
           free == <<t>> \o s.freelist
           r == Free(s, t)
<1>1. r = [s EXCEPT !.wtoken = toks, !.freelist = free]
  BY Zenon DEF Free, Steps
<1>2. toks \in [Wtokens -> Word] /\ \A x \in Wtokens : toks[x] = IF x = t THEN Killed ELSE s.wtoken[x]
  BY StepsTypes, KilledType
<1>3. free \in Seq(Wtokens)
  <2>1. s.freelist \in Seq(Wtokens)
    BY StepsTypes
  <2> QED BY <2>1
<1>4. IsInjective(s.freelist) /\ t \notin Range(s.freelist) =>
        IsInjective(free) /\ Range(free) = Range(s.freelist) \cup {t}
  BY StepsTypes, PushFirst
<1> HIDE DEF toks, free, r
<1>5. /\ r \in Steps /\ r.nodes = s.nodes /\ r.pq = s.pq /\ r.offers = s.offers
      /\ r.wtoken = toks /\ r.freelist = free
  BY <1>1, <1>2, <1>3 DEF Steps
<1> QED BY <1>2, <1>4, <1>5 DEF Live, r

(* The words of a list have gone back to the pool. *)
Freed(s, r, S) ==
  /\ r \in Steps /\ r.nodes = s.nodes /\ r.pq = s.pq /\ r.offers = s.offers
  /\ IsInjective(r.freelist) /\ Live(r) = Live(s) \ S
  /\ \A x \in Wtokens : r.wtoken[x] = IF x \in S THEN Killed ELSE s.wtoken[x]

(* A list of tokens freed. *)
LEMMA FreedIs ==
  ASSUME NEW s \in Steps, IsInjective(s.freelist), NEW list \in Seq(Wtokens), IsInjective(list),
         Range(list) \subseteq Live(s)
  PROVE  Freed(s, FoldLeft(Free, s, list), Range(list))
<1> DEFINE n == Len(list)
           D == 1 .. n
           Step(acc, i) == Free(acc, list[i])
           op == [p \in Steps \X D |-> Step(p[1], p[2])]
           iter == CHOOSE g : g = [d \in SUBSET D |->
                                     IF d = {} THEN s ELSE Step(g[d \ {Max(d)}], Max(d))]
           First(k) == {list[i] : i \in 1 .. k}
<1>0. n \in Nat /\ DOMAIN list = D /\ \A i \in D : list[i] \in Wtokens
  BY SeqFun
<1>1. FoldLeft(Free, s, list) = iter[D]
  BY <1>0, Zenon DEF FoldLeft, MapThenFoldSet
<1>2. \A a \in Steps, i \in D : Step(a, i) \in Steps
  BY <1>0, FreeIs
<1>20. \A a, i : Step(a, i) = Free(a, list[i])
  OBVIOUS
<1> HIDE DEF Step
<1>3. op \in [Steps \X D -> Steps] /\ \A a \in Steps, i \in D : op[<<a, i>>] = Step(a, i)
  BY <1>2
<1> HIDE DEF op
<1>4. PICK g : IsRun(g, Steps, n, s, op)
  BY <1>0, <1>3, FoldExists
<1>5. ASSUME NEW d \in SUBSET D, d # {}
      PROVE  op[<<g[d \ {Max(d)}], Max(d)>>] = Step(g[d \ {Max(d)}], Max(d))
  <2>1. g[d \ {Max(d)}] \in Steps
    BY <1>4 DEF IsRun
  <2>2. Max(d) \in D
    BY <1>0, <1>5, MaxIn
  <2> QED BY <1>3, <2>1, <2>2
<1>6. g = [d \in SUBSET D |-> IF d = {} THEN s ELSE Step(g[d \ {Max(d)}], Max(d))]
  BY <1>4, <1>5 DEF IsRun
<1>7. iter = [d \in SUBSET D |-> IF d = {} THEN s ELSE Step(iter[d \ {Max(d)}], Max(d))]
  BY <1>6, Zenon
<1> HIDE DEF iter
<1> DEFINE Good(k) == Freed(s, iter[1 .. k], First(k))
           P == {k \in Nat : k <= n => Good(k)}
<1>8. Good(0)
  <2>1. 1 .. 0 = {} /\ First(0) = {}
    OBVIOUS
  <2>2. iter[1 .. 0] = s
    BY <1>7, <2>1
  <2> HIDE DEF First
  <2> QED BY <2>1, <2>2 DEF Freed
<1>9. ASSUME NEW k \in Nat, k + 1 <= n, Good(k)
      PROVE  Good(k + 1)
  <2> DEFINE a == iter[1 .. k]
             t == list[k + 1]
             r == iter[1 .. k + 1]
  <2>1. /\ 1 .. k + 1 \in SUBSET D /\ 1 .. k + 1 # {} /\ k + 1 \in D
        /\ (1 .. k + 1) \ {k + 1} = 1 .. k /\ Max(1 .. k + 1) = k + 1
    BY <1>0, <1>9, UpToNext
  <2>2. r = Free(a, t)
    BY <1>7, <1>20, <2>1
  <2>3. First(k + 1) = First(k) \cup {t}
    <3>1. 1 .. k + 1 = 1 .. k \cup {k + 1}
      BY <1>9
    <3> QED BY <3>1
  <2>4. t \in Wtokens /\ t \in Live(s) /\ t \notin First(k)
    <3>1. t \in Wtokens /\ t \in Range(list)
      BY <1>0, <2>1 DEF Range
    <3>2. \A i \in 1 .. k : i \in DOMAIN list /\ i # k + 1
      BY <1>0, <1>9
    <3>3. \A i \in 1 .. k : list[i] # t
      BY <3>2, <2>1, <1>0 DEF IsInjective
    <3> QED BY <3>1, <3>3
  <2> HIDE DEF First
  <2>5. Freed(s, a, First(k))
    BY <1>9
  <2> HIDE DEF a, t, r
  <2>6. /\ a \in Steps /\ a.nodes = s.nodes /\ a.pq = s.pq /\ a.offers = s.offers
        /\ IsInjective(a.freelist) /\ Live(a) = Live(s) \ First(k)
        /\ \A x \in Wtokens : a.wtoken[x] = IF x \in First(k) THEN Killed ELSE s.wtoken[x]
    BY <2>5 DEF Freed
  <2>7. t \notin Range(a.freelist)
    BY <2>4, <2>6 DEF Live
  <2>8. /\ r \in Steps /\ r.nodes = a.nodes /\ r.pq = a.pq /\ r.offers = a.offers
        /\ \A x \in Wtokens : r.wtoken[x] = IF x = t THEN Killed ELSE a.wtoken[x]
        /\ IsInjective(r.freelist) /\ Live(r) = Live(a) \ {t}
    BY <2>2, <2>4, <2>6, <2>7, FreeIs
  <2>9. Freed(s, r, First(k + 1))
    BY <2>3, <2>6, <2>8 DEF Freed
  <2> QED BY <2>9 DEF r
<1> HIDE DEF Good
<1>10. 0 \in P /\ \A k \in Nat : k \in P => k + 1 \in P
  BY <1>8, <1>9
<1> HIDE DEF P
<1>11. n \in P
  BY <1>0, <1>10, SetInduction
<1>12. Good(n)
  BY <1>0, <1>11 DEF P
<1>13. First(n) = Range(list)
  BY <1>0 DEF Range
<1> QED BY <1>1, <1>12, <1>13 DEF Good

(* A list without elements. *)
LEMMA NothingIn == ASSUME NEW T, NEW list \in Seq(T), Range(list) = {} PROVE list = <<>>
<1>1. DOMAIN list = 1 .. Len(list) /\ Len(list) \in Nat
  BY SeqFun
<1>2. ASSUME NEW i \in DOMAIN list PROVE FALSE
  <2>1. list[i] \in Range(list)
    BY DEF Range
  <2> QED BY <2>1
<1>3. Len(list) = 0
  <2>1. Len(list) > 0 => 1 \in DOMAIN list
    BY <1>1
  <2> QED BY <2>1, <1>1, <1>2
<1> QED BY <1>3

(* The words that do not end the utterance go back to the pool: all of the  *)
(* queue's after a frame, none before the first one.                        *)
LEMMA OthersFreed ==
  ASSUME Typed, Running, phase = "ready"
  PROVE  LET g == [Pending EXCEPT !.pq = EndWords(@)]
             other == Only(pq, Range(pq) \ Range(EndWords(pq)))
             freed == FoldLeft(Free, g, other)
         IN  /\ freed \in Steps /\ PoolOK(freed, csf + 1) /\ freed.nodes = nodes /\ freed.offers = {}
             /\ \A t \in Range(freed.pq) : freed.wtoken[t].end_node = EndNode
             /\ csf > 0 => freed.pq = <<>>
             /\ \A t \in Live(Pending) : wtoken[t].end_time # csf - 1 => Same(Pending, freed, t)
             /\ \A b \in Nil : Sound(Pending, b) => Sound(freed, b)
<1> DEFINE P == Pending
           ends == EndWords(pq)
           g == [Pending EXCEPT !.pq = EndWords(@)]
           other == Only(pq, Range(pq) \ Range(ends))
           r == FoldLeft(Free, g, other)
<1>1. /\ P \in Steps /\ csf \in 0 .. MaxFrames - 1 /\ csf \in Nat /\ MaxFrames \in Nat
  BY SearchAssumption DEF Typed
<1>2. /\ P.nodes = nodes /\ P.pq = pq /\ P.wtoken = wtoken /\ P.freelist = freelist /\ P.offers = offers
  BY DEF Pending
<1>3. /\ PoolOK(P, csf) /\ offers = {}
      /\ csf > 0 => QueueOK(P, csf - 1) /\ \A t \in Range(pq) : wtoken[t].end_node # EndNode
      /\ csf = 0 => \A t \in Range(pq) : wtoken[t].end_node = EndNode
  <2>1. csf > 0 \/ csf = 0
    BY <1>1
  <2> QED BY <2>1 DEF Running
<1> HIDE DEF P
<1>4. /\ pq \in Seq(Wtokens) /\ wtoken \in [Wtokens -> Word] /\ IsInjective(freelist)
      /\ Range(pq) \subseteq Wtokens /\ freelist \in Seq(Wtokens)
  BY <1>1, <1>2, <1>3, StepsTypes, SeqFun DEF PoolOK
<1>5. ends \in Seq(Wtokens) /\ Range(ends) = {t \in Range(pq) : wtoken[t].end_node = EndNode}
  <2> DEFINE S == {t \in Range(pq) : wtoken[t].end_node = EndNode}
  <2>1. ends = Only(pq, S)
    BY DEF EndWords
  <2> HIDE DEF ends, S
  <2>2. ends \in Seq(Wtokens) /\ Range(ends) = Range(pq) \cap S
    BY <1>4, <2>1, OnlyKeeps
  <2> QED BY <2>2 DEF S
<1>6. g = [P EXCEPT !.pq = ends]
  BY <1>2, Zenon DEF P, Pending
<1> HIDE DEF ends, g
<1>7. /\ g \in Steps /\ g.nodes = nodes /\ g.pq = ends /\ g.wtoken = wtoken /\ g.freelist = freelist
      /\ g.offers = {} /\ Live(g) = Live(P)
  BY <1>1, <1>2, <1>3, <1>5, <1>6 DEF Steps, Live
<1>8. other \in Seq(Wtokens) /\ Range(other) = Range(pq) \ Range(ends)
  BY <1>4, OnlyKeeps
<1>9. csf = 0 => Range(other) = {}
  BY <1>3, <1>5, <1>8
<1>10. csf > 0 => \A t \in Range(other) : t \in Live(P) /\ wtoken[t].end_time = csf - 1
  BY <1>2, <1>3, <1>8 DEF QueueOK
<1>11. IsInjective(other)
  <2>1. CASE csf = 0
    <3> HIDE DEF other
    <3>1. DOMAIN other = {}
      BY <2>1, <1>9 DEF Range
    <3> QED BY <3>1 DEF IsInjective
  <2>2. CASE csf > 0
    <3>1. InOrder(wtoken, pq)
      BY <2>2, <1>2, <1>3 DEF QueueOK, Ordered
    <3> QED BY <3>1, <1>4, OnlyInOrder DEF InOrder
  <2> QED BY <2>1, <2>2, <1>1
<1> HIDE DEF other
<1>12. \A t \in Range(other) : t \in Live(P) /\ wtoken[t].end_time = csf - 1
  BY <1>1, <1>9, <1>10
<1>13. Freed(g, r, Range(other))
  <2>1. Range(other) \subseteq Live(g)
    BY <1>7, <1>12
  <2> QED BY <2>1, <1>4, <1>7, <1>8, <1>11, FreedIs
<1> HIDE DEF r
<1>14. /\ r \in Steps /\ r.nodes = nodes /\ r.pq = ends /\ r.offers = {} /\ IsInjective(r.freelist)
       /\ Live(r) = Live(P) \ Range(other)
       /\ \A x \in Wtokens : r.wtoken[x] = IF x \in Range(other) THEN Killed ELSE wtoken[x]
  BY <1>7, <1>13 DEF Freed
<1>15. Live(P) \subseteq Wtokens
  BY DEF Live
<1>16. \A t \in Live(P) : wtoken[t].end_time # csf - 1 => Same(P, r, t)
  BY <1>2, <1>12, <1>14, <1>15 DEF Same
<1>17. PoolOK(r, csf + 1)
  <2> SUFFICES ASSUME NEW t \in Live(r)
               PROVE  /\ r.wtoken[t].end_time < csf + 1
                      /\ r.wtoken[t].backtrace \in Until(r, r.wtoken[t].end_time)
    BY <1>14 DEF PoolOK
  <2>1. t \in Live(P) /\ t \in Wtokens /\ r.wtoken[t] = wtoken[t]
    BY <1>14, <1>15
  <2>2. /\ wtoken[t].end_time < csf
        /\ wtoken[t].backtrace # None => /\ wtoken[t].backtrace \in Live(P)
                                         /\ wtoken[wtoken[t].backtrace].end_time < wtoken[t].end_time
    BY <2>1, <1>1, <1>2, <1>3, PoolIs
  <2>3. wtoken[t].end_time \in Nat
    <3>1. wtoken[t].end_time \in 0 .. MaxFrames
      BY <2>1, <1>4, WordTypes
    <3> QED BY <3>1, <1>1
  <2>4. wtoken[t].end_time < csf + 1
    BY <2>2, <2>3, <1>1
  <2>5. wtoken[t].backtrace \in Until(r, wtoken[t].end_time)
    <3>1. CASE wtoken[t].backtrace = None
      BY <3>1 DEF Until
    <3>2. CASE wtoken[t].backtrace # None
      <4> DEFINE b == wtoken[t].backtrace
      <4>1. b \in Live(P) /\ wtoken[b].end_time < wtoken[t].end_time
        BY <3>2, <2>2
      <4>2. wtoken[b].end_time \in Nat
        <5>1. wtoken[b].end_time \in 0 .. MaxFrames
          BY <4>1, <1>4, <1>15, WordTypes
        <5> QED BY <5>1, <1>1
      <4> HIDE DEF b
      <4>3. wtoken[b].end_time # csf - 1
        BY <4>1, <4>2, <2>2, <2>3, <1>1
      <4>4. b \in Live(r) /\ r.wtoken[b] = wtoken[b]
        BY <4>1, <4>3, <1>2, <1>16 DEF Same
      <4>5. b \in Until(r, wtoken[t].end_time)
        BY <4>1, <4>4 DEF Until
      <4> QED BY <4>5 DEF b
    <3> QED BY <3>1, <3>2
  <2> QED BY <2>1, <2>4, <2>5
<1>18. \A t \in Range(r.pq) : r.wtoken[t].end_node = EndNode
  <2>1. \A t \in Range(ends) : t \in Wtokens /\ t \notin Range(other) /\ wtoken[t].end_node = EndNode
    BY <1>4, <1>5, <1>8
  <2> QED BY <2>1, <1>14
<1>19. csf > 0 => r.pq = <<>>
  <2>1. csf > 0 => Range(ends) = {}
    BY <1>3, <1>5
  <2> QED BY <2>1, <1>5, <1>14, NothingIn
<1>20. \A b \in Nil : Sound(P, b) => Sound(r, b)
  <2> SUFFICES ASSUME NEW b \in Nil, Sound(P, b), b # None PROVE Sound(r, b)
    BY DEF Sound
  <2>1. b \in Wtokens
    BY DEF Nil
  <2>2. CASE b \in Range(other)
    BY <2>1, <2>2, <1>14, KilledType DEF Sound
  <2>3. CASE b \notin Range(other)
    BY <2>1, <2>3, <1>2, <1>14 DEF Sound
  <2> QED BY <2>2, <2>3
<1>21. ends = EndWords(pq) /\ other = Only(pq, Range(pq) \ Range(EndWords(pq)))
  BY DEF ends, other
<1> QED BY <1>14, <1>16, <1>17, <1>18, <1>19, <1>20, <1>21 DEF P, r, g

(* What no more frames must leave for the utterance to have ended well. *)
LEMMA EndedOK ==
  ASSUME NEW R, SearchOK(R), phase = "ready", phase' = "ended", UNCHANGED <<csf, active, current, sorted>>,
         lattice' = (IF csf = 0 THEN lattice ELSE [lattice EXCEPT ![csf] = pq']),
         Pending' \in Steps, PoolOK(Pending', csf + 1), csf > 0 => EndsOK(Pending'),
         \A t \in Range(pq') : wtoken'[t].end_node = EndNode,
         \A t \in Live(Pending) : wtoken[t].end_time # csf - 1 => Same(Pending, Pending', t)
  PROVE  SearchOK(R)'
<1> DEFINE P == Pending
           Q == Pending'
<1>1. Typed /\ Running /\ LatticeOK /\ Flags
  BY DEF SearchOK
<1>2. /\ P \in Steps /\ csf \in 0 .. MaxFrames - 1 /\ csf \in Nat /\ MaxFrames \in Nat
      /\ lattice \in [0 .. MaxFrames - 1 -> Seq(Wtokens)] /\ PoolOK(P, csf)
  BY <1>1, SearchAssumption DEF Typed, Running
<1>3. /\ P.pq = pq /\ P.wtoken = wtoken /\ Q.pq = pq' /\ Q.wtoken = wtoken' /\ Q \in Steps
  BY DEF Pending
<1> HIDE DEF P, Q
<1>4. pq' \in Seq(Wtokens)
  BY <1>3, StepsTypes
<1>5. csf = 0 => lattice' = lattice
  OBVIOUS
<1>6. csf # 0 => /\ lattice'[csf] = pq' /\ DOMAIN lattice' = DOMAIN lattice
                 /\ \A f \in DOMAIN lattice : f # csf => lattice'[f] = lattice[f]
                 /\ lattice' \in [0 .. MaxFrames - 1 -> Seq(Wtokens)]
  BY <1>2, <1>4
<1>7. Typed'
  BY <1>1, <1>2, <1>5, <1>6 DEF Typed
<1>8. csf > 0 => QueueOK(Q, csf) /\ Keeps(Q)
  BY DEF EndsOK, Q
<1>9. Ended'
  <2>1. csf > 0 => \A t \in Range(pq') : t \in Live(Q)
    BY <1>3, <1>8 DEF QueueOK
  <2> QED BY <2>1, <1>8 DEF Ended, Q
<1>13. Flags'
  BY <1>1 DEF Flags
<1>14. csf \notin sorted
  <2>1. \A f \in sorted : f < csf
    BY <1>1 DEF Flags
  <2> QED BY <2>1, <1>2
<1>10. \A f \in DOMAIN lattice :
         /\ Listed(wtoken, sorted, f, lattice[f])
         /\ \A t \in Range(lattice[f]) : t \in Live(P) /\ wtoken[t].end_time = f - 1
  BY <1>1 DEF LatticeOK, EndTime, P
<1>11. LatticeOK'
  <2>1. CASE csf = 0
    <3>1. \A f \in DOMAIN lattice : \A t \in Range(lattice[f]) : wtoken[t].end_time \in Nat /\ wtoken[t].end_time < 0
      <4> SUFFICES ASSUME NEW f \in DOMAIN lattice, NEW t \in Range(lattice[f])
                   PROVE  wtoken[t].end_time \in Nat /\ wtoken[t].end_time < 0
        OBVIOUS
      <4>1. t \in Live(P) /\ t \in Wtokens
        BY <1>10 DEF Live
      <4>2. wtoken[t].end_time < csf
        BY <4>1, <1>2, <1>3, PoolIs
      <4>3. wtoken[t].end_time \in 0 .. MaxFrames
        BY <4>1, <1>2, <1>3, StepsTypes, WordTypes
      <4> QED BY <4>2, <4>3, <2>1, <1>2
    <3>2. \A f \in DOMAIN lattice : Range(lattice[f]) = {}
      BY <3>1
    <3>3. \A f \in DOMAIN lattice : lattice[f] = <<>>
      BY <3>2, <1>2, NothingIn
    <3>4. \A f \in DOMAIN lattice' : lattice'[f] = <<>>
      BY <3>3, <2>1, <1>5
    <3>5. (\A f : Listed(wtoken', sorted', f, <<>>)) /\ Range(<<>>) = {}
      BY NothingInOrder
    <3> QED BY <3>4, <3>5 DEF LatticeOK
  <2>2. CASE csf # 0
    <3> SUFFICES ASSUME NEW f \in DOMAIN lattice
                 PROVE  /\ Listed(wtoken', sorted', f, lattice'[f])
                        /\ \A t \in Range(lattice'[f]) :
                             /\ t \in Live(Q) /\ wtoken'[t].end_time = IF f = csf THEN f ELSE f - 1
                             /\ f = csf => wtoken'[t].end_node = EndNode
      BY <2>2, <1>6 DEF LatticeOK, EndTime, Q
    <3>1. CASE f = csf
      <4>1. QueueOK(Q, csf)
        BY <2>2, <1>2, <1>8
      <4>2. Listed(wtoken', sorted', f, pq')
        BY <4>1, <3>1, <1>3, <1>14 DEF QueueOK, Ordered, Listed
      <4> QED BY <4>1, <4>2, <3>1, <2>2, <1>3, <1>6 DEF QueueOK
    <3>2. CASE f # csf
      <4>1. f \in Int
        BY <1>2
      <4>2. \A t \in Range(lattice[f]) : t \in Live(Q) /\ wtoken'[t] = wtoken[t]
        <5> SUFFICES ASSUME NEW t \in Range(lattice[f]) PROVE t \in Live(Q) /\ wtoken'[t] = wtoken[t]
          OBVIOUS
        <5>1. t \in Live(P) /\ wtoken[t].end_time # csf - 1
          BY <4>1, <3>2, <1>2, <1>10
        <5>2. Same(P, Q, t)
          BY <5>1 DEF P, Q
        <5> QED BY <5>2, <1>3 DEF Same
      <4>3. Listed(wtoken', sorted', f, lattice[f])
        <5>1. lattice[f] \in Seq(Wtokens) /\ Listed(wtoken, sorted', f, lattice[f])
          BY <1>2, <1>10
        <5> QED BY <5>1, <4>2, ListedAlike
      <4> QED BY <4>2, <4>3, <3>2, <2>2, <1>6, <1>10
    <3> QED BY <3>1, <3>2
  <2> QED BY <2>1, <2>2
<1>12. Idle' /\ InBegin(R)' /\ Running'
  BY DEF Idle, InBegin, Running
<1> QED BY <1>7, <1>9, <1>11, <1>12, <1>13 DEF SearchOK

(* srec_no_more_frames. *)
LEMMA NoMoreFramesOK ==
  ASSUME NEW R, SearchOK(R), NoMoreFrames
  PROVE  SearchOK(R)'
<1> DEFINE P == Pending
           Q == Pending'
           g == [Pending EXCEPT !.pq = EndWords(@)]
           other == Only(pq, Range(pq) \ Range(EndWords(pq)))
           freed == FoldLeft(Free, g, other)
           i == IndexOf(nodes, EndNode)
           tok == nodes[i]
           b == WordBoundary(freed, EndNode, tok.word, tok.bt, tok.cost)
           s == IF i = 0 \/ csf = 0 THEN freed ELSE Alternatives(b, tok, tok.cost)
<1>1. /\ phase = "ready" /\ phase' = "ended" /\ UNCHANGED <<csf, active, current, sorted>>
      /\ lattice' = IF csf = 0 THEN lattice ELSE [lattice EXCEPT ![csf] = pq']
      /\ Becomes(s)
  BY Zenon DEF NoMoreFrames
<1>2. Typed /\ Running
  BY DEF SearchOK
<1>3. /\ P \in Steps /\ csf \in 0 .. MaxFrames - 1 /\ csf \in Nat /\ MaxFrames \in Nat
      /\ NodesOK(P, csf) /\ PoolOK(P, csf)
  BY <1>1, <1>2, SearchAssumption DEF Typed, Running
<1>4. /\ freed \in Steps /\ PoolOK(freed, csf + 1) /\ freed.nodes = nodes /\ freed.offers = {}
      /\ \A t \in Range(freed.pq) : freed.wtoken[t].end_node = EndNode
      /\ csf > 0 => freed.pq = <<>>
      /\ \A t \in Live(P) : wtoken[t].end_time # csf - 1 => Same(P, freed, t)
      /\ \A x \in Nil : Sound(P, x) => Sound(freed, x)
  BY <1>1, <1>2, OthersFreed
<1>5. /\ P.nodes = nodes /\ P.wtoken = wtoken
  BY DEF Pending
<1> HIDE DEF freed, P, g, other
<1>6. csf > 0 => EndsOK(freed)
  <2>1. IsFiniteSet({})
    BY FS_EmptySet
  <2>2. csf > 0 => QueueOK(freed, csf) /\ Keeps(freed)
    <3>1. Listed(freed.wtoken, {}, 0, <<>>) /\ Range(<<>>) = {}
      BY NothingInOrder
    <3> QED BY <2>1, <3>1, <1>4 DEF QueueOK, Keeps, Ordered, Listed
  <2> QED BY <2>2, <1>4 DEF EndsOK
<1>7. /\ s \in Steps /\ PoolOK(s, csf + 1) /\ (csf > 0 => EndsOK(s))
      /\ \A t \in Range(s.pq) : s.wtoken[t].end_node = EndNode
      /\ \A t \in Live(P) : wtoken[t].end_time # csf - 1 => Same(P, s, t)
  <2>1. CASE i = 0 \/ csf = 0
    <3>1. s = freed
      BY <2>1
    <3> HIDE DEF s
    <3> QED BY <3>1, <1>4, <1>6
  <2>2. CASE ~(i = 0 \/ csf = 0)
    <3>1. csf > 0 /\ i # 0
      BY <2>2, <1>3
    <3>2. nodes \in Seq(TokenOf(Nil))
      BY <1>3, <1>5, StepsTypes
    <3>3. i \in DOMAIN nodes /\ tok.node = EndNode
      BY <3>1, <3>2, IndexOfIs
    <3>4. /\ tok \in TokenOf(Nil) /\ Sound(P, tok.bt) /\ tok.alts \in AltsOf(Until(P, csf))
      BY <3>2, <3>3, <1>3, <1>5, SeqFun DEF NodesOK
    <3> HIDE DEF tok, i
    <3>5. /\ tok.node \in NodeIds /\ tok.cost \in Nat /\ tok.word \in Labels /\ tok.bt \in Nil
          /\ tok.alts \in AltsOf(Nil)
      BY <3>4 DEF TokenOf
    <3> DEFINE E == {EndNode}
    <3>6. EndNode \in NodeIds \cap E /\ tok.node \in NodeIds \cap E
      BY <3>3, <3>5
    <3>7. Ends(freed, E)
      BY <1>4 DEF Ends
    <3> HIDE DEF E
    <3>8. Sound(freed, tok.bt)
      BY <3>4, <3>5, <1>4
    <3>9. EndsOK(freed)
      BY <3>1, <1>6
    <3>10. /\ Later(freed, b) /\ Ends(b, E)
           /\ b.made # None => b.made \in Live(b) /\ b.wtoken[b.made].cost = tok.cost
      BY <3>5, <3>6, <3>7, <3>8, <3>9, <1>3, <1>4, WordBoundaryOK
    <3> DEFINE a == Alternatives(b, tok, tok.cost)
    <3>11. s = a
      BY <2>2 DEF i
    <3> HIDE DEF b
    <3>12. b \in Steps /\ EndsOK(b)
      BY <3>10 DEF Later
    <3>13. \A k \in DOMAIN tok.alts : Sound(b, tok.alts[k].bt)
      <4> SUFFICES ASSUME NEW k \in DOMAIN tok.alts PROVE Sound(b, tok.alts[k].bt)
        OBVIOUS
      <4>1. tok.alts[k].bt \in Until(P, csf)
        BY <3>4, AltsTrace
      <4>2. tok.alts[k].bt \in Nil /\ Sound(P, tok.alts[k].bt)
        BY <4>1, UntilNil DEF Until, Sound
      <4>3. Sound(freed, tok.alts[k].bt)
        BY <4>2, <1>4
      <4> QED BY <4>2, <4>3, <3>10 DEF Later
    <3>14. Later(b, a) /\ Ends(a, E)
      BY <3>5, <3>6, <3>10, <3>12, <3>13, <1>3, AlternativesOK
    <3> HIDE DEF a, s
    <3>15. Later(freed, a)
      BY <3>10, <3>14, LaterStill
    <3>16. a \in Steps /\ EndsOK(a) /\ PoolOK(a, csf + 1)
      BY <3>15 DEF Later, EndsOK
    <3>17. \A t \in Range(a.pq) : a.wtoken[t].end_node = EndNode
      BY <3>14 DEF Ends, E
    <3>18. \A t \in Live(P) : wtoken[t].end_time # csf - 1 => Same(P, a, t)
      <4> SUFFICES ASSUME NEW t \in Live(P), wtoken[t].end_time # csf - 1 PROVE Same(P, a, t)
        OBVIOUS
      <4>1. t \in Live(freed) /\ freed.wtoken[t] = wtoken[t]
        BY <1>4, <1>5 DEF Same
      <4>2. wtoken[t].end_time < csf
        BY <1>3, <1>5, PoolIs
      <4>3. Same(freed, a, t)
        BY <4>1, <4>2, <3>15 DEF Later
      <4> QED BY <4>1, <4>3, <1>5 DEF Same
    <3> QED BY <3>11, <3>16, <3>17, <3>18
  <2> QED BY <2>1, <2>2
<1> HIDE DEF s
<1>8. /\ Q \in Steps /\ Q.nodes = s.nodes /\ Q.pq = s.pq /\ Q.wtoken = s.wtoken
      /\ Q.freelist = s.freelist /\ Q.offers = s.offers /\ pq' = s.pq /\ wtoken' = s.wtoken
  BY <1>1, <1>7, BecomesIs DEF Becomes
<1> HIDE DEF Q
<1>9. Live(Q) = Live(s) /\ (EndsOK(s) => EndsOK(Q)) /\ \A n : Until(Q, n) = Until(s, n)
  BY <1>8, AlikeWords
<1>10. PoolOK(Q, csf + 1)
  BY <1>7, <1>8, <1>9 DEF PoolOK
<1>11. \A t \in Live(P) : wtoken[t].end_time # csf - 1 => Same(P, Q, t)
  BY <1>7, <1>8, <1>9 DEF Same
<1> QED BY <1>1, <1>7, <1>8, <1>9, <1>10, <1>11, EndedOK DEF P, Q
-----------------------------------------------------------------------------
(* The steps: the result is read. *)

(* srec_get_top_choice_transcription. *)
LEMMA TopChoiceOK ==
  ASSUME NEW R, SearchOK(R), TopChoice
  PROVE  SearchOK(R)'
<1> DEFINE P == Pending
           Q == Pending'
           S == {t \in Range(pq) : wtoken[t].cost = wtoken[Head(pq)].cost}
<1>1. /\ phase = "ended" /\ csf > 0
      /\ lattice' = SortedAt({csf}) /\ sorted' = sorted \cup {csf}
      /\ pq' = Only(pq, S) \/ pq' = pq
      /\ phase' = phase /\ csf' = csf /\ active' = active /\ nodes' = nodes /\ current' = current
      /\ wtoken' = wtoken /\ freelist' = freelist /\ offers' = offers
  BY Zenon DEF TopChoice
<1>2. Typed /\ Flags /\ Ended /\ LatticeOK
  BY <1>1 DEF SearchOK
<1>3. /\ P \in Steps /\ pq \in Seq(Wtokens) /\ wtoken \in [Wtokens -> Word]
      /\ lattice \in [0 .. MaxFrames - 1 -> Seq(Wtokens)] /\ csf \in 0 .. MaxFrames - 1
  BY <1>2, PendingTypes, StepsTypes DEF Typed
<1> HIDE DEF S
<1>4. pq' \in Seq(Wtokens) /\ Range(pq') \subseteq Range(pq)
  <2>1. Only(pq, S) \in Seq(Wtokens) /\ Range(Only(pq, S)) = Range(pq) \cap S
    BY <1>3, OnlyKeeps
  <2> QED BY <2>1, <1>1, <1>3
<1>5. /\ Q.nodes = nodes /\ Q.pq = pq' /\ Q.wtoken = wtoken /\ Q.freelist = freelist /\ Q.offers = offers
      /\ P.nodes = nodes /\ P.pq = pq /\ P.wtoken = wtoken /\ P.freelist = freelist /\ P.offers = offers
  BY <1>1 DEF Pending
<1>6. Q \in Steps
  <2>1. None \in Nil
    BY DEF Nil
  <2> QED BY <2>1, <1>1, <1>3, <1>4, <1>5, StepsTypes DEF Pending, Steps
<1> HIDE DEF P, Q
<1>7. Live(Q) = Live(P) /\ \A n : Until(Q, n) = Until(P, n)
  BY <1>5 DEF Live, Until
<1>8. PoolOK(Q, csf + 1)
  <2>1. PoolOK(P, csf + 1)
    BY <1>1, <1>2 DEF Ended, P
  <2> QED BY <2>1, <1>5, <1>7 DEF PoolOK
<1>9. ASSUME NEW f \in DOMAIN lattice
      PROVE  /\ lattice'[f] \in Seq(Wtokens) /\ Range(lattice'[f]) \subseteq Range(lattice[f])
             /\ Listed(wtoken, sorted', f, lattice'[f])
  <2>1. lattice[f] \in Seq(Wtokens) /\ Listed(wtoken, sorted, f, lattice[f])
    BY <1>2, <1>3 DEF LatticeOK
  <2> QED BY <2>1, <1>1, <1>3, SortedAtIs
<1>10. DOMAIN lattice' = DOMAIN lattice /\ lattice' \in [0 .. MaxFrames - 1 -> Seq(Wtokens)]
  <2>1. lattice' = [f \in DOMAIN lattice |-> lattice'[f]] /\ DOMAIN lattice = 0 .. MaxFrames - 1
    BY <1>1, <1>3 DEF SortedAt
  <2> QED BY <2>1, <1>9
<1>11. Typed'
  BY <1>1, <1>2, <1>3, <1>6, <1>10 DEF Typed, Q
<1>12. Flags'
  BY <1>1, <1>2 DEF Flags
<1>13. Ended'
  <2>1. \A t \in Range(pq) : t \in Live(P) /\ wtoken[t].end_node = EndNode
    BY <1>1, <1>2 DEF Ended, P
  <2> QED BY <2>1, <1>1, <1>4, <1>7, <1>8 DEF Ended, Q
<1>14. LatticeOK'
  <2> SUFFICES ASSUME NEW f \in DOMAIN lattice
               PROVE  /\ Listed(wtoken, sorted', f, lattice'[f])
                      /\ \A t \in Range(lattice'[f]) :
                           /\ t \in Live(Q) /\ wtoken[t].end_time = IF f = csf THEN f ELSE f - 1
                           /\ f = csf => wtoken[t].end_node = EndNode
    BY <1>1, <1>10 DEF LatticeOK, EndTime, Q
  <2>1. \A t \in Range(lattice[f]) :
          /\ t \in Live(P) /\ wtoken[t].end_time = IF f = csf THEN f ELSE f - 1
          /\ f = csf => wtoken[t].end_node = EndNode
    BY <1>1, <1>2 DEF LatticeOK, EndTime, P
  <2> QED BY <2>1, <1>7, <1>9
<1>15. Idle' /\ InBegin(R)' /\ Running'
  BY <1>1 DEF Idle, InBegin, Running
<1> QED BY <1>11, <1>12, <1>13, <1>14, <1>15 DEF SearchOK

(* The invariants. *)

(* Every step keeps the inductive invariant. *)
LEMMA NextOK ==
  ASSUME NEW R, Within(R), SearchOK(R), [Next]_vars
  PROVE  SearchOK(R)'
<1>1. CASE Begin
  BY <1>1, BeginOK
<1>2. CASE EpsilonStep
  BY <1>2, EpsilonStepOK
<1>3. CASE EndFrame
  BY <1>3, EndFrameOK
<1>4. CASE NoMoreFrames
  BY <1>4, NoMoreFramesOK
<1>5. CASE \E score \in Scores, frames \in SUBSET DOMAIN lattice :
             \E chosen \in SUBSET WordsAt(frames) : Observe(score, frames, chosen)
  BY <1>5, ObserveOK
<1>7. CASE TopChoice
  BY <1>7, TopChoiceOK
<1>6. CASE UNCHANGED vars
  <2>1. /\ phase' = phase /\ csf' = csf /\ active' = active /\ nodes' = nodes /\ current' = current
        /\ pq' = pq /\ wtoken' = wtoken /\ freelist' = freelist /\ lattice' = lattice
        /\ sorted' = sorted /\ offers' = offers
    BY <1>6 DEF vars, words
  <2>2. Pending' = Pending
    BY <2>1 DEF Pending
  <2>3. Typed' /\ Flags' /\ Idle' /\ InBegin(R)'
    BY <2>1, <2>2 DEF SearchOK, Typed, Flags, Idle, InBegin
  <2>4. Running' /\ Ended'
    BY <2>1, <2>2 DEF SearchOK, Running, Ended
  <2>5. (phase # "idle" => LatticeOK)'
    BY <2>1, <2>2 DEF SearchOK, LatticeOK, EndTime
  <2> QED BY <2>3, <2>4, <2>5 DEF SearchOK
<1> QED BY <1>1, <1>2, <1>3, <1>4, <1>5, <1>6, <1>7 DEF Next

(* The inductive invariant holds of every behaviour. *)
LEMMA SearchKeeps ==
  ASSUME NEW R, Within(R)
  PROVE  Spec => []SearchOK(R)
<1>1. Init => SearchOK(R)
  BY InitOK
<1>2. SearchOK(R) /\ [Next]_vars => SearchOK(R)'
  BY NextOK
<1> QED BY <1>1, <1>2, PTL DEF Spec

(* The nodes before the first frame. *)
LEMMA SomeWithin == ASSUME WordsWithin PROVE \E R : Within(R)
BY DEF WordsWithin, Within

(* It implies that lists hold tokens and costs are numbers. *)
LEMMA TypeOKHolds ==
  ASSUME NEW R, SearchOK(R)
  PROVE  TypeOK
<1>1. Typed
  BY DEF SearchOK
<1>2. /\ nodes \in Seq(TokenOf(Nil)) /\ pq \in Seq(Wtokens) /\ freelist \in Seq(Wtokens)
      /\ wtoken \in [Wtokens -> Word]
  BY <1>1, PendingTypes, StepsTypes DEF Typed
<1>3. ASSUME NEW i \in DOMAIN active
      PROVE  active[i].arc \in DOMAIN Arcs /\ active[i].cost \in 0 .. PruneDelta - 1
  <2>1. active[i] \in PathOf(Nil) /\ active[i].cost < PruneDelta
    BY <1>1, SeqFun DEF Typed
  <2>2. active[i].arc \in DOMAIN Arcs /\ active[i].cost \in Nat
    BY <2>1 DEF PathOf, ModelArcs
  <2> QED BY <2>1, <2>2, SearchAssumption
<1>4. \A i \in DOMAIN nodes : nodes[i].node \in NodeIds /\ nodes[i].cost \in Nat
  <2>1. \A i \in DOMAIN nodes : nodes[i] \in TokenOf(Nil)
    BY <1>2, SeqFun
  <2> QED BY <2>1 DEF TokenOf
<1>5. \A t \in Wtokens : /\ wtoken[t].word \in Labels /\ wtoken[t].end_time \in 0 .. MaxFrames
                         /\ wtoken[t].backtrace \in Wtokens \cup {None}
  BY <1>2, WordTypes DEF Nil
<1>6. sorted \subseteq DOMAIN lattice
  BY <1>1 DEF Typed
<1> QED BY <1>1, <1>2, <1>3, <1>4, <1>5, <1>6 DEF TypeOK, Typed

(* Whoever will still read a word reads one that is not in the pool. *)
LEMMA InUseLives ==
  ASSUME NEW R, SearchOK(R)
  PROVE  /\ InUse \subseteq Live(Pending) /\ (phase = "idle" => InUse = {})
         /\ phase # "idle" => \E n \in Nat : PoolOK(Pending, n)
<1> DEFINE P == Pending
           going == Only(nodes, {tok \in Range(nodes) : tok.cost < MAXcostdata})
           ofPaths == IF phase = "ended" THEN {} ELSE TracedBy(active) \cup TracedBy(going)
           queued == IF phase = "epsilon" \/ csf > 0 THEN Range(pq) ELSE {}
           S == (ofPaths \cup queued \cup InLattice) \ {None}
<1>1. Typed /\ Idle /\ InBegin(R) /\ Running /\ Ended
  BY DEF SearchOK
<1>2. /\ P \in Steps /\ csf \in Nat
      /\ P.nodes = nodes /\ P.pq = pq /\ P.wtoken = wtoken /\ P.freelist = freelist
  BY <1>1, SearchAssumption, PendingTypes DEF Typed
<1>3. nodes \in Seq(TokenOf(Nil))
  BY <1>2, StepsTypes
<1>4. InUse = Trace(wtoken, S)
  BY Zenon DEF InUse
<1> HIDE DEF P
<1>5. CASE phase = "idle"
  <2>1. csf = 0 /\ active = <<>> /\ nodes = <<>> /\ \A f \in DOMAIN lattice : lattice[f] = <<>>
    BY <1>1, <1>5 DEF Idle
  <2>2. Range(nodes) = {} /\ \A f \in DOMAIN lattice : Range(lattice[f]) = {}
    BY <2>1 DEF Range
  <2>3. InLattice = {}
    BY <2>2 DEF InLattice, WordsAt
  <2>4. TracedBy(<<>>) = {}
    BY DEF TracedBy
  <2>5. going = <<>>
    <3> DEFINE list == going
    <3>1. going \in Seq(TokenOf(Nil)) /\ Range(going) = {}
      <4> DEFINE G == {tok \in Range(nodes) : tok.cost < MAXcostdata}
      <4> HIDE DEF G
      <4>1. Only(nodes, G) \in Seq(TokenOf(Nil)) /\ Range(Only(nodes, G)) = Range(nodes) \cap G
        BY <1>3, OnlyKeeps
      <4> QED BY <4>1, <2>2 DEF G
    <3> HIDE DEF going
    <3> QED BY <3>1, NothingIn
  <2> HIDE DEF going
  <2>6. S = {}
    BY <2>1, <2>3, <2>4, <2>5, <1>5
  <2>7. Closed(wtoken, {})
    BY DEF Closed
  <2>8. Trace(wtoken, {}) \subseteq {}
    BY <2>7, TraceIs
  <2> QED BY <2>6, <2>8, <1>4, <1>5
<1>6. CASE phase # "idle"
  <2>1. PICK n \in Nat : PoolOK(P, n)
    <3>1. PoolOK(P, csf) \/ PoolOK(P, csf + 1)
      BY <1>1, <1>6 DEF Typed, Running, Ended, P
    <3>2. csf + 1 \in Nat
      BY <1>2
    <3> QED BY <3>1, <3>2, <1>2
  <2>2. InLattice \subseteq Live(P)
    <3>1. \A f \in DOMAIN lattice : Range(lattice[f]) \subseteq Live(P)
      BY <1>6 DEF SearchOK, LatticeOK, P
    <3> QED BY <3>1 DEF InLattice, WordsAt
  <2>3. queued \subseteq Live(P)
    <3>1. phase = "epsilon" => QueueOK(P, csf)
      BY <1>1 DEF Running, P
    <3>2. csf > 0 => phase # "begin"
      BY <1>1, <1>2 DEF InBegin
    <3>3. csf > 0 /\ phase = "ready" => QueueOK(P, csf - 1)
      BY <1>1 DEF Running, P
    <3>4. csf > 0 /\ phase = "ended" => Range(pq) \subseteq Live(P)
      BY <1>1 DEF Ended, P
    <3>5. \A k : QueueOK(P, k) => Range(pq) \subseteq Live(P)
      BY <1>2 DEF QueueOK
    <3> QED BY <3>1, <3>2, <3>3, <3>4, <3>5, <1>1, <1>6 DEF Typed
  <2>4. ofPaths \subseteq Live(P) \cup {None}
    <3>1. CASE phase = "ended"
      BY <3>1
    <3>2. CASE phase # "ended"
      <4>1. NodesOK(P, csf) /\ active \in Seq(PathOf(Until(P, csf)))
        BY <3>2, <1>1, <1>6 DEF Typed, Running, P
      <4>2. Until(P, csf) \subseteq Live(P) \cup {None}
        BY DEF Until
      <4>3. TracedBy(active) \subseteq Live(P) \cup {None}
        BY <4>1, <4>2, TracedPaths
      <4> DEFINE G == {tok \in Range(nodes) : tok.cost < MAXcostdata}
      <4>4. going \in Seq(TokenOf(Nil)) /\ Range(going) = G
        <5> HIDE DEF G
        <5>1. Only(nodes, G) \in Seq(TokenOf(Nil)) /\ Range(Only(nodes, G)) = Range(nodes) \cap G
          BY <1>3, OnlyKeeps
        <5> QED BY <5>1 DEF G
      <4> HIDE DEF going
      <4>5. \A x \in Range(going) : /\ x.bt \in Live(P) \cup {None}
                                    /\ \A k \in DOMAIN x.alts : x.alts[k].bt \in Live(P) \cup {None}
        <5> SUFFICES ASSUME NEW x \in Range(going)
                     PROVE  /\ x.bt \in Live(P) \cup {None}
                            /\ \A k \in DOMAIN x.alts : x.alts[k].bt \in Live(P) \cup {None}
          OBVIOUS
        <5>1. x \in Range(nodes) /\ x.cost < MAXcostdata
          BY <4>4
        <5>2. NodeOK(P, csf, x)
          BY <5>1, <4>1, <1>2, NodesAre
        <5>3. x.bt \in Live(P) \cup {None} /\ x.alts \in AltsOf(Until(P, csf))
          BY <5>1, <5>2 DEF NodeOK
        <5> QED BY <5>3, <4>2, AltsTrace
      <4>6. TracedBy(going) \subseteq Live(P) \cup {None}
        <5>1. \A i \in DOMAIN going : going[i] \in Range(going)
          BY DEF Range
        <5> QED BY <5>1, <4>5 DEF TracedBy
      <4> QED BY <4>3, <4>6, <3>2
    <3> QED BY <3>1, <3>2
  <2> HIDE DEF queued, ofPaths
  <2>5. S \in SUBSET Live(P)
    BY <2>2, <2>3, <2>4
  <2>6. Live(P) \in SUBSET Wtokens /\ Closed(wtoken, Live(P))
    BY <2>1, <1>2, LiveClosed
  <2> HIDE DEF S
  <2>7. Trace(wtoken, S) \subseteq Live(P)
    BY <2>5, <2>6, TraceIs
  <2> QED BY <2>1, <2>7, <1>4, <1>6 DEF P
<1> QED BY <1>5, <1>6

(* It implies that no word in use is in the pool. *)
LEMMA NoFreedWordInUseHolds ==
  ASSUME NEW R, SearchOK(R)
  PROVE  NoFreedWordInUse
<1>1. InUse \cap Range(freelist) = {}
  BY InUseLives, PendingTypes DEF Live
<1>2. IsInjective(freelist)
  <2>1. CASE phase # "idle"
    BY <2>1, InUseLives, PendingTypes DEF PoolOK
  <2>2. CASE phase = "idle"
    <3>1. freelist = <<>>
      BY <2>2 DEF SearchOK, Idle
    <3> QED BY <3>1 DEF IsInjective
  <2> QED BY <2>1, <2>2
<1> QED BY <1>1, <1>2 DEF NoFreedWordInUse

(* It implies that backtraces lead back in time. *)
LEMMA BacktracesDescendHolds ==
  ASSUME NEW R, SearchOK(R)
  PROVE  BacktracesDescend
<1> SUFFICES ASSUME NEW t \in InUse, wtoken[t].backtrace # None
             PROVE  wtoken[wtoken[t].backtrace].end_time < wtoken[t].end_time
  BY DEF BacktracesDescend, EndTime
<1>1. phase # "idle" /\ t \in Live(Pending)
  BY InUseLives
<1>2. PICK n \in Nat : PoolOK(Pending, n)
  BY <1>1, InUseLives
<1>3. Pending \in Steps
  BY DEF SearchOK, Typed
<1> QED BY <1>1, <1>2, <1>3, PoolIs, PendingTypes

(* It implies that the lattice is in order. *)
LEMMA LatticeInOrderHolds ==
  ASSUME NEW R, SearchOK(R)
  PROVE  LatticeInOrder
<1>1. Typed /\ Idle
  BY DEF SearchOK
<1> SUFFICES ASSUME NEW f \in DOMAIN lattice
             PROVE  LET list == lattice[f]
                        cost(i) == wtoken[list[i]].cost
                        last == phase = "ended" /\ f = csf
                    IN  /\ IsInjective(list) /\ Len(list) <= MaxInQ
                        /\ \A i \in DOMAIN list :
                             /\ EndTime(list[i]) = IF last THEN f ELSE f - 1
                             /\ last => wtoken[list[i]].end_node = EndNode
                             /\ i > 1 /\ f \in sorted => cost(i - 1) <= cost(i)
                             /\ i > 1 /\ f \notin sorted => cost(i - 1) >= cost(i)
  BY Zenon DEF LatticeInOrder
<1> DEFINE list == lattice[f]
<1>2. Len(list) \in Nat /\ DOMAIN list = 1 .. Len(list)
  BY <1>1, SeqFun DEF Typed
<1>3. CASE phase = "idle"
  <2>1. list = <<>>
    BY <1>1, <1>3 DEF Idle
  <2> QED BY <2>1, <1>3, SearchAssumption DEF IsInjective
<1>4. CASE phase # "idle"
  <2>1. /\ Listed(wtoken, sorted, f, list)
        /\ \A t \in Range(list) :
             /\ EndTime(t) = IF phase = "ended" /\ f = csf THEN f ELSE f - 1
             /\ phase = "ended" /\ f = csf => wtoken[t].end_node = EndNode
    BY <1>4 DEF SearchOK, LatticeOK
  <2> HIDE DEF list
  <2>2. /\ IsInjective(list) /\ Len(list) <= MaxInQ
        /\ f \in sorted =>
             \A i, j \in DOMAIN list : i < j => wtoken[list[i]].cost <= wtoken[list[j]].cost
        /\ f \notin sorted =>
             \A i, j \in DOMAIN list : i < j => wtoken[list[i]].cost >= wtoken[list[j]].cost
    BY <2>1 DEF Listed, Climbs, InOrder
  <2>3. \A i \in DOMAIN list : list[i] \in Range(list)
    BY DEF Range
  <2>4. \A i \in DOMAIN list : i > 1 => i - 1 \in DOMAIN list /\ i - 1 < i
    BY <1>2
  <2> QED BY <2>1, <2>2, <2>3, <2>4 DEF list
<1> QED BY <1>3, <1>4

LeastOf(offered, h) == Min({o[2] : o \in {x \in offered : x[1] = h}})

EndsOf(s) == {o[1] : o \in s.offers}

QueuedOf(s) == {HistoryOf(s.wtoken, t) : t \in Range(s.pq)}

(* A word end was offered at its least cost, and at no other that is less. *)
LEMMA LeastIs ==
  ASSUME NEW s \in Steps, NEW h \in EndsOf(s)
  PROVE  /\ LeastOf(s.offers, h) \in Nat
         /\ <<h, LeastOf(s.offers, h)>> \in s.offers
         /\ \A o \in s.offers : o[1] = h => LeastOf(s.offers, h) <= o[2]
<1> DEFINE S == {o[2] : o \in {x \in s.offers : x[1] = h}}
<1>1. s.offers \in SUBSET (Histories \X Nat)
  BY DEF Steps
<1>2. S \in SUBSET Nat
  BY <1>1
<1>3. S # {}
  BY DEF EndsOf
<1> HIDE DEF S
<1>4. Min(S) \in S /\ \A x \in S : Min(S) <= x
  BY <1>2, <1>3, MinIn
<1>5. LeastOf(s.offers, h) = Min(S)
  BY Zenon DEF LeastOf, S
<1> DEFINE m == Min(S)
<1>6. m \in Nat
  BY <1>2, <1>4
<1> HIDE DEF m
<1>7. PICK o \in s.offers : o[1] = h /\ o[2] = m
  BY <1>4 DEF S, m
<1>8. o = <<h, m>>
  BY <1>7, <1>1
<1>9. \A x \in s.offers : x[1] = h => x[2] \in S
  BY DEF S
<1> QED BY <1>4, <1>5, <1>6, <1>7, <1>8, <1>9 DEF m

(* The words of a queue that keeps what was offered are as many as their   *)
(* histories, and these were offered, each at the cost of its word least.  *)
LEMMA QueuedAre ==
  ASSUME NEW s \in Steps, Ordered(s, s.pq), Keeps(s)
  PROVE  /\ QueuedOf(s) \subseteq EndsOf(s) /\ IsFiniteSet(QueuedOf(s))
         /\ Cardinality(QueuedOf(s)) = Len(s.pq)
         /\ \A t \in Range(s.pq) : s.wtoken[t].cost = LeastOf(s.offers, HistoryOf(s.wtoken, t))
<1> DEFINE n == Len(s.pq)
           Q == QueuedOf(s)
           of == [i \in 1 .. n |-> HistoryOf(s.wtoken, s.pq[i])]
<1>1. /\ s.pq \in Seq(Wtokens) /\ s.wtoken \in [Wtokens -> Word] /\ IsInjective(s.pq)
      /\ s.offers \in SUBSET (Histories \X Nat)
  BY DEF Steps, Ordered, InOrder
<1>2. n \in Nat /\ DOMAIN s.pq = 1 .. n
  BY <1>1
<1>3. \A t \in Range(s.pq) : <<HistoryOf(s.wtoken, t), s.wtoken[t].cost>> \in s.offers
  BY DEF Keeps
<1>4. Q \subseteq EndsOf(s)
  <2> SUFFICES ASSUME NEW t \in Range(s.pq) PROVE HistoryOf(s.wtoken, t) \in EndsOf(s)
    BY DEF QueuedOf
  <2> DEFINE o == <<HistoryOf(s.wtoken, t), s.wtoken[t].cost>>
  <2>1. o \in s.offers /\ o[1] = HistoryOf(s.wtoken, t)
    BY <1>3
  <2> HIDE DEF o
  <2> QED BY <2>1 DEF EndsOf
<1>5. IsFiniteSet(Q) /\ Cardinality(Q) = n
  <2> HIDE DEF n
  <2>1. \A i \in 1 .. n : s.pq[i] \in Range(s.pq)
    BY <1>2 DEF Range
  <2>2. \A i, j \in 1 .. n : of[i] = of[j] => i = j
    <3> SUFFICES ASSUME NEW i \in 1 .. n, NEW j \in 1 .. n, of[i] = of[j] PROVE i = j
      OBVIOUS
    <3>1. HistoryOf(s.wtoken, s.pq[i]) = HistoryOf(s.wtoken, s.pq[j])
      OBVIOUS
    <3>2. s.pq[i] = s.pq[j]
      BY <3>1, <2>1 DEF Keeps
    <3> QED BY <3>2, <1>1, <1>2 DEF IsInjective
  <2>3. of \in [1 .. n -> Q]
    BY <2>1 DEF QueuedOf
  <2>4. \A h \in Q : \E i \in 1 .. n : of[i] = h
    <3> SUFFICES ASSUME NEW t \in Range(s.pq)
                 PROVE  \E i \in 1 .. n : of[i] = HistoryOf(s.wtoken, t)
      BY DEF QueuedOf
    <3>1. PICK i \in 1 .. n : s.pq[i] = t
      BY <1>2 DEF Range
    <3> QED BY <3>1
  <2> HIDE DEF of, Q
  <2>5. of \in Bijection(1 .. n, Q)
    BY <2>2, <2>3, <2>4 DEF Bijection, Injection, Surjection, IsInjective
  <2>6. ExistsBijection(1 .. n, Q)
    BY <2>5 DEF ExistsBijection
  <2> QED BY <2>6, <1>2, UpTo, FS_Bijection
<1>6. ASSUME NEW t \in Range(s.pq)
      PROVE  s.wtoken[t].cost = LeastOf(s.offers, HistoryOf(s.wtoken, t))
  <2> DEFINE h == HistoryOf(s.wtoken, t)
             c == s.wtoken[t].cost
             m == LeastOf(s.offers, h)
  <2>1. h \in EndsOf(s)
    BY <1>4 DEF QueuedOf
  <2>2. t \in Wtokens
    BY <1>1, <1>2 DEF Range
  <2>3. c \in Nat
    BY <2>2, <1>1 DEF Word
  <2>4. <<h, c>> \in s.offers
    BY <1>3
  <2> HIDE DEF h
  <2>5. m \in Nat /\ <<h, m>> \in s.offers /\ \A o \in s.offers : o[1] = h => m <= o[2]
    BY <2>1, LeastIs
  <2> HIDE DEF c, m
  <2>6. m <= c
    BY <2>4, <2>5
  <2> DEFINE o == <<h, m>>
  <2>7. o \in s.offers /\ o[1] = h /\ o[2] = m
    BY <2>5
  <2> HIDE DEF o
  <2>8. \/ \E u \in Range(s.pq) : HistoryOf(s.wtoken, u) = h /\ s.wtoken[u].cost <= m
        \/ \A u \in Range(s.pq) : HistoryOf(s.wtoken, u) # h
    BY <2>7, Zenon DEF Keeps
  <2>9. PICK u \in Range(s.pq) : HistoryOf(s.wtoken, u) = h /\ s.wtoken[u].cost <= m
    BY <2>8 DEF h
  <2>10. u = t
    BY <2>9 DEF Keeps, h
  <2> QED BY <2>3, <2>5, <2>6, <2>9, <2>10 DEF c, m, h
<1> QED BY <1>4, <1>5, <1>6

(* A queue with room has all that was offered; of one that is full,        *)
(* nothing left out is cheaper than what is in.                            *)
LEMMA LeftOutAre ==
  ASSUME NEW s \in Steps, Ordered(s, s.pq), Keeps(s), NEW h \in EndsOf(s), h \notin QueuedOf(s)
  PROVE  /\ Len(s.pq) = MaxInQ
         /\ \A t \in Range(s.pq) : LeastOf(s.offers, h) >= s.wtoken[t].cost
<1> DEFINE m == LeastOf(s.offers, h)
           o == <<h, m>>
<1>1. m \in Nat /\ o \in s.offers /\ o[1] = h /\ o[2] = m
  BY LeastIs
<1> HIDE DEF m, o
<1>2. \A t \in Range(s.pq) : HistoryOf(s.wtoken, t) # h
  BY DEF QueuedOf
<1>3. /\ Len(s.pq) = MaxInQ
      /\ \A t \in Range(s.pq) : s.wtoken[t].cost <= m
  BY <1>1, <1>2, Zenon DEF Keeps
<1>4. \A t \in Range(s.pq) : s.wtoken[t].cost \in Nat
  <2> SUFFICES ASSUME NEW t \in Range(s.pq) PROVE s.wtoken[t].cost \in Nat
    OBVIOUS
  <2>1. s.pq \in Seq(Wtokens) /\ s.wtoken \in [Wtokens -> Word]
    BY DEF Steps
  <2>2. t \in Wtokens
    BY <2>1 DEF Range
  <2> QED BY <2>1, <2>2 DEF Word
<1> QED BY <1>1, <1>3, <1>4 DEF m

(* The histories offered are finitely many. *)
LEMMA EndsFinite ==
  ASSUME NEW s \in Steps, IsFiniteSet(s.offers)
  PROVE  IsFiniteSet(EndsOf(s)) /\ Cardinality(EndsOf(s)) \in Nat
<1> DEFINE first == [o \in s.offers |-> o[1]]
           E == EndsOf(s)
<1>1. first \in [s.offers -> E] /\ \A h \in E : \E o \in s.offers : first[o] = h
  BY DEF EndsOf
<1> HIDE DEF first, E
<1>2. first \in Surjection(s.offers, E)
  BY <1>1 DEF Surjection
<1>3. IsFiniteSet(E)
  BY <1>2, FS_Surjection
<1> QED BY <1>3, FS_CardinalityType DEF E

(* The lesser of two. *)
LEMMA LessOf ==
  ASSUME NEW a \in Nat, NEW b \in Nat
  PROVE  (a <= b => Min({a, b}) = a) /\ (b <= a => Min({a, b}) = b)
<1> DEFINE S == {a, b}
<1>1. S \in SUBSET Nat /\ S # {} /\ a \in S /\ b \in S /\ \A x \in S : x = a \/ x = b
  OBVIOUS
<1> HIDE DEF S
<1>2. Min(S) \in S /\ \A x \in S : Min(S) <= x
  BY <1>1, MinIn
<1> DEFINE m == Min(S)
<1>3. (m = a \/ m = b) /\ m <= a /\ m <= b
  BY <1>1, <1>2
<1> HIDE DEF m
<1>4. (a <= b => m = a) /\ (b <= a => m = b)
  BY <1>3
<1> QED BY <1>4 DEF m, S

(* The queue is as long as its limit and the offers allow. *)
LEMMA AsLongAsCan ==
  ASSUME NEW s \in Steps, Ordered(s, s.pq), Keeps(s)
  PROVE  Len(s.pq) = Min({MaxInQ, Cardinality(EndsOf(s))})
<1> DEFINE n == Len(s.pq)
           c == Cardinality(EndsOf(s))
<1>1. /\ QueuedOf(s) \subseteq EndsOf(s) /\ Cardinality(QueuedOf(s)) = n
      /\ IsFiniteSet(EndsOf(s)) /\ c \in Nat
  BY QueuedAre, EndsFinite DEF Keeps
<1>2. n <= c
  BY <1>1, FS_Subset
<1>3. n \in Nat /\ n <= MaxInQ /\ MaxInQ \in Nat
  BY SearchAssumption DEF Ordered, Steps
<1>4. n = MaxInQ \/ n = c
  <2>1. CASE EndsOf(s) \subseteq QueuedOf(s)
    <3>1. EndsOf(s) = QueuedOf(s)
      BY <2>1, <1>1
    <3> QED BY <3>1, <1>1
  <2>2. CASE ~(EndsOf(s) \subseteq QueuedOf(s))
    <3>1. PICK h \in EndsOf(s) : h \notin QueuedOf(s)
      BY <2>2
    <3> QED BY <3>1, LeftOutAre
  <2> QED BY <2>1, <2>2
<1> HIDE DEF n, c
<1>5. n = Min({MaxInQ, c})
  BY <1>1, <1>2, <1>3, <1>4, LessOf
<1> QED BY <1>5 DEF n, c

(* The inductive invariant implies that the queue keeps the cheapest. *)
LEMMA QueueKeepsCheapestHolds ==
  ASSUME NEW R, SearchOK(R)
  PROVE  QueueKeepsCheapest
<1> SUFFICES ASSUME phase = "epsilon" \/ (phase = "ended" /\ csf > 0 /\ csf \notin sorted)
             PROVE
      LET ends     == {o[1] : o \in offers}
          least(h) == Min({o[2] : o \in {x \in offers : x[1] = h}})
          of(t)    == History(wtoken, wtoken[t].word, wtoken[t].end_node, wtoken[t].backtrace)
          inQ      == {of(t) : t \in Range(pq)}
      IN  /\ Len(pq) = Min({MaxInQ, Cardinality(ends)})
          /\ Cardinality(inQ) = Len(pq)
          /\ \A t \in Range(pq) : /\ of(t) \in ends /\ wtoken[t].cost = least(of(t))
                                  /\ \A h \in ends \ inQ : least(h) >= wtoken[t].cost
  BY Zenon DEF QueueKeepsCheapest
<1> DEFINE s == Pending
<1>1. s \in Steps /\ s.pq = pq /\ s.wtoken = wtoken /\ s.offers = offers
  BY PendingTypes DEF SearchOK, Typed
<1>2. Ordered(s, s.pq) /\ Keeps(s)
  BY DEF SearchOK, Running, Ended, QueueOK
<1> HIDE DEF s
<1>3. /\ Len(s.pq) = Min({MaxInQ, Cardinality(EndsOf(s))})
      /\ Cardinality(QueuedOf(s)) = Len(s.pq)
      /\ \A t \in Range(s.pq) :
           /\ HistoryOf(s.wtoken, t) \in EndsOf(s)
           /\ s.wtoken[t].cost = LeastOf(s.offers, HistoryOf(s.wtoken, t))
           /\ \A h \in EndsOf(s) \ QueuedOf(s) : LeastOf(s.offers, h) >= s.wtoken[t].cost
  <2>1. \A t \in Range(s.pq) : HistoryOf(s.wtoken, t) \in QueuedOf(s)
    BY DEF QueuedOf
  <2> QED BY <1>1, <1>2, <2>1, QueuedAre, LeftOutAre, AsLongAsCan
<1>4. EndsOf(s) = {o[1] : o \in offers}
  BY <1>1, Zenon DEF EndsOf
<1>5. QueuedOf(s) = {History(wtoken, wtoken[t].word, wtoken[t].end_node, wtoken[t].backtrace) : t \in Range(pq)}
  BY <1>1, Zenon DEF QueuedOf, HistoryOf
<1>6. \A t : HistoryOf(s.wtoken, t) = History(wtoken, wtoken[t].word, wtoken[t].end_node, wtoken[t].backtrace)
  BY <1>1, Zenon DEF HistoryOf
<1>7. \A h : LeastOf(s.offers, h) = Min({o[2] : o \in {x \in offers : x[1] = h}})
  BY <1>1, Zenon DEF LeastOf
<1> DEFINE ends     == {o[1] : o \in offers}
           least(h) == Min({o[2] : o \in {x \in offers : x[1] = h}})
           of(t)    == History(wtoken, wtoken[t].word, wtoken[t].end_node, wtoken[t].backtrace)
           inQ      == {of(t) : t \in Range(pq)}
<1>8. ends = EndsOf(s) /\ inQ = QueuedOf(s)
  BY <1>4, <1>5, Zenon
<1>9. \A t : of(t) = HistoryOf(s.wtoken, t)
  BY <1>6, Zenon
<1>10. \A h : least(h) = LeastOf(s.offers, h)
  BY <1>7, Zenon
<1> HIDE DEF ends, least, of, inQ
<1>11. /\ Len(pq) = Min({MaxInQ, Cardinality(ends)})
       /\ Cardinality(inQ) = Len(pq)
       /\ \A t \in Range(pq) : /\ of(t) \in ends /\ wtoken[t].cost = least(of(t))
                               /\ \A h \in ends \ inQ : least(h) >= wtoken[t].cost
  BY <1>1, <1>3, <1>8, <1>9, <1>10
<1> QED BY <1>11, Zenon DEF ends, least, of, inQ

-----------------------------------------------------------------------------
(* The theorems. *)

(* The inductive invariant: who holds which word token, when the words of   *)
(* the pool ended, what the queue has been offered, what is at a node, and  *)
(* which lists of the lattice are sorted, all of frames that are over.      *)
THEOREM SearchInvariant ==
  ASSUME WordsWithin
  PROVE  \E R \in SUBSET NodeIds : Silent(R) /\ (Spec => []SearchOK(R))
<1>1. PICK R \in SUBSET NodeIds : Silent(R)
  BY DEF WordsWithin
<1>2. Within(R)
  BY <1>1 DEF Within, WordsWithin
<1>3. Spec => []SearchOK(R)
  BY <1>2, SearchKeeps
<1> QED BY <1>1, <1>3

(* Every list of the search holds tokens and every cost is a number, that of   *)
(* a path less than the beam is wide, whatever is merged, pruned or pushed.    *)
THEOREM SearchTypeCorrect == ASSUME WordsWithin PROVE Spec => []TypeOK
<1>1. PICK R : Within(R)
  BY SomeWithin
<1>2. Spec => []SearchOK(R)
  BY <1>1, SearchKeeps
<1>3. SearchOK(R) => TypeOK
  BY TypeOKHolds
<1> QED BY <1>2, <1>3, PTL

(* What the paths, the queue and the lattice trace back to is not in the    *)
(* pool, and nothing is in it twice: a word the queue pushes out in the     *)
(* middle of a frame is no word that a path has gone on from.  (Free, Block *)
(* and Kept: free_word_token, block_fsmnodes_per_backtrace,                 *)
(* reprune_word_tokens)                                                     *)
THEOREM NoWordFreedTooSoon == ASSUME WordsWithin PROVE Spec => []NoFreedWordInUse
<1>1. PICK R : Within(R)
  BY SomeWithin
<1>2. Spec => []SearchOK(R)
  BY <1>1, SearchKeeps
<1>3. SearchOK(R) => NoFreedWordInUse
  BY NoFreedWordInUseHolds
<1> QED BY <1>2, <1>3, PTL

(* A word ended after the word it traces back to, so that backtraces end,   *)
(* with tokens freed and filled in again as the frames go on.               *)
(* (srec_process_word_boundary_nbest)                                       *)
THEOREM BacktracesLeadBack == ASSUME WordsWithin PROVE Spec => []BacktracesDescend
<1>1. PICK R : Within(R)
  BY SomeWithin
<1>2. Spec => []SearchOK(R)
  BY <1>1, SearchKeeps
<1>3. SearchOK(R) => BacktracesDescend
  BY BacktracesDescendHolds
<1> QED BY <1>2, <1>3, PTL

(* The queue holds one word for each history offered in the frame, at its   *)
(* least cost, as many as its limit allows, and nothing left out is         *)
(* cheaper, in whatever order they were offered.                            *)
(* (add_word_token_to_priority_q)                                           *)
THEOREM QueueKeepsTheCheapest == ASSUME WordsWithin PROVE Spec => []QueueKeepsCheapest
<1>1. PICK R : Within(R)
  BY SomeWithin
<1>2. Spec => []SearchOK(R)
  BY <1>1, SearchKeeps
<1>3. SearchOK(R) => QueueKeepsCheapest
  BY QueueKeepsCheapestHolds
<1> QED BY <1>2, <1>3, PTL

(* The lattice of every frame lists words that ended with the frame before  *)
(* it, each once, the worst first, whatever was freed since.                *)
(* (lattice_add_word_tokens, free_word_token_from_lattice)                  *)
THEOREM LatticeKeepsOrder == ASSUME WordsWithin PROVE Spec => []LatticeInOrder
<1>1. PICK R : Within(R)
  BY SomeWithin
<1>2. Spec => []SearchOK(R)
  BY <1>1, SearchKeeps
<1>3. SearchOK(R) => LatticeInOrder
  BY LatticeInOrderHolds
<1> QED BY <1>2, <1>3, PTL
=============================================================================
