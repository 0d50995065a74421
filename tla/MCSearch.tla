------------------------------ MODULE MCSearch ------------------------------
EXTENDS Search

\* A word with two pronunciations and another word meet at node 1; the other
\* word also ends in node 5, at a boundary of its own; epsilons to the silence
\* before the end, and a word too short to have a frame.
Arc(from, to, ilabel, olabel, cost) ==
  [from |-> from, to |-> to, ilabel |-> ilabel, olabel |-> olabel, cost |-> cost]

MCArcs == << Arc(0, 1, "a", "yes", 0), Arc(0, 1, "b", "yes", 0), Arc(0, 5, "b", "no", 0),
             Arc(1, 2, "boundary", Epsilon, 0), Arc(5, 6, "boundary", Epsilon, 0),
             Arc(2, 1, "a", "yes", 0), Arc(2, 1, "b", "no", 0), Arc(6, 5, "b", "no", 1),
             Arc(2, 4, "epsilon", Epsilon, 2), Arc(6, 4, "epsilon", Epsilon, 1),
             Arc(4, 2, "boundary", "uh", 0),
             Arc(4, 3, "s", "pau", 0), Arc(4, 3, "b", "bye", 0) >>

MCScores == {("a" :> 0 @@ "b" :> 0 @@ "s" :> 0), ("a" :> 1 @@ "b" :> 0 @@ "s" :> 0),
             ("a" :> 1 @@ "b" :> 0 @@ "s" :> 1),
             ("a" :> 0 @@ "b" :> 2 @@ "s" :> 1)}

\* No word ends before the first frame, and none goes on from the end.
ASSUME WordsWithin
=============================================================================
