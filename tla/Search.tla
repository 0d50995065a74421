------------------------------- MODULE Search -------------------------------
(***************************************************************************)
(* The word level of the Viterbi search (srec.c), with the queue of word   *)
(* ends (priority_q.c), the word lattice (word_lattice.c) and the pool of  *)
(* word tokens (srec_tokens.c).                                            *)
(*                                                                         *)
(* A path through the grammar is a token on an arc or, between frames, on  *)
(* a node.  At a word boundary it leaves a word token: the word, the frame *)
(* it ended at, and the word before it.  Word tokens come from a pool, are *)
(* queued by cost, go to the lattice of the frame, and are taken back to   *)
(* the pool while paths and other words may still trace back to them.      *)
(*                                                                         *)
(* Here an arc is a model of one state, nodes, arcs and alternatives have  *)
(* tokens enough, and duration penalties are zero.                         *)
(***************************************************************************)
EXTENDS Integers, Sequences, FiniteSets, SequencesExt, FiniteSetsExt

CONSTANTS Arcs,          \* FSMarc_list: [from, to, ilabel, olabel, cost]
          StartNode, EndNode,
          Models,        \* ilabels of the arcs that are models
          Scores,        \* bound: the model scores a frame may have
          PruneDelta, NumWtokens, MaxInQ,
          MaxFrames,     \* frames of the lattice
          MAXcostdata,
          Epsilon,       \* WORD_EPSILON_LABEL
          None           \* MAXwtokenID and MAXwordID

ASSUME SearchAssumption ==
  /\ {PruneDelta, NumWtokens, MaxInQ, MaxFrames, MAXcostdata} \subseteq Nat \ {0}
  /\ MAXcostdata > 4 * PruneDelta

VARIABLES phase,      \* "idle", "begin", "epsilon" in a frame, "ready" between, "ended"
          csf,        \* current_search_frame
          active,     \* active_fsmarc_tokens, newest first
          nodes,      \* active_fsmnode_tokens, in the order of the list
          current,    \* the node whose epsilon arcs are next, or None
          pq,         \* word_priority_q: word tokens, the worst first
          wtoken,     \* word_token_array
          freelist,   \* word_token_freelist
          lattice,    \* words_for_frame
          sorted,     \* whether_sorted: the frames flagged
          offers      \* history: the word ends offered in this frame

words == <<pq, wtoken, freelist>>
vars == <<phase, csf, active, nodes, current, words, lattice, sorted, offers>>

Wtokens == 0 .. NumWtokens - 1
NodeIds == {Arcs[a].from : a \in DOMAIN Arcs} \cup {Arcs[a].to : a \in DOMAIN Arcs}
Labels == {Arcs[a].olabel : a \in DOMAIN Arcs} \cup {Epsilon, None}

ASSUME GrammarAssumption ==
  /\ Arcs \in Seq([from : NodeIds, to : NodeIds, ilabel : Models \cup {"boundary", "epsilon"},
                   olabel : Labels, cost : Nat])
  /\ {"boundary", "epsilon"} \cap Models = {} /\ Scores \subseteq [Models -> Nat]
  /\ StartNode \in NodeIds /\ None \notin NodeIds \cup Wtokens

(* No word ends before the first frame: R holds the nodes that epsilons     *)
(* lead to from the start, and no boundary leaves them.                     *)
Silent(R) ==
  /\ StartNode \in R
  /\ \A a \in DOMAIN Arcs : Arcs[a].from \in R =>
       Arcs[a].ilabel # "boundary" /\ (Arcs[a].ilabel = "epsilon" => Arcs[a].to \in R)

(* The words of a grammar lie within it: none ends before the first frame,  *)
(* and none goes on from the end.                                           *)
WordsWithin ==
  /\ \E R \in SUBSET NodeIds : Silent(R)
  /\ \A a \in DOMAIN Arcs : Arcs[a].ilabel = "boundary" => Arcs[a].from # EndNode

(* The elements of a list that are in S, in their order. *)
Only(list, S) ==
  FoldLeft(LAMBDA kept, x : IF x \in S THEN Append(kept, x) ELSE kept, <<>>, list)

Map(op(_), list) == [i \in DOMAIN list |-> op(list[i])]

(* How many of a list of costs come before the one at k when they are      *)
(* sorted, the earlier first of those that are equal.                      *)
Rank(costs, k) ==
  Cardinality({j \in DOMAIN costs : costs[j] < costs[k] \/ (costs[j] = costs[k] /\ j < k)})

(* Where the r-th cheapest is. *)
Nth(costs, r) == CHOOSE k \in DOMAIN costs : Rank(costs, k) = r - 1

Leaving(node, kinds) ==
  Only([a \in DOMAIN Arcs |-> a],
       {a \in DOMAIN Arcs : Arcs[a].from = node /\ Arcs[a].ilabel \in kinds})

IndexOf(list, node) == SelectInSeq(list, LAMBDA x : x.node = node)

Killed == [word |-> None, end_time |-> MaxFrames, end_node |-> None,
           backtrace |-> None, cost |-> MAXcostdata]

EndTime(t) == wtoken[t].end_time

(* What the tokens of a set trace back to, themselves included: the least  *)
(* set that holds them and what each of its tokens traces back to.         *)
Closed(toks, C) == \A t \in C : toks[t].backtrace \in C \cup {None}

Trace(toks, S) == {t \in Wtokens : \A C \in SUBSET Wtokens : S \subseteq C /\ Closed(toks, C) => t \in C}
-----------------------------------------------------------------------------
(* The queue of word ends. *)

(* compare_histories *)
SameHistory(toks, s, t) ==
  LET x == toks[s].backtrace
      y == toks[t].backtrace
  IN  /\ toks[s].word = toks[t].word /\ toks[s].end_node = toks[t].end_node
      /\ (x = None) <=> (y = None)
      /\ x # None => /\ toks[x].word = toks[y].word
                     /\ toks[x].end_time = toks[y].end_time

(* max_cost_in_q, which is also the search's current_word_threshold. *)
MaxCostInQ(q, toks) ==
  IF Len(q) >= MaxInQ THEN toks[Head(q)].cost ELSE MAXcostdata

(* Faulty, used by no action: the best first. *)
PlaceReversed(q, toks, t) ==
  LET i == SelectInSeq(q, LAMBDA s : toks[s].cost > toks[t].cost)
  IN  IF i = 0 THEN Len(q) + 1 ELSE i

(* Where a word goes: after those that cost as much. *)
Place(q, toks, t) ==
  LET i == SelectInSeq(q, LAMBDA s : toks[s].cost < toks[t].cost)
  IN  IF i = 0 THEN Len(q) + 1 ELSE i

(* The queue and the token to remove from it, if it has become too long. *)
Shortened(longer) ==
  IF Len(longer) > MaxInQ THEN [q |-> Tail(longer), removed |-> Head(longer)]
  ELSE [q |-> longer, removed |-> None]

(* add_word_token_to_priority_q.  The costlier twin that t replaces is     *)
(* taken off and not removed.                                              *)
Add(q, toks, t) ==
  LET twin(s) == SameHistory(toks, s, t)
  IN  IF \/ toks[t].cost >= MaxCostInQ(q, toks) /\ Len(q) >= MaxInQ
         \/ \E s \in Range(q) : twin(s) /\ toks[s].cost < toks[t].cost
      THEN [q |-> q, removed |-> t]
      ELSE Shortened(Only(InsertAt(q, Place(q, toks, t), t), {t} \cup {s \in Range(q) : ~twin(s)}))

(* free_word_token *)
Free(s, t) == [s EXCEPT !.wtoken[t] = Killed, !.freelist = <<t>> \o @]

(* Faulty, used by no action: the nodes that trace back to it go on. *)
Unblocked(s, t) == s

(* block_fsmnodes_per_backtrace *)
Block(s, t) ==
  [s EXCEPT !.nodes = Map(LAMBDA x : IF x.bt = t THEN [x EXCEPT !.cost = MAXcostdata] ELSE x,
                          s.nodes),
            !.blocked = @ \/ \E i \in DOMAIN s.nodes : s.nodes[i].bt = t]

History(toks, word, node, bt) ==
  <<word, node, IF bt = None THEN <<>> ELSE <<toks[bt].word, toks[bt].end_time>> >>

(* Faulty, used by no action: a word of no frame let through. *)
RefusedIfNoToken(s, bt) == s.freelist = <<>>

Refused(s, bt) == \/ bt # None /\ s.wtoken[bt].end_time >= csf
                  \/ s.freelist = <<>>

Removed(s, t) == IF t = None THEN s ELSE Free(Block(s, t), t)

(* The word token t has been filled in and the queue has answered. *)
Queued(s, t, toks, added, offer) ==
  Removed([s EXCEPT !.wtoken = toks, !.freelist = Tail(@), !.pq = added.q,
                    !.made = IF added.removed = t THEN None ELSE t,
                    !.offers = @ \cup {offer}],
          added.removed)

(* srec_process_word_boundary_nbest: s.made is the word token, or None. *)
WordBoundary(s, node, word, bt, cost) ==
  IF Refused(s, bt) THEN [s EXCEPT !.made = None]
  ELSE LET t    == Head(s.freelist)
           toks == [s.wtoken EXCEPT ![t] = [word |-> word, end_time |-> csf, end_node |-> node,
                                            backtrace |-> bt, cost |-> cost]]
       IN  Queued(s, t, toks, Add(s.pq, toks, t), <<History(toks, word, node, bt), cost>>)

(* An alternative of a node is offered like its word; the nodes blocked     *)
(* meanwhile are counted in a variable of their own, which nobody reads.    *)
Offer(s, tok, w, cost) ==
  [WordBoundary(s, tok.node, w.word, w.bt, cost + w.delta)
     EXCEPT !.blocked = s.blocked, !.made = s.made]

Alternatives(s, tok, cost) ==
  FoldLeft(LAMBDA acc, w : Offer(acc, tok, w, cost), s, tok.alts)
-----------------------------------------------------------------------------
(* The alternatives at a node: sequences of [word, bt, delta]. *)

(* copy_altwords *)
CopyAltwords(alts, delta) ==
  LET later == Map(LAMBDA w : [w EXCEPT !.delta = @ + delta], alts)
  IN  Only(later, {w \in Range(later) : w.delta <= PruneDelta})

(* sizewise_altwords.  Of those that cost as much, whose order qsort leaves *)
(* open, the earlier comes first.                                           *)
Sizewise(alts) ==
  LET target == (MaxInQ * 4) \div 5
  IN  IF target > 0 /\ Len(alts) <= MaxInQ THEN alts
      ELSE [r \in 1 .. target |-> alts[Nth(Map(LAMBDA w : w.delta, alts), r)]]

(* Equal costs: the word before it ended earlier. *)
Preferred(p, tok) ==
  /\ p.cost = tok.cost /\ p.bt # tok.bt /\ p.bt # None
  /\ EndTime(p.bt) < (IF tok.bt = None THEN 0 ELSE EndTime(tok.bt))

(* A path p reaches a node that has a token. *)
Merge(tok, p) ==
  IF p.cost < tok.cost \/ Preferred(p, tok)
  THEN LET d     == tok.cost - p.cost
           older == Sizewise(<<[word |-> tok.word, bt |-> tok.bt, delta |-> d]>>
                             \o Map(LAMBDA w : [w EXCEPT !.delta = @ + d], tok.alts))
       IN  [node |-> tok.node, cost |-> p.cost, word |-> p.word, bt |-> p.bt,
            alts |-> CASE tok.word = None -> tok.alts
                       [] tok.word # None /\ older = <<>> -> <<>>
                       [] OTHER -> Sizewise(older \o CopyAltwords(p.alts, 0))]
  ELSE LET d == p.cost - tok.cost
       IN  [tok EXCEPT !.alts = IF tok.word = None THEN @
                                ELSE Sizewise(@ \o <<[word |-> p.word, bt |-> p.bt, delta |-> d]>>
                                                \o CopyAltwords(p.alts, d))]

(* What comes with a path to a node where no other arc arrives is shared,   *)
(* and else copied.                                                         *)
Arriving(node, alts) ==
  IF Cardinality({a \in DOMAIN Arcs : Arcs[a].to = node}) > 1 THEN CopyAltwords(alts, 0) ELSE alts

(* update_from_hmms_to_fsmnodes *)
FromHmmsToNodes(paths) ==
  LET reach(list, p) ==
        LET node == Arcs[p.arc].to
            i    == IndexOf(list, node)
        IN  IF i = 0
            THEN <<[node |-> node, cost |-> p.cost, word |-> p.word, bt |-> p.bt,
                    alts |-> Arriving(node, p.alts)]>> \o list
            ELSE [list EXCEPT ![i] = Merge(@, p)]
  IN  FoldLeft(reach, <<>>, paths)

(* The path that goes from a node's token into an arc. *)
Entering(tok, a, score) ==
  [arc |-> a, cost |-> tok.cost + score[Arcs[a].ilabel] + Arcs[a].cost,
   word |-> IF Arcs[a].olabel # Epsilon THEN Arcs[a].olabel ELSE tok.word,
   bt |-> tok.bt, alts |-> tok.alts]

(* One path on an arc, the cheaper. *)
Maximize(paths, p) ==
  LET i == SelectInSeq(paths, LAMBDA q : q.arc = p.arc)
  IN  CASE i = 0 -> <<p>> \o paths
        [] i # 0 /\ p.cost < paths[i].cost -> [k \in DOMAIN paths |-> IF k = i THEN p ELSE paths[k]]
        [] OTHER -> paths

EnterArcs(paths, tok, score) ==
  FoldLeft(LAMBDA acc, a : Maximize(acc, Entering(tok, a, score)), paths, Leaving(tok.node, Models))

(* update_internal_hmm_states, then update_from_current_fsm_nodes_into_new_HMMs *)
FromNodesToHmms(score) ==
  FoldLeft(LAMBDA acc, tok : EnterArcs(acc, tok, score),
           Map(LAMBDA p : [p EXCEPT !.cost = @ + score[Arcs[p.arc].ilabel]], active),
           Only(nodes, {tok \in Range(nodes) : tok.node # EndNode /\ tok.cost < MAXcostdata}))

(* Faulty, used by no action: what costs as much as the beam allows kept. *)
PrunedTooLittle(paths) ==
  LET best == IF paths = <<>> THEN 0 ELSE Min({paths[i].cost : i \in DOMAIN paths})
      kept == Only(paths, {p \in Range(paths) : p.cost <= best + PruneDelta})
  IN  Map(LAMBDA p : [p EXCEPT !.cost = @ - best], kept)

(* prune_new_tokens, then reset_best_cost_to_zero *)
Pruned(paths) ==
  LET best == IF paths = <<>> THEN 0 ELSE Min({paths[i].cost : i \in DOMAIN paths})
      kept == Only(paths, {p \in Range(paths) : p.cost < best + PruneDelta})
  IN  Map(LAMBDA p : [p EXCEPT !.cost = @ - best], kept)

TracedBy(toks) ==
  {toks[i].bt : i \in DOMAIN toks}
  \cup UNION {{toks[i].alts[k].bt : k \in DOMAIN toks[i].alts} : i \in DOMAIN toks}

WordsAt(frames) == UNION {Range(lattice[f]) : f \in frames}

InLattice == WordsAt(DOMAIN lattice)

(* bubble sort in sort_word_lattice_at_frame, the cheapest first *)
Sorted(list) ==
  LET costs == Map(LAMBDA t : wtoken[t].cost, list)
  IN  [r \in DOMAIN list |-> list[Nth(costs, r)]]

(* sort_word_lattice_at_frame, of several frames: each is sorted once. *)
SortedAt(frames) ==
  [f \in DOMAIN lattice |-> IF f \in frames \ sorted THEN Sorted(lattice[f]) ELSE lattice[f]]

(* The words of a set that have a word before them. *)
Backed(S) == {t \in S \ {None} : wtoken[t].backtrace # None}

(* The frame where such a word began, whose list has what may come before. *)
Begun(t) == EndTime(wtoken[t].backtrace) + 1

(* astar_stack_do_backwards_search from the words of the paths: it takes   *)
(* one of them first, and any of the words it has come to next, until no   *)
(* more are cheap enough; frames are those whose lists it went through.    *)
Searched(paths, frames) ==
  LET tops == Backed({paths[i].bt : i \in DOMAIN paths})
  IN  /\ frames \subseteq {Begun(t) : t \in tops \cup Backed(WordsAt(frames))}
      /\ tops # {} => \E t \in tops : Begun(t) \in frames

(* reprune_word_tokens_if_necessary: what the paths trace back to is kept, *)
(* and what the words of some paths of the lattice do.                     *)
Kept(paths, chosen) ==
  IF Len(freelist) < 2 * MaxInQ
  THEN Trace(wtoken, (TracedBy(paths) \ {None}) \cup chosen)
  ELSE Wtokens \ Range(freelist)

Unused(kept) == Only([i \in 1 .. NumWtokens |-> i - 1],
                     Wtokens \ (kept \cup Range(freelist)))
-----------------------------------------------------------------------------
Init == /\ phase = "idle" /\ csf = 0
        /\ active = <<>> /\ nodes = <<>> /\ current = None
        /\ pq = <<>> /\ freelist = <<>>
        /\ wtoken = [t \in Wtokens |-> Killed]
        /\ lattice = [f \in 0 .. MaxFrames - 1 |-> <<>>]
        /\ sorted = {} /\ offers = {}

(* Faulty, used by no action: the flags of the utterance before left set. *)
StillFlagged == sorted

(* whether_sorted as initialize_word_lattice leaves it *)
Unflagged == {}

(* srec_begin, up to its do_epsilon_updates.  The queue keeps its head from *)
(* the utterance before and the tokens what they held, of which only the    *)
(* queue's words are remembered here.  The new pool links them anew, which  *)
(* is left out: the first frame empties the queue, and if there is none it  *)
(* is not read.                                                             *)
Begin == /\ phase \in {"idle", "ended"} /\ phase' = "begin"
         /\ csf' = 0 /\ active' = <<>>
         /\ nodes' = <<[node |-> StartNode, cost |-> 0, word |-> None,
                        bt |-> None, alts |-> <<>>]>>
         /\ current' = StartNode
         /\ freelist' = [i \in 1 .. NumWtokens |-> i - 1]
         /\ lattice' = [f \in DOMAIN lattice |-> <<>>]
         /\ sorted' = Unflagged /\ offers' = {}
         /\ wtoken' = [t \in Wtokens |-> IF t \in Range(pq) THEN wtoken[t] ELSE Killed]
         /\ UNCHANGED pq

(* multi_srec_viterbi with one set of models: a frame, up to the epsilons. *)
(* A pool that runs low is repruned, of which the search back through the  *)
(* lattice sorts the lists of the frames it goes through and keeps the     *)
(* words it has chosen from them.                                          *)
Observe(score, frames, chosen) ==
  /\ phase = "ready" /\ phase' = "epsilon"
  /\ csf < MaxFrames - 1
  /\ LET paths == Pruned(FromNodesToHmms(score))
         kept  == Kept(paths, chosen)
     IN  /\ IF Len(freelist) < 2 * MaxInQ THEN Searched(paths, frames) ELSE frames = {}
         /\ active' = paths
         /\ nodes' = FromHmmsToNodes(paths)
         /\ wtoken' = [t \in Wtokens |-> IF t \in Range(Unused(kept)) THEN Killed ELSE wtoken[t]]
         /\ freelist' = Reverse(Unused(kept)) \o freelist
         /\ lattice' = Map(LAMBDA list : Only(list, kept), SortedAt(frames))
  /\ sorted' = sorted \cup frames
  /\ pq' = <<>> /\ offers' = {}
  /\ current' = IF nodes' = <<>> THEN None ELSE nodes'[1].node
  /\ UNCHANGED csf
-----------------------------------------------------------------------------
(* do_epsilon_updates *)

After(list, node) ==
  LET i == IndexOf(list, node)
  IN  IF i = Len(list) THEN None ELSE list[i + 1].node

Pending == [nodes |-> nodes, pq |-> pq, wtoken |-> wtoken, freelist |-> freelist,
            offers |-> offers, blocked |-> FALSE, made |-> None]

(* A token on the other side of the arc, created or moved to be next, when *)
(* there is none or a costlier one.                                        *)
Cross(s, node, tok) ==
  LET i      == IndexOf(s.nodes, tok.node)
      others == Only(s.nodes, {x \in Range(s.nodes) : x.node # tok.node})
  IN  IF i # 0 /\ tok.cost >= s.nodes[i].cost THEN s
      ELSE [s EXCEPT !.nodes = InsertAt(others, IndexOf(others, node) + 1, tok)]

AltsAt(s, node) ==
  LET i == IndexOf(s.nodes, node)
  IN  IF i = 0 THEN <<>> ELSE s.nodes[i].alts

(* The word goes on across the arc; its node has no alternatives any more. *)
CrossAsWord(s, node, to, cost) ==
  IF s.made = None THEN s
  ELSE Cross(s, node, [node |-> to, cost |-> cost, word |-> Epsilon, bt |-> s.made,
                       alts |-> AltsAt(s, to)])

WithoutAlts(s, node) == [s EXCEPT !.nodes[IndexOf(s.nodes, node)].alts = <<>>]

CrossTo(s, node, tok, arc, cost, word) ==
  CASE \/ arc.cost >= PruneDelta
       \/ arc.ilabel = "boundary" /\ cost >= MaxCostInQ(s.pq, s.wtoken) -> s
    [] arc.ilabel = "boundary" /\ arc.cost < PruneDelta /\ cost < MaxCostInQ(s.pq, s.wtoken) ->
         CrossAsWord(WithoutAlts(Alternatives(WordBoundary(s, node, word, tok.bt, cost),
                                              tok, cost), node),
                     node, arc.to, cost)
    [] arc.ilabel = "epsilon" /\ arc.cost < PruneDelta ->
         Cross(s, node, [node |-> arc.to, cost |-> cost, word |-> word,
                         bt |-> tok.bt, alts |-> tok.alts])

CrossArc(s, node, a) ==
  LET arc == Arcs[a]
      tok == s.nodes[IndexOf(s.nodes, node)]
  IN  CrossTo(s, node, tok, arc, tok.cost + arc.cost,
              IF arc.olabel # Epsilon THEN arc.olabel ELSE tok.word)

(* prune_fsmnode_tokens, for the nodes blocked *)
PruneBlocked(s, node) ==
  IF s.blocked
  THEN [s EXCEPT !.nodes = Only(@, {x \in Range(@) : x.node = node \/ 2 * x.cost < MAXcostdata})]
  ELSE s

Processed(s, node) ==
  PruneBlocked(FoldLeft(LAMBDA acc, a : CrossArc(acc, node, a), s,
                        Leaving(node, {"boundary", "epsilon"})), node)

Becomes(s) == /\ nodes' = s.nodes /\ pq' = s.pq /\ wtoken' = s.wtoken
              /\ freelist' = s.freelist /\ offers' = s.offers

(* One turn of the loop over the nodes: release the node or cross its arcs. *)
EpsilonStep ==
  /\ phase \in {"begin", "epsilon"} /\ current # None
  /\ IF nodes[IndexOf(nodes, current)].cost >= PruneDelta
     THEN /\ nodes' = Only(nodes, {x \in Range(nodes) : x.node # current})
          /\ current' = After(nodes, current)
          /\ UNCHANGED <<words, offers>>
     ELSE \E s \in {Processed(Pending, current)} :
            /\ Becomes(s)
            /\ current' = After(s.nodes, current)
  /\ UNCHANGED <<phase, csf, active, lattice, sorted>>

(* The frame is done: the queue is its lattice.  srec_begin ends sooner. *)
EndFrame ==
  /\ phase \in {"begin", "epsilon"} /\ current = None
  /\ phase' = "ready"
  /\ \/ /\ phase = "begin" /\ UNCHANGED <<csf, lattice>>
     \/ /\ phase = "epsilon"
        /\ csf' = csf + 1 /\ lattice' = [lattice EXCEPT ![csf + 1] = pq]
  /\ offers' = {}
  /\ UNCHANGED <<active, nodes, current, words, sorted>>

(* remove_non_end_word_from_q *)
EndWords(q) == Only(q, {t \in Range(q) : wtoken[t].end_node = EndNode})

(* srec_no_more_frames *)
NoMoreFrames ==
  /\ phase = "ready" /\ phase' = "ended"
  /\ LET other == Only(pq, Range(pq) \ Range(EndWords(pq)))
         freed == FoldLeft(Free, [Pending EXCEPT !.pq = EndWords(@)], other)
         i     == IndexOf(nodes, EndNode)
     IN  Becomes(IF i = 0 \/ csf = 0 THEN freed
                 ELSE Alternatives(WordBoundary(freed, EndNode, nodes[i].word, nodes[i].bt,
                                                nodes[i].cost),
                                   nodes[i], nodes[i].cost))
  /\ lattice' = IF csf = 0 THEN lattice ELSE [lattice EXCEPT ![csf] = pq']
  /\ UNCHANGED <<csf, active, current, sorted>>

(* srec_get_top_choice_transcription: the words of the last frame sorted.  *)
(* The queue shares their links, and its head was the worst, so that it    *)
(* leads only to those that cost as much any more.                         *)
TopChoice ==
  /\ phase = "ended" /\ csf > 0
  /\ lattice' = SortedAt({csf}) /\ sorted' = sorted \cup {csf}
  /\ pq' = IF csf \notin sorted
           THEN Only(pq, {t \in Range(pq) : wtoken[t].cost = wtoken[Head(pq)].cost}) ELSE pq
  /\ UNCHANGED <<phase, csf, active, nodes, current, wtoken, freelist, offers>>

Next == \/ Begin \/ EpsilonStep \/ EndFrame \/ NoMoreFrames \/ TopChoice
        \/ \E score \in Scores, frames \in SUBSET DOMAIN lattice :
             \E chosen \in SUBSET WordsAt(frames) : Observe(score, frames, chosen)

Spec == Init /\ [][Next]_vars
-----------------------------------------------------------------------------
(* The properties. *)

(* Type correctness: every list holds tokens, every cost a number. *)
TypeOK ==
  /\ phase \in {"idle", "begin", "epsilon", "ready", "ended"}
  /\ csf \in 0 .. MaxFrames - 1 /\ current \in NodeIds \cup {None}
  /\ \A i \in DOMAIN active : active[i].arc \in DOMAIN Arcs /\ active[i].cost \in 0 .. PruneDelta - 1
  /\ \A i \in DOMAIN nodes : nodes[i].node \in NodeIds /\ nodes[i].cost \in Nat
  /\ pq \in Seq(Wtokens) /\ freelist \in Seq(Wtokens)
  /\ \A t \in Wtokens : /\ wtoken[t].word \in Labels /\ wtoken[t].end_time \in 0 .. MaxFrames
                        /\ wtoken[t].backtrace \in Wtokens \cup {None}
  /\ \A f \in DOMAIN lattice : lattice[f] \in Seq(Wtokens)
  /\ sorted \subseteq DOMAIN lattice

(* The word tokens somebody will still read: of the paths that go on and   *)
(* their alternatives, of the queue once a frame has cleared it, and of    *)
(* the lattice, with all they trace back to.                               *)
InUse ==
  LET going == Only(nodes, {tok \in Range(nodes) : tok.cost < MAXcostdata})
      ofPaths == IF phase = "ended" THEN {} ELSE TracedBy(active) \cup TracedBy(going)
      queued == IF phase = "epsilon" \/ csf > 0 THEN Range(pq) ELSE {}
  IN  Trace(wtoken, (ofPaths \cup queued \cup InLattice) \ {None})

(* No word token in use is in the pool: what the queue pushes out is freed *)
(* at once, what the paths do not trace back to when the pool runs low,    *)
(* and a path left behind would go on to trace through another's word.     *)
(* And nothing is in the pool twice.  (free_word_token,                    *)
(* block_fsmnodes_per_backtrace, reprune_word_tokens)                      *)
NoFreedWordInUse == /\ InUse \cap Range(freelist) = {}
                    /\ IsInjective(freelist)

(* A word began before it ended: backtraces lead strictly back in time, so *)
(* that a backtrace ends, whatever epsilons lie between two boundaries and *)
(* however tokens are reused.  (the refusal in                             *)
(* srec_process_word_boundary_nbest; "Result is loopy" otherwise)          *)
BacktracesDescend ==
  \A t \in InUse : wtoken[t].backtrace # None => EndTime(wtoken[t].backtrace) < EndTime(t)

(* The queue holds the cheapest word ends of the frame, whatever the order *)
(* they came in: one for each word with its history, at its least cost,    *)
(* and none left out is cheaper than one that is in, until the result has  *)
(* been read, which sorts the last frame's list under the queue.           *)
(* (add_word_token_to_priority_q)                                          *)
QueueKeepsCheapest ==
  LET ends     == {o[1] : o \in offers}
      least(h) == Min({o[2] : o \in {x \in offers : x[1] = h}})
      of(t)    == History(wtoken, wtoken[t].word, wtoken[t].end_node, wtoken[t].backtrace)
      inQ      == {of(t) : t \in Range(pq)}
  IN  phase = "epsilon" \/ (phase = "ended" /\ csf > 0 /\ csf \notin sorted) =>
        /\ Len(pq) = Min({MaxInQ, Cardinality(ends)})
        /\ Cardinality(inQ) = Len(pq)
        /\ \A t \in Range(pq) : /\ of(t) \in ends /\ wtoken[t].cost = least(of(t))
                                /\ \A h \in ends \ inQ : least(h) >= wtoken[t].cost

(* The lattice of a frame lists the words that ended with the frame before *)
(* it and nothing else: no word is in two frames, and none was reused      *)
(* since.  Its order is what the flag says, whatever was taken out, queued *)
(* or read since: the best first once it was sorted, and the worst first   *)
(* until then.  When the utterance has ended the last frame's are the      *)
(* words that end in the end node, and end with it.                        *)
(* (lattice_add_word_tokens, sort_word_lattice_at_frame,                   *)
(* free_word_token_from_lattice, srec_no_more_frames)                      *)
LatticeInOrder ==
  \A f \in DOMAIN lattice :
    LET list == lattice[f]
        cost(i) == wtoken[list[i]].cost
        last == phase = "ended" /\ f = csf
    IN  /\ IsInjective(list) /\ Len(list) <= MaxInQ
        /\ \A i \in DOMAIN list :
             /\ EndTime(list[i]) = IF last THEN f ELSE f - 1
             /\ last => wtoken[list[i]].end_node = EndNode
             /\ i > 1 /\ f \in sorted => cost(i - 1) <= cost(i)
             /\ i > 1 /\ f \notin sorted => cost(i - 1) >= cost(i)
=============================================================================
