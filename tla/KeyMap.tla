------------------------------- MODULE KeyMap -------------------------------
(***************************************************************************)
(* What the users of shared/include/HashMap.h rely on: a mapping of keys   *)
(* to values that is also listed by index, for loops over all keys.  What  *)
(* a call that finds nothing leaves in the caller's variable is open: the  *)
(* header says null, and the code writes nothing.  Removing what is not    *)
(* there says so, as SR_Recognizer.h:296 needs and HashMap.h does not say. *)
(***************************************************************************)
EXTENDS Integers, Sequences, FiniteSets, SequencesExt

CONSTANTS Keys, Values, NoValue, Untouched

VARIABLES map,       \* the mapping, a function from the keys present
          order,     \* the keys in the order of their index, first index 0
          result     \* the last call's: rc returned, value in the caller's variable

vars == <<map, order, result>>

Returns(rc, value) == result' = [rc |-> rc, value |-> value]

Answers(rc, value) == Returns(rc, value) /\ UNCHANGED <<map, order>>

Misses(rc) == \E value \in {NoValue, Untouched} : Answers(rc, value)

Init == /\ map = [k \in {} |-> NoValue] /\ order = <<>>
        /\ result = [rc |-> "SUCCESS", value |-> Untouched]

(* A new key may go anywhere and disturb the order of all the others. *)
PutNew(key, value) ==
  /\ Returns("SUCCESS", Untouched)
  /\ key \notin DOMAIN map
  /\ map' = [k \in DOMAIN map \cup {key} |-> IF k = key THEN value ELSE map[k]]
  /\ IsInjective(order') /\ Range(order') = DOMAIN map'

(* A key that is there keeps its index. *)
PutOver(key, value) ==
  /\ Returns("SUCCESS", Untouched)
  /\ key \in DOMAIN map
  /\ map' = [map EXCEPT ![key] = value]
  /\ order' = order

(* Without memory nothing changes, but the order may. *)
PutFails(key) ==
  /\ Returns("OUT_OF_MEMORY", Untouched)
  /\ key \notin DOMAIN map
  /\ map' = map
  /\ IsInjective(order') /\ Range(order') = DOMAIN map

(* The keys after it move up by one index. *)
Without(key) == /\ Returns("SUCCESS", Untouched)
                /\ map' = [k \in DOMAIN map \ {key} |-> map[k]]
                /\ \E i \in DOMAIN order : order[i] = key /\ order' = RemoveAt(order, i)

RemoveKey(key) == IF key \in DOMAIN map THEN Without(key) ELSE Answers("NO_MATCH_ERROR", Untouched)

Get(key) == IF key \in DOMAIN map THEN Answers("SUCCESS", map[key])
            ELSE Misses("NO_MATCH_ERROR")

RemoveAtIndex(n) == IF n < Len(order) THEN Without(order[n + 1])
                    ELSE Answers("ARGUMENT_OUT_OF_BOUNDS", Untouched)

GetKeyAtIndex(n) == IF n < Len(order) THEN Answers("SUCCESS", order[n + 1])
                    ELSE Misses("ARGUMENT_OUT_OF_BOUNDS")

GetValueAtIndex(n) == IF n < Len(order) THEN Answers("SUCCESS", map[order[n + 1]])
                      ELSE Misses("ARGUMENT_OUT_OF_BOUNDS")

RemoveAll == Returns("SUCCESS", Untouched) /\ map' = [k \in {} |-> NoValue] /\ order' = <<>>

GetSize == Answers("SUCCESS", Cardinality(DOMAIN map))

Next == \/ \E key \in Keys, value \in Values : PutNew(key, value) \/ PutOver(key, value)
        \/ \E key \in Keys : PutFails(key) \/ RemoveKey(key) \/ Get(key)
        \/ \E n \in 0 .. Cardinality(Keys) :
             RemoveAtIndex(n) \/ GetKeyAtIndex(n) \/ GetValueAtIndex(n)
        \/ RemoveAll \/ GetSize

Spec == Init /\ [][Next]_vars
=============================================================================
