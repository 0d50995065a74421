\* One bucket that grows to three and to seven to hold three keys, in blocks of
\* two entries, so that entries are reused and blocks added.
CONSTANTS
  k1 = k1
  k2 = k2
  k3 = k3
  Keys = {k1, k2, k3}
  Values = {1, 2}
  NoValue = NoValue
  Untouched = Untouched
  HashCode <- MCHashCode
  Capacities = {1}
  LoadFactor <- MCLoadFactor
  ALLOC_SIZE = 2
SPECIFICATION Spec
INVARIANT ListsHoldTogether
PROPERTY ImplementsMapping
