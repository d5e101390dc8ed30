SPECIFICATION FairSpec
CONSTANTS
  Capsule = {c1, c2, c3}
  Closure = {k1, k2, k3}
  Trivial = {k1, k3}
  Timed = {k1}
  Prefix = {p1, p2}
  MaxDepth = 3
  None = None
INVARIANTS TypeOK OneOwner CountsAreExact AnsweredOnce
PROPERTIES ImplementsLife AllFreed
