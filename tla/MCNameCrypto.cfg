SPECIFICATION Spec
CONSTANTS
  s1 = s1
  s2 = s2
  s3 = s3
  Sender = {s1, s2, s3}
  Kind <- KindOf
  Trusted = {s1, s3}
  Provided = {"symmetric"}
  SeqSpan = 3
  IntSpan = 8
  Unit = 2
  Window <- NoLimitOrOne
  Clock = {0, 1, 4, 5}
  MaxNames = 3
  MaxDamage = 1
  MaxRestarts = 1
INVARIANTS TypeOK AcceptedOnceInOrder FreshOrWrapped
PROPERTY ImplementsLog
