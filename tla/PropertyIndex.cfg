CONSTANTS
  a = a
  b = b
  c = c
  hash = hash
  Ids = {n1, n2, n3}
  Labels = {l1, l2}
  Unlabelled = Unlabelled
  Values = {a, b}
  NoValue = NoValue
  Digests = {hash}
  NoDigest = NoDigest
  Digest <- ADigest
  NoId = NoId
  Readers = {r1}
  Writer = Writer
  MaxOpened = 2
  MaxEdits = 2
  MaxCount = 2
SPECIFICATION SpecInTurn
SYMMETRY Same
INVARIANTS
  LookupsFind
CHECK_DEADLOCK FALSE
