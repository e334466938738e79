SPECIFICATION Spec
CONSTANTS
  Ships = {s1, s2}
  Commods = {c1}
  Values = {v0, v1}
  NoRow = NoRow
  Deleted = Deleted
  Dead = Dead
  Slots = {h1, h2}
  NoKey = NoKey
INVARIANTS NoDangling AtRest
PROPERTIES StoreIsAtomic
