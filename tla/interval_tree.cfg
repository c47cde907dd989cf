SPECIFICATION TreeSpec
CONSTANTS
  Formulas <- MCFormulas
  Removable = {1}
  Erasable = {3}
  SizeMax = 15
  Null = NoNode
INVARIANTS
  TreeTypeOK
  TreeOrdered
  TreeBalanced
  HalvesInStep
  QueriesExact
  CreatedTreeHoldsPlan
PROPERTY
  CallsReturn
