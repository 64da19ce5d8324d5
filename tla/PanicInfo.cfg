SPECIFICATION Spec
CONSTANTS
  MaxDepth = 3
INVARIANTS
  TypeOK
  DisposalNeverAborts
  OriginalEscapes
  PayloadPresent
  SettledOnce
  OnlyNestedLeak
