SPECIFICATION Spec
CONSTANTS
  None = None
  d1 = d1
  d2 = d2
  l1 = l1
  l2 = l2
  h1 = h1
  h2 = h2
  ExampleHash = hx
  Operator = ann
  Approvers = {ann, bob}
  Proposals = {h1, h2, hx}
  Submissions = {d1, d2}
  Loads = {l1, l2}
  MaxPacks = 2
SYMMETRY Symmetry
INVARIANTS ReviewInv NeverAsserted SignedWhatWasShown RefusalHasCause FreshUnlessVoyageFails
PROPERTIES GuidanceIsKept ImplementsRecord
CHECK_DEADLOCK FALSE
