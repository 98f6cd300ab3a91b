SPECIFICATION Spec
CONSTANTS
  l1 = l1
  l2 = l2
  l3 = l3
  page1 = page1
  page2 = page2
  None = None
  Lanes <- ThreeLanes
  Pages <- TwoPages
INVARIANT PermitFindsPage
