CONSTANTS
  h1 = h1
  h2 = h2
  Hardware = {h1, h2}
  ChildLength = 2
  NoPath = "none"
  Vendor = "v"
  Cases <- OrderCases
  Commands <- MCCommands
  References <- MCReferences
  Patches <- MCPatches
  Apply <- MCApply
SPECIFICATION Spec
INVARIANT NotInheritedDropped
CHECK_DEADLOCK FALSE
