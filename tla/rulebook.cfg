CONSTANTS
  h1 = h1
  h2 = h2
  Hardware = {h1, h2}
  ChildLength = 2
  NoPath = "none"
  Vendor = "v"
  Cases <- MCCases
  Commands <- MCCommands
  References <- MCReferences
  Patches <- MCPatches
  Apply <- MCApply
SPECIFICATION Spec
INVARIANTS Inherited DefinedBeforeUsed CommandsWrapped LoadedAlike
CHECK_DEADLOCK FALSE
