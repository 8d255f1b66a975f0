SPECIFICATION Spec
CONSTANTS
  n1 = n1  n2 = n2  n3 = n3
  Names <- ThreeNames
  PyForms <- PyAllForms
  MaxPyLines = 5
  MaxIndent = 2
  JavaForms <- JavaAllForms
  MaxJavaLines = 6
  MaxDepth = 4
INVARIANTS PyStacksFollow PyOwnersEnclose JavaClassesFollow JavaCallersEnclose CyclesFound DepthIsLongestChain
CHECK_DEADLOCK FALSE
