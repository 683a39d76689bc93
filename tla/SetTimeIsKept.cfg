SPECIFICATION Spec
CONSTANT HalFaults = FALSE
PROPERTY
  SetTimeIsKept
