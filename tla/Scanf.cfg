SPECIFICATION Spec
CONSTANTS
  BITS = 6
  Formats <- MCFormats
  Texts <- MCTexts
  Arguments <- MCArguments
  BUF = 39
INVARIANT ScanAsDefined
INVARIANT ReadBack
INVARIANT StringsCompared
CHECK_DEADLOCK FALSE
