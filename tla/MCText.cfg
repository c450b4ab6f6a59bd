SPECIFICATION MCSpec
CONSTANTS
  Parts = {"strto", "floats", "glob", "scan", "print", "multibyte", "iconv", "wide"}
  ULLONG_MAX = 255
CHECK_DEADLOCK FALSE
INVARIANTS
  AnswersExact
  PrintSafe
  MultibyteSafe
PROPERTIES
  ScanSafe
  WideSafe
