CONSTANTS
  Kibs = {0, 1, 5}
  Bad <- NoDigits
  None <- NoValue
  Kib = 2
  U64Max = 9
SPECIFICATION Spec
INVARIANTS ResultIsOfTheFile
