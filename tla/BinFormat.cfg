CONSTANTS
  Base = 2
  Width = 2
  UsizeMax = 2
  Magics <- SomeMagics
  Versions = {0, 1, 2}
  Payloads <- SomePayloads
  MaxSections = 3
SPECIFICATION Spec
INVARIANTS ReadsWhatWasWritten EverythingIsAccountedFor ErrorHasCause
