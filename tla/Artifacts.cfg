\* Four objects of any kinds are written; challenges have up to two items.
CONSTANTS
  MaxItems = 2
  MaxStamp = 4
  Torn = Torn
SPECIFICATION ASpec
INVARIANTS ATypeOK ReadsWhatWasWritten OldOrNew
