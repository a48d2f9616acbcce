SPECIFICATION Spec
CONSTANTS
  Messages <- MCMessages
INVARIANTS
  ReadsWhatWasWritten
  EndsAtMessage
  HalfAMessageIsNoObject
