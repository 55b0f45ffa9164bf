SPECIFICATION TranslationSpec
CONSTANTS
  Kinds <- Spoken
  MaxMessages = 2
  Workers = {w1, w2}
  MaxAttempts = 2
INVARIANTS TranslationTypeOK
PROPERTIES ImplementsLog ResultsAreFenced TranslationsEnd
CHECK_DEADLOCK FALSE
