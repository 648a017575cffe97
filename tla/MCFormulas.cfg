SPECIFICATION Spec
CONSTANTS
  Accounts = {"net", "a", "b", "c"}
  Nodes = {"net", "a", "b", "c"}
  Numbers = {"1"}
  AccountTree <- MCTree
  AccountName <- MCName
  Spelling <- MCSpelling
  Letters <- MCLetters
  Digits <- MCDigits
  OtherNames <- MCOtherNames
  FirstTexts <- MCFirstTexts
  FirstStored <- MCFirstStored
  Vocabulary <- MCVocabulary
  MaxEdits = 2
  MaxLength = 4
INVARIANTS TypeOK ParsesTheGrammar NamesAreReferable InputsFirst CycleIsReal
