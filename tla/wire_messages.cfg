SPECIFICATION Spec
CONSTANTS
  KeyLen = 3  W16 = 8  MaxLen = 23
  Open = 123  Close = 125  Blank = 32
  None = None
  Chars <- MCChars
  Keys <- MCKeys
  Urls <- MCUrls
  Texts <- MCTexts
  Contents <- MCContents
  CommitLists <- MCCommitLists
INVARIANTS TypeOK Intact Forwards
