SPECIFICATION Spec
CONSTANTS
  Characters <- MCCharacters
  Texts <- MCTexts
  MaxText = 5
  Columns = {0, 1, 2}
  Letter = "a"
  Quote = "quote"
  Comma = "comma"
  Newline = "newline"
  Blank = "blank"
PROPERTY ImplementsRowCursor
