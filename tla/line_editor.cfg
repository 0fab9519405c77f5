SPECIFICATION Spec
CONSTANTS
  a = a  b = b  Blank = Blank  Nul = Nul  NoOutcome = NoOutcome
  Char <- MCChar
  Size = 4
  MaxParts = 2
  Command <- MCCommand
INVARIANT TypeOK
INVARIANT Strings
INVARIANT SplitsIntoWords
PROPERTY ImplementsLineEdit
