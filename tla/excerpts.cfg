\* The code's sizes, over a window of seven rows instead of 200: it is full and
\* moves on, and more than six candidates compete.
SPECIFICATION Spec
CONSTANTS
  None = None
  junk = junk
  Rows <- MCRows
  BudgetSettings <- MCBudgetSettings
  MaxMessages = 7
  MaxExcerpts = 6
  MaxExcerptChars = 900
  Header = 323
  MaxLog = 8
INVARIANTS
  MostRelevantKept
  WithinBudget
  DefaultCutsNothing
CHECK_DEADLOCK FALSE
