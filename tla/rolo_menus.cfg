\* Every call of up to three arguments; every short text at the menus.
SPECIFICATION FairSpec
CONSTANTS
  Calls <- AllCalls
  Keys <- AllKeys
  Rolodex <- Four
  NFields = 3
  MAX_MENU_RESPONSE_LENGTH = 3
  MAXCONTINUE = 2
  MAXINTSTR <- SixBits
INVARIANT ShowsPeople
PROPERTIES AnswersEndLines EndOfInputEnds
\* the program ends
CHECK_DEADLOCK FALSE
