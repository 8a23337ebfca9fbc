\* One connection, several requests, words of two bits: accounts wrap.
SPECIFICATION ServiceSpec
CONSTANTS
  Services = {c1}
  Names = {n1}
  NoName = NoName
  WORD = 4
  Amounts = {0, 1, 2, 3}
  MaxRequests = 6
  MaxReplays = 2
SYMMETRY TraderSymmetry
INVARIANTS AccountsAreCovered OneAnswerEach
