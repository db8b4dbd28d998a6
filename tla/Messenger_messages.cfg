\* Two threads post to and read a chat that need not exist, one fault anywhere.
SPECIFICATION Spec
CONSTANTS
  t1 = t1
  t2 = t2
  u1 = u1
  u2 = u2
  hi = hi
  hey = hey
  None = None
  Garbage = Garbage
  UserIds = {u1}
  Texts = {hi, hey}
  Threads = {t1, t2}
  Refusals = {400, 401, 404, 500}
  MaxChats = 1
  MaxMessages = 2
  MaxFaults = 1
SYMMETRY Symmetry
INVARIANTS
  AnswersNameOwnRows
  ReadsSeeConfirmed
