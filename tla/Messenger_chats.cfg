\* Two threads create chats, add members and read, with one fault anywhere.
SPECIFICATION Spec
CONSTANTS
  t1 = t1
  t2 = t2
  u1 = u1
  u2 = u2
  hi = hi
  hey = hey
  None = None
  Garbage = Garbage
  UserIds = {u1, u2}
  Texts = {}
  Threads = {t1, t2}
  Refusals = {}
  MaxChats = 2
  MaxMessages = 0
  MaxFaults = 1
SYMMETRY Symmetry
INVARIANTS
  TypeOK
  AnswersNameOwnRows
  OrphansAreFaults
  ReadsSeeConfirmed
