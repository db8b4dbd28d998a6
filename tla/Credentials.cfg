\* Every login and password of at most six characters together. The modulus
\* is a prime small enough for the sums to pass it, and 1 modulo 3 as 61566613.
\* A line is short enough to end within the password, at the colon and within
\* the login.
SPECIFICATION Spec
CONSTANTS
  Chars <- MCChars
  Colon = 58
  P = 53
  M = 1009
  MaxShard = 3
  LineBytes = 5
  MaxLen = 6
INVARIANTS
  TypeOK
  GeneratorAgrees
  LoginNeedsNoColon
  ForwardingKeepsIdentity
  HintNamesShard
CHECK_DEADLOCK FALSE
