----------------------------- MODULE Credentials -----------------------------
(***************************************************************************)
(* A login and a password on their way to a shard.                         *)
(*                                                                         *)
(* User::get_sharding_hint hashes login + password, when the writer stores *)
(* the user and when auth looks for them; the data generator has a hash of *)
(* its own for the users it stores. A client sends both in one text with a *)
(* colon between them, which auth_service takes apart again; messenger_    *)
(* service takes it apart too, puts it together anew and passes it on, of  *)
(* which only the first LineBytes bytes arrive.                            *)
(*                                                                         *)
(* Both hashes run from the last character to the first. A step of this    *)
(* module is one round of their loops: the text grows at its front.        *)
(***************************************************************************)
EXTENDS Integers, Sequences, SequencesExt

CONSTANTS
  Chars,     \* characters, as C++ sees them: a char is -128..127
  Colon,     \* the one that separates login and password
  P, M,      \* the factor and the modulus of the hashes
  MaxShard,  \* get_max_shard, and the generator's SHARD_COUNT
  LineBytes, \* bytes in a line of Base64 text: 54, in 72 characters
  MaxLen     \* bound: characters of login and password together

ASSUME CharAssumption == Chars \subseteq -128..127 /\ Colon \in Chars
\* The values of the code, P = 53, M = 61566613 and MaxShard = 3, fulfil this.
ASSUME HashAssumption == /\ P \in Nat /\ M \in Nat /\ M > 127
                         /\ MaxShard \in Nat \ {0} /\ M % MaxShard # 0
ASSUME LineAssumption == LineBytes \in Nat \ {0}
ASSUME BoundAssumption == MaxLen \in Nat

VARIABLES
  login, password,  \* sequences of characters
  cpp,              \* roll in helper.h
  py                \* roll in basemod.py

vars == <<login, password, cpp, py>>

TypeOK ==
  /\ login \in Seq(Chars)
  /\ password \in Seq(Chars)
  /\ cpp \in (-M + 1)..(M - 1)
  /\ py \in Int

Init ==
  /\ login = <<>>
  /\ password = <<>>
  /\ cpp = 0
  /\ py = 0

\* Variant with a plausible bug: the character is not reduced.
RoundUnreduced(roll, c) == roll * P + c

\* C++: the sign of a remainder is that of the dividend.
Remainder(a, b) == IF a >= 0 THEN a % b ELSE -((-a) % b)

Round(roll, c) == Remainder(roll * P + c, M)

\* Variant with a plausible bug: the factor is left out.
PyRoundUnmixed(roll, c) == (roll % M) + c

\* Python: the character is added to what is reduced.
PyRound(roll, c) == ((roll * P) % M) + c

\* hash % get_max_shard() converts the long to size_t: 2^64 is added to a
\* negative hash.
Wrap ==   \* 2^64 % MaxShard
  LET h == 65536 % MaxShard IN (h * h * h * h) % MaxShard

\* Variant with a plausible bug: get_max_shard returns a signed integer.
HintSigned(hash) == Remainder(hash, MaxShard)

Hint(hash) == (IF hash < 0 THEN hash + Wrap ELSE hash) % MaxShard

PyHint(hash) == hash % MaxShard

Hash(c) ==
  /\ cpp' = Round(cpp, c)
  /\ py' = PyRound(py, c)

PrependPassword(c) ==
  /\ login = <<>>
  /\ Len(password) < MaxLen
  /\ password' = <<c>> \o password
  /\ Hash(c)
  /\ UNCHANGED login

PrependLogin(c) ==
  /\ Len(login) + Len(password) < MaxLen
  /\ login' = <<c>> \o login
  /\ Hash(c)
  /\ UNCHANGED password

Next == \E c \in Chars : PrependPassword(c) \/ PrependLogin(c)

Spec == Init /\ [][Next]_vars

-----------------------------------------------------------------------------
\* Variant with a plausible bug: an empty password needs no colon.
TokenBare(l, p) == IF p = <<>> THEN l ELSE l \o <<Colon>> \o p

\* do_get: token = login + ":" + password
Token(l, p) == l \o <<Colon>> \o p

\* Variant with a plausible bug: the text is taken apart at the last colon.
IdentityAtLast(text) ==
  LET pos == SelectLastInSeq(text, LAMBDA c : c = Colon) IN
  [login    |-> IF pos = 0 THEN text ELSE SubSeq(text, 1, pos - 1),
   password |-> SubSeq(text, pos + 1, Len(text))]

\* get_identity takes the text apart at the first colon. Without one, npos + 1
\* is 0, and the whole text is both login and password.
Identity(text) ==
  LET pos == SelectInSeq(text, LAMBDA c : c = Colon) IN
  [login    |-> IF pos = 0 THEN text ELSE SubSeq(text, 1, pos - 1),
   password |-> SubSeq(text, pos + 1, Len(text))]

\* What auth_service reads of the text that do_get puts in the Authorization
\* header. Base64Encoder, whose line length do_get leaves at 72 characters, ends
\* a full line with CR LF; there the header ends, and the rest of the text, a
\* line without a colon, is no header and is passed over.
Forwarded(l, p) ==
  LET text == Token(l, p)
  IN  SubSeq(text, 1, IF Len(text) < LineBytes THEN Len(text) ELSE LineBytes)

-----------------------------------------------------------------------------
(***************************************************************************)
(* Correctness                                                             *)
(***************************************************************************)
Ascii(s) == \A i \in 1..Len(s) : s[i] >= 0

\* The generator hashes another way than the services and still agrees with
\* them modulo M: it is right about the shard, unless the last character it
\* added took the sum to M or beyond. Such a user is stored where auth never
\* looks. (The generator makes ASCII only.)
GeneratorAgrees ==
  (Ascii(login) /\ Ascii(password)) =>
    /\ cpp \in 0..(M - 1)
    /\ py = cpp \/ py = cpp + M
    /\ PyHint(py) = Hint(cpp) <=> py < M

\* auth_service gets the login and password a user registered with back from
\* the client's text, exactly if there is no colon in the login.
LoginNeedsNoColon ==
  Identity(Token(login, password)) = [login |-> login, password |-> password]
    <=> \A i \in 1..Len(login) : login[i] # Colon

\* Whatever text a client sends, with many colons or none: what auth_service
\* makes of what messenger_service passes on is what it would have made of the
\* text itself exactly if login, colon and password fit one line. (They also
\* come through if the line ends right after the login and the password repeats
\* the login: a text without a colon is read as both.)
ForwardingKeepsIdentity ==
  \A text \in {login \o password, Token(login, password)} :
    LET id == Identity(text) IN
    Identity(Forwarded(id.login, id.password)) = id
      <=> \/ Len(Token(id.login, id.password)) <= LineBytes
          \/ Len(id.login) = LineBytes /\ id.password = id.login

\* Every hash, of letters beyond ASCII too, names a shard, and the conversion
\* of a negative one to size_t is seen: it names another shard than the hash
\* modulo MaxShard would, unless MaxShard divides 2^64.
HintNamesShard ==
  /\ Hint(cpp) \in 0..(MaxShard - 1)
  /\ Hint(cpp) = cpp % MaxShard <=> cpp >= 0 \/ Wrap = 0
=============================================================================
