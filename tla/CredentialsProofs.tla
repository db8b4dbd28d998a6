-------------------------- MODULE CredentialsProofs --------------------------
(***************************************************************************)
(* Theorems about Credentials for every set of characters, every factor and*)
(* modulus the assumptions allow, those of the code included, and every    *)
(* length.                                                                 *)
(*                                                                         *)
(* Two facts make the invariants inductive. A step grows the text at its   *)
(* front, so a text of ASCII characters was one before. And the two hashes *)
(* are congruent modulo M, never more than one M apart (Congruent).        *)
(***************************************************************************)
EXTENDS Credentials, SequenceTheorems, WellFoundedInduction, TLAPS

Congruent ==
  Ascii(login) /\ Ascii(password) =>
    /\ cpp \in 0..(M - 1)
    /\ py = cpp \/ py = cpp + M

Inv == TypeOK /\ Congruent

-----------------------------------------------------------------------------
(***************************************************************************)
(* Remainders                                                              *)
(***************************************************************************)

\* A remainder is one, and the only one below the modulus.
LEMMA DivMod ==
  ASSUME NEW a \in Int, NEW m \in Nat \ {0}
  PROVE  /\ a % m \in 0..(m - 1)
         /\ a \div m \in Int
         /\ a = (m * (a \div m)) + (a % m)
  OBVIOUS

\* Whatever leaves it, a remainder below the modulus is the remainder.
LEMMA OneRemainder ==
  ASSUME NEW m \in Nat \ {0}, NEW q \in Int, NEW r \in 0..(m - 1)
  PROVE  ((m * q) + r) % m = r
  OBVIOUS

\* Adding a multiple of the modulus changes no remainder.
LEMMA SameRemainder ==
  ASSUME NEW m \in Nat \ {0}, NEW q \in Int, NEW a \in Int
  PROVE  (a + m * q) % m = a % m
<1>1. PICK d \in Int : d = a \div m
  BY DivMod
<1>2. PICK r \in 0..(m - 1) : r = a % m
  BY DivMod
<1>3. a = (m * d) + r
  BY <1>1, <1>2, DivMod
<1>4. m * d \in Int /\ m * q \in Int /\ m * (d + q) = m * d + m * q
  OBVIOUS
<1>5. a + m * q = (m * (d + q)) + r
  BY <1>3, <1>4
<1>6. ((m * (d + q)) + r) % m = r
  <2>1. d + q \in Int
    OBVIOUS
  <2> QED
    BY <2>1, OneRemainder
<1> QED
  BY <1>2, <1>5, <1>6

\* A sum that reaches the modulus once.
LEMMA SmallRemainder ==
  ASSUME NEW m \in Nat \ {0}, NEW a \in 0..(2 * m - 1)
  PROVE  a % m = IF a < m THEN a ELSE a - m
<1>1. CASE a < m
  <2>1. a \in 0..(m - 1) /\ a = (m * 0) + a
    BY <1>1
  <2> QED
    BY <1>1, <2>1, OneRemainder
<1>2. CASE ~(a < m)
  <2>1. a - m \in 0..(m - 1) /\ a = (m * 1) + (a - m)
    BY <1>2
  <2> QED
    BY <1>2, <2>1, OneRemainder
<1> QED
  BY <1>1, <1>2

\* Adding anything but a multiple of the modulus changes the remainder.
LEMMA ShiftedRemainder ==
  ASSUME NEW m \in Nat \ {0}, NEW a \in Int, NEW b \in Int
  PROVE  (a + b) % m = a % m <=> b % m = 0
<1>1. PICK q \in Int, r \in 0..(m - 1) : a = (m * q) + r
  BY DivMod
<1>2. PICK k \in Int, z \in 0..(m - 1) : b = (m * k) + z
  BY DivMod
<1>3. a % m = r /\ b % m = z
  BY <1>1, <1>2, OneRemainder
<1>4. (a + b) % m = (r + z) % m
  <2>1. a + b = (r + z) + m * (q + k)
    BY <1>1, <1>2
  <2>2. r + z \in Int /\ q + k \in Int
    OBVIOUS
  <2> QED
    BY <2>1, <2>2, SameRemainder
<1>5. (r + z) % m = IF r + z < m THEN r + z ELSE r + z - m
  <2>1. PICK s \in 0..(2 * m - 1) : s = r + z
    OBVIOUS
  <2>2. s % m = IF s < m THEN s ELSE s - m
    BY SmallRemainder
  <2> QED
    BY <2>1, <2>2
<1> QED
  BY <1>3, <1>4, <1>5

\* 2^64 modulo the number of shards.
LEMMA WrapIsRemainder == Wrap \in 0..(MaxShard - 1)
<1>1. PICK m \in Nat \ {0} : m = MaxShard
  BY HashAssumption
<1>2. PICK h \in Int : h = 65536 % m
  BY <1>1, DivMod
<1>3. PICK s \in Int : s = h * h * h * h
  OBVIOUS
<1>4. s % m \in 0..(m - 1)
  BY <1>1, <1>3, DivMod
<1> QED
  BY <1>1, <1>2, <1>3, <1>4 DEF Wrap

\* A round of the services' hash stays within the modulus, on both sides of 0.
LEMMA RoundBounded ==
  ASSUME NEW roll \in Int, NEW c \in Int
  PROVE  Round(roll, c) \in (-M + 1)..(M - 1)
<1>1. PICK a \in Int : a = roll * P + c
  BY HashAssumption
<1>2. M \in Nat \ {0} /\ a % M \in 0..(M - 1) /\ (-a) % M \in 0..(M - 1)
  <2>1. M \in Nat \ {0}
    BY HashAssumption
  <2> QED
    BY <2>1
<1>3. Round(roll, c) = IF a >= 0 THEN a % M ELSE -((-a) % M)
  BY <1>1 DEF Round, Remainder
<1> QED
  BY <1>2, <1>3

\* A round of both hashes keeps them congruent.
LEMMA RoundsAgree ==
  ASSUME NEW x \in 0..(M - 1), NEW y, y = x \/ y = x + M, NEW c \in 0..127
  PROVE  /\ Round(x, c) \in 0..(M - 1)
         /\ PyRound(y, c) = Round(x, c) \/ PyRound(y, c) = Round(x, c) + M
<1>1. M \in Nat \ {0} /\ M > 127 /\ P \in Nat
  BY HashAssumption
<1>2. PICK a \in Nat : a = x * P
  BY <1>1
<1>3. (y * P) % M = a % M
  <2>1. CASE y = x
    BY <1>2, <2>1
  <2>2. CASE y = x + M
    <3>1. y * P = a + M * P
      BY <1>1, <1>2, <2>2
    <3>2. (a + M * P) % M = a % M
      <4>1. M \in Nat \ {0} /\ P \in Int /\ a \in Int
        BY <1>1
      <4> QED
        BY <4>1, SameRemainder
    <3> QED
      BY <3>1, <3>2
  <2> QED
    BY <2>1, <2>2
<1>4. PICK d \in Int : d = a \div M
  BY <1>1
<1>5. PICK r \in 0..(M - 1) : r = a % M
  BY <1>1
<1>6. a = (M * d) + r
  BY <1>1, <1>4, <1>5
<1>7. (a + c) % M = (r + c) % M
  <2>1. a + c = (r + c) + M * d
    BY <1>1, <1>6
  <2>2. ((r + c) + M * d) % M = (r + c) % M
    <3>1. r + c \in Int
      BY <1>1
    <3> QED
      BY <1>1, <3>1, SameRemainder
  <2> QED
    BY <2>1, <2>2
<1>8. (r + c) % M = IF r + c < M THEN r + c ELSE r + c - M
  <2>1. PICK s \in 0..(2 * M - 1) : s = r + c
    BY <1>1
  <2>2. s % M = IF s < M THEN s ELSE s - M
    BY <1>1, SmallRemainder
  <2> QED
    BY <1>1, <2>1, <2>2
<1>9. Round(x, c) = (a + c) % M
  <2>1. a + c >= 0
    OBVIOUS
  <2> QED
    BY <1>2, <2>1 DEF Round, Remainder
<1>10. PyRound(y, c) = r + c
  BY <1>3, <1>5 DEF PyRound
<1> QED
  BY <1>1, <1>7, <1>8, <1>9, <1>10

-----------------------------------------------------------------------------
(***************************************************************************)
(* The invariant                                                           *)
(***************************************************************************)

\* A text grows at its front.
LEMMA Grows ==
  ASSUME NEW c \in Chars, NEW s \in Seq(Chars)
  PROVE  /\ <<c>> \o s \in Seq(Chars)
         /\ Ascii(<<c>> \o s) => Ascii(s) /\ c \in 0..127
<1>1. c \in -128..127
  BY CharAssumption
<1>2. /\ <<c>> \o s \in Seq(Chars) /\ Len(s) \in Nat
      /\ Len(<<c>> \o s) = 1 + Len(s)
      /\ \A i \in 1..(1 + Len(s)) : (<<c>> \o s)[i] = IF i <= 1 THEN <<c>>[i] ELSE s[i - 1]
  <2>1. <<c>> \in Seq(Chars) /\ Len(<<c>>) = 1
    OBVIOUS
  <2> QED
    BY <2>1, ConcatProperties
<1>3. ASSUME Ascii(<<c>> \o s) PROVE Ascii(s) /\ c \in 0..127
  <2>1. \A i \in 1..(1 + Len(s)) : (<<c>> \o s)[i] >= 0
    BY <1>2, <1>3 DEF Ascii
  <2>2. c >= 0
    BY <1>2, <2>1
  <2>3. ASSUME NEW i \in 1..Len(s) PROVE s[i] >= 0
    <3>1. /\ i + 1 \in 1..(1 + Len(s)) /\ ~(i + 1 <= 1) /\ (i + 1) - 1 = i
      BY <1>2
    <3>2. (<<c>> \o s)[i + 1] = s[i]
      BY <1>2, <3>1
    <3> QED
      BY <2>1, <3>1, <3>2
  <2> QED
    BY <1>1, <2>2, <2>3 DEF Ascii
<1> QED
  BY <1>2, <1>3

\* Initially login and password are empty and both hashes are 0.
LEMMA InitInv == Init => Inv
<1> SUFFICES ASSUME Init PROVE Inv
  OBVIOUS
<1>1. TypeOK
  BY HashAssumption DEF Init, TypeOK
<1>2. Congruent
  BY HashAssumption DEF Init, Congruent
<1> QED
  BY <1>1, <1>2 DEF Inv

\* A round of the hashes' loops, one character further to the front, keeps Inv.
LEMMA NextInv == Inv /\ [Next]_vars => Inv'
<1> SUFFICES ASSUME Inv, [Next]_vars PROVE Inv'
  OBVIOUS
<1>t. /\ login \in Seq(Chars) /\ password \in Seq(Chars)
      /\ cpp \in (-M + 1)..(M - 1) /\ cpp \in Int /\ py \in Int
  BY HashAssumption DEF Inv, TypeOK
<1>1. CASE UNCHANGED vars
  BY <1>1 DEF vars, Inv, TypeOK, Congruent, Ascii
<1>2. ASSUME NEW c \in Chars, PrependPassword(c) \/ PrependLogin(c)
      PROVE  Inv'
  <2>a. c \in Int
    BY CharAssumption
  <2>1. /\ login' \in Seq(Chars) /\ password' \in Seq(Chars)
        /\ Ascii(login') /\ Ascii(password') =>
             Ascii(login) /\ Ascii(password) /\ c \in 0..127
    <3>1. CASE PrependPassword(c)
      BY <1>t, <3>1, Grows DEF PrependPassword
    <3>2. CASE PrependLogin(c)
      BY <1>t, <3>2, Grows DEF PrependLogin
    <3> QED
      BY <1>2, <3>1, <3>2
  <2>2. cpp' = Round(cpp, c) /\ py' = PyRound(py, c)
    BY <1>2 DEF PrependPassword, PrependLogin, Hash
  <2>3. cpp' \in (-M + 1)..(M - 1)
    BY <1>t, <2>a, <2>2, RoundBounded
  <2>4. py' \in Int
    <3>1. py * P \in Int /\ M \in Nat \ {0}
      BY <1>t, HashAssumption
    <3>2. (py * P) % M \in Int
      BY <3>1, DivMod
    <3> QED
      BY <2>a, <2>2, <3>2 DEF PyRound
  <2>5. Congruent'
    <3> SUFFICES ASSUME Ascii(login'), Ascii(password')
                 PROVE  cpp' \in 0..(M - 1) /\ (py' = cpp' \/ py' = cpp' + M)
      BY DEF Congruent, Ascii
    <3>1. c \in 0..127 /\ cpp \in 0..(M - 1) /\ (py = cpp \/ py = cpp + M)
      BY <2>1 DEF Inv, Congruent
    <3> QED
      BY <2>2, <3>1, RoundsAgree
  <2> QED
    BY <2>1, <2>3, <2>4, <2>5 DEF Inv, TypeOK
<1> QED
  BY <1>1, <1>2 DEF Next

\* Login, password and both hashes have their types: the services' hash stays
\* between -M and M although a char may be negative.
THEOREM TypeCorrect == Spec => []TypeOK
<1>1. Inv => TypeOK
  BY DEF Inv
<1> QED
  BY <1>1, InitInv, NextInv, PTL DEF Spec

\* For every ASCII login and password the generator's hash is that of the
\* services or M more, and names the same shard exactly if it is below M.
THEOREM GeneratorIsOffByM == Spec => []GeneratorAgrees
<1>1. Inv => GeneratorAgrees
  <2> SUFFICES ASSUME Inv, Ascii(login), Ascii(password)
               PROVE  /\ cpp \in 0..(M - 1)
                      /\ py = cpp \/ py = cpp + M
                      /\ PyHint(py) = Hint(cpp) <=> py < M
    BY DEF GeneratorAgrees
  <2>1. cpp \in 0..(M - 1) /\ (py = cpp \/ py = cpp + M)
    BY DEF Inv, Congruent
  <2>2. /\ M \in Nat \ {0} /\ MaxShard \in Nat \ {0} /\ M % MaxShard # 0
    BY HashAssumption
  <2>3. Hint(cpp) = cpp % MaxShard
    BY <2>1, <2>2 DEF Hint
  <2>4. CASE py = cpp
    BY <2>1, <2>2, <2>3, <2>4 DEF PyHint
  <2>5. CASE py = cpp + M
    <3>1. ~(py < M)
      BY <2>1, <2>2, <2>5
    <3>2. (cpp + M) % MaxShard # cpp % MaxShard
      <4>1. cpp \in Int /\ M \in Int /\ MaxShard \in Nat \ {0}
        BY <2>1, <2>2
      <4> QED
        BY <2>2, <4>1, ShiftedRemainder
    <3>3. PyHint(py) = (cpp + M) % MaxShard
      BY <2>5 DEF PyHint
    <3> QED
      BY <2>1, <2>3, <3>1, <3>2, <3>3
  <2> QED
    BY <2>1, <2>4, <2>5
<1> QED
  BY <1>1, InitInv, NextInv, PTL DEF Spec

\* Whatever characters a login and a password have, their hash names a shard,
\* and a negative one another than plain arithmetic would give.
THEOREM EveryHashNamesAShard == Spec => []HintNamesShard
<1>1. Inv => HintNamesShard
  <2> SUFFICES ASSUME Inv
               PROVE  /\ Hint(cpp) \in 0..(MaxShard - 1)
                      /\ Hint(cpp) = cpp % MaxShard <=> cpp >= 0 \/ Wrap = 0
    BY DEF HintNamesShard
  <2>1. PICK x \in Int : x = cpp
    BY HashAssumption DEF Inv, TypeOK
  <2>2. PICK m \in Nat \ {0} : m = MaxShard
    BY HashAssumption
  <2>3. PICK z \in 0..(m - 1) : z = Wrap
    BY <2>2, WrapIsRemainder
  <2>4. Hint(cpp) = (IF x < 0 THEN x + z ELSE x) % m
    BY <2>1, <2>2, <2>3 DEF Hint
  <2>5. x % m \in 0..(m - 1) /\ (x + z) % m \in 0..(m - 1)
    <3>1. x + z \in Int
      OBVIOUS
    <3> QED
      BY <3>1, DivMod
  <2>6. (x + z) % m = x % m <=> z = 0
    <3>1. z = (m * 0) + z
      OBVIOUS
    <3>2. z % m = z
      BY <3>1, OneRemainder
    <3>3. z \in Int
      OBVIOUS
    <3> QED
      BY <3>2, <3>3, ShiftedRemainder
  <2>7. CASE x < 0
    BY <2>1, <2>2, <2>3, <2>4, <2>5, <2>6, <2>7
  <2>8. CASE ~(x < 0)
    BY <2>1, <2>2, <2>3, <2>4, <2>5, <2>8
  <2> QED
    BY <2>7, <2>8
<1> QED
  BY <1>1, InitInv, NextInv, PTL DEF Spec

-----------------------------------------------------------------------------
(***************************************************************************)
(* Taking a text apart                                                     *)
(***************************************************************************)

\* A part of a text, and when two texts are the same.
LEMMA SubSeqOfTyped ==
  ASSUME NEW text \in Seq(Chars), NEW m \in Nat \ {0}, NEW n \in 0..Len(text), m <= n + 1
  PROVE  /\ SubSeq(text, m, n) \in Seq(Chars)
         /\ Len(SubSeq(text, m, n)) = n - m + 1
         /\ \A i \in 1..(n - m + 1) : SubSeq(text, m, n)[i] = text[m + i - 1]
<1>1. \A i \in m..n : text[i] \in Chars
  OBVIOUS
<1> QED
  BY <1>1, SubSeqProperties

\* Texts with the same characters are the same.
LEMMA SameText ==
  ASSUME NEW s \in Seq(Chars), NEW t \in Seq(Chars), Len(s) = Len(t),
         \A i \in 1..Len(t) : s[i] = t[i]
  PROVE  s = t
  OBVIOUS

\* A text with a colon has a first one.
LEMMA FirstColon ==
  ASSUME NEW text \in Seq(Chars), NEW j \in 1..Len(text), text[j] = Colon
  PROVE  \E k \in 1..j : text[k] = Colon /\ \A i \in 1..(k - 1) : text[i] # Colon
<1> DEFINE I == {i \in 1..Len(text) : text[i] = Colon}
<1>1. j \in I /\ I \subseteq Nat /\ I # {}
  OBVIOUS
<1>2. PICK k \in I : \A i \in I : ~(<<i, k>> \in OpToRel(<, Nat))
  <2> HIDE DEF I
  <2> QED
    BY <1>1, NatLessThanWellFounded, WFMin
<1>3. \A i \in I : ~(i < k)
  BY <1>1, <1>2 DEF OpToRel
<1>4. k \in 1..j /\ text[k] = Colon
  BY <1>1, <1>3
<1>5. \A i \in 1..(k - 1) : text[i] # Colon
  BY <1>3
<1> QED
  BY <1>4, <1>5

\* get_identity takes a text apart at its first colon.
LEMMA ApartAt ==
  ASSUME NEW text \in Seq(Chars), NEW k \in 1..Len(text), text[k] = Colon,
         \A i \in 1..(k - 1) : text[i] # Colon
  PROVE  Identity(text) = [login    |-> SubSeq(text, 1, k - 1),
                           password |-> SubSeq(text, k + 1, Len(text))]
<1> DEFINE I == {i \in 1..Len(text) : text[i] = Colon}
<1>1. SelectInSeq(text, LAMBDA c : c = Colon) = IF I # {} THEN Min(I) ELSE 0
  BY DEF SelectInSeq
<1>2. k \in I /\ \A i \in I : k <= i
  OBVIOUS
<1>3. Min(I) = k
  BY <1>2 DEF Min
<1>4. SelectInSeq(text, LAMBDA c : c = Colon) = k /\ k # 0
  BY <1>1, <1>2, <1>3
<1> HIDE DEF I
<1> QED
  BY <1>4 DEF Identity

\* Without a colon the whole text is both login and password.
LEMMA NotApart ==
  ASSUME NEW text \in Seq(Chars), \A i \in 1..Len(text) : text[i] # Colon
  PROVE  Identity(text) = [login |-> text, password |-> text]
<1> DEFINE I == {i \in 1..Len(text) : text[i] = Colon}
<1>1. SelectInSeq(text, LAMBDA c : c = Colon) = IF I # {} THEN Min(I) ELSE 0
  BY DEF SelectInSeq
<1>2. I = {}
  OBVIOUS
<1>3. SelectInSeq(text, LAMBDA c : c = Colon) = 0
  BY <1>1, <1>2
<1>4. SubSeq(text, 0 + 1, Len(text)) = text
  BY SubSeqFull
<1> HIDE DEF I
<1> QED
  BY <1>3, <1>4 DEF Identity

\* The text made of a login and a password.
LEMMA TokenIs ==
  ASSUME NEW l \in Seq(Chars), NEW p \in Seq(Chars)
  PROVE  /\ Token(l, p) \in Seq(Chars)
         /\ Len(l) \in Nat /\ Len(p) \in Nat
         /\ Len(Token(l, p)) = Len(l) + 1 + Len(p)
         /\ \A i \in 1..Len(l) : Token(l, p)[i] = l[i]
         /\ Token(l, p)[Len(l) + 1] = Colon
         /\ SubSeq(Token(l, p), 1, Len(l)) = l
         /\ SubSeq(Token(l, p), Len(l) + 2, Len(Token(l, p))) = p
<1>1. <<Colon>> \in Seq(Chars) /\ Len(<<Colon>>) = 1 /\ <<Colon>>[1] = Colon
  BY CharAssumption
<1>2. PICK m : m = l \o <<Colon>>
  OBVIOUS
<1>3. /\ m \in Seq(Chars) /\ Len(m) = Len(l) + 1
      /\ \A i \in 1..(Len(l) + 1) : m[i] = IF i <= Len(l) THEN l[i] ELSE <<Colon>>[i - Len(l)]
  BY <1>1, <1>2, ConcatProperties
<1>4. PICK t : t = Token(l, p)
  OBVIOUS
<1>5. t = m \o p
  BY <1>2, <1>4 DEF Token
<1>6. /\ t \in Seq(Chars) /\ Len(t) = Len(m) + Len(p)
      /\ \A i \in 1..(Len(m) + Len(p)) : t[i] = IF i <= Len(m) THEN m[i] ELSE p[i - Len(m)]
  BY <1>3, <1>5, ConcatProperties
<1>7. Len(l) \in Nat /\ Len(p) \in Nat /\ Len(t) = Len(l) + 1 + Len(p)
  BY <1>3, <1>6
<1>8. \A i \in 1..Len(l) : t[i] = l[i]
  BY <1>3, <1>6, <1>7
<1>9. t[Len(l) + 1] = Colon
  BY <1>1, <1>3, <1>6, <1>7
<1>10. SubSeq(t, 1, Len(l)) = l
  <2>1. /\ SubSeq(t, 1, Len(l)) \in Seq(Chars)
        /\ Len(SubSeq(t, 1, Len(l))) = Len(l)
        /\ \A i \in 1..Len(l) : SubSeq(t, 1, Len(l))[i] = t[i]
    BY <1>6, <1>7, SubSeqOfTyped
  <2> QED
    BY <1>8, <2>1, SameText
<1>11. SubSeq(t, Len(l) + 2, Len(t)) = p
  <2>1. PICK n \in Nat : n = Len(l)
    BY <1>7
  <2>2. /\ SubSeq(t, n + 2, Len(t)) \in Seq(Chars)
        /\ Len(SubSeq(t, n + 2, Len(t))) = Len(p)
        /\ \A i \in 1..Len(p) : SubSeq(t, n + 2, Len(t))[i] = t[n + 1 + i]
    <3>1. PICK a \in Nat \ {0} : a = n + 2
      BY <2>1
    <3>2. PICK z \in 0..Len(t) : z = Len(t) /\ a <= z + 1 /\ z - a + 1 = Len(p)
      BY <1>7, <2>1, <3>1
    <3>3. /\ SubSeq(t, a, z) \in Seq(Chars)
          /\ Len(SubSeq(t, a, z)) = z - a + 1
          /\ \A i \in 1..(z - a + 1) : SubSeq(t, a, z)[i] = t[a + i - 1]
      BY <1>6, <3>2, SubSeqOfTyped
    <3>4. \A i \in 1..Len(p) : a + i - 1 = n + 1 + i
      BY <2>1, <3>1
    <3> QED
      BY <3>1, <3>2, <3>3, <3>4
  <2>3. \A i \in 1..Len(p) : t[n + 1 + i] = p[i]
    <3>1. PICK b \in Nat : b = Len(p)
      BY <1>7
    <3>2. Len(m) = n + 1
      BY <1>3, <2>1
    <3>3. SUFFICES ASSUME NEW i \in 1..b PROVE t[n + 1 + i] = p[i]
      BY <3>1
    <3>4. PICK k \in 1..(n + 1 + b) : k = n + 1 + i
      BY <2>1, <3>1
    <3>5. ~(k <= n + 1) /\ k - (n + 1) = i
      BY <2>1, <3>1, <3>4
    <3>6. t[k] = p[k - (n + 1)]
      <4>1. \A j \in 1..(n + 1 + b) : t[j] = IF j <= n + 1 THEN m[j] ELSE p[j - (n + 1)]
        BY <1>6, <3>1, <3>2
      <4> QED
        BY <3>5, <4>1
    <3> QED
      BY <3>4, <3>5, <3>6
  <2> QED
    BY <2>1, <2>2, <2>3, SameText
<1> QED
  BY <1>4, <1>6, <1>7, <1>8, <1>9, <1>10, <1>11

\* A login without a colon and any password come out as they went in.
LEMMA ComesApart ==
  ASSUME NEW l \in Seq(Chars), NEW p \in Seq(Chars),
         \A i \in 1..Len(l) : l[i] # Colon
  PROVE  Identity(Token(l, p)) = [login |-> l, password |-> p]
<1>1. PICK t : t = Token(l, p)
  OBVIOUS
<1>2. PICK n : n = Len(l)
  OBVIOUS
<1>3. /\ t \in Seq(Chars) /\ n \in Nat /\ n + 1 \in 1..Len(t)
      /\ \A i \in 1..n : t[i] = l[i]
      /\ t[n + 1] = Colon
      /\ SubSeq(t, 1, n) = l /\ SubSeq(t, n + 2, Len(t)) = p
  <2>1. /\ Token(l, p) \in Seq(Chars)
        /\ Len(l) \in Nat /\ Len(p) \in Nat
        /\ Len(Token(l, p)) = Len(l) + 1 + Len(p)
        /\ \A i \in 1..Len(l) : Token(l, p)[i] = l[i]
        /\ Token(l, p)[Len(l) + 1] = Colon
        /\ SubSeq(Token(l, p), 1, Len(l)) = l
        /\ SubSeq(Token(l, p), Len(l) + 2, Len(Token(l, p))) = p
    BY TokenIs
  <2> QED
    BY <1>1, <1>2, <2>1
<1>4. (n + 1) - 1 = n /\ (n + 1) + 1 = n + 2 /\ \A i \in 1..n : t[i] # Colon
  BY <1>2, <1>3
<1>5. Identity(t) = [login |-> SubSeq(t, 1, n), password |-> SubSeq(t, n + 2, Len(t))]
  BY <1>3, <1>4, ApartAt
<1> QED
  BY <1>1, <1>3, <1>5

\* With any password a login comes back from the client's text exactly if it
\* has no colon.
THEOREM NoColonInLogins == Spec => []LoginNeedsNoColon
<1>1. Inv => LoginNeedsNoColon
  <2> SUFFICES ASSUME Inv,
                      NEW i \in 1..Len(login), login[i] = Colon
               PROVE  Identity(Token(login, password)).login # login
    <3>1. Inv => login \in Seq(Chars) /\ password \in Seq(Chars)
      BY DEF Inv, TypeOK
    <3> QED
      BY <3>1, ComesApart DEF LoginNeedsNoColon
  <2>1. login \in Seq(Chars) /\ password \in Seq(Chars)
    BY DEF Inv, TypeOK
  <2>2. PICK t : t = Token(login, password)
    OBVIOUS
  <2>3. /\ t \in Seq(Chars) /\ Len(login) \in Nat /\ i \in 1..Len(t) /\ t[i] = Colon
    <3>1. /\ Token(login, password) \in Seq(Chars)
          /\ Len(login) \in Nat /\ Len(password) \in Nat
          /\ Len(Token(login, password)) = Len(login) + 1 + Len(password)
          /\ Token(login, password)[i] = login[i]
      BY <2>1, TokenIs
    <3> QED
      BY <2>2, <3>1
  <2>4. PICK k \in 1..i : t[k] = Colon /\ \A j \in 1..(k - 1) : t[j] # Colon
    BY <2>3, FirstColon
  <2>5. Identity(t).login = SubSeq(t, 1, k - 1)
    <3>1. k \in 1..Len(t)
      BY <2>3
    <3> QED
      BY <2>3, <2>4, <3>1, ApartAt
  <2>6. Len(SubSeq(t, 1, k - 1)) = k - 1
    BY <2>3, SubSeqOfTyped
  <2>7. k - 1 # Len(login)
    BY <2>3
  <2> QED
    BY <2>2, <2>5, <2>6, <2>7
<1> QED
  BY <1>1, InitInv, NextInv, PTL DEF Spec

\* A text put together from a login without a colon and a password, and cut
\* after a line, comes apart as it was exactly if it fits the line, or if the
\* login fills the line and the password repeats it.
LEMMA CutComesApart ==
  ASSUME NEW l \in Seq(Chars), NEW p \in Seq(Chars),
         \A i \in 1..Len(l) : l[i] # Colon
  PROVE  Identity(Forwarded(l, p)) = [login |-> l, password |-> p]
           <=> Len(Token(l, p)) <= LineBytes \/ (Len(l) = LineBytes /\ p = l)
<1>1. PICK t : t = Token(l, p)
  OBVIOUS
<1>2. PICK n \in Nat \ {0} : n = LineBytes
  BY LineAssumption
<1>3. PICK a \in Nat : a = Len(l)
  BY TokenIs
<1>4. PICK b \in Nat : b = Len(p)
  BY TokenIs
<1>5. /\ t \in Seq(Chars) /\ Len(t) = a + 1 + b
      /\ \A i \in 1..a : t[i] = l[i] /\ t[i] # Colon
      /\ t[a + 1] = Colon
  BY <1>1, <1>3, <1>4, TokenIs
<1>6. CASE Len(t) <= n
  <2>1. Forwarded(l, p) = SubSeq(t, 1, Len(t))
    BY <1>1, <1>2, <1>5, <1>6 DEF Forwarded
  <2>2. SubSeq(t, 1, Len(t)) = t
    BY <1>5, SubSeqFull
  <2> QED
    BY <1>1, <1>2, <1>6, <2>1, <2>2, ComesApart
<1>7. CASE n < Len(t)
  <2>1. PICK f : f = Forwarded(l, p)
    OBVIOUS
  <2>2. f = SubSeq(t, 1, n)
    BY <1>1, <1>2, <1>5, <1>7, <2>1 DEF Forwarded
  <2>3. f \in Seq(Chars) /\ Len(f) = n /\ \A i \in 1..n : f[i] = t[i]
    <3>1. n \in 0..Len(t) /\ 1 <= n + 1
      BY <1>5, <1>7
    <3> QED
      BY <1>5, <2>2, <3>1, SubSeqOfTyped
  <2>4. CASE a < n
    <3>1. a + 1 \in 1..Len(f) /\ f[a + 1] = Colon /\ \A i \in 1..a : f[i] # Colon
      BY <1>5, <2>3, <2>4
    <3>2. PICK k \in 1..Len(f) : k = a + 1 /\ f[k] = Colon /\ k - 1 = a
      BY <3>1
    <3>3. Identity(f).password = SubSeq(f, k + 1, n)
      <4>1. \A i \in 1..(k - 1) : f[i] # Colon
        BY <3>1, <3>2
      <4>2. Identity(f) = [login    |-> SubSeq(f, 1, k - 1),
                           password |-> SubSeq(f, k + 1, Len(f))]
        BY <2>3, <3>2, <4>1, ApartAt
      <4> QED
        BY <2>3, <4>2
    <3>4. Len(SubSeq(f, k + 1, n)) = n - (k + 1) + 1
      <4>1. k + 1 \in Nat \ {0} /\ n \in 0..Len(f) /\ k + 1 <= n + 1
        BY <2>3, <3>2
      <4> QED
        BY <2>3, <4>1, SubSeqOfTyped
    <3>5. n - (k + 1) + 1 # b
      BY <1>5, <1>7, <3>2
    <3>6. Identity(f).password # p
      BY <1>4, <3>3, <3>4, <3>5
    <3> QED
      BY <1>1, <1>2, <1>3, <1>5, <1>7, <2>1, <2>4, <3>6
  <2>5. CASE n <= a
    <3>1. \A i \in 1..Len(f) : f[i] # Colon /\ f[i] = l[i]
      BY <1>5, <2>3, <2>5
    <3>2. Identity(f) = [login |-> f, password |-> f]
      BY <2>3, <3>1, NotApart
    <3>3. n = a => f = l
      BY <1>3, <2>3, <3>1, SameText
    <3>4. n # a => f # l
      BY <1>3, <2>3
    <3> QED
      BY <1>1, <1>2, <1>3, <1>5, <1>7, <2>1, <3>2, <3>3, <3>4
  <2> QED
    BY <2>4, <2>5
<1> QED
  BY <1>2, <1>5, <1>6, <1>7

\* Taken apart, put together, cut after a line and taken apart again a text of a
\* client names the same login and password exactly if they fit the line.
THEOREM ForwardedWholeUpToALine == Spec => []ForwardingKeepsIdentity
<1> DEFINE Kept(id) ==
      Identity(Forwarded(id.login, id.password)) = id
        <=> \/ Len(Token(id.login, id.password)) <= LineBytes
            \/ Len(id.login) = LineBytes /\ id.password = id.login
<1>1. ASSUME NEW text \in Seq(Chars)
      PROVE  Kept(Identity(text))
  <2>1. CASE \A i \in 1..Len(text) : text[i] # Colon
    <3>1. Identity(text) = [login |-> text, password |-> text]
      BY <2>1, NotApart
    <3>2. Kept([login |-> text, password |-> text])
      BY <2>1, CutComesApart
    <3> QED
      BY <3>1, <3>2
  <2>2. ASSUME NEW j \in 1..Len(text), text[j] = Colon
        PROVE  Kept(Identity(text))
    <3>1. PICK k \in 1..j : text[k] = Colon /\ \A i \in 1..(k - 1) : text[i] # Colon
      BY <2>2, FirstColon
    <3>2. k \in 1..Len(text)
      OBVIOUS
    <3>3. PICK l : l = SubSeq(text, 1, k - 1)
      OBVIOUS
    <3>4. PICK p : p = SubSeq(text, k + 1, Len(text))
      OBVIOUS
    <3>5. Identity(text) = [login |-> l, password |-> p]
      BY <3>1, <3>2, <3>3, <3>4, ApartAt
    <3>6. /\ l \in Seq(Chars) /\ p \in Seq(Chars) /\ Len(l) = k - 1
          /\ \A i \in 1..(k - 1) : l[i] = text[i]
      BY <3>2, <3>3, <3>4, SubSeqOfTyped
    <3>7. Kept([login |-> l, password |-> p])
      BY <3>1, <3>6, CutComesApart
    <3> QED
      BY <3>5, <3>7
  <2> QED
    BY <2>1, <2>2
<1>2. Inv => ForwardingKeepsIdentity
  <2> SUFFICES ASSUME Inv PROVE ForwardingKeepsIdentity
    OBVIOUS
  <2>1. login \in Seq(Chars) /\ password \in Seq(Chars)
    BY DEF Inv, TypeOK
  <2>2. login \o password \in Seq(Chars) /\ Token(login, password) \in Seq(Chars)
    BY <2>1, ConcatProperties, TokenIs
  <2> QED
    BY <1>1, <2>2 DEF ForwardingKeepsIdentity
<1> QED
  BY <1>2, InitInv, NextInv, PTL DEF Spec
=============================================================================
