---------------------------- MODULE CryptoProofs ----------------------------
(***************************************************************************)
(* The arithmetic of dh64 on words is that of integers modulo p, for every *)
(* width of the words and every prime that fits them; so both parties      *)
(* derive one secret, and no call panics.                                  *)
(*                                                                         *)
(* What one caller of AesEncryptCBC encrypts is what it was given,         *)
(* although padding is written into memory that callers share.             *)
(***************************************************************************)
EXTENDS MCCrypto, SequenceTheorems, WellFoundedInduction, TLAPS

-----------------------------------------------------------------------------
(***************************************************************************)
(* Induction, as a fact about sets of numbers.                             *)
(***************************************************************************)
LEMMA SmallestOf ==
  ASSUME NEW T \in SUBSET Nat, T # {}
  PROVE  \E n \in T : \A k \in T : n <= k
<1>1. PICK n \in T : \A k \in T : ~(<<k, n>> \in OpToRel(<, Nat))
  BY WFMin, NatLessThanWellFounded
<1>2. ASSUME NEW k \in T PROVE ~(k < n)
  <2>1. ~(<<k, n>> \in OpToRel(<, Nat))
    BY <1>1
  <2>2. <<k, n>> \in Nat \X Nat
    OBVIOUS
  <2> QED BY <2>1, <2>2 DEF OpToRel
<1> QED
  BY <1>2

LEMMA StrongInduction ==
  ASSUME NEW S, \A n \in Nat : (\A k \in 0..(n - 1) : k \in S) => n \in S
  PROVE  \A n \in Nat : n \in S
<1> DEFINE T == {n \in Nat : n \notin S}
<1> SUFFICES ASSUME T # {} PROVE FALSE
  OBVIOUS
<1>1. PICK n \in T : \A k \in T : n <= k
  BY SmallestOf
<1>2. \A k \in 0..(n - 1) : k \in S
  BY <1>1
<1> QED
  BY <1>2

LEMMA SetInduction ==
  ASSUME NEW S, 0 \in S, \A n \in Nat : n \in S => n + 1 \in S
  PROVE  \A n \in Nat : n \in S
<1>1. ASSUME NEW n \in Nat, \A k \in 0..(n - 1) : k \in S PROVE n \in S
  <2>1. CASE n = 0
    BY <2>1
  <2>2. CASE n # 0
    <3>1. n - 1 \in 0..(n - 1) /\ n - 1 \in Nat /\ (n - 1) + 1 = n
      BY <2>2
    <3>2. n - 1 \in S
      BY <1>1, <3>1
    <3> QED BY <3>1, <3>2
  <2> QED BY <2>1, <2>2
<1> QED
  BY <1>1, StrongInduction

-----------------------------------------------------------------------------
(***************************************************************************)
(* Residues.                                                               *)
(***************************************************************************)
Residues == 0..(p - 1)

LEMMA Constants ==
  /\ Half \in Nat /\ Half > 0 /\ Half % 2 = 0
  /\ p \in Nat /\ p >= 2 /\ p < Half * Half /\ Half * Half \in Nat
  /\ g \in Nat /\ g >= 2 /\ g < p
BY DH64Constants

LEMMA Division ==
  ASSUME NEW n \in Int
  PROVE  /\ n % p \in Residues /\ n \div p \in Int
         /\ n = p * (n \div p) + (n % p)
<1>1. p \in Nat /\ p > 0
  BY Constants
<1>2. n % p \in 0..(p - 1) /\ n \div p \in Int
  BY <1>1
<1>3. n % p = n - p * (n \div p)
  BY <1>1
<1> QED
  BY <1>1, <1>2, <1>3 DEF Residues

LEMMA Residue ==
  ASSUME NEW q \in Int, NEW r \in Residues
  PROVE  (p * q + r) % p = r
<1>1. p \in Nat /\ p > 0
  BY Constants
<1> QED
  BY <1>1 DEF Residues

LEMMA ModOfMultiple ==
  ASSUME NEW q \in Int, NEW n \in Int
  PROVE  (p * q + n) % p = n % p
<1>1. p \in Nat /\ p > 0
  BY Constants
<1>2. n % p \in Residues /\ n \div p \in Int /\ n = p * (n \div p) + (n % p)
  BY Division
<1>3. n % p \in Int
  BY <1>2, <1>1 DEF Residues
<1>4. p * q + n = p * (q + (n \div p)) + (n % p)
  <2> DEFINE d == n \div p
             r == n % p
  <2>1. d \in Int /\ r \in Int /\ n = p * d + r
    BY <1>2, <1>3
  <2> HIDE DEF d, r
  <2>2. p * q + n = p * (q + d) + r
    BY <1>1, <2>1
  <2> QED BY <2>2 DEF d, r
<1> QED
  BY <1>2, <1>4, Residue

LEMMA ModTimes ==
  ASSUME NEW x \in Int, NEW y \in Int
  PROVE  (x * (y % p)) % p = (x * y) % p
<1> DEFINE d == y \div p
           r == y % p
<1>1. p \in Nat /\ p > 0
  BY Constants
<1>2. d \in Int /\ r \in Int /\ y = p * d + r
  BY <1>1, Division DEF Residues
<1> HIDE DEF d, r
<1>3. x * y = p * (x * d) + x * r /\ x * d \in Int /\ x * r \in Int
  BY <1>1, <1>2
<1>4. (x * y) % p = (x * r) % p
  BY <1>3, ModOfMultiple
<1> QED
  BY <1>4 DEF r

LEMMA ModPlus ==
  ASSUME NEW x \in Int, NEW y \in Int
  PROVE  (x + (y % p)) % p = (x + y) % p
<1> DEFINE d == y \div p
           r == y % p
<1>1. p \in Nat /\ p > 0
  BY Constants
<1>2. d \in Int /\ r \in Int /\ y = p * d + r
  BY <1>1, Division DEF Residues
<1> HIDE DEF d, r
<1>3. x + y = p * d + (x + r) /\ x + r \in Int
  BY <1>1, <1>2
<1>4. (x + y) % p = (x + r) % p
  BY <1>2, <1>3, ModOfMultiple
<1> QED
  BY <1>4 DEF r

LEMMA OfResidue == ASSUME NEW r \in Residues PROVE r % p = r /\ r \in Nat /\ r < p
<1>1. p \in Nat /\ p > 0
  BY Constants
<1> QED
  BY <1>1 DEF Residues

-----------------------------------------------------------------------------
(***************************************************************************)
(* Powers.  factor is the body of the recursive function in PowMod.        *)
(***************************************************************************)
factor(a, n, r) == IF n = 0 THEN 1 ELSE (a * r) % p

IsPower(h, a, b) == h = [n \in 0..b |-> factor(a, n, h[n - 1])]

LEMMA PowerExists ==
  ASSUME NEW a, NEW b \in Nat
  PROVE  \E h : IsPower(h, a, b)
<1> DEFINE S == {n \in Nat : \E h : IsPower(h, a, n)}
<1>1. 0 \in S
  <2> DEFINE h == [n \in 0..0 |-> factor(a, 0, 0)]
  <2>1. \A n \in 0..0 : factor(a, n, h[n - 1]) = factor(a, 0, 0)
    BY DEF factor
  <2>2. IsPower(h, a, 0)
    BY <2>1 DEF IsPower
  <2> QED BY <2>2
<1>2. ASSUME NEW m \in Nat, m \in S PROVE m + 1 \in S
  <2>1. PICK h : IsPower(h, a, m)
    BY <1>2
  <2> DEFINE k == [n \in 0..(m + 1) |-> factor(a, n, h[n - 1])]
  <2>2. \A n \in 0..m : k[n] = h[n]
    BY <2>1 DEF IsPower
  <2>3. ASSUME NEW n \in 0..(m + 1) PROVE factor(a, n, h[n - 1]) = factor(a, n, k[n - 1])
    <3>1. CASE n = 0
      BY <3>1 DEF factor
    <3>2. CASE n # 0
      <4>1. n - 1 \in 0..m
        BY <3>2
      <4> QED BY <4>1, <2>2
    <3> QED BY <3>1, <3>2
  <2>4. IsPower(k, a, m + 1)
    BY <2>3 DEF IsPower
  <2> HIDE DEF k
  <2> QED BY <2>4
<1> HIDE DEF S
<1>3. b \in S
  BY <1>1, <1>2, SetInduction
<1> QED
  BY <1>3 DEF S

\* A power over a longer range agrees on the shorter one.
LEMMA PowersAgree ==
  ASSUME NEW a, NEW b \in Nat, NEW c \in Nat, b <= c, NEW h, IsPower(h, a, b), NEW k, IsPower(k, a, c)
  PROVE  h[b] = k[b]
<1> DEFINE S == {n \in Nat : n <= b => h[n] = k[n]}
<1>1. 0 \in S
  BY DEF IsPower, factor
<1>2. ASSUME NEW n \in Nat, n \in S PROVE n + 1 \in S
  <2> SUFFICES ASSUME n + 1 <= b PROVE h[n + 1] = k[n + 1]
    OBVIOUS
  <2>1. h[n] = k[n]
    BY <1>2
  <2>2. n + 1 \in 0..b /\ n + 1 \in 0..c /\ (n + 1) - 1 = n
    OBVIOUS
  <2>3. h[n + 1] = factor(a, n + 1, h[n]) /\ k[n + 1] = factor(a, n + 1, k[n])
    BY <2>2 DEF IsPower
  <2> QED BY <2>1, <2>3
<1> HIDE DEF S
<1>3. b \in S
  BY <1>1, <1>2, SetInduction
<1> QED
  BY <1>3 DEF S

LEMMA PowModIs ==
  ASSUME NEW a, NEW b \in Nat
  PROVE  \E h : IsPower(h, a, b) /\ PowMod(a, b) = h[b]
<1>1. PICK k : IsPower(k, a, b)
  BY PowerExists
<1> QED
  BY <1>1 DEF PowMod, IsPower, factor

LEMMA PowZero == ASSUME NEW a PROVE PowMod(a, 0) = 1
  BY PowModIs DEF IsPower, factor

LEMMA PowNext ==
  ASSUME NEW a, NEW b \in Nat
  PROVE  PowMod(a, b + 1) = (a * PowMod(a, b)) % p
<1>1. PICK h : IsPower(h, a, b) /\ PowMod(a, b) = h[b]
  BY PowModIs
<1>2. PICK k : IsPower(k, a, b + 1) /\ PowMod(a, b + 1) = k[b + 1]
  BY PowModIs
<1>3. h[b] = k[b]
  BY <1>1, <1>2, PowersAgree
<1>4. k[b + 1] = factor(a, b + 1, k[(b + 1) - 1])
  BY <1>2 DEF IsPower
<1>5. (b + 1) - 1 = b /\ b + 1 # 0
  OBVIOUS
<1> QED
  BY <1>1, <1>2, <1>3, <1>4, <1>5 DEF factor

LEMMA PowIsResidue ==
  ASSUME NEW a \in Nat, NEW b \in Nat
  PROVE  PowMod(a, b) \in Residues /\ PowMod(a, b) \in Nat
<1> DEFINE S == {n \in Nat : PowMod(a, n) \in Residues}
<1>0. \A r \in Residues : r \in Nat
  BY Constants DEF Residues
<1>1. 0 \in S
  BY PowZero, Constants DEF Residues
<1>2. ASSUME NEW n \in Nat, n \in S PROVE n + 1 \in S
  <2>1. PowMod(a, n) \in Nat
    BY <1>0, <1>2
  <2>2. a * PowMod(a, n) \in Int
    BY <2>1
  <2> QED BY <2>2, PowNext, Division
<1> HIDE DEF S
<1>3. b \in S
  BY <1>1, <1>2, SetInduction
<1> QED
  BY <1>0, <1>3 DEF S

LEMMA PowPlus ==
  ASSUME NEW a \in Nat, NEW m \in Nat, NEW n \in Nat
  PROVE  PowMod(a, m + n) = (PowMod(a, m) * PowMod(a, n)) % p
<1> DEFINE S == {k \in Nat : PowMod(a, m + k) = (PowMod(a, m) * PowMod(a, k)) % p}
<1>1. 0 \in S
  <2>1. PowMod(a, m) \in Residues /\ PowMod(a, m) \in Nat
    BY PowIsResidue
  <2>2. PowMod(a, m) * 1 = PowMod(a, m) /\ m + 0 = m
    BY <2>1
  <2> QED BY <2>1, <2>2, PowZero, OfResidue
<1>2. ASSUME NEW k \in Nat, k \in S PROVE k + 1 \in S
  <2> DEFINE x == PowMod(a, m)
             y == PowMod(a, k)
             z == PowMod(a, m + k)
  <2>1. x \in Nat /\ y \in Nat /\ z \in Nat
    <3>1. m + k \in Nat
      OBVIOUS
    <3> QED BY <3>1, PowIsResidue
  <2>2. z = (x * y) % p
    BY <1>2
  <2>3. PowMod(a, m + (k + 1)) = (a * z) % p
    <3>1. m + (k + 1) = (m + k) + 1 /\ m + k \in Nat
      OBVIOUS
    <3> QED BY <3>1, PowNext
  <2>4. PowMod(a, k + 1) = (a * y) % p
    BY PowNext
  <2> HIDE DEF x, y, z
  <2>5. (a * z) % p = (a * (x * y)) % p
    BY <2>1, <2>2, ModTimes
  <2>6. (x * ((a * y) % p)) % p = (x * (a * y)) % p
    BY <2>1, ModTimes
  <2>7. a * (x * y) = x * (a * y)
    BY <2>1
  <2>8. PowMod(a, m + (k + 1)) = (x * PowMod(a, k + 1)) % p
    BY <2>3, <2>4, <2>5, <2>6, <2>7
  <2> QED BY <2>8 DEF x
<1> HIDE DEF S
<1>3. n \in S
  BY <1>1, <1>2, SetInduction
<1> QED
  BY <1>3 DEF S

LEMMA PowTimes ==
  ASSUME NEW a \in Nat, NEW m \in Nat, NEW n \in Nat
  PROVE  PowMod(PowMod(a, m), n) = PowMod(a, m * n)
<1> DEFINE S == {k \in Nat : PowMod(PowMod(a, m), k) = PowMod(a, m * k)}
<1>1. 0 \in S
  <2>1. m * 0 = 0
    OBVIOUS
  <2> QED BY <2>1, PowZero
<1>2. ASSUME NEW k \in Nat, k \in S PROVE k + 1 \in S
  <2>1. PowMod(PowMod(a, m), k + 1) = (PowMod(a, m) * PowMod(PowMod(a, m), k)) % p
    BY PowNext
  <2>2. m * (k + 1) = m + m * k /\ m * k \in Nat
    OBVIOUS
  <2>3. PowMod(a, m + m * k) = (PowMod(a, m) * PowMod(a, m * k)) % p
    BY <2>2, PowPlus
  <2> QED BY <1>2, <2>1, <2>2, <2>3
<1> HIDE DEF S
<1>3. n \in S
  BY <1>1, <1>2, SetInduction
<1> QED
  BY <1>3 DEF S

-----------------------------------------------------------------------------
(***************************************************************************)
(* The words in between: neither the sum of two residues nor the double of *)
(* one needs to fit a word.                                                *)
(***************************************************************************)
LEMMA WordIs ==
  ASSUME NEW q \in Int, NEW n \in Words
  PROVE  Word(Half * Half * q + n) = n /\ n \in Nat
<1> DEFINE M == Half * Half
<1>1. M \in Nat /\ M > 0 /\ n \in 0..(M - 1)
  BY Constants DEF Words
<1> HIDE DEF M
<1>2. (M * q + n) % M = n
  BY <1>1
<1> QED
  BY <1>1, <1>2 DEF M, Word

LEMMA WordOfWord == ASSUME NEW n \in Words PROVE Word(n) = n /\ n \in Nat
<1>1. Half * Half * 0 + n = n /\ n \in Nat
  BY Constants DEF Words
<1> QED
  BY <1>1, WordIs

LEMMA ResiduesAreWords == Residues \subseteq Words /\ p \in Words /\ 0 \in Residues
<1> DEFINE M == Half * Half
<1>1. M \in Nat /\ p \in Nat /\ p < M /\ p >= 2
  BY Constants
<1> HIDE DEF M
<1>2. 0..(p - 1) \subseteq 0..(M - 1) /\ p \in 0..(M - 1)
  BY <1>1
<1> QED
  BY <1>1, <1>2 DEF M, Residues, Words

LEMMA GatherAdds ==
  ASSUME NEW m \in Residues, NEW x \in Residues, NEW n \in Nat
  PROVE  /\ gather(m, x, n) \in Residues
         /\ n % 2 = 0 => gather(m, x, n) = m
         /\ n % 2 # 0 => gather(m, x, n) = (m + x) % p
<1>1. p \in Nat /\ p > 0 /\ m \in Nat /\ x \in Nat /\ m < p /\ x < p
  BY Constants DEF Residues
<1>2. Word(p - x) = p - x
  <2>1. CASE x = 0
    <3>1. p - x = p
      BY <1>1, <2>1
    <3> QED BY <3>1, ResiduesAreWords, WordOfWord
  <2>2. CASE x # 0
    <3>1. p - x \in Residues
      BY <1>1, <2>2 DEF Residues
    <3> QED BY <3>1, ResiduesAreWords, WordOfWord
  <2> QED BY <2>1, <2>2
<1>3. CASE n % 2 = 0
  BY <1>3 DEF gather
<1>4. CASE n % 2 # 0 /\ m >= p - x
  <2>1. m - (p - x) \in Residues
    BY <1>1, <1>4 DEF Residues
  <2>2. Word(m - (p - x)) = m - (p - x)
    BY <2>1, ResiduesAreWords, WordOfWord
  <2>3. m + x = p * 1 + (m - (p - x))
    BY <1>1
  <2>4. (m + x) % p = m - (p - x)
    BY <2>1, <2>3, Residue
  <2> QED BY <1>2, <1>4, <2>1, <2>2, <2>4 DEF gather
<1>5. CASE n % 2 # 0 /\ ~(m >= p - x)
  <2>1. m + x \in Residues
    BY <1>1, <1>5 DEF Residues
  <2>2. Word(m + x) = m + x
    BY <2>1, ResiduesAreWords, WordOfWord
  <2>3. (m + x) % p = m + x
    BY <2>1, OfResidue
  <2> QED BY <1>2, <1>5, <2>1, <2>2, <2>3 DEF gather
<1> QED
  BY <1>3, <1>4, <1>5

\* Where a*2 does not fit a word, the difference a*2 - p wraps around back.
LEMMA TwiceDoubles ==
  ASSUME NEW a \in Residues
  PROVE  twice(a) \in Residues /\ twice(a) = (2 * a) % p
<1> DEFINE M == Half * Half
<1>1. p \in Nat /\ p > 0 /\ a \in Nat /\ a < p /\ M \in Nat /\ p < M
  BY Constants DEF Residues
<1>2. Word(p - a) = p - a
  <2>1. CASE a = 0
    <3>1. p - a = p
      BY <1>1, <2>1
    <3> QED BY <3>1, ResiduesAreWords, WordOfWord
  <2>2. CASE a # 0
    <3>1. p - a \in Residues
      BY <1>1, <2>2 DEF Residues
    <3> QED BY <3>1, ResiduesAreWords, WordOfWord
  <2> QED BY <2>1, <2>2
<1>3. CASE a >= p - a
  <2>1. a * 2 - p \in Residues
    BY <1>1, <1>3 DEF Residues
  <2>2. 2 * a = p * 1 + (a * 2 - p)
    BY <1>1
  <2>3. (2 * a) % p = a * 2 - p
    BY <2>1, <2>2, Residue
  <2>4. a * 2 - p \in Words
    BY <2>1, ResiduesAreWords
  <2>5. Word(Word(a * 2) - p) = a * 2 - p
    <3>1. CASE a * 2 < M
      <4>1. a * 2 \in Words
        BY <1>1, <3>1 DEF Words
      <4> QED BY <2>4, <4>1, WordOfWord
    <3>2. CASE ~(a * 2 < M)
      <4>1. a * 2 - M \in Words
        BY <1>1, <3>2 DEF Words
      <4>2. a * 2 = M * 1 + (a * 2 - M)
        BY <1>1
      <4>3. Word(a * 2) = a * 2 - M
        BY <4>1, <4>2, WordIs
      <4>4. (a * 2 - M) - p = M * (-1) + (a * 2 - p)
        BY <1>1
      <4> QED BY <2>4, <4>3, <4>4, WordIs
    <3> QED BY <3>1, <3>2
  <2> QED BY <1>2, <1>3, <2>1, <2>3, <2>5 DEF twice
<1>4. CASE ~(a >= p - a)
  <2>1. a * 2 \in Residues /\ 2 * a = a * 2
    BY <1>1, <1>4 DEF Residues
  <2>2. Word(a * 2) = a * 2
    BY <2>1, ResiduesAreWords, WordOfWord
  <2> QED BY <1>2, <1>4, <2>1, <2>2, OfResidue DEF twice
<1> QED
  BY <1>3, <1>4

-----------------------------------------------------------------------------
(***************************************************************************)
(* Multiplication.  doubling is the body of the recursive function in      *)
(* mul_mod_p.                                                              *)
(***************************************************************************)
doubling(n, r) ==
  [m \in Words |-> [x \in Words |->
     IF n = 0 THEN m ELSE r[gather(m, x, n)][twice(x)]]]

IsLoop(h, N) == h = [n \in 0..N |-> doubling(n, h[n \div 2])]

LEMMA Halved ==
  ASSUME NEW n \in Nat
  PROVE  /\ n \div 2 \in Nat /\ n = 2 * (n \div 2) + (n % 2) /\ n % 2 \in {0, 1}
         /\ n # 0 => n \div 2 \in 0..(n - 1)
         /\ n # 0 /\ n # 1 => n \div 2 # 0
<1>1. n \div 2 \in Int /\ n % 2 \in 0..1 /\ n % 2 = n - 2 * (n \div 2)
  OBVIOUS
<1> QED
  BY <1>1

LEMMA LoopExists ==
  ASSUME NEW N \in Nat
  PROVE  \E h : IsLoop(h, N)
<1> DEFINE S == {n \in Nat : \E h : IsLoop(h, n)}
<1>1. 0 \in S
  <2> DEFINE h == [n \in 0..0 |-> doubling(0, 0)]
  <2>1. \A n \in 0..0 : doubling(n, h[n \div 2]) = doubling(0, 0)
    BY DEF doubling
  <2>2. IsLoop(h, 0)
    BY <2>1 DEF IsLoop
  <2> QED BY <2>2
<1>2. ASSUME NEW m \in Nat, m \in S PROVE m + 1 \in S
  <2>1. PICK h : IsLoop(h, m)
    BY <1>2
  <2> DEFINE k == [n \in 0..(m + 1) |-> doubling(n, h[n \div 2])]
  <2>2. \A n \in 0..m : k[n] = h[n]
    BY <2>1 DEF IsLoop
  <2>3. ASSUME NEW n \in 0..(m + 1) PROVE doubling(n, h[n \div 2]) = doubling(n, k[n \div 2])
    <3>1. CASE n = 0
      BY <3>1 DEF doubling
    <3>2. CASE n # 0
      <4>1. n \div 2 \in 0..m
        BY <3>2, Halved
      <4> QED BY <4>1, <2>2
    <3> QED BY <3>1, <3>2
  <2>4. IsLoop(k, m + 1)
    BY <2>3 DEF IsLoop
  <2> HIDE DEF k
  <2> QED BY <2>4
<1> HIDE DEF S
<1>3. N \in S
  BY <1>1, <1>2, SetInduction
<1> QED
  BY <1>3 DEF S

\* What is left to add is the residue doubled so far, as often as the bits left say.
LEMMA LoopAdds ==
  ASSUME NEW N \in Nat, NEW h, IsLoop(h, N)
  PROVE  \A n \in 0..N : \A m, x \in Residues : h[n][m][x] = (m + n * x) % p
<1> DEFINE S == {n \in Nat : n <= N => \A m, x \in Residues : h[n][m][x] = (m + n * x) % p}
<1>1. ASSUME NEW n \in Nat, \A k \in 0..(n - 1) : k \in S PROVE n \in S
  <2> SUFFICES ASSUME n <= N, NEW m \in Residues, NEW x \in Residues
               PROVE  h[n][m][x] = (m + n * x) % p
    OBVIOUS
  <2>1. m \in Words /\ x \in Words /\ m \in Nat /\ x \in Nat
    BY ResiduesAreWords, OfResidue
  <2>2. h[n] = doubling(n, h[n \div 2])
    <3>1. n \in 0..N
      OBVIOUS
    <3> QED BY <3>1 DEF IsLoop
  <2>3. h[n][m][x] = IF n = 0 THEN m ELSE h[n \div 2][gather(m, x, n)][twice(x)]
    BY <2>1, <2>2 DEF doubling
  <2>4. CASE n = 0
    <3>1. m + n * x = m
      BY <2>1, <2>4
    <3> QED BY <2>3, <2>4, <3>1, OfResidue
  <2>5. CASE n # 0
    <3> DEFINE k == n \div 2
               y == gather(m, x, n)
               z == twice(x)
    <3>1. k \in Nat /\ k \in 0..(n - 1) /\ n = 2 * k + (n % 2) /\ n % 2 \in {0, 1}
      BY <2>5, Halved
    <3>2. y \in Residues /\ z \in Residues /\ z = (2 * x) % p
      BY GatherAdds, TwiceDoubles
    <3>3. n % 2 # 0 => y = (m + x) % p
      BY GatherAdds
    <3>4. n % 2 = 0 => y = m
      BY GatherAdds
    <3>5. y \in Nat /\ z \in Nat
      BY <3>2, OfResidue
    <3>6. k \in S /\ k <= N
      BY <1>1, <3>1
    <3>7. h[k][y][z] = (y + k * z) % p
      BY <3>2, <3>6
    <3> HIDE DEF k, y, z
    <3>8. (k * z) % p = (k * (2 * x)) % p
      BY <2>1, <3>1, <3>2, ModTimes
    <3>9. (y + k * z) % p = (y + k * (2 * x)) % p
      <4>1. k * z \in Int /\ k * (2 * x) \in Int
        <5>1. 2 * x \in Int
          BY <2>1
        <5> QED BY <3>1, <3>5, <5>1
      <4> DEFINE c == k * z
                 d == k * (2 * x)
      <4>2. c \in Int /\ d \in Int /\ c % p = d % p
        BY <3>8, <4>1
      <4> HIDE DEF c, d
      <4>3. (y + (c % p)) % p = (y + c) % p
        BY <3>5, <4>2, ModPlus
      <4>4. (y + (d % p)) % p = (y + d) % p
        BY <3>5, <4>2, ModPlus
      <4>5. (y + c) % p = (y + d) % p
        BY <4>2, <4>3, <4>4
      <4> QED BY <4>5 DEF c, d
    <3>10. CASE n % 2 = 0
      <4>1. y = m /\ n = 2 * k
        BY <3>1, <3>4, <3>10
      <4>2. k * (2 * x) = n * x
        BY <2>1, <3>1, <4>1
      <4> QED BY <2>3, <2>5, <3>7, <3>9, <4>1, <4>2 DEF k, y, z
    <3>11. CASE n % 2 = 1
      <4>1. n = 2 * k + 1
        BY <3>1, <3>11
      <4>2. y = (m + x) % p
        BY <3>3, <3>11
      <4>3. k * (2 * x) \in Int /\ m + x \in Int
        <5>1. 2 * x \in Int
          BY <2>1
        <5> QED BY <2>1, <3>1, <5>1
      <4>4. (k * (2 * x) + y) % p = (k * (2 * x) + (m + x)) % p
        BY <4>2, <4>3, ModPlus
      <4>5. y + k * (2 * x) = k * (2 * x) + y
        BY <3>5, <4>3
      <4>6. k * (2 * x) + (m + x) = m + n * x
        BY <2>1, <3>1, <4>1
      <4> QED BY <2>3, <2>5, <3>7, <3>9, <4>4, <4>5, <4>6 DEF k, y, z
    <3> QED BY <3>1, <3>10, <3>11
  <2> QED BY <2>4, <2>5
<1> HIDE DEF S
<1>2. \A n \in Nat : n \in S
  BY <1>1, StrongInduction
<1> QED
  BY <1>2 DEF S

LEMMA MulIsExact ==
  ASSUME NEW a \in Residues, NEW b \in Residues
  PROVE  mul_mod_p(a, b) = (a * b) % p /\ mul_mod_p(a, b) \in Residues
<1> DEFINE N == Half * Half - 1
           loop == CHOOSE h : IsLoop(h, N)
<1>1. N \in Nat /\ Words = 0..N
  BY Constants DEF Words
<1>2. IsLoop(loop, N)
  BY <1>1, LoopExists
<1>3. mul_mod_p(a, b) = loop[b][0][a]
  BY <1>1 DEF mul_mod_p, IsLoop, doubling
<1>4. b \in 0..N /\ 0 \in Residues /\ b \in Nat /\ a \in Nat
  BY <1>1, ResiduesAreWords, OfResidue
<1> HIDE DEF loop, N
<1>5. loop[b][0][a] = (0 + b * a) % p
  BY <1>1, <1>2, <1>4, LoopAdds
<1>6. 0 + b * a = a * b /\ a * b \in Int
  BY <1>4
<1> QED
  BY <1>3, <1>5, <1>6, Division

-----------------------------------------------------------------------------
(***************************************************************************)
(* Powers by squaring.  squaring is the body of the recursive function in  *)
(* pow_mod_p.                                                              *)
(***************************************************************************)
squaring(a, n, r) ==
  IF n = 1 THEN a
  ELSE LET tt == mul_mod_p(r, r) IN IF n % 2 > 0 THEN mul_mod_p(tt, a) ELSE tt

IsSquares(h, a, N) == h = [n \in 1..N |-> squaring(a, n, h[n \div 2])]

LEMMA SquaresExist ==
  ASSUME NEW a, NEW N \in Nat
  PROVE  \E h : IsSquares(h, a, N)
<1> DEFINE S == {n \in Nat : \E h : IsSquares(h, a, n)}
<1>1. 0 \in S
  <2> DEFINE h == [n \in 1..0 |-> 0]
  <2>1. \A k : h = [n \in 1..0 |-> squaring(a, n, k[n \div 2])]
    OBVIOUS
  <2>2. IsSquares(h, a, 0)
    BY <2>1 DEF IsSquares
  <2> QED BY <2>2
<1>2. ASSUME NEW m \in Nat, m \in S PROVE m + 1 \in S
  <2>1. PICK h : IsSquares(h, a, m)
    BY <1>2
  <2> DEFINE k == [n \in 1..(m + 1) |-> squaring(a, n, h[n \div 2])]
  <2>2. \A n \in 1..m : k[n] = h[n]
    BY <2>1 DEF IsSquares
  <2>3. ASSUME NEW n \in 1..(m + 1) PROVE squaring(a, n, h[n \div 2]) = squaring(a, n, k[n \div 2])
    <3>1. CASE n = 1
      BY <3>1 DEF squaring
    <3>2. CASE n # 1
      <4>1. n \div 2 \in 1..m
        BY <3>2, Halved
      <4> QED BY <4>1, <2>2
    <3> QED BY <3>1, <3>2
  <2>4. IsSquares(k, a, m + 1)
    BY <2>3 DEF IsSquares
  <2> HIDE DEF k
  <2> QED BY <2>4
<1> HIDE DEF S
<1>3. N \in S
  BY <1>1, <1>2, SetInduction
<1> QED
  BY <1>3 DEF S

LEMMA SquaresArePowers ==
  ASSUME NEW a \in Residues, NEW N \in Nat, NEW h, IsSquares(h, a, N)
  PROVE  \A n \in 1..N : h[n] = PowMod(a, n)
<1> DEFINE S == {n \in Nat : n \in 1..N => h[n] = PowMod(a, n)}
<1>0. a \in Nat
  BY OfResidue
<1>1. ASSUME NEW n \in Nat, \A k \in 0..(n - 1) : k \in S PROVE n \in S
  <2> SUFFICES ASSUME n \in 1..N PROVE h[n] = PowMod(a, n)
    OBVIOUS
  <2>1. h[n] = squaring(a, n, h[n \div 2])
    BY DEF IsSquares
  <2>2. CASE n = 1
    <3>1. PowMod(a, 0 + 1) = (a * PowMod(a, 0)) % p
      BY PowNext
    <3>2. a * 1 = a /\ 0 + 1 = n
      BY <1>0, <2>2
    <3> QED BY <2>1, <2>2, <3>1, <3>2, PowZero, OfResidue DEF squaring
  <2>3. CASE n # 1
    <3> DEFINE k == n \div 2
               t == PowMod(a, k)
               tt == mul_mod_p(t, t)
    <3>1. k \in Nat /\ k \in 1..N /\ k \in 0..(n - 1) /\ n = 2 * k + (n % 2) /\ n % 2 \in {0, 1}
      BY <2>3, Halved
    <3>2. h[k] = t
      BY <1>1, <3>1
    <3>3. t \in Residues
      BY <1>0, <3>1, PowIsResidue
    <3>4. tt \in Residues /\ tt = (t * t) % p
      BY <3>3, MulIsExact
    <3>5. PowMod(a, k + k) = tt
      BY <1>0, <3>1, <3>4, PowPlus
    <3>6. h[n] = IF n % 2 > 0 THEN mul_mod_p(tt, a) ELSE tt
      BY <2>1, <2>3, <3>2 DEF squaring
    <3>7. CASE n % 2 = 0
      <4>1. k + k = n /\ ~(n % 2 > 0)
        BY <3>1, <3>7
      <4> QED BY <3>5, <3>6, <4>1
    <3>8. CASE n % 2 = 1
      <4>1. (k + k) + 1 = n /\ n % 2 > 0 /\ k + k \in Nat
        BY <3>1, <3>8
      <4>2. PowMod(a, n) = (a * PowMod(a, k + k)) % p
        BY <1>0, <4>1, PowNext
      <4>3. mul_mod_p(tt, a) = (tt * a) % p
        BY <3>4, MulIsExact
      <4>4. tt * a = a * tt
        <5>1. tt \in Nat
          BY <3>4, OfResidue
        <5> HIDE DEF tt
        <5> QED BY <1>0, <5>1
      <4> QED BY <3>5, <3>6, <4>1, <4>2, <4>3, <4>4
    <3> QED BY <3>1, <3>7, <3>8
  <2> QED BY <2>2, <2>3
<1> HIDE DEF S
<1>2. \A n \in Nat : n \in S
  BY <1>1, StrongInduction
<1> QED
  BY <1>2 DEF S

LEMMA PowIsExact ==
  ASSUME NEW a \in Residues, NEW b \in Words \ {0}
  PROVE  pow_mod_p(a, b) = PowMod(a, b)
<1> DEFINE N == Half * Half - 1
           pow == CHOOSE h : IsSquares(h, a, N)
<1>1. N \in Nat /\ Words \ {0} = 1..N
  BY Constants DEF Words
<1>2. IsSquares(pow, a, N)
  BY <1>1, SquaresExist
<1>3. pow_mod_p(a, b) = pow[b]
  BY <1>1 DEF pow_mod_p, IsSquares, squaring
<1> HIDE DEF pow, N
<1> QED
  BY <1>1, <1>2, <1>3, SquaresArePowers

-----------------------------------------------------------------------------
(***************************************************************************)
(* Modulo a prime no product of two residues is zero unless one of them    *)
(* is: the smallest multiplier that makes b a multiple of p divides p.     *)
(***************************************************************************)
LEMMA NoZeroDivisors ==
  ASSUME NEW a \in Residues, NEW b \in Residues, a # 0, b # 0
  PROVE  (a * b) % p # 0
<1> SUFFICES ASSUME (a * b) % p = 0 PROVE FALSE
  OBVIOUS
<1> DEFINE T == {n \in Nat : n > 0 /\ (n * b) % p = 0}
<1>1. a \in Nat /\ b \in Nat /\ a > 0 /\ b > 0 /\ a < p /\ b < p /\ p \in Nat
  BY OfResidue, Constants
<1>2. a \in T
  BY <1>1
<1>3. PICK d \in T : \A n \in T : d <= n
  <2>1. T \in SUBSET Nat /\ T # {}
    BY <1>2
  <2> HIDE DEF T
  <2> QED BY <2>1, SmallestOf
<1>4. d \in Nat /\ d > 0 /\ d < p /\ (d * b) % p = 0
  BY <1>1, <1>2, <1>3
<1>5. d # 1
  <2>1. 1 * b = b /\ b % p = b
    BY <1>1, OfResidue
  <2> QED BY <1>1, <1>4, <2>1
<1> DEFINE q == p \div d
           r == p % d
           e == (d * b) \div p
<1>6. q \in Int /\ r \in Nat /\ r < d /\ p = d * q + r
  <2>1. p % d \in 0..(d - 1) /\ p \div d \in Int /\ p % d = p - d * (p \div d)
    BY <1>1, <1>4
  <2> QED BY <1>1, <1>4, <2>1
<1>7. e \in Int /\ d * b = p * e
  <2>1. d * b \in Int
    BY <1>1, <1>4
  <2>2. e \in Int /\ d * b = p * e + ((d * b) % p)
    BY <2>1, Division
  <2> HIDE DEF e
  <2> QED BY <1>1, <1>4, <2>2
<1> HIDE DEF q, r, e
<1>8. r * b = p * (b - q * e) + 0
  <2>1. p * b = (d * q + r) * b
    BY <1>6
  <2>2. (d * q + r) * b = q * (d * b) + r * b
    BY <1>1, <1>4, <1>6
  <2>3. q * (p * e) = p * (q * e)
    BY <1>1, <1>6, <1>7
  <2>4. q * e \in Int /\ r * b \in Int /\ p * b \in Int /\ p * (q * e) \in Int
    BY <1>1, <1>6, <1>7
  <2>5. r * b = p * b - p * (q * e)
    BY <1>7, <2>1, <2>2, <2>3, <2>4
  <2>6. p * b - p * (q * e) = p * (b - q * e)
    BY <1>1, <2>4
  <2> QED BY <1>1, <2>4, <2>5, <2>6
<1>9. (r * b) % p = 0
  <2>1. b - q * e \in Int /\ 0 \in Residues
    BY <1>1, <1>6, <1>7, ResiduesAreWords
  <2> QED BY <1>8, <2>1, Residue
<1>10. r = 0
  <2>1. r \notin T
    BY <1>3, <1>4, <1>6
  <2> QED BY <1>6, <1>9, <2>1
<1>11. p % d = 0 /\ d \in 2..(p - 1)
  BY <1>1, <1>4, <1>5, <1>10 DEF r
<1> QED
  BY <1>11, DH64Constants

LEMMA PowersAreNotZero ==
  ASSUME NEW a \in Residues, a # 0, NEW b \in Nat
  PROVE  PowMod(a, b) # 0
<1> DEFINE S == {n \in Nat : PowMod(a, n) # 0}
<1>0. a \in Nat
  BY OfResidue
<1>1. 0 \in S
  BY PowZero
<1>2. ASSUME NEW n \in Nat, n \in S PROVE n + 1 \in S
  BY <1>0, <1>2, PowNext, PowIsResidue, NoZeroDivisors
<1> HIDE DEF S
<1>3. b \in S
  BY <1>1, <1>2, SetInduction
<1> QED
  BY <1>3 DEF S

-----------------------------------------------------------------------------
(***************************************************************************)
(* The exchange.  What a party publishes and derives follows from the      *)
(* private keys; Derive needs both, and no key is drawn twice.             *)
(***************************************************************************)
KeyInv ==
  /\ priv \in [Parties -> Words]
  /\ pub \in [Parties -> Residues]
  /\ secret \in [Parties -> Residues]
  /\ \A q \in Parties :
       /\ pub[q] = IF priv[q] = 0 THEN 0 ELSE PowMod(g, priv[q])
       /\ secret[q] # 0 => /\ priv[q] # 0 /\ priv[Other(q)] # 0
                           /\ secret[q] = PowMod(pub[Other(q)], priv[q])

LEMMA Others ==
  ASSUME NEW q \in Parties
  PROVE  Other(q) \in Parties /\ Other(q) # q /\ Other(Other(q)) = q
<1>1. PICK r, s \in Parties : r # s /\ Parties = {r, s}
  BY DH64Constants
<1>2. \A x \in Parties : Other(x) \in Parties /\ Other(x) # x
  BY <1>1 DEF Other
<1> QED
  BY <1>1, <1>2

\* A private key is a word, and never zero.
LEMMA PrivateKeys ==
  ASSUME NEW a \in 0..(Half - 1), NEW b \in 0..(Half - 1)
  PROVE  privateKey(a, b) \in Words \ {0}
<1>1. Half \in Nat /\ Half > 0 /\ Half % 2 = 0 /\ a \in Nat /\ b \in Nat /\ a < Half /\ b < Half
  BY Constants
<1>2. \A n \in 0..(Half - 1) : n * Half <= (Half - 1) * Half /\ n * Half \in Nat
  BY <1>1
<1>3. (Half - 1) * Half = Half * Half - Half /\ Half * Half \in Nat
  BY <1>1
<1>4. CASE b + 1 < Half
  <2> DEFINE k == a * Half
             M == Half * Half
  <2>1. k \in Nat /\ M \in Nat /\ k <= M - Half
    BY <1>2, <1>3
  <2> HIDE DEF k, M
  <2>2. k + (b + 1) \in (0..(M - 1)) \ {0}
    BY <1>1, <1>4, <2>1
  <2> QED BY <1>4, <2>2 DEF privateKey, Words, k, M
<1>5. CASE ~(b + 1 < Half)
  <2> DEFINE n == a - (a % 2) + 1
  <2>1. n \in 0..(Half - 1) /\ n >= 1
    <3>1. a % 2 = a - 2 * (a \div 2) /\ a \div 2 \in Int /\ a % 2 \in 0..1
      BY <1>1
    <3>2. 0 = Half - 2 * (Half \div 2) /\ Half \div 2 \in Int
      BY <1>1
    <3> QED BY <1>1, <3>1, <3>2
  <2> HIDE DEF n
  <2>2. n * Half \in Nat /\ n * Half <= Half * Half - Half /\ n * Half >= Half
    BY <1>1, <1>2, <1>3, <2>1
  <2> DEFINE k == n * Half
             M == Half * Half
  <2>3. k \in Nat /\ M \in Nat /\ k <= M - Half /\ k >= Half
    BY <1>3, <2>2
  <2> HIDE DEF k, M
  <2>4. k \in (0..(M - 1)) \ {0}
    BY <1>1, <2>3
  <2> QED BY <1>5, <2>4 DEF privateKey, Words, k, M, n
<1> QED
  BY <1>4, <1>5

LEMMA KeysAreExact ==
  ASSUME NEW a \in Residues \ {0}, NEW b \in Words \ {0}
  PROVE  /\ powmodp(a, b) = PowMod(a, b)
         /\ powmodp(a, b) \in Residues \ {0}
<1>1. a \in Nat /\ ~(a > p) /\ p \in Nat
  BY OfResidue, Constants
<1>2. powmodp(a, b) = PowMod(a, b)
  BY <1>1, PowIsExact DEF powmodp
<1>3. b \in Nat
  BY WordOfWord
<1> QED
  BY <1>1, <1>2, <1>3, PowIsResidue, PowersAreNotZero

LEMMA KeyInvInit == ASSUME Init PROVE KeyInv
BY ResiduesAreWords, Others DEF Init, KeyInv

LEMMA KeyInvKeyPair ==
  ASSUME KeyInv, NEW q \in Parties, KeyPair(q)
  PROVE  KeyInv'
<1>1. PICK a \in 0..(Half - 1), b \in 0..(Half - 1) :
        /\ priv' = [priv EXCEPT ![q] = privateKey(a, b)]
        /\ pub' = [pub EXCEPT ![q] = PublicKey(privateKey(a, b))]
  BY DEF KeyPair
<1>2. PICK k : k = privateKey(a, b)
  OBVIOUS
<1>3. k \in Words \ {0}
  BY <1>2, PrivateKeys
<1>4. g \in Residues \ {0}
  BY Constants DEF Residues
<1>5. PublicKey(k) = PowMod(g, k) /\ PublicKey(k) \in Residues \ {0}
  BY <1>3, <1>4, KeysAreExact DEF PublicKey
<1>6. /\ priv' = [priv EXCEPT ![q] = k] /\ pub' = [pub EXCEPT ![q] = PowMod(g, k)]
      /\ secret' = secret /\ priv[q] = 0
  BY <1>1, <1>2, <1>5 DEF KeyPair
<1>7. priv' \in [Parties -> Words] /\ pub' \in [Parties -> Residues] /\ secret' \in [Parties -> Residues]
  BY <1>3, <1>5, <1>6 DEF KeyInv
<1>8. ASSUME NEW r \in Parties
      PROVE  /\ pub'[r] = IF priv'[r] = 0 THEN 0 ELSE PowMod(g, priv'[r])
             /\ secret'[r] # 0 => /\ priv'[r] # 0 /\ priv'[Other(r)] # 0
                                  /\ secret'[r] = PowMod(pub'[Other(r)], priv'[r])
  <2>1. pub'[r] = IF priv'[r] = 0 THEN 0 ELSE PowMod(g, priv'[r])
    BY <1>3, <1>6 DEF KeyInv
  <2>2. ASSUME secret'[r] # 0 PROVE r # q /\ Other(r) # q
    BY <1>6, <2>2, Others DEF KeyInv
  <2> QED BY <1>6, <2>1, <2>2, Others DEF KeyInv
<1> QED
  BY <1>7, <1>8 DEF KeyInv

LEMMA KeyInvDerive ==
  ASSUME KeyInv, NEW q \in Parties, Derive(q)
  PROVE  KeyInv'
<1>1. priv[q] \in Words \ {0} /\ priv[Other(q)] \in Words \ {0}
  BY Others DEF KeyInv, Derive
<1>2. pub[Other(q)] = PowMod(g, priv[Other(q)]) /\ pub[Other(q)] \in Residues
  BY <1>1, Others DEF KeyInv
<1>3. pub[Other(q)] # 0
  <2>1. g \in Residues /\ g # 0
    BY Constants DEF Residues
  <2>2. priv[Other(q)] \in Nat
    BY <1>1, WordOfWord
  <2> QED BY <1>2, <2>1, <2>2, PowersAreNotZero
<1>4. PICK s : s = PowMod(pub[Other(q)], priv[q])
  OBVIOUS
<1>5. secret' = [secret EXCEPT ![q] = s] /\ s \in Residues
  BY <1>1, <1>2, <1>3, <1>4, KeysAreExact DEF Derive, Secret
<1>6. priv' = priv /\ pub' = pub
  BY DEF Derive
<1>7. secret' \in [Parties -> Residues]
  BY <1>5 DEF KeyInv
<1>8. ASSUME NEW r \in Parties, secret'[r] # 0
      PROVE  priv[r] # 0 /\ priv[Other(r)] # 0 /\ secret'[r] = PowMod(pub[Other(r)], priv[r])
  BY <1>1, <1>4, <1>5, <1>8 DEF KeyInv
<1> QED
  BY <1>6, <1>7, <1>8 DEF KeyInv

LEMMA KeyInvariant == Spec => []KeyInv
<1>1. ASSUME KeyInv, [Next]_vars PROVE KeyInv'
  <2>1. CASE UNCHANGED vars
    BY <1>1, <2>1 DEF vars, KeyInv
  <2> QED BY <1>1, <2>1, KeyInvKeyPair, KeyInvDerive DEF Next
<1> QED
  BY <1>1, KeyInvInit, PTL DEF Spec

(***************************************************************************)
(* Type correctness.                                                       *)
(***************************************************************************)
THEOREM TypeCorrect == Spec => []TypeOK
<1>1. KeyInv => TypeOK
  BY ResiduesAreWords DEF KeyInv, TypeOK
<1> QED
  BY <1>1, KeyInvariant, PTL

(***************************************************************************)
(* Every public key is the power of the base, and every secret the power   *)
(* of the key received, in the integers modulo p, although doubles and     *)
(* sums of residues wrap around on words (PowersAreExact).                 *)
(***************************************************************************)
THEOREM ArithmeticIsExact == Spec => []PowersAreExact
<1>1. KeyInv => PowersAreExact
  BY DEF KeyInv, PowersAreExact
<1> QED
  BY <1>1, KeyInvariant, PTL

(***************************************************************************)
(* Both parties derive the same secret: the power of the base by the       *)
(* product of their keys (SecretsAgree).                                   *)
(***************************************************************************)
THEOREM SecretsMatch == Spec => []SecretsAgree
<1>1. ASSUME KeyInv, NEW q \in Parties, secret[q] # 0
      PROVE  secret[q] = PowMod(g, priv[Other(q)] * priv[q])
  <2>1. priv[q] \in Nat /\ priv[Other(q)] \in Nat
    BY <1>1, Others, WordOfWord DEF KeyInv
  <2>2. secret[q] = PowMod(PowMod(g, priv[Other(q)]), priv[q])
    BY <1>1, Others DEF KeyInv
  <2> QED BY <2>1, <2>2, PowTimes, Constants
<1>2. ASSUME KeyInv, NEW q \in Parties, secret[q] # 0, secret[Other(q)] # 0
      PROVE  secret[q] = secret[Other(q)]
  <2>1. secret[q] = PowMod(g, priv[Other(q)] * priv[q])
    BY <1>1, <1>2
  <2>2. secret[Other(q)] = PowMod(g, priv[q] * priv[Other(q)])
    BY <1>1, <1>2, Others
  <2>3. priv[q] \in Nat /\ priv[Other(q)] \in Nat
    BY <1>2, Others, WordOfWord DEF KeyInv
  <2>4. priv[q] * priv[Other(q)] = priv[Other(q)] * priv[q]
    BY <2>3
  <2> QED BY <2>1, <2>2, <2>4
<1>3. KeyInv => SecretsAgree
  BY <1>2 DEF SecretsAgree
<1> QED
  BY <1>3, KeyInvariant, PTL

(***************************************************************************)
(* No draw leads to a panic: neither half-word sum is a private key of     *)
(* zero, and modulo a prime no public key is zero (NeverPanics).           *)
(***************************************************************************)
THEOREM NoCallPanics == Spec => []NeverPanics
<1>1. \A r \in Residues : r # Panic
  BY OfResidue, DH64Constants
<1>2. KeyInv => NeverPanics
  BY <1>1 DEF KeyInv, NeverPanics
<1> QED
  BY <1>2, KeyInvariant, PTL

-----------------------------------------------------------------------------
(***************************************************************************)
(* Padding and what removes it.                                            *)
(***************************************************************************)
LEMMA PaddingFills ==
  ASSUME AesConstants, NEW n \in Nat
  PROVE  /\ padding(n) \in 1..BlockSize /\ padding(n) \in Nat /\ padding(n) > 0
         /\ padding(n) \in Bytes
         /\ (n + padding(n)) % BlockSize = 0
<1>1. BlockSize \in Nat /\ BlockSize > 0 /\ 1..BlockSize \subseteq Bytes
  BY DEF AesConstants
<1>2. n % BlockSize \in 0..(BlockSize - 1)
  BY <1>1
<1>3. padding(n) \in 1..BlockSize
  BY <1>1, <1>2 DEF padding
<1>4. n % BlockSize = n - BlockSize * (n \div BlockSize) /\ n \div BlockSize \in Int
  BY <1>1
<1>5. n + padding(n) = BlockSize * (n \div BlockSize + 1)
  BY <1>1, <1>2, <1>4 DEF padding
<1>6. \A q \in Int : (BlockSize * q) % BlockSize = 0
  BY <1>1
<1> QED
  BY <1>1, <1>3, <1>4, <1>5, <1>6

LEMMA PadTextIsText ==
  ASSUME AesConstants, NEW n \in Nat
  PROVE  /\ padText(n) \in Seq(Bytes) /\ Len(padText(n)) = padding(n)
         /\ \A j \in 1..padding(n) : padText(n)[j] = padding(n)
<1>1. PICK pad : pad = padding(n)
  OBVIOUS
<1>2. pad \in Nat /\ pad \in Bytes
  BY <1>1, PaddingFills
<1>3. padText(n) = [j \in 1..pad |-> pad]
  BY <1>1 DEF padText
<1> QED
  BY <1>1, <1>2, <1>3

LEMMA Decrypted ==
  ASSUME AesConstants, NEW text \in Seq(Bytes), NEW size, newCipher(size)
  PROVE  AesDecryptCBC(size, text \o padText(Len(text))) = text
<1> DEFINE n == Len(text)
           pad == padding(n)
           all == text \o padText(n)
<1>1. n \in Nat
  OBVIOUS
<1>2. pad \in 1..BlockSize /\ pad \in Bytes /\ (n + pad) % BlockSize = 0
  BY <1>1, PaddingFills
<1>3. pad \in Nat /\ pad > 0
  BY <1>2 DEF AesConstants
<1>4. padText(n) \in Seq(Bytes) /\ Len(padText(n)) = pad /\ \A j \in 1..pad : padText(n)[j] = pad
  BY <1>2, <1>3 DEF padText
<1> HIDE DEF n, pad
<1>5. /\ all \in Seq(Bytes) /\ Len(all) = n + pad
      /\ \A j \in 1..(n + pad) : all[j] = IF j <= n THEN text[j] ELSE padText(n)[j - n]
  BY <1>1, <1>3, <1>4, ConcatProperties DEF n
<1>6. all[n + pad] = pad
  <2>1. n + pad \in 1..(n + pad) /\ ~(n + pad <= n) /\ (n + pad) - n = pad /\ pad \in 1..pad
    BY <1>1, <1>3
  <2> QED BY <1>4, <1>5, <2>1
<1>7. SubSeq(all, 1, n) = text
  <2>1. \A i \in 1..n : all[i] = text[i]
    BY <1>1, <1>3, <1>5
  <2>2. SubSeq(all, 1, n) \in Seq(Bytes) /\ Len(SubSeq(all, 1, n)) = n
        /\ \A i \in 1..n : SubSeq(all, 1, n)[i] = all[i]
    <3>1. \A i \in 1..n : all[i] \in Bytes
      BY <1>1, <1>3, <1>5
    <3> HIDE DEF all
    <3> QED BY <1>1, <3>1, SubSeqProperties
  <2> HIDE DEF all
  <2> QED BY <2>1, <2>2, SeqEqual DEF n
<1> HIDE DEF all
<1>8. pkcs5UnPadding(all) = text
  <2>1. Len(all) # 0 /\ ~(pad > n + pad) /\ n + pad - pad = n
    BY <1>1, <1>3, <1>5
  <2>2. all[Len(all)] = pad /\ Len(all) = n + pad
    BY <1>5, <1>6
  <2>3. SubSeq(all, 1, Len(all) - all[Len(all)]) = text
    <3>1. Len(all) - all[Len(all)] = n
      BY <1>1, <1>3, <2>2
    <3> QED BY <1>7, <3>1
  <2>4. ~(all[Len(all)] > Len(all))
    BY <2>1, <2>2
  <2> QED BY <2>1, <2>3, <2>4 DEF pkcs5UnPadding
<1>9. AesDecryptCBC(size, all) = text
  BY <1>2, <1>5, <1>8 DEF AesDecryptCBC
<1> QED
  BY <1>9 DEF all, n

-----------------------------------------------------------------------------
(***************************************************************************)
(* The inductive invariant.  While no slice has capacity over the memory   *)
(* of c, the slice of c shows what it showed at first, what is padded      *)
(* shows that and the padding behind it, wherever it lies, and so does     *)
(* the text encrypted.                                                     *)
(***************************************************************************)
Untouched(c) == \A d \in Callers \ {c} : Apart(c, d)

Extended(s) == [s EXCEPT !.len = @ + padding(s.len)]

shown(c) == IF padded[c].own THEN padded[c].text ELSE bytesOf(padded[c].at)

SliceInv ==
  /\ data \in [Callers -> Slices]
  /\ padded \in [Callers -> {None} \cup [own : BOOLEAN, at : Slices, text : Seq(Bytes)]]
  /\ sealed \in [Callers -> {None, Error} \cup Seq(Bytes)]
  /\ \A c \in Callers : padded[c] # None /\ ~padded[c].own =>
                           fits(data[c]) /\ padded[c].at = Extended(data[c])

BufferInv ==
  /\ buf \in [1..Size -> Bytes]
  /\ \A c \in Callers : meant[c] \in Seq(Bytes) /\ Len(meant[c]) = data[c].len

TextInv(c) ==
  /\ bytesOf(data[c]) = meant[c]
  /\ padded[c] # None => shown(c) = meant[c] \o padText(Len(meant[c]))
  /\ sealed[c] # None /\ newCipher(key[c]) => sealed[c] = meant[c] \o padText(Len(meant[c]))

AesInv == SliceInv /\ BufferInv /\ \A c \in Callers : Untouched(c) => TextInv(c)

-----------------------------------------------------------------------------
(***************************************************************************)
(* Slices of the buffer.                                                   *)
(***************************************************************************)
cells(b, s) == SubSeq(b, s.off + 1, s.off + s.len)

LEMMA SliceFields ==
  ASSUME AesConstants, NEW s \in Slices
  PROVE  /\ s.off \in Nat /\ s.len \in Nat /\ s.cap \in Nat /\ Size \in Nat
         /\ s.off + s.len <= s.cap /\ s.cap <= Size
<1>1. Size \in Nat
  BY DEF AesConstants
<1>2. s \in [off : 0..Size, len : 0..Size, cap : 0..Size] /\ s.off + s.len <= s.cap
  BY DEF Slices
<1> QED
  BY <1>1, <1>2

LEMMA CellsOfSlice ==
  ASSUME AesConstants, NEW b \in [1..Size -> Bytes], NEW s \in Slices
  PROVE  /\ cells(b, s) \in Seq(Bytes) /\ Len(cells(b, s)) = s.len
         /\ \A j \in 1..s.len : cells(b, s)[j] = b[s.off + j] /\ s.off + j \in 1..Size
<1>1. /\ s.off \in Nat /\ s.len \in Nat /\ s.cap \in Nat /\ Size \in Nat
      /\ s.off + s.len <= s.cap /\ s.cap <= Size
  BY SliceFields
<1>2. \A i \in (s.off + 1)..(s.off + s.len) : b[i] \in Bytes
  BY <1>1
<1> DEFINE m == s.off + 1
           n == s.off + s.len
<1>3. m \in Int /\ n \in Int /\ n - m + 1 = s.len /\ (m <= n <=> s.len > 0)
  BY <1>1
<1>4. cells(b, s) = SubSeq(b, m, n)
  BY DEF cells
<1> HIDE DEF m, n
<1>5. /\ SubSeq(b, m, n) \in Seq(Bytes)
      /\ Len(SubSeq(b, m, n)) = IF m <= n THEN n - m + 1 ELSE 0
      /\ \A i \in 1..(n - m + 1) : SubSeq(b, m, n)[i] = b[m + i - 1]
  <2>1. \A i \in m..n : b[i] \in Bytes
    BY <1>2 DEF m, n
  <2> QED BY <1>3, <2>1, SubSeqProperties
<1>6. \A j \in 1..s.len : m + j - 1 = s.off + j /\ s.off + j \in 1..Size
  BY <1>1 DEF m
<1>7. Len(cells(b, s)) = s.len
  BY <1>1, <1>3, <1>4, <1>5
<1>8. \A j \in 1..s.len : cells(b, s)[j] = b[s.off + j]
  BY <1>3, <1>4, <1>5, <1>6
<1> QED
  BY <1>4, <1>5, <1>6, <1>7, <1>8

LEMMA SameCells ==
  ASSUME AesConstants, NEW a \in [1..Size -> Bytes], NEW b \in [1..Size -> Bytes], NEW s \in Slices,
         \A n \in 1..Size : n > s.off /\ n <= s.off + s.len => a[n] = b[n]
  PROVE  cells(a, s) = cells(b, s)
<1>1. \A j \in 1..s.len : s.off + j \in 1..Size /\ s.off + j > s.off /\ s.off + j <= s.off + s.len
  BY SliceFields
<1>2. \A j \in 1..s.len : a[s.off + j] = b[s.off + j]
  BY <1>1
<1>3. /\ cells(a, s) \in Seq(Bytes) /\ Len(cells(a, s)) = s.len
      /\ \A j \in 1..s.len : cells(a, s)[j] = a[s.off + j]
  BY CellsOfSlice
<1>4. /\ cells(b, s) \in Seq(Bytes) /\ Len(cells(b, s)) = s.len
      /\ \A j \in 1..s.len : cells(b, s)[j] = b[s.off + j]
  BY CellsOfSlice
<1> QED
  BY <1>2, <1>3, <1>4, SeqEqual

LEMMA ExtendedSlice ==
  ASSUME AesConstants, NEW s \in Slices, fits(s)
  PROVE  /\ Extended(s) \in Slices
         /\ Extended(s).off = s.off /\ Extended(s).len = s.len + padding(s.len)
         /\ Extended(s).cap = s.cap
<1>1. s.off \in Nat /\ s.len \in Nat /\ s.cap \in Nat /\ s.cap <= Size /\ Size \in Nat
  BY SliceFields
<1>2. padding(s.len) \in Nat
  BY <1>1, PaddingFills DEF AesConstants
<1>3. s.off + (s.len + padding(s.len)) <= s.cap
  BY <1>1, <1>2 DEF fits
<1>4. s.len + padding(s.len) \in 0..Size
  BY <1>1, <1>2, <1>3
<1> QED
  BY <1>3, <1>4 DEF Extended, Slices

\* a is b with the padding behind s.
PaddedBehind(a, b, s) ==
  \A j \in 1..Size : a[j] = IF j - (s.off + s.len) \in 1..padding(s.len)
                            THEN padding(s.len) ELSE b[j]

LEMMA PaddedCells ==
  ASSUME AesConstants, NEW b \in [1..Size -> Bytes], NEW s \in Slices, fits(s),
         NEW a \in [1..Size -> Bytes], PaddedBehind(a, b, s)
  PROVE  cells(a, Extended(s)) = cells(b, s) \o padText(s.len)
<1> DEFINE x == Extended(s)
           pad == padding(s.len)
           t == padText(s.len)
<1>1. /\ s.off \in Nat /\ s.len \in Nat /\ s.cap \in Nat /\ s.cap <= Size /\ Size \in Nat
      /\ s.off + s.len <= s.cap
  BY SliceFields
<1>2. pad \in Nat /\ pad > 0 /\ pad \in Bytes
  BY <1>1, PaddingFills
<1>3. x \in Slices /\ x.off = s.off /\ x.len = s.len + pad
  BY ExtendedSlice
<1>4. t \in Seq(Bytes) /\ Len(t) = pad /\ \A j \in 1..pad : t[j] = pad
  BY <1>2 DEF padText
<1>5. s.off + s.len + pad <= Size
  BY <1>1, <1>2 DEF fits
<1> HIDE DEF x, pad, t
<1>6. /\ cells(a, x) \in Seq(Bytes) /\ Len(cells(a, x)) = s.len + pad
      /\ \A j \in 1..(s.len + pad) : cells(a, x)[j] = a[s.off + j]
  <2>1. /\ cells(a, x) \in Seq(Bytes) /\ Len(cells(a, x)) = x.len
        /\ \A j \in 1..x.len : cells(a, x)[j] = a[x.off + j]
    BY <1>3, CellsOfSlice
  <2> QED BY <1>3, <2>1
<1>7. /\ cells(b, s) \in Seq(Bytes) /\ Len(cells(b, s)) = s.len
      /\ \A j \in 1..s.len : cells(b, s)[j] = b[s.off + j]
  BY CellsOfSlice
<1>8. /\ cells(b, s) \o t \in Seq(Bytes) /\ Len(cells(b, s) \o t) = s.len + pad
      /\ \A j \in 1..(s.len + pad) :
           (cells(b, s) \o t)[j] = IF j <= s.len THEN cells(b, s)[j] ELSE t[j - s.len]
  <2>1. cells(b, s) \in Seq(Bytes) /\ Len(cells(b, s)) = s.len
    BY <1>7
  <2>2. /\ cells(b, s) \o t \in Seq(Bytes)
        /\ Len(cells(b, s) \o t) = Len(cells(b, s)) + Len(t)
        /\ \A j \in 1..(Len(cells(b, s)) + Len(t)) :
             (cells(b, s) \o t)[j] = IF j <= Len(cells(b, s)) THEN cells(b, s)[j]
                                    ELSE t[j - Len(cells(b, s))]
    BY <1>4, <2>1, ConcatProperties
  <2> QED BY <1>4, <2>1, <2>2
<1>9. ASSUME NEW j \in 1..(s.len + pad) PROVE cells(a, x)[j] = (cells(b, s) \o t)[j]
  <2>1. s.off + j \in 1..Size
    BY <1>1, <1>2, <1>5
  <2>2. CASE j <= s.len
    <3>1. ~(s.off + j - (s.off + s.len) \in 1..pad) /\ j \in 1..s.len
      BY <1>1, <1>2, <2>2
    <3>2. a[s.off + j] = b[s.off + j]
      BY <1>1, <1>2, <2>1, <3>1 DEF PaddedBehind, pad
    <3> QED BY <1>6, <1>7, <1>8, <2>2, <3>1, <3>2
  <2>3. CASE ~(j <= s.len)
    <3>1. s.off + j - (s.off + s.len) \in 1..pad /\ j - s.len \in 1..pad
      BY <1>1, <1>2, <2>3
    <3>2. PICK k \in 1..Size : k = s.off + j
      BY <2>1
    <3>3. a[k] = IF k - (s.off + s.len) \in 1..pad THEN pad ELSE b[k]
      BY DEF PaddedBehind, pad
    <3>4. a[s.off + j] = pad
      BY <1>1, <1>2, <3>1, <3>2, <3>3
    <3> QED BY <1>4, <1>6, <1>8, <2>3, <3>1, <3>4
  <2> QED BY <2>2, <2>3
<1> QED
  BY <1>6, <1>8, <1>9, SeqEqual DEF x, t

-----------------------------------------------------------------------------
LEMMA AesInvInit == ASSUME AesConstants, AesInit PROVE AesInv
<1> USE DEF AesInit
<1>1. SliceInv
  BY DEF SliceInv
<1>2. ASSUME NEW c \in Callers
      PROVE  meant[c] = bytesOf(data[c]) /\ meant[c] \in Seq(Bytes) /\ Len(meant[c]) = data[c].len
  BY CellsOfSlice DEF cells, bytesOf
<1>3. BufferInv
  BY <1>2 DEF BufferInv
<1>4. ASSUME NEW c \in Callers PROVE TextInv(c)
  BY <1>2 DEF TextInv
<1> QED
  BY <1>1, <1>3, <1>4 DEF AesInv

(***************************************************************************)
(* Pad writes behind its slice and within its capacity, where nothing of a *)
(* slice apart from it lies.                                               *)
(***************************************************************************)
LEMMA PadWrites ==
  ASSUME AesConstants, AesInv, NEW d \in Callers, Pad(d)
  PROVE  /\ buf' \in [1..Size -> Bytes]
         /\ \A n \in 1..Size : buf'[n] # buf[n] =>
              n > data[d].off + data[d].len /\ n <= data[d].cap
         /\ fits(data[d]) => PaddedBehind(buf', buf, data[d])
         /\ ~fits(data[d]) => buf' = buf
<1> DEFINE s == data[d]
           pad == padding(s.len)
<1>1. s \in Slices /\ buf \in [1..Size -> Bytes]
  BY DEF AesInv, SliceInv, BufferInv
<1>2. CASE ~fits(s)
  BY <1>1, <1>2 DEF Pad
<1>3. CASE fits(s)
  <2>1. buf' = [j \in 1..Size |-> IF j - (s.off + s.len) \in 1..pad THEN pad ELSE buf[j]]
    BY <1>3 DEF Pad
  <2>2. /\ s.off \in Nat /\ s.len \in Nat /\ s.cap \in Nat /\ Size \in Nat
        /\ s.off + s.len <= s.cap /\ s.cap <= Size
    BY <1>1, SliceFields
  <2>3. pad \in Nat /\ pad \in Bytes
    BY <2>2, PaddingFills
  <2>4. s.off + s.len + pad <= s.cap
    BY <1>3 DEF fits
  <2>5. PaddedBehind(buf', buf, s)
    BY <2>1 DEF PaddedBehind
  <2> HIDE DEF pad, s
  <2>6. buf' \in [1..Size -> Bytes]
    BY <1>1, <2>1, <2>3
  <2>7. ASSUME NEW n \in 1..Size, buf'[n] # buf[n] PROVE n > s.off + s.len /\ n <= s.cap
    <3>1. n - (s.off + s.len) \in 1..pad
      BY <2>1, <2>7
    <3> QED BY <2>2, <2>3, <2>4, <3>1
  <2> QED BY <1>3, <2>5, <2>6, <2>7 DEF s
<1> QED
  BY <1>2, <1>3

LEMMA PadKeepsSlices ==
  ASSUME AesConstants, AesInv, NEW d \in Callers, Pad(d)
  PROVE  SliceInv'
<1> DEFINE s == data[d]
<1>1. s \in Slices /\ buf \in [1..Size -> Bytes] /\ SliceInv
  BY DEF AesInv, SliceInv, BufferInv
<1>2. padText(s.len) \in Seq(Bytes)
  BY <1>1, SliceFields, PadTextIsText
<1>3. bytesOf(s) \in Seq(Bytes)
  BY <1>1, CellsOfSlice DEF cells, bytesOf
<1>4. data' = data /\ sealed' = sealed
  BY DEF Pad
<1>5. CASE fits(s)
  <2>1. padded' = [padded EXCEPT ![d] = [own |-> FALSE, at |-> Extended(s), text |-> <<>>]]
    BY <1>5 DEF Pad, Extended
  <2>2. [own |-> FALSE, at |-> Extended(s), text |-> <<>>] \in [own : BOOLEAN, at : Slices, text : Seq(Bytes)]
    BY <1>1, <1>5, ExtendedSlice
  <2> QED BY <1>1, <1>4, <1>5, <2>1, <2>2 DEF SliceInv
<1>6. CASE ~fits(s)
  <2>1. padded' = [padded EXCEPT ![d] = [own |-> TRUE, at |-> s, text |-> bytesOf(s) \o padText(s.len)]]
    BY <1>6 DEF Pad
  <2>2. bytesOf(s) \o padText(s.len) \in Seq(Bytes)
    BY <1>2, <1>3, ConcatProperties
  <2>3. [own |-> TRUE, at |-> s, text |-> bytesOf(s) \o padText(s.len)]
          \in [own : BOOLEAN, at : Slices, text : Seq(Bytes)]
    BY <1>1, <2>2
  <2> QED BY <1>1, <1>4, <1>6, <2>1, <2>3 DEF SliceInv
<1> QED
  BY <1>5, <1>6

\* Slices within the memory of c keep what they show while others pad.
LEMMA OthersShowTheSame ==
  ASSUME AesConstants, AesInv, NEW c \in Callers, NEW d \in Callers, Untouched(c), Pad(d),
         NEW s \in Slices, s.off = data[c].off, s.cap = data[c].cap,
         d = c => s.len = data[c].len
  PROVE  cells(buf', s) = cells(buf, s)
<1>1. buf \in [1..Size -> Bytes] /\ data[c] \in Slices /\ data[d] \in Slices
  BY DEF AesInv, SliceInv, BufferInv
<1>2. /\ buf' \in [1..Size -> Bytes]
      /\ \A n \in 1..Size : buf'[n] # buf[n] =>
           n > data[d].off + data[d].len /\ n <= data[d].cap
  BY PadWrites
<1>3. /\ s.off \in Nat /\ s.len \in Nat /\ s.cap \in Nat /\ s.off + s.len <= s.cap
  BY SliceFields
<1>4. data[d].off \in Nat /\ data[d].len \in Nat /\ data[d].cap \in Nat
  BY <1>1, SliceFields
<1>5. ASSUME NEW n \in 1..Size, n > s.off, n <= s.off + s.len, buf'[n] # buf[n] PROVE FALSE
  <2>1. n > data[d].off + data[d].len /\ n <= data[d].cap
    BY <1>2, <1>5
  <2>2. CASE d = c
    BY <1>3, <1>4, <1>5, <2>1, <2>2
  <2>3. CASE d # c
    <3>1. data[c].cap <= data[d].off \/ data[d].cap <= data[c].off
      BY <2>3 DEF Untouched, Apart
    <3> QED BY <1>3, <1>4, <1>5, <2>1, <3>1
  <2> QED BY <2>2, <2>3
<1> QED
  BY <1>1, <1>2, <1>5, SameCells

LEMMA PadKeepsText ==
  ASSUME AesConstants, AesInv, NEW d \in Callers, Pad(d), NEW c \in Callers, Untouched(c)
  PROVE  TextInv(c)'
<1>1. /\ buf \in [1..Size -> Bytes] /\ buf' \in [1..Size -> Bytes]
      /\ data[c] \in Slices /\ TextInv(c) /\ SliceInv
      /\ meant[c] \in Seq(Bytes) /\ Len(meant[c]) = data[c].len
  BY PadWrites DEF AesInv, SliceInv, BufferInv
<1>2. UNCHANGED <<data, key, meant, sealed>>
  BY DEF Pad
<1>3. bytesOf(data[c])' = meant[c]
  <2>1. cells(buf', data[c]) = cells(buf, data[c])
    BY <1>1, OthersShowTheSame
  <2> QED BY <1>1, <1>2, <2>1 DEF TextInv, bytesOf, cells
<1>4. padded'[c] # None => shown(c)' = meant[c] \o padText(Len(meant[c]))
  <2>1. CASE d # c
    <3>1. padded'[c] = padded[c]
      BY <1>1, <2>1 DEF Pad, SliceInv
    <3> SUFFICES ASSUME padded[c] # None PROVE shown(c)' = shown(c)
      BY <1>1, <3>1 DEF TextInv
    <3>2. CASE padded[c].own
      BY <3>1, <3>2 DEF shown
    <3>3. CASE ~padded[c].own
      <4>1. PICK s : s = padded[c].at
        OBVIOUS
      <4>2. fits(data[c]) /\ s = Extended(data[c])
        BY <1>1, <3>3, <4>1 DEF SliceInv
      <4>3. s \in Slices /\ s.off = data[c].off /\ s.cap = data[c].cap
        BY <1>1, <4>2, ExtendedSlice
      <4>4. cells(buf', s) = cells(buf, s)
        BY <2>1, <4>3, OthersShowTheSame
      <4>5. shown(c) = cells(buf, s)
        BY <3>3, <4>1 DEF shown, bytesOf, cells
      <4>6. shown(c)' = cells(buf', s)
        BY <3>1, <3>3, <4>1 DEF shown, bytesOf, cells
      <4> QED BY <4>4, <4>5, <4>6
    <3> QED BY <3>2, <3>3
  <2>2. CASE d = c /\ fits(data[c])
    <3>1. padded'[c] = [own |-> FALSE, at |-> Extended(data[c]), text |-> <<>>]
      BY <1>1, <2>2 DEF Pad, SliceInv, Extended
    <3>2. shown(c)' = cells(buf', Extended(data[c]))
      <4>1. PICK s : s = Extended(data[c])
        OBVIOUS
      <4>2. ~padded'[c].own /\ padded'[c].at = s
        BY <3>1, <4>1
      <4>3. shown(c)' = cells(buf', s)
        BY <4>2 DEF shown, bytesOf, cells
      <4> QED BY <4>1, <4>3
    <3>3. PaddedBehind(buf', buf, data[c])
      BY <2>2, PadWrites
    <3>4. cells(buf', Extended(data[c])) = cells(buf, data[c]) \o padText(data[c].len)
      BY <1>1, <2>2, <3>3, PaddedCells
    <3>5. cells(buf, data[c]) = meant[c]
      BY <1>1 DEF TextInv, bytesOf, cells
    <3> QED BY <1>1, <3>2, <3>4, <3>5
  <2>3. CASE d = c /\ ~fits(data[c])
    <3>1. padded'[c] = [own |-> TRUE, at |-> data[c], text |-> bytesOf(data[c]) \o padText(data[c].len)]
      BY <1>1, <2>3 DEF Pad, SliceInv
    <3>2. PICK text : text = bytesOf(data[c]) \o padText(data[c].len)
      OBVIOUS
    <3>3. padded'[c].own /\ padded'[c].text = text
      BY <3>1, <3>2
    <3>4. shown(c)' = text
      BY <3>3 DEF shown
    <3>5. bytesOf(data[c]) = meant[c]
      BY <1>1 DEF TextInv
    <3>6. meant'[c] = meant[c]
      BY <1>2
    <3> QED BY <1>1, <3>2, <3>4, <3>5
  <2> QED BY <2>1, <2>2, <2>3
<1> QED
  BY <1>1, <1>2, <1>3, <1>4 DEF TextInv

LEMMA AesInvNext ==
  ASSUME AesConstants, AesInv, [AesNext]_aesVars
  PROVE  AesInv'
<1>1. ASSUME NEW d \in Callers, Pad(d) PROVE AesInv'
  <2>1. SliceInv'
    BY <1>1, PadKeepsSlices
  <2>2. BufferInv'
    BY <1>1, PadWrites DEF AesInv, BufferInv, Pad
  <2>3. ASSUME NEW c \in Callers, Untouched(c)' PROVE TextInv(c)'
    <3>1. Untouched(c)
      BY <1>1, <2>3 DEF Pad, Untouched, Apart
    <3> QED BY <1>1, <3>1, PadKeepsText
  <2> QED BY <2>1, <2>2, <2>3 DEF AesInv
<1>2. ASSUME NEW d \in Callers, sealed' = [sealed EXCEPT ![d] = shown(d)], padded[d] # None,
             UNCHANGED <<buf, data, key, meant, padded>>
      PROVE  AesInv'
  <2>1. shown(d) \in Seq(Bytes)
    <3>1. padded[d] \in [own : BOOLEAN, at : Slices, text : Seq(Bytes)] /\ buf \in [1..Size -> Bytes]
      BY <1>2 DEF AesInv, SliceInv, BufferInv
    <3>2. padded[d].text \in Seq(Bytes) /\ padded[d].at \in Slices
      BY <3>1
    <3>3. bytesOf(padded[d].at) \in Seq(Bytes)
      BY <3>1, <3>2, CellsOfSlice DEF bytesOf, cells
    <3> QED BY <3>2, <3>3 DEF shown
  <2>2. SliceInv'
    BY <1>2, <2>1 DEF AesInv, SliceInv
  <2>3. BufferInv'
    BY <1>2 DEF AesInv, BufferInv
  <2>4. ASSUME NEW c \in Callers, Untouched(c)' PROVE TextInv(c)'
    <3>1. TextInv(c) /\ sealed'[c] = IF c = d THEN shown(c) ELSE sealed[c]
      BY <1>2, <2>4 DEF AesInv, SliceInv, Untouched, Apart
    <3>2. shown(c)' = shown(c) /\ bytesOf(data[c])' = bytesOf(data[c])
      BY <1>2 DEF shown, bytesOf
    <3> QED BY <1>2, <3>1, <3>2 DEF TextInv
  <2> QED BY <2>2, <2>3, <2>4 DEF AesInv
<1>3. ASSUME NEW d \in Callers, AesEncryptCBC(d) PROVE AesInv'
  BY <1>2, <1>3 DEF AesEncryptCBC, shown
<1>4. ASSUME NEW d \in Callers, BadKey(d) PROVE AesInv'
  <2> USE <1>4 DEF BadKey
  <2>1. SliceInv'
    BY DEF AesInv, SliceInv
  <2>2. BufferInv'
    BY DEF AesInv, BufferInv
  <2>3. ASSUME NEW c \in Callers, Untouched(c)' PROVE TextInv(c)'
    <3>1. TextInv(c) /\ sealed'[c] = IF c = d THEN Error ELSE sealed[c]
      BY <2>3 DEF AesInv, SliceInv, Untouched, Apart
    <3>2. shown(c)' = shown(c) /\ bytesOf(data[c])' = bytesOf(data[c])
      BY DEF shown, bytesOf
    <3> QED BY <3>1, <3>2 DEF TextInv
  <2> QED BY <2>1, <2>2, <2>3 DEF AesInv
<1>5. CASE UNCHANGED aesVars
  <2>1. SliceInv' /\ BufferInv'
    BY <1>5 DEF aesVars, AesInv, SliceInv, BufferInv
  <2>2. ASSUME NEW c \in Callers, Untouched(c)' PROVE TextInv(c)'
    BY <1>5, <2>2 DEF aesVars, AesInv, TextInv, Untouched, Apart, shown, bytesOf
  <2> QED BY <2>1, <2>2 DEF AesInv
<1> QED
  BY <1>1, <1>3, <1>4, <1>5 DEF AesNext

LEMMA AesInvariant == AesSpec => []AesInv
<1> USE AesAssumptions
<1> QED
  BY AesInvInit, AesInvNext, PTL DEF AesSpec

(***************************************************************************)
(* Whoever else encrypts at the same time, what c encrypted decrypts to    *)
(* the data it passed, as long as no slice has capacity over its memory.   *)
(***************************************************************************)
THEOREM DecryptsToWhatWasMeant == AesSpec => []RoundTrip
<1>1. ASSUME AesInv PROVE RoundTrip
  <2> SUFFICES ASSUME NEW c \in Callers, sealed[c] # None, newCipher(key[c]), Untouched(c)
               PROVE  AesDecryptCBC(key[c], sealed[c]) = meant[c]
    BY DEF RoundTrip, Untouched
  <2>1. sealed[c] = meant[c] \o padText(Len(meant[c])) /\ meant[c] \in Seq(Bytes)
    BY <1>1 DEF AesInv, TextInv, BufferInv
  <2> QED BY <2>1, Decrypted, AesAssumptions
<1> QED
  BY <1>1, AesInvariant, PTL

-----------------------------------------------------------------------------
(***************************************************************************)
(* Type correctness of AesCbc: the slices stay inside the buffer that the  *)
(* callers share, and what is written to it, encrypted or meant, is bytes. *)
(***************************************************************************)
THEOREM AesTypeCorrect == AesSpec => []AesTypeOK
<1>1. AesInv => AesTypeOK
  BY DEF AesInv, SliceInv, BufferInv, AesTypeOK
<1> QED
  BY <1>1, AesInvariant, PTL

(***************************************************************************)
(* Type correctness of the two together, whichever of them runs.           *)
(***************************************************************************)
THEOREM CryptoTypesCorrect == CryptoSpec => []TypesOK
<1>1. CryptoInit => Init /\ AesInit
  BY DEF CryptoInit
<1>2. [CryptoNext]_<<runs, dhVars, aesVars>> => [Next]_vars /\ [AesNext]_aesVars
  BY DEF CryptoNext, dhVars, vars
<1>3. CryptoSpec => Spec /\ AesSpec
  BY <1>1, <1>2, PTL DEF CryptoSpec, Spec, AesSpec
<1> QED
  BY <1>3, TypeCorrect, AesTypeCorrect, PTL DEF TypesOK

=============================================================================
