-------------------------------- MODULE DH64 --------------------------------
(***************************************************************************)
(* crypto/dh64: a Diffie-Hellman exchange on words of two halves (of 32    *)
(* bits in the code), modulo a prime close to their size, so that a sum or *)
(* a double of two residues need not fit a word.  Two parties make a pair  *)
(* of keys, send each other the public one and derive the secret.          *)
(***************************************************************************)
EXTENDS Integers

CONSTANTS
  Parties,    \* two of them
  Half,       \* the number of values of half a word (2^32)
  p,          \* the modulus
  g,          \* the base
  Panic       \* the outcome of a call that panics

ASSUME DH64Constants ==
  /\ \E q, r \in Parties : q # r /\ Parties = {q, r}
  /\ Half \in Nat \ {0} /\ Half % 2 = 0
  /\ p \in 2..Half * Half - 1 /\ \A d \in 2..p - 1 : p % d # 0
  /\ g \in 2..p - 1 /\ Panic \notin Nat

Word(n) == n % (Half * Half)
Words   == 0..Half * Half - 1

VARIABLES
  priv,       \* priv[q]: the private key of q, 0 before KeyPair
  pub,        \* pub[q]: its public key, which the other party receives
  secret      \* secret[q]: the secret q has derived, 0 before

vars == <<priv, pub, secret>>

Other(q) == CHOOSE r \in Parties : r # q

TypeOK ==
  /\ priv \in [Parties -> Words]
  /\ pub \in [Parties -> Words \cup {Panic}]
  /\ secret \in [Parties -> Words \cup {Panic}]

Init ==
  /\ priv = [q \in Parties |-> 0]
  /\ pub = [q \in Parties |-> 0]
  /\ secret = [q \in Parties |-> 0]

-----------------------------------------------------------------------------
\* Faulty variant: doubling is left to the width of the word.
twice_Wrap(a) == Word(a * 2)

\* a doubled modulo p: a*2 - p wraps around twice where a*2 does not fit.
twice(a) == IF a >= Word(p - a) THEN Word(Word(a * 2) - p) ELSE Word(a * 2)

\* The sum m, with x added modulo p if the lowest bit of n is set.
gather(m, x, n) ==
  LET t == Word(p - x)
  IN  IF n % 2 = 0 THEN m ELSE IF m >= t THEN Word(m - t) ELSE Word(m + x)

\* The bits n of b, from the lowest on, select the doublings x of a that m gathers.
mul_mod_p(a, b) ==
  LET loop[n \in Words] ==
        [m \in Words |-> [x \in Words |->
           IF n = 0 THEN m ELSE loop[n \div 2][gather(m, x, n)][twice(x)]]]
  IN  loop[b][0][a]

\* Faulty variant: odd exponents lose a factor.
pow_mod_p_Even(a, b) ==
  LET pow[n \in Words \ {0}] == IF n = 1 THEN a ELSE mul_mod_p(pow[n \div 2], pow[n \div 2])
  IN  pow[b]

pow_mod_p(a, b) ==
  LET pow[n \in Words \ {0}] ==
        IF n = 1 THEN a
        ELSE LET tt == mul_mod_p(pow[n \div 2], pow[n \div 2])
             IN  IF n % 2 > 0 THEN mul_mod_p(tt, a) ELSE tt
  IN  pow[b]

powmodp(a, b) ==
  IF a = 0 \/ b = 0 THEN Panic ELSE pow_mod_p(IF a > p THEN a % p ELSE a, b)

PublicKey(privateKey) == powmodp(g, privateKey)

Secret(privateKey, anotherPublicKey) == powmodp(anotherPublicKey, privateKey)

\* Faulty variant: the halves are added, and the sum may wrap around to zero.
privateKey_Sum(a, b) == Word(a * Half + b + 1)

\* Two half words drawn at random.  The low one is increased: the greatest becomes a bit
\* of the high half, where the bitwise or sets it.
privateKey(a, b) ==
  IF b + 1 < Half THEN a * Half + (b + 1) ELSE (a - (a % 2) + 1) * Half

-----------------------------------------------------------------------------
KeyPair(q) ==
  /\ priv[q] = 0
  /\ \E a \in 0..Half - 1, b \in 0..Half - 1 :
       /\ priv' = [priv EXCEPT ![q] = privateKey(a, b)]
       /\ pub' = [pub EXCEPT ![q] = PublicKey(privateKey(a, b))]
  /\ UNCHANGED secret

Derive(q) ==
  /\ priv[q] # 0 /\ priv[Other(q)] # 0
  /\ secret[q] = 0
  /\ secret' = [secret EXCEPT ![q] = Secret(priv[q], pub[Other(q)])]
  /\ UNCHANGED <<priv, pub>>

Next == \E q \in Parties : KeyPair(q) \/ Derive(q)

Spec == Init /\ [][Next]_vars

-----------------------------------------------------------------------------
\* a to the power b modulo p, by the definition.
PowMod(a, b) == LET f[n \in 0..b] == IF n = 0 THEN 1 ELSE (a * f[n - 1]) % p IN f[b]

\* The arithmetic on words is that of integers modulo p, although sums and doubles of
\* residues do not fit a word: a public key is the power of the base, a secret that of
\* the public key received.
PowersAreExact ==
  \A q \in Parties :
    /\ priv[q] # 0 => pub[q] = PowMod(g, priv[q])
    /\ secret[q] # 0 => secret[q] = PowMod(pub[Other(q)], priv[q])

\* Two parties that have each other's public key derive the same secret.
SecretsAgree == \A q \in Parties : secret[q] # 0 /\ secret[Other(q)] # 0 => secret[q] = secret[Other(q)]

\* No random draw leads powmodp to its panics: no key is zero.
NeverPanics == \A q \in Parties : pub[q] # Panic /\ secret[q] # Panic
=============================================================================
