------------------------------- MODULE AesCbc -------------------------------
(***************************************************************************)
(* crypto/aes.go.  Padding appends to the slice the caller passes, so it   *)
(* may write into the spare capacity of that slice, which is memory of     *)
(* other slices of the same buffer: callers here hold slices of one buffer *)
(* and encrypt at the same time.  The cipher is symbolic: what decrypting  *)
(* with the same key gives back is what was encrypted.                     *)
(***************************************************************************)
EXTENDS Integers, Sequences

CONSTANTS
  Callers,
  BlockSize,   \* of the cipher (16)
  Bytes,       \* the values of a byte, the block size among them
  Size,        \* bytes in the buffer the callers share
  KeySizes,    \* lengths of the keys they use
  None, Error

\* A slice: the cells off+1 to off+len, with a capacity up to the cell cap.
Slices == {s \in [off : 0..Size, len : 0..Size, cap : 0..Size] : s.off + s.len <= s.cap}

VARIABLES
  buf,       \* the buffer
  data,      \* data[c]: the slice c encrypts
  key,       \* key[c]: the length of its key
  meant,     \* history: what the slice of c showed at first
  padded,    \* padded[c]: the padded data, in the buffer (a slice) or in memory of its own
  sealed     \* sealed[c]: the text encrypted, or the error

aesVars == <<buf, data, key, meant, padded, sealed>>

\* None and Error are no texts, and padding is written in bytes.
AesConstants ==
  /\ BlockSize \in Nat \ {0} /\ Size \in Nat
  /\ Bytes \subseteq Nat /\ 1..BlockSize \subseteq Bytes
  /\ None # Error /\ None \notin Seq(Bytes) /\ Error \notin Seq(Bytes)
  /\ None \notin [own : BOOLEAN, at : Slices, text : Seq(Bytes)]

ASSUME AesAssumptions == AesConstants

bytesOf(s) == SubSeq(buf, s.off + 1, s.off + s.len)

Covers(s, n) == n > s.off /\ n <= s.off + s.len

AesTypeOK ==
  /\ buf \in [1..Size -> Bytes]
  /\ padded \in [Callers -> {None} \cup [own : BOOLEAN, at : Slices, text : Seq(Bytes)]]
  /\ \A c \in Callers : sealed[c] \in {None, Error} \cup Seq(Bytes)

\* The slices do not overlap.
AesInit ==
  /\ buf \in [1..Size -> Bytes]
  /\ data \in [Callers -> Slices]
  /\ \A c, d \in Callers, n \in 1..Size : Covers(data[c], n) /\ Covers(data[d], n) => c = d
  /\ key \in [Callers -> KeySizes]
  /\ meant = [c \in Callers |-> bytesOf(data[c])]
  /\ padded = [c \in Callers |-> None]
  /\ sealed = [c \in Callers |-> None]

-----------------------------------------------------------------------------
\* aes.NewCipher takes keys of these lengths.
newCipher(size) == size \in {16, 24, 32}

\* Faulty variant: whole blocks are not padded.
padding_Whole(n) == (BlockSize - (n % BlockSize)) % BlockSize

\* Faulty variant: one byte too many.
padding_Over(n) == BlockSize - (n % BlockSize) + 1

padding(n) == BlockSize - (n % BlockSize)

padText(n) == [j \in 1..padding(n) |-> padding(n)]

\* Whether append has room for the padding behind the slice.
fits(s) == s.off + s.len + padding(s.len) <= s.cap

\* pkcs5Padding: in the capacity of the slice, or in a copy.
Pad(c) ==
  LET s == data[c]
      n == s.off + s.len
  IN  /\ newCipher(key[c])
      /\ padded[c] = None
      /\ IF fits(s)
         THEN /\ buf' = [j \in 1..Size |-> IF j - n \in 1..padding(s.len) THEN padding(s.len) ELSE buf[j]]
              /\ padded' = [padded EXCEPT ![c] =
                   [own |-> FALSE, at |-> [s EXCEPT !.len = @ + padding(s.len)], text |-> <<>>]]
         ELSE /\ padded' = [padded EXCEPT ![c] =
                   [own |-> TRUE, at |-> s, text |-> bytesOf(s) \o padText(s.len)]]
              /\ UNCHANGED buf
      /\ UNCHANGED <<data, key, meant, sealed>>

\* CryptBlocks: reads the padded data where they are.
AesEncryptCBC(c) ==
  /\ padded[c] # None /\ sealed[c] = None
  /\ sealed' = [sealed EXCEPT ![c] = IF padded[c].own THEN padded[c].text ELSE bytesOf(padded[c].at)]
  /\ UNCHANGED <<buf, data, key, meant, padded>>

BadKey(c) ==
  /\ ~newCipher(key[c]) /\ sealed[c] = None
  /\ sealed' = [sealed EXCEPT ![c] = Error]
  /\ UNCHANGED <<buf, data, key, meant, padded>>

AesNext == \E c \in Callers : Pad(c) \/ AesEncryptCBC(c) \/ BadKey(c)

AesSpec == AesInit /\ [][AesNext]_aesVars

pkcs5UnPadding(text) ==
  LET n == Len(text)
  IN  IF n = 0 THEN text
      ELSE IF text[n] > n THEN Error
      ELSE SubSeq(text, 1, n - text[n])

\* AesDecryptCBC with the same key.
AesDecryptCBC(size, text) ==
  IF ~newCipher(size) \/ Len(text) % BlockSize # 0 THEN Error ELSE pkcs5UnPadding(text)

-----------------------------------------------------------------------------
\* The memory that c and d may write does not overlap.
Apart(c, d) == data[c].cap <= data[d].off \/ data[d].cap <= data[c].off

\* What c encrypted decrypts to what it was given (aes_test.go), whatever the data are and
\* whoever encrypts at the same time, as long as no slice has capacity over another.
RoundTrip ==
  \A c \in Callers :
    sealed[c] # None /\ newCipher(key[c]) /\ (\A d \in Callers \ {c} : Apart(c, d))
    => AesDecryptCBC(key[c], sealed[c]) = meant[c]
=============================================================================
