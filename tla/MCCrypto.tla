------------------------------ MODULE MCCrypto ------------------------------
(* The two parts of crypto, which share nothing: in a behaviour one of them runs. *)
EXTENDS DH64, AesCbc

VARIABLES runs

dhVars == <<priv, pub, secret>>

CryptoInit ==
  /\ Init /\ AesInit
  /\ \/ runs = "dh64" /\ buf = [n \in 1..Size |-> 0] /\ key = [c \in Callers |-> 16]
                      /\ data = [c \in Callers |-> [off |-> 0, len |-> 0, cap |-> 0]]
     \/ runs = "aes"

CryptoNext ==
  /\ \/ runs = "dh64" /\ Next /\ UNCHANGED aesVars
     \/ runs = "aes" /\ AesNext /\ UNCHANGED dhVars
  /\ UNCHANGED runs

CryptoSpec == CryptoInit /\ [][CryptoNext]_<<runs, dhVars, aesVars>>

\* The variables of both have their types.
TypesOK == TypeOK /\ AesTypeOK
=============================================================================
