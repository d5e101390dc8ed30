---------------------------- MODULE MCNameCrypto ----------------------------
EXTENDS NameCrypto

CONSTANTS s1, s2, s3

\* s1 has the fixture key, s3 a signing key the verifier has not, s2 another secret.
KindOf == [s \in Sender |-> IF s = s3 THEN "asymmetric" ELSE "symmetric"]
NoLimitOrOne == {0, 1}
=============================================================================
