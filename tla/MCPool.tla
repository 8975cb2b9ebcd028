------------------------------- MODULE MCPool -------------------------------
(* Instances of Pool for TLC.                                              *)
EXTENDS Pool

Certificate(kind, subject, issuer, key) ==
    [kind |-> kind, subject |-> subject, issuer |-> issuer, key |-> key]

\* Two CAs of the same name, with different keys.
CA(key) == Certificate("cert", "CA", "CA", key)
PreIssuer == Certificate("preIssuer", "Pre", "CA", "kPre")
Precert(issuer) == Certificate("precert", "a.example", issuer, "kA")

\* The same precertificate under a CA, under its Precertificate Signing
\* Certificate, and under the CA with the other key.
Direct == <<Precert("CA"), CA("k1")>>
ViaPreIssuer == <<Precert("Pre"), PreIssuer, CA("k1")>>
OtherKey == <<Precert("CA"), CA("k2")>>
\* A final certificate.
Final == <<Certificate("cert", "a.example", "CA", "kA"), CA("k1")>>
\* Chains that are refused: roots are accepted as chains of their own.
Short == <<Precert("CA")>>
NoIssuer == <<Precert("Pre"), PreIssuer>>
Invalid == <<Certificate("invalid", "a.example", "CA", "kA"), CA("k1")>>

AllChains == {Direct, ViaPreIssuer, OtherKey, Final, Short, NoIssuer, Invalid}

Symmetry == Permutations(Requests)
=============================================================================
