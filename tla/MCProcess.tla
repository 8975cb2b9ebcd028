----------------------------- MODULE MCProcess ------------------------------
(* An instance of Process for TLC: a certificate and one that it chains    *)
(* to, which may be submitted as well.                                     *)
EXTENDS Process

Root == [kind |-> "cert", subject |-> "CA", issuer |-> "CA", key |-> "k1"]
Final == [kind |-> "cert", subject |-> "a.example", issuer |-> "CA", key |-> "kA"]

LiveChains == {<<Final, Root>>, <<Root>>}
=============================================================================
