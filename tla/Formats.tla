------------------------------ MODULE Formats -------------------------------
(***************************************************************************)
(* What the log writes and others read: leaves, checkpoints, signatures.   *)
(* They do not interact, so a behaviour exercises one of them.             *)
(***************************************************************************)
EXTENDS Encodings, Notes, ECDSA

VARIABLE format

formatVars == <<format, tileVars, noteVars, sigVars>>

FormatsInit ==
    /\ TileInit
    /\ NoteInit
    /\ \/ format \in {"leaf", "checkpoint"} /\ SigIdle
       \/ format = "signature" /\ SigInit

FormatsNext ==
    /\ UNCHANGED format
    /\ \/ format = "leaf" /\ TileNext /\ UNCHANGED <<noteVars, sigVars>>
       \/ format = "checkpoint" /\ NoteNext /\ UNCHANGED <<tileVars, sigVars>>
       \/ format = "signature" /\ SigNext /\ UNCHANGED <<tileVars, noteVars>>

FormatsSpec == FormatsInit /\ [][FormatsNext]_formatVars

-----------------------------------------------------------------------------
(* An instance for TLC.                                                    *)

TwoTrees == {[n |-> 7, hash |-> "h7"], [n |-> 12, hash |-> "h12"]}

\* Final certificates and precertificates; the index and the time at their
\* limits, and one past that of the index.
SomeEntries ==
    LET cert == {<<1>>, <<0, 2>>}
        chains == {<<>>, <<<<0, 1>>, <<3, 3>>>>}
        final == [certificate : cert, isPrecert : {FALSE}, issuerKeyHash : {ZeroFingerprint},
                  preCertificate : {<<>>}, fingerprints : chains,
                  leafIndex : {0, MaxUint40, MaxUint40 + 1}, timestamp : {1, MaxInt64}]
        precert == [certificate : cert, isPrecert : {TRUE}, issuerKeyHash : {<<0, 1>>, <<1, 0>>},
                    preCertificate : {<<2, 2, 2>>}, fingerprints : {<<<<0, 1>>>>},
                    leafIndex : {1}, timestamp : {1}]
    IN  final \cup precert
=============================================================================
