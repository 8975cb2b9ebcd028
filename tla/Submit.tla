------------------------------- MODULE Submit -------------------------------
(***************************************************************************)
(* What addChainOrPreChain makes of a chain that ctfe.ValidateChain        *)
(* accepted: a PendingLogEntry or a refusal, the key under which entries   *)
(* are deduplicated, and what an SCT signs.                                *)
(*                                                                         *)
(* A certificate is what it certifies, the names of its subject and of its *)
(* issuer, its key and its kind: "cert"; "precert" (with the poison        *)
(* extension); "invalid" (with a poison extension that is not critical or  *)
(* not NULL); "preIssuer" (a Precertificate Signing Certificate, by its    *)
(* extended key usage).  Hashes are the values they hash.                  *)
(***************************************************************************)
EXTENDS Sequences, SequencesExt

None == "None"

\* ct.IsPreIssuer(chain[1]).
PreIssued(chain) == Len(chain) >= 2 /\ chain[2].kind = "preIssuer"

IsPrecert(chain) == chain[1].kind = "precert"

\* x509.BuildPrecertTBS: without the poison, and with the issuer that the
\* final certificate will have.
BuildPrecertTBS(chain) ==
    [subject |-> chain[1].subject,
     issuer  |-> IF PreIssued(chain) THEN chain[2].issuer ELSE chain[1].issuer,
     key     |-> chain[1].key]

\* The early returns up to checkType, which addChain and addPreChain give.
Accepted(endpoint, chain) ==
    /\ chain[1].kind # "invalid"
    /\ IsPrecert(chain) => Len(chain) >= IF PreIssued(chain) THEN 3 ELSE 2
    /\ IsPrecert(chain) <=> endpoint = "add-pre-chain"

PendingLogEntry(chain) ==
    IF IsPrecert(chain)
    THEN [certificate    |-> BuildPrecertTBS(chain),
          isPrecert      |-> TRUE,
          issuerKeyHash  |-> IF PreIssued(chain) THEN chain[3].key ELSE chain[2].key,
          issuers        |-> Tail(chain),
          preCertificate |-> chain[1]]
    ELSE [certificate    |-> chain[1],
          isPrecert      |-> FALSE,
          issuerKeyHash  |-> None,
          issuers        |-> Tail(chain),
          preCertificate |-> None]

\* (Mutant: the key hash of the issuer is left out.)
CacheHashNoIssuer(e) == <<e.isPrecert, e.certificate>>

\* computeCacheHash; it is injective.
CacheHash(e) ==
    IF e.isPrecert THEN <<1, e.issuerKeyHash, e.certificate>>
                   ELSE <<0, e.certificate>>

AsLogEntry(e, idx, ts) == [entry |-> e, leafIndex |-> idx, timestamp |-> ts]

\* What the tree hashes and the SCT signs; neither the chain nor the
\* precertificate as it was submitted is in it.
MerkleTreeLeaf(leaf) ==
    LET e == leaf.entry
    IN  [timestamp   |-> leaf.timestamp,
         signedEntry |-> IF e.isPrecert THEN <<1, e.issuerKeyHash, e.certificate>>
                                        ELSE <<0, e.certificate>>,
         leafIndex   |-> leaf.leafIndex]

-----------------------------------------------------------------------------
(* What a client of RFC 6962 expects an SCT for its chain to sign.  The    *)
(* issuer of a precertificate is the CA that will issue the final          *)
(* certificate: the first certificate of the chain that is a CA in its own *)
(* right.                                                                  *)

ExpectedEntry(chain) ==
    LET ca == SelectInSeq(Tail(chain), LAMBDA c : c.kind # "preIssuer")
        final == Tail(chain)[ca]
    IN  IF chain[1].kind = "precert"
        THEN <<1, final.key, [subject |-> chain[1].subject, issuer |-> final.subject,
                              key |-> chain[1].key]>>
        ELSE <<0, chain[1]>>
=============================================================================
