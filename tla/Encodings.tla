----------------------------- MODULE Encodings ------------------------------
(***************************************************************************)
(* The bytes of leaves: what a data tile holds of a LogEntry, what of it   *)
(* is hashed into the tree and into the deduplication key, and the         *)
(* leaf_index extension of an SCT.                                         *)
(*                                                                         *)
(* Bytes are digits in base Base, so that every width of the format keeps  *)
(* its number of bytes and the largest values are small.  A fingerprint    *)
(* has FingerprintSize of them.                                            *)
(***************************************************************************)
EXTENDS Integers, SequencesExt

CONSTANTS Base, FingerprintSize

\* The last two are what powers are.
ASSUME EncodingsAssumption ==
    /\ Base \in Nat /\ Base > 3 /\ FingerprintSize \in Nat \ {0}
    /\ Base^0 = 1
    /\ \A n \in 0 .. 7 : Base^n \in Nat \ {0} /\ Base^(n + 1) = Base * Base^n

Octet == 0 .. Base - 1
Fingerprint == [1 .. FingerprintSize -> Octet]

MaxInt64 == Base^8 \div 2 - 1
MaxUint40 == Base^5 - 1

-----------------------------------------------------------------------------
(* cryptobyte.Builder and cryptobyte.String.                               *)

Uint(v, n) == [i \in 1 .. n |-> (v \div Base^(n - i)) % Base]
FromUint(s) ==
    LET value[i \in 0 .. Len(s)] == IF i = 0 THEN 0 ELSE value[i - 1] * Base + s[i]
    IN  value[Len(s)]

LengthPrefixed(n, s) == Uint(Len(s), n) \o s

\* A reader: what was read last, what is left, and whether all went well.
Failed == [ok |-> FALSE, got |-> <<>>, rest |-> <<>>]
String(s) == [ok |-> TRUE, got |-> <<>>, rest |-> s]
Read(r, n) ==
    IF r.ok /\ Len(r.rest) >= n
    THEN [ok |-> TRUE, got |-> SubSeq(r.rest, 1, n), rest |-> SubSeq(r.rest, n + 1, Len(r.rest))]
    ELSE Failed
ReadLengthPrefixed(r, n) == LET len == Read(r, n) IN Read(len, FromUint(len.got))

-----------------------------------------------------------------------------
(* Extensions.                                                             *)

LeafIndexType == 0

\* (Mutant: the range is not checked, and the upper bits are lost.)
InRangeAlways(idx) == TRUE

\* Otherwise MarshalExtensions is an error, and BytesOrPanic panics.
InRange(idx) == idx \in 0 .. MaxUint40

MarshalExtensions(idx) ==
    Uint(LeafIndexType, 1) \o LengthPrefixed(2, Uint(idx, 5))

Invalid == -1

\* The loop is left at an extension of that type, or if there is none to read.
ReadExtension(r) ==
    LET type == Read(r, 1)
    IN  [type |-> FromUint(type.got), data |-> ReadLengthPrefixed(type, 2)]
ParseExtensions(s) ==
    LET turn[i \in 0 .. Len(s)] ==
            IF i = 0 THEN [type |-> -1, data |-> String(s)]
            ELSE LET last == turn[i - 1]
                 IN  IF last.type = LeafIndexType \/ ~last.data.ok
                     THEN last ELSE ReadExtension(last.data)
        found == turn[Len(s)]
    IN  IF found.type = LeafIndexType /\ found.data.ok /\ Len(found.data.got) = 5
        THEN FromUint(found.data.got) ELSE Invalid

-----------------------------------------------------------------------------
(* LogEntry.                                                               *)

ZeroFingerprint == [i \in 1 .. FingerprintSize |-> 0]

\* RFC 6962's type, signed_entry and the extensions, in a leaf and a tile.
SignedEntry(e) ==
    IF e.isPrecert
    THEN Uint(1, 2) \o e.issuerKeyHash \o LengthPrefixed(3, e.certificate)
    ELSE Uint(0, 2) \o LengthPrefixed(3, e.certificate)
AddExtensions(e) == LengthPrefixed(2, MarshalExtensions(e.leafIndex))

\* (Mutant: the hash of the issuer's key is left out.)
CacheInputNoIssuer(e) ==
    Uint(IF e.isPrecert THEN 1 ELSE 0, 2) \o LengthPrefixed(3, e.certificate)

\* What computeCacheHash hashes.
CacheInput(e) ==
    IF e.isPrecert
    THEN Uint(1, 2) \o e.issuerKeyHash \o LengthPrefixed(3, e.certificate)
    ELSE Uint(0, 2) \o LengthPrefixed(3, e.certificate)

MerkleTreeLeaf(e) ==
    Uint(0, 1) \o Uint(0, 1) \o Uint(e.timestamp, 8) \o SignedEntry(e) \o AddExtensions(e)

TileLeaf(e) ==
    Uint(e.timestamp, 8) \o SignedEntry(e) \o AddExtensions(e)
        \o (IF e.isPrecert THEN LengthPrefixed(3, e.preCertificate) ELSE <<>>)
        \o LengthPrefixed(2, FlattenSeq(e.fingerprints))

Fingerprints(s) ==
    [i \in 1 .. (Len(s) \div FingerprintSize) |->
        SubSeq(s, (i - 1) * FingerprintSize + 1, i * FingerprintSize)]

ReadTileLeaf(tile) ==
    LET time  == Read(String(tile), 8)
        type  == Read(time, 2)
        pre   == FromUint(type.got) = 1
        key   == IF pre THEN Read(type, FingerprintSize) ELSE type
        cert  == ReadLengthPrefixed(key, 3)
        ext   == ReadLengthPrefixed(cert, 2)
        pcert == IF pre THEN ReadLengthPrefixed(ext, 3) ELSE ext
        chain == ReadLengthPrefixed(pcert, 2)
        xtype == Read(String(ext.got), 1)
        xdata == ReadLengthPrefixed(xtype, 2)
    IN  [ok   |-> /\ chain.ok /\ FromUint(type.got) \in {0, 1}
                  /\ FromUint(time.got) <= MaxInt64
                  /\ xdata.ok /\ FromUint(xtype.got) = LeafIndexType
                  /\ Len(xdata.got) = 5 /\ xdata.rest = <<>>
                  /\ Len(chain.got) % FingerprintSize = 0,
         rest |-> chain.rest,
         e    |-> [certificate |-> cert.got, isPrecert |-> pre,
                   issuerKeyHash |-> IF pre THEN key.got ELSE ZeroFingerprint,
                   preCertificate |-> IF pre THEN pcert.got ELSE <<>>,
                   fingerprints |-> Fingerprints(chain.got),
                   leafIndex |-> FromUint(xdata.got), timestamp |-> FromUint(time.got)]]

\* The first w leaves of a tile, up to one that is not valid, as LoadLog
\* reads the data tile.
ReadTile(data, w) ==
    LET read[i \in 0 .. w] ==
            IF i = 0 THEN [ok |-> TRUE, leaves |-> <<>>, rest |-> data]
            ELSE LET last == read[i - 1]
                     leaf == ReadTileLeaf(last.rest)
                 IN  IF last.ok /\ leaf.ok
                     THEN [ok |-> TRUE, leaves |-> Append(last.leaves, leaf.e), rest |-> leaf.rest]
                     ELSE [ok |-> FALSE, leaves |-> last.leaves, rest |-> last.rest]
    IN  read[w]

-----------------------------------------------------------------------------
(* A data tile is appended to, leaf by leaf; an SCT is made for a leaf.    *)

CONSTANTS Entries,      \* the entries that may be written
          Unknown,      \* types of extensions that a later version might add
          MaxLeaves     \* bound on the leaves of a tile

\* An entry that does not fit its fields is a panic of cryptobyte's Builder.
ASSUME EntriesAssumption ==
    /\ \A e \in Entries :
          /\ e \in [certificate : Seq(Octet), isPrecert : BOOLEAN, issuerKeyHash : Fingerprint,
                    preCertificate : Seq(Octet), fingerprints : Seq(Fingerprint),
                    leafIndex : Int, timestamp : 0 .. MaxInt64]
          /\ Len(e.certificate) < Base^3 /\ Len(e.preCertificate) < Base^3
          /\ Len(e.fingerprints) * FingerprintSize < Base^2
          /\ e.isPrecert \/ (e.issuerKeyHash = ZeroFingerprint /\ e.preCertificate = <<>>)
    /\ Unknown \subseteq Octet \ {LeafIndexType}
    /\ MaxLeaves \in Nat

VARIABLES tile, written, sct

tileVars == <<tile, written, sct>>

TileInit == tile = <<>> /\ written = <<>> /\ sct = <<>>

AppendTileLeaf(e) ==
    /\ Len(written) < MaxLeaves
    /\ InRange(e.leafIndex)
    /\ tile' = tile \o TileLeaf(e)
    /\ written' = Append(written, e)
    /\ UNCHANGED sct

\* "Extensions: base64(ext)", among what else may be there one day.
MakeSCT(e, types) ==
    /\ InRange(e.leafIndex)
    /\ sct' = FlattenSeq([i \in DOMAIN types |-> Uint(types[i], 1) \o LengthPrefixed(2, Uint(0, i))])
              \o MarshalExtensions(e.leafIndex)
    /\ written' = <<e>> /\ tile' = TileLeaf(e)

TileNext ==
    \/ \E e \in Entries : AppendTileLeaf(e)
    \/ /\ written = <<>>
       /\ \E e \in Entries, types \in SeqOf(Unknown, 2) : MakeSCT(e, types)

TileSpec == TileInit /\ [][TileNext]_tileVars

-----------------------------------------------------------------------------
(* Properties.                                                             *)

(* A data tile reads back as the leaves that were appended to it, over any *)
(* number of rounds.  One that was cut short never reads as something      *)
(* else: what is read are the first of its leaves, and then an error.  And *)
(* a client finds the index of its leaf in the extensions of its SCT,      *)
(* whatever extensions it does not know are there as well.                 *)
LeavesReadBack ==
    LET read(n) == ReadTile(SubSeq(tile, 1, n), Len(written))
    IN  /\ read(Len(tile)) = [ok |-> TRUE, leaves |-> written, rest |-> <<>>]
        /\ \A n \in 0 .. (Len(tile) - 1) :
              ~read(n).ok /\ IsStrictPrefix(read(n).leaves, written)
        /\ sct # <<>> => ParseExtensions(sct) = written[1].leafIndex

(* What is hashed tells apart what must not be confused: two leaves have   *)
(* the same deduplication key exactly if they have the same signed entry,  *)
(* and the same MerkleTreeLeaf exactly if they have the same timestamp and *)
(* index too.                                                              *)
HashedDistinctly ==
    \A i, j \in DOMAIN written :
        LET e == written[i]
            f == written[j]
            same == /\ e.isPrecert = f.isPrecert /\ e.certificate = f.certificate
                    /\ e.isPrecert => e.issuerKeyHash = f.issuerKeyHash
        IN  /\ (CacheInput(e) = CacheInput(f)) <=> same
            /\ (MerkleTreeLeaf(e) = MerkleTreeLeaf(f)) <=>
                   (same /\ e.timestamp = f.timestamp /\ e.leafIndex = f.leafIndex)
=============================================================================
