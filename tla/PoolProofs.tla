----------------------------- MODULE PoolProofs -----------------------------
(***************************************************************************)
(* What module Pool's runs check of the submission side, proved for every  *)
(* set of requests and chains and every size of the pools.                 *)
(***************************************************************************)
EXTENDS Pool, WellFoundedInduction, TLAPS

-----------------------------------------------------------------------------
(* The inductive invariant.                                                *)

InRound == {"sequence", "committed", "close", "clear"}
Outside == {"wait", "stop", "stopped", "down"}

CacheRow == [timestamp : Nat, leafIndex : Nat]

\* TypeOK, without what it says of the requests.
Types ==
    /\ pools \in Seq(PoolState)
    /\ seq \in InRound \cup Outside
    /\ fatal \in BOOLEAN
    /\ now \in Nat
    /\ tree \in Seq(Leaf)
    /\ DOMAIN cache \subseteq Hashes
    /\ cache \in [DOMAIN cache -> CacheRow]
    /\ issuers \subseteq Certificates /\ stored \subseteq Certificates
    /\ uncached \subseteq Hashes

\* Where the sequencer is, and the pools there are.
RoundInv ==
    /\ seq = "down" => pools = <<>>
    /\ seq # "down" => Len(pools) >= 1
    /\ seq \in Outside => inSequencing = 0
    /\ seq \in InRound => Len(pools) >= 2 /\ inSequencing = p /\ now # 0

\* The current pool has no result; what a pool that has one says of its
\* entries is what the tree has.
PoolInv ==
    /\ seq # "down" => /\ pools[current].timestamp = 0
                       /\ pools[current].done => pools[current].err
    /\ seq = "committed" => pools[p].timestamp # 0
    /\ seq = "close" => pools[p].err \/ pools[p].timestamp # 0
    /\ ResultNeverMissing
    /\ \A k \in DOMAIN pools : pools[k].timestamp # 0 =>
          \A n \in DOMAIN pools[k].pendingLeaves :
              /\ pools[k].firstLeafIndex + n \in DOMAIN tree
              /\ tree[pools[k].firstLeafIndex + n] = Result(k, n)

\* What a request waits for, and what it was told, has the hash of its entry.
SameEntry(chain, e) == CacheHash(e) = CacheHash(PendingLogEntry(chain))
WaitsFor(r, chain, k, n) ==
    /\ req[r] = Waiting(chain, k, n)
    /\ SameEntry(chain, pools[k].pendingLeaves[n])
HasLeaf(r, chain, j) ==
    /\ req[r] = Answered(chain, tree[j])
    /\ SameEntry(chain, tree[j].entry)
RequestInv(r) ==
    \/ req[r] = Idle
    \/ req[r] = Failed
    \/ seq # "down" /\ \E chain \in Submitted : req[r] = Uploading(chain)
    \/ \E chain \in Submitted : \E k \in DOMAIN pools :
          \E n \in DOMAIN pools[k].pendingLeaves : WaitsFor(r, chain, k, n)
    \/ \E chain \in Submitted : \E j \in DOMAIN tree : HasLeaf(r, chain, j)
RequestsInv ==
    /\ req = [r \in Requests |-> req[r]]
    /\ \A r \in Requests : RequestInv(r)

\* The issuers that a request found in l.issuers are those of its entry.
IssuersInv ==
    /\ issuers \subseteq stored
    /\ \A k \in DOMAIN pools : \A n \in DOMAIN pools[k].pendingLeaves :
          Range(pools[k].pendingLeaves[n].issuers) \subseteq stored
    /\ \A j \in DOMAIN tree : Range(tree[j].entry.issuers) \subseteq stored

IndexInv == \A j \in DOMAIN tree : tree[j].leafIndex = j - 1

\* The cache knows only what the tree has, and all of it but what is in
\* uncached or waits for cachePut.
CacheInv ==
    /\ \A h \in DOMAIN cache :
          LET j == cache[h].leafIndex + 1
          IN  /\ j \in DOMAIN tree
              /\ CacheHash(tree[j].entry) = h
              /\ tree[j].timestamp = cache[h].timestamp
    /\ \A j \in DOMAIN tree :
          LET h == CacheHash(tree[j].entry)
          IN  \/ h \in DOMAIN cache
              \/ h \in uncached
              \/ seq = "committed" /\ h \in PendingHashes

PoolHashes(k) == {CacheHash(pools[k].pendingLeaves[n]) : n \in DOMAIN pools[k].pendingLeaves}

\* The cache, the pool that is sequenced and the current one have no hash in
\* common, and a pool has none twice.
FreshInv ==
    /\ \A k \in DOMAIN pools : \A m, n \in DOMAIN pools[k].pendingLeaves :
          CacheHash(pools[k].pendingLeaves[m]) = CacheHash(pools[k].pendingLeaves[n]) => m = n
    /\ seq # "down" => PoolHashes(current) \cap DOMAIN cache = {}
    /\ seq \in {"sequence", "committed"} =>
          PoolHashes(p) \cap (PoolHashes(current) \cup DOMAIN cache) = {}

Inv ==
    /\ Types /\ RoundInv /\ PoolInv /\ RequestsInv
    /\ IssuersInv /\ IndexInv /\ CacheInv /\ FreshInv

-----------------------------------------------------------------------------
(* Sequences, and what is found in them.                                   *)

(* A set of positive numbers that is not empty has a smallest.             *)
LEMMA SmallestIsIn ==
    ASSUME NEW I, I \subseteq Nat, I # {}
    PROVE  Min(I) \in I /\ \A y \in I : Min(I) =< y
<1> DEFINE less == {ss \in Nat \X Nat : ss[1] < ss[2]}
<1>1. IsWellFoundedOn(less, Nat)
    BY NatLessThanWellFounded DEF OpToRel
<1>2. PICK x \in I : \A y \in I : ~ (<<y, x>> \in less)
  <2> HIDE DEF less
  <2> QED  BY <1>1, WFMin
<1>3. ASSUME NEW y \in I
      PROVE  x =< y
  <2>1. x \in Nat /\ y \in Nat /\ <<y, x>> \in Nat \X Nat
      BY <1>2
  <2>2. ~ (y < x)
      BY <1>2, <2>1
  <2> QED  BY <2>1, <2>2
<1> QED
    BY <1>2, <1>3 DEF Min

LEMMA MinIs ==
    ASSUME NEW I, I \subseteq Nat, NEW m \in I, \A y \in I : m =< y
    PROVE  Min(I) = m
<1>1. PICK x : x = Min(I)
    OBVIOUS
<1>2. x \in I /\ x =< m
    BY <1>1, SmallestIsIn
<1>3. x \in Nat /\ m \in Nat /\ m =< x
    BY <1>2
<1>4. x = m
    BY <1>2, <1>3
<1> QED
    BY <1>1, <1>4

(* SelectInSeq finds in a pool an entry with the hash, if there is one:    *)
(* byHash.                                                                 *)
LEMMA ByHashFinds ==
    ASSUME Types, NEW k \in DOMAIN pools, NEW h
    PROVE  /\ ByHash(k, h) \in Nat
           /\ ByHash(k, h) # 0 =>
                 /\ ByHash(k, h) \in DOMAIN pools[k].pendingLeaves
                 /\ CacheHash(pools[k].pendingLeaves[ByHash(k, h)]) = h
           /\ ByHash(k, h) = 0 =>
                 \A n \in DOMAIN pools[k].pendingLeaves :
                     CacheHash(pools[k].pendingLeaves[n]) # h
<1> DEFINE s == pools[k].pendingLeaves
           I == {n \in 1 .. Len(s) : CacheHash(s[n]) = h}
<1>1. /\ s \in Seq(Entries) /\ DOMAIN s = 1 .. Len(s) /\ Len(s) \in Nat
      /\ k # 0
  <2>1. pools[k] \in PoolState /\ k # 0
      BY DEF Types
  <2> QED  BY <2>1 DEF PoolState
<1>2. ByHash(k, h) = IF I # {} THEN Min(I) ELSE 0
    BY <1>1 DEF ByHash, SelectInSeq
<1>3. I # {} => Min(I) \in I
  <2>1. I \subseteq Nat
      BY <1>1
  <2> HIDE DEF I
  <2> QED  BY <2>1, SmallestIsIn
<1> QED
    BY <1>1, <1>2, <1>3

LEMMA NextIssuerFinds ==
    ASSUME NEW chain \in Submitted
    PROVE  LET s == PendingLogEntry(chain).issuers
           IN  /\ NextIssuer(chain) \in Nat
               /\ NextIssuer(chain) # 0 => s[NextIssuer(chain)] \in Certificates
               /\ NextIssuer(chain) = 0 => Range(s) \subseteq issuers
<1> DEFINE s == PendingLogEntry(chain).issuers
           I == {n \in 1 .. Len(s) : s[n] \notin issuers}
<1>1. chain \in Chains /\ chain \in Seq(Range(chain)) /\ chain # <<>>
    BY ChainsAssumption DEF Submitted
<1>2. s = Tail(chain)
    BY DEF PendingLogEntry
<1>3. /\ s \in Seq(Range(chain)) /\ DOMAIN s = 1 .. Len(s) /\ Len(s) \in Nat
      /\ Range(chain) \subseteq Certificates
    BY <1>1, <1>2 DEF Certificates
<1>4. NextIssuer(chain) = IF I # {} THEN Min(I) ELSE 0
    BY <1>3 DEF NextIssuer, SelectInSeq
<1>5. I # {} => Min(I) \in I
  <2>1. I \subseteq Nat
      BY <1>3
  <2> HIDE DEF I
  <2> QED  BY <2>1, SmallestIsIn
<1>6. NextIssuer(chain) = 0 => Range(s) \subseteq issuers
    BY <1>3, <1>4, <1>5 DEF Range
<1>7. /\ NextIssuer(chain) \in Nat
      /\ NextIssuer(chain) # 0 => s[NextIssuer(chain)] \in Certificates
  <2>1. NextIssuer(chain) # 0 => NextIssuer(chain) \in 1 .. Len(s)
      BY <1>4, <1>5
  <2>2. \A n \in 1 .. Len(s) : s[n] \in Certificates
      BY <1>3
  <2> QED  BY <1>3, <2>1, <2>2
<1> QED
    BY <1>6, <1>7

-----------------------------------------------------------------------------
(* The pools and the tree.                                                 *)

LEMMA PoolFacts ==
    ASSUME Types, NEW k \in DOMAIN pools
    PROVE  /\ pools[k] \in PoolState
           /\ pools[k].pendingLeaves \in Seq(Entries)
           /\ Len(pools[k].pendingLeaves) \in Nat
           /\ DOMAIN pools[k].pendingLeaves = 1 .. Len(pools[k].pendingLeaves)
           /\ \A n \in DOMAIN pools[k].pendingLeaves :
                 /\ pools[k].pendingLeaves[n] \in Entries
                 /\ CacheHash(pools[k].pendingLeaves[n]) \in Hashes
           /\ pools[k].firstLeafIndex \in Nat
           /\ pools[k].timestamp \in Nat
           /\ pools[k].done \in BOOLEAN /\ pools[k].err \in BOOLEAN
<1>1. pools[k] \in PoolState
    BY DEF Types
<1>2. /\ pools[k].pendingLeaves \in Seq(Entries)
      /\ pools[k].firstLeafIndex \in Nat
      /\ pools[k].timestamp \in Nat
      /\ pools[k].done \in BOOLEAN /\ pools[k].err \in BOOLEAN
    BY <1>1 DEF PoolState
<1>3. \A n \in DOMAIN pools[k].pendingLeaves : pools[k].pendingLeaves[n] \in Entries
    BY <1>2
<1> QED
    BY <1>1, <1>2, <1>3 DEF Hashes

LEMMA NewPoolType == NewPool \in PoolState
<1>1. <<>> \in Seq(Entries)
    OBVIOUS
<1> QED
    BY <1>1 DEF NewPool, PoolState

(* The current pool, and the one before it.                                *)
LEMMA Places ==
    ASSUME Types, RoundInv
    PROVE  /\ Len(pools) \in Nat /\ DOMAIN pools = 1 .. Len(pools)
           /\ seq # "down" => current \in DOMAIN pools
           /\ seq \in InRound => p \in DOMAIN pools /\ p # current /\ p + 1 = current
           /\ inSequencing # 0 => seq \in InRound /\ inSequencing = p
BY DEF Types, RoundInv, current, p, InRound, Outside

LEMMA PendingHashesAre ==
    ASSUME Types, p \in DOMAIN pools
    PROVE  PendingHashes = PoolHashes(p) /\ PendingHashes \subseteq Hashes
<1>1. Range(Pending) = {Pending[n] : n \in DOMAIN Pending}
    BY DEF Range
<1>2. PendingHashes = PoolHashes(p)
    BY <1>1 DEF PendingHashes, PoolHashes, Pending
<1> QED
    BY <1>2, PoolFacts DEF PoolHashes

(* What the round adds to the tree.                                        *)
LEMMA ExtendedIs ==
    ASSUME Types, p \in DOMAIN pools
    PROVE  /\ Extended \in Seq(Leaf)
           /\ Len(Extended) = Len(tree) + Len(Pending)
           /\ DOMAIN Extended = 1 .. (Len(tree) + Len(Pending))
           /\ \A j \in DOMAIN tree : j \in DOMAIN Extended /\ Extended[j] = tree[j]
           /\ \A n \in DOMAIN Pending :
                 /\ Len(tree) + n \in DOMAIN Extended
                 /\ Extended[Len(tree) + n] = AsLogEntry(Pending[n], Len(tree) + n - 1, now)
           /\ \A j \in DOMAIN Extended \ DOMAIN tree :
                 j - Len(tree) \in DOMAIN Pending
<1> DEFINE new == [j \in 1 .. Len(Pending) |-> AsLogEntry(Pending[j], Len(tree) + j - 1, now)]
<1>1. /\ Pending \in Seq(Entries) /\ Len(Pending) \in Nat
      /\ DOMAIN Pending = 1 .. Len(Pending)
      /\ \A n \in DOMAIN Pending : Pending[n] \in Entries
    BY PoolFacts DEF Pending
<1>2. tree \in Seq(Leaf) /\ Len(tree) \in Nat /\ DOMAIN tree = 1 .. Len(tree) /\ now \in Nat
    BY DEF Types
<1>3. \A j \in 1 .. Len(Pending) : AsLogEntry(Pending[j], Len(tree) + j - 1, now) \in Leaf
    BY <1>1, <1>2 DEF AsLogEntry, Leaf
<1>4. new \in Seq(Leaf) /\ Len(new) = Len(Pending)
    BY <1>1, <1>3
<1>5. Extended = tree \o new
    BY DEF Extended
<1>6. \A n \in DOMAIN Pending : new[n] = AsLogEntry(Pending[n], Len(tree) + n - 1, now)
    BY <1>1
<1> HIDE DEF new
<1>7. Extended \in Seq(Leaf) /\ Len(Extended) = Len(tree) + Len(Pending)
  <2>1. tree \o new \in Seq(Leaf)
      BY <1>2, <1>4
  <2>2. Len(tree \o new) = Len(tree) + Len(new)
      BY <1>2, <1>4
  <2> QED  BY <1>4, <1>5, <2>1, <2>2
<1>8. DOMAIN Extended = 1 .. (Len(tree) + Len(Pending))
    BY <1>7
<1>9. \A j \in DOMAIN tree : j \in DOMAIN Extended /\ Extended[j] = tree[j]
    BY <1>1, <1>2, <1>4, <1>5, <1>8
<1>10. \A n \in DOMAIN Pending :
          /\ Len(tree) + n \in DOMAIN Extended
          /\ Extended[Len(tree) + n] = new[n]
    BY <1>1, <1>2, <1>4, <1>5, <1>8
<1>11. \A j \in DOMAIN Extended \ DOMAIN tree : j - Len(tree) \in DOMAIN Pending
    BY <1>1, <1>2, <1>8
<1> QED
    BY <1>6, <1>7, <1>8, <1>9, <1>10, <1>11

LEMMA NewLeafIs ==
    ASSUME Types, p \in DOMAIN pools, NEW j \in DOMAIN Extended, j \notin DOMAIN tree
    PROVE  /\ j \in Nat /\ j > Len(tree)
           /\ j - Len(tree) \in DOMAIN pools[p].pendingLeaves
           /\ Extended[j].entry = pools[p].pendingLeaves[j - Len(tree)]
           /\ Extended[j].leafIndex = j - 1
           /\ Extended[j].timestamp = now
<1>1. Len(tree) \in Nat /\ DOMAIN tree = 1 .. Len(tree)
    BY DEF Types
<1>2. Len(Pending) \in Nat
    BY PoolFacts DEF Pending
<1>3. j \in Nat /\ j > Len(tree) /\ j - Len(tree) \in DOMAIN Pending
    BY <1>1, <1>2, ExtendedIs
<1>4. Len(tree) + (j - Len(tree)) = j
    BY <1>1, <1>3
<1>5. Extended[j] = AsLogEntry(Pending[j - Len(tree)], j - 1, now)
    BY <1>3, <1>4, ExtendedIs
<1> QED
    BY <1>3, <1>5 DEF AsLogEntry, Pending

(* A step that alters one of the pools.                                    *)
Altered(k, q) ==
    /\ pools' \in Seq(PoolState)
    /\ Len(pools') = Len(pools) /\ DOMAIN pools' = DOMAIN pools
    /\ pools'[k] = q
    /\ \A m \in DOMAIN pools : m # k => pools'[m] = pools[m]

LEMMA PoolAltered ==
    ASSUME Types, NEW k \in DOMAIN pools, NEW q \in PoolState,
           pools' = [pools EXCEPT ![k] = q]
    PROVE  Altered(k, q)
BY DEF Types, Altered

LEMMA FailAlters ==
    ASSUME Types, RoundInv, seq \in InRound, NEW b, Fail(b)
    PROVE  Altered(p, [pools[p] EXCEPT !.err = TRUE])
<1>1. p \in DOMAIN pools
    BY Places
<1>2. [pools[p] EXCEPT !.err = TRUE] \in PoolState
    BY <1>1, PoolFacts DEF PoolState
<1>3. pools' = [pools EXCEPT ![p] = [pools[p] EXCEPT !.err = TRUE]]
    BY <1>1 DEF Fail
<1> QED
    BY <1>1, <1>2, <1>3, PoolAltered

LEMMA CommitAlters ==
    ASSUME Types, RoundInv, Commit
    PROVE  Altered(p, [pools[p] EXCEPT !.timestamp = now, !.firstLeafIndex = Len(tree)])
<1> DEFINE q == [pools[p] EXCEPT !.timestamp = now, !.firstLeafIndex = Len(tree)]
<1>1. p \in DOMAIN pools
    BY Places DEF Commit, InRound
<1>2. q \in PoolState
  <2>1. now \in Nat /\ Len(tree) \in Nat
      BY DEF Types
  <2> QED  BY <1>1, <2>1, PoolFacts DEF PoolState
<1>3. pools' = [pools EXCEPT ![p] = q]
    BY <1>1 DEF Commit
<1> HIDE DEF q
<1>4. Altered(p, q)
    BY <1>1, <1>2, <1>3, PoolAltered
<1> QED
    BY <1>4 DEF q

LEMMA CloseAlters ==
    ASSUME Types, RoundInv, Close
    PROVE  Altered(p, [pools[p] EXCEPT !.done = TRUE])
<1>1. p \in DOMAIN pools
    BY Places DEF Close, InRound
<1>2. [pools[p] EXCEPT !.done = TRUE] \in PoolState
    BY <1>1, PoolFacts DEF PoolState
<1>3. pools' = [pools EXCEPT ![p] = [pools[p] EXCEPT !.done = TRUE]]
    BY <1>1 DEF Close
<1> QED
    BY <1>1, <1>2, <1>3, PoolAltered

LEMMA StopAlters ==
    ASSUME Types, RoundInv, StopSequencer
    PROVE  Altered(current, [pools[current] EXCEPT !.err = TRUE, !.done = TRUE])
<1>1. current \in DOMAIN pools
    BY Places DEF StopSequencer
<1>2. [pools[current] EXCEPT !.err = TRUE, !.done = TRUE] \in PoolState
    BY <1>1, PoolFacts DEF PoolState
<1>3. pools' = [pools EXCEPT ![current] = [pools[current] EXCEPT !.err = TRUE, !.done = TRUE]]
    BY <1>1 DEF StopSequencer
<1> QED
    BY <1>1, <1>2, <1>3, PoolAltered

(* An entry that no pool and no row of the cache has is appended to the    *)
(* current pool.                                                           *)
LEMMA AppendAlters ==
    ASSUME Types, RoundInv, seq # "down", NEW e \in Entries,
           pools' = [pools EXCEPT ![current].pendingLeaves = Append(@, e)]
    PROVE  Altered(current, [pools[current] EXCEPT !.pendingLeaves = Append(@, e)])
<1>1. current \in DOMAIN pools
    BY Places
<1>2. Append(pools[current].pendingLeaves, e) \in Seq(Entries)
    BY <1>1, PoolFacts
<1>3. [pools[current] EXCEPT !.pendingLeaves = Append(@, e)] \in PoolState
    BY <1>1, <1>2, PoolFacts DEF PoolState
<1>4. pools' = [pools EXCEPT ![current] = [pools[current] EXCEPT !.pendingLeaves = Append(@, e)]]
    BY <1>1
<1> QED
    BY <1>1, <1>3, <1>4, PoolAltered

LEMMA TickAppends ==
    ASSUME Types, Tick
    PROVE  /\ pools' \in Seq(PoolState)
           /\ Len(pools') = Len(pools) + 1
           /\ DOMAIN pools' = DOMAIN pools \cup {Len(pools) + 1}
           /\ \A k \in DOMAIN pools : pools'[k] = pools[k]
           /\ pools'[Len(pools) + 1] = NewPool
BY NewPoolType DEF Types, Tick

-----------------------------------------------------------------------------
(* The requests.                                                           *)

LEMMA UploadingIs ==
    ASSUME RequestsInv, NEW r \in Requests, req[r].at = "issuers"
    PROVE  seq # "down" /\ req[r].chain \in Submitted /\ req[r] = Uploading(req[r].chain)
BY DEF RequestsInv, RequestInv, WaitsFor, HasLeaf, Idle, Failed, Uploading, Waiting, Answered

LEMMA WaitingIs ==
    ASSUME RequestsInv, NEW r \in Requests, req[r].at = "waiting"
    PROVE  /\ req[r].chain \in Submitted
           /\ req[r].pool \in DOMAIN pools
           /\ req[r].n \in DOMAIN pools[req[r].pool].pendingLeaves
           /\ WaitsFor(r, req[r].chain, req[r].pool, req[r].n)
<1>1. \E chain \in Submitted : \E k \in DOMAIN pools :
          \E n \in DOMAIN pools[k].pendingLeaves : WaitsFor(r, chain, k, n)
    BY DEF RequestsInv, RequestInv, HasLeaf, Idle, Failed, Uploading, Answered
<1> QED
    BY <1>1 DEF WaitsFor, Waiting

LEMMA AnsweredIs ==
    ASSUME RequestsInv, NEW r \in Requests, req[r].at = "sct"
    PROVE  /\ req[r].chain \in Submitted
           /\ \E j \in DOMAIN tree : HasLeaf(r, req[r].chain, j)
<1>1. \E chain \in Submitted : \E j \in DOMAIN tree : HasLeaf(r, chain, j)
    BY DEF RequestsInv, RequestInv, WaitsFor, Idle, Failed, Uploading, Waiting
<1> QED
    BY <1>1 DEF HasLeaf, Answered

(* The entry of a chain that was accepted, and its hash.                   *)
LEMMA EntryIs ==
    ASSUME NEW chain \in Submitted
    PROVE  /\ PendingLogEntry(chain) \in Entries
           /\ CacheHash(PendingLogEntry(chain)) \in Hashes
BY DEF Entries, Hashes

-----------------------------------------------------------------------------
(* What every step keeps of the types.                                     *)

LEMMA TypesStep ==
    ASSUME Types, RoundInv, RequestsInv, [Next]_vars
    PROVE  Types'
<1> USE DEF InRound, Outside
<1>1. CASE UNCHANGED vars
    BY <1>1 DEF Types, vars, poolVars, issuerVars
<1>2. ASSUME UNCHANGED <<poolVars, issuerVars>>
      PROVE  Types'
    BY <1>2 DEF Types, poolVars, issuerVars
<1>3. ASSUME NEW r \in Requests, UploadIssuer(r)
      PROVE  Types'
  <2>1. PICK i \in Certificates : issuers' \subseteq issuers \cup {i}
                                  /\ stored' \subseteq stored \cup {i}
      BY <1>3, UploadingIs, NextIssuerFinds DEF UploadIssuer
  <2> QED  BY <1>3, <2>1 DEF Types, UploadIssuer, poolVars
<1>4. ASSUME NEW r \in Requests, AddLeafToPool(r)
      PROVE  Types'
  <2> DEFINE e == PendingLogEntry(req[r].chain)
  <2>1. e \in Entries
      BY <1>4, UploadingIs, EntryIs DEF AddLeafToPool
  <2>2. CASE UNCHANGED pools
      BY <1>4, <2>2 DEF Types, AddLeafToPool, issuerVars
  <2>3. CASE pools' = [pools EXCEPT ![current].pendingLeaves = Append(@, e)]
    <3> HIDE DEF e
    <3>1. pools' \in Seq(PoolState)
        BY <1>4, <2>1, <2>3, UploadingIs, AppendAlters DEF Altered, AddLeafToPool
    <3> QED  BY <1>4, <3>1 DEF Types, AddLeafToPool, issuerVars
  <2> QED  BY <1>4, <2>2, <2>3 DEF AddLeafToPool, FoundIn
<1>5. CASE Tick
  <2>1. pools' \in Seq(PoolState)
      BY <1>5, TickAppends
  <2> QED  BY <1>5, <2>1 DEF Tick, Types, issuerVars
<1>6. ASSUME NEW b \in BOOLEAN, Fail(b), seq \in InRound,
             tree' \in {tree, Extended}, uncached' \in {uncached, uncached \cup PendingHashes}
      PROVE  Types'
  <2>1. p \in DOMAIN pools
      BY <1>6, Places
  <2>2. pools' \in Seq(PoolState)
      BY <1>6, FailAlters DEF Altered
  <2>3. tree' \in Seq(Leaf) /\ uncached' \subseteq Hashes
      BY <1>6, <2>1, ExtendedIs, PendingHashesAre DEF Types
  <2> QED  BY <1>6, <2>2, <2>3 DEF Fail, Types, issuerVars
<1>7. CASE Commit
  <2>1. p \in DOMAIN pools /\ Len(tree) \in Nat
      BY <1>7, Places DEF Commit, Types
  <2>2. pools' \in Seq(PoolState)
      BY <1>7, CommitAlters DEF Altered
  <2>3. tree' \in Seq(Leaf)
      BY <1>7, <2>1, ExtendedIs DEF Commit
  <2> QED  BY <1>7, <2>2, <2>3 DEF Commit, Types, issuerVars
<1>8. CASE CachePut
  <2>1. p \in DOMAIN pools
      BY <1>8, Places DEF CachePut
  <2>2. \A h \in PendingHashes : Row(h) \in CacheRow
    <3> SUFFICES ASSUME NEW h \in PendingHashes
                 PROVE  Row(h) \in CacheRow
        OBVIOUS
    <3>1. ByHash(p, h) \in Nat /\ ByHash(p, h) # 0
        BY <2>1, ByHashFinds, PendingHashesAre DEF PoolHashes
    <3> QED  BY <2>1, <3>1, PoolFacts DEF Row, Result, AsLogEntry, CacheRow
  <2>3. PendingHashes \subseteq Hashes
      BY <2>1, PendingHashesAre
  <2>4. DOMAIN cache' \subseteq Hashes /\ cache' \in [DOMAIN cache' -> CacheRow]
      BY <1>8, <2>2, <2>3 DEF CachePut, Types
  <2> QED  BY <1>8, <2>4 DEF CachePut, Types, issuerVars
<1>9. CASE CachePutErr
  <2>1. uncached' \subseteq Hashes
      BY <1>9, Places, PendingHashesAre DEF CachePutErr, Types
  <2> QED  BY <1>9, <2>1 DEF CachePutErr, Types, issuerVars
<1>10. CASE Close
  <2>1. pools' \in Seq(PoolState)
      BY <1>10, CloseAlters DEF Altered
  <2> QED  BY <1>10, <2>1 DEF Close, Types, issuerVars
<1>11. CASE Clear
    BY <1>11 DEF Clear, Types, issuerVars
<1>12. CASE StopSequencer
  <2>1. pools' \in Seq(PoolState)
      BY <1>12, StopAlters DEF Altered
  <2> QED  BY <1>12, <2>1 DEF StopSequencer, Types, issuerVars
<1>13. CASE Cease
    BY <1>13 DEF Cease, Types, issuerVars
<1>14. CASE Crash
  <2>1. tree' \in Seq(Leaf)
      BY <1>14, Places, ExtendedIs DEF Crash, Types
  <2>2. PICK t \in 0 .. now :
            cache' = [h \in {g \in DOMAIN cache : cache[g].timestamp <= t} |-> cache[h]]
      BY <1>14 DEF Crash
  <2>3. DOMAIN cache' \subseteq Hashes /\ cache' \in [DOMAIN cache' -> CacheRow]
      BY <2>2 DEF Types
  <2>4. \A leaf \in Range(tree') : CacheHash(leaf.entry) \in Hashes
    <3>1. \A j \in DOMAIN tree' : tree'[j] \in Leaf
        BY <2>1
    <3>2. \A leaf \in Leaf : leaf.entry \in Entries
        BY DEF Leaf
    <3> QED  BY <3>1, <3>2 DEF Range, Hashes
  <2>5. uncached' \subseteq Hashes
      BY <1>14, <2>4 DEF Crash
  <2>6. pools' \in Seq(PoolState) /\ issuers' \subseteq Certificates
      BY <1>14 DEF Crash
  <2> QED  BY <1>14, <2>1, <2>3, <2>5, <2>6 DEF Crash, Types
<1>15. CASE Restart
  <2>1. pools' \in Seq(PoolState)
      BY <1>15, NewPoolType DEF Restart
  <2> QED  BY <1>15, <2>1 DEF Restart, Types, issuerVars
<1>16. CASE FailEarly \/ FailReplace \/ FailUpload
    BY <1>6, <1>16 DEF FailEarly, FailReplace, FailUpload
<1>17. ASSUME NEW r \in Requests,
              \/ \E e \in Endpoints, chain \in Chains : Submit(r, e, chain)
              \/ Refuse(r) \/ CacheGetErr(r) \/ Cancel(r) \/ Deliver(r)
       PROVE  Types'
    BY <1>2, <1>17 DEF Submit, Refuse, CacheGetErr, Cancel, Deliver
<1> QED
    BY <1>1, <1>3, <1>4, <1>5, <1>7, <1>8, <1>9, <1>10, <1>11, <1>12, <1>13, <1>14,
       <1>15, <1>16, <1>17 DEF Next, Sequencer, Handle

-----------------------------------------------------------------------------
(* What a step does to the pools and to the tree.                          *)

(* Where addLeafToPool finds the entry, and when it appends it.            *)
Finds(r) ==
    \E k \in DOMAIN pools : \E n \in DOMAIN pools[k].pendingLeaves :
        /\ SameEntry(req[r].chain, pools[k].pendingLeaves[n])
        /\ req' = [req EXCEPT ![r] = Waiting(req[r].chain, k, n)]
Cached(r) ==
    LET e == PendingLogEntry(req[r].chain)
        row == cache[CacheHash(e)]
    IN  /\ CacheHash(e) \in DOMAIN cache
        /\ req' = [req EXCEPT ![r] =
                     Answered(req[r].chain, AsLogEntry(e, row.leafIndex, row.timestamp))]
Appends(r) ==
    LET e == PendingLogEntry(req[r].chain)
        h == CacheHash(e)
    IN  /\ h \notin DOMAIN cache
        /\ h \notin PoolHashes(current)
        /\ seq \in InRound => h \notin PoolHashes(p)
        /\ Altered(current, [pools[current] EXCEPT !.pendingLeaves = Append(@, e)])
        /\ req' = [req EXCEPT ![r] =
                     Waiting(req[r].chain, current, Len(pools[current].pendingLeaves) + 1)]

LEMMA AddLeafCases ==
    ASSUME Types, RoundInv, RequestsInv, NEW r \in Requests, AddLeafToPool(r)
    PROVE  \/ UNCHANGED pools /\ (Finds(r) \/ Cached(r) \/ req' = [req EXCEPT ![r] = Failed])
           \/ Appends(r)
<1> DEFINE chain == req[r].chain
           e == PendingLogEntry(chain)
           h == CacheHash(e)
<1>1. seq # "down" /\ chain \in Submitted /\ e \in Entries
    BY UploadingIs, EntryIs DEF AddLeafToPool
<1>2. current \in DOMAIN pools
    BY <1>1, Places
<1>3. ASSUME NEW k \in DOMAIN pools, NEW n, n = ByHash(k, h), n # 0, FoundIn(r, k, n)
      PROVE  UNCHANGED pools /\ Finds(r)
  <2>1. n \in DOMAIN pools[k].pendingLeaves /\ SameEntry(chain, pools[k].pendingLeaves[n])
      BY <1>3, ByHashFinds DEF SameEntry
  <2>2. UNCHANGED pools /\ req' = [req EXCEPT ![r] = Waiting(req[r].chain, k, n)]
      BY <1>3 DEF FoundIn
  <2> QED  BY <2>1, <2>2 DEF Finds
<1>4. inSequencing # 0 => inSequencing \in DOMAIN pools
    BY Places
<1>5. CASE ByHash(current, h) # 0
    BY <1>2, <1>3, <1>5 DEF AddLeafToPool
<1>6. CASE ByHash(current, h) = 0 /\ ByHash(inSequencing, h) # 0
  <2>1. inSequencing # 0
      BY <1>6 DEF ByHash
  <2> QED  BY <1>3, <1>4, <1>6, <2>1 DEF AddLeafToPool
<1>7. CASE ByHash(current, h) = 0 /\ ByHash(inSequencing, h) = 0
  <2>1. h \notin PoolHashes(current)
      BY <1>2, <1>7, ByHashFinds DEF PoolHashes
  <2>2. seq \in InRound => h \notin PoolHashes(p)
    <3>1. seq \in InRound => inSequencing = p /\ p \in DOMAIN pools
        BY Places DEF RoundInv
    <3> QED  BY <1>7, <3>1, ByHashFinds DEF PoolHashes
  <2>3. CASE h \in DOMAIN cache
      BY <1>7, <2>3 DEF AddLeafToPool, Cached
  <2>4. CASE h \notin DOMAIN cache /\ pools' # pools
    <3> DEFINE size == Len(pools[current].pendingLeaves)
    <3>1. /\ pools' = [pools EXCEPT ![current].pendingLeaves = Append(@, e)]
          /\ req' = [req EXCEPT ![r] = Waiting(@.chain, current, size + 1)]
        BY <1>7, <2>4 DEF AddLeafToPool
    <3>2. Altered(current, [pools[current] EXCEPT !.pendingLeaves = Append(@, e)])
        BY <1>1, <3>1, AppendAlters
    <3>3. req' = [req EXCEPT ![r] = Waiting(chain, current, size + 1)]
        BY <3>1
    <3> QED  BY <2>1, <2>2, <2>4, <3>2, <3>3 DEF Appends
  <2>5. CASE h \notin DOMAIN cache /\ pools' = pools
    <3>1. PICK n : \/ req' = [req EXCEPT ![r] = Failed]
                   \/ /\ pools' = [pools EXCEPT ![current].pendingLeaves = Append(@, e)]
                      /\ n = Len(pools[current].pendingLeaves)
        BY <1>7, <2>5 DEF AddLeafToPool
    <3>2. pools' # [pools EXCEPT ![current].pendingLeaves = Append(@, e)]
      <4>1. SUFFICES ASSUME pools' = [pools EXCEPT ![current].pendingLeaves = Append(@, e)]
                     PROVE  FALSE
          OBVIOUS
      <4>2. Altered(current, [pools[current] EXCEPT !.pendingLeaves = Append(@, e)])
          BY <1>1, <4>1, AppendAlters
      <4> HIDE DEF e
      <4>3. pools'[current].pendingLeaves = Append(pools[current].pendingLeaves, e)
          BY <1>2, <4>2, PoolFacts DEF Altered, PoolState
      <4>4. Len(pools'[current].pendingLeaves) = Len(pools[current].pendingLeaves) + 1
          BY <1>1, <1>2, <4>3, PoolFacts
      <4> QED  BY <1>2, <2>5, <4>4, PoolFacts
    <3> QED  BY <2>5, <3>1, <3>2
  <2> QED  BY <2>3, <2>4, <2>5
<1> QED
    BY <1>5, <1>6, <1>7

(* The tree is extended by the pool of the round, or not at all.           *)
LEMMA TreeStep ==
    ASSUME Types, RoundInv, [Next]_vars
    PROVE  /\ \/ UNCHANGED tree
              \/ seq = "sequence" /\ p \in DOMAIN pools /\ tree' = Extended
           /\ \A j \in DOMAIN tree : j \in DOMAIN tree' /\ tree'[j] = tree[j]
<1>1. \/ UNCHANGED tree
      \/ seq = "sequence" /\ tree' = Extended
    BY DEF Next, vars, poolVars, issuerVars, Sequencer, Handle, Submit, Refuse, UploadIssuer,
           AddLeafToPool, CacheGetErr, Deliver, Cancel, Tick, FailEarly, FailReplace, Commit,
           FailUpload, CachePut, CachePutErr, Close, Clear, Cease, StopSequencer, Crash, Restart
<1>2. seq = "sequence" => p \in DOMAIN pools
    BY Places DEF InRound
<1> QED
    BY <1>1, <1>2, ExtendedIs

(* The entries of the pools stay what they are; so do their results.       *)
KeepsEntries ==
    /\ \A k \in DOMAIN pools :
          k \in DOMAIN pools' /\ pools'[k].pendingLeaves = pools[k].pendingLeaves
    /\ \A k \in DOMAIN pools' : k \in DOMAIN pools \/ pools'[k] = NewPool
KeepsResults ==
    /\ \A k \in DOMAIN pools :
          /\ k \in DOMAIN pools'
          /\ pools'[k].timestamp = pools[k].timestamp
          /\ pools'[k].firstLeafIndex = pools[k].firstLeafIndex
    /\ \A k \in DOMAIN pools' : k \in DOMAIN pools \/ pools'[k] = NewPool

LEMMA PoolsStep ==
    ASSUME Types, RoundInv, RequestsInv, [Next]_vars
    PROVE  /\ Crash \/ KeepsEntries \/ \E r \in Requests : AddLeafToPool(r) /\ Appends(r)
           /\ Crash \/ KeepsResults \/ Commit
<1> DEFINE Goal == /\ Crash \/ KeepsEntries \/ \E r \in Requests : AddLeafToPool(r) /\ Appends(r)
                   /\ Crash \/ KeepsResults \/ Commit
<1> USE DEF InRound
<1>1. ASSUME UNCHANGED pools
      PROVE  Goal
    BY <1>1 DEF KeepsEntries, KeepsResults
<1>2. ASSUME NEW k \in DOMAIN pools, NEW q, Altered(k, q),
             q.pendingLeaves = pools[k].pendingLeaves
      PROVE  KeepsEntries
    BY <1>2 DEF Altered, KeepsEntries
<1>3. ASSUME NEW k \in DOMAIN pools, NEW q, Altered(k, q),
             q.timestamp = pools[k].timestamp, q.firstLeafIndex = pools[k].firstLeafIndex
      PROVE  KeepsResults
    BY <1>3 DEF Altered, KeepsResults
<1>4. ASSUME NEW r \in Requests, AddLeafToPool(r)
      PROVE  Goal
  <2>1. seq # "down" /\ current \in DOMAIN pools
      BY <1>4, UploadingIs, Places DEF AddLeafToPool
  <2>2. CASE Appends(r)
    <3> DEFINE q == [pools[current] EXCEPT
                       !.pendingLeaves = Append(@, PendingLogEntry(req[r].chain))]
    <3>1. q.timestamp = pools[current].timestamp /\ q.firstLeafIndex = pools[current].firstLeafIndex
        BY <2>1, PoolFacts DEF PoolState
    <3>2. Altered(current, q)
        BY <2>2 DEF Appends
    <3> HIDE DEF q
    <3> QED  BY <1>3, <1>4, <2>1, <2>2, <3>1, <3>2
  <2> QED  BY <1>1, <1>4, <2>2, AddLeafCases
<1>5. CASE Tick
    BY <1>5, TickAppends DEF KeepsEntries, KeepsResults
<1>6. ASSUME NEW b \in BOOLEAN, Fail(b), seq \in InRound
      PROVE  Goal
  <2> DEFINE q == [pools[p] EXCEPT !.err = TRUE]
  <2>1. p \in DOMAIN pools /\ Altered(p, q)
      BY <1>6, Places, FailAlters
  <2>2. /\ q.pendingLeaves = pools[p].pendingLeaves /\ q.timestamp = pools[p].timestamp
        /\ q.firstLeafIndex = pools[p].firstLeafIndex
      BY <2>1, PoolFacts DEF PoolState
  <2> HIDE DEF q
  <2> QED  BY <1>2, <1>3, <2>1, <2>2
<1>7. CASE Commit
  <2> DEFINE q == [pools[p] EXCEPT !.timestamp = now, !.firstLeafIndex = Len(tree)]
  <2>1. p \in DOMAIN pools /\ Altered(p, q)
      BY <1>7, Places, CommitAlters DEF Commit
  <2>2. q.pendingLeaves = pools[p].pendingLeaves
      BY <2>1, PoolFacts DEF PoolState
  <2> HIDE DEF q
  <2> QED  BY <1>2, <1>7, <2>1, <2>2
<1>8. CASE Close
  <2> DEFINE q == [pools[p] EXCEPT !.done = TRUE]
  <2>1. p \in DOMAIN pools /\ Altered(p, q)
      BY <1>8, Places, CloseAlters DEF Close
  <2>2. /\ q.pendingLeaves = pools[p].pendingLeaves /\ q.timestamp = pools[p].timestamp
        /\ q.firstLeafIndex = pools[p].firstLeafIndex
      BY <2>1, PoolFacts DEF PoolState
  <2> HIDE DEF q
  <2> QED  BY <1>2, <1>3, <2>1, <2>2
<1>9. CASE StopSequencer
  <2> DEFINE q == [pools[current] EXCEPT !.err = TRUE, !.done = TRUE]
  <2>1. current \in DOMAIN pools /\ Altered(current, q)
      BY <1>9, Places, StopAlters DEF StopSequencer
  <2>2. /\ q.pendingLeaves = pools[current].pendingLeaves
        /\ q.timestamp = pools[current].timestamp
        /\ q.firstLeafIndex = pools[current].firstLeafIndex
      BY <2>1, PoolFacts DEF PoolState
  <2> HIDE DEF q
  <2> QED  BY <1>2, <1>3, <2>1, <2>2
<1>10. CASE Restart
  <2>1. DOMAIN pools = {} /\ \A k \in DOMAIN pools' : pools'[k] = NewPool
      BY <1>10 DEF Restart, RoundInv
  <2> QED  BY <2>1 DEF KeepsEntries, KeepsResults
<1>11. CASE FailEarly \/ FailReplace \/ FailUpload
    BY <1>6, <1>11 DEF FailEarly, FailReplace, FailUpload
<1>12. CASE UNCHANGED vars \/ CachePut \/ CachePutErr \/ Clear \/ Cease
    BY <1>1, <1>12 DEF vars, poolVars, CachePut, CachePutErr, Clear, Cease
<1>13. ASSUME NEW r \in Requests,
              \/ \E e \in Endpoints, chain \in Chains : Submit(r, e, chain)
              \/ Refuse(r) \/ UploadIssuer(r) \/ CacheGetErr(r) \/ Cancel(r) \/ Deliver(r)
       PROVE  Goal
    BY <1>1, <1>13 DEF Submit, Refuse, UploadIssuer, CacheGetErr, Cancel, Deliver, poolVars
<1> QED
    BY <1>4, <1>5, <1>7, <1>8, <1>9, <1>10, <1>11, <1>12, <1>13 DEF Next, Sequencer, Handle

(* An entry that is appended comes after those that are there.             *)
LEMMA AppendsAt ==
    ASSUME Types, RoundInv, RequestsInv, NEW r \in Requests, AddLeafToPool(r), Appends(r)
    PROVE  LET e == PendingLogEntry(req[r].chain)
               s == pools[current].pendingLeaves
               t == pools'[current].pendingLeaves
           IN  /\ seq # "down" /\ current \in DOMAIN pools /\ DOMAIN pools' = DOMAIN pools
               /\ req[r].chain \in Submitted
               /\ e \in Entries
               /\ Len(s) \in Nat /\ DOMAIN s = 1 .. Len(s)
               /\ DOMAIN t = 1 .. (Len(s) + 1)
               /\ t[Len(s) + 1] = e
               /\ \A n \in DOMAIN s : t[n] = s[n]
               /\ \A k \in DOMAIN pools : k # current => pools'[k] = pools[k]
<1> DEFINE e == PendingLogEntry(req[r].chain)
           s == pools[current].pendingLeaves
           t == pools'[current].pendingLeaves
<1>1. seq # "down" /\ current \in DOMAIN pools /\ req[r].chain \in Submitted /\ e \in Entries
    BY UploadingIs, EntryIs, Places DEF AddLeafToPool
<1>2. Altered(current, [pools[current] EXCEPT !.pendingLeaves = Append(@, e)])
    BY DEF Appends
<1> HIDE DEF e
<1>3. t = Append(s, e)
    BY <1>1, <1>2, PoolFacts DEF Altered, PoolState
<1>4. s \in Seq(Entries) /\ Len(s) \in Nat /\ DOMAIN s = 1 .. Len(s)
    BY <1>1, PoolFacts
<1>5. DOMAIN t = 1 .. (Len(s) + 1) /\ t[Len(s) + 1] = e /\ \A n \in DOMAIN s : t[n] = s[n]
  <2> HIDE DEF s, t
  <2> QED  BY <1>1, <1>3, <1>4
<1> QED
    BY <1>1, <1>2, <1>4, <1>5 DEF Altered, e

-----------------------------------------------------------------------------
(* Every step keeps every part of the invariant.                           *)

LEMMA RoundStep ==
    ASSUME Types, RoundInv, RequestsInv, [Next]_vars
    PROVE  RoundInv'
<1> USE DEF InRound, Outside
<1>1. ASSUME Len(pools') = Len(pools), pools' \in Seq(PoolState), UNCHANGED <<inSequencing, now>>,
             \/ UNCHANGED seq
             \/ seq \in InRound /\ seq' \in InRound
             \/ seq \in Outside \ {"down"} /\ seq' \in Outside \ {"down"}
      PROVE  RoundInv'
    BY <1>1 DEF RoundInv, Types, current, p
<1>2. ASSUME UNCHANGED pools, UNCHANGED <<inSequencing, now>>,
             \/ UNCHANGED seq
             \/ seq \in InRound /\ seq' \in InRound
             \/ seq \in Outside \ {"down"} /\ seq' \in Outside \ {"down"}
      PROVE  RoundInv'
    BY <1>1, <1>2 DEF Types
<1>3. ASSUME NEW r \in Requests, AddLeafToPool(r)
      PROVE  RoundInv'
  <2>1. UNCHANGED pools \/ Appends(r)
      BY <1>3, AddLeafCases
  <2>2. Len(pools') = Len(pools) /\ pools' \in Seq(PoolState)
      BY <2>1 DEF Appends, Altered, Types
  <2>3. UNCHANGED <<inSequencing, now, seq>>
      BY <1>3 DEF AddLeafToPool
  <2> QED  BY <1>1, <2>2, <2>3
<1>4. CASE Tick
  <2>1. seq # "down" /\ Len(pools) >= 1 /\ Len(pools) \in Nat
      BY <1>4 DEF Tick, RoundInv, Types
  <2>2. Len(pools') = Len(pools) + 1
      BY <1>4, TickAppends
  <2>3. inSequencing' = Len(pools) /\ seq' = "sequence" /\ now' = now + 1 /\ now \in Nat
      BY <1>4 DEF Tick, current, Types
  <2> QED  BY <2>1, <2>2, <2>3 DEF RoundInv, p, current
<1>5. ASSUME NEW b \in BOOLEAN, Fail(b), seq \in InRound
      PROVE  RoundInv'
  <2>1. Len(pools') = Len(pools) /\ pools' \in Seq(PoolState)
      BY <1>5, FailAlters DEF Altered
  <2> QED  BY <1>1, <1>5, <2>1 DEF Fail
<1>6. CASE Commit
    BY <1>1, <1>6, CommitAlters DEF Altered, Commit
<1>7. CASE Close
    BY <1>1, <1>7, CloseAlters DEF Altered, Close
<1>8. CASE StopSequencer
    BY <1>1, <1>8, StopAlters DEF Altered, StopSequencer
<1>9. CASE Clear
    BY <1>9 DEF Clear, RoundInv
<1>10. CASE Crash
    BY <1>10 DEF Crash, RoundInv
<1>11. CASE Restart
    BY <1>11 DEF Restart, RoundInv
<1>12. CASE FailEarly \/ FailReplace \/ FailUpload
    BY <1>5, <1>12 DEF FailEarly, FailReplace, FailUpload
<1>13. CASE UNCHANGED vars \/ CachePut \/ CachePutErr \/ Cease
    BY <1>2, <1>13 DEF vars, poolVars, CachePut, CachePutErr, Cease
<1>14. ASSUME NEW r \in Requests,
              \/ \E e \in Endpoints, chain \in Chains : Submit(r, e, chain)
              \/ Refuse(r) \/ UploadIssuer(r) \/ CacheGetErr(r) \/ Cancel(r) \/ Deliver(r)
       PROVE  RoundInv'
    BY <1>2, <1>14 DEF Submit, Refuse, UploadIssuer, CacheGetErr, Cancel, Deliver, poolVars
<1> QED
    BY <1>3, <1>4, <1>6, <1>7, <1>8, <1>9, <1>10, <1>11, <1>12, <1>13, <1>14
    DEF Next, Sequencer, Handle

LEMMA IndexStep ==
    ASSUME Types, RoundInv, IndexInv, [Next]_vars
    PROVE  IndexInv'
<1>1. CASE UNCHANGED tree
    BY <1>1 DEF IndexInv
<1>2. CASE p \in DOMAIN pools /\ tree' = Extended
  <2> SUFFICES ASSUME NEW j \in DOMAIN Extended
               PROVE  Extended[j].leafIndex = j - 1
      BY <1>2 DEF IndexInv
  <2>1. CASE j \in DOMAIN tree
      BY <1>2, <2>1, ExtendedIs DEF IndexInv
  <2>2. CASE j \notin DOMAIN tree
      BY <1>2, <2>2, NewLeafIs
  <2> QED  BY <2>1, <2>2
<1> QED
    BY <1>1, <1>2, TreeStep

LEMMA IssuersStep ==
    ASSUME Types, RoundInv, RequestsInv, IssuersInv, [Next]_vars
    PROVE  IssuersInv'
<1>1. issuers' \subseteq stored' /\ stored \subseteq stored'
    BY DEF IssuersInv, Next, vars, poolVars, issuerVars, Sequencer, Handle, Submit, Refuse,
           UploadIssuer, AddLeafToPool, CacheGetErr, Deliver, Cancel, Tick, FailEarly,
           FailReplace, Fail, Commit, FailUpload, CachePut, CachePutErr, Close, Clear, Cease,
           StopSequencer, Crash, Restart
<1>2. \A k \in DOMAIN pools' : \A n \in DOMAIN pools'[k].pendingLeaves :
          Range(pools'[k].pendingLeaves[n].issuers) \subseteq stored'
  <2>1. CASE Crash
    <3>1. DOMAIN pools' = {}
        BY <2>1 DEF Crash
    <3> QED  BY <3>1
  <2>2. CASE KeepsEntries
    <3>1. DOMAIN NewPool.pendingLeaves = {}
        BY DEF NewPool
    <3> QED  BY <1>1, <2>2, <3>1 DEF KeepsEntries, IssuersInv
  <2>3. ASSUME NEW r \in Requests, AddLeafToPool(r), Appends(r)
        PROVE  \A k \in DOMAIN pools' : \A n \in DOMAIN pools'[k].pendingLeaves :
                  Range(pools'[k].pendingLeaves[n].issuers) \subseteq stored'
    <3> DEFINE e == PendingLogEntry(req[r].chain)
    <3>1. Range(e.issuers) \subseteq stored
      <4>1. req[r].chain \in Submitted /\ NextIssuer(req[r].chain) = 0
          BY <2>3, UploadingIs DEF AddLeafToPool
      <4>2. Range(e.issuers) \subseteq issuers
          BY <4>1, NextIssuerFinds
      <4> QED  BY <4>2 DEF IssuersInv
    <3> HIDE DEF e
    <3>2. TAKE k \in DOMAIN pools'
    <3>3. TAKE n \in DOMAIN pools'[k].pendingLeaves
    <3>4. \/ pools'[k].pendingLeaves[n] = e
          \/ /\ k \in DOMAIN pools /\ n \in DOMAIN pools[k].pendingLeaves
             /\ pools'[k].pendingLeaves[n] = pools[k].pendingLeaves[n]
        BY <2>3, AppendsAt DEF e
    <3> QED  BY <1>1, <3>1, <3>4 DEF IssuersInv
  <2> QED  BY <2>1, <2>2, <2>3, PoolsStep
<1>3. \A j \in DOMAIN tree' : Range(tree'[j].entry.issuers) \subseteq stored'
  <2>1. CASE UNCHANGED tree
      BY <1>1, <2>1 DEF IssuersInv
  <2>2. CASE p \in DOMAIN pools /\ tree' = Extended
    <3> TAKE j \in DOMAIN tree'
    <3>1. CASE j \in DOMAIN tree
        BY <1>1, <2>2, <3>1, ExtendedIs DEF IssuersInv
    <3>2. CASE j \notin DOMAIN tree
        BY <1>1, <2>2, <3>2, NewLeafIs DEF IssuersInv
    <3> QED  BY <3>1, <3>2
  <2> QED  BY <2>1, <2>2, TreeStep
<1> QED
    BY <1>1, <1>2, <1>3 DEF IssuersInv

(* What the pools say of their leaves stays what the tree has.             *)
ResultsInTree ==
    \A k \in DOMAIN pools : pools[k].timestamp # 0 =>
        \A n \in DOMAIN pools[k].pendingLeaves :
            /\ pools[k].firstLeafIndex + n \in DOMAIN tree
            /\ tree[pools[k].firstLeafIndex + n] = Result(k, n)

LEMMA ResultsStep ==
    ASSUME Types, RoundInv, RequestsInv, PoolInv, [Next]_vars
    PROVE  ResultsInTree'
<1>1. ResultsInTree
    BY DEF PoolInv, ResultsInTree
<1>2. CASE Crash
  <2>1. DOMAIN pools' = {}
      BY <1>2 DEF Crash
  <2> QED  BY <2>1 DEF ResultsInTree
<1>3. ASSUME NEW k \in DOMAIN pools, pools[k].timestamp # 0,
             pools'[k].pendingLeaves = pools[k].pendingLeaves,
             pools'[k].timestamp = pools[k].timestamp,
             pools'[k].firstLeafIndex = pools[k].firstLeafIndex
      PROVE  \A n \in DOMAIN pools'[k].pendingLeaves :
                /\ pools'[k].firstLeafIndex + n \in DOMAIN tree'
                /\ tree'[pools'[k].firstLeafIndex + n] = Result(k, n)'
  <2> TAKE n \in DOMAIN pools'[k].pendingLeaves
  <2>1. /\ pools[k].firstLeafIndex + n \in DOMAIN tree
        /\ tree[pools[k].firstLeafIndex + n] = Result(k, n)
      BY <1>1, <1>3 DEF ResultsInTree
  <2>2. Result(k, n)' = Result(k, n)
      BY <1>3 DEF Result
  <2> QED  BY <1>3, <2>1, <2>2, TreeStep
<1>4. CASE Commit
  <2>1. p \in DOMAIN pools /\ tree' = Extended
      BY <1>4, Places DEF Commit, InRound
  <2> DEFINE q == [pools[p] EXCEPT !.timestamp = now, !.firstLeafIndex = Len(tree)]
  <2>2. Altered(p, q)
      BY <1>4, CommitAlters
  <2>3. /\ q.pendingLeaves = Pending
        /\ q.timestamp = now
        /\ q.firstLeafIndex = Len(tree)
      BY <2>1, PoolFacts DEF PoolState, Pending
  <2> HIDE DEF q
  <2>4. DOMAIN pools' = DOMAIN pools /\ pools'[p] = q
      BY <2>2 DEF Altered
  <2>5. \A n \in DOMAIN Pending :
            /\ q.firstLeafIndex + n \in DOMAIN tree'
            /\ tree'[q.firstLeafIndex + n] = AsLogEntry(Pending[n], q.firstLeafIndex + n - 1, now)
      BY <2>1, <2>3, ExtendedIs
  <2>6. \A n \in DOMAIN pools'[p].pendingLeaves :
                /\ pools'[p].firstLeafIndex + n \in DOMAIN tree'
                /\ tree'[pools'[p].firstLeafIndex + n] =
                      AsLogEntry(pools'[p].pendingLeaves[n], pools'[p].firstLeafIndex + n - 1,
                                 pools'[p].timestamp)
      BY <2>3, <2>4, <2>5
  <2>7. ASSUME NEW k \in DOMAIN pools, k # p, pools'[k].timestamp # 0
        PROVE  \A n \in DOMAIN pools'[k].pendingLeaves :
                /\ pools'[k].firstLeafIndex + n \in DOMAIN tree'
                /\ tree'[pools'[k].firstLeafIndex + n] = Result(k, n)'
    <3>1. pools'[k] = pools[k]
        BY <2>2, <2>7 DEF Altered
    <3> QED  BY <1>3, <2>7, <3>1
  <2> QED  BY <2>4, <2>6, <2>7 DEF ResultsInTree, Result
<1>5. CASE KeepsResults /\ KeepsEntries
  <2> SUFFICES ASSUME NEW k \in DOMAIN pools', pools'[k].timestamp # 0
               PROVE  \A n \in DOMAIN pools'[k].pendingLeaves :
                /\ pools'[k].firstLeafIndex + n \in DOMAIN tree'
                /\ tree'[pools'[k].firstLeafIndex + n] = Result(k, n)'
      BY DEF ResultsInTree
  <2>1. k \in DOMAIN pools
      BY <1>5 DEF KeepsResults, NewPool
  <2> QED  BY <1>3, <1>5, <2>1 DEF KeepsResults, KeepsEntries
<1>6. ASSUME NEW r \in Requests, AddLeafToPool(r), Appends(r), KeepsResults
      PROVE  ResultsInTree'
  <2> SUFFICES ASSUME NEW k \in DOMAIN pools', pools'[k].timestamp # 0
               PROVE  \A n \in DOMAIN pools'[k].pendingLeaves :
                /\ pools'[k].firstLeafIndex + n \in DOMAIN tree'
                /\ tree'[pools'[k].firstLeafIndex + n] = Result(k, n)'
      BY DEF ResultsInTree
  <2>1. k \in DOMAIN pools /\ pools'[k].timestamp = pools[k].timestamp
      BY <1>6, AppendsAt DEF KeepsResults
  <2>2. k # current
      BY <1>6, <2>1, AppendsAt DEF PoolInv
  <2>3. pools'[k] = pools[k]
      BY <1>6, <2>1, <2>2, AppendsAt
  <2> QED  BY <1>3, <2>1, <2>3
<1> QED
    BY <1>2, <1>4, <1>5, <1>6, PoolsStep

LEMMA PoolStep ==
    ASSUME Types, RoundInv, RequestsInv, PoolInv, [Next]_vars
    PROVE  PoolInv'
<1> DEFINE Current == seq # "down" => /\ pools[current].timestamp = 0
                                      /\ pools[current].done => pools[current].err
           Sequenced == /\ seq = "committed" => pools[p].timestamp # 0
                        /\ seq = "close" => pools[p].err \/ pools[p].timestamp # 0
           Rest == Current /\ Sequenced /\ ResultNeverMissing
<1>1. Rest
    BY DEF PoolInv
<1>2. SUFFICES Rest'
  <2>1. ResultsInTree'
      BY ResultsStep
  <2> QED  BY <2>1 DEF PoolInv, ResultsInTree
<1>3. DOMAIN pools = 1 .. Len(pools) /\ Len(pools) \in Nat
    BY Places
<1>4. ASSUME UNCHANGED pools,
             \/ UNCHANGED seq
             \/ seq # "down" /\ seq' \in {"clear", "wait", "stop"}
             \/ seq = "committed" /\ seq' = "close"
      PROVE  Rest'
    BY <1>1, <1>4 DEF ResultNeverMissing, current, p
<1>5. ASSUME NEW r \in Requests, AddLeafToPool(r)
      PROVE  Rest'
  <2>1. UNCHANGED seq
      BY <1>5 DEF AddLeafToPool
  <2>2. CASE UNCHANGED pools
      BY <1>4, <2>1, <2>2
  <2>3. CASE Appends(r)
    <3> DEFINE q == [pools[current] EXCEPT
                       !.pendingLeaves = Append(@, PendingLogEntry(req[r].chain))]
    <3>1. Altered(current, q) /\ current \in DOMAIN pools
        BY <1>5, <2>3, AppendsAt DEF Appends
    <3>2. /\ q.timestamp = pools[current].timestamp
          /\ q.done = pools[current].done /\ q.err = pools[current].err
        BY <3>1, PoolFacts DEF PoolState
    <3> HIDE DEF q
    <3>3. \A k \in DOMAIN pools : /\ pools'[k].timestamp = pools[k].timestamp
                                  /\ pools'[k].done = pools[k].done
                                  /\ pools'[k].err = pools[k].err
        BY <3>1, <3>2 DEF Altered
    <3>4. /\ current' = current /\ p' = p /\ DOMAIN pools' = DOMAIN pools
          /\ seq # "down" => current \in DOMAIN pools
          /\ seq \in {"committed", "close"} => p \in DOMAIN pools
        BY <3>1, Places DEF Altered, current, p, InRound
    <3> QED  BY <1>1, <2>1, <3>3, <3>4 DEF ResultNeverMissing
  <2> QED  BY <1>5, <2>2, <2>3, AddLeafCases
<1>6. CASE Tick
  <2>1. /\ current' = current + 1 /\ p' = current
        /\ pools'[current'] = NewPool
        /\ seq' = "sequence"
      BY <1>3, <1>6, TickAppends DEF current, p, Tick
  <2>2. NewPool.timestamp = 0 /\ ~NewPool.done
      BY DEF NewPool
  <2>3. ResultNeverMissing'
      BY <1>1, <1>6, <2>2, TickAppends DEF ResultNeverMissing
  <2> QED  BY <2>1, <2>2, <2>3
<1>7. ASSUME seq \in InRound, NEW q, Altered(p, q),
             q.done => q.err \/ q.timestamp # 0,
             /\ seq' = "committed" => q.timestamp # 0
             /\ seq' = "close" => q.err \/ q.timestamp # 0
      PROVE  Rest'
  <2>1. /\ p \in DOMAIN pools /\ current \in DOMAIN pools /\ current # p
        /\ current' = current /\ p' = p /\ DOMAIN pools' = DOMAIN pools
        /\ seq # "down"
      BY <1>7, Places DEF Altered, current, p, InRound
  <2>2. pools'[p] = q /\ \A k \in DOMAIN pools : k # p => pools'[k] = pools[k]
      BY <1>7 DEF Altered
  <2> QED  BY <1>1, <1>7, <2>1, <2>2 DEF ResultNeverMissing
<1>8. ASSUME NEW b \in BOOLEAN, Fail(b), seq \in InRound
      PROVE  Rest'
  <2> DEFINE q == [pools[p] EXCEPT !.err = TRUE]
  <2>1. Altered(p, q) /\ p \in DOMAIN pools /\ seq' = "close"
      BY <1>8, FailAlters, Places DEF Fail
  <2>2. q.err
      BY <2>1, PoolFacts DEF PoolState
  <2> HIDE DEF q
  <2> QED  BY <1>7, <1>8, <2>1, <2>2
<1>9. CASE Commit
  <2> DEFINE q == [pools[p] EXCEPT !.timestamp = now, !.firstLeafIndex = Len(tree)]
  <2>1. /\ Altered(p, q) /\ p \in DOMAIN pools
        /\ seq \in InRound /\ seq' = "committed"
      BY <1>9, CommitAlters, Places DEF Commit, InRound
  <2>2. q.timestamp # 0
    <3>1. q.timestamp = now
        BY <2>1, PoolFacts DEF PoolState
    <3> QED  BY <2>1, <3>1 DEF RoundInv
  <2> HIDE DEF q
  <2> QED  BY <1>7, <2>1, <2>2
<1>10. CASE Close
  <2> DEFINE q == [pools[p] EXCEPT !.done = TRUE]
  <2>1. /\ Altered(p, q) /\ p \in DOMAIN pools
        /\ seq \in InRound /\ seq = "close" /\ seq' = "clear"
      BY <1>10, CloseAlters, Places DEF Close, InRound
  <2>2. q.err = pools[p].err /\ q.timestamp = pools[p].timestamp
      BY <2>1, PoolFacts DEF PoolState
  <2>3. q.err \/ q.timestamp # 0
      BY <1>1, <2>1, <2>2
  <2> HIDE DEF q
  <2> QED  BY <1>7, <2>1, <2>3
<1>11. CASE StopSequencer
  <2> DEFINE q == [pools[current] EXCEPT !.err = TRUE, !.done = TRUE]
  <2>1. /\ Altered(current, q) /\ current \in DOMAIN pools
        /\ seq # "down" /\ seq' = "stopped"
      BY <1>11, StopAlters, Places DEF StopSequencer
  <2>2. q.err /\ q.timestamp = pools[current].timestamp
      BY <2>1, PoolFacts DEF PoolState
  <2> HIDE DEF q
  <2>3. pools'[current] = q /\ \A k \in DOMAIN pools : k # current => pools'[k] = pools[k]
      BY <2>1 DEF Altered
  <2>4. current' = current /\ DOMAIN pools' = DOMAIN pools
      BY <2>1 DEF Altered, current
  <2> QED  BY <1>1, <2>1, <2>2, <2>3, <2>4 DEF ResultNeverMissing
<1>12. CASE Crash
  <2>1. seq' = "down" /\ DOMAIN pools' = {}
      BY <1>12 DEF Crash
  <2> QED  BY <2>1 DEF ResultNeverMissing
<1>13. CASE Restart
  <2>1. seq' = "wait" /\ pools' = <<NewPool>> /\ current' = 1
      BY <1>13 DEF Restart, current
  <2> QED  BY <2>1 DEF ResultNeverMissing, NewPool
<1>14. CASE FailEarly \/ FailReplace \/ FailUpload
    BY <1>8, <1>14 DEF FailEarly, FailReplace, FailUpload, InRound
<1>15. CASE UNCHANGED vars \/ CachePut \/ CachePutErr \/ Clear \/ Cease
    BY <1>4, <1>15 DEF vars, poolVars, CachePut, CachePutErr, Clear, Cease
<1>16. ASSUME NEW r \in Requests,
              \/ \E e \in Endpoints, chain \in Chains : Submit(r, e, chain)
              \/ Refuse(r) \/ UploadIssuer(r) \/ CacheGetErr(r) \/ Cancel(r) \/ Deliver(r)
       PROVE  Rest'
    BY <1>4, <1>16 DEF Submit, Refuse, UploadIssuer, CacheGetErr, Cancel, Deliver, poolVars
<1> QED
    BY <1>5, <1>6, <1>9, <1>10, <1>11, <1>12, <1>13, <1>14, <1>15, <1>16
    DEF Next, Sequencer, Handle

LEMMA RequestsStep ==
    ASSUME Types, RoundInv, PoolInv, RequestsInv, IndexInv, CacheInv, [Next]_vars
    PROVE  RequestsInv'
<1>2. CASE Crash
  <2>1. req' = [r \in Requests |-> req'[r]]
      BY <1>2 DEF Crash
  <2>2. ASSUME NEW r \in Requests
        PROVE  RequestInv(r)'
    <3>1. CASE InFlight(r)
      <4>1. req'[r] = Failed
          BY <1>2, <3>1 DEF Crash
      <4> QED  BY <4>1 DEF RequestInv
    <3>2. CASE ~InFlight(r)
      <4>1. req'[r] = req[r]
          BY <1>2, <3>2 DEF Crash
      <4>2. \/ req[r] = Idle \/ req[r] = Failed
            \/ \E chain \in Submitted : \E j \in DOMAIN tree : HasLeaf(r, chain, j)
          BY <3>2 DEF RequestsInv, RequestInv, InFlight, WaitsFor, Uploading, Waiting
      <4>3. ASSUME NEW chain \in Submitted, NEW j \in DOMAIN tree, HasLeaf(r, chain, j)
            PROVE  j \in DOMAIN tree' /\ HasLeaf(r, chain, j)'
          BY <4>1, <4>3, TreeStep DEF HasLeaf, Answered
      <4> QED  BY <4>1, <4>2, <4>3 DEF RequestInv
    <3> QED  BY <3>1, <3>2
  <2> QED  BY <2>1, <2>2 DEF RequestsInv
<1>3. CASE ~Crash
  <2>1. seq # "down" => seq' # "down"
      BY <1>3 DEF Next, vars, poolVars, issuerVars, Sequencer, Handle, Submit, Refuse,
           UploadIssuer, AddLeafToPool, CacheGetErr, Deliver, Cancel, Tick, FailEarly,
           FailReplace, Fail, Commit, FailUpload, CachePut, CachePutErr, Close, Clear, Cease,
           StopSequencer, Restart
  <2>2. ASSUME NEW k \in DOMAIN pools, NEW n \in DOMAIN pools[k].pendingLeaves
        PROVE  /\ k \in DOMAIN pools' /\ n \in DOMAIN pools'[k].pendingLeaves
               /\ pools'[k].pendingLeaves[n] = pools[k].pendingLeaves[n]
    <3>1. CASE KeepsEntries
        BY <3>1 DEF KeepsEntries
    <3>2. ASSUME NEW r \in Requests, AddLeafToPool(r), Appends(r)
          PROVE  /\ k \in DOMAIN pools' /\ n \in DOMAIN pools'[k].pendingLeaves
                 /\ pools'[k].pendingLeaves[n] = pools[k].pendingLeaves[n]
        BY <3>2, AppendsAt
    <3> QED  BY <1>3, <3>1, <3>2, PoolsStep
  <2>3. ASSUME NEW r \in Requests, req'[r] = req[r]
        PROVE  RequestInv(r)'
    <3>1. CASE req[r].at = "issuers"
      <4>1. seq' # "down" /\ req[r].chain \in Submitted /\ req'[r] = Uploading(req[r].chain)
          BY <2>1, <2>3, <3>1, UploadingIs
      <4> QED  BY <4>1 DEF RequestInv
    <3>2. CASE req[r].at = "waiting"
      <4>1. PICK chain, k, n :
                  /\ chain \in Submitted
                  /\ k \in DOMAIN pools /\ n \in DOMAIN pools[k].pendingLeaves
                  /\ WaitsFor(r, chain, k, n)
          BY <3>2, WaitingIs
      <4>2. /\ k \in DOMAIN pools' /\ n \in DOMAIN pools'[k].pendingLeaves
            /\ pools'[k].pendingLeaves[n] = pools[k].pendingLeaves[n]
          BY <2>2, <4>1
      <4>3. WaitsFor(r, chain, k, n)'
          BY <2>3, <4>1, <4>2 DEF WaitsFor
      <4> QED  BY <4>1, <4>2, <4>3 DEF RequestInv
    <3>3. CASE req[r].at = "sct"
      <4>1. PICK chain \in Submitted, j \in DOMAIN tree : HasLeaf(r, chain, j)
          BY <3>3, AnsweredIs
      <4>2. j \in DOMAIN tree' /\ HasLeaf(r, chain, j)'
          BY <2>3, <4>1, TreeStep DEF HasLeaf, Answered
      <4> QED  BY <4>1, <4>2 DEF RequestInv
    <3>4. CASE req[r] = Idle \/ req[r] = Failed
        BY <2>3, <3>4 DEF RequestInv
    <3>5. RequestInv(r)
        BY DEF RequestsInv
    <3>6. \/ req[r] = Idle \/ req[r] = Failed
          \/ req[r].at = "issuers" \/ req[r].at = "waiting" \/ req[r].at = "sct"
      <4>1. /\ \A chain : Uploading(chain).at = "issuers"
            /\ \A chain, k, n : Waiting(chain, k, n).at = "waiting"
            /\ \A chain, leaf : Answered(chain, leaf).at = "sct"
          BY DEF Uploading, Waiting, Answered
      <4> QED  BY <3>5, <4>1 DEF RequestInv, WaitsFor, HasLeaf
    <3> QED  BY <3>1, <3>2, <3>3, <3>4, <3>6
  <2>4. ASSUME NEW r \in Requests, NEW v, req' = [req EXCEPT ![r] = v], RequestInv(r)'
        PROVE  RequestsInv'
    <3>1. req' = [q \in Requests |-> req'[q]] /\ \A q \in Requests : q # r => req'[q] = req[q]
        BY <2>4 DEF RequestsInv
    <3> QED  BY <2>3, <2>4, <3>1 DEF RequestsInv
  <2>5. ASSUME NEW r \in Requests, req' = [req EXCEPT ![r] = Failed]
        PROVE  RequestsInv'
    <3>1. req'[r] = Failed
        BY <2>5 DEF RequestsInv
    <3>2. RequestInv(r)'
        BY <3>1 DEF RequestInv
    <3> HIDE DEF Failed
    <3> QED  BY <2>4, <2>5, <3>2
  <2>6. ASSUME UNCHANGED req
        PROVE  RequestsInv'
    <3>1. req' = [r \in Requests |-> req'[r]]
        BY <2>6 DEF RequestsInv
    <3> QED  BY <2>3, <2>6, <3>1 DEF RequestsInv
  <2>7. ASSUME NEW r \in Requests, NEW e \in Endpoints, NEW chain \in Chains, Submit(r, e, chain)
        PROVE  RequestsInv'
    <3>1. CASE Accepted(e, chain)
      <4>1. req' = [req EXCEPT ![r] = Uploading(chain)] /\ seq' # "down"
          BY <2>1, <2>7, <3>1 DEF Submit
      <4>2. req'[r] = Uploading(chain)
          BY <4>1 DEF RequestsInv
      <4>3. chain \in Submitted
          BY <3>1 DEF Submitted
      <4>4. RequestInv(r)'
          BY <4>1, <4>2, <4>3 DEF RequestInv
      <4> QED  BY <2>4, <4>1, <4>4
    <3>2. CASE ~Accepted(e, chain)
        BY <2>5, <2>7, <3>2 DEF Submit
    <3> QED  BY <3>1, <3>2
  <2>8. ASSUME NEW r \in Requests, AddLeafToPool(r)
        PROVE  RequestsInv'
    <3>1. PICK chain \in Submitted : chain = req[r].chain
        BY <2>8, UploadingIs DEF AddLeafToPool
    <3> DEFINE e == PendingLogEntry(chain)
    <3>2. UNCHANGED tree
        BY <2>8 DEF AddLeafToPool
    <3>3. CASE Finds(r) /\ UNCHANGED pools
      <4>1. PICK k, n :
                  /\ k \in DOMAIN pools /\ n \in DOMAIN pools[k].pendingLeaves
                  /\ SameEntry(chain, pools[k].pendingLeaves[n])
                  /\ req' = [req EXCEPT ![r] = Waiting(chain, k, n)]
          BY <3>1, <3>3 DEF Finds
      <4>2. req'[r] = Waiting(chain, k, n)
          BY <4>1 DEF RequestsInv
      <4>3. WaitsFor(r, chain, k, n)'
          BY <3>3, <4>1, <4>2 DEF WaitsFor
      <4>4. RequestInv(r)'
          BY <3>3, <4>1, <4>3 DEF RequestInv
      <4> QED  BY <2>4, <4>1, <4>4
    <3>4. CASE Cached(r) /\ UNCHANGED pools
      <4>1. PICK row : row = cache[CacheHash(e)]
          OBVIOUS
      <4> DEFINE v == Answered(chain, AsLogEntry(e, row.leafIndex, row.timestamp))
                 j == row.leafIndex + 1
      <4>2. CacheHash(e) \in DOMAIN cache /\ req' = [req EXCEPT ![r] = v]
          BY <3>1, <3>4, <4>1 DEF Cached
      <4>3. /\ j \in DOMAIN tree /\ CacheHash(tree[j].entry) = CacheHash(e)
            /\ tree[j].timestamp = row.timestamp /\ tree[j].leafIndex = j - 1
            /\ row.leafIndex \in Nat
          BY <4>1, <4>2 DEF CacheInv, IndexInv, Types, CacheRow
      <4>4. MerkleTreeLeaf(AsLogEntry(e, row.leafIndex, row.timestamp)) = MerkleTreeLeaf(tree[j])
        <5>1. row.leafIndex = tree[j].leafIndex
            BY <4>3
        <5> QED  BY <4>3, <5>1 DEF MerkleTreeLeaf, AsLogEntry, CacheHash
      <4>5. v = Answered(chain, tree[j])
          BY <4>4 DEF Answered
      <4>6. req'[r] = v
          BY <4>2 DEF RequestsInv
      <4> HIDE DEF j, v
      <4>7. HasLeaf(r, chain, j)'
          BY <3>2, <4>3, <4>5, <4>6 DEF HasLeaf, SameEntry
      <4>8. RequestInv(r)'
          BY <3>2, <4>3, <4>7 DEF RequestInv
      <4> QED  BY <2>4, <4>2, <4>8
    <3>5. CASE Appends(r)
      <4>1. PICK k, n : k = current /\ n = Len(pools[current].pendingLeaves) + 1
          OBVIOUS
      <4>2. req' = [req EXCEPT ![r] = Waiting(chain, k, n)]
          BY <3>1, <3>5, <4>1 DEF Appends
      <4>3. req'[r] = Waiting(chain, k, n)
          BY <4>2 DEF RequestsInv
      <4>4. /\ k \in DOMAIN pools' /\ n \in DOMAIN pools'[k].pendingLeaves
            /\ pools'[k].pendingLeaves[n] = e
          BY <2>8, <3>1, <3>5, <4>1, AppendsAt
      <4>5. WaitsFor(r, chain, k, n)'
          BY <4>3, <4>4 DEF WaitsFor, SameEntry
      <4>6. RequestInv(r)'
          BY <4>4, <4>5 DEF RequestInv
      <4> QED  BY <2>4, <4>2, <4>6
    <3> QED  BY <2>5, <2>8, <3>3, <3>4, <3>5, AddLeafCases
  <2>9. ASSUME NEW r \in Requests, Deliver(r)
        PROVE  RequestsInv'
    <3>1. PICK chain, k, n :
                /\ chain = req[r].chain /\ k = req[r].pool /\ n = req[r].n
                /\ chain \in Submitted
                /\ k \in DOMAIN pools /\ n \in DOMAIN pools[k].pendingLeaves
                /\ WaitsFor(r, chain, k, n)
        BY <2>9, WaitingIs DEF Deliver
    <3>2. CASE pools[k].err
        BY <2>5, <2>9, <3>1, <3>2 DEF Deliver
    <3>3. CASE ~pools[k].err
      <4>1. PICK j : j = pools[k].firstLeafIndex + n
          OBVIOUS
      <4>2. /\ req' = [req EXCEPT ![r] = Answered(chain, Result(k, n))]
            /\ UNCHANGED tree /\ pools[k].done
          BY <2>9, <3>1, <3>3 DEF Deliver, poolVars
      <4>3. j \in DOMAIN tree /\ tree[j] = Result(k, n)
          BY <3>1, <3>3, <4>1, <4>2 DEF PoolInv, ResultNeverMissing
      <4>4. SameEntry(chain, tree[j].entry)
        <5>1. tree[j].entry = pools[k].pendingLeaves[n]
            BY <4>3 DEF Result, AsLogEntry
        <5> QED  BY <3>1, <5>1 DEF WaitsFor
      <4>5. req'[r] = Answered(chain, tree[j])
          BY <4>2, <4>3 DEF RequestsInv
      <4>6. HasLeaf(r, chain, j)'
          BY <4>2, <4>4, <4>5 DEF HasLeaf
      <4>7. RequestInv(r)'
          BY <3>1, <4>2, <4>3, <4>6 DEF RequestInv
      <4> QED  BY <2>4, <4>2, <4>7
    <3> QED  BY <3>2, <3>3
  <2>10. ASSUME NEW r \in Requests, Refuse(r) \/ UploadIssuer(r) \/ CacheGetErr(r) \/ Cancel(r)
         PROVE  RequestsInv'
      BY <2>5, <2>6, <2>10 DEF Refuse, UploadIssuer, CacheGetErr, Cancel
  <2>11. CASE UNCHANGED vars \/ Sequencer \/ Cease \/ Restart
      BY <2>6, <2>11 DEF vars, Sequencer, Cease, Restart, Tick, FailEarly, FailReplace, Fail,
           Commit, FailUpload, CachePut, CachePutErr, Close, Clear, StopSequencer
  <2> QED
      BY <1>3, <2>7, <2>8, <2>9, <2>10, <2>11 DEF Next, Handle
<1> QED
    BY <1>2, <1>3

(* The hashes of a pool whose entries stay.                                *)
LEMMA HashesStay ==
    ASSUME NEW k, NEW m, pools'[m].pendingLeaves = pools[k].pendingLeaves
    PROVE  PoolHashes(m)' = PoolHashes(k)
BY DEF PoolHashes

(* No other step adds a pool.                                              *)
LEMMA LenStep ==
    ASSUME Types, RoundInv, RequestsInv, [Next]_vars
    PROVE  Crash \/ Tick \/ Restart \/ Len(pools') = Len(pools)
<1>1. ASSUME NEW r \in Requests, AddLeafToPool(r)
      PROVE  Len(pools') = Len(pools)
    BY <1>1, AddLeafCases DEF Appends, Altered
<1>2. CASE FailEarly \/ FailReplace \/ FailUpload
    BY <1>2, FailAlters DEF FailEarly, FailReplace, FailUpload, Altered, InRound
<1>3. CASE Commit \/ Close \/ StopSequencer
    BY <1>3, CommitAlters, CloseAlters, StopAlters DEF Altered
<1>4. CASE UNCHANGED pools
    BY <1>4
<1> QED
    BY <1>1, <1>2, <1>3, <1>4
    DEF Next, Sequencer, Handle, vars, poolVars, Submit, Refuse, UploadIssuer, CacheGetErr,
        Deliver, Cancel, CachePut, CachePutErr, Clear, Cease

LEMMA FreshStep ==
    ASSUME Types, RoundInv, RequestsInv, FreshInv, [Next]_vars
    PROVE  FreshInv'
<1> USE DEF InRound
<1> DEFINE Distinct == \A k \in DOMAIN pools : \A m, n \in DOMAIN pools[k].pendingLeaves :
              CacheHash(pools[k].pendingLeaves[m]) = CacheHash(pools[k].pendingLeaves[n]) => m = n
           Unknown == seq # "down" => PoolHashes(current) \cap DOMAIN cache = {}
           Disjoint == seq \in {"sequence", "committed"} =>
              PoolHashes(p) \cap (PoolHashes(current) \cup DOMAIN cache) = {}
<1>1. Distinct /\ Unknown /\ Disjoint
    BY DEF FreshInv
<1>2. SUFFICES Distinct' /\ Unknown' /\ Disjoint'
    BY DEF FreshInv
<1>3. DOMAIN NewPool.pendingLeaves = {}
    BY DEF NewPool
<1>4. CASE Crash
  <2>1. seq' = "down" /\ DOMAIN pools' = {}
      BY <1>4 DEF Crash
  <2> QED  BY <2>1
<1>5. ASSUME NEW r \in Requests, AddLeafToPool(r), Appends(r)
      PROVE  Distinct' /\ Unknown' /\ Disjoint'
  <2> DEFINE e == PendingLogEntry(req[r].chain)
             h == CacheHash(e)
  <2>1. PICK s, t : s = pools[current].pendingLeaves /\ t = pools'[current].pendingLeaves
      OBVIOUS
  <2>2. /\ current \in DOMAIN pools /\ seq # "down" /\ DOMAIN pools' = DOMAIN pools
        /\ Len(s) \in Nat /\ DOMAIN s = 1 .. Len(s)
        /\ DOMAIN t = 1 .. (Len(s) + 1) /\ t[Len(s) + 1] = e
        /\ \A n \in DOMAIN s : t[n] = s[n]
        /\ \A k \in DOMAIN pools : k # current => pools'[k] = pools[k]
      BY <1>5, <2>1, AppendsAt
  <2>4. UNCHANGED <<seq, cache>> /\ current' = current /\ p' = p
      BY <1>5 DEF AddLeafToPool, Appends, Altered, current, p
  <2> HIDE DEF e
  <2>5. Distinct'
    <3> SUFFICES ASSUME NEW k \in DOMAIN pools', NEW m \in DOMAIN pools'[k].pendingLeaves,
                        NEW n \in DOMAIN pools'[k].pendingLeaves,
                        CacheHash(pools'[k].pendingLeaves[m]) = CacheHash(pools'[k].pendingLeaves[n])
                 PROVE  m = n
        OBVIOUS
    <3>1. CASE k # current
        BY <1>1, <2>2, <3>1
    <3>2. CASE k = current
      <4>1. \A i \in DOMAIN s : CacheHash(t[i]) # h /\ CacheHash(t[i]) = CacheHash(s[i])
          BY <1>5, <2>1, <2>2 DEF Appends, PoolHashes, e
      <4>2. \A i \in DOMAIN t : i \in DOMAIN s \/ i = Len(s) + 1
          BY <2>2
      <4>3. \A i, j \in DOMAIN s : CacheHash(s[i]) = CacheHash(s[j]) => i = j
          BY <1>1, <2>1, <2>2
      <4>4. CacheHash(t[Len(s) + 1]) = h
          BY <2>2
      <4>5. m \in DOMAIN t /\ n \in DOMAIN t /\ CacheHash(t[m]) = CacheHash(t[n])
          BY <2>1, <3>2
      <4> HIDE DEF h
      <4> QED  BY <4>1, <4>2, <4>3, <4>4, <4>5
    <3> QED  BY <3>1, <3>2
  <2>6. PoolHashes(current)' = PoolHashes(current) \cup {h}
    <3>1. \A n \in DOMAIN t : (n \in DOMAIN s /\ t[n] = s[n]) \/ (n = Len(s) + 1 /\ t[n] = e)
        BY <2>2
    <3>2. DOMAIN s \subseteq DOMAIN t /\ Len(s) + 1 \in DOMAIN t
        BY <2>2
    <3> QED  BY <2>1, <2>2, <2>4, <3>1, <3>2 DEF PoolHashes
  <2>7. seq \in InRound => PoolHashes(p)' = PoolHashes(p)
    <3>1. seq \in InRound => p \in DOMAIN pools /\ p # current
        BY Places
    <3>2. seq \in InRound => pools'[p] = pools[p]
        BY <2>2, <3>1
    <3> QED  BY <2>4, <3>2 DEF PoolHashes
  <2>8. h \notin DOMAIN cache /\ (seq \in InRound => h \notin PoolHashes(p))
      BY <1>5 DEF Appends, e
  <2> HIDE DEF h
  <2> QED  BY <1>1, <2>2, <2>4, <2>5, <2>6, <2>7, <2>8
<1>6. CASE KeepsEntries
  <2>1. Distinct'
      BY <1>1, <1>3, <1>6 DEF KeepsEntries
  <2>2. ASSUME NEW k \in DOMAIN pools
        PROVE  PoolHashes(k)' = PoolHashes(k)
      BY <1>6, HashesStay DEF KeepsEntries
  <2>3. /\ seq # "down" => current \in DOMAIN pools
        /\ seq \in InRound => p \in DOMAIN pools
      BY Places
  <2>4. CASE Tick
    <3>1. PICK k : k = current
        OBVIOUS
    <3>2. /\ seq # "down" /\ k \in DOMAIN pools /\ UNCHANGED cache
          /\ current' = k + 1 /\ p' = k /\ pools'[k + 1] = NewPool
      <4>1. Len(pools) \in Nat
          BY DEF Types
      <4> QED  BY <2>3, <2>4, <3>1, <4>1, TickAppends DEF Tick, current, p
    <3>3. PoolHashes(current)' = {}
        BY <1>3, <3>2 DEF PoolHashes
    <3>4. PoolHashes(p)' = PoolHashes(k)
        BY <2>2, <3>2 DEF PoolHashes
    <3> QED  BY <1>1, <2>1, <3>1, <3>2, <3>3, <3>4
  <2>5. CASE Restart
    <3>1. seq' = "wait" /\ current' = 1 /\ pools'[1] = NewPool
        BY <2>5 DEF Restart, current
    <3>2. PoolHashes(current)' = {}
        BY <1>3, <3>1 DEF PoolHashes
    <3> QED  BY <2>1, <3>1, <3>2
  <2>6. CASE Len(pools') = Len(pools) /\ ~Crash /\ ~Tick /\ ~Restart
    <3>1. current' = current /\ p' = p
        BY <2>6 DEF current, p
    <3>2. /\ seq # "down" => PoolHashes(current)' = PoolHashes(current)
          /\ seq \in InRound => PoolHashes(p)' = PoolHashes(p)
        BY <1>6, <2>3, <3>1 DEF KeepsEntries, PoolHashes
    <3>3. CASE CachePut
      <4>1. seq = "committed" /\ seq' = "close"
          BY <3>3 DEF CachePut
      <4>2. DOMAIN cache' \subseteq DOMAIN cache \cup PoolHashes(p)
          BY <2>3, <3>3, <4>1, PendingHashesAre DEF CachePut
      <4> QED  BY <1>1, <2>1, <3>2, <4>1, <4>2
    <3>4. CASE ~CachePut
      <4>1. /\ UNCHANGED cache
            /\ seq' \in {"sequence", "committed"} => seq \in {"sequence", "committed"}
            /\ seq # "down" \/ seq' = "down"
          BY <2>6, <3>4
          DEF Next, vars, poolVars, issuerVars, Sequencer, Handle, Submit, Refuse, UploadIssuer,
              AddLeafToPool, CacheGetErr, Deliver, Cancel, FailEarly, FailReplace, Fail, Commit,
              FailUpload, CachePutErr, Close, Clear, Cease, StopSequencer
      <4> QED  BY <1>1, <2>1, <3>2, <4>1
    <3> QED  BY <3>3, <3>4
  <2> QED  BY <1>4, <2>4, <2>5, <2>6, LenStep
<1> QED
    BY <1>4, <1>5, <1>6, PoolsStep

LEMMA CacheStep ==
    ASSUME Types, RoundInv, RequestsInv, PoolInv, CacheInv, FreshInv, [Next]_vars
    PROVE  CacheInv'
<1> USE DEF InRound
<1> DEFINE Right(h) == LET j == cache[h].leafIndex + 1
                       IN  /\ j \in DOMAIN tree
                           /\ CacheHash(tree[j].entry) = h
                           /\ tree[j].timestamp = cache[h].timestamp
           Known(h) == \/ h \in DOMAIN cache
                       \/ h \in uncached
                       \/ seq = "committed" /\ h \in PendingHashes
           AllKnown == \A j \in DOMAIN tree : Known(CacheHash(tree[j].entry))
<1>1. /\ \A h \in DOMAIN cache : Right(h)
      /\ \A j \in DOMAIN tree : Known(CacheHash(tree[j].entry))
    BY DEF CacheInv
<1>2. \A h \in DOMAIN cache' : Right(h)'
  <2>1. ASSUME NEW h \in DOMAIN cache, cache'[h] = cache[h]
        PROVE  Right(h)'
      BY <1>1, <2>1, TreeStep
  <2>2. CASE UNCHANGED cache
      BY <2>1, <2>2
  <2>3. CASE Crash
    <3>1. \A h \in DOMAIN cache' : h \in DOMAIN cache /\ cache'[h] = cache[h]
        BY <2>3 DEF Crash
    <3> QED  BY <2>1, <3>1
  <2>4. CASE CachePut
    <3>1. p \in DOMAIN pools /\ seq = "committed" /\ UNCHANGED tree
        BY <2>4, Places DEF CachePut
    <3>2. ASSUME NEW h \in DOMAIN cache', h \notin DOMAIN cache
          PROVE  Right(h)'
      <4>1. h \in PendingHashes /\ cache'[h] = Row(h)
          BY <2>4, <3>2 DEF CachePut
      <4>2. PICK n : n = ByHash(p, h)
          OBVIOUS
      <4>3. n \in DOMAIN pools[p].pendingLeaves /\ CacheHash(pools[p].pendingLeaves[n]) = h
          BY <3>1, <4>1, <4>2, PendingHashesAre, ByHashFinds DEF PoolHashes
      <4>4. PICK i : i = pools[p].firstLeafIndex
          OBVIOUS
      <4>5. i + n \in DOMAIN tree /\ tree[i + n] = Result(p, n)
          BY <3>1, <4>3, <4>4 DEF PoolInv
      <4>6. Row(h) = [timestamp |-> pools[p].timestamp, leafIndex |-> i + n - 1]
          BY <4>2, <4>4 DEF Row, Result, AsLogEntry
      <4>7. /\ tree[i + n].entry = pools[p].pendingLeaves[n]
            /\ tree[i + n].timestamp = pools[p].timestamp
          BY <4>5 DEF Result, AsLogEntry
      <4>8. i \in Nat /\ n \in Nat
          BY <3>1, <4>3, <4>4, PoolFacts
      <4>9. cache'[h].leafIndex + 1 = i + n /\ cache'[h].timestamp = pools[p].timestamp
          BY <4>1, <4>6, <4>8
      <4> QED  BY <3>1, <4>3, <4>5, <4>7, <4>9
    <3>3. \A h \in DOMAIN cache : h \in DOMAIN cache' => cache'[h] = cache[h]
        BY <2>4 DEF CachePut
    <3> QED  BY <2>1, <3>2, <3>3
  <2> QED
      BY <2>2, <2>3, <2>4
      DEF Next, vars, poolVars, issuerVars, Sequencer, Handle, Submit, Refuse, UploadIssuer,
          AddLeafToPool, CacheGetErr, Deliver, Cancel, Tick, FailEarly, FailReplace, Fail, Commit,
          FailUpload, CachePutErr, Close, Clear, Cease, StopSequencer, Restart
<1>3. ASSUME p \in DOMAIN pools, NEW j \in DOMAIN Extended
      PROVE  \/ Known(CacheHash(Extended[j].entry))
             \/ CacheHash(Extended[j].entry) \in PendingHashes
  <2>1. CASE j \in DOMAIN tree
      BY <1>1, <1>3, <2>1, ExtendedIs
  <2>2. CASE j \notin DOMAIN tree
      BY <1>3, <2>2, NewLeafIs, PendingHashesAre DEF PoolHashes
  <2> QED  BY <2>1, <2>2
<1>4. AllKnown'
  <2>1. CASE Crash
      BY <2>1 DEF Crash, Range
  <2>2. CASE CachePut
    <3>1. p \in DOMAIN pools /\ seq = "committed" /\ UNCHANGED tree
        BY <2>2, Places DEF CachePut
    <3>2. PendingHashes \cap DOMAIN cache = {}
        BY <3>1, PendingHashesAre DEF FreshInv
    <3>3. DOMAIN cache' = DOMAIN cache \cup PendingHashes /\ uncached' = uncached \ PendingHashes
        BY <2>2, <3>2 DEF CachePut
    <3> QED  BY <1>1, <3>1, <3>3
  <2>3. CASE FailUpload \/ CachePutErr
    <3>1. UNCHANGED <<tree, cache>> /\ uncached' = uncached \cup PendingHashes
        BY <2>3 DEF FailUpload, CachePutErr, Fail
    <3> QED  BY <1>1, <3>1
  <2>4. CASE FailReplace \/ FailEarly
    <3>1. /\ UNCHANGED cache /\ seq = "sequence"
          /\ \/ UNCHANGED <<tree, uncached>>
             \/ tree' = Extended /\ uncached' = uncached \cup PendingHashes
        BY <2>4 DEF FailReplace, FailEarly, Fail
    <3>2. p \in DOMAIN pools
        BY <3>1, Places
    <3> QED  BY <1>1, <1>3, <3>1, <3>2
  <2>5. CASE Commit
    <3>1. /\ p \in DOMAIN pools /\ UNCHANGED <<cache, uncached>> /\ tree' = Extended
          /\ seq = "sequence" /\ seq' = "committed"
        BY <2>5, Places DEF Commit
    <3>2. PendingHashes' = PendingHashes
      <4>1. p' = p /\ pools'[p].pendingLeaves = pools[p].pendingLeaves
          BY <2>5, <3>1, CommitAlters, PoolFacts DEF Altered, p, current, PoolState
      <4> QED  BY <4>1 DEF PendingHashes, Pending
    <3> HIDE DEF Known
    <3>3. \A h : Known(h) \/ h \in PendingHashes => Known(h)'
        BY <3>1, <3>2 DEF Known
    <3> QED  BY <1>3, <3>1, <3>3
  <2>6. CASE UNCHANGED <<tree, cache, uncached>> /\ seq # "committed"
      BY <1>1, <2>6
  <2>7. CASE /\ UNCHANGED <<tree, cache, uncached, seq>> /\ seq = "committed"
             /\ UNCHANGED pools \/ \E r \in Requests : AddLeafToPool(r)
    <3>1. p \in DOMAIN pools /\ p # current
        BY <2>7, Places
    <3>2. ASSUME NEW r \in Requests, AddLeafToPool(r), Appends(r)
          PROVE  p' = p /\ pools'[p].pendingLeaves = pools[p].pendingLeaves
      <4>1. p' = p
          BY <3>2 DEF Appends, Altered, p, current
      <4> QED  BY <3>1, <3>2, <4>1, AppendsAt
    <3>3. p' = p /\ pools'[p].pendingLeaves = pools[p].pendingLeaves
        BY <2>7, <3>2, AddLeafCases DEF p, current
    <3>4. PendingHashes' = PendingHashes
        BY <3>3 DEF PendingHashes, Pending
    <3> QED  BY <1>1, <2>7, <3>4
  <2>8. CASE UNCHANGED vars \/ \E r \in Requests : AddLeafToPool(r)
    <3>1. UNCHANGED <<tree, cache, uncached, seq>>
        BY <2>8 DEF vars, poolVars, AddLeafToPool
    <3> QED  BY <2>6, <2>7, <2>8, <3>1 DEF vars, poolVars
  <2>9. ASSUME NEW r \in Requests,
               \/ \E e \in Endpoints, chain \in Chains : Submit(r, e, chain)
               \/ Refuse(r) \/ UploadIssuer(r) \/ CacheGetErr(r) \/ Cancel(r) \/ Deliver(r)
        PROVE  AllKnown'
    <3>1. UNCHANGED <<tree, cache, uncached, seq, pools>>
        BY <2>9 DEF poolVars, Submit, Refuse, UploadIssuer, CacheGetErr, Cancel, Deliver
    <3> QED  BY <2>6, <2>7, <3>1
  <2>10. CASE Tick \/ Close \/ Clear \/ Cease \/ StopSequencer \/ Restart
    <3>1. UNCHANGED <<tree, cache, uncached>> /\ seq # "committed"
        BY <2>10 DEF Tick, Close, Clear, Cease, StopSequencer, Restart
    <3> QED  BY <2>6, <3>1
  <2> QED
      BY <2>1, <2>2, <2>3, <2>4, <2>5, <2>8, <2>9, <2>10 DEF Next, Sequencer, Handle
<1> QED
    BY <1>2, <1>4 DEF CacheInv

-----------------------------------------------------------------------------
(* The invariant holds.                                                    *)

LEMMA InvInit == Init => Inv
<1> SUFFICES ASSUME Init
             PROVE  Inv
    OBVIOUS
<1>1. /\ pools \in Seq(PoolState) /\ Len(pools) = 1 /\ DOMAIN pools = {1} /\ pools[1] = NewPool
      /\ tree \in Seq(Leaf) /\ DOMAIN tree = {}
      /\ DOMAIN cache = {} /\ cache \in [DOMAIN cache -> CacheRow]
    BY NewPoolType DEF Init
<1>2. Types
    BY <1>1 DEF Init, Types, InRound, Outside
<1>3. RoundInv
    BY <1>1 DEF Init, RoundInv, InRound
<1>4. PoolInv
    BY <1>1 DEF Init, PoolInv, ResultNeverMissing, current, NewPool
<1>5. RequestsInv
  <2>1. \A r \in Requests : req[r] = Idle
      BY DEF Init
  <2>2. req = [r \in Requests |-> req[r]]
      BY DEF Init
  <2> QED  BY <2>1, <2>2 DEF RequestsInv, RequestInv
<1>6. DOMAIN pools[1].pendingLeaves = {}
    BY <1>1 DEF NewPool
<1>7. IssuersInv /\ IndexInv /\ CacheInv
    BY <1>1, <1>6 DEF Init, IssuersInv, IndexInv, CacheInv
<1>8. FreshInv
    BY <1>1, <1>6 DEF Init, FreshInv
<1> QED
    BY <1>2, <1>3, <1>4, <1>5, <1>7, <1>8 DEF Inv

LEMMA InvStep == Inv /\ [Next]_vars => Inv'
BY TypesStep, RoundStep, PoolStep, RequestsStep, IssuersStep, IndexStep, CacheStep, FreshStep
DEF Inv

LEMMA InvHolds == Spec => []Inv
BY InvInit, InvStep, PTL DEF Spec

-----------------------------------------------------------------------------
(* The theorems.                                                           *)

(* Every variable of the submission side keeps its type, whatever chains   *)
(* are submitted and however large the pools may be.                       *)
THEOREM PoolTypeCorrect == Spec => []TypeOK
<1>1. Inv => TypeOK
  <2> SUFFICES ASSUME Inv
               PROVE  TypeOK
      OBVIOUS
  <2> USE DEF Inv
  <2>1. inSequencing \in {0, p}
      BY Places
  <2>2. Range(cache) \subseteq [timestamp : Nat, leafIndex : Nat]
      BY DEF Types, CacheRow, Range
  <2>3. ASSUME NEW r \in Requests
        PROVE  \/ req[r] \in {Idle, Failed}
               \/ /\ req[r].chain \in Submitted
                  /\ \/ req[r] = Uploading(req[r].chain)
                     \/ /\ req[r].at = "waiting" /\ req[r].pool \in DOMAIN pools
                        /\ req[r].n \in DOMAIN pools[req[r].pool].pendingLeaves
                     \/ req[r].at = "sct" /\ req[r].sct.leafIndex \in Nat
    <3>1. CASE \E chain \in Submitted : req[r] = Uploading(chain)
        BY <3>1 DEF Uploading
    <3>2. CASE \E chain \in Submitted : \E k \in DOMAIN pools :
                  \E n \in DOMAIN pools[k].pendingLeaves : WaitsFor(r, chain, k, n)
        BY <3>2 DEF WaitsFor, Waiting
    <3>3. ASSUME NEW chain \in Submitted, NEW j \in DOMAIN tree, HasLeaf(r, chain, j)
          PROVE  /\ req[r].chain \in Submitted
                 /\ req[r].at = "sct" /\ req[r].sct.leafIndex \in Nat
      <4>1. tree[j] \in Leaf
          BY DEF Types
      <4>2. tree[j].leafIndex \in Nat
          BY <4>1 DEF Leaf
      <4> QED  BY <3>3, <4>2 DEF HasLeaf, Answered, MerkleTreeLeaf
    <3>4. RequestInv(r)
        BY DEF RequestsInv
    <3> QED  BY <3>1, <3>2, <3>3, <3>4 DEF RequestInv
  <2> QED  BY <2>1, <2>2, <2>3 DEF TypeOK, Types, InRound, Outside
<1> QED
    BY <1>1, InvHolds, PTL

(* A pool that is done has an error or a result, whoever closed it: the    *)
(* panic of the wait function is out of reach.                             *)
THEOREM ResultsAreThere == Spec => []ResultNeverMissing
<1>1. Inv => ResultNeverMissing
    BY DEF Inv, PoolInv
<1> QED
    BY <1>1, InvHolds, PTL

(* The issuers of every leaf are in the object storage, whatever uploads   *)
(* failed.                                                                 *)
THEOREM IssuersAreStored == Spec => []IssuersStored
<1>1. Inv => IssuersStored
    BY DEF Inv, IssuersInv, IssuersStored, Range
<1> QED
    BY <1>1, InvHolds, PTL

(* The cache knows of no leaf that is not in the tree, and cachePut never  *)
(* meets a row with the key of one of its batch.                           *)
THEOREM CacheIsRight == Spec => []CacheRight
<1>1. Inv => CacheRight
  <2> SUFFICES ASSUME Inv
               PROVE  CacheRight
      OBVIOUS
  <2> USE DEF Inv
  <2>1. seq = "committed" => PendingHashes \cap DOMAIN cache = {}
      BY Places, PendingHashesAre DEF FreshInv, InRound
  <2> QED  BY <2>1 DEF CacheRight, CacheInv
<1> QED
    BY <1>1, InvHolds, PTL

(* The key under which the entry of an accepted chain is deduplicated is   *)
(* what RFC 6962 has an SCT sign for the chain.                            *)
LEMMA EntryExpected ==
    ASSUME NEW chain \in Submitted
    PROVE  CacheHash(PendingLogEntry(chain)) = ExpectedEntry(chain)
<1>1. /\ chain \in Seq(Range(chain)) /\ chain # <<>>
      /\ \A j \in 1 .. (Len(chain) - 1) :
            /\ chain[j].issuer = chain[j + 1].subject
            /\ chain[j].kind = "preIssuer" => chain[j + 1].kind # "preIssuer"
    BY ChainsAssumption DEF Submitted
<1>2. CASE ~IsPrecert(chain)
    BY <1>2 DEF CacheHash, PendingLogEntry, ExpectedEntry, IsPrecert
<1>3. CASE IsPrecert(chain)
  <2> DEFINE rest == Tail(chain)
             I == {i \in 1 .. Len(rest) : rest[i].kind # "preIssuer"}
             ca == SelectInSeq(rest, LAMBDA c : c.kind # "preIssuer")
  <2>1. Len(chain) >= IF PreIssued(chain) THEN 3 ELSE 2
      BY <1>3 DEF Submitted, Accepted
  <2>2. /\ Len(chain) \in Nat /\ Len(rest) = Len(chain) - 1
        /\ \A i \in 1 .. Len(rest) : rest[i] = chain[i + 1]
      BY <1>1
  <2>3. ca = IF I # {} THEN Min(I) ELSE 0
      BY DEF SelectInSeq
  <2>4. I \subseteq Nat
      BY <2>2
  <2>5. chain[1].issuer = chain[2].subject
      BY <1>1, <2>1, <2>2
  <2> HIDE DEF rest, ca
  <2>6. CASE PreIssued(chain)
    <3>1. /\ chain[2].kind = "preIssuer" /\ chain[3].kind # "preIssuer"
          /\ chain[2].issuer = chain[3].subject
        BY <1>1, <2>1, <2>2, <2>6 DEF PreIssued
    <3>2. 2 \in I /\ 1 \notin I /\ 0 \notin I
        BY <2>1, <2>2, <2>6, <3>1
    <3>3. Min(I) = 2
      <4> HIDE DEF I
      <4>1. \A y \in I : 2 =< y
          BY <2>4, <3>2
      <4> QED  BY <2>4, <3>2, <4>1, MinIs
    <3>4. rest[ca] = chain[3]
        BY <2>1, <2>2, <2>3, <2>6, <3>2, <3>3
    <3> QED  BY <1>3, <2>6, <3>1, <3>4
             DEF CacheHash, PendingLogEntry, BuildPrecertTBS, ExpectedEntry, IsPrecert, rest, ca
  <2>7. CASE ~PreIssued(chain)
    <3>1. chain[2].kind # "preIssuer"
        BY <2>1, <2>7 DEF PreIssued
    <3>2. 1 \in I /\ 0 \notin I
        BY <2>1, <2>2, <2>7, <3>1
    <3>3. Min(I) = 1
      <4> HIDE DEF I
      <4>1. \A y \in I : 1 =< y
          BY <2>4, <3>2
      <4> QED  BY <2>4, <3>2, <4>1, MinIs
    <3>4. rest[ca] = chain[2]
        BY <2>1, <2>2, <2>3, <2>7, <3>2, <3>3
    <3> QED  BY <1>3, <2>5, <2>7, <3>4
             DEF CacheHash, PendingLogEntry, BuildPrecertTBS, ExpectedEntry, IsPrecert, rest, ca
  <2> QED  BY <2>6, <2>7
<1> QED
    BY <1>2, <1>3

(* Every SCT that a submitter gets signs the entry of its own chain, and   *)
(* the tree has it at the index in the SCT.                                *)
THEOREM AnswersAreRight == Spec => []AnswersRight
<1>1. Inv => AnswersRight
  <2> SUFFICES ASSUME Inv, NEW r \in Requests, req[r].at = "sct"
               PROVE  /\ req[r].sct.signedEntry = ExpectedEntry(req[r].chain)
                      /\ req[r].sct.leafIndex < Len(tree)
                      /\ MerkleTreeLeaf(tree[req[r].sct.leafIndex + 1]) = req[r].sct
      BY DEF AnswersRight
  <2> USE DEF Inv
  <2>1. PICK chain \in Submitted, j \in DOMAIN tree : chain = req[r].chain /\ HasLeaf(r, chain, j)
      BY AnsweredIs
  <2>2. req[r].sct = MerkleTreeLeaf(tree[j])
      BY <2>1 DEF HasLeaf, Answered
  <2>3. /\ MerkleTreeLeaf(tree[j]).signedEntry = CacheHash(tree[j].entry)
        /\ MerkleTreeLeaf(tree[j]).leafIndex = tree[j].leafIndex
      BY DEF MerkleTreeLeaf, CacheHash
  <2>4. CacheHash(tree[j].entry) = ExpectedEntry(chain)
      BY <2>1, EntryExpected DEF HasLeaf, SameEntry
  <2>5. tree[j].leafIndex = j - 1 /\ j \in 1 .. Len(tree) /\ Len(tree) \in Nat
      BY DEF IndexInv, Types
  <2>6. tree[j].leafIndex + 1 = j /\ tree[j].leafIndex < Len(tree)
      BY <2>5
  <2> QED  BY <2>1, <2>2, <2>3, <2>4, <2>6
<1> QED
    BY <1>1, InvHolds, PTL

(* No round, and no Replace that takes effect behind a failed or crashed   *)
(* one, adds an entry a second time unless a failed cachePut, a failed     *)
(* upload or a crash had lost it to the cache.                             *)
THEOREM DuplicatesAreExcused == Spec => DuplicatesExcused
<1> DEFINE Excused ==
      \A j \in (Len(tree) + 1) .. Len(tree') : \A k \in 1 .. (j - 1) :
          CacheHash(tree'[k].entry) = CacheHash(tree'[j].entry) =>
              CacheHash(tree'[j].entry) \in uncached
<1>1. ASSUME Inv, [Next]_vars
      PROVE  Excused
  <2> USE <1>1 DEF Inv
  <2>1. Len(tree) \in Nat /\ DOMAIN tree = 1 .. Len(tree)
      BY DEF Types
  <2>2. CASE UNCHANGED tree
      BY <2>1, <2>2
  <2>3. CASE seq = "sequence" /\ p \in DOMAIN pools /\ tree' = Extended
    <3> SUFFICES ASSUME NEW j \in (Len(tree) + 1) .. Len(tree'), NEW k \in 1 .. (j - 1),
                        CacheHash(tree'[k].entry) = CacheHash(tree'[j].entry)
                 PROVE  CacheHash(tree'[j].entry) \in uncached
        OBVIOUS
    <3>1. /\ Len(tree') \in Nat /\ DOMAIN Extended = 1 .. Len(tree')
          /\ \A i \in DOMAIN tree : Extended[i] = tree[i]
      <4>1. Len(Pending) \in Nat
          BY <2>3, PoolFacts DEF Pending
      <4> QED  BY <2>1, <2>3, <4>1, ExtendedIs
    <3>2. j \in DOMAIN Extended /\ j \notin DOMAIN tree /\ k \in DOMAIN Extended /\ k < j
        BY <2>1, <3>1
    <3>3. /\ j - Len(tree) \in DOMAIN pools[p].pendingLeaves
          /\ tree'[j].entry = pools[p].pendingLeaves[j - Len(tree)]
        BY <2>3, <3>2, NewLeafIs
    <3>4. CASE k \in DOMAIN tree
      <4>1. CacheHash(tree'[j].entry) \in PoolHashes(p)
          BY <3>3 DEF PoolHashes
      <4>2. CacheHash(tree'[j].entry) \notin DOMAIN cache
          BY <2>3, <4>1 DEF FreshInv
      <4>3. CacheHash(tree[k].entry) \in DOMAIN cache \/ CacheHash(tree[k].entry) \in uncached
          BY <2>3, <3>4 DEF CacheInv
      <4> QED  BY <2>3, <3>1, <3>4, <4>2, <4>3
    <3>5. CASE k \notin DOMAIN tree
      <4>1. /\ k - Len(tree) \in DOMAIN pools[p].pendingLeaves
            /\ tree'[k].entry = pools[p].pendingLeaves[k - Len(tree)]
          BY <2>3, <3>2, <3>5, NewLeafIs
      <4>2. k - Len(tree) = j - Len(tree)
          BY <2>3, <3>3, <4>1 DEF FreshInv
      <4> QED  BY <2>1, <3>2, <4>2
    <3> QED  BY <3>4, <3>5
  <2> QED  BY <2>2, <2>3, TreeStep
<1>2. Inv /\ [Next]_vars => [Excused]_vars
    BY <1>1
<1> QED
    BY <1>2, InvHolds, PTL DEF Spec, DuplicatesExcused
=============================================================================
