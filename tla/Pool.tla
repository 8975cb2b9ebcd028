-------------------------------- MODULE Pool --------------------------------
(***************************************************************************)
(* The submission side of a log, in one process: the HTTP handlers, the    *)
(* issuers they upload, addLeafToPool, RunSequencer and sequence, with the *)
(* two generations of pools they share under poolMu, and the deduplication *)
(* cache.                                                                  *)
(*                                                                         *)
(* How a pool gets into the tree, and what becomes of the stores when that *)
(* fails, is module Sequencer's.  Here a round is no more than the points  *)
(* at which a submission can see it.  A tick that finds an empty pool      *)
(* changes nothing that a submission could see, unless it is fatal.        *)
(***************************************************************************)
EXTENDS Integers, SequencesExt, FiniteSetsExt, Submit

CONSTANTS Requests,   \* requests to add-chain and add-pre-chain
          Chains,     \* the chains they submit, as ctfe.ValidateChain returns them
          PoolSize    \* Config.PoolSize; 0 is no limit

ASSUME PoolAssumption == PoolSize \in Nat

\* ctfe.ValidateChain has verified that the next certificate of a chain is
\* the issuer of each.  A Precertificate Signing Certificate is certified by
\* the CA directly (RFC 6962, section 3.1).
ASSUME ChainsAssumption ==
    \A chain \in Chains :
        /\ chain \in Seq(Range(chain)) /\ chain # <<>>
        /\ \A j \in 1 .. (Len(chain) - 1) :
              /\ chain[j].issuer = chain[j + 1].subject
              /\ chain[j].kind = "preIssuer" => chain[j + 1].kind # "preIssuer"

VARIABLES
    pools,          \* the pools of this process; the last is l.currentPool
    inSequencing,   \* the pool whose byHash is l.inSequencing, or 0
    seq,            \* where the sequencer is, "down" if the process is
    fatal,          \* the error sequencePool is returning is fatal
    now,            \* the clock, which advances from round to round
    tree,           \* the leaves of the committed tree
    cache,          \* the table of the deduplication cache, by cache hash
    issuers,        \* l.issuers
    stored,         \* the issuers in the object storage
    req,            \* the requests
    \* Ghost
    uncached        \* cache hashes of leaves that the cache may not know

poolVars == <<pools, inSequencing, seq, fatal, now, tree, cache, uncached>>
issuerVars == <<issuers, stored>>
vars == <<poolVars, issuerVars, req>>

-----------------------------------------------------------------------------

Endpoints == {"add-chain", "add-pre-chain"}

Certificates == UNION {Range(chain) : chain \in Chains}
Submitted == {chain \in Chains : \E e \in Endpoints : Accepted(e, chain)}
Entries == {PendingLogEntry(chain) : chain \in Submitted}
Hashes == {CacheHash(e) : e \in Entries}
Leaf == [entry : Entries, leafIndex : Nat, timestamp : Nat]

PoolState == [pendingLeaves : Seq(Entries), done : BOOLEAN, err : BOOLEAN,
              firstLeafIndex : Nat, timestamp : Nat]
NewPool == [pendingLeaves |-> <<>>, done |-> FALSE, err |-> FALSE,
            firstLeafIndex |-> 0, timestamp |-> 0]

current == Len(pools)
\* The pool being sequenced; sequence has put a new one after it.
p == current - 1
Pending == pools[p].pendingLeaves
PendingHashes == {CacheHash(e) : e \in Range(Pending)}

\* A request uploads its issuers, then waits for entry n of a pool, or has
\* its answer: an SCT, or an error.
Idle == [at |-> "idle"]
Uploading(chain) == [at |-> "issuers", chain |-> chain]
Waiting(chain, k, n) == [at |-> "waiting", chain |-> chain, pool |-> k, n |-> n]
Answered(chain, leaf) == [at |-> "sct", chain |-> chain, sct |-> MerkleTreeLeaf(leaf)]
Failed == [at |-> "error"]

Init ==
    /\ pools = <<NewPool>>
    /\ inSequencing = 0
    /\ seq = "wait"
    /\ fatal = FALSE
    /\ now = 0
    /\ tree = <<>>
    /\ cache = <<>>
    /\ issuers = {}
    /\ stored = {}
    /\ req = [r \in Requests |-> Idle]
    /\ uncached = {}

-----------------------------------------------------------------------------
(* addChainOrPreChain, up to addLeafToPool.                                *)

Submit(r, endpoint, chain) ==
    /\ seq # "down"
    /\ req[r] = Idle
    /\ req' = [req EXCEPT ![r] = IF Accepted(endpoint, chain) THEN Uploading(chain) ELSE Failed]
    /\ UNCHANGED <<poolVars, issuerVars>>

\* The body is not read or not JSON, or the chain is empty or not valid.
Refuse(r) ==
    /\ seq # "down"
    /\ req[r] = Idle
    /\ req' = [req EXCEPT ![r] = Failed]
    /\ UNCHANGED <<poolVars, issuerVars>>

-----------------------------------------------------------------------------
(* uploadIssuer.  l.issuers and the issuer's object are only touched under *)
(* issuersMu, which is held until the upload returns, so a call is a step. *)
(* The calls that find the issuer in l.issuers need none: nothing leaves   *)
(* that map, so the loop over leaf.Issuers is at the first that is not in  *)
(* it yet, if there is one.                                                *)

NextIssuer(chain) ==
    SelectInSeq(PendingLogEntry(chain).issuers, LAMBDA i : i \notin issuers)

\* (Mutant: the issuer is marked before its upload is known to be there.)
UploadIssuerHasty(r) ==
    /\ req[r].at = "issuers" /\ NextIssuer(req[r].chain) # 0
    /\ LET issuer == PendingLogEntry(req[r].chain).issuers[NextIssuer(req[r].chain)]
       IN  /\ issuers' = issuers \cup {issuer}
           /\ \/ stored' = stored \cup {issuer} /\ UNCHANGED req
              \/ UNCHANGED stored /\ req' = [req EXCEPT ![r] = Failed]
    /\ UNCHANGED poolVars

UploadIssuer(r) ==
    /\ req[r].at = "issuers" /\ NextIssuer(req[r].chain) # 0
    /\ LET issuer == PendingLogEntry(req[r].chain).issuers[NextIssuer(req[r].chain)]
       IN  \/ \* Backend.Fetch finds it, or fails and Backend.Upload succeeds.
              /\ issuers' = issuers \cup {issuer}
              /\ stored' = stored \cup {issuer}
              /\ UNCHANGED req
           \/ \* Both fail; the upload may have taken effect.
              /\ stored' \in {stored, stored \cup {issuer}}
              /\ req' = [req EXCEPT ![r] = Failed]
              /\ UNCHANGED issuers
    /\ UNCHANGED poolVars

-----------------------------------------------------------------------------
(* The rest of addLeafToPool, and the function it returns.                 *)

\* Where the entry of byHash under hash h is in the pool; 0 if there is none.
ByHash(k, h) ==
    IF k = 0 THEN 0
    ELSE SelectInSeq(pools[k].pendingLeaves, LAMBDA e : CacheHash(e) = h)

FoundIn(r, k, n) ==
    /\ req' = [req EXCEPT ![r] = Waiting(@.chain, k, n)]
    /\ UNCHANGED pools

\* The block under poolMu.
AddLeafToPool(r) ==
    LET e == PendingLogEntry(req[r].chain)
        h == CacheHash(e)
        inCurrent == ByHash(current, h)
        inPrevious == ByHash(inSequencing, h)
        size == Len(pools[current].pendingLeaves)
    IN  /\ req[r].at = "issuers" /\ NextIssuer(req[r].chain) = 0
        /\ \/ inCurrent # 0 /\ FoundIn(r, current, inCurrent)
           \/ inCurrent = 0 /\ inPrevious # 0 /\ FoundIn(r, inSequencing, inPrevious)
           \/ /\ inCurrent = 0 /\ inPrevious = 0
              /\ h \in DOMAIN cache
              /\ req' = [req EXCEPT ![r] =
                    Answered(@.chain, AsLogEntry(e, cache[h].leafIndex, cache[h].timestamp))]
              /\ UNCHANGED pools
           \/ /\ inCurrent = 0 /\ inPrevious = 0
              /\ h \notin DOMAIN cache
              /\ IF PoolSize > 0 /\ size >= PoolSize
                 THEN /\ req' = [req EXCEPT ![r] = Failed]
                      /\ UNCHANGED pools
                 ELSE /\ pools' = [pools EXCEPT ![current].pendingLeaves = Append(@, e)]
                      /\ req' = [req EXCEPT ![r] = Waiting(@.chain, current, size + 1)]
        /\ UNCHANGED <<inSequencing, seq, fatal, now, tree, cache, uncached, issuerVars>>

\* cacheGet fails, or the SCT for what it found cannot be signed.
CacheGetErr(r) ==
    /\ req[r].at = "issuers" /\ NextIssuer(req[r].chain) = 0
    /\ LET h == CacheHash(PendingLogEntry(req[r].chain))
       IN  ByHash(current, h) = 0 /\ ByHash(inSequencing, h) = 0
    /\ req' = [req EXCEPT ![r] = Failed]
    /\ UNCHANGED <<poolVars, issuerVars>>

\* What the pool's results say its entry n is.
Result(k, n) ==
    AsLogEntry(pools[k].pendingLeaves[n], pools[k].firstLeafIndex + n - 1, pools[k].timestamp)

\* The wait function finds the pool done, and the handler signs the SCT.
Deliver(r) ==
    /\ req[r].at = "waiting"
    /\ pools[req[r].pool].done
    /\ req' = [req EXCEPT ![r] = IF pools[@.pool].err
                                 THEN Failed
                                 ELSE Answered(@.chain, Result(@.pool, @.n))]
    /\ UNCHANGED <<poolVars, issuerVars>>

\* The request's context ends while it waits, or the SCT cannot be signed.
Cancel(r) ==
    /\ req[r].at = "waiting"
    /\ req' = [req EXCEPT ![r] = Failed]
    /\ UNCHANGED <<poolVars, issuerVars>>

-----------------------------------------------------------------------------
(* sequence and sequencePool.                                              *)

\* (Mutant: inSequencing is not set.)
TickForgets ==
    /\ seq = "wait"
    /\ pools[current].pendingLeaves # <<>>
    /\ pools' = Append(pools, NewPool)
    /\ seq' = "sequence"
    /\ now' = now + 1
    /\ UNCHANGED <<inSequencing, fatal, tree, cache, req, uncached, issuerVars>>

\* The block under poolMu that starts sequence.
Tick ==
    /\ seq = "wait"
    /\ pools[current].pendingLeaves # <<>>
    /\ pools' = Append(pools, NewPool)
    /\ inSequencing' = current
    /\ seq' = "sequence"
    /\ now' = now + 1
    /\ UNCHANGED <<fatal, tree, cache, req, uncached, issuerVars>>

Extended == tree \o [j \in 1 .. Len(Pending) |->
                       AsLogEntry(Pending[j], Len(tree) + j - 1, now)]

\* (Mutant: an error that is not fatal is dropped before it is recorded.)
FailSwallowed(isFatal) ==
    /\ pools' = [pools EXCEPT ![p].err = isFatal]
    /\ fatal' = isFatal
    /\ seq' = "close"
    /\ UNCHANGED <<inSequencing, now, cache, req, issuerVars>>

\* sequencePool returns an error.
Fail(isFatal) ==
    /\ pools' = [pools EXCEPT ![p].err = TRUE]
    /\ fatal' = isFatal
    /\ seq' = "close"
    /\ UNCHANGED <<inSequencing, now, cache, req, issuerVars>>

\* Before Lock.Replace: nothing came of the round.  Time that did not
\* progress is fatal, an upload to staging that fails is not.
FailEarly ==
    /\ seq = "sequence"
    /\ \E isFatal \in BOOLEAN : Fail(isFatal)
    /\ UNCHANGED <<tree, uncached>>

\* Lock.Replace fails, and may have taken effect.
FailReplace ==
    /\ seq = "sequence"
    /\ Fail(TRUE)
    /\ \/ UNCHANGED <<tree, uncached>>
       \/ tree' = Extended /\ uncached' = uncached \cup PendingHashes

\* (Mutant: an index off by one.)
CommitOffByOne ==
    /\ seq = "sequence"
    /\ tree' = Extended
    /\ pools' = [pools EXCEPT ![p].timestamp = now, ![p].firstLeafIndex = Len(tree) - 1]
    /\ seq' = "committed"
    /\ UNCHANGED <<inSequencing, fatal, now, cache, req, uncached, issuerVars>>

Commit ==
    /\ seq = "sequence"
    /\ tree' = Extended
    /\ pools' = [pools EXCEPT ![p].timestamp = now, ![p].firstLeafIndex = Len(tree)]
    /\ seq' = "committed"
    /\ UNCHANGED <<inSequencing, fatal, now, cache, req, uncached, issuerVars>>

\* A tile (fatal) or the checkpoint (not) could not be uploaded.
FailUpload ==
    /\ seq = "committed"
    /\ \E isFatal \in BOOLEAN : Fail(isFatal)
    /\ uncached' = uncached \cup PendingHashes
    /\ UNCHANGED tree

\* The columns timestamp and leaf_index of the pending leaf with hash h.
Row(h) == LET leaf == Result(p, ByHash(p, h))
          IN  [timestamp |-> leaf.timestamp, leafIndex |-> leaf.leafIndex]

\* The checkpoint is published; cachePut inserts the batch, or nothing if
\* one of its keys is there already.
CachePut ==
    /\ seq = "committed"
    /\ IF PendingHashes \cap DOMAIN cache = {}
       THEN /\ cache' = [h \in DOMAIN cache \cup PendingHashes |->
                           IF h \in DOMAIN cache THEN cache[h] ELSE Row(h)]
            /\ uncached' = uncached \ PendingHashes
       ELSE UNCHANGED <<cache, uncached>>
    /\ seq' = "close"
    /\ UNCHANGED <<pools, inSequencing, fatal, now, tree, req, issuerVars>>

CachePutErr ==
    /\ seq = "committed"
    /\ uncached' = uncached \cup PendingHashes
    /\ seq' = "close"
    /\ UNCHANGED <<pools, inSequencing, fatal, now, tree, cache, req, issuerVars>>

\* close(p.done), in sequencePool's defer.
Close ==
    /\ seq = "close"
    /\ pools' = [pools EXCEPT ![p].done = TRUE]
    /\ seq' = "clear"
    /\ UNCHANGED <<inSequencing, fatal, now, tree, cache, req, uncached, issuerVars>>

\* The block under poolMu that ends sequence.
Clear ==
    /\ seq = "clear"
    /\ inSequencing' = 0
    /\ seq' = IF fatal THEN "stop" ELSE "wait"
    /\ UNCHANGED <<pools, fatal, now, tree, cache, req, uncached, issuerVars>>

-----------------------------------------------------------------------------
(* RunSequencer, and the process.                                          *)

\* The context ends, or a round of no leaves has a fatal error.
Cease ==
    /\ seq = "wait"
    /\ seq' = "stop"
    /\ UNCHANGED <<pools, inSequencing, fatal, now, tree, cache, req, uncached, issuerVars>>

\* (Mutant: the current pool is left open.)
StopSilently ==
    /\ seq = "stop"
    /\ seq' = "stopped"
    /\ UNCHANGED <<pools, inSequencing, fatal, now, tree, cache, req, uncached, issuerVars>>

\* RunSequencer's defer, under poolMu.
StopSequencer ==
    /\ seq = "stop"
    /\ pools' = [pools EXCEPT ![current].err = TRUE, ![current].done = TRUE]
    /\ seq' = "stopped"
    /\ UNCHANGED <<inSequencing, fatal, now, tree, cache, req, uncached, issuerVars>>

InFlight(r) == req[r].at \in {"issuers", "waiting"}

\* The process ends, by a crash or because its sequencer stopped.  A Replace
\* under way may take effect.  The cache is written with synchronous = NORMAL
\* and may lose its last transactions.
Crash ==
    /\ seq # "down"
    /\ seq' = "down"
    /\ tree' \in {tree} \cup IF seq = "sequence" THEN {Extended} ELSE {}
    /\ \E t \in 0 .. now :
          cache' = [h \in {g \in DOMAIN cache : cache[g].timestamp <= t} |-> cache[h]]
    /\ uncached' = {CacheHash(leaf.entry) : leaf \in Range(tree')} \ DOMAIN cache'
    /\ pools' = <<>> /\ inSequencing' = 0 /\ fatal' = FALSE /\ issuers' = {}
    /\ req' = [r \in Requests |-> IF InFlight(r) THEN Failed ELSE req[r]]
    /\ UNCHANGED <<now, stored>>

Restart ==
    /\ seq = "down"
    /\ seq' = "wait"
    /\ pools' = <<NewPool>>
    /\ UNCHANGED <<inSequencing, fatal, now, tree, cache, req, uncached, issuerVars>>

-----------------------------------------------------------------------------

Sequencer ==
    \/ Tick \/ FailEarly \/ FailReplace \/ Commit \/ FailUpload
    \/ CachePut \/ CachePutErr \/ Close \/ Clear \/ StopSequencer

Handle(r) == UploadIssuer(r) \/ AddLeafToPool(r) \/ Deliver(r)

Next ==
    \/ \E r \in Requests, e \in Endpoints, chain \in Chains : Submit(r, e, chain)
    \/ \E r \in Requests : Refuse(r) \/ Handle(r) \/ CacheGetErr(r) \/ Cancel(r)
    \/ Sequencer
    \/ Cease \/ Crash \/ Restart

Spec == Init /\ [][Next]_vars

-----------------------------------------------------------------------------
(* Properties.                                                             *)

(* Every variable has its type.                                            *)
TypeOK ==
    /\ pools \in Seq(PoolState)
    /\ inSequencing \in {0, p}
    /\ seq \in {"wait", "sequence", "committed", "close", "clear", "stop", "stopped", "down"}
    /\ fatal \in BOOLEAN
    /\ now \in Nat
    /\ tree \in Seq(Leaf)
    /\ DOMAIN cache \subseteq Hashes
    /\ Range(cache) \subseteq [timestamp : Nat, leafIndex : Nat]
    /\ issuers \subseteq Certificates /\ stored \subseteq Certificates
    /\ \A r \in Requests :
          \/ req[r] \in {Idle, Failed}
          \/ /\ req[r].chain \in Submitted
             /\ \/ req[r] = Uploading(req[r].chain)
                \/ /\ req[r].at = "waiting" /\ req[r].pool \in DOMAIN pools
                   /\ req[r].n \in DOMAIN pools[req[r].pool].pendingLeaves
                \/ req[r].at = "sct" /\ req[r].sct.leafIndex \in Nat
    /\ uncached \subseteq Hashes

(* The SCT a submitter gets signs the entry that RFC 6962 defines for the  *)
(* chain it submitted, and the tree has that very MerkleTreeLeaf at the    *)
(* index in the SCT: wherever the answer came from (its own entry, an      *)
(* entry of either pool that another chain put there, or the cache), and   *)
(* whatever rounds failed in between.                                      *)
AnswersRight ==
    \A r \in Requests :
        LET sct == req[r].sct
        IN  req[r].at = "sct" =>
                /\ sct.signedEntry = ExpectedEntry(req[r].chain)
                /\ sct.leafIndex < Len(tree)
                /\ MerkleTreeLeaf(tree[sct.leafIndex + 1]) = sct

(* Every leaf of the tree refers to its issuers by their fingerprints, and *)
(* whoever reads it finds them in the object storage: l.issuers never      *)
(* knows an issuer whose upload failed, whoever was uploading it.          *)
IssuersStored == \A leaf \in Range(tree) : Range(leaf.entry.issuers) \subseteq stored

(* Whoever waits on a pool that is done finds an error or a result: the    *)
(* "internal error: pool is ready but result is missing" never panics, for *)
(* the pools that RunSequencer closes without sequencing them too.         *)
ResultNeverMissing ==
    \A k \in DOMAIN pools :
        (pools[k].done /\ ~pools[k].err) => pools[k].timestamp # 0

(* The cache tells the truth, and no INSERT of cachePut meets a row with   *)
(* its key, which would roll back the whole batch: between the cache, the  *)
(* pool being sequenced and the current one there is no gap a resubmission *)
(* slips through.                                                          *)
CacheRight ==
    /\ \A h \in DOMAIN cache :
          LET leaf == tree[cache[h].leafIndex + 1]
          IN  CacheHash(leaf.entry) = h /\ leaf.timestamp = cache[h].timestamp
    /\ seq = "committed" => PendingHashes \cap DOMAIN cache = {}

(* An entry is added to the tree a second time only if it was in a round   *)
(* that failed after it was committed, or the cache lost it: "the only     *)
(* consequence of cache false negatives are duplicated leaves".            *)
DuplicatesExcused ==
    [][\A j \in (Len(tree) + 1) .. Len(tree') : \A k \in 1 .. (j - 1) :
          CacheHash(tree'[k].entry) = CacheHash(tree'[j].entry) =>
              CacheHash(tree'[j].entry) \in uncached]_vars
=============================================================================
