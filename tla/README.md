# Sunlight in TLA+

Sunlight is a Certificate Transparency log. It takes certificates over HTTP,
batches them into a pool, once a second appends the pool to a Merkle tree, and
publishes the tree as static files ("tiles") in an object storage bucket,
together with a signed tree head, the *checkpoint*. A submitter waits for its
batch and gets a promise, the *SCT*, that carries the index of its leaf.

What must never happen is a fork: two signed tree heads of which neither tree
extends the other, or an SCT whose leaf is not in the tree. A log that does
this once is dead. This project models the part of Sunlight that stands between
the log and that: the order in which it writes to its two stores, what it does
when a write fails, and what it does when it starts again.

## Inventory

| Component | State | Operations | Modules |
|---|---|---|---|
| Sequencer (`internal/ctlog/ctlog.go`) | `Log.tree`, `lockCheckpoint`, `edgeTiles` | `CreateLog`, `LoadLog`, `sequencePool`, `applyStagedUploads` | `Sequencer`, `SequencerInv`, `SequencerProofs`, `SequencerLive`, `CTLog` |
| Tile geometry (`tile.go`, `ctlog.go`, `tlog`) | none | names, contents and sets of tiles | `Tiles`, `TilesProofs` |
| Edge tiles (`ctlog.go`) | `Log.edgeTiles` and the locals of a round | the loop of `sequencePool`, `hashReader`, the edge of `LoadLog` | `Edge`, `EdgeProofs` |
| Submission (`http.go`, `ctlog.go`, `cache.go`) | `currentPool`, `inSequencing`, the cache table | `add-chain`, `add-pre-chain`, `addLeafToPool` and its wait function, `sequence`, `RunSequencer`, `cacheGet`, `cachePut` | `Submit`, `Pool`, `PoolProofs` |
| Issuers (`uploadIssuer`) | `Log.issuers`, `issuer/` objects | fetch, compare, upload | `Pool`, `PoolProofs` |
| Object storage (`s3.go`) | the bucket | `Upload` with a hedge, `Fetch` | `S3Upload`, `S3Proofs`; its outcomes in `Sequencer` |
| Lock backends (`sqlite.go`, `dynamodb.go`, `etag.go`) | one checkpoint per log; a connection and a mutex | `Fetch`, `Replace`, `Create` | `LockBackend`, `LockProofs`, `CASRegister`; their outcomes in `Sequencer` |
| Lifecycle (`cmd/sunlight/main.go`) | the errgroup of sequencers, the HTTP server | create on the inception date, load, run, shut down, exit, restart | `Process`; `Sequencer`, `SequencerLive` |
| Leaf encodings (`tile.go`, `extensions.go`) | none | append and read leaves, extensions | `Encodings`, `EncodingsProofs` |
| Checkpoints (`checkpoint.go`, `signTreeHead`, `openCheckpoint`) | none | format, parse, sign, open | `Notes`, `NotesProofs` |
| Signatures (`internal/rfc6979`) | none | nonce, sign, encode | `ECDSA` |
| Key generation, logging, metrics | none | | not modelled |

**How they interact.** `main` calls `CreateLog` (on one day only), then
`LoadLog`, then starts `RunSequencer` in a goroutine and serves HTTP. Handlers
call `addLeafToPool`, which under `poolMu` looks a certificate up in the current
pool, in the pool being sequenced and in the cache, and else appends it; they
then wait for the pool's `done` channel. Before that they upload the issuers of
the chain. A tick of `RunSequencer` swaps the
pools under `poolMu` and calls `sequencePool`, which talks to both stores:

1. upload the new tiles, as one bundle, to `staging/<size>/<root hash>`;
2. `Lock.Replace` the old checkpoint by the new one (the commit);
3. upload the tiles themselves, concurrently;
4. upload the checkpoint to the object `checkpoint` (the publication);
5. put the leaves in the cache, and close the pool.

Errors before 2 and at 4 fail the pool. Errors at 2 and 3 also stop the
sequencer, and with it the process; `LoadLog` then compares the lock's
checkpoint with the published one and, if that is behind, applies the bundle.

**What is hard.** Crashes between any two of these steps; writes that are
reported as failed and took effect, or take effect later; two instances of the
program on one log; the order in which concurrent uploads land; the staging
bundle of an empty round, which overwrites that of the round before it; edge
tiles that must suffice without ever reading the tree; resubmissions that race
the rotation of pools and cache; waiters that nobody would wake; clocks that do
not advance; an SDK that repeats conditional writes; logs that share a database
connection; a process of several logs of which one stops. `PROJECT.json` lists each of these hazards at its line, with the
properties that cover it.

**What makes each part correct.** Sequencer: the published tree is readable,
consistent with the committed one and recoverable, and promises are kept. Tiles:
a round uploads all that is new. Edge: every hash needed is at hand. Pool: the
right answer for everyone, at last, and issuers that can be found. S3: "ok" means
stored. Lock backends: a compare-and-swap, whatever is repeated. Process: it
serves all of its logs or exits. Formats: what is written reads back, and what
was not signed does not open.

## The modules

### `Tiles`

The tiles of a tree of *n* leaves (`TilesOf`), the ones a round uploads
(`NewTiles`: `tlog.NewTiles` and the data tiles of `sequencePool`), the ones
`LoadLog` reads (`EdgeTiles`), and the leaves under a tile (`Content`). Hashes
are taken to be injective: the content of a tile is the sequence of leaves under
it, and a root hash is the sequence of all leaves. `tlog`
(`golang.org/x/mod/sumdb/tlog`) is a library outside the repository and is
modelled from how it is used. `TileWidth` is a parameter, 256 in the code.

### `Sequencer`

One `pc` per instance of the program, and the two stores.

| Model | Code |
|---|---|
| `lock` | the row, item or object of the lock backend |
| `pub`, `staging`, `tiles` | the objects `checkpoint`, `staging/...`, `tile/...` |
| `inflight` | requests that nobody waits for, but that the service may still apply |
| `log[i]` | `Log.tree`, `Log.lockCheckpoint`, `Log.edgeTiles` |
| `round[i]` | the pool and the locals of `sequencePool`; the rest of a bundle in `applyStagedUploads` |
| `scts` | ghost: the leaves for which a submitter got an answer |
| `CreateCheck` ... `CreatePubErr` | `CreateLog` |
| `LoadLock`, `LoadPub`, `LoadPubMissing`, `Recover`, `LoadEdge` | `LoadLog` |
| `ApplyTile`, `ApplyErr`, `ApplyDone` | `applyStagedUploads`, called by both |
| `StartRound`, `TimeStuck`, `Stage`, `StageErr`, `Commit`, `CommitErr`, `Publish`, `PublishErr`, `Finish` | `sequencePool` |
| `Crash`, `Land` | the environment |

Every request to a store is one step, with four outcomes: it succeeds
(`Succeeds`), or it is reported as failed (`Fails`) and had no effect, had its
effect, or is left in `inflight` and has it at some later time (`Land`). A
successful upload may leave a copy of itself in `inflight`: that is the hedge of
`S3Backend.Upload`, see `S3Upload`. A `Replace` that lands late is still a
compare-and-swap. `LateOps` says which kinds of request may land late in a run.

Errors of `CreateLog` and `LoadLog` that have no effect (a fetch that fails, a
clock behind the checkpoint's) are the same step as a crash. A round is handed
an arbitrary sequence of certificates; who submitted them is `Pool`'s.

`edgeTiles` is here the tree it is the edge of; that it really determines the
hashes of that tree is what `Edge` is about.

### `CTLog`

The abstract log: a head that grows, a visible head, and promises. With
`Exclusive`, for a single writer, the visible tree only grows and only visible
leaves are promised; without, both only belong to the log. `Sequencer` refines
it with `head <- lock`, `visible <- pub`, `promised <- scts`.

### `SequencerInv` and the proof modules

`SequencerInv` has the inductive invariant of `Sequencer`, which a run checks as
well. `TilesProofs`, `SequencerProofs`, `EdgeProofs`, `PoolProofs`, `LockProofs`,
`S3Proofs`, `NotesProofs` and `EncodingsProofs` each extend the module they are
about and have its invariant, lemmas and theorems; see below.

### `SequencerLive`

`Sequencer` with a variable `calm`: nothing fails any more. Fairness is stated
here.

### `Edge`

`Log.edgeTiles` hash by hash. A hash is its position in the tree, a tile the
positions it holds. `Begin`, `AddLeaf`, `StageLeftover`, `StageTiles`,
`Commit` and `Drop` are the stretches of `sequencePool`; `Load` is what
`LoadLog` keeps of the tiles that `tlog.TileHashReader` saves. `Found` is
`hashReader`: the overlay of this round first, then the edge the round started
from. sequencePool's comment on the merge of the new tiles into the edge, "this
tile should always be further right than the one in edgeTiles, but double check",
is a fact: the check never fails (`RightMostNew` in `EdgeProofs`).

### `Submit` and `Pool`

`Submit` has what `addChainOrPreChain` computes: which validated chains are
refused, the `PendingLogEntry`, the deduplication key, and what an SCT signs. A
certificate is a record of the names, the key and the kind that these depend on;
`ExpectedEntry` is RFC 6962's definition, from the client's side.

`Pool` has the requests, `uploadIssuer`, `addLeafToPool`, the wait functions,
`sequence`, `RunSequencer` and the cache, with a step for each stretch that holds
`poolMu` and for each point of `sequencePool` that a submission can see. In
particular `Close`, which releases the waiters, and `Clear`, which resets
`inSequencing`, are two steps: in between, a resubmission still joins the pool
that has just been closed. If that pool failed, it gets the old error once more,
which `ctlog_test.go:295` ("the failed entry in the inSequencing pool is not
picked up") does not expect of a resubmission at once; nothing worse comes of it.
An `uploadIssuer` that reaches the network holds `issuersMu` until it is done, so
it is one step, with the outcomes of its `Upload`. A `Replace` that was reported
as failed takes effect then or never; that it may do so after the restart is for
`Sequencer`.

### `Process`

`Pool` inside the process: two sequencers in an errgroup, the interrupt, the
shutdown of the server, exit and restart. Fairness is stated here.

### `LockBackend`, `CASRegister`

The three backends by the steps of a call. SQLite: the statement, and then the
number of changed rows, on a connection that all logs of the process share.
DynamoDB and S3: attempts on a network, repeated by the SDK, each of which the
service may apply at any time or never. `CASRegister` is the abstract
specification: a call takes effect at most once, only on the checkpoint its
caller knew, and has done so when it returns without an error. These are the
outcomes that `Sequencer` gives to `Lock.Replace` and `Lock.Create`.

### `Encodings`, `Notes`, `ECDSA`, `Formats`

What the log writes for others. `Encodings` is byte by byte, with bytes of two
bits: every field keeps its number of bytes. `Notes` has the text of a checkpoint
line by line and its signatures, with perfect cryptography. `ECDSA` is the
arithmetic of package `rfc6979`, over curves of order 13 and 7 with bytes of two
bits: one order is a whole number of bytes and more than the field's 11 elements,
the other is neither, so that the abscissa of a nonce's point is reduced, also to
0, which `signNISTEC` refuses. `Formats` composes the three, which do not
interact, and gives TLC an instance. `ECDSA` is model-checked only; see below.

In `Notes` a line of base64 is the hash it decodes to, the number of bytes, -1 if
it does not decode, and whether it is the canonical encoding. The limit on the
size of a checkpoint and the newline at its end are `note.Open`'s business too,
and are left out, as is a timestamp past the largest `int64`, which
`RFC6962SignatureTimestamp` refuses and no clock shows.

### `S3Upload`

One call of `S3Backend.Upload`: the two PUTs, the hedge goroutine, the channel
between them, the client's retries, the cancellation, and the caller's deadline.

## The runs

| Run | Bounds | States | Shows |
|---|---|---|---|
| `sequencer_one` | 1 instance, 2 certificates, 3 leaves, 3 clock values, rounds of up to 2, tiles of 2, 1 late request (`Replace`, staging or tile) | 870 000 | all safety properties, and refinement of the exclusive `CTLog` |
| `sequencer_two` | 2 instances, 1 certificate, 2 leaves, 3 clock values, 1 late request (`Replace` or checkpoint) | 516 000 | the inductive invariant; refinement of the shared `CTLog` |
| `sequencer_live` | 1 instance, 2 leaves, 4 clock values | 116 000 | what is committed gets published |
| `edge` | tiles of 4, 70 leaves (four levels), rounds of up to 9 | 5 800 | the edge suffices; uploads are exact |
| `pool` | 3 requests, 7 chains (4 accepted, 3 of them for one precertificate), pools of 2 | 1 140 000 | SCTs, issuers, cache, duplicates |
| `process_live` | 2 requests, 2 chains, no limit, 2 logs | 24 000 | everyone is answered; a stopped log ends the process |
| `lock` | 2 logs, 3 instances, 2 processes, 3 calls of 2 attempts | 317 000 | each backend implements `CASRegister` |
| `formats` | 2 leaves of 28; 2 checkpoints and all pairs of their parts; all keys, digests and nonces of 2 curves | 495 000 | read back, told apart, opened, verified |
| `s3_upload` | one upload | 1 200 | success is real, nothing is sent after it, the call ends |
| `sequencer_create` | | | **violated**: `LogCreated` |
| `sequencer_regress` | | | **violated**: `SCTsPublished` |
| `s3_hedge` | | | **violated**: `ErrorOnlyIfFailed` |

**Why the bounds are enough.** With tiles of 2, a tree of 3 leaves has a full
data tile and a partial one, a full and a partial tile at level 0 and a partial
one at level 1, and rounds of up to 2 leaves cross a tile boundary from either
side. Three clock values are a creation and two rounds, so that a round can run
on top of one that was committed and not published, or whose `Replace` was
reported as failed. One late request is enough for every pair of a stale write
and a newer one. `MaxStaged` cuts off states with more than two staging objects,
most of them leftovers of failed rounds that no instance ever reads. The proofs
have none of these limits. In `edge`, 70 leaves in tiles of 4 (the fourth level
starts at 64) put a partial tile under a full one, and a full one under a
partial one, at all levels. In `pool`, three requests are a submission, its
duplicate and a bystander; the full pool is reached with two; the chains are a
precertificate under a CA, under the CA's Precertificate Signing Certificate and
under a CA of the same name with another key, and a final certificate. In `lock`,
three calls are a creation and two replacements that conflict, or a replacement
in each of two logs. In `formats`, indexes and times are at and past the limits
of their fields, and the digests are longer and shorter than the orders.

**Deadlock** is checked except in `sequencer_live` and `sequencer_create`, where
the clock ends at `MaxTime` and a log whose creation failed half-way has nothing
left to do, in the two runs of `s3_upload`, as a single call ends, in `lock`,
where the calls are bounded, and in `formats`, where nothing is left to do with
what has been read.

**Fairness.** `SequencerLive`: weak fairness of what an instance does when
nothing fails, as the ticker keeps firing, every round has a timeout, and the
process is restarted when it exits (`main` exits with status 1,
`rome/sunlight.service` has `Restart=on-failure`); and from some time on nothing
fails. Late requests may land or not. Since a bounded clock would otherwise run
out, nothing is signed after `StableTime < MaxTime` until the faults have
stopped. `Process`: weak fairness of the rounds, of a sequencer that has stopped
or whose context is done, of each request's steps (an upload of an issuer ends,
by the retries of its client), of `Shutdown` once all sequencers have returned,
and of the exit once the requests in flight have ended. Not of signals, fatal
errors, kills and restarts, nor of the ten seconds after which `Shutdown` gives
up: they are not needed. `S3Upload`: both
goroutines run, the caller's context ends at some time (`sequenceTimeout`), and
`PutObject` returns when its context has ended; no PUT need ever be applied.

### What the violations show

- `sequencer_create`. `CreateLog` writes the lock and then the bucket. If the
  second write fails, later starts find the lock ("log exists") and no
  checkpoint to load, for ever: the operator has to repair the stores by hand.
  `main.go` promises that "on the inception date, the log will be created if it
  doesn't exist".
- `sequencer_regress`. Publication is an unconditional PUT. A copy that was
  abandoned (a hedge, or a PUT canceled by a timeout) may land after the next
  round's checkpoint, and until the round after that the public tree lacks
  leaves whose SCTs are out. The log does not fork: `PublishedConsistent` holds
  all the same.
- `s3_hedge`. The hedge cancels the main PUT when it *ends*, not when it
  succeeds, and its error wins over the main PUT's success.

The first run's exclusive refinement holds for the same reason that the second
violation exists: `sequencer_one` leaves checkpoint uploads out of `LateOps`, and
says exactly what is lost when they are in.

## The proofs

All theorems are about every value of the constants: any set of instances,
requests or clients, any certificates, any tile height and number of levels, any
bound of the runs. Those that state a property of a run have its name here.

| Module | Theorem | States |
|---|---|---|
| `SequencerProofs` | `TypeCorrect`, `Invariance` | `TypeOK`, and the inductive invariant `Inv` |
| | `AlwaysReadable`, `NeverForks`, `AlwaysRecoverable`, `PromisesKept`, `TimesInOrder` | `PublishedReadable`, `PublishedConsistent`, `Recoverable`, `SCTsHonoured`, `CheckpointsWellTimed` |
| | `LockIsAppendOnly`, `TilesAreImmutable` | the action properties |
| | `SequencerImplementsSharedLog` | `ImplementsSharedLog`: whatever instances run, whatever lands late |
| | `SCTsVisible`, `SequencerImplementsSoleLog` | `SCTsPublished` and `ImplementsSoleLog`, for a sole writer |
| `TilesProofs` | `NewTilesSuffice`, `NewTilesOnly`, `NewTilesAreNew` | the tiles of the new tree are those of the old and the ones staged; nothing else is staged, and nothing twice |
| `EdgeProofs` | `EdgeTypeCorrect`, `HashesAlwaysFound`, `UploadsAreExact`, `DataTileIsRight`, `ReloadsAgree`, `EdgeTilesAreRight` | all that the run `edge` checks: `TypeOK`, `EveryHashFound`, `UploadsExact`, `DataTileRight`, `ReloadAgrees`, `EdgeTilesRight` |
| `PoolProofs` | `PoolTypeCorrect`, `AnswersAreRight`, `IssuersAreStored`, `ResultsAreThere`, `CacheIsRight`, `DuplicatesAreExcused` | all that the run `pool` checks: `TypeOK`, `AnswersRight`, `IssuersStored`, `ResultNeverMissing`, `CacheRight`, `DuplicatesExcused` |
| `LockProofs` | `LockTypeCorrect`, `HandlesStayUsable`, `BackendsImplementRegister` | `TypeOK`, `HandleUsable`, and `ImplementsRegister`, the refinement of `CASRegister` |
| `S3Proofs` | `UploadPersists`, `NothingSentAfterReturn` | `OkIsPersisted`, `NoneSentLater` |
| `NotesProofs` | `OnlySignedCheckpointsOpen`, `SignedCheckpointsOpen`, `TextsAreCovered` | all that the run `formats` checks of checkpoints: `OnlySignedOpens`, `CheckpointsOpen`, `TextCovered`, of `NoteSpec` |
| `EncodingsProofs` | `TilesReadBack`, `HashesTellApart` | all that the run `formats` checks of leaves: `LeavesReadBack`, `HashedDistinctly`, of `TileSpec` |

**Assumptions.** TLC evaluates all of them on the runs.

- `TilesAssumption`: the width is at least 2, and powers of it are positive
  naturals. `PowersAssumption`: the laws of powers of 2 and of the width that the
  proofs of `Edge` use; the provers know none. `EdgeAssumption`: the width is 2 to
  the tile height, and the levels are enough for the largest tree.
- `SequencerAssumption`: `None` is not a checkpoint, bounds are naturals, late
  requests are of the known kinds. `SoleWriter` is not assumed but the hypothesis
  of the two theorems that need it: one instance, and no checkpoint uploads among
  the late requests. The violation `sequencer_regress` shows that the second part
  is needed, and with a second instance a slow publication does the same.
- `PoolAssumption`: the size limit of a pool is a natural.
  `ChainsAssumption`: a validated chain is not empty, each certificate is issued
  by the next one, and a Precertificate Signing Certificate is not issued by
  another one. The first two are what `ctfe.ValidateChain` returns, the third is
  RFC 6962's rule; `addChainOrPreChain` looks one certificate up only.
- `LockAssumption`: the backends are the three known ones, bounds are naturals,
  and `"free"`, the state of the mutex, is not a client.
- `TreesAssumption`: a tree head has a natural size and a hash. `KeysAssumption`:
  the other log's keys are not this log's, and the bound of the clock is a natural.
- `EncodingsAssumption`: a byte has more than three values, a fingerprint is not
  empty, and the laws of the powers of a byte's base, up to the eighth.
  `EntriesAssumption`: an entry's fields fit their length prefixes (cryptobyte's
  `Builder` panics otherwise) and its time an `int64`; a final certificate has no
  issuer key hash and no precertificate, which `AppendTileLeaf` would drop; and
  the types of unknown extensions are not the one of `leaf_index`. An index need
  not fit its 40 bits: `MarshalExtensions` checks that itself.

**`Sequencer`.** None of the properties is inductive: that the published tree is
readable depends on what every instance is about to upload, and on requests that
nobody remembers. The invariant `Inv` (`SequencerInv`) has three layers.

1. `RequestOK`: every request, whoever issued it and whenever, is harmless if it
   lands now. A late tile is a tile of the committed tree; a late checkpoint is
   committed and complete; a late `Replace` either finds the lock changed, or
   leads to a successor whose bundle is staged; a late bundle restores its tree.
2. `StoreInv`: therefore the stores are only ever extended. The stored tiles are
   those of the committed tree; every staging bundle, with the stored tiles,
   completes its tree. The latter is why the empty bundle of an empty round does
   no harm: the round started from a complete tree.
3. `InstanceInv`: what an instance learns from the stores is true when it learns
   it, and stays true as the stores are extended (the lemmas `...Persists`).

Each action is then a local matter: the lemma `EffectSafe` deals with the store,
one lemma per group of actions (`CreateSafe`, `LoadSafe`, `ApplySafe`,
`StartRoundSafe`, `CommitSafe`, `FinishSafe`) with the instance that moves, and
`OthersPersist` with the others.

*The refinements.* Every request that takes effect, on time or late, is one step
of `CTLog` or none (`EffectRefines`), which is why `Successor` in the invariant
says that new leaves carry the time of the new checkpoint, and why an instance
that has loaded knows that something is published. For a sole writer the
invariant `SoleInv` adds where the instance stands relative to the published
checkpoint, so that a publication never takes the visible tree back, and a round
finishes only on top of what it has published.

**`Edge`.** The invariant `EdgeOK(m, e, d)` says of the edge of a tree of *m*
leaves that every tile in it is the right-most of its level, and that no level of
`Needed(m)` is missing: those that are partial, and the full ones under the
lowest partial one. Other full tiles may be there (a round leaves them) or not
(`LoadLog` does not read them). `RoundOK` is what a round knows at each of its
stages. The argument is arithmetic.

- A perfect subtree that the tree splits into lies in a *partial* tile
  (`SubTreeTile`: an odd number of halves of a tile is not a whole number of
  tiles), and every partial tile has one (`OddBit`). So `LoadLog` reads exactly
  `Needed` (`EdgeReadIs`).
- A hash that a round reads, of a sibling, for the tree head or for a tile it
  widens, is completed in the round, or is such a subtree of the *old* tree, or
  in its partial tile (`OddFound`, `TileDataFound`).
- A level needed after the round was needed before or has grown
  (`NeededGrows`), and one that has grown gets its right-most tile
  (`RightMostNew`).

Induction over levels and bits is by least counterexample (`Smallest`), from the
well-foundedness of the naturals.

**`Pool`.** `Inv` in `PoolProofs` says, among others: what a pool with a result
says of its entries is what the tree has (`PoolInv`); what a request waits for,
or was told, is the entry of its own chain, by its cache hash (`RequestsInv`);
the issuers of every pending entry are stored (`IssuersInv`); every hash of the
tree is in the cache, about to be put there, or lost to a failed `cachePut` or a
crash (`CacheInv`); and the cache, the pool that is sequenced and the current
pool have no hash in common (`FreshInv`). The last two are what `CacheRight` and
`DuplicatesExcused` need, and they hold because `addLeafToPool` looks in all
three places without letting go of `poolMu`, and because `Clear` comes after
`cachePut`. That the index of the SCT is the one of the leaf needs all of them.

**`LockBackend`.** The checkpoints of a log are signed in the order in which they
are written, so a body, or an ETag, that is no longer the latest never is again:
`Known` relates what a client, a call or a request in the network remembers of a
cell to what is there, and is kept as cells advance (`KnownPersists`). So an
attempt that is repeated or late cannot take effect twice, and comparing bodies
and comparing ETags come to the same (`MatchesBody`). For SQLite, `changes` is
the caller's own as long as it holds the mutex of the connection.

**`S3Upload`.** `OkInv`: a success that the sender of a PUT, the channel or the
caller has heard of is one of a PUT that was applied. `SendInv`: when the call has
returned, its context has ended or is about to be canceled by a hedge that is over
and has nothing more to send; what could still send looks at the context first.

**`Notes`.** `SignedInv`: what is in `signed` was made by `signTreeHead`. In any
order, its signatures are the two and the grease (`SignTreeHeadSigs`), and the
algorithm in the key hash tells the two apart, so that the one a verifier finds
is its own (`SignedOpens`). Conversely, among all parts that notes are put
together from, a signature with the log's key hash that verifies for *some* tree
and its own timestamp is one that the log made for that tree and time
(`OnlySignedVerifies`): the signed message has the tree head and the time, so
neither the text nor the timestamp can be exchanged. The message does not have the
text itself. For `TextCovered`, a text that parses is put together again from what
`ParseCheckpoint` makes of it (`Reassembled`), the verifier lets no extension
through, and so what is left is the text of the tree that was signed
(`AcceptedIsSigned`), for whatever was received (`ReceivedInv`). That `ParseInt`
reads back what `FormatInt` writes, for every size, is `SizeReadBack`.

**`Encodings`.** What is written is a concatenation, what reads it are loops.
`TileInv` says that the leaves written are in range, that there is an offset for
each of them at which its bytes begin (`Offsets`), and that the extensions of an
SCT are some unknown ones followed by the `leaf_index` (`Extensions`).

- `After(r, s, t, c)`: the reader *r* has read *s* and has *t* before it, of which
  the last bytes *c* are missing. It is what each field hands to the next
  (`ReadAfter`, `ReadPrefixedAfter`, `SignedRead`), so that one proof has a whole
  leaf read back and another one that of a leaf that was cut anywhere
  (`TileLeafRead`): a read fails only if bytes it needs are missing, and once one
  has failed all do. `TileRead` puts the leaves together: the first *n* bytes of a
  tile are read as the leaves that are whole in them, and then fail, unless all
  of them are.
- A number of up to eight bytes is read as it was written (`FromUintIs` and the
  lemmas after it), which is where the powers are needed, and where `InRange` is:
  an index of 41 bits would be read as another one.
- For the hashes: every field of `MerkleTreeLeaf` and of `computeCacheHash` has a
  fixed length or a length prefix, so equal inputs have equal fields, one after
  the other (`SignedSame`). The types of the two kinds of entry differ before
  anything of another length comes.

What the loops compute is shown without induction over data: a recursive function
is given in closed form, and the least index at which it would differ does not
exist (`FlattenIs`, `ReadTileIs`, `ParseExtensionsIs`). In `Notes`, where there is
no closed form, the tables of the numbers up to *n* exist and agree
(`DecimalsExist`, `DecimalsAgree`), and together are `FormatInt`.

**Only model-checked.** Liveness (`sequencer_live`, `process_live`, the end of an
upload in `s3_upload`), which is out of the prover's reach, and with it the
module `Process`, whose properties are all of that kind; and `ECDSA`, whose
properties rest on inverses modulo a prime and on the points of a curve, of which the
provers know nothing.

## Not modelled

- Chain validation (`ctfe.ValidateChain`, a library), `get-roots`, HTTP status
  codes, JSON and base64, compression, metrics, logs, the home page, reading of
  the configuration, key generation: they change no state of the log.
- Cryptography: hashes are injective, signatures exist only if they were made,
  and the HMAC construction of RFC 6979 gives any candidate. That signatures are
  deterministic, on which the equality of repeated SCTs rests, can be seen from
  the arguments of `rfc6979DRBG`.
- The RSA branch of `NewRFC6962Verifier`, which no log of this program uses. It
  hands the whole note signature instead of the signature inside it to
  `VerifyPKCS1v15` (`checkpoint.go:145`), so no RSA tree head would verify.
- A 41-bit leaf index: `MarshalExtensions` refuses it, and `AppendTileLeaf`
  panics. `LeavesReadBack` is about what is written up to there.
- Several logs in one process share the lock database's connection
  (`LockBackend`), the errgroup (`Process`) and nothing else.

## Plan

Done: all modules above; the proofs of every safety property of `Sequencer`,
`Edge`, `Pool`, `LockBackend`, `S3Upload`, `Notes` and `Encodings`, and of the
three refinements.

Left is the composition of `Pool` with `Sequencer`'s rounds: `Pool`'s view of a
round as an abstraction of `sequencePool`.
