---------------------------- MODULE LockBackend -----------------------------
(***************************************************************************)
(* The three lock backends: SQLite, with a connection and a mutex that all *)
(* logs of a process share; DynamoDB and S3 with ETags, over a network on  *)
(* which the SDK sends an attempt again that was not answered in time,     *)
(* although the first may still arrive, late or never.                     *)
(*                                                                         *)
(* Clients are the Log instances.  They call what CreateLog, LoadLog and   *)
(* sequencePool call: Create, Fetch, and Replace of the checkpoint that    *)
(* Fetch or the last Replace returned.  After an error the process ends    *)
(* and its successor has to Fetch.                                         *)
(***************************************************************************)
EXTENDS Naturals, FiniteSets

CONSTANTS Clients,       \* Log instances
          LogOf,         \* the log of each
          ProcOf,        \* the process of each
          Kinds,         \* the backends to consider
          MaxBody,       \* bound on the calls of Create and Replace
          MaxAttempts    \* of the SDK's retryer, for one call

ASSUME LockAssumption ==
    /\ Kinds \subseteq {"sqlite", "dynamodb", "etag"}
    /\ MaxBody \in Nat /\ MaxAttempts \in Nat \ {0}
    /\ "free" \notin Clients

VARIABLES
    kind,      \* the backend in use
    store,     \* the row, item or object of each log, with its ETag
    handle,    \* the LockedCheckpoint of each client
    call,      \* the Create or Replace each client is in
    flight,    \* attempts that have not reached the service
    mu,        \* who holds b.mu, in each process
    changes,   \* b.conn.Changes(), in each process
    \* Ghost
    ops,       \* the calls made
    applied,   \* those that took effect
    acked      \* those that returned without an error

vars == <<kind, store, handle, call, flight, mu, changes, ops, applied, acked>>

-----------------------------------------------------------------------------

Logs == {LogOf[c] : c \in Clients}
Procs == {ProcOf[c] : c \in Clients}
Bodies == 1 .. MaxBody

\* A checkpoint and its ETag; a version that every write renews.
Absent == [body |-> 0, eTag |-> 0]

Op == [log : Logs, old : 0 .. MaxBody, new : Bodies]
NoCall == [new |-> 0]

Init ==
    /\ kind \in Kinds
    /\ store = [l \in Logs |-> Absent]
    /\ handle = [c \in Clients |-> Absent]
    /\ call = [c \in Clients |-> NoCall]
    /\ flight = {}
    /\ mu = [p \in Procs |-> "free"]
    /\ changes = [p \in Procs |-> 0]
    /\ ops = {} /\ applied = {} /\ acked = {}

\* The condition under which the statement or request with this call's
\* arguments takes effect: WHERE body = ?, checkpoint = :old, If-Match; and
\* ON CONFLICT DO NOTHING, attribute_not_exists, If-Match "".
Matches(k) ==
    IF kind = "etag" THEN store[k.log].eTag = k.eTag ELSE store[k.log].body = k.old

OpOf(k) == [log |-> k.log, old |-> k.old, new |-> k.new]

Apply(k) ==
    IF Matches(k)
    THEN /\ store' = [store EXCEPT ![k.log] = [body |-> k.new, eTag |-> @.eTag + 1]]
         /\ applied' = applied \cup {OpOf(k)}
    ELSE UNCHANGED <<store, applied>>

-----------------------------------------------------------------------------
(* The caller's side.                                                      *)

\* The reads are consistent, and under b.mu.
Fetch(c) ==
    /\ call[c] = NoCall /\ handle[c] = Absent
    /\ kind = "sqlite" => mu[ProcOf[c]] = "free"
    /\ store[LogOf[c]] # Absent
    /\ handle' = [handle EXCEPT ![c] = store[LogOf[c]]]
    /\ UNCHANGED <<kind, store, call, flight, mu, changes, ops, applied, acked>>

Begin(c, old) ==
    LET new == Cardinality(ops) + 1
        k == [log |-> LogOf[c], old |-> old.body, eTag |-> old.eTag, new |-> new,
              n |-> 1, resp |-> "none", newETag |-> 0]
    IN  /\ call[c] = NoCall
        /\ new <= MaxBody
        /\ call' = [call EXCEPT ![c] = k]
        /\ ops' = ops \cup {OpOf(k)}
        /\ flight' = IF kind = "sqlite" THEN flight ELSE flight \cup {k}
        /\ UNCHANGED <<kind, store, handle, mu, changes, applied, acked>>

Create(c) == handle[c] = Absent /\ Begin(c, Absent)

Replace(c) == handle[c] # Absent /\ Begin(c, handle[c])

\* (Mutant: the checkpoint that Replace returns has the old ETag.)
SucceedStale(c) ==
    /\ handle' = [handle EXCEPT ![c] =
            IF call[c].old = 0 THEN @ ELSE [body |-> call[c].new, eTag |-> @.eTag]]
    /\ call' = [call EXCEPT ![c] = NoCall]
    /\ acked' = acked \cup {OpOf(call[c])}

\* Create returns no checkpoint.
Succeed(c) ==
    /\ handle' = [handle EXCEPT ![c] =
            IF call[c].old = 0 THEN @ ELSE [body |-> call[c].new, eTag |-> call[c].newETag]]
    /\ call' = [call EXCEPT ![c] = NoCall]
    /\ acked' = acked \cup {OpOf(call[c])}

GiveUp(c) ==
    /\ handle' = [handle EXCEPT ![c] = Absent]
    /\ call' = [call EXCEPT ![c] = NoCall]
    /\ UNCHANGED acked

-----------------------------------------------------------------------------
(* SQLite.  The statement and the count of the rows it changed are two     *)
(* calls on one connection.                                                *)

Executed(c, resp) ==
    call' = [call EXCEPT ![c].resp = resp, ![c].newETag = store'[LogOf[c]].eTag]

Exec(c) ==
    /\ kind = "sqlite"
    /\ call[c] # NoCall /\ call[c].resp = "none"
    /\ \/ /\ Apply(call[c])
          /\ changes' = [changes EXCEPT ![ProcOf[c]] = IF Matches(call[c]) THEN 1 ELSE 0]
          /\ Executed(c, "done")
       \/ \* It fails, and may have been committed all the same.
          /\ UNCHANGED <<store, applied>> \/ Apply(call[c])
          /\ Executed(c, "error")
          /\ UNCHANGED changes
    /\ UNCHANGED <<kind, handle, flight, ops, acked>>

\* (Mutant: b.mu is not taken.)
SQLiteExecUnlocked(c) == Exec(c) /\ UNCHANGED mu

SQLiteExec(c) ==
    /\ mu[ProcOf[c]] = "free"
    /\ Exec(c)
    /\ mu' = [mu EXCEPT ![ProcOf[c]] = c]

SQLiteReturn(c) ==
    /\ kind = "sqlite"
    /\ call[c] # NoCall /\ call[c].resp # "none"
    /\ IF call[c].resp = "error" \/ changes[ProcOf[c]] = 0 THEN GiveUp(c) ELSE Succeed(c)
    /\ mu' = [mu EXCEPT ![ProcOf[c]] = "free"]
    /\ UNCHANGED <<kind, store, flight, changes, ops, applied>>

-----------------------------------------------------------------------------
(* DynamoDB and S3.                                                        *)

\* An attempt reaches the service.  The SDK only listens to its latest.
Serve(k) ==
    /\ k \in flight
    /\ flight' = flight \ {k}
    /\ Apply(k)
    /\ call' = [c \in Clients |->
          IF call[c] = k
          THEN [k EXCEPT !.resp = IF Matches(k) THEN "ok" ELSE "conflict",
                         !.newETag = store'[k.log].eTag]
          ELSE call[c]]
    /\ UNCHANGED <<kind, handle, mu, changes, ops, acked>>

\* (Mutant: there is no limit to the attempts.)
RetryForever(c) ==
    /\ kind # "sqlite"
    /\ call[c] # NoCall
    /\ LET k == [call[c] EXCEPT !.n = @ + 1, !.resp = "none", !.newETag = 0]
       IN  call' = [call EXCEPT ![c] = k] /\ flight' = flight \cup {k}
    /\ UNCHANGED <<kind, store, handle, mu, changes, ops, applied, acked>>

\* The latest attempt, or its answer, is lost or late: the SDK tries again.
Retry(c) ==
    /\ kind # "sqlite"
    /\ call[c] # NoCall /\ call[c].n < MaxAttempts
    /\ LET k == [call[c] EXCEPT !.n = @ + 1, !.resp = "none", !.newETag = 0]
       IN  call' = [call EXCEPT ![c] = k] /\ flight' = flight \cup {k}
    /\ UNCHANGED <<kind, store, handle, mu, changes, ops, applied, acked>>

ServiceReturn(c) ==
    /\ kind # "sqlite"
    /\ call[c] # NoCall /\ call[c].resp = "ok"
    /\ Succeed(c)
    /\ UNCHANGED <<kind, store, flight, mu, changes, ops, applied>>

\* The condition failed, the attempts or the time are used up, or the answer
\* has no ETag.
ServiceErr(c) ==
    /\ kind # "sqlite"
    /\ call[c] # NoCall
    /\ GiveUp(c)
    /\ UNCHANGED <<kind, store, flight, mu, changes, ops, applied>>

-----------------------------------------------------------------------------

Next ==
    \/ \E c \in Clients :
          \/ Fetch(c) \/ Create(c) \/ Replace(c)
          \/ SQLiteExec(c) \/ SQLiteReturn(c)
          \/ Retry(c) \/ ServiceReturn(c) \/ ServiceErr(c)
    \/ \E k \in flight : Serve(k)

Spec == Init /\ [][Next]_vars

-----------------------------------------------------------------------------
(* Properties.                                                             *)

(* Every variable has its type.                                            *)
TypeOK ==
    /\ kind \in Kinds
    /\ \A l \in Logs : store[l].body \in 0 .. MaxBody /\ store[l].eTag \in 0 .. MaxBody
    /\ \A c \in Clients : handle[c].body \in 0 .. MaxBody /\ handle[c].eTag \in 0 .. MaxBody
    /\ \A c \in Clients : call[c] = NoCall \/ OpOf(call[c]) \in ops
    /\ \A k \in flight : OpOf(k) \in ops /\ k.n \in 1 .. MaxAttempts
    /\ \A p \in Procs : mu[p] \in {"free"} \cup {c \in Clients : ProcOf[c] = p}
    /\ \A p \in Procs : changes[p] \in {0, 1}
    /\ ops \subseteq Op /\ applied \subseteq ops /\ acked \subseteq ops

Register ==
    INSTANCE CASRegister WITH
        reg   <- [l \in Logs |-> store[l].body],
        known <- [c \in Clients |-> handle[c].body],
        calls <- [c \in Clients |-> IF call[c] = NoCall THEN NoCall ELSE OpOf(call[c])]

(* Each backend is a register with compare-and-swap: whatever is retried,  *)
(* duplicated or late, and whichever logs share a connection, a call takes *)
(* effect at most once, replaces only the checkpoint its caller knew, and  *)
(* reports success only if it did.                                         *)
ImplementsRegister == Register!RegSpec

(* The checkpoint that Fetch or Replace returned can be replaced as long   *)
(* as it is the latest: nothing else than another checkpoint makes the     *)
(* next Replace fail, which would be fatal to the sequencer.               *)
HandleUsable ==
    \A c \in Clients :
        (handle[c] # Absent /\ handle[c].body = store[LogOf[c]].body) =>
            handle[c] = store[LogOf[c]]
=============================================================================
