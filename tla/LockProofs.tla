----------------------------- MODULE LockProofs -----------------------------
(***************************************************************************)
(* Proofs about LockBackend, for any number of clients, logs, processes,   *)
(* calls and attempts: the three backends implement a register with        *)
(* compare-and-swap.                                                       *)
(*                                                                         *)
(* The checkpoints of a log are written in the order in which they were    *)
(* signed, so a body, or its ETag, that a caller has seen and that is no   *)
(* longer the latest never is again.  This is why a request that is sent   *)
(* twice, or arrives late, cannot take effect twice, and why comparing     *)
(* bodies and comparing ETags come to the same.                            *)
(***************************************************************************)
EXTENDS LockBackend, FiniteSetTheorems, TLAPS

Cell == [body : 0 .. MaxBody, eTag : Nat]

CallType == [log : Logs, old : 0 .. MaxBody, eTag : Nat, new : Bodies, n : 1 .. MaxAttempts,
             resp : {"none", "done", "error", "ok", "conflict"}, newETag : Nat]

Types ==
    /\ kind \in Kinds
    /\ store \in [Logs -> Cell] /\ handle \in [Clients -> Cell]
    /\ call \in [Clients -> CallType \cup {NoCall}]
    /\ flight \subseteq CallType
    /\ mu \in [Procs -> {"free"} \cup Clients]
    /\ \A p \in Procs : mu[p] = "free" \/ ProcOf[mu[p]] = p
    /\ changes \in [Procs -> {0, 1}]
    /\ ops \subseteq Op /\ IsFiniteSet(ops)
    /\ applied \subseteq ops /\ acked \subseteq ops

\* Body b, of ETag e, is or was in the cell: it is the latest by its body if
\* and only if it is by its ETag.
Known(s, b, e) ==
    /\ b <= s.body /\ e <= s.eTag
    /\ b = s.body <=> e = s.eTag

\* A cell is left alone, or both its body and its ETag advance.
Later(s, t) == s = t \/ (s.body < t.body /\ s.eTag < t.eTag)

\* A new checkpoint is later than all that were signed before it.
OpsInv ==
    /\ \A o \in ops : o.old < o.new /\ o.new <= Cardinality(ops)
    /\ \A o, q \in ops : o.new = q.new => o = q

CellsInv ==
    /\ \A l \in Logs : /\ store[l].eTag <= store[l].body /\ store[l].body <= Cardinality(ops)
                       /\ Known(store[l], 0, 0)
    /\ \A o \in applied : o.new <= store[o.log].body

HandleInv == \A c \in Clients : Known(store[LogOf[c]], handle[c].body, handle[c].eTag)

\* A request that was sent, and may take effect.
Sent(k) == OpOf(k) \in ops /\ Known(store[k.log], k.old, k.eTag)

\* One that has, with the ETag the caller is told.
Took(k) == OpOf(k) \in applied /\ Known(store[k.log], k.new, k.newETag)

CallInv(c) ==
    LET k == call[c]
    IN  k # NoCall =>
          /\ k.log = LogOf[c] /\ Sent(k)
          /\ kind = "sqlite" => k.resp \in {"none", "done", "error"}
          /\ kind = "sqlite" /\ k.resp # "none" => mu[ProcOf[c]] = c
          /\ kind = "sqlite" /\ k.resp = "done" /\ changes[ProcOf[c]] = 1 => Took(k)
          /\ kind # "sqlite" /\ k.resp = "ok" => Took(k)

LockInv ==
    /\ Types /\ OpsInv /\ CellsInv /\ HandleInv
    /\ kind = "sqlite" => flight = {}
    /\ \A k \in flight : Sent(k)
    /\ \A c \in Clients : CallInv(c)

-----------------------------------------------------------------------------
(* Records.                                                                *)

LEMMA CellType ==
    /\ \A s \in Cell : s.body \in Nat /\ s.body <= MaxBody /\ s.eTag \in Nat
                       /\ s = [body |-> s.body, eTag |-> s.eTag]
    /\ Absent \in Cell /\ Absent.body = 0 /\ Absent.eTag = 0
BY LockAssumption DEF Cell, Absent

LEMMA CallFields ==
    ASSUME NEW k \in CallType
    PROVE  /\ k # NoCall
           /\ k.log \in Logs /\ k.old \in Nat /\ k.eTag \in Nat /\ k.new \in Nat /\ k.new # 0
           /\ k.new <= MaxBody /\ k.newETag \in Nat
           /\ OpOf(k) \in Op
           /\ OpOf(k).log = k.log /\ OpOf(k).old = k.old /\ OpOf(k).new = k.new
BY LockAssumption DEF CallType, NoCall, Bodies, OpOf, Op

LEMMA OpFields ==
    ASSUME NEW o \in Op
    PROVE  o.log \in Logs /\ o.old \in Nat /\ o.new \in Nat /\ o.new <= MaxBody
BY LockAssumption DEF Op, Bodies

LEMMA ClientPlaces ==
    ASSUME NEW c \in Clients
    PROVE  LogOf[c] \in Logs /\ ProcOf[c] \in Procs
BY DEF Logs, Procs

(* What is known of a cell stays known.                                    *)
LEMMA KnownPersists ==
    ASSUME NEW s \in Cell, NEW t \in Cell, Later(s, t), NEW b \in Nat, NEW e \in Nat, Known(s, b, e)
    PROVE  Known(t, b, e)
BY CellType DEF Later, Known

(* Whichever the backend compares, a request takes effect exactly if its   *)
(* caller knew the latest body.                                            *)
LEMMA MatchesBody ==
    ASSUME NEW k, Sent(k)
    PROVE  Matches(k) <=> store[k.log].body = k.old
BY DEF Sent, Known, Matches

-----------------------------------------------------------------------------
(* What every step does to the cells.                                      *)

Advances ==
    /\ \A l \in Logs : Later(store[l], store'[l])
    /\ ops \subseteq ops' /\ applied \subseteq applied'

LEMMA CellsAlone ==
    ASSUME UNCHANGED <<store, applied>>, ops \subseteq ops'
    PROVE  Advances
BY DEF Advances, Later

(* Knowledge of a request outlives the steps of others.                    *)
LEMMA RequestPersists ==
    ASSUME Types, Types', Advances, NEW k \in CallType
    PROVE  (Sent(k) => Sent(k)') /\ (Took(k) => Took(k)')
<1>1. /\ k.log \in Logs /\ k.old \in Nat /\ k.eTag \in Nat /\ k.new \in Nat /\ k.newETag \in Nat
  BY CallFields
<1>2. store[k.log] \in Cell /\ store'[k.log] \in Cell /\ Later(store[k.log], store'[k.log])
  BY <1>1 DEF Types, Advances
<1>3. Known(store[k.log], k.old, k.eTag) => Known(store'[k.log], k.old, k.eTag)
  BY <1>1, <1>2, KnownPersists
<1>4. Known(store[k.log], k.new, k.newETag) => Known(store'[k.log], k.new, k.newETag)
  BY <1>1, <1>2, KnownPersists
<1>5. QED
  BY <1>3, <1>4 DEF Sent, Took, Advances

LEMMA HandlePersists ==
    ASSUME Types, Types', Advances, HandleInv, NEW c \in Clients
    PROVE  Known(store'[LogOf[c]], handle[c].body, handle[c].eTag)
<1>1. /\ store[LogOf[c]] \in Cell /\ store'[LogOf[c]] \in Cell
      /\ Later(store[LogOf[c]], store'[LogOf[c]])
  BY ClientPlaces DEF Types, Advances
<1>2. handle[c].body \in Nat /\ handle[c].eTag \in Nat
  BY CellType DEF Types
<1>3. QED
  BY <1>1, <1>2, KnownPersists DEF HandleInv

LEMMA CallPersists ==
    ASSUME Types, Types', Advances, NEW c \in Clients, CallInv(c), call'[c] = call[c], kind' = kind,
           \/ kind # "sqlite"
           \/ call[c] # NoCall => call[c].resp = "none"
           \/ mu'[ProcOf[c]] = mu[ProcOf[c]] /\ changes'[ProcOf[c]] = changes[ProcOf[c]]
    PROVE  CallInv(c)'
<1>1. CASE call[c] = NoCall
  BY <1>1 DEF CallInv
<1>2. CASE call[c] # NoCall
  <2>1. PICK k \in CallType : k = call[c]
    BY <1>2 DEF Types
  <2>2. (Sent(k) => Sent(k)') /\ (Took(k) => Took(k)')
    BY RequestPersists
  <2>3. /\ Sent(k)' = Sent(call[c])' /\ Took(k)' = Took(call[c])'
    BY <2>1 DEF Sent, Took, OpOf
  <2>4. QED
    BY <1>2, <2>1, <2>2, <2>3 DEF CallInv
<1>3. QED
  BY <1>1, <1>2

(* A request reaches its cell: it takes effect, for the first time, or it  *)
(* changes nothing.                                                        *)
LEMMA ApplySafe ==
    ASSUME LockInv, NEW k \in CallType, Sent(k), Apply(k), UNCHANGED ops
    PROVE  /\ store' \in [Logs -> Cell] /\ applied' \subseteq ops
           /\ Advances /\ CellsInv'
           /\ Matches(k) =>
                 /\ OpOf(k) \in applied' /\ OpOf(k) \notin applied
                 /\ store[k.log].body = k.old
                 /\ store' = [store EXCEPT ![k.log] = [body |-> k.new, eTag |-> store[k.log].eTag + 1]]
                 /\ applied' = applied \cup {OpOf(k)}
                 /\ Known(store'[k.log], k.new, store'[k.log].eTag)
           /\ ~Matches(k) => UNCHANGED <<store, applied>>
<1>0. /\ Types /\ OpsInv /\ CellsInv
      /\ k.log \in Logs /\ k.old \in Nat /\ k.eTag \in Nat /\ k.new \in Nat /\ k.new <= MaxBody
      /\ OpOf(k).log = k.log /\ OpOf(k).old = k.old /\ OpOf(k).new = k.new
      /\ OpOf(k) \in ops
  BY CallFields DEF LockInv, Sent
<1>1. CASE ~Matches(k)
  <2>1. UNCHANGED <<store, applied>>
    BY <1>1 DEF Apply
  <2>2. Advances
    BY <2>1, CellsAlone
  <2>3. QED
    BY <1>0, <1>1, <2>1, <2>2 DEF Types, CellsInv
<1>2. CASE Matches(k)
  <2>0. k.old < k.new /\ k.new <= Cardinality(ops) /\ store[k.log].body = k.old
    BY <1>0, <1>2, MatchesBody DEF OpsInv
  <2>1. PICK s \in Cell : s = store[k.log]
    BY <1>0 DEF Types
  <2>2. s.eTag \in Nat /\ s.body \in Nat /\ s.body = k.old /\ s.eTag <= s.body
    BY <1>0, <2>0, <2>1, CellType DEF CellsInv
  <2>3. PICK t : t = [body |-> k.new, eTag |-> s.eTag + 1]
    OBVIOUS
  <2>4. t \in Cell /\ t.body = k.new /\ t.eTag = s.eTag + 1
    BY <1>0, <2>2, <2>3, LockAssumption DEF Cell
  <2>5. store' = [store EXCEPT ![k.log] = t] /\ applied' = applied \cup {OpOf(k)}
    BY <1>2, <2>1, <2>3 DEF Apply
  <2>6. store' \in [Logs -> Cell] /\ store'[k.log] = t
        /\ \A l \in Logs : l # k.log => store'[l] = store[l]
    BY <1>0, <2>4, <2>5 DEF Types
  <2>7. s.body < t.body /\ s.eTag < t.eTag /\ t.eTag <= t.body
    BY <1>0, <2>0, <2>2, <2>4
  <2>8. Advances
    BY <2>1, <2>5, <2>6, <2>7 DEF Advances, Later
  <2>9. CellsInv'
    <3>1. \A l \in Logs : /\ store'[l].eTag <= store'[l].body /\ store'[l].body <= Cardinality(ops)
                          /\ Known(store'[l], 0, 0)
      <4>1. Known(t, 0, 0)
        BY <1>0, <2>0, <2>2, <2>4 DEF Known
      <4>2. QED
        BY <1>0, <2>0, <2>4, <2>6, <2>7, <4>1 DEF CellsInv
    <3>2. ASSUME NEW o \in applied'
          PROVE  o.new <= store'[o.log].body
      <4>1. CASE o = OpOf(k)
        BY <1>0, <2>4, <2>6, <4>1
      <4>2. CASE o \in applied /\ o.log # k.log
        BY <1>0, <2>6, <4>2, OpFields DEF Types, CellsInv
      <4>3. CASE o \in applied /\ o.log = k.log
        <5>1. o.new <= s.body /\ o.new \in Nat
          BY <1>0, <2>1, <4>3, OpFields DEF Types, CellsInv
        <5>2. QED
          BY <1>0, <2>2, <2>4, <2>6, <2>7, <4>3, <5>1
      <4>4. QED
        BY <2>5, <4>1, <4>2, <4>3
    <3>3. QED
      BY <3>1, <3>2 DEF CellsInv
  <2>10. OpOf(k) \notin applied
    BY <1>0, <2>0, <2>1, <2>2 DEF CellsInv
  <2>11. Known(store'[k.log], k.new, store'[k.log].eTag)
    BY <1>0, <2>2, <2>4, <2>6 DEF Known
  <2>12. applied' \subseteq ops
    BY <1>0, <2>5 DEF Types
  <2>13. QED
    BY <1>2, <2>0, <2>1, <2>3, <2>5, <2>6, <2>8, <2>9, <2>10, <2>11, <2>12
<1>3. QED
  BY <1>1, <1>2

-----------------------------------------------------------------------------
(* The steps.                                                              *)

LEMMA InitInv == Init => LockInv
<1> SUFFICES ASSUME Init PROVE LockInv
  OBVIOUS
<1>1. IsFiniteSet(ops) /\ Cardinality(ops) = 0
  BY FS_EmptySet DEF Init
<1>2. Types
  BY <1>1, CellType, LockAssumption DEF Init, Types
<1>3. OpsInv /\ CellsInv /\ HandleInv
  <2>1. Known(Absent, 0, 0)
    BY CellType DEF Known
  <2>2. QED
    BY <1>1, <2>1, ClientPlaces, CellType DEF Init, OpsInv, CellsInv, HandleInv
<1>4. QED
  BY <1>2, <1>3 DEF Init, LockInv, CallInv

(* Fetch returns the latest checkpoint.                                    *)
LEMMA FetchSafe ==
    ASSUME LockInv, NEW c \in Clients, Fetch(c)
    PROVE  LockInv'
<1>1. /\ handle' = [handle EXCEPT ![c] = store[LogOf[c]]]
      /\ UNCHANGED <<kind, store, call, flight, mu, changes, ops, applied, acked>>
  BY DEF Fetch
<1>2. store[LogOf[c]] \in Cell
  BY ClientPlaces DEF LockInv, Types
<1>3. Types'
  BY <1>1, <1>2 DEF LockInv, Types
<1>4. /\ OpsInv' /\ CellsInv' /\ (\A k \in flight' : Sent(k)')
      /\ kind' = "sqlite" => flight' = {}
  BY <1>1 DEF LockInv, OpsInv, CellsInv, Sent
<1>5. Known(store[LogOf[c]], store[LogOf[c]].body, store[LogOf[c]].eTag)
  BY <1>2, CellType DEF Known
<1>6. HandleInv'
  BY <1>1, <1>5 DEF LockInv, Types, HandleInv
<1>7. \A d \in Clients : CallInv(d)'
  BY <1>1 DEF LockInv, CallInv, Sent, Took
<1>8. QED
  BY <1>3, <1>4, <1>6, <1>7 DEF LockInv

(* A call signs a checkpoint that is later than all others.                *)
LEMMA BeginSafe ==
    ASSUME LockInv, NEW c \in Clients, Begin(c, handle[c])
    PROVE  LockInv'
<1>0. Types /\ OpsInv /\ CellsInv /\ HandleInv
  BY DEF LockInv
<1>1. PICK new : new = Cardinality(ops) + 1
  OBVIOUS
<1>2. PICK h \in Cell : h = handle[c]
  BY <1>0 DEF Types
<1>3. PICK k : k = [log |-> LogOf[c], old |-> h.body, eTag |-> h.eTag, new |-> new,
                    n |-> 1, resp |-> "none", newETag |-> 0]
  OBVIOUS
<1>4. /\ call[c] = NoCall /\ new <= MaxBody
      /\ call' = [call EXCEPT ![c] = k]
      /\ ops' = ops \cup {OpOf(k)}
      /\ flight' = IF kind = "sqlite" THEN flight ELSE flight \cup {k}
      /\ UNCHANGED <<kind, store, handle, mu, changes, applied, acked>>
  BY <1>1, <1>2, <1>3 DEF Begin
<1>5. Cardinality(ops) \in Nat /\ new \in Bodies /\ new \in Nat
  BY <1>0, <1>1, <1>4, FS_CardinalityType, LockAssumption DEF Types, Bodies
<1>6. /\ k \in CallType /\ k.log = LogOf[c] /\ k.old = h.body /\ k.eTag = h.eTag
      /\ k.new = new /\ k.resp = "none"
  BY <1>3, <1>5, CellType, ClientPlaces, LockAssumption DEF CallType, Cell
<1>7. /\ OpOf(k) \in Op /\ OpOf(k).old = h.body /\ OpOf(k).new = new
  BY <1>6, CallFields
<1>8. \A o \in ops : o.new # new /\ o.new <= new /\ o.old < o.new /\ o.new \in Nat
  BY <1>0, <1>1, <1>5, OpFields DEF OpsInv, Types
<1>9. IsFiniteSet(ops') /\ Cardinality(ops') = new
  BY <1>0, <1>1, <1>4, <1>7, <1>8, FS_AddElement DEF Types
<1>10. h.body < new /\ h.body \in Nat
  <2>1. store[LogOf[c]] \in Cell
    BY <1>0, ClientPlaces DEF Types
  <2>2. h.body <= store[LogOf[c]].body /\ store[LogOf[c]].body <= Cardinality(ops)
    BY <1>0, <1>2, ClientPlaces DEF HandleInv, Known, CellsInv
  <2>3. QED
    BY <1>1, <1>5, <2>1, <2>2, CellType
<1>11. OpsInv'
  <2>1. \A o \in ops' : o.old < o.new /\ o.new <= new
    BY <1>4, <1>5, <1>7, <1>8, <1>10
  <2>2. ASSUME NEW o \in ops', NEW q \in ops', o.new = q.new
        PROVE  o = q
    <3>1. CASE o \in ops /\ q \in ops
      BY <1>0, <2>2, <3>1 DEF OpsInv
    <3>2. CASE o = OpOf(k) \/ q = OpOf(k)
      BY <1>4, <1>7, <1>8, <2>2, <3>2
    <3>3. QED
      BY <1>4, <3>1, <3>2
  <2>3. QED
    BY <1>9, <2>1, <2>2 DEF OpsInv
<1>12. Types'
  <2>1. call' \in [Clients -> CallType \cup {NoCall}] /\ flight' \subseteq CallType
    BY <1>0, <1>4, <1>6 DEF Types
  <2>2. ops' \subseteq Op /\ applied' \subseteq ops' /\ acked' \subseteq ops'
    BY <1>0, <1>4, <1>7 DEF Types
  <2>3. QED
    BY <1>0, <1>4, <1>9, <2>1, <2>2 DEF Types
<1>13. Advances
  BY <1>4, CellsAlone
<1>14. CellsInv'
  <2>1. \A l \in Logs : store[l].body \in Nat
    BY <1>0, CellType DEF Types
  <2>2. QED
    BY <1>0, <1>1, <1>4, <1>5, <1>9, <2>1 DEF CellsInv
<1>15. HandleInv'
  BY <1>0, <1>4 DEF HandleInv
<1>16. Sent(k)'
  BY <1>0, <1>2, <1>4, <1>6 DEF Sent, HandleInv
<1>17. \A q \in flight' : Sent(q)'
  <2>1. \A q \in flight : q \in CallType /\ Sent(q)
    BY DEF LockInv, Types
  <2>2. \A q \in flight : Sent(q)'
    BY <1>0, <1>12, <1>13, <2>1, RequestPersists
  <2>3. QED
    BY <1>4, <1>16, <2>2
<1>18. ASSUME NEW d \in Clients
       PROVE  CallInv(d)'
  <2>1. CASE d = c
    <3>1. call'[d] = k
      BY <1>0, <1>4, <2>1 DEF Types
    <3>2. Sent(call[d])'
      BY <1>16, <3>1 DEF Sent, OpOf
    <3>3. QED
      BY <1>6, <2>1, <3>1, <3>2 DEF CallInv
  <2>2. CASE d # c
    <3>1. call'[d] = call[d]
      BY <1>0, <1>4, <2>2 DEF Types
    <3>2. QED
      BY <1>0, <1>4, <1>12, <1>13, <3>1, CallPersists DEF LockInv
  <2>3. QED
    BY <2>1, <2>2
<1>19. QED
  BY <1>4, <1>11, <1>12, <1>14, <1>15, <1>17, <1>18 DEF LockInv

(* The statement is executed.  Whoever else is in the process is not       *)
(* between its statement and its count of changes.                         *)
LEMMA ExecSafe ==
    ASSUME LockInv, NEW c \in Clients, SQLiteExec(c)
    PROVE  /\ LockInv'
           /\ Apply(call[c]) \/ UNCHANGED <<store, applied>>
           /\ \A d \in Clients : /\ call'[d] = NoCall <=> call[d] = NoCall
                                 /\ call[d] # NoCall => OpOf(call'[d]) = OpOf(call[d])
<1>0. Types /\ OpsInv /\ CellsInv /\ HandleInv
  BY DEF LockInv
<1>1. /\ kind = "sqlite" /\ call[c] # NoCall /\ call[c].resp = "none" /\ mu[ProcOf[c]] = "free"
      /\ mu' = [mu EXCEPT ![ProcOf[c]] = c]
      /\ UNCHANGED <<kind, handle, flight, ops, acked>>
  BY DEF SQLiteExec, Exec
<1>2. PICK k \in CallType : k = call[c]
  BY <1>0, <1>1 DEF Types
<1>3. k.log = LogOf[c] /\ Sent(k) /\ k.log \in Logs
  BY <1>1, <1>2, CallFields DEF LockInv, CallInv, Sent
<1>4. Apply(k) \/ UNCHANGED <<store, applied>>
  BY <1>2 DEF SQLiteExec, Exec
<1>5. store' \in [Logs -> Cell] /\ applied' \subseteq ops /\ Advances /\ CellsInv'
  <2>1. CASE Apply(k)
    BY <1>1, <1>3, <2>1, ApplySafe
  <2>2. CASE UNCHANGED <<store, applied>>
    BY <1>0, <1>1, <2>2, CellsAlone DEF Types, CellsInv
  <2>3. QED
    BY <1>4, <2>1, <2>2
<1>6. PICK resp \in {"done", "error"} :
         /\ call' = [call EXCEPT ![c].resp = resp, ![c].newETag = store'[LogOf[c]].eTag]
         /\ \/ /\ resp = "done" /\ Apply(k)
               /\ changes' = [changes EXCEPT ![ProcOf[c]] = IF Matches(k) THEN 1 ELSE 0]
            \/ resp = "error" /\ UNCHANGED changes
  BY <1>2 DEF SQLiteExec, Exec, Executed
<1>7. PICK q : q = [k EXCEPT !.resp = resp, !.newETag = store'[LogOf[c]].eTag]
  OBVIOUS
<1>8. /\ call' = [call EXCEPT ![c] = q]
      /\ q.resp = resp /\ q.newETag = store'[LogOf[c]].eTag
      /\ q.log = k.log /\ q.old = k.old /\ q.eTag = k.eTag /\ q.new = k.new /\ q.n = k.n
  BY <1>0, <1>2, <1>6, <1>7 DEF CallType, Types
<1>9. q \in CallType /\ OpOf(q) = OpOf(k)
  <2>1. store'[LogOf[c]].eTag \in Nat
    BY <1>5, CellType, ClientPlaces
  <2>2. QED
    BY <1>7, <1>8, <2>1 DEF CallType, OpOf
<1>10. Types'
  <2>1. mu' \in [Procs -> {"free"} \cup Clients] /\ \A p \in Procs : mu'[p] = "free" \/ ProcOf[mu'[p]] = p
    BY <1>0, <1>1 DEF Types
  <2>2. call' \in [Clients -> CallType \cup {NoCall}] /\ changes' \in [Procs -> {0, 1}]
    BY <1>0, <1>6, <1>8, <1>9 DEF Types
  <2>3. QED
    BY <1>0, <1>1, <1>5, <2>1, <2>2 DEF Types
<1>11. OpsInv' /\ HandleInv'
  BY <1>0, <1>1, <1>5, <1>10, HandlePersists DEF OpsInv, HandleInv
<1>12. \A r \in flight' : Sent(r)'
  BY <1>0, <1>1, <1>5, <1>10, RequestPersists DEF LockInv, Types
<1>13. CallInv(c)'
  <2>1. call'[c] = q /\ mu'[ProcOf[c]] = c
    BY <1>0, <1>1, <1>8, ClientPlaces DEF Types
  <2>2. Sent(k)'
    BY <1>0, <1>3, <1>5, <1>10, RequestPersists
  <2>3. Sent(call[c])'
    BY <1>8, <1>9, <2>1, <2>2 DEF Sent
  <2>4. ASSUME resp = "done", changes'[ProcOf[c]] = 1
        PROVE  Took(call[c])'
    <3>1. Apply(k) /\ Matches(k)
      BY <1>0, <1>6, <2>4, ClientPlaces DEF Types
    <3>2. OpOf(k) \in applied' /\ Known(store'[k.log], k.new, store'[k.log].eTag)
      BY <1>1, <1>3, <3>1, ApplySafe
    <3>3. QED
      BY <1>3, <1>8, <1>9, <2>1, <3>2 DEF Took
  <2>5. QED
    BY <1>1, <1>3, <1>8, <2>1, <2>3, <2>4 DEF CallInv
<1>14. ASSUME NEW d \in Clients, d # c
       PROVE  CallInv(d)'
  <2>1. call'[d] = call[d]
    BY <1>0, <1>8, <1>14 DEF Types
  <2>2. CASE ProcOf[d] = ProcOf[c]
    <3>1. call[d] # NoCall => call[d].resp = "none"
      BY <1>1, <2>2, LockAssumption DEF LockInv, CallInv
    <3>2. QED
      BY <1>0, <1>1, <1>5, <1>10, <2>1, <3>1, CallPersists DEF LockInv
  <2>3. CASE ProcOf[d] # ProcOf[c]
    <3>1. mu'[ProcOf[d]] = mu[ProcOf[d]] /\ changes'[ProcOf[d]] = changes[ProcOf[d]]
      BY <1>0, <1>1, <1>6, <2>3, ClientPlaces DEF Types
    <3>2. QED
      BY <1>0, <1>1, <1>5, <1>10, <2>1, <3>1, CallPersists DEF LockInv
  <2>4. QED
    BY <2>2, <2>3
<1>15. LockInv'
  BY <1>1, <1>5, <1>10, <1>11, <1>12, <1>13, <1>14 DEF LockInv
<1>16. q # NoCall /\ k # NoCall
  BY <1>9, CallFields
<1>17. \A d \in Clients : /\ call'[d] = NoCall <=> call[d] = NoCall
                          /\ call[d] # NoCall => OpOf(call'[d]) = OpOf(call[d])
  BY <1>0, <1>2, <1>8, <1>9, <1>16 DEF Types
<1>18. QED
  BY <1>2, <1>4, <1>15, <1>17

(* A call returns, with an error or because it took effect, and lets go of *)
(* the mutex if it holds it.                                               *)
LEMMA ReturnSafe ==
    ASSUME LockInv, NEW c \in Clients, call[c] # NoCall,
           GiveUp(c) \/ (Succeed(c) /\ Took(call[c])),
           UNCHANGED <<kind, store, flight, changes, ops, applied>>,
           UNCHANGED mu \/ (mu[ProcOf[c]] = c /\ mu' = [mu EXCEPT ![ProcOf[c]] = "free"])
    PROVE  LockInv'
<1>0. Types /\ OpsInv /\ CellsInv /\ HandleInv
  BY DEF LockInv
<1>1. PICK k \in CallType : k = call[c]
  BY <1>0 DEF Types
<1>2. k.log = LogOf[c] /\ Sent(k)
  BY <1>1 DEF LockInv, CallInv
<1>3. call' = [call EXCEPT ![c] = NoCall]
  BY DEF GiveUp, Succeed
<1>4. PICK h \in Cell :
         /\ handle' = [handle EXCEPT ![c] = h]
         /\ Known(store[LogOf[c]], h.body, h.eTag)
  <2>1. CASE GiveUp(c)
    <3>1. Known(store[LogOf[c]], Absent.body, Absent.eTag)
      BY <1>0, ClientPlaces, CellType DEF CellsInv
    <3>2. QED
      BY <2>1, <3>1, CellType DEF GiveUp
  <2>2. CASE Succeed(c) /\ Took(call[c])
    <3>1. CASE k.old = 0
      <4>1. handle' = [handle EXCEPT ![c] = handle[c]]
        BY <1>1, <2>2, <3>1 DEF Succeed
      <4>2. QED
        BY <1>0, <4>1 DEF Types, HandleInv
    <3>2. CASE k.old # 0
      <4>1. PICK h : h = [body |-> k.new, eTag |-> k.newETag]
        OBVIOUS
      <4>2. h \in Cell /\ h.body = k.new /\ h.eTag = k.newETag
        BY <4>1, CallFields, LockAssumption DEF Cell
      <4>3. handle' = [handle EXCEPT ![c] = h]
        BY <1>1, <2>2, <3>2, <4>1 DEF Succeed
      <4>4. Known(store[LogOf[c]], h.body, h.eTag)
        BY <1>1, <1>2, <2>2, <4>2 DEF Took
      <4>5. QED
        BY <4>2, <4>3, <4>4
    <3>3. QED
      BY <3>1, <3>2
  <2>3. QED
    BY <2>1, <2>2
<1>5. acked' \subseteq ops
  BY <1>0, <1>1, <1>2 DEF GiveUp, Succeed, Types, Sent
<1>6. Types'
  <2>1. /\ mu' \in [Procs -> {"free"} \cup Clients]
        /\ \A p \in Procs : mu'[p] = "free" \/ ProcOf[mu'[p]] = p
    BY <1>0 DEF Types
  <2>2. call' \in [Clients -> CallType \cup {NoCall}] /\ handle' \in [Clients -> Cell]
    BY <1>0, <1>3, <1>4 DEF Types
  <2>3. QED
    BY <1>0, <1>5, <2>1, <2>2 DEF Types
<1>7. Advances
  BY CellsAlone
<1>8. OpsInv' /\ CellsInv'
  BY <1>0 DEF OpsInv, CellsInv
<1>9. HandleInv'
  BY <1>0, <1>4 DEF HandleInv, Types
<1>10. \A r \in flight' : Sent(r)'
  BY DEF LockInv, Sent
<1>11. ASSUME NEW d \in Clients
       PROVE  CallInv(d)'
  <2>1. CASE d = c
    BY <1>0, <1>3, <2>1 DEF CallInv, Types
  <2>2. CASE d # c
    <3>1. call'[d] = call[d]
      BY <1>0, <1>3, <2>2 DEF Types
    <3>2. \/ kind # "sqlite"
          \/ call[d] # NoCall => call[d].resp = "none"
          \/ mu'[ProcOf[d]] = mu[ProcOf[d]]
      BY <1>0, <2>2, ClientPlaces DEF LockInv, CallInv, Types
    <3>3. QED
      BY <1>0, <1>6, <1>7, <3>1, <3>2, CallPersists DEF LockInv
  <2>3. QED
    BY <2>1, <2>2
<1>12. QED
  BY <1>6, <1>8, <1>9, <1>10, <1>11 DEF LockInv

LEMMA SQLiteReturnSafe ==
    ASSUME LockInv, NEW c \in Clients, SQLiteReturn(c)
    PROVE  /\ LockInv'
           /\ call[c] # NoCall
           /\ GiveUp(c) \/ (Succeed(c) /\ Took(call[c]))
<1>1. /\ kind = "sqlite" /\ call[c] # NoCall /\ call[c].resp # "none"
      /\ mu' = [mu EXCEPT ![ProcOf[c]] = "free"]
      /\ UNCHANGED <<kind, store, flight, changes, ops, applied>>
      /\ CallInv(c)
  BY DEF SQLiteReturn, LockInv
<1>2. mu[ProcOf[c]] = c
  BY <1>1 DEF CallInv
<1>3. GiveUp(c) \/ (Succeed(c) /\ Took(call[c]))
  <2>1. CASE call[c].resp = "error" \/ changes[ProcOf[c]] = 0
    BY <2>1 DEF SQLiteReturn
  <2>2. CASE ~(call[c].resp = "error" \/ changes[ProcOf[c]] = 0)
    <3>1. Succeed(c) /\ changes[ProcOf[c]] = 1
      BY <2>2, ClientPlaces DEF SQLiteReturn, LockInv, Types
    <3>2. call[c].resp = "done"
      BY <1>1, <2>2 DEF CallInv
    <3>3. QED
      BY <1>1, <3>1, <3>2 DEF CallInv
  <2>3. QED
    BY <2>1, <2>2
<1>4. QED
  BY <1>1, <1>2, <1>3, ReturnSafe

LEMMA ServiceReturnSafe ==
    ASSUME LockInv, NEW c \in Clients, ServiceReturn(c) \/ ServiceErr(c)
    PROVE  /\ LockInv'
           /\ call[c] # NoCall
           /\ GiveUp(c) \/ (Succeed(c) /\ Took(call[c]))
<1>1. /\ kind # "sqlite" /\ call[c] # NoCall /\ CallInv(c)
      /\ UNCHANGED <<kind, store, flight, mu, changes, ops, applied>>
  BY DEF ServiceReturn, ServiceErr, LockInv
<1>2. GiveUp(c) \/ (Succeed(c) /\ Took(call[c]))
  BY <1>1 DEF ServiceReturn, ServiceErr, CallInv
<1>3. QED
  BY <1>1, <1>2, ReturnSafe

(* The SDK sends another attempt.                                          *)
LEMMA RetrySafe ==
    ASSUME LockInv, NEW c \in Clients, Retry(c)
    PROVE  /\ LockInv'
           /\ \A d \in Clients : /\ call'[d] = NoCall <=> call[d] = NoCall
                                 /\ call[d] # NoCall => OpOf(call'[d]) = OpOf(call[d])
<1>0. Types /\ OpsInv /\ CellsInv /\ HandleInv
  BY DEF LockInv
<1>1. PICK k \in CallType : k = call[c]
  BY <1>0 DEF Types, Retry
<1>2. PICK q : q = [k EXCEPT !.n = @ + 1, !.resp = "none", !.newETag = 0]
  OBVIOUS
<1>3. /\ kind # "sqlite" /\ k.n < MaxAttempts
      /\ call' = [call EXCEPT ![c] = q] /\ flight' = flight \cup {q}
      /\ UNCHANGED <<kind, store, handle, mu, changes, ops, applied, acked>>
  BY <1>1, <1>2 DEF Retry
<1>4. /\ q \in CallType /\ OpOf(q) = OpOf(k)
      /\ q.log = k.log /\ q.old = k.old /\ q.eTag = k.eTag /\ q.resp = "none"
  <2>1. k.n + 1 \in 1 .. MaxAttempts /\ k.n \in Nat
    BY <1>3, LockAssumption DEF CallType
  <2>2. q = [log |-> k.log, old |-> k.old, eTag |-> k.eTag, new |-> k.new,
             n |-> k.n + 1, resp |-> "none", newETag |-> 0]
    BY <1>2 DEF CallType
  <2>3. QED
    BY <2>1, <2>2 DEF CallType, OpOf
<1>5. k.log = LogOf[c] /\ Sent(k) /\ k # NoCall
  BY <1>1, CallFields DEF LockInv, CallInv
<1>6. Types'
  BY <1>0, <1>3, <1>4 DEF Types
<1>7. Advances
  BY <1>3, CellsAlone
<1>8. OpsInv' /\ CellsInv' /\ HandleInv'
  BY <1>0, <1>3 DEF OpsInv, CellsInv, HandleInv
<1>9. Sent(q)'
  BY <1>3, <1>4, <1>5 DEF Sent
<1>10. \A r \in flight' : Sent(r)'
  BY <1>3, <1>9 DEF LockInv, Sent
<1>11. ASSUME NEW d \in Clients
       PROVE  CallInv(d)'
  <2>1. CASE d = c
    <3>1. call'[d] = q
      BY <1>0, <1>3, <2>1 DEF Types
    <3>2. Sent(call[d])'
      BY <1>9, <3>1 DEF Sent
    <3>3. QED
      BY <1>3, <1>4, <1>5, <2>1, <3>1, <3>2 DEF CallInv
  <2>2. CASE d # c
    <3>1. call'[d] = call[d]
      BY <1>0, <1>3, <2>2 DEF Types
    <3>2. QED
      BY <1>0, <1>3, <1>6, <1>7, <3>1, CallPersists DEF LockInv
  <2>3. QED
    BY <2>1, <2>2
<1>12. LockInv'
  BY <1>3, <1>6, <1>8, <1>10, <1>11 DEF LockInv
<1>13. q # NoCall
  BY <1>4, CallFields
<1>14. QED
  BY <1>0, <1>1, <1>3, <1>4, <1>5, <1>12, <1>13 DEF Types

(* An attempt arrives, perhaps after another one of its call, or after the *)
(* call has returned.                                                      *)
LEMMA ServeSafe ==
    ASSUME LockInv, NEW k \in flight, Serve(k)
    PROVE  /\ LockInv'
           /\ \A d \in Clients : /\ call'[d] = NoCall <=> call[d] = NoCall
                                 /\ call[d] # NoCall => OpOf(call'[d]) = OpOf(call[d])
<1>0. Types /\ OpsInv /\ CellsInv /\ HandleInv /\ k \in CallType /\ Sent(k)
  BY DEF LockInv, Types
<1>1. /\ flight' = flight \ {k} /\ Apply(k) /\ kind # "sqlite"
      /\ UNCHANGED <<kind, handle, mu, changes, ops, acked>>
  BY DEF Serve, LockInv
<1>2. k.log \in Logs /\ k # NoCall
  BY <1>0, CallFields
<1>3. /\ store' \in [Logs -> Cell] /\ applied' \subseteq ops /\ Advances /\ CellsInv'
      /\ Matches(k) => OpOf(k) \in applied' /\ Known(store'[k.log], k.new, store'[k.log].eTag)
  BY <1>0, <1>1, ApplySafe
<1>4. PICK q : q = [k EXCEPT !.resp = IF Matches(k) THEN "ok" ELSE "conflict",
                             !.newETag = store'[k.log].eTag]
  OBVIOUS
<1>5. call' = [c \in Clients |-> IF call[c] = k THEN q ELSE call[c]]
  BY <1>4 DEF Serve
<1>6. /\ q \in CallType /\ OpOf(q) = OpOf(k)
      /\ q.log = k.log /\ q.old = k.old /\ q.eTag = k.eTag /\ q.new = k.new
      /\ q.newETag = store'[k.log].eTag
      /\ q.resp = "ok" => Matches(k)
      /\ q.resp \in {"ok", "conflict"}
  <2>1. store'[k.log].eTag \in Nat
    BY <1>2, <1>3, CellType
  <2>2. QED
    BY <1>0, <1>4, <2>1 DEF CallType, OpOf
<1>7. Types'
  <2>1. call' \in [Clients -> CallType \cup {NoCall}]
    BY <1>0, <1>5, <1>6 DEF Types
  <2>2. QED
    BY <1>0, <1>1, <1>3, <2>1 DEF Types
<1>8. OpsInv' /\ HandleInv'
  BY <1>0, <1>1, <1>3, <1>7, HandlePersists DEF OpsInv, HandleInv
<1>9. \A r \in flight' : Sent(r)'
  BY <1>0, <1>1, <1>3, <1>7, RequestPersists DEF LockInv, Types
<1>10. ASSUME NEW d \in Clients
       PROVE  CallInv(d)'
  <2>1. CASE call[d] = k
    <3>1. call'[d] = q
      BY <1>5, <2>1
    <3>2. Sent(k)'
      BY <1>0, <1>3, <1>7, RequestPersists
    <3>3. Sent(call[d])'
      BY <1>6, <3>1, <3>2 DEF Sent
    <3>4. q.resp = "ok" => Took(call[d])'
      BY <1>3, <1>6, <3>1 DEF Took
    <3>5. k.log = LogOf[d]
      BY <1>2, <2>1 DEF LockInv, CallInv
    <3>6. QED
      BY <1>1, <1>6, <3>1, <3>3, <3>4, <3>5 DEF CallInv
  <2>2. CASE call[d] # k
    <3>1. call'[d] = call[d]
      BY <1>5, <2>2
    <3>2. QED
      BY <1>0, <1>1, <1>3, <1>7, <3>1, CallPersists DEF LockInv
  <2>3. QED
    BY <2>1, <2>2
<1>11. LockInv'
  BY <1>1, <1>3, <1>7, <1>8, <1>9, <1>10 DEF LockInv
<1>12. q # NoCall
  BY <1>6, CallFields
<1>13. QED
  BY <1>2, <1>5, <1>6, <1>11, <1>12

LEMMA LockInvStep == LockInv /\ [Next]_vars => LockInv'
<1> SUFFICES ASSUME LockInv, [Next]_vars PROVE LockInv'
  OBVIOUS
<1>1. ASSUME NEW c \in Clients, Create(c) \/ Replace(c)
      PROVE  LockInv'
  BY <1>1, BeginSafe DEF Create, Replace
<1>2. ASSUME NEW c \in Clients,
             \/ Fetch(c) \/ SQLiteExec(c) \/ SQLiteReturn(c)
             \/ Retry(c) \/ ServiceReturn(c) \/ ServiceErr(c)
      PROVE  LockInv'
  BY <1>2, FetchSafe, ExecSafe, SQLiteReturnSafe, RetrySafe, ServiceReturnSafe
<1>3. ASSUME NEW k \in flight, Serve(k)
      PROVE  LockInv'
  BY <1>3, ServeSafe
<1>4. CASE UNCHANGED vars
  <2>1. UNCHANGED <<kind, store, handle, call, flight, mu, changes, ops, applied, acked>>
    BY <1>4 DEF vars
  <2>2. Types' /\ OpsInv' /\ CellsInv' /\ HandleInv'
    BY <2>1 DEF LockInv, Types, OpsInv, CellsInv, HandleInv
  <2>3. (\A k \in flight' : Sent(k)') /\ \A c \in Clients : CallInv(c)'
    BY <2>1 DEF LockInv, CallInv, Sent, Took
  <2>4. QED
    BY <2>1, <2>2, <2>3 DEF LockInv
<1>5. QED
  BY <1>1, <1>2, <1>3, <1>4 DEF Next

LEMMA LockInvariance == Spec => []LockInv
  BY InitInv, LockInvStep, PTL DEF Spec

-----------------------------------------------------------------------------

(* The backends' rows and requests keep their types: in particular, an     *)
(* ETag is never ahead of the checkpoints that were signed.                *)
THEOREM LockTypeCorrect == Spec => []TypeOK
<1>1. ASSUME LockInv PROVE TypeOK
  <2>0. Types /\ CellsInv /\ HandleInv
    BY <1>1 DEF LockInv
  <2>1. \A l \in Logs : store[l].body \in 0 .. MaxBody /\ store[l].eTag \in 0 .. MaxBody
    <3> SUFFICES ASSUME NEW l \in Logs
                 PROVE  store[l].body \in 0 .. MaxBody /\ store[l].eTag \in 0 .. MaxBody
      OBVIOUS
    <3>1. store[l] \in Cell /\ store[l].eTag <= store[l].body
      BY <2>0 DEF Types, CellsInv
    <3>2. QED
      BY <3>1, CellType, LockAssumption
  <2>2. \A c \in Clients : handle[c].body \in 0 .. MaxBody /\ handle[c].eTag \in 0 .. MaxBody
    <3> SUFFICES ASSUME NEW c \in Clients
                 PROVE  handle[c].body \in 0 .. MaxBody /\ handle[c].eTag \in 0 .. MaxBody
      OBVIOUS
    <3>1. handle[c] \in Cell /\ store[LogOf[c]].eTag \in 0 .. MaxBody
      BY <2>0, <2>1, ClientPlaces DEF Types
    <3>2. handle[c].eTag <= store[LogOf[c]].eTag
      BY <2>0 DEF HandleInv, Known
    <3>3. QED
      BY <3>1, <3>2, CellType, LockAssumption
  <2>3. \A c \in Clients : call[c] = NoCall \/ OpOf(call[c]) \in ops
    BY <1>1 DEF LockInv, CallInv, Sent
  <2>4. \A k \in flight : OpOf(k) \in ops /\ k.n \in 1 .. MaxAttempts
    BY <1>1 DEF LockInv, Types, Sent, CallType
  <2>5. \A q \in Procs : mu[q] \in {"free"} \cup {c \in Clients : ProcOf[c] = q}
    BY <2>0 DEF Types
  <2>6. QED
    BY <2>0, <2>1, <2>2, <2>3, <2>4, <2>5 DEF TypeOK, Types
<1>2. QED
  BY <1>1, LockInvariance, PTL

(* The checkpoint that Fetch or the last Replace returned can be replaced, *)
(* with its ETag, for as long as it is the latest.                         *)
THEOREM HandlesStayUsable == Spec => []HandleUsable
<1>1. ASSUME LockInv PROVE HandleUsable
  <2> SUFFICES ASSUME NEW c \in Clients, handle[c].body = store[LogOf[c]].body
               PROVE  handle[c] = store[LogOf[c]]
    BY DEF HandleUsable
  <2>1. handle[c] \in Cell /\ store[LogOf[c]] \in Cell
    BY <1>1, ClientPlaces DEF LockInv, Types
  <2>2. handle[c].eTag = store[LogOf[c]].eTag
    BY <1>1 DEF LockInv, HandleInv, Known
  <2>3. QED
    BY <2>1, <2>2, CellType
<1>2. QED
  BY <1>1, LockInvariance, PTL

-----------------------------------------------------------------------------
(* The refinement.                                                         *)

\* The abstract call of each client.
CallOf(k) == IF k = NoCall THEN NoCall ELSE OpOf(k)

LEMMA RegisterNames ==
    /\ Register!NoCall = NoCall
    /\ Logs = {LogOf[c] : c \in Clients}
BY DEF Register!NoCall, NoCall, Logs

(* Steps that only the caller, or the SDK, notices.                        *)
LEMMA QuietRegister ==
    ASSUME UNCHANGED <<store, handle, ops, applied, acked>>,
           \A d \in Clients : CallOf(call'[d]) = CallOf(call[d])
    PROVE  UNCHANGED Register!regVars
<1>1. [c \in Clients |-> IF call'[c] = NoCall THEN NoCall ELSE OpOf(call'[c])]
        = [c \in Clients |-> IF call[c] = NoCall THEN NoCall ELSE OpOf(call[c])]
  BY DEF CallOf
<1>2. QED
  BY <1>1 DEF Register!regVars

(* A request that takes effect is a swap.                                  *)
LEMMA ApplyRefines ==
    ASSUME LockInv, NEW k \in CallType, Sent(k), Apply(k) \/ UNCHANGED <<store, applied>>,
           UNCHANGED <<handle, ops, acked>>,
           \A d \in Clients : CallOf(call'[d]) = CallOf(call[d])
    PROVE  [Register!RegNext]_Register!regVars
<1>1. CASE UNCHANGED <<store, applied>>
  BY <1>1, QuietRegister
<1>2. CASE Apply(k) /\ Matches(k)
  <2>1. /\ OpOf(k) \in ops \ applied /\ applied' = applied \cup {OpOf(k)}
        /\ store[k.log].body = k.old
        /\ store' = [store EXCEPT ![k.log] = [body |-> k.new, eTag |-> store[k.log].eTag + 1]]
    BY <1>2, ApplySafe DEF Sent
  <2>2. /\ k.log \in Logs /\ OpOf(k).log = k.log /\ OpOf(k).old = k.old /\ OpOf(k).new = k.new
    BY CallFields
  <2>3. PICK reg, reg1 : reg = [l \in Logs |-> store[l].body] /\ reg1 = [l \in Logs |-> store'[l].body]
    OBVIOUS
  <2>4. reg1 = [reg EXCEPT ![k.log] = k.new] /\ reg[k.log] = k.old
    BY <2>1, <2>2, <2>3 DEF LockInv, Types
  <2>5. [c \in Clients |-> IF call'[c] = NoCall THEN NoCall ELSE OpOf(call'[c])]
          = [c \in Clients |-> IF call[c] = NoCall THEN NoCall ELSE OpOf(call[c])]
    BY DEF CallOf
  <2>6. Register!Swap
    BY <2>1, <2>2, <2>3, <2>4, <2>5 DEF Register!Swap
  <2>7. QED
    BY <2>6 DEF Register!RegNext
<1>3. CASE Apply(k) /\ ~Matches(k)
  BY <1>1, <1>3, ApplySafe
<1>4. QED
  BY <1>1, <1>2, <1>3

LEMMA FetchRefines ==
    ASSUME LockInv, NEW c \in Clients, Fetch(c)
    PROVE  Register!ReadReg(c)
<1>1. PICK known, known1 : /\ known = [d \in Clients |-> handle[d].body]
                           /\ known1 = [d \in Clients |-> handle'[d].body]
  OBVIOUS
<1>2. PICK s \in Cell : s = store[LogOf[c]]
  BY ClientPlaces DEF LockInv, Types
<1>3. /\ handle' = [handle EXCEPT ![c] = s] /\ s # Absent /\ call[c] = NoCall
      /\ UNCHANGED <<store, call, ops, applied, acked>>
  BY <1>2 DEF Fetch
<1>4. known1 = [known EXCEPT ![c] = s.body]
  BY <1>1, <1>3 DEF LockInv, Types
<1>5. s.body # 0
  <2>1. Known(s, 0, 0)
    BY <1>2, ClientPlaces DEF LockInv, CellsInv
  <2>2. SUFFICES ASSUME s.body = 0 PROVE FALSE
    OBVIOUS
  <2>3. s.eTag = 0
    BY <2>1, <2>2, CellType DEF Known
  <2>4. s = Absent
    BY <2>2, <2>3, CellType DEF Absent
  <2>5. QED
    BY <1>3, <2>4
<1>6. QED
  BY <1>1, <1>2, <1>3, <1>4, <1>5, ClientPlaces, RegisterNames DEF Register!ReadReg

LEMMA BeginRefines ==
    ASSUME LockInv, NEW c \in Clients, Begin(c, handle[c])
    PROVE  Register!CallCAS(c)
<1>1. PICK new : new = Cardinality(ops) + 1
  OBVIOUS
<1>2. PICK op : op = [log |-> LogOf[c], old |-> handle[c].body, new |-> new]
  OBVIOUS
<1>3. PICK k : k = [log |-> LogOf[c], old |-> handle[c].body, eTag |-> handle[c].eTag, new |-> new,
                    n |-> 1, resp |-> "none", newETag |-> 0]
  OBVIOUS
<1>4. /\ call[c] = NoCall /\ new <= MaxBody
      /\ call' = [call EXCEPT ![c] = k] /\ ops' = ops \cup {OpOf(k)}
      /\ UNCHANGED <<store, handle, applied, acked>>
  BY <1>1, <1>3 DEF Begin
<1>5. OpOf(k) = op
  BY <1>2, <1>3 DEF OpOf
<1>6. Cardinality(ops) \in Nat /\ new \in Bodies
  BY <1>1, <1>4, FS_CardinalityType, LockAssumption DEF LockInv, Types, Bodies
<1>7. k # NoCall
  <2>1. k.new = new /\ new # 0
    BY <1>1, <1>3, <1>6
  <2>2. QED
    BY <2>1 DEF NoCall
<1>8. \A o \in ops : o.new # new
  BY <1>1, <1>6, OpFields DEF LockInv, Types, OpsInv
<1>9. [d \in Clients |-> IF call'[d] = NoCall THEN NoCall ELSE OpOf(call'[d])]
        = [[d \in Clients |-> IF call[d] = NoCall THEN NoCall ELSE OpOf(call[d])] EXCEPT ![c] = op]
  BY <1>4, <1>5, <1>7 DEF LockInv, Types
<1>10. PICK known, calls, calls1 :
          /\ known = [d \in Clients |-> handle[d].body]
          /\ calls = [d \in Clients |-> IF call[d] = NoCall THEN NoCall ELSE OpOf(call[d])]
          /\ calls1 = [d \in Clients |-> IF call'[d] = NoCall THEN NoCall ELSE OpOf(call'[d])]
  OBVIOUS
<1>11. /\ known[c] = handle[c].body /\ calls[c] = NoCall /\ calls1 = [calls EXCEPT ![c] = op]
  BY <1>4, <1>9, <1>10
<1>12. QED
  BY <1>2, <1>4, <1>5, <1>6, <1>8, <1>10, <1>11, RegisterNames DEF Register!CallCAS

LEMMA ReturnRefines ==
    ASSUME LockInv, NEW c \in Clients, call[c] # NoCall, UNCHANGED <<store, ops, applied>>,
           GiveUp(c) \/ (Succeed(c) /\ Took(call[c]))
    PROVE  Register!ReturnOK(c) \/ Register!ReturnErr(c)
<1>1. PICK k \in CallType : k = call[c]
  BY DEF LockInv, Types
<1>2. PICK known, known1, calls, calls1 :
          /\ known = [d \in Clients |-> handle[d].body]
          /\ known1 = [d \in Clients |-> handle'[d].body]
          /\ calls = [d \in Clients |-> IF call[d] = NoCall THEN NoCall ELSE OpOf(call[d])]
          /\ calls1 = [d \in Clients |-> IF call'[d] = NoCall THEN NoCall ELSE OpOf(call'[d])]
  OBVIOUS
<1>3. call' = [call EXCEPT ![c] = NoCall]
  BY DEF GiveUp, Succeed
<1>4. calls[c] = OpOf(k) /\ calls1 = [calls EXCEPT ![c] = NoCall]
  BY <1>1, <1>2, <1>3 DEF LockInv, Types
<1>5. OpOf(k).old = k.old /\ OpOf(k).new = k.new /\ OpOf(k) # NoCall
  <2>1. OpOf(k).new = k.new /\ OpOf(k).old = k.old /\ k.new # 0
    BY CallFields
  <2>2. QED
    BY <2>1 DEF NoCall
<1>6. CASE GiveUp(c)
  <2>1. handle' = [handle EXCEPT ![c] = Absent] /\ UNCHANGED acked
    BY <1>6 DEF GiveUp
  <2>2. known1 = [known EXCEPT ![c] = 0]
    BY <1>2, <2>1, CellType DEF LockInv, Types
  <2>3. Register!ReturnErr(c)
    BY <1>2, <1>4, <1>5, <2>1, <2>2, RegisterNames DEF Register!ReturnErr
  <2>4. QED
    BY <2>3
<1>7. CASE Succeed(c) /\ Took(call[c])
  <2>1. OpOf(k) \in applied /\ acked' = acked \cup {OpOf(k)}
    BY <1>1, <1>7 DEF Succeed, Took
  <2>2. handle' = [handle EXCEPT ![c] = IF k.old = 0 THEN handle[c]
                                        ELSE [body |-> k.new, eTag |-> k.newETag]]
    BY <1>1, <1>7 DEF Succeed
  <2>3. known1 = [known EXCEPT ![c] = IF k.old = 0 THEN known[c] ELSE k.new]
    BY <1>2, <2>2 DEF LockInv, Types
  <2>4. Register!ReturnOK(c)
    BY <1>2, <1>4, <1>5, <2>1, <2>3, RegisterNames DEF Register!ReturnOK
  <2>5. QED
    BY <2>4
<1>8. QED
  BY <1>6, <1>7

(* Every step of a backend is a step of the register, or none.             *)
LEMMA RegisterStep ==
    ASSUME LockInv, [Next]_vars
    PROVE  [Register!RegNext]_Register!regVars
<1>1. ASSUME NEW c \in Clients, Fetch(c) \/ Create(c) \/ Replace(c)
      PROVE  Register!RegNext
  <2>1. CASE Fetch(c)
    BY <2>1, FetchRefines DEF Register!RegNext
  <2>2. CASE Create(c) \/ Replace(c)
    BY <2>2, BeginRefines DEF Create, Replace, Register!RegNext
  <2>3. QED
    BY <1>1, <2>1, <2>2
<1>2. ASSUME NEW c \in Clients, SQLiteExec(c)
      PROVE  [Register!RegNext]_Register!regVars
  <2>1. call[c] # NoCall /\ UNCHANGED <<handle, ops, acked>>
    BY <1>2 DEF SQLiteExec, Exec
  <2>2. PICK k \in CallType : k = call[c]
    BY <2>1 DEF LockInv, Types
  <2>3. Sent(k) /\ (Apply(k) \/ UNCHANGED <<store, applied>>)
    BY <1>2, <2>1, <2>2, ExecSafe DEF LockInv, CallInv
  <2>4. \A d \in Clients : CallOf(call'[d]) = CallOf(call[d])
    BY <1>2, ExecSafe DEF CallOf
  <2>5. QED
    BY <2>1, <2>3, <2>4, ApplyRefines
<1>3. ASSUME NEW c \in Clients, SQLiteReturn(c) \/ ServiceReturn(c) \/ ServiceErr(c)
      PROVE  Register!RegNext
  <2>1. UNCHANGED <<store, ops, applied>>
    BY <1>3 DEF SQLiteReturn, ServiceReturn, ServiceErr
  <2>2. Register!ReturnOK(c) \/ Register!ReturnErr(c)
    BY <1>3, <2>1, SQLiteReturnSafe, ServiceReturnSafe, ReturnRefines
  <2>3. QED
    BY <2>2 DEF Register!RegNext
<1>4. ASSUME NEW c \in Clients, Retry(c)
      PROVE  UNCHANGED Register!regVars
  <2>1. UNCHANGED <<store, handle, ops, applied, acked>>
    BY <1>4 DEF Retry
  <2>2. \A d \in Clients : CallOf(call'[d]) = CallOf(call[d])
    BY <1>4, RetrySafe DEF CallOf
  <2>3. QED
    BY <2>1, <2>2, QuietRegister
<1>5. ASSUME NEW k \in flight, Serve(k)
      PROVE  [Register!RegNext]_Register!regVars
  <2>1. k \in CallType /\ Sent(k) /\ Apply(k) /\ UNCHANGED <<handle, ops, acked>>
    BY <1>5 DEF Serve, LockInv, Types
  <2>2. \A d \in Clients : CallOf(call'[d]) = CallOf(call[d])
    BY <1>5, ServeSafe DEF CallOf
  <2>3. QED
    BY <2>1, <2>2, ApplyRefines
<1>6. CASE UNCHANGED vars
  BY <1>6, QuietRegister DEF vars
<1>7. QED
  BY <1>1, <1>2, <1>3, <1>4, <1>5, <1>6 DEF Next

(* SQLite, DynamoDB and S3 with ETags are registers with compare-and-swap, *)
(* whatever the SDK sends again and whatever arrives late.                 *)
THEOREM BackendsImplementRegister == Spec => ImplementsRegister
<1>1. Init => Register!RegInit
  BY RegisterNames, ClientPlaces, CellType DEF Init, Register!RegInit
<1>2. LockInv /\ [Next]_vars => [Register!RegNext]_Register!regVars
  BY RegisterStep
<1>3. QED
  BY <1>1, <1>2, LockInvariance, PTL DEF Spec, ImplementsRegister, Register!RegSpec
=============================================================================
