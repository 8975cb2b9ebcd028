------------------------------ MODULE S3Proofs ------------------------------
(***************************************************************************)
(* Proofs about S3Upload: a reported success is a success, whichever of    *)
(* the two PUTs it is the result of, and nothing is sent after the report. *)
(***************************************************************************)
EXTENDS S3Upload, TLAPS

\* The variables have their types.
TypeOK ==
    /\ network \subseteq Puts /\ applied \subseteq Puts
    /\ put \in [Puts -> {"none", "sent", "ok", "err", "canceled"}]
    /\ hedge \in {"timer", "put", "cancel", "ended"}
    /\ hedgeErr \in {"none", "ok", "err"}
    /\ canceled \in BOOLEAN /\ expired \in BOOLEAN
    /\ result \in {"none", "ok", "err"}

\* A success that anyone has heard of, the sender of a PUT, the channel or
\* the caller, is one of a PUT that was applied.
OkInv ==
    /\ TypeOK
    /\ \A q \in Puts : put[q] = "ok" => q \in applied
    /\ hedgeErr = "ok" => applied # {}
    /\ OkIsPersisted

LEMMA OkInvInit == Init => OkInv
  BY DEF Init, OkInv, TypeOK, OkIsPersisted, Puts

(* Every step of S3Backend.Upload, of its goroutine and of the service     *)
(* keeps that so.                                                          *)
LEMMA OkInvStep == OkInv /\ [Next]_vars => OkInv'
<1> SUFFICES ASSUME OkInv, [Next]_vars
             PROVE  OkInv'
  OBVIOUS
<1> USE DEF OkInv, TypeOK, OkIsPersisted, Puts
<1>1. ASSUME NEW q \in Puts, Apply(q)
      PROVE  OkInv'
  BY <1>1 DEF Apply
<1>2. ASSUME NEW q \in Puts, PutOK(q)
      PROVE  OkInv'
  BY <1>2 DEF PutOK, PutReturns
<1>3. ASSUME NEW q \in Puts, PutErr(q)
      PROVE  OkInv'
  BY <1>3 DEF PutErr, PutReturns
<1>4. ASSUME NEW q \in Puts, PutCanceled(q)
      PROVE  OkInv'
  BY <1>4 DEF PutCanceled, PutReturns
<1>0. ASSUME NEW q \in Puts, Resend(q)
      PROVE  OkInv'
  BY <1>0 DEF Resend
<1>5. CASE TimerFires
  BY <1>5 DEF TimerFires
<1>6. CASE HedgeUnneeded
  BY <1>6 DEF HedgeUnneeded
<1>7. CASE HedgeReports
  BY <1>7 DEF HedgeReports
<1>8. CASE HedgeCancels
  BY <1>8 DEF HedgeCancels
<1>9. CASE Return
  BY <1>9 DEF Return
<1>10. CASE Expire
  BY <1>10 DEF Expire
<1>11. CASE UNCHANGED vars
  BY <1>11 DEF vars
<1>12. QED
  BY <1>0, <1>1, <1>2, <1>3, <1>4, <1>5, <1>6, <1>7, <1>8, <1>9, <1>10, <1>11
  DEF Next, Goroutine

(* When Upload returns without an error the object is persisted: whichever *)
(* of the PUT and its hedge answered first, and whatever became of the     *)
(* other one.                                                              *)
THEOREM UploadPersists == Spec => []OkIsPersisted
<1>1. OkInv => OkIsPersisted
  BY DEF OkInv
<1>2. QED
  BY OkInvInit, OkInvStep, <1>1, PTL DEF Spec

\* Whoever could still send a request when Upload has returned knows that its
\* context has ended.
SendInv ==
    /\ TypeOK
    /\ hedge = "timer" => put["hedge"] = "none"
    /\ hedge \in {"cancel", "ended"} => put["hedge"] # "sent"
    /\ hedgeErr # "none" => hedge \in {"cancel", "ended"}
    /\ result # "none" => /\ put["main"] # "sent"
                          /\ canceled \/ hedge \in {"cancel", "ended"}

LEMMA SendInvInit == Init => SendInv
  BY DEF Init, SendInv, TypeOK, Puts

(* Every step keeps that so, and adds nothing to the network once Upload   *)
(* has returned.                                                           *)
LEMMA SendInvStep ==
    SendInv /\ [Next]_vars => SendInv' /\ (result # "none" => network' \subseteq network)
<1> SUFFICES ASSUME SendInv, [Next]_vars
             PROVE  SendInv' /\ (result # "none" => network' \subseteq network)
  OBVIOUS
<1> USE DEF SendInv, TypeOK, Puts
<1>1. ASSUME NEW q \in Puts, Apply(q)
      PROVE  SendInv' /\ network' \subseteq network
  BY <1>1 DEF Apply
<1>2. ASSUME NEW q \in Puts, NEW res \in {"ok", "err", "canceled"}, PutReturns(q, res)
      PROVE  SendInv' /\ network' \subseteq network
  BY <1>2 DEF PutReturns
<1>3. ASSUME NEW q \in Puts, PutOK(q) \/ PutErr(q) \/ PutCanceled(q)
      PROVE  SendInv' /\ network' \subseteq network
  BY <1>2, <1>3 DEF PutOK, PutErr, PutCanceled
<1>4. ASSUME NEW q \in Puts, Resend(q)
      PROVE  SendInv' /\ result = "none"
  BY <1>4 DEF Resend, Done
<1>5. CASE TimerFires
  BY <1>5 DEF TimerFires, Done
<1>6. CASE HedgeUnneeded
  BY <1>6 DEF HedgeUnneeded
<1>7. CASE HedgeReports
  BY <1>7 DEF HedgeReports
<1>8. CASE HedgeCancels
  BY <1>8 DEF HedgeCancels
<1>9. CASE Return
  BY <1>9 DEF Return
<1>10. CASE Expire
  BY <1>10 DEF Expire
<1>11. CASE UNCHANGED vars
  BY <1>11 DEF vars
<1>12. QED
  BY <1>1, <1>3, <1>4, <1>5, <1>6, <1>7, <1>8, <1>9, <1>10, <1>11
  DEF Next, Goroutine

(* No hedge and no retry is sent for an upload that has returned, however  *)
(* the timer, the two PUTs, the cancellation and the deadline race.        *)
THEOREM NothingSentAfterReturn == Spec => NoneSentLater
<1>1. SendInv /\ [Next]_vars => [result # "none" => network' \subseteq network]_vars
  BY SendInvStep
<1>2. QED
  BY SendInvInit, SendInvStep, <1>1, PTL DEF Spec, NoneSentLater
=============================================================================
