------------------------------ MODULE S3Upload ------------------------------
(***************************************************************************)
(* One call of S3Backend.Upload: a PUT, and if it takes long a second one, *)
(* the hedge, sent by a goroutine of its own; the caller gets the result   *)
(* of whichever ends first.                                                *)
(*                                                                         *)
(* A PUT that is canceled, or fails, may be applied by the service at any  *)
(* later time, or never.  This is why a request of module Sequencer may    *)
(* take effect late, even one that was reported to have succeeded.         *)
(***************************************************************************)
EXTENDS FiniteSets

VARIABLES
    network,    \* the PUTs the service may still apply
    applied,    \* the PUTs it has applied
    put,        \* what its sender knows of each PUT
    hedge,      \* where the hedge goroutine is
    hedgeErr,   \* the channel: the hedge's result, once it is sent
    canceled,   \* the derived context was canceled
    expired,    \* the caller's context has ended
    result      \* what the call returned

vars == <<network, applied, put, hedge, hedgeErr, canceled, expired, result>>

Puts == {"main", "hedge"}

\* <-ctx.Done()
Done == canceled \/ expired

\* Upload is called: the main PUT is sent, and the goroutine started.
Init ==
    /\ network = {"main"}
    /\ applied = {}
    /\ put = [q \in Puts |-> IF q = "main" THEN "sent" ELSE "none"]
    /\ hedge = "timer"
    /\ hedgeErr = "none"
    /\ canceled = FALSE /\ expired = FALSE
    /\ result = "none"

-----------------------------------------------------------------------------
(* The service, and the client's calls of PutObject.                       *)

Apply(q) ==
    /\ q \in network
    /\ network' = network \ {q}
    /\ applied' = applied \cup {q}
    /\ UNCHANGED <<put, hedge, hedgeErr, canceled, expired, result>>

PutReturns(q, res) ==
    /\ put[q] = "sent"
    /\ put' = [put EXCEPT ![q] = res]
    /\ UNCHANGED <<network, applied, hedge, hedgeErr, canceled, expired, result>>

PutOK(q) == q \in applied /\ PutReturns(q, "ok")
\* The service, or every retry of the client, fails.
PutErr(q) == PutReturns(q, "err")
PutCanceled(q) == Done /\ PutReturns(q, "canceled")

\* The client's Retryer sends the request once more, for as long as the context
\* has not ended.
Resend(q) ==
    /\ put[q] = "sent" /\ ~Done
    /\ network' = network \cup {q}
    /\ UNCHANGED <<applied, put, hedge, hedgeErr, canceled, expired, result>>

\* The caller's context ends: sequencePool allows a round sequenceTimeout.
Expire ==
    /\ ~expired
    /\ expired' = TRUE
    /\ UNCHANGED <<network, applied, put, hedge, hedgeErr, canceled, result>>

-----------------------------------------------------------------------------
(* The hedge goroutine.                                                    *)

\* After 75 milliseconds.  If the context has ended too, either case of the
\* select may be taken, and the PUT is not sent.
TimerFires ==
    /\ hedge = "timer"
    /\ hedge' = "put"
    /\ put' = [put EXCEPT !["hedge"] = "sent"]
    /\ network' = IF Done THEN network ELSE network \cup {"hedge"}
    /\ UNCHANGED <<applied, hedgeErr, canceled, expired, result>>

HedgeUnneeded ==
    /\ hedge = "timer" /\ Done
    /\ hedge' = "ended"
    /\ UNCHANGED <<network, applied, put, hedgeErr, canceled, expired, result>>

\* (Mutants: the error lost; a channel without room.)
HedgeReportsNil ==
    /\ hedge = "put" /\ put["hedge"] # "sent"
    /\ hedgeErr' = "ok"
    /\ hedge' = "cancel"
    /\ UNCHANGED <<network, applied, put, canceled, expired, result>>
HedgeBlocks ==
    /\ hedge = "put" /\ put["hedge"] # "sent" /\ result = "none"
    /\ hedgeErr' = IF put["hedge"] = "ok" THEN "ok" ELSE "err"
    /\ hedge' = "cancel"
    /\ UNCHANGED <<network, applied, put, canceled, expired, result>>

\* hedgeErr <- err
HedgeReports ==
    /\ hedge = "put" /\ put["hedge"] # "sent"
    /\ hedgeErr' = IF put["hedge"] = "ok" THEN "ok" ELSE "err"
    /\ hedge' = "cancel"
    /\ UNCHANGED <<network, applied, put, canceled, expired, result>>

\* cancel(errors.New("competing request succeeded"))
HedgeCancels ==
    /\ hedge = "cancel"
    /\ canceled' = TRUE
    /\ hedge' = "ended"
    /\ UNCHANGED <<network, applied, put, hedgeErr, expired, result>>

-----------------------------------------------------------------------------

\* (Mutant: the hedge is not told that it is not needed any more.)
ReturnUncanceled ==
    /\ result = "none" /\ put["main"] # "sent"
    /\ result' = IF hedgeErr # "none" THEN hedgeErr
                 ELSE IF put["main"] = "ok" THEN "ok" ELSE "err"
    /\ UNCHANGED <<network, applied, put, hedge, hedgeErr, canceled, expired>>

\* The main PUT has returned: take the hedge's result if it is in.
Return ==
    /\ result = "none" /\ put["main"] # "sent"
    /\ IF hedgeErr # "none"
       THEN /\ result' = hedgeErr
            /\ UNCHANGED canceled
       ELSE /\ result' = IF put["main"] = "ok" THEN "ok" ELSE "err"
            /\ canceled' = TRUE
    /\ UNCHANGED <<network, applied, put, hedge, hedgeErr, expired>>

Goroutine == TimerFires \/ HedgeUnneeded \/ HedgeReports \/ HedgeCancels

Next ==
    \/ \E q \in Puts : Apply(q) \/ Resend(q) \/ PutOK(q) \/ PutErr(q) \/ PutCanceled(q)
    \/ Goroutine \/ Return \/ Expire

(* Both goroutines are scheduled, the caller's context ends some time (as  *)
(* that of a round does), and PutObject returns when its context has ended.*)
Spec ==
    /\ Init
    /\ [][Next]_vars
    /\ WF_vars(Goroutine) /\ WF_vars(Return) /\ WF_vars(Expire)
    /\ \A q \in Puts : WF_vars(PutCanceled(q))

-----------------------------------------------------------------------------
(* Properties.                                                             *)

(* "When Upload returns, the object must be fully persisted" (Backend): a  *)
(* call that reports success has had one of its PUTs applied by then, also *)
(* when the other one failed or was canceled.                              *)
OkIsPersisted == result = "ok" => applied # {}

(* Once Upload has returned, no request goes out for it any more, neither  *)
(* a hedge whose timer fires at that time nor a retry of the PUT that      *)
(* lost: a copy of an old checkpoint that is sent behind the back of the   *)
(* caller would race the next one.  (One that is in the network already    *)
(* may.)                                                                   *)
NoneSentLater == [][result # "none" => network' \subseteq network]_vars

(* Upload returns, and its hedge goroutine ends with it: the channel has   *)
(* room for the result that nobody reads.                                  *)
UploadEnds == <>(result # "none" /\ hedge = "ended")

(* "Upload is expected to retry transient errors, and only return an error *)
(* for unrecoverable errors" (Backend): none is returned if the main PUT   *)
(* succeeded, or was stopped by anyone but the caller.                     *)
ErrorOnlyIfFailed == result = "err" => put["main"] = "err" \/ expired
=============================================================================
