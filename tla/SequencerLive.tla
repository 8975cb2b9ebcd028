---------------------------- MODULE SequencerLive ----------------------------
(***************************************************************************)
(* What must eventually happen in Sequencer, once the faults stop.         *)
(*                                                                         *)
(* Fairness: the process is restarted when it exits (main exits with       *)
(* status 1 and rome/sunlight.service says Restart=on-failure), the ticker *)
(* of RunSequencer keeps firing, no call blocks for ever (each has a       *)
(* timeout), and there comes a time from which nothing fails.              *)
(*                                                                         *)
(* A model of bounded clocks cannot go on for ever.  Until the faults stop *)
(* nothing is signed after StableTime < MaxTime, so that time for a        *)
(* faultless round is left.                                                *)
(***************************************************************************)
EXTENDS Sequencer

CONSTANT StableTime

ASSUME LiveAssumption == StableTime \in 1 .. (MaxTime - 1)

VARIABLE calm    \* nothing fails any more

liveVars == <<vars, calm>>

\* The lock backend turns the request down, which is no fault.
Rejected(i) ==
    /\ UNCHANGED <<store, inflight>>
    /\ \/ CreateLockErr(i) /\ lock # None
       \/ CommitErr(i) /\ lock # log[i].lockCheckpoint

\* CreateLog takes an object for missing that is not.
FetchErr(i) == CreateCheck(i) /\ (lock # None \/ pub # None)

Step(i) ==
    /\ Create(i) \/ Progress(i) \/ Rejected(i)
    /\ ~FetchErr(i)
    /\ calm \/ round'[i].next.time <= StableTime
    /\ UNCHANGED calm

Faulty(i) ==
    /\ ~calm
    /\ Fault(i) \/ FetchErr(i)
    /\ round'[i].next.time <= StableTime
    /\ UNCHANGED calm

Settle ==
    /\ ~calm
    /\ calm' = TRUE
    /\ UNCHANGED vars

LiveNext ==
    \/ \E i \in Instances : Step(i) \/ Faulty(i)
    \/ Land /\ UNCHANGED calm
    \/ Settle

LiveSpec ==
    /\ Init /\ calm = FALSE
    /\ [][LiveNext]_liveVars
    /\ \A i \in Instances : WF_liveVars(Step(i))
    /\ WF_liveVars(Settle)

(* Every leaf in the lock backend's tree is eventually published.  Neither *)
(* LoadLog, which only uploads the missing tiles, nor the sequencer, which *)
(* shrugs off a failed upload of the checkpoint, retries it: publication   *)
(* relies on every later round, even an empty one, uploading its own.      *)
CommittedIsPublished ==
    \A n \in 1 .. MaxSize :
        (lock # None /\ Len(lock.tree) >= n) ~> (pub # None /\ Len(pub.tree) >= n)

(* "On the inception date, the log will be created if it doesn't exist"    *)
(* (cmd/sunlight/main.go): some instance gets to run its sequencer.        *)
LogCreated == <>(\E i \in Instances : pc[i] = "idle")
=============================================================================
