------------------------------ MODULE Process -------------------------------
(***************************************************************************)
(* The lifecycle of the process around Pool: main runs the sequencers of   *)
(* its logs in an errgroup, next to the HTTP server.  The log of Pool is   *)
(* one of two; of the other only its sequencer matters.  Everything that   *)
(* ends the service must end in os.Exit(1), after which the service        *)
(* manager (Restart=on-failure) starts the process again; a process that   *)
(* hung with one of its logs stopped would refuse that log's submissions   *)
(* for good.                                                               *)
(***************************************************************************)
EXTENDS Pool

VARIABLES
    canceled,   \* sequencerContext is done
    other,      \* the sequencer of the other log runs
    serving     \* the HTTP server accepts requests

procVars == <<canceled, other, serving>>
allVars == <<vars, procVars>>

ProcInit ==
    /\ Init
    /\ canceled = FALSE
    /\ other = TRUE
    /\ serving = TRUE

-----------------------------------------------------------------------------

\* SIGINT, or ListenAndServe returned and stop() was called: ctx is done.
Interrupt ==
    /\ seq # "down"
    /\ serving
    /\ canceled' = TRUE
    /\ UNCHANGED <<vars, other, serving>>

\* (Mutant: the sequencers run with ctx instead of sequencerContext.)
StopsAlone ==
    /\ StopSequencer
    /\ UNCHANGED procVars

\* RunSequencer returns, always with an error: the errgroup cancels
\* sequencerContext.
Stops ==
    /\ StopSequencer
    /\ canceled' = TRUE
    /\ UNCHANGED <<other, serving>>

\* RunSequencer returns from its select, once its context is done.
CeaseCanceled ==
    /\ canceled
    /\ Cease
    /\ UNCHANGED procVars

\* A round of no leaves has a fatal error.
CeaseFatal ==
    /\ Cease
    /\ UNCHANGED procVars

OtherCeases ==
    /\ seq # "down" /\ other
    /\ other' = FALSE
    /\ canceled' = TRUE
    /\ UNCHANGED <<vars, serving>>

OtherCeasesCanceled == canceled /\ OtherCeases

\* sequencerGroup.Wait returns, and Shutdown closes the listeners.
Shutdown ==
    /\ seq = "stopped" /\ ~other
    /\ serving
    /\ serving' = FALSE
    /\ UNCHANGED <<vars, canceled, other>>

\* The process is gone: it was killed, or Shutdown ran into its timeout.
Ended ==
    /\ Crash
    /\ serving' = FALSE /\ other' = FALSE /\ canceled' = TRUE

\* Shutdown has waited for the requests in flight, and then os.Exit.
Exit ==
    /\ seq = "stopped" /\ ~serving
    /\ \A r \in Requests : ~InFlight(r)
    /\ Ended

\* Every log is loaded and its sequencer started, and then the server.
Start ==
    /\ Restart
    /\ canceled' = FALSE /\ other' = TRUE /\ serving' = TRUE

-----------------------------------------------------------------------------

Round == seq # "stop" /\ Sequencer /\ UNCHANGED procVars

Serve(r) == Handle(r) /\ UNCHANGED procVars

ProcNext ==
    \/ /\ serving
       /\ \E r \in Requests, e \in Endpoints, chain \in Chains : Submit(r, e, chain)
       /\ UNCHANGED procVars
    \/ \E r \in Requests : Serve(r)
    \/ Round \/ Stops
    \/ CeaseCanceled \/ CeaseFatal \/ OtherCeases
    \/ Interrupt \/ Shutdown \/ Ended \/ Exit \/ Start

(* Goroutines are scheduled, tickers fire, a canceled context is noticed   *)
(* and every call to a backend ends: a round's within sequenceTimeout, an  *)
(* upload of an issuer with the retries of its client.  Nothing is assumed *)
(* of what comes from outside (requests, signals, fatal errors, kills and  *)
(* restarts), nor of the ten seconds after which Shutdown gives up: the    *)
(* requests in flight are to end by themselves.                            *)
ProcSpec ==
    /\ ProcInit /\ [][ProcNext]_allVars
    /\ WF_allVars(Round) /\ WF_allVars(Stops)
    /\ WF_allVars(CeaseCanceled) /\ WF_allVars(OtherCeasesCanceled)
    /\ WF_allVars(Shutdown) /\ WF_allVars(Exit)
    /\ \A r \in Requests : WF_allVars(Serve(r))

-----------------------------------------------------------------------------
(* Properties.                                                             *)

(* Every submission is answered, without giving up first: its pool is      *)
(* closed by the round that takes it or by RunSequencer when it stops      *)
(* ("return errors for all pending and future leaves"), and needs neither  *)
(* the death of the process nor the timeout of Shutdown.                   *)
EveryoneAnswered == \A r \in Requests : InFlight(r) ~> ~InFlight(r)

(* When the sequencer of any log stops, for whatever reason, the process   *)
(* exits, so that it is started again, instead of living on and refusing   *)
(* every submission to that log.                                           *)
StoppedExits == (seq = "stopped" \/ ~other) ~> (seq = "down")
=============================================================================
