---------------------------- MODULE CASRegister -----------------------------
(***************************************************************************)
(* What a LockBackend promises: one register per log, replaced by          *)
(* compare-and-swap.  A call takes effect at most once, only if the        *)
(* register holds what the caller knew, and has taken effect when it       *)
(* returns without an error.  One that returns an error may have taken     *)
(* effect, or may do so later.                                             *)
(***************************************************************************)
EXTENDS Naturals

CONSTANTS Clients,   \* the Log instances that share the backend
          LogOf,     \* the log of each
          Bodies     \* checkpoints; no two that are signed are the same

VARIABLES reg,       \* the checkpoint of each log, 0 if there is none
          known,     \* the checkpoint that each client holds, 0 if none
          calls,     \* the call that each client waits for, or NoCall
          ops,       \* all calls that were ever made
          applied,   \* those of them that took effect
          acked      \* those of them that returned without an error

regVars == <<reg, known, calls, ops, applied, acked>>

NoCall == [new |-> 0]

RegInit ==
    /\ reg = [l \in {LogOf[c] : c \in Clients} |-> 0]
    /\ known = [c \in Clients |-> 0]
    /\ calls = [c \in Clients |-> NoCall]
    /\ ops = {} /\ applied = {} /\ acked = {}

\* Fetch returns the checkpoint of this moment.
ReadReg(c) ==
    /\ calls[c] = NoCall
    /\ reg[LogOf[c]] # 0
    /\ known' = [known EXCEPT ![c] = reg[LogOf[c]]]
    /\ UNCHANGED <<reg, calls, ops, applied, acked>>

\* Replace what the client knows by something new; Create if that is nothing.
CallCAS(c) ==
    \E new \in Bodies, old \in {0, known[c]} :
        LET op == [log |-> LogOf[c], old |-> old, new |-> new]
        IN  /\ calls[c] = NoCall
            /\ \A o \in ops : o.new # new
            /\ calls' = [calls EXCEPT ![c] = op]
            /\ ops' = ops \cup {op}
            /\ UNCHANGED <<reg, known, applied, acked>>

Swap ==
    \E op \in ops \ applied :
        /\ reg[op.log] = op.old
        /\ reg' = [reg EXCEPT ![op.log] = op.new]
        /\ applied' = applied \cup {op}
        /\ UNCHANGED <<known, calls, ops, acked>>

ReturnOK(c) ==
    /\ calls[c] \in applied
    /\ known' = [known EXCEPT ![c] = IF calls[c].old = 0 THEN @ ELSE calls[c].new]
    /\ calls' = [calls EXCEPT ![c] = NoCall]
    /\ acked' = acked \cup {calls[c]}
    /\ UNCHANGED <<reg, ops, applied>>

\* After an error the client gives up what it knew.
ReturnErr(c) ==
    /\ calls[c] # NoCall
    /\ known' = [known EXCEPT ![c] = 0]
    /\ calls' = [calls EXCEPT ![c] = NoCall]
    /\ UNCHANGED <<reg, ops, applied, acked>>

RegNext ==
    \/ \E c \in Clients : ReadReg(c) \/ CallCAS(c) \/ ReturnOK(c) \/ ReturnErr(c)
    \/ Swap

RegSpec == RegInit /\ [][RegNext]_regVars
=============================================================================
