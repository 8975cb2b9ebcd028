-------------------------------- MODULE CTLog --------------------------------
(***************************************************************************)
(* What a Certificate Transparency log promises, with no stores, no tiles, *)
(* no instances and no failures: one append-only sequence of leaves under  *)
(* a signed head, a tree the public sees, and the SCTs that were issued.   *)
(*                                                                         *)
(* Exclusive says whether a single process is writing.  If it is, the      *)
(* visible tree only grows and an SCT is issued for a visible leaf only.   *)
(* If it is not, all that can be said is that both belong to the log.      *)
(***************************************************************************)
EXTENDS Integers, SequencesExt

CONSTANTS Cert, None, Exclusive

Leaf == [cert : Cert, idx : Nat, ts : Nat]
Checkpoint == [tree : Seq(Leaf), time : Nat]

VARIABLES head,      \* the signed head, or None before the log is created
          visible,   \* the head the public sees, or None
          promised   \* the leaves that SCTs were issued for

vars == <<head, visible, promised>>

Init ==
    /\ head = None
    /\ visible = None
    /\ promised = {}

Create ==
    /\ head = None
    /\ head' \in Checkpoint
    /\ head'.tree = <<>>
    /\ UNCHANGED <<visible, promised>>

\* The log grows by some leaves (or by none), numbered on from the last and
\* stamped with the time of the new head.
Grow ==
    /\ head # None
    /\ head' \in Checkpoint
    /\ head'.time > head.time
    /\ IsPrefix(head.tree, head'.tree)
    /\ \A j \in (Len(head.tree) + 1) .. Len(head'.tree) :
          head'.tree[j].idx = j - 1 /\ head'.tree[j].ts = head'.time
    /\ UNCHANGED <<visible, promised>>

Show ==
    /\ head # None
    /\ visible' \in Checkpoint
    /\ IsPrefix(visible'.tree, head.tree)
    /\ visible'.time <= head.time
    /\ (Exclusive /\ visible # None) => IsPrefix(visible.tree, visible'.tree)
    /\ UNCHANGED <<head, promised>>

Promise ==
    /\ visible # None
    /\ promised \subseteq promised'
    /\ promised' \ promised \subseteq Range(IF Exclusive THEN visible.tree ELSE head.tree)
    /\ UNCHANGED <<head, visible>>

Next == Create \/ Grow \/ Show \/ Promise

Spec == Init /\ [][Next]_vars
=============================================================================
