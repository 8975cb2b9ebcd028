------------------------------- MODULE MCLock -------------------------------
(* An instance of LockBackend for TLC: c1 and c2 are two logs of a         *)
(* process, c3 is a second instance of the first log in another process.   *)
EXTENDS LockBackend, TLC

CONSTANTS c1, c2, c3

MCLogOf == c1 :> "A" @@ c2 :> "B" @@ c3 :> "A"
MCProcOf == c1 :> "P" @@ c2 :> "P" @@ c3 :> "Q"
=============================================================================
