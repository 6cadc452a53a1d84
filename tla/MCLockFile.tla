------------------------------ MODULE MCLockFile ------------------------------
(* Two threads of the daemon and one of a hook on the same lock. *)
EXTENDS LockFile, TLC

CONSTANTS t1, t2, h1, daemon, hook

MCThreads == {t1, t2, h1}
MCProcessOf == t1 :> daemon @@ t2 :> daemon @@ h1 :> hook

===============================================================================
