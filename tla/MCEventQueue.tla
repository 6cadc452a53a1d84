----------------------------- MODULE MCEventQueue -----------------------------
(* Small instances of EventQueue. *)
EXTENDS EventQueue

CONSTANTS turn, snapshot, bad, decision, daemon, hook

MCIDs == {turn, snapshot, bad, decision}
MCDrainers == {daemon, hook}
MCSnapshots == {snapshot}
MCSize == [id \in MCIDs |-> IF id = snapshot THEN 2 ELSE 1]
MCPoison == {bad}
MCUnmatched == {decision}

(* A turn travels with a snapshot, which a newer one may replace, and a      *)
(* poisoned event with a policy decision that is never uploaded.           *)
MCBatches == {<<turn, snapshot>>, <<snapshot>>, <<bad, decision>>}

(* A database older than the ID indexes may hold an event twice. *)
MCLegacy == <<[id |-> bad, created |-> 0], [id |-> bad, created |-> 0]>>
=============================================================================
