----------------------------- MODULE MCCodexTurns -----------------------------
(* A session alone, and a session with a fork of it. *)
EXTENDS CodexTurns, TLC

CONSTANTS root, fork

MCSessions == {root, fork}
MCParentOf == root :> NoSession @@ fork :> root

(* Before the upgrade both were filed under the session_id of the root. *)
MCLegacyOf == root :> NoSession @@ fork :> root
NoLegacy == root :> NoSession @@ fork :> NoSession

(* A turn that ended, and is the part that was copied of the root. *)
Turn1 == <<StartRecord(<<root, 1>>), TokensRecord(1), DoneRecord(<<root, 1>>)>>

Empty == root :> <<>> @@ fork :> <<>>
OneTurn == root :> Turn1 @@ fork :> <<>>
BothRunning ==
    root :> Turn1
 @@ fork :> Turn1 \o <<StartRecord(<<fork, 2>>), TokensRecord(2), DoneRecord(<<fork, 2>>)>>

Alone == [recordings |-> {Empty}, oldReads |-> {}, forks |-> {}, piecewise |-> FALSE,
          optional |-> {"repeat", "unnamed"}, records |-> 4, rounds |-> 3, moves |-> 1]
Forked == [recordings |-> {OneTurn, BothRunning}, oldReads |-> {2, 3, 5},
           forks |-> {fork}, piecewise |-> TRUE,
           optional |-> {}, records |-> 3, rounds |-> 2, moves |-> 0]
Split == [recordings |-> {OneTurn}, oldReads |-> {}, forks |-> {fork}, piecewise |-> TRUE,
          optional |-> {}, records |-> 0, rounds |-> 3, moves |-> 0]

AloneAndForked == <<Alone, Forked>>
OnlySplit == <<Split>>
===============================================================================
