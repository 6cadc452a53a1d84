--------------------------- MODULE MCCodexTranscripts --------------------------
(* Small instances of CodexTranscripts: one rollout that grows and is written *)
(* again; rollouts found in any order and half written; rollouts a database   *)
(* may list, which may appear or be another between two collections; and a    *)
(* session that goes on in a second file, and is back in the first when that  *)
(* is archived, with more messages in between than a cursor remembers.       *)
EXTENDS CodexTranscripts

CONSTANTS s1, s2, p1, p2, p3, day1, day2, db, none

MCSessions == {s1, s2}
MCPaths == {p1, p2, p3}

(* The first session may go on in a file of another day. *)
MCSessionOf == [p \in MCPaths |-> IF p = p3 THEN s2 ELSE s1]
MCDirOf == [p \in MCPaths |-> IF p = p1 THEN day1 ELSE day2]

Grows == [paths |-> {p1}, lengths |-> {1, 2}, revised |-> TRUE, halves |-> FALSE,
          databases |-> {none}, time |-> 6, mishaps |-> 1]

Moves == [paths |-> MCPaths, lengths |-> {1}, revised |-> FALSE, halves |-> TRUE,
          databases |-> {none}, time |-> 5, mishaps |-> 1]

Lists == [paths |-> {p1, p3}, lengths |-> {1}, revised |-> FALSE, halves |-> FALSE,
          databases |-> {none, db}, time |-> 5, mishaps |-> 1]

Returns == [paths |-> {p1, p2}, lengths |-> {1}, revised |-> FALSE, halves |-> FALSE,
            databases |-> {none}, time |-> 8, mishaps |-> 0]

MCWorlds == <<Grows, Moves, Lists, Returns>>
=============================================================================
