----------------------------- MODULE ActivityDetails -----------------------------
(***************************************************************************)
(* Activity details (src/pkg/activitydetail): what the local page of a       *)
(* prompt shows, one file per prompt.  The hook of the prompt creates it and  *)
(* records in it the context rules that matched and the output of the turn    *)
(* before; clean-ups remove what expired, keep the number of files within a   *)
(* limit and move over the files of the layout before.                       *)
(*                                                                         *)
(* The operators are what is done to the files under the store's one lock.   *)
(* A detail is named by its prompt; the names of files are drawn at random,   *)
(* which Name stands for.  A file is replaced whole, so that one that is too  *)
(* long or cannot be decoded does not come up; what the rules are is          *)
(* CommandGuard's, and here a detail has context or has none.                *)
(***************************************************************************)
EXTENDS Integers, Sequences, SequencesExt, FiniteSets, FiniteSetsExt, Keep

CONSTANTS
    Prompts,            \* whose details there are
    Name,               \* the place of a prompt's file among the names
    DetailTTL,          \* detailTTL
    MaxDetails,         \* maxActivityDetails
    DetailVisits,       \* maxCleanupVisits
    DetailRemovals      \* maxCleanupRemovals

ASSUME DetailAssumption ==
    /\ Name \in [Prompts -> Nat \ {0}]
    /\ \A p, q \in Prompts : Name[p] = Name[q] => p = q
    /\ {DetailTTL, MaxDetails, DetailVisits, DetailRemovals} \subseteq Nat \ {0}

VARIABLES
    details,        \* the files, those modified last at the end
    oldDetails,     \* the files of the layout before
    detailCursor,   \* where the removal of expired ones goes on
    lastWrites         \* history: every detail as it was written last

detailVars == <<details, oldDetails, detailCursor, lastWrites>>

Detail == [id : Prompts, since : Nat, context : BOOLEAN, output : SUBSET (Nat \X Nat)]

DetailExpired(d, now) == d.since + DetailTTL <= now

(* The file of a detail, if there is one *)
Of(files, id) == {d \in ToSet(files) : d.id = id}

Dropping(files, ids) == Keeping(files, {d \in Detail : d.id \notin ids})

Renewed(files, d) == Append(Dropping(files, {d.id}), d)

(* writeReplacing *)
WriteDetail(d) ==
    /\ details' = Renewed(details, d)
    /\ lastWrites' = Renewed(lastWrites, d)

NewDetail(id, now) == [id |-> id, since |-> now, context |-> FALSE, output |-> {}]

(* Store.update finds the detail as Get does: not if it expired. *)
Recordable(id, now) == \E d \in Of(details, id) : ~DetailExpired(d, now)

RecordContext(id) == \E d \in Of(details, id) : WriteDetail([d EXCEPT !.context = TRUE])

RecordOutcome(id, output) ==
    \E d \in Of(details, id) : WriteDetail([d EXCEPT !.output = output])

-----------------------------------------------------------------------------
IdsOf(files) == {d.id : d \in ToSet(files)}

(* readEntries: of more than n files, any n. *)
Entries(files, n) ==
    IF Cardinality(IdsOf(files)) <= n THEN {IdsOf(files)} ELSE kSubset(n, IdsOf(files))

(* Faulty variant: the details whose names come first go. *)
OldestByName(files, seen, n) ==
    {id \in seen : Cardinality({q \in seen : Name[q] < Name[id]}) < n}

(* Those of the n modified first. *)
Oldest(files, seen, n) ==
    LET place == [id \in seen |-> CHOOSE i \in DOMAIN files : files[i].id = id]
    IN  {id \in seen : Cardinality({q \in seen : place[q] < place[id]}) < n}

(* ensureCapacityLocked; the detail that was just written was modified last. *)
Trimmed(files) ==
    {LET over == Cardinality(seen) - MaxDetails
     IN  IF over <= 0 THEN files
         ELSE Dropping(files, Oldest(files, seen, Min({over, DetailRemovals}))) :
       seen \in Entries(files, MaxDetails + DetailRemovals + 1)}

(* Store.create *)
CreateDetail(id, now) ==
    /\ \E written \in {Renewed(details, NewDetail(id, now))} : details' \in Trimmed(written)
    /\ lastWrites' = Renewed(lastWrites, NewDetail(id, now))

(* cleanupExpiredLocked: the files behind the cursor, up to the one that      *)
(* reaches a limit.                                                        *)
ExpiredDetails(now) == {d.id : d \in {e \in ToSet(details) : DetailExpired(e, now)}}

Reached(ids, now) ==
    \/ Cardinality(ids) >= DetailVisits
    \/ Cardinality(ids \cap ExpiredDetails(now)) >= DetailRemovals

RemoveExpiredAndTrim(now) ==
    \E seen \in Entries(details, MaxDetails + 1) :
        LET behind == {id \in seen : Name[id] > detailCursor}
            visited == {id \in behind : ~Reached({q \in behind : Name[q] < Name[id]}, now)}
        IN  /\ \E left \in {Dropping(details, visited \cap ExpiredDetails(now))} :
                details' \in Trimmed(left)
            /\ detailCursor' = IF Reached(visited, now)
                               THEN Max({Name[id] : id \in visited}) ELSE 0

(* migrateVersionThreeLocked, for one file: not one that expired, nor one      *)
(* that was moved before.                                                   *)
Movable(now) ==
    {d \in oldDetails : ~DetailExpired(d, now) /\ Of(details, d.id) = {}}

DetailsTypeOK ==
    /\ details \in Seq(Detail) /\ oldDetails \in SUBSET Detail /\ lastWrites \in Seq(Detail)
    /\ \A i, j \in DOMAIN details : details[i].id = details[j].id => i = j
    /\ detailCursor \in Nat
=============================================================================
