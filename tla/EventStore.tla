----------------------------- MODULE EventStore -----------------------------
(***************************************************************************)
(* The transactional event database queue-v3.db (src/pkg/eventqueue).      *)
(*                                                                         *)
(* A store is a record with one field per bbolt bucket, and each operator  *)
(* below is what one function of the package does to the buckets inside a  *)
(* transaction.  Buckets are finite partial functions (or sets, when their *)
(* values are empty), keyed as in the code:                                *)
(*                                                                         *)
(*   events         sequence -> event            "events"                  *)
(*   times          <<created, sequence>>        "event_times"             *)
(*   byID           event ID -> sequence         "events_by_id"            *)
(*   bySeq          sequence -> event ID         "events_by_sequence"      *)
(*   delivered      event ID -> delivery time    "delivered_by_id"         *)
(*   deliveredTimes <<time, event ID>>           "delivered_by_time"       *)
(*   quarantine     event IDs                    "quarantine"              *)
(*   count, bytes, next, indexed                 "meta"                    *)
(*                                                                         *)
(* An event is its ID and its creation time; its encoded length is a       *)
(* function of the ID.  Payloads are left out: no operator looks at them.  *)
(***************************************************************************)
EXTENDS Integers, Sequences, FiniteSets, Functions, FiniteSetsExt

CONSTANTS
    IDs,        \* event IDs
    Snapshots,  \* IDs of compactableSnapshotEventTypes
    Size,       \* encoded length of the event with an ID
    MaxAge,     \* queueMaxAge
    MaxBytes,   \* queueMaxBytes
    Legacy      \* events a database written before the ID indexes may hold

Event == [id : IDs, created : Nat]

ASSUME StoreAssumption ==
    /\ Snapshots \subseteq IDs
    /\ Size \in [IDs -> Nat \ {0}]
    /\ MaxAge \in Nat
    /\ MaxBytes \in Nat
    /\ Legacy \in Seq(Event)

(* bbolt's Put on a bucket. *)
Put(f, k, v) == [x \in DOMAIN f \cup {k} |-> IF x = k THEN v ELSE f[x]]

Seqs(d) == DOMAIN d.events

TimeKey(d, s) == <<d.events[s].created, s>>

(* Byte order of two event_times keys: creation time, then sequence. *)
KeyBefore(k, l) == k[1] < l[1] \/ (k[1] = l[1] /\ k[2] < l[2])

BytesOf(d, S) == MapThenSumSet(LAMBDA s : Size[d.events[s].id], S \cap Seqs(d))

Cutoff(time) == time - MaxAge

-----------------------------------------------------------------------------
(* What NewQueue and open find on disk: events written before the ID       *)
(* indexes existed (none of them for a new file), not yet backfilled.      *)
StoreOf(events) ==
    [events |-> events,
     times |-> {<<events[s].created, s>> : s \in DOMAIN events},
     byID |-> << >>, bySeq |-> << >>,
     delivered |-> << >>, deliveredTimes |-> {}, quarantine |-> {},
     count |-> Len(events),
     bytes |-> MapThenSumSet(LAMBDA s : Size[events[s].id], DOMAIN events),
     next |-> Len(events),
     indexed |-> FALSE]

(* backfillQueuedEventIDs: the cursor runs in sequence order, so the last  *)
(* event of an ID is the one events_by_id keeps.                           *)
Backfill(d) ==
    LET carriers(id) == {s \in Seqs(d) : d.events[s].id = id}
    IN  [d EXCEPT
            !.byID = [id \in {d.events[s].id : s \in Seqs(d)} |->
                        CHOOSE s \in carriers(id) : \A t \in carriers(id) : t <= s],
            !.bySeq = [s \in Seqs(d) |-> d.events[s].id],
            !.indexed = TRUE]

(* Faulty variant: the byte count is not decremented. *)
DeleteQueuedKeepingBytes(d, S) ==
    LET gone == S \cap Seqs(d)
    IN  [d EXCEPT
            !.events = Restrict(@, Seqs(d) \ gone),
            !.times = @ \ {TimeKey(d, s) : s \in gone},
            !.byID = Restrict(@, {id \in DOMAIN @ : @[id] \notin gone}),
            !.bySeq = Restrict(@, DOMAIN @ \ gone),
            !.count = @ - Cardinality(gone)]

(* deleteQueuedEvent, for every sequence of S: an events_by_id entry goes   *)
(* only when it names the sequence deleted.                                *)
DeleteQueued(d, S) ==
    LET gone == S \cap Seqs(d)
        freed == {id \in DOMAIN d.byID :
                    LET s == d.byID[id]
                    IN  s \in gone /\ s \in DOMAIN d.bySeq /\ d.bySeq[s] = id}
    IN  [d EXCEPT
            !.events = Restrict(@, Seqs(d) \ gone),
            !.times = @ \ {TimeKey(d, s) : s \in gone},
            !.byID = Restrict(@, DOMAIN @ \ freed),
            !.bySeq = Restrict(@, DOMAIN @ \ gone),
            !.count = @ - Cardinality(gone),
            !.bytes = @ - BytesOf(d, gone)]

(* pruneDeliveredEventIDs *)
PruneDelivered(d, cutoff) ==
    LET old == {k \in d.deliveredTimes : k[1] < cutoff}
    IN  [d EXCEPT
            !.delivered = Restrict(@, {id \in DOMAIN @ : <<@[id], id>> \notin old}),
            !.deliveredTimes = @ \ old]

(* pruneExpired *)
PruneExpired(d, time) ==
    LET p == PruneDelivered(d, Cutoff(time))
        stale == {k \in p.times : k[1] < Cutoff(time)}
    IN  DeleteQueued([p EXCEPT !.times = @ \ stale], {k[2] : k \in stale})

(* Faulty variant: eviction stops one event short. *)
OverCapacityOneShort(d) ==
    {s \in Seqs(d) :
        LET upTo == {t \in Seqs(d) : ~KeyBefore(TimeKey(d, s), TimeKey(d, t))}
        IN  d.bytes - BytesOf(d, upTo) > MaxBytes}

(* evictOverCapacity removes the oldest event while the byte count exceeds *)
(* the limit: an event goes exactly when what is left once every older one *)
(* has gone still exceeds it.                                              *)
OverCapacity(d) ==
    {s \in Seqs(d) :
        LET older == {t \in Seqs(d) : KeyBefore(TimeKey(d, t), TimeKey(d, s))}
        IN  d.bytes - BytesOf(d, older) > MaxBytes}

EvictOverCapacity(d) == DeleteQueued(d, OverCapacity(d))

(* insertQueuedEvent: an ID already quarantined, delivered or queued is     *)
(* dropped as a duplicate, except that a newer snapshot replaces the queued *)
(* one at a new sequence.                                                  *)
IsDuplicate(d, e) ==
    \/ e.id \in d.quarantine
    \/ e.id \in DOMAIN d.delivered
    \/ e.id \in DOMAIN d.byID /\ e.id \notin Snapshots

InsertFresh(d, e) ==
    LET s == d.next + 1
    IN  [d EXCEPT
            !.next = s,
            !.events = Put(@, s, e),
            !.times = @ \cup {<<e.created, s>>},
            !.byID = Put(@, e.id, s),
            !.bySeq = Put(@, s, e.id),
            !.count = @ + 1,
            !.bytes = @ + Size[e.id]]

Insert(d, e) ==
    IF IsDuplicate(d, e) THEN d
    ELSE IF e.id \in DOMAIN d.byID
         THEN InsertFresh(DeleteQueued(d, {d.byID[e.id]}), e)
         ELSE InsertFresh(d, e)

(* Faulty variant: the previous delivered_by_time key of an ID stays. *)
RecordDeliveredAgain(d, I, time) ==
    [d EXCEPT
        !.delivered = [id \in DOMAIN @ \cup I |-> IF id \in I THEN time ELSE @[id]],
        !.deliveredTimes = @ \cup {<<time, id>> : id \in I}]

(* recordDeliveredEventID, for every ID of I. *)
RecordDelivered(d, I, time) ==
    [d EXCEPT
        !.delivered = [id \in DOMAIN @ \cup I |-> IF id \in I THEN time ELSE @[id]],
        !.deliveredTimes =
            (@ \ {<<d.delivered[id], id>> : id \in I \cap DOMAIN d.delivered})
                \cup {<<time, id>> : id \in I}]

-----------------------------------------------------------------------------
(* The buckets, and the entries of "meta". *)
Buckets ==
    {"events", "times", "byID", "bySeq", "delivered", "deliveredTimes",
     "quarantine", "count", "bytes", "next", "indexed"}

(* The buckets of a store have the types their encodings decode to. *)
StoreType(d) ==
    /\ d = [f \in Buckets |-> d[f]]
    /\ d.next \in Nat
    /\ d.indexed \in BOOLEAN
    /\ d.events \in [Seqs(d) -> Event]
    /\ Seqs(d) \subseteq 1 .. d.next
    /\ d.byID \in [DOMAIN d.byID -> 1 .. d.next]
    /\ DOMAIN d.byID \subseteq IDs
    /\ d.bySeq \in [DOMAIN d.bySeq -> IDs]
    /\ d.delivered \in [DOMAIN d.delivered -> Nat]
    /\ DOMAIN d.delivered \subseteq IDs
    /\ d.quarantine \subseteq IDs

(* The time index names exactly the queued events. *)
TimesMatchEvents(d) == d.times = {TimeKey(d, s) : s \in Seqs(d)}

(* The two ID indexes agree with the events and with each other.  Events of *)
(* a database older than the indexes may share an ID; any later event is    *)
(* the one its ID's index entry names, so no two later events share one.    *)
IDIndexesMatchEvents(d) ==
    IF d.indexed
    THEN /\ d.bySeq = [s \in Seqs(d) |-> d.events[s].id]
         /\ \A id \in DOMAIN d.byID :
                /\ d.byID[id] \in Seqs(d)
                /\ d.events[d.byID[id]].id = id
         /\ \A s \in Seqs(d) :
                s > Len(Legacy) =>
                    /\ d.events[s].id \in DOMAIN d.byID
                    /\ d.byID[d.events[s].id] = s
    ELSE /\ DOMAIN d.bySeq = {}
         /\ DOMAIN d.byID = {}
         /\ Seqs(d) \subseteq 1 .. Len(Legacy)

(* delivered_by_id and delivered_by_time hold the same entries. *)
DeliveredIndexesMatch(d) ==
    d.deliveredTimes = {<<d.delivered[id], id>> : id \in DOMAIN d.delivered}

CountMatchesEvents(d) == d.count = Cardinality(Seqs(d))

BytesMatchEvents(d) == d.bytes = BytesOf(d, Seqs(d))

Consistent(d) ==
    /\ TimesMatchEvents(d)
    /\ IDIndexesMatchEvents(d)
    /\ DeliveredIndexesMatch(d)
    /\ CountMatchesEvents(d)
=============================================================================
