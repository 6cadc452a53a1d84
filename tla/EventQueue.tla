------------------------------ MODULE EventQueue ------------------------------
(***************************************************************************)
(* The durable event queue: producers append batches of events to the      *)
(* store, and drainers (the daemon's flush and the guard hooks, one process *)
(* each) send what is queued to the control plane and acknowledge it.       *)
(*                                                                         *)
(* Every database operation is one bbolt write transaction, which holds the *)
(* database file's lock, so it is one action here; an append is a           *)
(* transaction too, but its events are inserted one action at a time into   *)
(* `work`, which becomes the store when it commits.  Drain holds no         *)
(* transaction while it sends: between FetchBatch and Acknowledge the store *)
(* may change under it.  The drain lock is a flock, which the system        *)
(* releases when its owner dies.                                           *)
(*                                                                         *)
(* The control plane accepts or rejects a request as a whole, and a request *)
(* it accepted may still end in an error for the client.                    *)
(***************************************************************************)
EXTENDS EventStore

CONSTANTS
    Drainers,       \* processes that may call Queue.Drain
    Daemon,         \* the one that calls it on every heartbeat
    AppendBatches,  \* arguments of AppendWithStats, as sequences of IDs
    BatchSize,      \* queueDrainBatchSize
    MaxBody,        \* maxEventRequestBodyBytes, less the JSON overhead
    MaxPost,        \* body size from which the control plane answers 413
    Poison,         \* IDs of events the control plane answers 400 to
    Unmatched,      \* IDs of the policy decisions filterUploadEvents drops
    MaxSeq,         \* bound on sequences
    MaxTime         \* bound on the clock

ASSUME QueueAssumption ==
    /\ Daemon \in Drainers
    /\ AppendBatches \subseteq Seq(IDs)
    /\ BatchSize \in Nat \ {0}
    /\ MaxBody \in Nat /\ MaxPost \in Nat
    /\ Poison \subseteq IDs /\ Unmatched \subseteq IDs
    /\ MaxSeq \in Nat /\ MaxTime \in Nat

VARIABLES
    db,         \* the committed store
    writing,    \* whether an append transaction is open
    work,       \* the store as the open transaction sees it
    todo,       \* IDs the open transaction has still to insert
    now,        \* the clock
    drainLock,  \* owners of the drain lock
    pc,         \* where each drainer is in Drain
    watermark,  \* last sequence each drainer drains
    batch,      \* sequence -> ID, of the batch each drainer sends
    unsent,     \* sequences of that batch not yet accepted
    halves,     \* requests left from the bisection of a rejected one
    received    \* <<sequence, ID>> of every event the control plane accepted

storeVars == <<db, writing, work, todo>>
drainVars == <<drainLock, pc, watermark, batch, unsent, halves>>
vars == <<storeVars, now, drainVars, received>>

Closed == StoreOf(<< >>)

Init ==
    /\ db \in {StoreOf(<< >>), StoreOf(Legacy)}
    /\ writing = FALSE /\ work = Closed /\ todo = << >>
    /\ now = 0
    /\ drainLock = {}
    /\ pc = [d \in Drainers |-> "idle"]
    /\ watermark = [d \in Drainers |-> 0]
    /\ batch = [d \in Drainers |-> << >>]
    /\ unsent = [d \in Drainers |-> {}]
    /\ halves = [d \in Drainers |-> {}]
    /\ received = {}

Tick ==
    /\ now < MaxTime
    /\ now' = now + 1
    /\ UNCHANGED <<storeVars, drainVars, received>>

(* Another process can open the database: open has backfilled it, and no    *)
(* append holds its file lock.                                             *)
CanTransact == db.indexed /\ ~writing

Open ==
    /\ ~db.indexed
    /\ db' = Backfill(db)
    /\ UNCHANGED <<writing, work, todo, now, drainVars, received>>

-----------------------------------------------------------------------------
(* AppendWithStats *)
BeginAppend(ids) ==
    /\ CanTransact
    /\ db.next + Len(ids) <= MaxSeq
    /\ writing' = TRUE
    /\ work' = PruneExpired(db, now)
    /\ todo' = ids
    /\ UNCHANGED <<db, now, drainVars, received>>

InsertNext(created) ==
    /\ writing /\ todo # << >>
    /\ work' = IF created < Cutoff(now) THEN work
               ELSE Insert(work, [id |-> Head(todo), created |-> created])
    /\ todo' = Tail(todo)
    /\ UNCHANGED <<db, writing, now, drainVars, received>>

EndAppend(store) ==
    /\ db' = store
    /\ writing' = FALSE /\ work' = Closed /\ todo' = << >>
    /\ UNCHANGED <<now, drainVars, received>>

CommitAppend ==
    /\ writing /\ todo = << >>
    /\ EndAppend(EvictOverCapacity(work))

(* An insert fails, or the process dies: bbolt rolls the transaction back.  *)
AbortAppend == writing /\ EndAppend(db)

-----------------------------------------------------------------------------
(* Drain *)
Goto(d, place) == pc' = [pc EXCEPT ![d] = place]

Release(d) ==
    /\ drainLock' = drainLock \ {d}
    /\ Goto(d, "idle")
    /\ watermark' = [watermark EXCEPT ![d] = 0]
    /\ batch' = [batch EXCEPT ![d] = << >>]
    /\ unsent' = [unsent EXCEPT ![d] = {}]
    /\ halves' = [halves EXCEPT ![d] = {}]

(* Faulty variant: the lock file is opened, but not locked exclusively. *)
AcquireLockShared(d) ==
    /\ pc[d] = "idle"
    /\ drainLock' = {d}
    /\ Goto(d, "locked")
    /\ UNCHANGED <<storeVars, now, watermark, batch, unsent, halves, received>>

AcquireLock(d) ==
    /\ pc[d] = "idle" /\ drainLock = {}
    /\ drainLock' = {d}
    /\ Goto(d, "locked")
    /\ UNCHANGED <<storeVars, now, watermark, batch, unsent, halves, received>>

TakeWatermark(d) ==
    /\ pc[d] = "locked" /\ CanTransact
    /\ db' = PruneExpired(db, now)
    /\ IF Seqs(db') = {}
       THEN Release(d)
       ELSE /\ watermark' = [watermark EXCEPT ![d] = Max(Seqs(db'))]
            /\ Goto(d, "fetch")
            /\ UNCHANGED <<drainLock, batch, unsent, halves>>
    /\ UNCHANGED <<writing, work, todo, now, received>>

(* The n least elements of S. *)
Least(n, S) == {s \in S : Cardinality({t \in S : t < s}) < n}

NextDrainBatch(store, limit) == Least(BatchSize, {s \in Seqs(store) : s <= limit})

FetchBatch(d) ==
    /\ pc[d] = "fetch" /\ CanTransact
    /\ db' = PruneExpired(db, now)
    /\ LET S == NextDrainBatch(db', watermark[d])
       IN  IF S = {}
           THEN Release(d)
           ELSE /\ batch' = [batch EXCEPT ![d] = [s \in S |-> db'.events[s].id]]
                /\ unsent' = [unsent EXCEPT ![d] =
                                {s \in S : db'.events[s].id \notin Unmatched}]
                /\ Goto(d, "send")
                /\ UNCHANGED <<drainLock, watermark, halves>>
    /\ UNCHANGED <<writing, work, todo, now, received>>

(* splitEventBatchesByEncodedSize: as many events as fit, and one at least.  *)
Bytes(d, S) == MapThenSumSet(LAMBDA s : Size[batch[d][s]], S)

FirstFitting(d) ==
    {s \in unsent[d] :
        LET upTo == {t \in unsent[d] : t <= s}
        IN  upTo = {s} \/ Bytes(d, upTo) <= MaxBody}

(* Faulty variant: the right half of a rejected request goes first. *)
RequestOfRightHalf(d) ==
    IF halves[d] = {} THEN FirstFitting(d)
    ELSE CHOOSE H \in halves[d] :
            \A G \in halves[d] : \E h \in H : \A g \in G : h >= g

(* The request posted next: the leftmost half of a rejected one, or the     *)
(* next part of the batch.                                                 *)
Request(d) ==
    IF halves[d] = {} THEN FirstFitting(d)
    ELSE CHOOSE H \in halves[d] :
            \A G \in halves[d] : \E h \in H : \A g \in G : h <= g

IDsOf(d, S) == {batch[d][s] : s \in S}

(* The control plane rejects a request permanently: 400 or 413. *)
Rejected(d, R) == IDsOf(d, R) \cap Poison # {} \/ Bytes(d, R) > MaxPost

Posting(d) == pc[d] = "send" /\ unsent[d] # {}

Receive(d, R) == received' = received \cup {<<s, batch[d][s]>> : s \in R}

(* Faulty variant: an accepted half stays among those to send. *)
PostAcceptedKeepingHalf(d) ==
    /\ Posting(d) /\ ~Rejected(d, Request(d))
    /\ Receive(d, Request(d))
    /\ unsent' = [unsent EXCEPT ![d] = @ \ Request(d)]
    /\ UNCHANGED <<storeVars, now, drainLock, pc, watermark, batch, halves>>

PostAccepted(d) ==
    /\ Posting(d) /\ ~Rejected(d, Request(d))
    /\ Receive(d, Request(d))
    /\ unsent' = [unsent EXCEPT ![d] = @ \ Request(d)]
    /\ halves' = [halves EXCEPT ![d] = @ \ {Request(d)}]
    /\ UNCHANGED <<storeVars, now, drainLock, pc, watermark, batch>>

(* The answer to an accepted request is lost: SendEvents returns an error. *)
PostLost(d) ==
    /\ Posting(d) /\ ~Rejected(d, Request(d))
    /\ Receive(d, Request(d))
    /\ Release(d)
    /\ UNCHANGED <<storeVars, now>>

(* Faulty variant: a rejected request is quarantined without bisection. *)
PostRejectedWhole(d) ==
    /\ Posting(d) /\ Rejected(d, Request(d))
    /\ halves' = [halves EXCEPT ![d] = {Request(d)}]
    /\ Goto(d, "quarantine")
    /\ UNCHANGED <<storeVars, now, drainLock, watermark, batch, unsent, received>>

(* Faulty variant: a rejected batch is fetched again. *)
PostRejectedRetries(d) ==
    /\ Posting(d) /\ Rejected(d, Request(d))
    /\ Goto(d, "fetch")
    /\ batch' = [batch EXCEPT ![d] = << >>]
    /\ unsent' = [unsent EXCEPT ![d] = {}]
    /\ halves' = [halves EXCEPT ![d] = {}]
    /\ UNCHANGED <<storeVars, now, drainLock, watermark, received>>

(* sendEventBatch bisects a rejected request; one of a single event is      *)
(* reported to Drain.                                                      *)
PostRejected(d) ==
    /\ Posting(d) /\ Rejected(d, Request(d))
    /\ LET R == Request(d)
           left == Least(Cardinality(R) \div 2, R)
       IN  IF Cardinality(R) > 1
           THEN /\ halves' = [halves EXCEPT ![d] = (@ \ {R}) \cup {left, R \ left}]
                /\ pc' = pc
           ELSE /\ halves' = [halves EXCEPT ![d] = {R}]
                /\ Goto(d, "quarantine")
    /\ UNCHANGED <<storeVars, now, drainLock, watermark, batch, unsent, received>>

(* Drain goes on with the next batch. *)
NextBatch(d) ==
    /\ Goto(d, "fetch")
    /\ batch' = [batch EXCEPT ![d] = << >>]
    /\ unsent' = [unsent EXCEPT ![d] = {}]
    /\ halves' = [halves EXCEPT ![d] = {}]
    /\ UNCHANGED <<writing, work, todo, now, drainLock, watermark, received>>

(* Faulty variant: part of the batch is acknowledged before it is sent. *)
AcknowledgeEarly(d) ==
    /\ pc[d] = "send" /\ CanTransact
    /\ db' = DeleteQueued(RecordDelivered(db, IDsOf(d, DOMAIN batch[d]), now),
                          DOMAIN batch[d])
    /\ NextBatch(d)

(* Faulty variant: the events acknowledged are found by ID. *)
AcknowledgeByID(d) ==
    LET ids == IDsOf(d, DOMAIN batch[d])
    IN  /\ pc[d] = "send" /\ unsent[d] = {} /\ CanTransact
        /\ db' = DeleteQueued(RecordDelivered(db, ids, now),
                              {db.byID[id] : id \in ids \cap DOMAIN db.byID})
        /\ NextBatch(d)

Acknowledge(d) ==
    /\ pc[d] = "send" /\ unsent[d] = {} /\ CanTransact
    /\ db' = DeleteQueued(RecordDelivered(db, IDsOf(d, DOMAIN batch[d]), now),
                          DOMAIN batch[d])
    /\ NextBatch(d)

(* Faulty variant: the quarantined events stay in the queue. *)
QuarantineCopies(d) ==
    /\ pc[d] = "quarantine" /\ CanTransact
    /\ db' = [db EXCEPT !.quarantine = @ \cup IDsOf(d, Request(d))]
    /\ NextBatch(d)

(* quarantineRejectedEvents: every event of the batch with the rejected ID. *)
Quarantine(d) ==
    LET ids == IDsOf(d, Request(d))
    IN  /\ pc[d] = "quarantine" /\ CanTransact
        /\ db' = DeleteQueued([db EXCEPT !.quarantine = @ \cup ids],
                              {s \in DOMAIN batch[d] : batch[d][s] \in ids})
        /\ NextBatch(d)

(* Any step of Drain may return an error (a request that never arrived, a   *)
(* locked database), and its process may die anywhere.                     *)
GiveUp(d) ==
    /\ pc[d] # "idle"
    /\ Release(d)
    /\ UNCHANGED <<storeVars, now, received>>

-----------------------------------------------------------------------------
AppendEvents ==
    \/ \E ids \in AppendBatches : BeginAppend(ids)
    \/ \E created \in 0 .. now : InsertNext(created)
    \/ CommitAppend
    \/ AbortAppend

Drain(d) ==
    \/ AcquireLock(d)
    \/ TakeWatermark(d)
    \/ FetchBatch(d)
    \/ PostAccepted(d)
    \/ PostLost(d)
    \/ PostRejected(d)
    \/ Acknowledge(d)
    \/ Quarantine(d)
    \/ GiveUp(d)

Next == Tick \/ Open \/ AppendEvents \/ \E d \in Drainers : Drain(d)

Spec == Init /\ [][Next]_vars

(* An append finishes, and so does a Drain, since file locks and HTTP        *)
(* requests time out; the daemon drains again and again, and polls for the  *)
(* drain lock long enough to have its turn.                                *)
InDrain(d) == pc[d] # "idle" /\ Drain(d)

Failure == AbortAppend \/ \E d \in Drainers : PostLost(d) \/ GiveUp(d)

Fairness ==
    /\ WF_vars(Open \/ (writing /\ AppendEvents))
    /\ WF_vars(\E d \in Drainers : InDrain(d))
    /\ SF_vars(AcquireLock(Daemon))

(* A failure may come at any step, but there is a last one. *)
FailuresEnd == <>[][~Failure]_vars

FairSpec == Spec /\ Fairness /\ FailuresEnd

-----------------------------------------------------------------------------
Places == {"idle", "locked", "fetch", "send", "quarantine"}

(* The variables have the types their uses need; the requests of a drainer  *)
(* are parts of its batch.                                                 *)
TypeOK ==
    /\ StoreType(db) /\ StoreType(work)
    /\ writing \in BOOLEAN
    /\ todo \in Seq(IDs)
    /\ now \in Nat
    /\ drainLock \subseteq Drainers
    /\ pc \in [Drainers -> Places]
    /\ watermark \in [Drainers -> Nat]
    /\ \A d \in Drainers :
        /\ batch[d] \in [DOMAIN batch[d] -> IDs]
        /\ DOMAIN batch[d] \subseteq 1 .. db.next
        /\ unsent[d] \subseteq DOMAIN batch[d]
        /\ \A H \in halves[d] : H # {} /\ H \subseteq unsent[d]
    /\ DOMAIN batch = Drainers /\ DOMAIN unsent = Drainers
    /\ DOMAIN halves = Drainers
    /\ received \subseteq (1 .. db.next) \X IDs

(* The seven buckets of the store agree with one another after every        *)
(* transaction, and inside one after every event inserted: the time index,  *)
(* both ID indexes, the delivery indexes and the event count describe the   *)
(* events that are there.                                                  *)
StoreConsistent == Consistent(db) /\ Consistent(work)

(* The byte count that decides about eviction is that of the events stored. *)
BytesConsistent == BytesMatchEvents(db) /\ BytesMatchEvents(work)

(* The committed store never holds more than queueMaxBytes, once an append  *)
(* has gone through it.                                                    *)
CapacityRespected == db.bytes <= MaxBytes \/ db.next = Len(Legacy)

(* Two drainers never send the same queued event at the same time, and only *)
(* the owner of the drain lock sends.                                      *)
OneSender ==
    /\ \A d \in Drainers : pc[d] # "idle" => drainLock = {d}
    /\ \A d, e \in Drainers : d # e => DOMAIN batch[d] \cap DOMAIN batch[e] = {}

AcceptedIDs == {r[2] : r \in received}

(* An ID is recorded as delivered, and its later events dropped as          *)
(* duplicates, only when the control plane accepted an event with it or it  *)
(* is one the client never uploads.                                        *)
DeliveredWasAccepted == DOMAIN db.delivered \subseteq AcceptedIDs \cup Unmatched

(* Bisection blames the right event: one is quarantined only if the control *)
(* plane rejects it when it is posted alone.                               *)
QuarantineJustified ==
    \A id \in db.quarantine : id \in Poison \/ Size[id] > MaxPost

(* What may happen to a queued event that is no longer queued. *)
WasAccepted(s) == <<s, db.events[s].id>> \in received
WasFiltered(s) == db.events[s].id \in Unmatched
WasQuarantined(s) == db.events[s].id \in db'.quarantine
WasExpired(s) == db.events[s].created < Cutoff(now)
WasSuperseded(s) ==
    /\ db.events[s].id \in Snapshots
    /\ \E t \in Seqs(work) : t > s /\ work.events[t].id = db.events[s].id
WasEvicted(s) ==
    LET younger == {t \in Seqs(work) : ~KeyBefore(TimeKey(work, t), TimeKey(work, s))}
    IN  /\ s \in Seqs(work)
        /\ BytesOf(work, younger) > MaxBytes
        /\ Seqs(db') \subseteq younger

(* No event is lost: one leaves the queue because the control plane         *)
(* accepted that very event, because it is one the client filters out,      *)
(* because its ID is quarantined, because it is older than queueMaxAge,     *)
(* because an append queued a newer snapshot, or because an append evicted  *)
(* it: the events not older than it exceed the limit, and none older stays. *)
LeavesForAReason ==
    \A s \in Seqs(db) \ Seqs(db') :
        \/ WasAccepted(s) \/ WasFiltered(s) \/ WasQuarantined(s)
        \/ WasExpired(s) \/ WasSuperseded(s) \/ WasEvicted(s)

EventsLeaveForAReason == [][LeavesForAReason]_vars

(* What a drainer has still to quarantine. *)
InQuarantine == {d \in Drainers : pc[d] = "quarantine"}
Rejects == UNION {{<<s, batch[d][s]>> : s \in UNION halves[d]} : d \in InQuarantine}

Out == INSTANCE Outbox
         WITH queue <- db.events, last <- db.next, sent <- received,
              rejected <- Rejects, refused <- db.quarantine,
              Withheld <- Unmatched, Replaced <- Snapshots

(* Whatever drainers, appends, retention, rejections and crashes do, the     *)
(* queue is an outbox: Drain sends in the order of acceptance, never passes *)
(* over an event that is queued before the one it sends or quarantines, and *)
(* only what was sent, rejected, replaced or the oldest leaves.            *)
IsOutbox == Out!Spec

(* No poisoned event, crash or concurrent drain holds the queue up for      *)
(* ever: every queued event leaves it in the end.                          *)
EventuallySettled ==
    \A s \in 1 .. MaxSeq : s \in Seqs(db) ~> s \notin Seqs(db)

(* Every Drain ends, and lets the next drainer in. *)
DrainEnds == \A d \in Drainers : pc[d] # "idle" ~> pc[d] = "idle"
=============================================================================
