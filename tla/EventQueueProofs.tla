--------------------------- MODULE EventQueueProofs ---------------------------
(***************************************************************************)
(* Invariants of the event queue, for any number of drainers, IDs, batches  *)
(* and any limits.                                                          *)
(*                                                                         *)
(* First what each operation of the store preserves, for every store: its   *)
(* types (StoreType), that its buckets agree (Consistent), that its byte     *)
(* count is the sum of the encoded lengths of its events, and that a commit  *)
(* respects the limit on it.                                                *)
(*                                                                         *)
(* Then the types (TypeOK), the agreement of the buckets (StoreConsistent),  *)
(* the exclusive drain (OneSender) and that an ID counts as delivered only   *)
(* when it was (DeliveredWasAccepted).  Together they are inductive once     *)
(* strengthened by what an open append knows of the store it started from    *)
(* (AppendInv), by when a drainer holds a batch (BatchInv), by what it knows *)
(* of the events it no longer has to send (SentInv), and by the requests of  *)
(* a bisection having no event in common (HalvesInv).                       *)
(*                                                                         *)
(* Then what the queue promises: the byte count and the limit on it, that    *)
(* only the guilty are quarantined, that no event is lost without a reason,  *)
(* and that the queue implements Outbox.                                    *)
(***************************************************************************)
EXTENDS EventQueue, DataProofs

-----------------------------------------------------------------------------
(* The properties the lemmas carry from one store to the next. *)
Sound(d) == StoreType(d) /\ Consistent(d)

(* A store's sequences are finitely many. *)
LEMMA FiniteSeqs ==
    ASSUME NEW d, StoreType(d)
    PROVE  IsFiniteSet(Seqs(d)) /\ Seqs(d) \subseteq Nat
<1>1. Seqs(d) \subseteq Nat /\ d.next \in Nat /\ \A s \in Seqs(d) : s <= d.next
  BY DEF StoreType
<1> QED  BY <1>1, FS_BoundedSetOfNaturals

(* The events_by_id entries that deleteQueuedEvent removes with S. *)
Freed(d, S) ==
    {id \in DOMAIN d.byID :
        /\ d.byID[id] \in S \cap Seqs(d)
        /\ d.byID[id] \in DOMAIN d.bySeq
        /\ d.bySeq[d.byID[id]] = id}

(* deleteQueuedEvent bucket by bucket: r is d without the events of S. *)
IsWithout(r, d, S) ==
    /\ r = [b \in Buckets |-> r[b]]
    /\ r.events = [s \in Seqs(d) \ S |-> d.events[s]]
    /\ r.times = d.times \ {TimeKey(d, s) : s \in S \cap Seqs(d)}
    /\ r.byID = [id \in DOMAIN d.byID \ Freed(d, S) |-> d.byID[id]]
    /\ r.bySeq = [s \in DOMAIN d.bySeq \ (S \cap Seqs(d)) |-> d.bySeq[s]]
    /\ r.delivered = d.delivered
    /\ r.deliveredTimes = d.deliveredTimes
    /\ r.quarantine = d.quarantine
    /\ r.count = d.count - Cardinality(S \cap Seqs(d))
    /\ r.next = d.next
    /\ r.indexed = d.indexed

(* deleteQueued is such a removal. *)
LEMMA DeleteQueuedFields ==
    ASSUME NEW d, StoreType(d), NEW S
    PROVE  IsWithout(DeleteQueued(d, S), d, S)
<1>1. Seqs(d) \ S = Seqs(d) \ (S \cap Seqs(d))
  OBVIOUS
<1> QED
  BY <1>1 DEF IsWithout, StoreType, Buckets, DeleteQueued, Restrict, Freed

(* Such an r is well typed, and has the other events. *)
LEMMA WithoutType ==
    ASSUME NEW d, StoreType(d), NEW S, NEW r, IsWithout(r, d, S)
    PROVE  StoreType(r) /\ Seqs(r) = Seqs(d) \ S
<1>1. Seqs(r) = Seqs(d) \ S
  BY DEF IsWithout, Seqs
<1>2. r.events \in [Seqs(r) -> Event] /\ Seqs(r) \subseteq 1 .. r.next
  <2>1. \A s \in Seqs(r) : d.events[s] \in Event
    BY <1>1 DEF StoreType
  <2>2. r.events = [s \in Seqs(r) |-> d.events[s]]
    BY <1>1 DEF IsWithout
  <2> QED  BY <1>1, <2>1, <2>2 DEF IsWithout, StoreType
<1>3. /\ r.byID \in [DOMAIN r.byID -> 1 .. r.next]
      /\ DOMAIN r.byID \subseteq IDs
  <2>1. r.byID = [id \in DOMAIN d.byID \ Freed(d, S) |-> d.byID[id]] /\ r.next = d.next
    BY DEF IsWithout
  <2>2. DOMAIN d.byID \subseteq IDs /\ \A id \in DOMAIN d.byID : d.byID[id] \in 1 .. d.next
    BY DEF StoreType
  <2> QED  BY <2>1, <2>2
<1>4. r.bySeq \in [DOMAIN r.bySeq -> IDs]
  BY DEF IsWithout, StoreType
<1> QED  BY <1>1, <1>2, <1>3, <1>4 DEF IsWithout, StoreType

(* The time index holds the keys of the events outside S, and no others but *)
(* keys of events of S.                                                    *)
TimesMatchOutside(d, S) ==
    /\ d.times \subseteq {TimeKey(d, s) : s \in Seqs(d)}
    /\ \A s \in Seqs(d) \ S : TimeKey(d, s) \in d.times

(* deleteQueuedEvent keeps the indexes and the count in step with the       *)
(* events, when its callers may have removed the time keys already.        *)
LEMMA DeleteQueuedSound ==
    ASSUME NEW d, StoreType(d), NEW S, TimesMatchOutside(d, S),
           IDIndexesMatchEvents(d), DeliveredIndexesMatch(d), CountMatchesEvents(d)
    PROVE  /\ Sound(DeleteQueued(d, S))
           /\ IsWithout(DeleteQueued(d, S), d, S)
           /\ Seqs(DeleteQueued(d, S)) = Seqs(d) \ S
<1>1. PICK r : r = DeleteQueued(d, S)
  OBVIOUS
<1>2. IsWithout(r, d, S)
  BY <1>1, DeleteQueuedFields
<1>3. StoreType(r) /\ Seqs(r) = Seqs(d) \ S
  BY <1>2, WithoutType
<1>4. \A s \in Seqs(r) : r.events[s] = d.events[s]
  BY <1>2, <1>3 DEF IsWithout
<1>5. TimesMatchEvents(r)
  <2>1. \A s \in Seqs(r) : TimeKey(r, s) = TimeKey(d, s)
    BY <1>4 DEF TimeKey
  <2>2. \A s, t \in Seqs(d) : TimeKey(d, s) = TimeKey(d, t) => s = t
    BY DEF TimeKey
  <2>3. r.times = d.times \ {TimeKey(d, s) : s \in S \cap Seqs(d)}
    BY <1>2 DEF IsWithout
  <2> QED
    BY <1>3, <2>1, <2>2, <2>3 DEF TimesMatchEvents, TimesMatchOutside
<1>6. IDIndexesMatchEvents(r)
  <2>1. /\ r.byID = [id \in DOMAIN d.byID \ Freed(d, S) |-> d.byID[id]]
        /\ r.bySeq = [s \in DOMAIN d.bySeq \ (S \cap Seqs(d)) |-> d.bySeq[s]]
        /\ r.indexed = d.indexed
    BY <1>2 DEF IsWithout
  <2>2. CASE d.indexed
    <3>1. d.bySeq = [s \in Seqs(d) |-> d.events[s].id]
      BY <2>2 DEF IDIndexesMatchEvents
    <3>2. \A id \in DOMAIN d.byID : /\ d.byID[id] \in Seqs(d)
                                    /\ d.events[d.byID[id]].id = id
                                    /\ d.bySeq[d.byID[id]] = id
      BY <2>2, <3>1 DEF IDIndexesMatchEvents
    <3>3. DOMAIN r.byID = {id \in DOMAIN d.byID : d.byID[id] \notin S}
      BY <2>1, <3>1, <3>2 DEF Freed
    <3>4. r.bySeq = [s \in Seqs(r) |-> r.events[s].id]
      <4>1. DOMAIN d.bySeq \ (S \cap Seqs(d)) = Seqs(r)
        BY <1>3, <3>1
      <4>2. \A s \in Seqs(r) : d.bySeq[s] = r.events[s].id
        BY <1>3, <1>4, <3>1
      <4> QED  BY <2>1, <4>1, <4>2
    <3>5. \A id \in DOMAIN r.byID : r.byID[id] \in Seqs(r) /\ r.events[r.byID[id]].id = id
      BY <1>3, <1>4, <2>1, <3>2, <3>3
    <3>6. \A s \in Seqs(r) : s > Len(Legacy) =>
              r.events[s].id \in DOMAIN r.byID /\ r.byID[r.events[s].id] = s
      BY <1>3, <1>4, <2>1, <2>2, <3>3 DEF IDIndexesMatchEvents
    <3> QED  BY <2>1, <2>2, <3>4, <3>5, <3>6 DEF IDIndexesMatchEvents
  <2>3. CASE ~d.indexed
    BY <1>3, <2>1, <2>3 DEF IDIndexesMatchEvents
  <2> QED  BY <2>2, <2>3
<1>7. DeliveredIndexesMatch(r)
  BY <1>2 DEF IsWithout, DeliveredIndexesMatch
<1>8. CountMatchesEvents(r)
  <2>1. r.count = d.count - Cardinality(S \cap Seqs(d))
    BY <1>2 DEF IsWithout
  <2>2. Cardinality(Seqs(d) \ S) = Cardinality(Seqs(d)) - Cardinality(Seqs(d) \cap S)
    BY FiniteSeqs, FS_Difference
  <2>3. S \cap Seqs(d) = Seqs(d) \cap S
    OBVIOUS
  <2> QED  BY <1>3, <2>1, <2>2, <2>3 DEF CountMatchesEvents
<1> QED
  BY <1>1, <1>2, <1>3, <1>5, <1>6, <1>7, <1>8 DEF Sound, Consistent

(* The ID indexes and the count depend on no bucket but these. *)
LEMMA SameEvents ==
    ASSUME NEW d, NEW r, r.events = d.events,
           r.byID = d.byID, r.bySeq = d.bySeq,
           r.indexed = d.indexed, r.count = d.count
    PROVE  /\ Seqs(r) = Seqs(d)
           /\ \A s : TimeKey(r, s) = TimeKey(d, s)
           /\ IDIndexesMatchEvents(d) => IDIndexesMatchEvents(r)
           /\ CountMatchesEvents(d) => CountMatchesEvents(r)
<1>1. Seqs(r) = Seqs(d)
  BY DEF Seqs
<1>2. \A s : TimeKey(r, s) = TimeKey(d, s)
  BY DEF TimeKey
<1>3. IDIndexesMatchEvents(d) => IDIndexesMatchEvents(r)
  BY <1>1 DEF IDIndexesMatchEvents
<1>4. CountMatchesEvents(d) => CountMatchesEvents(r)
  BY <1>1 DEF CountMatchesEvents
<1> QED  BY <1>1, <1>2, <1>3, <1>4

(* pruneDeliveredEventIDs drops the same entries from both delivery indexes. *)
LEMMA PruneDeliveredSound ==
    ASSUME NEW d, Sound(d), NEW cutoff
    PROVE  /\ Sound(PruneDelivered(d, cutoff))
           /\ PruneDelivered(d, cutoff).events = d.events
           /\ PruneDelivered(d, cutoff).times = d.times
           /\ PruneDelivered(d, cutoff).next = d.next
           /\ PruneDelivered(d, cutoff).indexed = d.indexed
           /\ PruneDelivered(d, cutoff).quarantine = d.quarantine
           /\ DOMAIN PruneDelivered(d, cutoff).delivered \subseteq DOMAIN d.delivered
<1> DEFINE old == {k \in d.deliveredTimes : k[1] < cutoff}
           kept == {id \in DOMAIN d.delivered : <<d.delivered[id], id>> \notin old}
<1>1. PICK r : r = PruneDelivered(d, cutoff)
  OBVIOUS
<1>2. /\ r = [b \in Buckets |-> r[b]]
      /\ r.events = d.events /\ r.times = d.times
      /\ r.byID = d.byID /\ r.bySeq = d.bySeq
      /\ r.delivered = [id \in kept |-> d.delivered[id]]
      /\ r.deliveredTimes = d.deliveredTimes \ old
      /\ r.quarantine = d.quarantine /\ r.count = d.count
      /\ r.next = d.next /\ r.indexed = d.indexed
  BY <1>1 DEF PruneDelivered, Restrict, Sound, StoreType, Buckets
<1>3. r.delivered \in [kept -> Nat] /\ DOMAIN r.delivered \subseteq DOMAIN d.delivered
  BY <1>2 DEF Sound, StoreType
<1>4. StoreType(r)
  BY <1>2, <1>3 DEF Sound, StoreType, Seqs
<1>5. r.deliveredTimes = {<<r.delivered[id], id>> : id \in DOMAIN r.delivered}
  <2>1. d.deliveredTimes = {<<d.delivered[id], id>> : id \in DOMAIN d.delivered}
    BY DEF Sound, Consistent, DeliveredIndexesMatch
  <2>2. DOMAIN r.delivered = kept /\ \A id \in kept : r.delivered[id] = d.delivered[id]
    BY <1>2
  <2>3. {<<r.delivered[id], id>> : id \in DOMAIN r.delivered}
            = {<<d.delivered[id], id>> : id \in kept}
    BY <2>2
  <2>4. d.deliveredTimes \ old = {<<d.delivered[id], id>> : id \in kept}
    BY <2>1
  <2> QED  BY <1>2, <2>3, <2>4
<1>6. Consistent(r)
  <2>1. TimesMatchEvents(r)
    BY <1>2 DEF Sound, Consistent, TimesMatchEvents, Seqs, TimeKey
  <2>2. IDIndexesMatchEvents(r) /\ CountMatchesEvents(r)
    BY <1>2, SameEvents DEF Sound, Consistent
  <2> QED  BY <1>5, <2>1, <2>2 DEF Consistent, DeliveredIndexesMatch
<1> QED  BY <1>1, <1>2, <1>3, <1>4, <1>6 DEF Sound

(* pruneExpired takes away exactly the events older than the cutoff. *)
LEMMA PruneExpiredSound ==
    ASSUME NEW d, Sound(d), NEW time
    PROVE  LET r == PruneExpired(d, time)
           IN  /\ Sound(r)
               /\ Seqs(r) = {s \in Seqs(d) : ~(d.events[s].created < Cutoff(time))}
               /\ \A s \in Seqs(r) : r.events[s] = d.events[s]
               /\ r.next = d.next
               /\ r.indexed = d.indexed
               /\ r.quarantine = d.quarantine
               /\ DOMAIN r.delivered \subseteq DOMAIN d.delivered
<1>1. PICK p : p = PruneDelivered(d, Cutoff(time))
  OBVIOUS
<1>2. /\ Sound(p)
      /\ p.events = d.events /\ p.times = d.times
      /\ p.next = d.next /\ p.indexed = d.indexed /\ p.quarantine = d.quarantine
      /\ DOMAIN p.delivered \subseteq DOMAIN d.delivered
  BY <1>1, PruneDeliveredSound
<1> DEFINE stale == {k \in p.times : k[1] < Cutoff(time)}
           old == {k[2] : k \in stale}
<1>3. old = {s \in Seqs(p) : p.events[s].created < Cutoff(time)}
  <2>1. p.times = {TimeKey(p, s) : s \in Seqs(p)}
    BY <1>2 DEF Sound, Consistent, TimesMatchEvents
  <2>2. \A s \in Seqs(p) : TimeKey(p, s)[1] = p.events[s].created /\ TimeKey(p, s)[2] = s
    BY DEF TimeKey
  <2>3. old \subseteq {s \in Seqs(p) : p.events[s].created < Cutoff(time)}
    BY <2>1, <2>2
  <2>4. ASSUME NEW s \in Seqs(p), p.events[s].created < Cutoff(time)
        PROVE  s \in old
    <3>1. TimeKey(p, s) \in stale
      BY <2>1, <2>2, <2>4
    <3> QED  BY <2>2, <3>1
  <2> QED  BY <2>3, <2>4
<1>4. PICK q : q = [p EXCEPT !.times = @ \ stale]
  OBVIOUS
<1>5. /\ q = [b \in Buckets |-> q[b]]
      /\ q.events = p.events /\ q.times = p.times \ stale
      /\ q.byID = p.byID /\ q.bySeq = p.bySeq
      /\ q.delivered = p.delivered /\ q.deliveredTimes = p.deliveredTimes
      /\ q.quarantine = p.quarantine /\ q.count = p.count
      /\ q.next = p.next /\ q.indexed = p.indexed
  BY <1>2, <1>4 DEF Sound, StoreType, Buckets
<1>6. StoreType(q)
  BY <1>2, <1>5 DEF Sound, StoreType, Seqs
<1>7. TimesMatchOutside(q, old)
  <2>1. p.times = {TimeKey(p, s) : s \in Seqs(p)}
    BY <1>2 DEF Sound, Consistent, TimesMatchEvents
  <2>2. Seqs(q) = Seqs(p) /\ \A s \in Seqs(p) : TimeKey(q, s) = TimeKey(p, s)
    BY <1>5 DEF Seqs, TimeKey
  <2>3. q.times \subseteq {TimeKey(q, s) : s \in Seqs(q)}
    BY <1>5, <2>1, <2>2
  <2>4. ASSUME NEW s \in Seqs(q) \ old
        PROVE  TimeKey(q, s) \in q.times
    <3>1. TimeKey(p, s) \in p.times /\ ~(TimeKey(p, s)[1] < Cutoff(time))
      BY <1>3, <2>1, <2>2 DEF TimeKey
    <3> QED  BY <1>5, <2>2, <3>1
  <2> QED  BY <2>3, <2>4 DEF TimesMatchOutside
<1>8. IDIndexesMatchEvents(q) /\ DeliveredIndexesMatch(q) /\ CountMatchesEvents(q)
  <2>1. IDIndexesMatchEvents(p) /\ DeliveredIndexesMatch(p) /\ CountMatchesEvents(p)
    BY <1>2 DEF Sound, Consistent
  <2>2. IDIndexesMatchEvents(q) /\ CountMatchesEvents(q)
    BY <1>5, <2>1, SameEvents
  <2> QED  BY <1>5, <2>1, <2>2 DEF DeliveredIndexesMatch
<1>9. PICK r : r = DeleteQueued(q, old)
  OBVIOUS
<1>10. Sound(r) /\ IsWithout(r, q, old) /\ Seqs(r) = Seqs(q) \ old
  BY <1>6, <1>7, <1>8, <1>9, DeleteQueuedSound
<1>11. r = PruneExpired(d, time)
  BY <1>1, <1>4, <1>9 DEF PruneExpired
<1>12. Seqs(r) = {s \in Seqs(d) : ~(d.events[s].created < Cutoff(time))}
  <2>1. Seqs(q) = Seqs(d) /\ Seqs(p) = Seqs(d)
    BY <1>2, <1>5 DEF Seqs
  <2> QED  BY <1>2, <1>3, <1>10, <2>1
<1>13. \A s \in Seqs(r) : r.events[s] = d.events[s]
  <2>1. r.events = [s \in Seqs(q) \ old |-> q.events[s]]
    BY <1>10 DEF IsWithout
  <2> QED  BY <1>2, <1>5, <1>10, <2>1
<1>14. /\ r.next = d.next /\ r.indexed = d.indexed /\ r.quarantine = d.quarantine
       /\ DOMAIN r.delivered \subseteq DOMAIN d.delivered
  BY <1>2, <1>5, <1>10 DEF IsWithout
<1> QED  BY <1>10, <1>11, <1>12, <1>13, <1>14

(* deleteQueuedEvent from a consistent store. *)
LEMMA DeleteFromSound ==
    ASSUME NEW d, Sound(d), NEW S
    PROVE  /\ Sound(DeleteQueued(d, S))
           /\ IsWithout(DeleteQueued(d, S), d, S)
           /\ Seqs(DeleteQueued(d, S)) = Seqs(d) \ S
           /\ \A s \in Seqs(d) \ S : DeleteQueued(d, S).events[s] = d.events[s]
<1>1. TimesMatchOutside(d, S)
  BY DEF TimesMatchOutside, Sound, Consistent, TimesMatchEvents
<1>2. /\ Sound(DeleteQueued(d, S))
      /\ IsWithout(DeleteQueued(d, S), d, S)
      /\ Seqs(DeleteQueued(d, S)) = Seqs(d) \ S
  BY <1>1, DeleteQueuedSound DEF Sound, Consistent
<1> QED  BY <1>2 DEF IsWithout

(* A fresh event, whose ID no event of the indexes has, gets one entry in   *)
(* every index.                                                            *)
LEMMA InsertFreshSound ==
    ASSUME NEW d, Sound(d), d.indexed, NEW e \in Event, e.id \notin DOMAIN d.byID
    PROVE  LET r == InsertFresh(d, e)
           IN  /\ Sound(r)
               /\ Seqs(r) = Seqs(d) \cup {d.next + 1}
               /\ r.events[d.next + 1] = e
               /\ \A s \in Seqs(d) : r.events[s] = d.events[s]
               /\ r.next = d.next + 1
               /\ r.indexed = d.indexed
               /\ r.delivered = d.delivered
               /\ r.quarantine = d.quarantine
<1> DEFINE new == d.next + 1
<1>1. PICK r : r = InsertFresh(d, e)
  OBVIOUS
<1>2. /\ r = [b \in Buckets |-> r[b]]
      /\ r.events = Put(d.events, new, e)
      /\ r.times = d.times \cup {<<e.created, new>>}
      /\ r.byID = Put(d.byID, e.id, new)
      /\ r.bySeq = Put(d.bySeq, new, e.id)
      /\ r.delivered = d.delivered /\ r.deliveredTimes = d.deliveredTimes
      /\ r.quarantine = d.quarantine /\ r.count = d.count + 1
      /\ r.next = new /\ r.indexed = d.indexed
  BY <1>1 DEF InsertFresh, Sound, StoreType, Buckets
<1>3. /\ d.next \in Nat /\ new \in Nat /\ new \notin Seqs(d) /\ Seqs(d) \subseteq 1 .. d.next
      /\ e.id \in IDs /\ e.created \in Nat
  BY DEF Sound, StoreType, Event
<1>4. /\ Seqs(r) = Seqs(d) \cup {new}
      /\ r.events[new] = e
      /\ \A s \in Seqs(d) : r.events[s] = d.events[s]
  BY <1>2, <1>3 DEF Put, Seqs
<1>5. StoreType(r)
  <2>1. r.events \in [Seqs(r) -> Event]
    <3>1. \A s \in Seqs(d) : d.events[s] \in Event
      BY DEF Sound, StoreType
    <3>2. r.events = [s \in Seqs(r) |-> r.events[s]]
      BY <1>2 DEF Put, Seqs
    <3> QED  BY <1>4, <3>1, <3>2
  <2>2. Seqs(r) \subseteq 1 .. r.next
    BY <1>2, <1>3, <1>4
  <2>3. r.byID \in [DOMAIN r.byID -> 1 .. r.next] /\ DOMAIN r.byID \subseteq IDs
    <3>1. DOMAIN d.byID \subseteq IDs /\ \A id \in DOMAIN d.byID : d.byID[id] \in 1 .. d.next
      BY DEF Sound, StoreType
    <3> QED  BY <1>2, <1>3, <3>1 DEF Put
  <2>4. r.bySeq \in [DOMAIN r.bySeq -> IDs]
    <3>1. \A s \in DOMAIN d.bySeq : d.bySeq[s] \in IDs
      BY DEF Sound, StoreType
    <3> QED  BY <1>2, <1>3, <3>1 DEF Put
  <2> QED  BY <1>2, <1>3, <2>1, <2>2, <2>3, <2>4 DEF Sound, StoreType
<1>6. TimesMatchEvents(r)
  <2>1. d.times = {TimeKey(d, s) : s \in Seqs(d)}
    BY DEF Sound, Consistent, TimesMatchEvents
  <2>2. TimeKey(r, new) = <<e.created, new>> /\ \A s \in Seqs(d) : TimeKey(r, s) = TimeKey(d, s)
    BY <1>4 DEF TimeKey
  <2>3. PICK k : k = [s \in Seqs(r) |-> TimeKey(r, s)]
    OBVIOUS
  <2>4. {TimeKey(d, s) : s \in Seqs(d)} = {k[s] : s \in Seqs(d)}
    BY <1>4, <2>2, <2>3
  <2>5. {TimeKey(r, s) : s \in Seqs(r)} = {k[s] : s \in Seqs(d)} \cup {k[new]}
    BY <1>4, <2>3
  <2>6. r.times = d.times \cup {k[new]}
    BY <1>2, <1>4, <2>2, <2>3
  <2> QED  BY <2>1, <2>4, <2>5, <2>6 DEF TimesMatchEvents
<1>7. IDIndexesMatchEvents(r)
  <2>1. /\ d.bySeq = [s \in Seqs(d) |-> d.events[s].id]
        /\ \A id \in DOMAIN d.byID : d.byID[id] \in Seqs(d) /\ d.events[d.byID[id]].id = id
        /\ \A s \in Seqs(d) : s > Len(Legacy) =>
               d.events[s].id \in DOMAIN d.byID /\ d.byID[d.events[s].id] = s
    BY DEF Sound, Consistent, IDIndexesMatchEvents
  <2>2. r.bySeq = [s \in Seqs(r) |-> r.events[s].id]
    <3>1. DOMAIN d.bySeq \cup {new} = Seqs(r)
      BY <1>4, <2>1
    <3>2. \A s \in Seqs(r) : (IF s = new THEN e.id ELSE d.bySeq[s]) = r.events[s].id
      BY <1>3, <1>4, <2>1
    <3> QED  BY <1>2, <3>1, <3>2 DEF Put
  <2>3. /\ DOMAIN r.byID = DOMAIN d.byID \cup {e.id}
        /\ r.byID[e.id] = new
        /\ \A id \in DOMAIN d.byID : r.byID[id] = d.byID[id]
    BY <1>2 DEF Put
  <2>4. \A id \in DOMAIN r.byID : r.byID[id] \in Seqs(r) /\ r.events[r.byID[id]].id = id
    BY <1>4, <2>1, <2>3
  <2>5. \A s \in Seqs(r) : s > Len(Legacy) =>
            r.events[s].id \in DOMAIN r.byID /\ r.byID[r.events[s].id] = s
    BY <1>4, <2>1, <2>3
  <2> QED  BY <1>2, <2>2, <2>4, <2>5 DEF IDIndexesMatchEvents
<1>8. DeliveredIndexesMatch(r)
  BY <1>2 DEF Sound, Consistent, DeliveredIndexesMatch
<1>9. CountMatchesEvents(r)
  <2>1. Cardinality(Seqs(d) \cup {new}) = Cardinality(Seqs(d)) + 1
    BY <1>3, FiniteSeqs, FS_AddElement DEF Sound
  <2> QED  BY <1>2, <1>4, <2>1 DEF Sound, Consistent, CountMatchesEvents
<1> QED
  BY <1>1, <1>2, <1>4, <1>5, <1>6, <1>7, <1>8, <1>9 DEF Sound, Consistent

(* The events_by_id entry of the event that a newer one replaces is freed. *)
LEMMA ReplacedFreed ==
    ASSUME NEW d, Sound(d), d.indexed, NEW id \in DOMAIN d.byID,
           NEW r, IsWithout(r, d, {d.byID[id]})
    PROVE  /\ id \notin DOMAIN r.byID
           /\ d.byID[id] \in Seqs(d) /\ d.events[d.byID[id]].id = id
<1>1. id \in Freed(d, {d.byID[id]})
  BY DEF Freed, Sound, Consistent, IDIndexesMatchEvents
<1> QED  BY <1>1 DEF IsWithout, Sound, Consistent, IDIndexesMatchEvents

(* insertQueuedEvent never touches the delivery and quarantine records, and *)
(* takes an event away only to replace it by a newer one with its ID.       *)
LEMMA InsertSound ==
    ASSUME NEW d, Sound(d), d.indexed, NEW e \in Event
    PROVE  LET r == Insert(d, e)
           IN  /\ Sound(r)
               /\ r.next \in {d.next, d.next + 1}
               /\ r.indexed = d.indexed
               /\ r.delivered = d.delivered
               /\ r.quarantine = d.quarantine
<1>1. CASE IsDuplicate(d, e)
  BY <1>1 DEF Insert
<1>2. CASE ~IsDuplicate(d, e) /\ e.id \in DOMAIN d.byID
  <2>1. PICK p : p = DeleteQueued(d, {d.byID[e.id]})
    OBVIOUS
  <2>2. Sound(p) /\ IsWithout(p, d, {d.byID[e.id]})
    BY <2>1, DeleteFromSound
  <2>3. e.id \notin DOMAIN p.byID
    BY <1>2, <2>2, ReplacedFreed
  <2>4. p.next = d.next /\ p.indexed = d.indexed
        /\ p.delivered = d.delivered /\ p.quarantine = d.quarantine
    BY <2>2 DEF IsWithout
  <2>5. PICK r : r = InsertFresh(p, e)
    OBVIOUS
  <2>6. /\ Sound(r) /\ r.next = p.next + 1 /\ r.indexed = p.indexed
        /\ r.delivered = p.delivered /\ r.quarantine = p.quarantine
    BY <2>2, <2>3, <2>4, <2>5, InsertFreshSound
  <2>7. Insert(d, e) = r
    BY <1>2, <2>1, <2>5 DEF Insert
  <2> QED  BY <2>4, <2>6, <2>7
<1>3. CASE ~IsDuplicate(d, e) /\ e.id \notin DOMAIN d.byID
  <2>1. PICK r : r = InsertFresh(d, e)
    OBVIOUS
  <2>2. /\ Sound(r) /\ r.next = d.next + 1 /\ r.indexed = d.indexed
        /\ r.delivered = d.delivered /\ r.quarantine = d.quarantine
    BY <1>3, <2>1, InsertFreshSound
  <2>3. Insert(d, e) = r
    BY <1>3, <2>1 DEF Insert
  <2> QED  BY <2>2, <2>3
<1> QED  BY <1>1, <1>2, <1>3

(* The events stay, but the one that a newer snapshot replaces. *)
LEMMA InsertEvents ==
    ASSUME NEW d, Sound(d), d.indexed, NEW e \in Event
    PROVE  LET r == Insert(d, e)
           IN  /\ \A s \in Seqs(r) :
                     \/ s \in Seqs(d) /\ r.events[s] = d.events[s]
                     \/ s = d.next + 1 /\ r.events[s] = e
               /\ \A s \in Seqs(d) :
                     \/ s \in Seqs(r) /\ r.events[s] = d.events[s]
                     \/ /\ d.events[s].id = e.id /\ e.id \in Snapshots
                        /\ d.next + 1 \in Seqs(r) /\ r.events[d.next + 1] = e
<1>1. CASE IsDuplicate(d, e)
  BY <1>1 DEF Insert
<1>2. CASE ~IsDuplicate(d, e) /\ e.id \in DOMAIN d.byID
  <2>1. PICK s0 : s0 = d.byID[e.id]
    OBVIOUS
  <2>2. PICK p : p = DeleteQueued(d, {s0})
    OBVIOUS
  <2>3. /\ Sound(p) /\ IsWithout(p, d, {s0}) /\ Seqs(p) = Seqs(d) \ {s0}
        /\ \A s \in Seqs(d) \ {s0} : p.events[s] = d.events[s]
    BY <2>2, DeleteFromSound
  <2>4. e.id \notin DOMAIN p.byID /\ d.events[s0].id = e.id
    BY <1>2, <2>1, <2>3, ReplacedFreed
  <2>5. PICK r : r = InsertFresh(p, e)
    OBVIOUS
  <2>6. p.indexed /\ p.next = d.next
    BY <2>3 DEF IsWithout
  <2>7. /\ Seqs(r) = Seqs(p) \cup {d.next + 1} /\ r.events[d.next + 1] = e
        /\ \A s \in Seqs(p) : r.events[s] = p.events[s]
    BY <2>3, <2>4, <2>5, <2>6, InsertFreshSound
  <2>8. Insert(d, e) = r /\ e.id \in Snapshots
    BY <1>2, <2>1, <2>2, <2>5 DEF Insert, IsDuplicate
  <2> QED  BY <2>3, <2>4, <2>7, <2>8
<1>3. CASE ~IsDuplicate(d, e) /\ e.id \notin DOMAIN d.byID
  <2>1. PICK r : r = InsertFresh(d, e)
    OBVIOUS
  <2>2. /\ Seqs(r) = Seqs(d) \cup {d.next + 1} /\ r.events[d.next + 1] = e
        /\ \A s \in Seqs(d) : r.events[s] = d.events[s]
    BY <1>3, <2>1, InsertFreshSound
  <2>3. Insert(d, e) = r
    BY <1>3, <2>1 DEF Insert
  <2> QED  BY <2>2, <2>3
<1> QED  BY <1>1, <1>2, <1>3

(* recordDeliveredEventID moves each ID to its new delivery time in both    *)
(* delivery indexes.                                                       *)
LEMMA RecordDeliveredSound ==
    ASSUME NEW d, Sound(d), NEW I \in SUBSET IDs, NEW time \in Nat
    PROVE  LET r == RecordDelivered(d, I, time)
           IN  /\ Sound(r)
               /\ r.events = d.events
               /\ r.next = d.next
               /\ r.indexed = d.indexed
               /\ r.quarantine = d.quarantine
               /\ DOMAIN r.delivered = DOMAIN d.delivered \cup I
<1>1. PICK r : r = RecordDelivered(d, I, time)
  OBVIOUS
<1> DEFINE moved == {<<d.delivered[id], id>> : id \in I \cap DOMAIN d.delivered}
<1>2. /\ r = [b \in Buckets |-> r[b]]
      /\ r.events = d.events /\ r.times = d.times
      /\ r.byID = d.byID /\ r.bySeq = d.bySeq
      /\ r.delivered = [id \in DOMAIN d.delivered \cup I |->
                            IF id \in I THEN time ELSE d.delivered[id]]
      /\ r.deliveredTimes = (d.deliveredTimes \ moved) \cup {<<time, id>> : id \in I}
      /\ r.quarantine = d.quarantine /\ r.count = d.count
      /\ r.next = d.next /\ r.indexed = d.indexed
  BY <1>1 DEF RecordDelivered, Sound, StoreType, Buckets
<1>3. /\ r.delivered \in [DOMAIN r.delivered -> Nat]
      /\ DOMAIN r.delivered \subseteq IDs
      /\ DOMAIN r.delivered = DOMAIN d.delivered \cup I
  <2>1. DOMAIN d.delivered \subseteq IDs /\ \A id \in DOMAIN d.delivered : d.delivered[id] \in Nat
    BY DEF Sound, StoreType
  <2> QED  BY <1>2, <2>1
<1>4. StoreType(r)
  BY <1>2, <1>3, SameEvents DEF Sound, StoreType
<1>5. DeliveredIndexesMatch(r)
  <2>1. d.deliveredTimes = {<<d.delivered[id], id>> : id \in DOMAIN d.delivered}
    BY DEF Sound, Consistent, DeliveredIndexesMatch
  <2>2. d.deliveredTimes \ moved = {<<d.delivered[id], id>> : id \in DOMAIN d.delivered \ I}
    BY <2>1
  <2>3. \A id \in DOMAIN r.delivered :
            r.delivered[id] = IF id \in I THEN time ELSE d.delivered[id]
    BY <1>2, <1>3
  <2>4. {<<r.delivered[id], id>> : id \in DOMAIN r.delivered}
            = {<<d.delivered[id], id>> : id \in DOMAIN d.delivered \ I}
                  \cup {<<time, id>> : id \in I}
    BY <1>3, <2>3
  <2> QED  BY <1>2, <2>2, <2>4 DEF DeliveredIndexesMatch
<1>6. TimesMatchEvents(r) /\ IDIndexesMatchEvents(r) /\ CountMatchesEvents(r)
  BY <1>2, SameEvents DEF Sound, Consistent, TimesMatchEvents
<1> QED  BY <1>1, <1>2, <1>3, <1>4, <1>5, <1>6 DEF Sound, Consistent

(* Storing quarantine records touches no other bucket. *)
LEMMA QuarantineSound ==
    ASSUME NEW d, Sound(d), NEW I \in SUBSET IDs
    PROVE  LET r == [d EXCEPT !.quarantine = @ \cup I]
           IN  /\ Sound(r)
               /\ r.events = d.events
               /\ r.next = d.next
               /\ r.indexed = d.indexed
               /\ r.delivered = d.delivered
               /\ r.quarantine = d.quarantine \cup I
<1>1. PICK r : r = [d EXCEPT !.quarantine = @ \cup I]
  OBVIOUS
<1>2. /\ r = [b \in Buckets |-> r[b]]
      /\ r.events = d.events /\ r.times = d.times
      /\ r.byID = d.byID /\ r.bySeq = d.bySeq
      /\ r.delivered = d.delivered /\ r.deliveredTimes = d.deliveredTimes
      /\ r.quarantine = d.quarantine \cup I /\ r.count = d.count
      /\ r.next = d.next /\ r.indexed = d.indexed
  BY <1>1 DEF Sound, StoreType, Buckets
<1>3. StoreType(r)
  BY <1>2, SameEvents DEF Sound, StoreType
<1>4. Consistent(r)
  BY <1>2, SameEvents DEF Sound, Consistent, TimesMatchEvents, DeliveredIndexesMatch
<1> QED  BY <1>1, <1>2, <1>3, <1>4 DEF Sound

(* backfillQueuedEventIDs indexes every event of an older database. *)
LEMMA BackfillSound ==
    ASSUME NEW d, Sound(d), ~d.indexed
    PROVE  /\ Sound(Backfill(d))
           /\ Backfill(d).next = d.next
           /\ Backfill(d).indexed
           /\ Backfill(d).delivered = d.delivered
           /\ Backfill(d).quarantine = d.quarantine
<1> DEFINE carriers(id) == {s \in Seqs(d) : d.events[s].id = id}
           last(id) == CHOOSE s \in carriers(id) : \A t \in carriers(id) : t <= s
           known == {d.events[s].id : s \in Seqs(d)}
<1>1. PICK r : r = Backfill(d)
  OBVIOUS
<1>2. /\ r = [b \in Buckets |-> r[b]]
      /\ r.events = d.events /\ r.times = d.times
      /\ r.byID = [id \in known |-> last(id)]
      /\ r.bySeq = [s \in Seqs(d) |-> d.events[s].id]
      /\ r.delivered = d.delivered /\ r.deliveredTimes = d.deliveredTimes
      /\ r.quarantine = d.quarantine /\ r.count = d.count
      /\ r.next = d.next /\ r.indexed = TRUE
  BY <1>1 DEF Backfill, Sound, StoreType, Buckets
<1>3. /\ Seqs(d) \subseteq 1 .. d.next /\ d.next \in Nat
      /\ \A s \in Seqs(d) : d.events[s].id \in IDs
  BY DEF Sound, StoreType, Event
<1>4. ASSUME NEW id \in known
      PROVE  last(id) \in Seqs(d) /\ d.events[last(id)].id = id
  <2>1. carriers(id) # {} /\ carriers(id) \in SUBSET (1 .. d.next)
    BY <1>3
  <2>2. \E s \in carriers(id) : \A t \in carriers(id) : t <= s
    BY <1>3, <2>1, Greatest
  <2>3. last(id) \in carriers(id)
    BY <2>2
  <2> QED  BY <2>3
<1> HIDE DEF last
<1>5. Seqs(r) = Seqs(d)
  BY <1>2 DEF Seqs
<1>6. StoreType(r)
  <2>1. r.byID \in [DOMAIN r.byID -> 1 .. r.next] /\ DOMAIN r.byID \subseteq IDs
    BY <1>2, <1>3, <1>4
  <2>2. r.bySeq \in [DOMAIN r.bySeq -> IDs]
    BY <1>2, <1>3
  <2> QED  BY <1>2, <1>5, <2>1, <2>2 DEF Sound, StoreType
<1>7. IDIndexesMatchEvents(r)
  <2>1. Seqs(d) \subseteq 1 .. Len(Legacy)
    BY DEF Sound, Consistent, IDIndexesMatchEvents
  <2>2. \A s \in Seqs(r) : ~(s > Len(Legacy))
    BY <1>5, <2>1, StoreAssumption
  <2>3. \A id \in DOMAIN r.byID : r.byID[id] \in Seqs(r) /\ r.events[r.byID[id]].id = id
    BY <1>2, <1>4, <1>5
  <2> QED  BY <1>2, <1>5, <2>2, <2>3 DEF IDIndexesMatchEvents
<1>8. TimesMatchEvents(r) /\ DeliveredIndexesMatch(r) /\ CountMatchesEvents(r)
  <2>1. \A s : TimeKey(r, s) = TimeKey(d, s)
    BY <1>2 DEF TimeKey
  <2>2. /\ r.times = d.times /\ r.count = d.count
        /\ r.delivered = d.delivered /\ r.deliveredTimes = d.deliveredTimes
    BY <1>2
  <2>3. TimesMatchEvents(d) /\ DeliveredIndexesMatch(d) /\ CountMatchesEvents(d)
    BY DEF Sound, Consistent
  <2>4. TimesMatchEvents(r)
    BY <1>5, <2>1, <2>2, <2>3 DEF TimesMatchEvents
  <2> QED  BY <1>5, <2>2, <2>3, <2>4 DEF DeliveredIndexesMatch, CountMatchesEvents
<1> QED  BY <1>1, <1>2, <1>6, <1>7, <1>8 DEF Sound, Consistent

(* A database before its ID indexes are built: an empty one, or an older    *)
(* one with Legacy events.                                                 *)
LEMMA StoreOfSound ==
    ASSUME NEW events \in Seq(Event), Len(events) <= Len(Legacy)
    PROVE  /\ Sound(StoreOf(events))
           /\ Seqs(StoreOf(events)) = 1 .. Len(events)
           /\ StoreOf(events).next = Len(events)
           /\ DOMAIN StoreOf(events).delivered = {}
           /\ StoreOf(events).quarantine = {}
<1>1. PICK r : r = StoreOf(events)
  OBVIOUS
<1>2. /\ r = [b \in Buckets |-> r[b]]
      /\ r.events = events
      /\ r.times = {<<events[s].created, s>> : s \in DOMAIN events}
      /\ r.byID = << >> /\ r.bySeq = << >> /\ r.delivered = << >>
      /\ r.deliveredTimes = {} /\ r.quarantine = {}
      /\ r.count = Len(events) /\ r.next = Len(events) /\ r.indexed = FALSE
  BY <1>1 DEF StoreOf, Buckets
<1>3. /\ Len(events) \in Nat /\ Len(Legacy) \in Nat
      /\ events \in [1 .. Len(events) -> Event]
      /\ Seqs(r) = 1 .. Len(events)
  BY <1>2, StoreAssumption DEF Seqs
<1>4. DOMAIN << >> = {} /\ \A T : << >> \in [{} -> T]
  OBVIOUS
<1>5. StoreType(r)
  BY <1>2, <1>3, <1>4 DEF StoreType
<1>6. TimesMatchEvents(r)
  <2>1. Seqs(r) = DOMAIN events /\ \A s : TimeKey(r, s) = <<events[s].created, s>>
    BY <1>2 DEF Seqs, TimeKey
  <2> QED  BY <1>2, <2>1 DEF TimesMatchEvents
<1>7. IDIndexesMatchEvents(r)
  BY <1>2, <1>3, <1>4 DEF IDIndexesMatchEvents
<1>8. DeliveredIndexesMatch(r)
  BY <1>2, <1>4 DEF DeliveredIndexesMatch
<1>9. CountMatchesEvents(r)
  <2>1. ASSUME NEW n \in Nat
        PROVE  Cardinality(1 .. n) = n
    <3>1. Cardinality(1 .. n) = IF 1 > n THEN 0 ELSE n - 1 + 1
      BY FS_Interval
    <3> QED  BY <3>1
  <2> QED  BY <1>2, <1>3, <2>1 DEF CountMatchesEvents
<1> QED
  BY <1>1, <1>2, <1>3, <1>4, <1>5, <1>6, <1>7, <1>8, <1>9 DEF Sound, Consistent

-----------------------------------------------------------------------------
(***************************************************************************)
(* The byte count of the store is that of its events after each operation,  *)
(* whatever their sizes, and evictOverCapacity leaves no more than          *)
(* queueMaxBytes, taking the oldest events and no others.                   *)
(***************************************************************************)

(* The encoded length of every queued event. *)
Lengths(d) == [s \in Seqs(d) |-> Size[d.events[s].id]]

(* The encoded lengths are naturals. *)
LEMMA LengthsNat ==
    ASSUME NEW d, StoreType(d)
    PROVE  \A s \in Seqs(d) : Lengths(d)[s] \in Nat
<1> QED  BY StoreAssumption DEF StoreType, Lengths, Event

(* The sum of the sizes of the events f of a set of sequences, however it is *)
(* written, is the sum of their lengths.                                   *)
LEMMA BytesAreSum ==
    ASSUME NEW f, NEW S, IsFiniteSet(S), NEW w, \A s \in S : w[s] = Size[f[s].id]
    PROVE  MapThenSumSet(LAMBDA s : Size[f[s].id], S) = Sum(w, S)
<1> DEFINE IsBytes(g) ==
        g = [T \in SUBSET S |->
                IF T = {} THEN 0 ELSE Size[f[Pick(T)].id] + g[T \ {Pick(T)}]]
<1>1. \A T \in SUBSET S : T # {} => w[Pick(T)] = Size[f[Pick(T)].id]
  BY DEF Pick
<1>2. \A g : IsBytes(g) <=> IsSum(g, w, S)
  BY <1>1 DEF IsSum
<1>3. MapThenSumSet(LAMBDA s : Size[f[s].id], S) = (CHOOSE g : IsBytes(g))[S]
  BY DEF MapThenSumSet, MapThenFoldSet, Pick
<1>4. PICK g : g = (CHOOSE h : IsBytes(h))
  OBVIOUS
<1> HIDE DEF IsBytes
<1>5. \E h : IsBytes(h)
  BY <1>2, SumExists
<1>6. IsSum(g, w, S)
  BY <1>2, <1>4, <1>5
<1>7. PICK h : h = (CHOOSE k : IsSum(k, w, S))
  OBVIOUS
<1>8. IsSum(h, w, S) /\ Sum(w, S) = h[S]
  BY <1>7, SumExists, SumChosen
<1>9. g[S] = h[S]
  BY <1>6, <1>8, SumUnique
<1> QED  BY <1>3, <1>4, <1>8, <1>9

(* The bytes of a set of sequences are the sum of the lengths of those that *)
(* are queued.                                                              *)
LEMMA BytesOfIsSum ==
    ASSUME NEW d, StoreType(d), NEW S
    PROVE  BytesOf(d, S) = Sum(Lengths(d), S \cap Seqs(d))
<1>1. IsFiniteSet(S \cap Seqs(d))
  BY FiniteSeqs, FS_Subset
<1>2. \A s \in S \cap Seqs(d) : Lengths(d)[s] = Size[d.events[s].id]
  BY DEF Lengths
<1> QED  BY <1>1, <1>2, BytesAreSum DEF BytesOf

(* The count matches when it is the sum of all lengths. *)
LEMMA BytesMatchSum ==
    ASSUME NEW d, StoreType(d)
    PROVE  BytesMatchEvents(d) <=> d.bytes = Sum(Lengths(d), Seqs(d))
<1>1. Seqs(d) \cap Seqs(d) = Seqs(d)
  OBVIOUS
<1> QED  BY <1>1, BytesOfIsSum DEF BytesMatchEvents

(* An operation that leaves the events and the count alone. *)
LEMMA SameBytes ==
    ASSUME NEW d, NEW r, StoreType(d), StoreType(r),
           r.events = d.events, r.bytes = d.bytes, BytesMatchEvents(d)
    PROVE  BytesMatchEvents(r)
<1>1. Seqs(r) = Seqs(d) /\ Lengths(r) = Lengths(d)
  BY DEF Seqs, Lengths
<1> QED  BY <1>1, BytesMatchSum

(* deleteQueuedEvent subtracts the length of each event that it removes. *)
LEMMA DeleteBytes ==
    ASSUME NEW d, StoreType(d), NEW S, BytesMatchEvents(d)
    PROVE  /\ BytesMatchEvents(DeleteQueued(d, S))
           /\ DeleteQueued(d, S).bytes = Sum(Lengths(d), Seqs(d) \ S)
           /\ DeleteQueued(d, S).bytes <= d.bytes
<1>1. PICK r : r = DeleteQueued(d, S)
  OBVIOUS
<1>2. IsWithout(r, d, S) /\ StoreType(r) /\ Seqs(r) = Seqs(d) \ S
  BY <1>1, DeleteQueuedFields, WithoutType
<1>3. PICK gone : gone = S \cap Seqs(d)
  OBVIOUS
<1>4. r.bytes = d.bytes - Sum(Lengths(d), gone)
  <2>1. r.bytes = d.bytes - BytesOf(d, gone)
    BY <1>1, <1>3 DEF DeleteQueued, StoreType, Buckets
  <2>2. gone \cap Seqs(d) = gone
    BY <1>3
  <2> QED  BY <2>1, <2>2, BytesOfIsSum
<1>5. IsFiniteSet(Seqs(d)) /\ gone \subseteq Seqs(d) /\ Seqs(d) \ gone = Seqs(r)
  BY <1>2, <1>3, FiniteSeqs
<1>6. /\ Sum(Lengths(d), Seqs(r)) = Sum(Lengths(d), Seqs(d)) - Sum(Lengths(d), gone)
      /\ Sum(Lengths(d), gone) <= Sum(Lengths(d), Seqs(d))
  BY <1>5, LengthsNat, SumMonotone
<1>7. Sum(Lengths(r), Seqs(r)) = Sum(Lengths(d), Seqs(r))
  <2>1. \A s \in Seqs(r) : Lengths(r)[s] = Lengths(d)[s]
    BY <1>2 DEF IsWithout, Lengths
  <2>2. IsFiniteSet(Seqs(r))
    BY <1>5, FS_Subset
  <2> QED  BY <2>1, <2>2, SumSame
<1>8. Sum(Lengths(d), Seqs(d)) \in Nat /\ Sum(Lengths(d), gone) \in Nat
  <2>1. IsFiniteSet(gone)
    BY <1>5, FS_Subset
  <2> QED  BY <1>5, <2>1, LengthsNat, SumNat
<1>9. d.bytes = Sum(Lengths(d), Seqs(d))
  BY BytesMatchSum
<1> QED  BY <1>1, <1>2, <1>4, <1>6, <1>7, <1>8, <1>9, BytesMatchSum

(* pruneExpired keeps the count right, and never raises it. *)
LEMMA PruneExpiredBytes ==
    ASSUME NEW d, Sound(d), NEW time, BytesMatchEvents(d)
    PROVE  /\ BytesMatchEvents(PruneExpired(d, time))
           /\ PruneExpired(d, time).bytes <= d.bytes
<1>1. PICK p : p = PruneDelivered(d, Cutoff(time))
  OBVIOUS
<1>2. Sound(p) /\ p.events = d.events /\ p.bytes = d.bytes
  <2>1. Sound(p) /\ p.events = d.events
    BY <1>1, PruneDeliveredSound
  <2>2. p.bytes = d.bytes
    BY <1>1 DEF Sound, StoreType, Buckets, PruneDelivered
  <2> QED  BY <2>1, <2>2
<1>3. PICK stale : stale = {k \in p.times : k[1] < Cutoff(time)}
  OBVIOUS
<1>4. PICK q : q = [p EXCEPT !.times = @ \ stale]
  OBVIOUS
<1>5. StoreType(q) /\ q.events = p.events /\ q.bytes = p.bytes
  BY <1>2, <1>4 DEF Sound, StoreType, Buckets, Seqs
<1>6. BytesMatchEvents(q)
  BY <1>2, <1>5, SameBytes DEF Sound
<1>7. PICK S : S = {k[2] : k \in stale}
  OBVIOUS
<1>8. PruneExpired(d, time) = DeleteQueued(q, S)
  BY <1>1, <1>3, <1>4, <1>7 DEF PruneExpired
<1> QED  BY <1>2, <1>5, <1>6, <1>8, DeleteBytes

(* insertQueuedEvent adds the event's length to the count. *)
LEMMA InsertFreshBytes ==
    ASSUME NEW d, Sound(d), d.indexed, NEW e \in Event, e.id \notin DOMAIN d.byID,
           BytesMatchEvents(d)
    PROVE  BytesMatchEvents(InsertFresh(d, e))
<1>1. PICK r : r = InsertFresh(d, e)
  OBVIOUS
<1>2. PICK t : t = d.next + 1
  OBVIOUS
<1>3. /\ StoreType(r) /\ Seqs(r) = Seqs(d) \cup {t} /\ r.events[t] = e
      /\ \A s \in Seqs(d) : r.events[s] = d.events[s]
  BY <1>1, <1>2, InsertFreshSound DEF Sound
<1>4. r.bytes = d.bytes + Size[e.id]
  BY <1>1 DEF InsertFresh, Sound, StoreType, Buckets
<1>5. t \notin Seqs(d) /\ IsFiniteSet(Seqs(d)) /\ IsFiniteSet(Seqs(r)) /\ t \in Seqs(r)
  <2>1. t \notin Seqs(d)
    BY <1>2 DEF Sound, StoreType
  <2> QED  BY <1>3, <2>1, FiniteSeqs DEF Sound
<1>6. Sum(Lengths(r), Seqs(r)) = Lengths(r)[t] + Sum(Lengths(r), Seqs(d))
  <2>1. PICK rest : rest = Seqs(r) \ {t}
    OBVIOUS
  <2>2. Sum(Lengths(r), Seqs(r)) = Lengths(r)[t] + Sum(Lengths(r), rest)
    BY <1>3, <1>5, <2>1, LengthsNat, SumElement
  <2>3. rest = Seqs(d)
    BY <1>3, <1>5, <2>1
  <2> QED  BY <2>2, <2>3
<1>7. Lengths(r)[t] = Size[e.id]
  BY <1>3, <1>5 DEF Lengths
<1>8. Sum(Lengths(r), Seqs(d)) = Sum(Lengths(d), Seqs(d))
  <2>1. \A s \in Seqs(d) : Lengths(r)[s] = Lengths(d)[s]
    BY <1>3 DEF Lengths
  <2> QED  BY <1>5, <2>1, SumSame
<1>9. d.bytes = Sum(Lengths(d), Seqs(d))
  BY BytesMatchSum DEF Sound
<1>10. Sum(Lengths(d), Seqs(d)) \in Nat /\ Size[e.id] \in Nat
  BY <1>5, LengthsNat, SumNat, StoreAssumption DEF Sound, Event
<1>11. r.bytes = Sum(Lengths(r), Seqs(r))
  BY <1>4, <1>6, <1>7, <1>8, <1>9, <1>10
<1> QED  BY <1>1, <1>3, <1>11, BytesMatchSum

(* An insertion, a replacement's two steps included, keeps the count right. *)
LEMMA InsertBytes ==
    ASSUME NEW d, Sound(d), d.indexed, NEW e \in Event, BytesMatchEvents(d)
    PROVE  BytesMatchEvents(Insert(d, e))
<1>1. CASE IsDuplicate(d, e)
  BY <1>1 DEF Insert
<1>2. CASE ~IsDuplicate(d, e) /\ e.id \notin DOMAIN d.byID
  BY <1>2, InsertFreshBytes DEF Insert
<1>3. CASE ~IsDuplicate(d, e) /\ e.id \in DOMAIN d.byID
  <2>1. PICK r : r = DeleteQueued(d, {d.byID[e.id]})
    OBVIOUS
  <2>2. Sound(r) /\ IsWithout(r, d, {d.byID[e.id]})
    BY <2>1, DeleteFromSound
  <2>3. r.indexed /\ e.id \notin DOMAIN r.byID
    <3>1. e.id \notin DOMAIN r.byID
      BY <1>3, <2>2, ReplacedFreed
    <3> QED  BY <2>2, <3>1 DEF IsWithout
  <2>4. BytesMatchEvents(r)
    BY <2>1, DeleteBytes DEF Sound
  <2> QED  BY <1>3, <2>1, <2>2, <2>3, <2>4, InsertFreshBytes DEF Insert
<1> QED  BY <1>1, <1>2, <1>3

(* Recording deliveries leaves the count alone. *)
LEMMA RecordDeliveredBytes ==
    ASSUME NEW d, Sound(d), NEW I \in SUBSET IDs, NEW time \in Nat, BytesMatchEvents(d)
    PROVE  /\ BytesMatchEvents(RecordDelivered(d, I, time))
           /\ RecordDelivered(d, I, time).bytes = d.bytes
<1>1. PICK r : r = RecordDelivered(d, I, time)
  OBVIOUS
<1>2. StoreType(r) /\ r.events = d.events
  BY <1>1, RecordDeliveredSound DEF Sound
<1>3. r.bytes = d.bytes
  BY <1>1 DEF RecordDelivered, Sound, StoreType, Buckets
<1> QED  BY <1>1, <1>2, <1>3, SameBytes DEF Sound

(* Recording a quarantine leaves the count alone. *)
LEMMA QuarantineBytes ==
    ASSUME NEW d, Sound(d), NEW I \in SUBSET IDs, BytesMatchEvents(d)
    PROVE  LET r == [d EXCEPT !.quarantine = @ \cup I]
           IN  BytesMatchEvents(r) /\ r.bytes = d.bytes
<1>1. PICK r : r = [d EXCEPT !.quarantine = @ \cup I]
  OBVIOUS
<1>2. StoreType(r) /\ r.events = d.events
  BY <1>1, QuarantineSound DEF Sound
<1>3. r.bytes = d.bytes
  BY <1>1 DEF Sound, StoreType, Buckets
<1> QED  BY <1>1, <1>2, <1>3, SameBytes DEF Sound

(* backfillIndexes leaves the events and the count alone. *)
LEMMA BackfillBytes ==
    ASSUME NEW d, Sound(d), ~d.indexed, BytesMatchEvents(d)
    PROVE  BytesMatchEvents(Backfill(d)) /\ Backfill(d).bytes = d.bytes
<1>1. PICK r : r = Backfill(d)
  OBVIOUS
<1>2. StoreType(r)
  BY <1>1, BackfillSound DEF Sound
<1>3. r.bytes = d.bytes /\ r.events = d.events
  BY <1>1 DEF Backfill, Sound, StoreType, Buckets
<1> QED  BY <1>1, <1>2, <1>3, SameBytes DEF Sound

(* The count of a store that is migrated is that of its events. *)
LEMMA StoreOfBytes ==
    ASSUME NEW events \in Seq(Event), Len(events) <= Len(Legacy)
    PROVE  BytesMatchEvents(StoreOf(events))
<1>1. PICK r : r = StoreOf(events)
  OBVIOUS
<1>2. StoreType(r) /\ r.events = events
  BY <1>1, StoreOfSound DEF Sound, StoreOf
<1>3. IsFiniteSet(Seqs(r)) /\ Seqs(r) = DOMAIN events
  BY <1>2, FiniteSeqs DEF Seqs
<1>4. r.bytes = MapThenSumSet(LAMBDA s : Size[events[s].id], DOMAIN events)
  BY <1>1 DEF StoreOf
<1>5. \A s \in DOMAIN events : Lengths(r)[s] = Size[events[s].id]
  BY <1>2, <1>3 DEF Lengths
<1>6. MapThenSumSet(LAMBDA s : Size[events[s].id], DOMAIN events)
          = Sum(Lengths(r), DOMAIN events)
  BY <1>3, <1>5, BytesAreSum, ZenonT(60)
<1> QED  BY <1>1, <1>2, <1>3, <1>4, <1>6, BytesMatchSum

-----------------------------------------------------------------------------
(* Eviction.  Creation time and sequence order the events. *)
Older(d, s) == {t \in Seqs(d) : KeyBefore(TimeKey(d, t), TimeKey(d, s))}
Younger(d, s) == {t \in Seqs(d) : ~KeyBefore(TimeKey(d, t), TimeKey(d, s))}

(* The keys of the time bucket order events by their time, then their *)
(* sequence.                                                          *)
LEMMA KeyOrder ==
    ASSUME NEW d, StoreType(d), NEW s \in Seqs(d), NEW t \in Seqs(d)
    PROVE  /\ d.events[s].created \in Nat /\ s \in Nat
           /\ KeyBefore(TimeKey(d, s), TimeKey(d, t)) <=>
                 \/ d.events[s].created < d.events[t].created
                 \/ d.events[s].created = d.events[t].created /\ s < t
<1> QED  BY DEF StoreType, Event, KeyBefore, TimeKey

(* An event is evicted when it and what is not older than it exceed the     *)
(* limit together.                                                         *)
LEMMA EvictedExceeds ==
    ASSUME NEW d, StoreType(d), BytesMatchEvents(d), NEW s \in Seqs(d)
    PROVE  /\ BytesOf(d, Younger(d, s)) = Sum(Lengths(d), Younger(d, s))
           /\ Sum(Lengths(d), Younger(d, s)) \in Nat
           /\ s \in OverCapacity(d) <=> Sum(Lengths(d), Younger(d, s)) > MaxBytes
<1>1. PICK o, y : o = Older(d, s) /\ y = Younger(d, s)
  OBVIOUS
<1>2. o \subseteq Seqs(d) /\ y \subseteq Seqs(d) /\ Seqs(d) \ o = y
  BY <1>1 DEF Older, Younger
<1>3. IsFiniteSet(Seqs(d)) /\ IsFiniteSet(o) /\ IsFiniteSet(y)
  BY <1>2, FiniteSeqs, FS_Subset
<1>4. o \cap Seqs(d) = o /\ y \cap Seqs(d) = y
  BY <1>2
<1>5. BytesOf(d, o) = Sum(Lengths(d), o) /\ BytesOf(d, y) = Sum(Lengths(d), y)
  BY <1>4, BytesOfIsSum
<1>6. Sum(Lengths(d), y) = Sum(Lengths(d), Seqs(d)) - Sum(Lengths(d), o)
  BY <1>2, <1>3, LengthsNat, SumMonotone
<1>7. d.bytes = Sum(Lengths(d), Seqs(d))
  BY BytesMatchSum
<1>8. Sum(Lengths(d), y) \in Nat
  BY <1>2, <1>3, LengthsNat, SumNat
<1>9. s \in OverCapacity(d) <=> d.bytes - BytesOf(d, o) > MaxBytes
  BY <1>1 DEF OverCapacity, Older
<1> QED  BY <1>1, <1>5, <1>6, <1>7, <1>8, <1>9

(* With an event goes every older one. *)
LEMMA EvictedOldest ==
    ASSUME NEW d, StoreType(d), BytesMatchEvents(d), NEW s \in OverCapacity(d)
    PROVE  /\ BytesOf(d, Younger(d, s)) > MaxBytes
           /\ Seqs(d) \ OverCapacity(d) \subseteq Younger(d, s)
<1>1. s \in Seqs(d)
  BY DEF OverCapacity
<1>2. ASSUME NEW t \in Seqs(d), KeyBefore(TimeKey(d, t), TimeKey(d, s))
      PROVE  t \in OverCapacity(d)
  <2>1. Younger(d, s) \subseteq Younger(d, t)
    <3> SUFFICES ASSUME NEW u \in Younger(d, s)
                 PROVE  u \in Younger(d, t)
      OBVIOUS
    <3>1. u \in Seqs(d) /\ ~KeyBefore(TimeKey(d, u), TimeKey(d, s))
      BY DEF Younger
    <3>2. ~KeyBefore(TimeKey(d, u), TimeKey(d, t))
      BY <1>1, <1>2, <3>1, KeyOrder
    <3> QED  BY <3>1, <3>2 DEF Younger
  <2>2. Younger(d, t) \subseteq Seqs(d)
    BY DEF Younger
  <2>3. IsFiniteSet(Younger(d, t)) /\ \A x \in Younger(d, t) : Lengths(d)[x] \in Nat
    BY <2>2, FiniteSeqs, FS_Subset, LengthsNat
  <2>4. Sum(Lengths(d), Younger(d, s)) <= Sum(Lengths(d), Younger(d, t))
    BY <2>1, <2>3, SumMonotone
  <2>5. Sum(Lengths(d), Younger(d, s)) > MaxBytes
    BY <1>1, EvictedExceeds
  <2> QED  BY <1>1, <2>4, <2>5, EvictedExceeds, StoreAssumption
<1>3. Seqs(d) \ OverCapacity(d) \subseteq Younger(d, s)
  BY <1>2 DEF Younger
<1> QED  BY <1>1, <1>3, EvictedExceeds

(* Among some queued events one is the oldest. *)
LEMMA OldestOf ==
    ASSUME NEW d, StoreType(d), NEW R, R \subseteq Seqs(d), R # {}
    PROVE  \E m \in R : R \subseteq Younger(d, m)
<1>1. PICK T : T = {d.events[s].created : s \in R}
  OBVIOUS
<1>2. T \in SUBSET Nat /\ T # {}
  BY <1>1, KeyOrder
<1>3. PICK c \in T : \A t \in T : c <= t
  BY <1>2, Smallest
<1>4. PICK F : F = {s \in R : d.events[s].created = c}
  OBVIOUS
<1>5. F \in SUBSET Nat /\ F # {}
  BY <1>1, <1>4, KeyOrder
<1>6. PICK m \in F : \A s \in F : m <= s
  BY <1>5, Smallest
<1>7. ASSUME NEW s \in R
      PROVE  ~KeyBefore(TimeKey(d, s), TimeKey(d, m))
  <2>1. m \in Seqs(d) /\ s \in Seqs(d) /\ d.events[m].created = c
    BY <1>4
  <2>2. c <= d.events[s].created /\ (d.events[s].created = c => m <= s)
    BY <1>1, <1>3, <1>4, <1>6
  <2> QED  BY <2>1, <2>2, KeyOrder
<1> QED  BY <1>4, <1>7 DEF Younger

(* evictOverCapacity leaves no more than the limit. *)
LEMMA EvictFits ==
    ASSUME NEW d, StoreType(d), BytesMatchEvents(d)
    PROVE  EvictOverCapacity(d).bytes <= MaxBytes
<1>1. PICK R : R = Seqs(d) \ OverCapacity(d)
  OBVIOUS
<1>2. EvictOverCapacity(d).bytes = Sum(Lengths(d), R)
  BY <1>1, DeleteBytes DEF EvictOverCapacity
<1>3. CASE R = {}
  BY <1>2, <1>3, SumEmpty, StoreAssumption
<1>4. CASE R # {}
  <2>1. PICK m \in R : R \subseteq Younger(d, m)
    BY <1>1, <1>4, OldestOf
  <2>2. m \in Seqs(d) /\ m \notin OverCapacity(d)
    BY <1>1
  <2>3. Younger(d, m) \subseteq Seqs(d)
    BY DEF Younger
  <2>4. IsFiniteSet(Younger(d, m)) /\ \A x \in Younger(d, m) : Lengths(d)[x] \in Nat
    BY <2>3, FiniteSeqs, FS_Subset, LengthsNat
  <2>5. Sum(Lengths(d), R) <= Sum(Lengths(d), Younger(d, m))
    BY <2>1, <2>4, SumMonotone
  <2>6. Sum(Lengths(d), Younger(d, m)) \in Nat /\ Sum(Lengths(d), Younger(d, m)) <= MaxBytes
    BY <2>2, EvictedExceeds, StoreAssumption
  <2>7. Sum(Lengths(d), R) \in Nat
    BY <2>1, <2>4, FS_Subset, SumNat
  <2> QED  BY <1>2, <2>5, <2>6, <2>7, StoreAssumption
<1> QED  BY <1>3, <1>4

-----------------------------------------------------------------------------
AppendInv ==
    writing => /\ work.indexed
               /\ db.next <= work.next
               /\ DOMAIN work.delivered \subseteq DOMAIN db.delivered

LockInv == \A d \in Drainers : pc[d] # "idle" => drainLock = {d}

BatchInv ==
    \A d \in Drainers :
        /\ pc[d] \notin {"send", "quarantine"} => batch[d] = << >>
        /\ pc[d] = "quarantine" => unsent[d] # {}

SentInv ==
    \A d \in Drainers : \A s \in DOMAIN batch[d] :
        \/ s \in unsent[d]
        \/ batch[d][s] \in Unmatched
        \/ <<s, batch[d][s]>> \in received

HalvesInv ==
    \A d \in Drainers : \A G, H \in halves[d] : G # H => G \cap H = {}

IInv ==
    /\ TypeOK
    /\ StoreConsistent
    /\ AppendInv
    /\ HalvesInv
    /\ LockInv
    /\ BatchInv
    /\ SentInv
    /\ DeliveredWasAccepted

(* What a drainer holds has the types TypeOK gives it. *)
BatchOK(b, u, h, limit) ==
    /\ b \in [DOMAIN b -> IDs]
    /\ DOMAIN b \subseteq 1 .. limit
    /\ u \subseteq DOMAIN b
    /\ \A H \in h : H # {} /\ H \subseteq u

(* TypeOK again, in the parts the steps change. *)
StoreOK == StoreType(db) /\ StoreType(work) /\ writing \in BOOLEAN /\ todo \in Seq(IDs)

DrainOK ==
    /\ drainLock \subseteq Drainers
    /\ pc \in [Drainers -> Places]
    /\ watermark \in [Drainers -> Nat]
    /\ DOMAIN batch = Drainers /\ DOMAIN unsent = Drainers
    /\ DOMAIN halves = Drainers
    /\ \A d \in Drainers : BatchOK(batch[d], unsent[d], halves[d], db.next)
    /\ received \subseteq (1 .. db.next) \X IDs

(* TypeOK in two parts. *)
LEMMA TypeOKParts == TypeOK <=> StoreOK /\ DrainOK /\ now \in Nat
<1> QED  BY DEF TypeOK, StoreOK, DrainOK, BatchOK

(* A store that is not open is sound. *)
LEMMA ClosedSound ==
    /\ Sound(Closed) /\ Seqs(Closed) = {} /\ Closed.next = 0
    /\ DOMAIN Closed.delivered = {}
<1>1. << >> \in Seq(Event) /\ Len(<< >>) = 0 /\ Len(<< >>) <= Len(Legacy)
  BY StoreAssumption
<1>2. /\ Sound(Closed) /\ Seqs(Closed) = 1 .. Len(<< >>) /\ Closed.next = Len(<< >>)
      /\ DOMAIN Closed.delivered = {}
  BY <1>1, StoreOfSound DEF Closed
<1> QED  BY <1>1, <1>2

-----------------------------------------------------------------------------
(* An append only ever replaces the store by one that knows at least the    *)
(* same sequences and at most the same deliveries: the drainers' part of    *)
(* the invariant does not depend on more.                                  *)
LEMMA StoreStep ==
    ASSUME IInv,
           StoreOK', StoreConsistent', AppendInv', now' \in Nat,
           db.next <= db'.next,
           DOMAIN db'.delivered \subseteq DOMAIN db.delivered,
           UNCHANGED <<drainVars, received>>
    PROVE  IInv'
<1>1. DrainOK'
  <2>1. DrainOK /\ db.next \in Nat /\ db'.next \in Nat
    BY TypeOKParts DEF IInv, StoreOK, StoreType
  <2>2. 1 .. db.next \subseteq 1 .. db'.next
    BY <2>1
  <2>3. \A d \in Drainers : BatchOK(batch[d], unsent[d], halves[d], db'.next)
    BY <2>1, <2>2 DEF DrainOK, BatchOK
  <2> QED  BY <2>1, <2>2, <2>3 DEF DrainOK, drainVars
<1>2. TypeOK'
  BY <1>1, TypeOKParts DEF TypeOK, StoreOK, DrainOK, BatchOK
<1>3. LockInv' /\ BatchInv' /\ SentInv' /\ HalvesInv'
  BY DEF IInv, LockInv, BatchInv, SentInv, HalvesInv, drainVars
<1>4. DeliveredWasAccepted'
  BY DEF IInv, DeliveredWasAccepted, AcceptedIDs
<1> QED  BY <1>2, <1>3, <1>4 DEF IInv

(* The initial states. *)
LEMMA InitInv == ASSUME Init PROVE IInv
<1>1. Sound(db) /\ db.next \in Nat /\ DOMAIN db.delivered = {}
  <2>1. CASE db = StoreOf(<< >>)
    BY <2>1, ClosedSound DEF Closed
  <2>2. CASE db = StoreOf(Legacy)
    <3>1. Legacy \in Seq(Event) /\ Len(Legacy) \in Nat
      BY StoreAssumption
    <3> QED  BY <2>2, <3>1, StoreOfSound
  <2> QED  BY <2>1, <2>2 DEF Init
<1>2. StoreOK /\ StoreConsistent
  <2>1. Sound(work) /\ writing \in BOOLEAN
    BY ClosedSound DEF Init
  <2>2. todo \in Seq(IDs)
    BY DEF Init
  <2> QED  BY <1>1, <2>1, <2>2 DEF StoreOK, StoreConsistent, Sound
<1>3. DrainOK
  <2>1. << >> \in [{} -> IDs] /\ DOMAIN << >> = {}
    OBVIOUS
  <2> QED  BY <2>1 DEF Init, DrainOK, BatchOK, Places
<1>4. AppendInv /\ LockInv /\ BatchInv /\ SentInv /\ HalvesInv /\ DeliveredWasAccepted
  BY <1>1 DEF Init, AppendInv, LockInv, BatchInv, SentInv, HalvesInv, DeliveredWasAccepted
<1>5. now \in Nat
  BY DEF Init
<1> QED  BY <1>2, <1>3, <1>4, <1>5, TypeOKParts DEF IInv

(* The clock. *)
LEMMA TickStep == ASSUME IInv, Tick PROVE IInv'
<1>1. now' \in Nat
  BY DEF IInv, TypeOK, Tick
<1>2. StoreOK' /\ StoreConsistent' /\ AppendInv'
  BY TypeOKParts DEF IInv, Tick, storeVars, StoreOK, StoreConsistent, AppendInv
<1>3. db' = db /\ db.next \in Nat
  BY DEF Tick, storeVars, IInv, TypeOK, StoreType
<1> QED  BY <1>1, <1>2, <1>3, StoreStep DEF Tick

(* OpenOrCreate. *)
LEMMA OpenStep == ASSUME IInv, Open PROVE IInv'
<1>1. Sound(db) /\ ~db.indexed
  BY DEF IInv, TypeOK, StoreConsistent, Sound, Open, StoreType
<1>2. Sound(db') /\ db'.next = db.next /\ db'.delivered = db.delivered
  BY <1>1, BackfillSound DEF Open
<1>3. StoreOK' /\ StoreConsistent' /\ AppendInv'
  BY <1>2, TypeOKParts DEF IInv, Open, StoreOK, StoreConsistent, AppendInv, Sound
<1>4. db.next \in Nat /\ now' \in Nat
  BY DEF IInv, TypeOK, StoreType, Open
<1> QED  BY <1>2, <1>3, <1>4, StoreStep DEF Open

(* The start of an Append's transaction. *)
LEMMA BeginAppendStep ==
    ASSUME IInv, NEW ids \in AppendBatches, BeginAppend(ids)
    PROVE  IInv'
<1>1. Sound(db) /\ db.indexed /\ db.next \in Nat
  BY DEF IInv, TypeOK, StoreConsistent, Sound, BeginAppend, CanTransact, StoreType
<1>2. /\ Sound(work') /\ work'.next = db.next /\ work'.indexed
      /\ DOMAIN work'.delivered \subseteq DOMAIN db.delivered
  BY <1>1, PruneExpiredSound DEF BeginAppend
<1>3. todo' \in Seq(IDs)
  BY QueueAssumption DEF BeginAppend
<1>4. StoreOK' /\ StoreConsistent' /\ AppendInv'
  BY <1>1, <1>2, <1>3 DEF BeginAppend, StoreOK, StoreConsistent, AppendInv, Sound
<1>5. now' \in Nat
  BY DEF IInv, TypeOK, BeginAppend
<1> QED  BY <1>1, <1>4, <1>5, StoreStep DEF BeginAppend

(* One insertion of an Append. *)
LEMMA InsertNextStep ==
    ASSUME IInv, NEW created \in 0 .. now, InsertNext(created)
    PROVE  IInv'
<1>1. /\ Sound(work) /\ work.indexed /\ db.next <= work.next
      /\ DOMAIN work.delivered \subseteq DOMAIN db.delivered
      /\ todo \in Seq(IDs) /\ todo # << >> /\ now \in Nat
      /\ db.next \in Nat /\ work.next \in Nat /\ StoreType(db) /\ Consistent(db)
  BY DEF IInv, TypeOK, StoreConsistent, AppendInv, Sound, InsertNext, StoreType
<1>2. PICK e : e = [id |-> Head(todo), created |-> created]
  OBVIOUS
<1>3. e \in Event
  BY <1>1, <1>2 DEF Event
<1>4. /\ Sound(Insert(work, e))
      /\ Insert(work, e).next \in {work.next, work.next + 1}
      /\ Insert(work, e).indexed = work.indexed
      /\ Insert(work, e).delivered = work.delivered
  BY <1>1, <1>3, InsertSound
<1>5. work' = work \/ work' = Insert(work, e)
  BY <1>2 DEF InsertNext
<1>6. /\ Sound(work') /\ work'.indexed /\ db.next <= work'.next
      /\ DOMAIN work'.delivered \subseteq DOMAIN db.delivered
  <2>1. CASE work' = work
    BY <1>1, <2>1
  <2>2. CASE work' = Insert(work, e)
    <3>1. Sound(work') /\ work'.indexed /\ DOMAIN work'.delivered \subseteq DOMAIN db.delivered
      BY <1>1, <1>4, <2>2, Zenon
    <3>2. db.next <= work'.next
      BY <1>1, <1>4, <2>2
    <3> QED  BY <3>1, <3>2
  <2> QED  BY <1>5, <2>1, <2>2
<1>7. todo' \in Seq(IDs)
  BY <1>1 DEF InsertNext
<1>8. StoreOK' /\ StoreConsistent' /\ AppendInv'
  BY <1>1, <1>6, <1>7 DEF InsertNext, StoreOK, StoreConsistent, AppendInv, Sound
<1> QED  BY <1>1, <1>8, StoreStep DEF InsertNext

(* The end of its transaction, by a commit or not. *)
LEMMA EndAppendStep ==
    ASSUME IInv, CommitAppend \/ AbortAppend
    PROVE  IInv'
<1>1. /\ Sound(work) /\ writing /\ db.next <= work.next
      /\ DOMAIN work.delivered \subseteq DOMAIN db.delivered
      /\ Sound(db) /\ now \in Nat /\ db.next \in Nat
  BY DEF IInv, TypeOK, StoreConsistent, AppendInv, Sound, CommitAppend, AbortAppend, StoreType
<1>2. /\ Sound(EvictOverCapacity(work))
      /\ EvictOverCapacity(work).next = work.next
      /\ EvictOverCapacity(work).delivered = work.delivered
  BY <1>1, DeleteFromSound DEF EvictOverCapacity, IsWithout
<1>3. db' = db \/ db' = EvictOverCapacity(work)
  BY DEF CommitAppend, AbortAppend, EndAppend
<1>4. /\ writing' = FALSE /\ work' = Closed /\ todo' = << >>
      /\ UNCHANGED <<now, drainVars, received>>
  BY DEF CommitAppend, AbortAppend, EndAppend
<1>5. /\ Sound(db') /\ db.next <= db'.next
      /\ DOMAIN db'.delivered \subseteq DOMAIN db.delivered
  BY <1>1, <1>2, <1>3
<1>6. Sound(work') /\ todo' \in Seq(IDs) /\ writing' \in BOOLEAN /\ ~writing'
  <2>1. Sound(work')
    BY <1>4, ClosedSound
  <2>2. todo' \in Seq(IDs)
    BY <1>4
  <2> QED  BY <1>4, <2>1, <2>2
<1>7. StoreOK' /\ StoreConsistent' /\ AppendInv'
  BY <1>5, <1>6 DEF StoreOK, StoreConsistent, AppendInv, Sound
<1> QED  BY <1>1, <1>4, <1>5, <1>7, StoreStep

-----------------------------------------------------------------------------
(* A step of one drainer changes its own place, batch and requests. *)
OnlyBy(d) ==
    /\ UNCHANGED <<writing, work, todo, now>>
    /\ pc' \in [Drainers -> Places]
    /\ watermark' \in [Drainers -> Nat]
    /\ DOMAIN batch' = Drainers /\ DOMAIN unsent' = Drainers /\ DOMAIN halves' = Drainers
    /\ \A e \in Drainers \ {d} :
        /\ pc'[e] = pc[e] /\ batch'[e] = batch[e]
        /\ unsent'[e] = unsent[e] /\ halves'[e] = halves[e]

(* Such a step keeps the invariant if the drainer owns the lock whenever it *)
(* is inside Drain, and if what it records as delivered it knows to be so.  *)
LEMMA DrainerStep ==
    ASSUME IInv, NEW d \in Drainers, OnlyBy(d),
           Sound(db'), db'.next = db.next, db' = db \/ ~writing,
           drainLock \subseteq {d}, drainLock' \subseteq {d},
           pc'[d] # "idle" => drainLock' = {d},
           pc'[d] \notin {"send", "quarantine"} => batch'[d] = << >>,
           pc'[d] = "quarantine" => unsent'[d] # {},
           BatchOK(batch'[d], unsent'[d], halves'[d], db.next),
           \A G, H \in halves'[d] : G # H => G \cap H = {},
           received \subseteq received',
           received' \subseteq (1 .. db.next) \X IDs,
           \A s \in DOMAIN batch'[d] :
               \/ s \in unsent'[d]
               \/ batch'[d][s] \in Unmatched
               \/ <<s, batch'[d][s]>> \in received',
           DOMAIN db'.delivered
               \subseteq DOMAIN db.delivered \cup AcceptedIDs' \cup Unmatched
    PROVE  IInv'
<1>1. StoreOK' /\ now' \in Nat /\ StoreConsistent'
  BY TypeOKParts DEF IInv, OnlyBy, StoreOK, StoreConsistent, Sound
<1>2. DrainOK'
  <2>1. \A e \in Drainers : BatchOK(batch'[e], unsent'[e], halves'[e], db'.next)
    BY TypeOKParts DEF IInv, DrainOK, OnlyBy
  <2> QED  BY <2>1, TypeOKParts DEF IInv, DrainOK, OnlyBy
<1>3. TypeOK'
  BY <1>1, <1>2 DEF TypeOK, StoreOK, DrainOK, BatchOK
<1>4. AppendInv'
  BY DEF IInv, AppendInv, OnlyBy
<1>5. LockInv' /\ BatchInv'
  BY DEF IInv, LockInv, BatchInv, OnlyBy
<1>6. SentInv' /\ HalvesInv'
  BY DEF IInv, SentInv, HalvesInv, OnlyBy
<1>7. DeliveredWasAccepted'
  <2>1. AcceptedIDs \subseteq AcceptedIDs'
    BY DEF AcceptedIDs
  <2> QED  BY <2>1 DEF IInv, DeliveredWasAccepted
<1> QED  BY <1>1, <1>3, <1>4, <1>5, <1>6, <1>7 DEF IInv

(* What the steps of a drainer may rely on. *)
LEMMA DrainerFacts ==
    ASSUME IInv, NEW d \in Drainers
    PROVE  /\ Sound(db) /\ db.next \in Nat /\ now \in Nat
           /\ drainLock \subseteq Drainers
           /\ pc \in [Drainers -> Places] /\ watermark \in [Drainers -> Nat]
           /\ DOMAIN batch = Drainers /\ DOMAIN unsent = Drainers /\ DOMAIN halves = Drainers
           /\ BatchOK(batch[d], unsent[d], halves[d], db.next)
           /\ \A G, H \in halves[d] : G # H => G \cap H = {}
           /\ received \subseteq (1 .. db.next) \X IDs
           /\ pc[d] # "idle" => drainLock = {d}
           /\ pc[d] \notin {"send", "quarantine"} => batch[d] = << >>
           /\ pc[d] = "quarantine" => unsent[d] # {}
           /\ \A s \in DOMAIN batch[d] :
                  \/ s \in unsent[d]
                  \/ batch[d][s] \in Unmatched
                  \/ <<s, batch[d][s]>> \in received
<1>1. StoreOK /\ DrainOK /\ now \in Nat /\ Consistent(db)
  BY TypeOKParts DEF IInv, StoreConsistent
<1> QED
  BY <1>1 DEF StoreOK, DrainOK, StoreType, Sound, IInv, LockInv, BatchInv, SentInv, HalvesInv

(* No batch is a sound one. *)
LEMMA EmptyBatchOK == \A n : BatchOK(<< >>, {}, {}, n) /\ DOMAIN << >> = {}
<1>1. DOMAIN << >> = {} /\ << >> \in [{} -> IDs]
  OBVIOUS
<1> QED  BY <1>1 DEF BatchOK

(* Leaving Drain, whatever the control plane has received by then. *)
LEMMA ReleaseStep ==
    ASSUME IInv, NEW d \in Drainers, Release(d), pc[d] # "idle",
           UNCHANGED <<writing, work, todo, now>>,
           Sound(db'), db'.next = db.next, db' = db \/ ~writing,
           received \subseteq received',
           received' \subseteq (1 .. db.next) \X IDs,
           DOMAIN db'.delivered \subseteq DOMAIN db.delivered
    PROVE  IInv'
<1>1. OnlyBy(d)
  BY DrainerFacts DEF Release, Goto, OnlyBy, Places
<1>2. /\ pc'[d] = "idle" /\ batch'[d] = << >>
      /\ unsent'[d] = {} /\ halves'[d] = {}
      /\ drainLock \subseteq {d} /\ drainLock' \subseteq {d}
  BY DrainerFacts DEF Release, Goto
<1> QED  BY <1>1, <1>2, EmptyBatchOK, DrainerStep

(* A drainer takes the drain lock. *)
LEMMA AcquireLockStep ==
    ASSUME IInv, NEW d \in Drainers, AcquireLock(d)
    PROVE  IInv'
<1>1. OnlyBy(d)
  BY DrainerFacts DEF AcquireLock, Goto, OnlyBy, Places, storeVars
<1>2. /\ pc'[d] = "locked" /\ pc[d] = "idle" /\ batch'[d] = batch[d]
      /\ unsent'[d] = unsent[d] /\ halves'[d] = halves[d]
      /\ drainLock = {} /\ drainLock' = {d} /\ db' = db /\ received' = received
  BY DrainerFacts DEF AcquireLock, Goto, storeVars
<1> QED  BY <1>1, <1>2, DrainerFacts, DrainerStep

(* A drainer gives up. *)
LEMMA GiveUpStep ==
    ASSUME IInv, NEW d \in Drainers, GiveUp(d)
    PROVE  IInv'
<1> QED  BY DrainerFacts, ReleaseStep DEF GiveUp, storeVars

(* A drainer takes the watermark. *)
LEMMA TakeWatermarkStep ==
    ASSUME IInv, NEW d \in Drainers, TakeWatermark(d)
    PROVE  IInv'
<1>1. pc[d] # "idle" /\ ~writing /\ db' = PruneExpired(db, now)
      /\ UNCHANGED <<writing, work, todo, now, received>>
  BY DEF TakeWatermark, CanTransact
<1>2. /\ Sound(db') /\ db'.next = db.next
      /\ DOMAIN db'.delivered \subseteq DOMAIN db.delivered
  BY <1>1, DrainerFacts, PruneExpiredSound
<1>3. CASE Seqs(db') = {}
  <2>1. Release(d)
    BY <1>3 DEF TakeWatermark
  <2> QED  BY <1>1, <1>2, <2>1, DrainerFacts, ReleaseStep
<1>4. CASE Seqs(db') # {}
  <2>1. /\ watermark' = [watermark EXCEPT ![d] = Max(Seqs(db'))]
        /\ Goto(d, "fetch")
        /\ UNCHANGED <<drainLock, batch, unsent, halves>>
    BY <1>4 DEF TakeWatermark
  <2>2. Max(Seqs(db')) \in Nat
    <3>1. Seqs(db') \in SUBSET (1 .. db.next)
      BY <1>2 DEF Sound, StoreType
    <3>2. \E m \in Seqs(db') : \A s \in Seqs(db') : s <= m
      <4>1. db.next \in Nat
        BY DrainerFacts
      <4> QED  BY <1>4, <3>1, <4>1, Greatest
    <3>3. \E m \in Seqs(db') : \A s \in Seqs(db') : m >= s
      BY <3>1, <3>2
    <3>4. Max(Seqs(db')) \in Seqs(db')
      BY <3>3 DEF Max
    <3> QED  BY <3>1, <3>4
  <2>3. OnlyBy(d)
    BY <1>1, <2>1, <2>2, DrainerFacts DEF Goto, OnlyBy, Places
  <2>4. /\ pc'[d] = "fetch" /\ pc[d] = "locked" /\ batch'[d] = batch[d]
        /\ unsent'[d] = unsent[d] /\ halves'[d] = halves[d]
        /\ drainLock = {d} /\ drainLock' = {d} /\ received' = received
    BY <1>1, <2>1, DrainerFacts DEF Goto, TakeWatermark
  <2> QED  BY <1>1, <1>2, <2>3, <2>4, DrainerFacts, DrainerStep
<1> QED  BY <1>3, <1>4

(* A drainer fetches a batch. *)
LEMMA FetchBatchStep ==
    ASSUME IInv, NEW d \in Drainers, FetchBatch(d)
    PROVE  IInv'
<1> DEFINE S == NextDrainBatch(db', watermark[d])
           b == [s \in S |-> db'.events[s].id]
           u == {s \in S : db'.events[s].id \notin Unmatched}
<1>1. pc[d] = "fetch" /\ ~writing /\ db' = PruneExpired(db, now)
      /\ UNCHANGED <<writing, work, todo, now, received>>
  BY DEF FetchBatch, CanTransact
<1>2. /\ Sound(db') /\ db'.next = db.next
      /\ DOMAIN db'.delivered \subseteq DOMAIN db.delivered
  BY <1>1, DrainerFacts, PruneExpiredSound
<1>3. CASE S = {}
  <2>1. Release(d)
    BY <1>3 DEF FetchBatch
  <2> QED  BY <1>1, <1>2, <2>1, DrainerFacts, ReleaseStep
<1>4. CASE S # {}
  <2>1. /\ batch' = [batch EXCEPT ![d] = b]
        /\ unsent' = [unsent EXCEPT ![d] = u]
        /\ Goto(d, "send")
        /\ UNCHANGED <<drainLock, watermark, halves>>
    BY <1>4 DEF FetchBatch
  <2>2. S \subseteq Seqs(db') /\ \A s \in Seqs(db') : db'.events[s].id \in IDs
    BY <1>2 DEF NextDrainBatch, Least, Sound, StoreType, Event
  <2>3. Seqs(db') \subseteq 1 .. db.next
    BY <1>2 DEF Sound, StoreType
  <2>4. halves[d] = {}
    <3>1. batch[d] = << >>
      BY <1>1, DrainerFacts
    <3> QED  BY <3>1, DrainerFacts, EmptyBatchOK DEF BatchOK
  <2>5. BatchOK(b, u, halves[d], db.next)
    BY <2>2, <2>3, <2>4 DEF BatchOK
  <2>6. OnlyBy(d)
    BY <1>1, <2>1, DrainerFacts DEF Goto, OnlyBy, Places
  <2>7. /\ pc'[d] = "send" /\ batch'[d] = b
        /\ unsent'[d] = u /\ halves'[d] = halves[d]
        /\ drainLock = {d} /\ drainLock' = {d} /\ received' = received
    BY <1>1, <2>1, DrainerFacts DEF Goto
  <2>8. \A s \in DOMAIN b : s \in u \/ b[s] \in Unmatched
    OBVIOUS
  <2> HIDE DEF S, b, u
  <2> QED  BY <1>1, <1>2, <2>5, <2>6, <2>7, <2>8, DrainerFacts, DrainerStep
<1> QED  BY <1>3, <1>4

-----------------------------------------------------------------------------
(* The request posted next is some of the events still to send. *)
LEMMA RequestSome ==
    ASSUME IInv, NEW d \in Drainers, unsent[d] # {}
    PROVE  /\ Request(d) \subseteq unsent[d] /\ Request(d) # {}
           /\ halves[d] # {} => Request(d) \in halves[d]
<1>1. unsent[d] \subseteq Nat /\ \A H \in halves[d] : H # {} /\ H \subseteq unsent[d]
  <2>1. unsent[d] \subseteq 1 .. db.next /\ db.next \in Nat
    BY DrainerFacts DEF BatchOK
  <2> QED  BY <2>1, DrainerFacts DEF BatchOK
<1>2. CASE halves[d] = {}
  <2>1. PICK m \in unsent[d] : \A s \in unsent[d] : m <= s
    BY <1>1, Smallest
  <2>2. {t \in unsent[d] : t <= m} = {m}
    BY <1>1, <2>1
  <2>3. m \in FirstFitting(d)
    BY <2>2 DEF FirstFitting
  <2> QED  BY <1>2, <2>3 DEF Request, FirstFitting
<1>3. CASE halves[d] # {}
  <2>1. UNION halves[d] \in SUBSET Nat /\ UNION halves[d] # {}
    BY <1>1, <1>3
  <2>2. PICK m \in UNION halves[d] : \A s \in UNION halves[d] : m <= s
    BY <2>1, Smallest
  <2>3. PICK H \in halves[d] : m \in H
    BY <2>2
  <2>4. \A G \in halves[d] : \E h \in H : \A g \in G : h <= g
    BY <2>2, <2>3
  <2>5. Request(d) \in halves[d]
    BY <1>3, <2>4 DEF Request
  <2> QED  BY <1>1, <1>3, <2>5
<1> QED  BY <1>2, <1>3

(* Bisection splits a request of several events into two that are not       *)
(* empty.                                                                  *)
LEMMA Bisected ==
    ASSUME NEW n \in Nat, NEW R \in SUBSET (1 .. n), Cardinality(R) > 1
    PROVE  LET left == Least(Cardinality(R) \div 2, R)
           IN  left \subseteq R /\ left # {} /\ R \ left # {}
<1>1. IsFiniteSet(R) /\ Cardinality(R) \in Nat
  <2>1. R \subseteq Nat /\ \A r \in R : r <= n
    OBVIOUS
  <2>2. IsFiniteSet(R)
    BY <2>1, FS_BoundedSetOfNaturals
  <2> QED  BY <2>2, FS_CardinalityType
<1>2. R # {} /\ R \in SUBSET Nat
  BY FS_EmptySet
<1>3. PICK half : half = Cardinality(R) \div 2
  OBVIOUS
<1>4. half \in Nat /\ 0 < half /\ half <= Cardinality(R) - 1
  BY <1>1, <1>3
<1>5. Least(half, R) # {}
  <2>1. PICK m \in R : \A s \in R : m <= s
    BY <1>2, Smallest
  <2>2. {t \in R : t < m} = {}
    <3>1. \A t \in R : ~(t < m)
      BY <1>2, <2>1
    <3> QED  BY <3>1
  <2>3. Cardinality({t \in R : t < m}) = 0
    BY <2>2, FS_EmptySet
  <2> QED  BY <1>4, <2>3 DEF Least
<1>6. R \ Least(half, R) # {}
  <2>1. PICK m \in R : \A s \in R : s <= m
    BY <1>2, Greatest
  <2>2. {t \in R : t < m} = R \ {m}
    <3>1. \A t \in R : t < m <=> t # m
      BY <1>2, <2>1
    <3> QED  BY <3>1
  <2>3. Cardinality(R \ {m}) = Cardinality(R) - 1
    BY <1>1, FS_RemoveElement
  <2>4. ~(Cardinality({t \in R : t < m}) < half)
    BY <1>1, <1>4, <2>2, <2>3
  <2> QED  BY <2>4 DEF Least
<1> QED  BY <1>3, <1>5, <1>6 DEF Least

(* The control plane received the events of the request. *)
LEMMA Received ==
    ASSUME IInv, NEW d \in Drainers, unsent[d] # {}, Receive(d, Request(d))
    PROVE  /\ received \subseteq received'
           /\ received' \subseteq (1 .. db.next) \X IDs
           /\ \A s \in Request(d) : <<s, batch[d][s]>> \in received'
<1>1. Request(d) \subseteq DOMAIN batch[d]
  BY RequestSome, DrainerFacts DEF BatchOK
<1>2. \A s \in Request(d) : s \in 1 .. db.next /\ batch[d][s] \in IDs
  BY <1>1, DrainerFacts DEF BatchOK
<1> QED  BY <1>2, DrainerFacts DEF Receive

(* A request is accepted and the answer arrives. *)
LEMMA PostAcceptedStep ==
    ASSUME IInv, NEW d \in Drainers, PostAccepted(d)
    PROVE  IInv'
<1> DEFINE R == Request(d)
           u == unsent[d] \ R
           h == halves[d] \ {R}
<1>1. /\ pc[d] = "send" /\ unsent[d] # {} /\ Receive(d, R)
      /\ unsent' = [unsent EXCEPT ![d] = u]
      /\ halves' = [halves EXCEPT ![d] = h]
      /\ UNCHANGED <<db, writing, work, todo, now, drainLock, pc, watermark, batch>>
  BY DEF PostAccepted, Posting, storeVars
<1>2. BatchOK(batch[d], unsent[d], halves[d], db.next)
  BY DrainerFacts
<1>3. BatchOK(batch[d], u, h, db.next)
  <2>1. \A H \in h : H \cap R = {}
    BY <1>1, DrainerFacts, RequestSome
  <2> QED  BY <1>2, <2>1 DEF BatchOK
<1>4. \A s \in DOMAIN batch[d] :
          \/ s \in u \/ batch[d][s] \in Unmatched \/ <<s, batch[d][s]>> \in received'
  <2>1. \A s \in DOMAIN batch[d] :
            \/ s \in unsent[d] \/ batch[d][s] \in Unmatched \/ <<s, batch[d][s]>> \in received
    BY DrainerFacts
  <2>2. received \subseteq received' /\ \A s \in R : <<s, batch[d][s]>> \in received'
    BY <1>1, Received
  <2> QED  BY <2>1, <2>2
<1>5. OnlyBy(d)
  BY <1>1, DrainerFacts DEF OnlyBy
<1>6. /\ pc'[d] = "send" /\ batch'[d] = batch[d] /\ unsent'[d] = u /\ halves'[d] = h
      /\ drainLock = {d} /\ drainLock' = {d}
  BY <1>1, DrainerFacts
<1>7. /\ received \subseteq received' /\ received' \subseteq (1 .. db.next) \X IDs
      /\ \A G, H \in h : G # H => G \cap H = {}
  BY <1>1, DrainerFacts, Received
<1> HIDE DEF R, u, h
<1> QED  BY <1>1, <1>3, <1>4, <1>5, <1>6, <1>7, DrainerFacts, DrainerStep

(* The answer to a request is lost. *)
LEMMA PostLostStep ==
    ASSUME IInv, NEW d \in Drainers, PostLost(d)
    PROVE  IInv'
<1>1. /\ pc[d] = "send" /\ unsent[d] # {} /\ Receive(d, Request(d)) /\ Release(d)
      /\ UNCHANGED <<db, writing, work, todo, now>>
  BY DEF PostLost, Posting, storeVars
<1> QED  BY <1>1, DrainerFacts, Received, ReleaseStep

(* A request is rejected. *)
LEMMA PostRejectedStep ==
    ASSUME IInv, NEW d \in Drainers, PostRejected(d)
    PROVE  IInv'
<1> DEFINE R == Request(d)
           left == Least(Cardinality(R) \div 2, R)
           h == (halves[d] \ {R}) \cup {left, R \ left}
<1>1. /\ pc[d] = "send" /\ unsent[d] # {}
      /\ UNCHANGED <<db, writing, work, todo, now, drainLock, watermark, batch, unsent, received>>
  BY DEF PostRejected, Posting, storeVars
<1>2. /\ R \subseteq unsent[d] /\ R # {}
      /\ halves[d] # {} => R \in halves[d]
  BY <1>1, RequestSome
<1>3. BatchOK(batch[d], unsent[d], halves[d], db.next)
  BY DrainerFacts
<1>4. drainLock = {d} /\ drainLock' = {d}
  BY <1>1, DrainerFacts
<1>5. CASE Cardinality(R) > 1
  <2>1. halves' = [halves EXCEPT ![d] = h] /\ pc' = pc
    BY <1>5 DEF PostRejected
  <2>2. left \subseteq R /\ left # {} /\ R \ left # {}
    <3>1. R \in SUBSET (1 .. db.next) /\ db.next \in Nat
      BY <1>2, <1>3, DrainerFacts DEF BatchOK
    <3> HIDE DEF R
    <3> QED  BY <1>5, <3>1, Bisected
  <2> HIDE DEF R, left
  <2>3. BatchOK(batch[d], unsent[d], h, db.next)
    BY <1>2, <1>3, <2>2 DEF BatchOK
  <2>4. \A G, H \in h : G # H => G \cap H = {}
    <3>1. \A G \in halves[d] \ {R} : G \cap R = {}
      BY <1>2, DrainerFacts
    <3>2. \A G, H \in halves[d] \ {R} : G # H => G \cap H = {}
      BY DrainerFacts
    <3>3. left \cap (R \ left) = {}
      OBVIOUS
    <3>4. \A G \in halves[d] \ {R} : G \cap left = {} /\ G \cap (R \ left) = {}
      BY <2>2, <3>1
    <3>5. PICK L, M : L = left /\ M = R \ left
      OBVIOUS
    <3> QED  BY <3>2, <3>3, <3>4, <3>5
  <2>5. OnlyBy(d)
    BY <1>1, <2>1, DrainerFacts DEF OnlyBy
  <2>6. /\ pc'[d] = "send" /\ batch'[d] = batch[d]
        /\ unsent'[d] = unsent[d] /\ halves'[d] = h
    BY <1>1, <2>1, DrainerFacts
  <2> HIDE DEF h
  <2>7. /\ BatchOK(batch'[d], unsent'[d], halves'[d], db.next)
        /\ \A G, H \in halves'[d] : G # H => G \cap H = {}
    BY <2>3, <2>4, <2>6
  <2> QED  BY <1>1, <1>4, <2>5, <2>6, <2>7, DrainerFacts, DrainerStep
<1>6. CASE ~(Cardinality(R) > 1)
  <2>1. halves' = [halves EXCEPT ![d] = {R}] /\ Goto(d, "quarantine")
    BY <1>6 DEF PostRejected
  <2> HIDE DEF R
  <2>2. BatchOK(batch[d], unsent[d], {R}, db.next)
    BY <1>2, <1>3 DEF BatchOK
  <2>3. OnlyBy(d)
    BY <1>1, <2>1, DrainerFacts DEF OnlyBy, Goto, Places
  <2>4. /\ pc'[d] = "quarantine" /\ batch'[d] = batch[d]
        /\ unsent'[d] = unsent[d] /\ halves'[d] = {R}
    BY <1>1, <2>1, DrainerFacts DEF Goto
  <2>5. /\ BatchOK(batch'[d], unsent'[d], halves'[d], db.next)
        /\ \A G, H \in halves'[d] : G # H => G \cap H = {}
    BY <2>2, <2>4
  <2>6. /\ Sound(db) /\ received \subseteq (1 .. db.next) \X IDs
        /\ \A s \in DOMAIN batch[d] :
               \/ s \in unsent[d]
               \/ batch[d][s] \in Unmatched
               \/ <<s, batch[d][s]>> \in received
        /\ DOMAIN db.delivered \subseteq DOMAIN db.delivered \cup AcceptedIDs' \cup Unmatched
    BY DrainerFacts
  <2>7. /\ pc'[d] = "quarantine" /\ unsent'[d] # {} /\ db' = db
        /\ drainLock = {d} /\ drainLock' = {d}
    BY <1>1, <1>4, <2>4
  <2> QED  BY <1>1, <2>3, <2>4, <2>5, <2>6, <2>7, DrainerStep
<1> QED  BY <1>5, <1>6

(* Drain goes on: the drainer holds nothing any more. *)
LEMMA NextBatchStep ==
    ASSUME IInv, NEW d \in Drainers, NextBatch(d), pc[d] # "idle", ~writing,
           Sound(db'), db'.next = db.next,
           DOMAIN db'.delivered
               \subseteq DOMAIN db.delivered \cup AcceptedIDs \cup Unmatched
    PROVE  IInv'
<1>1. OnlyBy(d)
  BY DrainerFacts DEF NextBatch, Goto, OnlyBy, Places
<1>2. /\ pc'[d] = "fetch" /\ batch'[d] = << >>
      /\ unsent'[d] = {} /\ halves'[d] = {}
      /\ drainLock = {d} /\ drainLock' = {d} /\ received' = received
  BY DrainerFacts DEF NextBatch, Goto
<1>3. AcceptedIDs' = AcceptedIDs
  BY <1>2 DEF AcceptedIDs
<1>4. /\ BatchOK(batch'[d], unsent'[d], halves'[d], db.next)
      /\ \A G, H \in halves'[d] : G # H => G \cap H = {}
      /\ \A s \in DOMAIN batch'[d] :
             \/ s \in unsent'[d]
             \/ batch'[d][s] \in Unmatched
             \/ <<s, batch'[d][s]>> \in received'
  BY <1>2, EmptyBatchOK
<1>5. received \subseteq received' /\ received' \subseteq (1 .. db.next) \X IDs
  BY <1>2, DrainerFacts
<1>6. /\ drainLock \subseteq {d} /\ drainLock' \subseteq {d}
      /\ pc'[d] # "idle" => drainLock' = {d}
      /\ pc'[d] \notin {"send", "quarantine"} => batch'[d] = << >>
      /\ pc'[d] = "quarantine" => unsent'[d] # {}
  BY <1>2
<1>7. DOMAIN db'.delivered
          \subseteq DOMAIN db.delivered \cup AcceptedIDs' \cup Unmatched
  BY <1>3
<1> QED  BY <1>1, <1>4, <1>5, <1>6, <1>7, DrainerStep

(* A drainer acknowledges its batch. *)
LEMMA AcknowledgeStep ==
    ASSUME IInv, NEW d \in Drainers, Acknowledge(d)
    PROVE  IInv'
<1> DEFINE I == IDsOf(d, DOMAIN batch[d])
<1>1. /\ pc[d] = "send" /\ unsent[d] = {} /\ ~writing /\ NextBatch(d)
      /\ db' = DeleteQueued(RecordDelivered(db, I, now), DOMAIN batch[d])
  BY DEF Acknowledge, CanTransact
<1>2. I \in SUBSET IDs
  BY DrainerFacts DEF IDsOf, BatchOK
<1>3. I \subseteq AcceptedIDs \cup Unmatched
  <2>1. \A s \in DOMAIN batch[d] :
            batch[d][s] \in Unmatched \/ <<s, batch[d][s]>> \in received
    BY <1>1, DrainerFacts
  <2>2. ASSUME NEW s \in DOMAIN batch[d], <<s, batch[d][s]>> \in received
        PROVE  batch[d][s] \in AcceptedIDs
    <3>1. <<s, batch[d][s]>>[2] = batch[d][s]
      OBVIOUS
    <3> QED  BY <2>2, <3>1 DEF AcceptedIDs
  <2> QED  BY <2>1, <2>2 DEF IDsOf
<1> HIDE DEF I
<1>4. PICK r : r = RecordDelivered(db, I, now)
  OBVIOUS
<1>5. /\ Sound(r) /\ r.next = db.next
      /\ DOMAIN r.delivered = DOMAIN db.delivered \cup I
  BY <1>2, <1>4, DrainerFacts, RecordDeliveredSound
<1>6. Sound(db') /\ db'.next = r.next /\ db'.delivered = r.delivered
  <2>1. PICK S : S = DOMAIN batch[d]
    OBVIOUS
  <2>2. db' = DeleteQueued(r, S)
    BY <1>1, <1>4, <2>1
  <2>3. Sound(db') /\ IsWithout(db', r, S)
    BY <1>5, <2>2, DeleteFromSound
  <2> QED  BY <2>3 DEF IsWithout
<1> QED  BY <1>1, <1>3, <1>5, <1>6, NextBatchStep

(* What a drainer that quarantines blames are IDs of its batch. *)
LEMMA RejectedIDs ==
    ASSUME IInv, NEW d \in Drainers, pc[d] = "quarantine"
    PROVE  Request(d) \subseteq DOMAIN batch[d] /\ IDsOf(d, Request(d)) \in SUBSET IDs
<1>1. Request(d) \subseteq DOMAIN batch[d]
  <2>1. unsent[d] # {}
    BY DrainerFacts
  <2> QED  BY <2>1, RequestSome, DrainerFacts DEF BatchOK
<1> QED  BY <1>1, DrainerFacts DEF IDsOf, BatchOK

(* A drainer quarantines the event it isolated. *)
LEMMA QuarantineStep ==
    ASSUME IInv, NEW d \in Drainers, Quarantine(d)
    PROVE  IInv'
<1> DEFINE I == IDsOf(d, Request(d))
           S == {s \in DOMAIN batch[d] : batch[d][s] \in I}
<1>1. /\ pc[d] = "quarantine" /\ ~writing /\ NextBatch(d)
      /\ db' = DeleteQueued([db EXCEPT !.quarantine = @ \cup I], S)
  BY DEF Quarantine, CanTransact
<1>2. I \in SUBSET IDs
  BY <1>1, RejectedIDs
<1> HIDE DEF I, S
<1>3. PICK r : r = [db EXCEPT !.quarantine = @ \cup I]
  OBVIOUS
<1>4. Sound(r) /\ r.next = db.next /\ r.delivered = db.delivered
  <2>1. Sound(db)
    BY DrainerFacts
  <2>2. QED
    BY <1>2, <1>3, <2>1, QuarantineSound
<1>5. Sound(db') /\ db'.next = r.next /\ db'.delivered = r.delivered
  <2>1. db' = DeleteQueued(r, S)
    BY <1>1, <1>3
  <2>2. Sound(db') /\ IsWithout(db', r, S)
    BY <1>4, <2>1, DeleteFromSound
  <2> QED  BY <2>2 DEF IsWithout
<1> QED  BY <1>1, <1>4, <1>5, NextBatchStep

-----------------------------------------------------------------------------
(* One drainer's step, whichever it is. *)
LEMMA DrainStep ==
    ASSUME IInv, NEW d \in Drainers, Drain(d)
    PROVE  IInv'
<1> QED
  BY AcquireLockStep, TakeWatermarkStep, FetchBatchStep, PostAcceptedStep,
     PostLostStep, PostRejectedStep, AcknowledgeStep, QuarantineStep, GiveUpStep
  DEF Drain

(* Nothing happens. *)
LEMMA StutterStep == ASSUME IInv, UNCHANGED vars PROVE IInv'
<1>1. StoreOK' /\ StoreConsistent' /\ AppendInv' /\ now' \in Nat
  BY TypeOKParts DEF IInv, vars, storeVars, StoreOK, StoreConsistent, AppendInv
<1>2. db' = db /\ db.next \in Nat
  BY DEF vars, storeVars, IInv, TypeOK, StoreType
<1> QED  BY <1>1, <1>2, StoreStep DEF vars

(* IInv is inductive. *)
THEOREM Invariant == Spec => []IInv
<1>1. Init => IInv
  BY InitInv
<1>2. IInv /\ [Next]_vars => IInv'
  <2> SUFFICES ASSUME IInv, [Next]_vars
               PROVE  IInv'
    OBVIOUS
  <2>1. CASE Tick
    BY <2>1, TickStep
  <2>2. CASE Open
    BY <2>2, OpenStep
  <2>3. CASE AppendEvents
    BY <2>3, BeginAppendStep, InsertNextStep, EndAppendStep DEF AppendEvents
  <2>4. CASE \E d \in Drainers : Drain(d)
    BY <2>4, DrainStep
  <2>5. CASE UNCHANGED vars
    BY <2>5, StutterStep
  <2> QED  BY <2>1, <2>2, <2>3, <2>4, <2>5 DEF Next
<1> QED  BY <1>1, <1>2, PTL DEF Spec

(* Every variable keeps its type, and what a drainer holds stays within its *)
(* batch: queue.go's Drain never posts a sequence it did not fetch.         *)
THEOREM TypeCorrect == Spec => []TypeOK
<1>1. IInv => TypeOK
  BY DEF IInv
<1> QED  BY <1>1, Invariant, PTL

(* The buckets of queue-v3.db agree after every transaction, for any        *)
(* interleaving of appends and drains.                                     *)
THEOREM BucketsAgree == Spec => []StoreConsistent
<1>1. IInv => StoreConsistent
  BY DEF IInv
<1> QED  BY <1>1, Invariant, PTL

(* withQueueFileLock lets one drainer in at a time, and two drainers never  *)
(* hold the same event.                                                    *)
THEOREM ExclusiveDrain == Spec => []OneSender
<1>1. IInv => OneSender
  <2> SUFFICES ASSUME IInv
               PROVE  OneSender
    OBVIOUS
  <2>1. ASSUME NEW d \in Drainers, NEW e \in Drainers, d # e
        PROVE  DOMAIN batch[d] \cap DOMAIN batch[e] = {}
    <3>1. pc[d] = "idle" \/ pc[e] = "idle"
      BY <2>1 DEF IInv, LockInv
    <3>2. batch[d] = << >> \/ batch[e] = << >>
      BY <3>1 DEF IInv, BatchInv
    <3> QED  BY <3>2, EmptyBatchOK
  <2> QED  BY <2>1 DEF OneSender, IInv, LockInv
<1> QED  BY <1>1, Invariant, PTL

(* Drain records an ID as delivered only after the control plane accepted an *)
(* event with it, unless the client filters it out.                        *)
THEOREM DeliveredOnlyWhenAccepted == Spec => []DeliveredWasAccepted
<1>1. IInv => DeliveredWasAccepted
  BY DEF IInv
<1> QED  BY <1>1, Invariant, PTL

-----------------------------------------------------------------------------
(***************************************************************************)
(* What the queue promises, for any number of drainers, IDs, batches and    *)
(* any limits: its byte count and its capacity, and that bisection blames   *)
(* the right event.  Each rests on IInv and on what is added here: what an  *)
(* open append knows of the committed events (WorkInv), and in which order  *)
(* a drainer's batch and requests are (OrderInv).                          *)
(***************************************************************************)

BytesInv == BytesConsistent /\ CapacityRespected

(* A committed event is still there for an open append, or it expired, and  *)
(* is older than everything the append has, or a newer one replaced it.     *)
Kept(s) == s \in Seqs(work) /\ work.events[s] = db.events[s]
Dropped(s) ==
    /\ db.events[s].created < Cutoff(now)
    /\ \A t \in Seqs(work) : db.events[s].created < work.events[t].created
Replaced(s) ==
    /\ db.events[s].id \in Snapshots
    /\ \E t \in Seqs(work) : t > db.next /\ work.events[t].id = db.events[s].id

WorkInv ==
    writing =>
        /\ work.quarantine = db.quarantine
        /\ \A s \in Seqs(work) : s > db.next \/ (s \in Seqs(db) /\ Kept(s))
        /\ \A s \in Seqs(db) : Kept(s) \/ Dropped(s) \/ Replaced(s)

(* The control plane rejects an event with this ID when it comes alone. *)
Blamed(id) == id \in Poison \/ Size[id] > MaxPost

Before(G, H) == \A g \in G, h \in H : g < h

(* A drainer's batch b is what the store had, with nothing older left out;  *)
(* the requests h left from a bisection are the first of what is unsent, u, *)
(* one before the other.                                                   *)
Ordered(b, u, h, store) ==
    /\ \A s \in DOMAIN b \cap Seqs(store) : store.events[s].id = b[s]
    /\ \A s \in DOMAIN b : \A t \in Seqs(store) : t < s => t \in DOMAIN b
    /\ \A s \in UNION h : \A t \in u : t < s => t \in UNION h
    /\ \A G, H \in h : G # H => Before(G, H) \/ Before(H, G)

OrderInv ==
    \A d \in Drainers :
        /\ Ordered(batch[d], unsent[d], halves[d], db)
        /\ pc[d] = "quarantine" =>
              \E s \in DOMAIN batch[d] : halves[d] = {{s}} /\ Blamed(batch[d][s])

-----------------------------------------------------------------------------
(* Bytes and capacity *)
LEMMA BytesNat ==
    ASSUME NEW d, StoreType(d), BytesMatchEvents(d)
    PROVE  d.bytes \in Nat
<1>1. IsFiniteSet(Seqs(d))
  BY FiniteSeqs
<1> QED  BY <1>1, BytesMatchSum, LengthsNat, SumNat

(* The committed store gives bytes back, or is replaced by one that fits. *)
LEMMA BytesStep ==
    ASSUME IInv, BytesInv, StoreType(db'), BytesMatchEvents(db'), BytesMatchEvents(work'),
           \/ db'.bytes <= db.bytes /\ db'.next = db.next
           \/ db'.bytes <= MaxBytes
    PROVE  BytesInv'
<1>1. db.bytes \in Nat /\ db'.bytes \in Nat
  BY BytesNat DEF IInv, TypeOK, BytesInv, BytesConsistent
<1>2. CapacityRespected'
  BY <1>1, StoreAssumption DEF BytesInv, CapacityRespected
<1> QED  BY <1>2 DEF BytesInv, BytesConsistent

(* A store that is not open counts nothing. *)
LEMMA ClosedBytes == BytesMatchEvents(Closed)
<1>1. << >> \in Seq(Event) /\ Len(<< >>) <= Len(Legacy)
  BY StoreAssumption
<1> QED  BY <1>1, StoreOfBytes DEF Closed

(* The store that is migrated fits and is counted right. *)
LEMMA BytesInit == ASSUME Init PROVE BytesInv
<1>1. Legacy \in Seq(Event) /\ Len(Legacy) \in Nat
  BY StoreAssumption
<1>2. BytesMatchEvents(StoreOf(Legacy)) /\ StoreOf(Legacy).next = Len(Legacy)
  BY <1>1, StoreOfBytes, StoreOfSound
<1>3. BytesMatchEvents(Closed) /\ Closed.bytes = 0
  <2>1. StoreType(Closed) /\ Seqs(Closed) = {}
    BY ClosedSound DEF Sound
  <2> QED  BY <2>1, ClosedBytes, BytesMatchSum, SumEmpty
<1> QED  BY <1>2, <1>3, StoreAssumption DEF Init, BytesInv, BytesConsistent, CapacityRespected, Closed

(* Append leaves the count right and within the limit: evictOverCapacity is *)
(* its last step.                                                           *)
LEMMA BytesAppend ==
    ASSUME IInv, BytesInv, AppendEvents
    PROVE  BytesInv'
<1>1. /\ Sound(db) /\ Sound(work) /\ BytesMatchEvents(db) /\ BytesMatchEvents(work)
      /\ db.bytes \in Nat
  BY BytesNat DEF IInv, TypeOK, StoreConsistent, Sound, BytesInv, BytesConsistent
<1>2. CASE \E ids \in AppendBatches : BeginAppend(ids)
  <2>1. db' = db /\ work' = PruneExpired(db, now)
    BY <1>2 DEF BeginAppend
  <2>2. BytesMatchEvents(work')
    BY <1>1, <2>1, PruneExpiredBytes
  <2> QED  BY <1>1, <2>1, <2>2, BytesStep DEF Sound
<1>3. CASE \E created \in 0 .. now : InsertNext(created)
  <2>1. PICK created \in 0 .. now : InsertNext(created)
    BY <1>3
  <2>2. PICK e : e = [id |-> Head(todo), created |-> created]
    OBVIOUS
  <2>3. e \in Event /\ work.indexed
    BY <2>1, <2>2 DEF IInv, TypeOK, AppendInv, InsertNext, Event
  <2>4. db' = db /\ (work' = work \/ work' = Insert(work, e))
    BY <2>1, <2>2 DEF InsertNext
  <2>5. BytesMatchEvents(work')
    BY <1>1, <2>3, <2>4, InsertBytes
  <2> QED  BY <1>1, <2>4, <2>5, BytesStep DEF Sound
<1>4. CASE CommitAppend
  <2>1. db' = EvictOverCapacity(work) /\ work' = Closed
    BY <1>4 DEF CommitAppend, EndAppend
  <2>2. StoreType(db') /\ BytesMatchEvents(db') /\ db'.bytes <= MaxBytes
    BY <1>1, <2>1, DeleteFromSound, DeleteBytes, EvictFits DEF EvictOverCapacity, Sound
  <2> QED  BY <2>1, <2>2, ClosedBytes, BytesStep
<1>5. CASE AbortAppend
  <2>1. db' = db /\ work' = Closed
    BY <1>5 DEF AbortAppend, EndAppend
  <2> QED  BY <1>1, <2>1, ClosedBytes, BytesStep DEF Sound
<1> QED  BY <1>2, <1>3, <1>4, <1>5 DEF AppendEvents

(* What a drainer commits has no more bytes than what it found. *)
LEMMA BytesDrain ==
    ASSUME IInv, BytesInv, NEW d \in Drainers, Drain(d)
    PROVE  BytesInv'
<1>1. /\ Sound(db) /\ BytesMatchEvents(db) /\ BytesMatchEvents(work)
      /\ db.bytes \in Nat /\ now \in Nat
  BY BytesNat DEF IInv, TypeOK, StoreConsistent, Sound, BytesInv, BytesConsistent
<1>2. work' = work
  BY DEF Drain, AcquireLock, TakeWatermark, FetchBatch, PostAccepted, PostLost,
         PostRejected, Acknowledge, Quarantine, GiveUp, NextBatch, storeVars
<1>3. CASE db' = db
  BY <1>1, <1>2, <1>3, BytesStep DEF Sound
<1>4. CASE db' = PruneExpired(db, now)
  <2>1. /\ StoreType(db') /\ db'.next = db.next
        /\ BytesMatchEvents(db') /\ db'.bytes <= db.bytes
    BY <1>1, <1>4, PruneExpiredSound, PruneExpiredBytes DEF Sound
  <2> QED  BY <1>1, <1>2, <2>1, BytesStep
<1>5. CASE Acknowledge(d)
  <2>1. PICK I : I = IDsOf(d, DOMAIN batch[d])
    OBVIOUS
  <2>2. I \in SUBSET IDs
    BY <2>1, DrainerFacts DEF IDsOf, BatchOK
  <2>3. PICK r : r = RecordDelivered(db, I, now)
    OBVIOUS
  <2>4. Sound(r) /\ r.next = db.next /\ BytesMatchEvents(r) /\ r.bytes = db.bytes
    BY <1>1, <2>2, <2>3, RecordDeliveredSound, RecordDeliveredBytes
  <2>5. db' = DeleteQueued(r, DOMAIN batch[d])
    BY <1>5, <2>1, <2>3 DEF Acknowledge
  <2>6. StoreType(db') /\ db'.next = r.next /\ BytesMatchEvents(db') /\ db'.bytes <= r.bytes
    BY <2>4, <2>5, DeleteFromSound, DeleteBytes DEF Sound, IsWithout
  <2> QED  BY <1>1, <1>2, <2>4, <2>6, BytesStep
<1>6. CASE Quarantine(d)
  <2>1. PICK I : I = IDsOf(d, Request(d))
    OBVIOUS
  <2>2. I \in SUBSET IDs
    BY <1>6, <2>1, RejectedIDs DEF Quarantine
  <2>3. PICK r : r = [db EXCEPT !.quarantine = @ \cup I]
    OBVIOUS
  <2>4. Sound(r) /\ r.next = db.next /\ BytesMatchEvents(r) /\ r.bytes = db.bytes
    BY <1>1, <2>2, <2>3, QuarantineSound, QuarantineBytes
  <2>5. PICK S : db' = DeleteQueued(r, S)
    BY <1>6, <2>1, <2>3 DEF Quarantine
  <2>6. StoreType(db') /\ db'.next = r.next /\ BytesMatchEvents(db') /\ db'.bytes <= r.bytes
    BY <2>4, <2>5, DeleteFromSound, DeleteBytes DEF Sound, IsWithout
  <2> QED  BY <1>1, <1>2, <2>4, <2>6, BytesStep
<1>7. \/ db' = db \/ db' = PruneExpired(db, now) \/ Acknowledge(d) \/ Quarantine(d)
  BY DEF Drain, AcquireLock, TakeWatermark, FetchBatch, PostAccepted, PostLost,
         PostRejected, GiveUp, storeVars
<1> QED  BY <1>3, <1>4, <1>5, <1>6, <1>7

-----------------------------------------------------------------------------
(* What an append knows *)
LEMMA QueueFacts ==
    ASSUME IInv
    PROVE  /\ Sound(db) /\ Sound(work) /\ now \in Nat
           /\ db.next \in Nat /\ work.next \in Nat
           /\ writing => work.indexed /\ db.next <= work.next
           /\ \A s \in Seqs(db) : db.events[s].created \in Nat /\ s \in 1 .. db.next
           /\ \A s \in Seqs(work) : work.events[s].created \in Nat /\ s \in 1 .. work.next
<1>1. StoreType(db) /\ StoreType(work) /\ Consistent(db) /\ Consistent(work) /\ now \in Nat
  BY DEF IInv, TypeOK, StoreConsistent
<1> QED  BY <1>1 DEF IInv, AppendInv, Sound, StoreType, Event

(* backfillIndexes changes neither events, sequence nor quarantine. *)
LEMMA BackfillEvents ==
    ASSUME NEW d, Sound(d), ~d.indexed
    PROVE  /\ Backfill(d).events = d.events /\ Backfill(d).next = d.next
           /\ Backfill(d).quarantine = d.quarantine
<1>1. Backfill(d).events = d.events
  BY DEF Backfill, Sound, StoreType, Buckets
<1> QED  BY <1>1, BackfillSound

(* What expired stays expired. *)
LEMMA WorkTick ==
    ASSUME IInv, WorkInv, Tick
    PROVE  WorkInv'
<1>1. db' = db /\ work' = work /\ writing' = writing /\ now' = now + 1
  BY DEF Tick, storeVars
<1>2. \A s \in Seqs(db) : Dropped(s) => Dropped(s)'
  BY <1>1, QueueFacts, StoreAssumption DEF Dropped, Cutoff, Seqs
<1> QED  BY <1>1, <1>2 DEF WorkInv, Kept, Replaced, Seqs

(* Opening the store changes only its indexes. *)
LEMMA WorkOpen ==
    ASSUME IInv, WorkInv, Open
    PROVE  WorkInv'
<1>1. work' = work /\ writing' = writing /\ now' = now
  BY DEF Open
<1>2. db'.events = db.events /\ db'.next = db.next /\ db'.quarantine = db.quarantine
  BY QueueFacts, BackfillEvents DEF Open
<1> QED  BY <1>1, <1>2 DEF WorkInv, Kept, Dropped, Replaced, Seqs

(* What pruneExpired takes at the start of an append has expired. *)
LEMMA WorkBegin ==
    ASSUME IInv, NEW ids, BeginAppend(ids)
    PROVE  WorkInv'
<1>1. db' = db /\ now' = now /\ work' = PruneExpired(db, now)
  BY DEF BeginAppend
<1>2. /\ Sound(work') /\ work'.quarantine = db.quarantine
      /\ Seqs(work') = {s \in Seqs(db) : ~(db.events[s].created < Cutoff(now))}
      /\ \A s \in Seqs(work') : work'.events[s] = db.events[s]
  BY <1>1, QueueFacts, PruneExpiredSound
<1>3. ASSUME NEW s \in Seqs(db), s \notin Seqs(work')
      PROVE  Dropped(s)'
  <2>1. db.events[s].created < Cutoff(now) /\ db.events[s].created \in Nat
    BY <1>2, <1>3, QueueFacts
  <2>2. \A t \in Seqs(work') :
            /\ ~(work'.events[t].created < Cutoff(now)) /\ work'.events[t].created \in Nat
    BY <1>2, QueueFacts
  <2>3. Cutoff(now) \in Int
    BY QueueFacts, StoreAssumption DEF Cutoff
  <2>4. \A t \in Seqs(work') : db.events[s].created < work'.events[t].created
    BY <2>1, <2>2, <2>3
  <2> QED  BY <1>1, <2>1, <2>4 DEF Dropped, Seqs
<1>4. \A s \in Seqs(work') : s \in Seqs(db) /\ Kept(s)'
  BY <1>1, <1>2 DEF Kept, Seqs
<1>5. \A s \in Seqs(db) : Kept(s)' \/ Dropped(s)'
  BY <1>3, <1>4
<1> QED  BY <1>1, <1>2, <1>4, <1>5 DEF WorkInv, Seqs

(* What an insertion replaces is a snapshot's older event. *)
LEMMA WorkInsert ==
    ASSUME IInv, WorkInv, NEW created \in 0 .. now, InsertNext(created)
    PROVE  WorkInv'
<1>1. /\ writing /\ db' = db /\ now' = now /\ writing' = writing
      /\ todo # << >> /\ todo \in Seq(IDs) /\ work.indexed
  BY DEF InsertNext, IInv, TypeOK, AppendInv
<1>2. PICK e : e = [id |-> Head(todo), created |-> created]
  OBVIOUS
<1>3. e \in Event /\ e.created = created
  BY <1>1, <1>2, QueueFacts DEF Event
<1>4. CASE work' = work
  BY <1>1, <1>4 DEF WorkInv, Kept, Dropped, Replaced, Seqs
<1>5. CASE work' = Insert(work, e) /\ ~(created < Cutoff(now))
  <2>1. PICK n : n = work.next + 1
    OBVIOUS
  <2>2. n \in Nat /\ n > db.next
    BY <1>1, <2>1, QueueFacts
  <2>3. \A s \in Seqs(work') :
            \/ s \in Seqs(work) /\ work'.events[s] = work.events[s]
            \/ s = n /\ work'.events[s] = e
    BY <1>1, <1>3, <1>5, <2>1, QueueFacts, InsertEvents
  <2>4. \A s \in Seqs(work) :
            \/ s \in Seqs(work') /\ work'.events[s] = work.events[s]
            \/ /\ work.events[s].id = e.id /\ e.id \in Snapshots
               /\ n \in Seqs(work') /\ work'.events[n] = e
    BY <1>1, <1>3, <1>5, <2>1, QueueFacts, InsertEvents
  <2>5. work'.quarantine = work.quarantine
    BY <1>1, <1>3, <1>5, QueueFacts, InsertSound
  <2>6. ASSUME NEW s \in Seqs(work')
        PROVE  s > db.next \/ (s \in Seqs(db) /\ Kept(s)')
    BY <1>1, <2>2, <2>3 DEF WorkInv, Kept, Seqs
  <2>7. ASSUME NEW s \in Seqs(db)
        PROVE  Kept(s)' \/ Dropped(s)' \/ Replaced(s)'
    <3>1. CASE Kept(s)
      <4>1. s \in Seqs(work') /\ work'.events[s] = db.events[s] => Kept(s)'
        BY <1>1 DEF Kept, Seqs
      <4>2. /\ db.events[s].id \in Snapshots
            /\ n \in Seqs(work') /\ work'.events[n].id = db.events[s].id
            => Replaced(s)'
        BY <1>1, <2>2 DEF Replaced, Seqs
      <4> QED  BY <2>4, <3>1, <4>1, <4>2 DEF Kept
    <3>2. CASE Dropped(s)
      <4>1. Cutoff(now) \in Int /\ db.events[s].created \in Nat /\ created \in Nat
        BY QueueFacts, StoreAssumption DEF Cutoff
      <4>2. db.events[s].created < created
        BY <1>5, <3>2, <4>1 DEF Dropped
      <4>3. \A t \in Seqs(work') : db.events[s].created < work'.events[t].created
        BY <1>3, <2>3, <3>2, <4>2 DEF Dropped
      <4> QED  BY <1>1, <3>2, <4>3 DEF Dropped, Seqs
    <3>3. CASE Replaced(s)
      <4>1. PICK t \in Seqs(work) : t > db.next /\ work.events[t].id = db.events[s].id
        BY <3>3 DEF Replaced
      <4>2. CASE t \in Seqs(work') /\ work'.events[t] = work.events[t]
        BY <1>1, <3>3, <4>1, <4>2 DEF Replaced, Seqs
      <4>3. CASE work.events[t].id = e.id /\ n \in Seqs(work') /\ work'.events[n] = e
        BY <1>1, <2>2, <3>3, <4>1, <4>3 DEF Replaced, Seqs
      <4> QED  BY <2>4, <4>2, <4>3
    <3> QED  BY <1>1, <3>1, <3>2, <3>3 DEF WorkInv
  <2> QED  BY <1>1, <2>5, <2>6, <2>7 DEF WorkInv, Seqs
<1> QED  BY <1>2, <1>4, <1>5 DEF InsertNext

(* A drainer's steps leave an open append alone, and wait for it to write. *)
LEMMA DrainLeavesWork ==
    ASSUME NEW d \in Drainers, Drain(d)
    PROVE  UNCHANGED <<writing, work, now>> /\ (writing => db' = db)
<1> QED
  BY DEF Drain, AcquireLock, TakeWatermark, FetchBatch, PostAccepted, PostLost,
         PostRejected, Acknowledge, Quarantine, GiveUp, NextBatch, storeVars, CanTransact

(* So WorkInv outlives a drainer's steps. *)
LEMMA WorkDrain ==
    ASSUME WorkInv, NEW d \in Drainers, Drain(d)
    PROVE  WorkInv'
<1> QED  BY DrainLeavesWork DEF WorkInv, Kept, Dropped, Replaced, Seqs

-----------------------------------------------------------------------------
(* The order of a drainer's requests *)

(* The n least elements of a set are before its others. *)
LEMMA LeastBefore ==
    ASSUME NEW S \in SUBSET Nat, IsFiniteSet(S), NEW n \in Nat
    PROVE  Before(Least(n, S), S \ Least(n, S))
<1> SUFFICES ASSUME NEW x \in Least(n, S), NEW y \in S, ~(x < y)
             PROVE  y \in Least(n, S)
  BY DEF Before
<1>1. PICK X, Y : X = {t \in S : t < x} /\ Y = {t \in S : t < y}
  OBVIOUS
<1>2. x \in S /\ Cardinality(X) < n
  BY <1>1 DEF Least
<1>3. Y \subseteq X /\ IsFiniteSet(X)
  <2>1. ASSUME NEW t \in S, t < y
        PROVE  t < x
    <3>1. t \in Nat /\ x \in Nat /\ y \in Nat
      BY <1>2
    <3> QED  BY <2>1, <3>1
  <2>2. Y \subseteq X
    BY <1>1, <2>1
  <2>3. X \in SUBSET S
    BY <1>1
  <2> QED  BY <2>2, <2>3, FS_Subset
<1>4. Cardinality(Y) <= Cardinality(X) /\ Cardinality(Y) \in Nat /\ Cardinality(X) \in Nat
  BY <1>3, FS_Subset, FS_CardinalityType
<1>5. Cardinality(Y) < n
  BY <1>2, <1>4
<1> QED  BY <1>1, <1>5 DEF Least

(* The bytes of a request are the sum of the lengths of its events. *)
LEMMA RequestBytes ==
    ASSUME NEW d, NEW S, IsFiniteSet(S), \A s \in S : Size[batch[d][s]] \in Nat
    PROVE  Bytes(d, S) = Sum([s \in S |-> Size[batch[d][s]]], S)
<1> DEFINE w == [s \in S |-> Size[batch[d][s]]]
           IsBytes(g) ==
        g = [T \in SUBSET S |->
                IF T = {} THEN 0 ELSE Size[batch[d][Pick(T)]] + g[T \ {Pick(T)}]]
<1>1. \A T \in SUBSET S : T # {} => w[Pick(T)] = Size[batch[d][Pick(T)]]
  BY DEF Pick
<1>2. \A g : IsBytes(g) <=> IsSum(g, w, S)
  BY <1>1 DEF IsSum
<1>3. Bytes(d, S) = (CHOOSE g : IsBytes(g))[S]
  BY DEF Bytes, MapThenSumSet, MapThenFoldSet, Pick
<1>4. PICK g : g = (CHOOSE h : IsBytes(h))
  OBVIOUS
<1> HIDE DEF IsBytes, w
<1>5. \E h : IsBytes(h)
  BY <1>2, SumExists
<1>6. IsSum(g, w, S)
  BY <1>2, <1>4, <1>5
<1>7. PICK h : h = (CHOOSE k : IsSum(k, w, S))
  OBVIOUS
<1>8. IsSum(h, w, S) /\ Sum(w, S) = h[S]
  BY <1>7, SumExists, SumChosen
<1>9. g[S] = h[S]
  BY <1>6, <1>8, SumUnique
<1> QED  BY <1>3, <1>4, <1>8, <1>9 DEF w

(* A batch is finite, and so are its lengths. *)
LEMMA BatchLengths ==
    ASSUME IInv, NEW d \in Drainers
    PROVE  /\ DOMAIN batch[d] \subseteq Nat /\ IsFiniteSet(DOMAIN batch[d])
           /\ unsent[d] \subseteq DOMAIN batch[d]
           /\ \A s \in DOMAIN batch[d] : Size[batch[d][s]] \in Nat
<1>1. BatchOK(batch[d], unsent[d], halves[d], db.next) /\ db.next \in Nat
  BY DrainerFacts
<1>2. DOMAIN batch[d] \subseteq Nat /\ \A s \in DOMAIN batch[d] : s <= db.next
  BY <1>1 DEF BatchOK
<1> QED  BY <1>1, <1>2, FS_BoundedSetOfNaturals, StoreAssumption DEF BatchOK

(* A part of a request has no more bytes than the request. *)
LEMMA FewerBytes ==
    ASSUME IInv, NEW d \in Drainers, NEW S \in SUBSET DOMAIN batch[d], NEW T \in SUBSET S
    PROVE  Bytes(d, T) <= Bytes(d, S) /\ Bytes(d, T) \in Nat /\ Bytes(d, S) \in Nat
<1>1. IsFiniteSet(S) /\ IsFiniteSet(T) /\ \A s \in S : Size[batch[d][s]] \in Nat
  BY BatchLengths, FS_Subset
<1>2. PICK v, w : /\ v = [s \in T |-> Size[batch[d][s]]]
                  /\ w = [s \in S |-> Size[batch[d][s]]]
  OBVIOUS
<1>3. Bytes(d, T) = Sum(v, T) /\ Bytes(d, S) = Sum(w, S)
  BY <1>1, <1>2, RequestBytes
<1>4. Sum(v, T) = Sum(w, T)
  BY <1>1, <1>2, SumSame
<1>5. \A s \in S : w[s] \in Nat
  BY <1>1, <1>2
<1>6. Sum(w, T) <= Sum(w, S) /\ Sum(w, T) \in Nat /\ Sum(w, S) \in Nat
  BY <1>1, <1>5, SumMonotone, SumNat
<1> QED  BY <1>3, <1>4, <1>6

(* The bytes of a request for one event are its length. *)
LEMMA BytesOfOne ==
    ASSUME IInv, NEW d \in Drainers, NEW s \in DOMAIN batch[d]
    PROVE  Bytes(d, {s}) = Size[batch[d][s]]
<1>1. IsFiniteSet({s}) /\ Size[batch[d][s]] \in Nat
  BY BatchLengths, FS_Singleton
<1>2. PICK w : w = [x \in {s} |-> Size[batch[d][x]]]
  OBVIOUS
<1>3. Bytes(d, {s}) = Sum(w, {s})
  BY <1>1, <1>2, RequestBytes
<1>4. {s} \ {s} = {} /\ w[s] = Size[batch[d][s]]
  BY <1>2
<1>5. Sum(w, {s}) = w[s] + Sum(w, {s} \ {s})
  BY <1>1, <1>2, <1>4, SumElement
<1> QED  BY <1>1, <1>3, <1>4, <1>5, SumEmpty

(* The request posted next is the first of what is unsent, and before the   *)
(* other requests.                                                         *)
LEMMA RequestFirst ==
    ASSUME IInv, OrderInv, NEW d \in Drainers, unsent[d] # {}
    PROVE  /\ \A s \in Request(d) : \A t \in unsent[d] : t < s => t \in Request(d)
           /\ \A G \in halves[d] : G # Request(d) => Before(Request(d), G)
<1>1. unsent[d] \subseteq Nat /\ unsent[d] \subseteq DOMAIN batch[d]
  BY BatchLengths
<1>2. CASE halves[d] = {}
  <2>1. Request(d) = FirstFitting(d)
    BY <1>2 DEF Request
  <2>2. ASSUME NEW s \in FirstFitting(d), NEW t \in unsent[d], t < s
        PROVE  t \in FirstFitting(d)
    <3>1. PICK S, T : /\ S = {u \in unsent[d] : u <= s}
                      /\ T = {u \in unsent[d] : u <= t}
      OBVIOUS
    <3>2. s \in unsent[d] /\ (S = {s} \/ Bytes(d, S) <= MaxBody)
      BY <3>1 DEF FirstFitting
    <3>3. T \subseteq S /\ t \in S /\ t # s /\ S \subseteq DOMAIN batch[d]
      BY <1>1, <2>2, <3>1, <3>2
    <3>4. Bytes(d, T) <= Bytes(d, S) /\ Bytes(d, T) \in Nat /\ Bytes(d, S) \in Nat
      BY <3>3, FewerBytes
    <3>5. Bytes(d, T) <= MaxBody
      BY <3>2, <3>3, <3>4, QueueAssumption
    <3> QED  BY <3>1, <3>5 DEF FirstFitting
  <2> QED  BY <1>2, <2>1, <2>2
<1>3. CASE halves[d] # {}
  <2>1. PICK R : R = Request(d)
    OBVIOUS
  <2>2. R \in halves[d] /\ R \subseteq unsent[d] /\ R # {}
    BY <1>3, <2>1, RequestSome
  <2>3. \A G \in halves[d] : \E h \in R : \A g \in G : h <= g
    <3>1. UNION halves[d] \in SUBSET Nat /\ UNION halves[d] # {}
      BY <1>1, <1>3, DrainerFacts DEF BatchOK
    <3>2. PICK m \in UNION halves[d] : \A s \in UNION halves[d] : m <= s
      BY <3>1, Smallest
    <3>3. PICK H \in halves[d] : m \in H
      BY <3>2
    <3>4. \A G \in halves[d] : \E h \in H : \A g \in G : h <= g
      BY <3>2, <3>3
    <3> QED  BY <1>3, <2>1, <3>4 DEF Request
  <2>4. Ordered(batch[d], unsent[d], halves[d], db)
    BY DEF OrderInv
  <2>5. ASSUME NEW G \in halves[d], G # R
        PROVE  Before(R, G)
    <3>1. PICK h \in R : \A g \in G : h <= g
      BY <2>3
    <3>2. PICK g \in G : TRUE
      BY DrainerFacts DEF BatchOK
    <3>3. ~Before(G, R)
      <4>1. h \in Nat /\ g \in Nat /\ h <= g
        BY <1>1, <2>2, <3>1, DrainerFacts DEF BatchOK
      <4> QED  BY <4>1 DEF Before
    <3> QED  BY <2>2, <2>4, <2>5, <3>3 DEF Ordered
  <2>6. ASSUME NEW s \in R, NEW t \in unsent[d], t < s
        PROVE  t \in R
    <3>1. PICK G \in halves[d] : t \in G
      BY <2>2, <2>4, <2>6 DEF Ordered
    <3>2. s \in Nat /\ t \in Nat
      BY <1>1, <2>2
    <3> QED  BY <2>5, <2>6, <3>1, <3>2 DEF Before
  <2> QED  BY <2>1, <2>5, <2>6
<1> QED  BY <1>2, <1>3

-----------------------------------------------------------------------------
(* OrderInv is inductive *)

(* What a store still has of another. *)
Keeps(r, d) == \A s \in Seqs(r) : s \in Seqs(d) /\ r.events[s] = d.events[s]

(* A batch stays in order while its store only loses events, or has new     *)
(* ones with larger sequences.                                             *)
LEMMA OrderedFollows ==
    ASSUME NEW b, NEW u, NEW h, NEW d, NEW r, d.next \in Nat,
           DOMAIN b \subseteq 1 .. d.next, Ordered(b, u, h, d),
           \A s \in Seqs(r) :
               s \in Nat /\ (s > d.next \/ (s \in Seqs(d) /\ r.events[s] = d.events[s]))
    PROVE  Ordered(b, u, h, r)
<1>1. \A s \in DOMAIN b \cap Seqs(r) : s \in Seqs(d) /\ r.events[s] = d.events[s]
  <2>1. \A s \in DOMAIN b : s \in Nat /\ s <= d.next
    OBVIOUS
  <2> QED  BY <2>1
<1>2. \A s \in DOMAIN b : \A t \in Seqs(r) : t < s => t \in Seqs(d)
  <2>1. \A s \in DOMAIN b : s \in Nat /\ s <= d.next
    OBVIOUS
  <2> QED  BY <2>1
<1> QED  BY <1>1, <1>2 DEF Ordered

(* Whoever does not drain leaves the batches alone. *)
LEMMA OrderAppend ==
    ASSUME IInv, IInv', OrderInv, UNCHANGED drainVars,
           \A s \in Seqs(db') :
               s > db.next \/ (s \in Seqs(db) /\ db'.events[s] = db.events[s])
    PROVE  OrderInv'
<1>1. \A s \in Seqs(db') : s \in Nat
  BY DEF IInv, TypeOK, StoreType
<1>2. ASSUME NEW d \in Drainers
      PROVE  Ordered(batch[d], unsent[d], halves[d], db')
  <2>1. Ordered(batch[d], unsent[d], halves[d], db)
    BY DEF OrderInv
  <2>2. DOMAIN batch[d] \subseteq 1 .. db.next /\ db.next \in Nat
    BY DrainerFacts DEF BatchOK
  <2> QED  BY <1>1, <2>1, <2>2, OrderedFollows
<1> QED  BY <1>2 DEF OrderInv, drainVars

(* A commit puts the append's store in place, without what is over *)
(* capacity.                                                       *)
LEMMA CommittedStore ==
    ASSUME IInv, CommitAppend
    PROVE  /\ Keeps(db', work) /\ db'.next = work.next
           /\ db'.quarantine = work.quarantine
           /\ Seqs(db') = Seqs(work) \ OverCapacity(work)
<1>1. PICK S : S = OverCapacity(work)
  OBVIOUS
<1>2. db' = DeleteQueued(work, S) /\ Sound(work)
  BY <1>1, QueueFacts DEF CommitAppend, EndAppend, EvictOverCapacity
<1>3. /\ IsWithout(db', work, S) /\ Seqs(db') = Seqs(work) \ S
      /\ \A s \in Seqs(work) \ S : db'.events[s] = work.events[s]
  BY <1>2, DeleteFromSound
<1> QED  BY <1>1, <1>3 DEF IsWithout, Keeps

(* A step of an append, of the clock or of open keeps OrderInv. *)
LEMMA OrderOther ==
    ASSUME IInv, IInv', OrderInv, WorkInv, Tick \/ Open \/ AppendEvents
    PROVE  OrderInv'
<1>1. UNCHANGED drainVars
  BY DEF Tick, Open, AppendEvents, BeginAppend, InsertNext, CommitAppend, AbortAppend, EndAppend
<1>2. CASE CommitAppend
  <2>1. Keeps(db', work) /\ writing
    BY <1>2, CommittedStore DEF CommitAppend
  <2> QED  BY <1>1, <2>1, OrderAppend DEF WorkInv, Keeps, Kept
<1>3. CASE ~CommitAppend
  <2>1. db' = db \/ Open
    BY <1>3 DEF Tick, AppendEvents, BeginAppend, InsertNext, AbortAppend, EndAppend, storeVars
  <2>2. db'.events = db.events
    BY <2>1, QueueFacts, BackfillEvents DEF Open
  <2> QED  BY <1>1, <2>2, OrderAppend DEF Seqs
<1> QED  BY <1>2, <1>3

(* acknowledge takes exactly the events of the batch. *)
LEMMA AcknowledgedStore ==
    ASSUME IInv, NEW d \in Drainers, Acknowledge(d)
    PROVE  /\ Keeps(db', db) /\ db'.next = db.next
           /\ db'.quarantine = db.quarantine
           /\ Seqs(db') = Seqs(db) \ DOMAIN batch[d]
<1>1. PICK I : I = IDsOf(d, DOMAIN batch[d])
  OBVIOUS
<1>2. I \in SUBSET IDs
  BY <1>1, DrainerFacts DEF IDsOf, BatchOK
<1>3. PICK r : r = RecordDelivered(db, I, now)
  OBVIOUS
<1>4. Sound(r) /\ r.next = db.next /\ r.events = db.events /\ r.quarantine = db.quarantine
  <2>1. Sound(db) /\ now \in Nat
    BY DrainerFacts
  <2> QED  BY <1>2, <1>3, <2>1, RecordDeliveredSound
<1>5. PICK S : S = DOMAIN batch[d]
  OBVIOUS
<1>6. db' = DeleteQueued(r, S)
  BY <1>1, <1>3, <1>5 DEF Acknowledge
<1>7. /\ IsWithout(db', r, S) /\ Seqs(db') = Seqs(r) \ S
      /\ \A s \in Seqs(r) \ S : db'.events[s] = r.events[s]
  BY <1>4, <1>6, DeleteFromSound
<1> QED  BY <1>4, <1>5, <1>7 DEF IsWithout, Keeps, Seqs

(* Quarantine takes the events of the batch with the IDs of the request. *)
LEMMA QuarantinedStore ==
    ASSUME IInv, NEW d \in Drainers, Quarantine(d)
    PROVE  LET ids == IDsOf(d, Request(d))
           IN  /\ Keeps(db', db) /\ db'.next = db.next
               /\ db'.quarantine = db.quarantine \cup ids
               /\ Seqs(db') = Seqs(db) \ {s \in DOMAIN batch[d] : batch[d][s] \in ids}
<1>1. PICK I : I = IDsOf(d, Request(d))
  OBVIOUS
<1>2. I \in SUBSET IDs
  BY <1>1, RejectedIDs DEF Quarantine
<1>3. PICK r : r = [db EXCEPT !.quarantine = @ \cup I]
  OBVIOUS
<1>4. /\ Sound(r) /\ r.next = db.next /\ r.events = db.events
      /\ r.quarantine = db.quarantine \cup I
  <2>1. Sound(db)
    BY DrainerFacts
  <2>2. QED
    BY <1>2, <1>3, <2>1, QuarantineSound
<1>5. PICK S : S = {s \in DOMAIN batch[d] : batch[d][s] \in I}
  OBVIOUS
<1>6. db' = DeleteQueued(r, S)
  BY <1>1, <1>3, <1>5 DEF Quarantine
<1>7. /\ IsWithout(db', r, S) /\ Seqs(db') = Seqs(r) \ S
      /\ \A s \in Seqs(r) \ S : db'.events[s] = r.events[s]
  BY <1>4, <1>6, DeleteFromSound
<1> QED  BY <1>1, <1>4, <1>5, <1>7 DEF IsWithout, Keeps, Seqs

(* What a drainer commits is part of what it found. *)
LEMMA DrainedStore ==
    ASSUME IInv, NEW d \in Drainers, Drain(d)
    PROVE  /\ Keeps(db', db) /\ db'.next = db.next
           /\ ~Quarantine(d) => db'.quarantine = db.quarantine
<1>1. CASE db' = db
  BY <1>1 DEF Keeps
<1>2. CASE db' = PruneExpired(db, now)
  BY <1>2, DrainerFacts, PruneExpiredSound DEF Keeps
<1>3. CASE Acknowledge(d)
  BY <1>3, AcknowledgedStore
<1>4. CASE Quarantine(d)
  BY <1>4, QuarantinedStore
<1> QED
  BY <1>1, <1>2, <1>3, <1>4
  DEF Drain, AcquireLock, TakeWatermark, FetchBatch, PostAccepted, PostLost,
      PostRejected, GiveUp, storeVars

(* It keeps OrderInv if its own batch and requests stay in order. *)
LEMMA OrderOf ==
    ASSUME IInv, IInv', OrderInv, NEW d \in Drainers, Drain(d),
           \A e \in Drainers \ {d} :
               /\ pc'[e] = pc[e] /\ batch'[e] = batch[e]
               /\ unsent'[e] = unsent[e] /\ halves'[e] = halves[e],
           Ordered(batch'[d], unsent'[d], halves'[d], db'),
           pc'[d] = "quarantine" =>
              \E s \in DOMAIN batch'[d] : halves'[d] = {{s}} /\ Blamed(batch'[d][s])
    PROVE  OrderInv'
<1>1. \A s \in Seqs(db') : s \in Nat /\ s \in Seqs(db) /\ db'.events[s] = db.events[s]
  BY DrainedStore, QueueFacts DEF Keeps
<1>2. ASSUME NEW e \in Drainers \ {d}
      PROVE  Ordered(batch[e], unsent[e], halves[e], db')
  <2>1. Ordered(batch[e], unsent[e], halves[e], db)
    BY DEF OrderInv
  <2>2. DOMAIN batch[e] \subseteq 1 .. db.next /\ db.next \in Nat
    BY DrainerFacts DEF BatchOK
  <2> QED  BY <1>1, <2>1, <2>2, OrderedFollows
<1> QED  BY <1>2 DEF OrderInv

(* A drainer without a batch has nothing out of order. *)
LEMMA OrderedEmpty == \A store : Ordered(<< >>, {}, {}, store)
<1> QED  BY EmptyBatchOK DEF Ordered

(* A drainer changes nothing of another's. *)
LEMMA OnlyItself ==
    ASSUME IInv, NEW d \in Drainers, Drain(d)
    PROVE  \A e \in Drainers \ {d} :
               /\ pc'[e] = pc[e] /\ batch'[e] = batch[e]
               /\ unsent'[e] = unsent[e] /\ halves'[e] = halves[e]
<1>1. /\ pc \in [Drainers -> Places]
      /\ DOMAIN batch = Drainers /\ DOMAIN unsent = Drainers /\ DOMAIN halves = Drainers
  BY DrainerFacts
<1>2. CASE Release(d)
  BY <1>1, <1>2 DEF Release, Goto
<1>3. CASE NextBatch(d)
  BY <1>1, <1>3 DEF NextBatch, Goto
<1>4. CASE AcquireLock(d) \/ TakeWatermark(d) \/ PostAccepted(d) \/ PostLost(d) \/ GiveUp(d)
  BY <1>1, <1>2, <1>4 DEF AcquireLock, TakeWatermark, PostAccepted, PostLost, GiveUp, Goto
<1>5. CASE FetchBatch(d)
  BY <1>1, <1>2, <1>5 DEF FetchBatch, Goto
<1>6. CASE PostRejected(d)
  BY <1>1, <1>6 DEF PostRejected, Goto
<1> QED  BY <1>3, <1>4, <1>5, <1>6 DEF Drain, Acknowledge, Quarantine

(* A drainer that holds nothing any more. *)
LEMMA OrderIdle ==
    ASSUME IInv, IInv', OrderInv, NEW d \in Drainers, Drain(d), pc'[d] # "quarantine",
           batch'[d] = << >>, unsent'[d] = {}, halves'[d] = {}
    PROVE  OrderInv'
<1>1. Ordered(batch'[d], unsent'[d], halves'[d], db')
  BY OrderedEmpty, Zenon
<1> QED  BY <1>1, OnlyItself, OrderOf

(* A batch leaves out no older event. *)
LEMMA OrderFetch ==
    ASSUME IInv, IInv', OrderInv, NEW d \in Drainers, FetchBatch(d), ~Release(d)
    PROVE  OrderInv'
<1>1. PICK S : S = NextDrainBatch(db', watermark[d])
  OBVIOUS
<1>2. PICK b : b = [s \in S |-> db'.events[s].id]
  OBVIOUS
<1>3. /\ pc[d] = "fetch" /\ batch' = [batch EXCEPT ![d] = b]
      /\ Goto(d, "send") /\ halves' = halves
  BY <1>1, <1>2 DEF FetchBatch
<1>4. pc'[d] = "send" /\ batch'[d] = b /\ halves'[d] = {}
  <2>1. halves[d] = {}
    BY <1>3, DrainerFacts, EmptyBatchOK DEF BatchOK
  <2> QED  BY <1>3, <2>1, DrainerFacts DEF Goto
<1>5. PICK Q : Q = {s \in Seqs(db') : s <= watermark[d]}
  OBVIOUS
<1>6. Seqs(db') \subseteq Nat /\ IsFiniteSet(Q) /\ Q \in SUBSET Nat
  BY <1>5, FiniteSeqs, FS_Subset DEF IInv, TypeOK
<1>7. S = Least(BatchSize, Q) /\ S \subseteq Q /\ Before(S, Q \ S)
  BY <1>1, <1>5, <1>6, LeastBefore, QueueAssumption DEF NextDrainBatch, Least
<1>8. ASSUME NEW s \in S, NEW t \in Seqs(db'), t < s
      PROVE  t \in S
  <2>1. s \in Nat /\ t \in Nat /\ watermark[d] \in Nat /\ s <= watermark[d]
    BY <1>5, <1>6, <1>7, DrainerFacts
  <2>2. t \in Q
    BY <1>5, <1>8, <2>1
  <2> QED  BY <1>7, <1>8, <2>1, <2>2 DEF Before
<1>9. Ordered(batch'[d], unsent'[d], halves'[d], db')
  BY <1>2, <1>4, <1>8 DEF Ordered
<1> QED  BY <1>4, <1>9, OnlyItself, OrderOf DEF Drain

(* An accepted request was the first of what was unsent. *)
LEMMA OrderAccepted ==
    ASSUME IInv, IInv', OrderInv, NEW d \in Drainers, PostAccepted(d)
    PROVE  OrderInv'
<1>1. PICK R : R = Request(d)
  OBVIOUS
<1>2. pc[d] = "send" /\ unsent[d] # {} /\ UNCHANGED <<db, pc, batch>>
  BY DEF PostAccepted, Posting, storeVars
<1>3. unsent'[d] = unsent[d] \ R /\ halves'[d] = halves[d] \ {R}
  BY <1>1, DrainerFacts DEF PostAccepted
<1>4. Ordered(batch[d], unsent[d], halves[d], db)
  BY DEF OrderInv
<1>5. \A s \in UNION (halves[d] \ {R}) : \A t \in unsent[d] \ R :
          t < s => t \in UNION (halves[d] \ {R})
  BY <1>4 DEF Ordered
<1>6. Ordered(batch'[d], unsent'[d], halves'[d], db')
  BY <1>2, <1>3, <1>4, <1>5 DEF Ordered
<1> QED  BY <1>2, <1>6, OnlyItself, OrderOf DEF Drain

(* A request that is rejected and has no more than one event has one, and   *)
(* that is the one to blame.                                               *)
LEMMA RejectedOne ==
    ASSUME IInv, NEW d \in Drainers, unsent[d] # {}, Rejected(d, Request(d)),
           ~(Cardinality(Request(d)) > 1)
    PROVE  \E s \in DOMAIN batch[d] : Request(d) = {s} /\ Blamed(batch[d][s])
<1>1. PICK R : R = Request(d)
  OBVIOUS
<1>2. R # {} /\ R \subseteq DOMAIN batch[d] /\ IsFiniteSet(R)
  BY <1>1, RequestSome, BatchLengths, FS_Subset
<1>3. PICK s \in R : TRUE
  BY <1>2
<1>4. R = {s}
  <2>1. Cardinality(R) \in Nat /\ Cardinality(R) <= 1
    BY <1>1, <1>2, FS_CardinalityType
  <2>2. Cardinality(R \ {s}) = Cardinality(R) - 1 /\ IsFiniteSet(R \ {s})
    BY <1>2, <1>3, FS_RemoveElement
  <2>3. Cardinality(R \ {s}) = 0
    BY <2>1, <2>2, FS_CardinalityType
  <2>4. R \ {s} = {}
    BY <2>2, <2>3, FS_EmptySet
  <2> QED  BY <1>3, <2>4
<1>5. Bytes(d, R) = Size[batch[d][s]] /\ IDsOf(d, R) = {batch[d][s]}
  BY <1>2, <1>4, BytesOfOne DEF IDsOf
<1>6. Blamed(batch[d][s])
  BY <1>1, <1>5 DEF Rejected, Blamed
<1> QED  BY <1>1, <1>2, <1>3, <1>4, <1>6

(* A rejected request is bisected in order, or blames one event. *)
LEMMA OrderRejected ==
    ASSUME IInv, IInv', OrderInv, NEW d \in Drainers, PostRejected(d)
    PROVE  OrderInv'
<1>1. PICK R : R = Request(d)
  OBVIOUS
<1>2. pc[d] = "send" /\ unsent[d] # {} /\ UNCHANGED <<db, batch, unsent>> /\ Rejected(d, R)
  BY <1>1 DEF PostRejected, Posting, storeVars
<1>3. Ordered(batch[d], unsent[d], halves[d], db)
  BY DEF OrderInv
<1>4. /\ R \subseteq unsent[d]
      /\ halves[d] # {} => R \in halves[d]
      /\ \A s \in R : \A t \in unsent[d] : t < s => t \in R
      /\ \A G \in halves[d] : G # R => Before(R, G)
  BY <1>1, <1>2, RequestSome, RequestFirst
<1>5. CASE Cardinality(R) > 1
  <2>1. PICK left : left = Least(Cardinality(R) \div 2, R)
    OBVIOUS
  <2>2. /\ halves'[d] = (halves[d] \ {R}) \cup {left, R \ left} /\ pc' = pc
    BY <1>1, <1>5, <2>1, DrainerFacts DEF PostRejected
  <2>3. left \subseteq R /\ Before(left, R \ left)
    <3>1. IsFiniteSet(R) /\ R \in SUBSET Nat /\ Cardinality(R) \in Nat
      BY <1>4, BatchLengths, FS_Subset, FS_CardinalityType
    <3>2. Cardinality(R) \div 2 \in Nat
      BY <3>1
    <3> QED  BY <2>1, <3>1, <3>2, LeastBefore DEF Least
  <2>4. UNION halves'[d] = R \cup UNION halves[d]
    BY <2>2, <2>3
  <2>5. \A s \in UNION halves'[d] : \A t \in unsent[d] : t < s => t \in UNION halves'[d]
    BY <1>3, <1>4, <2>4 DEF Ordered
  <2>6. \A G \in halves[d] \ {R} : Before(left, G) /\ Before(R \ left, G)
    BY <1>4, <2>3 DEF Before
  <2>7. \A G, H \in halves'[d] : G # H => Before(G, H) \/ Before(H, G)
    <3>1. \A G, H \in halves[d] : G # H => Before(G, H) \/ Before(H, G)
      BY <1>3 DEF Ordered
    <3> HIDE <1>3, <1>4, <2>1
    <3> QED  BY <2>2, <2>3, <2>6, <3>1
  <2>8. Ordered(batch'[d], unsent'[d], halves'[d], db')
    BY <1>2, <1>3, <2>5, <2>7 DEF Ordered
  <2> QED  BY <1>2, <2>2, <2>8, OnlyItself, OrderOf DEF Drain
<1>6. CASE ~(Cardinality(R) > 1)
  <2>1. halves'[d] = {R}
    BY <1>1, <1>6, DrainerFacts DEF PostRejected
  <2>2. Ordered(batch'[d], unsent'[d], halves'[d], db')
    BY <1>2, <1>3, <1>4, <2>1 DEF Ordered
  <2>3. \E s \in DOMAIN batch'[d] : halves'[d] = {{s}} /\ Blamed(batch'[d][s])
    BY <1>1, <1>2, <1>6, <2>1, RejectedOne
  <2> QED  BY <2>2, <2>3, OnlyItself, OrderOf DEF Drain
<1> QED  BY <1>5, <1>6

(* Each of a drainer's steps keeps every drainer's order. *)
LEMMA OrderDrain ==
    ASSUME IInv, IInv', OrderInv, NEW d \in Drainers, Drain(d)
    PROVE  OrderInv'
<1>1. CASE Release(d)
  <2>1. pc'[d] = "idle" /\ batch'[d] = << >> /\ unsent'[d] = {} /\ halves'[d] = {}
    BY <1>1, DrainerFacts DEF Release, Goto
  <2> QED  BY <2>1, OrderIdle
<1>2. CASE NextBatch(d)
  <2>1. pc'[d] = "fetch" /\ batch'[d] = << >> /\ unsent'[d] = {} /\ halves'[d] = {}
    BY <1>2, DrainerFacts DEF NextBatch, Goto
  <2> QED  BY <2>1, OrderIdle
<1>3. CASE AcquireLock(d) \/ (TakeWatermark(d) /\ ~Release(d))
  <2>1. /\ pc[d] \in {"idle", "locked"} /\ pc'[d] \in {"locked", "fetch"}
        /\ UNCHANGED <<batch, unsent, halves>>
    BY <1>3, DrainerFacts DEF AcquireLock, TakeWatermark, Goto
  <2>2. batch[d] = << >> /\ unsent[d] = {} /\ halves[d] = {}
    BY <2>1, DrainerFacts, EmptyBatchOK DEF BatchOK
  <2> QED  BY <2>1, <2>2, OrderIdle
<1>4. CASE FetchBatch(d) /\ ~Release(d)
  BY <1>4, OrderFetch
<1>5. CASE PostAccepted(d)
  BY <1>5, OrderAccepted
<1>6. CASE PostRejected(d)
  BY <1>6, OrderRejected
<1> QED
  BY <1>1, <1>2, <1>3, <1>4, <1>5, <1>6
  DEF Drain, PostLost, GiveUp, Acknowledge, Quarantine

-----------------------------------------------------------------------------
(* All of it together *)
Promises == BytesInv /\ WorkInv /\ OrderInv /\ QuarantineJustified

(* A drainer quarantines only what the control plane rejects alone. *)
LEMMA JustifiedDrain ==
    ASSUME IInv, OrderInv, QuarantineJustified, NEW d \in Drainers, Drain(d)
    PROVE  QuarantineJustified'
<1>1. CASE ~Quarantine(d)
  BY <1>1, DrainedStore DEF QuarantineJustified
<1>2. CASE Quarantine(d)
  <2>1. pc[d] = "quarantine" /\ unsent[d] # {}
    <3>1. pc[d] = "quarantine"
      BY <1>2 DEF Quarantine
    <3> QED  BY <3>1, DrainerFacts
  <2>2. PICK s \in DOMAIN batch[d] : halves[d] = {{s}} /\ Blamed(batch[d][s])
    BY <2>1 DEF OrderInv
  <2>3. Request(d) = {s}
    BY <2>1, <2>2, RequestSome
  <2>4. IDsOf(d, Request(d)) = {batch[d][s]}
    BY <2>3 DEF IDsOf
  <2>5. db'.quarantine = db.quarantine \cup {batch[d][s]}
    BY <1>2, <2>4, QuarantinedStore
  <2> QED  BY <2>2, <2>5 DEF QuarantineJustified, Blamed
<1> QED  BY <1>1, <1>2

(* Nobody else quarantines. *)
LEMMA JustifiedOther ==
    ASSUME IInv, WorkInv, QuarantineJustified, Tick \/ Open \/ AppendEvents
    PROVE  QuarantineJustified'
<1>1. CASE CommitAppend
  <2>1. db'.quarantine = db.quarantine
    BY <1>1, CommittedStore DEF CommitAppend, WorkInv
  <2> QED  BY <2>1 DEF QuarantineJustified
<1>2. CASE Open
  <2>1. db'.quarantine = db.quarantine
    BY <1>2, QueueFacts, BackfillEvents DEF Open
  <2> QED  BY <2>1 DEF QuarantineJustified
<1>3. CASE ~CommitAppend /\ ~Open
  <2>1. db' = db
    BY <1>3 DEF Tick, AppendEvents, BeginAppend, InsertNext, AbortAppend, EndAppend, storeVars
  <2> QED  BY <2>1 DEF QuarantineJustified
<1> QED  BY <1>1, <1>2, <1>3

(* The promises hold before anything is appended. *)
LEMMA PromisesInit == ASSUME Init PROVE Promises
<1>1. WorkInv
  BY DEF Init, WorkInv
<1>2. OrderInv
  <2>1. ASSUME NEW d \in Drainers
        PROVE  /\ batch[d] = << >> /\ unsent[d] = {} /\ halves[d] = {}
               /\ pc[d] # "quarantine"
    BY DEF Init
  <2>2. ASSUME NEW d \in Drainers
        PROVE  Ordered(batch[d], unsent[d], halves[d], db)
    BY <2>1, OrderedEmpty, Zenon
  <2> QED  BY <2>1, <2>2 DEF OrderInv
<1>3. QuarantineJustified
  <2>1. << >> \in Seq(Event) /\ Len(<< >>) <= Len(Legacy)
    BY StoreAssumption
  <2>2. Legacy \in Seq(Event) /\ Len(Legacy) <= Len(Legacy)
    BY StoreAssumption
  <2>3. StoreOf(<< >>).quarantine = {} /\ StoreOf(Legacy).quarantine = {}
    BY <2>1, <2>2, StoreOfSound
  <2>4. db.quarantine = {}
    BY <2>3 DEF Init
  <2> QED  BY <2>4 DEF QuarantineJustified
<1> QED  BY <1>1, <1>2, <1>3, BytesInit DEF Promises

(* Each step keeps them. *)
LEMMA PromisesStep ==
    ASSUME IInv, IInv', Promises, [Next]_vars
    PROVE  Promises'
<1> USE DEF Promises
<1>1. CASE Tick
  <2>1. BytesInv'
    BY <1>1 DEF Tick, storeVars, BytesInv, BytesConsistent, CapacityRespected
  <2> QED  BY <1>1, <2>1, WorkTick, OrderOther, JustifiedOther
<1>2. CASE Open
  <2>1. BytesInv'
    <3>1. Sound(db) /\ ~db.indexed /\ db' = Backfill(db) /\ work' = work
      BY <1>2, QueueFacts DEF Open
    <3>2. BytesMatchEvents(db) /\ BytesMatchEvents(work)
      BY DEF BytesInv, BytesConsistent
    <3>3. BytesMatchEvents(db') /\ db'.bytes = db.bytes /\ db'.next = db.next
      BY <3>1, <3>2, BackfillBytes, BackfillEvents
    <3> QED  BY <3>1, <3>2, <3>3 DEF BytesInv, BytesConsistent, CapacityRespected
  <2> QED  BY <1>2, <2>1, WorkOpen, OrderOther, JustifiedOther
<1>3. CASE AppendEvents
  <2>1. WorkInv'
    <3>1. CASE CommitAppend \/ AbortAppend
      BY <3>1 DEF CommitAppend, AbortAppend, EndAppend, WorkInv
    <3> QED  BY <1>3, <3>1, WorkBegin, WorkInsert DEF AppendEvents
  <2> QED  BY <1>3, <2>1, BytesAppend, OrderOther, JustifiedOther
<1>4. CASE \E d \in Drainers : Drain(d)
  BY <1>4, BytesDrain, WorkDrain, OrderDrain, JustifiedDrain
<1>5. CASE UNCHANGED vars
  <2>1. BytesInv' /\ QuarantineJustified'
    BY <1>5 DEF vars, storeVars, BytesInv, BytesConsistent, CapacityRespected, QuarantineJustified
  <2>2. WorkInv'
    BY <1>5 DEF vars, storeVars, WorkInv, Kept, Dropped, Replaced, Seqs
  <2>3. OrderInv'
    BY <1>5 DEF vars, storeVars, drainVars, OrderInv
  <2> QED  BY <2>1, <2>2, <2>3
<1> QED  BY <1>1, <1>2, <1>3, <1>4, <1>5 DEF Next

(* Promises is invariant, beside IInv. *)
THEOREM PromisesKept == Spec => [](IInv /\ Promises)
<1>1. Init => IInv /\ Promises
  BY InitInv, PromisesInit
<1>2. IInv /\ IInv' /\ Promises /\ [Next]_vars => Promises'
  BY PromisesStep
<1> QED  BY <1>1, <1>2, Invariant, PTL DEF Spec

(* The byte count in the meta bucket is that of the stored events after     *)
(* every transaction: putUint64Meta never drifts from what is queued.       *)
THEOREM BytesCounted == Spec => []BytesConsistent
<1>1. Promises => BytesConsistent
  BY DEF Promises, BytesInv
<1> QED  BY <1>1, PromisesKept, PTL

(* evictOverCapacity leaves no more than queueMaxBytes in the committed     *)
(* store, whatever an append inserted.                                     *)
THEOREM CapacityKept == Spec => []CapacityRespected
<1>1. Promises => CapacityRespected
  BY DEF Promises, BytesInv
<1> QED  BY <1>1, PromisesKept, PTL

(* sendEventBatch bisects until the event it blames is alone, so an event   *)
(* in quarantine is one the control plane rejects by itself.               *)
THEOREM QuarantineOfTheGuilty == Spec => []QuarantineJustified
<1>1. Promises => QuarantineJustified
  BY DEF Promises
<1> QED  BY <1>1, PromisesKept, PTL

-----------------------------------------------------------------------------
(***************************************************************************)
(* That no event leaves the queue without a reason, and that the queue      *)
(* implements Outbox, for any number of drainers, IDs, batches and any       *)
(* limits.  Both look at one step of the queue in the invariant of          *)
(* PromisesKept.                                                           *)
(***************************************************************************)

(* A step of an append's, of the clock or of open, in terms of the queue.   *)
LEMMA OtherSteps ==
    ASSUME IInv, Tick \/ Open \/ AppendEvents
    PROVE  /\ UNCHANGED <<drainVars, received>>
           /\ \/ CommitAppend
              \/ /\ db'.events = db.events /\ db'.next = db.next
                 /\ db'.quarantine = db.quarantine
<1>1. UNCHANGED <<drainVars, received>>
  BY DEF Tick, Open, AppendEvents, BeginAppend, InsertNext, CommitAppend, AbortAppend, EndAppend
<1>2. CASE Open
  BY <1>1, <1>2, QueueFacts, BackfillEvents DEF Open
<1>3. CASE ~CommitAppend /\ ~Open
  <2>1. db' = db
    BY <1>3 DEF Tick, AppendEvents, BeginAppend, InsertNext, AbortAppend, EndAppend, storeVars
  <2> QED  BY <1>1, <2>1
<1> QED  BY <1>1, <1>2, <1>3

(* What an append evicts is older than all that it leaves. *)
LEMMA CommitEvicts ==
    ASSUME IInv, Promises, CommitAppend, NEW s \in Seqs(work), s \notin Seqs(db')
    PROVE  /\ BytesOf(work, Younger(work, s)) > MaxBytes
           /\ Seqs(db') \subseteq Younger(work, s)
<1>1. Seqs(db') = Seqs(work) \ OverCapacity(work)
  BY CommittedStore
<1>2. s \in OverCapacity(work) /\ StoreType(work) /\ BytesMatchEvents(work)
  BY <1>1 DEF IInv, TypeOK, Promises, BytesInv, BytesConsistent
<1> QED  BY <1>1, <1>2, EvictedOldest

-----------------------------------------------------------------------------
(* Why events leave *)

(* What a commit takes had expired, was replaced, or is over capacity. *)
LEMMA LeavesCommit ==
    ASSUME IInv, Promises, CommitAppend
    PROVE  LeavesForAReason
<1> SUFFICES ASSUME NEW s \in Seqs(db), s \notin Seqs(db')
             PROVE  WasExpired(s) \/ WasSuperseded(s) \/ WasEvicted(s)
  BY DEF LeavesForAReason
<1>1. CASE Kept(s)
  <2>1. s \in Seqs(work)
    BY <1>1 DEF Kept
  <2> QED  BY <2>1, CommitEvicts DEF WasEvicted, Younger
<1>2. CASE Dropped(s)
  BY <1>2 DEF Dropped, WasExpired
<1>3. CASE Replaced(s)
  <2>1. PICK t \in Seqs(work) : t > db.next /\ work.events[t].id = db.events[s].id
    BY <1>3 DEF Replaced
  <2>2. t > s
    BY <2>1, QueueFacts
  <2> QED  BY <1>3, <2>1, <2>2 DEF Replaced, WasSuperseded
<1> QED  BY <1>1, <1>2, <1>3 DEF Promises, WorkInv, CommitAppend

(* What a drainer takes had expired, was received, or is quarantined. *)
LEMMA LeavesDrain ==
    ASSUME IInv, Promises, NEW d \in Drainers, Drain(d)
    PROVE  LeavesForAReason
<1>1. Ordered(batch[d], unsent[d], halves[d], db)
  BY DEF Promises, OrderInv
<1>2. \A s \in DOMAIN batch[d] \cap Seqs(db) : db.events[s].id = batch[d][s]
  BY <1>1 DEF Ordered
<1>3. CASE db' = db
  BY <1>3 DEF LeavesForAReason
<1>4. CASE db' = PruneExpired(db, now)
  <2>1. \A s \in Seqs(db) \ Seqs(db') : WasExpired(s)
    BY <1>4, DrainerFacts, PruneExpiredSound DEF WasExpired
  <2> QED  BY <2>1 DEF LeavesForAReason
<1>5. CASE Acknowledge(d)
  <2>1. unsent[d] = {} /\ Seqs(db') = Seqs(db) \ DOMAIN batch[d]
    BY <1>5, AcknowledgedStore DEF Acknowledge
  <2>2. \A s \in Seqs(db) \ Seqs(db') : WasAccepted(s) \/ WasFiltered(s)
    BY <1>2, <2>1, DrainerFacts DEF WasAccepted, WasFiltered
  <2> QED  BY <2>2 DEF LeavesForAReason
<1>6. CASE Quarantine(d)
  <2>1. PICK ids : ids = IDsOf(d, Request(d))
    OBVIOUS
  <2>2. /\ db'.quarantine = db.quarantine \cup ids
        /\ Seqs(db') = Seqs(db) \ {s \in DOMAIN batch[d] : batch[d][s] \in ids}
    BY <1>6, <2>1, QuarantinedStore
  <2>3. \A s \in Seqs(db) \ Seqs(db') : WasQuarantined(s)
    BY <1>2, <2>2 DEF WasQuarantined
  <2> QED  BY <2>3 DEF LeavesForAReason
<1> QED
  BY <1>3, <1>4, <1>5, <1>6
  DEF Drain, AcquireLock, TakeWatermark, FetchBatch, PostAccepted, PostLost,
      PostRejected, GiveUp, storeVars

(* No step takes an event for another reason. *)
LEMMA LeavesStep ==
    ASSUME IInv, Promises, [Next]_vars
    PROVE  LeavesForAReason
<1>1. CASE Tick \/ Open \/ AppendEvents
  <2>1. CASE CommitAppend
    BY <2>1, LeavesCommit
  <2>2. CASE db'.events = db.events
    BY <2>2 DEF LeavesForAReason, Seqs
  <2> QED  BY <1>1, <2>1, <2>2, OtherSteps
<1>2. CASE \E d \in Drainers : Drain(d)
  BY <1>2, LeavesDrain
<1>3. CASE UNCHANGED vars
  BY <1>3 DEF vars, storeVars, LeavesForAReason
<1> QED  BY <1>1, <1>2, <1>3 DEF Next

(* No event leaves queue-v3.db but for one of the reasons that the code has *)
(* for it: sent, filtered out, quarantined, expired, replaced or evicted.   *)
THEOREM NoEventIsLost == Spec => EventsLeaveForAReason
<1>1. IInv /\ Promises /\ [Next]_vars => LeavesForAReason
  BY LeavesStep
<1> QED  BY <1>1, PromisesKept, PTL DEF Spec, EventsLeaveForAReason

-----------------------------------------------------------------------------
(* The queue is an Outbox *)
LEMMA OutboxInit == ASSUME Init PROVE Out!Init
<1>1. Legacy \in Seq(Event) /\ Len(Legacy) \in Nat
  BY StoreAssumption
<1>2. << >> \in Seq(Event) /\ Len(<< >>) = 0 /\ Len(<< >>) <= Len(Legacy)
  BY <1>1
<1>3. /\ Seqs(StoreOf(Legacy)) = 1 .. Len(Legacy) /\ StoreOf(Legacy).next = Len(Legacy)
      /\ StoreOf(Legacy).quarantine = {}
  BY <1>1, StoreOfSound
<1>4. /\ Seqs(StoreOf(<< >>)) = 1 .. Len(<< >>) /\ StoreOf(<< >>).next = Len(<< >>)
      /\ StoreOf(<< >>).quarantine = {}
  BY <1>2, StoreOfSound
<1>5. DOMAIN db.events = 1 .. db.next /\ db.quarantine = {}
  BY <1>3, <1>4 DEF Init, Seqs
<1>6. Rejects = {}
  BY DEF Init, Rejects, InQuarantine
<1> QED  BY <1>5, <1>6 DEF Out!Init, Init

(* Nobody else is in Drain while one drainer takes a step of it, so what is *)
(* rejected is what that drainer is about to quarantine.                   *)
LEMMA RejectsOf ==
    ASSUME IInv, IInv', NEW d \in Drainers, Drain(d)
    PROVE  /\ Rejects = IF pc[d] = "quarantine"
                        THEN {<<s, batch[d][s]>> : s \in UNION halves[d]} ELSE {}
           /\ Rejects' = IF pc'[d] = "quarantine"
                         THEN {<<s, batch'[d][s]>> : s \in UNION halves'[d]} ELSE {}
<1>1. \A e \in Drainers \ {d} : pc[e] = "idle"
  <2>1. CASE pc[d] = "idle"
    <3>1. AcquireLock(d)
      BY <2>1 DEF Drain, TakeWatermark, FetchBatch, PostAccepted, PostLost,
                  PostRejected, Acknowledge, Quarantine, GiveUp, Posting
    <3>2. drainLock = {}
      BY <3>1 DEF AcquireLock
    <3> QED  BY <3>2 DEF IInv, LockInv
  <2>2. CASE pc[d] # "idle"
    BY <2>2 DEF IInv, LockInv
  <2> QED  BY <2>1, <2>2
<1>2. \A e \in Drainers \ {d} : pc'[e] = "idle"
  BY <1>1, OnlyItself
<1>3. /\ InQuarantine = IF pc[d] = "quarantine" THEN {d} ELSE {}
      /\ InQuarantine' = IF pc'[d] = "quarantine" THEN {d} ELSE {}
  BY <1>1, <1>2 DEF InQuarantine
<1> QED  BY <1>3 DEF Rejects

(* The steps that change nothing of the outbox. *)
LEMMA OutboxSame ==
    ASSUME db'.events = db.events, db'.next = db.next, db'.quarantine = db.quarantine,
           received' = received, Rejects' = Rejects
    PROVE  UNCHANGED Out!outboxVars
<1> QED  BY DEF Out!outboxVars

(* A commit accepts what the append inserted. *)
LEMMA OutboxCommit ==
    ASSUME IInv, IInv', Promises, CommitAppend
    PROVE  Out!Accept
<1>1. /\ writing /\ UNCHANGED <<drainVars, received>>
      /\ work.quarantine = db.quarantine
      /\ \A s \in Seqs(work) : s > db.next \/ (s \in Seqs(db) /\ Kept(s))
      /\ \A s \in Seqs(db) : Kept(s) \/ Dropped(s) \/ Replaced(s)
  BY DEF CommitAppend, EndAppend, Promises, WorkInv
<1>2. /\ Keeps(db', work) /\ db'.next = work.next /\ db'.quarantine = work.quarantine
  BY CommittedStore
<1>3. Rejects' = Rejects
  BY <1>1 DEF drainVars, Rejects, InQuarantine
<1>4. db.next \in Nat /\ work.next \in Nat /\ db.next <= work.next
  BY <1>1, QueueFacts
<1>5. \A s \in Seqs(db') \ Seqs(db) : s \in db.next + 1 .. db'.next
  <2>1. \A s \in Seqs(db') : s \in Seqs(work) /\ s \in Nat /\ s <= work.next
    BY <1>2, QueueFacts DEF Keeps
  <2> QED  BY <1>1, <1>2, <1>4, <2>1
<1>6. \A s \in Seqs(db) \cap Seqs(db') : db'.events[s] = db.events[s]
  <2>1. \A s \in Seqs(db) : ~(s > db.next)
    BY QueueFacts
  <2> QED  BY <1>1, <1>2, <2>1 DEF Keeps, Kept
<1>7. ASSUME NEW s \in Seqs(db), s \notin Seqs(db')
      PROVE  Out!IsOldest(s) \/ (db.events[s].id \in Snapshots /\ db'.next > db.next)
  <2>1. CASE Kept(s)
    <3>1. s \in Seqs(work) /\ db.events[s] = work.events[s]
      BY <2>1 DEF Kept
    <3>2. Seqs(db') \subseteq Younger(work, s)
      BY <1>7, <3>1, CommitEvicts
    <3>3. ASSUME NEW t \in Seqs(db')
          PROVE  \/ db.events[s].created < db'.events[t].created
                 \/ db.events[s].created = db'.events[t].created /\ s < t
      <4>1. /\ t \in Seqs(work) /\ db'.events[t] = work.events[t] /\ t # s
            /\ ~KeyBefore(TimeKey(work, t), TimeKey(work, s))
        BY <1>2, <1>7, <3>2, <3>3 DEF Keeps, Younger
      <4>2. /\ work.events[s].created \in Nat /\ work.events[t].created \in Nat
            /\ s \in Nat /\ t \in Nat
            /\ ~(\/ work.events[t].created < work.events[s].created
                 \/ work.events[t].created = work.events[s].created /\ t < s)
        BY <3>1, <4>1, KeyOrder DEF IInv, TypeOK
      <4> QED  BY <3>1, <4>1, <4>2
    <3> QED  BY <3>3 DEF Out!IsOldest, Seqs
  <2>2. CASE Dropped(s)
    BY <1>2, <2>2 DEF Dropped, Keeps, Out!IsOldest, Seqs
  <2>3. CASE Replaced(s)
    <3>1. PICK t \in Seqs(work) : t > db.next
      BY <2>3 DEF Replaced
    <3>2. db'.next > db.next
      BY <1>2, <1>4, <3>1, QueueFacts
    <3> QED  BY <2>3, <3>2 DEF Replaced
  <2> QED  BY <1>1, <2>1, <2>2, <2>3
<1> QED  BY <1>1, <1>2, <1>3, <1>4, <1>5, <1>6, <1>7 DEF Out!Accept, Out!KeepsTheRest, Out!Gone, Seqs

(* Retention lets the oldest go. *)
LEMMA OutboxPrune ==
    ASSUME IInv, db' = PruneExpired(db, now), received' = received, Rejects' = Rejects
    PROVE  Out!Accept
<1>1. /\ Seqs(db') = {s \in Seqs(db) : ~(db.events[s].created < Cutoff(now))}
      /\ \A s \in Seqs(db') : db'.events[s] = db.events[s]
      /\ db'.next = db.next /\ db'.quarantine = db.quarantine
  BY DrainerFacts, PruneExpiredSound, QueueFacts
<1>2. ASSUME NEW s \in Seqs(db), s \notin Seqs(db'), NEW t \in Seqs(db')
      PROVE  db.events[s].created < db'.events[t].created
  <2>1. /\ db.events[s].created \in Nat /\ db.events[t].created \in Nat
        /\ Cutoff(now) \in Int
    BY <1>1, QueueFacts, StoreAssumption DEF Cutoff
  <2> QED  BY <1>1, <1>2, <2>1
<1>3. db.next \in Nat
  BY QueueFacts
<1> QED
  BY <1>1, <1>2, <1>3
  DEF Out!Accept, Out!KeepsTheRest, Out!Gone, Out!IsOldest, Seqs

(* Every event queued before one of the request was dealt with, or is part  *)
(* of the request.                                                         *)
LEMMA RequestTurn ==
    ASSUME IInv, Promises, NEW d \in Drainers, unsent[d] # {}, NEW s \in Request(d),
           NEW t \in Seqs(db), t < s
    PROVE  /\ t \in DOMAIN batch[d] /\ db.events[t].id = batch[d][t]
           /\ Out!Done(t) \/ t \in Request(d)
<1>1. s \in DOMAIN batch[d] /\ Ordered(batch[d], unsent[d], halves[d], db)
  BY RequestSome, BatchLengths DEF Promises, OrderInv
<1>2. t \in DOMAIN batch[d] /\ db.events[t].id = batch[d][t]
  BY <1>1 DEF Ordered
<1>3. t \in unsent[d] => t \in Request(d)
  BY RequestFirst DEF Promises
<1> QED  BY <1>2, <1>3, DrainerFacts DEF Out!Done

(* A request arrives. *)
LEMMA OutboxSend ==
    ASSUME IInv, IInv', Promises, NEW d \in Drainers, PostAccepted(d) \/ PostLost(d)
    PROVE  Out!Send
<1>1. /\ pc[d] = "send" /\ unsent[d] # {} /\ db' = db
      /\ received' = received \cup {<<s, batch[d][s]>> : s \in Request(d)}
      /\ pc'[d] # "quarantine"
  BY DrainerFacts DEF PostAccepted, PostLost, Posting, Receive, Release, Goto, storeVars
<1>2. Rejects = {} /\ Rejects' = {}
  BY <1>1, RejectsOf DEF Drain
<1>3. ASSUME NEW e \in received' \ received
      PROVE  /\ e[1] <= db.next
             /\ \A t \in Seqs(db) :
                    t < e[1] => Out!Done(t) \/ <<t, db.events[t].id>> \in received'
  <2>1. PICK s \in Request(d) : e = <<s, batch[d][s]>>
    BY <1>1, <1>3
  <2>2. s \in 1 .. db.next /\ db.next \in Nat /\ e[1] = s
    BY <1>1, <2>1, RequestSome, DrainerFacts DEF BatchOK
  <2>3. ASSUME NEW t \in Seqs(db), t < s, t \in Request(d)
        PROVE  <<t, db.events[t].id>> \in received'
    BY <1>1, <2>3, RequestTurn
  <2> QED  BY <1>1, <2>2, <2>3, RequestTurn
<1> QED  BY <1>1, <1>2, <1>3 DEF Out!Send, Seqs

(* A request is rejected: it is split, which is not seen, or has one event. *)
LEMMA OutboxReject ==
    ASSUME IInv, IInv', Promises, Promises', NEW d \in Drainers, PostRejected(d)
    PROVE  Out!Next \/ UNCHANGED Out!outboxVars
<1>1. /\ pc[d] = "send" /\ unsent[d] # {}
      /\ UNCHANGED <<db, batch, received>> /\ Rejected(d, Request(d))
  BY DEF PostRejected, Posting, storeVars
<1>2. Rejects = {}
  BY <1>1, RejectsOf DEF Drain
<1>3. CASE Cardinality(Request(d)) > 1
  <2>1. pc' = pc
    BY <1>3 DEF PostRejected
  <2>2. Rejects' = {}
    BY <1>1, <2>1, RejectsOf DEF Drain
  <2> QED  BY <1>1, <1>2, <2>2, OutboxSame
<1>4. CASE ~(Cardinality(Request(d)) > 1)
  <2>1. PICK s \in DOMAIN batch[d] : Request(d) = {s}
    BY <1>1, <1>4, RejectedOne
  <2>2. pc'[d] = "quarantine" /\ halves'[d] = {{s}}
    BY <1>4, <2>1, DrainerFacts DEF PostRejected, Goto
  <2>3. PICK e : e = <<s, batch[d][s]>>
    OBVIOUS
  <2>4. Rejects' = {e}
    <3>1. UNION halves'[d] = {s}
      BY <2>2
    <3>2. {<<x, batch'[d][x]>> : x \in {s}} = {e}
      BY <1>1, <2>3
    <3> QED  BY <2>2, <3>1, <3>2, RejectsOf DEF Drain
  <2>5. /\ s \in 1 .. db.next /\ db.next \in Nat /\ e[1] = s /\ e[2] = batch[d][s]
        /\ e = <<e[1], e[2]>>
    BY <2>3, DrainerFacts DEF BatchOK
  <2>6. s \in Seqs(db) => db.events[s].id = batch[d][s]
    BY DEF Promises, OrderInv, Ordered
  <2>7. ASSUME NEW t \in Seqs(db), t < s
        PROVE  Out!Done(t)
    <3>1. t # s
      BY <2>5, <2>7
    <3> QED  BY <1>1, <2>1, <2>7, <3>1, RequestTurn
  <2>8. Out!Reject(e[1], e[2])
    BY <1>1, <1>2, <2>4, <2>5, <2>6, <2>7 DEF Out!Reject, Out!IsTurnOf, Seqs
  <2> QED  BY <2>4, <2>8 DEF Out!Next
<1> QED  BY <1>3, <1>4

(* A batch that was sent is acknowledged. *)
LEMMA OutboxSettle ==
    ASSUME IInv, IInv', Promises, NEW d \in Drainers, Acknowledge(d)
    PROVE  Out!Settle
<1>1. /\ pc[d] = "send" /\ pc'[d] = "fetch" /\ unsent[d] = {} /\ received' = received
  BY DrainerFacts DEF Acknowledge, NextBatch, Goto
<1>2. Rejects = {} /\ Rejects' = {}
  BY <1>1, RejectsOf DEF Drain
<1>3. /\ Keeps(db', db) /\ db'.next = db.next /\ db'.quarantine = db.quarantine
      /\ Seqs(db') = Seqs(db) \ DOMAIN batch[d]
  BY AcknowledgedStore
<1>4. Ordered(batch[d], unsent[d], halves[d], db)
  BY DEF Promises, OrderInv
<1>5. \A s \in Seqs(db) \ Seqs(db') : Out!Done(s)
  BY <1>1, <1>3, <1>4, DrainerFacts DEF Ordered, Out!Done
<1> QED
  BY <1>1, <1>2, <1>3, <1>5 DEF Out!Settle, Out!KeepsTheRest, Out!Gone, Keeps, Seqs

(* The event that was rejected goes into quarantine. *)
LEMMA OutboxRefuse ==
    ASSUME IInv, IInv', Promises, NEW d \in Drainers, Quarantine(d)
    PROVE  Out!Next
<1>1. /\ pc[d] = "quarantine" /\ pc'[d] = "fetch" /\ received' = received
  BY DrainerFacts DEF Quarantine, NextBatch, Goto
<1>2. unsent[d] # {}
  BY <1>1, DrainerFacts
<1>3. Ordered(batch[d], unsent[d], halves[d], db)
  BY DEF Promises, OrderInv
<1>4. PICK s \in DOMAIN batch[d] : halves[d] = {{s}}
  BY <1>1 DEF Promises, OrderInv
<1>5. Request(d) = {s}
  BY <1>2, <1>4, RequestSome
<1>6. PICK e : e = <<s, batch[d][s]>>
  OBVIOUS
<1>7. IDsOf(d, Request(d)) = {e[2]} /\ e[2] = batch[d][s]
  BY <1>5, <1>6 DEF IDsOf
<1>8. Rejects = {e} /\ Rejects' = {}
  <2>1. UNION halves[d] = {s}
    BY <1>4
  <2>2. {<<x, batch[d][x]>> : x \in {s}} = {e}
    BY <1>6
  <2> QED  BY <1>1, <2>1, <2>2, RejectsOf DEF Drain
<1>9. /\ Keeps(db', db) /\ db'.next = db.next
      /\ db'.quarantine = db.quarantine \cup {e[2]}
      /\ Seqs(db') = Seqs(db) \ {t \in DOMAIN batch[d] : batch[d][t] \in {e[2]}}
  BY <1>7, QuarantinedStore
<1>10. \A t \in Seqs(db) \ Seqs(db') : db.events[t].id = e[2]
  BY <1>3, <1>9 DEF Ordered
<1>11. Out!Refuse(e)
  BY <1>1, <1>8, <1>9, <1>10 DEF Out!Refuse, Out!KeepsTheRest, Out!Gone, Keeps, Seqs
<1> QED  BY <1>8, <1>11 DEF Out!Next

(* Every step of a drainer is one of the outbox, or none. *)
LEMMA OutboxDrain ==
    ASSUME IInv, IInv', Promises, Promises', NEW d \in Drainers, Drain(d)
    PROVE  Out!Next \/ UNCHANGED Out!outboxVars
<1>1. CASE TakeWatermark(d) \/ FetchBatch(d)
  <2>1. /\ pc[d] \in {"locked", "fetch"} /\ pc'[d] # "quarantine"
        /\ db' = PruneExpired(db, now) /\ received' = received
    BY <1>1, DrainerFacts DEF TakeWatermark, FetchBatch, Release, Goto
  <2>2. Rejects = {} /\ Rejects' = {}
    BY <2>1, RejectsOf
  <2>3. Out!Accept
    BY <2>1, <2>2, OutboxPrune
  <2> QED  BY <2>3 DEF Out!Next
<1>2. CASE PostAccepted(d) \/ PostLost(d)
  BY <1>2, OutboxSend DEF Out!Next
<1>3. CASE AcquireLock(d) \/ GiveUp(d)
  <2>1. pc'[d] # "quarantine" /\ db' = db /\ received' = received
    BY <1>3, DrainerFacts DEF AcquireLock, GiveUp, Release, Goto, storeVars
  <2>2. Rejects' = {}
    BY <2>1, RejectsOf
  <2>3. Out!Forget
    BY <2>1, <2>2 DEF Out!Forget
  <2> QED  BY <2>3 DEF Out!Next
<1>4. CASE PostRejected(d)
  BY <1>4, OutboxReject
<1>5. CASE Acknowledge(d)
  BY <1>5, OutboxSettle DEF Out!Next
<1>6. CASE Quarantine(d)
  BY <1>6, OutboxRefuse
<1> QED  BY <1>1, <1>2, <1>3, <1>4, <1>5, <1>6 DEF Drain

(* Every step of the queue is one of the outbox, or changes nothing of it.  *)
LEMMA OutboxStep ==
    ASSUME IInv, IInv', Promises, Promises', [Next]_vars
    PROVE  Out!Next \/ UNCHANGED Out!outboxVars
<1>1. CASE Tick \/ Open \/ AppendEvents
  <2>1. CASE CommitAppend
    BY <2>1, OutboxCommit DEF Out!Next
  <2>2. CASE ~CommitAppend
    <3>1. /\ UNCHANGED <<drainVars, received>>
          /\ db'.events = db.events /\ db'.next = db.next
          /\ db'.quarantine = db.quarantine
      BY <1>1, <2>2, OtherSteps
    <3>2. Rejects' = Rejects
      BY <3>1 DEF drainVars, Rejects, InQuarantine
    <3> QED  BY <3>1, <3>2, OutboxSame
  <2> QED  BY <2>1, <2>2
<1>2. CASE \E d \in Drainers : Drain(d)
  BY <1>2, OutboxDrain
<1>3. CASE UNCHANGED vars
  <2>1. UNCHANGED <<db, drainVars, received>>
    BY <1>3 DEF vars, storeVars
  <2>2. Rejects' = Rejects
    BY <2>1 DEF drainVars, Rejects, InQuarantine
  <2> QED  BY <2>1, <2>2, OutboxSame
<1> QED  BY <1>1, <1>2, <1>3 DEF Next

(* The event queue, with its batches, bisections, concurrent drainers, open *)
(* transactions and crashes, is the ordered outbox that Outbox describes.   *)
THEOREM QueueIsOutbox == Spec => IsOutbox
<1>1. Init => Out!Init
  BY OutboxInit
<1>2. IInv /\ IInv' /\ Promises /\ Promises' /\ [Next]_vars => [Out!Next]_(Out!outboxVars)
  BY OutboxStep
<1> QED  BY <1>1, <1>2, PromisesKept, PTL DEF Spec, IsOutbox, Out!Spec
=============================================================================
