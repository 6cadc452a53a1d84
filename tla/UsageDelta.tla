------------------------------ MODULE UsageDelta ------------------------------
(***************************************************************************)
(* How src/pkg/daemon turns a cumulative total into deltas: the baseline and *)
(* the usage cursor of one bucket (the use of one session, model and day).   *)
(* A summary of the bucket goes past the baseline, which decides whether it  *)
(* counts and which value it counts from, and then past the cursor, which    *)
(* has the last word if there is one.                                       *)
(*                                                                         *)
(* Counters are the total and its two parts (see ClaudeTranscripts).  Every  *)
(* baseline of a bucket was made from a summary with totals (TokensObserved  *)
(* is true); windows, and cursors of an older accounting, which have keys    *)
(* of their own, are left out.                                              *)
(***************************************************************************)
EXTENDS Integers

Zero == [total |-> 0, rest |-> 0, cache |-> 0]

Larger(m, n) == IF m > n THEN m ELSE n

CountersOf(rest, cache) == [total |-> rest + cache, rest |-> rest, cache |-> cache]

-----------------------------------------------------------------------------
(* The baseline of a bucket: what it is at, what it advanced from, whether   *)
(* cache counters were recorded at each, and whether its accounting is the   *)
(* present one.                                                             *)
NoBaseline ==
    [at |-> Zero, from |-> Zero, cacheSeen |-> FALSE, fromCacheSeen |-> FALSE, current |-> FALSE]

(* addBaselineSession, of a bucket that had no baseline or is rebased *)
Seeded(seen) ==
    [at |-> seen, from |-> [Zero EXCEPT !.total = seen.total],
     cacheSeen |-> seen.cache > 0, fromCacheSeen |-> FALSE, current |-> TRUE]

(* ... and of one whose total grew *)
Advanced(b, seen) ==
    [at |-> [total |-> seen.total, rest |-> Larger(b.at.rest, seen.rest),
             cache |-> Larger(b.at.cache, seen.cache)],
     from |-> b.at,
     cacheSeen |-> b.cacheSeen \/ seen.cache > b.at.cache,
     fromCacheSeen |-> b.cacheSeen, current |-> TRUE]

(* filterClaudeUsageBaseline: what becomes of a summary *)
Rebased(b, cutover) == cutover \/ (b # NoBaseline /\ ~b.current)

Grown(b, seen) == b = NoBaseline \/ seen.total > b.at.total

Recovering(b, seen) == b # NoBaseline /\ seen.total = b.at.total /\ b.from.total < b.at.total

Counts(b, seen, cutover) == ~Rebased(b, cutover) /\ (Grown(b, seen) \/ Recovering(b, seen))

NextBaseline(b, seen, cutover) ==
    IF Rebased(b, cutover) \/ b = NoBaseline THEN Seeded(seen)
    ELSE IF Grown(b, seen) THEN Advanced(b, seen) ELSE b

-----------------------------------------------------------------------------
(* The usage cursor of a bucket *)
NoUsageCursor == [at |-> Zero, cacheSeen |-> FALSE]

UsageCursor(seen) == [at |-> seen, cacheSeen |-> TRUE]

(* markInternalInitialDelta, markInternalRecoveryCursor and                  *)
(* markInternalPreviousCursor: what a summary counts from if there is no     *)
(* cursor; counters of the cache are given only when they were recorded.     *)
Hint(b, seen) ==
    CASE b = NoBaseline -> UsageCursor(Zero)
      [] b # NoBaseline /\ Recovering(b, seen) -> [at |-> b.from, cacheSeen |-> b.fromCacheSeen]
      [] OTHER -> [at |-> b.at, cacheSeen |-> b.cacheSeen]

Previous(cursor, b, seen) == IF cursor = NoUsageCursor THEN Hint(b, seen) ELSE cursor

(* calculateUsageTokenDelta: without recorded counters of the cache no use   *)
(* of it is reported.                                                       *)
Delta(previous, seen) ==
    LET cache == IF previous.cacheSeen THEN previous.at.cache ELSE seen.cache
    IN  IF seen.total <= previous.at.total THEN Zero
        ELSE [total |-> seen.total - previous.at.total,
              rest |-> Larger(seen.rest - previous.at.rest, 0),
              cache |-> Larger(seen.cache - cache, 0)]

(* usageDeltaFromEvent, for a summary that counts *)
Charge(cursor, b, seen, cutover) ==
    IF seen.total > 0 /\ Counts(b, seen, cutover) THEN Delta(Previous(cursor, b, seen), seen) ELSE Zero

NextUsageCursor(cursor, b, seen, cutover) ==
    IF seen.total > 0 /\ Counts(b, seen, cutover) THEN UsageCursor(seen) ELSE cursor
=============================================================================
