--------------------------- MODULE CodexTurnsProofs ---------------------------
(***************************************************************************)
(* Token use of Codex turns, for any sessions, forks, recordings and worlds  *)
(* and any limits: the types, that each turn is reported once, with exactly  *)
(* what it used, and that none is skipped.                                  *)
(***************************************************************************)
EXTENDS CodexTurns, DataProofs

-----------------------------------------------------------------------------
(* The file of a session with the records of its parent still to be copied. *)
Whole(s) == files[s] \o copying[s]

(* What is in the files: what Recorded says of a recording stays true, also  *)
(* of what is still to be copied.                                           *)
FileInv(s, whole, now, last, alive) ==
    /\ WellFormed(whole[s])
    /\ \A i \in DOMAIN whole[s] :
        /\ TurnAt(whole[s], i) # NoTurn => Agree(whole[s], now[TurnAt(whole[s], i)[1]], i)
        /\ whole[s][i].turn[2] <= last
    /\ LastStart(whole[s], Len(whole[s]) + 1)[1] \in {s, NoSession}
    /\ s \in alive <=> whole[s] # << >>
    /\ ParentOf[s] = NoSession =>
          \A i \in DOMAIN whole[s] : TurnAt(whole[s], i)[1] \in {s, NoSession}
    /\ ParentOf[s] # NoSession =>
          /\ s \in alive => ParentOf[s] \in alive
          /\ \A i \in DOMAIN whole[s], t \in AllTurns \ TurnsOf(s) :
                EndsAt(whole[s], t, i) => Agree(whole[s], now[ParentOf[s]], i)
          /\ \A i \in DOMAIN whole[ParentOf[s]] : whole[ParentOf[s]][i].turn[1] # s

Wholes == [s \in Sessions |-> Whole(s)]
Alive == {s \in Sessions : Exists(s)}

FilesInv == \A s \in Sessions : FileInv(s, Wholes, files, turns, Alive)

-----------------------------------------------------------------------------
(* What a cursor knows of the file it is in: the last total, unless it waits *)
(* for one, and of the turn in progress no more than was used.               *)
Known(c, f) ==
    LET t == c.active.turn
    IN  /\ c.offset <= Len(f)
        /\ ~c.awaiting => c.last = TotalBefore(f, c.offset + 1)
        /\ t # NoTurn =>
              /\ t = LastStart(f, c.offset + 1)
              /\ c.active.latest = c.last
              /\ c.active.reset \/ c.active.latest - c.active.baseline <= Used(f, t, c.offset)

(* If it began at the beginning it knows which turn is in progress, and      *)
(* exactly what was used.                                                   *)
Exact(c, f) ==
    LET t == c.active.turn
    IN  /\ ~c.awaiting
        /\ t = LastStart(f, c.offset + 1)
        /\ t # NoTurn =>
              /\ c.active.reset = ResetIn(f, t, c.offset)
              /\ ~c.active.reset => c.active.latest - c.active.baseline = Used(f, t, c.offset)

(* What ends behind the cursor is the session's own. *)
OwnBehind(c, s, f) ==
    \A i \in c.offset + 1 .. Len(f), t \in AllTurns : EndsAt(f, t, i) => t[1] = s

(* What ended before it and should be reported is among the events. *)
Reported(c, s, f, Q) ==
    \A t \in TurnsOf(s), end \in 1 .. c.offset :
        EndsAt(f, t, end) /\ ~ResetIn(f, t, end) /\ Used(f, t, end) > 0 => \E e \in Q : e.turn = t

CursorInv(c, st, Q) ==
    LET y == c.path[1]
    IN  /\ Exists(y) /\ Known(c, files[y])
        /\ c.active.inherited => c.active.turn[1] # y
        /\ y \notin split => OwnBehind(c, y, Whole(y))
        /\ y \notin st.seeded => Exact(c, files[y]) /\ Reported(c, y, files[y], Q)

CursorsInv(st, Q) ==
    \A k \in Keys : st.cursors[k] # NoCursor => CursorInv(st.cursors[k], st, Q)

-----------------------------------------------------------------------------
(* The cursor from which session s would go on *)
Reads(st, s, c) ==
    /\ c # NoCursor /\ c.path[1] = s
    /\ \/ c = st.cursors[s]
       \/ st.cursors[s] = NoCursor /\ LegacyOf[s] # NoSession /\ c = st.cursors[LegacyOf[s]]

(* A turn that ended before the cursor *)
Past(c, f, t) == c.active.turn # t /\ \E end \in 1 .. c.offset : EndsAt(f, t, end)

EventsFrom(s, c) == Scan(Session(s, {}), c, files[s]).events

(* A session from before the cutover whose cursor, if any, was its old one *)
Blocked(s) == LegacyOf[s] # NoSession /\ started[s] = 0

(* Whatever the session of e's turn goes on from, it makes e again or is past *)
(* it.                                                                      *)
OnceInv(st, e) ==
    LET s == e.turn[1]
    IN  /\ \A k \in Keys : LET c == st.cursors[k] IN
            Reads(st, s, c) => Past(c, files[s], e.turn) \/ e \in EventsFrom(s, c)
        /\ st.cursors[s] = NoCursor =>
            Blocked(s) \/ \A p \in Sessions \X {0, 1} : e \in EventsFrom(s, NewCursor(p))

UseOf(e, st) ==
    \E end \in 1 .. Len(files[e.turn[1]]) :
        LET f == files[e.turn[1]] IN
        /\ EndsAt(f, e.turn, end)
        /\ e.tokens <= Used(f, e.turn, end)
        /\ e.session \notin st.seeded => e.tokens = Used(f, e.turn, end) /\ ~ResetIn(f, e.turn, end)

EventsInv ==
    /\ \A e \in queued \cup events :
        /\ UseOf(e, store)
        /\ e.session \notin split =>
            /\ e.session \in {e.turn[1], OldKey(e.turn[1])}
            /\ OnceInv(store, e)
            /\ phase # "idle" => OnceInv(next, e)
    /\ \A e, f \in queued \cup events :
        e.session \notin split /\ f.session \notin split /\ e.turn = f.turn => e = f

LegacyInv(st) ==
    \A s \in Sessions :
        /\ st.cursors[s] = NoCursor /\ LegacyOf[s] # NoSession =>
            LET c == st.cursors[LegacyOf[s]] IN
            c # NoCursor /\ c.path[1] = s => started[s] = 0

(* While sessions are looked at, the cursors of those to come are as they    *)
(* were, or are of others.                                                  *)
NextInv ==
    phase # "idle" =>
        /\ \A s \in found : Exists(s)
        /\ next.cutoverAt >= 1
        /\ store.seeded \subseteq next.seeded
        /\ next.seeded \cap todo \subseteq store.seeded
        /\ \A k \in Keys : next.cursors[k] # store.cursors[k] =>
            /\ next.cursors[k] # NoCursor
            /\ next.cursors[k].path[1] \notin todo

IInv ==
    /\ TypeOK
    /\ FilesInv
    /\ store.cutoverAt # 0
    /\ CursorsInv(store, queued) /\ CursorsInv(next, queued \cup events)
    /\ phase \in {"idle", "commit"} => events \subseteq queued
    /\ LegacyInv(store) /\ LegacyInv(next)
    /\ NextInv
    /\ EventsInv

-----------------------------------------------------------------------------
(* Files *)
File == Seq(Record)

LEMMA RecordFacts ==
    ASSUME NEW f \in File, NEW i \in 1 .. Len(f)
    PROVE  /\ f[i] \in Record
           /\ f[i].kind \in {"start", "tokens", "done"}
           /\ f[i].turn \in AllTurns \cup {NoTurn}
           /\ f[i].total \in 0 .. MaxTotal /\ f[i].total \in Int
<1>1. f[i] \in Record
  BY DEF File
<1>2. MaxTotal \in Nat
  BY CodexAssumption
<1> QED  BY <1>1, <1>2 DEF Record

(* A turn is of a session, and no turn is of none. *)
LEMMA TurnFacts ==
    ASSUME NEW t \in AllTurns
    PROVE  t # NoTurn /\ t[1] \in Sessions /\ t[1] # NoSession /\ t \in TurnsOf(t[1])
<1>1. PICK s \in Sessions : t \in {s} \X (1 .. MaxTurns)
  BY DEF AllTurns, TurnsOf
<1>2. t[1] = s /\ t[2] \in 1 .. MaxTurns
  BY <1>1
<1>3. t # NoTurn
  BY <1>1, <1>2, CodexAssumption DEF NoTurn
<1> QED  BY <1>1, <1>2, <1>3, CodexAssumption DEF TurnsOf

LEMMA NoTurnFacts == NoTurn[1] = NoSession /\ NoTurn[2] = 0 /\ NoTurn \notin AllTurns
<1>1. NoTurn[1] = NoSession /\ NoTurn[2] = 0
  BY DEF NoTurn
<1> QED  BY <1>1, TurnFacts

-----------------------------------------------------------------------------
(* The turn in progress and the last total, one record after the other *)
LEMMA LastOf ==
    ASSUME NEW n \in Nat, NEW S, S \subseteq 1 .. n, S # {}
    PROVE  Max(S) \in S /\ \A x \in S : x <= Max(S)
<1>1. K!Max(S) \in S /\ \A x \in S : x <= K!Max(S)
  BY K!Greatest
<1> QED  BY <1>1, KSame

LEMMA LastStartFirst == ASSUME NEW f PROVE LastStart(f, 1) = NoTurn
<1>1. {k \in 1 .. 1 - 1 : f[k].kind # "tokens"} = {}
  OBVIOUS
<1> QED  BY <1>1 DEF LastStart

(* The marks before i: records that start or end a turn *)
Marks(f, i) == {k \in 1 .. i - 1 : f[k].kind # "tokens"}

LEMMA LastStartNone ==
    ASSUME NEW f, NEW i, Marks(f, i) = {}
    PROVE  LastStart(f, i) = NoTurn
<1> QED  BY DEF Marks, LastStart

LEMMA LastStartMark ==
    ASSUME NEW f, NEW i \in Nat, NEW m \in Marks(f, i), \A j \in Marks(f, i) : j <= m
    PROVE  LastStart(f, i) = IF f[m].kind = "done" THEN NoTurn ELSE f[m].turn
<1>1. PICK n : n = CHOOSE k \in Marks(f, i) : \A j \in Marks(f, i) : j <= k
  OBVIOUS
<1>2. n \in Marks(f, i) /\ \A j \in Marks(f, i) : j <= n
  BY <1>1
<1>3. n = m /\ m # 0
  BY <1>2 DEF Marks
<1>4. LastStart(f, i) = IF n = 0 \/ f[n].kind = "done" THEN NoTurn ELSE f[n].turn
  BY <1>1, <1>3 DEF LastStart, Marks
<1> QED  BY <1>3, <1>4

LEMMA LastStartStep ==
    ASSUME NEW f \in File, NEW i \in 1 .. Len(f)
    PROVE  LastStart(f, i + 1) = CASE f[i].kind = "tokens" -> LastStart(f, i)
                                   [] f[i].kind = "done" -> NoTurn
                                   [] f[i].kind = "start" -> f[i].turn
<1>1. CASE f[i].kind = "tokens"
  <2>1. Marks(f, i + 1) = Marks(f, i)
    BY <1>1 DEF Marks
  <2>2. CASE Marks(f, i) = {}
    BY <1>1, <2>1, <2>2, LastStartNone
  <2>3. CASE Marks(f, i) # {}
    <3>1. Marks(f, i) \in SUBSET (1 .. i - 1) /\ i - 1 \in Nat
      BY DEF Marks
    <3>2. PICK m \in Marks(f, i) : \A j \in Marks(f, i) : j <= m
      BY <2>3, <3>1, Greatest
    <3>3. LastStart(f, i) = LastStart(f, i + 1)
      BY <2>1, <3>2, LastStartMark
    <3> QED  BY <1>1, <3>3
  <2> QED  BY <2>2, <2>3
<1>2. CASE f[i].kind # "tokens"
  <2>1. i \in Marks(f, i + 1) /\ \A j \in Marks(f, i + 1) : j <= i
    BY <1>2 DEF Marks
  <2>2. LastStart(f, i + 1) = IF f[i].kind = "done" THEN NoTurn ELSE f[i].turn
    BY <2>1, LastStartMark
  <2> QED  BY <1>2, <2>2, RecordFacts
<1> QED  BY <1>1, <1>2

LEMMA LastStartAgree ==
    ASSUME NEW f, NEW g, NEW n \in Nat, Agree(f, g, n), NEW i \in 1 .. n + 1
    PROVE  LastStart(f, i) = LastStart(g, i)
<1>1. \A k \in 1 .. i - 1 : f[k] = g[k]
  BY DEF Agree
<1>2. Marks(f, i) = Marks(g, i)
  BY <1>1 DEF Marks
<1>3. PICK m : m = IF Marks(f, i) = {} THEN 0
                   ELSE CHOOSE k \in Marks(f, i) : \A j \in Marks(f, i) : j <= k
  OBVIOUS
<1>4. LastStart(f, i) = IF m = 0 \/ f[m].kind = "done" THEN NoTurn ELSE f[m].turn
  BY <1>3 DEF LastStart, Marks
<1>5. LastStart(g, i) = IF m = 0 \/ g[m].kind = "done" THEN NoTurn ELSE g[m].turn
  <2>1. m = IF Marks(g, i) = {} THEN 0 ELSE CHOOSE k \in Marks(g, i) : \A j \in Marks(g, i) : j <= k
    BY <1>2, <1>3
  <2> QED  BY <2>1 DEF LastStart, Marks
<1>6. CASE Marks(f, i) = {}
  BY <1>3, <1>4, <1>5, <1>6
<1>7. CASE Marks(f, i) # {}
  <2>1. \E k \in Marks(f, i) : \A j \in Marks(f, i) : j <= k
    <3>1. Marks(f, i) \in SUBSET (1 .. i - 1) /\ i - 1 \in Nat
      BY DEF Marks
    <3> QED  BY <1>7, <3>1, Greatest
  <2>2. m \in Marks(f, i)
    BY <1>3, <1>7, <2>1
  <2>3. f[m] = g[m]
    BY <1>1, <2>2 DEF Marks
  <2> QED  BY <1>4, <1>5, <2>3
<1> QED  BY <1>6, <1>7

(* Where it was started: nothing but totals came since, or it was started    *)
(* again.                                                                  *)
LEMMA LastStartFacts ==
    ASSUME NEW f \in File, NEW i \in 1 .. Len(f) + 1
    PROVE  \/ LastStart(f, i) = NoTurn
           \/ \E m \in 1 .. i - 1 :
                /\ Starts(f, LastStart(f, i), m) /\ LastStart(f, i) = f[m].turn
                /\ \A j \in m + 1 .. i - 1 : f[j].kind = "tokens"
<1>1. CASE Marks(f, i) = {}
  BY <1>1, LastStartNone
<1>2. CASE Marks(f, i) # {}
  <2>1. PICK m \in Marks(f, i) : \A j \in Marks(f, i) : j <= m
    <3>1. Marks(f, i) \in SUBSET (1 .. i - 1) /\ i - 1 \in Nat
      BY DEF Marks
    <3> QED  BY <1>2, <3>1, Greatest
  <2>2. LastStart(f, i) = IF f[m].kind = "done" THEN NoTurn ELSE f[m].turn
    BY <2>1, LastStartMark
  <2>3. m \in 1 .. i - 1 /\ m \in 1 .. Len(f) /\ f[m].kind # "tokens"
    BY DEF Marks
  <2>4. f[m].kind = "start" \/ f[m].kind = "done"
    BY <2>3, RecordFacts
  <2>5. \A j \in m + 1 .. i - 1 : f[j].kind = "tokens"
    BY <2>1, <2>3 DEF Marks
  <2> QED  BY <2>2, <2>3, <2>4, <2>5 DEF Starts
<1> QED  BY <1>1, <1>2

LEMMA LastStartType ==
    ASSUME NEW f \in File, NEW i \in 1 .. Len(f) + 1
    PROVE  LastStart(f, i) \in AllTurns \cup {NoTurn}
<1>1. CASE LastStart(f, i) = NoTurn
  BY <1>1
<1>2. CASE LastStart(f, i) # NoTurn
  <2>1. PICK m \in 1 .. i - 1 : LastStart(f, i) = f[m].turn
    BY <1>2, LastStartFacts
  <2>2. m \in 1 .. Len(f)
    BY <2>1
  <2> QED  BY <2>1, <2>2, RecordFacts
<1> QED  BY <1>1, <1>2

-----------------------------------------------------------------------------
LEMMA TotalFirst == ASSUME NEW f PROVE TotalBefore(f, 1) = 0
<1>1. {k \in 1 .. 1 - 1 : f[k].kind = "tokens"} = {}
  OBVIOUS
<1> QED  BY <1>1 DEF TotalBefore

CountsBefore(f, i) == {k \in 1 .. i - 1 : f[k].kind = "tokens"}

LEMMA TotalStep ==
    ASSUME NEW f \in File, NEW i \in 1 .. Len(f)
    PROVE  TotalBefore(f, i + 1) = IF f[i].kind = "tokens" THEN f[i].total ELSE TotalBefore(f, i)
<1>1. CASE f[i].kind # "tokens"
  <2>1. CountsBefore(f, i + 1) = CountsBefore(f, i)
    BY <1>1 DEF CountsBefore
  <2> QED  BY <1>1, <2>1 DEF TotalBefore, CountsBefore
<1>2. CASE f[i].kind = "tokens"
  <2>1. PICK S : S = CountsBefore(f, i + 1)
    OBVIOUS
  <2>2. S \subseteq 1 .. i /\ i \in S /\ i \in Nat
    BY <1>2, <2>1 DEF CountsBefore
  <2>3. Max(S) \in S /\ \A x \in S : x <= Max(S)
    BY <2>2, LastOf
  <2>4. Max(S) = i
    <3>1. Max(S) \in 1 .. i /\ i <= Max(S)
      BY <2>2, <2>3
    <3> QED  BY <3>1
  <2>5. TotalBefore(f, i + 1) = f[Max(S)].total
    BY <2>1, <2>2 DEF TotalBefore, CountsBefore
  <2> QED  BY <1>2, <2>4, <2>5
<1> QED  BY <1>1, <1>2

LEMMA TotalAgree ==
    ASSUME NEW f, NEW g, NEW n \in Nat, Agree(f, g, n), NEW i \in 1 .. n + 1
    PROVE  TotalBefore(f, i) = TotalBefore(g, i)
<1>1. \A k \in 1 .. i - 1 : f[k] = g[k]
  BY DEF Agree
<1>2. CountsBefore(f, i) = CountsBefore(g, i)
  BY <1>1 DEF CountsBefore
<1>3. CASE CountsBefore(f, i) = {}
  BY <1>2, <1>3 DEF TotalBefore, CountsBefore
<1>4. CASE CountsBefore(f, i) # {}
  <2>1. PICK S : S = CountsBefore(f, i)
    OBVIOUS
  <2>2. S \subseteq 1 .. i - 1 /\ i - 1 \in Nat /\ S # {}
    BY <1>4, <2>1 DEF CountsBefore
  <2>3. Max(S) \in S
    BY <2>2, LastOf
  <2>4. f[Max(S)] = g[Max(S)]
    BY <1>1, <2>2, <2>3
  <2>5. TotalBefore(f, i) = f[Max(S)].total /\ TotalBefore(g, i) = g[Max(S)].total
    BY <1>2, <2>1, <2>2 DEF TotalBefore, CountsBefore
  <2> QED  BY <2>4, <2>5
<1> QED  BY <1>3, <1>4

LEMMA TotalType ==
    ASSUME NEW f \in File, NEW i \in 1 .. Len(f) + 1
    PROVE  TotalBefore(f, i) \in 0 .. MaxTotal /\ TotalBefore(f, i) \in Int
<1>1. MaxTotal \in Nat
  BY CodexAssumption
<1>2. CASE CountsBefore(f, i) = {}
  BY <1>1, <1>2 DEF TotalBefore, CountsBefore
<1>3. CASE CountsBefore(f, i) # {}
  <2>1. PICK S : S = CountsBefore(f, i)
    OBVIOUS
  <2>2. S \subseteq 1 .. i - 1 /\ i - 1 \in Nat /\ S # {}
    BY <1>3, <2>1 DEF CountsBefore
  <2>3. Max(S) \in S /\ \A x \in S : x <= Max(S)
    BY <2>2, LastOf
  <2>4. TotalBefore(f, i) = f[Max(S)].total
    BY <2>1, <2>2 DEF TotalBefore, CountsBefore
  <2>5. PICK m : m = Max(S)
    OBVIOUS
  <2>6. m \in 1 .. i - 1
    BY <2>2, <2>3, <2>5
  <2>7. m \in 1 .. Len(f)
    BY <2>6 DEF File
  <2> QED  BY <1>1, <2>4, <2>5, <2>7, RecordFacts
<1> QED  BY <1>2, <1>3

-----------------------------------------------------------------------------
(* Agreement of two files up to a record *)
LEMMA AgreeFacts ==
    ASSUME NEW f \in File, NEW g \in File, NEW n \in Nat, Agree(f, g, n)
    PROVE  /\ Agree(g, f, n)
           /\ \A m \in 0 .. n : Agree(f, g, m)
           /\ \A h \in File : Agree(g, h, n) => Agree(f, h, n)
<1> QED  BY DEF Agree, File

LEMMA AgreeWell ==
    ASSUME NEW f \in File, NEW g \in File, NEW n \in Nat, Agree(f, g, n)
    PROVE  \A i \in 1 .. n : /\ TurnAt(f, i) = TurnAt(g, i)
                             /\ \A t : EndsAt(f, t, i) <=> EndsAt(g, t, i)
<1> SUFFICES ASSUME NEW i \in 1 .. n
             PROVE  /\ TurnAt(f, i) = TurnAt(g, i)
                    /\ \A t : EndsAt(f, t, i) <=> EndsAt(g, t, i)
  OBVIOUS
<1>1. f[i] = g[i] /\ i \in 1 .. n + 1
  BY DEF Agree
<1>2. LastStart(f, i) = LastStart(g, i)
  BY <1>1, LastStartAgree
<1> QED  BY <1>1, <1>2 DEF TurnAt, EndsAt

-----------------------------------------------------------------------------
(* Where a turn is started first *)
StartedBefore(f, t, n) == \E i \in 1 .. n - 1 : Starts(f, t, i)

LEMMA FirstStartFacts ==
    ASSUME NEW f \in File, NEW t, NEW n \in 1 .. Len(f) + 1, StartedBefore(f, t, n)
    PROVE  LET m == FirstStart(f, t)
           IN  m \in 1 .. n - 1 /\ Starts(f, t, m) /\ \A j \in 1 .. m - 1 : ~ Starts(f, t, j)
<1> DEFINE S == {i \in 1 .. Len(f) : Starts(f, t, i)}
<1>1. PICK i \in 1 .. n - 1 : Starts(f, t, i)
  BY DEF StartedBefore
<1>2. S \in SUBSET Nat /\ i \in S
  BY <1>1 DEF File
<1>3. PICK m \in S : \A j \in S : m <= j
  <2> HIDE DEF S
  <2> QED  BY <1>2, Smallest
<1>4. m \in 1 .. Len(f) /\ Starts(f, t, m) /\ \A j \in 1 .. m - 1 : ~ Starts(f, t, j)
  <2>1. ASSUME NEW j \in 1 .. m - 1, Starts(f, t, j)
        PROVE  FALSE
    <3>1. j \in S /\ ~(m <= j)
      BY <1>3, <2>1 DEF File
    <3> QED  BY <1>3, <3>1
  <2> QED  BY <1>3, <2>1
<1>5. PICK k : k = FirstStart(f, t)
  OBVIOUS
<1>6. k \in 1 .. Len(f) /\ Starts(f, t, k) /\ \A j \in 1 .. k - 1 : ~ Starts(f, t, j)
  BY <1>4, <1>5 DEF FirstStart
<1>7. k <= i
  BY <1>1, <1>6 DEF File
<1> QED  BY <1>1, <1>5, <1>6, <1>7 DEF File

(* It is the first of any two files that agree so far. *)
LEMMA FirstStartIs ==
    ASSUME NEW f \in File, NEW t, NEW m \in 1 .. Len(f), Starts(f, t, m),
           \A j \in 1 .. m - 1 : ~ Starts(f, t, j)
    PROVE  FirstStart(f, t) = m
<1>1. StartedBefore(f, t, m + 1) /\ m + 1 \in 1 .. Len(f) + 1
  BY DEF StartedBefore, File
<1>2. PICK k : k = FirstStart(f, t)
  OBVIOUS
<1>3. k \in 1 .. m /\ Starts(f, t, k)
  BY <1>1, <1>2, FirstStartFacts
<1> QED  BY <1>2, <1>3

LEMMA FirstStartAgree ==
    ASSUME NEW f \in File, NEW g \in File, NEW n \in Nat, Agree(f, g, n), NEW t,
           StartedBefore(f, t, n + 1)
    PROVE  FirstStart(f, t) = FirstStart(g, t) /\ StartedBefore(g, t, n + 1)
<1>1. PICK m : m = FirstStart(f, t)
  OBVIOUS
<1>2. n + 1 \in 1 .. Len(f) + 1 /\ n + 1 \in 1 .. Len(g) + 1
  BY DEF Agree, File
<1>3. m \in 1 .. n /\ Starts(f, t, m) /\ \A j \in 1 .. m - 1 : ~ Starts(f, t, j)
  BY <1>1, <1>2, FirstStartFacts
<1>4. \A j \in 1 .. m : f[j] = g[j]
  BY <1>3 DEF Agree
<1>5. Starts(g, t, m) /\ \A j \in 1 .. m - 1 : ~ Starts(g, t, j)
  BY <1>3, <1>4 DEF Starts
<1>6. m \in 1 .. Len(g)
  BY <1>2, <1>3 DEF File
<1>7. FirstStart(g, t) = m
  BY <1>5, <1>6, FirstStartIs
<1> QED  BY <1>1, <1>3, <1>5, <1>7 DEF StartedBefore

(* The turn in progress was started. *)
LEMMA LastStarted ==
    ASSUME NEW f \in File, NEW n \in 1 .. Len(f) + 1, NEW t, t # NoTurn, LastStart(f, n) = t
    PROVE  StartedBefore(f, t, n)
<1> QED  BY LastStartFacts DEF StartedBefore

-----------------------------------------------------------------------------
(* A turn that ended is not in progress again, and has no other end. *)
LEMMA AfterEnd ==
    ASSUME NEW f \in File, WellFormed(f), NEW t, t # NoTurn, NEW i \in 1 .. Len(f), EndsAt(f, t, i)
    PROVE  \A j \in i + 1 .. Len(f) + 1 : LastStart(f, j) # t
<1> DEFINE S == {j \in i + 1 .. Len(f) + 1 : LastStart(f, j) = t}
<1>1. SUFFICES ASSUME S # {} PROVE FALSE
  OBVIOUS
<1>2. S \in SUBSET Nat
  BY DEF File
<1>3. PICK j \in S : \A k \in S : j <= k
  <2> HIDE DEF S
  <2> QED  BY <1>1, <1>2, Smallest
<1>4. f[i].kind = "done" /\ LastStart(f, i + 1) = NoTurn
  BY LastStartStep DEF EndsAt
<1>5. j \in i + 2 .. Len(f) + 1 /\ LastStart(f, j) = t
  BY <1>3, <1>4 DEF File
<1>6. PICK k \in i + 1 .. Len(f) : j = k + 1
  <2>1. j - 1 \in i + 1 .. Len(f)
    BY <1>5 DEF File
  <2> QED  BY <1>5, <2>1
<1>7. k \in 1 .. Len(f) /\ k \in DOMAIN f /\ LastStart(f, k) # t
  <2>1. k \in 1 .. Len(f) /\ k \in i + 1 .. Len(f) + 1 /\ ~(j <= k)
    BY <1>6 DEF File
  <2> QED  BY <1>3, <2>1 DEF File
<1>8. f[k].kind = "start" /\ f[k].turn = t
  BY <1>5, <1>6, <1>7, LastStartStep, RecordFacts
<1>9. \A l \in 1 .. k - 1 : f[l].turn # t
  BY <1>7, <1>8 DEF WellFormed
<1>10. PICK m \in 1 .. i - 1 : f[m].turn = t
  <2>1. LastStart(f, i) = t /\ i \in 1 .. Len(f) + 1
    BY DEF EndsAt, File
  <2> QED  BY <2>1, LastStartFacts
<1>11. m \in 1 .. k - 1
  BY <1>6, <1>10 DEF File
<1> QED  BY <1>9, <1>10, <1>11

LEMMA EndUnique ==
    ASSUME NEW f \in File, WellFormed(f), NEW t, t # NoTurn,
           NEW i \in 1 .. Len(f), EndsAt(f, t, i), NEW j \in 1 .. Len(f), EndsAt(f, t, j)
    PROVE  i = j
<1>1. ASSUME NEW a \in 1 .. Len(f), NEW b \in 1 .. Len(f), EndsAt(f, t, a), EndsAt(f, t, b), a < b
      PROVE  FALSE
  <2>1. b \in a + 1 .. Len(f) + 1
    BY <1>1 DEF File
  <2>2. LastStart(f, b) # t
    BY <1>1, <2>1, AfterEnd
  <2> QED  BY <1>1, <2>2 DEF EndsAt
<1>2. i \in Int /\ j \in Int
  OBVIOUS
<1> QED  BY <1>1, <1>2

-----------------------------------------------------------------------------
(* The use of a turn, one record after the other *)
Gains(f, t, end) == {i \in CountsOf(f, t, end) : Growth(f, i) > 0}

(* Used is the sum of the growths. *)
LEMMA UsedSum ==
    ASSUME NEW f, NEW t, NEW end, IsFiniteSet(Gains(f, t, end))
    PROVE  Used(f, t, end) = Sum([i \in Gains(f, t, end) |-> Growth(f, i)], Gains(f, t, end))
<1>1. PICK S : S = Gains(f, t, end)
  OBVIOUS
<1> DEFINE w == [i \in S |-> Growth(f, i)]
           IsUse(g) ==
        g = [T \in SUBSET S |-> IF T = {} THEN 0 ELSE Growth(f, Pick(T)) + g[T \ {Pick(T)}]]
<1>2. \A T \in SUBSET S : T # {} => w[Pick(T)] = Growth(f, Pick(T))
  BY DEF Pick
<1>3. \A g : IsUse(g) <=> IsSum(g, w, S)
  BY <1>2 DEF IsSum
<1>4. Used(f, t, end) = (CHOOSE g : IsUse(g))[S]
  BY <1>1 DEF Used, Gains, MapThenSumSet, MapThenFoldSet, Pick
<1>5. PICK g : g = (CHOOSE h : IsUse(h))
  OBVIOUS
<1> HIDE DEF IsUse, w
<1>6. IsFiniteSet(S)
  BY <1>1
<1>7. \E h : IsUse(h)
  BY <1>3, <1>6, SumExists
<1>8. IsSum(g, w, S)
  BY <1>3, <1>5, <1>7
<1>9. PICK h : h = (CHOOSE k : IsSum(k, w, S))
  OBVIOUS
<1>10. IsSum(h, w, S) /\ Sum(w, S) = h[S]
  BY <1>6, <1>9, SumExists, SumChosen
<1>11. g[S] = h[S]
  BY <1>6, <1>8, <1>10, SumUnique
<1>12. Used(f, t, end) = Sum(w, S)
  BY <1>4, <1>5, <1>10, <1>11
<1> QED  BY <1>1, <1>12 DEF w

LEMMA GrowthType ==
    ASSUME NEW f \in File, NEW i \in 1 .. Len(f)
    PROVE  Growth(f, i) \in Int
<1>1. TotalBefore(f, i) \in Int /\ f[i].total \in Int
  <2>1. i \in 1 .. Len(f) + 1
    BY DEF File
  <2> QED  BY <2>1, TotalType, RecordFacts
<1> QED  BY <1>1 DEF Growth

(* What it is counted over *)
LEMMA GainsFacts ==
    ASSUME NEW f \in File, NEW n \in 0 .. Len(f), NEW t, StartedBefore(f, t, n + 1)
    PROVE  /\ Gains(f, t, n) \subseteq 1 .. n /\ IsFiniteSet(Gains(f, t, n))
           /\ CountsOf(f, t, n) \subseteq 1 .. n
           /\ \A i \in Gains(f, t, n) : Growth(f, i) \in Nat
<1>1. n \in Nat /\ n + 1 \in 1 .. Len(f) + 1 /\ Len(f) \in Nat
  BY DEF File
<1>2. FirstStart(f, t) \in 1 .. n
  BY <1>1, FirstStartFacts
<1>3. CountsOf(f, t, n) \subseteq 1 .. n
  BY <1>1, <1>2 DEF CountsOf
<1>4. Gains(f, t, n) \subseteq 1 .. n
  BY <1>3 DEF Gains
<1>5. \A i \in Gains(f, t, n) : Growth(f, i) \in Nat
  <2>1. ASSUME NEW i \in Gains(f, t, n)
        PROVE  Growth(f, i) \in Nat
    <3>1. i \in 1 .. Len(f)
      BY <1>1, <1>4
    <3>2. Growth(f, i) \in Int /\ Growth(f, i) > 0
      BY <3>1, GrowthType DEF Gains
    <3> QED  BY <3>2
  <2> QED  BY <2>1
<1>6. IsFiniteSet(1 .. n)
  BY <1>1, FS_Interval
<1>7. IsFiniteSet(Gains(f, t, n))
  BY <1>4, <1>6, FS_Subset
<1> QED  BY <1>3, <1>4, <1>5, <1>7

LEMMA UsedNat ==
    ASSUME NEW f \in File, NEW n \in 0 .. Len(f), NEW t, StartedBefore(f, t, n + 1)
    PROVE  Used(f, t, n) \in Nat
<1>1. PICK S : S = Gains(f, t, n)
  OBVIOUS
<1>2. PICK w : w = [i \in S |-> Growth(f, i)]
  OBVIOUS
<1>3. IsFiniteSet(S) /\ \A i \in S : w[i] \in Nat
  BY <1>1, <1>2, GainsFacts
<1>4. Used(f, t, n) = Sum(w, S)
  BY <1>1, <1>2, <1>3, UsedSum
<1> QED  BY <1>3, <1>4, SumNat

(* Where a turn is started for the first time nothing was used. *)
LEMMA UsedFresh ==
    ASSUME NEW f \in File, NEW m \in 1 .. Len(f), NEW t, Starts(f, t, m),
           \A j \in 1 .. m - 1 : f[j].turn # t
    PROVE  Used(f, t, m) = 0 /\ ~ ResetIn(f, t, m)
<1>1. FirstStart(f, t) = m
  BY FirstStartIs DEF Starts
<1>2. CountsOf(f, t, m) = {}
  BY <1>1 DEF CountsOf, Starts
<1>3. Gains(f, t, m) = {}
  BY <1>2 DEF Gains
<1>4. Used(f, t, m) = 0
  <2>1. IsFiniteSet({})
    BY FS_EmptySet
  <2>2. Used(f, t, m) = Sum([i \in {} |-> Growth(f, i)], {})
    BY <1>3, <2>1, UsedSum
  <2> QED  BY <2>2, SumEmpty
<1> QED  BY <1>2, <1>4 DEF ResetIn

(* A record that is no total changes nothing. *)
LEMMA UsedSame ==
    ASSUME NEW f \in File, NEW n \in 0 .. Len(f) - 1, NEW t, StartedBefore(f, t, n + 1),
           f[n + 1].kind # "tokens"
    PROVE  Used(f, t, n + 1) = Used(f, t, n) /\ (ResetIn(f, t, n + 1) <=> ResetIn(f, t, n))
<1>1. FirstStart(f, t) \in 1 .. n
  <2>1. n + 1 \in 1 .. Len(f) + 1
    BY DEF File
  <2> QED  BY <2>1, FirstStartFacts
<1>2. CountsOf(f, t, n + 1) = CountsOf(f, t, n)
  <2>1. n \in Nat
    BY DEF File
  <2> QED  BY <1>1, <2>1 DEF CountsOf
<1> QED  BY <1>2 DEF Used, ResetIn

(* A total that has grown was used, and one that went back is a reset. *)
LEMMA UsedMore ==
    ASSUME NEW f \in File, NEW n \in 0 .. Len(f) - 1, NEW t, StartedBefore(f, t, n + 1),
           f[n + 1].kind = "tokens"
    PROVE  LET d == f[n + 1].total - TotalBefore(f, n + 1)
           IN  /\ Used(f, t, n + 1) = Used(f, t, n) + (IF d > 0 THEN d ELSE 0)
               /\ ResetIn(f, t, n + 1) <=> ResetIn(f, t, n) \/ d < 0
<1>1. /\ n \in Nat /\ n \in 0 .. Len(f) /\ n + 1 \in 0 .. Len(f) /\ n + 1 \in 1 .. Len(f)
      /\ n + 1 \in 1 .. Len(f) + 1
  BY DEF File
<1>2. FirstStart(f, t) \in 1 .. n
  BY <1>1, FirstStartFacts
<1>3. CountsOf(f, t, n + 1) = CountsOf(f, t, n) \cup {n + 1} /\ n + 1 \notin CountsOf(f, t, n)
  BY <1>1, <1>2 DEF CountsOf
<1>4. StartedBefore(f, t, n + 2)
  BY <1>1 DEF StartedBefore
<1>5. PICK d : d = Growth(f, n + 1)
  OBVIOUS
<1>6. d \in Int /\ d = f[n + 1].total - TotalBefore(f, n + 1)
  BY <1>1, <1>5, GrowthType DEF Growth
<1>7. ResetIn(f, t, n + 1) <=> ResetIn(f, t, n) \/ d < 0
  BY <1>3, <1>5 DEF ResetIn
<1>8. CASE ~(d > 0)
  <2>1. Gains(f, t, n + 1) = Gains(f, t, n)
    BY <1>3, <1>5, <1>8 DEF Gains
  <2>2. Used(f, t, n + 1) = Used(f, t, n)
    BY <2>1 DEF Used, Gains
  <2>3. Used(f, t, n) \in Nat
    BY <1>1, UsedNat
  <2> QED  BY <1>6, <1>7, <1>8, <2>2, <2>3
<1>9. CASE d > 0
  <2>1. PICK A, B : A = Gains(f, t, n) /\ B = Gains(f, t, n + 1)
    OBVIOUS
  <2>2. B = A \cup {n + 1} /\ n + 1 \notin A /\ B \ {n + 1} = A
    BY <1>3, <1>5, <1>9, <2>1 DEF Gains
  <2>3. PICK v, w : v = [i \in A |-> Growth(f, i)] /\ w = [i \in B |-> Growth(f, i)]
    OBVIOUS
  <2>4. IsFiniteSet(A) /\ Used(f, t, n) = Sum(v, A)
    BY <1>1, <2>1, <2>3, GainsFacts, UsedSum
  <2>5. StartedBefore(f, t, (n + 1) + 1)
    BY <1>1, <1>4
  <2>6. IsFiniteSet(B) /\ Used(f, t, n + 1) = Sum(w, B) /\ \A i \in B : w[i] \in Nat
    BY <1>1, <2>1, <2>3, <2>5, GainsFacts, UsedSum
  <2>7. Sum(w, B) = w[n + 1] + Sum(w, A)
    BY <2>2, <2>6, SumElement
  <2>8. Sum(w, A) = Sum(v, A)
    BY <2>2, <2>3, <2>4, SumSame
  <2>9. w[n + 1] = d /\ Used(f, t, n) \in Nat
    BY <1>1, <1>5, <2>2, <2>3, UsedNat
  <2> QED  BY <1>6, <1>7, <1>9, <2>4, <2>6, <2>7, <2>8, <2>9
<1> QED  BY <1>8, <1>9

(* Of two files that agree it is the same. *)
LEMMA UsedAgree ==
    ASSUME NEW f \in File, NEW g \in File, NEW n \in Nat, Agree(f, g, n), NEW t,
           StartedBefore(f, t, n + 1)
    PROVE  Used(f, t, n) = Used(g, t, n) /\ (ResetIn(f, t, n) <=> ResetIn(g, t, n))
<1>1. FirstStart(f, t) = FirstStart(g, t) /\ StartedBefore(g, t, n + 1)
  BY FirstStartAgree
<1>2. n \in 0 .. Len(f) /\ n \in 0 .. Len(g) /\ n + 1 \in 1 .. Len(f) + 1
  BY DEF Agree, File
<1>3. FirstStart(f, t) \in 1 .. n
  BY <1>2, FirstStartFacts
<1>4. CountsOf(f, t, n) = CountsOf(g, t, n) /\ CountsOf(f, t, n) \subseteq 1 .. n
  BY <1>1, <1>3 DEF CountsOf, Agree
<1>5. \A i \in 1 .. n : Growth(f, i) = Growth(g, i)
  <2>1. ASSUME NEW i \in 1 .. n
        PROVE  Growth(f, i) = Growth(g, i)
    <3>1. i \in 1 .. n + 1
      OBVIOUS
    <3>2. TotalBefore(f, i) = TotalBefore(g, i) /\ f[i] = g[i]
      BY <3>1, TotalAgree DEF Agree
    <3> QED  BY <3>2 DEF Growth
  <2> QED  BY <2>1
<1>6. Gains(f, t, n) = Gains(g, t, n)
  BY <1>4, <1>5 DEF Gains
<1>7. PICK S : S = Gains(f, t, n)
  OBVIOUS
<1>8. PICK v, w : v = [i \in S |-> Growth(f, i)] /\ w = [i \in S |-> Growth(g, i)]
  OBVIOUS
<1>9. S \subseteq 1 .. n /\ IsFiniteSet(S)
  BY <1>2, <1>7, GainsFacts
<1>10. Used(f, t, n) = Sum(v, S) /\ Used(g, t, n) = Sum(w, S)
  BY <1>6, <1>7, <1>8, <1>9, UsedSum
<1>11. \A i \in S : v[i] = w[i]
  BY <1>5, <1>8, <1>9
<1> QED  BY <1>4, <1>5, <1>9, <1>10, <1>11, SumSame DEF ResetIn

-----------------------------------------------------------------------------
(* What a scan makes of one more record *)
F == INSTANCE FoldTheory WITH Op <- Process

ScanTo(session, c, f, n) == Scan(session, c, SubSeq(f, 1, n))

Began(c) == [cursor |-> c, events |-> {}]

LEMMA ScanFolded ==
    \A session, c, f :
        Scan(session, c, f) = F!Folded(session, Began(c), SubSeq(f, c.offset + 1, Len(f)))
<1> QED  BY DEF Scan, Began, FoldLeft, MapThenFoldSet, Max, F!Folded, F!FoldLeft,
                F!MapThenFoldSet, F!Max

LEMMA SubSeqFacts ==
    ASSUME NEW V, NEW s \in Seq(V), NEW a \in Nat \ {0}, NEW b \in Nat, a <= b + 1, b <= Len(s)
    PROVE  /\ SubSeq(s, a, b) \in Seq(V) /\ Len(SubSeq(s, a, b)) = b + 1 - a
           /\ \A i \in 1 .. b + 1 - a : SubSeq(s, a, b)[i] = s[a + i - 1]
<1> QED  OBVIOUS

LEMMA ScanNone ==
    ASSUME NEW session, NEW c, NEW f \in File, c.offset \in 0 .. Len(f)
    PROVE  ScanTo(session, c, f, c.offset) = Began(c)
<1>1. PICK g : g = SubSeq(f, 1, c.offset)
  OBVIOUS
<1>2. PICK n \in 0 .. Len(f) : n = c.offset
  OBVIOUS
<1>3. Len(g) = n
  BY <1>1, <1>2 DEF File
<1>4. SubSeq(g, n + 1, Len(g)) = << >>
  BY <1>1, <1>2, <1>3 DEF File
<1>5. Scan(session, c, g) = F!Folded(session, Began(c), << >>)
  BY <1>2, <1>4, ScanFolded
<1> QED  BY <1>1, <1>5, F!FoldEmpty DEF ScanTo

LEMMA ScanStep ==
    ASSUME NEW session, NEW c, NEW f \in File, c.offset \in Nat, NEW n \in Nat,
           c.offset <= n, n < Len(f)
    PROVE  ScanTo(session, c, f, n + 1) = Process(session, ScanTo(session, c, f, n), f[n + 1])
<1>1. PICK g, h : g = SubSeq(f, 1, n) /\ h = SubSeq(f, 1, n + 1)
  OBVIOUS
<1>2. PICK o \in Nat : o = c.offset /\ o <= n
  OBVIOUS
<1>3. g \in File /\ h \in File /\ Len(g) = n /\ Len(h) = n + 1 /\ f[n + 1] \in Record
  BY <1>1 DEF File
<1>4. PICK s, t : s = SubSeq(g, o + 1, n) /\ t = SubSeq(h, o + 1, n + 1)
  OBVIOUS
<1>5. s \in Seq(Record) /\ t \in Seq(Record)
  BY <1>2, <1>3, <1>4 DEF File
<1>6. t = Append(s, f[n + 1])
  <2>1. Len(s) = n - o /\ Len(t) = n + 1 - o
    <3>1. o + 1 \in Nat \ {0} /\ o + 1 <= n + 1 /\ o + 1 <= (n + 1) + 1
      BY <1>2
    <3>2. Len(s) = n + 1 - (o + 1) /\ Len(t) = (n + 1) + 1 - (o + 1)
      BY <1>3, <1>4, <3>1, SubSeqFacts DEF File
    <3> QED  BY <1>2, <3>2, SMTT(30)
  <2>2. PICK u : u = Append(s, f[n + 1])
    OBVIOUS
  <2>3. u \in Seq(Record) /\ Len(u) = n + 1 - o
    BY <1>3, <1>5, <2>1, <2>2
  <2>4. ASSUME NEW i \in 1 .. n + 1 - o
        PROVE  t[i] = u[i]
    <3>1. t[i] = h[o + i] /\ h[o + i] = f[o + i]
      <4>1. o + i \in 1 .. n + 1 /\ i \in 1 .. Len(t)
        BY <1>2, <2>1
      <4>2. t[i] = h[(o + 1) + i - 1] /\ h[o + i] = f[1 + (o + i) - 1]
        <5>1. i \in 1 .. (n + 1) + 1 - (o + 1) /\ o + i \in 1 .. (n + 1) + 1 - 1
          BY <1>2, <4>1, SMTT(30)
        <5>2. o + 1 \in Nat \ {0} /\ o + 1 <= (n + 1) + 1
          BY <1>2
        <5>3. t[i] = h[(o + 1) + i - 1]
          BY <1>3, <1>4, <5>1, <5>2, SubSeqFacts DEF File
        <5>4. n + 1 <= Len(f) /\ Len(f) \in Nat
          BY DEF File
        <5>5. h[o + i] = f[1 + (o + i) - 1]
          BY <1>1, <5>1, <5>4, SubSeqFacts DEF File
        <5> QED  BY <5>3, <5>5
      <4>3. (o + 1) + i - 1 = o + i /\ 1 + (o + i) - 1 = o + i
        BY <1>2
      <4> QED  BY <4>2, <4>3
    <3>2. CASE i = n + 1 - o
      <4>1. o + i = n + 1
        BY <1>2, <3>2
      <4>2. u[i] = f[n + 1]
        BY <1>5, <2>1, <2>2, <3>2
      <4> QED  BY <3>1, <4>1, <4>2
    <3>3. CASE i # n + 1 - o
      <4>1. i \in 1 .. n - o
        BY <1>2, <3>3
      <4>2. u[i] = s[i]
        BY <1>5, <2>1, <2>2, <4>1
      <4>3. o + i \in 1 .. n /\ i \in 1 .. Len(s)
        BY <1>2, <2>1, <4>1, SMTT(30)
      <4>4. s[i] = g[(o + 1) + i - 1] /\ g[o + i] = f[1 + (o + i) - 1]
        <5>1. i \in 1 .. n + 1 - (o + 1) /\ o + i \in 1 .. n + 1 - 1
          BY <1>2, <4>1, <4>3
        <5>2. o + 1 \in Nat \ {0} /\ o + 1 <= n + 1
          BY <1>2
        <5>3. s[i] = g[(o + 1) + i - 1]
          BY <1>3, <1>4, <5>1, <5>2, SubSeqFacts DEF File
        <5>4. n <= Len(f) /\ Len(f) \in Nat
          BY DEF File
        <5>5. g[o + i] = f[1 + (o + i) - 1]
          BY <1>1, <5>1, <5>4, SubSeqFacts DEF File
        <5> QED  BY <5>3, <5>5
      <4>5. (o + 1) + i - 1 = o + i /\ 1 + (o + i) - 1 = o + i
        BY <1>2
      <4> QED  BY <3>1, <4>2, <4>4, <4>5
    <3> QED  BY <3>2, <3>3
  <2> QED  BY <1>5, <2>1, <2>2, <2>3, <2>4
<1>7. /\ Scan(session, c, g) = F!Folded(session, Began(c), s)
      /\ Scan(session, c, h) = F!Folded(session, Began(c), t)
  BY <1>2, <1>3, <1>4, ScanFolded
<1>8. F!Folded(session, Began(c), Append(s, f[n + 1]))
            = Process(session, F!Folded(session, Began(c), s), f[n + 1])
  BY <1>3, <1>5, F!FoldAppend
<1> QED  BY <1>1, <1>6, <1>7, <1>8 DEF ScanTo

LEMMA ScanAll ==
    ASSUME NEW session, NEW c, NEW f \in File
    PROVE  ScanTo(session, c, f, Len(f)) = Scan(session, c, f)
<1>1. SubSeq(f, 1, Len(f)) = f
  BY DEF File
<1> QED  BY <1>1 DEF ScanTo

LEMMA ScanAgree ==
    ASSUME NEW session, NEW c, NEW f \in File, NEW g \in File, NEW n \in Nat, Agree(f, g, n)
    PROVE  ScanTo(session, c, f, n) = ScanTo(session, c, g, n)
<1>1. SubSeq(f, 1, n) = SubSeq(g, 1, n)
  BY DEF Agree, File
<1> QED  BY <1>1 DEF ScanTo

-----------------------------------------------------------------------------
(* One record, part by part of the cursor *)
Event(session) == [session : {session.id}, turn : AllTurns, tokens : 1 .. MaxTotal]

ScanState(session) == [cursor : Cursor, events : SUBSET Event(session)]

Turn == [turn : AllTurns \cup {NoTurn}, baseline : 0 .. MaxTotal, latest : 0 .. MaxTotal,
         inherited : BOOLEAN, reset : BOOLEAN]

LEMMA CursorFacts ==
    ASSUME NEW c \in Cursor
    PROVE  /\ c.path \in Sessions \X {0, 1} /\ c.path[1] \in Sessions
           /\ c.offset \in Nat
           /\ c.last \in 0 .. MaxTotal /\ c.last \in Int
           /\ c.awaiting \in BOOLEAN
           /\ c.active \in Turn
           /\ c.active.turn \in AllTurns \cup {NoTurn}
           /\ c.active.baseline \in 0 .. MaxTotal /\ c.active.baseline \in Int
           /\ c.active.latest \in 0 .. MaxTotal /\ c.active.latest \in Int
           /\ c.active.inherited \in BOOLEAN /\ c.active.reset \in BOOLEAN
           /\ c.active.turn # NoTurn => c.active.turn \in AllTurns
<1>1. MaxTotal \in Nat
  BY CodexAssumption
<1> QED  BY <1>1 DEF Cursor, Turn

(* What becomes of cursor c where turn t is started *)
Begun(c, d, t, inherited) ==
    /\ d.path = c.path /\ d.offset = c.offset + 1
    /\ d.last = c.last /\ d.awaiting = c.awaiting
    /\ c.active.turn = t => d.active = c.active
    /\ c.active.turn # t =>
        /\ d.active.turn = t /\ d.active.baseline = c.last /\ d.active.latest = c.last
        /\ d.active.inherited <=> t \in inherited
        /\ ~d.active.reset

LEMMA ProcessStart ==
    ASSUME NEW session, NEW st \in ScanState(session), NEW r \in Record, r.kind = "start"
    PROVE  /\ Process(session, st, r).events = st.events
           /\ Process(session, st, r).cursor \in Cursor
           /\ Begun(st.cursor, Process(session, st, r).cursor, r.turn, session.inherited)
<1>1. PICK c : c = st.cursor
  OBVIOUS
<1>2. c \in Cursor /\ r.turn \in AllTurns \cup {NoTurn} /\ st = [cursor |-> c, events |-> st.events]
  BY <1>1 DEF ScanState, Record
<1>3. PICK e : e = [c EXCEPT !.offset = @ + 1]
  OBVIOUS
<1>4. /\ e \in Cursor /\ e.path = c.path /\ e.offset = c.offset + 1 /\ e.last = c.last
      /\ e.awaiting = c.awaiting /\ e.active = c.active
  BY <1>2, <1>3 DEF Cursor
<1>5. Process(session, st, r) = [st EXCEPT !.cursor = Start(e, r.turn, session.inherited)]
  BY <1>1, <1>3 DEF Process
<1>6. Process(session, st, r) = [cursor |-> Start(e, r.turn, session.inherited), events |-> st.events]
  BY <1>2, <1>5
<1>7. CASE c.active.turn = r.turn
  <2>1. Start(e, r.turn, session.inherited) = e
    BY <1>4, <1>7 DEF Start
  <2>2. Begun(c, e, r.turn, session.inherited)
    BY <1>4, <1>7 DEF Begun
  <2>3. Process(session, st, r).events = st.events /\ Process(session, st, r).cursor = e
    BY <1>6, <2>1
  <2> QED  BY <1>1, <1>4, <2>2, <2>3
<1>8. CASE c.active.turn # r.turn
  <2>1. PICK a : a = [turn |-> r.turn, baseline |-> e.last, latest |-> e.last,
                      inherited |-> r.turn \in session.inherited, reset |-> FALSE]
    OBVIOUS
  <2>2. a \in Turn
    BY <1>2, <1>4, <2>1, CursorFacts DEF Turn
  <2>3. Start(e, r.turn, session.inherited) = [e EXCEPT !.active = a]
    BY <1>4, <1>8, <2>1 DEF Start
  <2>4. PICK d : d = [e EXCEPT !.active = a]
    OBVIOUS
  <2>5. /\ d \in Cursor /\ d.path = e.path /\ d.offset = e.offset /\ d.last = e.last
        /\ d.awaiting = e.awaiting /\ d.active = a
    BY <1>4, <2>2, <2>4 DEF Cursor, Turn
  <2>6. Process(session, st, r).events = st.events /\ Process(session, st, r).cursor = d
    BY <1>6, <2>3, <2>4
  <2>7. Begun(c, d, r.turn, session.inherited)
    <3>1. a.inherited <=> r.turn \in session.inherited
      BY <2>1
    <3>2. /\ a.turn = r.turn /\ a.baseline = c.last /\ a.latest = c.last /\ ~a.reset
      BY <1>4, <2>1
    <3> QED  BY <1>4, <1>8, <2>5, <3>1, <3>2 DEF Begun
  <2> QED  BY <1>1, <2>5, <2>6, <2>7
<1> QED  BY <1>7, <1>8

(* What becomes of cursor c with a total *)
Counted(c, d, total) ==
    /\ d.path = c.path /\ d.offset = c.offset + 1
    /\ d.last = total /\ ~d.awaiting
    /\ d.active.turn = c.active.turn /\ d.active.inherited = c.active.inherited
    /\ c.active.turn # NoTurn =>
        /\ d.active.latest = total
        /\ c.awaiting => d.active.baseline = total /\ d.active.reset = c.active.reset
        /\ ~c.awaiting => /\ d.active.baseline = c.active.baseline
                          /\ d.active.reset <=> c.active.reset \/ total < c.last

LEMMA ProcessTokens ==
    ASSUME NEW session, NEW st \in ScanState(session), NEW r \in Record, r.kind = "tokens"
    PROVE  /\ Process(session, st, r).events = st.events
           /\ Process(session, st, r).cursor \in Cursor
           /\ Counted(st.cursor, Process(session, st, r).cursor, r.total)
<1>1. PICK c : c = st.cursor
  OBVIOUS
<1>2. c \in Cursor /\ r.total \in 0 .. MaxTotal /\ st = [cursor |-> c, events |-> st.events]
  BY <1>1 DEF ScanState, Record
<1>3. PICK e : e = [c EXCEPT !.offset = @ + 1]
  OBVIOUS
<1>4. /\ e \in Cursor /\ e.path = c.path /\ e.offset = c.offset + 1 /\ e.last = c.last
      /\ e.awaiting = c.awaiting /\ e.active = c.active
  BY <1>2, <1>3 DEF Cursor
<1>5. Process(session, st, r) = [st EXCEPT !.cursor = UpdateTotals(e, r.total)]
  BY <1>1, <1>3 DEF Process
<1>6. Process(session, st, r) = [cursor |-> UpdateTotals(e, r.total), events |-> st.events]
  BY <1>2, <1>5
<1>7. PICK a : a = IF c.active.turn = NoTurn THEN c.active
                   ELSE IF c.awaiting THEN [c.active EXCEPT !.baseline = r.total, !.latest = r.total]
                   ELSE [c.active EXCEPT !.latest = r.total, !.reset = @ \/ r.total < c.last]
  OBVIOUS
<1>8. c.active \in Turn
  BY <1>2, CursorFacts
<1>9. /\ a \in Turn /\ a.turn = c.active.turn /\ a.inherited = c.active.inherited
      /\ c.active.turn # NoTurn =>
            /\ a.latest = r.total
            /\ c.awaiting => a.baseline = r.total /\ a.reset = c.active.reset
            /\ ~c.awaiting => /\ a.baseline = c.active.baseline
                              /\ a.reset = (c.active.reset \/ r.total < c.last)
  <2>1. CASE c.active.turn = NoTurn
    BY <1>7, <1>8, <2>1
  <2>2. CASE c.active.turn # NoTurn /\ c.awaiting
    <3>1. a = [c.active EXCEPT !.baseline = r.total, !.latest = r.total]
      BY <1>7, <2>2
    <3> QED  BY <1>2, <1>8, <2>2, <3>1 DEF Turn
  <2>3. CASE c.active.turn # NoTurn /\ ~c.awaiting
    <3>1. a = [c.active EXCEPT !.latest = r.total, !.reset = @ \/ r.total < c.last]
      BY <1>7, <2>3
    <3> QED  BY <1>2, <1>8, <2>3, <3>1 DEF Turn
  <2> QED  BY <2>1, <2>2, <2>3
<1>10. PICK d : d = [e EXCEPT !.last = r.total, !.awaiting = FALSE, !.active = a]
  OBVIOUS
<1>11. /\ d \in Cursor /\ d.path = e.path /\ d.offset = e.offset /\ d.last = r.total
       /\ d.awaiting = FALSE /\ d.active = a
  BY <1>2, <1>4, <1>9, <1>10 DEF Cursor, Turn
<1>12. UpdateTotals(e, r.total) = d
  <2>1. CASE c.awaiting
    BY <1>4, <1>7, <1>10, <2>1 DEF UpdateTotals, IsActive
  <2>2. CASE ~c.awaiting
    <3>1. UpdateTotals(e, r.total) = [e EXCEPT !.last = r.total, !.active = a]
      <4>1. CASE c.active.turn = NoTurn
        BY <1>4, <1>7, <2>2, <4>1 DEF UpdateTotals, IsActive
      <4>2. CASE c.active.turn # NoTurn
        <5>1. a = [e.active EXCEPT !.latest = r.total, !.reset = @ \/ r.total < e.last]
          BY <1>4, <1>7, <2>2, <4>2
        <5> QED  BY <1>4, <2>2, <4>2, <5>1 DEF UpdateTotals, IsActive
      <4> QED  BY <4>1, <4>2
    <3> QED  BY <1>2, <1>4, <1>10, <2>2, <3>1 DEF Cursor
  <2> QED  BY <2>1, <2>2
<1>13. Process(session, st, r).events = st.events /\ Process(session, st, r).cursor = d
  BY <1>6, <1>12
<1>14. Counted(c, d, r.total)
  BY <1>4, <1>9, <1>11 DEF Counted
<1> QED  BY <1>1, <1>11, <1>13, <1>14

(* What becomes of cursor c where a record ends turn t, and of the events *)
Finished(id, c, d, t, before, after) ==
    LET ends == c.active.turn # NoTurn /\ t \in {NoTurn, c.active.turn}
    IN  /\ d.path = c.path /\ d.offset = c.offset + 1
        /\ d.last = c.last /\ d.awaiting = c.awaiting
        /\ ends => d.active = NoActive
        /\ ~ends => d.active = c.active
        /\ ends /\ Reportable(c.active) => after = before \cup {Usage(id, c.active)}
        /\ ~ends \/ ~Reportable(c.active) => after = before

LEMMA ProcessDone ==
    ASSUME NEW session, NEW st \in ScanState(session), NEW r \in Record, r.kind = "done"
    PROVE  /\ Process(session, st, r).cursor \in Cursor
           /\ Finished(session.id, st.cursor, Process(session, st, r).cursor, r.turn,
                       st.events, Process(session, st, r).events)
<1>1. PICK c : c = st.cursor
  OBVIOUS
<1>2. c \in Cursor /\ st = [cursor |-> c, events |-> st.events]
  BY <1>1 DEF ScanState
<1>3. PICK e : e = [c EXCEPT !.offset = @ + 1]
  OBVIOUS
<1>4. /\ e \in Cursor /\ e.path = c.path /\ e.offset = c.offset + 1 /\ e.last = c.last
      /\ e.awaiting = c.awaiting /\ e.active = c.active
  BY <1>2, <1>3 DEF Cursor
<1>5. PICK ends \in BOOLEAN : ends = (c.active.turn # NoTurn /\ r.turn \in {NoTurn, c.active.turn})
  OBVIOUS
<1>6. Ends(e, r.turn) <=> ends
  BY <1>4, <1>5 DEF Ends, IsActive
<1>7. CASE ~ends
  <2>1. Process(session, st, r) = [st EXCEPT !.cursor = e]
    BY <1>1, <1>3, <1>6, <1>7 DEF Process
  <2>2. Process(session, st, r).cursor = e /\ Process(session, st, r).events = st.events
    BY <1>2, <2>1
  <2>3. Finished(session.id, c, e, r.turn, st.events, st.events)
    BY <1>4, <1>5, <1>7 DEF Finished
  <2> QED  BY <1>1, <1>4, <2>2, <2>3
<1>8. CASE ends
  <2>1. PICK d : d = [e EXCEPT !.active = NoActive]
    OBVIOUS
  <2>2. PICK E : E = IF Reportable(e.active) THEN st.events \cup {Usage(session.id, e.active)}
                     ELSE st.events
    OBVIOUS
  <2>3. Process(session, st, r) = [cursor |-> d, events |-> E]
    BY <1>1, <1>3, <1>6, <1>8, <2>1, <2>2 DEF Process
  <2>4. Process(session, st, r).cursor = d /\ Process(session, st, r).events = E
    BY <2>3
  <2>5. NoActive \in Turn
    BY CodexAssumption DEF NoActive, Turn
  <2>6. /\ d \in Cursor /\ d.path = e.path /\ d.offset = e.offset /\ d.last = e.last
        /\ d.awaiting = e.awaiting /\ d.active = NoActive
    BY <1>4, <2>1, <2>5 DEF Cursor, Turn
  <2>7. Finished(session.id, c, d, r.turn, st.events, E)
    BY <1>4, <1>5, <1>8, <2>2, <2>6 DEF Finished
  <2> QED  BY <1>1, <2>4, <2>6, <2>7
<1> QED  BY <1>5, <1>7, <1>8

-----------------------------------------------------------------------------
(* A cursor that goes over one more record knows as much of the file. *)
LEMMA KnownType ==
    ASSUME NEW f \in File, NEW c \in Cursor, Known(c, f), c.active.turn # NoTurn
    PROVE  /\ c.offset \in 0 .. Len(f) /\ c.offset + 1 \in 1 .. Len(f) + 1
           /\ StartedBefore(f, c.active.turn, c.offset + 1)
           /\ Used(f, c.active.turn, c.offset) \in Nat
<1>1. c.offset \in 0 .. Len(f) /\ c.offset + 1 \in 1 .. Len(f) + 1
  BY CursorFacts DEF Known, File
<1>2. StartedBefore(f, c.active.turn, c.offset + 1)
  BY <1>1, LastStarted DEF Known
<1> QED  BY <1>1, <1>2, UsedNat

LEMMA CursorStepStart ==
    ASSUME NEW f \in File, WellFormed(f), NEW session, NEW st \in ScanState(session),
           Known(st.cursor, f), st.cursor.offset < Len(f),
           f[st.cursor.offset + 1].kind = "start"
    PROVE  LET d == Process(session, st, f[st.cursor.offset + 1]).cursor
           IN  Known(d, f) /\ (Exact(st.cursor, f) => Exact(d, f))
<1>1. PICK c : c = st.cursor
  OBVIOUS
<1>2. c \in Cursor /\ Known(c, f)
  BY <1>1 DEF ScanState
<1>3. PICK n \in Nat : n = c.offset
  BY <1>2, CursorFacts
<1>4. /\ n \in 0 .. Len(f) - 1 /\ n + 1 \in 1 .. Len(f) /\ n + 1 \in DOMAIN f /\ Len(f) \in Nat
      /\ n + 1 \in 0 .. Len(f) /\ (n + 1) + 1 \in 1 .. Len(f) + 1
  BY <1>1, <1>3 DEF File
<1>5. PICK r \in Record : r = f[n + 1]
  BY <1>4, RecordFacts
<1>6. r.kind = "start"
  BY <1>1, <1>3, <1>5
<1>7. PICK d : d = Process(session, st, r).cursor
  OBVIOUS
<1>8. /\ d \in Cursor /\ d.path = c.path /\ d.offset = n + 1
      /\ d.last = c.last /\ d.awaiting = c.awaiting
      /\ c.active.turn = r.turn => d.active = c.active
      /\ c.active.turn # r.turn =>
            /\ d.active.turn = r.turn /\ d.active.baseline = c.last /\ d.active.latest = c.last
            /\ ~d.active.reset /\ d.active.reset \in BOOLEAN
  <2>1. d \in Cursor /\ Begun(c, d, r.turn, session.inherited)
    BY <1>1, <1>6, <1>7, ProcessStart
  <2> QED  BY <1>3, <2>1, CursorFacts DEF Begun
<1>9. LastStart(f, (n + 1) + 1) = r.turn /\ TotalBefore(f, (n + 1) + 1) = TotalBefore(f, n + 1)
  BY <1>4, <1>5, <1>6, LastStartStep, TotalStep
<1>10. r.turn # NoTurn /\ (\/ LastStart(f, n + 1) = r.turn
                           \/ \A j \in 1 .. n : f[j].turn # r.turn)
  <2>1. (n + 1) - 1 = n
    BY <1>3
  <2> QED  BY <1>4, <1>5, <1>6, <2>1 DEF WellFormed
<1>11. StartedBefore(f, r.turn, (n + 1) + 1)
  <2>1. Starts(f, r.turn, n + 1) /\ n + 1 \in 1 .. (n + 1) + 1 - 1
    BY <1>3, <1>5, <1>6 DEF Starts
  <2> QED  BY <2>1 DEF StartedBefore
<1>12. Used(f, r.turn, n + 1) \in Nat
  BY <1>4, <1>11, UsedNat
<1>13. ~d.awaiting => d.last = TotalBefore(f, d.offset + 1)
  BY <1>2, <1>3, <1>8, <1>9 DEF Known
<1>14. d.offset <= Len(f)
  BY <1>4, <1>8
<1>15. CASE c.active.turn = r.turn
  <2>1. d.active = c.active /\ d.active.turn = r.turn
    BY <1>8, <1>15
  <2>2. StartedBefore(f, r.turn, n + 1)
    BY <1>2, <1>3, <1>10, <1>15, KnownType
  <2>3. Used(f, r.turn, n + 1) = Used(f, r.turn, n) /\ (ResetIn(f, r.turn, n + 1) <=> ResetIn(f, r.turn, n))
    BY <1>4, <1>5, <1>6, <2>2, UsedSame
  <2>4. Known(d, f)
    <3>1. /\ c.active.latest = c.last
          /\ c.active.reset \/ c.active.latest - c.active.baseline <= Used(f, r.turn, n)
      BY <1>2, <1>3, <1>10, <1>15 DEF Known
    <3> QED  BY <1>8, <1>9, <1>13, <1>14, <2>1, <2>3, <3>1 DEF Known
  <2>5. Exact(c, f) => Exact(d, f)
    <3>1. SUFFICES ASSUME Exact(c, f) PROVE Exact(d, f)
      OBVIOUS
    <3>2. /\ ~c.awaiting /\ c.active.reset = ResetIn(f, r.turn, n)
          /\ ~c.active.reset => c.active.latest - c.active.baseline = Used(f, r.turn, n)
      BY <1>3, <1>10, <1>15, <3>1 DEF Exact
    <3>3. ResetIn(f, r.turn, n + 1) = ResetIn(f, r.turn, n)
      BY <2>3 DEF ResetIn
    <3> QED  BY <1>8, <1>9, <2>1, <2>3, <3>2, <3>3 DEF Exact
  <2> QED  BY <1>1, <1>3, <1>5, <1>7, <2>4, <2>5
<1>16. CASE c.active.turn # r.turn
  <2>1. PICK a : a = d.active
    OBVIOUS
  <2>2. /\ a.turn = r.turn /\ a.baseline = c.last /\ a.latest = c.last /\ a.reset = FALSE
        /\ c.last \in Int
    BY <1>2, <1>8, <1>16, <2>1, CursorFacts
  <2>3. a.latest - a.baseline = 0
    BY <2>2
  <2>4. Known(d, f)
    BY <1>8, <1>9, <1>12, <1>13, <1>14, <2>1, <2>2, <2>3 DEF Known
  <2>5. Exact(c, f) => Exact(d, f)
    <3>1. SUFFICES ASSUME Exact(c, f) PROVE Exact(d, f)
      OBVIOUS
    <3>2. ~c.awaiting /\ c.active.turn = LastStart(f, n + 1)
      BY <1>3, <3>1 DEF Exact
    <3>3. \A j \in 1 .. (n + 1) - 1 : f[j].turn # r.turn
      BY <1>3, <1>10, <1>16, <3>2
    <3>4. Used(f, r.turn, n + 1) = 0 /\ ~ ResetIn(f, r.turn, n + 1)
      BY <1>4, <1>5, <1>6, <3>3, UsedFresh DEF Starts
    <3>5. ResetIn(f, r.turn, n + 1) = FALSE
      BY <3>4 DEF ResetIn
    <3> QED  BY <1>8, <1>9, <2>1, <2>2, <2>3, <3>2, <3>4, <3>5 DEF Exact
  <2> QED  BY <1>1, <1>3, <1>5, <1>7, <2>4, <2>5
<1> QED  BY <1>15, <1>16

LEMMA CursorStepTokens ==
    ASSUME NEW f \in File, WellFormed(f), NEW session, NEW st \in ScanState(session),
           Known(st.cursor, f), st.cursor.offset < Len(f),
           f[st.cursor.offset + 1].kind = "tokens"
    PROVE  LET d == Process(session, st, f[st.cursor.offset + 1]).cursor
           IN  Known(d, f) /\ (Exact(st.cursor, f) => Exact(d, f))
<1>1. PICK c : c = st.cursor
  OBVIOUS
<1>2. c \in Cursor /\ Known(c, f)
  BY <1>1 DEF ScanState
<1>3. PICK n \in Nat : n = c.offset
  BY <1>2, CursorFacts
<1>4. /\ n \in 0 .. Len(f) - 1 /\ n + 1 \in 1 .. Len(f) /\ n + 1 \in DOMAIN f /\ Len(f) \in Nat
      /\ n + 1 \in 0 .. Len(f) /\ (n + 1) + 1 \in 1 .. Len(f) + 1 /\ n + 1 \in 1 .. Len(f) + 1
  BY <1>1, <1>3 DEF File
<1>5. PICK r \in Record : r = f[n + 1] /\ r.total \in Int
  BY <1>4, RecordFacts
<1>6. r.kind = "tokens"
  BY <1>1, <1>3, <1>5
<1>7. PICK d : d = Process(session, st, r).cursor
  OBVIOUS
<1>8. /\ d \in Cursor /\ d.path = c.path /\ d.offset = n + 1
      /\ d.last = r.total /\ ~d.awaiting
      /\ d.active.turn = c.active.turn /\ d.active.inherited = c.active.inherited
      /\ c.active.turn # NoTurn =>
            /\ d.active.latest = r.total
            /\ c.awaiting => d.active.baseline = r.total /\ d.active.reset = c.active.reset
            /\ ~c.awaiting => /\ d.active.baseline = c.active.baseline
                              /\ d.active.reset <=> c.active.reset \/ r.total < c.last
  <2>1. d \in Cursor /\ Counted(c, d, r.total)
    BY <1>1, <1>6, <1>7, ProcessTokens
  <2> QED  BY <1>3, <2>1 DEF Counted
<1>9. LastStart(f, (n + 1) + 1) = LastStart(f, n + 1) /\ TotalBefore(f, (n + 1) + 1) = r.total
  BY <1>4, <1>5, <1>6, LastStartStep, TotalStep
<1>10. d.last = TotalBefore(f, d.offset + 1) /\ d.offset <= Len(f)
  BY <1>4, <1>8, <1>9
<1>11. CASE c.active.turn = NoTurn
  <2>1. Known(d, f)
    BY <1>8, <1>10, <1>11 DEF Known
  <2>2. Exact(c, f) => Exact(d, f)
    BY <1>3, <1>8, <1>9, <1>11 DEF Exact
  <2> QED  BY <1>1, <1>3, <1>5, <1>7, <2>1, <2>2
<1>12. CASE c.active.turn # NoTurn
  <2>1. PICK t : t = c.active.turn
    OBVIOUS
  <2>2. t = LastStart(f, n + 1) /\ t # NoTurn /\ StartedBefore(f, t, n + 1) /\ Used(f, t, n) \in Nat
    BY <1>2, <1>3, <1>12, <2>1, KnownType DEF Known
  <2>3. PICK g \in Int : g = r.total - TotalBefore(f, n + 1)
    BY <1>4, <1>5, TotalType
  <2>4. /\ Used(f, t, n + 1) = Used(f, t, n) + (IF g > 0 THEN g ELSE 0)
        /\ ResetIn(f, t, n + 1) <=> ResetIn(f, t, n) \/ g < 0
    BY <1>4, <1>5, <1>6, <2>2, <2>3, UsedMore
  <2>5. Used(f, t, n + 1) \in Nat
    BY <2>2, <2>4
  <2>6. PICK a, b, l \in Int : a = c.active.latest /\ b = c.active.baseline /\ l = c.last
    BY <1>2, CursorFacts
  <2>7. c.active.reset \in BOOLEAN /\ c.awaiting \in BOOLEAN
    BY <1>2, CursorFacts
  <2>8. a = l /\ (c.active.reset \/ a - b <= Used(f, t, n)) /\ (~c.awaiting => l = TotalBefore(f, n + 1))
    BY <1>2, <1>3, <1>12, <2>1, <2>6 DEF Known
  <2>9. CASE c.awaiting
    <3>1. d.active.latest - d.active.baseline = 0
      BY <1>5, <1>8, <1>12, <2>9
    <3>2. d.active.latest = d.last /\ d.active.turn = t
      BY <1>8, <1>12, <2>1
    <3>3. Known(d, f)
      BY <1>8, <1>9, <1>10, <2>2, <2>5, <3>1, <3>2 DEF Known
    <3>4. ~Exact(c, f)
      BY <2>9 DEF Exact
    <3> QED  BY <1>1, <1>3, <1>5, <1>7, <3>3, <3>4
  <2>10. CASE ~c.awaiting
    <3>1. /\ d.active.latest = r.total /\ d.active.baseline = b /\ d.active.turn = t
          /\ (d.active.reset <=> c.active.reset \/ r.total < l) /\ l + g = r.total
      BY <1>5, <1>8, <1>12, <2>1, <2>3, <2>6, <2>8, <2>10
    <3>2. r.total < l <=> g < 0
      BY <1>5, <3>1
    <3>3. d.active.reset \/ d.active.latest - d.active.baseline <= Used(f, t, n + 1)
      <4>1. CASE c.active.reset \/ r.total < l
        BY <3>1, <4>1
      <4>2. CASE ~(c.active.reset \/ r.total < l)
        <5>1. a - b <= Used(f, t, n) /\ ~(g < 0)
          BY <2>8, <3>2, <4>2
        <5>2. r.total - b <= Used(f, t, n + 1)
          BY <1>5, <2>2, <2>4, <2>8, <3>1, <5>1
        <5> QED  BY <3>1, <5>2
      <4> QED  BY <4>1, <4>2
    <3>4. Known(d, f)
      BY <1>8, <1>9, <1>10, <2>2, <3>1, <3>3 DEF Known
    <3>5. Exact(c, f) => Exact(d, f)
      <4>1. SUFFICES ASSUME Exact(c, f) PROVE Exact(d, f)
        OBVIOUS
      <4>2. c.active.reset = ResetIn(f, t, n) /\ (~c.active.reset => a - b = Used(f, t, n))
        BY <1>3, <1>12, <2>1, <2>6, <4>1 DEF Exact
      <4>3. d.active.reset <=> ResetIn(f, t, n + 1)
        BY <2>4, <3>1, <3>2, <4>2
      <4>4. d.active.reset = ResetIn(f, t, n + 1)
        <5>1. d.active.reset \in BOOLEAN
          BY <1>8, CursorFacts
        <5>2. ResetIn(f, t, n + 1) \in BOOLEAN
          BY DEF ResetIn
        <5> QED  BY <4>3, <5>1, <5>2
      <4>5. ~d.active.reset => d.active.latest - d.active.baseline = Used(f, t, n + 1)
        <5>1. SUFFICES ASSUME ~d.active.reset
                       PROVE  d.active.latest - d.active.baseline = Used(f, t, n + 1)
          OBVIOUS
        <5>2. ~c.active.reset /\ ~(r.total < l)
          BY <3>1, <5>1
        <5>3. a - b = Used(f, t, n) /\ ~(g < 0)
          BY <3>2, <4>2, <5>2
        <5>4. r.total - b = Used(f, t, n + 1)
          BY <1>5, <2>2, <2>4, <2>8, <3>1, <5>3
        <5> QED  BY <3>1, <5>4
      <4> QED  BY <1>8, <1>9, <2>2, <3>1, <4>4, <4>5 DEF Exact
    <3> QED  BY <1>1, <1>3, <1>5, <1>7, <3>4, <3>5
  <2> QED  BY <2>7, <2>9, <2>10
<1> QED  BY <1>11, <1>12

LEMMA CursorStepDone ==
    ASSUME NEW f \in File, WellFormed(f), NEW session, NEW st \in ScanState(session),
           Known(st.cursor, f), st.cursor.offset < Len(f),
           f[st.cursor.offset + 1].kind = "done"
    PROVE  LET d == Process(session, st, f[st.cursor.offset + 1]).cursor
           IN  /\ Known(d, f) /\ (Exact(st.cursor, f) => Exact(d, f))
               /\ d.active.turn = NoTurn
               /\ Exact(st.cursor, f) => /\ st.cursor.active.turn # NoTurn
                                         /\ f[st.cursor.offset + 1].turn \in {NoTurn, st.cursor.active.turn}
<1>1. PICK c : c = st.cursor
  OBVIOUS
<1>2. c \in Cursor /\ Known(c, f)
  BY <1>1 DEF ScanState
<1>3. PICK n \in Nat : n = c.offset
  BY <1>2, CursorFacts
<1>4. /\ n \in 0 .. Len(f) - 1 /\ n + 1 \in 1 .. Len(f) /\ n + 1 \in DOMAIN f /\ Len(f) \in Nat
  BY <1>1, <1>3 DEF File
<1>5. PICK r \in Record : r = f[n + 1]
  BY <1>4, RecordFacts
<1>6. r.kind = "done"
  BY <1>1, <1>3, <1>5
<1>7. PICK d : d = Process(session, st, r).cursor
  OBVIOUS
<1>8. /\ d \in Cursor /\ d.offset = n + 1 /\ d.last = c.last /\ d.awaiting = c.awaiting
      /\ c.active.turn # NoTurn /\ r.turn \in {NoTurn, c.active.turn} => d.active = NoActive
      /\ ~(c.active.turn # NoTurn /\ r.turn \in {NoTurn, c.active.turn}) => d.active = c.active
  <2>1. d \in Cursor /\ Finished(session.id, c, d, r.turn, st.events, Process(session, st, r).events)
    BY <1>1, <1>6, <1>7, ProcessDone
  <2> QED  BY <1>3, <2>1 DEF Finished
<1>9. LastStart(f, (n + 1) + 1) = NoTurn /\ TotalBefore(f, (n + 1) + 1) = TotalBefore(f, n + 1)
  BY <1>4, <1>5, <1>6, LastStartStep, TotalStep
<1>10. LastStart(f, n + 1) # NoTurn /\ r.turn \in {NoTurn, LastStart(f, n + 1)}
  BY <1>4, <1>5, <1>6 DEF WellFormed
<1>11. d.active.turn = NoTurn
  <2>1. c.active.turn # NoTurn => c.active.turn = LastStart(f, n + 1)
    BY <1>2, <1>3 DEF Known
  <2>2. NoActive.turn = NoTurn
    BY DEF NoActive
  <2> QED  BY <1>8, <1>10, <2>1, <2>2
<1>12. Known(d, f)
  BY <1>2, <1>3, <1>4, <1>8, <1>9, <1>11 DEF Known
<1>13. Exact(c, f) => /\ Exact(d, f)
                      /\ c.active.turn # NoTurn /\ r.turn \in {NoTurn, c.active.turn}
  BY <1>3, <1>8, <1>9, <1>10, <1>11 DEF Exact
<1> QED  BY <1>1, <1>3, <1>5, <1>7, <1>11, <1>12, <1>13

-----------------------------------------------------------------------------
(* What is true of a scan from cursor c0 after n records: of its cursor, of   *)
(* its events, and of the turns that ended on the way.                      *)
Inherits(session, c0, t, inherited) ==
    IF inherited THEN t \in session.inherited \/ (c0.active.turn = t /\ c0.active.inherited)
    ELSE t \notin session.inherited \/ (c0.active.turn = t /\ ~c0.active.inherited)

ScanCursor(session, c0, f, n, c) ==
    /\ c.offset = n /\ c.path = c0.path
    /\ Known(c, f) /\ (Exact(c0, f) => Exact(c, f))
    /\ c.active.turn # NoTurn =>
        Inherits(session, c0, c.active.turn, c.active.inherited)

ScanEvent(session, c0, f, n, e) ==
    /\ \E end \in c0.offset + 1 .. n :
        /\ EndsAt(f, e.turn, end)
        /\ e.tokens <= Used(f, e.turn, end)
        /\ Exact(c0, f) => e.tokens = Used(f, e.turn, end) /\ ~ResetIn(f, e.turn, end)
    /\ e.turn \notin session.inherited \/ (c0.active.turn = e.turn /\ ~c0.active.inherited)

ScanEvents(session, c0, f, n, E) ==
    /\ \A e \in E : ScanEvent(session, c0, f, n, e)
    /\ \A e, g \in E : e.turn = g.turn => e = g

ScanReports(session, c0, f, n, E) ==
    Exact(c0, f) =>
        \A t \in AllTurns, end \in c0.offset + 1 .. n :
            /\ EndsAt(f, t, end) /\ ~ResetIn(f, t, end) /\ Used(f, t, end) > 0
            /\ t \notin session.inherited /\ ~(c0.active.turn = t /\ c0.active.inherited)
            => \E e \in E : e.turn = t

ScanInv(session, c0, f, n, st) ==
    /\ st \in ScanState(session)
    /\ ScanCursor(session, c0, f, n, st.cursor)
    /\ ScanEvents(session, c0, f, n, st.events)
    /\ ScanReports(session, c0, f, n, st.events)

LEMMA ScanInvBase ==
    ASSUME NEW f \in File, NEW session, NEW c0 \in Cursor, Known(c0, f)
    PROVE  ScanInv(session, c0, f, c0.offset, Began(c0))
<1>1. Began(c0).cursor = c0 /\ Began(c0).events = {} /\ Began(c0) \in ScanState(session)
  BY DEF Began, ScanState
<1>2. ScanCursor(session, c0, f, c0.offset, c0)
  <2>1. c0.active.turn # NoTurn => Inherits(session, c0, c0.active.turn, c0.active.inherited)
    BY DEF Inherits
  <2> QED  BY <2>1 DEF ScanCursor
<1>3. ScanEvents(session, c0, f, c0.offset, {})
  BY DEF ScanEvents
<1>4. ScanReports(session, c0, f, c0.offset, {})
  <2>1. c0.offset + 1 .. c0.offset = {}
    BY CursorFacts
  <2> QED  BY <2>1 DEF ScanReports
<1> QED  BY <1>1, <1>2, <1>3, <1>4 DEF ScanInv

(* A record that ends no turn *)
LEMMA ScanInvQuiet ==
    ASSUME NEW f \in File, WellFormed(f), NEW session, NEW c0 \in Cursor, Known(c0, f),
           NEW n \in Nat, c0.offset <= n, n < Len(f), NEW st, ScanInv(session, c0, f, n, st),
           f[n + 1].kind # "done"
    PROVE  ScanInv(session, c0, f, n + 1, Process(session, st, f[n + 1]))
<1>1. PICK r : r = f[n + 1]
  OBVIOUS
<1>2. n + 1 \in 1 .. Len(f)
  BY DEF File
<1>3. r \in Record /\ r.kind \in {"start", "tokens"}
  BY <1>1, <1>2, RecordFacts
<1>4. PICK c : c = st.cursor
  OBVIOUS
<1>5. st \in ScanState(session) /\ c \in Cursor /\ c.offset = n /\ c.path = c0.path /\ Known(c, f)
  BY <1>4 DEF ScanInv, ScanCursor, ScanState
<1>6. PICK p : p = Process(session, st, r)
  OBVIOUS
<1>7. PICK d : d = p.cursor
  OBVIOUS
<1>8. Known(d, f) /\ (Exact(c, f) => Exact(d, f))
  BY <1>1, <1>3, <1>4, <1>5, <1>6, <1>7, CursorStepStart, CursorStepTokens
<1>9. d \in Cursor /\ d.path = c.path /\ d.offset = n + 1 /\ p.events = st.events
  <2>1. CASE r.kind = "start"
    BY <1>3, <1>4, <1>5, <1>6, <1>7, <2>1, ProcessStart DEF Begun
  <2>2. CASE r.kind = "tokens"
    BY <1>3, <1>4, <1>5, <1>6, <1>7, <2>2, ProcessTokens DEF Counted
  <2> QED  BY <1>3, <2>1, <2>2
<1>10. p \in ScanState(session)
  <2>1. Process(session, st, r) = [cursor |-> d, events |-> st.events]
    <3>1. DOMAIN st = {"cursor", "events"}
      BY <1>5 DEF ScanState
    <3>2. PICK e : e = [c EXCEPT !.offset = @ + 1]
      OBVIOUS
    <3>3. \E x : Process(session, st, r) = [st EXCEPT !.cursor = x]
      <4>1. CASE r.kind = "start"
        BY <4>1 DEF Process
      <4>2. CASE r.kind = "tokens"
        BY <4>2 DEF Process
      <4> QED  BY <1>3, <4>1, <4>2
    <3>4. PICK x : p = [st EXCEPT !.cursor = x]
      BY <1>6, <3>3
    <3>5. p = [cursor |-> x, events |-> st.events]
      BY <1>5, <3>4 DEF ScanState
    <3> QED  BY <1>6, <1>7, <3>5
  <2> QED  BY <1>5, <1>6, <1>9, <2>1 DEF ScanState
<1>11. ScanCursor(session, c0, f, n + 1, d)
  <2>1. /\ Exact(c0, f) => Exact(c, f)
        /\ c.active.turn # NoTurn =>
            Inherits(session, c0, c.active.turn, c.active.inherited)
    BY <1>4 DEF ScanInv, ScanCursor
  <2>2. \/ d.active.turn = c.active.turn /\ d.active.inherited = c.active.inherited
        \/ d.active.turn = r.turn /\ (d.active.inherited <=> r.turn \in session.inherited)
    <3>1. CASE r.kind = "start"
      <4>1. Begun(c, d, r.turn, session.inherited)
        BY <1>3, <1>4, <1>5, <1>6, <1>7, <3>1, ProcessStart
      <4> QED  BY <4>1 DEF Begun
    <3>2. CASE r.kind = "tokens"
      BY <1>3, <1>4, <1>5, <1>6, <1>7, <3>2, ProcessTokens DEF Counted
    <3> QED  BY <1>3, <3>1, <3>2
  <2>3. d.active.turn # NoTurn =>
            Inherits(session, c0, d.active.turn, d.active.inherited)
    <3>1. (d.active.inherited <=> r.turn \in session.inherited)
                => Inherits(session, c0, r.turn, d.active.inherited)
      BY DEF Inherits
    <3> QED  BY <2>1, <2>2, <3>1
  <2> QED  BY <1>5, <1>8, <1>9, <2>1, <2>3 DEF ScanCursor
<1>12. ScanEvents(session, c0, f, n + 1, p.events)
  <2>1. \A e : ScanEvent(session, c0, f, n, e) => ScanEvent(session, c0, f, n + 1, e)
    <3>1. c0.offset + 1 .. n \subseteq c0.offset + 1 .. n + 1
      BY CursorFacts
    <3> QED  BY <3>1 DEF ScanEvent
  <2> QED  BY <1>9, <2>1 DEF ScanInv, ScanEvents
<1>13. ScanReports(session, c0, f, n + 1, p.events)
  <2>1. \A t : ~EndsAt(f, t, n + 1)
    BY DEF EndsAt
  <2>2. \A end \in c0.offset + 1 .. n + 1 : end = n + 1 \/ end \in c0.offset + 1 .. n
    BY CursorFacts
  <2>3. ScanReports(session, c0, f, n, st.events)
    BY DEF ScanInv
  <2> QED  BY <1>9, <2>1, <2>2, <2>3 DEF ScanReports
<1> QED  BY <1>1, <1>6, <1>7, <1>10, <1>11, <1>12, <1>13 DEF ScanInv

(* A record that ends one *)
LEMMA ScanInvDone ==
    ASSUME NEW f \in File, WellFormed(f), NEW session, NEW c0 \in Cursor, Known(c0, f),
           NEW n \in Nat, c0.offset <= n, n < Len(f), NEW st, ScanInv(session, c0, f, n, st),
           f[n + 1].kind = "done"
    PROVE  ScanInv(session, c0, f, n + 1, Process(session, st, f[n + 1]))
<1>1. PICK r : r = f[n + 1]
  OBVIOUS
<1>2. /\ n + 1 \in 1 .. Len(f) /\ n + 1 \in DOMAIN f /\ n \in 0 .. Len(f) - 1 /\ n \in 0 .. Len(f)
      /\ Len(f) \in Nat
  BY DEF File
<1>3. r \in Record /\ r.kind = "done"
  BY <1>1, <1>2, RecordFacts
<1>4. PICK c : c = st.cursor
  OBVIOUS
<1>5. st \in ScanState(session) /\ c \in Cursor /\ c.offset = n /\ c.path = c0.path /\ Known(c, f)
  BY <1>4 DEF ScanInv, ScanCursor, ScanState
<1>6. PICK p : p = Process(session, st, r)
  OBVIOUS
<1>7. PICK d : d = p.cursor
  OBVIOUS
<1>8. /\ Known(d, f) /\ (Exact(c, f) => Exact(d, f))
      /\ d.active.turn = NoTurn
      /\ Exact(c, f) => c.active.turn # NoTurn /\ r.turn \in {NoTurn, c.active.turn}
  BY <1>1, <1>3, <1>4, <1>5, <1>6, <1>7, CursorStepDone
<1>9. PICK ends \in BOOLEAN : ends = (c.active.turn # NoTurn /\ r.turn \in {NoTurn, c.active.turn})
  OBVIOUS
<1>10. PICK u : u = Usage(session.id, c.active)
  OBVIOUS
<1>11. /\ d \in Cursor /\ d.path = c.path /\ d.offset = n + 1
       /\ ends /\ Reportable(c.active) => p.events = st.events \cup {u}
       /\ ~ends \/ ~Reportable(c.active) => p.events = st.events
  <2>1. d \in Cursor /\ Finished(session.id, c, d, r.turn, st.events, p.events)
    BY <1>3, <1>4, <1>5, <1>6, <1>7, ProcessDone
  <2> QED  BY <1>5, <1>9, <1>10, <2>1 DEF Finished
<1>12. PICK t : t = c.active.turn
  OBVIOUS
<1>13. t # NoTurn => /\ t \in AllTurns /\ t = LastStart(f, n + 1)
                     /\ StartedBefore(f, t, n + 1) /\ Used(f, t, n) \in Nat
                     /\ Used(f, t, n + 1) = Used(f, t, n)
                     /\ (ResetIn(f, t, n + 1) <=> ResetIn(f, t, n))
  <2>1. SUFFICES ASSUME t # NoTurn
                 PROVE  /\ t \in AllTurns /\ t = LastStart(f, n + 1)
                        /\ StartedBefore(f, t, n + 1) /\ Used(f, t, n) \in Nat
                        /\ Used(f, t, n + 1) = Used(f, t, n)
                        /\ (ResetIn(f, t, n + 1) <=> ResetIn(f, t, n))
    OBVIOUS
  <2>2. t \in AllTurns
    BY <1>5, <1>12, <2>1, CursorFacts
  <2>3. StartedBefore(f, t, n + 1) /\ Used(f, t, n) \in Nat
    BY <1>5, <1>12, <2>1, KnownType
  <2>4. t = LastStart(f, n + 1)
    BY <1>5, <1>12, <2>1 DEF Known
  <2>5. Used(f, t, n + 1) = Used(f, t, n) /\ (ResetIn(f, t, n + 1) <=> ResetIn(f, t, n))
    BY <1>1, <1>2, <1>3, <2>3, UsedSame
  <2> QED  BY <2>2, <2>3, <2>4, <2>5
<1>14. ends => EndsAt(f, t, n + 1)
  BY <1>1, <1>3, <1>9, <1>12, <1>13 DEF EndsAt
<1>15. /\ c.active.baseline \in 0 .. MaxTotal /\ c.active.latest \in 0 .. MaxTotal
       /\ c.active.inherited \in BOOLEAN /\ c.active.reset \in BOOLEAN /\ MaxTotal \in Nat
  BY <1>5, CursorFacts, CodexAssumption
<1>16. ends /\ Reportable(c.active) =>
            /\ u \in Event(session) /\ u.turn = t /\ u.tokens = c.active.latest - c.active.baseline
            /\ ~c.active.reset /\ ~c.active.inherited
  <2>1. SUFFICES ASSUME ends, Reportable(c.active)
                 PROVE  /\ u \in Event(session) /\ u.turn = t
                        /\ u.tokens = c.active.latest - c.active.baseline
                        /\ ~c.active.reset /\ ~c.active.inherited
    OBVIOUS
  <2>2. t \in AllTurns
    BY <1>9, <1>12, <1>13, <2>1
  <2>3. c.active.latest - c.active.baseline \in 1 .. MaxTotal
    BY <1>15, <2>1 DEF Reportable
  <2>4. u = [session |-> session.id, turn |-> t, tokens |-> c.active.latest - c.active.baseline]
    BY <1>10, <1>12 DEF Usage
  <2> QED  BY <2>1, <2>2, <2>3, <2>4 DEF Reportable, Event
<1>17. PICK O \in Nat : O = c0.offset
  BY CursorFacts
<1>18. /\ Exact(c0, f) => Exact(c, f)
       /\ c.active.turn # NoTurn =>
            Inherits(session, c0, c.active.turn, c.active.inherited)
  BY <1>4 DEF ScanInv, ScanCursor
<1>19. p \in ScanState(session)
  <2>1. \E x, E : p = [cursor |-> x, events |-> E]
    <3>1. CASE Ends([c EXCEPT !.offset = @ + 1], r.turn)
      BY <1>3, <1>4, <1>6, <3>1 DEF Process
    <3>2. CASE ~Ends([c EXCEPT !.offset = @ + 1], r.turn)
      <4>1. p = [st EXCEPT !.cursor = [c EXCEPT !.offset = @ + 1]]
        BY <1>3, <1>4, <1>6, <3>2 DEF Process
      <4>2. p = [cursor |-> [c EXCEPT !.offset = @ + 1], events |-> st.events]
        BY <1>5, <4>1 DEF ScanState
      <4> QED  BY <4>2
    <3> QED  BY <3>1, <3>2
  <2>2. p = [cursor |-> d, events |-> p.events]
    BY <1>7, <2>1
  <2>3. p.events \subseteq Event(session)
    BY <1>5, <1>11, <1>16 DEF ScanState
  <2> QED  BY <1>11, <2>2, <2>3 DEF ScanState
<1>20. ScanCursor(session, c0, f, n + 1, d)
  BY <1>5, <1>8, <1>11, <1>18 DEF ScanCursor
<1>21. ScanEvents(session, c0, f, n, st.events)
  BY DEF ScanInv
<1>22. \A e : ScanEvent(session, c0, f, n, e) => ScanEvent(session, c0, f, n + 1, e)
  <2>1. c0.offset + 1 .. n \subseteq c0.offset + 1 .. n + 1
    BY <1>17
  <2> QED  BY <2>1 DEF ScanEvent
<1>23. ends /\ Reportable(c.active) =>
            /\ ScanEvent(session, c0, f, n + 1, u)
            /\ \A e \in st.events : e.turn # t
  <2>1. SUFFICES ASSUME ends, Reportable(c.active)
                 PROVE  ScanEvent(session, c0, f, n + 1, u) /\ \A e \in st.events : e.turn # t
    OBVIOUS
  <2>2. t # NoTurn /\ EndsAt(f, t, n + 1)
    BY <1>9, <1>12, <1>14, <2>1
  <2>3. u.tokens <= Used(f, t, n + 1)
    <3>1. c.active.latest - c.active.baseline <= Used(f, t, n)
      BY <1>5, <1>12, <1>16, <2>1, <2>2 DEF Known
    <3> QED  BY <1>13, <1>16, <2>1, <2>2, <3>1
  <2>4. Exact(c0, f) => u.tokens = Used(f, t, n + 1) /\ ~ResetIn(f, t, n + 1)
    <3>1. SUFFICES ASSUME Exact(c, f)
                   PROVE  u.tokens = Used(f, t, n + 1) /\ ~ResetIn(f, t, n + 1)
      BY <1>18
    <3>2. c.active.reset = ResetIn(f, t, n) /\ c.active.latest - c.active.baseline = Used(f, t, n)
      BY <1>5, <1>12, <1>16, <2>1, <2>2, <3>1 DEF Exact
    <3> QED  BY <1>13, <1>16, <2>1, <2>2, <3>2
  <2>5. t \notin session.inherited \/ (c0.active.turn = t /\ ~c0.active.inherited)
    BY <1>12, <1>16, <1>18, <2>1, <2>2 DEF Inherits
  <2>6. n + 1 \in c0.offset + 1 .. n + 1
    BY <1>17
  <2>7. ScanEvent(session, c0, f, n + 1, u)
    BY <1>16, <2>1, <2>2, <2>3, <2>4, <2>5, <2>6 DEF ScanEvent
  <2>8. ASSUME NEW e \in st.events, e.turn = t
        PROVE  FALSE
    <3>1. PICK end \in c0.offset + 1 .. n : EndsAt(f, t, end)
      BY <1>21, <2>8 DEF ScanEvents, ScanEvent
    <3>2. end \in 1 .. Len(f) /\ end # n + 1
      BY <1>2, <1>17, <3>1
    <3> QED  BY <1>2, <2>2, <3>1, <3>2, EndUnique
  <2> QED  BY <2>7, <2>8
<1>24. ScanEvents(session, c0, f, n + 1, p.events)
  <2>1. CASE ends /\ Reportable(c.active)
    <3>1. p.events = st.events \cup {u} /\ u.turn = t
      BY <1>11, <1>16, <2>1
    <3> QED  BY <1>21, <1>22, <1>23, <2>1, <3>1 DEF ScanEvents
  <2>2. CASE ~(ends /\ Reportable(c.active))
    <3>1. p.events = st.events
      BY <1>11, <2>2
    <3> QED  BY <1>21, <1>22, <3>1 DEF ScanEvents
  <2> QED  BY <2>1, <2>2
<1>25. ScanReports(session, c0, f, n + 1, p.events)
  <2>1. SUFFICES ASSUME Exact(c0, f), NEW x \in AllTurns, NEW end \in c0.offset + 1 .. n + 1,
                        EndsAt(f, x, end), ~ResetIn(f, x, end), Used(f, x, end) > 0,
                        x \notin session.inherited, ~(c0.active.turn = x /\ c0.active.inherited)
                 PROVE  \E e \in p.events : e.turn = x
    BY DEF ScanReports
  <2>2. CASE end \in c0.offset + 1 .. n
    <3>1. \E e \in st.events : e.turn = x
      BY <2>1, <2>2 DEF ScanInv, ScanReports
    <3>2. st.events \subseteq p.events
      BY <1>11
    <3> QED  BY <3>1, <3>2
  <2>3. CASE end = n + 1
    <3>1. Exact(c, f) /\ ends /\ t # NoTurn
      BY <1>8, <1>9, <1>12, <1>18, <2>1
    <3>2. x = t
      BY <1>13, <2>1, <2>3, <3>1 DEF EndsAt
    <3>3. ~ResetIn(f, t, n) /\ Used(f, t, n) > 0
      BY <1>13, <2>1, <2>3, <3>1, <3>2
    <3>4. /\ c.active.reset = ResetIn(f, t, n)
          /\ ~c.active.reset => c.active.latest - c.active.baseline = Used(f, t, n)
      BY <1>5, <1>12, <3>1 DEF Exact
    <3>5. ~c.active.reset /\ c.active.latest - c.active.baseline > 0
      BY <3>3, <3>4
    <3>6. ~c.active.inherited
      BY <1>12, <1>18, <2>1, <3>1, <3>2 DEF Inherits
    <3>7. Reportable(c.active)
      BY <1>15, <3>5, <3>6 DEF Reportable
    <3> QED  BY <1>11, <1>16, <3>1, <3>2, <3>7
  <2> QED  BY <1>17, <2>2, <2>3
<1> QED  BY <1>1, <1>6, <1>7, <1>19, <1>20, <1>24, <1>25 DEF ScanInv

LEMMA ScanFacts ==
    ASSUME NEW f \in File, WellFormed(f), NEW session, NEW c0 \in Cursor, Known(c0, f)
    PROVE  \A n \in c0.offset .. Len(f) : ScanInv(session, c0, f, n, ScanTo(session, c0, f, n))
<1>1. PICK o \in Nat : o = c0.offset
  BY CursorFacts
<1> DEFINE S == {n \in o .. Len(f) : ~ ScanInv(session, c0, f, n, ScanTo(session, c0, f, n))}
<1>2. SUFFICES ASSUME S # {} PROVE FALSE
  BY <1>1
<1>3. S \in SUBSET Nat /\ Len(f) \in Nat
  BY DEF File
<1>4. PICK m \in S : \A k \in S : m <= k
  <2> HIDE DEF S
  <2> QED  BY <1>2, <1>3, Smallest
<1>5. m # o
  <2>1. c0.offset \in 0 .. Len(f)
    BY <1>1, <1>3 DEF Known
  <2>2. ScanInv(session, c0, f, o, ScanTo(session, c0, f, o))
    BY <1>1, <2>1, ScanInvBase, ScanNone
  <2> QED  BY <1>4, <2>2
<1>6. PICK n \in Nat : m = n + 1 /\ o <= n /\ n < Len(f)
  <2>1. m - 1 \in Nat /\ o <= m - 1 /\ m - 1 < Len(f) /\ m = (m - 1) + 1
    BY <1>3, <1>4, <1>5
  <2> QED  BY <2>1
<1>7. n \in o .. Len(f) /\ ~(m <= n)
  BY <1>3, <1>6
<1>8. n \notin S
  BY <1>4, <1>7
<1>9. ScanInv(session, c0, f, n, ScanTo(session, c0, f, n))
  BY <1>7, <1>8
<1>10. ScanTo(session, c0, f, n + 1) = Process(session, ScanTo(session, c0, f, n), f[n + 1])
  BY <1>1, <1>6, ScanStep
<1>11. ScanInv(session, c0, f, n + 1, ScanTo(session, c0, f, n + 1))
  BY <1>1, <1>6, <1>9, <1>10, ScanInvQuiet, ScanInvDone
<1> QED  BY <1>4, <1>6, <1>11

-----------------------------------------------------------------------------
(* A whole scan *)
LEMMA WholeScan ==
    ASSUME NEW f \in File, WellFormed(f), NEW session, NEW c \in Cursor, Known(c, f)
    PROVE  ScanInv(session, c, f, Len(f), Scan(session, c, f))
<1>1. Len(f) \in c.offset .. Len(f)
  BY CursorFacts DEF Known, File
<1> QED  BY <1>1, ScanFacts, ScanAll

(* An ended turn, and what was used in it *)
LEMMA EndFacts ==
    ASSUME NEW f \in File, NEW t, t # NoTurn, NEW end \in 1 .. Len(f), EndsAt(f, t, end)
    PROVE  StartedBefore(f, t, end) /\ StartedBefore(f, t, end + 1) /\ Used(f, t, end) \in Nat
<1>1. end \in 1 .. Len(f) + 1 /\ end \in 0 .. Len(f)
  BY DEF File
<1>2. StartedBefore(f, t, end)
  BY <1>1, LastStarted DEF EndsAt
<1>3. StartedBefore(f, t, end + 1)
  BY <1>2 DEF StartedBefore
<1> QED  BY <1>1, <1>2, <1>3, UsedNat

LEMMA EndAgree ==
    ASSUME NEW f \in File, NEW g \in File, NEW n \in Nat, Agree(f, g, n),
           NEW t, t # NoTurn, NEW end \in 1 .. n
    PROVE  /\ EndsAt(f, t, end) <=> EndsAt(g, t, end)
           /\ EndsAt(f, t, end) => /\ Used(f, t, end) = Used(g, t, end)
                                   /\ ResetIn(f, t, end) <=> ResetIn(g, t, end)
<1>1. EndsAt(f, t, end) <=> EndsAt(g, t, end)
  BY AgreeWell
<1>2. SUFFICES ASSUME EndsAt(f, t, end)
               PROVE  Used(f, t, end) = Used(g, t, end) /\ (ResetIn(f, t, end) <=> ResetIn(g, t, end))
  BY <1>1
<1>3. end \in 1 .. Len(f)
  BY DEF Agree, File
<1>4. StartedBefore(f, t, end + 1)
  BY <1>2, <1>3, EndFacts
<1>5. Agree(f, g, end)
  BY DEF Agree
<1> QED  BY <1>4, <1>5, UsedAgree

(* A cursor is past the turns that ended before it. *)
LEMMA PastIf ==
    ASSUME NEW f \in File, WellFormed(f), NEW c \in Cursor, Known(c, f),
           NEW t \in AllTurns, NEW end \in 1 .. c.offset, EndsAt(f, t, end)
    PROVE  Past(c, f, t)
<1>1. t # NoTurn
  BY TurnFacts
<1>2. c.offset \in Nat /\ Len(f) \in Nat /\ c.offset <= Len(f)
  BY CursorFacts DEF Known, File
<1>3. end \in 1 .. Len(f) /\ c.offset + 1 \in end + 1 .. Len(f) + 1
  BY <1>2
<1>4. LastStart(f, c.offset + 1) # t
  BY <1>1, <1>3, AfterEnd
<1>5. c.active.turn # t
  BY <1>1, <1>4 DEF Known
<1> QED  BY <1>5 DEF Past

-----------------------------------------------------------------------------
(* A file that is continued *)
LEMMA KnownAgree ==
    ASSUME NEW f \in File, NEW g \in File, NEW c \in Cursor, Known(c, f), Agree(f, g, c.offset)
    PROVE  Known(c, g) /\ (Exact(c, f) => Exact(c, g))
<1>1. PICK n \in Nat : n = c.offset
  BY CursorFacts
<1>2. PICK t : t = c.active.turn
  OBVIOUS
<1>3. n + 1 \in 1 .. n + 1 /\ n <= Len(g) /\ Agree(f, g, n)
  BY <1>1 DEF Agree
<1>4. LastStart(f, n + 1) = LastStart(g, n + 1) /\ TotalBefore(f, n + 1) = TotalBefore(g, n + 1)
  BY <1>3, LastStartAgree, TotalAgree
<1>5. t # NoTurn => /\ Used(f, t, n) = Used(g, t, n)
                    /\ ResetIn(f, t, n) <=> ResetIn(g, t, n)
  BY <1>1, <1>2, <1>3, KnownType, UsedAgree
<1>6. Known(c, g)
  BY <1>1, <1>2, <1>3, <1>4, <1>5 DEF Known
<1>7. Exact(c, f) => Exact(c, g)
  <2>1. SUFFICES ASSUME Exact(c, f) PROVE Exact(c, g)
    OBVIOUS
  <2>2. /\ ~c.awaiting /\ t = LastStart(f, n + 1)
        /\ t # NoTurn => /\ c.active.reset = ResetIn(f, t, n)
                         /\ ~c.active.reset => c.active.latest - c.active.baseline = Used(f, t, n)
    BY <1>1, <1>2, <2>1 DEF Exact
  <2>3. t # NoTurn => c.active.reset = ResetIn(g, t, n)
    <3>1. ResetIn(f, t, n) \in BOOLEAN /\ ResetIn(g, t, n) \in BOOLEAN
      BY DEF ResetIn
    <3> QED  BY <1>5, <2>2, <3>1
  <2> QED  BY <1>1, <1>2, <1>4, <1>5, <2>2, <2>3 DEF Exact
<1> QED  BY <1>6, <1>7

LEMMA ReportedAgree ==
    ASSUME NEW f \in File, NEW g \in File, NEW c \in Cursor, Agree(f, g, c.offset), NEW s, NEW Q,
           s \in Sessions, Reported(c, s, f, Q)
    PROVE  Reported(c, s, g, Q)
<1>1. SUFFICES ASSUME NEW t \in TurnsOf(s), NEW end \in 1 .. c.offset,
                      EndsAt(g, t, end), ~ResetIn(g, t, end), Used(g, t, end) > 0
               PROVE  \E e \in Q : e.turn = t
  BY DEF Reported
<1>2. t # NoTurn
  BY TurnFacts DEF AllTurns
<1>3. c.offset \in Nat
  BY CursorFacts
<1>4. EndsAt(f, t, end) /\ ~ResetIn(f, t, end) /\ Used(f, t, end) > 0
  BY <1>1, <1>2, <1>3, EndAgree
<1> QED  BY <1>4 DEF Reported

LEMMA PastAgree ==
    ASSUME NEW f \in File, NEW g \in File, NEW c \in Cursor, Agree(f, g, c.offset),
           NEW t \in AllTurns, Past(c, f, t)
    PROVE  Past(c, g, t)
<1>1. c.offset \in Nat /\ t # NoTurn
  BY CursorFacts, TurnFacts
<1> QED  BY <1>1, EndAgree DEF Past

(* Whatever the record, no event is taken back. *)
LEMMA EventsKept ==
    ASSUME NEW session, NEW st \in ScanState(session), NEW r \in Record
    PROVE  st.events \subseteq Process(session, st, r).events
<1>1. r.kind \in {"start", "tokens", "done"}
  BY DEF Record
<1>2. CASE r.kind = "start"
  BY <1>2, ProcessStart
<1>3. CASE r.kind = "tokens"
  BY <1>3, ProcessTokens
<1>4. CASE r.kind = "done"
  BY <1>4, ProcessDone DEF Finished
<1> QED  BY <1>1, <1>2, <1>3, <1>4

(* The events of a file are among those of the file as it is continued. *)
LEMMA ScanMore ==
    ASSUME NEW f \in File, NEW g \in File, Agree(f, g, Len(f)), WellFormed(g),
           NEW session, NEW c \in Cursor, Known(c, f)
    PROVE  Scan(session, c, f).events \subseteq Scan(session, c, g).events
<1>1. PICK o \in Nat : o = c.offset
  BY CursorFacts
<1>2. Len(f) \in Nat /\ Len(g) \in Nat /\ o <= Len(f) /\ Len(f) <= Len(g)
  BY <1>1 DEF File, Known, Agree
<1>3. Known(c, g)
  <2>1. Agree(f, g, c.offset)
    BY <1>1, <1>2 DEF Agree
  <2> QED  BY <2>1, KnownAgree
<1>4. PICK E : E = Scan(session, c, f).events
  OBVIOUS
<1> DEFINE S == {n \in Len(f) .. Len(g) : ~(E \subseteq ScanTo(session, c, g, n).events)}
<1>5. SUFFICES ASSUME S # {} PROVE FALSE
  <2>1. Len(g) \in Len(f) .. Len(g)
    BY <1>2
  <2> QED  BY <1>4, <2>1, ScanAll
<1>6. S \in SUBSET Nat
  BY <1>2
<1>7. PICK m \in S : \A k \in S : m <= k
  <2> HIDE DEF S
  <2> QED  BY <1>5, <1>6, Smallest
<1>8. m # Len(f)
  <2>1. ScanTo(session, c, g, Len(f)) = Scan(session, c, f)
    BY <1>2, ScanAgree, ScanAll
  <2> QED  BY <1>4, <1>7, <2>1
<1>9. PICK n \in Nat : m = n + 1 /\ Len(f) <= n /\ n < Len(g)
  <2>1. m - 1 \in Nat /\ Len(f) <= m - 1 /\ m - 1 < Len(g) /\ m = (m - 1) + 1
    BY <1>2, <1>7, <1>8
  <2> QED  BY <2>1
<1>10. n \in Len(f) .. Len(g) /\ ~(m <= n) /\ n \in c.offset .. Len(g) /\ c.offset <= n
  BY <1>1, <1>2, <1>9
<1>11. E \subseteq ScanTo(session, c, g, n).events
  <2>1. n \notin S
    BY <1>7, <1>10
  <2> QED  BY <1>10, <2>1
<1>12. ScanTo(session, c, g, n) \in ScanState(session)
  <2>1. ScanInv(session, c, g, n, ScanTo(session, c, g, n))
    BY <1>3, <1>10, ScanFacts
  <2> QED  BY <2>1 DEF ScanInv
<1>13. g[n + 1] \in Record
  <2>1. n + 1 \in 1 .. Len(g)
    BY <1>2, <1>9
  <2> QED  BY <2>1, RecordFacts
<1>14. ScanTo(session, c, g, n + 1) = Process(session, ScanTo(session, c, g, n), g[n + 1])
  BY <1>1, <1>9, <1>10, ScanStep
<1>15. E \subseteq ScanTo(session, c, g, n + 1).events
  BY <1>11, <1>12, <1>13, <1>14, EventsKept
<1> QED  BY <1>7, <1>9, <1>15

-----------------------------------------------------------------------------
(* A cursor at the beginning, and one that was seeded *)
LEMMA NewCursorFacts ==
    ASSUME NEW p \in Sessions \X {0, 1}, NEW f \in File
    PROVE  LET c == NewCursor(p)
           IN  /\ c \in Cursor /\ c.path = p /\ c.offset = 0 /\ c.active.turn = NoTurn
               /\ ~c.active.inherited
               /\ Known(c, f) /\ Exact(c, f)
<1>1. PICK c : c = NewCursor(p)
  OBVIOUS
<1>2. /\ c.path = p /\ c.offset = 0 /\ c.last = 0 /\ c.awaiting = FALSE /\ c.active = NoActive
      /\ c.active.turn = NoTurn /\ c.active.inherited = FALSE
  BY <1>1 DEF NewCursor, NoActive
<1>3. c \in Cursor
  <2>1. MaxTotal \in Nat
    BY CodexAssumption
  <2> QED  BY <1>1, <2>1 DEF NewCursor, NoActive, Cursor
<1>4. TotalBefore(f, 0 + 1) = 0 /\ LastStart(f, 0 + 1) = NoTurn /\ 0 <= Len(f)
  BY TotalFirst, LastStartFirst DEF File
<1>5. Known(c, f)
  BY <1>2, <1>4 DEF Known
<1>6. Exact(c, f)
  BY <1>2, <1>4 DEF Exact
<1> QED  BY <1>1, <1>2, <1>3, <1>5, <1>6

LEMMA SeedFacts ==
    ASSUME NEW p \in Sessions \X {0, 1}, NEW f \in File, WellFormed(f)
    PROVE  LET c == Seed(p, f)
           IN  /\ c \in Cursor /\ c.path = p /\ c.offset = Len(f)
               /\ Known(c, f) /\ (c.active.inherited => c.active.turn = NoTurn)
<1>1. PICK n \in 0 .. Len(f) : n = IF Len(f) > SeedTail THEN Len(f) - SeedTail ELSE 0
  BY CodexAssumption DEF File
<1>2. PICK c0 : c0 = [NewCursor(p) EXCEPT !.offset = n, !.awaiting = TRUE]
  OBVIOUS
<1>3. PICK x : x = Session(NoSession, {})
  OBVIOUS
<1>4. PICK c : c = Scan(x, c0, f).cursor
  OBVIOUS
<1>5. Seed(p, f) = IF IsActive(c) THEN [c EXCEPT !.active.baseline = c.last, !.active.latest = c.last]
                   ELSE c
  BY <1>1, <1>2, <1>3, <1>4 DEF Seed
<1>6. n \in Nat /\ n <= Len(f) /\ Len(f) \in Nat
  BY <1>1 DEF File
<1>7. /\ c0 \in Cursor /\ c0.path = p /\ c0.offset = n /\ c0.awaiting
      /\ c0.active.turn = NoTurn /\ c0.active.inherited = FALSE
  <2>1. NewCursor(p) \in Cursor
    BY NewCursorFacts
  <2>2. NewCursor(p).active = NoActive /\ NewCursor(p).path = p
    BY DEF NewCursor
  <2>3. /\ c0 \in Cursor /\ c0.path = NewCursor(p).path /\ c0.offset = n /\ c0.awaiting = TRUE
        /\ c0.active = NewCursor(p).active
    BY <1>2, <1>6, <2>1 DEF Cursor
  <2> QED  BY <2>2, <2>3 DEF NoActive
<1>8. Known(c0, f)
  BY <1>6, <1>7 DEF Known
<1>9. ScanInv(x, c0, f, Len(f), Scan(x, c0, f))
  BY <1>7, <1>8, WholeScan
<1>10. /\ c \in Cursor /\ c.path = p /\ c.offset = Len(f) /\ Known(c, f)
       /\ c.active.turn # NoTurn => Inherits(x, c0, c.active.turn, c.active.inherited)
  BY <1>4, <1>7, <1>9 DEF ScanInv, ScanCursor, ScanState
<1>11. c.active.inherited => c.active.turn = NoTurn
  <2>1. x.inherited = {}
    BY <1>3 DEF Session
  <2> QED  BY <1>7, <1>10, <2>1 DEF Inherits
<1>12. CASE ~IsActive(c)
  BY <1>5, <1>10, <1>11, <1>12
<1>13. CASE IsActive(c)
  <2>1. PICK d : d = Seed(p, f)
    OBVIOUS
  <2>2. d = [c EXCEPT !.active.baseline = c.last, !.active.latest = c.last]
    BY <1>5, <1>13, <2>1
  <2>3. c.last \in 0 .. MaxTotal /\ c.last \in Int
    BY <1>10, CursorFacts
  <2>4. /\ d \in Cursor /\ d.path = c.path /\ d.offset = c.offset /\ d.last = c.last
        /\ d.awaiting = c.awaiting /\ d.active.turn = c.active.turn
        /\ d.active.baseline = c.last /\ d.active.latest = c.last
        /\ d.active.inherited = c.active.inherited /\ d.active.reset = c.active.reset
    BY <1>10, <2>2, <2>3 DEF Cursor
  <2>5. Used(f, c.active.turn, c.offset) \in Nat /\ c.active.turn # NoTurn
    BY <1>10, <1>13, KnownType DEF IsActive
  <2>6. d.active.latest - d.active.baseline = 0
    BY <2>3, <2>4
  <2>7. Known(d, f)
    BY <1>10, <2>4, <2>5, <2>6 DEF Known
  <2> QED  BY <1>10, <1>11, <2>1, <2>4, <2>7
<1> QED  BY <1>12, <1>13

-----------------------------------------------------------------------------
(* What Codex does to the files *)
LEMMA WorldFacts ==
    ASSUME world \in DOMAIN Worlds
    PROVE  World.records \in Nat /\ World.rounds \in Nat /\ World.moves \in Nat
<1> QED  BY CodexAssumption DEF World

(* A record that may follow in a file *)
Fits(f, r) ==
    /\ r.kind = "start" =>
        /\ r.turn # NoTurn
        /\ LastStart(f, Len(f) + 1) = r.turn \/ \A j \in DOMAIN f : f[j].turn # r.turn
    /\ r.kind = "tokens" => r.turn = NoTurn
    /\ r.kind = "done" =>
        LastStart(f, Len(f) + 1) # NoTurn /\ r.turn \in {NoTurn, LastStart(f, Len(f) + 1)}

LEMMA AppendFacts ==
    ASSUME NEW f \in File, NEW r \in Record
    PROVE  LET g == Append(f, r)
           IN  /\ g \in File /\ Len(g) = Len(f) + 1 /\ g[Len(f) + 1] = r
               /\ Agree(f, g, Len(f))
               /\ \A i \in 1 .. Len(f) : g[i] = f[i]
               /\ \A i \in 1 .. Len(f) + 1 : LastStart(g, i) = LastStart(f, i)
<1>1. PICK g : g = Append(f, r)
  OBVIOUS
<1>2. Len(f) \in Nat
  BY DEF File
<1>3. g \in File /\ Len(g) = Len(f) + 1 /\ g[Len(f) + 1] = r /\ \A i \in 1 .. Len(f) : g[i] = f[i]
  BY <1>1 DEF File
<1>4. Agree(f, g, Len(f))
  BY <1>2, <1>3 DEF Agree
<1>5. \A i \in 1 .. Len(f) + 1 : LastStart(g, i) = LastStart(f, i)
  BY <1>2, <1>3, <1>4, LastStartAgree
<1> QED  BY <1>1, <1>3, <1>4, <1>5

LEMMA AppendWell ==
    ASSUME NEW f \in File, WellFormed(f), NEW r \in Record, Fits(f, r)
    PROVE  WellFormed(Append(f, r))
<1>1. PICK g : g = Append(f, r)
  OBVIOUS
<1>2. /\ g \in File /\ Len(g) = Len(f) + 1 /\ g[Len(f) + 1] = r
      /\ \A i \in 1 .. Len(f) : g[i] = f[i]
      /\ \A i \in 1 .. Len(f) + 1 : LastStart(g, i) = LastStart(f, i)
  BY <1>1, AppendFacts
<1>3. DOMAIN f = 1 .. Len(f) /\ DOMAIN g = 1 .. Len(f) + 1 /\ Len(f) \in Nat
  BY <1>2 DEF File
<1>4. SUFFICES ASSUME NEW i \in 1 .. Len(f) + 1
               PROVE
        /\ g[i].kind = "start" =>
              /\ g[i].turn # NoTurn
              /\ \/ LastStart(g, i) = g[i].turn
                 \/ \A j \in 1 .. i - 1 : g[j].turn # g[i].turn
        /\ g[i].kind = "tokens" => g[i].turn = NoTurn
        /\ g[i].kind = "done" =>
              LastStart(g, i) # NoTurn /\ g[i].turn \in {NoTurn, LastStart(g, i)}
  BY <1>1, <1>3 DEF WellFormed
<1>5. CASE i = Len(f) + 1
  <2>1. \A j \in 1 .. i - 1 : g[j] = f[j] /\ j \in DOMAIN f
    BY <1>2, <1>3, <1>5
  <2>2. g[i] = r /\ LastStart(g, i) = LastStart(f, Len(f) + 1)
    BY <1>2, <1>5
  <2> QED  BY <2>1, <2>2 DEF Fits
<1>6. CASE i \in 1 .. Len(f)
  <2>1. \A j \in 1 .. i : g[j] = f[j]
    BY <1>2, <1>3, <1>6
  <2>2. LastStart(g, i) = LastStart(f, i) /\ i \in DOMAIN f
    BY <1>2, <1>3, <1>6
  <2>3. \A j \in 1 .. i - 1 : g[j].turn = f[j].turn
    BY <2>1
  <2> QED  BY <1>6, <2>1, <2>2, <2>3 DEF WellFormed
<1> QED  BY <1>3, <1>5, <1>6

(* What agrees with a file agrees with it as it is continued. *)
LEMMA AgreeMore ==
    ASSUME NEW w, NEW f \in File, NEW g \in File, Agree(f, g, Len(f)), NEW i \in Nat, Agree(w, f, i)
    PROVE  Agree(w, g, i)
<1>1. Len(f) \in Nat /\ Len(g) \in Nat
  BY DEF File
<1> QED  BY <1>1 DEF Agree

LEMMA WholeFacts ==
    ASSUME TypeOK, NEW s \in Sessions
    PROVE  /\ files[s] \in File /\ copying[s] \in File /\ Whole(s) \in File
           /\ Agree(files[s], Whole(s), Len(files[s]))
           /\ copying[s] = << >> => Whole(s) = files[s]
<1>1. files[s] \in Seq(Record) /\ copying[s] \in Seq(Record)
  BY DEF TypeOK
<1>2. PICK f, g : f = files[s] /\ g = copying[s]
  OBVIOUS
<1>3. PICK w : w = f \o g
  OBVIOUS
<1>4. w \in Seq(Record) /\ Len(w) = Len(f) + Len(g) /\ \A i \in 1 .. Len(f) : w[i] = f[i]
  <2>1. f \in Seq(Record) /\ g \in Seq(Record)
    BY <1>1, <1>2
  <2>2. w \in Seq(Record) /\ Len(w) = Len(f) + Len(g)
    BY <1>3, <2>1
  <2>3. \A i \in 1 .. Len(f) : w[i] = f[i]
    BY <1>3, <2>1
  <2> QED  BY <2>2, <2>3
<1>5. Len(f) \in Nat /\ Len(g) \in Nat
  BY <1>1, <1>2
<1>6. Agree(f, w, Len(f))
  BY <1>4, <1>5 DEF Agree
<1>7. g = << >> => w = f
  BY <1>1, <1>2, <1>3
<1> QED  BY <1>1, <1>2, <1>3, <1>4, <1>6, <1>7 DEF File, Whole

LEMMA ParentFacts ==
    ASSUME NEW s \in Sessions, ParentOf[s] # NoSession
    PROVE  ParentOf[s] \in Sessions /\ ParentOf[s] # s
<1> QED  BY CodexAssumption

(* What is written goes on the file of its session: the rest is as it was. *)
LEMMA WriteFiles ==
    ASSUME TypeOK, FilesInv, NEW s \in Sessions, NEW r \in Record, Write(s, r),
           turns' \in Int, turns <= turns', r.turn[2] <= turns',
           Fits(files[s], r), r.kind = "start" => r.turn[1] = s
    PROVE  FilesInv'
<1>1. PICK f, g : f = files[s] /\ g = Append(f, r)
  OBVIOUS
<1>2. f \in File /\ Whole(s) = f /\ copying[s] = << >>
  BY <1>1, WholeFacts DEF Write
<1>3. /\ g \in File /\ Len(g) = Len(f) + 1 /\ g[Len(f) + 1] = r
      /\ Agree(f, g, Len(f))
      /\ \A i \in 1 .. Len(f) : g[i] = f[i]
      /\ \A i \in 1 .. Len(f) + 1 : LastStart(g, i) = LastStart(f, i)
  BY <1>1, <1>2, AppendFacts
<1>4. files' = [files EXCEPT ![s] = g] /\ copying' = copying
  BY <1>1 DEF Write
<1>5. files' \in [Sessions -> File] /\ files'[s] = g /\ \A q \in Sessions \ {s} : files'[q] = files[q]
  BY <1>3, <1>4 DEF TypeOK, File
<1>6. PICK W, V : W = Wholes /\ V = Wholes'
  OBVIOUS
<1>7. W[s] = f /\ V[s] = g /\ \A q \in Sessions \ {s} : V[q] = W[q]
  <2>1. W[s] = f
    BY <1>2, <1>6 DEF Wholes
  <2>2. V = [q \in Sessions |-> files'[q] \o copying'[q]] /\ W = [q \in Sessions |-> files[q] \o copying[q]]
    BY <1>6 DEF Wholes, Whole
  <2>3. g \o << >> = g
    BY <1>3 DEF File
  <2> QED  BY <1>2, <1>4, <1>5, <2>1, <2>2, <2>3
<1>8. PICK A, B : A = Alive /\ B = Alive'
  OBVIOUS
<1>9. s \in B /\ B = A \cup {s} /\ (ParentOf[s] # NoSession => s \in A)
  <2>1. started' = [started EXCEPT ![s] = IF @ = Never THEN round ELSE @]
    BY DEF Write
  <2>2. round # Never /\ started \in [Sessions -> Never .. World.rounds]
    BY WorldFacts DEF TypeOK, Never
  <2>3. started'[s] # Never /\ \A q \in Sessions \ {s} : started'[q] = started[q]
    BY <2>1, <2>2
  <2>4. Exists(s) \/ ParentOf[s] = NoSession
    BY DEF Write
  <2> QED  BY <1>8, <2>3, <2>4 DEF Alive, Exists
<1>10. \A q \in Sessions : FileInv(q, W, files, turns, A)
  BY <1>6, <1>8 DEF FilesInv
<1>11. \A q \in Sessions : W[q] \in File
  BY <1>6, WholeFacts DEF Wholes
<1>12. \A w : \A i \in Nat, q \in Sessions : Agree(w, files[q], i) => Agree(w, files'[q], i)
  <2>1. SUFFICES ASSUME NEW w, NEW i \in Nat, NEW q \in Sessions, Agree(w, files[q], i)
                 PROVE  Agree(w, files'[q], i)
    OBVIOUS
  <2>2. files[q] \in File
    BY WholeFacts
  <2>3. CASE q = s
    BY <1>1, <1>2, <1>3, <1>5, <2>1, <2>3, AgreeMore
  <2>4. CASE q # s
    BY <1>5, <2>1, <2>4
  <2> QED  BY <2>3, <2>4
<1>13. Len(f) \in Nat /\ DOMAIN f = 1 .. Len(f) /\ DOMAIN g = 1 .. Len(f) + 1
  BY <1>2, <1>3 DEF File
<1>14. LastStart(f, Len(f) + 1)[1] \in {s, NoSession}
  BY <1>7, <1>10 DEF FileInv
<1>15. r.turn[1] \in {s, NoSession}
  <2>1. r.kind \in {"start", "tokens", "done"}
    BY DEF Record
  <2>2. CASE r.kind = "start"
    BY <2>2
  <2>3. CASE r.kind = "tokens"
    BY <2>3, NoTurnFacts DEF Fits
  <2>4. CASE r.kind = "done"
    BY <1>1, <1>14, <2>4, NoTurnFacts DEF Fits
  <2> QED  BY <2>1, <2>2, <2>3, <2>4
<1>16. \A t \in AllTurns : t[1] = s => t \in TurnsOf(s)
  BY TurnFacts
<1>17. ASSUME NEW q \in Sessions, q # s
       PROVE  FileInv(q, V, files', turns', B)
  <2>1. FileInv(q, W, files, turns, A)
    BY <1>10
  <2>2. V[q] = W[q] /\ DOMAIN W[q] \subseteq Nat
    BY <1>7, <1>11, <1>17 DEF File
  <2>3. \A i \in DOMAIN V[q] : V[q][i].turn[2] <= turns'
    <3>1. ASSUME NEW i \in DOMAIN W[q]
          PROVE  W[q][i].turn[2] <= turns'
      <4>1. W[q][i] \in Record /\ W[q][i].turn[2] <= turns
        BY <1>11, <2>1 DEF FileInv, File
      <4>2. W[q][i].turn[2] \in Int
        BY <4>1, NoTurnFacts, TurnFacts, CodexAssumption DEF Record, TurnsOf
      <4>3. turns \in Int
        BY CodexAssumption DEF TypeOK
      <4> QED  BY <4>1, <4>2, <4>3
    <3> QED  BY <2>2, <3>1
  <2>4. \A i \in DOMAIN V[q] : TurnAt(V[q], i) # NoTurn => Agree(V[q], files'[TurnAt(V[q], i)[1]], i)
    <3>1. SUFFICES ASSUME NEW i \in DOMAIN V[q], TurnAt(V[q], i) # NoTurn
                   PROVE  Agree(V[q], files'[TurnAt(V[q], i)[1]], i)
      OBVIOUS
    <3>2. Agree(V[q], files[TurnAt(V[q], i)[1]], i)
      BY <2>1, <2>2, <3>1 DEF FileInv
    <3>3. TurnAt(V[q], i) \in AllTurns
      <4>1. i \in 1 .. Len(V[q]) + 1 /\ i \in 1 .. Len(V[q])
        BY <1>11, <2>2 DEF File
      <4> QED  BY <1>11, <2>2, <3>1, <4>1, LastStartType, RecordFacts DEF TurnAt
    <3> QED  BY <1>12, <2>2, <3>2, <3>3, TurnFacts
  <2>5. ParentOf[q] # NoSession =>
          /\ q \in B => ParentOf[q] \in B
          /\ \A i \in DOMAIN V[q], t \in AllTurns \ TurnsOf(q) :
                EndsAt(V[q], t, i) => Agree(V[q], files'[ParentOf[q]], i)
          /\ \A i \in DOMAIN V[ParentOf[q]] : V[ParentOf[q]][i].turn[1] # q
    <3>1. SUFFICES ASSUME ParentOf[q] # NoSession
                   PROVE
          /\ q \in B => ParentOf[q] \in B
          /\ \A i \in DOMAIN V[q], t \in AllTurns \ TurnsOf(q) :
                EndsAt(V[q], t, i) => Agree(V[q], files'[ParentOf[q]], i)
          /\ \A i \in DOMAIN V[ParentOf[q]] : V[ParentOf[q]][i].turn[1] # q
      OBVIOUS
    <3>2. PICK p \in Sessions : p = ParentOf[q]
      BY <3>1, ParentFacts
    <3>3. /\ q \in A => p \in A
          /\ \A i \in DOMAIN W[q], t \in AllTurns \ TurnsOf(q) :
                EndsAt(W[q], t, i) => Agree(W[q], files[p], i)
          /\ \A i \in DOMAIN W[p] : W[p][i].turn[1] # q
      BY <2>1, <3>1, <3>2 DEF FileInv
    <3>4. q \in B => p \in B
      BY <1>9, <1>17, <3>3
    <3>5. \A i \in DOMAIN V[q], t \in AllTurns \ TurnsOf(q) :
                EndsAt(V[q], t, i) => Agree(V[q], files'[p], i)
      BY <1>12, <2>2, <3>3
    <3>6. \A i \in DOMAIN V[p] : V[p][i].turn[1] # q
      <4>1. CASE p # s
        BY <1>7, <3>3, <4>1
      <4>2. CASE p = s
        <5>1. SUFFICES ASSUME NEW i \in 1 .. Len(f) + 1 PROVE g[i].turn[1] # q
          BY <1>7, <1>13, <4>2
        <5>2. CASE i = Len(f) + 1
          BY <1>3, <1>15, <1>17, <5>2, CodexAssumption
        <5>3. CASE i \in 1 .. Len(f)
          BY <1>3, <1>7, <1>13, <3>3, <4>2, <5>3
        <5> QED  BY <1>13, <5>2, <5>3
      <4> QED  BY <4>1, <4>2
    <3> QED  BY <3>2, <3>4, <3>5, <3>6
  <2>6. q \in B <=> V[q] # << >>
    BY <1>9, <1>17, <2>1, <2>2 DEF FileInv
  <2> QED  BY <2>1, <2>2, <2>3, <2>4, <2>5, <2>6 DEF FileInv
<1>18. FileInv(s, V, files', turns', B)
  <2>1. FileInv(s, W, files, turns, A)
    BY <1>10
  <2>2. WellFormed(g)
    BY <1>1, <1>2, <1>7, <2>1, AppendWell DEF FileInv
  <2>3. \A i \in 1 .. Len(f) : TurnAt(g, i) = TurnAt(f, i)
    BY <1>2, <1>3, <1>13, AgreeWell
  <2>4. TurnAt(g, Len(f) + 1)[1] \in {s, NoSession}
    <3>1. LastStart(g, Len(f) + 1) = LastStart(f, Len(f) + 1)
      BY <1>3, <1>13
    <3> QED  BY <1>3, <1>14, <3>1 DEF TurnAt
  <2>5. ASSUME NEW i \in 1 .. Len(f) + 1, TurnAt(g, i) # NoTurn
        PROVE  Agree(g, files'[TurnAt(g, i)[1]], i)
    <3>1. CASE i \in 1 .. Len(f)
      <4>1. PICK q : q = TurnAt(f, i)[1]
        OBVIOUS
      <4>2. TurnAt(f, i) \in AllTurns
        <5>1. i \in 1 .. Len(f) + 1
          BY <3>1
        <5> QED  BY <1>2, <2>3, <2>5, <3>1, <5>1, LastStartType, RecordFacts DEF TurnAt
      <4>3. q \in Sessions /\ Agree(f, files[q], i) /\ i \in Nat
        BY <1>7, <1>13, <2>1, <2>3, <2>5, <3>1, <4>1, <4>2, TurnFacts DEF FileInv
      <4>4. Agree(f, files'[q], i)
        BY <1>12, <4>3
      <4>5. Agree(g, f, i)
        BY <1>3, <1>13, <3>1 DEF Agree
      <4>6. Agree(g, files'[q], i)
        BY <4>4, <4>5 DEF Agree
      <4> QED  BY <2>3, <3>1, <4>1, <4>6
    <3>2. CASE i = Len(f) + 1
      <4>1. TurnAt(g, i) \in AllTurns
        <5>1. i \in 1 .. Len(g) + 1 /\ i \in 1 .. Len(g)
          BY <1>3, <1>13
        <5> QED  BY <1>3, <2>5, <5>1, LastStartType, RecordFacts DEF TurnAt
      <4>2. TurnAt(g, i)[1] = s
        BY <2>4, <3>2, <4>1, TurnFacts
      <4>3. Agree(g, g, i)
        BY <1>3, <1>13 DEF Agree
      <4> QED  BY <1>5, <4>2, <4>3
    <3> QED  BY <1>13, <3>1, <3>2
  <2>6. \A i \in DOMAIN g : g[i].turn[2] <= turns'
    <3>1. ASSUME NEW i \in 1 .. Len(f)
          PROVE  g[i].turn[2] <= turns'
      <4>1. f[i] \in Record /\ f[i].turn[2] <= turns /\ g[i] = f[i]
        BY <1>2, <1>3, <1>7, <1>13, <2>1, RecordFacts DEF FileInv
      <4>2. f[i].turn[2] \in Int
        BY <4>1, NoTurnFacts, TurnFacts, CodexAssumption DEF Record, TurnsOf
      <4>3. turns \in Int
        BY CodexAssumption DEF TypeOK
      <4> QED  BY <4>1, <4>2, <4>3
    <3> QED  BY <1>3, <1>13, <3>1
  <2>7. LastStart(g, Len(g) + 1)[1] \in {s, NoSession}
    <3>1. Len(f) + 1 \in 1 .. Len(g)
      BY <1>3, <1>13
    <3>2. LastStart(g, (Len(f) + 1) + 1) = CASE r.kind = "tokens" -> LastStart(g, Len(f) + 1)
                                             [] r.kind = "done" -> NoTurn
                                             [] r.kind = "start" -> r.turn
      BY <1>3, <3>1, LastStartStep
    <3>3. LastStart(g, Len(f) + 1) = LastStart(f, Len(f) + 1)
      BY <1>3, <1>13
    <3>4. r.kind \in {"start", "tokens", "done"}
      BY DEF Record
    <3> QED  BY <1>3, <1>14, <1>15, <3>2, <3>3, <3>4, NoTurnFacts
  <2>8. g # << >>
    BY <1>3, <1>13
  <2>9. ParentOf[s] = NoSession => \A i \in DOMAIN g : TurnAt(g, i)[1] \in {s, NoSession}
    <3>1. ASSUME ParentOf[s] = NoSession, NEW i \in 1 .. Len(f)
          PROVE  TurnAt(g, i)[1] \in {s, NoSession}
      BY <1>7, <1>13, <2>1, <2>3, <3>1 DEF FileInv
    <3> QED  BY <1>13, <2>4, <3>1
  <2>10. ParentOf[s] # NoSession =>
          /\ ParentOf[s] \in B
          /\ \A i \in DOMAIN g, t \in AllTurns \ TurnsOf(s) :
                EndsAt(g, t, i) => Agree(g, files'[ParentOf[s]], i)
          /\ \A i \in DOMAIN V[ParentOf[s]] : V[ParentOf[s]][i].turn[1] # s
    <3>1. SUFFICES ASSUME ParentOf[s] # NoSession
                   PROVE
          /\ ParentOf[s] \in B
          /\ \A i \in DOMAIN g, t \in AllTurns \ TurnsOf(s) :
                EndsAt(g, t, i) => Agree(g, files'[ParentOf[s]], i)
          /\ \A i \in DOMAIN V[ParentOf[s]] : V[ParentOf[s]][i].turn[1] # s
      OBVIOUS
    <3>2. PICK p \in Sessions : p = ParentOf[s] /\ p # s
      BY <3>1, ParentFacts
    <3>3. /\ s \in A => p \in A
          /\ \A i \in DOMAIN f, t \in AllTurns \ TurnsOf(s) :
                EndsAt(f, t, i) => Agree(f, files[p], i)
          /\ \A i \in DOMAIN W[p] : W[p][i].turn[1] # s
      BY <1>7, <2>1, <3>1, <3>2 DEF FileInv
    <3>4. p \in B /\ V[p] = W[p] /\ files'[p] = files[p]
      BY <1>5, <1>7, <1>9, <3>1, <3>2, <3>3
    <3>5. ASSUME NEW i \in 1 .. Len(f) + 1, NEW t \in AllTurns \ TurnsOf(s), EndsAt(g, t, i)
          PROVE  Agree(g, files'[p], i)
      <4>1. t # NoTurn /\ t[1] # s /\ t[1] # NoSession
        BY <1>16, <3>5, TurnFacts
      <4>2. i \in 1 .. Len(f)
        <5>1. CASE i = Len(f) + 1
          <6>1. LastStart(f, Len(f) + 1) = t
            BY <1>3, <1>13, <3>5, <5>1 DEF EndsAt
          <6> QED  BY <1>14, <4>1, <6>1
        <5> QED  BY <1>13, <5>1
      <4>3. EndsAt(f, t, i)
        BY <1>2, <1>3, <1>13, <3>5, <4>2, AgreeWell
      <4>4. Agree(f, files[p], i) /\ Agree(g, f, i)
        BY <1>3, <1>13, <3>3, <3>5, <4>2, <4>3 DEF Agree
      <4>5. Agree(g, files[p], i)
        BY <4>4 DEF Agree
      <4> QED  BY <3>4, <4>5
    <3> QED  BY <1>13, <3>2, <3>3, <3>4, <3>5
  <2> QED  BY <1>7, <1>9, <1>13, <2>2, <2>5, <2>6, <2>7, <2>8, <2>9, <2>10 DEF FileInv
<1> QED  BY <1>6, <1>8, <1>17, <1>18 DEF FilesInv

-----------------------------------------------------------------------------
(* The records Codex writes fit. *)
LEMMA CodexTypes ==
    ASSUME TypeOK
    PROVE  /\ World.records \in Nat /\ World.rounds \in Nat /\ World.moves \in Nat
           /\ turns \in Nat /\ written \in Nat /\ moves \in Nat /\ round \in Nat
           /\ round # Never /\ Never = -1
           /\ \A s \in Sessions : started[s] \in Int /\ files[s] \in File
<1>1. World.records \in Nat /\ World.rounds \in Nat /\ World.moves \in Nat
  BY WorldFacts DEF TypeOK
<1>2. MaxTurns \in Nat
  BY CodexAssumption
<1> QED  BY <1>1, <1>2, WholeFacts DEF TypeOK, Never

LEMMA WriteTypes ==
    ASSUME TypeOK, NEW s \in Sessions, NEW r \in Record, Write(s, r), turns' \in 0 .. MaxTurns
    PROVE  TypeOK'
<1>1. files' \in [Sessions -> Seq(Record)]
  BY DEF Write, TypeOK
<1>2. started' \in [Sessions -> Never .. World.rounds]
  <2>1. round \in Never .. World.rounds
    BY CodexTypes DEF TypeOK
  <2> QED  BY <2>1 DEF Write, TypeOK
<1>3. written' \in 0 .. World.records
  <2>1. World.records \in Nat
    BY CodexTypes
  <2> QED  BY <2>1 DEF Write, TypeOK
<1>4. World' = World /\ UNCHANGED <<world, copying, path, moves, store, round, cycleVars, queued>>
  BY DEF Write, World
<1>5. Store' = Store
  BY <1>4 DEF Store
<1> QED  BY <1>1, <1>2, <1>3, <1>4, <1>5 DEF TypeOK, cycleVars

(* The file that is written on *)
LEMMA WriteFacts ==
    ASSUME TypeOK, FilesInv, NEW s \in Sessions, NEW r, Write(s, r)
    PROVE  /\ Whole(s) = files[s] /\ files[s] \in File /\ WellFormed(files[s])
           /\ Current(files[s]) \in TurnsOf(s) \cup {NoTurn}
           /\ \A i \in DOMAIN files[s] : files[s][i].turn[2] <= turns
           /\ Current(files[s]) # NoTurn => Current(files[s])[2] <= turns
<1>1. PICK f : f = files[s]
  OBVIOUS
<1>2. f \in File /\ Whole(s) = f
  BY <1>1, WholeFacts DEF Write
<1>3. /\ WellFormed(f) /\ LastStart(f, Len(f) + 1)[1] \in {s, NoSession}
      /\ \A i \in DOMAIN f : f[i].turn[2] <= turns
  BY <1>2 DEF FilesInv, FileInv, Wholes
<1>4. PICK t : t = LastStart(f, Len(f) + 1)
  OBVIOUS
<1>5. Len(f) \in Nat /\ Len(f) + 1 \in 1 .. Len(f) + 1
  BY <1>2 DEF File
<1>6. t \in AllTurns \cup {NoTurn}
  BY <1>2, <1>4, <1>5, LastStartType
<1>7. t \in TurnsOf(s) \cup {NoTurn}
  BY <1>3, <1>4, <1>6, TurnFacts, NoTurnFacts
<1>8. t # NoTurn => t[2] <= turns
  <2>1. SUFFICES ASSUME t # NoTurn PROVE t[2] <= turns
    OBVIOUS
  <2>2. StartedBefore(f, t, Len(f) + 1)
    BY <1>2, <1>4, <1>5, <2>1, LastStarted
  <2>3. PICK i \in 1 .. Len(f) : f[i].turn = t
    BY <1>5, <2>2 DEF StartedBefore, Starts
  <2> QED  BY <1>2, <1>3, <2>3 DEF File
<1> QED  BY <1>1, <1>2, <1>3, <1>4, <1>7, <1>8 DEF Current

LEMMA BeginTurnFiles ==
    ASSUME TypeOK, FilesInv, NEW s \in Sessions, BeginTurn(s)
    PROVE  TypeOK' /\ FilesInv' /\ \E r \in Record : Write(s, r)
<1>1. PICK t : t = <<s, turns + 1>>
  OBVIOUS
<1>2. PICK r : r = StartRecord(t)
  OBVIOUS
<1>3. Write(s, r) /\ turns < MaxTurns /\ turns' = turns + 1
  BY <1>1, <1>2 DEF BeginTurn
<1>4. MaxTurns \in Nat /\ MaxTotal \in Nat /\ turns \in Nat
  BY CodexAssumption, CodexTypes
<1>5. t \in TurnsOf(s) /\ t \in AllTurns /\ t[1] = s /\ t[2] = turns + 1 /\ t # NoTurn
  <2>1. t \in TurnsOf(s) /\ t[1] = s /\ t[2] = turns + 1
    BY <1>1, <1>3, <1>4 DEF TurnsOf
  <2>2. t \in AllTurns
    BY <2>1 DEF AllTurns
  <2> QED  BY <2>1, <2>2, TurnFacts
<1>6. r \in Record /\ r.kind = "start" /\ r.turn = t
  BY <1>2, <1>4, <1>5 DEF StartRecord, Record
<1>7. PICK f : f = files[s] /\ f \in File /\ \A i \in DOMAIN f : f[i].turn[2] <= turns
  BY <1>3, WriteFacts
<1>8. \A i \in DOMAIN f : f[i].turn # t
  BY <1>4, <1>5, <1>7
<1>9. Fits(f, r)
  BY <1>5, <1>6, <1>8 DEF Fits
<1>10. TypeOK'
  <2>1. turns' \in 0 .. MaxTurns
    BY <1>3, <1>4
  <2> QED  BY <1>3, <1>6, <2>1, WriteTypes
<1>11. turns' \in Int /\ turns <= turns' /\ r.turn[2] <= turns' /\ r.turn[1] = s
  BY <1>3, <1>4, <1>5, <1>6
<1>12. FilesInv'
  BY <1>3, <1>6, <1>7, <1>9, <1>11, WriteFiles
<1> QED  BY <1>3, <1>6, <1>10, <1>12

LEMMA RepeatTurnFiles ==
    ASSUME TypeOK, FilesInv, NEW s \in Sessions, RepeatTurn(s)
    PROVE  TypeOK' /\ FilesInv' /\ \E r \in Record : Write(s, r)
<1>1. PICK t : t = Current(files[s])
  OBVIOUS
<1>2. PICK r : r = StartRecord(t)
  OBVIOUS
<1>3. Write(s, r) /\ t # NoTurn /\ turns' = turns
  BY <1>1, <1>2 DEF RepeatTurn
<1>4. MaxTotal \in Nat /\ turns \in Nat /\ turns' \in 0 .. MaxTurns
  BY <1>3, CodexAssumption, CodexTypes DEF TypeOK
<1>5. t \in TurnsOf(s) /\ t[2] <= turns
  BY <1>1, <1>3, WriteFacts
<1>6. t \in AllTurns /\ t[1] = s
  BY <1>5 DEF AllTurns, TurnsOf
<1>7. r \in Record /\ r.kind = "start" /\ r.turn = t
  BY <1>2, <1>4, <1>6 DEF StartRecord, Record
<1>8. Fits(files[s], r)
  BY <1>1, <1>3, <1>7 DEF Fits, Current
<1>9. TypeOK'
  BY <1>3, <1>4, <1>7, WriteTypes
<1>10. FilesInv'
  BY <1>3, <1>4, <1>5, <1>6, <1>7, <1>8, WriteFiles
<1> QED  BY <1>3, <1>7, <1>9, <1>10

LEMMA CountTokensFiles ==
    ASSUME TypeOK, FilesInv, NEW s \in Sessions, NEW n \in 1 .. MaxTotal, CountTokens(s, n)
    PROVE  TypeOK' /\ FilesInv' /\ \E r \in Record : Write(s, r)
<1>1. PICK r : r = TokensRecord(n)
  OBVIOUS
<1>2. Write(s, r) /\ turns' = turns
  BY <1>1 DEF CountTokens
<1>3. MaxTotal \in Nat /\ turns \in Nat /\ turns' \in 0 .. MaxTurns
  BY <1>2, CodexAssumption, CodexTypes DEF TypeOK
<1>4. r \in Record /\ r.kind = "tokens" /\ r.turn = NoTurn
  BY <1>1, <1>3 DEF TokensRecord, Record
<1>5. Fits(files[s], r)
  BY <1>4 DEF Fits
<1>6. r.turn[2] <= turns'
  BY <1>2, <1>3, <1>4, NoTurnFacts
<1>7. TypeOK'
  BY <1>2, <1>3, <1>4, WriteTypes
<1>8. FilesInv'
  BY <1>2, <1>3, <1>4, <1>5, <1>6, WriteFiles
<1> QED  BY <1>2, <1>4, <1>7, <1>8

LEMMA EndTurnFiles ==
    ASSUME TypeOK, FilesInv, NEW s \in Sessions, NEW t \in AllTurns \cup {NoTurn}, EndTurn(s, t)
    PROVE  TypeOK' /\ FilesInv' /\ \E r \in Record : Write(s, r)
<1>1. PICK r : r = DoneRecord(t)
  OBVIOUS
<1>2. Write(s, r) /\ turns' = turns /\ Current(files[s]) # NoTurn /\ t \in {NoTurn, Current(files[s])}
  BY <1>1 DEF EndTurn
<1>3. MaxTotal \in Nat /\ turns \in Nat /\ turns' \in 0 .. MaxTurns
  BY <1>2, CodexAssumption, CodexTypes DEF TypeOK
<1>4. r \in Record /\ r.kind = "done" /\ r.turn = t
  BY <1>1, <1>3 DEF DoneRecord, Record
<1>5. Fits(files[s], r)
  BY <1>2, <1>4 DEF Fits, Current
<1>6. r.turn[2] <= turns'
  BY <1>2, <1>3, <1>4, NoTurnFacts, WriteFacts
<1>7. TypeOK'
  BY <1>2, <1>3, <1>4, WriteTypes
<1>8. FilesInv'
  BY <1>2, <1>3, <1>4, <1>5, <1>6, WriteFiles
<1> QED  BY <1>2, <1>4, <1>7, <1>8

-----------------------------------------------------------------------------
(* Files that go on, where what is in them with what is still to be copied   *)
(* is as before, or has become a copy of the parent's.                       *)
Longer(f, g) == Agree(f, g, Len(f))

LEMMA MoreFiles ==
    ASSUME TypeOK, FilesInv, files' \in [Sessions -> File],
           \A q \in Sessions : Longer(files[q], files'[q]),
           Wholes' = Wholes, Alive' = Alive, turns' = turns
    PROVE  FilesInv'
<1>1. PICK W, A : W = Wholes /\ A = Alive
  OBVIOUS
<1>2. SUFFICES ASSUME NEW q \in Sessions PROVE FileInv(q, W, files', turns, A)
  BY <1>1 DEF FilesInv
<1>3. FileInv(q, W, files, turns, A)
  BY <1>1 DEF FilesInv
<1>4. W[q] \in File
  BY <1>1, WholeFacts DEF Wholes
<1>5. \A i \in Nat, o \in Sessions : Agree(W[q], files[o], i) => Agree(W[q], files'[o], i)
  <2>1. SUFFICES ASSUME NEW i \in Nat, NEW o \in Sessions, Agree(W[q], files[o], i)
                 PROVE  Agree(W[q], files'[o], i)
    OBVIOUS
  <2>2. files[o] \in File /\ files'[o] \in File
    BY WholeFacts
  <2> QED  BY <2>1, <2>2, AgreeMore DEF Longer
<1>6. \A i \in DOMAIN W[q] : i \in Nat /\ TurnAt(W[q], i) \in AllTurns \cup {NoTurn}
  <2>1. SUFFICES ASSUME NEW i \in 1 .. Len(W[q])
                 PROVE  i \in Nat /\ TurnAt(W[q], i) \in AllTurns \cup {NoTurn}
    BY <1>4 DEF File
  <2>2. i \in 1 .. Len(W[q]) + 1
    BY <1>4 DEF File
  <2> QED  BY <1>4, <2>2, LastStartType, RecordFacts DEF TurnAt
<1>7. \A i \in DOMAIN W[q] : TurnAt(W[q], i) # NoTurn => Agree(W[q], files'[TurnAt(W[q], i)[1]], i)
  <2>1. SUFFICES ASSUME NEW i \in DOMAIN W[q], TurnAt(W[q], i) # NoTurn
                 PROVE  Agree(W[q], files'[TurnAt(W[q], i)[1]], i)
    OBVIOUS
  <2>2. TurnAt(W[q], i)[1] \in Sessions /\ i \in Nat
    BY <1>6, <2>1, TurnFacts
  <2>3. Agree(W[q], files[TurnAt(W[q], i)[1]], i)
    BY <1>3, <2>1 DEF FileInv
  <2> QED  BY <1>5, <2>2, <2>3
<1>8. ParentOf[q] # NoSession =>
          \A i \in DOMAIN W[q], t \in AllTurns \ TurnsOf(q) :
              EndsAt(W[q], t, i) => Agree(W[q], files'[ParentOf[q]], i)
  <2>1. SUFFICES ASSUME ParentOf[q] # NoSession, NEW i \in DOMAIN W[q], NEW t \in AllTurns \ TurnsOf(q),
                        EndsAt(W[q], t, i)
                 PROVE  Agree(W[q], files'[ParentOf[q]], i)
    OBVIOUS
  <2>2. ParentOf[q] \in Sessions /\ i \in Nat
    BY <1>6, <2>1, ParentFacts
  <2>3. Agree(W[q], files[ParentOf[q]], i)
    BY <1>3, <2>1 DEF FileInv
  <2> QED  BY <1>5, <2>2, <2>3
<1> QED  BY <1>3, <1>7, <1>8 DEF FileInv

LEMMA SameSequence ==
    ASSUME NEW V, NEW a \in Seq(V), NEW b \in Seq(V), Len(a) = Len(b), \A i \in 1 .. Len(b) : a[i] = b[i]
    PROVE  a = b
OBVIOUS

LEMMA CopyFiles ==
    ASSUME TypeOK, FilesInv, NEW s \in Sessions, Copy(s)
    PROVE  /\ TypeOK' /\ FilesInv' /\ files' \in [Sessions -> File]
           /\ Wholes' = Wholes /\ \A q \in Sessions : Longer(files[q], files'[q])
<1>1. PICK f, h : f = files[s] /\ h = copying[s]
  OBVIOUS
<1>2. f \in Seq(Record) /\ h \in Seq(Record) /\ h # << >>
  BY <1>1 DEF TypeOK, Copy
<1>3. PICK g, k : g = Append(f, Head(h)) /\ k = Tail(h)
  OBVIOUS
<1>4. Head(h) \in Record /\ k \in Seq(Record) /\ g \in Seq(Record)
  BY <1>2, <1>3
<1>5. g \o k = f \o h
  <2>1. Len(k) = Len(h) - 1 /\ Len(h) >= 1 /\ Head(h) = h[1] /\ \A i \in 1 .. Len(k) : k[i] = h[i + 1]
    BY <1>2, <1>3
  <2>2. Len(g) = Len(f) + 1 /\ g[Len(f) + 1] = Head(h) /\ \A i \in 1 .. Len(f) : g[i] = f[i]
    BY <1>2, <1>3, <1>4
  <2>3. PICK a, b : a = g \o k /\ b = f \o h
    OBVIOUS
  <2>4. Len(f) \in Nat /\ Len(h) \in Nat
    BY <1>2
  <2>5. a \in Seq(Record) /\ Len(a) = Len(g) + Len(k) /\ \A i \in 1 .. Len(a) :
            a[i] = IF i <= Len(g) THEN g[i] ELSE k[i - Len(g)]
    BY <1>4, <2>3
  <2>6. b \in Seq(Record) /\ Len(b) = Len(f) + Len(h) /\ \A i \in 1 .. Len(b) :
            b[i] = IF i <= Len(f) THEN f[i] ELSE h[i - Len(f)]
    BY <1>2, <2>3
  <2>7. Len(a) = Len(b)
    BY <2>1, <2>2, <2>4, <2>5, <2>6
  <2>8. ASSUME NEW i \in 1 .. Len(b) PROVE a[i] = b[i]
    <3>1. CASE i <= Len(f)
      BY <2>2, <2>4, <2>5, <2>6, <2>7, <3>1
    <3>2. CASE i = Len(f) + 1
      <4>1. i - Len(f) = 1 /\ i <= Len(g)
        BY <2>2, <2>4, <3>2
      <4> QED  BY <2>1, <2>2, <2>4, <2>5, <2>6, <2>7, <3>2, <4>1
    <3>3. CASE i > Len(f) + 1
      <4>1. i - Len(g) \in 1 .. Len(k) /\ (i - Len(g)) + 1 = i - Len(f) /\ ~(i <= Len(g)) /\ ~(i <= Len(f))
        BY <2>1, <2>2, <2>4, <2>6, <3>3
      <4>2. k[i - Len(g)] = h[i - Len(f)]
        BY <2>1, <4>1
      <4> QED  BY <2>5, <2>6, <2>7, <4>1, <4>2
    <3> QED  BY <2>4, <3>1, <3>2, <3>3
  <2>9. a = b
    BY <2>5, <2>6, <2>7, <2>8, SameSequence
  <2> QED  BY <2>3, <2>9
<1>6. files' = [files EXCEPT ![s] = g] /\ copying' = [copying EXCEPT ![s] = k]
  BY <1>1, <1>3 DEF Copy
<1>7. /\ files' \in [Sessions -> Seq(Record)] /\ copying' \in [Sessions -> Seq(Record)]
      /\ files'[s] = g /\ copying'[s] = k
      /\ \A q \in Sessions \ {s} : files'[q] = files[q] /\ copying'[q] = copying[q]
  BY <1>4, <1>6 DEF TypeOK
<1>8. Wholes' = Wholes
  <2>1. \A q \in Sessions : files'[q] \o copying'[q] = files[q] \o copying[q]
    BY <1>1, <1>5, <1>7
  <2> QED  BY <2>1 DEF Wholes, Whole
<1>9. \A q \in Sessions : Longer(files[q], files'[q])
  <2>1. SUFFICES ASSUME NEW q \in Sessions PROVE Agree(files[q], files'[q], Len(files[q]))
    BY DEF Longer
  <2>2. CASE q = s
    <3>1. f \in File /\ Head(h) \in Record
      BY <1>2, <1>4 DEF File
    <3>2. Agree(f, g, Len(f))
      BY <1>3, <3>1, AppendFacts
    <3> QED  BY <1>1, <1>7, <2>2, <3>2
  <2>3. CASE q # s
    BY <1>7, <2>3, WholeFacts DEF Agree, File
  <2> QED  BY <2>2, <2>3
<1>10. UNCHANGED <<world, path, started, written, turns, moves, store, round, cycleVars, queued>>
  BY DEF Copy
<1>11. Store' = Store /\ World' = World /\ Alive' = Alive
  BY <1>10 DEF Store, World, Alive, Exists
<1>12. TypeOK'
  BY <1>7, <1>10, <1>11 DEF TypeOK, cycleVars
<1>13. files' \in [Sessions -> File]
  BY <1>7 DEF File
<1> QED  BY <1>8, <1>9, <1>10, <1>11, <1>12, <1>13, MoreFiles

LEMMA MoveFiles ==
    ASSUME TypeOK, FilesInv, NEW s \in Sessions, Move(s)
    PROVE  TypeOK' /\ FilesInv'
<1>1. UNCHANGED <<world, files, copying, started, written, turns, store, round, cycleVars, queued>>
  BY DEF Move
<1>2. Store' = Store /\ World' = World /\ Alive' = Alive /\ Wholes' = Wholes
  BY <1>1 DEF Store, World, Alive, Exists, Wholes, Whole
<1>3. path' \in [Sessions -> {0, 1}]
  <2>1. path[s] \in {0, 1} /\ path' = [path EXCEPT ![s] = 1 - @]
    BY DEF TypeOK, Move
  <2>2. 1 - path[s] \in {0, 1}
    BY <2>1
  <2> QED  BY <2>1, <2>2 DEF TypeOK
<1>4. moves' \in 0 .. World.moves
  BY CodexTypes DEF TypeOK, Move
<1>5. TypeOK'
  BY <1>1, <1>2, <1>3, <1>4 DEF TypeOK, cycleVars
<1>6. FilesInv'
  BY <1>1, <1>2 DEF FilesInv
<1> QED  BY <1>5, <1>6

(* A fork begins with what its parent has. *)
LEMMA ForkFiles ==
    ASSUME TypeOK, FilesInv, NEW s \in Sessions, Fork(s)
    PROVE  /\ TypeOK' /\ FilesInv' /\ files' \in [Sessions -> File]
           /\ started' = [started EXCEPT ![s] = round]
           /\ \A q \in Sessions \ {s} : Wholes'[q] = Wholes[q]
           /\ \A o \in Sessions : Longer(files[o], files'[o])
<1>1. PICK p \in Sessions : p = ParentOf[s] /\ p # s
  BY ParentFacts DEF Fork
<1>2. PICK f : f = files[p]
  OBVIOUS
<1>3. /\ ParentOf[s] # NoSession /\ ~Exists(s) /\ Exists(p) /\ copying[p] = << >>
      /\ LastStart(f, Len(f) + 1) = NoTurn
  BY <1>1, <1>2 DEF Fork, Current
<1>4. PICK W, V : W = Wholes /\ V = Wholes'
  OBVIOUS
<1>5. PICK A, B : A = Alive /\ B = Alive'
  OBVIOUS
<1>6. \A q \in Sessions : FileInv(q, W, files, turns, A)
  BY <1>4, <1>5 DEF FilesInv
<1>7. \A q \in Sessions : W[q] \in File /\ W[q] = files[q] \o copying[q] /\ files[q] \in File
  BY <1>4, WholeFacts DEF Wholes, Whole
<1>8. f \in File /\ W[p] = f /\ f # << >>
  <2>1. p \in A /\ W[p] # << >>
    BY <1>3, <1>5, <1>6 DEF FileInv, Alive
  <2>2. W[p] = f
    BY <1>2, <1>3, <1>4, WholeFacts DEF Wholes
  <2> QED  BY <1>7, <2>1, <2>2
<1>9. W[s] = << >> /\ files[s] = << >> /\ copying[s] = << >>
  <2>1. W[s] = << >>
    BY <1>3, <1>5, <1>6 DEF FileInv, Alive
  <2>2. files[s] \in Seq(Record) /\ copying[s] \in Seq(Record) /\ files[s] \o copying[s] = << >>
    BY <1>7, <2>1 DEF TypeOK
  <2> QED  BY <2>1, <2>2
<1>10. \/ files' = [files EXCEPT ![s] = f] /\ copying' = copying
       \/ copying' = [copying EXCEPT ![s] = f] /\ files' = files
  BY <1>1, <1>2 DEF Fork
<1>11. UNCHANGED <<world, path, written, turns, moves, store, round, cycleVars, queued>>
  BY DEF Fork
<1>12. started' = [started EXCEPT ![s] = round]
  BY DEF Fork
<1>13. /\ files' \in [Sessions -> Seq(Record)] /\ copying' \in [Sessions -> Seq(Record)]
       /\ \A q \in Sessions \ {s} : files'[q] = files[q] /\ copying'[q] = copying[q]
       /\ \/ files'[s] = f /\ copying'[s] = << >>
          \/ files'[s] = << >> /\ copying'[s] = f
  BY <1>8, <1>9, <1>10 DEF File, TypeOK
<1>14. V[s] = f /\ \A q \in Sessions \ {s} : V[q] = W[q]
  <2>1. V = [q \in Sessions |-> files'[q] \o copying'[q]]
    BY <1>4 DEF Wholes, Whole
  <2>2. f \o << >> = f /\ << >> \o f = f
    BY <1>8 DEF File
  <2> QED  BY <1>7, <1>13, <2>1, <2>2
<1>15. B = A \cup {s} /\ p \in A /\ s \notin A
  <2>1. started'[s] # Never /\ \A q \in Sessions \ {s} : started'[q] = started[q]
    BY <1>12, CodexTypes DEF TypeOK
  <2> QED  BY <1>3, <1>5, <2>1 DEF Alive, Exists
<1>16. TypeOK'
  <2>1. Store' = Store /\ World' = World
    BY <1>11 DEF Store, World
  <2>2. round \in Never .. World.rounds
    BY CodexTypes DEF TypeOK
  <2>3. started' \in [Sessions -> Never .. World.rounds]
    BY <1>12, <2>2 DEF TypeOK
  <2> QED  BY <1>11, <1>13, <2>1, <2>3 DEF TypeOK, cycleVars
<1>17. \A w : \A i \in Nat, o \in Sessions : i > 0 /\ Agree(w, files[o], i) => Agree(w, files'[o], i) /\ o # s
  BY <1>9, <1>13 DEF Agree
<1>18. \A q \in Sessions : Longer(files[q], files'[q])
  <2>1. \A q \in Sessions \ {s} : Agree(files[q], files'[q], Len(files[q]))
    BY <1>7, <1>13 DEF Agree, File
  <2>2. Len(files[s]) = 0
    BY <1>9
  <2>3. 0 <= Len(files'[s])
    BY <1>13
  <2>4. Agree(files[s], files'[s], Len(files[s]))
    BY <2>2, <2>3 DEF Agree
  <2> QED  BY <2>1, <2>4 DEF Longer
<1>19. \A q \in Sessions : \A i \in DOMAIN W[q] :
            i \in Nat /\ i > 0 /\ i \in 1 .. Len(W[q]) /\ TurnAt(W[q], i) \in AllTurns \cup {NoTurn}
  <2>1. SUFFICES ASSUME NEW q \in Sessions, NEW i \in 1 .. Len(W[q])
                 PROVE  i \in Nat /\ i > 0 /\ TurnAt(W[q], i) \in AllTurns \cup {NoTurn}
    BY <1>7 DEF File
  <2>2. W[q] \in File
    BY <1>7
  <2>3. i \in 1 .. Len(W[q]) + 1
    BY <2>2 DEF File
  <2> QED  BY <2>2, <2>3, LastStartType, RecordFacts DEF TurnAt
<1>20. \A q \in Sessions : \A i \in DOMAIN W[q] :
            TurnAt(W[q], i) # NoTurn => /\ Agree(W[q], files[TurnAt(W[q], i)[1]], i)
                                        /\ Agree(W[q], files'[TurnAt(W[q], i)[1]], i)
                                        /\ TurnAt(W[q], i)[1] # s
  <2>1. SUFFICES ASSUME NEW q \in Sessions, NEW i \in DOMAIN W[q], TurnAt(W[q], i) # NoTurn
                 PROVE  /\ Agree(W[q], files[TurnAt(W[q], i)[1]], i)
                        /\ Agree(W[q], files'[TurnAt(W[q], i)[1]], i)
                        /\ TurnAt(W[q], i)[1] # s
    OBVIOUS
  <2>2. TurnAt(W[q], i)[1] \in Sessions /\ i \in Nat /\ i > 0
    BY <1>19, <2>1, TurnFacts
  <2>3. Agree(W[q], files[TurnAt(W[q], i)[1]], i)
    BY <1>6, <2>1 DEF FileInv
  <2> QED  BY <1>17, <2>2, <2>3
<1>21. ASSUME NEW q \in Sessions, ParentOf[q] = s, NEW i \in DOMAIN f
       PROVE  f[i].turn[1] # q
  <2>1. q \notin A /\ W[q] = << >>
    <3>1. q \in A => s \in A
      BY <1>6, <1>21, CodexAssumption DEF FileInv
    <3>2. q \in A <=> W[q] # << >>
      BY <1>6 DEF FileInv
    <3> QED  BY <1>15, <3>1, <3>2
  <2>2. files[q] = << >>
    <3>1. files[q] \in Seq(Record) /\ copying[q] \in Seq(Record) /\ files[q] \o copying[q] = << >>
      BY <1>7, <2>1 DEF TypeOK
    <3> QED  BY <3>1
  <2>3. SUFFICES ASSUME f[i].turn[1] = q PROVE FALSE
    OBVIOUS
  <2>4. i \in 1 .. Len(f)
    BY <1>8, <1>19
  <2>5. f[i].turn # NoTurn /\ f[i].kind \in {"start", "tokens", "done"}
    BY <1>8, <2>3, <2>4, NoTurnFacts, CodexAssumption, RecordFacts
  <2>6. TurnAt(f, i) = f[i].turn
    <3>1. WellFormed(f)
      BY <1>6, <1>8 DEF FileInv
    <3> QED  BY <2>5, <3>1, <1>21 DEF WellFormed, TurnAt
  <2>7. Agree(f, files[q], i)
    BY <1>8, <1>20, <1>21, <2>3, <2>5, <2>6
  <2> QED  BY <2>2, <2>4, <2>7 DEF Agree
<1>22. ASSUME NEW q \in Sessions, q # s PROVE FileInv(q, V, files', turns', B)
  <2>1. FileInv(q, W, files, turns, A) /\ V[q] = W[q]
    BY <1>6, <1>14, <1>22
  <2>2. \A i \in DOMAIN V[q] : TurnAt(V[q], i) # NoTurn => Agree(V[q], files'[TurnAt(V[q], i)[1]], i)
    BY <1>20, <2>1
  <2>3. q \in B <=> V[q] # << >>
    BY <1>15, <1>22, <2>1 DEF FileInv
  <2>4. ParentOf[q] # NoSession =>
          /\ q \in B => ParentOf[q] \in B
          /\ \A i \in DOMAIN V[q], t \in AllTurns \ TurnsOf(q) :
                EndsAt(V[q], t, i) => Agree(V[q], files'[ParentOf[q]], i)
          /\ \A i \in DOMAIN V[ParentOf[q]] : V[ParentOf[q]][i].turn[1] # q
    <3>1. SUFFICES ASSUME ParentOf[q] # NoSession
                   PROVE
          /\ q \in B => ParentOf[q] \in B
          /\ \A i \in DOMAIN V[q], t \in AllTurns \ TurnsOf(q) :
                EndsAt(V[q], t, i) => Agree(V[q], files'[ParentOf[q]], i)
          /\ \A i \in DOMAIN V[ParentOf[q]] : V[ParentOf[q]][i].turn[1] # q
      OBVIOUS
    <3>2. PICK o \in Sessions : o = ParentOf[q]
      BY <3>1, ParentFacts
    <3>3. /\ q \in A => o \in A
          /\ \A i \in DOMAIN W[q], t \in AllTurns \ TurnsOf(q) :
                EndsAt(W[q], t, i) => Agree(W[q], files[o], i)
          /\ \A i \in DOMAIN W[o] : W[o][i].turn[1] # q
      BY <2>1, <3>1, <3>2 DEF FileInv
    <3>4. q \in B => o \in B
      BY <1>15, <1>22, <3>3
    <3>5. \A i \in DOMAIN V[q], t \in AllTurns \ TurnsOf(q) :
                EndsAt(V[q], t, i) => Agree(V[q], files'[o], i)
      BY <1>17, <1>19, <2>1, <3>3
    <3>6. \A i \in DOMAIN V[o] : V[o][i].turn[1] # q
      BY <1>14, <1>21, <3>2, <3>3
    <3> QED  BY <3>2, <3>4, <3>5, <3>6
  <2> QED  BY <1>11, <2>1, <2>2, <2>3, <2>4 DEF FileInv
<1>23. FileInv(s, V, files', turns', B)
  <2>1. FileInv(p, W, files, turns, A) /\ V[s] = W[p] /\ V[p] = W[p]
    BY <1>1, <1>6, <1>8, <1>14
  <2>2. LastStart(V[s], Len(V[s]) + 1)[1] \in {s, NoSession}
    BY <1>3, <1>14, NoTurnFacts
  <2>3. \A i \in DOMAIN V[s], t \in AllTurns \ TurnsOf(s) : Agree(V[s], files'[p], i)
    <3>1. files'[p] = f
      BY <1>1, <1>2, <1>13
    <3>2. \A i \in 1 .. Len(f) : Agree(f, f, i)
      BY <1>8 DEF Agree, File
    <3> QED  BY <1>8, <1>14, <1>19, <3>1, <3>2
  <2>4. \A i \in DOMAIN V[p] : V[p][i].turn[1] # s
    <3>1. FileInv(s, W, files, turns, A)
      BY <1>6
    <3> QED  BY <1>1, <1>3, <2>1, <3>1 DEF FileInv
  <2>5. \A i \in DOMAIN V[s] : TurnAt(V[s], i) # NoTurn => Agree(V[s], files'[TurnAt(V[s], i)[1]], i)
    BY <1>20, <2>1
  <2>6. WellFormed(V[s]) /\ \A i \in DOMAIN V[s] : V[s][i].turn[2] <= turns'
    BY <1>11, <2>1 DEF FileInv
  <2> QED  BY <1>1, <1>3, <1>8, <1>14, <1>15, <2>2, <2>3, <2>4, <2>5, <2>6 DEF FileInv
<1>24. FilesInv'
  BY <1>4, <1>5, <1>22, <1>23 DEF FilesInv
<1>25. files' \in [Sessions -> File]
  BY <1>13 DEF File
<1> QED  BY <1>4, <1>12, <1>14, <1>16, <1>18, <1>24, <1>25

-----------------------------------------------------------------------------
(* What the files of a session are: what was read of them so far is the      *)
(* beginning of what there will be.                                         *)
LEMMA PrefixWell ==
    ASSUME NEW f \in File, NEW g \in File, Agree(f, g, Len(f)), WellFormed(g)
    PROVE  WellFormed(f)
<1>1. Len(f) \in Nat /\ DOMAIN f = 1 .. Len(f) /\ DOMAIN g = 1 .. Len(g) /\ Len(f) <= Len(g)
  BY DEF File, Agree
<1>2. SUFFICES ASSUME NEW i \in 1 .. Len(f)
               PROVE
        /\ f[i].kind = "start" =>
              /\ f[i].turn # NoTurn
              /\ \/ LastStart(f, i) = f[i].turn
                 \/ \A j \in 1 .. i - 1 : f[j].turn # f[i].turn
        /\ f[i].kind = "tokens" => f[i].turn = NoTurn
        /\ f[i].kind = "done" =>
              LastStart(f, i) # NoTurn /\ f[i].turn \in {NoTurn, LastStart(f, i)}
  BY <1>1 DEF WellFormed
<1>3. \A j \in 1 .. i : g[j] = f[j]
  BY <1>1 DEF Agree
<1>4. LastStart(g, i) = LastStart(f, i) /\ i \in DOMAIN g
  <2>1. i \in 1 .. Len(f) + 1 /\ i \in 1 .. Len(g)
    BY <1>1, <1>2 DEF File
  <2> QED  BY <1>1, <2>1, LastStartAgree
<1>5. \A j \in 1 .. i - 1 : g[j].turn = f[j].turn
  BY <1>3
<1> QED  BY <1>3, <1>4, <1>5 DEF WellFormed

LEMMA SessionFacts ==
    ASSUME TypeOK, FilesInv, NEW s \in Sessions
    PROVE  /\ files[s] \in File /\ Whole(s) \in File
           /\ WellFormed(files[s]) /\ WellFormed(Whole(s))
           /\ Agree(files[s], Whole(s), Len(files[s]))
           /\ Exists(s) <=> Whole(s) # << >>
<1>1. /\ files[s] \in File /\ Whole(s) \in File /\ Agree(files[s], Whole(s), Len(files[s]))
  BY WholeFacts
<1>2. WellFormed(Whole(s)) /\ (Exists(s) <=> Whole(s) # << >>)
  BY DEF FilesInv, FileInv, Wholes, Alive
<1> QED  BY <1>1, <1>2, PrefixWell

-----------------------------------------------------------------------------
(* Codex goes on: of the sessions that were there the files go on, by records *)
(* that end only turns of their own, and nothing else changes.               *)
GoesOn ==
    /\ \A q \in Sessions :
        /\ Longer(files[q], files'[q])
        /\ Exists(q) => /\ started'[q] = started[q]
                        /\ \/ Whole(q)' = Whole(q)
                           \/ \E r \in Record : Whole(q)' = Append(Whole(q), r)
    /\ UNCHANGED <<store, round, cycleVars, queued, split>>

LEMMA GoesOnFiles ==
    ASSUME TypeOK, FilesInv, TypeOK', FilesInv', GoesOn, NEW s \in Sessions
    PROVE  /\ files[s] \in File /\ files'[s] \in File
           /\ WellFormed(files[s]) /\ WellFormed(files'[s])
           /\ Agree(files[s], files'[s], Len(files[s]))
           /\ Exists(s) => Exists(s)' /\ started'[s] = started[s]
<1>1. files[s] \in File /\ WellFormed(files[s])
  BY SessionFacts
<1>2. files'[s] \in File /\ WellFormed(files'[s])
  <2>1. /\ files'[s] \in Seq(Record) /\ copying'[s] \in Seq(Record)
    BY DEF TypeOK
  <2>2. PICK f, g, w : f = files'[s] /\ g = copying'[s] /\ w = f \o g
    OBVIOUS
  <2>3. w \in File /\ f \in File /\ Agree(f, w, Len(f))
    <3>1. f \in Seq(Record) /\ g \in Seq(Record)
      BY <2>1, <2>2
    <3>2. w \in Seq(Record) /\ Len(w) = Len(f) + Len(g) /\ \A i \in 1 .. Len(f) : w[i] = f[i]
      <4>1. w = f \o g
        BY <2>2
      <4>2. w \in Seq(Record) /\ Len(w) = Len(f) + Len(g)
        BY <3>1, <4>1
      <4>3. \A i \in 1 .. Len(f) : w[i] = f[i]
        BY <3>1, <4>1
      <4> QED  BY <4>2, <4>3
    <3>3. Len(f) \in Nat /\ Len(g) \in Nat
      BY <3>1
    <3> QED  BY <3>1, <3>2, <3>3 DEF File, Agree
  <2>4. WellFormed(w)
    <3>1. Wholes' = [q \in Sessions |-> files'[q] \o copying'[q]]
      BY DEF Wholes, Whole
    <3>2. FileInv(s, Wholes', files', turns', Alive')
      BY DEF FilesInv
    <3> QED  BY <2>2, <3>1, <3>2 DEF FileInv
  <2> QED  BY <2>2, <2>3, <2>4, PrefixWell
<1>3. Agree(files[s], files'[s], Len(files[s]))
  BY DEF GoesOn, Longer
<1>4. Exists(s) => Exists(s)' /\ started'[s] = started[s]
  BY DEF GoesOn, Exists
<1> QED  BY <1>1, <1>2, <1>3, <1>4

LEMMA GoesOnBehind ==
    ASSUME TypeOK, FilesInv, GoesOn, NEW s \in Sessions, Exists(s),
           NEW c \in Cursor, OwnBehind(c, s, Whole(s))
    PROVE  OwnBehind(c, s, Whole(s))'
<1>1. PICK f, g : f = Whole(s) /\ g = Whole(s)'
  OBVIOUS
<1>2. f \in File /\ WellFormed(f) /\ LastStart(f, Len(f) + 1)[1] \in {s, NoSession}
  <2>1. f \in File /\ WellFormed(f)
    BY <1>1, SessionFacts
  <2>2. LastStart(f, Len(f) + 1)[1] \in {s, NoSession}
    BY <1>1 DEF FilesInv, FileInv, Wholes
  <2> QED  BY <2>1, <2>2
<1>3. OwnBehind(c, s, f)
  BY <1>1
<1>4. SUFFICES OwnBehind(c, s, g)
  BY <1>1 DEF OwnBehind
<1>5. CASE g = f
  BY <1>3, <1>5
<1>6. ASSUME NEW r \in Record, g = Append(f, r)
      PROVE  OwnBehind(c, s, g)
  <2>1. SUFFICES ASSUME NEW i \in c.offset + 1 .. Len(g), NEW t \in AllTurns, EndsAt(g, t, i)
                 PROVE  t[1] = s
    BY DEF OwnBehind
  <2>2. /\ g \in File /\ Len(g) = Len(f) + 1 /\ Agree(f, g, Len(f)) /\ c.offset \in Nat /\ Len(f) \in Nat
        /\ \A j \in 1 .. Len(f) + 1 : LastStart(g, j) = LastStart(f, j)
    BY <1>2, <1>6, AppendFacts, CursorFacts DEF File
  <2>3. CASE i = Len(f) + 1
    <3>1. LastStart(f, Len(f) + 1) = t
      BY <2>1, <2>2, <2>3 DEF EndsAt
    <3> QED  BY <1>2, <3>1, TurnFacts
  <2>4. CASE i \in c.offset + 1 .. Len(f)
    <3>1. EndsAt(f, t, i)
      BY <1>2, <2>1, <2>2, <2>4, AgreeWell
    <3> QED  BY <1>3, <2>4, <3>1 DEF OwnBehind
  <2> QED  BY <2>1, <2>2, <2>3, <2>4
<1>7. g = f \/ \E r \in Record : g = Append(f, r)
  BY <1>1 DEF GoesOn
<1> QED  BY <1>5, <1>6, <1>7

LEMMA GoesOnCursor ==
    ASSUME TypeOK, FilesInv, TypeOK', FilesInv', GoesOn,
           NEW c \in Cursor, NEW st, NEW Q, CursorInv(c, st, Q)
    PROVE  CursorInv(c, st, Q)'
<1>1. PICK s \in Sessions : s = c.path[1]
  BY CursorFacts
<1>2. PICK f, g : f = files[s] /\ g = files'[s]
  OBVIOUS
<1>3. f \in File /\ g \in File /\ Agree(f, g, Len(f))
  BY <1>2, GoesOnFiles
<1>4. Exists(s) /\ Known(c, f) /\ (c.active.inherited => c.active.turn[1] # s)
  BY <1>1, <1>2 DEF CursorInv
<1>5. Exists(s)'
  BY <1>4, GoesOnFiles
<1>6. Agree(f, g, c.offset)
  BY <1>3, <1>4, CursorFacts DEF Known, Agree, File
<1>7. Known(c, g) /\ (Exact(c, f) => Exact(c, g))
  BY <1>3, <1>4, <1>6, KnownAgree
<1>8. s \notin split' => OwnBehind(c, s, Whole(s))'
  <2>1. split' = split
    BY DEF GoesOn
  <2>2. s \notin split => OwnBehind(c, s, Whole(s))
    BY <1>1 DEF CursorInv
  <2> QED  BY <1>4, <2>1, <2>2, GoesOnBehind
<1>9. s \notin st.seeded => Exact(c, g) /\ Reported(c, s, g, Q)
  <2>1. s \notin st.seeded => Exact(c, f) /\ Reported(c, s, f, Q)
    BY <1>1, <1>2 DEF CursorInv
  <2> QED  BY <1>3, <1>6, <1>7, <2>1, ReportedAgree
<1> QED  BY <1>1, <1>2, <1>4, <1>5, <1>7, <1>8, <1>9 DEF CursorInv

LEMMA KeyTypes ==
    ASSUME TypeOK
    PROVE  /\ \A s \in Sessions : s \in Keys
           /\ \A k \in Keys : store.cursors[k] \in Cursor \cup {NoCursor}
                              /\ next.cursors[k] \in Cursor \cup {NoCursor}
           /\ \A e \in queued \cup events :
                /\ e.session \in Keys /\ e.turn \in AllTurns /\ e.turn # NoTurn
                /\ e.turn[1] \in Sessions /\ e.turn \in TurnsOf(e.turn[1])
                /\ e.tokens \in 1 .. MaxTotal
<1>1. \A s \in Sessions : s \in Keys
  BY DEF Keys
<1>2. \A k \in Keys : store.cursors[k] \in Cursor \cup {NoCursor}
                      /\ next.cursors[k] \in Cursor \cup {NoCursor}
  BY DEF TypeOK, Store
<1>3. \A e \in queued \cup events : e.session \in Keys /\ e.turn \in AllTurns /\ e.tokens \in 1 .. MaxTotal
  BY DEF TypeOK, UsageEvent
<1> QED  BY <1>1, <1>2, <1>3, TurnFacts

LEMMA GoesOnOnce ==
    ASSUME TypeOK, FilesInv, TypeOK', FilesInv', GoesOn, NEW st, NEW Q, NEW e,
           e.turn \in AllTurns, \A k \in Keys : st.cursors[k] \in Cursor \cup {NoCursor},
           CursorsInv(st, Q), OnceInv(st, e)
    PROVE  OnceInv(st, e)'
<1>1. PICK s \in Sessions : s = e.turn[1]
  BY TurnFacts
<1>2. PICK f, g : f = files[s] /\ g = files'[s]
  OBVIOUS
<1>3. f \in File /\ g \in File /\ Agree(f, g, Len(f)) /\ WellFormed(g)
  BY <1>2, GoesOnFiles
<1>4. ASSUME NEW k \in Keys, Reads(st, s, st.cursors[k])
      PROVE  LET c == st.cursors[k] IN
             Past(c, g, e.turn) \/ e \in Scan(Session(s, {}), c, g).events
  <2>1. PICK c \in Cursor : c = st.cursors[k] /\ c # NoCursor /\ c.path[1] = s
    BY <1>4 DEF Reads
  <2>2. Known(c, f)
    BY <1>2, <2>1 DEF CursorsInv, CursorInv
  <2>3. Agree(f, g, c.offset)
    BY <1>3, <2>2, CursorFacts DEF Known, Agree, File
  <2>4. Past(c, f, e.turn) \/ e \in Scan(Session(s, {}), c, f).events
    BY <1>1, <1>2, <1>4, <2>1 DEF OnceInv, EventsFrom
  <2>5. CASE Past(c, f, e.turn)
    BY <1>3, <2>1, <2>3, <2>5, PastAgree
  <2>6. CASE e \in Scan(Session(s, {}), c, f).events
    BY <1>3, <2>1, <2>2, <2>6, ScanMore
  <2> QED  BY <2>1, <2>4, <2>5, <2>6
<1>5. ASSUME st.cursors[s] = NoCursor
      PROVE  Blocked(s)' \/ \A p \in Sessions \X {0, 1} : e \in Scan(Session(s, {}), NewCursor(p), g).events
  <2>1. CASE Blocked(s)
    <3>1. LegacyOf[s] # NoSession /\ started[s] = 0
      BY <2>1 DEF Blocked
    <3>2. Exists(s)
      BY <3>1 DEF Exists, Never
    <3> QED  BY <3>1, <3>2, GoesOnFiles DEF Blocked
  <2>2. CASE ~Blocked(s)
    <3>1. SUFFICES ASSUME NEW p \in Sessions \X {0, 1} PROVE e \in Scan(Session(s, {}), NewCursor(p), g).events
      OBVIOUS
    <3>2. e \in Scan(Session(s, {}), NewCursor(p), f).events
      BY <1>1, <1>2, <1>5, <2>2 DEF OnceInv, EventsFrom
    <3>3. NewCursor(p) \in Cursor /\ Known(NewCursor(p), f)
      BY <1>3, NewCursorFacts
    <3> QED  BY <1>3, <3>2, <3>3, ScanMore
  <2> QED  BY <2>1, <2>2
<1> QED  BY <1>1, <1>2, <1>4, <1>5 DEF OnceInv, EventsFrom, Reads

LEMMA GoesOnUse ==
    ASSUME TypeOK, FilesInv, TypeOK', FilesInv', GoesOn, NEW st, NEW e, e.turn \in AllTurns, UseOf(e, st)
    PROVE  UseOf(e, st)'
<1>1. PICK s \in Sessions : s = e.turn[1] /\ e.turn # NoTurn
  BY TurnFacts
<1>2. PICK f, g : f = files[s] /\ g = files'[s]
  OBVIOUS
<1>3. f \in File /\ g \in File /\ Agree(f, g, Len(f)) /\ Len(f) \in Nat
  BY <1>2, GoesOnFiles DEF File
<1>4. PICK end \in 1 .. Len(f) :
        /\ EndsAt(f, e.turn, end)
        /\ e.tokens <= Used(f, e.turn, end)
        /\ e.session \notin st.seeded => e.tokens = Used(f, e.turn, end) /\ ~ResetIn(f, e.turn, end)
  BY <1>1, <1>2 DEF UseOf
<1>5. /\ EndsAt(g, e.turn, end)
      /\ Used(f, e.turn, end) = Used(g, e.turn, end)
      /\ ResetIn(f, e.turn, end) <=> ResetIn(g, e.turn, end)
  BY <1>1, <1>3, <1>4, EndAgree
<1>6. end \in 1 .. Len(g)
  BY <1>3 DEF Agree, File
<1> QED  BY <1>1, <1>2, <1>4, <1>5, <1>6 DEF UseOf

LEMMA GoesOnInv ==
    ASSUME IInv, TypeOK', FilesInv', GoesOn
    PROVE  IInv'
<1>1. PICK S, N, Q, E : S = store /\ N = next /\ Q = queued /\ E = events
  OBVIOUS
<1>2. store' = S /\ next' = N /\ queued' = Q /\ events' = E /\ phase' = phase
      /\ todo' = todo /\ found' = found /\ split' = split
  BY <1>1 DEF GoesOn, cycleVars
<1>3. TypeOK /\ FilesInv
  BY DEF IInv
<1>4. \A k \in Keys : S.cursors[k] \in Cursor \cup {NoCursor} /\ N.cursors[k] \in Cursor \cup {NoCursor}
  BY <1>1, <1>3, KeyTypes
<1>5. CursorsInv(S, Q) /\ CursorsInv(N, Q \cup E)
  BY <1>1 DEF IInv
<1>6. CursorsInv(S, Q)' /\ CursorsInv(N, Q \cup E)'
  <2>1. ASSUME NEW k \in Keys, S.cursors[k] # NoCursor PROVE CursorInv(S.cursors[k], S, Q)'
    <3>1. PICK c \in Cursor : c = S.cursors[k]
      BY <1>4, <2>1
    <3>2. CursorInv(c, S, Q)
      BY <1>5, <2>1, <3>1 DEF CursorsInv
    <3>3. CursorInv(c, S, Q)'
      BY <1>3, <3>2, GoesOnCursor
    <3> QED  BY <3>1, <3>3
  <2>2. ASSUME NEW k \in Keys, N.cursors[k] # NoCursor PROVE CursorInv(N.cursors[k], N, Q \cup E)'
    <3>1. PICK c \in Cursor : c = N.cursors[k]
      BY <1>4, <2>2
    <3>2. CursorInv(c, N, Q \cup E)
      BY <1>5, <2>2, <3>1 DEF CursorsInv
    <3>3. CursorInv(c, N, Q \cup E)'
      BY <1>3, <3>2, GoesOnCursor
    <3> QED  BY <3>1, <3>3
  <2> QED  BY <2>1, <2>2 DEF CursorsInv
<1>7. LegacyInv(S)' /\ LegacyInv(N)'
  <2>1. ASSUME NEW st, NEW P, CursorsInv(st, P), LegacyInv(st)
        PROVE  LegacyInv(st)'
    <3>1. SUFFICES ASSUME NEW s \in Sessions, st.cursors[s] = NoCursor, LegacyOf[s] # NoSession,
                          st.cursors[LegacyOf[s]] # NoCursor, st.cursors[LegacyOf[s]].path[1] = s
                   PROVE  started'[s] = 0
      BY DEF LegacyInv
    <3>2. started[s] = 0
      BY <2>1, <3>1 DEF LegacyInv
    <3>3. Exists(s)
      BY <3>2 DEF Exists, Never
    <3> QED  BY <1>3, <3>2, <3>3, GoesOnFiles
  <2>2. LegacyInv(S) /\ LegacyInv(N)
    BY <1>1 DEF IInv
  <2> QED  BY <1>5, <2>1, <2>2
<1>8. NextInv'
  <2>1. \A s \in Sessions : Exists(s) => Exists(s)'
    BY <1>3, GoesOnFiles
  <2>2. found \subseteq Sessions
    BY <1>3 DEF TypeOK
  <2> QED  BY <1>1, <1>2, <2>1, <2>2 DEF IInv, NextInv
<1>9. EventsInv'
  <2>1. \A e \in Q \cup E : e.turn \in AllTurns
    BY <1>1, <1>3, KeyTypes
  <2>2. \A e \in Q \cup E : UseOf(e, S)'
    <3>1. \A e \in Q \cup E : UseOf(e, S)
      BY <1>1 DEF IInv, EventsInv
    <3> QED  BY <1>3, <2>1, <3>1, GoesOnUse
  <2>3. \A e \in Q \cup E : OnceInv(S, e) => OnceInv(S, e)'
    BY <1>3, <1>4, <1>5, <2>1, GoesOnOnce
  <2>4. \A e \in Q \cup E : OnceInv(N, e) => OnceInv(N, e)'
    BY <1>3, <1>4, <1>5, <2>1, GoesOnOnce
  <2>5. EventsInv
    BY DEF IInv
  <2> QED  BY <1>1, <1>2, <2>2, <2>3, <2>4, <2>5 DEF EventsInv
<1>10. store'.cutoverAt # 0 /\ (phase' \in {"idle", "commit"} => events' \subseteq queued')
  BY <1>1, <1>2 DEF IInv
<1> QED  BY <1>2, <1>6, <1>7, <1>8, <1>9, <1>10 DEF IInv

LEMMA WriteGoesOn ==
    ASSUME TypeOK, FilesInv, NEW s \in Sessions, NEW r \in Record, Write(s, r)
    PROVE  GoesOn
<1>1. PICK f, g : f = files[s] /\ g = Append(f, r)
  OBVIOUS
<1>2. f \in File /\ Whole(s) = f /\ copying[s] = << >> /\ g \in File /\ Agree(f, g, Len(f))
  BY <1>1, WholeFacts, AppendFacts DEF Write
<1>3. /\ files' = [files EXCEPT ![s] = g] /\ copying' = copying
      /\ started' = [started EXCEPT ![s] = IF @ = Never THEN round ELSE @]
      /\ UNCHANGED <<store, round, cycleVars, queued, split>>
  BY <1>1 DEF Write
<1>4. files'[s] = g /\ \A q \in Sessions \ {s} : files'[q] = files[q]
  BY <1>3 DEF TypeOK
<1>5. Whole(s)' = Append(Whole(s), r)
  <2>1. g \o << >> = g
    BY <1>2 DEF File
  <2> QED  BY <1>1, <1>2, <1>3, <1>4, <2>1 DEF Whole
<1>6. \A q \in Sessions \ {s} : Whole(q)' = Whole(q)
  BY <1>3, <1>4 DEF Whole
<1>7. \A q \in Sessions : Longer(files[q], files'[q])
  <2>1. \A q \in Sessions \ {s} : Agree(files[q], files'[q], Len(files[q]))
    BY <1>4, WholeFacts DEF Agree, File
  <2> QED  BY <1>1, <1>2, <1>4, <2>1 DEF Longer
<1>8. \A q \in Sessions : Exists(q) => started'[q] = started[q]
  BY <1>3 DEF TypeOK, Exists
<1> QED  BY <1>3, <1>5, <1>6, <1>7, <1>8 DEF GoesOn

(* Whatever Codex does *)
LEMMA CodexInv ==
    ASSUME IInv, NEW s \in Sessions,
           \/ BeginTurn(s) \/ RepeatTurn(s)
           \/ \E n \in 1 .. MaxTotal : CountTokens(s, n)
           \/ \E t \in AllTurns \cup {NoTurn} : EndTurn(s, t)
           \/ Fork(s) \/ Copy(s) \/ Move(s)
    PROVE  IInv'
<1>1. TypeOK /\ FilesInv
  BY DEF IInv
<1>2. SUFFICES TypeOK' /\ FilesInv' /\ GoesOn
  BY GoesOnInv
<1>3. CASE BeginTurn(s)
  BY <1>1, <1>3, BeginTurnFiles, WriteGoesOn
<1>4. CASE RepeatTurn(s)
  BY <1>1, <1>4, RepeatTurnFiles, WriteGoesOn
<1>5. ASSUME NEW n \in 1 .. MaxTotal, CountTokens(s, n)
      PROVE  TypeOK' /\ FilesInv' /\ GoesOn
  BY <1>1, <1>5, CountTokensFiles, WriteGoesOn
<1>6. ASSUME NEW t \in AllTurns \cup {NoTurn}, EndTurn(s, t)
      PROVE  TypeOK' /\ FilesInv' /\ GoesOn
  BY <1>1, <1>6, EndTurnFiles, WriteGoesOn
<1>7. CASE Fork(s)
  <2>1. TypeOK' /\ FilesInv'
    BY <1>1, <1>7, ForkFiles
  <2>2. \A q \in Sessions \ {s} : Whole(q)' = Whole(q)
    <3>1. \A q \in Sessions \ {s} : Wholes'[q] = Wholes[q]
      BY <1>1, <1>7, ForkFiles
    <3>2. Wholes = [q \in Sessions |-> Whole(q)] /\ Wholes' = [q \in Sessions |-> Whole(q)']
      BY DEF Wholes, Whole
    <3> QED  BY <3>1, <3>2
  <2>3. \A q \in Sessions : Exists(q) => started'[q] = started[q] /\ q # s
    BY <1>1, <1>7, ForkFiles DEF TypeOK, Fork, Exists
  <2>4. \A o \in Sessions : Longer(files[o], files'[o])
    BY <1>1, <1>7, ForkFiles
  <2>5. UNCHANGED <<store, round, cycleVars, queued, split>>
    BY <1>7 DEF Fork
  <2> QED  BY <2>1, <2>2, <2>3, <2>4, <2>5 DEF GoesOn
<1>8. CASE Copy(s)
  <2>1. TypeOK' /\ FilesInv' /\ Wholes' = Wholes /\ \A q \in Sessions : Longer(files[q], files'[q])
    BY <1>1, <1>8, CopyFiles
  <2>2. \A q \in Sessions : Whole(q)' = Whole(q)
    <3>1. Wholes = [q \in Sessions |-> Whole(q)] /\ Wholes' = [q \in Sessions |-> Whole(q)']
      BY DEF Wholes, Whole
    <3> QED  BY <2>1, <3>1
  <2>3. UNCHANGED <<started, store, round, cycleVars, queued, split>>
    BY <1>8 DEF Copy
  <2> QED  BY <2>1, <2>2, <2>3 DEF GoesOn
<1>9. CASE Move(s)
  <2>1. TypeOK' /\ FilesInv'
    BY <1>1, <1>9, MoveFiles
  <2>2. UNCHANGED <<files, copying, started, store, round, cycleVars, queued, split>>
    BY <1>9 DEF Move
  <2>3. \A q \in Sessions : Longer(files[q], files'[q])
    BY <1>1, <2>2, WholeFacts DEF Longer, Agree, File
  <2>4. \A q \in Sessions : Whole(q)' = Whole(q)
    BY <2>2 DEF Whole
  <2> QED  BY <2>1, <2>2, <2>3, <2>4 DEF GoesOn
<1> QED  BY <1>3, <1>4, <1>5, <1>6, <1>7, <1>8, <1>9

-----------------------------------------------------------------------------
(* What is read of a session: from its cursor, from the beginning, or nothing *)
GoesOnFrom(s, c) ==
    /\ \E k \in Keys : c = next.cursors[k]
    /\ Reads(next, s, c)
    /\ c.path = PathOf(s) /\ c.offset <= Len(files[s])

NewHere(s) == next.cursors[s] = NoCursor /\ ~Blocked(s)

LEMMA LegacyKey ==
    ASSUME NEW s \in Sessions, LegacyOf[s] # NoSession
    PROVE  LegacyOf[s] \in Keys
<1>1. OldKey(s) = LegacyOf[s]
  BY DEF OldKey
<1> QED  BY <1>1 DEF Keys

LEMMA ContinuedCases ==
    ASSUME NEW s \in Sessions, NEW c
    PROVE  \/ Continued(s, c) = Seeded(s)
           \/ c.path = PathOf(s) /\ c.offset <= Len(files[s]) /\ Continued(s, c) = Scanned(s, {}, c)
           \/ ~(c.offset <= Len(files[s])) /\ ~(Len(files[s]) < c.offset)
<1> QED  BY DEF Continued

LEMMA CollectedCases ==
    ASSUME IInv, phase = "scan", NEW s \in todo
    PROVE  \/ Collected(s) = Seeded(s)
           \/ \E c \in Cursor : GoesOnFrom(s, c) /\ Collected(s) = Scanned(s, {}, c)
           \/ NewHere(s) /\ Collected(s) = Scanned(s, Inherited(s), NewCursor(PathOf(s)))
<1>1. TypeOK /\ NextInv /\ s \in Sessions
  BY DEF IInv, TypeOK
<1>2. PathOf(s) = <<s, path[s]>> /\ PathOf(s)[1] = s
  BY DEF PathOf
<1>3. Len(files[s]) \in Nat
  BY <1>1, WholeFacts DEF File
<1>4. ASSUME NEW c, c \in Cursor, NEW k \in Keys, c = next.cursors[k],
             c = next.cursors[s] \/ (next.cursors[s] = NoCursor /\ LegacyOf[s] # NoSession /\ c = next.cursors[LegacyOf[s]])
      PROVE  \/ Continued(s, c) = Seeded(s)
             \/ GoesOnFrom(s, c) /\ Continued(s, c) = Scanned(s, {}, c)
  <2>1. c # NoCursor /\ c.offset \in Nat
    BY <1>4, NoCursorAssumption, CursorFacts
  <2>2. c.offset <= Len(files[s]) \/ Len(files[s]) < c.offset
    BY <1>3, <2>1
  <2>3. c.path = PathOf(s) /\ c.offset <= Len(files[s]) => GoesOnFrom(s, c)
    BY <1>2, <1>4, <2>1 DEF GoesOnFrom, Reads
  <2> QED  BY <1>1, <2>2, <2>3, ContinuedCases
<1>5. CASE FirstCollection
  BY <1>5 DEF Collected
<1>6. CASE ~FirstCollection /\ next.cursors[s] # NoCursor
  <2>1. Collected(s) = Continued(s, next.cursors[s])
    BY <1>6 DEF Collected
  <2>2. s \in Keys /\ next.cursors[s] \in Cursor
    BY <1>1, <1>6, KeyTypes
  <2> QED  BY <1>4, <2>1, <2>2
<1>7. CASE ~FirstCollection /\ next.cursors[s] = NoCursor /\ LegacyOf[s] = NoSession
  <2>1. Collected(s) = Discovered(s)
    BY <1>7 DEF Collected
  <2>2. NewHere(s)
    BY <1>7 DEF NewHere, Blocked
  <2> QED  BY <2>1, <2>2 DEF Discovered
<1>8. CASE ~FirstCollection /\ next.cursors[s] = NoCursor /\ LegacyOf[s] # NoSession
  <2>1. Collected(s) = Migrated(s)
    BY <1>8 DEF Collected
  <2>2. PICK c : c = next.cursors[LegacyOf[s]]
    OBVIOUS
  <2>3. CASE c # NoCursor /\ c.path = PathOf(s) /\ c.offset <= Len(files[s])
    <3>1. Migrated(s) = Continued(s, c)
      BY <2>2, <2>3 DEF Migrated
    <3>2. LegacyOf[s] \in Keys /\ c \in Cursor
      BY <1>1, <1>8, <2>2, <2>3, LegacyKey, KeyTypes
    <3> QED  BY <1>4, <1>8, <2>1, <2>2, <3>1, <3>2
  <2>4. CASE ~(c # NoCursor /\ c.path = PathOf(s) /\ c.offset <= Len(files[s]))
    <3>1. Migrated(s) = IF StartedAtOrAfter(s, next.cutoverAt) THEN Discovered(s) ELSE Seeded(s)
      BY <2>2, <2>4 DEF Migrated
    <3>2. CASE StartedAtOrAfter(s, next.cutoverAt)
      <4>1. started[s] >= next.cutoverAt /\ next.cutoverAt >= 1
        BY <1>1, <3>2 DEF StartedAtOrAfter, NextInv
      <4>2. started[s] \in Int /\ next.cutoverAt \in Int
        BY <1>1, CodexTypes DEF TypeOK, Store
      <4>3. NewHere(s)
        BY <1>8, <4>1, <4>2 DEF NewHere, Blocked
      <4> QED  BY <2>1, <3>1, <3>2, <4>3 DEF Discovered
    <3>3. CASE ~StartedAtOrAfter(s, next.cutoverAt)
      BY <2>1, <3>1, <3>3
    <3> QED  BY <3>2, <3>3
  <2> QED  BY <2>3, <2>4
<1> QED  BY <1>5, <1>6, <1>7, <1>8

-----------------------------------------------------------------------------
(* The turns a fork inherits are of others, and are all that ended in the     *)
(* copy, once it is complete.                                               *)
LEMMA InheritedOthers ==
    ASSUME TypeOK, FilesInv, NEW s \in Sessions, NEW t \in Inherited(s)
    PROVE  t[1] # s
<1>1. PICK p \in Sessions : p = ParentOf[s] /\ ParentOf[s] # NoSession
  BY ParentFacts DEF Inherited
<1>2. PICK f : f = files[p]
  OBVIOUS
<1>3. f \in File /\ Agree(f, Whole(p), Len(f)) /\ Whole(p) \in File
  BY <1>2, WholeFacts
<1>4. \A i \in 1 .. Len(f) : f[i].turn[1] # s
  <2>1. \A i \in DOMAIN Whole(p) : Whole(p)[i].turn[1] # s
    BY <1>1 DEF FilesInv, FileInv, Wholes
  <2>2. \A i \in 1 .. Len(f) : i \in DOMAIN Whole(p) /\ Whole(p)[i] = f[i]
    BY <1>3 DEF Agree, File
  <2> QED  BY <2>1, <2>2
<1>5. t \in Completed(f)
  BY <1>1, <1>2 DEF Inherited
<1>6. PICK i \in 1 .. Len(f) : t = IF f[i].turn = NoTurn THEN LastStart(f, i) ELSE f[i].turn
  BY <1>5 DEF Completed
<1>7. CASE f[i].turn # NoTurn
  BY <1>4, <1>6, <1>7
<1>8. CASE f[i].turn = NoTurn
  <2>1. t = LastStart(f, i) /\ i \in 1 .. Len(f) + 1
    BY <1>3, <1>6, <1>8 DEF File
  <2>2. CASE t = NoTurn
    BY <2>2, NoTurnFacts, CodexAssumption
  <2>3. CASE t # NoTurn
    <3>1. PICK j \in 1 .. i - 1 : f[j].turn = t
      BY <1>3, <2>1, <2>3, LastStarted DEF StartedBefore, Starts
    <3>2. j \in 1 .. Len(f)
      BY <1>3, <3>1 DEF File
    <3> QED  BY <1>4, <3>1, <3>2
  <2> QED  BY <2>2, <2>3
<1> QED  BY <1>7, <1>8

LEMMA CompletedEnds ==
    ASSUME NEW f \in File, NEW t \in AllTurns, NEW i \in 1 .. Len(f), EndsAt(f, t, i)
    PROVE  t \in Completed(f)
<1>1. t # NoTurn /\ f[i].kind = "done" /\ f[i].turn \in {t, NoTurn} /\ LastStart(f, i) = t
  BY TurnFacts DEF EndsAt
<1>2. t = IF f[i].turn = NoTurn THEN LastStart(f, i) ELSE f[i].turn
  BY <1>1
<1> QED  BY <1>1, <1>2 DEF Completed

LEMMA CopiedInherited ==
    ASSUME TypeOK, FilesInv, NEW s \in Sessions, copying[s] = << >>,
           NEW i \in 1 .. Len(files[s]), NEW t \in AllTurns, EndsAt(files[s], t, i), t[1] # s
    PROVE  t \in Inherited(s)
<1>1. PICK f : f = files[s]
  OBVIOUS
<1>2. f \in File /\ Whole(s) = f /\ DOMAIN f = 1 .. Len(f)
  BY <1>1, WholeFacts DEF File
<1>3. FileInv(s, Wholes, files, turns, Alive) /\ Wholes[s] = f
  BY <1>2 DEF FilesInv, Wholes
<1>4. t \notin TurnsOf(s)
  BY DEF TurnsOf
<1>5. ParentOf[s] # NoSession
  <2>1. SUFFICES ASSUME ParentOf[s] = NoSession PROVE FALSE
    OBVIOUS
  <2>2. TurnAt(f, i)[1] \in {s, NoSession}
    BY <1>1, <1>2, <1>3, <2>1 DEF FileInv
  <2>3. TurnAt(f, i) = t
    BY <1>1 DEF EndsAt, TurnAt
  <2> QED  BY <2>2, <2>3, TurnFacts
<1>6. PICK p \in Sessions : p = ParentOf[s]
  BY <1>5, ParentFacts
<1>7. Agree(f, files[p], i)
  BY <1>1, <1>2, <1>3, <1>4, <1>5, <1>6 DEF FileInv
<1>8. EndsAt(files[p], t, i) /\ i \in 1 .. Len(files[p]) /\ files[p] \in File
  <2>1. files[p] \in File
    BY WholeFacts
  <2>2. i \in 1 .. Len(files[p]) /\ i \in Nat /\ i \in 1 .. i
    BY <1>7, <2>1 DEF Agree, File
  <2> QED  BY <1>1, <1>2, <1>7, <2>1, <2>2, AgreeWell
<1>9. t \in Completed(files[p])
  BY <1>8, CompletedEnds
<1> QED  BY <1>5, <1>6, <1>9 DEF Inherited

-----------------------------------------------------------------------------
(* A scan for session s may begin with cursor c0. *)
Begins(s, c0, inherited) ==
    /\ c0 \in Cursor /\ c0.path = PathOf(s) /\ Known(c0, files[s])
    /\ c0.active.inherited => c0.active.turn[1] # s
    /\ \A t \in inherited : t[1] # s
    /\ s \notin next.seeded => Exact(c0, files[s]) /\ Reported(c0, s, files[s], queued \cup events)

(* ... and finds only what ended in turns of its own. *)
FindsOwn(s, c0, inherited) ==
    \A i \in c0.offset + 1 .. Len(files[s]), t \in AllTurns :
        EndsAt(files[s], t, i) /\ t[1] # s => t \in inherited /\ c0.active.turn # t

LEMMA GoesOnFromFacts ==
    ASSUME IInv, NEW s \in Sessions, NEW c \in Cursor, GoesOnFrom(s, c)
    PROVE  /\ Begins(s, c, {})
           /\ s \notin split => FindsOwn(s, c, {})
<1>1. PICK k \in Keys : c = next.cursors[k]
  BY DEF GoesOnFrom
<1>2. CursorInv(c, next, queued \cup events)
  <2>1. c # NoCursor
    BY NoCursorAssumption
  <2> QED  BY <1>1, <2>1 DEF IInv, CursorsInv
<1>3. c.path[1] = s /\ c.path = PathOf(s)
  BY DEF GoesOnFrom, Reads
<1>4. Begins(s, c, {})
  BY <1>2, <1>3 DEF CursorInv, Begins
<1>5. ASSUME s \notin split PROVE FindsOwn(s, c, {})
  <2>1. PICK f, w : f = files[s] /\ w = Whole(s)
    OBVIOUS
  <2>2. f \in File /\ w \in File /\ Agree(f, w, Len(f)) /\ Len(f) \in Nat /\ c.offset \in Nat /\ Len(f) <= Len(w)
    BY <2>1, CursorFacts, WholeFacts DEF IInv, File, Agree
  <2>3. OwnBehind(c, s, w)
    BY <1>2, <1>3, <1>5, <2>1 DEF CursorInv
  <2>4. SUFFICES ASSUME NEW i \in c.offset + 1 .. Len(f), NEW t \in AllTurns, EndsAt(f, t, i)
                 PROVE  t[1] = s
    BY <2>1 DEF FindsOwn
  <2>5. i \in 1 .. Len(f) /\ i \in c.offset + 1 .. Len(w)
    BY <2>2
  <2>6. EndsAt(w, t, i)
    BY <2>2, <2>4, <2>5, AgreeWell
  <2> QED  BY <2>3, <2>5, <2>6 DEF OwnBehind
<1> QED  BY <1>4, <1>5

LEMMA PathFacts ==
    ASSUME TypeOK, NEW s \in Sessions
    PROVE  PathOf(s) \in Sessions \X {0, 1} /\ PathOf(s)[1] = s
<1>1. path[s] \in {0, 1}
  BY DEF TypeOK
<1> QED  BY <1>1 DEF PathOf

LEMMA NewHereFacts ==
    ASSUME IInv, NEW s \in Sessions
    PROVE  /\ Begins(s, NewCursor(PathOf(s)), Inherited(s))
           /\ copying[s] = << >> => FindsOwn(s, NewCursor(PathOf(s)), Inherited(s))
<1>1. TypeOK /\ FilesInv
  BY DEF IInv
<1>2. PICK c : c = NewCursor(PathOf(s))
  OBVIOUS
<1>3. PICK f : f = files[s] /\ f \in File
  BY <1>1, WholeFacts
<1>4. /\ c \in Cursor /\ c.path = PathOf(s) /\ c.offset = 0 /\ c.active.turn = NoTurn /\ ~c.active.inherited
      /\ Known(c, f) /\ Exact(c, f)
  BY <1>1, <1>2, <1>3, PathFacts, NewCursorFacts
<1>5. Reported(c, s, f, queued \cup events)
  BY <1>4 DEF Reported
<1>6. Begins(s, c, Inherited(s))
  BY <1>1, <1>3, <1>4, <1>5, InheritedOthers DEF Begins
<1>7. ASSUME copying[s] = << >> PROVE FindsOwn(s, c, Inherited(s))
  <2>1. SUFFICES ASSUME NEW i \in c.offset + 1 .. Len(files[s]), NEW t \in AllTurns, EndsAt(files[s], t, i), t[1] # s
                 PROVE  t \in Inherited(s) /\ c.active.turn # t
    BY DEF FindsOwn
  <2>2. i \in 1 .. Len(files[s])
    BY <1>4, <2>1
  <2> QED  BY <1>1, <1>4, <1>7, <2>1, <2>2, CopiedInherited, TurnFacts
<1> QED  BY <1>2, <1>6, <1>7

-----------------------------------------------------------------------------
(* What collecting a session gives *)
Sound(s, got) ==
    /\ got.cursor \in Cursor /\ got.cursor.path = PathOf(s) /\ got.cursor.offset = Len(files[s])
    /\ Known(got.cursor, files[s])
    /\ got.cursor.active.inherited => got.cursor.active.turn[1] # s
    /\ got.seeded \in SUBSET {s}
    /\ got.events \in SUBSET UsageEvent
    /\ s \notin next.seeded \cup got.seeded =>
        /\ Exact(got.cursor, files[s])
        /\ Reported(got.cursor, s, files[s], queued \cup events \cup got.events)

(* An event it gives *)
Found(s, c0, inherited, e) ==
    /\ e.session = s /\ e.turn \in AllTurns
    /\ \E end \in c0.offset + 1 .. Len(files[s]) :
        /\ EndsAt(files[s], e.turn, end)
        /\ e.tokens <= Used(files[s], e.turn, end)
        /\ s \notin next.seeded => e.tokens = Used(files[s], e.turn, end) /\ ~ResetIn(files[s], e.turn, end)
    /\ e.turn \notin inherited \/ c0.active.turn = e.turn

LEMMA SeededSound ==
    ASSUME IInv, NEW s \in Sessions
    PROVE  Sound(s, Seeded(s)) /\ Seeded(s).events = {}
<1>1. TypeOK /\ FilesInv
  BY DEF IInv
<1>2. PICK got : got = Seeded(s)
  OBVIOUS
<1>3. PICK f : f = files[s] /\ f \in File /\ WellFormed(f)
  BY <1>1, SessionFacts
<1>4. got.cursor = Seed(PathOf(s), f) /\ got.events = {} /\ got.seeded = {s}
  BY <1>2, <1>3 DEF Seeded
<1>5. PICK c : c = Seed(PathOf(s), f)
  OBVIOUS
<1>6. /\ c \in Cursor /\ c.path = PathOf(s) /\ c.offset = Len(f)
      /\ Known(c, f) /\ (c.active.inherited => c.active.turn = NoTurn)
  BY <1>1, <1>3, <1>5, PathFacts, SeedFacts
<1>7. c.active.inherited => c.active.turn[1] # s
  BY <1>6, NoTurnFacts, CodexAssumption
<1> QED  BY <1>2, <1>3, <1>4, <1>5, <1>6, <1>7 DEF Sound

LEMMA ScannedSound ==
    ASSUME IInv, NEW s \in Sessions, NEW c0, NEW inherited, Begins(s, c0, inherited)
    PROVE  /\ Sound(s, Scanned(s, inherited, c0))
           /\ \A e \in Scanned(s, inherited, c0).events : Found(s, c0, inherited, e)
<1>1. TypeOK /\ FilesInv
  BY DEF IInv
<1>2. PICK got : got = Scanned(s, inherited, c0)
  OBVIOUS
<1>3. PICK f : f = files[s] /\ f \in File /\ WellFormed(f)
  BY <1>1, SessionFacts
<1>4. PICK x : x = Session(s, inherited) /\ x.id = s /\ x.inherited = inherited
  <2>1. PICK x : x = Session(s, inherited)
    OBVIOUS
  <2>2. x.id = s /\ x.inherited = inherited
    BY <2>1 DEF Session
  <2> QED  BY <2>1, <2>2
<1>5. PICK st : st = Scan(x, c0, f)
  OBVIOUS
<1>6. got.cursor = st.cursor /\ got.events = st.events /\ got.seeded = {}
  BY <1>2, <1>3, <1>4, <1>5 DEF Scanned
<1>7. /\ c0 \in Cursor /\ c0.path = PathOf(s) /\ Known(c0, f)
      /\ c0.active.inherited => c0.active.turn[1] # s
      /\ \A t \in inherited : t[1] # s
      /\ s \notin next.seeded => Exact(c0, f) /\ Reported(c0, s, f, queued \cup events)
  BY <1>3 DEF Begins
<1>8. ScanInv(x, c0, f, Len(f), st)
  BY <1>3, <1>5, <1>7, WholeScan
<1>9. PICK c : c = st.cursor
  OBVIOUS
<1>10. /\ c \in Cursor /\ c.offset = Len(f) /\ c.path = PathOf(s)
       /\ Known(c, f) /\ (Exact(c0, f) => Exact(c, f))
       /\ c.active.turn # NoTurn => Inherits(x, c0, c.active.turn, c.active.inherited)
  BY <1>7, <1>8, <1>9 DEF ScanInv, ScanCursor, ScanState
<1>11. c.active.inherited => c.active.turn[1] # s
  <2>1. CASE c.active.turn = NoTurn
    BY <2>1, NoTurnFacts, CodexAssumption
  <2>2. CASE c.active.turn # NoTurn
    BY <1>4, <1>7, <1>10, <2>2 DEF Inherits
  <2> QED  BY <2>1, <2>2
<1>12. st.events \in SUBSET Event(x)
  BY <1>8 DEF ScanInv, ScanState
<1>13. st.events \in SUBSET UsageEvent
  <2>1. s \in Keys
    BY DEF Keys
  <2> QED  BY <1>4, <1>12, <2>1 DEF Event, UsageEvent
<1>14. ASSUME s \notin next.seeded, NEW t \in TurnsOf(s), NEW end \in 1 .. Len(f),
              EndsAt(f, t, end), ~ResetIn(f, t, end), Used(f, t, end) > 0
       PROVE  \E e \in queued \cup events \cup st.events : e.turn = t
  <2>1. Exact(c0, f) /\ Reported(c0, s, f, queued \cup events)
    BY <1>7, <1>14
  <2>2. t \in AllTurns /\ t[1] = s /\ c0.offset \in Nat
    BY <1>7, CursorFacts DEF AllTurns, TurnsOf
  <2>3. CASE end <= c0.offset
    <3>1. end \in 1 .. c0.offset
      BY <1>3, <2>2, <2>3 DEF File
    <3> QED  BY <1>14, <2>1, <3>1 DEF Reported
  <2>4. CASE ~(end <= c0.offset)
    <3>1. end \in c0.offset + 1 .. Len(f)
      BY <1>3, <2>2, <2>4 DEF File
    <3>2. t \notin x.inherited /\ ~(c0.active.turn = t /\ c0.active.inherited)
      BY <1>4, <1>7, <2>2
    <3>3. ScanReports(x, c0, f, Len(f), st.events)
      BY <1>8 DEF ScanInv
    <3> QED  BY <1>14, <2>1, <2>2, <3>1, <3>2, <3>3 DEF ScanReports
  <2> QED  BY <2>3, <2>4
<1>15. s \notin next.seeded => Exact(c, f) /\ Reported(c, s, f, queued \cup events \cup st.events)
  BY <1>7, <1>10, <1>14 DEF Reported
<1>16. Sound(s, got)
  BY <1>3, <1>6, <1>9, <1>10, <1>11, <1>13, <1>15 DEF Sound
<1>17. ASSUME NEW e \in st.events PROVE Found(s, c0, inherited, e)
  <2>1. ScanEvent(x, c0, f, Len(f), e)
    BY <1>8 DEF ScanInv, ScanEvents
  <2>2. e.session = s /\ e.turn \in AllTurns
    BY <1>4, <1>12 DEF Event
  <2>3. PICK end \in c0.offset + 1 .. Len(f) :
        /\ EndsAt(f, e.turn, end)
        /\ e.tokens <= Used(f, e.turn, end)
        /\ Exact(c0, f) => e.tokens = Used(f, e.turn, end) /\ ~ResetIn(f, e.turn, end)
    BY <2>1 DEF ScanEvent
  <2>4. e.turn \notin inherited \/ c0.active.turn = e.turn
    BY <1>4, <2>1 DEF ScanEvent
  <2> QED  BY <1>3, <1>7, <2>2, <2>3, <2>4 DEF Found
<1> QED  BY <1>2, <1>6, <1>16, <1>17

-----------------------------------------------------------------------------
(* The events that collecting a session gives *)
LEMMA FoundUse ==
    ASSUME IInv, phase = "scan", NEW s \in todo, NEW c0 \in Cursor, NEW inherited, NEW e,
           Found(s, c0, inherited, e)
    PROVE  UseOf(e, store)
<1>1. TypeOK /\ FilesInv /\ s \in Sessions
  BY DEF IInv, TypeOK
<1>2. PICK f, w : f = files[s] /\ w = Whole(s)
  OBVIOUS
<1>3. f \in File /\ w \in File /\ Agree(f, w, Len(f)) /\ Len(f) \in Nat /\ DOMAIN w = 1 .. Len(w) /\ Len(f) <= Len(w)
  BY <1>1, <1>2, WholeFacts DEF File, Agree
<1>4. PICK t \in AllTurns : t = e.turn /\ t # NoTurn /\ t[1] \in Sessions
  BY TurnFacts DEF Found
<1>5. PICK end \in c0.offset + 1 .. Len(f) :
        /\ EndsAt(f, t, end)
        /\ e.tokens <= Used(f, t, end)
        /\ s \notin next.seeded => e.tokens = Used(f, t, end) /\ ~ResetIn(f, t, end)
  BY <1>2, <1>4 DEF Found
<1>6. end \in 1 .. Len(f) /\ end \in 1 .. end /\ end \in Nat /\ end \in DOMAIN w
  BY <1>3, CursorFacts
<1>7. PICK g : g = files[t[1]] /\ g \in File
  BY <1>1, <1>4, WholeFacts
<1>8. Agree(f, g, end)
  <2>1. EndsAt(w, t, end)
    BY <1>3, <1>5, <1>6, AgreeWell
  <2>2. TurnAt(w, end) = t
    BY <2>1 DEF EndsAt, TurnAt
  <2>3. Agree(w, g, end)
    <3>1. FileInv(s, Wholes, files, turns, Alive) /\ Wholes[s] = w
      BY <1>1, <1>2 DEF FilesInv, Wholes
    <3> QED  BY <1>4, <1>6, <1>7, <2>2, <3>1 DEF FileInv
  <2>4. Agree(f, w, end)
    BY <1>3, <1>6 DEF Agree
  <2> QED  BY <1>3, <1>6, <1>7, <2>3, <2>4, AgreeFacts
<1>9. /\ EndsAt(g, t, end)
      /\ Used(f, t, end) = Used(g, t, end)
      /\ ResetIn(f, t, end) <=> ResetIn(g, t, end)
  BY <1>3, <1>4, <1>5, <1>6, <1>7, <1>8, EndAgree
<1>10. end \in 1 .. Len(g)
  BY <1>6, <1>7, <1>8 DEF Agree, File
<1>11. s \notin store.seeded => s \notin next.seeded
  BY DEF IInv, NextInv
<1>12. e.session = s
  BY DEF Found
<1> QED  BY <1>4, <1>5, <1>7, <1>9, <1>10, <1>11, <1>12 DEF UseOf

LEMMA FoundOwn ==
    ASSUME NEW s \in Sessions, NEW c0, NEW inherited, NEW e, Found(s, c0, inherited, e), FindsOwn(s, c0, inherited)
    PROVE  e.turn[1] = s
<1>1. PICK end \in c0.offset + 1 .. Len(files[s]) : EndsAt(files[s], e.turn, end)
  BY DEF Found
<1>2. e.turn \in AllTurns /\ (e.turn \notin inherited \/ c0.active.turn = e.turn)
  BY DEF Found
<1> QED  BY <1>1, <1>2 DEF FindsOwn

(* A session read from the beginning gives again what it gave, whatever the   *)
(* path of its file.                                                        *)
LEMMA NewHereAgain ==
    ASSUME TypeOK, FilesInv, NEW s \in Sessions, NEW inherited, NEW p \in Sessions \X {0, 1}, NEW q \in Sessions \X {0, 1},
           NEW e \in Scanned(s, inherited, NewCursor(q)).events
    PROVE  e \in EventsFrom(s, NewCursor(p))
<1>1. PICK f : f = files[s] /\ f \in File /\ WellFormed(f)
  BY SessionFacts
<1>2. PICK x : x = Session(s, inherited) /\ x.id = s /\ x.inherited = inherited
  <2>1. PICK x : x = Session(s, inherited)
    OBVIOUS
  <2> QED  BY <2>1 DEF Session
<1>3. PICK y : y = Session(s, {}) /\ y.id = s /\ y.inherited = {}
  <2>1. PICK y : y = Session(s, {})
    OBVIOUS
  <2> QED  BY <2>1 DEF Session
<1>4. PICK c, d : c = NewCursor(q) /\ d = NewCursor(p)
  OBVIOUS
<1>5. c \in Cursor /\ c.offset = 0 /\ Known(c, f) /\ Exact(c, f)
  BY <1>1, <1>4, NewCursorFacts
<1>6. d \in Cursor /\ d.offset = 0 /\ Known(d, f) /\ Exact(d, f) /\ ~d.active.inherited
  BY <1>1, <1>4, NewCursorFacts
<1>7. PICK E, D : E = Scan(x, c, f).events /\ D = Scan(y, d, f).events
  OBVIOUS
<1>8. ScanEvents(x, c, f, Len(f), E) /\ E \in SUBSET Event(x)
  <2>1. ScanInv(x, c, f, Len(f), Scan(x, c, f))
    BY <1>1, <1>5, WholeScan
  <2> QED  BY <1>7, <2>1 DEF ScanInv, ScanState
<1>9. ScanEvents(y, d, f, Len(f), D) /\ ScanReports(y, d, f, Len(f), D) /\ D \in SUBSET Event(y)
  <2>1. ScanInv(y, d, f, Len(f), Scan(y, d, f))
    BY <1>1, <1>6, WholeScan
  <2> QED  BY <1>7, <2>1 DEF ScanInv, ScanState
<1>10. e \in E
  BY <1>1, <1>2, <1>4, <1>7 DEF Scanned
<1>11. e \in Event(x) /\ e.turn \in AllTurns /\ e.turn # NoTurn /\ e.tokens \in 1 .. MaxTotal
  BY <1>8, <1>10, TurnFacts DEF Event
<1>12. PICK end \in 1 .. Len(f) : EndsAt(f, e.turn, end) /\ e.tokens = Used(f, e.turn, end) /\ ~ResetIn(f, e.turn, end)
  <2>1. ScanEvent(x, c, f, Len(f), e)
    BY <1>8, <1>10 DEF ScanEvents
  <2> QED  BY <1>5, <2>1 DEF ScanEvent
<1>13. PICK g \in D : g.turn = e.turn
  <2>1. Used(f, e.turn, end) > 0
    BY <1>11, <1>12
  <2>2. end \in d.offset + 1 .. Len(f)
    BY <1>6, <1>12
  <2>3. e.turn \notin y.inherited
    BY <1>3
  <2> QED  BY <1>6, <1>9, <1>11, <1>12, <2>1, <2>2, <2>3 DEF ScanReports
<1>14. PICK last \in 1 .. Len(f) : EndsAt(f, g.turn, last) /\ g.tokens = Used(f, g.turn, last)
  <2>1. ScanEvent(y, d, f, Len(f), g)
    BY <1>9, <1>13 DEF ScanEvents
  <2> QED  BY <1>6, <2>1 DEF ScanEvent
<1>15. last = end
  BY <1>1, <1>11, <1>12, <1>13, <1>14, EndUnique
<1>16. g \in Event(y)
  BY <1>9, <1>13
<1>17. g.tokens = e.tokens /\ g.turn = e.turn
  BY <1>12, <1>13, <1>14, <1>15
<1>18. g = e
  <2>1. Event(x) = Event(y)
    BY <1>2, <1>3 DEF Event
  <2> QED  BY <1>2, <1>11, <1>16, <1>17, <2>1 DEF Event
<1>19. EventsFrom(s, NewCursor(p)) = D
  BY <1>1, <1>3, <1>4, <1>7 DEF EventsFrom
<1> QED  BY <1>13, <1>18, <1>19

LEMMA EventsFromOnce ==
    ASSUME TypeOK, FilesInv, NEW s \in Sessions, NEW c \in Cursor, Known(c, files[s]),
           NEW e \in EventsFrom(s, c), NEW g \in EventsFrom(s, c), e.turn = g.turn
    PROVE  e = g
<1>1. PICK f : f = files[s] /\ f \in File /\ WellFormed(f)
  BY SessionFacts
<1>2. PICK x : x = Session(s, {})
  OBVIOUS
<1>3. ScanInv(x, c, f, Len(f), Scan(x, c, f))
  BY <1>1, WholeScan
<1> QED  BY <1>1, <1>2, <1>3 DEF ScanInv, ScanEvents, EventsFrom

(* It gives no event a second time that is not the same. *)
Fresh(s, E) ==
    \A e \in E :
        /\ e.session = s /\ e.turn[1] = s
        /\ OnceInv(store, e)
        /\ \A g \in E \cup queued \cup events : g.session \notin split /\ g.turn = e.turn => g = e

LEMMA OthersFound ==
    ASSUME IInv, phase = "scan", NEW g \in queued \cup events, g.session \notin split
    PROVE  OnceInv(next, g)
<1> QED  BY DEF IInv, EventsInv

LEMMA GoesOnFresh ==
    ASSUME IInv, phase = "scan", NEW s \in todo, s \notin split, NEW c \in Cursor, GoesOnFrom(s, c)
    PROVE  Fresh(s, Scanned(s, {}, c).events)
<1>1. TypeOK /\ FilesInv /\ s \in Sessions /\ s \in Keys
  BY KeyTypes DEF IInv, TypeOK
<1>2. PICK f : f = files[s] /\ f \in File /\ WellFormed(f)
  BY <1>1, SessionFacts
<1>3. Begins(s, c, {}) /\ FindsOwn(s, c, {})
  BY <1>1, GoesOnFromFacts
<1>4. Known(c, f)
  BY <1>2, <1>3 DEF Begins
<1>5. PICK E : E = EventsFrom(s, c)
  OBVIOUS
<1>6. E = Scanned(s, {}, c).events
  BY <1>5 DEF EventsFrom, Scanned
<1>7. PICK k \in Keys : c = next.cursors[k]
  BY DEF GoesOnFrom
<1>8. Reads(next, s, c) /\ c # NoCursor /\ c.path[1] = s
  BY DEF GoesOnFrom, Reads
<1>9. \A j \in Keys : next.cursors[j] = c \/ next.cursors[j] = NoCursor => store.cursors[j] = next.cursors[j]
  BY <1>8 DEF IInv, NextInv
<1>10. \/ store.cursors[s] = c
       \/ store.cursors[s] = NoCursor /\ LegacyOf[s] # NoSession /\ c = store.cursors[LegacyOf[s]]
  BY <1>1, <1>8, <1>9, LegacyKey DEF Reads
<1>11. \A d : Reads(store, s, d) => d = c
  BY <1>8, <1>10 DEF Reads
<1>12. store.cursors[s] = NoCursor => Blocked(s)
  BY <1>1, <1>8, <1>10 DEF IInv, LegacyInv, Blocked
<1>13. ASSUME NEW e \in E
       PROVE  /\ e.session = s /\ e.turn[1] = s /\ e.turn \in AllTurns
              /\ \E end \in c.offset + 1 .. Len(f) : EndsAt(f, e.turn, end)
  <2>1. Found(s, c, {}, e)
    BY <1>1, <1>3, <1>6, ScannedSound
  <2> QED  BY <1>1, <1>2, <1>3, <2>1, FoundOwn DEF Found
<1>14. ASSUME NEW e \in E PROVE OnceInv(store, e)
  BY <1>5, <1>11, <1>12, <1>13, <1>14 DEF OnceInv
<1>15. ASSUME NEW e \in E, NEW g \in E, g.turn = e.turn PROVE g = e
  BY <1>1, <1>2, <1>4, <1>5, <1>15, EventsFromOnce
<1>16. ASSUME NEW e \in E, NEW g \in queued \cup events, g.session \notin split, g.turn = e.turn
       PROVE  g = e
  <2>1. Past(c, f, e.turn) \/ g \in E
    <3>1. OnceInv(next, g)
      BY <1>16, OthersFound
    <3>2. g.turn[1] = s
      BY <1>13, <1>16
    <3> QED  BY <1>2, <1>5, <1>7, <1>8, <1>16, <3>1, <3>2 DEF OnceInv
  <2>2. ~Past(c, f, e.turn)
    <3>1. PICK end \in c.offset + 1 .. Len(f) : EndsAt(f, e.turn, end)
      BY <1>13
    <3>2. SUFFICES ASSUME NEW i \in 1 .. c.offset, EndsAt(f, e.turn, i) PROVE FALSE
      BY DEF Past
    <3>3. c.offset \in Nat /\ c.offset <= Len(f) /\ Len(f) \in Nat
      BY <1>2, <1>4, CursorFacts DEF Known, File
    <3>4. i \in 1 .. Len(f) /\ end \in 1 .. Len(f) /\ i # end
      BY <3>1, <3>2, <3>3
    <3>5. e.turn # NoTurn
      BY <1>13, TurnFacts
    <3> QED  BY <1>2, <3>1, <3>2, <3>4, <3>5, EndUnique
  <2> QED  BY <1>15, <1>16, <2>1, <2>2
<1> QED  BY <1>6, <1>13, <1>14, <1>15, <1>16 DEF Fresh

LEMMA NewHereFresh ==
    ASSUME IInv, phase = "scan", NEW s \in todo, s \notin split, copying[s] = << >>, NewHere(s)
    PROVE  Fresh(s, Scanned(s, Inherited(s), NewCursor(PathOf(s))).events)
<1>1. TypeOK /\ FilesInv /\ s \in Sessions /\ s \in Keys
  BY KeyTypes DEF IInv, TypeOK
<1>2. PICK f : f = files[s] /\ f \in File /\ WellFormed(f)
  BY <1>1, SessionFacts
<1>3. PICK c, I : c = NewCursor(PathOf(s)) /\ I = Inherited(s)
  OBVIOUS
<1>4. Begins(s, c, I) /\ FindsOwn(s, c, I)
  BY <1>1, <1>3, NewHereFacts
<1>5. PICK E : E = Scanned(s, I, c).events
  OBVIOUS
<1>6. PathOf(s) \in Sessions \X {0, 1}
  BY <1>1, PathFacts
<1>7. \A p \in Sessions \X {0, 1} : E \subseteq EventsFrom(s, NewCursor(p))
  BY <1>1, <1>3, <1>5, <1>6, NewHereAgain
<1>8. ASSUME NEW e \in E PROVE e.session = s /\ e.turn[1] = s /\ e.turn \in AllTurns
  <2>1. Found(s, c, I, e)
    BY <1>1, <1>4, <1>5, ScannedSound
  <2> QED  BY <1>1, <1>4, <2>1, FoundOwn DEF Found
<1>9. store.cursors[s] = NoCursor
  BY <1>1 DEF NewHere, IInv, NextInv
<1>10. \A d : ~Reads(store, s, d)
  <2>1. SUFFICES ASSUME LegacyOf[s] # NoSession, store.cursors[LegacyOf[s]] # NoCursor,
                        store.cursors[LegacyOf[s]].path[1] = s
                 PROVE  FALSE
    BY <1>9 DEF Reads
  <2>2. started[s] = 0
    BY <1>1, <1>9, <2>1 DEF IInv, LegacyInv
  <2> QED  BY <2>1, <2>2 DEF NewHere, Blocked
<1>11. ASSUME NEW e \in E PROVE OnceInv(store, e)
  BY <1>7, <1>8, <1>10 DEF OnceInv
<1>12. \A e, g \in EventsFrom(s, c) : e.turn = g.turn => e = g
  BY <1>1, <1>2, <1>3, <1>4, EventsFromOnce DEF Begins
<1>13. ASSUME NEW e \in E, NEW g \in queued \cup events, g.session \notin split, g.turn = e.turn
       PROVE  g = e
  <2>1. OnceInv(next, g)
    BY <1>13, OthersFound
  <2>2. g.turn[1] = s
    BY <1>8, <1>13
  <2>3. g \in EventsFrom(s, c)
    BY <1>3, <1>6, <2>1, <2>2 DEF OnceInv, NewHere
  <2> QED  BY <1>3, <1>6, <1>7, <1>12, <1>13, <2>3
<1>14. \A e, g \in E : g.turn = e.turn => g = e
  BY <1>3, <1>6, <1>7, <1>12
<1> QED  BY <1>3, <1>5, <1>8, <1>11, <1>13, <1>14 DEF Fresh

-----------------------------------------------------------------------------
(* Collecting a session, whatever is read of it *)
LEMMA CollectedSound ==
    ASSUME IInv, phase = "scan", NEW s \in todo
    PROVE  LET got == Collected(s)
           IN  /\ Sound(s, got)
               /\ \A e \in got.events : UseOf(e, store) /\ e.session = s
               /\ s \notin split /\ copying[s] = << >> => Fresh(s, got.events)
<1>1. s \in Sessions
  BY DEF IInv, TypeOK
<1>2. PICK got : got = Collected(s)
  OBVIOUS
<1>3. CASE got = Seeded(s)
  <2>1. Sound(s, got) /\ got.events = {}
    BY <1>1, <1>3, SeededSound
  <2> QED  BY <1>2, <2>1 DEF Fresh
<1>4. ASSUME NEW c \in Cursor, GoesOnFrom(s, c), got = Scanned(s, {}, c)
      PROVE  /\ Sound(s, got)
             /\ \A e \in got.events : UseOf(e, store) /\ e.session = s
             /\ s \notin split /\ copying[s] = << >> => Fresh(s, got.events)
  <2>1. Begins(s, c, {})
    BY <1>1, <1>4, GoesOnFromFacts
  <2>2. Sound(s, got) /\ \A e \in got.events : Found(s, c, {}, e)
    BY <1>1, <1>4, <2>1, ScannedSound
  <2>3. \A e \in got.events : UseOf(e, store) /\ e.session = s
    <3>1. ASSUME NEW e \in got.events PROVE UseOf(e, store) /\ e.session = s
      <4>1. PICK I : I = {}
        OBVIOUS
      <4>2. Found(s, c, I, e)
        BY <2>2, <4>1
      <4>3. UseOf(e, store)
        BY <4>2, FoundUse
      <4>4. e.session = s
        BY <4>2 DEF Found
      <4> QED  BY <4>3, <4>4
    <3> QED  BY <3>1
  <2> QED  BY <1>4, <2>2, <2>3, GoesOnFresh
<1>5. ASSUME NewHere(s), got = Scanned(s, Inherited(s), NewCursor(PathOf(s)))
      PROVE  /\ Sound(s, got)
             /\ \A e \in got.events : UseOf(e, store) /\ e.session = s
             /\ s \notin split /\ copying[s] = << >> => Fresh(s, got.events)
  <2>1. PICK c : c = NewCursor(PathOf(s))
    OBVIOUS
  <2>2. Begins(s, c, Inherited(s)) /\ c \in Cursor
    BY <1>1, <2>1, NewHereFacts DEF Begins
  <2>3. Sound(s, got) /\ \A e \in got.events : Found(s, c, Inherited(s), e)
    <3>1. PICK I : I = Inherited(s)
      OBVIOUS
    <3> QED  BY <1>1, <1>5, <2>1, <2>2, <3>1, ScannedSound
  <2>4. \A e \in got.events : UseOf(e, store) /\ e.session = s
    <3>1. PICK I : I = Inherited(s)
      OBVIOUS
    <3> QED  BY <2>2, <2>3, <3>1, FoundUse DEF Found
  <2> QED  BY <1>5, <2>3, <2>4, NewHereFresh
<1> QED  BY <1>2, <1>3, <1>4, <1>5, CollectedCases

(* The cursor store afterwards: what is new in it is the cursor of s. *)
LEMMA CollectFacts ==
    ASSUME IInv, NEW s \in Sessions, Collect(s)
    PROVE  /\ phase = "scan" /\ s \in todo /\ todo' = todo \ {s}
           /\ events' = events \cup Collected(s).events
           /\ split \subseteq split' /\ split' \subseteq Sessions \cup split
           /\ s \notin split' => s \notin split /\ copying[s] = << >>
           /\ UNCHANGED <<codexVars, store, round, phase, found, queued>>
           /\ next'.initAt = next.initAt /\ next'.cutoverAt = next.cutoverAt
           /\ next'.seeded = next.seeded \cup Collected(s).seeded
           /\ next'.cursors[s] = Collected(s).cursor
           /\ \A k \in Keys : next'.cursors[k] \in {next.cursors[k], Collected(s).cursor}
           /\ next' \in Store
<1>1. PICK got : got = Collected(s)
  OBVIOUS
<1>2. phase = "scan" /\ s \in todo /\ todo' = todo \ {s} /\ events' = events \cup got.events
  BY <1>1 DEF Collect
<1>3. split' = IF copying[s] # <<>> THEN split \cup {s} ELSE split
  BY DEF Collect
<1>4. UNCHANGED <<codexVars, store, round, phase, found, queued>>
  BY DEF Collect
<1>5. next \in Store /\ s \in Keys
  BY KeyTypes DEF IInv, TypeOK
<1>6. PICK T \in SUBSET Keys : s \in T /\ next' = [next EXCEPT !.cursors = [k \in Keys |->
                                    IF k \in T THEN got.cursor ELSE @[k]],
                                !.seeded = @ \cup got.seeded]
  <2>1. PICK T : T = {k \in Keys : k = s \/ (/\ k = LegacyOf[s]
                     /\ next.cursors[k] # NoCursor /\ next.cursors[k].path = PathOf(s))}
    OBVIOUS
  <2>2. \A k \in Keys : k \in T <=> (k = s \/ (/\ k = LegacyOf[s]
                     /\ next.cursors[k] # NoCursor /\ next.cursors[k].path = PathOf(s)))
    BY <2>1
  <2>3. next' = [next EXCEPT !.cursors = [k \in Keys |->
                                    IF k = s \/ (/\ k = LegacyOf[s]
                     /\ next.cursors[k] # NoCursor /\ next.cursors[k].path = PathOf(s)) THEN got.cursor ELSE @[k]],
                                !.seeded = @ \cup got.seeded]
    BY <1>1 DEF Collect
  <2>4. s \in T /\ T \in SUBSET Keys
    BY <1>5, <2>1
  <2> QED  BY <2>2, <2>3, <2>4
<1>7. got.cursor \in Cursor /\ got.seeded \in SUBSET {s}
  BY <1>1, <1>2, CollectedSound DEF Sound
<1>8. /\ next'.initAt = next.initAt /\ next'.cutoverAt = next.cutoverAt
      /\ next'.seeded = next.seeded \cup got.seeded
      /\ next'.cursors = [k \in Keys |-> IF k \in T THEN got.cursor ELSE next.cursors[k]]
      /\ next' \in Store
  BY <1>5, <1>6, <1>7 DEF Store
<1> QED  BY <1>1, <1>2, <1>3, <1>4, <1>5, <1>6, <1>8

LEMMA CollectTypes ==
    ASSUME IInv, NEW s \in Sessions, Collect(s)
    PROVE  TypeOK' /\ FilesInv' /\ Store' = Store
<1>1. UNCHANGED <<world, files, copying, path, started, written, turns, moves, store, round, phase, found, queued>>
  BY CollectFacts DEF codexVars
<1>2. Store' = Store /\ World' = World
  BY <1>1 DEF Store, World
<1>3. next' \in Store /\ todo' \subseteq todo
  BY CollectFacts
<1>4. events' \subseteq UsageEvent
  <2>1. Collected(s).events \in SUBSET UsageEvent
    BY CollectFacts, CollectedSound DEF Sound
  <2> QED  BY <2>1, CollectFacts DEF IInv, TypeOK
<1>5. TypeOK'
  BY <1>1, <1>2, <1>3, <1>4 DEF IInv, TypeOK
<1>6. FilesInv'
  <2>1. Wholes' = Wholes /\ Alive' = Alive
    BY <1>1 DEF Wholes, Whole, Alive, Exists
  <2> QED  BY <1>1, <2>1 DEF IInv, FilesInv
<1> QED  BY <1>2, <1>5, <1>6

(* A cursor of another store is still as true when more is queued, seeded or  *)
(* split.                                                                   *)
LEMMA CursorMore ==
    ASSUME NEW c, NEW st, NEW Q, CursorInv(c, st, Q), NEW nt, NEW R, st.seeded \subseteq nt.seeded, Q \subseteq R,
           UNCHANGED <<files, copying, started>>, split \subseteq split'
    PROVE  CursorInv(c, nt, R)'
<1>1. PICK y, f, w : y = c.path[1] /\ f = files[y] /\ w = Whole(y)
  OBVIOUS
<1>2. files'[y] = f /\ Whole(y)' = w /\ (Exists(y) <=> Exists(y)')
  BY <1>1 DEF Whole, Exists
<1>3. /\ Exists(y) /\ Known(c, f)
      /\ c.active.inherited => c.active.turn[1] # y
      /\ y \notin split => OwnBehind(c, y, w)
      /\ y \notin st.seeded => Exact(c, f) /\ Reported(c, y, f, Q)
  BY <1>1 DEF CursorInv
<1>4. Reported(c, y, f, Q) => Reported(c, y, f, R)
  BY DEF Reported
<1> QED  BY <1>1, <1>2, <1>3, <1>4 DEF CursorInv

LEMMA GotCursor ==
    ASSUME IInv, NEW s \in Sessions, Collect(s)
    PROVE  LET c == Collected(s).cursor
           IN  c \in Cursor /\ c # NoCursor /\ c.path[1] = s
<1>1. Sound(s, Collected(s))
  BY CollectFacts, CollectedSound
<1> QED  BY <1>1, PathFacts, NoCursorAssumption DEF Sound, IInv

LEMMA CollectCursors ==
    ASSUME IInv, NEW s \in Sessions, Collect(s)
    PROVE  CursorsInv(store, queued)' /\ CursorsInv(next, queued \cup events)'
<1>1. PICK got : got = Collected(s)
  OBVIOUS
<1>2. PICK N, M, Q, E, S : N = next /\ M = next' /\ Q = queued /\ E = events /\ S = store
  OBVIOUS
<1>3. /\ s \in todo /\ M.seeded = N.seeded \cup got.seeded
      /\ \A k \in Keys : M.cursors[k] \in {N.cursors[k], got.cursor}
      /\ store' = S /\ queued' = Q /\ events' = E \cup got.events
      /\ UNCHANGED <<files, copying, started>> /\ split \subseteq split'
  BY <1>1, <1>2, CollectFacts DEF codexVars
<1>4. s \notin split' => copying[s] = << >>
  BY CollectFacts
<1>5. ASSUME NEW k \in Keys, S.cursors[k] # NoCursor PROVE CursorInv(S.cursors[k], S, Q)'
  <2>1. PICK c : c = S.cursors[k]
    OBVIOUS
  <2>2. CursorInv(c, S, Q)
    BY <1>2, <1>5, <2>1 DEF IInv, CursorsInv
  <2>3. CursorInv(c, S, Q)'
    BY <1>3, <2>2, CursorMore
  <2> QED  BY <2>1, <2>3
<1>6. CursorsInv(store, queued)'
  BY <1>3, <1>5 DEF CursorsInv
<1>7. PICK R : R = Q \cup E \cup got.events
  OBVIOUS
<1>8. CursorInv(got.cursor, M, R)'
  <2>1. PICK c : c = got.cursor
    OBVIOUS
  <2>2. PICK f : f = files[s]
    OBVIOUS
  <2>3. Sound(s, got)
    BY <1>1, CollectFacts, CollectedSound
  <2>4. c.path[1] = s
    BY <1>1, <2>1, GotCursor
  <2>5. Exists(s)
    BY <1>3, CollectFacts DEF IInv, NextInv, TypeOK
  <2>6. Known(c, f) /\ (c.active.inherited => c.active.turn[1] # s)
    BY <2>1, <2>2, <2>3 DEF Sound
  <2>7. s \notin M.seeded => Exact(c, f) /\ Reported(c, s, f, R)
    BY <1>2, <1>3, <1>7, <2>1, <2>2, <2>3 DEF Sound
  <2>8. s \notin split' => OwnBehind(c, s, Whole(s))
    <3>1. SUFFICES ASSUME s \notin split' PROVE OwnBehind(c, s, Whole(s))
      OBVIOUS
    <3>2. Whole(s) = f /\ f \in File
      BY <1>4, <2>2, <3>1, WholeFacts DEF IInv
    <3>3. c.offset = Len(f)
      BY <2>1, <2>2, <2>3 DEF Sound
    <3> QED  BY <3>2, <3>3 DEF OwnBehind, File
  <2>9. PICK w : w = Whole(s)
    OBVIOUS
  <2>10. files'[s] = f /\ Whole(s)' = w /\ Exists(s)'
    BY <1>3, <2>2, <2>5, <2>9 DEF Whole, Exists
  <2>11. CursorInv(c, M, R)'
    BY <2>4, <2>6, <2>7, <2>8, <2>9, <2>10 DEF CursorInv
  <2> QED  BY <2>1, <2>11
<1>9. ASSUME NEW k \in Keys, M.cursors[k] # NoCursor PROVE CursorInv(M.cursors[k], M, R)'
  <2>1. CASE M.cursors[k] = got.cursor
    BY <1>8, <2>1
  <2>2. CASE M.cursors[k] = N.cursors[k]
    <3>1. PICK c : c = N.cursors[k]
      OBVIOUS
    <3>2. CursorInv(c, N, Q \cup E)
      BY <1>2, <1>9, <2>2, <3>1 DEF IInv, CursorsInv
    <3>3. CursorInv(c, M, R)'
      <4>1. N.seeded \subseteq M.seeded /\ Q \cup E \subseteq R
        BY <1>3, <1>7
      <4> QED  BY <1>3, <3>2, <4>1, CursorMore
    <3> QED  BY <2>2, <3>1, <3>3
  <2> QED  BY <1>3, <2>1, <2>2
<1>10. CursorsInv(next, queued \cup events)'
  <2>1. (queued \cup events)' = R
    BY <1>3, <1>7
  <2> QED  BY <1>2, <1>9, <2>1 DEF CursorsInv
<1> QED  BY <1>6, <1>10

LEMMA CollectLegacy ==
    ASSUME IInv, NEW s \in Sessions, Collect(s)
    PROVE  LegacyInv(store)' /\ LegacyInv(next)' /\ NextInv'
<1>1. PICK got : got = Collected(s)
  OBVIOUS
<1>2. /\ s \in todo /\ todo' = todo \ {s} /\ found' = found /\ phase = "scan" /\ phase' = phase /\ store' = store
      /\ started' = started
      /\ next'.cutoverAt = next.cutoverAt
      /\ next'.seeded = next.seeded \cup got.seeded
      /\ next'.cursors[s] = got.cursor
      /\ \A k \in Keys : next'.cursors[k] \in {next.cursors[k], got.cursor}
  BY <1>1, CollectFacts DEF codexVars
<1>3. got.cursor # NoCursor /\ got.cursor.path[1] = s
  BY <1>1, GotCursor
<1>4. LegacyInv(store)'
  BY <1>2 DEF IInv, LegacyInv
<1>5. LegacyInv(next)'
  <2>1. SUFFICES ASSUME NEW y \in Sessions, next'.cursors[y] = NoCursor, LegacyOf[y] # NoSession,
                        next'.cursors[LegacyOf[y]] # NoCursor, next'.cursors[LegacyOf[y]].path[1] = y
                 PROVE  started[y] = 0
    BY <1>2 DEF LegacyInv
  <2>2. y # s /\ y \in Keys /\ LegacyOf[y] \in Keys
    BY <1>2, <1>3, <2>1, KeyTypes, LegacyKey DEF IInv
  <2>3. next.cursors[y] = NoCursor /\ next.cursors[LegacyOf[y]] = next'.cursors[LegacyOf[y]]
    BY <1>2, <1>3, <2>1, <2>2
  <2> QED  BY <2>1, <2>3 DEF IInv, LegacyInv
<1>6. NextInv'
  <2>1. got.seeded \subseteq {s}
    BY <1>1, <1>2, CollectedSound DEF Sound
  <2>2. NextInv
    BY DEF IInv
  <2>3. \A q \in found' : Exists(q)'
    BY <1>2, <2>2 DEF NextInv, Exists
  <2>4. next'.seeded \cap todo' \subseteq store'.seeded
    BY <1>2, <2>1, <2>2 DEF NextInv
  <2>5. \A k \in Keys : next'.cursors[k] # store'.cursors[k] =>
            next'.cursors[k] # NoCursor /\ next'.cursors[k].path[1] \notin todo'
    BY <1>2, <1>3, <2>2 DEF NextInv
  <2> QED  BY <1>2, <2>2, <2>3, <2>4, <2>5 DEF NextInv
<1> QED  BY <1>4, <1>5, <1>6

LEMMA CollectEvents ==
    ASSUME IInv, NEW s \in Sessions, Collect(s)
    PROVE  EventsInv'
<1>1. PICK got : got = Collected(s)
  OBVIOUS
<1>2. PICK N, M, S, Q, E : N = next /\ M = next' /\ S = store /\ Q = queued \cup events /\ E = got.events
  OBVIOUS
<1>3. /\ s \in todo /\ phase = "scan" /\ phase' = phase
      /\ UNCHANGED <<files, copying, path, started>> /\ store' = S
      /\ queued' \cup events' = Q \cup E
      /\ split \subseteq split' /\ (s \notin split' => s \notin split /\ copying[s] = << >>)
      /\ M.cursors[s] = got.cursor
      /\ \A k \in Keys : M.cursors[k] \in {N.cursors[k], got.cursor}
  BY <1>1, <1>2, CollectFacts DEF codexVars
<1>4. got.cursor \in Cursor /\ got.cursor # NoCursor /\ got.cursor.path[1] = s
  BY <1>1, GotCursor
<1>5. Sound(s, got) /\ (\A e \in E : UseOf(e, S) /\ e.session = s) /\ (s \notin split' => Fresh(s, E))
  BY <1>1, <1>2, <1>3, CollectedSound
<1>6. EventsInv /\ TypeOK /\ FilesInv
  BY DEF IInv
<1>7. \A e \in Q \cup E : e.turn \in AllTurns
  BY <1>2, <1>5, <1>6, KeyTypes DEF Sound, UsageEvent
<1>8. \A e \in Q \cup E : UseOf(e, S) /\ UseOf(e, S)'
  <2>1. \A e \in Q \cup E : UseOf(e, S)
    BY <1>2, <1>5, <1>6 DEF EventsInv
  <2> QED  BY <1>3, <2>1 DEF UseOf
<1>9. \A st, e : OnceInv(st, e) => OnceInv(st, e)'
  BY <1>3 DEF OnceInv, Reads, EventsFrom, Blocked
<1>10. \A e \in Q : e.session \notin split =>
            e.session \in {e.turn[1], OldKey(e.turn[1])} /\ OnceInv(S, e) /\ OnceInv(N, e)
  BY <1>2, <1>3, <1>6 DEF EventsInv
<1>11. ASSUME NEW e \in Q \cup E, e.turn[1] = s PROVE OnceInv(M, e)
  <2>1. PICK f : f = files[s] /\ f \in File /\ WellFormed(f)
    BY <1>6, SessionFacts
  <2>2. PICK end \in 1 .. Len(f) : EndsAt(f, e.turn, end)
    BY <1>8, <1>11, <2>1 DEF UseOf
  <2>3. PICK c : c = got.cursor
    OBVIOUS
  <2>4. c \in Cursor /\ Known(c, f) /\ c.offset = Len(f)
    BY <1>5, <2>1, <2>3 DEF Sound
  <2>5. Past(c, f, e.turn)
    BY <1>7, <2>1, <2>2, <2>4, PastIf
  <2>6. \A d : Reads(M, s, d) => d = c
    BY <1>3, <1>4, <2>3 DEF Reads
  <2> QED  BY <1>3, <1>4, <1>11, <2>1, <2>5, <2>6 DEF OnceInv
<1>12. ASSUME NEW e \in Q, e.turn[1] # s, OnceInv(N, e) PROVE OnceInv(M, e)
  <2>1. PICK y \in Sessions : y = e.turn[1] /\ y # s /\ y \in Keys
    BY <1>6, <1>7, <1>12, TurnFacts, KeyTypes
  <2>2. ASSUME NEW k \in Keys, Reads(M, y, M.cursors[k])
        PROVE  \E j \in Keys : N.cursors[j] = M.cursors[k] /\ Reads(N, y, N.cursors[j])
    <3>1. PICK c : c = M.cursors[k] /\ c # NoCursor /\ c.path[1] = y
      BY <2>2 DEF Reads
    <3>2. c # got.cursor
      BY <1>4, <2>1, <3>1
    <3>3. CASE c = M.cursors[y]
      <4>1. N.cursors[y] = c
        BY <1>3, <2>1, <3>2, <3>3
      <4> QED  BY <2>1, <3>1, <4>1 DEF Reads
    <3>4. CASE M.cursors[y] = NoCursor /\ LegacyOf[y] # NoSession /\ c = M.cursors[LegacyOf[y]]
      <4>1. N.cursors[y] = NoCursor /\ N.cursors[LegacyOf[y]] = c /\ LegacyOf[y] \in Keys
        BY <1>3, <1>4, <2>1, <3>2, <3>4, LegacyKey
      <4> QED  BY <2>1, <3>1, <3>4, <4>1 DEF Reads
    <3> QED  BY <2>2, <3>1, <3>3, <3>4 DEF Reads
  <2>3. M.cursors[y] = NoCursor => N.cursors[y] = NoCursor
    BY <1>3, <1>4, <2>1
  <2> QED  BY <1>12, <2>1, <2>2, <2>3 DEF OnceInv
<1>13. ASSUME NEW e \in Q \cup E, e.session \notin split'
       PROVE  e.session \in {e.turn[1], OldKey(e.turn[1])} /\ OnceInv(S, e) /\ OnceInv(M, e)
  <2>1. CASE e \in Q
    <3>1. e.session \notin split
      BY <1>3, <1>13
    <3> QED  BY <1>10, <1>11, <1>12, <2>1, <3>1
  <2>2. CASE e \in E
    <3>1. s \notin split'
      BY <1>5, <1>13, <2>2
    <3>2. e.session = s /\ e.turn[1] = s /\ OnceInv(S, e)
      BY <1>2, <1>5, <2>2, <3>1 DEF Fresh
    <3> QED  BY <1>11, <2>2, <3>2
  <2> QED  BY <2>1, <2>2
<1>14. ASSUME NEW e \in Q \cup E, NEW g \in Q \cup E, e.session \notin split', g.session \notin split', e.turn = g.turn
       PROVE  e = g
  <2>1. e.session \notin split /\ g.session \notin split
    BY <1>3, <1>14
  <2>2. CASE e \in Q /\ g \in Q
    BY <1>2, <1>6, <1>14, <2>1, <2>2 DEF EventsInv
  <2>3. CASE e \in E
    <3>1. Fresh(s, E)
      BY <1>5, <1>14, <2>3
    <3> QED  BY <1>2, <1>14, <2>1, <2>3, <3>1 DEF Fresh
  <2>4. CASE g \in E
    <3>1. Fresh(s, E)
      BY <1>5, <1>14, <2>4
    <3> QED  BY <1>2, <1>14, <2>1, <2>4, <3>1 DEF Fresh
  <2> QED  BY <2>2, <2>3, <2>4
<1>15. \A e \in Q \cup E : e.session \notin split' =>
            e.session \in {e.turn[1], OldKey(e.turn[1])} /\ OnceInv(S, e)' /\ OnceInv(M, e)'
  BY <1>9, <1>13
<1>16. store' = S /\ next' = M /\ (queued \cup events)' = Q \cup E
  BY <1>2, <1>3
<1> QED  BY <1>8, <1>14, <1>15, <1>16 DEF EventsInv

LEMMA CollectInv ==
    ASSUME IInv, NEW s \in Sessions, Collect(s)
    PROVE  IInv'
<1>1. TypeOK' /\ FilesInv'
  BY CollectTypes
<1>2. store' = store /\ phase' = "scan"
  BY CollectFacts
<1>3. store'.cutoverAt # 0 /\ (phase' \in {"idle", "commit"} => events' \subseteq queued')
  BY <1>2 DEF IInv
<1> QED  BY <1>1, <1>3, CollectCursors, CollectLegacy, CollectEvents DEF IInv

-----------------------------------------------------------------------------
(* The rest of the collection cycle changes nothing of the files; whatever    *)
(* it puts in the place of the stores, they were there, and what is queued    *)
(* was found.                                                               *)
CycleOn ==
    /\ UNCHANGED <<codexVars, split>>
    /\ store' \in Store /\ next' \in Store
    /\ todo' \subseteq found' /\ found' \subseteq Sessions
    /\ phase' \in {"idle", "scan", "append", "commit"} /\ round' \in 0 .. World.rounds
    /\ queued' \subseteq queued \cup events /\ events' \subseteq queued \cup events

LEMMA CycleTypes ==
    ASSUME IInv, CycleOn
    PROVE  TypeOK' /\ FilesInv'
<1>1. UNCHANGED <<world, files, copying, path, started, written, turns, moves>>
  BY DEF CycleOn, codexVars
<1>2. Store' = Store /\ World' = World
  BY <1>1 DEF Store, World
<1>3. queued' \subseteq UsageEvent /\ events' \subseteq UsageEvent
  BY DEF CycleOn, IInv, TypeOK
<1>4. TypeOK'
  BY <1>1, <1>2, <1>3 DEF CycleOn, IInv, TypeOK
<1>5. FilesInv'
  <2>1. Wholes' = Wholes /\ Alive' = Alive
    BY <1>1 DEF Wholes, Whole, Alive, Exists
  <2> QED  BY <1>1, <2>1 DEF IInv, FilesInv
<1> QED  BY <1>4, <1>5

LEMMA CycleSame ==
    ASSUME IInv, CycleOn
    PROVE  /\ \A st, Q : CursorsInv(st, Q) => CursorsInv(st, Q)'
           /\ \A st : LegacyInv(st) => LegacyInv(st)'
           /\ \A st, e : OnceInv(st, e) => OnceInv(st, e)'
           /\ \A st, e : UseOf(e, st) => UseOf(e, st)'
           /\ \A s : Exists(s) <=> Exists(s)'
           /\ split' = split
<1>1. UNCHANGED <<files, copying, path, started, split>>
  BY DEF CycleOn, codexVars
<1>2. ASSUME NEW st, NEW Q, CursorsInv(st, Q) PROVE CursorsInv(st, Q)'
  <2>1. SUFFICES ASSUME NEW k \in Keys, st.cursors[k] # NoCursor PROVE CursorInv(st.cursors[k], st, Q)'
    BY DEF CursorsInv
  <2>2. PICK c : c = st.cursors[k]
    OBVIOUS
  <2>3. CursorInv(c, st, Q)
    BY <1>2, <2>1, <2>2 DEF CursorsInv
  <2>4. CursorInv(c, st, Q)'
    BY <1>1, <2>3, CursorMore
  <2> QED  BY <2>2, <2>4
<1>3. \A st : LegacyInv(st) => LegacyInv(st)'
  BY <1>1 DEF LegacyInv
<1>4. \A st, e : OnceInv(st, e) => OnceInv(st, e)'
  BY <1>1 DEF OnceInv, Reads, EventsFrom, Blocked
<1>5. \A st, e : UseOf(e, st) => UseOf(e, st)'
  BY <1>1 DEF UseOf
<1>6. \A s : Exists(s) <=> Exists(s)'
  BY <1>1 DEF Exists
<1> QED  BY <1>1, <1>2, <1>3, <1>4, <1>5, <1>6

(* Of a store with the cursors of another: what is seeded may be more. *)
LEMMA SameCursors ==
    ASSUME NEW st, NEW nt, nt.cursors = st.cursors
    PROVE  /\ LegacyInv(st) => LegacyInv(nt)
           /\ \A e : OnceInv(st, e) => OnceInv(nt, e)
           /\ \A Q, R : CursorsInv(st, Q) /\ Q \subseteq R /\ st.seeded \subseteq nt.seeded => CursorsInv(nt, R)
           /\ \A e : UseOf(e, st) /\ st.seeded \subseteq nt.seeded => UseOf(e, nt)
<1>1. LegacyInv(st) => LegacyInv(nt)
  BY DEF LegacyInv
<1>2. \A e : OnceInv(st, e) => OnceInv(nt, e)
  BY DEF OnceInv, Reads
<1>3. ASSUME NEW Q, NEW R, CursorsInv(st, Q), Q \subseteq R, st.seeded \subseteq nt.seeded
      PROVE  CursorsInv(nt, R)
  BY <1>3 DEF CursorsInv, CursorInv, Reported
<1>4. \A e : UseOf(e, st) /\ st.seeded \subseteq nt.seeded => UseOf(e, nt)
  BY DEF UseOf
<1> QED  BY <1>1, <1>2, <1>3, <1>4

(* An empty store has no cursor to speak of. *)
LEMMA NoStoreFacts ==
    /\ world \in DOMAIN Worlds => NoStore \in Store
    /\ \A Q : CursorsInv(NoStore, Q)
    /\ LegacyInv(NoStore)
    /\ NoStore.cutoverAt = Never /\ NoStore.seeded = {}
    /\ \A k \in Keys : NoStore.cursors[k] = NoCursor
<1>1. \A k \in Keys : NoStore.cursors[k] = NoCursor
  BY DEF NoStore
<1>2. NoStore.cutoverAt = Never /\ NoStore.seeded = {}
  BY DEF NoStore
<1>3. world \in DOMAIN Worlds => NoStore \in Store
  <2>1. world \in DOMAIN Worlds => Never \in Never .. World.rounds
    BY WorldFacts DEF Never
  <2> QED  BY <2>1 DEF NoStore, Store
<1>4. \A Q : CursorsInv(NoStore, Q)
  BY <1>1 DEF CursorsInv
<1>5. LegacyInv(NoStore)
  BY <1>1, LegacyKey DEF LegacyInv
<1> QED  BY <1>1, <1>2, <1>3, <1>4, <1>5

-----------------------------------------------------------------------------
LEMMA StartCollectionInv ==
    ASSUME IInv, NEW S \in SUBSET {s \in Sessions : Exists(s)}, StartCollection(S)
    PROVE  IInv'
<1>1. PICK st, nt, Q : st = store /\ nt = next' /\ Q = queued
  OBVIOUS
<1>2. /\ phase = "idle" /\ phase' = "scan" /\ round < World.rounds /\ round' = round + 1
      /\ found' = S /\ todo' = S /\ events' = {} /\ queued' = Q /\ store' = st
      /\ UNCHANGED <<codexVars, split>>
  BY <1>1 DEF StartCollection
<1>3. TypeOK /\ st \in Store /\ store.cutoverAt # 0
  BY <1>1 DEF IInv, TypeOK
<1>4. round \in Nat /\ World.rounds \in Nat /\ round + 1 \in 0 .. World.rounds /\ round + 1 \in Never .. World.rounds /\ round + 1 >= 1
  BY <1>2, <1>3, CodexTypes DEF TypeOK, Never
<1>5. /\ nt \in Store /\ nt.cursors = st.cursors /\ nt.seeded = st.seeded
      /\ nt.cutoverAt = IF st.cutoverAt = Never THEN round + 1 ELSE st.cutoverAt
  BY <1>1, <1>2, <1>3, <1>4 DEF StartCollection, Store
<1>6. nt.cutoverAt >= 1
  <2>1. st.cutoverAt \in Never .. World.rounds /\ st.cutoverAt # 0
    BY <1>1, <1>3 DEF Store
  <2> QED  BY <1>4, <1>5, <2>1 DEF Never
<1>7. events \subseteq Q
  BY <1>1, <1>2 DEF IInv
<1>8. CycleOn
  BY <1>1, <1>2, <1>3, <1>4, <1>5 DEF CycleOn
<1>9. TypeOK' /\ FilesInv'
  BY <1>8, CycleTypes
<1>10. CursorsInv(st, Q)' /\ CursorsInv(nt, Q)'
  <2>1. CursorsInv(st, Q) /\ CursorsInv(nt, Q)
    BY <1>1, <1>5, SameCursors DEF IInv
  <2> QED  BY <1>8, <2>1, CycleSame
<1>11. LegacyInv(st)' /\ LegacyInv(nt)'
  <2>1. LegacyInv(st) /\ LegacyInv(nt)
    BY <1>1, <1>5, SameCursors DEF IInv
  <2> QED  BY <1>8, <2>1, CycleSame
<1>12. NextInv'
  <2>1. \A s \in S : Exists(s)'
    BY <1>8, CycleSame
  <2> QED  BY <1>1, <1>2, <1>5, <1>6, <2>1 DEF NextInv
<1>13. EventsInv'
  <2>1. \A e \in Q : UseOf(e, st)'
    <3>1. \A e \in Q : UseOf(e, st)
      BY <1>1 DEF IInv, EventsInv
    <3> QED  BY <1>8, <3>1, CycleSame
  <2>2. ASSUME NEW e \in Q, e.session \notin split
        PROVE  e.session \in {e.turn[1], OldKey(e.turn[1])} /\ OnceInv(st, e)' /\ OnceInv(nt, e)'
    <3>1. e.session \in {e.turn[1], OldKey(e.turn[1])} /\ OnceInv(st, e)
      BY <1>1, <2>2 DEF IInv, EventsInv
    <3>2. OnceInv(nt, e)
      BY <1>5, <3>1, SameCursors
    <3> QED  BY <1>8, <3>1, <3>2, CycleSame
  <2>3. \A e, g \in Q : e.session \notin split /\ g.session \notin split /\ e.turn = g.turn => e = g
    BY <1>1 DEF IInv, EventsInv
  <2>4. queued' \cup events' = Q /\ split' = split /\ next' = nt
    BY <1>1, <1>2
  <2> QED  BY <1>2, <2>1, <2>2, <2>3, <2>4 DEF EventsInv
<1>14. store'.cutoverAt # 0 /\ (phase' \in {"idle", "commit"} => events' \subseteq queued')
  BY <1>1, <1>2, <1>3
<1>15. CursorsInv(store, queued)' /\ CursorsInv(next, queued \cup events)'
  <2>1. (queued \cup events)' = Q
    BY <1>2
  <2> QED  BY <1>1, <1>2, <1>10, <2>1 DEF CursorsInv
<1> QED  BY <1>1, <1>2, <1>9, <1>11, <1>12, <1>13, <1>14, <1>15 DEF IInv

LEMMA UseMore ==
    ASSUME NEW st, NEW nt, st.seeded \subseteq nt.seeded, NEW e, UseOf(e, st)
    PROVE  UseOf(e, nt)
<1> QED  BY DEF UseOf

LEMMA EndCollectionInv ==
    ASSUME IInv, EndCollection
    PROVE  IInv'
<1>1. PICK st, nt, mt, Q, E : st = store /\ nt = next' /\ mt = next /\ Q = queued /\ E = events
  OBVIOUS
<1>2. /\ phase = "scan" /\ phase' = "append" /\ todo = {} /\ todo' = {} /\ found' = {}
      /\ events' = E /\ queued' = Q /\ store' = st /\ round' = round
      /\ UNCHANGED <<codexVars, split>>
  BY <1>1 DEF EndCollection, Collecting
<1>3. TypeOK /\ st \in Store /\ mt \in Store
  BY <1>1 DEF IInv, TypeOK
<1>4. /\ nt \in Store /\ nt.cursors = mt.cursors /\ nt.seeded = mt.seeded /\ nt.cutoverAt = mt.cutoverAt
  <2>1. nt = [mt EXCEPT !.initAt = IF FirstCollection THEN round ELSE @]
    BY <1>1 DEF EndCollection, Initialised
  <2>2. round \in Never .. World.rounds
    BY <1>3, CodexTypes DEF TypeOK
  <2> QED  BY <1>3, <2>1, <2>2 DEF Store
<1>5. CycleOn
  BY <1>1, <1>2, <1>3, <1>4 DEF CycleOn, TypeOK
<1>6. TypeOK' /\ FilesInv'
  BY <1>5, CycleTypes
<1>7. CursorsInv(st, Q)' /\ CursorsInv(nt, Q \cup E)'
  <2>1. CursorsInv(st, Q) /\ CursorsInv(nt, Q \cup E)
    BY <1>1, <1>4, SameCursors DEF IInv
  <2> QED  BY <1>5, <2>1, CycleSame
<1>8. LegacyInv(st)' /\ LegacyInv(nt)'
  <2>1. LegacyInv(st) /\ LegacyInv(nt)
    BY <1>1, <1>4, SameCursors DEF IInv
  <2> QED  BY <1>5, <2>1, CycleSame
<1>9. NextInv'
  <2>1. NextInv
    BY DEF IInv
  <2> QED  BY <1>1, <1>2, <1>4, <2>1 DEF NextInv
<1>10. EventsInv'
  <2>1. \A e \in Q \cup E : UseOf(e, st)'
    <3>1. \A e \in Q \cup E : UseOf(e, st)
      BY <1>1 DEF IInv, EventsInv
    <3> QED  BY <1>5, <3>1, CycleSame
  <2>2. ASSUME NEW e \in Q \cup E, e.session \notin split
        PROVE  e.session \in {e.turn[1], OldKey(e.turn[1])} /\ OnceInv(st, e)' /\ OnceInv(nt, e)'
    <3>1. e.session \in {e.turn[1], OldKey(e.turn[1])} /\ OnceInv(st, e) /\ OnceInv(mt, e)
      BY <1>1, <1>2, <2>2 DEF IInv, EventsInv
    <3>2. OnceInv(nt, e)
      BY <1>4, <3>1, SameCursors
    <3> QED  BY <1>5, <3>1, <3>2, CycleSame
  <2>3. \A e, g \in Q \cup E : e.session \notin split /\ g.session \notin split /\ e.turn = g.turn => e = g
    BY <1>1 DEF IInv, EventsInv
  <2>4. queued' \cup events' = Q \cup E /\ split' = split /\ next' = nt
    BY <1>1, <1>2
  <2> QED  BY <1>2, <2>1, <2>2, <2>3, <2>4 DEF EventsInv
<1>11. store'.cutoverAt # 0 /\ (phase' \in {"idle", "commit"} => events' \subseteq queued')
  BY <1>1, <1>2 DEF IInv
<1>12. CursorsInv(store, queued)' /\ CursorsInv(next, queued \cup events)'
  BY <1>1, <1>2, <1>7 DEF CursorsInv
<1> QED  BY <1>1, <1>2, <1>6, <1>8, <1>9, <1>10, <1>11, <1>12 DEF IInv

LEMMA AppendEventsInv ==
    ASSUME IInv, AppendEvents
    PROVE  IInv'
<1>1. PICK st, mt, Q, E : st = store /\ mt = next /\ Q = queued /\ E = events
  OBVIOUS
<1>2. /\ phase = "append" /\ phase' = "commit" /\ todo' = todo /\ found' = found
      /\ events' = E /\ queued' = Q \cup E /\ store' = st /\ next' = mt /\ round' = round
      /\ UNCHANGED <<codexVars, split>>
  BY <1>1 DEF AppendEvents
<1>3. TypeOK /\ st \in Store /\ mt \in Store
  BY <1>1 DEF IInv, TypeOK
<1>4. CycleOn
  BY <1>1, <1>2, <1>3 DEF CycleOn, TypeOK
<1>5. TypeOK' /\ FilesInv'
  BY <1>4, CycleTypes
<1>6. CursorsInv(st, Q \cup E)' /\ CursorsInv(mt, Q \cup E)'
  <2>1. CursorsInv(st, Q \cup E) /\ CursorsInv(mt, Q \cup E)
    BY <1>1, SameCursors DEF IInv
  <2> QED  BY <1>4, <2>1, CycleSame
<1>7. LegacyInv(st)' /\ LegacyInv(mt)'
  <2>1. LegacyInv(st) /\ LegacyInv(mt)
    BY <1>1 DEF IInv
  <2> QED  BY <1>4, <2>1, CycleSame
<1>8. NextInv'
  <2>1. \A s \in found : Exists(s)'
    BY <1>2, <1>4, CycleSame DEF IInv, NextInv
  <2> QED  BY <1>1, <1>2, <2>1 DEF IInv, NextInv
<1>9. EventsInv'
  <2>1. \A e \in Q \cup E : UseOf(e, st)'
    <3>1. \A e \in Q \cup E : UseOf(e, st)
      BY <1>1 DEF IInv, EventsInv
    <3> QED  BY <1>4, <3>1, CycleSame
  <2>2. ASSUME NEW e \in Q \cup E, e.session \notin split
        PROVE  e.session \in {e.turn[1], OldKey(e.turn[1])} /\ OnceInv(st, e)' /\ OnceInv(mt, e)'
    <3>1. e.session \in {e.turn[1], OldKey(e.turn[1])} /\ OnceInv(st, e) /\ OnceInv(mt, e)
      BY <1>1, <1>2, <2>2 DEF IInv, EventsInv
    <3> QED  BY <1>4, <3>1, CycleSame
  <2>3. \A e, g \in Q \cup E : e.session \notin split /\ g.session \notin split /\ e.turn = g.turn => e = g
    BY <1>1 DEF IInv, EventsInv
  <2>4. queued' \cup events' = Q \cup E /\ split' = split
    BY <1>2
  <2> QED  BY <1>2, <2>1, <2>2, <2>3, <2>4 DEF EventsInv
<1>10. store'.cutoverAt # 0 /\ events' \subseteq queued'
  BY <1>1, <1>2 DEF IInv
<1>11. CursorsInv(store, queued)' /\ CursorsInv(next, queued \cup events)'
  <2>1. queued' = Q \cup E /\ (queued \cup events)' = Q \cup E
    BY <1>2
  <2> QED  BY <1>2, <1>6, <2>1 DEF CursorsInv
<1> QED  BY <1>2, <1>5, <1>7, <1>8, <1>9, <1>10, <1>11 DEF IInv

(* The collection is over, and st is the store that is saved. *)
LEMMA OverInv ==
    ASSUME IInv, CycleOn, NEW st, store' = st,
           phase' = "idle", todo' = {}, found' = {}, next' = NoStore, events' = {}, queued' = queued,
           st.cutoverAt # 0, CursorsInv(st, queued), LegacyInv(st), store.seeded \subseteq st.seeded,
           \A e \in queued : e.session \notin split => OnceInv(st, e)
    PROVE  IInv'
<1>1. PICK Q : Q = queued
  OBVIOUS
<1>2. TypeOK' /\ FilesInv'
  BY CycleTypes
<1>3. CursorsInv(st, Q)' /\ CursorsInv(NoStore, Q)'
  <2>1. CursorsInv(st, Q)'
    BY <1>1, CycleSame
  <2>2. CursorsInv(NoStore, Q)'
    BY NoStoreFacts, CycleSame
  <2> QED  BY <2>1, <2>2
<1>4. LegacyInv(st)' /\ LegacyInv(NoStore)'
  <2>1. LegacyInv(st)'
    BY CycleSame
  <2>2. LegacyInv(NoStore)'
    BY NoStoreFacts, CycleSame
  <2> QED  BY <2>1, <2>2
<1>5. EventsInv'
  <2>1. ASSUME NEW e \in Q PROVE UseOf(e, st)'
    <3>1. UseOf(e, store)
      BY <1>1, <2>1 DEF IInv, EventsInv
    <3>2. UseOf(e, st)
      <4>1. PICK os : os = store
        OBVIOUS
      <4> QED  BY <3>1, <4>1, UseMore
    <3> QED  BY <3>2, CycleSame
  <2>2. ASSUME NEW e \in Q, e.session \notin split
        PROVE  e.session \in {e.turn[1], OldKey(e.turn[1])} /\ OnceInv(st, e)'
    <3>1. e.session \in {e.turn[1], OldKey(e.turn[1])} /\ OnceInv(st, e)
      BY <1>1, <2>2 DEF IInv, EventsInv
    <3> QED  BY <3>1, CycleSame
  <2>3. \A e, g \in Q : e.session \notin split /\ g.session \notin split /\ e.turn = g.turn => e = g
    BY <1>1 DEF IInv, EventsInv
  <2>4. queued' \cup events' = Q /\ split' = split
    BY <1>1, CycleSame
  <2> QED  BY <2>1, <2>2, <2>3, <2>4 DEF EventsInv
<1>6. CursorsInv(store, queued)' /\ CursorsInv(next, queued \cup events)'
  <2>1. queued' = Q /\ (queued \cup events)' = Q
    BY <1>1
  <2> QED  BY <1>3, <2>1 DEF CursorsInv
<1>7. LegacyInv(store)' /\ LegacyInv(next)'
  BY <1>4
<1>8. NextInv'
  BY DEF NextInv
<1> QED  BY <1>2, <1>5, <1>6, <1>7, <1>8 DEF IInv

LEMMA CommitCursorsInv ==
    ASSUME IInv, CommitCursors
    PROVE  IInv'
<1>1. PICK st : st = next
  OBVIOUS
<1>2. TypeOK /\ st \in Store /\ phase = "commit"
  BY <1>1 DEF IInv, TypeOK, CommitCursors
<1>3. CycleOn
  BY <1>1, <1>2, NoStoreFacts DEF CycleOn, CommitCursors, TypeOK
<1>4. st.cutoverAt # 0 /\ store.seeded \subseteq st.seeded
  <2>1. st.cutoverAt \in Int /\ st.cutoverAt >= 1
    BY <1>1, <1>2, CodexTypes DEF IInv, NextInv, Store
  <2> QED  BY <1>1, <1>2, <2>1 DEF IInv, NextInv
<1>5. CursorsInv(st, queued)
  <2>1. queued \cup events = queued
    BY <1>2 DEF IInv
  <2> QED  BY <1>1, <2>1 DEF IInv
<1>6. LegacyInv(st)
  BY <1>1 DEF IInv
<1>7. \A e \in queued : e.session \notin split => OnceInv(st, e)
  BY <1>1, <1>2 DEF IInv, EventsInv
<1> QED  BY <1>1, <1>3, <1>4, <1>5, <1>6, <1>7, OverInv DEF CommitCursors

LEMMA AbandonInv ==
    ASSUME IInv, Abandon
    PROVE  IInv'
<1>1. PICK st : st = store
  OBVIOUS
<1>2. TypeOK /\ st \in Store
  BY <1>1 DEF IInv, TypeOK
<1>3. CycleOn
  BY <1>1, <1>2, NoStoreFacts DEF CycleOn, Abandon, TypeOK
<1>4. st.cutoverAt # 0 /\ CursorsInv(st, queued) /\ LegacyInv(st)
  BY <1>1 DEF IInv
<1>5. \A e \in queued : e.session \notin split => OnceInv(st, e)
  BY <1>1 DEF IInv, EventsInv
<1> QED  BY <1>1, <1>3, <1>4, <1>5, OverInv DEF Abandon

-----------------------------------------------------------------------------
(* The beginning *)
LEMMA LatestOf ==
    ASSUME NEW n \in Nat, NEW S \in SUBSET (0 .. n), S # {}
    PROVE  Max(S) \in S /\ \A x \in S : x <= Max(S)
<1>1. PICK T : T = {x + 1 : x \in S}
  OBVIOUS
<1>2. T \in SUBSET (1 .. n + 1) /\ T # {} /\ n + 1 \in Nat
  <2>1. \A x \in T : x \in 1 .. n + 1
    BY <1>1
  <2>2. T # {}
    BY <1>1
  <2> QED  BY <2>1, <2>2
<1>3. PICK m \in T : \A x \in T : x <= m
  BY <1>2, Greatest
<1>4. m - 1 \in S /\ \A x \in S : m - 1 >= x
  BY <1>1, <1>3
<1> QED  BY <1>4 DEF Max

LEMMA InitTypes ==
    ASSUME Init
    PROVE  /\ world \in DOMAIN Worlds /\ files \in World.recordings
           /\ files \in [Sessions -> Seq(Record)] /\ Recorded(files)
           /\ World.oldReads # {} => SharedKeys(files)
           /\ turns \in 0 .. MaxTurns
           /\ \A s \in Sessions : files[s] \in File /\ \A i \in DOMAIN files[s] : files[s][i].turn[2] <= turns
<1>1. world \in DOMAIN Worlds /\ files \in World.recordings
  BY DEF Init
<1>2. files \in [Sessions -> Seq(Record)] /\ Recorded(files) /\ (World.oldReads # {} => SharedKeys(files))
  BY <1>1, RecordingsAssumption DEF World
<1>3. PICK U : U = UNION {{r.turn[2] : r \in Range(files[s])} : s \in Sessions}
  OBVIOUS
<1>4. turns = Max({0} \cup U)
  BY <1>3 DEF Init
<1>5. \A s \in Sessions : files[s] \in File
  BY <1>2 DEF File
<1>6. MaxTurns \in Nat
  BY CodexAssumption
<1>7. \A s \in Sessions : \A i \in DOMAIN files[s] : files[s][i].turn[2] \in U
  BY <1>3 DEF Range
<1>8. U \subseteq 0 .. MaxTurns
  <2>1. SUFFICES ASSUME NEW s \in Sessions, NEW r \in Range(files[s]) PROVE r.turn[2] \in 0 .. MaxTurns
    BY <1>3
  <2>2. r \in Record
    BY <1>2 DEF Range
  <2>3. r.turn \in AllTurns \cup {NoTurn}
    BY <2>2 DEF Record
  <2>4. CASE r.turn \in AllTurns
    BY <1>6, <2>4, TurnFacts DEF TurnsOf
  <2>5. CASE r.turn = NoTurn
    BY <1>6, <2>5, NoTurnFacts
  <2> QED  BY <2>3, <2>4, <2>5
<1>9. PICK S \in SUBSET (0 .. MaxTurns) : S = {0} \cup U /\ S # {}
  <2>1. 0 \in 0 .. MaxTurns
    BY <1>6
  <2>2. PICK S : S = {0} \cup U
    OBVIOUS
  <2>3. S \subseteq 0 .. MaxTurns /\ S # {}
    BY <1>8, <2>1, <2>2
  <2> QED  BY <2>2, <2>3
<1>10. turns \in S /\ \A x \in S : x <= turns
  BY <1>4, <1>6, <1>9, LatestOf
<1> QED  BY <1>1, <1>2, <1>5, <1>7, <1>9, <1>10

LEMMA InitFiles ==
    ASSUME Init
    PROVE  /\ FilesInv
           /\ \A s \in Sessions : /\ Whole(s) = files[s] /\ WellFormed(files[s])
                                  /\ files[s] # << >> => started[s] = 0
<1>1. /\ files \in [Sessions -> Seq(Record)] /\ Recorded(files)
      /\ \A s \in Sessions : files[s] \in File /\ \A i \in DOMAIN files[s] : files[s][i].turn[2] <= turns
  BY InitTypes
<1>2. \A s \in Sessions : Whole(s) = files[s]
  <2>1. copying = [s \in Sessions |-> << >>]
    BY DEF Init
  <2>2. SUFFICES ASSUME NEW s \in Sessions PROVE files[s] \o << >> = files[s]
    BY <2>1 DEF Whole
  <2>3. files[s] \in Seq(Record)
    BY <1>1
  <2> QED  BY <2>3
<1>3. started = [s \in Sessions |-> IF files[s] = <<>> THEN Never ELSE 0]
  BY DEF Init
<1>4. \A s \in Sessions : Exists(s) <=> files[s] # << >>
  BY <1>3 DEF Exists, Never
<1>5. PICK W, A : W = Wholes /\ A = Alive
  OBVIOUS
<1>6. (\A s \in Sessions : W[s] = files[s]) /\ \A s \in Sessions : s \in A <=> files[s] # << >>
  BY <1>2, <1>4, <1>5 DEF Wholes, Alive
<1>7. ASSUME NEW s \in Sessions PROVE FileInv(s, W, files, turns, A)
  <2>1. PICK f : f = files[s] /\ W[s] = f
    BY <1>6
  <2>2. /\ WellFormed(f)
        /\ \A i \in DOMAIN f : TurnAt(f, i) # NoTurn => Agree(f, files[TurnAt(f, i)[1]], i)
        /\ LastStart(f, Len(f) + 1)[1] \in {s, NoSession}
        /\ ParentOf[s] = NoSession => \A i \in DOMAIN f : TurnAt(f, i)[1] \in {s, NoSession}
    BY <1>1, <2>1 DEF Recorded
  <2>3. ParentOf[s] # NoSession =>
          /\ s \in A => ParentOf[s] \in A
          /\ \A i \in DOMAIN f, t \in AllTurns \ TurnsOf(s) :
                EndsAt(f, t, i) => Agree(f, files[ParentOf[s]], i)
          /\ \A i \in DOMAIN W[ParentOf[s]] : W[ParentOf[s]][i].turn[1] # s
    BY <1>1, <1>6, <2>1, ParentFacts DEF Recorded
  <2> QED  BY <1>1, <1>6, <2>1, <2>2, <2>3 DEF FileInv
<1>8. FilesInv
  BY <1>5, <1>7 DEF FilesInv
<1>9. \A s \in Sessions : WellFormed(files[s]) /\ (files[s] # << >> => started[s] = 0)
  BY <1>1, <1>3 DEF Recorded
<1> QED  BY <1>2, <1>8, <1>9

-----------------------------------------------------------------------------
(* What an older agent read *)
LEMMA OldAgentFacts ==
    ASSUME Init, NEW s \in Sessions, NEW n \in OldOffsets(s), OldAgent(s, n)
    PROVE  \E c \in Cursor :
        /\ c.path[1] = s /\ c.offset = n /\ n \in 1 .. Len(files[s])
        /\ CursorInv(c, store, queued)
        /\ queued \subseteq UsageEvent
        /\ store \in Store /\ store.cutoverAt = Never /\ store.seeded = {}
        /\ \A k \in Keys : store.cursors[k] = IF k = OldKey(s) THEN c ELSE NoCursor
        /\ \A e, g \in queued : e.turn = g.turn => e = g
        /\ \A e \in queued : /\ e.session = OldKey(s)
                             /\ \E end \in 1 .. n : /\ EndsAt(files[s], e.turn, end)
                                                    /\ e.tokens = Used(files[s], e.turn, end)
                                                    /\ ~ResetIn(files[s], e.turn, end)
<1>1. PICK f : f = files[s] /\ f \in File /\ WellFormed(f) /\ Whole(s) = f
  BY InitTypes, InitFiles
<1>2. n \in 1 .. Len(f) /\ n \in Nat /\ Len(f) \in Nat
  BY <1>1 DEF OldOffsets, File
<1>3. PICK key, x : key = OldKey(s) /\ x = Session(key, {}) /\ x.id = key /\ x.inherited = {}
  <2>1. PICK key, x : key = OldKey(s) /\ x = Session(key, {})
    OBVIOUS
  <2> QED  BY <2>1 DEF Session
<1>4. PICK p \in Sessions \X {0, 1} : p = <<s, 0>> /\ p[1] = s
  <2>1. <<s, 0>> \in Sessions \X {0, 1} /\ <<s, 0>>[1] = s
    OBVIOUS
  <2> QED  BY <2>1
<1>5. PICK c0 : c0 = NewCursor(p)
  OBVIOUS
<1>6. c0 \in Cursor /\ c0.path = p /\ c0.offset = 0 /\ Known(c0, f) /\ Exact(c0, f)
      /\ c0.active.turn = NoTurn /\ ~c0.active.inherited
  BY <1>1, <1>4, <1>5, NewCursorFacts
<1>7. PICK st : st = ScanTo(x, c0, f, n)
  OBVIOUS
<1>8. ScanInv(x, c0, f, n, st)
  <2>1. n \in c0.offset .. Len(f)
    BY <1>2, <1>6
  <2> QED  BY <1>1, <1>6, <1>7, <2>1, ScanFacts
<1>9. /\ store = [NoStore EXCEPT !.initAt = 0, !.cursors[key] = st.cursor]
      /\ queued = st.events
  BY <1>1, <1>3, <1>4, <1>5, <1>7 DEF OldAgent, ScanTo
<1>10. PICK c : c = st.cursor
  OBVIOUS
<1>11. /\ c \in Cursor /\ c.offset = n /\ c.path = p /\ Known(c, f) /\ Exact(c, f)
       /\ c.active.turn # NoTurn => Inherits(x, c0, c.active.turn, c.active.inherited)
  BY <1>6, <1>8, <1>10 DEF ScanInv, ScanCursor, ScanState
<1>12. c.active.inherited => c.active.turn[1] # s
  <2>1. CASE c.active.turn = NoTurn
    BY <2>1, NoTurnFacts, CodexAssumption
  <2>2. CASE c.active.turn # NoTurn
    BY <1>3, <1>6, <1>11, <2>2 DEF Inherits
  <2> QED  BY <2>1, <2>2
<1>13. Exists(s)
  <2>1. f # << >>
    BY <1>2
  <2>2. started[s] = 0
    BY <1>1, <2>1, InitFiles
  <2> QED  BY <2>2 DEF Exists, Never
<1>14. OwnBehind(c, s, f)
  <2>1. SUFFICES ASSUME NEW i \in n + 1 .. Len(f), NEW t \in AllTurns, EndsAt(f, t, i) PROVE t[1] = s
    BY <1>11 DEF OwnBehind
  <2>2. TurnAt(f, i)[1] \in {s, NoSession}
    BY <1>1 DEF OldOffsets
  <2>3. TurnAt(f, i) = t
    BY <2>1 DEF EndsAt, TurnAt
  <2> QED  BY <2>2, <2>3, TurnFacts
<1>15. Reported(c, s, f, queued)
  <2>1. SUFFICES ASSUME NEW t \in TurnsOf(s), NEW end \in 1 .. n,
                        EndsAt(f, t, end), ~ResetIn(f, t, end), Used(f, t, end) > 0
                 PROVE  \E e \in st.events : e.turn = t
    BY <1>9, <1>11 DEF Reported
  <2>2. t \in AllTurns /\ end \in c0.offset + 1 .. n /\ t \notin x.inherited
    BY <1>2, <1>3, <1>6 DEF AllTurns
  <2>3. ScanReports(x, c0, f, n, st.events)
    BY <1>8 DEF ScanInv
  <2> QED  BY <1>6, <2>1, <2>2, <2>3 DEF ScanReports
<1>16. CursorInv(c, store, queued)
  <2>1. c.path[1] = s
    BY <1>4, <1>11
  <2> QED  BY <1>1, <1>11, <1>12, <1>13, <1>14, <1>15, <2>1 DEF CursorInv
<1>17. key \in Keys
  BY <1>3 DEF Keys
<1>18. st.events \in SUBSET Event(x)
  BY <1>8 DEF ScanInv, ScanState
<1>19. queued \subseteq UsageEvent /\ \A e \in queued : e.session = key
  BY <1>3, <1>9, <1>17, <1>18 DEF Event, UsageEvent
<1>20. /\ store \in Store /\ store.cutoverAt = Never /\ store.seeded = {}
       /\ \A k \in Keys : store.cursors[k] = IF k = key THEN c ELSE NoCursor
  <2>1. World.rounds \in Nat
    BY InitTypes, WorldFacts
  <2>2. 0 \in Never .. World.rounds /\ Never \in Never .. World.rounds
    BY <2>1 DEF Never
  <2>3. store = [initAt |-> 0, cutoverAt |-> Never, seeded |-> {},
                 cursors |-> [[k \in Keys |-> NoCursor] EXCEPT ![key] = c]]
    BY <1>9, <1>10 DEF NoStore
  <2> QED  BY <1>11, <1>17, <2>2, <2>3 DEF Store
<1>21. \A e, g \in queued : e.turn = g.turn => e = g
  BY <1>8, <1>9 DEF ScanInv, ScanEvents
<1>22. \A e \in queued : \E end \in 1 .. n : /\ EndsAt(f, e.turn, end)
                                             /\ e.tokens = Used(f, e.turn, end)
                                             /\ ~ResetIn(f, e.turn, end)
  BY <1>6, <1>8, <1>9 DEF ScanInv, ScanEvents, ScanEvent
<1>23. c.path[1] = s
  BY <1>4, <1>11
<1> QED  BY <1>1, <1>2, <1>3, <1>11, <1>16, <1>19, <1>20, <1>21, <1>22, <1>23

LEMMA OldAgentEvents ==
    ASSUME Init, NEW s \in Sessions, NEW n \in OldOffsets(s), OldAgent(s, n)
    PROVE  EventsInv /\ LegacyInv(store)
<1>1. PICK c \in Cursor :
        /\ c.path[1] = s /\ c.offset = n /\ n \in 1 .. Len(files[s])
        /\ CursorInv(c, store, queued)
        /\ queued \subseteq UsageEvent
        /\ \A k \in Keys : store.cursors[k] = IF k = OldKey(s) THEN c ELSE NoCursor
        /\ \A e, g \in queued : e.turn = g.turn => e = g
        /\ \A e \in queued : /\ e.session = OldKey(s)
                             /\ \E end \in 1 .. n : /\ EndsAt(files[s], e.turn, end)
                                                    /\ e.tokens = Used(files[s], e.turn, end)
                                                    /\ ~ResetIn(files[s], e.turn, end)
  BY OldAgentFacts
<1>2. PICK f : f = files[s] /\ f \in File /\ WellFormed(f) /\ DOMAIN f = 1 .. Len(f) /\ Len(f) \in Nat
  BY InitTypes, InitFiles DEF File
<1>3. c # NoCursor /\ Known(c, f)
  BY <1>1, <1>2, NoCursorAssumption DEF CursorInv
<1>4. SharedKeys(files)
  BY InitTypes DEF OldOffsets
<1>5. phase = "idle" /\ events = {}
  BY DEF Init
<1>6. ASSUME NEW e \in queued
      PROVE  UseOf(e, store) /\ e.session \in {e.turn[1], OldKey(e.turn[1])} /\ OnceInv(store, e)
  <2>1. PICK t \in AllTurns, y \in Sessions : t = e.turn /\ y = t[1] /\ t # NoTurn
    BY <1>1, <1>6, TurnFacts DEF UsageEvent
  <2>2. PICK end \in 1 .. n : /\ EndsAt(f, t, end)
                              /\ e.tokens = Used(f, t, end)
                              /\ ~ResetIn(f, t, end)
    BY <1>1, <1>2, <1>6, <2>1
  <2>3. end \in 1 .. Len(f) /\ end \in DOMAIN f /\ end \in Nat /\ end \in 1 .. end /\ end >= 1
    BY <1>1, <1>2, <2>2
  <2>4. TurnAt(f, end) = t
    BY <2>2 DEF EndsAt, TurnAt
  <2>5. PICK g : g = files[y] /\ g \in File
    BY InitTypes
  <2>6. Agree(f, g, end)
    <3>1. Recorded(files)
      BY InitTypes
    <3> QED  BY <1>2, <2>1, <2>3, <2>4, <2>5, <3>1 DEF Recorded
  <2>7. EndsAt(g, t, end) /\ Used(f, t, end) = Used(g, t, end) /\ (ResetIn(f, t, end) <=> ResetIn(g, t, end))
    BY <1>2, <2>1, <2>2, <2>3, <2>5, <2>6, EndAgree
  <2>8. end \in 1 .. Len(g) /\ g # << >>
    BY <2>3, <2>5, <2>6 DEF Agree, File
  <2>9. UseOf(e, store)
    <3>1. e.tokens \in Int
      BY <1>1, <1>6, CodexAssumption DEF UsageEvent
    <3>2. e.tokens <= Used(g, t, end)
      BY <2>2, <2>7, <3>1
    <3> QED  BY <2>1, <2>2, <2>5, <2>7, <2>8, <3>2 DEF UseOf
  <2>10. OldKey(y) = OldKey(s) /\ e.session = OldKey(s)
    <3>1. OldKey(TurnAt(f, end)[1]) = OldKey(s)
      BY <1>2, <1>4, <2>1, <2>3, <2>4 DEF SharedKeys
    <3>2. e.session = OldKey(s)
      BY <1>1, <1>6
    <3> QED  BY <2>1, <2>4, <3>1, <3>2
  <2>11. ASSUME NEW k \in Keys, Reads(store, y, store.cursors[k])
         PROVE  Past(store.cursors[k], files[y], t)
    <3>1. store.cursors[k] = c /\ y = s
      BY <1>1, <2>11 DEF Reads
    <3> QED  BY <1>1, <1>2, <1>3, <2>2, <3>1, PastIf
  <2>12. store.cursors[y] = NoCursor => Blocked(y)
    <3>1. SUFFICES ASSUME store.cursors[y] = NoCursor PROVE Blocked(y)
      OBVIOUS
    <3>2. y # OldKey(y) /\ y \in Keys
      BY <1>1, <1>3, <2>10, <3>1 DEF Keys
    <3>3. started[y] = 0
      BY <2>5, <2>8, InitFiles
    <3> QED  BY <3>2, <3>3 DEF Blocked, OldKey
  <2>13. OnceInv(store, e)
    BY <2>1, <2>11, <2>12 DEF OnceInv
  <2> QED  BY <2>1, <2>9, <2>10, <2>13
<1>7. EventsInv
  BY <1>1, <1>5, <1>6 DEF EventsInv
<1>8. LegacyInv(store)
  <2>1. SUFFICES ASSUME NEW y \in Sessions, LegacyOf[y] # NoSession,
                        store.cursors[LegacyOf[y]] # NoCursor, store.cursors[LegacyOf[y]].path[1] = y
                 PROVE  started[y] = 0
    BY DEF LegacyInv
  <2>2. y = s
    BY <1>1, <2>1, LegacyKey
  <2>3. f # << >>
    BY <1>1, <1>2
  <2> QED  BY <1>2, <2>2, <2>3, InitFiles
<1> QED  BY <1>7, <1>8

LEMMA InitInv ==
    ASSUME Init
    PROVE  IInv
<1>1. FilesInv
  BY InitFiles
<1>2. world \in DOMAIN Worlds /\ World.records \in Nat /\ World.rounds \in Nat /\ World.moves \in Nat
  BY InitTypes, WorldFacts
<1>3. /\ phase = "idle" /\ todo = {} /\ found = {} /\ next = NoStore /\ events = {}
      /\ round = 0 /\ written = 0 /\ moves = 0
      /\ copying = [s \in Sessions |-> <<>>] /\ path = [s \in Sessions |-> 0]
      /\ started = [s \in Sessions |-> IF files[s] = <<>> THEN Never ELSE 0]
  BY DEF Init
<1>4. /\ store \in Store /\ queued \subseteq UsageEvent /\ store.cutoverAt # 0
      /\ CursorsInv(store, queued) /\ LegacyInv(store) /\ EventsInv
  <2>1. CASE store = NoStore /\ queued = {}
    BY <1>2, <1>3, <2>1, NoStoreFacts DEF EventsInv, Never
  <2>2. ASSUME NEW s \in Sessions, NEW n \in OldOffsets(s), OldAgent(s, n)
        PROVE  /\ store \in Store /\ queued \subseteq UsageEvent /\ store.cutoverAt # 0
               /\ CursorsInv(store, queued) /\ LegacyInv(store) /\ EventsInv
    <3>1. PICK c \in Cursor :
            /\ CursorInv(c, store, queued)
            /\ queued \subseteq UsageEvent
            /\ store \in Store /\ store.cutoverAt = Never
            /\ \A k \in Keys : store.cursors[k] = IF k = OldKey(s) THEN c ELSE NoCursor
      BY <2>2, OldAgentFacts
    <3>2. CursorsInv(store, queued)
      BY <3>1 DEF CursorsInv
    <3> QED  BY <2>2, <3>1, <3>2, OldAgentEvents DEF Never
  <2> QED  BY <2>1, <2>2 DEF Init
<1>5. TypeOK
  <2>1. started \in [Sessions -> Never .. World.rounds]
    <3>1. Never \in Never .. World.rounds /\ 0 \in Never .. World.rounds
      BY <1>2 DEF Never
    <3> QED  BY <1>3, <3>1
  <2>2. << >> \in Seq(Record)
    OBVIOUS
  <2>3. copying \in [Sessions -> Seq(Record)]
    BY <1>3, <2>2
  <2>4. next \in Store
    BY <1>2, <1>3, NoStoreFacts
  <2> QED  BY <1>2, <1>3, <1>4, <2>1, <2>3, <2>4, InitTypes DEF TypeOK
<1>6. CursorsInv(next, queued \cup events) /\ LegacyInv(next) /\ NextInv
  BY <1>3, NoStoreFacts DEF NextInv
<1> QED  BY <1>1, <1>3, <1>4, <1>5, <1>6 DEF IInv

LEMMA StutterInv ==
    ASSUME IInv, UNCHANGED vars
    PROVE  IInv'
<1>1. UNCHANGED <<codexVars, store, round, cycleVars, queued, split>>
  BY DEF vars
<1>2. UNCHANGED <<files, copying, started>> /\ UNCHANGED <<phase, todo, found, next, events>>
  BY <1>1 DEF codexVars, cycleVars
<1>3. TypeOK
  BY DEF IInv
<1>4. TypeOK' /\ FilesInv'
  <2>1. CycleOn
    BY <1>1, <1>2, <1>3 DEF CycleOn, TypeOK
  <2> QED  BY <2>1, CycleTypes
<1>5. GoesOn
  <2>1. \A q \in Sessions : Longer(files[q], files'[q])
    BY <1>2, <1>3, WholeFacts DEF Longer, Agree, File
  <2>2. \A q \in Sessions : Whole(q)' = Whole(q)
    BY <1>2 DEF Whole
  <2> QED  BY <1>1, <1>2, <2>1, <2>2 DEF GoesOn
<1> QED  BY <1>4, <1>5, GoesOnInv

(* IInv is inductive: what Codex writes goes on from what was read, what is   *)
(* collected is read once more or not at all, and the cycle only moves it.    *)
THEOREM Inductive == Spec => []IInv
<1>1. Init => IInv
  BY InitInv
<1>2. IInv /\ [Next]_vars => IInv'
  <2>1. SUFFICES ASSUME IInv, [Next]_vars PROVE IInv'
    OBVIOUS
  <2>2. ASSUME NEW s \in Sessions,
               \/ BeginTurn(s) \/ RepeatTurn(s)
               \/ \E n \in 1 .. MaxTotal : CountTokens(s, n)
               \/ \E t \in AllTurns \cup {NoTurn} : EndTurn(s, t)
               \/ Fork(s) \/ Copy(s) \/ Move(s)
        PROVE  IInv'
    BY <2>1, <2>2, CodexInv
  <2>3. ASSUME NEW s \in Sessions, Collect(s) PROVE IInv'
    BY <2>1, <2>3, CollectInv
  <2>4. ASSUME NEW S \in SUBSET {s \in Sessions : Exists(s)}, StartCollection(S) PROVE IInv'
    BY <2>1, <2>4, StartCollectionInv
  <2>5. CASE EndCollection
    BY <2>1, <2>5, EndCollectionInv
  <2>6. CASE AppendEvents
    BY <2>1, <2>6, AppendEventsInv
  <2>7. CASE CommitCursors
    BY <2>1, <2>7, CommitCursorsInv
  <2>8. CASE Abandon
    BY <2>1, <2>8, AbandonInv
  <2>9. CASE UNCHANGED vars
    BY <2>1, <2>9, StutterInv
  <2> QED  BY <2>1, <2>2, <2>3, <2>4, <2>5, <2>6, <2>7, <2>8, <2>9 DEF Next
<1> QED  BY <1>1, <1>2, PTL DEF Spec

(* Every variable has its type; what is reported is never zero or negative. *)
THEOREM TypesHold == Spec => []TypeOK
<1>1. IInv => TypeOK
  BY DEF IInv
<1> QED  BY <1>1, Inductive, PTL

(* stableEventID: whatever the order of collections, forks, archiving and    *)
(* crashes, all events for a turn are one event, of the session that ran it,  *)
(* unless the fork was read before its prefix was complete.                  *)
THEOREM TurnsReportedOnce == Spec => []EachTurnOnce
<1>1. IInv => EachTurnOnce
  BY DEF IInv, EventsInv, EachTurnOnce
<1> QED  BY <1>1, Inductive, PTL

(* completeCodexTurn: the tokens reported are those the turn used, never more *)
(* than that, and exactly that if its session's cursor was not seeded.       *)
THEOREM UseReportedExactly == Spec => []UseIsExact
<1>1. IInv => UseIsExact
  <2>1. SUFFICES ASSUME IInv, NEW e \in queued
        PROVE  \E end \in 1 .. Len(files[e.turn[1]]) :
                /\ EndsAt(files[e.turn[1]], e.turn, end)
                /\ e.tokens <= Used(files[e.turn[1]], e.turn, end)
                /\ {e.turn[1], e.session} \cap (store.seeded \cup next.seeded) = {} =>
                      /\ e.tokens = Used(files[e.turn[1]], e.turn, end)
                      /\ ~ResetIn(files[e.turn[1]], e.turn, end)
    BY DEF UseIsExact
  <2>2. UseOf(e, store)
    BY <2>1 DEF IInv, EventsInv
  <2> QED  BY <2>2 DEF UseOf
<1> QED  BY <1>1, Inductive, PTL

(* collectAndQueue saves the cursors after it queued the events: a turn that  *)
(* a saved cursor is past has been queued.                                  *)
THEOREM NoTurnSkipped == Spec => []NothingSkipped
<1>1. IInv => NothingSkipped
  <2>1. SUFFICES ASSUME IInv, NEW s \in Sessions \ store.seeded,
                        store.cursors[s] # NoCursor, store.cursors[s].path[1] = s,
                        NEW t \in TurnsOf(s), NEW end \in 1 .. store.cursors[s].offset,
                        EndsAt(files[s], t, end), ~ResetIn(files[s], t, end), Used(files[s], t, end) > 0
                 PROVE  \E e \in queued : e.turn = t
    BY DEF NothingSkipped
  <2>2. PICK c : c = store.cursors[s]
    OBVIOUS
  <2>3. CursorInv(c, store, queued)
    BY <2>1, <2>2, KeyTypes DEF IInv, CursorsInv
  <2> QED  BY <2>1, <2>2, <2>3 DEF CursorInv, Reported
<1> QED  BY <1>1, Inductive, PTL
=============================================================================
