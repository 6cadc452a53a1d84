------------------------ MODULE CodexTranscriptsProofs ------------------------
(***************************************************************************)
(* Safety of the transcripts of Codex sessions, for any sessions, rollouts,  *)
(* databases and worlds, and any limits of chunks, windows and cursors: the  *)
(* types, that each message goes out once, and that none is missed.         *)
(*                                                                         *)
(* A cursor counts the chunks of its session and remembers the versions that *)
(* went out last.  The invariant says that it accounts for every chunk in    *)
(* the queue but those in doubt, which are those that collections which did  *)
(* not save left there: no such chunk has a greater number, and of each of   *)
(* their messages the cursor knows a version and of what comes after it only *)
(* what was sent since, unless more was sent since than it has room for.    *)
(* The plan of a collection is a baseline that accounts for the queue with    *)
(* the chunks it is about to queue.                                        *)
(*                                                                         *)
(* That none is missed needs the cache of discovery besides: the times it     *)
(* holds of the files of a session are in the order of the files, a          *)
(* directory that is as it was seen has no file that is not cached, and what *)
(* a collection is due to find is cached or in a directory still to be read. *)
(*                                                                         *)
(* First what the folds of the model compute, by FoldTheory; then sequences,  *)
(* cursors and chunks; then the baseline; then discovery; then the steps;    *)
(* then the numbers cursors count, and what is found of the files.          *)
(***************************************************************************)
EXTENDS CodexTranscripts, DataProofs, Functions

-----------------------------------------------------------------------------
(* The folds of the model, each as one of FoldTheory. *)
RenewOf(p, kept, r) == Renew(kept, r)
AddBytesOf(p, n, r) == AddBytes(n, r)
FitOf(p, w, r) == Fit(w, r)
FillOf(p, chunks, r) == Fill(chunks, r)

R == INSTANCE FoldTheory WITH Op <- RenewOf
B == INSTANCE FoldTheory WITH Op <- AddBytesOf
W == INSTANCE FoldTheory WITH Op <- FitOf
L == INSTANCE FoldTheory WITH Op <- FillOf

NoWindow == [msgs |-> << >>, full |-> FALSE]

(* The messages of a rollout, each in its last version, are such a fold.   *)
LEMMA LatestFolded == \A s : Latest(s) = R!Folded(0, << >>, s)
<1> QED  BY DEF Latest, RenewOf, FoldLeft, MapThenFoldSet, Max, R!Folded, R!FoldLeft,
                R!MapThenFoldSet, R!Max

(* The bytes of messages are such a fold.                                  *)
LEMMA BytesFolded == \A s : BytesOf(s) = B!Folded(0, 0, s)
<1> QED  BY DEF BytesOf, AddBytesOf, FoldLeft, MapThenFoldSet, Max, B!Folded, B!FoldLeft,
                B!MapThenFoldSet, B!Max

(* The messages kept of a rollout are such a fold.                         *)
LEMMA KeptFolded == \A s : Kept(s) = W!Folded(0, NoWindow, s)
<1> QED  BY DEF Kept, NoWindow, FitOf, FoldLeft, MapThenFoldSet, Max, W!Folded, W!FoldLeft,
                W!MapThenFoldSet, W!Max

(* The parts that messages go out in are such a fold.                      *)
LEMMA SplitFolded == \A s : Split(s) = L!Folded(0, << >>, s)
<1> QED  BY DEF Split, FillOf, FoldLeft, MapThenFoldSet, Max, L!Folded, L!FoldLeft,
                L!MapThenFoldSet, L!Max

-----------------------------------------------------------------------------
(* No two messages have the same ID. *)
UniqueIDs(s) == \A i, j \in DOMAIN s : s[i].m = s[j].m => i = j

(* The last elements of a sequence are the last of its elements. *)
LEMMA LastOfFacts ==
    ASSUME NEW V, NEW s \in Seq(V), NEW n \in Nat
    PROVE  /\ LastOf(n, s) \in Seq(V)
           /\ Len(LastOf(n, s)) = (IF n < Len(s) THEN n ELSE Len(s))
           /\ Len(s) - Len(LastOf(n, s)) \in Nat
           /\ \A i \in 1 .. Len(LastOf(n, s)) :
                  LastOf(n, s)[i] = s[Len(s) - Len(LastOf(n, s)) + i]
<1>1. PICK l \in Nat : l = Len(s)
  OBVIOUS
<1>2. PICK k \in Nat : k = IF n < l THEN n ELSE l
  OBVIOUS
<1>3. PICK t : t = SubSeq(s, l - k + 1, l)
  OBVIOUS
<1>4. k <= l /\ LastOf(n, s) = t
  BY <1>1, <1>2, <1>3 DEF LastOf
<1>5. \A i \in l - k + 1 .. l : s[i] \in V
  BY <1>1, <1>4
<1>6. t \in Seq(V) /\ Len(t) = k
  BY <1>1, <1>3, <1>4, <1>5
<1>7. \A i \in 1 .. k : t[i] = s[l - k + i]
  BY <1>1, <1>3, <1>4
<1>8. Len(t) = (IF n < Len(s) THEN n ELSE Len(s)) /\ Len(s) - Len(t) \in Nat
  BY <1>1, <1>2, <1>4, <1>6
<1>9. \A i \in 1 .. Len(t) : t[i] = s[Len(s) - Len(t) + i]
  BY <1>1, <1>6, <1>7, Zenon
<1> QED  BY <1>4, <1>6, <1>8, <1>9

(* The last of messages with different IDs have different IDs.             *)
LEMMA LastOfIDs ==
    ASSUME NEW V, NEW s \in Seq(V), NEW n \in Nat, UniqueIDs(s)
    PROVE  UniqueIDs(LastOf(n, s))
<1>1. PICK t : t = LastOf(n, s)
  OBVIOUS
<1>2. PICK k \in Nat : k = Len(s) - Len(t)
  BY <1>1, LastOfFacts
<1>3. t \in Seq(V) /\ \A i \in 1 .. Len(t) : t[i] = s[k + i]
  BY <1>1, <1>2, LastOfFacts
<1>4. ASSUME NEW i \in DOMAIN t, NEW j \in DOMAIN t, t[i].m = t[j].m
      PROVE  i = j
  <2>1. i \in 1 .. Len(t) /\ j \in 1 .. Len(t) /\ Len(t) = Len(s) - k
    BY <1>2, <1>3
  <2>2. k + i \in DOMAIN s /\ k + j \in DOMAIN s
    BY <2>1
  <2>3. k + i = k + j
    BY <1>3, <1>4, <2>1, <2>2 DEF UniqueIDs
  <2> QED  BY <2>1, <2>3
<1> QED  BY <1>1, <1>4 DEF UniqueIDs

(* What is last in a sequence without doubles has none. *)
LEMMA LastOfInjective ==
    ASSUME NEW V, NEW s \in Seq(V), NEW n \in Nat, IsInjective(s)
    PROVE  IsInjective(LastOf(n, s))
<1>1. PICK t : t = LastOf(n, s)
  OBVIOUS
<1>2. PICK k \in Nat : k = Len(s) - Len(t)
  BY <1>1, LastOfFacts
<1>3. t \in Seq(V) /\ \A i \in 1 .. Len(t) : t[i] = s[k + i]
  BY <1>1, <1>2, LastOfFacts
<1>4. ASSUME NEW i \in DOMAIN t, NEW j \in DOMAIN t, t[i] = t[j]
      PROVE  i = j
  <2>1. i \in 1 .. Len(t) /\ j \in 1 .. Len(t) /\ Len(t) = Len(s) - k
    BY <1>2, <1>3
  <2>2. k + i \in DOMAIN s /\ k + j \in DOMAIN s
    BY <2>1
  <2>3. k + i = k + j
    BY <1>3, <1>4, <2>1, <2>2 DEF IsInjective
  <2> QED  BY <2>1, <2>3
<1> QED  BY <1>1, <1>4 DEF IsInjective

(* A message read again takes the place of the first: IDs stay unique. *)
LEMMA LatestIDs ==
    ASSUME NEW s \in Seq(Message)
    PROVE  Latest(s) \in Seq(Message) /\ UniqueIDs(Latest(s))
<1> DEFINE T == {k \in Seq(Message) : UniqueIDs(k)}
<1>1. << >> \in T
  BY DEF UniqueIDs
<1>2. ASSUME NEW k \in T, NEW r \in Message
      PROVE  RenewOf(0, k, r) \in T
  <2>1. k \in Seq(Message) /\ UniqueIDs(k)
    OBVIOUS
  <2>2. CASE \A i \in DOMAIN k : k[i].m # r.m
    <3>1. PICK a : a = Append(k, r)
      OBVIOUS
    <3>2. /\ a \in Seq(Message) /\ DOMAIN a = 1 .. Len(k) + 1 /\ a[Len(k) + 1] = r
          /\ \A i \in DOMAIN k : a[i] = k[i]
      BY <2>1, <3>1
    <3>3. \A i \in DOMAIN a : i = Len(k) + 1 \/ i \in DOMAIN k
      BY <2>1, <3>2
    <3>4. UniqueIDs(a)
      BY <2>1, <2>2, <3>2, <3>3 DEF UniqueIDs
    <3> QED  BY <2>2, <3>1, <3>2, <3>4 DEF RenewOf, Renew
  <2>3. CASE ~ \A i \in DOMAIN k : k[i].m # r.m
    <3>1. PICK a : a = [i \in DOMAIN k |-> IF k[i].m = r.m THEN r ELSE k[i]]
      OBVIOUS
    <3>2. /\ DOMAIN a = DOMAIN k
          /\ \A i \in DOMAIN k : a[i] = (IF k[i].m = r.m THEN r ELSE k[i])
      BY <3>1
    <3>3. a \in Seq(Message)
      BY <2>1, <3>1
    <3>4. \A i \in DOMAIN k : a[i].m = k[i].m
      BY <3>2
    <3>5. UniqueIDs(a)
      BY <2>1, <3>2, <3>4 DEF UniqueIDs
    <3> QED  BY <2>3, <3>1, <3>3, <3>5 DEF RenewOf, Renew
  <2> QED  BY <2>2, <2>3
<1>3. R!Folded(0, << >>, s) \in T
  <2> HIDE DEF T
  <2> QED  BY <1>1, <1>2, R!FoldIn
<1> QED  BY <1>3, LatestFolded

(* Kept takes messages one by one.                                         *)
LEMMA KeptStep ==
    ASSUME NEW V, NEW t \in Seq(V), NEW x \in V
    PROVE  Kept(Append(t, x)) = Fit(Kept(t), x)
<1>1. W!Folded(0, NoWindow, Append(t, x)) = FitOf(0, W!Folded(0, NoWindow, t), x)
  BY W!FoldAppend
<1> QED  BY <1>1, KeptFolded DEF FitOf

(* What is kept of messages of unique IDs. *)
KeptOK(t) ==
    /\ Kept(t) \in [msgs : Seq(Message), full : BOOLEAN]
    /\ UniqueIDs(Kept(t).msgs)
    /\ \A i \in DOMAIN Kept(t).msgs : \E j \in DOMAIN t : Kept(t).msgs[i] = t[j]

(* Messages kept have different IDs, if those they are kept of have.       *)
LEMMA KeptIDs ==
    ASSUME NEW s \in Seq(Message), UniqueIDs(s)
    PROVE  KeptOK(s)
<1> DEFINE C == {t \in Seq(Message) : UniqueIDs(t) => KeptOK(t)}
<1>1. << >> \in C
  <2>1. PICK e : e = << >>
    OBVIOUS
  <2>2. Kept(e) = NoWindow
    BY <2>1, KeptFolded, W!FoldEmpty
  <2>3. e \in Seq(Message) /\ DOMAIN e = {}
    BY <2>1
  <2>4. Kept(e) \in [msgs : Seq(Message), full : BOOLEAN] /\ Kept(e).msgs = e
    <3>1. PICK w : w = [msgs |-> e, full |-> FALSE]
      OBVIOUS
    <3>2. w \in [msgs : Seq(Message), full : BOOLEAN] /\ w.msgs = e
      BY <2>3, <3>1
    <3>3. Kept(e) = w
      BY <2>1, <2>2, <3>1, Zenon DEF NoWindow
    <3> QED  BY <3>2, <3>3
  <2>5. KeptOK(e)
    BY <2>3, <2>4 DEF KeptOK, UniqueIDs
  <2> QED  BY <2>1, <2>3, <2>5
<1>2. ASSUME NEW t \in Seq(Message), NEW x \in Message, t \in C
      PROVE  Append(t, x) \in C
  <2>1. SUFFICES ASSUME UniqueIDs(Append(t, x)) PROVE KeptOK(Append(t, x))
    BY <1>2
  <2>2. PICK u : u = Append(t, x)
    OBVIOUS
  <2>3. /\ u \in Seq(Message) /\ DOMAIN u = 1 .. Len(t) + 1 /\ u[Len(t) + 1] = x
        /\ \A i \in DOMAIN t : i \in DOMAIN u /\ i # Len(t) + 1 /\ u[i] = t[i]
    BY <2>2
  <2>4. UniqueIDs(t) /\ \A i \in DOMAIN t : t[i].m # x.m
    <3>1. UniqueIDs(u) /\ Len(t) + 1 \in DOMAIN u
      BY <2>1, <2>2, <2>3
    <3> QED  BY <2>3, <3>1 DEF UniqueIDs
  <2>5. PICK w : w = Kept(t)
    OBVIOUS
  <2>6. /\ w \in [msgs : Seq(Message), full : BOOLEAN] /\ UniqueIDs(w.msgs)
        /\ \A i \in DOMAIN w.msgs : \E j \in DOMAIN t : w.msgs[i] = t[j]
    BY <1>2, <2>4, <2>5 DEF KeptOK
  <2>7. Kept(u) = Fit(w, x)
    BY <2>2, <2>5, KeptStep
  <2>8. CASE w.full \/ BytesOf(w.msgs) + x.len > MaxBytes
    <3>1. Kept(u) = [w EXCEPT !.full = TRUE]
      BY <2>7, <2>8 DEF Fit
    <3>2. /\ Kept(u) \in [msgs : Seq(Message), full : BOOLEAN]
          /\ Kept(u).msgs = w.msgs
      BY <2>6, <3>1
    <3>3. \A i \in DOMAIN w.msgs : \E j \in DOMAIN u : w.msgs[i] = u[j]
      BY <2>3, <2>6
    <3> QED  BY <2>2, <2>6, <3>2, <3>3 DEF KeptOK
  <2>9. CASE ~(w.full \/ BytesOf(w.msgs) + x.len > MaxBytes)
    <3>1. PICK a : a = Append(w.msgs, x)
      OBVIOUS
    <3>2. PICK b : b = LastOf(MaxMessages, a)
      OBVIOUS
    <3>3. Kept(u) = [w EXCEPT !.msgs = b]
      BY <2>7, <2>9, <3>1, <3>2 DEF Fit
    <3>4. /\ a \in Seq(Message) /\ DOMAIN a = 1 .. Len(w.msgs) + 1 /\ a[Len(w.msgs) + 1] = x
          /\ \A i \in DOMAIN w.msgs : a[i] = w.msgs[i]
      BY <2>6, <3>1
    <3>5. \A i \in DOMAIN a : i = Len(w.msgs) + 1 \/ i \in DOMAIN w.msgs
      BY <2>6, <3>4
    <3>6. \A i \in DOMAIN w.msgs : w.msgs[i].m # x.m
      BY <2>4, <2>6
    <3>7. UniqueIDs(a)
      BY <2>6, <3>4, <3>5, <3>6 DEF UniqueIDs
    <3>8. ASSUME NEW i \in DOMAIN a
          PROVE  \E j \in DOMAIN u : a[i] = u[j]
      <4>1. CASE i = Len(w.msgs) + 1
        <5>1. a[i] = u[Len(t) + 1] /\ Len(t) + 1 \in DOMAIN u
          BY <2>3, <3>4, <4>1
        <5> QED  BY <5>1
      <4>2. CASE i \in DOMAIN w.msgs
        <5>1. PICK j \in DOMAIN t : w.msgs[i] = t[j]
          BY <2>6, <4>2
        <5>2. j \in DOMAIN u /\ a[i] = u[j]
          BY <2>3, <3>4, <4>2, <5>1
        <5> QED  BY <5>2
      <4> QED  BY <3>5, <4>1, <4>2
    <3>9. MaxMessages \in Nat
      BY TranscriptAssumption
    <3>10. b \in Seq(Message) /\ UniqueIDs(b)
      BY <3>2, <3>4, <3>7, <3>9, LastOfFacts, LastOfIDs
    <3>11. \A i \in DOMAIN b : \E j \in DOMAIN a : b[i] = a[j]
      <4>1. PICK k \in Nat : k = Len(a) - Len(b)
        BY <3>2, <3>4, <3>9, LastOfFacts
      <4>2. \A i \in 1 .. Len(b) : b[i] = a[k + i]
        BY <3>2, <3>4, <3>9, <4>1, LastOfFacts
      <4>3. \A i \in 1 .. Len(b) : k + i \in 1 .. Len(a)
        BY <3>4, <3>10, <4>1
      <4>4. ASSUME NEW i \in DOMAIN b
            PROVE  \E j \in DOMAIN a : b[i] = a[j]
        <5>1. i \in 1 .. Len(b)
          BY <3>10
        <5>2. b[i] = a[k + i] /\ k + i \in DOMAIN a
          BY <3>4, <4>2, <4>3, <5>1
        <5> QED  BY <5>2
      <4> QED  BY <4>4
    <3>12. Kept(u) \in [msgs : Seq(Message), full : BOOLEAN] /\ Kept(u).msgs = b
      BY <2>6, <3>3, <3>10
    <3> QED  BY <2>2, <3>8, <3>10, <3>11, <3>12 DEF KeptOK
  <2> QED  BY <2>8, <2>9
<1>3. Seq(Message) \subseteq C
  <2> HIDE DEF C
  <2> QED  BY <1>1, <1>2, SeqInduction
<1> QED  BY <1>3

(* What is read of a rollout *)
LEMMA WindowIDs ==
    ASSUME NEW s \in Seq(Message)
    PROVE  Window(s) \in Seq(Message) /\ UniqueIDs(Window(s))
<1>1. TailRecords \in Nat
  BY TranscriptAssumption
<1>2. LastOf(TailRecords, s) \in Seq(Message)
  BY <1>1, LastOfFacts
<1>3. /\ Latest(LastOf(TailRecords, s)) \in Seq(Message)
      /\ UniqueIDs(Latest(LastOf(TailRecords, s)))
  BY <1>2, LatestIDs
<1>4. KeptOK(Latest(LastOf(TailRecords, s)))
  BY <1>3, KeptIDs
<1> QED  BY <1>4 DEF KeptOK, Window

(* Messages of different IDs are different. *)
LEMMA IDsInjective == \A s : UniqueIDs(s) => IsInjective(s)
<1> QED  BY DEF UniqueIDs, IsInjective

-----------------------------------------------------------------------------
(* A chunk is not empty, keeps within the limits and has messages of one day.*)
Parts ==
    {p \in Seq(Message) :
        /\ Len(p) \in 1 .. ChunkMessages
        /\ Len(p) = 1 \/ BytesOf(p) <= ChunkBytes
        /\ \A i \in DOMAIN p : Date(p[i]) = Date(p[1])}

(* BytesOf adds up messages one by one.                                    *)
LEMMA BytesStep ==
    ASSUME NEW V, NEW s \in Seq(V), NEW x \in V
    PROVE  BytesOf(Append(s, x)) = BytesOf(s) + x.len
<1>1. B!Folded(0, 0, Append(s, x)) = AddBytesOf(0, B!Folded(0, 0, s), x)
  BY B!FoldAppend
<1> QED  BY <1>1, BytesFolded DEF AddBytesOf, AddBytes

(* Split takes messages one by one.                                        *)
LEMMA SplitStep ==
    ASSUME NEW V, NEW s \in Seq(V), NEW x \in V
    PROVE  Split(Append(s, x)) = Fill(Split(s), x)
<1>1. L!Folded(0, << >>, Append(s, x)) = FillOf(0, L!Folded(0, << >>, s), x)
  BY L!FoldAppend
<1> QED  BY <1>1, SplitFolded DEF FillOf

(* A message goes on in the last chunk or begins one. *)
LEMMA FillParts ==
    ASSUME NEW ps \in Seq(Parts), NEW x \in Message
    PROVE  /\ Fill(ps, x) \in Seq(Parts)
           /\ Len(Fill(ps, x)) >= 1
           /\ Len(Fill(ps, x)) \in {Len(ps), Len(ps) + 1}
           /\ \A k \in DOMAIN Fill(ps, x) :
                 ToSet(Fill(ps, x)[k]) = (IF k \in DOMAIN ps THEN ToSet(ps[k]) ELSE {})
                                            \cup (IF k = Len(Fill(ps, x)) THEN {x} ELSE {})
<1>1. PICK qs : qs = Fill(ps, x)
  OBVIOUS
<1>2. PICK n \in Nat : n = Len(ps) /\ DOMAIN ps = 1 .. n
  OBVIOUS
<1>3. ChunkMessages \in Nat /\ 1 <= ChunkMessages
  BY TranscriptAssumption
<1>4. CASE ps # << >> /\ Fits(Last(ps), x)
  <2>1. PICK p : p = Last(ps)
    OBVIOUS
  <2>2. n \in DOMAIN ps /\ p = ps[n] /\ n >= 1
    BY <1>2, <1>4, <2>1 DEF Last
  <2>3. /\ p \in Seq(Message) /\ Len(p) \in 1 .. ChunkMessages
        /\ \A i \in DOMAIN p : Date(p[i]) = Date(p[1])
    <3>1. p \in Parts
      BY <2>2
    <3> QED  BY <3>1 DEF Parts
  <2>4. PICK q : q = Append(p, x)
    OBVIOUS
  <2>5. qs = [ps EXCEPT ![n] = q]
    <3>1. qs = [ps EXCEPT ![Len(ps)] = Append(@, x)]
      BY <1>1, <1>4 DEF Fill
    <3> QED  BY <1>2, <2>2, <2>4, <3>1
  <2>6. Len(p) < ChunkMessages /\ BytesOf(p) + x.len <= ChunkBytes /\ Date(x) = Date(Last(p))
    BY <1>4, <2>1 DEF Fits
  <2>7. /\ q \in Seq(Message) /\ DOMAIN q = 1 .. Len(p) + 1 /\ q[Len(p) + 1] = x
        /\ \A i \in DOMAIN p : q[i] = p[i]
    BY <2>3, <2>4
  <2>8. q \in Parts
    <3>1. Len(q) \in 1 .. ChunkMessages
      BY <1>3, <2>3, <2>4, <2>6
    <3>2. BytesOf(q) = BytesOf(p) + x.len
      BY <2>3, <2>4, BytesStep
    <3>3. BytesOf(q) <= ChunkBytes
      BY <2>6, <3>2
    <3>4. Len(p) \in DOMAIN p /\ 1 \in DOMAIN p /\ Last(p) = p[Len(p)]
      BY <2>3 DEF Last
    <3>5. Date(x) = Date(p[1])
      BY <2>3, <2>6, <3>4
    <3>6. ASSUME NEW i \in DOMAIN q
          PROVE  Date(q[i]) = Date(q[1])
      <4>1. i = Len(p) + 1 \/ i \in DOMAIN p
        BY <2>3, <2>7
      <4>2. q[1] = p[1]
        BY <2>7, <3>4
      <4> QED  BY <2>3, <2>7, <3>5, <4>1, <4>2
    <3> QED  BY <2>7, <3>1, <3>3, <3>6 DEF Parts
  <2>9. /\ qs \in Seq(Parts) /\ Len(qs) = n /\ DOMAIN qs = 1 .. n /\ qs[n] = q
        /\ \A k \in 1 .. n : k # n => qs[k] = ps[k]
    <3>1. DOMAIN qs = 1 .. n /\ \A k \in 1 .. n : qs[k] = IF k = n THEN q ELSE ps[k]
      BY <1>2, <2>5
    <3>2. qs = [k \in 1 .. n |-> IF k = n THEN q ELSE ps[k]]
      BY <1>2, <2>5
    <3>3. \A k \in 1 .. n : (IF k = n THEN q ELSE ps[k]) \in Parts
      BY <1>2, <2>8
    <3>4. qs \in Seq(Parts) /\ Len(qs) = n
      BY <1>2, <3>2, <3>3
    <3> QED  BY <2>2, <3>1, <3>4, <1>2
  <2>10. ToSet(q) = ToSet(ps[n]) \cup {x}
    BY <2>2, <2>3, <2>4, ToSetAppend
  <2>11. ASSUME NEW k \in DOMAIN qs
         PROVE  ToSet(qs[k]) = (IF k \in DOMAIN ps THEN ToSet(ps[k]) ELSE {})
                                  \cup (IF k = Len(qs) THEN {x} ELSE {})
    <3>1. k \in DOMAIN ps /\ Len(qs) = n
      BY <1>2, <2>9
    <3>2. CASE k = n
      BY <2>9, <2>10, <3>1, <3>2
    <3>3. CASE k # n
      <4>1. qs[k] = ps[k]
        BY <2>9, <3>3
      <4> QED  BY <3>1, <3>3, <4>1
    <3> QED  BY <3>2, <3>3
  <2> QED  BY <1>1, <1>2, <2>2, <2>9, <2>11
<1>5. CASE ~(ps # << >> /\ Fits(Last(ps), x))
  <2>1. PICK q : q = <<x>>
    OBVIOUS
  <2>2. qs = Append(ps, q)
    BY <1>1, <1>5, <2>1 DEF Fill
  <2>3. q \in Seq(Message) /\ Len(q) = 1 /\ DOMAIN q = {1} /\ q[1] = x
    BY <2>1
  <2>4. q \in Parts
    <3>1. Len(q) \in 1 .. ChunkMessages
      BY <1>3, <2>3
    <3>2. \A i \in DOMAIN q : Date(q[i]) = Date(q[1])
      BY <2>3
    <3> QED  BY <2>3, <3>1, <3>2 DEF Parts
  <2>5. /\ qs \in Seq(Parts) /\ Len(qs) = n + 1 /\ DOMAIN qs = 1 .. n + 1 /\ qs[n + 1] = q
        /\ \A k \in 1 .. n : qs[k] = ps[k]
    BY <1>2, <2>2, <2>4
  <2>6. ToSet(q) = {x}
    BY <2>3 DEF ToSet
  <2>7. ASSUME NEW k \in DOMAIN qs
        PROVE  ToSet(qs[k]) = (IF k \in DOMAIN ps THEN ToSet(ps[k]) ELSE {})
                                 \cup (IF k = Len(qs) THEN {x} ELSE {})
    <3>1. CASE k = n + 1
      <4>1. k \notin DOMAIN ps /\ qs[k] = q /\ k = Len(qs)
        BY <1>2, <2>5, <3>1
      <4> QED  BY <2>6, <4>1
    <3>2. CASE k # n + 1
      <4>1. k \in DOMAIN ps /\ qs[k] = ps[k] /\ k # Len(qs)
        BY <1>2, <2>5, <3>2
      <4> QED  BY <4>1
    <3> QED  BY <3>1, <3>2
  <2> QED  BY <1>1, <1>2, <2>5, <2>7
<1> QED  BY <1>4, <1>5

(* Messages are split into parts that are within the limits.               *)
LEMMA SplitParts ==
    ASSUME NEW u \in Seq(Message)
    PROVE  Split(u) \in Seq(Parts)
<1>1. PICK e : e = << >>
  OBVIOUS
<1>2. PICK T : T = Seq(Parts)
  OBVIOUS
<1>3. e \in T
  BY <1>1, <1>2
<1>4. \A ps \in T, x \in Message : FillOf(0, ps, x) \in T
  BY <1>2, FillParts DEF FillOf
<1>5. L!Folded(0, e, u) \in T
  BY <1>3, <1>4, L!FoldIn
<1> QED  BY <1>1, <1>2, <1>5, SplitFolded

(* g tells the chunk each message is in: the order of the messages is kept,  *)
(* each is in its chunk, and nothing else is in a chunk.                    *)
Spread(g, u, ps) ==
    /\ g \in [DOMAIN u -> DOMAIN ps]
    /\ \A i, j \in DOMAIN u : i <= j => g[i] <= g[j]
    /\ \A i \in DOMAIN u : u[i] \in ToSet(ps[g[i]])
    /\ \A k \in DOMAIN ps : \A r \in ToSet(ps[k]) : \E i \in DOMAIN u : g[i] = k /\ u[i] = r

(* A message added to the parts goes to one of them.                       *)
LEMMA SpreadStep ==
    ASSUME NEW u \in Seq(Message), NEW x \in Message, NEW ps \in Seq(Parts),
           NEW g, Spread(g, u, ps)
    PROVE  \E h : Spread(h, Append(u, x), Fill(ps, x))
<1>1. PICK v : v = Append(u, x)
  OBVIOUS
<1>2. PICK qs : qs = Fill(ps, x)
  OBVIOUS
<1>3. PICK m \in Nat : m = Len(u)
  OBVIOUS
<1>4. PICK n : n = Len(qs)
  OBVIOUS
<1>5. /\ qs \in Seq(Parts) /\ n >= 1 /\ n \in {Len(ps), Len(ps) + 1}
      /\ \A k \in DOMAIN qs :
             ToSet(qs[k]) = (IF k \in DOMAIN ps THEN ToSet(ps[k]) ELSE {})
                                \cup (IF k = n THEN {x} ELSE {})
  <2>1. PICK fs : fs = Fill(ps, x)
    OBVIOUS
  <2>2. /\ fs \in Seq(Parts) /\ Len(fs) >= 1 /\ Len(fs) \in {Len(ps), Len(ps) + 1}
        /\ \A k \in DOMAIN fs :
               ToSet(fs[k]) = (IF k \in DOMAIN ps THEN ToSet(ps[k]) ELSE {})
                                  \cup (IF k = Len(fs) THEN {x} ELSE {})
    BY <2>1, FillParts
  <2>3. fs = qs /\ Len(fs) = n
    BY <1>2, <1>4, <2>1
  <2> QED  BY <2>2, <2>3
<1>6. /\ n \in Nat /\ DOMAIN qs = 1 .. n /\ DOMAIN ps = 1 .. Len(ps) /\ n \in DOMAIN qs
      /\ \A k \in DOMAIN ps : k \in DOMAIN qs /\ k <= n
  BY <1>4, <1>5
<1>7. /\ DOMAIN v = 1 .. m + 1 /\ DOMAIN u = 1 .. m /\ v[m + 1] = x
      /\ \A i \in DOMAIN u : v[i] = u[i]
  BY <1>1, <1>3
<1>8. PICK h : h = [i \in DOMAIN v |-> IF i = m + 1 THEN n ELSE g[i]]
  OBVIOUS
<1>9. /\ DOMAIN h = DOMAIN v /\ h[m + 1] = n
      /\ \A i \in DOMAIN u : h[i] = g[i] /\ i \in DOMAIN v /\ i <= m
      /\ \A i \in DOMAIN v : i = m + 1 \/ i \in DOMAIN u
  BY <1>3, <1>7, <1>8
<1>10. \A i \in DOMAIN u : g[i] \in DOMAIN ps
  BY DEF Spread
<1>11. h \in [DOMAIN v -> DOMAIN qs]
  <2>1. \A i \in DOMAIN v : (IF i = m + 1 THEN n ELSE g[i]) \in DOMAIN qs
    BY <1>6, <1>9, <1>10
  <2> QED  BY <1>8, <2>1
<1>12. ASSUME NEW i \in DOMAIN v, NEW j \in DOMAIN v, i <= j
       PROVE  h[i] <= h[j]
  <2>1. CASE j = m + 1
    <3>1. h[i] \in 1 .. n /\ h[j] = n
      BY <1>6, <1>9, <1>11, <2>1
    <3> QED  BY <1>6, <3>1
  <2>2. CASE j # m + 1
    <3>1. j \in DOMAIN u /\ i \in DOMAIN u
      BY <1>3, <1>7, <1>12, <2>2
    <3> QED  BY <1>9, <1>12, <3>1 DEF Spread
  <2> QED  BY <2>1, <2>2
<1>13. ASSUME NEW i \in DOMAIN v
       PROVE  v[i] \in ToSet(qs[h[i]])
  <2>1. CASE i = m + 1
    <3>1. x \in ToSet(qs[n])
      BY <1>5, <1>6
    <3> QED  BY <1>7, <1>9, <2>1, <3>1
  <2>2. CASE i # m + 1
    <3>1. i \in DOMAIN u /\ v[i] = u[i] /\ h[i] = g[i] /\ g[i] \in DOMAIN ps
      BY <1>7, <1>9, <1>10, <2>2
    <3>2. u[i] \in ToSet(ps[g[i]])
      BY <3>1 DEF Spread
    <3>3. ToSet(ps[g[i]]) \subseteq ToSet(qs[g[i]])
      BY <1>5, <1>6, <3>1
    <3> QED  BY <3>1, <3>2, <3>3
  <2> QED  BY <2>1, <2>2
<1>14. ASSUME NEW k \in DOMAIN qs, NEW r \in ToSet(qs[k])
       PROVE  \E i \in DOMAIN v : h[i] = k /\ v[i] = r
  <2>1. CASE k \in DOMAIN ps /\ r \in ToSet(ps[k])
    <3>1. PICK i \in DOMAIN u : g[i] = k /\ u[i] = r
      BY <2>1 DEF Spread
    <3>2. i \in DOMAIN v /\ h[i] = k /\ v[i] = r
      BY <1>7, <1>9, <3>1
    <3> QED  BY <3>2
  <2>2. CASE ~(k \in DOMAIN ps /\ r \in ToSet(ps[k]))
    <3>1. k = n /\ r = x
      BY <1>5, <2>2
    <3>2. m + 1 \in DOMAIN v
      BY <1>3, <1>7
    <3> QED  BY <1>7, <1>9, <3>1, <3>2
  <2> QED  BY <2>1, <2>2
<1>15. Spread(h, v, qs)
  BY <1>11, <1>12, <1>13, <1>14 DEF Spread
<1> QED  BY <1>1, <1>2, <1>15

(* The parts of messages without doubles hold each message once.           *)
LEMMA SplitSpread ==
    ASSUME NEW u \in Seq(Message)
    PROVE  \E g : Spread(g, u, Split(u))
<1> DEFINE C == {t \in Seq(Message) : \E g : Spread(g, t, Split(t))}
<1>1. << >> \in C
  <2>1. PICK e : e = << >>
    OBVIOUS
  <2>2. Split(e) = e
    BY <2>1, SplitFolded, L!FoldEmpty
  <2>3. e \in Seq(Message) /\ DOMAIN e = {} /\ e \in [{} -> {}]
    BY <2>1
  <2>4. Spread(e, e, e)
    BY <2>3 DEF Spread
  <2> QED  BY <2>1, <2>2, <2>3, <2>4
<1>2. ASSUME NEW t \in Seq(Message), NEW x \in Message, t \in C
      PROVE  Append(t, x) \in C
  <2>1. PICK g : Spread(g, t, Split(t))
    BY <1>2
  <2>2. \E h : Spread(h, Append(t, x), Fill(Split(t), x))
    BY <2>1, SpreadStep, SplitParts
  <2>3. Append(t, x) \in Seq(Message) /\ Split(Append(t, x)) = Fill(Split(t), x)
    BY SplitStep
  <2> QED  BY <2>2, <2>3
<1>3. Seq(Message) \subseteq C
  <2> HIDE DEF C
  <2> QED  BY <1>1, <1>2, SeqInduction
<1> QED  BY <1>3

-----------------------------------------------------------------------------
(* Sequences without doubles *)
LEMMA InjectiveAppend ==
    ASSUME NEW V, NEW s \in Seq(V), NEW x \in V
    PROVE  IsInjective(Append(s, x)) <=> IsInjective(s) /\ x \notin ToSet(s)
<1>1. PICK a : a = Append(s, x)
  OBVIOUS
<1>2. PICK n \in Nat : n = Len(s)
  OBVIOUS
<1>3. /\ DOMAIN a = 1 .. n + 1 /\ DOMAIN s = 1 .. n /\ a[n + 1] = x
      /\ \A i \in DOMAIN s : a[i] = s[i] /\ i \in DOMAIN a /\ i # n + 1
      /\ \A i \in DOMAIN a : i = n + 1 \/ i \in DOMAIN s
      /\ n + 1 \in DOMAIN a
  BY <1>1, <1>2
<1>4. ASSUME IsInjective(a)
      PROVE  IsInjective(s) /\ x \notin ToSet(s)
  BY <1>3, <1>4 DEF IsInjective, ToSet
<1>5. ASSUME IsInjective(s), x \notin ToSet(s)
      PROVE  IsInjective(a)
  <2>1. \A i \in DOMAIN s : s[i] # x
    BY <1>5 DEF ToSet
  <2> QED  BY <1>3, <1>5, <2>1 DEF IsInjective
<1> QED  BY <1>1, <1>4, <1>5

(* Two sequences without doubles and with nothing in common have none.     *)
LEMMA InjectiveConcat ==
    ASSUME NEW V, NEW s \in Seq(V), NEW t \in Seq(V), IsInjective(s), IsInjective(t),
           ToSet(s) \cap ToSet(t) = {}
    PROVE  IsInjective(s \o t)
<1>1. PICK u : u = s \o t
  OBVIOUS
<1>2. PICK m \in Nat : m = Len(s)
  OBVIOUS
<1>3. PICK n \in Nat : n = Len(t)
  OBVIOUS
<1>4. /\ DOMAIN u = 1 .. m + n /\ DOMAIN s = 1 .. m /\ DOMAIN t = 1 .. n
      /\ \A i \in 1 .. m : u[i] = s[i]
      /\ \A i \in 1 .. m + n : i > m => u[i] = t[i - m] /\ i - m \in 1 .. n
  BY <1>1, <1>2, <1>3
<1>5. \A i \in 1 .. m, j \in 1 .. n : s[i] # t[j]
  BY <1>4 DEF ToSet
<1>6. ASSUME NEW i \in DOMAIN u, NEW j \in DOMAIN u, u[i] = u[j]
      PROVE  i = j
  <2>0. i \in 1 .. m + n /\ j \in 1 .. m + n
    BY <1>4
  <2>1. CASE i <= m /\ j <= m
    BY <1>4, <1>6, <2>0, <2>1 DEF IsInjective
  <2>2. CASE i > m /\ j > m
    <3>1. t[i - m] = t[j - m] /\ i - m \in DOMAIN t /\ j - m \in DOMAIN t
      BY <1>4, <1>6, <2>0, <2>2
    <3>2. i - m = j - m
      BY <3>1 DEF IsInjective
    <3> QED  BY <2>0, <3>2
  <2>3. CASE i <= m /\ j > m
    <3>1. u[i] = s[i] /\ u[j] = t[j - m] /\ i \in 1 .. m /\ j - m \in 1 .. n
      BY <1>4, <2>0, <2>3
    <3> QED  BY <1>5, <1>6, <3>1
  <2>4. CASE i > m /\ j <= m
    <3>1. u[j] = s[j] /\ u[i] = t[i - m] /\ j \in 1 .. m /\ i - m \in 1 .. n
      BY <1>4, <2>0, <2>4
    <3> QED  BY <1>5, <1>6, <3>1
  <2> QED  BY <2>0, <2>1, <2>2, <2>3, <2>4
<1> QED  BY <1>1, <1>6 DEF IsInjective

(* What is kept of a sequence without doubles has none.                    *)
LEMMA KeepInjective ==
    ASSUME NEW T, NEW V, NEW s \in Seq(V), IsInjective(s)
    PROVE  IsInjective(Keeping(s, T))
<1> DEFINE C == {t \in Seq(V) : IsInjective(t) => IsInjective(Keeping(t, T))}
<1>1. << >> \in C
  <2>1. PICK e : e = << >>
    OBVIOUS
  <2>2. Keeping(e, T) = e /\ e \in Seq(V)
    BY <2>1, KeepEmpty
  <2> QED  BY <2>1, <2>2
<1>2. ASSUME NEW t \in Seq(V), NEW x \in V, t \in C
      PROVE  Append(t, x) \in C
  <2>1. SUFFICES ASSUME IsInjective(Append(t, x)) PROVE IsInjective(Keeping(Append(t, x), T))
    BY <1>2
  <2>2. IsInjective(t) /\ x \notin ToSet(t)
    BY <2>1, InjectiveAppend
  <2>3. PICK k : k = Keeping(t, T)
    OBVIOUS
  <2>4. k \in Seq(V \cap T) /\ ToSet(k) = ToSet(t) \cap T /\ IsInjective(k)
    BY <1>2, <2>2, <2>3, KeepSet
  <2>5. CASE x \in T
    <3>1. Keeping(Append(t, x), T) = Append(k, x)
      BY <2>3, <2>5, KeepAppend
    <3>2. x \notin ToSet(k) /\ x \in V \cap T
      BY <2>2, <2>4, <2>5
    <3>3. IsInjective(Append(k, x))
      BY <2>4, <3>2, InjectiveAppend
    <3> QED  BY <3>1, <3>3
  <2>6. CASE x \notin T
    <3>1. Keeping(Append(t, x), T) = k
      BY <2>3, <2>6, KeepAppend
    <3> QED  BY <2>4, <3>1
  <2> QED  BY <2>5, <2>6
<1>3. Seq(V) \subseteq C
  <2> HIDE DEF C
  <2> QED  BY <1>1, <1>2, SeqInduction
<1> QED  BY <1>3

-----------------------------------------------------------------------------
(* Finite sets *)
LEMMA ToSetFinite ==
    ASSUME NEW V, NEW s \in Seq(V)
    PROVE  IsFiniteSet(ToSet(s))
<1>1. PICK n \in Nat : DOMAIN s = 1 .. n
  OBVIOUS
<1>2. PICK f : f = [i \in 1 .. n |-> s[i]]
  OBVIOUS
<1>3. f \in Surjection(1 .. n, ToSet(s))
  BY <1>1, <1>2 DEF Surjection, ToSet
<1>4. IsFiniteSet(1 .. n)
  BY FS_Interval
<1> QED  BY <1>3, <1>4, FS_Surjection

(* A finite union of finite sets is finite.                                *)
LEMMA FiniteUnion ==
    ASSUME NEW S, IsFiniteSet(S), NEW f, \A x \in S : IsFiniteSet(f[x])
    PROVE  IsFiniteSet(UNION {f[x] : x \in S})
<1> DEFINE C == {T \in SUBSET S : ~ IsFiniteSet(UNION {f[x] : x \in T})}
<1>1. SUFFICES ASSUME C # {} PROVE FALSE
  OBVIOUS
<1>2. \A T \in SUBSET S : IsFiniteSet(T)
  BY FS_Subset
<1>3. PICK T \in C : \A V \in C : ~(Cardinality(V) < Cardinality(T))
  <2>1. \A V \in C : IsFiniteSet(V)
    BY <1>2
  <2> HIDE DEF C
  <2> QED  BY <1>1, <2>1, Fewest
<1>4. T \in SUBSET S /\ IsFiniteSet(T) /\ ~ IsFiniteSet(UNION {f[x] : x \in T})
  BY <1>2
<1>5. T # {}
  <2>1. ASSUME T = {} PROVE FALSE
    <3>1. UNION {f[x] : x \in T} = {}
      BY <2>1
    <3> QED  BY <1>4, <3>1, FS_EmptySet
  <2> QED  BY <2>1
<1>6. PICK e \in T : TRUE
  BY <1>5
<1>7. PICK V : V = T \ {e}
  OBVIOUS
<1>8. V \notin C
  <2>1. Cardinality(V) = Cardinality(T) - 1 /\ Cardinality(T) \in Nat
    BY <1>4, <1>6, <1>7, FS_RemoveElement, FS_CardinalityType
  <2> HIDE DEF C
  <2> QED  BY <1>3, <2>1
<1>9. IsFiniteSet(UNION {f[x] : x \in V}) /\ IsFiniteSet(f[e])
  BY <1>4, <1>6, <1>7, <1>8
<1>10. UNION {f[x] : x \in T} = (UNION {f[x] : x \in V}) \cup f[e]
  BY <1>6, <1>7
<1>11. IsFiniteSet((UNION {f[x] : x \in V}) \cup f[e])
  BY <1>9, FS_Union
<1> QED  BY <1>4, <1>10, <1>11

(* The elements from an index on, all different, are as many as they seem.   *)
LEMMA Suffix ==
    ASSUME NEW V, NEW s \in Seq(V), IsInjective(s), NEW i \in DOMAIN s, NEW T,
           IsFiniteSet(T), \A j \in i .. Len(s) : s[j] \in T
    PROVE  Cardinality(T) >= Len(s) - i + 1
<1>1. PICK n \in Nat : n = Len(s) /\ DOMAIN s = 1 .. n
  OBVIOUS
<1>2. PICK f : f = [j \in i .. n |-> s[j]]
  OBVIOUS
<1>3. i \in Nat /\ i >= 1 /\ i <= n
  BY <1>1
<1>4. f \in Injection(i .. n, T)
  <2>1. f \in [i .. n -> T]
    BY <1>1, <1>2
  <2>2. \A j, k \in i .. n : f[j] = f[k] => j = k
    <3>1. \A j \in i .. n : j \in DOMAIN s
      BY <1>1, <1>3
    <3> QED  BY <1>2, <3>1 DEF IsInjective
  <2>3. DOMAIN f = i .. n
    BY <1>2
  <2> QED  BY <2>1, <2>2, <2>3 DEF Injection, IsInjective
<1>5. Cardinality(i .. n) <= Cardinality(T)
  BY <1>4, FS_Injection
<1>6. Cardinality(i .. n) = n - i + 1
  <2>1. i \in Int /\ n \in Int /\ ~(i > n)
    BY <1>3
  <2> QED  BY <2>1, FS_Interval
<1>7. Cardinality(T) \in Nat
  BY FS_CardinalityType
<1> QED  BY <1>1, <1>3, <1>5, <1>6, <1>7

-----------------------------------------------------------------------------
(* Cursors and chunks *)
ChunkType == [source : Sources, sid : Sessions, sequence : Nat \ {0}, msgs : Parts]

CursorType ==
    {c \in Cursor :
        /\ Len(c.versions) <= MaxVersions
        /\ (c.sequence > 0 \/ c.versions # << >>) => c.ready}

(* The chunks of a session under the baseline of a database *)
Of(d, s, Q) == {q \in Q : q.source = d /\ q.sid = s}

(* SentSince, of any chunks *)
SentIn(Q, c, n) ==
    UNION {ToSet(e.msgs) : e \in {q \in Q : /\ q.source = c.source /\ q.sid = c.sid
                                           /\ q.sequence \in c.sequence .. n}}

(* The cursor knows a message that was sent, and of what it knows all that    *)
(* comes after it was sent too and not before; or more messages were sent    *)
(* since than a cursor has room for.                                        *)
Remembers(cursor, q, Q) ==
    \A r \in ToSet(q.msgs) :
        \/ Cardinality(SentIn(Q, q, cursor.sequence)) > MaxVersions
        \/ \E i \in DOMAIN cursor.versions :
              /\ cursor.versions[i] = r
              /\ \A j \in i .. Len(cursor.versions) :
                    cursor.versions[j] \in SentIn(Q, q, cursor.sequence)

(* Of the chunks in Q, the cursor of s accounts for all but those in X.       *)
CursorSafe(cursor, d, s, Q, X) ==
    /\ IsInjective(cursor.versions)
    /\ \A q \in Of(d, s, Q \ X) : q.sequence <= cursor.sequence /\ Remembers(cursor, q, Q)

(* What finitely many chunks sent is finite.                               *)
LEMMA SentFinite ==
    ASSUME NEW Q, Q \subseteq ChunkType, IsFiniteSet(Q), NEW c, NEW n
    PROVE  IsFiniteSet(SentIn(Q, c, n))
<1>1. PICK S : S = {q \in Q : /\ q.source = c.source /\ q.sid = c.sid
                             /\ q.sequence \in c.sequence .. n}
  OBVIOUS
<1>2. PICK f : f = [e \in S |-> ToSet(e.msgs)]
  OBVIOUS
<1>3. S \subseteq Q /\ IsFiniteSet(S)
  BY <1>1, FS_Subset
<1>4. \A e \in S : IsFiniteSet(f[e])
  <2>1. \A e \in S : e.msgs \in Seq(Message)
    BY <1>3 DEF ChunkType, Parts
  <2> QED  BY <1>2, <2>1, ToSetFinite
<1>5. IsFiniteSet(UNION {f[e] : e \in S})
  BY <1>3, <1>4, FiniteUnion
<1>6. SentIn(Q, c, n) = UNION {f[e] : e \in S}
  BY <1>1, <1>2 DEF SentIn
<1> QED  BY <1>5, <1>6

(* More was sent by more chunks, and up to a later one. *)
LEMMA SentMore ==
    ASSUME NEW Q, NEW P, Q \subseteq P, P \subseteq ChunkType, IsFiniteSet(P), NEW c,
           NEW m \in Int, NEW n \in Int, m <= n, c.sequence \in Nat
    PROVE  /\ SentIn(Q, c, m) \subseteq SentIn(P, c, n)
           /\ Cardinality(SentIn(Q, c, m)) > MaxVersions
                => Cardinality(SentIn(P, c, n)) > MaxVersions
<1>1. c.sequence .. m \subseteq c.sequence .. n
  OBVIOUS
<1>2. SentIn(Q, c, m) \subseteq SentIn(P, c, n)
  BY <1>1 DEF SentIn
<1>3. IsFiniteSet(SentIn(P, c, n))
  BY SentFinite
<1>4. /\ Cardinality(SentIn(Q, c, m)) <= Cardinality(SentIn(P, c, n))
      /\ IsFiniteSet(SentIn(Q, c, m))
  BY <1>2, <1>3, FS_Subset
<1>5. /\ Cardinality(SentIn(Q, c, m)) \in Nat /\ Cardinality(SentIn(P, c, n)) \in Nat
      /\ MaxVersions \in Nat
  BY <1>3, <1>4, FS_CardinalityType, TranscriptAssumption
<1> QED  BY <1>2, <1>4, <1>5

(* An element of a chunk is sent. *)
LEMMA SentMember ==
    ASSUME NEW Q, NEW e \in Q, NEW c, NEW n, e.source = c.source, e.sid = c.sid,
           e.sequence \in c.sequence .. n, NEW r \in ToSet(e.msgs)
    PROVE  r \in SentIn(Q, c, n)
<1> QED  BY DEF SentIn

(* A cursor accounts as well for more chunks, if they are in doubt. *)
LEMMA CursorMonotone ==
    ASSUME NEW c \in CursorType, NEW d, NEW s, NEW Q, NEW X, NEW P, NEW Y,
           CursorSafe(c, d, s, Q, X), Q \subseteq P, P \subseteq ChunkType, IsFiniteSet(P),
           Of(d, s, P \ Y) \subseteq Of(d, s, Q \ X)
    PROVE  CursorSafe(c, d, s, P, Y)
<1>1. ASSUME NEW q \in Of(d, s, P \ Y)
      PROVE  q.sequence <= c.sequence /\ Remembers(c, q, P)
  <2>1. q \in ChunkType /\ q.sequence \in Nat
    BY DEF Of, ChunkType
  <2>2. c.sequence \in Int
    BY DEF CursorType, Cursor
  <2>3. q.sequence <= c.sequence /\ Remembers(c, q, Q)
    BY DEF CursorSafe
  <2>4. /\ SentIn(Q, q, c.sequence) \subseteq SentIn(P, q, c.sequence)
        /\ Cardinality(SentIn(Q, q, c.sequence)) > MaxVersions
                => Cardinality(SentIn(P, q, c.sequence)) > MaxVersions
    <3>1. c.sequence <= c.sequence
      BY <2>2
    <3> QED  BY <2>1, <2>2, <3>1, SentMore
  <2>5. Remembers(c, q, P)
    BY <2>3, <2>4 DEF Remembers
  <2> QED  BY <2>3, <2>5
<1> QED  BY <1>1 DEF CursorSafe

(* What a cursor does not know of some messages *)
LEMMA UnseenFacts ==
    ASSUME NEW c \in CursorType, IsInjective(c.versions), NEW msgs \in Seq(Message),
           IsInjective(msgs)
    PROVE  /\ Unseen(c, msgs) \in Seq(Message)
           /\ IsInjective(Unseen(c, msgs))
           /\ ToSet(Unseen(c, msgs)) \cap Seen(c) = {}
           /\ c.versions \o Unseen(c, msgs) \in Seq(Message)
           /\ IsInjective(c.versions \o Unseen(c, msgs))
<1>1. PICK T : T = ToSet(msgs) \ Seen(c)
  OBVIOUS
<1>2. PICK u : u = Unseen(c, msgs)
  OBVIOUS
<1>3. u = Keeping(msgs, T)
  BY <1>1, <1>2 DEF Unseen
<1>4. u \in Seq(Message \cap T) /\ ToSet(u) = ToSet(msgs) \cap T /\ IsInjective(u)
  BY <1>3, KeepSet, KeepInjective
<1>5. u \in Seq(Message) /\ ToSet(u) \cap Seen(c) = {}
  BY <1>1, <1>4
<1>6. c.versions \in Seq(Message)
  BY DEF CursorType, Cursor
<1>7. c.versions \o u \in Seq(Message)
  BY <1>5, <1>6
<1>8. IsInjective(c.versions \o u)
  BY <1>4, <1>5, <1>6, InjectiveConcat DEF Seen
<1> QED  BY <1>2, <1>4, <1>5, <1>7, <1>8

(* A cursor that has learned messages is one, and counts as before. *)
LEMMA RememberedType ==
    ASSUME NEW c \in CursorType, IsInjective(c.versions), NEW msgs \in Seq(Message),
           IsInjective(msgs)
    PROVE  /\ Remembered(c, msgs) \in CursorType
           /\ IsInjective(Remembered(c, msgs).versions)
           /\ Remembered(c, msgs).sequence = c.sequence
           /\ Remembered(c, msgs).ready
           /\ Remembered(c, msgs).hash = c.hash
           /\ Remembered(c, msgs).versions
                    = LastOf(MaxVersions, c.versions \o Unseen(c, msgs))
<1>1. PICK v : v = LastOf(MaxVersions, c.versions \o Unseen(c, msgs))
  OBVIOUS
<1>2. MaxVersions \in Nat
  BY TranscriptAssumption
<1>3. /\ v \in Seq(Message) /\ IsInjective(v)
      /\ Len(v) <= MaxVersions
  <2>1. PICK w \in Seq(Message) : w = c.versions \o Unseen(c, msgs) /\ IsInjective(w)
    BY UnseenFacts
  <2>2. v = LastOf(MaxVersions, w)
    BY <1>1, <2>1
  <2>3. v \in Seq(Message) /\ Len(v) = (IF MaxVersions < Len(w) THEN MaxVersions ELSE Len(w))
    BY <1>2, <2>1, <2>2, LastOfFacts
  <2>4. Len(v) <= MaxVersions
    BY <1>2, <2>1, <2>3
  <2> QED  BY <1>2, <2>1, <2>2, <2>3, <2>4, LastOfInjective
<1>4. c \in Cursor
  BY DEF CursorType
<1>5. Remembered(c, msgs) = [c EXCEPT !.versions = v, !.ready = TRUE]
  BY <1>1 DEF Remembered
<1>6. /\ Remembered(c, msgs) \in Cursor
      /\ Remembered(c, msgs).versions = v
      /\ Remembered(c, msgs).sequence = c.sequence
      /\ Remembered(c, msgs).ready = TRUE
      /\ Remembered(c, msgs).hash = c.hash
  BY <1>3, <1>4, <1>5 DEF Cursor
<1> QED  BY <1>1, <1>3, <1>6 DEF CursorType

(* A cursor that has learned a reading is one.                             *)
LEMMA SeededType ==
    ASSUME NEW c \in CursorType, IsInjective(c.versions), NEW msgs \in Seq(Message),
           IsInjective(msgs)
    PROVE  /\ Seeded(c, msgs) \in CursorType
           /\ IsInjective(Seeded(c, msgs).versions)
           /\ Seeded(c, msgs).sequence = c.sequence
           /\ Seeded(c, msgs).ready
           /\ Seeded(c, msgs).versions
                    = LastOf(MaxVersions, c.versions \o Unseen(c, msgs))
<1>1. PICK r : r = Remembered(c, msgs)
  OBVIOUS
<1>2. /\ r \in CursorType /\ IsInjective(r.versions) /\ r.sequence = c.sequence /\ r.ready
      /\ r.versions = LastOf(MaxVersions, c.versions \o Unseen(c, msgs))
  BY <1>1, RememberedType
<1>3. Seeded(c, msgs) = [r EXCEPT !.hash = msgs]
  BY <1>1 DEF Seeded
<1>4. r \in Cursor
  BY <1>2 DEF CursorType
<1>5. /\ Seeded(c, msgs) \in Cursor
      /\ Seeded(c, msgs).versions = r.versions
      /\ Seeded(c, msgs).sequence = r.sequence
      /\ Seeded(c, msgs).ready = r.ready
  BY <1>3, <1>4 DEF Cursor
<1> QED  BY <1>2, <1>5 DEF CursorType

(* The empty cursor is one.                                                *)
LEMMA NoCursorType == NoCursor \in CursorType /\ IsInjective(NoCursor.versions)
<1>1. PICK e : e = << >>
  OBVIOUS
<1>2. PICK c : c = [versions |-> e, sequence |-> 0, ready |-> FALSE, hash |-> e]
  OBVIOUS
<1>3. NoCursor = c
  BY <1>1, <1>2 DEF NoCursor
<1>4. e \in Seq(Message) /\ Len(e) = 0 /\ DOMAIN e = {}
  BY <1>1
<1>5. c \in Cursor /\ c.versions = e /\ c.sequence = 0
  BY <1>2, <1>4 DEF Cursor
<1>6. MaxVersions \in Nat /\ 0 <= MaxVersions
  BY TranscriptAssumption
<1>7. c \in CursorType
  BY <1>1, <1>4, <1>5, <1>6 DEF CursorType
<1>8. IsInjective(e)
  BY <1>4 DEF IsInjective
<1> QED  BY <1>3, <1>5, <1>7, <1>8

(* A cursor that has learned what is older than its baseline is one.       *)
LEMMA SeededBeforeType ==
    ASSUME NEW msgs \in Seq(Message), IsInjective(msgs), NEW at
    PROVE  /\ SeededBefore(NoCursor, msgs, at) \in CursorType
           /\ IsInjective(SeededBefore(NoCursor, msgs, at).versions)
           /\ SeededBefore(NoCursor, msgs, at).sequence = 0
<1>1. PICK k : k = Keeping(msgs, {r \in ToSet(msgs) : r.at <= at})
  OBVIOUS
<1>2. k \in Seq(Message) /\ IsInjective(k)
  <2>1. PICK T : T = {r \in ToSet(msgs) : r.at <= at}
    OBVIOUS
  <2>2. k \in Seq(Message \cap T)
    BY <1>1, <2>1, KeepSet
  <2> QED  BY <1>1, <2>2, KeepInjective
<1>3. SeededBefore(NoCursor, msgs, at) = Remembered(NoCursor, k)
  BY <1>1 DEF SeededBefore
<1>4. NoCursor.sequence = 0
  BY DEF NoCursor
<1> QED  BY <1>2, <1>3, <1>4, NoCursorType, RememberedType

-----------------------------------------------------------------------------
(* What is made of the messages of a session *)
ChunkOf(s, c, ps, i) == [source |-> source, sid |-> s, sequence |-> c.sequence + i, msgs |-> ps[i]]

(* The chunks are as many as the parts the messages are split into. *)
LEMMA ChunksFacts ==
    ASSUME source \in Sources, NEW s \in Sessions, NEW c \in CursorType,
           NEW msgs, NEW ps \in Seq(Parts), ps = Split(Unseen(c, msgs))
    PROVE  /\ Chunks(s, c, msgs) = {ChunkOf(s, c, ps, i) : i \in DOMAIN ps}
           /\ Chunks(s, c, msgs) \subseteq ChunkType
           /\ IsFiniteSet(Chunks(s, c, msgs))
           /\ Cardinality(Chunks(s, c, msgs)) = Len(ps)
<1>1. Chunks(s, c, msgs) = {ChunkOf(s, c, ps, i) : i \in DOMAIN ps}
  BY DEF Chunks, ChunkOf
<1>2. PICK n \in Nat : n = Len(ps) /\ DOMAIN ps = 1 .. n
  OBVIOUS
<1>3. c.sequence \in Nat
  BY DEF CursorType, Cursor
<1>4. ASSUME NEW i \in DOMAIN ps
      PROVE  /\ ChunkOf(s, c, ps, i) \in ChunkType
             /\ ChunkOf(s, c, ps, i).sequence = c.sequence + i
  <2>1. c.sequence + i \in Nat \ {0} /\ ps[i] \in Parts
    BY <1>2, <1>3
  <2> QED  BY <2>1 DEF ChunkOf, ChunkType
<1>5. PICK f : f = [i \in 1 .. n |-> ChunkOf(s, c, ps, i)]
  OBVIOUS
<1>6. f \in Bijection(1 .. n, Chunks(s, c, msgs))
  <2>1. DOMAIN f = 1 .. n /\ \A i \in 1 .. n : f[i] = ChunkOf(s, c, ps, i)
    BY <1>5
  <2>2. f \in [1 .. n -> Chunks(s, c, msgs)]
    BY <1>1, <1>2, <1>5
  <2>3. IsInjective(f)
    <3>1. ASSUME NEW i \in 1 .. n, NEW j \in 1 .. n, f[i] = f[j]
          PROVE  i = j
      <4>1. c.sequence + i = c.sequence + j
        BY <1>2, <1>4, <2>1, <3>1
      <4> QED  BY <1>3, <4>1
    <3> QED  BY <2>1, <3>1 DEF IsInjective
  <2>4. \A q \in Chunks(s, c, msgs) : \E i \in 1 .. n : f[i] = q
    BY <1>1, <1>2, <2>1
  <2> QED  BY <2>2, <2>3, <2>4 DEF Bijection, Injection, Surjection
<1>7. IsFiniteSet(1 .. n) /\ Cardinality(1 .. n) = n
  <2>1. 1 \in Int /\ n \in Int /\ (1 > n => n = 0)
    BY <1>2
  <2> QED  BY <2>1, FS_Interval
<1>8. IsFiniteSet(Chunks(s, c, msgs)) /\ Cardinality(Chunks(s, c, msgs)) = n
  <2>1. ExistsBijection(1 .. n, Chunks(s, c, msgs))
    BY <1>6 DEF ExistsBijection
  <2> QED  BY <1>7, <2>1, FS_Bijection
<1> QED  BY <1>1, <1>2, <1>4, <1>8

(* The cursor after the chunks *)
LEMMA AdvancedType ==
    ASSUME source \in Sources, NEW s \in Sessions, NEW c \in CursorType,
           IsInjective(c.versions), NEW msgs \in Seq(Message), IsInjective(msgs),
           NEW ps \in Seq(Parts), ps = Split(Unseen(c, msgs))
    PROVE  /\ Advanced(c, s, msgs) \in CursorType
           /\ IsInjective(Advanced(c, s, msgs).versions)
           /\ Advanced(c, s, msgs).sequence = c.sequence + Len(ps)
           /\ Advanced(c, s, msgs).versions
                    = LastOf(MaxVersions, c.versions \o Unseen(c, msgs))
<1>1. PICK r : r = Seeded(c, msgs)
  OBVIOUS
<1>2. /\ r \in CursorType /\ IsInjective(r.versions) /\ r.sequence = c.sequence /\ r.ready
      /\ r.versions = LastOf(MaxVersions, c.versions \o Unseen(c, msgs))
  BY <1>1, SeededType
<1>3. Cardinality(Chunks(s, c, msgs)) = Len(ps) /\ Len(ps) \in Nat
  BY ChunksFacts
<1>4. Advanced(c, s, msgs) = [r EXCEPT !.sequence = r.sequence + Len(ps)]
  <2>1. r \in Cursor
    BY <1>2 DEF CursorType
  <2>2. Advanced(c, s, msgs) = [r EXCEPT !.sequence = @ + Cardinality(Chunks(s, c, msgs))]
    BY <1>1 DEF Advanced
  <2> QED  BY <1>3, <2>1, <2>2 DEF Cursor
<1>5. r \in Cursor /\ r.sequence + Len(ps) \in Nat
  BY <1>2, <1>3 DEF CursorType, Cursor
<1>6. /\ Advanced(c, s, msgs) \in Cursor
      /\ Advanced(c, s, msgs).versions = r.versions
      /\ Advanced(c, s, msgs).sequence = r.sequence + Len(ps)
      /\ Advanced(c, s, msgs).ready = r.ready
  BY <1>4, <1>5 DEF Cursor
<1> QED  BY <1>2, <1>6 DEF CursorType

(* What a cursor remembers of a sequence of messages that were all sent from  *)
(* one of them on, when it keeps the last of them only                      *)
LEMMA RememberLast ==
    ASSUME NEW w \in Seq(Message), IsInjective(w), NEW T, IsFiniteSet(T),
           NEW i \in DOMAIN w, \A j \in i .. Len(w) : w[j] \in T
    PROVE  \/ Cardinality(T) > MaxVersions
           \/ \E k \in DOMAIN LastOf(MaxVersions, w) :
                 /\ LastOf(MaxVersions, w)[k] = w[i]
                 /\ \A j \in k .. Len(LastOf(MaxVersions, w)) : LastOf(MaxVersions, w)[j] \in T
<1> DEFINE v == LastOf(MaxVersions, w)
<1> HIDE DEF v
<1>0. v = LastOf(MaxVersions, w)
  BY DEF v
<1>1. MaxVersions \in Nat
  BY TranscriptAssumption
<1>2. PICK d \in Nat : d = Len(w) - Len(v)
  BY <1>0, <1>1, LastOfFacts
<1>3. /\ v \in Seq(Message)
      /\ Len(v) = (IF MaxVersions < Len(w) THEN MaxVersions ELSE Len(w))
      /\ \A j \in 1 .. Len(v) : v[j] = w[d + j]
  BY <1>0, <1>1, <1>2, LastOfFacts
<1>4. i \in 1 .. Len(w) /\ Len(w) \in Nat /\ Len(v) \in Nat
  BY <1>3
<1>5. CASE i <= d
  <2>1. Cardinality(T) >= Len(w) - i + 1 /\ Cardinality(T) \in Nat
    BY Suffix, FS_CardinalityType
  <2>2. Len(v) = MaxVersions
    BY <1>1, <1>2, <1>3, <1>4, <1>5
  <2>3. Len(w) - i + 1 > MaxVersions
    BY <1>2, <1>4, <1>5, <2>2
  <2> QED  BY <1>1, <1>4, <2>1, <2>3
<1>6. CASE i > d
  <2>1. i - d \in 1 .. Len(v) /\ d + (i - d) = i
    BY <1>2, <1>4, <1>6
  <2>2. i - d \in DOMAIN v /\ v[i - d] = w[i]
    BY <1>3, <2>1
  <2>3. ASSUME NEW j \in i - d .. Len(v)
        PROVE  v[j] \in T
    <3>1. j \in 1 .. Len(v) /\ d + j \in i .. Len(w)
      BY <1>2, <1>4, <1>6, <2>1
    <3> QED  BY <1>3, <3>1
  <2> QED  BY <1>0, <2>2, <2>3
<1> QED  BY <1>0, <1>2, <1>4, <1>5, <1>6

(* The cursor accounts for what it has just counted, and still for the rest. *)
LEMMA AdvancedSafe ==
    ASSUME source \in Sources, NEW s \in Sessions, NEW c \in CursorType,
           NEW msgs \in Seq(Message), IsInjective(msgs),
           NEW Q, NEW X, NEW P, Q \cup P \subseteq ChunkType, IsFiniteSet(Q \cup P),
           CursorSafe(c, source, s, Q, X), Of(source, s, P) = Chunks(s, c, msgs)
    PROVE  CursorSafe(Advanced(c, s, msgs), source, s, Q \cup P, X)
<1>1. PICK u : u = Unseen(c, msgs)
  OBVIOUS
<1>2. PICK w : w = c.versions \o u
  OBVIOUS
<1>3. PICK ps : ps = Split(u)
  OBVIOUS
<1>4. PICK a : a = Advanced(c, s, msgs)
  OBVIOUS
<1>5. IsInjective(c.versions)
  BY DEF CursorSafe
<1>6. /\ u \in Seq(Message) /\ IsInjective(u) /\ w \in Seq(Message) /\ IsInjective(w)
      /\ ps \in Seq(Parts)
  BY <1>1, <1>2, <1>3, <1>5, UnseenFacts, SplitParts
<1>7. PICK z \in Nat : z = c.sequence
  BY DEF CursorType, Cursor
<1>8. PICK n \in Nat : n = Len(ps) /\ DOMAIN ps = 1 .. n
  BY <1>6
<1>9. /\ a \in CursorType /\ IsInjective(a.versions) /\ a.sequence = z + n
      /\ a.versions = LastOf(MaxVersions, w)
  BY <1>1, <1>2, <1>3, <1>4, <1>5, <1>6, <1>7, <1>8, AdvancedType
<1>10. Of(source, s, P) = {ChunkOf(s, c, ps, i) : i \in DOMAIN ps}
  BY <1>1, <1>3, <1>6, ChunksFacts
<1>11. PICK g : Spread(g, u, ps)
  BY <1>3, <1>6, SplitSpread
<1>12. PICK l \in Nat : l = Len(c.versions) /\ DOMAIN c.versions = 1 .. l
  BY DEF CursorType, Cursor
<1>13. /\ DOMAIN w = 1 .. l + Len(u) /\ Len(w) = l + Len(u) /\ DOMAIN u = 1 .. Len(u)
       /\ \A j \in 1 .. l : w[j] = c.versions[j]
       /\ \A j \in 1 .. l + Len(u) : j > l => w[j] = u[j - l] /\ j - l \in DOMAIN u
  <2>1. c.versions \in Seq(Message)
    BY DEF CursorType, Cursor
  <2> QED  BY <1>2, <1>6, <1>12, <2>1
<1>14. ASSUME NEW i \in DOMAIN u, NEW q \in ChunkType, q.source = source, q.sid = s,
              q.sequence <= z + g[i]
       PROVE  u[i] \in SentIn(Q \cup P, q, z + n)
  <2>1. g[i] \in DOMAIN ps /\ u[i] \in ToSet(ps[g[i]])
    BY <1>11 DEF Spread
  <2>2. PICK e : e = ChunkOf(s, c, ps, g[i])
    OBVIOUS
  <2>3. e \in Of(source, s, P)
    BY <1>10, <2>1, <2>2
  <2>4. e \in Q \cup P /\ e.source = source /\ e.sid = s
    BY <2>3 DEF Of
  <2>5. e.sequence = z + g[i] /\ e.msgs = ps[g[i]]
    BY <1>7, <2>2 DEF ChunkOf
  <2>6. e.sequence \in q.sequence .. z + n
    <3>1. q.sequence \in Nat /\ g[i] \in 1 .. n
      BY <1>8, <2>1 DEF ChunkType
    <3> QED  BY <1>8, <1>14, <2>5, <3>1
  <2> QED  BY <1>14, <2>1, <2>4, <2>5, <2>6, SentMember
<1>15. ASSUME NEW q \in Q \cup P, NEW i \in DOMAIN w,
              \A j \in i .. Len(w) : w[j] \in SentIn(Q \cup P, q, z + n)
       PROVE  \/ Cardinality(SentIn(Q \cup P, q, a.sequence)) > MaxVersions
              \/ \E k \in DOMAIN a.versions :
                    /\ a.versions[k] = w[i]
                    /\ \A j \in k .. Len(a.versions) :
                          a.versions[j] \in SentIn(Q \cup P, q, a.sequence)
  <2>1. PICK T : T = SentIn(Q \cup P, q, z + n)
    OBVIOUS
  <2>2. IsFiniteSet(T)
    BY <2>1, SentFinite
  <2>3. \/ Cardinality(T) > MaxVersions
        \/ \E k \in DOMAIN a.versions :
              a.versions[k] = w[i] /\ \A j \in k .. Len(a.versions) : a.versions[j] \in T
    <3>1. \A j \in i .. Len(w) : w[j] \in T
      BY <1>15, <2>1
    <3>2. PICK v : v = a.versions
      OBVIOUS
    <3>3. v = LastOf(MaxVersions, w)
      BY <1>9, <3>2
    <3>4. PICK t : t = LastOf(MaxVersions, w)
      OBVIOUS
    <3>5. \/ Cardinality(T) > MaxVersions
          \/ \E k \in DOMAIN t : t[k] = w[i] /\ \A j \in k .. Len(t) : t[j] \in T
      <4>1. w \in Seq(Message) /\ IsInjective(w) /\ i \in DOMAIN w
        BY <1>6
      <4> QED  BY <2>2, <3>1, <3>4, <4>1, RememberLast
    <3>6. \/ Cardinality(T) > MaxVersions
          \/ \E k \in DOMAIN v : v[k] = w[i] /\ \A j \in k .. Len(v) : v[j] \in T
      BY <3>3, <3>4, <3>5
    <3> QED  BY <3>2, <3>6
  <2> QED  BY <1>9, <2>1, <2>3
<1>16. ASSUME NEW q \in Of(source, s, (Q \cup P) \ X)
       PROVE  q.sequence <= a.sequence /\ Remembers(a, q, Q \cup P)
  <2>1. /\ q \in Q \cup P /\ q \in ChunkType /\ q.source = source /\ q.sid = s
        /\ q.sequence \in Nat
    BY DEF Of, ChunkType
  <2>2. CASE q \in Of(source, s, P)
    <3>1. PICK k \in DOMAIN ps : q = ChunkOf(s, c, ps, k)
      BY <1>10, <2>2
    <3>2. q.sequence = z + k /\ q.msgs = ps[k] /\ k \in 1 .. n
      BY <1>7, <1>8, <3>1 DEF ChunkOf
    <3>3. q.sequence <= a.sequence
      BY <1>8, <1>9, <3>2
    <3>4. ASSUME NEW r \in ToSet(q.msgs)
          PROVE  \/ Cardinality(SentIn(Q \cup P, q, a.sequence)) > MaxVersions
                 \/ \E m \in DOMAIN a.versions :
                       /\ a.versions[m] = r
                       /\ \A j \in m .. Len(a.versions) :
                             a.versions[j] \in SentIn(Q \cup P, q, a.sequence)
      <4>1. PICK i \in DOMAIN u : g[i] = k /\ u[i] = r
        BY <1>11, <3>2, <3>4 DEF Spread
      <4>2. /\ i \in 1 .. Len(u) /\ l + i \in DOMAIN w /\ w[l + i] = r
        <5>1. i \in 1 .. Len(u) /\ l + i \in 1 .. l + Len(u) /\ l + i > l /\ l + i - l = i
          BY <1>12, <1>13
        <5> QED  BY <1>13, <4>1, <5>1
      <4>3. ASSUME NEW j \in l + i .. Len(w)
            PROVE  w[j] \in SentIn(Q \cup P, q, z + n)
        <5>1. j \in 1 .. l + Len(u) /\ j > l /\ j - l >= i
          BY <1>12, <1>13, <4>2
        <5>2. w[j] = u[j - l] /\ j - l \in DOMAIN u
          BY <1>13, <5>1
        <5>3. g[i] <= g[j - l] /\ g[j - l] \in DOMAIN ps
          BY <1>11, <5>1, <5>2 DEF Spread
        <5>4. q.sequence <= z + g[j - l]
          BY <1>7, <1>8, <3>2, <4>1, <5>3
        <5> QED  BY <1>14, <2>1, <5>2, <5>4
      <4> QED  BY <1>15, <2>1, <4>2, <4>3
    <3> QED  BY <3>3, <3>4 DEF Remembers
  <2>3. CASE q \notin Of(source, s, P)
    <3>1. q \in Of(source, s, Q \ X)
      BY <2>3 DEF Of
    <3>2. q.sequence <= z /\ Remembers(c, q, Q)
      BY <1>7, <3>1 DEF CursorSafe
    <3>3. q.sequence <= a.sequence
      BY <1>7, <1>8, <1>9, <2>1, <3>2
    <3>4. /\ SentIn(Q, q, z) \subseteq SentIn(Q \cup P, q, z + n)
          /\ Cardinality(SentIn(Q, q, z)) > MaxVersions
                => Cardinality(SentIn(Q \cup P, q, z + n)) > MaxVersions
      <4>1. z \in Int /\ z + n \in Int /\ z <= z + n /\ Q \subseteq Q \cup P
        BY <1>7, <1>8
      <4> QED  BY <2>1, <4>1, SentMore
    <3>5. ASSUME NEW r \in ToSet(q.msgs)
          PROVE  \/ Cardinality(SentIn(Q \cup P, q, a.sequence)) > MaxVersions
                 \/ \E m \in DOMAIN a.versions :
                       /\ a.versions[m] = r
                       /\ \A j \in m .. Len(a.versions) :
                             a.versions[j] \in SentIn(Q \cup P, q, a.sequence)
      <4>1. CASE Cardinality(SentIn(Q, q, z)) > MaxVersions
        BY <1>9, <3>4, <4>1
      <4>2. CASE ~(Cardinality(SentIn(Q, q, z)) > MaxVersions)
        <5>1. PICK i \in DOMAIN c.versions :
                    /\ c.versions[i] = r
                    /\ \A j \in i .. Len(c.versions) : c.versions[j] \in SentIn(Q, q, z)
          BY <1>7, <3>2, <4>2 DEF Remembers
        <5>2. i \in 1 .. l /\ i \in DOMAIN w /\ w[i] = r
          BY <1>12, <1>13, <5>1
        <5>3. ASSUME NEW j \in i .. Len(w)
              PROVE  w[j] \in SentIn(Q \cup P, q, z + n)
          <6>1. j \in 1 .. l + Len(u)
            BY <1>12, <1>13, <5>2
          <6>2. CASE j <= l
            <7>1. j \in 1 .. l /\ j \in i .. Len(c.versions)
              BY <1>12, <5>2, <6>1, <6>2
            <7> QED  BY <1>13, <3>4, <5>1, <7>1
          <6>3. CASE j > l
            <7>1. w[j] = u[j - l] /\ j - l \in DOMAIN u
              BY <1>13, <6>1, <6>3
            <7>2. g[j - l] \in 1 .. n
              BY <1>8, <1>11, <7>1 DEF Spread
            <7>3. q.sequence <= z + g[j - l]
              BY <1>7, <2>1, <3>2, <7>2
            <7> QED  BY <1>14, <2>1, <7>1, <7>3
          <6> QED  BY <1>12, <6>1, <6>2, <6>3
        <5> QED  BY <1>15, <2>1, <5>2, <5>3
      <4> QED  BY <4>1, <4>2
    <3> QED  BY <3>3, <3>5 DEF Remembers
  <2> QED  BY <2>2, <2>3
<1> QED  BY <1>4, <1>9, <1>16 DEF CursorSafe

(* A new chunk has a number of its own, and nothing in common with another    *)
(* new one, nor with an older one but what the cursor has forgotten of it.   *)
LEMMA ChunksNew ==
    ASSUME source \in Sources, NEW s \in Sessions, NEW c \in CursorType,
           NEW msgs \in Seq(Message), IsInjective(msgs),
           NEW Q, NEW X, NEW P, Q \cup P \subseteq ChunkType, IsFiniteSet(Q \cup P),
           CursorSafe(c, source, s, Q, X), Of(source, s, P) = Chunks(s, c, msgs),
           NEW e \in Of(source, s, P)
    PROVE  /\ \A q \in Of(source, s, Q \ X) :
                /\ q.sequence < e.sequence
                /\ ToSet(q.msgs) \cap ToSet(e.msgs) # {} =>
                      Cardinality(SentIn(Q \cup P, q, e.sequence - 1)) > MaxVersions
           /\ \A q \in Of(source, s, P) : q # e =>
                /\ q.sequence # e.sequence
                /\ ToSet(q.msgs) \cap ToSet(e.msgs) = {}
<1>1. PICK u : u = Unseen(c, msgs)
  OBVIOUS
<1>2. PICK ps : ps = Split(u)
  OBVIOUS
<1>3. IsInjective(c.versions)
  BY DEF CursorSafe
<1>4. /\ u \in Seq(Message) /\ IsInjective(u) /\ ToSet(u) \cap Seen(c) = {}
      /\ ps \in Seq(Parts)
  BY <1>1, <1>2, <1>3, UnseenFacts, SplitParts
<1>5. PICK z \in Nat : z = c.sequence
  BY DEF CursorType, Cursor
<1>6. Of(source, s, P) = {ChunkOf(s, c, ps, i) : i \in DOMAIN ps}
  BY <1>1, <1>2, <1>4, ChunksFacts
<1>7. PICK g : Spread(g, u, ps)
  BY <1>2, <1>4, SplitSpread
<1>8. ASSUME NEW i \in DOMAIN ps
      PROVE  /\ i \in Nat \ {0} /\ ChunkOf(s, c, ps, i).sequence = z + i
             /\ ChunkOf(s, c, ps, i).msgs = ps[i]
  BY <1>4, <1>5 DEF ChunkOf
<1>9. PICK k \in DOMAIN ps : e = ChunkOf(s, c, ps, k)
  BY <1>6
<1>10. e.sequence = z + k /\ e.msgs = ps[k] /\ k \in Nat \ {0}
  BY <1>8, <1>9
<1>11. ASSUME NEW q \in Of(source, s, Q \ X)
       PROVE  /\ q.sequence < e.sequence
              /\ ToSet(q.msgs) \cap ToSet(e.msgs) # {} =>
                    Cardinality(SentIn(Q \cup P, q, e.sequence - 1)) > MaxVersions
  <2>1. q.sequence <= z /\ Remembers(c, q, Q)
    BY <1>5 DEF CursorSafe
  <2>2. q \in ChunkType /\ q.sequence \in Nat
    BY DEF Of, ChunkType
  <2>3. q.sequence < e.sequence
    BY <1>5, <1>10, <2>1, <2>2
  <2>4. ASSUME ToSet(q.msgs) \cap ToSet(e.msgs) # {}
        PROVE  Cardinality(SentIn(Q \cup P, q, e.sequence - 1)) > MaxVersions
    <3>1. PICK r : r \in ToSet(q.msgs) /\ r \in ToSet(ps[k])
      BY <1>10, <2>4
    <3>2. PICK i \in DOMAIN u : u[i] = r
      BY <1>7, <3>1 DEF Spread
    <3>3. r \notin Seen(c)
      BY <1>4, <3>2 DEF ToSet
    <3>4. ~ \E i2 \in DOMAIN c.versions : c.versions[i2] = r
      BY <3>3 DEF Seen, ToSet
    <3>5. Cardinality(SentIn(Q, q, z)) > MaxVersions
      BY <1>5, <2>1, <3>1, <3>4 DEF Remembers
    <3>6. PICK y : y = e.sequence - 1
      OBVIOUS
    <3>7. z \in Int /\ y \in Int /\ z <= y
      BY <1>5, <1>10, <3>6
    <3>8. PICK A : A = Q \cup P
      OBVIOUS
    <3>9. Cardinality(SentIn(A, q, y)) > MaxVersions
      <4>1. Q \subseteq A /\ A \subseteq ChunkType /\ IsFiniteSet(A)
        BY <3>8
      <4> QED  BY <2>2, <3>5, <3>7, <4>1, SentMore
    <3> QED  BY <3>6, <3>8, <3>9
  <2> QED  BY <2>3, <2>4
<1>12. ASSUME NEW q \in Of(source, s, P), q # e
       PROVE  q.sequence # e.sequence /\ ToSet(q.msgs) \cap ToSet(e.msgs) = {}
  <2>1. PICK m \in DOMAIN ps : q = ChunkOf(s, c, ps, m)
    BY <1>6
  <2>2. q.sequence = z + m /\ q.msgs = ps[m] /\ m \in Nat \ {0} /\ m # k
    BY <1>8, <1>9, <1>12, <2>1
  <2>3. q.sequence # e.sequence
    BY <1>5, <1>10, <2>2
  <2>4. ASSUME NEW r \in ToSet(ps[m]), r \in ToSet(ps[k])
        PROVE  FALSE
    <3>1. PICK i \in DOMAIN u : g[i] = m /\ u[i] = r
      BY <1>7, <2>4 DEF Spread
    <3>2. PICK j \in DOMAIN u : g[j] = k /\ u[j] = r
      BY <1>7, <2>4 DEF Spread
    <3>3. i = j
      BY <1>4, <3>1, <3>2 DEF IsInjective
    <3> QED  BY <2>2, <3>1, <3>2, <3>3
  <2> QED  BY <1>10, <2>2, <2>3, <2>4
<1> QED  BY <1>11, <1>12

-----------------------------------------------------------------------------
(* The baseline of a collection *)
CursorIn(b, s) == IF s \in SessionsOf(b) THEN b.sessions[s] ELSE NoCursor

Settled(b, d, Q, X) == \A s \in Sessions : CursorSafe(CursorIn(b, s), d, s, Q, X)

Once(Q, X) ==
    \A c, d \in Q \ X :
        c # d /\ c.source = d.source /\ c.sid = d.sid =>
            /\ c.sequence # d.sequence
            /\ c.sequence < d.sequence /\ ToSet(c.msgs) \cap ToSet(d.msgs) # {} =>
                    Cardinality(SentIn(Q, c, d.sequence - 1)) > MaxVersions

(* A baseline, and one that is not begun has no sessions. *)
BaselineInv(b) ==
    /\ b = [at |-> b.at, sessions |-> b.sessions]
    /\ IsBaseline(b)
    /\ b.at = 0 => SessionsOf(b) = {}

(* What was read of the sessions *)
ReadType(read) ==
    /\ DOMAIN read \subseteq Sessions
    /\ \A s \in DOMAIN read : read[s] \in Seq(Message) /\ UniqueIDs(read[s])

(* Every session has a cursor in a baseline, if only the empty one.        *)
LEMMA BaselineCursors ==
    ASSUME NEW b, IsBaseline(b)
    PROVE  \A s : CursorIn(b, s) \in CursorType
<1> TAKE s
<1>1. CASE s \in SessionsOf(b)
  <2>1. b.sessions[s] \in CursorType
    BY <1>1 DEF IsBaseline, CursorType
  <2> QED  BY <1>1, <2>1 DEF CursorIn
<1>2. CASE s \notin SessionsOf(b)
  BY <1>2, NoCursorType DEF CursorIn
<1> QED  BY <1>1, <1>2

(* Cursors of sessions make a baseline.                                    *)
LEMMA CursorsBaseline ==
    ASSUME NEW n, n \in 0 .. now, NEW S, S \subseteq Sessions, NEW f, f \in [S -> CursorType],
           n # 0
    PROVE  BaselineInv([at |-> n, sessions |-> f])
<1>1. PICK b : b = [at |-> n, sessions |-> f]
  OBVIOUS
<1>2. b.at = n /\ b.sessions = f /\ SessionsOf(b) = S
  BY <1>1 DEF SessionsOf
<1>3. \A s \in S : f[s] \in CursorType /\ f[s] \in Cursor
  BY DEF CursorType
<1>4. f \in [S -> Cursor]
  BY <1>3
<1>5. IsBaseline(b)
  BY <1>2, <1>3, <1>4 DEF IsBaseline, CursorType
<1> QED  BY <1>1, <1>2, <1>5 DEF BaselineInv

(* A cursor that counts no chunk accounts for none. *)
LEMMA NothingCounted ==
    ASSUME NEW c, NEW d, NEW s, NEW Q, NEW X, Q \subseteq ChunkType,
           CursorSafe(c, d, s, Q, X), c.sequence = 0
    PROVE  Of(d, s, Q \ X) = {}
<1>1. ASSUME NEW q \in Of(d, s, Q \ X) PROVE FALSE
  <2>1. q.sequence <= 0
    BY DEF CursorSafe
  <2>2. q.sequence \in Nat \ {0}
    BY DEF Of, ChunkType
  <2> QED  BY <2>1, <2>2
<1> QED  BY <1>1

(* So any cursor will do. *)
LEMMA NothingToKnow ==
    ASSUME NEW c, IsInjective(c.versions), NEW d, NEW s, NEW Q, NEW X, Of(d, s, Q \ X) = {}
    PROVE  CursorSafe(c, d, s, Q, X)
<1> QED  BY DEF CursorSafe

(* The cursor a collection finds *)
LEMMA CursorFound ==
    ASSUME NEW read, NEW fallback, ReadType(read), fallback \subseteq DOMAIN read,
           BaselineInv(baseline[source]), NEW s \in Sessions
    PROVE  /\ CursorOf(s, read, fallback) \in CursorType
           /\ \A Q, X : Q \subseteq ChunkType /\ Settled(baseline[source], source, Q, X) =>
                 /\ CursorSafe(CursorOf(s, read, fallback), source, s, Q, X)
                 /\ PassedOver(s) => Of(source, s, Q \ X) = {}
<1>1. PICK b : b = baseline[source]
  OBVIOUS
<1>2. IsBaseline(b) /\ \A t : CursorIn(b, t) \in CursorType
  BY <1>1, BaselineCursors DEF BaselineInv
<1>3. CASE s \in SessionsOf(b)
  <2>1. CursorOf(s, read, fallback) = CursorIn(b, s)
    BY <1>1, <1>3 DEF CursorOf, CursorIn
  <2>2. ASSUME NEW Q, NEW X, Q \subseteq ChunkType, Settled(b, source, Q, X), PassedOver(s)
        PROVE  Of(source, s, Q \ X) = {}
    <3>1. ~ CursorIn(b, s).ready
      BY <1>1, <1>3, <2>2 DEF PassedOver, CursorIn
    <3>2. CursorIn(b, s).sequence = 0
      BY <1>2, <3>1 DEF CursorType, Cursor
    <3>3. CursorSafe(CursorIn(b, s), source, s, Q, X)
      BY <2>2 DEF Settled
    <3> QED  BY <2>2, <3>2, <3>3, NothingCounted
  <2> QED  BY <1>1, <1>2, <2>1, <2>2 DEF Settled
<1>4. CASE s \notin SessionsOf(b)
  <2>1. ~ PassedOver(s)
    BY <1>1, <1>4 DEF PassedOver
  <2>2. /\ CursorOf(s, read, fallback) \in CursorType
        /\ IsInjective(CursorOf(s, read, fallback).versions)
    <3>1. CASE s \in fallback
      <4>1. read[s] \in Seq(Message) /\ IsInjective(read[s])
        BY <3>1, IDsInjective DEF ReadType
      <4>2. CursorOf(s, read, fallback) = SeededBefore(NoCursor, read[s], b.at)
        BY <1>1, <1>4, <3>1 DEF CursorOf
      <4> QED  BY <4>1, <4>2, SeededBeforeType
    <3>2. CASE s \notin fallback
      BY <1>1, <1>4, <3>2, NoCursorType DEF CursorOf
    <3> QED  BY <3>1, <3>2
  <2>3. ASSUME NEW Q, NEW X, Q \subseteq ChunkType, Settled(b, source, Q, X)
        PROVE  CursorSafe(CursorOf(s, read, fallback), source, s, Q, X)
    <3>1. CursorSafe(NoCursor, source, s, Q, X)
      BY <1>4, <2>3 DEF Settled, CursorIn
    <3>2. NoCursor.sequence = 0
      BY DEF NoCursor
    <3>3. Of(source, s, Q \ X) = {}
      BY <2>3, <3>1, <3>2, NothingCounted
    <3> QED  BY <2>2, <3>3, NothingToKnow
  <2> QED  BY <1>1, <2>1, <2>2, <2>3
<1> QED  BY <1>3, <1>4

(* The sessions of which something is to be queued *)
Queues(read, s) ==
    /\ baseline[source].at # 0
    /\ s \in DOMAIN read /\ ~PassedOver(s) /\ ~Unchanged(s, read[s])

(* The chunks of a plan are those of the sessions that queue something.    *)
LEMMA PlanChunks ==
    ASSUME NEW read, NEW fallback
    PROVE  /\ Plan(read, fallback).chunks =
                 UNION {Chunks(s, CursorOf(s, read, fallback), read[s]) :
                          s \in {t \in DOMAIN read : Queues(read, t)}}
           /\ \A q \in Plan(read, fallback).chunks : q.source = source
           /\ \A s : Of(source, s, Plan(read, fallback).chunks) =
                 IF Queues(read, s) THEN Chunks(s, CursorOf(s, read, fallback), read[s]) ELSE {}
<1>1. PICK P : P = Plan(read, fallback).chunks
  OBVIOUS
<1>2. P = UNION {Chunks(s, CursorOf(s, read, fallback), read[s]) :
                   s \in {t \in DOMAIN read : Queues(read, t)}}
  <2>1. CASE baseline[source].at = 0
    <3>1. P = {} /\ {t \in DOMAIN read : Queues(read, t)} = {}
      BY <1>1, <2>1 DEF Plan, Queues
    <3> QED  BY <3>1
  <2>2. CASE baseline[source].at # 0
    <3>1. {t \in DOMAIN read : Queues(read, t)}
             = {t \in DOMAIN read : ~PassedOver(t) /\ ~Unchanged(t, read[t])}
      BY <2>2 DEF Queues
    <3> QED  BY <1>1, <2>2, <3>1 DEF Plan
  <2> QED  BY <2>1, <2>2
<1>3. \A s, c, msgs : \A q \in Chunks(s, c, msgs) : q.source = source /\ q.sid = s
  BY DEF Chunks
<1>4. \A q \in P : q.source = source
  BY <1>2, <1>3
<1>5. ASSUME NEW s
      PROVE  Of(source, s, P) =
                IF Queues(read, s) THEN Chunks(s, CursorOf(s, read, fallback), read[s]) ELSE {}
  <2>1. \A q : q \in P <=> \E t \in DOMAIN read :
                              /\ Queues(read, t)
                              /\ q \in Chunks(t, CursorOf(t, read, fallback), read[t])
    BY <1>2
  <2>2. CASE Queues(read, s)
    <3>1. s \in DOMAIN read
      BY <2>2 DEF Queues
    <3> QED  BY <1>3, <2>1, <2>2, <3>1 DEF Of
  <2>3. CASE ~ Queues(read, s)
    BY <1>3, <2>1, <2>3 DEF Of
  <2> QED  BY <2>2, <2>3
<1> QED  BY <1>1, <1>2, <1>4, <1>5

(* What a collection knows when it makes its plan *)
PlanReady(read, fallback, Q, X) ==
    /\ source \in Sources
    /\ observed \in 1 .. now
    /\ BaselineInv(baseline[source])
    /\ ReadType(read) /\ fallback \subseteq DOMAIN read
    /\ Listed \subseteq Sessions
    /\ Q \subseteq ChunkType /\ IsFiniteSet(Q)
    /\ Settled(baseline[source], source, Q, X) /\ Once(Q, X)

(* The cursor that a plan finds accounts for what its baseline accounts for. *)
LEMMA FoundCursor ==
    ASSUME NEW read, NEW fallback, NEW Q, NEW X, PlanReady(read, fallback, Q, X),
           NEW s \in Sessions
    PROVE  /\ CursorOf(s, read, fallback) \in CursorType
           /\ IsInjective(CursorOf(s, read, fallback).versions)
           /\ CursorSafe(CursorOf(s, read, fallback), source, s, Q, X)
           /\ PassedOver(s) => Of(source, s, Q \ X) = {}
<1> QED  BY CursorFound DEF PlanReady, CursorSafe

(* The messages read of a session have no doubles.                         *)
LEMMA ReadMessages ==
    ASSUME NEW read, ReadType(read), NEW s \in DOMAIN read
    PROVE  s \in Sessions /\ read[s] \in Seq(Message) /\ IsInjective(read[s])
<1> QED  BY IDsInjective DEF ReadType

(* The chunks of a plan *)
LEMMA PlanChunkType ==
    ASSUME NEW read, NEW fallback, NEW Q, NEW X, PlanReady(read, fallback, Q, X)
    PROVE  /\ Plan(read, fallback).chunks \subseteq ChunkType
           /\ IsFiniteSet(Plan(read, fallback).chunks)
<1>1. PICK S : S = {t \in DOMAIN read : Queues(read, t)}
  OBVIOUS
<1>2. PICK f : f = [s \in S |-> Chunks(s, CursorOf(s, read, fallback), read[s])]
  OBVIOUS
<1>3. ASSUME NEW s \in S
      PROVE  f[s] \subseteq ChunkType /\ IsFiniteSet(f[s])
  <2>1. s \in Sessions /\ read[s] \in Seq(Message) /\ IsInjective(read[s]) /\ source \in Sources
    BY <1>1, ReadMessages DEF PlanReady
  <2>2. PICK c : c = CursorOf(s, read, fallback)
    OBVIOUS
  <2>3. c \in CursorType /\ IsInjective(c.versions)
    BY <2>1, <2>2, FoundCursor
  <2>4. Unseen(c, read[s]) \in Seq(Message)
    BY <2>1, <2>3, UnseenFacts
  <2>5. PICK ps : ps = Split(Unseen(c, read[s])) /\ ps \in Seq(Parts)
    BY <2>4, SplitParts
  <2> QED  BY <1>2, <2>1, <2>2, <2>3, <2>5, ChunksFacts
<1>4. IsFiniteSet(S)
  <2>1. S \subseteq Sessions
    BY <1>1 DEF PlanReady, ReadType
  <2> QED  BY <2>1, DiscoveryAssumption, FS_Subset
<1>5. Plan(read, fallback).chunks = UNION {f[s] : s \in S}
  BY <1>1, <1>2, PlanChunks
<1>6. IsFiniteSet(UNION {f[s] : s \in S})
  BY <1>3, <1>4, FiniteUnion
<1>7. UNION {f[s] : s \in S} \subseteq ChunkType
  BY <1>3
<1> QED  BY <1>5, <1>6, <1>7

(* The next cursor of a session, and of the chunks that go out with it *)
LEMMA NextCursorSafe ==
    ASSUME NEW read, NEW fallback, NEW Q, NEW X, PlanReady(read, fallback, Q, X),
           baseline[source].at # 0, NEW s \in Sessions
    PROVE  /\ NextCursor(s, read, fallback) \in CursorType
           /\ CursorSafe(NextCursor(s, read, fallback), source, s,
                         Q \cup Plan(read, fallback).chunks, X)
<1>1. PICK P : P = Plan(read, fallback).chunks
  OBVIOUS
<1>2. PICK c : c = CursorOf(s, read, fallback)
  OBVIOUS
<1>3. /\ c \in CursorType /\ IsInjective(c.versions) /\ CursorSafe(c, source, s, Q, X)
      /\ PassedOver(s) => Of(source, s, Q \ X) = {}
  BY <1>2, FoundCursor
<1>4. /\ Q \cup P \subseteq ChunkType /\ IsFiniteSet(Q \cup P) /\ source \in Sources
      /\ Q \subseteq Q \cup P
  BY <1>1, PlanChunkType, FS_Union DEF PlanReady
<1>5. Of(source, s, P) = IF Queues(read, s) THEN Chunks(s, c, read[s]) ELSE {}
  BY <1>1, <1>2, PlanChunks
<1>6. CASE s \notin DOMAIN read \/ Unchanged(s, read[s])
  <2>1. NextCursor(s, read, fallback) = c /\ Of(source, s, P) = {}
    BY <1>2, <1>5, <1>6 DEF NextCursor, Queues
  <2>2. Of(source, s, (Q \cup P) \ X) \subseteq Of(source, s, Q \ X)
    BY <2>1 DEF Of
  <2>3. CursorSafe(c, source, s, Q \cup P, X)
    BY <1>3, <1>4, <2>2, CursorMonotone
  <2> QED  BY <1>1, <1>3, <2>1, <2>3
<1>7. CASE ~(s \notin DOMAIN read \/ Unchanged(s, read[s])) /\ PassedOver(s)
  <2>1. NextCursor(s, read, fallback) = Seeded(c, read[s]) /\ Of(source, s, P) = {}
    BY <1>2, <1>5, <1>7 DEF NextCursor, Queues
  <2>2. Of(source, s, (Q \cup P) \ X) = {}
    BY <1>3, <1>7, <2>1 DEF Of
  <2>3. read[s] \in Seq(Message) /\ IsInjective(read[s])
    BY <1>7, ReadMessages DEF PlanReady
  <2>4. Seeded(c, read[s]) \in CursorType /\ IsInjective(Seeded(c, read[s]).versions)
    BY <1>3, <2>3, SeededType
  <2> QED  BY <1>1, <2>1, <2>2, <2>4, NothingToKnow
<1>8. CASE ~(s \notin DOMAIN read \/ Unchanged(s, read[s])) /\ ~PassedOver(s)
  <2>1. /\ NextCursor(s, read, fallback) = Advanced(c, s, read[s])
        /\ Of(source, s, P) = Chunks(s, c, read[s])
    BY <1>2, <1>5, <1>8 DEF NextCursor, Queues
  <2>2. read[s] \in Seq(Message) /\ IsInjective(read[s])
    BY <1>8, ReadMessages DEF PlanReady
  <2>3. Advanced(c, s, read[s]) \in CursorType
    <3>1. Unseen(c, read[s]) \in Seq(Message)
      BY <1>3, <2>2, UnseenFacts
    <3>2. PICK ps : ps = Split(Unseen(c, read[s])) /\ ps \in Seq(Parts)
      BY <3>1, SplitParts
    <3> QED  BY <1>3, <1>4, <2>2, <3>2, AdvancedType
  <2>4. CursorSafe(Advanced(c, s, read[s]), source, s, Q \cup P, X)
    BY <1>3, <1>4, <2>1, <2>2, AdvancedSafe
  <2> QED  BY <1>1, <2>1, <2>3, <2>4
<1> QED  BY <1>6, <1>7, <1>8

(* The next baseline *)
LEMMA PlanBase ==
    ASSUME NEW read, NEW fallback, NEW Q, NEW X, PlanReady(read, fallback, Q, X)
    PROVE  /\ BaselineInv(Plan(read, fallback).base)
           /\ Settled(Plan(read, fallback).base, source, Q \cup Plan(read, fallback).chunks, X)
<1>1. PICK P : P = Plan(read, fallback).chunks
  OBVIOUS
<1>2. PICK b : b = baseline[source]
  OBVIOUS
<1>3. /\ IsBaseline(b) /\ b = [at |-> b.at, sessions |-> b.sessions]
      /\ SessionsOf(b) \subseteq Sessions /\ DOMAIN read \subseteq Sessions
      /\ Listed \subseteq Sessions /\ Q \subseteq ChunkType
  BY <1>2 DEF PlanReady, BaselineInv, IsBaseline, ReadType
<1>4. CASE b.at = 0
  <2>1. PICK S : S = Listed \cup DOMAIN read
    OBVIOUS
  <2>2. PICK f : f = [s \in S |-> IF s \in DOMAIN read THEN Seeded(NoCursor, read[s]) ELSE NoCursor]
    OBVIOUS
  <2>3. Plan(read, fallback).base = [at |-> observed, sessions |-> f] /\ P = {}
    BY <1>1, <1>2, <1>4, <2>1, <2>2 DEF Plan, Initialized
  <2>4. ASSUME NEW s \in S
        PROVE  f[s] \in CursorType /\ IsInjective(f[s].versions)
    <3>1. CASE s \in DOMAIN read
      <4>1. read[s] \in Seq(Message) /\ IsInjective(read[s])
        BY <3>1, ReadMessages DEF PlanReady
      <4>2. f[s] = Seeded(NoCursor, read[s])
        BY <2>2, <3>1
      <4> QED  BY <4>1, <4>2, NoCursorType, SeededType
    <3>2. CASE s \notin DOMAIN read
      BY <2>2, <3>2, NoCursorType
    <3> QED  BY <3>1, <3>2
  <2>5. f \in [S -> CursorType] /\ S \subseteq Sessions
    BY <1>3, <2>1, <2>2, <2>4
  <2>6. PICK n : n = observed /\ n \in 0 .. now /\ n # 0
    BY DEF PlanReady
  <2>7. BaselineInv([at |-> n, sessions |-> f])
    BY <2>5, <2>6, CursorsBaseline
  <2>8. ASSUME NEW s \in Sessions
        PROVE  CursorSafe(CursorIn([at |-> n, sessions |-> f], s), source, s, Q \cup P, X)
    <3>1. Of(source, s, Q \ X) = {}
      <4>1. s \notin SessionsOf(b)
        BY <1>2, <1>4 DEF PlanReady, BaselineInv
      <4>2. CursorSafe(NoCursor, source, s, Q, X) /\ NoCursor.sequence = 0
        BY <1>2, <4>1 DEF PlanReady, Settled, CursorIn, NoCursor
      <4> QED  BY <1>3, <4>2, NothingCounted
    <3>2. Of(source, s, (Q \cup P) \ X) = {}
      BY <2>3, <3>1
    <3>3. CursorIn([at |-> n, sessions |-> f], s) = IF s \in S THEN f[s] ELSE NoCursor
      BY <2>2 DEF CursorIn, SessionsOf
    <3>4. IsInjective(CursorIn([at |-> n, sessions |-> f], s).versions)
      BY <2>4, <3>3, NoCursorType
    <3> QED  BY <3>2, <3>4, NothingToKnow
  <2> QED  BY <1>1, <2>3, <2>6, <2>7, <2>8 DEF Settled
<1>5. CASE b.at # 0
  <2>1. PICK S : S = DOMAIN b.sessions \cup Listed \cup DOMAIN read
    OBVIOUS
  <2>2. PICK f : f = [s \in S |-> NextCursor(s, read, fallback)]
    OBVIOUS
  <2>3. PICK n : n = b.at /\ n \in 0 .. now /\ n # 0
    BY <1>3, <1>5 DEF IsBaseline
  <2>4. Plan(read, fallback).base = [at |-> n, sessions |-> f]
    <3>1. Plan(read, fallback).base = [b EXCEPT !.sessions = f]
      BY <1>2, <1>5, <2>1, <2>2 DEF Plan
    <3> QED  BY <1>3, <2>3, <3>1
  <2>5. S \subseteq Sessions
    BY <1>3, <2>1 DEF SessionsOf
  <2>6. f \in [S -> CursorType]
    BY <1>2, <1>5, <2>2, <2>5, NextCursorSafe
  <2>7. BaselineInv([at |-> n, sessions |-> f])
    BY <2>3, <2>5, <2>6, CursorsBaseline
  <2>8. ASSUME NEW s \in Sessions
        PROVE  CursorSafe(CursorIn([at |-> n, sessions |-> f], s), source, s, Q \cup P, X)
    <3>1. CASE s \in S
      <4>1. CursorIn([at |-> n, sessions |-> f], s) = NextCursor(s, read, fallback)
        BY <2>2, <3>1 DEF CursorIn, SessionsOf
      <4> QED  BY <1>1, <1>2, <1>5, <4>1, NextCursorSafe
    <3>2. CASE s \notin S
      <4>1. CursorIn([at |-> n, sessions |-> f], s) = NoCursor
        BY <2>2, <3>2 DEF CursorIn, SessionsOf
      <4>2. s \notin SessionsOf(b) /\ ~ Queues(read, s)
        BY <2>1, <3>2 DEF SessionsOf, Queues
      <4>3. CursorSafe(NoCursor, source, s, Q, X) /\ NoCursor.sequence = 0
        BY <1>2, <4>2 DEF PlanReady, Settled, CursorIn, NoCursor
      <4>4. Of(source, s, Q \ X) = {}
        BY <1>3, <4>3, NothingCounted
      <4>5. Of(source, s, P) = {}
        BY <1>1, <4>2, PlanChunks
      <4>6. Of(source, s, (Q \cup P) \ X) = {}
        BY <4>4, <4>5 DEF Of
      <4> QED  BY <4>1, <4>6, NoCursorType, NothingToKnow
    <3> QED  BY <3>1, <3>2
  <2> QED  BY <1>1, <2>4, <2>7, <2>8 DEF Settled
<1> QED  BY <1>4, <1>5

(* What the chunks of a plan have in common with others *)
LEMMA PlanOnce ==
    ASSUME NEW read, NEW fallback, NEW Q, NEW X, PlanReady(read, fallback, Q, X)
    PROVE  Once(Q \cup Plan(read, fallback).chunks, X)
<1>1. PICK P : P = Plan(read, fallback).chunks
  OBVIOUS
<1>2. /\ Q \cup P \subseteq ChunkType /\ IsFiniteSet(Q \cup P) /\ source \in Sources
      /\ Q \subseteq Q \cup P /\ \A q \in P : q.source = source
  BY <1>1, PlanChunkType, PlanChunks, FS_Union DEF PlanReady
<1>3. ASSUME NEW e \in P
      PROVE  /\ e.sid \in Sessions
             /\ \A q \in Of(source, e.sid, Q \ X) :
                   /\ q.sequence < e.sequence
                   /\ ToSet(q.msgs) \cap ToSet(e.msgs) # {} =>
                         Cardinality(SentIn(Q \cup P, q, e.sequence - 1)) > MaxVersions
             /\ \A q \in Of(source, e.sid, P) : q # e =>
                   /\ q.sequence # e.sequence
                   /\ ToSet(q.msgs) \cap ToSet(e.msgs) = {}
  <2>1. PICK s : s = e.sid /\ s \in Sessions
    BY <1>2 DEF ChunkType
  <2>2. e \in Of(source, s, P)
    BY <1>2, <2>1 DEF Of
  <2>3. Queues(read, s) /\ Of(source, s, P) = Chunks(s, CursorOf(s, read, fallback), read[s])
    BY <1>1, <2>2, PlanChunks
  <2>4. read[s] \in Seq(Message) /\ IsInjective(read[s])
    BY <2>3, ReadMessages DEF PlanReady, Queues
  <2>5. PICK c : c = CursorOf(s, read, fallback)
    OBVIOUS
  <2>6. c \in CursorType /\ CursorSafe(c, source, s, Q, X)
    BY <2>1, <2>5, FoundCursor
  <2>7. Of(source, s, P) = Chunks(s, c, read[s])
    BY <2>3, <2>5
  <2>8. /\ \A q \in Of(source, s, Q \ X) :
             /\ q.sequence < e.sequence
             /\ ToSet(q.msgs) \cap ToSet(e.msgs) # {} =>
                   Cardinality(SentIn(Q \cup P, q, e.sequence - 1)) > MaxVersions
        /\ \A q \in Of(source, s, P) : q # e =>
             /\ q.sequence # e.sequence
             /\ ToSet(q.msgs) \cap ToSet(e.msgs) = {}
    BY <1>2, <2>1, <2>2, <2>4, <2>6, <2>7, ChunksNew
  <2> QED  BY <2>1, <2>8
<1>4. ASSUME NEW c \in (Q \cup P) \ X, NEW d \in (Q \cup P) \ X,
             c # d, c.source = d.source, c.sid = d.sid
      PROVE  /\ c.sequence # d.sequence
             /\ c.sequence < d.sequence /\ ToSet(c.msgs) \cap ToSet(d.msgs) # {} =>
                     Cardinality(SentIn(Q \cup P, c, d.sequence - 1)) > MaxVersions
  <2>1. c \in ChunkType /\ d \in ChunkType /\ c.sequence \in Nat /\ d.sequence \in Nat
    BY <1>2 DEF ChunkType
  <2>2. CASE d \in P /\ c \in P
    <3>1. c \in Of(source, d.sid, P)
      BY <1>2, <1>4, <2>2 DEF Of
    <3> QED  BY <1>3, <1>4, <2>2, <3>1
  <2>3. CASE d \in P /\ c \notin P
    <3>1. c \in Of(source, d.sid, Q \ X)
      BY <1>2, <1>4, <2>3 DEF Of
    <3>2. /\ c.sequence < d.sequence
          /\ ToSet(c.msgs) \cap ToSet(d.msgs) # {} =>
                Cardinality(SentIn(Q \cup P, c, d.sequence - 1)) > MaxVersions
      BY <1>3, <2>3, <3>1
    <3> QED  BY <2>1, <3>2
  <2>4. CASE d \notin P /\ c \in P
    <3>1. d \in Of(source, c.sid, Q \ X)
      BY <1>2, <1>4, <2>4 DEF Of
    <3>2. d.sequence < c.sequence
      BY <1>3, <2>4, <3>1
    <3> QED  BY <2>1, <3>2
  <2>5. CASE d \notin P /\ c \notin P
    <3>1. c \in Q \ X /\ d \in Q \ X
      BY <2>5
    <3>2. /\ c.sequence # d.sequence
          /\ c.sequence < d.sequence /\ ToSet(c.msgs) \cap ToSet(d.msgs) # {} =>
                  Cardinality(SentIn(Q, c, d.sequence - 1)) > MaxVersions
      BY <1>4, <3>1 DEF PlanReady, Once
    <3>3. PICK n \in Int : n = d.sequence - 1
      BY <2>1
    <3>4. PICK A : A = Q \cup P
      OBVIOUS
    <3>5. Cardinality(SentIn(Q, c, n)) > MaxVersions => Cardinality(SentIn(A, c, n)) > MaxVersions
      <4>1. Q \subseteq A /\ A \subseteq ChunkType /\ IsFiniteSet(A)
        BY <1>2, <3>4
      <4>2. n <= n /\ c.sequence \in Nat
        BY <2>1, <3>3
      <4>3. PICK m \in Int : m = n
        OBVIOUS
      <4>4. m <= n
        BY <4>2, <4>3
      <4>5. Cardinality(SentIn(Q, c, m)) > MaxVersions => Cardinality(SentIn(A, c, n)) > MaxVersions
        BY <4>1, <4>2, <4>4, SentMore
      <4> QED  BY <4>3, <4>5
    <3> QED  BY <3>2, <3>3, <3>4, <3>5
  <2> QED  BY <2>2, <2>3, <2>4, <2>5
<1> QED  BY <1>1, <1>4 DEF Once

-----------------------------------------------------------------------------
(* Discovery *)

(* A directory that was read, or is to be read, is there. *)
DirsThere ==
    /\ dirTime[Root] # 0
    /\ \A d \in DOMAIN dirSeen : dirTime[d] # 0
    /\ \A d \in scans : dirTime[d] # 0

(* The world stays, the clock goes on, and no directory goes away. *)
TimePasses ==
    /\ world' = world /\ now \in Nat /\ now' \in Nat /\ now <= now'
    /\ \A d \in Directories : dirTime[d] # 0 => dirTime'[d] # 0

(* The sessions directory and its days are directories.                    *)
LEMMA RootIsDirectory == Root \in Directories /\ Days \subseteq Directories
<1> QED  BY DEF Directories

(* Each path is in a directory.                                            *)
LEMMA PathsHaveDays == \A p \in Paths : DirOf[p] \in Directories
<1> QED  BY DiscoveryAssumption DEF Directories, Days

(* Messages are the same in the same world.                                *)
LEMMA SameMessages ==
    ASSUME world' = world
    PROVE  Message' = Message /\ Rollout' = Rollout
<1>1. Message' = Message
  BY DEF Message, World
<1> QED  BY <1>1 DEF Rollout

(* The clock is a number.                                                  *)
LEMMA ClockTypes ==
    ASSUME DiscoveryTypeOK
    PROVE  now \in Nat /\ now >= 1 /\ World.time \in Nat
<1>1. World.time \in Nat
  BY DiscoveryAssumption DEF DiscoveryTypeOK, World
<1> QED  BY <1>1 DEF DiscoveryTypeOK

(* A file that is written is a rollout.                                    *)
LEMMA WriteType ==
    ASSUME DiscoveryTypeOK, NEW p \in Paths, NEW file \in Rollout, Write(p, file)
    PROVE  /\ DOMAIN files' = DOMAIN files \cup {p}
           /\ files' \in [DOMAIN files' -> Rollout']
           /\ world' = world /\ now' = now + 1 /\ now' \in 1 .. World.time
           /\ now' \in Nat /\ now \in Nat /\ now' # 0
           /\ UNCHANGED <<cache, dirSeen>>
<1>1. now \in Nat /\ now >= 1 /\ World.time \in Nat
  BY ClockTypes
<1>2. /\ world' = world /\ now' = now + 1 /\ now < World.time /\ UNCHANGED <<cache, dirSeen>>
      /\ files' = Put(files, p, [file EXCEPT !.mtime = now'])
  BY DEF Write, cacheVars
<1>3. now' \in Nat /\ now' \in 1 .. World.time /\ now' # 0
  BY <1>1, <1>2
<1>4. PICK f : f = [file EXCEPT !.mtime = now']
  OBVIOUS
<1>5. f \in Rollout
  BY <1>3, <1>4 DEF Rollout
<1>6. files' = [x \in DOMAIN files \cup {p} |-> IF x = p THEN f ELSE files[x]]
  BY <1>2, <1>4 DEF Put
<1>7. DOMAIN files' = DOMAIN files \cup {p}
  BY <1>6
<1>8. \A x \in DOMAIN files : files[x] \in Rollout
  BY DEF DiscoveryTypeOK
<1>9. files' \in [DOMAIN files \cup {p} -> Rollout]
  BY <1>5, <1>6, <1>8
<1> QED  BY <1>1, <1>2, <1>3, <1>7, <1>9, SameMessages

(* What a step of Codex in the directories keeps *)
LEMMA NamedType ==
    ASSUME DiscoveryTypeOK, NEW s \in Sessions, NEW p \in Paths, NEW file \in Rollout,
           WriteNew(s, p, file)
    PROVE  DiscoveryTypeOK' /\ TimePasses /\ UNCHANGED <<cache, dirSeen>>
<1>1. /\ Write(p, file) /\ named' = named \cup {p} /\ home' = Put(home, s, p)
      /\ dirTime' = [d \in Directories |->
                       IF d = DirOf[p] \/ (d = Root /\ dirTime[DirOf[p]] = 0)
                       THEN now' ELSE dirTime[d]]
  BY DEF WriteNew
<1>2. /\ DOMAIN files' = DOMAIN files \cup {p}
      /\ files' \in [DOMAIN files' -> Rollout']
      /\ world' = world /\ now' = now + 1 /\ now' \in 1 .. World.time
      /\ now' \in Nat /\ now \in Nat /\ now' # 0
      /\ UNCHANGED <<cache, dirSeen>>
  BY <1>1, WriteType
<1>3. /\ world \in DOMAIN Worlds /\ named \subseteq Paths /\ DOMAIN files \subseteq named
      /\ dirTime \in [Directories -> 0 .. now]
      /\ DOMAIN home \subseteq Sessions /\ home \in [DOMAIN home -> Paths]
      /\ DOMAIN cache \subseteq Paths /\ cache \in [DOMAIN cache -> CacheEntry]
      /\ DOMAIN dirSeen \subseteq Directories
      /\ dirSeen \in [DOMAIN dirSeen -> 1 .. now]
  BY DEF DiscoveryTypeOK
<1>4. World' = World
  BY <1>2 DEF World
<1>5. \A d \in Directories : dirTime'[d] \in 0 .. now' /\ (dirTime[d] # 0 => dirTime'[d] # 0)
  <2>1. \A d \in Directories : dirTime[d] \in 0 .. now
    BY <1>3
  <2>2. \A d \in Directories : dirTime'[d] = now' \/ dirTime'[d] = dirTime[d]
    BY <1>1
  <2> QED  BY <1>2, <2>1, <2>2
<1>6. dirTime' \in [Directories -> 0 .. now']
  <2>1. dirTime' = [d \in Directories |-> dirTime'[d]]
    BY <1>1
  <2> QED  BY <1>5, <2>1
<1>7. DOMAIN home' \subseteq Sessions /\ home' \in [DOMAIN home' -> Paths]
  <2>1. home' = [x \in DOMAIN home \cup {s} |-> IF x = s THEN p ELSE home[x]]
    BY <1>1 DEF Put
  <2> QED  BY <1>3, <2>1
<1>8. dirSeen' \in [DOMAIN dirSeen' -> 1 .. now']
  <2>1. 1 .. now \subseteq 1 .. now'
    BY <1>2
  <2>2. \A d \in DOMAIN dirSeen : dirSeen[d] \in 1 .. now'
    BY <1>3, <2>1
  <2>3. dirSeen \in [DOMAIN dirSeen -> 1 .. now']
    BY <1>3, <2>2
  <2> QED  BY <1>2, <2>3
<1>9. named' \subseteq Paths /\ DOMAIN files' \subseteq named'
  BY <1>1, <1>2, <1>3
<1>10. cache' \in [DOMAIN cache' -> CacheEntry'] /\ DOMAIN cache' \subseteq Paths
  BY <1>2, <1>3 DEF CacheEntry
<1>11. DiscoveryTypeOK'
  BY <1>2, <1>3, <1>4, <1>6, <1>7, <1>8, <1>9, <1>10 DEF DiscoveryTypeOK
<1>12. TimePasses
  BY <1>2, <1>5 DEF TimePasses
<1> QED  BY <1>2, <1>11, <1>12

(* The same for one that does not add to them *)
LEMMA WrittenType ==
    ASSUME DiscoveryTypeOK, world' = world, now' = now + 1, now' \in 1 .. World.time,
           UNCHANGED <<named, home, cache, dirSeen>>,
           DOMAIN files' \subseteq named, files' \in [DOMAIN files' -> Rollout],
           dirTime' \in [Directories -> 0 .. now'],
           \A d \in Directories : dirTime'[d] \in {now', dirTime[d]}
    PROVE  DiscoveryTypeOK' /\ TimePasses /\ UNCHANGED <<cache, dirSeen>>
<1>1. now \in Nat /\ now' \in Nat /\ now <= now' /\ now' # 0
  BY ClockTypes
<1>2. /\ world \in DOMAIN Worlds /\ named \subseteq Paths
      /\ DOMAIN home \subseteq Sessions /\ home \in [DOMAIN home -> Paths]
      /\ DOMAIN cache \subseteq Paths /\ cache \in [DOMAIN cache -> CacheEntry]
      /\ DOMAIN dirSeen \subseteq Directories
      /\ dirSeen \in [DOMAIN dirSeen -> 1 .. now]
  BY DEF DiscoveryTypeOK
<1>3. World' = World /\ Rollout' = Rollout
  BY SameMessages DEF World
<1>4. dirSeen' \in [DOMAIN dirSeen' -> 1 .. now']
  <2>1. 1 .. now \subseteq 1 .. now'
    BY <1>1
  <2>2. \A d \in DOMAIN dirSeen : dirSeen[d] \in 1 .. now'
    BY <1>2, <2>1
  <2>3. dirSeen \in [DOMAIN dirSeen -> 1 .. now']
    BY <1>2, <2>2
  <2> QED  BY <2>3
<1>5. cache' \in [DOMAIN cache' -> CacheEntry']
  BY <1>2 DEF CacheEntry
<1>6. DiscoveryTypeOK'
  BY <1>2, <1>3, <1>4, <1>5 DEF DiscoveryTypeOK
<1>7. TimePasses
  BY <1>1 DEF TimePasses
<1> QED  BY <1>6, <1>7

(* No step of Codex in the directories disturbs the types.                 *)
LEMMA CodexWritesType ==
    ASSUME DiscoveryTypeOK, CodexWrites
    PROVE  DiscoveryTypeOK' /\ TimePasses /\ UNCHANGED <<cache, dirSeen>>
<1>1. /\ named \subseteq Paths /\ DOMAIN files \subseteq named
      /\ files \in [DOMAIN files -> Rollout]
      /\ dirTime \in [Directories -> 0 .. now]
      /\ home \in [DOMAIN home -> Paths] /\ DOMAIN home \subseteq Sessions
      /\ world \in DOMAIN Worlds
  BY DEF DiscoveryTypeOK
<1>2. now \in Nat /\ now >= 1 /\ World.time \in Nat
  BY ClockTypes
<1>3. World.paths \subseteq Paths /\ World.lengths \subseteq Nat \ {0}
  BY <1>1, DiscoveryAssumption DEF World
<1>4. ASSUME NEW s \in Sessions, NEW p \in World.paths, NEW whole \in BOOLEAN,
             Begin(s, p, whole)
      PROVE  DiscoveryTypeOK' /\ TimePasses /\ UNCHANGED <<cache, dirSeen>>
  <2>1. PICK e : e = << >>
    OBVIOUS
  <2>2. PICK file : file = [whole |-> whole, records |-> e, mtime |-> 0]
    OBVIOUS
  <2>3. e \in Seq(Message)
    BY <2>1
  <2>4. file \in Rollout
    BY <2>2, <2>3 DEF Rollout
  <2>5. WriteNew(s, p, file)
    BY <1>4, <2>1, <2>2 DEF Begin
  <2> QED  BY <1>3, <2>4, <2>5, NamedType
<1>5. ASSUME NEW p \in Paths, NEW file \in Rollout, Write(p, file), p \in DOMAIN files,
             UNCHANGED <<named, dirTime, home>>
      PROVE  DiscoveryTypeOK' /\ TimePasses /\ UNCHANGED <<cache, dirSeen>>
  <2>1. /\ DOMAIN files' = DOMAIN files \cup {p}
        /\ files' \in [DOMAIN files' -> Rollout']
        /\ world' = world /\ now' = now + 1 /\ now' \in 1 .. World.time
        /\ UNCHANGED <<cache, dirSeen>>
    BY <1>5, WriteType
  <2>2. Rollout' = Rollout
    BY <2>1, SameMessages
  <2>3. dirTime' \in [Directories -> 0 .. now']
    <3>1. \A d \in Directories : dirTime[d] \in 0 .. now'
      BY <1>1, <1>2, <2>1
    <3> QED  BY <1>1, <1>5, <3>1
  <2>4. DOMAIN files' \subseteq named
    BY <1>1, <1>5, <2>1
  <2> QED  BY <1>5, <2>1, <2>2, <2>3, <2>4, WrittenType
<1>6. ASSUME NEW p \in Paths, WriteHeader(p)
      PROVE  DiscoveryTypeOK' /\ TimePasses /\ UNCHANGED <<cache, dirSeen>>
  <2>1. PICK file : file = [files[p] EXCEPT !.whole = TRUE]
    OBVIOUS
  <2>2. p \in DOMAIN files /\ Write(p, file) /\ UNCHANGED <<named, dirTime, home>>
    BY <1>6, <2>1 DEF WriteHeader
  <2>3. file \in Rollout
    <3>1. files[p] \in Rollout
      BY <1>1, <2>2
    <3> QED  BY <2>1, <3>1 DEF Rollout
  <2> QED  BY <1>5, <2>2, <2>3
<1>7. ASSUME NEW s \in Sessions, NEW m \in Nat, NEW len \in World.lengths, IsOpen(s),
             AddRecord(s, m, len)
      PROVE  DiscoveryTypeOK' /\ TimePasses /\ UNCHANGED <<cache, dirSeen>>
  <2>1. PICK r : r = [m |-> m, at |-> now + 1, len |-> len]
    OBVIOUS
  <2>2. r \in Message
    BY <1>2, <2>1 DEF Message
  <2>3. PICK p : p = home[s] /\ p \in DOMAIN files /\ p \in Paths
    BY <1>1, <1>7 DEF IsOpen
  <2>4. files[p] \in Rollout /\ files[p].records \in Seq(Message)
    BY <1>1, <2>3 DEF Rollout
  <2>5. PICK t : t = Append(files[p].records, r) /\ t \in Seq(Message)
    <3>1. PICK rs \in Seq(Message) : rs = files[p].records
      BY <2>4
    <3>2. Append(rs, r) \in Seq(Message)
      BY <2>2
    <3> QED  BY <3>1, <3>2
  <2>6. PICK file : file = [files[p] EXCEPT !.records = t]
    OBVIOUS
  <2>7. file \in Rollout
    BY <2>4, <2>5, <2>6 DEF Rollout
  <2>8. Write(p, file) /\ UNCHANGED <<named, dirTime, home>>
    BY <1>7, <2>1, <2>3, <2>5, <2>6 DEF AddRecord
  <2> QED  BY <1>5, <2>3, <2>7, <2>8
<1>8. ASSUME NEW s \in Sessions, NEW len \in World.lengths, Say(s, len)
      PROVE  DiscoveryTypeOK' /\ TimePasses /\ UNCHANGED <<cache, dirSeen>>
  <2>1. IsOpen(s) /\ AddRecord(s, now + 1, len) /\ now + 1 \in Nat
    BY <1>2, <1>8 DEF Say
  <2> QED  BY <1>7, <2>1
<1>9. ASSUME NEW s \in Sessions, NEW len \in World.lengths, Revise(s, len)
      PROVE  DiscoveryTypeOK' /\ TimePasses /\ UNCHANGED <<cache, dirSeen>>
  <2>1. PICK t : t = files[home[s]].records
    OBVIOUS
  <2>2. IsOpen(s) /\ t # << >> /\ AddRecord(s, Last(t).m, len)
    BY <1>9, <2>1 DEF Revise
  <2>3. t \in Seq(Message)
    BY <1>1, <2>1, <2>2 DEF IsOpen, Rollout
  <2>4. Last(t) \in Message
    BY <2>2, <2>3 DEF Last
  <2>5. Last(t).m \in Nat
    BY <2>4 DEF Message
  <2> QED  BY <1>7, <2>2, <2>5
<1>10. ASSUME NEW s \in Sessions, NEW p \in World.paths, Resume(s, p)
       PROVE  DiscoveryTypeOK' /\ TimePasses /\ UNCHANGED <<cache, dirSeen>>
  <2>1. IsOpen(s) /\ WriteNew(s, p, files[home[s]])
    BY <1>10 DEF Resume
  <2>2. files[home[s]] \in Rollout
    BY <1>1, <2>1 DEF IsOpen
  <2> QED  BY <1>3, <2>1, <2>2, NamedType
<1>11. ASSUME NEW p \in Paths, Archive(p)
       PROVE  DiscoveryTypeOK' /\ TimePasses /\ UNCHANGED <<cache, dirSeen>>
  <2>1. /\ p \in DOMAIN files /\ now < World.time /\ now' = now + 1
        /\ files' = [q \in DOMAIN files \ {p} |-> files[q]]
        /\ dirTime' = [dirTime EXCEPT ![DirOf[p]] = now']
        /\ UNCHANGED <<world, named, home, cache, dirSeen>>
    BY <1>11 DEF Archive, cacheVars
  <2>2. now' \in 1 .. World.time /\ now' \in Nat
    BY <1>2, <2>1
  <2>3. DOMAIN files' \subseteq named /\ files' \in [DOMAIN files' -> Rollout]
    BY <1>1, <2>1
  <2>4. dirTime' \in [Directories -> 0 .. now']
    <3>1. \A d \in Directories : dirTime[d] \in 0 .. now'
      BY <1>1, <1>2, <2>1
    <3>2. now' \in 0 .. now'
      BY <2>2
    <3> QED  BY <1>1, <2>1, <3>1, <3>2
  <2>5. \A d \in Directories : dirTime'[d] \in {now', dirTime[d]}
    BY <1>1, <2>1
  <2> QED  BY <2>1, <2>2, <2>3, <2>4, <2>5, WrittenType
<1> QED  BY <1>4, <1>6, <1>8, <1>9, <1>10, <1>11 DEF CodexWrites

-----------------------------------------------------------------------------
(* The types, what is kept between steps included *)
Readings ==
    {f \in UNION {[S -> Seq(Message)] : S \in SUBSET Sessions} :
        \A s \in DOMAIN f : UniqueIDs(f[s])}

Baselines ==
    {b \in [at : 0 .. now, sessions : UNION {[S -> CursorType] : S \in SUBSET Sessions}] :
        b.at = 0 => SessionsOf(b) = {}}

SendType ==
    /\ DiscoveryTypeOK /\ DirsThere
    /\ database \in Sources /\ source \in Sources
    /\ rows \in [Sources -> SUBSET Sessions]
    /\ baseline \in [Sources -> Baselines]
    /\ plan.chunks \subseteq ChunkType /\ plan.base \in Baselines
    /\ pc \in {"idle", "discover", "scan", "append", "commit"}
    /\ scans \subseteq Directories
    /\ torn \subseteq queued /\ queued \subseteq ChunkType
    /\ IsFiniteSet(queued) /\ IsFiniteSet(plan.chunks)
    /\ observed \in 0 .. now /\ (pc \in {"discover", "scan"} => observed # 0)
    /\ payloads \in Readings

(* The chunks that the baselines need not account for: their numbers may be   *)
(* given again.                                                            *)
Doubtful == IF pc = "commit" THEN torn \cup plan.chunks ELSE torn

PlanInv ==
    pc \in {"append", "commit"} =>
        /\ Settled(plan.base, source, queued \cup plan.chunks, torn)
        /\ Once(queued \cup plan.chunks, torn)
        /\ \A q \in plan.chunks : q.source = source
        /\ pc = "commit" => plan.chunks \subseteq queued

SendInv ==
    /\ SendType
    /\ \A d \in Sources : Settled(baseline[d], d, queued, Doubtful)
    /\ Once(queued, torn)
    /\ PlanInv

(* A reading has messages of some sessions, of different IDs.              *)
LEMMA ReadingsType == \A f \in Readings : ReadType(f)
<1> TAKE f \in Readings
<1>1. PICK S \in SUBSET Sessions : f \in [S -> Seq(Message)]
  BY DEF Readings
<1>2. \A s \in DOMAIN f : UniqueIDs(f[s])
  BY DEF Readings
<1> QED  BY <1>1, <1>2 DEF ReadType

(* Messages of some sessions, of different IDs, are a reading.             *)
LEMMA ReadingsMade ==
    ASSUME NEW S, S \subseteq Sessions, NEW f, f = [s \in S |-> f[s]],
           \A s \in S : f[s] \in Seq(Message) /\ UniqueIDs(f[s])
    PROVE  f \in Readings
<1>1. f \in [S -> Seq(Message)] /\ DOMAIN f = S
  OBVIOUS
<1>2. f \in UNION {[T -> Seq(Message)] : T \in SUBSET Sessions}
  BY <1>1
<1> QED  BY <1>1, <1>2 DEF Readings

(* Baselines is the set of what BaselineInv describes.                     *)
LEMMA BaselinesInv == \A b : b \in Baselines <=> BaselineInv(b)
<1> TAKE b
<1>1. ASSUME b \in Baselines
      PROVE  BaselineInv(b)
  <2>1. /\ b \in [at : 0 .. now, sessions : UNION {[S -> CursorType] : S \in SUBSET Sessions}]
        /\ b.at = 0 => SessionsOf(b) = {}
    BY <1>1 DEF Baselines
  <2>2. b = [at |-> b.at, sessions |-> b.sessions] /\ b.at \in 0 .. now
    BY <2>1
  <2>3. PICK S \in SUBSET Sessions : b.sessions \in [S -> CursorType]
    BY <2>1
  <2>4. SessionsOf(b) = S /\ \A s \in S : b.sessions[s] \in CursorType
    BY <2>3 DEF SessionsOf
  <2>5. \A s \in S : b.sessions[s] \in Cursor
    BY <2>4 DEF CursorType
  <2>6. b.sessions \in [S -> Cursor]
    BY <2>3, <2>5
  <2>7. IsBaseline(b)
    BY <2>2, <2>4, <2>6 DEF IsBaseline, CursorType
  <2> QED  BY <2>1, <2>2, <2>7 DEF BaselineInv
<1>2. ASSUME BaselineInv(b)
      PROVE  b \in Baselines
  <2>1. /\ b = [at |-> b.at, sessions |-> b.sessions] /\ b.at \in 0 .. now
        /\ b.at = 0 => SessionsOf(b) = {}
        /\ SessionsOf(b) \in SUBSET Sessions
        /\ b.sessions \in [SessionsOf(b) -> Cursor]
    BY <1>2 DEF BaselineInv, IsBaseline
  <2>2. \A s \in SessionsOf(b) : b.sessions[s] \in CursorType
    BY <1>2 DEF BaselineInv, IsBaseline, CursorType
  <2>3. b.sessions \in [SessionsOf(b) -> CursorType]
    BY <2>1, <2>2
  <2>4. b.sessions \in UNION {[S -> CursorType] : S \in SUBSET Sessions}
    BY <2>1, <2>3
  <2> QED  BY <2>1, <2>4 DEF Baselines
<1> QED  BY <1>1, <1>2

(* The empty plan is a plan.                                               *)
LEMMA NoPlanType ==
    ASSUME now \in Nat
    PROVE  NoBaseline \in Baselines /\ NoPlan.chunks \subseteq ChunkType /\ NoPlan.base \in Baselines
<1>1. PICK e : e = << >>
  OBVIOUS
<1>2. e \in [{} -> CursorType] /\ DOMAIN e = {}
  BY <1>1
<1>3. e \in UNION {[S -> CursorType] : S \in SUBSET Sessions}
  BY <1>2
<1>4. NoBaseline = [at |-> 0, sessions |-> e]
  BY <1>1 DEF NoBaseline
<1>5. 0 \in 0 .. now
  OBVIOUS
<1>6. NoBaseline \in Baselines
  BY <1>2, <1>3, <1>4, <1>5 DEF Baselines, SessionsOf
<1> QED  BY <1>6 DEF NoPlan

(* TypeOK follows. *)
LEMMA SendTypeOK == SendType => TypeOK
<1> SUFFICES ASSUME SendType PROVE TypeOK
  OBVIOUS
<1>1. \A d \in Sources : IsBaseline(baseline[d])
  <2>1. \A d \in Sources : baseline[d] \in Baselines
    BY DEF SendType
  <2> QED  BY <2>1, BaselinesInv DEF BaselineInv
<1>2. IsBaseline(plan.base) /\ plan.chunks \subseteq ChunkType
  <2>1. plan.base \in Baselines /\ plan.chunks \subseteq ChunkType
    BY DEF SendType
  <2> QED  BY <2>1, BaselinesInv DEF BaselineInv
<1>3. ASSUME NEW c \in queued \cup plan.chunks
      PROVE  /\ c.sid \in Sessions /\ c.source \in Sources
             /\ Len(c.msgs) \in 1 .. ChunkMessages
             /\ Len(c.msgs) = 1 \/ BytesOf(c.msgs) <= ChunkBytes
             /\ \A i \in DOMAIN c.msgs : Date(c.msgs[i]) = Date(c.msgs[1])
  <2>1. c \in ChunkType
    BY <1>2 DEF SendType
  <2>2. c.sid \in Sessions /\ c.source \in Sources /\ c.msgs \in Parts
    BY <2>1 DEF ChunkType
  <2> QED  BY <2>2 DEF Parts
<1> QED  BY <1>1, <1>2, <1>3 DEF SendType, TypeOK

(* As time passes types stay. *)
LEMMA TypesStay ==
    ASSUME TimePasses
    PROVE  /\ ChunkType' = ChunkType /\ CursorType' = CursorType /\ Readings' = Readings
           /\ Baselines \subseteq Baselines'
<1>1. Message' = Message
  BY SameMessages DEF TimePasses
<1>2. Parts' = Parts /\ Cursor' = Cursor /\ Readings' = Readings
  BY <1>1 DEF Parts, Cursor, Readings
<1>3. ChunkType' = ChunkType /\ CursorType' = CursorType
  BY <1>2 DEF ChunkType, CursorType
<1>4. 0 .. now \subseteq 0 .. now'
  BY DEF TimePasses
<1>5. Baselines \subseteq Baselines'
  BY <1>3, <1>4 DEF Baselines
<1> QED  BY <1>2, <1>3, <1>5

(* The messages read of a path have different IDs.                         *)
LEMMA MessagesType ==
    ASSUME DiscoveryTypeOK
    PROVE  \A p : Messages(p) \in Seq(Message) /\ UniqueIDs(Messages(p))
<1> TAKE p
<1>1. CASE p \in DOMAIN files
  <2>1. files[p].records \in Seq(Message)
    BY <1>1 DEF DiscoveryTypeOK, Rollout
  <2> QED  BY <1>1, <2>1, WindowIDs DEF Messages
<1>2. CASE p \notin DOMAIN files
  <2>1. PICK e : e = << >>
    OBVIOUS
  <2>2. Messages(p) = e /\ e \in Seq(Message) /\ DOMAIN e = {}
    BY <1>2, <2>1 DEF Messages
  <2> QED  BY <2>2 DEF UniqueIDs
<1> QED  BY <1>1, <1>2

-----------------------------------------------------------------------------
(* The invariant holds at first.                                           *)
LEMMA SendInit == Init => SendInv
<1> SUFFICES ASSUME Init PROVE SendInv
  OBVIOUS
<1> USE DEF Init, DiscoveryInit
<1>1. PICK e : e = << >>
  OBVIOUS
<1>2. e \in [{} -> {}] /\ DOMAIN e = {}
  BY <1>1
<1>3. /\ world \in DOMAIN Worlds /\ World.time \in Nat /\ 1 <= World.time
      /\ World.databases \subseteq Sources
  BY DiscoveryAssumption, TranscriptAssumption DEF World
<1>4. now = 1 /\ now \in Nat /\ now \in 1 .. World.time
  BY <1>3
<1>5. DiscoveryTypeOK
  <2>1. files = e /\ home = e /\ cache = e /\ dirSeen = e /\ named = {}
    BY <1>1
  <2>2. dirTime \in [Directories -> 0 .. now]
    BY <1>4
  <2>3. \A S : e \in [{} -> S]
    BY <1>2
  <2> QED  BY <1>2, <1>3, <1>4, <2>1, <2>2, <2>3 DEF DiscoveryTypeOK
<1>6. DirsThere
  <2>1. dirSeen = e /\ scans = {} /\ dirTime[Root] = 1
    BY <1>1, RootIsDirectory
  <2> QED  BY <1>2, <2>1 DEF DirsThere
<1>7. NoBaseline \in Baselines /\ NoPlan.chunks \subseteq ChunkType /\ NoPlan.base \in Baselines
  BY <1>4, NoPlanType
<1>8. payloads \in Readings
  <2>1. payloads = e
    BY <1>1
  <2>2. e \in [{} -> Seq(Message)]
    BY <1>2
  <2>3. e \in UNION {[S -> Seq(Message)] : S \in SUBSET Sessions}
    BY <2>2
  <2> QED  BY <1>2, <2>1, <2>3 DEF Readings
<1>9. SendType
  <2>1. IsFiniteSet({}) /\ NoPlan.chunks = {}
    BY FS_EmptySet DEF NoPlan
  <2>2. NoDatabase \in Sources
    BY DEF Sources
  <2>3. observed \in 0 .. now
    BY <1>4
  <2>4. database \in Sources
    BY <1>3
  <2> QED  BY <1>5, <1>6, <1>7, <1>8, <2>1, <2>2, <2>3, <2>4 DEF SendType
<1>10. \A d \in Sources : Settled(baseline[d], d, queued, Doubtful)
  <2>1. \A d, s : Of(d, s, queued \ Doubtful) = {}
    BY DEF Of
  <2>2. \A d \in Sources : \A s : CursorIn(baseline[d], s) = NoCursor
    <3>1. SessionsOf(NoBaseline) = {}
      BY DEF SessionsOf, NoBaseline
    <3> QED  BY <3>1 DEF CursorIn
  <2>3. IsInjective(NoCursor.versions)
    BY NoCursorType
  <2> QED  BY <2>1, <2>2, <2>3, NothingToKnow DEF Settled
<1>11. Once(queued, torn) /\ PlanInv
  BY DEF Once, PlanInv
<1> QED  BY <1>9, <1>10, <1>11 DEF SendInv

-----------------------------------------------------------------------------
(* What the state after a step must be, in terms of its parts *)
LEMMA InvNext ==
    ASSUME SendType',
           \A d \in Sources : Settled(baseline'[d], d, queued', Doubtful'),
           Once(queued', torn'),
           pc' \in {"append", "commit"} =>
               /\ Settled(plan'.base, source', queued' \cup plan'.chunks, torn')
               /\ Once(queued' \cup plan'.chunks, torn')
               /\ \A q \in plan'.chunks : q.source = source'
               /\ pc' = "commit" => plan'.chunks \subseteq queued'
    PROVE  SendInv'
<1>1. \A d \in Sources : Settled(baseline[d], d, queued, Doubtful)'
  BY DEF Settled, CursorSafe, CursorIn, Remembers, SentIn, Of, NoCursor, SessionsOf
<1>2. Once(queued, torn)'
  BY DEF Once, SentIn
<1>3. PlanInv'
  BY DEF PlanInv, Settled, Once, CursorSafe, CursorIn, Remembers, SentIn, Of, NoCursor,
         SessionsOf
<1> QED  BY <1>1, <1>2, <1>3 DEF SendInv, Sources

(* The types hold after a step when each variable has its type of before.  *)
LEMMA TypeNext ==
    ASSUME SendType, TimePasses, DiscoveryTypeOK', DirsThere',
           database' \in Sources, source' \in Sources, rows' \in [Sources -> SUBSET Sessions],
           baseline' \in [Sources -> Baselines],
           plan'.chunks \subseteq ChunkType, plan'.base \in Baselines,
           pc' \in {"idle", "discover", "scan", "append", "commit"}, scans' \subseteq Directories,
           torn' \subseteq queued', queued' \subseteq ChunkType,
           IsFiniteSet(queued'), IsFiniteSet(plan'.chunks),
           observed' \in 0 .. now, pc' \in {"discover", "scan"} => observed' # 0, payloads' \in Readings
    PROVE  SendType'
<1>1. /\ ChunkType' = ChunkType /\ Readings' = Readings /\ Baselines \subseteq Baselines'
      /\ Sources' = Sources /\ Directories' = Directories
  BY TypesStay DEF Sources, Directories, Days
<1>2. observed' \in 0 .. now'
  BY DEF TimePasses
<1>3. baseline' \in [Sources -> Baselines']
  BY <1>1
<1>4. plan'.chunks \subseteq ChunkType /\ plan'.base \in Baselines'
  BY <1>1
<1>5. DiscoveryTypeOK' /\ DirsThere' /\ (pc' \in {"discover", "scan"} => observed' # 0)
  OBVIOUS
<1> QED  BY <1>1, <1>2, <1>3, <1>4, <1>5 DEF SendType

(* A step that neither queues nor plans *)
LEMMA QuietNext ==
    ASSUME SendInv, SendType', UNCHANGED <<baseline, queued, torn>>,
           \/ UNCHANGED <<pc, plan, source>>
           \/ pc # "commit" /\ pc' \notin {"append", "commit"}
    PROVE  SendInv'
<1>1. Doubtful' = Doubtful
  BY DEF Doubtful
<1>2. \A d \in Sources : Settled(baseline'[d], d, queued', Doubtful')
  BY <1>1 DEF SendInv
<1>3. Once(queued', torn')
  BY DEF SendInv
<1>4. ASSUME pc' \in {"append", "commit"}
      PROVE  /\ Settled(plan'.base, source', queued' \cup plan'.chunks, torn')
             /\ Once(queued' \cup plan'.chunks, torn')
             /\ \A q \in plan'.chunks : q.source = source'
             /\ pc' = "commit" => plan'.chunks \subseteq queued'
  <2>1. UNCHANGED <<pc, plan, source>>
    BY <1>4
  <2> QED  BY <1>4, <2>1 DEF SendInv, PlanInv
<1> QED  BY <1>2, <1>3, <1>4, InvNext

-----------------------------------------------------------------------------
(* Codex *)
LEMMA CodexKeeps ==
    ASSUME SendInv, Codex
    PROVE  SendInv'
<1>1. SendType
  BY DEF SendInv
<1>2. /\ DiscoveryTypeOK /\ DirsThere /\ database \in Sources
      /\ rows \in [Sources -> SUBSET Sessions]
  BY <1>1 DEF SendType
<1>3. ASSUME DiscoveryTypeOK', TimePasses, UNCHANGED <<cache, dirSeen>>,
             UNCHANGED <<baseline, queued, torn, collection>>,
             database' \in Sources, rows' \in [Sources -> SUBSET Sessions]
      PROVE  SendInv'
  <2>1. UNCHANGED <<pc, source, observed, payloads, scans, plan>>
    BY <1>3 DEF collection
  <2>2. DirsThere'
    <3>1. scans \subseteq Directories /\ DOMAIN dirSeen \subseteq Directories
      BY <1>1, <1>2 DEF SendType, DiscoveryTypeOK
    <3> QED  BY <1>2, <1>3, <2>1, <3>1, RootIsDirectory DEF DirsThere, TimePasses
  <2>3. SendType'
    BY <1>1, <1>2, <1>3, <2>1, <2>2, TypeNext DEF SendType
  <2> QED  BY <1>3, <2>1, <2>3, QuietNext
<1>4. CASE CodexWrites /\ UNCHANGED <<stored, collection, mishaps>>
  <2>1. DiscoveryTypeOK' /\ TimePasses /\ UNCHANGED <<cache, dirSeen>>
    BY <1>2, <1>4, CodexWritesType
  <2>2. UNCHANGED <<database, rows, baseline, queued, torn, collection>>
    BY <1>4 DEF stored
  <2> QED  BY <1>2, <1>3, <2>1, <2>2
<1>5. ASSUME NEW s \in Sessions, List(s)
      PROVE  SendInv'
  <2>1. /\ UNCHANGED <<world, now, files, named, dirTime, home, cache, dirSeen>>
        /\ UNCHANGED <<database, baseline, queued, torn, collection>>
        /\ rows' = [rows EXCEPT ![database] = @ \cup {s}]
    BY <1>5 DEF List, codexVars, cacheVars
  <2>2. DiscoveryTypeOK'
    BY <1>2, <2>1 DEF DiscoveryTypeOK, Rollout, CacheEntry, Message, World
  <2>3. TimePasses
    BY <1>2, <2>1, ClockTypes DEF TimePasses
  <2>4. rows' \in [Sources -> SUBSET Sessions] /\ database' \in Sources
    BY <1>2, <2>1
  <2> QED  BY <1>3, <2>1, <2>2, <2>3, <2>4
<1>6. ASSUME NEW d \in World.databases \ {NoDatabase, database}, ChangeDatabase(d)
      PROVE  SendInv'
  <2>1. /\ UNCHANGED <<world, files, named, dirTime, home, cache, dirSeen>>
        /\ UNCHANGED <<rows, baseline, queued, torn, collection>>
        /\ now < World.time /\ now' = now + 1 /\ database' = d
    BY <1>6 DEF ChangeDatabase, cacheVars
  <2>2. now \in Nat /\ now >= 1 /\ World.time \in Nat
    BY <1>2, ClockTypes
  <2>3. now' \in Nat /\ now <= now' /\ now' \in 1 .. World.time
    BY <2>1, <2>2
  <2>4. TimePasses
    BY <2>1, <2>2, <2>3 DEF TimePasses
  <2>5. DiscoveryTypeOK'
    <3>1. /\ world \in DOMAIN Worlds
          /\ named \subseteq Paths /\ DOMAIN files \subseteq named
          /\ files \in [DOMAIN files -> Rollout]
          /\ DOMAIN home \subseteq Sessions /\ home \in [DOMAIN home -> Paths]
          /\ DOMAIN cache \subseteq Paths /\ cache \in [DOMAIN cache -> CacheEntry]
          /\ DOMAIN dirSeen \subseteq Directories
      BY <1>2 DEF DiscoveryTypeOK
    <3>2. World' = World /\ Rollout' = Rollout /\ CacheEntry' = CacheEntry
      BY <2>1, SameMessages DEF World, CacheEntry
    <3>3. 0 .. now \subseteq 0 .. now' /\ 1 .. now \subseteq 1 .. now'
      BY <2>2, <2>3
    <3>4. dirTime \in [Directories -> 0 .. now']
      BY <1>2, <3>3 DEF DiscoveryTypeOK
    <3>5. dirSeen \in [DOMAIN dirSeen -> 1 .. now']
      BY <1>2, <3>3 DEF DiscoveryTypeOK
    <3> QED  BY <2>1, <2>3, <3>1, <3>2, <3>4, <3>5 DEF DiscoveryTypeOK, Directories, Days
  <2>6. d \in Sources
    BY <1>2, TranscriptAssumption DEF DiscoveryTypeOK, World
  <2> QED  BY <1>2, <1>3, <2>1, <2>4, <2>5, <2>6
<1> QED  BY <1>4, <1>5, <1>6 DEF Codex

-----------------------------------------------------------------------------
(* The cache *)
LEMMA CachedType ==
    ASSUME DiscoveryTypeOK, NEW p \in DOMAIN files
    PROVE  Cached(p) \in CacheEntry
<1>1. PICK f \in Rollout : f = files[p]
  BY DEF DiscoveryTypeOK
<1>2. f.whole \in BOOLEAN /\ f.mtime \in Nat /\ f.records \in Seq(Message)
  BY DEF Rollout
<1>3. PICK n \in Nat : n = Len(f.records)
  BY <1>2
<1>4. Size(p) = n + (IF f.whole THEN 1 ELSE 0)
  BY <1>1, <1>3 DEF Size
<1>5. Size(p) \in Nat
  BY <1>4
<1> QED  BY <1>1, <1>2, <1>5 DEF Cached, CacheEntry

(* A step of the daemon that changes the cache alone keeps the types.      *)
LEMMA CacheNext ==
    ASSUME DiscoveryTypeOK, UNCHANGED <<world, now, files, named, dirTime, home>>,
           DOMAIN cache' \subseteq Paths, cache' \in [DOMAIN cache' -> CacheEntry],
           DOMAIN dirSeen' \subseteq Directories, dirSeen' \in [DOMAIN dirSeen' -> 1 .. now]
    PROVE  DiscoveryTypeOK' /\ TimePasses
<1>1. now \in Nat
  BY ClockTypes
<1>2. TimePasses
  BY <1>1 DEF TimePasses
<1>3. World' = World /\ Rollout' = Rollout /\ CacheEntry' = CacheEntry /\ Directories' = Directories
  BY SameMessages DEF World, CacheEntry, Directories, Days
<1>4. /\ world \in DOMAIN Worlds /\ now \in 1 .. World.time
      /\ named \subseteq Paths /\ DOMAIN files \subseteq named
      /\ files \in [DOMAIN files -> Rollout]
      /\ dirTime \in [Directories -> 0 .. now]
      /\ DOMAIN home \subseteq Sessions /\ home \in [DOMAIN home -> Paths]
  BY DEF DiscoveryTypeOK
<1>5. DiscoveryTypeOK'
  BY <1>3, <1>4 DEF DiscoveryTypeOK
<1> QED  BY <1>2, <1>5

(* A step that leaves what Codex wrote and what is cached *)
LEMMA SameFiles ==
    ASSUME SendType, UNCHANGED <<codexVars, cacheVars>>, scans' \subseteq scans
    PROVE  DiscoveryTypeOK' /\ TimePasses /\ DirsThere'
<1>1. /\ UNCHANGED <<world, now, files, named, dirTime, home, cache, dirSeen>>
      /\ DiscoveryTypeOK /\ DirsThere
  BY DEF SendType, codexVars, cacheVars
<1>2. /\ DOMAIN cache' \subseteq Paths /\ cache' \in [DOMAIN cache' -> CacheEntry]
      /\ DOMAIN dirSeen' \subseteq Directories /\ dirSeen' \in [DOMAIN dirSeen' -> 1 .. now]
  BY <1>1 DEF DiscoveryTypeOK
<1>3. DiscoveryTypeOK' /\ TimePasses
  BY <1>1, <1>2, CacheNext
<1>4. DirsThere'
  BY <1>1 DEF DirsThere
<1> QED  BY <1>3, <1>4

(* Rollouts that are read *)
LEMMA ReadStateKeeps ==
    ASSUME SendInv, NEW ok \in BOOLEAN, ReadState(ok)
    PROVE  SendInv'
<1>1. SendType
  BY DEF SendInv
<1>2. DiscoveryTypeOK /\ database \in Sources /\ rows \in [Sources -> SUBSET Sessions]
  BY <1>1 DEF SendType
<1>3. /\ pc = "idle" /\ pc' = "discover" /\ source' = database /\ observed' = now
      /\ UNCHANGED <<codexVars, cacheVars>>
      /\ UNCHANGED <<database, rows, baseline, queued, torn, plan, scans>>
  BY DEF ReadState, stored
<1>4. payloads' \in Readings
  <2>1. PICK top : top = IF ok THEN MostRecent(MaxRows, rows[database], home) ELSE {}
    OBVIOUS
  <2>2. PICK some : some = {s \in top : Messages(home[s]) # << >>}
    OBVIOUS
  <2>3. payloads' = [s \in some |-> Messages(home[s])]
    BY <2>1, <2>2 DEF ReadState
  <2>4. some \subseteq Sessions
    <3>1. MostRecent(MaxRows, rows[database], home) \subseteq rows[database]
      BY DEF MostRecent
    <3>2. rows[database] \subseteq Sessions
      BY <1>2
    <3> QED  BY <2>1, <2>2, <3>1, <3>2
  <2>5. \A s \in some : payloads'[s] \in Seq(Message) /\ UniqueIDs(payloads'[s])
    BY <1>2, <2>3, MessagesType
  <2>6. payloads' = [s \in some |-> payloads'[s]]
    BY <2>3
  <2> QED  BY <2>4, <2>5, <2>6, ReadingsMade
<1>5. DiscoveryTypeOK' /\ TimePasses /\ DirsThere'
  BY <1>1, <1>3, SameFiles
<1>6. observed' \in 0 .. now /\ observed' # 0
  BY <1>2, <1>3, ClockTypes
<1>7. SendType'
  BY <1>1, <1>2, <1>3, <1>4, <1>5, <1>6, TypeNext DEF SendType
<1> QED  BY <1>3, <1>7, QuietNext

(* The directories to be read are found.                                   *)
LEMMA DiscoverKeeps ==
    ASSUME SendInv, Discover
    PROVE  SendInv'
<1>1. SendType
  BY DEF SendInv
<1>2. /\ DiscoveryTypeOK /\ DirsThere /\ observed \in 0 .. now /\ observed # 0
  BY <1>1 DEF SendType, Discover
<1>3. /\ pc = "discover" /\ pc' = "scan" /\ cache' = Refreshed /\ scans' = ChangedDirectories
      /\ UNCHANGED <<world, now, files, named, dirTime, home, dirSeen>>
      /\ UNCHANGED <<database, rows, baseline, queued, torn, plan, source, observed, payloads>>
  BY DEF Discover, codexVars, stored
<1>4. /\ DOMAIN cache \subseteq Paths /\ cache \in [DOMAIN cache -> CacheEntry]
      /\ DOMAIN dirSeen \subseteq Directories
      /\ dirSeen \in [DOMAIN dirSeen -> 1 .. now]
  BY <1>2 DEF DiscoveryTypeOK
<1>5. DOMAIN cache' \subseteq Paths /\ cache' \in [DOMAIN cache' -> CacheEntry]
  <2>1. cache' = [p \in DOMAIN cache |->
                    IF ~cache[p].parsed /\ p \in DOMAIN files THEN Cached(p) ELSE cache[p]]
    BY <1>3 DEF Refreshed
  <2>2. \A p \in DOMAIN files : Cached(p) \in CacheEntry
    BY <1>2, CachedType
  <2> QED  BY <1>4, <2>1, <2>2
<1>6. DiscoveryTypeOK' /\ TimePasses
  BY <1>2, <1>3, <1>4, <1>5, CacheNext
<1>7. scans' \subseteq Directories /\ \A d \in scans' : dirTime[d] # 0
  BY <1>2, <1>3, <1>4, RootIsDirectory DEF ChangedDirectories, DirsThere
<1>8. DirsThere'
  BY <1>2, <1>3, <1>7 DEF DirsThere
<1>9. SendType'
  BY <1>1, <1>2, <1>3, <1>6, <1>7, <1>8, TypeNext DEF SendType
<1> QED  BY <1>3, <1>9, QuietNext

(* A directory is read.                                                    *)
LEMMA ScanKeeps ==
    ASSUME SendInv, NEW d \in scans, NEW seen, Scan(d, seen)
    PROVE  SendInv'
<1>1. SendType
  BY DEF SendInv
<1>2. /\ DiscoveryTypeOK /\ DirsThere /\ scans \subseteq Directories
      /\ observed \in 0 .. now /\ observed # 0
  BY <1>1 DEF SendType, Scan
<1>3. /\ pc = "scan" /\ scans' = scans \ {d} /\ ScanDirectory(d, seen)
      /\ UNCHANGED <<world, now, files, named, dirTime, home>>
      /\ UNCHANGED <<database, rows, baseline, queued, torn, plan, pc, source, observed, payloads>>
  BY DEF Scan, codexVars, stored
<1>4. /\ DOMAIN cache \subseteq Paths /\ cache \in [DOMAIN cache -> CacheEntry]
      /\ DOMAIN dirSeen \subseteq Directories
      /\ dirSeen \in [DOMAIN dirSeen -> 1 .. now]
      /\ dirTime \in [Directories -> 0 .. now]
      /\ DOMAIN files \subseteq Paths
  BY <1>2 DEF DiscoveryTypeOK
<1>5. Within(d) \subseteq Directories /\ \A e \in Within(d) : dirTime[e] # 0
  BY <1>2 DEF Within, DirsThere
<1>6. DOMAIN cache' \subseteq Paths /\ cache' \in [DOMAIN cache' -> CacheEntry]
  <2>1. PICK kept : kept = IF seen = FilesWithin(d)
                           THEN {p \in DOMAIN cache : DirOf[p] \notin Within(d)}
                           ELSE DOMAIN cache
    OBVIOUS
  <2>2. /\ seen \subseteq FilesWithin(d)
        /\ cache' = [p \in kept \cup seen |-> IF p \in seen THEN Cached(p) ELSE cache[p]]
    BY <1>3, <2>1 DEF ScanDirectory
  <2>3. seen \subseteq DOMAIN files /\ kept \subseteq DOMAIN cache
    BY <2>1, <2>2 DEF FilesWithin
  <2>4. \A p \in seen : Cached(p) \in CacheEntry
    BY <1>2, <2>3, CachedType
  <2> QED  BY <1>4, <2>2, <2>3, <2>4
<1>7. /\ DOMAIN dirSeen' \subseteq Directories /\ dirSeen' \in [DOMAIN dirSeen' -> 1 .. now]
      /\ \A e \in DOMAIN dirSeen' : dirTime[e] # 0
  <2>1. CASE seen = FilesWithin(d)
    <3>1. dirSeen' = [e \in DOMAIN dirSeen \cup Within(d) |->
                        IF e \in Within(d) THEN dirTime[e] ELSE dirSeen[e]]
      BY <1>3, <2>1 DEF ScanDirectory
    <3>2. \A e \in Within(d) : dirTime[e] \in 1 .. now
      <4>1. \A e \in Within(d) : dirTime[e] \in 0 .. now /\ dirTime[e] # 0
        BY <1>4, <1>5
      <4> QED  BY <4>1
    <3>3. \A e \in DOMAIN dirSeen : dirTime[e] # 0
      BY <1>2 DEF DirsThere
    <3> QED  BY <1>4, <1>5, <3>1, <3>2, <3>3
  <2>2. CASE seen # FilesWithin(d)
    <3>1. dirSeen' = dirSeen
      BY <1>3, <2>2 DEF ScanDirectory
    <3> QED  BY <1>2, <1>4, <3>1 DEF DirsThere
  <2> QED  BY <2>1, <2>2
<1>8. DiscoveryTypeOK' /\ TimePasses
  BY <1>2, <1>3, <1>6, <1>7, CacheNext
<1>9. DirsThere'
  BY <1>2, <1>3, <1>7 DEF DirsThere
<1>10. scans' \subseteq Directories
  BY <1>2, <1>3
<1>11. SendType'
  BY <1>1, <1>2, <1>3, <1>8, <1>9, <1>10, TypeNext DEF SendType
<1> QED  BY <1>3, <1>11, QuietNext

(* No reading at all is a reading.                                         *)
LEMMA NothingRead == << >> \in Readings
<1>1. PICK e : e = << >>
  OBVIOUS
<1>2. e \in [{} -> Seq(Message)] /\ DOMAIN e = {}
  BY <1>1
<1>3. e \in UNION {[S -> Seq(Message)] : S \in SUBSET Sessions}
  BY <1>2
<1> QED  BY <1>1, <1>2, <1>3 DEF Readings

(* What Filter reads beside the rollouts that the database lists *)
Others == {s \in DOMAIN TurnPaths \ DOMAIN payloads : Messages(TurnPaths[s]) # << >>}

Fallback == MostRecent(MaxRows, Others, TurnPaths)

Read ==
    [s \in DOMAIN payloads \cup Fallback |->
        IF s \in Fallback THEN Messages(TurnPaths[s]) ELSE payloads[s]]

(* There is nothing to queue and nothing to save. *)
NothingToSave ==
    \/ ~stateRead /\ Fallback = {}
    \/ source = NoDatabase /\ DOMAIN Read = {}

(* What Filter plans, and that it is ready to.                             *)
LEMMA FilterPlan ==
    ASSUME SendInv, Filter
    PROVE  /\ PlanReady(Read, Fallback, queued, torn)
           /\ Doubtful = torn
           /\ IF NothingToSave THEN pc' = "idle" /\ plan' = NoPlan
              ELSE pc' = "append" /\ plan' = Plan(Read, Fallback)
<1>1. SendType
  BY DEF SendInv
<1>2. /\ DiscoveryTypeOK /\ source \in Sources /\ rows \in [Sources -> SUBSET Sessions]
      /\ baseline \in [Sources -> Baselines] /\ payloads \in Readings
      /\ observed \in 0 .. now /\ observed # 0
      /\ torn \subseteq queued /\ queued \subseteq ChunkType /\ IsFiniteSet(queued)
  BY <1>1 DEF SendType, Filter
<1>3. Doubtful = torn
  BY DEF Doubtful, Filter
<1>4. IF NothingToSave THEN pc' = "idle" /\ plan' = NoPlan
      ELSE pc' = "append" /\ plan' = Plan(Read, Fallback)
  BY DEF Filter, NothingToSave, Read, Fallback, Others
<1>5. Listed \subseteq Sessions
  BY <1>2 DEF Listed
<1>6. Fallback \subseteq Sessions
  BY <1>5 DEF Fallback, Others, MostRecent, TurnPaths, CachedSessions
<1>7. ReadType(Read) /\ Fallback \subseteq DOMAIN Read
  <2>1. ReadType(payloads)
    BY <1>2, ReadingsType
  <2>2. \A s : Messages(TurnPaths[s]) \in Seq(Message) /\ UniqueIDs(Messages(TurnPaths[s]))
    BY <1>2, MessagesType
  <2>3. DOMAIN Read = DOMAIN payloads \cup Fallback
    BY DEF Read
  <2>4. \A s \in DOMAIN Read : Read[s] \in Seq(Message) /\ UniqueIDs(Read[s])
    BY <2>1, <2>2, <2>3 DEF Read, ReadType
  <2> QED  BY <1>6, <2>1, <2>3, <2>4 DEF ReadType
<1>8. BaselineInv(baseline[source])
  BY <1>2, BaselinesInv
<1>9. Settled(baseline[source], source, queued, torn) /\ Once(queued, torn)
  BY <1>2, <1>3 DEF SendInv
<1>10. observed \in 1 .. now
  BY <1>2
<1> QED  BY <1>2, <1>3, <1>4, <1>5, <1>7, <1>8, <1>9, <1>10 DEF PlanReady

(* The plan of a collection *)
LEMMA FilterKeeps ==
    ASSUME SendInv, Filter
    PROVE  SendInv'
<1>1. SendType
  BY DEF SendInv
<1>2. /\ DiscoveryTypeOK /\ source \in Sources /\ baseline \in [Sources -> Baselines]
  BY <1>1 DEF SendType
<1>3. /\ pc = "scan" /\ payloads' = << >>
      /\ UNCHANGED <<codexVars, cacheVars>>
      /\ UNCHANGED <<database, rows, baseline, queued, torn, source, observed, scans>>
  BY DEF Filter, stored
<1>4. DiscoveryTypeOK' /\ TimePasses /\ DirsThere'
  BY <1>1, <1>3, SameFiles
<1>5. payloads' \in Readings
  BY <1>3, NothingRead
<1>6. /\ PlanReady(Read, Fallback, queued, torn) /\ Doubtful = torn
      /\ IF NothingToSave THEN pc' = "idle" /\ plan' = NoPlan
         ELSE pc' = "append" /\ plan' = Plan(Read, Fallback)
  BY FilterPlan
<1>7. CASE NothingToSave
  <2>1. plan'.chunks \subseteq ChunkType /\ plan'.base \in Baselines /\ IsFiniteSet(plan'.chunks)
    BY <1>2, <1>6, <1>7, NoPlanType, ClockTypes, FS_EmptySet DEF NoPlan
  <2>2. SendType'
    BY <1>1, <1>3, <1>4, <1>5, <1>6, <1>7, <2>1, TypeNext DEF SendType
  <2> QED  BY <1>3, <1>6, <1>7, <2>2, QuietNext
<1>8. CASE ~NothingToSave
  <2>1. pc' = "append" /\ plan' = Plan(Read, Fallback)
    BY <1>6, <1>8
  <2>2. plan'.chunks \subseteq ChunkType /\ IsFiniteSet(plan'.chunks)
    BY <1>6, <2>1, PlanChunkType
  <2>3. /\ plan'.base \in Baselines
        /\ Settled(plan'.base, source, queued \cup plan'.chunks, torn)
    BY <1>6, <2>1, PlanBase, BaselinesInv
  <2>4. Once(queued \cup plan'.chunks, torn) /\ Once(queued, torn)
    BY <1>6, <2>1, PlanOnce DEF PlanReady
  <2>5. \A q \in plan'.chunks : q.source = source
    BY <2>1, PlanChunks
  <2>6. SendType'
    BY <1>1, <1>3, <1>4, <1>5, <2>1, <2>2, <2>3, TypeNext DEF SendType
  <2>7. \A d \in Sources : Settled(baseline'[d], d, queued', Doubtful')
    <3>1. Doubtful' = torn
      BY <1>3, <2>1 DEF Doubtful
    <3> QED  BY <1>3, <1>6, <3>1 DEF SendInv
  <2> QED  BY <1>3, <2>1, <2>3, <2>4, <2>5, <2>6, <2>7, InvNext
<1> QED  BY <1>7, <1>8

(* The chunks are queued. *)
LEMMA AppendKeeps ==
    ASSUME SendInv, AppendEvents
    PROVE  SendInv'
<1>1. SendType
  BY DEF SendInv
<1>2. PICK P : P = plan.chunks
  OBVIOUS
<1>3. /\ P \subseteq ChunkType /\ IsFiniteSet(P) /\ baseline \in [Sources -> Baselines]
      /\ torn \subseteq queued /\ queued \subseteq ChunkType /\ IsFiniteSet(queued)
  BY <1>1, <1>2 DEF SendType
<1>4. /\ pc = "append" /\ pc' = "commit" /\ queued' = queued \cup P
      /\ UNCHANGED <<codexVars, cacheVars>>
      /\ UNCHANGED <<database, rows, baseline, torn, source, observed, payloads, scans, plan>>
  BY <1>2 DEF AppendEvents
<1>5. /\ Settled(plan.base, source, queued \cup P, torn)
      /\ Once(queued \cup P, torn)
      /\ \A q \in P : q.source = source
  BY <1>2, <1>4 DEF SendInv, PlanInv
<1>6. DiscoveryTypeOK' /\ TimePasses /\ DirsThere'
  BY <1>1, <1>4, SameFiles
<1>7. queued' \subseteq ChunkType /\ IsFiniteSet(queued') /\ torn' \subseteq queued'
  BY <1>3, <1>4, FS_Union
<1>8. SendType'
  BY <1>1, <1>4, <1>6, <1>7, TypeNext DEF SendType
<1>9. ASSUME NEW d \in Sources, NEW s \in Sessions
      PROVE  CursorSafe(CursorIn(baseline[d], s), d, s, queued', torn \cup P)
  <2>1. CursorSafe(CursorIn(baseline[d], s), d, s, queued, torn)
    BY <1>4 DEF SendInv, Settled, Doubtful
  <2>2. IsBaseline(baseline[d])
    BY <1>3, BaselinesInv DEF BaselineInv
  <2>3. CursorIn(baseline[d], s) \in CursorType
    BY <2>2, BaselineCursors
  <2>4. Of(d, s, queued' \ (torn \cup P)) \subseteq Of(d, s, queued \ torn)
    BY <1>4 DEF Of
  <2>5. queued \subseteq queued'
    BY <1>4
  <2> QED  BY <1>7, <2>1, <2>3, <2>4, <2>5, CursorMonotone
<1>10. \A d \in Sources : Settled(baseline'[d], d, queued', Doubtful')
  <2>1. Doubtful' = torn \cup P
    BY <1>2, <1>4 DEF Doubtful
  <2> QED  BY <1>4, <1>9, <2>1 DEF Settled
<1>11. queued' \cup plan'.chunks = queued \cup P /\ plan'.chunks \subseteq queued'
  BY <1>2, <1>4
<1> QED  BY <1>2, <1>4, <1>5, <1>8, <1>10, <1>11, InvNext

(* The end of a collection *)
LEMMA EndType ==
    ASSUME SendType, End, DiscoveryTypeOK', TimePasses, DirsThere',
           baseline' \in [Sources -> Baselines], torn' \subseteq queued
    PROVE  SendType'
<1>1. /\ pc' = "idle" /\ payloads' = << >> /\ scans' = {} /\ plan' = NoPlan
      /\ source' = NoDatabase /\ observed' = 0 /\ UNCHANGED <<database, rows, queued>>
  BY DEF End
<1>2. now \in Nat
  BY ClockTypes DEF SendType
<1>3. payloads' \in Readings
  BY <1>1, NothingRead
<1>4. plan'.chunks \subseteq ChunkType /\ plan'.base \in Baselines /\ IsFiniteSet(plan'.chunks)
  BY <1>1, <1>2, NoPlanType, FS_EmptySet DEF NoPlan
<1>5. NoDatabase \in Sources /\ 0 \in 0 .. now
  BY <1>2 DEF Sources
<1> QED  BY <1>1, <1>3, <1>4, <1>5, TypeNext DEF SendType

(* The baseline is saved. *)
LEMMA CommitKeeps ==
    ASSUME SendInv, CommitBaseline
    PROVE  SendInv'
<1>1. SendType
  BY DEF SendInv
<1>2. PICK P : P = plan.chunks
  OBVIOUS
<1>3. /\ baseline \in [Sources -> Baselines] /\ plan.base \in Baselines /\ source \in Sources
      /\ torn \subseteq queued /\ queued \subseteq ChunkType /\ IsFiniteSet(queued)
  BY <1>1 DEF SendType
<1>4. /\ pc = "commit" /\ pc' = "idle" /\ End
      /\ baseline' = [baseline EXCEPT ![source] = plan.base]
      /\ UNCHANGED <<codexVars, cacheVars>> /\ UNCHANGED <<torn, queued>> /\ scans' = {}
  BY DEF CommitBaseline, End
<1>5. /\ Settled(plan.base, source, queued \cup P, torn)
      /\ \A q \in P : q.source = source
      /\ P \subseteq queued
  BY <1>2, <1>4 DEF SendInv, PlanInv
<1>6. DiscoveryTypeOK' /\ TimePasses /\ DirsThere'
  <2>1. scans' \subseteq scans
    BY <1>4
  <2> QED  BY <1>1, <1>4, <2>1, SameFiles
<1>7. SendType'
  <2>1. baseline' \in [Sources -> Baselines] /\ torn' \subseteq queued
    BY <1>3, <1>4
  <2> QED  BY <1>1, <1>4, <1>6, <2>1, EndType
<1>8. Settled(plan.base, source, queued, torn)
  <2>1. queued \cup P = queued
    BY <1>5
  <2> QED  BY <1>5, <2>1
<1>9. ASSUME NEW d \in Sources, d # source, NEW s \in Sessions
      PROVE  CursorSafe(CursorIn(baseline[d], s), d, s, queued, torn)
  <2>1. CursorSafe(CursorIn(baseline[d], s), d, s, queued, torn \cup P)
    BY <1>2, <1>4 DEF SendInv, Settled, Doubtful
  <2>2. IsBaseline(baseline[d])
    BY <1>3, BaselinesInv DEF BaselineInv
  <2>3. CursorIn(baseline[d], s) \in CursorType
    BY <2>2, BaselineCursors
  <2>4. Of(d, s, queued \ torn) \subseteq Of(d, s, queued \ (torn \cup P))
    BY <1>5, <1>9 DEF Of
  <2> QED  BY <1>3, <2>1, <2>3, <2>4, CursorMonotone
<1>10. \A d \in Sources : Settled(baseline'[d], d, queued', Doubtful')
  <2>1. Doubtful' = torn /\ queued' = queued
    BY <1>4 DEF Doubtful
  <2>2. ASSUME NEW d \in Sources PROVE Settled(baseline'[d], d, queued, torn)
    <3>1. CASE d = source
      <4>1. baseline'[d] = plan.base
        BY <1>3, <1>4, <3>1
      <4> QED  BY <1>8, <3>1, <4>1
    <3>2. CASE d # source
      <4>1. baseline'[d] = baseline[d]
        BY <1>3, <1>4, <3>2
      <4> QED  BY <1>9, <3>2, <4>1 DEF Settled
    <3> QED  BY <3>1, <3>2
  <2> QED  BY <2>1, <2>2
<1>11. Once(queued', torn')
  BY <1>4 DEF SendInv
<1> QED  BY <1>4, <1>7, <1>10, <1>11, InvNext

(* A collection that does not come to its end leaves in doubt what it queued.*)
LEMMA LeaveKeeps ==
    ASSUME SendInv, LeaveTorn, End, DiscoveryTypeOK', TimePasses, DirsThere',
           UNCHANGED baseline
    PROVE  SendInv'
<1>1. SendType
  BY DEF SendInv
<1>2. torn' = Doubtful /\ queued' = queued /\ pc' = "idle"
  BY DEF LeaveTorn, End, Doubtful
<1>3. torn \subseteq Doubtful /\ Doubtful \subseteq queued
  BY <1>1 DEF Doubtful, SendType, SendInv, PlanInv
<1>4. SendType'
  <2>1. baseline' \in [Sources -> Baselines]
    BY <1>1 DEF SendType
  <2> QED  BY <1>1, <1>2, <1>3, <2>1, EndType
<1>5. \A d \in Sources : Settled(baseline'[d], d, queued', Doubtful')
  <2>1. Doubtful' = Doubtful
    <3>1. Doubtful' = torn'
      BY <1>2 DEF Doubtful
    <3> QED  BY <1>2, <3>1
  <2> QED  BY <1>2, <2>1 DEF SendInv
<1>6. Once(queued', torn')
  <2>1. Once(queued, torn) /\ queued \ Doubtful \subseteq queued \ torn
    BY <1>3 DEF SendInv
  <2>2. Once(queued, Doubtful)
    BY <2>1 DEF Once
  <2> QED  BY <1>2, <2>2
<1> QED  BY <1>2, <1>4, <1>5, <1>6, InvNext

(* A collection fails.                                                     *)
LEMMA AbandonKeeps ==
    ASSUME SendInv, Abandon
    PROVE  SendInv'
<1>1. SendType
  BY DEF SendInv
<1>2. /\ LeaveTorn /\ End /\ UNCHANGED baseline
      /\ UNCHANGED <<codexVars, cacheVars>> /\ scans' \subseteq scans
  BY DEF Abandon, End
<1>3. DiscoveryTypeOK' /\ TimePasses /\ DirsThere'
  BY <1>1, <1>2, SameFiles
<1> QED  BY <1>2, <1>3, LeaveKeeps

(* The daemon dies.                                                        *)
LEMMA CrashKeeps ==
    ASSUME SendInv, Crash
    PROVE  SendInv'
<1>1. DiscoveryTypeOK /\ DirsThere
  BY DEF SendInv, SendType
<1>2. PICK e : e = << >>
  OBVIOUS
<1>3. /\ LeaveTorn /\ End /\ UNCHANGED baseline /\ cache' = e /\ dirSeen' = e /\ scans' = {}
      /\ UNCHANGED <<world, now, files, named, dirTime, home>>
  BY <1>2 DEF Crash, End, codexVars
<1>4. DOMAIN e = {} /\ \A S : e \in [{} -> S]
  BY <1>2
<1>5. DiscoveryTypeOK' /\ TimePasses
  BY <1>1, <1>3, <1>4, CacheNext
<1>6. DirsThere'
  BY <1>1, <1>3, <1>4 DEF DirsThere
<1> QED  BY <1>3, <1>5, <1>6, LeaveKeeps

-----------------------------------------------------------------------------
(* The invariant: whatever Codex writes, lists and archives, whatever fails   *)
(* and whenever the daemon dies, the cursors account for what is in the      *)
(* queue, but for what is in doubt.                                        *)
THEOREM TranscriptsSafe == Spec => []SendInv
<1>1. ASSUME SendInv, [Next]_vars
      PROVE  SendInv'
  <2>1. CASE Codex
    BY <1>1, <2>1, CodexKeeps
  <2>2. CASE \E ok \in BOOLEAN : ReadState(ok)
    BY <1>1, <2>2, ReadStateKeeps
  <2>3. CASE \E d \in scans : \E seen \in SUBSET FilesWithin(d) : Scan(d, seen)
    BY <1>1, <2>3, ScanKeeps
  <2>4. CASE Filter
    BY <1>1, <2>4, FilterKeeps
  <2>5. CASE AppendEvents
    BY <1>1, <2>5, AppendKeeps
  <2>6. CASE CommitBaseline
    BY <1>1, <2>6, CommitKeeps
  <2>7. CASE Abandon
    BY <1>1, <2>7, AbandonKeeps
  <2>8. CASE Crash
    BY <1>1, <2>8, CrashKeeps
  <2>9. CASE Discover
    BY <1>1, <2>9, DiscoverKeeps
  <2>10. CASE UNCHANGED vars
    <3>1. UNCHANGED <<codexVars, cacheVars>> /\ UNCHANGED <<stored, collection>>
      BY <2>10 DEF vars
    <3>2. /\ UNCHANGED <<database, rows, baseline, queued, torn>>
          /\ UNCHANGED <<pc, source, observed, payloads, scans, plan>>
      BY <3>1 DEF stored, collection
    <3>3. SendType
      BY <1>1 DEF SendInv
    <3>4. DiscoveryTypeOK' /\ TimePasses /\ DirsThere'
      BY <3>1, <3>2, <3>3, SameFiles
    <3>5. SendType'
      BY <3>2, <3>3, <3>4, TypeNext DEF SendType
    <3> QED  BY <1>1, <3>2, <3>5, QuietNext
  <2> QED
    BY <1>1, <2>1, <2>2, <2>3, <2>4, <2>5, <2>6, <2>7, <2>8, <2>9, <2>10 DEF Next, Collection
<1> QED  BY <1>1, SendInit, PTL DEF Spec

(* TypeOK: chunks keep within their limits of messages, bytes and days, and   *)
(* cursors within MaxVersions (prepareTranscriptChunks,                      *)
(* boundedTranscriptVersions).                                             *)
THEOREM TranscriptsTyped == Spec => []TypeOK
<1>1. SendInv => TypeOK
  BY SendTypeOK DEF SendInv
<1> QED  BY <1>1, TranscriptsSafe, PTL

(* SentOnce: a chunk has a number that no other chunk of its session has, and *)
(* a message goes out again only when more than MaxVersions others went out  *)
(* in between (filterCodexTranscriptBaseline, codexTranscriptMessages).      *)
THEOREM TranscriptsSentOnce == Spec => []SentOnce
<1>1. SendInv => SentOnce
  <2>1. \A c, n : SentSince(c, n) = SentIn(queued, c, n)
    BY DEF SentSince, SentIn
  <2> QED  BY <2>1 DEF SendInv, Once, SentOnce
<1> QED  BY <1>1, TranscriptsSafe, PTL

-----------------------------------------------------------------------------
(* Nothing is missed.  Every number that a cursor counts is that of a chunk. *)
Numbered(c, d, s, Q) ==
    \A n \in 1 .. c.sequence : \E q \in Q : q.source = d /\ q.sid = s /\ q.sequence = n

CountInv ==
    /\ \A d \in Sources, s \in Sessions : Numbered(CursorIn(baseline[d], s), d, s, queued)
    /\ pc \in {"append", "commit"} =>
        \A s \in Sessions :
            Numbered(CursorIn(plan.base, s), source, s, queued \cup plan.chunks)

(* A message of s is in a chunk, or is history.                            *)
Told(d, s, r, Q, H) ==
    \/ \E q \in Q : q.source = d /\ q.sid = s /\ r \in ToSet(q.msgs)
    \/ <<d, s, r>> \in H

(* What a cursor knows: the versions, and what was read last               *)
Knows(c, r) == r \in Seen(c) \cup ToSet(c.hash)

AllTold(c, d, s, Q, H) == \A r : Knows(c, r) => Told(d, s, r, Q, H)

KnownInv ==
    /\ \A d \in Sources, s \in Sessions :
            AllTold(CursorIn(baseline[d], s), d, s, queued, history)
    /\ pc \in {"append", "commit"} =>
        \A s \in Sessions :
            AllTold(CursorIn(plan.base, s), source, s, queued \cup plan.chunks,
                    history \cup plan.history)

(* Each file is of a session that has begun, in a directory that is there;   *)
(* the header of one that its session has left is whole.                    *)
FileInv ==
    /\ \A s \in DOMAIN home : home[s] \in named /\ SessionOf[home[s]] = s
    /\ \A d \in Sources : rows[d] \subseteq DOMAIN home
    /\ \A p \in named : SessionOf[p] \in DOMAIN home
    /\ \A p \in DOMAIN files :
        /\ files[p].mtime \in 1 .. now /\ Size(p) <= files[p].mtime
        /\ dirTime[DirOf[p]] # 0
        /\ p # home[SessionOf[p]] => files[p].whole

(* What a file's times are, in the directory and in the cache: those of the  *)
(* file its session goes on in are after those of its others.               *)
TimesOf(p) ==
    (IF p \in DOMAIN files THEN {files[p].mtime} ELSE {})
        \cup (IF p \in DOMAIN cache THEN {cache[p].mtime} ELSE {})

CacheInv ==
    /\ DOMAIN cache \subseteq named
    /\ \A p \in DOMAIN cache : cache[p].mtime \in 1 .. now /\ cache[p].size \in 0 .. now
    /\ \A p \in named :
        LET h == home[SessionOf[p]] IN
        p # h => \A m \in TimesOf(p), n \in TimesOf(h) : m < n

(* A directory that is as it was when it was read has no file that is not    *)
(* cached, and if the one above it is, it has been read.                    *)
AsSeen(d) == d \in DOMAIN dirSeen /\ dirSeen[d] = dirTime[d]

DirInv ==
    /\ \A d \in DOMAIN dirSeen : dirSeen[d] <= dirTime[d]
    /\ AsSeen(Root) => \A d \in Directories : dirTime[d] # 0 => d \in DOMAIN dirSeen
    /\ \A p \in DOMAIN files : AsSeen(DirOf[p]) => p \in DOMAIN cache

(* What is due was read, or its file is cached or in a directory that is     *)
(* still to be read.                                                        *)
ToFind(s, p) ==
    p = home[s] /\ p \in DOMAIN files =>
        /\ files[p].whole
        /\ \/ p \in DOMAIN cache /\ cache[p].parsed
           \/ \E d \in scans : DirOf[p] \in Within(d)

DueInv ==
    /\ pc = "idle" => due = {}
    /\ pc \in {"discover", "scan"} =>
        /\ ~stateRead => DOMAIN payloads = {}
        /\ \A e \in due :
            /\ e[1] \in DOMAIN home /\ e[2] \in named
            /\ e[1] \in DOMAIN payloads => e[3] \in ToSet(payloads[e[1]])
            /\ e[2] = home[e[1]] /\ e[2] \in DOMAIN files => files[e[2]].whole
    /\ pc = "scan" => \A e \in due : ToFind(e[1], e[2])
    /\ pc \in {"append", "commit"} => \A e \in due : Accounted(e[1], e[3])

FoundInv == FileInv /\ CacheInv /\ DirInv /\ DueInv

(* More chunks number a cursor as well.                                    *)
LEMMA NumberedMore ==
    ASSUME NEW c, NEW d, NEW s, NEW Q, NEW P, Q \subseteq P, Numbered(c, d, s, Q)
    PROVE  Numbered(c, d, s, P)
<1> QED  BY DEF Numbered

(* A cursor that counts no chunk is numbered.                              *)
LEMMA NumberedNone ==
    ASSUME NEW c, NEW d, NEW s, NEW Q, c.sequence = 0
    PROVE  Numbered(c, d, s, Q)
<1>1. 1 .. c.sequence = {}
  OBVIOUS
<1> QED  BY <1>1 DEF Numbered

(* The cursor a collection finds counts no chunk that the saved one does not. *)
LEMMA NumberedFound ==
    ASSUME NEW read, NEW fallback, NEW Q, NEW X, PlanReady(read, fallback, Q, X),
           NEW s \in Sessions, Numbered(CursorIn(baseline[source], s), source, s, Q)
    PROVE  Numbered(CursorOf(s, read, fallback), source, s, Q)
<1>1. PICK b : b = baseline[source]
  OBVIOUS
<1>2. CASE s \in SessionsOf(b)
  <2>1. CursorOf(s, read, fallback) = CursorIn(b, s)
    BY <1>1, <1>2 DEF CursorOf, CursorIn
  <2> QED  BY <1>1, <2>1
<1>3. CASE s \notin SessionsOf(b) /\ s \in fallback
  <2>1. read[s] \in Seq(Message) /\ IsInjective(read[s])
    BY <1>3, ReadMessages DEF PlanReady
  <2>2. CursorOf(s, read, fallback) = SeededBefore(NoCursor, read[s], b.at)
    BY <1>1, <1>3 DEF CursorOf
  <2>3. CursorOf(s, read, fallback).sequence = 0
    BY <2>1, <2>2, SeededBeforeType
  <2> QED  BY <2>3, NumberedNone
<1>4. CASE s \notin SessionsOf(b) /\ s \notin fallback
  <2>1. CursorOf(s, read, fallback).sequence = 0
    BY <1>1, <1>4 DEF CursorOf, NoCursor
  <2> QED  BY <2>1, NumberedNone
<1> QED  BY <1>2, <1>3, <1>4

(* The next cursor counts the chunks that are queued and those of the plan.   *)
LEMMA NumberedNext ==
    ASSUME NEW read, NEW fallback, NEW Q, NEW X, PlanReady(read, fallback, Q, X),
           baseline[source].at # 0, NEW s \in Sessions,
           Numbered(CursorIn(baseline[source], s), source, s, Q)
    PROVE  Numbered(NextCursor(s, read, fallback), source, s, Q \cup Plan(read, fallback).chunks)
<1>1. PICK P : P = Plan(read, fallback).chunks
  OBVIOUS
<1>2. PICK c : c = CursorOf(s, read, fallback)
  OBVIOUS
<1>3. c \in CursorType /\ IsInjective(c.versions) /\ source \in Sources
  BY <1>2, FoundCursor DEF PlanReady
<1>4. Numbered(c, source, s, Q \cup P)
  <2>1. Numbered(c, source, s, Q) /\ Q \subseteq Q \cup P
    BY <1>2, NumberedFound
  <2> QED  BY <2>1, NumberedMore
<1>5. CASE s \notin DOMAIN read \/ Unchanged(s, read[s])
  <2>1. NextCursor(s, read, fallback) = c
    BY <1>2, <1>5 DEF NextCursor
  <2> QED  BY <1>1, <1>4, <2>1
<1>6. CASE ~(s \notin DOMAIN read \/ Unchanged(s, read[s])) /\ PassedOver(s)
  <2>1. NextCursor(s, read, fallback) = Seeded(c, read[s])
    BY <1>2, <1>6 DEF NextCursor
  <2>2. read[s] \in Seq(Message) /\ IsInjective(read[s])
    BY <1>6, ReadMessages DEF PlanReady
  <2>3. Seeded(c, read[s]).sequence = c.sequence
    BY <1>3, <2>2, SeededType
  <2> QED  BY <1>1, <1>4, <2>1, <2>3 DEF Numbered
<1>7. CASE ~(s \notin DOMAIN read \/ Unchanged(s, read[s])) /\ ~PassedOver(s)
  <2>1. NextCursor(s, read, fallback) = Advanced(c, s, read[s])
    BY <1>2, <1>7 DEF NextCursor
  <2>2. Of(source, s, P) = Chunks(s, c, read[s])
    BY <1>1, <1>2, <1>7, PlanChunks DEF Queues
  <2>3. read[s] \in Seq(Message) /\ IsInjective(read[s])
    BY <1>7, ReadMessages DEF PlanReady
  <2>4. Unseen(c, read[s]) \in Seq(Message)
    BY <1>3, <2>3, UnseenFacts
  <2>5. PICK ps : ps = Split(Unseen(c, read[s])) /\ ps \in Seq(Parts)
    BY <2>4, SplitParts
  <2>6. PICK k \in Nat : k = Len(ps) /\ DOMAIN ps = 1 .. k
    BY <2>5
  <2>7. PICK m \in Nat : m = c.sequence
    BY <1>3 DEF CursorType, Cursor
  <2>8. Advanced(c, s, read[s]).sequence = m + k
    BY <1>3, <2>3, <2>5, <2>6, <2>7, AdvancedType
  <2>9. ASSUME NEW n \in 1 .. (m + k)
        PROVE  \E q \in Q \cup P : q.source = source /\ q.sid = s /\ q.sequence = n
    <3>1. CASE n <= m
      <4>1. n \in 1 .. c.sequence
        BY <2>7, <3>1
      <4> QED  BY <1>4, <4>1 DEF Numbered
    <3>2. CASE ~(n <= m)
      <4>1. n - m \in 1 .. k /\ m + (n - m) = n
        BY <3>2
      <4>2. PICK i \in DOMAIN ps : i = n - m
        BY <2>6, <4>1
      <4>3. PICK q : q = ChunkOf(s, c, ps, i)
        OBVIOUS
      <4>4. q \in Chunks(s, c, read[s])
        BY <1>3, <2>5, <4>3, ChunksFacts
      <4>5. q.source = source /\ q.sid = s /\ q.sequence = n
        BY <2>7, <4>1, <4>2, <4>3 DEF ChunkOf
      <4>6. q \in P
        BY <2>2, <4>4 DEF Of
      <4> QED  BY <4>5, <4>6
    <3> QED  BY <3>1, <3>2
  <2> QED  BY <1>1, <2>1, <2>8, <2>9 DEF Numbered
<1> QED  BY <1>5, <1>6, <1>7

(* So do the cursors of the next baseline.                                 *)
LEMMA NumberedPlan ==
    ASSUME NEW read, NEW fallback, NEW Q, NEW X, PlanReady(read, fallback, Q, X),
           NEW s \in Sessions, Numbered(CursorIn(baseline[source], s), source, s, Q)
    PROVE  Numbered(CursorIn(Plan(read, fallback).base, s), source, s,
                    Q \cup Plan(read, fallback).chunks)
<1>1. PICK b : b = baseline[source]
  OBVIOUS
<1>2. PICK e : e = Plan(read, fallback).base
  OBVIOUS
<1>3. CASE s \notin SessionsOf(e)
  <2>1. CursorIn(e, s).sequence = 0
    BY <1>3 DEF CursorIn, NoCursor
  <2> QED  BY <1>2, <2>1, NumberedNone
<1>4. CASE s \in SessionsOf(e) /\ b.at = 0
  <2>1. e = Initialized(read)
    BY <1>1, <1>2, <1>4 DEF Plan
  <2>2. CursorIn(e, s) = IF s \in DOMAIN read THEN Seeded(NoCursor, read[s]) ELSE NoCursor
    BY <1>4, <2>1 DEF CursorIn, Initialized, SessionsOf
  <2>3. NoCursor.sequence = 0
    BY DEF NoCursor
  <2>4. s \in DOMAIN read => Seeded(NoCursor, read[s]).sequence = 0
    BY <2>3, ReadMessages, NoCursorType, SeededType DEF PlanReady
  <2>5. CursorIn(e, s).sequence = 0
    BY <2>2, <2>3, <2>4
  <2> QED  BY <1>2, <2>5, NumberedNone
<1>5. CASE s \in SessionsOf(e) /\ b.at # 0
  <2>1. PICK S : S = DOMAIN b.sessions \cup Listed \cup DOMAIN read
    OBVIOUS
  <2>2. PICK f : f = [t \in S |-> NextCursor(t, read, fallback)]
    OBVIOUS
  <2>3. e = [b EXCEPT !.sessions = f]
    BY <1>1, <1>2, <1>5, <2>1, <2>2 DEF Plan
  <2>4. b = [at |-> b.at, sessions |-> b.sessions]
    BY <1>1 DEF PlanReady, BaselineInv
  <2>5. e.sessions = f
    BY <2>3, <2>4
  <2>6. CursorIn(e, s) = NextCursor(s, read, fallback)
    BY <1>5, <2>2, <2>5 DEF CursorIn, SessionsOf
  <2> QED  BY <1>1, <1>2, <1>5, <2>6, NumberedNext
<1> QED  BY <1>3, <1>4, <1>5

(* What a step that changes no cursor keeps *)
LEMMA CountSame ==
    ASSUME CountInv, UNCHANGED <<baseline, queued>>,
           UNCHANGED <<pc, plan, source>> \/ pc' \notin {"append", "commit"}
    PROVE  CountInv'
<1>1. ASSUME NEW d \in Sources, NEW s \in Sessions
      PROVE  Numbered(CursorIn(baseline[d], s), d, s, queued)'
  <2>1. Numbered(CursorIn(baseline[d], s), d, s, queued)
    BY DEF CountInv
  <2> QED  BY <2>1 DEF Numbered, CursorIn, SessionsOf, NoCursor
<1>2. ASSUME (pc \in {"append", "commit"})', NEW s \in Sessions
      PROVE  Numbered(CursorIn(plan.base, s), source, s, queued \cup plan.chunks)'
  <2>1. UNCHANGED <<pc, plan, source>>
    BY <1>2
  <2>2. Numbered(CursorIn(plan.base, s), source, s, queued \cup plan.chunks)
    BY <1>2, <2>1 DEF CountInv
  <2> QED  BY <2>1, <2>2 DEF Numbered, CursorIn, SessionsOf, NoCursor
<1> QED  BY <1>1, <1>2 DEF CountInv, Sources

(* The cursors count chunks of the queue, or of the plan until it is saved.   *)
LEMMA CountKeeps ==
    ASSUME SendInv, CountInv, [Next]_vars
    PROVE  CountInv'
<1>1. SendType
  BY DEF SendInv
<1>2. CASE Codex
  <2>1. UNCHANGED <<baseline, queued, collection>>
    BY <1>2 DEF Codex, List, ChangeDatabase, stored
  <2> QED  BY <2>1, CountSame DEF collection
<1>3. CASE \E ok \in BOOLEAN : ReadState(ok)
  BY <1>3, CountSame DEF ReadState, stored
<1>4. CASE \E d \in scans : \E seen \in SUBSET FilesWithin(d) : Scan(d, seen)
  BY <1>4, CountSame DEF Scan, stored
<1>5. CASE Filter
  <2>1. /\ PlanReady(Read, Fallback, queued, torn)
        /\ IF NothingToSave THEN pc' = "idle" /\ plan' = NoPlan
           ELSE pc' = "append" /\ plan' = Plan(Read, Fallback)
    BY <1>5, FilterPlan
  <2>2. UNCHANGED <<baseline, queued, source>>
    BY <1>5 DEF Filter, stored
  <2>3. CASE NothingToSave
    BY <2>1, <2>2, <2>3, CountSame
  <2>4. CASE ~NothingToSave
    <3>1. plan' = Plan(Read, Fallback)
      BY <2>1, <2>4
    <3>2. ASSUME NEW d \in Sources, NEW s \in Sessions
          PROVE  Numbered(CursorIn(baseline[d], s), d, s, queued)
      BY DEF CountInv
    <3>3. ASSUME NEW s \in Sessions
          PROVE  Numbered(CursorIn(plan'.base, s), source, s, queued \cup plan'.chunks)
      <4>1. source \in Sources
        BY <1>1 DEF SendType
      <4>2. Numbered(CursorIn(baseline[source], s), source, s, queued)
        BY <3>2, <4>1
      <4> QED  BY <2>1, <3>1, <4>2, NumberedPlan
    <3> QED
      BY <2>2, <3>2, <3>3 DEF CountInv, Numbered, CursorIn, SessionsOf, NoCursor, Sources
  <2> QED  BY <2>3, <2>4
<1>6. CASE AppendEvents
  <2>1. /\ pc = "append" /\ queued' = queued \cup plan.chunks
        /\ UNCHANGED <<baseline, plan, source>>
    BY <1>6 DEF AppendEvents
  <2>2. ASSUME NEW d \in Sources, NEW s \in Sessions
        PROVE  Numbered(CursorIn(baseline[d], s), d, s, queued')
    <3>1. Numbered(CursorIn(baseline[d], s), d, s, queued) /\ queued \subseteq queued'
      BY <2>1 DEF CountInv
    <3> QED  BY <3>1, NumberedMore
  <2>3. ASSUME NEW s \in Sessions
        PROVE  Numbered(CursorIn(plan.base, s), source, s, queued' \cup plan.chunks)
    <3>1. queued' \cup plan.chunks = queued \cup plan.chunks
      BY <2>1
    <3> QED  BY <2>1, <3>1 DEF CountInv
  <2> QED  BY <2>1, <2>2, <2>3 DEF CountInv, Numbered, CursorIn, SessionsOf, NoCursor, Sources
<1>7. CASE CommitBaseline
  <2>1. /\ pc = "commit" /\ pc' = "idle" /\ queued' = queued
        /\ baseline' = [baseline EXCEPT ![source] = plan.base]
    BY <1>7 DEF CommitBaseline, End
  <2>2. queued \cup plan.chunks = queued
    BY <2>1 DEF SendInv, PlanInv
  <2>3. ASSUME NEW d \in Sources, NEW s \in Sessions
        PROVE  Numbered(CursorIn(baseline'[d], s), d, s, queued)
    <3>1. CASE d = source
      <4>1. baseline'[d] = plan.base
        BY <1>1, <2>1, <3>1 DEF SendType
      <4> QED  BY <2>1, <2>2, <3>1, <4>1 DEF CountInv
    <3>2. CASE d # source
      <4>1. baseline'[d] = baseline[d]
        BY <1>1, <2>1, <3>2 DEF SendType
      <4> QED  BY <4>1 DEF CountInv
    <3> QED  BY <3>1, <3>2
  <2> QED  BY <2>1, <2>3 DEF CountInv, Numbered, CursorIn, SessionsOf, NoCursor, Sources
<1>8. CASE Abandon
  BY <1>8, CountSame DEF Abandon, End
<1>9. CASE Crash
  BY <1>9, CountSame DEF Crash, End
<1>10. CASE Discover
  BY <1>10, CountSame DEF Discover, stored
<1>11. CASE UNCHANGED vars
  BY <1>11, CountSame DEF vars, stored, collection
<1> QED
  BY <1>2, <1>3, <1>4, <1>5, <1>6, <1>7, <1>8, <1>9, <1>10, <1>11 DEF Next, Collection

-----------------------------------------------------------------------------
(* Chunks and history *)
(* A cursor that has learned a reading keeps it.                           *)
LEMMA SeededHash ==
    ASSUME NEW c \in CursorType, IsInjective(c.versions), NEW msgs \in Seq(Message),
           IsInjective(msgs), NEW s
    PROVE  Seeded(c, msgs).hash = msgs /\ Advanced(c, s, msgs).hash = msgs
<1>1. PICK r : r = Remembered(c, msgs) /\ r \in Cursor
  BY RememberedType DEF CursorType
<1>2. PICK d : d = Seeded(c, msgs) /\ d = [r EXCEPT !.hash = msgs]
  BY <1>1 DEF Seeded
<1>3. d.hash = msgs
  BY <1>1, <1>2 DEF Cursor
<1>4. d \in Cursor
  BY <1>1, <1>2 DEF Cursor
<1>5. Advanced(c, s, msgs) = [d EXCEPT !.sequence = d.sequence + Cardinality(Chunks(s, c, msgs))]
  BY <1>2 DEF Advanced
<1>6. Advanced(c, s, msgs).hash = d.hash
  BY <1>4, <1>5 DEF Cursor
<1> QED  BY <1>2, <1>3, <1>6

(* What it knows then it knew before, or was read.                         *)
LEMMA LearnedKnows ==
    ASSUME NEW c \in CursorType, IsInjective(c.versions), NEW msgs \in Seq(Message),
           IsInjective(msgs), NEW v, v = LastOf(MaxVersions, c.versions \o Unseen(c, msgs))
    PROVE  /\ ToSet(Unseen(c, msgs)) = ToSet(msgs) \ Seen(c)
           /\ ToSet(v) \subseteq Seen(c) \cup ToSet(msgs)
<1>1. PICK u : u = Unseen(c, msgs)
  OBVIOUS
<1>2. u \in Seq(Message) /\ ToSet(u) = ToSet(msgs) \ Seen(c)
  <2>1. PICK T : T = ToSet(msgs) \ Seen(c)
    OBVIOUS
  <2>2. u = Keeping(msgs, T)
    BY <1>1, <2>1 DEF Unseen
  <2>3. ToSet(u) = ToSet(msgs) \cap T
    BY <2>2, KeepSet
  <2> QED  BY <1>1, <2>1, <2>3, UnseenFacts
<1>3. PICK w \in Seq(Message) : w = c.versions \o u /\ v = LastOf(MaxVersions, w)
  BY <1>1, UnseenFacts
<1>4. PICK n \in Nat : n = Len(c.versions) /\ DOMAIN c.versions = 1 .. n
  BY DEF CursorType, Cursor
<1>5. PICK k \in Nat : k = Len(u) /\ DOMAIN u = 1 .. k
  BY <1>2
<1>6. /\ Len(w) = n + k
      /\ \A i \in 1 .. n + k : IF i > n THEN w[i] = u[i - n] /\ i - n \in 1 .. k
                                        ELSE w[i] = c.versions[i] /\ i \in 1 .. n
  <2>1. c.versions \in Seq(Message)
    BY DEF CursorType, Cursor
  <2> QED  BY <1>2, <1>3, <1>4, <1>5, <2>1
<1>7. \A i \in 1 .. n + k : w[i] \in Seen(c) \cup ToSet(u)
  BY <1>4, <1>5, <1>6 DEF Seen, ToSet
<1>8. ASSUME NEW r \in ToSet(v)
      PROVE  r \in Seen(c) \cup ToSet(u)
  <2>1. PICK i \in DOMAIN v : r = v[i]
    BY DEF ToSet
  <2>2. /\ v \in Seq(Message) /\ Len(w) - Len(v) \in Nat
        /\ \A j \in 1 .. Len(v) : v[j] = w[Len(w) - Len(v) + j]
    <3>1. PICK l \in Nat : l = MaxVersions
      BY TranscriptAssumption
    <3>2. v = LastOf(l, w)
      BY <1>3, <3>1
    <3>3. /\ LastOf(l, w) \in Seq(Message) /\ Len(w) - Len(LastOf(l, w)) \in Nat
          /\ \A j \in 1 .. Len(LastOf(l, w)) :
                 LastOf(l, w)[j] = w[Len(w) - Len(LastOf(l, w)) + j]
      BY <1>3, <3>1, LastOfFacts
    <3> QED  BY <3>2, <3>3
  <2>3. PICK l \in Nat : l = Len(v) /\ DOMAIN v = 1 .. l
    BY <2>2
  <2>4. i \in 1 .. l /\ n + k - l \in Nat /\ r = w[n + k - l + i]
    <3>1. Len(w) = n + k
      BY <1>6
    <3>2. i \in 1 .. l /\ Len(v) = l
      BY <2>1, <2>3
    <3>3. n + k - l \in Nat
      BY <2>2, <3>1, <3>2
    <3>4. v[i] = w[n + k - l + i]
      BY <2>2, <3>1, <3>2
    <3> QED  BY <2>1, <3>2, <3>3, <3>4
  <2>5. n + k - l + i \in 1 .. n + k
    BY <2>4
  <2> QED  BY <1>7, <2>4, <2>5
<1> QED  BY <1>1, <1>2, <1>8

(* The empty cursor knows nothing.                                         *)
LEMMA NothingKnown == \A r : ~Knows(NoCursor, r)
<1>1. PICK e : e = << >> /\ DOMAIN e = {}
  OBVIOUS
<1>2. NoCursor.versions = e /\ NoCursor.hash = e
  BY <1>1 DEF NoCursor
<1>3. ToSet(e) = {}
  BY <1>1 DEF ToSet
<1> QED  BY <1>2, <1>3 DEF Knows, Seen

(* More chunks and more history tell what they told before.                *)
LEMMA ToldMore ==
    ASSUME NEW c, NEW d, NEW s, NEW Q, NEW P, Q \subseteq P, NEW H, NEW G, H \subseteq G,
           AllTold(c, d, s, Q, H)
    PROVE  AllTold(c, d, s, P, G)
<1> QED  BY DEF AllTold, Told

(* The history of a plan is what may be left out.                          *)
LEMMA PlanHistory ==
    ASSUME NEW read, NEW fallback, NEW s \in DOMAIN read, NEW r \in ToSet(read[s]),
           \/ baseline[source].at = 0 \/ PassedOver(s)
           \/ s \in fallback \ SessionsOf(baseline[source]) /\ r.at <= baseline[source].at
    PROVE  <<source, s, r>> \in Plan(read, fallback).history
<1>1. <<source, s, r>> \in Past(read, fallback)
  BY DEF Past
<1>2. Plan(read, fallback).history = Past(read, fallback)
  BY DEF Plan
<1> QED  BY <1>1, <1>2

(* What the cursor that a collection finds knows is in the queue or history. *)
LEMMA ToldFound ==
    ASSUME NEW read, NEW fallback, NEW Q, NEW X, PlanReady(read, fallback, Q, X),
           NEW s \in Sessions, NEW H, AllTold(CursorIn(baseline[source], s), source, s, Q, H)
    PROVE  AllTold(CursorOf(s, read, fallback), source, s, Q,
                   H \cup Plan(read, fallback).history)
<1>1. PICK b : b = baseline[source]
  OBVIOUS
<1>2. PICK G : G = H \cup Plan(read, fallback).history
  OBVIOUS
<1>3. CASE s \in SessionsOf(b)
  <2>1. CursorOf(s, read, fallback) = CursorIn(b, s)
    BY <1>1, <1>3 DEF CursorOf, CursorIn
  <2>2. Q \subseteq Q /\ H \subseteq G
    BY <1>2
  <2> QED  BY <1>1, <1>2, <2>1, <2>2, ToldMore
<1>4. CASE s \notin SessionsOf(b) /\ s \in fallback
  <2>1. s \in DOMAIN read
    BY <1>4 DEF PlanReady
  <2>2. PICK msgs \in Seq(Message) : msgs = read[s] /\ IsInjective(msgs)
    BY <2>1, ReadMessages DEF PlanReady
  <2>3. PICK T : T = {r \in ToSet(msgs) : r.at <= b.at}
    OBVIOUS
  <2>4. PICK k : k = Keeping(msgs, T)
    OBVIOUS
  <2>5. k \in Seq(Message) /\ IsInjective(k) /\ ToSet(k) \subseteq T
    <3>1. k \in Seq(Message \cap T) /\ ToSet(k) = ToSet(msgs) \cap T
      BY <2>4, KeepSet
    <3> QED  BY <2>2, <2>4, <3>1, KeepInjective
  <2>6. PICK c : c = CursorOf(s, read, fallback)
    OBVIOUS
  <2>7. c = Remembered(NoCursor, k)
    BY <1>1, <1>4, <2>2, <2>3, <2>4, <2>6 DEF CursorOf, SeededBefore
  <2>8. /\ c.hash = NoCursor.hash
        /\ c.versions = LastOf(MaxVersions, NoCursor.versions \o Unseen(NoCursor, k))
    BY <2>5, <2>7, NoCursorType, RememberedType
  <2>9. ToSet(c.versions) \subseteq Seen(NoCursor) \cup ToSet(k)
    BY <2>5, <2>8, NoCursorType, LearnedKnows
  <2>10. ASSUME NEW r, Knows(c, r)
         PROVE  Told(source, s, r, Q, G)
    <3>1. r \in T
      BY <2>5, <2>8, <2>9, <2>10, NothingKnown DEF Knows, Seen
    <3>2. r \in ToSet(read[s]) /\ r.at <= b.at
      BY <2>2, <2>3, <3>1
    <3>3. <<source, s, r>> \in Plan(read, fallback).history
      BY <1>1, <1>4, <2>1, <3>2, PlanHistory
    <3> QED  BY <1>2, <3>3 DEF Told
  <2> QED  BY <1>2, <2>6, <2>10 DEF AllTold
<1>5. CASE s \notin SessionsOf(b) /\ s \notin fallback
  <2>1. CursorOf(s, read, fallback) = NoCursor
    BY <1>1, <1>5 DEF CursorOf
  <2> QED  BY <2>1, NothingKnown DEF AllTold
<1> QED  BY <1>3, <1>4, <1>5

(* So is what the next cursor knows, when the plan is carried out, and all    *)
(* that was read.                                                          *)
LEMMA ToldNext ==
    ASSUME NEW read, NEW fallback, NEW Q, NEW X, PlanReady(read, fallback, Q, X),
           baseline[source].at # 0, NEW s \in Sessions, NEW H,
           AllTold(CursorIn(baseline[source], s), source, s, Q, H),
           NEW P, P = Plan(read, fallback).chunks,
           NEW G, G = H \cup Plan(read, fallback).history
    PROVE  /\ AllTold(NextCursor(s, read, fallback), source, s, Q \cup P, G)
           /\ s \in DOMAIN read =>
                \A r \in ToSet(read[s]) : Told(source, s, r, Q \cup P, G)
<1>1. PICK b : b = baseline[source]
  OBVIOUS
<1>2. PICK c : c = CursorOf(s, read, fallback)
  OBVIOUS
<1>3. c \in CursorType /\ IsInjective(c.versions) /\ source \in Sources
  BY <1>2, FoundCursor DEF PlanReady
<1>4. AllTold(c, source, s, Q \cup P, G)
  <2>1. AllTold(c, source, s, Q, G) /\ Q \subseteq Q \cup P /\ G \subseteq G
    BY <1>2, ToldFound
  <2> QED  BY <2>1, ToldMore
<1>5. CASE s \notin DOMAIN read
  <2>1. NextCursor(s, read, fallback) = c
    BY <1>2, <1>5 DEF NextCursor
  <2> QED  BY <1>4, <1>5, <2>1
<1>6. CASE s \in DOMAIN read /\ Unchanged(s, read[s])
  <2>1. NextCursor(s, read, fallback) = c
    BY <1>2, <1>6 DEF NextCursor
  <2>2. s \in SessionsOf(b) /\ b.sessions[s].hash = read[s]
    BY <1>1, <1>6 DEF Unchanged
  <2>3. c = b.sessions[s]
    BY <1>1, <1>2, <2>2 DEF CursorOf
  <2>4. \A r \in ToSet(read[s]) : Knows(c, r)
    BY <2>2, <2>3 DEF Knows
  <2> QED  BY <1>4, <2>1, <2>4 DEF AllTold
<1>7. CASE s \in DOMAIN read /\ ~Unchanged(s, read[s])
  <2>1. PICK msgs \in Seq(Message) : msgs = read[s] /\ IsInjective(msgs)
    BY <1>7, ReadMessages DEF PlanReady
  <2>2. PICK v : v = LastOf(MaxVersions, c.versions \o Unseen(c, msgs))
    OBVIOUS
  <2>3. /\ ToSet(Unseen(c, msgs)) = ToSet(msgs) \ Seen(c)
        /\ ToSet(v) \subseteq Seen(c) \cup ToSet(msgs)
    BY <1>3, <2>1, <2>2, LearnedKnows
  <2>4. PICK d : d = NextCursor(s, read, fallback)
    OBVIOUS
  <2>5. d.versions = v /\ d.hash = msgs
    <3>1. d = IF PassedOver(s) THEN Seeded(c, msgs) ELSE Advanced(c, s, msgs)
      BY <1>2, <1>7, <2>1, <2>4 DEF NextCursor
    <3>2. Seeded(c, msgs).hash = msgs /\ Advanced(c, s, msgs).hash = msgs
      BY <1>3, <2>1, SeededHash
    <3>3. Seeded(c, msgs).versions = v
      BY <1>3, <2>1, <2>2, SeededType
    <3>4. Advanced(c, s, msgs).versions = v
      <4>1. Unseen(c, msgs) \in Seq(Message)
        BY <1>3, <2>1, UnseenFacts
      <4>2. PICK ps : ps = Split(Unseen(c, msgs)) /\ ps \in Seq(Parts)
        BY <4>1, SplitParts
      <4> QED  BY <1>3, <2>1, <2>2, <4>2, AdvancedType
    <3> QED  BY <3>1, <3>2, <3>3, <3>4
  <2>6. \A r \in Seen(c) : Told(source, s, r, Q \cup P, G)
    BY <1>4 DEF AllTold, Knows
  <2>7. ASSUME \A r \in ToSet(msgs) : Told(source, s, r, Q \cup P, G)
        PROVE  AllTold(d, source, s, Q \cup P, G)
    BY <2>3, <2>5, <2>6, <2>7 DEF AllTold, Knows, Seen
  <2>8. CASE PassedOver(s)
    <3>1. ASSUME NEW r \in ToSet(msgs)
          PROVE  Told(source, s, r, Q \cup P, G)
      <4>1. <<source, s, r>> \in Plan(read, fallback).history
        BY <1>7, <2>1, <2>8, PlanHistory
      <4> QED  BY <4>1 DEF Told
    <3> QED  BY <2>1, <2>4, <2>7, <3>1
  <2>9. CASE ~PassedOver(s)
    <3>1. ASSUME NEW r \in ToSet(msgs)
          PROVE  Told(source, s, r, Q \cup P, G)
      <4>1. CASE r \in Seen(c)
        BY <2>6, <4>1
      <4>2. CASE r \notin Seen(c)
        <5>1. PICK u \in Seq(Message) : u = Unseen(c, msgs)
          BY <1>3, <2>1, UnseenFacts
        <5>2. PICK i \in DOMAIN u : r = u[i]
          BY <2>3, <4>2, <5>1 DEF ToSet
        <5>3. PICK ps : ps = Split(u) /\ ps \in Seq(Parts)
          BY <5>1, SplitParts
        <5>4. PICK g : Spread(g, u, ps)
          BY <5>1, <5>3, SplitSpread
        <5>5. g[i] \in DOMAIN ps /\ r \in ToSet(ps[g[i]])
          BY <5>2, <5>4 DEF Spread
        <5>6. PICK q : q = ChunkOf(s, c, ps, g[i])
          OBVIOUS
        <5>7. q \in Chunks(s, c, msgs)
          BY <1>3, <5>1, <5>3, <5>5, <5>6, ChunksFacts
        <5>8. Of(source, s, P) = Chunks(s, c, msgs)
          BY <1>2, <1>7, <2>1, <2>9, PlanChunks DEF Queues
        <5>9. q \in P /\ q.source = source /\ q.sid = s
          BY <5>7, <5>8 DEF Of
        <5>10. r \in ToSet(q.msgs)
          BY <5>5, <5>6 DEF ChunkOf
        <5> QED  BY <5>9, <5>10 DEF Told
      <4> QED  BY <4>1, <4>2
    <3> QED  BY <2>1, <2>4, <2>7, <3>1
  <2> QED  BY <2>8, <2>9
<1> QED  BY <1>5, <1>6, <1>7

(* So is what the cursors of the next baseline know.                       *)
LEMMA ToldPlan ==
    ASSUME NEW read, NEW fallback, NEW Q, NEW X, PlanReady(read, fallback, Q, X),
           NEW s \in Sessions, NEW H, AllTold(CursorIn(baseline[source], s), source, s, Q, H),
           NEW P, P = Plan(read, fallback).chunks,
           NEW G, G = H \cup Plan(read, fallback).history
    PROVE  /\ AllTold(CursorIn(Plan(read, fallback).base, s), source, s, Q \cup P, G)
           /\ s \in DOMAIN read =>
                \A r \in ToSet(read[s]) : Told(source, s, r, Q \cup P, G)
<1>1. PICK b : b = baseline[source]
  OBVIOUS
<1>2. PICK e : e = Plan(read, fallback).base
  OBVIOUS
<1>3. CASE b.at = 0
  <2>1. s \in DOMAIN read => \A r \in ToSet(read[s]) : Told(source, s, r, Q \cup P, G)
    BY <1>1, <1>3, PlanHistory DEF Told
  <2>2. e = Initialized(read)
    BY <1>1, <1>2, <1>3 DEF Plan
  <2>3. CASE s \in DOMAIN read
    <3>1. PICK msgs \in Seq(Message) : msgs = read[s] /\ IsInjective(msgs)
      BY <2>3, ReadMessages DEF PlanReady
    <3>2. CursorIn(e, s) = Seeded(NoCursor, msgs)
      BY <2>2, <2>3, <3>1 DEF CursorIn, Initialized, SessionsOf
    <3>3. PICK v : v = LastOf(MaxVersions, NoCursor.versions \o Unseen(NoCursor, msgs))
      OBVIOUS
    <3>4. Seeded(NoCursor, msgs).versions = v /\ Seeded(NoCursor, msgs).hash = msgs
      BY <3>1, <3>3, NoCursorType, SeededType, SeededHash
    <3>5. ToSet(v) \subseteq Seen(NoCursor) \cup ToSet(msgs)
      BY <3>1, <3>3, NoCursorType, LearnedKnows
    <3>6. \A r : Knows(CursorIn(e, s), r) => r \in ToSet(msgs)
      BY <3>2, <3>4, <3>5, NothingKnown DEF Knows, Seen
    <3> QED  BY <1>2, <2>1, <2>3, <3>1, <3>6 DEF AllTold
  <2>4. CASE s \notin DOMAIN read
    <3>1. CursorIn(e, s) = NoCursor
      BY <2>2, <2>4 DEF CursorIn, Initialized, SessionsOf
    <3> QED  BY <1>2, <2>4, <3>1, NothingKnown DEF AllTold
  <2> QED  BY <2>3, <2>4
<1>4. CASE b.at # 0
  <2>1. /\ AllTold(NextCursor(s, read, fallback), source, s, Q \cup P, G)
        /\ s \in DOMAIN read =>
             \A r \in ToSet(read[s]) : Told(source, s, r, Q \cup P, G)
    BY <1>1, <1>4, ToldNext
  <2>2. PICK S : S = DOMAIN b.sessions \cup Listed \cup DOMAIN read
    OBVIOUS
  <2>3. PICK f : f = [t \in S |-> NextCursor(t, read, fallback)]
    OBVIOUS
  <2>4. e = [b EXCEPT !.sessions = f]
    BY <1>1, <1>2, <1>4, <2>2, <2>3 DEF Plan
  <2>5. b = [at |-> b.at, sessions |-> b.sessions]
    BY <1>1 DEF PlanReady, BaselineInv
  <2>6. e.sessions = f
    BY <2>4, <2>5
  <2>7. CursorIn(e, s) = NextCursor(s, read, fallback) \/ CursorIn(e, s) = NoCursor
    BY <2>3, <2>6 DEF CursorIn, SessionsOf
  <2>8. AllTold(CursorIn(e, s), source, s, Q \cup P, G)
    BY <2>1, <2>7, NothingKnown DEF AllTold
  <2> QED  BY <1>2, <2>1, <2>8
<1> QED  BY <1>3, <1>4

(* What a step that changes neither cursors nor history keeps *)
LEMMA KnownSame ==
    ASSUME KnownInv, UNCHANGED <<baseline, queued, history>>,
           UNCHANGED <<pc, plan, source>> \/ pc' \notin {"append", "commit"}
    PROVE  KnownInv'
<1>1. ASSUME NEW d \in Sources, NEW s \in Sessions
      PROVE  AllTold(CursorIn(baseline[d], s), d, s, queued, history)'
  <2>1. AllTold(CursorIn(baseline[d], s), d, s, queued, history)
    BY DEF KnownInv
  <2> QED  BY <2>1 DEF AllTold, Told, Knows, Seen, CursorIn, SessionsOf, NoCursor
<1>2. ASSUME (pc \in {"append", "commit"})', NEW s \in Sessions
      PROVE  AllTold(CursorIn(plan.base, s), source, s, queued \cup plan.chunks,
                     history \cup plan.history)'
  <2>1. UNCHANGED <<pc, plan, source>>
    BY <1>2
  <2>2. AllTold(CursorIn(plan.base, s), source, s, queued \cup plan.chunks,
                history \cup plan.history)
    BY <1>2, <2>1 DEF KnownInv
  <2> QED  BY <2>1, <2>2 DEF AllTold, Told, Knows, Seen, CursorIn, SessionsOf, NoCursor
<1> QED  BY <1>1, <1>2 DEF KnownInv, Sources

(* The cursors know what is in the queue, in the plan, or history.         *)
LEMMA KnownKeeps ==
    ASSUME SendInv, KnownInv, [Next]_vars
    PROVE  KnownInv'
<1>1. SendType
  BY DEF SendInv
<1>2. CASE Codex
  <2>1. UNCHANGED <<baseline, queued, history, collection>>
    BY <1>2 DEF Codex, List, ChangeDatabase, stored
  <2> QED  BY <2>1, KnownSame DEF collection
<1>3. CASE \E ok \in BOOLEAN : ReadState(ok)
  BY <1>3, KnownSame DEF ReadState, stored
<1>4. CASE \E d \in scans : \E seen \in SUBSET FilesWithin(d) : Scan(d, seen)
  BY <1>4, KnownSame DEF Scan, stored
<1>5. CASE Filter
  <2>1. /\ PlanReady(Read, Fallback, queued, torn)
        /\ IF NothingToSave THEN pc' = "idle" /\ plan' = NoPlan
           ELSE pc' = "append" /\ plan' = Plan(Read, Fallback)
    BY <1>5, FilterPlan
  <2>2. UNCHANGED <<baseline, queued, history, source>>
    BY <1>5 DEF Filter, stored
  <2>3. CASE NothingToSave
    BY <2>1, <2>2, <2>3, KnownSame
  <2>4. CASE ~NothingToSave
    <3>1. plan' = Plan(Read, Fallback)
      BY <2>1, <2>4
    <3>2. ASSUME NEW d \in Sources, NEW s \in Sessions
          PROVE  AllTold(CursorIn(baseline[d], s), d, s, queued, history)
      BY DEF KnownInv
    <3>3. ASSUME NEW s \in Sessions
          PROVE  AllTold(CursorIn(plan'.base, s), source, s, queued \cup plan'.chunks,
                         history \cup plan'.history)
      <4>1. source \in Sources
        BY <1>1 DEF SendType
      <4>2. AllTold(CursorIn(baseline[source], s), source, s, queued, history)
        BY <3>2, <4>1
      <4> QED  BY <2>1, <3>1, <4>2, ToldPlan
    <3> QED
      BY <2>2, <3>2, <3>3 DEF KnownInv, AllTold, Told, Knows, Seen, CursorIn, SessionsOf,
                              NoCursor, Sources
  <2> QED  BY <2>3, <2>4
<1>6. CASE AppendEvents
  <2>1. /\ pc = "append" /\ queued' = queued \cup plan.chunks
        /\ UNCHANGED <<baseline, history, plan, source>>
    BY <1>6 DEF AppendEvents
  <2>2. ASSUME NEW d \in Sources, NEW s \in Sessions
        PROVE  AllTold(CursorIn(baseline[d], s), d, s, queued', history)
    <3>1. /\ AllTold(CursorIn(baseline[d], s), d, s, queued, history)
          /\ queued \subseteq queued' /\ history \subseteq history
      BY <2>1 DEF KnownInv
    <3> QED  BY <3>1, ToldMore
  <2>3. ASSUME NEW s \in Sessions
        PROVE  AllTold(CursorIn(plan.base, s), source, s, queued' \cup plan.chunks,
                       history \cup plan.history)
    <3>1. queued' \cup plan.chunks = queued \cup plan.chunks
      BY <2>1
    <3> QED  BY <2>1, <3>1 DEF KnownInv
  <2> QED
    BY <2>1, <2>2, <2>3 DEF KnownInv, AllTold, Told, Knows, Seen, CursorIn, SessionsOf,
                            NoCursor, Sources
<1>7. CASE CommitBaseline
  <2>1. /\ pc = "commit" /\ pc' = "idle" /\ queued' = queued
        /\ baseline' = [baseline EXCEPT ![source] = plan.base]
        /\ history' = history \cup plan.history
    BY <1>7 DEF CommitBaseline, End
  <2>2. queued \cup plan.chunks = queued
    BY <2>1 DEF SendInv, PlanInv
  <2>3. ASSUME NEW d \in Sources, NEW s \in Sessions
        PROVE  AllTold(CursorIn(baseline'[d], s), d, s, queued, history')
    <3>1. CASE d = source
      <4>1. baseline'[d] = plan.base
        BY <1>1, <2>1, <3>1 DEF SendType
      <4> QED  BY <2>1, <2>2, <3>1, <4>1 DEF KnownInv
    <3>2. CASE d # source
      <4>1. baseline'[d] = baseline[d]
        BY <1>1, <2>1, <3>2 DEF SendType
      <4>2. AllTold(CursorIn(baseline[d], s), d, s, queued, history)
        BY DEF KnownInv
      <4> QED  BY <2>1, <4>1, <4>2, ToldMore
    <3> QED  BY <3>1, <3>2
  <2> QED
    BY <2>1, <2>3 DEF KnownInv, AllTold, Told, Knows, Seen, CursorIn, SessionsOf, NoCursor,
                      Sources
<1>8. CASE Abandon
  BY <1>8, KnownSame DEF Abandon, End
<1>9. CASE Crash
  BY <1>9, KnownSame DEF Crash, End
<1>10. CASE Discover
  BY <1>10, KnownSame DEF Discover, stored
<1>11. CASE UNCHANGED vars
  BY <1>11, KnownSame DEF vars, stored, collection
<1> QED
  BY <1>2, <1>3, <1>4, <1>5, <1>6, <1>7, <1>8, <1>9, <1>10, <1>11 DEF Next, Collection

-----------------------------------------------------------------------------
(* Codex and the files *)
SizeOf(file) == Len(file.records) + (IF file.whole THEN 1 ELSE 0)

(* The home of the session of a path *)
HomeOf(p) == home[SessionOf[p]]

(* What a file is after it was written *)
LEMMA WriteFacts ==
    ASSUME DiscoveryTypeOK, NEW p \in Paths, NEW file \in Rollout, Write(p, file)
    PROVE  /\ now \in Nat /\ now' = now + 1 /\ UNCHANGED <<world, cache, dirSeen>>
           /\ DOMAIN files' = DOMAIN files \cup {p}
           /\ files'[p].whole = file.whole /\ files'[p].mtime = now' /\ Size(p)' = SizeOf(file)
           /\ \A q \in DOMAIN files \ {p} : files'[q] = files[q] /\ Size(q)' = Size(q)
<1>1. /\ now' = now + 1 /\ UNCHANGED <<world, cache, dirSeen>>
      /\ files' = Put(files, p, [file EXCEPT !.mtime = now'])
  BY DEF Write, cacheVars
<1>2. now \in Nat
  BY ClockTypes
<1>3. PICK f : f = [file EXCEPT !.mtime = now']
  OBVIOUS
<1>4. f.whole = file.whole /\ f.mtime = now' /\ f.records = file.records
  BY <1>3 DEF Rollout
<1>5. files' = [x \in DOMAIN files \cup {p} |-> IF x = p THEN f ELSE files[x]]
  BY <1>1, <1>3 DEF Put
<1>6. /\ DOMAIN files' = DOMAIN files \cup {p} /\ files'[p] = f
      /\ \A q \in DOMAIN files \ {p} : files'[q] = files[q]
  BY <1>5
<1>7. Size(p)' = SizeOf(file)
  BY <1>4, <1>6 DEF Size, SizeOf
<1>8. \A q \in DOMAIN files \ {p} : Size(q)' = Size(q)
  BY <1>6 DEF Size
<1> QED  BY <1>1, <1>2, <1>4, <1>6, <1>7, <1>8

(* The times of a path are the times of things that happened.              *)
LEMMA TimesThere ==
    ASSUME FileInv, CacheInv, NEW p
    PROVE  TimesOf(p) \subseteq 1 .. now
<1> QED  BY DEF TimesOf, FileInv, CacheInv

(* The order of a session's files is kept when files that it left do not      *)
(* change, and the one it goes on in is one of before, or all its times are  *)
(* new.                                                                    *)
LEMMA OrderKept ==
    ASSUME DiscoveryTypeOK, FileInv, CacheInv, now' \in Nat, now <= now', cache' = cache,
           named \subseteq named',
           \A p \in named' : p # HomeOf(p)' =>
                /\ p \in named /\ TimesOf(p)' \subseteq TimesOf(p)
                /\ \A n \in TimesOf(HomeOf(p))' :
                      \/ n = now' /\ now < now'
                      \/ p # HomeOf(p) /\ n \in TimesOf(HomeOf(p))
    PROVE  CacheInv'
<1>1. now \in Nat
  BY ClockTypes
<1>2. DOMAIN cache' \subseteq named'
  BY DEF CacheInv
<1>3. \A p \in DOMAIN cache' : cache'[p].mtime \in 1 .. now' /\ cache'[p].size \in 0 .. now'
  <2>1. \A p \in DOMAIN cache : cache[p].mtime \in 1 .. now /\ cache[p].size \in 0 .. now
    BY DEF CacheInv
  <2> QED  BY <1>1, <2>1
<1>4. ASSUME NEW p \in named', p # HomeOf(p)', NEW m \in TimesOf(p)', NEW n \in TimesOf(HomeOf(p))'
      PROVE  m < n
  <2>1. m \in TimesOf(p) /\ p \in named
    BY <1>4
  <2>2. m \in 1 .. now
    BY <2>1, TimesThere
  <2>3. CASE n = now' /\ now < now'
    BY <1>1, <2>2, <2>3
  <2>4. CASE p # HomeOf(p) /\ n \in TimesOf(HomeOf(p))
    BY <2>1, <2>4 DEF CacheInv, HomeOf
  <2> QED  BY <1>4, <2>3, <2>4
<1> QED  BY <1>2, <1>3, <1>4 DEF CacheInv, HomeOf

(* A directory that has a new entry is not as it was seen.                 *)
LEMMA DirsKept ==
    ASSUME DiscoveryTypeOK, DirInv, now' \in Nat, now <= now', UNCHANGED <<cache, dirSeen>>,
           \A d \in Directories : dirTime'[d] = dirTime[d] \/ (dirTime'[d] = now' /\ now < now'),
           \A d \in Directories : dirTime'[d] # 0 /\ dirTime[d] = 0 =>
                                      dirTime'[Root] = now' /\ now < now',
           \A p \in DOMAIN files' \ DOMAIN files : dirTime'[DirOf[p]] = now' /\ now < now',
           DOMAIN files' \subseteq Paths
    PROVE  DirInv'
<1>1. /\ now \in Nat /\ dirTime \in [Directories -> 0 .. now]
      /\ DOMAIN dirSeen \subseteq Directories /\ dirSeen \in [DOMAIN dirSeen -> 1 .. now]
  BY ClockTypes DEF DiscoveryTypeOK
<1>2. ASSUME NEW d \in DOMAIN dirSeen
      PROVE  dirSeen[d] \in 1 .. now /\ dirTime[d] \in 0 .. now /\ d \in Directories
  BY <1>1
<1>3. \A d \in DOMAIN dirSeen : dirSeen[d] <= dirTime'[d]
  <2> TAKE d \in DOMAIN dirSeen
  <2>1. dirSeen[d] <= dirTime[d]
    BY DEF DirInv
  <2> QED  BY <1>1, <1>2, <2>1
<1>4. ASSUME NEW d, AsSeen(d)'
      PROVE  AsSeen(d) /\ ~(dirTime'[d] = now' /\ now < now')
  <2>1. d \in DOMAIN dirSeen /\ dirSeen[d] = dirTime'[d]
    BY <1>4 DEF AsSeen
  <2>2. dirSeen[d] \in 1 .. now
    BY <1>2, <2>1
  <2>3. ~(dirTime'[d] = now' /\ now < now')
    BY <1>1, <2>1, <2>2
  <2>4. dirTime'[d] = dirTime[d]
    BY <1>2, <2>1, <2>3
  <2> QED  BY <2>1, <2>3, <2>4 DEF AsSeen
<1>5. ASSUME AsSeen(Root)', NEW d \in Directories, dirTime'[d] # 0
      PROVE  d \in DOMAIN dirSeen
  <2>1. AsSeen(Root) /\ dirTime[d] # 0
    BY <1>4, <1>5
  <2> QED  BY <2>1 DEF DirInv
<1>6. ASSUME NEW p \in DOMAIN files', AsSeen(DirOf[p])'
      PROVE  p \in DOMAIN cache
  <2>1. AsSeen(DirOf[p]) /\ p \in DOMAIN files
    BY <1>4, <1>6
  <2> QED  BY <2>1 DEF DirInv
<1> QED  BY <1>3, <1>5, <1>6 DEF DirInv, Directories, Days

(* What is due stays to be found while files are written and go, and homes    *)
(* change to new names.                                                    *)
LEMMA DueKept ==
    ASSUME DueInv, UNCHANGED <<cache, queued, history, collection>>,
           DOMAIN home \subseteq DOMAIN home', named \subseteq named',
           \A s \in DOMAIN home : home'[s] \in named => home'[s] = home[s],
           \A p \in named \cap DOMAIN files' :
                p \in DOMAIN files /\ (files[p].whole => files'[p].whole),
           \A d \in Directories : dirTime[d] # 0 => dirTime'[d] # 0
    PROVE  DueInv'
<1>1. UNCHANGED <<pc, source, stateRead, payloads, scans, plan, due>>
  BY DEF collection
<1>2. ASSUME pc \in {"discover", "scan"}, NEW e \in due
      PROVE  /\ e[1] \in DOMAIN home' /\ e[2] \in named'
             /\ e[1] \in DOMAIN payloads => e[3] \in ToSet(payloads[e[1]])
             /\ e[2] = home'[e[1]] /\ e[2] \in DOMAIN files' =>
                    /\ e[2] = home[e[1]] /\ e[2] \in DOMAIN files /\ files'[e[2]].whole
  BY <1>2 DEF DueInv
<1>3. ASSUME pc = "scan", NEW e \in due
      PROVE  ToFind(e[1], e[2])'
  <2>1. \A d : Within(d) \subseteq Within(d)'
    BY DEF Within, Directories, Days
  <2>2. ToFind(e[1], e[2])
    BY <1>3 DEF DueInv
  <2> QED  BY <1>1, <1>2, <1>3, <2>1, <2>2 DEF ToFind
<1>4. ASSUME pc \in {"append", "commit"}, NEW e \in due
      PROVE  Accounted(e[1], e[3])'
  <2>1. Accounted(e[1], e[3])
    BY <1>4 DEF DueInv
  <2> QED  BY <1>1, <2>1 DEF Accounted, Sent
<1>5. /\ pc = "idle" => due = {}
      /\ pc \in {"discover", "scan"} => (~stateRead => DOMAIN payloads = {})
  BY DEF DueInv
<1> QED  BY <1>1, <1>2, <1>3, <1>4, <1>5 DEF DueInv

(* A session goes on in its file.                                          *)
LEMMA GoesOn ==
    ASSUME DiscoveryTypeOK, FoundInv, NEW p \in DOMAIN files, p = HomeOf(p),
           NEW file \in Rollout, Write(p, file), SizeOf(file) <= now + 1,
           files[p].whole => file.whole,
           UNCHANGED <<named, dirTime, home, rows, queued, history, collection>>
    PROVE  FoundInv'
<1>1. FileInv /\ CacheInv /\ DirInv /\ DueInv
  BY DEF FoundInv
<1>2. /\ named \subseteq Paths /\ DOMAIN files \subseteq named /\ p \in Paths
      /\ dirTime \in [Directories -> 0 .. now]
  BY DEF DiscoveryTypeOK
<1>3. /\ now \in Nat /\ now' = now + 1 /\ UNCHANGED <<world, cache, dirSeen>>
      /\ DOMAIN files' = DOMAIN files
      /\ files'[p].whole = file.whole /\ files'[p].mtime = now' /\ Size(p)' <= now'
      /\ \A q \in DOMAIN files \ {p} : files'[q] = files[q] /\ Size(q)' = Size(q)
  BY <1>2, WriteFacts
<1>4. \A q : HomeOf(q)' = HomeOf(q)
  BY DEF HomeOf
<1>5. FileInv'
  <2>1. ASSUME NEW q \in DOMAIN files
        PROVE  /\ files'[q].mtime \in 1 .. now' /\ Size(q)' <= files'[q].mtime
               /\ dirTime'[DirOf[q]] # 0
               /\ q # HomeOf(q) => files'[q].whole
    <3>1. /\ files[q].mtime \in 1 .. now /\ Size(q) <= files[q].mtime
          /\ dirTime[DirOf[q]] # 0 /\ (q # HomeOf(q) => files[q].whole)
      BY <1>1 DEF FileInv, HomeOf
    <3>2. CASE q = p
      BY <1>3, <3>1, <3>2
    <3>3. CASE q # p
      BY <1>3, <3>1, <3>3
    <3> QED  BY <3>2, <3>3
  <2> QED  BY <1>1, <1>3, <2>1 DEF FileInv, HomeOf
<1>6. CacheInv'
  <2>1. ASSUME NEW q \in named, q # HomeOf(q)
        PROVE  /\ TimesOf(q)' \subseteq TimesOf(q)
               /\ \A n \in TimesOf(HomeOf(q))' : n = now' \/ n \in TimesOf(HomeOf(q))
    <3>1. q # p
      BY <2>1
    <3>2. TimesOf(q)' \subseteq TimesOf(q)
      BY <1>3, <3>1 DEF TimesOf
    <3>3. PICK h : h = HomeOf(q)
      OBVIOUS
    <3>4. \A n \in TimesOf(h)' : n = now' \/ n \in TimesOf(h)
      BY <1>3 DEF TimesOf
    <3>5. TimesOf(HomeOf(q))' = TimesOf(h)'
      BY <1>4, <3>3 DEF TimesOf
    <3> QED  BY <3>2, <3>3, <3>4, <3>5
  <2> QED  BY <1>1, <1>3, <1>4, <2>1, OrderKept
<1>7. DirInv'
  <2>1. DOMAIN files' \subseteq Paths
    BY <1>2, <1>3
  <2> QED  BY <1>1, <1>3, <2>1, DirsKept
<1>8. DueInv'
  BY <1>1, <1>3, DueKept
<1> QED  BY <1>5, <1>6, <1>7, <1>8 DEF FoundInv

(* A session begins, or goes on in a new file.                             *)
LEMMA GoesToNew ==
    ASSUME DiscoveryTypeOK, FoundInv, NEW s \in Sessions, NEW p \in Paths,
           NEW file \in Rollout, WriteNew(s, p, file), SizeOf(file) <= now + 1,
           s \in DOMAIN home => IsOpen(s),
           UNCHANGED <<rows, queued, history, collection>>
    PROVE  FoundInv'
<1>1. FileInv /\ CacheInv /\ DirInv /\ DueInv
  BY DEF FoundInv
<1>2. /\ named \subseteq Paths /\ DOMAIN files \subseteq named
      /\ dirTime \in [Directories -> 0 .. now] /\ DOMAIN home \subseteq Sessions
  BY DEF DiscoveryTypeOK
<1>3. /\ p \notin named /\ SessionOf[p] = s /\ Write(p, file) /\ named' = named \cup {p}
      /\ home' = [x \in DOMAIN home \cup {s} |-> IF x = s THEN p ELSE home[x]]
      /\ dirTime' = [d \in Directories |->
                       IF d = DirOf[p] \/ (d = Root /\ dirTime[DirOf[p]] = 0)
                       THEN now' ELSE dirTime[d]]
  BY DEF WriteNew, Put
<1>4. /\ now \in Nat /\ now' = now + 1 /\ UNCHANGED <<world, cache, dirSeen>>
      /\ DOMAIN files' = DOMAIN files \cup {p}
      /\ files'[p].whole = file.whole /\ files'[p].mtime = now' /\ Size(p)' <= now'
      /\ \A q \in DOMAIN files \ {p} : files'[q] = files[q] /\ Size(q)' = Size(q)
  BY <1>3, WriteFacts
<1>5. DirOf[p] \in Directories /\ Root \in Directories /\ now' # 0 /\ now < now' /\ now' \in Nat
  BY <1>4, PathsHaveDays, RootIsDirectory
<1>6. \A x \in DOMAIN home : home[x] \in named /\ home[x] # p /\ SessionOf[home[x]] = x
  BY <1>1, <1>3 DEF FileInv
<1>7. \A q \in named : /\ SessionOf[q] \in DOMAIN home
                       /\ HomeOf(q)' = IF SessionOf[q] = s THEN p ELSE HomeOf(q)
  BY <1>1, <1>3 DEF FileInv, HomeOf
<1>8. HomeOf(p)' = p
  BY <1>3 DEF HomeOf
<1>9. \A d \in Directories : dirTime[d] # 0 => dirTime'[d] # 0
  BY <1>3, <1>5
<1>10. FileInv'
  <2>1. ASSUME NEW q \in DOMAIN files'
        PROVE  /\ files'[q].mtime \in 1 .. now' /\ Size(q)' <= files'[q].mtime
               /\ dirTime'[DirOf[q]] # 0
               /\ q # HomeOf(q)' => files'[q].whole
    <3>1. CASE q = p
      BY <1>3, <1>4, <1>5, <1>8, <3>1
    <3>2. CASE q # p
      <4>1. q \in DOMAIN files /\ files'[q] = files[q] /\ Size(q)' = Size(q) /\ q \in named
        BY <1>2, <1>4, <3>2
      <4>2. /\ files[q].mtime \in 1 .. now /\ Size(q) <= files[q].mtime
            /\ dirTime[DirOf[q]] # 0 /\ (q # HomeOf(q) => files[q].whole)
        BY <1>1, <4>1 DEF FileInv, HomeOf
      <4>3. DirOf[q] \in Directories
        BY <1>2, <4>1, PathsHaveDays
      <4>4. q # HomeOf(q)' => files[q].whole
        <5>1. CASE SessionOf[q] = s /\ q = HomeOf(q)
          <6>1. s \in DOMAIN home /\ q = home[s]
            BY <1>7, <4>1, <5>1 DEF HomeOf
          <6> QED  BY <6>1 DEF IsOpen
        <5>2. CASE ~(SessionOf[q] = s /\ q = HomeOf(q))
          BY <1>7, <4>1, <4>2, <5>2
        <5> QED  BY <5>1, <5>2
      <4>5. files[q].mtime \in 1 .. now'
        BY <1>4, <4>2
      <4> QED  BY <1>9, <4>1, <4>2, <4>3, <4>4, <4>5
    <3> QED  BY <3>1, <3>2
  <2>2. \A x \in DOMAIN home' : home'[x] \in named' /\ SessionOf[home'[x]] = x
    BY <1>3, <1>6
  <2>3. \A q \in named' : SessionOf[q] \in DOMAIN home'
    BY <1>3, <1>7
  <2>4. \A d \in Sources : rows'[d] \subseteq DOMAIN home'
    BY <1>1, <1>3 DEF FileInv
  <2> QED  BY <2>1, <2>2, <2>3, <2>4 DEF FileInv, HomeOf, Sources
<1>11. CacheInv'
  <2>1. ASSUME NEW q \in named', q # HomeOf(q)'
        PROVE  /\ q \in named /\ TimesOf(q)' \subseteq TimesOf(q)
               /\ \A n \in TimesOf(HomeOf(q))' :
                      \/ n = now' /\ now < now'
                      \/ q # HomeOf(q) /\ n \in TimesOf(HomeOf(q))
    <3>1. q \in named /\ q # p
      BY <1>3, <1>8, <2>1
    <3>2. TimesOf(q)' \subseteq TimesOf(q)
      BY <1>4, <3>1 DEF TimesOf
    <3>3. PICK h : h = HomeOf(q)'
      OBVIOUS
    <3>4. TimesOf(HomeOf(q))' = TimesOf(h)'
      BY <3>3 DEF TimesOf
    <3>5. CASE SessionOf[q] = s
      <4>1. h = p /\ p \notin DOMAIN cache
        BY <1>1, <1>3, <1>7, <3>1, <3>3, <3>5 DEF CacheInv
      <4>2. \A n \in TimesOf(p)' : n = now'
        BY <1>4, <4>1 DEF TimesOf
      <4>3. TimesOf(HomeOf(q))' = TimesOf(p)'
        BY <3>4, <4>1 DEF TimesOf
      <4> QED  BY <1>5, <3>1, <3>2, <4>2, <4>3
    <3>6. CASE SessionOf[q] # s
      <4>1. h = HomeOf(q) /\ h # p
        BY <1>6, <1>7, <3>1, <3>3, <3>6 DEF HomeOf
      <4>2. TimesOf(h)' \subseteq TimesOf(h)
        BY <1>4, <4>1 DEF TimesOf
      <4> QED  BY <2>1, <3>1, <3>2, <3>3, <3>4, <4>1, <4>2
    <3> QED  BY <3>5, <3>6
  <2>2. named \subseteq named' /\ now <= now'
    BY <1>3, <1>4, <1>5
  <2> QED  BY <1>1, <1>4, <1>5, <2>1, <2>2, OrderKept
<1>12. DirInv'
  <2>1. \A d \in Directories : dirTime'[d] = dirTime[d] \/ (dirTime'[d] = now' /\ now < now')
    BY <1>3, <1>5
  <2>2. \A d \in Directories : dirTime'[d] # 0 /\ dirTime[d] = 0 =>
                                  dirTime'[Root] = now' /\ now < now'
    BY <1>3, <1>5
  <2>3. \A q \in DOMAIN files' \ DOMAIN files : dirTime'[DirOf[q]] = now' /\ now < now'
    BY <1>3, <1>4, <1>5
  <2>4. DOMAIN files' \subseteq Paths /\ now <= now'
    BY <1>2, <1>4, <1>5
  <2> QED  BY <1>1, <1>4, <1>5, <2>1, <2>2, <2>3, <2>4, DirsKept
<1>13. DueInv'
  <2>1. \A x \in DOMAIN home : home'[x] \in named => home'[x] = home[x]
    BY <1>3
  <2>2. \A q \in named \cap DOMAIN files' :
            q \in DOMAIN files /\ (files[q].whole => files'[q].whole)
    BY <1>3, <1>4
  <2>3. DOMAIN home \subseteq DOMAIN home' /\ named \subseteq named'
    BY <1>3
  <2> QED  BY <1>1, <1>4, <1>9, <2>1, <2>2, <2>3, DueKept
<1> QED  BY <1>10, <1>11, <1>12, <1>13 DEF FoundInv

(* A file is taken away.                                                   *)
LEMMA GoesAway ==
    ASSUME DiscoveryTypeOK, FoundInv, NEW p \in Paths, Archive(p),
           UNCHANGED <<rows, queued, history, collection>>
    PROVE  FoundInv'
<1>1. FileInv /\ CacheInv /\ DirInv /\ DueInv
  BY DEF FoundInv
<1>2. /\ named \subseteq Paths /\ DOMAIN files \subseteq named
      /\ dirTime \in [Directories -> 0 .. now]
  BY DEF DiscoveryTypeOK
<1>3. /\ p \in DOMAIN files /\ now' = now + 1
      /\ files' = [q \in DOMAIN files \ {p} |-> files[q]]
      /\ dirTime' = [dirTime EXCEPT ![DirOf[p]] = now']
      /\ UNCHANGED <<world, named, home, cache, dirSeen>>
  BY DEF Archive, cacheVars
<1>4. /\ now \in Nat /\ now' \in Nat /\ now < now' /\ now <= now' /\ now' # 0
      /\ DOMAIN files' = DOMAIN files \ {p}
      /\ \A q \in DOMAIN files' : q \in DOMAIN files /\ files'[q] = files[q] /\ Size(q)' = Size(q)
  BY <1>3, ClockTypes DEF Size
<1>5. DirOf[p] \in Directories /\ dirTime[DirOf[p]] # 0
  BY <1>1, <1>3, PathsHaveDays DEF FileInv
<1>6. \A d \in Directories : dirTime'[d] = IF d = DirOf[p] THEN now' ELSE dirTime[d]
  BY <1>2, <1>3
<1>7. \A q : HomeOf(q)' = HomeOf(q)
  BY <1>3 DEF HomeOf
<1>8. FileInv'
  <2>1. ASSUME NEW q \in DOMAIN files'
        PROVE  /\ files'[q].mtime \in 1 .. now' /\ Size(q)' <= files'[q].mtime
               /\ dirTime'[DirOf[q]] # 0
               /\ q # HomeOf(q)' => files'[q].whole
    <3>1. /\ files[q].mtime \in 1 .. now /\ Size(q) <= files[q].mtime
          /\ dirTime[DirOf[q]] # 0 /\ (q # HomeOf(q) => files[q].whole)
      BY <1>1, <1>4 DEF FileInv, HomeOf
    <3>2. DirOf[q] \in Directories
      BY <1>2, <1>4, PathsHaveDays
    <3>3. dirTime'[DirOf[q]] # 0
      BY <1>4, <1>6, <3>1, <3>2
    <3>4. files[q].mtime \in 1 .. now'
      BY <1>4, <3>1
    <3> QED  BY <1>4, <1>7, <3>1, <3>3, <3>4
  <2> QED  BY <1>1, <1>3, <2>1 DEF FileInv, HomeOf
<1>9. CacheInv'
  <2>1. \A q : TimesOf(q)' \subseteq TimesOf(q)
    BY <1>3, <1>4 DEF TimesOf
  <2>2. \A q : TimesOf(HomeOf(q))' \subseteq TimesOf(HomeOf(q))
    <3> TAKE q
    <3>1. PICK h : h = HomeOf(q)
      OBVIOUS
    <3>2. TimesOf(HomeOf(q))' = TimesOf(h)'
      BY <1>7, <3>1 DEF TimesOf
    <3> QED  BY <2>1, <3>1, <3>2
  <2> QED  BY <1>1, <1>3, <1>4, <1>7, <2>1, <2>2, OrderKept
<1>10. DirInv'
  <2>1. \A d \in Directories : dirTime'[d] = dirTime[d] \/ (dirTime'[d] = now' /\ now < now')
    BY <1>4, <1>6
  <2>2. \A d \in Directories : ~(dirTime'[d] # 0 /\ dirTime[d] = 0)
    BY <1>5, <1>6
  <2>3. DOMAIN files' \ DOMAIN files = {} /\ DOMAIN files' \subseteq Paths
    BY <1>2, <1>4
  <2> QED  BY <1>1, <1>3, <1>4, <2>1, <2>2, <2>3, DirsKept
<1>11. DueInv'
  <2>1. \A d \in Directories : dirTime[d] # 0 => dirTime'[d] # 0
    BY <1>4, <1>6
  <2> QED  BY <1>1, <1>3, <1>4, <2>1, DueKept
<1> QED  BY <1>8, <1>9, <1>10, <1>11 DEF FoundInv

(* What Codex writes *)
LEMMA CodexWritesFound ==
    ASSUME DiscoveryTypeOK, FoundInv, CodexWrites, UNCHANGED <<rows, queued, history, collection>>
    PROVE  FoundInv'
<1>1. FileInv
  BY DEF FoundInv
<1>2. /\ named \subseteq Paths /\ DOMAIN files \subseteq named
      /\ files \in [DOMAIN files -> Rollout]
      /\ home \in [DOMAIN home -> Paths] /\ DOMAIN home \subseteq Sessions
      /\ world \in DOMAIN Worlds
  BY DEF DiscoveryTypeOK
<1>3. now \in Nat /\ now >= 1
  BY ClockTypes
<1>4. World.paths \subseteq Paths /\ World.lengths \subseteq Nat \ {0}
  BY <1>2, DiscoveryAssumption DEF World
<1>5. ASSUME NEW p \in DOMAIN files
      PROVE  /\ files[p] \in Rollout /\ files[p].whole \in BOOLEAN
             /\ files[p].records \in Seq(Message)
             /\ SizeOf(files[p]) <= now
  <2>1. files[p] \in Rollout
    BY <1>2
  <2>2. files[p].whole \in BOOLEAN /\ files[p].records \in Seq(Message)
    BY <2>1 DEF Rollout
  <2>3. PICK k \in Nat : k = Len(files[p].records)
    BY <2>2
  <2>4. Size(p) <= files[p].mtime /\ files[p].mtime \in 1 .. now
    BY <1>1 DEF FileInv
  <2>5. Size(p) = k + (IF files[p].whole THEN 1 ELSE 0)
    BY <2>3 DEF Size
  <2>6. SizeOf(files[p]) = k + (IF files[p].whole THEN 1 ELSE 0)
    BY <2>3 DEF SizeOf
  <2>7. SizeOf(files[p]) <= now
    <3>1. PICK w \in {0, 1} : w = IF files[p].whole THEN 1 ELSE 0
      OBVIOUS
    <3>2. PICK m \in 1 .. now : m = files[p].mtime
      BY <2>4
    <3>3. k + w <= m
      BY <2>4, <2>5, <3>1, <3>2
    <3>4. k + w <= now
      BY <1>3, <3>1, <3>2, <3>3
    <3> QED  BY <2>6, <3>1, <3>4
  <2> QED  BY <2>1, <2>2, <2>7
<1>6. ASSUME NEW s \in Sessions, NEW p \in World.paths, NEW whole \in BOOLEAN,
             Begin(s, p, whole)
      PROVE  FoundInv'
  <2>1. PICK e : e = << >>
    OBVIOUS
  <2>2. PICK file : file = [whole |-> whole, records |-> e, mtime |-> 0]
    OBVIOUS
  <2>3. e \in Seq(Message) /\ Len(e) = 0
    BY <2>1
  <2>4. file \in Rollout
    BY <2>2, <2>3 DEF Rollout
  <2>5. SizeOf(file) = IF whole THEN 1 ELSE 0
    BY <2>2, <2>3 DEF SizeOf
  <2>6. SizeOf(file) <= now + 1
    BY <1>3, <2>5
  <2>7. WriteNew(s, p, file) /\ s \notin DOMAIN home
    BY <1>6, <2>1, <2>2 DEF Begin
  <2> QED  BY <1>4, <2>4, <2>6, <2>7, GoesToNew
<1>7. ASSUME NEW p \in Paths, WriteHeader(p)
      PROVE  FoundInv'
  <2>1. PICK file : file = [files[p] EXCEPT !.whole = TRUE]
    OBVIOUS
  <2>2. /\ p \in DOMAIN files /\ ~files[p].whole /\ Write(p, file)
        /\ UNCHANGED <<named, dirTime, home>>
    BY <1>7, <2>1 DEF WriteHeader
  <2>3. p = HomeOf(p)
    BY <1>1, <2>2 DEF FileInv, HomeOf
  <2>4. /\ file \in Rollout /\ file.whole /\ file.records = files[p].records
    BY <1>5, <2>1, <2>2 DEF Rollout
  <2>5. SizeOf(file) <= now + 1
    <3>1. PICK k \in Nat : k = Len(files[p].records)
      BY <1>5, <2>2
    <3>2. SizeOf(files[p]) = k /\ SizeOf(file) = k + 1
      BY <2>2, <2>4, <3>1 DEF SizeOf
    <3>3. k <= now
      BY <1>5, <2>2, <3>2
    <3> QED  BY <1>3, <3>1, <3>2, <3>3
  <2> QED  BY <2>2, <2>3, <2>4, <2>5, GoesOn
<1>8. ASSUME NEW s \in Sessions, NEW m \in Nat, NEW len \in World.lengths, IsOpen(s),
             AddRecord(s, m, len)
      PROVE  FoundInv'
  <2>1. PICK r : r = [m |-> m, at |-> now + 1, len |-> len]
    OBVIOUS
  <2>2. r \in Message
    BY <1>3, <2>1 DEF Message
  <2>3. PICK p : p = home[s] /\ p \in DOMAIN files /\ p \in Paths /\ p = HomeOf(p)
    BY <1>1, <1>2, <1>8 DEF IsOpen, FileInv, HomeOf
  <2>4. PICK rs \in Seq(Message) : rs = files[p].records
    BY <1>5, <2>3
  <2>5. PICK k \in Nat : k = Len(rs)
    BY <2>4
  <2>6. PICK t : t = Append(rs, r) /\ t \in Seq(Message) /\ Len(t) = k + 1
    <3>1. Append(rs, r) \in Seq(Message) /\ Len(Append(rs, r)) = k + 1
      BY <2>2, <2>4, <2>5
    <3> QED  BY <3>1
  <2>7. PICK file : file = [files[p] EXCEPT !.records = t]
    OBVIOUS
  <2>8. file \in Rollout /\ file.whole = files[p].whole /\ file.records = t
    BY <1>5, <2>3, <2>6, <2>7 DEF Rollout
  <2>9. SizeOf(file) <= now + 1
    <3>1. SizeOf(files[p]) = k + (IF files[p].whole THEN 1 ELSE 0)
      BY <2>4, <2>5 DEF SizeOf
    <3>2. SizeOf(file) = (k + 1) + (IF files[p].whole THEN 1 ELSE 0)
      BY <2>6, <2>8 DEF SizeOf
    <3>3. SizeOf(files[p]) <= now
      BY <1>5, <2>3
    <3> QED  BY <1>3, <3>1, <3>2, <3>3
  <2>10. Write(p, file) /\ UNCHANGED <<named, dirTime, home>>
    BY <1>8, <2>1, <2>3, <2>4, <2>6, <2>7 DEF AddRecord
  <2> QED  BY <2>3, <2>8, <2>9, <2>10, GoesOn
<1>9. ASSUME NEW s \in Sessions, NEW len \in World.lengths, Say(s, len)
      PROVE  FoundInv'
  <2>1. IsOpen(s) /\ AddRecord(s, now + 1, len) /\ now + 1 \in Nat
    BY <1>3, <1>9 DEF Say
  <2> QED  BY <1>8, <2>1
<1>10. ASSUME NEW s \in Sessions, NEW len \in World.lengths, Revise(s, len)
       PROVE  FoundInv'
  <2>1. PICK t : t = files[home[s]].records
    OBVIOUS
  <2>2. IsOpen(s) /\ t # << >> /\ AddRecord(s, Last(t).m, len)
    BY <1>10, <2>1 DEF Revise
  <2>3. t \in Seq(Message)
    BY <1>5, <2>1, <2>2 DEF IsOpen
  <2>4. Last(t) \in Message
    BY <2>2, <2>3 DEF Last
  <2>5. Last(t).m \in Nat
    BY <2>4 DEF Message
  <2> QED  BY <1>8, <2>2, <2>5
<1>11. ASSUME NEW s \in Sessions, NEW p \in World.paths, Resume(s, p)
       PROVE  FoundInv'
  <2>1. IsOpen(s) /\ WriteNew(s, p, files[home[s]])
    BY <1>11 DEF Resume
  <2>2. PICK file : file = files[home[s]]
    OBVIOUS
  <2>3. file \in Rollout /\ SizeOf(file) <= now
    BY <1>5, <2>1, <2>2 DEF IsOpen
  <2>4. SizeOf(file) <= now + 1
    <3>1. file.records \in Seq(Message) /\ file.whole \in BOOLEAN
      BY <2>3 DEF Rollout
    <3>2. PICK k \in Nat : k = Len(file.records)
      BY <3>1
    <3>3. PICK w \in {0, 1} : w = IF file.whole THEN 1 ELSE 0
      OBVIOUS
    <3>4. SizeOf(file) = k + w
      BY <3>2, <3>3 DEF SizeOf
    <3>5. k + w <= now
      BY <2>3, <3>4
    <3>6. k \in Nat /\ w \in Nat /\ now \in Nat
      BY <1>3, <3>2, <3>3
    <3>7. k + w <= now + 1
      BY <3>5, <3>6
    <3> QED  BY <3>4, <3>7
  <2> QED  BY <1>4, <2>1, <2>2, <2>3, <2>4, GoesToNew
<1>12. ASSUME NEW p \in Paths, Archive(p)
       PROVE  FoundInv'
  BY <1>12, GoesAway
<1> QED  BY <1>6, <1>7, <1>9, <1>10, <1>11, <1>12 DEF CodexWrites

(* A step that touches neither files nor the cache keeps what is found of them.*)
LEMMA FilesSame ==
    ASSUME DiscoveryTypeOK, FileInv, CacheInv, DirInv, now' \in Nat, now <= now',
           UNCHANGED <<files, named, dirTime, home, cache, dirSeen>>,
           \A d \in Sources : rows'[d] \subseteq DOMAIN home
    PROVE  FileInv' /\ CacheInv' /\ DirInv'
<1>1. now \in Nat /\ 1 .. now \subseteq 1 .. now' /\ 0 .. now \subseteq 0 .. now'
  BY ClockTypes
<1>2. \A p : Size(p)' = Size(p) /\ TimesOf(p)' = TimesOf(p) /\ HomeOf(p)' = HomeOf(p)
  BY DEF Size, TimesOf, HomeOf
<1>3. FileInv'
  <2>1. \A p \in DOMAIN files : files[p].mtime \in 1 .. now'
    BY <1>1 DEF FileInv
  <2> QED  BY <1>2, <2>1 DEF FileInv, Sources
<1>4. CacheInv'
  <2>1. \A p \in DOMAIN cache : cache[p].mtime \in 1 .. now' /\ cache[p].size \in 0 .. now'
    BY <1>1 DEF CacheInv
  <2>2. \A p \in named : p # home[SessionOf[p]] =>
                            \A m \in TimesOf(p), n \in TimesOf(home[SessionOf[p]]) : m < n
    BY DEF CacheInv
  <2> QED  BY <2>1, <2>2 DEF CacheInv, TimesOf
<1>5. DirInv'
  BY DEF DirInv, AsSeen, Directories, Days
<1> QED  BY <1>3, <1>4, <1>5

(* So does one that leaves the collection.                                 *)
LEMMA CodexFound ==
    ASSUME SendInv, FoundInv, Codex
    PROVE  FoundInv'
<1>1. DiscoveryTypeOK /\ database \in Sources /\ rows \in [Sources -> SUBSET Sessions]
  BY DEF SendInv, SendType
<1>2. FileInv /\ CacheInv /\ DirInv /\ DueInv
  BY DEF FoundInv
<1>3. now \in Nat /\ now <= now + 1 /\ now + 1 \in Nat /\ now <= now
  BY <1>1, ClockTypes
<1>4. CASE CodexWrites /\ UNCHANGED <<stored, collection, mishaps>>
  BY <1>1, <1>4, CodexWritesFound DEF stored
<1>5. ASSUME NEW s \in Sessions, List(s)
      PROVE  FoundInv'
  <2>1. /\ UNCHANGED <<world, now, files, named, dirTime, home, cache, dirSeen>>
        /\ UNCHANGED <<queued, history, collection>>
        /\ rows' = [rows EXCEPT ![database] = @ \cup {s}] /\ s \in DOMAIN home
    BY <1>5 DEF List, codexVars, cacheVars, IsOpen
  <2>2. \A d \in Sources : rows'[d] \subseteq DOMAIN home
    BY <1>1, <1>2, <2>1 DEF FileInv
  <2>3. FileInv' /\ CacheInv' /\ DirInv'
    BY <1>1, <1>2, <1>3, <2>1, <2>2, FilesSame
  <2>4. DueInv'
    BY <1>2, <2>1, DueKept
  <2> QED  BY <2>3, <2>4 DEF FoundInv
<1>6. ASSUME NEW d \in World.databases \ {NoDatabase, database}, ChangeDatabase(d)
      PROVE  FoundInv'
  <2>1. /\ UNCHANGED <<world, files, named, dirTime, home, cache, dirSeen>>
        /\ UNCHANGED <<rows, queued, history, collection>> /\ now' = now + 1
    BY <1>6 DEF ChangeDatabase, cacheVars
  <2>2. \A c \in Sources : rows'[c] \subseteq DOMAIN home
    BY <1>2, <2>1 DEF FileInv
  <2>3. FileInv' /\ CacheInv' /\ DirInv'
    BY <1>1, <1>2, <1>3, <2>1, <2>2, FilesSame
  <2>4. DueInv'
    BY <1>2, <2>1, DueKept
  <2> QED  BY <2>3, <2>4 DEF FoundInv
<1> QED  BY <1>4, <1>5, <1>6 DEF Codex

(* A step that changes the cache to what files are keeps the order of their   *)
(* times.                                                                  *)
LEMMA CachedAnew ==
    ASSUME DiscoveryTypeOK, FileInv, CacheInv,
           UNCHANGED <<now, files, named, dirTime, home, rows>>,
           \A p \in DOMAIN cache' :
                \/ p \in DOMAIN files /\ cache'[p] = Cached(p)
                \/ p \in DOMAIN cache /\ cache'[p] = cache[p]
    PROVE  FileInv' /\ CacheInv'
<1>1. now \in Nat /\ DOMAIN files \subseteq named
  BY ClockTypes DEF DiscoveryTypeOK
<1>2. FileInv'
  BY DEF FileInv, Size, Sources
<1>3. ASSUME NEW p \in DOMAIN cache'
      PROVE  /\ p \in named /\ cache'[p].mtime \in TimesOf(p)
             /\ cache'[p].mtime \in 1 .. now /\ cache'[p].size \in 0 .. now
  <2>1. CASE p \in DOMAIN files /\ cache'[p] = Cached(p)
    <3>1. cache'[p].mtime = files[p].mtime /\ cache'[p].size = Size(p)
      BY <2>1 DEF Cached
    <3>2. files[p].mtime \in 1 .. now /\ Size(p) <= files[p].mtime
      BY <2>1 DEF FileInv
    <3>3. Size(p) \in Nat
      <4>1. Cached(p) \in CacheEntry
        BY <2>1, CachedType
      <4> QED  BY <4>1 DEF Cached, CacheEntry
    <3>4. Size(p) \in 0 .. now
      <4>1. PICK k \in Nat : k = Size(p)
        BY <3>3
      <4> QED  BY <1>1, <3>2, <4>1
    <3>5. files[p].mtime \in TimesOf(p)
      BY <2>1 DEF TimesOf
    <3> QED  BY <1>1, <2>1, <3>1, <3>2, <3>4, <3>5
  <2>2. CASE p \in DOMAIN cache /\ cache'[p] = cache[p]
    <3>1. /\ p \in named /\ cache[p].mtime \in TimesOf(p)
          /\ cache[p].mtime \in 1 .. now /\ cache[p].size \in 0 .. now
      BY <2>2 DEF CacheInv, TimesOf
    <3> QED  BY <2>2, <3>1
  <2> QED  BY <1>3, <2>1, <2>2
<1>4. \A p : TimesOf(p)' \subseteq TimesOf(p)
  <2> TAKE p
  <2>1. TimesOf(p)' = (IF p \in DOMAIN files THEN {files[p].mtime} ELSE {})
                        \cup (IF p \in DOMAIN cache' THEN {cache'[p].mtime} ELSE {})
    BY DEF TimesOf
  <2>2. (IF p \in DOMAIN files THEN {files[p].mtime} ELSE {}) \subseteq TimesOf(p)
    BY DEF TimesOf
  <2> QED  BY <1>3, <2>1, <2>2
<1>5. ASSUME NEW p \in named, p # HomeOf(p), NEW m \in TimesOf(p)', NEW n \in TimesOf(HomeOf(p))'
      PROVE  m < n
  <2>1. PICK h : h = HomeOf(p)
    OBVIOUS
  <2>2. h = HomeOf(p)'
    BY <2>1 DEF HomeOf
  <2>3. n \in TimesOf(h)'
    BY <2>2 DEF TimesOf
  <2>4. m \in TimesOf(p) /\ n \in TimesOf(h)
    BY <1>4, <2>3
  <2> QED  BY <1>5, <2>1, <2>4 DEF CacheInv, HomeOf
<1>6. CacheInv'
  BY <1>3, <1>5 DEF CacheInv, HomeOf
<1> QED  BY <1>2, <1>6

(* A step that touches neither the files, the cache nor what is listed *)
LEMMA StillFound ==
    ASSUME DiscoveryTypeOK, FileInv, CacheInv, DirInv, UNCHANGED <<codexVars, cacheVars, rows>>
    PROVE  FileInv' /\ CacheInv' /\ DirInv'
<1>1. now \in Nat /\ now <= now
  BY ClockTypes
<1> QED  BY <1>1, FilesSame DEF FileInv, codexVars, cacheVars

(* What is due when a collection begins is in files whose header is whole.   *)
LEMMA ReadStateFound ==
    ASSUME SendInv, FoundInv, NEW ok \in BOOLEAN, ReadState(ok)
    PROVE  FoundInv'
<1>1. DiscoveryTypeOK
  BY DEF SendInv, SendType
<1>2. FileInv /\ CacheInv /\ DirInv
  BY DEF FoundInv
<1>3. /\ pc' = "discover"
      /\ stateRead' = (database = NoDatabase \/ (ok /\ rows[database] # {}))
      /\ UNCHANGED <<codexVars, cacheVars, rows>>
  BY DEF ReadState, stored
<1>4. FileInv' /\ CacheInv' /\ DirInv'
  BY <1>1, <1>2, <1>3, StillFound
<1>5. PICK top : top = IF ok THEN MostRecent(MaxRows, rows[database], home) ELSE {}
  OBVIOUS
<1>6. payloads' = [s \in {t \in top : Messages(home[t]) # << >>} |-> Messages(home[s])]
  BY <1>5 DEF ReadState
<1>7. ~stateRead' => DOMAIN payloads' = {}
  <2>1. rows[database] = {} => MostRecent(MaxRows, rows[database], home) = {}
    BY DEF MostRecent
  <2> QED  BY <1>3, <1>5, <1>6, <2>1
<1>8. ASSUME NEW e \in due'
      PROVE  /\ e[1] \in DOMAIN home /\ e[2] \in named
             /\ e[1] \in DOMAIN payloads' => e[3] \in ToSet(payloads'[e[1]])
             /\ files[e[2]].whole
  <2>1. PICK s \in Sessions :
            IsOpen(s) /\ \E r \in ToSet(Messages(home[s])) : e = <<s, home[s], r>>
    BY DEF ReadState
  <2>2. PICK p, r : p = home[s] /\ r \in ToSet(Messages(home[s])) /\ e = <<s, home[s], r>>
    BY <2>1
  <2>3. s \in DOMAIN home /\ files[p].whole /\ p \in named
    BY <1>2, <2>1, <2>2 DEF IsOpen, FileInv
  <2>4. e[1] = s /\ e[2] = p /\ e[3] = r
    BY <2>2
  <2>5. s \in DOMAIN payloads' => r \in ToSet(payloads'[s])
    BY <1>6, <2>2
  <2> QED  BY <2>3, <2>4, <2>5
<1>9. DueInv'
  BY <1>3, <1>7, <1>8 DEF DueInv, codexVars
<1> QED  BY <1>4, <1>9 DEF FoundInv

(* What is due when discovery begins is cached, or will be found.          *)
LEMMA DiscoverFound ==
    ASSUME SendInv, FoundInv, Discover
    PROVE  FoundInv'
<1>1. DiscoveryTypeOK
  BY DEF SendInv, SendType
<1>2. FileInv /\ CacheInv /\ DirInv /\ DueInv
  BY DEF FoundInv
<1>3. /\ pc = "discover" /\ pc' = "scan" /\ cache' = Refreshed /\ scans' = ChangedDirectories
      /\ UNCHANGED <<world, now, files, named, dirTime, home, dirSeen, rows>>
      /\ UNCHANGED <<stateRead, payloads, due>>
  BY DEF Discover, codexVars, stored
<1>4. cache' = [p \in DOMAIN cache |->
                  IF ~cache[p].parsed /\ p \in DOMAIN files THEN Cached(p) ELSE cache[p]]
  BY <1>3 DEF Refreshed
<1>5. FileInv' /\ CacheInv'
  <2>1. \A p \in DOMAIN cache' :
            \/ p \in DOMAIN files /\ cache'[p] = Cached(p)
            \/ p \in DOMAIN cache /\ cache'[p] = cache[p]
    BY <1>4
  <2> QED  BY <1>1, <1>2, <1>3, <2>1, CachedAnew
<1>6. DirInv'
  <2>1. DOMAIN cache' = DOMAIN cache
    BY <1>4
  <2> QED  BY <1>2, <1>3, <2>1 DEF DirInv, AsSeen, Directories, Days
<1>7. ASSUME NEW e \in due
      PROVE  ToFind(e[1], e[2])'
  <2>1. PICK s, p : s = e[1] /\ p = e[2]
    OBVIOUS
  <2>2. ASSUME p = home[s], p \in DOMAIN files
        PROVE  /\ files[p].whole
               /\ \/ p \in DOMAIN cache' /\ cache'[p].parsed
                  \/ \E d \in scans' : DirOf[p] \in Within(d)
    <3>0. files[p].whole
      BY <1>2, <1>3, <2>1, <2>2 DEF DueInv
    <3>1. CASE p \in DOMAIN cache
      <4>1. cache'[p].parsed
        BY <1>4, <2>2, <3>0, <3>1 DEF Cached
      <4> QED  BY <1>4, <3>0, <3>1, <4>1
    <3>2. CASE p \notin DOMAIN cache
      <4>1. ~AsSeen(DirOf[p]) /\ dirTime[DirOf[p]] # 0
        BY <1>2, <2>2, <3>0, <3>2 DEF DirInv, FileInv
      <4>2. p \in Paths
        BY <1>1, <2>2, <3>0 DEF DiscoveryTypeOK
      <4>3. DirOf[p] \in Directories /\ DirOf[p] # Root
        BY <4>2, PathsHaveDays, DiscoveryAssumption
      <4>4. CASE Root \in scans'
        BY <3>0, <4>1, <4>3, <4>4 DEF Within
      <4>5. CASE Root \notin scans'
        <5>1. /\ scans' = {d \in DOMAIN dirSeen : dirTime[d] # dirSeen[d]}
              /\ AsSeen(Root)
          BY <1>3, <4>5 DEF ChangedDirectories, AsSeen
        <5>2. DirOf[p] \in DOMAIN dirSeen
          BY <1>2, <4>1, <4>3, <5>1 DEF DirInv
        <5>3. DirOf[p] \in scans'
          BY <4>1, <5>1, <5>2 DEF AsSeen
        <5> QED  BY <3>0, <4>3, <5>3 DEF Within
      <4> QED  BY <4>4, <4>5
    <3> QED  BY <3>0, <3>1, <3>2
  <2> QED  BY <1>3, <2>1, <2>2 DEF ToFind, Within, Directories, Days
<1>8. DueInv'
  BY <1>2, <1>3, <1>7 DEF DueInv
<1> QED  BY <1>5, <1>6, <1>8 DEF FoundInv

(* A directory that was read has its files in the cache.                   *)
LEMMA ScanFound ==
    ASSUME SendInv, FoundInv, NEW d \in scans, NEW seen, Scan(d, seen)
    PROVE  FoundInv'
<1>1. DiscoveryTypeOK /\ DirsThere /\ dirTime \in [Directories -> 0 .. now]
  BY DEF SendInv, SendType, DiscoveryTypeOK
<1>2. FileInv /\ CacheInv /\ DirInv /\ DueInv
  BY DEF FoundInv
<1>3. /\ pc = "scan" /\ scans' = scans \ {d} /\ ScanDirectory(d, seen)
      /\ due' = IF seen = FilesWithin(d) THEN due ELSE {}
      /\ UNCHANGED <<world, now, files, named, dirTime, home, rows>>
      /\ UNCHANGED <<pc, stateRead, payloads>>
  BY DEF Scan, codexVars, stored
<1>4. PICK kept : kept = IF seen = FilesWithin(d)
                         THEN {p \in DOMAIN cache : DirOf[p] \notin Within(d)}
                         ELSE DOMAIN cache
  OBVIOUS
<1>5. /\ seen \subseteq FilesWithin(d)
      /\ cache' = [p \in kept \cup seen |-> IF p \in seen THEN Cached(p) ELSE cache[p]]
  BY <1>3, <1>4 DEF ScanDirectory
<1>6. seen \subseteq DOMAIN files /\ kept \subseteq DOMAIN cache
  BY <1>4, <1>5 DEF FilesWithin
<1>7. FileInv' /\ CacheInv'
  <2>1. \A p \in DOMAIN cache' :
            \/ p \in DOMAIN files /\ cache'[p] = Cached(p)
            \/ p \in DOMAIN cache /\ cache'[p] = cache[p]
    BY <1>5, <1>6
  <2> QED  BY <1>1, <1>2, <1>3, <2>1, CachedAnew
<1>8. \A e : Within(e)' = Within(e)
  BY <1>3 DEF Within, Directories, Days
<1>9. CASE seen = FilesWithin(d)
  <2>1. dirSeen' = [e \in DOMAIN dirSeen \cup Within(d) |->
                      IF e \in Within(d) THEN dirTime[e] ELSE dirSeen[e]]
    BY <1>3, <1>9 DEF ScanDirectory
  <2>2. DirInv'
    <3>1. \A e \in DOMAIN dirSeen' : dirSeen'[e] <= dirTime[e]
      <4> TAKE e \in DOMAIN dirSeen'
      <4>1. CASE e \in Within(d)
        <5>1. e \in Directories
          BY <1>1, <4>1, RootIsDirectory DEF Within, SendInv, SendType
        <5>2. dirTime[e] \in 0 .. now /\ now \in Nat
          BY <1>1, <5>1, ClockTypes
        <5> QED  BY <2>1, <4>1, <5>2
      <4>2. CASE e \notin Within(d)
        <5>1. e \in DOMAIN dirSeen /\ dirSeen'[e] = dirSeen[e]
          BY <2>1, <4>2
        <5> QED  BY <1>2, <5>1 DEF DirInv
      <4> QED  BY <4>1, <4>2
    <3>2. ASSUME AsSeen(Root)', NEW e \in Directories, dirTime[e] # 0
          PROVE  e \in DOMAIN dirSeen'
      <4>1. CASE d = Root
        BY <2>1, <3>2, <4>1 DEF Within
      <4>2. CASE d # Root
        <5>1. Root \notin Within(d)
          BY <4>2 DEF Within
        <5>2. AsSeen(Root)
          BY <1>3, <2>1, <3>2, <5>1 DEF AsSeen
        <5> QED  BY <1>2, <2>1, <3>2, <5>2 DEF DirInv
      <4> QED  BY <4>1, <4>2
    <3>3. ASSUME NEW p \in DOMAIN files, AsSeen(DirOf[p])'
          PROVE  p \in DOMAIN cache'
      <4>1. CASE DirOf[p] \in Within(d)
        BY <1>5, <1>9, <4>1 DEF FilesWithin
      <4>2. CASE DirOf[p] \notin Within(d)
        <5>1. AsSeen(DirOf[p])
          BY <1>3, <2>1, <3>3, <4>2 DEF AsSeen
        <5>2. p \in DOMAIN cache
          BY <1>2, <5>1 DEF DirInv
        <5> QED  BY <1>4, <1>5, <1>9, <4>2, <5>2
      <4> QED  BY <4>1, <4>2
    <3> QED  BY <1>3, <3>1, <3>2, <3>3 DEF DirInv, Directories, Days
  <2>3. ASSUME NEW e \in due
        PROVE  ToFind(e[1], e[2])'
    <3>1. PICK p : p = e[2]
      OBVIOUS
    <3>2. ASSUME p = home[e[1]], p \in DOMAIN files
          PROVE  /\ files[p].whole
                 /\ \/ p \in DOMAIN cache' /\ cache'[p].parsed
                    \/ \E x \in scans' : DirOf[p] \in Within(x)
      <4>1. /\ files[p].whole
            /\ \/ p \in DOMAIN cache /\ cache[p].parsed
               \/ \E x \in scans : DirOf[p] \in Within(x)
        BY <1>2, <1>3, <3>1, <3>2 DEF DueInv, ToFind
      <4>2. CASE DirOf[p] \in Within(d)
        <5>1. p \in seen
          BY <1>9, <3>2, <4>2 DEF FilesWithin
        <5> QED  BY <1>5, <4>1, <5>1 DEF Cached
      <4>3. CASE DirOf[p] \notin Within(d)
        <5>1. p \notin seen
          BY <1>5, <4>3 DEF FilesWithin
        <5> QED  BY <1>3, <1>4, <1>5, <1>9, <4>1, <4>3, <5>1
      <4> QED  BY <4>2, <4>3
    <3> QED  BY <1>3, <1>8, <3>1, <3>2 DEF ToFind
  <2>4. DueInv'
    BY <1>2, <1>3, <1>9, <2>3 DEF DueInv
  <2> QED  BY <1>7, <2>2, <2>4 DEF FoundInv
<1>10. CASE seen # FilesWithin(d)
  <2>1. dirSeen' = dirSeen /\ due' = {}
    BY <1>3, <1>10 DEF ScanDirectory
  <2>2. DirInv'
    <3>1. DOMAIN cache \subseteq DOMAIN cache'
      BY <1>4, <1>5, <1>10
    <3> QED  BY <1>2, <1>3, <2>1, <3>1 DEF DirInv, AsSeen, Directories, Days
  <2>3. DueInv'
    BY <1>2, <1>3, <2>1 DEF DueInv
  <2> QED  BY <1>7, <2>2, <2>3 DEF FoundInv
<1> QED  BY <1>9, <1>10

-----------------------------------------------------------------------------
(* What is found *)

(* Of finitely many cached files one is the newest.                        *)
LEMMA NewestCached ==
    ASSUME DiscoveryTypeOK, CacheInv, NEW s, CachedPathsOf(s) # {}
    PROVE  DiscoveredPath(s) \in CachedPathsOf(s)
<1>1. PICK C : C = CachedPathsOf(s)
  OBVIOUS
<1>2. now \in Nat
  BY ClockTypes
<1>3. \A p \in C : cache[p].mtime \in 1 .. now /\ cache[p].size \in 0 .. now
  BY <1>1 DEF CachedPathsOf, CacheInv
<1>4. PICK M : M = {cache[p].mtime : p \in C}
  OBVIOUS
<1>5. M \in SUBSET (1 .. now) /\ M # {}
  BY <1>1, <1>3, <1>4
<1>6. PICK m \in M : \A k \in M : k <= m
  BY <1>2, <1>5, Greatest
<1>7. PICK Z : Z = {cache[p].size + 1 : p \in {q \in C : cache[q].mtime = m}}
  OBVIOUS
<1>8. Z \in SUBSET (1 .. now + 1) /\ Z # {} /\ now + 1 \in Nat
  <2>1. \A n \in 0 .. now : n + 1 \in 1 .. now + 1
    BY <1>2
  <2>2. Z \subseteq 1 .. now + 1
    BY <1>3, <1>7, <2>1
  <2>3. Z # {}
    BY <1>4, <1>6, <1>7
  <2> QED  BY <1>2, <2>2, <2>3
<1>9. PICK z \in Z : \A k \in Z : k <= z
  BY <1>8, Greatest
<1>10. PICK p \in C : cache[p].mtime = m /\ cache[p].size + 1 = z
  BY <1>7, <1>9
<1>11. ASSUME NEW q \in C, Newer(q, p)
       PROVE  FALSE
  <2>1. cache[q].mtime \in 1 .. now /\ cache[p].mtime \in 1 .. now
    BY <1>3
  <2>2. cache[q].mtime <= cache[p].mtime
    BY <1>4, <1>6, <1>10
  <2>3. cache[q].mtime = cache[p].mtime /\ cache[q].size > cache[p].size
    BY <1>11, <2>1, <2>2 DEF Newer
  <2>4. cache[q].size + 1 <= cache[p].size + 1
    BY <1>7, <1>9, <1>10, <2>3
  <2>5. cache[q].size \in 0 .. now /\ cache[p].size \in 0 .. now
    BY <1>3
  <2> QED  BY <2>3, <2>4, <2>5
<1>12. \E x \in C : ~\E q \in C : Newer(q, x)
  BY <1>11
<1> QED  BY <1>1, <1>12 DEF DiscoveredPath

(* When the file a session goes on in is cached with its header, it is found. *)
LEMMA HomeFound ==
    ASSUME DiscoveryTypeOK, CacheInv, NEW s, NEW p \in named, p = home[s], SessionOf[p] = s,
           p \in DOMAIN cache, cache[p].parsed
    PROVE  DiscoveredPath(s) = p
<1>1. p \in CachedPathsOf(s)
  BY DEF CachedPathsOf
<1>2. ASSUME NEW q \in CachedPathsOf(s), q # p
      PROVE  Newer(p, q)
  <2>1. q \in DOMAIN cache /\ q \in named /\ SessionOf[q] = s
    BY <1>2 DEF CachedPathsOf, CacheInv
  <2>2. cache[q].mtime \in TimesOf(q) /\ cache[p].mtime \in TimesOf(p)
    BY <2>1 DEF TimesOf
  <2>3. cache[q].mtime < cache[p].mtime
    BY <1>2, <2>1, <2>2 DEF CacheInv
  <2>4. cache[q].mtime \in 1 .. now /\ cache[p].mtime \in 1 .. now
    BY <2>1 DEF CacheInv
  <2> QED  BY <2>3, <2>4 DEF Newer
<1>3. PICK x : x = DiscoveredPath(s)
  OBVIOUS
<1>4. x \in CachedPathsOf(s)
  BY <1>1, <1>3, NewestCached
<1>5. \A q \in CachedPathsOf(s) : ~Newer(q, p)
  <2>1. \A q \in CachedPathsOf(s) : Newer(q, p) => q # p /\ ~Newer(p, q)
    <3> TAKE q \in CachedPathsOf(s)
    <3>1. /\ cache[q].mtime \in 1 .. now /\ cache[p].mtime \in 1 .. now
          /\ cache[q].size \in 0 .. now /\ cache[p].size \in 0 .. now
      BY DEF CachedPathsOf, CacheInv
    <3> QED  BY <3>1 DEF Newer
  <2> QED  BY <1>2, <2>1
<1>6. ~\E q \in CachedPathsOf(s) : Newer(q, x)
  BY <1>1, <1>3, <1>5 DEF DiscoveredPath
<1> QED  BY <1>1, <1>2, <1>3, <1>4, <1>6

(* The last file of a session                                              *)
LEMMA LastFileFacts ==
    ASSUME DiscoveryTypeOK, FileInv, NEW s, FilesOf(s) # {}
    PROVE  /\ LastFile(s) \in FilesOf(s)
           /\ \A q \in FilesOf(s) : files[q].mtime <= files[LastFile(s)].mtime
<1>1. now \in Nat
  BY ClockTypes
<1>2. PICK M : M = {files[p].mtime : p \in FilesOf(s)}
  OBVIOUS
<1>3. M \in SUBSET (1 .. now) /\ M # {}
  BY <1>2 DEF FilesOf, FileInv
<1>4. PICK m \in M : \A k \in M : k <= m
  BY <1>1, <1>3, Greatest
<1>5. \E p \in FilesOf(s) : \A q \in FilesOf(s) : files[q].mtime <= files[p].mtime
  BY <1>2, <1>4
<1> QED  BY <1>5 DEF LastFile

(* Where a collection reads a session                                      *)
LEMMA PathTaken ==
    ASSUME SendInv, FoundInv, NEW t \in DOMAIN TurnPaths
    PROVE  t \in Sessions /\ TurnPaths[t] \in named /\ SessionOf[TurnPaths[t]] = t
<1>1. DiscoveryTypeOK /\ source \in Sources /\ rows \in [Sources -> SUBSET Sessions]
  BY DEF SendInv, SendType
<1>2. FileInv /\ CacheInv
  BY DEF FoundInv
<1>3. CASE t \in CachedSessions
  <2>1. TurnPaths[t] = DiscoveredPath(t) /\ CachedPathsOf(t) # {} /\ t \in Sessions
    BY <1>3 DEF TurnPaths, CachedSessions
  <2>2. DiscoveredPath(t) \in CachedPathsOf(t)
    BY <1>1, <1>2, <2>1, NewestCached
  <2> QED  BY <1>2, <2>1, <2>2 DEF CachedPathsOf, CacheInv
<1>4. CASE t \notin CachedSessions
  <2>1. TurnPaths[t] = home[t] /\ t \in Listed
    BY <1>4 DEF TurnPaths
  <2>2. t \in rows[source] /\ t \in Sessions /\ t \in DOMAIN home
    BY <1>1, <1>2, <2>1 DEF Listed, FileInv
  <2> QED  BY <1>2, <2>1, <2>2 DEF FileInv
<1> QED  BY <1>3, <1>4

(* What is still due when a collection makes its plan was read.            *)
LEMMA DueRead ==
    ASSUME SendInv, FoundInv, Filter, NEW e \in StillDue
    PROVE  /\ e[1] \in DOMAIN Read /\ e[3] \in ToSet(Read[e[1]])
           /\ ~NothingToSave
<1>1. DiscoveryTypeOK
  BY DEF SendInv, SendType
<1>2. FileInv /\ CacheInv /\ DueInv
  BY DEF FoundInv
<1>3. PICK s, p, r : s = e[1] /\ p = e[2] /\ r = e[3]
  OBVIOUS
<1>4. PICK there : there = {t \in Sessions : FilesOf(t) # {}}
  OBVIOUS
<1>5. PICK at : at = [t \in there |-> LastFile(t)]
  OBVIOUS
<1>6. e \in due /\ s \in MostRecent(MaxRows, there, at) /\ p = home[s] /\ r \in ToSet(Messages(p))
  BY <1>3, <1>4, <1>5 DEF StillDue
<1>7. p \in DOMAIN files /\ Messages(p) # << >>
  <2>1. PICK n : n = << >>
    OBVIOUS
  <2>2. ToSet(n) = {}
    BY <2>1 DEF ToSet
  <2> QED  BY <1>6, <2>1, <2>2 DEF Messages
<1>8. pc = "scan" /\ scans = {}
  BY DEF Filter
<1>9. /\ ~stateRead => DOMAIN payloads = {}
      /\ s \in DOMAIN home /\ p \in named
      /\ s \in DOMAIN payloads => r \in ToSet(payloads[s])
      /\ p \in DOMAIN cache /\ cache[p].parsed
  BY <1>2, <1>3, <1>6, <1>7, <1>8 DEF DueInv, ToFind
<1>10. Fallback \subseteq Others
  BY DEF Fallback, MostRecent
<1>11. CASE s \in DOMAIN payloads
  <2>1. s \notin Fallback
    BY <1>10, <1>11 DEF Others
  <2>2. s \in DOMAIN Read /\ Read[s] = payloads[s]
    BY <1>11, <2>1 DEF Read
  <2>3. ~NothingToSave
    BY <1>9, <1>11, <2>2 DEF NothingToSave
  <2> QED  BY <1>3, <1>9, <1>11, <2>2, <2>3
<1>12. CASE s \notin DOMAIN payloads
  <2>1. s \in Sessions /\ SessionOf[p] = s
    BY <1>1, <1>2, <1>6, <1>9 DEF DiscoveryTypeOK, FileInv
  <2>2. s \in CachedSessions
    BY <1>9, <2>1 DEF CachedSessions, CachedPathsOf
  <2>3. s \in DOMAIN TurnPaths /\ TurnPaths[s] = p
    <3>1. DiscoveredPath(s) = p
      BY <1>1, <1>2, <1>6, <1>9, <2>1, HomeFound
    <3> QED  BY <2>2, <3>1 DEF TurnPaths
  <2>4. s \in Others
    BY <1>7, <1>12, <2>3 DEF Others
  <2>5. p \in FilesOf(s) /\ s \in there
    BY <1>4, <1>7, <2>1 DEF FilesOf
  <2>6. LastFile(s) = p
    <3>1. /\ LastFile(s) \in FilesOf(s)
          /\ files[p].mtime <= files[LastFile(s)].mtime
      BY <1>1, <1>2, <2>5, LastFileFacts
    <3>2. LastFile(s) \in DOMAIN files /\ SessionOf[LastFile(s)] = s /\ LastFile(s) \in named
      BY <1>1, <3>1 DEF FilesOf, DiscoveryTypeOK
    <3>3. /\ files[LastFile(s)].mtime \in TimesOf(LastFile(s)) /\ files[p].mtime \in TimesOf(p)
          /\ files[LastFile(s)].mtime \in 1 .. now /\ files[p].mtime \in 1 .. now
      BY <1>2, <1>7, <3>2 DEF TimesOf, FileInv
    <3>4. LastFile(s) # p => files[LastFile(s)].mtime < files[p].mtime
      BY <1>2, <1>6, <3>2, <3>3 DEF CacheInv
    <3> QED  BY <3>1, <3>3, <3>4
  <2>7. PICK A : A = {t \in Others : Modified(TurnPaths[t]) > Modified(TurnPaths[s])}
    OBVIOUS
  <2>8. PICK N : N = {t \in there : Modified(at[t]) > Modified(at[s])}
    OBVIOUS
  <2>9. A \subseteq N
    <3>1. ASSUME NEW t \in A
          PROVE  t \in N
      <4>1. t \in DOMAIN TurnPaths /\ Modified(TurnPaths[t]) > Modified(p)
        BY <2>3, <2>7 DEF Others
      <4>2. PICK q : q = TurnPaths[t]
        OBVIOUS
      <4>3. t \in Sessions /\ SessionOf[q] = t
        BY <4>1, <4>2, PathTaken
      <4>4. Modified(p) = files[p].mtime /\ files[p].mtime \in 1 .. now
        BY <1>2, <1>7 DEF Modified, FileInv
      <4>5. q \in DOMAIN files
        BY <4>1, <4>2, <4>4 DEF Modified
      <4>6. q \in FilesOf(t) /\ t \in there
        BY <1>4, <4>3, <4>5 DEF FilesOf
      <4>7. LastFile(t) \in DOMAIN files /\ files[q].mtime <= files[LastFile(t)].mtime
        BY <1>1, <1>2, <4>6, LastFileFacts DEF FilesOf
      <4>8. files[q].mtime \in 1 .. now /\ files[LastFile(t)].mtime \in 1 .. now
        BY <1>2, <4>5, <4>7 DEF FileInv
      <4>9. files[LastFile(t)].mtime > files[p].mtime
        BY <4>1, <4>2, <4>4, <4>5, <4>7, <4>8 DEF Modified
      <4>10. Modified(at[t]) > Modified(at[s])
        BY <1>5, <1>7, <2>5, <2>6, <4>6, <4>7, <4>9 DEF Modified
      <4> QED  BY <2>8, <4>6, <4>10
    <3> QED  BY <3>1
  <2>10. Cardinality(A) < MaxRows
    <3>1. Cardinality(N) < MaxRows
      BY <1>6, <2>8 DEF MostRecent
    <3>2. N \subseteq Sessions
      BY <1>4, <2>8
    <3>3. IsFiniteSet(N)
      BY <3>2, DiscoveryAssumption, FS_Subset
    <3>4. /\ IsFiniteSet(A) /\ Cardinality(A) <= Cardinality(N)
          /\ Cardinality(A) \in Nat /\ Cardinality(N) \in Nat
      BY <2>9, <3>3, FS_Subset, FS_CardinalityType
    <3> QED  BY <3>1, <3>4, TranscriptAssumption
  <2>11. s \in Fallback
    BY <2>4, <2>7, <2>10 DEF Fallback, MostRecent
  <2>12. s \in DOMAIN Read /\ Read[s] = Messages(p)
    BY <2>3, <2>11 DEF Read
  <2>13. ~NothingToSave
    BY <2>11, <2>12 DEF NothingToSave
  <2> QED  BY <1>3, <1>6, <2>12, <2>13
<1> QED  BY <1>11, <1>12

(* A plan handles what is still due.                                       *)
LEMMA FilterFound ==
    ASSUME SendInv, KnownInv, FoundInv, Filter
    PROVE  FoundInv'
<1>1. DiscoveryTypeOK
  BY DEF SendInv, SendType
<1>2. FileInv /\ CacheInv /\ DirInv
  BY DEF FoundInv
<1>3. /\ UNCHANGED <<now, files, named, dirTime, home, cache, dirSeen, rows>>
      /\ UNCHANGED <<queued, history, source>> /\ due' = StillDue
  BY DEF Filter, codexVars, cacheVars, stored
<1>4. /\ PlanReady(Read, Fallback, queued, torn)
      /\ IF NothingToSave THEN pc' = "idle" /\ plan' = NoPlan
         ELSE pc' = "append" /\ plan' = Plan(Read, Fallback)
  BY FilterPlan
<1>5. FileInv' /\ CacheInv' /\ DirInv'
  <2>1. now \in Nat /\ now <= now
    BY <1>1, ClockTypes
  <2> QED  BY <1>1, <1>2, <1>3, <2>1, FilesSame DEF FileInv
<1>6. DueInv'
  <2>1. CASE NothingToSave
    <3>1. due' = {}
      BY <1>3, <2>1, DueRead
    <3> QED  BY <1>4, <2>1, <3>1 DEF DueInv
  <2>2. CASE ~NothingToSave
    <3>1. ASSUME NEW e \in due'
          PROVE  Accounted(e[1], e[3])'
      <4>1. PICK s, r : s = e[1] /\ r = e[3]
        OBVIOUS
      <4>2. s \in DOMAIN Read /\ r \in ToSet(Read[s])
        BY <1>3, <4>1, DueRead
      <4>3. s \in Sessions /\ source \in Sources
        BY <1>4, <4>2, ReadMessages DEF PlanReady
      <4>4. AllTold(CursorIn(baseline[source], s), source, s, queued, history)
        BY <4>3 DEF KnownInv
      <4>5. plan' = Plan(Read, Fallback)
        BY <1>4, <2>2
      <4>6. Told(source, s, r, queued \cup plan'.chunks, history \cup plan'.history)
        BY <1>4, <4>2, <4>3, <4>4, <4>5, ToldPlan
      <4>7. Accounted(s, r)'
        BY <1>3, <4>6 DEF Told, Accounted, Sent
      <4> QED  BY <4>1, <4>7
    <3> QED  BY <1>4, <2>2, <3>1 DEF DueInv
  <2> QED  BY <2>1, <2>2
<1> QED  BY <1>5, <1>6 DEF FoundInv

(* What is found is kept by every step: what was in a file when a collection  *)
(* began is handled when it makes its plan.                                *)
LEMMA FoundKeeps ==
    ASSUME SendInv, KnownInv, FoundInv, [Next]_vars
    PROVE  FoundInv'
<1>1. DiscoveryTypeOK
  BY DEF SendInv, SendType
<1>2. FileInv /\ CacheInv /\ DirInv /\ DueInv
  BY DEF FoundInv
<1>3. ASSUME UNCHANGED <<codexVars, cacheVars, rows>>
      PROVE  FileInv' /\ CacheInv' /\ DirInv'
  BY <1>1, <1>2, <1>3, StillFound
<1>4. ASSUME End
      PROVE  DueInv'
  BY <1>4 DEF End, DueInv
<1>5. ASSUME UNCHANGED <<codexVars, cacheVars, rows>>, End
      PROVE  FoundInv'
  BY <1>3, <1>4, <1>5 DEF FoundInv
<1>6. CASE Codex
  BY <1>6, CodexFound
<1>7. CASE \E ok \in BOOLEAN : ReadState(ok)
  BY <1>7, ReadStateFound
<1>8. CASE \E d \in scans : \E seen \in SUBSET FilesWithin(d) : Scan(d, seen)
  BY <1>8, ScanFound
<1>9. CASE Filter
  BY <1>9, FilterFound
<1>10. CASE AppendEvents
  <2>1. /\ UNCHANGED <<codexVars, cacheVars, rows, history, source, plan, due>>
        /\ pc = "append" /\ pc' = "commit" /\ queued' = queued \cup plan.chunks
    BY <1>10 DEF AppendEvents
  <2>2. \A s, r : Accounted(s, r) => Accounted(s, r)'
    BY <2>1 DEF Accounted, Sent
  <2>3. DueInv'
    BY <1>2, <2>1, <2>2 DEF DueInv
  <2> QED  BY <1>3, <2>1, <2>3 DEF FoundInv
<1>11. CASE CommitBaseline
  BY <1>5, <1>11 DEF CommitBaseline, End
<1>12. CASE Abandon
  BY <1>5, <1>12 DEF Abandon, End
<1>13. CASE Crash
  <2>1. /\ UNCHANGED <<now, files, named, dirTime, home, rows>> /\ End
        /\ DOMAIN cache' = {} /\ DOMAIN dirSeen' = {}
    BY <1>13 DEF Crash, End, codexVars
  <2>2. FileInv' /\ CacheInv'
    <3>1. \A p \in DOMAIN cache' : \/ p \in DOMAIN files /\ cache'[p] = Cached(p)
                                   \/ p \in DOMAIN cache /\ cache'[p] = cache[p]
      BY <2>1
    <3> QED  BY <1>1, <1>2, <2>1, <3>1, CachedAnew
  <2>3. DirInv'
    BY <2>1 DEF DirInv, AsSeen
  <2> QED  BY <1>4, <2>1, <2>2, <2>3 DEF FoundInv
<1>14. CASE Discover
  BY <1>14, DiscoverFound
<1>15. CASE UNCHANGED vars
  <2>1. UNCHANGED <<codexVars, cacheVars, rows, queued, history, collection>>
    BY <1>15 DEF vars, stored
  <2>2. DueInv'
    BY <1>2, <2>1, DueKept DEF codexVars, cacheVars
  <2> QED  BY <1>3, <2>1, <2>2 DEF FoundInv
<1> QED
  BY <1>6, <1>7, <1>8, <1>9, <1>10, <1>11, <1>12, <1>13, <1>14, <1>15 DEF Next, Collection

(* At first there is nothing to find.                                      *)
LEMMA FoundInit == Init => FoundInv /\ CountInv /\ KnownInv
<1> SUFFICES ASSUME Init PROVE FoundInv /\ CountInv /\ KnownInv
  OBVIOUS
<1>1. PICK e : e = << >> /\ DOMAIN e = {}
  OBVIOUS
<1>2. /\ files = e /\ home = e /\ cache = e /\ dirSeen = e /\ named = {} /\ pc = "idle"
      /\ due = {} /\ rows = [d \in Sources |-> {}]
      /\ baseline = [d \in Sources |-> NoBaseline]
  BY <1>1 DEF Init, DiscoveryInit
<1>3. FileInv /\ CacheInv
  BY <1>1, <1>2 DEF FileInv, CacheInv
<1>4. DirInv /\ DueInv
  BY <1>1, <1>2 DEF DirInv, AsSeen, DueInv
<1>5. ASSUME NEW d \in Sources, NEW s \in Sessions
      PROVE  /\ Numbered(CursorIn(baseline[d], s), d, s, queued)
             /\ AllTold(CursorIn(baseline[d], s), d, s, queued, history)
  <2>1. SessionsOf(baseline[d]) = {}
    <3>1. NoBaseline.sessions = e
      BY <1>1 DEF NoBaseline
    <3> QED  BY <1>1, <1>2, <3>1 DEF SessionsOf
  <2>2. CursorIn(baseline[d], s) = NoCursor /\ NoCursor.sequence = 0
    BY <2>1 DEF CursorIn, NoCursor
  <2> QED  BY <2>2, NumberedNone, NothingKnown DEF AllTold
<1> QED  BY <1>2, <1>3, <1>4, <1>5 DEF FoundInv, CountInv, KnownInv

(* NothingMissed: what was in the rollout of one of the sessions written last *)
(* when a collection began, and still is among its last messages when it     *)
(* makes its plan, is in the queue or in a chunk of the plan, unless it was  *)
(* there when the baseline began or is of a session passed over, whatever    *)
(* the cache skipped; and the numbers of a cursor are those of chunks in the *)
(* queue (mergeCodexTranscriptFallbacks, filterCodexTranscriptBaseline,      *)
(* prepareTranscriptChunks).  What the cursors know is in the queue or       *)
(* history, by KnownInv.                                                   *)
THEOREM NothingIsMissed == Spec => []NothingMissed
<1>1. Init => FoundInv /\ CountInv /\ KnownInv
  BY FoundInit
<1>2. SendInv /\ (FoundInv /\ CountInv /\ KnownInv) /\ [Next]_vars
        => (FoundInv /\ CountInv /\ KnownInv)'
  BY FoundKeeps, CountKeeps, KnownKeeps
<1>3. FoundInv /\ CountInv /\ KnownInv /\ SendInv => NothingMissed
  <2> SUFFICES ASSUME FoundInv, CountInv, SendInv PROVE NothingMissed
    OBVIOUS
  <2>1. pc \in {"idle", "append", "commit"} => \A e \in due : Accounted(e[1], e[3])
    BY DEF FoundInv, DueInv
  <2>2. ASSUME NEW d \in Sources, NEW s \in SessionsOf(baseline[d])
        PROVE  CountsWhatWasQueued(d, s)
    <3>1. s \in Sessions
      <4>1. baseline[d] \in Baselines
        BY DEF SendInv, SendType
      <4>2. IsBaseline(baseline[d])
        BY <4>1, BaselinesInv DEF BaselineInv
      <4> QED  BY <4>2 DEF IsBaseline
    <3>2. Numbered(CursorIn(baseline[d], s), d, s, queued)
      BY <3>1 DEF CountInv
    <3> QED  BY <3>2 DEF Numbered, CursorIn, CountsWhatWasQueued
  <2> QED  BY <2>1, <2>2 DEF NothingMissed
<1> QED  BY <1>1, <1>2, <1>3, TranscriptsSafe, PTL DEF Spec
=============================================================================
