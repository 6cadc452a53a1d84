-------------------------- MODULE TurnNoticesProofs --------------------------
(***************************************************************************)
(* Safety of the turn notices and of the pages they are shown on, for any    *)
(* sessions, hooks, worlds and limits.  An output of a turn is a token: it   *)
(* is carried by one hook, or is in one directory, or is on one page; only a *)
(* hook that has read the directory it claimed, and has still to discard it, *)
(* carries what is there as well.  A token that nobody observed before is    *)
(* nowhere.  No step makes two of one, wherever a hook dies.                 *)
(*                                                                         *)
(* The second half is that a page is complete.  It says of each session in   *)
(* which nothing failed what its one hook has still to do, and of each page   *)
(* that was written that it is there, or has MaxDetails newer ones.           *)
(***************************************************************************)
EXTENDS TurnNotices, DataProofs

(* Where a hook is that works on a task *)
StagesOf(task) ==
    CASE task = "none" -> {"idle"}
      [] task \in {"begin", "save"} -> {"lock", "mkAgent", "mkSession", "mkDir", "write"}
      [] task = "open" -> {"create", "context"}
      [] task \in {"show", "consume"} -> {"claim", "read", "discard", "prune", "pruneAgent"}
      [] task = "tell" -> {"result"}
      [] task = "record" -> {"record", "prune", "pruneAgent"}
      [] task = "clean" -> {"scan", "sweep", "prune", "pruneAgent"}
      [] task = "tidy" -> {"expire", "move"}

HookFields == {"task", "at", "session", "turn", "output", "page", "sweep"}
SweepFields == {"left", "after", "complete", "now"}

Path == [session : Sessions, key : 0 .. MaxTurns, claim : Hooks \cup {NoHook}]

(* What a hook knows.  Before it looks for what is pending it has no output. *)
Typed(r) ==
    /\ DOMAIN r = HookFields /\ DOMAIN r.sweep = SweepFields
    /\ r.task \in Tasks /\ r.at \in StagesOf(r.task)
    /\ r.task \notin {"none", "clean", "tidy"} => r.session \in Sessions
    /\ r.turn \in 0 .. MaxTurns /\ r.output \in SUBSET (Nat \X Nat)
    /\ r.task \in {"none", "begin", "open", "clean", "tidy"} => r.output = {}
    /\ r.task = "clean" => r.sweep.left \subseteq Path

HookInv == DOMAIN hook = Hooks /\ \A h \in Hooks : Typed(hook[h])

(* The tree: every directory is below that of its session. *)
TreeInv ==
    /\ agentDir \in BOOLEAN /\ sessionDirs \subseteq Sessions
    /\ DOMAIN dirs \subseteq Path
    /\ \A p \in DOMAIN dirs :
        /\ DOMAIN dirs[p] = {"written", "since", "output"}
        /\ dirs[p].output \in SUBSET (Nat \X Nat) /\ p.session \in sessionDirs
    /\ sessionDirs # {} => agentDir

AgentInv ==
    /\ world \in Worlds
    /\ turn \in [Sessions -> 0 .. MaxTurns] /\ busy \subseteq Sessions
    /\ DOMAIN observed = Sessions
    /\ clock \in 0 .. world.time /\ crashes \in 0 .. world.crashes

(* The outputs of a turn are numbered in their order, without gaps; one of   *)
(* Codex is observed by the hook of the turn's end, of which there is one.   *)
Numbered ==
    \A s \in Sessions :
        /\ observed[s] \in SUBSET (Nat \X Nat) /\ IsFiniteSet(observed[s])
        /\ \A o \in observed[s] : o[1] <= turn[s] /\ o[2] <= Cardinality(OutputOf(s, o[1]))

EndedOnce ==
    world.agent = "codex" =>
        \A s \in busy : <<turn[s], 1>> \in observed[s] =>
            \E h \in Hooks : /\ hook[h].session = s /\ hook[h].turn = turn[s]
                             /\ hook[h].task \in {"consume", "save"}

-----------------------------------------------------------------------------
(* Who has an output o of the session s *)
Carries(r) ==
    \/ r.task \in {"show", "tell", "consume", "save"}
    \/ r.task = "record" /\ r.at = "record"

Has(r, s, o) == Carries(r) /\ r.session = s /\ o \in r.output

HooksWith(s, o) == {h \in Hooks : Has(hook[h], s, o)}
DirsWith(s, o) == {p \in DOMAIN dirs : p.session = s /\ o \in dirs[p].output}
PagesWith(s, o) ==
    {id \in Prompts : id[1] = s /\ \E c \in ToSet(lastWrites) : c.id = id /\ o \in c.output}

Single(s, o) ==
    /\ \A g, h \in HooksWith(s, o) : g = h
    /\ \A p, q \in DirsWith(s, o) : p = q
    /\ \A i, j \in PagesWith(s, o) : i = j
    /\ \A h \in HooksWith(s, o), p \in DirsWith(s, o) : hook[h].at = "discard" /\ p = Claim(h)
    /\ HooksWith(s, o) = {} \/ PagesWith(s, o) = {}
    /\ DirsWith(s, o) = {} \/ PagesWith(s, o) = {}
    /\ HooksWith(s, o) # {} \/ DirsWith(s, o) # {} \/ PagesWith(s, o) # {}
        => s \in Sessions /\ o \in observed[s]

-----------------------------------------------------------------------------
(* The pages: each prompt has one at most, and one that is there was written. *)
UniqueIds(files) ==
    \A i, j \in DOMAIN files : files[i].id = files[j].id => i = j

PageInv ==
    /\ details \in Seq(Detail) /\ lastWrites \in Seq(Detail)
    /\ UniqueIds(details) /\ UniqueIds(lastWrites)
    /\ ToSet(details) \subseteq ToSet(lastWrites)
    /\ detailCursor \in Nat
    /\ oldDetails \subseteq Detail
    /\ \A d \in oldDetails : d.output = {} /\ d.id \in world.old

(* How many pages there are: the limit, and those of the layout before for   *)
(* each time a clean-up moved them.                                         *)
Moving(h) == hook[h].at = "move"
Pages == Cardinality(IdsOf(details))
Bound(times) == MaxDetails + times * Cardinality(world.old)

SizeInv ==
    /\ \A g, h \in Hooks : Moving(g) /\ Moving(h) => g = h
    /\ \A h \in Hooks : Moving(h) =>
        /\ hook[h].sweep.left \subseteq world.old
        /\ Pages + Cardinality(hook[h].sweep.left) <= Bound(crashes + 1)
    /\ (\A h \in Hooks : ~Moving(h)) /\ oldDetails # {} => Pages <= Bound(crashes)
    /\ Pages <= Bound(crashes + 1)

NoticeInv ==
    /\ AgentInv /\ TreeInv /\ Numbered /\ EndedOnce /\ PageInv /\ SizeInv
    /\ HookInv /\ \A s, o : Single(s, o)

-----------------------------------------------------------------------------
(* The sequences of pages *)

(* What is dropped is gone, and the rest is there. *)
LEMMA DroppingSet ==
    ASSUME NEW files \in Seq(Detail), NEW ids
    PROVE  /\ Dropping(files, ids) \in Seq(Detail)
           /\ ToSet(Dropping(files, ids)) = {d \in ToSet(files) : d.id \notin ids}
<1>1. PICK T : T = {d \in Detail : d.id \notin ids}
  OBVIOUS
<1>2. /\ Keeping(files, T) \in Seq(Detail \cap T)
      /\ ToSet(Keeping(files, T)) = ToSet(files) \cap T
  BY KeepSet
<1>3. Detail \cap T \subseteq Detail
  OBVIOUS
<1>4. Keeping(files, T) \in Seq(Detail)
  BY <1>2, <1>3
<1>5. ToSet(files) \subseteq Detail
  BY DEF ToSet
<1> QED  BY <1>1, <1>2, <1>4, <1>5 DEF Dropping

(* A page that is appended has a name that no other has. *)
LEMMA UniqueAppend ==
    ASSUME NEW files \in Seq(Detail), NEW d \in Detail
    PROVE  UniqueIds(Append(files, d))
            <=> UniqueIds(files) /\ \A e \in ToSet(files) : e.id # d.id
<1>1. PICK n \in Nat : n = Len(files)
  OBVIOUS
<1>2. PICK t : t = Append(files, d)
  OBVIOUS
<1>3. /\ DOMAIN t = 1 .. n + 1 /\ DOMAIN files = 1 .. n /\ t[n + 1] = d
      /\ \A i \in 1 .. n : t[i] = files[i] /\ i \in 1 .. n + 1 /\ i # n + 1
      /\ n + 1 \in 1 .. n + 1 /\ 1 .. n + 1 = (1 .. n) \cup {n + 1}
  BY <1>1, <1>2
<1>4. ASSUME UniqueIds(t)
      PROVE  UniqueIds(files) /\ \A e \in ToSet(files) : e.id # d.id
  BY <1>3, <1>4 DEF UniqueIds, ToSet
<1>5. ASSUME UniqueIds(files), \A e \in ToSet(files) : e.id # d.id
      PROVE  UniqueIds(t)
  <2>1. \A i \in 1 .. n : files[i] \in ToSet(files)
    BY <1>3 DEF ToSet
  <2> QED  BY <1>3, <1>5, <2>1 DEF UniqueIds
<1> QED  BY <1>2, <1>4, <1>5

(* Dropping leaves the names apart. *)
LEMMA DroppingUnique ==
    ASSUME NEW files \in Seq(Detail), UniqueIds(files), NEW ids
    PROVE  UniqueIds(Dropping(files, ids))
<1>1. PICK T : T = {d \in Detail : d.id \notin ids}
  OBVIOUS
<1> DEFINE C == {s \in Seq(Detail) : UniqueIds(s) => UniqueIds(Keeping(s, T))}
<1>2. << >> \in C
  <2>1. PICK e : e = << >>
    OBVIOUS
  <2>2. Keeping(e, T) = e /\ e \in Seq(Detail)
    BY <2>1, KeepEmpty
  <2>3. e \in C
    BY <2>2
  <2> QED  BY <2>1, <2>3
<1>3. ASSUME NEW s \in Seq(Detail), NEW x \in Detail, s \in C
      PROVE  Append(s, x) \in C
  <2>1. PICK k : k = Keeping(s, T)
    OBVIOUS
  <2>2. Keeping(Append(s, x), T) = IF x \in T THEN Append(k, x) ELSE k
    BY <2>1, KeepAppend
  <2>3. k \in Seq(Detail \cap T) /\ ToSet(k) = ToSet(s) \cap T
    BY <2>1, KeepSet
  <2>4. Detail \cap T \subseteq Detail
    OBVIOUS
  <2>5. k \in Seq(Detail)
    BY <2>3, <2>4
  <2>6. SUFFICES ASSUME UniqueIds(Append(s, x))
                 PROVE  UniqueIds(Keeping(Append(s, x), T))
    OBVIOUS
  <2>7. UniqueIds(s) /\ \A e \in ToSet(s) : e.id # x.id
    BY <2>6, UniqueAppend
  <2>8. UniqueIds(k)
    BY <1>3, <2>1, <2>7
  <2>9. UniqueIds(Append(k, x))
    BY <2>3, <2>5, <2>7, <2>8, UniqueAppend
  <2> QED  BY <2>2, <2>8, <2>9
<1>4. Seq(Detail) \subseteq C
  <2> HIDE DEF C
  <2> QED  BY <1>2, <1>3, SeqInduction
<1>5. UniqueIds(Keeping(files, T))
  BY <1>4
<1> QED  BY <1>1, <1>5 DEF Dropping

(* A page that is written again replaces the one there was. *)
LEMMA RenewedSet ==
    ASSUME NEW files \in Seq(Detail), UniqueIds(files), NEW d \in Detail
    PROVE  /\ Renewed(files, d) \in Seq(Detail) /\ UniqueIds(Renewed(files, d))
           /\ ToSet(Renewed(files, d)) = {e \in ToSet(files) : e.id # d.id} \cup {d}
<1>1. PICK k : k = Dropping(files, {d.id})
  OBVIOUS
<1>2. /\ k \in Seq(Detail) /\ UniqueIds(k)
      /\ ToSet(k) = {e \in ToSet(files) : e.id # d.id}
  BY <1>1, DroppingSet, DroppingUnique
<1>3. Append(k, d) \in Seq(Detail) /\ ToSet(Append(k, d)) = ToSet(k) \cup {d}
  BY <1>2, ToSetAppend
<1>4. UniqueIds(Append(k, d))
  BY <1>2, UniqueAppend
<1> QED  BY <1>1, <1>2, <1>3, <1>4 DEF Renewed

(* There are as many pages as names. *)
LEMMA PagesAreIds ==
    ASSUME NEW files \in Seq(Detail)
    PROVE  /\ IsFiniteSet(IdsOf(files)) /\ Cardinality(IdsOf(files)) \in Nat
           /\ UniqueIds(files) => Len(files) = Cardinality(IdsOf(files))
<1>1. PICK n \in Nat : n = Len(files)
  OBVIOUS
<1>2. PICK f : f = [i \in 1 .. n |-> files[i].id]
  OBVIOUS
<1>3. IdsOf(files) = {files[i].id : i \in 1 .. n}
  BY <1>1 DEF IdsOf, ToSet
<1>4. f \in Surjection(1 .. n, IdsOf(files))
  BY <1>2, <1>3 DEF Surjection
<1>5. IsFiniteSet(1 .. n) /\ Cardinality(1 .. n) = n
  BY FS_Interval
<1>6. /\ IsFiniteSet(IdsOf(files))
      /\ Cardinality(IdsOf(files)) = Cardinality(1 .. n) <=> f \in Injection(1 .. n, IdsOf(files))
  BY <1>4, <1>5, FS_Surjection
<1>7. UniqueIds(files) => f \in Injection(1 .. n, IdsOf(files))
  BY <1>1, <1>2, <1>3 DEF Injection, IsInjective, UniqueIds
<1> QED  BY <1>1, <1>5, <1>6, <1>7, FS_CardinalityType

(* Of names that are seen the oldest is among the oldest. *)
LEMMA SomeOldest ==
    ASSUME NEW files \in Seq(Detail), NEW seen, seen \subseteq IdsOf(files), seen # {},
           NEW n \in Nat \ {0}
    PROVE  Oldest(files, seen, n) # {}
<1>1. PICK place : place = [id \in seen |-> CHOOSE i \in DOMAIN files : files[i].id = id]
  OBVIOUS
<1>2. \A id \in seen : place[id] \in Nat
  <2>1. ASSUME NEW id \in seen
        PROVE  place[id] \in DOMAIN files
    <3>1. \E i \in DOMAIN files : files[i].id = id
      BY DEF IdsOf, ToSet
    <3> QED  BY <1>1, <3>1
  <2>2. DOMAIN files \subseteq Nat
    OBVIOUS
  <2> QED  BY <2>1, <2>2
<1>3. PICK places : places = {place[id] : id \in seen}
  OBVIOUS
<1>4. PICK m \in places : \A k \in places : m <= k
  <2>1. places \in SUBSET Nat /\ places # {}
    BY <1>2, <1>3
  <2> QED  BY <2>1, Smallest
<1>5. PICK id \in seen : m = place[id]
  BY <1>3
<1>6. {q \in seen : place[q] < place[id]} = {}
  <2>1. ASSUME NEW q \in seen
        PROVE  ~(place[q] < place[id])
    <3>1. place[q] \in places /\ place[q] \in Nat /\ place[id] \in Nat
      BY <1>2, <1>3
    <3>2. place[id] <= place[q]
      BY <1>4, <1>5, <3>1
    <3> QED  BY <3>1, <3>2
  <2> QED  BY <2>1
<1>7. Cardinality({q \in seen : place[q] < place[id]}) < n
  <2>1. Cardinality({}) = 0
    BY FS_EmptySet
  <2>2. PICK before : before = {q \in seen : place[q] < place[id]}
    OBVIOUS
  <2>3. Cardinality(before) = 0
    BY <1>6, <2>1, <2>2
  <2> QED  BY <2>2, <2>3
<1>8. id \in Oldest(files, seen, n)
  BY <1>1, <1>7 DEF Oldest
<1> QED  BY <1>8

(* Trimming drops a page if there are too many, and brings none. *)
LEMMA TrimmedSet ==
    ASSUME NEW files \in Seq(Detail), UniqueIds(files), NEW left \in Trimmed(files)
    PROVE  /\ left \in Seq(Detail) /\ UniqueIds(left) /\ ToSet(left) \subseteq ToSet(files)
           /\ \/ Cardinality(IdsOf(left)) <= MaxDetails
              \/ Cardinality(IdsOf(left)) < Cardinality(IdsOf(files))
<1> DEFINE n == MaxDetails + DetailRemovals + 1
<1>1. n \in Nat /\ MaxDetails \in Nat \ {0} /\ DetailRemovals \in Nat \ {0}
  BY DetailAssumption
<1>2. PICK seen \in Entries(files, n) :
        left = IF Cardinality(seen) - MaxDetails <= 0 THEN files
               ELSE Dropping(files, Oldest(files, seen,
                        Min({Cardinality(seen) - MaxDetails, DetailRemovals})))
  BY DEF Trimmed
<1>3. IsFiniteSet(IdsOf(files)) /\ Cardinality(IdsOf(files)) \in Nat
  BY PagesAreIds
<1>4. /\ seen \subseteq IdsOf(files) /\ Cardinality(seen) \in Nat
      /\ Cardinality(seen) <= MaxDetails => seen = IdsOf(files)
  <2>1. CASE Cardinality(IdsOf(files)) <= n
    BY <1>3, <2>1 DEF Entries
  <2>2. CASE ~(Cardinality(IdsOf(files)) <= n)
    <3>1. seen \in SUBSET IdsOf(files) /\ Cardinality(seen) = n
      BY <2>2 DEF Entries, kSubset
    <3>2. ~(n <= MaxDetails)
      BY <1>1
    <3> QED  BY <1>1, <3>1, <3>2
  <2> QED  BY <2>1, <2>2
<1>5. PICK c \in Nat : c = Cardinality(seen)
  BY <1>4
<1>6. CASE c - MaxDetails <= 0
  <2>1. left = files /\ c <= MaxDetails
    BY <1>1, <1>2, <1>5, <1>6
  <2> QED  BY <1>4, <1>5, <2>1
<1>7. CASE ~(c - MaxDetails <= 0)
  <2>1. PICK k : k = Min({c - MaxDetails, DetailRemovals})
    OBVIOUS
  <2>2. k \in Nat \ {0}
    <3>1. c - MaxDetails \in Nat \ {0}
      BY <1>1, <1>7
    <3>2. \E x \in {c - MaxDetails, DetailRemovals} :
            \A y \in {c - MaxDetails, DetailRemovals} : x <= y
      BY <1>1, <3>1
    <3>3. k \in {c - MaxDetails, DetailRemovals}
      BY <2>1, <3>2 DEF Min
    <3> QED  BY <1>1, <3>1, <3>3
  <2>3. PICK gone : gone = Oldest(files, seen, k)
    OBVIOUS
  <2>4. left = Dropping(files, gone)
    BY <1>2, <1>5, <1>7, <2>1, <2>3
  <2>5. seen # {}
    <3>1. Cardinality({}) = 0
      BY FS_EmptySet
    <3>2. c # 0
      BY <1>1, <1>7
    <3> QED  BY <1>5, <3>1, <3>2
  <2>6. PICK id \in gone : id \in IdsOf(files)
    BY <1>4, <2>2, <2>3, <2>5, SomeOldest DEF Oldest
  <2>7. /\ left \in Seq(Detail) /\ UniqueIds(left)
        /\ ToSet(left) = {d \in ToSet(files) : d.id \notin gone}
    BY <2>4, DroppingSet, DroppingUnique
  <2>8. IdsOf(left) \subseteq IdsOf(files) \ {id}
    BY <2>6, <2>7 DEF IdsOf
  <2>9. Cardinality(IdsOf(left)) < Cardinality(IdsOf(files))
    <3>1. /\ IsFiniteSet(IdsOf(files) \ {id})
          /\ Cardinality(IdsOf(files) \ {id}) = Cardinality(IdsOf(files)) - 1
      BY <1>3, <2>6, FS_RemoveElement
    <3>2. Cardinality(IdsOf(left)) <= Cardinality(IdsOf(files) \ {id})
      BY <2>8, <3>1, FS_Subset
    <3>3. Cardinality(IdsOf(left)) \in Nat
      BY <2>7, PagesAreIds
    <3> QED  BY <1>3, <3>1, <3>2, <3>3
  <2> QED  BY <2>7, <2>9
<1> QED  BY <1>6, <1>7

(* There is a greatest name of pages. *)
LEMMA GreatestName ==
    ASSUME NEW files \in Seq(Detail), NEW ids, ids \subseteq IdsOf(files), ids # {}
    PROVE  Max({Name[id] : id \in ids}) \in Nat
<1> DEFINE C == {s \in Seq(Detail) : \E n \in Nat : \A d \in ToSet(s) : Name[d.id] <= n}
<1>1. \A d \in Detail : Name[d.id] \in Nat \ {0}
  BY DetailAssumption DEF Detail
<1>2. << >> \in C
  <2>1. PICK e : e = << >>
    OBVIOUS
  <2>2. e \in Seq(Detail) /\ ToSet(e) = {}
    BY <2>1 DEF ToSet
  <2>3. 0 \in Nat /\ \A d \in ToSet(e) : Name[d.id] <= 0
    BY <2>2
  <2>4. e \in C
    BY <2>2, <2>3
  <2> QED  BY <2>1, <2>4
<1>3. ASSUME NEW s \in Seq(Detail), NEW x \in Detail, s \in C
      PROVE  Append(s, x) \in C
  <2>1. PICK n \in Nat : \A d \in ToSet(s) : Name[d.id] <= n
    BY <1>3
  <2>2. ToSet(Append(s, x)) = ToSet(s) \cup {x} /\ Append(s, x) \in Seq(Detail)
    BY ToSetAppend
  <2>3. ToSet(s) \subseteq Detail
    BY DEF ToSet
  <2>4. n + Name[x.id] \in Nat /\ \A d \in ToSet(s) \cup {x} : Name[d.id] <= n + Name[x.id]
    BY <1>1, <2>1, <2>3
  <2> QED  BY <2>2, <2>4
<1>4. Seq(Detail) \subseteq C
  <2> HIDE DEF C
  <2> QED  BY <1>2, <1>3, SeqInduction
<1>5. PICK n \in Nat : \A d \in ToSet(files) : Name[d.id] <= n
  BY <1>4
<1>6. PICK S : S = {Name[id] : id \in ids}
  OBVIOUS
<1>7. S # {} /\ S \in SUBSET (1 .. n)
  <2>1. ToSet(files) \subseteq Detail
    BY DEF ToSet
  <2>2. ASSUME NEW id \in ids
        PROVE  Name[id] \in 1 .. n
    <3>1. PICK d \in ToSet(files) : d.id = id
      BY DEF IdsOf
    <3>2. Name[d.id] \in Nat \ {0} /\ Name[d.id] <= n
      BY <1>1, <1>5, <2>1
    <3> QED  BY <3>1, <3>2
  <2> QED  BY <1>6, <2>2
<1>8. PICK m \in S : \A x \in S : x <= m
  BY <1>7, Greatest
<1>9. \A x \in S : m >= x
  BY <1>7, <1>8
<1>10. Max(S) \in S
  BY <1>8, <1>9 DEF Max
<1> QED  BY <1>6, <1>7, <1>10

(* A clean-up removes pages, and brings their number to the limit or down. *)
LEMMA CleanedUp ==
    ASSUME details \in Seq(Detail), UniqueIds(details), NEW now, RemoveExpiredAndTrim(now)
    PROVE  /\ details' \in Seq(Detail) /\ UniqueIds(details')
           /\ ToSet(details') \subseteq ToSet(details) /\ detailCursor' \in Nat
           /\ \/ Cardinality(IdsOf(details')) <= MaxDetails
              \/ Cardinality(IdsOf(details')) <= Cardinality(IdsOf(details))
<1>1. PICK seen, behind, visited :
        /\ seen \in Entries(details, MaxDetails + 1)
        /\ behind = {id \in seen : Name[id] > detailCursor}
        /\ visited \subseteq behind
        /\ \E left \in {Dropping(details, visited \cap ExpiredDetails(now))} :
                details' \in Trimmed(left)
        /\ detailCursor' = IF Reached(visited, now)
                           THEN Max({Name[id] : id \in visited}) ELSE 0
  BY DEF RemoveExpiredAndTrim
<1>2. visited \subseteq IdsOf(details)
  BY <1>1 DEF Entries, kSubset
<1>3. detailCursor' \in Nat
  <2>1. CASE Reached(visited, now)
    <3>1. {DetailVisits, DetailRemovals} \subseteq Nat \ {0}
      BY DetailAssumption
    <3>2. Cardinality({}) = 0 /\ {} \cap ExpiredDetails(now) = {}
      BY FS_EmptySet
    <3>3. visited # {}
      <4>1. SUFFICES ASSUME visited = {} PROVE FALSE
        OBVIOUS
      <4>2. Cardinality(visited) = 0 /\ Cardinality(visited \cap ExpiredDetails(now)) = 0
        BY <3>2, <4>1
      <4>3. ~(0 >= DetailVisits) /\ ~(0 >= DetailRemovals)
        BY <3>1
      <4> QED  BY <2>1, <4>2, <4>3 DEF Reached
    <3> QED  BY <1>1, <1>2, <2>1, <3>3, GreatestName
  <2>2. CASE ~Reached(visited, now)
    BY <1>1, <2>2
  <2> QED  BY <2>1, <2>2
<1>4. PICK left : /\ left = Dropping(details, visited \cap ExpiredDetails(now))
                  /\ details' \in Trimmed(left)
  BY <1>1
<1>5. /\ left \in Seq(Detail) /\ UniqueIds(left)
      /\ ToSet(left) \subseteq ToSet(details)
  BY <1>4, DroppingSet, DroppingUnique
<1>6. PICK after : after = details'
  OBVIOUS
<1>7. /\ after \in Seq(Detail) /\ UniqueIds(after) /\ ToSet(after) \subseteq ToSet(left)
      /\ \/ Cardinality(IdsOf(after)) <= MaxDetails
         \/ Cardinality(IdsOf(after)) < Cardinality(IdsOf(left))
  BY <1>4, <1>5, <1>6, TrimmedSet
<1>8. Cardinality(IdsOf(left)) <= Cardinality(IdsOf(details))
  <2>1. IdsOf(left) \subseteq IdsOf(details)
    BY <1>5 DEF IdsOf
  <2> QED  BY <2>1, PagesAreIds, FS_Subset
<1>9. \/ Cardinality(IdsOf(after)) <= MaxDetails
      \/ Cardinality(IdsOf(after)) <= Cardinality(IdsOf(details))
  <2>1. /\ Cardinality(IdsOf(after)) \in Nat /\ Cardinality(IdsOf(left)) \in Nat
        /\ Cardinality(IdsOf(details)) \in Nat
    BY <1>5, <1>7, PagesAreIds
  <2> QED  BY <1>7, <1>8, <2>1
<1> QED  BY <1>3, <1>5, <1>6, <1>7, <1>9

(* A page is added or replaced. *)
LEMMA Wrote ==
    ASSUME PageInv, NEW d \in Detail, WriteDetail(d)
    PROVE  /\ details' \in Seq(Detail) /\ UniqueIds(details')
           /\ lastWrites' \in Seq(Detail) /\ UniqueIds(lastWrites')
           /\ ToSet(lastWrites') = {e \in ToSet(lastWrites) : e.id # d.id} \cup {d}
           /\ ToSet(details') \subseteq ToSet(lastWrites')
           /\ IdsOf(details') = IdsOf(details) \cup {d.id}
<1>1. PICK a, b : a = details' /\ b = lastWrites'
  OBVIOUS
<1>2. /\ a \in Seq(Detail) /\ UniqueIds(a) /\ b \in Seq(Detail) /\ UniqueIds(b)
      /\ ToSet(a) = {e \in ToSet(details) : e.id # d.id} \cup {d}
      /\ ToSet(b) = {e \in ToSet(lastWrites) : e.id # d.id} \cup {d}
  BY <1>1, RenewedSet DEF PageInv, WriteDetail
<1>3. ToSet(a) \subseteq ToSet(b)
  BY <1>2 DEF PageInv
<1>4. IdsOf(a) = IdsOf(details) \cup {d.id}
  BY <1>2 DEF IdsOf
<1> QED  BY <1>1, <1>2, <1>3, <1>4

(* A page is created, and another may go. *)
LEMMA Created ==
    ASSUME PageInv, NEW id \in Prompts, NEW now \in Nat, CreateDetail(id, now)
    PROVE  /\ details' \in Seq(Detail) /\ UniqueIds(details')
           /\ lastWrites' \in Seq(Detail) /\ UniqueIds(lastWrites')
           /\ ToSet(lastWrites')
                = {e \in ToSet(lastWrites) : e.id # id} \cup {NewDetail(id, now)}
           /\ ToSet(details') \subseteq ToSet(lastWrites')
           /\ \/ Cardinality(IdsOf(details')) <= MaxDetails
              \/ Cardinality(IdsOf(details')) <= Cardinality(IdsOf(details))
<1>1. PICK a, b, d : a = details' /\ b = lastWrites' /\ d = NewDetail(id, now)
  OBVIOUS
<1>2. d \in Detail /\ d.id = id
  BY <1>1 DEF NewDetail, Detail
<1>3. PICK written : written = Renewed(details, d) /\ a \in Trimmed(written)
  BY <1>1 DEF CreateDetail
<1>4. /\ written \in Seq(Detail) /\ UniqueIds(written)
      /\ ToSet(written) = {e \in ToSet(details) : e.id # d.id} \cup {d}
      /\ b \in Seq(Detail) /\ UniqueIds(b)
      /\ ToSet(b) = {e \in ToSet(lastWrites) : e.id # d.id} \cup {d}
  BY <1>1, <1>2, <1>3, RenewedSet DEF PageInv, CreateDetail
<1>5. /\ a \in Seq(Detail) /\ UniqueIds(a) /\ ToSet(a) \subseteq ToSet(written)
      /\ \/ Cardinality(IdsOf(a)) <= MaxDetails
         \/ Cardinality(IdsOf(a)) < Cardinality(IdsOf(written))
  BY <1>3, <1>4, TrimmedSet
<1>6. ToSet(a) \subseteq ToSet(b)
  BY <1>4, <1>5 DEF PageInv
<1>7. IdsOf(written) = IdsOf(details) \cup {id}
  BY <1>2, <1>4 DEF IdsOf
<1>8. Cardinality(IdsOf(written)) <= Cardinality(IdsOf(details)) + 1
  <2>1. IsFiniteSet(IdsOf(details)) /\ Cardinality(IdsOf(details)) \in Nat
    BY PagesAreIds DEF PageInv
  <2>2. PICK I : I = IdsOf(details)
    OBVIOUS
  <2>3. Cardinality(I \cup {id}) = IF id \in I THEN Cardinality(I) ELSE Cardinality(I) + 1
    BY <2>1, <2>2, FS_AddElement
  <2> QED  BY <1>7, <2>1, <2>2, <2>3
<1>9. \/ Cardinality(IdsOf(a)) <= MaxDetails
      \/ Cardinality(IdsOf(a)) <= Cardinality(IdsOf(details))
  <2>1. /\ Cardinality(IdsOf(a)) \in Nat /\ Cardinality(IdsOf(written)) \in Nat
        /\ Cardinality(IdsOf(details)) \in Nat
    BY <1>4, <1>5, PagesAreIds DEF PageInv
  <2> QED  BY <1>5, <1>8, <2>1
<1> QED  BY <1>1, <1>2, <1>4, <1>5, <1>6, <1>9

-----------------------------------------------------------------------------
(* The hooks *)

(* A hook goes on as r.  The end of a turn stays in the hand of a hook, or is *)
(* announced.                                                              *)
GoesOnAs(h, r) ==
    /\ hook' = [hook EXCEPT ![h] = r] /\ Typed(r)
    /\ busy' \subseteq busy
    /\ hook[h].task \in {"consume", "save"} =>
        \/ r.task \in {"consume", "save"} /\ r.session = hook[h].session /\ r.turn = hook[h].turn
        \/ hook[h].session \notin busy' \/ hook[h].turn # turn[hook[h].session]

(* What it carries it had before. *)
Gaining(h, r) == \E s, o : Has(r, s, o) /\ ~Has(hook[h], s, o)

(* The stages of a task are not idle ones. *)
LEMMA IdleTyped ==
    /\ Typed(NoWork) /\ ~Carries(NoWork) /\ DOMAIN NoWork = HookFields
    /\ NoWork.task = "none" /\ NoWork.at = "idle" /\ NoWork.output = {}
<1>1. PICK r : r = NoWork
  OBVIOUS
<1>2. /\ DOMAIN r = HookFields /\ DOMAIN r.sweep = SweepFields /\ r.task = "none" /\ r.at = "idle"
      /\ r.turn = 0 /\ r.output = {}
  BY <1>1 DEF NoWork, NoSweep, HookFields, SweepFields
<1>3. "none" \in Tasks /\ "idle" \in StagesOf("none")
  BY DEF Tasks, StagesOf
<1>4. 0 \in 0 .. MaxTurns
  BY NoticeAssumption
<1>5. Typed(r) /\ ~Carries(r)
  BY <1>2, <1>3, <1>4 DEF Typed, Carries
<1> QED  BY <1>1, <1>2, <1>5

(* To the next stage of a task. *)
LEMMA GoStep ==
    ASSUME HookInv, NEW h \in Hooks, NEW place, place \in StagesOf(hook[h].task),
           place # "record", Go(h, place), busy' = busy
    PROVE  \E r : GoesOnAs(h, r) /\ ~Gaining(h, r) /\ r = [hook[h] EXCEPT !.at = place]
<1>1. PICK r : r = [hook[h] EXCEPT !.at = place]
  OBVIOUS
<1>2. Typed(hook[h]) /\ DOMAIN hook = Hooks
  BY DEF HookInv
<1>3. /\ DOMAIN r = DOMAIN hook[h] /\ r.at = place /\ r.sweep = hook[h].sweep
      /\ r.task = hook[h].task /\ r.session = hook[h].session /\ r.turn = hook[h].turn
      /\ r.output = hook[h].output
  BY <1>1, <1>2 DEF Typed, HookFields
<1>4. hook' = [hook EXCEPT ![h] = r]
  BY <1>1, <1>2 DEF Go
<1>5. Typed(r)
  BY <1>2, <1>3 DEF Typed
<1>6. ~Gaining(h, r)
  BY <1>3 DEF Gaining, Has, Carries
<1> QED  BY <1>1, <1>3, <1>4, <1>5, <1>6 DEF GoesOnAs

(* To the first stage of the next task. *)
LEMMA NextTaskStep ==
    ASSUME HookInv, NEW h \in Hooks, NEW task, NEW place, NextTask(h, task, place), busy' = busy,
           \/ hook[h].task = "begin" /\ task = "open" /\ place = "create"
           \/ hook[h].task = "open" /\ task = "show" /\ place = "claim"
           \/ hook[h].task = "show" /\ task = "tell" /\ place = "result"
           \/ hook[h].task = "consume" /\ task = "save" /\ place = "lock"
    PROVE  \E r : GoesOnAs(h, r) /\ ~Gaining(h, r) /\ r.at = place
<1>1. PICK r : r = [hook[h] EXCEPT !.task = task, !.at = place]
  OBVIOUS
<1>2. Typed(hook[h]) /\ DOMAIN hook = Hooks
  BY DEF HookInv
<1>3. /\ DOMAIN r = DOMAIN hook[h] /\ r.at = place /\ r.sweep = hook[h].sweep
      /\ r.task = task /\ r.session = hook[h].session /\ r.turn = hook[h].turn
      /\ r.output = hook[h].output
  BY <1>1, <1>2 DEF Typed, HookFields
<1>4. hook' = [hook EXCEPT ![h] = r]
  BY <1>1, <1>2 DEF NextTask
<1>5. task \in Tasks /\ place \in StagesOf(task)
  BY DEF Tasks, StagesOf
<1>6. Typed(r)
  BY <1>2, <1>3, <1>5 DEF Typed
<1>7. ~Gaining(h, r)
  <2>1. hook[h].task \in {"begin", "open"} => r.output = {}
    BY <1>2, <1>3 DEF Typed
  <2> QED  BY <1>3, <2>1 DEF Gaining, Has, Carries
<1>8. hook[h].task \in {"consume", "save"} => task \in {"consume", "save"}
  OBVIOUS
<1> QED  BY <1>3, <1>4, <1>6, <1>7, <1>8 DEF GoesOnAs

(* To nothing. *)
LEMMA EndStep ==
    ASSUME HookInv, NEW h \in Hooks, End(h), busy' \subseteq busy,
           hook[h].task \in {"consume", "save"} =>
                hook[h].session \notin busy' \/ hook[h].turn # turn[hook[h].session]
    PROVE  GoesOnAs(h, NoWork) /\ ~Gaining(h, NoWork) /\ NoWork.at = "idle"
<1> QED  BY IdleTyped DEF End, GoesOnAs, Gaining, Has

(* A hook has done what it was doing. *)
LEMMA FinishStep ==
    ASSUME HookInv, NEW h \in Hooks, Finish(h)
    PROVE  \E r : GoesOnAs(h, r) /\ ~Gaining(h, r) /\ r.at \notin {"move", "discard"}
<1>1. CASE Works(h, "begin")
  <2>1. NextTask(h, "open", "create") /\ busy' = busy /\ hook[h].task = "begin"
    BY <1>1 DEF Finish, Works
  <2>2. PICK r : GoesOnAs(h, r) /\ ~Gaining(h, r) /\ r.at = "create"
    BY <2>1, NextTaskStep
  <2> QED  BY <2>2
<1>2. CASE Works(h, "show") /\ hook[h].output # {} /\ hook[h].page
  <2>1. NextTask(h, "tell", "result") /\ busy' = busy /\ hook[h].task = "show"
    BY <1>2 DEF Finish, Works
  <2>2. PICK r : GoesOnAs(h, r) /\ ~Gaining(h, r) /\ r.at = "result"
    BY <2>1, NextTaskStep
  <2> QED  BY <2>2
<1>3. CASE Works(h, "show") /\ ~(hook[h].output # {} /\ hook[h].page)
  <2>1. End(h) /\ busy' = busy /\ hook[h].task = "show"
    BY <1>3 DEF Finish, Works
  <2> QED  BY <2>1, EndStep
<1>4. CASE Works(h, "consume") /\ hook[h].output # {}
  <2>1. NextTask(h, "save", "lock") /\ busy' = busy /\ hook[h].task = "consume"
    BY <1>4 DEF Finish, Works
  <2>2. PICK r : GoesOnAs(h, r) /\ ~Gaining(h, r) /\ r.at = "lock"
    BY <2>1, NextTaskStep
  <2> QED  BY <2>2
<1>5. CASE Works(h, "clean")
  <2>1. Go(h, "sweep") /\ busy' = busy /\ hook[h].task = "clean"
    BY <1>5 DEF Finish, Works
  <2>2. "sweep" \in StagesOf(hook[h].task)
    BY <2>1 DEF StagesOf
  <2>3. PICK r : GoesOnAs(h, r) /\ ~Gaining(h, r) /\ r = [hook[h] EXCEPT !.at = "sweep"]
    BY <2>1, <2>2, GoStep
  <2>4. r.at = "sweep"
    BY <2>3 DEF HookInv, Typed, HookFields
  <2> QED  BY <2>3, <2>4
<1>6. CASE /\ ~Works(h, "begin") /\ ~Works(h, "show") /\ ~Works(h, "clean")
           /\ ~(Works(h, "consume") /\ hook[h].output # {})
  <2>1. /\ End(h)
        /\ busy' = IF Works(h, "record") \/ hook[h].turn # turn[hook[h].session] THEN busy
                   ELSE busy \ {hook[h].session}
    BY <1>6 DEF Finish
  <2> QED  BY <2>1, EndStep DEF Works
<1> QED  BY <1>1, <1>2, <1>3, <1>4, <1>5, <1>6

(* What a hook was doing has failed. *)
LEMMA FailStep ==
    ASSUME HookInv, NEW h \in Hooks, Fail(h)
    PROVE  \E r : GoesOnAs(h, r) /\ ~Gaining(h, r) /\ r.at \notin {"move", "discard"}
<1>1. CASE Works(h, "begin")
  <2>1. NextTask(h, "open", "create") /\ busy' = busy /\ hook[h].task = "begin"
    BY <1>1 DEF Fail, Works
  <2>2. PICK r : GoesOnAs(h, r) /\ ~Gaining(h, r) /\ r.at = "create"
    BY <2>1, NextTaskStep
  <2> QED  BY <2>2
<1>2. CASE Works(h, "open")
  <2>1. NextTask(h, "show", "claim") /\ busy' = busy /\ hook[h].task = "open"
    BY <1>2 DEF Fail, Works
  <2>2. PICK r : GoesOnAs(h, r) /\ ~Gaining(h, r) /\ r.at = "claim"
    BY <2>1, NextTaskStep
  <2> QED  BY <2>2
<1>3. CASE Works(h, "record")
  <2>1. Go(h, "prune") /\ busy' = busy /\ hook[h].task = "record"
    BY <1>3 DEF Fail, Works
  <2>2. "prune" \in StagesOf(hook[h].task)
    BY <2>1 DEF StagesOf
  <2>3. PICK r : GoesOnAs(h, r) /\ ~Gaining(h, r) /\ r = [hook[h] EXCEPT !.at = "prune"]
    BY <2>1, <2>2, GoStep
  <2>4. r.at = "prune"
    BY <2>3 DEF HookInv, Typed, HookFields
  <2> QED  BY <2>3, <2>4
<1>4. CASE ~Works(h, "begin") /\ ~Works(h, "open") /\ ~Works(h, "record")
  <2>1. /\ End(h)
        /\ busy' = IF hook[h].task \in {"show", "tell"} \/ hook[h].turn # turn[hook[h].session]
                   THEN busy ELSE busy \ {hook[h].session}
    BY <1>4 DEF Fail
  <2> QED  BY <2>1, EndStep
<1> QED  BY <1>1, <1>2, <1>3, <1>4

(* A hook that tidies up the pages. *)
LEMMA TidyTyped ==
    /\ Typed(Tidying) /\ ~Carries(Tidying) /\ DOMAIN Tidying = HookFields
    /\ Tidying.task = "tidy" /\ Tidying.at = "expire"
<1>1. PICK n : n = NoWork
  OBVIOUS
<1>2. PICK r : r = Tidying
  OBVIOUS
<1>3. r = [n EXCEPT !.task = "tidy", !.at = "expire"]
  BY <1>1, <1>2 DEF Tidying
<1>4. Typed(n) /\ DOMAIN n = HookFields
  BY <1>1, IdleTyped
<1>5. /\ DOMAIN r = HookFields /\ r.sweep = n.sweep /\ r.task = "tidy" /\ r.at = "expire"
      /\ r.turn = n.turn /\ r.output = n.output /\ n.output = {}
  BY <1>1, <1>3, <1>4, IdleTyped DEF HookFields
<1>6. "tidy" \in Tasks /\ "expire" \in StagesOf("tidy")
  BY DEF Tasks, StagesOf
<1>7. Typed(r) /\ ~Carries(r)
  BY <1>4, <1>5, <1>6 DEF Typed, Carries
<1> QED  BY <1>2, <1>5, <1>7

(* Where a hook is tells what it does. *)
LEMMA StageTask ==
    ASSUME NEW r, Typed(r)
    PROVE  /\ r.at \in {"lock", "mkAgent", "mkSession", "mkDir", "write"} =>
                r.task \in {"begin", "save"}
           /\ r.at \in {"create", "context"} => r.task = "open"
           /\ r.at \in {"claim", "read", "discard"} => r.task \in {"show", "consume"}
           /\ r.at = "result" => r.task = "tell"
           /\ r.at = "record" => r.task = "record"
           /\ r.at \in {"scan", "sweep"} => r.task = "clean"
           /\ r.at \in {"prune", "pruneAgent"} => r.task \in {"show", "consume", "record", "clean"}
           /\ r.at \in {"expire", "move"} => r.task = "tidy"
           /\ r.at = "idle" => r.task = "none"
<1> QED  BY DEF Typed, StagesOf, Tasks

(* Every step of a hook, except that it reads what it claimed, leaves it with  *)
(* no more than it had.                                                    *)
LEMMA GoingOn ==
    ASSUME HookInv, TreeInv, NEW h \in Hooks, Goes(h), ~ReadClaim(h)
    PROVE  \E r : /\ GoesOnAs(h, r) /\ ~Gaining(h, r) /\ r.at # "discard"
                  /\ r.at = "move" => hook[h].at = "move" \/ StartMove(h)
<1>1. Typed(hook[h]) /\ DOMAIN hook = Hooks
  BY DEF HookInv
<1> DEFINE Fine(r) == /\ GoesOnAs(h, r) /\ ~Gaining(h, r) /\ r.at # "discard"
                      /\ r.at = "move" => hook[h].at = "move" \/ StartMove(h)
<1>2. CASE LockAndReset(h)
  <2>1. PICK place \in {"mkDir", "mkSession", "mkAgent"} :
            At(h, "lock") /\ Go(h, place) /\ busy' = busy
    BY <1>2 DEF LockAndReset, agentVars
  <2>2. place \in StagesOf(hook[h].task)
    BY <1>1, <2>1, StageTask DEF StagesOf, At
  <2>3. PICK r : GoesOnAs(h, r) /\ ~Gaining(h, r) /\ r = [hook[h] EXCEPT !.at = place]
    BY <2>1, <2>2, GoStep
  <2>4. r.at = place
    BY <1>1, <2>3 DEF Typed, HookFields
  <2> QED  BY <2>3, <2>4
<1>3. CASE MakeAgentDir(h)
  <2>1. At(h, "mkAgent") /\ Go(h, "mkSession") /\ busy' = busy
    BY <1>3 DEF MakeAgentDir, agentVars
  <2>2. "mkSession" \in StagesOf(hook[h].task)
    BY <1>1, <2>1, StageTask DEF StagesOf, At
  <2>3. PICK r : GoesOnAs(h, r) /\ ~Gaining(h, r) /\ r = [hook[h] EXCEPT !.at = "mkSession"]
    BY <2>1, <2>2, GoStep
  <2>4. r.at = "mkSession"
    BY <1>1, <2>3 DEF Typed, HookFields
  <2> QED  BY <2>3, <2>4
<1>4. CASE MakeSessionDir(h)
  <2>1. At(h, "mkSession") /\ Go(h, "mkDir") /\ busy' = busy
    BY <1>4 DEF MakeSessionDir, agentVars
  <2>2. "mkDir" \in StagesOf(hook[h].task)
    BY <1>1, <2>1, StageTask DEF StagesOf, At
  <2>3. PICK r : GoesOnAs(h, r) /\ ~Gaining(h, r) /\ r = [hook[h] EXCEPT !.at = "mkDir"]
    BY <2>1, <2>2, GoStep
  <2>4. r.at = "mkDir"
    BY <1>1, <2>3 DEF Typed, HookFields
  <2> QED  BY <2>3, <2>4
<1>5. CASE MakeDir(h)
  <2>1. At(h, "mkDir") /\ Go(h, "write") /\ busy' = busy
    BY <1>5 DEF MakeDir, agentVars
  <2>2. "write" \in StagesOf(hook[h].task)
    BY <1>1, <2>1, StageTask DEF StagesOf, At
  <2>3. PICK r : GoesOnAs(h, r) /\ ~Gaining(h, r) /\ r = [hook[h] EXCEPT !.at = "write"]
    BY <2>1, <2>2, GoStep
  <2>4. r.at = "write"
    BY <1>1, <2>3 DEF Typed, HookFields
  <2> QED  BY <2>3, <2>4
<1>6. CASE RecordOutput(h)
  <2>1. At(h, "record") /\ Go(h, "prune") /\ busy' = busy
    BY <1>6 DEF RecordOutput, agentVars
  <2>2. "prune" \in StagesOf(hook[h].task)
    BY <1>1, <2>1, StageTask DEF StagesOf, At
  <2>3. PICK r : GoesOnAs(h, r) /\ ~Gaining(h, r) /\ r = [hook[h] EXCEPT !.at = "prune"]
    BY <2>1, <2>2, GoStep
  <2>4. r.at = "prune"
    BY <1>1, <2>3 DEF Typed, HookFields
  <2> QED  BY <2>3, <2>4
<1>7. CASE DiscardClaim(h)
  <2>1. At(h, "discard") /\ Go(h, "prune") /\ busy' = busy
    BY <1>7 DEF DiscardClaim, agentVars
  <2>2. "prune" \in StagesOf(hook[h].task)
    BY <1>1, <2>1, StageTask DEF StagesOf, At
  <2>3. PICK r : GoesOnAs(h, r) /\ ~Gaining(h, r) /\ r = [hook[h] EXCEPT !.at = "prune"]
    BY <2>1, <2>2, GoStep
  <2>4. r.at = "prune"
    BY <1>1, <2>3 DEF Typed, HookFields
  <2> QED  BY <2>3, <2>4
<1>8. CASE MakeFails(h)
  <2> QED  BY <1>8, FailStep DEF MakeFails
<1>9. CASE LockTimesOut(h)
  <2> QED  BY <1>9, FailStep DEF LockTimesOut
<1>10. CASE WriteFile(h)
  <2> QED  BY <1>10, FinishStep DEF WriteFile
<1>11. CASE PruneAgent(h)
  <2> QED  BY <1>11, FinishStep DEF PruneAgent
<1>12. CASE Prune(h)
  <2>1. CASE Finish(h)
    BY <2>1, FinishStep
  <2>2. CASE At(h, "prune") /\ Go(h, "pruneAgent") /\ busy' = busy
    <3>1. "pruneAgent" \in StagesOf(hook[h].task)
      BY <1>1, <2>2, StageTask DEF StagesOf, At
    <3>2. PICK r : GoesOnAs(h, r) /\ ~Gaining(h, r) /\ r = [hook[h] EXCEPT !.at = "pruneAgent"]
      BY <2>2, <3>1, GoStep
    <3>3. r.at = "pruneAgent"
      BY <1>1, <3>2 DEF Typed, HookFields
    <3> QED  BY <3>2, <3>3
  <2> QED  BY <1>12, <2>1, <2>2 DEF Prune
<1>13. CASE ClaimIt(h)
  <2>1. At(h, "claim") /\ busy' = busy /\ hook[h].task \in {"show", "consume"}
    BY <1>1, <1>13, StageTask DEF ClaimIt, agentVars, At
  <2>2. CASE Go(h, "read")
    <3>1. "read" \in StagesOf(hook[h].task)
      BY <2>1 DEF StagesOf
    <3>2. PICK r : GoesOnAs(h, r) /\ ~Gaining(h, r) /\ r = [hook[h] EXCEPT !.at = "read"]
      BY <2>1, <2>2, <3>1, GoStep
    <3>3. r.at = "read"
      BY <1>1, <3>2 DEF Typed, HookFields
    <3> QED  BY <3>2, <3>3
  <2>3. CASE hook' = [hook EXCEPT ![h].at = "prune", ![h].output = {}]
    <3>1. PICK r : r = [hook[h] EXCEPT !.at = "prune", !.output = {}]
      OBVIOUS
    <3>2. /\ DOMAIN r = DOMAIN hook[h] /\ r.at = "prune" /\ r.sweep = hook[h].sweep
          /\ r.task = hook[h].task /\ r.session = hook[h].session /\ r.turn = hook[h].turn
          /\ r.output = {}
      BY <1>1, <3>1 DEF Typed, HookFields
    <3>3. hook' = [hook EXCEPT ![h] = r]
      BY <1>1, <2>3, <3>1
    <3>4. "prune" \in StagesOf(hook[h].task)
      BY <2>1 DEF StagesOf
    <3>5. Typed(r)
      BY <1>1, <3>2, <3>4 DEF Typed
    <3>6. ~Gaining(h, r)
      BY <3>2 DEF Gaining, Has
    <3> QED  BY <2>1, <3>2, <3>3, <3>5, <3>6 DEF GoesOnAs
  <2> QED  BY <1>13, <2>2, <2>3 DEF ClaimIt
<1>14. CASE Scan(h)
  <2>1. At(h, "scan") /\ busy' = busy /\ hook[h].task = "clean"
    BY <1>1, <1>14, StageTask DEF Scan, agentVars, At
  <2>2. PICK swp : /\ DOMAIN swp = SweepFields /\ swp.left \subseteq Path
                   /\ hook' = [hook EXCEPT ![h].at = "sweep", ![h].sweep = swp]
    <3>1. PICK left, after, complete :
            /\ left \subseteq DOMAIN dirs
            /\ hook' = [hook EXCEPT ![h].at = "sweep",
                    ![h].sweep = [left |-> left, after |-> after, complete |-> complete,
                                  now |-> clock]]
      BY <1>14 DEF Scan, Visited, Behind
    <3>2. PICK swp : swp = [left |-> left, after |-> after, complete |-> complete, now |-> clock]
      OBVIOUS
    <3>3. DOMAIN swp = SweepFields /\ swp.left = left
      BY <3>2 DEF SweepFields
    <3> QED  BY <3>1, <3>2, <3>3 DEF TreeInv
  <2>3. PICK r : r = [hook[h] EXCEPT !.at = "sweep", !.sweep = swp]
    OBVIOUS
  <2>4. /\ DOMAIN r = DOMAIN hook[h] /\ r.at = "sweep" /\ r.sweep = swp
        /\ r.task = hook[h].task /\ r.session = hook[h].session /\ r.turn = hook[h].turn
        /\ r.output = hook[h].output
    BY <1>1, <2>3 DEF Typed, HookFields
  <2>5. hook' = [hook EXCEPT ![h] = r]
    BY <1>1, <2>2, <2>3
  <2>6. "sweep" \in StagesOf(hook[h].task)
    BY <2>1 DEF StagesOf
  <2>7. Typed(r)
    BY <1>1, <2>1, <2>2, <2>4, <2>6 DEF Typed
  <2>8. ~Gaining(h, r)
    BY <2>1, <2>4 DEF Gaining, Has, Carries
  <2> QED  BY <2>1, <2>4, <2>5, <2>7, <2>8 DEF GoesOnAs
<1>15. CASE SweepNext(h)
  <2>1. At(h, "sweep") /\ busy' = busy /\ hook[h].task = "clean"
    BY <1>1, <1>15, StageTask DEF SweepNext, agentVars, At
  <2>2. PICK p \in hook[h].sweep.left :
            \/ hook' = [hook EXCEPT ![h] =
                    [[hook[h] EXCEPT !.sweep.left = @ \ {p}] EXCEPT !.at = "prune",
                                                                   !.session = p.session]]
            \/ hook' = [hook EXCEPT ![h] = [hook[h] EXCEPT !.sweep.left = @ \ {p}]]
    BY <1>15 DEF SweepNext
  <2>3. PICK q : q = [hook[h] EXCEPT !.sweep.left = @ \ {p}]
    OBVIOUS
  <2>4. /\ DOMAIN q = DOMAIN hook[h] /\ q.at = "sweep" /\ DOMAIN q.sweep = DOMAIN hook[h].sweep
        /\ q.sweep.left = hook[h].sweep.left \ {p}
        /\ q.task = hook[h].task /\ q.session = hook[h].session /\ q.turn = hook[h].turn
        /\ q.output = hook[h].output
    BY <1>1, <2>1, <2>3 DEF Typed, HookFields, SweepFields, At
  <2>5. hook[h].sweep.left \subseteq Path /\ p.session \in Sessions
    BY <1>1, <2>1 DEF Typed, Path
  <2>6. PICK r : /\ hook' = [hook EXCEPT ![h] = r]
                 /\ r = q \/ r = [q EXCEPT !.at = "prune", !.session = p.session]
    BY <2>2, <2>3
  <2>7. /\ DOMAIN r = DOMAIN hook[h] /\ r.at \in {"sweep", "prune"} /\ r.sweep = q.sweep
        /\ r.task = hook[h].task /\ r.turn = hook[h].turn /\ r.output = hook[h].output
    BY <1>1, <2>4, <2>6 DEF Typed, HookFields
  <2>8. r.at \in StagesOf(hook[h].task)
    BY <2>1, <2>7 DEF StagesOf
  <2>9. Typed(r)
    BY <1>1, <2>1, <2>4, <2>5, <2>7, <2>8 DEF Typed
  <2>10. ~Gaining(h, r)
    BY <2>1, <2>7 DEF Gaining, Has, Carries
  <2> QED  BY <2>1, <2>6, <2>7, <2>9, <2>10 DEF GoesOnAs
<1>16. CASE EndSweep(h)
  <2>1. /\ At(h, "sweep") /\ busy' = busy /\ hook' = [hook EXCEPT ![h] = Tidying]
        /\ hook[h].task = "clean"
    BY <1>1, <1>16, StageTask DEF EndSweep, agentVars, At
  <2> QED  BY <2>1, TidyTyped DEF GoesOnAs, Gaining, Has
<1>17. CASE OpenPage(h)
  <2>1. busy' = busy /\ hook[h].task = "open" /\ hook[h].output = {}
    BY <1>1, <1>17, StageTask DEF OpenPage, receiptVars, agentVars, At, Typed
  <2>2. PICK r : r = [hook[h] EXCEPT !.page = TRUE, !.task = IF world.rules THEN "open" ELSE "show",
                                     !.at = IF world.rules THEN "context" ELSE "claim"]
    OBVIOUS
  <2>3. /\ DOMAIN r = DOMAIN hook[h] /\ r.sweep = hook[h].sweep
        /\ r.task = (IF world.rules THEN "open" ELSE "show")
        /\ r.at = (IF world.rules THEN "context" ELSE "claim")
        /\ r.session = hook[h].session /\ r.turn = hook[h].turn /\ r.output = hook[h].output
    BY <1>1, <2>2 DEF Typed, HookFields
  <2>4. hook' = [hook EXCEPT ![h] = r]
    BY <1>1, <1>17, <2>2 DEF OpenPage
  <2>5. r.task \in {"open", "show"} /\ r.task \in Tasks /\ r.at \in StagesOf(r.task)
    BY <2>3 DEF Tasks, StagesOf
  <2>6. Typed(r)
    BY <1>1, <2>1, <2>3, <2>5 DEF Typed
  <2>7. ~Gaining(h, r)
    BY <2>1, <2>3 DEF Gaining, Has
  <2> QED  BY <2>1, <2>3, <2>4, <2>6, <2>7 DEF GoesOnAs
<1>18. CASE RecordRules(h)
  <2>1. NextTask(h, "show", "claim") /\ busy' = busy /\ hook[h].task = "open"
    BY <1>1, <1>18, StageTask DEF RecordRules, receiptVars, agentVars, At
  <2>2. PICK r : GoesOnAs(h, r) /\ ~Gaining(h, r) /\ r.at = "claim"
    BY <2>1, NextTaskStep
  <2> QED  BY <2>2
<1>19. CASE TellResult(h)
  <2>1. End(h) /\ busy' = busy /\ hook[h].task \in {"tell", "tidy"}
    BY <1>1, <1>19, StageTask DEF TellResult, receiptVars, agentVars, At
  <2> QED  BY <2>1, EndStep
<1>20. CASE RemoveDetails(h)
  <2>1. End(h) /\ busy' = busy /\ hook[h].task \in {"tell", "tidy"}
    BY <1>1, <1>20, StageTask DEF RemoveDetails, receiptVars, agentVars, At
  <2> QED  BY <2>1, EndStep
<1>21. CASE SkipDetails(h)
  <2>1. End(h) /\ busy' = busy /\ hook[h].task \in {"tell", "tidy"}
    BY <1>1, <1>21, StageTask DEF SkipDetails, receiptVars, agentVars, At
  <2> QED  BY <2>1, EndStep
<1>22. CASE DropOld(h)
  <2>1. End(h) /\ busy' = busy /\ hook[h].task \in {"tell", "tidy"}
    BY <1>1, <1>22, StageTask DEF DropOld, receiptVars, agentVars, At
  <2> QED  BY <2>1, EndStep
<1>23. CASE StartMove(h)
  <2>1. busy' = busy /\ hook[h].task = "tidy"
    BY <1>1, <1>23, StageTask DEF StartMove, receiptVars, agentVars, At
  <2>2. PICK swp : /\ DOMAIN swp = SweepFields
                   /\ hook' = [hook EXCEPT ![h].at = "move", ![h].sweep = swp]
    <3>1. PICK swp : swp = [hook[h].sweep EXCEPT !.left = {d.id : d \in oldDetails}]
      OBVIOUS
    <3>2. hook' = [hook EXCEPT ![h].at = "move", ![h].sweep = swp]
      BY <1>1, <1>23, <3>1 DEF StartMove, Typed, HookFields
    <3> QED  BY <1>1, <3>1, <3>2 DEF Typed
  <2>3. PICK r : r = [hook[h] EXCEPT !.at = "move", !.sweep = swp]
    OBVIOUS
  <2>4. /\ DOMAIN r = DOMAIN hook[h] /\ r.at = "move" /\ r.sweep = swp
        /\ r.task = hook[h].task /\ r.session = hook[h].session /\ r.turn = hook[h].turn
        /\ r.output = hook[h].output
    BY <1>1, <2>3 DEF Typed, HookFields
  <2>5. hook' = [hook EXCEPT ![h] = r]
    BY <1>1, <2>2, <2>3
  <2>6. "move" \in StagesOf(hook[h].task)
    BY <2>1 DEF StagesOf
  <2>7. Typed(r)
    BY <1>1, <2>1, <2>2, <2>4, <2>6 DEF Typed
  <2>8. ~Gaining(h, r)
    BY <2>1, <2>4 DEF Gaining, Has, Carries
  <2>9. hook[h].at = "move" \/ StartMove(h)
    BY <1>23 DEF StartMove, At
  <2> QED  BY <2>1, <2>4, <2>5, <2>7, <2>8, <2>9 DEF GoesOnAs
<1>24. CASE MoveNext(h)
  <2>1. busy' = busy /\ hook[h].task = "tidy" /\ hook[h].at = "move"
    BY <1>1, <1>24, StageTask DEF MoveNext, receiptVars, agentVars, At
  <2>2. PICK swp : /\ DOMAIN swp = SweepFields
                   /\ hook' = [hook EXCEPT ![h].sweep = swp]
    <3>1. PICK x : hook' = [hook EXCEPT ![h].sweep.left = @ \ {x}]
      BY <1>24 DEF MoveNext
    <3>2. PICK swp : swp = [hook[h].sweep EXCEPT !.left = @ \ {x}]
      OBVIOUS
    <3>3. hook' = [hook EXCEPT ![h].sweep = swp]
      BY <1>1, <3>1, <3>2 DEF Typed, HookFields
    <3> QED  BY <1>1, <3>2, <3>3 DEF Typed
  <2>3. PICK r : r = [hook[h] EXCEPT !.sweep = swp]
    OBVIOUS
  <2>4. /\ DOMAIN r = DOMAIN hook[h] /\ r.at = "move" /\ r.sweep = swp
        /\ r.task = hook[h].task /\ r.session = hook[h].session /\ r.turn = hook[h].turn
        /\ r.output = hook[h].output
    BY <1>1, <2>1, <2>3 DEF Typed, HookFields
  <2>5. hook' = [hook EXCEPT ![h] = r]
    BY <1>1, <2>2, <2>3
  <2>6. "move" \in StagesOf(hook[h].task)
    BY <2>1 DEF StagesOf
  <2>7. Typed(r)
    BY <1>1, <2>1, <2>2, <2>4, <2>6 DEF Typed
  <2>8. ~Gaining(h, r)
    BY <2>1, <2>4 DEF Gaining, Has, Carries
  <2>9. hook[h].at = "move" \/ StartMove(h)
    BY <1>24 DEF MoveNext, At
  <2> QED  BY <2>1, <2>4, <2>5, <2>7, <2>8, <2>9 DEF GoesOnAs
<1>25. CASE MoveFails(h)
  <2>1. busy' = busy /\ hook[h].task = "tidy" /\ hook[h].at = "move"
    BY <1>1, <1>25, StageTask DEF MoveFails, receiptVars, agentVars, At
  <2>2. PICK swp : /\ DOMAIN swp = SweepFields
                   /\ hook' = [hook EXCEPT ![h].sweep = swp]
    <3>1. PICK x : hook' = [hook EXCEPT ![h].sweep.left = @ \ {x}, ![h].sweep.complete = FALSE]
      BY <1>25 DEF MoveFails
    <3>2. PICK swp : swp = [hook[h].sweep EXCEPT !.left = @ \ {x}, !.complete = FALSE]
      OBVIOUS
    <3>3. hook' = [hook EXCEPT ![h].sweep = swp]
      BY <1>1, <3>1, <3>2 DEF Typed, HookFields
    <3> QED  BY <1>1, <3>2, <3>3 DEF Typed
  <2>3. PICK r : r = [hook[h] EXCEPT !.sweep = swp]
    OBVIOUS
  <2>4. /\ DOMAIN r = DOMAIN hook[h] /\ r.at = "move" /\ r.sweep = swp
        /\ r.task = hook[h].task /\ r.session = hook[h].session /\ r.turn = hook[h].turn
        /\ r.output = hook[h].output
    BY <1>1, <2>1, <2>3 DEF Typed, HookFields
  <2>5. hook' = [hook EXCEPT ![h] = r]
    BY <1>1, <2>2, <2>3
  <2>6. "move" \in StagesOf(hook[h].task)
    BY <2>1 DEF StagesOf
  <2>7. Typed(r)
    BY <1>1, <2>1, <2>2, <2>4, <2>6 DEF Typed
  <2>8. ~Gaining(h, r)
    BY <2>1, <2>4 DEF Gaining, Has, Carries
  <2>9. hook[h].at = "move" \/ StartMove(h)
    BY <1>25 DEF MoveFails, At
  <2> QED  BY <2>1, <2>4, <2>5, <2>7, <2>8, <2>9 DEF GoesOnAs
<1> QED  BY <1>2, <1>3, <1>4, <1>5, <1>6, <1>7, <1>8, <1>9, <1>10, <1>11, <1>12, <1>13,
            <1>14, <1>15, <1>16, <1>17, <1>18, <1>19, <1>20, <1>21, <1>22, <1>23, <1>24, <1>25
         DEF Goes

(* The one that reads what it claimed has that as well. *)
LEMMA ReadingOn ==
    ASSUME HookInv, TreeInv, NEW h \in Hooks, ReadClaim(h)
    PROVE  \E r : /\ GoesOnAs(h, r) /\ r.at = "discard" /\ hook[h].at = "read"
                  /\ r.task = hook[h].task /\ r.session = hook[h].session /\ r.turn = hook[h].turn
                  /\ \A s, o : Has(r, s, o) => Has(hook[h], s, o) \/ Claim(h) \in DirsWith(s, o)
<1>1. Typed(hook[h]) /\ DOMAIN hook = Hooks
  BY DEF HookInv
<1>2. At(h, "read") /\ busy' = busy /\ hook[h].task \in {"show", "consume"}
  BY <1>1, StageTask DEF ReadClaim, agentVars, At
<1>3. PICK found \in BOOLEAN :
        /\ found => Claim(h) \in DOMAIN dirs
        /\ hook' = [hook EXCEPT ![h].at = "discard",
                ![h].output = IF found THEN @ \cup dirs[Claim(h)].output ELSE {}]
  <2>1. PICK found : found = (HasReceipt(Claim(h)) /\ ~Expired(dirs[Claim(h)], clock))
    OBVIOUS
  <2>2. found \in BOOLEAN /\ (found => Claim(h) \in DOMAIN dirs)
    BY <2>1 DEF HasReceipt
  <2> QED  BY <2>1, <2>2 DEF ReadClaim
<1>4. PICK new : new = IF found THEN hook[h].output \cup dirs[Claim(h)].output ELSE {}
  OBVIOUS
<1>5. PICK r : r = [hook[h] EXCEPT !.at = "discard", !.output = new]
  OBVIOUS
<1>6. /\ DOMAIN r = DOMAIN hook[h] /\ r.at = "discard" /\ r.sweep = hook[h].sweep
      /\ r.task = hook[h].task /\ r.session = hook[h].session /\ r.turn = hook[h].turn
      /\ r.output = new
  BY <1>1, <1>5 DEF Typed, HookFields
<1>7. hook' = [hook EXCEPT ![h] = r]
  BY <1>1, <1>3, <1>4, <1>5
<1>8. new \in SUBSET (Nat \X Nat)
  BY <1>1, <1>3, <1>4 DEF Typed, TreeInv
<1>9. "discard" \in StagesOf(hook[h].task)
  BY <1>2 DEF StagesOf
<1>10. Typed(r)
  BY <1>1, <1>2, <1>6, <1>8, <1>9 DEF Typed
<1>11. Claim(h).session = hook[h].session
  BY <1>2 DEF Claim, Target, PathOf
<1>12. ASSUME NEW s, NEW o, Has(r, s, o)
       PROVE  Has(hook[h], s, o) \/ Claim(h) \in DirsWith(s, o)
  <2>1. s = hook[h].session /\ o \in new /\ Carries(hook[h])
    BY <1>2, <1>6, <1>12 DEF Has, Carries
  <2>2. CASE o \in hook[h].output
    BY <2>1, <2>2 DEF Has
  <2>3. CASE o \notin hook[h].output
    <3>1. Claim(h) \in DOMAIN dirs /\ o \in dirs[Claim(h)].output
      BY <1>3, <1>4, <2>1, <2>3
    <3> QED  BY <1>11, <2>1, <3>1 DEF DirsWith
  <2> QED  BY <2>2, <2>3
<1> QED  BY <1>2, <1>6, <1>7, <1>10, <1>12 DEF GoesOnAs, At

(* A hook that dies has nothing any more. *)
LEMMA CrashOn ==
    ASSUME HookInv, NEW h \in Hooks, Crash(h)
    PROVE  GoesOnAs(h, NoWork) /\ ~Gaining(h, NoWork) /\ NoWork.at = "idle"
<1> QED  BY EndStep DEF Crash

(* A hook that starts a clean-up has nothing that it had not. *)
LEMMA SweepOn ==
    ASSUME HookInv, NEW h \in Hooks, StartSweep(h)
    PROVE  \E r : GoesOnAs(h, r) /\ ~Gaining(h, r) /\ r.at \notin {"move", "discard"}
<1>1. hook[h] = NoWork /\ busy' = busy /\ hook[h].task = "none"
  BY IdleTyped DEF StartSweep, Started, agentVars
<1>2. PICK n, r : n = NoWork /\ r = [n EXCEPT !.task = "clean", !.at = "scan"]
  OBVIOUS
<1>3. \/ hook' = [hook EXCEPT ![h] = r] \/ hook' = [hook EXCEPT ![h] = Tidying]
  BY <1>2 DEF StartSweep
<1>4. CASE hook' = [hook EXCEPT ![h] = Tidying]
  BY <1>1, <1>4, TidyTyped DEF GoesOnAs, Gaining, Has
<1>5. CASE hook' = [hook EXCEPT ![h] = r]
  <2>1. Typed(n) /\ DOMAIN n = HookFields /\ n.output = {} /\ n.sweep.left = {}
    BY <1>2, IdleTyped DEF NoWork, NoSweep
  <2>2. /\ DOMAIN r = HookFields /\ r.sweep = n.sweep /\ r.task = "clean" /\ r.at = "scan"
        /\ r.turn = n.turn /\ r.output = n.output
    BY <1>2, <2>1 DEF HookFields
  <2>3. "clean" \in Tasks /\ "scan" \in StagesOf("clean")
    BY DEF Tasks, StagesOf
  <2>4. Typed(r) /\ ~Carries(r)
    BY <2>1, <2>2, <2>3 DEF Typed, Carries
  <2> QED  BY <1>1, <1>5, <2>2, <2>4 DEF GoesOnAs, Gaining, Has
<1> QED  BY <1>3, <1>4, <1>5

(* A hook that an agent starts. *)
LEMMA WorkTyped ==
    ASSUME NEW task \in Tasks \ {"none", "clean", "tidy"}, NEW at \in StagesOf(task),
           NEW s \in Sessions, turn'[s] \in 0 .. MaxTurns,
           NEW output \in SUBSET (Nat \X Nat), task \in {"begin", "open"} => output = {}
    PROVE  \E r : /\ r = Work(task, at, s, output) /\ Typed(r)
                  /\ r.task = task /\ r.at = at /\ r.session = s /\ r.turn = turn'[s]
                  /\ r.output = output
<1>1. PICK n : n = NoWork
  OBVIOUS
<1>2. PICK r : r = Work(task, at, s, output)
  OBVIOUS
<1>3. Typed(n) /\ DOMAIN n = HookFields
  BY <1>1, IdleTyped
<1>4. r = [n EXCEPT !.task = task, !.at = at, !.session = s, !.turn = turn'[s], !.output = output]
  BY <1>1, <1>2 DEF Work
<1>5. /\ DOMAIN r = HookFields /\ r.task = task /\ r.at = at /\ r.session = s
      /\ r.turn = turn'[s] /\ r.output = output /\ r.sweep = n.sweep
  BY <1>3, <1>4 DEF HookFields
<1>6. Typed(r)
  BY <1>3, <1>5 DEF Typed
<1> QED  BY <1>2, <1>5, <1>6

(* The others stay as they are. *)
LEMMA HooksTyped ==
    ASSUME HookInv, NEW h \in Hooks, NEW r, hook' = [hook EXCEPT ![h] = r], Typed(r)
    PROVE  HookInv' /\ hook'[h] = r /\ \A g \in Hooks : g # h => hook'[g] = hook[g]
<1>1. DOMAIN hook = Hooks /\ \A g \in Hooks : Typed(hook[g])
  BY DEF HookInv
<1>2. DOMAIN hook' = Hooks /\ hook'[h] = r /\ \A g \in Hooks : g # h => hook'[g] = hook[g]
  BY <1>1
<1>3. \A g \in Hooks : Typed(hook'[g])
  BY <1>1, <1>2
<1> QED  BY <1>2, <1>3 DEF HookInv

-----------------------------------------------------------------------------
(* The agents *)

(* The turn that is submitted, and what is observed of one. *)
LEMMA Submitted ==
    ASSUME AgentInv, HookInv, NEW h \in Hooks, NEW s \in Sessions, SubmitPrompt(h, s)
    PROVE  \E r : /\ hook' = [hook EXCEPT ![h] = r] /\ Typed(r) /\ ~Carries(r) /\ r.at = "lock"
                  /\ hook[h].task = "none" /\ AgentInv'
<1>1. world \in Worlds /\ world.turns \in 0 .. MaxTurns /\ turn[s] \in 0 .. MaxTurns
  BY NoticeAssumption DEF AgentInv
<1>2. turn' = [turn EXCEPT ![s] = turn[s] + 1] /\ turn[s] < world.turns /\ MaxTurns \in Nat
  BY NoticeAssumption DEF SubmitPrompt
<1>3. turn'[s] \in 0 .. MaxTurns /\ turn' \in [Sessions -> 0 .. MaxTurns]
  BY <1>1, <1>2 DEF AgentInv
<1>4. "begin" \in Tasks \ {"none", "clean", "tidy"} /\ "lock" \in StagesOf("begin")
  BY DEF Tasks, StagesOf
<1>5. PICK r : r = Work("begin", "lock", s, {}) /\ Typed(r) /\ r.task = "begin" /\ r.at = "lock"
  BY <1>3, <1>4, WorkTyped
<1>6. hook' = [hook EXCEPT ![h] = r] /\ hook[h].task = "none"
  BY <1>5, IdleTyped DEF SubmitPrompt, Started
<1>7. ~Carries(r)
  BY <1>5 DEF Carries
<1>8. AgentInv'
  BY <1>3 DEF SubmitPrompt, AgentInv, otherVars
<1> QED  BY <1>5, <1>6, <1>7, <1>8

(* One output more is the next of its turn, or was there. *)
LEMMA NumberedNext ==
    ASSUME AgentInv, Numbered, NEW s \in Sessions, NEW k \in Nat,
           turn' = turn,
           observed' = [observed EXCEPT ![s] = @ \cup {<<turn[s], k>>}],
           k <= Cardinality(OutputOf(s, turn[s]) \cup {<<turn[s], k>>})
    PROVE  Numbered' /\ DOMAIN observed' = Sessions
<1>1. PICK o : o = <<turn[s], k>>
  OBVIOUS
<1>2. /\ turn[s] \in 0 .. MaxTurns /\ MaxTurns \in Nat /\ DOMAIN observed = Sessions
      /\ o \in Nat \X Nat /\ o[1] = turn[s] /\ o[2] = k
  BY <1>1, NoticeAssumption DEF AgentInv
<1>3. observed'[s] = observed[s] \cup {o} /\ \A q \in Sessions : q # s => observed'[q] = observed[q]
  BY <1>1, <1>2
<1>4. ASSUME NEW q \in Sessions
      PROVE  /\ observed'[q] \in SUBSET (Nat \X Nat) /\ IsFiniteSet(observed'[q])
             /\ \A p \in observed'[q] :
                    p[1] <= turn[q] /\ p[2] <= Cardinality({x \in observed'[q] : x[1] = p[1]})
  <2>1. /\ observed[q] \in SUBSET (Nat \X Nat) /\ IsFiniteSet(observed[q])
        /\ \A p \in observed[q] :
                p[1] <= turn[q] /\ p[2] <= Cardinality({x \in observed[q] : x[1] = p[1]})
    BY DEF Numbered, OutputOf
  <2>2. CASE q # s
    BY <1>3, <2>1, <2>2
  <2>3. CASE q = s
    <3>1. PICK old, new : old = observed[s] /\ new = old \cup {o}
      OBVIOUS
    <3>2. IsFiniteSet(old) /\ IsFiniteSet(new) /\ new \in SUBSET (Nat \X Nat)
      BY <1>2, <2>1, <2>3, <3>1, FS_AddElement
    <3>3. ASSUME NEW p \in new
          PROVE  p[1] <= turn[s] /\ p[2] <= Cardinality({x \in new : x[1] = p[1]})
      <4>1. PICK A, B : A = {x \in old : x[1] = p[1]} /\ B = {x \in new : x[1] = p[1]}
        OBVIOUS
      <4>2. IsFiniteSet(A) /\ IsFiniteSet(B) /\ A \subseteq B
        BY <3>1, <3>2, <4>1, FS_Subset
      <4>3. Cardinality(A) \in Nat /\ Cardinality(B) \in Nat /\ Cardinality(A) <= Cardinality(B)
        BY <4>2, FS_CardinalityType, FS_Subset
      <4>4. CASE p = o
        <5>1. B = OutputOf(s, turn[s]) \cup {<<turn[s], k>>}
          BY <1>1, <1>2, <3>1, <4>1, <4>4 DEF OutputOf
        <5>2. k <= Cardinality(B)
          BY <5>1
        <5>3. p[1] = turn[s] /\ p[2] = k /\ turn[s] <= turn[s]
          BY <1>2, <4>4
        <5> QED  BY <4>1, <5>2, <5>3
      <4>5. CASE p # o
        <5>1. p \in old
          BY <3>1, <4>5
        <5>2. p[1] <= turn[s] /\ p[2] <= Cardinality(A) /\ p[2] \in Nat
          BY <2>1, <2>3, <3>1, <4>1, <5>1
        <5> QED  BY <4>1, <4>3, <5>2
      <4> QED  BY <4>4, <4>5
    <3>4. observed'[q] = new /\ turn[q] = turn[s]
      BY <1>3, <2>3, <3>1
    <3> QED  BY <3>2, <3>3, <3>4
  <2> QED  BY <2>2, <2>3
<1>5. \A q \in Sessions : \A n : OutputOf(q, n)' = {x \in observed'[q] : x[1] = n}
  BY DEF OutputOf
<1>6. Numbered'
  BY <1>4, <1>5 DEF Numbered
<1> QED  BY <1>2, <1>6

(* A tool's output is one that nobody has seen. *)
LEMMA ToolUsed ==
    ASSUME AgentInv, HookInv, Numbered, NEW h \in Hooks, NEW s \in Sessions, UseTool(h, s)
    PROVE  \E r, o : /\ hook' = [hook EXCEPT ![h] = r] /\ Typed(r) /\ r.at = "record"
                     /\ hook[h].task = "none"
                     /\ r.session = s /\ r.output = {o} /\ o \notin observed[s]
                     /\ o \in observed'[s] /\ \A q \in Sessions : observed[q] \subseteq observed'[q]
                     /\ AgentInv' /\ Numbered' /\ EndedOnce'
<1>1. PICK made : made = Cardinality(OutputOf(s, turn[s]))
  OBVIOUS
<1>2. PICK o : o = <<turn[s], made + 1>>
  OBVIOUS
<1>3. IsFiniteSet(OutputOf(s, turn[s]))
  BY FS_Subset DEF OutputOf, Numbered
<1>4. made \in Nat /\ turn[s] \in 0 .. MaxTurns /\ MaxTurns \in Nat /\ DOMAIN observed = Sessions
  BY <1>1, <1>3, NoticeAssumption, FS_CardinalityType DEF AgentInv
<1>5. o \notin observed[s]
  <2>1. SUFFICES ASSUME o \in observed[s] PROVE FALSE
    OBVIOUS
  <2>2. o[2] <= Cardinality(OutputOf(s, o[1])) /\ o[1] = turn[s] /\ o[2] = made + 1
    BY <1>2, <2>1 DEF Numbered
  <2> QED  BY <1>1, <1>4, <2>2
<1>6. observed' = [observed EXCEPT ![s] = @ \cup {<<turn[s], made + 1>>}] /\ turn' = turn
  BY <1>1 DEF UseTool
<1>7. Cardinality(OutputOf(s, turn[s]) \cup {o}) = made + 1
  <2>1. o \notin OutputOf(s, turn[s])
    BY <1>5 DEF OutputOf
  <2> QED  BY <1>1, <1>3, <2>1, FS_AddElement
<1>8. Numbered' /\ DOMAIN observed' = Sessions
  <2>1. made + 1 \in Nat 
        /\ made + 1 <= Cardinality(OutputOf(s, turn[s]) \cup {<<turn[s], made + 1>>})
    BY <1>2, <1>4, <1>7
  <2> QED  BY <1>6, <2>1, NumberedNext
<1>9. AgentInv'
  BY <1>6, <1>8 DEF UseTool, AgentInv, otherVars
<1>10. EndedOnce'
  BY DEF UseTool, EndedOnce
<1>11. "record" \in Tasks \ {"none", "clean", "tidy"} /\ "record" \in StagesOf("record")
  BY DEF Tasks, StagesOf
<1>12. {o} \in SUBSET (Nat \X Nat) /\ turn'[s] \in 0 .. MaxTurns
  BY <1>2, <1>4, <1>6
<1>13. PICK r : /\ r = Work("record", "record", s, {o}) /\ Typed(r) /\ r.at = "record"
                /\ r.session = s /\ r.output = {o}
  BY <1>11, <1>12, WorkTyped
<1>14. hook' = [hook EXCEPT ![h] = r] /\ hook[h].task = "none"
  BY <1>1, <1>2, <1>13, IdleTyped DEF UseTool, Started
<1>15. o \in observed'[s] /\ \A q \in Sessions : observed[q] \subseteq observed'[q]
  BY <1>2, <1>4, <1>6
<1> QED  BY <1>5, <1>8, <1>9, <1>10, <1>13, <1>14, <1>15

(* So is that of the end of a turn. *)
LEMMA TurnStopped ==
    ASSUME AgentInv, HookInv, Numbered, EndedOnce, NEW h \in Hooks, NEW s \in Sessions,
           StopTurn(h, s)
    PROVE  \E r : /\ hook' = [hook EXCEPT ![h] = r] /\ Typed(r) /\ r.at = "claim"
                  /\ hook[h].task = "none" /\ r.session = s
                  /\ \/ r.output = {}
                     \/ \E o : r.output = {o} /\ o \notin observed[s] /\ o \in observed'[s]
                  /\ \A q \in Sessions : observed[q] \subseteq observed'[q]
                  /\ AgentInv' /\ Numbered' /\ EndedOnce'
<1>1. PICK output \in IF world.agent = "codex" THEN {{}, {<<turn[s], 1>>}} ELSE {{}} :
        /\ observed' = [observed EXCEPT ![s] = @ \cup output] /\ turn' = turn
        /\ hook' = [hook EXCEPT ![h] = Work("consume", "claim", s, output)]
  BY DEF StopTurn
<1>2. turn[s] \in 0 .. MaxTurns /\ MaxTurns \in Nat /\ DOMAIN observed = Sessions
  BY NoticeAssumption DEF AgentInv
<1>3. "consume" \in Tasks \ {"none", "clean", "tidy"} /\ "claim" \in StagesOf("consume")
  BY DEF Tasks, StagesOf
<1>4. output \in SUBSET (Nat \X Nat) /\ turn'[s] \in 0 .. MaxTurns
  <2>1. <<turn[s], 1>> \in Nat \X Nat
    BY <1>2
  <2> QED  BY <1>1, <1>2, <2>1
<1>5. PICK r : /\ r = Work("consume", "claim", s, output) /\ Typed(r) /\ r.task = "consume"
               /\ r.at = "claim" /\ r.session = s /\ r.turn = turn'[s] /\ r.output = output
  BY <1>3, <1>4, WorkTyped
<1>6. hook' = [hook EXCEPT ![h] = r] /\ hook[h].task = "none"
  BY <1>1, <1>5, IdleTyped DEF StopTurn, Started
<1>7. \A q \in Sessions :
        observed[q] \subseteq observed'[q] /\ (q # s => observed'[q] = observed[q])
  BY <1>1, <1>2
<1>8. /\ world' = world /\ busy' = busy /\ s \in busy /\ Attending(s) = {}
  BY DEF StopTurn
<1>9. Numbered' /\ DOMAIN observed' = Sessions
  <2>1. CASE output = {}
    <3>1. \A q \in Sessions : observed'[q] = observed[q] /\ DOMAIN observed' = Sessions
      BY <1>1, <1>2, <2>1
    <3> QED  BY <1>1, <3>1 DEF Numbered, OutputOf
  <2>2. CASE output = {<<turn[s], 1>>}
    <3>1. IsFiniteSet(OutputOf(s, turn[s])) /\ Cardinality({}) = 0
      BY FS_Subset, FS_EmptySet DEF OutputOf, Numbered
    <3>2. PICK S : S = OutputOf(s, turn[s]) \cup {<<turn[s], 1>>}
      OBVIOUS
    <3>3. IsFiniteSet(S) /\ S # {}
      BY <3>1, <3>2, FS_AddElement
    <3>4. Cardinality(S) \in Nat /\ Cardinality(S) # 0
      BY <3>3, FS_CardinalityType, FS_EmptySet
    <3>5. 1 <= Cardinality(OutputOf(s, turn[s]) \cup {<<turn[s], 1>>}) /\ 1 \in Nat
      BY <3>2, <3>4
    <3> QED  BY <1>1, <2>2, <3>5, NumberedNext
  <2> QED  BY <1>1, <2>1, <2>2
<1>10. AgentInv'
  BY <1>1, <1>9 DEF StopTurn, AgentInv, otherVars
<1>11. EndedOnce'
  <2>1. /\ hook'[h] = r /\ \A g \in Hooks : g # h => hook'[g] = hook[g]
    BY <1>5, <1>6, HooksTyped
  <2>2. SUFFICES ASSUME world.agent = "codex", NEW q \in busy, <<turn[q], 1>> \in observed'[q]
                 PROVE  \E g \in Hooks : /\ hook'[g].session = q /\ hook'[g].turn = turn[q]
                                         /\ hook'[g].task \in {"consume", "save"}
    BY <1>1, <1>8 DEF EndedOnce
  <2>3. CASE q = s
    BY <1>1, <1>5, <2>1, <2>3
  <2>4. CASE q # s
    <3>1. <<turn[q], 1>> \in observed[q]
      BY <1>7, <2>2, <2>4 DEF AgentInv
    <3>2. PICK g \in Hooks : /\ hook[g].session = q /\ hook[g].turn = turn[q]
                            /\ hook[g].task \in {"consume", "save"}
      BY <2>2, <3>1 DEF EndedOnce
    <3> QED  BY <1>6, <2>1, <3>2
  <2> QED  BY <2>3, <2>4
<1>12. output = {} \/ \E o : output = {o} /\ o \notin observed[s] /\ o \in observed'[s]
  <2>1. SUFFICES ASSUME output # {}
                 PROVE  <<turn[s], 1>> \notin observed[s] /\ <<turn[s], 1>> \in observed'[s]
                        /\ output = {<<turn[s], 1>>}
    OBVIOUS
  <2>2. output = {<<turn[s], 1>>} /\ world.agent = "codex"
    BY <1>1, <2>1
  <2>3. <<turn[s], 1>> \notin observed[s]
    BY <1>8, <2>2 DEF EndedOnce, Attending
  <2> QED  BY <1>1, <1>2, <2>2, <2>3
<1> QED  BY <1>5, <1>6, <1>7, <1>9, <1>10, <1>11, <1>12

(* The end of a turn of Codex stays in the hand of a hook, or it is over. *)
LEMMA EndedStill ==
    ASSUME HookInv, EndedOnce, NEW h \in Hooks, NEW r, GoesOnAs(h, r),
           UNCHANGED <<world, turn, observed>>
    PROVE  EndedOnce'
<1>1. /\ hook'[h] = r /\ \A g \in Hooks : g # h => hook'[g] = hook[g]
  BY HooksTyped DEF GoesOnAs
<1>2. SUFFICES ASSUME world.agent = "codex", NEW s \in busy', <<turn[s], 1>> \in observed[s]
               PROVE  \E g \in Hooks : /\ hook'[g].session = s /\ hook'[g].turn = turn[s]
                                       /\ hook'[g].task \in {"consume", "save"}
  BY DEF EndedOnce
<1>3. PICK g \in Hooks : /\ hook[g].session = s /\ hook[g].turn = turn[s]
                        /\ hook[g].task \in {"consume", "save"}
  BY <1>2 DEF EndedOnce, GoesOnAs
<1>4. CASE g # h
  BY <1>1, <1>3, <1>4
<1>5. CASE g = h
  BY <1>1, <1>3, <1>5 DEF GoesOnAs
<1> QED  BY <1>4, <1>5

-----------------------------------------------------------------------------
(* The tree *)

(* What a hook works on is below the directory of its session. *)
LEMMA TargetPath ==
    ASSUME AgentInv, HookInv, NEW h \in Hooks,
           hook[h].task \in {"begin", "show", "record", "consume", "save"}
    PROVE  /\ Target(h) \in Path /\ Claim(h) \in Path /\ hook[h].session \in Sessions
           /\ Target(h).session = hook[h].session /\ Claim(h).session = hook[h].session
           /\ Target(h).claim = NoHook /\ Claim(h).claim = h
<1>1. Typed(hook[h])
  BY DEF HookInv
<1>2. hook[h].session \in Sessions /\ hook[h].turn \in 0 .. MaxTurns
  BY <1>1 DEF Typed
<1>3. 0 \in 0 .. MaxTurns /\ 1 \in 0 .. MaxTurns
  BY NoticeAssumption
<1>4. PICK key \in 0 .. MaxTurns : Target(h) = PathOf(hook[h].session, key)
  BY <1>2, <1>3 DEF Target, KeyOf, Pending
<1> QED  BY <1>2, <1>4 DEF PathOf, Path, Claim

DirTyped(d) ==
    DOMAIN d = {"written", "since", "output"} /\ d.output \in SUBSET (Nat \X Nat)

(* What is made and what is written. *)
LEMMA DirsTyped ==
    /\ DirTyped(Made) /\ Made.output = {}
    /\ \A output \in SUBSET (Nat \X Nat) :
            DirTyped(Written(output)) /\ Written(output).output = output
<1>1. ASSUME NEW output \in SUBSET (Nat \X Nat)
      PROVE  DirTyped(Written(output)) /\ Written(output).output = output
  BY DEF DirTyped, Written
<1>2. DirTyped(Made) /\ Made.output = {}
  BY DEF DirTyped, Made
<1> QED  BY <1>1, <1>2

(* Directories go, or one comes below a directory there is. *)
LEMMA TreeGrows ==
    ASSUME TreeInv, NEW S, S \subseteq DOMAIN dirs, NEW p \in Path, p.session \in sessionDirs,
           NEW d, DirTyped(d), dirs' = Holding(p, d, S), UNCHANGED <<agentDir, sessionDirs>>
    PROVE  TreeInv'
<1>1. /\ DOMAIN dirs' = S \cup {p} /\ dirs'[p] = d
      /\ \A q \in S : q # p => dirs'[q] = dirs[q]
  BY DEF Holding
<1> QED  BY <1>1 DEF TreeInv, DirTyped

(* A directory goes, and the others stay as they are. *)
LEMMA TreeShrinks ==
    ASSUME TreeInv, NEW p, dirs' = Without(p), UNCHANGED <<agentDir, sessionDirs>>
    PROVE  /\ TreeInv' /\ DOMAIN dirs' = DOMAIN dirs \ {p}
           /\ \A q \in DOMAIN dirs' : dirs'[q] = dirs[q]
<1>1. DOMAIN dirs' = DOMAIN dirs \ {p} /\ \A q \in DOMAIN dirs' : dirs'[q] = dirs[q]
  BY DEF Without, Restrict
<1> QED  BY <1>1 DEF TreeInv

(* Only the directory itself changes. *)
LEMMA TreeWritten ==
    ASSUME TreeInv, NEW p, NEW d, DirTyped(d), dirs' = [dirs EXCEPT ![p] = d],
           UNCHANGED <<agentDir, sessionDirs>>
    PROVE  TreeInv' /\ DOMAIN dirs' = DOMAIN dirs
           /\ \A q \in DOMAIN dirs : dirs'[q] = IF q = p THEN d ELSE dirs[q]
<1>1. DOMAIN dirs' = DOMAIN dirs /\ \A q \in DOMAIN dirs : dirs'[q] = IF q = p THEN d ELSE dirs[q]
  OBVIOUS
<1> QED  BY <1>1 DEF TreeInv, DirTyped

(* No step of a hook leaves a directory without its parents. *)
LEMMA TreeKept ==
    ASSUME AgentInv, HookInv, TreeInv, NEW h \in Hooks, Goes(h)
    PROVE  TreeInv'
<1>1. Typed(hook[h])
  BY DEF HookInv
<1>2. CASE LockAndReset(h)
  BY <1>2, TreeShrinks DEF LockAndReset
<1>3. CASE MakeAgentDir(h)
  <2>1. agentDir' = TRUE /\ TRUE \in BOOLEAN /\ UNCHANGED <<sessionDirs, dirs>>
    BY <1>3 DEF MakeAgentDir
  <2> QED  BY <2>1 DEF TreeInv
<1>4. CASE MakeSessionDir(h)
  <2>1. /\ agentDir /\ sessionDirs' = sessionDirs \cup {hook[h].session}
        /\ UNCHANGED <<agentDir, dirs>> /\ hook[h].task \in {"begin", "save"}
    BY <1>1, <1>4, StageTask DEF MakeSessionDir, At
  <2>2. hook[h].session \in Sessions
    BY <2>1, TargetPath
  <2> QED  BY <2>1, <2>2 DEF TreeInv
<1>5. CASE MakeDir(h)
  <2>1. /\ hook[h].task \in {"begin", "save"} /\ hook[h].session \in sessionDirs
        /\ dirs' = Holding(Target(h), Made, DOMAIN dirs) /\ UNCHANGED <<agentDir, sessionDirs>>
    BY <1>1, <1>5, StageTask DEF MakeDir, At
  <2>2. Target(h) \in Path /\ Target(h).session \in sessionDirs /\ DirTyped(Made)
    BY <2>1, TargetPath, DirsTyped
  <2> QED  BY <2>1, <2>2, TreeGrows
<1>6. CASE WriteFile(h)
  <2>1. hook[h].output \in SUBSET (Nat \X Nat)
    BY <1>1 DEF Typed
  <2>2. DirTyped(Written(hook[h].output))
    BY <2>1, DirsTyped
  <2> QED  BY <1>6, <2>2, TreeWritten DEF WriteFile
<1>7. CASE RecordOutput(h)
  <2>1. CASE UNCHANGED dirs
    BY <1>7, <2>1 DEF RecordOutput, TreeInv
  <2>2. CASE /\ HasReceipt(Target(h))
             /\ dirs' = [dirs EXCEPT ![Target(h)].output = @ \cup hook[h].output]
    <3>1. PICK t, d : t = Target(h) /\ d = [dirs[t] EXCEPT !.output = @ \cup hook[h].output]
      OBVIOUS
    <3>2. t \in DOMAIN dirs /\ DirTyped(dirs[t]) /\ hook[h].output \in SUBSET (Nat \X Nat)
      BY <1>1, <2>2, <3>1 DEF HasReceipt, TreeInv, DirTyped, Typed
    <3>3. DirTyped(d)
      BY <3>1, <3>2 DEF DirTyped
    <3>4. dirs' = [dirs EXCEPT ![t] = d]
      BY <2>2, <3>1, <3>2
    <3>5. UNCHANGED <<agentDir, sessionDirs>>
      BY <1>7 DEF RecordOutput
    <3> QED  BY <3>3, <3>4, <3>5, TreeWritten
  <2> QED  BY <1>7, <2>1, <2>2 DEF RecordOutput
<1>8. CASE ClaimIt(h)
  <2>1. hook[h].task \in {"show", "consume"} /\ UNCHANGED <<agentDir, sessionDirs>>
    BY <1>1, <1>8, StageTask DEF ClaimIt, At
  <2>2. CASE Target(h) \in DOMAIN dirs
    <3>1. dirs' = Holding(Claim(h), dirs[Target(h)], DOMAIN dirs \ {Target(h)})
      BY <1>8, <2>2 DEF ClaimIt
    <3>2. Claim(h) \in Path /\ Claim(h).session \in sessionDirs
      BY <2>1, <2>2, TargetPath DEF TreeInv
    <3>3. DirTyped(dirs[Target(h)]) /\ DOMAIN dirs \ {Target(h)} \subseteq DOMAIN dirs
      BY <2>2 DEF TreeInv, DirTyped
    <3> QED  BY <2>1, <3>1, <3>2, <3>3, TreeGrows
  <2>3. CASE Target(h) \notin DOMAIN dirs
    BY <1>8, <2>3 DEF ClaimIt, TreeInv
  <2> QED  BY <2>2, <2>3
<1>9. CASE DiscardClaim(h)
  BY <1>9, TreeShrinks DEF DiscardClaim
<1>10. CASE Prune(h)
  <2>1. CASE UNCHANGED sessionDirs
    BY <1>10, <2>1 DEF Prune, TreeInv
  <2>2. CASE IsEmpty(hook[h].session) /\ sessionDirs' = sessionDirs \ {hook[h].session}
    BY <1>10, <2>2 DEF Prune, TreeInv, IsEmpty
  <2> QED  BY <1>10, <2>1, <2>2 DEF Prune
<1>11. CASE PruneAgent(h)
  <2>1. agentDir' = (agentDir /\ sessionDirs # {}) /\ UNCHANGED <<sessionDirs, dirs>>
    BY <1>11 DEF PruneAgent
  <2>2. agentDir' \in BOOLEAN /\ (sessionDirs # {} => agentDir')
    BY <2>1, Zenon DEF TreeInv
  <2> QED  BY <2>1, <2>2 DEF TreeInv
<1>12. CASE SweepNext(h)
  <2>1. CASE UNCHANGED dirs
    BY <1>12, <2>1 DEF SweepNext, TreeInv
  <2>2. CASE \E p : dirs' = Without(p)
    BY <1>12, <2>2, TreeShrinks DEF SweepNext
  <2> QED  BY <1>12, <2>1, <2>2 DEF SweepNext
<1>13. CASE UNCHANGED treeVars
  BY <1>13 DEF treeVars, TreeInv
<1>14. ASSUME \/ MakeFails(h) \/ ReadClaim(h) \/ LockTimesOut(h) \/ Scan(h) \/ EndSweep(h)
              \/ OpenPage(h) \/ RecordRules(h) \/ TellResult(h) \/ RemoveDetails(h)
              \/ StartMove(h) \/ SkipDetails(h) \/ MoveNext(h) \/ MoveFails(h) \/ DropOld(h)
       PROVE  UNCHANGED treeVars
  BY <1>14 DEF MakeFails, ReadClaim, LockTimesOut, Scan, EndSweep, OpenPage, RecordRules,
               TellResult, RemoveDetails, StartMove, SkipDetails, MoveNext, MoveFails, DropOld,
               receiptVars
<1> QED  BY <1>2, <1>3, <1>4, <1>5, <1>6, <1>7, <1>8, <1>9, <1>10, <1>11, <1>12, <1>13, <1>14
            DEF Goes

-----------------------------------------------------------------------------
(* The pages *)

(* Every output on a page was on it. *)
NoneAdded ==
    \A e \in ToSet(lastWrites') :
        e.output # {} => \E c \in ToSet(lastWrites) : c.id = e.id /\ c.output = e.output

(* There are no more pages than before, or than the limit. *)
NoneMore == Pages' <= MaxDetails \/ Pages' <= Pages

(* The page that a hook works on is one of its session. *)
LEMMA PageNamed ==
    ASSUME HookInv, AgentInv, NEW h \in Hooks, hook[h].task \in {"open", "tell"}
    PROVE  Page(h) \in Prompts /\ Page(h)[1] = hook[h].session /\ clock \in Nat
<1>1. Typed(hook[h])
  BY DEF HookInv
<1>2. hook[h].session \in Sessions /\ hook[h].turn \in 0 .. MaxTurns
  BY <1>1 DEF Typed
<1>3. <<hook[h].session, hook[h].turn>> \in Sessions \X (0 .. MaxTurns)
  BY <1>2
<1>4. clock \in Nat
  BY NoticeAssumption DEF AgentInv
<1> QED  BY <1>3, <1>4, NoticeAssumption DEF Page

(* A page of the store is made, with no output, and others go for it. *)
LEMMA PageOpened ==
    ASSUME HookInv, AgentInv, PageInv, NEW h \in Hooks, OpenPage(h)
    PROVE  PageInv' /\ NoneAdded /\ NoneMore
<1>1. Typed(hook[h])
  BY DEF HookInv
<1>2. /\ CreateDetail(Page(h), clock) /\ UNCHANGED <<oldDetails, detailCursor, world>>
      /\ hook[h].task = "open"
  BY <1>1, StageTask DEF OpenPage, At, receiptVars, agentVars
<1>3. Page(h) \in Prompts /\ clock \in Nat
  BY <1>2, PageNamed
<1>4. /\ details' \in Seq(Detail) /\ UniqueIds(details')
      /\ lastWrites' \in Seq(Detail) /\ UniqueIds(lastWrites')
      /\ ToSet(lastWrites')
            = {e \in ToSet(lastWrites) : e.id # Page(h)} \cup {NewDetail(Page(h), clock)}
      /\ ToSet(details') \subseteq ToSet(lastWrites')
      /\ \/ Cardinality(IdsOf(details')) <= MaxDetails
         \/ Cardinality(IdsOf(details')) <= Cardinality(IdsOf(details))
  BY <1>2, <1>3, Created
<1>5. PageInv'
  BY <1>2, <1>4 DEF PageInv
<1>6. NoneAdded
  <2>1. NewDetail(Page(h), clock).output = {}
    BY DEF NewDetail
  <2> QED  BY <1>4, <2>1 DEF NoneAdded
<1> QED  BY <1>4, <1>5, <1>6 DEF NoneMore, Pages

(* A page of the store is written again with the same output. *)
LEMMA RulesRecorded ==
    ASSUME PageInv, NEW h \in Hooks, RecordRules(h)
    PROVE  PageInv' /\ NoneAdded /\ NoneMore
<1>1. UNCHANGED <<oldDetails, detailCursor, world>>
  BY DEF RecordRules, receiptVars, agentVars
<1>2. CASE UNCHANGED <<details, lastWrites>>
  <2>1. IsFiniteSet(IdsOf(details)) /\ Cardinality(IdsOf(details)) \in Nat
    BY PagesAreIds DEF PageInv
  <2> QED  BY <1>1, <1>2, <2>1 DEF PageInv, NoneAdded, NoneMore, Pages
<1>3. CASE RecordContext(Page(h))
  <2>1. PICK d \in ToSet(details) : WriteDetail([d EXCEPT !.context = TRUE])
    BY <1>3 DEF RecordContext, Of
  <2>2. PICK w : w = [d EXCEPT !.context = TRUE]
    OBVIOUS
  <2>3. d \in Detail /\ d \in ToSet(lastWrites)
    <3>1. details \in Seq(Detail) /\ d \in ToSet(lastWrites)
      BY DEF PageInv
    <3> QED  BY <3>1 DEF ToSet
  <2>4. w \in Detail /\ w.id = d.id /\ w.output = d.output
    <3>1. TRUE \in BOOLEAN
      OBVIOUS
    <3> QED  BY <2>2, <2>3, <3>1 DEF Detail
  <2>5. /\ details' \in Seq(Detail) /\ UniqueIds(details')
        /\ lastWrites' \in Seq(Detail) /\ UniqueIds(lastWrites')
        /\ ToSet(lastWrites') = {e \in ToSet(lastWrites) : e.id # w.id} \cup {w}
        /\ ToSet(details') \subseteq ToSet(lastWrites')
        /\ IdsOf(details') = IdsOf(details) \cup {w.id}
    BY <2>1, <2>2, <2>4, Wrote
  <2>6. PageInv'
    BY <1>1, <2>5 DEF PageInv
  <2>7. NoneAdded
    BY <2>3, <2>4, <2>5 DEF NoneAdded
  <2>8. IdsOf(details') = IdsOf(details)
    BY <2>4, <2>5 DEF IdsOf
  <2>9. Pages' = Pages /\ Pages \in Nat
    BY <2>8, PagesAreIds DEF Pages, PageInv
  <2> QED  BY <2>6, <2>7, <2>9 DEF NoneMore
<1> QED  BY <1>2, <1>3 DEF RecordRules

(* A page of the store gets what the hook carries. *)
LEMMA ResultTold ==
    ASSUME HookInv, PageInv, NEW h \in Hooks, TellResult(h)
    PROVE  /\ PageInv' /\ NoneMore
           /\ \A e \in ToSet(lastWrites') :
                \/ \E c \in ToSet(lastWrites) : c.id = e.id /\ c.output = e.output
                \/ e.id = Page(h) /\ e.output = hook[h].output
<1>1. UNCHANGED <<oldDetails, detailCursor, world>>
  BY DEF TellResult, receiptVars, agentVars
<1>2. CASE UNCHANGED <<details, lastWrites>>
  <2>1. IsFiniteSet(IdsOf(details)) /\ Cardinality(IdsOf(details)) \in Nat
    BY PagesAreIds DEF PageInv
  <2> QED  BY <1>1, <1>2, <2>1 DEF PageInv, NoneMore, Pages
<1>3. CASE RecordOutcome(Page(h), hook[h].output)
  <2>1. PICK d \in ToSet(details) : /\ d.id = Page(h)
                                    /\ WriteDetail([d EXCEPT !.output = hook[h].output])
    BY <1>3 DEF RecordOutcome, Of
  <2>2. PICK w : w = [d EXCEPT !.output = hook[h].output]
    OBVIOUS
  <2>3. d \in Detail /\ d \in ToSet(lastWrites)
    <3>1. details \in Seq(Detail) /\ d \in ToSet(lastWrites)
      BY DEF PageInv
    <3> QED  BY <3>1 DEF ToSet
  <2>4. w \in Detail /\ w.id = d.id /\ w.output = hook[h].output
    BY <2>2, <2>3 DEF Detail, HookInv, Typed
  <2>5. /\ details' \in Seq(Detail) /\ UniqueIds(details')
        /\ lastWrites' \in Seq(Detail) /\ UniqueIds(lastWrites')
        /\ ToSet(lastWrites') = {e \in ToSet(lastWrites) : e.id # w.id} \cup {w}
        /\ ToSet(details') \subseteq ToSet(lastWrites')
        /\ IdsOf(details') = IdsOf(details) \cup {w.id}
    BY <2>1, <2>2, <2>4, Wrote
  <2>6. PageInv'
    BY <1>1, <2>5 DEF PageInv
  <2>7. IdsOf(details') = IdsOf(details)
    BY <2>4, <2>5 DEF IdsOf
  <2>8. Pages' = Pages /\ Pages \in Nat
    BY <2>7, PagesAreIds DEF Pages, PageInv
  <2> QED  BY <2>1, <2>4, <2>5, <2>6, <2>8 DEF NoneMore
<1> QED  BY <1>2, <1>3 DEF TellResult

(* A clean-up of the store only removes pages. *)
LEMMA DetailsRemoved ==
    ASSUME PageInv, RemoveExpiredAndTrim(clock), lastWrites' = lastWrites, world' = world,
           oldDetails' \subseteq oldDetails
    PROVE  PageInv' /\ NoneAdded /\ NoneMore
<1>1. /\ details' \in Seq(Detail) /\ UniqueIds(details')
      /\ ToSet(details') \subseteq ToSet(details) /\ detailCursor' \in Nat
      /\ \/ Cardinality(IdsOf(details')) <= MaxDetails
         \/ Cardinality(IdsOf(details')) <= Cardinality(IdsOf(details))
  BY CleanedUp DEF PageInv
<1>2. PageInv'
  BY <1>1 DEF PageInv
<1> QED  BY <1>1, <1>2 DEF NoneAdded, NoneMore, Pages

(* A page of the layout before comes over. *)
LEMMA PageMoved ==
    ASSUME PageInv, NEW h \in Hooks, MoveNext(h)
    PROVE  PageInv' /\ NoneAdded /\ Pages' <= Pages + 1
<1>1. UNCHANGED <<oldDetails, detailCursor, world>>
  BY DEF MoveNext, receiptVars, agentVars
<1>2. IsFiniteSet(IdsOf(details)) /\ Cardinality(IdsOf(details)) \in Nat
  BY PagesAreIds DEF PageInv
<1>3. CASE UNCHANGED <<details, lastWrites>>
  BY <1>1, <1>2, <1>3 DEF PageInv, NoneAdded, Pages
<1>4. CASE \E d \in oldDetails : WriteDetail(d)
  <2>1. PICK d \in oldDetails : WriteDetail(d)
    BY <1>4
  <2>2. d \in Detail /\ d.output = {}
    BY DEF PageInv
  <2>3. /\ details' \in Seq(Detail) /\ UniqueIds(details')
        /\ lastWrites' \in Seq(Detail) /\ UniqueIds(lastWrites')
        /\ ToSet(lastWrites') = {e \in ToSet(lastWrites) : e.id # d.id} \cup {d}
        /\ ToSet(details') \subseteq ToSet(lastWrites')
        /\ IdsOf(details') = IdsOf(details) \cup {d.id}
    BY <2>1, <2>2, Wrote
  <2>4. PageInv'
    BY <1>1, <2>3 DEF PageInv
  <2>5. NoneAdded
    BY <2>2, <2>3 DEF NoneAdded
  <2>6. Pages' <= Pages + 1
    <3>1. PICK I : I = IdsOf(details)
      OBVIOUS
    <3>2. Cardinality(I \cup {d.id}) = IF d.id \in I THEN Cardinality(I) ELSE Cardinality(I) + 1
      BY <1>2, <3>1, FS_AddElement
    <3>3. Cardinality(I \cup {d.id}) <= Cardinality(I) + 1
      BY <1>2, <3>1, <3>2
    <3> QED  BY <2>3, <3>1, <3>3 DEF Pages
  <2> QED  BY <2>4, <2>5, <2>6
<1> QED  BY <1>3, <1>4 DEF MoveNext

(* The steps of a hook that concern no page. *)
OffPage(h) ==
    \/ LockAndReset(h) \/ MakeAgentDir(h) \/ MakeSessionDir(h) \/ MakeDir(h) \/ MakeFails(h)
    \/ WriteFile(h) \/ RecordOutput(h) \/ ClaimIt(h) \/ ReadClaim(h) \/ DiscardClaim(h)
    \/ LockTimesOut(h) \/ Prune(h) \/ PruneAgent(h)
    \/ Scan(h) \/ SweepNext(h) \/ EndSweep(h)

(* Steps that concern the directories leave the pages alone. *)
LEMMA OffPageSame ==
    ASSUME NEW h \in Hooks, OffPage(h)
    PROVE  UNCHANGED <<world, turn, observed, clock, crashes, detailVars>>
           /\ hook[h].at \notin {"expire", "move"}
<1> QED  BY DEF OffPage, LockAndReset, MakeAgentDir, MakeSessionDir, MakeDir, MakeFails, WriteFile,
            RecordOutput, ClaimIt, ReadClaim, DiscardClaim, LockTimesOut, Prune, PruneAgent, Scan,
            SweepNext, EndSweep, agentVars, otherVars, At, Locking, ParentGone

(* Nothing happens to the pages. *)
LEMMA PagesSame ==
    ASSUME PageInv, UNCHANGED <<world, detailVars>>
    PROVE  PageInv' /\ NoneAdded /\ NoneMore /\ Pages' = Pages /\ Pages \in Nat
<1>1. Cardinality(IdsOf(details)) \in Nat
  BY PagesAreIds DEF PageInv
<1> QED  BY <1>1 DEF PageInv, NoneAdded, NoneMore, Pages, detailVars

-----------------------------------------------------------------------------
(* How many pages there are *)

(* More times is more. *)
LEMMA TimesMore ==
    ASSUME NEW k \in Nat, NEW a \in Nat, NEW b \in Nat, a <= b
    PROVE  a * k <= b * k
<1>1. PICK j : j = b - a
  OBVIOUS
<1>2. j \in Nat /\ b = a + j
  BY <1>1
<1>3. b * k = a * k + j * k /\ j * k \in Nat /\ a * k \in Nat
  BY <1>2
<1> QED  BY <1>3

(* The bound grows by the pages of the layout before. *)
LEMMA BoundGrows ==
    ASSUME world \in Worlds
    PROVE  /\ IsFiniteSet(world.old) /\ Cardinality(world.old) \in Nat
           /\ \A n \in Nat : /\ Bound(n) \in Nat /\ MaxDetails <= Bound(n) /\ MaxDetails \in Nat
                            /\ Bound(n + 1) = Bound(n) + Cardinality(world.old)
<1>1. IsFiniteSet(world.old) /\ MaxDetails \in Nat
  BY NoticeAssumption, DetailAssumption
<1>2. PICK k \in Nat : k = Cardinality(world.old)
  BY <1>1, FS_CardinalityType
<1>3. ASSUME NEW n \in Nat
      PROVE  /\ MaxDetails + n * k \in Nat /\ MaxDetails <= MaxDetails + n * k
             /\ MaxDetails + (n + 1) * k = MaxDetails + n * k + k
  <2>1. n * k \in Nat /\ (n + 1) * k = n * k + k
    OBVIOUS
  <2> QED  BY <1>1, <2>1
<1> QED  BY <1>1, <1>2, <1>3 DEF Bound

(* The bound after more deaths. *)
LEMMA BoundLater ==
    ASSUME world \in Worlds, NEW a \in Nat, NEW b \in Nat, a <= b
    PROVE  Bound(a + 1) <= Bound(b + 1) /\ Bound(a + 1) \in Nat /\ Bound(b + 1) \in Nat
<1>1. PICK k \in Nat : k = Cardinality(world.old)
  BY BoundGrows
<1>2. PICK d, e : d = a + 1 /\ e = b + 1
  OBVIOUS
<1>3. d \in Nat /\ e \in Nat /\ d <= e
  BY <1>2
<1>4. d * k <= e * k
  BY <1>3, TimesMore
<1>5. d * k \in Nat /\ e * k \in Nat /\ MaxDetails \in Nat
  BY <1>3, DetailAssumption
<1> QED  BY <1>1, <1>2, <1>4, <1>5 DEF Bound

(* A hook that moves pages has the lock. *)
LEMMA MoverLocks ==
    ASSUME HookInv, ~Locked(DetailLock), NEW g \in Hooks
    PROVE  hook[g].at # "move"
<1>1. SUFFICES ASSUME hook[g].at = "move" PROVE FALSE
  OBVIOUS
<1>2. hook[g].task = "tidy"
  BY <1>1, StageTask DEF HookInv
<1>3. Target(g) = DetailLock
  BY <1>2 DEF Target
<1> QED  BY <1>1, <1>3 DEF Locked, Writing

(* Nothing that is counted changes, and no hook starts or stops to move pages. *)
LEMMA SizeSame ==
    ASSUME SizeInv, UNCHANGED <<world, crashes, oldDetails>>, Pages' = Pages,
           \A g \in Hooks : hook[g].at = "move" \/ hook'[g].at = "move" => hook'[g] = hook[g]
    PROVE  SizeInv'
<1>1. /\ \A g \in Hooks : Moving(g)' <=> Moving(g)
      /\ \A g \in Hooks : Moving(g) => hook'[g] = hook[g]
  BY DEF Moving
<1>2. \A n : Bound(n)' = Bound(n)
  BY DEF Bound
<1>3. /\ \A g, h \in Hooks : Moving(g)' /\ Moving(h)' => g = h
      /\ \A h \in Hooks : Moving(h)' =>
            /\ hook'[h].sweep.left \subseteq world.old
            /\ Pages + Cardinality(hook'[h].sweep.left) <= Bound(crashes + 1)
      /\ (\A h \in Hooks : ~Moving(h)') /\ oldDetails # {} => Pages <= Bound(crashes)
      /\ Pages <= Bound(crashes + 1)
  BY <1>1 DEF SizeInv
<1> QED  BY <1>2, <1>3 DEF SizeInv, Moving, Bound

(* The pages are in the hand of a hook that does not move any. *)
LEMMA SizeNoMore ==
    ASSUME HookInv, AgentInv, PageInv, PageInv', SizeInv, NoneMore,
           UNCHANGED <<world, crashes, oldDetails>>,
           \A g \in Hooks : hook[g].at # "move" /\ hook'[g].at # "move"
    PROVE  SizeInv'
<1>1. PICK c, n, m : c = crashes /\ n = Pages /\ m = Pages'
  OBVIOUS
<1>2. c \in Nat /\ n \in Nat /\ m \in Nat
  BY <1>1, NoticeAssumption, PagesAreIds DEF AgentInv, Pages, PageInv
<1>3. /\ Bound(c) \in Nat /\ Bound(c + 1) \in Nat /\ MaxDetails \in Nat
      /\ MaxDetails <= Bound(c) /\ MaxDetails <= Bound(c + 1)
  BY <1>2, BoundGrows DEF AgentInv
<1>4. /\ m <= MaxDetails \/ m <= n
      /\ oldDetails # {} => n <= Bound(c)
      /\ n <= Bound(c + 1)
  BY <1>1 DEF SizeInv, NoneMore, Moving
<1>5. (oldDetails # {} => m <= Bound(c)) /\ m <= Bound(c + 1)
  BY <1>2, <1>3, <1>4
<1>6. /\ oldDetails' # {} => m <= Bound(c)'
      /\ m <= Bound(c + 1)' /\ crashes' = c
  BY <1>1, <1>5 DEF Bound
<1> QED  BY <1>1, <1>6 DEF SizeInv, Moving

(* The hook that moves pages starts, ... *)
LEMMA SizeStart ==
    ASSUME HookInv, AgentInv, PageInv, SizeInv, NEW h \in Hooks, StartMove(h)
    PROVE  SizeInv'
<1>1. PICK c, n, k, left : /\ c = crashes /\ n = Pages /\ k = Cardinality(world.old)
                          /\ left = {d.id : d \in oldDetails}
  OBVIOUS
<1>2. c \in Nat /\ n \in Nat
  BY <1>1, NoticeAssumption, PagesAreIds DEF AgentInv, Pages, PageInv
<1>3. /\ Bound(c) \in Nat /\ Bound(c + 1) = Bound(c) + k /\ k \in Nat /\ IsFiniteSet(world.old)
  BY <1>1, <1>2, BoundGrows DEF AgentInv
<1>4. \A g \in Hooks : hook[g].at # "move"
  BY MoverLocks DEF StartMove
<1>5. /\ oldDetails # {} /\ UNCHANGED <<world, crashes, details, oldDetails>>
      /\ hook' = [hook EXCEPT ![h].at = "move", ![h].sweep.left = left]
  BY <1>1 DEF StartMove, receiptVars, agentVars, detailVars
<1>6. n <= Bound(c)
  BY <1>1, <1>4, <1>5 DEF SizeInv, Moving
<1>7. /\ \A g \in Hooks : g # h => hook'[g] = hook[g]
      /\ hook'[h].at = "move" /\ hook'[h].sweep.left = left
  BY <1>5 DEF HookInv, Typed, HookFields, SweepFields
<1>8. left \subseteq world.old
  BY <1>1 DEF PageInv
<1>9. Cardinality(left) \in Nat /\ Cardinality(left) <= k
  BY <1>1, <1>3, <1>8, FS_Subset, FS_CardinalityType
<1>10. n + Cardinality(left) <= Bound(c + 1) /\ n <= Bound(c + 1)
  BY <1>2, <1>3, <1>6, <1>9
<1>11. /\ Pages' = n /\ crashes' = c /\ world' = world
       /\ \A g \in Hooks : Moving(g)' <=> g = h
  BY <1>1, <1>4, <1>5, <1>7 DEF Pages, Moving
<1>12. Bound(c + 1)' = Bound(c + 1)
  BY <1>11 DEF Bound
<1> QED  BY <1>7, <1>8, <1>10, <1>11, <1>12 DEF SizeInv

(* ... goes on, one page in and one less to come, ... *)
LEMMA SizeMove ==
    ASSUME HookInv, AgentInv, PageInv, PageInv', SizeInv, NEW h \in Hooks,
           hook[h].at = "move", hook'[h].at = "move",
           \A g \in Hooks : g # h => hook'[g] = hook[g],
           NEW x, x \in hook[h].sweep.left,
           hook'[h].sweep.left = hook[h].sweep.left \ {x},
           Pages' <= Pages + 1, UNCHANGED world, crashes' \in Nat, crashes <= crashes'
    PROVE  SizeInv'
<1>1. PICK c, n, m, left : /\ c = crashes /\ n = Pages /\ m = Pages'
                          /\ left = hook[h].sweep.left
  OBVIOUS
<1>2. c \in Nat /\ n \in Nat /\ m \in Nat
  BY <1>1, NoticeAssumption, PagesAreIds DEF AgentInv, Pages, PageInv
<1>3. IsFiniteSet(world.old)
  BY BoundGrows DEF AgentInv
<1>4. /\ left \subseteq world.old /\ n + Cardinality(left) <= Bound(c + 1)
      /\ \A g \in Hooks : Moving(g) => g = h
  BY <1>1 DEF SizeInv, Moving
<1>5. /\ Cardinality(left) \in Nat /\ Cardinality(left \ {x}) = Cardinality(left) - 1
      /\ Cardinality(left \ {x}) \in Nat
  BY <1>1, <1>3, <1>4, FS_Subset, FS_RemoveElement, FS_CardinalityType
<1>6. Bound(c + 1) <= Bound(crashes' + 1) /\ Bound(c + 1) \in Nat /\ Bound(crashes' + 1) \in Nat
  BY <1>1, <1>2, BoundLater DEF AgentInv
<1>7. m + Cardinality(left \ {x}) <= Bound(crashes' + 1) /\ m <= Bound(crashes' + 1)
  BY <1>1, <1>2, <1>4, <1>5, <1>6
<1>8. \A g \in Hooks : Moving(g)' <=> g = h
  BY <1>4 DEF Moving
<1>9. Bound(crashes' + 1) = Bound(crashes + 1)'
  BY DEF Bound
<1>10. hook'[h].sweep.left = left \ {x} /\ left \ {x} \subseteq world'.old
  BY <1>1, <1>4
<1> QED  BY <1>1, <1>7, <1>8, <1>9, <1>10 DEF SizeInv

(* ... and is done, or dies. *)
LEMMA SizeDone ==
    ASSUME HookInv, AgentInv, PageInv, PageInv', SizeInv, NEW h \in Hooks,
           hook[h].at = "move", hook'[h].at # "move",
           \A g \in Hooks : g # h => hook'[g] = hook[g],
           NoneMore, UNCHANGED world, crashes' \in Nat,
           \/ crashes' = crashes /\ oldDetails' = {}
           \/ crashes' = crashes + 1
    PROVE  SizeInv'
<1>1. PICK c, n, m : c = crashes /\ n = Pages /\ m = Pages'
  OBVIOUS
<1>2. c \in Nat /\ n \in Nat /\ m \in Nat
  BY <1>1, NoticeAssumption, PagesAreIds DEF AgentInv, Pages, PageInv
<1>3. /\ n <= Bound(c + 1) /\ \A g \in Hooks : Moving(g) => g = h
  BY <1>1 DEF SizeInv, Moving
<1>4. /\ Bound(c + 1) \in Nat /\ MaxDetails \in Nat /\ MaxDetails <= Bound(c + 1)
      /\ Bound(c + 2) \in Nat /\ Bound(c + 1) <= Bound(c + 2)
  <2>1. c + 1 \in Nat /\ (c + 1) + 1 = c + 2
    BY <1>2
  <2>2. PICK k \in Nat : k = Cardinality(world.old) /\ Bound((c + 1) + 1) = Bound(c + 1) + k
    BY <2>1, BoundGrows DEF AgentInv
  <2>3. Bound(c + 1) \in Nat /\ MaxDetails \in Nat /\ MaxDetails <= Bound(c + 1)
    BY <2>1, BoundGrows DEF AgentInv
  <2> QED  BY <2>1, <2>2, <2>3
<1>5. m <= Bound(c + 1) /\ m <= Bound(c + 2)
  <2>1. m <= MaxDetails \/ m <= n
    BY <1>1 DEF NoneMore
  <2> QED  BY <1>2, <1>3, <1>4, <2>1
<1>6. \A g \in Hooks : ~Moving(g)'
  BY <1>3 DEF Moving
<1>7. \A e : Bound(e)' = Bound(e)
  BY DEF Bound
<1>8. (oldDetails' # {} => m <= Bound(crashes')) /\ m <= Bound(crashes' + 1)
  <2>1. CASE crashes' = c /\ oldDetails' = {}
    BY <1>5, <2>1
  <2>2. CASE crashes' = c + 1
    <3>1. (c + 1) + 1 = c + 2
      BY <1>2
    <3> QED  BY <1>5, <2>2, <3>1
  <2> QED  BY <1>1, <2>1, <2>2
<1>9. (oldDetails' # {} => m <= Bound(crashes)') /\ m <= Bound(crashes + 1)'
  BY <1>8 DEF Bound
<1> QED  BY <1>1, <1>6, <1>9 DEF SizeInv

-----------------------------------------------------------------------------
(* The outputs *)

(* What a hook renames to depends on the turn that it works on. *)
LEMMA ClaimSame ==
    ASSUME NEW g, world' = world, hook'[g].task = hook[g].task,
           hook'[g].session = hook[g].session, hook'[g].turn = hook[g].turn
    PROVE  Claim(g)' = Claim(g)
<1> QED  BY DEF Claim, Target, KeyOf, PathOf

(* What a hook renames to is its own, and is not what others work on. *)
LEMMA ClaimNamed == \A g : Claim(g).claim = g /\ Target(g).claim = NoHook
<1>1. ASSUME NEW g
      PROVE  Claim(g).claim = g /\ Target(g).claim = NoHook
  <2>1. PICK s, k : Target(g) = PathOf(s, k)
    BY DEF Target, DetailLock
  <2> QED  BY <2>1 DEF Claim, PathOf
<1> QED  BY <1>1

(* What the hooks have after one went on. *)
LEMMA HooksWithLess ==
    ASSUME HookInv, NEW h \in Hooks, NEW r, GoesOnAs(h, r), ~Gaining(h, r), NEW s, NEW o,
           world' = world
    PROVE  /\ HooksWith(s, o)' \subseteq HooksWith(s, o)
           /\ h \in HooksWith(s, o)' => Carries(r)
           /\ \A g \in Hooks : g # h => hook'[g].at = hook[g].at /\ Claim(g)' = Claim(g)
<1>1. hook'[h] = r /\ \A g \in Hooks : g # h => hook'[g] = hook[g]
  BY HooksTyped DEF GoesOnAs
<1>2. \A g \in Hooks : Has(hook'[g], s, o) => Has(hook[g], s, o)
  BY <1>1 DEF Gaining
<1>3. HooksWith(s, o)' \subseteq HooksWith(s, o)
  BY <1>2 DEF HooksWith
<1>4. h \in HooksWith(s, o)' => Carries(r)
  BY <1>1 DEF HooksWith, Has
<1> QED  BY <1>1, <1>3, <1>4, ClaimSame

(* An output stays where it is, or goes from the hook to a directory. *)
LEMMA SingleKept ==
    ASSUME HookInv, NEW h \in Hooks, NEW r, GoesOnAs(h, r), ~Gaining(h, r),
           UNCHANGED <<world, observed>>, NEW s, NEW o, Single(s, o), NEW p,
           DirsWith(s, o)' \subseteq DirsWith(s, o) \cup {p},
           p \in DirsWith(s, o)' =>
                \/ p \in DirsWith(s, o)
                \/ /\ h \in HooksWith(s, o) /\ h \notin HooksWith(s, o)'
                   /\ hook[h].at # "discard",
           PagesWith(s, o)' \subseteq PagesWith(s, o),
           hook[h].at = "discard" => ~Carries(r) \/ Claim(h) \notin DirsWith(s, o)'
    PROVE  Single(s, o)'
<1>1. /\ HooksWith(s, o)' \subseteq HooksWith(s, o)
      /\ h \in HooksWith(s, o)' => Carries(r)
      /\ \A g \in Hooks : g # h => hook'[g].at = hook[g].at /\ Claim(g)' = Claim(g)
      /\ HooksWith(s, o)' \subseteq Hooks
  BY HooksWithLess DEF HooksWith
<1>2. h \in HooksWith(s, o) =>
        (DirsWith(s, o) # {} => hook[h].at = "discard" /\ DirsWith(s, o) = {Claim(h)})
  BY DEF Single
<1>3. ASSUME NEW g \in HooksWith(s, o)', NEW q \in DirsWith(s, o)'
      PROVE  hook'[g].at = "discard" /\ q = Claim(g)'
  <2>1. g \in HooksWith(s, o)
    BY <1>1
  <2>2. q \in DirsWith(s, o)
    BY <2>1, <1>3 DEF Single
  <2>3. hook[g].at = "discard" /\ q = Claim(g)
    BY <2>1, <2>2 DEF Single
  <2>4. g # h
    BY <1>1, <1>3, <2>3
  <2> QED  BY <1>1, <2>3, <2>4
<1>4. ASSUME NEW g \in DirsWith(s, o)', NEW q \in DirsWith(s, o)'
      PROVE  g = q
  BY <1>2 DEF Single
<1>5. /\ \A f, g \in HooksWith(s, o)' : f = g
      /\ \A i, j \in PagesWith(s, o)' : i = j
      /\ HooksWith(s, o)' = {} \/ PagesWith(s, o)' = {}
      /\ DirsWith(s, o)' = {} \/ PagesWith(s, o)' = {}
  BY <1>1 DEF Single
<1>6. HooksWith(s, o)' \cup DirsWith(s, o)' \cup PagesWith(s, o)' # {}
        => s \in Sessions /\ o \in observed'[s]
  BY <1>1 DEF Single
<1> QED  BY <1>3, <1>4, <1>5, <1>6 DEF Single

(* It is renamed. *)
LEMMA SingleRenamed ==
    ASSUME HookInv, NEW h \in Hooks, NEW r, GoesOnAs(h, r), ~Gaining(h, r),
           UNCHANGED <<world, observed>>, NEW s, NEW o, Single(s, o), hook[h].at # "discard",
           DirsWith(s, o)' \subseteq (DirsWith(s, o) \ {Target(h)}) \cup {Claim(h)},
           Claim(h) \in DirsWith(s, o)' => Target(h) \in DirsWith(s, o),
           PagesWith(s, o)' \subseteq PagesWith(s, o)
    PROVE  Single(s, o)'
<1>1. /\ HooksWith(s, o)' \subseteq HooksWith(s, o)
      /\ \A g \in Hooks : g # h => hook'[g].at = hook[g].at /\ Claim(g)' = Claim(g)
      /\ HooksWith(s, o)' \subseteq Hooks
  BY HooksWithLess DEF HooksWith
<1>2. 0 \notin Hooks
  BY NoticeAssumption
<1>3. ASSUME NEW g \in HooksWith(s, o)', NEW q \in DirsWith(s, o)'
      PROVE  hook'[g].at = "discard" /\ q = Claim(g)'
  <2>1. g \in HooksWith(s, o)
    BY <1>1
  <2>2. Target(h) \notin DirsWith(s, o)
    <3>1. SUFFICES ASSUME Target(h) \in DirsWith(s, o) PROVE FALSE
      OBVIOUS
    <3>2. Target(h) = Claim(g)
      BY <2>1, <3>1 DEF Single
    <3>3. Target(h).claim = 0 /\ Claim(g).claim = g
      BY ClaimNamed DEF NoHook
    <3> QED  BY <1>1, <1>2, <3>2, <3>3
  <2>3. q \in DirsWith(s, o)
    BY <2>2
  <2>4. hook[g].at = "discard" /\ q = Claim(g)
    BY <2>1, <2>3 DEF Single
  <2> QED  BY <1>1, <2>4
<1>4. ASSUME NEW g \in DirsWith(s, o)', NEW q \in DirsWith(s, o)'
      PROVE  g = q
  BY DEF Single
<1>5. /\ \A f, g \in HooksWith(s, o)' : f = g
      /\ \A i, j \in PagesWith(s, o)' : i = j
      /\ HooksWith(s, o)' = {} \/ PagesWith(s, o)' = {}
      /\ DirsWith(s, o)' = {} \/ PagesWith(s, o)' = {}
  BY <1>1 DEF Single
<1>6. HooksWith(s, o)' \cup DirsWith(s, o)' \cup PagesWith(s, o)' # {}
        => s \in Sessions /\ o \in observed'[s]
  BY <1>1 DEF Single
<1> QED  BY <1>3, <1>4, <1>5, <1>6 DEF Single

(* It is read from the directory that the hook claimed. *)
LEMMA SingleRead ==
    ASSUME HookInv, NEW h \in Hooks, NEW r, GoesOnAs(h, r), r.at = "discard", hook[h].at = "read",
           r.task = hook[h].task, r.session = hook[h].session, r.turn = hook[h].turn,
           UNCHANGED <<world, observed>>, NEW s, NEW o, Single(s, o),
           Has(r, s, o) => Has(hook[h], s, o) \/ Claim(h) \in DirsWith(s, o),
           DirsWith(s, o)' = DirsWith(s, o), PagesWith(s, o)' = PagesWith(s, o)
    PROVE  Single(s, o)'
<1>1. hook'[h] = r /\ \A g \in Hooks : g # h => hook'[g] = hook[g]
  BY HooksTyped DEF GoesOnAs
<1>2. /\ HooksWith(s, o)' \subseteq HooksWith(s, o) \cup {h} /\ HooksWith(s, o)' \subseteq Hooks
      /\ h \in HooksWith(s, o)' => h \in HooksWith(s, o) \/ Claim(h) \in DirsWith(s, o)
  BY <1>1 DEF HooksWith
<1>3. \A g \in Hooks : Claim(g)' = Claim(g)
  BY <1>1, ClaimSame
<1>4. ASSUME NEW g \in HooksWith(s, o)', NEW q \in DirsWith(s, o)'
      PROVE  hook'[g].at = "discard" /\ q = Claim(g)'
  <2>1. CASE g = h
    <3>1. Claim(h) \in DirsWith(s, o)
      BY <1>2, <2>1 DEF Single
    <3> QED  BY <1>1, <1>3, <2>1, <3>1 DEF Single
  <2>2. CASE g # h
    BY <1>1, <1>2, <1>3, <2>2 DEF Single
  <2> QED  BY <2>1, <2>2
<1>5. ASSUME NEW f \in HooksWith(s, o)', NEW g \in HooksWith(s, o)'
      PROVE  f = g
  <2>1. ASSUME NEW e \in HooksWith(s, o), h \in HooksWith(s, o)'
        PROVE  e = h
    <3>1. CASE h \in HooksWith(s, o)
      BY <2>1, <3>1 DEF Single
    <3>2. CASE Claim(h) \in DirsWith(s, o)
      <4>1. Claim(h) = Claim(e)
        BY <2>1, <3>2 DEF Single
      <4> QED  BY <4>1, ClaimNamed
    <3> QED  BY <1>2, <2>1, <3>1, <3>2
  <2> QED  BY <1>2, <2>1 DEF Single
<1>6. /\ \A p, q \in DirsWith(s, o)' : p = q
      /\ \A i, j \in PagesWith(s, o)' : i = j
      /\ HooksWith(s, o)' = {} \/ PagesWith(s, o)' = {}
      /\ DirsWith(s, o)' = {} \/ PagesWith(s, o)' = {}
  BY <1>2 DEF Single
<1>7. HooksWith(s, o)' \cup DirsWith(s, o)' \cup PagesWith(s, o)' # {}
        => s \in Sessions /\ o \in observed'[s]
  BY <1>2 DEF Single
<1> QED  BY <1>4, <1>5, <1>6, <1>7 DEF Single

(* It goes from the hook to a page. *)
LEMMA SingleTold ==
    ASSUME HookInv, NEW h \in Hooks, NEW r, GoesOnAs(h, r), ~Carries(r), hook[h].at # "discard",
           ~Gaining(h, r),
           UNCHANGED <<world, observed>>, NEW s, NEW o, Single(s, o), NEW i,
           PagesWith(s, o)' \subseteq PagesWith(s, o) \cup {i},
           i \in PagesWith(s, o)' => i \in PagesWith(s, o) \/ h \in HooksWith(s, o),
           DirsWith(s, o)' = DirsWith(s, o)
    PROVE  Single(s, o)'
<1>1. /\ HooksWith(s, o)' \subseteq HooksWith(s, o) \ {h}
      /\ \A g \in Hooks : g # h => hook'[g].at = hook[g].at /\ Claim(g)' = Claim(g)
      /\ HooksWith(s, o)' \subseteq Hooks
  BY HooksWithLess DEF HooksWith
<1>2. h \in HooksWith(s, o) =>
        HooksWith(s, o)' = {} /\ DirsWith(s, o) = {} /\ PagesWith(s, o) = {}
  BY <1>1 DEF Single
<1>3. ASSUME NEW g \in HooksWith(s, o)', NEW q \in DirsWith(s, o)'
      PROVE  hook'[g].at = "discard" /\ q = Claim(g)'
  BY <1>1, <1>3 DEF Single
<1>4. /\ \A f, g \in HooksWith(s, o)' : f = g
      /\ \A p, q \in DirsWith(s, o)' : p = q
  BY <1>1 DEF Single
<1>5. /\ \A j, k \in PagesWith(s, o)' : j = k
      /\ HooksWith(s, o)' = {} \/ PagesWith(s, o)' = {}
      /\ DirsWith(s, o)' = {} \/ PagesWith(s, o)' = {}
  BY <1>1, <1>2 DEF Single
<1>6. HooksWith(s, o)' \cup DirsWith(s, o)' \cup PagesWith(s, o)' # {}
        => s \in Sessions /\ o \in observed'[s]
  BY <1>1, <1>2 DEF Single
<1> QED  BY <1>3, <1>4, <1>5, <1>6 DEF Single

(* It is new. *)
LEMMA SingleFresh ==
    ASSUME HookInv, NEW h \in Hooks, NEW r, hook' = [hook EXCEPT ![h] = r], Typed(r),
           hook[h].task = "none", world' = world, NEW s, NEW o, Single(s, o),
           Has(r, s, o) => s \in Sessions /\ o \notin observed[s] /\ o \in observed'[s],
           s \in Sessions => observed[s] \subseteq observed'[s],
           DirsWith(s, o)' = DirsWith(s, o), PagesWith(s, o)' = PagesWith(s, o)
    PROVE  Single(s, o)'
<1>1. hook'[h] = r /\ \A g \in Hooks : g # h => hook'[g] = hook[g]
  BY HooksTyped
<1>2. /\ HooksWith(s, o)' \subseteq HooksWith(s, o) \cup {h} /\ HooksWith(s, o)' \subseteq Hooks
      /\ h \in HooksWith(s, o)' => Has(r, s, o)
      /\ h \notin HooksWith(s, o)
  BY <1>1 DEF HooksWith, Has, Carries
<1>3. CASE h \notin HooksWith(s, o)'
  <2>1. HooksWith(s, o)' \subseteq HooksWith(s, o)
    BY <1>2, <1>3
  <2>2. \A g \in HooksWith(s, o)' : hook'[g] = hook[g] /\ Claim(g)' = Claim(g)
    <3>1. \A g \in HooksWith(s, o)' : hook'[g] = hook[g]
      BY <1>1, <1>2, <1>3
    <3> QED  BY <3>1, ClaimSame
  <2> QED  BY <2>1, <2>2 DEF Single
<1>4. CASE h \in HooksWith(s, o)'
  <2>1. s \in Sessions /\ o \notin observed[s] /\ o \in observed'[s]
    BY <1>2, <1>4
  <2>2. HooksWith(s, o) = {} /\ DirsWith(s, o) = {} /\ PagesWith(s, o) = {}
    BY <2>1 DEF Single
  <2>3. HooksWith(s, o)' = {h} /\ DirsWith(s, o)' = {} /\ PagesWith(s, o)' = {}
    BY <1>2, <1>4, <2>2
  <2> QED  BY <2>1, <2>3 DEF Single
<1> QED  BY <1>3, <1>4

-----------------------------------------------------------------------------
(* The steps, for one output *)

(* No page gets an output that no page of its prompt had. *)
LEMMA PagesWithLess ==
    ASSUME NoneAdded, NEW s, NEW o
    PROVE  PagesWith(s, o)' \subseteq PagesWith(s, o)
<1>1. ASSUME NEW e \in ToSet(lastWrites'), o \in e.output
      PROVE  \E c \in ToSet(lastWrites) : c.id = e.id /\ o \in c.output
  <2>1. e.output # {}
    BY <1>1
  <2> QED  BY <1>1, <2>1 DEF NoneAdded
<1> QED  BY <1>1 DEF PagesWith

(* What was in a directory goes with it. *)
LEMMA DirsWithLess ==
    ASSUME NEW p, dirs' = Without(p), NEW s, NEW o
    PROVE  DirsWith(s, o)' \subseteq DirsWith(s, o) \ {p}
<1> QED  BY DEF Without, Restrict, DirsWith

(* Nothing is written on a page. *)
LEMMA PagesWithSame ==
    ASSUME UNCHANGED lastWrites, NEW s, NEW o
    PROVE  PagesWith(s, o)' = PagesWith(s, o)
<1> QED  BY DEF PagesWith

(* Nothing happens to the directories. *)
LEMMA DirsWithSame ==
    ASSUME UNCHANGED dirs, NEW s, NEW o
    PROVE  DirsWith(s, o)' = DirsWith(s, o)
<1> QED  BY DEF DirsWith

(* Hooks go on by themselves, without the agents and the clock. *)
LEMMA GoesSame ==
    ASSUME NEW h \in Hooks, Goes(h)
    PROVE  UNCHANGED <<world, turn, observed, clock>>
<1>1. CASE OffPage(h)
  BY <1>1, OffPageSame
<1>2. CASE \/ OpenPage(h) \/ RecordRules(h) \/ TellResult(h) \/ RemoveDetails(h) \/ StartMove(h)
           \/ SkipDetails(h) \/ MoveNext(h) \/ MoveFails(h) \/ DropOld(h)
  BY <1>2 DEF OpenPage, RecordRules, TellResult, RemoveDetails, StartMove, SkipDetails, MoveNext,
              MoveFails, DropOld, receiptVars, agentVars
<1> QED  BY <1>1, <1>2 DEF Goes, OffPage

(* Steps that concern the pages. *)
LEMMA SingleOnPage ==
    ASSUME AgentInv, HookInv, TreeInv, PageInv, NEW h \in Hooks, Goes(h), ~OffPage(h),
           NEW s, NEW o, Single(s, o)
    PROVE  Single(s, o)'
<1>1. UNCHANGED <<world, observed>>
  BY GoesSame
<1>2. PICK r : GoesOnAs(h, r) /\ ~Gaining(h, r)
  BY GoingOn DEF OffPage
<1>3. UNCHANGED dirs /\ hook[h].at # "discard"
  BY DEF Goes, OffPage, OpenPage, RecordRules, TellResult, RemoveDetails, StartMove, SkipDetails,
         MoveNext, MoveFails, DropOld, receiptVars, treeVars, At
<1>4. DirsWith(s, o)' = DirsWith(s, o)
  BY <1>3, DirsWithSame
<1>5. CASE TellResult(h)
  <2>1. End(h) /\ hook[h].task = "tell" /\ Carries(hook[h])
    BY <1>5, StageTask DEF TellResult, At, HookInv, Carries
  <2>2. hook'[h] = r /\ hook'[h] = NoWork
    BY <1>2, <2>1, HooksTyped DEF GoesOnAs, End, HookInv
  <2>3. ~Carries(r)
    BY <2>2, IdleTyped
  <2>4. \A e \in ToSet(lastWrites') :
            \/ \E c \in ToSet(lastWrites) : c.id = e.id /\ c.output = e.output
            \/ e.id = Page(h) /\ e.output = hook[h].output
    BY <1>5, ResultTold
  <2>5. Page(h)[1] = hook[h].session
    BY <2>1, PageNamed
  <2>6. PagesWith(s, o)' \subseteq PagesWith(s, o) \cup {Page(h)}
    BY <2>4 DEF PagesWith
  <2>7. Page(h) \in PagesWith(s, o)' => Page(h) \in PagesWith(s, o) \/ h \in HooksWith(s, o)
    <3>1. SUFFICES ASSUME Page(h) \in PagesWith(s, o)', Page(h) \notin PagesWith(s, o)
                   PROVE  h \in HooksWith(s, o)
      OBVIOUS
    <3>2. PICK e \in ToSet(lastWrites') : e.id = Page(h) /\ o \in e.output /\ Page(h)[1] = s
      BY <3>1 DEF PagesWith
    <3>3. o \in hook[h].output
      BY <2>4, <3>1, <3>2 DEF PagesWith
    <3> QED  BY <2>1, <2>5, <3>2, <3>3 DEF HooksWith, Has
  <2> QED  BY <1>1, <1>2, <1>3, <1>4, <2>3, <2>6, <2>7, SingleTold
<1>6. CASE ~TellResult(h)
  <2>1. NoneAdded
    <3>1. CASE UNCHANGED <<world, detailVars>>
      BY <3>1, PagesSame
    <3>2. CASE OpenPage(h)
      BY <3>2, PageOpened
    <3>3. CASE RecordRules(h)
      BY <3>3, RulesRecorded
    <3>4. CASE MoveNext(h)
      BY <3>4, PageMoved
    <3>5. ASSUME RemoveDetails(h) \/ DropOld(h) \/ StartMove(h) \/ SkipDetails(h) \/ MoveFails(h)
          PROVE  lastWrites' = lastWrites
      BY <3>5 DEF RemoveDetails, DropOld, StartMove, SkipDetails, MoveFails, detailVars
    <3>6. CASE lastWrites' = lastWrites
      BY <3>6 DEF NoneAdded
    <3> QED  BY <1>6, <3>1, <3>2, <3>3, <3>4, <3>5, <3>6 DEF Goes, OffPage
  <2>2. PagesWith(s, o)' \subseteq PagesWith(s, o)
    BY <2>1, PagesWithLess
  <2>3. DirsWith(s, o)' \subseteq DirsWith(s, o) \cup {DetailLock}
        /\ (DetailLock \in DirsWith(s, o)' => DetailLock \in DirsWith(s, o))
    BY <1>4
  <2> QED  BY <1>1, <1>2, <1>3, <2>2, <2>3, SingleKept
<1> QED  BY <1>5, <1>6

(* Steps that concern the directories. *)
LEMMA SingleOffPage ==
    ASSUME AgentInv, HookInv, TreeInv, PageInv, NEW h \in Hooks, OffPage(h),
           NEW s, NEW o, Single(s, o)
    PROVE  Single(s, o)'
<1>1. UNCHANGED <<world, observed, lastWrites>> /\ Goes(h)
  BY OffPageSame DEF detailVars, OffPage, Goes
<1>2. PagesWith(s, o)' = PagesWith(s, o)
  BY <1>1, PagesWithSame
<1>3. Typed(hook[h])
  BY DEF HookInv
<1>4. CASE ReadClaim(h)
  <2>1. PICK r : /\ GoesOnAs(h, r) /\ r.at = "discard" /\ hook[h].at = "read"
                 /\ r.task = hook[h].task /\ r.session = hook[h].session /\ r.turn = hook[h].turn
                 /\ \A t, x : Has(r, t, x) => Has(hook[h], t, x) \/ Claim(h) \in DirsWith(t, x)
    BY <1>4, ReadingOn
  <2>2. DirsWith(s, o)' = DirsWith(s, o)
    BY <1>4, DirsWithSame DEF ReadClaim, treeVars
  <2>3. Has(r, s, o) => Has(hook[h], s, o) \/ Claim(h) \in DirsWith(s, o)
    BY <2>1
  <2> QED  BY <1>1, <1>2, <2>1, <2>2, <2>3, SingleRead
<1>5. CASE ~ReadClaim(h)
  <2>1. PICK r : GoesOnAs(h, r) /\ ~Gaining(h, r)
    BY <1>1, <1>5, GoingOn
  <2>2. hook'[h] = r
    BY <2>1, HooksTyped DEF GoesOnAs
  <2>3. ASSUME NEW p, DirsWith(s, o)' \subseteq DirsWith(s, o) \cup {p},
               p \in DirsWith(s, o)' =>
                    \/ p \in DirsWith(s, o)
                    \/ /\ h \in HooksWith(s, o) /\ h \notin HooksWith(s, o)'
                       /\ hook[h].at # "discard",
               hook[h].at = "discard" => Claim(h) \notin DirsWith(s, o)'
        PROVE  Single(s, o)'
    <3>1. PagesWith(s, o)' \subseteq PagesWith(s, o)
      BY <1>2
    <3>2. hook[h].at = "discard" => ~Carries(r) \/ Claim(h) \notin DirsWith(s, o)'
      BY <2>3
    <3>3. UNCHANGED <<world, observed>>
      BY <1>1
    <3> QED  BY <2>1, <2>3, <3>1, <3>2, <3>3, SingleKept
  <2>4. CASE UNCHANGED dirs /\ hook[h].at # "discard"
    <3>1. DirsWith(s, o)' = DirsWith(s, o)
      BY <2>4, DirsWithSame
    <3>2. DirsWith(s, o)' \subseteq DirsWith(s, o) \cup {Cleanup}
          /\ (Cleanup \in DirsWith(s, o)' => Cleanup \in DirsWith(s, o))
      BY <3>1
    <3> QED  BY <2>3, <2>4, <3>2
  <2>5. ASSUME NEW p, dirs' = Without(p), hook[h].at = "discard" => p = Claim(h)
        PROVE  Single(s, o)'
    <3>1. DirsWith(s, o)' \subseteq DirsWith(s, o) \ {p}
      BY <2>5, DirsWithLess
    <3> QED  BY <2>3, <2>5, <3>1
  <2>6. CASE LockAndReset(h)
    BY <2>5, <2>6 DEF LockAndReset, At
  <2>7. CASE DiscardClaim(h)
    BY <2>5, <2>7 DEF DiscardClaim
  <2>8. CASE SweepNext(h)
    <3>1. hook[h].at # "discard"
      BY <2>8 DEF SweepNext, At
    <3>2. UNCHANGED dirs \/ \E p : dirs' = Without(p)
      BY <2>8 DEF SweepNext
    <3> QED  BY <2>4, <2>5, <3>1, <3>2
  <2>9. CASE MakeDir(h)
    <3>1. hook[h].at # "discard" /\ dirs' = Holding(Target(h), Made, DOMAIN dirs)
      BY <2>9 DEF MakeDir, At
    <3>2. DirsWith(s, o)' \subseteq DirsWith(s, o)
      BY <3>1, DirsTyped DEF Holding, DirsWith
    <3> QED  BY <2>3, <3>1, <3>2
  <2>10. CASE WriteFile(h)
    <3>1. /\ hook[h].task \in {"begin", "save"} /\ hook[h].at # "discard" /\ Finish(h)
          /\ dirs' = [dirs EXCEPT ![Target(h)] = Written(hook[h].output)]
      BY <1>3, <2>10, StageTask DEF WriteFile, At
    <3>2. Written(hook[h].output).output = hook[h].output /\ Target(h).session = hook[h].session
      BY <1>3, <3>1, DirsTyped, TargetPath DEF Typed
    <3>3. DirsWith(s, o)' \subseteq DirsWith(s, o) \cup {Target(h)}
      BY <3>1 DEF DirsWith
    <3>4. ASSUME Target(h) \in DirsWith(s, o)'
          PROVE  h \in HooksWith(s, o) /\ h \notin HooksWith(s, o)'
      <4>1. s = hook[h].session /\ o \in hook[h].output
        BY <3>1, <3>2, <3>4 DEF DirsWith
      <4>2. hook[h].task = "save"
        BY <1>3, <3>1, <4>1 DEF Typed
      <4>3. End(h)
        BY <3>1, <4>2 DEF Finish, Works
      <4>4. hook'[h] = NoWork
        BY <4>3 DEF End, HookInv
      <4> QED  BY <4>1, <4>2, <4>4, IdleTyped DEF HooksWith, Has, Carries
    <3> QED  BY <2>3, <3>1, <3>3, <3>4
  <2>11. CASE RecordOutput(h)
    <3>1. hook[h].task = "record" /\ hook[h].at = "record" /\ Go(h, "prune")
      BY <1>3, <2>11, StageTask DEF RecordOutput, At
    <3>2. CASE UNCHANGED dirs
      BY <2>4, <3>1, <3>2
    <3>3. CASE /\ HasReceipt(Target(h))
               /\ dirs' = [dirs EXCEPT ![Target(h)].output = @ \cup hook[h].output]
      <4>1. PICK t, d : t = Target(h) /\ d = [dirs[t] EXCEPT !.output = @ \cup hook[h].output]
        OBVIOUS
      <4>2. t \in DOMAIN dirs /\ d.output = dirs[t].output \cup hook[h].output
        BY <3>3, <4>1 DEF HasReceipt, TreeInv
      <4>3. dirs' = [dirs EXCEPT ![t] = d]
        BY <3>3, <4>1, <4>2
      <4>4. DirsWith(s, o)' \subseteq DirsWith(s, o) \cup {t}
        BY <4>3 DEF DirsWith
      <4>5. ASSUME t \in DirsWith(s, o)', t \notin DirsWith(s, o)
            PROVE  h \in HooksWith(s, o) /\ h \notin HooksWith(s, o)'
        <5>1. t.session = s /\ o \in hook[h].output
          BY <4>2, <4>3, <4>5 DEF DirsWith
        <5>2. t.session = hook[h].session
          BY <3>1, <4>1, TargetPath
        <5>3. hook'[h].task = "record" /\ hook'[h].at = "prune"
          BY <1>3, <3>1 DEF Go, HookInv, Typed, HookFields
        <5> QED  BY <3>1, <5>1, <5>2, <5>3 DEF HooksWith, Has, Carries
      <4> QED  BY <2>3, <3>1, <4>4, <4>5
    <3> QED  BY <2>11, <3>2, <3>3 DEF RecordOutput
  <2>12. CASE ClaimIt(h)
    <3>1. hook[h].task \in {"show", "consume"} /\ hook[h].at # "discard"
      BY <1>3, <2>12, StageTask DEF ClaimIt, At
    <3>2. CASE Target(h) \in DOMAIN dirs
      <4>1. dirs' = Holding(Claim(h), dirs[Target(h)], DOMAIN dirs \ {Target(h)})
        BY <2>12, <3>2 DEF ClaimIt
      <4>2. Claim(h).session = Target(h).session
        BY <3>1, TargetPath
      <4>3. DirsWith(s, o)' \subseteq (DirsWith(s, o) \ {Target(h)}) \cup {Claim(h)}
        BY <4>1 DEF Holding, DirsWith
      <4>4. Claim(h) \in DirsWith(s, o)' => Target(h) \in DirsWith(s, o)
        BY <3>2, <4>1, <4>2 DEF Holding, DirsWith
      <4>5. PagesWith(s, o)' \subseteq PagesWith(s, o)
        BY <1>2
      <4>6. UNCHANGED <<world, observed>>
        BY <1>1
      <4> QED  BY <2>1, <3>1, <4>3, <4>4, <4>5, <4>6, SingleRenamed
    <3>3. CASE Target(h) \notin DOMAIN dirs
      <4>1. UNCHANGED dirs
        BY <2>12, <3>3 DEF ClaimIt
      <4> QED  BY <2>4, <3>1, <4>1
    <3> QED  BY <3>2, <3>3
  <2>13. ASSUME \/ MakeAgentDir(h) \/ MakeSessionDir(h) \/ MakeFails(h) \/ LockTimesOut(h)
                \/ Prune(h) \/ PruneAgent(h) \/ Scan(h) \/ EndSweep(h)
         PROVE  UNCHANGED dirs /\ hook[h].at # "discard"
    BY <2>13 DEF MakeAgentDir, MakeSessionDir, MakeFails, ParentGone, LockTimesOut, Locking, Prune,
                 PruneAgent, Scan, EndSweep, treeVars, At
  <2> QED  BY <1>5, <2>4, <2>6, <2>7, <2>8, <2>9, <2>10, <2>11, <2>12, <2>13 DEF OffPage
<1> QED  BY <1>4, <1>5

-----------------------------------------------------------------------------
(* The steps, for the pages and what the agents know *)

(* A hook that does not move pages dies. *)
LEMMA SizeLater ==
    ASSUME AgentInv, PageInv, SizeInv, UNCHANGED <<world, oldDetails>>, Pages' = Pages,
           crashes' = crashes + 1,
           \A g \in Hooks : hook[g].at = "move" \/ hook'[g].at = "move" => hook'[g] = hook[g]
    PROVE  SizeInv'
<1>1. PICK c, n : c = crashes /\ n = Pages
  OBVIOUS
<1>2. c \in Nat /\ n \in Nat
  BY <1>1, NoticeAssumption, PagesAreIds DEF AgentInv, Pages, PageInv
<1>3. /\ Bound(c) \in Nat /\ Bound(c + 1) \in Nat /\ Bound(c + 2) \in Nat
      /\ Bound(c) <= Bound(c + 1) /\ Bound(c + 1) <= Bound(c + 2)
  <2>1. c + 1 \in Nat /\ (c + 1) + 1 = c + 2
    BY <1>2
  <2>2. PICK k \in Nat : /\ k = Cardinality(world.old) /\ Bound(c + 1) = Bound(c) + k
                        /\ Bound((c + 1) + 1) = Bound(c + 1) + k
    BY <1>2, <2>1, BoundGrows DEF AgentInv
  <2>3. Bound(c) \in Nat
    BY <1>2, BoundGrows DEF AgentInv
  <2> QED  BY <2>1, <2>2, <2>3
<1>4. /\ \A g \in Hooks : Moving(g)' <=> Moving(g)
      /\ \A g \in Hooks : Moving(g) => hook'[g] = hook[g]
  BY DEF Moving
<1>5. \A e : Bound(e)' = Bound(e)
  BY DEF Bound
<1>6. ASSUME NEW g \in Hooks, Moving(g)
      PROVE  /\ hook'[g].sweep.left \subseteq world.old
             /\ n + Cardinality(hook'[g].sweep.left) <= Bound(c + 2)
  <2>1. PICK left : left = hook[g].sweep.left
    OBVIOUS
  <2>2. left \subseteq world.old /\ n + Cardinality(left) <= Bound(c + 1)
    BY <1>1, <1>6, <2>1 DEF SizeInv
  <2>3. IsFiniteSet(world.old)
    BY BoundGrows DEF AgentInv
  <2>4. Cardinality(left) \in Nat
    BY <2>2, <2>3, FS_Subset, FS_CardinalityType
  <2>5. n + Cardinality(left) <= Bound(c + 2)
    BY <1>2, <1>3, <2>2, <2>4
  <2> QED  BY <1>4, <1>6, <2>1, <2>2, <2>5
<1>7. /\ oldDetails # {} /\ (\A g \in Hooks : ~Moving(g)) => n <= Bound(c + 1)
      /\ n <= Bound(c + 2)
  BY <1>1, <1>2, <1>3 DEF SizeInv
<1>8. crashes' = c + 1 /\ (c + 1) + 1 = c + 2 /\ Pages' = n
  BY <1>1, <1>2
<1>9. Bound(crashes)' = Bound(c + 1) /\ Bound(crashes + 1)' = Bound(c + 2)
  BY <1>8 DEF Bound
<1>10. \A g, h \in Hooks : Moving(g) /\ Moving(h) => g = h
  BY DEF SizeInv
<1> QED  BY <1>4, <1>6, <1>7, <1>8, <1>9, <1>10 DEF SizeInv

(* The number of pages stays within what it may be. *)
LEMMA SizeGoes ==
    ASSUME AgentInv, HookInv, TreeInv, PageInv, SizeInv, NEW h \in Hooks, Goes(h)
    PROVE  PageInv' /\ SizeInv'
<1>1. PICK r : GoesOnAs(h, r) /\ (r.at = "move" => hook[h].at \in {"move", "read"} \/ StartMove(h))
  BY GoingOn, ReadingOn
<1>2. hook'[h] = r /\ \A g \in Hooks : g # h => hook'[g] = hook[g]
  BY <1>1, HooksTyped DEF GoesOnAs
<1>3. UNCHANGED world
  BY GoesSame
<1>4. ASSUME PageInv', NoneMore, ~Locked(DetailLock), UNCHANGED <<crashes, oldDetails>>,
             r.at # "move"
      PROVE  SizeInv'
  <2>1. \A g \in Hooks : hook[g].at # "move" /\ hook'[g].at # "move"
    BY <1>2, <1>4, MoverLocks
  <2> QED  BY <1>3, <1>4, <2>1, SizeNoMore
<1>5. ASSUME UNCHANGED <<crashes, detailVars>>, hook[h].at # "move", r.at # "move"
      PROVE  PageInv' /\ SizeInv'
  <2>1. PageInv' /\ Pages' = Pages
    BY <1>3, <1>5, PagesSame
  <2>2. \A g \in Hooks : hook[g].at = "move" \/ hook'[g].at = "move" => hook'[g] = hook[g]
    BY <1>2, <1>5
  <2> QED  BY <1>3, <1>5, <2>1, <2>2, SizeSame DEF detailVars
<1>6. CASE OffPage(h)
  <2>1. UNCHANGED <<crashes, detailVars>> /\ hook[h].at \notin {"expire", "move"}
    BY <1>6, OffPageSame
  <2>2. r.at # "move"
    <3>1. CASE ReadClaim(h)
      BY <1>2, <3>1 DEF ReadClaim, HookInv, Typed, HookFields
    <3>2. CASE ~ReadClaim(h)
      <4>1. PICK q : GoesOnAs(h, q) /\ (q.at = "move" => hook[h].at = "move" \/ StartMove(h))
        BY <3>2, GoingOn
      <4>2. q = r
        BY <1>2, <4>1, HooksTyped DEF GoesOnAs
      <4> QED  BY <2>1, <4>1, <4>2 DEF StartMove, At
    <3> QED  BY <3>1, <3>2
  <2> QED  BY <1>5, <2>1, <2>2
<1>7. CASE OpenPage(h)
  <2>1. PageInv' /\ NoneMore
    BY <1>7, PageOpened
  <2>2. hook[h].at = "create" /\ ~StartMove(h)
    BY <1>7 DEF OpenPage, StartMove, At
  <2> QED  BY <1>1, <1>4, <1>7, <2>1, <2>2 DEF OpenPage
<1>8. CASE RecordRules(h)
  <2>1. PageInv' /\ NoneMore
    BY <1>8, RulesRecorded
  <2>2. hook[h].at = "context" /\ ~StartMove(h)
    BY <1>8 DEF RecordRules, StartMove, At
  <2> QED  BY <1>1, <1>4, <1>8, <2>1, <2>2 DEF RecordRules
<1>9. CASE TellResult(h)
  <2>1. PageInv' /\ NoneMore
    BY <1>9, ResultTold
  <2>2. hook[h].at = "result" /\ ~StartMove(h)
    BY <1>9 DEF TellResult, StartMove, At
  <2> QED  BY <1>1, <1>4, <1>9, <2>1, <2>2 DEF TellResult
<1>10. CASE RemoveDetails(h)
  <2>1. PageInv' /\ NoneMore
    BY <1>3, <1>10, DetailsRemoved DEF RemoveDetails
  <2>2. r.at # "move"
    BY <1>2, <1>10, IdleTyped DEF RemoveDetails, End, HookInv
  <2> QED  BY <1>4, <1>10, <2>1, <2>2 DEF RemoveDetails
<1>11. CASE StartMove(h)
  <2>1. PageInv'
    BY <1>3, <1>11, PagesSame DEF StartMove
  <2> QED  BY <1>11, <2>1, SizeStart
<1>12. CASE SkipDetails(h)
  <2>1. hook[h].at # "move" /\ r.at # "move"
    BY <1>2, <1>12, IdleTyped DEF SkipDetails, End, HookInv, At
  <2> QED  BY <1>5, <1>12, <2>1 DEF SkipDetails
<1>13. CASE MoveNext(h)
  <2>1. PageInv' /\ Pages' <= Pages + 1
    BY <1>13, PageMoved
  <2>2. PICK x \in hook[h].sweep.left : hook' = [hook EXCEPT ![h].sweep.left = @ \ {x}]
    BY <1>13 DEF MoveNext
  <2>3. /\ hook[h].at = "move" /\ hook'[h].at = "move"
        /\ hook'[h].sweep.left = hook[h].sweep.left \ {x}
    BY <1>13, <2>2 DEF MoveNext, At, HookInv, Typed, HookFields, SweepFields
  <2>4. crashes' = crashes /\ crashes \in Nat
    BY <1>13, NoticeAssumption DEF MoveNext, AgentInv
  <2>5. crashes' \in Nat /\ crashes <= crashes'
    BY <2>4
  <2> QED  BY <1>2, <1>3, <2>1, <2>2, <2>3, <2>5, SizeMove
<1>14. CASE MoveFails(h)
  <2>1. UNCHANGED detailVars /\ crashes' = crashes + 1
    BY <1>14 DEF MoveFails
  <2>2. PageInv' /\ Pages' = Pages /\ Pages \in Nat
    BY <1>3, <2>1, PagesSame
  <2>3. PICK x \in hook[h].sweep.left :
            hook' = [hook EXCEPT ![h].sweep.left = @ \ {x}, ![h].sweep.complete = FALSE]
    BY <1>14 DEF MoveFails
  <2>4. /\ hook[h].at = "move" /\ hook'[h].at = "move"
        /\ hook'[h].sweep.left = hook[h].sweep.left \ {x}
    BY <1>14, <2>3 DEF MoveFails, At, HookInv, Typed, HookFields, SweepFields
  <2>5. crashes' \in Nat /\ crashes <= crashes' /\ Pages' <= Pages + 1
    <3>1. crashes \in Nat
      BY NoticeAssumption DEF AgentInv
    <3> QED  BY <2>1, <2>2, <3>1
  <2> QED  BY <1>2, <1>3, <2>2, <2>3, <2>4, <2>5, SizeMove
<1>15. CASE DropOld(h)
  <2>1. lastWrites' = lastWrites /\ oldDetails' = {} /\ crashes' = crashes /\ hook[h].at = "move"
    BY <1>15 DEF DropOld, At
  <2>2. PageInv' /\ NoneMore
    <3>1. CASE RemoveExpiredAndTrim(clock)
      BY <1>3, <2>1, <3>1, DetailsRemoved
    <3>2. CASE UNCHANGED <<details, detailCursor>>
      <4>1. Cardinality(IdsOf(details)) \in Nat
        BY PagesAreIds DEF PageInv
      <4> QED  BY <1>3, <2>1, <3>2, <4>1 DEF PageInv, NoneMore, Pages
    <3> QED  BY <1>15, <3>1, <3>2 DEF DropOld
  <2>3. hook'[h].at # "move"
    BY <1>15, IdleTyped DEF DropOld, End, HookInv
  <2>4. crashes' \in Nat
    BY <2>1, NoticeAssumption DEF AgentInv
  <2> QED  BY <1>2, <1>3, <2>1, <2>2, <2>3, <2>4, SizeDone
<1> QED  BY <1>6, <1>7, <1>8, <1>9, <1>10, <1>11, <1>12, <1>13, <1>14, <1>15 DEF Goes, OffPage

-----------------------------------------------------------------------------
(* Every step keeps the invariant. *)

(* A hook goes on. *)
LEMMA HookKeeps ==
    ASSUME NoticeInv, NEW h \in Hooks, Goes(h)
    PROVE  NoticeInv'
<1> USE DEF NoticeInv
<1>1. UNCHANGED <<world, turn, observed, clock>>
  BY GoesSame
<1>2. PICK r : GoesOnAs(h, r)
  BY GoingOn, ReadingOn
<1>3. HookInv'
  BY <1>2, HooksTyped DEF GoesOnAs
<1>4. crashes' = crashes \/ MoveFails(h)
  <2>1. CASE OffPage(h)
    BY <2>1, OffPageSame
  <2>2. CASE \/ OpenPage(h) \/ RecordRules(h) \/ TellResult(h) \/ RemoveDetails(h) \/ StartMove(h)
             \/ SkipDetails(h) \/ MoveNext(h) \/ DropOld(h)
    BY <2>2 DEF OpenPage, RecordRules, TellResult, RemoveDetails, StartMove, SkipDetails, MoveNext,
                DropOld
  <2> QED  BY <2>1, <2>2 DEF Goes, OffPage
<1>5. crashes' \in 0 .. world.crashes
  <2>1. CASE crashes' = crashes
    BY <2>1 DEF AgentInv
  <2>2. CASE MoveFails(h)
    <3>1. /\ crashes \in 0 .. world.crashes /\ world.crashes \in Nat
          /\ crashes < world.crashes /\ crashes' = crashes + 1
      BY <2>2, NoticeAssumption DEF AgentInv, MoveFails
    <3> QED  BY <3>1
  <2> QED  BY <1>4, <2>1, <2>2
<1>6. AgentInv'
  BY <1>1, <1>2, <1>5 DEF AgentInv, GoesOnAs
<1>7. TreeInv'
  BY TreeKept
<1>8. Numbered'
  BY <1>1 DEF Numbered, OutputOf
<1>9. EndedOnce'
  BY <1>1, <1>2, EndedStill
<1>10. PageInv' /\ SizeInv'
  BY SizeGoes
<1>11. ASSUME NEW s, NEW o PROVE Single(s, o)'
  <2>1. Single(s, o)
    OBVIOUS
  <2> QED  BY <2>1, SingleOnPage, SingleOffPage
<1> QED  BY <1>3, <1>6, <1>7, <1>8, <1>9, <1>10, <1>11

(* The agents, the directories and the pages stay as they are. *)
LEMMA RestKept ==
    ASSUME NoticeInv, UNCHANGED <<world, turn, observed, treeVars, detailVars>>
    PROVE  /\ TreeInv' /\ Numbered' /\ PageInv' /\ Pages' = Pages
           /\ \A s, o : /\ DirsWith(s, o)' = DirsWith(s, o)
                        /\ PagesWith(s, o)' = PagesWith(s, o)
<1>1. TreeInv'
  BY DEF NoticeInv, TreeInv, treeVars
<1>2. Numbered'
  BY DEF NoticeInv, Numbered, OutputOf
<1>3. PageInv' /\ Pages' = Pages
  BY PagesSame DEF NoticeInv
<1>4. \A s, o : DirsWith(s, o)' = DirsWith(s, o) /\ PagesWith(s, o)' = PagesWith(s, o)
  BY DirsWithSame, PagesWithSame DEF treeVars, detailVars
<1> QED  BY <1>1, <1>2, <1>3, <1>4

(* A hook dies. *)
LEMMA CrashKeeps ==
    ASSUME NoticeInv, NEW h \in Hooks, Crash(h)
    PROVE  NoticeInv'
<1> USE DEF NoticeInv
<1>1. UNCHANGED <<world, turn, observed, treeVars, detailVars, clock>> /\ crashes' = crashes + 1
  BY DEF Crash
<1>2. GoesOnAs(h, NoWork) /\ ~Gaining(h, NoWork)
  BY CrashOn
<1>3. HookInv' /\ hook'[h] = NoWork /\ \A g \in Hooks : g # h => hook'[g] = hook[g]
  BY <1>2, HooksTyped DEF GoesOnAs
<1>4. crashes' \in 0 .. world.crashes /\ crashes' \in Nat
  <2>1. crashes \in 0 .. world.crashes /\ world.crashes \in Nat /\ crashes < world.crashes
    BY NoticeAssumption DEF AgentInv, Crash
  <2> QED  BY <1>1, <2>1
<1>5. AgentInv'
  BY <1>1, <1>2, <1>4 DEF AgentInv, GoesOnAs
<1>6. /\ TreeInv' /\ Numbered' /\ PageInv' /\ Pages' = Pages
      /\ \A s, o : DirsWith(s, o)' = DirsWith(s, o) /\ PagesWith(s, o)' = PagesWith(s, o)
  BY <1>1, RestKept
<1>7. EndedOnce'
  BY <1>1, <1>2, EndedStill
<1>8. SizeInv'
  <2>1. NoWork.at # "move"
    BY IdleTyped
  <2>2. CASE hook[h].at = "move"
    <3>1. NoneMore
      <4>1. Pages \in Nat
        BY PagesAreIds DEF PageInv, Pages
      <4> QED  BY <1>6, <4>1 DEF NoneMore
    <3> QED  BY <1>1, <1>3, <1>4, <1>6, <2>1, <2>2, <3>1, SizeDone
  <2>3. CASE hook[h].at # "move"
    <3>1. \A g \in Hooks : hook[g].at = "move" \/ hook'[g].at = "move" => hook'[g] = hook[g]
      BY <1>3, <2>1, <2>3
    <3>2. oldDetails' = oldDetails
      BY <1>1 DEF detailVars
    <3> QED  BY <1>1, <1>6, <3>1, <3>2, SizeLater
  <2> QED  BY <2>2, <2>3
<1>9. ASSUME NEW s, NEW o PROVE Single(s, o)'
  <2>1. /\ Single(s, o) /\ DirsWith(s, o)' = DirsWith(s, o)
        /\ PagesWith(s, o)' \subseteq PagesWith(s, o)
    BY <1>6
  <2>2. ~Carries(NoWork)
    BY IdleTyped
  <2>3. /\ DirsWith(s, o)' \subseteq DirsWith(s, o) \cup {DetailLock}
        /\ DetailLock \in DirsWith(s, o)' => DetailLock \in DirsWith(s, o)
    BY <2>1
  <2> QED  BY <1>1, <1>2, <2>1, <2>2, <2>3, SingleKept
<1> QED  BY <1>3, <1>5, <1>6, <1>7, <1>8, <1>9

(* A hook that did nothing starts on something, and nothing else happens. *)
LEMMA StartKeeps ==
    ASSUME NoticeInv, NEW h \in Hooks, NEW r, hook' = [hook EXCEPT ![h] = r], Typed(r),
           hook[h].task = "none", r.at # "move",
           UNCHANGED <<world, treeVars, otherVars>>, AgentInv', Numbered', EndedOnce',
           \A s \in Sessions : observed[s] \subseteq observed'[s],
           \A s, o : Has(r, s, o) => s \in Sessions /\ o \notin observed[s] /\ o \in observed'[s]
    PROVE  NoticeInv'
<1> USE DEF NoticeInv
<1>1. HookInv' /\ hook'[h] = r /\ \A g \in Hooks : g # h => hook'[g] = hook[g]
  BY HooksTyped
<1>2. UNCHANGED <<crashes, detailVars>> /\ oldDetails' = oldDetails
  BY DEF otherVars, detailVars
<1>3. TreeInv'
  BY DEF TreeInv, treeVars
<1>4. PageInv' /\ Pages' = Pages
  BY <1>2, PagesSame
<1>5. SizeInv'
  <2>1. hook[h].at # "move"
    BY StageTask DEF HookInv
  <2>2. \A g \in Hooks : hook[g].at = "move" \/ hook'[g].at = "move" => hook'[g] = hook[g]
    BY <1>1, <2>1
  <2> QED  BY <1>2, <1>4, <2>2, SizeSame
<1>6. ASSUME NEW s, NEW o PROVE Single(s, o)'
  <2>1. DirsWith(s, o)' = DirsWith(s, o) /\ PagesWith(s, o)' = PagesWith(s, o)
    BY <1>2, DirsWithSame, PagesWithSame DEF treeVars, detailVars
  <2> QED  BY <2>1, SingleFresh
<1> QED  BY <1>1, <1>3, <1>4, <1>5, <1>6

(* An agent submits a prompt: no output of that turn was observed. *)
LEMMA PromptKeeps ==
    ASSUME NoticeInv, NEW h \in Hooks, NEW s \in Sessions, SubmitPrompt(h, s)
    PROVE  NoticeInv'
<1> USE DEF NoticeInv
<1>1. PICK r : /\ hook' = [hook EXCEPT ![h] = r] /\ Typed(r) /\ ~Carries(r) /\ r.at = "lock"
               /\ hook[h].task = "none" /\ AgentInv'
  BY Submitted
<1>2. /\ turn' = [turn EXCEPT ![s] = turn[s] + 1] /\ busy' = busy \cup {s}
      /\ UNCHANGED <<world, observed, treeVars, otherVars>>
  BY DEF SubmitPrompt
<1>3. turn \in [Sessions -> 0 .. MaxTurns] /\ MaxTurns \in Nat
  BY NoticeAssumption DEF AgentInv
<1>4. turn'[s] = turn[s] + 1 /\ \A q \in Sessions : q # s => turn'[q] = turn[q]
  BY <1>2, <1>3
<1>5. \A q \in Sessions : turn[q] \in Nat /\ turn'[q] \in Nat /\ turn[q] <= turn'[q]
  <2>1. ASSUME NEW q \in Sessions PROVE turn[q] \in Nat /\ turn'[q] \in Nat /\ turn[q] <= turn'[q]
    <3>1. turn[q] \in Nat
      BY <1>3
    <3> QED  BY <1>4, <3>1
  <2> QED  BY <2>1
<1>6. \A q \in Sessions : \A o \in observed[q] : o[1] \in Nat /\ o[1] <= turn[q] /\ o[1] <= turn'[q]
  <2>1. ASSUME NEW q \in Sessions, NEW o \in observed[q]
        PROVE  o[1] \in Nat /\ o[1] <= turn[q] /\ o[1] <= turn'[q]
    <3>1. o[1] \in Nat /\ o[1] <= turn[q]
      BY DEF Numbered
    <3> QED  BY <1>5, <3>1
  <2> QED  BY <2>1
<1>7. Numbered'
  <2>1. \A q \in Sessions : \A n : OutputOf(q, n)' = OutputOf(q, n)
    BY <1>2 DEF OutputOf
  <2> QED  BY <1>2, <1>6, <2>1 DEF Numbered
<1>8. EndedOnce'
  <2>1. /\ hook'[h] = r /\ \A g \in Hooks : g # h => hook'[g] = hook[g]
    BY <1>1, HooksTyped
  <2>2. SUFFICES ASSUME world.agent = "codex", NEW q \in busy', <<turn'[q], 1>> \in observed[q]
                 PROVE  \E g \in Hooks : /\ hook'[g].session = q /\ hook'[g].turn = turn'[q]
                                         /\ hook'[g].task \in {"consume", "save"}
    BY <1>2 DEF EndedOnce
  <2>3. q # s
    <3>1. SUFFICES ASSUME q = s PROVE FALSE
      OBVIOUS
    <3>2. <<turn[s] + 1, 1>> \in observed[s]
      BY <1>4, <2>2, <3>1
    <3>3. turn[s] + 1 <= turn[s] /\ turn[s] \in Nat
      BY <1>5, <1>6, <3>2
    <3> QED  BY <3>3
  <2>4. q \in busy /\ <<turn[q], 1>> \in observed[q] /\ turn'[q] = turn[q]
    BY <1>1, <1>2, <1>4, <2>2, <2>3 DEF AgentInv
  <2>5. PICK g \in Hooks : /\ hook[g].session = q /\ hook[g].turn = turn[q]
                          /\ hook[g].task \in {"consume", "save"}
    BY <2>2, <2>4 DEF EndedOnce
  <2> QED  BY <1>1, <2>1, <2>4, <2>5
<1>9. \A q, o : ~Has(r, q, o)
  BY <1>1 DEF Has
<1>10. \A q \in Sessions : observed[q] \subseteq observed'[q]
  BY <1>2
<1>11. r.at # "move"
  BY <1>1
<1> QED  BY <1>1, <1>2, <1>7, <1>8, <1>9, <1>10, <1>11, StartKeeps

(* A hook of a tool has an output that nobody observed before. *)
LEMMA ToolKeeps ==
    ASSUME NoticeInv, NEW h \in Hooks, NEW s \in Sessions, UseTool(h, s)
    PROVE  NoticeInv'
<1> USE DEF NoticeInv
<1>1. PICK r, o : /\ hook' = [hook EXCEPT ![h] = r] /\ Typed(r) /\ r.at = "record"
                  /\ hook[h].task = "none"
                  /\ r.session = s /\ r.output = {o} /\ o \notin observed[s]
                  /\ o \in observed'[s] /\ \A q \in Sessions : observed[q] \subseteq observed'[q]
                  /\ AgentInv' /\ Numbered' /\ EndedOnce'
  BY ToolUsed
<1>2. UNCHANGED <<world, treeVars, otherVars>>
  BY DEF UseTool
<1>3. \A q, x : Has(r, q, x) => q \in Sessions /\ x \notin observed[q] /\ x \in observed'[q]
  BY <1>1 DEF Has
<1> QED  BY <1>1, <1>2, <1>3, StartKeeps

(* A hook of the end of a turn has at most what nobody observed before. *)
LEMMA StopKeeps ==
    ASSUME NoticeInv, NEW h \in Hooks, NEW s \in Sessions, StopTurn(h, s)
    PROVE  NoticeInv'
<1> USE DEF NoticeInv
<1>1. PICK r : /\ hook' = [hook EXCEPT ![h] = r] /\ Typed(r) /\ r.at = "claim"
               /\ hook[h].task = "none" /\ r.session = s
               /\ \/ r.output = {}
                  \/ \E o : r.output = {o} /\ o \notin observed[s] /\ o \in observed'[s]
               /\ \A q \in Sessions : observed[q] \subseteq observed'[q]
               /\ AgentInv' /\ Numbered' /\ EndedOnce'
  BY TurnStopped
<1>2. UNCHANGED <<world, treeVars, otherVars>>
  BY DEF StopTurn
<1>3. \A q, x : Has(r, q, x) => q \in Sessions /\ x \notin observed[q] /\ x \in observed'[q]
  BY <1>1 DEF Has
<1> QED  BY <1>1, <1>2, <1>3, StartKeeps

(* A hook of a session has nothing. *)
LEMMA SweepKeeps ==
    ASSUME NoticeInv, NEW h \in Hooks, StartSweep(h)
    PROVE  NoticeInv'
<1> USE DEF NoticeInv
<1>1. PICK r : GoesOnAs(h, r) /\ ~Gaining(h, r) /\ r.at \notin {"move", "discard"}
  BY SweepOn
<1>2. UNCHANGED <<agentVars, treeVars, otherVars>> /\ hook[h].task = "none"
  BY IdleTyped DEF StartSweep, Started
<1>3. AgentInv' /\ Numbered'
  BY <1>2 DEF AgentInv, Numbered, OutputOf, agentVars, otherVars
<1>4. EndedOnce'
  BY <1>1, <1>2, EndedStill DEF agentVars
<1>5. \A q, x : ~Has(r, q, x)
  BY <1>1, <1>2 DEF Gaining, Has, Carries
<1>6. \A q \in Sessions : observed[q] \subseteq observed'[q]
  BY <1>2 DEF agentVars
<1> QED  BY <1>1, <1>2, <1>3, <1>4, <1>5, <1>6, StartKeeps DEF GoesOnAs, agentVars

(* The hooks and what is written stay as they are. *)
LEMMA OthersKeep ==
    ASSUME NoticeInv,
           \/ \E s \in Sessions : Interrupt(s)
           \/ \E p \in deadLocks : LockExpires(p)
           \/ Tick
           \/ UNCHANGED vars
    PROVE  NoticeInv'
<1> USE DEF NoticeInv
<1>1. UNCHANGED <<world, turn, observed, treeVars, hook, crashes, detailVars>>
      /\ busy' \subseteq busy
  BY DEF Interrupt, LockExpires, Tick, vars, agentVars, otherVars
<1>2. clock' = clock \/ (clock < world.time /\ clock' = clock + 1)
  BY DEF Interrupt, LockExpires, Tick, vars, otherVars
<1>3. clock' \in 0 .. world.time
  <2>1. clock \in 0 .. world.time /\ world.time \in Nat
    BY NoticeAssumption DEF AgentInv
  <2> QED  BY <1>2, <2>1
<1>4. AgentInv'
  BY <1>1, <1>3 DEF AgentInv
<1>5. /\ TreeInv' /\ Numbered' /\ PageInv' /\ Pages' = Pages
      /\ \A s, o : DirsWith(s, o)' = DirsWith(s, o) /\ PagesWith(s, o)' = PagesWith(s, o)
  BY <1>1, RestKept
<1>6. EndedOnce'
  BY <1>1 DEF EndedOnce
<1>7. SizeInv'
  BY <1>1, <1>5, SizeSame DEF detailVars
<1>8. HookInv'
  BY <1>1 DEF HookInv
<1>9. ASSUME NEW s, NEW o PROVE Single(s, o)'
  <2>1. HooksWith(s, o)' = HooksWith(s, o) /\ \A g : hook'[g] = hook[g] /\ Claim(g)' = Claim(g)
    <3>1. \A g : Claim(g)' = Claim(g)
      BY <1>1, ClaimSame
    <3> QED  BY <1>1, <3>1 DEF HooksWith
  <2>2. Single(s, o)
    OBVIOUS
  <2> QED  BY <1>1, <1>5, <2>1, <2>2 DEF Single
<1> QED  BY <1>4, <1>5, <1>6, <1>7, <1>8, <1>9

(* At first nothing is shown nor carried, and the pages that are left are     *)
(* within the limit.                                                       *)
LEMMA NoticeStarts ==
    ASSUME Init
    PROVE  NoticeInv
<1>1. /\ world \in Worlds /\ turn = [s \in Sessions |-> 0] /\ busy = {}
      /\ observed = [s \in Sessions |-> {}] /\ clock = 0 /\ crashes = 0
      /\ hook = [h \in Hooks |-> NoWork] /\ detailCursor = 0 /\ lastWrites = details
  BY DEF Init
<1>2. /\ world.left \subseteq Path /\ world.old \subseteq Prompts /\ world.kept \in Seq(Prompts)
      /\ IsInjective(world.kept) /\ Len(world.kept) <= MaxDetails /\ MaxDetails \in Nat
      /\ world.crashes \in Nat /\ world.time \in Nat /\ MaxTurns \in Nat
      /\ ToSet(world.kept) \subseteq Prompts
  BY <1>1, NoticeAssumption, DetailAssumption DEF Path, NoHook
<1>3. AgentInv
  <2>1. 0 \in 0 .. MaxTurns /\ 0 \in 0 .. world.time /\ 0 \in 0 .. world.crashes
    BY <1>2
  <2> QED  BY <1>1, <2>1 DEF AgentInv
<1>4. TreeInv
  <2>1. /\ dirs = [p \in world.left |-> [written |-> TRUE, since |-> 0, output |-> {}]]
        /\ sessionDirs = {p.session : p \in world.left} /\ agentDir = (world.left # {})
    BY DEF Init
  <2>2. DOMAIN dirs = world.left
    BY <2>1
  <2>3. ASSUME NEW p \in DOMAIN dirs
        PROVE  /\ DOMAIN dirs[p] = {"written", "since", "output"}
               /\ dirs[p].output \in SUBSET (Nat \X Nat) /\ p.session \in sessionDirs
    <3>1. dirs[p] = [written |-> TRUE, since |-> 0, output |-> {}]
      BY <2>1, <2>2
    <3>2. p.session \in sessionDirs
      BY <2>1, <2>2
    <3> QED  BY <3>1, <3>2
  <2>4. sessionDirs \subseteq Sessions
    BY <1>2, <2>1 DEF Path
  <2>5. agentDir \in BOOLEAN /\ (sessionDirs # {} => agentDir)
    BY <2>1, Zenon
  <2> QED  BY <1>2, <2>2, <2>3, <2>4, <2>5 DEF TreeInv
<1>5. Numbered /\ EndedOnce
  BY <1>1, FS_EmptySet DEF Numbered, EndedOnce
<1>6. HookInv
  BY <1>1, IdleTyped DEF HookInv
<1>7. PICK left : left = [i \in Prompts |-> [NewDetail(i, 0) EXCEPT !.context = TRUE]]
  OBVIOUS
<1>8. \A i \in Prompts : left[i] \in Detail /\ left[i].id = i /\ left[i].output = {}
  <2>1. ASSUME NEW i \in Prompts
        PROVE  left[i] \in Detail /\ left[i].id = i /\ left[i].output = {}
    <3>1. PICK d : d = NewDetail(i, 0)
      OBVIOUS
    <3>2. left[i] = [d EXCEPT !.context = TRUE]
      BY <1>7, <3>1
    <3>3. d = [id |-> i, since |-> 0, context |-> FALSE, output |-> {}]
      BY <3>1 DEF NewDetail
    <3>4. left[i] = [id |-> i, since |-> 0, context |-> TRUE, output |-> {}]
      BY <3>2, <3>3
    <3>5. TRUE \in BOOLEAN /\ {} \in SUBSET (Nat \X Nat)
      OBVIOUS
    <3> QED  BY <3>4, <3>5 DEF Detail
  <2> QED  BY <2>1
<1>9. PICK n \in Nat : n = Len(world.kept) /\ DOMAIN world.kept = 1 .. n
  BY <1>2
<1>10. /\ details = [i \in 1 .. n |-> left[world.kept[i]]]
       /\ oldDetails = {left[i] : i \in world.old}
  <2>1. \A i \in 1 .. n : world.kept[i] \in Prompts
    BY <1>2, <1>9
  <2>2. /\ details =
            [i \in DOMAIN world.kept |-> [NewDetail(world.kept[i], 0) EXCEPT !.context = TRUE]]
        /\ oldDetails = {[NewDetail(i, 0) EXCEPT !.context = TRUE] : i \in world.old}
    BY DEF Init
  <2>3. \A i \in Prompts : left[i] = [NewDetail(i, 0) EXCEPT !.context = TRUE]
    BY <1>7
  <2>4. oldDetails = {left[i] : i \in world.old}
    BY <1>2, <2>2, <2>3
  <2>5. details = [i \in 1 .. n |-> left[world.kept[i]]]
    BY <1>9, <2>1, <2>2, <2>3
  <2> QED  BY <2>4, <2>5
<1>11. /\ details \in Seq(Detail) /\ DOMAIN details = 1 .. n /\ Len(details) = n
       /\ \A i \in 1 .. n : details[i].id = world.kept[i] /\ details[i].output = {}
  <2>1. \A i \in 1 .. n : world.kept[i] \in Prompts
    BY <1>2, <1>9
  <2> QED  BY <1>8, <1>10, <2>1
<1>12. UniqueIds(details)
  <2>1. \A i, j \in DOMAIN world.kept : world.kept[i] = world.kept[j] => i = j
    BY <1>2 DEF IsInjective
  <2> QED  BY <1>9, <1>11, <2>1 DEF UniqueIds
<1>13. PageInv
  <2>1. oldDetails \subseteq Detail /\ \A d \in oldDetails : d.output = {} /\ d.id \in world.old
    BY <1>2, <1>8, <1>10
  <2> QED  BY <1>1, <1>11, <1>12, <2>1 DEF PageInv
<1>14. SizeInv
  <2>1. Pages <= MaxDetails /\ Pages \in Nat
    BY <1>2, <1>9, <1>11, <1>12, PagesAreIds DEF Pages
  <2>2. MaxDetails <= Bound(crashes) /\ MaxDetails <= Bound(crashes + 1)
        /\ Bound(crashes) \in Nat /\ Bound(crashes + 1) \in Nat
    <3>1. 0 \in Nat /\ 0 + 1 \in Nat
      OBVIOUS
    <3> QED  BY <1>1, <3>1, BoundGrows
  <2>3. Pages <= Bound(crashes) /\ Pages <= Bound(crashes + 1)
    BY <1>2, <2>1, <2>2
  <2>4. \A h \in Hooks : ~Moving(h)
    BY <1>1, IdleTyped DEF Moving
  <2> QED  BY <2>3, <2>4 DEF SizeInv
<1>15. ASSUME NEW s, NEW o PROVE Single(s, o)
  <2>1. HooksWith(s, o) = {}
    BY <1>1, IdleTyped DEF HooksWith, Has
  <2>2. DirsWith(s, o) = {}
    BY DEF DirsWith, Init
  <2>3. PagesWith(s, o) = {}
    BY <1>1, <1>11 DEF PagesWith, ToSet
  <2> QED  BY <2>1, <2>2, <2>3 DEF Single
<1> QED  BY <1>3, <1>4, <1>5, <1>6, <1>13, <1>14, <1>15 DEF NoticeInv

(* The invariant, for any sessions, hooks, worlds and limits. *)
THEOREM NoticesSafe == Spec => []NoticeInv
<1>1. NoticeInv /\ [Next]_vars => NoticeInv'
  BY HookKeeps, CrashKeeps, PromptKeeps, ToolKeeps, StopKeeps, SweepKeeps, OthersKeep DEF Next
<1> QED  BY <1>1, NoticeStarts, PTL DEF Spec

-----------------------------------------------------------------------------
(* Every variable has its type, a directory has its parents, and there are   *)
(* no more pages than the limit and those of the layout before, once for      *)
(* every clean-up that may have moved them.                                 *)
THEOREM NoticesTyped == Spec => []TypeOK
<1>1. NoticeInv => TypeOK
  <2>1. SUFFICES ASSUME NoticeInv PROVE TypeOK
    OBVIOUS
  <2>2. \A h \in Hooks : hook[h].task \in Tasks
    BY <2>1 DEF NoticeInv, HookInv, Typed
  <2>3. \A p \in DOMAIN dirs : p.session \in sessionDirs /\ p.claim \in Hooks \cup {NoHook}
    BY <2>1 DEF NoticeInv, TreeInv, Path
  <2>4. DetailsTypeOK
    BY <2>1 DEF NoticeInv, PageInv, DetailsTypeOK, UniqueIds
  <2>5. Len(details) <= MaxDetails + (crashes + 1) * Cardinality(world.old)
    BY <2>1, PagesAreIds DEF NoticeInv, PageInv, SizeInv, Pages, Bound
  <2> QED  BY <2>1, <2>2, <2>3, <2>4, <2>5 DEF NoticeInv, AgentInv, TreeInv, TypeOK
<1> QED  BY <1>1, NoticesSafe, PTL

(* No output is shown twice, whichever hooks consume it and whichever die. *)
THEOREM OutputShownOnce == Spec => []ShownOnce
<1>1. NoticeInv => ShownOnce
  <2>1. SUFFICES ASSUME NoticeInv, NEW c \in ToSet(lastWrites), NEW d \in ToSet(lastWrites),
                        c.id[1] = d.id[1], c.output \cap d.output # {}
                 PROVE  c = d
    BY DEF ShownOnce
  <2>2. PICK o : o \in c.output /\ o \in d.output
    BY <2>1
  <2>3. c \in Detail /\ d \in Detail
    BY <2>1 DEF NoticeInv, PageInv, ToSet
  <2>4. PICK s : s = c.id[1]
    OBVIOUS
  <2>5. c.id \in PagesWith(s, o) /\ d.id \in PagesWith(s, o)
    BY <2>1, <2>2, <2>3, <2>4 DEF PagesWith, Detail
  <2>6. c.id = d.id
    BY <2>1, <2>5 DEF NoticeInv, Single
  <2> QED  BY <2>1, <2>6 DEF NoticeInv, PageInv, UniqueIds, ToSet
<1> QED  BY <1>1, NoticesSafe, PTL

-----------------------------------------------------------------------------
(* The order of the pages *)

(* One page comes before another. *)
OlderIn(files, c, d) ==
    \E i \in DOMAIN files : \E j \in DOMAIN files : i < j /\ files[i] = c /\ files[j] = d

(* The names of those that come after it *)
Newer(files, c) == {d.id : d \in {e \in ToSet(files) : OlderIn(files, c, e)}}

(* What is appended comes after everything. *)
LEMMA OlderAppend ==
    ASSUME NEW V, NEW s \in Seq(V), NEW x \in V, NEW c, NEW d
    PROVE  OlderIn(Append(s, x), c, d) <=> OlderIn(s, c, d) \/ (c \in ToSet(s) /\ d = x)
<1>1. PICK n \in Nat : n = Len(s)
  OBVIOUS
<1>2. PICK t : t = Append(s, x)
  OBVIOUS
<1>3. /\ DOMAIN t = 1 .. n + 1 /\ DOMAIN s = 1 .. n /\ t[n + 1] = x
      /\ \A i \in 1 .. n : t[i] = s[i]
  BY <1>1, <1>2
<1>4. ASSUME OlderIn(t, c, d)
      PROVE  OlderIn(s, c, d) \/ (c \in ToSet(s) /\ d = x)
  <2>1. PICK i \in 1 .. n + 1, j \in 1 .. n + 1 : i < j /\ t[i] = c /\ t[j] = d
    BY <1>3, <1>4 DEF OlderIn
  <2>2. i \in 1 .. n /\ s[i] = c
    BY <1>3, <2>1
  <2>3. CASE j = n + 1
    BY <1>3, <2>1, <2>2, <2>3 DEF ToSet
  <2>4. CASE j # n + 1
    <3>1. j \in 1 .. n /\ s[j] = d
      BY <1>3, <2>1, <2>4
    <3> QED  BY <1>3, <2>1, <2>2, <3>1 DEF OlderIn
  <2> QED  BY <2>3, <2>4
<1>5. ASSUME OlderIn(s, c, d)
      PROVE  OlderIn(t, c, d)
  <2>1. PICK i \in 1 .. n, j \in 1 .. n : i < j /\ s[i] = c /\ s[j] = d
    BY <1>3, <1>5 DEF OlderIn
  <2>2. i \in 1 .. n + 1 /\ j \in 1 .. n + 1 /\ t[i] = c /\ t[j] = d
    BY <1>3, <2>1
  <2> QED  BY <1>3, <2>1, <2>2 DEF OlderIn
<1>6. ASSUME c \in ToSet(s), d = x
      PROVE  OlderIn(t, c, d)
  <2>1. PICK i \in 1 .. n : s[i] = c
    BY <1>3, <1>6 DEF ToSet
  <2>2. i \in 1 .. n + 1 /\ n + 1 \in 1 .. n + 1 /\ i < n + 1 /\ t[i] = c /\ t[n + 1] = d
    BY <1>3, <1>6, <2>1
  <2> QED  BY <1>3, <2>2 DEF OlderIn
<1> QED  BY <1>2, <1>4, <1>5, <1>6

(* What is kept stays in its order. *)
LEMMA OlderKeeping ==
    ASSUME NEW V, NEW s \in Seq(V), NEW T, NEW c, NEW d
    PROVE  OlderIn(Keeping(s, T), c, d) <=> c \in T /\ d \in T /\ OlderIn(s, c, d)
<1> DEFINE C == {t \in Seq(V) : OlderIn(Keeping(t, T), c, d) <=> c \in T /\ d \in T /\ OlderIn(t, c, d)}
<1>1. << >> \in C
  <2>1. PICK e : e = << >>
    OBVIOUS
  <2>2. Keeping(e, T) = e /\ e \in Seq(V) /\ DOMAIN e = {}
    BY <2>1, KeepEmpty
  <2>3. ~OlderIn(e, c, d)
    BY <2>2 DEF OlderIn
  <2>4. e \in C
    BY <2>2, <2>3
  <2> QED  BY <2>1, <2>4
<1>2. ASSUME NEW t \in Seq(V), NEW x \in V, t \in C
      PROVE  Append(t, x) \in C
  <2>1. PICK k : k = Keeping(t, T)
    OBVIOUS
  <2>2. Keeping(Append(t, x), T) = IF x \in T THEN Append(k, x) ELSE k
    BY <2>1, KeepAppend
  <2>3. k \in Seq(V \cap T) /\ ToSet(k) = ToSet(t) \cap T
    BY <2>1, KeepSet
  <2>4. V \cap T \subseteq V
    OBVIOUS
  <2>5. k \in Seq(V)
    BY <2>3, <2>4
  <2>6. OlderIn(k, c, d) <=> c \in T /\ d \in T /\ OlderIn(t, c, d)
    BY <1>2, <2>1
  <2>7. OlderIn(Append(t, x), c, d) <=> OlderIn(t, c, d) \/ (c \in ToSet(t) /\ d = x)
    BY OlderAppend
  <2>8. OlderIn(Append(k, x), c, d) <=> OlderIn(k, c, d) \/ (c \in ToSet(k) /\ d = x)
    BY <2>5, OlderAppend
  <2>9. Append(t, x) \in Seq(V)
    OBVIOUS
  <2>10. OlderIn(Keeping(Append(t, x), T), c, d)
            <=> c \in T /\ d \in T /\ OlderIn(Append(t, x), c, d)
    <3>1. CASE x \in T
      BY <2>2, <2>3, <2>6, <2>7, <2>8, <3>1
    <3>2. CASE x \notin T
      BY <2>2, <2>6, <2>7, <3>2
    <3> QED  BY <3>1, <3>2
  <2> QED  BY <2>9, <2>10
<1>3. Seq(V) \subseteq C
  <2> HIDE DEF C
  <2> QED  BY <1>1, <1>2, SeqInduction
<1> QED  BY <1>3

(* Of dropped pages none is before another. *)
LEMMA OlderDropping ==
    ASSUME NEW files \in Seq(Detail), NEW ids, NEW c, NEW d
    PROVE  OlderIn(Dropping(files, ids), c, d)
            <=> c.id \notin ids /\ d.id \notin ids /\ OlderIn(files, c, d)
<1>1. PICK T : T = {e \in Detail : e.id \notin ids}
  OBVIOUS
<1>2. OlderIn(Dropping(files, ids), c, d) <=> c \in T /\ d \in T /\ OlderIn(files, c, d)
  BY <1>1, OlderKeeping DEF Dropping
<1>3. OlderIn(files, c, d) => c \in Detail /\ d \in Detail
  BY DEF OlderIn
<1> QED  BY <1>1, <1>2, <1>3

(* A page that is written again comes after the others. *)
LEMMA OlderRenewed ==
    ASSUME NEW files \in Seq(Detail), NEW e \in Detail, NEW c, NEW d
    PROVE  OlderIn(Renewed(files, e), c, d)
            <=> \/ c.id # e.id /\ d.id # e.id /\ OlderIn(files, c, d)
                \/ c.id # e.id /\ c \in ToSet(files) /\ d = e
<1>1. PICK k : k = Dropping(files, {e.id})
  OBVIOUS
<1>2. k \in Seq(Detail) /\ ToSet(k) = {x \in ToSet(files) : x.id \notin {e.id}}
  BY <1>1, DroppingSet
<1>3. OlderIn(k, c, d) <=> c.id \notin {e.id} /\ d.id \notin {e.id} /\ OlderIn(files, c, d)
  BY <1>1, OlderDropping
<1>4. OlderIn(Append(k, e), c, d) <=> OlderIn(k, c, d) \/ (c \in ToSet(k) /\ d = e)
  BY <1>2, OlderAppend
<1> QED  BY <1>1, <1>2, <1>3, <1>4 DEF Renewed

(* Which pages are newer are finitely many, and there is one for each place.  *)
LEMMA NewerFinite ==
    ASSUME NEW files \in Seq(Detail), NEW c
    PROVE  /\ IsFiniteSet(Newer(files, c)) /\ Newer(files, c) \subseteq IdsOf(files)
           /\ Cardinality(Newer(files, c)) \in Nat
<1>1. Newer(files, c) \subseteq IdsOf(files)
  BY DEF Newer, IdsOf
<1>2. IsFiniteSet(IdsOf(files))
  BY PagesAreIds
<1> QED  BY <1>1, <1>2, FS_Subset, FS_CardinalityType

(* A page is followed by at most those at the places behind it. *)
LEMMA NewerPlaces ==
    ASSUME NEW files \in Seq(Detail), UniqueIds(files), NEW i \in DOMAIN files
    PROVE  Cardinality(Newer(files, files[i])) <= Len(files) - i
<1>1. PICK n \in Nat : n = Len(files) /\ DOMAIN files = 1 .. n
  OBVIOUS
<1>2. PICK f : f = [j \in i + 1 .. n |-> files[j].id]
  OBVIOUS
<1>3. i \in 1 .. n /\ \A j \in i + 1 .. n : j \in 1 .. n
  BY <1>1
<1>4. Newer(files, files[i]) \subseteq {f[j] : j \in i + 1 .. n}
  <2>1. SUFFICES ASSUME NEW id \in Newer(files, files[i])
                 PROVE  id \in {f[j] : j \in i + 1 .. n}
    OBVIOUS
  <2>2. PICK e \in ToSet(files) : OlderIn(files, files[i], e) /\ id = e.id
    BY <2>1 DEF Newer
  <2>3. PICK k \in 1 .. n, j \in 1 .. n : k < j /\ files[k] = files[i] /\ files[j] = e
    BY <1>1, <2>2 DEF OlderIn
  <2>4. k = i
    BY <1>1, <1>3, <2>3 DEF UniqueIds
  <2>5. j \in i + 1 .. n
    BY <1>3, <2>3, <2>4
  <2> QED  BY <1>2, <2>2, <2>3, <2>5
<1>5. PICK S : S = {f[j] : j \in i + 1 .. n}
  OBVIOUS
<1>6. f \in Surjection(i + 1 .. n, S)
  BY <1>2, <1>5 DEF Surjection
<1>7. i + 1 \in Int /\ n \in Int
  BY <1>1, <1>3
<1>8. IsFiniteSet(i + 1 .. n) /\ Cardinality(i + 1 .. n) = n - i
  <2>1. IsFiniteSet(i + 1 .. n)
        /\ Cardinality(i + 1 .. n) = (IF i + 1 > n THEN 0 ELSE n - (i + 1) + 1)
    BY <1>7, FS_Interval
  <2>2. i + 1 > n => n - i = 0
    BY <1>3
  <2>3. n - (i + 1) + 1 = n - i
    BY <1>3
  <2> QED  BY <2>1, <2>2, <2>3
<1>9. IsFiniteSet(S) /\ Cardinality(S) <= n - i
  BY <1>6, <1>8, FS_Surjection
<1>10. Cardinality(Newer(files, files[i])) <= Cardinality(S)
  BY <1>4, <1>5, <1>9, FS_Subset
<1>11. Cardinality(S) \in Nat /\ Cardinality(Newer(files, files[i])) \in Nat
  BY <1>9, FS_CardinalityType, NewerFinite
<1> QED  BY <1>1, <1>3, <1>9, <1>10, <1>11

(* Of names that are seen, one of the n oldest has all but n of them behind  *)
(* it.                                                                     *)
LEMMA OldestBefore ==
    ASSUME NEW files \in Seq(Detail), UniqueIds(files), NEW seen, seen \subseteq IdsOf(files),
           NEW n \in Nat, n <= Cardinality(seen), NEW c \in ToSet(files),
           c.id \in Oldest(files, seen, n)
    PROVE  Cardinality(seen) - n <= Cardinality(Newer(files, c))
<1>1. PICK place : place = [id \in seen |-> CHOOSE i \in DOMAIN files : files[i].id = id]
  OBVIOUS
<1>2. PICK before : before = {q \in seen : place[q] < place[c.id]}
  OBVIOUS
<1>3. c.id \in seen /\ Cardinality(before) < n
  BY <1>1, <1>2 DEF Oldest
<1>4. \A id \in seen : place[id] \in DOMAIN files /\ files[place[id]].id = id
  <2>1. ASSUME NEW id \in seen
        PROVE  place[id] \in DOMAIN files /\ files[place[id]].id = id
    <3>1. \E i \in DOMAIN files : files[i].id = id
      BY DEF IdsOf, ToSet
    <3> QED  BY <1>1, <3>1
  <2> QED  BY <2>1
<1>5. DOMAIN files \subseteq Nat /\ \A i \in DOMAIN files : files[i] \in ToSet(files)
  BY DEF ToSet
<1>6. files[place[c.id]] = c
  <2>1. PICK i \in DOMAIN files : files[i] = c
    BY DEF ToSet
  <2>2. place[c.id] = i
    BY <1>3, <1>4, <2>1 DEF UniqueIds
  <2> QED  BY <2>1, <2>2
<1>7. seen \subseteq before \cup {c.id} \cup Newer(files, c)
  <2>1. SUFFICES ASSUME NEW q \in seen, q \notin before, q # c.id
                 PROVE  q \in Newer(files, c)
    OBVIOUS
  <2>2. /\ place[q] \in Nat /\ place[c.id] \in Nat
        /\ place[q] \in DOMAIN files /\ place[c.id] \in DOMAIN files
    BY <1>3, <1>4, <1>5, <2>1
  <2>3. place[q] # place[c.id]
    BY <1>3, <1>4, <2>1
  <2>4. place[c.id] < place[q]
    BY <1>2, <2>1, <2>2, <2>3
  <2>5. OlderIn(files, c, files[place[q]])
    BY <1>6, <2>2, <2>4 DEF OlderIn
  <2>6. files[place[q]] \in ToSet(files) /\ files[place[q]].id = q
    BY <1>4, <1>5, <2>1, <2>2
  <2> QED  BY <2>5, <2>6 DEF Newer
<1>8. IsFiniteSet(IdsOf(files))
  BY PagesAreIds
<1>9. IsFiniteSet(seen) /\ IsFiniteSet(before) /\ IsFiniteSet(Newer(files, c))
  BY <1>2, <1>8, FS_Subset, NewerFinite
<1>10. PICK b, m, k \in Nat :
        b = Cardinality(before) /\ m = Cardinality(Newer(files, c)) /\ k = Cardinality(seen)
  BY <1>9, FS_CardinalityType
<1>11. PICK B : B = before \cup {c.id}
  OBVIOUS
<1>12. /\ IsFiniteSet(B) /\ Cardinality(B) <= b + 1 /\ Cardinality(B) \in Nat
  <2>1. IsFiniteSet(B) /\ Cardinality(B) = IF c.id \in before THEN b ELSE b + 1
    BY <1>9, <1>10, <1>11, FS_AddElement
  <2> QED  BY <1>10, <2>1
<1>13. PICK N : N = Newer(files, c)
  OBVIOUS
<1>14. IsFiniteSet(B \cup N) /\ Cardinality(B \cup N) <= b + 1 + m
  <2>1. /\ IsFiniteSet(B \cup N) /\ IsFiniteSet(B \cap N)
        /\ Cardinality(B \cup N) = Cardinality(B) + Cardinality(N) - Cardinality(B \cap N)
    BY <1>9, <1>12, <1>13, FS_Union, FS_Intersection
  <2>2. Cardinality(B \cap N) \in Nat
    BY <2>1, FS_CardinalityType
  <2> QED  BY <1>10, <1>12, <1>13, <2>1, <2>2
<1>15. k <= Cardinality(B \cup N) /\ Cardinality(B \cup N) \in Nat
  <2>1. seen \subseteq B \cup N
    BY <1>7, <1>11, <1>13
  <2> QED  BY <1>10, <1>14, <2>1, FS_Subset, FS_CardinalityType
<1>16. b + 1 <= n
  BY <1>3, <1>10
<1> QED  BY <1>10, <1>14, <1>15, <1>16

(* A page that is trimmed away has MaxDetails pages after it, and the rest    *)
(* stays in its order.                                                     *)
LEMMA TrimmedOrder ==
    ASSUME NEW files \in Seq(Detail), UniqueIds(files), NEW left \in Trimmed(files)
    PROVE  /\ \A c, d : OlderIn(left, c, d) => OlderIn(files, c, d)
           /\ \A c \in ToSet(files) :
                c \in ToSet(left) \/ MaxDetails <= Cardinality(Newer(files, c))
<1> DEFINE n == MaxDetails + DetailRemovals + 1
<1>1. n \in Nat /\ MaxDetails \in Nat \ {0} /\ DetailRemovals \in Nat \ {0}
  BY DetailAssumption
<1>2. PICK seen \in Entries(files, n) :
        left = IF Cardinality(seen) - MaxDetails <= 0 THEN files
               ELSE Dropping(files, Oldest(files, seen,
                        Min({Cardinality(seen) - MaxDetails, DetailRemovals})))
  BY DEF Trimmed
<1>3. IsFiniteSet(IdsOf(files)) /\ Cardinality(IdsOf(files)) \in Nat
  BY PagesAreIds
<1>4. seen \subseteq IdsOf(files)
  <2>1. CASE Cardinality(IdsOf(files)) <= n
    BY <1>3, <2>1 DEF Entries
  <2>2. CASE ~(Cardinality(IdsOf(files)) <= n)
    BY <2>2 DEF Entries, kSubset
  <2> QED  BY <2>1, <2>2
<1>5. PICK k \in Nat : k = Cardinality(seen)
  <2>1. IsFiniteSet(seen)
    BY <1>3, <1>4, FS_Subset
  <2> QED  BY <2>1, FS_CardinalityType
<1>6. CASE k - MaxDetails <= 0
  <2>1. left = files
    BY <1>2, <1>5, <1>6
  <2> QED  BY <2>1
<1>7. CASE ~(k - MaxDetails <= 0)
  <2>1. PICK m : m = Min({k - MaxDetails, DetailRemovals})
    OBVIOUS
  <2>2. m \in Nat /\ m <= k - MaxDetails
    <3>1. k - MaxDetails \in Nat
      BY <1>1, <1>7
    <3>2. \E x \in {k - MaxDetails, DetailRemovals} :
            \A y \in {k - MaxDetails, DetailRemovals} : x <= y
      BY <1>1, <3>1
    <3>3. /\ m \in {k - MaxDetails, DetailRemovals}
          /\ \A y \in {k - MaxDetails, DetailRemovals} : m <= y
      BY <2>1, <3>2 DEF Min
    <3> QED  BY <1>1, <3>1, <3>3
  <2>3. PICK gone : gone = Oldest(files, seen, m)
    OBVIOUS
  <2>4. left = Dropping(files, gone)
    BY <1>2, <1>5, <1>7, <2>1, <2>3
  <2>5. ToSet(left) = {d \in ToSet(files) : d.id \notin gone}
    BY <2>4, DroppingSet
  <2>6. \A c, d : OlderIn(left, c, d) => OlderIn(files, c, d)
    BY <2>4, OlderDropping
  <2>7. ASSUME NEW c \in ToSet(files), c \notin ToSet(left)
        PROVE  MaxDetails <= Cardinality(Newer(files, c))
    <3>1. c.id \in gone
      BY <2>5, <2>7
    <3>2. m <= Cardinality(seen)
      BY <1>1, <1>5, <2>2
    <3>3. Cardinality(seen) - m <= Cardinality(Newer(files, c))
      BY <1>4, <2>2, <2>3, <3>1, <3>2, OldestBefore
    <3>4. Cardinality(Newer(files, c)) \in Nat
      BY NewerFinite
    <3> QED  BY <1>1, <1>5, <2>2, <3>3, <3>4
  <2> QED  BY <2>6, <2>7
<1> QED  BY <1>6, <1>7

(* The files there are, in the order of the last writes; a page that went had *)
(* expired, or enough others were written after it.                         *)
Stays(files, writes, now) ==
    /\ \A c, d : OlderIn(files, c, d) => OlderIn(writes, c, d)
    /\ \A c \in ToSet(writes) :
        c \in ToSet(files) \/ DetailExpired(c, now) \/ MaxDetails <= Cardinality(Newer(writes, c))

(* What has more after it has enough after it. *)
LEMMA NewerMore ==
    ASSUME NEW files \in Seq(Detail), NEW writes \in Seq(Detail), NEW c,
           Newer(files, c) \subseteq Newer(writes, c), MaxDetails <= Cardinality(Newer(files, c))
    PROVE  MaxDetails <= Cardinality(Newer(writes, c))
<1>1. Cardinality(Newer(files, c)) <= Cardinality(Newer(writes, c))
  BY NewerFinite, FS_Subset
<1>2. Cardinality(Newer(files, c)) \in Nat /\ Cardinality(Newer(writes, c)) \in Nat
  BY NewerFinite
<1> QED  BY <1>1, <1>2, DetailAssumption

(* Later more has expired. *)
LEMMA StaysLater ==
    ASSUME NEW files, NEW writes \in Seq(Detail), NEW now \in Nat, NEW later \in Nat, now <= later,
           Stays(files, writes, now)
    PROVE  Stays(files, writes, later)
<1>1. ASSUME NEW c \in ToSet(writes), DetailExpired(c, now)
      PROVE  DetailExpired(c, later)
  <2>1. c \in Detail
    BY DEF ToSet
  <2>2. c.since \in Nat /\ DetailTTL \in Nat
    BY <2>1, DetailAssumption DEF Detail
  <2> QED  BY <1>1, <2>2 DEF DetailExpired
<1> QED  BY <1>1 DEF Stays

(* A page is written. *)
LEMMA StaysRenewed ==
    ASSUME NEW files \in Seq(Detail), NEW writes \in Seq(Detail), NEW now, NEW d \in Detail,
           UniqueIds(files), UniqueIds(writes), ToSet(files) \subseteq ToSet(writes),
           Stays(files, writes, now)
    PROVE  Stays(Renewed(files, d), Renewed(writes, d), now)
<1>1. PICK f, w : f = Renewed(files, d) /\ w = Renewed(writes, d)
  OBVIOUS
<1>2. /\ f \in Seq(Detail) /\ ToSet(f) = {e \in ToSet(files) : e.id # d.id} \cup {d}
      /\ w \in Seq(Detail) /\ ToSet(w) = {e \in ToSet(writes) : e.id # d.id} \cup {d}
  BY <1>1, RenewedSet
<1>3. \A c, e : OlderIn(f, c, e) => OlderIn(w, c, e)
  BY <1>1, OlderRenewed DEF Stays
<1>4. ASSUME NEW c \in ToSet(writes), c.id # d.id
      PROVE  Newer(writes, c) \subseteq Newer(w, c)
  <2>1. SUFFICES ASSUME NEW e \in ToSet(writes), OlderIn(writes, c, e)
                 PROVE  e.id \in Newer(w, c)
    BY DEF Newer
  <2>2. CASE e.id = d.id
    <3>1. OlderIn(w, c, d) /\ d \in ToSet(w)
      BY <1>1, <1>2, <1>4, OlderRenewed
    <3> QED  BY <2>2, <3>1 DEF Newer
  <2>3. CASE e.id # d.id
    <3>1. OlderIn(w, c, e) /\ e \in ToSet(w)
      BY <1>1, <1>2, <1>4, <2>1, <2>3, OlderRenewed
    <3> QED  BY <3>1 DEF Newer
  <2> QED  BY <2>2, <2>3
<1>5. ASSUME NEW c \in ToSet(w)
      PROVE  c \in ToSet(f) \/ DetailExpired(c, now) \/ MaxDetails <= Cardinality(Newer(w, c))
  <2>1. CASE c = d
    BY <1>2, <2>1
  <2>2. CASE c # d
    <3>1. c \in ToSet(writes) /\ c.id # d.id
      BY <1>2, <2>2
    <3>2. CASE c \in ToSet(files)
      BY <1>2, <3>1, <3>2
    <3>3. CASE MaxDetails <= Cardinality(Newer(writes, c))
      BY <1>2, <1>4, <3>1, <3>3, NewerMore
    <3> QED  BY <3>1, <3>2, <3>3 DEF Stays
  <2> QED  BY <2>1, <2>2
<1> QED  BY <1>1, <1>3, <1>5 DEF Stays

(* There are too many pages. *)
LEMMA StaysTrimmed ==
    ASSUME NEW files \in Seq(Detail), NEW writes \in Seq(Detail), NEW now,
           UniqueIds(files), ToSet(files) \subseteq ToSet(writes),
           Stays(files, writes, now), NEW left \in Trimmed(files)
    PROVE  Stays(left, writes, now)
<1>1. /\ \A c, d : OlderIn(left, c, d) => OlderIn(files, c, d)
      /\ \A c \in ToSet(files) : c \in ToSet(left) \/ MaxDetails <= Cardinality(Newer(files, c))
  BY TrimmedOrder
<1>2. \A c : Newer(files, c) \subseteq Newer(writes, c)
  BY DEF Newer, Stays
<1>3. \A c \in ToSet(files) : c \in ToSet(left) \/ MaxDetails <= Cardinality(Newer(writes, c))
  BY <1>1, <1>2, NewerMore
<1> QED  BY <1>1, <1>3 DEF Stays

(* Expired pages are removed. *)
LEMMA StaysDropping ==
    ASSUME NEW files \in Seq(Detail), NEW writes \in Seq(Detail), NEW now, NEW ids,
           Stays(files, writes, now),
           \A c \in ToSet(files) : c.id \in ids => DetailExpired(c, now)
    PROVE  Stays(Dropping(files, ids), writes, now)
<1>1. \A c, d : OlderIn(Dropping(files, ids), c, d) => OlderIn(files, c, d)
  BY OlderDropping
<1>2. ToSet(Dropping(files, ids)) = {d \in ToSet(files) : d.id \notin ids}
  BY DroppingSet
<1> QED  BY <1>1, <1>2 DEF Stays

-----------------------------------------------------------------------------
(* What the store does to the pages. *)

StayInv == Stays(details, lastWrites, clock)

(* It writes one. *)
LEMMA WroteStays ==
    ASSUME PageInv, StayInv, NEW d \in Detail, WriteDetail(d), clock' = clock
    PROVE  StayInv'
<1>1. PICK a, b : a = details' /\ b = lastWrites'
  OBVIOUS
<1>2. a = Renewed(details, d) /\ b = Renewed(lastWrites, d)
  BY <1>1 DEF WriteDetail
<1>3. Stays(a, b, clock)
  BY <1>2, StaysRenewed DEF PageInv, StayInv
<1> QED  BY <1>1, <1>3 DEF StayInv

(* It creates one, and others may go. *)
LEMMA CreatedStays ==
    ASSUME PageInv, StayInv, NEW id \in Prompts, NEW now \in Nat, CreateDetail(id, now), clock' = clock
    PROVE  StayInv'
<1>1. PICK a, b, d : a = details' /\ b = lastWrites' /\ d = NewDetail(id, now)
  OBVIOUS
<1>2. d \in Detail
  BY <1>1 DEF NewDetail, Detail
<1>3. PICK written : written = Renewed(details, d) /\ a \in Trimmed(written)
  BY <1>1 DEF CreateDetail
<1>4. b = Renewed(lastWrites, d)
  BY <1>1 DEF CreateDetail
<1>5. Stays(written, b, clock)
  BY <1>2, <1>3, <1>4, StaysRenewed DEF PageInv, StayInv
<1>6. /\ written \in Seq(Detail) /\ UniqueIds(written)
      /\ ToSet(written) = {e \in ToSet(details) : e.id # d.id} \cup {d}
      /\ b \in Seq(Detail) /\ ToSet(b) = {e \in ToSet(lastWrites) : e.id # d.id} \cup {d}
  BY <1>2, <1>3, <1>4, RenewedSet DEF PageInv
<1>7. ToSet(written) \subseteq ToSet(b)
  BY <1>6 DEF PageInv
<1>8. Stays(a, b, clock)
  BY <1>3, <1>5, <1>6, <1>7, StaysTrimmed
<1> QED  BY <1>1, <1>8 DEF StayInv

(* It removes those that expired and those that are too many. *)
LEMMA CleanedUpStays ==
    ASSUME PageInv, StayInv, RemoveExpiredAndTrim(clock), UNCHANGED <<lastWrites, clock>>
    PROVE  StayInv'
<1>1. PICK ids, left :
        /\ ids \subseteq ExpiredDetails(clock)
        /\ left = Dropping(details, ids) /\ details' \in Trimmed(left)
  <2>1. PICK visited, left :
            /\ left = Dropping(details, visited \cap ExpiredDetails(clock))
            /\ details' \in Trimmed(left)
    BY DEF RemoveExpiredAndTrim
  <2>2. visited \cap ExpiredDetails(clock) \subseteq ExpiredDetails(clock)
    OBVIOUS
  <2> QED  BY <2>1, <2>2
<1>2. \A c \in ToSet(details) : c.id \in ids => DetailExpired(c, clock)
  <2>1. SUFFICES ASSUME NEW c \in ToSet(details), c.id \in ids
                 PROVE  DetailExpired(c, clock)
    OBVIOUS
  <2>2. PICK e \in ToSet(details) : DetailExpired(e, clock) /\ e.id = c.id
    BY <1>1, <2>1 DEF ExpiredDetails
  <2>3. e = c
    BY <2>1, <2>2 DEF PageInv, UniqueIds, ToSet
  <2> QED  BY <2>2, <2>3
<1>3. Stays(left, lastWrites, clock)
  BY <1>1, <1>2, StaysDropping DEF PageInv, StayInv
<1>4. /\ left \in Seq(Detail) /\ UniqueIds(left) /\ ToSet(left) \subseteq ToSet(lastWrites)
  BY <1>1, DroppingSet, DroppingUnique DEF PageInv
<1>5. PICK a : a = details'
  OBVIOUS
<1>6. Stays(a, lastWrites, clock)
  BY <1>1, <1>3, <1>4, <1>5, StaysTrimmed DEF PageInv
<1> QED  BY <1>5, <1>6 DEF StayInv

(* Time goes on, or not, and nothing is done to them. *)
LEMMA SameStays ==
    ASSUME PageInv, StayInv, UNCHANGED <<details, lastWrites>>, clock \in Nat, clock' \in Nat,
           clock <= clock'
    PROVE  StayInv'
<1>1. PICK later : later = clock'
  OBVIOUS
<1>2. Stays(details, lastWrites, later)
  BY <1>1, StaysLater DEF PageInv, StayInv
<1> QED  BY <1>1, <1>2 DEF StayInv

(* A page that was written, and has fewer after it, is there or expired. *)
LEMMA StayingThere ==
    ASSUME PageInv, StayInv, NEW i \in DOMAIN lastWrites, i + MaxDetails > Len(lastWrites),
           ~DetailExpired(lastWrites[i], clock)
    PROVE  lastWrites[i] \in ToSet(details)
<1>1. lastWrites[i] \in ToSet(lastWrites)
  BY DEF ToSet
<1>2. PICK k : k = Cardinality(Newer(lastWrites, lastWrites[i]))
  OBVIOUS
<1>3. k \in Nat /\ k <= Len(lastWrites) - i /\ Len(lastWrites) \in Nat /\ i \in Nat
  BY <1>2, NewerFinite, NewerPlaces DEF PageInv
<1>4. ~(MaxDetails <= k)
  BY <1>3, DetailAssumption
<1> QED  BY <1>1, <1>2, <1>4 DEF StayInv, Stays

-----------------------------------------------------------------------------
(* What the hooks of a session have still to do.  A session is calm while     *)
(* nothing went wrong in its turn: then its hooks are of that turn, and one   *)
(* is alone unless all record what tools made.                              *)
Idle(r) == r.task \in {"none", "clean", "tidy"}
Mine(s) == {h \in Hooks : hook[h].session = s /\ ~Idle(hook[h])}
Calm(s) == <<s, turn[s]>> \notin upset
CalmBefore(s) == <<s, turn[s] - 1>> \notin upset

AloneInv(s) ==
    \A h \in Mine(s) :
        /\ <<s, hook[h].turn>> \notin upset => hook[h].turn = turn[s] /\ s \in busy
        /\ Calm(s) => hook[h].turn = turn[s]
        /\ Calm(s) /\ hook[h].task # "record" => Mine(s) = {h}

ThisTurn(s) == OutputOf(s, turn[s])
TurnBefore(s) == OutputOf(s, turn[s] - 1)
NoticeAt(s) == PathOf(s, Pending)
ReceiptAt(s) == PathOf(s, KeyOf(turn[s]))

(* There is this output at a path, which may be nothing at all. *)
HasExactly(p, output) ==
    /\ p \in DOMAIN dirs => dirs[p].output = output
    /\ output # {} => HasReceipt(p)

Received(s) == HasReceipt(ReceiptAt(s)) /\ dirs[ReceiptAt(s)].output = ThisTurn(s)

PageIs(id, context, output) ==
    \E d \in ToSet(lastWrites) : d.id = id /\ d.context = context /\ d.output = output

Opened(s, r) == r.page /\ PageIs(<<s, turn[s]>>, world.rules, {})

(* What holds while a hook other than those that record is at work, by what   *)
(* it does                                                                 *)
BeginDue(s, r) ==
    r.task = "begin" =>
        /\ ThisTurn(s) = {} /\ (CalmBefore(s) => HasExactly(NoticeAt(s), TurnBefore(s)))
        /\ r.at = "write" => ReceiptAt(s) \in DOMAIN dirs

OpenDue(s, r) ==
    r.task = "open" =>
        /\ Received(s) /\ (CalmBefore(s) => HasExactly(NoticeAt(s), TurnBefore(s)))
        /\ r.at = "context" => world.rules /\ r.page /\ PageIs(<<s, turn[s]>>, FALSE, {})

ShowDue(s, h, r) ==
    r.task \in {"show", "tell"} =>
        /\ Received(s) /\ Opened(s, r)
        /\ r.at \in {"claim", "read"} => r.output = {}
        /\ IF r.at = "claim" THEN CalmBefore(s) => HasExactly(NoticeAt(s), TurnBefore(s))
           ELSE /\ HasExactly(NoticeAt(s), {})
                /\ CalmBefore(s) => IF r.at = "read" THEN HasExactly(Claim(h), TurnBefore(s))
                                    ELSE r.output = TurnBefore(s)

ConsumeDue(s, h, r) ==
    r.task = "consume" =>
        /\ HasExactly(NoticeAt(s), {})
        /\ CASE r.at = "claim" ->
                    /\ HasReceipt(ReceiptAt(s))
                    /\ ThisTurn(s) = dirs[ReceiptAt(s)].output \cup r.output
             [] r.at = "read" ->
                    /\ HasReceipt(Claim(h))
                    /\ ThisTurn(s) = dirs[Claim(h)].output \cup r.output
             [] OTHER -> r.output = ThisTurn(s)

SaveDue(s, r) ==
    r.task = "save" =>
        r.output = ThisTurn(s) /\ (r.at = "write" => NoticeAt(s) \in DOMAIN dirs)

HookDue(s, h) ==
    LET r == hook[h]
    IN  BeginDue(s, r) /\ OpenDue(s, r) /\ ShowDue(s, h, r) /\ ConsumeDue(s, h, r) /\ SaveDue(s, r)

(* What tools made that is not in the receipt yet *)
InFlight(s) == UNION {hook[h].output : h \in {g \in Mine(s) : hook[g].at = "record"}}

(* Between the hooks *)
TurnDue(s) ==
    /\ HasExactly(NoticeAt(s), {}) /\ HasReceipt(ReceiptAt(s))
    /\ ThisTurn(s) = dirs[ReceiptAt(s)].output \cup InFlight(s)

SessionDue(s) ==
    /\ s \notin busy => HasExactly(NoticeAt(s), ThisTurn(s))
    /\ s \in busy /\ (\A h \in Mine(s) : hook[h].task = "record") => TurnDue(s)
    /\ \A h \in Mine(s) : hook[h].task # "record" => HookDue(s, h)

CalmInv(s) == Calm(s) => SessionDue(s)

-----------------------------------------------------------------------------
(* Nothing happens to the directories of a session. *)
DirsKept(s) ==
    \A p : p.session = s =>
        /\ p \in DOMAIN dirs' <=> p \in DOMAIN dirs
        /\ p \in DOMAIN dirs => dirs'[p] = dirs[p]

HooksKept(s) == Mine(s)' = Mine(s) /\ \A h \in Mine(s) : hook'[h] = hook[h]

(* What is at a path of the session stays. *)
LEMMA PathKept ==
    ASSUME NEW s, DirsKept(s), NEW p, p.session = s
    PROVE  /\ HasReceipt(p)' <=> HasReceipt(p)
           /\ p \in DOMAIN dirs' <=> p \in DOMAIN dirs
           /\ HasReceipt(p) => dirs'[p] = dirs[p]
           /\ \A output : HasExactly(p, output)' <=> HasExactly(p, output)
<1>1. /\ p \in DOMAIN dirs' <=> p \in DOMAIN dirs
      /\ p \in DOMAIN dirs => dirs'[p] = dirs[p]
  BY DEF DirsKept
<1>2. HasReceipt(p)' <=> HasReceipt(p)
  BY <1>1 DEF HasReceipt
<1>3. HasReceipt(p) => dirs'[p] = dirs[p]
  BY <1>1 DEF HasReceipt
<1> QED  BY <1>1, <1>2, <1>3 DEF HasExactly

(* The paths of a session. *)
LEMMA SessionPaths ==
    ASSUME NEW s, UNCHANGED world, turn'[s] = turn[s], observed'[s] = observed[s]
    PROVE  /\ NoticeAt(s).session = s /\ ReceiptAt(s).session = s
           /\ NoticeAt(s)' = NoticeAt(s) /\ ReceiptAt(s)' = ReceiptAt(s)
           /\ ThisTurn(s)' = ThisTurn(s) /\ TurnBefore(s)' = TurnBefore(s)
<1>1. KeyOf(turn[s])' = KeyOf(turn[s])
  BY DEF KeyOf
<1>2. NoticeAt(s)' = NoticeAt(s) /\ ReceiptAt(s)' = ReceiptAt(s)
  BY <1>1 DEF NoticeAt, ReceiptAt, PathOf
<1>3. NoticeAt(s).session = s /\ ReceiptAt(s).session = s
  BY DEF NoticeAt, ReceiptAt, PathOf
<1> QED  BY <1>2, <1>3 DEF ThisTurn, TurnBefore, OutputOf

(* A hook that stays as it is has the same claim. *)
LEMMA ClaimKept ==
    ASSUME NEW h, UNCHANGED world, hook'[h] = hook[h]
    PROVE  Claim(h)' = Claim(h) /\ Target(h)' = Target(h)
<1>1. Target(h)' = Target(h)
  BY DEF Target, KeyOf, PathOf, DetailLock
<1> QED  BY <1>1 DEF Claim

(* Steps of others leave a session alone. *)
LEMMA Elsewhere ==
    ASSUME AgentInv, HookInv, NEW s \in Sessions, AloneInv(s), CalmInv(s),
           UNCHANGED world, turn'[s] = turn[s], observed'[s] = observed[s],
           s \in busy' <=> s \in busy, upset \subseteq upset',
           HooksKept(s), DirsKept(s),
           s \in busy => \A context, output : PageIs(<<s, turn[s]>>, context, output)
                                             => PageIs(<<s, turn[s]>>, context, output)'
    PROVE  AloneInv(s)' /\ CalmInv(s)'
<1>1. Mine(s)' = Mine(s) /\ \A h \in Mine(s) : hook'[h] = hook[h]
  BY DEF HooksKept
<1>2. AloneInv(s)'
  BY <1>1 DEF AloneInv, Calm
<1>3. SUFFICES ASSUME Calm(s)' PROVE SessionDue(s)'
  BY <1>2 DEF CalmInv
<1>4. SessionDue(s) /\ (CalmBefore(s)' => CalmBefore(s))
  BY <1>3 DEF CalmInv, Calm, CalmBefore
<1>5. /\ NoticeAt(s).session = s /\ ReceiptAt(s).session = s
      /\ NoticeAt(s)' = NoticeAt(s) /\ ReceiptAt(s)' = ReceiptAt(s)
      /\ ThisTurn(s)' = ThisTurn(s) /\ TurnBefore(s)' = TurnBefore(s)
  BY SessionPaths
<1>6. \A p, o : p.session = s =>
        /\ HasReceipt(p)' <=> HasReceipt(p)
        /\ p \in DOMAIN dirs' <=> p \in DOMAIN dirs
        /\ HasReceipt(p) => dirs'[p] = dirs[p]
        /\ HasExactly(p, o)' <=> HasExactly(p, o)
  BY PathKept
<1>7. InFlight(s)' = InFlight(s)
  <2>1. {g \in Mine(s)' : hook'[g].at = "record"} = {g \in Mine(s) : hook[g].at = "record"}
    BY <1>1
  <2>2. PICK G : G = {g \in Mine(s) : hook[g].at = "record"}
    OBVIOUS
  <2>3. {hook'[h].output : h \in G} = {hook[h].output : h \in G}
    BY <1>1, <2>2
  <2> QED  BY <2>1, <2>2, <2>3 DEF InFlight
<1>8. \A o : HasExactly(NoticeAt(s), o)' <=> HasExactly(NoticeAt(s), o)
  BY <1>5, <1>6 DEF HasExactly, HasReceipt
<1>9. /\ HasReceipt(ReceiptAt(s))' <=> HasReceipt(ReceiptAt(s))
      /\ HasReceipt(ReceiptAt(s)) => dirs'[ReceiptAt(s)'] = dirs[ReceiptAt(s)]
      /\ Received(s)' <=> Received(s)
  <2>1. HasReceipt(ReceiptAt(s))' <=> HasReceipt(ReceiptAt(s))
    BY <1>5, <1>6 DEF HasReceipt
  <2>2. HasReceipt(ReceiptAt(s)) => dirs'[ReceiptAt(s)'] = dirs[ReceiptAt(s)]
    BY <1>5, <1>6
  <2> QED  BY <1>5, <2>1, <2>2 DEF Received
<1>10. TurnDue(s) => TurnDue(s)'
  BY <1>5, <1>7, <1>8, <1>9 DEF TurnDue
<1>11. ASSUME NEW h \in Mine(s), hook[h].task # "record"
       PROVE  HookDue(s, h)'
  <2>1. hook'[h] = hook[h] /\ hook[h].session = s /\ h \in Hooks /\ HookDue(s, h)
    BY <1>1, <1>4, <1>11 DEF SessionDue, Mine
  <2>2. PICK r : r = hook[h]
    OBVIOUS
  <2>3. /\ BeginDue(s, r) /\ OpenDue(s, r) /\ ShowDue(s, h, r) /\ ConsumeDue(s, h, r)
        /\ SaveDue(s, r)
    BY <2>1, <2>2 DEF HookDue
  <2>4. Claim(h)' = Claim(h)
    BY <2>1, ClaimKept
  <2>5. r.task \in {"show", "consume"} => Claim(h).session = s
    BY <2>1, <2>2, TargetPath
  <2>6. r.task \in {"show", "consume"} =>
            /\ HasReceipt(Claim(h))' <=> HasReceipt(Claim(h))
            /\ HasReceipt(Claim(h)) => dirs'[Claim(h)'] = dirs[Claim(h)]
            /\ \A o : HasExactly(Claim(h), o)' <=> HasExactly(Claim(h), o)
    BY <1>6, <2>4, <2>5 DEF HasExactly, HasReceipt
  <2>7. s \in busy /\ (Opened(s, r) => Opened(s, r)')
    <3>1. h \in Mine(s) /\ <<s, turn[s]>> \notin upset /\ hook[h].turn = turn[s]
      BY <1>3, <1>11, <1>1 DEF AloneInv, Calm
    <3>2. s \in busy
      BY <3>1 DEF AloneInv
    <3> QED  BY <3>2 DEF Opened
  <2>8. BeginDue(s, r)'
    BY <1>4, <1>5, <1>6, <1>8, <2>3 DEF BeginDue
  <2>9. OpenDue(s, r)'
    BY <1>4, <1>5, <1>8, <1>9, <2>3, <2>7 DEF OpenDue
  <2>10. ShowDue(s, h, r)'
    <3>1. SUFFICES ASSUME r.task \in {"show", "tell"} PROVE ShowDue(s, h, r)'
      BY DEF ShowDue
    <3>2. CASE r.at = "read"
      <4>1. r.task = "show"
        BY <2>1, <2>2, <3>1, <3>2, StageTask DEF HookInv
      <4> QED  BY <1>4, <1>5, <1>8, <1>9, <2>3, <2>6, <2>7, <3>1, <3>2, <4>1 DEF ShowDue
    <3>3. CASE r.at # "read"
      BY <1>4, <1>5, <1>8, <1>9, <2>3, <2>7, <3>1, <3>3 DEF ShowDue
    <3> QED  BY <3>2, <3>3
  <2>11. ConsumeDue(s, h, r)'
    BY <1>5, <1>8, <1>9, <2>3, <2>6 DEF ConsumeDue
  <2>12. SaveDue(s, r)'
    BY <1>5, <1>6, <2>3 DEF SaveDue
  <2> QED  BY <2>1, <2>2, <2>8, <2>9, <2>10, <2>11, <2>12 DEF HookDue
<1>12. s \notin busy' => HasExactly(NoticeAt(s), ThisTurn(s))'
  <2>1. s \notin busy' => HasExactly(NoticeAt(s), ThisTurn(s))
    BY <1>4 DEF SessionDue
  <2>2. HasExactly(NoticeAt(s), ThisTurn(s)) => HasExactly(NoticeAt(s), ThisTurn(s))'
    BY <1>5, <1>6 DEF HasExactly, HasReceipt
  <2> QED  BY <2>1, <2>2
<1> QED  BY <1>1, <1>4, <1>10, <1>11, <1>12 DEF SessionDue

-----------------------------------------------------------------------------
(* What a step makes of the record of its hook. *)
OthersStay(h) == DOMAIN hook' = Hooks /\ \A g \in Hooks : g # h => hook'[g] = hook[g]

Onward(h, task, place) ==
    /\ OthersStay(h) /\ DOMAIN hook'[h] = HookFields
    /\ hook'[h].task = task /\ hook'[h].at = place
    /\ hook'[h].session = hook[h].session /\ hook'[h].turn = hook[h].turn
    /\ hook'[h].output = hook[h].output /\ hook'[h].page = hook[h].page
    /\ hook'[h].sweep = hook[h].sweep

Ended(h) == OthersStay(h) /\ hook'[h] = NoWork

(* It goes on. *)
LEMMA GoRecord ==
    ASSUME HookInv, NEW h \in Hooks, NEW place, Go(h, place)
    PROVE  Onward(h, hook[h].task, place)
<1>1. DOMAIN hook = Hooks /\ DOMAIN hook[h] = HookFields
  BY DEF HookInv, Typed
<1>2. PICK r : r = [hook[h] EXCEPT !.at = place]
  OBVIOUS
<1>3. hook' = [hook EXCEPT ![h] = r]
  BY <1>1, <1>2 DEF Go
<1>4. OthersStay(h) /\ hook'[h] = r
  BY <1>1, <1>3 DEF OthersStay
<1>5. /\ DOMAIN r = HookFields /\ r.at = place /\ r.task = hook[h].task
      /\ r.session = hook[h].session /\ r.turn = hook[h].turn
      /\ r.output = hook[h].output /\ r.page = hook[h].page /\ r.sweep = hook[h].sweep
  BY <1>1, <1>2 DEF HookFields
<1> QED  BY <1>4, <1>5 DEF Onward

LEMMA NextTaskRecord ==
    ASSUME HookInv, NEW h \in Hooks, NEW task, NEW place, NextTask(h, task, place)
    PROVE  Onward(h, task, place)
<1>1. DOMAIN hook = Hooks /\ DOMAIN hook[h] = HookFields
  BY DEF HookInv, Typed
<1>2. PICK r : r = [hook[h] EXCEPT !.task = task, !.at = place]
  OBVIOUS
<1>3. hook' = [hook EXCEPT ![h] = r]
  BY <1>1, <1>2 DEF NextTask
<1>4. OthersStay(h) /\ hook'[h] = r
  BY <1>1, <1>3 DEF OthersStay
<1>5. /\ DOMAIN r = HookFields /\ r.at = place /\ r.task = task
      /\ r.session = hook[h].session /\ r.turn = hook[h].turn
      /\ r.output = hook[h].output /\ r.page = hook[h].page /\ r.sweep = hook[h].sweep
  BY <1>1, <1>2 DEF HookFields
<1> QED  BY <1>4, <1>5 DEF Onward

LEMMA EndRecord ==
    ASSUME HookInv, NEW h \in Hooks, End(h)
    PROVE  Ended(h)
<1>1. DOMAIN hook = Hooks
  BY DEF HookInv
<1> QED  BY <1>1 DEF End, Ended, OthersStay

Stopping(h) == ~Works(h, "record") /\ hook[h].turn = turn[hook[h].session]

(* It has done what it was doing. *)
FinishedAs(h) ==
    \/ hook[h].task = "begin" /\ Onward(h, "open", "create") /\ busy' = busy
    \/ /\ hook[h].task = "show" /\ hook[h].output # {} /\ hook[h].page
       /\ Onward(h, "tell", "result") /\ busy' = busy
    \/ /\ hook[h].task = "show" /\ ~(hook[h].output # {} /\ hook[h].page)
       /\ Ended(h) /\ busy' = busy
    \/ hook[h].task = "consume" /\ hook[h].output # {} /\ Onward(h, "save", "lock") /\ busy' = busy
    \/ hook[h].task = "clean" /\ Onward(h, "clean", "sweep") /\ busy' = busy
    \/ /\ hook[h].task \notin {"begin", "show", "clean"}
       /\ hook[h].task = "consume" => hook[h].output = {}
       /\ Ended(h)
       /\ busy' = IF Stopping(h) THEN busy \ {hook[h].session} ELSE busy

LEMMA FinishRecord ==
    ASSUME HookInv, NEW h \in Hooks, Finish(h)
    PROVE  FinishedAs(h)
<1>1. CASE Works(h, "begin")
  <2>1. NextTask(h, "open", "create") /\ busy' = busy /\ hook[h].task = "begin"
    BY <1>1 DEF Finish, Works
  <2> QED  BY <2>1, NextTaskRecord DEF FinishedAs
<1>2. CASE Works(h, "show") /\ hook[h].output # {} /\ hook[h].page
  <2>1. NextTask(h, "tell", "result") /\ busy' = busy /\ hook[h].task = "show"
    BY <1>2 DEF Finish, Works
  <2> QED  BY <1>2, <2>1, NextTaskRecord DEF FinishedAs
<1>3. CASE Works(h, "show") /\ ~(hook[h].output # {} /\ hook[h].page)
  <2>1. End(h) /\ busy' = busy /\ hook[h].task = "show"
    BY <1>3 DEF Finish, Works
  <2> QED  BY <1>3, <2>1, EndRecord DEF FinishedAs
<1>4. CASE Works(h, "consume") /\ hook[h].output # {}
  <2>1. NextTask(h, "save", "lock") /\ busy' = busy /\ hook[h].task = "consume"
    BY <1>4 DEF Finish, Works
  <2> QED  BY <1>4, <2>1, NextTaskRecord DEF FinishedAs
<1>5. CASE Works(h, "clean")
  <2>1. Go(h, "sweep") /\ busy' = busy /\ hook[h].task = "clean"
    BY <1>5 DEF Finish, Works
  <2> QED  BY <2>1, GoRecord DEF FinishedAs
<1>6. CASE /\ ~Works(h, "begin") /\ ~Works(h, "show") /\ ~Works(h, "clean")
           /\ ~(Works(h, "consume") /\ hook[h].output # {})
  <2>1. /\ End(h)
        /\ busy' = IF Works(h, "record") \/ hook[h].turn # turn[hook[h].session] THEN busy
                   ELSE busy \ {hook[h].session}
    BY <1>6 DEF Finish
  <2>2. busy' = IF Stopping(h) THEN busy \ {hook[h].session} ELSE busy
    BY <2>1 DEF Stopping
  <2>3. Ended(h)
    BY <2>1, EndRecord
  <2> QED  BY <1>6, <2>2, <2>3 DEF Works, FinishedAs
<1> QED  BY <1>1, <1>2, <1>3, <1>4, <1>5, <1>6

-----------------------------------------------------------------------------
(* A hook of a session goes on with its turn, or ends.                      *)
OwnStep(h) ==
    /\ OthersStay(h)
    /\ \/ Idle(hook'[h])
       \/ /\ ~Idle(hook'[h])
          /\ hook'[h].task = "record" <=> hook[h].task = "record"
          /\ hook'[h].session = hook[h].session /\ hook'[h].turn = hook[h].turn

(* It announces the end of the turn, or something failed in it. *)
BusyStep(h) ==
    \/ busy' = busy
    \/ /\ busy' = busy \ {hook[h].session}
       /\ \/ <<hook[h].session, turn[hook[h].session]>> \in upset'
          \/ Idle(hook'[h]) /\ Stopping(h)

LEMMA OwnHooks ==
    ASSUME NEW h \in Hooks, NEW s, h \in Mine(s), OwnStep(h)
    PROVE  /\ Mine(s)' = IF Idle(hook'[h]) THEN Mine(s) \ {h} ELSE Mine(s)
           /\ \A g \in Mine(s) : g # h => hook'[g] = hook[g]
           /\ \A q : q # s => HooksKept(q)
<1>1. \A g \in Hooks : g # h => hook'[g] = hook[g]
  BY DEF OwnStep, OthersStay
<1>2. ~Idle(hook'[h]) => hook'[h].session = s
  BY DEF OwnStep, Mine
<1>3. Mine(s)' = IF Idle(hook'[h]) THEN Mine(s) \ {h} ELSE Mine(s)
  BY <1>1, <1>2 DEF Mine
<1>4. ASSUME NEW q, q # s PROVE HooksKept(q)
  <2>1. h \notin Mine(q) /\ h \notin Mine(q)'
    BY <1>2, <1>4 DEF Mine
  <2>2. Mine(q)' = Mine(q)
    BY <1>1, <2>1 DEF Mine
  <2>3. \A g \in Mine(q) : hook'[g] = hook[g]
    BY <1>1, <2>1 DEF Mine
  <2> QED  BY <2>2, <2>3 DEF HooksKept
<1>5. \A g \in Mine(s) : g # h => hook'[g] = hook[g]
  BY <1>1 DEF Mine
<1> QED  BY <1>3, <1>4, <1>5

(* It stays alone. *)
LEMMA OwnAlone ==
    ASSUME NEW h \in Hooks, NEW s, h \in Mine(s), OwnStep(h), BusyStep(h), AloneInv(s),
           turn' = turn, upset \subseteq upset'
    PROVE  AloneInv(s)'
<1>1. /\ Mine(s)' = IF Idle(hook'[h]) THEN Mine(s) \ {h} ELSE Mine(s)
      /\ \A g \in Mine(s) : g # h => hook'[g] = hook[g]
  BY OwnHooks
<1>2. SUFFICES ASSUME NEW g \in Mine(s)'
               PROVE  /\ <<s, hook'[g].turn>> \notin upset' => hook'[g].turn = turn[s] /\ s \in busy'
                      /\ Calm(s)' => hook'[g].turn = turn[s]
                      /\ Calm(s)' /\ hook'[g].task # "record" => Mine(s)' = {g}
  BY DEF AloneInv
<1>3. g \in Mine(s) /\ hook'[g].turn = hook[g].turn
      /\ (hook'[g].task = "record" <=> hook[g].task = "record")
  BY <1>1 DEF OwnStep
<1>4. /\ <<s, hook[g].turn>> \notin upset => hook[g].turn = turn[s] /\ s \in busy
      /\ Calm(s) => hook[g].turn = turn[s]
      /\ Calm(s) /\ hook[g].task # "record" => Mine(s) = {g}
  BY <1>3 DEF AloneInv
<1>5. Calm(s)' => Calm(s)
  BY DEF Calm
<1>6. ASSUME <<s, hook'[g].turn>> \notin upset' PROVE hook'[g].turn = turn[s] /\ s \in busy'
  <2>1. hook[g].turn = turn[s] /\ s \in busy /\ Calm(s)' /\ Calm(s)
    BY <1>3, <1>4, <1>6 DEF Calm
  <2>2. hook[h].session = s
    BY DEF Mine
  <2>3. CASE Idle(hook'[h]) /\ Stopping(h)
    <3>1. hook[h].task # "record"
      BY <2>3 DEF Stopping, Works
    <3>2. Mine(s) = {h}
      BY <2>1, <3>1 DEF AloneInv
    <3> QED  BY <1>1, <2>3, <3>2
  <2>4. CASE busy' = busy
    BY <1>3, <2>1, <2>4
  <2> QED  BY <1>6, <2>1, <2>2, <2>3, <2>4, <1>3 DEF BusyStep
<1>7. Calm(s)' /\ hook'[g].task # "record" => Mine(s)' = {g}
  BY <1>1, <1>3, <1>4, <1>5
<1> QED  BY <1>3, <1>4, <1>5, <1>6, <1>7

-----------------------------------------------------------------------------
(* A turn is under way only in a session that lives, and within its bound.  *)
LiveInv ==
    \A s \in Sessions :
        /\ s \in busy => turn[s] > 0
        /\ turn[s] > 0 => s \in world.live /\ turn[s] <= world.turns

(* Times are numbers, and a clean-up takes none that is still to come.       *)
SweepInv ==
    /\ \A p \in DOMAIN dirs : dirs[p].since \in Nat
    /\ \A h \in Hooks : hook[h].task = "clean" => hook[h].sweep.now \in 0 .. clock

(* The paths of a session that is calm are apart. *)
LEMMA PathsApart ==
    ASSUME AgentInv, LiveInv, NEW s \in Sessions, s \in busy, NEW h \in Hooks
    PROVE  /\ NoticeAt(s) # ReceiptAt(s)
           /\ NoticeAt(s).claim # h /\ ReceiptAt(s).claim # h
           /\ NoticeAt(s) # Claim(h) /\ ReceiptAt(s) # Claim(h)
<1>1. turn[s] \in Nat /\ turn[s] > 0
  BY DEF AgentInv, LiveInv
<1>2. KeyOf(turn[s]) # 0
  BY <1>1 DEF KeyOf
<1>3. h # 0
  BY NoticeAssumption
<1>4. NoticeAt(s) # ReceiptAt(s)
  <2>1. NoticeAt(s).key = 0 /\ ReceiptAt(s).key = KeyOf(turn[s])
    BY DEF NoticeAt, ReceiptAt, PathOf, Pending
  <2> QED  BY <1>2, <2>1
<1>5. NoticeAt(s).claim # h /\ ReceiptAt(s).claim # h
  BY <1>3 DEF NoticeAt, ReceiptAt, PathOf, NoHook
<1>6. Claim(h).claim = h
  BY ClaimNamed
<1> QED  BY <1>4, <1>5, <1>6

(* The path a hook works on is that of its task. *)
LEMMA TargetIs ==
    ASSUME NEW s, NEW h \in Hooks, hook[h].session = s, hook[h].turn = turn[s]
    PROVE  /\ hook[h].task \in {"begin", "record", "consume"} => Target(h) = ReceiptAt(s)
           /\ hook[h].task \in {"show", "save"} => Target(h) = NoticeAt(s)
<1> QED  BY DEF Target, ReceiptAt, NoticeAt

(* A session with one hook. *)
LEMMA LoneGoes ==
    ASSUME NEW s, NEW h, Mine(s)' = {h}, s \in busy', hook'[h].task # "record", HookDue(s, h)'
    PROVE  CalmInv(s)'
<1> QED  BY DEF CalmInv, SessionDue

LEMMA LoneEnds ==
    ASSUME NEW s, Mine(s)' = {},
           s \notin busy' => HasExactly(NoticeAt(s), ThisTurn(s))',
           s \in busy' => /\ HasExactly(NoticeAt(s), {})' /\ HasReceipt(ReceiptAt(s))'
                          /\ ThisTurn(s)' = dirs'[ReceiptAt(s)'].output
    PROVE  CalmInv(s)'
<1>1. InFlight(s)' = {}
  <2>1. \A h : h \notin Mine(s)'
    OBVIOUS
  <2>2. {g \in Mine(s)' : hook'[g].at = "record"} = {}
    BY <2>1
  <2> QED  BY <2>2 DEF InFlight
<1>2. s \in busy' => TurnDue(s)'
  BY <1>1 DEF TurnDue
<1> QED  BY <1>2 DEF CalmInv, SessionDue

(* A session whose hooks record goes on like this as long as what they record *)
(* gets into the receipt.                                                   *)
LEMMA RecordersStay ==
    ASSUME NEW s, s \in busy', \A g \in Mine(s)' : hook'[g].task = "record", TurnDue(s)'
    PROVE  CalmInv(s)'
<1> QED  BY DEF CalmInv, SessionDue

(* What a hook finds when it makes a step: its session is in the turn of the  *)
(* hook, and what is due of it holds.                                       *)
LEMMA OwnDue ==
    ASSUME NEW s \in Sessions, AloneInv(s), CalmInv(s), Calm(s), NEW h \in Mine(s)
    PROVE  /\ hook[h].turn = turn[s] /\ s \in busy /\ hook[h].session = s /\ h \in Hooks
           /\ hook[h].task # "record" => Mine(s) = {h} /\ HookDue(s, h)
           /\ hook[h].task = "record" => /\ \A g \in Mine(s) : hook[g].task = "record"
                                         /\ TurnDue(s)
<1>1. hook[h].turn = turn[s] /\ hook[h].session = s /\ h \in Hooks
  BY DEF AloneInv, Mine
<1>2. s \in busy
  BY <1>1 DEF AloneInv, Calm
<1>3. SessionDue(s)
  BY DEF CalmInv
<1>4. hook[h].task # "record" => Mine(s) = {h} /\ HookDue(s, h)
  BY <1>3 DEF AloneInv, SessionDue
<1>5. ASSUME hook[h].task = "record", NEW g \in Mine(s) PROVE hook[g].task = "record"
  BY <1>5 DEF AloneInv
<1>6. hook[h].task = "record" => TurnDue(s)
  BY <1>2, <1>3, <1>5 DEF SessionDue
<1> QED  BY <1>1, <1>2, <1>4, <1>5, <1>6

-----------------------------------------------------------------------------
(* Only these paths change. *)
DirsOnly(P) ==
    \A q : q \notin P =>
        /\ q \in DOMAIN dirs' <=> q \in DOMAIN dirs
        /\ q \in DOMAIN dirs => dirs'[q] = dirs[q]

LEMMA OnlyWithout ==
    ASSUME NEW p, dirs' = Without(p)
    PROVE  DirsOnly({p}) /\ p \notin DOMAIN dirs'
<1>1. DOMAIN dirs' = DOMAIN dirs \ {p} /\ \A q \in DOMAIN dirs' : dirs'[q] = dirs[q]
  BY DEF Without, Restrict
<1> QED  BY <1>1 DEF DirsOnly

LEMMA OnlyHolding ==
    ASSUME NEW p, NEW d, NEW S, S \subseteq DOMAIN dirs, dirs' = Holding(p, d, S)
    PROVE  /\ DirsOnly({p} \cup (DOMAIN dirs \ S)) /\ DOMAIN dirs' = S \cup {p} /\ dirs'[p] = d
<1>1. /\ DOMAIN dirs' = S \cup {p} /\ dirs'[p] = d
      /\ \A q \in S : q # p => dirs'[q] = dirs[q]
  BY DEF Holding
<1> QED  BY <1>1 DEF DirsOnly

LEMMA OnlyWritten ==
    ASSUME NEW p, NEW d, dirs' = [dirs EXCEPT ![p] = d]
    PROVE  DirsOnly({p}) /\ (p \in DOMAIN dirs => p \in DOMAIN dirs' /\ dirs'[p] = d)
<1>1. /\ DOMAIN dirs' = DOMAIN dirs
      /\ \A q \in DOMAIN dirs : dirs'[q] = IF q = p THEN d ELSE dirs[q]
  OBVIOUS
<1> QED  BY <1>1 DEF DirsOnly

(* What is at another path stays. *)
LEMMA OtherPath ==
    ASSUME NEW P, DirsOnly(P), NEW p, p \notin P
    PROVE  /\ HasReceipt(p)' <=> HasReceipt(p)
           /\ p \in DOMAIN dirs' <=> p \in DOMAIN dirs
           /\ HasReceipt(p) => dirs'[p] = dirs[p]
           /\ \A output : HasExactly(p, output)' <=> HasExactly(p, output)
<1>1. /\ p \in DOMAIN dirs' <=> p \in DOMAIN dirs
      /\ p \in DOMAIN dirs => dirs'[p] = dirs[p]
  BY DEF DirsOnly
<1>2. HasReceipt(p)' <=> HasReceipt(p)
  BY <1>1 DEF HasReceipt
<1>3. HasReceipt(p) => dirs'[p] = dirs[p]
  BY <1>1 DEF HasReceipt
<1> QED  BY <1>1, <1>2, <1>3 DEF HasExactly

(* What a step of a hook that is on its session's paths leaves alone.        *)
SameSession(s) == UNCHANGED <<world, turn, observed>> /\ s \in Sessions

LEMMA NoticeKept ==
    ASSUME NEW s, SameSession(s), NEW P, DirsOnly(P), NoticeAt(s) \notin P
    PROVE  \A o : HasExactly(NoticeAt(s), o)' <=> HasExactly(NoticeAt(s), o)
<1>1. NoticeAt(s)' = NoticeAt(s)
  BY SessionPaths DEF SameSession
<1>2. \A o : HasExactly(NoticeAt(s), o) <=>
                /\ NoticeAt(s) \in DOMAIN dirs' => dirs'[NoticeAt(s)].output = o
                /\ o # {} => NoticeAt(s) \in DOMAIN dirs' /\ dirs'[NoticeAt(s)].written
  BY DEF HasExactly, HasReceipt, DirsOnly
<1> QED  BY <1>1, <1>2 DEF HasExactly, HasReceipt

LEMMA ReceiptKept ==
    ASSUME NEW s, SameSession(s), NEW P, DirsOnly(P), ReceiptAt(s) \notin P
    PROVE  /\ HasReceipt(ReceiptAt(s))' <=> HasReceipt(ReceiptAt(s))
           /\ HasReceipt(ReceiptAt(s)) => dirs'[ReceiptAt(s)'] = dirs[ReceiptAt(s)]
           /\ Received(s)' <=> Received(s)
<1>1. ReceiptAt(s)' = ReceiptAt(s) /\ ThisTurn(s)' = ThisTurn(s)
  BY SessionPaths DEF SameSession
<1>2. HasReceipt(ReceiptAt(s)) <=> ReceiptAt(s) \in DOMAIN dirs' /\ dirs'[ReceiptAt(s)].written
  BY DEF HasReceipt, DirsOnly
<1>3. HasReceipt(ReceiptAt(s)) => dirs'[ReceiptAt(s)] = dirs[ReceiptAt(s)]
  BY DEF HasReceipt, DirsOnly
<1>4. HasReceipt(ReceiptAt(s))' <=> HasReceipt(ReceiptAt(s))
  BY <1>1, <1>2 DEF HasReceipt
<1> QED  BY <1>1, <1>3, <1>4 DEF Received

-----------------------------------------------------------------------------
(* What a step of a hook of the session starts from. *)
OwnInv(s, h) ==
    /\ AgentInv /\ HookInv /\ TreeInv /\ PageInv /\ LiveInv
    /\ s \in Sessions /\ AloneInv(s) /\ CalmInv(s) /\ h \in Mine(s)

(* A session whose turn is upset, or was, asks for nothing. *)
LEMMA UpsetDone ==
    ASSUME NEW s, NEW h, hook[h].session = s, Upset(h), turn' = turn
    PROVE  CalmInv(s)' /\ upset \subseteq upset'
<1> QED  BY DEF Upset, CalmInv, Calm

(* Nothing happens to the paths of a session: a lone hook that goes on needs  *)
(* to show what is due of it.                                               *)
LEMMA OwnLone ==
    ASSUME NEW s, NEW h, OwnInv(s, h), hook[h].task # "record", hook'[h].task # "record",
           OwnStep(h), ~Idle(hook'[h]), busy' = busy, turn' = turn, upset \subseteq upset',
           Calm(s)' => HookDue(s, h)'
    PROVE  CalmInv(s)'
<1>1. SUFFICES ASSUME Calm(s)' PROVE CalmInv(s)'
  BY DEF CalmInv
<1>2. Calm(s)
  BY <1>1 DEF Calm
<1>3. Mine(s) = {h} /\ s \in busy /\ h \in Hooks
  BY <1>2, OwnDue DEF OwnInv
<1>4. Mine(s)' = {h}
  BY <1>3, OwnHooks
<1> QED  BY <1>1, <1>3, <1>4, LoneGoes

(* Steps of a hook that go on without doing anything to its paths *)
LEMMA OnwardOwn ==
    ASSUME NEW s, NEW h \in Hooks, h \in Mine(s), NEW place, Onward(h, hook[h].task, place)
    PROVE  OwnStep(h) /\ ~Idle(hook'[h])
<1> QED  BY DEF Onward, OwnStep, Mine, Idle

-----------------------------------------------------------------------------
(* Store.Begin and Store.SavePending: on the way to the file. *)
MakingStep(s, h, place) ==
    /\ SameSession(s) /\ Onward(h, hook[h].task, place) /\ busy' = busy /\ upset' = upset
    /\ DirsOnly({Target(h)})
    /\ place = "write" => Target(h) \in DOMAIN dirs'

LEMMA BeginGoes ==
    ASSUME NEW s, NEW h, OwnInv(s, h), hook[h].task = "begin", NEW place, MakingStep(s, h, place)
    PROVE  CalmInv(s)'
<1>1. SUFFICES ASSUME Calm(s)' PROVE HookDue(s, h)'
  BY OnwardOwn, OwnLone DEF MakingStep, OwnInv, Mine, SameSession, Onward
<1>2. Calm(s)
  BY <1>1 DEF Calm, MakingStep, SameSession
<1>3. HookDue(s, h) /\ s \in busy /\ hook[h].session = s /\ h \in Hooks /\ hook[h].turn = turn[s]
  BY <1>2, OwnDue DEF OwnInv
<1>4. Target(h) = ReceiptAt(s) /\ NoticeAt(s) # ReceiptAt(s)
  BY <1>3, TargetIs, PathsApart DEF OwnInv
<1>5. \A o : HasExactly(NoticeAt(s), o)' <=> HasExactly(NoticeAt(s), o)
  BY <1>4, NoticeKept DEF MakingStep
<1>6. /\ ReceiptAt(s)' = ReceiptAt(s) /\ NoticeAt(s)' = NoticeAt(s)
      /\ ThisTurn(s)' = ThisTurn(s) /\ TurnBefore(s)' = TurnBefore(s)
      /\ CalmBefore(s)' <=> CalmBefore(s)
  BY SessionPaths DEF MakingStep, SameSession, CalmBefore
<1>7. PICK r : r = hook'[h]
  OBVIOUS
<1>8. r.task = "begin" /\ r.at = place
  BY <1>7 DEF MakingStep, Onward
<1>9. BeginDue(s, hook[h])
  BY <1>3 DEF HookDue
<1>10. BeginDue(s, r)'
  <2>1. ThisTurn(s) = {} /\ (CalmBefore(s) => HasExactly(NoticeAt(s), TurnBefore(s)))
    BY <1>9 DEF BeginDue
  <2>2. CalmBefore(s)' => HasExactly(NoticeAt(s), TurnBefore(s))'
    BY <1>5, <1>6, <2>1 DEF HasExactly, HasReceipt
  <2>3. place = "write" => ReceiptAt(s)' \in DOMAIN dirs'
    BY <1>4, <1>6 DEF MakingStep
  <2> QED  BY <1>6, <1>8, <2>1, <2>2, <2>3 DEF BeginDue
<1> QED  BY <1>7, <1>8, <1>10 DEF HookDue, OpenDue, ShowDue, ConsumeDue, SaveDue

LEMMA SaveGoes ==
    ASSUME NEW s, NEW h, OwnInv(s, h), hook[h].task = "save", NEW place, MakingStep(s, h, place)
    PROVE  CalmInv(s)'
<1>1. SUFFICES ASSUME Calm(s)' PROVE HookDue(s, h)'
  BY OnwardOwn, OwnLone DEF MakingStep, OwnInv, Mine, SameSession, Onward
<1>2. Calm(s)
  BY <1>1 DEF Calm, MakingStep, SameSession
<1>3. HookDue(s, h) /\ s \in busy /\ hook[h].session = s /\ h \in Hooks /\ hook[h].turn = turn[s]
  BY <1>2, OwnDue DEF OwnInv
<1>4. Target(h) = NoticeAt(s)
  BY <1>3, TargetIs
<1>5. NoticeAt(s)' = NoticeAt(s) /\ ThisTurn(s)' = ThisTurn(s)
  BY SessionPaths DEF MakingStep, SameSession
<1>6. PICK r : r = hook'[h]
  OBVIOUS
<1>7. r.task = "save" /\ r.at = place /\ r.output = hook[h].output
  BY <1>6 DEF MakingStep, Onward
<1>8. hook[h].output = ThisTurn(s)
  BY <1>3 DEF HookDue, SaveDue
<1>9. place = "write" => NoticeAt(s)' \in DOMAIN dirs'
  BY <1>4, <1>5 DEF MakingStep
<1>10. SaveDue(s, r)'
  BY <1>5, <1>7, <1>8, <1>9 DEF SaveDue
<1> QED  BY <1>6, <1>7, <1>10 DEF HookDue, OpenDue, ShowDue, ConsumeDue, BeginDue

(* The steps up to the file *)
Makes(h) == LockAndReset(h) \/ MakeAgentDir(h) \/ MakeSessionDir(h) \/ MakeDir(h)

LEMMA MakesSteps ==
    ASSUME NEW s, NEW h, OwnInv(s, h), Makes(h)
    PROVE  hook[h].task \in {"begin", "save"} /\ \E place : MakingStep(s, h, place)
<1>1. h \in Hooks /\ HookInv /\ Typed(hook[h]) /\ s \in Sessions
  BY DEF OwnInv, HookInv, Mine
<1>2. hook[h].task \in {"begin", "save"}
  BY <1>1, StageTask DEF Makes, LockAndReset, MakeAgentDir, MakeSessionDir, MakeDir, At
<1>3. DirsOnly({Target(h)}) <=> \A q : q # Target(h) =>
            /\ q \in DOMAIN dirs' <=> q \in DOMAIN dirs
            /\ q \in DOMAIN dirs => dirs'[q] = dirs[q]
  BY DEF DirsOnly
<1>4. CASE LockAndReset(h)
  <2>1. PICK place : Go(h, place) /\ place # "write"
    BY <1>4 DEF LockAndReset
  <2>2. dirs' = Without(Target(h)) /\ SameSession(s) /\ busy' = busy /\ upset' = upset
    BY <1>1, <1>4 DEF LockAndReset, SameSession, agentVars
  <2> QED  BY <1>1, <1>2, <2>1, <2>2, GoRecord, OnlyWithout DEF MakingStep
<1>5. CASE MakeAgentDir(h) \/ MakeSessionDir(h)
  <2>1. PICK place : Go(h, place) /\ place # "write"
    BY <1>5 DEF MakeAgentDir, MakeSessionDir
  <2>2. dirs' = dirs /\ SameSession(s) /\ busy' = busy /\ upset' = upset
    BY <1>1, <1>5 DEF MakeAgentDir, MakeSessionDir, SameSession, agentVars
  <2>3. DirsOnly({Target(h)})
    BY <1>3, <2>2
  <2> QED  BY <1>1, <1>2, <2>1, <2>2, <2>3, GoRecord DEF MakingStep
<1>6. CASE MakeDir(h)
  <2>1. Go(h, "write")
    BY <1>6 DEF MakeDir
  <2>2. dirs' = Holding(Target(h), Made, DOMAIN dirs)
        /\ SameSession(s) /\ busy' = busy /\ upset' = upset
    BY <1>1, <1>6 DEF MakeDir, SameSession, agentVars
  <2>3. PICK d, S : d = Made /\ S = DOMAIN dirs
    OBVIOUS
  <2>4. DirsOnly({Target(h)} \cup (DOMAIN dirs \ S)) /\ DOMAIN dirs' = S \cup {Target(h)}
    BY <2>2, <2>3, OnlyHolding
  <2>5. DirsOnly({Target(h)}) /\ Target(h) \in DOMAIN dirs'
    BY <2>3, <2>4 DEF DirsOnly
  <2> QED  BY <1>1, <1>2, <2>1, <2>2, <2>5, GoRecord DEF MakingStep
<1> QED  BY <1>4, <1>5, <1>6 DEF Makes

LEMMA MakesCalm ==
    ASSUME NEW s, NEW h, OwnInv(s, h), Makes(h)
    PROVE  CalmInv(s)'
<1> QED  BY MakesSteps, BeginGoes, SaveGoes

(* The file is written. *)
LEMMA WriteCalm ==
    ASSUME NEW s, NEW h, OwnInv(s, h), WriteFile(h)
    PROVE  OwnStep(h) /\ BusyStep(h) /\ CalmInv(s)'
<1>1. h \in Hooks /\ HookInv /\ Typed(hook[h]) /\ s \in Sessions /\ hook[h].session = s
  BY DEF OwnInv, HookInv, Mine
<1>2. hook[h].at = "write" /\ hook[h].task \in {"begin", "save"}
  BY <1>1, StageTask DEF WriteFile, At
<1>3. /\ dirs' = [dirs EXCEPT ![Target(h)] = Written(hook[h].output)]
      /\ SameSession(s) /\ upset' = upset
  BY <1>1 DEF WriteFile, SameSession
<1>4. FinishedAs(h)
  BY <1>1, FinishRecord DEF WriteFile
<1>5. PICK d : d = Written(hook[h].output)
  OBVIOUS
<1>6. DirsOnly({Target(h)})
      /\ (Target(h) \in DOMAIN dirs => Target(h) \in DOMAIN dirs' /\ dirs'[Target(h)] = d)
  BY <1>3, <1>5, OnlyWritten
<1>7. d.written /\ d.output = hook[h].output
  BY <1>5 DEF Written
<1>8. CASE hook[h].task = "begin"
  <2>1. Onward(h, "open", "create") /\ busy' = busy
    BY <1>4, <1>8 DEF FinishedAs
  <2>2. OwnStep(h) /\ ~Idle(hook'[h]) /\ hook'[h].task = "open" /\ hook'[h].at = "create"
    BY <1>8, <2>1 DEF Onward, OwnStep, Idle
  <2>3. SUFFICES ASSUME Calm(s)' PROVE HookDue(s, h)'
    BY <1>3, <1>8, <2>1, <2>2, OwnLone DEF BusyStep, SameSession
  <2>4. Calm(s)
    BY <1>3, <2>3 DEF Calm, SameSession
  <2>5. HookDue(s, h) /\ s \in busy /\ hook[h].turn = turn[s]
    BY <1>8, <2>4, OwnDue DEF OwnInv
  <2>6. Target(h) = ReceiptAt(s) /\ NoticeAt(s) # ReceiptAt(s)
    BY <1>1, <1>8, <2>5, TargetIs, PathsApart DEF OwnInv
  <2>7. \A o : HasExactly(NoticeAt(s), o)' <=> HasExactly(NoticeAt(s), o)
    BY <1>3, <1>6, <2>6, NoticeKept
  <2>8. /\ ReceiptAt(s)' = ReceiptAt(s) /\ NoticeAt(s)' = NoticeAt(s)
        /\ ThisTurn(s)' = ThisTurn(s) /\ TurnBefore(s)' = TurnBefore(s)
        /\ CalmBefore(s)' <=> CalmBefore(s)
    BY <1>3, SessionPaths DEF SameSession, CalmBefore
  <2>9. /\ ThisTurn(s) = {} /\ ReceiptAt(s) \in DOMAIN dirs
        /\ CalmBefore(s) => HasExactly(NoticeAt(s), TurnBefore(s))
    BY <1>2, <1>8, <2>5 DEF HookDue, BeginDue
  <2>10. hook[h].output = {}
    BY <1>1, <1>8 DEF Typed
  <2>11. Received(s)'
    BY <1>6, <1>7, <2>6, <2>8, <2>9, <2>10 DEF Received, HasReceipt
  <2>12. CalmBefore(s)' => HasExactly(NoticeAt(s), TurnBefore(s))'
    BY <2>7, <2>8, <2>9 DEF HasExactly, HasReceipt
  <2>13. PICK r : r = hook'[h]
    OBVIOUS
  <2>14. OpenDue(s, r)'
    BY <2>2, <2>11, <2>12, <2>13 DEF OpenDue
  <2> QED  BY <2>2, <2>13, <2>14 DEF HookDue, BeginDue, ShowDue, ConsumeDue, SaveDue
<1>9. CASE hook[h].task = "save"
  <2>1. Ended(h) /\ busy' = IF Stopping(h) THEN busy \ {s} ELSE busy
    BY <1>1, <1>4, <1>9 DEF FinishedAs
  <2>2. OwnStep(h) /\ Idle(hook'[h])
    BY <2>1, IdleTyped DEF Ended, OwnStep, Idle
  <2>3. BusyStep(h)
    BY <1>1, <2>1, <2>2 DEF BusyStep
  <2>4. SUFFICES ASSUME Calm(s)' PROVE CalmInv(s)'
    BY <2>2, <2>3 DEF CalmInv
  <2>5. Calm(s)
    BY <1>3, <2>4 DEF Calm, SameSession
  <2>6. HookDue(s, h) /\ s \in busy /\ hook[h].turn = turn[s] /\ Mine(s) = {h}
    BY <1>9, <2>5, OwnDue DEF OwnInv
  <2>7. Target(h) = NoticeAt(s)
    BY <1>1, <1>9, <2>6, TargetIs
  <2>8. NoticeAt(s)' = NoticeAt(s) /\ ThisTurn(s)' = ThisTurn(s)
    BY <1>3, SessionPaths DEF SameSession
  <2>9. hook[h].output = ThisTurn(s) /\ NoticeAt(s) \in DOMAIN dirs
    BY <1>2, <1>9, <2>6 DEF HookDue, SaveDue
  <2>10. HasExactly(NoticeAt(s), ThisTurn(s))'
    BY <1>6, <1>7, <2>7, <2>8, <2>9 DEF HasExactly, HasReceipt
  <2>11. s \notin busy'
    BY <1>1, <1>9, <2>1, <2>6 DEF Stopping, Works
  <2>12. Mine(s)' = {}
    BY <1>1, <2>2, <2>6, OwnHooks
  <2> QED  BY <2>10, <2>11, <2>12, LoneEnds
<1> QED  BY <1>2, <1>8, <1>9

-----------------------------------------------------------------------------
(* The page of the hook's prompt is written, and no other. *)
OtherPagesStay(id) == \A e \in ToSet(lastWrites) : e.id # id => e \in ToSet(lastWrites')

LEMMA OtherPages ==
    ASSUME NEW id, OtherPagesStay(id), NEW i, i # id, NEW context, NEW output,
           PageIs(i, context, output)
    PROVE  PageIs(i, context, output)'
<1>1. PICK e \in ToSet(lastWrites) : e.id = i /\ e.context = context /\ e.output = output
  BY DEF PageIs
<1>2. e \in ToSet(lastWrites')
  BY <1>1 DEF OtherPagesStay
<1> QED  BY <1>1, <1>2 DEF PageIs

LEMMA OpenedIs ==
    ASSUME HookInv, AgentInv, PageInv, NEW h \in Hooks, NEW id, id = Page(h), OpenPage(h)
    PROVE  OtherPagesStay(id) /\ PageIs(id, FALSE, {})' /\ hook[h].task = "open"
<1>1. Typed(hook[h])
  BY DEF HookInv
<1>2. CreateDetail(Page(h), clock) /\ hook[h].task = "open"
  BY <1>1, StageTask DEF OpenPage, At
<1>3. Page(h) \in Prompts /\ clock \in Nat
  BY <1>2, PageNamed
<1>4. ToSet(lastWrites') = {e \in ToSet(lastWrites) : e.id # id} \cup {NewDetail(id, clock)}
  BY <1>2, <1>3, Created
<1>5. PICK d : d = NewDetail(id, clock)
  OBVIOUS
<1>6. d.id = id /\ d.context = FALSE /\ d.output = {}
  BY <1>5 DEF NewDetail
<1> QED  BY <1>2, <1>4, <1>5, <1>6 DEF OtherPagesStay, PageIs

LEMMA RulesIs ==
    ASSUME HookInv, PageInv, NEW h \in Hooks, NEW id, id = Page(h), RecordRules(h),
           PageIs(id, FALSE, {}), ~Upset(h)
    PROVE  OtherPagesStay(id) /\ PageIs(id, TRUE, {})'
<1>1. PICK d \in ToSet(details) : d.id = id /\ WriteDetail([d EXCEPT !.context = TRUE])
  BY DEF RecordRules, RecordContext, Of
<1>2. PICK w : w = [d EXCEPT !.context = TRUE]
  OBVIOUS
<1>3. d \in Detail /\ d \in ToSet(lastWrites)
  <2>1. details \in Seq(Detail) /\ d \in ToSet(lastWrites)
    BY DEF PageInv
  <2> QED  BY <2>1 DEF ToSet
<1>4. PICK e \in ToSet(lastWrites) : e.id = id /\ e.context = FALSE /\ e.output = {}
  BY DEF PageIs
<1>5. e = d
  BY <1>1, <1>3, <1>4 DEF PageInv, UniqueIds, ToSet
<1>6. w \in Detail /\ w.id = id /\ w.output = {} /\ w.context = TRUE
  <2>1. TRUE \in BOOLEAN
    OBVIOUS
  <2> QED  BY <1>1, <1>2, <1>3, <1>4, <1>5, <2>1 DEF Detail
<1>7. ToSet(lastWrites') = {c \in ToSet(lastWrites) : c.id # w.id} \cup {w}
  BY <1>1, <1>2, <1>6, Wrote
<1> QED  BY <1>6, <1>7 DEF OtherPagesStay, PageIs

LEMMA ResultIs ==
    ASSUME HookInv, PageInv, NEW h \in Hooks, NEW id, id = Page(h), TellResult(h),
           NEW context, NEW before, PageIs(id, context, before), ~Upset(h),
           NEW output, output = hook[h].output
    PROVE  OtherPagesStay(id) /\ PageIs(id, context, output)'
<1>1. PICK d \in ToSet(details) : d.id = id /\ WriteDetail([d EXCEPT !.output = output])
  BY DEF TellResult, RecordOutcome, Of
<1>2. PICK w : w = [d EXCEPT !.output = output]
  OBVIOUS
<1>3. d \in Detail /\ d \in ToSet(lastWrites)
  <2>1. details \in Seq(Detail) /\ d \in ToSet(lastWrites)
    BY DEF PageInv
  <2> QED  BY <2>1 DEF ToSet
<1>4. PICK e \in ToSet(lastWrites) : e.id = id /\ e.context = context /\ e.output = before
  BY DEF PageIs
<1>5. e = d
  BY <1>1, <1>3, <1>4 DEF PageInv, UniqueIds, ToSet
<1>6. w \in Detail /\ w.id = id /\ w.output = output /\ w.context = context
  <2>1. output \in SUBSET (Nat \X Nat)
    BY DEF HookInv, Typed
  <2> QED  BY <1>1, <1>2, <1>3, <1>4, <1>5, <2>1 DEF Detail
<1>7. ToSet(lastWrites') = {c \in ToSet(lastWrites) : c.id # w.id} \cup {w}
  BY <1>1, <1>2, <1>6, Wrote
<1> QED  BY <1>6, <1>7 DEF OtherPagesStay, PageIs

(* Whether or not it could be written, other pages stay. *)
LEMMA PageWrites ==
    ASSUME PageInv, HookInv, NEW h \in Hooks, NEW id, id = Page(h), RecordRules(h) \/ TellResult(h)
    PROVE  \/ UNCHANGED <<details, lastWrites>>
           \/ \E d \in ToSet(details), w \in Detail : d.id = id /\ w.id = id /\ WriteDetail(w)
<1>1. CASE RecordContext(Page(h)) \/ RecordOutcome(Page(h), hook[h].output)
  <2>1. PICK d \in ToSet(details) :
            /\ d.id = id
            /\ \/ WriteDetail([d EXCEPT !.context = TRUE])
               \/ WriteDetail([d EXCEPT !.output = hook[h].output])
    BY <1>1 DEF RecordContext, RecordOutcome, Of
  <2>2. d \in Detail
    BY DEF PageInv, ToSet
  <2>3. TRUE \in BOOLEAN /\ hook[h].output \in SUBSET (Nat \X Nat)
    BY DEF HookInv, Typed
  <2>4. /\ [d EXCEPT !.context = TRUE] \in Detail /\ [d EXCEPT !.context = TRUE].id = id
        /\ [d EXCEPT !.output = hook[h].output] \in Detail
        /\ [d EXCEPT !.output = hook[h].output].id = id
    BY <2>1, <2>2, <2>3 DEF Detail
  <2> QED  BY <2>1, <2>4
<1> QED  BY <1>1 DEF RecordRules, TellResult

LEMMA RulesElsewhere ==
    ASSUME PageInv, NEW h \in Hooks, NEW id, id = Page(h), RecordRules(h) \/ TellResult(h), HookInv
    PROVE  OtherPagesStay(id)
<1>1. CASE lastWrites' = lastWrites
  BY <1>1 DEF OtherPagesStay
<1>2. CASE \E d \in ToSet(details), w \in Detail : d.id = id /\ w.id = id /\ WriteDetail(w)
  <2>1. PICK w \in Detail : w.id = id /\ WriteDetail(w)
    BY <1>2
  <2>2. ToSet(lastWrites') = {c \in ToSet(lastWrites) : c.id # w.id} \cup {w}
    BY <2>1, Wrote
  <2> QED  BY <2>1, <2>2 DEF OtherPagesStay
<1> QED  BY <1>1, <1>2, PageWrites

-----------------------------------------------------------------------------
(* The page is opened: it shows nothing, and rules come next if there are.   *)
LEMMA OpenFields ==
    ASSUME HookInv, NEW h \in Hooks, OpenPage(h)
    PROVE  /\ OthersStay(h) /\ hook'[h].page /\ hook'[h].output = hook[h].output
           /\ hook'[h].session = hook[h].session /\ hook'[h].turn = hook[h].turn
           /\ hook'[h].task = IF world.rules THEN "open" ELSE "show"
           /\ hook'[h].at = IF world.rules THEN "context" ELSE "claim"
<1>1. DOMAIN hook = Hooks /\ DOMAIN hook[h] = HookFields
  BY DEF HookInv, Typed
<1>2. PICK task, at : /\ task = IF world.rules THEN "open" ELSE "show"
                      /\ at = IF world.rules THEN "context" ELSE "claim"
  OBVIOUS
<1>3. PICK r : r = [hook[h] EXCEPT !.page = TRUE, !.task = task, !.at = at]
  OBVIOUS
<1>4. hook' = [hook EXCEPT ![h] = r]
  BY <1>1, <1>2, <1>3 DEF OpenPage
<1>5. OthersStay(h) /\ hook'[h] = r
  BY <1>1, <1>4 DEF OthersStay
<1>6. /\ r.page = TRUE /\ r.task = task /\ r.at = at /\ r.output = hook[h].output
      /\ r.session = hook[h].session /\ r.turn = hook[h].turn
  BY <1>1, <1>3 DEF HookFields
<1> QED  BY <1>2, <1>5, <1>6

(* A step that leaves the directories as they are. *)
LEMMA DirsSame ==
    ASSUME NEW s, SameSession(s), UNCHANGED dirs
    PROVE  /\ \A o : HasExactly(NoticeAt(s), o)' <=> HasExactly(NoticeAt(s), o)
           /\ Received(s)' <=> Received(s)
           /\ HasReceipt(ReceiptAt(s))' <=> HasReceipt(ReceiptAt(s))
           /\ dirs'[ReceiptAt(s)'] = dirs[ReceiptAt(s)]
<1>1. ReceiptAt(s)' = ReceiptAt(s)
  BY SessionPaths DEF SameSession
<1>2. DirsOnly({})
  BY DEF DirsOnly
<1> QED  BY <1>1, <1>2, NoticeKept, ReceiptKept

LEMMA OpenCalm ==
    ASSUME NEW s, NEW h, OwnInv(s, h), OpenPage(h)
    PROVE  OwnStep(h) /\ BusyStep(h) /\ CalmInv(s)'
<1>1. h \in Hooks /\ HookInv /\ Typed(hook[h]) /\ s \in Sessions /\ hook[h].session = s
  BY DEF OwnInv, HookInv, Mine
<1>2. hook[h].task = "open"
  BY <1>1, StageTask DEF OpenPage, At
<1>3. /\ SameSession(s) /\ upset' = upset /\ busy' = busy /\ UNCHANGED dirs
  BY <1>1 DEF OpenPage, SameSession, receiptVars, agentVars, treeVars
<1>4. /\ OthersStay(h) /\ hook'[h].page /\ hook'[h].output = hook[h].output
      /\ hook'[h].session = hook[h].session /\ hook'[h].turn = hook[h].turn
      /\ hook'[h].task = IF world.rules THEN "open" ELSE "show"
      /\ hook'[h].at = IF world.rules THEN "context" ELSE "claim"
  BY <1>1, OpenFields
<1>5. OwnStep(h) /\ ~Idle(hook'[h]) /\ hook'[h].task # "record" /\ BusyStep(h)
  BY <1>2, <1>3, <1>4 DEF OwnStep, Idle, BusyStep
<1>6. SUFFICES ASSUME Calm(s)' PROVE HookDue(s, h)'
  BY <1>2, <1>3, <1>5, OwnLone DEF SameSession
<1>7. Calm(s)
  BY <1>3, <1>6 DEF Calm, SameSession
<1>8. HookDue(s, h) /\ s \in busy /\ hook[h].turn = turn[s]
  BY <1>2, <1>7, OwnDue DEF OwnInv
<1>9. PICK r, id : r = hook'[h] /\ id = Page(h)
  OBVIOUS
<1>10. id = <<s, turn[s]>> /\ id = <<s, turn'[s]>>
  BY <1>1, <1>3, <1>8, <1>9 DEF Page, SameSession
<1>11. PageIs(id, FALSE, {})'
  BY <1>1, <1>9, OpenedIs DEF OwnInv
<1>12. PageIs(<<s, turn[s]>>, FALSE, {})'
  BY <1>10, <1>11
<1>13. hook[h].output = {}
  BY <1>1, <1>2 DEF Typed
<1>14. /\ \A o : HasExactly(NoticeAt(s), o)' <=> HasExactly(NoticeAt(s), o)
       /\ Received(s)' <=> Received(s)
  BY <1>3, DirsSame
<1>15. /\ NoticeAt(s)' = NoticeAt(s) /\ TurnBefore(s)' = TurnBefore(s)
       /\ CalmBefore(s)' <=> CalmBefore(s)
  BY <1>3, SessionPaths DEF SameSession, CalmBefore
<1>16. Received(s) /\ (CalmBefore(s) => HasExactly(NoticeAt(s), TurnBefore(s)))
  BY <1>2, <1>8 DEF HookDue, OpenDue
<1>17. Received(s)' /\ (CalmBefore(s)' => HasExactly(NoticeAt(s), TurnBefore(s))')
  BY <1>14, <1>15, <1>16 DEF HasExactly, HasReceipt
<1>18. CASE world.rules
  <2>1. OpenDue(s, r)'
    BY <1>3, <1>4, <1>9, <1>12, <1>17, <1>18 DEF OpenDue, SameSession
  <2> QED  BY <1>4, <1>9, <1>18, <2>1 DEF HookDue, BeginDue, ShowDue, ConsumeDue, SaveDue
<1>19. CASE ~world.rules
  <2>1. world.rules = FALSE
    BY <1>1, <1>19, NoticeAssumption DEF OwnInv, AgentInv
  <2>2. Opened(s, r)'
    BY <1>3, <1>4, <1>9, <1>12, <2>1 DEF Opened, SameSession
  <2>3. ShowDue(s, h, r)'
    BY <1>4, <1>9, <1>13, <1>17, <1>19, <2>2 DEF ShowDue
  <2> QED  BY <1>4, <1>9, <1>19, <2>3 DEF HookDue, BeginDue, OpenDue, ConsumeDue, SaveDue
<1> QED  BY <1>18, <1>19

(* An error upsets the turn. *)
LEMMA UpsetNot ==
    ASSUME NEW s, NEW h, hook[h].session = s, turn' = turn, Calm(s)'
    PROVE  ~Upset(h)
<1> QED  BY DEF Upset, Calm

(* The rules that matched are on the page, and the notice comes next.        *)
LEMMA RulesCalm ==
    ASSUME NEW s, NEW h, OwnInv(s, h), RecordRules(h)
    PROVE  OwnStep(h) /\ BusyStep(h) /\ CalmInv(s)' /\ upset \subseteq upset'
<1>1. h \in Hooks /\ HookInv /\ Typed(hook[h]) /\ s \in Sessions /\ hook[h].session = s
  BY DEF OwnInv, HookInv, Mine
<1>2. hook[h].task = "open" /\ hook[h].at = "context"
  BY <1>1, StageTask DEF RecordRules, At
<1>3. /\ SameSession(s) /\ upset \subseteq upset' /\ busy' = busy /\ UNCHANGED dirs
  BY <1>1 DEF RecordRules, SameSession, receiptVars, agentVars, treeVars, Upset
<1>4. Onward(h, "show", "claim")
  BY <1>1, NextTaskRecord DEF RecordRules
<1>5. OwnStep(h) /\ ~Idle(hook'[h]) /\ hook'[h].task # "record" /\ BusyStep(h)
  BY <1>2, <1>3, <1>4 DEF OwnStep, Idle, BusyStep, Onward
<1>6. ASSUME Calm(s)' PROVE HookDue(s, h)'
  <2>1. Calm(s) /\ ~Upset(h)
    BY <1>1, <1>3, <1>6, UpsetNot DEF Calm, SameSession
  <2>2. HookDue(s, h) /\ s \in busy /\ hook[h].turn = turn[s]
    BY <1>2, <2>1, OwnDue DEF OwnInv
  <2>3. PICK r, id : r = hook'[h] /\ id = Page(h)
    OBVIOUS
  <2>4. id = <<s, turn[s]>> /\ id = <<s, turn'[s]>>
    BY <1>1, <1>3, <2>2, <2>3 DEF Page, SameSession
  <2>5. /\ Received(s) /\ (CalmBefore(s) => HasExactly(NoticeAt(s), TurnBefore(s)))
        /\ world.rules /\ hook[h].page /\ PageIs(<<s, turn[s]>>, FALSE, {})
    BY <1>2, <2>2 DEF HookDue, OpenDue
  <2>6. PageIs(id, FALSE, {})
    BY <2>4, <2>5
  <2>7. PageIs(id, TRUE, {})'
    BY <1>1, <2>1, <2>3, <2>6, RulesIs DEF OwnInv
  <2>8. PageIs(<<s, turn[s]>>, TRUE, {})'
    BY <2>4, <2>7
  <2>9. world.rules = TRUE
    BY <1>1, <2>5, NoticeAssumption DEF OwnInv, AgentInv
  <2>10. r.page /\ r.output = {} /\ r.task = "show" /\ r.at = "claim"
    BY <1>1, <1>2, <1>4, <2>3, <2>5 DEF Typed, Onward
  <2>11. /\ \A o : HasExactly(NoticeAt(s), o)' <=> HasExactly(NoticeAt(s), o)
         /\ Received(s)' <=> Received(s)
    BY <1>3, DirsSame
  <2>12. /\ NoticeAt(s)' = NoticeAt(s) /\ TurnBefore(s)' = TurnBefore(s)
         /\ CalmBefore(s)' => CalmBefore(s)
    BY <1>3, SessionPaths DEF SameSession, CalmBefore
  <2>13. Received(s)' /\ (CalmBefore(s)' => HasExactly(NoticeAt(s), TurnBefore(s))')
    BY <2>5, <2>11, <2>12 DEF HasExactly, HasReceipt
  <2>14. Opened(s, r)'
    BY <1>3, <2>8, <2>9, <2>10 DEF Opened, SameSession
  <2>15. ShowDue(s, h, r)'
    BY <2>10, <2>13, <2>14 DEF ShowDue
  <2> QED  BY <2>3, <2>10, <2>15 DEF HookDue, BeginDue, OpenDue, ConsumeDue, SaveDue
<1> QED  BY <1>2, <1>3, <1>5, <1>6, OwnLone DEF SameSession

(* A lone hook ends, and the turn goes on. *)
LEMMA ShownCalm ==
    ASSUME NEW s, NEW h, OwnInv(s, h), hook[h].task \in {"show", "tell"}, Ended(h), busy' = busy,
           SameSession(s), upset \subseteq upset', UNCHANGED dirs,
           Calm(s) => HasExactly(NoticeAt(s), {})
    PROVE  OwnStep(h) /\ BusyStep(h) /\ CalmInv(s)'
<1>1. h \in Hooks /\ s \in Sessions /\ hook[h].session = s
  BY DEF OwnInv, Mine
<1>2. OwnStep(h) /\ Idle(hook'[h]) /\ BusyStep(h)
  BY IdleTyped DEF Ended, OwnStep, BusyStep, Idle
<1>3. SUFFICES ASSUME Calm(s)' PROVE CalmInv(s)'
  BY <1>2 DEF CalmInv
<1>4. Calm(s)
  BY <1>3 DEF Calm, SameSession
<1>5. HookDue(s, h) /\ s \in busy /\ hook[h].turn = turn[s] /\ Mine(s) = {h}
  BY <1>4, OwnDue DEF OwnInv
<1>6. Mine(s)' = {}
  BY <1>1, <1>2, <1>5, OwnHooks
<1>7. Received(s) /\ HasExactly(NoticeAt(s), {})
  BY <1>4, <1>5 DEF HookDue, ShowDue
<1>8. HasExactly(NoticeAt(s), {})' /\ Received(s)'
  BY <1>7, DirsSame
<1> QED  BY <1>5, <1>6, <1>8, LoneEnds DEF Received

(* The agent was told. *)
LEMMA TellCalm ==
    ASSUME NEW s, NEW h, OwnInv(s, h), TellResult(h)
    PROVE  OwnStep(h) /\ BusyStep(h) /\ CalmInv(s)' /\ upset \subseteq upset'
<1>1. h \in Hooks /\ HookInv /\ Typed(hook[h]) /\ s \in Sessions /\ hook[h].session = s
  BY DEF OwnInv, HookInv, Mine
<1>2. hook[h].task = "tell" /\ hook[h].at = "result"
  BY <1>1, StageTask DEF TellResult, At
<1>3. /\ SameSession(s) /\ upset \subseteq upset' /\ busy' = busy /\ UNCHANGED dirs
  BY <1>1 DEF TellResult, SameSession, receiptVars, agentVars, treeVars, Upset
<1>4. Ended(h)
  BY <1>1, EndRecord DEF TellResult
<1>5. Calm(s) => HasExactly(NoticeAt(s), {})
  <2>1. Calm(s) => HookDue(s, h)
    BY <1>2, OwnDue DEF OwnInv
  <2> QED  BY <1>2, <2>1 DEF HookDue, ShowDue
<1> QED  BY <1>2, <1>3, <1>4, <1>5, ShownCalm

-----------------------------------------------------------------------------
(* A hook leaves, having tried to remove empty directories. *)
LEMMA LeavesCalm ==
    ASSUME NEW s, NEW h, OwnInv(s, h), hook[h].at \in {"prune", "pruneAgent"}, FinishedAs(h),
           SameSession(s), upset' = upset, UNCHANGED <<dirs, lastWrites>>
    PROVE  OwnStep(h) /\ BusyStep(h) /\ CalmInv(s)'
<1>1. h \in Hooks /\ HookInv /\ Typed(hook[h]) /\ s \in Sessions /\ hook[h].session = s
      /\ h \in Mine(s) /\ ~Idle(hook[h])
  BY DEF OwnInv, HookInv, Mine
<1>2. hook[h].task \in {"show", "consume", "record"}
  BY <1>1, StageTask DEF Idle
<1>3. /\ NoticeAt(s)' = NoticeAt(s) /\ ReceiptAt(s)' = ReceiptAt(s)
      /\ TurnBefore(s)' = TurnBefore(s) /\ ThisTurn(s)' = ThisTurn(s)
      /\ CalmBefore(s)' <=> CalmBefore(s)
  BY <1>1, SessionPaths DEF SameSession, CalmBefore
<1>4. /\ \A o : HasExactly(NoticeAt(s), o)' <=> HasExactly(NoticeAt(s), o)
      /\ Received(s)' <=> Received(s)
      /\ HasReceipt(ReceiptAt(s))' <=> HasReceipt(ReceiptAt(s))
      /\ dirs'[ReceiptAt(s)'] = dirs[ReceiptAt(s)]
  BY DirsSame
<1>5. Calm(s)' <=> Calm(s)
  BY DEF Calm, SameSession
<1>6. CASE hook[h].task = "show" /\ hook[h].output # {} /\ hook[h].page
  <2>1. Onward(h, "tell", "result") /\ busy' = busy
    BY <1>6 DEF FinishedAs
  <2>2. OwnStep(h) /\ ~Idle(hook'[h]) /\ hook'[h].task # "record" /\ BusyStep(h)
    BY <1>6, <2>1 DEF Onward, OwnStep, Idle, BusyStep
  <2>3. ASSUME Calm(s)' PROVE HookDue(s, h)'
    <3>1. HookDue(s, h)
      BY <1>5, <1>6, <2>3, OwnDue DEF OwnInv
    <3>2. PICK r : r = hook'[h]
      OBVIOUS
    <3>3. r.task = "tell" /\ r.at = "result" /\ r.output = hook[h].output /\ r.page = hook[h].page
      BY <2>1, <3>2 DEF Onward
    <3>4. /\ Received(s) /\ HasExactly(NoticeAt(s), {}) /\ PageIs(<<s, turn[s]>>, world.rules, {})
          /\ CalmBefore(s) => hook[h].output = TurnBefore(s)
      BY <1>6, <3>1 DEF HookDue, ShowDue, Opened
    <3>5. PageIs(<<s, turn[s]>>, world.rules, {})'
      BY <3>4 DEF PageIs, SameSession
    <3>6. HasExactly(NoticeAt(s), {})' /\ Received(s)'
      BY <1>4, <3>4
    <3>7. CalmBefore(s)' => r.output = TurnBefore(s)'
      BY <1>3, <3>3, <3>4
    <3>8. ShowDue(s, h, r)'
      BY <1>6, <3>3, <3>5, <3>6, <3>7 DEF ShowDue, Opened
    <3> QED  BY <3>2, <3>3, <3>8 DEF HookDue, BeginDue, OpenDue, ConsumeDue, SaveDue
  <2> QED  BY <1>6, <2>1, <2>2, <2>3, OwnLone DEF SameSession
<1>7. CASE hook[h].task = "show" /\ ~(hook[h].output # {} /\ hook[h].page)
  <2>1. Ended(h) /\ busy' = busy
    BY <1>7 DEF FinishedAs
  <2>2. Calm(s) => HookDue(s, h)
    BY <1>7, OwnDue DEF OwnInv
  <2>3. Calm(s) => HasExactly(NoticeAt(s), {})
    BY <1>7, <2>2 DEF HookDue, ShowDue
  <2> QED  BY <1>7, <2>1, <2>3, ShownCalm
<1>8. CASE hook[h].task = "consume" /\ hook[h].output # {}
  <2>1. Onward(h, "save", "lock") /\ busy' = busy
    BY <1>8 DEF FinishedAs
  <2>2. OwnStep(h) /\ ~Idle(hook'[h]) /\ hook'[h].task # "record" /\ BusyStep(h)
    BY <1>8, <2>1 DEF Onward, OwnStep, Idle, BusyStep
  <2>3. ASSUME Calm(s)' PROVE HookDue(s, h)'
    <3>1. HookDue(s, h)
      BY <1>5, <1>8, <2>3, OwnDue DEF OwnInv
    <3>2. hook[h].output = ThisTurn(s)
      BY <1>8, <3>1 DEF HookDue, ConsumeDue
    <3>3. PICK r : r = hook'[h]
      OBVIOUS
    <3>4. r.task = "save" /\ r.at = "lock" /\ r.output = hook[h].output
      BY <2>1, <3>3 DEF Onward
    <3>5. SaveDue(s, r)'
      BY <1>3, <3>2, <3>4 DEF SaveDue
    <3> QED  BY <3>3, <3>4, <3>5 DEF HookDue, BeginDue, OpenDue, ConsumeDue, ShowDue
  <2> QED  BY <1>8, <2>1, <2>2, <2>3, OwnLone DEF SameSession
<1>9. CASE hook[h].task = "consume" /\ hook[h].output = {}
  <2>1. Ended(h) /\ busy' = IF Stopping(h) THEN busy \ {s} ELSE busy
    BY <1>1, <1>9 DEF FinishedAs
  <2>2. OwnStep(h) /\ Idle(hook'[h])
    BY <2>1, IdleTyped DEF Ended, OwnStep, Idle
  <2>3. BusyStep(h)
    BY <1>1, <2>1, <2>2 DEF BusyStep
  <2>4. SUFFICES ASSUME Calm(s)' PROVE CalmInv(s)'
    BY <2>2, <2>3 DEF CalmInv
  <2>5. HookDue(s, h) /\ s \in busy /\ hook[h].turn = turn[s] /\ Mine(s) = {h}
    BY <1>5, <1>9, <2>4, OwnDue DEF OwnInv
  <2>6. ThisTurn(s) = {} /\ HasExactly(NoticeAt(s), {})
    BY <1>9, <2>5 DEF HookDue, ConsumeDue
  <2>7. HasExactly(NoticeAt(s), ThisTurn(s))'
    <3>1. HasExactly(NoticeAt(s), {})' /\ ThisTurn(s)' = {}
      BY <1>3, <1>4, <2>6
    <3> QED  BY <3>1
  <2>8. s \notin busy'
    BY <1>1, <1>9, <2>1, <2>5 DEF Stopping, Works
  <2>9. Mine(s)' = {}
    BY <1>1, <2>2, <2>5, OwnHooks
  <2> QED  BY <2>7, <2>8, <2>9, LoneEnds
<1>10. CASE hook[h].task = "record"
  <2>1. Ended(h) /\ busy' = busy
    BY <1>10 DEF FinishedAs, Stopping, Works
  <2>2. OwnStep(h) /\ Idle(hook'[h]) /\ BusyStep(h)
    BY <2>1, IdleTyped DEF Ended, OwnStep, BusyStep, Idle
  <2>3. SUFFICES ASSUME Calm(s)' PROVE CalmInv(s)'
    BY <2>2 DEF CalmInv
  <2>4. s \in busy /\ TurnDue(s) /\ \A g \in Mine(s) : hook[g].task = "record"
    BY <1>5, <1>10, <2>3, OwnDue DEF OwnInv
  <2>5. /\ Mine(s)' = Mine(s) \ {h}
        /\ \A g \in Mine(s) : g # h => hook'[g] = hook[g]
    BY <1>1, <2>2, OwnHooks
  <2>6. InFlight(s)' = InFlight(s)
    <3>1. {g \in Mine(s)' : hook'[g].at = "record"} = {g \in Mine(s) : hook[g].at = "record"}
      BY <2>5
    <3>2. PICK G : G = {g \in Mine(s) : hook[g].at = "record"}
      OBVIOUS
    <3>3. {hook'[g].output : g \in G} = {hook[g].output : g \in G}
      BY <2>5, <3>2
    <3> QED  BY <3>1, <3>2, <3>3 DEF InFlight
  <2>7. TurnDue(s)'
    BY <1>3, <1>4, <2>4, <2>6 DEF TurnDue
  <2> QED  BY <2>1, <2>4, <2>5, <2>7, RecordersStay
<1> QED  BY <1>2, <1>6, <1>7, <1>8, <1>9, <1>10

(* From one stage after the claim was read to the next *)
LEMMA LaterCalm ==
    ASSUME NEW s, NEW h, OwnInv(s, h), hook[h].at \in {"discard", "prune"},
           NEW place \in {"prune", "pruneAgent"}, Onward(h, hook[h].task, place),
           SameSession(s), DirsOnly({Claim(h)}), UNCHANGED <<busy, upset, lastWrites>>
    PROVE  OwnStep(h) /\ BusyStep(h) /\ CalmInv(s)'
<1>1. h \in Hooks /\ HookInv /\ Typed(hook[h]) /\ s \in Sessions /\ hook[h].session = s
      /\ h \in Mine(s) /\ ~Idle(hook[h])
  BY DEF OwnInv, HookInv, Mine
<1>2. hook[h].task \in {"show", "consume", "record"}
  BY <1>1, StageTask DEF Idle
<1>3. OwnStep(h) /\ ~Idle(hook'[h]) /\ BusyStep(h)
  BY <1>1, OnwardOwn DEF BusyStep
<1>4. SUFFICES ASSUME Calm(s)' PROVE CalmInv(s)'
  BY <1>3 DEF CalmInv
<1>5. Calm(s) /\ (CalmBefore(s)' => CalmBefore(s))
  BY <1>4 DEF Calm, CalmBefore, SameSession
<1>6. s \in busy /\ hook[h].turn = turn[s]
  BY <1>1, <1>5, OwnDue DEF OwnInv
<1>7. NoticeAt(s) \notin {Claim(h)} /\ ReceiptAt(s) \notin {Claim(h)}
  BY <1>1, <1>6, PathsApart DEF OwnInv
<1>8. /\ \A o : HasExactly(NoticeAt(s), o)' <=> HasExactly(NoticeAt(s), o)
      /\ Received(s)' <=> Received(s)
      /\ HasReceipt(ReceiptAt(s))' <=> HasReceipt(ReceiptAt(s))
      /\ HasReceipt(ReceiptAt(s)) => dirs'[ReceiptAt(s)'] = dirs[ReceiptAt(s)]
  BY <1>7, NoticeKept, ReceiptKept
<1>9. TurnBefore(s)' = TurnBefore(s) /\ ThisTurn(s)' = ThisTurn(s)
  BY SessionPaths DEF SameSession
<1>10. PICK r : r = hook'[h]
  OBVIOUS
<1>11. r.task = hook[h].task /\ r.at = place /\ r.output = hook[h].output /\ r.page = hook[h].page
  BY <1>10 DEF Onward
<1>12. CASE hook[h].task = "show"
  <2>1. HookDue(s, h)
    BY <1>5, <1>12, OwnDue DEF OwnInv
  <2>2. /\ Received(s) /\ HasExactly(NoticeAt(s), {}) /\ hook[h].page
        /\ PageIs(<<s, turn[s]>>, world.rules, {})
        /\ CalmBefore(s) => hook[h].output = TurnBefore(s)
    BY <1>12, <2>1 DEF HookDue, ShowDue, Opened
  <2>3. PageIs(<<s, turn[s]>>, world.rules, {})'
    BY <2>2 DEF PageIs, SameSession
  <2>4. Received(s)' /\ HasExactly(NoticeAt(s), {})' /\ Opened(s, r)'
    BY <1>8, <1>11, <2>2, <2>3 DEF Opened
  <2>5. CalmBefore(s)' => r.output = TurnBefore(s)'
    BY <1>5, <1>9, <1>11, <2>2
  <2>6. ShowDue(s, h, r)'
    BY <1>11, <1>12, <2>4, <2>5 DEF ShowDue
  <2>7. HookDue(s, h)'
    BY <1>10, <1>11, <1>12, <2>6 DEF HookDue, BeginDue, OpenDue, ConsumeDue, SaveDue
  <2> QED  BY <1>3, <1>10, <1>11, <1>12, <2>7, OwnLone DEF SameSession
<1>13. CASE hook[h].task = "consume"
  <2>1. HookDue(s, h)
    BY <1>5, <1>13, OwnDue DEF OwnInv
  <2>2. HasExactly(NoticeAt(s), {}) /\ hook[h].output = ThisTurn(s)
    BY <1>13, <2>1 DEF HookDue, ConsumeDue
  <2>3. HasExactly(NoticeAt(s), {})' /\ r.output = ThisTurn(s)'
    BY <1>8, <1>9, <1>11, <2>2
  <2>4. ConsumeDue(s, h, r)'
    BY <1>11, <1>13, <2>3 DEF ConsumeDue
  <2>5. HookDue(s, h)'
    BY <1>10, <1>11, <1>13, <2>4 DEF HookDue, BeginDue, OpenDue, ShowDue, SaveDue
  <2> QED  BY <1>3, <1>10, <1>11, <1>13, <2>5, OwnLone DEF SameSession
<1>14. CASE hook[h].task = "record"
  <2>1. TurnDue(s) /\ \A g \in Mine(s) : hook[g].task = "record"
    BY <1>5, <1>14, OwnDue DEF OwnInv
  <2>2. Mine(s)' = Mine(s) /\ \A g \in Mine(s) : g # h => hook'[g] = hook[g]
    BY <1>1, <1>3, OwnHooks
  <2>3. \A g \in Mine(s)' : hook'[g].task = "record"
    BY <1>10, <1>11, <1>14, <2>1, <2>2
  <2>4. InFlight(s)' = InFlight(s)
    <3>1. {g \in Mine(s)' : hook'[g].at = "record"} = {g \in Mine(s) : hook[g].at = "record"}
      BY <1>10, <1>11, <2>2
    <3>2. PICK G : G = {g \in Mine(s) : hook[g].at = "record"}
      OBVIOUS
    <3>3. {hook'[g].output : g \in G} = {hook[g].output : g \in G}
      BY <2>2, <3>2
    <3> QED  BY <3>1, <3>2, <3>3 DEF InFlight
  <2>5. TurnDue(s)'
    BY <1>8, <1>9, <2>1, <2>4 DEF TurnDue
  <2> QED  BY <1>6, <2>3, <2>5, RecordersStay
<1> QED  BY <1>2, <1>12, <1>13, <1>14

LEMMA DiscardCalm ==
    ASSUME NEW s, NEW h, OwnInv(s, h), DiscardClaim(h)
    PROVE  OwnStep(h) /\ BusyStep(h) /\ CalmInv(s)'
<1>1. h \in Hooks /\ HookInv /\ s \in Sessions
  BY DEF OwnInv, Mine
<1>2. /\ hook[h].at = "discard" /\ SameSession(s) /\ UNCHANGED <<busy, upset, lastWrites>>
      /\ Go(h, "prune") /\ dirs' = Without(Claim(h))
  BY <1>1 DEF DiscardClaim, At, SameSession, agentVars, otherVars, detailVars
<1> QED  BY <1>1, <1>2, GoRecord, OnlyWithout, LaterCalm

LEMMA PruneCalm ==
    ASSUME NEW s, NEW h, OwnInv(s, h), Prune(h) \/ PruneAgent(h)
    PROVE  OwnStep(h) /\ BusyStep(h) /\ CalmInv(s)'
<1>1. h \in Hooks /\ HookInv /\ s \in Sessions
  BY DEF OwnInv, Mine
<1>2. /\ hook[h].at \in {"prune", "pruneAgent"} /\ SameSession(s)
      /\ UNCHANGED <<upset, lastWrites, dirs>>
      /\ \/ hook[h].at = "prune" /\ Go(h, "pruneAgent") /\ UNCHANGED busy
         \/ Finish(h)
  BY <1>1 DEF Prune, PruneAgent, At, SameSession, otherVars, detailVars
<1>3. DirsOnly({Claim(h)})
  BY <1>2 DEF DirsOnly
<1>4. CASE hook[h].at = "prune" /\ Go(h, "pruneAgent") /\ UNCHANGED busy
  BY <1>1, <1>2, <1>3, <1>4, GoRecord, LaterCalm
<1>5. CASE Finish(h)
  BY <1>1, <1>2, <1>5, FinishRecord, LeavesCalm
<1> QED  BY <1>2, <1>4, <1>5

-----------------------------------------------------------------------------
(* Within a task, what is found may change what the hook carries. *)
Carrying(h, place, output) ==
    /\ OthersStay(h) /\ hook'[h].at = place /\ hook'[h].output = output
    /\ hook'[h].task = hook[h].task /\ hook'[h].page = hook[h].page
    /\ hook'[h].session = hook[h].session /\ hook'[h].turn = hook[h].turn

LEMMA CarryingRecord ==
    ASSUME HookInv, NEW h \in Hooks, NEW place, NEW output,
           hook' = [hook EXCEPT ![h].at = place, ![h].output = output]
    PROVE  Carrying(h, place, output)
<1>1. DOMAIN hook = Hooks /\ DOMAIN hook[h] = HookFields
  BY DEF HookInv, Typed
<1>2. PICK r : r = [hook[h] EXCEPT !.at = place, !.output = output]
  OBVIOUS
<1>3. hook' = [hook EXCEPT ![h] = r]
  BY <1>1, <1>2
<1>4. OthersStay(h) /\ hook'[h] = r
  BY <1>1, <1>3 DEF OthersStay
<1>5. /\ r.at = place /\ r.task = hook[h].task /\ r.output = output
      /\ r.session = hook[h].session /\ r.turn = hook[h].turn /\ r.page = hook[h].page
  BY <1>1, <1>2 DEF HookFields
<1> QED  BY <1>4, <1>5 DEF Carrying

LEMMA CarryingOwn ==
    ASSUME NEW s, NEW h \in Hooks, h \in Mine(s), NEW place, NEW output, Carrying(h, place, output),
           busy' = busy
    PROVE  OwnStep(h) /\ ~Idle(hook'[h]) /\ BusyStep(h)
<1> QED  BY DEF Carrying, OwnStep, Mine, Idle, BusyStep

LEMMA OnwardCarrying ==
    ASSUME NEW h, NEW place, Onward(h, hook[h].task, place)
    PROVE  Carrying(h, place, hook[h].output)
<1> QED  BY DEF Onward, Carrying

(* What a step does when it renames. *)
Claims(h) ==
    \/ /\ Target(h) \in DOMAIN dirs
       /\ DOMAIN dirs' = (DOMAIN dirs \ {Target(h)}) \cup {Claim(h)}
       /\ dirs'[Claim(h)] = dirs[Target(h)]
       /\ Carrying(h, "read", hook[h].output)
    \/ /\ Target(h) \notin DOMAIN dirs /\ UNCHANGED dirs
       /\ Carrying(h, "prune", {})

LEMMA ClaimSteps ==
    ASSUME NEW s, NEW h, OwnInv(s, h), ClaimIt(h)
    PROVE  /\ hook[h].task \in {"show", "consume"} /\ hook[h].at = "claim"
           /\ SameSession(s) /\ UNCHANGED <<busy, upset, lastWrites>>
           /\ DirsOnly({Target(h), Claim(h)}) /\ Claims(h)
<1>1. h \in Hooks /\ HookInv /\ Typed(hook[h]) /\ s \in Sessions
  BY DEF OwnInv, HookInv, Mine
<1>2. /\ hook[h].task \in {"show", "consume"} /\ hook[h].at = "claim"
      /\ SameSession(s) /\ UNCHANGED <<busy, upset, lastWrites>>
  BY <1>1, StageTask DEF ClaimIt, At, SameSession, agentVars, otherVars, detailVars
<1>3. CASE Target(h) \in DOMAIN dirs
  <2>1. dirs' = Holding(Claim(h), dirs[Target(h)], DOMAIN dirs \ {Target(h)}) /\ Go(h, "read")
    BY <1>3 DEF ClaimIt
  <2>2. PICK S, d : S = DOMAIN dirs \ {Target(h)} /\ d = dirs[Target(h)]
    OBVIOUS
  <2>3. /\ DirsOnly({Claim(h)} \cup (DOMAIN dirs \ S)) /\ DOMAIN dirs' = S \cup {Claim(h)}
        /\ dirs'[Claim(h)] = d
    <3>1. dirs' = Holding(Claim(h), d, S) /\ S \subseteq DOMAIN dirs
      BY <2>1, <2>2
    <3> QED  BY <3>1, OnlyHolding
  <2>4. DirsOnly({Target(h), Claim(h)})
    BY <2>2, <2>3 DEF DirsOnly
  <2>5. Carrying(h, "read", hook[h].output)
    BY <1>1, <2>1, GoRecord, OnwardCarrying
  <2> QED  BY <1>2, <1>3, <2>2, <2>3, <2>4, <2>5 DEF Claims
<1>4. CASE Target(h) \notin DOMAIN dirs
  <2>1. hook' = [hook EXCEPT ![h].at = "prune", ![h].output = {}] /\ UNCHANGED dirs
    BY <1>4 DEF ClaimIt
  <2>2. Carrying(h, "prune", {})
    BY <1>1, <2>1, CarryingRecord
  <2>3. DirsOnly({Target(h), Claim(h)})
    BY <2>1 DEF DirsOnly
  <2> QED  BY <1>2, <1>4, <2>1, <2>2, <2>3 DEF Claims
<1> QED  BY <1>3, <1>4

(* A notice is claimed. *)
LEMMA ShowClaims ==
    ASSUME NEW s, NEW h, OwnInv(s, h), ClaimIt(h), hook[h].task = "show", Calm(s)'
    PROVE  HookDue(s, h)'
<1>1. h \in Hooks /\ HookInv /\ s \in Sessions /\ hook[h].session = s /\ AgentInv
  BY DEF OwnInv, Mine
<1>2. /\ hook[h].at = "claim" /\ SameSession(s) /\ UNCHANGED <<busy, upset, lastWrites>>
      /\ DirsOnly({Target(h), Claim(h)}) /\ Claims(h)
  BY ClaimSteps
<1>3. Calm(s) /\ (CalmBefore(s)' => CalmBefore(s))
  BY <1>2 DEF Calm, CalmBefore, SameSession
<1>4. HookDue(s, h) /\ s \in busy /\ hook[h].turn = turn[s]
  BY <1>3, OwnDue DEF OwnInv
<1>5. Target(h) = NoticeAt(s)
  BY <1>1, <1>4, TargetIs
<1>6. NoticeAt(s) # ReceiptAt(s) /\ NoticeAt(s) # Claim(h) /\ ReceiptAt(s) # Claim(h)
  BY <1>1, <1>4, PathsApart DEF OwnInv
<1>7. Received(s)' <=> Received(s)
  BY <1>2, <1>5, <1>6, ReceiptKept
<1>8. NoticeAt(s)' = NoticeAt(s) /\ TurnBefore(s)' = TurnBefore(s)
  BY <1>2, SessionPaths DEF SameSession
<1>9. /\ Received(s) /\ hook[h].output = {} /\ hook[h].page
      /\ PageIs(<<s, turn[s]>>, world.rules, {})
      /\ CalmBefore(s) => HasExactly(NoticeAt(s), TurnBefore(s))
  BY <1>2, <1>4 DEF HookDue, ShowDue, Opened
<1>10. PageIs(<<s, turn[s]>>, world.rules, {})'
  BY <1>2, <1>9 DEF PageIs, SameSession
<1>11. PICK r : r = hook'[h]
  OBVIOUS
<1>12. r.task = "show" /\ r.page /\ r.output = {} /\ r.at \in {"read", "prune"}
  BY <1>2, <1>9, <1>11 DEF Claims, Carrying
<1>13. Claim(h)' = Claim(h)
  BY <1>2, ClaimSame DEF Claims, Carrying, SameSession
<1>14. HasExactly(NoticeAt(s), {})'
  <2>1. NoticeAt(s)' \notin DOMAIN dirs'
    BY <1>2, <1>5, <1>6, <1>8 DEF Claims
  <2> QED  BY <2>1 DEF HasExactly
<1>15. CalmBefore(s)' => IF r.at = "read" THEN HasExactly(Claim(h), TurnBefore(s))'
                         ELSE r.output = TurnBefore(s)'
  <2>1. SUFFICES ASSUME CalmBefore(s)' PROVE IF r.at = "read" THEN HasExactly(Claim(h), TurnBefore(s))'
                                             ELSE r.output = TurnBefore(s)'
    OBVIOUS
  <2>2. HasExactly(NoticeAt(s), TurnBefore(s))
    BY <1>3, <1>9, <2>1
  <2>3. CASE r.at = "read"
    <3>1. Claim(h) \in DOMAIN dirs' /\ dirs'[Claim(h)] = dirs[NoticeAt(s)] /\ NoticeAt(s) \in DOMAIN dirs
      BY <1>2, <1>5, <1>11, <2>3 DEF Claims, Carrying
    <3> QED  BY <1>8, <1>13, <2>2, <2>3, <3>1 DEF HasExactly, HasReceipt
  <2>4. CASE r.at # "read"
    <3>1. NoticeAt(s) \notin DOMAIN dirs
      BY <1>2, <1>5, <1>11, <2>4 DEF Claims, Carrying
    <3> QED  BY <1>8, <1>12, <2>2, <2>4, <3>1 DEF HasExactly, HasReceipt
  <2> QED  BY <2>3, <2>4
<1>16. ShowDue(s, h, r)'
  BY <1>7, <1>9, <1>10, <1>12, <1>14, <1>15 DEF ShowDue, Opened
<1> QED  BY <1>11, <1>12, <1>16 DEF HookDue, BeginDue, OpenDue, ConsumeDue, SaveDue

(* A receipt is claimed. *)
LEMMA ConsumeClaims ==
    ASSUME NEW s, NEW h, OwnInv(s, h), ClaimIt(h), hook[h].task = "consume", Calm(s)'
    PROVE  HookDue(s, h)'
<1>1. h \in Hooks /\ HookInv /\ s \in Sessions /\ hook[h].session = s /\ AgentInv
  BY DEF OwnInv, Mine
<1>2. /\ hook[h].at = "claim" /\ SameSession(s) /\ UNCHANGED <<busy, upset, lastWrites>>
      /\ DirsOnly({Target(h), Claim(h)}) /\ Claims(h)
  BY ClaimSteps
<1>3. Calm(s)
  BY <1>2 DEF Calm, SameSession
<1>4. HookDue(s, h) /\ s \in busy /\ hook[h].turn = turn[s]
  BY <1>3, OwnDue DEF OwnInv
<1>5. Target(h) = ReceiptAt(s)
  BY <1>1, <1>4, TargetIs
<1>6. NoticeAt(s) # ReceiptAt(s) /\ NoticeAt(s) # Claim(h)
  BY <1>1, <1>4, PathsApart DEF OwnInv
<1>7. \A o : HasExactly(NoticeAt(s), o)' <=> HasExactly(NoticeAt(s), o)
  BY <1>2, <1>5, <1>6, NoticeKept
<1>8. ThisTurn(s)' = ThisTurn(s)
  BY <1>2, SessionPaths DEF SameSession
<1>9. /\ HasExactly(NoticeAt(s), {}) /\ HasReceipt(ReceiptAt(s))
      /\ ThisTurn(s) = dirs[ReceiptAt(s)].output \cup hook[h].output
  BY <1>2, <1>4 DEF HookDue, ConsumeDue
<1>10. Claim(h)' = Claim(h)
  BY <1>2, ClaimSame DEF Claims, Carrying, SameSession
<1>11. /\ Claim(h) \in DOMAIN dirs' /\ dirs'[Claim(h)] = dirs[ReceiptAt(s)]
       /\ Carrying(h, "read", hook[h].output)
  BY <1>2, <1>5, <1>9 DEF Claims, HasReceipt
<1>12. PICK r : r = hook'[h]
  OBVIOUS
<1>13. r.task = "consume" /\ r.at = "read" /\ r.output = hook[h].output
  BY <1>11, <1>12 DEF Carrying
<1>14. HasReceipt(Claim(h))' /\ ThisTurn(s)' = dirs'[Claim(h)'].output \cup r.output
  BY <1>8, <1>9, <1>10, <1>11, <1>13 DEF HasReceipt
<1>15. ConsumeDue(s, h, r)'
  BY <1>7, <1>9, <1>13, <1>14 DEF ConsumeDue
<1> QED  BY <1>12, <1>13, <1>15 DEF HookDue, BeginDue, OpenDue, ShowDue, SaveDue

LEMMA ClaimCalm ==
    ASSUME NEW s, NEW h, OwnInv(s, h), ClaimIt(h)
    PROVE  OwnStep(h) /\ BusyStep(h) /\ CalmInv(s)'
<1>1. h \in Hooks /\ h \in Mine(s)
  BY DEF OwnInv, Mine
<1>2. /\ hook[h].task \in {"show", "consume"} /\ hook[h].at = "claim" /\ Claims(h)
      /\ SameSession(s) /\ UNCHANGED <<busy, upset, lastWrites>>
  BY ClaimSteps
<1>3. OwnStep(h) /\ ~Idle(hook'[h]) /\ BusyStep(h) /\ hook'[h].task = hook[h].task
  BY <1>1, <1>2, CarryingOwn DEF Claims, Carrying
<1>4. Calm(s)' => HookDue(s, h)'
  BY <1>2, ShowClaims, ConsumeClaims
<1> QED  BY <1>2, <1>3, <1>4, OwnLone DEF SameSession

(* What was claimed is read. *)
LEMMA ReadCalm ==
    ASSUME NEW s, NEW h, OwnInv(s, h), ReadClaim(h)
    PROVE  OwnStep(h) /\ BusyStep(h) /\ CalmInv(s)' /\ upset \subseteq upset'
<1>1. h \in Hooks /\ HookInv /\ Typed(hook[h]) /\ s \in Sessions /\ hook[h].session = s
      /\ h \in Mine(s)
  BY DEF OwnInv, HookInv, Mine
<1>2. PICK found, output :
        /\ found <=> HasReceipt(Claim(h)) /\ ~Expired(dirs[Claim(h)], clock)
        /\ output = IF found THEN hook[h].output \cup dirs[Claim(h)].output ELSE {}
  OBVIOUS
<1>3. /\ hook[h].at = "read" /\ hook[h].task \in {"show", "consume"}
      /\ SameSession(s) /\ UNCHANGED <<busy, lastWrites, dirs>> /\ upset \subseteq upset'
      /\ HasReceipt(Claim(h)) /\ ~found => Upset(h)
  BY <1>1, <1>2, StageTask
     DEF ReadClaim, At, SameSession, agentVars, treeVars, otherVars, detailVars, Upset
<1>4. Carrying(h, "discard", output)
  <2>1. hook' = [hook EXCEPT ![h].at = "discard", ![h].output = output]
    <3>1. DOMAIN hook = Hooks /\ DOMAIN hook[h] = HookFields
      BY <1>1 DEF Typed, HookInv
    <3> QED  BY <1>1, <1>2, <3>1 DEF ReadClaim, HookFields
  <2> QED  BY <1>1, <2>1, CarryingRecord
<1>5. OwnStep(h) /\ ~Idle(hook'[h]) /\ BusyStep(h)
  BY <1>1, <1>3, <1>4, CarryingOwn
<1>6. ASSUME Calm(s)' PROVE HookDue(s, h)'
  <2>1. Calm(s) /\ ~Upset(h) /\ (CalmBefore(s)' => CalmBefore(s))
    BY <1>1, <1>3, <1>6, UpsetNot DEF Calm, CalmBefore, SameSession
  <2>2. HookDue(s, h)
    BY <1>3, <2>1, OwnDue DEF OwnInv
  <2>3. /\ \A o : HasExactly(NoticeAt(s), o)' <=> HasExactly(NoticeAt(s), o)
        /\ Received(s)' <=> Received(s)
    BY <1>3, DirsSame
  <2>4. TurnBefore(s)' = TurnBefore(s) /\ ThisTurn(s)' = ThisTurn(s)
    BY <1>3, SessionPaths DEF SameSession
  <2>5. PICK r : r = hook'[h]
    OBVIOUS
  <2>6. r.task = hook[h].task /\ r.at = "discard" /\ r.output = output /\ r.page = hook[h].page
    BY <1>4, <2>5 DEF Carrying
  <2>7. HasReceipt(Claim(h)) => found
    BY <1>3, <2>1
  <2>8. CASE hook[h].task = "show"
    <3>1. /\ Received(s) /\ HasExactly(NoticeAt(s), {}) /\ hook[h].output = {} /\ hook[h].page
          /\ PageIs(<<s, turn[s]>>, world.rules, {})
          /\ CalmBefore(s) => HasExactly(Claim(h), TurnBefore(s))
      BY <1>3, <2>2, <2>8 DEF HookDue, ShowDue, Opened
    <3>2. PageIs(<<s, turn[s]>>, world.rules, {})'
      BY <1>3, <3>1 DEF PageIs, SameSession
    <3>3. CalmBefore(s)' => r.output = TurnBefore(s)'
      BY <1>2, <2>1, <2>4, <2>6, <2>7, <3>1 DEF HasExactly, HasReceipt
    <3>4. HasExactly(NoticeAt(s), {})' /\ Received(s)'
      BY <2>3, <3>1
    <3>5. ShowDue(s, h, r)'
      BY <2>6, <2>8, <3>1, <3>2, <3>3, <3>4 DEF ShowDue, Opened
    <3> QED  BY <2>5, <2>6, <2>8, <3>5 DEF HookDue, BeginDue, OpenDue, ConsumeDue, SaveDue
  <2>9. CASE hook[h].task = "consume"
    <3>1. /\ HasExactly(NoticeAt(s), {}) /\ HasReceipt(Claim(h))
          /\ ThisTurn(s) = dirs[Claim(h)].output \cup hook[h].output
      BY <1>3, <2>2, <2>9 DEF HookDue, ConsumeDue
    <3>2. HasExactly(NoticeAt(s), {})'
      BY <2>3, <3>1
    <3>3. r.output = ThisTurn(s)'
      BY <1>2, <2>4, <2>6, <2>7, <3>1
    <3>4. ConsumeDue(s, h, r)'
      BY <2>6, <2>9, <3>2, <3>3 DEF ConsumeDue
    <3> QED  BY <2>5, <2>6, <2>9, <3>4 DEF HookDue, BeginDue, OpenDue, ShowDue, SaveDue
  <2> QED  BY <1>3, <2>8, <2>9
<1> QED  BY <1>3, <1>4, <1>5, <1>6, OwnLone DEF SameSession, Carrying

(* What a tool made gets into the receipt. *)
LEMMA RecordCalm ==
    ASSUME NEW s, NEW h, OwnInv(s, h), RecordOutput(h)
    PROVE  OwnStep(h) /\ BusyStep(h) /\ CalmInv(s)' /\ upset \subseteq upset'
<1>1. h \in Hooks /\ HookInv /\ Typed(hook[h]) /\ s \in Sessions /\ hook[h].session = s
      /\ h \in Mine(s) /\ AgentInv /\ LiveInv
  BY DEF OwnInv, HookInv, Mine
<1>2. /\ hook[h].at = "record" /\ hook[h].task = "record"
      /\ SameSession(s) /\ UNCHANGED <<busy, lastWrites>> /\ upset \subseteq upset'
  BY <1>1, StageTask DEF RecordOutput, At, SameSession, agentVars, otherVars, detailVars, Upset
<1>3. Onward(h, "record", "prune")
  BY <1>1, <1>2, GoRecord DEF RecordOutput
<1>4. OwnStep(h) /\ ~Idle(hook'[h]) /\ BusyStep(h)
  BY <1>1, <1>2, <1>3, OnwardOwn DEF BusyStep
<1>5. SUFFICES ASSUME Calm(s)' PROVE CalmInv(s)'
  BY <1>2, <1>4 DEF CalmInv
<1>6. Calm(s) /\ ~Upset(h)
  BY <1>1, <1>2, <1>5, UpsetNot DEF Calm, SameSession
<1>7. /\ hook[h].turn = turn[s] /\ s \in busy /\ \A g \in Mine(s) : hook[g].task = "record"
      /\ TurnDue(s)
  BY <1>2, <1>6, OwnDue DEF OwnInv
<1>8. Target(h) = ReceiptAt(s) /\ NoticeAt(s) # ReceiptAt(s)
  BY <1>1, <1>2, <1>7, TargetIs, PathsApart
<1>9. /\ HasExactly(NoticeAt(s), {}) /\ HasReceipt(ReceiptAt(s))
      /\ ThisTurn(s) = dirs[ReceiptAt(s)].output \cup InFlight(s)
  BY <1>7 DEF TurnDue
<1>10. dirs' = [dirs EXCEPT ![Target(h)].output = @ \cup hook[h].output]
  BY <1>6, <1>8, <1>9 DEF RecordOutput
<1>11. PICK d : d = [dirs[Target(h)] EXCEPT !.output = @ \cup hook[h].output]
  OBVIOUS
<1>12. ReceiptAt(s) \in DOMAIN dirs /\ dirs[ReceiptAt(s)].written
       /\ DOMAIN dirs[ReceiptAt(s)] = {"written", "since", "output"}
  BY <1>9 DEF HasReceipt, OwnInv, TreeInv
<1>13. d.written /\ d.output = dirs[ReceiptAt(s)].output \cup hook[h].output
  BY <1>8, <1>11, <1>12
<1>14. dirs' = [dirs EXCEPT ![Target(h)] = d]
  BY <1>10, <1>11
<1>15. DirsOnly({Target(h)}) /\ ReceiptAt(s) \in DOMAIN dirs' /\ dirs'[ReceiptAt(s)] = d
  BY <1>8, <1>12, <1>14, OnlyWritten
<1>16. \A o : HasExactly(NoticeAt(s), o)' <=> HasExactly(NoticeAt(s), o)
  BY <1>2, <1>8, <1>15, NoticeKept
<1>17. ReceiptAt(s)' = ReceiptAt(s) /\ ThisTurn(s)' = ThisTurn(s)
  BY <1>2, SessionPaths DEF SameSession
<1>18. Mine(s)' = Mine(s) /\ \A g \in Mine(s) : g # h => hook'[g] = hook[g]
  BY <1>1, <1>4, OwnHooks
<1>19. InFlight(s) = InFlight(s)' \cup hook[h].output
  <2>1. PICK G : G = {g \in Mine(s) : hook[g].at = "record" /\ g # h}
    OBVIOUS
  <2>2. {g \in Mine(s)' : hook'[g].at = "record"} = G
    BY <1>3, <1>18, <2>1 DEF Onward
  <2>3. {g \in Mine(s) : hook[g].at = "record"} = G \cup {h}
    BY <1>1, <1>2, <2>1
  <2>4. {hook'[g].output : g \in G} = {hook[g].output : g \in G}
    BY <1>18, <2>1
  <2>5. InFlight(s)' = UNION {hook[g].output : g \in G}
    BY <2>2, <2>4 DEF InFlight
  <2>6. InFlight(s) = UNION {hook[g].output : g \in G \cup {h}}
    BY <2>3 DEF InFlight
  <2> QED  BY <2>5, <2>6
<1>20. \A g \in Mine(s)' : hook'[g].task = "record"
  BY <1>3, <1>7, <1>18 DEF Onward
<1>21. HasReceipt(ReceiptAt(s))' /\ ThisTurn(s)' = dirs'[ReceiptAt(s)'].output \cup InFlight(s)'
  BY <1>9, <1>13, <1>15, <1>17, <1>19 DEF HasReceipt
<1>22. TurnDue(s)'
  BY <1>9, <1>16, <1>21 DEF TurnDue
<1> QED  BY <1>2, <1>7, <1>20, <1>22, RecordersStay

(* A hook goes on after an error. *)
LEMMA FailCalm ==
    ASSUME NEW s, NEW h, OwnInv(s, h), Fail(h), turn' = turn
    PROVE  OwnStep(h) /\ BusyStep(h) /\ CalmInv(s)' /\ upset \subseteq upset'
<1>1. h \in Hooks /\ HookInv /\ Typed(hook[h]) /\ s \in Sessions /\ hook[h].session = s
      /\ h \in Mine(s)
  BY DEF OwnInv, HookInv, Mine
<1>2. Upset(h)
  BY DEF Fail
<1>3. CalmInv(s)' /\ upset \subseteq upset'
  BY <1>1, <1>2, UpsetDone
<1>4. <<hook[h].session, turn[hook[h].session]>> \in upset'
  BY <1>2 DEF Upset
<1>5. OwnStep(h)
  <2>1. CASE Works(h, "begin")
    <3>1. Onward(h, "open", "create") /\ hook[h].task = "begin"
      BY <1>1, <2>1, NextTaskRecord DEF Fail, Works
    <3> QED  BY <3>1 DEF Onward, OwnStep, Idle
  <2>2. CASE Works(h, "open")
    <3>1. Onward(h, "show", "claim") /\ hook[h].task = "open"
      BY <1>1, <2>2, NextTaskRecord DEF Fail, Works
    <3> QED  BY <3>1 DEF Onward, OwnStep, Idle
  <2>3. CASE Works(h, "record")
    <3>1. Onward(h, "record", "prune") /\ hook[h].task = "record"
      BY <1>1, <2>3, GoRecord DEF Fail, Works
    <3> QED  BY <3>1 DEF Onward, OwnStep, Idle
  <2>4. CASE ~Works(h, "begin") /\ ~Works(h, "open") /\ ~Works(h, "record")
    <3>1. End(h)
      BY <2>4 DEF Fail
    <3> QED  BY <1>1, <3>1, EndRecord, IdleTyped DEF Ended, OwnStep, Idle
  <2> QED  BY <2>1, <2>2, <2>3, <2>4
<1>6. BusyStep(h)
  BY <1>4 DEF Fail, BusyStep
<1> QED  BY <1>3, <1>5, <1>6

(* A hook dies. *)
LEMMA CrashCalm ==
    ASSUME NEW s, NEW h, OwnInv(s, h), Crash(h)
    PROVE  OwnStep(h) /\ BusyStep(h) /\ CalmInv(s)' /\ upset \subseteq upset'
<1>1. h \in Hooks /\ HookInv /\ s \in Sessions /\ hook[h].session = s /\ ~Idle(hook[h])
  BY DEF OwnInv, Mine
<1>2. /\ Upset(h) /\ End(h) /\ turn' = turn
      /\ busy' = busy \/ busy' = busy \ {hook[h].session}
  BY <1>1 DEF Crash, Idle
<1>3. CalmInv(s)' /\ upset \subseteq upset'
  BY <1>1, <1>2, UpsetDone
<1>4. <<hook[h].session, turn[hook[h].session]>> \in upset'
  BY <1>2 DEF Upset
<1>5. OwnStep(h)
  BY <1>1, <1>2, EndRecord, IdleTyped DEF Ended, OwnStep, Idle
<1> QED  BY <1>2, <1>3, <1>4, <1>5 DEF BusyStep

-----------------------------------------------------------------------------
(* The steps of hooks that belong to a turn *)
Attends(h) ==
    \/ Makes(h) \/ MakeFails(h) \/ WriteFile(h) \/ RecordOutput(h)
    \/ ClaimIt(h) \/ ReadClaim(h) \/ DiscardClaim(h) \/ LockTimesOut(h)
    \/ Prune(h) \/ PruneAgent(h)
    \/ OpenPage(h) \/ RecordRules(h) \/ TellResult(h)

LEMMA AttendsOnly ==
    ASSUME HookInv, NEW h \in Hooks, ~Idle(hook[h]), Goes(h)
    PROVE  Attends(h)
<1>1. Typed(hook[h])
  BY DEF HookInv
<1>2. hook[h].at \notin {"scan", "sweep", "expire", "move"}
  BY <1>1, StageTask DEF Idle
<1>3. /\ ~Scan(h) /\ ~SweepNext(h) /\ ~EndSweep(h) /\ ~RemoveDetails(h) /\ ~StartMove(h)
      /\ ~SkipDetails(h) /\ ~MoveNext(h) /\ ~MoveFails(h) /\ ~DropOld(h)
  BY <1>2 DEF Scan, SweepNext, EndSweep, RemoveDetails, StartMove, SkipDetails, MoveNext,
              MoveFails, DropOld, At
<1> QED  BY <1>3 DEF Goes, Attends, Makes

(* Its own session *)
LEMMA OwnSession ==
    ASSUME NEW s, NEW h, OwnInv(s, h), Attends(h)
    PROVE  /\ UNCHANGED <<world, turn, observed, clock>> /\ upset \subseteq upset'
           /\ OwnStep(h) /\ BusyStep(h) /\ AloneInv(s)' /\ CalmInv(s)'
<1>1. h \in Hooks /\ HookInv /\ s \in Sessions /\ h \in Mine(s) /\ AloneInv(s)
  BY DEF OwnInv, Mine
<1>2. Goes(h)
  BY DEF Attends, Goes, Makes
<1>3. UNCHANGED <<world, turn, observed, clock>>
  BY <1>1, <1>2, GoesSame
<1>4. OwnStep(h) /\ BusyStep(h) /\ CalmInv(s)' /\ upset \subseteq upset'
  <2>1. CASE Makes(h)
    <3>1. PICK place : MakingStep(s, h, place)
      BY <2>1, MakesSteps
    <3>2. OwnStep(h) /\ BusyStep(h) /\ upset' = upset
      BY <1>1, <3>1, OnwardOwn DEF MakingStep, BusyStep
    <3> QED  BY <2>1, <3>2, MakesCalm
  <2>2. CASE MakeFails(h) \/ LockTimesOut(h)
    <3>1. Fail(h)
      BY <2>2 DEF MakeFails, LockTimesOut
    <3> QED  BY <1>3, <3>1, FailCalm
  <2>3. CASE WriteFile(h)
    <3>1. upset' = upset
      BY <2>3 DEF WriteFile
    <3> QED  BY <2>3, <3>1, WriteCalm
  <2>4. CASE RecordOutput(h)
    BY <2>4, RecordCalm
  <2>5. CASE ClaimIt(h)
    <3>1. upset' = upset
      BY <2>5 DEF ClaimIt
    <3> QED  BY <2>5, <3>1, ClaimCalm
  <2>6. CASE ReadClaim(h)
    BY <2>6, ReadCalm
  <2>7. CASE DiscardClaim(h)
    <3>1. upset' = upset
      BY <2>7 DEF DiscardClaim
    <3> QED  BY <2>7, <3>1, DiscardCalm
  <2>8. CASE Prune(h) \/ PruneAgent(h)
    <3>1. upset' = upset
      BY <2>8 DEF Prune, PruneAgent
    <3> QED  BY <2>8, <3>1, PruneCalm
  <2>9. CASE OpenPage(h)
    <3>1. upset' = upset
      BY <2>9 DEF OpenPage
    <3> QED  BY <2>9, <3>1, OpenCalm
  <2>10. CASE RecordRules(h)
    BY <2>10, RulesCalm
  <2>11. CASE TellResult(h)
    BY <2>11, TellCalm
  <2> QED  BY <2>1, <2>2, <2>3, <2>4, <2>5, <2>6, <2>7, <2>8, <2>9, <2>10, <2>11 DEF Attends
<1>5. AloneInv(s)'
  BY <1>1, <1>3, <1>4, OwnAlone
<1> QED  BY <1>3, <1>4, <1>5

(* The directories of other sessions *)
LEMMA OwnTree ==
    ASSUME NEW s, NEW h, OwnInv(s, h), Attends(h), NEW q, q # s
    PROVE  DirsKept(q)
<1>1. h \in Hooks /\ AgentInv /\ HookInv /\ Typed(hook[h]) /\ s \in Sessions /\ hook[h].session = s
  BY DEF OwnInv, HookInv, Mine
<1>2. hook[h].task \in {"begin", "show", "record", "consume", "save"}
      => Target(h).session = s /\ Claim(h).session = s
  BY <1>1, TargetPath
<1>3. CASE UNCHANGED dirs
  BY <1>3 DEF DirsKept
<1>4. CASE /\ DirsOnly({Target(h), Claim(h)})
           /\ hook[h].task \in {"begin", "show", "record", "consume", "save"}
  BY <1>2, <1>4 DEF DirsOnly, DirsKept
<1>5. DirsOnly({Target(h)}) \/ DirsOnly({Claim(h)}) => DirsOnly({Target(h), Claim(h)})
  BY DEF DirsOnly
<1>6. CASE Makes(h)
  <2>1. DirsOnly({Target(h)}) /\ hook[h].task \in {"begin", "save"}
    BY <1>6, MakesSteps DEF MakingStep
  <2> QED  BY <1>4, <1>5, <2>1
<1>7. CASE WriteFile(h)
  <2>1. hook[h].task \in {"begin", "save"}
    BY <1>1, <1>7, StageTask DEF WriteFile, At
  <2>2. DirsOnly({Target(h)})
    BY <1>7, OnlyWritten DEF WriteFile
  <2> QED  BY <1>4, <1>5, <2>1, <2>2
<1>8. CASE RecordOutput(h) /\ dirs' # dirs
  <2>1. hook[h].task = "record"
    BY <1>1, <1>8, StageTask DEF RecordOutput, At
  <2>2. dirs' = [dirs EXCEPT ![Target(h)].output = @ \cup hook[h].output]
    BY <1>8 DEF RecordOutput
  <2>3. PICK d : d = [dirs[Target(h)] EXCEPT !.output = @ \cup hook[h].output]
    OBVIOUS
  <2>4. dirs' = [dirs EXCEPT ![Target(h)] = d]
    BY <2>2, <2>3
  <2>5. DirsOnly({Target(h)})
    BY <2>4, OnlyWritten
  <2> QED  BY <1>4, <1>5, <2>1, <2>5
<1>9. CASE ClaimIt(h)
  <2>1. DirsOnly({Target(h), Claim(h)}) /\ hook[h].task \in {"show", "consume"}
    BY <1>9, ClaimSteps
  <2> QED  BY <1>4, <2>1
<1>10. CASE DiscardClaim(h)
  <2>1. hook[h].task \in {"show", "consume"}
    BY <1>1, <1>10, StageTask DEF DiscardClaim, At
  <2>2. DirsOnly({Claim(h)})
    BY <1>10, OnlyWithout DEF DiscardClaim
  <2> QED  BY <1>4, <1>5, <2>1, <2>2
<1>11. MakeFails(h) \/ LockTimesOut(h) \/ ReadClaim(h) \/ Prune(h) \/ PruneAgent(h)
       \/ OpenPage(h) \/ RecordRules(h) \/ TellResult(h) => UNCHANGED dirs
  BY DEF MakeFails, LockTimesOut, ReadClaim, Prune, PruneAgent, OpenPage, RecordRules, TellResult,
         treeVars, receiptVars
<1> QED  BY <1>3, <1>6, <1>7, <1>8, <1>9, <1>10, <1>11 DEF Attends

(* The pages of other prompts *)
LEMMA OwnPages ==
    ASSUME NEW s, NEW h, OwnInv(s, h), Attends(h), NEW id, id = Page(h)
    PROVE  OtherPagesStay(id)
<1>1. h \in Hooks /\ AgentInv /\ HookInv /\ PageInv
  BY DEF OwnInv, Mine
<1>2. CASE OpenPage(h)
  BY <1>1, <1>2, OpenedIs
<1>3. CASE RecordRules(h) \/ TellResult(h)
  BY <1>1, <1>3, RulesElsewhere
<1>4. CASE ~OpenPage(h) /\ ~RecordRules(h) /\ ~TellResult(h)
  <2>1. OffPage(h)
    BY <1>4 DEF Attends, Makes, OffPage
  <2>2. UNCHANGED detailVars
    BY <1>1, <2>1, OffPageSame
  <2> QED  BY <2>2 DEF OtherPagesStay, detailVars
<1> QED  BY <1>2, <1>3, <1>4

-----------------------------------------------------------------------------
SessionInv == \A s \in Sessions : AloneInv(s) /\ CalmInv(s)

(* A step of a hook of a turn keeps what its session is due, and that of the   *)
(* others.                                                                 *)
LEMMA AttendsKeeps ==
    ASSUME AgentInv, HookInv, TreeInv, PageInv, LiveInv, SessionInv,
           NEW h \in Hooks, ~Idle(hook[h]), Goes(h) \/ Crash(h)
    PROVE  SessionInv'
<1>1. PICK s : s = hook[h].session
  OBVIOUS
<1>2. Typed(hook[h]) /\ s \in Sessions /\ h \in Mine(s)
  BY <1>1 DEF HookInv, Typed, Mine, Idle
<1>3. OwnInv(s, h)
  BY <1>2 DEF OwnInv, SessionInv
<1>4. /\ UNCHANGED <<world, turn, observed>> /\ upset \subseteq upset'
      /\ OwnStep(h) /\ BusyStep(h) /\ AloneInv(s)' /\ CalmInv(s)'
  <2>1. CASE Goes(h)
    BY <1>3, <2>1, AttendsOnly, OwnSession
  <2>2. CASE Crash(h)
    <3>1. UNCHANGED <<world, turn, observed>>
      BY <2>2 DEF Crash
    <3>2. OwnStep(h) /\ BusyStep(h) /\ CalmInv(s)' /\ upset \subseteq upset'
      BY <1>3, <2>2, CrashCalm
    <3>3. AloneInv(s)'
      BY <1>2, <3>1, <3>2, OwnAlone DEF SessionInv
    <3> QED  BY <3>1, <3>2, <3>3
  <2> QED  BY <2>1, <2>2
<1>5. ASSUME NEW q \in Sessions, q # s PROVE AloneInv(q)' /\ CalmInv(q)'
  <2>1. HooksKept(q)
    BY <1>2, <1>4, <1>5, OwnHooks
  <2>2. DirsKept(q)
    <3>1. CASE Goes(h)
      BY <1>3, <1>5, <3>1, AttendsOnly, OwnTree
    <3>2. CASE Crash(h)
      BY <3>2 DEF Crash, treeVars, DirsKept
    <3> QED  BY <3>1, <3>2
  <2>3. PICK id : id = Page(h)
    OBVIOUS
  <2>4. OtherPagesStay(id)
    <3>1. CASE Goes(h)
      BY <1>3, <2>3, <3>1, AttendsOnly, OwnPages
    <3>2. CASE Crash(h)
      BY <3>2 DEF Crash, detailVars, OtherPagesStay
    <3> QED  BY <3>1, <3>2
  <2>5. <<q, turn[q]>> # id
    BY <1>1, <1>5, <2>3 DEF Page
  <2>6. ASSUME NEW context, NEW output, PageIs(<<q, turn[q]>>, context, output)
        PROVE  PageIs(<<q, turn[q]>>, context, output)'
    <3>1. PICK i : i = <<q, turn[q]>> /\ i = <<q, turn'[q]>>
      BY <1>4
    <3>2. PageIs(i, context, output)'
      BY <2>4, <2>5, <2>6, <3>1, OtherPages
    <3> QED  BY <3>1, <3>2
  <2>7. q \in busy' <=> q \in busy
    BY <1>1, <1>4, <1>5 DEF BusyStep
  <2>8. AloneInv(q) /\ CalmInv(q)
    BY DEF SessionInv
  <2> QED  BY <1>4, <2>1, <2>2, <2>6, <2>7, <2>8, Elsewhere
<1> QED  BY <1>4, <1>5 DEF SessionInv

-----------------------------------------------------------------------------
(* Clean-ups stay clean-ups, and take the time of the clock when they scan.  *)
Cleaning(h) ==
    /\ OthersStay(h) /\ Idle(hook'[h])
    /\ hook'[h].task = "clean" => /\ hook[h].task = "clean"
                                  /\ hook'[h].sweep.now \in {hook[h].sweep.now, clock}

LEMMA CleaningRecord ==
    ASSUME HookInv, NEW h \in Hooks, Idle(hook[h]), Goes(h)
    PROVE  Cleaning(h) /\ busy' = busy
<1>1. /\ Typed(hook[h]) /\ DOMAIN hook = Hooks /\ DOMAIN hook[h] = HookFields
      /\ DOMAIN hook[h].sweep = SweepFields
  BY DEF HookInv, Typed
<1>2. CASE Prune(h) \/ PruneAgent(h)
  <2>1. hook[h].task = "clean"
    BY <1>1, <1>2, StageTask DEF Prune, PruneAgent, At, Idle
  <2>2. CASE Go(h, "pruneAgent") /\ busy' = busy
    BY <2>1, <2>2, GoRecord DEF Onward, Cleaning, Idle
  <2>3. CASE Finish(h)
    <3>1. Onward(h, "clean", "sweep") /\ busy' = busy
      BY <2>1, <2>3, FinishRecord DEF FinishedAs
    <3> QED  BY <2>1, <3>1 DEF Onward, Cleaning, Idle
  <2> QED  BY <1>2, <2>2, <2>3 DEF Prune, PruneAgent
<1>3. CASE Scan(h)
  <2>1. hook[h].task = "clean" /\ busy' = busy
    BY <1>1, <1>3, StageTask DEF Scan, At, agentVars
  <2>2. PICK swp : /\ hook' = [hook EXCEPT ![h].at = "sweep", ![h].sweep = swp] /\ swp.now = clock
    <3>1. PICK left, after, complete :
            hook' = [hook EXCEPT ![h].at = "sweep",
                    ![h].sweep = [left |-> left, after |-> after, complete |-> complete,
                                  now |-> clock]]
      BY <1>3 DEF Scan
    <3>2. PICK swp : swp = [left |-> left, after |-> after, complete |-> complete, now |-> clock]
      OBVIOUS
    <3>3. hook' = [hook EXCEPT ![h].at = "sweep", ![h].sweep = swp]
      BY <3>1, <3>2
    <3>4. swp.now = clock
      BY <3>2
    <3> QED  BY <3>3, <3>4
  <2>3. PICK r : r = [hook[h] EXCEPT !.at = "sweep", !.sweep = swp]
    OBVIOUS
  <2>4. r.task = "clean" /\ r.sweep = swp
    BY <1>1, <2>1, <2>3 DEF HookFields
  <2>5. hook' = [hook EXCEPT ![h] = r]
    BY <1>1, <2>2, <2>3
  <2> QED  BY <1>1, <2>1, <2>2, <2>4, <2>5 DEF Cleaning, OthersStay, Idle
<1>4. CASE SweepNext(h)
  <2>1. hook[h].task = "clean" /\ busy' = busy
    BY <1>1, <1>4, StageTask DEF SweepNext, At, agentVars
  <2>2. PICK p \in hook[h].sweep.left :
            \/ hook' = [hook EXCEPT ![h] =
                    [[hook[h] EXCEPT !.sweep.left = @ \ {p}] EXCEPT !.at = "prune",
                                                                   !.session = p.session]]
            \/ hook' = [hook EXCEPT ![h] = [hook[h] EXCEPT !.sweep.left = @ \ {p}]]
    BY <1>4 DEF SweepNext
  <2>3. PICK q : q = [hook[h] EXCEPT !.sweep.left = @ \ {p}]
    OBVIOUS
  <2>4. q.task = "clean" /\ q.sweep.now = hook[h].sweep.now /\ DOMAIN q = HookFields
    BY <1>1, <2>1, <2>3 DEF HookFields, SweepFields
  <2>5. PICK r : /\ hook' = [hook EXCEPT ![h] = r]
                 /\ r = q \/ r = [q EXCEPT !.at = "prune", !.session = p.session]
    BY <2>2, <2>3
  <2>6. r.task = "clean" /\ r.sweep.now = hook[h].sweep.now
    BY <2>4, <2>5 DEF HookFields
  <2> QED  BY <1>1, <2>1, <2>5, <2>6 DEF Cleaning, OthersStay, Idle
<1>5. CASE EndSweep(h)
  <2>1. hook' = [hook EXCEPT ![h] = Tidying] /\ busy' = busy
    BY <1>5 DEF EndSweep, agentVars
  <2> QED  BY <1>1, <2>1, TidyTyped DEF Cleaning, OthersStay, Idle
<1>6. CASE RemoveDetails(h) \/ SkipDetails(h) \/ DropOld(h)
  <2>1. End(h) /\ busy' = busy
    BY <1>6 DEF RemoveDetails, SkipDetails, DropOld, receiptVars, agentVars
  <2> QED  BY <2>1, EndRecord, IdleTyped DEF Ended, Cleaning, Idle
<1>7. CASE StartMove(h) \/ MoveNext(h) \/ MoveFails(h)
  <2>1. hook[h].task = "tidy" /\ busy' = busy
    BY <1>1, <1>7, StageTask DEF StartMove, MoveNext, MoveFails, At, receiptVars, agentVars
  <2>2. PICK at, swp : hook' = [hook EXCEPT ![h].at = at, ![h].sweep = swp]
    <3>1. CASE StartMove(h)
      <4>1. PICK swp : swp = [hook[h].sweep EXCEPT !.left = {d.id : d \in oldDetails}]
        OBVIOUS
      <4>2. hook' = [hook EXCEPT ![h].at = "move", ![h].sweep = swp]
        BY <1>1, <3>1, <4>1 DEF StartMove, HookFields
      <4> QED  BY <4>2
    <3>2. CASE MoveNext(h)
      <4>1. PICK x : hook' = [hook EXCEPT ![h].sweep.left = @ \ {x}]
        BY <3>2 DEF MoveNext
      <4>2. PICK swp : swp = [hook[h].sweep EXCEPT !.left = @ \ {x}]
        OBVIOUS
      <4>3. PICK r : r = [hook[h] EXCEPT !.at = hook[h].at, !.sweep = swp]
        OBVIOUS
      <4>4. r = [hook[h] EXCEPT !.sweep.left = @ \ {x}]
        BY <1>1, <4>2, <4>3 DEF HookFields
      <4>5. hook' = [hook EXCEPT ![h] = r]
        BY <1>1, <4>1, <4>4
      <4>6. hook' = [hook EXCEPT ![h].at = hook[h].at, ![h].sweep = swp]
        BY <1>1, <4>3, <4>5
      <4> QED  BY <4>6
    <3>3. CASE MoveFails(h)
      <4>1. PICK x : hook' = [hook EXCEPT ![h].sweep.left = @ \ {x}, ![h].sweep.complete = FALSE]
        BY <3>3 DEF MoveFails
      <4>2. PICK swp : swp = [hook[h].sweep EXCEPT !.left = @ \ {x}, !.complete = FALSE]
        OBVIOUS
      <4>3. PICK r : r = [hook[h] EXCEPT !.at = hook[h].at, !.sweep = swp]
        OBVIOUS
      <4>4. r = [hook[h] EXCEPT !.sweep.left = @ \ {x}, !.sweep.complete = FALSE]
        BY <1>1, <4>2, <4>3 DEF HookFields
      <4>5. hook' = [hook EXCEPT ![h] = r]
        BY <1>1, <4>1, <4>4
      <4>6. hook' = [hook EXCEPT ![h].at = hook[h].at, ![h].sweep = swp]
        BY <1>1, <4>3, <4>5
      <4> QED  BY <4>6
    <3> QED  BY <1>7, <3>1, <3>2, <3>3
  <2>3. PICK r : r = [hook[h] EXCEPT !.at = at, !.sweep = swp]
    OBVIOUS
  <2>4. r.task = "tidy"
    BY <1>1, <2>1, <2>3 DEF HookFields
  <2>5. hook' = [hook EXCEPT ![h] = r]
    BY <1>1, <2>2, <2>3
  <2> QED  BY <1>1, <2>1, <2>4, <2>5 DEF Cleaning, OthersStay, Idle
<1>8. hook[h].at \in {"idle", "scan", "sweep", "prune", "pruneAgent", "expire", "move"}
  BY <1>1 DEF Typed, Idle, StagesOf
<1>9. /\ ~LockAndReset(h) /\ ~MakeAgentDir(h) /\ ~MakeSessionDir(h) /\ ~MakeDir(h)
      /\ ~MakeFails(h) /\ ~WriteFile(h) /\ ~RecordOutput(h) /\ ~ClaimIt(h) /\ ~ReadClaim(h)
      /\ ~DiscardClaim(h) /\ ~OpenPage(h) /\ ~RecordRules(h) /\ ~TellResult(h)
  BY <1>8 DEF LockAndReset, MakeAgentDir, MakeSessionDir, MakeDir, MakeFails, ParentGone, WriteFile,
        RecordOutput, ClaimIt, ReadClaim, DiscardClaim, OpenPage, RecordRules, TellResult, At
<1>10. ~LockTimesOut(h)
  BY <1>8 DEF LockTimesOut, Locking
<1> QED  BY <1>2, <1>3, <1>4, <1>5, <1>6, <1>7, <1>9, <1>10 DEF Goes

(* Clean-ups are no session's. *)
LEMMA CleaningElsewhere ==
    ASSUME NEW h \in Hooks, OthersStay(h), Idle(hook[h]), Idle(hook'[h]), NEW s
    PROVE  HooksKept(s)
<1>1. h \notin Mine(s) /\ h \notin Mine(s)'
  BY DEF Mine
<1>2. \A g \in Hooks : g # h => hook'[g] = hook[g]
  BY DEF OthersStay
<1>3. Mine(s)' = Mine(s)
  BY <1>1, <1>2 DEF Mine
<1> QED  BY <1>1, <1>2, <1>3 DEF HooksKept, Mine

-----------------------------------------------------------------------------
(* Nothing happens to a session, except that its turn may be upset. *)
LEMMA AloneSame ==
    ASSUME NEW s, AloneInv(s), HooksKept(s), turn'[s] = turn[s], s \in busy' <=> s \in busy,
           upset \subseteq upset'
    PROVE  AloneInv(s)'
<1>1. Mine(s)' = Mine(s) /\ \A h \in Mine(s) : hook'[h] = hook[h]
  BY DEF HooksKept
<1> QED  BY <1>1 DEF AloneInv, Calm

(* A page of the layout before is not that of a turn that is under way.      *)
LEMMA OldApart ==
    ASSUME AgentInv, LiveInv, NEW s \in Sessions, s \in busy, NEW id \in world.old
    PROVE  id # <<s, turn[s]>>
<1>1. turn[s] > 0 /\ s \in world.live /\ turn[s] <= world.turns /\ turn[s] \in Nat
  BY DEF LiveInv, AgentInv
<1>2. world.turns \in Nat /\ world.old \cap (world.live \X (1 .. world.turns)) = {}
  BY NoticeAssumption DEF AgentInv
<1>3. <<s, turn[s]>> \in world.live \X (1 .. world.turns)
  BY <1>1, <1>2
<1> QED  BY <1>2, <1>3

(* What a clean-up removes has expired, also by now.                         *)
LEMMA SweptExpired ==
    ASSUME AgentInv, SweepInv, NEW h \in Hooks, hook[h].task = "clean", NEW p, StillExpired(h, p)
    PROVE  Expired(dirs[p], clock)
<1>1. /\ dirs[p].since \in Nat /\ hook[h].sweep.now \in 0 .. clock /\ clock \in Nat
      /\ Expired(dirs[p], hook[h].sweep.now)
  BY NoticeAssumption DEF StillExpired, SweepInv, AgentInv
<1>2. TTL \in Nat
  BY NoticeAssumption
<1> QED  BY <1>1, <1>2 DEF Expired

(* A clean-up upsets the session whose directory it removes, and no other.   *)
LEMMA SweptUpset ==
    ASSUME AgentInv, HookInv, SweepInv, NEW h \in Hooks, SweepNext(h), NEW s
    PROVE  upset \subseteq upset' /\ (DirsKept(s) \/ <<s, turn[s]>> \in upset')
<1>1. Typed(hook[h])
  BY DEF HookInv
<1>2. hook[h].task = "clean"
  BY <1>1, StageTask DEF SweepNext, At
<1>3. PICK p : \/ /\ StillExpired(h, p) /\ dirs' = Without(p)
                  /\ upset' = IF Expired(dirs[p], clock)
                              THEN upset \cup {<<p.session, turn[p.session]>>} ELSE upset
               \/ UNCHANGED <<dirs, upset>>
  BY DEF SweepNext
<1>4. CASE UNCHANGED <<dirs, upset>>
  BY <1>4 DEF DirsKept
<1>5. CASE /\ StillExpired(h, p) /\ dirs' = Without(p)
           /\ upset' = IF Expired(dirs[p], clock)
                       THEN upset \cup {<<p.session, turn[p.session]>>} ELSE upset
  <2>1. upset' = upset \cup {<<p.session, turn[p.session]>>}
    BY <1>2, <1>5, SweptExpired
  <2>2. DirsOnly({p})
    BY <1>5, OnlyWithout
  <2>3. s # p.session => DirsKept(s)
    BY <2>2 DEF DirsOnly, DirsKept
  <2> QED  BY <2>1, <2>3
<1> QED  BY <1>3, <1>4, <1>5

(* What a clean-up does to the pages. *)
LEMMA CleaningPages ==
    ASSUME HookInv, PageInv, NEW h \in Hooks, Idle(hook[h]), Goes(h), NEW id, id \notin world.old
    PROVE  \A context, output : PageIs(id, context, output) => PageIs(id, context, output)'
<1>1. CASE lastWrites' = lastWrites
  BY <1>1 DEF PageIs
<1>2. CASE MoveNext(h)
  <2>1. PICK d \in oldDetails : WriteDetail(d) \/ UNCHANGED <<details, lastWrites>>
    BY <1>2 DEF MoveNext
  <2>2. CASE WriteDetail(d)
    <3>1. d \in Detail /\ d.id # id
      BY DEF PageInv
    <3>2. ToSet(lastWrites') = {e \in ToSet(lastWrites) : e.id # d.id} \cup {d}
      BY <2>2, <3>1, Wrote
    <3> QED  BY <3>1, <3>2 DEF PageIs
  <2> QED  BY <1>1, <2>1, <2>2
<1>3. CASE RemoveDetails(h) \/ StartMove(h) \/ SkipDetails(h) \/ MoveFails(h) \/ DropOld(h)
  <2>1. lastWrites' = lastWrites
    BY <1>3 DEF RemoveDetails, StartMove, SkipDetails, MoveFails, DropOld, detailVars
  <2> QED  BY <1>1, <2>1
<1>4. CASE OffPage(h)
  <2>1. lastWrites' = lastWrites
    BY <1>4, OffPageSame DEF detailVars
  <2> QED  BY <1>1, <2>1
<1>5. CASE OpenPage(h) \/ RecordRules(h) \/ TellResult(h)
  <2>1. Typed(hook[h])
    BY DEF HookInv
  <2>2. hook[h].task \in {"open", "tell"}
    BY <1>5, <2>1, StageTask DEF OpenPage, RecordRules, TellResult, At
  <2> QED  BY <2>2 DEF Idle
<1> QED  BY <1>2, <1>3, <1>4, <1>5 DEF Goes, OffPage

(* Clean-ups upset sessions, and leave the others alone.                     *)
LEMMA CleaningKeeps ==
    ASSUME AgentInv, HookInv, TreeInv, PageInv, LiveInv, SweepInv, SessionInv,
           NEW h \in Hooks, Idle(hook[h]), Goes(h)
    PROVE  SessionInv' /\ upset \subseteq upset'
<1>1. OthersStay(h) /\ Idle(hook'[h]) /\ busy' = busy
  BY CleaningRecord DEF Cleaning
<1>2. UNCHANGED <<world, turn, observed>>
  BY GoesSame
<1>3. upset \subseteq upset' /\ \A s : DirsKept(s) \/ <<s, turn[s]>> \in upset'
  <2>1. CASE SweepNext(h)
    BY <2>1, SweptUpset
  <2>2. CASE UNCHANGED dirs /\ upset \subseteq upset'
    BY <2>2 DEF DirsKept
  <2>3. CASE ~SweepNext(h)
    <3>1. Typed(hook[h])
      BY DEF HookInv
    <3>2. hook[h].at \notin {"lock", "mkAgent", "mkSession", "mkDir", "write", "record", "claim", "read",
                             "discard", "create", "context", "result"}
      BY <3>1, StageTask DEF Idle
    <3>3. /\ ~Makes(h) /\ ~MakeFails(h) /\ ~WriteFile(h) /\ ~RecordOutput(h) /\ ~ClaimIt(h)
          /\ ~ReadClaim(h) /\ ~DiscardClaim(h) /\ ~OpenPage(h) /\ ~RecordRules(h) /\ ~TellResult(h)
      BY <3>2 DEF Makes, LockAndReset, MakeAgentDir, MakeSessionDir, MakeDir, MakeFails, ParentGone,
           WriteFile, RecordOutput, ClaimIt, ReadClaim, DiscardClaim, OpenPage, RecordRules,
           TellResult, At
    <3>4. ~LockTimesOut(h)
      BY <3>2 DEF LockTimesOut, Locking
    <3>5. \/ Prune(h) \/ PruneAgent(h) \/ Scan(h) \/ EndSweep(h)
          \/ RemoveDetails(h) \/ StartMove(h) \/ SkipDetails(h)
          \/ MoveNext(h) \/ MoveFails(h) \/ DropOld(h)
      BY <2>3, <3>3, <3>4 DEF Goes, Makes
    <3>6. UNCHANGED dirs
      BY <3>5 DEF Prune, PruneAgent, Scan, EndSweep, RemoveDetails, StartMove, SkipDetails, MoveNext,
                  MoveFails, DropOld, treeVars, receiptVars
    <3>7. upset \subseteq upset'
      BY <3>5 DEF Prune, PruneAgent, Scan, EndSweep, RemoveDetails, StartMove, SkipDetails, MoveNext,
                  MoveFails, DropOld
    <3> QED  BY <2>2, <3>6, <3>7
  <2> QED  BY <2>1, <2>3
<1>4. ASSUME NEW s \in Sessions PROVE AloneInv(s)' /\ CalmInv(s)'
  <2>1. AloneInv(s) /\ CalmInv(s) /\ HooksKept(s)
    BY <1>1, CleaningElsewhere DEF SessionInv
  <2>2. AloneInv(s)'
    BY <1>1, <1>2, <1>3, <2>1, AloneSame
  <2>3. CASE <<s, turn[s]>> \in upset'
    BY <1>2, <2>2, <2>3 DEF CalmInv, Calm
  <2>4. CASE DirsKept(s)
    <3>1. ASSUME s \in busy, NEW context, NEW output, PageIs(<<s, turn[s]>>, context, output)
          PROVE  PageIs(<<s, turn[s]>>, context, output)'
      <4>1. PICK i : i = <<s, turn[s]>> /\ i = <<s, turn'[s]>>
        BY <1>2
      <4>2. i \notin world.old
        BY <3>1, <4>1, OldApart
      <4>3. PageIs(i, context, output)'
        BY <3>1, <4>1, <4>2, CleaningPages
      <4> QED  BY <4>1, <4>3
    <3> QED  BY <1>1, <1>2, <1>3, <2>1, <2>4, <3>1, Elsewhere
  <2> QED  BY <1>3, <2>2, <2>3, <2>4
<1> QED  BY <1>3, <1>4 DEF SessionInv

-----------------------------------------------------------------------------
(* A hook is started for a turn. *)
Starts(h, s, task, at, output) ==
    /\ Idle(hook[h]) /\ OthersStay(h)
    /\ hook'[h].task = task /\ hook'[h].at = at /\ hook'[h].session = s
    /\ hook'[h].turn = turn'[s] /\ hook'[h].output = output

LEMMA StartsHooks ==
    ASSUME NEW h \in Hooks, NEW s, NEW task, NEW at, NEW output, Starts(h, s, task, at, output),
           task \notin {"none", "clean", "tidy"}
    PROVE  /\ Mine(s)' = Mine(s) \cup {h} /\ h \notin Mine(s)
           /\ \A g \in Mine(s) : hook'[g] = hook[g]
           /\ \A q : q # s => HooksKept(q)
<1>1. /\ ~Idle(hook'[h]) /\ Idle(hook[h]) /\ hook'[h].session = s
      /\ \A g \in Hooks : g # h => hook'[g] = hook[g]
  BY DEF Starts, OthersStay, Idle
<1>2. Mine(s)' = Mine(s) \cup {h} /\ h \notin Mine(s)
  BY <1>1 DEF Mine
<1>3. \A g \in Mine(s) : hook'[g] = hook[g]
  BY <1>1, <1>2 DEF Mine
<1>4. ASSUME NEW q, q # s PROVE HooksKept(q)
  <2>1. h \notin Mine(q) /\ h \notin Mine(q)'
    BY <1>1, <1>4 DEF Mine
  <2>2. Mine(q)' = Mine(q)
    BY <1>1, <2>1 DEF Mine
  <2> QED  BY <1>1, <2>1, <2>2 DEF HooksKept, Mine
<1> QED  BY <1>2, <1>3, <1>4

LEMMA WorkStarts ==
    ASSUME HookInv, NEW h \in Hooks, Started(h),
           NEW task \in Tasks \ {"none", "clean", "tidy"}, NEW at \in StagesOf(task),
           NEW s \in Sessions, turn'[s] \in 0 .. MaxTurns,
           NEW output \in SUBSET (Nat \X Nat), task \in {"begin", "open"} => output = {},
           hook' = [hook EXCEPT ![h] = Work(task, at, s, output)]
    PROVE  Starts(h, s, task, at, output)
<1>1. PICK r : /\ r = Work(task, at, s, output)
               /\ r.task = task /\ r.at = at /\ r.session = s /\ r.turn = turn'[s]
               /\ r.output = output
  BY WorkTyped
<1>2. DOMAIN hook = Hooks
  BY DEF HookInv
<1>3. hook'[h] = r /\ OthersStay(h)
  BY <1>1, <1>2 DEF OthersStay
<1>4. Idle(hook[h])
  BY IdleTyped DEF Started, Idle
<1> QED  BY <1>1, <1>3, <1>4 DEF Starts

(* A prompt is submitted. *)
LEMMA PromptStarts ==
    ASSUME AgentInv, HookInv, NEW h \in Hooks, NEW s \in Sessions, SubmitPrompt(h, s)
    PROVE  /\ Starts(h, s, "begin", "lock", {}) /\ turn' = [turn EXCEPT ![s] = @ + 1]
           /\ turn[s] \in Nat /\ turn'[s] = turn[s] + 1 /\ turn'[s] \in 0 .. MaxTurns
<1>1. world \in Worlds /\ world.turns \in 0 .. MaxTurns /\ turn[s] \in 0 .. MaxTurns
  BY NoticeAssumption DEF AgentInv
<1>2. turn' = [turn EXCEPT ![s] = turn[s] + 1] /\ turn[s] < world.turns /\ MaxTurns \in Nat
  BY NoticeAssumption DEF SubmitPrompt
<1>3. turn'[s] = turn[s] + 1 /\ turn'[s] \in 0 .. MaxTurns /\ turn[s] \in Nat
  BY <1>1, <1>2 DEF AgentInv
<1>4. "begin" \in Tasks \ {"none", "clean", "tidy"} /\ "lock" \in StagesOf("begin")
      /\ {} \in SUBSET (Nat \X Nat)
  BY DEF Tasks, StagesOf
<1>5. Starts(h, s, "begin", "lock", {})
  BY <1>3, <1>4, WorkStarts DEF SubmitPrompt
<1> QED  BY <1>2, <1>3, <1>5

LEMMA PromptKeepsCalm ==
    ASSUME AgentInv, HookInv, Numbered, SessionInv,
           NEW h \in Hooks, NEW s \in Sessions, SubmitPrompt(h, s)
    PROVE  SessionInv' /\ upset \subseteq upset'
<1>1. /\ Starts(h, s, "begin", "lock", {}) /\ turn' = [turn EXCEPT ![s] = @ + 1]
      /\ turn[s] \in Nat /\ turn'[s] = turn[s] + 1 /\ DOMAIN turn = Sessions
  BY PromptStarts DEF AgentInv
<1>2. /\ s \notin busy /\ busy' = busy \cup {s} /\ upset \subseteq upset'
      /\ UNCHANGED <<world, observed, dirs, lastWrites>>
  BY DEF SubmitPrompt, treeVars, otherVars, detailVars
<1>3. /\ Mine(s)' = Mine(s) \cup {h} /\ h \notin Mine(s)
      /\ \A g \in Mine(s) : hook'[g] = hook[g]
      /\ \A q : q # s => HooksKept(q)
  BY <1>1, StartsHooks
<1>4. Mine(s) # {} => <<s, turn'[s]>> \in upset'
  BY DEF SubmitPrompt, Mine, Idle, Works
<1>5. AloneInv(s)'
  <2>1. ASSUME NEW g \in Mine(s)'
        PROVE  /\ <<s, hook'[g].turn>> \notin upset' => hook'[g].turn = turn'[s] /\ s \in busy'
               /\ Calm(s)' => hook'[g].turn = turn'[s]
               /\ Calm(s)' /\ hook'[g].task # "record" => Mine(s)' = {g}
    <3>1. CASE g = h
      <4>1. hook'[g].turn = turn'[s]
        BY <1>1, <3>1 DEF Starts
      <4> QED  BY <1>2, <1>3, <1>4, <3>1, <4>1 DEF Calm
    <3>2. CASE g # h
      <4>1. g \in Mine(s) /\ hook'[g] = hook[g]
        BY <1>3, <2>1, <3>2
      <4>2. <<s, hook[g].turn>> \in upset /\ ~Calm(s)'
        BY <1>2, <1>4, <4>1 DEF SessionInv, AloneInv, Calm
      <4> QED  BY <1>2, <4>1, <4>2
    <3> QED  BY <3>1, <3>2
  <2> QED  BY <2>1 DEF AloneInv
<1>6. CalmInv(s)'
  <2>1. SUFFICES ASSUME Calm(s)' PROVE CalmInv(s)'
    BY DEF CalmInv
  <2>2. Mine(s)' = {h}
    BY <1>3, <1>4, <2>1 DEF Calm
  <2>3. ThisTurn(s)' = {}
    <3>1. \A o \in observed[s] : o \in Nat \X Nat /\ o[1] <= turn[s]
      BY DEF Numbered
    <3>2. \A o \in observed[s] : o[1] # turn'[s]
      BY <1>1, <3>1
    <3> QED  BY <1>2, <3>2 DEF ThisTurn, OutputOf
  <2>4. TurnBefore(s)' = ThisTurn(s)
    <3>1. turn'[s] - 1 = turn[s]
      BY <1>1
    <3> QED  BY <1>2, <3>1 DEF TurnBefore, ThisTurn, OutputOf
  <2>5. CalmBefore(s)' => HasExactly(NoticeAt(s), TurnBefore(s))'
    <3>1. turn'[s] - 1 = turn[s]
      BY <1>1
    <3>2. CalmBefore(s)' => Calm(s)
      BY <1>2, <3>1 DEF CalmBefore, Calm
    <3>3. Calm(s) => HasExactly(NoticeAt(s), ThisTurn(s))
      BY <1>2 DEF SessionInv, CalmInv, SessionDue
    <3>4. NoticeAt(s)' = NoticeAt(s)
      BY DEF NoticeAt, PathOf
    <3> QED  BY <1>2, <2>4, <3>2, <3>3, <3>4 DEF HasExactly, HasReceipt
  <2>6. PICK r : r = hook'[h]
    OBVIOUS
  <2>7. r.task = "begin" /\ r.at = "lock"
    BY <1>1, <2>6 DEF Starts
  <2>8. BeginDue(s, r)'
    BY <2>3, <2>5, <2>7 DEF BeginDue
  <2>9. HookDue(s, h)'
    BY <2>6, <2>7, <2>8 DEF HookDue, OpenDue, ShowDue, ConsumeDue, SaveDue
  <2>10. hook'[h].task # "record" /\ s \in busy'
    BY <1>2, <2>6, <2>7
  <2> QED  BY <2>2, <2>9, <2>10, LoneGoes
<1>7. ASSUME NEW q \in Sessions, q # s PROVE AloneInv(q)' /\ CalmInv(q)'
  <2>1. turn'[q] = turn[q] /\ (q \in busy' <=> q \in busy)
    BY <1>1, <1>2, <1>7
  <2>2. DirsKept(q) /\ HooksKept(q) /\ AloneInv(q) /\ CalmInv(q)
    BY <1>2, <1>3, <1>7 DEF DirsKept, SessionInv
  <2>3. \A context, output : PageIs(<<q, turn[q]>>, context, output)
                             => PageIs(<<q, turn[q]>>, context, output)'
    BY <1>2, <2>1 DEF PageIs
  <2> QED  BY <1>2, <2>1, <2>2, <2>3, Elsewhere
<1> QED  BY <1>2, <1>5, <1>6, <1>7 DEF SessionInv

-----------------------------------------------------------------------------
(* More is observed of a turn. *)
LEMMA MoreObserved ==
    ASSUME AgentInv, NEW s \in Sessions, NEW output, \A o \in output : o[1] = turn[s],
           observed' = [observed EXCEPT ![s] = @ \cup output], turn' = turn
    PROVE  /\ ThisTurn(s)' = ThisTurn(s) \cup output
           /\ \A t : t # turn[s] => OutputOf(s, t)' = OutputOf(s, t)
           /\ \A q : q \in Sessions /\ q # s => observed'[q] = observed[q]
<1>1. /\ observed'[s] = observed[s] \cup output
      /\ \A q : q \in Sessions /\ q # s => observed'[q] = observed[q]
  BY DEF AgentInv
<1>2. OutputOf(s, turn[s])' = OutputOf(s, turn[s]) \cup output
  BY <1>1 DEF OutputOf
<1>3. \A t : t # turn[s] => OutputOf(s, t)' = OutputOf(s, t)
  BY <1>1 DEF OutputOf
<1> QED  BY <1>1, <1>2, <1>3 DEF ThisTurn

(* Another session, while a hook is started for one *)
LEMMA StartElsewhere ==
    ASSUME AgentInv, HookInv, SessionInv, NEW s \in Sessions,
           UNCHANGED <<world, turn, busy, dirs, lastWrites, upset>>, NEW q \in Sessions,
           HooksKept(q), observed'[q] = observed[q]
    PROVE  AloneInv(q)' /\ CalmInv(q)'
<1>1. DirsKept(q) /\ AloneInv(q) /\ CalmInv(q)
  BY DEF DirsKept, SessionInv
<1>2. \A context, output : PageIs(<<q, turn[q]>>, context, output)
                           => PageIs(<<q, turn[q]>>, context, output)'
  BY DEF PageIs
<1> QED  BY <1>1, <1>2, Elsewhere

(* The hook of a tool starts with what was just observed. *)
LEMMA ToolStarts ==
    ASSUME AgentInv, HookInv, Numbered, NEW h \in Hooks, NEW s \in Sessions, UseTool(h, s)
    PROVE  /\ UNCHANGED <<world, turn, busy, dirs, lastWrites, upset>>
           /\ \E o : /\ o[1] = turn[s]
                    /\ observed' = [observed EXCEPT ![s] = @ \cup {o}]
                    /\ Starts(h, s, "record", "record", {o})
<1>1. PICK o : /\ o[1] = turn[s] /\ o \in Nat \X Nat
               /\ observed' = [observed EXCEPT ![s] = @ \cup {o}]
               /\ hook' = [hook EXCEPT ![h] = Work("record", "record", s, {o})]
  <2>1. PICK made : made = Cardinality(OutputOf(s, turn[s]))
    OBVIOUS
  <2>2. PICK o : o = <<turn[s], made + 1>>
    OBVIOUS
  <2>3. made \in Nat /\ turn[s] \in Nat
    <3>1. IsFiniteSet(OutputOf(s, turn[s]))
      BY FS_Subset DEF OutputOf, Numbered
    <3>2. turn[s] \in 0 .. MaxTurns /\ MaxTurns \in Nat
      BY NoticeAssumption DEF AgentInv
    <3> QED  BY <2>1, <3>1, <3>2, FS_CardinalityType
  <2>4. /\ observed' = [observed EXCEPT ![s] = @ \cup {o}]
        /\ hook' = [hook EXCEPT ![h] = Work("record", "record", s, {o})]
    BY <2>1, <2>2 DEF UseTool
  <2>5. o[1] = turn[s] /\ o \in Nat \X Nat
    <3>1. made + 1 \in Nat
      BY <2>3
    <3> QED  BY <2>2, <2>3, <3>1
  <2> QED  BY <2>4, <2>5
<1>2. UNCHANGED <<world, turn, busy, dirs, lastWrites, upset>> /\ Started(h)
  BY DEF UseTool, treeVars, otherVars, detailVars
<1>3. Starts(h, s, "record", "record", {o})
  <2>1. "record" \in Tasks \ {"none", "clean", "tidy"} /\ "record" \in StagesOf("record")
    BY DEF Tasks, StagesOf
  <2>2. turn'[s] \in 0 .. MaxTurns /\ {o} \in SUBSET (Nat \X Nat)
    BY <1>1, <1>2 DEF AgentInv
  <2> QED  BY <1>1, <1>2, <2>1, <2>2, WorkStarts
<1> QED  BY <1>1, <1>2, <1>3

(* The hook of a tool: others of its turn that are at work record as well.   *)
LEMMA ToolKeepsCalm ==
    ASSUME AgentInv, HookInv, Numbered, LiveInv, SessionInv,
           NEW h \in Hooks, NEW s \in Sessions, UseTool(h, s)
    PROVE  SessionInv' /\ upset' = upset
<1>1. PICK o : /\ o[1] = turn[s] /\ observed' = [observed EXCEPT ![s] = @ \cup {o}]
               /\ Starts(h, s, "record", "record", {o})
  BY ToolStarts
<1>2. /\ s \in busy /\ \A g \in Attending(s) : Works(g, "record")
      /\ turn' = turn
      /\ UNCHANGED <<world, busy, dirs, lastWrites, upset>>
  BY DEF UseTool, treeVars, otherVars, detailVars
<1>3. Starts(h, s, "record", "record", {o})
  BY <1>1
<1>4. /\ Mine(s)' = Mine(s) \cup {h} /\ h \notin Mine(s)
      /\ \A g \in Mine(s) : hook'[g] = hook[g]
      /\ \A q : q # s => HooksKept(q)
  BY <1>3, StartsHooks
<1>5. /\ ThisTurn(s)' = ThisTurn(s) \cup {o}
      /\ \A q : q \in Sessions /\ q # s => observed'[q] = observed[q]
  <2>1. PICK output : output = {o}
    OBVIOUS
  <2>2. \A x \in output : x[1] = turn[s]
    BY <1>1, <2>1
  <2>3. observed' = [observed EXCEPT ![s] = @ \cup output] /\ turn' = turn
    BY <1>1, <1>2, <2>1
  <2>4. /\ ThisTurn(s)' = ThisTurn(s) \cup output
        /\ \A q : q \in Sessions /\ q # s => observed'[q] = observed[q]
    BY <2>2, <2>3, MoreObserved
  <2> QED  BY <2>1, <2>4
<1>6. AloneInv(s) /\ CalmInv(s)
  BY DEF SessionInv
<1>7. Calm(s) => \A g \in Mine(s) : hook[g].task = "record" /\ hook[g].turn = turn[s]
  BY <1>2, <1>6 DEF AloneInv, Attending, Works, Mine
<1>8. Calm(s)' <=> Calm(s)
  BY <1>2 DEF Calm
<1>9. hook'[h].task = "record" /\ hook'[h].at = "record" /\ hook'[h].output = {o}
      /\ hook'[h].turn = turn[s]
  BY <1>2, <1>3 DEF Starts
<1>10. AloneInv(s)'
  <2>1. ASSUME NEW g \in Mine(s)'
        PROVE  /\ <<s, hook'[g].turn>> \notin upset' => hook'[g].turn = turn'[s] /\ s \in busy'
               /\ Calm(s)' => hook'[g].turn = turn'[s]
               /\ Calm(s)' /\ hook'[g].task # "record" => Mine(s)' = {g}
    <3>1. CASE g = h
      BY <1>2, <1>9, <3>1
    <3>2. CASE g # h
      <4>1. g \in Mine(s) /\ hook'[g] = hook[g]
        BY <1>4, <2>1, <3>2
      <4> QED  BY <1>2, <1>6, <1>7, <1>8, <4>1 DEF AloneInv
    <3> QED  BY <3>1, <3>2
  <2> QED  BY <2>1 DEF AloneInv
<1>11. CalmInv(s)'
  <2>1. SUFFICES ASSUME Calm(s)' PROVE CalmInv(s)'
    BY DEF CalmInv
  <2>2. \A g \in Mine(s)' : hook'[g].task = "record"
    BY <1>4, <1>7, <1>8, <1>9, <2>1
  <2>3. TurnDue(s)
    BY <1>2, <1>6, <1>7, <1>8, <2>1 DEF CalmInv, SessionDue
  <2>4. InFlight(s)' = InFlight(s) \cup {o}
    <3>1. PICK G, H : /\ G = {g \in Mine(s) : hook[g].at = "record"}
                      /\ H = {g \in Mine(s)' : hook'[g].at = "record"}
      OBVIOUS
    <3>2. H = G \cup {h} /\ \A g \in G : hook'[g] = hook[g]
      BY <1>4, <1>9, <3>1
    <3>3. InFlight(s) = UNION {hook[g].output : g \in G}
      BY <3>1 DEF InFlight
    <3>4. InFlight(s)' = UNION {hook'[g].output : g \in H}
      BY <3>1 DEF InFlight
    <3>5. \A x : x \in InFlight(s)' <=> \E g \in H : x \in hook'[g].output
      BY <3>4
    <3>6. \A x : x \in InFlight(s) <=> \E g \in G : x \in hook[g].output
      BY <3>3
    <3>7. \A x : x \in InFlight(s)' <=> x \in InFlight(s) \/ x \in {o}
      BY <1>9, <3>2, <3>5, <3>6
    <3> QED  BY <3>7
  <2>5. NoticeAt(s)' = NoticeAt(s) /\ ReceiptAt(s)' = ReceiptAt(s)
    BY <1>2 DEF NoticeAt, ReceiptAt, PathOf, KeyOf
  <2>6. HasExactly(NoticeAt(s), {})' /\ HasReceipt(ReceiptAt(s))'
    BY <1>2, <2>3, <2>5 DEF TurnDue, HasExactly, HasReceipt
  <2>7. ThisTurn(s)' = dirs'[ReceiptAt(s)'].output \cup InFlight(s)'
    BY <1>2, <1>5, <2>3, <2>4, <2>5 DEF TurnDue
  <2>8. TurnDue(s)'
    BY <2>6, <2>7 DEF TurnDue
  <2> QED  BY <1>2, <2>2, <2>8, RecordersStay
<1>12. ASSUME NEW q \in Sessions, q # s PROVE AloneInv(q)' /\ CalmInv(q)'
  BY <1>2, <1>4, <1>5, <1>12, StartElsewhere
<1> QED  BY <1>2, <1>10, <1>11, <1>12 DEF SessionInv

(* The hook of the end of a turn starts with what the turn made, if anything. *)
LEMMA StopStarts ==
    ASSUME AgentInv, HookInv, NEW h \in Hooks, NEW s \in Sessions, StopTurn(h, s)
    PROVE  /\ UNCHANGED <<world, turn, busy, dirs, lastWrites, upset>>
           /\ \E output : /\ \A o \in output : o[1] = turn[s]
                         /\ observed' = [observed EXCEPT ![s] = @ \cup output]
                         /\ Starts(h, s, "consume", "claim", output)
<1>1. PICK output :
        /\ \A o \in output : o[1] = turn[s] /\ o \in Nat \X Nat
        /\ observed' = [observed EXCEPT ![s] = @ \cup output]
        /\ hook' = [hook EXCEPT ![h] = Work("consume", "claim", s, output)]
  <2>1. PICK output \in IF world.agent = "codex" THEN {{}, {<<turn[s], 1>>}} ELSE {{}} :
            /\ observed' = [observed EXCEPT ![s] = @ \cup output]
            /\ hook' = [hook EXCEPT ![h] = Work("consume", "claim", s, output)]
    BY DEF StopTurn
  <2>2. turn[s] \in Nat
    BY NoticeAssumption DEF AgentInv
  <2>3. <<turn[s], 1>> \in Nat \X Nat
    BY <2>2
  <2>4. \A o \in output : o[1] = turn[s] /\ o \in Nat \X Nat
    BY <2>1, <2>3
  <2> QED  BY <2>1, <2>4
<1>2. UNCHANGED <<world, turn, busy, dirs, lastWrites, upset>> /\ Started(h)
  BY DEF StopTurn, treeVars, otherVars, detailVars
<1>3. Starts(h, s, "consume", "claim", output)
  <2>1. "consume" \in Tasks \ {"none", "clean", "tidy"} /\ "claim" \in StagesOf("consume")
    BY DEF Tasks, StagesOf
  <2>2. turn'[s] \in 0 .. MaxTurns /\ output \in SUBSET (Nat \X Nat)
    BY <1>1, <1>2 DEF AgentInv
  <2> QED  BY <1>1, <1>2, <2>1, <2>2, WorkStarts
<1> QED  BY <1>1, <1>2, <1>3

(* The hook of the end of a turn: no other of the turn is at work.           *)
LEMMA StopKeepsCalm ==
    ASSUME AgentInv, HookInv, Numbered, LiveInv, SessionInv,
           NEW h \in Hooks, NEW s \in Sessions, StopTurn(h, s)
    PROVE  SessionInv' /\ upset' = upset
<1>1. PICK output : /\ \A o \in output : o[1] = turn[s]
                    /\ observed' = [observed EXCEPT ![s] = @ \cup output]
                    /\ Starts(h, s, "consume", "claim", output)
  BY StopStarts
<1>2. /\ s \in busy /\ Attending(s) = {} /\ turn' = turn
      /\ UNCHANGED <<world, busy, dirs, lastWrites, upset>>
  BY DEF StopTurn, treeVars, otherVars, detailVars
<1>3. Starts(h, s, "consume", "claim", output)
  BY <1>1
<1>4. /\ Mine(s)' = Mine(s) \cup {h} /\ h \notin Mine(s)
      /\ \A g \in Mine(s) : hook'[g] = hook[g]
      /\ \A q : q # s => HooksKept(q)
  BY <1>3, StartsHooks
<1>5. /\ ThisTurn(s)' = ThisTurn(s) \cup output
      /\ \A q : q \in Sessions /\ q # s => observed'[q] = observed[q]
  BY <1>1, <1>2, MoreObserved
<1>6. AloneInv(s) /\ CalmInv(s)
  BY DEF SessionInv
<1>7. Calm(s) => Mine(s) = {}
  BY <1>2, <1>6 DEF AloneInv, Attending, Mine
<1>8. Calm(s)' <=> Calm(s)
  BY <1>2 DEF Calm
<1>9. hook'[h].task = "consume" /\ hook'[h].at = "claim" /\ hook'[h].output = output
      /\ hook'[h].turn = turn[s]
  BY <1>2, <1>3 DEF Starts
<1>10. AloneInv(s)'
  <2>1. ASSUME NEW g \in Mine(s)'
        PROVE  /\ <<s, hook'[g].turn>> \notin upset' => hook'[g].turn = turn'[s] /\ s \in busy'
               /\ Calm(s)' => hook'[g].turn = turn'[s]
               /\ Calm(s)' /\ hook'[g].task # "record" => Mine(s)' = {g}
    <3>1. CASE g = h
      BY <1>2, <1>4, <1>7, <1>8, <1>9, <3>1
    <3>2. CASE g # h
      <4>1. g \in Mine(s) /\ hook'[g] = hook[g]
        BY <1>4, <2>1, <3>2
      <4> QED  BY <1>2, <1>6, <1>7, <1>8, <4>1 DEF AloneInv
    <3> QED  BY <3>1, <3>2
  <2> QED  BY <2>1 DEF AloneInv
<1>11. CalmInv(s)'
  <2>1. SUFFICES ASSUME Calm(s)' PROVE CalmInv(s)'
    BY DEF CalmInv
  <2>2. Mine(s) = {} /\ Mine(s)' = {h}
    BY <1>4, <1>7, <1>8, <2>1
  <2>3. TurnDue(s)
    BY <1>2, <1>6, <1>8, <2>1, <2>2 DEF CalmInv, SessionDue
  <2>4. InFlight(s) = {}
    <3>1. \A g : g \notin Mine(s)
      BY <2>2
    <3>2. {g \in Mine(s) : hook[g].at = "record"} = {}
      BY <3>1
    <3> QED  BY <3>2 DEF InFlight
  <2>5. NoticeAt(s)' = NoticeAt(s) /\ ReceiptAt(s)' = ReceiptAt(s)
    BY <1>2 DEF NoticeAt, ReceiptAt, PathOf, KeyOf
  <2>6. HasExactly(NoticeAt(s), {})' /\ HasReceipt(ReceiptAt(s))'
    BY <1>2, <2>3, <2>5 DEF TurnDue, HasExactly, HasReceipt
  <2>7. ThisTurn(s)' = dirs'[ReceiptAt(s)'].output \cup output
    BY <1>2, <1>5, <2>3, <2>4, <2>5 DEF TurnDue
  <2>8. PICK r : r = hook'[h]
    OBVIOUS
  <2>9. r.task = "consume" /\ r.at = "claim" /\ r.output = output
    BY <1>9, <2>8
  <2>10. ConsumeDue(s, h, r)'
    BY <2>6, <2>7, <2>9 DEF ConsumeDue
  <2>11. HookDue(s, h)'
    BY <2>8, <2>9, <2>10 DEF HookDue, BeginDue, OpenDue, ShowDue, SaveDue
  <2> QED  BY <1>2, <1>9, <2>2, <2>11, LoneGoes
<1>12. ASSUME NEW q \in Sessions, q # s PROVE AloneInv(q)' /\ CalmInv(q)'
  BY <1>2, <1>4, <1>5, <1>12, StartElsewhere
<1> QED  BY <1>2, <1>10, <1>11, <1>12 DEF SessionInv

-----------------------------------------------------------------------------
(* Steps that do nothing for a session *)
LEMMA SameCalm ==
    ASSUME AgentInv, HookInv, SessionInv, UNCHANGED <<world, turn, busy, observed, dirs, lastWrites>>,
           upset \subseteq upset', \A s \in Sessions : HooksKept(s)
    PROVE  SessionInv'
<1>1. ASSUME NEW s \in Sessions PROVE AloneInv(s)' /\ CalmInv(s)'
  <2>1. DirsKept(s) /\ AloneInv(s) /\ CalmInv(s)
    BY DEF DirsKept, SessionInv
  <2>2. \A context, output : PageIs(<<s, turn[s]>>, context, output)
                             => PageIs(<<s, turn[s]>>, context, output)'
    BY DEF PageIs
  <2> QED  BY <2>1, <2>2, Elsewhere
<1> QED  BY <1>1 DEF SessionInv

LEMMA HooksSame ==
    ASSUME hook' = hook, NEW s PROVE HooksKept(s)
<1>1. Mine(s)' = Mine(s)
  BY DEF Mine
<1> QED  BY <1>1 DEF HooksKept

(* A turn is interrupted. *)
LEMMA InterruptCalm ==
    ASSUME AgentInv, HookInv, SessionInv, NEW s \in Sessions, Interrupt(s)
    PROVE  SessionInv' /\ upset \subseteq upset'
<1>1. /\ UNCHANGED <<world, turn, observed, dirs, lastWrites, hook>> /\ busy' = busy \ {s}
      /\ upset' = upset \cup {<<s, turn[s]>>}
  BY DEF Interrupt, treeVars, otherVars, detailVars
<1>2. AloneInv(s)' /\ CalmInv(s)'
  <2>1. ~Calm(s)' /\ AloneInv(s) /\ Mine(s)' = Mine(s)
    BY <1>1 DEF Calm, SessionInv, Mine
  <2>2. \A h \in Mine(s) : <<s, hook[h].turn>> \in upset'
    BY <1>1, <2>1 DEF AloneInv
  <2> QED  BY <1>1, <2>1, <2>2 DEF AloneInv, CalmInv
<1>3. ASSUME NEW q \in Sessions, q # s PROVE AloneInv(q)' /\ CalmInv(q)'
  <2>1. DirsKept(q) /\ AloneInv(q) /\ CalmInv(q) /\ HooksKept(q)
    BY <1>1, HooksSame DEF DirsKept, SessionInv
  <2>2. \A context, output : PageIs(<<q, turn[q]>>, context, output)
                             => PageIs(<<q, turn[q]>>, context, output)'
    BY <1>1 DEF PageIs
  <2> QED  BY <1>1, <1>3, <2>1, <2>2, Elsewhere
<1> QED  BY <1>1, <1>2, <1>3 DEF SessionInv

(* A clean-up starts: it has no time yet. *)
LEMMA SweepRecord ==
    ASSUME HookInv, NEW h \in Hooks, StartSweep(h)
    PROVE  /\ OthersStay(h) /\ Idle(hook[h]) /\ Idle(hook'[h])
           /\ hook'[h].task = "clean" => hook'[h].sweep.now = 0
<1>1. DOMAIN hook = Hooks /\ hook[h] = NoWork /\ Idle(hook[h])
  BY IdleTyped DEF HookInv, StartSweep, Started, Idle
<1>2. PICK n, r : n = NoWork /\ r = [n EXCEPT !.task = "clean", !.at = "scan"]
  OBVIOUS
<1>3. hook' = [hook EXCEPT ![h] = r] \/ hook' = [hook EXCEPT ![h] = Tidying]
  BY <1>2 DEF StartSweep
<1>4. OthersStay(h) /\ (hook'[h] = r \/ hook'[h] = Tidying)
  BY <1>1, <1>3 DEF OthersStay
<1>5. r.task = "clean" /\ r.sweep.now = 0
  <2>1. DOMAIN n = HookFields /\ n.sweep.now = 0
    BY <1>2, IdleTyped DEF NoWork, NoSweep
  <2> QED  BY <1>2, <2>1 DEF HookFields
<1>6. Tidying.task = "tidy"
  BY TidyTyped
<1> QED  BY <1>1, <1>4, <1>5, <1>6 DEF Idle

LEMMA SweepCalm ==
    ASSUME AgentInv, HookInv, SessionInv, NEW h \in Hooks, StartSweep(h)
    PROVE  SessionInv' /\ upset' = upset
<1>1. /\ UNCHANGED <<world, turn, busy, observed, dirs, lastWrites>> /\ upset' = upset
  BY DEF StartSweep, agentVars, treeVars, otherVars, detailVars
<1>2. \A s \in Sessions : HooksKept(s)
  BY SweepRecord, CleaningElsewhere
<1> QED  BY <1>1, <1>2, SameCalm

(* A clean-up dies. *)
LEMMA CleanerDies ==
    ASSUME AgentInv, HookInv, SessionInv, NEW h \in Hooks, Idle(hook[h]), Crash(h)
    PROVE  SessionInv' /\ upset \subseteq upset'
<1>1. Ended(h)
  BY EndRecord DEF Crash
<1>2. OthersStay(h) /\ Idle(hook'[h])
  BY <1>1, IdleTyped DEF Ended, Idle
<1>3. hook[h].task \notin {"consume", "save"}
  BY DEF Idle
<1>4. UNCHANGED <<world, turn, busy, observed, dirs, lastWrites>> /\ upset \subseteq upset'
  BY <1>3 DEF Crash, treeVars, detailVars, Upset
<1>5. \A s \in Sessions : HooksKept(s)
  BY <1>2, CleaningElsewhere
<1> QED  BY <1>4, <1>5, SameCalm

-----------------------------------------------------------------------------
(* Turns are only submitted. *)
LEMMA LiveKept ==
    ASSUME LiveInv, UNCHANGED <<world, turn>>, busy' \subseteq busy
    PROVE  LiveInv'
<1> QED  BY DEF LiveInv

LEMMA LivePrompt ==
    ASSUME AgentInv, HookInv, LiveInv, NEW h \in Hooks, NEW s \in Sessions, SubmitPrompt(h, s)
    PROVE  LiveInv'
<1>1. /\ turn' = [turn EXCEPT ![s] = @ + 1] /\ turn[s] \in Nat /\ turn'[s] = turn[s] + 1
      /\ DOMAIN turn = Sessions
  BY PromptStarts DEF AgentInv
<1>2. /\ busy' = busy \cup {s} /\ world' = world /\ s \in world.live /\ turn[s] < world.turns
      /\ world.turns \in Nat
  BY NoticeAssumption DEF AgentInv, SubmitPrompt
<1>3. turn'[s] > 0 /\ turn'[s] <= world.turns
  BY <1>1, <1>2
<1>4. \A q \in Sessions : q # s => turn'[q] = turn[q]
  BY <1>1
<1> QED  BY <1>2, <1>3, <1>4 DEF LiveInv

-----------------------------------------------------------------------------
(* What the hook of a prompt does, one after the other *)
Prompting == {"begin", "open", "show", "tell"}

(* A hook of a turn does not become a clean-up, nor does that of a prompt go   *)
(* on to the work of another.                                               *)
Proceeds(h) ==
    /\ OthersStay(h) /\ hook'[h].task # "clean"
    /\ hook[h].task \in Prompting => hook'[h].task \in Prompting \cup {"none"}

LEMMA HookProceeds ==
    ASSUME HookInv, NEW h \in Hooks, ~Idle(hook[h]), Goes(h)
    PROVE  Proceeds(h)
<1>1. /\ DOMAIN hook = Hooks /\ DOMAIN hook[h] = HookFields /\ Attends(h)
      /\ hook[h].task # "clean"
  BY AttendsOnly DEF HookInv, Typed, Idle
<1>2. ASSUME NEW task, NEW place, Onward(h, task, place),
             \/ task \in {"open", "show", "tell", hook[h].task}
             \/ task # "clean" /\ hook[h].task \notin Prompting
      PROVE  Proceeds(h)
  BY <1>1, <1>2 DEF Onward, Proceeds, Prompting
<1>3. ASSUME NEW place, Go(h, place)
      PROVE  Proceeds(h)
  BY <1>1, <1>2, <1>3, GoRecord
<1>4. ASSUME NEW task, NEW place, task \in {"open", "show", "tell"}, NextTask(h, task, place)
      PROVE  Proceeds(h)
  BY <1>2, <1>4, NextTaskRecord
<1>5. ASSUME Ended(h)
      PROVE  Proceeds(h)
  BY <1>5, IdleTyped DEF Ended, Proceeds
<1>6. ASSUME Finish(h)
      PROVE  Proceeds(h)
  <2>1. FinishedAs(h)
    BY <1>6, FinishRecord
  <2>2. \/ \E task \in {"open", "tell"} : \E place : Onward(h, task, place)
        \/ hook[h].task = "consume" /\ \E place : Onward(h, "save", place)
        \/ Ended(h)
    BY <1>1, <2>1 DEF FinishedAs
  <2>3. hook[h].task = "consume" => hook[h].task \notin Prompting
    BY DEF Prompting
  <2> QED  BY <1>2, <1>5, <2>2, <2>3
<1>7. ASSUME Fail(h)
      PROVE  Proceeds(h)
  <2>1. \/ \E task \in {"open", "show"} : \E place : NextTask(h, task, place)
        \/ \E place : Go(h, place)
        \/ End(h)
    BY <1>7 DEF Fail
  <2> QED  BY <1>3, <1>4, <1>5, <2>1, EndRecord
<1>8. ASSUME NEW r, hook' = [hook EXCEPT ![h] = r], r.task \in {"open", "show", hook[h].task}
      PROVE  Proceeds(h)
  BY <1>1, <1>8 DEF OthersStay, Proceeds, Prompting
<1>9. CASE Makes(h)
  BY <1>3, <1>9 DEF Makes, LockAndReset, MakeAgentDir, MakeSessionDir, MakeDir
<1>10. CASE MakeFails(h) \/ LockTimesOut(h)
  BY <1>7, <1>10 DEF MakeFails, LockTimesOut
<1>11. CASE WriteFile(h)
  BY <1>6, <1>11 DEF WriteFile
<1>12. CASE RecordOutput(h) \/ DiscardClaim(h)
  BY <1>3, <1>12 DEF RecordOutput, DiscardClaim
<1>13. CASE ClaimIt(h)
  <2>1. Go(h, "read") \/ hook' = [hook EXCEPT ![h].at = "prune", ![h].output = {}]
    BY <1>13 DEF ClaimIt
  <2>2. PICK r : r = [hook[h] EXCEPT !.at = "prune", !.output = {}]
    OBVIOUS
  <2>3. r.task = hook[h].task
    BY <1>1, <2>2 DEF HookFields
  <2>4. hook' = [hook EXCEPT ![h].at = "prune", ![h].output = {}] => hook' = [hook EXCEPT ![h] = r]
    BY <1>1, <2>2
  <2> QED  BY <1>1, <1>3, <1>8, <2>1, <2>3, <2>4
<1>14. CASE ReadClaim(h)
  <2>1. PICK output : hook' = [hook EXCEPT ![h].at = "discard", ![h].output = output]
    BY <1>1, <1>14 DEF ReadClaim
  <2>2. PICK r : r = [hook[h] EXCEPT !.at = "discard", !.output = output]
    OBVIOUS
  <2>3. r.task = hook[h].task
    BY <1>1, <2>2 DEF HookFields
  <2>4. hook' = [hook EXCEPT ![h] = r]
    BY <1>1, <2>1, <2>2
  <2> QED  BY <1>1, <1>8, <2>3, <2>4
<1>15. CASE Prune(h) \/ PruneAgent(h)
  BY <1>3, <1>6, <1>15 DEF Prune, PruneAgent
<1>16. CASE OpenPage(h)
  <2>1. PICK r : /\ r = [hook[h] EXCEPT !.page = TRUE, !.task = IF world.rules THEN "open" ELSE "show",
                                        !.at = IF world.rules THEN "context" ELSE "claim"]
    OBVIOUS
  <2>2. r.task \in {"open", "show"}
    BY <1>1, <2>1 DEF HookFields
  <2>3. hook' = [hook EXCEPT ![h] = r]
    BY <1>1, <1>16, <2>1 DEF OpenPage
  <2> QED  BY <1>8, <2>2, <2>3
<1>17. CASE RecordRules(h) \/ TellResult(h)
  BY <1>4, <1>5, <1>17, EndRecord DEF RecordRules, TellResult
<1> QED  BY <1>1, <1>9, <1>10, <1>11, <1>12, <1>13, <1>14, <1>15, <1>16, <1>17 DEF Attends

-----------------------------------------------------------------------------
(* The times of directories *)
Timed(tree) == \A p \in DOMAIN tree : tree[p].since \in Nat

LEMMA TimesKept ==
    ASSUME AgentInv, HookInv, TreeInv, Timed(dirs), NEW h \in Hooks, Goes(h)
    PROVE  Timed(dirs')
<1>1. clock \in Nat
  BY NoticeAssumption DEF AgentInv
<1>2. Made.since \in Nat /\ \A output : Written(output).since \in Nat
  BY <1>1 DEF Made, Written
<1>3. CASE UNCHANGED dirs
  BY <1>3
<1>4. ASSUME NEW p, dirs' = Without(p) PROVE Timed(dirs')
  BY <1>4, OnlyWithout DEF Timed, DirsOnly
<1>5. ASSUME NEW p, NEW d, NEW S, d.since \in Nat, S \subseteq DOMAIN dirs, dirs' = Holding(p, d, S)
      PROVE  Timed(dirs')
  <2>1. /\ DOMAIN dirs' = S \cup {p} /\ dirs'[p] = d
        /\ \A q \in S : q # p => dirs'[q] = dirs[q]
    BY <1>5 DEF Holding
  <2> QED  BY <1>5, <2>1 DEF Timed
<1>6. ASSUME NEW p, NEW d, d.since \in Nat, dirs' = [dirs EXCEPT ![p] = d]
      PROVE  Timed(dirs')
  BY <1>6 DEF Timed
<1>7. CASE LockAndReset(h) \/ DiscardClaim(h)
  BY <1>4, <1>7 DEF LockAndReset, DiscardClaim
<1>8. CASE MakeDir(h)
  <2>1. dirs' = Holding(Target(h), Made, DOMAIN dirs)
    BY <1>8 DEF MakeDir
  <2> QED  BY <1>2, <1>5, <2>1
<1>9. CASE WriteFile(h)
  BY <1>2, <1>6, <1>9 DEF WriteFile
<1>10. CASE RecordOutput(h) /\ dirs' # dirs
  <2>1. PICK t, d : t = Target(h) /\ d = [dirs[t] EXCEPT !.output = @ \cup hook[h].output]
    OBVIOUS
  <2>2. /\ t \in DOMAIN dirs
        /\ dirs' = [dirs EXCEPT ![Target(h)].output = @ \cup hook[h].output]
    BY <1>10, <2>1 DEF RecordOutput, HasReceipt
  <2>3. dirs' = [dirs EXCEPT ![t] = d]
    BY <2>1, <2>2
  <2>4. d.since \in Nat
    BY <2>1, <2>2 DEF Timed, TreeInv
  <2> QED  BY <1>6, <2>3, <2>4
<1>11. CASE ClaimIt(h) /\ dirs' # dirs
  <2>1. /\ Target(h) \in DOMAIN dirs
        /\ dirs' = Holding(Claim(h), dirs[Target(h)], DOMAIN dirs \ {Target(h)})
    BY <1>11 DEF ClaimIt
  <2>2. dirs[Target(h)].since \in Nat
    BY <2>1 DEF Timed
  <2>3. PICK d, S : d = dirs[Target(h)] /\ S = DOMAIN dirs \ {Target(h)}
    OBVIOUS
  <2> QED  BY <1>5, <2>1, <2>2, <2>3
<1>12. CASE SweepNext(h) /\ dirs' # dirs
  <2>1. \E p : dirs' = Without(p)
    BY <1>12 DEF SweepNext
  <2> QED  BY <1>4, <2>1
<1>13. \/ MakeAgentDir(h) \/ MakeSessionDir(h)
       \/ MakeFails(h) \/ ReadClaim(h) \/ LockTimesOut(h) \/ Scan(h) \/ EndSweep(h)
       \/ Prune(h) \/ PruneAgent(h)
       \/ OpenPage(h) \/ RecordRules(h) \/ TellResult(h) \/ RemoveDetails(h)
       \/ StartMove(h) \/ SkipDetails(h) \/ MoveNext(h) \/ MoveFails(h) \/ DropOld(h)
       => UNCHANGED dirs
  BY DEF MakeAgentDir, MakeSessionDir, MakeFails, ReadClaim, LockTimesOut, Scan, EndSweep, Prune,
         PruneAgent, OpenPage, RecordRules, TellResult, RemoveDetails, StartMove, SkipDetails,
         MoveNext, MoveFails, DropOld, receiptVars, treeVars
<1> QED  BY <1>3, <1>7, <1>8, <1>9, <1>10, <1>11, <1>12, <1>13 DEF Goes

(* A clean-up takes the time of the clock. *)
LEMMA SweepKept ==
    ASSUME SweepInv, NEW h \in Hooks, OthersStay(h), Timed(dirs'), clock' = clock, clock \in Nat,
           hook'[h].task = "clean" =>
                \/ hook'[h].sweep.now \in {0, clock}
                \/ hook[h].task = "clean" /\ hook'[h].sweep.now = hook[h].sweep.now
    PROVE  SweepInv'
<1>1. \A g \in Hooks : g # h => hook'[g] = hook[g]
  BY DEF OthersStay
<1>2. hook'[h].task = "clean" => hook'[h].sweep.now \in 0 .. clock
  <2>1. 0 \in 0 .. clock /\ clock \in 0 .. clock
    OBVIOUS
  <2> QED  BY <2>1 DEF SweepInv
<1> QED  BY <1>1, <1>2 DEF SweepInv, Timed

LEMMA GoesSweep ==
    ASSUME AgentInv, HookInv, TreeInv, SweepInv, NEW h \in Hooks, Goes(h)
    PROVE  SweepInv'
<1>1. Timed(dirs') /\ clock' = clock /\ clock \in Nat
  BY NoticeAssumption, TimesKept, GoesSame DEF Timed, SweepInv, AgentInv
<1>2. CASE Idle(hook[h])
  BY <1>1, <1>2, CleaningRecord, SweepKept DEF Cleaning
<1>3. CASE ~Idle(hook[h])
  BY <1>1, <1>3, HookProceeds, SweepKept DEF Proceeds
<1> QED  BY <1>2, <1>3

(* A hook that is not a clean-up is started, or ends. *)
LEMMA OtherSweep ==
    ASSUME AgentInv, SweepInv, NEW h \in Hooks, OthersStay(h), UNCHANGED <<dirs, clock>>,
           hook'[h].task = "clean" => hook'[h].sweep.now = 0
    PROVE  SweepInv'
<1>1. Timed(dirs') /\ clock \in Nat
  BY NoticeAssumption DEF Timed, SweepInv, AgentInv
<1> QED  BY <1>1, SweepKept

LEMMA LaterSweep ==
    ASSUME SweepInv, UNCHANGED <<dirs, hook>>, clock \in Nat, clock' \in Nat, clock <= clock'
    PROVE  SweepInv'
<1>1. \A n \in 0 .. clock : n \in 0 .. clock'
  OBVIOUS
<1> QED  BY <1>1 DEF SweepInv

-----------------------------------------------------------------------------
(* A step of a hook either leaves the pages alone, writes one, creates one, or *)
(* removes some.                                                            *)
LEMMA GoesPages ==
    ASSUME AgentInv, HookInv, PageInv, NEW h \in Hooks, Goes(h)
    PROVE  /\ clock' = clock
           /\ \/ UNCHANGED <<details, lastWrites>>
              \/ \E w \in Detail : WriteDetail(w)
              \/ \E id \in Prompts, now \in Nat : CreateDetail(id, now)
              \/ RemoveExpiredAndTrim(clock) /\ lastWrites' = lastWrites
<1>1. clock' = clock
  BY GoesSame
<1>2. CASE OffPage(h)
  BY <1>1, <1>2, OffPageSame DEF detailVars
<1>3. CASE OpenPage(h)
  <2>1. CreateDetail(Page(h), clock) /\ hook[h].task = "open"
    BY <1>3, StageTask DEF OpenPage, At, HookInv
  <2>2. Page(h) \in Prompts /\ clock \in Nat
    BY <2>1, PageNamed
  <2> QED  BY <1>1, <2>1, <2>2
<1>4. CASE RecordRules(h) \/ TellResult(h)
  BY <1>1, <1>4, PageWrites
<1>5. CASE RemoveDetails(h) \/ DropOld(h)
  BY <1>1, <1>5 DEF RemoveDetails, DropOld
<1>6. CASE StartMove(h) \/ SkipDetails(h) \/ MoveFails(h)
  BY <1>1, <1>6 DEF StartMove, SkipDetails, MoveFails, detailVars
<1>7. CASE MoveNext(h)
  <2>1. UNCHANGED <<details, lastWrites>> \/ \E d \in oldDetails : WriteDetail(d)
    BY <1>7 DEF MoveNext
  <2>2. oldDetails \subseteq Detail
    BY DEF PageInv
  <2> QED  BY <1>1, <2>1, <2>2
<1> QED  BY <1>2, <1>3, <1>4, <1>5, <1>6, <1>7 DEF Goes, OffPage

LEMMA GoesStays ==
    ASSUME AgentInv, HookInv, PageInv, StayInv, NEW h \in Hooks, Goes(h)
    PROVE  StayInv'
<1>1. clock \in Nat /\ clock' = clock /\ clock <= clock
  BY NoticeAssumption, GoesPages DEF AgentInv
<1>2. CASE UNCHANGED <<details, lastWrites>>
  BY <1>1, <1>2, SameStays
<1>3. CASE \E w \in Detail : WriteDetail(w)
  BY <1>1, <1>3, WroteStays
<1>4. CASE \E id \in Prompts, now \in Nat : CreateDetail(id, now)
  BY <1>1, <1>4, CreatedStays
<1>5. CASE RemoveExpiredAndTrim(clock) /\ lastWrites' = lastWrites
  BY <1>1, <1>5, CleanedUpStays
<1> QED  BY <1>2, <1>3, <1>4, <1>5, GoesPages

(* No page that was written is forgotten. *)
LEMMA IdsGrow ==
    ASSUME AgentInv, HookInv, PageInv, NEW h \in Hooks, Goes(h)
    PROVE  IdsOf(lastWrites) \subseteq IdsOf(lastWrites')
<1>1. CASE lastWrites' = lastWrites
  BY <1>1
<1>2. CASE \E w \in Detail : WriteDetail(w)
  <2>1. PICK w \in Detail : WriteDetail(w)
    BY <1>2
  <2>2. ToSet(lastWrites') = {c \in ToSet(lastWrites) : c.id # w.id} \cup {w}
    BY <2>1, Wrote
  <2> QED  BY <2>2 DEF IdsOf
<1>3. CASE \E id \in Prompts, now \in Nat : CreateDetail(id, now)
  <2>1. PICK id \in Prompts, now \in Nat : CreateDetail(id, now)
    BY <1>3
  <2>2. PICK w : w = NewDetail(id, now)
    OBVIOUS
  <2>3. w.id = id
    BY <2>2 DEF NewDetail
  <2>4. ToSet(lastWrites') = {c \in ToSet(lastWrites) : c.id # id} \cup {w}
    BY <2>1, <2>2, Created
  <2> QED  BY <2>3, <2>4 DEF IdsOf
<1> QED  BY <1>1, <1>2, <1>3, GoesPages

-----------------------------------------------------------------------------
(* A page of the layout before is there, or was written, until it expires;   *)
(* the hook that moves them has it still to do.                             *)
OldIds == {d.id : d \in oldDetails}

OldInv ==
    /\ \A d \in oldDetails : d.since = 0
    /\ clock < DetailTTL =>
        \A id \in world.old \ upset :
            /\ id \in OldIds \cup IdsOf(lastWrites)
            /\ \A h \in Hooks : hook[h].at = "move" => id \in hook[h].sweep.left \cup IdsOf(lastWrites)

(* Nothing happens to the ones that are left. *)
LEMMA OldSame ==
    ASSUME OldInv, UNCHANGED <<world, oldDetails>>, upset \subseteq upset',
           clock \in Nat, clock' \in Nat, clock <= clock',
           IdsOf(lastWrites) \subseteq IdsOf(lastWrites'),
           \A h \in Hooks : hook'[h].at = "move" => hook'[h] = hook[h]
    PROVE  OldInv'
<1>1. clock' < DetailTTL => clock < DetailTTL
  BY DetailAssumption
<1>2. OldIds' = OldIds
  BY DEF OldIds
<1>3. IdsOf(lastWrites)' = IdsOf(lastWrites')
  BY DEF IdsOf
<1> QED  BY <1>1, <1>2, <1>3 DEF OldInv

(* They are moved. *)
LEMMA MoveStarts ==
    ASSUME HookInv, PageInv, OldInv, NEW h \in Hooks, StartMove(h)
    PROVE  OldInv'
<1>1. /\ hook' = [hook EXCEPT ![h].at = "move", ![h].sweep.left = OldIds]
      /\ UNCHANGED <<world, clock, oldDetails, lastWrites, upset>>
  BY DEF StartMove, OldIds, receiptVars, agentVars, detailVars
<1>2. /\ DOMAIN hook = Hooks /\ DOMAIN hook[h] = HookFields
      /\ DOMAIN hook[h].sweep = SweepFields
  BY DEF HookInv, Typed
<1>3. hook'[h].sweep.left = OldIds /\ \A g \in Hooks : g # h => hook'[g] = hook[g]
  BY <1>1, <1>2 DEF HookFields, SweepFields
<1> QED  BY <1>1, <1>3 DEF OldInv, OldIds, IdsOf

LEMMA Moves ==
    ASSUME AgentInv, HookInv, PageInv, OldInv, NEW h \in Hooks, MoveNext(h)
    PROVE  OldInv'
<1>1. PICK d \in oldDetails :
        /\ IF d \in Movable(clock) THEN WriteDetail(d) ELSE UNCHANGED <<details, lastWrites>>
        /\ hook' = [hook EXCEPT ![h].sweep.left = @ \ {d.id}]
  BY DEF MoveNext
<1>2. UNCHANGED <<world, clock, oldDetails, upset>> /\ hook[h].at = "move"
  BY DEF MoveNext, receiptVars, agentVars, At
<1>3. /\ DOMAIN hook = Hooks /\ DOMAIN hook[h] = HookFields
      /\ DOMAIN hook[h].sweep = SweepFields
  BY DEF HookInv, Typed
<1>4. /\ hook'[h].sweep.left = hook[h].sweep.left \ {d.id}
      /\ \A g \in Hooks : g # h => hook'[g] = hook[g]
  BY <1>1, <1>3 DEF HookFields, SweepFields
<1>5. IdsOf(lastWrites) \subseteq IdsOf(lastWrites')
  BY IdsGrow DEF Goes
<1>6. clock < DetailTTL => d.id \in IdsOf(lastWrites')
  <2>1. CASE d \in Movable(clock)
    <3>1. WriteDetail(d) /\ d \in Detail
      BY <1>1, <2>1 DEF PageInv
    <3>2. d \in ToSet(lastWrites')
      BY <3>1, Wrote
    <3> QED  BY <3>2 DEF IdsOf
  <2>2. CASE d \notin Movable(clock) /\ clock < DetailTTL
    <3>1. d.since = 0 /\ clock \in Nat /\ DetailTTL \in Nat
      BY NoticeAssumption, DetailAssumption DEF OldInv, AgentInv
    <3>2. ~DetailExpired(d, clock)
      BY <2>2, <3>1 DEF DetailExpired
    <3>3. PICK e \in ToSet(details) : e.id = d.id
      BY <2>2, <3>2 DEF Movable, Of
    <3>4. e \in ToSet(lastWrites)
      BY DEF PageInv
    <3> QED  BY <1>5, <3>3, <3>4 DEF IdsOf
  <2> QED  BY <2>1, <2>2
<1>7. OldIds' = OldIds /\ IdsOf(lastWrites)' = IdsOf(lastWrites')
  BY <1>2 DEF OldIds, IdsOf
<1>8. ASSUME clock < DetailTTL, NEW id \in world.old \ upset
      PROVE  /\ id \in OldIds \cup IdsOf(lastWrites')
             /\ \A g \in Hooks : hook'[g].at = "move" =>
                    id \in hook'[g].sweep.left \cup IdsOf(lastWrites')
  <2>1. /\ id \in OldIds \cup IdsOf(lastWrites)
        /\ \A g \in Hooks : hook[g].at = "move" => id \in hook[g].sweep.left \cup IdsOf(lastWrites)
    BY <1>8 DEF OldInv
  <2>2. id \in hook'[h].sweep.left \cup IdsOf(lastWrites')
    BY <1>2, <1>4, <1>5, <1>6, <1>8, <2>1
  <2> QED  BY <1>4, <1>5, <2>1, <2>2
<1> QED  BY <1>2, <1>7, <1>8 DEF OldInv

LEMMA MovesNot ==
    ASSUME HookInv, OldInv, NEW h \in Hooks, MoveFails(h)
    PROVE  OldInv'
<1>1. PICK d \in oldDetails :
        /\ hook' = [hook EXCEPT ![h].sweep.left = @ \ {d.id}, ![h].sweep.complete = FALSE]
        /\ upset' = upset \cup {d.id}
  BY DEF MoveFails, Movable
<1>2. UNCHANGED <<world, clock, oldDetails, lastWrites>> /\ hook[h].at = "move"
  BY DEF MoveFails, receiptVars, agentVars, detailVars, At
<1>3. /\ DOMAIN hook = Hooks /\ DOMAIN hook[h] = HookFields
      /\ DOMAIN hook[h].sweep = SweepFields
  BY DEF HookInv, Typed
<1>4. /\ hook'[h].sweep.left = hook[h].sweep.left \ {d.id}
      /\ \A g \in Hooks : g # h => hook'[g] = hook[g]
  BY <1>1, <1>3 DEF HookFields, SweepFields
<1>5. OldIds' = OldIds /\ IdsOf(lastWrites)' = IdsOf(lastWrites)
  BY <1>2 DEF OldIds, IdsOf
<1> QED  BY <1>1, <1>2, <1>4, <1>5 DEF OldInv

LEMMA OldDropped ==
    ASSUME HookInv, OldInv, NEW h \in Hooks, DropOld(h)
    PROVE  OldInv'
<1>1. /\ hook[h].at = "move" /\ hook[h].sweep.left = {} /\ oldDetails' = {}
      /\ UNCHANGED <<world, clock, lastWrites, upset>> /\ Ended(h)
  BY EndRecord DEF DropOld, At, receiptVars, agentVars
<1>2. \A g \in Hooks : hook'[g].at = "move" => hook'[g] = hook[g]
  BY <1>1, IdleTyped DEF Ended, OthersStay
<1>3. IdsOf(lastWrites)' = IdsOf(lastWrites)
  BY <1>1 DEF IdsOf
<1> QED  BY <1>1, <1>2, <1>3 DEF OldInv

(* The hooks at work *)
LEMMA GoesOld ==
    ASSUME AgentInv, HookInv, TreeInv, PageInv, OldInv, NEW h \in Hooks, Goes(h), upset \subseteq upset'
    PROVE  OldInv'
<1>1. CASE StartMove(h)
  BY <1>1, MoveStarts
<1>2. CASE MoveNext(h)
  BY <1>2, Moves
<1>3. CASE MoveFails(h)
  BY <1>3, MovesNot
<1>4. CASE DropOld(h)
  BY <1>4, OldDropped
<1>5. CASE ~StartMove(h) /\ ~MoveNext(h) /\ ~MoveFails(h) /\ ~DropOld(h)
  <2>1. UNCHANGED <<world, clock>> /\ IdsOf(lastWrites) \subseteq IdsOf(lastWrites')
    BY GoesSame, IdsGrow
  <2>2. oldDetails' = oldDetails
    <3>1. CASE OffPage(h)
      BY <3>1, OffPageSame DEF detailVars
    <3>2. CASE OpenPage(h) \/ RecordRules(h) \/ TellResult(h) \/ RemoveDetails(h) \/ SkipDetails(h)
      BY <3>2 DEF OpenPage, RecordRules, TellResult, RemoveDetails, SkipDetails, detailVars
    <3> QED  BY <1>5, <3>1, <3>2 DEF Goes, OffPage
  <2>3. hook[h].at # "move"
    <3>1. CASE OffPage(h)
      BY <3>1, OffPageSame
    <3>2. CASE OpenPage(h) \/ RecordRules(h) \/ TellResult(h) \/ RemoveDetails(h) \/ SkipDetails(h)
      BY <3>2 DEF OpenPage, RecordRules, TellResult, RemoveDetails, SkipDetails, At
    <3> QED  BY <1>5, <3>1, <3>2 DEF Goes, OffPage
  <2>4. PICK r : GoesOnAs(h, r) /\ r.at # "move"
    BY <1>5, <2>3, GoingOn, ReadingOn
  <2>5. \A g \in Hooks : hook'[g].at = "move" => hook'[g] = hook[g]
    BY <2>4, HooksTyped DEF GoesOnAs
  <2>6. clock \in Nat /\ clock <= clock
    BY NoticeAssumption DEF AgentInv
  <2> QED  BY <2>1, <2>2, <2>5, <2>6, OldSame
<1> QED  BY <1>1, <1>2, <1>3, <1>4, <1>5

-----------------------------------------------------------------------------
(* The page of a prompt that the agent was told of is complete.              *)
ToldInv ==
    \A s \in Sessions : \A t \in 1 .. turn[s] :
        Told(s, t) => PageIs(<<s, t>>, world.rules, OutputOf(s, t - 1))

(* A prompt that was told of after a step was so before, unless its hook made *)
(* the step.                                                                *)
LEMMA ToldBefore ==
    ASSUME NEW s, NEW t, NEW h \in Hooks, OthersStay(h), upset \subseteq upset', Told(s, t)',
           Page(h) = <<s, t>> => hook[h].task \notin Prompting
    PROVE  Told(s, t)
<1>1. /\ <<s, t>> \notin upset /\ <<s, t - 1>> \notin upset
      /\ \A g \in Hooks : Page(g)' = <<s, t>> =>
            hook'[g].task \notin {"begin", "open", "show", "tell"}
  BY DEF Told
<1>2. ASSUME NEW g \in Hooks, Page(g) = <<s, t>>
      PROVE  hook[g].task \notin {"begin", "open", "show", "tell"}
  <2>1. CASE g = h
    BY <1>2, <2>1 DEF Prompting
  <2>2. CASE g # h
    <3>1. hook'[g] = hook[g]
      BY <2>2 DEF OthersStay
    <3>2. Page(g)' = Page(g)
      BY <3>1 DEF Page
    <3> QED  BY <1>1, <1>2, <3>1, <3>2
  <2> QED  BY <2>1, <2>2
<1> QED  BY <1>1, <1>2 DEF Told

(* Steps that leave the page alone, and what it shows. *)
LEMMA ToldKept ==
    ASSUME ToldInv, NEW s \in Sessions, NEW t \in 1 .. turn[s], Told(s, t), world' = world,
           OutputOf(s, t - 1)' = OutputOf(s, t - 1),
           \A context, output : PageIs(<<s, t>>, context, output) => PageIs(<<s, t>>, context, output)'
    PROVE  PageIs(<<s, t>>, world.rules, OutputOf(s, t - 1))'
<1>1. PICK rules, output : rules = world.rules /\ output = OutputOf(s, t - 1)
  OBVIOUS
<1>2. PageIs(<<s, t>>, rules, output)
  BY <1>1 DEF ToldInv
<1>3. PageIs(<<s, t>>, rules, output)'
  BY <1>2
<1> QED  BY <1>1, <1>3 DEF PageIs

(* A hook with nothing to do on the pages of prompts is started, or ends.    *)
LEMMA ToldStarting ==
    ASSUME ToldInv, NEW h \in Hooks, OthersStay(h), hook[h].task \notin Prompting,
           world' = world, lastWrites' = lastWrites, upset \subseteq upset',
           \A s \in Sessions : \A t \in 1 .. turn'[s] :
                \/ /\ t \in 1 .. turn[s] /\ OutputOf(s, t - 1)' = OutputOf(s, t - 1)
                \/ ~Told(s, t)'
    PROVE  ToldInv'
<1>1. ASSUME NEW s \in Sessions, NEW t \in 1 .. turn'[s], Told(s, t)'
      PROVE  PageIs(<<s, t>>, world.rules, OutputOf(s, t - 1))'
  <2>1. t \in 1 .. turn[s] /\ OutputOf(s, t - 1)' = OutputOf(s, t - 1)
    BY <1>1
  <2>2. Told(s, t)
    BY <1>1, ToldBefore
  <2>3. \A context, output : PageIs(<<s, t>>, context, output) => PageIs(<<s, t>>, context, output)'
    BY DEF PageIs
  <2> QED  BY <2>1, <2>2, <2>3, ToldKept
<1> QED  BY <1>1 DEF ToldInv

(* Nothing is done by the hooks. *)
LEMMA ToldSame ==
    ASSUME ToldInv, UNCHANGED <<world, turn, observed, hook, lastWrites>>, upset \subseteq upset'
    PROVE  ToldInv'
<1>1. ASSUME NEW s \in Sessions, NEW t \in 1 .. turn[s], Told(s, t)'
      PROVE  PageIs(<<s, t>>, world.rules, OutputOf(s, t - 1))'
  <2>1. Told(s, t)
    BY <1>1 DEF Told, Page
  <2>2. OutputOf(s, t - 1)' = OutputOf(s, t - 1)
    BY DEF OutputOf
  <2>3. \A context, output : PageIs(<<s, t>>, context, output) => PageIs(<<s, t>>, context, output)'
    BY DEF PageIs
  <2> QED  BY <2>1, <2>2, <2>3, ToldKept
<1> QED  BY <1>1 DEF ToldInv

(* A clean-up writes no page of a turn of these. *)
LEMMA CleaningTold ==
    ASSUME AgentInv, HookInv, PageInv, LiveInv, ToldInv, NEW h \in Hooks, Idle(hook[h]), Goes(h),
           upset \subseteq upset'
    PROVE  ToldInv'
<1>1. OthersStay(h) /\ hook[h].task \notin Prompting
  BY CleaningRecord DEF Cleaning, Idle, Prompting
<1>2. UNCHANGED <<world, turn, observed>>
  BY GoesSame
<1>3. ASSUME NEW s \in Sessions, NEW t \in 1 .. turn[s], Told(s, t)'
      PROVE  PageIs(<<s, t>>, world.rules, OutputOf(s, t - 1))'
  <2>1. Told(s, t)
    BY <1>1, <1>3, ToldBefore
  <2>2. OutputOf(s, t - 1)' = OutputOf(s, t - 1)
    BY <1>2 DEF OutputOf
  <2>3. PICK id : id = <<s, t>>
    OBVIOUS
  <2>4. id \notin world.old
    <3>1. turn[s] \in Nat /\ world.turns \in Nat
          /\ world.old \cap (world.live \X (1 .. world.turns)) = {}
      BY NoticeAssumption DEF AgentInv
    <3>2. turn[s] > 0
      BY <3>1
    <3>3. s \in world.live /\ turn[s] <= world.turns
      BY <3>2 DEF LiveInv
    <3>4. id \in world.live \X (1 .. world.turns)
      BY <2>3, <3>1, <3>3
    <3> QED  BY <3>1, <3>4
  <2>5. \A context, output : PageIs(id, context, output) => PageIs(id, context, output)'
    BY <2>4, CleaningPages
  <2>6. \A context, output : PageIs(<<s, t>>, context, output) => PageIs(<<s, t>>, context, output)'
    BY <2>3, <2>5 DEF PageIs
  <2> QED  BY <1>2, <2>1, <2>2, <2>6, ToldKept
<1> QED  BY <1>2, <1>3 DEF ToldInv

(* A hook dies. *)
LEMMA CrashTold ==
    ASSUME HookInv, ToldInv, NEW h \in Hooks, Crash(h), upset \subseteq upset'
    PROVE  ToldInv'
<1>1. OthersStay(h) /\ UNCHANGED <<world, turn, observed, lastWrites>>
  BY EndRecord DEF Crash, Ended, detailVars
<1>2. hook[h].task \in Prompting => Page(h) \in upset'
  <2>1. hook[h].task \in Prompting => Upset(h)
    BY DEF Crash, Prompting
  <2> QED  BY <2>1 DEF Upset, Page
<1>3. ASSUME NEW s \in Sessions, NEW t \in 1 .. turn[s], Told(s, t)'
      PROVE  PageIs(<<s, t>>, world.rules, OutputOf(s, t - 1))'
  <2>1. Told(s, t)
    BY <1>1, <1>2, <1>3, ToldBefore DEF Told
  <2>2. OutputOf(s, t - 1)' = OutputOf(s, t - 1)
    BY <1>1 DEF OutputOf
  <2>3. \A context, output : PageIs(<<s, t>>, context, output) => PageIs(<<s, t>>, context, output)'
    BY <1>1 DEF PageIs
  <2> QED  BY <1>1, <2>1, <2>2, <2>3, ToldKept
<1> QED  BY <1>1, <1>3 DEF ToldInv

-----------------------------------------------------------------------------
(* How the hook of a prompt comes to an end *)
LEMMA PromptEnds ==
    ASSUME HookInv, NEW h \in Hooks, hook[h].task \in Prompting, Attends(h),
           hook'[h].task \notin Prompting
    PROVE  \/ Fail(h)
           \/ TellResult(h)
           \/ /\ hook[h].task = "show" /\ hook[h].at \in {"prune", "pruneAgent"}
              /\ (hook[h].output = {} \/ ~hook[h].page) /\ lastWrites' = lastWrites
<1>1. DOMAIN hook = Hooks /\ DOMAIN hook[h] = HookFields /\ Typed(hook[h])
  BY DEF HookInv, Typed
<1>2. ASSUME NEW place, Go(h, place) PROVE FALSE
  <2>1. Onward(h, hook[h].task, place)
    BY <1>2, GoRecord
  <2> QED  BY <2>1 DEF Onward
<1>3. ASSUME NEW r, hook' = [hook EXCEPT ![h] = r], r.task \in {"open", "show", hook[h].task}
      PROVE  FALSE
  BY <1>1, <1>3 DEF Prompting
<1>4. ~Makes(h)
  BY <1>2 DEF Makes, LockAndReset, MakeAgentDir, MakeSessionDir, MakeDir
<1>5. MakeFails(h) \/ LockTimesOut(h) => Fail(h)
  BY DEF MakeFails, LockTimesOut
<1>6. ~RecordOutput(h) /\ ~DiscardClaim(h)
  BY <1>2 DEF RecordOutput, DiscardClaim
<1>7. Finish(h) => /\ hook[h].task \in {"open", "show", "tell"}
                   /\ hook[h].task = "show" => hook[h].output = {} \/ ~hook[h].page
  <2>1. ASSUME NEW task \in {"open", "tell"}, NEW place, Onward(h, task, place) PROVE FALSE
    BY <2>1 DEF Onward, Prompting
  <2>2. SUFFICES ASSUME Finish(h)
                 PROVE  /\ hook[h].task \in {"open", "show", "tell"}
                        /\ hook[h].task = "show" => hook[h].output = {} \/ ~hook[h].page
    OBVIOUS
  <2>3. FinishedAs(h)
    BY <1>1, <2>2, FinishRecord
  <2> QED  BY <2>1, <2>3 DEF FinishedAs, Prompting
<1>8. ~WriteFile(h)
  <2>1. SUFFICES ASSUME WriteFile(h) PROVE FALSE
    OBVIOUS
  <2>2. hook[h].task \in {"begin", "save"} /\ Finish(h)
    BY <1>1, <2>1, StageTask DEF WriteFile, At
  <2> QED  BY <1>7, <2>2
<1>9. ~ClaimIt(h)
  <2>1. SUFFICES ASSUME ClaimIt(h) PROVE FALSE
    OBVIOUS
  <2>2. Go(h, "read") \/ hook' = [hook EXCEPT ![h].at = "prune", ![h].output = {}]
    BY <2>1 DEF ClaimIt
  <2>3. PICK r : r = [hook[h] EXCEPT !.at = "prune", !.output = {}]
    OBVIOUS
  <2>4. r.task = hook[h].task
    BY <1>1, <2>3 DEF HookFields
  <2>5. hook' = [hook EXCEPT ![h].at = "prune", ![h].output = {}] => hook' = [hook EXCEPT ![h] = r]
    BY <1>1, <2>3
  <2> QED  BY <1>2, <1>3, <2>2, <2>4, <2>5
<1>10. ~ReadClaim(h)
  <2>1. SUFFICES ASSUME ReadClaim(h) PROVE FALSE
    OBVIOUS
  <2>2. PICK output : hook' = [hook EXCEPT ![h].at = "discard", ![h].output = output]
    BY <1>1, <2>1 DEF ReadClaim
  <2>3. PICK r : r = [hook[h] EXCEPT !.at = "discard", !.output = output]
    OBVIOUS
  <2>4. r.task = hook[h].task
    BY <1>1, <2>3 DEF HookFields
  <2>5. hook' = [hook EXCEPT ![h] = r]
    BY <1>1, <2>2, <2>3
  <2> QED  BY <1>3, <2>4, <2>5
<1>11. ASSUME Prune(h) \/ PruneAgent(h)
       PROVE  /\ hook[h].task = "show" /\ hook[h].at \in {"prune", "pruneAgent"}
              /\ (hook[h].output = {} \/ ~hook[h].page) /\ lastWrites' = lastWrites
  <2>1. hook[h].at \in {"prune", "pruneAgent"} /\ lastWrites' = lastWrites
    BY <1>11 DEF Prune, PruneAgent, At, otherVars, detailVars
  <2>2. Finish(h)
    BY <1>2, <1>11 DEF Prune, PruneAgent
  <2>3. hook[h].task \notin {"open", "tell"}
    BY <1>1, <2>1, StageTask
  <2> QED  BY <1>7, <2>1, <2>2, <2>3
<1>12. ~OpenPage(h)
  <2>1. SUFFICES ASSUME OpenPage(h) PROVE FALSE
    OBVIOUS
  <2>2. hook'[h].task = IF world.rules THEN "open" ELSE "show"
    BY <2>1, OpenFields
  <2> QED  BY <2>2 DEF Prompting
<1>13. ~RecordRules(h)
  <2>1. SUFFICES ASSUME RecordRules(h) PROVE FALSE
    OBVIOUS
  <2>2. Onward(h, "show", "claim")
    BY <2>1, NextTaskRecord DEF RecordRules
  <2> QED  BY <2>2 DEF Onward, Prompting
<1> QED  BY <1>4, <1>5, <1>6, <1>8, <1>9, <1>10, <1>11, <1>12, <1>13 DEF Attends

(* It has shown what was due. *)
LEMMA ToldNow ==
    ASSUME NEW s, NEW h, OwnInv(s, h), Attends(h), hook[h].task \in Prompting,
           hook[h].turn = turn[s], Told(s, turn[s])'
    PROVE  PageIs(<<s, turn[s]>>, world.rules, TurnBefore(s))'
<1>1. h \in Hooks /\ HookInv /\ PageInv /\ s \in Sessions /\ hook[h].session = s
      /\ AloneInv(s) /\ CalmInv(s) /\ h \in Mine(s) /\ Typed(hook[h])
  BY DEF OwnInv, HookInv, Mine
<1>2. /\ UNCHANGED <<world, turn, observed>> /\ upset \subseteq upset' /\ OwnStep(h)
  BY OwnSession
<1>3. /\ <<s, turn[s]>> \notin upset' /\ <<s, turn[s] - 1>> \notin upset'
      /\ \A g \in Hooks : Page(g)' = <<s, turn[s]>> =>
            hook'[g].task \notin {"begin", "open", "show", "tell"}
  BY <1>2 DEF Told
<1>4. Calm(s) /\ CalmBefore(s) /\ ~Upset(h)
  BY <1>1, <1>2, <1>3 DEF Calm, CalmBefore, Upset
<1>5. hook'[h].task \notin Prompting
  <2>1. SUFFICES ASSUME hook'[h].task \in Prompting PROVE FALSE
    OBVIOUS
  <2>2. hook'[h].session = s /\ hook'[h].turn = turn[s]
    BY <1>1, <1>2, <2>1 DEF OwnStep, Idle, Prompting
  <2>3. Page(h)' = <<s, turn[s]>>
    BY <2>2 DEF Page
  <2> QED  BY <1>1, <1>3, <2>1, <2>3 DEF Prompting
<1>6. HookDue(s, h)
  <2>1. hook[h].task # "record"
    BY DEF Prompting
  <2> QED  BY <1>1, <1>4, <2>1, OwnDue
<1>7. PICK id, rules, output : id = <<s, turn[s]>> /\ rules = world.rules /\ output = TurnBefore(s)
  OBVIOUS
<1>8. id = Page(h) /\ (TurnBefore(s) = output)' /\ (id = <<s, turn[s]>> /\ rules = world.rules)'
  BY <1>1, <1>2, <1>7 DEF Page, TurnBefore, OutputOf
<1>9. PageIs(id, rules, output)'
  <2>1. CASE TellResult(h)
    <3>1. hook[h].task = "tell" /\ hook[h].at = "result"
      BY <1>1, <2>1, StageTask DEF TellResult, At
    <3>2. PageIs(id, rules, {}) /\ hook[h].output = output
      BY <1>4, <1>6, <1>7, <3>1 DEF HookDue, ShowDue, Opened
    <3>3. PICK none : none = {}
      OBVIOUS
    <3> QED  BY <1>1, <1>4, <1>8, <2>1, <3>2, <3>3, ResultIs
  <2>2. CASE /\ hook[h].task = "show" /\ hook[h].at \in {"prune", "pruneAgent"}
             /\ (hook[h].output = {} \/ ~hook[h].page) /\ lastWrites' = lastWrites
    <3>1. PageIs(id, rules, {}) /\ hook[h].page /\ hook[h].output = output
      BY <1>4, <1>6, <1>7, <2>2 DEF HookDue, ShowDue, Opened
    <3>2. output = {}
      BY <2>2, <3>1
    <3> QED  BY <2>2, <3>1, <3>2 DEF PageIs
  <2>3. ~Fail(h)
    BY <1>4 DEF Fail
  <2> QED  BY <1>1, <1>5, <2>1, <2>2, <2>3, PromptEnds
<1> QED  BY <1>8, <1>9

(* A hook of a turn *)
LEMMA AttendsTold ==
    ASSUME NEW p, NEW h, OwnInv(p, h), Attends(h), ToldInv
    PROVE  ToldInv'
<1>1. h \in Hooks /\ HookInv /\ PageInv /\ p \in Sessions /\ hook[h].session = p
      /\ AloneInv(p) /\ CalmInv(p) /\ h \in Mine(p) /\ Typed(hook[h]) /\ AgentInv
  BY DEF OwnInv, HookInv, Mine
<1>2. /\ UNCHANGED <<world, turn, observed>> /\ upset \subseteq upset' /\ OthersStay(h)
  BY OwnSession DEF OwnStep
<1>3. PICK own : own = Page(h)
  OBVIOUS
<1>4. OtherPagesStay(own)
  BY <1>3, OwnPages
<1>5. ASSUME NEW s \in Sessions, NEW t \in 1 .. turn[s], Told(s, t)'
      PROVE  PageIs(<<s, t>>, world.rules, OutputOf(s, t - 1))'
  <2>1. OutputOf(s, t - 1)' = OutputOf(s, t - 1)
    BY <1>2 DEF OutputOf
  <2>2. PICK id : id = <<s, t>>
    OBVIOUS
  <2>3. CASE id # own
    <3>1. Told(s, t)
      BY <1>1, <1>2, <1>3, <1>5, <2>2, <2>3, ToldBefore
    <3>2. \A context, output : PageIs(id, context, output) => PageIs(id, context, output)'
      BY <1>4, <2>3, OtherPages
    <3>3. \A context, output : PageIs(<<s, t>>, context, output) => PageIs(<<s, t>>, context, output)'
      BY <2>2, <3>2 DEF PageIs
    <3> QED  BY <1>2, <2>1, <3>1, <3>3, ToldKept
  <2>4. CASE id = own /\ hook[h].task \notin Prompting
    <3>1. Told(s, t)
      BY <1>1, <1>2, <1>5, <2>4, ToldBefore
    <3>2. lastWrites' = lastWrites
      <4>1. ~OpenPage(h) /\ ~RecordRules(h) /\ ~TellResult(h)
        BY <1>1, <2>4, StageTask DEF OpenPage, RecordRules, TellResult, At, Prompting
      <4>2. OffPage(h)
        BY <4>1 DEF Attends, Makes, OffPage
      <4> QED  BY <1>1, <4>2, OffPageSame DEF detailVars
    <3>3. \A context, output : PageIs(<<s, t>>, context, output) => PageIs(<<s, t>>, context, output)'
      BY <3>2 DEF PageIs
    <3> QED  BY <1>2, <2>1, <3>1, <3>3, ToldKept
  <2>5. CASE id = own /\ hook[h].task \in Prompting
    <3>1. s = p /\ t = hook[h].turn
      BY <1>1, <1>3, <2>2, <2>5 DEF Page
    <3>2. <<s, t>> \notin upset
      BY <1>2, <1>5 DEF Told
    <3>3. t = turn[s]
      BY <1>1, <3>1, <3>2 DEF AloneInv
    <3>4. Told(s, turn[s])' /\ turn'[s] = turn[s]
      <4>1. turn'[s] = turn[s]
        BY <1>2
      <4> QED  BY <1>5, <3>3, <4>1 DEF Told
    <3>5. PageIs(<<s, turn[s]>>, world.rules, TurnBefore(s))'
      BY <2>5, <3>1, <3>3, <3>4, ToldNow
    <3> QED  BY <3>3, <3>4, <3>5 DEF PageIs, TurnBefore, OutputOf
  <2> QED  BY <2>3, <2>4, <2>5
<1> QED  BY <1>2, <1>5 DEF ToldInv

-----------------------------------------------------------------------------
(* The rest of what holds besides NoticeInv                                  *)
KeptInv == LiveInv /\ SweepInv /\ StayInv /\ OldInv /\ ToldInv

CompleteInv == SessionInv /\ KeptInv

(* A hook is started, or one that is not at work for a prompt ends: what is   *)
(* on disk stays.                                                          *)
LEMMA StartingKept ==
    ASSUME AgentInv, PageInv, LiveInv, SweepInv, StayInv, OldInv, NEW h \in Hooks, OthersStay(h),
           UNCHANGED <<world, dirs, clock, detailVars>>, upset \subseteq upset',
           hook'[h].at # "move", hook'[h].task = "clean" => hook'[h].sweep.now = 0
    PROVE  SweepInv' /\ StayInv' /\ OldInv'
<1>1. clock \in Nat /\ clock <= clock /\ UNCHANGED <<details, lastWrites, oldDetails>>
  BY NoticeAssumption DEF AgentInv, detailVars
<1>2. \A g \in Hooks : hook'[g].at = "move" => hook'[g] = hook[g]
  BY DEF OthersStay
<1>3. SweepInv'
  BY <1>1, OtherSweep
<1>4. StayInv'
  BY <1>1, SameStays
<1>5. OldInv'
  BY <1>1, <1>2, OldSame DEF IdsOf
<1> QED  BY <1>3, <1>4, <1>5

(* A prompt is submitted: the agent was not told of its page yet. *)
LEMMA PromptKept ==
    ASSUME AgentInv, HookInv, PageInv, KeptInv, NEW h \in Hooks, NEW s \in Sessions,
           SubmitPrompt(h, s), upset \subseteq upset'
    PROVE  KeptInv'
<1> USE DEF KeptInv
<1>1. /\ Starts(h, s, "begin", "lock", {}) /\ turn' = [turn EXCEPT ![s] = @ + 1]
      /\ turn[s] \in Nat /\ turn'[s] = turn[s] + 1 /\ DOMAIN turn = Sessions
  BY PromptStarts DEF AgentInv
<1>2. UNCHANGED <<world, observed, dirs, clock, detailVars>>
  BY DEF SubmitPrompt, treeVars, otherVars
<1>3. SweepInv' /\ StayInv' /\ OldInv'
  BY <1>1, <1>2, StartingKept DEF Starts
<1>4. LiveInv'
  BY LivePrompt
<1>5. \A q \in Sessions : \A t \in 1 .. turn'[q] :
        (t \in 1 .. turn[q] /\ OutputOf(q, t - 1)' = OutputOf(q, t - 1)) \/ ~Told(q, t)'
  <2>1. SUFFICES ASSUME NEW q \in Sessions, NEW t \in 1 .. turn'[q], t \notin 1 .. turn[q]
                 PROVE  ~Told(q, t)'
    BY <1>2 DEF OutputOf
  <2>2. q = s /\ t = turn'[s]
    <3>1. q # s => turn'[q] = turn[q]
      BY <1>1
    <3>2. q = s
      BY <2>1, <3>1
    <3> QED  BY <1>1, <2>1, <3>2
  <2>3. Page(h)' = <<q, t>> /\ hook'[h].task = "begin"
    BY <1>1, <2>2 DEF Starts, Page
  <2> QED  BY <2>3 DEF Told
<1>6. ToldInv'
  <2>1. OthersStay(h) /\ hook[h].task \notin Prompting
    BY <1>1 DEF Starts, Idle, Prompting
  <2> QED  BY <1>2, <1>5, <2>1, ToldStarting DEF detailVars
<1> QED  BY <1>3, <1>4, <1>6

(* Other hooks of a turn: more of it is seen, but the page is not about it.   *)
LEMMA WorkKept ==
    ASSUME AgentInv, HookInv, PageInv, KeptInv, NEW h \in Hooks, NEW s \in Sessions,
           NEW task \in {"record", "consume"}, NEW at \in {"record", "claim"}, NEW output,
           Starts(h, s, task, at, output), \A o \in output : o[1] = turn[s],
           observed' = [observed EXCEPT ![s] = @ \cup output],
           UNCHANGED <<world, turn, busy, dirs, clock, detailVars, upset>>
    PROVE  KeptInv'
<1> USE DEF KeptInv
<1>1. OthersStay(h) /\ hook[h].task \notin Prompting /\ hook'[h].at # "move"
      /\ hook'[h].task # "clean"
  BY DEF Starts, Idle, Prompting
<1>2. SweepInv' /\ StayInv' /\ OldInv'
  BY <1>1, StartingKept
<1>3. LiveInv'
  BY LiveKept
<1>4. ASSUME NEW q \in Sessions, NEW t \in 1 .. turn[q]
      PROVE  OutputOf(q, t - 1)' = OutputOf(q, t - 1)
  <2>1. CASE q # s
    <3>1. observed'[q] = observed[q]
      BY <2>1, MoreObserved
    <3> QED  BY <3>1 DEF OutputOf
  <2>2. CASE q = s
    <3>1. turn[s] \in Nat
      BY NoticeAssumption DEF AgentInv
    <3>2. t - 1 # turn[s]
      BY <1>4, <2>2, <3>1
    <3> QED  BY <2>2, <3>2, MoreObserved
  <2> QED  BY <2>1, <2>2
<1>5. ToldInv'
  BY <1>1, <1>4, ToldStarting DEF detailVars
<1> QED  BY <1>2, <1>3, <1>5

LEMMA ToolKept ==
    ASSUME AgentInv, HookInv, Numbered, PageInv, KeptInv, NEW h \in Hooks, NEW s \in Sessions,
           UseTool(h, s)
    PROVE  KeptInv'
<1>1. UNCHANGED <<world, turn, busy, dirs, clock, detailVars, upset>>
  BY ToolStarts DEF UseTool, treeVars, otherVars
<1>2. PICK o : /\ o[1] = turn[s] /\ observed' = [observed EXCEPT ![s] = @ \cup {o}]
               /\ Starts(h, s, "record", "record", {o})
  BY ToolStarts
<1>3. PICK output : output = {o}
  OBVIOUS
<1>4. /\ \A x \in output : x[1] = turn[s]
      /\ observed' = [observed EXCEPT ![s] = @ \cup output]
      /\ Starts(h, s, "record", "record", output)
  BY <1>2, <1>3
<1> QED  BY <1>1, <1>4, WorkKept

LEMMA StopKept ==
    ASSUME AgentInv, HookInv, PageInv, KeptInv, NEW h \in Hooks, NEW s \in Sessions, StopTurn(h, s)
    PROVE  KeptInv'
<1>1. UNCHANGED <<world, turn, busy, dirs, clock, detailVars, upset>>
  BY StopStarts DEF StopTurn, treeVars, otherVars
<1>2. PICK output : /\ \A o \in output : o[1] = turn[s]
                    /\ observed' = [observed EXCEPT ![s] = @ \cup output]
                    /\ Starts(h, s, "consume", "claim", output)
  BY StopStarts
<1> QED  BY <1>1, <1>2, WorkKept

(* A clean-up starts. *)
LEMMA CleanUpKept ==
    ASSUME AgentInv, HookInv, PageInv, KeptInv, NEW h \in Hooks, StartSweep(h)
    PROVE  KeptInv'
<1> USE DEF KeptInv
<1>1. UNCHANGED <<agentVars, dirs, clock, detailVars, upset>>
  BY DEF StartSweep, treeVars, otherVars
<1>2. /\ OthersStay(h) /\ Idle(hook[h]) /\ Idle(hook'[h])
      /\ hook'[h].task = "clean" => hook'[h].sweep.now = 0
  BY SweepRecord
<1>3. hook'[h].at # "move"
  <2>1. PICK n, r : n = NoWork /\ r = [n EXCEPT !.task = "clean", !.at = "scan"]
    OBVIOUS
  <2>2. r.at = "scan" /\ Tidying.at = "expire"
    BY <2>1, IdleTyped, TidyTyped DEF HookFields
  <2>3. hook' = [hook EXCEPT ![h] = r] \/ hook' = [hook EXCEPT ![h] = Tidying]
    BY <2>1 DEF StartSweep
  <2> QED  BY <2>2, <2>3 DEF HookInv
<1>4. SweepInv' /\ StayInv' /\ OldInv'
  BY <1>1, <1>2, <1>3, StartingKept DEF agentVars
<1>5. LiveInv'
  BY <1>1, LiveKept DEF agentVars
<1>6. hook[h].task \notin Prompting /\ \A q, t : OutputOf(q, t - 1)' = OutputOf(q, t - 1)
  BY <1>1, <1>2 DEF Idle, Prompting, OutputOf, agentVars
<1>7. ToldInv'
  BY <1>1, <1>2, <1>6, ToldStarting DEF agentVars, detailVars
<1> QED  BY <1>4, <1>5, <1>7

(* A turn is interrupted, a lock expires, time goes on. *)
LEMMA OthersKept ==
    ASSUME AgentInv, PageInv, KeptInv,
           \/ \E s \in Sessions : Interrupt(s)
           \/ \E p \in deadLocks : LockExpires(p)
           \/ Tick
           \/ UNCHANGED vars
    PROVE  KeptInv'
<1> USE DEF KeptInv
<1>1. UNCHANGED <<world, turn, observed, dirs, hook, detailVars>> /\ busy' \subseteq busy
      /\ upset \subseteq upset'
  BY DEF Interrupt, LockExpires, Tick, vars, agentVars, treeVars, otherVars
<1>2. clock \in Nat /\ clock' \in Nat /\ clock <= clock'
  <2>1. clock' = clock \/ clock' = clock + 1
    BY DEF Interrupt, LockExpires, Tick, vars, otherVars
  <2>2. clock \in Nat
    BY NoticeAssumption DEF AgentInv
  <2> QED  BY <2>1, <2>2
<1>3. UNCHANGED <<details, oldDetails, lastWrites>>
  BY <1>1 DEF detailVars
<1>4. SweepInv'
  BY <1>1, <1>2, LaterSweep
<1>5. StayInv'
  BY <1>2, <1>3, SameStays
<1>6. OldInv'
  BY <1>1, <1>2, <1>3, OldSame DEF IdsOf
<1>7. LiveInv' /\ ToldInv'
  BY <1>1, <1>3, LiveKept, ToldSame
<1> QED  BY <1>4, <1>5, <1>6, <1>7

-----------------------------------------------------------------------------
(* A hook at work *)
LEMMA GoesComplete ==
    ASSUME NoticeInv, CompleteInv, NEW h \in Hooks, Goes(h)
    PROVE  CompleteInv'
<1> USE DEF NoticeInv, CompleteInv, KeptInv
<1>1. SessionInv' /\ ToldInv' /\ upset \subseteq upset' /\ busy' \subseteq busy
  <2>1. CASE Idle(hook[h])
    <3>1. SessionInv' /\ upset \subseteq upset'
      BY <2>1, CleaningKeeps
    <3> QED  BY <2>1, <3>1, CleaningRecord, CleaningTold
  <2>2. CASE ~Idle(hook[h])
    <3>1. PICK s : s = hook[h].session
      OBVIOUS
    <3>2. s \in Sessions /\ h \in Mine(s)
      BY <2>2, <3>1 DEF HookInv, Typed, Mine, Idle
    <3>3. OwnInv(s, h)
      BY <3>2 DEF OwnInv, SessionInv
    <3>4. Attends(h)
      BY <2>2, AttendsOnly
    <3>5. SessionInv'
      BY <2>2, AttendsKeeps
    <3>6. ToldInv' /\ upset \subseteq upset' /\ BusyStep(h)
      BY <3>3, <3>4, AttendsTold, OwnSession
    <3> QED  BY <3>5, <3>6 DEF BusyStep
  <2> QED  BY <2>1, <2>2
<1>2. LiveInv'
  BY <1>1, GoesSame, LiveKept
<1>3. SweepInv' /\ StayInv'
  BY GoesSweep, GoesStays
<1>4. OldInv'
  BY <1>1, GoesOld
<1> QED  BY <1>1, <1>2, <1>3, <1>4

(* A hook dies. *)
LEMMA CrashComplete ==
    ASSUME NoticeInv, CompleteInv, NEW h \in Hooks, Crash(h)
    PROVE  CompleteInv'
<1> USE DEF NoticeInv, CompleteInv, KeptInv
<1>1. SessionInv' /\ upset \subseteq upset'
  <2>1. CASE Idle(hook[h])
    BY <2>1, CleanerDies
  <2>2. CASE ~Idle(hook[h])
    <3>1. PICK s : s = hook[h].session
      OBVIOUS
    <3>2. s \in Sessions /\ h \in Mine(s)
      BY <2>2, <3>1 DEF HookInv, Typed, Mine, Idle
    <3>3. OwnInv(s, h)
      BY <3>2 DEF OwnInv, SessionInv
    <3> QED  BY <2>2, <3>3, AttendsKeeps, CrashCalm
  <2> QED  BY <2>1, <2>2
<1>2. UNCHANGED <<world, turn, dirs, clock, detailVars>> /\ busy' \subseteq busy
  BY DEF Crash, treeVars
<1>3. OthersStay(h) /\ hook'[h].at # "move" /\ hook'[h].task # "clean"
  BY EndRecord, IdleTyped DEF Crash, Ended
<1>4. SweepInv' /\ StayInv' /\ OldInv'
  BY <1>1, <1>2, <1>3, StartingKept
<1>5. LiveInv' /\ ToldInv'
  BY <1>1, <1>2, LiveKept, CrashTold
<1> QED  BY <1>1, <1>4, <1>5

(* At first no turn has begun. *)
LEMMA CompleteStarts ==
    ASSUME Init
    PROVE  CompleteInv
<1>1. /\ world \in Worlds /\ turn = [s \in Sessions |-> 0] /\ busy = {}
      /\ observed = [s \in Sessions |-> {}] /\ clock = 0
      /\ hook = [h \in Hooks |-> NoWork] /\ lastWrites = details
      /\ dirs = [p \in world.left |-> [written |-> TRUE, since |-> 0, output |-> {}]]
  BY DEF Init
<1>2. \A h \in Hooks : Idle(hook[h]) /\ hook[h].task # "clean" /\ hook[h].at # "move"
  BY <1>1, IdleTyped DEF Idle
<1>3. \A p \in DOMAIN dirs : dirs[p].output = {} /\ dirs[p].since = 0
  BY <1>1
<1>4. SessionInv
  <2>1. SUFFICES ASSUME NEW s \in Sessions PROVE AloneInv(s) /\ SessionDue(s)
    BY DEF SessionInv, CalmInv
  <2>2. Mine(s) = {} /\ s \notin busy
    BY <1>1, <1>2 DEF Mine
  <2>3. ThisTurn(s) = {}
    BY <1>1 DEF ThisTurn, OutputOf
  <2>4. HasExactly(NoticeAt(s), ThisTurn(s))
    BY <1>3, <2>3 DEF HasExactly
  <2> QED  BY <2>2, <2>4 DEF AloneInv, SessionDue
<1>5. LiveInv /\ ToldInv
  BY <1>1 DEF LiveInv, ToldInv
<1>6. SweepInv
  BY <1>2, <1>3 DEF SweepInv
<1>7. StayInv
  BY <1>1 DEF StayInv, Stays
<1>8. OldInv
  <2>1. PICK left : left = [i \in world.old |-> [NewDetail(i, 0) EXCEPT !.context = TRUE]]
    OBVIOUS
  <2>2. oldDetails = {left[i] : i \in world.old}
    BY <2>1 DEF Init
  <2>3. \A i \in world.old : left[i].id = i /\ left[i].since = 0
    <3>1. SUFFICES ASSUME NEW i \in world.old PROVE left[i].id = i /\ left[i].since = 0
      OBVIOUS
    <3>2. PICK d : d = [id |-> i, since |-> 0, context |-> FALSE, output |-> {}]
      OBVIOUS
    <3>3. left[i] = [d EXCEPT !.context = TRUE]
      BY <2>1, <3>2 DEF NewDetail
    <3> QED  BY <3>2, <3>3
  <2>4. \A d \in oldDetails : d.since = 0
    BY <2>2, <2>3
  <2>5. \A i \in world.old : i \in OldIds
    BY <2>2, <2>3 DEF OldIds
  <2> QED  BY <1>2, <2>4, <2>5 DEF OldInv
<1> QED  BY <1>4, <1>5, <1>6, <1>7, <1>8 DEF CompleteInv, KeptInv

-----------------------------------------------------------------------------
(* What each session, page and clean-up has still to do holds throughout, for *)
(* any sessions, hooks, worlds and limits.                                  *)
THEOREM CompleteSafe == Spec => []CompleteInv
<1>1. NoticeInv /\ CompleteInv /\ [Next]_vars => CompleteInv'
  <2>1. SUFFICES ASSUME NoticeInv, CompleteInv, [Next]_vars PROVE CompleteInv'
    OBVIOUS
  <2>2. CASE \E h \in Hooks, s \in Sessions : SubmitPrompt(h, s)
    BY <2>1, <2>2, PromptKeepsCalm, PromptKept DEF NoticeInv, CompleteInv, KeptInv
  <2>3. CASE \E h \in Hooks, s \in Sessions : UseTool(h, s)
    BY <2>1, <2>3, ToolKeepsCalm, ToolKept DEF NoticeInv, CompleteInv, KeptInv
  <2>4. CASE \E h \in Hooks, s \in Sessions : StopTurn(h, s)
    BY <2>1, <2>4, StopKeepsCalm, StopKept DEF NoticeInv, CompleteInv, KeptInv
  <2>5. CASE \E h \in Hooks : StartSweep(h)
    BY <2>1, <2>5, SweepCalm, CleanUpKept DEF NoticeInv, CompleteInv
  <2>6. CASE \E h \in Hooks : Goes(h)
    BY <2>1, <2>6, GoesComplete
  <2>7. CASE \E h \in Hooks : Crash(h)
    BY <2>1, <2>7, CrashComplete
  <2>8. CASE \E s \in Sessions : Interrupt(s)
    BY <2>1, <2>8, InterruptCalm, OthersKept DEF NoticeInv, CompleteInv
  <2>9. CASE (\E p \in deadLocks : LockExpires(p)) \/ Tick \/ UNCHANGED vars
    <3>1. KeptInv'
      BY <2>1, <2>9, OthersKept DEF NoticeInv, CompleteInv
    <3>2. UNCHANGED <<world, turn, busy, observed, dirs, lastWrites, hook, upset>>
      BY <2>9 DEF LockExpires, Tick, vars, agentVars, treeVars, otherVars, detailVars
    <3>3. SessionInv'
      BY <2>1, <3>2, HooksSame, SameCalm DEF NoticeInv, CompleteInv
    <3> QED  BY <3>1, <3>3 DEF CompleteInv
  <2> QED  BY <2>1, <2>2, <2>3, <2>4, <2>5, <2>6, <2>7, <2>8, <2>9 DEF Next
<1>2. Spec => [](NoticeInv /\ CompleteInv)
  <2>1. NoticeInv /\ CompleteInv /\ [Next]_vars => CompleteInv'
    BY <1>1
  <2> QED  BY <2>1, NoticesSafe, CompleteStarts, PTL DEF Spec
<1> QED  BY <1>2, PTL

(* The page of every prompt that the agent was told of shows the rules and all *)
(* output of the turn before, unless something failed in one of the two; a    *)
(* page stays until it expires or MaxDetails were written after it; and those *)
(* of the layout before are kept.                                           *)
THEOREM NoticesComplete == Spec => []NoticeComplete
<1>1. NoticeInv /\ CompleteInv => NoticeComplete
  <2>1. SUFFICES ASSUME NoticeInv, CompleteInv PROVE NoticeComplete
    OBVIOUS
  <2> USE <2>1 DEF NoticeInv, CompleteInv, KeptInv
  <2>2. ASSUME NEW s \in Sessions, NEW t \in 1 .. turn[s], Told(s, t)
        PROVE  \E d \in Of(lastWrites, <<s, t>>) :
                    d.context = world.rules /\ d.output = OutputOf(s, t - 1)
    <3>1. PageIs(<<s, t>>, world.rules, OutputOf(s, t - 1))
      BY <2>2 DEF ToldInv
    <3> QED  BY <3>1 DEF PageIs, Of
  <2>3. \A i \in DOMAIN lastWrites :
            i + MaxDetails > Len(lastWrites) /\ ~DetailExpired(lastWrites[i], clock)
            => lastWrites[i] \in ToSet(details)
    BY StayingThere
  <2>4. ASSUME NEW id \in world.old \ upset, clock < DetailTTL
        PROVE  id \in {d.id : d \in oldDetails \cup ToSet(lastWrites)}
    <3>1. id \in OldIds \cup IdsOf(lastWrites)
      BY <2>4 DEF OldInv
    <3> QED  BY <3>1 DEF OldIds, IdsOf
  <2> QED  BY <2>2, <2>3, <2>4 DEF NoticeComplete
<1> QED  BY <1>1, NoticesSafe, CompleteSafe, PTL
=============================================================================
