---------------------------- MODULE LockFileProofs ----------------------------
(***************************************************************************)
(* Mutual exclusion of the file lock before a file can have become stale, for *)
(* any threads, processes and crashes.  The creation of the file with       *)
(* O_EXCL carries the whole argument: the file of a thread that holds the   *)
(* lock stays its own, because nobody else removes it.                      *)
(***************************************************************************)
EXTENDS LockFile, FiniteSetTheorems, TLAPS

(* The clock has not got past the age at which a file is stale. *)
AllFresh == now <= StaleAfter

(* Only what a step can change about the file matters here: nobody is about  *)
(* to remove a file of another, and the file of a thread that holds the lock *)
(* is its own.                                                              *)
Removing == {"retire", "retireRemove", "forget", "remove", "sweep"}

FileInv ==
    /\ now \in Nat
    /\ modified \in Nat
    /\ pc \in [Threads -> Places]
    /\ \A t \in Threads : pc[t] \notin Removing
    /\ \A t \in Threads : Holds(t) => owner = t

(* A file is not stale before the clock has passed StaleAfter. *)
LEMMA NotStale ==
    ASSUME AllFresh, FileInv
    PROVE  ~Stale
  BY LockAssumption DEF AllFresh, FileInv, Stale

(* The lock starts free. *)
LEMMA FileInvInit ==
    ASSUME Init
    PROVE  FileInv
  BY LockAssumption DEF Init, FileInv, Places, Removing, Holds

(* No step of Acquire takes the file from a thread that holds the lock. *)
LEMMA FileInvAcquire ==
    ASSUME AllFresh, FileInv, NEW t \in Threads, Acquire(t)
    PROVE  FileInv'
  <1> USE LockAssumption DEF FileInv, Places, Removing, Holds, Goto, At, fileVars
  <1>0. ~Stale
    BY NotStale
  <1>1. CASE Call(t)
    BY <1>0, <1>1 DEF Call
  <1>2. CASE RetireStat(t) \/ RetireRemove(t) \/ Forget(t)
    BY <1>2 DEF RetireStat, RetireRemove, Forget
  <1>3. CASE Enter(t)
    BY <1>3 DEF Enter
  <1>4. CASE TakeToken(t)
    BY <1>4 DEF TakeToken
  <1>5. CASE MissToken(t)
    BY <1>5 DEF MissToken
  <1>6. CASE Create(t)
    <2>1. \A u \in Threads : ~Holds(u)
      BY <1>6 DEF Create, Exists
    <2>2. PICK place \in {"holding", "abandon"} : pc' = [pc EXCEPT ![t] = place]
      BY <1>6 DEF Create
    <2> QED
      BY <1>6, <2>1, <2>2 DEF Create
  <1>7. CASE Abandon(t)
    BY <1>7 DEF Abandon, Remove
  <1>8. CASE CreateExists(t) \/ CreateNowhere(t) \/ MakeDirectory(t)
    BY <1>8 DEF CreateExists, CreateNowhere, MakeDirectory
  <1>9. CASE StatFile(t)
    BY <1>0, <1>9 DEF StatFile
  <1>10. CASE RemoveFile(t)
    BY <1>10 DEF RemoveFile
  <1> QED
    BY <1>1, <1>2, <1>3, <1>4, <1>5, <1>6, <1>7, <1>8, <1>9, <1>10 DEF Acquire

(* Nor does the function Acquire returns, or the clean-up. *)
LEMMA FileInvReturn ==
    ASSUME AllFresh, FileInv, NEW t \in Threads,
           Return(t) \/ Sweep(t) \/ FileError(t) \/ DeadlinePasses(t)
    PROVE  FileInv'
  <1> USE LockAssumption DEF FileInv, Places, Removing, Holds, Goto, At, fileVars
  <1>0. ~Stale
    BY NotStale
  <1>1. CASE Unlock(t)
    BY <1>1 DEF Unlock
  <1>2. CASE Unlink(t)
    BY <1>2 DEF Unlink, Remove
  <1>3. CASE ReturnToken(t)
    BY <1>3 DEF ReturnToken
  <1>4. CASE Release(t)
    BY <1>4 DEF Release
  <1>5. CASE Sweep(t)
    BY <1>0, <1>5 DEF Sweep, SweepStat, SweepRemove
  <1>6. CASE DeadlinePasses(t)
    BY <1>6 DEF DeadlinePasses
  <1>7. CASE FileError(t)
    <2>1. PICK place \in {"idle", "return"} : pc' = [pc EXCEPT ![t] = place]
      BY <1>7 DEF FileError, OnError
    <2> QED
      BY <1>7, <2>1 DEF FileError
  <1> QED
    BY <1>1, <1>2, <1>3, <1>4, <1>5, <1>6, <1>7 DEF Return

(* Each step keeps FileInv, as long as the file cannot be stale. *)
LEMMA FileInvNext ==
    ASSUME AllFresh, FileInv, [Next]_vars
    PROVE  FileInv'
  <1>1. CASE \E t \in Threads :
             Acquire(t) \/ Return(t) \/ Sweep(t) \/ FileError(t) \/ DeadlinePasses(t)
    BY <1>1, FileInvAcquire, FileInvReturn
  <1>2. ASSUME NEW p \in Processes, Crash(p)
        PROVE  FileInv'
    BY <1>2 DEF Crash, FileInv, Places, Removing, Holds, fileVars
  <1>3. CASE LoseDirectory \/ Tick
    BY <1>3, LockAssumption DEF LoseDirectory, Tick, FileInv, Removing, Holds, fileVars
  <1>4. CASE UNCHANGED vars
    BY <1>4 DEF vars, fileVars, FileInv, Removing, Holds
  <1> QED
    BY <1>1, <1>2, <1>3, <1>4 DEF Next

(* The clock is never set back, so that what is fresh after a step was fresh *)
(* before it.                                                               *)
FreshInv == now \in Nat /\ (AllFresh => FileInv)

(* The clock never goes back. *)
LEMMA ClockAdvances ==
    ASSUME now \in Nat, [Next]_vars
    PROVE  now' \in Nat /\ now' >= now
  <1>1. CASE Tick
    BY <1>1 DEF Tick
  <1>2. CASE Next /\ ~Tick
    <2>1. now' = now
      BY <1>2 DEF Next, Acquire, Return, Sweep, Call, RetireStat, RetireRemove, Forget, Enter,
         TakeToken, MissToken, Create, Abandon, CreateExists, CreateNowhere, MakeDirectory, StatFile, RemoveFile, Unlock, Unlink,
         ReturnToken, Release, SweepStat, SweepRemove, FileError, DeadlinePasses, LoseDirectory, Crash
    <2> QED
      BY <2>1
  <1>3. CASE UNCHANGED vars
    BY <1>3 DEF vars
  <1> QED
    BY <1>1, <1>2, <1>3

(* pkg/lockfile, "Cross-process file locking": until a lock file can be older *)
(* than StaleAfter, at most one thread of all processes holds the lock,      *)
(* whoever crashes, times out or sweeps.                                     *)
THEOREM Exclusive == Spec => []ExclusiveWhileFresh
  <1>1. Init => FreshInv
    BY FileInvInit DEF FreshInv, FileInv
  <1>2. FreshInv /\ [Next]_vars => FreshInv'
    <2>1. SUFFICES ASSUME FreshInv, [Next]_vars
                   PROVE  FreshInv'
      OBVIOUS
    <2>2. now' \in Nat /\ now' >= now
      BY <2>1, ClockAdvances DEF FreshInv
    <2>3. AllFresh' => AllFresh
      BY <2>1, <2>2, LockAssumption DEF AllFresh, FreshInv
    <2> QED
      BY <2>1, <2>2, <2>3, FileInvNext DEF FreshInv
  <1>3. FreshInv => ExclusiveWhileFresh
    BY DEF FreshInv, FileInv, AllFresh, ExclusiveWhileFresh, MutualExclusion
  <1> QED
    BY <1>1, <1>2, <1>3, PTL DEF Spec

-----------------------------------------------------------------------------
(* The registry of a process *)
Users(l) == {t \in Threads : using[t] = l}

(* Where a thread refers to a processLock *)
Referring == {"token", "create", "mkdir", "abandon", "stat", "remove", "holding", "unlink",
              "return", "release"}

(* The references are those the threads have, a registry names none that is  *)
(* not in use, and the token of one in use is either free or owned once.     *)
RefsInv ==
    /\ \A t \in Threads : using[t] # NoLock <=> pc[t] \in Referring
    /\ \A l \in Locks : refs[l] = Cardinality(Users(l))
    /\ \A p \in Processes : registry[p] # NoLock =>
            \E t \in Threads : using[t] = registry[p] /\ ProcessOf[t] = p
    /\ \A t, u \in Threads : using[t] = using[u] /\ using[t] # NoLock =>
            ProcessOf[t] = ProcessOf[u]

TokenInv ==
    /\ \A t, u \in Threads :
            OwnsToken(t) /\ OwnsToken(u) /\ using[t] = using[u] => t = u
    /\ \A t \in Threads : OwnsToken(t) => using[t] \notin token
    /\ \A t \in Threads : using[t] # NoLock /\ using[t] \notin token =>
            \E u \in Threads : using[u] = using[t] /\ OwnsToken(u)

RegistryInv == TypeOK /\ RefsInv /\ TokenInv

(* Before anything is retired, a thread's lock is the one its process names. *)
Registered == \A t \in Threads : using[t] # NoLock => registry[ProcessOf[t]] = using[t]

(* A processLock is named by a positive number, and NoLock by none. *)
LEMMA LocksTyped == Locks \subseteq Nat \ {0} /\ NoLock = 0 /\ IsFiniteSet(Threads)
  BY LockAssumption, FS_CardinalityType DEF Locks, NoLock

(* At first no process has a lock. *)
LEMMA RegistryInit ==
    ASSUME Init
    PROVE  RegistryInv /\ Registered
  <1>1. \A l \in Locks : Users(l) = {} /\ Cardinality(Users(l)) = 0
    BY LocksTyped, FS_EmptySet DEF Init, Users
  <1>2. TypeOK
    <2>1. registry \in [Processes -> Locks \cup {NoLock}] /\ using \in [Threads -> Locks \cup {NoLock}]
      BY DEF Init
    <2>2. refs \in [Locks -> Nat] /\ pc \in [Threads -> Places]
      BY DEF Init, Places
    <2>3. /\ directory \in BOOLEAN /\ owner \in Threads \cup {NoThread} /\ token \subseteq Locks
          /\ late \subseteq Threads
      BY DEF Init
    <2>4. modified \in 0 .. MaxTime /\ now \in 0 .. MaxTime /\ crashes \in 0 .. MaxCrashes
      BY LockAssumption DEF Init
    <2> QED
      BY <2>1, <2>2, <2>3, <2>4 DEF TypeOK
  <1>3. RefsInv /\ TokenInv /\ Registered
    BY <1>1, LocksTyped DEF Init, RefsInv, TokenInv, Registered, Referring, OwnsToken
  <1> QED
    BY <1>2, <1>3 DEF RegistryInv

(* A step that only moves one thread, and neither into nor out of the places *)
(* that need a reference or the token.                                       *)
LEMMA Moved ==
    ASSUME RegistryInv, TypeOK', UNCHANGED lockVars, NEW t \in Threads, NEW place,
           pc' = [pc EXCEPT ![t] = place],
           pc[t] \in Referring <=> place \in Referring,
           OwnsToken(t) <=> OwnsToken(t)'
    PROVE  RegistryInv' /\ (Registered => Registered')
  <1>1. UNCHANGED <<registry, token, refs, using>>
    BY DEF lockVars
  <1>2. \A u \in Threads : /\ pc'[u] \in Referring <=> pc[u] \in Referring
                           /\ OwnsToken(u)' <=> OwnsToken(u)
    BY DEF RegistryInv, TypeOK, OwnsToken
  <1>3. \A l : Users(l)' = Users(l)
    BY <1>1 DEF Users
  <1>4. RefsInv'
    BY <1>1, <1>2, <1>3 DEF RegistryInv, RefsInv
  <1>5. TokenInv'
    BY <1>1, <1>2, <1>3 DEF RegistryInv, TokenInv
  <1> QED
    BY <1>1, <1>4, <1>5 DEF RegistryInv, Registered

(* As long as a thread has no reference, some processLock is free.           *)
LEMMA SomeUnused ==
    ASSUME RegistryInv, NEW t \in Threads, using[t] = NoLock
    PROVE  Unused # {}
  <1>1. IsFiniteSet(Threads) /\ Cardinality(Threads) \in Nat
    BY LockAssumption, FS_CardinalityType
  <1>2. IsFiniteSet(Locks) /\ Cardinality(Locks) = Cardinality(Threads)
    <2>1. IsFiniteSet(1 .. Cardinality(Threads))
      BY <1>1, FS_Interval
    <2>2. Cardinality(1 .. Cardinality(Threads)) = Cardinality(Threads)
      BY <1>1, FS_Interval
    <2> QED
      BY <2>1, <2>2 DEF Locks
  <1>3. PICK others : others = Threads \ {t}
    OBVIOUS
  <1>4. IsFiniteSet(others) /\ Cardinality(others) < Cardinality(Locks)
    <2>1. IsFiniteSet(Threads \ {t}) /\ Cardinality(Threads \ {t}) = Cardinality(Threads) - 1
      BY <1>1, FS_RemoveElement
    <2> QED
      BY <1>1, <1>2, <1>3, <2>1
  <1> SUFFICES ASSUME Unused = {}
               PROVE  FALSE
    OBVIOUS
  <1>5. \A l \in Locks : \E u \in others : using[u] = l
    <2>1. ASSUME NEW l \in Locks
          PROVE  Users(l) # {}
      <3>1. refs[l] # 0 /\ refs[l] = Cardinality(Users(l))
        BY DEF Unused, RegistryInv, RefsInv
      <3> QED
        BY <3>1, FS_EmptySet
    <2>2. \A l \in Locks : t \notin Users(l)
      BY LocksTyped DEF Users
    <2> QED
      BY <1>3, <2>1, <2>2 DEF Users
  <1>6. PICK f : f = [l \in Locks |-> CHOOSE u \in others : using[u] = l]
    OBVIOUS
  <1>7. f \in [Locks -> others] /\ \A l \in Locks : using[f[l]] = l
    BY <1>5, <1>6
  <1>8. \E k, l \in Locks : k # l /\ f[k] = f[l]
    BY <1>2, <1>4, <1>7, FS_PigeonHole
  <1> QED
    BY <1>7, <1>8

(* acquireProcessLock: the reference is to the lock the registry names, or   *)
(* to a new one that nobody uses.                                            *)
LEMMA RegistryEnter ==
    ASSUME RegistryInv, NEW t \in Threads, Enter(t)
    PROVE  RegistryInv' /\ (Registered => Registered')
  <1>1. PICK p : p = ProcessOf[t]
    OBVIOUS
  <1>2. p \in Processes /\ using[t] = NoLock /\ pc[t] = "enter"
    BY <1>1 DEF Processes, Enter, At, RegistryInv, RefsInv, Referring
  <1>3. PICK l : l = IF registry[p] = NoLock THEN CHOOSE u \in Unused : TRUE ELSE registry[p]
    OBVIOUS
  <1>4. /\ registry' = [registry EXCEPT ![p] = l]
        /\ token' = IF registry[p] = NoLock THEN token \cup {l} ELSE token
        /\ refs' = [refs EXCEPT ![l] = @ + 1]
        /\ using' = [using EXCEPT ![t] = l]
        /\ pc' = [pc EXCEPT ![t] = "token"]
        /\ UNCHANGED <<fileVars, late, now, crashes>>
    BY <1>1, <1>3 DEF Enter, Goto
  <1>5. l \in Locks /\ l # NoLock
    <2>1. CASE registry[p] = NoLock
      <3>1. l \in Unused
        BY <1>2, <1>3, <2>1, SomeUnused
      <3> QED
        BY <3>1, LocksTyped DEF Unused
    <2>2. CASE registry[p] # NoLock
      BY <1>2, <1>3, <2>2 DEF RegistryInv, TypeOK
    <2> QED
      BY <2>1, <2>2
  <1>6. registry[p] = NoLock => Users(l) = {}
    <2>1. ASSUME registry[p] = NoLock
          PROVE  refs[l] = 0
      BY <1>2, <1>3, <2>1, SomeUnused DEF Unused
    <2>2. IsFiniteSet(Users(l)) /\ refs[l] = Cardinality(Users(l))
      BY <1>5, LocksTyped, FS_Subset DEF Users, RegistryInv, RefsInv
    <2> QED
      BY <2>1, <2>2, FS_EmptySet
  <1>7. \A u \in Users(l) : ProcessOf[u] = p
    BY <1>2, <1>3, <1>5, <1>6 DEF RegistryInv, RefsInv, Users
  <1>8. TypeOK'
    <2>1. registry' \in [Processes -> Locks \cup {NoLock}] /\ token' \subseteq Locks
      BY <1>4, <1>5 DEF RegistryInv, TypeOK
    <2>2. refs' \in [Locks -> Nat]
      BY <1>4, <1>5 DEF RegistryInv, TypeOK
    <2>3. using' \in [Threads -> Locks \cup {NoLock}] /\ pc' \in [Threads -> Places]
      BY <1>4, <1>5 DEF RegistryInv, TypeOK, Places
    <2> QED
      BY <1>4, <2>1, <2>2, <2>3 DEF RegistryInv, TypeOK, fileVars
  <1>9. /\ using'[t] = l /\ pc'[t] = "token"
        /\ \A u \in Threads \ {t} : using'[u] = using[u] /\ pc'[u] = pc[u]
    BY <1>4 DEF RegistryInv, TypeOK
  <1>10. /\ Users(l)' = Users(l) \cup {t}
         /\ \A k \in Locks \ {l} : Users(k)' = Users(k)
    BY <1>2, <1>9, LocksTyped DEF Users
  <1>11. \A k \in Locks : refs'[k] = Cardinality(Users(k)')
    <2>1. IsFiniteSet(Users(l)) /\ t \notin Users(l)
      BY <1>2, <1>5, LocksTyped, FS_Subset DEF Users
    <2>2. Cardinality(Users(l)') = Cardinality(Users(l)) + 1
      BY <1>10, <2>1, FS_AddElement
    <2>3. refs'[l] = refs[l] + 1 /\ \A k \in Locks \ {l} : refs'[k] = refs[k]
      BY <1>4, <1>5 DEF RegistryInv, TypeOK
    <2> QED
      BY <1>5, <1>10, <2>2, <2>3 DEF RegistryInv, RefsInv
  <1>12. \A u \in Threads : using'[u] # NoLock <=> pc'[u] \in Referring
    BY <1>5, <1>9 DEF RegistryInv, RefsInv, Referring
  <1>13. \A u, v \in Threads : using'[u] = using'[v] /\ using'[u] # NoLock =>
            ProcessOf[u] = ProcessOf[v]
    BY <1>1, <1>7, <1>9 DEF RegistryInv, RefsInv, Users
  <1>14. /\ registry'[p] = l
         /\ \A q \in Processes \ {p} : registry'[q] = registry[q]
    BY <1>2, <1>4 DEF RegistryInv, TypeOK
  <1>15. \A q \in Processes : registry'[q] # NoLock =>
            \E u \in Threads : using'[u] = registry'[q] /\ ProcessOf[u] = q
    <2>1. using'[t] = registry'[p] /\ ProcessOf[t] = p
      BY <1>1, <1>9, <1>14
    <2>2. ASSUME NEW q \in Processes \ {p}, registry'[q] # NoLock
          PROVE  \E u \in Threads : using'[u] = registry'[q] /\ ProcessOf[u] = q
      <3>1. PICK u \in Threads : using[u] = registry[q] /\ ProcessOf[u] = q
        BY <1>14, <2>2 DEF RegistryInv, RefsInv
      <3>2. u # t
        BY <1>1, <2>2, <3>1
      <3> QED
        BY <1>9, <1>14, <2>2, <3>1, <3>2
    <2> QED
      BY <2>1, <2>2
  <1>16. \A u \in Threads : /\ OwnsToken(u)' <=> OwnsToken(u)
                            /\ OwnsToken(u) => u # t
    BY <1>2, <1>9 DEF OwnsToken
  <1>17. TokenInv'
    <2>1. \A u, v \in Threads :
              OwnsToken(u)' /\ OwnsToken(v)' /\ using'[u] = using'[v] => u = v
      BY <1>9, <1>16 DEF RegistryInv, TokenInv
    <2>2. \A u \in Threads : OwnsToken(u)' => using'[u] \notin token'
      BY <1>4, <1>6, <1>9, <1>16 DEF RegistryInv, TokenInv, Users
    <2>3. ASSUME NEW u \in Threads, using'[u] # NoLock, using'[u] \notin token'
          PROVE  \E v \in Threads : using'[v] = using'[u] /\ OwnsToken(v)'
      <3>1. PICK w \in Threads : w # t /\ using[w] = using'[u]
        <4>1. CASE u = t
          <5>1. registry[p] # NoLock
            BY <1>4, <1>9, <2>3, <4>1
          <5>2. PICK w \in Threads : using[w] = l
            BY <1>2, <1>3, <5>1 DEF RegistryInv, RefsInv
          <5> QED
            BY <1>2, <1>5, <1>9, <4>1, <5>2
        <4>2. CASE u # t
          BY <1>9, <4>2
        <4> QED
          BY <4>1, <4>2
      <3>2. using[w] # NoLock /\ using[w] \notin token
        BY <1>4, <2>3, <3>1
      <3>3. PICK v \in Threads : using[v] = using[w] /\ OwnsToken(v)
        BY <3>2 DEF RegistryInv, TokenInv
      <3> QED
        BY <1>9, <1>16, <3>1, <3>3
    <2> QED
      BY <2>1, <2>2, <2>3 DEF TokenInv
  <1>18. Registered => Registered'
    <2>1. ASSUME Registered, NEW u \in Threads \ {t}, ProcessOf[u] = p, using[u] # NoLock
          PROVE  using[u] = l
      BY <1>3, <2>1 DEF Registered
    <2>2. \A u \in Threads : ProcessOf[u] \in Processes
      BY DEF Processes
    <2> QED
      BY <1>1, <1>9, <1>14, <2>1, <2>2 DEF Registered
  <1>19. RefsInv'
    BY <1>11, <1>12, <1>13, <1>15 DEF RefsInv
  <1> QED
    BY <1>8, <1>17, <1>18, <1>19 DEF RegistryInv

(* The token goes to one thread, and comes back from it.                     *)
LEMMA RegistryToken ==
    ASSUME RegistryInv, NEW t \in Threads, TakeToken(t) \/ ReturnToken(t)
    PROVE  RegistryInv' /\ (Registered => Registered')
  <1>1. /\ UNCHANGED <<registry, refs, using, fileVars, late, now, crashes>>
        /\ pc[t] \in Referring /\ using[t] \in Locks
    <2>1. pc[t] \in Referring /\ UNCHANGED <<registry, refs, using, fileVars, late, now, crashes>>
      BY DEF TakeToken, ReturnToken, At, Referring
    <2> QED
      BY <2>1 DEF RegistryInv, RefsInv, TypeOK
  <1>2. \A u \in Threads \ {t} : OwnsToken(u)' <=> OwnsToken(u)
    BY DEF RegistryInv, TypeOK, OwnsToken, TakeToken, ReturnToken, Goto
  <1>3. \A u \in Threads : pc'[u] \in Referring <=> pc[u] \in Referring
    BY <1>1 DEF RegistryInv, TypeOK, TakeToken, ReturnToken, Goto, Referring
  <1>4. TypeOK'
    <2>1. token' \subseteq Locks
      BY <1>1 DEF TakeToken, ReturnToken, RegistryInv, TypeOK
    <2>2. pc' \in [Threads -> Places]
      BY DEF TakeToken, ReturnToken, Goto, RegistryInv, TypeOK, Places
    <2> QED
      BY <1>1, <2>1, <2>2 DEF RegistryInv, TypeOK, fileVars
  <1>5. RefsInv' /\ (Registered => Registered')
    <2>1. \A l : Users(l)' = Users(l)
      BY <1>1 DEF Users
    <2> QED
      BY <1>1, <1>3, <2>1 DEF RegistryInv, RefsInv, Registered
  <1>6. CASE TakeToken(t)
    <2>1. /\ OwnsToken(t)' /\ ~OwnsToken(t)
          /\ using[t] \in token /\ token' = token \ {using[t]}
      BY <1>6 DEF TakeToken, Goto, At, OwnsToken, RegistryInv, TypeOK
    <2>2. \A u \in Threads : OwnsToken(u) => using[u] # using[t]
      BY <2>1 DEF RegistryInv, TokenInv
    <2>3. TokenInv'
      BY <1>1, <1>2, <2>1, <2>2 DEF RegistryInv, TokenInv
    <2> QED
      BY <1>4, <1>5, <2>3 DEF RegistryInv
  <1>7. CASE ReturnToken(t)
    <2>1. /\ OwnsToken(t) /\ ~OwnsToken(t)'
          /\ token' = token \cup {using[t]}
      BY <1>7 DEF ReturnToken, Goto, At, OwnsToken, RegistryInv, TypeOK
    <2>2. \A u \in Threads \ {t} : OwnsToken(u) => using[u] # using[t]
      BY <2>1 DEF RegistryInv, TokenInv
    <2>3. TokenInv'
      BY <1>1, <1>2, <2>1, <2>2 DEF RegistryInv, TokenInv
    <2> QED
      BY <1>4, <1>5, <2>3 DEF RegistryInv
  <1> QED
    BY <1>6, <1>7

(* releaseProcessLockReference: the last reference takes the registry entry  *)
(* and the token with it.                                                   *)
LEMMA RegistryRelease ==
    ASSUME RegistryInv, NEW t \in Threads, Release(t)
    PROVE  RegistryInv' /\ (Registered => Registered')
  <1>1. PICK l, p : l = using[t] /\ p = ProcessOf[t]
    OBVIOUS
  <1>2. /\ pc[t] = "release" /\ l \in Locks /\ l # NoLock /\ p \in Processes
        /\ ~OwnsToken(t)
    BY <1>1, LocksTyped
    DEF Release, At, RegistryInv, RefsInv, TypeOK, Referring, OwnsToken, Processes
  <1>3. PICK last \in BOOLEAN : last <=> refs[l] = 1
    OBVIOUS
  <1>4. /\ refs' = [refs EXCEPT ![l] = @ - 1]
        /\ registry' = [registry EXCEPT ![p] = IF last /\ @ = l THEN NoLock ELSE @]
        /\ token' = IF last THEN token \ {l} ELSE token
        /\ using' = [using EXCEPT ![t] = NoLock]
        /\ pc' = [pc EXCEPT ![t] = "idle"]
        /\ late' = late \ {t}
        /\ UNCHANGED <<fileVars, now, crashes>>
    BY <1>1, <1>3 DEF Release, Goto
  <1>5. IsFiniteSet(Users(l)) /\ t \in Users(l) /\ refs[l] = Cardinality(Users(l))
    BY <1>1, <1>2, LocksTyped, FS_Subset DEF Users, RegistryInv, RefsInv
  <1>6. /\ IsFiniteSet(Users(l) \ {t})
        /\ Cardinality(Users(l) \ {t}) = refs[l] - 1
        /\ Cardinality(Users(l) \ {t}) \in Nat
    BY <1>5, FS_RemoveElement, FS_CardinalityType
  <1>7. last <=> Users(l) \ {t} = {}
    <2>1. refs[l] \in Nat
      BY <1>2 DEF RegistryInv, TypeOK
    <2>2. last <=> Cardinality(Users(l) \ {t}) = 0
      BY <1>3, <1>6, <2>1
    <2> QED
      BY <1>6, <2>2, FS_EmptySet
  <1>8. /\ using'[t] = NoLock /\ pc'[t] = "idle"
        /\ \A u \in Threads \ {t} : using'[u] = using[u] /\ pc'[u] = pc[u]
    BY <1>4 DEF RegistryInv, TypeOK
  <1>9. /\ \A q \in Processes \ {p} : registry'[q] = registry[q]
        /\ registry'[p] = IF last /\ registry[p] = l THEN NoLock ELSE registry[p]
    BY <1>2, <1>4 DEF RegistryInv, TypeOK
  <1>10. TypeOK'
    <2>1. registry' \in [Processes -> Locks \cup {NoLock}] /\ token' \subseteq Locks
      BY <1>2, <1>4 DEF RegistryInv, TypeOK
    <2>2. refs' \in [Locks -> Nat]
      BY <1>2, <1>4, <1>6 DEF RegistryInv, TypeOK
    <2>3. using' \in [Threads -> Locks \cup {NoLock}] /\ pc' \in [Threads -> Places]
      BY <1>4 DEF RegistryInv, TypeOK, Places
    <2> QED
      BY <1>4, <2>1, <2>2, <2>3 DEF RegistryInv, TypeOK, fileVars
  <1>11. \A k \in Locks : refs'[k] = Cardinality(Users(k)')
    <2>1. Users(l)' = Users(l) \ {t} /\ \A k \in Locks \ {l} : Users(k)' = Users(k)
      BY <1>1, <1>2, <1>8, LocksTyped DEF Users
    <2>2. refs'[l] = refs[l] - 1 /\ \A k \in Locks \ {l} : refs'[k] = refs[k]
      BY <1>2, <1>4 DEF RegistryInv, TypeOK
    <2>3. \A k \in Locks \ {l} : refs[k] = Cardinality(Users(k))
      BY DEF RegistryInv, RefsInv
    <2> QED
      BY <1>6, <2>1, <2>2, <2>3
  <1>12. \A u \in Threads : using'[u] # NoLock <=> pc'[u] \in Referring
    BY <1>8 DEF RegistryInv, RefsInv, Referring
  <1>13. \A u, v \in Threads : using'[u] = using'[v] /\ using'[u] # NoLock =>
            ProcessOf[u] = ProcessOf[v]
    BY <1>8 DEF RegistryInv, RefsInv
  <1>14. ASSUME NEW q \in Processes, registry'[q] # NoLock
         PROVE  \E u \in Threads : using'[u] = registry'[q] /\ ProcessOf[u] = q
    <2>1. registry'[q] = registry[q]
      BY <1>9, <1>14
    <2>2. PICK u \in Threads : using[u] = registry[q] /\ ProcessOf[u] = q
      BY <1>14, <2>1 DEF RegistryInv, RefsInv
    <2>3. CASE u # t
      BY <1>8, <2>1, <2>2, <2>3
    <2>4. CASE u = t
      <3>1. q = p /\ registry[p] = l
        BY <1>1, <2>2, <2>4
      <3>2. ~last
        BY <1>9, <1>14, <3>1
      <3>3. PICK v \in Users(l) : v # t
        BY <1>7, <3>2
      <3>4. v \in Threads /\ using[v] = l /\ ProcessOf[v] = p
        BY <1>1, <1>2, <3>3 DEF Users, RegistryInv, RefsInv
      <3> QED
        BY <1>8, <2>1, <3>1, <3>3, <3>4
    <2> QED
      BY <2>3, <2>4
  <1>15. RefsInv'
    BY <1>11, <1>12, <1>13, <1>14 DEF RefsInv
  <1>16. \A u \in Threads : /\ OwnsToken(u)' <=> OwnsToken(u)
                            /\ OwnsToken(u) => u # t
    BY <1>2, <1>8 DEF OwnsToken
  <1>17. TokenInv'
    <2>1. \A u, v \in Threads :
              OwnsToken(u)' /\ OwnsToken(v)' /\ using'[u] = using'[v] => u = v
      BY <1>8, <1>16 DEF RegistryInv, TokenInv
    <2>2. \A u \in Threads : OwnsToken(u)' => using'[u] \notin token'
      BY <1>4, <1>8, <1>16 DEF RegistryInv, TokenInv
    <2>3. ASSUME NEW u \in Threads, using'[u] # NoLock, using'[u] \notin token'
          PROVE  \E v \in Threads : using'[v] = using'[u] /\ OwnsToken(v)'
      <3>1. u # t /\ using'[u] = using[u]
        BY <1>8, <2>3
      <3>2. last => using[u] # l
        BY <1>7, <3>1 DEF Users
      <3>3. using[u] \notin token
        BY <1>4, <2>3, <3>1, <3>2
      <3>4. PICK v \in Threads : using[v] = using[u] /\ OwnsToken(v)
        BY <2>3, <3>1, <3>3 DEF RegistryInv, TokenInv
      <3> QED
        BY <1>8, <1>16, <3>1, <3>4
    <2> QED
      BY <2>1, <2>2, <2>3 DEF TokenInv
  <1>18. Registered => Registered'
    <2>1. ASSUME Registered, NEW u \in Threads \ {t}, using[u] # NoLock
          PROVE  registry'[ProcessOf[u]] = using[u]
      <3>1. registry[ProcessOf[u]] = using[u] /\ ProcessOf[u] \in Processes
        BY <2>1 DEF Registered, Processes
      <3>2. CASE ProcessOf[u] = p /\ last /\ registry[p] = l
        <4>1. u \in Users(l) \ {t}
          BY <2>1, <3>1, <3>2 DEF Users
        <4> QED
          BY <1>7, <3>2, <4>1
      <3> QED
        BY <1>9, <3>1, <3>2
    <2> QED
      BY <1>8, <2>1 DEF Registered
  <1> QED
    BY <1>10, <1>15, <1>17, <1>18 DEF RegistryInv

(* The other steps of Acquire leave the registry alone, but for forgetting   *)
(* the entry of a path whose file was stale.                                 *)
LEMMA RegistryAcquire ==
    ASSUME RegistryInv, NEW t \in Threads, Acquire(t)
    PROVE  RegistryInv' /\ (Registered /\ pc[t] # "forget" => Registered')
  <1> USE DEF At, Goto, OwnsToken, Referring
  <1>1. CASE Call(t)
    <2>1. TypeOK'
      BY <1>1, LockAssumption DEF Call, RegistryInv, TypeOK, Places, fileVars, lockVars
    <2>2. PICK place \in {"retire", "enter"} : pc' = [pc EXCEPT ![t] = place]
      BY <1>1 DEF Call
    <2> QED
      BY <1>1, <2>1, <2>2, Moved DEF Call, RegistryInv, TypeOK
  <1>2. CASE RetireStat(t)
    <2>1. TypeOK'
      BY <1>2 DEF RetireStat, RegistryInv, TypeOK, Places, fileVars, lockVars
    <2>2. PICK place \in {"forget", "retireRemove", "enter"} : pc' = [pc EXCEPT ![t] = place]
      BY <1>2 DEF RetireStat
    <2> QED
      BY <1>2, <2>1, <2>2, Moved DEF RetireStat, RegistryInv, TypeOK
  <1>3. CASE RetireRemove(t)
    <2>1. TypeOK'
      BY <1>3, LockAssumption DEF RetireRemove, Remove, RegistryInv, TypeOK, Places, lockVars
    <2> QED
      BY <1>3, <2>1, Moved DEF RetireRemove, RegistryInv, TypeOK
  <1>4. CASE Forget(t)
    <2>1. /\ pc[t] = "forget" /\ pc' = [pc EXCEPT ![t] = "enter"]
          /\ registry' = [registry EXCEPT ![ProcessOf[t]] = NoLock]
          /\ UNCHANGED <<fileVars, token, refs, using, late, now, crashes>>
      BY <1>4 DEF Forget
    <2>2. TypeOK'
      BY <2>1 DEF RegistryInv, TypeOK, Places, fileVars
    <2>3. \A u \in Threads : /\ pc'[u] \in Referring <=> pc[u] \in Referring
                             /\ OwnsToken(u)' <=> OwnsToken(u)
      BY <2>1 DEF RegistryInv, TypeOK
    <2>4. \A q \in Processes : registry'[q] # NoLock => registry'[q] = registry[q]
      BY <2>1 DEF RegistryInv, TypeOK
    <2>5. \A l : Users(l)' = Users(l)
      BY <2>1 DEF Users
    <2>6. RefsInv' /\ TokenInv'
      <3> HIDE DEF OwnsToken, Referring
      <3> QED
        BY <2>1, <2>3, <2>4, <2>5 DEF RegistryInv, RefsInv, TokenInv
    <2> QED
      BY <2>1, <2>2, <2>6 DEF RegistryInv
  <1>5. CASE Enter(t)
    BY <1>5, RegistryEnter
  <1>6. CASE TakeToken(t)
    BY <1>6, RegistryToken
  <1>7. CASE MissToken(t)
    <2>1. TypeOK'
      BY <1>7 DEF MissToken, RegistryInv, TypeOK, Places, fileVars, lockVars
    <2> QED
      BY <1>7, <2>1, Moved DEF MissToken, RegistryInv, TypeOK
  <1>8. CASE Create(t)
    <2>1. TypeOK'
      BY <1>8 DEF Create, RegistryInv, TypeOK, Places, lockVars
    <2>2. PICK place \in {"holding", "abandon"} : pc' = [pc EXCEPT ![t] = place]
      BY <1>8 DEF Create
    <2> QED
      BY <1>8, <2>1, <2>2, Moved DEF Create, RegistryInv, TypeOK
  <1>9. CASE Abandon(t) \/ RemoveFile(t)
    <2>1. TypeOK'
      BY <1>9, LockAssumption DEF Abandon, RemoveFile, Remove, RegistryInv, TypeOK, Places, lockVars
    <2>2. PICK place \in {"return", "create"} : pc' = [pc EXCEPT ![t] = place]
      BY <1>9 DEF Abandon, RemoveFile
    <2> QED
      BY <1>9, <2>1, <2>2, Moved DEF Abandon, RemoveFile, RegistryInv, TypeOK
  <1>10. CASE CreateExists(t) \/ StatFile(t) \/ CreateNowhere(t) \/ MakeDirectory(t)
    <2> USE DEF CreateExists, StatFile, CreateNowhere, MakeDirectory
    <2>1. TypeOK'
      BY <1>10 DEF RegistryInv, TypeOK, Places, fileVars, lockVars
    <2>2. PICK place \in {"stat", "create", "mkdir", "remove", "return"} :
              pc' = [pc EXCEPT ![t] = place]
      BY <1>10
    <2> QED
      BY <1>10, <2>1, <2>2, Moved DEF RegistryInv, TypeOK
  <1> QED
    BY <1>1, <1>2, <1>3, <1>4, <1>5, <1>6, <1>7, <1>8, <1>9, <1>10 DEF Acquire

(* The steps after a lock was held, and a sweep of old lock files. *)
LEMMA RegistryReturn ==
    ASSUME RegistryInv, NEW t \in Threads,
           Return(t) \/ Sweep(t) \/ FileError(t) \/ DeadlinePasses(t)
    PROVE  RegistryInv' /\ (Registered => Registered')
  <1> USE DEF At, Goto, OwnsToken, Referring
  <1>1. CASE Unlock(t)
    <2>1. TypeOK'
      BY <1>1 DEF Unlock, RegistryInv, TypeOK, Places, fileVars, lockVars
    <2>2. PICK place \in {"unlink", "return"} : pc' = [pc EXCEPT ![t] = place]
      BY <1>1 DEF Unlock
    <2> QED
      BY <1>1, <2>1, <2>2, Moved DEF Unlock, RegistryInv, TypeOK
  <1>2. CASE Unlink(t)
    <2>1. TypeOK'
      BY <1>2, LockAssumption DEF Unlink, Remove, RegistryInv, TypeOK, Places, lockVars
    <2> QED
      BY <1>2, <2>1, Moved DEF Unlink, RegistryInv, TypeOK
  <1>3. CASE ReturnToken(t)
    BY <1>3, RegistryToken
  <1>4. CASE Release(t)
    BY <1>4, RegistryRelease
  <1>5. CASE SweepStat(t)
    <2>1. TypeOK'
      BY <1>5, LockAssumption DEF SweepStat, RegistryInv, TypeOK, Places, fileVars, lockVars
    <2> QED
      BY <1>5, <2>1, Moved DEF SweepStat, RegistryInv, TypeOK
  <1>6. CASE SweepRemove(t)
    <2>1. TypeOK'
      BY <1>6, LockAssumption DEF SweepRemove, Remove, RegistryInv, TypeOK, Places, lockVars
    <2> QED
      BY <1>6, <2>1, Moved DEF SweepRemove, RegistryInv, TypeOK
  <1>7. CASE DeadlinePasses(t)
    <2>1. TypeOK' /\ pc' = [pc EXCEPT ![t] = pc[t]] /\ UNCHANGED <<lockVars, pc>>
      BY <1>7 DEF DeadlinePasses, RegistryInv, TypeOK, fileVars, lockVars
    <2> QED
      BY <2>1, Moved DEF RegistryInv, TypeOK
  <1>8. CASE FileError(t)
    <2>1. PICK place \in {"idle", "return"} :
              /\ pc' = [pc EXCEPT ![t] = place]
              /\ IF place = "idle" THEN pc[t] \in Early ELSE pc[t] \in WithToken
      BY <1>8 DEF FileError, OnError, Early, WithToken
    <2>2. TypeOK'
      BY <1>8, <2>1 DEF FileError, RegistryInv, TypeOK, Places, fileVars, lockVars
    <2> QED
      BY <1>8, <2>1, <2>2, Moved DEF FileError, Early, WithToken, RegistryInv, TypeOK
  <1> QED
    BY <1>1, <1>2, <1>3, <1>4, <1>5, <1>6, <1>7, <1>8 DEF Return, Sweep

(* A process takes with it all references to the locks of its own threads.   *)
LEMMA RegistryCrash ==
    ASSUME RegistryInv, NEW p \in Processes, Crash(p)
    PROVE  RegistryInv' /\ (Registered => Registered')
  <1>1. PICK mine : mine = {t \in Threads : ProcessOf[t] = p}
    OBVIOUS
  <1>2. PICK gone : gone = {using[t] : t \in mine}
    OBVIOUS
  <1>3. /\ registry' = [registry EXCEPT ![p] = NoLock]
        /\ token' = token \ gone
        /\ refs' = [l \in Locks |-> IF l \in gone THEN 0 ELSE refs[l]]
        /\ using' = [t \in Threads |-> IF t \in mine THEN NoLock ELSE using[t]]
        /\ pc' = [t \in Threads |-> IF t \in mine THEN "idle" ELSE pc[t]]
        /\ late' = late \ mine /\ crashes' = crashes + 1 /\ crashes < MaxCrashes
        /\ UNCHANGED <<fileVars, now>>
    BY <1>1, <1>2 DEF Crash
  <1>4. TypeOK'
    <2>1. registry' \in [Processes -> Locks \cup {NoLock}] /\ token' \subseteq Locks
      BY <1>3 DEF RegistryInv, TypeOK
    <2>2. refs' \in [Locks -> Nat]
      BY <1>3 DEF RegistryInv, TypeOK
    <2>3. using' \in [Threads -> Locks \cup {NoLock}] /\ pc' \in [Threads -> Places]
      BY <1>3 DEF RegistryInv, TypeOK, Places
    <2>4. late' \subseteq Threads /\ crashes' \in 0 .. MaxCrashes
      BY <1>3, LockAssumption DEF RegistryInv, TypeOK
    <2> QED
      BY <1>3, <2>1, <2>2, <2>3, <2>4 DEF RegistryInv, TypeOK, fileVars
  <1>5. \A t \in Threads :
            IF t \in mine THEN using'[t] = NoLock /\ pc'[t] = "idle"
            ELSE /\ using'[t] = using[t] /\ pc'[t] = pc[t]
                 /\ using[t] # NoLock => using[t] \notin gone
    BY <1>1, <1>2, <1>3 DEF RegistryInv, RefsInv
  <1>6. \A l \in Locks : refs'[l] = Cardinality(Users(l)')
    <2>1. ASSUME NEW l \in Locks \cap gone
          PROVE  Users(l)' = {}
      BY <1>5, <2>1, LocksTyped DEF Users
    <2>2. ASSUME NEW l \in Locks \ gone
          PROVE  Users(l)' = Users(l)
      BY <1>2, <1>5, <2>2, LocksTyped DEF Users
    <2>3. \A l \in Locks \ gone : refs[l] = Cardinality(Users(l))
      BY DEF RegistryInv, RefsInv
    <2> QED
      BY <1>3, <2>1, <2>2, <2>3, FS_EmptySet
  <1>7. \A t \in Threads : OwnsToken(t)' => OwnsToken(t) /\ t \notin mine
    BY <1>5 DEF OwnsToken
  <1>8. \A t \in Threads \ mine : OwnsToken(t) => OwnsToken(t)'
    BY <1>5 DEF OwnsToken
  <1>9. RefsInv'
    <2>1. \A t \in Threads : using'[t] # NoLock <=> pc'[t] \in Referring
      BY <1>5 DEF RegistryInv, RefsInv, Referring
    <2>2. ASSUME NEW q \in Processes, registry'[q] # NoLock
          PROVE  \E t \in Threads : using'[t] = registry'[q] /\ ProcessOf[t] = q
      <3>1. q # p /\ registry'[q] = registry[q]
        BY <1>3, <2>2 DEF RegistryInv, TypeOK
      <3>2. PICK t \in Threads : using[t] = registry[q] /\ ProcessOf[t] = q
        BY <2>2, <3>1 DEF RegistryInv, RefsInv
      <3> QED
        BY <1>1, <1>5, <3>1, <3>2
    <2>3. \A t, u \in Threads : using'[t] = using'[u] /\ using'[t] # NoLock =>
              ProcessOf[t] = ProcessOf[u]
      BY <1>5 DEF RegistryInv, RefsInv
    <2> QED
      BY <1>6, <2>1, <2>2, <2>3 DEF RefsInv
  <1>10. TokenInv'
    <2>1. \A t, u \in Threads :
              OwnsToken(t)' /\ OwnsToken(u)' /\ using'[t] = using'[u] => t = u
      BY <1>5, <1>7 DEF RegistryInv, TokenInv
    <2>2. \A t \in Threads : OwnsToken(t)' => using'[t] \notin token'
      BY <1>3, <1>5, <1>7 DEF RegistryInv, TokenInv
    <2>3. ASSUME NEW t \in Threads, using'[t] # NoLock, using'[t] \notin token'
          PROVE  \E u \in Threads : using'[u] = using'[t] /\ OwnsToken(u)'
      <3>1. t \notin mine /\ using'[t] = using[t] /\ using[t] \notin gone
        BY <1>5, <2>3
      <3>2. PICK u \in Threads : using[u] = using[t] /\ OwnsToken(u)
        BY <1>3, <2>3, <3>1 DEF RegistryInv, TokenInv
      <3>3. u \notin mine
        BY <1>2, <3>1, <3>2
      <3> QED
        BY <1>5, <1>8, <3>1, <3>2, <3>3
    <2> QED
      BY <2>1, <2>2, <2>3 DEF TokenInv
  <1>11. Registered => Registered'
    <2>1. \A q \in Processes \ {p} : registry'[q] = registry[q]
      BY <1>3 DEF RegistryInv, TypeOK
    <2>2. \A t \in Threads \ mine : ProcessOf[t] \in Processes \ {p}
      BY <1>1 DEF Processes
    <2> QED
      BY <1>5, <2>1, <2>2 DEF Registered
  <1> QED
    BY <1>4, <1>9, <1>10, <1>11 DEF RegistryInv

(* Each step keeps RegistryInv, and Registered unless it retires a lock. *)
LEMMA RegistryNext ==
    ASSUME RegistryInv, [Next]_vars
    PROVE  /\ RegistryInv'
           /\ Registered /\ (\A t \in Threads : pc[t] # "forget") => Registered'
  <1>1. CASE \E t \in Threads :
             Acquire(t) \/ Return(t) \/ Sweep(t) \/ FileError(t) \/ DeadlinePasses(t)
    BY <1>1, RegistryAcquire, RegistryReturn
  <1>2. CASE \E p \in Processes : Crash(p)
    BY <1>2, RegistryCrash
  <1>3. CASE LoseDirectory \/ Tick \/ UNCHANGED vars
    <2>1. UNCHANGED <<lockVars, pc>>
      BY <1>3 DEF LoseDirectory, Tick, vars
    <2>2. TypeOK'
      <3>1. CASE Tick
        <4>1. now' \in 0 .. MaxTime
          BY <3>1, LockAssumption DEF Tick, RegistryInv, TypeOK
        <4> QED
          BY <3>1, <4>1 DEF Tick, fileVars, lockVars, RegistryInv, TypeOK
      <3>2. CASE LoseDirectory \/ UNCHANGED vars
        BY <3>2 DEF LoseDirectory, vars, fileVars, lockVars, RegistryInv, TypeOK
      <3> QED
        BY <1>3, <3>1, <3>2
    <2>3. RefsInv' /\ TokenInv' /\ (Registered => Registered')
      BY <2>1 DEF lockVars, RegistryInv, RefsInv, TokenInv, Registered, Users, OwnsToken
    <2> QED
      BY <2>2, <2>3 DEF RegistryInv
  <1> QED
    BY <1>1, <1>2, <1>3 DEF Next

(* The registries, references and tokens of all processes agree in every *)
(* state, after crashes and retired locks too.                           *)
THEOREM RegistryKept == Spec => []RegistryInv
  <1>1. Init => RegistryInv
    BY RegistryInit
  <1>2. RegistryInv /\ [Next]_vars => RegistryInv'
    BY RegistryNext
  <1> QED
    BY <1>1, <1>2, PTL DEF Spec

(* Every variable of the lock keeps its type, crashes and retired locks      *)
(* included: lock.refs, above all, never falls below zero.                   *)
THEOREM LockTyped == Spec => []TypeOK
  <1>1. RegistryInv => TypeOK
    BY DEF RegistryInv
  <1> QED
    BY <1>1, RegistryKept, PTL

(* Then the registry names the locks in use, and counts them right. *)
LEMMA RegistryNames ==
    ASSUME RegistryInv, Registered, NEW l \in Locks
    PROVE  /\ refs[l] = Cardinality(Users(l))
           /\ {p \in Processes : registry[p] = l} = {ProcessOf[t] : t \in Users(l)}
           /\ Users(l) # {} =>
                 Cardinality({t \in Users(l) : OwnsToken(t)}) = IF l \in token THEN 0 ELSE 1
  <1>1. l # NoLock
    BY LocksTyped
  <1>2. \A t \in Users(l) : ProcessOf[t] \in Processes /\ registry[ProcessOf[t]] = l
    BY <1>1 DEF Registered, Users, Processes
  <1>3. \A p \in Processes : registry[p] = l => \E t \in Users(l) : ProcessOf[t] = p
    BY <1>1 DEF RegistryInv, RefsInv, Users
  <1>4. PICK owners : owners = {t \in Users(l) : OwnsToken(t)}
    OBVIOUS
  <1>5. CASE l \in token
    <2>1. owners = {}
      BY <1>4, <1>5 DEF RegistryInv, TokenInv, Users
    <2> QED
      BY <1>2, <1>3, <1>4, <1>5, <2>1, FS_EmptySet DEF RegistryInv, RefsInv
  <1>6. CASE l \notin token /\ Users(l) # {}
    <2>1. PICK t \in Users(l) : OwnsToken(t)
      BY <1>1, <1>6 DEF RegistryInv, TokenInv, Users
    <2>2. owners = {t}
      BY <1>4, <2>1 DEF RegistryInv, TokenInv, Users
    <2>3. Cardinality(owners) = 1
      BY <2>2, FS_Singleton
    <2>4. {p \in Processes : registry[p] = l} = {ProcessOf[u] : u \in Users(l)}
      BY <1>2, <1>3
    <2>5. refs[l] = Cardinality(Users(l))
      BY DEF RegistryInv, RefsInv
    <2> QED
      BY <1>4, <1>6, <2>3, <2>4, <2>5
  <1> QED
    BY <1>2, <1>3, <1>5, <1>6 DEF RegistryInv, RefsInv

(* releaseProcessLockReference: before anything is retired, the registry     *)
(* names exactly the locks in use, counts who refers to them, and the token  *)
(* of each is in its channel or with one of them, whatever dies.             *)
THEOREM RegistryIsSound == Spec => []RegistrySound
  <1> DEFINE Inv == FreshInv /\ RegistryInv /\ (AllFresh => Registered)
  <1>1. Init => Inv
    BY FileInvInit, RegistryInit DEF FreshInv, FileInv
  <1>2. Inv /\ [Next]_vars => Inv'
    <2> SUFFICES ASSUME Inv, [Next]_vars
                 PROVE  Inv'
      OBVIOUS
    <2>1. now' \in Nat /\ (AllFresh' => AllFresh)
      BY ClockAdvances, LockAssumption DEF AllFresh, FreshInv
    <2>2. FreshInv'
      BY <2>1, FileInvNext DEF FreshInv
    <2>3. RegistryInv' /\ (AllFresh' => Registered')
      BY <2>1, RegistryNext DEF FreshInv, FileInv, Removing
    <2> QED
      BY <2>2, <2>3
  <1>3. Inv => RegistrySound
    BY RegistryNames DEF AllFresh, RegistrySound, Users
  <1> QED
    BY <1>1, <1>2, <1>3, PTL DEF Spec
===============================================================================
