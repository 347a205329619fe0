------------------------- MODULE TieredMemory_proofs -------------------------
(***************************************************************************)
(* Proofs about TieredMemory, for any ids, scopes, archive limit and       *)
(* bounds: type correctness, and, when retainHotMs keeps its value, that   *)
(* the newest writes survive and, when the archive never throws either,    *)
(* that no read is ever stale.                                             *)
(***************************************************************************)
EXTENDS TieredMemory, FiniteSetTheorems, TLAPS

-----------------------------------------------------------------------------
(* Tiers and changes.                                                      *)

LEMMA EmptyTierType == EmptyTier \in Tier /\ \A id \in Ids : EmptyTier[id] = Absent
BY MemoryAssumption DEF EmptyTier, Tier, Absent

LEMMA CopiedEntries ==
  ASSUME NEW tier \in Tier, NEW S, NEW from \in Tier
  PROVE  /\ Copied(tier, S, from) \in Tier
         /\ \A id \in Ids :
              Copied(tier, S, from)[id] = IF id \in S THEN from[id] ELSE tier[id]
BY DEF Copied, Tier

LEMMA WithoutEntries ==
  ASSUME NEW tier \in Tier, NEW S
  PROVE  /\ Without(tier, S) \in Tier
         /\ \A id \in Ids : Without(tier, S)[id] = IF id \in S THEN Absent ELSE tier[id]
BY CopiedEntries, EmptyTierType DEF Without

LEMMA CapacityEntries ==
  ASSUME NEW tier \in Tier, NEW at
  PROVE  /\ enforceCapacity(tier, at) \in Tier
         /\ \A id \in Ids : enforceCapacity(tier, at)[id] \in {tier[id], Absent}
BY MemoryAssumption DEF enforceCapacity, Tier, Absent

\* Writing one entry.
LEMMA PutEntry ==
  ASSUME NEW tier \in Tier, NEW id \in Ids, NEW value \in 0 .. MaxWrites
  PROVE  /\ [tier EXCEPT ![id] = value] \in Tier
         /\ \A d \in Ids : [tier EXCEPT ![id] = value][d]
                             = IF d = id THEN value ELSE tier[d]
BY DEF Tier

Change == [ids   : SUBSET Ids,
           value : 0 .. MaxWrites,
           hot   : Tier,
           warm  : Tier,
           cold  : Tier,
           persists : BOOLEAN]

LEMMA UpsertedType ==
  ASSUME TypeOK, NEW id \in Ids, NEW value \in 0 .. MaxWrites, NEW at
  PROVE  Upserted(id, value, at) \in Change
<1>1. [hot EXCEPT ![id] = value] \in Tier
  BY PutEntry DEF TypeOK
<1>2. (IF config.warm THEN [warm EXCEPT ![id] = value] ELSE warm) \in Tier
  BY PutEntry DEF TypeOK
<1>3. (IF config.writeThrough THEN enforceCapacity([cold EXCEPT ![id] = value], at)
                              ELSE cold) \in Tier
  BY PutEntry, CapacityEntries DEF TypeOK
<1>4. config.writeThrough \in BOOLEAN
  BY DEF TypeOK
<1> QED BY <1>1, <1>2, <1>3, <1>4
     DEF Upserted, hotUpsert, warmUpsert, coldUpsert, Change

LEMMA RemovedType ==
  ASSUME TypeOK, NEW S \in SUBSET Ids
  PROVE  Removed(S) \in Change
<1>1. Without(hot, S) \in Tier /\ Without(warm, S) \in Tier /\ Without(cold, S) \in Tier
  BY WithoutEntries DEF TypeOK
<1>2. Absent \in 0 .. MaxWrites
  BY MemoryAssumption DEF Absent
<1> QED BY <1>1, <1>2 DEF Removed, hotRemove, warmRemove, coldRemove, Change

LEMMA BrokenArchiveType ==
  ASSUME TypeOK, NEW records \in Tier
  PROVE  BrokenArchive(records) \subseteq Tier \cup {Corrupt}
BY WithoutEntries DEF BrokenArchive, TypeOK

-----------------------------------------------------------------------------
(* Type correctness.                                                       *)

LEMMA TypeInit == Init => TypeOK
<1> SUFFICES ASSUME Init PROVE TypeOK
  OBVIOUS
<1>1. 0 \in 0 .. MaxWrites /\ 0 \in 0 .. MaxFaults
  BY MemoryAssumption
<1> QED BY <1>1, EmptyTierType DEF Init, TypeOK

\* Whatever becomes of an operation, the types are kept.
LEMMA PerformType ==
  ASSUME TypeOK, process = "up", NEW change \in Change, Perform(change),
         writes' \in 0 .. MaxWrites, times' \in Seq(Times), Len(times') = writes'
  PROVE  TypeOK'
<1>1. /\ change.ids \subseteq Ids /\ change.value \in 0 .. MaxWrites
      /\ change.hot \in Tier /\ change.warm \in Tier /\ change.cold \in Tier
      /\ change.persists \in BOOLEAN
  BY DEF Change
<1>2. [id \in Ids |-> IF id \in change.ids THEN change.value ELSE acked[id]] \in Tier
  BY <1>1 DEF TypeOK, Tier
<1>3. /\ [id \in Ids |-> IF id \in change.ids THEN {} ELSE tried[id]]
           \in [Ids -> SUBSET (0 .. MaxWrites)]
      /\ [id \in Ids |-> IF id \in change.ids
                         THEN tried[id] \cup {change.value} ELSE tried[id]]
           \in [Ids -> SUBSET (0 .. MaxWrites)]
  BY <1>1 DEF TypeOK
<1>4. BrokenArchive(change.cold) \subseteq Tier \cup {Corrupt}
  BY <1>1, BrokenArchiveType
<1>5. ASSUME NEW kind, Fault(kind) PROVE faults' \in 0 .. MaxFaults
  BY <1>5, MemoryAssumption DEF Fault, TypeOK
<1>6. CASE Returns(change)
  BY <1>1, <1>2, <1>3, <1>6 DEF Returns, TypeOK
<1>7. CASE WarmThrows(change)
  BY <1>1, <1>3, <1>5, <1>7 DEF WarmThrows, Unanswered, TypeOK
<1>8. CASE ColdThrows(change)
  BY <1>1, <1>3, <1>4, <1>5, <1>8 DEF ColdThrows, Unanswered, TypeOK
<1>9. CASE Dies(change)
  BY <1>1, <1>3, <1>4, <1>5, <1>9, EmptyTierType DEF Dies, Down, Unanswered, TypeOK
<1> QED BY <1>6, <1>7, <1>8, <1>9 DEF Perform

LEMMA UpsertChange ==
  ASSUME TypeOK, NEW id \in Ids, upsert(id)
  PROVE  /\ process = "up"
         /\ writes + 1 \in 0 .. MaxWrites
         /\ writes' \in 0 .. MaxWrites
         /\ times' \in Seq(Times) /\ Len(times') = writes'
         /\ Upserted(id, writes + 1, times') \in Change
         /\ Perform(Upserted(id, writes + 1, times'))
<1>1. writes + 1 \in 0 .. MaxWrites
  BY MemoryAssumption DEF TypeOK, upsert
<1>2. times' \in Seq(Times) /\ Len(times') = writes + 1
  BY DEF TypeOK, upsert
<1> QED BY <1>1, <1>2, UpsertedType DEF upsert

\* The three operations that remove entries, in one form.
RemovalStep ==
  /\ process = "up"
  /\ writes' = writes /\ times' = times
  /\ \E S \in SUBSET Ids : Perform(Removed(S))

LEMMA Removals ==
  /\ \A id \in Ids : delete(id) => RemovalStep
  /\ \A scope \in Scopes : clearScope(scope) => RemovalStep
  /\ clearAll => RemovalStep
<1>1. ASSUME NEW id \in Ids, delete(id) PROVE RemovalStep
  <2>1. {id} \in SUBSET Ids
    OBVIOUS
  <2> QED BY <1>1, <2>1 DEF delete, RemovalStep
<1>2. ASSUME NEW scope \in Scopes, clearScope(scope) PROVE RemovalStep
  <2>1. InScope(scope) \in SUBSET Ids
    BY DEF InScope
  <2> QED BY <1>2, <2>1 DEF clearScope, RemovalStep
<1>3. ASSUME clearAll PROVE RemovalStep
  BY <1>3 DEF clearAll, RemovalStep
<1> QED BY <1>1, <1>2, <1>3

LEMMA SearchTiers ==
  ASSUME TypeOK, NEW W, NEW C
  PROVE  /\ HotAfterSearch(W, C) \in Tier
         /\ \A id \in Ids : HotAfterSearch(W, C)[id] =
              IF id \in C THEN cold[id] ELSE IF id \in W THEN warm[id] ELSE hot[id]
         /\ WarmAfterSearch(C) \in Tier
         /\ \A id \in Ids : WarmAfterSearch(C)[id] =
              IF config.warm /\ id \in C THEN cold[id] ELSE warm[id]
<1>1. Copied(hot, W, warm) \in Tier
      /\ \A id \in Ids : Copied(hot, W, warm)[id] = IF id \in W THEN warm[id] ELSE hot[id]
  BY CopiedEntries DEF TypeOK
<1>2. HotAfterSearch(W, C) \in Tier
      /\ \A id \in Ids : HotAfterSearch(W, C)[id] =
           IF id \in C THEN cold[id] ELSE Copied(hot, W, warm)[id]
  BY <1>1, CopiedEntries DEF TypeOK, HotAfterSearch
<1>3. Copied(warm, C, cold) \in Tier
      /\ \A id \in Ids : Copied(warm, C, cold)[id] = IF id \in C THEN cold[id] ELSE warm[id]
  BY CopiedEntries DEF TypeOK
<1> QED BY <1>1, <1>2, <1>3 DEF WarmAfterSearch, TypeOK

LEMMA TypeStep == TypeOK /\ [Next]_vars => TypeOK'
<1> SUFFICES ASSUME TypeOK, [Next]_vars PROVE TypeOK'
  OBVIOUS
<1>1. ASSUME NEW id \in Ids, upsert(id) PROVE TypeOK'
  BY <1>1, UpsertChange, PerformType
<1>2. ASSUME RemovalStep PROVE TypeOK'
  <2>1. PICK S \in SUBSET Ids : Perform(Removed(S))
    BY <1>2 DEF RemovalStep
  <2>2. /\ writes' \in 0 .. MaxWrites /\ process = "up"
        /\ times' \in Seq(Times) /\ Len(times') = writes'
    BY <1>2 DEF RemovalStep, TypeOK
  <2> QED BY <2>1, <2>2, RemovedType, PerformType
<1>3. ASSUME NEW id \in Ids, Get(id) PROVE TypeOK'
  <2>1. /\ [hot EXCEPT ![id] = warm[id]] \in Tier
        /\ [hot EXCEPT ![id] = cold[id]] \in Tier
        /\ [warm EXCEPT ![id] = cold[id]] \in Tier
    BY <1>3 DEF TypeOK, Tier
  <2>2. BrokenArchive(cold) \subseteq Tier \cup {Corrupt}
    BY BrokenArchiveType DEF TypeOK
  <2>3. CASE getWarm(id)
    BY <2>1, <2>3 DEF getWarm, hotUpsert, user, TypeOK
  <2>4. CASE getCold(id)
    BY <2>1, <2>4 DEF getCold, hotUpsert, warmUpsert, user, TypeOK
  <2>5. CASE getColdThrows(id)
    BY <2>2, <2>5, MemoryAssumption DEF getColdThrows, Fault, user, TypeOK
  <2>6. CASE getColdDies(id)
    BY <2>2, <2>6, EmptyTierType, MemoryAssumption DEF getColdDies, Fault, Down, user, TypeOK
  <2> QED BY <1>3, <2>3, <2>4, <2>5, <2>6 DEF Get
<1>4. ASSUME NEW id \in Ids, Forget(id) PROVE TypeOK'
  <2>1. [hot EXCEPT ![id] = Absent] \in Tier
    BY MemoryAssumption DEF TypeOK, Tier, Absent
  <2> QED BY <1>4, <2>1 DEF Forget, user, TypeOK
<1>5. ASSUME NEW scope \in Scopes, clearScopeHangs(scope) PROVE TypeOK'
  <2>1. \A S : Without(hot, S) \in Tier
    BY WithoutEntries DEF TypeOK
  <2>2. Absent \in 0 .. MaxWrites
    BY MemoryAssumption DEF Absent
  <2>3. tried' \in [Ids -> SUBSET (0 .. MaxWrites)]
    BY <1>5, <2>2 DEF clearScopeHangs, Unanswered, Removed, TypeOK
  <2>4. hot' \in Tier /\ process' = "hung"
    BY <1>5, <2>1 DEF clearScopeHangs
  <2> QED BY <1>5, <2>3, <2>4 DEF clearScopeHangs, Unanswered, TypeOK
<1>6. ASSUME Search PROVE TypeOK'
  <2>1. PICK W \in SUBSET Present(warm), C \in SUBSET Present(cold) :
          search(W, C) \/ searchThrows(W, C) \/ searchDies(C)
    BY <1>6 DEF Search
  <2>2. HotAfterSearch(W, C) \in Tier /\ WarmAfterSearch(C) \in Tier
    BY SearchTiers
  <2>3. CASE search(W, C)
    BY <2>2, <2>3 DEF search, user, TypeOK
  <2>4. CASE searchThrows(W, C)
    BY <2>2, <2>4, MemoryAssumption DEF searchThrows, Fault, user, TypeOK
  <2>5. CASE searchDies(C)
    BY <2>2, <2>5, EmptyTierType, MemoryAssumption DEF searchDies, Fault, Down, user, TypeOK
  <2> QED BY <2>1, <2>3, <2>4, <2>5
<1>7. ASSUME Stop PROVE TypeOK'
  BY <1>7, EmptyTierType DEF Stop, Down, user, TypeOK
<1>8. ASSUME Restart PROVE TypeOK'
  BY <1>8 DEF Restart, user, TypeOK
<1>9. CASE UNCHANGED vars
  BY <1>9 DEF vars, tiers, user, TypeOK
<1> QED
  BY <1>1, <1>2, <1>3, <1>4, <1>5, <1>6, <1>7, <1>8, <1>9, Removals DEF Next

\* Every reachable state is well typed; in particular what is loaded from the
\* archive is never a corrupt one.
THEOREM MemoryTypeCorrect == Spec => []TypeOK
BY TypeInit, TypeStep, PTL DEF Spec

-----------------------------------------------------------------------------
(* Reads are never stale. The assumptions are that persist never throws    *)
(* and that retainHotMs keeps its value: without either it does not hold.  *)

\* What a read of an id may return when there is a warm store.
Allowed(id) == {acked[id]} \cup tried[id]

\* Every copy, wherever it is, is one a read may return, and the warm store,
\* when there is one, has them all.
CopiesAllowed ==
  \A id \in Ids :
    /\ hot[id] # Absent => hot[id] \in Allowed(id)
    /\ cold[id] # Absent => cold[id] \in Allowed(id)
    /\ (archive # Corrupt /\ archive[id] # Absent) => archive[id] \in Allowed(id)
    /\ config.warm => warm[id] \in Allowed(id)
    /\ ~ config.warm => warm[id] = Absent

\* The archive is what recordsById holds while the process is up, so that a
\* removal that finds nothing there has nothing to remove; and without
\* write-through there is nothing in either.
ArchiveInStep ==
  /\ process # "down" => archive = cold
  /\ ~ config.writeThrough => archive = EmptyTier /\ cold = EmptyTier

IInv == TypeOK /\ CopiesAllowed /\ ArchiveInStep

\* A change is sound when each copy it leaves is its own value, for the ids it
\* is about, and an allowed one for the others.
After(change, id) == IF id \in change.ids THEN {change.value} ELSE Allowed(id)

SoundCopies(change) ==
  \A id \in Ids :
    /\ change.hot[id] # Absent => change.hot[id] \in After(change, id)
    /\ change.cold[id] # Absent => change.cold[id] \in After(change, id)
    /\ config.warm => change.warm[id] \in After(change, id)
    /\ ~ config.warm => change.warm[id] = Absent

SoundArchive(change) ==
  /\ ~ change.persists => change.cold = cold
  /\ ~ config.writeThrough => ~ change.persists

LEMMA UpsertedSound ==
  ASSUME IInv, NEW id \in Ids, NEW value \in 0 .. MaxWrites, NEW at
  PROVE  SoundCopies(Upserted(id, value, at)) /\ SoundArchive(Upserted(id, value, at))
<1> DEFINE change == Upserted(id, value, at)
           put(tier) == [tier EXCEPT ![id] = value]
<1>1. /\ change.ids = {id} /\ change.value = value
      /\ change.hot = put(hot)
      /\ change.warm = (IF config.warm THEN put(warm) ELSE warm)
      /\ change.cold = (IF config.writeThrough THEN enforceCapacity(put(cold), at) ELSE cold)
      /\ change.persists = config.writeThrough
  BY DEF Upserted, hotUpsert, warmUpsert, coldUpsert
<1>2. \A d \in Ids :
        /\ put(hot)[d] = (IF d = id THEN value ELSE hot[d])
        /\ put(warm)[d] = (IF d = id THEN value ELSE warm[d])
        /\ enforceCapacity(put(cold), at)[d]
             \in {IF d = id THEN value ELSE cold[d], Absent}
  <2>1. hot \in Tier /\ warm \in Tier /\ cold \in Tier
    BY DEF IInv, TypeOK
  <2>2. \A tier \in Tier :
          /\ put(tier) \in Tier
          /\ \A d \in Ids : put(tier)[d] = IF d = id THEN value ELSE tier[d]
    BY PutEntry
  <2> HIDE DEF put
  <2>3. \A d \in Ids : enforceCapacity(put(cold), at)[d] \in {put(cold)[d], Absent}
    BY <2>1, <2>2, CapacityEntries
  <2> QED BY <2>1, <2>2, <2>3
<1>3. ~ config.writeThrough => cold[id] = Absent
  BY EmptyTierType DEF IInv, ArchiveInStep
<1> HIDE DEF change, put
<1>4. SoundCopies(change)
  <2> SUFFICES ASSUME NEW d \in Ids
      PROVE  /\ change.hot[d] # Absent => change.hot[d] \in After(change, d)
             /\ change.cold[d] # Absent => change.cold[d] \in After(change, d)
             /\ config.warm => change.warm[d] \in After(change, d)
             /\ ~ config.warm => change.warm[d] = Absent
    BY DEF SoundCopies
  <2>1. CASE d = id
    BY <1>1, <1>2, <1>3, <2>1 DEF After, IInv, CopiesAllowed
  <2>2. CASE d # id
    BY <1>1, <1>2, <2>2 DEF After, IInv, CopiesAllowed
  <2> QED BY <2>1, <2>2
<1>5. SoundArchive(change)
  BY <1>1 DEF SoundArchive
<1> QED BY <1>4, <1>5 DEF change

LEMMA RemovedSound ==
  ASSUME IInv, NEW S \in SUBSET Ids
  PROVE  SoundCopies(Removed(S)) /\ SoundArchive(Removed(S))
<1> DEFINE change == Removed(S)
<1>1. /\ change.ids = S /\ change.value = Absent
      /\ change.hot = Without(hot, S)
      /\ change.warm = Without(warm, S)
      /\ change.cold = Without(cold, S)
      /\ change.persists <=> Present(cold) \cap S # {}
  BY DEF Removed, hotRemove, warmRemove, coldRemove
<1>2. \A d \in Ids :
        /\ Without(hot, S)[d] = (IF d \in S THEN Absent ELSE hot[d])
        /\ Without(warm, S)[d] = (IF d \in S THEN Absent ELSE warm[d])
        /\ Without(cold, S)[d] = (IF d \in S THEN Absent ELSE cold[d])
  BY WithoutEntries DEF IInv, TypeOK
<1>3. ~ change.persists => Without(cold, S) = cold
  <2> SUFFICES ASSUME ~ change.persists PROVE Without(cold, S) = cold
    OBVIOUS
  <2>1. \A d \in Ids : Without(cold, S)[d] = cold[d]
    BY <1>1, <1>2 DEF Present
  <2>2. Without(cold, S) \in Tier /\ cold \in Tier
    BY WithoutEntries DEF IInv, TypeOK
  <2> QED BY <2>1, <2>2 DEF Tier
<1>4. ~ config.writeThrough => Present(cold) = {}
  BY EmptyTierType DEF IInv, ArchiveInStep, Present
<1> HIDE DEF change
<1>5. SoundCopies(change)
  BY <1>1, <1>2 DEF SoundCopies, After, IInv, CopiesAllowed
<1>6. SoundArchive(change)
  BY <1>1, <1>3, <1>4 DEF SoundArchive
<1> QED BY <1>5, <1>6 DEF change

\* However a sound change ends, the copies it leaves are allowed.
LEMMA PerformSound ==
  ASSUME "cold" \notin FaultKinds,
         IInv, process = "up", NEW change \in Change, Perform(change),
         SoundCopies(change), SoundArchive(change)
  PROVE  CopiesAllowed' /\ ArchiveInStep'
<1>1. /\ change.ids \subseteq Ids
      /\ change.hot \in Tier /\ change.warm \in Tier /\ change.cold \in Tier
      /\ change.persists \in BOOLEAN
  BY DEF Change
<1>2. archive = cold /\ (~ config.writeThrough => cold = EmptyTier)
  BY DEF IInv, ArchiveInStep
<1>3. Corrupt \notin Tier
  BY MemoryAssumption
<1>4. ASSUME Unanswered(change)
      PROVE  /\ config' = config
             /\ \A id \in Ids : Allowed(id)' =
                  Allowed(id) \cup (IF id \in change.ids THEN {change.value} ELSE {})
  BY <1>4 DEF Unanswered, Allowed
<1>5. CASE Returns(change)
  <2>1. \A id \in Ids : Allowed(id)' = After(change, id)
    BY <1>5 DEF Returns, Allowed, After
  <2>2. /\ hot' = change.hot /\ warm' = change.warm /\ cold' = change.cold
        /\ archive' = change.cold
        /\ config' = config /\ process' = process
    BY <1>2, <1>5 DEF Returns, SoundArchive
  <2>3. CopiesAllowed'
    BY <2>1, <2>2 DEF SoundCopies, CopiesAllowed
  <2> QED BY <1>2, <2>2, <2>3 DEF ArchiveInStep, SoundArchive
<1>6. CASE WarmThrows(change)
  <2>1. /\ hot' = change.hot /\ warm' = warm /\ cold' = cold /\ archive' = archive
        /\ process' = process /\ Unanswered(change)
    BY <1>6 DEF WarmThrows
  <2>2. CopiesAllowed'
    BY <1>4, <2>1 DEF SoundCopies, After, IInv, CopiesAllowed
  <2> QED BY <1>2, <1>4, <2>1, <2>2 DEF ArchiveInStep
<1>7. CASE ColdThrows(change)
  BY <1>7 DEF ColdThrows, Fault
<1>8. CASE Dies(change)
  <2>1. /\ hot' = EmptyTier /\ cold' = EmptyTier /\ process' = "down"
        /\ warm' \in {warm, change.warm} /\ Unanswered(change)
    BY <1>8 DEF Dies, Down
  <2>2. \/ archive' = archive
        \/ archive' = Corrupt
        \/ \E S \in SUBSET Ids : archive' = Without(change.cold, S)
        \/ archive' = change.cold
    BY <1>8 DEF Dies, BrokenArchive
  <2>3. ~ config.writeThrough => archive' = archive
    BY <1>8 DEF Dies, SoundArchive
  <2>4. \A id \in Ids : (archive' # Corrupt /\ archive'[id] # Absent) =>
          archive'[id] \in {cold[id], change.cold[id]}
    BY <1>1, <1>2, <2>2, WithoutEntries
  <2>5. CopiesAllowed'
    BY <1>2, <1>3, <1>4, <2>1, <2>4, EmptyTierType
       DEF SoundCopies, After, IInv, CopiesAllowed
  <2> QED BY <1>2, <1>4, <2>1, <2>3, <2>5 DEF ArchiveInStep
<1> QED BY <1>5, <1>6, <1>7, <1>8 DEF Perform

-----------------------------------------------------------------------------
(* The steps.                                                              *)

LEMMA IInvInit == Init => IInv
<1> SUFFICES ASSUME Init PROVE IInv
  OBVIOUS
<1>1. CopiesAllowed
  BY EmptyTierType DEF Init, CopiesAllowed, Allowed
<1>2. ArchiveInStep
  BY DEF Init, ArchiveInStep
<1> QED BY <1>1, <1>2, TypeInit DEF IInv

\* A step that leaves what reads may return as it is, and copies nothing but
\* what is already there.
LEMMA PromotionSound ==
  ASSUME IInv, TypeOK',
         UNCHANGED <<config, acked, tried>>,
         \A id \in Ids : hot'[id] \in {hot[id], cold[id], Absent}
                           \cup (IF warm[id] # Absent THEN {warm[id]} ELSE {}),
         \A id \in Ids : warm'[id] = warm[id] \/ (config.warm /\ cold[id] # Absent
                                                     /\ warm'[id] = cold[id]),
         \A id \in Ids : cold'[id] \in {cold[id], Absent}
                           \cup (IF archive # Corrupt THEN {archive[id]} ELSE {}),
         archive' # Corrupt =>
           \A id \in Ids : archive'[id] \in {cold[id], Absent}
                             \cup (IF archive # Corrupt THEN {archive[id]} ELSE {})
  PROVE  CopiesAllowed'
<1>1. \A id \in Ids : Allowed(id)' = Allowed(id)
  BY DEF Allowed
<1> SUFFICES ASSUME NEW id \in Ids
    PROVE  /\ hot'[id] # Absent => hot'[id] \in Allowed(id)
           /\ cold'[id] # Absent => cold'[id] \in Allowed(id)
           /\ (archive' # Corrupt /\ archive'[id] # Absent)
                => archive'[id] \in Allowed(id)
           /\ config.warm => warm'[id] \in Allowed(id)
           /\ ~ config.warm => warm'[id] = Absent
  BY <1>1 DEF CopiesAllowed
<1>2. /\ hot[id] # Absent => hot[id] \in Allowed(id)
      /\ cold[id] # Absent => cold[id] \in Allowed(id)
      /\ (archive # Corrupt /\ archive[id] # Absent) => archive[id] \in Allowed(id)
      /\ config.warm => warm[id] \in Allowed(id)
      /\ ~ config.warm => warm[id] = Absent
  BY DEF IInv, CopiesAllowed
<1> QED BY <1>2

LEMMA IInvStep ==
  ASSUME PolicyChanges = FALSE, "cold" \notin FaultKinds, IInv, [Next]_vars
  PROVE  IInv'
<1>1. TypeOK'
  BY TypeStep DEF IInv
<1>2. TypeOK
  BY DEF IInv
<1>3. process # "down" => archive = cold
  BY DEF IInv, ArchiveInStep
<1>4. archive # Corrupt => archive \in Tier
  BY <1>2 DEF TypeOK
<1>5. ASSUME NEW id \in Ids, upsert(id) PROVE IInv'
  BY <1>1, <1>2, <1>5, UpsertChange, UpsertedSound, PerformSound DEF IInv
<1>6. ASSUME RemovalStep PROVE IInv'
  BY <1>1, <1>2, <1>6, RemovedType, RemovedSound, PerformSound DEF RemovalStep, IInv
<1>7. ASSUME NEW id \in Ids, Get(id) PROVE IInv'
  <2>1. \A v : /\ \A d \in Ids : [hot EXCEPT ![id] = v][d] \in {hot[d], IF d = id THEN v ELSE hot[d]}
               /\ \A d \in Ids : [warm EXCEPT ![id] = v][d] = IF d = id THEN v ELSE warm[d]
    BY <1>2 DEF TypeOK, Tier
  <2>2. CASE getWarm(id)
    <3>1. CopiesAllowed'
      BY <1>1, <2>1, <2>2, PromotionSound DEF getWarm, hotUpsert, user
    <3> QED BY <1>1, <2>2, <3>1 DEF getWarm, hotUpsert, IInv, ArchiveInStep
  <2>3. CASE getCold(id)
    <3>1. CopiesAllowed'
      BY <1>1, <2>1, <2>3, PromotionSound DEF getCold, hotUpsert, warmUpsert, ColdHit, user
    <3> QED BY <1>1, <1>3, <2>3, <3>1 DEF getCold, hotUpsert, warmUpsert, ColdHit, IInv, ArchiveInStep
  <2>4. CASE getColdThrows(id)
    <3>1. archive' = cold
      BY <2>4 DEF getColdThrows, Fault
    <3>2. CopiesAllowed'
      BY <1>1, <2>4, <3>1, PromotionSound DEF getColdThrows, user
    <3> QED BY <1>1, <1>3, <2>4, <3>1, <3>2 DEF getColdThrows, ColdHit, IInv, ArchiveInStep
  <2>5. CASE getColdDies(id)
    <3>1. process = "up" /\ config' = config /\ process' = "down"
          /\ hot' = EmptyTier /\ cold' = EmptyTier
          /\ UNCHANGED <<warm, acked, tried>>
      BY <2>5 DEF getColdDies, ColdHit, Down, user
    <3>2. archive' = cold \/ archive' = Corrupt
            \/ \E S \in SUBSET Ids : archive' = Without(cold, S)
      BY <1>3, <2>5, <3>1 DEF getColdDies, BrokenArchive
    <3>3. \A S : \A d \in Ids : Without(cold, S)[d] \in {cold[d], Absent}
      BY <1>2, WithoutEntries DEF TypeOK
    <3>4. CopiesAllowed'
      BY <1>1, <3>1, <3>2, <3>3, EmptyTierType, PromotionSound
    <3>5. config.writeThrough
      BY <2>5, EmptyTierType DEF getColdDies, ColdHit, IInv, ArchiveInStep
    <3> QED BY <1>1, <3>1, <3>4, <3>5 DEF IInv, ArchiveInStep
  <2> QED BY <1>7, <2>2, <2>3, <2>4, <2>5 DEF Get
<1>8. ASSUME NEW id \in Ids, Forget(id) PROVE IInv'
  <2>1. \A d \in Ids : [hot EXCEPT ![id] = Absent][d] \in {hot[d], Absent}
    BY <1>2 DEF TypeOK, Tier
  <2>2. CopiesAllowed'
    BY <1>1, <1>8, <2>1, PromotionSound DEF Forget, user
  <2> QED BY <1>1, <1>8, <2>2 DEF Forget, IInv, ArchiveInStep
<1>9. ASSUME NEW scope \in Scopes, clearScopeHangs(scope) PROVE IInv'
  <2>1. PICK S \in SUBSET InScope(scope) : hot' = Without(hot, S)
    BY <1>9 DEF clearScopeHangs
  <2>2. \A d \in Ids : hot'[d] = IF d \in S THEN Absent ELSE hot[d]
    BY <1>2, <2>1, WithoutEntries DEF TypeOK
  <2>3. /\ UNCHANGED <<config, acked, warm, cold, archive>>
        /\ process = "up" /\ process' = "hung"
        /\ \A d \in Ids : tried[d] \subseteq tried'[d]
    BY <1>9 DEF clearScopeHangs, Unanswered
  <2>4. CopiesAllowed'
    BY <2>2, <2>3 DEF IInv, CopiesAllowed, Allowed
  <2> QED BY <1>1, <1>3, <2>3, <2>4 DEF IInv, ArchiveInStep
<1>10. ASSUME Search PROVE IInv'
  <2>1. PICK W \in SUBSET Present(warm), C \in SUBSET Present(cold) :
          search(W, C) \/ searchThrows(W, C) \/ searchDies(C)
    BY <1>10 DEF Search
  <2>2. /\ \A d \in Ids : HotAfterSearch(W, C)[d] \in {hot[d], cold[d], Absent}
                            \cup (IF warm[d] # Absent THEN {warm[d]} ELSE {})
        /\ \A d \in Ids : WarmAfterSearch(C)[d] = warm[d]
                            \/ (config.warm /\ cold[d] # Absent
                                  /\ WarmAfterSearch(C)[d] = cold[d])
    BY <1>2, SearchTiers DEF Present
  <2>3. CASE search(W, C) \/ searchThrows(W, C)
    <3>1. /\ hot' = HotAfterSearch(W, C) /\ warm' = WarmAfterSearch(C)
          /\ UNCHANGED <<config, process, cold, archive, acked, tried>>
      BY <2>3 DEF search, searchThrows, user
    <3>2. CopiesAllowed'
      BY <1>1, <2>2, <3>1, PromotionSound
    <3> QED BY <1>1, <3>1, <3>2 DEF IInv, ArchiveInStep
  <2>4. CASE searchDies(C)
    <3>1. /\ hot' = EmptyTier /\ cold' = EmptyTier /\ process' = "down"
          /\ warm' = WarmAfterSearch(C)
          /\ UNCHANGED <<config, archive, acked, tried>>
      BY <2>4 DEF searchDies, Down, user
    <3>2. CopiesAllowed'
      BY <1>1, <2>2, <3>1, EmptyTierType, PromotionSound
    <3> QED BY <1>1, <3>1, <3>2 DEF IInv, ArchiveInStep
  <2> QED BY <2>1, <2>3, <2>4
<1>11. ASSUME Stop PROVE IInv'
  <2>1. CopiesAllowed'
    BY <1>1, <1>11, EmptyTierType, PromotionSound DEF Stop, Down, user
  <2> QED BY <1>1, <1>11, <2>1 DEF Stop, Down, IInv, ArchiveInStep
<1>12. ASSUME Restart PROVE IInv'
  <2>1. /\ archive # Corrupt /\ cold' = archive /\ process' = "up"
        /\ UNCHANGED <<config, hot, warm, archive, acked, tried>>
    BY <1>12 DEF Restart, user
  <2>2. CopiesAllowed'
    BY <1>1, <2>1, PromotionSound
  <2> QED BY <1>1, <2>1, <2>2 DEF IInv, ArchiveInStep
<1>13. CASE UNCHANGED vars
  BY <1>13 DEF vars, tiers, user, IInv, TypeOK, CopiesAllowed, ArchiveInStep, Allowed
<1> QED
  BY <1>5, <1>6, <1>7, <1>8, <1>9, <1>10, <1>11, <1>12, <1>13, Removals DEF Next

\* When the archive never throws and retainHotMs keeps its value, no read is
\* ever stale: not after promotions, expiry, crashes in the middle of an
\* operation, or a warm store that throws.
THEOREM ReadsAreNeverStale ==
  ASSUME PolicyChanges = FALSE, "cold" \notin FaultKinds
  PROVE  Spec => []NeverStale
<1>1. IInv => NeverStale
  <2> SUFFICES ASSUME IInv, NEW id \in Ids
      PROVE  Visible(id) \in Allowed(id) \cup (IF config.warm THEN {} ELSE {Absent})
    BY DEF NeverStale, Allowed
  <2> QED BY DEF IInv, CopiesAllowed, Visible, Absent
<1>2. Spec => []IInv
  BY IInvInit, IInvStep, PTL DEF Spec
<1> QED BY <1>1, <1>2, PTL

-----------------------------------------------------------------------------
(* The newest entries are never forgotten. The assumption is that          *)
(* retainHotMs keeps its value: an archive that was not written for a while *)
(* does not hold them.                                                     *)

\* Every copy is the acknowledged value, of which no two are the same and none
\* is later than the last write; and the archive, which is what recordsById
\* holds while there is a process, has all with fewer than ColdLimit rivals.
\* What outranks a record is the value of one of its rivals, and no two have
\* the same: enforceCapacity never drops one with so few.
Kept ==
  /\ archive # Corrupt
  /\ process # "down" => cold = archive
  /\ \A id \in Ids :
       /\ {hot[id], warm[id], archive[id]} \subseteq {acked[id], Absent}
       /\ ~ config.warm => warm[id] = Absent
       /\ acked[id] <= writes
       /\ (acked[id] # Absent /\ Cardinality(Rivals(acked[id], times)) < ColdLimit)
            => archive[id] = acked[id]
       /\ \A d \in Ids : acked[id] = acked[d] => d = id \/ acked[id] = Absent

WritesThrough == config.writeThrough /\ faults = 0

RecentKept == TypeOK /\ (WritesThrough => Kept)

\* With distinct values, each the number of a write, enforceCapacity keeps a
\* record that has fewer rivals than there is room.
LEMMA YoungestStay ==
  ASSUME NEW tier \in Tier, NEW at \in Seq(Times), NEW id \in Ids, tier[id] # Absent,
         \A d \in Ids : tier[d] <= Len(at),
         \A d, e \in Ids : tier[d] = tier[e] => d = e \/ tier[d] = Absent,
         Cardinality(Rivals(tier[id], at)) < ColdLimit
  PROVE  enforceCapacity(tier, at)[id] = tier[id]
<1> DEFINE rivals == Rivals(tier[id], at)
           younger == {d \in Present(tier) : Outranks(tier, at, d, id)}
           f == [d \in younger |-> tier[d]]
<1>1. /\ \A d \in Ids : tier[d] \in Nat /\ IdOrder[d] \in Nat
      /\ ColdLimit \in Nat /\ Len(at) \in Nat
  BY MemoryAssumption DEF Tier
<1>9. \A m \in 1 .. Len(at) : at[m] \in Nat
  <2>1. \A m \in 1 .. Len(at) : at[m] \in Times
    OBVIOUS
  <2> QED BY <2>1, MemoryAssumption
<1>10. Cardinality(rivals) < ColdLimit
  OBVIOUS
<1>2. \A d \in Present(tier) : d \in Ids /\ tier[d] \in 1 .. Len(at)
  BY <1>1 DEF Present, Absent
<1>3. ASSUME NEW d \in younger PROVE tier[d] \in rivals
  <2>1. d \in Present(tier) /\ id \in Present(tier) /\ Outranks(tier, at, d, id)
    BY DEF Present
  <2>2. d # id
    BY <1>1, <1>2, <1>9, <2>1 DEF Outranks
  <2>3. tier[d] # tier[id]
    BY <2>1, <2>2 DEF Present
  <2>4. at[tier[d]] >= at[tier[id]]
    BY <1>1, <1>2, <1>9, <2>1 DEF Outranks
  <2> QED BY <1>2, <2>1, <2>3, <2>4 DEF Rivals
<1>4. f \in Injection(younger, rivals)
  BY <1>3 DEF Injection, IsInjective, Present
<1>5. IsFiniteSet(rivals)
  <2>1. IsFiniteSet(1 .. Len(at))
    BY <1>1, FS_Interval
  <2> QED BY <2>1, FS_Subset DEF Rivals
<1> HIDE DEF f, rivals
<1>6. Cardinality(younger) <= Cardinality(rivals) /\ IsFiniteSet(younger)
  BY <1>4, <1>5, FS_Injection
<1>7. Cardinality(younger) \in Nat /\ Cardinality(rivals) \in Nat
  BY <1>5, <1>6, FS_CardinalityType
<1>8. Cardinality(younger) < ColdLimit
  BY <1>1, <1>6, <1>7, <1>10
<1> QED BY <1>8 DEF enforceCapacity

\* A write only ever gets more rivals.
LEMMA RivalsGrow ==
  ASSUME NEW at \in Seq(Times), NEW now, NEW n \in 1 .. Len(at),
         Cardinality(Rivals(n, Append(at, now))) < ColdLimit
  PROVE  Cardinality(Rivals(n, at)) < ColdLimit
<1> DEFINE more == Rivals(n, Append(at, now))
<1>1. Len(at) \in Nat /\ ColdLimit \in Nat
  BY MemoryAssumption
<1>2. Rivals(n, at) \subseteq more
  BY <1>1 DEF Rivals
<1>3. IsFiniteSet(more)
  <2>1. IsFiniteSet(1 .. Len(at) + 1)
    BY <1>1, FS_Interval
  <2> QED BY <2>1, FS_Subset DEF Rivals
<1>4. Cardinality(Rivals(n, at)) <= Cardinality(more) /\ IsFiniteSet(Rivals(n, at))
  BY <1>2, <1>3, FS_Subset
<1>5. Cardinality(Rivals(n, at)) \in Nat /\ Cardinality(more) \in Nat
  BY <1>3, <1>4, FS_CardinalityType
<1> QED BY <1>1, <1>4, <1>5

LEMMA UpsertKeeps ==
  ASSUME TypeOK, TypeOK', Kept, process = "up", config.writeThrough,
         NEW id \in Ids, writes + 1 \in 0 .. MaxWrites, writes' = writes + 1,
         NEW now, times' = Append(times, now),
         Returns(Upserted(id, writes + 1, times'))
  PROVE  Kept'
<1> DEFINE value == writes + 1
           put == [cold EXCEPT ![id] = value]
<1>1. /\ hot' = [hot EXCEPT ![id] = value]
      /\ warm' = (IF config.warm THEN [warm EXCEPT ![id] = value] ELSE warm)
      /\ cold' = enforceCapacity(put, times')
      /\ archive' = enforceCapacity(put, times')
      /\ acked' = [d \in Ids |-> IF d = id THEN value ELSE acked[d]]
  BY DEF Returns, Upserted, hotUpsert, warmUpsert, coldUpsert
<1>2. /\ put \in Tier
      /\ \A d \in Ids : put[d] = IF d = id THEN value ELSE cold[d]
  BY PutEntry DEF TypeOK
<1>3. cold = archive
  BY DEF Kept
<1>4. /\ writes \in Nat /\ value \in Nat /\ value > writes
      /\ \A d \in Ids : acked[d] \in Nat /\ cold[d] \in Nat
      /\ times' \in Seq(Times) /\ Len(times') = value
  BY MemoryAssumption DEF TypeOK, Tier
<1>5. \A d \in Ids : acked'[d] = IF d = id THEN value ELSE acked[d]
  BY <1>1
<1>6. \A d \in Ids : acked'[d] <= value
                     /\ \A e \in Ids : acked'[d] = acked'[e] => e = d \/ acked'[d] = Absent
  BY <1>4, <1>5 DEF Kept
<1>7. \A d \in Ids : put[d] \in {acked'[d], Absent}
  BY <1>2, <1>3, <1>5 DEF Kept
<1>8. ASSUME NEW d \in Ids, acked'[d] # Absent, Cardinality(Rivals(acked'[d], times')) < ColdLimit
      PROVE  put[d] = acked'[d]
  <2>1. CASE d = id
    BY <1>2, <1>5, <2>1
  <2>2. CASE d # id
    <3>1. acked'[d] = acked[d] /\ acked[d] \in 1 .. writes
      BY <1>4, <1>5, <1>8, <2>2 DEF Kept, Absent
    <3>2. times \in Seq(Times) /\ Len(times) = writes
      BY DEF TypeOK
    <3>3. Cardinality(Rivals(acked[d], times)) < ColdLimit
      BY <1>8, <3>1, <3>2, RivalsGrow
    <3> QED BY <1>2, <1>3, <1>8, <2>2, <3>1, <3>3 DEF Kept
  <2> QED BY <2>1, <2>2
<1>9. \A d \in Ids : put[d] <= value
  BY <1>4, <1>6, <1>7 DEF Absent
<1>10. \A d, e \in Ids : put[d] = put[e] => d = e \/ put[d] = Absent
  BY <1>6, <1>7
<1>11. /\ enforceCapacity(put, times') \in Tier
       /\ \A d \in Ids : enforceCapacity(put, times')[d] \in {put[d], Absent}
  BY <1>2, CapacityEntries
<1>12. ASSUME NEW d \in Ids, acked'[d] # Absent, Cardinality(Rivals(acked'[d], times')) < ColdLimit
       PROVE  archive'[d] = acked'[d]
  <2>1. put[d] = acked'[d] /\ put[d] # Absent
    BY <1>8, <1>12
  <2>2. Cardinality(Rivals(put[d], times')) < ColdLimit
    BY <1>12, <2>1
  <2> HIDE DEF put, value
  <2>3. enforceCapacity(put, times')[d] = put[d]
    BY <1>2, <1>4, <1>9, <1>10, <1>12, <2>1, <2>2, YoungestStay
  <2> QED BY <1>1, <2>1, <2>3
<1>13. \A d \in Ids : /\ {hot'[d], warm'[d]} \subseteq {acked'[d], Absent}
                      /\ ~ config'.warm => warm'[d] = Absent
  <2>1. \A d \in Ids :
          /\ hot'[d] = IF d = id THEN value ELSE hot[d]
          /\ warm'[d] = IF config.warm /\ d = id THEN value ELSE warm[d]
    BY <1>1 DEF TypeOK, Tier
  <2>2. config' = config
    BY DEF Returns
  <2> QED BY <1>5, <2>1, <2>2 DEF Kept
<1>14. archive' # Corrupt
  BY <1>1, <1>11, MemoryAssumption
<1> HIDE DEF put, value
<1>15. \A d \in Ids : archive'[d] \in {acked'[d], Absent}
  BY <1>1, <1>7, <1>11
<1>16. cold' = archive'
  BY <1>1
<1> QED BY <1>6, <1>12, <1>13, <1>14, <1>15, <1>16 DEF Kept, value

LEMMA RemovalKeeps ==
  ASSUME TypeOK, Kept, process = "up", NEW S \in SUBSET Ids,
         writes' = writes, times' = times, Returns(Removed(S))
  PROVE  Kept'
<1>1. /\ hot' = Without(hot, S)
      /\ warm' = Without(warm, S)
      /\ cold' = Without(cold, S)
      /\ archive' = IF Present(cold) \cap S # {} THEN Without(cold, S) ELSE archive
      /\ acked' = [d \in Ids |-> IF d \in S THEN Absent ELSE acked[d]]
      /\ config' = config
  BY DEF Returns, Removed, hotRemove, warmRemove, coldRemove
<1>2. \A d \in Ids :
        /\ Without(hot, S)[d] = (IF d \in S THEN Absent ELSE hot[d])
        /\ Without(warm, S)[d] = (IF d \in S THEN Absent ELSE warm[d])
        /\ Without(cold, S)[d] = (IF d \in S THEN Absent ELSE cold[d])
  BY WithoutEntries DEF TypeOK
<1>3. cold = archive
  BY DEF Kept
<1>4. archive' = Without(cold, S)
  <2>1. ASSUME Present(cold) \cap S = {} PROVE Without(cold, S) = cold
    <3>1. \A d \in Ids : Without(cold, S)[d] = cold[d]
      BY <1>2, <2>1 DEF Present
    <3>2. Without(cold, S) \in Tier /\ cold \in Tier
      BY WithoutEntries DEF TypeOK
    <3> QED BY <3>1, <3>2 DEF Tier
  <2> QED BY <1>1, <1>3, <2>1
<1>5. archive' # Corrupt
  BY <1>4, WithoutEntries, MemoryAssumption DEF TypeOK
<1>6. \A d \in Ids : /\ acked'[d] = IF d \in S THEN Absent ELSE acked[d]
                     /\ archive'[d] = IF d \in S THEN Absent ELSE archive[d]
                     /\ hot'[d] = IF d \in S THEN Absent ELSE hot[d]
                     /\ warm'[d] = IF d \in S THEN Absent ELSE warm[d]
  BY <1>1, <1>2, <1>3, <1>4
<1>7. writes \in Nat
  BY DEF TypeOK
<1> QED BY <1>1, <1>4, <1>5, <1>6, <1>7 DEF Kept, Absent

\* A step that acknowledges nothing, leaves the archive as it is, and copies
\* nothing but what is already there.
LEMMA CopyKeeps ==
  ASSUME Kept, UNCHANGED <<config, archive, acked, writes, times>>,
         process' # "down" => cold' = archive,
         \A id \in Ids : /\ hot'[id] \in {hot[id], warm[id], archive[id], Absent}
                         /\ \/ warm'[id] = warm[id]
                            \/ config.warm /\ warm'[id] = archive[id]
  PROVE  Kept'
BY DEF Kept

\* An operation that writes and has met no fault has returned.
LEMMA FaultlessReturns ==
  ASSUME TypeOK, NEW change, Perform(change), faults' = 0
  PROVE  Returns(change) /\ faults = 0
<1>1. ASSUME NEW kind, Fault(kind) PROVE FALSE
  BY <1>1 DEF Fault, TypeOK
<1> QED BY <1>1 DEF Perform, Returns, WarmThrows, ColdThrows, Dies

LEMMA RecentInit == Init => RecentKept
<1> SUFFICES ASSUME Init PROVE RecentKept
  OBVIOUS
<1>1. EmptyTier # Corrupt
  BY EmptyTierType, MemoryAssumption
<1> QED BY <1>1, EmptyTierType, TypeInit DEF Init, RecentKept, Kept, Absent

LEMMA RecentStep ==
  ASSUME PolicyChanges = FALSE, RecentKept, [Next]_vars
  PROVE  RecentKept'
<1>1. TypeOK /\ TypeOK'
  BY TypeStep DEF RecentKept
<1>2. config' = config
  <2>1. ASSUME NEW change, Perform(change) PROVE config' = config
    BY <2>1 DEF Perform, Returns, WarmThrows, ColdThrows, Dies, Unanswered
  <2>2. ASSUME NEW id \in Ids, upsert(id) PROVE config' = config
    BY <2>1, <2>2 DEF upsert
  <2>3. ASSUME RemovalStep PROVE config' = config
    BY <2>1, <2>3 DEF RemovalStep
  <2>4. ASSUME NEW id \in Ids, Get(id) PROVE config' = config
    BY <2>4 DEF Get, getWarm, getCold, getColdThrows, getColdDies
  <2>5. ASSUME Search PROVE config' = config
    BY <2>5 DEF Search, search, searchThrows, searchDies
  <2>6. ASSUME NEW scope \in Scopes, clearScopeHangs(scope) PROVE config' = config
    BY <2>6 DEF clearScopeHangs, Unanswered
  <2> QED
    BY <2>2, <2>3, <2>4, <2>5, <2>6, Removals DEF Next, Forget, Stop, Restart, vars
<1> SUFFICES ASSUME WritesThrough' PROVE Kept'
  BY <1>1 DEF RecentKept
<1>3. config.writeThrough /\ faults' = 0
  BY <1>2 DEF WritesThrough
<1>4. ASSUME NEW kind, Fault(kind) PROVE FALSE
  BY <1>1, <1>3, <1>4 DEF Fault, TypeOK
<1>5. ASSUME faults = 0
      PROVE  /\ Kept /\ archive \in Tier
             /\ process # "down" => cold = archive
  BY <1>1, <1>3, <1>5 DEF RecentKept, WritesThrough, Kept, TypeOK
<1>6. ASSUME NEW id \in Ids, upsert(id) PROVE Kept'
  <2>1. /\ process = "up" /\ writes' = writes + 1
        /\ Perform(Upserted(id, writes + 1, times')) /\ writes + 1 \in 0 .. MaxWrites
    BY <1>1, <1>6, UpsertChange DEF upsert
  <2>2. Returns(Upserted(id, writes + 1, times')) /\ faults = 0
    BY <1>1, <1>3, <2>1, FaultlessReturns
  <2>3. PICK now \in Times : times' = Append(times, now)
    BY <1>6 DEF upsert
  <2> QED BY <1>1, <1>3, <1>5, <2>1, <2>2, <2>3, UpsertKeeps
<1>7. ASSUME RemovalStep PROVE Kept'
  <2>1. PICK S \in SUBSET Ids : Perform(Removed(S))
    BY <1>7 DEF RemovalStep
  <2>2. Returns(Removed(S)) /\ faults = 0
    BY <1>1, <1>3, <2>1, FaultlessReturns
  <2> QED BY <1>1, <1>5, <1>7, <2>2, RemovalKeeps DEF RemovalStep
<1>8. ASSUME NEW id \in Ids, Get(id) PROVE Kept'
  <2>1. \A v : \A d \in Ids :
          /\ [hot EXCEPT ![id] = v][d] = IF d = id THEN v ELSE hot[d]
          /\ [warm EXCEPT ![id] = v][d] = IF d = id THEN v ELSE warm[d]
    BY <1>1 DEF TypeOK, Tier
  <2>2. CASE getWarm(id)
    <3>1. /\ hot' = [hot EXCEPT ![id] = warm[id]]
          /\ UNCHANGED <<config, archive, acked, writes, times, warm, cold, process, faults>>
      BY <2>2 DEF getWarm, hotUpsert, user
    <3> QED BY <1>3, <1>5, <2>1, <3>1, CopyKeeps
  <2>3. CASE getCold(id)
    <3>1. /\ hot' = [hot EXCEPT ![id] = cold[id]]
          /\ warm' = IF config.warm THEN [warm EXCEPT ![id] = cold[id]] ELSE warm
          /\ archive' = cold /\ process = "up"
          /\ UNCHANGED <<config, acked, writes, times, cold, process, faults>>
      BY <2>3 DEF getCold, ColdHit, hotUpsert, warmUpsert, user
    <3>2. Kept /\ cold = archive
      BY <1>3, <1>5, <3>1
    <3>3. \A d \in Ids : /\ hot'[d] \in {hot[d], archive[d]}
                         /\ \/ warm'[d] = warm[d]
                            \/ config.warm /\ warm'[d] = archive[d]
      BY <2>1, <3>1, <3>2
    <3> QED BY <3>1, <3>2, <3>3, CopyKeeps
  <2> QED BY <1>4, <1>8, <2>2, <2>3 DEF Get, getColdThrows, getColdDies
<1>9. ASSUME NEW id \in Ids, Forget(id) PROVE Kept'
  <2>1. /\ \A d \in Ids : hot'[d] \in {hot[d], Absent}
        /\ UNCHANGED <<config, archive, acked, writes, times, warm, cold, process, faults>>
    BY <1>1, <1>9 DEF Forget, user, TypeOK, Tier
  <2> QED BY <1>3, <1>5, <2>1, CopyKeeps
<1>10. ASSUME NEW scope \in Scopes, clearScopeHangs(scope) PROVE Kept'
  <2>1. PICK S \in SUBSET InScope(scope) : hot' = Without(hot, S)
    BY <1>10 DEF clearScopeHangs
  <2>2. \A d \in Ids : hot'[d] \in {hot[d], Absent}
    BY <1>1, <2>1, WithoutEntries DEF TypeOK
  <2>3. /\ UNCHANGED <<config, archive, acked, writes, times, warm, cold, faults>>
        /\ process = "up"
    BY <1>10 DEF clearScopeHangs, Unanswered
  <2> QED BY <1>3, <1>5, <2>2, <2>3, CopyKeeps
<1>11. ASSUME Search PROVE Kept'
  <2>1. PICK W \in SUBSET Present(warm), C \in SUBSET Present(cold) :
          search(W, C) \/ searchThrows(W, C) \/ searchDies(C)
    BY <1>11 DEF Search
  <2>2. search(W, C)
    BY <1>4, <2>1 DEF searchThrows, searchDies
  <2>3. /\ hot' = HotAfterSearch(W, C) /\ warm' = WarmAfterSearch(C)
        /\ process = "up"
        /\ UNCHANGED <<config, archive, acked, writes, times, cold, process, faults>>
    BY <2>2 DEF search, Found, user
  <2>4. Kept /\ cold = archive
    BY <1>3, <1>5, <2>3
  <2>5. \A d \in Ids : /\ hot'[d] \in {hot[d], warm[d], archive[d]}
                       /\ \/ warm'[d] = warm[d]
                          \/ config.warm /\ warm'[d] = archive[d]
    BY <1>1, <2>3, <2>4, SearchTiers
  <2> QED BY <2>3, <2>4, <2>5, CopyKeeps
<1>12. ASSUME Stop PROVE Kept'
  <2>1. /\ hot' = EmptyTier /\ process' = "down"
        /\ UNCHANGED <<config, archive, acked, writes, times, warm, faults>>
    BY <1>12 DEF Stop, Down, user
  <2> QED BY <1>3, <1>5, <2>1, EmptyTierType, CopyKeeps
<1>13. ASSUME Restart PROVE Kept'
  <2>1. /\ cold' = archive
        /\ UNCHANGED <<config, archive, acked, writes, times, hot, warm, faults>>
    BY <1>2, <1>13 DEF Restart, user
  <2> QED BY <1>3, <1>5, <2>1, CopyKeeps
<1>14. CASE UNCHANGED vars
  <2>1. UNCHANGED <<config, archive, acked, writes, times, hot, warm, cold, process, faults>>
    BY <1>14 DEF vars, tiers, user
  <2> QED BY <1>3, <1>5, <2>1, CopyKeeps
<1> QED
  BY <1>6, <1>7, <1>8, <1>9, <1>10, <1>11, <1>12, <1>13, <1>14, Removals DEF Next

\* With retainHotMs always 0 and no fault, a read returns every acknowledged
\* value until ColdLimit other writes share its millisecond or have a later
\* one: whatever the cache evicts, however often the process ends or hangs and
\* is restarted, and whatever Date.now gives.
THEOREM RecentWritesSurvive ==
  ASSUME PolicyChanges = FALSE
  PROVE  Spec => []RecentSurvive
<1>1. RecentKept => RecentSurvive
  <2> SUFFICES ASSUME Kept, process # "down", NEW id \in Ids, acked[id] # Absent,
                      Cardinality(Rivals(acked[id], times)) < ColdLimit
      PROVE  Visible(id) = acked[id]
    BY DEF RecentKept, RecentSurvive, WritesThrough
  <2> QED BY DEF Kept, Visible
<1>2. Spec => []RecentKept
  BY RecentInit, RecentStep, PTL DEF Spec
<1> QED BY <1>1, <1>2, PTL

=============================================================================
