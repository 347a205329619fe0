---------------------------- MODULE TieredMemory ----------------------------
(***************************************************************************)
(* TieredMemoryStore (src/memory/manager.ts) over its three tiers: the hot *)
(* LRU cache, the warm SQLite store and the cold JSONL archive, which is   *)
(* held in memory and rewritten as a whole. Reads promote entries to the   *)
(* faster tiers. A tier may throw in the middle of an operation, and the   *)
(* process may die there or between operations.                            *)
(*                                                                         *)
(* An id is a scope, a scope id and a key. A value is the number of the    *)
(* write that made it; Absent stands for no entry. The archive goes by the *)
(* milliseconds of its writes (updatedAt), which need neither differ nor   *)
(* grow. A manager without a cold store behaves as one that never writes   *)
(* to an empty one. The warm store is durable.                             *)
(*                                                                         *)
(* Bounds of the model: MaxWrites writes and MaxFaults faults.             *)
(***************************************************************************)
EXTENDS Integers, Sequences, FiniteSets

CONSTANTS
  Ids,            \* scope + scopeId + key
  Scopes,         \* scope + scopeId
  ScopeOf,        \* the scope of an id
  IdOrder,        \* the place of an id among all by localeCompare
  Times,          \* the milliseconds Date.now may give
  ColdLimit,      \* maxEntries of the archive
  FaultKinds,     \* which of "warm" and "cold" may throw; "crash"
  PolicyChanges,  \* whether retainHotMs may change at a restart
  MaxWrites,
  MaxFaults,
  Corrupt         \* an archive with a line that is not JSON

Absent == 0

Tier == [Ids -> 0 .. MaxWrites]

ASSUME MemoryAssumption ==
  /\ ScopeOf \in [Ids -> Scopes]
  /\ IdOrder \in [Ids -> Nat]
  /\ \A id, d \in Ids : IdOrder[id] = IdOrder[d] => id = d
  /\ Times \subseteq Nat
  /\ Times # {}
  /\ ColdLimit \in Nat \ {0}
  /\ FaultKinds \subseteq {"warm", "cold", "crash"}
  /\ PolicyChanges \in BOOLEAN
  /\ MaxWrites \in Nat
  /\ MaxFaults \in Nat
  /\ Corrupt \notin Tier

VARIABLES
  config,   \* is there a warm store, and is retainHotMs 0
  process,  \* "up", "hung" in an operation that does not end, or "down"
  hot,      \* the cache
  warm,     \* the rows of the warm store
  cold,     \* recordsById
  archive,  \* the archive on disk
  writes,   \* how many writes were begun
  times,    \* the millisecond of each of them
  faults,   \* how many faults there were
  acked,    \* per id, what the last operation that returned left
  tried     \* per id, what operations that did not return since tried to leave

tiers == <<hot, warm, cold, archive>>
user  == <<writes, times, acked, tried>>
vars  == <<config, process, tiers, user, faults>>

TypeOK ==
  /\ config \in [warm : BOOLEAN, writeThrough : BOOLEAN]
  /\ process \in {"up", "hung", "down"}
  /\ hot \in Tier
  /\ warm \in Tier
  /\ cold \in Tier
  /\ archive \in Tier \cup {Corrupt}
  /\ writes \in 0 .. MaxWrites
  /\ times \in Seq(Times)
  /\ Len(times) = writes
  /\ faults \in 0 .. MaxFaults
  /\ acked \in Tier
  /\ tried \in [Ids -> SUBSET (0 .. MaxWrites)]

EmptyTier == [id \in Ids |-> Absent]

Init ==
  /\ config \in [warm : BOOLEAN, writeThrough : BOOLEAN]
  /\ process = "up"
  /\ hot = EmptyTier
  /\ warm = EmptyTier
  /\ cold = EmptyTier
  /\ archive = EmptyTier
  /\ writes = 0
  /\ times = << >>
  /\ faults = 0
  /\ acked = EmptyTier
  /\ tried = [id \in Ids |-> {}]

Present(tier) == {id \in Ids : tier[id] # Absent}

\* A tier with the entries of S written over from another, or removed.
Copied(tier, S, from) == [id \in Ids |-> IF id \in S THEN from[id] ELSE tier[id]]

Without(tier, S) == Copied(tier, S, EmptyTier)

-----------------------------------------------------------------------------
(* Operations that change entries. A change says what becomes of the tiers *)
(* when nothing goes wrong, and whether the archive is written.            *)

\* Whether the record of d is to be dropped after that of id: it is younger, or
\* as old and later in the order of ids.
Outranks(tier, at, d, id) ==
  \/ at[tier[d]] > at[tier[id]]
  \/ at[tier[d]] = at[tier[id]] /\ IdOrder[d] > IdOrder[id]

\* Mutant: the order of the sort is reversed.
enforceCapacity_DropsNewest(tier, at) ==
  LET before(id) == {d \in Present(tier) : Outranks(tier, at, id, d)}
  IN  [id \in Ids |-> IF tier[id] # Absent /\ Cardinality(before(id)) < ColdLimit
                      THEN tier[id] ELSE Absent]

\* Only ColdLimit records stay, those most recently updated; at gives the
\* millisecond of each.
enforceCapacity(tier, at) ==
  LET younger(id) == {d \in Present(tier) : Outranks(tier, at, d, id)}
  IN  [id \in Ids |-> IF tier[id] # Absent /\ Cardinality(younger(id)) < ColdLimit
                      THEN tier[id] ELSE Absent]

hotUpsert(id, value) == [hot EXCEPT ![id] = value]

warmUpsert(id, value) ==
  IF config.warm THEN [warm EXCEPT ![id] = value] ELSE warm

coldUpsert(id, value, at) == enforceCapacity([cold EXCEPT ![id] = value], at)

\* The archive is written only when retainHotMs is 0.
Upserted(id, value, at) ==
  [ids      |-> {id},
   value    |-> value,
   hot      |-> hotUpsert(id, value),
   warm     |-> warmUpsert(id, value),
   cold     |-> IF config.writeThrough THEN coldUpsert(id, value, at) ELSE cold,
   persists |-> config.writeThrough]

hotRemove(S) == Without(hot, S)

warmRemove(S) == Without(warm, S)

coldRemove(S) == Without(cold, S)

\* Mutant: the archive is left alone.
Removed_KeepsCold(S) ==
  [ids      |-> S,
   value    |-> Absent,
   hot      |-> hotRemove(S),
   warm     |-> warmRemove(S),
   cold     |-> cold,
   persists |-> FALSE]

\* delete, clearScope and clearAll. The archive is written only if one of
\* its records is removed.
Removed(S) ==
  [ids      |-> S,
   value    |-> Absent,
   hot      |-> hotRemove(S),
   warm     |-> warmRemove(S),
   cold     |-> coldRemove(S),
   persists |-> Present(cold) \cap S # {}]

\* What an interrupted write of the archive may leave: the old file, some of
\* the new records, or a line cut short.
BrokenArchive(records) ==
  {archive, Corrupt} \cup {Without(records, S) : S \in SUBSET Ids}

Returns(change) ==
  /\ hot' = change.hot
  /\ warm' = change.warm
  /\ cold' = change.cold
  /\ archive' = IF change.persists THEN change.cold ELSE archive
  /\ acked' = [id \in Ids |-> IF id \in change.ids THEN change.value ELSE acked[id]]
  /\ tried' = [id \in Ids |-> IF id \in change.ids THEN {} ELSE tried[id]]
  /\ UNCHANGED <<config, process, faults>>

Fault(kind) ==
  /\ kind \in FaultKinds
  /\ faults < MaxFaults
  /\ faults' = faults + 1

\* The operation does not return: the caller cannot know what it left.
Unanswered(change) ==
  /\ tried' = [id \in Ids |-> IF id \in change.ids
                              THEN tried[id] \cup {change.value} ELSE tried[id]]
  /\ UNCHANGED <<config, acked>>

WarmThrows(change) ==
  /\ Fault("warm")
  /\ config.warm
  /\ hot' = change.hot
  /\ Unanswered(change)
  /\ UNCHANGED <<process, warm, cold, archive>>

\* persist throws when recordsById has already been changed.
ColdThrows(change) ==
  /\ Fault("cold")
  /\ change.persists
  /\ hot' = change.hot
  /\ warm' = change.warm
  /\ cold' = change.cold
  /\ archive' \in BrokenArchive(change.cold)
  /\ Unanswered(change)
  /\ UNCHANGED process

Down ==
  /\ process' = "down"
  /\ hot' = EmptyTier
  /\ cold' = EmptyTier

\* The process dies before or after the warm store, or in the archive.
Dies(change) ==
  /\ Fault("crash")
  /\ Down
  /\ \/ UNCHANGED <<warm, archive>>
     \/ /\ warm' = change.warm
        /\ archive' \in IF change.persists
                        THEN BrokenArchive(change.cold) \cup {change.cold}
                        ELSE {archive}
  /\ Unanswered(change)

Perform(change) ==
  \/ Returns(change)
  \/ WarmThrows(change)
  \/ ColdThrows(change)
  \/ Dies(change)

upsert(id) ==
  /\ process = "up"
  /\ writes < MaxWrites
  /\ writes' = writes + 1
  /\ \E now \in Times : times' = Append(times, now)
  /\ Perform(Upserted(id, writes + 1, times'))

delete(id) ==
  /\ process = "up"
  /\ Perform(Removed({id}))
  /\ UNCHANGED <<writes, times>>

InScope(scope) == {id \in Ids : ScopeOf[id] = scope}

\* HotMemoryStore.clearScope looks every entry up while it walks the cache
\* from the most recent entry to the least recent one, and a look-up makes
\* an entry the most recent one: with two entries of other scopes the walk
\* goes to and fro between them.
WalkEnds(scope) == Cardinality(Present(hot) \ InScope(scope)) <= 1

clearScope(scope) ==
  /\ process = "up"
  /\ WalkEnds(scope)
  /\ Perform(Removed(InScope(scope)))
  /\ UNCHANGED <<writes, times>>

\* The entries met before the walk turns back are gone.
clearScopeHangs(scope) ==
  /\ process = "up"
  /\ ~ WalkEnds(scope)
  /\ process' = "hung"
  /\ \E S \in SUBSET InScope(scope) : hot' = Without(hot, S)
  /\ Unanswered(Removed(InScope(scope)))
  /\ UNCHANGED <<warm, cold, archive, writes, times, faults>>

clearAll ==
  /\ process = "up"
  /\ Perform(Removed(Ids))
  /\ UNCHANGED <<writes, times>>

-----------------------------------------------------------------------------
(* Reads, which promote what they find. A hit in the hot tier changes      *)
(* nothing.                                                                *)

getWarm(id) ==
  /\ process = "up"
  /\ hot[id] = Absent
  /\ warm[id] # Absent
  /\ hot' = hotUpsert(id, warm[id])
  /\ UNCHANGED <<config, process, warm, cold, archive, user, faults>>

ColdHit(id) ==
  /\ process = "up"
  /\ hot[id] = Absent
  /\ warm[id] = Absent
  /\ cold[id] # Absent

\* A hit in the cold tier rewrites the archive, for the access count.
getCold(id) ==
  /\ ColdHit(id)
  /\ archive' = cold
  /\ warm' = warmUpsert(id, cold[id])
  /\ hot' = hotUpsert(id, cold[id])
  /\ UNCHANGED <<config, process, cold, user, faults>>

\* The archive cannot be written, or the warm store throws after it was.
getColdThrows(id) ==
  /\ ColdHit(id)
  /\ \/ Fault("cold") /\ archive' \in BrokenArchive(cold)
     \/ Fault("warm") /\ config.warm /\ archive' = cold
  /\ UNCHANGED <<config, process, hot, warm, cold, user>>

getColdDies(id) ==
  /\ ColdHit(id)
  /\ Fault("crash")
  /\ Down
  /\ archive' \in BrokenArchive(cold)
  /\ UNCHANGED <<config, warm, user>>

\* What the warm and the cold tier find, as the term, the scope and the
\* limits have it.
Found(W, C) ==
  /\ process = "up"
  /\ W \subseteq Present(warm)
  /\ C \subseteq Present(cold)

\* The warm results go to the hot tier, then the cold ones to both.
HotAfterSearch(W, C) == Copied(Copied(hot, W, warm), C, cold)

WarmAfterSearch(C) == IF config.warm THEN Copied(warm, C, cold) ELSE warm

search(W, C) ==
  /\ Found(W, C)
  /\ hot' = HotAfterSearch(W, C)
  /\ warm' = WarmAfterSearch(C)
  /\ UNCHANGED <<config, process, cold, archive, user, faults>>

\* The warm store throws after the promotion of some cold results.
searchThrows(W, C) ==
  /\ Found(W, C)
  /\ Fault("warm")
  /\ config.warm
  /\ hot' = HotAfterSearch(W, C)
  /\ warm' = WarmAfterSearch(C)
  /\ UNCHANGED <<config, process, cold, archive, user>>

searchDies(C) ==
  /\ Found({}, C)
  /\ Fault("crash")
  /\ Down
  /\ warm' = WarmAfterSearch(C)
  /\ UNCHANGED <<config, archive, user>>

-----------------------------------------------------------------------------
(* The cache forgets, and processes come and go.                           *)

\* Expiry, and eviction when the cache is full or an entry too large.
Forget(id) ==
  /\ process = "up"
  /\ hot[id] # Absent
  /\ hot' = [hot EXCEPT ![id] = Absent]
  /\ UNCHANGED <<config, process, warm, cold, archive, user, faults>>

\* The process ends between two operations, or is killed when it hangs.
Stop ==
  /\ process \in {"up", "hung"}
  /\ Down
  /\ UNCHANGED <<config, warm, archive, user, faults>>

\* Mutant: a line that cannot be parsed is not noticed.
Restart_Unchecked ==
  /\ process = "down"
  /\ process' = "up"
  /\ cold' = archive
  /\ UNCHANGED <<config, hot, warm, archive, user, faults>>

\* A new manager loads the archive; a corrupt one makes its constructor throw.
Restart ==
  /\ process = "down"
  /\ archive # Corrupt
  /\ process' = "up"
  /\ cold' = archive
  /\ \/ UNCHANGED config
     \/ /\ PolicyChanges
        /\ config' = [config EXCEPT !.writeThrough = ~ @]
  /\ UNCHANGED <<hot, warm, archive, user, faults>>

Search ==
  \E W \in SUBSET Present(warm), C \in SUBSET Present(cold) :
    search(W, C) \/ searchThrows(W, C) \/ searchDies(C)

Get(id) == getWarm(id) \/ getCold(id) \/ getColdThrows(id) \/ getColdDies(id)

Next ==
  \/ \E id \in Ids : upsert(id) \/ delete(id) \/ Get(id) \/ Forget(id)
  \/ \E scope \in Scopes : clearScope(scope) \/ clearScopeHangs(scope)
  \/ clearAll
  \/ Search
  \/ Stop
  \/ Restart

Spec == Init /\ [][Next]_vars

-----------------------------------------------------------------------------
(* What the memory promises.                                               *)

\* What get returns.
Visible(id) ==
  IF hot[id] # Absent THEN hot[id]
  ELSE IF warm[id] # Absent THEN warm[id] ELSE cold[id]

\* A read returns what the last operation that returned left, or what one
\* that did not return since tried to leave; without a warm store entries
\* may also be forgotten. Neither promotion, nor expiry, nor a restart
\* brings back an overwritten or removed value.
NeverStale ==
  process # "down" =>
    \A id \in Ids :
      Visible(id) \in {acked[id]} \cup tried[id]
                        \cup (IF config.warm THEN {} ELSE {Absent})

\* The other writes in the millisecond of write n, or in a later one.
Rivals(n, at) == {m \in 1 .. Len(at) : m # n /\ at[m] >= at[n]}

\* With retainHotMs 0 and no fault, a write is not forgotten before ColdLimit
\* others were made in its millisecond or with a later one (enforceCapacity):
\* with or without a warm store, whatever the cache evicts, however often the
\* process restarts, and also when the clock is set back.
RecentSurvive ==
  (process # "down" /\ config.writeThrough /\ faults = 0) =>
    \A id \in Ids :
      (/\ acked[id] # Absent
       /\ tried[id] = {}
       /\ Cardinality(Rivals(acked[id], times)) < ColdLimit)
      => Visible(id) = acked[id]

\* A search changes nothing that a read would have found: it promotes an entry
\* of a slower tier only where the faster tiers have none.
SearchKeepsValues ==
  [][\A W, C \in SUBSET Ids :
       search(W, C) => \A id \in Ids :
                         Visible(id) # Absent => Visible(id)' = Visible(id)]_vars

=============================================================================
