-------------------------- MODULE ResumablePipeline --------------------------
(***************************************************************************)
(* What the workflow executor promises, without its contexts, artifacts,   *)
(* index and modes of saving: a sequence of phases that is done once, in   *)
(* order, by runs that may die at any moment. A run starts from nothing or *)
(* from what a slot remembers of the same plan, never performs a phase     *)
(* that is done, and returns only when it has come to the end or a phase   *)
(* failed, with all it did remembered.                                     *)
(*                                                                         *)
(* saved and work are sets of at most one record, so that "nothing" needs  *)
(* no value of its own.                                                    *)
(***************************************************************************)
EXTENDS Integers

CONSTANTS
  Sessions,
  Keys,     \* identities of plans
  Steps,    \* Steps[key]: how many phases the plan has
  Shared,   \* Shared[key]: the phases whose results other sessions may take
  Slots,    \* where records are kept
  SlotOf    \* the slot of a session; two sessions may have the same

VARIABLES
  saved,  \* saved[slot]: what the slot remembers
  work    \* the run in progress, or the one that has returned

pipeline == <<saved, work>>

Saved == [session : Sessions, key : Keys, done : SUBSET Nat]

Work == [session  : Sessions,
         key      : Keys,
         done     : SUBSET Nat,   \* phases with a completed result
         ran      : SUBSET Nat,   \* phases this run has performed
         ahead    : SUBSET Nat,   \* phases it has not come to yet
         stage    : {"running", "returned"}]

Init ==
  /\ saved = [slot \in Slots |-> {}]
  /\ work = {}

Remembered(w) == [session |-> w.session, key |-> w.key, done |-> w.done]

\* What a session may take over from a record, up to a phase: all of its own,
\* the shared phases of another.
Inherited(s, session, upto) ==
  {o \in s.done : o < upto /\ (s.session = session \/ o \in Shared[s.key])}

Records(key) == {s \in UNION {saved[slot] : slot \in Slots} : s.key = key}

Offers(session, key) ==
  {{}} \cup {Inherited(s, session, upto) :
               s \in Records(key), upto \in 1 .. Steps[key] + 1}

Begin(session, key) ==
  /\ \A w \in work : w.stage = "returned"
  /\ \E done \in Offers(session, key) :
       work' = {[session |-> session, key |-> key, done |-> done, ran |-> {},
                 ahead |-> 1 .. Steps[key], stage |-> "running"]}
  /\ UNCHANGED saved

Moved(w, done, ran, ahead) ==
  [session |-> w.session, key |-> w.key, done |-> done, ran |-> ran,
   ahead |-> ahead, stage |-> w.stage]

\* The run w has come to its phase o.
At(w, o) == w.stage = "running" /\ o \in w.ahead /\ \A p \in w.ahead : o <= p

Reuse(w, o) ==
  /\ At(w, o)
  /\ o \in w.done
  /\ work' = {Moved(w, w.done, w.ran, w.ahead \ {o})}
  /\ UNCHANGED saved

\* A phase is performed only when it is not done; it may fail.
Perform(w, o) ==
  /\ At(w, o)
  /\ o \notin w.done
  /\ \E done \in {w.done, w.done \cup {o}} :
       work' = {Moved(w, done, w.ran \cup {o}, w.ahead \ {o})}
  /\ UNCHANGED saved

Save(w) ==
  /\ w.stage = "running"
  /\ saved' = [saved EXCEPT ![SlotOf[w.session]] = {Remembered(w)}]
  /\ UNCHANGED work

\* What an interrupted save leaves: what was there, or nothing.
Interrupted(w) ==
  \/ UNCHANGED saved
  \/ saved' = [saved EXCEPT ![SlotOf[w.session]] = {}]

\* A completion that cannot be saved is taken back: that of the phase this run
\* performed last, and no other.
Withdraw(w, o) ==
  /\ w.stage = "running"
  /\ o \in w.ran \cap w.done
  /\ \A p \in w.ran : p <= o
  /\ work' = {Moved(w, w.done \ {o}, w.ran, w.ahead)}
  /\ Interrupted(w)

Abandon(w) ==
  /\ w.stage = "running"
  /\ work' = {}
  /\ Interrupted(w)

Finished(w) ==
  [session |-> w.session, key |-> w.key, done |-> w.done, ran |-> w.ran,
   ahead |-> w.ahead, stage |-> "returned"]

Return(w) ==
  /\ w.stage = "running"
  /\ w.ahead = {} \/ w.ran \ w.done # {}
  /\ saved[SlotOf[w.session]] = {Remembered(w)}
  /\ work' = {Finished(w)}
  /\ UNCHANGED saved

Next ==
  \/ \E session \in Sessions, key \in Keys : Begin(session, key)
  \/ \E w \in work :
       \/ \E o \in w.ahead : Reuse(w, o) \/ Perform(w, o)
       \/ \E o \in w.ran : Withdraw(w, o)
       \/ Save(w)
       \/ Abandon(w)
       \/ Return(w)

Spec == Init /\ [][Next]_pipeline

=============================================================================
