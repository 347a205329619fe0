------------------------ MODULE Observability_proofs ------------------------
(***************************************************************************)
(* The records, for any processes, sessions, policies, ages and limits:    *)
(* types, that what is recorded is complete, in order and not contradicted,*)
(* and that the audit buffer has no gaps. Before that the policy of the    *)
(* hooks, for every policy that the schema accepts: more risk is never     *)
(* decided more leniently. After it the skills: what loading a manifest    *)
(* guarantees to their activation, for every manifest and request.         *)
(***************************************************************************)
EXTENDS Observability, Skills, FiniteSetTheorems, SequenceTheorems, WellFoundedInduction, TLAPS

\* Whatever the overrides of a tool and its category set, what results is a
\* policy of the schema (resolveScopedPolicy).
LEMMA ScopedPolicyIsPolicy ==
  ASSUME NEW policy \in Policies, NEW tool \in Tools
  PROVE  resolveScopedPolicy(policy, tool) \in Scoped
  BY PolicyAssumption DEF resolveScopedPolicy, IsOverride

\* More text raises no fewer signals (riskScore in evaluatePreToolUse).
LEMMA SignalsGrow ==
  ASSUME NEW policy \in Policies, NEW tool \in Tools,
         NEW more, NEW text \in SUBSET more
  PROVE  /\ RiskSignals(policy, tool, text) \in 0 .. 2
         /\ RiskSignals(policy, tool, more) \in 0 .. 2
         /\ RiskSignals(policy, tool, text) <= RiskSignals(policy, tool, more)
<1> DEFINE sensitive == resolveScopedPolicy(policy, tool).sensitivePatterns
<1>1. text \cap sensitive # {} => more \cap sensitive # {}
  OBVIOUS
<1> QED
  BY <1>1 DEF RiskSignals

\* If a text escalates, so does one that contains more.
LEMMA EscalationGrows ==
  ASSUME NEW policy \in Policies, NEW tool \in Tools,
         NEW more, NEW text \in SUBSET more,
         Escalates(policy, tool, text)
  PROVE  Escalates(policy, tool, more)
<1> DEFINE scoped == resolveScopedPolicy(policy, tool)
<1>1. scoped.escalationThreshold \in 0 .. 2
  BY ScopedPolicyIsPolicy DEF Scoped
<1>2. /\ scoped.strictMode
      /\ RiskSignals(policy, tool, text) >= scoped.escalationThreshold
  BY DEF Escalates
<1>3. RiskSignals(policy, tool, more) >= scoped.escalationThreshold
  <2> HIDE DEF scoped
  <2> QED
    BY <1>1, <1>2, SignalsGrow
<1> QED
  BY <1>2, <1>3 DEF Escalates

\* A tool call whose text contains more is never decided more leniently, unless
\* the default is to deny (evaluatePreToolUse).
THEOREM RiskMonotone == RiskNeverLoosens
<1> SUFFICES ASSUME NEW policy \in Policies, NEW tool \in Tools,
                    NEW more \in SUBSET Patterns, NEW blocked \in SUBSET Patterns,
                    resolveScopedPolicy(policy, tool).preToolUseDefaultDecision # "deny",
                    NEW text \in SUBSET more
             PROVE  Rank(evaluatePreToolUse(policy, tool, text, "enforce", blocked))
                      <= Rank(evaluatePreToolUse(policy, tool, more, "enforce", blocked))
  BY DEF RiskNeverLoosens
<1> DEFINE default == resolveScopedPolicy(policy, tool).preToolUseDefaultDecision
           low     == evaluatePreToolUse(policy, tool, text, "enforce", blocked)
           high    == evaluatePreToolUse(policy, tool, more, "enforce", blocked)
<1>1. default \in {"allow", "escalate"}
  BY ScopedPolicyIsPolicy DEF Scoped, PreDecisions
<1>2. low \in PreDecisions /\ high \in PreDecisions
  BY <1>1 DEF evaluatePreToolUse, PreDecisions
<1>3. CASE more \cap blocked # {}
  <2>1. high = "deny"
    BY <1>3 DEF evaluatePreToolUse
  <2> QED
    BY <2>1, <1>2 DEF Rank, PreDecisions
<1>4. CASE more \cap blocked = {}
  <2>1. text \cap blocked = {}
    BY <1>4
  <2>2. CASE Escalates(policy, tool, more)
    <3>1. high = "escalate"
      BY <1>4, <2>2 DEF evaluatePreToolUse
    <3>2. low \in {"allow", "escalate"}
      BY <1>1, <2>1 DEF evaluatePreToolUse
    <3> QED
      BY <3>1, <3>2 DEF Rank
  <2>3. CASE ~ Escalates(policy, tool, more)
    <3>1. ~ Escalates(policy, tool, text)
      BY <2>3, EscalationGrows
    <3>2. low = default /\ high = default
      BY <1>4, <2>1, <2>3, <3>1 DEF evaluatePreToolUse
    <3> QED
      BY <3>2, <1>1 DEF Rank
  <2> QED
    BY <2>2, <2>3
<1> QED
  BY <1>3, <1>4

-----------------------------------------------------------------------------
(***************************************************************************)
(* The invariant. A path is held by its lines (LinesIn) and by every prune *)
(* that has read it and not rewritten it yet: each of them may become the  *)
(* file. So any two of them have the same lines, but for those that are    *)
(* lost to the age of a prune or were exposed. A process has no file open  *)
(* but the one it is at (Opens), so what is pending on a file is what its  *)
(* readers kept. With that, `Put`, what a stream tells of                  *)
(* a command or is excused from, stays once it is so, and everything else  *)
(* is about the command that puts it.                                      *)
(***************************************************************************)
FileLines(q) == IF files[q] = NoFile THEN {} ELSE Range(files[q].lines)

Openers(q) == IF files[q] = NoFile THEN {} ELSE files[q].open

Readers(q) == {r \in Procs : q \in run[r].read}

LinesKept(r) == Range(run[r].kept)

Held(q) == LinesIn(q) \cup UNION {LinesKept(r) : r \in Readers(q)}

Old(ts) == prunes > 0 /\ \E age \in Ages : ts < now - age

Lost(l, q) ==
  \/ q[1] \in Range(PrunedStreams) /\ Old(l.ts)
  \/ <<l.op, q>> \in exposed

HoldersAgree ==
  \A q \in Paths : \A r \in Readers(q) :
    /\ \A l \in LinesIn(q) : l \in LinesKept(r) \/ Lost(l, q)
    /\ \A l \in LinesKept(r) : l \in LinesIn(q) \/ Lost(l, q)
    /\ \A other \in Readers(q) : \A l \in LinesKept(r) : l \in LinesKept(other) \/ Lost(l, q)

\* A line is of a command that began, no later, and has its outcome.
LinesAreTrue ==
  \A q \in Paths : \A l \in Held(q) :
    /\ l \in Lines
    /\ l.op \in DOMAIN ops
    /\ ops[l.op].ts <= l.ts
    /\ \/ l.what = ops[l.op].what
       \/ ops[l.op].kind = "search_run" /\ l.what = "hits"

\* A command under way is one of ops, and has a suffix of its lines to write.
RecorderRuns(p) ==
  LET n       == run[p].op
      streams == StreamsOf(run[p].kind)
      todo    == run[p].todo
  IN  IF run[p].kind \in Recorders
        THEN /\ n \in DOMAIN ops
             /\ ops[n].proc = p /\ ops[n].kind = run[p].kind /\ ops[n].what = run[p].what
             /\ ops[n].status = "running" /\ ops[n].ts <= run[p].ts /\ run[p].ts <= now
             /\ run[p].session \in Sessions \/ run[p].kind = "skill"
             /\ todo # << >> /\ Len(todo) <= Len(streams)
             /\ \A j \in DOMAIN todo : todo[j][1] = streams[Len(streams) - Len(todo) + j]
        ELSE n = 0

\* A process has no other file open than the one it appends to, or has read.
Opens(p) ==
  \A q \in Paths : p \in Openers(q) =>
    /\ run[p].opened
    /\ IF run[p].kind \in Recorders THEN q = Head(run[p].todo) ELSE q \in run[p].read

\* A prune reads one file at a time, in no directory but its own, and its cutoff is
\* of one of the ages.
PruneRuns(p) ==
  /\ run[p].kind # "prune" => run[p].read = {} /\ run[p].kept = << >>
  /\ \A q, k \in run[p].read : q = k
  /\ run[p].kind = "prune" =>
       /\ prunes > 0
       /\ run[p].age \in Ages
       /\ Len(run[p].dirs) <= Len(PrunedStreams)
       /\ \A i \in DOMAIN run[p].dirs : run[p].dirs[i] \in Range(PrunedStreams)
       /\ run[p].dirs = PrunedStreams => run[p].listed = {}
       /\ run[p].dirs # PrunedStreams => run[p].cutoff <= now - run[p].age
       /\ \A q \in run[p].listed \cup run[p].read : q[1] \in Range(PrunedStreams)

Put(n, what, stream) == Told(n, what, stream) \/ Excused(n, stream)

\* What a command under way has come past is put.
RecorderPut(p) ==
  run[p].kind \in Recorders =>
    LET streams == StreamsOf(run[p].kind)
    IN  \A i \in 1 .. Len(streams) - Len(run[p].todo) : Put(run[p].op, run[p].what, streams[i])

\* What was due before a line is put.
OrderOf(l, q) ==
  LET streams == StreamsOf(ops[l.op].kind)
  IN  \A i, j \in DOMAIN streams :
        i < j /\ q[1] = streams[j] => Put(l.op, l.what, streams[i])

PutInOrder == \A q \in Paths : \A l \in Held(q) : OrderOf(l, q)

Running == \A p \in Procs : RecorderRuns(p) /\ PruneRuns(p) /\ RecorderPut(p) /\ Opens(p)

RInv == TypeOK /\ LinesAreTrue /\ HoldersAgree /\ Running /\ PutInOrder /\ RecordedInFull

-----------------------------------------------------------------------------
(***************************************************************************)
(* What the operators return.                                              *)
(***************************************************************************)

\* A non-empty set of numbers has a least one.
LEMMA LeastNumber ==
  ASSUME NEW S \in SUBSET Nat, S # {}
  PROVE  \E x \in S : \A y \in S : x <= y
<1> DEFINE R == OpToRel(<, Nat)
<1>1. IsWellFoundedOn(R, Nat)
  BY NatLessThanWellFounded
<1>2. PICK x \in S : \A y \in S : ~ (<<y, x>> \in R)
  <2> HIDE DEF R
  <2> QED BY <1>1, WFMin
<1>3. \A y \in S : ~ (y < x)
  BY <1>2 DEF OpToRel
<1> QED BY <1>3

\* What is in a sequence that has grown by one.
LEMMA AppendedRange ==
  ASSUME NEW S, NEW s \in Seq(S), NEW e \in S
  PROVE  Range(Append(s, e)) = Range(s) \cup {e}
<1>1. /\ DOMAIN s = 1 .. Len(s) /\ DOMAIN Append(s, e) = 1 .. Len(s) + 1 /\ Len(s) \in Nat
      /\ \A i \in 1 .. Len(s) : Append(s, e)[i] = s[i]
      /\ Append(s, e)[Len(s) + 1] = e
  OBVIOUS
<1> QED BY <1>1 DEF Range

\* Whether kept is what a prune keeps of the first n lines.
Keeps(kept, n, lines, cutoff) ==
  kept = [i \in 0 .. n |->
            IF i = 0 THEN <<>>
            ELSE IF lines[i].ts >= cutoff THEN Append(kept[i - 1], lines[i])
            ELSE kept[i - 1]]

\* There is such a function, and its values are sequences of the younger lines.
LEMMA KeepsExists ==
  ASSUME NEW lines \in Seq(Lines), NEW cutoff \in Int, NEW n \in 0 .. Len(lines)
  PROVE  \E kept : Keeps(kept, n, lines, cutoff)
<1> DEFINE None == {m \in 0 .. Len(lines) : ~ \E kept : Keeps(kept, m, lines, cutoff)}
<1> SUFFICES ASSUME None # {}
             PROVE  FALSE
  OBVIOUS
<1>0. None \in SUBSET Nat
  OBVIOUS
<1>1. PICK m \in None : \A k \in None : m <= k
  <2> HIDE DEF None
  <2> QED BY <1>0, LeastNumber
<1>2. m # 0
  <2>1. Keeps([i \in 0 .. 0 |-> <<>>], 0, lines, cutoff)
    BY DEF Keeps
  <2> QED BY <2>1
<1>3. m - 1 \in 0 .. Len(lines) /\ m - 1 \notin None
  BY <1>1, <1>2
<1>4. PICK kept : Keeps(kept, m - 1, lines, cutoff)
  BY <1>3
<1> DEFINE last == IF lines[m].ts >= cutoff THEN Append(kept[m - 1], lines[m]) ELSE kept[m - 1]
           more == [i \in 0 .. m |-> IF i = m THEN last ELSE kept[i]]
<1>5. ASSUME NEW i \in 0 .. m
      PROVE  more[i] = IF i = 0 THEN <<>>
                       ELSE IF lines[i].ts >= cutoff THEN Append(more[i - 1], lines[i])
                       ELSE more[i - 1]
  <2>1. CASE i = m
    <3>1. more[m] = last /\ more[m - 1] = kept[m - 1]
      BY <1>1, <1>2
    <3> QED BY <2>1, <3>1, <1>2
  <2>2. CASE i # m
    <3>1. i \in 0 .. m - 1 /\ more[i] = kept[i]
      BY <1>1, <2>2
    <3>2. i # 0 => more[i - 1] = kept[i - 1]
      BY <1>1, <2>2
    <3>3. kept[i] = IF i = 0 THEN <<>>
                    ELSE IF lines[i].ts >= cutoff THEN Append(kept[i - 1], lines[i])
                    ELSE kept[i - 1]
      BY <1>4, <3>1 DEF Keeps
    <3> QED BY <3>1, <3>2, <3>3
  <2> QED BY <2>1, <2>2
<1>6. Keeps(more, m, lines, cutoff)
  <2>1. more = [i \in 0 .. m |-> more[i]]
    OBVIOUS
  <2> HIDE DEF more
  <2> QED BY <1>5, <2>1 DEF Keeps
<1> QED BY <1>1, <1>6

LEMMA KeepsYounger ==
  ASSUME NEW lines \in Seq(Lines), NEW cutoff \in Int, NEW kept,
         Keeps(kept, Len(lines), lines, cutoff), NEW n \in 0 .. Len(lines)
  PROVE  /\ kept[n] \in Seq(Lines)
         /\ \A l : l \in Range(kept[n]) <=> \E i \in 1 .. n : lines[i] = l /\ l.ts >= cutoff
<1> DEFINE Fine(m) ==
             /\ kept[m] \in Seq(Lines)
             /\ \A l : l \in Range(kept[m]) <=> \E i \in 1 .. m : lines[i] = l /\ l.ts >= cutoff
           Bad == {m \in 0 .. Len(lines) : ~ Fine(m)}
<1> SUFFICES ASSUME Bad # {}
             PROVE  FALSE
  OBVIOUS
<1>0. Bad \in SUBSET Nat
  OBVIOUS
<1>1. PICK m \in Bad : \A k \in Bad : m <= k
  <2> HIDE DEF Bad
  <2> QED BY <1>0, LeastNumber
<1>2. kept[m] = IF m = 0 THEN <<>>
                ELSE IF lines[m].ts >= cutoff THEN Append(kept[m - 1], lines[m])
                ELSE kept[m - 1]
  BY DEF Keeps
<1>3. m # 0
  <2>1. ASSUME m = 0 PROVE Fine(m)
    <3>1. kept[m] = <<>>
      BY <1>2, <2>1
    <3>2. Range(kept[m]) = {}
      BY <3>1 DEF Range
    <3> QED BY <2>1, <3>1, <3>2
  <2> QED BY <2>1, <1>1
<1>4. m - 1 \in 0 .. Len(lines) /\ Fine(m - 1)
  <2>1. m \in 0 .. Len(lines) /\ Len(lines) \in Nat
    BY <1>1
  <2>2. m - 1 \in 0 .. Len(lines) /\ ~ (m <= m - 1)
    BY <2>1, <1>3
  <2>3. m - 1 \notin Bad
    <3> HIDE DEF Bad
    <3> QED BY <1>1, <2>2
  <2> QED BY <2>2, <2>3
<1>5. lines[m] \in Lines /\ m \in 1 .. Len(lines)
  BY <1>1, <1>3
<1>6. CASE lines[m].ts >= cutoff
  <2>1. kept[m] = Append(kept[m - 1], lines[m])
    BY <1>2, <1>3, <1>6
  <2>2. kept[m] \in Seq(Lines)
    BY <1>4, <1>5, <2>1
  <2>3. Range(kept[m]) = Range(kept[m - 1]) \cup {lines[m]}
    <3>1. kept[m - 1] \in Seq(Lines)
      BY <1>4
    <3> QED BY <3>1, <1>5, <2>1, AppendedRange
  <2>4. ASSUME NEW l
        PROVE  l \in Range(kept[m]) <=> \E i \in 1 .. m : lines[i] = l /\ l.ts >= cutoff
    BY <1>4, <1>5, <1>6, <2>3
  <2> QED BY <1>1, <2>2, <2>4
<1>7. CASE ~ (lines[m].ts >= cutoff)
  <2>1. kept[m] = kept[m - 1]
    BY <1>2, <1>3, <1>7
  <2>2. ASSUME NEW l
        PROVE  l \in Range(kept[m]) <=> \E i \in 1 .. m : lines[i] = l /\ l.ts >= cutoff
    BY <1>4, <1>5, <1>7, <2>1
  <2> QED BY <1>1, <1>4, <2>1, <2>2
<1> QED BY <1>6, <1>7

\* A prune keeps exactly the lines that are young enough (prune, the filter).
LEMMA WhatIsRetained ==
  ASSUME NEW lines \in Seq(Lines), NEW cutoff \in Int
  PROVE  /\ Retained(lines, cutoff) \in Seq(Lines)
         /\ Range(Retained(lines, cutoff)) = {l \in Range(lines) : l.ts >= cutoff}
<1> DEFINE kept == CHOOSE kept : Keeps(kept, Len(lines), lines, cutoff)
<1>1. Keeps(kept, Len(lines), lines, cutoff)
  BY KeepsExists
<1>2. Retained(lines, cutoff) = kept[Len(lines)]
  BY DEF Retained, Keeps
<1> HIDE DEF kept
<1>3. /\ kept[Len(lines)] \in Seq(Lines)
      /\ \A l : l \in Range(kept[Len(lines)])
                  <=> \E i \in 1 .. Len(lines) : lines[i] = l /\ l.ts >= cutoff
  BY <1>1, KeepsYounger
<1>4. Range(lines) = {lines[i] : i \in 1 .. Len(lines)}
  BY DEF Range
<1> QED BY <1>2, <1>3, <1>4


\* The lines of a command go to paths, one for each of its streams.
LEMMA TargetsMatch ==
  ASSUME NEW kind \in Recorders, NEW s, NEW day \in Days,
         s \in Sessions \/ kind = "skill"
  PROVE  LET t == Targets(kind, s, day)
         IN  /\ t \in Seq(Paths)
             /\ t # <<>>
             /\ Len(t) = Len(StreamsOf(kind))
             /\ \A j \in DOMAIN t : t[j][1] = StreamsOf(kind)[j]
<1> DEFINE t == Targets(kind, s, day)
           T(stream) == <<stream, s>>
           D(stream) == <<stream, day>>
           K == <<"skills", Skill>>
<1>1. \A stream \in SessionStreams : s \in Sessions => T(stream) \in Paths /\ T(stream)[1] = stream
  BY DEF Paths
<1>2. \A stream \in DayStreams : D(stream) \in Paths /\ D(stream)[1] = stream
  BY DEF Paths
<1>3. K \in Paths /\ K[1] = "skills"
  BY DEF Paths
<1>4. /\ {"tokens", "sessions", "progress"} = SessionStreams
      /\ {"daily", "metrics", "patterns"} = DayStreams
  BY DEF SessionStreams, DayStreams
<1> DEFINE Goal == /\ t \in Seq(Paths)
                   /\ t # <<>>
                   /\ Len(t) = Len(StreamsOf(kind))
                   /\ \A j \in DOMAIN t : t[j][1] = StreamsOf(kind)[j]
<1>5. ASSUME kind = "post_tool_use"
      PROVE  Goal
  <2>1. t = <<T("sessions"), D("metrics"), D("patterns")>>
    BY <1>5 DEF Targets
  <2>2. StreamsOf(kind) = <<"sessions", "metrics", "patterns">>
    BY <1>5 DEF StreamsOf
  <2>3. s \in Sessions
    BY <1>5
  <2> DEFINE a == T("sessions")
             b == D("metrics")
             c == D("patterns")
  <2>4. /\ a \in Paths /\ a[1] = "sessions" /\ b \in Paths /\ b[1] = "metrics"
        /\ c \in Paths /\ c[1] = "patterns"
    BY <1>1, <1>2, <1>4, <2>3
  <2> HIDE DEF a, b, c
  <2>5. t = <<a, b, c>>
    BY <2>1 DEF a, b, c
  <2> HIDE DEF t
  <2>6. t \in Seq(Paths) /\ DOMAIN t = 1 .. 3 /\ Len(t) = 3 /\ t[1] = a /\ t[2] = b /\ t[3] = c
    BY <2>4, <2>5
  <2> DEFINE z == StreamsOf(kind)
  <2>7. Len(z) = 3 /\ z[1] = "sessions" /\ z[2] = "metrics" /\ z[3] = "patterns"
    BY <2>2
  <2> HIDE DEF z
  <2>8. \A j \in 1 .. 3 : t[j][1] = z[j]
    <3>1. \A j \in 1 .. 3 : j = 1 \/ j = 2 \/ j = 3
      OBVIOUS
    <3> QED BY <2>4, <2>6, <2>7, <3>1, Zenon
  <2>9. t # <<>>
    <3>1. Len(t) # Len(<<>>)
      BY <2>6
    <3> QED BY <3>1, Zenon
  <2> QED BY <2>6, <2>7, <2>8, <2>9 DEF z
<1>6. ASSUME kind = "agent_run"
      PROVE  Goal
  <2>1. t = <<T("tokens"), D("daily"), T("sessions"), D("metrics"), T("progress")>>
    BY <1>6 DEF Targets, recordAgentExecution
  <2>2. StreamsOf(kind) = <<"tokens", "daily", "sessions", "metrics", "progress">>
    BY <1>6 DEF StreamsOf
  <2>3. s \in Sessions
    BY <1>6
  <2> DEFINE a == T("tokens")
             b == D("daily")
             c == T("sessions")
             d == D("metrics")
             e == T("progress")
  <2>4. /\ a \in Paths /\ a[1] = "tokens" /\ b \in Paths /\ b[1] = "daily"
        /\ c \in Paths /\ c[1] = "sessions" /\ d \in Paths /\ d[1] = "metrics"
        /\ e \in Paths /\ e[1] = "progress"
    BY <1>1, <1>2, <1>4, <2>3
  <2> HIDE DEF a, b, c, d, e
  <2>5. t = <<a, b, c, d, e>>
    BY <2>1 DEF a, b, c, d, e
  <2> HIDE DEF t
  <2>6. /\ t \in Seq(Paths) /\ DOMAIN t = 1 .. 5 /\ Len(t) = 5
        /\ t[1] = a /\ t[2] = b /\ t[3] = c /\ t[4] = d /\ t[5] = e
    BY <2>4, <2>5
  <2> DEFINE z == StreamsOf(kind)
  <2>7. /\ Len(z) = 5 /\ z[1] = "tokens" /\ z[2] = "daily" /\ z[3] = "sessions"
        /\ z[4] = "metrics" /\ z[5] = "progress"
    BY <2>2
  <2> HIDE DEF z
  <2>8. \A j \in 1 .. 5 : t[j][1] = z[j]
    <3>1. \A j \in 1 .. 5 : j = 1 \/ j = 2 \/ j = 3 \/ j = 4 \/ j = 5
      OBVIOUS
    <3> QED BY <2>4, <2>6, <2>7, <3>1, Zenon
  <2>9. t # <<>>
    <3>1. Len(t) # Len(<<>>)
      BY <2>6
    <3> QED BY <3>1, Zenon
  <2> QED BY <2>6, <2>7, <2>8, <2>9 DEF z
<1>7. ASSUME kind = "search_run"
      PROVE  Goal
  <2>1. t = <<T("sessions"), D("metrics")>>
    BY <1>7 DEF Targets
  <2>2. StreamsOf(kind) = <<"sessions", "metrics">>
    BY <1>7 DEF StreamsOf
  <2>3. s \in Sessions
    BY <1>7
  <2> DEFINE a == T("sessions")
             b == D("metrics")
  <2>4. a \in Paths /\ a[1] = "sessions" /\ b \in Paths /\ b[1] = "metrics"
    BY <1>1, <1>2, <1>4, <2>3
  <2> HIDE DEF a, b
  <2>5. t = <<a, b>>
    BY <2>1 DEF a, b
  <2> HIDE DEF t
  <2>6. t \in Seq(Paths) /\ DOMAIN t = 1 .. 2 /\ Len(t) = 2 /\ t[1] = a /\ t[2] = b
    BY <2>4, <2>5
  <2> QED BY <2>2, <2>4, <2>6
<1>8. ASSUME kind = "skill"
      PROVE  Goal
  <2>1. t = <<K>>
    BY <1>8 DEF Targets
  <2>2. StreamsOf(kind) = <<"skills">>
    BY <1>8 DEF StreamsOf
  <2> HIDE DEF t, K
  <2>3. t \in Seq(Paths) /\ DOMAIN t = 1 .. 1 /\ Len(t) = 1 /\ t[1] = K
    BY <1>3, <2>1
  <2> QED BY <1>3, <2>2, <2>3, SMTT(30)
<1> QED BY <1>5, <1>6, <1>7, <1>8 DEF Recorders

\* The streams of a command are different ones.
LEMMA StreamsDiffer ==
  ASSUME NEW kind
  PROVE  /\ Len(StreamsOf(kind)) \in Nat
         /\ DOMAIN StreamsOf(kind) = 1 .. Len(StreamsOf(kind))
         /\ \A i, j \in DOMAIN StreamsOf(kind) : StreamsOf(kind)[i] = StreamsOf(kind)[j] => i = j
<1>1. CASE kind = "post_tool_use"
  BY <1>1 DEF StreamsOf
<1>2. CASE kind = "agent_run"
  BY <1>2 DEF StreamsOf
<1>3. CASE kind = "search_run"
  BY <1>3 DEF StreamsOf
<1>4. CASE kind = "skill"
  BY <1>4 DEF StreamsOf
<1>5. CASE kind \notin {"post_tool_use", "agent_run", "search_run", "skill"}
  BY <1>5 DEF StreamsOf
<1> QED BY <1>1, <1>2, <1>3, <1>4, <1>5

\* What the hooks decide are outcomes.
LEMMA OutcomesAre ==
  /\ PreOutcomes \subseteq Outcomes
  /\ PostOutcomes \subseteq Outcomes
  /\ StopOutcomes \subseteq Outcomes
  /\ NotificationOutcomes \subseteq Outcomes
  /\ {"executed", "skipped", "hits", "error", "completed", "failed"} \subseteq Outcomes
<1>1. ASSUME NEW policy \in Policies, NEW tool \in Tools, NEW text, NEW mode, NEW blocked
      PROVE  evaluatePreToolUse(policy, tool, text, mode, blocked) \in PreDecisions
  <2>1. resolveScopedPolicy(policy, tool).preToolUseDefaultDecision \in PreDecisions
    BY ScopedPolicyIsPolicy DEF Scoped
  <2> QED BY <2>1 DEF evaluatePreToolUse, PreDecisions
<1>2. PreOutcomes \subseteq Outcomes
  BY <1>1 DEF PreOutcomes, Outcomes
<1>3. PostOutcomes \subseteq Outcomes
  BY DEF PostOutcomes, evaluatePostToolUse, Outcomes, PreDecisions
<1>4. StopOutcomes \subseteq Outcomes
  BY DEF StopOutcomes, evaluateStop, Outcomes, PreDecisions
<1>5. NotificationOutcomes \subseteq Outcomes
  BY DEF NotificationOutcomes, Outcomes
<1> QED BY <1>2, <1>3, <1>4, <1>5 DEF Outcomes

LEMMA CommandFields ==
  ASSUME NEW c \in Commands
  PROVE  /\ c.op \in 0 .. MaxOps /\ c.ts \in Days /\ c.what \in Outcomes
         /\ c.kind \in Kinds \cup {"prune", "idle"} /\ c.session \in Sessions \cup {Skill}
         /\ c.todo \in Seq(Paths) /\ c.kept \in Seq(Lines) /\ c.dirs \in Seq(Streams)
         /\ c.age \in Ages \cup {0} /\ c.cutoff \in Int
         /\ c.listed \subseteq Paths /\ c.read \subseteq Paths /\ c.opened \in BOOLEAN
BY DEF Commands

\* A process that has nothing to do.
LEMMA IdleFields ==
  /\ Idle \in Commands
  /\ Idle.kind = "idle" /\ Idle.op = 0 /\ Idle.todo = <<>> /\ Idle.ts = 0
  /\ Idle.listed = {} /\ Idle.read = {} /\ Idle.kept = <<>> /\ ~ Idle.opened
<1>1. "skipped" \in Outcomes /\ 0 \in Days /\ 0 \in 0 .. MaxOps
  BY ObservabilityAssumption DEF Outcomes, Days
<1>2. <<>> \in Seq(Paths) /\ <<>> \in Seq(Streams) /\ <<>> \in Seq(Lines)
  OBVIOUS
<1> QED BY <1>1, <1>2 DEF Idle, Commands

\* The command that records something.
LEMMA RecordingFields ==
  ASSUME NEW kind \in Recorders, NEW s \in Sessions \cup {Skill}, NEW what \in Outcomes,
         NEW op \in 1 .. MaxOps, now \in Days, s \in Sessions \/ kind = "skill"
  PROVE  LET c == Recording(kind, s, what, op)
         IN  /\ c \in Commands
             /\ c.kind = kind /\ c.op = op /\ c.what = what /\ c.session = s /\ c.ts = now
             /\ c.todo = Targets(kind, s, now)
             /\ c.read = {} /\ c.listed = {} /\ c.kept = <<>> /\ ~ c.opened
<1> DEFINE t == Targets(kind, s, now)
<1>1. t \in Seq(Paths)
  BY TargetsMatch
<1>2. "skipped" \in Outcomes /\ 0 \in Days /\ op \in 0 .. MaxOps /\ kind \in Kinds
  BY ObservabilityAssumption DEF Outcomes, Days, Kinds
<1>3. <<>> \in Seq(Streams) /\ <<>> \in Seq(Lines)
  OBVIOUS
<1> HIDE DEF t
<1>4. Recording(kind, s, what, op) =
        [kind |-> kind, op |-> op, session |-> s, what |-> what, ts |-> now, todo |-> t,
         age |-> 0, dirs |-> << >>, cutoff |-> 0, listed |-> {}, read |-> {}, kept |-> << >>,
         opened |-> FALSE]
  <2>1. Recording(kind, s, what, op) =
          [Idle EXCEPT !.kind = kind, !.op = op, !.session = s, !.what = what, !.ts = now, !.todo = t]
    BY DEF Recording, t
  <2> QED BY <2>1 DEF Idle
<1> QED BY <1>1, <1>2, <1>3, <1>4 DEF Commands, t


-----------------------------------------------------------------------------
(***************************************************************************)
(* What a step leaves as it was.                                           *)
(***************************************************************************)

\* Commands go on: only one under way changes, and only a search its outcome.
OpsGoOn ==
  /\ DOMAIN ops \subseteq DOMAIN ops'
  /\ \A n \in DOMAIN ops :
       /\ ops'[n].proc = ops[n].proc /\ ops'[n].kind = ops[n].kind /\ ops'[n].ts = ops[n].ts
       /\ \/ ops'[n].what = ops[n].what
          \/ /\ ops[n].kind = "search_run" /\ ops[n].what = "hits"
             /\ ops[n].status = "running"
       /\ ops'[n].status = ops[n].status \/ ops[n].status = "running"

\* A line stays in its file, or is lost.
FilesGoOn ==
  /\ prunes <= prunes' /\ now <= now' /\ exposed \subseteq exposed'
  /\ \A q \in Paths : \A l \in LinesIn(q) : l \in LinesIn(q)' \/ Lost(l, q)'

\* What a path has: the lines of its file, and what the prunes that have truncated
\* it are about to write.
LinesAre ==
  \A q, l : l \in LinesIn(q) <=> l \in FileLines(q) \/ \E r \in Openers(q) : l \in LinesKept(r)

LEMMA WhatLinesAre == LinesAre
<1> SUFFICES ASSUME NEW q, NEW l
             PROVE  l \in LinesIn(q) <=> l \in FileLines(q) \/ \E r \in Openers(q) : l \in LinesKept(r)
  BY DEF LinesAre
<1>1. l \in Pending(q) <=> \E r \in Openers(q) : l \in LinesKept(r)
  BY DEF Pending, Openers, LinesKept
<1>2. LinesIn(q) = Pending(q) \cup FileLines(q)
  BY DEF LinesIn, FileLines
<1> QED BY <1>1, <1>2

LEMMA LinesAreNext == LinesAre'
BY WhatLinesAre, PTL

\* The numbers, as far as the proofs need them.
Numbers ==
  /\ now \in Nat /\ prunes \in Nat
  /\ ops \in Seq(Op)
  /\ \A n \in DOMAIN ops : ops[n] \in Op /\ ops[n].ts \in Nat /\ n \in Nat

LEMMA TimeIsCounted ==
  /\ Ages \subseteq Nat /\ Days \subseteq Nat
  /\ \A l \in Lines : l.ts \in Nat
<1>1. Days \subseteq Nat
  BY ObservabilityAssumption DEF Days
<1> QED BY <1>1, ObservabilityAssumption DEF Lines

LEMMA NumbersHold == TypeOK => Numbers
<1> SUFFICES ASSUME TypeOK
             PROVE  Numbers
  OBVIOUS
<1>1. now \in Nat /\ prunes \in Nat
  BY TimeIsCounted DEF TypeOK
<1>2. ops \in Seq(Op)
  BY DEF TypeOK
<1>3. \A n \in DOMAIN ops : ops[n] \in Op /\ n \in Nat
  BY <1>2
<1>4. \A o \in Op : o.ts \in Nat
  BY TimeIsCounted DEF Op
<1> QED BY <1>1, <1>2, <1>3, <1>4 DEF Numbers

LEMMA NumbersStay == TypeOK' => Numbers'
BY NumbersHold, PTL

\* Age does not heal.
LEMMA OldStays ==
  ASSUME TypeOK, TypeOK', FilesGoOn, NEW ts \in Nat, Old(ts)
  PROVE  Old(ts)'
<1>1. prunes > 0 /\ prunes \in Nat /\ prunes' \in Nat /\ prunes <= prunes' /\ now <= now'
      /\ now \in Nat /\ now' \in Nat /\ Ages \subseteq Nat
  BY NumbersHold, NumbersStay, TimeIsCounted DEF Old, FilesGoOn, Numbers
<1>2. PICK age \in Ages : ts < now - age
  BY DEF Old
<1>3. ts < now' - age /\ prunes' > 0
  <2>1. age \in Nat
    BY <1>1
  <2>2. prunes' > 0
    BY <1>1
  <2>3. now \in Nat /\ now' \in Nat /\ now <= now'
    BY <1>1
  <2>4. ts < now - age
    BY <1>2
  <2>5. \A a, b, c, d \in Nat : d < a - c /\ a <= b => d < b - c
    OBVIOUS
  <2> QED BY <2>1, <2>2, <2>3, <2>4, <2>5
<1> QED BY <1>3 DEF Old

LEMMA LostStays ==
  ASSUME TypeOK, TypeOK', FilesGoOn, NEW l \in Lines, NEW q \in Paths, Lost(l, q)
  PROVE  Lost(l, q)'
<1>1. CASE q[1] \in Range(PrunedStreams) /\ Old(l.ts)
  BY <1>1, OldStays, TimeIsCounted DEF Lost
<1>2. CASE <<l.op, q>> \in exposed
  BY <1>2 DEF Lost, FilesGoOn
<1> QED BY <1>1, <1>2 DEF Lost

\* The stream of a line that is lost is excused.
LEMMA LostIsExcused ==
  ASSUME TypeOK, NEW l \in Lines, NEW q \in Paths, Lost(l, q),
         l.op \in DOMAIN ops, ops[l.op].ts <= l.ts
  PROVE  Excused(l.op, q[1])
<1>1. CASE q[1] \in Range(PrunedStreams) /\ Old(l.ts)
  <2>1. PICK age \in Ages : l.ts < now - age
    BY <1>1 DEF Old
  <2>2. ops[l.op].ts < now - age
    <3>1. ops[l.op].ts \in Nat /\ l.ts \in Nat /\ now \in Nat /\ age \in Nat
      BY NumbersHold, TimeIsCounted DEF Numbers
    <3> QED BY <2>1, <3>1
  <2> QED BY <1>1, <2>2 DEF Old, Excused
<1>2. CASE <<l.op, q>> \in exposed
  <2>1. <<l.op, q>>[1] = l.op /\ <<l.op, q>>[2][1] = q[1]
    OBVIOUS
  <2> QED BY <1>2, <2>1, Zenon DEF Excused
<1> QED BY <1>1, <1>2 DEF Lost

\* The same of the next state.
LEMMA LostIsExcusedNext ==
  ASSUME TypeOK', NEW l \in Lines, NEW q \in Paths, Lost(l, q)',
         l.op \in DOMAIN ops', ops'[l.op].ts <= l.ts
  PROVE  Excused(l.op, q[1])'
<1>0. /\ now' \in Nat /\ Ages \subseteq Nat /\ l.ts \in Nat /\ ops'[l.op].ts \in Nat
  BY NumbersStay, TimeIsCounted DEF Numbers
<1>1. CASE q[1] \in Range(PrunedStreams) /\ Old(l.ts)'
  <2>1. PICK age \in Ages : l.ts < now' - age
    BY <1>1 DEF Old
  <2>2. ops'[l.op].ts < now' - age
    BY <1>0, <2>1
  <2> QED BY <1>1, <2>2 DEF Old, Excused
<1>2. CASE <<l.op, q>> \in exposed'
  <2>1. <<l.op, q>>[1] = l.op /\ <<l.op, q>>[2][1] = q[1]
    OBVIOUS
  <2> QED BY <1>2, <2>1, Zenon DEF Excused
<1> QED BY <1>1, <1>2 DEF Lost

\* What is put stays put, whatever happens to the files.
LEMMA PutStays ==
  ASSUME TypeOK, TypeOK', LinesAreTrue, OpsGoOn, FilesGoOn,
         NEW n \in DOMAIN ops, NEW what, NEW stream, Put(n, what, stream)
  PROVE  Put(n, what, stream)'
<1>1. CASE Told(n, what, stream)
  <2>1. PICK q \in Paths : q[1] = stream /\ \E l \in LinesIn(q) : l.op = n /\ l.what = what
    BY <1>1 DEF Told
  <2>2. PICK l \in LinesIn(q) : l.op = n /\ l.what = what
    BY <2>1
  <2>3. CASE l \in LinesIn(q)'
    <3>1. Told(n, what, stream)'
      BY <2>1, <2>2, <2>3 DEF Told
    <3> QED BY <3>1 DEF Put
  <2>4. CASE Lost(l, q)'
    <3>1. l \in Lines /\ l.op \in DOMAIN ops /\ ops[l.op].ts <= l.ts
      BY <2>2 DEF LinesAreTrue, Held
    <3>2. l.op \in DOMAIN ops' /\ ops'[l.op].ts <= l.ts
      BY <3>1 DEF OpsGoOn
    <3>3. Excused(n, stream)'
      BY <2>1, <2>2, <2>4, <3>1, <3>2, LostIsExcusedNext
    <3> QED BY <3>3 DEF Put
  <2> QED BY <2>3, <2>4 DEF FilesGoOn
<1>2. CASE prunes > 0 /\ stream \in Range(PrunedStreams) /\ \E age \in Ages : ops[n].ts < now - age
  <2>1. PICK t \in Nat : t = ops[n].ts
    BY NumbersHold DEF Numbers
  <2>2. Old(t)
    BY <1>2, <2>1 DEF Old
  <2>3. Old(t)'
    BY <2>2, OldStays
  <2>4. ops'[n].ts = t
    BY <2>1 DEF OpsGoOn
  <2> QED BY <1>2, <2>3, <2>4 DEF Old, Excused, Put
<1>3. CASE \E e \in exposed : e[1] = n /\ e[2][1] = stream
  BY <1>3 DEF FilesGoOn, Excused, Put
<1> QED BY <1>1, <1>2, <1>3 DEF Put, Excused


\* What is new in a file is of a command that has begun, and tells its outcome.
NewLine(l) ==
  /\ l \in Lines
  /\ l.op \in DOMAIN ops
  /\ ops[l.op].ts <= l.ts
  /\ l.what = ops[l.op].what

\* The lines there are stay true, also of a search that turns out an error.
LEMMA LinesStayTrue ==
  ASSUME LinesAreTrue, OpsGoOn,
         \A q \in Paths : \A l \in Held(q)' : l \in Held(q) \/ NewLine(l)'
  PROVE  LinesAreTrue'
<1> SUFFICES ASSUME NEW q \in Paths, NEW l \in Held(q)'
             PROVE  (/\ l \in Lines
                     /\ l.op \in DOMAIN ops
                     /\ ops[l.op].ts <= l.ts
                     /\ \/ l.what = ops[l.op].what
                        \/ ops[l.op].kind = "search_run" /\ l.what = "hits")'
  BY DEF LinesAreTrue
<1>1. CASE NewLine(l)'
  BY <1>1 DEF NewLine
<1>2. CASE l \in Held(q)
  <2>1. /\ l \in Lines
        /\ l.op \in DOMAIN ops
        /\ ops[l.op].ts <= l.ts
        /\ \/ l.what = ops[l.op].what
           \/ ops[l.op].kind = "search_run" /\ l.what = "hits"
    BY <1>2 DEF LinesAreTrue
  <2>2. /\ l.op \in DOMAIN ops'
        /\ ops'[l.op].kind = ops[l.op].kind /\ ops'[l.op].ts = ops[l.op].ts
        /\ \/ ops'[l.op].what = ops[l.op].what
           \/ ops[l.op].kind = "search_run" /\ ops[l.op].what = "hits"
    BY <2>1 DEF OpsGoOn
  <2> QED BY <2>1, <2>2
<1> QED BY <1>1, <1>2

\* What was due before the lines there are stays put.
LEMMA OrderStays ==
  ASSUME TypeOK, TypeOK', LinesAreTrue, PutInOrder, OpsGoOn, FilesGoOn,
         \A q \in Paths : \A l \in Held(q)' : l \in Held(q) \/ OrderOf(l, q)'
  PROVE  PutInOrder'
<1> SUFFICES ASSUME NEW q \in Paths, NEW l \in Held(q), OrderOf(l, q)
             PROVE  OrderOf(l, q)'
  BY DEF PutInOrder
<1>1. l.op \in DOMAIN ops
  BY DEF LinesAreTrue
<1>2. ops'[l.op].kind = ops[l.op].kind
  BY <1>1 DEF OpsGoOn
<1>3. PICK streams : streams = StreamsOf(ops[l.op].kind)
  OBVIOUS
<1>4. \A i, j \in DOMAIN streams : i < j /\ q[1] = streams[j] => Put(l.op, l.what, streams[i])
  BY <1>3 DEF OrderOf
<1>5. \A i \in DOMAIN streams : Put(l.op, l.what, streams[i]) => Put(l.op, l.what, streams[i])'
  BY <1>1, PutStays
<1>6. StreamsOf(ops[l.op].kind)' = streams
  BY <1>2, <1>3
<1> QED BY <1>4, <1>5, <1>6 DEF OrderOf

\* What is recorded in full stays so.
Full(n) ==
  \A i \in DOMAIN StreamsOf(ops[n].kind) : Put(n, ops[n].what, StreamsOf(ops[n].kind)[i])

AllFull == \A n \in DOMAIN ops : ops[n].status = "done" => Full(n)

LEMMA FullMeans == RecordedInFull <=> AllFull
BY DEF RecordedInFull, AllFull, Full, Put

LEMMA FullStays ==
  ASSUME TypeOK, TypeOK', LinesAreTrue, RecordedInFull, OpsGoOn, FilesGoOn,
         \A n \in DOMAIN ops' : ops'[n].status = "done" =>
           Full(n)' \/ (n \in DOMAIN ops /\ ops[n].status = "done")
  PROVE  RecordedInFull'
<1>1. ASSUME NEW n \in DOMAIN ops, ops[n].status = "done"
      PROVE  Full(n)'
  <2>1. ops'[n].kind = ops[n].kind /\ ops'[n].what = ops[n].what
    BY <1>1 DEF OpsGoOn
  <2>2. PICK streams, what : streams = StreamsOf(ops[n].kind) /\ what = ops[n].what
    OBVIOUS
  <2>3. \A i \in DOMAIN streams : Put(n, what, streams[i])
    BY <1>1, <2>2, FullMeans DEF AllFull, Full
  <2>4. \A i \in DOMAIN streams : Put(n, what, streams[i]) => Put(n, what, streams[i])'
    BY <1>1, PutStays
  <2>5. ops'[n].what = what /\ StreamsOf(ops'[n].kind) = streams
    BY <2>1, <2>2
  <2> QED BY <2>3, <2>4, <2>5 DEF Full
<1>2. \A n \in DOMAIN ops' : ops'[n].status = "done" => Full(n)'
  BY <1>1
<1>3. RecordedInFull' <=> AllFull'
  BY FullMeans, PTL
<1> QED BY <1>2, <1>3 DEF AllFull

\* The other processes run on.
Others(p) ==
  /\ \A r \in Procs \ {p} : run'[r] = run[r]
  /\ \A n \in DOMAIN ops : n # run[p].op => ops'[n] = ops[n]

LEMMA OthersRun ==
  ASSUME TypeOK, TypeOK', LinesAreTrue, OpsGoOn, FilesGoOn,
         NEW p \in Procs, RecorderRuns(p), NEW r \in Procs \ {p}, Others(p),
         RecorderRuns(r), PruneRuns(r), RecorderPut(r)
  PROVE  RecorderRuns(r)' /\ PruneRuns(r)' /\ RecorderPut(r)'
<1>1. run'[r] = run[r]
  BY DEF Others
<1>2. ASSUME run[r].kind \in Recorders
      PROVE  ops'[run[r].op] = ops[run[r].op] /\ run[r].op \in DOMAIN ops
  <2>1. run[r].op \in DOMAIN ops /\ ops[run[r].op].proc = r /\ run[r].op \in Nat
    BY <1>2, NumbersHold DEF RecorderRuns, Numbers
  <2>2. run[r].op # run[p].op
    <3>1. CASE run[p].kind \in Recorders
      BY <2>1, <3>1 DEF RecorderRuns
    <3>2. CASE run[p].kind \notin Recorders
      <4>1. run[p].op = 0
        BY <3>2 DEF RecorderRuns
      <4>2. 0 \notin DOMAIN ops
        BY NumbersHold DEF Numbers
      <4> QED BY <2>1, <4>1, <4>2
    <3> QED BY <3>1, <3>2
  <2> QED BY <2>1, <2>2 DEF Others
<1>3. RecorderRuns(r)'
  <2>1. CASE run[r].kind \in Recorders
    <3>1. /\ run[r].op \in DOMAIN ops' /\ ops'[run[r].op] = ops[run[r].op]
      BY <1>2, <2>1 DEF OpsGoOn
    <3>2. run[r].ts <= now => run[r].ts <= now'
      <4>1. run[r] \in Commands
        BY DEF TypeOK
      <4>2. run[r].ts \in Nat
        BY <4>1, TimeIsCounted DEF Commands
      <4> QED BY <4>2, NumbersHold, NumbersStay DEF Numbers, FilesGoOn
    <3> QED BY <1>1, <2>1, <3>1, <3>2 DEF RecorderRuns
  <2>2. CASE run[r].kind \notin Recorders
    BY <1>1, <2>2 DEF RecorderRuns
  <2> QED BY <2>1, <2>2
<1>4. PruneRuns(r)'
  <2>1. prunes > 0 => prunes' > 0
    BY NumbersHold, NumbersStay DEF Numbers, FilesGoOn
  <2>2. run[r].cutoff <= now - run[r].age => run[r].cutoff <= now' - run[r].age
    <3>1. run[r] \in Commands
      BY DEF TypeOK
    <3>2. run[r].cutoff \in Int /\ run[r].age \in Nat
      <4>1. run[r].cutoff \in Int /\ run[r].age \in Ages \cup {0}
        BY <3>1, CommandFields
      <4>2. \A age \in Ages \cup {0} : age \in Nat
        BY TimeIsCounted
      <4> QED BY <4>1, <4>2
    <3> QED BY <3>2, NumbersHold, NumbersStay DEF Numbers, FilesGoOn
  <2> QED BY <1>1, <2>1, <2>2 DEF PruneRuns
<1>5. RecorderPut(r)'
  <2>1. PICK c : c = run[r]
    OBVIOUS
  <2>2. ASSUME c.kind \in Recorders, NEW i \in 1 .. Len(StreamsOf(c.kind)) - Len(c.todo)
        PROVE  Put(c.op, c.what, StreamsOf(c.kind)[i])'
    <3>1. Put(c.op, c.what, StreamsOf(c.kind)[i])
      BY <2>1, <2>2 DEF RecorderPut
    <3>2. c.op \in DOMAIN ops
      BY <1>2, <2>1, <2>2
    <3> QED BY <3>1, <3>2, PutStays
  <2> QED BY <1>1, <2>1, <2>2 DEF RecorderPut
<1> QED BY <1>3, <1>4, <1>5


\* A step of one process keeps the invariant, if what it changes itself does.
LEMMA StepOf ==
  ASSUME RInv, TypeOK', NEW p \in Procs, OpsGoOn, FilesGoOn, Others(p),
         RecorderRuns(p)', PruneRuns(p)', RecorderPut(p)', HoldersAgree',
         Opens(p)', \A q \in Paths : Openers(q)' \subseteq Openers(q) \cup {p},
         \A q \in Paths : \A l \in Held(q)' : l \in Held(q) \/ (NewLine(l)' /\ OrderOf(l, q)'),
         \A n \in DOMAIN ops' : ops'[n].status = "done" =>
           Full(n)' \/ (n \in DOMAIN ops /\ ops[n].status = "done")
  PROVE  RInv'
<1>1. /\ TypeOK /\ LinesAreTrue /\ PutInOrder /\ RecordedInFull
      /\ \A r \in Procs : RecorderRuns(r) /\ PruneRuns(r) /\ RecorderPut(r) /\ Opens(r)
  BY DEF RInv, Running
<1>2. LinesAreTrue'
  BY <1>1, LinesStayTrue
<1>3. PutInOrder'
  BY <1>1, OrderStays
<1>4. RecordedInFull'
  BY <1>1, FullStays
<1>5. \A r \in Procs \ {p} : RecorderRuns(r)' /\ PruneRuns(r)' /\ RecorderPut(r)'
  BY <1>1, OthersRun
<1>6. \A r \in Procs \ {p} : Opens(r)'
  BY <1>1 DEF Opens, Others
<1>7. Running'
  BY <1>5, <1>6 DEF Running
<1> QED BY <1>2, <1>3, <1>4, <1>7 DEF RInv

\* Only p opens or closes files, and it has nothing to write back.
PendingStays(p) ==
  /\ \A q \in Paths : Openers(q)' \subseteq Openers(q) \cup {p} /\ Openers(q) \subseteq Openers(q)' \cup {p}
  /\ \A q \in Paths : p \in Openers(q) => LinesKept(p) = {}
  /\ \A q \in Paths : p \in Openers(q)' => LinesKept(p)' = {}

\* Besides, the files keep their lines.
FilesStay(p) == PendingStays(p) /\ \A q \in Paths : FileLines(q)' = FileLines(q)

LEMMA LinesChange ==
  ASSUME TypeOK, NEW p \in Procs, PendingStays(p), \A r \in Procs \ {p} : run'[r] = run[r],
         NEW q \in Paths
  PROVE  \E pending : LinesIn(q) = FileLines(q) \cup pending /\ LinesIn(q)' = FileLines(q)' \cup pending
<1>1. Openers(q) \subseteq Procs
  BY DEF TypeOK, Openers, File
<1>2. \A r \in Procs \ {p} : LinesKept(r)' = LinesKept(r)
  BY DEF LinesKept
<1>3. PICK pending : pending = UNION {LinesKept(r) : r \in Openers(q)}
  OBVIOUS
<1>4. \A l : l \in pending <=> \E r \in Openers(q) : l \in LinesKept(r)
  BY <1>3
<1>5. \A l : l \in pending <=> \E r \in Openers(q)' : l \in LinesKept(r)'
  BY <1>1, <1>2, <1>4 DEF PendingStays
<1>6. LinesIn(q) = FileLines(q) \cup pending
  BY <1>4, WhatLinesAre DEF LinesAre
<1>7. \A l : l \in LinesIn(q)' <=> l \in FileLines(q)' \cup pending
  BY <1>5, LinesAreNext DEF LinesAre
<1>8. LinesIn(q)' = FileLines(q)' \cup pending
  BY <1>7
<1> QED BY <1>6, <1>8

LEMMA SameLines ==
  ASSUME TypeOK, NEW p \in Procs, FilesStay(p), \A r \in Procs \ {p} : run'[r] = run[r]
  PROVE  \A q \in Paths : LinesIn(q)' = LinesIn(q)
<1> SUFFICES ASSUME NEW q \in Paths
             PROVE  LinesIn(q)' = LinesIn(q)
  OBVIOUS
<1>1. PICK pending : LinesIn(q) = FileLines(q) \cup pending /\ LinesIn(q)' = FileLines(q)' \cup pending
  BY LinesChange DEF FilesStay
<1> QED BY <1>1 DEF FilesStay

\* A step that takes no line from a file and reads none.
LEMMA QuietStep ==
  ASSUME RInv, TypeOK', NEW p \in Procs, OpsGoOn, Others(p),
         prunes <= prunes', now' = now, exposed' = exposed,
         FilesStay(p), Opens(p)',
         run'[p].read = {} \/ (run'[p].read = run[p].read /\ run'[p].kept = run[p].kept),
         RecorderRuns(p)', PruneRuns(p)', RecorderPut(p)',
         \A n \in DOMAIN ops' : ops'[n].status = "done" =>
           Full(n)' \/ (n \in DOMAIN ops /\ ops[n].status = "done")
  PROVE  RInv'
<1>0. \A q \in Paths : LinesIn(q)' = LinesIn(q)
  BY SameLines DEF RInv, Others
<1>1. FilesGoOn
  BY <1>0, NumbersHold DEF FilesGoOn, RInv, Numbers
<1>2. \A q \in Paths : \A r \in Readers(q)' : r \in Readers(q) /\ LinesKept(r)' = LinesKept(r)
  BY DEF Readers, LinesKept, Others
<1>3. \A q \in Paths : Held(q)' \subseteq Held(q)
  BY <1>0, <1>2 DEF Held
<1>4. HoldersAgree'
  <2> SUFFICES ASSUME NEW q \in Paths, NEW r \in Readers(q)'
               PROVE  (/\ \A l \in LinesIn(q) : l \in LinesKept(r) \/ Lost(l, q)
                       /\ \A l \in LinesKept(r) : l \in LinesIn(q) \/ Lost(l, q)
                       /\ \A other \in Readers(q) : \A l \in LinesKept(r) : l \in LinesKept(other) \/ Lost(l, q))'
    BY DEF HoldersAgree
  <2>1. \A l \in Held(q) : Lost(l, q) => Lost(l, q)'
    <3>1. \A l \in Held(q) : l \in Lines
      BY DEF RInv, LinesAreTrue
    <3> QED BY <1>1, <3>1, LostStays DEF RInv
  <2>2. r \in Readers(q) /\ LinesKept(r)' = LinesKept(r) /\ LinesIn(q)' = LinesIn(q)
    BY <1>0, <1>2
  <2>3. LinesIn(q) \subseteq Held(q) /\ LinesKept(r) \subseteq Held(q)
    BY <2>2 DEF Held
  <2>4. /\ \A l \in LinesIn(q) : l \in LinesKept(r) \/ Lost(l, q)
        /\ \A l \in LinesKept(r) : l \in LinesIn(q) \/ Lost(l, q)
        /\ \A other \in Readers(q) : \A l \in LinesKept(r) : l \in LinesKept(other) \/ Lost(l, q)
    BY <2>2 DEF RInv, HoldersAgree
  <2> QED BY <1>2, <2>1, <2>2, <2>3, <2>4
<1>5. \A q \in Paths : Openers(q)' \subseteq Openers(q) \cup {p}
  BY DEF FilesStay, PendingStays
<1> QED BY <1>1, <1>3, <1>4, <1>5, StepOf

\* A process that has nothing open is at no file's end, and what it leaves alone stays.
LEMMA NothingOpen ==
  ASSUME RInv, NEW p \in Procs, ~ run[p].opened
  PROVE  \A q \in Paths : p \notin Openers(q)
BY DEF RInv, Running, Opens

LEMMA FilesLeftAlone ==
  ASSUME NEW p \in Procs, UNCHANGED files, \A q \in Paths : p \notin Openers(q)
  PROVE  FilesStay(p) /\ Opens(p)'
<1>1. \A q \in Paths : FileLines(q)' = FileLines(q) /\ Openers(q)' = Openers(q)
  BY DEF FileLines, Openers
<1> QED BY <1>1 DEF FilesStay, PendingStays, Opens

\* A process that has read a file has no other one open.
LEMMA OpensNowhere ==
  ASSUME RInv, NEW p \in Procs, NEW q \in Paths, q \in run[p].read
  PROVE  \A k \in Paths : p \in Openers(k) => k = q
<1>1. PruneRuns(p) /\ Opens(p)
  BY DEF RInv, Running
<1>2. run[p].kind \notin Recorders /\ \A k \in run[p].read : k = q
  BY <1>1 DEF PruneRuns, Recorders
<1> QED BY <1>1, <1>2 DEF Opens

\* One file has changed.
LEMMA FileBecomes ==
  ASSUME TypeOK, NEW q \in Paths, NEW file \in File, files' = [files EXCEPT ![q] = file]
  PROVE  /\ files' \in [Paths -> File \cup {NoFile}]
         /\ \A k \in Paths : k # q => FileLines(k)' = FileLines(k) /\ Openers(k)' = Openers(k)
         /\ FileLines(q)' = Range(file.lines) /\ Openers(q)' = file.open
<1>1. file # NoFile
  BY FileAssumption
<1>2. files' \in [Paths -> File \cup {NoFile}] /\ files'[q] = file
      /\ \A k \in Paths : k # q => files'[k] = files[k]
  BY DEF TypeOK
<1> QED BY <1>1, <1>2 DEF FileLines, Openers

-----------------------------------------------------------------------------
(***************************************************************************)
(* Beginning and ending a command.                                         *)
(***************************************************************************)
LEMMA IdleRuns ==
  ASSUME NEW p \in Procs, run'[p] = Idle
  PROVE  /\ RecorderRuns(p)' /\ PruneRuns(p)' /\ RecorderPut(p)'
         /\ run'[p].read = {} /\ LinesKept(p)' = {} /\ ~ run'[p].opened
<1>1. run'[p].kind = "idle" /\ run'[p].op = 0 /\ run'[p].read = {} /\ run'[p].kept = << >>
      /\ ~ run'[p].opened
  BY IdleFields
<1>2. "idle" \notin Recorders
  BY DEF Recorders
<1>3. LinesKept(p)' = {}
  BY <1>1 DEF LinesKept, Range
<1> QED BY <1>1, <1>2, <1>3 DEF RecorderRuns, PruneRuns, RecorderPut

\* A command that begins is the last of ops.
LEMMA BeginsOp ==
  ASSUME TypeOK, NEW p \in Procs, NEW kind \in Kinds, NEW what \in Outcomes,
         NEW status \in {"running", "done"}, Begin(p, kind, what, status)
  PROVE  /\ run[p] = Idle
         /\ Len(ops) + 1 \in 1 .. MaxOps
         /\ ops' \in Seq(Op) /\ Len(ops') <= MaxOps
         /\ DOMAIN ops' = DOMAIN ops \cup {Len(ops) + 1}
         /\ Len(ops) + 1 \notin DOMAIN ops
         /\ \A n \in DOMAIN ops : ops'[n] = ops[n] /\ n < Len(ops) + 1
         /\ ops'[Len(ops) + 1] = [proc |-> p, kind |-> kind, ts |-> now, what |-> what, status |-> status]
<1> DEFINE op == [proc |-> p, kind |-> kind, ts |-> now, what |-> what, status |-> status]
<1>1. op \in Op
  BY DEF TypeOK, Op
<1>2. ops \in Seq(Op) /\ Len(ops) \in Nat /\ MaxOps \in Nat /\ Len(ops) < MaxOps
      /\ ops' = Append(ops, op) /\ run[p] = Idle
  BY ObservabilityAssumption DEF TypeOK, Begin
<1> HIDE DEF op
<1>3. /\ ops' \in Seq(Op) /\ Len(ops') = Len(ops) + 1
      /\ DOMAIN ops' = 1 .. Len(ops) + 1 /\ DOMAIN ops = 1 .. Len(ops)
      /\ \A n \in 1 .. Len(ops) : ops'[n] = ops[n]
      /\ ops'[Len(ops) + 1] = op
  BY <1>1, <1>2
<1>4. \A k, m \in Nat : k < m => k + 1 \in 1 .. m /\ k + 1 <= m
  OBVIOUS
<1>5. \A k \in Nat : 1 .. k + 1 = (1 .. k) \cup {k + 1} /\ k + 1 \notin 1 .. k
                     /\ \A n \in 1 .. k : n < k + 1
  OBVIOUS
<1> QED BY <1>2, <1>3, <1>4, <1>5 DEF op

LEMMA BeginGoesOn ==
  ASSUME TypeOK, NEW p \in Procs, NEW kind \in Kinds, NEW what \in Outcomes,
         NEW status \in {"running", "done"}, Begin(p, kind, what, status)
  PROVE  OpsGoOn
BY BeginsOp DEF OpsGoOn

\* A command that ends is idle, and only its status changes.
LEMMA EndsOp ==
  ASSUME RInv, NEW p \in Procs, NEW status \in {"done", "threw", "killed"}, End(p, status)
  PROVE  /\ run' \in [Procs -> Commands] /\ run'[p] = Idle
         /\ ops' \in Seq(Op) /\ Len(ops') <= MaxOps /\ DOMAIN ops' = DOMAIN ops
         /\ OpsGoOn /\ Others(p)
         /\ \A n \in DOMAIN ops : ops'[n].status = "done" =>
              ops[n].status = "done" \/ (status = "done" /\ n = run[p].op)
         /\ \A n \in DOMAIN ops : /\ ops'[n].proc = ops[n].proc /\ ops'[n].kind = ops[n].kind
                                  /\ ops'[n].what = ops[n].what
<1>1. TypeOK /\ RecorderRuns(p)
  BY DEF RInv, Running
<1>2. /\ run' \in [Procs -> Commands] /\ run'[p] = Idle
      /\ \A r \in Procs \ {p} : run'[r] = run[r]
  <2>1. run \in [Procs -> Commands] /\ run' = [run EXCEPT ![p] = Idle]
    BY <1>1 DEF TypeOK, End
  <2> QED BY <2>1, IdleFields
<1>3. ops \in Seq(Op) /\ Len(ops) <= MaxOps
  BY <1>1 DEF TypeOK
<1>4. CASE run[p].op = 0
  <2>1. ops' = ops
    BY <1>4 DEF End
  <2> QED BY <1>2, <1>3, <2>1 DEF OpsGoOn, Others
<1>5. CASE run[p].op # 0
  <2>1. run[p].op \in DOMAIN ops /\ ops[run[p].op].status = "running"
    BY <1>1, <1>5 DEF RecorderRuns
  <2>2. PICK n : n = run[p].op
    OBVIOUS
  <2>3. ops' = [ops EXCEPT ![n].status = status]
    BY <1>5, <2>2 DEF End
  <2>4. n \in DOMAIN ops /\ ops[n] \in Op /\ ops[n].status = "running"
    BY <1>3, <2>1, <2>2
  <2> DEFINE new == [ops[n] EXCEPT !.status = status]
  <2>5. /\ new \in Op
        /\ new.proc = ops[n].proc /\ new.kind = ops[n].kind /\ new.ts = ops[n].ts
        /\ new.what = ops[n].what /\ new.status = status
    BY <2>4 DEF Op
  <2>6. ops' = [ops EXCEPT ![n] = new]
    BY <2>3
  <2> HIDE DEF new
  <2>7. /\ ops' \in Seq(Op) /\ Len(ops') = Len(ops) /\ DOMAIN ops' = DOMAIN ops
        /\ ops'[n] = new /\ \A m \in DOMAIN ops : m # n => ops'[m] = ops[m]
    BY <1>3, <2>4, <2>5, <2>6
  <2>8. OpsGoOn
    BY <2>4, <2>5, <2>7 DEF OpsGoOn
  <2>9. Others(p)
    BY <1>2, <2>2, <2>7 DEF Others
  <2> QED BY <1>2, <1>3, <2>2, <2>4, <2>5, <2>7, <2>8, <2>9
<1> QED BY <1>4, <1>5

\* A new event is the last of the buffer, and at most the first one goes.
LEMMA WhatIsWritten ==
  ASSUME NEW buffer \in Seq(Event), Len(buffer) <= AuditLimit, NEW event \in Event
  PROVE  /\ write(buffer, event) \in Seq(Event)
         /\ Len(write(buffer, event)) <= AuditLimit
         /\ \E gone \in {0, 1} :
              /\ gone <= Len(buffer)
              /\ Len(write(buffer, event)) = Len(buffer) + 1 - gone
              /\ \A i \in 1 .. Len(buffer) - gone : write(buffer, event)[i] = buffer[i + gone]
              /\ write(buffer, event)[Len(buffer) + 1 - gone] = event
<1>0. AuditLimit \in Nat /\ AuditLimit >= 1 /\ Len(buffer) \in Nat
  BY ObservabilityAssumption
<1>1. CASE Len(buffer) < AuditLimit
  <2>1. write(buffer, event) = Append(buffer, event)
    BY <1>1 DEF write
  <2>2. /\ Append(buffer, event) \in Seq(Event)
        /\ Len(Append(buffer, event)) = Len(buffer) + 1
        /\ \A i \in 1 .. Len(buffer) : Append(buffer, event)[i] = buffer[i]
        /\ Append(buffer, event)[Len(buffer) + 1] = event
    OBVIOUS
  <2> QED BY <1>0, <1>1, <2>1, <2>2
<1>2. CASE ~ (Len(buffer) < AuditLimit)
  <2>1. write(buffer, event) = Append(Tail(buffer), event)
    BY <1>2 DEF write
  <2>2. Len(buffer) = AuditLimit /\ buffer # <<>>
    BY <1>0, <1>2
  <2>3. /\ Tail(buffer) \in Seq(Event) /\ Len(Tail(buffer)) = Len(buffer) - 1
        /\ \A i \in 1 .. Len(buffer) - 1 : Tail(buffer)[i] = buffer[i + 1]
    BY <2>2
  <2>4. PICK rest \in Seq(Event) : rest = Tail(buffer)
    BY <2>3
  <2>5. /\ Append(rest, event) \in Seq(Event)
        /\ Len(Append(rest, event)) = Len(rest) + 1
        /\ \A i \in 1 .. Len(rest) : Append(rest, event)[i] = rest[i]
        /\ Append(rest, event)[Len(rest) + 1] = event
    OBVIOUS
  <2> QED BY <1>0, <2>1, <2>2, <2>3, <2>4, <2>5
<1> QED BY <1>1, <1>2

\* The buffers after an event of one process.
LEMMA AuditedType ==
  ASSUME TypeOK, NEW p \in Procs, NEW what \in Outcomes, Len(ops) + 1 \in 1 .. MaxOps,
         Audited(p, what)
  PROVE  /\ audit' \in [Procs -> Seq(Event)]
         /\ \A r \in Procs : Len(audit'[r]) <= AuditLimit
<1> DEFINE event == [op |-> Len(ops) + 1, what |-> what]
<1>1. event \in Event
  BY DEF Event
<1> HIDE DEF event
<1>2. /\ audit \in [Procs -> Seq(Event)]
      /\ \A r \in Procs : Len(audit[r]) <= AuditLimit
  BY DEF TypeOK
<1>3. audit' = [audit EXCEPT ![p] = write(audit[p], event)]
  BY DEF Audited, event
<1>4. audit[p] \in Seq(Event) /\ Len(audit[p]) <= AuditLimit
  BY <1>2
<1>5. write(audit[p], event) \in Seq(Event) /\ Len(write(audit[p], event)) <= AuditLimit
  BY <1>1, <1>4, WhatIsWritten
<1> QED BY <1>2, <1>3, <1>5

\* They stay, or one of them is cleared.
LEMMA ClearedType ==
  ASSUME TypeOK, NEW p \in Procs, audit' = audit \/ audit' = [audit EXCEPT ![p] = <<>>]
  PROVE  audit' \in [Procs -> Seq(Event)] /\ \A r \in Procs : Len(audit'[r]) <= AuditLimit
<1>1. CASE audit' = audit
  BY <1>1 DEF TypeOK
<1>2. CASE audit' = [audit EXCEPT ![p] = <<>>]
  <2>1. <<>> \in Seq(Event) /\ Len(<<>>) = 0 /\ 0 <= AuditLimit
    BY ObservabilityAssumption
  <2>2. audit'[p] = <<>> /\ \A r \in Procs \ {p} : audit'[r] = audit[r]
    BY <1>2 DEF TypeOK
  <2>3. audit' \in [Procs -> Seq(Event)]
    BY <1>2, <2>1 DEF TypeOK
  <2>4. \A r \in Procs : Len(audit'[r]) <= AuditLimit
    BY <2>1, <2>2 DEF TypeOK
  <2> QED BY <2>3, <2>4
<1> QED BY <1>1, <1>2


-----------------------------------------------------------------------------
(***************************************************************************)
(* The steps that take nothing from a file.                                *)
(***************************************************************************)

\* A hook that records nothing but its audit event.
LEMMA HookStep ==
  ASSUME RInv, NEW p \in Procs, NEW what \in Outcomes,
         Begin(p, "hook", what, "done"), Audited(p, what),
         UNCHANGED <<files, run, now, prunes, exposed, faults>>
  PROVE  RInv'
<1>1. TypeOK /\ RecorderRuns(p) /\ PruneRuns(p) /\ RecorderPut(p)
  BY DEF RInv, Running
<1>2. "hook" \in Kinds
  BY DEF Kinds, Hooks
<1>3. /\ run[p] = Idle
      /\ Len(ops) + 1 \in 1 .. MaxOps
      /\ ops' \in Seq(Op) /\ Len(ops') <= MaxOps
      /\ DOMAIN ops' = DOMAIN ops \cup {Len(ops) + 1}
      /\ \A n \in DOMAIN ops : ops'[n] = ops[n]
      /\ ops'[Len(ops) + 1] = [proc |-> p, kind |-> "hook", ts |-> now, what |-> what, status |-> "done"]
  BY <1>1, <1>2, BeginsOp
<1>4. OpsGoOn
  BY <1>1, <1>2, BeginGoesOn
<1>5. Others(p)
  BY <1>3 DEF Others
<1>6. TypeOK'
  BY <1>1, <1>3, AuditedType DEF TypeOK
<1>7. RecorderRuns(p)' /\ PruneRuns(p)' /\ RecorderPut(p)' /\ run'[p].read = {}
  BY <1>3, IdleRuns
<1>8. ASSUME NEW n \in DOMAIN ops', ops'[n].status = "done"
      PROVE  Full(n)' \/ (n \in DOMAIN ops /\ ops[n].status = "done")
  <2>1. CASE n \in DOMAIN ops
    BY <1>3, <1>8, <2>1
  <2>2. CASE n = Len(ops) + 1
    <3>1. ops'[n].kind = "hook"
      BY <1>3, <2>2
    <3>2. StreamsOf(ops'[n].kind) = <<>>
      BY <3>1 DEF StreamsOf
    <3> QED BY <3>2 DEF Full
  <2> QED BY <1>3, <2>1, <2>2
<1>9. FilesStay(p) /\ Opens(p)'
  BY <1>3, IdleFields, NothingOpen, FilesLeftAlone
<1>10. prunes <= prunes'
  BY <1>1, NumbersHold DEF Numbers
<1> QED BY <1>4, <1>5, <1>6, <1>7, <1>8, <1>9, <1>10, QuietStep

\* A command begins that records something.
LEMMA RecordingStep ==
  ASSUME RInv, NEW p \in Procs, NEW kind \in Recorders, NEW s \in Sessions \cup {Skill},
         NEW what \in Outcomes, s \in Sessions \/ kind = "skill",
         StartRecording(p, kind, s, what),
         Audited(p, what) \/ UNCHANGED audit,
         UNCHANGED <<files, now, prunes, exposed, faults>>
  PROVE  RInv'
<1>1. TypeOK
  BY DEF RInv
<1>2. kind \in Kinds
  BY DEF Kinds
<1>3. /\ run[p] = Idle
      /\ Len(ops) + 1 \in 1 .. MaxOps
      /\ ops' \in Seq(Op) /\ Len(ops') <= MaxOps
      /\ DOMAIN ops' = DOMAIN ops \cup {Len(ops) + 1}
      /\ \A n \in DOMAIN ops : ops'[n] = ops[n]
      /\ ops'[Len(ops) + 1] = [proc |-> p, kind |-> kind, ts |-> now, what |-> what, status |-> "running"]
  BY <1>1, <1>2, BeginsOp DEF StartRecording
<1>4. OpsGoOn
  BY <1>1, <1>2, BeginGoesOn DEF StartRecording
<1>5. PICK n, c : n = Len(ops) + 1 /\ c = Recording(kind, s, what, n)
  OBVIOUS
<1>6. now \in Days
  BY <1>1 DEF TypeOK
<1>7. /\ c \in Commands
      /\ c.kind = kind /\ c.op = n /\ c.what = what /\ c.ts = now
      /\ c.todo = Targets(kind, s, now)
      /\ c.read = {} /\ c.session = s /\ c.kept = << >>
  BY <1>3, <1>5, <1>6, RecordingFields
<1>8. run \in [Procs -> Commands] /\ run' = [run EXCEPT ![p] = c]
  BY <1>1, <1>5 DEF TypeOK, StartRecording
<1>9. run' \in [Procs -> Commands] /\ run'[p] = c /\ \A r \in Procs \ {p} : run'[r] = run[r]
  BY <1>7, <1>8
<1>10. Others(p)
  BY <1>3, <1>9 DEF Others
<1>11. TypeOK'
  <2>1. /\ audit' \in [Procs -> Seq(Event)]
        /\ \A r \in Procs : Len(audit'[r]) <= AuditLimit
    <3>1. CASE Audited(p, what)
      BY <1>1, <1>3, <3>1, AuditedType
    <3>2. CASE UNCHANGED audit
      BY <1>1, <3>2 DEF TypeOK
    <3> QED BY <3>1, <3>2
  <2> QED BY <1>1, <1>3, <1>9, <2>1 DEF TypeOK
<1>12. /\ c.todo # <<>> /\ Len(c.todo) = Len(StreamsOf(kind))
       /\ \A j \in DOMAIN c.todo : c.todo[j][1] = StreamsOf(kind)[j]
       /\ Len(StreamsOf(kind)) \in Nat /\ DOMAIN c.todo \subseteq Nat
  <2>1. /\ c.todo \in Seq(Paths)
        /\ c.todo # <<>> /\ Len(c.todo) = Len(StreamsOf(kind))
        /\ \A j \in DOMAIN c.todo : c.todo[j][1] = StreamsOf(kind)[j]
    BY <1>6, <1>7, TargetsMatch
  <2>2. DOMAIN c.todo \subseteq Nat
    BY <2>1
  <2> QED BY <2>1, <2>2, StreamsDiffer
<1>13. RecorderRuns(p)'
  <2>1. n \in DOMAIN ops' /\ ops'[n].proc = p /\ ops'[n].kind = kind /\ ops'[n].what = what
        /\ ops'[n].status = "running" /\ ops'[n].ts = now
    BY <1>3, <1>5
  <2>2. now \in Nat
    BY <1>1, NumbersHold DEF Numbers
  <2>3. \A j \in DOMAIN c.todo : c.todo[j][1] = StreamsOf(kind)[Len(StreamsOf(kind)) - Len(c.todo) + j]
    <3>1. \A j \in DOMAIN c.todo : Len(StreamsOf(kind)) - Len(c.todo) + j = j
      BY <1>12
    <3> QED BY <1>12, <3>1
  <2>4. /\ run'[p].kind = kind /\ run'[p].op = n /\ run'[p].what = what /\ run'[p].ts = now
        /\ run'[p].todo = c.todo /\ now' = now /\ run'[p].session = s
    BY <1>7, <1>9
  <2>5. Len(c.todo) <= Len(StreamsOf(kind))
    BY <1>12
  <2>6. PICK streams, t : streams = StreamsOf(kind) /\ t = c.todo
    OBVIOUS
  <2>7. t # <<>> /\ Len(t) <= Len(streams)
        /\ \A j \in DOMAIN t : t[j][1] = streams[Len(streams) - Len(t) + j]
    BY <1>12, <2>3, <2>5, <2>6
  <2>8. run'[p].kind = kind /\ run'[p].todo = t /\ StreamsOf(run'[p].kind) = streams
    BY <2>4, <2>6
  <2> QED BY <2>1, <2>2, <2>4, <2>7, <2>8 DEF RecorderRuns
<1>14. PruneRuns(p)'
  <2>1. kind # "prune"
    BY DEF Recorders
  <2> QED BY <1>7, <1>9, <2>1 DEF PruneRuns
<1>15. RecorderPut(p)'
  <2>1. 1 .. Len(StreamsOf(kind)) - Len(c.todo) = {}
    BY <1>12
  <2> QED BY <1>7, <1>9, <2>1 DEF RecorderPut
<1>16. ASSUME NEW m \in DOMAIN ops', ops'[m].status = "done"
      PROVE  m \in DOMAIN ops /\ ops[m].status = "done"
  BY <1>3, <1>16
<1>17. FilesStay(p) /\ Opens(p)'
  BY <1>3, IdleFields, NothingOpen, FilesLeftAlone
<1>18. prunes <= prunes'
  BY <1>1, NumbersHold DEF Numbers
<1>19. run'[p].read = {}
  BY <1>7, <1>9
<1> QED BY <1>4, <1>10, <1>11, <1>13, <1>14, <1>15, <1>16, <1>17, <1>18, <1>19, QuietStep

\* The hooks (execute of each) and the recorded runs.
LEMMA HooksStep ==
  ASSUME RInv, NEW p \in Procs,
         \/ PreToolUse(p) \/ SessionStart(p) \/ Stop(p) \/ Notification(p) \/ PostToolUse(p)
         \/ RecordAgentRun(p) \/ RecordSearchRun(p) \/ RecordActivation(p)
  PROVE  RInv'
<1>0. {"post_tool_use", "agent_run", "search_run", "skill"} = Recorders
  BY DEF Recorders
<1>1. CASE PreToolUse(p)
  BY <1>1, HookStep, OutcomesAre DEF PreToolUse
<1>2. CASE SessionStart(p)
  BY <1>2, HookStep, OutcomesAre DEF SessionStart
<1>3. CASE Stop(p)
  BY <1>3, HookStep, OutcomesAre DEF Stop
<1>4. CASE Notification(p)
  BY <1>4, HookStep, OutcomesAre DEF Notification
<1>5. CASE PostToolUse(p)
  <2>1. PICK s \in Sessions, what \in PostOutcomes :
               StartRecording(p, "post_tool_use", s, what) /\ Audited(p, what)
    BY <1>5 DEF PostToolUse
  <2> QED BY <1>0, <1>5, <2>1, RecordingStep, OutcomesAre DEF PostToolUse
<1>6. CASE RecordAgentRun(p)
  <2>1. PICK s \in Sessions : StartRecording(p, "agent_run", s, "completed")
    BY <1>6 DEF RecordAgentRun
  <2> QED BY <1>0, <1>6, <2>1, RecordingStep, OutcomesAre DEF RecordAgentRun
<1>7. CASE RecordSearchRun(p)
  <2>1. PICK s \in Sessions, what \in {"hits", "error"} : StartRecording(p, "search_run", s, what)
    BY <1>7 DEF RecordSearchRun
  <2> QED BY <1>0, <1>7, <2>1, RecordingStep, OutcomesAre DEF RecordSearchRun
<1>8. CASE RecordActivation(p)
  BY <1>0, <1>8, RecordingStep, OutcomesAre DEF RecordActivation
<1> QED BY <1>1, <1>2, <1>3, <1>4, <1>5, <1>6, <1>7, <1>8


\* A command that ends, and does not claim to be done with what it recorded.
LEMMA EndStep ==
  ASSUME RInv, NEW p \in Procs, NEW status \in {"done", "threw", "killed"}, End(p, status),
         status = "done" => run[p].op = 0,
         files' \in [Paths -> File \cup {NoFile}],
         FilesStay(p), \A q \in Paths : p \notin Openers(q)',
         UNCHANGED <<now, prunes, exposed>>, faults' \in 0 .. MaxFaults,
         audit' = audit \/ audit' = [audit EXCEPT ![p] = <<>>]
  PROVE  RInv'
<1>1. TypeOK
  BY DEF RInv
<1>2. /\ run' \in [Procs -> Commands] /\ run'[p] = Idle
      /\ ops' \in Seq(Op) /\ Len(ops') <= MaxOps /\ DOMAIN ops' = DOMAIN ops
      /\ OpsGoOn /\ Others(p)
      /\ \A n \in DOMAIN ops : ops'[n].status = "done" =>
           ops[n].status = "done" \/ (status = "done" /\ n = run[p].op)
  BY EndsOp
<1>3. TypeOK'
  <2>1. audit' \in [Procs -> Seq(Event)] /\ \A r \in Procs : Len(audit'[r]) <= AuditLimit
    BY <1>1, ClearedType
  <2> QED BY <1>1, <1>2, <2>1 DEF TypeOK
<1>4. RecorderRuns(p)' /\ PruneRuns(p)' /\ RecorderPut(p)' /\ run'[p].read = {}
  BY <1>2, IdleRuns
<1>5. ASSUME NEW n \in DOMAIN ops', ops'[n].status = "done"
      PROVE  n \in DOMAIN ops /\ ops[n].status = "done"
  <2>1. 0 \notin DOMAIN ops
    BY <1>1, NumbersHold DEF Numbers
  <2> QED BY <1>2, <1>5, <2>1
<1>6. prunes <= prunes' /\ now' = now /\ exposed' = exposed
  BY <1>1, NumbersHold DEF Numbers
<1>7. Opens(p)'
  BY DEF Opens
<1> QED BY <1>2, <1>3, <1>4, <1>5, <1>6, <1>7, QuietStep

\* A recorder that throws ends its command, or records a search as an error.
LEMMA ThrowStep ==
  ASSUME RInv, NEW p \in Procs, Writing(p), Throw(p),
         files' \in [Paths -> File \cup {NoFile}],
         FilesStay(p), \A q \in Paths : p \notin Openers(q)',
         UNCHANGED <<audit, now, prunes, exposed>>, faults' \in 0 .. MaxFaults
  PROVE  RInv'
<1>1. CASE ~ (run[p].kind = "search_run" /\ run[p].what = "hits")
  <2>1. End(p, "threw")
    BY <1>1 DEF Throw
  <2> QED BY <2>1, EndStep
<1>2. CASE run[p].kind = "search_run" /\ run[p].what = "hits"
  <2>1. TypeOK /\ RecorderRuns(p)
    BY DEF RInv, Running
  <2>2. PICK n, s, c : n = run[p].op /\ s = run[p].session /\ c = Recording("search_run", s, "error", n)
    OBVIOUS
  <2>3. run' = [run EXCEPT ![p] = c] /\ ops' = [ops EXCEPT ![n].what = "error"]
    BY <1>2, <2>2 DEF Throw
  <2>4. /\ n \in DOMAIN ops /\ ops[n].proc = p /\ ops[n].kind = "search_run" /\ ops[n].what = "hits"
        /\ ops[n].status = "running" /\ s \in Sessions /\ ops[n].ts <= run[p].ts /\ run[p].ts <= now
    BY <1>2, <2>1, <2>2 DEF RecorderRuns, Recorders
  <2>5. ops \in Seq(Op) /\ Len(ops) <= MaxOps /\ ops[n] \in Op /\ now \in Days
    BY <2>1, <2>4 DEF TypeOK
  <2>6. n \in 1 .. MaxOps
    <3>1. DOMAIN ops = 1 .. Len(ops) /\ Len(ops) \in Nat /\ MaxOps \in Nat
      BY <2>5, ObservabilityAssumption
    <3> QED BY <2>4, <2>5, <3>1
  <2>7. /\ "search_run" \in Recorders /\ "error" \in Outcomes
    BY OutcomesAre DEF Recorders
  <2>8. /\ c \in Commands
        /\ c.kind = "search_run" /\ c.op = n /\ c.what = "error" /\ c.session = s /\ c.ts = now
        /\ c.todo = Targets("search_run", s, now)
        /\ c.read = {} /\ c.kept = << >>
    BY <2>2, <2>4, <2>5, <2>6, <2>7, RecordingFields
  <2>9. run' \in [Procs -> Commands] /\ run'[p] = c /\ \A r \in Procs \ {p} : run'[r] = run[r]
    BY <2>1, <2>3, <2>8 DEF TypeOK
  <2> DEFINE new == [ops[n] EXCEPT !.what = "error"]
  <2>10. /\ new \in Op
         /\ new.proc = p /\ new.kind = "search_run" /\ new.ts = ops[n].ts
         /\ new.what = "error" /\ new.status = "running"
    BY <2>4, <2>5, <2>7 DEF Op
  <2>11. ops' = [ops EXCEPT ![n] = new]
    BY <2>3
  <2> HIDE DEF new
  <2>12. /\ ops' \in Seq(Op) /\ Len(ops') = Len(ops) /\ DOMAIN ops' = DOMAIN ops
         /\ ops'[n] = new /\ \A m \in DOMAIN ops : m # n => ops'[m] = ops[m]
    BY <2>4, <2>5, <2>10, <2>11
  <2>13. OpsGoOn
    BY <2>4, <2>10, <2>12 DEF OpsGoOn
  <2>14. Others(p)
    BY <2>2, <2>9, <2>12 DEF Others
  <2>15. TypeOK'
    BY <2>1, <2>5, <2>9, <2>12 DEF TypeOK
  <2>16. PICK streams, t : streams = StreamsOf("search_run") /\ t = c.todo
    OBVIOUS
  <2>17. /\ t # <<>> /\ Len(t) = Len(streams) /\ \A j \in DOMAIN t : t[j][1] = streams[j]
         /\ Len(streams) \in Nat /\ DOMAIN t \subseteq Nat
    <3>1. t \in Seq(Paths) /\ t # <<>> /\ Len(t) = Len(streams) /\ \A j \in DOMAIN t : t[j][1] = streams[j]
      BY <2>4, <2>5, <2>7, <2>8, <2>16, TargetsMatch
    <3>2. DOMAIN t \subseteq Nat
      BY <3>1
    <3> QED BY <2>16, <3>1, <3>2, StreamsDiffer
  <2>18. /\ run'[p].kind = "search_run" /\ run'[p].op = n /\ run'[p].what = "error"
         /\ run'[p].ts = now /\ run'[p].todo = t /\ now' = now /\ run'[p].session = s
         /\ StreamsOf(run'[p].kind) = streams
    BY <2>8, <2>9, <2>16
  <2>19. RecorderRuns(p)'
    <3>1. \A j \in DOMAIN t : t[j][1] = streams[Len(streams) - Len(t) + j]
      <4>1. \A j \in DOMAIN t : Len(streams) - Len(t) + j = j
        BY <2>17
      <4> QED BY <2>17, <4>1
    <3>2. /\ n \in DOMAIN ops' /\ ops'[n].proc = p /\ ops'[n].kind = "search_run"
          /\ ops'[n].what = "error" /\ ops'[n].status = "running" /\ ops'[n].ts = ops[n].ts
      BY <2>4, <2>10, <2>12
    <3>3. ops[n].ts <= now /\ now <= now
      <4>1. run[p] \in Commands
        BY <2>1 DEF TypeOK
      <4>2. ops[n].ts \in Nat /\ run[p].ts \in Nat /\ now \in Nat
        BY <2>1, <2>4, <4>1, NumbersHold, TimeIsCounted, CommandFields DEF Numbers
      <4> QED BY <2>4, <4>2
    <3>4. Len(t) <= Len(streams)
      BY <2>17
    <3> QED BY <2>4, <2>7, <2>17, <2>18, <3>1, <3>2, <3>3, <3>4 DEF RecorderRuns
  <2>20. PruneRuns(p)'
    BY <2>8, <2>9 DEF PruneRuns
  <2>21. RecorderPut(p)'
    <3>1. 1 .. Len(streams) - Len(t) = {}
      BY <2>17
    <3> QED BY <2>18, <3>1 DEF RecorderPut
  <2>22. ASSUME NEW m \in DOMAIN ops', ops'[m].status = "done"
         PROVE  m \in DOMAIN ops /\ ops[m].status = "done"
    BY <2>10, <2>12, <2>22
  <2>23. prunes <= prunes' /\ now' = now /\ exposed' = exposed
    BY <2>1, NumbersHold DEF Numbers
  <2>24. run'[p].read = {}
    BY <2>8, <2>9
  <2>25. Opens(p)'
    BY DEF Opens
  <2> QED BY <2>25, <2>13, <2>14, <2>15, <2>19, <2>20, <2>21, <2>22, <2>23, <2>24, QuietStep
<1> QED BY <1>1, <1>2


\* A process that has nothing to write back closes its file, or had none open.
LEMMA ClosingStays ==
  ASSUME RInv, NEW p \in Procs, BreaksOff(p), run[p].kept = << >>
  PROVE  /\ files' \in [Paths -> File \cup {NoFile}] /\ UNCHANGED exposed
         /\ \A q \in Paths : FileLines(q)' = FileLines(q)
         /\ \A q \in Paths : Openers(q)' = Openers(q) \ {p}
<1>1. TypeOK /\ RecorderRuns(p) /\ PruneRuns(p) /\ Opens(p)
  BY DEF RInv, Running
<1>2. CASE UNCHANGED <<files, exposed>> /\ \A q \in Paths : ~ Holds(p, q)
  <2>1. \A q \in Paths : Openers(q)' = Openers(q) /\ FileLines(q)' = FileLines(q) /\ p \notin Openers(q)
    BY <1>2 DEF Openers, FileLines, Holds
  <2> QED BY <1>1, <1>2, <2>1 DEF TypeOK
<1>3. ASSUME NEW q \in Paths, NEW torn \in BOOLEAN, Holds(p, q), Writing(p), UNCHANGED exposed,
             files' = [files EXCEPT ![q] = [Closed(files[q], p) EXCEPT !.torn = @ \/ torn]]
      PROVE  /\ files' \in [Paths -> File \cup {NoFile}]
             /\ \A k \in Paths : FileLines(k)' = FileLines(k)
             /\ \A k \in Paths : Openers(k)' = Openers(k) \ {p}
  <2>1. PICK file, closed, new : /\ file = files[q] /\ closed = Closed(file, p)
                                 /\ new = [closed EXCEPT !.torn = @ \/ torn]
    OBVIOUS
  <2>2. file \in File
    BY <1>1, <1>3, <2>1 DEF TypeOK, Holds
  <2>3. new \in File /\ new.lines = file.lines /\ new.open = file.open \ {p}
    <3>1. closed \in File /\ closed.lines = file.lines /\ closed.open = file.open \ {p}
      BY <2>1, <2>2 DEF Closed, File
    <3> QED BY <2>1, <3>1 DEF File
  <2>4. files' = [files EXCEPT ![q] = new]
    BY <1>3, <2>1
  <2>5. FileLines(q) = Range(file.lines) /\ Openers(q) = file.open
    BY <1>3, <2>1 DEF FileLines, Openers, Holds
  <2>6. \A k \in Paths : k # q => p \notin Openers(k)
    BY <1>1, <1>3, <2>1, <2>5 DEF Opens, Holds, Writing
  <2> QED BY <1>1, <2>3, <2>4, <2>5, <2>6, FileBecomes
<1>4. 0 .. Len(run[p].kept) - 1 = {}
  OBVIOUS
<1> QED BY <1>2, <1>3, <1>4 DEF BreaksOff

\* The append that fails, the name that is refused, the command that ends.
LEMMA FailuresStep ==
  ASSUME RInv, NEW p \in Procs,
         \/ RefuseName(p) \/ AppendFails(p) \/ UnlinkThrows(p) \/ FinishPrune(p)
         \/ (PruneFails(p) \/ Crash(p)) /\ run[p].kept = << >>
  PROVE  RInv'
<1>0. TypeOK /\ RecorderRuns(p) /\ PruneRuns(p) /\ Opens(p)
  BY DEF RInv, Running
<1>1. UNCHANGED files => files' \in [Paths -> File \cup {NoFile}]
  BY <1>0 DEF TypeOK
<1>2. UNCHANGED faults => faults' \in 0 .. MaxFaults
  BY <1>0 DEF TypeOK
<1>3. faults < MaxFaults /\ faults' = faults + 1 => faults' \in 0 .. MaxFaults
  <2>1. faults \in 0 .. MaxFaults /\ MaxFaults \in Nat
    BY <1>0, ObservabilityAssumption DEF TypeOK
  <2> QED BY <2>1
<1>4. ASSUME \A q \in Paths : p \notin Openers(q), UNCHANGED files
      PROVE  FilesStay(p) /\ \A q \in Paths : p \notin Openers(q)'
  <2>1. \A q \in Paths : Openers(q)' = Openers(q)
    BY <1>4 DEF Openers
  <2> QED BY <1>4, <2>1, FilesLeftAlone
<1>5. CASE RefuseName(p)
  <2>1. \A q \in Paths : p \notin Openers(q)
    BY <1>5, NothingOpen DEF RefuseName
  <2> QED BY <1>1, <1>2, <1>4, <1>5, <2>1, ThrowStep DEF RefuseName
<1>6. ASSUME BreaksOff(p), run[p].kept = << >>
      PROVE  /\ FilesStay(p) /\ \A q \in Paths : p \notin Openers(q)'
             /\ files' \in [Paths -> File \cup {NoFile}] /\ UNCHANGED exposed
  <2>1. /\ files' \in [Paths -> File \cup {NoFile}] /\ UNCHANGED exposed
        /\ \A q \in Paths : FileLines(q)' = FileLines(q)
        /\ \A q \in Paths : Openers(q)' = Openers(q) \ {p}
    BY <1>6, ClosingStays
  <2>2. LinesKept(p) = {}
    BY <1>6 DEF LinesKept, Range
  <2> QED BY <2>1, <2>2 DEF FilesStay, PendingStays
<1>7. CASE AppendFails(p)
  <2>1. /\ Writing(p) /\ Throw(p) /\ UNCHANGED <<audit, now, prunes>> /\ BreaksOff(p)
        /\ faults' \in 0 .. MaxFaults
    BY <1>3, <1>7 DEF AppendFails
  <2>2. run[p].kept = << >>
    BY <1>0, <2>1 DEF Writing, PruneRuns, Recorders
  <2> QED BY <1>6, <2>1, <2>2, ThrowStep
<1>8. CASE UnlinkThrows(p)
  <2>1. PICK q \in run[p].read : files[q] = NoFile
    BY <1>8 DEF UnlinkThrows
  <2>2. run[p].kind \notin Recorders
    BY <1>8 DEF UnlinkThrows, Pruning, Recorders
  <2>3. \A k \in Paths : p \notin Openers(k)
    BY <1>0, <2>1, <2>2 DEF Opens, PruneRuns, Openers
  <2> QED BY <1>1, <1>2, <1>4, <1>8, <2>3, EndStep DEF UnlinkThrows
<1>9. CASE FinishPrune(p)
  <2>1. run[p].op = 0 /\ run[p].kind \notin Recorders /\ run[p].read = {}
    BY <1>0, <1>9 DEF FinishPrune, Pruning, RecorderRuns, Recorders
  <2>2. \A k \in Paths : p \notin Openers(k)
    BY <1>0, <2>1 DEF Opens
  <2> QED BY <1>1, <1>2, <1>4, <1>9, <2>1, <2>2, EndStep DEF FinishPrune
<1>10. CASE PruneFails(p) /\ run[p].kept = << >>
  BY <1>3, <1>6, <1>10, EndStep DEF PruneFails
<1>11. CASE Crash(p) /\ run[p].kept = << >>
  BY <1>3, <1>6, <1>11, EndStep DEF Crash
<1> QED BY <1>5, <1>7, <1>8, <1>9, <1>10, <1>11

\* A step that leaves the commands.
LEMMA OpsStay ==
  ASSUME UNCHANGED ops
  PROVE  /\ OpsGoOn
         /\ \A n \in DOMAIN ops' : ops'[n].status = "done" => n \in DOMAIN ops /\ ops[n].status = "done"
BY DEF OpsGoOn

LEMMA PrunedAre ==
  /\ PrunedStreams \in Seq(Streams) /\ Len(PrunedStreams) = 4
  /\ Head(PrunedStreams) # "daily"
<1>1. /\ PrunedStreams \in Seq(Streams)
      /\ Len(PrunedStreams) = 4
  <2>1. PrunedStreams \in Seq(Streams)
    BY DEF PrunedStreams, Streams, SessionStreams, DayStreams
  <2>2. Len(PrunedStreams) = 4
    BY DEF PrunedStreams
  <2> QED BY <2>1, <2>2
<1>2. PrunedStreams[1] = "tokens"
  BY DEF PrunedStreams
<1>3. Head(PrunedStreams) = PrunedStreams[1]
  BY <1>1
<1> QED BY <1>1, <1>2, <1>3

\* A prune begins.
LEMMA StartPruneStep ==
  ASSUME RInv, NEW p \in Procs, StartPrune(p)
  PROVE  RInv'
<1>1. TypeOK
  BY DEF RInv
<1>2. PICK age \in Ages : run' = [run EXCEPT ![p] = [Idle EXCEPT !.kind = "prune", !.age = age,
                                                                 !.dirs = PrunedStreams]]
  BY DEF StartPrune
<1>3. PICK dirs : dirs = PrunedStreams
  OBVIOUS
<1>4. /\ dirs \in Seq(Streams) /\ Len(dirs) <= Len(PrunedStreams)
      /\ \A i \in DOMAIN dirs : dirs[i] \in Range(PrunedStreams)
  BY <1>3, PrunedAre DEF Range
<1>5. PICK c : c = [Idle EXCEPT !.kind = "prune", !.age = age, !.dirs = dirs]
  OBVIOUS
<1>6. /\ "skipped" \in Outcomes /\ 0 \in Days /\ 0 \in 0 .. MaxOps /\ "prune" \in Kinds \cup {"prune", "idle"}
      /\ <<>> \in Seq(Paths) /\ <<>> \in Seq(Lines)
  BY ObservabilityAssumption DEF Outcomes, Days
<1>7. c = [kind |-> "prune", op |-> 0, session |-> Skill, what |-> "skipped", ts |-> 0, todo |-> << >>,
           age |-> age, dirs |-> dirs, cutoff |-> 0, listed |-> {}, read |-> {}, kept |-> << >>,
           opened |-> FALSE]
  BY <1>5 DEF Idle
<1>8. /\ c \in Commands
      /\ c.kind = "prune" /\ c.op = 0 /\ c.age = age /\ c.dirs = dirs /\ c.listed = {} /\ c.read = {}
  BY <1>4, <1>6, <1>7 DEF Commands
<1>9. run' \in [Procs -> Commands] /\ run'[p] = c /\ \A r \in Procs \ {p} : run'[r] = run[r]
  BY <1>1, <1>2, <1>3, <1>5, <1>8 DEF TypeOK
<1>10. /\ prunes' \in 0 .. MaxPrunes /\ prunes' > 0 /\ prunes <= prunes'
       /\ UNCHANGED <<files, audit, now, ops, exposed, faults>>
  <2>1. prunes \in 0 .. MaxPrunes /\ prunes' = prunes + 1 /\ prunes < MaxPrunes /\ MaxPrunes \in Nat
    BY <1>1, ObservabilityAssumption DEF TypeOK, StartPrune
  <2> QED BY <2>1 DEF StartPrune
<1>11. TypeOK'
  BY <1>1, <1>9, <1>10 DEF TypeOK
<1>12. Others(p)
  BY <1>9, <1>10 DEF Others
<1>13. RecorderRuns(p)' /\ RecorderPut(p)'
  BY <1>8, <1>9 DEF RecorderRuns, RecorderPut, Recorders
<1>14. PruneRuns(p)'
  BY <1>3, <1>4, <1>8, <1>9, <1>10 DEF PruneRuns
<1>15. FilesStay(p) /\ Opens(p)'
  BY <1>10, IdleFields, NothingOpen, FilesLeftAlone DEF StartPrune
<1>16. run'[p].read = {} /\ now' = now /\ exposed' = exposed
  BY <1>8, <1>9, <1>10
<1> QED BY <1>10, <1>11, <1>12, <1>13, <1>14, <1>15, <1>16, OpsStay, QuietStep


\* A prune lists a directory.
LEMMA ListDirStep ==
  ASSUME RInv, NEW p \in Procs, ListDir(p)
  PROVE  RInv'
<1>1. TypeOK /\ PruneRuns(p) /\ RecorderRuns(p)
  BY DEF RInv, Running
<1>2. PICK old : old = run[p]
  OBVIOUS
<1>3. /\ old \in Commands /\ old.kind = "prune" /\ old.dirs # <<>> /\ old.read = {}
      /\ UNCHANGED <<files, audit, now, prunes, ops, exposed, faults>>
  BY <1>1, <1>2 DEF ListDir, Pruning, TypeOK
<1>4. PICK stream, cutoff, listed :
        /\ stream = Head(old.dirs)
        /\ cutoff = IF stream = "daily" THEN old.cutoff ELSE now - old.age
        /\ listed = {q \in Paths : q[1] = stream /\ files[q] # NoFile}
  OBVIOUS
<1>5. PICK c : c = [old EXCEPT !.dirs = Tail(old.dirs), !.cutoff = cutoff, !.listed = listed]
  OBVIOUS
<1>6. run' = [run EXCEPT ![p] = c]
  <2>1. run' = [run EXCEPT ![p] = [run[p] EXCEPT
                  !.dirs = Tail(run[p].dirs),
                  !.cutoff = IF Head(run[p].dirs) = "daily" THEN run[p].cutoff ELSE now - run[p].age,
                  !.listed = {q \in Paths : q[1] = Head(run[p].dirs) /\ files[q] # NoFile}]]
    BY DEF ListDir
  <2> QED BY <1>2, <1>4, <1>5, <2>1
<1>7. /\ old.op = 0 /\ prunes > 0 /\ old.age \in Ages
      /\ Len(old.dirs) <= 4
      /\ \A i \in DOMAIN old.dirs : old.dirs[i] \in Range(PrunedStreams)
      /\ old.dirs # PrunedStreams => old.cutoff <= now - old.age
  BY <1>1, <1>2, <1>3, PrunedAre DEF PruneRuns, RecorderRuns, Recorders
<1>8. now \in Nat /\ old.age \in Nat /\ old.cutoff \in Int
  <2>1. Ages \subseteq Nat /\ now \in Nat
    BY <1>1, TimeIsCounted, NumbersHold DEF Numbers
  <2> QED BY <1>3, <1>7, <2>1, CommandFields
<1>9. /\ Tail(old.dirs) \in Seq(Streams)
      /\ Len(Tail(old.dirs)) <= 3 /\ Tail(old.dirs) # PrunedStreams
      /\ \A i \in DOMAIN Tail(old.dirs) : Tail(old.dirs)[i] \in Range(PrunedStreams)
      /\ stream \in Range(PrunedStreams)
  <2>1. PICK dirs : dirs = old.dirs
    OBVIOUS
  <2>2. dirs \in Seq(Streams) /\ dirs # <<>> /\ Len(dirs) <= 4
    BY <1>3, <1>7, <2>1, CommandFields
  <2>3. /\ Tail(dirs) \in Seq(Streams) /\ Len(Tail(dirs)) = Len(dirs) - 1 /\ Len(dirs) \in Nat
        /\ \A i \in DOMAIN Tail(dirs) : i + 1 \in DOMAIN dirs /\ Tail(dirs)[i] = dirs[i + 1]
        /\ 1 \in DOMAIN dirs /\ Head(dirs) = dirs[1]
    BY <2>2
  <2>4. Len(Tail(dirs)) <= 3
    BY <2>2, <2>3
  <2>5. Tail(dirs) # PrunedStreams
    BY <2>2, <2>3, PrunedAre
  <2>6. \A i \in DOMAIN Tail(dirs) : Tail(dirs)[i] \in Range(PrunedStreams)
    BY <1>7, <2>1, <2>3
  <2> QED BY <1>4, <1>7, <2>1, <2>3, <2>4, <2>5, <2>6
<1>10. cutoff \in Int /\ cutoff <= now - old.age
  <2>1. CASE stream = "daily"
    <3>1. old.dirs # PrunedStreams
      BY <1>4, <2>1, PrunedAre
    <3> QED BY <1>4, <1>7, <1>8, <2>1, <3>1
  <2>2. CASE stream # "daily"
    BY <1>4, <1>8, <2>2
  <2> QED BY <2>1, <2>2
<1>11. listed \subseteq Paths /\ \A q \in listed : q[1] = stream
  BY <1>4
<1>12. /\ c \in Commands
       /\ c.kind = "prune" /\ c.op = 0 /\ c.age = old.age /\ c.dirs = Tail(old.dirs)
       /\ c.cutoff = cutoff /\ c.listed = listed /\ c.read = {}
  <2>1. PICK dirs : dirs = Tail(old.dirs)
    OBVIOUS
  <2>2. c = [old EXCEPT !.dirs = dirs, !.cutoff = cutoff, !.listed = listed]
    BY <1>5, <2>1
  <2>3. dirs \in Seq(Streams)
    BY <1>9, <2>1
  <2>4. /\ c \in Commands
        /\ c.kind = old.kind /\ c.op = old.op /\ c.age = old.age /\ c.dirs = dirs
        /\ c.cutoff = cutoff /\ c.listed = listed /\ c.read = old.read
    BY <1>3, <1>10, <1>11, <2>2, <2>3 DEF Commands
  <2> QED BY <1>3, <1>7, <2>1, <2>4
<1>13. run' \in [Procs -> Commands] /\ run'[p] = c /\ \A r \in Procs \ {p} : run'[r] = run[r]
  BY <1>1, <1>6, <1>12 DEF TypeOK
<1>14. TypeOK'
  BY <1>1, <1>3, <1>13 DEF TypeOK
<1>15. Others(p)
  BY <1>3, <1>13 DEF Others
<1>16. RecorderRuns(p)' /\ RecorderPut(p)'
  BY <1>12, <1>13 DEF RecorderRuns, RecorderPut, Recorders
<1>17. PruneRuns(p)'
  <2>1. \A q \in listed \cup {} : q[1] \in Range(PrunedStreams)
    BY <1>9, <1>11
  <2>2. Len(c.dirs) <= Len(PrunedStreams)
    <3>1. Len(Tail(old.dirs)) \in Nat
      BY <1>9
    <3> QED BY <1>9, <1>12, <3>1, PrunedAre
  <2> QED BY <1>3, <1>7, <1>9, <1>10, <1>12, <1>13, <2>1, <2>2 DEF PruneRuns
<1>18. FilesStay(p) /\ Opens(p)'
  <2>1. \A q \in Paths : p \notin Openers(q)
    BY <1>2, <1>3 DEF RInv, Running, Opens, Recorders
  <2> QED BY <1>3, <2>1, FilesLeftAlone
<1>19. run'[p].read = {} /\ now' = now /\ exposed' = exposed /\ prunes <= prunes' /\ UNCHANGED ops
  BY <1>1, <1>3, <1>12, <1>13, NumbersHold DEF Numbers
<1> QED BY <1>14, <1>15, <1>16, <1>17, <1>18, <1>19, OpsStay, QuietStep

\* A process exits.
LEMMA ExitStep ==
  ASSUME RInv, NEW p \in Procs, Exit(p)
  PROVE  RInv'
<1>1. TypeOK
  BY DEF RInv
<1>2. run[p] = Idle /\ audit' = [audit EXCEPT ![p] = <<>>]
      /\ UNCHANGED <<files, run, now, prunes, ops, exposed, faults>>
  BY DEF Exit
<1>3. audit' \in [Procs -> Seq(Event)] /\ \A r \in Procs : Len(audit'[r]) <= AuditLimit
  <2>1. <<>> \in Seq(Event) /\ Len(<<>>) = 0 /\ 0 <= AuditLimit
    BY ObservabilityAssumption
  <2>2. audit'[p] = <<>> /\ \A r \in Procs \ {p} : audit'[r] = audit[r]
    BY <1>1, <1>2 DEF TypeOK
  <2>3. audit' \in [Procs -> Seq(Event)]
    BY <1>1, <1>2, <2>1 DEF TypeOK
  <2>4. \A r \in Procs : Len(audit'[r]) <= AuditLimit
    BY <1>1, <2>1, <2>2 DEF TypeOK
  <2> QED BY <2>3, <2>4
<1>4. TypeOK'
  BY <1>1, <1>2, <1>3 DEF TypeOK
<1>5. Others(p) /\ run'[p] = Idle
  BY <1>2 DEF Others
<1>6. FilesStay(p) /\ Opens(p)'
  BY <1>2, IdleFields, NothingOpen, FilesLeftAlone
<1>7. prunes <= prunes' /\ now' = now /\ exposed' = exposed
  BY <1>1, <1>2, NumbersHold DEF Numbers
<1>8. RecorderRuns(p)' /\ PruneRuns(p)' /\ RecorderPut(p)' /\ run'[p].read = {}
  BY <1>5, IdleRuns
<1> QED BY <1>2, <1>4, <1>5, <1>6, <1>7, <1>8, OpsStay, QuietStep


\* A day passes.
LEMMA MidnightStep ==
  ASSUME RInv, Midnight
  PROVE  RInv'
<1>1. TypeOK /\ LinesAreTrue /\ HoldersAgree /\ Running /\ PutInOrder /\ RecordedInFull
  BY DEF RInv
<1>2. /\ now < MaxTime /\ now' = now + 1 /\ now \in Nat /\ MaxTime \in Nat
      /\ UNCHANGED <<files, run, audit, prunes, ops, exposed, faults>>
  BY <1>1, NumbersHold, ObservabilityAssumption DEF Midnight, Numbers
<1>3. TypeOK'
  <2>1. now' \in Days
    BY <1>2 DEF Days
  <2> QED BY <1>1, <1>2, <2>1 DEF TypeOK
<1>4. OpsGoOn /\ \A n \in DOMAIN ops' : ops'[n].status = "done" => n \in DOMAIN ops /\ ops[n].status = "done"
  BY <1>2, OpsStay
<1>5. /\ \A q \in Paths : /\ LinesIn(q)' = LinesIn(q) /\ Readers(q)' = Readers(q)
                          /\ Held(q)' = Held(q)
      /\ \A r \in Procs : LinesKept(r)' = LinesKept(r)
  BY <1>2 DEF LinesIn, Pending, Readers, Held, LinesKept
<1>6. FilesGoOn
  <2>1. now <= now' /\ prunes <= prunes'
    BY <1>1, <1>2, NumbersHold DEF Numbers
  <2> QED BY <1>2, <1>5, <2>1 DEF FilesGoOn
<1>7. LinesAreTrue'
  BY <1>1, <1>4, <1>5, LinesStayTrue
<1>8. PutInOrder'
  BY <1>1, <1>3, <1>4, <1>5, <1>6, OrderStays
<1>9. RecordedInFull'
  BY <1>1, <1>3, <1>4, <1>6, FullStays
<1>10. HoldersAgree'
  <2> SUFFICES ASSUME NEW q \in Paths, NEW r \in Readers(q)'
               PROVE  (/\ \A l \in LinesIn(q) : l \in LinesKept(r) \/ Lost(l, q)
                       /\ \A l \in LinesKept(r) : l \in LinesIn(q) \/ Lost(l, q)
                       /\ \A other \in Readers(q) : \A l \in LinesKept(r) : l \in LinesKept(other) \/ Lost(l, q))'
    BY DEF HoldersAgree
  <2>1. \A l \in Held(q) : Lost(l, q) => Lost(l, q)'
    <3>1. \A l \in Held(q) : l \in Lines
      BY <1>1 DEF LinesAreTrue
    <3> QED BY <1>1, <1>3, <1>6, <3>1, LostStays
  <2>2. r \in Readers(q) /\ r \in Procs /\ LinesKept(r)' = LinesKept(r)
    BY <1>5 DEF Readers
  <2>3. LinesIn(q) \subseteq Held(q) /\ LinesKept(r) \subseteq Held(q)
    BY <2>2 DEF Held
  <2>4. /\ \A l \in LinesIn(q) : l \in LinesKept(r) \/ Lost(l, q)
        /\ \A l \in LinesKept(r) : l \in LinesIn(q) \/ Lost(l, q)
        /\ \A other \in Readers(q) : \A l \in LinesKept(r) : l \in LinesKept(other) \/ Lost(l, q)
    BY <1>1, <2>2 DEF HoldersAgree
  <2>5. \A other \in Readers(q) : LinesKept(other)' = LinesKept(other)
    BY <1>5 DEF Readers
  <2> QED BY <1>5, <2>1, <2>2, <2>3, <2>4, <2>5
<1>11. Running'
  <2> SUFFICES ASSUME NEW r \in Procs
               PROVE  RecorderRuns(r)' /\ PruneRuns(r)' /\ RecorderPut(r)' /\ Opens(r)'
    BY DEF Running
  <2>7. Opens(r)'
    BY <1>1, <1>2 DEF Running, Opens, Openers
  <2>1. RecorderRuns(r) /\ PruneRuns(r) /\ RecorderPut(r) /\ run[r] \in Commands
    BY <1>1 DEF Running, TypeOK
  <2>2. run[r].ts \in Nat /\ run[r].cutoff \in Int /\ run[r].age \in Nat
    <3>1. run[r].ts \in Days /\ run[r].cutoff \in Int /\ run[r].age \in Ages \cup {0}
      BY <2>1, CommandFields
    <3>2. \A age \in Ages \cup {0} : age \in Nat
      BY TimeIsCounted
    <3> QED BY <3>1, <3>2, TimeIsCounted
  <2>3. /\ run[r].ts <= now => run[r].ts <= now'
        /\ run[r].cutoff <= now - run[r].age => run[r].cutoff <= now' - run[r].age
    BY <1>2, <2>2
  <2>4. RecorderRuns(r)'
    BY <1>2, <2>1, <2>3 DEF RecorderRuns
  <2>5. PruneRuns(r)'
    BY <1>2, <2>1, <2>3 DEF PruneRuns
  <2>6. RecorderPut(r)'
    <3>1. PICK c : c = run[r]
      OBVIOUS
    <3>2. ASSUME c.kind \in Recorders, NEW i \in 1 .. Len(StreamsOf(c.kind)) - Len(c.todo)
          PROVE  Put(c.op, c.what, StreamsOf(c.kind)[i])'
      <4>1. Put(c.op, c.what, StreamsOf(c.kind)[i])
        BY <2>1, <3>1, <3>2 DEF RecorderPut
      <4>2. c.op \in DOMAIN ops
        BY <2>1, <3>1, <3>2 DEF RecorderRuns
      <4> QED BY <1>1, <1>3, <1>4, <1>6, <4>1, <4>2, PutStays
    <3> QED BY <1>2, <3>1, <3>2 DEF RecorderPut
  <2> QED BY <2>4, <2>5, <2>6, <2>7
<1> QED BY <1>3, <1>7, <1>8, <1>9, <1>10, <1>11 DEF RInv


-----------------------------------------------------------------------------
(***************************************************************************)
(* Appending a line.                                                       *)
(***************************************************************************)

\* The file is created if there is none.
LEMMA OpenedLines ==
  ASSUME TypeOK, NEW p \in Procs, NEW q \in Paths, NEW file, file = Opened(files[q], p)
  PROVE  file \in File /\ Range(file.lines) = FileLines(q) /\ file.open = Openers(q) \cup {p}
<1>1. files[q] \in File \cup {NoFile}
  BY DEF TypeOK
<1>2. CASE files[q] = NoFile
  <2>1. file = [lines |-> << >>, torn |-> FALSE, open |-> {p}]
    BY <1>2 DEF Opened
  <2>2. << >> \in Seq(Lines) /\ Range(<< >>) = {}
    BY DEF Range
  <2>3. file \in File /\ file.lines = << >> /\ file.open = {p}
    BY <2>1, <2>2 DEF File
  <2> QED BY <1>2, <2>2, <2>3 DEF FileLines, Openers
<1>3. CASE files[q] # NoFile
  <2>1. PICK old : old = files[q]
    OBVIOUS
  <2>2. old \in File /\ file = [old EXCEPT !.open = old.open \cup {p}]
    BY <1>1, <1>3, <2>1 DEF Opened, File
  <2>3. file \in File /\ file.lines = old.lines /\ file.open = old.open \cup {p}
    BY <2>2 DEF File
  <2> QED BY <1>3, <2>1, <2>3 DEF FileLines, Openers
<1> QED BY <1>2, <1>3

\* The line is the last of its file, or lost: behind a line without an end, or with
\* the file.
LEMMA AppendedLines ==
  ASSUME TypeOK, NEW p \in Procs, NEW q \in Paths, NEW line \in Lines,
         \A k \in Paths : k # q => p \notin Openers(k),
         files' = IF Holds(p, q) THEN [files EXCEPT ![q] = Closed(Appended(@, line), p)] ELSE files
  PROVE  /\ files' \in [Paths -> File \cup {NoFile}]
         /\ \A k \in Paths : Openers(k)' = Openers(k) \ {p}
         /\ \A k \in Paths : k # q => FileLines(k)' = FileLines(k)
         /\ \/ FileLines(q)' = FileLines(q) \cup {line}
            \/ FileLines(q)' = FileLines(q) /\ Exposed(p, q)
<1>1. CASE ~ Holds(p, q)
  <2>1. \A k \in Paths : Openers(k)' = Openers(k) /\ FileLines(k)' = FileLines(k)
    BY <1>1 DEF Openers, FileLines
  <2>2. p \notin Openers(q) /\ Exposed(p, q)
    BY <1>1 DEF Holds, Openers, Exposed
  <2> QED BY <1>1, <2>1, <2>2 DEF TypeOK
<1>2. CASE Holds(p, q)
  <2>1. PICK file, put, new : file = files[q] /\ put = Appended(file, line) /\ new = Closed(put, p)
    OBVIOUS
  <2>2. file \in File /\ file # NoFile
    BY <1>2, <2>1 DEF TypeOK, Holds
  <2>3. /\ put \in File /\ put.open = file.open
        /\ \/ file.torn /\ put.lines = file.lines
           \/ Range(put.lines) = Range(file.lines) \cup {line}
    <3>1. CASE file.torn
      <4>1. put = [file EXCEPT !.torn = FALSE]
        BY <2>1, <3>1 DEF Appended
      <4> QED BY <2>2, <3>1, <4>1 DEF File
    <3>2. CASE ~ file.torn
      <4>1. PICK lines, more : lines = file.lines /\ more = Append(lines, line)
        OBVIOUS
      <4>2. lines \in Seq(Lines)
        BY <2>2, <4>1 DEF File
      <4>3. more \in Seq(Lines) /\ Range(more) = Range(lines) \cup {line}
        BY <4>1, <4>2, AppendedRange
      <4>4. put = [file EXCEPT !.lines = more]
        BY <2>1, <2>2, <3>2, <4>1 DEF Appended, File
      <4>5. put \in File /\ put.lines = more /\ put.open = file.open
        BY <2>2, <4>3, <4>4 DEF File
      <4> QED BY <4>1, <4>3, <4>5
    <3> QED BY <3>1, <3>2
  <2>4. new \in File /\ new.lines = put.lines /\ new.open = file.open \ {p}
    BY <2>1, <2>3 DEF Closed, File
  <2>5. files' = [files EXCEPT ![q] = new]
    BY <1>2, <2>1
  <2>6. FileLines(q) = Range(file.lines) /\ Openers(q) = file.open /\ (file.torn => Exposed(p, q))
    BY <2>1, <2>2 DEF FileLines, Openers, Exposed
  <2>7. /\ files' \in [Paths -> File \cup {NoFile}]
        /\ \A k \in Paths : k # q => FileLines(k)' = FileLines(k) /\ Openers(k)' = Openers(k)
        /\ FileLines(q)' = Range(new.lines) /\ Openers(q)' = new.open
    BY <2>4, <2>5, FileBecomes
  <2> QED BY <2>3, <2>4, <2>6, <2>7
<1> QED BY <1>1, <1>2

\* The streams that a recorder has still to write are the last ones of its kind.
EndOf(streams, todo) ==
  /\ todo \in Seq(Paths) /\ Len(todo) \in Nat \ {0}
  /\ Len(streams) \in Nat /\ DOMAIN streams = 1 .. Len(streams)
  /\ Len(todo) <= Len(streams)
  /\ Head(todo) \in Paths
  /\ Head(todo)[1] = streams[Len(streams) - Len(todo) + 1]
  /\ Tail(todo) \in Seq(Paths) /\ Len(Tail(todo)) = Len(todo) - 1
  /\ \A j \in DOMAIN Tail(todo) :
       Tail(todo)[j][1] = streams[Len(streams) - Len(Tail(todo)) + j]

LEMMA Remaining ==
  ASSUME TypeOK, NEW p \in Procs, RecorderRuns(p), run[p].kind \in Recorders,
         NEW streams, streams = StreamsOf(run[p].kind), NEW todo, todo = run[p].todo
  PROVE  EndOf(streams, todo)
<1>1. run[p] \in Commands
  BY DEF TypeOK
<1>2. todo \in Seq(Paths) /\ todo # <<>> /\ Len(todo) <= Len(streams)
      /\ \A j \in DOMAIN todo : todo[j][1] = streams[Len(streams) - Len(todo) + j]
  BY <1>1, CommandFields DEF RecorderRuns
<1>3. Len(streams) \in Nat /\ DOMAIN streams = 1 .. Len(streams)
  BY StreamsDiffer
<1>4. /\ Len(todo) \in Nat \ {0} /\ DOMAIN todo = 1 .. Len(todo)
      /\ Head(todo) = todo[1] /\ 1 \in DOMAIN todo /\ todo[1] \in Paths
      /\ Tail(todo) \in Seq(Paths) /\ Len(Tail(todo)) = Len(todo) - 1
      /\ \A j \in DOMAIN Tail(todo) : j \in Nat /\ j + 1 \in DOMAIN todo /\ Tail(todo)[j] = todo[j + 1]
  BY <1>2
<1>5. \A j \in DOMAIN Tail(todo) :
        Tail(todo)[j][1] = streams[Len(streams) - Len(Tail(todo)) + j]
  <2> TAKE j \in DOMAIN Tail(todo)
  <2>1. Tail(todo)[j][1] = streams[Len(streams) - Len(todo) + (j + 1)]
    BY <1>2, <1>4
  <2>2. Len(streams) - Len(todo) + (j + 1) = Len(streams) - Len(Tail(todo)) + j
    <3>1. \A a, b, c, d \in Int : d = b - 1 => a - b + (c + 1) = a - d + c
      OBVIOUS
    <3>2. Len(streams) \in Int /\ Len(todo) \in Int
      BY <1>3, <1>4
    <3>3. Len(Tail(todo)) = Len(todo) - 1
      BY <1>4
    <3>4. Len(Tail(todo)) \in Int
      BY <3>2, <3>3
    <3>5. j \in Int
      BY <1>4
    <3>6. PICK a, b, d : a = Len(streams) /\ b = Len(todo) /\ d = Len(Tail(todo))
      OBVIOUS
    <3>7. a - b + (j + 1) = a - d + j
      <4>1. a \in Int /\ b \in Int /\ j \in Int /\ d \in Int /\ d = b - 1
        BY <3>2, <3>3, <3>4, <3>5, <3>6
      <4> QED BY <3>1, <4>1
    <3> QED BY <3>6, <3>7, Zenon
  <2> QED BY <2>1, <2>2
<1> QED BY <1>2, <1>3, <1>4, <1>5 DEF EndOf


\* What AppendLine does to the command that appends.
LEMMA AppendRuns ==
  ASSUME RInv, NEW p \in Procs, AppendLine(p),
         NEW old, old = run[p], NEW streams, streams = StreamsOf(old.kind)
  PROVE  /\ run' \in [Procs -> Commands]
         /\ ops' \in Seq(Op) /\ Len(ops') <= MaxOps
         /\ OpsGoOn /\ Others(p) /\ run'[p].read = {} /\ LinesKept(p)' = {}
         /\ \A n \in DOMAIN ops : ops'[n].kind = ops[n].kind /\ ops'[n].what = ops[n].what
         /\ DOMAIN ops' = DOMAIN ops
         /\ RecorderRuns(p)' /\ PruneRuns(p)'
         /\ \/ /\ run'[p] = Idle /\ Len(old.todo) = 1
               /\ \A n \in DOMAIN ops : ops'[n].status = "done" => ops[n].status = "done" \/ n = old.op
            \/ /\ run'[p].kind = old.kind /\ run'[p].op = old.op /\ run'[p].what = old.what
               /\ Len(run'[p].todo) = Len(old.todo) - 1
               /\ UNCHANGED ops
<1>1. TypeOK /\ RecorderRuns(p) /\ PruneRuns(p) /\ old \in Commands
  BY DEF RInv, Running, TypeOK
<1>2. old.kind \in Recorders /\ old.todo # <<>> /\ UNCHANGED <<audit, now, prunes, faults>>
  BY DEF AppendLine, Writing
<1>3. CASE Len(old.todo) = 1
  <2>1. End(p, "done")
    BY <1>3 DEF AppendLine
  <2>2. /\ run' \in [Procs -> Commands] /\ run'[p] = Idle
        /\ ops' \in Seq(Op) /\ Len(ops') <= MaxOps /\ DOMAIN ops' = DOMAIN ops
        /\ OpsGoOn /\ Others(p)
        /\ \A n \in DOMAIN ops : ops'[n].status = "done" => ops[n].status = "done" \/ n = old.op
        /\ \A n \in DOMAIN ops : ops'[n].kind = ops[n].kind /\ ops'[n].what = ops[n].what
    BY <2>1, EndsOp
  <2>3. RecorderRuns(p)' /\ PruneRuns(p)' /\ run'[p].read = {} /\ LinesKept(p)' = {}
    BY <2>2, IdleRuns
  <2> QED BY <1>3, <2>2, <2>3
<1>4. CASE Len(old.todo) # 1
  <2>1. /\ run' = [run EXCEPT ![p] = [old EXCEPT !.todo = Tail(old.todo), !.opened = FALSE]]
        /\ UNCHANGED ops
    BY <1>4 DEF AppendLine
  <2>2. PICK todo, rest : todo = old.todo /\ rest = Tail(todo)
    OBVIOUS
  <2>3. /\ Len(todo) \in Nat \ {0} /\ Len(streams) \in Nat /\ Len(todo) <= Len(streams)
        /\ rest \in Seq(Paths) /\ Len(rest) = Len(todo) - 1
        /\ \A j \in DOMAIN rest : rest[j][1] = streams[Len(streams) - Len(rest) + j]
    <3>1. run[p].kind \in Recorders /\ streams = StreamsOf(run[p].kind) /\ todo = run[p].todo
      BY <1>2, <2>2
    <3>2. /\ Len(todo) \in Nat \ {0} /\ Len(streams) \in Nat /\ Len(todo) <= Len(streams)
          /\ Tail(todo) \in Seq(Paths) /\ Len(Tail(todo)) = Len(todo) - 1
          /\ \A j \in DOMAIN Tail(todo) : Tail(todo)[j][1] = streams[Len(streams) - Len(Tail(todo)) + j]
      <4>1. EndOf(streams, todo)
        BY <1>1, <3>1, Remaining
      <4> QED BY <4>1, Zenon DEF EndOf
    <3> QED BY <2>2, <3>2, Zenon
  <2>4. rest # <<>> /\ Len(rest) <= Len(streams)
    <3>1. Len(todo) # 1 /\ Len(todo) \in Nat \ {0} /\ Len(rest) = Len(todo) - 1
          /\ Len(streams) \in Nat /\ Len(todo) <= Len(streams)
      BY <1>4, <2>2, <2>3
    <3>2. Len(rest) # 0 /\ Len(rest) <= Len(streams)
      BY <3>1
    <3> QED BY <3>2
  <2>5. PICK c : c = [old EXCEPT !.todo = rest, !.opened = FALSE]
    OBVIOUS
  <2>6. /\ c \in Commands
        /\ c.kind = old.kind /\ c.op = old.op /\ c.what = old.what /\ c.ts = old.ts
        /\ c.session = old.session /\ c.todo = rest /\ c.read = old.read /\ c.kept = old.kept
    BY <1>1, <2>3, <2>5 DEF Commands
  <2>7. run' = [run EXCEPT ![p] = c]
    BY <2>1, <2>2, <2>5
  <2>8. run' \in [Procs -> Commands] /\ run'[p] = c /\ \A r \in Procs \ {p} : run'[r] = run[r]
    BY <1>1, <2>6, <2>7 DEF TypeOK
  <2>9. old.read = {} /\ old.kept = << >> /\ old.kind # "prune"
    BY <1>1, <1>2 DEF PruneRuns, Recorders
  <2>10. OpsGoOn /\ Others(p)
    BY <2>1, <2>8, OpsStay DEF Others
  <2>11. RecorderRuns(p)'
    <3>1. /\ old.op \in DOMAIN ops
          /\ ops[old.op].proc = p /\ ops[old.op].kind = old.kind /\ ops[old.op].what = old.what
          /\ ops[old.op].status = "running" /\ ops[old.op].ts <= old.ts /\ old.ts <= now
          /\ old.session \in Sessions \/ old.kind = "skill"
      BY <1>1, <1>2 DEF RecorderRuns
    <3>2. /\ run'[p].kind = old.kind /\ run'[p].op = old.op /\ run'[p].what = old.what /\ run'[p].ts = old.ts
          /\ run'[p].session = old.session /\ run'[p].todo = rest /\ StreamsOf(run'[p].kind) = streams
          /\ ops' = ops /\ now' = now
      BY <1>2, <2>1, <2>6, <2>8
    <3> QED BY <1>2, <2>3, <2>4, <3>1, <3>2 DEF RecorderRuns
  <2>12. PruneRuns(p)'
    BY <2>6, <2>8, <2>9 DEF PruneRuns
  <2>13. ops \in Seq(Op) /\ Len(ops) <= MaxOps
    BY <1>1 DEF TypeOK
  <2>14. LinesKept(p)' = {}
    BY <2>6, <2>8, <2>9 DEF LinesKept, Range
  <2> QED BY <2>1, <2>2, <2>3, <2>6, <2>8, <2>9, <2>10, <2>11, <2>12, <2>13, <2>14
<1> QED BY <1>3, <1>4

\* The file of the next line is opened.
LEMMA OpenToAppendStep ==
  ASSUME RInv, NEW p \in Procs, OpenToAppend(p)
  PROVE  RInv'
<1>1. TypeOK /\ RecorderRuns(p) /\ PruneRuns(p) /\ RecorderPut(p) /\ Opens(p)
  BY DEF RInv, Running
<1>2. PICK old, q : old = run[p] /\ q = Head(old.todo)
  OBVIOUS
<1>3. /\ old \in Commands /\ old.kind \in Recorders /\ q \in Paths
      /\ files' = [files EXCEPT ![q] = Opened(@, p)]
      /\ run' = [run EXCEPT ![p] = [old EXCEPT !.opened = TRUE]]
      /\ UNCHANGED <<audit, now, prunes, ops, exposed, faults>>
  <2>1. old \in Commands /\ old.todo # << >>
    BY <1>1, <1>2 DEF OpenToAppend, Writing, TypeOK
  <2>2. q \in Paths
    BY <1>2, <2>1, CommandFields
  <2> QED BY <1>1, <1>2, <2>1, <2>2 DEF OpenToAppend, Writing, TypeOK
<1>4. PICK file, c : file = Opened(files[q], p) /\ c = [old EXCEPT !.opened = TRUE]
  OBVIOUS
<1>5. file \in File /\ Range(file.lines) = FileLines(q) /\ file.open = Openers(q) \cup {p}
  BY <1>1, <1>3, <1>4, OpenedLines
<1>6. /\ files' \in [Paths -> File \cup {NoFile}]
      /\ \A k \in Paths : k # q => FileLines(k)' = FileLines(k) /\ Openers(k)' = Openers(k)
      /\ FileLines(q)' = FileLines(q) /\ Openers(q)' = Openers(q) \cup {p}
  BY <1>1, <1>3, <1>4, <1>5, FileBecomes
<1>7. /\ c \in Commands /\ c.opened
      /\ c.kind = old.kind /\ c.op = old.op /\ c.what = old.what /\ c.ts = old.ts
      /\ c.session = old.session /\ c.todo = old.todo /\ c.read = old.read /\ c.kept = old.kept
  BY <1>3, <1>4 DEF Commands
<1>8. run' \in [Procs -> Commands] /\ run'[p] = c /\ \A r \in Procs \ {p} : run'[r] = run[r]
  BY <1>1, <1>3, <1>4, <1>7 DEF TypeOK
<1>9. TypeOK'
  BY <1>1, <1>3, <1>6, <1>8 DEF TypeOK
<1>10. old.kind # "prune" /\ old.read = {} /\ old.kept = << >>
  BY <1>1, <1>2, <1>3 DEF PruneRuns, Recorders
<1>11. OpsGoOn /\ Others(p)
       /\ \A n \in DOMAIN ops' : ops'[n].status = "done" => n \in DOMAIN ops /\ ops[n].status = "done"
  BY <1>3, <1>8, OpsStay DEF Others
<1>12. RecorderRuns(p)'
  <2>1. /\ old.op \in DOMAIN ops
        /\ ops[old.op].proc = p /\ ops[old.op].kind = old.kind /\ ops[old.op].what = old.what
        /\ ops[old.op].status = "running" /\ ops[old.op].ts <= old.ts /\ old.ts <= now
        /\ old.session \in Sessions \/ old.kind = "skill"
    BY <1>1, <1>2, <1>3 DEF RecorderRuns
  <2>2. PICK streams, todo : streams = StreamsOf(old.kind) /\ todo = old.todo
    OBVIOUS
  <2>3. /\ todo # <<>> /\ Len(todo) <= Len(streams)
        /\ \A j \in DOMAIN todo : todo[j][1] = streams[Len(streams) - Len(todo) + j]
    BY <1>1, <1>2, <1>3, <2>2 DEF RecorderRuns
  <2>4. /\ run'[p].kind = old.kind /\ run'[p].op = old.op /\ run'[p].what = old.what /\ run'[p].ts = old.ts
        /\ run'[p].session = old.session /\ run'[p].todo = todo /\ StreamsOf(run'[p].kind) = streams
        /\ ops' = ops /\ now' = now
    BY <1>3, <1>7, <1>8, <2>2
  <2> QED BY <1>3, <2>1, <2>3, <2>4 DEF RecorderRuns
<1>13. PruneRuns(p)'
  BY <1>7, <1>8, <1>10 DEF PruneRuns
<1>14. FilesStay(p) /\ Opens(p)'
  <2>1. LinesKept(p) = {} /\ LinesKept(p)' = {}
    BY <1>2, <1>7, <1>8, <1>10 DEF LinesKept, Range
  <2>2. \A k \in Paths : p \in Openers(k) => k = q
    BY <1>1, <1>2, <1>3 DEF Opens
  <2>3. \A k \in Paths : p \in Openers(k)' => k = q
    BY <1>6, <2>2
  <2>4. run'[p].opened /\ run'[p].kind \in Recorders /\ Head(run'[p].todo) = q
    BY <1>2, <1>3, <1>7, <1>8
  <2>5. Opens(p)'
    BY <2>3, <2>4 DEF Opens
  <2>6. FilesStay(p)
    BY <1>6, <2>1 DEF FilesStay, PendingStays
  <2> QED BY <2>5, <2>6
<1>15. prunes <= prunes' /\ now' = now /\ exposed' = exposed /\ FilesGoOn
  <2>1. prunes <= prunes' /\ now <= now' /\ now' = now /\ exposed' = exposed
    BY <1>1, <1>3, NumbersHold DEF Numbers
  <2>2. \A k \in Paths : LinesIn(k)' = LinesIn(k)
    BY <1>1, <1>8, <1>14, SameLines
  <2> QED BY <2>1, <2>2 DEF FilesGoOn
<1>16. RecorderPut(p)'
  <2>1. ASSUME NEW i \in 1 .. Len(StreamsOf(old.kind)) - Len(old.todo)
        PROVE  Put(old.op, old.what, StreamsOf(old.kind)[i])'
    <3>1. Put(old.op, old.what, StreamsOf(old.kind)[i]) /\ old.op \in DOMAIN ops
      BY <1>1, <1>2, <1>3 DEF RecorderPut, RecorderRuns
    <3>2. LinesAreTrue
      BY DEF RInv
    <3> QED BY <1>1, <1>9, <1>11, <1>15, <3>1, <3>2, PutStays
  <2> QED BY <1>7, <1>8, <2>1 DEF RecorderPut
<1>17. run'[p].read = {}
  BY <1>7, <1>8, <1>10
<1> QED BY <1>9, <1>11, <1>12, <1>13, <1>14, <1>15, <1>16, <1>17, QuietStep

\* A line is appended.
LEMMA AppendLineStep ==
  ASSUME RInv, NEW p \in Procs, AppendLine(p)
  PROVE  RInv'
<1>1. /\ TypeOK /\ LinesAreTrue /\ HoldersAgree /\ PutInOrder
      /\ RecorderRuns(p) /\ RecorderPut(p) /\ PruneRuns(p) /\ Opens(p)
  BY DEF RInv, Running
<1>2. PICK old, streams, n, what, m, q, line :
        /\ old = run[p] /\ streams = StreamsOf(old.kind) /\ n = old.op /\ what = old.what
        /\ m = Len(streams) - Len(old.todo)
        /\ q = Head(old.todo)
        /\ line = [op |-> n, what |-> what, ts |-> IF q[1] = "progress" THEN now ELSE old.ts]
  OBVIOUS
<1>3. /\ Writing(p) /\ UNCHANGED <<audit, now, prunes, faults>>
      /\ files' = IF Holds(p, q) THEN [files EXCEPT ![q] = Closed(Appended(@, line), p)] ELSE files
      /\ exposed \subseteq exposed' /\ exposed' \subseteq exposed \cup {<<line.op, q>>}
      /\ Exposed(p, q) => <<line.op, q>> \in exposed'
  <2>1. Exposing(IF Exposed(p, q) THEN {line} ELSE {}, q)
    BY <1>2 DEF AppendLine
  <2>2. /\ exposed \subseteq exposed' /\ exposed' \subseteq exposed \cup {<<line.op, q>>}
        /\ Exposed(p, q) => <<line.op, q>> \in exposed'
    BY <2>1 DEF Exposing
  <2> QED BY <1>2, <2>2 DEF AppendLine
<1>4. /\ old \in Commands /\ old.kind \in Recorders /\ n \in DOMAIN ops
      /\ ops[n].kind = old.kind /\ ops[n].what = what /\ ops[n].ts <= old.ts /\ old.ts <= now
  BY <1>1, <1>2, <1>3 DEF Writing, RecorderRuns, TypeOK
<1>5. EndOf(streams, old.todo)
  <2>1. run[p].kind \in Recorders /\ streams = StreamsOf(run[p].kind) /\ old.todo = run[p].todo
    BY <1>2, <1>4
  <2> QED BY <1>1, <2>1, Remaining
<1>6. /\ Len(old.todo) \in Nat \ {0} /\ Len(streams) \in Nat /\ DOMAIN streams = 1 .. Len(streams)
      /\ Len(old.todo) <= Len(streams)
      /\ q \in Paths /\ q[1] = streams[m + 1]
  BY <1>2, <1>5, Zenon DEF EndOf
<1>7. m \in Nat /\ m + 1 \in DOMAIN streams
  BY <1>2, <1>6
<1>8. \A i, j \in DOMAIN streams : streams[i] = streams[j] => i = j
  BY <1>2, StreamsDiffer
<1>9. line \in Lines /\ line.op = n /\ line.what = what /\ ops[n].ts <= line.ts
  <2>1. n \in 1 .. MaxOps
    <3>1. n \in 0 .. MaxOps /\ n \in Nat /\ 0 \notin DOMAIN ops
      BY <1>1, <1>2, <1>4, CommandFields, NumbersHold DEF Numbers
    <3> QED BY <1>4, <3>1
  <2>2. what \in Outcomes /\ old.ts \in Days /\ now \in Days
    BY <1>1, <1>2, <1>4, CommandFields DEF TypeOK
  <2>3. PICK ts : ts = IF q[1] = "progress" THEN now ELSE old.ts
    OBVIOUS
  <2>4. ts \in Days /\ ops[n].ts <= ts
    <3>1. ops[n].ts \in Nat /\ old.ts \in Nat /\ now \in Nat
      BY <1>1, <1>4, <2>2, NumbersHold, TimeIsCounted DEF Numbers
    <3> QED BY <1>4, <2>2, <2>3, <3>1
  <2>5. line = [op |-> n, what |-> what, ts |-> ts]
    BY <1>2, <2>3
  <2> QED BY <2>1, <2>2, <2>4, <2>5 DEF Lines
<1>10. /\ files' \in [Paths -> File \cup {NoFile}]
       /\ \A k \in Paths : Openers(k)' = Openers(k) \ {p}
       /\ \A r \in Paths : r # q => FileLines(r)' = FileLines(r)
       /\ \/ FileLines(q)' = FileLines(q) \cup {line}
          \/ FileLines(q)' = FileLines(q) /\ Exposed(p, q)
  <2>1. \A k \in Paths : k # q => p \notin Openers(k)
    BY <1>1, <1>2, <1>4 DEF Opens
  <2> QED BY <1>1, <1>3, <1>6, <1>9, <2>1, AppendedLines
<1>11. /\ run' \in [Procs -> Commands]
       /\ ops' \in Seq(Op) /\ Len(ops') <= MaxOps
       /\ OpsGoOn /\ Others(p) /\ run'[p].read = {} /\ LinesKept(p)' = {}
       /\ \A k \in DOMAIN ops : ops'[k].kind = ops[k].kind /\ ops'[k].what = ops[k].what
       /\ DOMAIN ops' = DOMAIN ops
       /\ RecorderRuns(p)' /\ PruneRuns(p)'
       /\ \/ /\ run'[p] = Idle /\ Len(old.todo) = 1
             /\ \A k \in DOMAIN ops : ops'[k].status = "done" => ops[k].status = "done" \/ k = n
          \/ /\ run'[p].kind = old.kind /\ run'[p].op = n /\ run'[p].what = what
             /\ Len(run'[p].todo) = Len(old.todo) - 1
             /\ UNCHANGED ops
  BY <1>2, AppendRuns
<1>27. /\ \A r \in Paths : r # q => LinesIn(r)' = LinesIn(r)
       /\ \/ LinesIn(q)' = LinesIn(q) \cup {line}
          \/ LinesIn(q)' = LinesIn(q) /\ Exposed(p, q)
  <2>1. LinesKept(p) = {}
    BY <1>1, <1>2, <1>4 DEF PruneRuns, Recorders, LinesKept, Range
  <2>2. PendingStays(p)
    BY <1>10, <1>11, <2>1 DEF PendingStays
  <2>3. \A k \in Paths : \E pending : /\ LinesIn(k) = FileLines(k) \cup pending
                                      /\ LinesIn(k)' = FileLines(k)' \cup pending
    BY <1>1, <1>11, <2>2, LinesChange DEF Others
  <2>4. PICK pending : LinesIn(q) = FileLines(q) \cup pending /\ LinesIn(q)' = FileLines(q)' \cup pending
    BY <1>6, <2>3
  <2>5. \A r \in Paths : r # q => LinesIn(r)' = LinesIn(r)
    BY <1>10, <2>3
  <2> QED BY <1>10, <2>4, <2>5
<1>12. TypeOK'
  <2>1. exposed' \subseteq (1 .. MaxOps) \X Paths
    <3>1. <<line.op, q>> \in (1 .. MaxOps) \X Paths
      BY <1>6, <1>9 DEF Lines
    <3> QED BY <1>1, <1>3, <3>1 DEF TypeOK
  <2> QED BY <1>1, <1>3, <1>10, <1>11, <2>1 DEF TypeOK
<1>13. FilesGoOn
  BY <1>1, <1>3, <1>27, NumbersHold DEF FilesGoOn, Numbers
<1>14. \A r \in Procs, k \in Paths : k \in run'[r].read => k \in run[r].read /\ run'[r] = run[r]
  BY <1>11 DEF Others
<1>15. \A k \in Paths : \A r \in Readers(k)' : r \in Readers(k) /\ LinesKept(r)' = LinesKept(r)
  BY <1>14 DEF Readers, LinesKept
<1>16. \A k \in Paths : \A l \in Held(k)' : l \in Held(k) \/ (k = q /\ l = line)
  BY <1>15, <1>27 DEF Held
\* What the command has come past is put, and so is what it puts now.
<1>17. \A i \in 1 .. m : Put(n, what, streams[i])'
  <2>1. \A i \in 1 .. m : Put(n, what, streams[i])
    BY <1>2, <1>4, <1>1 DEF RecorderPut
  <2> QED BY <1>1, <1>4, <1>11, <1>12, <1>13, <2>1, PutStays
<1>18. Put(n, what, q[1])'
  <2>1. CASE LinesIn(q)' = LinesIn(q) \cup {line}
    <3>1. Told(n, what, q[1])'
      BY <1>6, <1>9, <2>1 DEF Told
    <3> QED BY <3>1 DEF Put
  <2>2. CASE Exposed(p, q)
    <3>1. <<n, q>> \in exposed'
      BY <1>3, <1>9, <2>2
    <3>2. <<n, q>>[1] = n /\ <<n, q>>[2][1] = q[1]
      OBVIOUS
    <3>3. Excused(n, q[1])'
      BY <3>1, <3>2, Zenon DEF Excused
    <3> QED BY <3>3 DEF Put
  <2> QED BY <1>27, <2>1, <2>2
<1>19. \A i \in 1 .. m + 1 : Put(n, what, streams[i])'
  <2>1. \A i \in 1 .. m + 1 : i \in 1 .. m \/ i = m + 1
    BY <1>7
  <2> QED BY <1>6, <1>17, <1>18, <2>1
<1>20. ops'[n].kind = old.kind /\ ops'[n].what = what /\ ops'[n].ts = ops[n].ts /\ n \in DOMAIN ops'
       /\ StreamsOf(ops'[n].kind) = streams
  BY <1>2, <1>4, <1>11 DEF OpsGoOn
<1>21. NewLine(line)'
  BY <1>9, <1>20 DEF NewLine
<1>22. OrderOf(line, q)'
  <2>1. ASSUME NEW i \in DOMAIN streams, NEW j \in DOMAIN streams, i < j, q[1] = streams[j]
        PROVE  Put(n, what, streams[i])'
    <3>1. j = m + 1
      BY <1>6, <1>7, <1>8, <2>1
    <3>2. i \in 1 .. m
      BY <1>6, <1>7, <2>1, <3>1
    <3> QED BY <1>17, <3>2
  <2> QED BY <1>9, <1>20, <2>1 DEF OrderOf
<1>23. \A k \in Paths : \A l \in Held(k)' : l \in Held(k) \/ (NewLine(l)' /\ OrderOf(l, k)')
  BY <1>16, <1>21, <1>22
<1>24. HoldersAgree'
  <2> SUFFICES ASSUME NEW k \in Paths, NEW r \in Readers(k)'
               PROVE  (/\ \A l \in LinesIn(k) : l \in LinesKept(r) \/ Lost(l, k)
                       /\ \A l \in LinesKept(r) : l \in LinesIn(k) \/ Lost(l, k)
                       /\ \A other \in Readers(k) : \A l \in LinesKept(r) : l \in LinesKept(other) \/ Lost(l, k))'
    BY DEF HoldersAgree
  <2>1. \A l \in Held(k) : Lost(l, k) => Lost(l, k)'
    <3>1. \A l \in Held(k) : l \in Lines
      BY <1>1 DEF LinesAreTrue
    <3> QED BY <1>1, <1>12, <1>13, <3>1, LostStays
  <2>2. r \in Readers(k) /\ r \in Procs /\ k \in run[r].read /\ LinesKept(r)' = LinesKept(r)
    BY <1>15 DEF Readers
  <2>3. LinesIn(k) \subseteq Held(k) /\ LinesKept(r) \subseteq Held(k)
    BY <2>2 DEF Held
  <2>4. /\ \A l \in LinesIn(k) : l \in LinesKept(r) \/ Lost(l, k)
        /\ \A l \in LinesKept(r) : l \in LinesIn(k) \/ Lost(l, k)
        /\ \A other \in Readers(k) : \A l \in LinesKept(r) : l \in LinesKept(other) \/ Lost(l, k)
    BY <1>1, <2>2 DEF HoldersAgree
  <2>5. k = q => Lost(line, k)'
    <3>1. k = q => <<line.op, q>> \in exposed'
      BY <1>3, <2>2 DEF Exposed
    <3> QED BY <3>1 DEF Lost
  <2>6. /\ LinesIn(k) \subseteq LinesIn(k)'
        /\ \A l \in LinesIn(k)' : l \in LinesIn(k) \/ (k = q /\ l = line)
    BY <1>27
  <2> QED BY <1>15, <2>1, <2>2, <2>3, <2>4, <2>5, <2>6
<1>25. RecorderPut(p)'
  <2>1. CASE run'[p] = Idle
    BY <2>1, IdleRuns
  <2>2. CASE run'[p].kind = old.kind /\ run'[p].op = n /\ run'[p].what = what
             /\ Len(run'[p].todo) = Len(old.todo) - 1
    <3>1. Len(streams) - (Len(old.todo) - 1) = m + 1
      BY <1>2, <1>6
    <3>2. StreamsOf(run'[p].kind) = streams
      BY <1>2, <2>2
    <3> QED BY <1>19, <2>2, <3>1, <3>2 DEF RecorderPut
  <2> QED BY <1>11, <2>1, <2>2
<1>26. ASSUME NEW k \in DOMAIN ops', ops'[k].status = "done"
       PROVE  Full(k)' \/ (k \in DOMAIN ops /\ ops[k].status = "done")
  <2>1. CASE UNCHANGED ops
    BY <1>26, <2>1
  <2>2. CASE Len(old.todo) = 1 /\ k = n
    <3>1. m + 1 = Len(streams)
      BY <1>2, <1>6, <2>2
    <3> QED BY <1>6, <1>19, <1>20, <2>2, <3>1 DEF Full
  <2> QED BY <1>11, <1>26, <2>1, <2>2
<1>28. Opens(p)' /\ \A k \in Paths : Openers(k)' \subseteq Openers(k) \cup {p}
  BY <1>10 DEF Opens
<1> QED BY <1>11, <1>12, <1>13, <1>23, <1>24, <1>25, <1>26, <1>28, StepOf


-----------------------------------------------------------------------------
(***************************************************************************)
(* Pruning a file.                                                         *)
(***************************************************************************)

\* A prune reads a file.
LEMMA ReadFileStep ==
  ASSUME RInv, NEW p \in Procs, ReadFile(p)
  PROVE  RInv'
<1>1. /\ TypeOK /\ LinesAreTrue /\ HoldersAgree
      /\ RecorderRuns(p) /\ PruneRuns(p) /\ Opens(p)
  BY DEF RInv, Running
<1>2. PICK old : old = run[p]
  OBVIOUS
<1>3. /\ old \in Commands /\ old.kind = "prune" /\ old.read = {}
      /\ UNCHANGED <<files, audit, now, prunes, ops, faults>>
  BY <1>1, <1>2 DEF ReadFile, Pruning, TypeOK
<1>4. PICK q \in old.listed :
        LET lines   == IF files[q] = NoFile THEN << >> ELSE files[q].lines
            kept    == Retained(lines, old.cutoff)
            changes == lines = << >> \/ kept # lines
        IN  /\ run' = [run EXCEPT ![p] = [old EXCEPT
                         !.listed = old.listed \ {q}, !.read = IF changes THEN {q} ELSE {},
                         !.kept = IF changes THEN kept ELSE << >>]]
            /\ Exposing(IF changes THEN Pending(q) ELSE {}, q)
  BY <1>2 DEF ReadFile
<1>5. PICK lines, kept, listed, read, put, c :
        /\ lines = IF files[q] = NoFile THEN << >> ELSE files[q].lines
        /\ kept = Retained(lines, old.cutoff)
        /\ listed = old.listed \ {q}
        /\ read = IF lines = << >> \/ kept # lines THEN {q} ELSE {}
        /\ put = IF lines = << >> \/ kept # lines THEN kept ELSE << >>
        /\ c = [old EXCEPT !.listed = listed, !.read = read, !.kept = put]
  OBVIOUS
<1>6. run' = [run EXCEPT ![p] = c]
      /\ Exposing(IF read = {q} THEN Pending(q) ELSE {}, q)
  BY <1>4, <1>5
<1>7. q \in Paths /\ old.cutoff \in Int /\ listed \subseteq Paths
  BY <1>3, <1>5, CommandFields
<1>8. lines \in Seq(Lines) /\ FileLines(q) = Range(lines)
  <2>1. files[q] \in File \cup {NoFile}
    BY <1>1, <1>7 DEF TypeOK
  <2>2. Range(<<>>) = {}
    BY DEF Range
  <2>3. CASE files[q] = NoFile
    BY <1>5, <2>2, <2>3 DEF FileLines
  <2>4. CASE files[q] # NoFile
    <3>1. lines = files[q].lines /\ files[q] \in File
      BY <1>5, <2>1, <2>4
    <3>2. lines \in Seq(Lines)
      BY <3>1 DEF File
    <3> QED BY <2>4, <3>1, <3>2 DEF FileLines
  <2> QED BY <2>3, <2>4
<1>9. kept \in Seq(Lines) /\ Range(kept) = {l \in FileLines(q) : l.ts >= old.cutoff}
  BY <1>5, <1>7, <1>8, WhatIsRetained
<1>10. put \in Seq(Lines) /\ read \subseteq {q} /\ (read # {} => put = kept)
  BY <1>5, <1>9
<1>11. /\ c \in Commands
       /\ c.kind = old.kind /\ c.op = old.op /\ c.age = old.age /\ c.dirs = old.dirs
       /\ c.cutoff = old.cutoff /\ c.listed = listed /\ c.read = read /\ c.kept = put
  BY <1>3, <1>5, <1>7, <1>10 DEF Commands
<1>12. run' \in [Procs -> Commands] /\ run'[p] = c /\ \A r \in Procs \ {p} : run'[r] = run[r]
  BY <1>1, <1>6, <1>11 DEF TypeOK
\* Nothing is open for p, so what is pending stays, and is exposed if p has read q.
<1>26. /\ FilesStay(p) /\ Opens(p)'
       /\ \A k \in Paths : Openers(k)' = Openers(k) /\ p \notin Openers(k)
  <2>1. \A k \in Paths : p \notin Openers(k)
    BY <1>1, <1>2, <1>3 DEF Opens, Recorders
  <2>2. \A k \in Paths : Openers(k)' = Openers(k)
    BY <1>3 DEF Openers
  <2> QED BY <1>3, <2>1, <2>2, FilesLeftAlone
<1>27. LinesIn(q) = Pending(q) \cup FileLines(q)
  BY DEF LinesIn, FileLines
<1>28. /\ exposed \subseteq exposed'
       /\ read = {q} => \A l \in Pending(q) : <<l.op, q>> \in exposed'
       /\ \A e \in exposed' : e \in exposed \/ \E l \in Pending(q) : e = <<l.op, q>>
  BY <1>6 DEF Exposing
<1>29. Pending(q) \subseteq Lines
  BY <1>1, <1>7, <1>27 DEF LinesAreTrue, Held
<1>13. TypeOK'
  <2>1. exposed' \subseteq (1 .. MaxOps) \X Paths
    <3>1. \A l \in Pending(q) : <<l.op, q>> \in (1 .. MaxOps) \X Paths
      BY <1>7, <1>29 DEF Lines
    <3> QED BY <1>1, <1>28, <3>1 DEF TypeOK
  <2> QED BY <1>1, <1>3, <1>12, <2>1 DEF TypeOK
<1>14. OpsGoOn /\ Others(p)
       /\ \A n \in DOMAIN ops' : ops'[n].status = "done" => n \in DOMAIN ops /\ ops[n].status = "done"
  BY <1>3, <1>12, OpsStay DEF Others
<1>15. /\ \A k \in Paths : LinesIn(k)' = LinesIn(k)
       /\ \A k, l : Lost(l, k) => Lost(l, k)'
  <2>1. \A k \in Paths : LinesIn(k)' = LinesIn(k)
    BY <1>1, <1>12, <1>26, SameLines
  <2> QED BY <1>3, <1>28, <2>1 DEF Lost, Old
<1>16. FilesGoOn
  BY <1>1, <1>3, <1>15, <1>28, NumbersHold DEF FilesGoOn, Numbers
<1>17. /\ old.op = 0 /\ prunes > 0 /\ old.age \in Ages /\ Len(old.dirs) <= Len(PrunedStreams)
       /\ \A i \in DOMAIN old.dirs : old.dirs[i] \in Range(PrunedStreams)
       /\ old.dirs # PrunedStreams /\ old.cutoff <= now - old.age
       /\ \A k \in old.listed : k[1] \in Range(PrunedStreams)
  <2>1. old.op = 0
    BY <1>1, <1>2, <1>3 DEF RecorderRuns, Recorders
  <2>2. old.listed # {}
    OBVIOUS
  <2> QED BY <1>1, <1>2, <1>3, <2>1, <2>2 DEF PruneRuns
<1>18. RecorderRuns(p)' /\ RecorderPut(p)'
  BY <1>3, <1>11, <1>12, <1>17 DEF RecorderRuns, RecorderPut, Recorders
<1>19. PruneRuns(p)'
  <2>1. /\ \A k \in listed \cup read : k[1] \in Range(PrunedStreams)
        /\ \A j, k \in read : j = k
    BY <1>5, <1>10, <1>17
  <2>2. /\ run'[p].kind = "prune" /\ run'[p].age = old.age /\ run'[p].dirs = old.dirs
        /\ run'[p].cutoff = old.cutoff /\ run'[p].listed = listed /\ run'[p].read = read
        /\ now' = now /\ prunes' = prunes
    BY <1>3, <1>11, <1>12
  <2> QED BY <1>17, <2>1, <2>2 DEF PruneRuns
\* What p keeps are the lines there are, but for old ones.
<1>20. \A r \in Procs \ {p} : LinesKept(r)' = LinesKept(r)
  BY <1>12 DEF LinesKept
<1>21. read = {q} => LinesKept(p)' = {l \in FileLines(q) : l.ts >= old.cutoff}
  BY <1>9, <1>10, <1>11, <1>12 DEF LinesKept
<1>22. \A k \in Paths : \A r \in Readers(k)' : (r \in Readers(k) /\ r # p) \/ (r = p /\ k = q /\ read = {q})
  <2> SUFFICES ASSUME NEW k \in Paths, NEW r \in Readers(k)'
               PROVE  (r \in Readers(k) /\ r # p) \/ (r = p /\ k = q /\ read = {q})
    OBVIOUS
  <2>1. r \in Procs /\ k \in run'[r].read
    BY DEF Readers
  <2>2. CASE r # p
    BY <1>12, <2>1, <2>2 DEF Readers
  <2>3. CASE r = p
    BY <1>10, <1>11, <1>12, <2>1, <2>3
  <2> QED BY <2>2, <2>3
<1>23. \A l \in FileLines(q) : l.ts >= old.cutoff \/ Lost(l, q)
  <2> SUFFICES ASSUME NEW l \in FileLines(q), ~ (l.ts >= old.cutoff)
               PROVE  Lost(l, q)
    OBVIOUS
  <2>1. l.ts \in Nat
    <3>1. l \in Lines
      BY <1>8 DEF Range
    <3> QED BY <3>1, TimeIsCounted
  <2>2. old.age \in Nat /\ now \in Nat
    BY <1>1, <1>17, TimeIsCounted, NumbersHold DEF Numbers
  <2>3. l.ts < now - old.age
    BY <1>7, <1>17, <2>1, <2>2
  <2> QED BY <1>17, <2>3 DEF Lost, Old
<1>24. HoldersAgree'
  <2> SUFFICES ASSUME NEW k \in Paths, NEW r \in Readers(k)'
               PROVE  (/\ \A l \in LinesIn(k) : l \in LinesKept(r) \/ Lost(l, k)
                       /\ \A l \in LinesKept(r) : l \in LinesIn(k) \/ Lost(l, k)
                       /\ \A other \in Readers(k) : \A l \in LinesKept(r) : l \in LinesKept(other) \/ Lost(l, k))'
    BY DEF HoldersAgree
  <2>1. \A s \in Readers(k) : s \in Procs /\
          /\ \A l \in LinesIn(k) : l \in LinesKept(s) \/ Lost(l, k)
          /\ \A l \in LinesKept(s) : l \in LinesIn(k) \/ Lost(l, k)
          /\ \A other \in Readers(k) : \A l \in LinesKept(s) : l \in LinesKept(other) \/ Lost(l, k)
    BY <1>1 DEF HoldersAgree, Readers
  <2>2. \A s \in Readers(k)' : s # p => s \in Readers(k) /\ LinesKept(s)' = LinesKept(s)
    BY <1>20, <1>22, <2>1
  <2>3. p \in Readers(k)' =>
          /\ \A l \in LinesIn(k) : l \in LinesKept(p)' \/ Lost(l, k)'
          /\ LinesKept(p)' \subseteq LinesIn(k)
    <3>1. ASSUME p \in Readers(k)'
          PROVE  k = q /\ read = {q} /\ LinesKept(p)' = {l \in FileLines(q) : l.ts >= old.cutoff}
      BY <1>21, <1>22, <3>1
    <3>2. \A l \in FileLines(q) : l.ts >= old.cutoff \/ Lost(l, q)'
      BY <1>15, <1>23
    <3>3. read = {q} => \A l \in Pending(q) : Lost(l, q)'
      BY <1>28 DEF Lost
    <3> QED BY <1>27, <3>1, <3>2, <3>3
  <2>4. \A s \in Readers(k)' :
          /\ \A l \in LinesIn(k) : l \in LinesKept(s)' \/ Lost(l, k)'
          /\ \A l \in LinesKept(s)' : l \in LinesIn(k) \/ Lost(l, k)'
    BY <1>15, <2>1, <2>2, <2>3
  <2>5. \A s, other \in Readers(k)' : \A l \in LinesKept(s)' : l \in LinesKept(other)' \/ Lost(l, k)'
    BY <2>4
  <2> QED BY <1>15, <2>4, <2>5
<1>25. \A k \in Paths : \A l \in Held(k)' : l \in Held(k)
  <2> SUFFICES ASSUME NEW k \in Paths, NEW l \in Held(k)'
               PROVE  l \in Held(k)
    OBVIOUS
  <2>1. l \in LinesIn(k)' \/ \E r \in Readers(k)' : l \in LinesKept(r)'
    BY DEF Held
  <2>2. CASE l \in LinesIn(k)'
    BY <1>15, <2>2 DEF Held
  <2>3. ASSUME NEW r \in Readers(k)', l \in LinesKept(r)'
        PROVE  l \in Held(k)
    <3>1. CASE r # p
      <4>1. r \in Readers(k) /\ r \in Procs \ {p}
        BY <1>22, <3>1 DEF Readers
      <4> QED BY <1>20, <2>3, <4>1 DEF Held
    <3>2. CASE r = p
      <4>1. k = q /\ l \in LinesIn(q)
        BY <1>21, <1>22, <1>27, <2>3, <3>2
      <4> QED BY <4>1 DEF Held
    <3> QED BY <3>1, <3>2
  <2> QED BY <2>1, <2>2, <2>3
<1>30. \A k \in Paths : Openers(k)' \subseteq Openers(k) \cup {p}
  BY <1>26
<1> QED BY <1>13, <1>14, <1>16, <1>18, <1>19, <1>24, <1>25, <1>26, <1>30, StepOf


\* What a prune has read changes, and nothing else about the files. It keeps the lines
\* it has to write back as long as it has the file open.
LEMMA Replaced ==
  ASSUME RInv, TypeOK', NEW p \in Procs, NEW q \in Paths, q \in run[p].read,
         run'[p].read = {} \/ (run'[p].read = run[p].read /\ run'[p].kept = run[p].kept),
         \A r \in Procs \ {p} : run'[r] = run[r],
         now' = now, prunes' = prunes, exposed \subseteq exposed',
         \A k \in Paths : k # q => FileLines(k)' = FileLines(k) /\ Openers(k)' = Openers(k),
         Openers(q)' \subseteq Openers(q) \cup {p},
         p \in Openers(q)' => LinesKept(p)' = LinesKept(p),
         FileLines(q)' \subseteq Held(q),
         \A l \in LinesKept(p) : l \in FileLines(q)' \/ p \in Openers(q)' \/ Lost(l, q)'
  PROVE  /\ FilesGoOn /\ HoldersAgree'
         /\ \A k \in Paths : \A l \in Held(k)' : l \in Held(k)
<1>1. /\ TypeOK /\ LinesAreTrue /\ HoldersAgree /\ now \in Nat /\ prunes \in Nat
      /\ PruneRuns(p) /\ Opens(p)
  BY NumbersHold DEF RInv, Running, Numbers
<1>2. \A k \in Paths : \A l : Lost(l, k) => Lost(l, k)'
  BY DEF Lost, Old
<1>3. p \in Readers(q)
  BY DEF Readers
<1>4. \A k \in Paths : \A r \in Readers(k)' : r \in Readers(k) /\ LinesKept(r)' = LinesKept(r)
  BY DEF Readers, LinesKept
<1>5. \A k \in Paths : \A r \in Readers(k) :
        /\ \A l \in LinesIn(k) : l \in LinesKept(r) \/ Lost(l, k)
        /\ \A l \in LinesKept(r) : l \in LinesIn(k) \/ Lost(l, k)
        /\ \A other \in Readers(k) : \A l \in LinesKept(r) : l \in LinesKept(other) \/ Lost(l, k)
  BY <1>1 DEF HoldersAgree
<1>6. \A r \in Procs \ {p} : LinesKept(r)' = LinesKept(r)
  BY DEF LinesKept
<1>7. \A k \in Paths : Openers(k) \subseteq Procs
  BY <1>1 DEF TypeOK, Openers, File
<1>8. ASSUME NEW k \in Paths, k # q
      PROVE  LinesIn(k)' = LinesIn(k)
  <2>1. p \notin Openers(k)
    <3>1. run[p].kind \notin Recorders /\ \A i \in run[p].read : i = q
      BY <1>1 DEF PruneRuns, Recorders
    <3> QED BY <1>1, <1>8, <3>1 DEF Opens
  <2>2. \A l : l \in LinesIn(k)' <=> l \in LinesIn(k)
    BY <1>6, <1>7, <1>8, <2>1, WhatLinesAre, LinesAreNext DEF LinesAre
  <2> QED BY <2>2
<1>9. LinesIn(q) \subseteq Held(q) /\ LinesKept(p) \subseteq Held(q)
  BY <1>3 DEF Held
<1>10. LinesIn(q)' \subseteq Held(q)
  <2> SUFFICES ASSUME NEW l \in LinesIn(q)', l \notin FileLines(q)'
               PROVE  l \in Held(q)
    OBVIOUS
  <2>1. PICK r \in Openers(q)' : l \in LinesKept(r)'
    BY LinesAreNext DEF LinesAre
  <2>2. CASE r = p
    BY <1>9, <2>1, <2>2
  <2>3. CASE r # p
    <3>1. r \in Openers(q) /\ l \in LinesKept(r)
      BY <1>6, <1>7, <2>1, <2>3
    <3> QED BY <1>9, <3>1, WhatLinesAre DEF LinesAre
  <2> QED BY <2>2, <2>3
<1>11. \A l \in LinesKept(p) : l \in LinesIn(q)' \/ Lost(l, q)'
  BY LinesAreNext DEF LinesAre
<1>12. FilesGoOn
  <2>1. \A l \in LinesIn(q) : l \in LinesIn(q)' \/ Lost(l, q)'
    BY <1>2, <1>3, <1>5, <1>11
  <2>2. \A k \in Paths : \A l \in LinesIn(k) : l \in LinesIn(k)' \/ Lost(l, k)'
    BY <1>8, <2>1
  <2> QED BY <1>1, <2>2 DEF FilesGoOn
<1>13. HoldersAgree'
  <2> SUFFICES ASSUME NEW k \in Paths, NEW r \in Readers(k)'
               PROVE  (/\ \A l \in LinesIn(k) : l \in LinesKept(r) \/ Lost(l, k)
                       /\ \A l \in LinesKept(r) : l \in LinesIn(k) \/ Lost(l, k)
                       /\ \A other \in Readers(k) : \A l \in LinesKept(r) : l \in LinesKept(other) \/ Lost(l, k))'
    BY DEF HoldersAgree
  <2>1. r \in Readers(k) /\ LinesKept(r)' = LinesKept(r)
    BY <1>4
  <2>2. \A other \in Readers(k)' : \A l \in LinesKept(r)' : l \in LinesKept(other)' \/ Lost(l, k)'
    BY <1>2, <1>4, <1>5, <2>1
  <2>3. CASE k # q
    BY <1>2, <1>5, <1>8, <2>1, <2>2, <2>3
  <2>4. CASE k = q
    <3>1. \A l \in Held(q) : l \in LinesKept(r)' \/ Lost(l, q)'
      <4>1. \A l \in LinesIn(q) : l \in LinesKept(r)' \/ Lost(l, q)'
        BY <1>2, <1>5, <2>1, <2>4
      <4>2. \A s \in Readers(q) : \A l \in LinesKept(s) : l \in LinesKept(r)' \/ Lost(l, q)'
        BY <1>2, <1>5, <2>1, <2>4
      <4> QED BY <4>1, <4>2 DEF Held
    <3>2. \A l \in LinesKept(r)' : l \in LinesIn(q)' \/ Lost(l, q)'
      BY <1>2, <1>3, <1>5, <1>11, <2>1, <2>4
    <3> QED BY <1>10, <2>2, <2>4, <3>1, <3>2
  <2> QED BY <2>3, <2>4
<1>14. \A k \in Paths : \A l \in Held(k)' : l \in Held(k)
  <2> SUFFICES ASSUME NEW k \in Paths, NEW l \in Held(k)'
               PROVE  l \in Held(k)
    OBVIOUS
  <2>1. l \in LinesIn(k)' \/ \E r \in Readers(k)' : l \in LinesKept(r)'
    BY DEF Held
  <2>2. CASE l \in LinesIn(k)'
    BY <1>8, <1>10, <2>2 DEF Held
  <2>3. CASE \E r \in Readers(k)' : l \in LinesKept(r)'
    BY <1>4, <2>3 DEF Held
  <2> QED BY <2>1, <2>2, <2>3
<1> QED BY <1>12, <1>13, <1>14

\* A prune goes on with its command, and keeps its place in the directories.
LEMMA PruneGoesOn ==
  ASSUME RInv, NEW p \in Procs, Pruning(p), NEW c \in Commands, run' = [run EXCEPT ![p] = c],
         c.kind = run[p].kind, c.op = run[p].op, c.age = run[p].age, c.dirs = run[p].dirs,
         c.cutoff = run[p].cutoff, c.listed = run[p].listed, c.read \subseteq run[p].read,
         UNCHANGED <<now, prunes, ops>>
  PROVE  /\ run' \in [Procs -> Commands] /\ run'[p] = c /\ \A r \in Procs \ {p} : run'[r] = run[r]
         /\ OpsGoOn /\ Others(p)
         /\ \A n \in DOMAIN ops' : ops'[n].status = "done" => n \in DOMAIN ops /\ ops[n].status = "done"
         /\ RecorderRuns(p)' /\ PruneRuns(p)' /\ RecorderPut(p)'
<1>1. TypeOK /\ RecorderRuns(p) /\ PruneRuns(p) /\ run[p].kind = "prune"
  BY DEF RInv, Running, Pruning
<1>2. run' \in [Procs -> Commands] /\ run'[p] = c /\ \A r \in Procs \ {p} : run'[r] = run[r]
  BY <1>1 DEF TypeOK
<1>3. OpsGoOn /\ Others(p)
      /\ \A n \in DOMAIN ops' : ops'[n].status = "done" => n \in DOMAIN ops /\ ops[n].status = "done"
  BY <1>2, OpsStay DEF Others
<1>4. /\ c.op = 0 /\ prunes > 0 /\ c.age \in Ages /\ Len(c.dirs) <= Len(PrunedStreams)
      /\ \A i \in DOMAIN c.dirs : c.dirs[i] \in Range(PrunedStreams)
      /\ c.dirs = PrunedStreams => c.listed = {}
      /\ c.dirs # PrunedStreams => c.cutoff <= now - c.age
      /\ \A k \in c.listed \cup c.read : k[1] \in Range(PrunedStreams)
      /\ \A j, k \in c.read : j = k
  <2>1. run[p].op = 0
    BY <1>1 DEF RecorderRuns, Recorders
  <2> QED BY <1>1, <2>1 DEF PruneRuns
<1>5. RecorderRuns(p)' /\ RecorderPut(p)'
  BY <1>1, <1>2, <1>4 DEF RecorderRuns, RecorderPut, Recorders
<1>6. PruneRuns(p)'
  BY <1>1, <1>2, <1>4 DEF PruneRuns
<1> QED BY <1>2, <1>3, <1>5, <1>6

\* It goes on to its next file.
LEMMA ReadsNext ==
  ASSUME RInv, NEW p \in Procs, Pruning(p), ReadNext(p), UNCHANGED <<now, prunes, ops>>
  PROVE  /\ run' \in [Procs -> Commands] /\ \A r \in Procs \ {p} : run'[r] = run[r]
         /\ OpsGoOn /\ Others(p)
         /\ \A n \in DOMAIN ops' : ops'[n].status = "done" => n \in DOMAIN ops /\ ops[n].status = "done"
         /\ RecorderRuns(p)' /\ PruneRuns(p)' /\ RecorderPut(p)'
         /\ run'[p].read = {} /\ LinesKept(p)' = {}
<1>1. PICK old, c : old = run[p] /\ c = [old EXCEPT !.read = {}, !.kept = << >>, !.opened = FALSE]
  OBVIOUS
<1>2. old \in Commands /\ old.kind = "prune"
  BY <1>1 DEF RInv, TypeOK, Pruning
<1>3. /\ c \in Commands /\ c.kind = old.kind /\ c.op = old.op /\ c.age = old.age /\ c.dirs = old.dirs
      /\ c.cutoff = old.cutoff /\ c.listed = old.listed /\ c.read = {} /\ c.kept = << >>
  <2>1. <<>> \in Seq(Lines)
    OBVIOUS
  <2> QED BY <1>1, <1>2, <2>1 DEF Commands
<1>4. run' = [run EXCEPT ![p] = c]
  BY <1>1 DEF ReadNext
<1>5. /\ run' \in [Procs -> Commands] /\ run'[p] = c /\ \A r \in Procs \ {p} : run'[r] = run[r]
      /\ OpsGoOn /\ Others(p)
      /\ \A n \in DOMAIN ops' : ops'[n].status = "done" => n \in DOMAIN ops /\ ops[n].status = "done"
      /\ RecorderRuns(p)' /\ PruneRuns(p)' /\ RecorderPut(p)'
  BY <1>1, <1>3, <1>4, PruneGoesOn
<1>6. run'[p].read = {} /\ LinesKept(p)' = {}
  BY <1>3, <1>5 DEF LinesKept, Range
<1> QED BY <1>5, <1>6

\* A prune removes the file.
LEMMA UnlinkFileStep ==
  ASSUME RInv, NEW p \in Procs, UnlinkFile(p)
  PROVE  RInv'
<1>1. TypeOK /\ PruneRuns(p) /\ Opens(p) /\ Pruning(p) /\ ReadNext(p) /\ run[p].kept = << >>
      /\ UNCHANGED <<audit, now, prunes, ops, exposed, faults>>
  BY DEF RInv, Running, UnlinkFile
<1>2. PICK q \in run[p].read : files' = [files EXCEPT ![q] = NoFile]
  BY DEF UnlinkFile
<1>3. q \in Paths
  BY <1>1, <1>2, CommandFields DEF TypeOK
<1>4. /\ files' \in [Paths -> File \cup {NoFile}]
      /\ FileLines(q)' = {} /\ Openers(q)' = {}
      /\ \A k \in Paths : k # q => FileLines(k)' = FileLines(k) /\ Openers(k)' = Openers(k)
  <2>1. files' \in [Paths -> File \cup {NoFile}] /\ files'[q] = NoFile
        /\ \A k \in Paths : k # q => files'[k] = files[k]
    BY <1>1, <1>2, <1>3 DEF TypeOK
  <2> QED BY <2>1 DEF FileLines, Openers
<1>5. /\ run' \in [Procs -> Commands] /\ \A r \in Procs \ {p} : run'[r] = run[r]
      /\ OpsGoOn /\ Others(p)
      /\ \A n \in DOMAIN ops' : ops'[n].status = "done" => n \in DOMAIN ops /\ ops[n].status = "done"
      /\ RecorderRuns(p)' /\ PruneRuns(p)' /\ RecorderPut(p)'
      /\ run'[p].read = {} /\ LinesKept(p)' = {}
  BY <1>1, ReadsNext
<1>6. TypeOK'
  BY <1>1, <1>4, <1>5 DEF TypeOK
<1>7. Opens(p)'
  <2>1. \A k \in Paths : k # q => p \notin Openers(k)
    BY <1>2, <1>3, OpensNowhere
  <2>2. \A k \in Paths : p \notin Openers(k)'
    BY <1>4, <2>1
  <2> QED BY <2>2 DEF Opens
<1>8. LinesKept(p) = {}
  BY <1>1 DEF LinesKept, Range
<1>9. /\ FilesGoOn /\ HoldersAgree'
      /\ \A k \in Paths : \A l \in Held(k)' : l \in Held(k)
  BY <1>1, <1>2, <1>3, <1>4, <1>5, <1>6, <1>8, Replaced
<1>10. \A k \in Paths : Openers(k)' \subseteq Openers(k) \cup {p}
  BY <1>4
<1> QED BY <1>5, <1>6, <1>7, <1>9, <1>10, StepOf

\* A prune empties the file, to rewrite it.
LEMMA TruncateFileStep ==
  ASSUME RInv, NEW p \in Procs, TruncateFile(p)
  PROVE  RInv'
<1>1. TypeOK /\ PruneRuns(p) /\ Opens(p) /\ Pruning(p) /\ run' = [run EXCEPT ![p].opened = TRUE]
      /\ UNCHANGED <<audit, now, prunes, ops, exposed, faults>>
  BY DEF RInv, Running, TruncateFile
<1>2. PICK q \in run[p].read :
        files' = [files EXCEPT ![q] = [Opened(@, p) EXCEPT !.lines = << >>, !.torn = FALSE]]
  BY DEF TruncateFile
<1>3. q \in Paths
  BY <1>1, <1>2, CommandFields DEF TypeOK
<1>4. PICK file, new : file = Opened(files[q], p) /\ new = [file EXCEPT !.lines = << >>, !.torn = FALSE]
  OBVIOUS
<1>5. file \in File /\ file.open = Openers(q) \cup {p}
  BY <1>1, <1>3, <1>4, OpenedLines
<1>6. new \in File /\ Range(new.lines) = {} /\ new.open = Openers(q) \cup {p}
  <2>1. << >> \in Seq(Lines) /\ Range(<< >>) = {}
    BY DEF Range
  <2> QED BY <1>4, <1>5, <2>1 DEF File
<1>7. files' = [files EXCEPT ![q] = new]
  BY <1>2, <1>4
<1>8. /\ files' \in [Paths -> File \cup {NoFile}]
      /\ \A k \in Paths : k # q => FileLines(k)' = FileLines(k) /\ Openers(k)' = Openers(k)
      /\ FileLines(q)' = {} /\ Openers(q)' = Openers(q) \cup {p}
  BY <1>1, <1>3, <1>6, <1>7, FileBecomes
<1>9. PICK old, c : old = run[p] /\ c = [old EXCEPT !.opened = TRUE]
  OBVIOUS
<1>10. /\ c \in Commands /\ c.kind = old.kind /\ c.op = old.op /\ c.age = old.age /\ c.dirs = old.dirs
       /\ c.cutoff = old.cutoff /\ c.listed = old.listed /\ c.read = old.read /\ c.kept = old.kept
       /\ c.opened /\ run' = [run EXCEPT ![p] = c]
  <2>1. old \in Commands
    BY <1>1, <1>9 DEF TypeOK
  <2> QED BY <1>1, <1>9, <2>1 DEF Commands
<1>11. /\ run' \in [Procs -> Commands] /\ run'[p] = c /\ \A r \in Procs \ {p} : run'[r] = run[r]
       /\ OpsGoOn /\ Others(p)
       /\ \A n \in DOMAIN ops' : ops'[n].status = "done" => n \in DOMAIN ops /\ ops[n].status = "done"
       /\ RecorderRuns(p)' /\ PruneRuns(p)' /\ RecorderPut(p)'
  <2>1. UNCHANGED <<now, prunes, ops>> /\ Pruning(p)
    BY <1>1
  <2>2. /\ c.kind = run[p].kind /\ c.op = run[p].op /\ c.age = run[p].age /\ c.dirs = run[p].dirs
        /\ c.cutoff = run[p].cutoff /\ c.listed = run[p].listed /\ c.read \subseteq run[p].read
    BY <1>9, <1>10
  <2>3. c \in Commands /\ run' = [run EXCEPT ![p] = c]
    BY <1>10
  <2> QED BY <2>1, <2>2, <2>3, PruneGoesOn
<1>12. TypeOK'
  BY <1>1, <1>8, <1>11 DEF TypeOK
<1>13. run'[p].read = run[p].read /\ run'[p].kept = run[p].kept /\ LinesKept(p)' = LinesKept(p)
       /\ run'[p].kind = "prune" /\ run'[p].opened
  BY <1>1, <1>9, <1>10, <1>11 DEF LinesKept, Pruning
<1>14. Opens(p)'
  <2>1. \A k \in Paths : p \in Openers(k)' => k = q
    BY <1>1, <1>2, <1>3, <1>8, OpensNowhere
  <2>2. "prune" \notin Recorders
    BY DEF Recorders
  <2> QED BY <1>2, <1>13, <2>1, <2>2 DEF Opens
<1>15. /\ FilesGoOn /\ HoldersAgree'
       /\ \A k \in Paths : \A l \in Held(k)' : l \in Held(k)
  BY <1>1, <1>2, <1>3, <1>8, <1>11, <1>12, <1>13, Replaced
<1>16. \A k \in Paths : Openers(k)' \subseteq Openers(k) \cup {p}
  BY <1>8
<1> QED BY <1>11, <1>12, <1>14, <1>15, <1>16, StepOf

\* What is written over the beginning of a file is there, besides it only what was.
LEMMA OverwrittenLines ==
  ASSUME NEW file \in File, NEW lines \in Seq(Lines), NEW torn \in SUBSET BOOLEAN,
         NEW new \in Overwritten(file, lines, torn)
  PROVE  /\ new \in File /\ new.open = file.open
         /\ Range(lines) \subseteq Range(new.lines)
         /\ Range(new.lines) \subseteq Range(lines) \cup Range(file.lines)
<1>1. PICK old : old = file.lines
  OBVIOUS
<1>2. old \in Seq(Lines) /\ Range(<<>>) = {}
  BY <1>1 DEF File, Range
<1>3. CASE new \in {[file EXCEPT !.lines = lines, !.torn = t] : t \in torn}
  <2>1. PICK t \in torn : new = [file EXCEPT !.lines = lines, !.torn = t]
    BY <1>3
  <2>2. new \in File /\ new.lines = lines /\ new.open = file.open
    BY <2>1 DEF File
  <2> QED BY <2>2
<1>4. CASE new \in {[file EXCEPT !.lines = lines \o SubSeq(@, n, Len(@))] :
                      n \in IF lines = << >> THEN DOMAIN file.lines ELSE DOMAIN file.lines \ {1}}
  <2>1. PICK n \in DOMAIN old : new = [file EXCEPT !.lines = lines \o SubSeq(old, n, Len(old))]
    BY <1>1, <1>4
  <2>2. PICK rest, all : rest = SubSeq(old, n, Len(old)) /\ all = lines \o rest
    OBVIOUS
  <2>3. rest \in Seq(Lines) /\ Range(rest) \subseteq Range(old)
    <3>1. n \in 1 .. Len(old) /\ n \in Nat /\ Len(old) \in Nat
      BY <1>2, <2>1
    <3>2. /\ rest \in Seq(Lines) /\ Len(rest) = Len(old) - n + 1
          /\ \A i \in 1 .. Len(rest) : rest[i] = old[n + i - 1] /\ n + i - 1 \in 1 .. Len(old)
      <4>1. rest = SubSeq(old, n, Len(old)) /\ Len(old) \in 1 .. Len(old)
        BY <2>2, <3>1
      <4>2. /\ rest \in Seq(Lines) /\ Len(rest) = IF n <= Len(old) THEN Len(old) - n + 1 ELSE 0
            /\ \A i \in 1 .. Len(old) - n + 1 : rest[i] = old[n + i - 1]
        BY <1>2, <3>1, <4>1, SubSeqProperties
      <4> QED BY <3>1, <4>2
    <3>3. DOMAIN rest = 1 .. Len(rest) /\ DOMAIN old = 1 .. Len(old)
      BY <1>2, <3>2
    <3>4. ASSUME NEW i \in DOMAIN rest PROVE rest[i] \in Range(old)
      BY <3>2, <3>3, <3>4 DEF Range
    <3>5. Range(rest) \subseteq Range(old)
      BY <3>4, Zenon DEF Range
    <3> QED BY <3>2, <3>5
  <2>4. all \in Seq(Lines) /\ Range(all) = Range(lines) \cup Range(rest)
    <3>1. /\ all \in Seq(Lines) /\ Len(all) = Len(lines) + Len(rest)
          /\ \A i \in 1 .. Len(lines) : all[i] = lines[i]
          /\ \A i \in 1 .. Len(rest) : all[Len(lines) + i] = rest[i]
      BY <2>2, <2>3, SMTT(30)
    <3>2. Len(lines) \in Nat /\ Len(rest) \in Nat
      BY <2>3
    <3>3. /\ DOMAIN all = 1 .. Len(all) /\ DOMAIN lines = 1 .. Len(lines) /\ DOMAIN rest = 1 .. Len(rest)
      BY <2>3, <3>1
    <3>4. /\ \A i \in 1 .. Len(lines) : i \in 1 .. Len(all)
          /\ \A i \in 1 .. Len(rest) : Len(lines) + i \in 1 .. Len(all)
          /\ \A i \in 1 .. Len(all) : i \in 1 .. Len(lines) \/ (i - Len(lines) \in 1 .. Len(rest)
                                                              /\ i = Len(lines) + (i - Len(lines)))
      BY <3>1, <3>2
    <3>5. Range(lines) \subseteq Range(all) /\ Range(rest) \subseteq Range(all)
      BY <3>1, <3>3, <3>4 DEF Range
    <3>6. ASSUME NEW i \in DOMAIN all PROVE all[i] \in Range(lines) \cup Range(rest)
      <4>1. CASE i \in DOMAIN lines
        BY <3>1, <3>3, <4>1 DEF Range
      <4>2. CASE i \notin DOMAIN lines
        <5>1. PICK k : k = i - Len(lines)
          OBVIOUS
        <5>2. k \in DOMAIN rest /\ i = Len(lines) + k
          BY <3>3, <3>4, <3>6, <4>2, <5>1
        <5>3. all[i] = rest[k]
          BY <3>1, <3>3, <5>2
        <5> QED BY <5>2, <5>3 DEF Range
      <4> QED BY <4>1, <4>2
    <3> QED BY <3>1, <3>5, <3>6 DEF Range
  <2>5. new \in File /\ new.lines = all /\ new.open = file.open
    BY <2>1, <2>2, <2>4 DEF File
  <2> QED BY <1>1, <2>3, <2>4, <2>5
<1> QED BY <1>3, <1>4 DEF Overwritten

\* A prune closes the file it has overwritten.
LEMMA OverwrittenFile ==
  ASSUME RInv, NEW p \in Procs, NEW q \in Paths, q \in run[p].read, Holds(p, q),
         NEW lines \in Seq(Lines), NEW torn \in SUBSET BOOLEAN,
         NEW file \in Overwritten(files[q], lines, torn), Range(lines) \subseteq LinesKept(p),
         files' = [files EXCEPT ![q] = Closed(file, p)]
  PROVE  /\ files' \in [Paths -> File \cup {NoFile}]
         /\ \A k \in Paths : k # q => FileLines(k)' = FileLines(k) /\ Openers(k)' = Openers(k)
         /\ Openers(q)' \subseteq Openers(q) /\ \A k \in Paths : p \notin Openers(k)'
         /\ FileLines(q)' \subseteq Held(q) /\ Range(lines) \subseteq FileLines(q)'
<1>1. TypeOK
  BY DEF RInv
<1>2. PICK old, new : old = files[q] /\ new = Closed(file, p)
  OBVIOUS
<1>3. old \in File /\ old # NoFile
  BY <1>1, <1>2 DEF TypeOK, Holds
<1>4. /\ file \in File /\ file.open = old.open
      /\ Range(lines) \subseteq Range(file.lines)
      /\ Range(file.lines) \subseteq Range(lines) \cup Range(old.lines)
  BY <1>2, <1>3, OverwrittenLines
<1>5. new \in File /\ new.lines = file.lines /\ new.open = file.open \ {p}
  BY <1>2, <1>4 DEF Closed, File
<1>6. FileLines(q) = Range(old.lines) /\ Openers(q) = old.open
  BY <1>2, <1>3 DEF FileLines, Openers
<1>7. /\ files' \in [Paths -> File \cup {NoFile}]
      /\ \A k \in Paths : k # q => FileLines(k)' = FileLines(k) /\ Openers(k)' = Openers(k)
      /\ FileLines(q)' = Range(new.lines) /\ Openers(q)' = new.open
  BY <1>1, <1>2, <1>5, FileBecomes
<1>8. FileLines(q) \subseteq Held(q) /\ LinesKept(p) \subseteq Held(q)
  <2>1. p \in Readers(q)
    BY DEF Readers
  <2>2. FileLines(q) \subseteq LinesIn(q)
    BY WhatLinesAre DEF LinesAre
  <2> QED BY <2>1, <2>2 DEF Held
<1>9. \A k \in Paths : p \in Openers(k)' => k = q
  BY <1>7, OpensNowhere
<1> QED BY <1>4, <1>5, <1>6, <1>7, <1>8, <1>9

\* A prune writes the lines back: into the file, or into one that is gone.
LEMMA RewriteFileStep ==
  ASSUME RInv, NEW p \in Procs, RewriteFile(p)
  PROVE  RInv'
<1>1. TypeOK /\ PruneRuns(p) /\ Opens(p) /\ Pruning(p) /\ ReadNext(p)
      /\ UNCHANGED <<audit, now, prunes, ops, exposed, faults>>
  BY DEF RInv, Running, RewriteFile
<1>2. /\ run' \in [Procs -> Commands] /\ \A r \in Procs \ {p} : run'[r] = run[r]
      /\ OpsGoOn /\ Others(p)
      /\ \A n \in DOMAIN ops' : ops'[n].status = "done" => n \in DOMAIN ops /\ ops[n].status = "done"
      /\ RecorderRuns(p)' /\ PruneRuns(p)' /\ RecorderPut(p)'
      /\ run'[p].read = {} /\ LinesKept(p)' = {}
  BY <1>1, ReadsNext
<1>3. run[p].read \subseteq Paths /\ run[p].kept \in Seq(Lines)
  BY <1>1, CommandFields DEF TypeOK
<1>4. ASSUME NEW q \in run[p].read, Holds(p, q),
             NEW file \in Overwritten(files[q], run[p].kept, {FALSE, files[q].torn}),
             files' = [files EXCEPT ![q] = Closed(file, p)]
      PROVE  RInv'
  <2>1. {FALSE, files[q].torn} \in SUBSET BOOLEAN
    BY <1>1, <1>3, <1>4 DEF TypeOK, Holds, File
  <2>2. q \in Paths /\ Range(run[p].kept) \subseteq LinesKept(p)
    BY <1>3, <1>4 DEF LinesKept
  <2>3. /\ files' \in [Paths -> File \cup {NoFile}]
        /\ \A k \in Paths : k # q => FileLines(k)' = FileLines(k) /\ Openers(k)' = Openers(k)
        /\ Openers(q)' \subseteq Openers(q) /\ \A k \in Paths : p \notin Openers(k)'
        /\ FileLines(q)' \subseteq Held(q) /\ Range(run[p].kept) \subseteq FileLines(q)'
    BY <1>3, <1>4, <2>1, <2>2, OverwrittenFile
  <2>4. TypeOK'
    BY <1>1, <1>2, <2>3 DEF TypeOK
  <2>5. /\ FilesGoOn /\ HoldersAgree'
        /\ \A k \in Paths : \A l \in Held(k)' : l \in Held(k)
    <3>1. \A l \in LinesKept(p) : l \in FileLines(q)'
      BY <2>3 DEF LinesKept
    <3> QED BY <1>1, <1>2, <1>4, <2>2, <2>3, <2>4, <3>1, Replaced
  <2>6. Opens(p)' /\ \A k \in Paths : Openers(k)' \subseteq Openers(k) \cup {p}
    BY <2>3 DEF Opens
  <2> QED BY <1>2, <2>4, <2>5, <2>6, StepOf
<1>5. ASSUME NEW q \in run[p].read, ~ Holds(p, q), UNCHANGED files
      PROVE  RInv'
  <2>1. \A k \in Paths : p \notin Openers(k)
    <3>1. p \notin Openers(q)
      BY <1>5 DEF Holds, Openers
    <3> QED BY <1>3, <1>5, <3>1, OpensNowhere
  <2>2. FilesStay(p) /\ Opens(p)'
    BY <1>5, <2>1, FilesLeftAlone
  <2>3. TypeOK'
    BY <1>1, <1>2, <1>5 DEF TypeOK
  <2>4. prunes <= prunes'
    BY <1>1, NumbersHold DEF Numbers
  <2> QED BY <1>1, <1>2, <2>2, <2>3, <2>4, QuietStep
<1> QED BY <1>4, <1>5 DEF RewriteFile

\* A prune breaks off before it has written all it is to write back.
LEMMA RewriteBreaksOff ==
  ASSUME RInv, NEW p \in Procs, PruneFails(p) \/ Crash(p), run[p].kept # << >>
  PROVE  RInv'
<1>1. TypeOK /\ PruneRuns(p) /\ Opens(p)
  BY DEF RInv, Running
<1>2. run[p].kind = "prune"
  BY <1>1 DEF PruneRuns
<1>3. PICK status \in {"threw", "killed"} : End(p, status)
  BY DEF PruneFails, Crash
<1>4. /\ BreaksOff(p) /\ UNCHANGED <<now, prunes>>
      /\ audit' = audit \/ audit' = [audit EXCEPT ![p] = <<>>]
      /\ faults < MaxFaults /\ faults' = faults + 1
  BY DEF PruneFails, Crash
<1>5. faults' \in 0 .. MaxFaults
  <2>1. faults \in 0 .. MaxFaults /\ MaxFaults \in Nat
    BY <1>1, ObservabilityAssumption DEF TypeOK
  <2> QED BY <1>4, <2>1
<1>6. CASE UNCHANGED <<files, exposed>> /\ \A q \in Paths : ~ Holds(p, q)
  <2>1. \A q \in Paths : p \notin Openers(q) /\ Openers(q)' = Openers(q)
    BY <1>6 DEF Openers, Holds
  <2>2. FilesStay(p) /\ \A q \in Paths : p \notin Openers(q)'
    BY <1>6, <2>1, FilesLeftAlone
  <2>3. files' \in [Paths -> File \cup {NoFile}]
    BY <1>1, <1>6 DEF TypeOK
  <2> QED BY <1>3, <1>4, <1>5, <1>6, <2>2, <2>3, EndStep
<1>7. ASSUME NEW q \in Paths, NEW n \in 0 .. Len(run[p].kept) - 1, Holds(p, q),
             NEW file \in Overwritten(files[q], SubSeq(run[p].kept, 1, n), BOOLEAN),
             files' = [files EXCEPT ![q] = Closed(file, p)],
             Exposing(Range(run[p].kept), q)
      PROVE  RInv'
  <2>1. q \in run[p].read
    <3>1. p \in Openers(q)
      BY <1>7 DEF Holds, Openers
    <3> QED BY <1>1, <1>2, <3>1 DEF Opens, Recorders
  <2>2. PICK kept : kept = run[p].kept
    OBVIOUS
  <2>3. kept \in Seq(Lines) /\ \A l \in Range(kept) : l \in Lines
    <3>1. kept \in Seq(Lines)
      BY <1>1, <2>2, CommandFields DEF TypeOK
    <3> QED BY <3>1 DEF Range
  <2>4. SubSeq(kept, 1, n) \in Seq(Lines) /\ Range(SubSeq(kept, 1, n)) \subseteq Range(kept)
    <3>1. n \in 0 .. Len(kept) - 1 /\ Len(kept) \in Nat
      BY <1>7, <2>2, <2>3
    <3>2. /\ SubSeq(kept, 1, n) \in Seq(Lines) /\ Len(SubSeq(kept, 1, n)) = n
          /\ \A i \in 1 .. n : SubSeq(kept, 1, n)[i] = kept[i]
      BY <2>3, <3>1
    <3> QED BY <2>3, <3>1, <3>2 DEF Range
  <2>5. /\ files' \in [Paths -> File \cup {NoFile}]
        /\ \A k \in Paths : k # q => FileLines(k)' = FileLines(k) /\ Openers(k)' = Openers(k)
        /\ Openers(q)' \subseteq Openers(q) /\ \A k \in Paths : p \notin Openers(k)'
        /\ FileLines(q)' \subseteq Held(q)
    <3>1. Range(SubSeq(kept, 1, n)) \subseteq LinesKept(p) /\ BOOLEAN \in SUBSET BOOLEAN
      BY <2>2, <2>4 DEF LinesKept
    <3> QED BY <1>7, <2>1, <2>2, <2>4, <3>1, OverwrittenFile
  <2>6. /\ exposed \subseteq exposed'
        /\ \A l \in LinesKept(p) : Lost(l, q)'
        /\ \A e \in exposed' : e \in exposed \/ \E l \in Range(kept) : e = <<l.op, q>>
    BY <1>7, <2>2 DEF Exposing, LinesKept, Lost
  <2>7. /\ run' \in [Procs -> Commands] /\ run'[p] = Idle
        /\ ops' \in Seq(Op) /\ Len(ops') <= MaxOps /\ DOMAIN ops' = DOMAIN ops
        /\ OpsGoOn /\ Others(p)
        /\ \A k \in DOMAIN ops : ops'[k].status = "done" => ops[k].status = "done"
    BY <1>3, EndsOp
  <2>8. TypeOK'
    <3>1. exposed' \subseteq (1 .. MaxOps) \X Paths
      <4>1. \A l \in Range(kept) : <<l.op, q>> \in (1 .. MaxOps) \X Paths
        BY <1>7, <2>3 DEF Lines
      <4> QED BY <1>1, <2>6, <4>1 DEF TypeOK
    <3>2. audit' \in [Procs -> Seq(Event)] /\ \A r \in Procs : Len(audit'[r]) <= AuditLimit
      BY <1>1, <1>4, ClearedType
    <3> QED BY <1>1, <1>4, <1>5, <2>5, <2>7, <3>1, <3>2 DEF TypeOK
  <2>9. RecorderRuns(p)' /\ PruneRuns(p)' /\ RecorderPut(p)' /\ run'[p].read = {}
    BY <2>7, IdleRuns
  <2>10. /\ FilesGoOn /\ HoldersAgree'
         /\ \A k \in Paths : \A l \in Held(k)' : l \in Held(k)
    BY <1>4, <2>1, <2>5, <2>6, <2>7, <2>8, <2>9, Replaced DEF Others
  <2>11. Opens(p)' /\ \A k \in Paths : Openers(k)' \subseteq Openers(k) \cup {p}
    BY <2>5 DEF Opens
  <2> QED BY <2>7, <2>8, <2>9, <2>10, <2>11, StepOf
<1>8. ~ Writing(p)
  BY <1>2 DEF Writing, Recorders
<1> QED BY <1>4, <1>6, <1>7, <1>8 DEF BreaksOff


-----------------------------------------------------------------------------
(***************************************************************************)
(* The invariant holds throughout.                                         *)
(***************************************************************************)
LEMMA RInvInit == Init => RInv
<1> SUFFICES ASSUME Init
             PROVE  RInv
  OBVIOUS
<1>1. /\ files = [q \in Paths |-> NoFile] /\ run = [p \in Procs |-> Idle]
      /\ audit = [p \in Procs |-> << >>]
      /\ now = 0 /\ prunes = 0 /\ ops = << >> /\ exposed = {} /\ faults = 0
  BY DEF Init
<1>2. TypeOK
  <2>1. <<>> \in Seq(Event) /\ <<>> \in Seq(Op) /\ Len(<<>>) = 0
    OBVIOUS
  <2>2. 0 <= AuditLimit /\ 0 <= MaxOps /\ 0 \in Days /\ 0 \in 0 .. MaxPrunes /\ 0 \in 0 .. MaxFaults
    BY ObservabilityAssumption DEF Days
  <2>3. run \in [Procs -> Commands]
    BY <1>1, IdleFields
  <2>4. audit \in [Procs -> Seq(Event)] /\ \A p \in Procs : Len(audit[p]) <= AuditLimit
    BY <1>1, <2>1, <2>2
  <2> QED BY <1>1, <2>1, <2>2, <2>3, <2>4 DEF TypeOK
<1>3. \A q \in Paths : LinesIn(q) = {} /\ Readers(q) = {} /\ Openers(q) = {}
  BY <1>1, IdleFields DEF LinesIn, Pending, Readers, Openers
<1>4. \A q \in Paths : Held(q) = {}
  BY <1>3 DEF Held
<1>5. LinesAreTrue /\ PutInOrder
  BY <1>4 DEF LinesAreTrue, PutInOrder
<1>6. HoldersAgree
  BY <1>3 DEF HoldersAgree
<1>7. Running
  <2> SUFFICES ASSUME NEW p \in Procs
               PROVE  RecorderRuns(p) /\ PruneRuns(p) /\ RecorderPut(p) /\ Opens(p)
    BY DEF Running
  <2>1. run[p] = Idle
    BY <1>1
  <2>2. run[p].kind = "idle" /\ run[p].op = 0 /\ run[p].read = {} /\ run[p].kept = << >>
    BY <2>1, IdleFields
  <2> QED BY <1>3, <2>2 DEF RecorderRuns, PruneRuns, RecorderPut, Recorders, Opens
<1>8. RecordedInFull
  BY <1>1 DEF RecordedInFull
<1> QED BY <1>2, <1>5, <1>6, <1>7, <1>8 DEF RInv

LEMMA RInvNext == RInv /\ [Next]_vars => RInv'
<1> SUFFICES ASSUME RInv, [Next]_vars
             PROVE  RInv'
  OBVIOUS
<1>1. ASSUME NEW p \in Procs,
             \/ PreToolUse(p) \/ SessionStart(p) \/ Stop(p) \/ Notification(p) \/ PostToolUse(p)
             \/ RecordAgentRun(p) \/ RecordSearchRun(p) \/ RecordActivation(p)
      PROVE  RInv'
  BY <1>1, HooksStep
<1>2. ASSUME NEW p \in Procs, OpenToAppend(p) \/ AppendLine(p)
      PROVE  RInv'
  BY <1>2, OpenToAppendStep, AppendLineStep
<1>3. ASSUME NEW p \in Procs,
             \/ RefuseName(p) \/ AppendFails(p) \/ UnlinkThrows(p) \/ FinishPrune(p)
             \/ PruneFails(p) \/ Crash(p)
      PROVE  RInv'
  BY <1>3, FailuresStep, RewriteBreaksOff
<1>4. ASSUME NEW p \in Procs, StartPrune(p)
      PROVE  RInv'
  BY <1>4, StartPruneStep
<1>5. ASSUME NEW p \in Procs, ListDir(p)
      PROVE  RInv'
  BY <1>5, ListDirStep
<1>6. ASSUME NEW p \in Procs, ReadFile(p)
      PROVE  RInv'
  BY <1>6, ReadFileStep
<1>7. ASSUME NEW p \in Procs, UnlinkFile(p)
      PROVE  RInv'
  BY <1>7, UnlinkFileStep
<1>8. ASSUME NEW p \in Procs, TruncateFile(p) \/ RewriteFile(p)
      PROVE  RInv'
  BY <1>8, TruncateFileStep, RewriteFileStep
<1>9. ASSUME NEW p \in Procs, Exit(p)
      PROVE  RInv'
  BY <1>9, ExitStep
<1>10. CASE Midnight
  BY <1>10, MidnightStep
<1>11. CASE UNCHANGED vars
  <2>1. UNCHANGED <<files, run, audit, now, prunes, ops, exposed, faults>>
    BY <1>11 DEF vars
  <2>2. /\ \A q : /\ LinesIn(q)' = LinesIn(q) /\ Readers(q)' = Readers(q)
                 /\ Held(q)' = Held(q) /\ Openers(q)' = Openers(q)
        /\ \A r : LinesKept(r)' = LinesKept(r)
        /\ \A l, q : Lost(l, q)' = Lost(l, q)
    BY <2>1 DEF LinesIn, Pending, Readers, LinesKept, Lost, Old, Held, Openers
  <2>3. /\ \A n, what, stream : Told(n, what, stream)' <=> Told(n, what, stream)
        /\ \A n, stream : Excused(n, stream)' <=> Excused(n, stream)
    BY <2>1, <2>2 DEF Told, Excused
  <2>4. \A n, what, stream : Put(n, what, stream)' = Put(n, what, stream)
    BY <2>3 DEF Put
  <2>5. TypeOK' /\ LinesAreTrue' /\ HoldersAgree'
    BY <2>1, <2>2 DEF RInv, TypeOK, LinesAreTrue, HoldersAgree
  <2>6. PutInOrder'
    BY <2>1, <2>2, <2>4 DEF RInv, PutInOrder, OrderOf
  <2>7. Running'
    <3>1. \A p \in Procs : RecorderRuns(p)' /\ PruneRuns(p)' /\ RecorderPut(p)'
      <4> SUFFICES ASSUME NEW p \in Procs
                   PROVE  RecorderRuns(p)' /\ PruneRuns(p)' /\ RecorderPut(p)'
        OBVIOUS
      <4>1. RecorderRuns(p) /\ PruneRuns(p) /\ RecorderPut(p)
        BY DEF RInv, Running
      <4>2. RecorderRuns(p)'
        BY <2>1, <4>1 DEF RecorderRuns
      <4>3. PruneRuns(p)'
        BY <2>1, <4>1 DEF PruneRuns
      <4>4. RecorderPut(p)'
        BY <2>1, <2>4, <4>1 DEF RecorderPut
      <4> QED BY <4>2, <4>3, <4>4
    <3>2. \A p \in Procs : Opens(p)'
      BY <2>1, <2>2 DEF RInv, Running, Opens
    <3> QED BY <3>1, <3>2 DEF Running
  <2>8. RecordedInFull'
    BY <2>1, <2>3 DEF RInv, RecordedInFull
  <2> QED BY <2>5, <2>6, <2>7, <2>8 DEF RInv
<1>12. CASE Next
  BY <1>1, <1>2, <1>3, <1>4, <1>5, <1>6, <1>7, <1>8, <1>9, <1>10, <1>12 DEF Next
<1> QED BY <1>11, <1>12

LEMMA RInvHolds == Spec => []RInv
<1>1. Init => RInv
  BY RInvInit
<1>2. RInv /\ [Next]_vars => RInv'
  BY RInvNext
<1> QED BY <1>1, <1>2, PTL DEF Spec

LEMMA OrderFollows == RInv => RecordedInOrder
<1> SUFFICES ASSUME RInv, NEW q \in Paths, NEW l \in LinesIn(q)
             PROVE  OrderOf(l, q)
  BY DEF RecordedInOrder, OrderOf, Put
<1> QED BY DEF RInv, PutInOrder, Held

LEMMA TruthFollows == RInv => NoContradiction
<1> SUFFICES ASSUME RInv, NEW q \in Paths, files[q] # NoFile, NEW l \in Range(files[q].lines)
             PROVE  \/ l.what = ops[l.op].what
                    \/ ops[l.op].kind = "search_run" /\ l.what = "hits"
  BY DEF NoContradiction
<1>1. l \in Held(q)
  BY DEF Held, LinesIn
<1> QED BY <1>1 DEF RInv, LinesAreTrue

\* The state of the recorders has its type: files, buffers of at most AuditLimit
\* events, and commands.
THEOREM ObservabilityTypeCorrect == Spec => []TypeOK
<1>1. RInv => TypeOK
  BY DEF RInv
<1> QED BY <1>1, RInvHolds, PTL

\* A command whose recording went through has its outcome in all of its streams,
\* for any number of processes, prunes, failed writes and crashes, but for what went
\* by age or was exposed (RecordedInFull, with the five ways in which a line is).
THEOREM NothingRecordedIsLost == Spec => []RecordedInFull
<1>1. RInv => RecordedInFull
  BY DEF RInv
<1> QED BY <1>1, RInvHolds, PTL

\* What a later stream tells of a command its earlier streams tell as well,
\* however the command ended (recordAgentExecution, PostToolUseHook.execute).
THEOREM CostBeforeRun == Spec => []RecordedInOrder
BY OrderFollows, RInvHolds, PTL

\* No line contradicts what became of its command (recordSearchRun after the hits
\* could not be recorded excepted).
THEOREM LinesNeverContradict == Spec => []NoContradiction
BY TruthFollows, RInvHolds, PTL


-----------------------------------------------------------------------------
(***************************************************************************)
(* The audit buffer.                                                       *)
(***************************************************************************)
Decided(p) == {n \in DOMAIN ops : ops[n].proc = p /\ ops[n].kind \in Hooks}

Remembers(p) ==
  /\ \A i \in DOMAIN audit[p] :
       audit[p][i].op \in Decided(p) /\ audit[p][i].what = ops[audit[p][i].op].what
  /\ \A i, j \in DOMAIN audit[p] : i < j => audit[p][i].op < audit[p][j].op
  /\ \A n \in Decided(p) : audit[p] # << >> /\ audit[p][1].op <= n =>
       \E i \in DOMAIN audit[p] : audit[p][i].op = n

AllRemember == \A p \in Procs : Remembers(p)

LEMMA RememberMeans == AuditRemembers <=> AllRemember
BY DEF AuditRemembers, AllRemember, Remembers, Decided

\* A step without a decision leaves a buffer, or clears it.
LEMMA NothingDecided ==
  ASSUME AllRemember, OpsGoOn,
         \A n \in DOMAIN ops' : n \notin DOMAIN ops => ops'[n].kind \notin Hooks,
         \A r \in Procs : audit'[r] = audit[r] \/ audit'[r] = <<>>
  PROVE  AllRemember'
<1> SUFFICES ASSUME NEW r \in Procs
             PROVE  Remembers(r)'
  BY DEF AllRemember
<1>1. CASE audit'[r] = <<>>
  BY <1>1 DEF Remembers
<1>2. CASE audit'[r] = audit[r]
  <2>1. PICK buffer : buffer = audit[r]
    OBVIOUS
  <2>2. Decided(r)' = Decided(r)
    BY DEF Decided, OpsGoOn
  <2>3. \A n \in Decided(r) : ops'[n].what = ops[n].what
    <3>1. "search_run" \notin Hooks
      BY DEF Hooks
    <3> QED BY <3>1 DEF Decided, OpsGoOn
  <2>4. /\ \A i \in DOMAIN buffer : buffer[i].op \in Decided(r) /\ buffer[i].what = ops[buffer[i].op].what
        /\ \A i, j \in DOMAIN buffer : i < j => buffer[i].op < buffer[j].op
        /\ \A n \in Decided(r) : buffer # << >> /\ buffer[1].op <= n =>
             \E i \in DOMAIN buffer : buffer[i].op = n
    BY <2>1 DEF AllRemember, Remembers
  <2>5. audit'[r] = buffer
    BY <1>2, <2>1
  <2> QED BY <2>2, <2>3, <2>4, <2>5 DEF Remembers
<1> QED BY <1>1, <1>2

\* A decision is the last event of its process's buffer.
LEMMA OneDecided ==
  ASSUME TypeOK, AllRemember, NEW p \in Procs, NEW kind \in Hooks, NEW what \in Outcomes,
         NEW status \in {"running", "done"}, Begin(p, kind, what, status), Audited(p, what)
  PROVE  AllRemember'
<1>1. kind \in Kinds
  BY DEF Kinds
<1>2. PICK new, event : new = Len(ops) + 1 /\ event = [op |-> new, what |-> what]
  OBVIOUS
<1>3. /\ new \in 1 .. MaxOps
      /\ DOMAIN ops' = DOMAIN ops \cup {new} /\ new \notin DOMAIN ops
      /\ \A n \in DOMAIN ops : ops'[n] = ops[n] /\ n < new
      /\ ops'[new] = [proc |-> p, kind |-> kind, ts |-> now, what |-> what, status |-> status]
  BY <1>1, <1>2, BeginsOp
<1>4. ops'[new].proc = p /\ ops'[new].kind = kind /\ ops'[new].what = what
  BY <1>3
<1>5. event \in Event /\ event.op = new /\ event.what = what
  BY <1>2, <1>3 DEF Event
<1>6. audit \in [Procs -> Seq(Event)] /\ audit' = [audit EXCEPT ![p] = write(audit[p], event)]
  BY <1>2 DEF TypeOK, Audited
<1>7. \A r \in Procs \ {p} : Remembers(r)'
  <2> SUFFICES ASSUME NEW r \in Procs \ {p}
               PROVE  Remembers(r)'
    OBVIOUS
  <2>1. PICK buffer : buffer = audit[r]
    OBVIOUS
  <2>2. audit'[r] = buffer
    BY <1>6, <2>1
  <2>3. Decided(r)' = Decided(r)
    BY <1>3, <1>4 DEF Decided
  <2>4. \A n \in Decided(r) : ops'[n].what = ops[n].what
    BY <1>3 DEF Decided
  <2>5. /\ \A i \in DOMAIN buffer : buffer[i].op \in Decided(r) /\ buffer[i].what = ops[buffer[i].op].what
        /\ \A i, j \in DOMAIN buffer : i < j => buffer[i].op < buffer[j].op
        /\ \A n \in Decided(r) : buffer # << >> /\ buffer[1].op <= n =>
             \E i \in DOMAIN buffer : buffer[i].op = n
    BY <2>1 DEF AllRemember, Remembers
  <2> QED BY <2>2, <2>3, <2>4, <2>5 DEF Remembers
<1>8. Remembers(p)'
  <2>1. PICK buffer, more : buffer = audit[p] /\ more = write(buffer, event)
    OBVIOUS
  <2>2. audit'[p] = more
    BY <1>6, <2>1
  <2>3. buffer \in Seq(Event) /\ Len(buffer) <= AuditLimit
    BY <1>6, <2>1 DEF TypeOK
  <2>4. more \in Seq(Event)
    BY <1>5, <2>1, <2>3, WhatIsWritten
  <2>5. PICK gone \in {0, 1} :
          /\ gone <= Len(buffer)
          /\ Len(more) = Len(buffer) + 1 - gone
          /\ \A i \in 1 .. Len(buffer) - gone : more[i] = buffer[i + gone]
          /\ more[Len(buffer) + 1 - gone] = event
    BY <1>5, <2>1, <2>3, WhatIsWritten
  <2>6. PICK last : last = Len(buffer) + 1 - gone
    OBVIOUS
  <2>7. /\ last \in Nat \ {0} /\ DOMAIN more = 1 .. last /\ more[last] = event
        /\ DOMAIN buffer = 1 .. Len(buffer) /\ Len(buffer) \in Nat
        /\ \A i \in 1 .. last : i # last => i + gone \in DOMAIN buffer /\ more[i] = buffer[i + gone]
    <3>1. Len(buffer) \in Nat /\ DOMAIN buffer = 1 .. Len(buffer)
      BY <2>3
    <3>2. last \in Nat \ {0} /\ Len(more) = last /\ more[last] = event
      BY <2>5, <2>6, <3>1
    <3>3. DOMAIN more = 1 .. last
      BY <2>4, <3>2
    <3>4. \A i \in 1 .. last : i # last => i \in 1 .. Len(buffer) - gone /\ i + gone \in 1 .. Len(buffer)
      BY <2>5, <2>6, <3>1
    <3> QED BY <2>5, <3>1, <3>2, <3>3, <3>4
  <2>8. /\ \A i \in DOMAIN buffer : /\ buffer[i].op \in Decided(p)
                                    /\ buffer[i].what = ops[buffer[i].op].what
                                    /\ buffer[i].op \in Nat
        /\ \A i, j \in DOMAIN buffer : i < j => buffer[i].op < buffer[j].op
        /\ \A n \in Decided(p) : buffer # << >> /\ buffer[1].op <= n =>
             \E i \in DOMAIN buffer : buffer[i].op = n
    <3>1. \A i \in DOMAIN buffer : buffer[i] \in Event
      BY <2>3
    <3>2. \A e \in Event : e.op \in Nat
      BY DEF Event
    <3> QED BY <2>1, <3>1, <3>2, SMTT(30) DEF AllRemember, Remembers
  <2>9. Decided(p)' = Decided(p) \cup {new}
    BY <1>3, <1>4 DEF Decided
  <2>10. /\ \A n \in Decided(p) : n \in DOMAIN ops /\ n < new /\ n \in Nat /\ ops'[n].what = ops[n].what
         /\ new \in Nat
    BY <1>3, NumbersHold DEF Decided, Numbers
  <2>11. ASSUME NEW i \in DOMAIN more
         PROVE  more[i].op \in Decided(p)' /\ more[i].what = ops'[more[i].op].what
    <3>1. CASE i = last
      <4>1. more[i].op = new /\ more[i].what = what
        BY <1>5, <2>7, <3>1
      <4>2. ops'[new].what = what
        BY <1>4
      <4> QED BY <2>9, <4>1, <4>2
    <3>2. CASE i # last
      <4>1. PICK k \in DOMAIN buffer : more[i] = buffer[k]
        BY <2>7, <2>11, <3>2
      <4>2. more[i].op \in Decided(p) /\ more[i].what = ops[more[i].op].what
        BY <2>8, <4>1
      <4> QED BY <2>9, <2>10, <4>2
    <3> QED BY <3>1, <3>2
  <2>12. ASSUME NEW i \in DOMAIN more, NEW j \in DOMAIN more, i < j
         PROVE  more[i].op < more[j].op
    <3>1. i # last /\ more[i] = buffer[i + gone] /\ i + gone \in DOMAIN buffer
      BY <2>7, <2>12
    <3>2. CASE j = last
      BY <1>5, <2>7, <2>8, <2>10, <3>1, <3>2
    <3>3. CASE j # last
      <4>1. more[j] = buffer[j + gone] /\ j + gone \in DOMAIN buffer
        BY <2>7, <3>3
      <4>2. i + gone < j + gone
        BY <2>5, <2>7, <2>12
      <4> QED BY <2>8, <3>1, <4>1, <4>2
    <3> QED BY <3>2, <3>3
  <2>13. ASSUME NEW n \in Decided(p)', more[1].op <= n
         PROVE  \E i \in DOMAIN more : more[i].op = n
    <3>1. CASE n = new
      BY <1>5, <2>7, <3>1
    <3>2. CASE n # new
      <4>1. n \in Decided(p) /\ n < new /\ n \in Nat /\ new \in Nat
        BY <2>9, <2>10, <3>2
      <4>2. last # 1
        BY <1>5, <2>7, <2>13, <4>1
      <4>3. /\ 1 \in 1 .. last /\ 1 + gone \in DOMAIN buffer /\ more[1] = buffer[1 + gone]
            /\ 1 \in DOMAIN buffer
        BY <2>5, <2>7, <4>2
      <4>4. buffer[1].op <= n /\ buffer # <<>>
        <5>1. CASE gone = 0
          BY <2>7, <2>13, <4>3, <5>1
        <5>2. CASE gone = 1
          <6>1. buffer[1].op < buffer[2].op /\ buffer[2].op <= n
            BY <2>8, <2>13, <4>3, <5>2
          <6>2. buffer[1].op \in Nat /\ buffer[2].op \in Nat
            BY <2>8, <4>3, <5>2
          <6> QED BY <2>7, <4>1, <4>3, <6>1, <6>2
        <5> QED BY <5>1, <5>2
      <4>5. PICK i \in DOMAIN buffer : buffer[i].op = n
        BY <2>8, <4>1, <4>4
      <4>6. gone = 1 => i # 1
        <5>1. gone = 1 => buffer[1].op < buffer[2].op /\ buffer[2].op <= n
          BY <2>8, <2>13, <4>3
        <5>2. gone = 1 => buffer[1].op \in Nat /\ buffer[2].op \in Nat
          BY <2>8, <4>3
        <5> QED BY <4>1, <4>5, <5>1, <5>2
      <4>7. i - gone \in DOMAIN more /\ i - gone # last /\ (i - gone) + gone = i
        BY <2>5, <2>6, <2>7, <4>5, <4>6
      <4> QED BY <2>7, <4>5, <4>7
    <3> QED BY <3>1, <3>2
  <2> QED BY <2>2, <2>11, <2>12, <2>13 DEF Remembers
<1> QED BY <1>7, <1>8 DEF AllRemember


\* A command that ends or throws decides nothing.
LEMMA EndDecidesNothing ==
  ASSUME RInv, NEW p \in Procs, NEW status \in {"done", "threw", "killed"}, End(p, status)
  PROVE  OpsGoOn /\ DOMAIN ops' = DOMAIN ops
BY EndsOp

LEMMA ThrowDecidesNothing ==
  ASSUME RInv, NEW p \in Procs, Throw(p)
  PROVE  OpsGoOn /\ DOMAIN ops' = DOMAIN ops
<1>1. CASE ~ (run[p].kind = "search_run" /\ run[p].what = "hits")
  <2>1. End(p, "threw")
    BY <1>1 DEF Throw
  <2> QED BY <2>1, EndDecidesNothing
<1>2. CASE run[p].kind = "search_run" /\ run[p].what = "hits"
  <2>1. PICK n : n = run[p].op
    OBVIOUS
  <2>2. ops' = [ops EXCEPT ![n].what = "error"]
    BY <1>2, <2>1 DEF Throw
  <2>3. n \in DOMAIN ops /\ ops[n].kind = "search_run" /\ ops[n].what = "hits" /\ ops[n].status = "running"
    BY <1>2, <2>1 DEF RInv, Running, RecorderRuns, Recorders
  <2>4. ops \in Seq(Op) /\ ops[n] \in Op
    BY <2>3 DEF RInv, TypeOK
  <2> DEFINE new == [ops[n] EXCEPT !.what = "error"]
  <2>5. /\ new.proc = ops[n].proc /\ new.kind = ops[n].kind /\ new.ts = ops[n].ts
        /\ new.status = ops[n].status
    BY <2>4 DEF Op
  <2>6. ops' = [ops EXCEPT ![n] = new]
    BY <2>2
  <2> HIDE DEF new
  <2>7. /\ DOMAIN ops' = DOMAIN ops
        /\ ops'[n] = new /\ \A m \in DOMAIN ops : m # n => ops'[m] = ops[m]
    BY <2>3, <2>4, <2>6
  <2> QED BY <2>3, <2>5, <2>7 DEF OpsGoOn
<1> QED BY <1>1, <1>2

LEMMA AuditNext == RInv /\ AllRemember /\ [Next]_vars => AllRemember'
<1> SUFFICES ASSUME RInv, AllRemember, [Next]_vars
             PROVE  AllRemember'
  OBVIOUS
<1>0. TypeOK
  BY DEF RInv
<1>1. "hook" \in Hooks /\ "post_tool_use" \in Hooks /\ "hook" \in Kinds /\ "post_tool_use" \in Kinds
  BY DEF Hooks, Kinds
<1>2. ASSUME NEW p \in Procs, PreToolUse(p) \/ SessionStart(p) \/ Stop(p) \/ Notification(p) \/ PostToolUse(p)
      PROVE  AllRemember'
  <2>1. CASE PreToolUse(p)
    BY <1>0, <1>1, <2>1, OneDecided, OutcomesAre DEF PreToolUse
  <2>2. CASE SessionStart(p)
    BY <1>0, <1>1, <2>2, OneDecided, OutcomesAre DEF SessionStart
  <2>3. CASE Stop(p)
    BY <1>0, <1>1, <2>3, OneDecided, OutcomesAre DEF Stop
  <2>4. CASE Notification(p)
    BY <1>0, <1>1, <2>4, OneDecided, OutcomesAre DEF Notification
  <2>5. CASE PostToolUse(p)
    BY <1>0, <1>1, <2>5, OneDecided, OutcomesAre DEF PostToolUse, StartRecording
  <2> QED BY <1>2, <2>1, <2>2, <2>3, <2>4, <2>5
<1>3. ASSUME NEW p \in Procs, NEW kind \in {"agent_run", "search_run", "skill"}, NEW s, NEW what \in Outcomes,
             StartRecording(p, kind, s, what), UNCHANGED audit
      PROVE  AllRemember'
  <2>1. kind \in Kinds /\ kind \notin Hooks
    BY DEF Kinds, Recorders, Hooks
  <2>2. Begin(p, kind, what, "running")
    BY <1>3 DEF StartRecording
  <2>3. /\ DOMAIN ops' = DOMAIN ops \cup {Len(ops) + 1}
        /\ ops'[Len(ops) + 1] = [proc |-> p, kind |-> kind, ts |-> now, what |-> what, status |-> "running"]
    BY <1>0, <2>1, <2>2, BeginsOp
  <2>4. OpsGoOn
    BY <1>0, <2>1, <2>2, BeginGoesOn
  <2>5. \A n \in DOMAIN ops' : n \notin DOMAIN ops => ops'[n].kind \notin Hooks
    BY <2>1, <2>3
  <2> QED BY <1>3, <2>4, <2>5, NothingDecided
<1>4. ASSUME NEW p \in Procs, RecordAgentRun(p) \/ RecordSearchRun(p) \/ RecordActivation(p)
      PROVE  AllRemember'
  BY <1>3, <1>4, OutcomesAre DEF RecordAgentRun, RecordSearchRun, RecordActivation
<1>5. ASSUME OpsGoOn, DOMAIN ops' = DOMAIN ops, UNCHANGED audit
      PROVE  AllRemember'
  BY <1>5, NothingDecided
<1>6. ASSUME UNCHANGED <<ops, audit>>
      PROVE  AllRemember'
  BY <1>5, <1>6, OpsStay
<1>7. ASSUME NEW p \in Procs, AppendLine(p)
      PROVE  AllRemember'
  <2>1. OpsGoOn /\ DOMAIN ops' = DOMAIN ops
    BY <1>7, AppendRuns
  <2> QED BY <1>5, <1>7, <2>1 DEF AppendLine
<1>8. ASSUME NEW p \in Procs, RefuseName(p) \/ AppendFails(p)
      PROVE  AllRemember'
  <2>1. Throw(p) /\ UNCHANGED audit
    BY <1>8 DEF RefuseName, AppendFails
  <2> QED BY <1>5, <2>1, ThrowDecidesNothing
<1>9. ASSUME NEW p \in Procs, UnlinkThrows(p) \/ PruneFails(p) \/ FinishPrune(p)
      PROVE  AllRemember'
  <2>1. (End(p, "threw") \/ End(p, "done")) /\ UNCHANGED audit
    BY <1>9 DEF UnlinkThrows, PruneFails, FinishPrune
  <2> QED BY <1>5, <2>1, EndDecidesNothing
<1>10. ASSUME NEW p \in Procs,
              \/ OpenToAppend(p) \/ StartPrune(p) \/ ListDir(p) \/ ReadFile(p)
              \/ UnlinkFile(p) \/ TruncateFile(p) \/ RewriteFile(p)
       PROVE  AllRemember'
  BY <1>6, <1>10 DEF OpenToAppend, StartPrune, ListDir, ReadFile, UnlinkFile, TruncateFile, RewriteFile
<1>11. ASSUME NEW p \in Procs, Exit(p) \/ Crash(p)
       PROVE  AllRemember'
  <2>1. audit' = [audit EXCEPT ![p] = << >>] /\ (UNCHANGED ops \/ End(p, "killed"))
    BY <1>11 DEF Exit, Crash
  <2>2. \A r \in Procs : audit'[r] = audit[r] \/ audit'[r] = <<>>
    BY <1>0, <2>1 DEF TypeOK
  <2>3. OpsGoOn /\ DOMAIN ops' = DOMAIN ops
    BY <2>1, OpsStay, EndDecidesNothing
  <2> QED BY <2>2, <2>3, NothingDecided
<1>12. CASE Midnight
  BY <1>6, <1>12 DEF Midnight
<1>13. CASE UNCHANGED vars
  BY <1>6, <1>13 DEF vars
<1>14. CASE Next
  BY <1>2, <1>4, <1>7, <1>8, <1>9, <1>10, <1>11, <1>12, <1>14 DEF Next
<1> QED BY <1>13, <1>14

\* The audit buffer of a process holds its latest decisions, none missing in
\* between, whatever its other commands do and however they end
\* (InMemoryHookAuditSink.write).
THEOREM BufferHoldsTheLatest == Spec => []AuditRemembers
<1>1. Init => AllRemember
  BY DEF Init, AllRemember, Remembers, Decided
<1>2. RInv /\ AllRemember /\ [Next]_vars => AllRemember'
  BY AuditNext
<1> QED BY <1>1, <1>2, RInvHolds, RememberMeans, PTL DEF Spec


-----------------------------------------------------------------------------
(* Skills, from the manifest to their activation.                          *)

\* A sanitized list has sanitized texts of which no two differ in case only
\* (sanitizeStringList).
LEMMA SanitizedList ==
  ASSUME NEW list \in Seq(Texts)
  PROVE  /\ \A t \in sanitizeStringList(list) : t \in Texts /\ Trimmed[t] = t
         /\ \A s, t \in sanitizeStringList(list) : Folded[s] = Folded[t] => s = t
         /\ IsFiniteSet(sanitizeStringList(list))
<1> DEFINE clean == [i \in DOMAIN list |-> Sanitized[list[i]]]
           first == {i \in DOMAIN clean :
                       \A j \in DOMAIN clean : j < i => Folded[clean[j]] # Folded[clean[i]]}
<1>1. sanitizeStringList(list) = {clean[i] : i \in first} \ {Empty}
  BY DEF sanitizeStringList, uniqueStrings
<1>2. /\ DOMAIN clean = 1 .. Len(list)
      /\ first \subseteq 1 .. Len(list)
      /\ \A i \in 1 .. Len(list) : clean[i] \in Texts /\ Trimmed[clean[i]] = clean[i]
  BY TextAssumption
<1>3. \A t \in sanitizeStringList(list) : t \in Texts /\ Trimmed[t] = t
  BY <1>1, <1>2
<1>4. ASSUME NEW s \in sanitizeStringList(list), NEW t \in sanitizeStringList(list),
             Folded[s] = Folded[t]
      PROVE  s = t
  <2>1. PICK i \in first, j \in first : s = clean[i] /\ t = clean[j]
    BY <1>1
  <2>2. ~ (i < j) /\ ~ (j < i)
    BY <1>4, <2>1
  <2>3. i \in Int /\ j \in Int
    BY <1>2
  <2> QED BY <2>1, <2>2, <2>3
<1>5. IsFiniteSet(sanitizeStringList(list))
  <2>1. IsFiniteSet(first)
    <3>1. IsFiniteSet(1 .. Len(list))
      BY FS_Interval
    <3> QED BY <1>2, <3>1, FS_Subset
  <2> HIDE DEF clean, first
  <2>2. IsFiniteSet({clean[i] : i \in first})
    <3> DEFINE image == {clean[i] : i \in first}
               f     == [i \in first |-> clean[i]]
    <3>1. f \in Surjection(first, image)
      BY DEF Surjection
    <3> HIDE DEF f, image
    <3>2. IsFiniteSet(image)
      BY <2>1, <3>1, FS_Surjection
    <3> QED BY <3>2 DEF image
  <2> QED BY <1>1, <2>2, FS_Subset
<1> QED BY <1>3, <1>4, <1>5

\* The same of the triggers of a skill, whichever source they come from
\* (hydrateSkillFromTriggerSources).
LEMMA HydratedList ==
  ASSUME NEW skill \in RawSkill, skill.frontmatter # Invalid, skill.legacy # Invalid
  PROVE  /\ \A t \in HydratedTriggers(skill) : t \in Texts /\ Trimmed[t] = t
         /\ \A s, t \in HydratedTriggers(skill) : Folded[s] = Folded[t] => s = t
         /\ IsFiniteSet(HydratedTriggers(skill))
<1> DEFINE Good(T) == /\ \A t \in T : t \in Texts /\ Trimmed[t] = t
                      /\ \A s, t \in T : Folded[s] = Folded[t] => s = t
                      /\ IsFiniteSet(T)
<1>1. Good({})
  <2>1. IsFiniteSet({})
    BY FS_EmptySet
  <2> QED BY <2>1
<1>2. ASSUME NEW list \in Seq(Texts) PROVE Good(sanitizeStringList(list))
  BY SanitizedList
<1>3. ASSUME NEW source \in Source \cup {Missing} PROVE Good(SourceTriggers(source))
  <2> HIDE DEF Good
  <2> QED BY <1>1, <1>2 DEF SourceTriggers, Source
<1>4. /\ skill.frontmatter \in Source \cup {Missing}
      /\ skill.legacy \in Source \cup {Missing}
      /\ skill.triggers # Missing => skill.triggers \in Seq(Texts)
  BY DEF RawSkill, Optional
<1>5. Good(HydratedTriggers(skill))
  <2> HIDE DEF Good
  <2> QED BY <1>2, <1>3, <1>4 DEF HydratedTriggers
<1> QED BY <1>5

\* The validator never refuses triggers as duplicates: what differs in case or
\* white space only was dropped before (uniqueStrings and
\* validateSkillManifest).
THEOREM TriggersAreDistinct ==
  ASSUME NEW Manifests \in SUBSET Seq(RawSkill), \A manifest \in Manifests : SourcesParse(manifest)
  PROVE  NoTriggerTwice(Manifests)
<1> SUFFICES ASSUME NEW manifest \in Manifests, NEW i \in DOMAIN manifest
             PROVE  ~ DuplicateTriggers(Definition(manifest[i]))
  BY DEF NoTriggerTwice
<1> DEFINE triggers == HydratedTriggers(manifest[i])
<1>1. /\ manifest[i] \in RawSkill
      /\ manifest[i].frontmatter # Invalid /\ manifest[i].legacy # Invalid
  BY DEF SourcesParse
<1>2. Definition(manifest[i]).triggers = triggers
  BY DEF Definition
<1>3. \A t \in triggers : normalize(t) = Folded[t]
  BY <1>1, HydratedList DEF normalize
<1>4. \A s, t \in triggers : Folded[s] = Folded[t] => s = t
  BY <1>1, HydratedList
<1> QED
  <2> HIDE DEF triggers
  <2> QED BY <1>2, <1>3, <1>4 DEF DuplicateTriggers

-----------------------------------------------------------------------------

\* What is suggested is allowed (buildSuggestion).
LEMMA SuggestionsAreAllowed ==
  ASSUME NEW skills, NEW request, NEW s \in suggestSkills(skills, request)
  PROVE  \E i \in DOMAIN skills : s = skills[i] /\ isAllowedForAgent(s, request.agentId)
BY DEF suggestSkills, IsSuggestion

\* Identifiers that differ when normalized differ, so a manifest that loads
\* makes a registry (validateSkillManifest and SkillRegistry.register).
LEMMA LoadedRegisters ==
  ASSUME NEW skills, validateSkillManifest(skills)
  PROVE  Registers(skills)
BY DEF validateSkillManifest, AreDistinct, Registers

\* In a registry a name finds its skill (loadSkill).
LEMMA LoadsByName ==
  ASSUME NEW skills, Registers(skills), NEW i \in DOMAIN skills, NEW agentId
  PROVE  loadSkill(skills, skills[i].id, agentId) =
           IF isAllowedForAgent(skills[i], agentId) THEN skills[i] ELSE Missing
<1>1. \A j \in DOMAIN skills : skills[j].id = skills[i].id => j = i
  BY DEF Registers
<1>2. (CHOOSE j \in DOMAIN skills : skills[j].id = skills[i].id) = i
  BY <1>1
<1> QED BY <1>1, <1>2 DEF loadSkill

\* What is suggested to an agent is loaded for that agent, in every manifest
\* that loads (suggestSkills and loadSkill).
THEOREM SuggestedIsLoaded ==
  ASSUME NEW Manifests, NEW Requests
  PROVE  SuggestionsCanBeLoaded(Manifests, Requests)
<1> SUFFICES ASSUME NEW manifest \in Manifests, NEW request \in Requests, Loads(manifest)
             PROVE  /\ Registers(Definitions(manifest))
                    /\ \A s \in suggestSkills(Definitions(manifest), request) :
                         loadSkill(Definitions(manifest), s.id, request.agentId) = s
  BY DEF SuggestionsCanBeLoaded
<1>1. Registers(Definitions(manifest))
  BY LoadedRegisters DEF Loads
<1>2. ASSUME NEW s \in suggestSkills(Definitions(manifest), request)
      PROVE  loadSkill(Definitions(manifest), s.id, request.agentId) = s
  <2>1. PICK i \in DOMAIN Definitions(manifest) :
          s = Definitions(manifest)[i] /\ isAllowedForAgent(s, request.agentId)
    BY SuggestionsAreAllowed
  <2> QED BY <1>1, <2>1, LoadsByName
<1> QED BY <1>1, <1>2

\* A skill that the manifest restricts is open to nobody else (the schema of
\* its permissions and isAllowedForAgent).
THEOREM RestrictedStaysRestricted ==
  ASSUME NEW Manifests \in SUBSET Seq(RawSkill), NEW Requests
  PROVE  RestrictionsHold(Manifests, Requests)
<1> SUFFICES ASSUME NEW manifest \in Manifests, NEW request \in Requests, Loads(manifest),
                    NEW i \in DOMAIN manifest, manifest[i].allowedAgents # Missing,
                    request.agentId # Missing =>
                      \A k \in DOMAIN manifest[i].allowedAgents :
                        Plain[Trimmed[manifest[i].allowedAgents[k]]] # Plain[request.agentId]
             PROVE  /\ Definitions(manifest)[i] \notin suggestSkills(Definitions(manifest), request)
                    /\ loadSkill(Definitions(manifest), Definitions(manifest)[i].id, request.agentId)
                         = Missing
  BY DEF RestrictionsHold
<1> DEFINE skills == Definitions(manifest)
           listed == manifest[i].allowedAgents
<1>1. i \in DOMAIN skills /\ skills[i] = Definition(manifest[i])
  BY DEF Definitions
<1>2. listed \in Seq(Texts) /\ listed # <<>>
  <2>1. Parses(manifest[i])
    BY DEF Loads
  <2>2. manifest[i] \in RawSkill
    OBVIOUS
  <2> QED BY <2>1, <2>2 DEF Parses, RawSkill, Optional
<1>3. skills[i].allowedAgents = [k \in DOMAIN listed |-> Trimmed[listed[k]]]
  BY <1>1 DEF Definition
<1>4. skills[i].allowedAgents # <<>>
  <2>1. 1 \in DOMAIN listed
    BY <1>2
  <2> HIDE DEF skills, listed
  <2> QED BY <1>3, <2>1
<1>5. ~ isAllowedForAgent(skills[i], request.agentId)
  <2>1. DOMAIN skills[i].allowedAgents = DOMAIN listed
    BY <1>3
  <2>2. \A k \in DOMAIN listed : skills[i].allowedAgents[k] = Trimmed[listed[k]]
    BY <1>3
  <2> QED BY <1>4, <2>1, <2>2 DEF isAllowedForAgent
<1>6. skills[i] \notin suggestSkills(skills, request)
  BY <1>5, SuggestionsAreAllowed
<1>7. loadSkill(skills, skills[i].id, request.agentId) = Missing
  <2>1. Registers(skills)
    BY LoadedRegisters DEF Loads
  <2> HIDE DEF skills
  <2> QED BY <1>1, <1>5, <2>1, LoadsByName
<1> QED BY <1>6, <1>7

-----------------------------------------------------------------------------

\* More paths and more domains never cost a skill its suggestion or lower its
\* score (buildSuggestion).
THEOREM ContextHelps ==
  ASSUME NEW Manifests \in SUBSET Seq(RawSkill), \A manifest \in Manifests : SourcesParse(manifest),
         NEW Requests
  PROVE  MoreContextScoresNoLess(Manifests, Requests)
<1> SUFFICES ASSUME NEW manifest \in Manifests, NEW request \in Requests, NEW more \in Requests,
                    more.query = request.query,
                    UNION request.filePaths \subseteq UNION more.filePaths,
                    request.domains \subseteq more.domains,
                    more.includeManual = request.includeManual,
                    more.agentId = request.agentId,
                    NEW i \in DOMAIN manifest, Parses(manifest[i])
             PROVE  /\ Score(Definition(manifest[i]), request) <= Score(Definition(manifest[i]), more)
                    /\ IsSuggestion(Definition(manifest[i]), request)
                         => IsSuggestion(Definition(manifest[i]), more)
  BY DEF MoreContextScoresNoLess
<1> DEFINE skill == Definition(manifest[i])
<1>1. manifest[i] \in RawSkill /\ manifest[i].frontmatter # Invalid /\ manifest[i].legacy # Invalid
  BY DEF SourcesParse
<1>2. IsFiniteSet(skill.triggers)
  BY <1>1, HydratedList DEF Definition
<1>3. IsFiniteSet(skill.domains)
  <2>1. manifest[i].domains \in Seq(Texts)
    BY <1>1 DEF RawSkill, Optional, Parses
  <2> QED BY <2>1, SanitizedList DEF Definition
<1>4. priorityScore(skill.priority) \in Int
  <2>1. skill.priority \in Priorities
    <3>1. skill.priority = Hydrated(manifest[i], "priority", "medium")
      BY DEF Definition
    <3>2. Hydrated(manifest[i], "priority", "medium") # Invalid
      BY DEF Parses
    <3>3. Hydrated(manifest[i], "priority", "medium") \in Priorities \cup {Invalid}
      <4>1. /\ manifest[i].priority \in Priorities \cup {Missing, Invalid}
            /\ manifest[i].frontmatter = Missing \/ manifest[i].frontmatter.priority \in Priorities \cup {Missing}
            /\ manifest[i].legacy = Missing \/ manifest[i].legacy.priority \in Priorities \cup {Missing}
        BY <1>1 DEF RawSkill, Source, Optional
      <4>2. /\ manifest[i]["priority"] = manifest[i].priority
            /\ manifest[i].frontmatter["priority"] = manifest[i].frontmatter.priority
            /\ manifest[i].legacy["priority"] = manifest[i].legacy.priority
        OBVIOUS
      <4> QED BY <4>1, <4>2 DEF Hydrated, Otherwise, Setting, Priorities
    <3> QED BY <3>1, <3>2, <3>3
  <2> QED BY <2>1 DEF priorityScore, Priorities
<1> HIDE DEF skill
<1>5. /\ InQuery(skill, more) = InQuery(skill, request)
      /\ InPaths(skill, request) \subseteq InPaths(skill, more)
      /\ MatchedDomains(skill, request) \subseteq MatchedDomains(skill, more)
  BY DEF InQuery, InPaths, MatchedDomains
<1>6. /\ IsFiniteSet(InQuery(skill, request))
      /\ IsFiniteSet(InPaths(skill, more))
      /\ IsFiniteSet(MatchedDomains(skill, more))
  <2>1. /\ InQuery(skill, request) \subseteq skill.triggers
        /\ InPaths(skill, more) \subseteq skill.triggers
        /\ MatchedDomains(skill, more) \subseteq skill.domains
    BY DEF InQuery, InPaths, MatchedDomains
  <2> QED BY <1>2, <1>3, <2>1, FS_Subset
<1>7. /\ Cardinality(InQuery(skill, request)) \in Nat
      /\ Cardinality(InPaths(skill, request)) \in Nat
      /\ Cardinality(InPaths(skill, more)) \in Nat
      /\ Cardinality(InPaths(skill, request)) <= Cardinality(InPaths(skill, more))
      /\ Cardinality(MatchedDomains(skill, request)) \in Nat
      /\ Cardinality(MatchedDomains(skill, more)) \in Nat
      /\ Cardinality(MatchedDomains(skill, request)) <= Cardinality(MatchedDomains(skill, more))
  BY <1>5, <1>6, FS_Subset, FS_CardinalityType
<1>8. Score(skill, request) <= Score(skill, more)
  <2>1. \A p \in Int : \A q, a, b, c, d \in Nat :
          a <= b /\ c <= d => p + 3 * q + 4 * a + 2 * c <= p + 3 * q + 4 * b + 2 * d
    OBVIOUS
  <2>2. Score(skill, more) = priorityScore(skill.priority) + 3 * Cardinality(InQuery(skill, request))
                               + 4 * Cardinality(InPaths(skill, more))
                               + 2 * Cardinality(MatchedDomains(skill, more))
    BY <1>5 DEF Score
  <2> QED BY <1>4, <1>7, <2>1, <2>2 DEF Score
<1>9. IsSuggestion(skill, request) => IsSuggestion(skill, more)
  BY <1>5 DEF IsSuggestion
<1> QED BY <1>8, <1>9 DEF skill

=============================================================================
