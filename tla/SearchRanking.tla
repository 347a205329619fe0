--------------------------- MODULE SearchRanking ---------------------------
(***************************************************************************)
(* From what ripgrep prints to the files the scout recommends: the stages  *)
(* of runSearchPipeline (src/src/search/) and ScoutSubagent.analyze        *)
(* (src/src/agents/scout.ts). Nothing here keeps state.                    *)
(*                                                                         *)
(* A hit is a matching line. A query is the set of its terms; a line shows *)
(* a term in its text, and contains some of those as whole tokens. Lines   *)
(* are of one length and hold a token once, so that a term weighs its idf. *)
(* Scores are integers: BM25 and Jaccard in hundredths, what they blend to *)
(* and a confidence in thousandths.                                        *)
(***************************************************************************)
EXTENDS Ordering, Functions

CONSTANTS
  Files,          \* files of the workspace
  Nameable,       \* the files whose path is text: ripgrep gives others as bytes
  Lines,          \* its lines, see Line
  Terms,          \* terms of queries
  PathTokens,     \* the tokens of a file's path
  Domains,        \* the domains of a task
  FileDomains,    \* the domains that a file's path suggests
  CodeUnitOrder,  \* rank of a path as strings compare
  LocaleOrder,    \* rank of a path as localeCompare has it
  Idf,            \* Idf[n][d]: weight of a term that d of n candidates contain
  Limit,          \* how many candidates a search takes
  Bm25Limit,      \* how many hits BM25 leaves
  TopFileLimit    \* how many files the scout recommends

Line == [file : Files, line : Nat, text : SUBSET Terms, tokens : SUBSET Terms]

ASSUME SearchAssumption ==
  /\ Nameable \subseteq Files
  /\ Lines \subseteq Line
  /\ \A g, h \in Lines : (g.file = h.file /\ g.line = h.line) => g = h
  /\ \A h \in Lines : h.tokens \subseteq h.text
  /\ \A S \in {Files, Lines, Terms} : IsFiniteSet(S)
  /\ PathTokens \in [Files -> SUBSET Terms]
  /\ FileDomains \in [Files -> SUBSET Domains]
  /\ \A order \in {CodeUnitOrder, LocaleOrder} :
       /\ order \in [Files -> Nat]
       /\ \A f, g \in Files : order[f] = order[g] => f = g
  /\ \A n \in 1 .. Limit : \A d \in 1 .. n : Idf[n][d] \in Nat
  /\ {Limit, Bm25Limit, TopFileLimit} \subseteq Nat \ {0}

-----------------------------------------------------------------------------
(***************************************************************************)
(* The four stages.                                                        *)
(***************************************************************************)
\* A file's matches come in one block, in the order of its lines, and
\* --max-count bounds them. Lines of a path that is not text are no hits.
parseRipgrepJsonOutput(file, matches) ==
  IF file \notin Nameable THEN <<>>
  ELSE LET ofFile == {h \in matches : h.file = file}
       IN  slice(InOrder([h \in ofFile |-> {g \in ofFile : g.line < h.line}]), Limit)

\* Stage 1 keeps what arrived first.
Candidates(printed) == slice(printed, Limit)

compareHits(score, order, a, b) ==
  \/ score[a] > score[b]
  \/ score[a] = score[b] /\ order[a.file] < order[b.file]
  \/ score[a] = score[b] /\ a.file = b.file /\ a.line < b.line

sortHits(hits, score, order) ==
  InOrder([h \in hits |-> {g \in hits : compareHits(score, order, g, h)}])

tokenize(hit) == hit.tokens \cup PathTokens[hit.file]

\* Stage 3. The boost of stage 2 is no part of it: rankSearchHitsWithBm25
\* replaces the score it was added to. The sum of the weights of the terms is
\* written as the number of their units.
bm25Score(hits, query) ==
  LET containing(t) == {h \in hits : t \in tokenize(h)}
      units(t) == {t} \X (1 .. Idf[Cardinality(hits)][Cardinality(containing(t))])
  IN  [h \in hits |-> Cardinality(UNION {units(t) : t \in query \cap tokenize(h)})]

rankSearchHitsWithBm25(hits, query) ==
  slice(sortHits(hits, bm25Score(hits, query), CodeUnitOrder), least(Limit, Bm25Limit))

jaccardSimilarity(hit, query) ==
  IF query \cup tokenize(hit) = {} THEN 0
  ELSE (100 * Cardinality(query \cap tokenize(hit))) \div Cardinality(query \cup tokenize(hit))

\* Stage 4 blends the scores, with weights 0.8 and 0.2, and sorts again.
blendedScore(hits, query) ==
  LET score == bm25Score(hits, query)
  IN  [h \in hits |-> 8 * score[h] + 2 * jaccardSimilarity(h, query)]

\* As runSearchPipeline, with the limit of BM25 applied before the ranking.
runSearchPipeline_CutFirst(printed, query) ==
  LET candidates == Range(Candidates(printed))
      score      == blendedScore(candidates, query)
      kept       == Range(slice(Candidates(printed), least(Limit, Bm25Limit)))
  IN  [total |-> Cardinality(candidates),
       score |-> score,
       hits  |-> sortHits(kept, score, LocaleOrder)]

runSearchPipeline(printed, query) ==
  LET candidates == Range(Candidates(printed))
      score      == blendedScore(candidates, query)
      kept       == Range(rankSearchHitsWithBm25(candidates, query))
  IN  [total |-> Cardinality(candidates),
       score |-> score,
       hits  |-> sortHits(kept, score, LocaleOrder)]

-----------------------------------------------------------------------------
(***************************************************************************)
(* The scout: what it says of a file, and which files it recommends.       *)
(***************************************************************************)
clampTo(value, high) == IF value > high THEN high ELSE value

\* The highest of the scores, and 0 without one.
highest(scores) == CHOOSE n \in scores \cup {0} : \A m \in scores : m <= n

\* FileSignals and the confidence made of them, each with its weight. A file
\* is remembered when an entry of the session's memory mentions it.
FileSignals(hits, score, task, file) ==
  LET ofFile  == {h \in hits : h.file = file}
      best    == highest({score[h] : h \in ofFile})
      matched == Cardinality({t \in task.query : \E h \in ofFile : t \in h.text})
      weights == (55 * clampTo(best, 10000)) \div 1000
                 + (IF task.query = {} THEN 0 ELSE (250 * matched) \div Cardinality(task.query))
                 + 30 * clampTo(Cardinality(ofFile), 5)
                 + (IF file \in task.remembered THEN 120 ELSE 0)
                 + (IF FileDomains[file] \cap task.domains # {} THEN 80 ELSE 0)
                 + (IF file \in task.named THEN 40 ELSE 0)
  IN  [confidence |-> clampTo(weights, 1000),
       searchScore |-> best, matchedTermCount |-> matched, hitCount |-> Cardinality(ofFile)]

\* Signals are compared one after the other; the path decides a tie.
Beats(signals, f, g) ==
  LET key(x) == <<signals[x].confidence, signals[x].searchScore, signals[x].matchedTermCount,
                  signals[x].hitCount, -LocaleOrder[x]>>
  IN  \E i \in 1 .. 5 : /\ key(f)[i] > key(g)[i]
                        /\ \A j \in 1 .. i - 1 : key(f)[j] = key(g)[j]

\* The files that the hits are in and those the task names, the best first.
rankedFiles(hits, score, task) ==
  LET files   == {h.file : h \in hits} \cup task.named
      signals == [f \in files |-> FileSignals(hits, score, task, f)]
  IN  InOrder([f \in files |-> {g \in files : Beats(signals, g, f)}])

\* As rankFileSignals, without TOP_FILE_LIMIT.
rankFileSignals_All(response, task) == rankedFiles(Range(response.hits), response.score, task)

rankFileSignals(response, task) ==
  slice(rankedFiles(Range(response.hits), response.score, task), TopFileLimit)

=============================================================================
