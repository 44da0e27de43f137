------------------------- MODULE EvaluationScoring ---------------------------
(***************************************************************************)
(* What a set of activities is evaluated to: the units they are, the score *)
(* a language model gives each, and the adjustments of the scores by what  *)
(* the whole set shows of its authors.  The functions of                   *)
(* src/src/assessment-evaluation/domain/evaluation-*.                      *)
(*                                                                         *)
(* A narrative is the marks put before it and the model's answer.  Means   *)
(* and ratios are compared in integers: the doubles of the code come to    *)
(* the same, but for a penalty, which rounds down to one less when four of *)
(* an author's five units are repeated.                                    *)
(***************************************************************************)
EXTENDS Entries, FiniteSets, SequencesExt, FiniteSetsExt

LOW_VOLUME_THRESHOLD == 3
UPDATE_COUNT_NEUTRAL_THRESHOLD == 5
TITLE_FLOOR == 1
UPLIFT_MIN_HITS == 2

Sum(f) == FoldFunction(+, 0, f)
Every(s, Op(_)) == [i \in DOMAIN s |-> Op(s[i])]

-----------------------------------------------------------------------------
(* Units.                                                                  *)

\* Neither the repository nor the kind is part of it.
Unit(a) == <<a.source, a.key, a.id>>

\* The version of a page is not handed on, so that no unit has an update count.
Input(a) ==
    [unit |-> Unit(a), source |-> a.source, author |-> a.author, at |-> a.at,
     kind |-> IF a.kind \in {"commit", "pr"} THEN "code" ELSE "document",
     titleLength |-> a.titleLength, hits |-> a.hits, updates |-> 0]

\* The earliest of those with a key, at the place of the first.
DedupByEarliest(inputs, keys) ==
    LET same(i) == {j \in DOMAIN inputs : keys[j] = keys[i]}
        earliest(i) == Min({j \in same(i) : \A k \in same(i) :
                                inputs[k].at >= inputs[j].at})
        firsts == {i \in DOMAIN inputs : \A j \in same(i) : i <= j}
    IN  EntriesAt([i \in DOMAIN inputs |-> inputs[earliest(i)]], firsts)

\* Mutant of DedupTemporal: the first that came stays.
DedupTemporal_First(inputs) ==
    EntriesAt(inputs, {i \in DOMAIN inputs : \A j \in DOMAIN inputs :
                          inputs[j].unit = inputs[i].unit => i <= j})

DedupTemporal(inputs) == DedupByEarliest(inputs, Every(inputs, LAMBDA x : x.unit))

\* Of an author's documents with one id, the first; code is never dropped.
ExcludeSelfFollowUps(inputs) ==
    DedupByEarliest(inputs, [i \in DOMAIN inputs |->
        IF inputs[i].kind = "document" THEN <<inputs[i].unit, inputs[i].author>> ELSE <<i>>])

-----------------------------------------------------------------------------
(* A unit's score.                                                         *)

Volume(input) == input.titleLength

InputDifficulty(input) ==
    LET score == (IF input.kind = "code" THEN 1 ELSE 0)
                 + (CASE input.titleLength <= 20 -> 0
                      [] input.titleLength >= 80 -> 2
                      [] OTHER -> 1)
    IN  CASE input.titleLength = 0 -> "medium"
          [] input.titleLength # 0 /\ score >= 3 -> "hard"
          [] input.titleLength # 0 /\ score <= 0 -> "easy"
          [] OTHER -> "medium"

\* All that the model is told.
Prompt(input) ==
    [kind |-> input.kind, source |-> input.source, at |-> input.at,
     titleLength |-> input.titleLength]

\* What it says of both, if it says one of the words.
Classify(answer) ==
    [difficulty |-> IF answer.difficulty \in {"easy", "medium", "hard"}
                    THEN answer.difficulty ELSE "medium",
     contribution |-> IF answer.contribution \in {"zero", "low", "medium", "high"}
                      THEN answer.contribution ELSE "low"]

\* The gateway chooses a model by the difficulty, when it is told one; generate is
\* what the models answer to prompts.
ScoreUnit(input, routing, generate) ==
    LET answer == generate[<<Prompt(input), IF routing THEN InputDifficulty(input) ELSE "any">>]
        class == Classify(answer)
    IN  [unit |-> input.unit, narrative |-> [marks |-> <<>>, answer |-> answer],
         difficulty |-> class.difficulty, contribution |-> class.contribution,
         volume |-> Volume(input)]

-----------------------------------------------------------------------------
(* Signals: what the units show of their authors.                          *)

Authors(inputs) == {inputs[i].author : i \in DOMAIN inputs}
Of(inputs, author) == {i \in DOMAIN inputs : inputs[i].author = author}
UnitsWhere(inputs, author, Which(_)) ==
    {inputs[i].unit : i \in {j \in Of(inputs, author) : Which(inputs[j])}}

\* Short units of which there is another like it: the same one, or one of the
\* kind with the same volume.
AbuseSignal(inputs) ==
    LET repeated(i) == \E j \in Of(inputs, inputs[i].author) \ {i} :
            \/ inputs[j].unit = inputs[i].unit
            \/ /\ inputs[j].kind = inputs[i].kind
               /\ Volume(inputs[j]) = Volume(inputs[i])
        low(a) == {i \in Of(inputs, a) :
                      Volume(inputs[i]) < LOW_VOLUME_THRESHOLD /\ repeated(i)}
    IN  [a \in Authors(inputs) |->
            LET count == Cardinality(Of(inputs, a))
                lows == Cardinality(low(a))
            IN  [count |-> count, repeated |-> lows,
                 suspected |-> count >= 2 /\ 2 * lows >= count]]

UpdateCountNeutral(inputs) ==
    [a \in Authors(inputs) |-> UnitsWhere(inputs, a, LAMBDA x :
        x.kind = "document" /\ x.updates >= UPDATE_COUNT_NEUTRAL_THRESHOLD)]

\* Whatever the kind: a commit has no title.
QualitySignal(inputs) ==
    [a \in Authors(inputs) |->
        UnitsWhere(inputs, a, LAMBDA x : x.titleLength <= TITLE_FLOOR)]

\* By how many units of a kind each author has, beside the mean of all authors.
Counts(inputs, kind) ==
    [a \in Authors(inputs) |-> Cardinality({i \in Of(inputs, a) : inputs[i].kind = kind})]
Comparable(counts) == Cardinality(DOMAIN counts) >= 2 /\ Sum(counts) > 0

\* Under a half of the mean.
UnderPerformer(inputs) ==
    LET code == Counts(inputs, "code")
    IN  [a \in Authors(inputs) |->
            Comparable(code) /\ 2 * Cardinality(DOMAIN code) * code[a] < Sum(code)]

\* Over one and a half of the mean.
NotableContribution(inputs) ==
    LET code == Counts(inputs, "code")
    IN  [a \in Authors(inputs) |->
            Comparable(code) /\ 2 * Cardinality(DOMAIN code) * code[a] > 3 * Sum(code)]

DocumentContribution(inputs) ==
    LET docs == Counts(inputs, "document")
    IN  [a \in Authors(inputs) |->
            Comparable(docs) /\ 2 * Cardinality(DOMAIN docs) * docs[a] > 3 * Sum(docs)]

AlgorithmResearch(inputs) ==
    [a \in Authors(inputs) |-> \E i \in Of(inputs, a) :
        inputs[i].kind = "document" /\ inputs[i].hits >= UPLIFT_MIN_HITS]

Signals(inputs) ==
    [abuse |-> AbuseSignal(inputs), updateCount |-> UpdateCountNeutral(inputs),
     quality |-> QualitySignal(inputs), under |-> UnderPerformer(inputs),
     notable |-> NotableContribution(inputs), document |-> DocumentContribution(inputs),
     research |-> AlgorithmResearch(inputs)]

-----------------------------------------------------------------------------
(* Adjustments: each changes one field of the entries it is about.         *)

Adjust(entries, field, Which(_), New(_)) ==
    Every(entries, LAMBDA e :
        IF Which(e) THEN [e EXCEPT !.result[field] = New(e)] ELSE e)

ApplyAbuse(entries, abuse) ==
    Adjust(entries, "volume", LAMBDA e : abuse[e.author].suspected,
        LAMBDA e : (e.result.volume * (abuse[e.author].count - abuse[e.author].repeated))
                   \div abuse[e.author].count)

ApplyUpdateCount(entries, neutral) ==
    Adjust(entries, "volume", LAMBDA e : e.result.unit \in neutral[e.author],
           LAMBDA e : Max({0, e.result.volume}))

ApplyQualityFloor(entries, quality) ==
    Adjust(entries, "contribution", LAMBDA e : e.result.unit \in quality[e.author],
           LAMBDA e : "zero")

\* A mark before the narrative, once.
Annotate(entries, mark, marked) ==
    Adjust(entries, "narrative",
           LAMBDA e : marked[e.author] /\ ~IsPrefix(<<mark>>, e.result.narrative.marks),
           LAMBDA e : [e.result.narrative EXCEPT !.marks = <<mark>> \o @])

\* All of an author's units but those that contribute nothing.
Uplift(entries, lifted) ==
    Adjust(entries, "contribution",
           LAMBDA e : lifted[e.author] /\ e.result.contribution # "zero",
           LAMBDA e : "high")

ApplyUnderPerformerAnnotation(entries, under) == Annotate(entries, "under", under)
ApplyNotableAnnotation(entries, notable) == Annotate(entries, "notable", notable)
ApplyNotableUplift(entries, notable) == Uplift(entries, notable)
ApplyDocumentUplift(entries, notable) == Uplift(entries, notable)
ApplyDocumentAnnotation(entries, notable) == Annotate(entries, "document", notable)
ApplyResearchUplift(entries, research) == Uplift(entries, research)

ApplyAdjustments(entries, signals) ==
    LET volumes == ApplyUpdateCount(ApplyAbuse(entries, signals.abuse),
                                    signals.updateCount)
        floored == ApplyQualityFloor(volumes, signals.quality)
        under == ApplyUnderPerformerAnnotation(floored, signals.under)
        notable == ApplyNotableUplift(ApplyNotableAnnotation(under, signals.notable),
                                      signals.notable)
        documents == ApplyDocumentAnnotation(
                        ApplyDocumentUplift(notable, signals.document), signals.document)
    IN  Every(ApplyResearchUplift(documents, signals.research), LAMBDA e : e.result)

EvaluateActivities(activities, routing, generate) ==
    LET deduped == ExcludeSelfFollowUps(DedupTemporal(Every(activities, Input)))
        entries == Every(deduped, LAMBDA x :
            [author |-> x.author, result |-> ScoreUnit(x, routing, generate)])
    IN  ApplyAdjustments(entries, Signals(deduped))

-----------------------------------------------------------------------------
(* What is stored of the results.                                          *)

\* The source of a unit is never one of the types that are known.
SourceType(unit) == IF unit[1] \in {"commit", "pr", "issue", "document"} THEN unit[1] ELSE ""

Score(level) == CASE level = "zero" -> 0
                  [] level = "low" -> 1
                  [] level = "medium" -> 2
                  [] level = "high" -> 3

Hardest(difficulties) == CASE "hard" \in difficulties -> "hard"
                           [] "hard" \notin difficulties /\ "medium" \in difficulties -> "medium"
                           [] OTHER -> "easy"

\* The score is a mean: its sum and its count.
MapResultsToAssessment(results) ==
    [contributions |-> Every(results, LAMBDA r :
        [sourceType |-> SourceType(r.unit), sourceRef |-> r.unit,
         difficulty |-> r.difficulty, contributionScore |-> Score(r.contribution),
         volume |-> r.volume]),
     difficulty |-> Hardest({results[i].difficulty : i \in DOMAIN results}),
     scoreSum |-> Total(Every(results, LAMBDA r : Score(r.contribution))),
     count |-> Len(results),
     volume |-> Total(Every(results, LAMBDA r : r.volume)),
     narrative |-> Every(results, LAMBDA r : r.narrative)]

=============================================================================
