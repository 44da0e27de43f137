-------------------------- MODULE CollectingProofs ---------------------------
(***************************************************************************)
(* Theorems of Collecting for any number of requests, any activity and a   *)
(* plan of any length.                                                     *)
(***************************************************************************)
EXTENDS Collecting, FiniteSetTheorems, WellFoundedInduction, TLAPS

------------------------------------------------------------------------------
(* The latest of a set of weeks. *)

\* A set of weeks, when not empty, has a latest one: the least, by inclusion,
\* of the sets of the weeks from one of them on is the set from the latest.
LEMMA LatestExists ==
    ASSUME NEW S \in SUBSET Weeks, S # {}
    PROVE  \E s \in S : \A t \in S : t <= s
<1> DEFINE From(s) == {t \in Weeks : s <= t}
           T == {From(s) : s \in S}
<1>1. IsFiniteSet(Weeks)
  BY FS_Interval, BoundsAssumption DEF Weeks
<1>2. T \subseteq FiniteSubsetsOf(Weeks) /\ T # {}
  <2>1. FiniteSubsetsOf(Weeks) = SUBSET Weeks
    BY <1>1, FS_FiniteSubsetsOfFinite
  <2>2. \A s \in S : From(s) \in SUBSET Weeks
    OBVIOUS
  <2>3. \A V \in T : V \in SUBSET Weeks
    BY <2>2
  <2>4. \E V : V \in T
    OBVIOUS
  <2> HIDE DEF T
  <2> QED BY <2>1, <2>3, <2>4
<1>3. IsWellFoundedOn(StrictSubsetOrdering(Weeks), FiniteSubsetsOf(Weeks))
  BY FS_StrictSubsetOrderingWellFounded
<1>4. PICK U \in T : \A V \in T : <<V, U>> \notin StrictSubsetOrdering(Weeks)
  <2> HIDE DEF T
  <2> QED BY <1>2, <1>3, WFMin
<1>5. PICK s \in S : U = From(s)
  OBVIOUS
<1>6. \A t \in S : t <= s
  <2> SUFFICES ASSUME NEW t \in S, ~ (t <= s)
               PROVE  FALSE
    OBVIOUS
  <2>1. s \in Int /\ t \in Int /\ s < t
    BY BoundsAssumption DEF Weeks
  <2>2. From(t) \subseteq From(s) /\ s \in From(s) /\ s \notin From(t)
    BY <2>1, BoundsAssumption DEF Weeks
  <2>3. From(t) \in SUBSET Weeks /\ From(s) \in SUBSET Weeks
    OBVIOUS
  <2>4. <<From(t), From(s)>> \in StrictSubsetOrdering(Weeks)
    <3> HIDE DEF From
    <3> QED BY <2>2, <2>3 DEF StrictSubsetOrdering
  <2> QED BY <1>4, <1>5, <2>4
<1> QED BY <1>6

\* LatestStart bounds the start of every assessment, and is the start of one
\* unless there is none.
LEMMA LatestStartIsLatest ==
    ASSUME row \in [Coords -> Nat]
    PROVE  /\ LatestStart \in Weeks \cup {0}
           /\ \A k \in Coords : row[k] # NoRow => k.start <= LatestStart
           /\ LatestStart # 0 =>
                 \E k \in Coords : row[k] # NoRow /\ k.start = LatestStart
<1> DEFINE starts == {k.start : k \in {j \in Coords : row[j] # NoRow}}
<1>1. starts \in SUBSET Weeks
  BY CoordsAssumption
<1>2. CASE starts = {}
  <2>1. \A k \in Coords : row[k] = NoRow
    BY <1>2
  <2>2. LatestStart = 0
    BY <1>2 DEF LatestStart
  <2> QED BY <2>1, <2>2
<1>3. CASE starts # {}
  <2>1. \E s \in starts : \A t \in starts : t <= s
    BY <1>1, <1>3, LatestExists
  <2>2. LatestStart \in starts /\ \A t \in starts : t <= LatestStart
    BY <1>3, <2>1 DEF LatestStart
  <2> QED BY <1>1, <2>2
<1> QED BY <1>2, <1>3

------------------------------------------------------------------------------
(* The inductive invariants. *)

Week(s) == [period |-> "week", start |-> s]

\* Where a request is and what it was given: a collection is for its one
\* boundary, a backfill for weeks up to one that has come.
Controlled(c) ==
    /\ call[c].result = "done" => At(c, "answered")
    /\ c \in InFlight =>
          /\ call[c].kind \in {"collect", "backfill"}
          /\ call[c].coord.start <= call[c].last
          /\ call[c].kind = "collect" => call[c].last = call[c].coord.start
          /\ call[c].kind = "backfill" =>
                /\ call[c].coord.period = "week"
                /\ PlanWeeks <= call[c].last
                /\ call[c].last <= clock
    /\ call[c].at \in {"sources", "persist"} \/ call[c].result = "done" =>
          call[c].id \in 1..ids /\ call[c].began <= clock

ControlOK ==
    /\ PlanWeeks <= clock
    /\ \A c \in Calls : Controlled(c)

\* A call under way is to store a, or to list it and then store it.
Pending(c, a) ==
    \/ /\ At(c, "sources")
       /\ a.at <= clock
       /\ a.source = "github" => call[c].since <= a.at
    \/ At(c, "persist") /\ a \in call[c].todo

\* An activity is stored, is missed or is about to be one of them.
Accounted(a) == a \in Stored \cup missed \/ \E c \in Calls : Pending(c, a)

\* All that happened up to an assessment is accounted for, and so is what a
\* call that derived its time leaves out by it; and a boundary that is still
\* to come is one whose activities were counted as missed.
AllAccounted ==
    /\ \A k \in Coords, a \in Activity :
          row[k] # NoRow /\ a.at <= k.start => Accounted(a)
    /\ \A c \in Calls, a \in Activity :
          At(c, "create") /\ a.at < call[c].since => Accounted(a)
    /\ \A c \in Calls, a \in Activity :
          call[c].at \in {"derive", "create"} /\ a.at <= call[c].coord.start =>
              a.at <= clock \/ a \in missed

\* Once a collection has listed its activities, each one of its window is
\* stored, is missed or is still to do.
WindowCovered ==
    \A c \in Calls, a \in Activity :
        /\ At(c, "persist") \/ call[c].result = "done"
        /\ call[c].since <= a.at /\ a.at <= call[c].began
        => a \in Stored \cup missed
              \/ (At(c, "persist") /\ a \in call[c].todo)

\* The week PlanWeeks is in the plan of every backfill: whoever is past
\* creating its assessment is the one that claimed it.
Claimed(c) ==
    /\ call[c].kind = "backfill"
    /\ \/ call[c].result = "done"
       \/ /\ c \in InFlight
          /\ \/ PlanWeeks < call[c].coord.start
             \/ /\ call[c].coord.start = PlanWeeks
                /\ call[c].at \in {"sources", "persist"}

OneClaims ==
    ~removed =>
        /\ \A c \in Calls : Claimed(c) => row[Week(PlanWeeks)] # NoRow
        /\ \A c, d \in Calls : Claimed(c) /\ Claimed(d) => c = d

BaseInv == TypeOK /\ ControlOK
CollectingInv == BaseInv /\ AllAccounted /\ WindowCovered /\ OneClaims

------------------------------------------------------------------------------
(* What the actions do to the calls. *)

OthersKeep(c) == \A d \in Calls \ {c} : call'[d] = call[d]

\* There is a coordinate, so a request that has not begun is a record of calls.
LEMMA FreshIsACall == Fresh \in CallRecord
<1>1. \E k : k \in Coords
  <2>1. 1 \in Weeks
    BY BoundsAssumption DEF Weeks
  <2>2. [period |-> "week", start |-> 1] \in Coords
    BY <2>1, BoundsAssumption
  <2> QED BY <2>2
<1>2. (CHOOSE k \in Coords : TRUE) \in Coords
  BY <1>1
<1> DEFINE k0 == CHOOSE k \in Coords : TRUE
<1>3. k0 \in Coords
  BY <1>2
<1> HIDE DEF k0
<1>4. Fresh = [at |-> "fresh", kind |-> "none", coord |-> k0,
          last |-> 0, backoff |-> 1, since |-> 0, id |-> NoRow, began |-> 0,
          todo |-> {}, result |-> "none"]
  BY DEF Fresh, k0
<1> QED BY <1>3, <1>4, BoundsAssumption DEF CallRecord, NoRow, Places, Results

\* Whether its result is told or not, an answered request has nothing to do.
LEMMA AnswersStep ==
    ASSUME TypeOK, NEW c \in Calls, NEW result \in Results, Answers(c, result)
    PROVE  /\ call' \in [Calls -> CallRecord]
           /\ OthersKeep(c)
           /\ call'[c].at = "answered" /\ call'[c].result = result
           /\ call'[c].kind = call[c].kind
           /\ result = "done" =>
                 call'[c] = [call[c] EXCEPT !.at = "answered", !.result = "done"]
<1> DEFINE done == [call[c] EXCEPT !.at = "answered", !.result = result]
           over == [Fresh EXCEPT !.at = "answered", !.kind = call[c].kind,
                                 !.result = result]
<1>1. call[c] \in CallRecord
  BY DEF TypeOK
<1>2. /\ done \in CallRecord /\ done.at = "answered" /\ done.result = result
      /\ done.kind = call[c].kind
  BY <1>1 DEF CallRecord, Places
<1>3. /\ over \in CallRecord /\ over.at = "answered" /\ over.result = result
      /\ over.kind = call[c].kind
  BY <1>1, FreshIsACall DEF CallRecord, Places
<1>4. call' = [call EXCEPT ![c] = IF result = "done" THEN done ELSE over]
  BY DEF Answers
<1>5. result = "done" =>
          done = [call[c] EXCEPT !.at = "answered", !.result = "done"]
  OBVIOUS
<1> HIDE DEF done, over
<1> QED BY <1>2, <1>3, <1>4, <1>5 DEF TypeOK, OthersKeep

\* A collection begins to derive, for its one boundary.
LEMMA CollectStep ==
    ASSUME TypeOK, NEW c \in Calls, NEW k \in Coords, NEW b \in Backoffs,
           Collect(c, k, b)
    PROVE  /\ call' \in [Calls -> CallRecord]
           /\ OthersKeep(c)
           /\ call'[c].at = "derive" /\ call'[c].kind = "collect"
           /\ call'[c].coord = k /\ call'[c].last = k.start
           /\ call'[c].result = "none"
<1> DEFINE r == [Fresh EXCEPT !.at = "derive", !.kind = "collect", !.coord = k,
                              !.last = k.start, !.backoff = b]
<1>1. k.start \in Weeks
  BY CoordsAssumption
<1>2. r \in CallRecord
  BY <1>1, FreshIsACall DEF CallRecord, Places
<1>3. /\ r.at = "derive" /\ r.kind = "collect" /\ r.coord = k
      /\ r.last = k.start /\ r.result = "none"
  BY DEF Fresh
<1>4. call' = [call EXCEPT ![c] = r]
  BY DEF Collect
<1> HIDE DEF r
<1> QED BY <1>2, <1>3, <1>4 DEF TypeOK, OthersKeep

\* A backfill is skipped, or begins with the first week of its plan.
LEMMA BackfillStep ==
    ASSUME TypeOK, PlanWeeks <= clock, NEW c \in Calls, Backfill(c)
    PROVE  /\ call' \in [Calls -> CallRecord]
           /\ OthersKeep(c)
           /\ call'[c].kind = "backfill"
           /\ \/ call'[c].at = "answered" /\ call'[c].result = "skipped"
              \/ /\ call'[c].at = "derive" /\ call'[c].result = "none"
                 /\ call'[c].last = clock
                 /\ call'[c].coord = Week(clock - PlanWeeks + 1)
                 /\ call'[c].coord.period = "week"
                 /\ call'[c].coord.start = clock - PlanWeeks + 1
<1> DEFINE s == [Fresh EXCEPT !.at = "answered", !.kind = "backfill",
                              !.result = "skipped"]
           w == Week(clock - PlanWeeks + 1)
           r == [Fresh EXCEPT !.at = "derive", !.kind = "backfill",
                              !.last = clock, !.coord = w]
<1>1. clock - PlanWeeks + 1 \in Weeks /\ clock \in Weeks
  BY BoundsAssumption DEF TypeOK, Weeks
<1>2. w \in Coords /\ w.period = "week" /\ w.start = clock - PlanWeeks + 1
  BY <1>1, BoundsAssumption DEF Week
<1>3. w = [period |-> "week", start |-> clock - PlanWeeks + 1]
  BY DEF Week
<1>4. \/ call' = [call EXCEPT ![c] = s]
      \/ call' = [call EXCEPT ![c] = r]
  BY <1>3, Zenon DEF Backfill
<1> HIDE DEF w
<1>5. /\ s \in CallRecord /\ s.at = "answered" /\ s.kind = "backfill"
      /\ s.result = "skipped"
  BY FreshIsACall DEF CallRecord, Places, Results
<1>6. r \in CallRecord
  BY <1>1, <1>2, FreshIsACall DEF CallRecord, Places
<1>7. /\ r.at = "derive" /\ r.kind = "backfill" /\ r.coord = w
      /\ r.last = clock /\ r.result = "none"
  BY DEF Fresh
<1> HIDE DEF s, r
<1>8. CASE call' = [call EXCEPT ![c] = s]
  BY <1>5, <1>8 DEF TypeOK, OthersKeep
<1>9. CASE call' = [call EXCEPT ![c] = r]
  <2>1. call'[c] = r /\ call' \in [Calls -> CallRecord] /\ OthersKeep(c)
    BY <1>6, <1>9 DEF TypeOK, OthersKeep
  <2> QED BY <2>1, <1>2, <1>7 DEF w
<1> QED BY <1>4, <1>8, <1>9

\* Going back further than the latest assessment ends at a week, or at none.
LEMMA SinceType ==
    ASSUME TypeOK, NEW b \in Backoffs
    PROVE  /\ Since(b) \in Weeks \cup {0}
           /\ Since(b) <= LatestStart
<1>1. LatestStart \in Weeks \cup {0}
  BY LatestStartIsLatest DEF TypeOK
<1>2. b \in Nat
  BY BoundsAssumption
<1> QED BY <1>1, <1>2, BoundsAssumption DEF Since, Weeks

\* A collection has the time it goes back to, and the rest as before.
LEMMA DeriveStep ==
    ASSUME TypeOK, NEW c \in Calls, DeriveSince(c)
    PROVE  /\ call' \in [Calls -> CallRecord]
           /\ OthersKeep(c)
           /\ call'[c].at = "create" /\ call'[c].since = Since(call[c].backoff)
           /\ \A f \in {"kind", "coord", "last", "id", "began", "result"} :
                 call'[c][f] = call[c][f]
<1> DEFINE r == [call[c] EXCEPT !.at = "create", !.since = Since(call[c].backoff)]
<1>1. call[c] \in CallRecord /\ call[c].backoff \in Backoffs
  BY DEF TypeOK, CallRecord
<1>2. Since(call[c].backoff) \in Weeks \cup {0}
  BY <1>1, SinceType
<1>3. call' = [call EXCEPT ![c] = r]
  BY DEF DeriveSince
<1>4. r \in CallRecord
  BY <1>1, <1>2 DEF CallRecord, Places
<1>5. /\ r.at = "create" /\ r.since = Since(call[c].backoff)
      /\ r.kind = call[c].kind /\ r.coord = call[c].coord /\ r.last = call[c].last
      /\ r.id = call[c].id /\ r.began = call[c].began
      /\ r.result = call[c].result
  BY <1>1 DEF CallRecord
<1> HIDE DEF r
<1> QED BY <1>3, <1>4, <1>5 DEF TypeOK, OthersKeep

\* The assessment of the boundary is created and its collection goes on, or it
\* was there and the request is over.
LEMMA CreateStep ==
    ASSUME TypeOK, NEW c \in Calls, CreatePlaceholder(c)
    PROVE  /\ call' \in [Calls -> CallRecord]
           /\ OthersKeep(c)
           /\ call'[c].kind = call[c].kind
           /\ \/ /\ row[call[c].coord] = NoRow
                 /\ row' = [row EXCEPT ![call[c].coord] = ids + 1]
                 /\ ids' = ids + 1
                 /\ call'[c].at = "sources" /\ call'[c].id = ids + 1
                 /\ call'[c].began = clock
                 /\ \A f \in {"coord", "last", "since", "result"} :
                       call'[c][f] = call[c][f]
              \/ /\ row[call[c].coord] # NoRow
                 /\ UNCHANGED <<row, ids>>
                 /\ call'[c].at = "answered" /\ call'[c].result = "conflict"
<1> DEFINE r == [call[c] EXCEPT !.at = "sources", !.id = ids + 1, !.began = clock]
<1>1. call[c] \in CallRecord
  BY DEF TypeOK
<1>2. r \in CallRecord
  <2>1. ids + 1 \in Nat /\ clock \in Weeks \cup {0}
    BY DEF TypeOK
  <2> QED BY <1>1, <2>1 DEF CallRecord, Places
<1>3. /\ r.at = "sources" /\ r.id = ids + 1 /\ r.began = clock
      /\ r.kind = call[c].kind /\ r.coord = call[c].coord /\ r.last = call[c].last
      /\ r.since = call[c].since /\ r.result = call[c].result
  BY <1>1 DEF CallRecord
<1>4. CASE /\ row[call[c].coord] = NoRow
           /\ ids' = ids + 1
           /\ row' = [row EXCEPT ![call[c].coord] = ids + 1]
           /\ call' = [call EXCEPT ![c] = r]
  <2> HIDE DEF r
  <2> QED BY <1>2, <1>3, <1>4 DEF TypeOK, OthersKeep
<1>5. CASE /\ row[call[c].coord] # NoRow
           /\ Answers(c, "conflict")
           /\ UNCHANGED <<row, ids>>
  <2>1. "conflict" \in Results
    BY DEF Results
  <2> QED BY <1>5, <2>1, AnswersStep
<1> QED BY <1>4, <1>5 DEF CreatePlaceholder

\* A collection has some of what the sources list to do; the rest is missed.
LEMMA SourcesStep ==
    ASSUME TypeOK, NEW c \in Calls, CollectActivities(c)
    PROVE  /\ call' \in [Calls -> CallRecord]
           /\ OthersKeep(c)
           /\ call'[c].at = "persist"
           /\ missed' = missed \cup
                 ((Listed(c, "github") \cup Listed(c, "confluence")) \ call'[c].todo)
           /\ \A f \in {"kind", "coord", "last", "since", "id", "began", "result"} :
                 call'[c][f] = call[c][f]
<1>1. PICK got \in SUBSET (Listed(c, "github") \cup Listed(c, "confluence")) :
          /\ call' = [call EXCEPT ![c].at = "persist", ![c].todo = got]
          /\ missed' = missed \cup
                ((Listed(c, "github") \cup Listed(c, "confluence")) \ got)
  BY DEF CollectActivities
<1> DEFINE r == [call[c] EXCEPT !.at = "persist", !.todo = got]
<1>2. call[c] \in CallRecord
  BY DEF TypeOK
<1>3. got \in SUBSET Activity
  BY DEF Listed, Happened
<1>4. r \in CallRecord
  BY <1>2, <1>3 DEF CallRecord, Places
<1>5. /\ r.at = "persist" /\ r.todo = got
      /\ r.kind = call[c].kind /\ r.coord = call[c].coord /\ r.last = call[c].last
      /\ r.since = call[c].since /\ r.result = call[c].result
      /\ r.id = call[c].id /\ r.began = call[c].began
  BY <1>2 DEF CallRecord
<1>6. call' = [call EXCEPT ![c] = r]
  BY <1>1
<1> HIDE DEF r
<1> QED BY <1>1, <1>4, <1>5, <1>6 DEF TypeOK, OthersKeep

\* One contribution is stored, or the request fails and the rest is missed.
LEMMA PersistStep ==
    ASSUME TypeOK, NEW c \in Calls, Persist(c)
    PROVE  /\ call' \in [Calls -> CallRecord]
           /\ OthersKeep(c)
           /\ call'[c].kind = call[c].kind
           /\ \/ /\ OwnRow(c)
                 /\ call'[c].at = "persist"
                 /\ missed' = missed
                 /\ \E a \in call[c].todo :
                       /\ stored' = [stored EXCEPT ![call[c].coord] =
                                       stored[call[c].coord] \cup {a}]
                       /\ call'[c].todo = call[c].todo \ {a}
                 /\ \A f \in {"coord", "last", "since", "id", "began", "result"} :
                       call'[c][f] = call[c][f]
              \/ /\ call'[c].at = "answered"
                 /\ call'[c].result \in {"duplicate", "orphan"}
                 /\ missed' = missed \cup call[c].todo
                 /\ stored' = stored
<1> DEFINE k == call[c].coord
<1>1. PICK a \in call[c].todo :
        \/ /\ OwnRow(c)
           /\ stored' = [stored EXCEPT ![k] = stored[k] \cup {a}]
           /\ call' = [call EXCEPT ![c].todo = call[c].todo \ {a}]
           /\ UNCHANGED missed
        \/ /\ Answers(c, IF OwnRow(c) THEN "duplicate" ELSE "orphan")
           /\ missed' = missed \cup call[c].todo
           /\ UNCHANGED stored
  <2>1. /\ k \in Coords /\ call \in [Calls -> CallRecord]
        /\ stored \in [Coords -> SUBSET Activity]
    BY DEF TypeOK, CallRecord
  <2> QED BY <2>1 DEF Persist
<1> DEFINE r == [call[c] EXCEPT !.todo = call[c].todo \ {a}]
<1>2. call[c] \in CallRecord
  BY DEF TypeOK
<1>3. CASE /\ OwnRow(c)
           /\ stored' = [stored EXCEPT ![k] = stored[k] \cup {a}]
           /\ call' = [call EXCEPT ![c] = r]
           /\ UNCHANGED missed
  <2>1. r \in CallRecord
    BY <1>2 DEF CallRecord
  <2>2. /\ r.at = call[c].at /\ r.todo = call[c].todo \ {a}
        /\ r.kind = call[c].kind /\ r.coord = call[c].coord
        /\ r.last = call[c].last
        /\ r.since = call[c].since /\ r.result = call[c].result
        /\ r.id = call[c].id /\ r.began = call[c].began
    BY <1>2 DEF CallRecord
  <2>3. call[c].at = "persist"
    BY DEF Persist, At
  <2> HIDE DEF r
  <2>4. call'[c] = r /\ call' \in [Calls -> CallRecord] /\ OthersKeep(c)
    BY <1>3, <2>1 DEF TypeOK, OthersKeep
  <2> QED BY <1>3, <2>2, <2>3, <2>4
<1>4. CASE /\ Answers(c, IF OwnRow(c) THEN "duplicate" ELSE "orphan")
           /\ missed' = missed \cup call[c].todo
           /\ UNCHANGED stored
  <2>1. PICK result \in {"duplicate", "orphan"} : Answers(c, result)
    BY <1>4
  <2>2. result \in Results
    BY DEF Results
  <2> QED BY <1>4, <2>1, <2>2, AnswersStep
<1>5. call[c].todo \ {a} = r.todo /\
      (call' = [call EXCEPT ![c].todo = call[c].todo \ {a}]
          => call' = [call EXCEPT ![c] = r])
  BY <1>2 DEF CallRecord
<1> QED BY <1>1, <1>3, <1>4, <1>5

\* A collection that has nothing left is done, or goes on to the next week.
LEMMA FinishStep ==
    ASSUME TypeOK, NEW c \in Calls, Finish(c), call[c].coord.period = "week"
              \/ call[c].coord.start = call[c].last
    PROVE  /\ call' \in [Calls -> CallRecord]
           /\ OthersKeep(c)
           /\ \A f \in {"kind", "last", "since", "id", "began", "todo"} :
                 call'[c][f] = call[c][f]
           /\ \/ /\ call[c].coord.start = call[c].last
                 /\ call'[c].coord = call[c].coord
                 /\ call'[c].at = "answered" /\ call'[c].result = "done"
              \/ /\ call[c].coord.start < call[c].last
                 /\ call'[c].at = "derive" /\ call'[c].result = call[c].result
                 /\ call'[c].coord.period = "week"
                 /\ call'[c].coord.start = call[c].coord.start + 1
<1> DEFINE k == call[c].coord
           next == [k EXCEPT !.start = k.start + 1]
           r == [call[c] EXCEPT !.at = "derive", !.coord = next]
<1>1. /\ call[c] \in CallRecord /\ k \in Coords /\ k.start \in Weeks
      /\ k \in [period : {"week", "day"}, start : Weeks]
      /\ call[c].last \in Weeks \cup {0}
  BY CoordsAssumption DEF TypeOK, CallRecord
<1>2. CASE k.start = call[c].last /\ Answers(c, "done")
  <2>1. "done" \in Results
    BY DEF Results
  <2>2. /\ call' \in [Calls -> CallRecord] /\ OthersKeep(c)
        /\ call'[c] = [call[c] EXCEPT !.at = "answered", !.result = "done"]
    BY <1>2, <2>1, AnswersStep
  <2> QED BY <1>1, <1>2, <2>2 DEF CallRecord
<1>3. CASE /\ k.start < call[c].last
           /\ call' = [call EXCEPT ![c].at = "derive",
                                   ![c].coord.start = k.start + 1]
  <2>1. k.start + 1 \in Weeks
    BY <1>1, <1>3, BoundsAssumption DEF Weeks
  <2>2. k.period = "week"
    BY <1>1, <1>3, BoundsAssumption DEF Weeks
  <2>3. next = [period |-> "week", start |-> k.start + 1]
    BY <1>1, <2>2
  <2>4. next \in Coords /\ next.period = "week" /\ next.start = k.start + 1
    BY <2>1, <2>3, BoundsAssumption
  <2>5. call' = [call EXCEPT ![c] = r]
    BY <1>1, <1>3 DEF TypeOK, CallRecord
  <2> HIDE DEF next
  <2>6. r \in CallRecord
    BY <1>1, <2>4 DEF CallRecord, Places
  <2>7. /\ r.at = "derive" /\ r.coord = next /\ r.kind = call[c].kind
        /\ r.last = call[c].last /\ r.since = call[c].since
        /\ r.id = call[c].id /\ r.began = call[c].began
        /\ r.todo = call[c].todo /\ r.result = call[c].result
    BY <1>1 DEF CallRecord
  <2> HIDE DEF r
  <2>8. call'[c] = r /\ call' \in [Calls -> CallRecord] /\ OthersKeep(c)
    BY <2>5, <2>6 DEF TypeOK, OthersKeep
  <2> QED BY <1>3, <2>4, <2>7, <2>8
<1>4. \/ k.start = call[c].last /\ Answers(c, "done")
      \/ /\ k.start < call[c].last
         /\ call' = [call EXCEPT ![c].at = "derive",
                                 ![c].coord.start = k.start + 1]
  BY <1>1 DEF Finish, TypeOK, CallRecord
<1> QED BY <1>2, <1>3, <1>4

\* A request that fails is over, and what it had listed or was about to list
\* is missed.
LEMMA FailsStep ==
    ASSUME TypeOK, NEW c \in Calls, CallFails(c)
    PROVE  /\ call' \in [Calls -> CallRecord]
           /\ OthersKeep(c)
           /\ call'[c].at = "answered" /\ call'[c].result = "failed"
           /\ call'[c].kind = call[c].kind
           /\ missed \subseteq missed'
           /\ missed' \subseteq Activity
           /\ At(c, "sources") =>
                 Listed(c, "github") \cup Listed(c, "confluence") \subseteq missed'
           /\ At(c, "persist") => call[c].todo \subseteq missed'
<1>1. "failed" \in Results /\ Answers(c, "failed")
  BY DEF Results, CallFails
<1>2. call[c].todo \subseteq Activity
  BY DEF TypeOK, CallRecord
<1>3. missed \subseteq Activity
  BY DEF TypeOK
<1>4. /\ missed \subseteq missed' /\ missed' \subseteq Activity
      /\ At(c, "sources") =>
            Listed(c, "github") \cup Listed(c, "confluence") \subseteq missed'
      /\ At(c, "persist") => call[c].todo \subseteq missed'
  BY <1>2, <1>3 DEF CallFails, At, Listed, Happened
<1> QED BY <1>1, <1>4, AnswersStep

------------------------------------------------------------------------------
(* Types and control. *)

\* What is known of a call stays so while the call is left alone.
LEMMA ControlledStays ==
    ASSUME TypeOK, NEW d \in Calls, Controlled(d), call'[d] = call[d],
           clock' \in Weeks, ids' \in Nat, clock <= clock', ids <= ids'
    PROVE  Controlled(d)'
<1>1. /\ call[d].id \in Nat /\ call[d].last \in Weeks \cup {0}
      /\ call[d].began \in Weeks \cup {0}
  BY DEF TypeOK, CallRecord
<1>2. d \in InFlight' <=> d \in InFlight
  BY DEF InFlight
<1>3. call[d].last <= clock => call[d].last <= clock'
  BY <1>1, BoundsAssumption DEF TypeOK, Weeks
<1>4. call[d].began <= clock => call[d].began <= clock'
  BY <1>1, BoundsAssumption DEF TypeOK, Weeks
<1>5. call[d].id \in 1..ids => call[d].id \in 1..ids'
  BY <1>1 DEF TypeOK
<1> QED BY <1>2, <1>3, <1>4, <1>5 DEF Controlled, At

\* Initially nothing is in flight.
LEMMA BaseInit == Init => BaseInv
<1> SUFFICES ASSUME Init PROVE BaseInv
  OBVIOUS
<1>1. TypeOK
  <2>1. clock \in Weeks
    BY BoundsAssumption DEF Init, Weeks
  <2>2. call \in [Calls -> CallRecord]
    BY FreshIsACall DEF Init
  <2>3. others \in 0..MaxOthers
    BY BoundsAssumption DEF Init
  <2> QED BY <2>1, <2>2, <2>3 DEF Init, TypeOK, NoRow
<1>2. PlanWeeks <= clock
  BY BoundsAssumption DEF Init
<1>3. \A c \in Calls : call[c].at = "fresh" /\ call[c].result = "none"
  BY DEF Init, Fresh
<1>4. \A c \in Calls : Controlled(c)
  BY <1>3 DEF Controlled, InFlight, At
<1> QED BY <1>1, <1>2, <1>4 DEF BaseInv, ControlOK

\* The types and the control of a step of one call: the step leaves the other
\* calls alone, and no type but those of what it changes is at stake.
LEMMA BaseAfterCall ==
    ASSUME BaseInv, NEW c \in Calls, call' \in [Calls -> CallRecord],
           OthersKeep(c), Controlled(c)',
           UNCHANGED <<clock, others, removed>>,
           row' \in [Coords -> Nat], stored' \in [Coords -> SUBSET Activity],
           ids' \in Nat, ids <= ids', missed' \subseteq Activity
    PROVE  BaseInv'
<1>1. TypeOK'
  BY DEF BaseInv, TypeOK
<1>2. clock' \in Weeks /\ clock <= clock' /\ PlanWeeks <= clock'
  BY BoundsAssumption DEF BaseInv, ControlOK, TypeOK, Weeks
<1>3. \A d \in Calls : Controlled(d)'
  <2> SUFFICES ASSUME NEW d \in Calls, d # c PROVE Controlled(d)'
    OBVIOUS
  <2>1. Controlled(d) /\ TypeOK /\ call'[d] = call[d]
    BY DEF BaseInv, ControlOK, OthersKeep
  <2> QED BY <1>2, <2>1, ControlledStays
<1> QED BY <1>1, <1>2, <1>3 DEF BaseInv, ControlOK

\* Each step of the requests, of the rest of the application and of time keeps
\* types and control.
LEMMA BaseStep == BaseInv /\ [Next]_vars => BaseInv'
<1> SUFFICES ASSUME BaseInv, [Next]_vars PROVE BaseInv'
  OBVIOUS
<1> USE DEF BaseInv
<1>0. /\ TypeOK /\ ControlOK /\ PlanWeeks <= clock
      /\ \A c \in Calls : Controlled(c) /\ call[c] \in CallRecord
  BY DEF ControlOK, TypeOK
<1>t. /\ clock \in Weeks /\ ids \in Nat /\ ids <= ids /\ missed \subseteq Activity
      /\ row \in [Coords -> Nat] /\ stored \in [Coords -> SUBSET Activity]
      /\ PlanWeeks \in Nat
  BY BoundsAssumption DEF TypeOK
<1>1. ASSUME NEW c \in Calls, NEW k \in Coords, NEW b \in Backoffs, Collect(c, k, b)
      PROVE  BaseInv'
  <2>1. /\ call' \in [Calls -> CallRecord] /\ OthersKeep(c)
        /\ call'[c].at = "derive" /\ call'[c].kind = "collect"
        /\ call'[c].coord = k /\ call'[c].last = k.start
        /\ call'[c].result = "none"
    BY <1>0, <1>1, CollectStep
  <2>2. k.start <= k.start
    BY CoordsAssumption, BoundsAssumption DEF Weeks
  <2>3. Controlled(c)'
    BY <2>1, <2>2 DEF Controlled, InFlight, At
  <2>4. /\ UNCHANGED <<clock, row, stored, ids, others, removed>>
        /\ missed' \subseteq Activity
    BY <1>1, <1>t DEF Collect
  <2> QED BY <1>t, <2>1, <2>3, <2>4, BaseAfterCall
<1>2. ASSUME NEW c \in Calls, Backfill(c)
      PROVE  BaseInv'
  <2>1. /\ call' \in [Calls -> CallRecord] /\ OthersKeep(c)
        /\ call'[c].kind = "backfill"
        /\ \/ call'[c].at = "answered" /\ call'[c].result = "skipped"
           \/ /\ call'[c].at = "derive" /\ call'[c].result = "none"
              /\ call'[c].last = clock
              /\ call'[c].coord.period = "week"
              /\ call'[c].coord.start = clock - PlanWeeks + 1
    BY <1>0, <1>2, BackfillStep
  <2>2. UNCHANGED <<clock, row, stored, ids, others, removed, missed>>
    BY <1>2 DEF Backfill
  <2>3. /\ clock - PlanWeeks + 1 <= clock /\ PlanWeeks <= clock
        /\ clock <= clock'
    BY <1>0, <1>t, <2>2, BoundsAssumption DEF Weeks
  <2>4. Controlled(c)'
    BY <2>1, <2>3 DEF Controlled, InFlight, At
  <2> QED BY <1>t, <2>1, <2>2, <2>4, BaseAfterCall
<1>3. ASSUME NEW c \in Calls, DeriveSince(c)
      PROVE  BaseInv'
  <2>1. /\ call' \in [Calls -> CallRecord] /\ OthersKeep(c)
        /\ call'[c].at = "create"
        /\ call'[c].kind = call[c].kind /\ call'[c].coord = call[c].coord
        /\ call'[c].last = call[c].last /\ call'[c].result = call[c].result
        /\ call'[c].id = call[c].id /\ call'[c].began = call[c].began
    BY <1>0, <1>3, DeriveStep
  <2>2. UNCHANGED <<clock, row, stored, ids, others, removed, missed>>
    BY <1>3 DEF DeriveSince
  <2>3. call[c].at = "derive" /\ Controlled(c)
    BY <1>0, <1>3 DEF DeriveSince, At
  <2>4. Controlled(c)'
    BY <2>1, <2>2, <2>3 DEF Controlled, InFlight, At
  <2> QED BY <1>t, <2>1, <2>2, <2>4, BaseAfterCall
<1>4. ASSUME NEW c \in Calls, CreatePlaceholder(c)
      PROVE  BaseInv'
  <2>1. /\ call' \in [Calls -> CallRecord] /\ OthersKeep(c)
        /\ call'[c].kind = call[c].kind
        /\ \/ /\ row' = [row EXCEPT ![call[c].coord] = ids + 1]
              /\ ids' = ids + 1
              /\ call'[c].at = "sources" /\ call'[c].id = ids + 1
              /\ call'[c].began = clock
              /\ call'[c].coord = call[c].coord /\ call'[c].last = call[c].last
              /\ call'[c].result = call[c].result
           \/ /\ UNCHANGED <<row, ids>>
              /\ call'[c].at = "answered" /\ call'[c].result = "conflict"
    BY <1>0, <1>4, CreateStep
  <2>2. UNCHANGED <<clock, stored, others, removed, missed>>
    BY <1>4 DEF CreatePlaceholder
  <2>3. call[c].at = "create" /\ Controlled(c)
    BY <1>0, <1>4 DEF CreatePlaceholder, At
  <2>4. /\ row' \in [Coords -> Nat] /\ ids' \in Nat /\ ids <= ids'
        /\ ids + 1 \in 1..(ids + 1)
    BY <1>t, <2>1
  <2>5. clock <= clock
    BY <1>t, BoundsAssumption DEF Weeks
  <2>6. Controlled(c)'
    BY <2>1, <2>2, <2>3, <2>4, <2>5 DEF Controlled, InFlight, At
  <2> QED BY <1>t, <2>1, <2>2, <2>4, <2>6, BaseAfterCall
<1>5. ASSUME NEW c \in Calls, CollectActivities(c)
      PROVE  BaseInv'
  <2>1. /\ call' \in [Calls -> CallRecord] /\ OthersKeep(c)
        /\ call'[c].at = "persist"
        /\ missed' = missed \cup
              ((Listed(c, "github") \cup Listed(c, "confluence")) \ call'[c].todo)
        /\ call'[c].kind = call[c].kind /\ call'[c].coord = call[c].coord
        /\ call'[c].last = call[c].last /\ call'[c].result = call[c].result
        /\ call'[c].id = call[c].id /\ call'[c].began = call[c].began
    BY <1>0, <1>5, SourcesStep
  <2>2. UNCHANGED <<clock, row, stored, ids, others, removed>>
    BY <1>5 DEF CollectActivities
  <2>3. call[c].at = "sources" /\ Controlled(c)
    BY <1>0, <1>5 DEF CollectActivities, At
  <2>4. Controlled(c)'
    BY <2>1, <2>2, <2>3 DEF Controlled, InFlight, At
  <2>5. missed' \subseteq Activity
    BY <1>t, <2>1 DEF Listed, Happened
  <2> QED BY <1>t, <2>1, <2>2, <2>4, <2>5, BaseAfterCall
<1>6. ASSUME NEW c \in Calls, Persist(c)
      PROVE  BaseInv'
  <2>1. /\ call' \in [Calls -> CallRecord] /\ OthersKeep(c)
        /\ call'[c].kind = call[c].kind
        /\ \/ /\ call'[c].at = "persist" /\ missed' = missed
              /\ \E a \in call[c].todo : stored' = [stored EXCEPT
                      ![call[c].coord] = stored[call[c].coord] \cup {a}]
              /\ call'[c].coord = call[c].coord
              /\ call'[c].last = call[c].last /\ call'[c].result = call[c].result
              /\ call'[c].id = call[c].id /\ call'[c].began = call[c].began
           \/ /\ call'[c].at = "answered"
              /\ call'[c].result \in {"duplicate", "orphan"}
              /\ missed' = missed \cup call[c].todo
              /\ stored' = stored
    BY <1>0, <1>6, PersistStep
  <2>2. UNCHANGED <<clock, row, ids, others, removed>>
    BY <1>6 DEF Persist
  <2>3. call[c].at = "persist" /\ Controlled(c)
    BY <1>0, <1>6 DEF Persist, At
  <2>4. Controlled(c)'
    BY <2>1, <2>2, <2>3 DEF Controlled, InFlight, At
  <2>5. call[c].todo \subseteq Activity /\ call[c].coord \in Coords
    BY <1>0 DEF CallRecord
  <2>6. missed' \subseteq Activity /\ stored' \in [Coords -> SUBSET Activity]
    BY <1>t, <2>1, <2>5
  <2> QED BY <1>t, <2>1, <2>2, <2>4, <2>6, BaseAfterCall
<1>7. ASSUME NEW c \in Calls, Finish(c)
      PROVE  BaseInv'
  <2>1. call[c].at = "persist" /\ Controlled(c) /\ c \in InFlight
    BY <1>0, <1>7 DEF Finish, At, InFlight
  <2>2. call[c].coord.period = "week" \/ call[c].coord.start = call[c].last
    BY <2>1 DEF Controlled
  <2>3. /\ call' \in [Calls -> CallRecord] /\ OthersKeep(c)
        /\ call'[c].kind = call[c].kind /\ call'[c].last = call[c].last
        /\ call'[c].id = call[c].id /\ call'[c].began = call[c].began
        /\ \/ /\ call'[c].coord = call[c].coord
              /\ call'[c].at = "answered" /\ call'[c].result = "done"
           \/ /\ call[c].coord.start < call[c].last
              /\ call'[c].at = "derive" /\ call'[c].result = call[c].result
              /\ call'[c].coord.period = "week"
              /\ call'[c].coord.start = call[c].coord.start + 1
    BY <1>0, <1>7, <2>2, FinishStep
  <2>4. UNCHANGED <<clock, row, stored, ids, others, removed, missed>>
    BY <1>7 DEF Finish
  <2>5. /\ call[c].coord.start \in Int /\ call[c].last \in Int
        /\ call[c].coord.start < call[c].last =>
              /\ call[c].coord.start # call[c].last
              /\ call[c].coord.start + 1 <= call[c].last
    BY <1>0, CoordsAssumption, BoundsAssumption DEF CallRecord, Weeks
  <2>6. Controlled(c)'
    BY <2>1, <2>3, <2>4, <2>5 DEF Controlled, InFlight, At
  <2> QED BY <1>t, <2>3, <2>4, <2>6, BaseAfterCall
<1>8. ASSUME NEW c \in Calls, CallFails(c)
      PROVE  BaseInv'
  <2>1. /\ call' \in [Calls -> CallRecord] /\ OthersKeep(c)
        /\ call'[c].at = "answered" /\ call'[c].result = "failed"
        /\ missed' \subseteq Activity
    BY <1>0, <1>8, FailsStep
  <2>2. UNCHANGED <<clock, row, stored, ids, others, removed>>
    BY <1>8 DEF CallFails
  <2>3. Controlled(c)'
    BY <2>1 DEF Controlled, InFlight, At
  <2> QED BY <1>t, <2>1, <2>2, <2>3, BaseAfterCall
<1>9. ASSUME call' = call, UNCHANGED removed \/ removed' = TRUE,
             clock' \in Weeks, clock <= clock', others' \in 0..MaxOthers,
             ids' \in Nat, ids <= ids', missed' \subseteq Activity,
             row' \in [Coords -> Nat], stored' \in [Coords -> SUBSET Activity]
      PROVE  BaseInv'
  <2>1. TypeOK'
    BY <1>0, <1>9 DEF TypeOK
  <2>2. PlanWeeks <= clock'
    BY <1>0, <1>t, <1>9, BoundsAssumption DEF Weeks
  <2>3. \A d \in Calls : Controlled(d)'
    BY <1>0, <1>9, ControlledStays
  <2> QED BY <2>1, <2>2, <2>3 DEF ControlOK
<1>10. clock <= clock /\ others \in 0..MaxOthers /\ others + 1 \in Int
  BY <1>t, BoundsAssumption DEF TypeOK, Weeks
<1>11. ASSUME NEW k \in Coords, OthersCreate(k)
       PROVE  BaseInv'
  <2>1. others' \in 0..MaxOthers
    BY <1>10, <1>11, BoundsAssumption DEF OthersCreate
  <2>2. ids' \in Nat /\ ids <= ids' /\ row' \in [Coords -> Nat]
    BY <1>t, <1>11 DEF OthersCreate
  <2> QED BY <1>t, <1>10, <1>11, <2>1, <2>2, <1>9 DEF OthersCreate
<1>12. ASSUME NEW k \in Coords, OthersRemove(k)
       PROVE  BaseInv'
  <2>1. others' \in 0..MaxOthers
    BY <1>10, <1>12, BoundsAssumption DEF OthersRemove
  <2>2. row' \in [Coords -> Nat] /\ stored' \in [Coords -> SUBSET Activity]
    BY <1>t, <1>12 DEF OthersRemove, NoRow
  <2>3. missed' \subseteq Activity
    BY <1>t, <1>12 DEF OthersRemove
  <2> QED BY <1>t, <1>10, <1>12, <2>1, <2>2, <2>3, <1>9 DEF OthersRemove
<1>13. CASE Tick
  <2>1. clock' \in Weeks /\ clock <= clock'
    BY <1>t, <1>13, BoundsAssumption DEF Tick, Weeks
  <2> QED BY <1>t, <1>10, <1>13, <2>1, <1>9 DEF Tick
<1>14. CASE UNCHANGED vars
  BY <1>t, <1>10, <1>14, <1>9 DEF vars
<1> QED
  BY <1>1, <1>2, <1>3, <1>4, <1>5, <1>6, <1>7, <1>8, <1>11, <1>12, <1>13, <1>14
  DEF Next, CallStep

\* Every run keeps types and control.
LEMMA BaseAlways == Spec => []BaseInv
BY BaseInit, BaseStep, PTL DEF Spec

\* The variables have their types, whatever the calls and the plan.
THEOREM CollectingTypes == Spec => []TypeOK
BY BaseAlways, PTL DEF BaseInv

------------------------------------------------------------------------------
(* Who moves, and what a step leaves of the stored and the missed. *)

Moves(c) ==
    \/ \E k \in Coords, b \in Backoffs : Collect(c, k, b)
    \/ Backfill(c)
    \/ CallStep(c)
    \/ CallFails(c)

\* A step that changes a call is one of that call's.
LEMMA WhoMoves ==
    ASSUME BaseInv, [Next]_vars, NEW d \in Calls
    PROVE  call'[d] = call[d] \/ Moves(d)
<1>0. TypeOK /\ PlanWeeks <= clock /\ \A c \in Calls : Controlled(c)
  BY DEF BaseInv, ControlOK
<1>1. ASSUME NEW c \in Calls, Moves(c)
      PROVE  OthersKeep(c)
  <2>1. ASSUME Finish(c) PROVE OthersKeep(c)
    <3>1. c \in InFlight /\ Controlled(c)
      BY <1>0, <2>1 DEF Finish, At, InFlight
    <3>2. call[c].coord.period = "week" \/ call[c].coord.start = call[c].last
      BY <3>1 DEF Controlled
    <3> QED BY <1>0, <2>1, <3>2, FinishStep
  <2> QED
    BY <1>0, <1>1, <2>1, CollectStep, BackfillStep, DeriveStep, CreateStep,
       SourcesStep, PersistStep, FailsStep
    DEF Moves, CallStep
<1>2. CASE \E c \in Calls : Moves(c)
  BY <1>1, <1>2 DEF OthersKeep
<1>3. CASE \E k \in Coords : OthersCreate(k) \/ OthersRemove(k)
  BY <1>3 DEF OthersCreate, OthersRemove
<1>4. CASE Tick \/ UNCHANGED vars
  BY <1>4 DEF Tick, vars
<1> QED
  BY <1>2, <1>3, <1>4 DEF Next, Moves

\* Time goes on, what is missed stays missed, and what is stored stays stored
\* or is missed.
LEMMA StoredOrMissed ==
    ASSUME BaseInv, [Next]_vars
    PROVE  /\ missed \subseteq missed'
           /\ \A k \in Coords : stored[k] \subseteq stored'[k] \cup missed'
           /\ clock <= clock'
           /\ removed => removed'
<1>0. /\ TypeOK /\ clock \in Weeks /\ clock <= clock
      /\ stored \in [Coords -> SUBSET Activity]
  BY BoundsAssumption DEF BaseInv, TypeOK, Weeks
<1>1. ASSUME NEW c \in Calls, Moves(c)
      PROVE  /\ missed \subseteq missed'
             /\ \A k \in Coords : stored[k] \subseteq stored'[k] \cup missed'
             /\ clock' = clock /\ removed' = removed
  <2>1. CASE \E k \in Coords, b \in Backoffs : Collect(c, k, b)
    BY <2>1 DEF Collect
  <2>2. CASE Backfill(c) \/ DeriveSince(c) \/ Finish(c)
    BY <2>2 DEF Backfill, DeriveSince, Finish
  <2>3. CASE CreatePlaceholder(c) \/ CollectActivities(c)
    BY <2>3 DEF CreatePlaceholder, CollectActivities
  <2>4. CASE Persist(c)
    <3>1. UNCHANGED <<clock, removed>>
      BY <2>4 DEF Persist
    <3>2. \/ /\ missed' = missed
             /\ \E a : stored' = [stored EXCEPT ![call[c].coord] =
                                    stored[call[c].coord] \cup {a}]
          \/ missed' = missed \cup call[c].todo /\ stored' = stored
      BY <1>0, <2>4, PersistStep
    <3> QED BY <1>0, <3>1, <3>2
  <2>5. CASE CallFails(c)
    BY <1>0, <2>5, FailsStep DEF CallFails
  <2> QED BY <1>1, <2>1, <2>2, <2>3, <2>4, <2>5 DEF Moves, CallStep
<1>2. CASE \E c \in Calls : Moves(c)
  BY <1>0, <1>1, <1>2
<1>3. CASE \E k \in Coords : OthersCreate(k)
  BY <1>0, <1>3 DEF OthersCreate
<1>4. CASE \E k \in Coords : OthersRemove(k)
  BY <1>0, <1>4 DEF OthersRemove
<1>5. CASE Tick
  BY <1>0, <1>5, BoundsAssumption DEF Tick, Weeks
<1>6. CASE UNCHANGED vars
  BY <1>0, <1>6 DEF vars
<1> QED BY <1>2, <1>3, <1>4, <1>5, <1>6 DEF Next, Moves

\* An assessment that a step brings is a collection's placeholder or another
\* part's; and a row that vanishes is one that the rest has removed.
LEMMA RowSteps ==
    ASSUME BaseInv, [Next]_vars, NEW k \in Coords
    PROVE  \/ row'[k] = row[k]
           \/ row'[k] = NoRow /\ removed'
           \/ /\ row[k] = NoRow /\ row'[k] = ids + 1 /\ row'[k] # NoRow
              /\ \/ OthersCreate(k)
                 \/ \E c \in Calls : CreatePlaceholder(c) /\ call[c].coord = k
<1>0. TypeOK /\ row \in [Coords -> Nat] /\ ids \in Nat /\ ids + 1 # NoRow
  BY DEF BaseInv, TypeOK, NoRow
<1>1. ASSUME NEW c \in Calls, CreatePlaceholder(c), row'[k] # row[k]
      PROVE  row[k] = NoRow /\ row'[k] = ids + 1 /\ call[c].coord = k
  BY <1>0, <1>1, CreateStep
<1>2. ASSUME NEW c \in Calls, Moves(c), ~CreatePlaceholder(c)
      PROVE  row' = row
  BY <1>2 DEF Moves, CallStep, Collect, Backfill, DeriveSince, CollectActivities,
              Persist, Finish, CallFails
<1>3. CASE \E c \in Calls : Moves(c)
  BY <1>0, <1>1, <1>2, <1>3
<1>4. CASE \E j \in Coords : OthersCreate(j)
  BY <1>0, <1>4 DEF OthersCreate
<1>5. CASE \E j \in Coords : OthersRemove(j)
  BY <1>0, <1>5 DEF OthersRemove
<1>6. CASE Tick \/ UNCHANGED vars
  BY <1>6 DEF Tick, vars
<1> QED BY <1>3, <1>4, <1>5, <1>6 DEF Next, Moves

------------------------------------------------------------------------------
(* Nothing is lost. *)

\* What a call has yet to store stays so until it is stored or missed.
LEMMA PendingStays ==
    ASSUME BaseInv, [Next]_vars, NEW d \in Calls, NEW a \in Activity, Pending(d, a)
    PROVE  Pending(d, a)' \/ a \in (Stored \cup missed)'
<1>0. TypeOK /\ Controlled(d) /\ call[d] \in CallRecord /\ call[d].coord \in Coords
  BY DEF BaseInv, ControlOK, TypeOK, CallRecord
<1>1. CASE call'[d] = call[d]
  <2>1. a.at <= clock => a.at <= clock'
    <3>1. clock <= clock' /\ clock \in Weeks /\ clock' \in Weeks
      BY BaseStep, StoredOrMissed DEF BaseInv, TypeOK
    <3>2. a.at \in Weeks
      BY ActivityAssumption
    <3> QED BY <3>1, <3>2, BoundsAssumption DEF Weeks
  <2> QED BY <1>1, <2>1 DEF Pending, At
<1>2. CASE Moves(d)
  <2>1. CASE At(d, "sources")
    <3>1. a \in Listed(d, "github") \cup Listed(d, "confluence")
      <4>1. a.source \in {"github", "confluence"}
        BY ActivityAssumption
      <4> QED BY <2>1, <4>1 DEF Pending, Listed, Happened, At
    <3>2. CollectActivities(d) \/ CallFails(d)
      BY <1>2, <2>1 DEF Moves, CallStep, Collect, Backfill, DeriveSince,
                        CreatePlaceholder, Persist, Finish, At
    <3>3. CASE CollectActivities(d)
      BY <1>0, <3>1, <3>3, SourcesStep DEF Pending, At
    <3>4. CASE CallFails(d)
      BY <1>0, <2>1, <3>1, <3>4, FailsStep
    <3> QED BY <3>2, <3>3, <3>4
  <2>2. CASE At(d, "persist") /\ a \in call[d].todo
    <3>1. Persist(d) \/ CallFails(d)
      BY <1>2, <2>2 DEF Moves, CallStep, Collect, Backfill, DeriveSince,
                        CreatePlaceholder, CollectActivities, Finish, At
    <3>2. CASE Persist(d)
      <4>1. CASE /\ call'[d].at = "persist"
                 /\ \E b \in call[d].todo :
                       /\ stored' = [stored EXCEPT ![call[d].coord] =
                                       stored[call[d].coord] \cup {b}]
                       /\ call'[d].todo = call[d].todo \ {b}
        <5>1. PICK b \in call[d].todo :
                  /\ stored' = [stored EXCEPT ![call[d].coord] =
                                  stored[call[d].coord] \cup {b}]
                  /\ call'[d].todo = call[d].todo \ {b}
          BY <4>1
        <5>2. CASE a = b
          <6>1. a \in stored'[call[d].coord]
            BY <1>0, <5>1, <5>2 DEF TypeOK
          <6> QED BY <1>0, <6>1 DEF Stored
        <5>3. CASE a # b
          BY <2>2, <4>1, <5>1, <5>3 DEF Pending, At
        <5> QED BY <5>2, <5>3
      <4>2. CASE missed' = missed \cup call[d].todo
        BY <2>2, <4>2
      <4> QED BY <1>0, <3>2, <4>1, <4>2, PersistStep
    <3>3. CASE CallFails(d)
      BY <1>0, <2>2, <3>3, FailsStep
    <3> QED BY <3>1, <3>2, <3>3
  <2> QED BY <2>1, <2>2 DEF Pending
<1> QED BY <1>1, <1>2, WhoMoves

\* What is accounted for stays so.
LEMMA AccountedStays ==
    ASSUME BaseInv, [Next]_vars, NEW a \in Activity, Accounted(a)
    PROVE  Accounted(a)'
<1>1. CASE a \in Stored
  <2>1. PICK k \in Coords : a \in stored[k]
    BY <1>1 DEF Stored
  <2>2. a \in stored'[k] \/ a \in missed'
    BY <2>1, StoredOrMissed
  <2> QED BY <2>2 DEF Accounted, Stored
<1>2. CASE a \in missed
  BY <1>2, StoredOrMissed DEF Accounted
<1>3. CASE \E c \in Calls : Pending(c, a)
  BY <1>3, PendingStays DEF Accounted
<1> QED BY <1>1, <1>2, <1>3 DEF Accounted

\* The step of the invariant that nothing up to an assessment is forgotten.
LEMMA AllAccountedStep ==
    ASSUME BaseInv, AllAccounted, [Next]_vars
    PROVE  AllAccounted'
<1>0. /\ TypeOK /\ clock \in Weeks /\ PlanWeeks <= clock
      /\ \A c \in Calls : Controlled(c) /\ call[c] \in CallRecord
      /\ row \in [Coords -> Nat]
  BY DEF BaseInv, ControlOK, TypeOK
<1>1. ASSUME NEW k \in Coords, NEW a \in Activity, row'[k] # NoRow, a.at <= k.start
      PROVE  Accounted(a)'
  <2>1. CASE row'[k] = row[k]
    BY <1>1, <2>1, AccountedStays DEF AllAccounted
  <2>2. CASE OthersCreate(k)
    BY <1>1, <2>2 DEF OthersCreate, Accounted
  <2>3. ASSUME NEW c \in Calls, CreatePlaceholder(c), call[c].coord = k,
               row[k] = NoRow
        PROVE  Accounted(a)'
    <3>1. call'[c].at = "sources" /\ call'[c].since = call[c].since
      BY <1>0, <2>3, CreateStep
    <3>2. At(c, "create") /\ clock' = clock
      BY <2>3 DEF CreatePlaceholder
    <3>3. a.at <= clock \/ a \in missed
      BY <1>1, <2>3, <3>2 DEF AllAccounted, At
    <3>4. CASE a \in missed \/ a.at < call[c].since
      <4>1. Accounted(a)
        BY <3>2, <3>4 DEF AllAccounted, Accounted
      <4> QED BY <4>1, AccountedStays
    <3>5. CASE a.at <= clock /\ ~(a.at < call[c].since)
      <4>1. a.at \in Weeks /\ call[c].since \in Weeks \cup {0}
        BY <1>0, ActivityAssumption DEF CallRecord
      <4>2. call[c].since <= a.at
        BY <3>5, <4>1, BoundsAssumption DEF Weeks
      <4>3. Pending(c, a)'
        BY <3>1, <3>2, <3>5, <4>2 DEF Pending, At
      <4> QED BY <4>3 DEF Accounted
    <3> QED BY <3>3, <3>4, <3>5
  <2> QED BY <1>1, <2>1, <2>2, <2>3, RowSteps
<1>2. ASSUME NEW c \in Calls, NEW a \in Activity, call'[c].at = "create",
             a.at < call'[c].since
      PROVE  Accounted(a)'
  <2>1. CASE call'[c] = call[c]
    <3>1. At(c, "create") /\ a.at < call[c].since
      BY <1>2, <2>1 DEF At
    <3> QED BY <3>1, AccountedStays DEF AllAccounted
  <2>2. CASE Moves(c)
    <3>1. DeriveSince(c)
      <4>1. ~Finish(c)
        <5> SUFFICES ASSUME Finish(c) PROVE FALSE
          OBVIOUS
        <5>1. c \in InFlight
          BY DEF Finish, At, InFlight
        <5>2. call[c].coord.period = "week" \/ call[c].coord.start = call[c].last
          BY <1>0, <5>1 DEF Controlled
        <5> QED BY <1>0, <1>2, <5>2, FinishStep
      <4> QED
        BY <1>0, <1>2, <2>2, <4>1, CollectStep, BackfillStep, CreateStep,
           SourcesStep, PersistStep, FailsStep
        DEF Moves, CallStep
    <3>2. call[c].backoff \in Backoffs /\ call'[c].since = Since(call[c].backoff)
      BY <1>0, <3>1, DeriveStep DEF CallRecord
    <3>3. /\ LatestStart \in Weeks \cup {0}
          /\ Since(call[c].backoff) \in Weeks \cup {0}
          /\ Since(call[c].backoff) <= LatestStart
      BY <1>0, <3>2, SinceType, LatestStartIsLatest
    <3>4. a.at \in Weeks
      BY ActivityAssumption
    <3>5. a.at <= LatestStart /\ LatestStart # 0
      BY <1>2, <3>2, <3>3, <3>4, BoundsAssumption DEF Weeks
    <3>6. PICK k \in Coords : row[k] # NoRow /\ k.start = LatestStart
      BY <1>0, <3>5, LatestStartIsLatest
    <3>7. Accounted(a)
      BY <3>5, <3>6 DEF AllAccounted
    <3> QED BY <3>7, AccountedStays
  <2> QED BY <2>1, <2>2, WhoMoves
<1>3. ASSUME NEW c \in Calls, NEW a \in Activity,
             call'[c].at \in {"derive", "create"}, a.at <= call'[c].coord.start
      PROVE  a.at <= clock' \/ a \in missed'
  <2>0. /\ missed \subseteq missed' /\ a.at \in Weeks
        /\ (a.at <= clock => a.at <= clock')
    <3>1. clock <= clock' /\ clock' \in Weeks /\ missed \subseteq missed'
      BY StoredOrMissed, BaseStep DEF BaseInv, TypeOK
    <3>2. a.at \in Weeks
      BY ActivityAssumption
    <3> QED BY <1>0, <3>1, <3>2, BoundsAssumption DEF Weeks
  <2>1. CASE call'[c] = call[c]
    BY <1>3, <2>0, <2>1 DEF AllAccounted
  <2>2. CASE Moves(c)
    <3>1. ASSUME NEW k \in Coords, NEW b \in Backoffs, Collect(c, k, b)
          PROVE  a.at <= clock' \/ a \in missed'
      <4>1. call'[c].coord = k
        BY <1>0, <3>1, CollectStep
      <4>2. a.at <= clock \/ clock < a.at
        BY <1>0, <2>0, BoundsAssumption DEF Weeks
      <4> QED BY <1>3, <2>0, <3>1, <4>1, <4>2 DEF Collect
    <3>2. CASE Backfill(c)
      <4>1. call'[c].coord.start = clock - PlanWeeks + 1
        BY <1>0, <1>3, <3>2, BackfillStep
      <4>2. a.at <= clock
        BY <1>0, <1>3, <2>0, <4>1, BoundsAssumption DEF Weeks
      <4> QED BY <2>0, <4>2
    <3>3. CASE DeriveSince(c)
      <4>1. call'[c].coord = call[c].coord /\ call[c].at = "derive"
        BY <1>0, <3>3, DeriveStep DEF DeriveSince, At
      <4> QED BY <1>3, <2>0, <4>1 DEF AllAccounted
    <3>4. CASE Finish(c)
      <4>1. c \in InFlight /\ Controlled(c)
        BY <1>0, <3>4 DEF Finish, At, InFlight
      <4>2. call[c].coord.period = "week" \/ call[c].coord.start = call[c].last
        BY <4>1 DEF Controlled
      <4>3. /\ call[c].coord.start < call[c].last
            /\ call'[c].coord.start = call[c].coord.start + 1
        BY <1>0, <1>3, <3>4, <4>2, FinishStep
      <4>4. call[c].coord.start \in Weeks /\ call[c].last \in Weeks \cup {0}
        BY <1>0, CoordsAssumption DEF CallRecord
      <4>5. call[c].last <= clock
        <5>1. call[c].last # call[c].coord.start
          BY <4>3, <4>4, BoundsAssumption DEF Weeks
        <5> QED BY <4>1, <5>1 DEF Controlled
      <4>6. a.at <= clock
        BY <1>0, <1>3, <2>0, <4>3, <4>4, <4>5, BoundsAssumption DEF Weeks
      <4> QED BY <2>0, <4>6
    <3> QED
      BY <1>0, <1>3, <2>2, <3>1, <3>2, <3>3, <3>4, CreateStep, SourcesStep,
         PersistStep, FailsStep
      DEF Moves, CallStep
  <2> QED BY <2>1, <2>2, WhoMoves
<1> QED BY <1>1, <1>2, <1>3 DEF AllAccounted, At

------------------------------------------------------------------------------
(* A collection that is done has stored its window. *)

\* The step of the invariant that a collection's window is covered.
LEMMA WindowCoveredStep ==
    ASSUME BaseInv, WindowCovered, [Next]_vars
    PROVE  WindowCovered'
<1> SUFFICES ASSUME NEW c \in Calls, NEW a \in Activity,
                    call'[c].at = "persist" \/ call'[c].result = "done",
                    call'[c].since <= a.at, a.at <= call'[c].began
             PROVE  a \in Stored' \cup missed'
                       \/ (call'[c].at = "persist" /\ a \in call'[c].todo)
  BY DEF WindowCovered, At
<1>0. /\ TypeOK /\ Controlled(c) /\ PlanWeeks <= clock
      /\ call[c] \in CallRecord /\ call[c].coord \in Coords
      /\ call[c].result = "done" => At(c, "answered")
  BY DEF BaseInv, ControlOK, Controlled, TypeOK, CallRecord
<1>1. Stored \cup missed \subseteq Stored' \cup missed'
  BY StoredOrMissed DEF Stored
<1>2. CASE call'[c] = call[c]
  <2>1. a \in Stored \cup missed \/ (At(c, "persist") /\ a \in call[c].todo)
    BY <1>2 DEF WindowCovered, At
  <2> QED BY <1>1, <1>2, <2>1 DEF At
<1>3. CASE CollectActivities(c)
  <2>1. /\ At(c, "sources") /\ call'[c].at = "persist"
        /\ missed' = missed \cup
              ((Listed(c, "github") \cup Listed(c, "confluence")) \ call'[c].todo)
        /\ call'[c].since = call[c].since /\ call'[c].began = call[c].began
    BY <1>0, <1>3, SourcesStep DEF CollectActivities
  <2>2. call[c].began <= clock
    BY <1>0, <2>1 DEF Controlled, At
  <2>3. a.at <= clock
    <3>1. a.at \in Weeks /\ call[c].began \in Weeks \cup {0} /\ clock \in Weeks
      BY <1>0, ActivityAssumption DEF CallRecord, TypeOK
    <3> QED BY <2>1, <2>2, <3>1, BoundsAssumption DEF Weeks
  <2>4. a \in Listed(c, "github") \cup Listed(c, "confluence")
    <3>1. a.source \in {"github", "confluence"}
      BY ActivityAssumption
    <3> QED BY <2>1, <2>3, <3>1 DEF Listed, Happened
  <2> QED BY <2>1, <2>4
<1>4. CASE Persist(c)
  <2>1. /\ At(c, "persist") /\ call[c].result # "done"
    BY <1>0, <1>4 DEF Persist, At
  <2>2. CASE /\ call'[c].at = "answered"
             /\ call'[c].result \in {"duplicate", "orphan"}
    BY <2>2
  <2>3. CASE /\ call'[c].at = "persist"
             /\ \E b \in call[c].todo :
                   /\ stored' = [stored EXCEPT ![call[c].coord] =
                                   stored[call[c].coord] \cup {b}]
                   /\ call'[c].todo = call[c].todo \ {b}
             /\ call'[c].since = call[c].since
             /\ call'[c].began = call[c].began
    <3>1. a \in Stored \cup missed \/ a \in call[c].todo
      BY <2>1, <2>3 DEF WindowCovered
    <3>2. PICK b \in call[c].todo :
             /\ stored' = [stored EXCEPT ![call[c].coord] =
                             stored[call[c].coord] \cup {b}]
             /\ call'[c].todo = call[c].todo \ {b}
      BY <2>3
    <3>3. b \in stored'[call[c].coord]
      BY <1>0, <3>2 DEF TypeOK
    <3>4. b \in Stored'
      BY <1>0, <3>3 DEF Stored
    <3> QED BY <1>1, <2>3, <3>1, <3>2, <3>4
  <2> QED BY <1>0, <1>4, <2>2, <2>3, PersistStep
<1>5. CASE Finish(c)
  <2>1. At(c, "persist") /\ call[c].todo = {} /\ call[c].result # "done"
    BY <1>0, <1>5 DEF Finish, At
  <2>2. call[c].coord.period = "week" \/ call[c].coord.start = call[c].last
    BY <1>0, <2>1 DEF Controlled, InFlight, At
  <2>3. /\ call'[c].coord = call[c].coord /\ call'[c].id = call[c].id
        /\ call'[c].since = call[c].since /\ call'[c].began = call[c].began
    BY <1>0, <1>5, <2>1, <2>2, FinishStep
  <2>4. a \in Stored \cup missed
    BY <2>1, <2>3 DEF WindowCovered
  <2> QED BY <1>1, <2>4
<1>6. CASE DeriveSince(c)
  <2>1. call'[c].at = "create" /\ call'[c].result = call[c].result
    BY <1>0, <1>6, DeriveStep
  <2> QED BY <1>0, <1>6, <2>1 DEF DeriveSince, At
<1>7. CASE CreatePlaceholder(c)
  <2>1. call[c].result # "done"
    BY <1>0, <1>7 DEF CreatePlaceholder, At
  <2>2. \/ call'[c].at = "sources" /\ call'[c].result = call[c].result
        \/ call'[c].at = "answered" /\ call'[c].result = "conflict"
    BY <1>0, <1>7, CreateStep
  <2> QED BY <2>1, <2>2
<1>8. CASE Backfill(c) \/ CallFails(c)
           \/ \E k \in Coords, b \in Backoffs : Collect(c, k, b)
  BY <1>0, <1>8, CollectStep, BackfillStep, FailsStep
<1> QED
  BY <1>2, <1>3, <1>4, <1>5, <1>6, <1>7, <1>8, WhoMoves DEF Moves, CallStep

------------------------------------------------------------------------------
(* One backfill completes. *)

\* A backfill claims the week PlanWeeks by creating its assessment, which was
\* not there; having claimed it, it goes on to the later weeks.
LEMMA ClaimSteps ==
    ASSUME BaseInv, [Next]_vars, NEW c \in Calls, Claimed(c)'
    PROVE  \/ Claimed(c)
           \/ /\ CreatePlaceholder(c)
              /\ call'[c].at = "sources"
              /\ row[Week(PlanWeeks)] = NoRow
              /\ row'[Week(PlanWeeks)] # NoRow
<1>0. /\ TypeOK /\ Controlled(c) /\ PlanWeeks <= clock
      /\ call[c] \in CallRecord /\ call[c].coord \in Coords
      /\ clock \in Weeks /\ PlanWeeks \in Weeks
      /\ call[c].coord.start \in Weeks /\ call[c].last \in Weeks \cup {0}
  BY CoordsAssumption, BoundsAssumption
  DEF BaseInv, ControlOK, Controlled, TypeOK, CallRecord, Weeks
<1>1. CASE call'[c] = call[c]
  BY <1>1 DEF Claimed, InFlight
<1>2. CASE \E k \in Coords, b \in Backoffs : Collect(c, k, b)
  BY <1>0, <1>2, CollectStep DEF Claimed
<1>3. CASE Backfill(c)
  <2>1. \/ call'[c].at = "answered" /\ call'[c].result = "skipped"
        \/ /\ call'[c].at = "derive" /\ call'[c].result = "none"
           /\ call'[c].coord.start = clock - PlanWeeks + 1
    BY <1>0, <1>3, BackfillStep
  <2>2. ~(PlanWeeks < clock - PlanWeeks + 1)
    BY <1>0, BoundsAssumption DEF Weeks
  <2> QED BY <2>1, <2>2 DEF Claimed, InFlight
<1>4. CASE DeriveSince(c)
  <2>1. /\ call'[c].at = "create" /\ call'[c].coord = call[c].coord
        /\ call'[c].kind = call[c].kind /\ call'[c].result = call[c].result
    BY <1>0, <1>4, DeriveStep
  <2> QED BY <1>4, <2>1 DEF Claimed, InFlight, DeriveSince, At
<1>5. CASE CreatePlaceholder(c)
  <2>1. /\ At(c, "create") /\ c \in InFlight /\ call[c].result # "done"
    BY <1>0, <1>5 DEF CreatePlaceholder, At, InFlight, Controlled
  <2>2. call'[c].at = "sources" /\ call'[c].kind = call[c].kind
        /\ call'[c].coord = call[c].coord /\ call'[c].result = call[c].result
        /\ row[call[c].coord] = NoRow
        /\ row' = [row EXCEPT ![call[c].coord] = ids + 1]
    BY <1>0, <1>5, CreateStep DEF Claimed, InFlight
  <2>3. CASE PlanWeeks < call[c].coord.start
    BY <2>1, <2>2, <2>3 DEF Claimed
  <2>4. CASE call[c].coord.start = PlanWeeks
    <3>1. call[c].coord.period = "week"
      BY <2>1, <2>2, <1>0 DEF Claimed, Controlled
    <3>2. call[c].coord = Week(PlanWeeks)
      BY <1>0, <2>4, <3>1, CoordsAssumption DEF Week
    <3>3. ids + 1 # NoRow /\ row \in [Coords -> Nat]
      BY <1>0 DEF TypeOK, NoRow
    <3> QED BY <1>0, <1>5, <2>2, <3>2, <3>3
  <2> QED BY <2>1, <2>2, <2>3, <2>4 DEF Claimed
<1>6. CASE CollectActivities(c)
  <2>1. /\ call'[c].at = "persist" /\ call'[c].coord = call[c].coord
        /\ call'[c].kind = call[c].kind /\ call'[c].result = call[c].result
    BY <1>0, <1>6, SourcesStep
  <2> QED BY <1>6, <2>1 DEF Claimed, InFlight, CollectActivities, At
<1>7. CASE Persist(c)
  <2>1. \/ /\ call'[c].at = "persist" /\ call'[c].coord = call[c].coord
           /\ call'[c].kind = call[c].kind /\ call'[c].result = call[c].result
        \/ /\ call'[c].at = "answered"
           /\ call'[c].result \in {"duplicate", "orphan"}
    BY <1>0, <1>7, PersistStep
  <2> QED BY <1>7, <2>1 DEF Claimed, InFlight, Persist, At
<1>8. CASE Finish(c)
  <2>1. At(c, "persist") /\ c \in InFlight
    BY <1>8 DEF Finish, At, InFlight
  <2>2. call[c].coord.period = "week" \/ call[c].coord.start = call[c].last
    BY <1>0, <2>1 DEF Controlled
  <2>3. /\ call'[c].kind = call[c].kind
        /\ \/ call[c].coord.start = call[c].last
           \/ /\ call'[c].at = "derive" /\ call'[c].result = call[c].result
              /\ call'[c].coord.start = call[c].coord.start + 1
    BY <1>0, <1>8, <2>2, FinishStep
  <2>4. call[c].kind = "backfill" /\ PlanWeeks <= call[c].last
    BY <1>0, <2>1, <2>3 DEF Controlled, Claimed
  <2>5. PlanWeeks < call[c].coord.start \/ call[c].coord.start = PlanWeeks
    <3>1. CASE call[c].coord.start = call[c].last
      BY <1>0, <2>4, <3>1, BoundsAssumption DEF Weeks
    <3>2. CASE /\ call'[c].at = "derive" /\ call'[c].result = call[c].result
               /\ call'[c].coord.start = call[c].coord.start + 1
      <4>1. CASE call[c].result = "done"
        BY <1>0, <2>1, <4>1 DEF Controlled, At
      <4>2. CASE PlanWeeks < call[c].coord.start + 1
        BY <1>0, <4>2, BoundsAssumption DEF Weeks
      <4>3. ~(call'[c].coord.start = PlanWeeks
                 /\ call'[c].at \in {"sources", "persist"})
        BY <3>2
      <4> QED BY <3>2, <4>1, <4>2, <4>3 DEF Claimed
    <3> QED BY <2>3, <3>1, <3>2
  <2> QED BY <2>1, <2>4, <2>5 DEF Claimed, At
<1>9. CASE CallFails(c)
  <2>1. call'[c].at = "answered" /\ call'[c].result = "failed"
    BY <1>0, <1>9, FailsStep
  <2> QED BY <2>1 DEF Claimed, InFlight
<1> QED
  BY <1>1, <1>2, <1>3, <1>4, <1>5, <1>6, <1>7, <1>8, <1>9, WhoMoves
  DEF Moves, CallStep

\* The step of the invariant that one backfill claims the week they share.
LEMMA OneClaimsStep ==
    ASSUME BaseInv, OneClaims, [Next]_vars
    PROVE  OneClaims'
<1> SUFFICES ASSUME ~removed'
             PROVE  /\ \A c \in Calls : Claimed(c)' => row'[Week(PlanWeeks)] # NoRow
                    /\ \A c, d \in Calls : Claimed(c)' /\ Claimed(d)' => c = d
  BY DEF OneClaims
<1>0. ~removed /\ TypeOK
  BY StoredOrMissed DEF BaseInv
<1>1. Week(PlanWeeks) \in Coords
  BY BoundsAssumption DEF Week, Weeks
<1>2. ASSUME NEW c \in Calls, Claimed(c)'
      PROVE  row'[Week(PlanWeeks)] # NoRow
  <2>1. CASE Claimed(c)
    BY <1>0, <1>1, <2>1, RowSteps DEF OneClaims
  <2> QED BY <1>2, <2>1, ClaimSteps
<1>3. ASSUME NEW c \in Calls, NEW d \in Calls, Claimed(c)', Claimed(d)', c # d
      PROVE  FALSE
  <2>1. ~(Claimed(c) /\ Claimed(d))
    BY <1>0, <1>3 DEF OneClaims
  <2>2. /\ CreatePlaceholder(c) \/ CreatePlaceholder(d)
        /\ row[Week(PlanWeeks)] = NoRow
    BY <1>3, <2>1, ClaimSteps
  <2>3. ~Claimed(c) /\ ~Claimed(d)
    BY <1>0, <2>2 DEF OneClaims
  <2>4. /\ CreatePlaceholder(c) /\ call'[c].at = "sources"
        /\ CreatePlaceholder(d) /\ call'[d].at = "sources"
    BY <1>3, <2>3, ClaimSteps
  <2>5. call'[d] = call[d]
    BY <1>0, <1>3, <2>4, CreateStep DEF OthersKeep
  <2> QED BY <2>4, <2>5 DEF CreatePlaceholder, At
<1> QED BY <1>2, <1>3

------------------------------------------------------------------------------
(* The theorems. *)

\* Initially there is nothing to account for, to cover or to claim.
LEMMA CollectingInit == Init => CollectingInv
<1> SUFFICES ASSUME Init PROVE CollectingInv
  OBVIOUS
<1>1. BaseInv
  BY BaseInit
<1>2. /\ \A k \in Coords : row[k] = NoRow
      /\ \A c \in Calls : /\ call[c].at = "fresh" /\ call[c].result = "none"
                         /\ call[c].kind = "none"
  BY DEF Init, Fresh
<1>3. AllAccounted
  BY <1>2 DEF AllAccounted, At
<1>4. WindowCovered
  BY <1>2 DEF WindowCovered, At
<1>5. OneClaims
  BY <1>2 DEF OneClaims, Claimed
<1> QED BY <1>1, <1>3, <1>4, <1>5 DEF CollectingInv

\* The inductive invariant holds in every run.
LEMMA CollectingAlways == Spec => []CollectingInv
<1>1. CollectingInv /\ [Next]_vars => CollectingInv'
  BY BaseStep, AllAccountedStep, WindowCoveredStep, OneClaimsStep DEF CollectingInv
<1> QED BY <1>1, CollectingInit, PTL DEF Spec

\* Whatever the order of collections, backfills, failures and the rest of the
\* application, when no request is in flight everything up to the latest
\* assessment is stored, or a failure, a removal or another writer accounts
\* for it: looking back only to shortly before the latest assessment is enough.
THEOREM NothingIsLost == Spec => []NothingLost
<1>1. CollectingInv => NothingLost
  <2> SUFFICES ASSUME CollectingInv, InFlight = {}, NEW a \in Happened,
                      a.at <= LatestStart
               PROVE  a \in Stored \cup missed
    BY DEF NothingLost
  <2>1. TypeOK /\ a \in Activity /\ a.at \in Weeks
    BY ActivityAssumption DEF CollectingInv, BaseInv, Happened
  <2>2. LatestStart # 0
    BY <2>1, BoundsAssumption DEF Weeks
  <2>3. PICK k \in Coords : row[k] # NoRow /\ k.start = LatestStart
    BY <2>1, <2>2, LatestStartIsLatest DEF TypeOK
  <2>4. Accounted(a)
    BY <2>1, <2>3 DEF CollectingInv, AllAccounted
  <2>5. \A c \in Calls : ~Pending(c, a)
    BY DEF Pending, InFlight, At
  <2> QED BY <2>4, <2>5 DEF Accounted
<1> QED BY <1>1, CollectingAlways, PTL

\* When a collection answers its window is stored under some assessment of the
\* person, unless a source failed or an assessment was removed; and of the
\* backfills that overlap one completes, unless assessments are removed.
THEOREM DoneIsMeant == Spec => []DoneMeansDone
<1>1. CollectingInv => DoneIsComplete
  <2> SUFFICES ASSUME CollectingInv, NEW c \in Calls, call[c].result = "done",
                      NEW a \in Activity, call[c].since <= a.at,
                      a.at <= call[c].began
               PROVE  a \in Stored \cup missed
    BY DEF DoneIsComplete
  <2>1. ~At(c, "persist")
    BY DEF CollectingInv, BaseInv, ControlOK, Controlled, At
  <2> QED BY <2>1 DEF CollectingInv, WindowCovered
<1>2. CollectingInv => OneBackfillCompletes
  BY DEF CollectingInv, OneClaims, Claimed, OneBackfillCompletes
<1> QED BY <1>1, <1>2, CollectingAlways, PTL DEF DoneMeansDone

==============================================================================
