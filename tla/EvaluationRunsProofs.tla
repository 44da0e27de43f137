------------------------- MODULE EvaluationRunsProofs ------------------------
(***************************************************************************)
(* Proofs about EvaluationRuns, for any number of calls in flight, persons *)
(* and windows.                                                            *)
(*                                                                         *)
(* Every step is first classified by what it does to the run counter: a    *)
(* run enters it, leaves it, or nothing is counted (ControlSteps).  The    *)
(* facts about the counter then follow from the class alone.               *)
(*                                                                         *)
(* Then what the calls do to their data.  Types are kept; the result an    *)
(* operator reads is never the previous refresh's while one is running;    *)
(* what a run reports accounts for all it had to do; and a run that was    *)
(* told to stop takes up nothing else.                                     *)
(***************************************************************************)
EXTENDS EvaluationRuns, TLAPS, FiniteSetTheorems, SequenceTheorems

CtlEntry == [kind : Kinds, at : Waits, began : Nat]

ControlOK ==
    /\ clock \in Nat
    /\ startedAtMs \in [RunAxis -> Seq(Nat)]
    /\ ctl \in [Execs -> CtlEntry]

\* Only e's entry of ctl may change.
Only(e) == \A f \in Execs \ {e} : ctl'[f] = ctl[f]

\* e begins: its start time is pushed on the stack of its axis.
Enters(e) ==
    /\ ~Live(e) /\ Live(e)'
    /\ Only(e)
    /\ ctl'[e].began = clock
    /\ Begin(AxisOf(ctl'[e].kind))
    /\ clock' = clock

\* e ends: a start time is popped from the stack of its axis.
Leaves(e) ==
    /\ Live(e) /\ ~Live(e)'
    /\ Only(e)
    /\ End(AxisOf(ctl[e].kind))
    /\ clock' = clock

\* e goes on, in or out of the counter.
Moves(e) ==
    /\ Live(e)' = Live(e)
    /\ Only(e)
    /\ Live(e) => ctl'[e].kind = ctl[e].kind /\ ctl'[e].began = ctl[e].began
    /\ startedAtMs' = startedAtMs
    /\ clock' = clock

Rests ==
    /\ ctl' = ctl /\ startedAtMs' = startedAtMs
    /\ clock' \in Nat /\ clock <= clock'

ControlClass == Rests \/ \E e \in Execs : Enters(e) \/ Leaves(e) \/ Moves(e)

------------------------------------------------------------------------------
LEMMA InitControlOK == Init => ControlOK
  BY EmptySeq, SMT DEF Init, RunStatusInit, ControlOK, CtlEntry, Idle, Kinds, Waits

LEMMA SetsEffect ==
  ASSUME ctl \in [Execs -> CtlEntry], NEW e \in Execs, NEW r \in CtlEntry,
         ctl' = [ctl EXCEPT ![e] = r]
  PROVE  ctl' \in [Execs -> CtlEntry] /\ ctl'[e] = r /\ Only(e)
  BY SMT DEF Only

LEMMA GoesEffect ==
  ASSUME ctl \in [Execs -> CtlEntry], NEW e \in Execs, NEW w \in Waits,
         Goes(e, w)
  PROVE  /\ ctl' \in [Execs -> CtlEntry] /\ Only(e)
         /\ ctl'[e].at = w
         /\ ctl'[e].kind = ctl[e].kind /\ ctl'[e].began = ctl[e].began
  <1>1. [ctl[e] EXCEPT !.at = w] \in CtlEntry
    BY SMT DEF CtlEntry
  <1>2. ctl' = [ctl EXCEPT ![e] = [ctl[e] EXCEPT !.at = w]]
    BY SMT DEF Goes
  <1>3. QED
    <2> DEFINE r == [ctl[e] EXCEPT !.at = w]
    <2>1. ctl' \in [Execs -> CtlEntry] /\ ctl'[e] = r /\ Only(e)
      BY <1>1, <1>2, SetsEffect
    <2>2. ctl[e] \in CtlEntry
      OBVIOUS
    <2>3. r.at = w /\ r.kind = ctl[e].kind /\ r.began = ctl[e].began
      BY <2>2, SMT DEF CtlEntry
    <2>4. QED
      BY <2>1, <2>3
LEMMA IdleEntry == Idle \in CtlEntry
  BY DEF Idle, CtlEntry, Kinds, Waits

\* The finally block of a tick ends a live run.
LEMMA FinishTickControl ==
  ASSUME ControlOK, NEW e \in Execs, NEW t, NEW n, FinishTick(e, t, n),
         ctl[e].kind = "tick", Live(e), clock' = clock
  PROVE  Leaves(e) /\ ctl' \in [Execs -> CtlEntry] /\ ctl'[e].kind = "tick"
  <1>1. Goes(e, "settled") /\ End("evaluation")
    BY DEF FinishTick
  <1>2. "settled" \in Waits
    BY DEF Waits
  <1>3. QED
    BY <1>1, <1>2, GoesEffect DEF ControlOK, Leaves, Live, AxisOf

LEMMA NextPersonControl ==
  ASSUME ControlOK, NEW e \in Execs, NEW g, NEW t, NEW n, NextPerson(e, g, t, n),
         ctl[e].kind = "tick", Live(e), clock' = clock
  PROVE  /\ Leaves(e) \/ Moves(e)
         /\ ctl' \in [Execs -> CtlEntry] /\ ctl'[e].kind = "tick"
  <1>1. CASE FinishTick(e, t, n)
    BY <1>1, FinishTickControl
  <1>2. CASE Goes(e, "person") /\ UNCHANGED startedAtMs
    BY <1>2, GoesEffect DEF ControlOK, Moves, Live, Waits
  <1>3. QED
    BY <1>1, <1>2 DEF NextPerson

\* Each step of a tick changes the counter in one of the classified ways.
LEMMA TickControl ==
  ASSUME ControlOK, NEW e \in Execs, TickStep(e)
  PROVE  /\ Leaves(e) \/ Moves(e)
         /\ ctl' \in [Execs -> CtlEntry] /\ ctl'[e].kind \in {"tick", "none"}
<1>0. \A at \in {"listing", "planning", "coordinate"} :
        Live(e) /\ Goes(e, at) /\ UNCHANGED <<startedAtMs, clock>>
            => /\ Moves(e) /\ ctl' \in [Execs -> CtlEntry]
               /\ ctl'[e].kind = ctl[e].kind
  BY GoesEffect DEF ControlOK, Moves, Live, Waits
<1>1. CASE TickResolve(e)
  BY <1>0, <1>1, FinishTickControl DEF TickResolve, AbortTick, TickUnchanged, TickAt, Live
<1>2. CASE TickList(e)
  BY <1>0, <1>2, FinishTickControl DEF TickList, AbortTick, TickUnchanged, TickAt, Live
<1>3. CASE TickPlan(e)
  <2>1. ctl[e].kind = "tick" /\ Live(e) /\ clock' = clock
    BY <1>3 DEF TickPlan, TickAt, Live, TickUnchanged
  <2>2. ASSUME NEW g, NEW t, NEW n, PlanWindow(e, g, t, n)
        PROVE  /\ Leaves(e) \/ Moves(e)
               /\ ctl' \in [Execs -> CtlEntry] /\ ctl'[e].kind = "tick"
    <3>1. CASE UNCHANGED <<startedAtMs, ctl>>
      BY <3>1, <2>1 DEF Moves, Only, ControlOK, Live
    <3>2. QED
      BY <2>1, <2>2, <3>1, NextPersonControl DEF PlanWindow
  <2>3. QED
    BY <1>3, <2>2 DEF TickPlan
<1>4. CASE TickPerson(e)
  BY <1>0, <1>4, FinishTickControl, NextPersonControl
     DEF TickPerson, TickUnchanged, TickAt, Live
<1>5. CASE TickCoordinate(e)
  <2>1. ctl[e].kind = "tick" /\ Live(e) /\ clock' = clock
    BY <1>5 DEF TickCoordinate, TickAt, Live, TickUnchanged
  <2>2. UNCHANGED <<startedAtMs, ctl>> => Moves(e) /\ ctl' \in [Execs -> CtlEntry]
    BY <2>1 DEF Moves, Only, ControlOK, Live
  <2>3. QED
    BY <1>5, <2>1, <2>2, FinishTickControl, NextPersonControl DEF TickCoordinate
<1>6. CASE ClearTick(e)
  BY <1>6, SetsEffect, IdleEntry
     DEF ClearTick, TickAt, Frees, Moves, Live, Idle, ControlOK, statusVars
<1>7. QED
  BY <1>1, <1>2, <1>3, <1>4, <1>5, <1>6 DEF TickStep

LEMMA FinishRefreshControl ==
  ASSUME ControlOK, NEW e \in Execs, NEW c, NEW a, NEW n,
         FinishRefresh(e, c, a, n),
         ctl[e].kind = "refresh", Live(e), clock' = clock
  PROVE  Leaves(e) /\ ctl' \in [Execs -> CtlEntry] /\ ctl'[e].kind = "refresh"
  <1>1. Goes(e, "settled") /\ End("evaluation")
    BY DEF FinishRefresh
  <1>2. "settled" \in Waits
    BY DEF Waits
  <1>3. QED
    BY <1>1, <1>2, GoesEffect DEF ControlOK, Leaves, Live, AxisOf

LEMMA NextRefreshControl ==
  ASSUME ControlOK, NEW e \in Execs, NEW S, NEW H, NEW c, NEW n,
         NextRefresh(e, S, H, c, n),
         ctl[e].kind = "refresh", Live(e), clock' = clock
  PROVE  /\ Leaves(e) \/ Moves(e)
         /\ ctl' \in [Execs -> CtlEntry] /\ ctl'[e].kind = "refresh"
  <1>1. CASE Goes(e, "coordinate") /\ UNCHANGED startedAtMs
    BY <1>1, GoesEffect DEF ControlOK, Moves, Live, Waits
  <1>2. QED
    BY <1>1, FinishRefreshControl DEF NextRefresh

\* An admitted refresh enters the counter.
LEMMA AdmitControl ==
  ASSUME ControlOK, NEW e \in Execs, AdmitRefresh(e)
  PROVE  /\ Enters(e) /\ ctl' \in [Execs -> CtlEntry]
         /\ ctl'[e].kind = "refresh" /\ ctl'[e].at = "resolving"
  <1> DEFINE r == [kind |-> "refresh", at |-> "resolving", began |-> clock]
  <1>1. ctl[e].at = "lookup"
    BY DEF AdmitRefresh, RefreshAt
  <1>3. r \in CtlEntry
    BY SMT DEF CtlEntry, Kinds, Waits, ControlOK
  <1>4. ctl' = [ctl EXCEPT ![e] = r]
    BY DEF AdmitRefresh
  <1>5. ctl' \in [Execs -> CtlEntry] /\ ctl'[e] = r /\ Only(e)
    BY <1>3, <1>4, SetsEffect DEF ControlOK
  <1>6. Begin("evaluation") /\ clock' = clock
    BY DEF AdmitRefresh, Untouched
  <1>7. QED
    BY <1>1, <1>5, <1>6 DEF Enters, Live, AxisOf

LEMMA RefreshControl ==
  ASSUME ControlOK, NEW e \in Execs, RefreshStep(e)
  PROVE  /\ Enters(e) \/ Leaves(e) \/ Moves(e)
         /\ ctl' \in [Execs -> CtlEntry] /\ ctl'[e].kind \in {"refresh", "none"}
<1>1. CASE RejectRefresh(e)
  BY <1>1, SetsEffect, IdleEntry
     DEF RejectRefresh, RefreshAt, Frees, Moves, Live, Idle, ControlOK, statusVars
<1>2. CASE AdmitRefresh(e)
  BY <1>2, AdmitControl
<1>3. CASE RefreshResolve(e)
  <2>1. ctl[e].kind = "refresh" /\ Live(e) /\ clock' = clock
    BY <1>3 DEF RefreshResolve, RefreshAt, Live, Untouched
  <2>2. CASE Goes(e, "reading") /\ UNCHANGED startedAtMs
    BY <2>1, <2>2, GoesEffect DEF ControlOK, Moves, Live, Waits
  <2>3. QED
    BY <1>3, <2>1, <2>2, FinishRefreshControl DEF RefreshResolve
<1>4. CASE RefreshPlan(e)
  <2>1. ctl[e].kind = "refresh" /\ Live(e) /\ clock' = clock
    BY <1>4 DEF RefreshPlan, RefreshAt, Live, Untouched
  <2>2. QED
    BY <1>4, <2>1, FinishRefreshControl, NextRefreshControl DEF RefreshPlan
<1>5. CASE RefreshCoordinate(e)
  <2>1. ctl[e].kind = "refresh" /\ Live(e) /\ clock' = clock
    BY <1>5 DEF RefreshCoordinate, RefreshAt, Live, Untouched
  <2>2. QED
    BY <1>5, <2>1, NextRefreshControl DEF RefreshCoordinate
<1>6. CASE ClearRefresh(e)
  BY <1>6, SetsEffect, IdleEntry
     DEF ClearRefresh, RefreshAt, Frees, Moves, Live, Idle, ControlOK, statusVars
<1>7. QED
  BY <1>1, <1>2, <1>3, <1>4, <1>5, <1>6 DEF RefreshStep

LEMMA RequestControl ==
  ASSUME ControlOK, NEW e \in Execs, RequestStep(e)
  PROVE  /\ Leaves(e) \/ Moves(e)
         /\ ctl' \in [Execs -> CtlEntry] /\ ctl'[e].kind \in {"fillRun", "none"}
<1>a. ASSUME NEW t, FinishFillRun(e, t), ctl[e].kind = "fillRun", Live(e),
             clock' = clock
      PROVE  Leaves(e) /\ ctl' \in [Execs -> CtlEntry] /\ ctl'[e].kind = "none"
  BY <1>a, SetsEffect, IdleEntry
     DEF FinishFillRun, Frees, Leaves, Live, Idle, AxisOf, ControlOK
<1>1. CASE EndRequest(e)
  BY <1>1, SetsEffect, IdleEntry
     DEF EndRequest, Frees, Leaves, Live, Idle, Elsewhere, ControlOK
<1>2. CASE FillRunResolve(e)
  <2>1. ctl[e].kind = "fillRun" /\ Live(e) /\ clock' = clock
    BY <1>2 DEF FillRunResolve, FillRunAt, Live, Elsewhere
  <2>2. CASE Goes(e, "coordinate") /\ UNCHANGED startedAtMs
    BY <2>1, <2>2, GoesEffect DEF ControlOK, Moves, Live, Waits
  <2>3. QED
    BY <1>2, <1>a, <2>1, <2>2 DEF FillRunResolve
<1>3. CASE FillRunCoordinate(e)
  <2>1. ctl[e].kind = "fillRun" /\ Live(e) /\ clock' = clock
    BY <1>3 DEF FillRunCoordinate, FillRunAt, Live, Elsewhere
  <2>2. CASE UNCHANGED <<startedAtMs, ctl>>
    BY <2>1, <2>2 DEF Moves, Only, ControlOK, Live
  <2>3. QED
    BY <1>3, <1>a, <2>1, <2>2 DEF FillRunCoordinate
<1>4. QED
  BY <1>1, <1>2, <1>3 DEF RequestStep

LEMMA ArriveControl ==
  ASSUME ControlOK, NEW e \in Execs, Arrive(e)
  PROVE  (Enters(e) \/ Moves(e)) /\ ctl' \in [Execs -> CtlEntry]
<1>1. ASSUME NEW kind \in Kinds, NEW at \in Waits, ~Live(e),
             at \notin {"none", "lookup", "settled"},
             ctl' = [ctl EXCEPT ![e] = [kind |-> kind, at |-> at, began |-> clock]],
             Begin(AxisOf(kind)), clock' = clock
      PROVE  Enters(e) /\ ctl' \in [Execs -> CtlEntry]
  <2> DEFINE r == [kind |-> kind, at |-> at, began |-> clock]
  <2>1. r \in CtlEntry
    BY SMT DEF CtlEntry, ControlOK
  <2>2. ctl'[e] = r /\ Only(e) /\ ctl' \in [Execs -> CtlEntry]
    BY <1>1, <2>1, SetsEffect DEF ControlOK
  <2>3. QED
    BY <1>1, <2>2 DEF Enters, Live
<1>2. CASE StartTick(e)
  BY <1>1, <1>2 DEF StartTick, Live, AxisOf, Kinds, Waits
<1>3. ASSUME NEW p \in Persons, RequestRefresh(e, p)
      PROVE  Moves(e) /\ ctl' \in [Execs -> CtlEntry]
  <2> DEFINE r == [kind |-> "refresh", at |-> "lookup", began |-> 0]
  <2>1. r \in CtlEntry
    BY SMT DEF CtlEntry, Kinds, Waits
  <2>2. ctl'[e] = r /\ Only(e) /\ ctl' \in [Execs -> CtlEntry]
    BY <1>3, <2>1, SetsEffect DEF RequestRefresh, ControlOK
  <2>3. QED
    BY <1>3, <2>2 DEF RequestRefresh, Moves, Live, statusVars
<1>4. ASSUME NEW kind \in {"evaluate", "collect"}, StartRequest(e, kind)
      PROVE  Enters(e) /\ ctl' \in [Execs -> CtlEntry]
  BY <1>1, <1>4 DEF StartRequest, Live, Kinds, Waits, Elsewhere
<1>5. CASE StartFillRun(e)
  BY <1>1, <1>5 DEF StartFillRun, Live, AxisOf, Kinds, Waits, Elsewhere
<1>6. QED
  BY <1>2, <1>3, <1>4, <1>5 DEF Arrive

LEMMA ControlSteps ==
  ASSUME ControlOK, [Next]_vars
  PROVE  ControlClass /\ ctl' \in [Execs -> CtlEntry]
<1>1. CASE UNCHANGED vars
  BY <1>1 DEF vars, statusVars, ControlClass, Rests, ControlOK
<1>2. CASE StopTicks \/ StopRefresh \/ AdvanceClock
  BY <1>2 DEF StopTicks, StopRefresh, AdvanceClock, statusVars, ControlClass,
              Rests, ControlOK
<1>3. ASSUME NEW e \in Execs, Arrive(e) \/ Step(e)
      PROVE  ControlClass /\ ctl' \in [Execs -> CtlEntry]
  BY <1>3, ArriveControl, TickControl, RefreshControl, RequestControl
     DEF Step, ControlClass
<1>4. QED
  BY <1>1, <1>2, <1>3 DEF Next

------------------------------------------------------------------------------
(* The stacks stay sequences of times. *)

Push(s, n) == Append(s, n)
Pop(s) == IF Len(s) = 0 THEN s ELSE SubSeq(s, 1, Len(s) - 1)

LEMMA PushPop ==
  ASSUME NEW s \in Seq(Nat), NEW n \in Nat
  PROVE  /\ Push(s, n) \in Seq(Nat) /\ Len(Push(s, n)) = Len(s) + 1
         /\ Push(s, n)[1] = IF Len(s) = 0 THEN n ELSE s[1]
         /\ Pop(s) \in Seq(Nat)
         /\ Len(s) > 0 => Len(Pop(s)) = Len(s) - 1
         /\ Len(s) > 1 => Pop(s)[1] = s[1]
  <1>0. Len(s) \in Nat
    BY LenProperties
  <1>1. /\ Push(s, n) \in Seq(Nat) /\ Len(Push(s, n)) = Len(s) + 1
        /\ Push(s, n)[1] = IF Len(s) = 0 THEN n ELSE s[1]
    BY <1>0, AppendProperties DEF Push
  <1>2. \A i \in 1..(Len(s) - 1) : s[i] \in Nat
    BY <1>0, ElementOfSeq, SMT
  <1>3. /\ SubSeq(s, 1, Len(s) - 1) \in Seq(Nat)
        /\ Len(s) > 0 => Len(SubSeq(s, 1, Len(s) - 1)) = Len(s) - 1
        /\ Len(s) > 1 => SubSeq(s, 1, Len(s) - 1)[1] = s[1]
    <2>1. PICK m \in Int : m = Len(s) - 1
      BY <1>0
    <2>2. \A i \in 1..m : s[i] \in Nat
      BY <1>2, <2>1
    <2>3. /\ SubSeq(s, 1, m) \in Seq(Nat)
          /\ Len(SubSeq(s, 1, m)) = IF 1 <= m THEN m - 1 + 1 ELSE 0
          /\ \A i \in 1..(m - 1 + 1) : SubSeq(s, 1, m)[i] = s[1 + i - 1]
      BY <2>2, SubSeqProperties
    <2>4. m > 0 => SubSeq(s, 1, m)[1] = s[1]
      BY <2>1, <2>3
    <2>5. m >= 0 => Len(SubSeq(s, 1, m)) = m
      BY <2>1, <2>3
    <2>6. QED
      BY <1>0, <2>1, <2>3, <2>4, <2>5
  <1>4. QED
    BY <1>1, <1>3 DEF Pop

THEOREM ControlOKInvariant == Spec => []ControlOK
<1>1. ControlOK /\ [Next]_vars => ControlOK'
  <2> SUFFICES ASSUME ControlOK, [Next]_vars PROVE ControlOK'
    OBVIOUS
  <2>1. ControlClass /\ ctl' \in [Execs -> CtlEntry]
    BY ControlSteps
  <2>2. CASE Rests
    BY <2>1, <2>2 DEF Rests, ControlOK
  <2>3. ASSUME NEW e \in Execs, Enters(e) \/ Leaves(e) \/ Moves(e)
        PROVE  clock' \in Nat /\ startedAtMs' \in [RunAxis -> Seq(Nat)]
    <3>1. \A axis \in RunAxis : /\ Push(startedAtMs[axis], clock) \in Seq(Nat)
                               /\ Pop(startedAtMs[axis]) \in Seq(Nat)
      BY PushPop DEF ControlOK
    <3>2. QED
      BY <2>3, <3>1 DEF Enters, Leaves, Moves, Begin, End, Push, Pop, ControlOK
  <2>4. QED
    BY <2>1, <2>2, <2>3 DEF ControlClass, ControlOK
<1>2. QED
  BY <1>1, InitControlOK, PTL DEF Spec

------------------------------------------------------------------------------
(* What a step does to the set of live runs of an axis. *)

LEMMA LiveOnFinite ==
  ASSUME NEW axis
  PROVE  IsFiniteSet(LiveOn(axis))
  BY ExecsAssumption, FS_Subset DEF LiveOn

LEMMA LiveOnEnters ==
  ASSUME NEW e \in Execs, Enters(e), NEW axis
  PROVE  /\ e \notin LiveOn(axis)
         /\ LiveOn(axis)' = IF axis = AxisOf(ctl'[e].kind)
                            THEN LiveOn(axis) \union {e} ELSE LiveOn(axis)
  BY DEF Enters, Only, LiveOn, Live

LEMMA LiveOnLeaves ==
  ASSUME NEW e \in Execs, Leaves(e), NEW axis
  PROVE  /\ e \in LiveOn(AxisOf(ctl[e].kind))
         /\ LiveOn(axis)' = IF axis = AxisOf(ctl[e].kind)
                            THEN LiveOn(axis) \ {e} ELSE LiveOn(axis)
  BY DEF Leaves, Only, LiveOn, Live

LEMMA LiveOnMoves ==
  ASSUME NEW e \in Execs, Moves(e), NEW axis
  PROVE  LiveOn(axis)' = LiveOn(axis)
  BY DEF Moves, Only, LiveOn, Live

LEMMA AxisType ==
  ASSUME NEW kind PROVE AxisOf(kind) \in RunAxis
  BY DEF AxisOf, RunAxis

(***************************************************************************)
(* The counter and the live runs move together: whatever path a run takes  *)
(* to its end, and whatever overlaps it, the count of an axis is the       *)
(* number of runs in progress on it.                                       *)
(***************************************************************************)
THEOREM CountsLiveRunsInvariant == Spec => []CountsLiveRuns
<1>1. Init => CountsLiveRuns
  <2> SUFFICES ASSUME Init, NEW axis \in RunAxis
               PROVE  RunningCount(axis) = Cardinality(LiveOn(axis))
    BY DEF CountsLiveRuns
  <2>1. LiveOn(axis) = {}
    BY DEF Init, LiveOn, Live, Idle
  <2>2. RunningCount(axis) = 0
    BY SMT DEF Init, RunStatusInit, RunningCount
  <2>3. QED
    BY <2>1, <2>2, FS_EmptySet
<1>2. ControlOK /\ CountsLiveRuns /\ [Next]_vars => CountsLiveRuns'
  <2> SUFFICES ASSUME ControlOK, CountsLiveRuns, [Next]_vars,
                      NEW axis \in RunAxis
               PROVE  RunningCount(axis)' = Cardinality(LiveOn(axis)')
    BY DEF CountsLiveRuns
  <2>1. ControlClass
    BY ControlSteps
  <2>2. RunningCount(axis) = Cardinality(LiveOn(axis))
    BY DEF CountsLiveRuns
  <2>3. CASE Rests
    BY <2>2, <2>3 DEF Rests, RunningCount, LiveOn, Live
  <2>4. ASSUME NEW e \in Execs, Enters(e) PROVE
              RunningCount(axis)' = Cardinality(LiveOn(axis)')
    <3> DEFINE a == AxisOf(ctl'[e].kind)
    <3>1. a \in RunAxis /\ startedAtMs' = [startedAtMs EXCEPT ![a] = Push(@, clock)]
      BY <2>4, AxisType DEF Enters, Begin, Push
    <3>2. RunningCount(axis)' = RunningCount(axis) + (IF axis = a THEN 1 ELSE 0)
      BY <3>1, PushPop DEF RunningCount, ControlOK
    <3>3. QED
      BY <2>2, <2>4, <3>2, LiveOnEnters, LiveOnFinite, FS_AddElement,
         FS_CardinalityType
  <2>5. ASSUME NEW e \in Execs, Leaves(e) PROVE
              RunningCount(axis)' = Cardinality(LiveOn(axis)')
    <3> DEFINE a == AxisOf(ctl[e].kind)
    <3>1. a \in RunAxis /\ startedAtMs' = [startedAtMs EXCEPT ![a] = Pop(@)]
      BY <2>5, AxisType DEF Leaves, End, Pop
    <3>2. RunningCount(a) > 0
      BY <2>5, <3>1, LiveOnLeaves, LiveOnFinite, FS_EmptySet, FS_CardinalityType
         DEF CountsLiveRuns
    <3>3. RunningCount(axis)' = RunningCount(axis) - (IF axis = a THEN 1 ELSE 0)
      BY <3>1, <3>2, PushPop DEF RunningCount, ControlOK
    <3>4. QED
      BY <2>2, <2>5, <3>3, LiveOnLeaves, LiveOnFinite, FS_RemoveElement,
         FS_CardinalityType
  <2>6. ASSUME NEW e \in Execs, Moves(e) PROVE
              RunningCount(axis)' = Cardinality(LiveOn(axis)')
    BY <2>2, <2>6, LiveOnMoves DEF Moves, RunningCount
  <2>7. QED
    BY <2>1, <2>3, <2>4, <2>5, <2>6 DEF ControlClass
<1>3. QED
  BY <1>1, <1>2, ControlOKInvariant, PTL DEF Spec

------------------------------------------------------------------------------
(* The start time the banner shows. *)

\* Strengthening: a live run began no later than now.
StartTimesOK ==
    \A axis \in RunAxis : \A e \in LiveOn(axis) :
        StartedAt(axis) <= ctl[e].began /\ ctl[e].began <= clock

(***************************************************************************)
(* The start time the banner shows is never later than the start of a run  *)
(* in progress: end() may drop another run's time, but it drops the last   *)
(* one, and the first stays for as long as a run is in progress.           *)
(***************************************************************************)
THEOREM StartedAtNeverLateInvariant == Spec => []StartedAtNeverLate
<1>1. Init => StartTimesOK
  BY DEF Init, StartTimesOK, LiveOn, Live, Idle
<1>2. ControlOK /\ CountsLiveRuns /\ StartTimesOK /\ [Next]_vars => StartTimesOK'
  <2> SUFFICES ASSUME ControlOK, CountsLiveRuns, StartTimesOK, [Next]_vars,
                      NEW axis \in RunAxis, NEW f \in LiveOn(axis)'
               PROVE  /\ StartedAt(axis)' <= ctl'[f].began
                      /\ ctl'[f].began <= clock'
    BY DEF StartTimesOK
  <2>1. ControlClass /\ ctl' \in [Execs -> CtlEntry]
    BY ControlSteps
  <2>2. /\ Len(startedAtMs[axis]) = Cardinality(LiveOn(axis))
        /\ IsFiniteSet(LiveOn(axis)) /\ f \in Execs
    BY LiveOnFinite DEF CountsLiveRuns, RunningCount, LiveOn
  <2>3. ASSUME NEW g \in LiveOn(axis)
        PROVE  /\ startedAtMs[axis][1] <= ctl[g].began /\ ctl[g].began <= clock
               /\ Len(startedAtMs[axis]) > 0
               /\ startedAtMs[axis][1] \in Nat /\ ctl[g].began \in Nat
    <3>1. startedAtMs[axis][1] <= ctl[g].began /\ ctl[g].began <= clock
      BY DEF StartTimesOK, StartedAt
    <3>2. Len(startedAtMs[axis]) \in Nat /\ Len(startedAtMs[axis]) # 0
      BY <2>2, FS_EmptySet, FS_CardinalityType
    <3>3. startedAtMs[axis] \in Seq(Nat) /\ 1 \in 1..Len(startedAtMs[axis])
      BY <3>2 DEF ControlOK
    <3>4. startedAtMs[axis][1] \in Nat
      BY <3>3, ElementOfSeq
    <3>5. g \in Execs /\ ctl[g] \in CtlEntry
      BY DEF LiveOn, ControlOK
    <3>6. ctl[g].began \in Nat
      BY <3>5 DEF CtlEntry
    <3>7. QED
      BY <3>1, <3>2, <3>4, <3>6
  <2>4. CASE Rests
    <3>1. f \in LiveOn(axis) /\ ctl'[f] = ctl[f] /\ clock' \in Nat /\ clock <= clock'
      BY <2>4 DEF Rests, LiveOn, Live
    <3>2. QED
      BY <2>3, <2>4, <3>1, SMT DEF Rests, StartedAt, ControlOK
  <2>5. ASSUME NEW e \in Execs, Enters(e)
        PROVE  StartedAt(axis)' <= ctl'[f].began /\ ctl'[f].began <= clock'
    <3> DEFINE a == AxisOf(ctl'[e].kind)
    <3>1. a \in RunAxis /\ startedAtMs' = [startedAtMs EXCEPT ![a] = Push(@, clock)]
      BY <2>5, AxisType DEF Enters, Begin, Push
    <3>2. startedAtMs[axis] \in Seq(Nat) /\ clock \in Nat
      BY DEF ControlOK
    <3>3. Len(startedAtMs[axis]) # 0 =>
            /\ startedAtMs'[axis][1] = startedAtMs[axis][1]
            /\ startedAtMs[axis][1] <= clock
      <4>1. Len(startedAtMs[axis]) # 0 => \E g \in LiveOn(axis) : TRUE
        BY <2>2, FS_EmptySet
      <4>2. Len(startedAtMs[axis]) # 0 => startedAtMs[axis][1] <= clock
        BY <2>3, <3>2, <4>1
      <4>3. /\ Len(startedAtMs[axis]) \in Nat
            /\ Push(startedAtMs[axis], clock)[1] =
                 IF Len(startedAtMs[axis]) = 0 THEN clock ELSE startedAtMs[axis][1]
        BY <3>2, PushPop, LenProperties
      <4>4. startedAtMs'[axis] = IF axis = a THEN Push(startedAtMs[axis], clock)
                                 ELSE startedAtMs[axis]
        BY <3>1 DEF ControlOK
      <4>5. QED
        BY <4>2, <4>3, <4>4
    <3>4. CASE f = e
      <4>1. axis = a /\ ctl'[f].began = clock
        BY <2>5, <3>4, LiveOnEnters DEF Enters
      <4>2. Len(startedAtMs[axis]) = 0 => startedAtMs'[axis][1] = clock
        BY <3>1, <3>2, <4>1, PushPop DEF ControlOK
      <4>3. QED
        BY <2>5, <3>2, <3>3, <4>1, <4>2 DEF Enters, StartedAt
    <3>5. CASE f # e
      <4>1. f \in LiveOn(axis) /\ ctl'[f] = ctl[f]
        BY <2>2, <2>5, <3>5, LiveOnEnters DEF Enters, Only
      <4>2. QED
        BY <2>3, <2>5, <3>3, <4>1 DEF Enters, StartedAt
    <3>6. QED
      BY <3>4, <3>5
  <2>6. ASSUME NEW e \in Execs, Leaves(e)
        PROVE  StartedAt(axis)' <= ctl'[f].began /\ ctl'[f].began <= clock'
    <3> DEFINE a == AxisOf(ctl[e].kind)
    <3>1. a \in RunAxis /\ startedAtMs' = [startedAtMs EXCEPT ![a] = Pop(@)]
      BY <2>6, AxisType DEF Leaves, End, Pop
    <3>2. f \in LiveOn(axis) /\ f # e /\ ctl'[f] = ctl[f]
      BY <2>2, <2>6, LiveOnLeaves DEF Leaves, Only, LiveOn, Live
    <3>3. axis = a => Len(startedAtMs[axis]) > 1
      <4>1. axis = a => e \in LiveOn(axis)
        BY <2>6, LiveOnLeaves
      <4>2. axis = a => Cardinality(LiveOn(axis) \ {e}) = Cardinality(LiveOn(axis)) - 1
        BY <2>2, <4>1, FS_RemoveElement
      <4>3. Cardinality(LiveOn(axis) \ {e}) # 0 /\ Cardinality(LiveOn(axis) \ {e}) \in Nat
        BY <2>2, <3>2, FS_RemoveElement, FS_EmptySet, FS_CardinalityType
      <4>4. QED
        BY <2>2, <4>2, <4>3, FS_CardinalityType
    <3>4. startedAtMs'[axis][1] = startedAtMs[axis][1]
      BY <3>1, <3>3, PushPop DEF ControlOK
    <3>5. QED
      BY <2>3, <2>6, <3>2, <3>4 DEF Leaves, StartedAt
  <2>7. ASSUME NEW e \in Execs, Moves(e)
        PROVE  StartedAt(axis)' <= ctl'[f].began /\ ctl'[f].began <= clock'
    <3>1. f \in LiveOn(axis) /\ ctl'[f].began = ctl[f].began
      BY <2>2, <2>7, LiveOnMoves DEF Moves, Only, LiveOn
    <3>2. QED
      BY <2>3, <2>7, <3>1 DEF Moves, StartedAt
  <2>8. QED
    BY <2>1, <2>4, <2>5, <2>6, <2>7 DEF ControlClass
<1>3. StartTimesOK => StartedAtNeverLate
  BY DEF StartTimesOK, StartedAtNeverLate
<1>4. QED
  BY <1>1, <1>2, <1>3, ControlOKInvariant, CountsLiveRunsInvariant, PTL DEF Spec

------------------------------------------------------------------------------
(* The runners. *)

IsTick(e) == ctl[e].kind = "tick"
IsRefresh(e) == ctl[e].kind = "refresh" /\ ctl[e].at # "lookup"

\* What e's step may do to the two `current' fields.
OwnerStep(e) ==
    /\ Only(e)
    /\ \/ tickCurrent' = tickCurrent /\ (IsTick(e)' => IsTick(e))
       \/ tickCurrent = None /\ tickCurrent' = e
       \/ IsTick(e) /\ ~IsTick(e)' /\ tickCurrent' = None
    /\ \/ refreshCurrent' = refreshCurrent /\ (IsRefresh(e)' => IsRefresh(e))
       \/ refreshCurrent = None /\ refreshCurrent' = e
       \/ IsRefresh(e) /\ ~IsRefresh(e)' /\ refreshCurrent' = None

LEMMA TickOwner ==
  ASSUME ControlOK, NEW e \in Execs, TickStep(e)
  PROVE  OwnerStep(e)
<1>1. Only(e) /\ ctl'[e].kind \in {"tick", "none"}
  BY TickControl DEF Leaves, Moves
<1>2. IsTick(e) /\ ~IsRefresh(e)' /\ refreshCurrent' = refreshCurrent
  BY <1>1 DEF TickStep, TickResolve, TickList, TickPlan, TickPerson,
              TickCoordinate, ClearTick, TickAt, TickUnchanged, refreshVars,
              IsTick, IsRefresh
<1>3. CASE ClearTick(e)
  <2>1. ctl'[e] = Idle /\ tickCurrent' = None
    BY <1>3, SetsEffect, IdleEntry DEF ClearTick, Frees, ControlOK
  <2>2. QED
    BY <1>1, <1>2, <2>1 DEF OwnerStep, IsTick, Idle
<1>4. CASE ~ClearTick(e)
  <2>1. tickCurrent' = tickCurrent
    BY <1>4 DEF TickStep, TickResolve, TickList, TickPlan, TickPerson,
                TickCoordinate, TickUnchanged
  <2>2. QED
    BY <1>1, <1>2, <2>1 DEF OwnerStep
<1>5. QED
  BY <1>3, <1>4

LEMMA RefreshOwner ==
  ASSUME ControlOK, NEW e \in Execs, RefreshStep(e)
  PROVE  OwnerStep(e)
<1>1. Only(e) /\ ctl'[e].kind \in {"refresh", "none"}
  BY RefreshControl DEF Enters, Leaves, Moves
<1>2. ~IsTick(e)' /\ tickCurrent' = tickCurrent
  BY <1>1 DEF RefreshStep, RejectRefresh, AdmitRefresh, RefreshResolve,
              RefreshPlan, RefreshCoordinate, ClearRefresh, tickVars, Untouched,
              IsTick
<1>3. CASE RejectRefresh(e)
  <2>1. ctl'[e] = Idle /\ refreshCurrent' = refreshCurrent
    BY <1>3, SetsEffect, IdleEntry DEF RejectRefresh, Frees, ControlOK, refreshVars
  <2>2. QED
    BY <1>1, <1>2, <2>1 DEF OwnerStep, IsRefresh, Idle
<1>4. CASE AdmitRefresh(e)
  <2>1. refreshCurrent = None /\ refreshCurrent' = e
    BY <1>4 DEF AdmitRefresh, MayRefresh
  <2>2. QED
    BY <1>1, <1>2, <2>1 DEF OwnerStep
<1>5. CASE RefreshResolve(e) \/ RefreshPlan(e) \/ RefreshCoordinate(e)
  <2>1. IsRefresh(e) /\ refreshCurrent' = refreshCurrent
    BY <1>5 DEF RefreshResolve, RefreshPlan, RefreshCoordinate, RefreshAt, IsRefresh
  <2>2. QED
    BY <1>1, <1>2, <2>1 DEF OwnerStep
<1>6. CASE ClearRefresh(e)
  <2>1. ctl'[e] = Idle /\ refreshCurrent' = None /\ IsRefresh(e)
    BY <1>6, SetsEffect, IdleEntry
       DEF ClearRefresh, Frees, ControlOK, RefreshAt, IsRefresh
  <2>2. QED
    BY <1>1, <1>2, <2>1 DEF OwnerStep, IsRefresh, Idle
<1>7. QED
  BY <1>3, <1>4, <1>5, <1>6 DEF RefreshStep

LEMMA OtherOwner ==
  ASSUME ControlOK, NEW e \in Execs, RequestStep(e) \/ Arrive(e)
  PROVE  OwnerStep(e)
<1>1. CASE RequestStep(e)
  <2>1. Only(e) /\ ctl'[e].kind \in {"fillRun", "none"}
    BY <1>1, RequestControl DEF Enters, Leaves, Moves
  <2>2. tickCurrent' = tickCurrent /\ refreshCurrent' = refreshCurrent
    BY <1>1 DEF RequestStep, EndRequest, FillRunResolve, FillRunCoordinate,
                Elsewhere, tickVars, refreshVars
  <2>3. QED
    BY <2>1, <2>2 DEF OwnerStep, IsTick, IsRefresh
<1>2. CASE StartTick(e)
  <2>1. ctl'[e].kind = "tick" /\ Only(e)
    BY <1>2, SMT DEF StartTick, ControlOK, Only
  <2>2. /\ tickCurrent = None /\ tickCurrent' = e
        /\ refreshCurrent' = refreshCurrent
    BY <1>2 DEF StartTick, refreshVars
  <2>3. QED
    BY <2>1, <2>2 DEF OwnerStep, IsRefresh
<1>3. ASSUME NEW p \in Persons, RequestRefresh(e, p)
      PROVE  OwnerStep(e)
  <2>1. ctl'[e].kind = "refresh" /\ ctl'[e].at = "lookup" /\ Only(e)
    BY <1>3, SMT DEF RequestRefresh, ControlOK, Only
  <2>2. tickCurrent' = tickCurrent /\ refreshCurrent' = refreshCurrent
    BY <1>3 DEF RequestRefresh, tickVars, refreshVars
  <2>3. QED
    BY <2>1, <2>2 DEF OwnerStep, IsTick, IsRefresh
<1>4. ASSUME NEW kind \in {"evaluate", "collect"}, StartRequest(e, kind)
      PROVE  OwnerStep(e)
  <2>1. ctl'[e].kind = kind /\ Only(e)
    BY <1>4, SMT DEF StartRequest, ControlOK, Only
  <2>2. tickCurrent' = tickCurrent /\ refreshCurrent' = refreshCurrent
    BY <1>4 DEF StartRequest, Elsewhere, tickVars, refreshVars
  <2>3. QED
    BY <2>1, <2>2 DEF OwnerStep, IsTick, IsRefresh
<1>5. CASE StartFillRun(e)
  <2>1. ctl'[e].kind = "fillRun" /\ Only(e)
    BY <1>5, SMT DEF StartFillRun, ControlOK, Only
  <2>2. tickCurrent' = tickCurrent /\ refreshCurrent' = refreshCurrent
    BY <1>5 DEF StartFillRun, Elsewhere, tickVars, refreshVars
  <2>3. QED
    BY <2>1, <2>2 DEF OwnerStep, IsTick, IsRefresh
<1>6. QED
  BY <1>1, <1>2, <1>3, <1>4, <1>5 DEF Arrive

LEMMA OwnerSteps ==
  ASSUME ControlOK, [Next]_vars
  PROVE  \/ UNCHANGED <<ctl, tickCurrent, refreshCurrent>>
         \/ \E e \in Execs : OwnerStep(e)
<1>1. CASE UNCHANGED vars
  BY <1>1 DEF vars, tickVars, refreshVars
<1>2. CASE StopTicks \/ StopRefresh \/ AdvanceClock
  BY <1>2 DEF StopTicks, StopRefresh, AdvanceClock, tickVars, refreshVars
<1>3. ASSUME NEW e \in Execs, Arrive(e) \/ Step(e)
      PROVE  OwnerStep(e)
  BY <1>3, TickOwner, RefreshOwner, OtherOwner DEF Step
<1>4. QED
  BY <1>1, <1>2, <1>3 DEF Next

(***************************************************************************)
(* `current' names the one tick and the one refresh in flight, so that two *)
(* ticks never share the tally and two refreshes never run at once.        *)
(***************************************************************************)
THEOREM OneRunPerRunnerInvariant == Spec => []OneRunPerRunner
<1>1. Init => OneRunPerRunner
  BY DEF Init, OneRunPerRunner, Idle
<1>2. ControlOK /\ OneRunPerRunner /\ [Next]_vars => OneRunPerRunner'
  <2> SUFFICES ASSUME ControlOK, OneRunPerRunner, [Next]_vars, NEW f \in Execs
               PROVE  /\ IsTick(f)' => tickCurrent' = f
                      /\ IsRefresh(f)' => refreshCurrent' = f
    BY DEF OneRunPerRunner, IsTick, IsRefresh
  <2>1. /\ IsTick(f) => tickCurrent = f
        /\ IsRefresh(f) => refreshCurrent = f
        /\ f # None
    BY ExecsAssumption DEF OneRunPerRunner, IsTick, IsRefresh
  <2>2. CASE UNCHANGED <<ctl, tickCurrent, refreshCurrent>>
    BY <2>1, <2>2 DEF IsTick, IsRefresh
  <2>3. ASSUME NEW e \in Execs, OwnerStep(e)
        PROVE  /\ IsTick(f)' => tickCurrent' = f
               /\ IsRefresh(f)' => refreshCurrent' = f
    <3>1. f # e => (IsTick(f)' <=> IsTick(f)) /\ (IsRefresh(f)' <=> IsRefresh(f))
      BY <2>3 DEF OwnerStep, Only, IsTick, IsRefresh
    <3>2. IsTick(e) => tickCurrent = e
      BY DEF OneRunPerRunner, IsTick
    <3>3. IsRefresh(e) => refreshCurrent = e
      BY DEF OneRunPerRunner, IsRefresh
    <3>4. QED
      BY <2>1, <2>3, <3>1, <3>2, <3>3 DEF OwnerStep
  <2>4. QED
    BY <2>2, <2>3, OwnerSteps
<1>3. QED
  BY <1>1, <1>2, ControlOKInvariant, PTL DEF Spec

(***************************************************************************)
(* A refresh begins only when no evaluation run of the process is in       *)
(* progress, although the person is awaited before the check: the counter  *)
(* it reads is exact.                                                      *)
(***************************************************************************)
THEOREM RefreshBeginsAloneTheorem == Spec => RefreshBeginsAlone
<1> DEFINE Begins(e) == RefreshAt(e, "lookup") /\ ctl'[e].at = "resolving"
<1>1. ControlOK /\ CountsLiveRuns /\ [Next]_vars =>
        [\A e \in Execs : Begins(e) => LiveOn("evaluation") = {}]_vars
  <2> SUFFICES ASSUME ControlOK, CountsLiveRuns, [Next]_vars, NEW e \in Execs,
                      RefreshAt(e, "lookup"), ctl'[e].at = "resolving"
               PROVE  LiveOn("evaluation") = {}
    OBVIOUS
  <2>1. ctl[e].kind = "refresh" /\ ctl[e].at = "lookup"
    BY DEF RefreshAt
  <2>2. ctl'[e] # ctl[e]
    BY <2>1
  <2>3. Arrive(e) \/ Step(e)
    <3>1. ASSUME NEW f \in Execs, Arrive(f) \/ Step(f)
          PROVE  Only(f)
      BY <3>1, TickOwner, RefreshOwner, OtherOwner DEF Step, OwnerStep
    <3>2. QED
      BY <2>2, <3>1 DEF Next, vars, Only, StopTicks, StopRefresh, AdvanceClock
  <2>4. RejectRefresh(e) \/ AdmitRefresh(e)
    BY <2>1, <2>3
       DEF Arrive, StartTick, RequestRefresh, StartRequest, StartFillRun, Step,
           TickStep, TickResolve, TickList, TickPlan, TickPerson, TickCoordinate,
           ClearTick, TickAt, RefreshStep, RefreshResolve, RefreshPlan,
           RefreshCoordinate, ClearRefresh, RefreshAt, RequestStep, EndRequest,
           FillRunResolve, FillRunCoordinate, FillRunAt
  <2>5. ~RejectRefresh(e)
    BY SetsEffect, IdleEntry DEF RejectRefresh, Frees, ControlOK, Idle
  <2>6. Len(startedAtMs["evaluation"]) = 0
    <3>1. startedAtMs["evaluation"] \in Seq(Nat)
      BY DEF ControlOK, RunAxis
    <3>2. QED
      BY <2>4, <2>5, <3>1, LenProperties DEF AdmitRefresh, MayRefresh, Active, RunningCount
  <2>7. Cardinality(LiveOn("evaluation")) = 0
    BY <2>6 DEF CountsLiveRuns, RunningCount, RunAxis
  <2>8. QED
    BY <2>7, LiveOnFinite, FS_EmptySet
<1>2. QED
  BY <1>1, ControlOKInvariant, CountsLiveRunsInvariant, PTL
     DEF Spec, RefreshBeginsAlone

------------------------------------------------------------------------------
(* Finiteness: what a plan lists can be counted. *)

LEMMA SlotsFinite == IsFiniteSet(Slots)
<1> DEFINE Spans == {SlotsOf[w] : w \in 1..Windows}
<1>1. IsFiniteSet(1..Windows)
  BY WindowsAssumption, FS_Interval
<1>2. IsFiniteSet(Spans)
  <2> DEFINE f == [w \in 1..Windows |-> SlotsOf[w]]
  <2>1. f \in Surjection(1..Windows, Spans)
    BY DEF Surjection
  <2>2. QED
    BY <1>1, <2>1, FS_Surjection
<1>3. \A T \in Spans : IsFiniteSet(T)
  BY SlotsAssumption
<1>4. QED
  BY <1>2, <1>3, FS_UNION DEF Slots

LEMMA SlotCount ==
  ASSUME NEW S \in SUBSET Slots
  PROVE  IsFiniteSet(S) /\ Cardinality(S) \in Nat
  BY SlotsFinite, FS_Subset, FS_CardinalityType

LEMMA CoordinateCount ==
  ASSUME NEW gaps
  PROVE  Cardinality(Coordinates(gaps)) \in Nat
<1>1. IsFiniteSet(Persons \X Slots)
  BY SlotsFinite, PersonsAssumption, FS_Product
<1>2. Coordinates(gaps) \in SUBSET (Persons \X Slots)
  BY DEF Coordinates
<1>3. QED
  BY <1>1, <1>2, FS_Subset, FS_CardinalityType

LEMMA WindowSlots ==
  ASSUME NEW w \in 1..Windows
  PROVE  SlotsOf[w] \in SUBSET Slots
  BY DEF Slots

------------------------------------------------------------------------------
(* Updates of the records. *)

LEMMA TallyUpdate ==
  ASSUME NEW t \in Tally, NEW n \in Nat
  PROVE  /\ [t EXCEPT !.failed = @ + n] \in Tally
         /\ [t EXCEPT !.skipped = @ + n] \in Tally
  BY DEF Tally

LEMMA CountOutcomeType ==
  ASSUME NEW t \in Tally, NEW c \in Persons \X Slots,
         NEW outcome \in {"evaluated", "skipped", "incomplete", "failed"}
  PROVE  CountOutcome(t, outcome, c) \in Tally
<1>1. /\ [t EXCEPT !.evaluated = @ + 1] \in Tally
      /\ [t EXCEPT !.skipped = @ + 1] \in Tally
      /\ [t EXCEPT !.failed = @ + 1] \in Tally
  BY SMT DEF Tally
<1>2. [t EXCEPT !.skipped = @ + 1, !.incomplete = @ \union {c}] \in Tally
  <2>1. t.skipped + 1 \in Nat /\ t.incomplete \union {c} \in SUBSET (Persons \X Slots)
    BY DEF Tally
  <2>2. \A n \in Nat, I \in SUBSET (Persons \X Slots) :
            [t EXCEPT !.skipped = n, !.incomplete = I] \in Tally
    BY DEF Tally
  <2>3. QED
    BY <2>1, <2>2, Zenon
<1>3. QED
  BY <1>1, <1>2 DEF CountOutcome

LEMMA EmptyTallyType == EmptyTally \in Tally
  BY DEF EmptyTally, Tally

LEMMA CountUpdate ==
  ASSUME NEW c \in Count, NEW n \in Nat, NEW m \in Nat
  PROVE  /\ [c EXCEPT !.notRefreshed = @ + n] \in Count
         /\ [c EXCEPT !.refreshed = @ + 1, !.deleted = @ + m] \in Count
         /\ EmptyCount \in Count
         /\ [EmptyCount EXCEPT !.notRefreshed = n] \in Count
<1>1. [c EXCEPT !.notRefreshed = @ + n] \in Count
  BY SMT DEF Count
<1>2. [c EXCEPT !.refreshed = @ + 1, !.deleted = @ + m] \in Count
  <2>1. c.refreshed + 1 \in Nat /\ c.deleted + m \in Nat
    BY DEF Count
  <2>2. \A a, b \in Nat : [c EXCEPT !.refreshed = a, !.deleted = b] \in Count
    BY DEF Count
  <2>3. QED
    BY <2>1, <2>2, Zenon
<1>3. EmptyCount \in Count
  BY DEF Count, EmptyCount
<1>4. [EmptyCount EXCEPT !.notRefreshed = n] \in Count
  BY <1>3, SMT DEF Count
<1>5. QED
  BY <1>1, <1>2, <1>3, <1>4

LEMMA FreshType == Fresh \in Local /\ \A n \in Nat : [Fresh EXCEPT !.owed = n] \in Local
<1>1. 1 \in 1..Windows
  BY WindowsAssumption
<1>2. QED
  BY <1>1, EmptyTallyType, CountUpdate DEF Fresh, Local, Count, EmptyCount

LEMMA LocalFields ==
  ASSUME loc \in [Execs -> Local], NEW e \in Execs
  PROVE  /\ loc[e] \in Local
         /\ loc[e].active \in SUBSET Persons /\ loc[e].window \in 1..Windows
         /\ loc[e].gaps \in [Persons -> SUBSET Slots]
         /\ loc[e].person \in Persons \union {None}
         /\ loc[e].slots \in SUBSET Slots /\ loc[e].hadRow \in SUBSET Slots
         /\ loc[e].tally \in Tally /\ loc[e].count \in Count
         /\ loc[e].owed \in Nat /\ loc[e].identified \in BOOLEAN
  BY DEF Local

------------------------------------------------------------------------------
(* Every step keeps the types. *)

\* A call that works on a person knows which.
KnowsPerson(e) ==
    \/ ctl[e].kind = "refresh"
    \/ ctl[e].kind = "tick" /\ ctl[e].at \in {"person", "coordinate"}

DataOK ==
    /\ loc \in [Execs -> Local]
    /\ tickCurrent \in Execs \union {None}
    /\ tickStopping \in BOOLEAN
    /\ tally \in Tally
    /\ refreshCurrent \in Execs \union {None}
    /\ refreshStopping \in BOOLEAN
    /\ results \in [Persons -> Result]
    /\ \A e \in Execs : KnowsPerson(e) => loc[e].person \in Persons

\* What a step of e does to the locals.
LocStep(e) ==
    /\ loc' \in [Execs -> Local]
    /\ \A f \in Execs \ {e} : loc'[f] = loc[f]
    /\ KnowsPerson(e)' => loc'[e].person \in Persons

LEMMA LocSets ==
  ASSUME loc \in [Execs -> Local], NEW e \in Execs, NEW r \in Local,
         loc' = [loc EXCEPT ![e] = r], KnowsPerson(e)' => r.person \in Persons
  PROVE  LocStep(e)
  BY DEF LocStep

\* The invariant after a step of e, from what the step does.
LEMMA DataStep ==
  ASSUME DataOK, NEW e \in Execs, Only(e), LocStep(e),
         tickCurrent' \in Execs \union {None}, tickStopping' = tickStopping,
         tally' \in Tally,
         refreshCurrent' \in Execs \union {None}, refreshStopping' = refreshStopping,
         results' \in [Persons -> Result]
  PROVE  DataOK'
<1>1. \A f \in Execs \ {e} : KnowsPerson(f)' => loc'[f].person \in Persons
  BY DEF DataOK, Only, LocStep, KnowsPerson
<1>2. QED
  BY <1>1 DEF DataOK, LocStep

LEMMA FinishTickType ==
  ASSUME ControlOK, DataOK, NEW e \in Execs, NEW t \in Tally, NEW n \in Nat,
         ctl[e].kind = "tick", FinishTick(e, t, n)
  PROVE  LocStep(e) /\ tally' \in Tally
<1>1. ctl'[e].kind = "tick" /\ ctl'[e].at = "settled"
  BY GoesEffect DEF FinishTick, Waits, ControlOK
<1>2. QED
  BY <1>1, FreshType, LocSets DEF DataOK, FinishTick, KnowsPerson

LEMMA NextPersonType ==
  ASSUME ControlOK, DataOK, NEW e \in Execs, NEW g \in [Persons -> SUBSET Slots],
         NEW t \in Tally, NEW n \in Nat, ctl[e].kind = "tick",
         NextPerson(e, g, t, n)
  PROVE  LocStep(e) /\ tally' \in Tally
<1>1. ASSUME NEW p \in Persons, tally' = t,
             loc' = [loc EXCEPT ![e] =
                      [@ EXCEPT !.person = p, !.slots = g[p], !.owed = n,
                                !.gaps = [g EXCEPT ![p] = {}]]]
      PROVE  LocStep(e) /\ tally' \in Tally
  <2> DEFINE r == [loc[e] EXCEPT !.person = p, !.slots = g[p], !.owed = n,
                                 !.gaps = [g EXCEPT ![p] = {}]]
  <2>1. g[p] \in SUBSET Slots /\ [g EXCEPT ![p] = {}] \in [Persons -> SUBSET Slots]
    OBVIOUS
  <2>2. loc[e] \in Local
    BY DEF DataOK
  <2>3. r \in Local /\ r.person = p
    BY <2>1, <2>2 DEF Local
  <2>4. loc' = [loc EXCEPT ![e] = r]
    BY <1>1
  <2> HIDE DEF r
  <2>5. LocStep(e)
    BY <2>3, <2>4, LocSets DEF DataOK
  <2>6. QED
    BY <1>1, <2>5
<1>2. CASE FinishTick(e, t, n)
  BY <1>2, FinishTickType
<1>3. QED
  BY <1>1, <1>2 DEF NextPerson

LEMMA PlanWindowType ==
  ASSUME ControlOK, DataOK, NEW e \in Execs, NEW g \in [Persons -> SUBSET Slots],
         NEW t \in Tally, NEW n \in Nat, TickAt(e, "planning"),
         PlanWindow(e, g, t, n)
  PROVE  LocStep(e) /\ tally' \in Tally
<1>1. CASE /\ loc[e].window < Windows /\ tally' = t /\ ctl' = ctl
           /\ loc' = [loc EXCEPT ![e].window = @ + 1, ![e].gaps = g, ![e].owed = n]
  <2>1. loc[e] \in Local /\ loc[e].window \in 1..Windows
    BY LocalFields DEF DataOK
  <2>2. loc[e].window + 1 \in 1..Windows
    BY <1>1, <2>1, WindowsAssumption
  <2>3. PICK w \in 1..Windows : w = loc[e].window + 1
    BY <2>2
  <2> DEFINE r == [loc[e] EXCEPT !.window = w, !.gaps = g, !.owed = n]
  <2>4. r \in Local
    BY <2>1 DEF Local
  <2>5. loc' = [loc EXCEPT ![e] = r]
    BY <1>1, <2>3 DEF DataOK
  <2>6. ~KnowsPerson(e)'
    BY <1>1 DEF KnowsPerson, TickAt
  <2> HIDE DEF r
  <2>7. LocStep(e)
    BY <2>4, <2>5, <2>6, LocSets DEF DataOK
  <2>8. QED
    BY <1>1, <2>7
<1>2. QED
  BY <1>1, NextPersonType DEF PlanWindow, TickAt

LEMMA AbortTickType ==
  ASSUME ControlOK, DataOK, NEW e \in Execs, ctl[e].kind = "tick", AbortTick(e)
  PROVE  LocStep(e) /\ tally' \in Tally
<1>1. 1 \in Nat /\ tally \in Tally /\ loc[e].owed \in Nat
  BY LocalFields DEF DataOK
<1>2. [tally EXCEPT !.failed = @ + 1] \in Tally
  BY <1>1, TallyUpdate
<1>3. loc[e].owed + 1 \in Nat
  BY <1>1
<1>4. QED
  BY <1>2, <1>3, FinishTickType DEF AbortTick

\* A step that leaves the locals alone.
LEMMA SameLocals ==
  ASSUME DataOK, NEW e \in Execs, loc' = loc, KnowsPerson(e)' => KnowsPerson(e)
  PROVE  LocStep(e)
  BY DEF DataOK, LocStep

LEMMA TickType ==
  ASSUME ControlOK, DataOK, NEW e \in Execs, TickStep(e)
  PROVE  LocStep(e) /\ tally' \in Tally
<1>0. /\ loc[e] \in Local /\ loc[e].gaps \in [Persons -> SUBSET Slots]
      /\ loc[e].owed \in Nat /\ loc[e].slots \in SUBSET Slots
      /\ loc[e].active \in SUBSET Persons /\ loc[e].window \in 1..Windows
      /\ tally \in Tally /\ tally.failed \in Nat
      /\ loc \in [Execs -> Local] /\ ctl \in [Execs -> CtlEntry]
  BY LocalFields DEF DataOK, ControlOK, Tally
<1>1. CASE TickResolve(e)
  <2>1. ctl[e].kind = "tick"
    BY <1>1 DEF TickResolve, TickAt
  <2>2. CASE Goes(e, "listing") /\ UNCHANGED <<loc, tally>>
    <3>1. ~KnowsPerson(e)'
      BY <1>0, <2>1, <2>2, GoesEffect DEF KnowsPerson, Waits
    <3>2. QED
      BY <1>0, <2>2, <3>1, SameLocals
  <2>3. QED
    BY <1>1, <2>1, <2>2, AbortTickType DEF TickResolve
<1>2. CASE TickList(e)
  <2>1. ctl[e].kind = "tick"
    BY <1>2 DEF TickList, TickAt
  <2>2. ASSUME NEW A \in SUBSET Persons, Goes(e, "planning"),
               loc' = [loc EXCEPT ![e].active = A], tally' = tally
        PROVE  LocStep(e) /\ tally' \in Tally
    <3>1. [loc[e] EXCEPT !.active = A] \in Local
      BY <1>0 DEF Local
    <3>2. ~KnowsPerson(e)'
      BY <1>0, <2>1, <2>2, GoesEffect DEF KnowsPerson, Waits
    <3>3. QED
      BY <1>0, <2>2, <3>1, <3>2, LocSets
  <2>3. FinishTick(e, tally, loc[e].owed) => LocStep(e) /\ tally' \in Tally
    BY <1>0, <2>1, FinishTickType
  <2>4. QED
    BY <1>2, <2>1, <2>2, <2>3, AbortTickType DEF TickList
<1>3. CASE TickPlan(e)
  <2>0. TickAt(e, "planning")
    BY <1>3 DEF TickPlan
  <2>1. ASSUME NEW found \in [loc[e].active -> SUBSET SlotsOf[loc[e].window]]
        PROVE  [p \in Persons |-> IF p \in loc[e].active
                                  THEN loc[e].gaps[p] \union found[p] ELSE {}]
                  \in [Persons -> SUBSET Slots]
    BY <1>0, WindowSlots
  <2>2. [tally EXCEPT !.failed = @ + 1] \in Tally /\ loc[e].owed + 1 \in Nat
    <3>1. 1 \in Nat
      OBVIOUS
    <3>2. [tally EXCEPT !.failed = @ + 1] \in Tally
      BY <1>0, <3>1, TallyUpdate
    <3>3. loc[e].owed + 1 \in Nat
      BY <1>0
    <3>4. QED
      BY <3>2, <3>3
  <2>3. \A g \in [Persons -> SUBSET Slots] :
          PlanWindow(e, g, tally, Cardinality(Coordinates(g)) + tally.failed)
            => LocStep(e) /\ tally' \in Tally
    BY <1>0, <2>0, CoordinateCount, PlanWindowType
  <2>4. CASE PlanWindow(e, loc[e].gaps, [tally EXCEPT !.failed = @ + 1],
                        loc[e].owed + 1)
    BY <1>0, <2>0, <2>2, <2>4, PlanWindowType
  <2>5. QED
    BY <1>3, <2>1, <2>3, <2>4, Zenon DEF TickPlan
<1>4. CASE TickPerson(e)
  <2>0. TickAt(e, "person")
    BY <1>4 DEF TickPerson
  <2>1. Cardinality(loc[e].slots) \in Nat
    BY <1>0, SlotCount
  <2>2. \A t \in Tally : NextPerson(e, loc[e].gaps, t, loc[e].owed)
                            => LocStep(e) /\ tally' \in Tally
    BY <1>0, <2>0, NextPersonType DEF TickAt
  <2>3. FinishTick(e, tally, loc[e].owed) => LocStep(e) /\ tally' \in Tally
    BY <1>0, <2>0, FinishTickType DEF TickAt
  <2>4. UNCHANGED <<loc, tally>> => LocStep(e) /\ tally' \in Tally
    BY <1>0, <2>0, SameLocals DEF TickAt, KnowsPerson
  <2>5. QED
    BY <1>0, <1>4, <2>1, <2>2, <2>3, <2>4, TallyUpdate DEF TickPerson
<1>5. CASE TickCoordinate(e)
  <2>0. TickAt(e, "coordinate")
    BY <1>5 DEF TickCoordinate
  <2>1. PICK s \in loc[e].slots, outcome \in {"evaluated", "incomplete", "failed"} :
          LET t == CountOutcome(tally, outcome, <<loc[e].person, s>>) IN
            \/ NextPerson(e, loc[e].gaps, t, loc[e].owed)
            \/ FinishTick(e, t, loc[e].owed)
            \/ /\ tally' = t /\ ctl' = ctl
               /\ loc' = [loc EXCEPT ![e].slots = loc[e].slots \ {s}]
    BY <1>5 DEF TickCoordinate
  <2>2. loc[e].person \in Persons /\ s \in Slots
    BY <1>0, <2>0 DEF DataOK, KnowsPerson, TickAt
  <2>3. PICK t \in Tally : t = CountOutcome(tally, outcome, <<loc[e].person, s>>)
    BY <1>0, <2>2, CountOutcomeType
  <2>4. CASE NextPerson(e, loc[e].gaps, t, loc[e].owed)
    BY <1>0, <2>0, <2>4, NextPersonType DEF TickAt
  <2>5. CASE FinishTick(e, t, loc[e].owed)
    BY <1>0, <2>0, <2>5, FinishTickType DEF TickAt
  <2>6. CASE tally' = t /\ loc' = [loc EXCEPT ![e].slots = loc[e].slots \ {s}]
    <3> DEFINE r == [loc[e] EXCEPT !.slots = loc[e].slots \ {s}]
    <3>1. r \in Local /\ r.person = loc[e].person
      BY <1>0 DEF Local
    <3>2. loc' = [loc EXCEPT ![e] = r]
      BY <2>6
    <3> HIDE DEF r
    <3>3. QED
      BY <1>0, <2>2, <2>6, <3>1, <3>2, LocSets
  <2>7. QED
    BY <2>1, <2>3, <2>4, <2>5, <2>6
<1>6. CASE ClearTick(e)
  <2>1. ctl'[e] = Idle /\ loc' = [loc EXCEPT ![e] = Fresh] /\ tally' = tally
    BY <1>0, <1>6, IdleEntry DEF ClearTick, Frees
  <2>2. ~KnowsPerson(e)'
    BY <2>1 DEF KnowsPerson, Idle
  <2>3. QED
    BY <1>0, <2>1, <2>2, FreshType, LocSets
<1>7. QED
  BY <1>1, <1>2, <1>3, <1>4, <1>5, <1>6 DEF TickStep

LEMMA FinishRefreshType ==
  ASSUME ControlOK, DataOK, NEW e \in Execs, NEW c \in Count, NEW a \in BOOLEAN,
         NEW n \in Nat, ctl[e].kind = "refresh", FinishRefresh(e, c, a, n)
  PROVE  LocStep(e) /\ results' \in [Persons -> Result]
<1>1. ctl'[e].kind = "refresh"
  BY GoesEffect DEF FinishRefresh, Waits, ControlOK
<1>2. loc[e] \in Local /\ loc[e].person \in Persons
  BY DEF DataOK, KnowsPerson
<1> DEFINE r == [loc[e] EXCEPT !.owed = n, !.slots = {}, !.hadRow = {}]
<1>3. r \in Local /\ r.person = loc[e].person
  BY <1>2 DEF Local
<1>4. loc' = [loc EXCEPT ![e] = r]
  BY DEF FinishRefresh, DataOK
<1>5. [finished |-> TRUE, count |-> c, aborted |-> a] \in Result
  BY DEF Result
<1>6. results' \in [Persons -> Result]
  BY <1>5 DEF FinishRefresh, DataOK
<1> HIDE DEF r
<1>7. LocStep(e)
  BY <1>2, <1>3, <1>4, LocSets DEF DataOK
<1>8. QED
  BY <1>6, <1>7

LEMMA NextRefreshType ==
  ASSUME ControlOK, DataOK, NEW e \in Execs, NEW S \in SUBSET Slots,
         NEW H \in SUBSET Slots, NEW c \in Count, NEW n \in Nat,
         ctl[e].kind = "refresh", NextRefresh(e, S, H, c, n)
  PROVE  LocStep(e) /\ results' \in [Persons -> Result]
<1>1. CASE loc' = [loc EXCEPT ![e] = [@ EXCEPT !.slots = S, !.owed = n,
                                        !.hadRow = H, !.count = c]]
           /\ results' = results
  <2>1. loc[e] \in Local /\ loc[e].person \in Persons
    BY DEF DataOK, KnowsPerson
  <2> DEFINE r == [loc[e] EXCEPT !.slots = S, !.owed = n, !.hadRow = H, !.count = c]
  <2>2. r \in Local /\ r.person = loc[e].person
    BY <2>1 DEF Local
  <2>3. loc' = [loc EXCEPT ![e] = r]
    BY <1>1
  <2> HIDE DEF r
  <2>4. LocStep(e)
    BY <2>1, <2>2, <2>3, LocSets DEF DataOK
  <2>5. QED
    BY <1>1, <2>4 DEF DataOK
<1>2. FinishRefresh(e, c, FALSE, n) => LocStep(e) /\ results' \in [Persons -> Result]
  BY FinishRefreshType
<1>3. Cardinality(S) \in Nat
  BY SlotCount
<1>4. [c EXCEPT !.notRefreshed = @ + Cardinality(S)] \in Count
  BY <1>3, CountUpdate
<1>5. FinishRefresh(e, [c EXCEPT !.notRefreshed = @ + Cardinality(S)], TRUE, n)
        => LocStep(e) /\ results' \in [Persons -> Result]
  BY <1>4, FinishRefreshType
<1>6. QED
  BY <1>1, <1>2, <1>5 DEF NextRefresh

LEMMA RefreshType ==
  ASSUME ControlOK, DataOK, NEW e \in Execs, RefreshStep(e)
  PROVE  LocStep(e) /\ results' \in [Persons -> Result]
<1>0. /\ loc[e] \in Local /\ loc[e].owed \in Nat /\ loc[e].count \in Count
      /\ loc[e].slots \in SUBSET Slots /\ loc[e].hadRow \in SUBSET Slots
      /\ loc \in [Execs -> Local] /\ ctl \in [Execs -> CtlEntry]
      /\ results \in [Persons -> Result]
      /\ ctl[e].kind = "refresh" => loc[e].person \in Persons
      /\ EmptyCount \in Count
  BY LocalFields DEF DataOK, ControlOK, KnowsPerson, Count, EmptyCount
<1>1. ASSUME Frees(e), results' = results
      PROVE  LocStep(e) /\ results' \in [Persons -> Result]
  <2>1. ctl'[e] = Idle /\ loc' = [loc EXCEPT ![e] = Fresh]
    BY <1>0, <1>1, IdleEntry DEF Frees
  <2>2. ~KnowsPerson(e)'
    BY <2>1 DEF KnowsPerson, Idle
  <2>3. QED
    BY <1>0, <1>1, <2>1, <2>2, FreshType, LocSets
<1>2. CASE RejectRefresh(e) \/ ClearRefresh(e)
  BY <1>1, <1>2 DEF RejectRefresh, ClearRefresh, refreshVars
<1>3. CASE AdmitRefresh(e)
  <2>1. loc[e].person \in Persons
    BY <1>0, <1>3 DEF AdmitRefresh, RefreshAt
  <2>2. PICK b \in BOOLEAN : loc' = [loc EXCEPT ![e].identified = b]
    BY <1>3 DEF AdmitRefresh
  <2> DEFINE r == [loc[e] EXCEPT !.identified = b]
  <2>3. r \in Local /\ r.person = loc[e].person
    BY <1>0 DEF Local
  <2>4. loc' = [loc EXCEPT ![e] = r]
    BY <1>0, <2>2
  <2>5. results' \in [Persons -> Result]
    BY <1>0, <1>3 DEF AdmitRefresh, Result
  <2> HIDE DEF r
  <2>6. QED
    BY <1>0, <2>1, <2>3, <2>4, <2>5, LocSets
<1>4. CASE RefreshResolve(e)
  <2>1. ctl[e].kind = "refresh"
    BY <1>4 DEF RefreshResolve, RefreshAt
  <2>2. CASE FinishRefresh(e, EmptyCount, TRUE, 0)
    BY <1>0, <2>1, <2>2, FinishRefreshType
  <2>3. CASE UNCHANGED <<results, loc>>
    BY <1>0, <2>1, <2>3, SameLocals DEF KnowsPerson
  <2>4. QED
    BY <1>4, <2>2, <2>3 DEF RefreshResolve
<1>5. CASE RefreshPlan(e)
  <2>1. ctl[e].kind = "refresh"
    BY <1>5 DEF RefreshPlan, RefreshAt
  <2>2. CASE FinishRefresh(e, EmptyCount, TRUE, 0)
    BY <1>0, <2>1, <2>2, FinishRefreshType
  <2>3. ASSUME NEW S \in SUBSET Slots, NEW m \in 0..MaxOpen, NEW H \in SUBSET S
        PROVE  /\ [EmptyCount EXCEPT !.notRefreshed = m] \in Count
               /\ [[EmptyCount EXCEPT !.notRefreshed = m]
                      EXCEPT !.notRefreshed = @ + Cardinality(S)] \in Count
               /\ m + Cardinality(S) \in Nat /\ H \in SUBSET Slots
    <3>1. m \in Nat /\ Cardinality(S) \in Nat
      BY BoundsAssumption, SlotCount
    <3>2. [EmptyCount EXCEPT !.notRefreshed = m] \in Count
      BY <1>0, <3>1, CountUpdate
    <3>3. [[EmptyCount EXCEPT !.notRefreshed = m]
              EXCEPT !.notRefreshed = @ + Cardinality(S)] \in Count
      BY <3>1, <3>2, CountUpdate
    <3>4. QED
      BY <3>1, <3>2, <3>3
  <2>4. ASSUME NEW S \in SUBSET Slots, NEW m \in 0..MaxOpen, NEW H \in SUBSET S,
               LET n == Cardinality(S)
                   kept == [EmptyCount EXCEPT !.notRefreshed = m]
               IN  \/ FinishRefresh(e, [kept EXCEPT !.notRefreshed = @ + n],
                                    FALSE, m + n)
                   \/ NextRefresh(e, S, H, kept, m + n)
        PROVE  LocStep(e) /\ results' \in [Persons -> Result]
    BY <2>1, <2>3, <2>4, FinishRefreshType, NextRefreshType
  <2>5. QED
    BY <1>5, <2>2, <2>4 DEF RefreshPlan
<1>6. CASE RefreshCoordinate(e)
  <2>1. ctl[e].kind = "refresh"
    BY <1>6 DEF RefreshCoordinate, RefreshAt
  <2> DEFINE Counted(s, c) ==
              \/ c = [loc[e].count EXCEPT !.refreshed = @ + 1,
                        !.deleted = @ + (IF s \in loc[e].hadRow THEN 1 ELSE 0)]
              \/ c = [loc[e].count EXCEPT !.notRefreshed = @ + 1]
  <2>1a. PICK s \in loc[e].slots : \E c :
          /\ Counted(s, c)
          /\ NextRefresh(e, loc[e].slots \ {s}, loc[e].hadRow, c, loc[e].owed)
    BY <1>6 DEF RefreshCoordinate
  <2>2. PICK c :
          /\ Counted(s, c)
          /\ NextRefresh(e, loc[e].slots \ {s}, loc[e].hadRow, c, loc[e].owed)
    BY <2>1a
  <2>3. (IF s \in loc[e].hadRow THEN 1 ELSE 0) \in Nat /\ 1 \in Nat
    OBVIOUS
  <2>4. c \in Count
    BY <1>0, <2>2, <2>3, CountUpdate
  <2>5. QED
    BY <1>0, <2>1, <2>2, <2>4, NextRefreshType
<1>7. QED
  BY <1>2, <1>3, <1>4, <1>5, <1>6 DEF RefreshStep

LEMMA RequestType ==
  ASSUME ControlOK, DataOK, NEW e \in Execs, RequestStep(e)
  PROVE  LocStep(e)
<1>0. /\ loc[e] \in Local /\ loc[e].gaps \in [Persons -> SUBSET Slots]
      /\ loc[e].tally \in Tally
      /\ loc \in [Execs -> Local] /\ ctl \in [Execs -> CtlEntry]
  BY LocalFields DEF DataOK, ControlOK
<1>1. ~KnowsPerson(e)'
  BY RequestControl DEF KnowsPerson
<1>2. ASSUME Frees(e)
      PROVE  LocStep(e)
  BY <1>0, <1>1, <1>2, FreshType, LocSets DEF Frees
<1>3. CASE EndRequest(e)
  BY <1>2, <1>3 DEF EndRequest
<1>4. CASE FillRunResolve(e)
  <2>1. ASSUME NEW g \in [Persons -> SUBSET Slots],
               loc' = [loc EXCEPT ![e].gaps = g,
                                  ![e].owed = Cardinality(Coordinates(g))]
        PROVE  LocStep(e)
    <3>1. Cardinality(Coordinates(g)) \in Nat
      BY CoordinateCount
    <3>2. [loc[e] EXCEPT !.gaps = g, !.owed = Cardinality(Coordinates(g))] \in Local
      BY <1>0, <3>1 DEF Local
    <3>3. QED
      BY <1>0, <1>1, <2>1, <3>2, LocSets
  <2>2. QED
    BY <1>2, <1>4, <2>1 DEF FillRunResolve, FinishFillRun
<1>5. CASE FillRunCoordinate(e)
  <2>1. PICK c \in Coordinates(loc[e].gaps),
             outcome \in {"evaluated", "skipped", "incomplete", "failed"} :
          LET t == CountOutcome(loc[e].tally, outcome, c)
              gaps == [loc[e].gaps EXCEPT ![c[1]] = @ \ {c[2]}]
          IN  Frees(e) \/ loc' = [loc EXCEPT ![e].gaps = gaps, ![e].tally = t]
    BY <1>5 DEF FillRunCoordinate, FinishFillRun
  <2>2. c \in Persons \X Slots
    BY DEF Coordinates
  <2>3. PICK t \in Tally : t = CountOutcome(loc[e].tally, outcome, c)
    BY <1>0, <2>2, CountOutcomeType
  <2>4. PICK g \in [Persons -> SUBSET Slots] :
          g = [loc[e].gaps EXCEPT ![c[1]] = @ \ {c[2]}]
    BY <1>0, <2>2
  <2>5. CASE loc' = [loc EXCEPT ![e].gaps = g, ![e].tally = t]
    <3>1. [loc[e] EXCEPT !.gaps = g, !.tally = t] \in Local
      BY <1>0 DEF Local
    <3>2. QED
      BY <1>0, <1>1, <2>5, <3>1, LocSets
  <2>6. QED
    BY <1>2, <2>1, <2>3, <2>4, <2>5
<1>6. QED
  BY <1>3, <1>4, <1>5 DEF RequestStep

LEMMA ArriveType ==
  ASSUME ControlOK, DataOK, NEW e \in Execs, Arrive(e)
  PROVE  LocStep(e) /\ tally' \in Tally
<1>0. /\ loc[e] \in Local /\ tally \in Tally
      /\ loc \in [Execs -> Local] /\ ctl \in [Execs -> CtlEntry]
  BY DEF DataOK, ControlOK
<1>1. ASSUME NEW p \in Persons, RequestRefresh(e, p)
      PROVE  LocStep(e) /\ tally' \in Tally
  <2> DEFINE r == [loc[e] EXCEPT !.person = p]
  <2>1. r \in Local /\ r.person = p
    BY <1>0 DEF Local
  <2>2. loc' = [loc EXCEPT ![e] = r] /\ tally' = tally
    BY <1>1 DEF RequestRefresh, tickVars
  <2> HIDE DEF r
  <2>3. QED
    BY <1>0, <2>1, <2>2, LocSets
<1>2. CASE StartTick(e)
  <2>1. ~KnowsPerson(e)'
    BY <1>0, <1>2 DEF StartTick, KnowsPerson
  <2>2. QED
    BY <1>2, <2>1, SameLocals, EmptyTallyType DEF StartTick
<1>3. ASSUME NEW kind \in {"evaluate", "collect"}, StartRequest(e, kind)
      PROVE  LocStep(e) /\ tally' \in Tally
  <2>1. ~KnowsPerson(e)'
    BY <1>0, <1>3 DEF StartRequest, KnowsPerson
  <2>2. QED
    BY <1>0, <1>3, <2>1, SameLocals DEF StartRequest, Elsewhere, tickVars
<1>4. CASE StartFillRun(e)
  <2>1. ~KnowsPerson(e)'
    BY <1>0, <1>4 DEF StartFillRun, KnowsPerson
  <2>2. QED
    BY <1>0, <1>4, <2>1, SameLocals DEF StartFillRun, Elsewhere, tickVars
<1>5. QED
  BY <1>1, <1>2, <1>3, <1>4 DEF Arrive

\* What every step of a call leaves alone or keeps in type.
LEMMA FieldTypes ==
  ASSUME DataOK, NEW e \in Execs, Arrive(e) \/ Step(e)
  PROVE  /\ tickStopping' = tickStopping /\ refreshStopping' = refreshStopping
         /\ ~TickStep(e) /\ ~Arrive(e) => tally' = tally
         /\ ~RefreshStep(e) => results' = results
<1>1. CASE Arrive(e)
  BY <1>1 DEF Arrive, StartTick, RequestRefresh, StartRequest, StartFillRun,
              Elsewhere, tickVars, refreshVars
<1>2. CASE TickStep(e)
  BY <1>2 DEF TickStep, TickResolve, TickList, TickPlan, TickPerson,
              TickCoordinate, ClearTick, TickUnchanged, refreshVars
<1>3. CASE RefreshStep(e)
  BY <1>3 DEF RefreshStep, RejectRefresh, AdmitRefresh, RefreshResolve,
              RefreshPlan, RefreshCoordinate, ClearRefresh, Untouched, tickVars,
              refreshVars
<1>4. CASE RequestStep(e)
  BY <1>4 DEF RequestStep, EndRequest, FillRunResolve, FillRunCoordinate,
              Elsewhere, tickVars, refreshVars
<1>5. QED
  BY <1>1, <1>2, <1>3, <1>4 DEF Step

LEMMA DataOKStep ==
  ASSUME ControlOK, DataOK, [Next]_vars
  PROVE  DataOK'
<1>1. CASE UNCHANGED vars
  BY <1>1 DEF vars, tickVars, refreshVars, DataOK, KnowsPerson
<1>2. CASE StopTicks \/ StopRefresh \/ AdvanceClock
  BY <1>2 DEF StopTicks, StopRefresh, AdvanceClock, tickVars, refreshVars,
              DataOK, KnowsPerson
<1>3. ASSUME NEW e \in Execs, Arrive(e) \/ Step(e)
      PROVE  DataOK'
  <2>1. OwnerStep(e)
    BY <1>3, TickOwner, RefreshOwner, OtherOwner DEF Step
  <2>2. /\ Only(e) /\ tickCurrent' \in Execs \union {None}
        /\ refreshCurrent' \in Execs \union {None}
    BY <2>1 DEF OwnerStep, DataOK
  <2>3. LocStep(e)
    BY <1>3, ArriveType, TickType, RefreshType, RequestType DEF Step
  <2>4. tally' \in Tally
    BY <1>3, FieldTypes, ArriveType, TickType DEF DataOK
  <2>5. results' \in [Persons -> Result]
    BY <1>3, FieldTypes, RefreshType DEF DataOK
  <2>6. QED
    BY <1>3, <2>2, <2>3, <2>4, <2>5, FieldTypes, DataStep
<1>4. QED
  BY <1>1, <1>2, <1>3 DEF Next

LEMMA DataOKInvariant == Spec => []DataOK
<1>1. ASSUME Init PROVE DataOK
  <2>1. loc \in [Execs -> Local] /\ tally \in Tally
    BY <1>1, FreshType, EmptyTallyType DEF Init
  <2>2. results \in [Persons -> Result]
    BY <1>1 DEF Init, Result
  <2>3. \A e \in Execs : ~KnowsPerson(e)
    BY <1>1 DEF Init, Idle, KnowsPerson
  <2>4. QED
    BY <1>1, <2>1, <2>2, <2>3 DEF Init, DataOK
<1>2. QED
  BY <1>1, DataOKStep, ControlOKInvariant, PTL DEF Spec

(***************************************************************************)
(* Every field and every local variable keeps its type, whatever the       *)
(* order in which calls start, settle and fail.                            *)
(***************************************************************************)
THEOREM TypeOKInvariant == Spec => []TypeOK
<1>1. ControlOK /\ DataOK => TypeOK
  BY DEF ControlOK, DataOK, TypeOK, CtlEntry
<1>2. QED
  BY <1>1, ControlOKInvariant, DataOKInvariant, PTL

------------------------------------------------------------------------------
(* Results of the refresh. *)

\* What a step of e does to the results and to the refreshes in flight.
ResultStep(e) ==
    \/ /\ results' = results
       /\ ctl'[e].kind = "refresh" /\ Live(e)'
            => /\ ctl[e].kind = "refresh" /\ Live(e)
               /\ loc'[e].person = loc[e].person
    \/ /\ AdmitRefresh(e)
       /\ loc'[e].person = loc[e].person
    \/ /\ IsRefresh(e) /\ ~Live(e)'
       /\ \E r : results' = [results EXCEPT ![loc[e].person] = r]

LEMMA FinishRefreshResult ==
  ASSUME ControlOK, NEW e \in Execs, NEW c, NEW a, NEW n,
         ctl[e].kind = "refresh", Live(e), FinishRefresh(e, c, a, n)
  PROVE  ResultStep(e)
<1>1. IsRefresh(e)
  BY DEF IsRefresh, Live
<1>2. ctl'[e].at = "settled"
  BY GoesEffect DEF FinishRefresh, Waits, ControlOK
<1>3. QED
  BY <1>1, <1>2 DEF ResultStep, FinishRefresh, Live

LEMMA NextRefreshResult ==
  ASSUME ControlOK, DataOK, NEW e \in Execs, NEW S, NEW H, NEW c, NEW n,
         ctl[e].kind = "refresh", Live(e), NextRefresh(e, S, H, c, n)
  PROVE  ResultStep(e)
<1>1. CASE loc' = [loc EXCEPT ![e] = [@ EXCEPT !.slots = S, !.owed = n,
                                        !.hadRow = H, !.count = c]]
           /\ results' = results
  <2>1. loc[e] \in Local /\ loc \in [Execs -> Local]
    BY DEF DataOK
  <2>2. loc'[e] = [loc[e] EXCEPT !.slots = S, !.owed = n, !.hadRow = H, !.count = c]
    BY <1>1, <2>1
  <2>3. loc'[e].person = loc[e].person
    BY <2>1, <2>2 DEF Local
  <2>4. QED
    BY <1>1, <2>3 DEF ResultStep
<1>2. QED
  BY <1>1, FinishRefreshResult DEF NextRefresh

LEMMA ResultSteps ==
  ASSUME ControlOK, DataOK, NEW e \in Execs, Arrive(e) \/ Step(e)
  PROVE  ResultStep(e)
<1>1. CASE TickStep(e) \/ RequestStep(e)
  <2>1. ctl'[e].kind # "refresh"
    BY <1>1, TickControl, RequestControl
  <2>2. results' = results
    BY <1>1 DEF RequestStep, EndRequest, FillRunResolve, FillRunCoordinate,
                Elsewhere, TickStep, TickResolve, TickList, TickPlan, TickPerson,
                TickCoordinate, ClearTick, TickUnchanged, refreshVars
  <2>3. QED
    BY <2>1, <2>2 DEF ResultStep
<1>2. CASE Arrive(e)
  <2>1. ctl'[e].kind = "refresh" => ctl'[e].at = "lookup"
    BY <1>2 DEF Arrive, StartTick, RequestRefresh, StartRequest, StartFillRun,
                ControlOK
  <2>2. results' = results
    BY <1>2 DEF Arrive, StartTick, RequestRefresh, StartRequest, StartFillRun,
                Elsewhere, refreshVars
  <2>3. QED
    BY <2>1, <2>2 DEF ResultStep, Live
<1>3. CASE RejectRefresh(e) \/ ClearRefresh(e)
  <2>1. ctl'[e] = Idle /\ results' = results
    BY <1>3, SetsEffect, IdleEntry
       DEF RejectRefresh, ClearRefresh, Frees, ControlOK, refreshVars
  <2>2. QED
    BY <2>1 DEF ResultStep, Idle
<1>4. CASE AdmitRefresh(e)
  <2>1. PICK b \in BOOLEAN : loc' = [loc EXCEPT ![e].identified = b]
    BY <1>4 DEF AdmitRefresh
  <2>2. loc[e] \in Local /\ loc \in [Execs -> Local]
    BY DEF DataOK
  <2>3. loc'[e] = [loc[e] EXCEPT !.identified = b]
    BY <2>1, <2>2
  <2>4. loc'[e].person = loc[e].person
    BY <2>2, <2>3 DEF Local
  <2>5. QED
    BY <1>4, <2>4 DEF ResultStep
<1>5. CASE RefreshResolve(e)
  <2>1. ctl[e].kind = "refresh" /\ Live(e)
    BY <1>5 DEF RefreshResolve, RefreshAt, Live
  <2>2. CASE UNCHANGED <<results, loc>>
    BY <2>1, <2>2 DEF ResultStep
  <2>3. QED
    BY <1>5, <2>1, <2>2, FinishRefreshResult DEF RefreshResolve
<1>6. CASE RefreshPlan(e)
  <2>1. ctl[e].kind = "refresh" /\ Live(e)
    BY <1>6 DEF RefreshPlan, RefreshAt, Live
  <2>2. QED
    BY <1>6, <2>1, FinishRefreshResult, NextRefreshResult DEF RefreshPlan
<1>7. CASE RefreshCoordinate(e)
  <2>1. ctl[e].kind = "refresh" /\ Live(e)
    BY <1>7 DEF RefreshCoordinate, RefreshAt, Live
  <2>2. QED
    BY <1>7, <2>1, NextRefreshResult DEF RefreshCoordinate
<1>8. QED
  BY <1>1, <1>2, <1>3, <1>4, <1>5, <1>6, <1>7 DEF Step, RefreshStep

(***************************************************************************)
(* While a refresh runs, the result stored for its person is the blank one *)
(* its admission wrote: no other refresh can write it, because only one is *)
(* in flight (OneRunPerRunner).                                            *)
(***************************************************************************)
THEOREM NoStaleRefreshResultInvariant == Spec => []NoStaleRefreshResult
<1>1. Init => NoStaleRefreshResult
  BY DEF Init, NoStaleRefreshResult, Idle
<1>2. ControlOK /\ DataOK /\ OneRunPerRunner /\ NoStaleRefreshResult /\ [Next]_vars
        => NoStaleRefreshResult'
  <2> SUFFICES ASSUME ControlOK, DataOK, OneRunPerRunner, NoStaleRefreshResult,
                      [Next]_vars, NEW f \in Execs,
                      ctl'[f].kind = "refresh", Live(f)'
               PROVE  results'[loc'[f].person] = NoResult
    BY DEF NoStaleRefreshResult
  <2>1. \/ UNCHANGED <<ctl, loc, results>>
        \/ \E e \in Execs : Arrive(e) \/ Step(e)
    BY DEF Next, StopTicks, StopRefresh, AdvanceClock, vars, tickVars, refreshVars
  <2>2. CASE UNCHANGED <<ctl, loc, results>>
    BY <2>2 DEF NoStaleRefreshResult, Live
  <2>3. ASSUME NEW e \in Execs, Arrive(e) \/ Step(e)
        PROVE  results'[loc'[f].person] = NoResult
    <3>1. ResultStep(e) /\ Only(e) /\ LocStep(e)
      BY <2>3, ResultSteps, TickOwner, RefreshOwner, OtherOwner, ArriveType,
         TickType, RefreshType, RequestType DEF Step, OwnerStep
    <3>2. CASE f # e
      <4>1. ctl'[f] = ctl[f] /\ loc'[f] = loc[f] /\ IsRefresh(f)
        BY <3>1, <3>2 DEF Only, LocStep, IsRefresh, Live
      <4>2. refreshCurrent = f /\ results[loc[f].person] = NoResult
        BY <4>1 DEF OneRunPerRunner, NoStaleRefreshResult, IsRefresh, Live
      <4>3. ~AdmitRefresh(e)
        BY <4>2, ExecsAssumption DEF AdmitRefresh, MayRefresh
      <4>4. ~IsRefresh(e)
        BY <3>2, <4>2 DEF OneRunPerRunner, IsRefresh
      <4>5. QED
        BY <3>1, <4>1, <4>2, <4>3, <4>4 DEF ResultStep
    <3>3. CASE f = e
      <4>1. CASE AdmitRefresh(e) /\ loc'[e].person = loc[e].person
        <5>1. loc[e].person \in Persons
          BY <4>1 DEF AdmitRefresh, RefreshAt, DataOK, KnowsPerson
        <5>2. QED
          BY <3>3, <4>1, <5>1 DEF AdmitRefresh, DataOK
      <4>2. QED
        BY <3>1, <3>3, <4>1 DEF ResultStep, NoStaleRefreshResult
    <3>4. QED
      BY <3>2, <3>3
  <2>4. QED
    BY <2>1, <2>2, <2>3
<1>3. QED
  BY <1>1, <1>2, ControlOKInvariant, DataOKInvariant, OneRunPerRunnerInvariant, PTL
     DEF Spec

------------------------------------------------------------------------------
(* Counting the coordinates of a plan. *)

LEMMA CoordinatesFinite ==
  ASSUME NEW g
  PROVE  IsFiniteSet(Coordinates(g))
<1>1. IsFiniteSet(Persons \X Slots)
  BY SlotsFinite, PersonsAssumption, FS_Product
<1>2. QED
  BY <1>1, FS_Subset DEF Coordinates

\* One person's slots and the others' coordinates make up a plan.
LEMMA PersonApart ==
  ASSUME NEW g \in [Persons -> SUBSET Slots], NEW p \in Persons
  PROVE  Cardinality(Coordinates(g))
           = Cardinality(g[p]) + Cardinality(Coordinates([g EXCEPT ![p] = {}]))
<1> DEFINE Own == {p} \X g[p]
           rest == [g EXCEPT ![p] = {}]
<1>1. g[p] \in SUBSET Slots /\ IsFiniteSet(g[p]) /\ Cardinality(g[p]) \in Nat
  BY SlotCount
<1>2. IsFiniteSet(Own) /\ Cardinality(Own) = Cardinality(g[p])
  <2> DEFINE f == [s \in g[p] |-> <<p, s>>]
  <2>1. f \in Bijection(g[p], Own)
    BY DEF Bijection, Injection, Surjection, IsInjective
  <2>2. QED
    BY <1>1, <2>1, FS_Bijection DEF ExistsBijection
<1>3. IsFiniteSet(Coordinates(rest)) /\ Cardinality(Coordinates(rest)) \in Nat
  BY CoordinatesFinite, CoordinateCount
<1>4. Coordinates(g) = Own \cup Coordinates(rest) /\ Own \cap Coordinates(rest) = {}
  BY <1>1 DEF Coordinates
<1>5. Cardinality(Own \cup Coordinates(rest))
        = Cardinality(Own) + Cardinality(Coordinates(rest))
            - Cardinality(Own \cap Coordinates(rest))
  BY <1>2, <1>3, FS_Union
<1> HIDE DEF Own, rest
<1>6. Cardinality(Own \cap Coordinates(rest)) = 0
  BY <1>4, FS_EmptySet
<1>7. Cardinality(Coordinates(g)) = Cardinality(g[p]) + Cardinality(Coordinates(rest))
  BY <1>1, <1>2, <1>3, <1>4, <1>5, <1>6
<1>8. QED
  BY <1>7 DEF rest

\* A coordinate that was dealt with is taken off the plan, and only it.
LEMMA CoordinateDealtWith ==
  ASSUME NEW g \in [Persons -> SUBSET Slots], NEW c \in Coordinates(g)
  PROVE  Cardinality(Coordinates([g EXCEPT ![c[1]] = @ \ {c[2]}])) + 1
           = Cardinality(Coordinates(g))
<1> DEFINE rest == [g EXCEPT ![c[1]] = @ \ {c[2]}]
<1>1. c \in Persons \X Slots /\ c[2] \in g[c[1]]
  BY DEF Coordinates
<1>2. Coordinates(rest) = Coordinates(g) \ {c}
  BY <1>1 DEF Coordinates
<1>3. IsFiniteSet(Coordinates(g)) /\ Cardinality(Coordinates(g)) \in Nat
  BY CoordinatesFinite, CoordinateCount
<1>4. Cardinality(Coordinates(g) \ {c}) = Cardinality(Coordinates(g)) - 1
  BY <1>3, FS_RemoveElement
<1> HIDE DEF rest
<1>5. Cardinality(Coordinates(rest)) + 1 = Cardinality(Coordinates(g))
  BY <1>2, <1>3, <1>4
<1>6. QED
  BY <1>5 DEF rest

LEMMA SlotDealtWith ==
  ASSUME NEW S \in SUBSET Slots, NEW s \in S
  PROVE  Cardinality(S \ {s}) + 1 = Cardinality(S)
BY SlotCount, FS_RemoveElement

\* A plan without slots has no coordinates.
LEMMA NothingPlanned ==
  ASSUME NEW g, \A p \in Persons : g[p] = {}
  PROVE  Cardinality(Coordinates(g)) = 0
<1>1. Coordinates(g) = {}
  BY DEF Coordinates
<1>2. QED
  BY <1>1, FS_EmptySet

------------------------------------------------------------------------------
(* What is counted and what is left make up what a run owes. *)

Outcomes(t) == t.evaluated + t.skipped + t.failed

TickDue(at, r, t) ==
    /\ at \in {"resolving", "listing"} => r = Fresh /\ t = EmptyTally
    /\ at = "planning" =>
          /\ t.evaluated = 0 /\ t.skipped = 0
          /\ t.failed + Cardinality(Coordinates(r.gaps)) = r.owed
    /\ at \in {"person", "coordinate"} =>
          Outcomes(t) + Cardinality(r.slots) + Cardinality(Coordinates(r.gaps)) = r.owed

FillDue(at, r) ==
    /\ at = "resolving" => r = Fresh
    /\ at = "coordinate" => Outcomes(r.tally) + Cardinality(Coordinates(r.gaps)) = r.owed

RefreshDue(at, r) ==
    at = "coordinate" =>
        /\ r.count.refreshed + r.count.notRefreshed + Cardinality(r.slots) = r.owed
        /\ r.count.deleted <= r.count.refreshed

Due(e) ==
    /\ ctl[e].at = "none" => loc[e] = Fresh
    /\ ctl[e].kind = "tick" => TickDue(ctl[e].at, loc[e], tally)
    /\ ctl[e].kind = "fillRun" => FillDue(ctl[e].at, loc[e])
    /\ ctl[e].kind = "refresh" => RefreshDue(ctl[e].at, loc[e])

LedgerOK == \A e \in Execs : Due(e)

\* What ReportsAccountForPlan asks of a step of e.
Reports(e) ==
    /\ ctl[e].kind = "tick" /\ Live(e) /\ ctl'[e].at = "settled"
          => tickStopping \/ SumsTo(lastEvaluationRun', loc'[e].owed)
    /\ FillRunAt(e, "coordinate") /\ ctl'[e].at = "none"
          => SumsTo(lastEvaluationRun', loc[e].owed)
    /\ ctl[e].kind = "refresh" /\ Live(e) /\ ctl'[e].at = "settled"
          => LET c == results'[loc[e].person].count
             IN  /\ c.refreshed + c.notRefreshed = loc'[e].owed
                 /\ c.deleted <= c.refreshed

\* What the steps of a call e may assume.
Sound == ControlOK /\ DataOK /\ LedgerOK

LEMMA FinishTickReports ==
  ASSUME Sound, NEW e \in Execs, NEW t \in Tally, NEW n \in Nat,
         ctl[e].kind = "tick", FinishTick(e, t, n), tickStopping \/ Outcomes(t) = n
  PROVE  Due(e)' /\ Reports(e)
<1>1. ctl'[e].kind = "tick" /\ ctl'[e].at = "settled"
  BY GoesEffect DEF Sound, FinishTick, Waits, ControlOK
<1>2. loc'[e] = [Fresh EXCEPT !.owed = n]
  BY DEF Sound, FinishTick, DataOK
<1>3. loc'[e].owed = n
  BY <1>2 DEF Fresh
<1>4. SumsTo(lastEvaluationRun', n) <=> Outcomes(t) = n
  BY DEF FinishTick, RecordEvaluationRun, RunSummary, SumsTo, Outcomes
<1>5. QED
  BY <1>1, <1>3, <1>4 DEF Due, TickDue, Reports, FillRunAt

\* The loop over the persons, when what is counted and planned is what is owed.
LEMMA NextPersonReports ==
  ASSUME Sound, NEW e \in Execs, NEW g \in [Persons -> SUBSET Slots],
         NEW t \in Tally, NEW n \in Nat, ctl[e].kind = "tick", Live(e),
         NextPerson(e, g, t, n), Outcomes(t) + Cardinality(Coordinates(g)) = n
  PROVE  Due(e)' /\ Reports(e)
<1>0. Outcomes(t) \in Nat /\ Cardinality(Coordinates(g)) \in Nat
  BY CoordinateCount DEF Outcomes, Tally
<1>1. CASE FinishTick(e, t, n) /\ tickStopping
  BY <1>1, FinishTickReports
<1>2. CASE FinishTick(e, t, n) /\ \A p \in Persons : g[p] = {}
  <2>1. Cardinality(Coordinates(g)) = 0
    BY <1>2, NothingPlanned
  <2>2. QED
    BY <1>0, <1>2, <2>1, FinishTickReports
<1>3. ASSUME NEW p \in Persons, tally' = t, Goes(e, "person"),
             loc' = [loc EXCEPT ![e] =
                      [@ EXCEPT !.person = p, !.slots = g[p], !.owed = n,
                                !.gaps = [g EXCEPT ![p] = {}]]]
      PROVE  Due(e)' /\ Reports(e)
  <2>1. ctl'[e].kind = "tick" /\ ctl'[e].at = "person"
    BY <1>3, GoesEffect DEF Sound, ControlOK, Waits
  <2>2. loc[e] \in Local /\ loc \in [Execs -> Local]
    BY DEF Sound, DataOK
  <2>3. /\ loc'[e].slots = g[p] /\ loc'[e].owed = n
        /\ loc'[e].gaps = [g EXCEPT ![p] = {}]
    BY <1>3, <2>2 DEF Local
  <2>4. /\ Cardinality(g[p]) \in Nat
        /\ Cardinality(Coordinates([g EXCEPT ![p] = {}])) \in Nat
        /\ Cardinality(Coordinates(g))
             = Cardinality(g[p]) + Cardinality(Coordinates([g EXCEPT ![p] = {}]))
    BY PersonApart, SlotCount, CoordinateCount
  <2>5. Outcomes(tally') + Cardinality(loc'[e].slots)
          + Cardinality(Coordinates(loc'[e].gaps)) = loc'[e].owed
    BY <1>0, <1>3, <2>3, <2>4
  <2>6. TickDue("person", loc'[e], tally')
    BY <2>5 DEF TickDue
  <2>7. QED
    BY <2>1, <2>6 DEF Due, Reports, FillRunAt
<1>4. QED
  BY <1>1, <1>2, <1>3 DEF NextPerson

\* A window of the plan, when what failed and what is planned is what is owed.
LEMMA PlanWindowReports ==
  ASSUME Sound, NEW e \in Execs, NEW g \in [Persons -> SUBSET Slots],
         NEW t \in Tally, NEW n \in Nat, TickAt(e, "planning"),
         PlanWindow(e, g, t, n), t.evaluated = 0, t.skipped = 0,
         t.failed + Cardinality(Coordinates(g)) = n
  PROVE  Due(e)' /\ Reports(e)
<1>0. ctl[e].kind = "tick" /\ ctl[e].at = "planning" /\ Live(e)
  BY DEF TickAt, Live
<1>1. CASE /\ tally' = t /\ ctl' = ctl
           /\ loc' = [loc EXCEPT ![e].window = @ + 1, ![e].gaps = g, ![e].owed = n]
  <2>1. loc[e] \in Local /\ loc \in [Execs -> Local]
    BY DEF Sound, DataOK
  <2>2. loc'[e].gaps = g /\ loc'[e].owed = n
    BY <1>1, <2>1 DEF Local
  <2>3. TickDue("planning", loc'[e], tally')
    BY <1>1, <2>2 DEF TickDue
  <2>4. QED
    BY <1>0, <1>1, <2>3 DEF Due, Reports, FillRunAt
<1>2. CASE NextPerson(e, g, t, n)
  <2>1. Outcomes(t) + Cardinality(Coordinates(g)) = n
    BY CoordinateCount DEF Outcomes, Tally
  <2>2. QED
    BY <1>0, <1>2, <2>1, NextPersonReports
<1>3. QED
  BY <1>1, <1>2 DEF PlanWindow

\* One more failure, and one more outcome owed.
LEMMA AbortTickReports ==
  ASSUME Sound, NEW e \in Execs, ctl[e].kind = "tick", AbortTick(e),
         Outcomes(tally) = loc[e].owed
  PROVE  Due(e)' /\ Reports(e)
<1>1. tally \in Tally /\ loc[e].owed \in Nat /\ 1 \in Nat
  BY LocalFields DEF Sound, DataOK
<1>2. PICK t : t = [tally EXCEPT !.failed = @ + 1]
  OBVIOUS
<1>3. t \in Tally
  BY <1>1, <1>2, TallyUpdate
<1>4. Outcomes(t) = loc[e].owed + 1
  BY <1>1, <1>2 DEF Outcomes, Tally
<1>5. FinishTick(e, t, loc[e].owed + 1)
  BY <1>2 DEF AbortTick
<1>6. loc[e].owed + 1 \in Nat
  BY <1>1
<1>7. QED
  BY <1>3, <1>4, <1>5, <1>6, FinishTickReports

LEMMA CountedOnce ==
  ASSUME NEW t \in Tally, NEW c,
         NEW outcome \in {"evaluated", "skipped", "incomplete", "failed"}
  PROVE  Outcomes(CountOutcome(t, outcome, c)) = Outcomes(t) + 1
BY DEF CountOutcome, Outcomes, Tally

LEMMA CountedMany ==
  ASSUME NEW t \in Tally, NEW n \in Nat
  PROVE  /\ Outcomes([t EXCEPT !.failed = @ + n]) = Outcomes(t) + n
         /\ Outcomes([t EXCEPT !.skipped = @ + n]) = Outcomes(t) + n
<1>1. PICK f \in Nat, s \in Nat : f = t.failed + n /\ s = t.skipped + n
  BY DEF Tally
<1>2. /\ t.evaluated \in Nat /\ t.skipped \in Nat /\ t.failed \in Nat
  BY DEF Tally
<1>3. /\ [t EXCEPT !.failed = f].evaluated = t.evaluated
      /\ [t EXCEPT !.failed = f].skipped = t.skipped
      /\ [t EXCEPT !.failed = f].failed = f
      /\ [t EXCEPT !.skipped = s].evaluated = t.evaluated
      /\ [t EXCEPT !.skipped = s].skipped = s
      /\ [t EXCEPT !.skipped = s].failed = t.failed
  BY DEF Tally
<1>4. QED
  BY <1>1, <1>2, <1>3 DEF Outcomes

LEMMA EmptyOutcomes ==
  /\ Outcomes(EmptyTally) = 0 /\ Fresh.owed = 0 /\ Fresh.tally = EmptyTally
  /\ EmptyTally.evaluated = 0 /\ EmptyTally.skipped = 0 /\ EmptyTally.failed = 0
  /\ Cardinality(Coordinates(Fresh.gaps)) = 0
<1>1. \A p \in Persons : Fresh.gaps[p] = {}
  BY DEF Fresh
<1>2. QED
  BY <1>1, NothingPlanned DEF Outcomes, EmptyTally, Fresh

LEMMA TickReports ==
  ASSUME Sound, NEW e \in Execs, TickStep(e)
  PROVE  Due(e)' /\ Reports(e)
<1>0. /\ loc[e] \in Local /\ loc[e].gaps \in [Persons -> SUBSET Slots]
      /\ loc[e].owed \in Nat /\ loc[e].slots \in SUBSET Slots
      /\ loc[e].active \in SUBSET Persons /\ loc[e].window \in 1..Windows
      /\ tally \in Tally /\ tally.failed \in Nat
      /\ tally.evaluated \in Nat /\ tally.skipped \in Nat
      /\ loc \in [Execs -> Local] /\ ctl \in [Execs -> CtlEntry]
  BY LocalFields DEF Sound, DataOK, ControlOK, Tally
<1>a. ctl[e].kind = "tick" /\ TickDue(ctl[e].at, loc[e], tally)
  BY DEF TickStep, TickResolve, TickList, TickPlan, TickPerson, TickCoordinate,
         ClearTick, TickAt, Sound, LedgerOK, Due
<1>1. CASE TickResolve(e)
  <2>1. ctl[e].at = "resolving" /\ loc[e] = Fresh /\ tally = EmptyTally
    BY <1>1, <1>a DEF TickResolve, TickAt, TickDue
  <2>2. CASE Goes(e, "listing") /\ UNCHANGED <<loc, tally>>
    <3>1. ctl'[e].kind = "tick" /\ ctl'[e].at = "listing"
      BY <1>0, <1>a, <2>2, GoesEffect DEF Waits
    <3>2. QED
      BY <2>1, <2>2, <3>1 DEF Due, TickDue, Reports, FillRunAt
  <2>3. QED
    BY <1>1, <1>a, <2>1, <2>2, EmptyOutcomes, AbortTickReports DEF TickResolve
<1>2. CASE TickList(e)
  <2>1. ctl[e].at = "listing" /\ loc[e] = Fresh /\ tally = EmptyTally
    BY <1>2, <1>a DEF TickList, TickAt, TickDue
  <2>2. ASSUME NEW A, Goes(e, "planning"), loc' = [loc EXCEPT ![e].active = A],
               tally' = tally
        PROVE  Due(e)' /\ Reports(e)
    <3>1. ctl'[e].kind = "tick" /\ ctl'[e].at = "planning"
      BY <1>0, <1>a, <2>2, GoesEffect DEF Waits
    <3>2. loc'[e].gaps = Fresh.gaps /\ loc'[e].owed = Fresh.owed
      BY <1>0, <2>1, <2>2 DEF Local
    <3>3. TickDue("planning", loc'[e], tally')
      BY <2>1, <2>2, <3>2, EmptyOutcomes DEF TickDue
    <3>4. QED
      BY <3>1, <3>3 DEF Due, Reports, FillRunAt
  <2>3. FinishTick(e, tally, loc[e].owed) => Due(e)' /\ Reports(e)
    BY <1>0, <1>a, <2>1, EmptyOutcomes, FinishTickReports
  <2>4. QED
    BY <1>2, <1>a, <2>1, <2>2, <2>3, EmptyOutcomes, AbortTickReports DEF TickList
<1>3. CASE TickPlan(e)
  <2>0. /\ TickAt(e, "planning") /\ tally.evaluated = 0 /\ tally.skipped = 0
        /\ tally.failed + Cardinality(Coordinates(loc[e].gaps)) = loc[e].owed
    BY <1>3, <1>a DEF TickPlan, TickAt, TickDue
  <2>1. ASSUME NEW found \in [loc[e].active -> SUBSET SlotsOf[loc[e].window]]
        PROVE  [p \in Persons |-> IF p \in loc[e].active
                                  THEN loc[e].gaps[p] \union found[p] ELSE {}]
                  \in [Persons -> SUBSET Slots]
    BY <1>0, WindowSlots
  <2>2. ASSUME NEW g \in [Persons -> SUBSET Slots],
               PlanWindow(e, g, tally, Cardinality(Coordinates(g)) + tally.failed)
        PROVE  Due(e)' /\ Reports(e)
    <3>1. Cardinality(Coordinates(g)) \in Nat
      BY CoordinateCount
    <3>2. /\ Cardinality(Coordinates(g)) + tally.failed \in Nat
          /\ tally.failed + Cardinality(Coordinates(g))
                = Cardinality(Coordinates(g)) + tally.failed
      BY <1>0, <3>1
    <3>3. QED
      BY <1>0, <2>0, <2>2, <3>2, PlanWindowReports
  <2>3. CASE PlanWindow(e, loc[e].gaps, [tally EXCEPT !.failed = @ + 1],
                        loc[e].owed + 1)
    <3>1. PICK t : t = [tally EXCEPT !.failed = @ + 1]
      OBVIOUS
    <3>2. 1 \in Nat /\ t \in Tally
      BY <1>0, <3>1, TallyUpdate
    <3>3. t.evaluated = 0 /\ t.skipped = 0 /\ t.failed = tally.failed + 1
      BY <1>0, <2>0, <3>1 DEF Tally
    <3>4. Cardinality(Coordinates(loc[e].gaps)) \in Nat
      BY CoordinateCount
    <3>5. /\ loc[e].owed + 1 \in Nat
          /\ t.failed + Cardinality(Coordinates(loc[e].gaps)) = loc[e].owed + 1
      BY <1>0, <2>0, <3>3, <3>4
    <3>6. QED
      BY <1>0, <2>0, <2>3, <3>1, <3>2, <3>3, <3>5, PlanWindowReports
  <2>4. QED
    BY <1>3, <2>1, <2>2, <2>3, Zenon DEF TickPlan
<1>4. CASE TickPerson(e)
  <2>0. /\ ctl[e].at = "person" /\ Live(e)
        /\ Outcomes(tally) + Cardinality(loc[e].slots)
              + Cardinality(Coordinates(loc[e].gaps)) = loc[e].owed
    BY <1>4, <1>a DEF TickPerson, TickAt, TickDue, Live
  <2>1. /\ Cardinality(loc[e].slots) \in Nat
        /\ Cardinality(Coordinates(loc[e].gaps)) \in Nat
    BY <1>0, SlotCount, CoordinateCount
  <2>2. ASSUME NEW t \in Tally, NextPerson(e, loc[e].gaps, t, loc[e].owed),
               Outcomes(t) = Outcomes(tally) + Cardinality(loc[e].slots)
        PROVE  Due(e)' /\ Reports(e)
    <3>1. Outcomes(t) + Cardinality(Coordinates(loc[e].gaps)) = loc[e].owed
      BY <2>0, <2>2
    <3>2. QED
      BY <1>0, <1>a, <2>0, <2>2, <3>1, NextPersonReports
  <2>3. tickStopping /\ FinishTick(e, tally, loc[e].owed) => Due(e)' /\ Reports(e)
    BY <1>0, <1>a, FinishTickReports
  <2>4. CASE Goes(e, "coordinate") /\ UNCHANGED <<loc, tally>>
    <3>1. ctl'[e].kind = "tick" /\ ctl'[e].at = "coordinate"
      BY <1>0, <1>a, <2>4, GoesEffect DEF Waits
    <3>2. QED
      BY <2>0, <2>4, <3>1 DEF Due, TickDue, Reports, FillRunAt
  <2>5. ASSUME NEW n \in Nat
        PROVE  /\ Outcomes([tally EXCEPT !.failed = @ + n]) = Outcomes(tally) + n
               /\ Outcomes([tally EXCEPT !.skipped = @ + n]) = Outcomes(tally) + n
               /\ [tally EXCEPT !.failed = @ + n] \in Tally
               /\ [tally EXCEPT !.skipped = @ + n] \in Tally
    BY <1>0, TallyUpdate, CountedMany
  <2>6. QED
    BY <1>4, <2>1, <2>2, <2>3, <2>4, <2>5 DEF TickPerson
<1>5. CASE TickCoordinate(e)
  <2>0. /\ ctl[e].at = "coordinate" /\ Live(e)
        /\ Outcomes(tally) + Cardinality(loc[e].slots)
              + Cardinality(Coordinates(loc[e].gaps)) = loc[e].owed
    BY <1>5, <1>a DEF TickCoordinate, TickAt, TickDue, Live
  <2>1. PICK s \in loc[e].slots, outcome \in {"evaluated", "incomplete", "failed"} :
          LET t == CountOutcome(tally, outcome, <<loc[e].person, s>>)
              rest == loc[e].slots \ {s} IN
            \/ rest = {} /\ NextPerson(e, loc[e].gaps, t, loc[e].owed)
            \/ tickStopping /\ FinishTick(e, t, loc[e].owed)
            \/ /\ tally' = t /\ ctl' = ctl
               /\ loc' = [loc EXCEPT ![e].slots = rest]
    BY <1>5 DEF TickCoordinate
  <2>2. loc[e].person \in Persons /\ s \in Slots
    BY <1>0, <1>a, <2>0 DEF Sound, DataOK, KnowsPerson
  <2>3. PICK t \in Tally : t = CountOutcome(tally, outcome, <<loc[e].person, s>>)
    BY <1>0, <2>2, CountOutcomeType
  <2>4. Outcomes(t) = Outcomes(tally) + 1
    BY <1>0, <2>3, CountedOnce
  <2>5. PICK rest \in SUBSET Slots : rest = loc[e].slots \ {s}
    BY <1>0
  <2>6. /\ Cardinality(rest) + 1 = Cardinality(loc[e].slots)
        /\ Cardinality(rest) \in Nat /\ Cardinality(loc[e].slots) \in Nat
        /\ Cardinality(Coordinates(loc[e].gaps)) \in Nat /\ Outcomes(tally) \in Nat
    BY <1>0, <2>5, SlotDealtWith, SlotCount, CoordinateCount DEF Outcomes
  <2>7. CASE rest = {} /\ NextPerson(e, loc[e].gaps, t, loc[e].owed)
    <3>1. Cardinality(rest) = 0
      BY <2>7, FS_EmptySet
    <3>2. Outcomes(t) + Cardinality(Coordinates(loc[e].gaps)) = loc[e].owed
      BY <2>0, <2>4, <2>6, <3>1
    <3>3. QED
      BY <1>0, <1>a, <2>0, <2>7, <3>2, NextPersonReports
  <2>8. CASE tickStopping /\ FinishTick(e, t, loc[e].owed)
    BY <1>0, <1>a, <2>8, FinishTickReports
  <2>9. CASE tally' = t /\ ctl' = ctl /\ loc' = [loc EXCEPT ![e].slots = rest]
    <3>1. /\ loc'[e].slots = rest /\ loc'[e].gaps = loc[e].gaps
          /\ loc'[e].owed = loc[e].owed
      BY <1>0, <2>9 DEF Local
    <3>2. Outcomes(tally') + Cardinality(loc'[e].slots)
            + Cardinality(Coordinates(loc'[e].gaps)) = loc'[e].owed
      BY <2>0, <2>4, <2>6, <2>9, <3>1
    <3>3. TickDue("coordinate", loc'[e], tally')
      BY <3>2 DEF TickDue
    <3>4. QED
      BY <1>a, <2>0, <2>9, <3>3 DEF Due, Reports, FillRunAt
  <2>10. QED
    BY <2>1, <2>3, <2>5, <2>7, <2>8, <2>9
<1>6. CASE ClearTick(e)
  <2>1. ctl'[e] = Idle /\ loc'[e] = Fresh
    BY <1>0, <1>6, IdleEntry DEF ClearTick, Frees
  <2>2. ctl[e].at = "settled"
    BY <1>6 DEF ClearTick, TickAt
  <2>3. QED
    BY <1>a, <2>1, <2>2 DEF Due, Idle, Reports, FillRunAt
<1>7. QED
  BY <1>1, <1>2, <1>3, <1>4, <1>5, <1>6 DEF TickStep

LEMMA FinishRefreshReports ==
  ASSUME Sound, NEW e \in Execs, NEW c \in Count, NEW a \in BOOLEAN, NEW n \in Nat,
         ctl[e].kind = "refresh", Live(e), FinishRefresh(e, c, a, n),
         c.refreshed + c.notRefreshed = n, c.deleted <= c.refreshed
  PROVE  Due(e)' /\ Reports(e)
<1>1. ctl'[e].kind = "refresh" /\ ctl'[e].at = "settled"
  BY GoesEffect DEF Sound, FinishRefresh, Waits, ControlOK
<1>2. loc[e] \in Local /\ loc[e].person \in Persons /\ loc \in [Execs -> Local]
  BY DEF Sound, DataOK, KnowsPerson
<1>3. loc'[e].owed = n
  BY <1>2 DEF FinishRefresh, Local
<1>4. results'[loc[e].person].count = c
  BY <1>2 DEF FinishRefresh, Sound, DataOK
<1>5. QED
  BY <1>1, <1>3, <1>4 DEF Due, RefreshDue, Reports, FillRunAt

\* A turn of the refresh, when what is counted and left is what is owed.
LEMMA NextRefreshReports ==
  ASSUME Sound, NEW e \in Execs, NEW S \in SUBSET Slots, NEW H \in SUBSET Slots,
         NEW c \in Count, NEW n \in Nat, ctl[e].kind = "refresh", Live(e),
         NextRefresh(e, S, H, c, n),
         c.refreshed + c.notRefreshed + Cardinality(S) = n, c.deleted <= c.refreshed
  PROVE  Due(e)' /\ Reports(e)
<1>0. /\ c.refreshed \in Nat /\ c.notRefreshed \in Nat /\ Cardinality(S) \in Nat
      /\ Cardinality(S) = 0 <=> S = {}
  BY SlotCount, FS_EmptySet DEF Count
<1>1. CASE S = {} /\ FinishRefresh(e, c, FALSE, n)
  <2>1. c.refreshed + c.notRefreshed = n
    BY <1>0, <1>1
  <2>2. QED
    BY <1>1, <2>1, FinishRefreshReports
<1>2. CASE FinishRefresh(e, [c EXCEPT !.notRefreshed = @ + Cardinality(S)], TRUE, n)
  <2>1. PICK d : d = [c EXCEPT !.notRefreshed = @ + Cardinality(S)]
    OBVIOUS
  <2>2. d \in Count
    BY <1>0, <2>1, CountUpdate
  <2>3. d.refreshed + d.notRefreshed = n /\ d.deleted <= d.refreshed
    BY <1>0, <2>1 DEF Count
  <2>4. QED
    BY <1>2, <2>1, <2>2, <2>3, FinishRefreshReports
<1>3. CASE /\ Goes(e, "coordinate")
           /\ loc' = [loc EXCEPT ![e] = [@ EXCEPT !.slots = S, !.owed = n,
                                           !.hadRow = H, !.count = c]]
  <2>1. ctl'[e].kind = "refresh" /\ ctl'[e].at = "coordinate"
    BY <1>3, GoesEffect DEF Sound, ControlOK, Waits
  <2>2. loc[e] \in Local /\ loc \in [Execs -> Local]
    BY DEF Sound, DataOK
  <2>3. loc'[e].slots = S /\ loc'[e].owed = n /\ loc'[e].count = c
    BY <1>3, <2>2 DEF Local
  <2>4. QED
    BY <2>1, <2>3 DEF Due, RefreshDue, Reports, FillRunAt
<1>4. QED
  BY <1>1, <1>2, <1>3 DEF NextRefresh

\* A row that was replaced, or left, is counted once, and as deleted only if
\* it was replaced.
LEMMA CountedRow ==
  ASSUME NEW c \in Count, NEW m \in 0..1, NEW d, c.deleted <= c.refreshed,
         \/ d = [c EXCEPT !.refreshed = @ + 1, !.deleted = @ + m]
         \/ d = [c EXCEPT !.notRefreshed = @ + 1]
  PROVE  /\ d \in Count /\ d.deleted <= d.refreshed
         /\ d.refreshed + d.notRefreshed = c.refreshed + c.notRefreshed + 1
<1>1. /\ c.refreshed \in Nat /\ c.notRefreshed \in Nat /\ c.deleted \in Nat
      /\ m \in Nat /\ 1 \in Nat
  BY DEF Count
<1>2. CASE d = [c EXCEPT !.refreshed = @ + 1, !.deleted = @ + m]
  <2>1. d \in Count
    BY <1>1, <1>2, CountUpdate
  <2>2. PICK x, y : x = c.refreshed + 1 /\ y = c.deleted + m
    OBVIOUS
  <2>3. d = [c EXCEPT !.refreshed = x, !.deleted = y]
    BY <1>2, <2>2
  <2>4. d.refreshed = x /\ d.deleted = y /\ d.notRefreshed = c.notRefreshed
    BY <2>3 DEF Count
  <2>5. QED
    BY <1>1, <2>1, <2>2, <2>4
<1>3. CASE d = [c EXCEPT !.notRefreshed = @ + 1]
  <2>1. d \in Count
    BY <1>1, <1>3, CountUpdate
  <2>2. /\ d.refreshed = c.refreshed /\ d.deleted = c.deleted
        /\ d.notRefreshed = c.notRefreshed + 1
    BY <1>3 DEF Count
  <2>3. QED
    BY <1>1, <2>1, <2>2
<1>4. QED
  BY <1>2, <1>3

LEMMA RefreshReports ==
  ASSUME Sound, NEW e \in Execs, RefreshStep(e)
  PROVE  Due(e)' /\ Reports(e)
<1>0. /\ loc[e] \in Local /\ loc[e].slots \in SUBSET Slots
      /\ loc[e].hadRow \in SUBSET Slots /\ loc[e].count \in Count
      /\ loc[e].owed \in Nat
      /\ loc \in [Execs -> Local] /\ ctl \in [Execs -> CtlEntry]
  BY LocalFields DEF Sound, DataOK, ControlOK
<1>a. ctl[e].kind = "refresh" /\ RefreshDue(ctl[e].at, loc[e])
  BY DEF RefreshStep, RejectRefresh, AdmitRefresh, RefreshResolve, RefreshPlan,
         RefreshCoordinate, ClearRefresh, RefreshAt, Sound, LedgerOK, Due
<1>b. EmptyCount \in Count /\ 0 \in Nat /\ EmptyCount.deleted = 0
      /\ EmptyCount.refreshed = 0 /\ EmptyCount.notRefreshed = 0
  BY DEF EmptyCount, Count
<1>c. ASSUME Live(e), FinishRefresh(e, EmptyCount, TRUE, 0)
      PROVE  Due(e)' /\ Reports(e)
  <2>1. /\ EmptyCount.refreshed + EmptyCount.notRefreshed = 0
        /\ EmptyCount.deleted <= EmptyCount.refreshed
    BY <1>b
  <2>2. QED
    BY <1>a, <1>b, <1>c, <2>1, FinishRefreshReports
<1>1. CASE RejectRefresh(e) \/ ClearRefresh(e)
  <2>1. ctl'[e] = Idle /\ loc'[e] = Fresh
    BY <1>0, <1>1, IdleEntry DEF RejectRefresh, ClearRefresh, Frees
  <2>2. QED
    BY <1>a, <2>1 DEF Due, Idle, Reports, FillRunAt
<1>2. CASE AdmitRefresh(e)
  <2>1. ctl'[e].kind = "refresh" /\ ctl'[e].at = "resolving"
    BY <1>2, AdmitControl DEF Sound
  <2>2. QED
    BY <1>a, <2>1 DEF Due, RefreshDue, Reports, FillRunAt
<1>3. CASE RefreshResolve(e)
  <2>1. Live(e)
    BY <1>3 DEF RefreshResolve, RefreshAt, Live
  <2>2. CASE Goes(e, "reading")
    <3>1. ctl'[e].kind = "refresh" /\ ctl'[e].at = "reading"
      BY <1>0, <1>a, <2>2, GoesEffect DEF Waits
    <3>2. QED
      BY <1>a, <3>1 DEF Due, RefreshDue, Reports, FillRunAt
  <2>3. QED
    BY <1>3, <1>c, <2>1, <2>2 DEF RefreshResolve
<1>4. CASE RefreshPlan(e)
  <2>1. Live(e)
    BY <1>4 DEF RefreshPlan, RefreshAt, Live
  <2>2. ASSUME NEW S \in SUBSET Slots, NEW m \in 0..MaxOpen, NEW H \in SUBSET S,
               LET n == Cardinality(S)
                   kept == [EmptyCount EXCEPT !.notRefreshed = m]
               IN  \/ FinishRefresh(e, [kept EXCEPT !.notRefreshed = @ + n],
                                    FALSE, m + n)
                   \/ NextRefresh(e, S, H, kept, m + n)
        PROVE  Due(e)' /\ Reports(e)
    <3>1. m \in Nat /\ Cardinality(S) \in Nat /\ m + Cardinality(S) \in Nat
      BY BoundsAssumption, SlotCount
    <3>2. PICK kept : kept = [EmptyCount EXCEPT !.notRefreshed = m]
      OBVIOUS
    <3>3. /\ kept \in Count /\ kept.refreshed = 0 /\ kept.deleted = 0
          /\ kept.notRefreshed = m
      BY <1>b, <3>1, <3>2 DEF EmptyCount, Count
    <3>4. PICK all : all = [kept EXCEPT !.notRefreshed = @ + Cardinality(S)]
      OBVIOUS
    <3>5. /\ all \in Count /\ all.refreshed = 0 /\ all.deleted = 0
          /\ all.notRefreshed = m + Cardinality(S)
      BY <3>1, <3>3, <3>4, CountUpdate DEF Count
    <3>6. CASE FinishRefresh(e, all, FALSE, m + Cardinality(S))
      <4>1. all.refreshed + all.notRefreshed = m + Cardinality(S) /\ all.deleted <= all.refreshed
        BY <3>1, <3>5
      <4>2. QED
        BY <1>a, <2>1, <3>1, <3>5, <3>6, <4>1, FinishRefreshReports
    <3>7. CASE NextRefresh(e, S, H, kept, m + Cardinality(S))
      <4>1. /\ kept.refreshed + kept.notRefreshed + Cardinality(S) = m + Cardinality(S)
            /\ kept.deleted <= kept.refreshed
        BY <3>1, <3>3
      <4>2. QED
        BY <1>a, <2>1, <3>1, <3>3, <3>7, <4>1, NextRefreshReports
    <3>8. QED
      BY <2>2, <3>2, <3>4, <3>6, <3>7
  <2>3. QED
    BY <1>4, <1>c, <2>1, <2>2 DEF RefreshPlan
<1>5. CASE RefreshCoordinate(e)
  <2>0. /\ Live(e) /\ loc[e].count.deleted <= loc[e].count.refreshed
        /\ loc[e].count.refreshed + loc[e].count.notRefreshed
              + Cardinality(loc[e].slots) = loc[e].owed
    BY <1>5, <1>a DEF RefreshCoordinate, RefreshAt, RefreshDue, Live
  <2> DEFINE Counted(s, c) ==
              \/ c = [loc[e].count EXCEPT !.refreshed = @ + 1,
                        !.deleted = @ + (IF s \in loc[e].hadRow THEN 1 ELSE 0)]
              \/ c = [loc[e].count EXCEPT !.notRefreshed = @ + 1]
  <2>1. PICK s \in loc[e].slots : \E c :
          /\ Counted(s, c)
          /\ NextRefresh(e, loc[e].slots \ {s}, loc[e].hadRow, c, loc[e].owed)
    BY <1>5 DEF RefreshCoordinate
  <2>2. PICK c :
          /\ Counted(s, c)
          /\ NextRefresh(e, loc[e].slots \ {s}, loc[e].hadRow, c, loc[e].owed)
    BY <2>1
  <2>3. PICK m \in 0..1 : m = IF s \in loc[e].hadRow THEN 1 ELSE 0
    OBVIOUS
  <2>4. /\ c \in Count /\ c.deleted <= c.refreshed
        /\ c.refreshed + c.notRefreshed
              = loc[e].count.refreshed + loc[e].count.notRefreshed + 1
    <3>1. PICK old \in Count : old = loc[e].count
      BY <1>0
    <3>2. old.deleted <= old.refreshed
      BY <2>0, <3>1
    <3>3. \/ c = [old EXCEPT !.refreshed = @ + 1, !.deleted = @ + m]
          \/ c = [old EXCEPT !.notRefreshed = @ + 1]
      BY <2>2, <2>3, <3>1
    <3>4. /\ c \in Count /\ c.deleted <= c.refreshed
          /\ c.refreshed + c.notRefreshed = old.refreshed + old.notRefreshed + 1
      BY <3>2, <3>3, CountedRow
    <3>5. QED
      BY <3>1, <3>4
  <2>5. /\ Cardinality(loc[e].slots \ {s}) + 1 = Cardinality(loc[e].slots)
        /\ Cardinality(loc[e].slots \ {s}) \in Nat
    BY <1>0, SlotDealtWith, SlotCount
  <2>6. c.refreshed + c.notRefreshed + Cardinality(loc[e].slots \ {s}) = loc[e].owed
    <3>1. /\ loc[e].count.refreshed \in Nat /\ loc[e].count.notRefreshed \in Nat
          /\ c.refreshed \in Nat /\ c.notRefreshed \in Nat
      BY <1>0, <2>4 DEF Count
    <3>2. QED
      BY <2>0, <2>4, <2>5, <3>1
  <2>7. QED
    BY <1>0, <1>a, <2>0, <2>2, <2>4, <2>6, NextRefreshReports
<1>6. QED
  BY <1>1, <1>2, <1>3, <1>4, <1>5 DEF RefreshStep

LEMMA RequestReports ==
  ASSUME Sound, NEW e \in Execs, RequestStep(e)
  PROVE  Due(e)' /\ Reports(e)
<1>0. /\ loc[e] \in Local /\ loc[e].gaps \in [Persons -> SUBSET Slots]
      /\ loc[e].tally \in Tally /\ loc[e].owed \in Nat
      /\ loc \in [Execs -> Local] /\ ctl \in [Execs -> CtlEntry]
  BY LocalFields DEF Sound, DataOK, ControlOK
<1>a. /\ ctl[e].at \in {"awaiting", "resolving", "coordinate"}
      /\ ctl[e].kind = "fillRun" => FillDue(ctl[e].at, loc[e])
  BY DEF RequestStep, EndRequest, FillRunResolve, FillRunCoordinate, FillRunAt,
         Sound, LedgerOK, Due
<1>b. ASSUME Frees(e)
      PROVE  Due(e)' /\ ctl'[e].at = "none"
  <2>1. ctl'[e] = Idle /\ loc'[e] = Fresh
    BY <1>0, <1>b, IdleEntry DEF Frees
  <2>2. QED
    BY <2>1 DEF Due, Idle
<1>1. CASE EndRequest(e)
  BY <1>b, <1>1 DEF EndRequest, Reports, FillRunAt
<1>2. CASE FillRunResolve(e)
  <2>1. ctl[e].kind = "fillRun" /\ ctl[e].at = "resolving" /\ loc[e] = Fresh
    BY <1>2, <1>a DEF FillRunResolve, FillRunAt, FillDue
  <2>2. ASSUME NEW g \in [Persons -> SUBSET Slots], Goes(e, "coordinate"),
               loc' = [loc EXCEPT ![e].gaps = g,
                                  ![e].owed = Cardinality(Coordinates(g))]
        PROVE  Due(e)' /\ Reports(e)
    <3>1. ctl'[e].kind = "fillRun" /\ ctl'[e].at = "coordinate"
      BY <1>0, <2>1, <2>2, GoesEffect DEF Waits
    <3>2. /\ loc'[e].gaps = g /\ loc'[e].owed = Cardinality(Coordinates(g))
          /\ loc'[e].tally = Fresh.tally
      BY <1>0, <2>1, <2>2 DEF Local
    <3>3. FillDue("coordinate", loc'[e])
      BY <3>2, EmptyOutcomes, CoordinateCount DEF FillDue
    <3>4. QED
      BY <2>1, <3>1, <3>3 DEF Due, Reports, FillRunAt
  <2>3. QED
    BY <1>2, <1>b, <2>1, <2>2 DEF FillRunResolve, FinishFillRun, Reports, FillRunAt
<1>3. CASE FillRunCoordinate(e)
  <2>1. /\ ctl[e].kind = "fillRun" /\ ctl[e].at = "coordinate"
        /\ Outcomes(loc[e].tally) + Cardinality(Coordinates(loc[e].gaps)) = loc[e].owed
    BY <1>3, <1>a DEF FillRunCoordinate, FillRunAt, FillDue
  <2>2. PICK c \in Coordinates(loc[e].gaps),
             outcome \in {"evaluated", "skipped", "incomplete", "failed"} :
          LET t == CountOutcome(loc[e].tally, outcome, c)
              gaps == [loc[e].gaps EXCEPT ![c[1]] = @ \ {c[2]}]
          IN  \/ Coordinates(gaps) = {} /\ FinishFillRun(e, t)
              \/ loc' = [loc EXCEPT ![e].gaps = gaps, ![e].tally = t] /\ ctl' = ctl
    BY <1>3 DEF FillRunCoordinate
  <2>3. c \in Persons \X Slots
    BY DEF Coordinates
  <2>4. PICK t \in Tally : t = CountOutcome(loc[e].tally, outcome, c)
    BY <1>0, <2>3, CountOutcomeType
  <2>5. PICK g \in [Persons -> SUBSET Slots] :
          g = [loc[e].gaps EXCEPT ![c[1]] = @ \ {c[2]}]
    BY <1>0, <2>3
  <2>6. Cardinality(Coordinates(g)) + 1 = Cardinality(Coordinates(loc[e].gaps))
    BY <1>0, <2>5, CoordinateDealtWith
  <2>7. /\ Cardinality(Coordinates(g)) \in Nat
        /\ Cardinality(Coordinates(loc[e].gaps)) \in Nat
        /\ Outcomes(loc[e].tally) \in Nat
    BY <1>0, CoordinateCount DEF Outcomes, Tally
  <2>8. Outcomes(t) = Outcomes(loc[e].tally) + 1
    BY <1>0, <2>4, CountedOnce
  <2>9. Outcomes(t) + Cardinality(Coordinates(g)) = loc[e].owed
    BY <2>1, <2>6, <2>7, <2>8
  <2>10. CASE Coordinates(g) = {} /\ FinishFillRun(e, t)
    <3>1. Outcomes(t) = loc[e].owed
      BY <2>7, <2>8, <2>9, <2>10, FS_EmptySet
    <3>2. SumsTo(lastEvaluationRun', loc[e].owed)
      BY <2>10, <3>1
         DEF FinishFillRun, RecordEvaluationRun, RunSummary, SumsTo, Outcomes
    <3>3. QED
      BY <1>b, <2>1, <2>10, <3>2 DEF FinishFillRun, Reports
  <2>11. CASE loc' = [loc EXCEPT ![e].gaps = g, ![e].tally = t] /\ ctl' = ctl
    <3>1. loc'[e].gaps = g /\ loc'[e].tally = t /\ loc'[e].owed = loc[e].owed
      BY <1>0, <2>11 DEF Local
    <3>2. FillDue("coordinate", loc'[e])
      BY <2>9, <3>1 DEF FillDue
    <3>3. QED
      BY <2>1, <2>11, <3>2 DEF Due, Reports
  <2>12. QED
    BY <2>2, <2>4, <2>5, <2>10, <2>11
<1>4. QED
  BY <1>1, <1>2, <1>3 DEF RequestStep

LEMMA ArriveReports ==
  ASSUME Sound, NEW e \in Execs, Arrive(e)
  PROVE  Due(e)' /\ Reports(e)
<1>0. ctl \in [Execs -> CtlEntry] /\ loc \in [Execs -> Local]
  BY DEF Sound, ControlOK, DataOK
<1>1. ctl[e].at = "none" /\ loc[e] = Fresh
  BY DEF Arrive, StartTick, RequestRefresh, StartRequest, StartFillRun,
         Sound, LedgerOK, Due
<1>2. Reports(e)
  BY <1>1 DEF Reports, Live, FillRunAt
<1>3. CASE StartTick(e)
  <2>1. /\ ctl'[e].kind = "tick" /\ ctl'[e].at = "resolving"
        /\ loc'[e] = Fresh /\ tally' = EmptyTally
    BY <1>0, <1>1, <1>3 DEF StartTick
  <2>2. QED
    BY <1>2, <2>1 DEF Due, TickDue
<1>4. ASSUME NEW p \in Persons, RequestRefresh(e, p)
      PROVE  Due(e)'
  BY <1>0, <1>4 DEF RequestRefresh, Due, RefreshDue
<1>5. ASSUME NEW kind \in {"evaluate", "collect"}, StartRequest(e, kind)
      PROVE  Due(e)'
  BY <1>0, <1>5 DEF StartRequest, Due
<1>6. CASE StartFillRun(e)
  <2>1. ctl'[e].kind = "fillRun" /\ ctl'[e].at = "resolving" /\ loc'[e] = Fresh
    BY <1>0, <1>1, <1>6 DEF StartFillRun
  <2>2. QED
    BY <1>2, <2>1 DEF Due, FillDue
<1>7. QED
  BY <1>2, <1>3, <1>4, <1>5, <1>6 DEF Arrive

\* A step of one call leaves what the others owe and report alone: there is
\* one tick, so no other call's step touches its tally.
LEMMA ReportsStep ==
  ASSUME Sound, OneRunPerRunner, NEW e \in Execs, Arrive(e) \/ Step(e)
  PROVE  LedgerOK' /\ \A f \in Execs : Reports(f)
<1>1. Due(e)' /\ Reports(e)
  BY ArriveReports, TickReports, RefreshReports, RequestReports DEF Step
<1>2. Only(e) /\ LocStep(e)
  BY TickOwner, RefreshOwner, OtherOwner, ArriveType, TickType, RefreshType,
     RequestType DEF Sound, Step, OwnerStep
<1>3. ASSUME NEW f \in Execs \ {e}
      PROVE  Due(f)' /\ Reports(f)
  <2>1. ctl'[f] = ctl[f] /\ loc'[f] = loc[f] /\ Due(f)
    BY <1>2 DEF Only, LocStep, Sound, LedgerOK
  <2>2. ctl[f].kind = "tick" => tally' = tally
    <3>1. CASE TickStep(e)
      <4>1. ctl[e].kind = "tick"
        BY <3>1 DEF TickStep, TickResolve, TickList, TickPlan, TickPerson,
                    TickCoordinate, ClearTick, TickAt
      <4>2. QED
        BY <4>1 DEF OneRunPerRunner
    <3>2. CASE Arrive(e)
      <4>1. CASE StartTick(e)
        BY <4>1, ExecsAssumption DEF StartTick, OneRunPerRunner
      <4>2. QED
        BY <3>2, <4>1 DEF Arrive, RequestRefresh, StartRequest, StartFillRun,
                          Elsewhere, tickVars
    <3>3. QED
      BY <3>1, <3>2, FieldTypes DEF Sound, Step
  <2>3. Due(f)'
    BY <2>1, <2>2 DEF Due
  <2>4. QED
    BY <2>1, <2>3 DEF Reports, FillRunAt, Live
<1>4. QED
  BY <1>1, <1>3 DEF LedgerOK

LEMMA LedgerStep ==
  ASSUME Sound, OneRunPerRunner, [Next]_vars
  PROVE  LedgerOK' /\ (UNCHANGED vars \/ \A f \in Execs : Reports(f))
<1>1. CASE UNCHANGED vars
  BY <1>1 DEF vars, tickVars, Sound, LedgerOK, Due
<1>2. CASE StopTicks \/ StopRefresh \/ AdvanceClock
  <2>1. UNCHANGED <<ctl, loc, tally>>
    BY <1>2 DEF StopTicks, StopRefresh, AdvanceClock, tickVars
  <2>2. LedgerOK'
    BY <2>1 DEF Sound, LedgerOK, Due
  <2>3. QED
    BY <2>1, <2>2 DEF Reports, Live, FillRunAt
<1>3. QED
  BY <1>1, <1>2, ReportsStep DEF Next

LEMMA LedgerInvariant == Spec => []LedgerOK
<1>1. Init => LedgerOK
  BY DEF Init, LedgerOK, Due, Idle
<1>2. QED
  BY <1>1, LedgerStep, ControlOKInvariant, DataOKInvariant, OneRunPerRunnerInvariant,
     PTL DEF Spec, Sound

(***************************************************************************)
(* What a run reports, and what it was to do, add up: no window that fails *)
(* to plan, person who has gone, coordinate that fails or run that aborts  *)
(* is left out or counted twice, and a tick is cut short only by shutdown. *)
(***************************************************************************)
THEOREM ReportsAccountForPlanTheorem == Spec => ReportsAccountForPlan
<1>1. ControlOK /\ DataOK /\ LedgerOK /\ OneRunPerRunner /\ [Next]_vars
        => [\A e \in Execs : Reports(e)]_vars
  BY LedgerStep DEF Sound
<1>2. Spec => [][\A e \in Execs : Reports(e)]_vars
  BY <1>1, ControlOKInvariant, DataOKInvariant, LedgerInvariant,
     OneRunPerRunnerInvariant, PTL DEF Spec
<1>3. QED
  BY <1>2 DEF ReportsAccountForPlan, Reports

------------------------------------------------------------------------------
(* Shutdown. *)

\* What StoppedRunsEnterNothing asks of a step of e.
StopsAtOnce(e) ==
    /\ tickStopping /\ ctl[e].kind = "tick" /\ Position(e)' # Position(e)
          => ctl'[e].at \notin {"person", "coordinate"}
    /\ refreshStopping /\ ctl[e].kind = "refresh" /\ Position(e)' # Position(e)
          => ctl'[e].at # "coordinate"

\* A tick that was stopped takes up no person.
LEMMA NextPersonStops ==
  ASSUME ControlOK, NEW e \in Execs, NEW g, NEW t, NEW n, tickStopping,
         NextPerson(e, g, t, n)
  PROVE  ctl'[e].at = "settled"
BY GoesEffect DEF NextPerson, FinishTick, ControlOK, Waits

LEMMA TickStops ==
  ASSUME ControlOK, NEW e \in Execs, TickStep(e), tickStopping
  PROVE  ctl'[e].at \notin {"person", "coordinate"}
<1>0. ctl \in [Execs -> CtlEntry]
  BY DEF ControlOK
<1>1. \A t, n : FinishTick(e, t, n) => ctl'[e].at = "settled"
  BY <1>0, GoesEffect DEF FinishTick, Waits
<1>2. CASE TickResolve(e) \/ TickList(e)
  BY <1>0, <1>1, <1>2, GoesEffect DEF TickResolve, TickList, AbortTick, Waits
<1>3. CASE TickPlan(e)
  <2>1. ctl[e].at = "planning"
    BY <1>3 DEF TickPlan, TickAt
  <2>2. \A g, t, n : PlanWindow(e, g, t, n) => ctl'[e].at \in {"planning", "settled"}
    BY <2>1, NextPersonStops DEF PlanWindow
  <2>3. QED
    BY <1>3, <2>2 DEF TickPlan
<1>4. CASE TickPerson(e)
  BY <1>1, <1>4, NextPersonStops DEF TickPerson
<1>5. CASE TickCoordinate(e)
  BY <1>1, <1>5, NextPersonStops DEF TickCoordinate
<1>6. CASE ClearTick(e)
  BY <1>0, <1>6 DEF ClearTick, Frees, Idle
<1>7. QED
  BY <1>2, <1>3, <1>4, <1>5, <1>6 DEF TickStep

LEMMA RefreshStops ==
  ASSUME ControlOK, NEW e \in Execs, RefreshStep(e), refreshStopping
  PROVE  ctl'[e].at # "coordinate"
<1>0. ctl \in [Execs -> CtlEntry]
  BY DEF ControlOK
<1>1. \A c, a, n : FinishRefresh(e, c, a, n) => ctl'[e].at = "settled"
  BY <1>0, GoesEffect DEF FinishRefresh, Waits
<1>2. \A S, H, c, n : NextRefresh(e, S, H, c, n) => ctl'[e].at = "settled"
  BY <1>1 DEF NextRefresh
<1>3. CASE RejectRefresh(e) \/ ClearRefresh(e)
  <2>1. ctl'[e] = Idle
    BY <1>0, <1>3 DEF RejectRefresh, ClearRefresh, Frees
  <2>2. QED
    BY <2>1 DEF Idle
<1>4. CASE AdmitRefresh(e)
  BY <1>4 DEF AdmitRefresh, MayRefresh
<1>5. CASE RefreshResolve(e)
  BY <1>0, <1>1, <1>5, GoesEffect DEF RefreshResolve, Waits
<1>6. CASE RefreshPlan(e)
  BY <1>1, <1>2, <1>6 DEF RefreshPlan
<1>7. CASE RefreshCoordinate(e)
  BY <1>2, <1>7 DEF RefreshCoordinate
<1>8. QED
  BY <1>3, <1>4, <1>5, <1>6, <1>7 DEF RefreshStep

LEMMA StepsStop ==
  ASSUME ControlOK, DataOK, NEW e \in Execs, Arrive(e) \/ Step(e), NEW f \in Execs
  PROVE  StopsAtOnce(f)
<1>1. Only(e) /\ LocStep(e)
  BY TickOwner, RefreshOwner, OtherOwner, ArriveType, TickType, RefreshType,
     RequestType DEF Step, OwnerStep
<1>2. CASE f # e
  BY <1>1, <1>2 DEF Only, LocStep, StopsAtOnce, Position
<1>3. CASE f = e
  <2>1. CASE Arrive(e)
    <3>1. ctl'[e].at \notin {"person", "coordinate"}
      BY <2>1 DEF Arrive, StartTick, RequestRefresh, StartRequest, StartFillRun,
                  ControlOK
    <3>2. QED
      BY <1>3, <3>1 DEF StopsAtOnce
  <2>2. CASE TickStep(e)
    <3>1. ctl[e].kind = "tick"
      BY <2>2 DEF TickStep, TickResolve, TickList, TickPlan, TickPerson,
                  TickCoordinate, ClearTick, TickAt
    <3>2. QED
      BY <1>3, <2>2, <3>1, TickStops DEF StopsAtOnce
  <2>3. CASE RefreshStep(e)
    <3>1. ctl[e].kind = "refresh"
      BY <2>3 DEF RefreshStep, RejectRefresh, AdmitRefresh, RefreshResolve,
                  RefreshPlan, RefreshCoordinate, ClearRefresh, RefreshAt
    <3>2. QED
      BY <1>3, <2>3, <3>1, RefreshStops DEF StopsAtOnce
  <2>4. CASE RequestStep(e)
    <3>1. ctl'[e].at \notin {"person", "coordinate"} \/ ctl[e].kind = "fillRun"
      <4>1. CASE EndRequest(e)
        <5>1. ctl'[e] = Idle
          BY <4>1 DEF EndRequest, Frees, ControlOK
        <5>2. QED
          BY <5>1 DEF Idle
      <4>2. QED
        BY <2>4, <4>1 DEF RequestStep, FillRunResolve, FillRunCoordinate, FillRunAt
    <3>2. QED
      BY <1>3, <3>1 DEF StopsAtOnce
  <2>5. QED
    BY <2>1, <2>2, <2>3, <2>4 DEF Step
<1>4. QED
  BY <1>2, <1>3

(***************************************************************************)
(* A runner that was told to stop lets its run finish what it is at: at    *)
(* every await the code reads the flag again before it takes up the next   *)
(* person or coordinate.                                                   *)
(***************************************************************************)
THEOREM StoppedRunsEnterNothingTheorem == Spec => StoppedRunsEnterNothing
<1>1. ControlOK /\ DataOK /\ [Next]_vars => [\A e \in Execs : StopsAtOnce(e)]_vars
  <2> SUFFICES ASSUME ControlOK, DataOK, [Next]_vars, NEW f \in Execs
               PROVE  StopsAtOnce(f) \/ UNCHANGED vars
    OBVIOUS
  <2>1. CASE StopTicks \/ StopRefresh \/ AdvanceClock
    BY <2>1 DEF StopTicks, StopRefresh, AdvanceClock, StopsAtOnce, Position
  <2>2. QED
    BY <2>1, StepsStop DEF Next
<1>2. Spec => [][\A e \in Execs : StopsAtOnce(e)]_vars
  BY <1>1, ControlOKInvariant, DataOKInvariant, PTL DEF Spec
<1>3. QED
  BY <1>2 DEF StoppedRunsEnterNothing, StopsAtOnce
==============================================================================
