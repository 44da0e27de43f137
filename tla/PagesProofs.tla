------------------------------ MODULE PagesProofs ------------------------------
(***************************************************************************)
(* Theorems of Pages for any number of rows, users, files and persons, and *)
(* for any bounds.  Each component has an invariant of its own; its        *)
(* variables are those of the pool that Pages gives it.                    *)
(***************************************************************************)
EXTENDS Pages, FiniteSetTheorems, SequenceTheorems, TLAPS

------------------------------------------------------------------------------
(* Downloads: x1 is now, x2 the rows, x3 the jobs, x4 the request. *)

DumpRow == [entity : Dumps!Entities, instant : Nat, person : Nat]
DumpRead ==
    [at : {"idle", "reading", "answered"}, scope : Scopes \cup {Dumps!Idle.scope},
     todo : SUBSET Dumps!Entities, got : SUBSET DumpRow,
     tables : SUBSET SUBSET DumpRow, steady : SUBSET DumpRow]

\* Every assessment of a set of rows has its person there.
Whole(R) ==
    \A a \in Dumps!Table("Assessment", R) :
        \E p \in Dumps!Table("Person", R) : p.person = a.person

\* A request knows what the tables held while it ran, and the rows that were
\* there all along.
Witnessed ==
    \A T \in x4.tables : T \subseteq DumpRow /\ Whole(T) /\ x4.steady \subseteq T

\* The tables that were read are each of one instant, the others to be read.
ReadSoFar ==
    x4.at = "reading" =>
        /\ x2 \in x4.tables
        /\ \A r \in x4.got : r.entity \in Dumps!Entities
        /\ \A e \in Dumps!Entities :
              IF e \in x4.todo THEN Dumps!Table(e, x4.got) = {}
              ELSE \E T \in x4.tables : Dumps!Table(e, x4.got) = Dumps!Table(e, T)

DumpsInv ==
    /\ x1 \in 1..MaxNow /\ x3 \subseteq Scopes
    /\ x2 \subseteq DumpRow /\ Whole(x2)
    /\ \A r \in x2 : r.instant <= x1 /\ r.person <= x1
    /\ x4 \in DumpRead
    /\ Witnessed /\ ReadSoFar
    /\ Dumps!TablesOfOneInstant

LEMMA DumpsStart == Dumps!Init => DumpsInv
<1> SUFFICES ASSUME Dumps!Init PROVE DumpsInv
  OBVIOUS
<1> USE DEF Dumps!Init, Dumps!Idle, Dumps!Scope, Dumps!Entities, DumpRow, DumpRead
<1>1. x1 \in 1..MaxNow /\ x3 \subseteq Scopes
  BY BoundsAssumption
<1>2. x2 \subseteq DumpRow /\ \A r \in x2 : r.instant <= x1 /\ r.person <= x1 /\ r.person = 0
  OBVIOUS
<1>5. \E p \in x2 : p.entity = "Person"
  OBVIOUS
<1>6. Whole(x2)
  BY <1>2, <1>5 DEF Whole, Dumps!Table
<1>3. x4.at = "idle" /\ x4.tables = {}
  OBVIOUS
<1>4. x4 \in DumpRead
  OBVIOUS
<1> QED
  BY <1>1, <1>2, <1>3, <1>4, <1>6
  DEF DumpsInv, Witnessed, ReadSoFar, Dumps!TablesOfOneInstant, Dumps!Answered

\* What a scope asks for of the rows is what is selected of them.
LEMMA SelectionIsAsked ==
    ASSUME NEW s \in Scopes \cup {Dumps!Idle.scope}, NEW R, R \subseteq DumpRow
    PROVE  Dumps!SelectExportRecords(s, R) = {r \in R : Dumps!Asks(s, r)}
<1>1. s.scope \in {"full", "range", "partial"} /\ s.start \in Nat /\ s.end \in Nat
  BY ScopesAssumption DEF Dumps!Idle, Dumps!Scope
<1>2. \A r \in R : r.instant \in s.start..(s.end - 1) <=> s.start <= r.instant /\ r.instant < s.end
  BY <1>1 DEF DumpRow
<1>3. CASE s.scope = "full"
  BY <1>3 DEF Dumps!SelectExportRecords, Dumps!Asks
<1>4. CASE s.scope = "range"
  BY <1>2, <1>4 DEF Dumps!SelectExportRecords, Dumps!Asks
<1>5. CASE s.scope = "partial"
  BY <1>5 DEF Dumps!SelectExportRecords, Dumps!Asks
<1> QED
  BY <1>1, <1>3, <1>4, <1>5

\* A write of the application keeps what the downloads rely on.
LEMMA WriteKeepsDumps ==
    ASSUME DumpsInv, NEW removed, NEW added, Dumps!Write(removed, added),
           \A a \in added : a.entity \in Dumps!Entities /\ a.person \in 0..(x1 + 1),
           Whole(x2')
    PROVE  DumpsInv'
<1> USE DEF DumpsInv
<1>1. x1 \in Nat /\ x1' \in 1..MaxNow /\ x1' = x1 + 1 /\ UNCHANGED x3
  BY BoundsAssumption DEF Dumps!Write
<1>2. x2' \subseteq DumpRow /\ \A r \in x2' : r.instant <= x1' /\ r.person <= x1'
  BY <1>1 DEF Dumps!Write, DumpRow
<1>3. CASE x4.at # "reading"
  <2>1. x4' = x4
    BY <1>3 DEF Dumps!Write
  <2> QED
    BY <1>1, <1>2, <1>3, <2>1
    DEF Witnessed, ReadSoFar, Dumps!TablesOfOneInstant, Dumps!Answered
<1>4. CASE x4.at = "reading"
  <2>1. x4' = [x4 EXCEPT !.tables = @ \cup {x2'}, !.steady = @ \cap x2']
    BY <1>4 DEF Dumps!Write
  <2>2. /\ x4'.at = "reading" /\ x4'.got = x4.got /\ x4'.todo = x4.todo
        /\ x4'.tables = x4.tables \cup {x2'} /\ x4'.steady = x4.steady \cap x2'
    BY <1>4, <2>1
  <2>3. x4' \in DumpRead
    <3>1. x4.tables \cup {x2'} \in SUBSET SUBSET DumpRow
      BY <1>2 DEF DumpRead
    <3>2. x4.steady \cap x2' \in SUBSET DumpRow
      BY <1>2
    <3> QED
      BY <2>1, <3>1, <3>2 DEF DumpRead
  <2>4. Witnessed'
    BY <1>2, <2>2 DEF Witnessed
  <2>5. ReadSoFar'
    BY <1>4, <2>2 DEF ReadSoFar
  <2>6. Dumps!TablesOfOneInstant'
    BY <2>2 DEF Dumps!TablesOfOneInstant, Dumps!Answered
  <2> QED
    BY <1>1, <1>2, <2>3, <2>4, <2>5, <2>6
<1> QED
  BY <1>3, <1>4

\* A step of the request or of the jobs keeps it; the rows stay.
LEMMA RequestKeepsDumps ==
    ASSUME DumpsInv,
           \/ \E s \in Scopes : Dumps!CreateJob(s)
           \/ Dumps!Download \/ Dumps!PreviewSelection
           \/ \E e \in Dumps!Entities : Dumps!CollectFullExportRecords(e)
           \/ Dumps!Materialize \/ Dumps!Ends
    PROVE  DumpsInv'
<1> USE DEF DumpsInv
<1>1. CASE \E s \in Scopes : Dumps!CreateJob(s)
  BY <1>1 DEF Dumps!CreateJob, Witnessed, ReadSoFar, Dumps!TablesOfOneInstant, Dumps!Answered
<1>2. CASE Dumps!Download \/ Dumps!PreviewSelection
  <2>1. PICK s \in Scopes : Dumps!Begins(s)
    BY <1>2 DEF Dumps!Download, Dumps!PreviewSelection
  <2>2. UNCHANGED <<x1, x2, x3>>
    BY <2>1 DEF Dumps!Begins
  <2>3. /\ x4'.at = "reading" /\ x4'.got = {} /\ x4'.todo = Dumps!Entities
        /\ x4'.tables = {x2} /\ x4'.steady = x2
    BY <2>1 DEF Dumps!Begins
  <2>4. x4' \in DumpRead
    BY <2>1 DEF Dumps!Begins, DumpRead
  <2> QED
    BY <2>2, <2>3, <2>4
    DEF Witnessed, ReadSoFar, Dumps!TablesOfOneInstant, Dumps!Answered, Dumps!Table
<1>3. ASSUME NEW e \in Dumps!Entities, Dumps!CollectFullExportRecords(e) PROVE DumpsInv'
  <2>1. UNCHANGED <<x1, x2, x3>> /\ x4.at = "reading" /\ e \in x4.todo
    BY <1>3 DEF Dumps!CollectFullExportRecords, DumpRead
  <2>2. /\ x4'.at = "reading" /\ x4'.got = x4.got \cup Dumps!Table(e, x2)
        /\ x4'.todo = x4.todo \ {e} /\ x4'.tables = x4.tables /\ x4'.steady = x4.steady
        /\ x4'.scope = x4.scope
        /\ x4' = [x4 EXCEPT !.todo = @ \ {e}, !.got = @ \cup Dumps!Table(e, x2)]
    BY <1>3 DEF Dumps!CollectFullExportRecords, DumpRead
  <2>3. Dumps!Table(e, x2) \subseteq DumpRow
    BY DEF Dumps!Table
  <2>4. x4' \in DumpRead
    BY <2>2, <2>3 DEF DumpRead
  <2>5. Dumps!Table(e, x4'.got) = Dumps!Table(e, x2)
    BY <2>1, <2>2 DEF ReadSoFar, Dumps!Table
  <2>6. \A d \in Dumps!Entities \ {e} : Dumps!Table(d, x4'.got) = Dumps!Table(d, x4.got)
    BY <2>2 DEF Dumps!Table
  <2>7. ReadSoFar'
    <3>1. x2 \in x4'.tables /\ \A r \in x4'.got : r.entity \in Dumps!Entities
      BY <2>1, <2>2, <2>3 DEF ReadSoFar, DumpRow
    <3>2. ASSUME NEW d \in Dumps!Entities
          PROVE  IF d \in x4'.todo THEN Dumps!Table(d, x4'.got) = {}
                 ELSE \E T \in x4'.tables : Dumps!Table(d, x4'.got) = Dumps!Table(d, T)
      <4>1. CASE d = e
        BY <2>2, <2>5, <3>1, <4>1
      <4>2. CASE d # e
        BY <2>1, <2>2, <2>6, <4>2 DEF ReadSoFar
      <4> QED
        BY <4>1, <4>2
    <3> QED
      BY <2>1, <3>1, <3>2 DEF ReadSoFar, Dumps!Table
  <2> QED
    BY <2>1, <2>2, <2>4, <2>7 DEF Witnessed, Dumps!TablesOfOneInstant, Dumps!Answered
<1>4. CASE Dumps!Materialize
  <2>1. UNCHANGED <<x1, x2, x3>> /\ x4.at = "reading" /\ x4.todo = {}
    BY <1>4 DEF Dumps!Materialize
  <2>2. /\ x4'.at = "answered" /\ x4'.got = Dumps!SelectExportRecords(x4.scope, x4.got)
        /\ x4'.tables = x4.tables /\ x4'.steady = x4.steady /\ x4'.scope = x4.scope
        /\ x4' = [x4 EXCEPT !.at = "answered",
                            !.got = Dumps!SelectExportRecords(x4.scope, @)]
    BY <1>4 DEF Dumps!Materialize
  <2>3. x4'.got = {r \in x4.got : Dumps!Asks(x4.scope, r)}
    BY <2>2, SelectionIsAsked DEF DumpRead
  <2>4. x4' \in DumpRead
    BY <2>2, <2>3 DEF DumpRead
  <2>5. Dumps!TablesOfOneInstant'
    <3>1. SUFFICES ASSUME NEW e \in Dumps!Entities
                   PROVE  \E T \in x4.tables :
                             Dumps!Table(e, x4'.got)
                                 = {r \in Dumps!Table(e, T) : Dumps!Asks(x4.scope, r)}
      BY <2>2 DEF Dumps!TablesOfOneInstant, Dumps!Asks, Dumps!Table
    <3>2. PICK T \in x4.tables : Dumps!Table(e, x4.got) = Dumps!Table(e, T)
      BY <2>1 DEF ReadSoFar
    <3>3. Dumps!Table(e, x4'.got) = {r \in Dumps!Table(e, x4.got) : Dumps!Asks(x4.scope, r)}
      BY <2>3 DEF Dumps!Table
    <3> QED
      BY <3>2, <3>3
  <2> QED
    BY <2>1, <2>2, <2>4, <2>5 DEF Witnessed, ReadSoFar
<1>5. CASE Dumps!Ends
  <2>1. UNCHANGED <<x1, x2, x3>> /\ x4' = Dumps!Idle
    BY <1>5 DEF Dumps!Ends
  <2>2. /\ x4'.at = "idle" /\ x4'.tables = {}
        /\ x4' \in DumpRead
    BY <2>1 DEF Dumps!Idle, DumpRead
  <2> QED
    BY <2>1, <2>2 DEF Witnessed, ReadSoFar, Dumps!TablesOfOneInstant, Dumps!Answered
<1> QED
  BY <1>1, <1>2, <1>3, <1>4, <1>5

\* So does every step.  A person goes with the assessments that name it, and an
\* assessment is written of a person that is there.
LEMMA DumpsGoOn == DumpsInv /\ [Dumps!Next]_(Dumps!vars) => DumpsInv'
<1> SUFFICES ASSUME DumpsInv, [Dumps!Next]_(Dumps!vars) PROVE DumpsInv'
  OBVIOUS
<1>1. /\ x1 \in Nat /\ x2 \subseteq DumpRow /\ Whole(x2)
      /\ \A r \in x2 : r.person \in 0..(x1 + 1)
  BY DEF DumpsInv, DumpRow
<1>a. ASSUME NEW e \in Dumps!Entities, NEW person \in 0..(x1 + 1), NEW removed,
             removed \subseteq Dumps!Table("Assessment", x2),
             e = "Assessment" => \E p \in Dumps!Table("Person", x2) : p.person = person,
             Dumps!Write(removed, Dumps!New(e, person))
      PROVE  DumpsInv'
  <2>1. x2' = (x2 \ removed) \cup {[entity |-> e, instant |-> x1', person |-> person]}
    BY <1>a DEF Dumps!Write, Dumps!New
  <2>2. Dumps!Table("Person", x2) \subseteq Dumps!Table("Person", x2')
    BY <1>a, <2>1 DEF Dumps!Table
  <2>3. \A a \in Dumps!Table("Assessment", x2') :
           \/ a \in Dumps!Table("Assessment", x2)
           \/ e = "Assessment" /\ a.person = person
    BY <2>1 DEF Dumps!Table
  <2>4. Whole(x2')
    BY <1>1, <1>a, <2>2, <2>3 DEF Whole
  <2> QED
    BY <1>a, <2>4, WriteKeepsDumps DEF Dumps!New
<1>2. CASE Dumps!CreatePerson
  BY <1>1, <1>2, <1>a DEF Dumps!CreatePerson, Dumps!Entities
<1>3. CASE Dumps!WriteAuditLog
  BY <1>1, <1>3, <1>a DEF Dumps!WriteAuditLog, Dumps!Entities
<1>4. ASSUME NEW p \in Dumps!Table("Person", x2), Dumps!Evaluate(p) PROVE DumpsInv'
  BY <1>1, <1>4, <1>a DEF Dumps!Evaluate, Dumps!Entities, Dumps!Table
<1>5. ASSUME NEW p \in Dumps!Table("Person", x2), Dumps!RemovePerson(p) PROVE DumpsInv'
  <2>1. x2' = x2 \ ({p} \cup {r \in x2 : r.entity = "Assessment" /\ r.person = p.person})
    BY <1>5 DEF Dumps!RemovePerson, Dumps!Write
  <2>2. \A a \in Dumps!Table("Assessment", x2') :
           a \in Dumps!Table("Assessment", x2) /\ a.person # p.person
    BY <2>1 DEF Dumps!Table
  <2>3. \A q \in Dumps!Table("Person", x2) : q # p => q \in Dumps!Table("Person", x2')
    BY <2>1 DEF Dumps!Table
  <2>4. Whole(x2')
    BY <1>1, <2>2, <2>3 DEF Whole
  <2> QED
    BY <1>5, <2>4, WriteKeepsDumps DEF Dumps!RemovePerson
<1>6. ASSUME NEW a \in Dumps!Table("Assessment", x2), Dumps!Reevaluate(a) PROVE DumpsInv'
  BY <1>1, <1>6, <1>a DEF Dumps!Reevaluate, Dumps!Entities, Dumps!Table, Whole
<1>7. CASE UNCHANGED Dumps!vars
  BY <1>7 DEF Dumps!vars, DumpsInv, Witnessed, ReadSoFar, Whole, Dumps!TablesOfOneInstant,
              Dumps!Answered
<1> QED
  BY <1>2, <1>3, <1>4, <1>5, <1>6, <1>7, RequestKeepsDumps DEF Dumps!Next

\* A person that is missing beside its assessment came or went meanwhile.
LEMMA DumpsAreAsSaid ==
    DumpsInv => Dumps!TypeOK /\ Dumps!TablesOfOneInstant /\ Dumps!DanglingOnlyIfRaced
<1> SUFFICES ASSUME DumpsInv
             PROVE  Dumps!TypeOK /\ Dumps!TablesOfOneInstant /\ Dumps!DanglingOnlyIfRaced
  OBVIOUS
<1>1. Dumps!TypeOK
  BY DEF DumpsInv, Dumps!TypeOK, DumpRow, DumpRead
<1>2. SUFFICES ASSUME x4.at = "answered", x4.scope.scope = "full",
                      NEW a \in Dumps!Table("Assessment", x4.got),
                      \A p \in Dumps!Table("Person", (UNION x4.tables) \ x4.steady) :
                          p.person # a.person
               PROVE  \E p \in Dumps!Table("Person", x4.got) : p.person = a.person
  BY <1>1 DEF DumpsInv, Dumps!DanglingOnlyIfRaced, Dumps!Answered
<1>3. ASSUME NEW e \in Dumps!Entities
      PROVE  \E T \in x4.tables : Dumps!Table(e, x4.got) = Dumps!Table(e, T)
  <2>1. PICK T \in x4.tables :
           Dumps!Table(e, x4.got) = {r \in Dumps!Table(e, T) : Dumps!Asks(x4.scope, r)}
    BY <1>2 DEF DumpsInv, Dumps!TablesOfOneInstant, Dumps!Answered
  <2>2. \A r : Dumps!Asks(x4.scope, r)
    BY <1>2 DEF Dumps!Asks
  <2> QED
    BY <2>1, <2>2
<1>4. PICK T \in x4.tables : Dumps!Table("Assessment", x4.got) = Dumps!Table("Assessment", T)
  BY <1>3 DEF Dumps!Entities
<1>5. PICK p \in Dumps!Table("Person", T) : p.person = a.person
  BY <1>2, <1>4 DEF DumpsInv, Witnessed, Whole
<1>6. p \in x4.steady
  <2>1. p \in T /\ p.entity = "Person"
    BY <1>5 DEF Dumps!Table
  <2>2. p \in UNION x4.tables
    BY <2>1
  <2>3. p \notin Dumps!Table("Person", (UNION x4.tables) \ x4.steady)
    BY <1>2, <1>5
  <2> QED
    BY <2>1, <2>2, <2>3 DEF Dumps!Table
<1>7. PICK S \in x4.tables : Dumps!Table("Person", x4.got) = Dumps!Table("Person", S)
  BY <1>3 DEF Dumps!Entities
<1>8. p \in Dumps!Table("Person", S)
  BY <1>5, <1>6 DEF DumpsInv, Witnessed, Dumps!Table
<1> QED
  BY <1>5, <1>7, <1>8

------------------------------------------------------------------------------
(* The shell: x1 is the view, x2 the user, x3 restoreAttempted, x4 loadRan, *)
(* x5 the banner, x6 and x7 the cookies, x8 the requests, x9 who logged in   *)
(* last, x10 the mishaps, x11 the events, x12 the gate.                      *)

Someone == Users \cup {"none"}

ShellRequest ==
    [what : {"restore", "load", "poll", "login", "logout", "setup"}, wanted : BOOLEAN,
     at : {"sent", "refreshing", "resent"}, as : Someone, who : Someone]

ShellTypes ==
    /\ x1 \in {"login", "setup", "dashboard", "admin"}
    /\ x2 \in Someone /\ x9 \in Someone
    /\ x3 \in BOOLEAN /\ x4 \in BOOLEAN /\ x5 \in BOOLEAN
    /\ x6 \in [user : Someone, live : BOOLEAN] /\ x7 \in Someone
    /\ x8 \subseteq ShellRequest
    /\ x10 \subseteq {"kept", "late", "crossed", "stray", "ousted"} /\ x11 \in 0..MaxEvents
    /\ x12 \in {"none", "form", "inside"}

\* Whoever the page or a cookie stands for is who logged in last, or cookies
\* outlived a logout or came late.
Stray(u) == u \notin {"none", x9}
Leaked == x10 \cap {"kept", "late"} # {}
Ousted == "ousted" \in x10
Matched == (x12 = "inside") = Shell!IsAuthedView(x1)

\* A request that is still wanted was sent from a state like the present one;
\* its answer is about who logged in last, or a mishap explains it.
WantedFits(r) ==
    CASE r.what = "restore" -> /\ r.wanted => x1 = "login" /\ ~x3 /\ x2 = "none"
                               /\ r.wanted /\ Stray(r.as) => Leaked \/ Ousted
      [] r.what = "load" -> r.wanted /\ Stray(r.as) => x10 # {}
      [] r.what = "poll" -> r.wanted => Shell!IsAuthedView(x1)
      [] r.what = "login" -> r.who # "none"
      \* Who left the page is logged out there, or was led out.
      [] r.what = "logout" -> Shell!IsAuthedView(x1) \/ x9 = "none" \/ Ousted
      [] r.what = "setup" -> TRUE

ShellInv ==
    /\ ShellTypes
    /\ \A r \in x8 : WantedFits(r)
    /\ Stray(x6.user) => Leaked
    /\ Stray(x7) => Leaked
    /\ Stray(x2) => x10 # {}
    /\ x5 => Shell!IsAuthedView(x1)
    /\ x6.live => x6.user # "none"
    /\ Matched \/ "stray" \in x10 \/ Ousted

\* A request that stays on its way while the state changes is the same but for
\* being wanted, and is wanted only if what it depends on stayed.
LEMMA BecomingCancels ==
    ASSUME NEW v, NEW u, NEW a, NEW anew, NEW rs,
           rs \subseteq ShellRequest, Shell!Becomes(v, u, a, anew, rs)
    PROVE  /\ x1' = v /\ x2' = u /\ x3' = a
           /\ x4' = (x4 /\ x1 = v /\ x2 = u) /\ x5' = (x5 /\ Shell!IsAuthedView(v))
           /\ \A q \in x8' : \E r \in rs :
                 /\ q \in ShellRequest /\ q.what = r.what /\ q.as = r.as /\ q.who = r.who
                 /\ q.wanted => r.wanted
                 /\ q.wanted /\ q.what = "restore" => x1 = v /\ x3 = a /\ x2 = u
                 /\ q.wanted /\ q.what = "load" => x1 = v /\ x2 = u
                 /\ q.wanted /\ q.what = "poll" => x1 = v
<1> DEFINE Stays(r) == ~Shell!Cancelled(r.what, v, u, a, anew)
<1>1. /\ x1' = v /\ x2' = u /\ x3' = a
      /\ x4' = (x4 /\ x1 = v /\ x2 = u) /\ x5' = (x5 /\ Shell!IsAuthedView(v))
      /\ x8' = {[r EXCEPT !.wanted = @ /\ Stays(r)] : r \in rs}
  BY DEF Shell!Becomes
<1>2. ASSUME NEW r \in rs, Stays(r)
      PROVE  /\ r.what = "restore" => x1 = v /\ x3 = a /\ x2 = u
             /\ r.what = "load" => x1 = v /\ x2 = u
             /\ r.what = "poll" => x1 = v
  BY <1>2 DEF Shell!Cancelled
<1>3. ASSUME NEW q \in x8'
      PROVE  \E r \in rs :
                 /\ q \in ShellRequest /\ q.what = r.what /\ q.as = r.as /\ q.who = r.who
                 /\ q.wanted => r.wanted
                 /\ q.wanted /\ q.what = "restore" => x1 = v /\ x3 = a /\ x2 = u
                 /\ q.wanted /\ q.what = "load" => x1 = v /\ x2 = u
                 /\ q.wanted /\ q.what = "poll" => x1 = v
  <2> HIDE DEF Stays
  <2>1. PICK r \in rs : q = [r EXCEPT !.wanted = @ /\ Stays(r)]
    BY <1>1
  <2>2. /\ q \in ShellRequest /\ q.what = r.what /\ q.as = r.as /\ q.who = r.who
        /\ q.wanted = (r.wanted /\ Stays(r))
    BY <2>1 DEF ShellRequest
  <2>3. q.wanted => r.wanted /\ Stays(r)
    BY <2>2
  <2> QED
    BY <1>2, <2>2, <2>3
<1> QED
  BY <1>1, <1>3

\* What a request rests on stays while nobody logs in or out.
LEMMA FitsStays ==
    ASSUME NEW r \in ShellRequest, NEW q \in ShellRequest, WantedFits(r),
           q.what = r.what, q.as = r.as, q.who = r.who, q.wanted => r.wanted,
           q.wanted /\ q.what = "restore" => UNCHANGED <<x1, x2, x3>>,
           q.wanted /\ q.what = "poll" => UNCHANGED x1,
           Shell!IsAuthedView(x1) => Shell!IsAuthedView(x1') \/ Ousted',
           UNCHANGED x9, x10 \subseteq x10'
    PROVE  WantedFits(q)'
<1>1. q.what \in {"restore", "load", "poll", "login", "logout", "setup"}
  BY DEF ShellRequest
<1>2. CASE q.what = "restore"
  BY <1>2 DEF WantedFits, Stray, Leaked, Ousted
<1>3. CASE q.what = "load"
  BY <1>3 DEF WantedFits, Stray
<1>4. CASE q.what = "poll"
  BY <1>4 DEF WantedFits, Shell!IsAuthedView
<1>5. CASE q.what = "login"
  BY <1>5 DEF WantedFits
<1>6. CASE q.what = "logout"
  BY <1>6 DEF WantedFits, Ousted, Shell!IsAuthedView
<1>7. CASE q.what = "setup"
  BY <1>7 DEF WantedFits
<1> QED
  BY <1>1, <1>2, <1>3, <1>4, <1>5, <1>6, <1>7

LEMMA ShellStarts == Shell!Init => ShellInv
<1> SUFFICES ASSUME Shell!Init PROVE ShellInv
  OBVIOUS
<1>1. PICK u \in Users \cup {"none"} :
         x6 = [user |-> u, live |-> u # "none"] /\ x7 = u /\ x9 = u
  BY DEF Shell!Init, Shell!None
<1>2. ShellTypes
  <2>1. (u # "none") \in BOOLEAN
    OBVIOUS
  <2>2. x6 \in [user : Someone, live : BOOLEAN]
    BY <1>1, <2>1 DEF Someone
  <2>3. x7 \in Someone /\ x9 \in Someone
    BY <1>1 DEF Someone
  <2>4. 0 \in 0..MaxEvents
    BY BoundsAssumption
  <2> QED
    BY <2>2, <2>3, <2>4 DEF Shell!Init, Shell!None, ShellTypes, Someone
<1>3. x1 = "login" /\ x12 = "form"
  BY DEF Shell!Init
<1>4. Matched
  BY <1>3 DEF Matched, Shell!IsAuthedView
<1> QED
  BY <1>1, <1>2, <1>4 DEF Shell!Init, Shell!None, ShellInv, Stray

\* Steps at which the state of the page stays: requests are sent, refused,
\* refreshed and given up.
LEMMA RequestsKeepShell ==
    ASSUME ShellInv, UNCHANGED <<x1, x2, x3, x9, x12>>, x10 \subseteq x10', ShellTypes',
           \A q \in x8' : q \in x8 \/ WantedFits(q)',
           Stray(x6.user)' => Leaked', Stray(x7)' => Leaked',
           x5' => Shell!IsAuthedView(x1), x6'.live => x6'.user # "none"
    PROVE  ShellInv'
<1>1. \A q \in x8' : WantedFits(q)'
  BY FitsStays DEF ShellInv, ShellTypes
<1>2. Stray(x2)' => x10' # {}
  BY DEF ShellInv, Stray
<1>3. (Matched \/ "stray" \in x10 \/ Ousted)'
  BY DEF ShellInv, Matched, Ousted
<1> QED
  BY <1>1, <1>2, <1>3 DEF ShellInv, Shell!IsAuthedView

\* A request carries the access cookie, or none.
LEMMA SentIsOfCookie ==
    ASSUME ShellInv, NEW what \in {"restore", "load", "poll", "login", "logout", "setup"}
    PROVE  LET r == Shell!Sent(what) IN
           /\ r \in ShellRequest /\ r.what = what
           /\ Stray(r.as) => Leaked
<1>1. CASE x6.live
  BY <1>1 DEF ShellInv, ShellTypes, Shell!Sent, Shell!None, ShellRequest, Someone
<1>2. CASE ~x6.live
  BY <1>2 DEF ShellInv, ShellTypes, Shell!Sent, Shell!None, ShellRequest, Someone, Stray
<1> QED
  BY <1>1, <1>2

\* So does a request that is sent.
LEMMA SendKeepsShell ==
    ASSUME ShellInv, NEW r \in ShellRequest, WantedFits(r), x8' = x8 \cup {r},
           UNCHANGED <<x1, x2, x3, x5, x6, x7, x9, x10, x12>>,
           x4' \in BOOLEAN, x11' \in 0..MaxEvents
    PROVE  ShellInv'
<1>1. ShellTypes'
  BY DEF ShellInv, ShellTypes
<1>2. \A q \in x8' : q \in ShellRequest /\ WantedFits(q)
  BY DEF ShellInv, ShellTypes
<1>3. \A q \in x8' : WantedFits(q)'
  BY <1>2 DEF WantedFits, Stray, Leaked, Ousted, Shell!IsAuthedView
<1> QED
  BY <1>1, <1>3 DEF ShellInv, Stray, Leaked, Ousted, Matched, Shell!IsAuthedView

LEMMA SendingKeepsShell ==
    ASSUME ShellInv,
           \/ Shell!StartRestore \/ Shell!StartLoad \/ Shell!Poll \/ Shell!Logout
           \/ Shell!SubmitSetup \/ \E u \in Users : Shell!Login(u)
    PROVE  ShellInv'
<1>1. CASE Shell!StartRestore
  <2>1. x1 = "login" /\ ~x3 /\ x2 = "none"
    BY <1>1 DEF Shell!StartRestore, Shell!ShouldRestoreSession, Shell!None
  <2>2. WantedFits(Shell!Sent("restore"))
    BY <2>1, SentIsOfCookie DEF WantedFits
  <2> QED
    BY <1>1, <2>2, SentIsOfCookie, SendKeepsShell DEF Shell!StartRestore, ShellInv, ShellTypes
<1>2. CASE Shell!StartLoad
  <2>1. WantedFits(Shell!Sent("load"))
    BY SentIsOfCookie DEF WantedFits, Leaked
  <2> QED
    BY <1>2, <2>1, SentIsOfCookie, SendKeepsShell DEF Shell!StartLoad, ShellInv, ShellTypes
<1>3. x11 \in 0..MaxEvents /\ x11 < MaxEvents => x11 + 1 \in 0..MaxEvents
  BY BoundsAssumption
<1>4. CASE Shell!Poll
  <2>1. WantedFits(Shell!Sent("poll"))
    BY <1>4, SentIsOfCookie DEF WantedFits, Shell!Poll
  <2> QED
    BY <1>3, <1>4, <2>1, SentIsOfCookie, SendKeepsShell DEF Shell!Poll, ShellInv, ShellTypes
<1>5. CASE Shell!Logout
  <2>1. WantedFits(Shell!Sent("logout"))
    BY <1>5, SentIsOfCookie DEF WantedFits, Shell!Logout
  <2> QED
    BY <1>3, <1>5, <2>1, SentIsOfCookie, SendKeepsShell DEF Shell!Logout, ShellInv, ShellTypes
<1>6. ASSUME NEW u \in Users, Shell!Login(u) PROVE ShellInv'
  <2>0. PICK sent : sent = [Shell!Sent("login") EXCEPT !.as = "none", !.who = u]
    OBVIOUS
  <2>1. sent \in ShellRequest /\ sent.what = "login" /\ sent.who = u
    BY <2>0, SentIsOfCookie DEF ShellRequest, Someone
  <2>2. WantedFits(sent)
    BY <2>1, NamesAssumption DEF WantedFits
  <2>3. /\ x8' = x8 \cup {sent} /\ x11' = x11 + 1 /\ x11 < MaxEvents
        /\ UNCHANGED <<x1, x2, x3, x4, x5, x6, x7, x9, x10, x12>>
    BY <1>6, <2>0 DEF Shell!Login, Shell!None
  <2> QED
    BY <1>3, <2>1, <2>2, <2>3, SendKeepsShell DEF ShellInv, ShellTypes
<1>7. CASE Shell!SubmitSetup
  <2>0. PICK sent : sent = [Shell!Sent("setup") EXCEPT !.as = "none"]
    OBVIOUS
  <2>1. sent \in ShellRequest /\ sent.what = "setup"
    BY <2>0, SentIsOfCookie DEF ShellRequest, Someone
  <2>2. WantedFits(sent)
    BY <2>1 DEF WantedFits
  <2>3. /\ x8' = x8 \cup {sent} /\ x11' = x11 + 1 /\ x11 < MaxEvents
        /\ UNCHANGED <<x1, x2, x3, x4, x5, x6, x7, x9, x10, x12>>
    BY <1>7, <2>0 DEF Shell!SubmitSetup, Shell!None
  <2> QED
    BY <1>3, <2>1, <2>2, <2>3, SendKeepsShell DEF ShellInv, ShellTypes
<1> QED
  BY <1>1, <1>2, <1>4, <1>5, <1>6, <1>7

\* New cookies are asked for and come, whoever is logged in by then.
LEMMA RefreshKeepsShell ==
    ASSUME ShellInv, NEW r \in x8, Shell!Refused(r) \/ Shell!Refreshed(r)
    PROVE  ShellInv'
<1>1. r \in ShellRequest /\ WantedFits(r) /\ ShellTypes
  BY DEF ShellInv, ShellTypes
<1>2. CASE Shell!Refused(r)
  <2>0. PICK q : q = [r EXCEPT !.at = "refreshing", !.as = x7]
    OBVIOUS
  <2>1. /\ x8' = (x8 \ {r}) \cup {q} /\ r.what \in {"restore", "load", "poll", "login"}
        /\ UNCHANGED <<x1, x2, x3, x4, x5, x6, x7, x9, x10, x11, x12>>
    BY <1>2, <2>0 DEF Shell!Refused
  <2>2. q \in ShellRequest /\ q.what = r.what /\ q.wanted = r.wanted /\ q.as = x7 /\ q.who = r.who
    BY <1>1, <2>0 DEF ShellRequest, ShellTypes
  <2>3. WantedFits(q)
    BY <1>1, <2>1, <2>2 DEF WantedFits, ShellInv, Leaked
  <2>4. WantedFits(q)'
    BY <2>1, <2>2, <2>3, FitsStays
  <2>5. ShellTypes'
    BY <1>1, <2>1, <2>2 DEF ShellTypes
  <2> QED
    BY <2>1, <2>4, <2>5, RequestsKeepShell DEF ShellInv, Stray, Leaked
<1>3. CASE Shell!Refreshed(r)
  <2> DEFINE q == [r EXCEPT !.at = "resent"]
  <2>1. /\ x8' = (x8 \ {r}) \cup {q} /\ r.as # "none"
        /\ x6' = [user |-> r.as, live |-> TRUE] /\ x7' = r.as
        /\ x10' = IF r.as = x9 THEN x10 ELSE x10 \cup {"late"}
        /\ UNCHANGED <<x1, x2, x3, x4, x5, x9, x11, x12>>
    BY <1>3 DEF Shell!Refreshed, Shell!None
  <2>2. q \in ShellRequest /\ q.what = r.what /\ q.wanted = r.wanted /\ q.as = r.as
        /\ q.who = r.who
    BY <1>1 DEF ShellRequest
  <2> HIDE DEF q
  <2>3. x10 \subseteq x10' /\ (Stray(r.as)' => Leaked')
    BY <2>1 DEF Stray, Leaked
  <2>4. WantedFits(q)'
    BY <1>1, <2>1, <2>2, <2>3, FitsStays
  <2>5. ShellTypes'
    BY <1>1, <2>1, <2>2 DEF ShellTypes, ShellRequest
  <2> QED
    BY <2>1, <2>3, <2>4, <2>5, RequestsKeepShell DEF ShellInv, Stray
<1> QED
  BY <1>2, <1>3

\* The state of the page changes, and nobody logs in or out.
LEMMA BecomingKeepsShell ==
    ASSUME ShellInv, NEW v \in {"login", "setup", "dashboard", "admin"}, NEW u \in Someone,
           NEW a \in BOOLEAN, NEW anew, NEW rs \in SUBSET x8, Shell!Becomes(v, u, a, anew, rs),
           UNCHANGED <<x6, x7, x9, x11>>, x10 \subseteq x10',
           x10' \subseteq {"kept", "late", "crossed", "stray", "ousted"},
           x12' \in {"none", "form", "inside"},
           Shell!IsAuthedView(x1) => Shell!IsAuthedView(v) \/ Ousted',
           Stray(u) => x10 # {},
           (x12' = "inside") = Shell!IsAuthedView(v) \/ Ousted' \/ UNCHANGED <<x1, x12>>
    PROVE  ShellInv'
<1>1. ShellTypes /\ rs \subseteq ShellRequest /\ \A r \in rs : WantedFits(r)
  BY DEF ShellInv, ShellTypes
<1>2. /\ x1' = v /\ x2' = u /\ x3' = a
      /\ x4' = (x4 /\ x1 = v /\ x2 = u) /\ x5' = (x5 /\ Shell!IsAuthedView(v))
  BY <1>1, BecomingCancels
<1>3. ASSUME NEW q \in x8' PROVE q \in ShellRequest /\ WantedFits(q)'
  <2>1. PICK r \in rs :
           /\ q \in ShellRequest /\ q.what = r.what /\ q.as = r.as /\ q.who = r.who
           /\ q.wanted => r.wanted
           /\ q.wanted /\ q.what = "restore" => x1 = v /\ x3 = a /\ x2 = u
           /\ q.wanted /\ q.what = "load" => x1 = v /\ x2 = u
           /\ q.wanted /\ q.what = "poll" => x1 = v
    BY <1>1, BecomingCancels
  <2> QED
    BY <1>1, <1>2, <2>1, FitsStays
<1>4. ShellTypes'
  BY <1>1, <1>2, <1>3 DEF ShellTypes
<1>5. x5' => Shell!IsAuthedView(x1')
  BY <1>2
<1>6. (Matched \/ "stray" \in x10 \/ Ousted)'
  BY <1>2 DEF ShellInv, Matched, Ousted
<1> QED
  BY <1>2, <1>3, <1>4, <1>5, <1>6 DEF ShellInv, Stray, Leaked, Shell!IsAuthedView

LEMMA AnswersKeepShell ==
    ASSUME ShellInv, NEW r \in x8,
           \/ Shell!Restored(r) \/ Shell!Loaded(r) \/ Shell!Polled(r) \/ Shell!RequestFails(r)
           \/ Shell!LoginFails(r)
    PROVE  ShellInv'
<1>1. /\ r \in ShellRequest /\ WantedFits(r) /\ ShellTypes /\ x8 \ {r} \in SUBSET x8
      /\ r.as \in Someone /\ r.wanted \in BOOLEAN
      /\ x1 \in {"login", "setup", "dashboard", "admin"} /\ x2 \in Someone /\ x3 \in BOOLEAN
      /\ Stray(x2) => x10 # {}
      /\ x10 \subseteq {"kept", "late", "crossed", "stray", "ousted"}
      /\ x12 \in {"none", "form", "inside"}
  BY DEF ShellInv, ShellTypes, ShellRequest
<1>2. CASE Shell!Restored(r)
  <2>1. UNCHANGED <<x6, x7, x9, x10, x11>> /\ r.what = "restore"
    BY <1>2 DEF Shell!Restored
  <2>2. CASE r.wanted
    <3>1. Shell!Becomes("dashboard", r.as, TRUE, TRUE, x8 \ {r}) /\ x12' = "inside"
      BY <1>2, <2>2 DEF Shell!Restored, Shell!GateAfter, Shell!IsAuthedView
    <3>2. Stray(r.as) => x10 # {}
      BY <1>1, <2>1, <2>2 DEF WantedFits, Leaked, Ousted
    <3>3. (x12' = "inside") = Shell!IsAuthedView("dashboard")
      BY <3>1 DEF Shell!IsAuthedView
    <3>4. Shell!IsAuthedView("dashboard")
      BY DEF Shell!IsAuthedView
    <3> QED
      BY <1>1, <2>1, <3>1, <3>2, <3>3, <3>4, BecomingKeepsShell
  <2>3. CASE ~r.wanted
    <3>1. Shell!Becomes(x1, x2, x3, FALSE, x8 \ {r}) /\ x12' = x12
      BY <1>2, <2>3 DEF Shell!Restored
    <3>2. x1' = x1
      BY <3>1 DEF Shell!Becomes
    <3> QED
      BY <1>1, <2>1, <3>1, <3>2, BecomingKeepsShell
  <2> QED
    BY <2>2, <2>3
<1>3. CASE Shell!Loaded(r)
  <2>1. UNCHANGED <<x1, x6, x7, x9, x10, x11, x12>> /\ r.what = "load"
    BY <1>3 DEF Shell!Loaded, Shell!Becomes
  <2>2. CASE r.wanted
    <3>1. Shell!Becomes(x1, r.as, x3, FALSE, x8 \ {r})
      BY <1>3, <2>2 DEF Shell!Loaded
    <3>2. Stray(r.as) => x10 # {}
      BY <1>1, <2>1, <2>2 DEF WantedFits
    <3> QED
      BY <1>1, <2>1, <3>1, <3>2, BecomingKeepsShell
  <2>3. CASE ~r.wanted
    <3>1. Shell!Becomes(x1, x2, x3, FALSE, x8 \ {r})
      BY <1>3, <2>3 DEF Shell!Loaded
    <3> QED
      BY <1>1, <2>1, <3>1, BecomingKeepsShell
  <2> QED
    BY <2>2, <2>3
<1>4. CASE Shell!Polled(r)
  <2>1. /\ UNCHANGED <<x1, x2, x3, x4, x6, x7, x9, x10, x11, x12>> /\ r.what = "poll"
        /\ x8' = x8 \ {r} /\ x5' \in BOOLEAN /\ (x5' => x5 \/ r.wanted)
    BY <1>1, <1>4 DEF Shell!Polled, ShellTypes
  <2>2. x5' => Shell!IsAuthedView(x1)
    BY <1>1, <2>1 DEF ShellInv, WantedFits
  <2>3. ShellTypes'
    BY <1>1, <2>1 DEF ShellTypes
  <2> QED
    BY <2>1, <2>2, <2>3, RequestsKeepShell DEF ShellInv, Stray, Leaked
<1>5. CASE Shell!RequestFails(r) /\ r.what = "poll"
  <2>1. /\ UNCHANGED <<x1, x2, x3, x4, x6, x7, x9, x10, x11, x12>>
        /\ x8' = x8 \ {r} /\ x5' = (x5 /\ ~r.wanted)
    BY <1>5 DEF Shell!RequestFails
  <2>2. x5' \in BOOLEAN /\ (x5' => x5)
    BY <1>1, <2>1 DEF ShellTypes
  <2>3. ShellTypes'
    BY <1>1, <2>1, <2>2 DEF ShellTypes
  <2> QED
    BY <2>1, <2>2, <2>3, RequestsKeepShell DEF ShellInv, Stray, Leaked
<1>6. CASE Shell!RequestFails(r) /\ r.what # "poll"
  <2> DEFINE tried == x3 \/ (r.what = "restore" /\ r.wanted)
  <2>1. /\ UNCHANGED <<x1, x6, x7, x9, x10, x11, x12>>
        /\ Shell!Becomes(x1, x2, tried, FALSE, x8 \ {r})
    BY <1>6 DEF Shell!RequestFails, Shell!Becomes
  <2>2. tried \in BOOLEAN
    OBVIOUS
  <2> HIDE DEF tried
  <2> QED
    BY <1>1, <2>1, <2>2, BecomingKeepsShell
<1>7. CASE Shell!LoginFails(r)
  <2>1. UNCHANGED <<x1, x2, x3, x4, x5, x6, x7, x9, x10, x11, x12>> /\ x8' = x8 \ {r}
    BY <1>7 DEF Shell!LoginFails
  <2>2. ShellTypes'
    BY <1>1, <2>1 DEF ShellTypes
  <2> QED
    BY <2>1, <2>2, RequestsKeepShell DEF ShellInv, Stray, Leaked
<1> QED
  BY <1>2, <1>3, <1>4, <1>5, <1>6, <1>7

\* The user looks at another view, a set-up is answered, or the access cookie
\* expires.
LEMMA UserKeepsShell ==
    ASSUME ShellInv,
           \/ \E v \in {"dashboard", "admin"} : Shell!Navigate(v)
           \/ Shell!EnterSetup \/ Shell!Expire
           \/ \E r \in x8 : Shell!HandleSetupSubmit(r)
    PROVE  ShellInv'
<1>1. /\ ShellTypes /\ x2 \in Someone /\ x3 \in BOOLEAN /\ x8 \in SUBSET x8
      /\ Stray(x2) => x10 # {}
      /\ x10 \subseteq {"kept", "late", "crossed", "stray", "ousted"}
      /\ x12 \in {"none", "form", "inside"}
  BY DEF ShellInv, ShellTypes
<1>2. ASSUME NEW v \in {"dashboard", "admin"}, Shell!Navigate(v) PROVE ShellInv'
  <2>1. /\ UNCHANGED <<x6, x7, x9, x10, x11, x12>> /\ Shell!Becomes(v, x2, x3, FALSE, x8)
        /\ x12' = "inside" /\ Shell!IsAuthedView(v)
    BY <1>2 DEF Shell!Navigate, Shell!IsAuthedView
  <2>2. (x12' = "inside") = Shell!IsAuthedView(v)
    BY <2>1 DEF Shell!IsAuthedView
  <2> QED
    BY <1>1, <2>1, <2>2, BecomingKeepsShell
<1>3. CASE Shell!EnterSetup
  <2>1. /\ UNCHANGED <<x6, x7, x9, x10, x11>> /\ Shell!Becomes("setup", x2, x3, FALSE, x8)
        /\ x12' = "none" /\ ~Shell!IsAuthedView(x1)
    BY <1>3 DEF Shell!EnterSetup, Shell!GateAfter, Shell!IsAuthedView
  <2>2. (x12' = "inside") = Shell!IsAuthedView("setup")
    BY <2>1 DEF Shell!IsAuthedView
  <2> QED
    BY <1>1, <2>1, <2>2, BecomingKeepsShell
<1>4. ASSUME NEW r \in x8, Shell!HandleSetupSubmit(r) PROVE ShellInv'
  <2>1. UNCHANGED <<x6, x7, x9, x11>>
    BY <1>4 DEF Shell!HandleSetupSubmit
  <2>2. CASE /\ x12' = Shell!GateAfter("login", FALSE)
             /\ x10' = IF Shell!IsAuthedView(x1) THEN x10 \cup {"ousted"} ELSE x10
             /\ Shell!Becomes("login", x2, x3, FALSE, x8 \ {r})
    <3>1. /\ x10 \subseteq x10' /\ x10' \subseteq {"kept", "late", "crossed", "stray", "ousted"}
          /\ Shell!IsAuthedView(x1) => Ousted'
      BY <1>1, <2>2 DEF Ousted
    <3>2. /\ x12' \in {"none", "form", "inside"} /\ x1' = "login"
          /\ x1 = "setup" => x12' = "form"
          /\ x1 # "setup" => x12' = x12
      BY <1>1, <2>2 DEF Shell!GateAfter, Shell!Becomes, Shell!IsAuthedView
    <3>3. (x12' = "inside") = Shell!IsAuthedView("login") \/ Ousted' \/ UNCHANGED <<x1, x12>>
      BY <1>1, <3>1, <3>2 DEF ShellTypes, Shell!IsAuthedView
    <3>4. x8 \ {r} \in SUBSET x8
      OBVIOUS
    <3> QED
      BY <1>1, <2>1, <2>2, <3>1, <3>2, <3>3, <3>4, BecomingKeepsShell
  <2>3. CASE x8' = x8 \ {r} /\ UNCHANGED <<x1, x2, x3, x4, x5, x12, x10>>
    <3>1. ShellTypes'
      BY <1>1, <2>1, <2>3 DEF ShellTypes
    <3> QED
      BY <2>1, <2>3, <3>1, RequestsKeepShell DEF ShellInv, Stray, Leaked
  <2> QED
    BY <1>4, <2>2, <2>3 DEF Shell!HandleSetupSubmit
<1>5. CASE Shell!Expire
  <2>1. /\ x6' = [x6 EXCEPT !.live = FALSE] /\ x11' = x11 + 1 /\ x11 < MaxEvents
        /\ UNCHANGED <<x1, x2, x3, x4, x5, x7, x8, x9, x10, x12>>
    BY <1>5 DEF Shell!Expire
  <2>2. /\ x6' \in [user : Someone, live : BOOLEAN]
        /\ x6'.user = x6.user /\ ~x6'.live
    BY <1>1, <2>1 DEF ShellTypes
  <2>3. x11' \in 0..MaxEvents
    BY <1>1, <2>1, BoundsAssumption DEF ShellTypes
  <2>4. ShellTypes'
    BY <1>1, <2>1, <2>2, <2>3 DEF ShellTypes
  <2> QED
    BY <2>1, <2>2, <2>4, RequestsKeepShell DEF ShellInv, Stray, Leaked
<1> QED
  BY <1>2, <1>3, <1>4, <1>5

\* A login enters from outside, which cancels what was asked for there, or it
\* crosses with another one.
LEMMA LoginKeepsShell ==
    ASSUME ShellInv, NEW r \in x8, Shell!HandleAuthenticated(r)
    PROVE  ShellInv'
<1>1. /\ r \in ShellRequest /\ WantedFits(r) /\ ShellTypes /\ x8 \ {r} \subseteq ShellRequest
      /\ \A p \in x8 : WantedFits(p)
  BY DEF ShellInv, ShellTypes
<1>0. PICK anew : Shell!Becomes("dashboard", x2, x3, anew, x8 \ {r})
  BY DEF Shell!HandleAuthenticated
<1>2. /\ r.what = "login"
      /\ x6' = [user |-> r.who, live |-> TRUE] /\ x7' = r.who /\ x9' = r.who /\ x11' = x11
      /\ x10' = (IF x2 = "none" /\ ~Shell!IsAuthedView(x1) THEN {} ELSE {"crossed"})
                 \cup (IF r.wanted THEN {} ELSE {"stray"})
      /\ x12' = IF r.wanted THEN "inside" ELSE Shell!GateAfter("dashboard", FALSE)
  BY DEF Shell!HandleAuthenticated, Shell!None
<1>3. r.who # "none" /\ r.who \in Someone
  BY <1>1, <1>2 DEF WantedFits, ShellRequest
<1>4. /\ x1' = "dashboard" /\ x2' = x2 /\ x3' = x3 /\ Shell!IsAuthedView(x1')
      /\ x4' = (x4 /\ x1 = "dashboard" /\ x2 = x2)
      /\ x5' = (x5 /\ Shell!IsAuthedView("dashboard"))
  BY <1>0, <1>1, BecomingCancels DEF Shell!IsAuthedView
<1>5. ASSUME NEW q \in x8' PROVE q \in ShellRequest /\ WantedFits(q)'
  <2>1. PICK p \in x8 \ {r} :
           /\ q \in ShellRequest /\ q.what = p.what /\ q.as = p.as /\ q.who = p.who
           /\ q.wanted => p.wanted
           /\ q.wanted /\ q.what = "restore" => x1 = "dashboard" /\ x3 = x3 /\ x2 = x2
           /\ q.wanted /\ q.what = "load" => x1 = "dashboard" /\ x2 = x2
           /\ q.wanted /\ q.what = "poll" => x1 = "dashboard"
    BY <1>0, <1>1, BecomingCancels
  <2>2. q.what \in {"restore", "load", "poll", "login", "logout", "setup"}
    BY <2>1 DEF ShellRequest
  <2>3. CASE q.what = "restore"
    BY <1>1, <2>1, <2>3 DEF WantedFits
  <2>4. CASE q.what = "load"
    BY <1>1, <1>2, <2>1, <2>4 DEF WantedFits, Shell!IsAuthedView
  <2>5. CASE q.what \in {"poll", "login", "logout", "setup"}
    BY <1>1, <1>4, <2>1, <2>5 DEF WantedFits, Shell!IsAuthedView
  <2> QED
    BY <2>1, <2>2, <2>3, <2>4, <2>5
<1>6. Stray(x2)' => x10' # {}
  BY <1>2, <1>4 DEF Stray
<1>7. /\ x10' \subseteq {"kept", "late", "crossed", "stray", "ousted"}
      /\ x12' \in {"none", "form", "inside"}
  BY <1>1, <1>2 DEF ShellTypes, Shell!GateAfter
<1>8. ShellTypes'
  BY <1>1, <1>2, <1>3, <1>4, <1>5, <1>7 DEF ShellTypes
<1>9. (Matched \/ "stray" \in x10 \/ Ousted)'
  BY <1>2, <1>4 DEF Matched
<1> QED
  BY <1>2, <1>3, <1>4, <1>5, <1>6, <1>8, <1>9 DEF ShellInv, Stray

\* A logout leaves nobody on the page; cookies it left are told of.
LEMMA LogoutKeepsShell ==
    ASSUME ShellInv, NEW r \in x8, Shell!HandleLogout(r)
    PROVE  ShellInv'
<1>1. /\ r \in ShellRequest /\ WantedFits(r) /\ ShellTypes /\ x8 \ {r} \subseteq ShellRequest
      /\ \A p \in x8 : WantedFits(p)
  BY DEF ShellInv, ShellTypes
<1>0. PICK anew : Shell!Becomes("login", "none", x3, anew, x8 \ {r})
  BY DEF Shell!HandleLogout, Shell!None
<1>2. /\ r.what = "logout"
      /\ x9' = "none" /\ x11' = x11 /\ x12' = "form"
      /\ \E cleared \in BOOLEAN :
            /\ IF cleared THEN x6' = [user |-> "none", live |-> FALSE] /\ x7' = "none"
                          ELSE UNCHANGED <<x6, x7>>
            /\ x10' = (IF x9 = "none" THEN x10 ELSE x10 \cap {"ousted"}) \cup (IF cleared THEN {} ELSE {"kept"})
  BY DEF Shell!HandleLogout, Shell!ClearCookies, Shell!None, Shell!GateAfter, Shell!IsAuthedView
<1>3. /\ x1' = "login" /\ x2' = "none" /\ x3' = x3
      /\ x4' = (x4 /\ x1 = "login" /\ x2 = "none") /\ x5' = (x5 /\ Shell!IsAuthedView("login"))
  BY <1>0, <1>1, BecomingCancels
<1>4. Shell!IsAuthedView(x1) \/ (x9 = "none" /\ x10 \subseteq x10') \/ Ousted'
  BY <1>1, <1>2 DEF WantedFits, Ousted
<1>5. ASSUME NEW q \in x8' PROVE q \in ShellRequest /\ WantedFits(q)'
  <2>1. PICK p \in x8 \ {r} :
           /\ q \in ShellRequest /\ q.what = p.what /\ q.as = p.as /\ q.who = p.who
           /\ q.wanted => p.wanted
           /\ q.wanted /\ q.what = "restore" => x1 = "login" /\ x3 = x3 /\ x2 = "none"
           /\ q.wanted /\ q.what = "load" => x1 = "login" /\ x2 = "none"
           /\ q.wanted /\ q.what = "poll" => x1 = "login"
    BY <1>0, <1>1, BecomingCancels
  <2>2. q.what \in {"restore", "load", "poll", "login", "logout", "setup"} /\ WantedFits(p)
    BY <1>1, <2>1 DEF ShellRequest
  <2>3. CASE q.what = "restore"
    BY <1>2, <1>3, <1>4, <2>1, <2>2, <2>3
    DEF WantedFits, Stray, Leaked, Ousted, Shell!IsAuthedView
  <2>4. CASE q.what = "load"
    BY <1>2, <1>4, <2>1, <2>2, <2>4 DEF WantedFits, Stray, Ousted, Shell!IsAuthedView
  <2>5. CASE q.what = "poll"
    BY <2>1, <2>2, <2>5 DEF WantedFits, Shell!IsAuthedView
  <2>6. CASE q.what \in {"login", "logout", "setup"}
    BY <1>2, <2>1, <2>2, <2>6 DEF WantedFits
  <2> QED
    BY <2>1, <2>2, <2>3, <2>4, <2>5, <2>6
<1>6. /\ x6' \in [user : Someone, live : BOOLEAN] /\ x7' \in Someone
      /\ x10' \subseteq {"kept", "late", "crossed", "stray", "ousted"}
      /\ Stray(x6.user)' => Leaked'
      /\ Stray(x7)' => Leaked'
      /\ x6'.live => x6'.user # "none"
  <2>1. PICK cleared \in BOOLEAN :
           /\ IF cleared THEN x6' = [user |-> "none", live |-> FALSE] /\ x7' = "none"
                         ELSE UNCHANGED <<x6, x7>>
           /\ x10' = (IF x9 = "none" THEN x10 ELSE x10 \cap {"ousted"}) \cup (IF cleared THEN {} ELSE {"kept"})
    BY <1>2
  <2>2. x10' \subseteq {"kept", "late", "crossed", "stray", "ousted"}
    BY <1>1, <2>1 DEF ShellTypes
  <2>3. CASE cleared
    <3>1. x6' = [user |-> "none", live |-> FALSE] /\ x7' = "none"
      BY <2>1, <2>3
    <3>2. x6'.user = "none" /\ ~x6'.live /\ x6' \in [user : Someone, live : BOOLEAN]
      BY <3>1 DEF Someone
    <3> QED
      BY <2>2, <3>1, <3>2 DEF Stray, Someone
  <2>4. CASE ~cleared
    <3>1. UNCHANGED <<x6, x7>> /\ "kept" \in x10'
      BY <2>1, <2>4
    <3>2. Leaked'
      BY <3>1 DEF Leaked
    <3> QED
      BY <1>1, <2>2, <3>1, <3>2 DEF ShellTypes, ShellInv
  <2> QED
    BY <2>3, <2>4
<1>7. ShellTypes'
  BY <1>1, <1>2, <1>3, <1>5, <1>6 DEF ShellTypes, Someone
<1>8. ~x5'
  BY <1>3 DEF Shell!IsAuthedView
<1>9. Matched'
  BY <1>2, <1>3 DEF Matched, Shell!IsAuthedView
<1> QED
  BY <1>3, <1>5, <1>6, <1>7, <1>8, <1>9 DEF ShellInv, Stray

LEMMA ShellGoesOn == ShellInv /\ [Shell!Next]_(Shell!vars) => ShellInv'
<1> SUFFICES ASSUME ShellInv, [Shell!Next]_(Shell!vars) PROVE ShellInv'
  OBVIOUS
<1>1. CASE Shell!Next
  <2>1. CASE \E r \in x8 :
                \/ Shell!Refused(r) \/ Shell!Refreshed(r)
                \/ Shell!Restored(r) \/ Shell!Loaded(r) \/ Shell!Polled(r)
                \/ Shell!RequestFails(r)
                \/ Shell!HandleAuthenticated(r) \/ Shell!LoginFails(r) \/ Shell!HandleLogout(r)
                \/ Shell!HandleSetupSubmit(r)
    BY <2>1, RefreshKeepsShell, AnswersKeepShell, LoginKeepsShell, LogoutKeepsShell,
       UserKeepsShell
  <2> QED
    BY <1>1, <2>1, SendingKeepsShell, UserKeepsShell DEF Shell!Next
<1>2. CASE UNCHANGED Shell!vars
  <2>1. UNCHANGED <<x1, x2, x3, x4, x5, x6, x7, x8, x9, x10, x11, x12>>
    BY <1>2 DEF Shell!vars
  <2>2. ShellTypes'
    BY <2>1 DEF ShellInv, ShellTypes
  <2> QED
    BY <2>1, <2>2, RequestsKeepShell DEF ShellInv, Stray, Leaked
<1> QED
  BY <1>1, <1>2

LEMMA ShellIsAsSaid ==
    ShellInv => /\ Shell!TypeOK /\ Shell!UserIsOfSession /\ Shell!CookiesAreOfSession
                /\ Shell!GateIsOfView /\ Shell!BannerOnlyInside
BY DEF ShellInv, ShellTypes, Stray, Leaked, Ousted, Matched, Someone, Shell!TypeOK,
       Shell!UserIsOfSession, Shell!CookiesAreOfSession, Shell!GateIsOfView,
       Shell!BannerOnlyInside, Shell!None

\* The page is entered from outside by a login or by the restore at boot, which
\* found cookies.
LEMMA ShellStepIsAsSaid ==
    ShellInv /\ [Shell!Next]_(Shell!vars) => Shell!LetInByTwoMishaps
<1> SUFFICES ASSUME ShellInv, [Shell!Next]_(Shell!vars),
                    x9 = "none", ~Shell!In, Shell!In', x9' = "none"
             PROVE  ~x3 /\ (Leaked \/ Ousted)
  BY DEF Shell!LetInByTwoMishaps, Shell!None, Leaked, Ousted
<1>1. \A v : ~Shell!Navigate(v)
  BY DEF Shell!Navigate, Shell!In
<1>2. ~Shell!IsAuthedView(x1) /\ x12 # "inside"
  BY DEF Shell!In
<1>3. ~(UNCHANGED <<x1, x12>>)
  BY DEF Shell!In, Shell!IsAuthedView
<1>4. ~Shell!EnterSetup
  <2>1. SUFFICES ASSUME Shell!EnterSetup PROVE x1' = "setup" /\ x12' = "none"
    BY <2>1 DEF Shell!In, Shell!IsAuthedView
  <2> QED
    BY <2>1 DEF Shell!EnterSetup, Shell!Becomes, Shell!GateAfter
<1>5. PICK r \in x8 : Shell!Restored(r) \/ Shell!HandleAuthenticated(r) \/ Shell!HandleLogout(r)
                      \/ Shell!HandleSetupSubmit(r)
  BY <1>1, <1>3, <1>4
  DEF Shell!Next, Shell!vars, Shell!StartRestore, Shell!StartLoad, Shell!Poll, Shell!Refused,
      Shell!Refreshed, Shell!Loaded, Shell!Polled, Shell!RequestFails, Shell!Login,
      Shell!LoginFails, Shell!Logout, Shell!SubmitSetup, Shell!Expire, Shell!Becomes
<1>6. r \in ShellRequest /\ WantedFits(r)
  BY DEF ShellInv, ShellTypes
<1>7. ~Shell!HandleAuthenticated(r)
  BY <1>6 DEF Shell!HandleAuthenticated, WantedFits
<1>8. ~Shell!HandleLogout(r)
  <2>1. SUFFICES ASSUME Shell!HandleLogout(r) PROVE x1' = "login" /\ x12' = "form"
    BY <2>1 DEF Shell!In, Shell!IsAuthedView
  <2> QED
    BY <2>1 DEF Shell!HandleLogout, Shell!Becomes, Shell!GateAfter, Shell!IsAuthedView
<1>9. ~Shell!HandleSetupSubmit(r)
  <2>1. SUFFICES ASSUME Shell!HandleSetupSubmit(r), ~(UNCHANGED <<x1, x12>>)
                 PROVE  x1' = "login" /\ x12' # "inside"
    BY <1>3, <2>1 DEF Shell!In, Shell!IsAuthedView
  <2> QED
    BY <1>2, <2>1
    DEF Shell!HandleSetupSubmit, Shell!Becomes, Shell!GateAfter, Shell!IsAuthedView
<1>10. Shell!Restored(r) /\ r.wanted
  BY <1>3, <1>5, <1>7, <1>8, <1>9 DEF Shell!Restored, Shell!Becomes
<1>11. r.what = "restore" /\ r.as # "none"
  BY <1>10 DEF Shell!Restored, Shell!Answers, Shell!None
<1> QED
  BY <1>6, <1>10, <1>11 DEF WantedFits, Stray

------------------------------------------------------------------------------
(* Imports and exports: x1 is the load of the page, x2 to x4 whether it      *)
(* exports, imports and failed, x5 the plan to confirm, x6 the pending file, *)
(* x7 the calls, x8 who wrote the rows, x9 the latest export.                *)

DataCall ==
    [kind : {"preview", "import", "export"},
     file : Files \cup {"none"} \cup Data!EXPORT_SCOPE_OPTIONS,
     version : 0..MaxWrites, load : 1..MaxLoads, served : BOOLEAN]

DataTypes ==
    /\ x1 \in 1..MaxLoads /\ x2 \in BOOLEAN /\ x3 \in BOOLEAN /\ x4 \in BOOLEAN
    /\ x5 \in [file : Files \cup {"none"}, version : 0..MaxWrites]
    /\ x6 \in Files \cup {"none"}
    /\ x7 \subseteq DataCall
    /\ x8 \in Seq(0..MaxLoads) /\ Len(x8) <= MaxWrites

\* Nobody of a load of the page wrote the rows after a version of them.
Untouched(loaded, version) == \A v \in (version + 1)..Len(x8) : x8[v] # loaded

\* A call of the present load is what the panel shows it to wait for.
CallIsShown(c) ==
    /\ c.load <= x1
    /\ c.kind = "preview" => c.file \in Files \cup {"none"}
    /\ c.load = x1 => /\ x5 = Data!NoPlan
                      /\ IF c.kind = "export" THEN x2 ELSE x3
                      /\ c.kind = "preview" => c.file = x6

\* The plan of a call is of rows that its load has not written since.
PlanHolds(c) ==
    (c.kind = "import" /\ ~c.served) \/ (c.kind = "preview" /\ c.served) =>
        Untouched(c.load, c.version)

DataInv ==
    /\ DataTypes
    /\ \A c, d \in x7 : c.load = d.load => c = d
    /\ \A c \in x7 : CallIsShown(c) /\ PlanHolds(c)
    /\ x5 # Data!NoPlan => x5.file = x6 /\ Untouched(x1, x5.version)

LEMMA DataStarts == Data!Init => DataInv
<1> SUFFICES ASSUME Data!Init PROVE DataInv
  OBVIOUS
<1>1. x1 \in 1..MaxLoads /\ x8 \in Seq(0..MaxLoads) /\ Len(x8) <= MaxWrites
  BY BoundsAssumption DEF Data!Init
<1>2. x5 \in [file : Files \cup {"none"}, version : 0..MaxWrites]
  BY BoundsAssumption DEF Data!Init, Data!NoPlan, Data!None
<1>3. DataTypes
  BY <1>1, <1>2 DEF Data!Init, Data!None, DataTypes
<1> QED
  BY <1>3 DEF Data!Init, DataInv

\* What the panel offers while nothing goes on.
LEMMA OffersWhenQuiet ==
    ASSUME DataInv, Data!Offered \in {"start", "confirmation"}
    PROVE  /\ ~x2 /\ ~x3 /\ ~x4
           /\ Data!Offered = "start" => x5 = Data!NoPlan
           /\ Data!Offered = "confirmation" => x5 # Data!NoPlan
           /\ \A c \in x7 : c.load < x1
<1>1. ~(x2 \/ x3 \/ x4)
  BY DEF Data!Offered
<1>2. /\ Data!Offered = "start" => x5 = Data!NoPlan
      /\ Data!Offered = "confirmation" => x5 # Data!NoPlan
  BY <1>1 DEF Data!Offered
<1>3. ASSUME NEW c \in x7 PROVE c.load < x1
  <2>1. CallIsShown(c) /\ c.load \in Nat /\ x1 \in Nat
    BY BoundsAssumption DEF DataInv, DataTypes, DataCall
  <2> QED
    BY <1>1, <2>1 DEF CallIsShown
<1> QED
  BY <1>1, <1>2, <1>3

\* The panel begins a call.
LEMMA BeginKeepsData ==
    ASSUME DataInv, Data!Offered \in {"start", "confirmation"},
           NEW kind \in {"preview", "import", "export"},
           NEW file \in Files \cup {"none"} \cup Data!EXPORT_SCOPE_OPTIONS,
           NEW version \in 0..MaxWrites,
           x7' = x7 \cup {Data!Call(kind, file, version)}, UNCHANGED <<x1, x4, x8>>,
           x2' \in BOOLEAN, x3' \in BOOLEAN, IF kind = "export" THEN x2' ELSE x3',
           x5' = Data!NoPlan, x6' \in Files \cup {"none"},
           kind = "preview" => file = x6',
           kind = "import" => Untouched(x1, version)
    PROVE  DataInv'
<1>1. PICK c : c = Data!Call(kind, file, version)
  OBVIOUS
<1>2. /\ c \in DataCall /\ c.load = x1 /\ c.kind = kind /\ c.file = file
      /\ c.version = version /\ ~c.served
  BY <1>1 DEF DataInv, DataTypes, Data!Call, DataCall
<1>3. DataTypes'
  BY <1>1, <1>2, BoundsAssumption DEF DataInv, DataTypes, Data!NoPlan, Data!None
<1>4. \A d \in x7 : d.load < x1 /\ d \in DataCall
  BY OffersWhenQuiet DEF DataInv, DataTypes
<1>5. \A d, e \in x7' : d.load = e.load => d = e
  BY <1>1, <1>2, <1>4 DEF DataInv, DataTypes, DataCall
<1>6. ASSUME NEW d \in x7 PROVE CallIsShown(d)' /\ PlanHolds(d)'
  BY <1>4 DEF DataInv, CallIsShown, PlanHolds, Untouched, DataTypes, DataCall
<1>7. CallIsShown(c)' /\ PlanHolds(c)'
  BY <1>2 DEF CallIsShown, PlanHolds, Untouched, DataInv, DataTypes
<1> QED
  BY <1>1, <1>3, <1>5, <1>6, <1>7 DEF DataInv

LEMMA StartsKeepData ==
    ASSUME DataInv,
           \/ \E f \in Files : Data!HandleImport(f)
           \/ Data!HandleConfirmImport
           \/ \E s \in Data!EXPORT_SCOPE_OPTIONS : Data!HandleExport(s)
    PROVE  DataInv'
<1>1. ASSUME NEW f \in Files, Data!HandleImport(f) PROVE DataInv'
  <2>1. /\ Data!Offered = "start" /\ x6' = f /\ x5' = Data!NoPlan /\ x3' = TRUE
        /\ x7' = x7 \cup {Data!Call("preview", f, 0)} /\ UNCHANGED <<x1, x2, x4, x8>>
    BY <1>1 DEF Data!HandleImport
  <2>2. 0 \in 0..MaxWrites /\ x2 \in BOOLEAN
    BY BoundsAssumption DEF DataInv, DataTypes
  <2> QED
    BY <2>1, <2>2, BeginKeepsData
<1>2. CASE Data!HandleConfirmImport
  <2>1. Data!Offered = "confirmation"
    BY <1>2 DEF Data!HandleConfirmImport
  <2>2. Untouched(x1, x5.version) /\ x5.version \in 0..MaxWrites /\ x6 \in Files \cup {"none"}
    BY <2>1, OffersWhenQuiet DEF DataInv, DataTypes
  <2> QED
    BY <1>2, <2>1, <2>2, BeginKeepsData
    DEF Data!HandleConfirmImport, Data!None, DataInv, DataTypes
<1>3. ASSUME NEW s \in Data!EXPORT_SCOPE_OPTIONS, Data!HandleExport(s) PROVE DataInv'
  <2>1. x5 = Data!NoPlan /\ Data!Offered = "start"
    BY <1>3, OffersWhenQuiet DEF Data!HandleExport
  <2> QED
    BY <1>3, <2>1, BeginKeepsData, BoundsAssumption DEF Data!HandleExport, DataInv, DataTypes
<1> QED
  BY <1>1, <1>2, <1>3

\* A call ends.
LEMMA EndKeepsData ==
    ASSUME DataInv, NEW c \in x7, x7' = x7 \ {c}, UNCHANGED <<x1, x6, x8>>,
           x2' \in BOOLEAN, x3' \in BOOLEAN, x4' \in BOOLEAN,
           x5' \in [file : Files \cup {"none"}, version : 0..MaxWrites],
           c.load # x1 => UNCHANGED <<x2, x3, x5>>,
           x5' # Data!NoPlan => x5'.file = x6 /\ Untouched(x1, x5'.version)
    PROVE  DataInv'
<1>1. DataTypes'
  BY DEF DataInv, DataTypes
<1>2. ASSUME NEW d \in x7' PROVE CallIsShown(d)' /\ PlanHolds(d)'
  BY <1>2 DEF DataInv, CallIsShown, PlanHolds, Untouched
<1> QED
  BY <1>1, <1>2 DEF DataInv, Untouched

\* A call is answered for good or ill.
LEMMA AnswersKeepData ==
    ASSUME DataInv, NEW c \in x7,
           \/ Data!RunImportPreview(c) \/ Data!RunImport(c) \/ Data!ImportFails(c)
           \/ Data!RunAdminExportJob(c)
    PROVE  DataInv'
<1>1. /\ c \in DataCall /\ CallIsShown(c) /\ PlanHolds(c) /\ DataTypes
      /\ x5 # Data!NoPlan => x5.file = x6 /\ Untouched(x1, x5.version)
  BY DEF DataInv, DataTypes
<1>2. Data!NoPlan \in [file : Files \cup {"none"}, version : 0..MaxWrites]
  BY BoundsAssumption DEF Data!NoPlan, Data!None
<1>3. CASE Data!RunImportPreview(c)
  <2>1. /\ x7' = x7 \ {c} /\ UNCHANGED <<x1, x2, x4, x6, x8>> /\ c.kind = "preview" /\ c.served
        /\ IF c.load = x1 THEN x5' = [file |-> c.file, version |-> c.version] /\ x3' = FALSE
                          ELSE UNCHANGED <<x5, x3>>
    BY <1>3 DEF Data!RunImportPreview
  <2>2. CASE c.load = x1
    <3>1. x5'.file = x6 /\ x5'.version = c.version /\ Untouched(x1, c.version)
      BY <1>1, <2>1, <2>2 DEF CallIsShown, PlanHolds
    <3>2. x5' \in [file : Files \cup {"none"}, version : 0..MaxWrites]
      BY <1>1, <2>1, <2>2 DEF CallIsShown, DataCall
    <3> QED
      BY <1>1, <2>1, <2>2, <3>1, <3>2, EndKeepsData DEF DataTypes
  <2>3. CASE c.load # x1
    BY <1>1, <2>1, <2>3, EndKeepsData DEF DataTypes
  <2> QED
    BY <2>2, <2>3
<1>4. CASE Data!RunImport(c)
  <2>1. /\ x7' = x7 \ {c} /\ UNCHANGED <<x1, x2, x4, x5, x6, x8>>
        /\ x3' = (x3 /\ c.load # x1)
    BY <1>4 DEF Data!RunImport
  <2>2. x3' \in BOOLEAN /\ (c.load # x1 => x3' = x3)
    BY <1>1, <2>1 DEF DataTypes
  <2> QED
    BY <1>1, <2>1, <2>2, EndKeepsData DEF DataTypes
<1>5. CASE Data!ImportFails(c)
  <2>1. /\ x7' = x7 \ {c} /\ UNCHANGED <<x1, x2, x6, x8>>
        /\ IF c.load = x1 THEN x4' = TRUE /\ x5' = Data!NoPlan /\ x3' = FALSE
                          ELSE UNCHANGED <<x4, x5, x3>>
    BY <1>5 DEF Data!ImportFails
  <2> QED
    BY <1>1, <1>2, <2>1, EndKeepsData DEF DataTypes
<1>6. CASE Data!RunAdminExportJob(c)
  <2>1. PICK outcome \in Data!Outcomes(c.file) :
           /\ x7' = x7 \ {c} /\ UNCHANGED <<x1, x3, x5, x6, x8>>
           /\ IF c.load = x1 THEN x2' = FALSE /\ x4' = (outcome # "saved")
                             ELSE UNCHANGED <<x2, x4>>
    BY <1>6 DEF Data!RunAdminExportJob
  <2>2. (outcome # "saved") \in BOOLEAN
    OBVIOUS
  <2> QED
    BY <1>1, <2>1, <2>2, EndKeepsData DEF DataTypes
<1> QED
  BY <1>3, <1>4, <1>5, <1>6

\* Another one's write changes nothing of what one has not written.
LEMMA WriteTouchesOwn ==
    ASSUME NEW loaded, NEW version \in Nat, Untouched(loaded, version), x8 \in Seq(0..MaxLoads),
           NEW writer \in 0..MaxLoads, writer # loaded, x8' = Append(x8, writer)
    PROVE  Untouched(loaded, version)'
<1> SUFFICES ASSUME NEW v \in (version + 1)..Len(x8') PROVE x8'[v] # loaded
  BY DEF Untouched
<1>1. CASE v \in 1..Len(x8)
  BY <1>1 DEF Untouched
<1>2. CASE v = Len(x8) + 1
  BY <1>2
<1> QED
  BY <1>1, <1>2

LEMMA OthersKeepData ==
    ASSUME DataInv,
           \/ Data!HandleCancelImport \/ Data!Reload \/ Data!Write
           \/ \E c \in x7 : Data!PreviewFromDump(c) \/ Data!Restore(c)
    PROVE  DataInv'
<1>1. DataTypes /\ x7 \subseteq DataCall /\ \A c \in x7 : CallIsShown(c) /\ PlanHolds(c)
  BY DEF DataInv, DataTypes
<1>2. x1 \in Nat /\ x1 > 0 /\ x1 \in 0..MaxLoads /\ Len(x8) \in 0..MaxWrites
  BY <1>1, BoundsAssumption DEF DataTypes
<1>3. \A c \in x7 : c.load \in 1..MaxLoads /\ c.load > 0 /\ c.version \in 0..MaxWrites
  BY <1>1, BoundsAssumption DEF DataCall
<1>4. CASE Data!HandleCancelImport
  <2>1. Data!Offered = "confirmation" /\ x5' = Data!NoPlan /\ x6' = "none"
        /\ UNCHANGED <<x1, x2, x3, x4, x7, x8>>
    BY <1>4 DEF Data!HandleCancelImport, Data!None
  <2>2. \A c \in x7 : c.load < x1
    BY <2>1, OffersWhenQuiet
  <2>3. DataTypes'
    BY <1>1, <2>1, BoundsAssumption DEF DataTypes, Data!NoPlan, Data!None
  <2>4. \A c \in x7 : CallIsShown(c)' /\ PlanHolds(c)'
    BY <1>1, <2>1, <2>2 DEF CallIsShown, PlanHolds, Untouched, DataTypes, DataCall
  <2> QED
    BY <2>1, <2>3, <2>4 DEF DataInv
<1>5. CASE Data!Reload
  <2>1. /\ x1 < MaxLoads /\ x1' = x1 + 1 /\ x2' = FALSE /\ x3' = FALSE /\ x4' = FALSE
        /\ x5' = Data!NoPlan /\ x6' = "none" /\ UNCHANGED <<x7, x8>>
    BY <1>5 DEF Data!Reload, Data!None
  <2>2. x1' \in 1..MaxLoads /\ \A c \in x7 : c.load \in Nat
    <3>1. x1' \in 1..MaxLoads
      BY <1>2, <2>1, BoundsAssumption
    <3> QED
      BY <1>3, <3>1
  <2>3. DataTypes'
    <3>1. x5' \in [file : Files \cup {"none"}, version : 0..MaxWrites]
      BY <2>1, BoundsAssumption DEF Data!NoPlan, Data!None
    <3> QED
      BY <1>1, <2>1, <2>2, <3>1 DEF DataTypes
  <2>4. ASSUME NEW c \in x7 PROVE CallIsShown(c)' /\ PlanHolds(c)'
    BY <1>1, <1>2, <1>3, <2>1, <2>2 DEF CallIsShown, PlanHolds, Untouched
  <2> QED
    BY <2>1, <2>3, <2>4 DEF DataInv
<1>6. ASSUME NEW writer \in 0..MaxLoads, Len(x8) < MaxWrites, x8' = Append(x8, writer)
      PROVE  /\ x8' \in Seq(0..MaxLoads) /\ Len(x8') <= MaxWrites
             /\ \A loaded \in 1..MaxLoads, version \in 0..MaxWrites :
                   loaded # writer /\ Untouched(loaded, version) => Untouched(loaded, version)'
  <2>1. x8 \in Seq(0..MaxLoads) /\ MaxWrites \in Nat
    BY <1>1, BoundsAssumption DEF DataTypes
  <2>2. x8' \in Seq(0..MaxLoads) /\ Len(x8') = Len(x8) + 1
    BY <1>6, <2>1
  <2>3. ASSUME NEW loaded \in 1..MaxLoads, NEW version \in 0..MaxWrites,
               loaded # writer, Untouched(loaded, version)
        PROVE  Untouched(loaded, version)'
    BY <1>6, <2>1, <2>3, WriteTouchesOwn
  <2> QED
    BY <1>6, <1>2, <2>1, <2>2, <2>3
<1>7. CASE Data!Write
  <2>1. /\ Len(x8) < MaxWrites /\ x8' = Append(x8, 0)
        /\ UNCHANGED <<x1, x2, x3, x4, x5, x6, x7>>
    BY <1>7 DEF Data!Write
  <2>2. /\ x8' \in Seq(0..MaxLoads) /\ Len(x8') <= MaxWrites
        /\ \A loaded \in 1..MaxLoads, version \in 0..MaxWrites :
              Untouched(loaded, version) => Untouched(loaded, version)'
    <3>1. 0 \in 0..MaxLoads /\ \A loaded \in 1..MaxLoads : loaded # 0
      BY BoundsAssumption
    <3> QED
      BY <1>6, <2>1, <3>1
  <2>3. DataTypes'
    BY <1>1, <2>1, <2>2 DEF DataTypes
  <2>4. \A c \in x7 : CallIsShown(c)' /\ PlanHolds(c)'
    BY <1>1, <1>3, <2>1, <2>2 DEF CallIsShown, PlanHolds
  <2>5. x5 # Data!NoPlan => Untouched(x1, x5.version)'
    <3>1. x1 \in 1..MaxLoads /\ x5.version \in 0..MaxWrites
      BY <1>1 DEF DataTypes
    <3> QED
      BY <2>1, <2>2, <3>1 DEF DataInv
  <2> QED
    BY <2>1, <2>3, <2>4, <2>5 DEF DataInv
<1>8. ASSUME NEW c \in x7, Data!PreviewFromDump(c) PROVE DataInv'
  <2>1. PICK d : d = [c EXCEPT !.served = TRUE, !.version = Len(x8)]
    OBVIOUS
  <2>2. /\ c.kind = "preview" /\ x7' = (x7 \ {c}) \cup {d}
        /\ UNCHANGED <<x1, x2, x3, x4, x5, x6, x8>>
    BY <1>8, <2>1 DEF Data!PreviewFromDump
  <2>3. /\ d \in DataCall /\ d.kind = c.kind /\ d.load = c.load /\ d.file = c.file
        /\ d.version = Len(x8)
    BY <1>1, <1>2, <2>1 DEF DataCall
  <2>4. CallIsShown(d)' /\ PlanHolds(d)'
    BY <1>1, <2>2, <2>3 DEF CallIsShown, PlanHolds, Untouched, DataTypes
  <2>5. \A e \in x7 : CallIsShown(e)' /\ PlanHolds(e)'
    BY <1>1, <2>2 DEF CallIsShown, PlanHolds, Untouched
  <2>6. DataTypes'
    BY <1>1, <2>2, <2>3 DEF DataTypes
  <2>7. \A e, f \in x7' : e.load = f.load => e = f
    BY <2>2, <2>3 DEF DataInv
  <2> QED
    BY <2>2, <2>4, <2>5, <2>6, <2>7 DEF DataInv, Untouched
<1>9. ASSUME NEW c \in x7, Data!Restore(c) PROVE DataInv'
  <2>1. PICK d : d = [c EXCEPT !.served = TRUE]
    OBVIOUS
  <2>2. /\ c.kind = "import" /\ x7' = (x7 \ {c}) \cup {d} /\ Len(x8) < MaxWrites
        /\ x8' = Append(x8, c.load) /\ UNCHANGED <<x1, x2, x3, x4, x5, x6>>
    BY <1>9, <2>1 DEF Data!Restore
  <2>3. /\ d \in DataCall /\ d.kind = c.kind /\ d.load = c.load /\ d.file = c.file
        /\ d.version = c.version /\ d.served
    BY <1>1, <2>1 DEF DataCall
  <2>4. CallIsShown(d)' /\ PlanHolds(d)'
    BY <1>1, <2>2, <2>3 DEF CallIsShown, PlanHolds
  <2>5. c.load \in 0..MaxLoads
    BY <1>1 DEF DataCall
  <2>6. \A e \in x7 \ {c} : CallIsShown(e)' /\ PlanHolds(e)'
    BY <1>1, <1>6, <2>2, <2>5 DEF CallIsShown, PlanHolds, DataInv, DataCall
  <2>7. DataTypes'
    BY <1>1, <1>6, <2>2, <2>3, <2>5 DEF DataTypes
  <2>8. \A e, f \in x7' : e.load = f.load => e = f
    BY <2>2, <2>3 DEF DataInv
  <2>9. x5 # Data!NoPlan => Untouched(x1, x5.version)'
    BY <1>1, <1>6, <2>2, <2>5 DEF DataInv, DataTypes, CallIsShown
  <2> QED
    BY <2>2, <2>4, <2>6, <2>7, <2>8, <2>9 DEF DataInv
<1> QED
  BY <1>4, <1>5, <1>7, <1>8, <1>9

LEMMA DataGoesOn == DataInv /\ [Data!Next]_(Data!vars) => DataInv'
<1> SUFFICES ASSUME DataInv, [Data!Next]_(Data!vars) PROVE DataInv'
  OBVIOUS
<1>1. CASE Data!Next
  BY <1>1, StartsKeepData, AnswersKeepData, OthersKeepData DEF Data!Next
<1>2. CASE UNCHANGED Data!vars
  BY <1>2 DEF Data!vars, DataInv, DataTypes, CallIsShown, PlanHolds, Untouched
<1> QED
  BY <1>1, <1>2

LEMMA DataIsAsSaid == DataInv => Data!TypeOK /\ Data!ConfirmNamesItsFile
BY DEF DataInv, DataTypes, DataCall, CallIsShown, Data!TypeOK, Data!None, Data!ConfirmNamesItsFile

\* A restore that the server makes is of a call whose load has not written since
\* its plan was made.
LEMMA DataStepIsAsSaid == DataInv => Data!RestoresWhatWasPlanned
<1> SUFFICES ASSUME DataInv, NEW c \in x7 \ x7', NEW d \in x7',
                    c.kind = "import", d = [c EXCEPT !.served = TRUE]
             PROVE  \A v \in (c.version + 1)..Len(x8) : x8[v] # c.load
  BY DEF Data!RestoresWhatWasPlanned
<1>1. c \in DataCall /\ PlanHolds(c)
  BY DEF DataInv, DataTypes
<1>2. ~c.served
  BY <1>1 DEF DataCall
<1> QED
  BY <1>1, <1>2 DEF PlanHolds, Untouched

------------------------------------------------------------------------------
(* Re-evaluations: x1 is the selection, x2 and x3 what the panel shows, x4   *)
(* its job, x5 to x7 the server's run, results and count, x9 whether the     *)
(* server lost results since the job asked.                                  *)

PanelJob ==
    [at : {"none", "posting", "polling", "running", "over"}, person : Persons \cup {"none"},
     run : 0..MaxRuns, answer : 0..MaxRuns, failures : 0..(REFRESH_POLL_MAX_FAILURES - 1),
     left : BOOLEAN]

PanelShown ==
    [person : Persons \cup {"none"}, kind : {"none", "result", "lost", "refused", "givenUp"},
     run : 0..MaxRuns, left : BOOLEAN]

PanelTypes ==
    /\ x1 \in Persons \cup {"none"} /\ x2 \in BOOLEAN /\ x3 \in PanelShown /\ x4 \in PanelJob
    /\ x5 \in Persons \cup {"none"} /\ x6 \in [Persons -> 0..MaxRuns] /\ x7 \in 0..MaxRuns
    /\ \A p \in Persons : x6[p] <= x7
    /\ x9 \in BOOLEAN

\* A job that goes on is of somebody, and of whoever is selected or was left;
\* it knows of a run once it polls, and of an answer once it has one.
JobIsOfSelection ==
    /\ x4.at = "none" => x4.run = 0
    /\ x4.at # "none" => x4.person \in Persons /\ (x4.person = x1 \/ x4.left)
    /\ x4.at \in {"polling", "running", "over"} => x4.run # 0
    /\ x4.at # "over" => x4.answer = 0

\* The run that a job asked for is going on, or there is a result of it or of a
\* later one, unless the server restarted since.
RunIsAccountedFor ==
    x4.run # 0 =>
        /\ x4.run <= x7
        /\ x4.person \in Persons
        /\ x6[x4.person] # 0 => x6[x4.person] >= x4.run
        /\ x9 \/ x5 = x4.person \/ x6[x4.person] # 0

AnswerIsOfRun ==
    /\ x4.answer # 0 => x4.answer >= x4.run
    /\ x4.at = "over" /\ x4.answer = 0 => x9

PanelInv ==
    /\ PanelTypes
    /\ JobIsOfSelection
    /\ RunIsAccountedFor
    /\ AnswerIsOfRun
    /\ Panel!ForeignResultOnlyByLeaving

LEMMA PanelConstants ==
    /\ MaxRuns \in Nat /\ 0 \in 0..MaxRuns
    /\ REFRESH_POLL_MAX_FAILURES \in Nat /\ 0 \in 0..(REFRESH_POLL_MAX_FAILURES - 1)
    /\ Panel!NoJob \in PanelJob /\ Panel!Nothing \in PanelShown
<1>1. /\ MaxRuns \in Nat /\ 0 \in 0..MaxRuns
      /\ REFRESH_POLL_MAX_FAILURES \in Nat /\ 0 \in 0..(REFRESH_POLL_MAX_FAILURES - 1)
  BY BoundsAssumption
<1> QED
  BY <1>1
  DEF Panel!NoJob, Panel!Nothing, Panel!None, Panel!NoResult, PanelJob, PanelShown

LEMMA PanelStarts == Panel!Init => PanelInv
<1> SUFFICES ASSUME Panel!Init PROVE PanelInv
  OBVIOUS
<1>1. /\ x1 = "none" /\ x2 = FALSE /\ x3 = Panel!Nothing /\ x4 = Panel!NoJob /\ x5 = "none"
      /\ x6 = [p \in Persons |-> 0] /\ x7 = 0 /\ x9 = FALSE
  BY DEF Panel!Init, Panel!None, Panel!NoResult
<1>2. PanelTypes
  <2>1. x3 \in PanelShown /\ x4 \in PanelJob
    BY <1>1, PanelConstants
  <2>2. x7 \in 0..MaxRuns /\ x6 \in [Persons -> 0..MaxRuns] /\ \A p \in Persons : x6[p] <= x7
    BY <1>1, PanelConstants
  <2> QED
    BY <1>1, <2>1, <2>2 DEF PanelTypes
<1> QED
  BY <1>1, <1>2
  DEF PanelInv, JobIsOfSelection, RunIsAccountedFor, AnswerIsOfRun, Panel!NoJob,
      Panel!Nothing, Panel!None, Panel!NoResult, Panel!ForeignResultOnlyByLeaving

\* The server's part.
LEMMA ServerKeepsPanel ==
    ASSUME PanelInv,
           Panel!ExecuteRefresh \/ Panel!Restart \/ \E p \in Persons : Panel!StartElsewhere(p)
    PROVE  PanelInv'
<1>1. /\ x7 \in Nat /\ \A p \in Persons : x6[p] \in Nat
      /\ x4.run \in Nat /\ x4.person \in Persons \cup {"none"}
  BY BoundsAssumption DEF PanelInv, PanelTypes, PanelJob
<1>2. CASE Panel!ExecuteRefresh
  <2>1. /\ x5 \in Persons /\ x5' = "none" /\ x6' = [x6 EXCEPT ![x5] = x7]
        /\ UNCHANGED <<x1, x2, x3, x4, x7, x8, x9>>
    BY <1>2 DEF Panel!ExecuteRefresh, Panel!None, PanelInv, PanelTypes
  <2>2. PanelTypes'
    BY <1>1, <2>1 DEF PanelInv, PanelTypes
  <2>3. RunIsAccountedFor'
    BY <1>1, <2>1 DEF PanelInv, PanelTypes, RunIsAccountedFor
  <2> QED
    BY <2>1, <2>2, <2>3
    DEF PanelInv, JobIsOfSelection, AnswerIsOfRun, Panel!ForeignResultOnlyByLeaving
<1>3. CASE Panel!Restart
  <2>1. /\ x5' = "none" /\ x6' = [p \in Persons |-> 0] /\ x9' = (x4.run # 0)
        /\ UNCHANGED <<x1, x2, x3, x4, x7>>
    BY <1>3 DEF Panel!Restart, Panel!None, Panel!NoResult
  <2>2. PanelTypes'
    BY <1>1, <2>1, BoundsAssumption DEF PanelInv, PanelTypes
  <2>3. RunIsAccountedFor' /\ AnswerIsOfRun'
    BY <1>1, <2>1 DEF PanelInv, RunIsAccountedFor, AnswerIsOfRun, JobIsOfSelection
  <2> QED
    BY <2>1, <2>2, <2>3 DEF PanelInv, JobIsOfSelection, Panel!ForeignResultOnlyByLeaving
<1>4. ASSUME NEW p \in Persons, Panel!StartElsewhere(p) PROVE PanelInv'
  <2>1. /\ x5 = "none" /\ x7 < MaxRuns /\ x5' = p /\ x7' = x7 + 1
        /\ x6' = [x6 EXCEPT ![p] = 0] /\ UNCHANGED <<x1, x2, x3, x4, x8, x9>>
    BY <1>4 DEF Panel!StartElsewhere, Panel!Begin, Panel!None, Panel!NoResult
  <2>2. PanelTypes'
    BY <1>1, <2>1, BoundsAssumption DEF PanelInv, PanelTypes
  <2>3. RunIsAccountedFor'
    BY <1>1, <2>1, NamesAssumption DEF PanelInv, PanelTypes, RunIsAccountedFor
  <2> QED
    BY <2>1, <2>2, <2>3
    DEF PanelInv, JobIsOfSelection, AnswerIsOfRun, Panel!ForeignResultOnlyByLeaving
<1> QED
  BY <1>2, <1>3, <1>4

\* The job ends, and its panel shows what became of it.
LEMMA ShowsKeepsPanel ==
    ASSUME PanelInv, NEW kind \in {"result", "lost", "refused", "givenUp"},
           NEW run \in 0..MaxRuns, x4.at # "none", Panel!Shows(kind, run),
           UNCHANGED <<x1, x5, x6, x7, x8, x9>>
    PROVE  PanelInv'
<1>1. PICK s : s = [person |-> x4.person, kind |-> kind, run |-> run, left |-> x4.left]
  OBVIOUS
<1>2. x3' = s /\ x4' = Panel!NoJob /\ x2' = FALSE
  BY <1>1 DEF Panel!Shows
<1>3. s \in PanelShown /\ s.person = x4.person /\ s.left = x4.left
  BY <1>1 DEF PanelInv, PanelTypes, PanelJob, PanelShown
<1>5. PanelTypes'
  BY <1>2, <1>3, PanelConstants DEF PanelInv, PanelTypes
<1>6. Panel!ForeignResultOnlyByLeaving'
  BY <1>2, <1>3 DEF PanelInv, JobIsOfSelection, Panel!ForeignResultOnlyByLeaving
<1> QED
  BY <1>2, <1>5, <1>6
  DEF PanelInv, JobIsOfSelection, RunIsAccountedFor, AnswerIsOfRun, Panel!NoJob, Panel!NoResult

LEMMA UserKeepsPanel ==
    ASSUME PanelInv,
           \/ \E p \in Persons \cup {"none"} : Panel!HandlePersonChange(p)
           \/ Panel!HandleReevalTrigger
    PROVE  PanelInv'
<1>1. PanelTypes /\ Panel!Nothing \in PanelShown
  BY PanelConstants DEF PanelInv
<1>2. ASSUME NEW p \in Persons \cup {"none"}, Panel!HandlePersonChange(p) PROVE PanelInv'
  <2>1. PICK j : j = [x4 EXCEPT !.left = TRUE]
    OBVIOUS
  <2>2. /\ x1' = p /\ x3' = Panel!Nothing /\ x4' = j /\ UNCHANGED <<x2, x5, x6, x7, x9>>
    BY <1>2, <2>1 DEF Panel!HandlePersonChange
  <2>3. /\ j \in PanelJob /\ j.left /\ j.at = x4.at /\ j.person = x4.person
        /\ j.run = x4.run /\ j.answer = x4.answer
    BY <1>1, <2>1 DEF PanelTypes, PanelJob
  <2>4. PanelTypes'
    BY <1>1, <2>2, <2>3 DEF PanelTypes
  <2> QED
    BY <2>2, <2>3, <2>4
    DEF PanelInv, JobIsOfSelection, RunIsAccountedFor, AnswerIsOfRun, Panel!Nothing,
        Panel!ForeignResultOnlyByLeaving
<1>3. CASE Panel!HandleReevalTrigger
  <2>1. PICK j : j = [Panel!NoJob EXCEPT !.at = "posting", !.person = x1]
    OBVIOUS
  <2>2. /\ x1 \in Persons /\ x2' = TRUE /\ x3' = Panel!Nothing /\ x4' = j /\ x9' = FALSE
        /\ UNCHANGED <<x1, x5, x6, x7>>
    BY <1>1, <1>3, <2>1 DEF Panel!HandleReevalTrigger, Panel!None, PanelTypes
  <2>3. j \in PanelJob /\ j.at = "posting" /\ j.person = x1 /\ j.run = 0 /\ j.answer = 0
    BY <2>1, <2>2, PanelConstants DEF Panel!NoJob, Panel!None, Panel!NoResult, PanelJob
  <2>4. PanelTypes'
    BY <1>1, <2>2, <2>3 DEF PanelTypes
  <2> QED
    BY <2>2, <2>3, <2>4
    DEF PanelInv, JobIsOfSelection, RunIsAccountedFor, AnswerIsOfRun, Panel!Nothing,
        Panel!ForeignResultOnlyByLeaving
<1> QED
  BY <1>2, <1>3

LEMMA AskingKeepsPanel ==
    ASSUME PanelInv, Panel!StartRefresh \/ Panel!Posted \/ Panel!PostFails
    PROVE  PanelInv'
<1>1. PanelTypes /\ x7 \in Nat /\ MaxRuns \in Nat
  BY BoundsAssumption DEF PanelInv, PanelTypes
<1>2. CASE Panel!StartRefresh
  <2>1. PICK j : j = [x4 EXCEPT !.run = x7 + 1]
    OBVIOUS
  <2>2. /\ x4.at = "posting" /\ x5 = "none" /\ x7 < MaxRuns /\ x5' = x4.person /\ x7' = x7 + 1
        /\ x6' = [x6 EXCEPT ![x4.person] = 0] /\ x4' = j
        /\ UNCHANGED <<x1, x2, x3, x8, x9>>
    BY <1>2, <2>1 DEF Panel!StartRefresh, Panel!Begin, Panel!None, Panel!NoResult
  <2>3. /\ j \in PanelJob /\ j.at = x4.at /\ j.person = x4.person /\ j.left = x4.left
        /\ j.run = x7 + 1 /\ j.answer = x4.answer
    BY <1>1, <2>1, <2>2 DEF PanelTypes, PanelJob
  <2>4. x4.person \in Persons /\ x4.answer = 0
    BY <2>2 DEF PanelInv, JobIsOfSelection
  <2>5. PanelTypes'
    BY <1>1, <2>2, <2>3, <2>4 DEF PanelTypes
  <2>6. RunIsAccountedFor'
    BY <1>1, <2>2, <2>3, <2>4 DEF PanelTypes, RunIsAccountedFor
  <2> QED
    BY <1>1, <2>2, <2>3, <2>4, <2>5, <2>6
    DEF PanelInv, JobIsOfSelection, AnswerIsOfRun, Panel!ForeignResultOnlyByLeaving
<1>3. CASE Panel!Posted
  <2>1. PICK j : j = [x4 EXCEPT !.at = "polling"]
    OBVIOUS
  <2>2. /\ x4.at = "posting" /\ x4.run # 0 /\ x4' = j
        /\ UNCHANGED <<x1, x2, x3, x5, x6, x7, x9>>
    BY <1>3, <2>1 DEF Panel!Posted, Panel!NoResult
  <2>3. /\ j \in PanelJob /\ j.at = "polling" /\ j.person = x4.person /\ j.left = x4.left
        /\ j.run = x4.run /\ j.answer = x4.answer
    BY <1>1, <2>1 DEF PanelTypes, PanelJob
  <2> QED
    BY <1>1, <2>2, <2>3
    DEF PanelInv, PanelTypes, JobIsOfSelection, RunIsAccountedFor, AnswerIsOfRun,
        Panel!ForeignResultOnlyByLeaving
<1>4. CASE Panel!PostFails
  BY <1>1, <1>4, ShowsKeepsPanel DEF Panel!PostFails, Panel!NoResult
<1> QED
  BY <1>2, <1>3, <1>4

LEMMA PollingKeepsPanel ==
    ASSUME PanelInv, Panel!RefreshStatus \/ Panel!PollRefreshResult \/ Panel!PollFails
    PROVE  PanelInv'
<1>1. PanelTypes /\ x7 \in Nat /\ MaxRuns \in Nat /\ REFRESH_POLL_MAX_FAILURES \in Nat
  BY BoundsAssumption DEF PanelInv, PanelTypes
<1>2. CASE Panel!RefreshStatus
  <2>1. x4.at = "polling" /\ UNCHANGED <<x1, x2, x3, x5, x6, x7, x9>>
    BY <1>2 DEF Panel!RefreshStatus
  <2>2. x4.person \in Persons /\ x4.run # 0 /\ x4.answer = 0
    BY <2>1 DEF PanelInv, JobIsOfSelection
  <2>3. CASE x5 = x4.person
    <3>1. PICK j : j = [x4 EXCEPT !.at = "running"]
      OBVIOUS
    <3>2. x4' = j
      BY <1>2, <2>3, <3>1 DEF Panel!RefreshStatus
    <3>3. /\ j \in PanelJob /\ j.at = "running" /\ j.person = x4.person /\ j.left = x4.left
          /\ j.run = x4.run /\ j.answer = x4.answer
      BY <1>1, <3>1 DEF PanelTypes, PanelJob
    <3> QED
      BY <1>1, <2>1, <2>2, <3>2, <3>3
      DEF PanelInv, PanelTypes, JobIsOfSelection, RunIsAccountedFor, AnswerIsOfRun,
          Panel!ForeignResultOnlyByLeaving
  <2>4. CASE x5 # x4.person
    <3>1. PICK j : j = [x4 EXCEPT !.at = "over", !.answer = x6[x4.person]]
      OBVIOUS
    <3>2. x4' = j
      BY <1>2, <2>4, <3>1 DEF Panel!RefreshStatus
    <3>3. x6[x4.person] \in 0..MaxRuns
      BY <1>1, <2>2 DEF PanelTypes
    <3>4. /\ j \in PanelJob /\ j.at = "over" /\ j.person = x4.person /\ j.left = x4.left
          /\ j.run = x4.run /\ j.answer = x6[x4.person]
      BY <1>1, <3>1, <3>3 DEF PanelTypes, PanelJob
    <3>5. AnswerIsOfRun'
      BY <2>1, <2>2, <2>4, <3>2, <3>4 DEF PanelInv, RunIsAccountedFor, AnswerIsOfRun
    <3> QED
      BY <1>1, <2>1, <2>2, <3>2, <3>4, <3>5
      DEF PanelInv, PanelTypes, JobIsOfSelection, RunIsAccountedFor,
          Panel!ForeignResultOnlyByLeaving
  <2> QED
    BY <2>3, <2>4
<1>3. CASE Panel!PollRefreshResult
  <2>1. UNCHANGED <<x1, x5, x6, x7, x8, x9>>
    BY <1>3 DEF Panel!PollRefreshResult
  <2>2. CASE x4.at = "running"
    <3>1. PICK j : j = [x4 EXCEPT !.at = "polling", !.failures = 0]
      OBVIOUS
    <3>2. x4' = j /\ UNCHANGED <<x2, x3>>
      BY <1>3, <2>2, <3>1 DEF Panel!PollRefreshResult
    <3>3. /\ j \in PanelJob /\ j.at = "polling" /\ j.person = x4.person /\ j.left = x4.left
          /\ j.run = x4.run /\ j.answer = x4.answer
      BY <1>1, <3>1, PanelConstants DEF PanelTypes, PanelJob
    <3> QED
      BY <1>1, <2>1, <2>2, <3>2, <3>3
      DEF PanelInv, PanelTypes, JobIsOfSelection, RunIsAccountedFor, AnswerIsOfRun,
          Panel!ForeignResultOnlyByLeaving
  <2>3. CASE x4.at = "over"
    <3>1. PICK kind \in {"lost", "result"} : Panel!Shows(kind, x4.answer)
      BY <1>3, <2>3 DEF Panel!PollRefreshResult
    <3>2. x4.answer \in 0..MaxRuns
      BY <1>1 DEF PanelTypes, PanelJob
    <3> QED
      BY <2>1, <2>3, <3>1, <3>2, ShowsKeepsPanel
  <2> QED
    BY <1>3, <2>2, <2>3 DEF Panel!PollRefreshResult
<1>4. CASE Panel!PollFails
  <2>1. x4.at \in {"polling", "running", "over"} /\ UNCHANGED <<x1, x5, x6, x7, x8, x9>>
    BY <1>4 DEF Panel!PollFails
  <2>2. CASE x4.failures + 1 >= REFRESH_POLL_MAX_FAILURES
    BY <1>1, <1>4, <2>1, <2>2, ShowsKeepsPanel DEF Panel!PollFails, Panel!NoResult
  <2>3. CASE ~(x4.failures + 1 >= REFRESH_POLL_MAX_FAILURES)
    <3>1. PICK j : j = [x4 EXCEPT !.at = "polling", !.failures = @ + 1, !.answer = 0]
      OBVIOUS
    <3>2. x4' = j /\ UNCHANGED <<x2, x3>>
      BY <1>4, <2>3, <3>1 DEF Panel!PollFails, Panel!NoResult
    <3>3. /\ j \in PanelJob /\ j.at = "polling" /\ j.person = x4.person /\ j.left = x4.left
          /\ j.run = x4.run /\ j.answer = 0
      <4>1. x4.failures + 1 \in 0..(REFRESH_POLL_MAX_FAILURES - 1)
        BY <1>1, <2>3 DEF PanelTypes, PanelJob
      <4> QED
        BY <1>1, <3>1, <4>1, PanelConstants DEF PanelTypes, PanelJob
    <3> QED
      BY <1>1, <2>1, <3>2, <3>3
      DEF PanelInv, PanelTypes, JobIsOfSelection, RunIsAccountedFor, AnswerIsOfRun,
          Panel!ForeignResultOnlyByLeaving
  <2> QED
    BY <2>2, <2>3
<1> QED
  BY <1>2, <1>3, <1>4

LEMMA PanelGoesOn == PanelInv /\ [Panel!Next]_(Panel!vars) => PanelInv'
<1> SUFFICES ASSUME PanelInv, [Panel!Next]_(Panel!vars) PROVE PanelInv'
  OBVIOUS
<1>1. CASE Panel!Next
  BY <1>1, ServerKeepsPanel, UserKeepsPanel, AskingKeepsPanel, PollingKeepsPanel
  DEF Panel!Next, Panel!None
<1>2. CASE UNCHANGED Panel!vars
  BY <1>2 DEF Panel!vars, PanelInv, PanelTypes, JobIsOfSelection, RunIsAccountedFor,
              AnswerIsOfRun, Panel!ForeignResultOnlyByLeaving
<1> QED
  BY <1>1, <1>2

LEMMA PanelIsAsSaid ==
    PanelInv => /\ Panel!TypeOK
                /\ Panel!ResultOfRunAsked
                /\ Panel!ForeignResultOnlyByLeaving
<1> SUFFICES ASSUME PanelInv PROVE Panel!TypeOK /\ Panel!ResultOfRunAsked
  BY DEF PanelInv
<1>1. x6 \in [Persons -> 0..x7]
  BY BoundsAssumption DEF PanelInv, PanelTypes
<1>2. Panel!TypeOK
  BY <1>1 DEF PanelInv, PanelTypes, PanelJob, PanelShown, Panel!TypeOK, Panel!None
<1>3. Panel!ResultOfRunAsked
  BY DEF PanelInv, AnswerIsOfRun, Panel!ResultOfRunAsked, Panel!NoResult
<1> QED
  BY <1>2, <1>3

------------------------------------------------------------------------------
(* The dashboard: x1 is the person and x2 the assessment that are selected,  *)
(* x3 and x4 what is said of an evaluation, x5 counts the reloads, x6 and x7 *)
(* are the lists on the page, x8 their effects, x9 the fetches, x10 the      *)
(* evaluations on their way, x11 their number, x12 and x13 the stored rows.  *)

Lists == {"rows", "detail"}

BoardFetch ==
    [list : Lists, run : Nat, of : Persons \cup {"none"} \cup (0..MaxIds), served : BOOLEAN,
     row : 0..MaxIds]

BoardCall ==
    [number : Nat, person : Persons, at : {"sent", "made"}, row : 0..MaxIds, left : BOOLEAN,
     crossed : BOOLEAN]

BoardTypes ==
    /\ x1 \in Persons \cup {"none"} /\ x2 \in 0..MaxIds /\ x3 \in BOOLEAN
    /\ x4 \in [person : Persons \cup {"none"}, kind : {"none", "success", "error"}, left : BOOLEAN]
    /\ x5 \in 0..MaxReads
    /\ x6 \in [at : {"idle", "shown"}, person : Persons \cup {"none"}, row : 0..MaxIds]
    /\ x7 \in [at : {"idle", "shown"}, row : 0..MaxIds]
    /\ x8 \in [Lists -> [run : Nat, key : (Persons \cup {"none"} \cup (0..MaxIds)) \X Nat]]
    /\ x9 \subseteq BoardFetch /\ x10 \subseteq BoardCall /\ x11 \in Nat
    /\ x12 \in [Persons -> 0..MaxIds] /\ x13 \in 0..MaxIds

\* An assessment that somebody was shown is stored for nobody else.
OwnedBy(id, p) ==
    id # 0 => id <= x13 /\ \A q \in Persons : q # p => x12[q] # id

IdsAreOwned ==
    /\ \A p \in Persons : x12[p] <= x13 /\ OwnedBy(x12[p], p)
    /\ OwnedBy(x2, x1)
    /\ x6.at = "shown" => OwnedBy(x6.row, x6.person)
    /\ \A f \in x9 : f.list = "rows" /\ f.served => OwnedBy(f.row, f.of)

\* A fetch of the latest run of an effect is of what the effect ran for.
FetchIsOfEffect(f) ==
    /\ f.run <= x8[f.list].run
    /\ f.list = "rows" => f.of \in Persons
    /\ f.run = x8[f.list].run => f.of = x8[f.list].key[1]
    /\ f.list = "detail" => f.of \in 0..MaxIds /\ (f.served => f.row = f.of)

ShownIsOfEffect ==
    /\ \A f \in x9 : FetchIsOfEffect(f)
    /\ x6.at = "shown" => x6.person = x8["rows"].key[1]
    /\ x7.at = "shown" => x7.row = x8["detail"].key[1]
    /\ x8["rows"].key[2] <= x5

\* What an evaluation made is there, and in every list read since.
SuccessIsStored ==
    /\ \A c \in x10 : c.at = "made" => x12[c.person] # 0
    /\ x4.kind = "success" => x4.person \in Persons /\ x12[x4.person] # 0
    /\ x4.kind = "success" /\ x4.person = x1 /\ x8["rows"].key = <<x1, x5>> =>
          /\ x6.at = "shown" => x6.row # 0
          /\ \A f \in x9 : f.list = "rows" /\ f.served /\ f.run = x8["rows"].run => f.row # 0

\* An evaluation that is not shown to be on its way was left, or crossed.
CallsAreOfSelection ==
    /\ \A c \in x10 : /\ c.number < x11 /\ (c.person = x1 \/ c.left)
                      /\ ~x3 => c.left \/ c.crossed
    /\ \A c, d \in x10 : /\ c.number = d.number => c = d
                         /\ c.number < d.number => c.left \/ c.crossed
    /\ x4.kind # "none" /\ x4.person # x1 => x4.left

BoardInv ==
    /\ BoardTypes
    /\ IdsAreOwned
    /\ ShownIsOfEffect
    /\ SuccessIsStored
    /\ CallsAreOfSelection

LEMMA BoardStarts == Board!Init => BoardInv
<1> SUFFICES ASSUME Board!Init PROVE BoardInv
  OBVIOUS
<1>1. /\ x1 = "none" /\ x2 = 0 /\ x3 = FALSE /\ x4 = Board!NoNotice /\ x5 = 0
      /\ x6 = Board!NoRows /\ x7 = Board!NoDetail /\ x9 = {} /\ x10 = {} /\ x11 = 0
      /\ x8 = [l \in Lists |-> [run |-> 0, key |-> Board!Key(l)]] /\ x13 \in 0..1
  BY DEF Board!Init, Board!None, Board!NoId, Lists
<1>2. PICK p \in Persons : x12 = [q \in Persons |-> IF q = p THEN x13 ELSE 0]
  BY DEF Board!Init, Board!NoId
<1>3. 0 \in 0..MaxIds /\ 1 \in 0..MaxIds /\ 0 \in 0..MaxReads
  BY BoundsAssumption
<1>4. x8["rows"] = [run |-> 0, key |-> <<"none", 0>>] /\ x8["detail"] = [run |-> 0, key |-> <<0, 0>>]
  BY <1>1 DEF Board!Key, Lists
<1>5. BoardTypes
  <2>1. x8 \in [Lists -> [run : Nat, key : (Persons \cup {"none"} \cup (0..MaxIds)) \X Nat]]
    BY <1>1, <1>3 DEF Board!Key, Lists
  <2>2. x12 \in [Persons -> 0..MaxIds] /\ x13 \in 0..MaxIds
    BY <1>1, <1>2, <1>3
  <2> QED
    BY <1>1, <1>3, <2>1, <2>2
    DEF BoardTypes, Board!NoNotice, Board!NoRows, Board!NoDetail, Board!None, Board!NoId
<1>6. IdsAreOwned
  BY <1>1, <1>2 DEF IdsAreOwned, OwnedBy, Board!NoRows
<1> QED
  BY <1>1, <1>4, <1>5, <1>6
  DEF BoardInv, ShownIsOfEffect, SuccessIsStored, CallsAreOfSelection, Board!NoNotice,
      Board!NoRows, Board!NoDetail

LEMMA EffectKeepsBoard ==
    ASSUME BoardInv, NEW l \in Lists, Board!StartResourceEffect(l)
    PROVE  BoardInv'
<1>1. BoardTypes /\ MaxIds \in Nat /\ MaxReads \in Nat /\ x5 \in Nat
  BY BoundsAssumption DEF BoardInv, BoardTypes
<1>2. PICK e : e = [run |-> x8[l].run + 1, key |-> Board!Key(l)]
  OBVIOUS
<1>3. PICK f : f = [list |-> l, run |-> e.run, of |-> Board!Key(l)[1], served |-> FALSE, row |-> 0]
  OBVIOUS
<1>4. /\ x8' = [x8 EXCEPT ![l] = e] /\ UNCHANGED <<x1, x2, x3, x4, x5, x10, x11, x12, x13>>
      /\ x9' = IF Board!Wanted(l) THEN x9 \cup {f} ELSE x9
      /\ x6' = IF l = "rows" THEN Board!NoRows ELSE x6
      /\ x7' = IF l = "detail" THEN Board!NoDetail ELSE x7
  BY <1>1, <1>2, <1>3 DEF Board!StartResourceEffect, Board!NoId, BoardTypes
<1>5. /\ x8[l].run \in Nat /\ e.run = x8[l].run + 1 /\ e.key = Board!Key(l)
      /\ f.list = l /\ f.run = e.run /\ f.of = e.key[1] /\ ~f.served /\ f.row = 0
  BY <1>1, <1>2, <1>3 DEF BoardTypes
<1>6. /\ e.key \in (Persons \cup {"none"} \cup (0..MaxIds)) \X Nat
      /\ IF l = "rows" THEN e.key = <<x1, x5>> ELSE e.key = <<x2, 0>>
  BY <1>1, <1>5 DEF BoardTypes, Board!Key
<1>7. Board!NoRows.at = "idle" /\ Board!NoDetail.at = "idle"
  BY DEF Board!NoRows, Board!NoDetail
<1>8. BoardTypes'
  <2>1. f \in BoardFetch /\ e \in [run : Nat, key : (Persons \cup {"none"} \cup (0..MaxIds)) \X Nat]
    BY <1>1, <1>2, <1>3, <1>5, <1>6 DEF BoardFetch
  <2>2. x9' \subseteq BoardFetch
    BY <1>1, <1>4, <2>1 DEF BoardTypes
  <2>3. x6' \in [at : {"idle", "shown"}, person : Persons \cup {"none"}, row : 0..MaxIds]
    BY <1>1, <1>4 DEF BoardTypes, Board!NoRows, Board!None, Board!NoId
  <2>4. x7' \in [at : {"idle", "shown"}, row : 0..MaxIds]
    BY <1>1, <1>4 DEF BoardTypes, Board!NoDetail, Board!NoId
  <2> QED
    BY <1>1, <1>4, <2>1, <2>2, <2>3, <2>4 DEF BoardTypes
<1>9. \A g \in x9' : g \in x9 \/ (g = f /\ Board!Wanted(l))
  BY <1>4
<1>10. ShownIsOfEffect'
  <2>1. x8'[l] = e /\ \A k \in Lists \ {l} : x8'[k] = x8[k]
    BY <1>1, <1>4 DEF BoardTypes
  <2>2. ASSUME NEW g \in x9 PROVE FetchIsOfEffect(g)'
    <3>1. g \in BoardFetch /\ FetchIsOfEffect(g)
      BY <1>1 DEF BoardInv, BoardTypes, ShownIsOfEffect
    <3> QED
      BY <1>5, <2>1, <3>1 DEF FetchIsOfEffect, BoardFetch
  <2>3. Board!Wanted(l) => FetchIsOfEffect(f)'
    BY <1>1, <1>5, <1>6, <2>1 DEF FetchIsOfEffect, Board!Wanted, Board!None, BoardTypes
  <2>4. \A g \in x9' : FetchIsOfEffect(g)'
    BY <1>9, <2>2, <2>3
  <2> QED
    BY <1>1, <1>4, <1>6, <1>7, <2>1, <2>4 DEF BoardInv, ShownIsOfEffect, Lists
<1>11. IdsAreOwned'
  BY <1>4, <1>5, <1>7, <1>9 DEF BoardInv, IdsAreOwned, OwnedBy
<1>12. SuccessIsStored'
  <2>1. CASE l = "rows"
    <3>1. x8'["rows"] = e /\ x6'.at = "idle"
      BY <1>1, <1>4, <1>7, <2>1 DEF BoardTypes
    <3>2. ASSUME NEW g \in x9', g.list = "rows", g.served, g.run = e.run PROVE FALSE
      <4>1. g \in x9 /\ FetchIsOfEffect(g) /\ g.run \in Nat
        BY <1>1, <1>5, <1>9, <3>2 DEF BoardInv, BoardTypes, BoardFetch, ShownIsOfEffect
      <4> QED
        BY <1>5, <2>1, <3>2, <4>1 DEF FetchIsOfEffect
    <3> QED
      BY <1>4, <3>1, <3>2 DEF BoardInv, SuccessIsStored
  <2>2. CASE l = "detail"
    <3>1. x8'["rows"] = x8["rows"] /\ x6' = x6
      BY <1>1, <1>4, <2>2 DEF BoardTypes, Lists
    <3> QED
      BY <1>4, <1>5, <1>9, <2>2, <3>1 DEF BoardInv, SuccessIsStored
  <2> QED
    BY <2>1, <2>2 DEF Lists
<1> QED
  BY <1>4, <1>8, <1>10, <1>11, <1>12 DEF BoardInv, CallsAreOfSelection

LEMMA FetchesKeepBoard ==
    ASSUME BoardInv, NEW f \in x9, Board!Serve(f) \/ Board!RunFetch(f) \/ Board!FetchFails(f)
    PROVE  BoardInv'
<1>1. /\ BoardTypes /\ f \in BoardFetch /\ FetchIsOfEffect(f)
      /\ UNCHANGED <<x1, x2, x3, x4, x5, x8, x10, x11, x12, x13>>
  BY DEF BoardInv, BoardTypes, ShownIsOfEffect, Board!Serve, Board!RunFetch, Board!FetchFails
<1>2. CASE Board!Serve(f)
  <2>1. PICK g : g = [f EXCEPT !.served = TRUE, !.row = IF f.list = "rows" THEN x12[f.of] ELSE f.of]
    OBVIOUS
  <2>2. x9' = (x9 \ {f}) \cup {g} /\ UNCHANGED <<x6, x7>>
    BY <1>2, <2>1 DEF Board!Serve
  <2>3. /\ g.list = f.list /\ g.run = f.run /\ g.of = f.of /\ g.served
        /\ g.row = IF f.list = "rows" THEN x12[f.of] ELSE f.of
    BY <1>1, <2>1 DEF BoardFetch
  <2>4. g.row \in 0..MaxIds
    BY <1>1, <2>3 DEF FetchIsOfEffect, BoardTypes, BoardFetch, Lists
  <2>5. g \in BoardFetch
    BY <1>1, <2>1, <2>3, <2>4 DEF BoardFetch
  <2>6. BoardTypes'
    BY <1>1, <2>2, <2>5 DEF BoardTypes
  <2>7. IdsAreOwned'
    <3>1. f.list = "rows" => OwnedBy(g.row, f.of)
      BY <1>1, <2>3 DEF BoardInv, IdsAreOwned, FetchIsOfEffect
    <3> QED
      BY <1>1, <2>2, <2>3, <3>1 DEF BoardInv, IdsAreOwned, OwnedBy
  <2>8. ShownIsOfEffect'
    BY <1>1, <2>2, <2>3 DEF BoardInv, ShownIsOfEffect, FetchIsOfEffect
  <2>9. SuccessIsStored'
    <3>1. ASSUME x4.kind = "success", x4.person = x1, x8["rows"].key = <<x1, x5>>,
                 f.list = "rows", f.run = x8["rows"].run
          PROVE  g.row # 0
      BY <1>1, <2>3, <3>1 DEF FetchIsOfEffect, BoardInv, SuccessIsStored
    <3> QED
      BY <1>1, <2>2, <2>3, <3>1 DEF BoardInv, SuccessIsStored
  <2> QED
    BY <1>1, <2>2, <2>6, <2>7, <2>8, <2>9 DEF BoardInv, CallsAreOfSelection
<1>3. ASSUME x9' = x9 \ {f},
             \/ UNCHANGED <<x6, x7>>
             \/ /\ f.list = "rows" /\ f.run = x8["rows"].run /\ f.served
                /\ x6' = [at |-> "shown", person |-> f.of, row |-> f.row] /\ x7' = x7
             \/ /\ f.list = "detail" /\ f.run = x8["detail"].run /\ f.served
                /\ x7' = [at |-> "shown", row |-> f.row] /\ x6' = x6
      PROVE  BoardInv'
  <2>1. BoardTypes'
    BY <1>1, <1>3 DEF BoardTypes, BoardFetch, FetchIsOfEffect
  <2>2. IdsAreOwned'
    BY <1>1, <1>3 DEF BoardInv, IdsAreOwned, OwnedBy
  <2>3. ShownIsOfEffect'
    BY <1>1, <1>3 DEF BoardInv, ShownIsOfEffect, FetchIsOfEffect
  <2>4. SuccessIsStored'
    BY <1>1, <1>3 DEF BoardInv, SuccessIsStored
  <2> QED
    BY <1>1, <2>1, <2>2, <2>3, <2>4 DEF BoardInv, CallsAreOfSelection
<1>4. CASE Board!RunFetch(f)
  <2>1. /\ x9' = x9 \ {f} /\ f.served
        /\ x6' = IF Board!IsCancelled(f) \/ f.list # "rows" THEN x6
                 ELSE [at |-> "shown", person |-> f.of, row |-> f.row]
        /\ x7' = IF Board!IsCancelled(f) \/ f.list # "detail" THEN x7
                 ELSE [at |-> "shown", row |-> f.row]
    BY <1>4 DEF Board!RunFetch
  <2>2. f.list \in Lists /\ (Board!IsCancelled(f) <=> f.run # x8[f.list].run)
    BY <1>1 DEF Board!IsCancelled, BoardFetch
  <2>3. CASE Board!IsCancelled(f)
    BY <1>3, <2>1, <2>3
  <2>4. CASE ~Board!IsCancelled(f) /\ f.list = "rows"
    BY <1>3, <2>1, <2>2, <2>4
  <2>5. CASE ~Board!IsCancelled(f) /\ f.list = "detail"
    BY <1>3, <2>1, <2>2, <2>5
  <2> QED
    BY <2>2, <2>3, <2>4, <2>5 DEF Lists
<1>5. CASE Board!FetchFails(f)
  BY <1>3, <1>5 DEF Board!FetchFails
<1> QED
  BY <1>2, <1>4, <1>5

LEMMA SelectingKeepsBoard ==
    ASSUME BoardInv,
           \/ \E p \in Persons \cup {"none"} : Board!HandlePersonSelect(p)
           \/ \E id \in 0..MaxIds : Board!HandleSelectChange(id)
    PROVE  BoardInv'
<1>1. BoardTypes
  BY DEF BoardInv
<1>2. ASSUME NEW p \in Persons \cup {"none"}, Board!HandlePersonSelect(p) PROVE BoardInv'
  <2>1. /\ x1' = p /\ x2' = 0 /\ x3' = FALSE /\ x4' = Board!NoNotice
        /\ x10' = {[c EXCEPT !.left = TRUE] : c \in x10}
        /\ UNCHANGED <<x5, x6, x7, x8, x9, x11, x12, x13>>
    BY <1>2 DEF Board!HandlePersonSelect, Board!NoId
  <2>2. Board!NoNotice = [person |-> "none", kind |-> "none", left |-> FALSE]
    BY DEF Board!NoNotice, Board!None
  <2>3. ASSUME NEW d \in x10'
        PROVE  \E c \in x10 : /\ d = [c EXCEPT !.left = TRUE] /\ c \in BoardCall
                              /\ d \in BoardCall /\ d.left /\ d.number = c.number
                              /\ d.at = c.at /\ d.person = c.person
    <3>1. PICK c \in x10 : d = [c EXCEPT !.left = TRUE]
      BY <2>1
    <3> QED
      BY <1>1, <3>1 DEF BoardTypes, BoardCall
  <2>4. BoardTypes'
    <3>1. x2' \in 0..MaxIds
      BY <2>1, BoundsAssumption
    <3> QED
      BY <1>1, <2>1, <2>2, <2>3, <3>1 DEF BoardTypes
  <2>5. CallsAreOfSelection'
    <3>1. ASSUME NEW c \in x10', NEW d \in x10', c.number = d.number PROVE c = d
      <4>1. PICK a \in x10 : c = [a EXCEPT !.left = TRUE] /\ c.number = a.number
        BY <2>3
      <4>2. PICK b \in x10 : d = [b EXCEPT !.left = TRUE] /\ d.number = b.number
        BY <2>3
      <4>3. a = b
        BY <3>1, <4>1, <4>2 DEF BoardInv, CallsAreOfSelection
      <4> QED
        BY <4>1, <4>2, <4>3
    <3> QED
      BY <2>1, <2>2, <2>3, <3>1 DEF BoardInv, CallsAreOfSelection
  <2>6. IdsAreOwned' /\ ShownIsOfEffect'
    BY <2>1 DEF BoardInv, IdsAreOwned, OwnedBy, ShownIsOfEffect, FetchIsOfEffect
  <2>7. SuccessIsStored'
    BY <2>1, <2>2, <2>3 DEF BoardInv, SuccessIsStored
  <2> QED
    BY <2>4, <2>5, <2>6, <2>7 DEF BoardInv
<1>3. ASSUME NEW id \in 0..MaxIds, Board!HandleSelectChange(id) PROVE BoardInv'
  <2>1. /\ Board!UpToDate /\ x2' = id /\ (id # 0 => x6.at = "shown" /\ x6.row = id)
        /\ UNCHANGED <<x1, x3, x4, x5, x6, x7, x8, x9, x10, x11, x12, x13>>
    BY <1>3 DEF Board!HandleSelectChange, Board!NoId
  <2>2. x8["rows"].key[1] = x1
    BY <2>1 DEF Board!UpToDate, Board!Key
  <2>3. OwnedBy(id, x1)
    BY <2>1, <2>2 DEF BoardInv, IdsAreOwned, OwnedBy, ShownIsOfEffect
  <2> QED
    BY <1>1, <2>1, <2>3
    DEF BoardInv, BoardTypes, IdsAreOwned, OwnedBy, ShownIsOfEffect, FetchIsOfEffect,
        SuccessIsStored, CallsAreOfSelection
<1> QED
  BY <1>2, <1>3

LEMMA SubmittingKeepsBoard ==
    ASSUME BoardInv, Board!HandlePeriodSubmit
    PROVE  BoardInv'
<1>1. BoardTypes
  BY DEF BoardInv
<1>2. PICK d : d = [number |-> x11, person |-> x1, at |-> "sent", row |-> 0, left |-> FALSE,
                    crossed |-> FALSE]
  OBVIOUS
<1>3. /\ x1 \in Persons /\ ~x3 /\ x11' = x11 + 1 /\ x3' = TRUE /\ x4' = Board!NoNotice
      /\ x10' = x10 \cup {d} /\ UNCHANGED <<x1, x2, x5, x6, x7, x8, x9, x12, x13>>
  BY <1>1, <1>2 DEF Board!HandlePeriodSubmit, Board!None, Board!NoId, BoardTypes
<1>4. d \in BoardCall /\ d.number = x11 /\ d.person = x1 /\ d.at = "sent"
  BY <1>1, <1>2, <1>3, BoundsAssumption DEF BoardTypes, BoardCall
<1>5. Board!NoNotice = [person |-> "none", kind |-> "none", left |-> FALSE]
  BY DEF Board!NoNotice, Board!None
<1>6. BoardTypes'
  BY <1>1, <1>3, <1>4, <1>5 DEF BoardTypes
<1>7. CallsAreOfSelection'
  <2>1. \A c \in x10 : /\ c.number < x11 /\ c.number \in Nat
                       /\ (c.person = x1 \/ c.left) /\ (c.left \/ c.crossed)
    BY <1>1, <1>3 DEF BoardInv, BoardTypes, BoardCall, CallsAreOfSelection
  <2>2. x11 \in Nat /\ x11 < x11 + 1
    BY <1>1 DEF BoardTypes
  <2> QED
    BY <1>3, <1>4, <1>5, <2>1, <2>2 DEF BoardInv, CallsAreOfSelection
<1> QED
  BY <1>3, <1>4, <1>5, <1>6, <1>7
  DEF BoardInv, IdsAreOwned, OwnedBy, ShownIsOfEffect, FetchIsOfEffect, SuccessIsStored

\* A new assessment is nobody else's.
LEMMA NewIdIsOwned ==
    ASSUME BoardTypes, IdsAreOwned, NEW p \in Persons,
           x12' = [x12 EXCEPT ![p] = x13 + 1], x13' = x13 + 1,
           UNCHANGED <<x1, x2, x6, x9>>
    PROVE  IdsAreOwned'
<1>1. x13 \in Nat
  BY BoundsAssumption DEF BoardTypes
<1>2. ASSUME NEW id \in 0..MaxIds, NEW q, OwnedBy(id, q) PROVE OwnedBy(id, q)'
  <2> SUFFICES ASSUME id # 0 PROVE id <= x13' /\ \A r \in Persons : r # q => x12'[r] # id
    BY DEF OwnedBy
  <2>1. id \in Nat /\ id <= x13 /\ id # x13 + 1
    BY <1>1, <1>2, BoundsAssumption DEF OwnedBy
  <2> QED
    BY <1>1, <1>2, <2>1 DEF OwnedBy, BoardTypes
<1>3. ASSUME NEW q \in Persons PROVE x12'[q] <= x13' /\ OwnedBy(x12[q], q)'
  <2>1. CASE q = p
    <3>1. x12'[q] = x13 + 1
      BY <2>1 DEF BoardTypes
    <3>2. ASSUME NEW r \in Persons, r # q PROVE x12'[r] # x13 + 1
      <4>1. x12'[r] = x12[r] /\ x12[r] <= x13 /\ x12[r] \in Nat
        BY <2>1, <3>2, BoundsAssumption DEF BoardTypes, IdsAreOwned
      <4> QED
        BY <1>1, <4>1
    <3> QED
      BY <1>1, <3>1, <3>2 DEF OwnedBy
  <2>2. CASE q # p
    <3>1. x12'[q] = x12[q] /\ x12[q] \in 0..MaxIds /\ x12[q] <= x13 /\ OwnedBy(x12[q], q)
      BY <2>2 DEF BoardTypes, IdsAreOwned
    <3>2. PICK id \in 0..MaxIds : id = x12[q]
      BY <3>1
    <3>3. OwnedBy(id, q)'
      BY <1>2, <3>1, <3>2
    <3>4. x12[q] \in Nat
      BY <3>1, BoundsAssumption
    <3> QED
      BY <1>1, <3>1, <3>2, <3>3, <3>4 DEF OwnedBy
  <2> QED
    BY <2>1, <2>2
<1>4. OwnedBy(x2, x1)'
  <2>1. PICK id \in 0..MaxIds : id = x2
    BY DEF BoardTypes
  <2>2. PICK q : id = x2 /\ q = x1
    BY <2>1
  <2>3. OwnedBy(id, q)'
    BY <1>2, <2>2 DEF IdsAreOwned
  <2> QED
    BY <2>2, <2>3 DEF OwnedBy
<1>5. (x6.at = "shown" => OwnedBy(x6.row, x6.person))'
  <2>1. PICK id \in 0..MaxIds : id = x6.row
    BY DEF BoardTypes
  <2>2. PICK q : id = x6.row /\ q = x6.person
    BY <2>1
  <2>3. x6.at = "shown" => OwnedBy(id, q)'
    BY <1>2, <2>2 DEF IdsAreOwned
  <2> QED
    BY <2>2, <2>3 DEF OwnedBy
<1>6. ASSUME NEW f \in x9, f.list = "rows", f.served PROVE OwnedBy(f.row, f.of)'
  <2>1. f.row \in 0..MaxIds
    BY DEF BoardTypes, BoardFetch
  <2> QED
    BY <1>2, <1>6, <2>1 DEF IdsAreOwned
<1> QED
  BY <1>3, <1>4, <1>5, <1>6 DEF IdsAreOwned

LEMMA EvaluatingKeepsBoard ==
    ASSUME BoardInv, NEW c \in x10, Board!Evaluate(c)
    PROVE  BoardInv'
<1>1. BoardTypes /\ c \in BoardCall /\ c.person \in Persons /\ MaxIds \in Nat /\ x13 \in 0..MaxIds
  BY BoundsAssumption DEF BoardInv, BoardTypes, BoardCall
<1>2. PICK id : id = IF x12[c.person] = 0 THEN x13 + 1 ELSE x12[c.person]
  OBVIOUS
<1>3. PICK d : d = [c EXCEPT !.at = "made", !.row = id]
  OBVIOUS
<1>4. /\ x13 < MaxIds /\ x12' = [x12 EXCEPT ![c.person] = id]
      /\ x13' = (IF id > x13 THEN id ELSE x13) /\ x10' = (x10 \ {c}) \cup {d}
      /\ UNCHANGED <<x1, x2, x3, x4, x5, x6, x7, x8, x9, x11>>
  BY <1>2, <1>3 DEF Board!Evaluate, Board!NoId
<1>5. x12[c.person] \in 0..MaxIds /\ x12[c.person] <= x13
  BY <1>1 DEF BoardInv, BoardTypes, IdsAreOwned
<1>6. id \in 1..MaxIds
  BY <1>1, <1>2, <1>4, <1>5
<1>7. /\ d \in BoardCall /\ d.number = c.number /\ d.person = c.person /\ d.left = c.left
      /\ d.crossed = c.crossed
  <2>1. id \in 0..MaxIds
    BY <1>1, <1>6
  <2> QED
    BY <1>1, <1>3, <2>1 DEF BoardCall
<1>8. /\ x12' \in [Persons -> 0..MaxIds] /\ x12'[c.person] = id
      /\ \A p \in Persons : x12[p] # 0 => x12'[p] # 0
  BY <1>1, <1>4, <1>6 DEF BoardTypes
<1>9. BoardTypes'
  <2>1. x13' \in 0..MaxIds
    BY <1>1, <1>4, <1>6
  <2> QED
    BY <1>1, <1>4, <1>7, <1>8, <2>1 DEF BoardTypes
<1>10. IdsAreOwned'
  <2>1. CASE x12[c.person] = 0
    <3>1. id = x13 + 1 /\ x13' = x13 + 1
      BY <1>1, <1>2, <1>4, <2>1
    <3> QED
      BY <1>1, <1>4, <3>1, NewIdIsOwned DEF BoardInv
  <2>2. CASE x12[c.person] # 0
    <3>1. id = x12[c.person] /\ x13' = x13
      BY <1>1, <1>2, <1>4, <1>5, <2>2
    <3>2. x12' = x12
      BY <1>1, <1>4, <3>1 DEF BoardTypes
    <3> QED
      BY <1>4, <3>1, <3>2 DEF BoardInv, IdsAreOwned, OwnedBy
  <2> QED
    BY <2>1, <2>2
<1>11. SuccessIsStored'
  <2>1. \A e \in x10' : e.at = "made" => x12'[e.person] # 0
    BY <1>1, <1>4, <1>6, <1>7, <1>8 DEF BoardInv, BoardTypes, BoardCall, SuccessIsStored
  <2> QED
    BY <1>4, <1>8, <2>1 DEF BoardInv, SuccessIsStored
<1>12. CallsAreOfSelection'
  BY <1>4, <1>7 DEF BoardInv, CallsAreOfSelection
<1> QED
  BY <1>4, <1>9, <1>10, <1>11, <1>12 DEF BoardInv, ShownIsOfEffect, FetchIsOfEffect

LEMMA AnsweringKeepsBoard ==
    ASSUME BoardInv, NEW c \in x10, Board!RunPeriodEvaluation(c)
    PROVE  BoardInv'
<1>1. BoardTypes /\ c \in BoardCall /\ x5 \in Nat /\ MaxReads \in Nat
  BY BoundsAssumption DEF BoardInv, BoardTypes
<1>2. PICK kind \in {"success", "error"} :
         /\ x4' = [person |-> c.person, kind |-> kind, left |-> c.left]
         /\ IF kind = "success" THEN c.at = "made" /\ x5 < MaxReads /\ x5' = x5 + 1 ELSE x5' = x5
  BY DEF Board!RunPeriodEvaluation
<1>3. x3' = FALSE /\ x10' = Board!Rest(c) /\ UNCHANGED <<x1, x2, x6, x7, x8, x9, x11, x12, x13>>
  BY DEF Board!RunPeriodEvaluation
<1>4. /\ x4'.person = c.person /\ x4'.kind = kind /\ x4'.left = c.left /\ c.person \in Persons
      /\ x4' \in [person : Persons \cup {"none"}, kind : {"none", "success", "error"},
                  left : BOOLEAN]
  BY <1>1, <1>2 DEF BoardCall
<1>5. ASSUME NEW d \in x10'
      PROVE  \E e \in x10 \ {c} :
                /\ d = IF c.left \/ c.crossed THEN [e EXCEPT !.crossed = TRUE] ELSE e
                /\ d \in BoardCall /\ d.number = e.number /\ d.person = e.person
                /\ d.at = e.at /\ d.left = e.left
                /\ d.crossed <=> e.crossed \/ c.left \/ c.crossed
  <2>1. PICK e \in x10 \ {c} :
           d = IF c.left \/ c.crossed THEN [e EXCEPT !.crossed = TRUE] ELSE e
    BY <1>3 DEF Board!Rest
  <2>2. e \in BoardCall
    BY <1>1 DEF BoardTypes
  <2>3. CASE c.left \/ c.crossed
    <3>1. d = [e EXCEPT !.crossed = TRUE]
      BY <2>1, <2>3
    <3>2. /\ d \in BoardCall /\ d.number = e.number /\ d.person = e.person
          /\ d.at = e.at /\ d.left = e.left /\ d.crossed
      BY <2>2, <3>1 DEF BoardCall
    <3> QED
      BY <2>1, <2>3, <3>2
  <2>4. CASE ~(c.left \/ c.crossed)
    BY <2>1, <2>2, <2>4
  <2> QED
    BY <2>3, <2>4
<1>6. BoardTypes'
  <2>1. x5' \in 0..MaxReads
    BY <1>1, <1>2 DEF BoardTypes
  <2>2. x10' \subseteq BoardCall
    BY <1>5
  <2> QED
    BY <1>1, <1>3, <1>4, <2>1, <2>2 DEF BoardTypes
<1>7. SuccessIsStored'
  <2>1. \A d \in x10' : d.at = "made" => x12[d.person] # 0
    BY <1>5 DEF BoardInv, SuccessIsStored
  <2>2. kind = "success" => x12[c.person] # 0
    BY <1>2 DEF BoardInv, SuccessIsStored
  <2>3. kind = "success" => x8["rows"].key # <<x1, x5'>>
    BY <1>1, <1>2 DEF BoardInv, ShownIsOfEffect
  <2> QED
    BY <1>3, <1>4, <2>1, <2>2, <2>3 DEF SuccessIsStored
<1>8. CallsAreOfSelection'
  <2>1. ASSUME NEW d \in x10', NEW e \in x10'
        PROVE  (d.number = e.number => d = e) /\ (d.number < e.number => d.left \/ d.crossed)
    <3>1. PICK a \in x10 : /\ d.number = a.number /\ d.left = a.left /\ (a.crossed => d.crossed)
                           /\ d = IF c.left \/ c.crossed THEN [a EXCEPT !.crossed = TRUE] ELSE a
      BY <1>5
    <3>2. PICK b \in x10 : /\ e.number = b.number
                           /\ e = IF c.left \/ c.crossed THEN [b EXCEPT !.crossed = TRUE] ELSE b
      BY <1>5
    <3> QED
      BY <3>1, <3>2 DEF BoardInv, CallsAreOfSelection
  <2>2. ASSUME NEW d \in x10'
        PROVE  d.number < x11 /\ (d.person = x1 \/ d.left) /\ (d.left \/ d.crossed)
    <3>1. PICK e \in x10 \ {c} : /\ d.number = e.number /\ d.person = e.person /\ d.left = e.left
                                 /\ d.crossed <=> e.crossed \/ c.left \/ c.crossed
      BY <1>5
    <3>2. e.number \in Nat /\ c.number \in Nat /\ e.number # c.number
      BY <1>1 DEF BoardInv, BoardTypes, BoardCall, CallsAreOfSelection
    <3>3. e.number < c.number => e.left \/ e.crossed
      BY DEF BoardInv, CallsAreOfSelection
    <3>4. c.number < e.number => c.left \/ c.crossed
      BY DEF BoardInv, CallsAreOfSelection
    <3>5. d.left \/ d.crossed
      BY <3>1, <3>2, <3>3, <3>4
    <3> QED
      BY <3>1, <3>5 DEF BoardInv, CallsAreOfSelection
  <2>3. c.person = x1 \/ c.left
    BY DEF BoardInv, CallsAreOfSelection
  <2> QED
    BY <1>3, <1>4, <2>1, <2>2, <2>3 DEF CallsAreOfSelection
<1>9. ShownIsOfEffect'
  <2>1. x8["rows"].key[2] <= x5'
    BY <1>1, <1>2 DEF BoardInv, ShownIsOfEffect, BoardTypes, Lists
  <2> QED
    BY <1>3, <2>1 DEF BoardInv, ShownIsOfEffect, FetchIsOfEffect
<1> QED
  BY <1>3, <1>6, <1>7, <1>8, <1>9 DEF BoardInv, IdsAreOwned, OwnedBy

LEMMA ReplacingKeepsBoard ==
    ASSUME BoardInv, NEW p \in Persons, Board!Replace(p)
    PROVE  BoardInv'
<1>1. BoardTypes /\ MaxIds \in Nat /\ x13 \in 0..MaxIds
  BY BoundsAssumption DEF BoardInv, BoardTypes
<1>2. /\ x13 < MaxIds /\ x13' = x13 + 1 /\ x12' = [x12 EXCEPT ![p] = x13 + 1]
      /\ UNCHANGED <<x1, x2, x3, x4, x5, x6, x7, x8, x9, x10, x11>>
  BY DEF Board!Replace
<1>3. x13 + 1 \in 1..MaxIds
  BY <1>1, <1>2
<1>4. x12' \in [Persons -> 0..MaxIds] /\ \A q \in Persons : x12[q] # 0 => x12'[q] # 0
  BY <1>1, <1>2, <1>3 DEF BoardTypes
<1>5. BoardTypes'
  BY <1>1, <1>2, <1>3, <1>4 DEF BoardTypes
<1>6. IdsAreOwned'
  BY <1>1, <1>2, NewIdIsOwned DEF BoardInv
<1>7. SuccessIsStored'
  BY <1>1, <1>2, <1>4 DEF BoardInv, BoardTypes, BoardCall, SuccessIsStored
<1> QED
  BY <1>2, <1>5, <1>6, <1>7
  DEF BoardInv, ShownIsOfEffect, FetchIsOfEffect, CallsAreOfSelection

LEMMA BoardGoesOn == BoardInv /\ [Board!Next]_(Board!vars) => BoardInv'
<1> SUFFICES ASSUME BoardInv, [Board!Next]_(Board!vars) PROVE BoardInv'
  OBVIOUS
<1>1. CASE Board!Next
  BY <1>1, EffectKeepsBoard, FetchesKeepBoard, SelectingKeepsBoard, SubmittingKeepsBoard,
     EvaluatingKeepsBoard, AnsweringKeepsBoard, ReplacingKeepsBoard
  DEF Board!Next, Board!None, Lists
<1>2. CASE UNCHANGED Board!vars
  BY <1>2 DEF Board!vars, BoardInv, BoardTypes, IdsAreOwned, OwnedBy, ShownIsOfEffect,
              FetchIsOfEffect, SuccessIsStored, CallsAreOfSelection
<1> QED
  BY <1>1, <1>2

LEMMA BoardIsAsSaid ==
    BoardInv => /\ Board!TypeOK
                /\ Board!DetailOfSelection
                /\ Board!SuccessIsListed
                /\ Board!CrossedOnlyByLeaving
<1> SUFFICES ASSUME BoardInv
             PROVE  /\ Board!TypeOK
                    /\ Board!DetailOfSelection
                    /\ Board!SuccessIsListed
                    /\ Board!CrossedOnlyByLeaving
  OBVIOUS
<1>1. Board!TypeOK
  <2>1. \A p \in Persons : x12[p] \in 0..x13
    BY BoundsAssumption DEF BoardInv, BoardTypes, IdsAreOwned
  <2>2. \A c \in x10 : c.person \in Persons /\ c.number \in 0..x11
    BY DEF BoardInv, BoardTypes, BoardCall, CallsAreOfSelection
  <2> QED
    BY <2>1, <2>2 DEF BoardInv, BoardTypes, Board!TypeOK, Board!None
<1>2. Board!UpToDate => x8["rows"].key = <<x1, x5>> /\ x8["detail"].key = <<x2, 0>>
  BY DEF Board!UpToDate, Board!Key
<1>3. Board!DetailOfSelection
  BY <1>2 DEF BoardInv, IdsAreOwned, OwnedBy, ShownIsOfEffect, Board!DetailOfSelection, Board!NoId
<1>4. Board!SuccessIsListed
  BY <1>2 DEF BoardInv, SuccessIsStored, Board!SuccessIsListed, Board!NoId
<1>5. Board!CrossedOnlyByLeaving
  BY DEF BoardInv, CallsAreOfSelection, Board!CrossedOnlyByLeaving
<1> QED
  BY <1>1, <1>3, <1>4, <1>5

------------------------------------------------------------------------------
(* The admin page: x1 is the section, x2 the versions of its rows, x3 what is *)
(* selected, x4 the nonces, x5 the effects, x6 the lists on the page, x7 the  *)
(* fetches, x8 the gates, x9 the calls, x10 the versions that were answered,  *)
(* x11 the edit form, x12 the guess, x13 the clicks.                          *)

\* What the handlers of a section have in common.
Sound(S) ==
    /\ \A h \in S.handlers : /\ h.writes \subseteq h.bumps
                             /\ h.ends = "edit" => h.guard # "row"
                             /\ h.ends = "selection" => "none" \in S.choices
    /\ \A h, k \in S.handlers : h.gate = k.gate => (h.guard = "row" <=> k.guard = "row")
    /\ {"none", "active"} \cap S.choices # {}

LEMMA SectionsAreSound == \A s \in DOMAIN Handlers!Sections : Sound(Handlers!Sections[s])
<1> SUFFICES ASSUME NEW s \in DOMAIN Handlers!Sections PROVE Sound(Handlers!Sections[s])
  OBVIOUS
<1> USE DEF Sound, Handlers!Section, Handlers!LettingGo, Handlers!Handler, Handlers!Touching, Handlers!None
<1>1. s \in {"users", "persons", "groups", "members", "parts", "providers", "mappings",
             "identities", "targets"}
  BY DEF Handlers!Sections
<1>2. CASE s = "users"
  BY <1>2
  DEF Handlers!Sections, Handlers!UseAdminUsers, Handlers!RunCreateUser, Handlers!RunChangeRole,
      Handlers!RunGrantInstanceAccess, Handlers!RunRevokeInstanceAccess
<1>3. CASE s = "persons"
  BY <1>3
  DEF Handlers!Sections, Handlers!UseAdminPersons, Handlers!RunCreatePerson,
      Handlers!RunDeletePerson, Handlers!RunUpdatePerson
<1>4. CASE s = "groups"
  BY <1>4
  DEF Handlers!Sections, Handlers!UseAdminGroups, Handlers!RunCreateGroup,
      Handlers!RunDeleteGroup, Handlers!RunUpdateGroup
<1>5. CASE s = "members"
  BY <1>5
  DEF Handlers!Sections, Handlers!UseAdminMemberships, Handlers!RunAdd, Handlers!RunRemove
<1>6. CASE s = "parts"
  BY <1>6
  DEF Handlers!Sections, Handlers!UseAdminParts, Handlers!RunCreatePart,
      Handlers!RunDeletePart, Handlers!RunUpdatePart, Handlers!PartNonce
<1>7. CASE s = "providers"
  BY <1>7
  DEF Handlers!Sections, Handlers!UseAdminLlmProviders, Handlers!RunCreateProvider,
      Handlers!RunDeleteProvider, Handlers!RunUpdateProvider, Handlers!RunSetDefaultProvider
<1>8. CASE s = "mappings"
  BY <1>8
  DEF Handlers!Sections, Handlers!UseAdminLlmMappings, Handlers!RunAssign, Handlers!RunSeedSlots
<1>9. CASE s = "identities"
  BY <1>9
  DEF Handlers!Sections, Handlers!UseAdminServiceIdentities, Handlers!RunCreateServiceIdentity,
      Handlers!RunUpdateServiceIdentity, Handlers!RunDeleteServiceIdentity,
      Handlers!RunSetPrimaryServiceIdentity
<1>10. CASE s = "targets"
  BY <1>10
  DEF Handlers!Sections, Handlers!UseAdminCollectionTargets, Handlers!RunCreateCollectionTarget,
      Handlers!RunDeleteCollectionTarget, Handlers!RunToggleCollectionTargetActive,
      Handlers!RunUpdateCollectionTarget
<1> QED
  BY <1>1, <1>2, <1>3, <1>4, <1>5, <1>6, <1>7, <1>8, <1>9, <1>10

AdminCall ==
    [id : Nat, handler : Admin!Here.handlers, row : Rows, made : BOOLEAN, passed : BOOLEAN]

CallsTypes ==
    /\ x1 \in DOMAIN Handlers!Sections
    /\ x8 \in [Admin!Gates -> Rows \cup {"none"}]
    /\ x9 \subseteq AdminCall
    /\ x11 \in [row : Rows \cup {"none"}, during : BOOLEAN]
    /\ x12 \in Rows \cup {"none"} /\ x13 \in 0..MaxClicks[x1]

\* A gate holds the row of its call, and a gate that is read row by row that of
\* any call at it that was not passed.
GateHolds(c) == c.handler.guard # "row" \/ ~c.passed => x8[c.handler.gate] = c.row

\* The edit form is that of the update in flight, unless it was opened since.
FormFits(c) == c.handler.ends = "edit" => x11.row \in {"none", c.row} \/ x11.during

CallsInv ==
    /\ CallsTypes
    /\ \A c \in x9 : c.id < x13 /\ GateHolds(c) /\ FormFits(c)
    /\ \A c, d \in x9 : c.id = d.id => c = d
    /\ Admin!OneRequestPerGate
    /\ Admin!RowDoubledOnlyAfterOther
    /\ Admin!GatesFollowCalls

\* What is known of calls in a section.
LEMMA CallsAreSound ==
    ASSUME CallsInv
    PROVE  /\ Sound(Admin!Here)
           /\ \A c \in x9 : /\ c \in AdminCall /\ c.id \in Nat /\ c.row \in Rows
                            /\ c.handler \in Admin!Here.handlers /\ c.handler.gate \in Admin!Gates
           /\ x13 \in Nat
<1>1. Sound(Admin!Here)
  BY SectionsAreSound DEF CallsInv, CallsTypes, Admin!Here
<1>2. \A c \in x9 : /\ c \in AdminCall /\ c.id \in Nat /\ c.row \in Rows
                    /\ c.handler \in Admin!Here.handlers /\ c.handler.gate \in Admin!Gates
  BY DEF CallsInv, CallsTypes, AdminCall, Admin!Gates
<1>3. x13 \in Nat
  BY SectionsAssumption DEF CallsInv, CallsTypes
<1> QED
  BY <1>1, <1>2, <1>3

LEMMA CallsStart == Admin!Init => CallsInv
<1> SUFFICES ASSUME Admin!Init PROVE CallsInv
  OBVIOUS
<1>1. /\ x1 \in DOMAIN Handlers!Sections /\ x8 = [g \in Admin!Gates |-> "none"] /\ x9 = {}
      /\ x11 = [row |-> "none", during |-> FALSE] /\ x12 = "none" /\ x13 = 0
  BY DEF Admin!Init, Admin!NoEdit, Admin!None
<1>2. 0 \in 0..MaxClicks[x1]
  BY <1>1, SectionsAssumption
<1> QED
  BY <1>1, <1>2
  DEF CallsInv, CallsTypes, Admin!OneRequestPerGate, Admin!RowDoubledOnlyAfterOther,
      Admin!GatesFollowCalls, Admin!None

LEMMA ClickKeepsCalls ==
    ASSUME CallsInv, NEW h \in Admin!Here.handlers, NEW r \in Rows, Admin!Click(h, r)
    PROVE  CallsInv'
<1>1. PICK n : n = [id |-> x13, handler |-> h, row |-> r, made |-> FALSE, passed |-> FALSE]
  OBVIOUS
<1>2. /\ x13 < MaxClicks[x1] /\ ~Admin!Busy(h, r) /\ (h.ends = "edit" => x11.row = r)
      /\ x13' = x13 + 1 /\ x8' = [x8 EXCEPT ![h.gate] = r]
      /\ x9' = Admin!Passed(h, r) \cup {n} /\ x12' = IF h.ends = "guess" THEN r ELSE x12
      /\ x1' = x1 /\ x11' = x11
  BY <1>1 DEF Admin!Click
<1>3. Admin!Here' = Admin!Here /\ Admin!Gates' = Admin!Gates
  BY <1>2 DEF Admin!Here, Admin!Gates
<1>4. /\ Sound(Admin!Here) /\ x13 \in Nat /\ CallsTypes
      /\ \A c \in x9 : /\ c \in AdminCall /\ c.id \in Nat /\ c.row \in Rows
                       /\ c.handler \in Admin!Here.handlers /\ c.handler.gate \in Admin!Gates
  BY CallsAreSound DEF CallsInv
<1>5. h.gate \in Admin!Gates /\ n \in AdminCall
  BY <1>1, <1>4 DEF Admin!Gates, AdminCall
<1>6. /\ n.id = x13 /\ n.handler = h /\ n.row = r /\ ~n.passed
  BY <1>1
<1>7. x8'[h.gate] = r /\ \A g \in Admin!Gates : g # h.gate => x8'[g] = x8[g]
  BY <1>2, <1>4, <1>5 DEF CallsTypes
\* The calls there were.
<1>8. ASSUME NEW d \in Admin!Passed(h, r)
      PROVE  \E c \in x9 : /\ d = (IF c.handler.gate = h.gate /\ c.row # r
                                   THEN [c EXCEPT !.passed = TRUE] ELSE c)
                           /\ d \in AdminCall /\ d.id = c.id /\ d.handler = c.handler
                           /\ d.row = c.row
                           /\ d.passed <=> c.passed \/ (c.handler.gate = h.gate /\ c.row # r)
  <2>1. PICK c \in x9 : d = IF c.handler.gate = h.gate /\ c.row # r
                            THEN [c EXCEPT !.passed = TRUE] ELSE c
    BY DEF Admin!Passed
  <2>2. c \in AdminCall
    BY <1>4
  <2>3. CASE c.handler.gate = h.gate /\ c.row # r
    <3>1. d = [c EXCEPT !.passed = TRUE]
      BY <2>1, <2>3
    <3>2. /\ d \in AdminCall /\ d.id = c.id /\ d.handler = c.handler /\ d.row = c.row /\ d.passed
      BY <2>2, <3>1 DEF AdminCall
    <3> QED
      BY <2>1, <2>3, <3>2
  <2>4. CASE ~(c.handler.gate = h.gate /\ c.row # r)
    BY <2>1, <2>2, <2>4
  <2> QED
    BY <2>3, <2>4
<1>9. \A c \in x9 : \E d \in x9' : d.handler = c.handler /\ d.row = c.row
  <2> SUFFICES ASSUME NEW c \in x9 PROVE \E d \in x9' : d.handler = c.handler /\ d.row = c.row
    OBVIOUS
  <2>1. CASE c.handler.gate = h.gate /\ c.row # r
    <3>1. PICK d : d = [c EXCEPT !.passed = TRUE]
      OBVIOUS
    <3>2. d.handler = c.handler /\ d.row = c.row
      BY <1>4, <3>1 DEF AdminCall
    <3>3. d \in Admin!Passed(h, r)
      BY <2>1, <3>1 DEF Admin!Passed
    <3> QED
      BY <1>2, <3>2, <3>3
  <2>2. CASE ~(c.handler.gate = h.gate /\ c.row # r)
    BY <1>2, <2>2 DEF Admin!Passed
  <2> QED
    BY <2>1, <2>2
\* A gate that is not read row by row was open, and nobody's.
<1>10. h.guard # "row" => \A c \in x9 : c.handler.gate # h.gate
  <2> SUFFICES ASSUME h.guard # "row", NEW c \in x9, c.handler.gate = h.gate PROVE FALSE
    OBVIOUS
  <2>1. c.handler.guard # "row"
    BY <1>4 DEF Sound
  <2>2. x8[h.gate] = c.row /\ c.row # "none"
    BY <1>4, <2>1, NamesAssumption DEF CallsInv, GateHolds
  <2> QED
    BY <1>2, <2>2 DEF Admin!Busy, Admin!None
\* A gate that is read row by row is not the row's.
<1>11. ASSUME NEW c \in x9, c.handler.gate = h.gate, c.row = r PROVE c.passed
  <2>1. h.guard = "row" /\ x8[h.gate] # r
    BY <1>2, <1>10, <1>11 DEF Admin!Busy
  <2> QED
    BY <1>11, <2>1 DEF CallsInv, GateHolds
<1>12. CallsTypes'
  <2>1. x13' \in 0..MaxClicks[x1']
    BY <1>2, <1>4, SectionsAssumption DEF CallsTypes
  <2>2. x9' \subseteq AdminCall'
    BY <1>2, <1>3, <1>5, <1>8 DEF AdminCall
  <2>3. x8' \in [Admin!Gates -> Rows \cup {"none"}]
    BY <1>2, <1>4 DEF CallsTypes
  <2> QED
    BY <1>2, <1>3, <1>4, <2>1, <2>2, <2>3 DEF CallsTypes
<1>13. ASSUME NEW d \in x9' PROVE (d.id < x13 /\ GateHolds(d) /\ FormFits(d))'
  <2>1. CASE d = n
    BY <1>2, <1>4, <1>6, <1>7, <2>1 DEF GateHolds, FormFits
  <2>2. CASE d \in Admin!Passed(h, r)
    <3>1. PICK c \in x9 : /\ d.id = c.id /\ d.handler = c.handler /\ d.row = c.row
                          /\ d.passed <=> c.passed \/ (c.handler.gate = h.gate /\ c.row # r)
      BY <1>8, <2>2
    <3>2. c.id < x13 /\ GateHolds(c) /\ FormFits(c)
      BY DEF CallsInv
    <3>3. d.id < x13'
      BY <1>2, <1>4, <3>1, <3>2
    <3>4. GateHolds(d)'
      BY <1>4, <1>7, <1>10, <3>1, <3>2 DEF GateHolds, Sound
    <3> QED
      BY <1>2, <3>1, <3>2, <3>3, <3>4 DEF FormFits
  <2> QED
    BY <1>2, <2>1, <2>2
<1>14. ASSUME NEW d \in x9', NEW e \in x9'
       PROVE  /\ d.id = e.id => d = e
              /\ d # e /\ d.handler.gate = e.handler.gate => d.handler.guard = "row"
              /\ d # e /\ d.handler.gate = e.handler.gate /\ d.row = e.row => d.passed \/ e.passed
  <2>1. CASE d = n /\ e = n
    BY <2>1
  <2>2. ASSUME NEW a \in Admin!Passed(h, r)
        PROVE  /\ a.id # n.id
               /\ a.handler.gate = h.gate => a.handler.guard = "row" /\ h.guard = "row"
               /\ a.handler.gate = h.gate /\ a.row = r => a.passed
    <3>1. PICK c \in x9 : /\ a.id = c.id /\ a.handler = c.handler /\ a.row = c.row
                          /\ a.passed <=> c.passed \/ (c.handler.gate = h.gate /\ c.row # r)
      BY <1>8
    <3>2. c.id < x13
      BY DEF CallsInv
    <3> QED
      BY <1>4, <1>6, <1>10, <1>11, <3>1, <3>2 DEF Sound
  <2>3. CASE d = n /\ e \in Admin!Passed(h, r)
    BY <1>6, <2>2, <2>3
  <2>4. CASE e = n /\ d \in Admin!Passed(h, r)
    BY <1>6, <2>2, <2>4
  <2>5. CASE d \in Admin!Passed(h, r) /\ e \in Admin!Passed(h, r)
    <3>1. PICK a \in x9 : /\ d = (IF a.handler.gate = h.gate /\ a.row # r
                                  THEN [a EXCEPT !.passed = TRUE] ELSE a)
                          /\ d.id = a.id /\ d.handler = a.handler /\ d.row = a.row
                          /\ a.passed => d.passed
      BY <1>8, <2>5
    <3>2. PICK b \in x9 : /\ e = (IF b.handler.gate = h.gate /\ b.row # r
                                  THEN [b EXCEPT !.passed = TRUE] ELSE b)
                          /\ e.id = b.id /\ e.handler = b.handler /\ e.row = b.row
                          /\ b.passed => e.passed
      BY <1>8, <2>5
    <3>3. a = b => d = e
      BY <3>1, <3>2
    <3>4. /\ a.id = b.id => a = b
          /\ a # b /\ a.handler.gate = b.handler.gate => a.handler.guard = "row"
          /\ a # b /\ a.handler.gate = b.handler.gate /\ a.row = b.row => a.passed \/ b.passed
      BY DEF CallsInv, Admin!OneRequestPerGate, Admin!RowDoubledOnlyAfterOther
    <3> QED
      BY <3>1, <3>2, <3>3, <3>4
  <2> QED
    BY <1>2, <2>1, <2>3, <2>4, <2>5
<1>15. Admin!GatesFollowCalls'
  <2>1. ASSUME NEW g \in Admin!Gates, x8'[g] # "none"
        PROVE  \E c \in x9' : c.handler.gate = g /\ c.row = x8'[g]
    <3>1. CASE g = h.gate
      BY <1>2, <1>6, <1>7, <3>1
    <3>2. CASE g # h.gate
      <4>1. PICK c \in x9 : c.handler.gate = g /\ c.row = x8[g]
        BY <1>7, <2>1, <3>2 DEF CallsInv, Admin!GatesFollowCalls, Admin!None
      <4> QED
        BY <1>7, <1>9, <3>2, <4>1
    <3> QED
      BY <3>1, <3>2
  <2>2. x12' # "none" => \E c \in x9' : c.handler.ends = "guess" /\ c.row = x12'
    <3>1. CASE h.ends = "guess"
      BY <1>2, <1>6, <3>1
    <3>2. CASE h.ends # "guess" /\ x12 # "none"
      <4>1. PICK c \in x9 : c.handler.ends = "guess" /\ c.row = x12
        BY <3>2 DEF CallsInv, Admin!GatesFollowCalls, Admin!None
      <4> QED
        BY <1>2, <1>9, <3>2, <4>1
    <3> QED
      BY <1>2, <3>1, <3>2
  <2> QED
    BY <1>3, <2>1, <2>2 DEF Admin!GatesFollowCalls, Admin!None
<1> QED
  BY <1>12, <1>13, <1>14, <1>15
  DEF CallsInv, Admin!OneRequestPerGate, Admin!RowDoubledOnlyAfterOther

LEMMA CommitKeepsCalls ==
    ASSUME CallsInv, NEW c \in x9, Admin!Commit(c)
    PROVE  CallsInv'
<1>1. PICK n : n = [c EXCEPT !.made = TRUE]
  OBVIOUS
<1>2. x9' = (x9 \ {c}) \cup {n} /\ UNCHANGED <<x1, x8, x11, x12, x13>>
  BY <1>1 DEF Admin!Commit
<1>3. Admin!Here' = Admin!Here /\ Admin!Gates' = Admin!Gates
  BY <1>2 DEF Admin!Here, Admin!Gates
<1>4. /\ n \in AdminCall /\ n.id = c.id /\ n.handler = c.handler /\ n.row = c.row
      /\ n.passed = c.passed
  BY <1>1, CallsAreSound DEF AdminCall
<1>5. CallsTypes'
  BY <1>2, <1>3, <1>4 DEF CallsInv, CallsTypes, AdminCall
<1>6. \A d \in x9' : (d.id < x13 /\ GateHolds(d) /\ FormFits(d))'
  BY <1>2, <1>4 DEF CallsInv, GateHolds, FormFits
<1>7. \A d, e \in x9' : d.id = e.id => d = e
  BY <1>2, <1>4 DEF CallsInv
<1>8. Admin!OneRequestPerGate'
  BY <1>2, <1>4 DEF CallsInv, Admin!OneRequestPerGate
<1>9. Admin!RowDoubledOnlyAfterOther'
  BY <1>2, <1>4 DEF CallsInv, Admin!RowDoubledOnlyAfterOther
<1>10. Admin!GatesFollowCalls'
  <2>1. \A e \in x9 : \E d \in x9' : d.handler = e.handler /\ d.row = e.row
    BY <1>2, <1>4
  <2> QED
    BY <1>2, <1>3, <2>1 DEF CallsInv, Admin!GatesFollowCalls
<1> QED
  BY <1>5, <1>6, <1>7, <1>8, <1>9, <1>10 DEF CallsInv

\* A call ends, well or ill.
LEMMA EndKeepsCalls ==
    ASSUME CallsInv, NEW c \in x9, x9' = Admin!Rest(c), UNCHANGED <<x1, x13>>,
           x8' = [x8 EXCEPT ![c.handler.gate] = Admin!Cleared(c)],
           x12' = IF c.handler.ends = "guess" THEN "none" ELSE x12,
           x11' = x11 \/ x11' = Admin!NoEdit
    PROVE  CallsInv'
<1>1. Admin!Here' = Admin!Here /\ Admin!Gates' = Admin!Gates
  BY DEF Admin!Here, Admin!Gates
<1>2. /\ Sound(Admin!Here) /\ x13 \in Nat /\ CallsTypes
      /\ \A d \in x9 : /\ d \in AdminCall /\ d.id \in Nat /\ d.row \in Rows
                       /\ d.handler \in Admin!Here.handlers /\ d.handler.gate \in Admin!Gates
  BY CallsAreSound DEF CallsInv
<1>3. /\ x8'[c.handler.gate] = IF c.handler.guard = "row" /\ x8[c.handler.gate] # c.row
                               THEN x8[c.handler.gate] ELSE "none"
      /\ \A g \in Admin!Gates : g # c.handler.gate => x8'[g] = x8[g]
      /\ x8' \in [Admin!Gates -> Rows \cup {"none"}]
  BY <1>2 DEF CallsTypes, Admin!Cleared, Admin!None
<1>4. Admin!NoEdit = [row |-> "none", during |-> FALSE]
  BY DEF Admin!NoEdit, Admin!None
\* The calls that stay.
<1>5. ASSUME NEW d \in x9'
      PROVE  \E e \in x9 \ {c} :
                /\ d = (IF c.passed /\ e.handler.gate = c.handler.gate /\ e.row = c.row
                        THEN [e EXCEPT !.passed = TRUE] ELSE e)
                /\ d \in AdminCall /\ d.id = e.id /\ d.handler = e.handler /\ d.row = e.row
                /\ d.passed <=>
                      e.passed \/ (c.passed /\ e.handler.gate = c.handler.gate /\ e.row = c.row)
  <2>1. PICK e \in x9 \ {c} : d = IF c.passed /\ e.handler.gate = c.handler.gate /\ e.row = c.row
                                  THEN [e EXCEPT !.passed = TRUE] ELSE e
    BY DEF Admin!Rest
  <2>2. e \in AdminCall
    BY <1>2
  <2>3. CASE c.passed /\ e.handler.gate = c.handler.gate /\ e.row = c.row
    <3>1. d = [e EXCEPT !.passed = TRUE]
      BY <2>1, <2>3
    <3>2. /\ d \in AdminCall /\ d.id = e.id /\ d.handler = e.handler /\ d.row = e.row /\ d.passed
      BY <2>2, <3>1 DEF AdminCall
    <3> QED
      BY <2>1, <2>3, <3>2
  <2>4. CASE ~(c.passed /\ e.handler.gate = c.handler.gate /\ e.row = c.row)
    BY <2>1, <2>2, <2>4
  <2> QED
    BY <2>3, <2>4
<1>6. ASSUME NEW e \in x9 \ {c} PROVE \E d \in x9' : d.handler = e.handler /\ d.row = e.row
  <2>1. CASE c.passed /\ e.handler.gate = c.handler.gate /\ e.row = c.row
    <3>1. PICK d : d = [e EXCEPT !.passed = TRUE]
      OBVIOUS
    <3>2. d.handler = e.handler /\ d.row = e.row
      BY <1>2, <3>1 DEF AdminCall
    <3>3. d \in Admin!Rest(c)
      BY <2>1, <3>1 DEF Admin!Rest
    <3> QED
      BY <3>2, <3>3
  <2>2. CASE ~(c.passed /\ e.handler.gate = c.handler.gate /\ e.row = c.row)
    BY <2>2 DEF Admin!Rest
  <2> QED
    BY <2>1, <2>2
<1>7. CallsTypes'
  <2>1. x9' \subseteq AdminCall'
    BY <1>1, <1>5 DEF AdminCall
  <2>2. x12' \in Rows \cup {"none"}
    BY <1>2 DEF CallsTypes
  <2>3. Admin!NoEdit \in [row : Rows \cup {"none"}, during : BOOLEAN]
    BY <1>4
  <2>4. x11' \in [row : Rows \cup {"none"}, during : BOOLEAN]
    BY <1>2, <2>3 DEF CallsTypes
  <2> QED
    BY <1>1, <1>2, <1>3, <2>1, <2>2, <2>4 DEF CallsTypes
<1>8. ASSUME NEW d \in x9' PROVE (d.id < x13 /\ GateHolds(d) /\ FormFits(d))'
  <2>1. PICK e \in x9 \ {c} :
           /\ d.id = e.id /\ d.handler = e.handler /\ d.row = e.row
           /\ d.passed <=>
                 e.passed \/ (c.passed /\ e.handler.gate = c.handler.gate /\ e.row = c.row)
    BY <1>5
  <2>2. e.id < x13 /\ GateHolds(e) /\ FormFits(e)
    BY DEF CallsInv
  <2>3. GateHolds(d)'
    <3>1. CASE e.handler.gate # c.handler.gate
      BY <1>2, <1>3, <2>1, <2>2, <3>1 DEF GateHolds
    <3>2. CASE e.handler.gate = c.handler.gate
      <4>1. e.handler.guard = "row" /\ c.handler.guard = "row"
        BY <3>2 DEF CallsInv, Admin!OneRequestPerGate
      <4>2. e.row = c.row => e.passed \/ c.passed
        BY <3>2 DEF CallsInv, Admin!RowDoubledOnlyAfterOther
      <4> QED
        BY <1>3, <2>1, <2>2, <3>2, <4>1, <4>2 DEF GateHolds
    <3> QED
      BY <3>1, <3>2
  <2> QED
    BY <1>4, <2>1, <2>2, <2>3 DEF FormFits
<1>9. ASSUME NEW d \in x9', NEW e \in x9'
      PROVE  /\ d.id = e.id => d = e
             /\ d # e /\ d.handler.gate = e.handler.gate => d.handler.guard = "row"
             /\ d # e /\ d.handler.gate = e.handler.gate /\ d.row = e.row => d.passed \/ e.passed
  <2>1. PICK a \in x9 \ {c} :
           /\ d = (IF c.passed /\ a.handler.gate = c.handler.gate /\ a.row = c.row
                   THEN [a EXCEPT !.passed = TRUE] ELSE a)
           /\ d.id = a.id /\ d.handler = a.handler /\ d.row = a.row /\ (a.passed => d.passed)
    BY <1>5
  <2>2. PICK b \in x9 \ {c} :
           /\ e = (IF c.passed /\ b.handler.gate = c.handler.gate /\ b.row = c.row
                   THEN [b EXCEPT !.passed = TRUE] ELSE b)
           /\ e.id = b.id /\ e.handler = b.handler /\ e.row = b.row /\ (b.passed => e.passed)
    BY <1>5
  <2>3. a = b => d = e
    BY <2>1, <2>2
  <2>4. /\ a.id = b.id => a = b
        /\ a # b /\ a.handler.gate = b.handler.gate => a.handler.guard = "row"
        /\ a # b /\ a.handler.gate = b.handler.gate /\ a.row = b.row => a.passed \/ b.passed
    BY DEF CallsInv, Admin!OneRequestPerGate, Admin!RowDoubledOnlyAfterOther
  <2> QED
    BY <2>1, <2>2, <2>3, <2>4
<1>10. Admin!GatesFollowCalls'
  <2>1. ASSUME NEW g \in Admin!Gates, x8'[g] # "none"
        PROVE  \E d \in x9' : d.handler.gate = g /\ d.row = x8'[g]
    <3>1. x8'[g] = x8[g] /\ (g = c.handler.gate => x8[g] # c.row)
      BY <1>3, <2>1
    <3>2. PICK e \in x9 : e.handler.gate = g /\ e.row = x8[g]
      BY <2>1, <3>1 DEF CallsInv, Admin!GatesFollowCalls, Admin!None
    <3>3. e # c
      BY <3>1, <3>2
    <3> QED
      BY <1>6, <3>1, <3>2, <3>3
  <2>2. ASSUME x12' # "none" PROVE \E d \in x9' : d.handler.ends = "guess" /\ d.row = x12'
    <3>1. x12' = x12 /\ c.handler.ends # "guess"
      BY <2>2
    <3>2. PICK e \in x9 : e.handler.ends = "guess" /\ e.row = x12
      BY <2>2, <3>1 DEF CallsInv, Admin!GatesFollowCalls, Admin!None
    <3> QED
      BY <1>6, <3>1, <3>2
  <2> QED
    BY <1>1, <2>1, <2>2 DEF Admin!GatesFollowCalls, Admin!None
<1> QED
  BY <1>7, <1>8, <1>9, <1>10
  DEF CallsInv, Admin!OneRequestPerGate, Admin!RowDoubledOnlyAfterOther

\* A form is opened or cancelled; while an update is in flight, a form that is
\* opened knows it.
LEMMA FormsKeepCalls ==
    ASSUME CallsInv, (\E r \in Rows : Admin!HandleEdit(r)) \/ Admin!HandleCancelEdit
    PROVE  CallsInv'
<1>1. UNCHANGED <<x1, x8, x9, x12, x13>>
  BY DEF Admin!HandleEdit, Admin!HandleCancelEdit
<1>2. Admin!Here' = Admin!Here /\ Admin!Gates' = Admin!Gates
  BY <1>1 DEF Admin!Here, Admin!Gates
<1>3. /\ x11' \in [row : Rows \cup {"none"}, during : BOOLEAN]
      /\ x11'.row = "none" \/ (x11'.during <=> Admin!Updating)
  <2>1. ASSUME NEW r \in Rows, Admin!HandleEdit(r)
        PROVE  /\ x11' \in [row : Rows \cup {"none"}, during : BOOLEAN]
               /\ x11'.during <=> Admin!Updating
    <3>1. Admin!Updating \in BOOLEAN
      BY DEF Admin!Updating
    <3> HIDE DEF Admin!Updating
    <3>2. x11' = [row |-> r, during |-> Admin!Updating]
      BY <2>1 DEF Admin!HandleEdit
    <3> QED
      BY <3>1, <3>2
  <2>2. CASE Admin!HandleCancelEdit
    BY <2>2 DEF Admin!HandleCancelEdit, Admin!NoEdit, Admin!None
  <2> QED
    BY <2>1, <2>2
<1>4. ASSUME NEW c \in x9, c.handler.ends = "edit" PROVE Admin!Updating
  <2>1. c.handler.guard # "row" /\ c.row # "none" /\ c.handler \in Admin!Here.handlers
    BY <1>4, CallsAreSound, NamesAssumption DEF Sound
  <2>2. x8[c.handler.gate] = c.row
    BY <2>1 DEF CallsInv, GateHolds
  <2> QED
    BY <1>4, <2>1, <2>2 DEF Admin!Updating, Admin!UpdateGates, Admin!None
<1>5. \A c \in x9 : FormFits(c)'
  BY <1>1, <1>3, <1>4 DEF FormFits
<1>6. CallsTypes'
  BY <1>1, <1>2, <1>3 DEF CallsInv, CallsTypes, AdminCall
<1>7. Admin!GatesFollowCalls'
  BY <1>1, <1>2 DEF CallsInv, Admin!GatesFollowCalls
<1> QED
  BY <1>1, <1>5, <1>6, <1>7
  DEF CallsInv, GateHolds, Admin!OneRequestPerGate, Admin!RowDoubledOnlyAfterOther

LEMMA CallsGoOn == CallsInv /\ [Admin!Next]_(Admin!vars) => CallsInv'
<1> SUFFICES ASSUME CallsInv, [Admin!Next]_(Admin!vars) PROVE CallsInv'
  OBVIOUS
<1>1. ASSUME UNCHANGED <<x1, x8, x9, x11, x12, x13>> PROVE CallsInv'
  <2>1. Admin!Here' = Admin!Here /\ Admin!Gates' = Admin!Gates
    BY <1>1 DEF Admin!Here, Admin!Gates
  <2>2. Admin!GatesFollowCalls'
    BY <1>1, <2>1 DEF CallsInv, Admin!GatesFollowCalls
  <2> QED
    BY <1>1, <2>1, <2>2
    DEF CallsInv, CallsTypes, AdminCall, GateHolds, FormFits, Admin!OneRequestPerGate,
        Admin!RowDoubledOnlyAfterOther
<1>2. ASSUME NEW c \in x9, Admin!Succeed(c) PROVE CallsInv'
  <2>1. x11' = x11 \/ x11' = Admin!NoEdit
    BY <1>2 DEF Admin!Succeed, Admin!EditingAfter
  <2> QED
    BY <1>2, <2>1, EndKeepsCalls DEF Admin!Succeed, Admin!None
<1>3. ASSUME NEW c \in x9, Admin!Fail(c) PROVE CallsInv'
  BY <1>3, EndKeepsCalls DEF Admin!Fail, Admin!GuessAfterFailure, Admin!None
<1>4. CASE Admin!Next
  <2>1. ASSUME NEW c \in Admin!Here.choices, Admin!Select(c) PROVE CallsInv'
    BY <1>1, <2>1 DEF Admin!Select
  <2>2. ASSUME NEW l \in Admin!Here.lists, Admin!StartResourceEffect(l) PROVE CallsInv'
    BY <1>1, <2>2 DEF Admin!StartResourceEffect
  <2>3. ASSUME NEW f \in x7, Admin!Serve(f) \/ Admin!RunFetch(f) \/ Admin!FetchFails(f)
        PROVE  CallsInv'
    BY <1>1, <2>3 DEF Admin!Serve, Admin!RunFetch, Admin!FetchFails
  <2> QED
    BY <1>2, <1>3, <1>4, <2>1, <2>2, <2>3, ClickKeepsCalls, CommitKeepsCalls, FormsKeepCalls
    DEF Admin!Next
<1>5. CASE UNCHANGED Admin!vars
  BY <1>1, <1>5 DEF Admin!vars
<1> QED
  BY <1>4, <1>5

\* An edit form goes as it was asked to.
LEMMA FormsEndAsAsked == CallsInv /\ [Admin!Next]_(Admin!vars) => Admin!EditEndsAsAsked
<1> SUFFICES ASSUME CallsInv, [Admin!Next]_(Admin!vars), x11.row # "none", x11'.row = "none"
             PROVE  x9' = x9 \/ (\E c \in x9 \ x9' : c.row = x11.row) \/ x11.during
  BY DEF Admin!EditEndsAsAsked, Admin!None
<1>1. ASSUME NEW c \in x9, Admin!Succeed(c)
      PROVE  (\E d \in x9 \ x9' : d.row = x11.row) \/ x11.during
  <2>1. c.handler.ends = "edit" /\ x9' = Admin!Rest(c)
    BY <1>1 DEF Admin!Succeed, Admin!EditingAfter
  <2>2. c.row = x11.row \/ x11.during
    BY <2>1 DEF CallsInv, FormFits
  <2>3. c \notin x9'
    <3> SUFFICES ASSUME c \in x9' PROVE FALSE
      OBVIOUS
    <3>1. PICK e \in x9 \ {c} : c = IF c.passed /\ e.handler.gate = c.handler.gate /\ e.row = c.row
                                    THEN [e EXCEPT !.passed = TRUE] ELSE e
      BY <2>1 DEF Admin!Rest
    <3>2. c = [e EXCEPT !.passed = TRUE] /\ e \in AdminCall
      BY <3>1, CallsAreSound
    <3>3. c.id = e.id
      BY <3>2 DEF AdminCall
    <3> QED
      BY <3>1, <3>3 DEF CallsInv
  <2> QED
    BY <2>2, <2>3
<1>2. CASE Admin!Next
  <2>1. ASSUME NEW f \in x7, Admin!Serve(f) \/ Admin!RunFetch(f) \/ Admin!FetchFails(f)
        PROVE  x9' = x9
    BY <2>1 DEF Admin!Serve, Admin!RunFetch, Admin!FetchFails
  <2>2. ASSUME NEW h \in Admin!Here.handlers, NEW r \in Rows, Admin!Click(h, r) PROVE FALSE
    BY <2>2 DEF Admin!Click
  <2>3. ASSUME NEW c \in x9, Admin!Commit(c) \/ Admin!Fail(c) PROVE FALSE
    BY <2>3 DEF Admin!Commit, Admin!Fail
  <2>4. ASSUME NEW c \in Admin!Here.choices, Admin!Select(c) PROVE FALSE
    BY <2>4 DEF Admin!Select
  <2>5. ASSUME NEW l \in Admin!Here.lists, Admin!StartResourceEffect(l) PROVE FALSE
    BY <2>5 DEF Admin!StartResourceEffect
  <2>6. ASSUME (\E r \in Rows : Admin!HandleEdit(r)) \/ Admin!HandleCancelEdit PROVE x9' = x9
    BY <2>6 DEF Admin!HandleEdit, Admin!HandleCancelEdit
  <2> QED
    BY <1>1, <1>2, <2>1, <2>2, <2>3, <2>4, <2>5, <2>6 DEF Admin!Next
<1>3. CASE UNCHANGED Admin!vars
  BY <1>3 DEF Admin!vars
<1> QED
  BY <1>2, <1>3

\* What an effect may have run with.
EffectKeys == Nat \X (Admin!Here.choices \cup {"active", "none"})

AdminFetch ==
    [list : Admin!Here.lists, run : 1..MaxLists[x1], key : EffectKeys, read : Nat]

ListsTypes ==
    /\ x1 \in DOMAIN Handlers!Sections /\ x3 \in Admin!Here.choices
    /\ x2 \in [Admin!Here.lists -> Nat] /\ x4 \in [Admin!Here.lists -> Nat]
    /\ x10 \in [Admin!Here.lists -> Nat]
    /\ x5 \in [Admin!Here.lists -> [run : 0..MaxLists[x1], key : EffectKeys]]
    /\ x6 \in [Admin!Here.lists -> [at : {"idle", "loading", "shown", "failed"},
                                    version : Nat, key : EffectKeys]]
    /\ x7 \subseteq AdminFetch

\* A fetch of the latest run of an effect is of what the effect ran for; and it
\* has read every change that was answered, unless the list is to be read again.
FetchFits(f) ==
    /\ f.run <= x5[f.list].run
    /\ f.run = x5[f.list].run =>
          /\ f.key = x5[f.list].key
          /\ f.read # 0 /\ x5[f.list].key[1] = x4[f.list] => f.read >= x10[f.list]

ViewFits(l) ==
    x6[l].at = "shown" =>
        /\ x6[l].key = x5[l].key
        /\ x5[l].key[1] = x4[l] => x6[l].version >= x10[l]

ListFits(l) == x10[l] <= x2[l] /\ x5[l].key[1] <= x4[l]

ListsInv ==
    /\ ListsTypes
    /\ \A f \in x7 : FetchFits(f)
    /\ \A l \in Admin!Here.lists : ViewFits(l) /\ ListFits(l)

LEMMA KeysFit ==
    ASSUME ListsTypes, NEW l \in Admin!Here.lists
    PROVE  Admin!Key(l) \in EffectKeys /\ Admin!Key(l)[1] = x4[l]
BY DEF ListsTypes, EffectKeys, Admin!Key

LEMMA ListsStart == Admin!Init => ListsInv
<1> SUFFICES ASSUME Admin!Init PROVE ListsInv
  OBVIOUS
<1>1. /\ x1 \in DOMAIN Handlers!Sections
      /\ x3 = (IF "none" \in Admin!Here.choices THEN "none" ELSE "active")
      /\ x2 = [l \in Admin!Here.lists |-> 1] /\ x4 = [l \in Admin!Here.lists |-> 0]
      /\ x10 = [l \in Admin!Here.lists |-> 1]
      /\ x5 = [l \in Admin!Here.lists |->
                  [run |-> IF Admin!Key(l)[2] = "none" THEN 0 ELSE 1, key |-> Admin!Key(l)]]
      /\ x6 = [l \in Admin!Here.lists |->
                  IF Admin!Key(l)[2] = "none" THEN Admin!Idle
                                              ELSE [Admin!Idle EXCEPT !.at = "loading"]]
      /\ x7 = {Admin!Fetch(l, 1, Admin!Key(l)) :
                  l \in {k \in Admin!Here.lists : Admin!Key(k)[2] # "none"}}
  BY DEF Admin!Init, Admin!None
<1>2. x3 \in Admin!Here.choices
  BY <1>1, SectionsAreSound DEF Sound, Admin!Here
<1>3. \A l \in Admin!Here.lists : Admin!Key(l) \in EffectKeys /\ Admin!Key(l)[1] = 0
  BY <1>1, <1>2 DEF EffectKeys, Admin!Key
<1>4. MaxLists[x1] \in Nat /\ MaxLists[x1] > 0
  BY <1>1, SectionsAssumption
<1>5. PICK idle : idle = Admin!Idle
  OBVIOUS
<1>6. PICK loading : loading = [idle EXCEPT !.at = "loading"]
  OBVIOUS
<1>7. /\ idle \in [at : {"idle", "loading", "shown", "failed"}, version : Nat, key : EffectKeys]
      /\ loading \in [at : {"idle", "loading", "shown", "failed"}, version : Nat, key : EffectKeys]
      /\ idle.at = "idle" /\ loading.at = "loading"
  BY <1>5, <1>6 DEF Admin!Idle, Admin!None, EffectKeys
<1>8. /\ x6 \in [Admin!Here.lists -> [at : {"idle", "loading", "shown", "failed"},
                                      version : Nat, key : EffectKeys]]
      /\ \A l \in Admin!Here.lists : x6[l].at # "shown"
  BY <1>1, <1>5, <1>6, <1>7
<1>9. /\ x5 \in [Admin!Here.lists -> [run : 0..MaxLists[x1], key : EffectKeys]]
      /\ \A l \in Admin!Here.lists :
            /\ x5[l].run = IF Admin!Key(l)[2] = "none" THEN 0 ELSE 1
            /\ x5[l].key = Admin!Key(l)
  BY <1>1, <1>3, <1>4
<1>10. ASSUME NEW f \in x7
       PROVE  /\ f \in AdminFetch /\ f.run = 1 /\ f.read = 0 /\ f.key = Admin!Key(f.list)
              /\ f.list \in Admin!Here.lists /\ Admin!Key(f.list)[2] # "none"
  <2>1. PICK l \in Admin!Here.lists :
           Admin!Key(l)[2] # "none" /\ f = Admin!Fetch(l, 1, Admin!Key(l))
    BY <1>1
  <2> QED
    BY <1>3, <1>4, <2>1 DEF AdminFetch, Admin!Fetch
<1>11. ListsTypes
  BY <1>1, <1>2, <1>8, <1>9, <1>10 DEF ListsTypes
<1>12. \A f \in x7 : FetchFits(f)
  BY <1>9, <1>10 DEF FetchFits
<1>13. ASSUME NEW l \in Admin!Here.lists PROVE ViewFits(l) /\ ListFits(l)
  <2>1. x6[l].at # "shown"
    BY <1>8
  <2>2. x10[l] = 1 /\ x2[l] = 1 /\ x4[l] = 0
    BY <1>1
  <2>3. x5[l].key[1] = 0
    BY <1>3, <1>9
  <2> QED
    BY <2>1, <2>2, <2>3 DEF ViewFits, ListFits
<1> QED
  BY <1>11, <1>12, <1>13 DEF ListsInv

LEMMA RunsKeepLists ==
    ASSUME ListsInv, NEW l \in Admin!Here.lists, Admin!StartResourceEffect(l)
    PROVE  ListsInv'
<1>1. PICK e : e = [run |-> x5[l].run + 1, key |-> Admin!Key(l)]
  OBVIOUS
<1>2. PICK v : v = IF Admin!Key(l)[2] = "none" THEN Admin!Idle
                                               ELSE [Admin!Idle EXCEPT !.at = "loading"]
  OBVIOUS
<1>3. PICK f : f = Admin!Fetch(l, x5[l].run + 1, Admin!Key(l))
  OBVIOUS
<1>4. /\ x5[l].run < MaxLists[x1] /\ x5' = [x5 EXCEPT ![l] = [run |-> @.run + 1, key |-> Admin!Key(l)]]
      /\ x6' = [x6 EXCEPT ![l] = v] /\ (x7' = x7 \/ x7' = x7 \cup {f})
      /\ UNCHANGED <<x1, x2, x3, x4, x10>>
  BY <1>2, <1>3 DEF Admin!StartResourceEffect, Admin!None
<1>5. Admin!Here' = Admin!Here /\ EffectKeys' = EffectKeys /\ MaxLists[x1] \in Nat
  BY <1>4, SectionsAssumption DEF Admin!Here, EffectKeys, ListsInv, ListsTypes
<1>6. ListsTypes /\ Admin!Key(l) \in EffectKeys /\ Admin!Key(l)[1] = x4[l]
  BY KeysFit DEF ListsInv
<1>7. x5[l].run \in 0..MaxLists[x1] /\ x4[l] \in Nat
  BY <1>6 DEF ListsTypes
<1>8. /\ e \in [run : 0..MaxLists[x1], key : EffectKeys] /\ e.run = x5[l].run + 1
      /\ e.run \in 1..MaxLists[x1] /\ e.key = Admin!Key(l)
  BY <1>1, <1>4, <1>5, <1>6, <1>7
<1>9. x5' = [x5 EXCEPT ![l] = e]
  BY <1>1, <1>4, <1>6 DEF ListsTypes
<1>10. /\ v \in [at : {"idle", "loading", "shown", "failed"}, version : Nat, key : EffectKeys]
       /\ v.at # "shown"
  <2>1. PICK idle : idle = Admin!Idle
    OBVIOUS
  <2>2. PICK loading : loading = [idle EXCEPT !.at = "loading"]
    OBVIOUS
  <2>3. /\ idle \in [at : {"idle", "loading", "shown", "failed"}, version : Nat, key : EffectKeys]
        /\ loading \in [at : {"idle", "loading", "shown", "failed"}, version : Nat, key : EffectKeys]
        /\ idle.at = "idle" /\ loading.at = "loading"
    BY <2>1, <2>2 DEF Admin!Idle, Admin!None, EffectKeys
  <2> QED
    BY <1>2, <2>1, <2>2, <2>3
<1>11. f \in AdminFetch /\ f.list = l /\ f.run = e.run /\ f.key = e.key /\ f.read = 0
  BY <1>3, <1>6, <1>8 DEF Admin!Fetch, AdminFetch
<1>12. ListsTypes'
  <2>1. x5' \in [Admin!Here.lists -> [run : 0..MaxLists[x1], key : EffectKeys]]
    BY <1>6, <1>8, <1>9 DEF ListsTypes
  <2>2. x6' \in [Admin!Here.lists -> [at : {"idle", "loading", "shown", "failed"},
                                      version : Nat, key : EffectKeys]]
    BY <1>4, <1>6, <1>10 DEF ListsTypes
  <2>3. x7' \subseteq AdminFetch
    BY <1>4, <1>6, <1>11 DEF ListsTypes
  <2> QED
    BY <1>4, <1>5, <1>6, <2>1, <2>2, <2>3 DEF ListsTypes, AdminFetch
<1>13. ASSUME NEW k \in Admin!Here.lists PROVE (ViewFits(k) /\ ListFits(k))'
  <2>1. ViewFits(k) /\ ListFits(k)
    BY DEF ListsInv
  <2>2. CASE k = l
    BY <1>4, <1>6, <1>7, <1>8, <1>9, <1>10, <2>1, <2>2 DEF ViewFits, ListFits, ListsTypes
  <2>3. CASE k # l
    BY <1>4, <1>6, <1>9, <2>1, <2>3 DEF ViewFits, ListFits, ListsTypes
  <2> QED
    BY <2>2, <2>3
<1>14. ASSUME NEW g \in x7' PROVE FetchFits(g)'
  <2>1. CASE g \in x7
    <3>1. FetchFits(g) /\ g \in AdminFetch
      BY <1>6, <2>1 DEF ListsInv, ListsTypes
    <3>2. g.list = l => x5'[g.list] = e
      BY <1>6, <1>9 DEF ListsTypes
    <3>3. g.list # l => x5'[g.list] = x5[g.list]
      BY <1>6, <1>9, <3>1 DEF ListsTypes, AdminFetch
    <3>4. g.run \in Nat
      BY <3>1 DEF AdminFetch
    <3> QED
      BY <1>4, <1>7, <1>8, <3>1, <3>2, <3>3, <3>4 DEF FetchFits
  <2>2. CASE g = f
    <3>1. x5'[l] = e
      BY <1>6, <1>9 DEF ListsTypes
    <3> QED
      BY <1>8, <1>11, <2>2, <3>1 DEF FetchFits
  <2> QED
    BY <1>4, <2>1, <2>2
<1> QED
  BY <1>5, <1>12, <1>13, <1>14 DEF ListsInv

LEMMA FetchesKeepLists ==
    ASSUME ListsInv, NEW f \in x7, Admin!Serve(f) \/ Admin!RunFetch(f) \/ Admin!FetchFails(f)
    PROVE  ListsInv'
<1>1. UNCHANGED <<x1, x2, x3, x4, x5, x10>>
  BY DEF Admin!Serve, Admin!RunFetch, Admin!FetchFails
<1>2. Admin!Here' = Admin!Here /\ EffectKeys' = EffectKeys
  BY <1>1 DEF Admin!Here, EffectKeys
<1>3. ListsTypes /\ f \in AdminFetch /\ FetchFits(f) /\ f.list \in Admin!Here.lists
  BY DEF ListsInv, ListsTypes, AdminFetch
<1>4. CASE Admin!Serve(f)
  <2>1. PICK g : g = [f EXCEPT !.read = x2[f.list]]
    OBVIOUS
  <2>2. x7' = (x7 \ {f}) \cup {g} /\ x6' = x6
    BY <1>4, <2>1 DEF Admin!Serve
  <2>3. x2[f.list] \in Nat
    BY <1>3 DEF ListsTypes
  <2>4. /\ g \in AdminFetch /\ g.list = f.list /\ g.run = f.run /\ g.key = f.key
        /\ g.read = x2[f.list]
    BY <1>3, <2>1, <2>3 DEF AdminFetch
  <2>5. ListFits(f.list)
    BY <1>3 DEF ListsInv
  <2>6. FetchFits(g)'
    BY <1>1, <1>3, <2>3, <2>4, <2>5 DEF FetchFits, ListFits, ListsTypes
  <2>7. \A h \in x7' : FetchFits(h)'
    BY <1>1, <2>2, <2>6 DEF ListsInv, FetchFits
  <2>8. ListsTypes'
    BY <1>1, <1>2, <1>3, <2>2, <2>4 DEF ListsTypes, AdminFetch
  <2> QED
    BY <1>1, <1>2, <2>2, <2>7, <2>8 DEF ListsInv, ViewFits, ListFits
<1>5. ASSUME NEW v \in [at : {"idle", "loading", "shown", "failed"}, version : Nat,
                        key : EffectKeys],
             x7' = x7 \ {f}, x6' = x6 \/ x6' = [x6 EXCEPT ![f.list] = v],
             v.at = "shown" => /\ f.run = x5[f.list].run /\ f.read # 0
                               /\ v.key = f.key /\ v.version = f.read
      PROVE  ListsInv'
  <2>1. ListsTypes'
    BY <1>1, <1>2, <1>3, <1>5 DEF ListsTypes, AdminFetch
  <2>2. \A g \in x7' : FetchFits(g)'
    BY <1>1, <1>5 DEF ListsInv, FetchFits
  <2>3. ASSUME NEW l \in Admin!Here.lists PROVE (ViewFits(l) /\ ListFits(l))'
    <3>1. ViewFits(l) /\ ListFits(l)
      BY DEF ListsInv
    <3>2. CASE x6'[l] = x6[l]
      BY <1>1, <3>1, <3>2 DEF ViewFits, ListFits
    <3>3. CASE x6'[l] # x6[l]
      <4>1. l = f.list /\ x6'[l] = v
        BY <1>3, <1>5, <3>3 DEF ListsTypes
      <4> QED
        BY <1>1, <1>3, <1>5, <3>1, <4>1 DEF ViewFits, ListFits, FetchFits
    <3> QED
      BY <3>2, <3>3
  <2> QED
    BY <1>2, <2>1, <2>2, <2>3 DEF ListsInv
<1>6. CASE Admin!RunFetch(f)
  <2>1. PICK v : v = [at |-> "shown", version |-> f.read, key |-> f.key]
    OBVIOUS
  <2>2. /\ v \in [at : {"idle", "loading", "shown", "failed"}, version : Nat, key : EffectKeys]
        /\ v.key = f.key /\ v.version = f.read
    BY <1>3, <2>1 DEF AdminFetch
  <2>3. f.read # 0 /\ x7' = x7 \ {f} /\ x6' = IF Admin!IsCancelled(f) THEN x6
                                              ELSE [x6 EXCEPT ![f.list] = v]
    BY <1>6, <2>1 DEF Admin!RunFetch
  <2>4. CASE Admin!IsCancelled(f)
    <3>1. PICK w : w = [Admin!Idle EXCEPT !.at = "failed"]
      OBVIOUS
    <3>2. /\ w \in [at : {"idle", "loading", "shown", "failed"}, version : Nat, key : EffectKeys]
          /\ w.at = "failed"
      BY <3>1 DEF Admin!Idle, Admin!None, EffectKeys
    <3> QED
      BY <1>5, <2>3, <2>4, <3>2
  <2>5. CASE ~Admin!IsCancelled(f)
    <3>1. f.run = x5[f.list].run
      BY <2>5 DEF Admin!IsCancelled
    <3> QED
      BY <1>5, <2>2, <2>3, <2>5, <3>1
  <2> QED
    BY <2>4, <2>5
<1>7. CASE Admin!FetchFails(f)
  <2>1. PICK w : w = [Admin!Idle EXCEPT !.at = "failed"]
    OBVIOUS
  <2>2. /\ w \in [at : {"idle", "loading", "shown", "failed"}, version : Nat, key : EffectKeys]
        /\ w.at = "failed"
    BY <2>1 DEF Admin!Idle, Admin!None, EffectKeys
  <2>3. x7' = x7 \ {f} /\ (x6' = x6 \/ x6' = [x6 EXCEPT ![f.list] = w])
    BY <1>7, <2>1 DEF Admin!FetchFails
  <2> QED
    BY <1>5, <2>2, <2>3
<1> QED
  BY <1>4, <1>6, <1>7

LEMMA SelectKeepsLists ==
    ASSUME ListsInv, NEW c \in Admin!Here.choices, Admin!Select(c)
    PROVE  ListsInv'
<1>1. x3' = c /\ UNCHANGED <<x1, x2, x4, x5, x6, x7, x10>>
  BY DEF Admin!Select
<1>2. Admin!Here' = Admin!Here /\ EffectKeys' = EffectKeys
  BY <1>1 DEF Admin!Here, EffectKeys
<1> QED
  BY <1>1, <1>2 DEF ListsInv, ListsTypes, AdminFetch, FetchFits, ViewFits, ListFits

LEMMA CommitKeepsLists ==
    ASSUME ListsInv, NEW c \in x9, Admin!Commit(c)
    PROVE  ListsInv'
<1>1. /\ x2' = [l \in Admin!Here.lists |-> IF l \in c.handler.writes THEN x2[l] + 1 ELSE x2[l]]
      /\ UNCHANGED <<x1, x3, x4, x5, x6, x7, x10>>
  BY DEF Admin!Commit
<1>2. Admin!Here' = Admin!Here /\ EffectKeys' = EffectKeys
  BY <1>1 DEF Admin!Here, EffectKeys
<1>3. \A l \in Admin!Here.lists : x2[l] \in Nat /\ x10[l] \in Nat
  BY DEF ListsInv, ListsTypes
<1>4. ListsTypes'
  BY <1>1, <1>2, <1>3 DEF ListsInv, ListsTypes, AdminFetch
<1>5. \A f \in x7' : FetchFits(f)'
  BY <1>1 DEF ListsInv, FetchFits
<1>6. ASSUME NEW l \in Admin!Here.lists PROVE (ViewFits(l) /\ ListFits(l))'
  <2>1. x2'[l] >= x2[l]
    BY <1>1, <1>3
  <2>2. x2'[l] \in Nat
    BY <1>1, <1>3
  <2> QED
    BY <1>1, <1>3, <2>1, <2>2 DEF ListsInv, ViewFits, ListFits
<1> QED
  BY <1>2, <1>4, <1>5, <1>6 DEF ListsInv

\* The lists a change wrote are read again from its answer on.
LEMMA SucceedKeepsLists ==
    ASSUME CallsInv, ListsInv, NEW c \in x9, Admin!Succeed(c)
    PROVE  ListsInv'
<1>1. /\ x4' = [l \in Admin!Here.lists |-> IF l \in c.handler.bumps THEN x4[l] + 1 ELSE x4[l]]
      /\ x10' = [l \in Admin!Here.lists |-> IF l \in c.handler.writes THEN x2[l] ELSE x10[l]]
      /\ x3' = IF c.handler.ends = "selection" /\ x3 = c.row THEN "none" ELSE x3
      /\ UNCHANGED <<x1, x2, x5, x6, x7>>
  BY DEF Admin!Succeed, Admin!None
<1>2. Admin!Here' = Admin!Here /\ EffectKeys' = EffectKeys
  BY <1>1 DEF Admin!Here, EffectKeys
<1>3. /\ c.handler.writes \subseteq c.handler.bumps
      /\ c.handler.ends = "selection" => "none" \in Admin!Here.choices
  BY CallsAreSound DEF Sound
<1>4. ListsTypes
  BY DEF ListsInv
<1>5. ASSUME NEW l \in Admin!Here.lists
      PROVE  /\ x2[l] \in Nat /\ x4[l] \in Nat /\ x10[l] \in Nat /\ x5[l].key[1] \in Nat
             /\ x10[l] <= x2[l] /\ x5[l].key[1] <= x4[l]
             /\ x10'[l] <= x2[l] /\ x4'[l] >= x4[l]
             /\ x4'[l] \in Nat /\ x10'[l] \in Nat
             /\ x10'[l] = x10[l] \/ x4'[l] = x4[l] + 1
  <2>1. x2[l] \in Nat /\ x4[l] \in Nat /\ x10[l] \in Nat
    BY <1>4 DEF ListsTypes
  <2>2. x5[l].key \in EffectKeys
    BY <1>4 DEF ListsTypes
  <2>3. x5[l].key[1] \in Nat
    BY <2>2 DEF EffectKeys
  <2>4. x10[l] <= x2[l] /\ x5[l].key[1] <= x4[l]
    BY DEF ListsInv, ListFits
  <2>5. /\ x4'[l] = IF l \in c.handler.bumps THEN x4[l] + 1 ELSE x4[l]
        /\ x10'[l] = IF l \in c.handler.writes THEN x2[l] ELSE x10[l]
    BY <1>1
  <2> QED
    BY <1>3, <2>1, <2>3, <2>4, <2>5
<1>6. ListsTypes'
  <2>1. x4' \in [Admin!Here.lists -> Nat]
    BY <1>1, <1>5
  <2>2. x10' \in [Admin!Here.lists -> Nat]
    BY <1>1, <1>5
  <2> QED
    BY <1>1, <1>2, <1>3, <1>4, <2>1, <2>2 DEF ListsTypes, AdminFetch
\* A list that is to be read again is not up to date.
<1>7. ASSUME NEW l \in Admin!Here.lists, x5[l].key[1] = x4'[l]
      PROVE  x4'[l] = x4[l] /\ x10'[l] = x10[l]
  BY <1>5, <1>7
<1>8. ASSUME NEW f \in x7 PROVE FetchFits(f)'
  <2>1. f.list \in Admin!Here.lists /\ FetchFits(f)
    BY <1>4 DEF ListsInv, ListsTypes, AdminFetch
  <2> QED
    BY <1>1, <1>7, <2>1 DEF FetchFits
<1>9. ASSUME NEW l \in Admin!Here.lists PROVE (ViewFits(l) /\ ListFits(l))'
  <2>1. ViewFits(l)
    BY DEF ListsInv
  <2>2. ViewFits(l)'
    BY <1>1, <1>7, <2>1 DEF ViewFits
  <2>3. x10'[l] <= x2'[l]
    BY <1>1, <1>5
  <2>4. x5'[l].key[1] <= x4'[l]
    BY <1>1, <1>5
  <2> QED
    BY <2>2, <2>3, <2>4 DEF ListFits
<1> QED
  BY <1>1, <1>2, <1>6, <1>8, <1>9 DEF ListsInv

LEMMA ListsGoOn == CallsInv /\ ListsInv /\ [Admin!Next]_(Admin!vars) => ListsInv'
<1> SUFFICES ASSUME CallsInv, ListsInv, [Admin!Next]_(Admin!vars) PROVE ListsInv'
  OBVIOUS
<1>1. ASSUME UNCHANGED <<x1, x2, x3, x4, x5, x6, x7, x10>> PROVE ListsInv'
  <2>1. Admin!Here' = Admin!Here /\ EffectKeys' = EffectKeys
    BY <1>1 DEF Admin!Here, EffectKeys
  <2> QED
    BY <1>1, <2>1 DEF ListsInv, ListsTypes, AdminFetch, FetchFits, ViewFits, ListFits
<1>2. CASE Admin!Next
  <2>1. ASSUME NEW h \in Admin!Here.handlers, NEW r \in Rows, Admin!Click(h, r) PROVE ListsInv'
    BY <1>1, <2>1 DEF Admin!Click
  <2>2. ASSUME NEW c \in x9, Admin!Fail(c) PROVE ListsInv'
    BY <1>1, <2>2 DEF Admin!Fail
  <2>3. ASSUME (\E r \in Rows : Admin!HandleEdit(r)) \/ Admin!HandleCancelEdit PROVE ListsInv'
    BY <1>1, <2>3 DEF Admin!HandleEdit, Admin!HandleCancelEdit
  <2> QED
    BY <1>2, <2>1, <2>2, <2>3, SelectKeepsLists, RunsKeepLists, FetchesKeepLists,
       CommitKeepsLists, SucceedKeepsLists DEF Admin!Next
<1>3. CASE UNCHANGED Admin!vars
  BY <1>1, <1>3 DEF Admin!vars
<1> QED
  BY <1>2, <1>3

\* What is shown of a list that is up to date is current.
LEMMA ListsAreAsSaid == ListsInv => Admin!ShownIsCurrent
<1> SUFFICES ASSUME ListsInv, NEW l \in Admin!Here.lists, x6[l].at = "shown", Admin!UpToDate(l)
             PROVE  x6[l].key = Admin!Key(l) /\ x6[l].version >= x10[l]
  BY DEF Admin!ShownIsCurrent
<1>1. x5[l].key = Admin!Key(l) /\ Admin!Key(l)[1] = x4[l]
  BY KeysFit DEF ListsInv, Admin!UpToDate
<1> QED
  BY <1>1 DEF ListsInv, ViewFits

LEMMA AdminTypes == CallsInv /\ ListsInv => Admin!TypeOK
<1> SUFFICES ASSUME CallsInv, ListsInv PROVE Admin!TypeOK
  OBVIOUS
<1>1. CallsTypes /\ ListsTypes /\ MaxLists[x1] \in Nat
  BY SectionsAssumption DEF CallsInv, ListsInv, ListsTypes
<1>2. ASSUME NEW l \in Admin!Here.lists
      PROVE  /\ x2[l] \in Nat /\ x4[l] \in Nat /\ x10[l] \in Nat
             /\ x5[l].run \in 0..MaxLists[x1]
             /\ x6[l].at \in {"idle", "loading", "shown", "failed"}
  <2>1. x2[l] \in Nat /\ x4[l] \in Nat /\ x10[l] \in Nat
    BY <1>1 DEF ListsTypes
  <2>2. x5[l] \in [run : 0..MaxLists[x1], key : EffectKeys]
    BY <1>1 DEF ListsTypes
  <2>3. x6[l] \in [at : {"idle", "loading", "shown", "failed"}, version : Nat, key : EffectKeys]
    BY <1>1 DEF ListsTypes
  <2> QED
    BY <2>1, <2>2, <2>3
<1>3. \A f \in x7 : f.list \in Admin!Here.lists /\ f.run \in 1..MaxLists[x1]
  BY <1>1 DEF ListsTypes, AdminFetch
<1>4. \A g \in Admin!Gates : x8[g] \in Rows \cup {"none"}
  BY <1>1 DEF CallsTypes
<1>5. \A c \in x9 : c.handler \in Admin!Here.handlers /\ c.row \in Rows
  BY CallsAreSound
<1>6. x11.row \in Rows \cup {"none"}
  BY <1>1 DEF CallsTypes
<1> QED
  BY <1>1, <1>2, <1>3, <1>4, <1>5, <1>6 DEF Admin!TypeOK, CallsTypes, ListsTypes, Admin!None

------------------------------------------------------------------------------
(* The scenes together *)

PagesInv ==
    /\ scene \in {"admin", "shell", "data", "dumps", "board", "panel"}
    /\ scene = "admin" => CallsInv /\ ListsInv
    /\ scene = "shell" => ShellInv
    /\ scene = "data" => DataInv
    /\ scene = "dumps" => DumpsInv
    /\ scene = "board" => BoardInv
    /\ scene = "panel" => PanelInv

\* What a step of the page is in the scene it is in.
LEMMA ScenesStep ==
    [Next]_vars =>
        /\ scene' = scene
        /\ scene = "admin" => [Admin!Next]_(Admin!vars)
        /\ scene = "shell" => [Shell!Next]_(Shell!vars)
        /\ scene = "data" => [Data!Next]_(Data!vars)
        /\ scene = "dumps" => [Dumps!Next]_(Dumps!vars)
        /\ scene = "board" => [Board!Next]_(Board!vars)
        /\ scene = "panel" => [Panel!Next]_(Panel!vars)
BY DEF Next, vars, Admin!vars, Shell!vars, Data!vars, Dumps!vars, Board!vars, Panel!vars

LEMMA PagesStart == Init => PagesInv
<1>1. ASSUME Init PROVE scene \in {"admin", "shell", "data", "dumps", "board", "panel"}
  BY <1>1 DEF Init
<1>2. ASSUME Init
      PROVE  /\ scene = "admin" => Admin!Init
             /\ scene = "shell" => Shell!Init
             /\ scene = "data" => Data!Init
             /\ scene = "dumps" => Dumps!Init
             /\ scene = "board" => Board!Init
             /\ scene = "panel" => Panel!Init
  BY <1>2 DEF Init
<1> QED
  BY <1>1, <1>2, CallsStart, ListsStart, ShellStarts, DataStarts, DumpsStart, BoardStarts,
     PanelStarts DEF PagesInv

LEMMA PagesGoOn == PagesInv /\ [Next]_vars => PagesInv'
BY ScenesStep, CallsGoOn, ListsGoOn, ShellGoesOn, DataGoesOn, DumpsGoOn, BoardGoesOn, PanelGoesOn
DEF PagesInv

LEMMA PagesHold == Spec => []PagesInv
BY PagesStart, PagesGoOn, PTL DEF Spec

\* The variables of every component keep their types.
THEOREM PagesTypeTheorem == Spec => []TypesOK
<1>1. PagesInv => TypesOK
  BY AdminTypes, ShellIsAsSaid, DataIsAsSaid, DumpsAreAsSaid, BoardIsAsSaid, PanelIsAsSaid
  DEF PagesInv, TypesOK
<1> QED
  BY <1>1, PagesHold, PTL

\* Whatever is selected, answered late or out of order, the admin page
\* (useApiResource.ts:96), the dashboard (DashboardView.tsx:757) and the panel of
\* re-evaluations show what is of the selection and of the runs they asked for.
THEOREM SelectionTheorem == Spec => []ShownIsOfSelection
<1>1. PagesInv => ShownIsOfSelection
  BY ListsAreAsSaid, BoardIsAsSaid, PanelIsAsSaid DEF PagesInv, ShownIsOfSelection
<1> QED
  BY <1>1, PagesHold, PTL

\* However calls follow each other and end, what is in flight is what the page
\* shows to be: the gates of the admin page hold the rows of their calls
\* (adminViewConstants.ts:191), and the import plan on the page is that of the
\* file that would be sent (useAdminImportExport.ts:130).
THEOREM InFlightTheorem == Spec => []InFlightIsAsShown
<1>1. PagesInv => InFlightIsAsShown
  BY DataIsAsSaid DEF PagesInv, CallsInv, InFlightIsAsShown
<1> QED
  BY <1>1, PagesHold, PTL

\* The shell shows who logged in last, and the cookies are theirs, or a mishap
\* explains it; nobody outside is told of a running evaluation (AppShell.tsx:425).
THEOREM ShellTheorem == Spec => []ShellIsOfSession
<1>1. PagesInv => ShellIsOfSession
  BY ShellIsAsSaid DEF PagesInv, ShellIsOfSession
<1> QED
  BY <1>1, PagesHold, PTL

\* An edit form goes as it was asked to (useAdminPersons.ts:195), who left is let
\* in without a password only by two mishaps (AppShell.tsx:425), and a restore
\* replaces what its plan was made from (useAdminImportExport.ts:151).
THEOREM UnaskedTheorem == Spec => NothingHappensUnasked
<1>1. PagesInv /\ [Next]_vars =>
         [/\ scene = "admin" => Admin!EditEndsAsAsked
          /\ scene = "shell" => Shell!LetInByTwoMishaps
          /\ scene = "data" => Data!RestoresWhatWasPlanned
         ]_vars
  BY ScenesStep, FormsEndAsAsked, ShellStepIsAsSaid, DataStepIsAsSaid DEF PagesInv
<1> QED
  BY <1>1, PagesHold, PTL DEF Spec, NothingHappensUnasked

\* Every table of a dump is of one instant of the download, and a full dump
\* has an assessment without its person only if that person came or went while it
\* was made (export-full-record-collect.ts:73, export-job.service.ts:465).
THEOREM DumpsTheorem == Spec => []DumpsAreOfTheirTime
<1>1. PagesInv => DumpsAreOfTheirTime
  BY DumpsAreAsSaid DEF PagesInv, DumpsAreOfTheirTime
<1> QED
  BY <1>1, PagesHold, PTL
==============================================================================
