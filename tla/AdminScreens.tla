----------------------------- MODULE AdminScreens -----------------------------
(***************************************************************************)
(* The sections of the admin page (web/src/views): each shows lists it has *)
(* fetched and sends changes to the server.  A change is not drawn from its *)
(* answer; the answer makes the page fetch the lists again.                *)
(*                                                                         *)
(* A list is read by an effect that runs again when its path or its nonce  *)
(* changes.  The effect follows the render, so it may lag behind.          *)
(***************************************************************************)
EXTENDS Naturals

CONSTANTS
    Rows,       \* the rows a section shows, or persons, groups, parts to select
    Sections,   \* their handlers and lists (see AdminHandlers)
    MaxClicks,  \* per section: changes sent, in one behaviour
    MaxRuns     \* per section: times the effect of a list runs

None == "none"

VARIABLES
    section,    \* the section of the page this behaviour is about
    version,    \* of the rows behind a list, at the server
    picked,     \* what the section's selector holds
    nonce,      \* of a list: asked to load again
    effect,     \* of a list: its latest run, and the key it ran with
    view,       \* of a list: what the page shows
    fetches,    \* requests for lists, on their way
    gate,       \* per kind of change: the row in flight
    calls,      \* changes in flight
    acked,      \* of a list: the version its latest successful change made
    editing,    \* the row in the edit form, and whether it was opened while
                \* an update was in flight
    guess,      \* the row whose optimistic value covers the list's
    clicks

vars == <<section, version, picked, nonce, effect, view, fetches, gate, calls,
          acked, editing, guess, clicks>>

------------------------------------------------------------------------------
Here == Sections[section]
Gates == {h.gate : h \in Here.handlers}

------------------------------------------------------------------------------
(* The lists *)

NoEdit == [row |-> None, during |-> FALSE]
Idle == [at |-> "idle", version |-> 0, key |-> <<0, None>>]

\* What the effect of a list depends on.
Key(l) == <<nonce[l], IF l \in Here.follow THEN picked ELSE "active">>

UpToDate(l) == effect[l].key = Key(l)

Fetch(l, run, key) == [list |-> l, run |-> run, key |-> key, read |-> 0]

Init ==
    /\ section \in DOMAIN Sections
    /\ picked = IF None \in Here.choices THEN None ELSE "active"
    /\ version = [l \in Here.lists |-> 1]
    /\ nonce = [l \in Here.lists |-> 0]
    /\ effect = [l \in Here.lists |->
                    [run |-> IF Key(l)[2] = None THEN 0 ELSE 1, key |-> Key(l)]]
    /\ view = [l \in Here.lists |->
                  IF Key(l)[2] = None THEN Idle ELSE [Idle EXCEPT !.at = "loading"]]
    /\ fetches = {Fetch(l, 1, Key(l)) : l \in {k \in Here.lists : Key(k)[2] # None}}
    /\ gate = [g \in Gates |-> None]
    /\ calls = {}
    /\ acked = [l \in Here.lists |-> 1]
    /\ editing = NoEdit
    /\ guess = None
    /\ clicks = 0

\* The user selects another value.
Select(c) ==
    /\ c # picked
    /\ picked' = c
    /\ UNCHANGED <<section, version, nonce, effect, view, fetches, gate, calls,
                   acked, editing, guess, clicks>>

\* The effect runs: the run before is cancelled, what it had loaded goes.
StartResourceEffect(l) ==
    /\ ~UpToDate(l) /\ effect[l].run < MaxRuns[section]
    /\ effect' = [effect EXCEPT ![l] = [run |-> @.run + 1, key |-> Key(l)]]
    /\ IF Key(l)[2] = None
       THEN /\ view' = [view EXCEPT ![l] = Idle]
            /\ UNCHANGED fetches
       ELSE /\ view' = [view EXCEPT ![l] = [Idle EXCEPT !.at = "loading"]]
            /\ fetches' = fetches \cup {Fetch(l, effect[l].run + 1, Key(l))}
    /\ UNCHANGED <<section, version, picked, nonce, gate, calls, acked, editing,
                   guess, clicks>>

\* The server reads the rows.
Serve(f) ==
    /\ f.read = 0
    /\ fetches' = (fetches \ {f}) \cup {[f EXCEPT !.read = version[f.list]]}
    /\ UNCHANGED <<section, version, picked, nonce, effect, view, gate, calls,
                   acked, editing, guess, clicks>>

\* Mutant of IsCancelled: no run is cancelled.
IsCancelled_Never(f) == FALSE

IsCancelled(f) == f.run # effect[f.list].run

\* The answer is shown, unless its run was cancelled.
RunFetch(f) ==
    /\ f.read # 0
    /\ fetches' = fetches \ {f}
    /\ view' = IF IsCancelled(f) THEN view
               ELSE [view EXCEPT ![f.list] =
                       [at |-> "shown", version |-> f.read, key |-> f.key]]
    /\ UNCHANGED <<section, version, picked, nonce, effect, gate, calls, acked,
                   editing, guess, clicks>>

FetchFails(f) ==
    /\ fetches' = fetches \ {f}
    /\ view' = IF IsCancelled(f) THEN view
               ELSE [view EXCEPT ![f.list] = [Idle EXCEPT !.at = "failed"]]
    /\ UNCHANGED <<section, version, picked, nonce, effect, gate, calls, acked,
                   editing, guess, clicks>>

------------------------------------------------------------------------------
(* The changes *)

\* Mutant of Busy: every gate is read row by row.
Busy_SameRow(h, r) == gate[h.gate] = r

\* Whether a click does nothing: something is in flight at the gate.  The gate
\* of the identity rows is read row by row.
Busy(h, r) == IF h.guard = "row" THEN gate[h.gate] = r ELSE gate[h.gate] # None

\* The gate after a call of row r has ended.  A row clears only its own mark.
Cleared(c) == IF c.handler.guard = "row" /\ gate[c.handler.gate] # c.row
              THEN gate[c.handler.gate] ELSE None

\* A call that another row's call at its gate has followed is passed; and so is
\* one whose mark a passed call of its row has cleared.
Passed(h, r) ==
    {IF c.handler.gate = h.gate /\ c.row # r THEN [c EXCEPT !.passed = TRUE] ELSE c :
        c \in calls}
Rest(c) ==
    {IF c.passed /\ d.handler.gate = c.handler.gate /\ d.row = c.row
     THEN [d EXCEPT !.passed = TRUE] ELSE d : d \in calls \ {c}}

\* A click.  A call about a row of the selected group, part or person needs
\* the selection, and the update form is sent for the row it holds.
Click(h, r) ==
    /\ clicks < MaxClicks[section]
    /\ ~Busy(h, r)
    /\ h.ends = "edit" => editing.row = r
    /\ h.writes # {} /\ h.writes \subseteq Here.follow => picked # None
    /\ clicks' = clicks + 1
    /\ gate' = [gate EXCEPT ![h.gate] = r]
    /\ calls' = Passed(h, r) \cup
                {[id |-> clicks, handler |-> h, row |-> r, made |-> FALSE, passed |-> FALSE]}
    /\ guess' = IF h.ends = "guess" THEN r ELSE guess
    /\ UNCHANGED <<section, version, picked, nonce, effect, view, fetches, acked, editing>>

\* The server makes the change.
Commit(c) ==
    /\ ~c.made
    /\ version' = [l \in Here.lists |->
                      IF l \in c.handler.writes THEN version[l] + 1 ELSE version[l]]
    /\ calls' = (calls \ {c}) \cup {[c EXCEPT !.made = TRUE]}
    /\ UNCHANGED <<section, picked, nonce, effect, view, fetches, gate, acked, editing,
                   guess, clicks>>

\* The edit form once a change has succeeded.
EditingAfter(c) == IF c.handler.ends = "edit" THEN NoEdit ELSE editing

\* The answer to a change that was made: the lists are loaded again, the form
\* is emptied or closed, and the gate opens.
Succeed(c) ==
    /\ c.made
    /\ calls' = Rest(c)
    /\ gate' = [gate EXCEPT ![c.handler.gate] = Cleared(c)]
    /\ nonce' = [l \in Here.lists |-> IF l \in c.handler.bumps THEN nonce[l] + 1 ELSE nonce[l]]
    /\ acked' = [l \in Here.lists |-> IF l \in c.handler.writes THEN version[l] ELSE acked[l]]
    /\ editing' = EditingAfter(c)
    /\ picked' = IF c.handler.ends = "selection" /\ picked = c.row THEN None ELSE picked
    /\ guess' = IF c.handler.ends = "guess" THEN None ELSE guess
    /\ UNCHANGED <<section, version, effect, view, fetches, clicks>>

GuessAfterFailure(c) == IF c.handler.ends = "guess" THEN None ELSE guess

\* The change is refused, or its answer is lost: an error is shown, the form
\* keeps its input, and the gate opens.  No list is loaded again.
Fail(c) ==
    /\ calls' = Rest(c)
    /\ gate' = [gate EXCEPT ![c.handler.gate] = Cleared(c)]
    /\ guess' = GuessAfterFailure(c)
    /\ UNCHANGED <<section, version, picked, nonce, effect, view, fetches, acked,
                   editing, clicks>>

\* A row's edit form is opened, also while an update is in flight, and
\* cancelled, if none is or the section does not hold it.
UpdateGates == {h.gate : h \in {k \in Here.handlers : k.ends = "edit"}}
Updating == \E g \in UpdateGates : gate[g] # None

HandleEdit(r) ==
    /\ UpdateGates # {} /\ editing.row # r
    /\ editing' = [row |-> r, during |-> Updating]
    /\ UNCHANGED <<section, version, picked, nonce, effect, view, fetches, gate,
                   calls, acked, guess, clicks>>

HandleCancelEdit ==
    /\ editing.row # None
    /\ Here.holdsEdit => ~Updating
    /\ editing' = NoEdit
    /\ UNCHANGED <<section, version, picked, nonce, effect, view, fetches, gate,
                   calls, acked, guess, clicks>>

Next ==
    \/ \E c \in Here.choices : Select(c)
    \/ \E l \in Here.lists : StartResourceEffect(l)
    \/ \E f \in fetches : Serve(f) \/ RunFetch(f) \/ FetchFails(f)
    \/ \E h \in Here.handlers, r \in Rows : Click(h, r)
    \/ \E c \in calls : Commit(c) \/ Succeed(c) \/ Fail(c)
    \/ \E r \in Rows : HandleEdit(r)
    \/ HandleCancelEdit

Spec == Init /\ [][Next]_vars

------------------------------------------------------------------------------
(* Properties *)

TypeOK ==
    /\ section \in DOMAIN Sections /\ picked \in Here.choices
    /\ \A l \in Here.lists :
          /\ version[l] \in Nat /\ nonce[l] \in Nat /\ acked[l] \in Nat
          /\ effect[l].run \in 0..MaxRuns[section]
          /\ view[l].at \in {"idle", "loading", "shown", "failed"}
    /\ \A f \in fetches : f.list \in Here.lists /\ f.run \in 1..MaxRuns[section]
    /\ \A g \in Gates : gate[g] \in Rows \cup {None}
    /\ \A c \in calls : c.handler \in Here.handlers /\ c.row \in Rows
    /\ editing.row \in Rows \cup {None} /\ guess \in Rows \cup {None}
    /\ clicks \in 0..MaxClicks[section]

\* A list the page shows, once its effect has caught up, is of what is
\* selected, and holds every change made when the latest successful change of
\* it was answered: answers that overtake each other never leave old rows.
ShownIsCurrent ==
    \A l \in Here.lists :
        view[l].at = "shown" /\ UpToDate(l) =>
            view[l].key = Key(l) /\ view[l].version >= acked[l]

\* No kind of change is sent while one of its kind is in flight, whatever the
\* row; only the identity rows let other rows through.
OneRequestPerGate ==
    \A c, d \in calls :
        c # d /\ c.handler.gate = d.handler.gate => c.handler.guard = "row"

\* An identity row sends a second action while its first is in flight only if
\* another row's action came in between, or before a call of the row whose end
\* cleared the mark (adminServiceIdentityRowActions.tsx:123).
RowDoubledOnlyAfterOther ==
    \A c, d \in calls :
        c # d /\ c.handler.gate = d.handler.gate /\ c.row = d.row => c.passed \/ d.passed

\* No gate stays shut and no guess stays drawn without its call in flight,
\* whichever way calls end.
GatesFollowCalls ==
    /\ \A g \in Gates : gate[g] # None =>
          \E c \in calls : c.handler.gate = g /\ c.row = gate[g]
    /\ guess # None => \E c \in calls : c.handler.ends = "guess" /\ c.row = guess

\* An edit form goes away when it is cancelled, or at the answer to the update
\* of its own row; the answer to another row's update takes it only if it was
\* opened while that update was in flight.
EditEndsAsAsked ==
    editing.row # None /\ editing'.row = None =>
        \/ calls' = calls
        \/ \E c \in calls \ calls' : c.row = editing.row
        \/ editing.during
==============================================================================
