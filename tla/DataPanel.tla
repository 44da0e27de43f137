------------------------------- MODULE DataPanel ------------------------------
(***************************************************************************)
(* The import and export panel of the admin page                           *)
(* (web/src/views/useAdminImportExport.ts).  A file is not restored when it *)
(* is chosen: the page asks the server what restoring it would do, shows   *)
(* the plan, and sends the file again once the user confirms.  An export   *)
(* asks for a job, waits for it and saves what it made.                    *)
(*                                                                         *)
(* What the panel offers follows from its state, one thing at a time       *)
(* (web/src/components/DataImportExportPanel.tsx); an error is never put   *)
(* away, so only loading the page again leads on.  What has been sent goes *)
(* on at the server.                                                       *)
(***************************************************************************)
EXTENDS Naturals, Sequences, FiniteSets

CONSTANTS
    Files,
    MaxLoads,   \* bound: times the page is loaded
    MaxWrites   \* bound: versions of the stored rows

None == "none"

VARIABLES
    load,      \* the page's load, counted
    exporting, \* a call of the export is in flight
    importing, \* a preview or a restore is in flight
    failed,    \* exportError or importError
    confirm,   \* the plan the panel asks to confirm: its file, and the version
               \* of the rows it was made for
    pending,   \* pendingImportFile
    calls,     \* in flight, also those of earlier loads
    writers,   \* who made the versions of the rows: a load, or 0 for others
    exported   \* history: scope and end of the latest export

vars == <<load, exporting, importing, failed, confirm, pending, calls, writers, exported>>

NoPlan == [file |-> None, version |-> 0]

Init ==
    /\ load = 1
    /\ exporting = FALSE /\ importing = FALSE /\ failed = FALSE
    /\ confirm = NoPlan /\ pending = None
    /\ calls = {} /\ writers = <<>>
    /\ exported = [scope |-> None, outcome |-> None]

\* What the panel offers.
Offered ==
    CASE exporting \/ importing \/ failed -> "nothing"
      [] ~(exporting \/ importing \/ failed) /\ confirm # NoPlan -> "confirmation"
      [] OTHER -> "start"

Call(kind, file, version) ==
    [kind |-> kind, file |-> file, version |-> version, load |-> load, served |-> FALSE]

------------------------------------------------------------------------------
(* Import *)

\* A file is chosen: the server is asked for the plan.
HandleImport(file) ==
    /\ Offered = "start"
    /\ pending' = file /\ confirm' = NoPlan /\ importing' = TRUE
    /\ calls' = calls \cup {Call("preview", file, 0)}
    /\ UNCHANGED <<load, exporting, failed, writers, exported>>

\* The server makes the plan from the rows there are, and changes none.
PreviewFromDump(c) ==
    /\ c.kind = "preview" /\ ~c.served
    /\ calls' = (calls \ {c}) \cup {[c EXCEPT !.served = TRUE, !.version = Len(writers)]}
    /\ UNCHANGED <<load, exporting, importing, failed, confirm, pending, writers, exported>>

RunImportPreview(c) ==
    /\ c.kind = "preview" /\ c.served
    /\ calls' = calls \ {c}
    /\ IF c.load = load
       THEN confirm' = [file |-> c.file, version |-> c.version] /\ importing' = FALSE
       ELSE UNCHANGED <<confirm, importing>>
    /\ UNCHANGED <<load, exporting, failed, pending, writers, exported>>

\* The file is sent to be restored; question and file are put away.
HandleConfirmImport ==
    /\ Offered = "confirmation"
    /\ confirm' = NoPlan /\ pending' = None /\ importing' = TRUE
    /\ calls' = calls \cup {Call("import", pending, confirm.version)}
    /\ UNCHANGED <<load, exporting, failed, writers, exported>>

HandleCancelImport ==
    /\ Offered = "confirmation"
    /\ confirm' = NoPlan /\ pending' = None
    /\ UNCHANGED <<load, exporting, importing, failed, calls, writers, exported>>

\* The server restores, whether or not the page is still there.
Restore(c) ==
    /\ c.kind = "import" /\ ~c.served /\ Len(writers) < MaxWrites
    /\ writers' = Append(writers, c.load)
    /\ calls' = (calls \ {c}) \cup {[c EXCEPT !.served = TRUE]}
    /\ UNCHANGED <<load, exporting, importing, failed, confirm, pending, exported>>

RunImport(c) ==
    /\ c.kind = "import" /\ c.served
    /\ calls' = calls \ {c}
    /\ importing' = (importing /\ c.load # load)
    /\ UNCHANGED <<load, exporting, failed, confirm, pending, writers, exported>>

\* A preview or a restore is refused or its answer is lost.
ImportFails(c) ==
    /\ c.kind \in {"preview", "import"}
    /\ calls' = calls \ {c}
    /\ IF c.load = load
       THEN failed' = TRUE /\ confirm' = NoPlan /\ importing' = FALSE
       ELSE UNCHANGED <<failed, confirm, importing>>
    /\ UNCHANGED <<load, exporting, pending, writers, exported>>

------------------------------------------------------------------------------
(* Export *)

\* The options of the selector; the first is sent as no scope at all.
EXPORT_SCOPE_OPTIONS == {None, "assessments", "questions", "persons"}

\* The scopes the server's body validation takes.
ExportScope == {"FULL", "RANGE", "PARTIAL"}

HandleExport(scope) ==
    /\ Offered = "start"
    /\ exporting' = TRUE
    /\ calls' = calls \cup {Call("export", scope, 0)}
    /\ UNCHANGED <<load, importing, failed, confirm, pending, writers, exported>>

\* A job of a valid scope is waited for, until it is saved or given up.
Outcomes(scope) ==
    IF scope \in ExportScope THEN {"saved", "failed"} ELSE {"refused", "lost"}

RunAdminExportJob(c) ==
    /\ c.kind = "export"
    /\ calls' = calls \ {c}
    /\ \E outcome \in Outcomes(c.file) :
          IF c.load = load
          THEN /\ exporting' = FALSE
               /\ failed' = (outcome # "saved")
               /\ exported' = [scope |-> c.file, outcome |-> outcome]
          ELSE UNCHANGED <<exporting, failed, exported>>
    /\ UNCHANGED <<load, importing, confirm, pending, writers>>

------------------------------------------------------------------------------
(* The rest *)

\* The user loads the page again.
Reload ==
    /\ load < MaxLoads
    /\ load' = load + 1
    /\ exporting' = FALSE /\ importing' = FALSE /\ failed' = FALSE
    /\ confirm' = NoPlan /\ pending' = None
    /\ UNCHANGED <<calls, writers, exported>>

\* The rest of the application changes the rows a restore would replace.
Write ==
    /\ Len(writers) < MaxWrites
    /\ writers' = Append(writers, 0)
    /\ UNCHANGED <<load, exporting, importing, failed, confirm, pending, calls, exported>>

Next ==
    \/ \E f \in Files : HandleImport(f)
    \/ HandleConfirmImport \/ HandleCancelImport
    \/ \E s \in EXPORT_SCOPE_OPTIONS : HandleExport(s)
    \/ \E c \in calls :
          \/ PreviewFromDump(c) \/ RunImportPreview(c)
          \/ Restore(c) \/ RunImport(c) \/ ImportFails(c)
          \/ RunAdminExportJob(c)
    \/ Reload \/ Write

Spec == Init /\ [][Next]_vars

------------------------------------------------------------------------------
(* Properties *)

TypeOK ==
    /\ load \in 1..MaxLoads
    /\ {exporting, importing, failed} \subseteq BOOLEAN
    /\ confirm.file \in Files \cup {None} /\ confirm.version \in 0..MaxWrites
    /\ pending \in Files \cup {None}
    /\ \A c \in calls : c.load \in 1..load /\ c.kind \in {"preview", "import", "export"}
    /\ writers \in Seq(0..MaxLoads)

\* The plan that is shown is that of the file that would be sent, and one
\* load of the page has one call in flight: exports and imports share what
\* the panel offers, although each guards only against itself
\* (adminImportExportRunners.ts:291, exportJobDownload.ts:83).
ConfirmNamesItsFile ==
    /\ confirm # NoPlan => confirm.file = pending
    /\ \A c, d \in calls : c.load = load /\ d.load = load => c = d

\* A restore replaces the rows its plan was made from, as far as its page can
\* tell: what changed them in between was never sent by the same load.
RestoresWhatWasPlanned ==
    \A c \in calls \ calls', d \in calls' :
        c.kind = "import" /\ d = [c EXCEPT !.served = TRUE] =>
            \A v \in (c.version + 1)..Len(writers) : writers[v] # c.load

\* An export without a scope is "left to the server's default scope"
\* (web/src/api/exportJob.ts:28).
NoScopeIsServersDefault ==
    exported.scope = None => exported.outcome # "refused"
==============================================================================
