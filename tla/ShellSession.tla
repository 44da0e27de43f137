----------------------------- MODULE ShellSession -----------------------------
(***************************************************************************)
(* The session of the page (web/src/AppShell.tsx, AuthGate.tsx) and the    *)
(* cookies it rests on.  The shell keeps a view and a user of its own, and *)
(* the gate inside it keeps whether it lets in; effects ask the server who *)
(* is logged in and whether an evaluation runs, and are cancelled when     *)
(* what they depend on changes.  Every request that is refused, a login    *)
(* with a wrong password among them, asks for new cookies first and is     *)
(* sent once more (web/src/api/apiClient.ts); logging out and making an    *)
(* account are never refused.  A request carries the cookies of the moment *)
(* it is sent, and an answer sets cookies when it arrives.                 *)
(***************************************************************************)
EXTENDS Naturals, FiniteSets

CONSTANTS
    Users,
    MaxEvents   \* bound: logins, logouts, set-ups, expiries and polls, all together

None == "none"

VARIABLES
    view,      \* "login", "setup", "dashboard" or "admin"
    user,      \* currentUser
    attempted, \* restoreAttempted
    loadRan,   \* the effect that loads the user has run for this view and user
    banner,    \* evaluationInProgress
    gate,      \* AuthGate: not mounted ("none"), its "form", or "inside"
    access,    \* the access cookie: a user or None, and whether it is accepted
    refresh,   \* the refresh cookie
    requests,  \* on their way
    signedIn,  \* history: who logged in last, None after a logout
    mishaps,   \* history, since the latest login or logout: the logout left the
               \* cookies ("kept"), older cookies came in ("late"), the login was
               \* answered when the page was inside already ("crossed") or when
               \* its form was gone ("stray"), a set-up was answered inside and
               \* led out ("ousted", which a logout keeps)
    events

vars == <<view, user, attempted, loadRan, banner, gate, access, refresh, requests,
          signedIn, mishaps, events>>

IsAuthedView(v) == v \in {"dashboard", "admin"}
ShouldLoadCurrentUser == IsAuthedView(view) /\ user = None
\* Mutant of ShouldRestoreSession: it is tried again and again.
ShouldRestoreSession_Again == view = "login" /\ user = None

ShouldRestoreSession == view = "login" /\ ~attempted /\ user = None

\* A request: what for, whether what sent it still wants the answer, how far it
\* has come, whom the cookies it was sent with belong to, and, of a login, who
\* logs in.
Sent(what) ==
    [what |-> what, wanted |-> TRUE, at |-> "sent",
     as |-> IF access.live THEN access.user ELSE None, who |-> None]

Init ==
    /\ view = "login" /\ user = None
    /\ attempted = FALSE /\ loadRan = FALSE /\ banner = FALSE
    /\ gate = "form"
    /\ \E u \in Users \cup {None} :
          /\ access = [user |-> u, live |-> u # None]
          /\ refresh = u /\ signedIn = u
    /\ requests = {}
    /\ mishaps = {}
    /\ events = 0

\* What the cleanup of an effect cancels, its dependencies changed, when the
\* state becomes v, u, a; and the form of a login is gone when the gate is made
\* anew or mounts or goes.
Cancelled(what, v, u, a, anew) ==
    CASE what = "restore" -> <<v, a, u>> # <<view, attempted, user>>
      [] what = "load" -> <<v, u>> # <<view, user>>
      [] what = "poll" -> v # view
      [] what = "login" -> anew \/ (v = "setup") # (view = "setup")
      [] OTHER -> FALSE

\* Mutant of Becomes: no request is cancelled.
Becomes_Uncancelled(v, u, a, anew, rs) ==
    /\ view' = v /\ user' = u /\ attempted' = a
    /\ requests' = rs
    /\ loadRan' = (loadRan /\ view = v /\ user = u)
    /\ banner' = (banner /\ IsAuthedView(v))

\* The state becomes v, u, a, perhaps with the gate made anew (sessionEpoch); the
\* requests rs stay on their way.
Becomes(v, u, a, anew, rs) ==
    /\ view' = v /\ user' = u /\ attempted' = a
    /\ requests' = {[r EXCEPT !.wanted = @ /\ ~Cancelled(r.what, v, u, a, anew)] : r \in rs}
    /\ loadRan' = (loadRan /\ view = v /\ user = u)
    /\ banner' = (banner /\ IsAuthedView(v))

\* A gate that mounts lets in if the view is one of those inside.
GateAfter(v, anew) ==
    CASE v = "setup" -> "none"
      [] v # "setup" /\ (anew \/ view = "setup") -> IF IsAuthedView(v) THEN "inside" ELSE "form"
      [] OTHER -> gate

StartRestore ==
    /\ ShouldRestoreSession
    /\ ~\E r \in requests : r.what = "restore" /\ r.wanted
    /\ requests' = requests \cup {Sent("restore")}
    /\ UNCHANGED <<view, user, attempted, loadRan, banner, gate, access, refresh,
                   signedIn, mishaps, events>>

StartLoad ==
    /\ ShouldLoadCurrentUser /\ ~loadRan
    /\ loadRan' = TRUE
    /\ requests' = requests \cup {Sent("load")}
    /\ UNCHANGED <<view, user, attempted, banner, gate, access, refresh, signedIn,
                   mishaps, events>>

\* A tick of the timer, or the tab becoming visible.
Poll ==
    /\ IsAuthedView(view) /\ events < MaxEvents
    /\ events' = events + 1
    /\ requests' = requests \cup {Sent("poll")}
    /\ UNCHANGED <<view, user, attempted, loadRan, banner, gate, access, refresh,
                   signedIn, mishaps>>

\* The answer to a request that was refused, because its cookies are or its
\* password is: ask for new cookies, once.
Refused(r) ==
    /\ r.at = "sent"
    /\ r.what = "login" \/ (r.as = None /\ r.what \in {"restore", "load", "poll"})
    /\ requests' = (requests \ {r}) \cup {[r EXCEPT !.at = "refreshing", !.as = refresh]}
    /\ UNCHANGED <<view, user, attempted, loadRan, banner, gate, access, refresh,
                   signedIn, mishaps, events>>

\* The answer with new cookies sets them, whoever is logged in by now, and the
\* request is sent again.
Refreshed(r) ==
    /\ r.at = "refreshing" /\ r.as # None
    /\ access' = [user |-> r.as, live |-> TRUE]
    /\ refresh' = r.as
    /\ requests' = (requests \ {r}) \cup {[r EXCEPT !.at = "resent"]}
    /\ mishaps' = IF r.as = signedIn THEN mishaps ELSE mishaps \cup {"late"}
    /\ UNCHANGED <<view, user, attempted, loadRan, banner, gate, signedIn, events>>

Answers(r) == r.as # None /\ r.at \in {"sent", "resent"}

\* A restore that finds a session enters the default view; one that does not,
\* or fails, is not tried again.
Restored(r) ==
    /\ r.what = "restore" /\ Answers(r)
    /\ IF r.wanted
       THEN /\ Becomes("dashboard", r.as, TRUE, TRUE, requests \ {r})
            /\ gate' = GateAfter("dashboard", TRUE)
       ELSE Becomes(view, user, attempted, FALSE, requests \ {r}) /\ UNCHANGED gate
    /\ UNCHANGED <<access, refresh, signedIn, mishaps, events>>

Loaded(r) ==
    /\ r.what = "load" /\ Answers(r)
    /\ Becomes(view, IF r.wanted THEN r.as ELSE user, attempted, FALSE, requests \ {r})
    /\ UNCHANGED <<gate, access, refresh, signedIn, mishaps, events>>

Polled(r) ==
    /\ r.what = "poll" /\ Answers(r)
    /\ requests' = requests \ {r}
    /\ \E active \in BOOLEAN : banner' = IF r.wanted THEN active ELSE banner
    /\ UNCHANGED <<view, user, attempted, loadRan, gate, access, refresh, signedIn,
                   mishaps, events>>

\* No session, or no answer.
RequestFails(r) ==
    /\ r.what \in {"restore", "load", "poll"}
    /\ IF r.what = "poll"
       THEN /\ requests' = requests \ {r}
            /\ banner' = (banner /\ ~r.wanted)
            /\ UNCHANGED <<view, user, attempted, loadRan>>
       ELSE Becomes(view, user, attempted \/ (r.what = "restore" /\ r.wanted), FALSE,
                    requests \ {r})
    /\ UNCHANGED <<gate, access, refresh, signedIn, mishaps, events>>

------------------------------------------------------------------------------
(* The user *)

\* The login form sends a password, one at a time.
Login(u) ==
    /\ gate = "form" /\ events < MaxEvents
    /\ ~\E r \in requests : r.what = "login" /\ r.wanted
    /\ events' = events + 1
    /\ requests' = requests \cup {[Sent("login") EXCEPT !.as = None, !.who = u]}
    /\ UNCHANGED <<view, user, attempted, loadRan, banner, gate, access, refresh,
                   signedIn, mishaps>>

\* The answer sets cookies and the view, even if the form is gone by then; a
\* form that is still there lets in.
HandleAuthenticated(r) ==
    /\ r.what = "login" /\ r.at \in {"sent", "resent"}
    /\ access' = [user |-> r.who, live |-> TRUE] /\ refresh' = r.who
    /\ signedIn' = r.who
    /\ mishaps' = (IF user = None /\ ~IsAuthedView(view) THEN {} ELSE {"crossed"}) \cup
                   (IF r.wanted THEN {} ELSE {"stray"})
    /\ gate' = IF r.wanted THEN "inside" ELSE GateAfter("dashboard", FALSE)
    /\ Becomes("dashboard", user, attempted, FALSE, requests \ {r})
    /\ UNCHANGED events

\* The password stays wrong, there were no new cookies, or no answer came.
LoginFails(r) ==
    /\ r.what = "login"
    /\ requests' = requests \ {r}
    /\ UNCHANGED <<view, user, attempted, loadRan, banner, gate, access, refresh,
                   signedIn, mishaps, events>>

\* Logging out waits for the server, and ends the page's session whether or
\* not the server was reached.
Logout ==
    /\ gate = "inside" /\ IsAuthedView(view) /\ events < MaxEvents
    /\ events' = events + 1
    /\ requests' = requests \cup {Sent("logout")}
    /\ UNCHANGED <<view, user, attempted, loadRan, banner, gate, access, refresh,
                   signedIn, mishaps>>

\* The server's answer to a logout.
ClearCookies == access' = [user |-> None, live |-> FALSE] /\ refresh' = None

HandleLogout(r) ==
    /\ r.what = "logout"
    /\ \E cleared \in BOOLEAN :
          /\ IF cleared
             THEN ClearCookies
             ELSE UNCHANGED <<access, refresh>>
          /\ mishaps' = (IF signedIn = None THEN mishaps ELSE mishaps \cap {"ousted"}) \cup
                         (IF cleared THEN {} ELSE {"kept"})
    /\ signedIn' = None
    /\ gate' = GateAfter("login", TRUE)
    /\ Becomes("login", None, attempted, TRUE, requests \ {r})
    /\ UNCHANGED events

\* Another view, among those the user may see.
Navigate(v) ==
    /\ gate = "inside" /\ v # view
    /\ Becomes(v, user, attempted, FALSE, requests)
    /\ UNCHANGED <<gate, access, refresh, signedIn, mishaps, events>>

\* The set-up form; the button is under the gate, whatever that shows.
EnterSetup ==
    /\ view = "login"
    /\ gate' = GateAfter("setup", FALSE)
    /\ Becomes("setup", user, attempted, FALSE, requests)
    /\ UNCHANGED <<access, refresh, signedIn, mishaps, events>>

\* It makes the account, one at a time, and goes back once that is made,
\* whatever is shown by then.
SubmitSetup ==
    /\ view = "setup" /\ events < MaxEvents
    /\ ~\E r \in requests : r.what = "setup"
    /\ events' = events + 1
    /\ requests' = requests \cup {[Sent("setup") EXCEPT !.as = None]}
    /\ UNCHANGED <<view, user, attempted, loadRan, banner, gate, access, refresh,
                   signedIn, mishaps>>

HandleSetupSubmit(r) ==
    /\ r.what = "setup"
    /\ \/ /\ gate' = GateAfter("login", FALSE)
          /\ mishaps' = IF IsAuthedView(view) THEN mishaps \cup {"ousted"} ELSE mishaps
          /\ Becomes("login", user, attempted, FALSE, requests \ {r})
       \* It was not made.
       \/ /\ requests' = requests \ {r}
          /\ UNCHANGED <<view, user, attempted, loadRan, banner, gate, mishaps>>
    /\ UNCHANGED <<access, refresh, signedIn, events>>

\* The access cookie is no longer accepted.
Expire ==
    /\ access.live /\ events < MaxEvents
    /\ events' = events + 1
    /\ access' = [access EXCEPT !.live = FALSE]
    /\ UNCHANGED <<view, user, attempted, loadRan, banner, gate, refresh, requests,
                   signedIn, mishaps>>

Next ==
    \/ StartRestore \/ StartLoad \/ Poll
    \/ \E r \in requests :
          \/ Refused(r) \/ Refreshed(r)
          \/ Restored(r) \/ Loaded(r) \/ Polled(r) \/ RequestFails(r)
          \/ HandleAuthenticated(r) \/ LoginFails(r) \/ HandleLogout(r)
          \/ HandleSetupSubmit(r)
    \/ \E u \in Users : Login(u)
    \/ Logout
    \/ \E v \in {"dashboard", "admin"} : Navigate(v)
    \/ EnterSetup \/ SubmitSetup
    \/ Expire

Spec == Init /\ [][Next]_vars

------------------------------------------------------------------------------
(* Properties *)

TypeOK ==
    /\ view \in {"login", "setup", "dashboard", "admin"}
    /\ gate \in {"none", "form", "inside"}
    /\ user \in Users \cup {None} /\ signedIn \in Users \cup {None}
    /\ {attempted, loadRan, banner} \subseteq BOOLEAN
    /\ mishaps \subseteq {"kept", "late", "crossed", "stray", "ousted"}
    /\ access.user \in Users \cup {None} /\ refresh \in Users \cup {None}
    /\ events \in 0..MaxEvents

\* The shell shows the user who logged in last, or none yet; an answer about
\* whoever was logged in before comes in only with their cookies, or before
\* the answer to a login that was under way.
UserIsOfSession == user # None /\ user # signedIn => mishaps # {}

\* So do the cookies, and so does what the page goes on to do in their name.
CookiesAreOfSession ==
    refresh # None /\ refresh # signedIn => mishaps \cap {"kept", "late"} # {}

\* The gate lets in exactly to the views inside, unless the answer to a login
\* whose form was gone, or to a set-up, came in between.
GateIsOfView ==
    (gate = "inside") # IsAuthedView(view) => mishaps \cap {"stray", "ousted"} # {}

\* Who leaves is let in again without a password only if the answer to the
\* restore at boot was never waited for, and their cookies outlived the logout
\* or a set-up had led out of the page before it.
In == gate = "inside" \/ IsAuthedView(view)

LetInByTwoMishaps ==
    signedIn = None /\ ~In /\ In' /\ signedIn' = None
        => ~attempted /\ mishaps \cap {"kept", "late", "ousted"} # {}

\* Nobody who is logged out is told of a running evaluation.
BannerOnlyInside == banner => IsAuthedView(view)
==============================================================================
