----------------------------- MODULE UserAccounts ----------------------------
(***************************************************************************)
(* Users, their roles and the tokens that carry a role                     *)
(* (src/src/user/user.service.ts, src/src/auth).                           *)
(*                                                                         *)
(* A token is signed with the role its user had at login and renewed with  *)
(* the role it carries; the guards read it, and changing a role reads the  *)
(* database as well.                                                       *)
(***************************************************************************)
EXTENDS Integers, FiniteSets

CONSTANTS
    Callers,    \* requests in flight
    Users,      \* e-mail addresses
    MaxChanges  \* bound: writes of users

Roles == {"SuperAdmin", "Admin", "User"}

VARIABLES
    role,       \* user -> role in the database, "none" before signup
    access,     \* user -> role in the access token of their browser, "none" without one
    refresh,    \* user -> role in the refresh token
    caller,     \* request -> its locals and program counter
    changes,    \* history: writes of users so far
    held        \* history: user -> last write up to which they were SuperAdmin

vars == <<role, access, refresh, caller, changes, held>>

Idle == [at |-> "idle", kind |-> "none", actor |-> "none", target |-> "none",
         role |-> "none", began |-> 0]

At(c, place) == caller[c].at = place
Known == {u \in Users : role[u] # "none"}
SuperAdmins == {u \in Users : role[u] = "SuperAdmin"}

Goes(c, place) == caller' = [caller EXCEPT ![c].at = place]
Answers(c) == caller' = [caller EXCEPT ![c] = Idle]

\* Every write is numbered, and those who are SuperAdmin before or after it
\* have held that role until now.
Writes(u, newRole) ==
    /\ changes < MaxChanges
    /\ role' = [role EXCEPT ![u] = newRole]
    /\ changes' = changes + 1
    /\ held' = [v \in Users |-> IF "SuperAdmin" \in {role[v], role'[v]}
                                THEN changes' ELSE held[v]]

------------------------------------------------------------------------------
(* Sessions. *)

\* ROLE_HIERARCHY of the guard.
Satisfies(have, need) ==
    have \in (CASE need = "SuperAdmin" -> {"SuperAdmin"}
                [] need = "Admin" -> {"Admin", "SuperAdmin"}
                [] need = "User" -> Roles)

\* POST login finds the user, or refuses; the password is compared next.
Login(c, u) ==
    /\ At(c, "idle")
    /\ u \in Known
    /\ caller' = [caller EXCEPT ![c] =
          [Idle EXCEPT !.at = "password", !.kind = "login", !.actor = u,
                       !.role = role[u], !.began = changes]]
    /\ UNCHANGED <<role, access, refresh, changes, held>>

\* The password is right: both tokens carry the role found before.
Authenticate(c) ==
    /\ At(c, "password")
    /\ access' = [access EXCEPT ![caller[c].actor] = caller[c].role]
    /\ refresh' = [refresh EXCEPT ![caller[c].actor] = caller[c].role]
    /\ Answers(c)
    /\ UNCHANGED <<role, changes, held>>

\* The access token lives fifteen minutes.
Expire(u) ==
    /\ access[u] # "none"
    /\ access' = [access EXCEPT ![u] = "none"]
    /\ UNCHANGED <<role, refresh, caller, changes, held>>

\* POST refresh signs new tokens for the role of the old one, and asks nobody.
Refresh(u) ==
    /\ refresh[u] # "none"
    /\ access' = [access EXCEPT ![u] = refresh[u]]
    /\ UNCHANGED <<role, refresh, caller, changes, held>>

\* POST logout, or seven days without a refresh.
Logout(u) ==
    /\ refresh[u] # "none"
    /\ access' = [access EXCEPT ![u] = "none"]
    /\ refresh' = [refresh EXCEPT ![u] = "none"]
    /\ UNCHANGED <<role, caller, changes, held>>

------------------------------------------------------------------------------
(* Signup and roles. *)

\* POST users counts the users: the first one will be SuperAdmin.  The
\* password is hashed next.
Signup(c, u) ==
    /\ At(c, "idle")
    /\ caller' = [caller EXCEPT ![c] =
          [Idle EXCEPT !.at = "hash", !.kind = "signup", !.target = u, !.began = changes,
                       !.role = IF Known = {} THEN "SuperAdmin" ELSE "User"]]
    /\ UNCHANGED <<role, access, refresh, changes, held>>

\* The user is created unless the address is taken (P2002, CallFails).
CreateUser(c) ==
    /\ At(c, "hash")
    /\ role[caller[c].target] = "none"
    /\ Writes(caller[c].target, caller[c].role)
    /\ Answers(c)
    /\ UNCHANGED <<access, refresh>>

\* PATCH role, past the guard of the token's role.
ChangeRole(c, actor, target, newRole) ==
    /\ At(c, "idle")
    /\ access[actor] # "none" /\ Satisfies(access[actor], "SuperAdmin")
    /\ caller' = [caller EXCEPT ![c] =
          [at |-> "actor", kind |-> "role", actor |-> actor, target |-> target,
           role |-> newRole, began |-> changes]]
    /\ UNCHANGED <<role, access, refresh, changes, held>>

\* The actor must be SuperAdmin in the database too.
FindActor(c) ==
    /\ At(c, "actor")
    /\ IF role[caller[c].actor] = "SuperAdmin" THEN Goes(c, "target") ELSE Answers(c)
    /\ UNCHANGED <<role, access, refresh, changes, held>>

\* Mutant of FindTarget: SuperAdmins may step down.
FindTarget_SelfDemotes(c) ==
    /\ At(c, "target")
    /\ IF caller[c].target \in Known THEN Goes(c, "update") ELSE Answers(c)
    /\ UNCHANGED <<role, access, refresh, changes, held>>

\* The target must exist, and SuperAdmins do not demote themselves.
FindTarget(c) ==
    /\ At(c, "target")
    /\ IF /\ caller[c].target \in Known
          /\ caller[c].actor = caller[c].target => caller[c].role = "SuperAdmin"
       THEN Goes(c, "update") ELSE Answers(c)
    /\ UNCHANGED <<role, access, refresh, changes, held>>

\* The role is written.  Users are never deleted.
UpdateRole(c) ==
    /\ At(c, "update")
    /\ Writes(caller[c].target, caller[c].role)
    /\ Answers(c)
    /\ UNCHANGED <<access, refresh>>

\* The password is wrong, the address taken, a statement fails or the
\* process dies.
CallFails(c) ==
    /\ ~At(c, "idle")
    /\ Answers(c)
    /\ UNCHANGED <<role, access, refresh, changes, held>>

Init ==
    /\ role = [u \in Users |-> "none"]
    /\ access = [u \in Users |-> "none"]
    /\ refresh = [u \in Users |-> "none"]
    /\ caller = [c \in Callers |-> Idle]
    /\ changes = 0
    /\ held = [u \in Users |-> 0]

Next ==
    \/ \E c \in Callers :
          \/ \E u \in Users : Login(c, u) \/ Signup(c, u)
          \/ \E actor, target \in Users, newRole \in Roles : ChangeRole(c, actor, target, newRole)
          \/ Authenticate(c) \/ CreateUser(c) \/ FindActor(c) \/ FindTarget(c)
          \/ UpdateRole(c) \/ CallFails(c)
    \/ \E u \in Users : Expire(u) \/ Refresh(u) \/ Logout(u)

Spec == Init /\ [][Next]_vars

------------------------------------------------------------------------------
(* Properties. *)

\* The types of the variables.
TypeOK ==
    /\ {role, access, refresh} \subseteq [Users -> Roles \cup {"none"}]
    /\ changes \in 0..MaxChanges /\ held \in [Users -> 0..changes]
    /\ \A c \in Callers :
          /\ caller[c].at \in {"idle", "password", "hash", "actor", "target", "update"}
          /\ {caller[c].actor, caller[c].target} \subseteq Users \cup {"none"}
          /\ caller[c].role \in Roles \cup {"none"}
          /\ caller[c].began \in 0..changes

\* A token keeps a role its user has lost for as long as it is refreshed
\* (auth.controller.ts:255), yet it gives nobody a role: who changes one was
\* SuperAdmin in the database after their request began, and a signup makes a
\* SuperAdmin only if it began before there was any user (user.service.ts:243).
RolesFromSuperAdmins ==
    \A c \in Callers : ~At(c, "idle") /\ role' # role /\ caller'[c] # caller[c] =>
        IF caller[c].kind = "role"
        THEN held[caller[c].actor] > caller[c].began \/ caller[c].actor \in SuperAdmins
        ELSE caller[c].role = "SuperAdmin" => caller[c].began = 0

\* There is a SuperAdmin from the first signup on: the last one loses the role
\* only to a request whose actor lost it while the request ran
\* (user.service.ts:145).
SomeSuperAdmin ==
    (Known = {} \/ SuperAdmins # {}) /\ Known' # {} /\ SuperAdmins' = {} =>
        \E c \in Callers : /\ At(c, "update") /\ caller'[c] # caller[c]
                           /\ caller[c].actor \notin SuperAdmins
                           /\ held[caller[c].actor] > caller[c].began
==============================================================================
