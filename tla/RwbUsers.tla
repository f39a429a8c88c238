------------------------------ MODULE RwbUsers ------------------------------
(***************************************************************************)
(* The user administration of rwb/rwb.pl over the tables of rwb/rwb.sql.   *)
(*                                                                         *)
(* Every HTTP request is a process of its own.  It takes its user from the *)
(* session cookie, asks the database whether that user may do what is      *)
(* asked, and then changes the database.  Each of these statements opens   *)
(* its own connection and commits by itself (ExecSQL), so requests         *)
(* interleave between statements, and a connection can fail at any of them.*)
(*                                                                         *)
(* The cookie is what the client sends: it is compared with the database   *)
(* when a user logs in and never after that, so a request may carry any    *)
(* name, whoever sent it and whether or not there is such a user.  Logging *)
(* in and out change no table and are left out.                            *)
(*                                                                         *)
(* A user is its row in rwb_users, of which only the referer is kept; the  *)
(* other columns decide no more than whether a new row passes the checks   *)
(* on password and email.  Requests for a form (run = 0) change nothing.   *)
(***************************************************************************)
EXTENDS Naturals

CONSTANTS
    Names,         \* the user names a request may be about
    Callers,       \* those a cookie can hold: it is split at its first
                   \* slash, so a name that has one is never the caller's
    Permissions,   \* the rows of rwb_actions
    Processes,     \* requests the web server runs at the same time
    NoUser,        \* no row of that name in rwb_users
    Idle,          \* the process has no request
    MaxRequests    \* bound: requests in a behaviour

ASSUME UsersAssumption ==
    /\ {"root", "anon"} \subseteq Callers
    /\ Callers \subseteq Names
    /\ {"manage-users", "add-users"} \subseteq Permissions
    /\ NoUser \notin Names
    /\ MaxRequests \in Nat

VARIABLES
    referer,       \* rwb_users: [Names -> Names, or NoUser without a row]
    permitted,     \* rwb_permissions: pairs of a name and a permission
    request,       \* [Processes -> request or Idle]
    requests,      \* how many were made
    able           \* history: the processes whose user was, at some moment
                   \* of the request, allowed what the request asks for

tables == <<referer, permitted>>
vars == <<referer, permitted, request, requests, able>>

Acts == {"add-user", "register-user", "delete-user",
         "add-perm-user", "revoke-perm-user"}

Request == [act : Acts, user : Callers, name : Names, perm : Permissions,
            step : {"add-users", "manage-users", "run"}]

ASSUME RequestAssumption == Idle \notin Request

Users == {u \in Names : referer[u] # NoUser}

\* UserCan: the answer of one SELECT, or no when the database does not answer.
UserCanAnyway(u, p, answers) == answers => <<u, p>> \in permitted
UserCan(u, p, answers) == answers /\ <<u, p>> \in permitted

\* The first thing the handler of an act does; registering is open to all, and
\* a bug would make adding so.
FirstStepOpen(act) ==
    IF act \in {"add-user", "register-user"} THEN "run" ELSE "manage-users"
FirstStep(act) ==
    CASE act = "add-user" -> "add-users"
      [] act = "register-user" -> "run"
      [] OTHER -> "manage-users"

\* Which permissions allow an act; none is needed to register.
Allows(act) == IF act = "add-user" THEN {"add-users", "manage-users"}
                                   ELSE {"manage-users"}

Able(r) == r.act = "register-user" \/ \E p \in Allows(r.act) : <<r.user, p>> \in permitted'

\* The history: once a request, until it ends.
Observed ==
    able' = {p \in Processes :
                request'[p] # Idle /\ (p \in able \/ Able(request'[p]))}
-----------------------------------------------------------------------------
\* The constraints of rwb_users.  A row may refer to itself, in the statement
\* that adds it, only if it is root (sane_referer).
SaneRefererUnchecked(name, ref) == ref \in Users \cup {name}
SaneReferer(name, ref) == IF name = "root" THEN ref \in Users \cup {"root"}
                                           ELSE ref \in Users \ {name}

MayAdd(name, ref) == name \notin Users /\ SaneReferer(name, ref)

\* The row of a referer cannot go while another row refers to it.
Unreferred(name) == \A u \in Users \ {name} : referer[u] # name

\* A permission is given to a user.
MayGive(name) == name \in Users

\* "on delete cascade" of rwb_permissions.
KeptPermissions(name) == permitted
RemainingPermissions(name) == {r \in permitted : r[1] # name}

\* The page is printed, whatever the outcome.  (Logging in goes on with the
\* page of act=base instead; these acts do not.)
FinishAtBase(p) == request' = [request EXCEPT ![p].act = "base"]
Finish(p) == request' = [request EXCEPT ![p] = Idle]
GoTo(p, step) == request' = [request EXCEPT ![p].step = step]
-----------------------------------------------------------------------------
\* The rows rwb.sql inserts; of the permissions of root, those modelled.
Init ==
    /\ referer = [u \in Names |-> IF u \in {"root", "anon"} THEN "root" ELSE NoUser]
    /\ permitted = {"root"} \X Permissions
    /\ request = [p \in Processes |-> Idle]
    /\ requests = 0
    /\ able = {}

\* A request in the name of user: the part of its cookie before the slash, or
\* anon without a cookie.
Begin(p, act, user, name, perm) ==
    /\ request[p] = Idle
    /\ requests < MaxRequests
    /\ requests' = requests + 1
    /\ request' = [request EXCEPT ![p] = [act |-> act, user |-> user, name |-> name,
                                         perm |-> perm, step |-> FirstStep(act)]]
    /\ UNCHANGED tables

At(p, step) == request[p] # Idle /\ request[p].step = step

\* !UserCan($user,"add-users") && ...
CheckAdd(p, answers) ==
    /\ At(p, "add-users")
    /\ GoTo(p, IF UserCan(request[p].user, "add-users", answers) THEN "run"
                                                                 ELSE "manage-users")
    /\ UNCHANGED <<tables, requests>>

CheckManage(p, answers) ==
    /\ At(p, "manage-users")
    /\ IF UserCan(request[p].user, "manage-users", answers) THEN GoTo(p, "run")
                                                            ELSE Finish(p)
    /\ UNCHANGED <<tables, requests>>

\* The statement of the act commits.
Run(p, acts) ==
    /\ At(p, "run")
    /\ request[p].act \in acts
    /\ Finish(p)
    /\ UNCHANGED requests

\* The statement fails: no connection, or a constraint; a password that is too
\* short, an email that is malformed or taken, a permission held already...
RunFails(p) ==
    /\ Run(p, Acts)
    /\ UNCHANGED tables

UserAdd(p) ==
    LET r == request[p] IN
    /\ Run(p, {"add-user", "register-user"})
    /\ MayAdd(r.name, r.user)
    /\ referer' = [referer EXCEPT ![r.name] = r.user]
    /\ UNCHANGED permitted

UserDel(p) ==
    LET name == request[p].name IN
    /\ Run(p, {"delete-user"})
    /\ Unreferred(name)
    /\ referer' = [referer EXCEPT ![name] = NoUser]
    /\ permitted' = RemainingPermissions(name)

GiveUserPerm(p) ==
    LET r == request[p] IN
    /\ Run(p, {"add-perm-user"})
    /\ MayGive(r.name)
    /\ permitted' = permitted \cup {<<r.name, r.perm>>}
    /\ UNCHANGED referer

RevokeUserPerm(p) ==
    LET r == request[p] IN
    /\ Run(p, {"revoke-perm-user"})
    /\ permitted' = permitted \ {<<r.name, r.perm>>}
    /\ UNCHANGED referer

Statements(p) ==
    \/ \E answers \in BOOLEAN : CheckAdd(p, answers) \/ CheckManage(p, answers)
    \/ RunFails(p)
    \/ UserAdd(p)
    \/ UserDel(p)
    \/ GiveUserPerm(p)
    \/ RevokeUserPerm(p)

Next ==
    /\ \E p \in Processes :
          \/ \E act \in Acts, user \in Callers, name \in Names, perm \in Permissions :
                Begin(p, act, user, name, perm)
          \/ Statements(p)
    /\ Observed

Spec == Init /\ [][Next]_vars
-----------------------------------------------------------------------------
\* Every variable has its type.
TypeOK ==
    /\ referer \in [Names -> Names \cup {NoUser}]
    /\ permitted \subseteq Names \X Permissions
    /\ request \in [Processes -> Request \cup {Idle}]
    /\ requests \in 0..MaxRequests
    /\ able \subseteq Processes

\* Following the referers from any user leads to root: a referer is a user, and
\* users that refer only to each other include root.  In particular root is the
\* last that can be deleted.  The constraints on rwb_users promise only what
\* one row may say about another; the rest follows from the order of insertions.
ReferralsLeadToRoot ==
    /\ \A u \in Users : referer[u] \in Users
    /\ \A S \in SUBSET Users :
          S # {} /\ (\A u \in S : referer[u] \in S) => "root" \in S

\* Permissions belong to users: whatever requests cross each other, who is
\* added under the name of a deleted user inherits nothing.
PermissionsHaveUsers == \A grant \in permitted : grant[1] \in Users

\* The request of p asks for this act, and ends with this step.
Ends(p, act) == request[p].act = act /\ request'[p] = Idle

\* A permission is given, or taken, or a user deleted, only by a request that
\* asks for this permission and this user, and that carries the name of one
\* who was a manager at some moment of the request.  (Not: who is one now; the
\* check and the change are two transactions.  Nor: who sent it; nothing tells
\* who that is.)
OnlyManagersManage ==
    [][ /\ \A grant \in permitted' \ permitted :
              \E p \in able : /\ Ends(p, "add-perm-user")
                               /\ grant = <<request[p].name, request[p].perm>>
        /\ \A grant \in permitted \ permitted' :
              \E p \in able : \/ /\ Ends(p, "revoke-perm-user")
                                  /\ grant = <<request[p].name, request[p].perm>>
                               \/ /\ Ends(p, "delete-user")
                                  /\ grant[1] = request[p].name
        /\ \A u \in Users : referer'[u] = NoUser =>
              \E p \in able : Ends(p, "delete-user") /\ request[p].name = u ]_vars

\* A user is added only by a request for that user which carries the name of
\* the referer it gets, and registers it or was at some moment allowed to add
\* users; and as long as the user is there its referer does not change.
ReferersMayAdd ==
    [][ \A u \in Names : referer'[u] \notin {referer[u], NoUser} =>
            /\ u \notin Users
            /\ \E p \in able :
                  /\ Ends(p, "add-user") \/ Ends(p, "register-user")
                  /\ request[p].name = u /\ request[p].user = referer'[u] ]_vars

\* rwb.sql:47-48, "Except for the root user and the nobody users, a user must be
\* validated by an existing user (but not nobody)".  Registering without a
\* cookie makes anon the referer.
ValidatedBySomebody ==
    \A u \in Users \ {"root", "anon"} : referer[u] \in Users \ {"anon"}
=============================================================================
