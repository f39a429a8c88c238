--------------------------- MODULE RwbUsersProofs ---------------------------
(***************************************************************************)
(* Proofs about RwbUsers, for any names, permissions, number of requests   *)
(* at a time and bound on requests.                                        *)
(*                                                                         *)
(* The tables change in four actions only (TableSteps), which is all that  *)
(* the invariants of the tables need.  That an act was allowed follows     *)
(* from the request: a process that is about to run its statement is able  *)
(* (RunnersAreAble), since the check that sent it there saw the permission *)
(* of a kind that allows the act (AddersAsk, for the first of two checks). *)
(* OnlyManagersManage and ReferersMayAdd follow from that.                 *)
(***************************************************************************)
EXTENDS RwbUsers, TLAPS

RunnersAreAble ==
    \A p \in Processes : At(p, "run") => p \in able

AddersAsk ==
    \A p \in Processes : At(p, "add-users") => request[p].act = "add-user"

-----------------------------------------------------------------------------
(* What a process does with its request. *)

\* A first step is a step.
LEMMA FirstStepType ==
    \A act \in Acts : FirstStep(act) \in {"add-users", "manage-users", "run"}
BY DEF Acts, FirstStep

\* A request keeps everything but its step.
LEMMA GoToType ==
    ASSUME TypeOK, NEW p \in Processes, request[p] # Idle,
           NEW step \in {"add-users", "manage-users", "run"}, GoTo(p, step)
    PROVE  /\ request' \in [Processes -> Request \cup {Idle}]
           /\ request'[p] \in Request
           /\ request'[p].step = step
           /\ request'[p].act = request[p].act
           /\ request'[p].user = request[p].user
           /\ \A q \in Processes \ {p} : request'[q] = request[q]
BY DEF TypeOK, GoTo, Request

LEMMA FinishType ==
    ASSUME TypeOK, NEW p \in Processes, Finish(p)
    PROVE  /\ request' \in [Processes -> Request \cup {Idle}]
           /\ request'[p] = Idle
           /\ \A q \in Processes \ {p} : request'[q] = request[q]
BY DEF TypeOK, Finish

-----------------------------------------------------------------------------
\* The type invariant, for every value of the constants.
THEOREM UsersTypeCorrect == Spec => []TypeOK
<1>1. Init => TypeOK
  BY UsersAssumption DEF Init, TypeOK
<1>2. TypeOK /\ [Next]_vars => TypeOK'
  <2> SUFFICES ASSUME TypeOK, [Next]_vars
               PROVE  TypeOK'
    OBVIOUS
  <2> USE UsersAssumption
  <2>0. CASE UNCHANGED vars
    BY <2>0 DEF TypeOK, vars, tables
  <2> SUFFICES ASSUME Next
               PROVE  TypeOK'
    BY <2>0
  <2>1. able' \subseteq Processes
    BY DEF Next, Observed
  <2>3. ASSUME NEW p \in Processes, NEW act \in Acts, NEW u \in Callers,
               NEW name \in Names, NEW perm \in Permissions,
               Begin(p, act, u, name, perm)
        PROVE  TypeOK'
    <3>1. request' = [request EXCEPT ![p] = [act |-> act, user |-> u, name |-> name,
                                             perm |-> perm, step |-> FirstStep(act)]]
      BY <2>3 DEF Begin
    <3>2. [act |-> act, user |-> u, name |-> name, perm |-> perm, step |-> FirstStep(act)]
             \in Request
      BY FirstStepType DEF Request, TypeOK
    <3>3. request' \in [Processes -> Request \cup {Idle}]
      BY <3>1, <3>2 DEF TypeOK
    <3> QED
      BY <2>1, <2>3, <3>3 DEF Begin, tables, TypeOK
  <2>4. ASSUME NEW p \in Processes, NEW answers \in BOOLEAN,
               CheckAdd(p, answers) \/ CheckManage(p, answers)
        PROVE  TypeOK'
    <3>1. request[p] # Idle
      BY <2>4 DEF CheckAdd, CheckManage, At
    <3>2. \/ GoTo(p, "run") \/ GoTo(p, "manage-users") \/ Finish(p)
      BY <2>4 DEF CheckAdd, CheckManage
    <3>3. request' \in [Processes -> Request \cup {Idle}]
      BY <3>1, <3>2, GoToType, FinishType
    <3> QED
      BY <2>1, <2>4, <3>3 DEF CheckAdd, CheckManage, tables, TypeOK
  <2>5. ASSUME NEW p \in Processes,
               RunFails(p) \/ UserAdd(p) \/ UserDel(p) \/ GiveUserPerm(p) \/ RevokeUserPerm(p)
        PROVE  TypeOK'
    <3>1. PICK acts : Run(p, acts)
      BY <2>5 DEF RunFails, UserAdd, UserDel, GiveUserPerm, RevokeUserPerm
    <3>2. /\ request' \in [Processes -> Request \cup {Idle}]
          /\ UNCHANGED requests
      BY <3>1, FinishType DEF Run
    <3>3. request[p] \in Request
      BY <3>1 DEF Run, At, TypeOK
    <3>4. referer' \in [Names -> Names \cup {NoUser}] /\ permitted' \subseteq Names \X Permissions
      BY <2>5, <3>3 DEF RunFails, UserAdd, UserDel, GiveUserPerm, RevokeUserPerm,
         RemainingPermissions, Request, tables, TypeOK
    <3> QED
      BY <2>1, <3>2, <3>4 DEF TypeOK
  <2> QED
    BY <2>3, <2>4, <2>5 DEF Next, Statements
<1> QED
  BY <1>1, <1>2, PTL DEF Spec

-----------------------------------------------------------------------------
\* The tables change in these steps only.
LEMMA TableSteps ==
    ASSUME [Next]_vars
    PROVE  \/ UNCHANGED tables
           \/ \E p \in Processes :
                 UserAdd(p) \/ UserDel(p) \/ GiveUserPerm(p) \/ RevokeUserPerm(p)
<1>1. CASE UNCHANGED vars
  BY <1>1 DEF vars, tables
<1>3. ASSUME NEW p \in Processes, NEW act \in Acts, NEW u \in Callers,
             NEW name \in Names, NEW perm \in Permissions,
             Begin(p, act, u, name, perm)
      PROVE  UNCHANGED tables
  BY <1>3 DEF Begin
<1>4. ASSUME NEW p \in Processes, NEW answers \in BOOLEAN,
             CheckAdd(p, answers) \/ CheckManage(p, answers)
      PROVE  UNCHANGED tables
  BY <1>4 DEF CheckAdd, CheckManage
<1>5. ASSUME NEW p \in Processes, RunFails(p)
      PROVE  UNCHANGED tables
  BY <1>5 DEF RunFails
<1> QED
  BY <1>1, <1>3, <1>4, <1>5 DEF Next, Statements

-----------------------------------------------------------------------------
\* Adding a user: the row refers to a user, or is root and refers to itself.
LEMMA AddedReferrals ==
    ASSUME TypeOK, ReferralsLeadToRoot, NEW p \in Processes, UserAdd(p)
    PROVE  ReferralsLeadToRoot'
<1> DEFINE name == request[p].name
           ref == request[p].user
<1>0. name \in Names /\ ref \in Names
  BY UsersAssumption DEF UserAdd, Run, At, TypeOK, Request
<1>1. /\ referer' = [referer EXCEPT ![name] = ref]
      /\ name \notin Users
      /\ IF name = "root" THEN ref \in Users \cup {"root"} ELSE ref \in Users \ {name}
  BY DEF UserAdd, MayAdd, SaneReferer
<1> HIDE DEF name, ref
<1>2. Users' = Users \cup {name}
  BY <1>0, <1>1, UsersAssumption DEF TypeOK, Users
<1>3. \A u \in Users : referer'[u] = referer[u] /\ referer'[u] \in Users
  BY <1>1 DEF TypeOK, ReferralsLeadToRoot, Users
<1>4. referer'[name] = ref
  BY <1>0, <1>1 DEF TypeOK
<1>5. \A u \in Users' : referer'[u] \in Users'
  BY <1>1, <1>2, <1>3, <1>4
<1>6. ASSUME NEW S \in SUBSET Users', S # {}, \A u \in S : referer'[u] \in S
      PROVE  "root" \in S
  <2>1. CASE name = "root" /\ name \in S
    BY <2>1
  <2>2. CASE name \notin S
    <3>1. S \subseteq Users
      BY <2>2, <1>2
    <3>2. \A u \in S : referer[u] \in S
      BY <3>1, <1>3, <1>6
    <3> QED
      BY <3>1, <3>2, <1>6 DEF ReferralsLeadToRoot
  <2>3. CASE name # "root" /\ name \in S
    <3> DEFINE T == S \ {name}
    <3>1. T \subseteq Users
      BY <1>2
    <3>2. ref \in T
      BY <2>3, <1>1, <1>4, <1>6
    <3>3. \A u \in T : referer[u] \in T
      BY <3>1, <1>1, <1>3, <1>6
    <3>4. "root" \in T
      BY <3>1, <3>2, <3>3 DEF ReferralsLeadToRoot
    <3> QED
      BY <3>4
  <2> QED
    BY <2>1, <2>2, <2>3
<1> QED
  BY <1>5, <1>6 DEF ReferralsLeadToRoot

\* Deleting a user: no other row refers to it.
LEMMA DeletedReferrals ==
    ASSUME TypeOK, ReferralsLeadToRoot, NEW p \in Processes, UserDel(p)
    PROVE  ReferralsLeadToRoot'
<1> DEFINE name == request[p].name
<1>0. name \in Names
  BY DEF UserDel, Run, At, TypeOK, Request
<1>1. /\ referer' = [referer EXCEPT ![name] = NoUser]
      /\ \A u \in Users \ {name} : referer[u] # name
  BY DEF UserDel, Unreferred
<1> HIDE DEF name
<1>2. Users' = Users \ {name}
  BY <1>0, <1>1, UsersAssumption DEF TypeOK, Users
<1>3. \A u \in Users' : referer'[u] = referer[u] /\ referer[u] \in Users'
  BY <1>1, <1>2 DEF TypeOK, ReferralsLeadToRoot, Users
<1>4. ASSUME NEW S \in SUBSET Users', S # {}, \A u \in S : referer'[u] \in S
      PROVE  "root" \in S
  <2>1. S \subseteq Users /\ \A u \in S : referer[u] \in S
    BY <1>2, <1>3, <1>4
  <2> QED
    BY <2>1, <1>4 DEF ReferralsLeadToRoot
<1> QED
  BY <1>3, <1>4 DEF ReferralsLeadToRoot

\* Referers always lead to root, so that root is the last user to go.
THEOREM EveryReferralLeadsToRoot == Spec => []ReferralsLeadToRoot
<1>1. Init => ReferralsLeadToRoot
  <2> SUFFICES ASSUME Init
               PROVE  ReferralsLeadToRoot
    OBVIOUS
  <2>1. \A u \in Users : referer[u] = "root"
    BY DEF Init, Users
  <2>2. "root" \in Users
    BY UsersAssumption DEF Init, Users
  <2> QED
    BY <2>1, <2>2 DEF ReferralsLeadToRoot
<1>2. TypeOK /\ ReferralsLeadToRoot /\ [Next]_vars => ReferralsLeadToRoot'
  <2> SUFFICES ASSUME TypeOK, ReferralsLeadToRoot, [Next]_vars
               PROVE  ReferralsLeadToRoot'
    OBVIOUS
  <2>1. CASE UNCHANGED referer
    BY <2>1 DEF ReferralsLeadToRoot, Users
  <2>2. CASE \E p \in Processes : UserAdd(p)
    BY <2>2, AddedReferrals
  <2>3. CASE \E p \in Processes : UserDel(p)
    BY <2>3, DeletedReferrals
  <2> QED
    BY <2>1, <2>2, <2>3, TableSteps DEF tables, GiveUserPerm, RevokeUserPerm
<1> QED
  BY <1>1, <1>2, UsersTypeCorrect, PTL DEF Spec

-----------------------------------------------------------------------------
\* The permissions of the table are those of users, whatever requests cross.
THEOREM OnlyUsersHavePermissions == Spec => []PermissionsHaveUsers
<1>1. Init => PermissionsHaveUsers
  BY UsersAssumption DEF Init, PermissionsHaveUsers, Users
<1>2. TypeOK /\ PermissionsHaveUsers /\ [Next]_vars => PermissionsHaveUsers'
  <2> SUFFICES ASSUME TypeOK, PermissionsHaveUsers, [Next]_vars
               PROVE  PermissionsHaveUsers'
    OBVIOUS
  <2>0. \A grant \in permitted : grant[1] \in Names
    BY DEF TypeOK
  <2>1. CASE UNCHANGED tables
    BY <2>1 DEF tables, PermissionsHaveUsers, Users
  <2>2. ASSUME NEW p \in Processes, UserAdd(p)
        PROVE  PermissionsHaveUsers'
    <3>1. request[p].user \in Names
      BY <2>2, UsersAssumption DEF UserAdd, Run, At, TypeOK, Request
    <3> QED
      BY <2>2, <3>1, UsersAssumption
      DEF UserAdd, PermissionsHaveUsers, Users, TypeOK
  <2>3. ASSUME NEW p \in Processes, UserDel(p)
        PROVE  PermissionsHaveUsers'
    BY <2>3 DEF UserDel, RemainingPermissions, PermissionsHaveUsers, Users, TypeOK
  <2>4. ASSUME NEW p \in Processes, GiveUserPerm(p)
        PROVE  PermissionsHaveUsers'
    BY <2>4 DEF GiveUserPerm, MayGive, PermissionsHaveUsers, Users
  <2>5. ASSUME NEW p \in Processes, RevokeUserPerm(p)
        PROVE  PermissionsHaveUsers'
    BY <2>5 DEF RevokeUserPerm, PermissionsHaveUsers, Users
  <2> QED
    BY <2>1, <2>2, <2>3, <2>4, <2>5, TableSteps
<1> QED
  BY <1>1, <1>2, UsersTypeCorrect, PTL DEF Spec

-----------------------------------------------------------------------------
\* A process that leaves its request alone stays as able as it was.
LEMMA StaysAble ==
    ASSUME RunnersAreAble, AddersAsk, Observed, NEW q \in Processes,
           request'[q] = request[q]
    PROVE  /\ At(q, "run")' => q \in able'
           /\ At(q, "add-users")' => request'[q].act = "add-user"
BY DEF RunnersAreAble, AddersAsk, Observed, At

\* A process whose request could have run already, or is idle, needs no check.
LEMMA BecomesAble ==
    ASSUME Observed, NEW p \in Processes, request'[p] # Idle, Able(request'[p])
    PROVE  p \in able'
BY DEF Observed

\* A process is sent to its statement by a check that saw the permission.
LEMMA CheckedIsAble ==
    ASSUME TypeOK, AddersAsk, NEW p \in Processes, NEW answers \in BOOLEAN,
           CheckAdd(p, answers) \/ CheckManage(p, answers), At(p, "run")'
    PROVE  Able(request'[p])
<1> DEFINE r == request[p]
<1>1. r # Idle /\ r \in Request /\ permitted' = permitted
  BY DEF CheckAdd, CheckManage, At, tables, TypeOK
<1>2. CASE CheckAdd(p, answers)
  <2>1. GoTo(p, "run") \/ GoTo(p, "manage-users")
    BY <1>2 DEF CheckAdd
  <2>2. request'[p].act = r.act /\ request'[p].user = r.user
    BY <2>1, <1>1, GoToType
  <2>3. <<r.user, "add-users">> \in permitted
    <3>1. CASE UserCan(r.user, "add-users", answers)
      BY <3>1 DEF UserCan
    <3>2. CASE ~UserCan(r.user, "add-users", answers)
      <4>1. GoTo(p, "manage-users")
        BY <3>2, <1>2 DEF CheckAdd
      <4>2. request'[p].step = "manage-users"
        BY <4>1, <1>1, GoToType
      <4> QED
        BY <4>2 DEF At
    <3> QED
      BY <3>1, <3>2
  <2>4. r.act = "add-user"
    BY <1>2 DEF CheckAdd, AddersAsk
  <2>5. "add-users" \in Allows("add-user")
    BY DEF Allows
  <2> QED
    BY <2>2, <2>3, <2>4, <2>5, <1>1 DEF Able
<1>3. CASE CheckManage(p, answers)
  <2>1. GoTo(p, "run") /\ <<r.user, "manage-users">> \in permitted
    <3>1. CASE UserCan(r.user, "manage-users", answers)
      BY <3>1, <1>3 DEF UserCan, CheckManage
    <3>2. CASE ~UserCan(r.user, "manage-users", answers)
      <4>1. request'[p] = Idle
        BY <3>2, <1>3, FinishType DEF CheckManage
      <4> QED
        BY <4>1 DEF At
    <3> QED
      BY <3>1, <3>2
  <2>2. request'[p].user = r.user
    BY <2>1, <1>1, GoToType
  <2>3. "manage-users" \in Allows(request'[p].act)
    BY DEF Allows
  <2> QED
    BY <2>1, <2>2, <2>3, <1>1 DEF Able
<1> QED
  BY <1>2, <1>3

\* After the first check of two there is only the second.
LEMMA CheckedAsks ==
    ASSUME TypeOK, NEW p \in Processes, NEW answers \in BOOLEAN,
           CheckAdd(p, answers) \/ CheckManage(p, answers)
    PROVE  ~At(p, "add-users")'
<1>1. request[p] # Idle
  BY DEF CheckAdd, CheckManage, At
<1>2. GoTo(p, "run") \/ GoTo(p, "manage-users") \/ Finish(p)
  BY DEF CheckAdd, CheckManage
<1> QED
  BY <1>1, <1>2, GoToType, FinishType DEF At

\* A process about to run its statement is able.
THEOREM RunnersWereChecked == Spec => [](RunnersAreAble /\ AddersAsk)
<1>1. Init => RunnersAreAble /\ AddersAsk
  BY DEF Init, RunnersAreAble, AddersAsk, At
<1>2. TypeOK /\ (RunnersAreAble /\ AddersAsk) /\ [Next]_vars => (RunnersAreAble /\ AddersAsk)'
  <2> SUFFICES ASSUME TypeOK, RunnersAreAble, AddersAsk, [Next]_vars
               PROVE  (RunnersAreAble /\ AddersAsk)'
    OBVIOUS
  <2>0. CASE UNCHANGED vars
    BY <2>0 DEF vars, RunnersAreAble, AddersAsk, At
  <2> SUFFICES ASSUME Next, NEW q \in Processes
               PROVE  /\ At(q, "run")' => q \in able'
                      /\ At(q, "add-users")' => request'[q].act = "add-user"
    BY <2>0 DEF RunnersAreAble, AddersAsk
  <2>1. Observed
    BY DEF Next
  <2>2. CASE request'[q] = request[q]
    BY <2>1, <2>2, StaysAble
  <2>3. CASE request'[q] = Idle
    BY <2>3 DEF At
  <2>4. ASSUME NEW p \in Processes, NEW act \in Acts, NEW u \in Callers,
               NEW name \in Names, NEW perm \in Permissions,
               Begin(p, act, u, name, perm)
        PROVE  request'[q] = request[q] \/
               /\ At(q, "run")' => Able(request'[q])
               /\ At(q, "add-users")' => request'[q].act = "add-user"
    <3>1. CASE q # p
      BY <2>4, <3>1 DEF Begin, TypeOK
    <3>2. CASE q = p
      <4>1. request'[q].act = act /\ request'[q].step = FirstStep(act)
        BY <2>4, <3>2 DEF Begin, TypeOK
      <4>2. FirstStep(act) = "run" => act = "register-user"
        BY DEF FirstStep, Acts
      <4>3. FirstStep(act) = "add-users" => act = "add-user"
        BY DEF FirstStep, Acts
      <4> QED
        BY <4>1, <4>2, <4>3 DEF At, Able
    <3> QED
      BY <3>1, <3>2
  <2>5. ASSUME NEW p \in Processes, NEW answers \in BOOLEAN,
               CheckAdd(p, answers) \/ CheckManage(p, answers)
        PROVE  request'[q] = request[q] \/
               /\ At(q, "run")' => Able(request'[q])
               /\ At(q, "add-users")' => request'[q].act = "add-user"
    <3>1. CASE q # p
      <4>1. request[p] # Idle
        BY <2>5 DEF CheckAdd, CheckManage, At
      <4>2. GoTo(p, "run") \/ GoTo(p, "manage-users") \/ Finish(p)
        BY <2>5 DEF CheckAdd, CheckManage
      <4> QED
        BY <3>1, <4>1, <4>2, GoToType, FinishType
    <3>2. CASE q = p
      BY <2>5, <3>2, CheckedIsAble, CheckedAsks
    <3> QED
      BY <3>1, <3>2
  <2>6. ASSUME NEW p \in Processes,
               RunFails(p) \/ UserAdd(p) \/ UserDel(p) \/ GiveUserPerm(p) \/ RevokeUserPerm(p)
        PROVE  request'[q] = request[q] \/ request'[q] = Idle
    <3>1. Finish(p)
      BY <2>6 DEF RunFails, UserAdd, UserDel, GiveUserPerm, RevokeUserPerm, Run
    <3> QED
      BY <3>1, FinishType
  <2>8. \/ request'[q] = request[q] \/ request'[q] = Idle
        \/ /\ At(q, "run")' => Able(request'[q])
           /\ At(q, "add-users")' => request'[q].act = "add-user"
    BY <2>4, <2>5, <2>6 DEF Next, Statements
  <2> QED
    BY <2>1, <2>2, <2>3, <2>8, BecomesAble DEF At
<1> QED
  BY <1>1, <1>2, UsersTypeCorrect, PTL DEF Spec

\* A process that ends its request by the statement of the act was able.
LEMMA RunEnds ==
    ASSUME TypeOK, RunnersAreAble, NEW p \in Processes, NEW acts, Run(p, acts)
    PROVE  /\ p \in able
           /\ request[p].act \in acts
           /\ Ends(p, request[p].act)
           /\ request[p].name \in Names /\ request[p].user \in Names
BY FinishType, UsersAssumption DEF Run, At, RunnersAreAble, Ends, TypeOK, Request

\* Users go and permissions change only by requests for just that, in the name
\* of one who was a manager.
THEOREM ManagersManage == Spec => OnlyManagersManage
<1> DEFINE Given == \A grant \in permitted' \ permitted :
                      \E p \in able : /\ Ends(p, "add-perm-user")
                                       /\ grant = <<request[p].name, request[p].perm>>
           Taken == \A grant \in permitted \ permitted' :
                      \E p \in able : \/ /\ Ends(p, "revoke-perm-user")
                                          /\ grant = <<request[p].name, request[p].perm>>
                                       \/ /\ Ends(p, "delete-user")
                                          /\ grant[1] = request[p].name
           Gone  == \A u \in Users : referer'[u] = NoUser =>
                      \E p \in able : Ends(p, "delete-user") /\ request[p].name = u
<1>1. TypeOK /\ RunnersAreAble /\ [Next]_vars => Given /\ Taken /\ Gone
  <2> SUFFICES ASSUME TypeOK, RunnersAreAble, [Next]_vars
               PROVE  Given /\ Taken /\ Gone
    OBVIOUS
  <2>1. CASE UNCHANGED tables
    BY <2>1 DEF tables, Users
  <2>2. ASSUME NEW p \in Processes, UserAdd(p)
        PROVE  Given /\ Taken /\ Gone
    <3>1. PICK acts : Run(p, acts)
      BY <2>2 DEF UserAdd
    <3>2. request[p].user \in Names
      BY <3>1, RunEnds
    <3> QED
      BY <2>2, <3>2, UsersAssumption DEF UserAdd, Users, TypeOK
  <2>3. ASSUME NEW p \in Processes, UserDel(p)
        PROVE  Given /\ Taken /\ Gone
    <3>1. p \in able /\ Ends(p, "delete-user")
      BY <2>3, RunEnds DEF UserDel
    <3>2. Given /\ Taken
      BY <2>3, <3>1 DEF UserDel, RemainingPermissions
    <3>3. Gone
      BY <2>3, <3>1, UsersAssumption DEF UserDel, Users, TypeOK
    <3> QED
      BY <3>2, <3>3
  <2>4. ASSUME NEW p \in Processes, GiveUserPerm(p)
        PROVE  Given /\ Taken /\ Gone
    <3>1. p \in able /\ Ends(p, "add-perm-user")
      BY <2>4, RunEnds DEF GiveUserPerm
    <3> QED
      BY <2>4, <3>1 DEF GiveUserPerm, Users
  <2>5. ASSUME NEW p \in Processes, RevokeUserPerm(p)
        PROVE  Given /\ Taken /\ Gone
    <3>1. p \in able /\ Ends(p, "revoke-perm-user")
      BY <2>5, RunEnds DEF RevokeUserPerm
    <3> QED
      BY <2>5, <3>1 DEF RevokeUserPerm, Users
  <2> QED
    BY <2>1, <2>2, <2>3, <2>4, <2>5, TableSteps
<1> QED
  BY <1>1, UsersTypeCorrect, RunnersWereChecked, PTL DEF Spec, OnlyManagersManage

\* A user is added by a request in the name of the referer it gets, which may
\* add users or registers, and the referer stays.
THEOREM EveryRefererMayAdd == Spec => ReferersMayAdd
<1>1. TypeOK /\ RunnersAreAble /\ [Next]_vars =>
         [ \A u \in Names : referer'[u] \notin {referer[u], NoUser} =>
              /\ u \notin Users
              /\ \E p \in able :
                    /\ Ends(p, "add-user") \/ Ends(p, "register-user")
                    /\ request[p].name = u /\ request[p].user = referer'[u] ]_vars
  <2> SUFFICES ASSUME TypeOK, RunnersAreAble, [Next]_vars,
                      NEW u \in Names, referer'[u] \notin {referer[u], NoUser}
               PROVE  /\ u \notin Users
                      /\ \E p \in able :
                            /\ Ends(p, "add-user") \/ Ends(p, "register-user")
                            /\ request[p].name = u /\ request[p].user = referer'[u]
    OBVIOUS
  <2>1. ~UNCHANGED referer
    OBVIOUS
  <2>2. ~(\E p \in Processes : UserDel(p))
    BY DEF UserDel, TypeOK
  <2>3. PICK p \in Processes : UserAdd(p)
    BY <2>1, <2>2, TableSteps DEF tables, GiveUserPerm, RevokeUserPerm
  <2>4. /\ Run(p, {"add-user", "register-user"})
        /\ request[p].name \notin Users
        /\ referer' = [referer EXCEPT ![request[p].name] = request[p].user]
    BY <2>3 DEF UserAdd, MayAdd
  <2>5. request[p].name = u /\ referer'[u] = request[p].user
    BY <2>4 DEF TypeOK
  <2>6. p \in able /\ (Ends(p, "add-user") \/ Ends(p, "register-user"))
    BY <2>4, RunEnds
  <2> QED
    BY <2>4, <2>5, <2>6
<1> QED
  BY <1>1, UsersTypeCorrect, RunnersWereChecked, PTL DEF Spec, ReferersMayAdd
=============================================================================
