------------------------------ MODULE Identity ------------------------------
(***************************************************************************)
(* Accounts, groups, entitlements and the posture of the box               *)
(* (identity/services.py, identity/access.py, identity/views.py,           *)
(* identity/admin.py).                                                     *)
(*                                                                         *)
(* Every page of the identity area loads the row it edits, decides, and    *)
(* writes later; requests of different administrators interleave between   *)
(* the load and the write.  The services write inside one transaction, and *)
(* the guard of the last administrator reads under a row lock, so a write  *)
(* and the guard in front of it are one step here.  The posture row is     *)
(* read and written back whole.  The change form of the admin site saves   *)
(* every column of the account it loaded.                                  *)
(***************************************************************************)
EXTENDS FiniteSets, Naturals

CONSTANTS Users,      \* accounts the box may ever have
          Groups,     \* groups the box may ever have
          Ents,       \* entitlements the box may ever have
          Requests,   \* requests of the identity area that may be in flight
          None

VARIABLES box,        \* the IdentitySettings row
          account,    \* the User rows
          groups,     \* the groups that exist
          members,    \* <<group, user>> pairs
          ents,       \* the entitlements that exist
          grants,     \* the EntitlementGrant rows
          req         \* what each request in flight has read

idvars == <<box, account, groups, members, ents, grants, req>>

Postures == {"open", "personal", "enterprise"}
Roles == {"member", "owner"}
Settings == [posture : Postures, library : {"open", "locked"}, adminSees : BOOLEAN]
Account == [exists : BOOLEAN, active : BOOLEAN, super : BOOLEAN]
Grant == [ent : Ents, subject : Users \cup Groups, role : Roles]

Nobody == [exists |-> FALSE, active |-> FALSE, super |-> FALSE]

\* The principals a request or a job may act as.
Principals == Users \cup {"open", "anonymous", "service"}

-----------------------------------------------------------------------------
(* identity/access.py: the questions the rest of the platform asks. *)

AccountsOn == box.posture # "open"

\* The account behind a principal, and only an active one.
UserRow(p) == p \in Users /\ account[p].exists /\ account[p].active

IsAdmin(p) == ~AccountsOn \/ (UserRow(p) /\ account[p].super)

SeesAllContent(p) == ~AccountsOn \/ (IsAdmin(p) /\ box.adminSees)

\* The rule as a query: own rows, and the rows of a local command for an
\* administrator.
OwnedRowsQ(p, owner) == owner = p \/ (IsAdmin(p) /\ owner = "service")

\* The same rule asked of one row.
MayReadOwnedRow(p, owner) == IF owner = "service" THEN IsAdmin(p) ELSE owner = p

GrantsOf(p, roles) ==
    {g \in grants : /\ p \in Users
                    /\ g.role \in roles
                    /\ g.subject = p \/ <<g.subject, p>> \in members}

HeldIds_DirectOnly(p) ==
    IF AccountsOn THEN {g.ent : g \in {h \in grants : h.subject = p}} ELSE {}

HeldIds(p) == IF AccountsOn THEN {g.ent : g \in GrantsOf(p, Roles)} ELSE {}

OwnedIds(p) == IF AccountsOn THEN {g.ent : g \in GrantsOf(p, {"owner"})} ELSE {}

\* What a subject holds by itself: a group is asked about its own grants.
SubjectIds(s) == IF AccountsOn THEN {g.ent : g \in {h \in grants : h.subject = s}} ELSE {}

LabellingEntitlements(p) ==
    IF ~AccountsOn THEN {} ELSE IF IsAdmin(p) THEN ents ELSE OwnedIds(p)

MayAdminister(p, e) == IsAdmin(p) \/ e \in OwnedIds(p)

\* Who a request acts as: signed is the account its session names, or None.
PrincipalFor(signed) ==
    IF ~AccountsOn THEN "open" ELSE IF UserRow(signed) THEN signed ELSE "anonymous"

\* The gate in front of every administrator's page.
AdmittedAdmin(signed) == IsAdmin(PrincipalFor(signed))

-----------------------------------------------------------------------------
(* Accounts. *)

ActiveSuperusers_Inactive == {u \in Users : account[u].exists /\ account[u].super}

ActiveSuperusers == {u \in Users : account[u].exists /\ account[u].active /\ account[u].super}

LastAdmin(u) == ActiveSuperusers = {u}

IsIdle(r) == req[r].op = "idle"
Idle == [op |-> "idle"]

IdentityTypeOK ==
    /\ box \in Settings
    /\ account \in [Users -> Account]
    /\ groups \subseteq Groups /\ members \subseteq groups \X Users
    /\ ents \subseteq Ents
    /\ grants \subseteq Grant
    /\ \A g, h \in grants : g.ent = h.ent /\ g.subject = h.subject => g = h
    /\ \A r \in Requests : req[r].op \in
          {"idle", "promote", "demote", "deactivate", "reactivate", "posture", "form", "save"}

\* A fresh box: open, nobody has an account.
IdentityInit ==
    /\ box = [posture |-> "open", library |-> "open", adminSees |-> FALSE]
    /\ account = [u \in Users |-> Nobody]
    /\ groups = {} /\ members = {} /\ ents = {} /\ grants = {}
    /\ req = [r \in Requests |-> Idle]

\* create_user: a name that is taken is refused by the unique constraint.
CreateUser(u, super) ==
    /\ ~account[u].exists
    /\ account' = [account EXCEPT ![u] = [exists |-> TRUE, active |-> TRUE, super |-> super]]

\* user_create: in the personal posture every account is an administrator.
UserCreate(signed, u, super) ==
    /\ AdmittedAdmin(signed)
    /\ CreateUser(u, box.posture = "personal" \/ super)
    /\ UNCHANGED <<box, groups, members, ents, grants, req>>

\* user_edit loads the account; what it decides from later is this copy.
LoadUser(r, signed, u, op) ==
    /\ IsIdle(r)
    /\ AdmittedAdmin(signed)
    /\ account[u].exists
    /\ req' = [req EXCEPT ![r] = [op |-> op, user |-> u, seen |-> account[u]]]
    /\ UNCHANGED <<box, account, groups, members, ents, grants>>

\* set_superuser: nothing to do when the copy already says so; the guard and
\* the write are one transaction.
SetSuperuser(u, seen, value) ==
    /\ account' = IF seen.super = value \/ (~value /\ LastAdmin(u))
                  THEN account ELSE [account EXCEPT ![u].super = value]
    /\ UNCHANGED grants

\* deactivate_user also drops the grants that name the account.
DeactivateUser(u, seen) ==
    IF ~seen.active \/ LastAdmin(u)
    THEN UNCHANGED <<account, grants>>
    ELSE /\ account' = [account EXCEPT ![u].active = FALSE]
         /\ grants' = {g \in grants : g.subject # u}

ReactivateUser(u, seen) ==
    /\ account' = IF seen.active THEN account ELSE [account EXCEPT ![u].active = TRUE]
    /\ UNCHANGED grants

\* The second half of user_edit: the service, and the redirect.
EditUser(r) ==
    LET q == req[r] IN
    /\ \/ q.op = "promote" /\ SetSuperuser(q.user, q.seen, TRUE)
       \/ q.op = "demote" /\ SetSuperuser(q.user, q.seen, FALSE)
       \/ q.op = "deactivate" /\ DeactivateUser(q.user, q.seen)
       \/ q.op = "reactivate" /\ ReactivateUser(q.user, q.seen)
    /\ req' = [req EXCEPT ![r] = Idle]
    /\ UNCHANGED <<box, groups, members, ents>>

-----------------------------------------------------------------------------
(* The change form of the admin site (identity/admin.py). *)

\* The form is built from the account and carries the two submitted columns.
\* The site asks for a signed-in member of staff in every posture.
LoadForm(r, signed, u, active, super) ==
    /\ IsIdle(r)
    /\ UserRow(signed) /\ account[signed].super
    /\ account[u].exists
    /\ req' = [req EXCEPT ![r] = [op |-> "form", user |-> u, active |-> active, super |-> super]]
    /\ UNCHANGED <<box, account, groups, members, ents, grants>>

\* save_model reads the row again.  A guarded column that differs goes through
\* its service; the write locks the row until the form commits, so the rest
\* of the form is part of the same step, and a refusal undoes all of it.  When
\* nothing differs no lock is taken and the save comes later.
ApplyForm(r) ==
    LET q == req[r]
        u == q.user
        before == account[u]
        demotes == before.super /\ ~q.super
        retires == before.active /\ ~q.active
        refused == \/ demotes /\ LastAdmin(u)
                   \/ retires /\ q.super /\ ActiveSuperusers \subseteq {u}
    IN /\ q.op = "form"
       /\ IF before.super = q.super /\ before.active = q.active
          THEN req' = [req EXCEPT ![r].op = "save"] /\ UNCHANGED <<account, grants>>
          ELSE /\ req' = [req EXCEPT ![r] = Idle]
               /\ account' = IF refused THEN account
                             ELSE [account EXCEPT ![u].super = q.super, ![u].active = q.active]
               /\ grants' = IF retires /\ ~refused
                            THEN {g \in grants : g.subject # u} ELSE grants
       /\ UNCHANGED <<box, groups, members, ents>>

\* super().save_model writes every column of the account it loaded.
SaveForm(r) ==
    LET q == req[r] IN
    /\ q.op = "save"
    /\ account' = [account EXCEPT ![q.user].super = q.super, ![q.user].active = q.active]
    /\ req' = [req EXCEPT ![r] = Idle]
    /\ UNCHANGED <<box, groups, members, ents, grants>>

-----------------------------------------------------------------------------
(* The posture. *)

\* The row set_posture would write: None leaves a column alone, and a
\* personal box has an open library whatever was asked.
PostureRow(row, change) ==
    LET posture == IF change.posture = None THEN row.posture ELSE change.posture
    IN [posture   |-> posture,
        library   |-> IF posture = "personal" THEN "open"
                      ELSE IF change.library = None THEN row.library ELSE change.library,
        adminSees |-> IF change.adminSees = None THEN row.adminSees ELSE change.adminSees]

\* A box leaves the open posture only when it has an active superuser.
MaySwitch(row, change) ==
    change.posture \in {None, "open", row.posture} \/ ActiveSuperusers # {}

\* set_posture reads the row and decides.  The CLI names no library.
LoadPosture(r, signed, change) ==
    /\ IsIdle(r)
    /\ AdmittedAdmin(signed) \/ change.library = None
    /\ MaySwitch(box, change)
    /\ req' = [req EXCEPT ![r] = [op |-> "posture", row |-> PostureRow(box, change)]]
    /\ UNCHANGED <<box, account, groups, members, ents, grants>>

\* row.save() writes all of it.
SavePosture(r) ==
    /\ req[r].op = "posture"
    /\ box' = req[r].row
    /\ req' = [req EXCEPT ![r] = Idle]
    /\ UNCHANGED <<account, groups, members, ents, grants>>

-----------------------------------------------------------------------------
(* Groups and entitlements.  Each is one transaction that asks again whether *)
(* the actor may do it.                                                      *)

CreateGroup(p, g) ==
    /\ IsAdmin(p) /\ g \notin groups
    /\ groups' = groups \cup {g}
    /\ UNCHANGED <<box, account, members, ents, grants, req>>

\* The grants of a group go with it.
DeleteGroup(p, g) ==
    /\ IsAdmin(p) /\ g \in groups
    /\ groups' = groups \ {g}
    /\ members' = {m \in members : m[1] # g}
    /\ grants' = {h \in grants : h.subject # g}
    /\ UNCHANGED <<box, account, ents, req>>

AddGroupMember(p, g, u) ==
    /\ IsAdmin(p) /\ g \in groups /\ account[u].exists
    /\ members' = members \cup {<<g, u>>}
    /\ UNCHANGED <<box, account, groups, ents, grants, req>>

RemoveGroupMember(p, g, u) ==
    /\ IsAdmin(p) /\ <<g, u>> \in members
    /\ members' = members \ {<<g, u>>}
    /\ UNCHANGED <<box, account, groups, ents, grants, req>>

CreateEntitlement(p, e) ==
    /\ IsAdmin(p) /\ e \notin ents
    /\ ents' = ents \cup {e}
    /\ UNCHANGED <<box, account, groups, members, grants, req>>

\* The grants cascade with the row; the other columns' rows are removed by
\* the cascades they register.
DeleteEntitlement(p, e) ==
    /\ IsAdmin(p) /\ e \in ents
    /\ ents' = ents \ {e}
    /\ grants' = {g \in grants : g.ent # e}
    /\ UNCHANGED <<box, account, groups, members, req>>

SubjectExists(s) == IF s \in Users THEN account[s].exists ELSE s \in groups

\* A second grant to the same subject is refused by the unique constraint.
GrantTo(p, e, s, role) ==
    /\ e \in ents /\ SubjectExists(s) /\ MayAdminister(p, e)
    /\ \A g \in grants : ~(g.ent = e /\ g.subject = s)
    /\ grants' = grants \cup {[ent |-> e, subject |-> s, role |-> role]}
    /\ UNCHANGED <<box, account, groups, members, ents, req>>

SetGrantRole(p, g, role) ==
    /\ g \in grants /\ MayAdminister(p, g.ent) /\ g.role # role
    /\ grants' = (grants \ {g}) \cup {[g EXCEPT !.role = role]}
    /\ UNCHANGED <<box, account, groups, members, ents, req>>

\* revoke
RevokeGrant(p, g) ==
    /\ g \in grants /\ MayAdminister(p, g.ent)
    /\ grants' = grants \ {g}
    /\ UNCHANGED <<box, account, groups, members, ents, req>>

\* The pages.  The entitlement page is there for whoever may administer it.
GroupsPage(p) == \E g \in Groups : CreateGroup(p, g)

GroupEdit(p) ==
    \E g \in Groups : DeleteGroup(p, g) \/ \E u \in Users : AddGroupMember(p, g, u) \/ RemoveGroupMember(p, g, u)

EntitlementEdit(p, e) == e \in ents /\ MayAdminister(p, e)

EntitlementAction(p) ==
    \E e \in Ents :
        /\ EntitlementEdit(p, e)
        /\ \/ \E s \in Users \cup Groups, role \in Roles : GrantTo(p, e, s, role)
           \/ \E g \in grants : g.ent = e /\ RevokeGrant(p, g)
           \/ \E g \in grants, role \in Roles : g.ent = e /\ SetGrantRole(p, g, role)

-----------------------------------------------------------------------------
Changes ==
    [posture : Postures \cup {None}, library : {"open", "locked", None}, adminSees : {TRUE, None}]

Signed == Users \cup {None}

\* The accounts and the posture, with every race between requests.
AccountsNext ==
    \/ \E s \in Signed, u \in Users, b \in BOOLEAN : UserCreate(s, u, b)
    \/ \E r \in Requests, s \in Signed, u \in Users :
          \/ \E op \in {"promote", "demote", "deactivate", "reactivate"} : LoadUser(r, s, u, op)
          \/ \E a, b \in BOOLEAN : LoadForm(r, s, u, a, b)
    \/ \E r \in Requests : EditUser(r)
    \/ \E r \in Requests : ApplyForm(r)
    \/ \E r \in Requests : SaveForm(r)
    \/ \E r \in Requests, s \in Signed, change \in Changes : LoadPosture(r, s, change)
    \/ \E r \in Requests : SavePosture(r)

AccountsSpec == IdentityInit /\ [][AccountsNext]_idvars

HasAdministrator == \E u \in Users : account[u].exists /\ account[u].active /\ account[u].super

(* identity/services.py: "Refuse to leave the box with zero active
   superusers" -- whatever demotions and deactivations race, none of them takes
   the last active administrator away.  The one step that can is the whole-row
   save of the admin site's form. *)
ServicesKeepAnAdministrator ==
    [][(\E r \in Requests : SaveForm(r)) \/ (HasAdministrator => HasAdministrator')]_idvars

(* identity/admin.py: "the last-admin guard, its select_for_update, and the
   audit write all apply here exactly as they do on the users page": a box that
   has had an administrator keeps one. *)
NeverWithoutAdministrator == [][HasAdministrator => HasAdministrator']_idvars

(* A personal box has an open library (set_posture), also when requests that
   read the settings row before the switch write it back after. *)
PersonalLibraryIsOpen == box.posture = "personal" => box.library = "open"
=============================================================================
