----------------------------- MODULE Installation -----------------------------
(***************************************************************************)
(* Who can work in an installation: the seed script that writes the roles  *)
(* and their permissions, run again after crashes and at the same time as  *)
(* another run; the Roles screen (roles.service), a user's role            *)
(* (users.service) and applications (applications.service), changed by     *)
(* administrators meanwhile; and the guards that admit requests by these   *)
(* rows (modules/rbac/guards).                                             *)
(*                                                                         *)
(* A script is a sequence of sections. The rows of one section are         *)
(* independent upserts, written here at once; a run can end between        *)
(* sections. A user of the demo is named by the role seeded for it.        *)
(*                                                                         *)
(* A run of the production script works in the organization it found or    *)
(* made, with that organization's own roles and users: followed are those  *)
(* of the first.                                                           *)
(***************************************************************************)
EXTENDS Routes, Naturals, FiniteSets

CONSTANTS Known,    \* the permissions followed, of those the scripts write
          Member,     \* users of the demo followed
          Runner,   \* runs of a seed script
          Admin,    \* administrators' requests in progress
          MaxRows   \* bound: organizations, and administrators' employees of one

ASSUME InstallationAssumption ==
  /\ Known \subseteq Generic \cup ReportDomains
  /\ Member \subseteq Role
  /\ MaxRows \in Nat

VARIABLES script,   \* which script this installation is seeded with
          seeding,      \* per runner, where its run of the script is
          finished, \* whether a run of it has come to its end
          known,    \* rows of permission
          held,     \* rows of role_permission, per role
          roles,    \* rows of user_role, per user
          app,      \* rows of user_app_access: per user and application
          rows,     \* how many organizations, and administrators' employees of each
          asked,    \* per administrator, the request between two statements
          edited,   \* ghost: roles changed on the screen since last seeded
          crossed,  \* ghost: users written by two at the same time
          raced     \* ghost: rows looked for while another run was about to create one

seedVars == <<seeding, finished, known, held, rows, raced>>
userVars == <<roles, app, asked>>
installationVars == <<script, seedVars, userVars, edited, crossed>>

\* The rows that are looked for and created are counted by what has them: the
\* installation its organizations, organization n the employees of its administrator.
Whole == 0
Counted == Whole..MaxRows

\* org is the organization the run works in, Whole before it has one.
NotRunning == [at |-> 0, all |-> {}, org |-> Whole, found |-> FALSE, meanwhile |-> {}]
NoRequest == [op |-> "none"]

InstallationInit ==
  /\ script \in {"demo", "production"}
  /\ seeding = [r \in Runner |-> NotRunning]
  /\ finished = FALSE
  /\ known = {}
  /\ held = [r \in Role |-> {}]
  /\ roles = [u \in Member |-> {}]
  /\ app = [u \in Member |-> [a \in Apps |-> "none"]]
  /\ rows = [n \in Counted |-> 0]
  /\ asked = [d \in Admin |-> NoRequest]
  /\ edited = {} /\ crossed = {} /\ raced = {}

-----------------------------------------------------------------------------
\* The scripts.
Adds(perms) == [do |-> "add", perms |-> perms]
Section(name) == [do |-> name]
Giving(grants) == [i \in DOMAIN grants |-> [do |-> "give", roles |-> grants[i].roles,
                                            perms |-> grants[i].perms]]

DemoScript ==
  <<Adds(Generic), Adds(ReportDomains), Section("list")>>
    \o Giving(DemoGrants) \o <<Section("users")>>

Finds(row) == [do |-> "find", row |-> row]
Creates(row) == [do |-> "create", row |-> row]

ProductionScript ==
  <<Finds("organization"), Creates("organization"), Adds(Generic), Adds(ReportDomains),
    Section("list")>>
    \o Giving(ProductionGrants)
    \o <<Finds("employee"), Creates("employee"), Section("users")>>

Script == IF script = "demo" THEN DemoScript ELSE ProductionScript

Now(r) == Script[seeding[r].at]
At(r, do) == seeding[r].at > 0 /\ Now(r).do = do

\* Whose rows the section of the run is about.
Of(r) == IF Now(r).row = "organization" THEN Whole ELSE seeding[r].org

\* The roles and users of this run's organization are those followed.
Followed(r) == script = "demo" \/ seeding[r].org = 1

\* The run goes on to the next section, after what the present one leaves in it.
Goes(r, left) ==
  IF seeding[r].at < Len(Script)
  THEN /\ seeding' = [seeding EXCEPT ![r] = [left EXCEPT !.at = @ + 1]]
       /\ UNCHANGED <<finished, edited>>
  ELSE /\ seeding' = [seeding EXCEPT ![r] = NotRunning]
       /\ finished' = TRUE
       /\ edited' = edited \cap seeding[r].meanwhile

StartRun(r) ==
  /\ seeding[r].at = 0
  /\ seeding' = [seeding EXCEPT ![r].at = 1]
  /\ UNCHANGED <<script, finished, known, held, rows, userVars, edited, crossed, raced>>

AddPermissions(r) ==
  /\ At(r, "add")
  /\ known' = known \cup (Now(r).perms \cap Known)
  /\ Goes(r, seeding[r])
  /\ UNCHANGED <<script, held, rows, userVars, crossed, raced>>

\* The grants go by this reading of the catalogue.
ListPermissions(r) ==
  /\ At(r, "list")
  /\ Goes(r, [seeding[r] EXCEPT !.all = known])
  /\ UNCHANGED <<script, known, held, rows, userVars, crossed, raced>>

GivePermissions(r) ==
  /\ At(r, "give")
  /\ held' = [o \in Role |-> IF Followed(r) /\ o \in Now(r).roles
                             THEN held[o] \cup (Now(r).perms \cap seeding[r].all) ELSE held[o]]
  /\ Goes(r, seeding[r])
  /\ UNCHANGED <<script, known, rows, userVars, crossed, raced>>

\* Runs that looked in vain and are about to create a row of n.
Creators(n) == {r \in Runner : At(r, "create") /\ Of(r) = n /\ ~seeding[r].found}

\* Looks for the row before creating one; so can another run. Of several
\* organizations any may be found; the employee is looked for in the run's own.
FindRow(r) ==
  /\ At(r, "find")
  /\ \/ rows[Of(r)] = 0 /\ Goes(r, [seeding[r] EXCEPT !.found = FALSE])
     \/ Of(r) # Whole /\ rows[Of(r)] > 0 /\ Goes(r, [seeding[r] EXCEPT !.found = TRUE])
     \/ /\ Of(r) = Whole
        /\ \E n \in 1..rows[Whole] :
             Goes(r, [seeding[r] EXCEPT !.found = TRUE, !.org = n])
  /\ raced' = IF Creators(Of(r)) = {} THEN raced ELSE raced \cup {Of(r)}
  /\ UNCHANGED <<script, known, held, rows, userVars, crossed>>

\* What the run has made: an organization it goes on in, or an employee of it.
Created(r, made) ==
  Goes(r, IF made /\ Of(r) = Whole THEN [seeding[r] EXCEPT !.org = rows[Whole] + 1]
          ELSE seeding[r])

\* Mutant: the row is created without regard to what was found.
CreateAnyRow(r) ==
  /\ At(r, "create")
  /\ rows[Of(r)] < MaxRows
  /\ rows' = [rows EXCEPT ![Of(r)] = @ + 1]
  /\ Created(r, TRUE)
  /\ UNCHANGED <<script, known, held, userVars, crossed, raced>>

CreateRow(r) ==
  /\ At(r, "create")
  /\ seeding[r].found \/ rows[Of(r)] < MaxRows
  /\ rows' = [rows EXCEPT ![Of(r)] = IF seeding[r].found THEN @ ELSE @ + 1]
  /\ Created(r, ~seeding[r].found)
  /\ UNCHANGED <<script, known, held, userVars, crossed, raced>>

\* The applications seeded for a user, the first its landing one.
SeededApps(u) ==
  CASE u \in {"super_admin", "branch_admin"} -> <<"promotors", "uxb", "tirezone", "dailycup">>
    [] u = "customer" -> <<>>
    [] u \in ShopManagers -> <<CHOOSE a \in DOMAIN ManagerOf : ManagerOf[a] = u>>
    [] OTHER -> <<"promotors">>

SeededUsers == IF script = "demo" THEN Member ELSE Member \cap {"super_admin"}
SeededBy(r) == IF Followed(r) THEN SeededUsers ELSE {}

\* The demo writes the landing application anew, the production script leaves the
\* one of a row that exists; neither looks at the user's other rows.
SeededApp(u, a) ==
  LET seeded == SeededApps(u)
  IN  CASE \A i \in DOMAIN seeded : seeded[i] # a -> app[u][a]
        [] script = "production" /\ app[u][a] # "none" -> app[u][a]
        [] OTHER -> IF a = Head(seeded) THEN "landing" ELSE "granted"

Landing(u) == {a \in Apps : app[u][a] = "landing"}

\* An administrator changed, or is changing, what the seed writes of the user.
ChangedSince(u) ==
  \/ \E o \in roles[u] : o # u
  \/ \E a \in Landing(u) : SeededApps(u) # <<>> => a # Head(SeededApps(u))
  \/ \E d \in Admin : asked[d] # NoRequest /\ asked[d].user = u

SeedUsers(r) ==
  /\ At(r, "users")
  /\ roles' = [u \in Member |-> roles[u] \cup ({u} \cap SeededBy(r))]
  /\ app' = [u \in Member |-> IF u \in SeededBy(r)
                            THEN [a \in Apps |-> SeededApp(u, a)] ELSE app[u]]
  /\ crossed' = crossed \cup {u \in SeededBy(r) : ChangedSince(u)}
  /\ Goes(r, seeding[r])
  /\ UNCHANGED <<script, known, held, rows, asked, raced>>

RunDies(r) ==
  /\ seeding[r].at > 0
  /\ seeding' = [seeding EXCEPT ![r] = NotRunning]
  /\ UNCHANGED <<script, finished, known, held, rows, userVars, edited, crossed, raced>>

-----------------------------------------------------------------------------
\* Mutant: what the screen does not show is taken away with the rest.
UpdateAllPermissions(o, keys) ==
  /\ o # "super_admin"
  /\ keys \subseteq Matrix \cap known
  /\ held' = [held EXCEPT ![o] = keys]
  /\ edited' = edited \cup {o}
  /\ seeding' = [r \in Runner |-> IF seeding[r].at = 0 THEN seeding[r]
                              ELSE [seeding[r] EXCEPT !.meanwhile = @ \cup {o}]]
  /\ UNCHANGED <<script, finished, known, rows, userVars, crossed, raced>>

\* updatePermissions: keys replace what the role holds of the matrix.
UpdatePermissions(o, keys) ==
  /\ o # "super_admin"
  /\ keys \subseteq Matrix \cap known
  /\ held' = [held EXCEPT ![o] = (@ \ Matrix) \cup keys]
  /\ edited' = edited \cup {o}
  /\ seeding' = [r \in Runner |-> IF seeding[r].at = 0 THEN seeding[r]
                              ELSE [seeding[r] EXCEPT !.meanwhile = @ \cup {o}]]
  /\ UNCHANGED <<script, finished, known, rows, userVars, crossed, raced>>

\* Other requests under way for the same rows of the same user.
Others(d, op, u) == {o \in Admin \ {d} : asked[o].op = op /\ asked[o].user = u}
Crosses(d, op, u) == crossed' = crossed \cup {u : o \in Others(d, op, u)}

\* update: the transaction removes the user's roles as it sees them and adds one.
UpdateUser(d, u, o) ==
  /\ asked[d] = NoRequest /\ roles[u] # {}
  /\ asked' = [asked EXCEPT ![d] = [op |-> "role", user |-> u, role |-> o, saw |-> roles[u]]]
  /\ Crosses(d, "role", u)
  /\ UNCHANGED <<script, seedVars, roles, app, edited>>

UpdatedUser(d) ==
  /\ asked[d].op = "role"
  /\ roles' = [roles EXCEPT ![asked[d].user] = (@ \ asked[d].saw) \cup {asked[d].role}]
  /\ asked' = [asked EXCEPT ![d] = NoRequest]
  /\ UNCHANGED <<script, seedVars, app, edited, crossed>>

\* grant: a new landing application first ends the present one.
ClearLanding(d, u, a) ==
  /\ asked[d] = NoRequest /\ roles[u] # {}
  /\ app' = [app EXCEPT ![u] = [b \in Apps |-> IF @[b] = "landing" THEN "granted" ELSE @[b]]]
  /\ asked' = [asked EXCEPT ![d] = [op |-> "landing", user |-> u, app |-> a]]
  /\ Crosses(d, "landing", u)
  /\ UNCHANGED <<script, seedVars, roles, edited>>

GrantLanding(d) ==
  /\ asked[d].op = "landing"
  /\ app' = [app EXCEPT ![asked[d].user][asked[d].app] = "landing"]
  /\ asked' = [asked EXCEPT ![d] = NoRequest]
  /\ UNCHANGED <<script, seedVars, roles, edited, crossed>>

Grant(u, a) ==
  /\ roles[u] # {}
  /\ app' = [app EXCEPT ![u][a] = "granted"]
  /\ UNCHANGED <<script, seedVars, roles, asked, edited, crossed>>

Revoke(u, a) ==
  /\ roles[u] # {}
  /\ app' = [app EXCEPT ![u][a] = "none"]
  /\ UNCHANGED <<script, seedVars, roles, asked, edited, crossed>>

\* The process ends between the two statements.
RequestDies(d) ==
  /\ asked[d] # NoRequest
  /\ asked' = [asked EXCEPT ![d] = NoRequest]
  /\ UNCHANGED <<script, seedVars, roles, app, edited, crossed>>

RunStep(r) ==
  \/ StartRun(r) \/ AddPermissions(r) \/ ListPermissions(r) \/ GivePermissions(r)
  \/ FindRow(r) \/ CreateRow(r) \/ SeedUsers(r) \/ RunDies(r)

UserStep ==
  \/ \E d \in Admin : UpdatedUser(d) \/ GrantLanding(d) \/ RequestDies(d)
  \/ \E d \in Admin, u \in Member, o \in Role : UpdateUser(d, u, o)
  \/ \E d \in Admin, u \in Member, a \in Apps : ClearLanding(d, u, a)
  \/ \E u \in Member, a \in Apps : Grant(u, a) \/ Revoke(u, a)

InstallationNext ==
  \/ \E r \in Runner : RunStep(r)
  \/ \E o \in Role, keys \in SUBSET (Matrix \cap Known) : UpdatePermissions(o, keys)
  \/ UserStep

InstallationSpec == InstallationInit /\ [][InstallationNext]_installationVars

-----------------------------------------------------------------------------
\* The guards, for a session with the present rows of user_role and user_app_access.
IsStaff(u) == u # "customer"
IsAdministrator(u) == "super_admin" \in roles[u]

\* PermissionsGuard, by the rows as they are.
HasPermission(u, ask) ==
  \/ ask = {} \/ IsAdministrator(u)
  \/ \E o \in roles[u] : ask \cap held[o] # {}

\* AppAccessGuard: the codes getAppCodesForUser found.
HasApp(u, a) == IsAdministrator(u) \/ app[u][a] # "none"

Admitted(u, a, ask) == IsStaff(u) /\ HasApp(u, a) /\ HasPermission(u, ask)

\* What an installation is run by: its own people, settings, roles and audit log.
Administration == {"users", "roles", "settings", "branches", "audit"}

DayToDay == {ask \in WorkshopAsks : ask # {} /\ \A p \in ask : p[1] \notin Administration}

\* Once the demo's script has come to its end, work never stops for want of a
\* permission, whatever the Roles screen is used for: every route of the workshop
\* that asks for a permission the screen does not show is open to some role beside
\* the administrators', and the portal to customers; and the manager of a shop is
\* admitted to all of that shop's routes as long as they have the role and the
\* application and nobody changed the role since it was seeded.
WorkStaysPossible ==
  script = "demo" /\ finished =>
    /\ \A ask \in DayToDay :
         ask \cap Matrix = {} => \E o \in Role \ {"super_admin"} : ask \cap held[o] # {}
    /\ \A ask \in PortalAsks : ask = {} \/ ask \cap held["customer"] # {}
    /\ \A a \in DOMAIN ManagerOf :
         LET m == ManagerOf[a]
         IN  m \in Member /\ m \in roles[m] /\ app[m][a] # "none" /\ m \notin edited =>
               \A ask \in ShopAsks[a] : Admitted(m, a, ask)

\* Two organizations, and two administrators' employees of one, need runs that
\* looked before either created; two roles or two landing applications of one user
\* need two requests under way at once, or a seed over what an administrator had
\* changed.
DoublesNeedOverlap ==
  /\ \A n \in Counted : rows[n] > 1 => n \in raced
  /\ \A u \in Member : Cardinality(roles[u]) > 1 \/ Cardinality(Landing(u)) > 1 => u \in crossed
=============================================================================
