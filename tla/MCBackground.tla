----------------------------- MODULE MCBackground -----------------------------
(* Instances of Outbox, Jobs and Installation for TLC. The modules share no      *)
(* state; a run looks at one scene, chosen in the initial state: the events and  *)
(* those they are for; the reminders; the demo installation, with its Roles      *)
(* screen; the production installation; and one administrator's user of it,      *)
(* changed by two others while the seed is run.                                  *)
EXTENDS Outbox, Jobs, Installation

CONSTANTS u1, u2, v1, d1, i1,
          Scenes   \* the scenes a run looks at

VARIABLE scene

ASSUME Scenes \subseteq {"events", "reminders", "demo", "production", "roles"}

\* The first event is for everybody, the second for one user, and nobody is
\* routed the third.
MCUser == {u1, u2}
MCRecipient == [e \in Event |-> IF e = 1 THEN MCUser ELSE IF e = 2 THEN {u1} ELSE {}]

\* A vehicle that is due and a visit that becomes due on the second day.
MCDriven    == [v \in {v1} |-> 5]
MCPromised  == [d \in {d1} |-> 2]
Nothing     == [x \in {} |-> 0]
MCCooldown  == [k \in Sweep |-> IF k = "oil" THEN 1 ELSE 0]
MCTake      == [k \in Sweep |-> 2]

AllKnown == UNION AllAsks

backgroundVars == <<scene, vars, jobVars, installationVars>>

BackgroundInit ==
  /\ scene \in Scenes
  /\ Init /\ JobsInit
  /\ InstallationInit /\ script = IF scene = "demo" THEN "demo" ELSE "production"

-----------------------------------------------------------------------------
\* The seed is run again and again while the roles of a manager and of the
\* customers are cleared or given all the screen shows.
DemoStep ==
  \/ RunStep(i1)
  \/ \E o \in {"uxb_manager", "customer"}, keys \in {{}, Matrix \cap Known} :
       UpdatePermissions(o, keys)
  \/ Grant("uxb_manager", "uxb") \/ Revoke("uxb_manager", "uxb")

RolesStep ==
  LET apps == {"promotors", "uxb"}
  IN  \/ RunStep(i1)
      \/ \E d \in Admin : UpdatedUser(d) \/ GrantLanding(d) \/ RequestDies(d)
      \/ \E d \in Admin, o \in {"super_admin", "advisor"} : UpdateUser(d, "super_admin", o)
      \/ \E d \in Admin, a \in apps : ClearLanding(d, "super_admin", a)
      \/ \E a \in apps : Grant("super_admin", a) \/ Revoke("super_admin", a)

BackgroundNext ==
  /\ UNCHANGED scene
  /\ \/ /\ scene = "events" /\ Next /\ timeouts' + crashes' <= MaxFaults
        /\ UNCHANGED <<jobVars, installationVars>>
     \/ scene = "reminders" /\ JobsNext /\ UNCHANGED <<vars, installationVars>>
     \/ /\ \/ scene = "demo" /\ DemoStep
           \/ scene = "roles" /\ RolesStep
           \/ scene = "production" /\ \E r \in Runner : RunStep(r)
        /\ UNCHANGED <<vars, jobVars>>

\* The fairness of Outbox and that of Jobs, each in its scene.
BackgroundFair ==
  /\ \A w \in Worker : WF_vars(scene = "events" /\ Work(w))
  /\ WF_jobVars(scene = "reminders" /\ \E r \in Run : Start(r))
  /\ \A r \in Run : WF_jobVars(scene = "reminders" /\ GoOn(r))
  /\ WF_jobVars(scene = "reminders" /\ Expire)

BackgroundSpec ==
  BackgroundInit /\ [][BackgroundNext]_backgroundVars /\ BackgroundFair

\* In the scene of the reminders, what is due on the last day has been reminded
\* within its cooldown in the end, whatever crashed or failed on the way.
RemindedInTheEnd == scene = "reminders" => DueSubjectsAreReminded
=============================================================================
