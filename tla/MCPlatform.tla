------------------------------ MODULE MCPlatform ------------------------------
(* Instances of Sync, Sessions and DashCache for TLC. The modules share no      *)
(* state; a run looks at one scene of one of them, chosen in the initial state: *)
(* those of MCSync; the sessions of a member of the staff, and of a customer;   *)
(* and the figures of the dashboard.                                            *)
EXTENDS MCSync, Sessions, DashCache

SyncScenes == {"desk", "batch", "update", "numbers"}

othersVars == <<sessionVars, cacheVars>>
platformVars == <<scene, vars, othersVars>>

PlatformInit ==
  /\ SceneInit
  /\ SessionsInit /\ CacheInit

-----------------------------------------------------------------------------
\* The staff signs in, stays signed in and is locked out.
StaffStep ==
  \/ \E q \in Request :
       \/ WrongPassword(q) \/ RightPassword(q) \/ Rotate(q) \/ RevokeSpent(q)
       \/ IssueTokens(q) \/ Dies(q)
       \/ \E u \in Staff : FindUser(q, u)
       \/ \E t \in Token : FindToken(q, t) \/ FindSpentToken(q, t)
  \/ \E u \in Staff : LockExpires(u) \/ UpdateStatus(u)
  \/ \E t \in Token : Logout(t) \/ TokenExpires(t)

\* A customer signs in by code.
CustomerStep ==
  \/ \E q \in Request :
       \/ Rotate(q) \/ RevokeSpent(q) \/ IssueTokens(q) \/ CountAttempt(q)
       \/ DeleteCode(q) \/ EnsurePortalUser(q) \/ CreatePortalUser(q) \/ Dies(q)
       \/ \E t \in Token : FindToken(q, t) \/ FindSpentToken(q, t)
       \/ \E c \in Customer, right \in BOOLEAN : ReadCode(q, c, right)
  \/ \E t \in Token : Logout(t) \/ TokenExpires(t)
  \/ \E c \in Customer : RequestOtp(c) \/ CodeExpires(c)

PlatformNext ==
  \/ scene \in SyncScenes /\ SceneNext /\ UNCHANGED othersVars
  \/ /\ UNCHANGED <<scene, vars>>
     /\ \/ /\ \/ scene = "staff" /\ StaffStep
              \/ scene = "customer" /\ CustomerStep
           /\ UNCHANGED cacheVars
        \/ scene = "figures" /\ CacheNext /\ UNCHANGED sessionVars

PlatformSpec == PlatformInit /\ [][PlatformNext]_platformVars
=============================================================================
