------------------------------- MODULE Sessions -------------------------------
(***************************************************************************)
(* The bookkeeping of sessions in auth.service and portal-auth.service. A  *)
(* session is a refresh token; it is opened by a login, by a one-time code *)
(* or by the rotation of the token before it. Each handler reads what it   *)
(* goes by, and revokes the token or deletes the code in a later call;     *)
(* nothing makes the two calls one, so requests may read the same token or *)
(* code before either has used it up.                                      *)
(***************************************************************************)
EXTENDS Naturals, FiniteSets

CONSTANTS Staff, Customer,
          Request,      \* requests that may be under way at once
          MaxFailed,    \* wrong passwords until the account is locked
          MaxTries,     \* wrong codes until the code is dropped
          MaxTokens,    \* bound: sessions opened
          MaxWrong,     \* bound: wrong passwords in a row
          MaxCodes      \* bound: codes sent

Account == Staff \cup Customer
Token   == 1..MaxTokens
Login   == <<"login", 0>>
OfToken(t) == <<"token", t>>
OfCode(n)  == <<"code", n>>

VARIABLES token,   \* refresh tokens: their owner, state and what they came from
          account, \* users: active or not, wrong passwords counted, locked
          otp,     \* the one-time code of each customer, 0 if there is none
          codes,   \* codes sent
          request, \* what each request is doing
          shared   \* tokens and codes that requests at the same time went by

sessionVars == <<token, account, otp, codes, request, shared>>

NoToken == [owner |-> "nobody", state |-> "none", from |-> Login]
NoCode  == [code |-> 0, attempts |-> 0]
Done    == [step |-> "none", who |-> "nobody", from |-> Login, read |-> 0]

SessionsInit ==
  /\ token = [t \in Token |-> NoToken]
  /\ account = [a \in Account |-> [active |-> TRUE, failed |-> 0, locked |-> FALSE,
                                   known |-> a \in Staff]]
  /\ otp = [c \in Customer |-> NoCode]
  /\ codes = 0
  /\ request = [q \in Request |-> Done]
  /\ shared = {}

\* A request goes by a source that others may be going by.
GoesBy(q, step, who, from, read) ==
  /\ request[q] = Done
  /\ request' = [request EXCEPT ![q] = [step |-> step, who |-> who, from |-> from,
                                        read |-> read]]
  /\ shared' = shared \cup {x \in {from} \ {Login} : \E p \in Request : request[p].from = x}

Step(q, step) == request' = [request EXCEPT ![q].step = step]
Over(q)       == request' = [request EXCEPT ![q] = Done]

-----------------------------------------------------------------------------
\* login: the account as it is read ...
FindUser(q, u) ==
  /\ ~account[u].locked /\ account[u].active
  /\ GoesBy(q, "verify", u, Login, account[u].failed)
  /\ UNCHANGED <<token, account, otp, codes>>

\* ... decides what is written of a wrong password.
WrongPassword(q) ==
  /\ request[q].step = "verify" /\ request[q].read < MaxWrong
  /\ LET failed == request[q].read + 1
     IN account' = [account EXCEPT ![request[q].who].failed = failed,
                                   ![request[q].who].locked = failed >= MaxFailed]
  /\ Over(q)
  /\ UNCHANGED <<token, otp, codes, shared>>

RightPassword(q) ==
  /\ request[q].step = "verify"
  /\ account' = [account EXCEPT ![request[q].who].failed = 0,
                                ![request[q].who].locked = FALSE]
  /\ Step(q, "issue")
  /\ UNCHANGED <<token, otp, codes, shared>>

LockExpires(u) ==
  /\ account[u].locked
  /\ account' = [account EXCEPT ![u].locked = FALSE]
  /\ UNCHANGED <<token, otp, codes, request, shared>>

UpdateStatus(u) ==
  /\ account' = [account EXCEPT ![u].active = ~@]
  /\ UNCHANGED <<token, otp, codes, request, shared>>

-----------------------------------------------------------------------------
FindToken(q, t) ==
  /\ token[t].state = "live" /\ account[token[t].owner].active
  /\ GoesBy(q, "rotate", token[t].owner, OfToken(t), 0)
  /\ UNCHANGED <<token, account, otp, codes>>

\* A token that is read revoked, or past its time.
FindSpentToken(q, t) ==
  /\ \/ token[t].state = "revoked" /\ GoesBy(q, "reuse", token[t].owner, OfToken(t), 0)
     \/ token[t].state = "expired" /\ GoesBy(q, "expire", token[t].owner, OfToken(t), 0)
  /\ UNCHANGED <<token, account, otp, codes>>

Rotate(q) ==
  /\ request[q].step = "rotate"
  /\ token' = [t \in Token |-> IF OfToken(t) = request[q].from
                               THEN [token[t] EXCEPT !.state = "revoked"] ELSE token[t]]
  /\ Step(q, "issue")
  /\ UNCHANGED <<account, otp, codes, shared>>

\* The reuse of a token ends all sessions of its owner.
RevokeSpent(q) ==
  /\ request[q].step \in {"reuse", "expire"}
  /\ token' = [t \in Token |->
                 IF IF request[q].step = "expire" THEN OfToken(t) = request[q].from
                    ELSE token[t].owner = request[q].who /\ token[t].state # "none"
                 THEN [token[t] EXCEPT !.state = "revoked"] ELSE token[t]]
  /\ Over(q)
  /\ UNCHANGED <<account, otp, codes, shared>>

IssueTokens(q) ==
  /\ request[q].step = "issue"
  /\ \E t \in Token :
       /\ token[t].state = "none" /\ \A s \in 1..(t - 1) : token[s].state # "none"
       /\ token' = [token EXCEPT ![t] = [owner |-> request[q].who, state |-> "live",
                                         from |-> request[q].from]]
  /\ Over(q)
  /\ UNCHANGED <<account, otp, codes, shared>>

Logout(t) ==
  /\ token[t].state \in {"live", "expired"}
  /\ token' = [token EXCEPT ![t].state = "revoked"]
  /\ UNCHANGED <<account, otp, codes, request, shared>>

TokenExpires(t) ==
  /\ token[t].state = "live"
  /\ token' = [token EXCEPT ![t].state = "expired"]
  /\ UNCHANGED <<account, otp, codes, request, shared>>

-----------------------------------------------------------------------------
RequestOtp(c) ==
  /\ codes < MaxCodes
  /\ codes' = codes + 1
  /\ otp' = [otp EXCEPT ![c] = [code |-> codes + 1, attempts |-> 0]]
  /\ UNCHANGED <<token, account, request, shared>>

\* verifyOtp reads the code, and then compares.
ReadCode(q, c, right) ==
  /\ otp[c] # NoCode
  /\ GoesBy(q, IF otp[c].attempts >= MaxTries THEN "drop"
               ELSE IF right THEN "use" ELSE "count",
            c, OfCode(otp[c].code), otp[c].attempts)
  /\ UNCHANGED <<token, account, otp, codes>>

\* The entry is written back as it was read, with one more attempt.
CountAttempt(q) ==
  /\ request[q].step = "count"
  /\ otp' = [otp EXCEPT ![request[q].who] = [code |-> request[q].from[2],
                                             attempts |-> request[q].read + 1]]
  /\ Over(q)
  /\ UNCHANGED <<token, account, codes, shared>>

\* Mutant: a code that opened a session is not deleted.
KeepCode(q) ==
  /\ request[q].step \in {"drop", "use"}
  /\ IF request[q].step = "drop" THEN Over(q) ELSE Step(q, "ensure")
  /\ UNCHANGED <<token, account, otp, codes, shared>>

DeleteCode(q) ==
  /\ request[q].step \in {"drop", "use"}
  /\ otp' = [otp EXCEPT ![request[q].who] = NoCode]
  /\ IF request[q].step = "drop" THEN Over(q) ELSE Step(q, "ensure")
  /\ UNCHANGED <<token, account, codes, shared>>

CodeExpires(c) ==
  /\ otp[c] # NoCode
  /\ otp' = [otp EXCEPT ![c] = NoCode]
  /\ UNCHANGED <<token, account, codes, request, shared>>

\* ensurePortalUser looks for the user ...
EnsurePortalUser(q) ==
  /\ request[q].step = "ensure"
  /\ Step(q, IF account[request[q].who].known THEN "issue" ELSE "create")
  /\ UNCHANGED <<token, account, otp, codes, shared>>

\* ... and creates it; the second of two creations fails, for a customer has one.
CreatePortalUser(q) ==
  /\ request[q].step = "create"
  /\ account' = [account EXCEPT ![request[q].who].known = TRUE]
  /\ IF account[request[q].who].known THEN Over(q) ELSE Step(q, "issue")
  /\ UNCHANGED <<token, otp, codes, shared>>

Dies(q) ==
  /\ request[q] # Done
  /\ Over(q)
  /\ UNCHANGED <<token, account, otp, codes, shared>>

SessionsNext ==
  \/ \E q \in Request :
       \/ WrongPassword(q) \/ RightPassword(q) \/ Rotate(q) \/ RevokeSpent(q)
       \/ IssueTokens(q) \/ CountAttempt(q) \/ DeleteCode(q) \/ EnsurePortalUser(q)
       \/ CreatePortalUser(q) \/ Dies(q)
       \/ \E u \in Staff : FindUser(q, u)
       \/ \E t \in Token : FindToken(q, t) \/ FindSpentToken(q, t)
       \/ \E c \in Customer, right \in BOOLEAN : ReadCode(q, c, right)
  \/ \E u \in Staff : LockExpires(u) \/ UpdateStatus(u)
  \/ \E t \in Token : Logout(t) \/ TokenExpires(t)
  \/ \E c \in Customer : RequestOtp(c) \/ CodeExpires(c)

SessionsSpec == SessionsInit /\ [][SessionsNext]_sessionVars

-----------------------------------------------------------------------------
\* Two sessions come from one token or from one code only if requests that were
\* under way at the same time went by it; retries after an answer that was lost,
\* a crash between the calls or a wrong attempt lead to no second session.
SuccessorsNeedOverlap ==
  \A s, t \in Token :
    s # t /\ token[s].from = token[t].from /\ token[s].from # Login
    => token[s].from \in shared
=============================================================================
