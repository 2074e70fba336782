--------------------------------- MODULE Auth ---------------------------------
(***************************************************************************)
(* AuthService and the local token provider: accounts, their lock after    *)
(* failed logins, refresh tokens and links that reset a password.  Every   *)
(* handler is a few statements that commit one by one, but for the         *)
(* transactions that create a user and that reset a password.  An access   *)
(* token is not stored, and a code sent by mail can be entered nowhere:    *)
(* nothing issues the temporary token verifyOtp() asks for, while any      *)
(* token that is signed makes resendOtp() send one.                        *)
(***************************************************************************)
EXTENDS Handlers

CONSTANTS
    Users,          \* rows of users
    Tenants,
    Emails,
    Passwords,
    MaxUsers,       \* tenant.maxUsers
    MaxAttempts,    \* MAX_LOGIN_ATTEMPTS
    Signed,         \* a user that may have a session and a reset link already, or none
    SignedAs        \* their tenant, e-mail and password

ASSUME AuthAssumption ==
    /\ MaxUsers \in Nat \ {0} /\ MaxAttempts \in Nat \ {0}
    /\ Signed \in SUBSET Users /\ IsFiniteSet(Signed) /\ Cardinality(Signed) <= 1
    /\ SignedAs \in [tenant : Tenants, email : Emails, password : Passwords]
    /\ None \notin Users \cup Tenants

VARIABLES
    user,           \* rows of users
    token,          \* rows of refresh_tokens, by the request that created each
    link,           \* rows of password_resets, by the request that created each
    code,           \* otp_codes that are unused: users and types
    tally           \* (auxiliary) what the counters and sessions of a user went through

authVars == <<user, token, link, code, tally>>

-----------------------------------------------------------------------------
\* late (auxiliary): created on a count of the tenant's users that was old.
NoUser == [present |-> FALSE, tenant |-> None, email |-> None, password |-> None,
           failed |-> 0, locked |-> FALSE, late |-> FALSE]

\* live: neither revoked nor expired.  Auxiliary: parent, the token it was given
\* for; began and created, how often all sessions of its user had been ended when
\* its request began and when it was stored; late, its parent was revoked under it.
NoRow == [user |-> None, live |-> FALSE, parent |-> None, began |-> 0, created |-> 0,
          late |-> FALSE]

\* uses (auxiliary): passwords set with the link by requests that read it unused.
NoLink == [user |-> None, live |-> FALSE, uses |-> 0]

\* failures: failed logins since the counters were last cleared; exact: none was
\* counted from an old value; ended: how often all sessions were ended.
NoTally == [failures |-> 0, exact |-> TRUE, ended |-> 0]

Rows == 0 .. MaxRequests

TokenDoc(n) == <<"token", n>>
LinkDoc(n) == <<"link", n>>
TenantDoc(t) == <<"tenant", t>>

TokensOf(u) == {n \in Rows : token[n].user = u}

\* An account may be there already, after any number of failed logins.
AuthInit ==
    \E signed \in {{}, Signed}, failed \in 0 .. MaxAttempts :
      /\ user = [u \in Users |->
                   IF u \in signed
                   THEN [NoUser EXCEPT !.present = TRUE, !.tenant = SignedAs.tenant,
                           !.email = SignedAs.email, !.password = SignedAs.password,
                           !.failed = failed]
                   ELSE NoUser]
      /\ tally = [u \in Users |->
                    IF u \in signed THEN [NoTally EXCEPT !.failures = failed] ELSE NoTally]
      /\ token = [n \in Rows |->
                    IF n = 0 /\ signed # {}
                    THEN [NoRow EXCEPT !.user = CHOOSE u \in signed : TRUE, !.live = TRUE]
                    ELSE NoRow]
      /\ link = [n \in Rows |->
                   IF n = 0 /\ signed # {}
                   THEN [NoLink EXCEPT !.user = CHOOSE u \in signed : TRUE, !.live = TRUE]
                   ELSE NoLink]
      /\ code = {}

GoOn(r, op) == [request[r] EXCEPT !.op = op]

-----------------------------------------------------------------------------
(* login().                                                                *)

\* Mutant: the lock is not looked at.
BugMayLogIn(u) == user[u].present

MayLogIn(u) == user[u].present /\ ~ user[u].locked

\* The account is read by its e-mail alone, and its lock and password checked on
\* what was read; an account that is unknown or locked is refused here.  So is one
\* that is not active (auth.service.ts:82), which nothing in the repository makes
\* any account: isActive is left out.
Login(r) ==
    \E u \in Users, password \in Passwords :
        /\ MayLogIn(u)
        /\ Read(r, IF password = user[u].password THEN "clear" ELSE "failed", u, None,
                tally[u].ended)
        /\ UNCHANGED authVars

\* handleFailedLogin() reads the count again.
ReadCount(r) ==
    /\ AtWrite(r, "failed")
    /\ request' = [request EXCEPT ![r].op = "count", ![r].late = FALSE,
                                  ![r].was = user[request[r].doc].failed]
    /\ UNCHANGED authVars

WriteCount(r) ==
    /\ AtWrite(r, "count")
    /\ LET u == request[r].doc
           count == request[r].was + 1
       IN  /\ user' = [user EXCEPT ![u].failed = count, ![u].locked = count >= MaxAttempts]
           /\ tally' = [tally EXCEPT ![u].failures = @ + 1,
                                     ![u].exact = @ /\ ~ request[r].late]
           /\ WrittenAll(r, {u}, Served)
    /\ UNCHANGED <<token, link, code>>

\* Mutant: the lock is lifted and the count stays.
BugCleared(account) == [account EXCEPT !.locked = FALSE]

Cleared(account) == [account EXCEPT !.failed = 0, !.locked = FALSE]

\* A password that was right clears the counters as they are by now.
ClearCounters(r) ==
    /\ AtWrite(r, "clear")
    /\ LET u == request[r].doc
       IN  /\ user' = [user EXCEPT ![u] = Cleared(@)]
           /\ tally' = [tally EXCEPT ![u].failures = 0, ![u].exact = TRUE]
           /\ WrittenAll(r, {u}, GoOn(r, "issue"))
    /\ UNCHANGED <<token, link, code>>

\* The token that was given for a new one, unless there was a login.
ParentOf(dto) == IF dto = None THEN None ELSE dto.refreshToken

\* issueTokens(): roles are read, the refresh token is stored.
IssueTokens(r) ==
    /\ AtWrite(r, "issue")
    /\ LET u == request[r].doc
       IN  token' = [token EXCEPT ![r] =
             [user |-> u, live |-> TRUE, parent |-> ParentOf(request[r].dto),
              began |-> request[r].was, created |-> tally[u].ended,
              late |-> request[r].late]]
    /\ Refuse(r)
    /\ UNCHANGED <<user, link, code, tally>>

-----------------------------------------------------------------------------
(* refreshToken(), logout(), logoutAll().                                  *)

\* Mutant: a revoked token is found as long as it has not expired.
BugUsable(n) == token[n].user # None

Usable(n) == token[n].live

RefreshTokenDto == [refreshToken : Rows]

RefreshToken(r) ==
    \E dto \in RefreshTokenDto :
        /\ Usable(dto.refreshToken)
        /\ Read(r, "rotate", TokenDoc(dto.refreshToken), dto,
                tally[token[dto.refreshToken].user].ended)
        /\ UNCHANGED authVars

\* The token is revoked by its id, whether or not it still is the one that was read.
Rotate(r) ==
    /\ AtWrite(r, "rotate")
    /\ LET n == request[r].dto.refreshToken
       IN  /\ token' = [token EXCEPT ![n].live = FALSE]
           /\ Written(r, [GoOn(r, "issue") EXCEPT !.doc = token[n].user])
    /\ UNCHANGED <<user, link, code, tally>>

Revoke(rows) == token' = [n \in Rows |-> [token[n] EXCEPT !.live = @ /\ n \notin rows]]

\* revokeTokens() with a token: that one, if it is the user's.
Logout(r) ==
    \E u \in Users, n \in Rows :
        /\ Arrives(r) /\ user[u].present
        /\ Revoke({n} \cap TokensOf(u))
        /\ WrittenAll(r, {TokenDoc(n)}, Served)
        /\ UNCHANGED <<user, link, code, tally>>

\* revokeTokens() without one, by logoutAll() and by logout() alike.
RevokeAll(r, op) ==
    \E u \in Users :
        /\ Arrives(r) /\ user[u].present
        /\ Revoke(TokensOf(u))
        /\ tally' = [tally EXCEPT ![u].ended = @ + 1]
        /\ WrittenAll(r, {TokenDoc(n) : n \in TokensOf(u)}, [Served EXCEPT !.op = op])
        /\ UNCHANGED <<user, link, code>>

LogoutAll(r) == RevokeAll(r, "logoutAll")

LogoutWithout(r) == RevokeAll(r, "logout")

-----------------------------------------------------------------------------
(* forgotPassword(), resetPassword(), changePassword().                    *)

ForgotPassword(r) ==
    \E u \in Users :
        /\ Arrives(r) /\ user[u].present
        /\ link' = [link EXCEPT ![r] = [NoLink EXCEPT !.user = u, !.live = TRUE]]
        /\ Refuse(r)
        /\ UNCHANGED <<user, token, code, tally>>

ResetPasswordDto == [link : Rows, password : Passwords]

ResetPassword(r) ==
    \E dto \in ResetPasswordDto :
        /\ link[dto.link].live
        /\ Read(r, "reset", LinkDoc(dto.link), dto, None)
        /\ UNCHANGED authVars

\* Mutant: the link is not marked as used.
BugUsedLink(n) == link[n]

UsedLink(n) == [link[n] EXCEPT !.live = FALSE]

\* The batch of three updates is one transaction; the link is updated by its id.
SetPassword(r) ==
    /\ AtWrite(r, "reset")
    /\ LET n == request[r].dto.link
           u == link[n].user
       IN  /\ user' = [user EXCEPT ![u] =
                         [Cleared(@) EXCEPT !.password = request[r].dto.password]]
           /\ link' = [link EXCEPT ![n] =
                         [UsedLink(n) EXCEPT !.uses = @ + (IF request[r].late THEN 0 ELSE 1)]]
           /\ Revoke(TokensOf(u))
           /\ tally' = [tally EXCEPT ![u] = [failures |-> 0, exact |-> TRUE, ended |-> @.ended + 1]]
           /\ WrittenAll(r, {u, LinkDoc(n)} \cup {TokenDoc(m) : m \in TokensOf(u)}, Served)
    /\ UNCHANGED code

\* The current password is compared with what was read, and must differ from the
\* new one; sessions, counters and lock stay.
ChangePassword(r) ==
    \E u \in Users, password \in Passwords :
        /\ user[u].present /\ password # user[u].password
        /\ Read(r, "change", u, password, None)
        /\ UNCHANGED authVars

WritePassword(r) ==
    /\ AtWrite(r, "change")
    /\ user' = [user EXCEPT ![request[r].doc].password = request[r].dto]
    /\ Refuse(r)
    /\ UNCHANGED <<token, link, code, tally>>

-----------------------------------------------------------------------------
(* register().                                                             *)

RegisterDto == [tenant : Tenants, email : Emails, password : Passwords]

UsersOf(t) == {u \in Users : user[u].tenant = t}

\* Mutant: the limit is compared with the count before the new user.
BugBelowLimit(t) == Cardinality(UsersOf(t)) <= MaxUsers

BelowLimit(t) == Cardinality(UsersOf(t)) < MaxUsers

\* Tenant and limit are checked first.
Register(r) ==
    \E dto \in RegisterDto :
        /\ BelowLimit(dto.tenant)
        /\ Read(r, "email", TenantDoc(dto.tenant), dto, None)
        /\ UNCHANGED authVars

Taken(t, e) == \E u \in UsersOf(t) : user[u].email = e

CheckEmail(r) ==
    /\ AtWrite(r, "email")
    /\ request' = [request EXCEPT ![r] = IF Taken(@.dto.tenant, @.dto.email)
                                         THEN Served ELSE GoOn(r, "insert")]
    /\ UNCHANGED authVars

\* One transaction: the user, with a new id, and its roles, unless (tenantId, email)
\* is taken.
CreateUser(r) ==
    /\ AtWrite(r, "insert") /\ ~ Taken(request[r].dto.tenant, request[r].dto.email)
    /\ \E u \in Users : ~ user[u].present
    /\ LET u == CHOOSE u \in Users : ~ user[u].present
       IN  /\ user' = [user EXCEPT ![u] =
                 [NoUser EXCEPT !.present = TRUE, !.tenant = request[r].dto.tenant,
                                !.email = request[r].dto.email,
                                !.password = request[r].dto.password, !.late = request[r].late]]
           /\ Written(r, [GoOn(r, "EMAIL_VERIFY") EXCEPT !.doc = u])
    /\ UNCHANGED <<token, link, code, tally>>

RefuseEmail(r) ==
    /\ AtWrite(r, "insert") /\ Taken(request[r].dto.tenant, request[r].dto.email)
    /\ Refuse(r)
    /\ UNCHANGED authVars

\* resendOtp(): generateAndSendOtp() uses up the codes of the type it sends, of
\* which a new user has none.
ResendOtp(r) ==
    \E u \in Users :
        /\ user[u].present
        /\ Read(r, "MFA_LOGIN", u, None, None)
        /\ code' = code \ {<<u, "MFA_LOGIN">>}
        /\ UNCHANGED <<user, token, link, tally>>

\* It then stores the new one.
SendCode(r) ==
    /\ \E type \in {"EMAIL_VERIFY", "MFA_LOGIN"} :
         AtWrite(r, type) /\ code' = code \cup {<<request[r].doc, type>>}
    /\ Refuse(r)
    /\ UNCHANGED <<user, token, link, tally>>

-----------------------------------------------------------------------------
(* Time and failures.                                                      *)

\* LOCK_DURATION_MINS are over; the count stays.
LockEnds(u) ==
    /\ user[u].locked
    /\ user' = [user EXCEPT ![u].locked = FALSE]
    /\ UNCHANGED <<request, token, link, code, tally>>

\* REFRESH_EXPIRY_DAYS are over, or the quarter of an hour of a link.
Expires(n) ==
    /\ \/ token[n].live /\ token' = [token EXCEPT ![n].live = FALSE] /\ UNCHANGED link
       \/ link[n].live /\ link' = [link EXCEPT ![n].live = FALSE] /\ UNCHANGED token
    /\ UNCHANGED <<request, user, code, tally>>

\* A statement fails: what was committed before it stays.
AuthFails(r) ==
    /\ request[r].pc = "write"
    /\ Refuse(r)
    /\ UNCHANGED authVars

AuthRequest(r) ==
    \/ Login(r) \/ ReadCount(r) \/ WriteCount(r) \/ ClearCounters(r) \/ IssueTokens(r)
    \/ RefreshToken(r) \/ Rotate(r) \/ Logout(r) \/ LogoutAll(r) \/ LogoutWithout(r)
    \/ ForgotPassword(r) \/ ResetPassword(r) \/ SetPassword(r)
    \/ ChangePassword(r) \/ WritePassword(r)
    \/ Register(r) \/ CheckEmail(r) \/ CreateUser(r) \/ RefuseEmail(r)
    \/ ResendOtp(r) \/ SendCode(r)
    \/ AuthFails(r)

AuthNext ==
    \/ \E r \in Requests : AuthRequest(r)
    \/ \E u \in Users : LockEnds(u)
    \/ \E n \in Rows : Expires(n)

-----------------------------------------------------------------------------
(* Properties.                                                             *)

\* While an account is locked no login that read it since lifts the lock: only
\* time, a reset, and a login that read the account before it was locked do
\* (login, handleFailedLogin).
LockHolds ==
    [][\A u \in Users : (user[u].locked /\ ~ user'[u].locked) =>
          \/ UNCHANGED request
          \/ \E r \in Requests :
               /\ request[r] # request'[r] /\ request[r].pc = "write"
               /\ \/ request[r].op = "reset"
                  \/ request[r].doc = u /\ request[r].late]_<<request, authVars>>

\* The count of an account is the number of logins that failed since it was last
\* cleared, unless one of them counted from a value that was old when written.
FailuresAreCounted ==
    \A u \in Users : tally[u].exact => user[u].failed = tally[u].failures

\* A refresh token is followed by one token, and a reset link sets one password,
\* but for requests that overlapped another write to the token or link they use,
\* or, once the old token is revoked, to the row of its user.
UsedOnce ==
    \A n \in Rows :
        /\ Cardinality({m \in Rows : token[m].parent = n /\ ~ token[m].late}) <= 1
        /\ link[n].uses <= 1

\* When all sessions of a user were ended, none of the tokens stored before is
\* live, nor is one ever the start of another session, except by a request that
\* had begun by then (logoutAll, resetPassword).
EndedStayEnded ==
    \A n \in Rows : token[n].user # None =>
        /\ token[n].live => token[n].created = tally[token[n].user].ended
        /\ token[n].parent # None => token[n].began = token[token[n].parent].created

\* A tenant has no more users than its plan allows, those aside whose registration
\* overlapped another's, and never two with one e-mail (register).
WithinPlan ==
    \A t \in Tenants :
        /\ Cardinality({u \in UsersOf(t) : ~ user[u].late}) <= MaxUsers
        /\ \A u, v \in UsersOf(t) : user[u].email = user[v].email => u = v

=============================================================================
