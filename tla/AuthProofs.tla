------------------------------ MODULE AuthProofs ------------------------------
(***************************************************************************)
(* Theorems about accounts, refresh tokens and reset links.  The invariant *)
(* has five parts: types, accounts with their counters, reset links,       *)
(* tokens, and the users of a tenant.  Each says what its rows are and     *)
(* what a request that waits to write still knows of them as long as no    *)
(* other request has written what it read.                                 *)
(***************************************************************************)
EXTENDS DocumentsProofs

-----------------------------------------------------------------------------
(* The invariant.                                                          *)

AuthOps == {"clear", "failed", "count", "issue", "rotate", "reset", "change", "email",
            "insert", "EMAIL_VERIFY", "MFA_LOGIN", "logout", "logoutAll"}

AuthDocs == Users \cup {TokenDoc(n) : n \in Rows} \cup {LinkDoc(n) : n \in Rows}
                  \cup {TenantDoc(t) : t \in Tenants}

AuthDtos == RefreshTokenDto \cup ResetPasswordDto \cup Passwords \cup RegisterDto

AuthRequests == RequestsIn(AuthOps, AuthDocs, AuthDtos, Nat)

UserRows == [present : BOOLEAN, tenant : Tenants \cup {None}, email : Emails \cup {None},
             password : Passwords \cup {None}, failed : Nat, locked : BOOLEAN,
             late : BOOLEAN]

TokenRows == [user : Users \cup {None}, live : BOOLEAN, parent : Rows \cup {None},
              began : Nat, created : Nat, late : BOOLEAN]

LinkRows == [user : Users \cup {None}, live : BOOLEAN, uses : Nat]

TallyRows == [failures : Nat, exact : BOOLEAN, ended : Nat]

AuthTypeOK ==
    /\ request \in AuthRequests
    /\ user \in [Users -> UserRows]
    /\ token \in [Rows -> TokenRows]
    /\ link \in [Rows -> LinkRows]
    /\ tally \in [Users -> TallyRows]

\* Requests that will still write, and for what.
Waits(r, ops) == request[r].pc = "write" /\ request[r].op \in ops

\* The count of an account is exact unless an old one was written, and a lock stands
\* on enough failures.
AccountSound(u) ==
    /\ ~ user[u].present => user[u] = NoUser /\ tally[u].failures = 0
    /\ tally[u].exact => user[u].failed = tally[u].failures
    /\ user[u].locked => user[u].failed >= MaxAttempts

\* A login that found the account unlocked, or read its count, knows it as long as
\* nobody wrote the account.
AccountKnown(r) ==
    /\ Waits(r, {"clear", "failed", "count", "change"}) =>
         request[r].doc \in Users /\ user[request[r].doc].present
    /\ Waits(r, {"clear", "failed", "count"}) =>
         request[r].dto = None /\ request[r].was \in Nat
    /\ Waits(r, {"change"}) => request[r].dto \in Passwords
    /\ Waits(r, {"count"}) /\ ~ request[r].late =>
         request[r].was = user[request[r].doc].failed
    /\ Waits(r, {"clear"}) /\ ~ request[r].late => ~ user[request[r].doc].locked

AccountsInv ==
    /\ \A u \in Users : AccountSound(u)
    /\ \A r \in Requests : AccountKnown(r)

\* A link that still works has set no password; a request has no row before it is
\* done.
LinkSound(n) ==
    /\ link[n].user # None => user[link[n].user].present
    /\ link[n].live => link[n].user # None /\ link[n].uses = 0
    /\ link[n].uses <= 1

LinkKnown(r) ==
    Waits(r, {"reset"}) =>
      /\ request[r].dto \in ResetPasswordDto
      /\ request[r].doc = LinkDoc(request[r].dto.link)
      /\ link[request[r].dto.link].user \in Users
      /\ ~ request[r].late => link[request[r].dto.link].uses = 0

LinksInv ==
    /\ \A n \in Rows : LinkSound(n)
    /\ \A r \in Requests : request[r].pc \in {"idle", "write"} => link[r] = NoLink
    /\ \A r \in Requests : LinkKnown(r)

\* A token is followed by the tokens that were given for it, and by the requests that
\* revoked it and will store another, but for those it was revoked under.
Follows(n, m) ==
    \/ token[m].parent = n /\ ~ token[m].late
    \/ /\ m \in Requests /\ Waits(m, {"issue"})
       /\ ParentOf(request[m].dto) = n /\ ~ request[m].late

\* Whoever has read a token by its request, and nobody revoked it since.
Rotates(r, n) == Waits(r, {"rotate"}) /\ request[r].dto.refreshToken = n

TokenKnown(r) ==
    /\ request[r].pc \in {"idle", "write"} => token[r] = NoRow
    /\ Waits(r, {"rotate"}) =>
         /\ request[r].dto \in RefreshTokenDto
         /\ request[r].doc = TokenDoc(request[r].dto.refreshToken)
         /\ token[request[r].dto.refreshToken].user \in Users
         /\ request[r].was = token[request[r].dto.refreshToken].created
    /\ Waits(r, {"issue"}) =>
         /\ request[r].doc \in Users /\ request[r].was \in Nat
         /\ ParentOf(request[r].dto) \in Rows \cup {None}
         /\ ParentOf(request[r].dto) \in Rows =>
              /\ token[ParentOf(request[r].dto)].user \in Users
              /\ request[r].was = token[ParentOf(request[r].dto)].created

\* A token that works was stored since its user's sessions were last ended; one that
\* is given for another started from its session.
TokenSound(n) ==
    /\ token[n].user = None => token[n] = NoRow
    /\ token[n].live => token[n].created = tally[token[n].user].ended
    /\ token[n].parent \in Rows =>
         /\ token[token[n].parent].user \in Users
         /\ token[n].began = token[token[n].parent].created

\* At most one follows a token, and none while it works or while a request that read
\* it working is about to revoke it.
FollowedOnce ==
    \A n \in Rows :
      /\ \A m, k \in Rows : Follows(n, m) /\ Follows(n, k) => m = k
      /\ token[n].live => \A m \in Rows : ~ Follows(n, m)
      /\ \A r \in Requests : Rotates(r, n) /\ ~ request[r].late => \A m \in Rows : ~ Follows(n, m)

TokensInv ==
    /\ \A n \in Rows : TokenSound(n)
    /\ \A r \in Requests : TokenKnown(r)
    /\ FollowedOnce

\* Users whose registration overlapped no other's.
InTime(t) == {u \in UsersOf(t) : ~ user[u].late}

TenantSound(t) ==
    /\ IsFiniteSet(UsersOf(t))
    /\ Cardinality(InTime(t)) <= MaxUsers
    /\ \A u, v \in UsersOf(t) : user[u].email = user[v].email => u = v

\* A registration that found the tenant below its limit knows it as long as no other
\* user was inserted.
PlanKnown(r) ==
    Waits(r, {"email", "insert"}) =>
      /\ request[r].dto \in RegisterDto
      /\ request[r].doc = TenantDoc(request[r].dto.tenant)
      /\ ~ request[r].late => Cardinality(UsersOf(request[r].dto.tenant)) < MaxUsers

PlanInv ==
    /\ \A t \in Tenants : TenantSound(t)
    /\ \A r \in Requests : PlanKnown(r)

AuthInv == AuthTypeOK /\ AccountsInv /\ LinksInv /\ TokensInv /\ PlanInv

-----------------------------------------------------------------------------
(* What the steps do to the requests.                                      *)

AuthRow == [pc : {"idle", "write", "emit", "done"}, op : AuthOps \cup {None},
            doc : AuthDocs \cup {None}, dto : AuthDtos \cup {None}, was : Nat \cup {None},
            late : BOOLEAN]

\* A request that goes on as x disturbs no other.
LEMMA AuthGoesOn ==
    ASSUME AuthTypeOK, NEW r \in Requests, NEW x, x \in AuthRow,
           request' = [request EXCEPT ![r] = x]
    PROVE  request' \in AuthRequests /\ request'[r] = x /\ OthersAfter(r, {})
BY DEF AuthTypeOK, AuthRequests, RequestsIn, AuthRow, OthersAfter, Same

LEMMA AuthWrites ==
    ASSUME AuthTypeOK, NEW r \in Requests, NEW STATE docs, NEW STATE next,
           next \in AuthRow, WrittenAll(r, docs, next)
    PROVE  request' \in AuthRequests /\ request'[r] = next /\ OthersAfter(r, docs)
<1> HIDE DEF WrittenAll
<1>1. request \in RequestsIn(AuthOps, AuthDocs, AuthDtos, Nat)
  BY DEF AuthTypeOK, AuthRequests
<1> QED
  BY <1>1, WriteKeeps DEF AuthRequests, AuthRow

LEMMA AuthRefused ==
    ASSUME AuthTypeOK, NEW r \in Requests, Refuse(r)
    PROVE  request' \in AuthRequests /\ request'[r].pc = "done" /\ OthersAfter(r, {})
<1>1. Served \in AuthRow /\ Served.pc = "done"
  BY ServedFields DEF AuthRow
<1> QED
  BY <1>1, AuthGoesOn DEF Refuse

LEMMA AuthNames ==
    /\ Users \subseteq AuthDocs
    /\ \A n \in Rows : TokenDoc(n) \in AuthDocs /\ LinkDoc(n) \in AuthDocs
    /\ \A t \in Tenants : TenantDoc(t) \in AuthDocs
    /\ RefreshTokenDto \subseteq AuthDtos /\ ResetPasswordDto \subseteq AuthDtos
    /\ Passwords \subseteq AuthDtos /\ RegisterDto \subseteq AuthDtos
    /\ Requests \subseteq Rows /\ None \notin Rows /\ None \notin Users
    /\ None \notin Tenants
BY AuthAssumption, HandlersAssumption DEF AuthDocs, AuthDtos, Rows, Requests

\* The fields of rows that are not there.
LEMMA AuthNone ==
    /\ NoUser \in UserRows /\ NoUser.present = FALSE /\ NoUser.tenant = None
    /\ NoUser.failed = 0 /\ NoUser.locked = FALSE /\ NoUser.late = FALSE
    /\ NoRow \in TokenRows /\ NoRow.user = None /\ NoRow.live = FALSE
    /\ NoRow.parent = None /\ NoRow.late = FALSE
    /\ NoLink \in LinkRows /\ NoLink.user = None /\ NoLink.live = FALSE /\ NoLink.uses = 0
    /\ NoTally \in TallyRows /\ NoTally.failures = 0 /\ NoTally.exact = TRUE
    /\ NoTally.ended = 0
BY DEF NoUser, UserRows, NoRow, TokenRows, NoLink, LinkRows, NoTally, TallyRows

\* The requests that read: what they know, and that they disturb no other.
LEMMA LoginReads ==
    ASSUME AuthTypeOK, NEW r \in Requests, Login(r)
    PROVE  \E u \in Users :
             /\ MayLogIn(u)
             /\ request' \in AuthRequests /\ OthersAfter(r, {}) /\ request[r].pc = "idle"
             /\ request'[r].pc = "write" /\ request'[r].op \in {"clear", "failed"}
             /\ request'[r].doc = u /\ request'[r].dto = None /\ request'[r].was \in Nat
<1>1. PICK u \in Users, password \in Passwords :
        /\ MayLogIn(u)
        /\ Read(r, IF password = user[u].password THEN "clear" ELSE "failed", u, None,
                tally[u].ended)
  BY DEF Login
<1>2. PICK op \in {"clear", "failed"} :
        op = IF password = user[u].password THEN "clear" ELSE "failed"
  OBVIOUS
<1>3. PICK was \in Nat : was = tally[u].ended
  BY DEF AuthTypeOK, TallyRows
<1>4. u \in AuthDocs /\ op \in AuthOps
  BY AuthNames DEF AuthOps
<1>5. PICK x \in AuthRow : x = [pc |-> "write", op |-> op, doc |-> u, dto |-> None,
                                was |-> was, late |-> FALSE]
  BY <1>4 DEF AuthRow
<1>6. request' = [request EXCEPT ![r] = x] /\ request[r].pc = "idle"
  BY <1>1, <1>2, <1>3, <1>5 DEF Read, Arrives
<1>7. request' \in AuthRequests /\ request'[r] = x /\ OthersAfter(r, {})
  BY <1>6, AuthGoesOn
<1> QED
  BY <1>1, <1>5, <1>6, <1>7

LEMMA RefreshTokenReads ==
    ASSUME AuthTypeOK, NEW r \in Requests, RefreshToken(r),
           \A n \in Rows : token[n].live => token[n].user \in Users
    PROVE  \E n \in Rows :
             /\ token[n].live
             /\ request' \in AuthRequests /\ OthersAfter(r, {}) /\ request[r].pc = "idle"
             /\ request'[r].pc = "write" /\ request'[r].op = "rotate"
             /\ request'[r].doc = TokenDoc(n)
             /\ request'[r].dto \in RefreshTokenDto /\ request'[r].dto.refreshToken = n
             /\ request'[r].was = tally[token[n].user].ended
<1>1. PICK dto \in RefreshTokenDto :
        /\ Usable(dto.refreshToken)
        /\ Read(r, "rotate", TokenDoc(dto.refreshToken), dto,
                tally[token[dto.refreshToken].user].ended)
  BY DEF RefreshToken
<1>2. PICK n \in Rows : n = dto.refreshToken
  BY DEF RefreshTokenDto
<1>3. token[n].live /\ token[n].user \in Users
  BY <1>1, <1>2 DEF Usable
<1>4. PICK was \in Nat : was = tally[token[n].user].ended
  BY <1>3 DEF AuthTypeOK, TallyRows
<1>5. TokenDoc(n) \in AuthDocs /\ "rotate" \in AuthOps /\ dto \in AuthDtos
  BY AuthNames DEF AuthOps
<1>6. PICK x \in AuthRow : x = [pc |-> "write", op |-> "rotate", doc |-> TokenDoc(n),
                                dto |-> dto, was |-> was, late |-> FALSE]
  BY <1>5 DEF AuthRow
<1>7. request' = [request EXCEPT ![r] = x] /\ request[r].pc = "idle"
  BY <1>1, <1>2, <1>4, <1>6 DEF Read, Arrives
<1>8. request' \in AuthRequests /\ request'[r] = x /\ OthersAfter(r, {})
  BY <1>7, AuthGoesOn
<1> QED
  BY <1>2, <1>3, <1>4, <1>6, <1>7, <1>8

LEMMA ResetPasswordReads ==
    ASSUME AuthTypeOK, NEW r \in Requests, ResetPassword(r)
    PROVE  \E n \in Rows :
             /\ link[n].live
             /\ request' \in AuthRequests /\ OthersAfter(r, {}) /\ request[r].pc = "idle"
             /\ request'[r].pc = "write" /\ request'[r].op = "reset"
             /\ request'[r].doc = LinkDoc(n)
             /\ request'[r].dto \in ResetPasswordDto /\ request'[r].dto.link = n
<1>1. PICK dto \in ResetPasswordDto :
        link[dto.link].live /\ Read(r, "reset", LinkDoc(dto.link), dto, None)
  BY DEF ResetPassword
<1>2. PICK n \in Rows : n = dto.link
  BY DEF ResetPasswordDto
<1>3. LinkDoc(n) \in AuthDocs /\ "reset" \in AuthOps /\ dto \in AuthDtos
  BY AuthNames DEF AuthOps
<1>4. PICK x \in AuthRow : x = [pc |-> "write", op |-> "reset", doc |-> LinkDoc(n),
                                dto |-> dto, was |-> None, late |-> FALSE]
  BY <1>3 DEF AuthRow
<1>5. request' = [request EXCEPT ![r] = x] /\ request[r].pc = "idle"
  BY <1>1, <1>2, <1>4 DEF Read, Arrives
<1>6. request' \in AuthRequests /\ request'[r] = x /\ OthersAfter(r, {})
  BY <1>5, AuthGoesOn
<1> QED
  BY <1>1, <1>2, <1>4, <1>5, <1>6

LEMMA ChangePasswordReads ==
    ASSUME AuthTypeOK, NEW r \in Requests, ChangePassword(r)
    PROVE  \E u \in Users :
             /\ user[u].present
             /\ request' \in AuthRequests /\ OthersAfter(r, {}) /\ request[r].pc = "idle"
             /\ request'[r].pc = "write" /\ request'[r].op = "change"
             /\ request'[r].doc = u /\ request'[r].dto \in Passwords
<1>1. PICK u \in Users, password \in Passwords :
        user[u].present /\ Read(r, "change", u, password, None)
  BY DEF ChangePassword
<1>2. u \in AuthDocs /\ "change" \in AuthOps /\ password \in AuthDtos
  BY AuthNames DEF AuthOps
<1>3. PICK x \in AuthRow : x = [pc |-> "write", op |-> "change", doc |-> u,
                                dto |-> password, was |-> None, late |-> FALSE]
  BY <1>2 DEF AuthRow
<1>4. request' = [request EXCEPT ![r] = x] /\ request[r].pc = "idle"
  BY <1>1, <1>3 DEF Read, Arrives
<1>5. request' \in AuthRequests /\ request'[r] = x /\ OthersAfter(r, {})
  BY <1>4, AuthGoesOn
<1> QED
  BY <1>1, <1>3, <1>4, <1>5

LEMMA RegisterReads ==
    ASSUME AuthTypeOK, NEW r \in Requests, Register(r)
    PROVE  \E t \in Tenants :
             /\ BelowLimit(t)
             /\ request' \in AuthRequests /\ OthersAfter(r, {}) /\ request[r].pc = "idle"
             /\ request'[r].pc = "write" /\ request'[r].op = "email"
             /\ request'[r].doc = TenantDoc(t)
             /\ request'[r].dto \in RegisterDto /\ request'[r].dto.tenant = t
<1>1. PICK dto \in RegisterDto :
        BelowLimit(dto.tenant) /\ Read(r, "email", TenantDoc(dto.tenant), dto, None)
  BY DEF Register
<1>2. PICK t \in Tenants : t = dto.tenant
  BY DEF RegisterDto
<1>3. TenantDoc(t) \in AuthDocs /\ "email" \in AuthOps /\ dto \in AuthDtos
  BY AuthNames DEF AuthOps
<1>4. PICK x \in AuthRow : x = [pc |-> "write", op |-> "email", doc |-> TenantDoc(t),
                                dto |-> dto, was |-> None, late |-> FALSE]
  BY <1>3 DEF AuthRow
<1>5. request' = [request EXCEPT ![r] = x] /\ request[r].pc = "idle"
  BY <1>1, <1>2, <1>4 DEF Read, Arrives
<1>6. request' \in AuthRequests /\ request'[r] = x /\ OthersAfter(r, {})
  BY <1>5, AuthGoesOn
<1> QED
  BY <1>1, <1>2, <1>4, <1>5, <1>6

LEMMA ResendOtpReads ==
    ASSUME AuthTypeOK, NEW r \in Requests, ResendOtp(r)
    PROVE  /\ request' \in AuthRequests /\ OthersAfter(r, {}) /\ request[r].pc = "idle"
           /\ request'[r].pc = "write" /\ request'[r].op = "MFA_LOGIN"
<1>1. PICK u \in Users : Read(r, "MFA_LOGIN", u, None, None)
  BY DEF ResendOtp
<1>2. u \in AuthDocs /\ "MFA_LOGIN" \in AuthOps
  BY AuthNames DEF AuthOps
<1>3. PICK x \in AuthRow : x = [pc |-> "write", op |-> "MFA_LOGIN", doc |-> u,
                                dto |-> None, was |-> None, late |-> FALSE]
  BY <1>2 DEF AuthRow
<1>4. request' = [request EXCEPT ![r] = x] /\ request[r].pc = "idle"
  BY <1>1, <1>3 DEF Read, Arrives
<1>5. request' \in AuthRequests /\ request'[r] = x /\ OthersAfter(r, {})
  BY <1>4, AuthGoesOn
<1> QED
  BY <1>3, <1>4, <1>5

\* The requests that go on after a statement.
LEMMA ReadCountGoesOn ==
    ASSUME AuthTypeOK, AccountsInv, NEW r \in Requests, ReadCount(r)
    PROVE  /\ request' \in AuthRequests /\ OthersAfter(r, {}) /\ Waits(r, {"failed"})
           /\ request'[r].pc = "write" /\ request'[r].op = "count"
           /\ request'[r].doc = request[r].doc /\ request'[r].dto = request[r].dto
           /\ request'[r].was = user[request[r].doc].failed
<1>1. Waits(r, {"failed"}) /\ request[r].doc \in Users
  BY DEF AccountsInv, AccountKnown, ReadCount, AtWrite, Waits
<1>2. PICK was \in Nat : was = user[request[r].doc].failed
  BY <1>1 DEF AuthTypeOK, UserRows
<1>3. request[r] \in AuthRow
  BY DEF AuthTypeOK, AuthRequests, RequestsIn, AuthRow
<1>4. PICK x \in AuthRow : x = [request[r] EXCEPT !.op = "count", !.late = FALSE, !.was = was]
  BY <1>3 DEF AuthRow, AuthOps
<1>5. x.pc = request[r].pc /\ x.op = "count" /\ x.doc = request[r].doc
      /\ x.dto = request[r].dto /\ x.was = was
  BY <1>3, <1>4 DEF AuthRow
<1>6. request' = [request EXCEPT ![r] = x]
  BY <1>2, <1>4 DEF ReadCount, AuthTypeOK, AuthRequests, RequestsIn
<1>7. request' \in AuthRequests /\ request'[r] = x /\ OthersAfter(r, {})
  BY <1>6, AuthGoesOn
<1> QED
  BY <1>1, <1>2, <1>5, <1>7 DEF Waits

LEMMA CheckEmailGoesOn ==
    ASSUME AuthTypeOK, NEW r \in Requests, CheckEmail(r)
    PROVE  /\ request' \in AuthRequests /\ OthersAfter(r, {}) /\ Waits(r, {"email"})
           /\ \/ request'[r].pc = "done"
              \/ /\ request'[r].pc = "write" /\ request'[r].op = "insert"
                 /\ request'[r].doc = request[r].doc /\ request'[r].dto = request[r].dto
                 /\ request'[r].late = request[r].late
<1>1. Waits(r, {"email"})
  BY DEF CheckEmail, AtWrite, Waits
<1>2. Served \in AuthRow /\ Served.pc = "done"
  BY ServedFields DEF AuthRow
<1>3. request[r] \in AuthRow
  BY DEF AuthTypeOK, AuthRequests, RequestsIn, AuthRow
<1>4. PICK x \in AuthRow : x = GoOn(r, "insert")
  BY <1>3 DEF GoOn, AuthRow, AuthOps
<1>5. x.pc = request[r].pc /\ x.op = "insert" /\ x.doc = request[r].doc
      /\ x.dto = request[r].dto /\ x.late = request[r].late
  BY <1>3, <1>4 DEF GoOn, AuthRow
<1>6. CASE Taken(request[r].dto.tenant, request[r].dto.email)
  <2>1. request' = [request EXCEPT ![r] = Served]
    BY <1>6 DEF CheckEmail
  <2> QED
    BY <1>1, <1>2, <2>1, AuthGoesOn
<1>7. CASE ~ Taken(request[r].dto.tenant, request[r].dto.email)
  <2>1. request' = [request EXCEPT ![r] = x]
    BY <1>4, <1>7 DEF CheckEmail
  <2>2. request' \in AuthRequests /\ request'[r] = x /\ OthersAfter(r, {})
    BY <2>1, AuthGoesOn
  <2> QED
    BY <1>1, <1>5, <2>2 DEF Waits
<1> QED
  BY <1>6, <1>7

LEMMA ClearCountersGoesOn ==
    ASSUME AuthTypeOK, AccountsInv, NEW r \in Requests, ClearCounters(r)
    PROVE  /\ request' \in AuthRequests /\ Waits(r, {"clear"})
           /\ OthersAfter(r, {request[r].doc})
           /\ request'[r].pc = "write" /\ request'[r].op = "issue"
           /\ request'[r].doc = request[r].doc /\ request'[r].doc \in Users
           /\ request'[r].dto = None /\ request'[r].was \in Nat
<1>1. /\ Waits(r, {"clear"}) /\ request[r].doc \in Users
      /\ request[r].dto = None /\ request[r].was \in Nat
  BY DEF AccountsInv, AccountKnown, ClearCounters, AtWrite, Waits
<1>2. request[r] \in AuthRow
  BY DEF AuthTypeOK, AuthRequests, RequestsIn, AuthRow
<1>3. PICK x \in AuthRow : x = GoOn(r, "issue")
  BY <1>2 DEF GoOn, AuthRow, AuthOps
<1>4. x.pc = request[r].pc /\ x.op = "issue" /\ x.doc = request[r].doc
      /\ x.dto = request[r].dto /\ x.was = request[r].was
  BY <1>2, <1>3 DEF GoOn, AuthRow
<1>5. WrittenAll(r, {request[r].doc}, x)
  BY <1>3 DEF ClearCounters
<1>6. request' \in AuthRequests /\ request'[r] = x /\ OthersAfter(r, {request[r].doc})
  BY <1>5, AuthWrites
<1> QED
  BY <1>1, <1>4, <1>6 DEF Waits

LEMMA RotateGoesOn ==
    ASSUME AuthTypeOK, TokensInv, NEW r \in Requests, Rotate(r)
    PROVE  \E n \in Rows :
             /\ Rotates(r, n) /\ token[n].user \in Users
             /\ request' \in AuthRequests /\ OthersAfter(r, {TokenDoc(n)})
             /\ request'[r].pc = "write" /\ request'[r].op = "issue"
             /\ request'[r].doc = token[n].user /\ request'[r].dto = request[r].dto
             /\ request'[r].was = request[r].was /\ request'[r].late = request[r].late
<1>1. Waits(r, {"rotate"})
  BY DEF Rotate, AtWrite, Waits
<1>2. /\ request[r].dto \in RefreshTokenDto
      /\ request[r].doc = TokenDoc(request[r].dto.refreshToken)
      /\ token[request[r].dto.refreshToken].user \in Users
  BY <1>1 DEF TokensInv, TokenKnown
<1>3. PICK n \in Rows : n = request[r].dto.refreshToken
  BY <1>2 DEF RefreshTokenDto
<1>4. request[r] \in AuthRow
  BY DEF AuthTypeOK, AuthRequests, RequestsIn, AuthRow
<1>5. PICK u \in Users : u = token[n].user
  BY <1>2, <1>3
<1>6. u \in AuthDocs
  BY AuthNames
<1>7. PICK x \in AuthRow : x = [GoOn(r, "issue") EXCEPT !.doc = u]
  BY <1>4, <1>6 DEF GoOn, AuthRow, AuthOps
<1>8. x.pc = request[r].pc /\ x.op = "issue" /\ x.doc = u
      /\ x.dto = request[r].dto /\ x.was = request[r].was /\ x.late = request[r].late
  BY <1>4, <1>7 DEF GoOn, AuthRow
<1>9. WrittenAll(r, {TokenDoc(n)}, x)
  BY <1>2, <1>3, <1>5, <1>7 DEF Rotate, Written
<1>10. request' \in AuthRequests /\ request'[r] = x /\ OthersAfter(r, {TokenDoc(n)})
  BY <1>9, AuthWrites
<1> QED
  BY <1>1, <1>3, <1>5, <1>8, <1>10 DEF Waits, Rotates

LEMMA CreateUserGoesOn ==
    ASSUME AuthTypeOK, PlanInv, NEW r \in Requests, CreateUser(r)
    PROVE  \E u \in Users, t \in Tenants :
             /\ ~ user[u].present
             /\ Waits(r, {"insert"}) /\ request[r].dto \in RegisterDto
             /\ request[r].dto.tenant = t
             /\ ~ Taken(t, request[r].dto.email)
             /\ user' = [user EXCEPT ![u] =
                  [NoUser EXCEPT !.present = TRUE, !.tenant = t,
                                 !.email = request[r].dto.email,
                                 !.password = request[r].dto.password,
                                 !.late = request[r].late]]
             /\ request' \in AuthRequests /\ OthersAfter(r, {TenantDoc(t)})
             /\ request'[r].pc = "write" /\ request'[r].op = "EMAIL_VERIFY"
<1>1. Waits(r, {"insert"})
  BY DEF CreateUser, AtWrite, Waits
<1>2. request[r].dto \in RegisterDto /\ request[r].doc = TenantDoc(request[r].dto.tenant)
  BY <1>1 DEF PlanInv, PlanKnown, Waits
<1>3. PICK t \in Tenants : t = request[r].dto.tenant
  BY <1>2 DEF RegisterDto
<1>4. PICK u \in Users : u = (CHOOSE x \in Users : ~ user[x].present) /\ ~ user[u].present
  BY DEF CreateUser
<1>5. request[r] \in AuthRow
  BY DEF AuthTypeOK, AuthRequests, RequestsIn, AuthRow
<1>6. u \in AuthDocs
  BY AuthNames
<1>7. PICK x \in AuthRow : x = [GoOn(r, "EMAIL_VERIFY") EXCEPT !.doc = u]
  BY <1>5, <1>6 DEF GoOn, AuthRow, AuthOps
<1>8. x.pc = request[r].pc /\ x.op = "EMAIL_VERIFY"
  BY <1>5, <1>7 DEF GoOn, AuthRow
<1>9. WrittenAll(r, {TenantDoc(t)}, x)
  BY <1>2, <1>3, <1>4, <1>7 DEF CreateUser, Written
<1>10. request' \in AuthRequests /\ request'[r] = x /\ OthersAfter(r, {TenantDoc(t)})
  BY <1>9, AuthWrites
<1>11. user' = [user EXCEPT ![u] =
                 [NoUser EXCEPT !.present = TRUE, !.tenant = t,
                                !.email = request[r].dto.email,
                                !.password = request[r].dto.password,
                                !.late = request[r].late]]
  BY <1>3, <1>4 DEF CreateUser
<1>12. ~ Taken(t, request[r].dto.email)
  BY <1>3 DEF CreateUser
<1> QED
  BY <1>1, <1>2, <1>3, <1>4, <1>8, <1>10, <1>11, <1>12 DEF Waits

\* The requests that are served by a statement.
LEMMA WriteCountServes ==
    ASSUME AuthTypeOK, NEW r \in Requests, WriteCount(r)
    PROVE  /\ request' \in AuthRequests /\ Waits(r, {"count"})
           /\ request'[r].pc = "done" /\ OthersAfter(r, {request[r].doc})
<1>1. Waits(r, {"count"}) /\ WrittenAll(r, {request[r].doc}, Served)
  BY DEF WriteCount, AtWrite, Waits
<1>2. Served \in AuthRow /\ Served.pc = "done"
  BY ServedFields DEF AuthRow
<1> QED
  BY <1>1, <1>2, AuthWrites

LEMMA LogoutServes ==
    ASSUME AuthTypeOK, NEW r \in Requests, Logout(r)
    PROVE  \E u \in Users, n \in Rows :
             /\ user[u].present /\ Revoke({n} \cap TokensOf(u))
             /\ request' \in AuthRequests /\ request[r].pc = "idle"
             /\ request'[r].pc = "done" /\ OthersAfter(r, {TokenDoc(n)})
<1>1. PICK u \in Users, n \in Rows :
        /\ Arrives(r) /\ user[u].present /\ Revoke({n} \cap TokensOf(u))
        /\ WrittenAll(r, {TokenDoc(n)}, Served)
  BY DEF Logout
<1>2. Served \in AuthRow /\ Served.pc = "done"
  BY ServedFields DEF AuthRow
<1>3. request' \in AuthRequests /\ request'[r] = Served /\ OthersAfter(r, {TokenDoc(n)})
  BY <1>1, <1>2, AuthWrites
<1>4. request[r].pc = "idle"
  BY <1>1 DEF Arrives
<1> QED
  BY <1>1, <1>2, <1>3, <1>4

LEMMA RevokeAllServes ==
    ASSUME AuthTypeOK, NEW r \in Requests, LogoutAll(r) \/ LogoutWithout(r)
    PROVE  \E u \in Users :
             /\ user[u].present /\ Revoke(TokensOf(u))
             /\ tally' = [tally EXCEPT ![u].ended = @ + 1]
             /\ request' \in AuthRequests /\ request[r].pc = "idle"
             /\ request'[r].pc = "done"
             /\ OthersAfter(r, {TokenDoc(n) : n \in TokensOf(u)})
<1>1. PICK op \in {"logout", "logoutAll"} : RevokeAll(r, op)
  BY DEF LogoutAll, LogoutWithout
<1>2. PICK u \in Users :
        /\ Arrives(r) /\ user[u].present /\ Revoke(TokensOf(u))
        /\ tally' = [tally EXCEPT ![u].ended = @ + 1]
        /\ WrittenAll(r, {TokenDoc(n) : n \in TokensOf(u)}, [Served EXCEPT !.op = op])
  BY <1>1 DEF RevokeAll
<1>3. PICK x \in AuthRow : x = [Served EXCEPT !.op = op]
  BY DEF AuthRow, AuthOps, Served, Idle
<1>4. x.pc = "done"
  BY <1>3 DEF Served, Idle
<1>5. WrittenAll(r, {TokenDoc(n) : n \in TokensOf(u)}, x)
  BY <1>2, <1>3
<1>6. /\ request' \in AuthRequests /\ request'[r] = x
      /\ OthersAfter(r, {TokenDoc(n) : n \in TokensOf(u)})
  BY <1>5, AuthWrites
<1>7. request[r].pc = "idle"
  BY <1>2 DEF Arrives
<1> QED
  BY <1>2, <1>4, <1>6, <1>7

LEMMA SetPasswordServes ==
    ASSUME AuthTypeOK, LinksInv, NEW r \in Requests, SetPassword(r)
    PROVE  \E n \in Rows, u \in Users :
             /\ Waits(r, {"reset"}) /\ request[r].doc = LinkDoc(n)
             /\ link[n].user = u /\ user[u].present
             /\ ~ request[r].late => link[n].uses = 0
             /\ user' = [user EXCEPT ![u] =
                           [Cleared(@) EXCEPT !.password = request[r].dto.password]]
             /\ request[r].dto \in ResetPasswordDto
             /\ link' = [link EXCEPT ![n] =
                           [UsedLink(n) EXCEPT !.uses = @ + (IF request[r].late THEN 0 ELSE 1)]]
             /\ Revoke(TokensOf(u))
             /\ tally' = [tally EXCEPT ![u] =
                            [failures |-> 0, exact |-> TRUE, ended |-> @.ended + 1]]
             /\ request' \in AuthRequests /\ request'[r].pc = "done"
             /\ OthersAfter(r, {u, LinkDoc(n)} \cup {TokenDoc(m) : m \in TokensOf(u)})
<1>1. Waits(r, {"reset"})
  BY DEF SetPassword, AtWrite, Waits
<1>2. /\ request[r].dto \in ResetPasswordDto
      /\ request[r].doc = LinkDoc(request[r].dto.link)
      /\ link[request[r].dto.link].user \in Users
      /\ ~ request[r].late => link[request[r].dto.link].uses = 0
  BY <1>1 DEF LinksInv, LinkKnown
<1>3. PICK n \in Rows : n = request[r].dto.link
  BY <1>2 DEF ResetPasswordDto
<1>4. PICK u \in Users : u = link[n].user
  BY <1>2, <1>3
<1>5. user[u].present
  BY <1>3, <1>4, AuthNames DEF LinksInv, LinkSound
<1>6. /\ user' = [user EXCEPT ![u] =
                    [Cleared(@) EXCEPT !.password = request[r].dto.password]]
      /\ link' = [link EXCEPT ![n] =
                    [UsedLink(n) EXCEPT !.uses = @ + (IF request[r].late THEN 0 ELSE 1)]]
      /\ Revoke(TokensOf(u))
      /\ tally' = [tally EXCEPT ![u] =
                     [failures |-> 0, exact |-> TRUE, ended |-> @.ended + 1]]
      /\ WrittenAll(r, {u, LinkDoc(n)} \cup {TokenDoc(m) : m \in TokensOf(u)}, Served)
  BY <1>3, <1>4 DEF SetPassword
<1>7. Served \in AuthRow /\ Served.pc = "done"
  BY ServedFields DEF AuthRow
<1>8. /\ request' \in AuthRequests /\ request'[r] = Served
      /\ OthersAfter(r, {u, LinkDoc(n)} \cup {TokenDoc(m) : m \in TokensOf(u)})
  BY <1>6, <1>7, AuthWrites
<1> QED
  BY <1>1, <1>2, <1>3, <1>4, <1>5, <1>6, <1>7, <1>8

\* A request keeps the requests typed, and what it does to the others is no more than
\* to make their copies old.
LEMMA AuthOthers ==
    ASSUME AuthInv, NEW r \in Requests, AuthRequest(r)
    PROVE  /\ request' \in AuthRequests
           /\ \A q \in Requests \ {r} : Same(q) /\ (request[q].late => request'[q].late)
<1> USE DEF AuthInv
<1> SUFFICES \E docs : request' \in AuthRequests /\ OthersAfter(r, docs)
  BY DEF OthersAfter
<1>1. CASE Login(r)
  BY <1>1, LoginReads
<1>2. CASE RefreshToken(r)
  <2>1. \A n \in Rows : token[n].live => token[n].user \in Users
    BY AuthNone DEF AuthTypeOK, TokenRows, TokensInv, TokenSound
  <2> QED
    BY <1>2, <2>1, RefreshTokenReads
<1>3. CASE ResetPassword(r)
  BY <1>3, ResetPasswordReads
<1>4. CASE ChangePassword(r)
  BY <1>4, ChangePasswordReads
<1>5. CASE Register(r)
  BY <1>5, RegisterReads
<1>6. CASE ResendOtp(r)
  BY <1>6, ResendOtpReads
<1>7. CASE ReadCount(r)
  BY <1>7, ReadCountGoesOn
<1>8. CASE CheckEmail(r)
  BY <1>8, CheckEmailGoesOn
<1>9. CASE ClearCounters(r)
  BY <1>9, ClearCountersGoesOn
<1>10. CASE Rotate(r)
  BY <1>10, RotateGoesOn
<1>11. CASE CreateUser(r)
  BY <1>11, CreateUserGoesOn
<1>12. CASE WriteCount(r)
  BY <1>12, WriteCountServes
<1>13. CASE Logout(r)
  BY <1>13, LogoutServes
<1>14. CASE LogoutAll(r) \/ LogoutWithout(r)
  BY <1>14, RevokeAllServes
<1>15. CASE SetPassword(r)
  BY <1>15, SetPasswordServes
<1>16. CASE \/ IssueTokens(r) \/ ForgotPassword(r) \/ WritePassword(r) \/ RefuseEmail(r)
            \/ SendCode(r) \/ AuthFails(r)
  <2>1. Refuse(r)
    BY <1>16 DEF IssueTokens, ForgotPassword, WritePassword, RefuseEmail, SendCode, AuthFails
  <2> QED
    BY <2>1, AuthRefused
<1> QED
  BY <1>1, <1>2, <1>3, <1>4, <1>5, <1>6, <1>7, <1>8, <1>9, <1>10, <1>11, <1>12, <1>13,
     <1>14, <1>15, <1>16 DEF AuthRequest

-----------------------------------------------------------------------------
(* Accounts.                                                               *)

\* What a request knows of an account stays true as long as the account stays, and
\* its count and lock stay or the request's copy is old.
LEMMA AccountKnownStays ==
    ASSUME NEW q \in Requests, AccountKnown(q), Same(q), request[q].late => request'[q].late,
           \A v \in Users : user[v].present =>
             /\ user'[v].present
             /\ \/ request[q].pc = "write" /\ request[q].doc = v => request'[q].late
                \/ /\ user'[v].failed = user[v].failed
                   /\ user'[v].locked => user[v].locked
    PROVE  AccountKnown(q)'
BY DEF AccountKnown, Waits, Same

\* A step of the requests that leaves the counters.
LEMMA AccountsStay ==
    ASSUME AuthInv, user' = user,
           \A u \in Users : /\ tally'[u].failures = tally[u].failures
                            /\ tally'[u].exact = tally[u].exact,
           \A q \in Requests : \/ AccountKnown(q)'
                               \/ Same(q) /\ (request[q].late => request'[q].late)
    PROVE  AccountsInv'
<1>1. ASSUME NEW u \in Users
      PROVE  AccountSound(u)'
  BY DEF AuthInv, AccountsInv, AccountSound
<1>2. ASSUME NEW q \in Requests
      PROVE  AccountKnown(q)'
  <2>1. CASE AccountKnown(q)'
    BY <2>1
  <2>2. CASE Same(q) /\ (request[q].late => request'[q].late)
    <3>1. AccountKnown(q)
      BY DEF AuthInv, AccountsInv
    <3> QED
      BY <2>2, <3>1, AccountKnownStays
  <2> QED
    BY <2>1, <2>2
<1> QED
  BY <1>1, <1>2 DEF AccountsInv

\* A step that writes the row of one account.
LEMMA AccountWritten ==
    ASSUME AuthInv, NEW u \in Users,
           user' \in [Users -> UserRows], tally' \in [Users -> TallyRows],
           \A v \in Users \ {u} : /\ user'[v] = user[v]
                                  /\ tally'[v].failures = tally[v].failures
                                  /\ tally'[v].exact = tally[v].exact,
           user'[u].present, AccountSound(u)',
           \A q \in Requests :
             \/ AccountKnown(q)'
             \/ /\ Same(q) /\ (request[q].late => request'[q].late)
                /\ user[u].present =>
                     \/ request[q].pc = "write" /\ request[q].doc = u => request'[q].late
                     \/ /\ user'[u].failed = user[u].failed
                        /\ user'[u].locked => user[u].locked
    PROVE  AccountsInv'
<1>1. ASSUME NEW v \in Users
      PROVE  AccountSound(v)'
  <2>1. CASE v = u
    BY <2>1
  <2>2. CASE v # u
    BY <2>2 DEF AuthInv, AccountsInv, AccountSound
  <2> QED
    BY <2>1, <2>2
<1>2. ASSUME NEW q \in Requests
      PROVE  AccountKnown(q)'
  <2>1. CASE AccountKnown(q)'
    BY <2>1
  <2>2. CASE ~ AccountKnown(q)'
    <3>1. AccountKnown(q) /\ Same(q) /\ (request[q].late => request'[q].late)
      BY <2>2 DEF AuthInv, AccountsInv
    <3>2. ASSUME NEW v \in Users, user[v].present
          PROVE  /\ user'[v].present
                 /\ \/ request[q].pc = "write" /\ request[q].doc = v => request'[q].late
                    \/ /\ user'[v].failed = user[v].failed
                       /\ user'[v].locked => user[v].locked
      <4>1. CASE v = u
        BY <2>2, <3>2, <4>1
      <4>2. CASE v # u
        BY <3>2, <4>2
      <4> QED
        BY <4>1, <4>2
    <3> QED
      BY <3>1, <3>2, AccountKnownStays
  <2> QED
    BY <2>1, <2>2
<1> QED
  BY <1>1, <1>2 DEF AccountsInv

\* handleFailedLogin(): the count goes up from what was read.
LEMMA WriteCountKeeps ==
    ASSUME AuthInv, NEW r \in Requests, WriteCount(r)
    PROVE  user' \in [Users -> UserRows] /\ tally' \in [Users -> TallyRows] /\ AccountsInv'
<1>1. /\ Waits(r, {"count"}) /\ request'[r].pc = "done"
      /\ OthersAfter(r, {request[r].doc})
  BY WriteCountServes DEF AuthInv
<1>2. /\ request[r].doc \in Users /\ user[request[r].doc].present
      /\ request[r].was \in Nat
      /\ ~ request[r].late => request[r].was = user[request[r].doc].failed
  BY <1>1 DEF AuthInv, AccountsInv, AccountKnown, Waits
<1>3. PICK u \in Users : u = request[r].doc
  BY <1>2
<1>4. PICK count \in Nat : count = request[r].was + 1
  BY <1>2
<1>5. PICK locked \in BOOLEAN : locked = (count >= MaxAttempts)
  <2>1. (count >= MaxAttempts) \in BOOLEAN
    OBVIOUS
  <2> QED
    BY <2>1, Zenon
<1>6. PICK exact \in BOOLEAN : exact = (tally[u].exact /\ ~ request[r].late)
  OBVIOUS
<1>7. /\ user \in [Users -> UserRows] /\ user[u] \in UserRows
      /\ tally \in [Users -> TallyRows] /\ tally[u] \in TallyRows
      /\ tally[u].failures \in Nat
  BY DEF AuthInv, AuthTypeOK, TallyRows
<1>8. /\ user'[u] = [user[u] EXCEPT !.failed = count, !.locked = locked]
      /\ \A v \in Users \ {u} : user'[v] = user[v]
      /\ user' = [v \in Users |-> user'[v]]
  BY <1>3, <1>4, <1>5, <1>7 DEF WriteCount, UserRows
<1>9. PICK failures \in Nat : failures = tally[u].failures + 1
  BY <1>7
<1>10. /\ tally'[u] = [tally[u] EXCEPT !.failures = failures, !.exact = exact]
       /\ \A v \in Users \ {u} : tally'[v] = tally[v]
       /\ tally' = [v \in Users |-> tally'[v]]
  BY <1>3, <1>6, <1>7, <1>9 DEF WriteCount, TallyRows
<1>11. /\ user'[u] \in UserRows /\ user'[u].failed = count /\ user'[u].locked = locked
       /\ user'[u].present = user[u].present
  BY <1>7, <1>8 DEF UserRows
<1>12. tally'[u] \in TallyRows /\ tally'[u].failures = failures /\ tally'[u].exact = exact
  BY <1>7, <1>10 DEF TallyRows
<1>13. user' \in [Users -> UserRows]
  <2>1. \A v \in Users : user'[v] \in UserRows
    BY <1>7, <1>8, <1>11
  <2> QED
    BY <1>8, <2>1
<1>14. tally' \in [Users -> TallyRows]
  <2>1. \A v \in Users : tally'[v] \in TallyRows
    BY <1>7, <1>10, <1>12
  <2> QED
    BY <1>10, <2>1
<1>15. user'[u].present
  BY <1>2, <1>3, <1>11
<1>16. AccountSound(u)'
  <2>1. exact => tally[u].exact /\ ~ request[r].late
    BY <1>6
  <2>2. tally[u].exact => user[u].failed = tally[u].failures
    BY DEF AuthInv, AccountsInv, AccountSound
  <2>3. exact => count = failures
    BY <1>2, <1>3, <1>4, <1>9, <2>1, <2>2
  <2> QED
    BY <1>5, <1>11, <1>12, <1>15, <2>3 DEF AccountSound
<1>17. ASSUME NEW q \in Requests
       PROVE  \/ AccountKnown(q)'
              \/ /\ Same(q) /\ (request[q].late => request'[q].late)
                 /\ request[q].pc = "write" /\ request[q].doc = u => request'[q].late
  <2>1. CASE q = r
    BY <1>1, <2>1 DEF AccountKnown, Waits
  <2>2. CASE q # r
    BY <1>1, <1>3, <2>2 DEF OthersAfter
  <2> QED
    BY <2>1, <2>2
<1>18. AccountsInv'
  BY <1>8, <1>10, <1>13, <1>14, <1>15, <1>16, <1>17, AccountWritten
<1> QED
  BY <1>13, <1>14, <1>18

\* login() with the right password: the counters are cleared.
LEMMA ClearCountersKeeps ==
    ASSUME AuthInv, NEW r \in Requests, ClearCounters(r)
    PROVE  user' \in [Users -> UserRows] /\ tally' \in [Users -> TallyRows] /\ AccountsInv'
<1>1. /\ Waits(r, {"clear"}) /\ OthersAfter(r, {request[r].doc})
      /\ request'[r].pc = "write" /\ request'[r].op = "issue"
  BY ClearCountersGoesOn DEF AuthInv
<1>2. /\ request[r].doc \in Users /\ user[request[r].doc].present
  BY <1>1 DEF AuthInv, AccountsInv, AccountKnown, Waits
<1>3. PICK u \in Users : u = request[r].doc
  BY <1>2
<1> DEFINE zero == 0
<1>0. zero \in Nat
  OBVIOUS
<1> HIDE DEF zero
<1>4. /\ user \in [Users -> UserRows] /\ user[u] \in UserRows
      /\ tally \in [Users -> TallyRows] /\ tally[u] \in TallyRows
  BY DEF AuthInv, AuthTypeOK
<1>5. /\ user'[u] = [user[u] EXCEPT !.failed = zero, !.locked = FALSE]
      /\ \A v \in Users \ {u} : user'[v] = user[v]
      /\ user' = [v \in Users |-> user'[v]]
  BY <1>3, <1>4 DEF ClearCounters, Cleared, zero
<1>6. /\ tally'[u] = [tally[u] EXCEPT !.failures = zero, !.exact = TRUE]
      /\ \A v \in Users \ {u} : tally'[v] = tally[v]
      /\ tally' = [v \in Users |-> tally'[v]]
  BY <1>3, <1>4 DEF ClearCounters, TallyRows, zero
<1>7. /\ user'[u] \in UserRows /\ user'[u].failed = zero /\ user'[u].locked = FALSE
      /\ user'[u].present = user[u].present
  BY <1>0, <1>4, <1>5 DEF UserRows
<1>8. tally'[u] \in TallyRows /\ tally'[u].failures = zero
  BY <1>0, <1>4, <1>6 DEF TallyRows
<1>9. user' \in [Users -> UserRows]
  <2>1. \A v \in Users : user'[v] \in UserRows
    BY <1>4, <1>5, <1>7
  <2> QED
    BY <1>5, <2>1
<1>10. tally' \in [Users -> TallyRows]
  <2>1. \A v \in Users : tally'[v] \in TallyRows
    BY <1>4, <1>6, <1>8
  <2> QED
    BY <1>6, <2>1
<1>11. user'[u].present /\ AccountSound(u)'
  BY <1>2, <1>3, <1>7, <1>8 DEF AccountSound, zero
<1>12. ASSUME NEW q \in Requests
       PROVE  \/ AccountKnown(q)'
              \/ /\ Same(q) /\ (request[q].late => request'[q].late)
                 /\ request[q].pc = "write" /\ request[q].doc = u => request'[q].late
  <2>1. CASE q = r
    BY <1>1, <2>1 DEF AccountKnown, Waits
  <2>2. CASE q # r
    BY <1>1, <1>3, <2>2 DEF OthersAfter
  <2> QED
    BY <2>1, <2>2
<1>13. AccountsInv'
  BY <1>5, <1>6, <1>9, <1>10, <1>11, <1>12, AccountWritten
<1> QED
  BY <1>9, <1>10, <1>13

\* resetPassword(): the password is set and the counters are cleared.
LEMMA SetPasswordKeepsAccounts ==
    ASSUME AuthInv, NEW r \in Requests, SetPassword(r)
    PROVE  user' \in [Users -> UserRows] /\ tally' \in [Users -> TallyRows] /\ AccountsInv'
<1>1. PICK n \in Rows, u \in Users :
        /\ user[u].present
        /\ user' = [user EXCEPT ![u] =
                      [Cleared(@) EXCEPT !.password = request[r].dto.password]]
        /\ request[r].dto \in ResetPasswordDto
        /\ tally' = [tally EXCEPT ![u] =
                       [failures |-> 0, exact |-> TRUE, ended |-> @.ended + 1]]
        /\ request'[r].pc = "done"
        /\ OthersAfter(r, {u, LinkDoc(n)} \cup {TokenDoc(m) : m \in TokensOf(u)})
  BY SetPasswordServes DEF AuthInv
<1>2. PICK password \in Passwords : password = request[r].dto.password
  BY <1>1 DEF ResetPasswordDto
<1> DEFINE zero == 0
<1>0. zero \in Nat
  OBVIOUS
<1> HIDE DEF zero
<1>3. /\ user \in [Users -> UserRows] /\ user[u] \in UserRows
      /\ tally \in [Users -> TallyRows] /\ tally[u].ended \in Nat
  BY DEF AuthInv, AuthTypeOK, TallyRows
<1>4. /\ user'[u] = [user[u] EXCEPT !.failed = zero, !.locked = FALSE, !.password = password]
      /\ \A v \in Users \ {u} : user'[v] = user[v]
      /\ user' = [v \in Users |-> user'[v]]
  BY <1>1, <1>2, <1>3 DEF Cleared, UserRows, zero
<1>5. /\ tally'[u] = [failures |-> 0, exact |-> TRUE, ended |-> tally[u].ended + 1]
      /\ \A v \in Users \ {u} : tally'[v] = tally[v]
      /\ tally' = [v \in Users |-> tally'[v]]
  BY <1>1, <1>3
<1>6. /\ user'[u] \in UserRows /\ user'[u].failed = zero /\ user'[u].locked = FALSE
      /\ user'[u].present = user[u].present
  BY <1>0, <1>3, <1>4 DEF UserRows
<1>7. tally'[u] \in TallyRows /\ tally'[u].failures = 0
  BY <1>3, <1>5 DEF TallyRows
<1>8. user' \in [Users -> UserRows]
  <2>1. \A v \in Users : user'[v] \in UserRows
    BY <1>3, <1>4, <1>6
  <2> QED
    BY <1>4, <2>1
<1>9. tally' \in [Users -> TallyRows]
  <2>1. \A v \in Users : tally'[v] \in TallyRows
    BY <1>3, <1>5, <1>7
  <2> QED
    BY <1>5, <2>1
<1>10. user'[u].present /\ AccountSound(u)'
  BY <1>1, <1>6, <1>7 DEF AccountSound, zero
<1>11. ASSUME NEW q \in Requests
       PROVE  \/ AccountKnown(q)'
              \/ /\ Same(q) /\ (request[q].late => request'[q].late)
                 /\ request[q].pc = "write" /\ request[q].doc = u => request'[q].late
  <2>1. CASE q = r
    BY <1>1, <2>1 DEF AccountKnown, Waits
  <2>2. CASE q # r
    BY <1>1, <2>2 DEF OthersAfter
  <2> QED
    BY <2>1, <2>2
<1>12. AccountsInv'
  BY <1>4, <1>5, <1>8, <1>9, <1>10, <1>11, AccountWritten
<1> QED
  BY <1>8, <1>9, <1>12

\* changePassword(): counters and lock stay.
LEMMA WritePasswordKeeps ==
    ASSUME AuthInv, NEW r \in Requests, WritePassword(r)
    PROVE  user' \in [Users -> UserRows] /\ AccountsInv'
<1>1. Waits(r, {"change"}) /\ Refuse(r) /\ tally' = tally
  BY DEF WritePassword, AtWrite, Waits
<1>2. /\ request[r].doc \in Users /\ user[request[r].doc].present
      /\ request[r].dto \in Passwords
  BY <1>1 DEF AuthInv, AccountsInv, AccountKnown, Waits
<1>3. PICK u \in Users, password \in Passwords : u = request[r].doc /\ password = request[r].dto
  BY <1>2
<1>4. /\ user \in [Users -> UserRows] /\ user[u] \in UserRows
      /\ tally \in [Users -> TallyRows]
  BY DEF AuthInv, AuthTypeOK
<1>5. /\ user'[u] = [user[u] EXCEPT !.password = password]
      /\ \A v \in Users \ {u} : user'[v] = user[v]
      /\ user' = [v \in Users |-> user'[v]]
  BY <1>3, <1>4 DEF WritePassword
<1>6. /\ user'[u] \in UserRows /\ user'[u].failed = user[u].failed
      /\ user'[u].locked = user[u].locked /\ user'[u].present = user[u].present
  BY <1>4, <1>5 DEF UserRows
<1>7. user' \in [Users -> UserRows]
  <2>1. \A v \in Users : user'[v] \in UserRows
    BY <1>4, <1>5, <1>6
  <2> QED
    BY <1>5, <2>1
<1>8. user'[u].present /\ AccountSound(u)'
  BY <1>1, <1>2, <1>3, <1>6 DEF AuthInv, AccountsInv, AccountSound
<1>9. request'[r].pc = "done" /\ OthersAfter(r, {})
  BY <1>1, AuthRefused DEF AuthInv
<1>10. ASSUME NEW q \in Requests
       PROVE  AccountKnown(q)' \/ (Same(q) /\ (request[q].late => request'[q].late))
  <2>1. CASE q = r
    BY <1>9, <2>1 DEF AccountKnown, Waits
  <2>2. CASE q # r
    BY <1>9, <2>2 DEF OthersAfter
  <2> QED
    BY <2>1, <2>2
<1>11. AccountsInv'
  BY <1>1, <1>4, <1>5, <1>6, <1>7, <1>8, <1>10, AccountWritten
<1> QED
  BY <1>7, <1>11

\* register(): a new account has no failures.
LEMMA CreateUserKeepsAccounts ==
    ASSUME AuthInv, NEW r \in Requests, CreateUser(r)
    PROVE  user' \in [Users -> UserRows] /\ AccountsInv'
<1>1. PICK u \in Users, t \in Tenants :
        /\ ~ user[u].present
        /\ request[r].dto \in RegisterDto
        /\ user' = [user EXCEPT ![u] =
             [NoUser EXCEPT !.present = TRUE, !.tenant = t,
                            !.email = request[r].dto.email,
                            !.password = request[r].dto.password,
                            !.late = request[r].late]]
        /\ OthersAfter(r, {TenantDoc(t)})
        /\ request'[r].pc = "write" /\ request'[r].op = "EMAIL_VERIFY"
  BY CreateUserGoesOn DEF AuthInv
<1>2. PICK email \in Emails, password \in Passwords :
        email = request[r].dto.email /\ password = request[r].dto.password
  BY <1>1 DEF RegisterDto
<1>3. PICK late \in BOOLEAN : late = request[r].late
  BY DEF AuthInv, AuthTypeOK, AuthRequests, RequestsIn
<1>4. user \in [Users -> UserRows] /\ tally' = tally /\ tally \in [Users -> TallyRows]
  BY DEF AuthInv, AuthTypeOK, CreateUser
<1>5. /\ user'[u] = [NoUser EXCEPT !.present = TRUE, !.tenant = t, !.email = email,
                                   !.password = password, !.late = late]
      /\ \A v \in Users \ {u} : user'[v] = user[v]
      /\ user' = [v \in Users |-> user'[v]]
  BY <1>1, <1>2, <1>3, <1>4
<1>6. /\ user'[u] \in UserRows /\ user'[u].failed = 0 /\ user'[u].locked = FALSE
      /\ user'[u].present = TRUE
  BY <1>5, AuthNone DEF UserRows
<1>7. user' \in [Users -> UserRows]
  <2>1. \A v \in Users : user'[v] \in UserRows
    BY <1>4, <1>5, <1>6
  <2> QED
    BY <1>5, <2>1
<1>8. user'[u].present /\ AccountSound(u)'
  <2>1. user[u] = NoUser /\ tally[u].failures = 0
    BY <1>1 DEF AuthInv, AccountsInv, AccountSound
  <2> QED
    BY <1>4, <1>6, <2>1 DEF AccountSound
<1>9. ASSUME NEW q \in Requests
      PROVE  AccountKnown(q)' \/ (Same(q) /\ (request[q].late => request'[q].late))
  <2>1. CASE q = r
    BY <1>1, <2>1 DEF AccountKnown, Waits
  <2>2. CASE q # r
    BY <1>1, <2>2 DEF OthersAfter
  <2> QED
    BY <2>1, <2>2
<1>10. AccountsInv'
  BY <1>1, <1>4, <1>5, <1>7, <1>8, <1>9, AccountWritten
<1> QED
  BY <1>7, <1>10

\* The lock ends, the count stays.
LEMMA LockEndsKeeps ==
    ASSUME AuthInv, NEW u \in Users, LockEnds(u)
    PROVE  user' \in [Users -> UserRows] /\ AccountsInv'
<1>1. request' = request /\ tally' = tally /\ user[u].locked
  BY DEF LockEnds
<1>2. /\ user \in [Users -> UserRows] /\ user[u] \in UserRows
      /\ tally \in [Users -> TallyRows]
  BY DEF AuthInv, AuthTypeOK
<1>3. /\ user'[u] = [user[u] EXCEPT !.locked = FALSE]
      /\ \A v \in Users \ {u} : user'[v] = user[v]
      /\ user' = [v \in Users |-> user'[v]]
  BY <1>2 DEF LockEnds
<1>4. /\ user'[u] \in UserRows /\ user'[u].failed = user[u].failed
      /\ user'[u].locked = FALSE /\ user'[u].present = user[u].present
  BY <1>2, <1>3 DEF UserRows
<1>5. user' \in [Users -> UserRows]
  <2>1. \A v \in Users : user'[v] \in UserRows
    BY <1>2, <1>3, <1>4
  <2> QED
    BY <1>3, <2>1
<1>6. user'[u].present /\ AccountSound(u)'
  <2>1. user[u].present
    BY <1>1, AuthNone DEF AuthInv, AccountsInv, AccountSound
  <2> QED
    BY <1>1, <1>4, <2>1 DEF AuthInv, AccountsInv, AccountSound
<1>7. \A q \in Requests : Same(q) /\ (request[q].late => request'[q].late)
  BY <1>1 DEF Same
<1>8. AccountsInv'
  BY <1>1, <1>2, <1>3, <1>4, <1>5, <1>6, <1>7, AccountWritten
<1> QED
  BY <1>5, <1>8

\* Ending the sessions of a user leaves the counters.
LEMMA RevokeAllKeepsAccounts ==
    ASSUME AuthInv, NEW r \in Requests, LogoutAll(r) \/ LogoutWithout(r)
    PROVE  /\ user' = user /\ tally' \in [Users -> TallyRows]
           /\ \A u \in Users : /\ tally'[u].failures = tally[u].failures
                               /\ tally'[u].exact = tally[u].exact
<1>1. PICK u \in Users : tally' = [tally EXCEPT ![u].ended = @ + 1]
  BY RevokeAllServes DEF AuthInv
<1>2. user' = user
  BY DEF LogoutAll, LogoutWithout, RevokeAll
<1>3. tally \in [Users -> TallyRows] /\ tally[u] \in TallyRows /\ tally[u].ended \in Nat
  BY DEF AuthInv, AuthTypeOK, TallyRows
<1>4. PICK ended \in Nat : ended = tally[u].ended + 1
  BY <1>3
<1>5. /\ tally'[u] = [tally[u] EXCEPT !.ended = ended]
      /\ \A v \in Users \ {u} : tally'[v] = tally[v]
      /\ tally' = [v \in Users |-> tally'[v]]
  BY <1>1, <1>3, <1>4 DEF TallyRows
<1>6. /\ tally'[u] \in TallyRows /\ tally'[u].failures = tally[u].failures
      /\ tally'[u].exact = tally[u].exact
  BY <1>3, <1>5 DEF TallyRows
<1>7. tally' \in [Users -> TallyRows]
  <2>1. \A v \in Users : tally'[v] \in TallyRows
    BY <1>3, <1>5, <1>6
  <2> QED
    BY <1>5, <2>1
<1> QED
  BY <1>2, <1>5, <1>6, <1>7

LEMMA AccountsStep ==
    ASSUME AuthInv, AuthNext
    PROVE  user' \in [Users -> UserRows] /\ tally' \in [Users -> TallyRows] /\ AccountsInv'
<1>1. user \in [Users -> UserRows] /\ tally \in [Users -> TallyRows]
  BY DEF AuthInv, AuthTypeOK
<1>2. ASSUME NEW u \in Users, LockEnds(u)
      PROVE  user' \in [Users -> UserRows] /\ tally' = tally /\ AccountsInv'
  BY <1>2, LockEndsKeeps DEF LockEnds
<1>3. ASSUME NEW n \in Rows, Expires(n)
      PROVE  user' = user /\ tally' = tally /\ AccountsInv'
  <2>1. user' = user /\ tally' = tally /\ request' = request
    BY <1>3 DEF Expires
  <2>2. \A q \in Requests : Same(q) /\ (request[q].late => request'[q].late)
    BY <2>1 DEF Same
  <2> QED
    BY <2>1, <2>2, AccountsStay
<1>4. ASSUME NEW r \in Requests, AuthRequest(r)
      PROVE  user' \in [Users -> UserRows] /\ tally' \in [Users -> TallyRows] /\ AccountsInv'
  <2>1. \A q \in Requests \ {r} : Same(q) /\ (request[q].late => request'[q].late)
    BY <1>4, AuthOthers
  <2>2. ASSUME user' = user, tally' = tally, AccountKnown(r)'
        PROVE  AccountsInv'
    BY <2>1, <2>2, AccountsStay
  <2>3. CASE Login(r)
    <3>1. user' = user /\ tally' = tally
      BY <2>3 DEF Login, authVars
    <3>2. AccountKnown(r)'
      BY <2>3, <3>1, LoginReads DEF AuthInv, AccountKnown, Waits, MayLogIn
    <3> QED
      BY <1>1, <2>2, <3>1, <3>2
  <2>4. CASE ReadCount(r)
    <3>1. user' = user /\ tally' = tally
      BY <2>4 DEF ReadCount, authVars
    <3>2. /\ Waits(r, {"failed"})
          /\ request'[r].pc = "write" /\ request'[r].op = "count"
          /\ request'[r].doc = request[r].doc /\ request'[r].dto = request[r].dto
          /\ request'[r].was = user[request[r].doc].failed
      BY <2>4, ReadCountGoesOn DEF AuthInv
    <3>3. /\ request[r].doc \in Users /\ user[request[r].doc].present /\ request[r].dto = None
      BY <3>2 DEF AuthInv, AccountsInv, AccountKnown, Waits
    <3>4. user[request[r].doc].failed \in Nat
      BY <1>1, <3>3 DEF UserRows
    <3>5. AccountKnown(r)'
      BY <3>1, <3>2, <3>3, <3>4 DEF AccountKnown, Waits
    <3> QED
      BY <1>1, <2>2, <3>1, <3>5
  <2>5. CASE ChangePassword(r)
    <3>1. user' = user /\ tally' = tally
      BY <2>5 DEF ChangePassword, authVars
    <3>2. AccountKnown(r)'
      BY <2>5, <3>1, ChangePasswordReads DEF AuthInv, AccountKnown, Waits
    <3> QED
      BY <1>1, <2>2, <3>1, <3>2
  <2>6. CASE WriteCount(r)
    BY <2>6, WriteCountKeeps
  <2>7. CASE ClearCounters(r)
    BY <2>7, ClearCountersKeeps
  <2>8. CASE SetPassword(r)
    BY <2>8, SetPasswordKeepsAccounts
  <2>9. CASE WritePassword(r)
    BY <1>1, <2>9, WritePasswordKeeps DEF WritePassword
  <2>10. CASE CreateUser(r)
    BY <1>1, <2>10, CreateUserKeepsAccounts DEF CreateUser
  <2>11. CASE LogoutAll(r) \/ LogoutWithout(r)
    <3>1. request'[r].pc = "done"
      BY <2>11, RevokeAllServes DEF AuthInv
    <3>2. AccountKnown(r)'
      BY <3>1 DEF AccountKnown, Waits
    <3>3. /\ user' = user /\ tally' \in [Users -> TallyRows]
          /\ \A u \in Users : /\ tally'[u].failures = tally[u].failures
                              /\ tally'[u].exact = tally[u].exact
      BY <2>11, RevokeAllKeepsAccounts
    <3> QED
      BY <1>1, <2>1, <3>2, <3>3, AccountsStay
  <2>12. CASE RefreshToken(r) \/ ResetPassword(r) \/ Register(r) \/ ResendOtp(r)
    <3>1. user' = user /\ tally' = tally
      BY <2>12 DEF RefreshToken, ResetPassword, Register, ResendOtp, authVars
    <3>2. request'[r].op \in {"rotate", "reset", "email", "MFA_LOGIN"}
      <4>1. \A n \in Rows : token[n].live => token[n].user \in Users
        BY AuthNone DEF AuthInv, AuthTypeOK, TokenRows, TokensInv, TokenSound
      <4> QED
        BY <2>12, <4>1, RefreshTokenReads, ResetPasswordReads, RegisterReads, ResendOtpReads
          DEF AuthInv
    <3>3. AccountKnown(r)'
      BY <3>2 DEF AccountKnown, Waits
    <3> QED
      BY <1>1, <2>2, <3>1, <3>3
  <2>13. CASE CheckEmail(r) \/ Rotate(r) \/ Logout(r)
    <3>1. user' = user /\ tally' = tally
      BY <2>13 DEF CheckEmail, Rotate, Logout, authVars
    <3>2. request'[r].pc = "done" \/ request'[r].op \in {"insert", "issue"}
      BY <2>13, CheckEmailGoesOn, RotateGoesOn, LogoutServes DEF AuthInv
    <3>3. AccountKnown(r)'
      BY <3>2 DEF AccountKnown, Waits
    <3> QED
      BY <1>1, <2>2, <3>1, <3>3
  <2>14. CASE \/ IssueTokens(r) \/ ForgotPassword(r) \/ RefuseEmail(r) \/ SendCode(r)
              \/ AuthFails(r)
    <3>1. user' = user /\ tally' = tally /\ Refuse(r)
      BY <2>14 DEF IssueTokens, ForgotPassword, RefuseEmail, SendCode, AuthFails, authVars
    <3>2. request'[r].pc = "done"
      BY <3>1, AuthRefused DEF AuthInv
    <3>3. AccountKnown(r)'
      BY <3>2 DEF AccountKnown, Waits
    <3> QED
      BY <1>1, <2>2, <3>1, <3>3
  <2> QED
    BY <1>4, <2>3, <2>4, <2>5, <2>6, <2>7, <2>8, <2>9, <2>10, <2>11, <2>12, <2>13, <2>14
      DEF AuthRequest
<1> QED
  BY <1>1, <1>2, <1>3, <1>4 DEF AuthNext

-----------------------------------------------------------------------------
(* Reset links.                                                            *)

\* Nobody acts for a request that is done.
LEMMA WhoActs ==
    ASSUME NEW r \in Requests, AuthRequest(r)
    PROVE  request[r].pc \in {"idle", "write"}
BY DEF AuthRequest, Login, ReadCount, WriteCount, ClearCounters, IssueTokens, RefreshToken,
       Rotate, Logout, LogoutAll, LogoutWithout, RevokeAll, ForgotPassword, ResetPassword,
       SetPassword, ChangePassword, WritePassword, Register, CheckEmail, CreateUser,
       RefuseEmail, ResendOtp, SendCode, AuthFails, Read, Arrives, AtWrite

\* Accounts are never removed.
LEMMA PresentStay ==
    ASSUME AuthInv, AuthNext, NEW u \in Users, user[u].present
    PROVE  user'[u].present
<1>1. user \in [Users -> UserRows] /\ user[u] \in UserRows
  BY DEF AuthInv, AuthTypeOK
<1>2. ASSUME NEW v \in Users, LockEnds(v)
      PROVE  user'[u].present
  BY <1>1, <1>2 DEF LockEnds, UserRows
<1>3. ASSUME NEW r \in Requests, AuthRequest(r)
      PROVE  user'[u].present
  <2>1. CASE user' = user
    BY <2>1
  <2>2. CASE WriteCount(r)
    BY <1>1, <2>2 DEF WriteCount, UserRows
  <2>3. CASE ClearCounters(r)
    BY <1>1, <2>3 DEF ClearCounters, Cleared, UserRows
  <2>4. CASE SetPassword(r)
    BY <1>1, <2>4 DEF SetPassword, Cleared, UserRows
  <2>5. CASE WritePassword(r)
    BY <1>1, <2>5 DEF WritePassword, UserRows
  <2>6. CASE CreateUser(r)
    <3>1. PICK v \in Users : ~ user[v].present /\ \E x : user' = [user EXCEPT ![v] = x]
      BY <2>6, CreateUserGoesOn DEF AuthInv
    <3> QED
      BY <1>1, <3>1
  <2> QED
    BY <1>3, <2>1, <2>2, <2>3, <2>4, <2>5, <2>6
      DEF AuthRequest, Login, ReadCount, IssueTokens, RefreshToken, Rotate, Logout, LogoutAll,
          LogoutWithout, RevokeAll, ForgotPassword, ResetPassword, ChangePassword, Register,
          CheckEmail, RefuseEmail, ResendOtp, SendCode, AuthFails, authVars
<1> QED
  BY <1>2, <1>3 DEF AuthNext, Expires

\* What a request knows of a link stays true as long as the link stays its user's and
\* its uses stay, or the request's copy is old.
LEMMA LinkKnownStays ==
    ASSUME NEW q \in Requests, LinkKnown(q), Same(q), request[q].late => request'[q].late,
           \A n \in Rows : link[n].user \in Users =>
             /\ link'[n].user \in Users
             /\ \/ request[q].pc = "write" /\ request[q].doc = LinkDoc(n) => request'[q].late
                \/ link'[n].uses = link[n].uses
    PROVE  LinkKnown(q)'
<1> SUFFICES ASSUME Waits(q, {"reset"})
             PROVE  LinkKnown(q)'
  BY DEF LinkKnown, Waits, Same
<1>1. /\ request[q].dto \in ResetPasswordDto
      /\ request[q].doc = LinkDoc(request[q].dto.link)
      /\ link[request[q].dto.link].user \in Users
      /\ ~ request[q].late => link[request[q].dto.link].uses = 0
  BY DEF LinkKnown
<1>2. PICK n \in Rows : n = request[q].dto.link
  BY <1>1 DEF ResetPasswordDto
<1>3. link'[n].user \in Users /\ (~ request'[q].late => link'[n].uses = 0)
  BY <1>1, <1>2 DEF Waits
<1> QED
  BY <1>1, <1>2, <1>3 DEF LinkKnown, Same

\* A step that leaves the links.
LEMMA LinksStay ==
    ASSUME AuthInv, AuthNext, link' = link,
           \A q \in Requests :
             /\ request'[q].pc \in {"idle", "write"} => request[q].pc \in {"idle", "write"}
             /\ LinkKnown(q)' \/ (Same(q) /\ (request[q].late => request'[q].late))
    PROVE  LinksInv'
<1>1. ASSUME NEW n \in Rows
      PROVE  LinkSound(n)'
  <2>1. LinkSound(n) /\ (link[n].user # None => link[n].user \in Users)
    BY DEF AuthInv, LinksInv, AuthTypeOK, LinkRows
  <2> QED
    BY <2>1, PresentStay DEF LinkSound
<1>2. ASSUME NEW q \in Requests
      PROVE  LinkKnown(q)'
  <2>1. LinkKnown(q)
    BY DEF AuthInv, LinksInv
  <2> QED
    BY <2>1, LinkKnownStays
<1>3. \A q \in Requests : request'[q].pc \in {"idle", "write"} => link'[q] = NoLink
  BY DEF AuthInv, LinksInv
<1> QED
  BY <1>1, <1>2, <1>3 DEF LinksInv

\* forgotPassword(): a new link.
LEMMA ForgotPasswordKeeps ==
    ASSUME AuthInv, AuthNext, NEW r \in Requests, ForgotPassword(r)
    PROVE  link' \in [Rows -> LinkRows] /\ LinksInv'
<1>1. PICK u \in Users :
        /\ Arrives(r) /\ user[u].present
        /\ link' = [link EXCEPT ![r] = [NoLink EXCEPT !.user = u, !.live = TRUE]]
        /\ Refuse(r) /\ user' = user
  BY DEF ForgotPassword
<1>2. r \in Rows /\ Requests \subseteq Rows
  BY AuthNames
<1>3. link \in [Rows -> LinkRows] /\ link[r] = NoLink
  BY <1>1 DEF AuthInv, AuthTypeOK, LinksInv, Arrives
<1>4. /\ link'[r] = [NoLink EXCEPT !.user = u, !.live = TRUE]
      /\ \A n \in Rows \ {r} : link'[n] = link[n]
      /\ link' = [n \in Rows |-> link'[n]]
  BY <1>1, <1>2, <1>3
<1>5. link'[r] \in LinkRows /\ link'[r].user = u /\ link'[r].uses = 0
  BY <1>4, AuthNone DEF LinkRows
<1>6. link' \in [Rows -> LinkRows]
  <2>1. \A n \in Rows : link'[n] \in LinkRows
    BY <1>3, <1>4, <1>5
  <2> QED
    BY <1>4, <2>1
<1>7. request'[r].pc = "done" /\ OthersAfter(r, {})
  BY <1>1, AuthRefused DEF AuthInv
<1>8. ASSUME NEW n \in Rows
      PROVE  LinkSound(n)'
  <2>1. CASE n = r
    BY <1>1, <1>5, <2>1, AuthNames DEF LinkSound
  <2>2. CASE n # r
    BY <1>1, <1>4, <2>2 DEF AuthInv, LinksInv, LinkSound
  <2> QED
    BY <2>1, <2>2
<1>9. ASSUME NEW q \in Requests
      PROVE  LinkKnown(q)'
  <2>1. CASE q = r
    BY <1>7, <2>1 DEF LinkKnown, Waits
  <2>2. CASE q # r
    <3>1. LinkKnown(q) /\ Same(q) /\ (request[q].late => request'[q].late)
      BY <1>7, <2>2 DEF OthersAfter, AuthInv, LinksInv
    <3>2. ASSUME NEW n \in Rows, link[n].user \in Users
          PROVE  link'[n].user \in Users /\ link'[n].uses = link[n].uses
      <4>1. n # r
        BY <1>3, <3>2, AuthNone, AuthNames
      <4> QED
        BY <1>4, <3>2, <4>1
    <3> QED
      BY <3>1, <3>2, LinkKnownStays
  <2> QED
    BY <2>1, <2>2
<1>10. ASSUME NEW q \in Requests, request'[q].pc \in {"idle", "write"}
       PROVE  link'[q] = NoLink
  <2>1. q # r
    BY <1>7, <1>10
  <2>2. request'[q].pc = request[q].pc
    BY <1>7, <2>1 DEF OthersAfter, Same
  <2> QED
    BY <1>2, <1>4, <1>10, <2>1, <2>2 DEF AuthInv, LinksInv
<1> QED
  BY <1>6, <1>8, <1>9, <1>10 DEF LinksInv

\* A step that ends the life of one link, and counts a use by a request that read it
\* unused.
LEMMA LinkEnds ==
    ASSUME AuthInv, AuthNext, NEW n \in Rows, link[n].user \in Users,
           link' \in [Rows -> LinkRows],
           \A m \in Rows \ {n} : link'[m] = link[m],
           link'[n].user = link[n].user, ~ link'[n].live, link'[n].uses <= 1,
           \A q \in Requests :
             /\ request'[q].pc \in {"idle", "write"} => request[q].pc \in {"idle", "write"}
             /\ \/ LinkKnown(q)'
                \/ /\ Same(q) /\ (request[q].late => request'[q].late)
                   /\ \/ request[q].pc = "write" /\ request[q].doc = LinkDoc(n) =>
                           request'[q].late
                      \/ link'[n].uses = link[n].uses
    PROVE  LinksInv'
<1>1. ASSUME NEW m \in Rows
      PROVE  LinkSound(m)'
  <2>1. LinkSound(m) /\ (link[m].user # None => link[m].user \in Users)
    BY DEF AuthInv, LinksInv, AuthTypeOK, LinkRows
  <2>2. CASE m = n
    BY <2>1, <2>2, PresentStay DEF LinkSound
  <2>3. CASE m # n
    BY <2>1, <2>3, PresentStay DEF LinkSound
  <2> QED
    BY <2>2, <2>3
<1>2. ASSUME NEW q \in Requests
      PROVE  LinkKnown(q)'
  <2>1. LinkKnown(q)
    BY DEF AuthInv, LinksInv
  <2>2. CASE LinkKnown(q)'
    BY <2>2
  <2>3. CASE ~ LinkKnown(q)'
    <3>1. Same(q) /\ (request[q].late => request'[q].late)
      BY <2>3
    <3>2. ASSUME NEW m \in Rows, link[m].user \in Users
          PROVE  /\ link'[m].user \in Users
                 /\ \/ request[q].pc = "write" /\ request[q].doc = LinkDoc(m) =>
                         request'[q].late
                    \/ link'[m].uses = link[m].uses
      <4>1. CASE m = n
        BY <2>3, <4>1
      <4>2. CASE m # n
        BY <3>2, <4>2
      <4> QED
        BY <4>1, <4>2
    <3> QED
      BY <2>1, <3>1, <3>2, LinkKnownStays
  <2> QED
    BY <2>2, <2>3
<1>3. ASSUME NEW q \in Requests, request'[q].pc \in {"idle", "write"}
      PROVE  link'[q] = NoLink
  <2>1. link[q] = NoLink
    BY <1>3 DEF AuthInv, LinksInv
  <2>2. q # n /\ q \in Rows
    BY <2>1, AuthNone, AuthNames
  <2> QED
    BY <2>1, <2>2
<1> QED
  BY <1>1, <1>2, <1>3 DEF LinksInv

\* resetPassword(): the link is used up.
LEMMA SetPasswordKeepsLinks ==
    ASSUME AuthInv, AuthNext, NEW r \in Requests, SetPassword(r)
    PROVE  link' \in [Rows -> LinkRows] /\ LinksInv'
<1>1. PICK n \in Rows, u \in Users :
        /\ Waits(r, {"reset"}) /\ link[n].user = u
        /\ ~ request[r].late => link[n].uses = 0
        /\ link' = [link EXCEPT ![n] =
                      [UsedLink(n) EXCEPT !.uses = @ + (IF request[r].late THEN 0 ELSE 1)]]
        /\ request'[r].pc = "done"
        /\ OthersAfter(r, {u, LinkDoc(n)} \cup {TokenDoc(m) : m \in TokensOf(u)})
  BY SetPasswordServes DEF AuthInv
<1>2. link \in [Rows -> LinkRows] /\ link[n] \in LinkRows /\ link[n].uses \in Nat
  BY DEF AuthInv, AuthTypeOK, LinkRows
<1>3. link[n].uses <= 1
  BY DEF AuthInv, LinksInv, LinkSound
<1>4. PICK uses \in Nat : uses = link[n].uses + (IF request[r].late THEN 0 ELSE 1)
  BY <1>2
<1>5. uses <= 1
  BY <1>1, <1>2, <1>3, <1>4
<1>6. UsedLink(n).uses = link[n].uses
  BY <1>2 DEF UsedLink, LinkRows
<1>7. /\ link'[n] = [UsedLink(n) EXCEPT !.uses = uses]
      /\ \A m \in Rows \ {n} : link'[m] = link[m]
      /\ link' = [m \in Rows |-> link'[m]]
  BY <1>1, <1>2, <1>4, <1>6 DEF UsedLink, LinkRows
<1>8. /\ link'[n] \in LinkRows /\ link'[n].user = link[n].user
      /\ ~ link'[n].live /\ link'[n].uses = uses
  BY <1>2, <1>7 DEF UsedLink, LinkRows
<1>9. link' \in [Rows -> LinkRows]
  <2>1. \A m \in Rows : link'[m] \in LinkRows
    BY <1>2, <1>7, <1>8
  <2> QED
    BY <1>7, <2>1
<1>10. ASSUME NEW q \in Requests
       PROVE  /\ request'[q].pc \in {"idle", "write"} => request[q].pc \in {"idle", "write"}
              /\ \/ LinkKnown(q)'
                 \/ /\ Same(q) /\ (request[q].late => request'[q].late)
                    /\ request[q].pc = "write" /\ request[q].doc = LinkDoc(n) =>
                         request'[q].late
  <2>1. CASE q = r
    BY <1>1, <2>1 DEF LinkKnown, Waits
  <2>2. CASE q # r
    BY <1>1, <2>2 DEF OthersAfter, Same
  <2> QED
    BY <2>1, <2>2
<1>11. LinksInv'
  BY <1>1, <1>5, <1>7, <1>8, <1>9, <1>10, LinkEnds
<1> QED
  BY <1>9, <1>11

\* The quarter of an hour of a link is over.
LEMMA LinkExpires ==
    ASSUME AuthInv, AuthNext, NEW n \in Rows, link[n].live, request' = request,
           link' = [link EXCEPT ![n].live = FALSE]
    PROVE  link' \in [Rows -> LinkRows] /\ LinksInv'
<1>1. link \in [Rows -> LinkRows] /\ link[n] \in LinkRows
  BY DEF AuthInv, AuthTypeOK
<1>2. /\ link[n].user # None /\ link[n].uses <= 1
      /\ link[n].user \in Users
  BY <1>1 DEF AuthInv, LinksInv, LinkSound, LinkRows
<1>3. /\ link'[n] = [link[n] EXCEPT !.live = FALSE]
      /\ \A m \in Rows \ {n} : link'[m] = link[m]
      /\ link' = [m \in Rows |-> link'[m]]
  BY <1>1
<1>4. /\ link'[n] \in LinkRows /\ link'[n].user = link[n].user
      /\ ~ link'[n].live /\ link'[n].uses = link[n].uses
  BY <1>1, <1>3 DEF LinkRows
<1>5. link' \in [Rows -> LinkRows]
  <2>1. \A m \in Rows : link'[m] \in LinkRows
    BY <1>1, <1>3, <1>4
  <2> QED
    BY <1>3, <2>1
<1>6. \A q \in Requests :
        /\ request'[q].pc \in {"idle", "write"} => request[q].pc \in {"idle", "write"}
        /\ Same(q) /\ (request[q].late => request'[q].late)
  BY DEF Same
<1>7. LinksInv'
  BY <1>2, <1>3, <1>4, <1>5, <1>6, LinkEnds
<1> QED
  BY <1>5, <1>7

LEMMA LinksStep ==
    ASSUME AuthInv, AuthNext
    PROVE  link' \in [Rows -> LinkRows] /\ LinksInv'
<1>1. link \in [Rows -> LinkRows]
  BY DEF AuthInv, AuthTypeOK
<1>2. ASSUME link' = link, request' = request
      PROVE  LinksInv'
  BY <1>2, LinksStay DEF Same
<1>3. ASSUME NEW u \in Users, LockEnds(u)
      PROVE  link' = link /\ LinksInv'
  BY <1>2, <1>3 DEF LockEnds
<1>4. ASSUME NEW n \in Rows, Expires(n)
      PROVE  link' \in [Rows -> LinkRows] /\ LinksInv'
  BY <1>1, <1>2, <1>4, LinkExpires DEF Expires
<1>5. ASSUME NEW r \in Requests, AuthRequest(r)
      PROVE  link' \in [Rows -> LinkRows] /\ LinksInv'
  <2>1. \A q \in Requests \ {r} : Same(q) /\ (request[q].late => request'[q].late)
    BY <1>5, AuthOthers
  <2>2. request[r].pc \in {"idle", "write"}
    BY <1>5, WhoActs
  <2>3. ASSUME link' = link, LinkKnown(r)'
        PROVE  LinksInv'
    BY <2>1, <2>2, <2>3, LinksStay DEF Same
  <2>4. CASE ForgotPassword(r)
    BY <2>4, ForgotPasswordKeeps
  <2>5. CASE SetPassword(r)
    BY <2>5, SetPasswordKeepsLinks
  <2>6. CASE ResetPassword(r)
    <3>1. link' = link
      BY <2>6 DEF ResetPassword, authVars
    <3>2. PICK n \in Rows :
            /\ link[n].live
            /\ request'[r].doc = LinkDoc(n)
            /\ request'[r].dto \in ResetPasswordDto /\ request'[r].dto.link = n
      BY <2>6, ResetPasswordReads DEF AuthInv
    <3>3. link[n].user \in Users /\ link[n].uses = 0
      BY <1>1, <3>2 DEF AuthInv, LinksInv, LinkSound, LinkRows
    <3>4. LinkKnown(r)'
      BY <3>1, <3>2, <3>3 DEF LinkKnown
    <3> QED
      BY <1>1, <2>3, <3>1, <3>4
  <2>7. CASE \/ Login(r) \/ RefreshToken(r) \/ ChangePassword(r) \/ Register(r)
             \/ ResendOtp(r) \/ ReadCount(r)
    <3>1. link' = link
      BY <2>7 DEF Login, RefreshToken, ChangePassword, Register, ResendOtp, ReadCount, authVars
    <3>2. request'[r].op \in {"clear", "failed", "rotate", "change", "email", "MFA_LOGIN",
                              "count"}
      <4>1. \A n \in Rows : token[n].live => token[n].user \in Users
        BY AuthNone DEF AuthInv, AuthTypeOK, TokenRows, TokensInv, TokenSound
      <4> QED
        BY <2>7, <4>1, LoginReads, RefreshTokenReads, ChangePasswordReads, RegisterReads,
           ResendOtpReads, ReadCountGoesOn DEF AuthInv
    <3>3. LinkKnown(r)'
      BY <3>2 DEF LinkKnown, Waits
    <3> QED
      BY <1>1, <2>3, <3>1, <3>3
  <2>8. CASE \/ CheckEmail(r) \/ ClearCounters(r) \/ Rotate(r) \/ CreateUser(r)
             \/ WriteCount(r) \/ Logout(r) \/ LogoutAll(r) \/ LogoutWithout(r)
    <3>1. link' = link
      BY <2>8 DEF CheckEmail, ClearCounters, Rotate, CreateUser, WriteCount, Logout, LogoutAll,
                  LogoutWithout, RevokeAll, authVars
    <3>2. request'[r].pc = "done" \/ request'[r].op \in {"insert", "issue", "EMAIL_VERIFY"}
      BY <2>8, CheckEmailGoesOn, ClearCountersGoesOn, RotateGoesOn, CreateUserGoesOn,
         WriteCountServes, LogoutServes, RevokeAllServes DEF AuthInv
    <3>3. LinkKnown(r)'
      BY <3>2 DEF LinkKnown, Waits
    <3> QED
      BY <1>1, <2>3, <3>1, <3>3
  <2>9. CASE \/ IssueTokens(r) \/ WritePassword(r) \/ RefuseEmail(r) \/ SendCode(r)
             \/ AuthFails(r)
    <3>1. link' = link /\ Refuse(r)
      BY <2>9 DEF IssueTokens, WritePassword, RefuseEmail, SendCode, AuthFails, authVars
    <3>2. request'[r].pc = "done"
      BY <3>1, AuthRefused DEF AuthInv
    <3>3. LinkKnown(r)'
      BY <3>2 DEF LinkKnown, Waits
    <3> QED
      BY <1>1, <2>3, <3>1, <3>3
  <2> QED
    BY <1>5, <2>4, <2>5, <2>6, <2>7, <2>8, <2>9 DEF AuthRequest
<1> QED
  BY <1>1, <1>3, <1>4, <1>5 DEF AuthNext

-----------------------------------------------------------------------------
(* The users of a tenant.                                                  *)

\* A step that inserts no user.
LEMMA PlanStays ==
    ASSUME AuthInv,
           \A u \in Users : /\ user'[u].tenant = user[u].tenant
                            /\ user'[u].email = user[u].email
                            /\ user'[u].late <=> user[u].late,
           \A q \in Requests : \/ PlanKnown(q)'
                               \/ Same(q) /\ (request[q].late => request'[q].late)
    PROVE  PlanInv'
<1>1. \A t : UsersOf(t)' = UsersOf(t) /\ InTime(t)' = InTime(t)
  BY DEF UsersOf, InTime
<1>2. ASSUME NEW t \in Tenants
      PROVE  TenantSound(t)'
  <2>1. TenantSound(t)
    BY DEF AuthInv, PlanInv
  <2>2. UsersOf(t) \subseteq Users
    BY DEF UsersOf
  <2> QED
    BY <1>1, <2>1, <2>2 DEF TenantSound
<1>3. ASSUME NEW q \in Requests
      PROVE  PlanKnown(q)'
  <2>1. PlanKnown(q)
    BY DEF AuthInv, PlanInv
  <2> QED
    BY <1>1, <2>1 DEF PlanKnown, Waits, Same
<1> QED
  BY <1>2, <1>3 DEF PlanInv

\* register(): one more user of the tenant, with an e-mail of its own.
LEMMA CreateUserKeepsPlan ==
    ASSUME AuthInv, NEW r \in Requests, CreateUser(r)
    PROVE  PlanInv'
<1>1. PICK u \in Users, t \in Tenants :
        /\ ~ user[u].present
        /\ Waits(r, {"insert"}) /\ request[r].dto \in RegisterDto
        /\ request[r].dto.tenant = t
        /\ ~ Taken(t, request[r].dto.email)
        /\ user' = [user EXCEPT ![u] =
             [NoUser EXCEPT !.present = TRUE, !.tenant = t,
                            !.email = request[r].dto.email,
                            !.password = request[r].dto.password,
                            !.late = request[r].late]]
        /\ OthersAfter(r, {TenantDoc(t)})
        /\ request'[r].pc = "write" /\ request'[r].op = "EMAIL_VERIFY"
  BY CreateUserGoesOn DEF AuthInv
<1>2. PICK email : email = request[r].dto.email
  OBVIOUS
<1>3. PICK late \in BOOLEAN : late = request[r].late
  BY DEF AuthInv, AuthTypeOK, AuthRequests, RequestsIn
<1>4. /\ user'[u].tenant = t /\ user'[u].email = email /\ user'[u].late = late
      /\ \A v \in Users \ {u} : user'[v] = user[v]
  BY <1>1, <1>2, <1>3 DEF AuthInv, AuthTypeOK, NoUser
<1>5. user[u].tenant \notin Tenants
  BY <1>1, AuthNone, AuthNames DEF AuthInv, AccountsInv, AccountSound
<1>6. UsersOf(t)' = UsersOf(t) \cup {u} /\ u \notin UsersOf(t)
  BY <1>4, <1>5 DEF UsersOf
<1>7. ASSUME NEW s \in Tenants, s # t
      PROVE  UsersOf(s)' = UsersOf(s) /\ InTime(s)' = InTime(s) /\ u \notin UsersOf(s)
  BY <1>4, <1>5, <1>7 DEF UsersOf, InTime
<1>8. /\ TenantSound(t)
      /\ ~ request[r].late => Cardinality(UsersOf(t)) < MaxUsers
  BY <1>1 DEF AuthInv, PlanInv, PlanKnown, Waits
<1>9. /\ IsFiniteSet(UsersOf(t)) /\ IsFiniteSet(UsersOf(t)')
      /\ Cardinality(UsersOf(t)') = Cardinality(UsersOf(t)) + 1
      /\ Cardinality(UsersOf(t)) \in Nat /\ Cardinality(UsersOf(t)') \in Nat
  BY <1>6, <1>8, FS_AddElement, FS_CardinalityType DEF TenantSound
<1>10. Cardinality(InTime(t)') <= MaxUsers
  <2>1. CASE late
    <3>1. InTime(t)' = InTime(t)
      BY <1>4, <1>6, <2>1 DEF InTime, UsersOf
    <3> QED
      BY <1>8, <3>1 DEF TenantSound
  <2>2. CASE ~ late
    <3>1. InTime(t)' \subseteq UsersOf(t)'
      BY DEF InTime
    <3>2. Cardinality(InTime(t)') <= Cardinality(UsersOf(t)')
      BY <1>9, <3>1, FS_Subset
    <3>3. Cardinality(InTime(t)') \in Nat
      BY <1>9, <3>1, FS_Subset, FS_CardinalityType
    <3>4. Cardinality(UsersOf(t)') <= MaxUsers
      BY <1>3, <1>8, <1>9, <2>2, AuthAssumption
    <3> QED
      BY <1>9, <3>2, <3>3, <3>4, AuthAssumption
  <2> QED
    BY <2>1, <2>2
<1>11. TenantSound(t)'
  <2>1. \A v \in UsersOf(t) : user[v].email # email
    BY <1>1, <1>2 DEF Taken
  <2>2. UsersOf(t) \subseteq Users \ {u}
    BY <1>6 DEF UsersOf
  <2>3. \A v, w \in UsersOf(t)' : user'[v].email = user'[w].email => v = w
    BY <1>4, <1>6, <1>8, <2>1, <2>2 DEF TenantSound
  <2> QED
    BY <1>9, <1>10, <2>3 DEF TenantSound
<1>12. ASSUME NEW s \in Tenants
       PROVE  TenantSound(s)'
  <2>1. CASE s = t
    BY <1>11, <2>1
  <2>2. CASE s # t
    <3>1. TenantSound(s) /\ UsersOf(s) \subseteq Users \ {u}
      BY <1>7, <2>2 DEF AuthInv, PlanInv, UsersOf
    <3>2. UsersOf(s)' = UsersOf(s) /\ InTime(s)' = InTime(s)
      BY <1>7, <2>2
    <3> QED
      BY <1>4, <3>1, <3>2 DEF TenantSound
  <2> QED
    BY <2>1, <2>2
<1>13. ASSUME NEW q \in Requests
       PROVE  PlanKnown(q)'
  <2>1. CASE q = r
    BY <1>1, <2>1 DEF PlanKnown, Waits
  <2>2. CASE q # r
    <3>1. SUFFICES ASSUME Waits(q, {"email", "insert"})
                   PROVE  PlanKnown(q)'
      BY <1>1, <2>2 DEF PlanKnown, Waits, OthersAfter, Same
    <3>2. /\ request[q].dto \in RegisterDto
          /\ request[q].doc = TenantDoc(request[q].dto.tenant)
          /\ ~ request[q].late => Cardinality(UsersOf(request[q].dto.tenant)) < MaxUsers
      BY <3>1 DEF AuthInv, PlanInv, PlanKnown
    <3>3. PICK s \in Tenants : s = request[q].dto.tenant
      BY <3>2 DEF RegisterDto
    <3>4. /\ Same(q) /\ (request[q].late => request'[q].late)
          /\ request[q].doc = TenantDoc(t) => request'[q].late
      BY <1>1, <2>2, <3>1 DEF OthersAfter, Waits
    <3>5. ~ request'[q].late => s # t /\ Cardinality(UsersOf(s)) < MaxUsers
      BY <3>2, <3>3, <3>4
    <3>6. ~ request'[q].late => Cardinality(UsersOf(s)') < MaxUsers
      BY <1>7, <3>5
    <3> QED
      BY <3>2, <3>3, <3>4, <3>6 DEF PlanKnown, Same
  <2> QED
    BY <2>1, <2>2
<1> QED
  BY <1>12, <1>13 DEF PlanInv

LEMMA PlanStep ==
    ASSUME AuthInv, AuthNext
    PROVE  PlanInv'
<1>1. user \in [Users -> UserRows]
  BY DEF AuthInv, AuthTypeOK
<1>2. ASSUME NEW u \in Users, LockEnds(u)
      PROVE  PlanInv'
  <2>1. user' = [user EXCEPT ![u].locked = FALSE] /\ request' = request
    BY <1>2 DEF LockEnds
  <2>2. \A v \in Users : /\ user'[v].tenant = user[v].tenant
                         /\ user'[v].email = user[v].email
                         /\ user'[v].late <=> user[v].late
    BY <1>1, <2>1 DEF UserRows
  <2> QED
    BY <2>1, <2>2, PlanStays DEF Same
<1>3. ASSUME NEW n \in Rows, Expires(n)
      PROVE  PlanInv'
  BY <1>3, PlanStays DEF Expires, Same
<1>4. ASSUME NEW r \in Requests, AuthRequest(r)
      PROVE  PlanInv'
  <2>1. \A q \in Requests \ {r} : Same(q) /\ (request[q].late => request'[q].late)
    BY <1>4, AuthOthers
  <2>2. ASSUME user' = user, PlanKnown(r)'
        PROVE  PlanInv'
    BY <2>1, <2>2, PlanStays
  <2>3. ASSUME \A v \in Users : /\ user'[v].tenant = user[v].tenant
                                /\ user'[v].email = user[v].email
                                /\ user'[v].late <=> user[v].late,
               PlanKnown(r)'
        PROVE  PlanInv'
    BY <2>1, <2>3, PlanStays
  <2>4. CASE CreateUser(r)
    BY <2>4, CreateUserKeepsPlan
  <2>5. CASE Register(r)
    <3>1. user' = user
      BY <2>5 DEF Register, authVars
    <3>2. PICK t \in Tenants :
            /\ BelowLimit(t)
            /\ request'[r].doc = TenantDoc(t)
            /\ request'[r].dto \in RegisterDto /\ request'[r].dto.tenant = t
      BY <2>5, RegisterReads DEF AuthInv
    <3>3. PlanKnown(r)'
      BY <3>1, <3>2 DEF PlanKnown, BelowLimit, UsersOf
    <3> QED
      BY <2>2, <3>1, <3>3
  <2>6. CASE CheckEmail(r)
    <3>1. user' = user
      BY <2>6 DEF CheckEmail, authVars
    <3>2. /\ Waits(r, {"email"})
          /\ \/ request'[r].pc = "done"
             \/ /\ request'[r].doc = request[r].doc /\ request'[r].dto = request[r].dto
                /\ request'[r].late = request[r].late
      BY <2>6, CheckEmailGoesOn DEF AuthInv
    <3>3. PlanKnown(r) /\ Waits(r, {"email", "insert"})
      BY <3>2 DEF AuthInv, PlanInv, Waits
    <3>4. PlanKnown(r)'
      BY <3>1, <3>2, <3>3 DEF PlanKnown, UsersOf, Waits
    <3> QED
      BY <2>2, <3>1, <3>4
  <2>7. CASE WriteCount(r) \/ ClearCounters(r) \/ SetPassword(r) \/ WritePassword(r)
    <3>1. \A v \in Users : /\ user'[v].tenant = user[v].tenant
                           /\ user'[v].email = user[v].email
                           /\ user'[v].late <=> user[v].late
      <4>1. CASE WriteCount(r)
        BY <1>1, <4>1 DEF WriteCount, UserRows
      <4>2. CASE ClearCounters(r)
        BY <1>1, <4>2 DEF ClearCounters, Cleared, UserRows
      <4>3. CASE SetPassword(r)
        <5>1. PICK u : user' = [user EXCEPT ![u] =
                         [Cleared(@) EXCEPT !.password = request[r].dto.password]]
          BY <4>3 DEF SetPassword
        <5> QED
          BY <1>1, <5>1 DEF Cleared, UserRows
      <4>4. CASE WritePassword(r)
        BY <1>1, <4>4 DEF WritePassword, UserRows
      <4> QED
        BY <2>7, <4>1, <4>2, <4>3, <4>4
    <3>2. request'[r].pc = "done" \/ request'[r].op = "issue"
      <4>1. WritePassword(r) => Refuse(r)
        BY DEF WritePassword
      <4> QED
        BY <2>7, <4>1, WriteCountServes, ClearCountersGoesOn, SetPasswordServes, AuthRefused
          DEF AuthInv
    <3>3. PlanKnown(r)'
      BY <3>2 DEF PlanKnown, Waits
    <3> QED
      BY <2>3, <3>1, <3>3
  <2>8. CASE \/ Login(r) \/ RefreshToken(r) \/ ResetPassword(r) \/ ChangePassword(r)
             \/ ResendOtp(r) \/ ReadCount(r)
    <3>1. user' = user
      BY <2>8 DEF Login, RefreshToken, ResetPassword, ChangePassword, ResendOtp, ReadCount,
                  authVars
    <3>2. request'[r].op \in {"clear", "failed", "rotate", "reset", "change", "MFA_LOGIN",
                              "count"}
      <4>1. \A n \in Rows : token[n].live => token[n].user \in Users
        BY AuthNone DEF AuthInv, AuthTypeOK, TokenRows, TokensInv, TokenSound
      <4> QED
        BY <2>8, <4>1, LoginReads, RefreshTokenReads, ResetPasswordReads, ChangePasswordReads,
           ResendOtpReads, ReadCountGoesOn DEF AuthInv
    <3>3. PlanKnown(r)'
      BY <3>2 DEF PlanKnown, Waits
    <3> QED
      BY <2>2, <3>1, <3>3
  <2>9. CASE Rotate(r) \/ Logout(r) \/ LogoutAll(r) \/ LogoutWithout(r)
    <3>1. user' = user
      BY <2>9 DEF Rotate, Logout, LogoutAll, LogoutWithout, RevokeAll
    <3>2. request'[r].pc = "done" \/ request'[r].op = "issue"
      BY <2>9, RotateGoesOn, LogoutServes, RevokeAllServes DEF AuthInv
    <3>3. PlanKnown(r)'
      BY <3>2 DEF PlanKnown, Waits
    <3> QED
      BY <2>2, <3>1, <3>3
  <2>10. CASE \/ IssueTokens(r) \/ ForgotPassword(r) \/ RefuseEmail(r) \/ SendCode(r)
              \/ AuthFails(r)
    <3>1. user' = user /\ Refuse(r)
      BY <2>10 DEF IssueTokens, ForgotPassword, RefuseEmail, SendCode, AuthFails, authVars
    <3>2. request'[r].pc = "done"
      BY <3>1, AuthRefused DEF AuthInv
    <3>3. PlanKnown(r)'
      BY <3>2 DEF PlanKnown, Waits
    <3> QED
      BY <2>2, <3>1, <3>3
  <2> QED
    BY <1>4, <2>4, <2>5, <2>6, <2>7, <2>8, <2>9, <2>10 DEF AuthRequest
<1> QED
  BY <1>2, <1>3, <1>4 DEF AuthNext

-----------------------------------------------------------------------------
(* Refresh tokens.                                                         *)

\* Who follows a token is a row of its own or a request that will be one, and the
\* token is there.
LEMMA FollowedAreThere ==
    ASSUME AuthInv, NEW n \in Rows, NEW m \in Rows, Follows(n, m)
    PROVE  token[n].user \in Users
<1>1. CASE token[m].parent = n
  BY <1>1 DEF AuthInv, TokensInv, TokenSound
<1>2. CASE m \in Requests /\ Waits(m, {"issue"}) /\ ParentOf(request[m].dto) = n
  BY <1>2 DEF AuthInv, TokensInv, TokenKnown
<1> QED
  BY <1>1, <1>2 DEF Follows

\* What a request knows of a token stays true as long as the row is kept.
LEMMA TokenKnownStays ==
    ASSUME NEW q \in Requests, TokenKnown(q), Same(q),
           request[q].pc \in {"idle", "write"} => token'[q] = NoRow,
           \A n \in Rows : token[n].user \in Users =>
             token'[n].user = token[n].user /\ token'[n].created = token[n].created
    PROVE  TokenKnown(q)'
<1>1. request'[q].pc \in {"idle", "write"} => token'[q] = NoRow
  BY DEF Same
<1>2. ASSUME Waits(q, {"rotate"})
      PROVE  /\ request[q].dto \in RefreshTokenDto
             /\ request[q].doc = TokenDoc(request[q].dto.refreshToken)
             /\ token'[request[q].dto.refreshToken].user \in Users
             /\ request[q].was = token'[request[q].dto.refreshToken].created
  <2>1. /\ request[q].dto \in RefreshTokenDto
        /\ request[q].doc = TokenDoc(request[q].dto.refreshToken)
        /\ token[request[q].dto.refreshToken].user \in Users
        /\ request[q].was = token[request[q].dto.refreshToken].created
    BY <1>2 DEF TokenKnown
  <2>2. request[q].dto.refreshToken \in Rows
    BY <2>1 DEF RefreshTokenDto
  <2> QED
    BY <2>1, <2>2
<1>3. ASSUME Waits(q, {"issue"})
      PROVE  /\ request[q].doc \in Users /\ request[q].was \in Nat
             /\ ParentOf(request[q].dto) \in Rows \cup {None}
             /\ ParentOf(request[q].dto) \in Rows =>
                  /\ token'[ParentOf(request[q].dto)].user \in Users
                  /\ request[q].was = token'[ParentOf(request[q].dto)].created
  <2>1. /\ request[q].doc \in Users /\ request[q].was \in Nat
        /\ ParentOf(request[q].dto) \in Rows \cup {None}
        /\ ParentOf(request[q].dto) \in Rows =>
             /\ token[ParentOf(request[q].dto)].user \in Users
             /\ request[q].was = token[ParentOf(request[q].dto)].created
    BY <1>3 DEF TokenKnown
  <2> QED
    BY <2>1
<1> QED
  BY <1>1, <1>2, <1>3 DEF TokenKnown, Waits, Same, ParentOf

\* Followers do not become more, nor does a token work again.
LEMMA FollowedOnceStays ==
    ASSUME AuthInv,
           \A n, m \in Rows : Follows(n, m)' => Follows(n, m),
           \A n \in Rows : token'[n].live => token[n].live \/ token[n].user = None,
           \A n \in Rows : \A q \in Requests :
             (Rotates(q, n)' /\ ~ request'[q].late) =>
               (Rotates(q, n) /\ ~ request[q].late) \/ token[n].live
    PROVE  FollowedOnce'
<1>1. ASSUME NEW n \in Rows
      PROVE  /\ \A m, k \in Rows : Follows(n, m)' /\ Follows(n, k)' => m = k
             /\ token'[n].live => \A m \in Rows : ~ Follows(n, m)'
             /\ \A q \in Requests : Rotates(q, n)' /\ ~ request'[q].late =>
                  \A m \in Rows : ~ Follows(n, m)'
  <2>1. /\ \A m, k \in Rows : Follows(n, m) /\ Follows(n, k) => m = k
        /\ token[n].live => \A m \in Rows : ~ Follows(n, m)
        /\ \A q \in Requests : Rotates(q, n) /\ ~ request[q].late =>
             \A m \in Rows : ~ Follows(n, m)
    BY DEF AuthInv, TokensInv, FollowedOnce
  <2>2. token[n].user = None => \A m \in Rows : ~ Follows(n, m)
    BY FollowedAreThere, AuthNames
  <2> QED
    BY <2>1, <2>2
<1> QED
  BY <1>1 DEF FollowedOnce

\* A step that at most ends the life of some tokens.
LEMMA TokensStay ==
    ASSUME AuthInv, token' \in [Rows -> TokenRows],
           \A n \in Rows :
             /\ token'[n].user = token[n].user /\ token'[n].parent = token[n].parent
             /\ token'[n].began = token[n].began /\ token'[n].created = token[n].created
             /\ token'[n].late <=> token[n].late
             /\ token[n].user = None => token'[n] = token[n]
             /\ token'[n].live =>
                  token[n].live /\ tally'[token[n].user].ended = tally[token[n].user].ended,
           \A q \in Requests :
             \/ Same(q) /\ (request[q].late => request'[q].late)
             \/ /\ request'[q].pc \in {"idle", "write"} => request[q].pc \in {"idle", "write"}
                /\ \/ ~ Waits(q, {"rotate", "issue"})'
                   \/ /\ Waits(q, {"issue"})' /\ request'[q].dto = None
                      /\ request'[q].doc \in Users /\ request'[q].was \in Nat
                   \/ \E n \in Rows :
                        /\ token[n].live
                        /\ request'[q].op = "rotate" /\ request'[q].doc = TokenDoc(n)
                        /\ request'[q].dto \in RefreshTokenDto
                        /\ request'[q].dto.refreshToken = n
                        /\ request'[q].was = tally[token[n].user].ended
    PROVE  TokensInv'
<1>1. ASSUME NEW n \in Rows
      PROVE  TokenSound(n)'
  <2>1. TokenSound(n) /\ token[n] \in TokenRows
    BY DEF AuthInv, TokensInv, AuthTypeOK
  <2> QED
    BY <2>1 DEF TokenSound
<1>2. ASSUME NEW q \in Requests, request[q].pc \in {"idle", "write"}
      PROVE  token'[q] = NoRow
  <2>1. token[q] = NoRow /\ q \in Rows
    BY <1>2, AuthNames DEF AuthInv, TokensInv, TokenKnown
  <2> QED
    BY <2>1, AuthNone
<1>3. ASSUME NEW n \in Rows, token[n].live
      PROVE  token[n].user \in Users /\ token[n].created = tally[token[n].user].ended
  BY <1>3, AuthNone DEF AuthInv, AuthTypeOK, TokenRows, TokensInv, TokenSound
<1>4. ASSUME NEW q \in Requests
      PROVE  TokenKnown(q)'
  <2>1. CASE Same(q)
    <3>1. TokenKnown(q)
      BY DEF AuthInv, TokensInv
    <3> QED
      BY <1>2, <2>1, <3>1, TokenKnownStays
  <2>2. CASE ~ Same(q)
    <3>1. request'[q].pc \in {"idle", "write"} => token'[q] = NoRow
      BY <1>2, <2>2
    <3>2. CASE ~ Waits(q, {"rotate", "issue"})'
      BY <3>1, <3>2 DEF TokenKnown, Waits
    <3>3. CASE /\ Waits(q, {"issue"})' /\ request'[q].dto = None
               /\ request'[q].doc \in Users /\ request'[q].was \in Nat
      BY <3>1, <3>3, AuthNames DEF TokenKnown, Waits, ParentOf
    <3>4. ASSUME NEW n \in Rows,
                 token[n].live,
                 request'[q].op = "rotate", request'[q].doc = TokenDoc(n),
                 request'[q].dto \in RefreshTokenDto,
                 request'[q].dto.refreshToken = n,
                 request'[q].was = tally[token[n].user].ended
          PROVE  TokenKnown(q)'
      <4>1. token[n].user \in Users /\ token[n].created = tally[token[n].user].ended
        BY <1>3, <3>4
      <4>2. token'[n].user \in Users /\ request'[q].was = token'[n].created
        BY <3>4, <4>1
      <4> QED
        BY <3>1, <3>4, <4>2 DEF TokenKnown, Waits
    <3> QED
      BY <2>2, <3>2, <3>3, <3>4
  <2> QED
    BY <2>1, <2>2
<1>5. ASSUME NEW n \in Rows, NEW m \in Rows, Follows(n, m)'
      PROVE  Follows(n, m)
  <2>1. CASE token'[m].parent = n /\ ~ token'[m].late
    BY <2>1 DEF Follows
  <2>2. CASE /\ m \in Requests /\ Waits(m, {"issue"})'
             /\ ParentOf(request'[m].dto) = n /\ ~ request'[m].late
    <3>1. Same(m) /\ ~ request[m].late
      BY <2>2, AuthNames DEF Waits, ParentOf
    <3> QED
      BY <2>2, <3>1 DEF Follows, Waits, Same, ParentOf
  <2> QED
    BY <1>5, <2>1, <2>2 DEF Follows
<1>6. ASSUME NEW n \in Rows, NEW q \in Requests, Rotates(q, n)', ~ request'[q].late
      PROVE  (Rotates(q, n) /\ ~ request[q].late) \/ token[n].live
  BY <1>6 DEF Rotates, Waits, Same
<1>7. FollowedOnce'
  BY <1>5, <1>6, FollowedOnceStays
<1> QED
  BY <1>1, <1>4, <1>7 DEF TokensInv

\* Revoked tokens keep all but their life.
LEMMA RevokedRows ==
    ASSUME AuthInv, NEW STATE rows, Revoke(rows)
    PROVE  /\ token' \in [Rows -> TokenRows]
           /\ \A n \in Rows :
                /\ token'[n].user = token[n].user /\ token'[n].parent = token[n].parent
                /\ token'[n].began = token[n].began /\ token'[n].created = token[n].created
                /\ token'[n].late <=> token[n].late
                /\ token[n].user = None => token'[n] = token[n]
                /\ token'[n].live => token[n].live /\ n \notin rows
<1>1. ASSUME NEW n \in Rows
      PROVE  /\ token'[n] \in TokenRows
             /\ token'[n].user = token[n].user /\ token'[n].parent = token[n].parent
             /\ token'[n].began = token[n].began /\ token'[n].created = token[n].created
             /\ token'[n].late <=> token[n].late
             /\ token[n].user = None => token'[n] = token[n]
             /\ token'[n].live => token[n].live /\ n \notin rows
  <2>1. PICK live \in BOOLEAN : live = (token[n].live /\ n \notin rows)
    OBVIOUS
  <2>2. token[n] \in TokenRows /\ (token[n].user = None => token[n] = NoRow)
    BY DEF AuthInv, AuthTypeOK, TokensInv, TokenSound
  <2>3. token'[n] = [token[n] EXCEPT !.live = live]
    BY <2>1 DEF Revoke
  <2>4. token[n].user = None => token'[n] = token[n]
    <3>1. SUFFICES ASSUME token[n] = NoRow
                   PROVE  token'[n] = token[n]
      BY <2>2
    <3>2. token[n].live = live
      BY <2>1, <3>1, AuthNone
    <3>3. [token[n] EXCEPT !.live = live] = token[n]
      BY <2>2, <3>2 DEF TokenRows
    <3> QED
      BY <2>3, <3>3
  <2>5. /\ token'[n] \in TokenRows
        /\ token'[n].user = token[n].user /\ token'[n].parent = token[n].parent
        /\ token'[n].began = token[n].began /\ token'[n].created = token[n].created
        /\ token'[n].late <=> token[n].late
        /\ token'[n].live = live
    BY <2>2, <2>3 DEF TokenRows
  <2> QED
    BY <2>1, <2>4, <2>5
<1>2. token' = [n \in Rows |-> token'[n]]
  BY DEF Revoke
<1>3. token' \in [Rows -> TokenRows]
  BY <1>1, <1>2
<1> QED
  BY <1>1, <1>3

\* refreshToken(): the token that was read is revoked.
LEMMA RotateKeeps ==
    ASSUME AuthInv, NEW r \in Requests, Rotate(r)
    PROVE  token' \in [Rows -> TokenRows] /\ TokensInv'
<1>1. PICK n \in Rows :
        /\ Rotates(r, n) /\ token[n].user \in Users
        /\ request' \in AuthRequests /\ OthersAfter(r, {TokenDoc(n)})
        /\ request'[r].pc = "write" /\ request'[r].op = "issue"
        /\ request'[r].doc = token[n].user /\ request'[r].dto = request[r].dto
        /\ request'[r].was = request[r].was /\ request'[r].late = request[r].late
  BY RotateGoesOn DEF AuthInv
<1>2. token \in [Rows -> TokenRows] /\ token[n] \in TokenRows
  BY DEF AuthInv, AuthTypeOK
<1>3. /\ token'[n] = [token[n] EXCEPT !.live = FALSE]
      /\ \A m \in Rows \ {n} : token'[m] = token[m]
      /\ token' = [m \in Rows |-> token'[m]]
  BY <1>1, <1>2 DEF Rotate, Rotates
<1>4. /\ token'[n] \in TokenRows /\ ~ token'[n].live
      /\ token'[n].user = token[n].user /\ token'[n].parent = token[n].parent
      /\ token'[n].began = token[n].began /\ token'[n].created = token[n].created
      /\ token'[n].late <=> token[n].late
  BY <1>2, <1>3 DEF TokenRows
<1>5. token' \in [Rows -> TokenRows]
  <2>1. \A m \in Rows : token'[m] \in TokenRows
    BY <1>2, <1>3, <1>4
  <2> QED
    BY <1>3, <2>1
<1>6. \A m \in Rows :
        /\ token'[m].user = token[m].user /\ token'[m].parent = token[m].parent
        /\ token'[m].began = token[m].began /\ token'[m].created = token[m].created
        /\ token'[m].late <=> token[m].late
        /\ token'[m].live => token[m].live
  BY <1>3, <1>4
<1>7. tally' = tally
  BY DEF Rotate
<1>8. ASSUME NEW m \in Rows
      PROVE  TokenSound(m)'
  <2>1. TokenSound(m) /\ token[m] \in TokenRows
    BY DEF AuthInv, TokensInv, AuthTypeOK
  <2>2. token'[m].user = None => token'[m] = NoRow
    <3>1. CASE m = n
      BY <1>1, <1>4, <3>1, AuthNames
    <3>2. CASE m # n
      BY <1>3, <2>1, <3>2 DEF TokenSound
    <3> QED
      BY <3>1, <3>2
  <2> QED
    BY <1>6, <1>7, <2>1, <2>2 DEF TokenSound
<1>9. ASSUME NEW q \in Requests, request[q].pc \in {"idle", "write"}
      PROVE  token'[q] = NoRow
  <2>1. token[q] = NoRow /\ q \in Rows
    BY <1>9, AuthNames DEF AuthInv, TokensInv, TokenKnown
  <2>2. q # n
    BY <1>1, <2>1, AuthNone, AuthNames
  <2> QED
    BY <1>3, <2>1, <2>2
<1>10. /\ request[r].dto \in RefreshTokenDto
       /\ request[r].was = token[n].created
       /\ ParentOf(request[r].dto) \in {n, None}
  BY <1>1 DEF AuthInv, TokensInv, TokenKnown, Rotates, ParentOf
<1>11. ASSUME NEW q \in Requests
       PROVE  TokenKnown(q)'
  <2>1. CASE q = r
    <3>1. request[r].pc = "write" /\ token'[r] = NoRow
      BY <1>1, <1>9 DEF Rotates, Waits
    <3>2. ParentOf(request'[r].dto) \in {n, None}
      BY <1>1, <1>10
    <3>3. request'[r].doc \in Users /\ request'[r].was \in Nat
          /\ request'[r].was = token'[n].created /\ token'[n].user \in Users
      BY <1>1, <1>2, <1>4, <1>10 DEF TokenRows
    <3> QED
      BY <1>1, <2>1, <3>1, <3>2, <3>3, AuthNames DEF TokenKnown, Waits
  <2>2. CASE q # r
    <3>1. TokenKnown(q) /\ Same(q)
      BY <1>1, <2>2 DEF AuthInv, TokensInv, OthersAfter
    <3> QED
      BY <1>6, <1>9, <3>1, TokenKnownStays
  <2> QED
    BY <2>1, <2>2
<1>12. ASSUME NEW k \in Rows, NEW m \in Rows, Follows(k, m)'
       PROVE  Follows(k, m) \/ (k = n /\ m = r /\ ~ request[r].late)
  <2>1. CASE token'[m].parent = k /\ ~ token'[m].late
    BY <1>6, <2>1 DEF Follows
  <2>2. CASE /\ m \in Requests /\ Waits(m, {"issue"})'
             /\ ParentOf(request'[m].dto) = k /\ ~ request'[m].late
    <3>1. CASE m = r
      BY <1>1, <1>10, <2>2, <3>1, AuthNames
    <3>2. CASE m # r
      <4>1. Same(m) /\ ~ request[m].late
        BY <1>1, <2>2, <3>2 DEF OthersAfter
      <4> QED
        BY <2>2, <4>1 DEF Follows, Waits, Same
    <3> QED
      BY <3>1, <3>2
  <2> QED
    BY <1>12, <2>1, <2>2 DEF Follows
<1>13. ASSUME NEW k \in Rows, NEW q \in Requests, Rotates(q, k)', ~ request'[q].late
       PROVE  Rotates(q, k) /\ ~ request[q].late /\ k # n
  <2>1. q # r
    BY <1>1, <1>13 DEF Rotates, Waits
  <2>2. Same(q) /\ ~ request[q].late
    BY <1>1, <1>13, <2>1 DEF OthersAfter
  <2>3. Rotates(q, k)
    BY <1>13, <2>2 DEF Rotates, Waits, Same
  <2>4. request[q].doc = TokenDoc(k) /\ request[q].pc = "write"
    BY <2>3 DEF AuthInv, TokensInv, TokenKnown, Rotates, Waits
  <2>5. k # n
    BY <1>1, <1>13, <2>1, <2>4 DEF OthersAfter
  <2> QED
    BY <2>2, <2>3, <2>5
<1>14. FollowedOnce'
  <2>1. ASSUME NEW k \in Rows
        PROVE  /\ \A m, l \in Rows : Follows(k, m)' /\ Follows(k, l)' => m = l
               /\ token'[k].live => \A m \in Rows : ~ Follows(k, m)'
               /\ \A q \in Requests : Rotates(q, k)' /\ ~ request'[q].late =>
                    \A m \in Rows : ~ Follows(k, m)'
    <3>1. /\ \A m, l \in Rows : Follows(k, m) /\ Follows(k, l) => m = l
          /\ token[k].live => \A m \in Rows : ~ Follows(k, m)
          /\ \A q \in Requests : Rotates(q, k) /\ ~ request[q].late =>
               \A m \in Rows : ~ Follows(k, m)
      BY DEF AuthInv, TokensInv, FollowedOnce
    <3>2. CASE k = n /\ ~ request[r].late
      <4>1. \A m \in Rows : ~ Follows(k, m)
        BY <1>1, <3>1, <3>2
      <4>2. \A m \in Rows : Follows(k, m)' => m = r
        BY <1>12, <4>1
      <4> QED
        BY <1>4, <1>13, <3>2, <4>2
    <3>3. CASE k # n \/ request[r].late
      <4>1. \A m \in Rows : Follows(k, m)' => Follows(k, m)
        BY <1>12, <3>3
      <4> QED
        BY <1>6, <1>13, <3>1, <4>1
    <3> QED
      BY <3>2, <3>3
  <2> QED
    BY <2>1 DEF FollowedOnce
<1> QED
  BY <1>5, <1>8, <1>11, <1>14 DEF TokensInv

\* issueTokens(): a new token.
LEMMA IssueTokensKeeps ==
    ASSUME AuthInv, NEW r \in Requests, IssueTokens(r)
    PROVE  token' \in [Rows -> TokenRows] /\ TokensInv'
<1>1. Waits(r, {"issue"}) /\ Refuse(r) /\ tally' = tally
  BY DEF IssueTokens, AtWrite, Waits
<1>2. /\ token[r] = NoRow
      /\ request[r].doc \in Users /\ request[r].was \in Nat
      /\ ParentOf(request[r].dto) \in Rows \cup {None}
      /\ ParentOf(request[r].dto) \in Rows =>
           /\ token[ParentOf(request[r].dto)].user \in Users
           /\ request[r].was = token[ParentOf(request[r].dto)].created
  BY <1>1 DEF AuthInv, TokensInv, TokenKnown, Waits
<1>3. PICK u \in Users, began \in Nat, p \in Rows \cup {None} :
        u = request[r].doc /\ began = request[r].was /\ p = ParentOf(request[r].dto)
  BY <1>2
<1>4. PICK late \in BOOLEAN : late = request[r].late
  BY DEF AuthInv, AuthTypeOK, AuthRequests, RequestsIn
<1>5. PICK created \in Nat : created = tally[u].ended
  BY DEF AuthInv, AuthTypeOK, TallyRows
<1>6. r \in Rows /\ token \in [Rows -> TokenRows] /\ Requests \subseteq Rows
  BY AuthNames DEF AuthInv, AuthTypeOK
<1>7. /\ token'[r] = [user |-> u, live |-> TRUE, parent |-> p, began |-> began,
                      created |-> created, late |-> late]
      /\ \A m \in Rows \ {r} : token'[m] = token[m]
      /\ token' = [m \in Rows |-> token'[m]]
  BY <1>3, <1>4, <1>5, <1>6 DEF IssueTokens
<1>8. /\ token'[r] \in TokenRows
      /\ token'[r].user = u /\ token'[r].parent = p /\ token'[r].began = began
      /\ token'[r].created = created /\ token'[r].late = late
  BY <1>7 DEF TokenRows
<1>9. token' \in [Rows -> TokenRows]
  <2>1. \A m \in Rows : token'[m] \in TokenRows
    BY <1>6, <1>7, <1>8
  <2> QED
    BY <1>7, <2>1
<1>10. request'[r].pc = "done" /\ \A q \in Requests \ {r} : request'[q] = request[q]
  <2>1. \A q \in Requests \ {r} : request'[q] = request[q]
    BY <1>1 DEF Refuse, AuthInv, AuthTypeOK, AuthRequests, RequestsIn
  <2> QED
    BY <1>1, <2>1, AuthRefused DEF AuthInv
<1>11. p # r /\ (p \in Rows => token[p].user \in Users /\ began = token[p].created)
  BY <1>2, <1>3, <1>6, AuthNone, AuthNames
<1>12. ASSUME NEW m \in Rows
       PROVE  TokenSound(m)'
  <2>1. CASE m = r
    <3>1. token'[r].user # None /\ token'[r].created = tally'[token'[r].user].ended
      BY <1>1, <1>5, <1>8, AuthNames
    <3>2. p \in Rows => token'[p].user \in Users /\ began = token'[p].created
      BY <1>7, <1>11
    <3> QED
      BY <1>8, <2>1, <3>1, <3>2 DEF TokenSound
  <2>2. CASE m # r
    <3>1. TokenSound(m) /\ token'[m] = token[m]
      BY <1>7, <2>2 DEF AuthInv, TokensInv
    <3>2. token[m].parent \in Rows => token[m].parent # r
      BY <1>2, <3>1, AuthNone, AuthNames DEF TokenSound
    <3>3. token[m].parent \in Rows => token'[token[m].parent] = token[token[m].parent]
      BY <1>7, <3>2
    <3> QED
      BY <1>1, <3>1, <3>3 DEF TokenSound
  <2> QED
    BY <2>1, <2>2
<1>13. ASSUME NEW q \in Requests
       PROVE  TokenKnown(q)'
  <2>1. CASE q = r
    BY <1>10, <2>1 DEF TokenKnown, Waits
  <2>2. CASE q # r
    <3>1. TokenKnown(q) /\ Same(q)
      BY <1>10, <2>2 DEF AuthInv, TokensInv, Same
    <3>2. request[q].pc \in {"idle", "write"} => token'[q] = NoRow
      BY <1>6, <1>7, <2>2, <3>1 DEF TokenKnown
    <3>3. \A m \in Rows : token[m].user \in Users =>
            token'[m].user = token[m].user /\ token'[m].created = token[m].created
      BY <1>2, <1>7, AuthNone, AuthNames
    <3> QED
      BY <3>1, <3>2, <3>3, TokenKnownStays
  <2> QED
    BY <2>1, <2>2
<1>14. ASSUME NEW k \in Rows, NEW m \in Rows, Follows(k, m)'
       PROVE  Follows(k, m)
  <2>1. CASE token'[m].parent = k /\ ~ token'[m].late
    <3>1. CASE m = r
      BY <1>1, <1>3, <1>4, <1>8, <2>1, <3>1 DEF Follows
    <3>2. CASE m # r
      BY <1>7, <2>1, <3>2 DEF Follows
    <3> QED
      BY <3>1, <3>2
  <2>2. CASE /\ m \in Requests /\ Waits(m, {"issue"})'
             /\ ParentOf(request'[m].dto) = k /\ ~ request'[m].late
    <3>1. m # r
      BY <1>10, <2>2 DEF Waits
    <3>2. request'[m] = request[m]
      BY <1>10, <2>2, <3>1
    <3> QED
      BY <2>2, <3>2 DEF Follows, Waits
  <2> QED
    BY <1>14, <2>1, <2>2 DEF Follows
<1>15. \A m \in Rows : token'[m].live => token[m].live \/ token[m].user = None
  BY <1>2, <1>7, AuthNone
<1>16. ASSUME NEW k \in Rows, NEW q \in Requests, Rotates(q, k)', ~ request'[q].late
       PROVE  Rotates(q, k) /\ ~ request[q].late
  <2>1. q # r
    BY <1>10, <1>16 DEF Rotates, Waits
  <2>2. request'[q] = request[q]
    BY <1>10, <2>1
  <2> QED
    BY <1>16, <2>2 DEF Rotates, Waits
<1>17. FollowedOnce'
  BY <1>14, <1>15, <1>16, FollowedOnceStays
<1> QED
  BY <1>9, <1>12, <1>13, <1>17 DEF TokensInv

\* The steps of requests that neither give a token nor take one for another.
LEMMA TokensRest ==
    ASSUME AuthInv, NEW r \in Requests, AuthRequest(r),
           token' \in [Rows -> TokenRows],
           \A n \in Rows :
             /\ token'[n].user = token[n].user /\ token'[n].parent = token[n].parent
             /\ token'[n].began = token[n].began /\ token'[n].created = token[n].created
             /\ token'[n].late <=> token[n].late
             /\ token[n].user = None => token'[n] = token[n]
             /\ token'[n].live =>
                  token[n].live /\ tally'[token[n].user].ended = tally[token[n].user].ended,
           \/ ~ Waits(r, {"rotate", "issue"})'
           \/ /\ Waits(r, {"issue"})' /\ request'[r].dto = None
              /\ request'[r].doc \in Users /\ request'[r].was \in Nat
           \/ \E n \in Rows :
                /\ token[n].live
                /\ request'[r].op = "rotate" /\ request'[r].doc = TokenDoc(n)
                /\ request'[r].dto \in RefreshTokenDto
                /\ request'[r].dto.refreshToken = n
                /\ request'[r].was = tally[token[n].user].ended
    PROVE  TokensInv'
<1>1. \A q \in Requests \ {r} : Same(q) /\ (request[q].late => request'[q].late)
  BY AuthOthers
<1>2. request[r].pc \in {"idle", "write"}
  BY WhoActs
<1>3. \A q \in Requests :
        \/ Same(q) /\ (request[q].late => request'[q].late)
        \/ /\ request'[q].pc \in {"idle", "write"} => request[q].pc \in {"idle", "write"}
           /\ \/ ~ Waits(q, {"rotate", "issue"})'
              \/ /\ Waits(q, {"issue"})' /\ request'[q].dto = None
                 /\ request'[q].doc \in Users /\ request'[q].was \in Nat
              \/ \E n \in Rows :
                   /\ token[n].live
                   /\ request'[q].op = "rotate" /\ request'[q].doc = TokenDoc(n)
                   /\ request'[q].dto \in RefreshTokenDto
                   /\ request'[q].dto.refreshToken = n
                   /\ request'[q].was = tally[token[n].user].ended
  BY <1>1, <1>2
<1> QED
  BY <1>3, TokensStay

LEMMA TokensStep ==
    ASSUME AuthInv, AuthNext
    PROVE  token' \in [Rows -> TokenRows] /\ TokensInv'
<1>1. token \in [Rows -> TokenRows]
  BY DEF AuthInv, AuthTypeOK
<1>2. ASSUME token' = token, UNCHANGED <<request, tally>>
      PROVE  TokensInv'
  BY <1>1, <1>2, TokensStay DEF Same
<1>3. ASSUME NEW u \in Users, LockEnds(u)
      PROVE  token' = token /\ TokensInv'
  BY <1>2, <1>3 DEF LockEnds
<1>4. ASSUME NEW n \in Rows, Expires(n)
      PROVE  token' \in [Rows -> TokenRows] /\ TokensInv'
  <2>1. CASE token' = token
    BY <1>1, <1>2, <1>4, <2>1 DEF Expires
  <2>2. CASE token' # token
    <3>1. token[n].live /\ token' = [token EXCEPT ![n].live = FALSE]
          /\ request' = request /\ tally' = tally
      BY <1>4, <2>2 DEF Expires
    <3>2. token[n] \in TokenRows /\ token[n].user # None
      BY <1>1, <3>1, AuthNone DEF AuthInv, TokensInv, TokenSound
    <3>3. /\ token'[n] = [token[n] EXCEPT !.live = FALSE]
          /\ \A m \in Rows \ {n} : token'[m] = token[m]
          /\ token' = [m \in Rows |-> token'[m]]
      BY <1>1, <3>1
    <3>4. /\ token'[n] \in TokenRows /\ ~ token'[n].live
          /\ token'[n].user = token[n].user /\ token'[n].parent = token[n].parent
          /\ token'[n].began = token[n].began /\ token'[n].created = token[n].created
          /\ token'[n].late <=> token[n].late
      BY <3>2, <3>3 DEF TokenRows
    <3>5. token' \in [Rows -> TokenRows]
      <4>1. \A m \in Rows : token'[m] \in TokenRows
        BY <1>1, <3>3, <3>4
      <4> QED
        BY <3>3, <4>1
    <3>6. \A m \in Rows :
            /\ token'[m].user = token[m].user /\ token'[m].parent = token[m].parent
            /\ token'[m].began = token[m].began /\ token'[m].created = token[m].created
            /\ token'[m].late <=> token[m].late
            /\ token[m].user = None => token'[m] = token[m]
            /\ token'[m].live =>
                 token[m].live /\ tally'[token[m].user].ended = tally[token[m].user].ended
      BY <3>1, <3>2, <3>3, <3>4
    <3>7. \A q \in Requests : Same(q) /\ (request[q].late => request'[q].late)
      BY <3>1 DEF Same
    <3> QED
      BY <3>5, <3>6, <3>7, TokensStay
  <2> QED
    BY <2>1, <2>2
<1>5. ASSUME NEW r \in Requests, AuthRequest(r)
      PROVE  token' \in [Rows -> TokenRows] /\ TokensInv'
  <2>1. ASSUME token' = token,
               \A n \in Rows : token[n].live =>
                 tally'[token[n].user].ended = tally[token[n].user].ended,
               \/ ~ Waits(r, {"rotate", "issue"})'
               \/ /\ Waits(r, {"issue"})' /\ request'[r].dto = None
                  /\ request'[r].doc \in Users /\ request'[r].was \in Nat
               \/ \E n \in Rows :
                    /\ token[n].live
                    /\ request'[r].op = "rotate" /\ request'[r].doc = TokenDoc(n)
                    /\ request'[r].dto \in RefreshTokenDto
                    /\ request'[r].dto.refreshToken = n
                    /\ request'[r].was = tally[token[n].user].ended
        PROVE  TokensInv'
    BY <1>1, <1>5, <2>1, TokensRest
  <2>2. \A n \in Rows : token[n].live => token[n].user \in Users
    BY AuthNone DEF AuthInv, AuthTypeOK, TokenRows, TokensInv, TokenSound
  <2>3. CASE IssueTokens(r)
    BY <2>3, IssueTokensKeeps
  <2>4. CASE Rotate(r)
    BY <2>4, RotateKeeps
  <2>5. CASE RefreshToken(r)
    <3>1. token' = token /\ tally' = tally
      BY <2>5 DEF RefreshToken, authVars
    <3>2. PICK n \in Rows :
            /\ token[n].live
            /\ request'[r].op = "rotate" /\ request'[r].doc = TokenDoc(n)
            /\ request'[r].dto \in RefreshTokenDto /\ request'[r].dto.refreshToken = n
            /\ request'[r].was = tally[token[n].user].ended
      BY <2>2, <2>5, RefreshTokenReads DEF AuthInv
    <3> QED
      BY <1>1, <2>1, <3>1, <3>2
  <2>6. CASE ClearCounters(r)
    <3>1. token' = token /\ \A u \in Users : tally'[u].ended = tally[u].ended
      BY <2>6 DEF ClearCounters, AuthInv, AuthTypeOK, TallyRows
    <3>2. /\ Waits(r, {"issue"})' /\ request'[r].dto = None
          /\ request'[r].doc \in Users /\ request'[r].was \in Nat
      BY <2>6, ClearCountersGoesOn DEF AuthInv, Waits
    <3> QED
      BY <1>1, <2>1, <2>2, <3>1, <3>2
  <2>7. CASE WriteCount(r)
    <3>1. token' = token /\ \A u \in Users : tally'[u].ended = tally[u].ended
      BY <2>7 DEF WriteCount, AuthInv, AuthTypeOK, TallyRows
    <3>2. ~ Waits(r, {"rotate", "issue"})'
      BY <2>7, WriteCountServes DEF AuthInv, Waits
    <3> QED
      BY <1>1, <2>1, <2>2, <3>1, <3>2
  <2>8. CASE Logout(r)
    <3>1. PICK u \in Users, n \in Rows :
            Revoke({n} \cap TokensOf(u)) /\ request'[r].pc = "done"
      BY <2>8, LogoutServes DEF AuthInv
    <3>2. tally' = tally /\ ~ Waits(r, {"rotate", "issue"})'
      BY <2>8, <3>1 DEF Logout, Waits
    <3>3. /\ token' \in [Rows -> TokenRows]
          /\ \A m \in Rows :
               /\ token'[m].user = token[m].user /\ token'[m].parent = token[m].parent
               /\ token'[m].began = token[m].began /\ token'[m].created = token[m].created
               /\ token'[m].late <=> token[m].late
               /\ token[m].user = None => token'[m] = token[m]
               /\ token'[m].live => token[m].live
      BY <3>1, RevokedRows
    <3>4. \A m \in Rows :
            /\ token'[m].user = token[m].user /\ token'[m].parent = token[m].parent
            /\ token'[m].began = token[m].began /\ token'[m].created = token[m].created
            /\ token'[m].late <=> token[m].late
            /\ token[m].user = None => token'[m] = token[m]
            /\ token'[m].live =>
                 token[m].live /\ tally'[token[m].user].ended = tally[token[m].user].ended
      BY <3>2, <3>3
    <3>5. TokensInv'
      BY <1>5, <3>2, <3>3, <3>4, TokensRest
    <3> QED
      BY <3>3, <3>5
  <2>9. CASE LogoutAll(r) \/ LogoutWithout(r) \/ SetPassword(r)
    <3>1. PICK u \in Users :
            /\ Revoke(TokensOf(u)) /\ request'[r].pc = "done"
            /\ \A v \in Users \ {u} : tally'[v].ended = tally[v].ended
      <4>1. CASE LogoutAll(r) \/ LogoutWithout(r)
        <5>1. PICK u \in Users :
                /\ Revoke(TokensOf(u)) /\ request'[r].pc = "done"
                /\ tally' = [tally EXCEPT ![u].ended = @ + 1]
          BY <4>1, RevokeAllServes DEF AuthInv
        <5>2. \A v \in Users \ {u} : tally'[v].ended = tally[v].ended
          BY <5>1 DEF AuthInv, AuthTypeOK
        <5> QED
          BY <5>1, <5>2
      <4>2. CASE SetPassword(r)
        <5>1. PICK u \in Users :
                /\ Revoke(TokensOf(u)) /\ request'[r].pc = "done"
                /\ tally' = [tally EXCEPT ![u] =
                               [failures |-> 0, exact |-> TRUE, ended |-> @.ended + 1]]
          BY <4>2, SetPasswordServes DEF AuthInv
        <5>2. \A v \in Users \ {u} : tally'[v].ended = tally[v].ended
          BY <5>1 DEF AuthInv, AuthTypeOK
        <5> QED
          BY <5>1, <5>2
      <4> QED
        BY <2>9, <4>1, <4>2
    <3>2. ~ Waits(r, {"rotate", "issue"})'
      BY <3>1 DEF Waits
    <3>3. /\ token' \in [Rows -> TokenRows]
          /\ \A m \in Rows :
               /\ token'[m].user = token[m].user /\ token'[m].parent = token[m].parent
               /\ token'[m].began = token[m].began /\ token'[m].created = token[m].created
               /\ token'[m].late <=> token[m].late
               /\ token[m].user = None => token'[m] = token[m]
               /\ token'[m].live => token[m].live /\ m \notin TokensOf(u)
      BY <3>1, RevokedRows
    <3>4. \A m \in Rows :
            /\ token'[m].user = token[m].user /\ token'[m].parent = token[m].parent
            /\ token'[m].began = token[m].began /\ token'[m].created = token[m].created
            /\ token'[m].late <=> token[m].late
            /\ token[m].user = None => token'[m] = token[m]
            /\ token'[m].live =>
                 token[m].live /\ tally'[token[m].user].ended = tally[token[m].user].ended
      BY <2>2, <3>1, <3>3 DEF TokensOf
    <3>5. TokensInv'
      BY <1>5, <3>2, <3>3, <3>4, TokensRest
    <3> QED
      BY <3>3, <3>5
  <2>10. CASE \/ Login(r) \/ ResetPassword(r) \/ ChangePassword(r) \/ Register(r)
              \/ ResendOtp(r) \/ ReadCount(r)
    <3>1. token' = token /\ tally' = tally
      BY <2>10 DEF Login, ResetPassword, ChangePassword, Register, ResendOtp, ReadCount,
                   authVars
    <3>2. request'[r].op \in {"clear", "failed", "reset", "change", "email", "MFA_LOGIN",
                              "count"}
      BY <2>10, LoginReads, ResetPasswordReads, ChangePasswordReads, RegisterReads,
         ResendOtpReads, ReadCountGoesOn DEF AuthInv
    <3>3. ~ Waits(r, {"rotate", "issue"})'
      BY <3>2 DEF Waits
    <3> QED
      BY <1>1, <2>1, <3>1, <3>3
  <2>11. CASE CheckEmail(r) \/ CreateUser(r)
    <3>1. token' = token /\ tally' = tally
      BY <2>11 DEF CheckEmail, CreateUser, authVars
    <3>2. request'[r].pc = "done" \/ request'[r].op \in {"insert", "EMAIL_VERIFY"}
      BY <2>11, CheckEmailGoesOn, CreateUserGoesOn DEF AuthInv
    <3>3. ~ Waits(r, {"rotate", "issue"})'
      BY <3>2 DEF Waits
    <3> QED
      BY <1>1, <2>1, <3>1, <3>3
  <2>12. CASE \/ ForgotPassword(r) \/ WritePassword(r) \/ RefuseEmail(r) \/ SendCode(r)
              \/ AuthFails(r)
    <3>1. token' = token /\ tally' = tally /\ Refuse(r)
      BY <2>12 DEF ForgotPassword, WritePassword, RefuseEmail, SendCode, AuthFails, authVars
    <3>2. request'[r].pc = "done"
      BY <3>1, AuthRefused DEF AuthInv
    <3>3. ~ Waits(r, {"rotate", "issue"})'
      BY <3>2 DEF Waits
    <3> QED
      BY <1>1, <2>1, <3>1, <3>3
  <2> QED
    BY <1>5, <2>3, <2>4, <2>5, <2>6, <2>7, <2>8, <2>9, <2>10, <2>11, <2>12 DEF AuthRequest
<1> QED
  BY <1>1, <1>3, <1>4, <1>5 DEF AuthNext

-----------------------------------------------------------------------------
(* The invariant of accounts.                                              *)

LEMMA AtMostOne ==
    ASSUME NEW S
    PROVE  /\ (\A x, y \in S : x = y) => IsFiniteSet(S) /\ Cardinality(S) <= 1
           /\ (IsFiniteSet(S) /\ Cardinality(S) <= 1) => \A x, y \in S : x = y
<1>1. ASSUME \A x, y \in S : x = y
      PROVE  IsFiniteSet(S) /\ Cardinality(S) <= 1
  <2>1. CASE S = {}
    BY <2>1, FS_EmptySet
  <2>2. CASE S # {}
    <3>1. PICK x : S = {x}
      BY <1>1, <2>2
    <3>2. IsFiniteSet({x}) /\ Cardinality({x}) = 1
      BY FS_Singleton
    <3> QED
      BY <3>1, <3>2
  <2> QED
    BY <2>1, <2>2
<1>2. ASSUME IsFiniteSet(S), Cardinality(S) <= 1, NEW x \in S, NEW y \in S
      PROVE  x = y
  <2>1. IsFiniteSet(S \ {x}) /\ Cardinality(S \ {x}) = Cardinality(S) - 1
    BY <1>2, FS_RemoveElement
  <2>2. Cardinality(S) \in Nat /\ Cardinality(S \ {x}) \in Nat
    BY <1>2, <2>1, FS_CardinalityType
  <2>3. Cardinality(S \ {x}) = 0
    BY <1>2, <2>1, <2>2
  <2>4. S \ {x} = {}
    BY <2>1, <2>3, FS_EmptySet
  <2> QED
    BY <1>2, <2>4
<1> QED
  BY <1>1, <1>2

LEMMA AuthStart ==
    ASSUME HandlersInit, AuthInit
    PROVE  AuthInv
<1>1. request \in AuthRequests /\ \A r \in Requests : request[r].pc = "idle"
  BY RequestsStart DEF AuthRequests
<1>2. PICK signed \in {{}, Signed}, failed \in 0 .. MaxAttempts :
      /\ user = [u \in Users |->
                   IF u \in signed
                   THEN [NoUser EXCEPT !.present = TRUE, !.tenant = SignedAs.tenant,
                           !.email = SignedAs.email, !.password = SignedAs.password,
                           !.failed = failed]
                   ELSE NoUser]
      /\ tally = [u \in Users |->
                    IF u \in signed THEN [NoTally EXCEPT !.failures = failed] ELSE NoTally]
      /\ token = [n \in Rows |->
                    IF n = 0 /\ signed # {}
                    THEN [NoRow EXCEPT !.user = CHOOSE u \in signed : TRUE, !.live = TRUE]
                    ELSE NoRow]
      /\ link = [n \in Rows |->
                   IF n = 0 /\ signed # {}
                   THEN [NoLink EXCEPT !.user = CHOOSE u \in signed : TRUE, !.live = TRUE]
                   ELSE NoLink]
  BY DEF AuthInit
<1>3. /\ signed \subseteq Users /\ \A u, v \in signed : u = v
      /\ failed \in Nat
  BY AuthAssumption, AtMostOne
<1>4. PICK chosen : chosen = (CHOOSE u \in signed : TRUE)
  OBVIOUS
<1>5. signed # {} => chosen \in signed /\ chosen \in Users
  BY <1>3, <1>4
<1>6. ASSUME NEW u \in Users, u \in signed
      PROVE  /\ user[u] \in UserRows /\ user[u].present /\ ~ user[u].locked
             /\ user[u].failed = failed
             /\ tally[u] \in TallyRows /\ tally[u].failures = failed
  <2>1. /\ user[u] = [NoUser EXCEPT !.present = TRUE, !.tenant = SignedAs.tenant,
                        !.email = SignedAs.email, !.password = SignedAs.password,
                        !.failed = failed]
        /\ tally[u] = [NoTally EXCEPT !.failures = failed]
    BY <1>2, <1>6
  <2>2. /\ SignedAs.tenant \in Tenants /\ SignedAs.email \in Emails
        /\ SignedAs.password \in Passwords
    BY AuthAssumption
  <2> QED
    BY <1>3, <2>1, <2>2, AuthNone DEF UserRows, TallyRows
<1>7. ASSUME NEW u \in Users, u \notin signed
      PROVE  user[u] = NoUser /\ tally[u] = NoTally
  BY <1>2, <1>7
<1>8. ASSUME NEW u \in Users
      PROVE  tally[u].ended = 0
  BY <1>2, AuthNone DEF NoTally
<1>9. user \in [Users -> UserRows] /\ tally \in [Users -> TallyRows]
  <2>1. \A u \in Users : user[u] \in UserRows /\ tally[u] \in TallyRows
    BY <1>6, <1>7, AuthNone
  <2>2. user = [u \in Users |-> user[u]] /\ tally = [u \in Users |-> tally[u]]
    BY <1>2
  <2> QED
    BY <2>1, <2>2
<1>10. AccountsInv
  <2>1. \A u \in Users : AccountSound(u)
    BY <1>6, <1>7, AuthNone DEF AccountSound
  <2> QED
    BY <1>1, <2>1 DEF AccountsInv, AccountKnown, Waits
<1>11. ASSUME NEW n \in Rows, ~ (n = 0 /\ signed # {})
       PROVE  token[n] = NoRow /\ link[n] = NoLink
  BY <1>2, <1>11
<1>12. ASSUME NEW n \in Rows, n = 0, signed # {}
       PROVE  /\ token[n] \in TokenRows /\ token[n].user = chosen /\ token[n].parent = None
              /\ token[n].created = 0
              /\ link[n] \in LinkRows /\ link[n].user = chosen /\ link[n].uses = 0
  <2>1. /\ token[n] = [NoRow EXCEPT !.user = chosen, !.live = TRUE]
        /\ link[n] = [NoLink EXCEPT !.user = chosen, !.live = TRUE]
    BY <1>2, <1>4, <1>12
  <2>2. NoRow.created = 0
    BY DEF NoRow
  <2> QED
    BY <1>5, <1>12, <2>1, <2>2, AuthNone DEF TokenRows, LinkRows
<1>13. token \in [Rows -> TokenRows] /\ link \in [Rows -> LinkRows]
  <2>1. \A n \in Rows : token[n] \in TokenRows /\ link[n] \in LinkRows
    BY <1>11, <1>12, AuthNone
  <2>2. token = [n \in Rows |-> token[n]] /\ link = [n \in Rows |-> link[n]]
    BY <1>2
  <2> QED
    BY <2>1, <2>2
<1>14. \A r \in Requests : r \in Rows /\ token[r] = NoRow /\ link[r] = NoLink
  BY <1>11, HandlersAssumption DEF Requests, Rows
<1>15. LinksInv
  <2>1. ASSUME NEW n \in Rows
        PROVE  LinkSound(n)
    <3>1. CASE n = 0 /\ signed # {}
      BY <1>5, <1>6, <1>12, <3>1, AuthNames DEF LinkSound
    <3>2. CASE ~ (n = 0 /\ signed # {})
      BY <1>11, <3>2, AuthNone DEF LinkSound
    <3> QED
      BY <3>1, <3>2
  <2> QED
    BY <1>1, <1>14, <2>1 DEF LinksInv, LinkKnown, Waits
<1>16. TokensInv
  <2>1. ASSUME NEW n \in Rows
        PROVE  TokenSound(n) /\ token[n].parent = None
    <3>1. CASE n = 0 /\ signed # {}
      BY <1>5, <1>8, <1>12, <3>1, AuthNames DEF TokenSound
    <3>2. CASE ~ (n = 0 /\ signed # {})
      BY <1>11, <3>2, AuthNone, AuthNames DEF TokenSound
    <3> QED
      BY <3>1, <3>2
  <2>2. \A r \in Requests : TokenKnown(r)
    BY <1>1, <1>14 DEF TokenKnown, Waits
  <2>3. \A n, m \in Rows : ~ Follows(n, m)
    BY <1>1, <2>1, AuthNames DEF Follows, Waits
  <2>4. FollowedOnce
    BY <2>3 DEF FollowedOnce
  <2> QED
    BY <2>1, <2>2, <2>4 DEF TokensInv
<1>17. PlanInv
  <2>1. ASSUME NEW t \in Tenants
        PROVE  TenantSound(t)
    <3>1. UsersOf(t) \subseteq signed
      BY <1>7, AuthNone, AuthNames DEF UsersOf
    <3>2. \A u, v \in UsersOf(t) : u = v
      BY <1>3, <3>1
    <3>3. \A u, v \in InTime(t) : u = v
      BY <3>2 DEF InTime
    <3>4. IsFiniteSet(UsersOf(t))
      BY <3>2, AtMostOne
    <3>5. IsFiniteSet(InTime(t)) /\ Cardinality(InTime(t)) <= 1
      BY <3>3, AtMostOne
    <3>6. Cardinality(InTime(t)) \in Nat
      BY <3>5, FS_CardinalityType
    <3>7. Cardinality(InTime(t)) <= MaxUsers
      BY <3>5, <3>6, AuthAssumption
    <3> QED
      BY <3>2, <3>4, <3>7 DEF TenantSound
  <2> QED
    BY <1>1, <2>1 DEF PlanInv, PlanKnown, Waits
<1> QED
  BY <1>1, <1>9, <1>10, <1>13, <1>15, <1>16, <1>17 DEF AuthInv, AuthTypeOK

LEMMA AuthStep ==
    ASSUME AuthInv, AuthNext
    PROVE  AuthInv'
<1>1. request' \in AuthRequests
  <2>1. request \in AuthRequests
    BY DEF AuthInv, AuthTypeOK
  <2>2. (\E r \in Requests : AuthRequest(r)) \/ request' = request
    BY DEF AuthNext, LockEnds, Expires
  <2> QED
    BY <2>1, <2>2, AuthOthers
<1>2. user' \in [Users -> UserRows] /\ tally' \in [Users -> TallyRows] /\ AccountsInv'
  BY AccountsStep
<1>3. link' \in [Rows -> LinkRows] /\ LinksInv'
  BY LinksStep
<1>4. token' \in [Rows -> TokenRows] /\ TokensInv'
  BY TokensStep
<1>5. PlanInv'
  BY PlanStep
<1> QED
  BY <1>1, <1>2, <1>3, <1>4, <1>5 DEF AuthInv, AuthTypeOK

LEMMA AuthStutters ==
    ASSUME AuthInv, UNCHANGED <<request, authVars>>
    PROVE  AuthInv'
<1>1. request' = request /\ user' = user /\ token' = token /\ link' = link /\ tally' = tally
  BY DEF authVars
<1>2. AuthTypeOK'
  BY <1>1 DEF AuthInv, AuthTypeOK
<1>3. AccountsInv'
  BY <1>1, AccountsStay DEF Same
<1>4. LinksInv'
  BY <1>1 DEF AuthInv, LinksInv, LinkSound, LinkKnown, Waits
<1>5. TokensInv'
  BY <1>1, <1>2, TokensStay DEF Same, AuthTypeOK
<1>6. PlanInv'
  BY <1>1, PlanStays DEF Same
<1> QED
  BY <1>2, <1>3, <1>4, <1>5, <1>6 DEF AuthInv

\* Accounts that are exercised keep their invariant; where another service is, there
\* are none.
LEMMA AccountsOrNone ==
    /\ Init => IF service = "auth" THEN AuthInv ELSE NoAccounts
    /\ /\ IF service = "auth" THEN AuthInv ELSE NoAccounts
       /\ [Next]_vars
       => (IF service = "auth" THEN AuthInv ELSE NoAccounts)'
<1>1. Init => IF service = "auth" THEN AuthInv ELSE NoAccounts
  BY AuthStart DEF Init
<1>2. ASSUME IF service = "auth" THEN AuthInv ELSE NoAccounts, [Next]_vars
      PROVE  (IF service = "auth" THEN AuthInv ELSE NoAccounts)'
  <2>1. service' = service
    BY <1>2 DEF Next, vars
  <2>2. CASE service = "auth"
    <3>1. AuthNext \/ UNCHANGED <<request, authVars>>
      BY <1>2, <2>2 DEF Next, vars
    <3> QED
      BY <1>2, <2>1, <2>2, <3>1, AuthStep, AuthStutters
  <2>3. CASE service # "auth"
    <3>1. UNCHANGED authVars
      BY <1>2, <2>3 DEF Next, vars
    <3> QED
      BY <1>2, <2>1, <2>3, <3>1 DEF NoAccounts, authVars
  <2> QED
    BY <2>2, <2>3
<1> QED
  BY <1>1, <1>2

THEOREM AccountsHold == Spec => [](IF service = "auth" THEN AuthInv ELSE NoAccounts)
<1>1. Init => IF service = "auth" THEN AuthInv ELSE NoAccounts
  BY AccountsOrNone
<1>2. (IF service = "auth" THEN AuthInv ELSE NoAccounts) /\ [Next]_vars =>
        (IF service = "auth" THEN AuthInv ELSE NoAccounts)'
  BY AccountsOrNone
<1> QED
  BY <1>1, <1>2, PTL DEF Spec

-----------------------------------------------------------------------------
(* What it says of every state.                                            *)

LEMMA FailuresImplied ==
    ASSUME IF service = "auth" THEN AuthInv ELSE NoAccounts
    PROVE  FailuresAreCounted
<1>1. CASE AuthInv
  BY <1>1 DEF AuthInv, AccountsInv, AccountSound, FailuresAreCounted
<1>2. CASE NoAccounts
  BY <1>2, AuthNone DEF NoAccounts, FailuresAreCounted
<1> QED
  BY <1>1, <1>2

LEMMA UsesImplied ==
    ASSUME IF service = "auth" THEN AuthInv ELSE NoAccounts
    PROVE  UsedOnce
<1>1. ASSUME NEW n \in Rows
      PROVE  Cardinality({m \in Rows : token[m].parent = n /\ ~ token[m].late}) <= 1
  <2> DEFINE S == {m \in Rows : token[m].parent = n /\ ~ token[m].late}
  <2>1. \A x, y \in S : x = y
    <3>1. CASE AuthInv
      BY <3>1 DEF AuthInv, TokensInv, FollowedOnce, Follows
    <3>2. CASE NoAccounts
      BY <3>2, AuthNone, AuthNames DEF NoAccounts
    <3> QED
      BY <3>1, <3>2
  <2> QED
    BY <2>1, AtMostOne
<1>2. ASSUME NEW n \in Rows
      PROVE  link[n].uses <= 1
  <2>1. CASE AuthInv
    BY <2>1 DEF AuthInv, LinksInv, LinkSound
  <2>2. CASE NoAccounts
    BY <2>2, AuthNone DEF NoAccounts
  <2> QED
    BY <2>1, <2>2
<1> QED
  BY <1>1, <1>2 DEF UsedOnce

LEMMA EndsImplied ==
    ASSUME IF service = "auth" THEN AuthInv ELSE NoAccounts
    PROVE  EndedStayEnded
<1>1. CASE AuthInv
  BY <1>1 DEF AuthInv, AuthTypeOK, TokenRows, TokensInv, TokenSound, EndedStayEnded
<1>2. CASE NoAccounts
  BY <1>2, AuthNone DEF NoAccounts, EndedStayEnded
<1> QED
  BY <1>1, <1>2

LEMMA PlanImplied ==
    ASSUME IF service = "auth" THEN AuthInv ELSE NoAccounts
    PROVE  WithinPlan
<1>1. CASE AuthInv
  BY <1>1 DEF AuthInv, PlanInv, TenantSound, InTime, WithinPlan
<1>2. CASE NoAccounts
  <2>1. ASSUME NEW t \in Tenants
        PROVE  UsersOf(t) = {}
    BY <1>2, AuthNone, AuthNames DEF NoAccounts, UsersOf
  <2>2. ASSUME NEW t \in Tenants
        PROVE  /\ Cardinality({u \in UsersOf(t) : ~ user[u].late}) <= MaxUsers
               /\ \A u, v \in UsersOf(t) : user[u].email = user[v].email => u = v
    <3>1. UsersOf(t) = {}
      BY <2>1
    <3>2. {u \in UsersOf(t) : ~ user[u].late} = {}
      BY <3>1
    <3>3. Cardinality({u \in UsersOf(t) : ~ user[u].late}) = 0
      BY <3>2, FS_EmptySet
    <3> QED
      BY <3>1, <3>3, AuthAssumption
  <2> QED
    BY <2>2 DEF WithinPlan
<1> QED
  BY <1>1, <1>2

\* The count of an account is the number of logins that failed since it was last
\* cleared, unless one of them counted from a value that was old when written.
THEOREM FailuresStayCounted == Spec => []FailuresAreCounted
BY FailuresImplied, AccountsHold, PTL

\* A refresh token is followed by one token and a reset link sets one password, but
\* for requests that overlapped another use of the same one.
THEOREM TokensAreUsedOnce == Spec => []UsedOnce
BY UsesImplied, AccountsHold, PTL

\* When all sessions of a user were ended, no token stored before is live, nor is one
\* ever the start of another session, except by a request that had begun by then.
THEOREM SessionsStayEnded == Spec => []EndedStayEnded
BY EndsImplied, AccountsHold, PTL

\* A tenant has no more users than its plan allows, those aside whose registration
\* overlapped another's, and never two with one e-mail.
THEOREM TenantsStayWithinPlan == Spec => []WithinPlan
BY PlanImplied, AccountsHold, PTL

-----------------------------------------------------------------------------
(* Locks.                                                                  *)

\* A registration leaves the accounts there are.
LEMMA CreateUserAdds ==
    ASSUME AuthInv, NEW r \in Requests, CreateUser(r)
    PROVE  \A u \in Users : user[u].locked => user'[u] = user[u]
<1>1. user \in [Users -> UserRows]
  BY DEF AuthInv, AuthTypeOK
<1>2. PICK v \in Users : ~ user[v].present /\ \E x : user' = [user EXCEPT ![v] = x]
  BY CreateUserGoesOn DEF AuthInv
<1>3. ~ user[v].locked
  BY <1>2, AuthNone DEF AuthInv, AccountsInv, AccountSound
<1> QED
  BY <1>1, <1>2, <1>3

\* Who lifts a lock while requests act: a reset, or a request with an old copy of the
\* account.
LEMMA LockLifted ==
    ASSUME AuthInv, AuthNext, NEW u \in Users, user[u].locked, ~ user'[u].locked
    PROVE  \/ UNCHANGED request
           \/ \E r \in Requests :
                /\ request[r] # request'[r] /\ request[r].pc = "write"
                /\ \/ request[r].op = "reset"
                   \/ request[r].doc = u /\ request[r].late
<1>1. user \in [Users -> UserRows] /\ user[u] \in UserRows
  BY DEF AuthInv, AuthTypeOK
<1>2. CASE \E v \in Users : LockEnds(v)
  BY <1>2 DEF LockEnds
<1>3. CASE \E n \in Rows : Expires(n)
  BY <1>3 DEF Expires
<1>4. ASSUME NEW r \in Requests, AuthRequest(r)
      PROVE  /\ request[r] # request'[r] /\ request[r].pc = "write"
             /\ \/ request[r].op = "reset"
                \/ request[r].doc = u /\ request[r].late
  <2>1. user' # user
    OBVIOUS
  <2>2. CASE WriteCount(r)
    <3>1. /\ Waits(r, {"count"}) /\ request'[r].pc = "done"
      BY <2>2, WriteCountServes DEF AuthInv
    <3>2. /\ request[r].doc \in Users /\ request[r].was \in Nat
          /\ ~ request[r].late => request[r].was = user[request[r].doc].failed
      BY <3>1 DEF AuthInv, AccountsInv, AccountKnown, Waits
    <3>3. request[r].doc = u
      BY <1>1, <2>2, <3>2 DEF WriteCount
    <3>4. ~ (request[r].was + 1 >= MaxAttempts)
      BY <1>1, <2>2, <3>3 DEF WriteCount, UserRows
    <3>5. user[u].failed >= MaxAttempts
      BY DEF AuthInv, AccountsInv, AccountSound
    <3>6. request[r].late
      BY <3>2, <3>3, <3>4, <3>5, AuthAssumption
    <3> QED
      BY <3>1, <3>3, <3>6 DEF Waits
  <2>3. CASE ClearCounters(r)
    <3>1. Waits(r, {"clear"}) /\ request'[r].op = "issue"
      BY <2>3, ClearCountersGoesOn DEF AuthInv
    <3>2. /\ request[r].doc \in Users
          /\ ~ request[r].late => ~ user[request[r].doc].locked
      BY <3>1 DEF AuthInv, AccountsInv, AccountKnown, Waits
    <3>3. request[r].doc = u
      BY <1>1, <2>3, <3>2 DEF ClearCounters
    <3> QED
      BY <3>1, <3>2, <3>3 DEF Waits
  <2>4. CASE SetPassword(r)
    BY <2>4, SetPasswordServes DEF AuthInv, Waits
  <2>5. CASE WritePassword(r)
    <3>1. user'[u].locked = user[u].locked
      BY <1>1, <2>5 DEF WritePassword, UserRows
    <3> QED
      BY <3>1
  <2>6. CASE CreateUser(r)
    BY <2>6, CreateUserAdds
  <2> QED
    BY <1>4, <2>1, <2>2, <2>3, <2>4, <2>5, <2>6
      DEF AuthRequest, Login, ReadCount, IssueTokens, RefreshToken, Rotate, Logout, LogoutAll,
          LogoutWithout, RevokeAll, ForgotPassword, ResetPassword, ChangePassword, Register,
          CheckEmail, RefuseEmail, ResendOtp, SendCode, AuthFails, authVars
<1> QED
  BY <1>2, <1>3, <1>4 DEF AuthNext

\* While an account is locked no login that read it since lifts the lock: only time, a
\* reset, and a login that read the account before it was locked do.
THEOREM LocksAreKept == Spec => LockHolds
<1>1. (IF service = "auth" THEN AuthInv ELSE NoAccounts) /\ [Next]_vars =>
        [\A u \in Users : (user[u].locked /\ ~ user'[u].locked) =>
            \/ UNCHANGED request
            \/ \E r \in Requests :
                 /\ request[r] # request'[r] /\ request[r].pc = "write"
                 /\ \/ request[r].op = "reset"
                    \/ request[r].doc = u /\ request[r].late]_<<request, authVars>>
  <2>1. ASSUME IF service = "auth" THEN AuthInv ELSE NoAccounts, Next,
               NEW u \in Users, user[u].locked, ~ user'[u].locked
        PROVE  \/ UNCHANGED request
               \/ \E r \in Requests :
                    /\ request[r] # request'[r] /\ request[r].pc = "write"
                    /\ \/ request[r].op = "reset"
                       \/ request[r].doc = u /\ request[r].late
    <3>1. CASE service = "auth"
      <4>1. AuthInv /\ AuthNext
        BY <2>1, <3>1 DEF Next
      <4> QED
        BY <2>1, <4>1, LockLifted
    <3>2. CASE service # "auth"
      BY <2>1, <3>2 DEF Next, authVars
    <3> QED
      BY <3>1, <3>2
  <2> QED
    BY <2>1 DEF vars
<1> QED
  BY <1>1, AccountsHold, PTL DEF Spec, LockHolds

=============================================================================
