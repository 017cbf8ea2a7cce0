---------------------------- MODULE AuthService ----------------------------
(***************************************************************************)
(* services/auth-service: accounts and their roles, and the refresh tokens *)
(* that keep a login alive.  A refresh revokes its token in one            *)
(* transaction and stores the next in another; the row is read before,     *)
(* without a lock.                                                         *)
(*                                                                         *)
(* Passwords, token values and names are left out.  So is expiry: an       *)
(* expired token is one that nobody uses any more.  Of access tokens only  *)
(* the role is kept that they say their account has.                       *)
(* Calls that end with a 401 or a 409, and logouts that find the token     *)
(* revoked, change nothing and are no steps.                               *)
(***************************************************************************)
EXTENDS Integers, Sequences

CONSTANTS
    Emails,
    BootstrapAdmin,  \* settings.bootstrap_admin_email
    NoAdmin,         \* ... when there is none
    AuthSessions,  \* threads that serve requests
    NoCall,        \* the thread is idle
    MaxLogins,     \* bound: logins and registrations that get to their token
    MaxTokens      \* bound: no call begins when there are as many tokens

ASSUME AuthAssumption ==
    /\ BootstrapAdmin \in Emails \cup {NoAdmin}
    /\ NoAdmin \notin Emails
    /\ MaxLogins \in Nat
    /\ MaxTokens \in Nat

UserRole == {"customer", "courier", "admin"}

Logins == 1 .. MaxLogins

\* A row of refresh_tokens.  login is history: which login or registration the
\* token goes back to, by way of the refreshes in between.
RefreshToken == [user : Emails, login : Logins, revoked : BOOLEAN]

\* An open call and its next commit.
AuthCall == [step : {"insert", "revoke", "end", "issue"},
             user : Emails, login : Logins \cup {0}, token : Nat]

ASSUME NoCallAssumption == NoCall \notin AuthCall

VARIABLES
    roles,           \* [Emails -> UserRole \cup {"none"}]: the rows of users
    admins,          \* SUBSET Logins: those with an access token that says admin
    refresh_tokens,  \* Seq(RefreshToken)
    auth_calls,      \* [AuthSessions -> AuthCall \cup {NoCall}]
    logins,          \* history: how many logins there were
    ended,           \* history: the logins that a logout ended
    lost,            \* history: the logins whose next token was never stored
    raced            \* history: the logins of which two calls had one token open

authVars == <<roles, admins, refresh_tokens, auth_calls, logins, ended, lost, raced>>

\* ensure_bootstrap_admin: the account is made, or made admin again.
WithBootstrapAdmin(r) ==
    [e \in Emails |-> IF e = BootstrapAdmin THEN "admin" ELSE r[e]]

\* The service has started for the first time.
AuthInit ==
    /\ roles = WithBootstrapAdmin([e \in Emails |-> "none"])
    /\ admins = {}
    /\ refresh_tokens = <<>>
    /\ auth_calls = [s \in AuthSessions |-> NoCall]
    /\ logins = 0
    /\ ended = {}
    /\ lost = {}
    /\ raced = {}

-----------------------------------------------------------------------------

Idle(s) == auth_calls[s] = NoCall /\ Len(refresh_tokens) < MaxTokens

At(s, step) == auth_calls[s] # NoCall /\ auth_calls[s].step = step

Enter(s, call) == auth_calls' = [auth_calls EXCEPT ![s] = call]

HasOpen(s, k) ==
    /\ auth_calls[s] # NoCall
    /\ auth_calls[s].step \in {"revoke", "end"}
    /\ auth_calls[s].token = k

\* _issue_tokens for a new login.
StartLogin(s, e) ==
    /\ logins < MaxLogins
    /\ logins' = logins + 1
    /\ Enter(s, [step |-> "issue", user |-> e, login |-> logins + 1, token |-> 0])

\* POST /auth/register: no account has the email.
register(s, e) ==
    /\ Idle(s)
    /\ roles[e] = "none"
    /\ Enter(s, [step |-> "insert", user |-> e, login |-> 0, token |-> 0])
    /\ UNCHANGED <<roles, admins, refresh_tokens, logins, ended, lost, raced>>

\* ... and the INSERT, which the unique email refuses to all but the first.
insert_user(s) ==
    LET e == auth_calls[s].user
    IN  /\ At(s, "insert")
        /\ IF roles[e] # "none"
           THEN Enter(s, NoCall) /\ UNCHANGED <<roles, logins>>
           ELSE StartLogin(s, e) /\ roles' = [roles EXCEPT ![e] = "customer"]
        /\ UNCHANGED <<admins, refresh_tokens, ended, lost, raced>>

\* POST /auth/login with the right password.
login(s, e) ==
    /\ Idle(s)
    /\ roles[e] # "none"
    /\ StartLogin(s, e)
    /\ UNCHANGED <<roles, admins, refresh_tokens, ended, lost, raced>>

\* A call reads token k to revoke it.
read_token_Revoked(s, k, step) ==
    LET t == refresh_tokens[k]
    IN  /\ Idle(s)
        /\ Enter(s, [step |-> step, user |-> t.user, login |-> t.login, token |-> k])
        /\ raced' = IF \E q \in AuthSessions : HasOpen(q, k)
                    THEN raced \cup {t.login} ELSE raced
        /\ UNCHANGED <<roles, admins, refresh_tokens, logins, ended, lost>>

read_token(s, k, step) ==
    LET t == refresh_tokens[k]
    IN  /\ Idle(s)
        /\ ~t.revoked
        /\ Enter(s, [step |-> step, user |-> t.user, login |-> t.login, token |-> k])
        /\ raced' = IF \E q \in AuthSessions : HasOpen(q, k)
                    THEN raced \cup {t.login} ELSE raced
        /\ UNCHANGED <<roles, admins, refresh_tokens, logins, ended, lost>>

\* POST /auth/refresh.
refresh(s, k) == read_token(s, k, "revoke")

\* ... and its first commit.
revoke(s) ==
    LET c == auth_calls[s]
    IN  /\ At(s, "revoke")
        /\ refresh_tokens' = [refresh_tokens EXCEPT ![c.token].revoked = TRUE]
        /\ Enter(s, [c EXCEPT !.step = "issue", !.token = 0])
        /\ UNCHANGED <<roles, admins, logins, ended, lost, raced>>

\* _issue_tokens: the commit that stores the next token.  The access token says
\* the role that the account has afterwards.
issue(s) ==
    LET c == auth_calls[s]
    IN  /\ At(s, "issue")
        /\ refresh_tokens' = Append(refresh_tokens,
               [user |-> c.user, login |-> c.login, revoked |-> FALSE])
        /\ admins' = IF roles[c.user] = "admin" THEN admins \cup {c.login} ELSE admins
        /\ Enter(s, NoCall)
        /\ UNCHANGED <<roles, logins, ended, lost, raced>>

\* POST /auth/logout.
logout(s, k) == read_token(s, k, "end")

\* ... and its commit.
end_login(s) ==
    LET c == auth_calls[s]
    IN  /\ At(s, "end")
        /\ refresh_tokens' = [refresh_tokens EXCEPT ![c.token].revoked = TRUE]
        /\ ended' = ended \cup {c.login}
        /\ Enter(s, NoCall)
        /\ UNCHANGED <<roles, admins, logins, lost, raced>>

\* A commit is refused or the process stops.  After the first commit of a
\* refresh the old token is revoked and there is no new one.
call_fails(s) ==
    LET c == auth_calls[s]
    IN  /\ c # NoCall
        /\ lost' = IF c.step = "issue" THEN lost \cup {c.login} ELSE lost
        /\ Enter(s, NoCall)
        /\ UNCHANGED <<roles, admins, refresh_tokens, logins, ended, raced>>

\* The process stops, and all calls with it; and starts again.
service_starts ==
    /\ auth_calls' = [s \in AuthSessions |-> NoCall]
    /\ lost' = lost \cup {auth_calls[s].login : s \in {q \in AuthSessions : At(q, "issue")}}
    /\ roles' = WithBootstrapAdmin(roles)
    /\ UNCHANGED <<admins, refresh_tokens, logins, ended, raced>>

\* PATCH /auth/users/{id}/role, with an access token that says admin: its
\* account may have another role by now.  Of two that overlap, the later wins.
update_user_role(l, e, role) ==
    /\ l \in admins
    /\ roles[e] \notin {"none", role}
    /\ roles' = [roles EXCEPT ![e] = role]
    /\ UNCHANGED <<admins, refresh_tokens, auth_calls, logins, ended, lost, raced>>

AuthNext ==
    \/ service_starts
    \/ \E l \in Logins, e \in Emails, role \in UserRole : update_user_role(l, e, role)
    \/ \E s \in AuthSessions :
           \/ \E e \in Emails : register(s, e) \/ login(s, e)
           \/ insert_user(s)
           \/ \E k \in 1 .. Len(refresh_tokens) : refresh(s, k) \/ logout(s, k)
           \/ revoke(s)
           \/ issue(s)
           \/ end_login(s)
           \/ call_fails(s)

AuthSpec == AuthInit /\ [][AuthNext]_authVars

-----------------------------------------------------------------------------
(* Properties.                                                             *)

\* Every variable of the auth service stays within its type.
AuthTypeOK ==
    /\ roles \in [Emails -> UserRole \cup {"none"}]
    /\ admins \in SUBSET Logins
    /\ refresh_tokens \in Seq(RefreshToken)
    /\ auth_calls \in [AuthSessions -> AuthCall \cup {NoCall}]
    /\ logins \in 0 .. MaxLogins
    /\ ended \in SUBSET Logins
    /\ lost \in SUBSET Logins
    /\ raced \in SUBSET Logins

\* What keeps a login alive: its usable tokens, and the calls about to store one.
Tokens(l) == {k \in 1 .. Len(refresh_tokens) :
                 refresh_tokens[k].login = l /\ ~refresh_tokens[k].revoked}

Issuers(l) == {s \in AuthSessions : At(s, "issue") /\ auth_calls[s].login = l}

\* However often it is refreshed, by whatever threads, a login has one usable
\* token or one on its way, and none once it was ended or a call failed between
\* its two commits.  The exception are logins of which two calls had one token
\* open: both may get a successor.
OneTokenPerLogin ==
    \A l \in (1 .. logins) \ raced :
        IF l \in ended \cup lost
        THEN Tokens(l) = {} /\ Issuers(l) = {}
        ELSE \/ Issuers(l) = {} /\ \E k \in Tokens(l) : Tokens(l) = {k}
             \/ Tokens(l) = {} /\ \E s \in Issuers(l) : Issuers(l) = {s}
=============================================================================
