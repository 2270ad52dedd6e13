------------------------------ MODULE Sessions ------------------------------
(* Accounts, refresh sessions and their revocation (identity/auth,             *)
(* identity/session, identity/user). PostgreSQL keeps the session rows, Redis   *)
(* the revocation markers that access tokens are checked against; the calls of  *)
(* the API servers interleave between their statements.                        *)
EXTENDS Naturals, FiniteSets, Rows

CONSTANTS
    Accounts,   \* e-mail addresses
    Sids,       \* session ids
    ResetIds,   \* password reset tokens
    Procs,      \* requests served at the same time
    MaxToken,   \* refresh tokens that may be minted
    MaxPassword,\* password changes
    MaxFaults   \* lost statements and dying servers

VARIABLES
    users,      \* identity_users
    sessions,   \* identity_sessions
    marked,     \* session ids with a revocation marker in Redis
    access,     \* sessions with an access token that has not expired
    resets,     \* identity_password_reset_tokens
    calls,      \* what each running request has read
    minted,     \* number of refresh tokens minted
    raced,      \* sessions of logins that overlapped a password change
    lostRevokes,\* revocations of all sessions that were lost
    sfaults

svars == <<users, sessions, marked, access, resets, calls, minted, raced, lostRevokes, sfaults>>

\* The columns of a user, a session and a reset token that matter here; password counts
\* the changes of the hash, and a session remembers the one its login verified.
UserRow == [status : {"active"}, password : 1..MaxPassword, deleted : {FALSE}]
SessionRow == [user : Accounts, hash : 1..MaxToken, revoked : BOOLEAN, expired : BOOLEAN, password : 1..MaxPassword]
ResetRow == [user : Accounts, used : BOOLEAN, sets : Nat]

ASSUME SessionsAssumption ==
    /\ NoRow \notin UserRow /\ NoRow \notin SessionRow /\ NoRow \notin ResetRow
    /\ "current" \notin ResetIds
    /\ MaxToken \in Nat /\ MaxPassword \in Nat \ {0} /\ MaxFaults \in Nat

SIdle == [op |-> "idle"]

SessionsInit ==
    /\ users = [u \in Accounts |-> NoRow]
    /\ sessions = [s \in Sids |-> NoRow]
    /\ resets = [r \in ResetIds |-> NoRow]
    /\ calls = [p \in Procs |-> SIdle]
    /\ marked = {} /\ access = {} /\ raced = {}
    /\ minted = 0 /\ lostRevokes = 0 /\ sfaults = 0

-----------------------------------------------------------------------------
(* Reads *)

\* GetByRefreshHash, ListByUser: rows neither revoked nor expired.
LiveSessions == {s \in Sids : sessions[s] # NoRow /\ ~sessions[s].revoked /\ ~sessions[s].expired}

\* CanLogin: active, and not deleted.
CanLogin(u) == u \in Find(users, LAMBDA r : r.status = "active")

\* ValidateAccessToken: the signature and the expiry only.
ValidateAccessToken(s) == s \in access

\* Authenticate with a JWT: the token is good and its session has no marker.
Authenticated(s) == ValidateAccessToken(s) /\ s \notin marked

\* IssueAccessToken signs the session id; nothing is stored.
IssueAccessToken(s) == access' = access \union {s}

\* The public handlers decode the body and call the service.
Begin(p, call) == calls[p] = SIdle /\ calls' = [calls EXCEPT ![p] = call]

\* The handlers behind Authenticate and RequireAuth act for the token's user.
BeginAs(p, s, call) == Authenticated(s) /\ Begin(p, call)

Answer(p) == calls' = [calls EXCEPT ![p] = SIdle]

-----------------------------------------------------------------------------
(* Registration and login *)

\* Create and Activate, in one transaction.
ActiveUser == [status |-> "active", password |-> 1, deleted |-> FALSE]

\* Register: the index refuses a second live row.
Register(u) ==
    /\ u \notin LiveIds(users)
    /\ users' = Insert(users, u, ActiveUser)
    /\ UNCHANGED <<sessions, marked, access, resets, calls, minted, raced, lostRevokes, sfaults>>

\* Login up to the password check; a refused login changes nothing.
LoginVerify(p, u) ==
    /\ CanLogin(u)
    /\ Begin(p, [op |-> "login", user |-> u, password |-> users[u].password])
    /\ UNCHANGED <<users, sessions, marked, access, resets, minted, raced, lostRevokes, sfaults>>

\* issueTokens: the session row and the access token, for the user read before.
IssueTokens(p, s) ==
    /\ calls[p].op = "login" /\ sessions[s] = NoRow /\ minted < MaxToken
    /\ minted' = minted + 1
    /\ sessions' = Insert(sessions, s, [user |-> calls[p].user, hash |-> minted', revoked |-> FALSE,
                                        expired |-> FALSE, password |-> calls[p].password])
    /\ IssueAccessToken(s)
    /\ raced' = IF users[calls[p].user].password # calls[p].password THEN raced \union {s} ELSE raced
    /\ Answer(p)
    /\ UNCHANGED <<users, marked, resets, lostRevokes, sfaults>>

-----------------------------------------------------------------------------
(* Refresh *)

\* Refresh looks the session up by the hash of the presented token.
RefreshRead(p, s) ==
    /\ s \in LiveSessions
    /\ Begin(p, [op |-> "marker", sid |-> s])
    /\ UNCHANGED <<users, sessions, marked, access, resets, minted, raced, lostRevokes, sfaults>>

\* IsSessionRevoked asks Redis.
RefreshMarker(p) ==
    /\ calls[p].op = "marker"
    /\ IF calls[p].sid \in marked THEN Answer(p)
       ELSE calls' = [calls EXCEPT ![p].op = "rotate"]
    /\ UNCHANGED <<users, sessions, marked, access, resets, minted, raced, lostRevokes, sfaults>>

MutRotateRefresh(p) ==
    /\ calls[p].op = "rotate" /\ minted < MaxToken
    /\ minted' = minted + 1
    /\ sessions' = [sessions EXCEPT ![calls[p].sid].hash = minted']
    /\ access' = access \union {calls[p].sid}
    /\ Answer(p)
    /\ UNCHANGED <<users, marked, resets, raced, lostRevokes, sfaults>>

\* RotateRefresh goes by the id and spares only revoked rows; the old hash is not compared.
RotateRefresh(p) ==
    /\ calls[p].op = "rotate" /\ minted < MaxToken
    /\ LET s == calls[p].sid IN
       IF sessions[s].revoked THEN UNCHANGED <<sessions, access, minted>>
       ELSE /\ minted' = minted + 1
            /\ sessions' = [sessions EXCEPT ![s].hash = minted']
            /\ IssueAccessToken(s)
    /\ Answer(p)
    /\ UNCHANGED <<users, marked, resets, raced, lostRevokes, sfaults>>

-----------------------------------------------------------------------------
(* Revocation *)

\* Logout by the refresh token; an unknown token is answered as done.
LogoutRead(p, s) ==
    /\ s \in LiveSessions
    /\ Begin(p, [op |-> "revoke", sid |-> s])
    /\ UNCHANGED <<users, sessions, marked, access, resets, minted, raced, lostRevokes, sfaults>>

\* DELETE /auth/sessions/{id}: a live session of the caller's own.
RevokeOwned(p, by, s) ==
    /\ BeginAs(p, by, [op |-> "revoke", sid |-> s])
    /\ s \in LiveSessions /\ sessions[by].user = sessions[s].user
    /\ UNCHANGED <<users, sessions, marked, access, resets, minted, raced, lostRevokes, sfaults>>

\* Revoke: the row first; a row that is revoked already is an error.
RevokeRow(p) ==
    /\ calls[p].op = "revoke"
    /\ IF sessions[calls[p].sid].revoked THEN Answer(p) /\ UNCHANGED sessions
       ELSE /\ sessions' = [sessions EXCEPT ![calls[p].sid].revoked = TRUE]
            /\ calls' = [calls EXCEPT ![p].op = "mark"]
    /\ UNCHANGED <<users, marked, access, resets, minted, raced, lostRevokes, sfaults>>

\* RevokeSession: the marker, which lives as long as the session would have.
RevokeMark(p) ==
    /\ calls[p].op = "mark"
    /\ marked' = IF sessions[calls[p].sid].expired THEN marked ELSE marked \union {calls[p].sid}
    /\ Answer(p)
    /\ UNCHANGED <<users, sessions, access, resets, minted, raced, lostRevokes, sfaults>>

MutRevokeAll(u, but) ==
    sessions' = [s \in Sids |->
        IF s \in LiveSessions /\ sessions[s].user = u /\ s \notin but /\ s \notin access
        THEN [sessions[s] EXCEPT !.revoked = TRUE] ELSE sessions[s]]

\* RevokeAll: one statement for all of a user's sessions but one; no markers.
RevokeAll(u, but) ==
    sessions' = [s \in Sids |->
        IF sessions[s] # NoRow /\ sessions[s].user = u /\ s \notin but
        THEN [sessions[s] EXCEPT !.revoked = TRUE] ELSE sessions[s]]

\* POST /auth/logout-all spares the caller's session.
LogoutAll(s) ==
    /\ Authenticated(s)
    /\ RevokeAll(sessions[s].user, {s})
    /\ UNCHANGED <<users, marked, access, resets, calls, minted, raced, lostRevokes, sfaults>>

-----------------------------------------------------------------------------
(* Passwords *)

\* RequestPasswordReset stores a token for a live account.
RequestPasswordReset(u, r) ==
    /\ u \in LiveIds(users) /\ resets[r] = NoRow
    /\ resets' = Insert(resets, r, [user |-> u, used |-> FALSE, sets |-> 0])
    /\ UNCHANGED <<users, sessions, marked, access, calls, minted, raced, lostRevokes, sfaults>>

\* ConsumePasswordResetToken: the update claims the token and returns its user.
ConsumeReset(r) == resets[r] # NoRow /\ ~resets[r].used

ResetPassword(p, r) ==
    /\ ConsumeReset(r)
    /\ resets' = [resets EXCEPT ![r].used = TRUE]
    /\ Begin(p, [op |-> "set", user |-> resets[r].user, by |-> r])
    /\ UNCHANGED <<users, sessions, marked, access, minted, raced, lostRevokes, sfaults>>

\* ChangePassword verifies the current password of the authenticated user.
ChangePassword(p, s) ==
    /\ sessions[s] # NoRow /\ sessions[s].user \in LiveIds(users)
    /\ BeginAs(p, s, [op |-> "set", user |-> sessions[s].user, by |-> "current"])
    /\ UNCHANGED <<users, sessions, marked, access, resets, minted, raced, lostRevokes, sfaults>>

SetPassword(p) ==
    /\ calls[p].op = "set" /\ users[calls[p].user].password < MaxPassword
    /\ users' = Update(users, calls[p].user, [password |-> users[calls[p].user].password + 1])
    /\ resets' = IF calls[p].by \in ResetIds THEN [resets EXCEPT ![calls[p].by].sets = @ + 1] ELSE resets
    /\ calls' = [calls EXCEPT ![p].op = "revokeall"]
    /\ UNCHANGED <<sessions, marked, access, minted, raced, lostRevokes, sfaults>>

\* Both end all sessions; the session of the context is never found (tenantSessionID), so none is spared.
RevokeAfterSet(p) ==
    /\ calls[p].op = "revokeall"
    /\ RevokeAll(calls[p].user, {})
    /\ Answer(p)
    /\ UNCHANGED <<users, marked, access, resets, minted, raced, lostRevokes, sfaults>>

-----------------------------------------------------------------------------
(* Time and faults *)

\* expires_at passes, and with it the marker's TTL.
SessionExpires(s) ==
    /\ sessions[s] # NoRow /\ ~sessions[s].expired
    /\ sessions' = [sessions EXCEPT ![s].expired = TRUE]
    /\ marked' = marked \ {s}
    /\ UNCHANGED <<users, access, resets, calls, minted, raced, lostRevokes, sfaults>>

AccessExpires(s) ==
    /\ s \in access
    /\ access' = access \ {s}
    /\ UNCHANGED <<users, sessions, marked, resets, calls, minted, raced, lostRevokes, sfaults>>

\* The server dies, or the next statement fails: what was to follow is not done.
CallFails(p) ==
    /\ calls[p] # SIdle /\ sfaults < MaxFaults
    /\ sfaults' = sfaults + 1
    /\ lostRevokes' = IF calls[p].op = "revokeall" THEN lostRevokes + 1 ELSE lostRevokes
    /\ Answer(p)
    /\ UNCHANGED <<users, sessions, marked, access, resets, minted, raced>>

SessionsNext ==
    \/ \E u \in Accounts : Register(u)
    \/ \E p \in Procs, u \in Accounts : LoginVerify(p, u)
    \/ \E p \in Procs, s \in Sids :
        \/ IssueTokens(p, s) \/ RefreshRead(p, s) \/ LogoutRead(p, s) \/ ChangePassword(p, s)
    \/ \E p \in Procs : RefreshMarker(p) \/ RotateRefresh(p) \/ RevokeRow(p) \/ RevokeMark(p)
    \/ \E p \in Procs, by, s \in Sids : RevokeOwned(p, by, s)
    \/ \E s \in Sids : LogoutAll(s) \/ SessionExpires(s) \/ AccessExpires(s)
    \/ \E u \in Accounts, r \in ResetIds : RequestPasswordReset(u, r)
    \/ \E p \in Procs, r \in ResetIds : ResetPassword(p, r)
    \/ \E p \in Procs : SetPassword(p) \/ RevokeAfterSet(p) \/ CallFails(p)

SessionsSpec == SessionsInit /\ [][SessionsNext]_svars

-----------------------------------------------------------------------------
(* Properties *)

\* Every row, marker and call is well formed: users and sessions are written by
\* the statements of identity/user and identity/session only.
SessionsTypeOK ==
    /\ \A u \in Accounts : users[u] # NoRow => users[u] \in UserRow
    /\ \A s \in Sids : sessions[s] # NoRow => sessions[s] \in SessionRow
    /\ \A r \in ResetIds : resets[r] # NoRow => resets[r] \in ResetRow
    /\ marked \subseteq Sids /\ access \subseteq {s \in Sids : sessions[s] # NoRow}
    /\ minted \in 0..MaxToken /\ lostRevokes <= sfaults /\ sfaults \in 0..MaxFaults

\* A session once revoked is never refreshed again, not even by a refresh that had
\* looked it up before: no new hash and no new access token (RotateRefresh).
RevokedStaysDead ==
    [][\A s \in Sids : (sessions[s] # NoRow /\ sessions[s].revoked) =>
        sessions'[s].revoked /\ sessions'[s].hash = sessions[s].hash /\ (s \in access' => s \in access)]_svars

\* After a password reset or change no session opened with an older password is
\* live, unless its login overlapped the change, the change is still about to
\* revoke, or that statement was lost (ResetPassword, ChangePassword).
SurvivorsExplained ==
    \A s \in LiveSessions :
        \/ sessions[s].password = users[sessions[s].user].password
        \/ s \in raced \/ lostRevokes > 0
        \/ \E p \in Procs : calls[p].op = "revokeall" /\ calls[p].user = sessions[s].user

\* A reset token sets a password at most once, however many requests present it
\* at the same time (ConsumePasswordResetToken).
ResetTokenOnce == \A r \in ResetIds : resets[r] # NoRow => resets[r].sets <= 1
=============================================================================
