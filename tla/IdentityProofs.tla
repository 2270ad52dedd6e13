--------------------------- MODULE IdentityProofs ---------------------------
(* Theorems about sessions, password resets, members and invitations, for any  *)
(* users, sessions, tokens and concurrent requests.                           *)
EXTENDS Sessions, Membership, TLAPS

-----------------------------------------------------------------------------
(* Sessions *)

LoginCalls == [op : {"login"}, user : Accounts, password : 1..MaxPassword]
SessionCalls == [op : {"marker", "rotate", "revoke", "mark"}, sid : Sids]
PasswordCalls == [op : {"set", "revokeall"}, user : Accounts, by : ResetIds \union {"current"}]

SessionTypes ==
    /\ users \in [Accounts -> UserRow \union {NoRow}]
    /\ sessions \in [Sids -> SessionRow \union {NoRow}]
    /\ resets \in [ResetIds -> ResetRow \union {NoRow}]
    /\ calls \in [Procs -> {SIdle} \union LoginCalls \union SessionCalls \union PasswordCalls]
    /\ access \subseteq Sids /\ marked \subseteq Sids
    /\ minted \in 0..MaxToken /\ lostRevokes \in Nat /\ sfaults \in 0..MaxFaults /\ lostRevokes <= sfaults

\* What a request, an access token or a row refers to is there.
Referenced ==
    /\ \A p \in Procs : calls[p] \in SessionCalls => sessions[calls[p].sid] # NoRow
    /\ \A p \in Procs : calls[p] \in LoginCalls \union PasswordCalls => users[calls[p].user] # NoRow
    /\ \A s \in access : sessions[s] # NoRow
    /\ \A s \in Sids : sessions[s] # NoRow => users[sessions[s].user] # NoRow
    /\ \A r \in ResetIds : resets[r] # NoRow => users[resets[r].user] # NoRow
    /\ \A p \in Procs : (calls[p] \in PasswordCalls /\ calls[p].by \in ResetIds) => resets[calls[p].by] # NoRow

SessionsInv == SessionTypes /\ Referenced

\* A call is of the kind that its op says.
LEMMA CallKinds ==
    ASSUME SessionTypes, NEW p \in Procs
    PROVE  /\ calls[p].op = "login" => calls[p] \in LoginCalls
           /\ calls[p].op \in {"marker", "rotate", "revoke", "mark"} => calls[p] \in SessionCalls
           /\ calls[p].op \in {"set", "revokeall"} => calls[p] \in PasswordCalls
BY DEF SessionTypes, LoginCalls, SessionCalls, PasswordCalls, SIdle

\* The steps on one session leave its user and its password; none takes a row away.
SessionsKept ==
    /\ sessions' \in [Sids -> SessionRow \union {NoRow}]
    /\ \A q \in Sids : (sessions'[q] = NoRow) <=> (sessions[q] = NoRow)
    /\ \A q \in Sids : sessions[q] # NoRow =>
        sessions'[q].user = sessions[q].user /\ sessions'[q].password = sessions[q].password

\* Revoking, expiring or rotating one session keeps its user and its password.
LEMMA SessionMoves ==
    ASSUME SessionTypes, NEW s \in Sids, sessions[s] # NoRow, NEW h \in 1..MaxToken,
           \/ sessions' = [sessions EXCEPT ![s].revoked = TRUE]
           \/ sessions' = [sessions EXCEPT ![s].expired = TRUE]
           \/ sessions' = [sessions EXCEPT ![s].hash = h]
    PROVE  SessionsKept
<1>1. sessions[s] \in SessionRow
  BY DEF SessionTypes
<1>2. ASSUME NEW r \in {[sessions[s] EXCEPT !.revoked = TRUE], [sessions[s] EXCEPT !.expired = TRUE], [sessions[s] EXCEPT !.hash = h]}
      PROVE  r \in SessionRow /\ r.user = sessions[s].user /\ r.password = sessions[s].password
  BY <1>1 DEF SessionRow
<1>3. PICK r \in SessionRow : /\ r.user = sessions[s].user /\ r.password = sessions[s].password
                              /\ sessions' = [sessions EXCEPT ![s] = r]
  <2>1. CASE sessions' = [sessions EXCEPT ![s].revoked = TRUE]
    BY <1>2, <2>1
  <2>2. CASE sessions' = [sessions EXCEPT ![s].expired = TRUE]
    BY <1>2, <2>2
  <2>3. CASE sessions' = [sessions EXCEPT ![s].hash = h]
    BY <1>2, <2>3
  <2> QED
    BY <2>1, <2>2, <2>3
<1> QED
  BY <1>3, SessionsAssumption DEF SessionsKept, SessionTypes

\* RevokeAll moves sessions to revoked and nothing else.
LEMMA RevokeAllKeeps ==
    ASSUME SessionTypes, NEW u \in Accounts, NEW but, RevokeAll(u, but)
    PROVE  SessionsKept /\ \A q \in Sids : sessions[q] # NoRow =>
            /\ sessions'[q].hash = sessions[q].hash
            /\ sessions'[q].expired = sessions[q].expired
            /\ sessions[q].revoked => sessions'[q].revoked
            /\ sessions[q].user = u /\ q \notin but => sessions'[q].revoked
<1>1. ASSUME NEW q \in Sids, sessions[q] # NoRow
      PROVE  /\ sessions[q] \in SessionRow
             /\ [sessions[q] EXCEPT !.revoked = TRUE] \in SessionRow
             /\ [sessions[q] EXCEPT !.revoked = TRUE].user = sessions[q].user
             /\ [sessions[q] EXCEPT !.revoked = TRUE].password = sessions[q].password
             /\ [sessions[q] EXCEPT !.revoked = TRUE].hash = sessions[q].hash
             /\ [sessions[q] EXCEPT !.revoked = TRUE].expired = sessions[q].expired
             /\ [sessions[q] EXCEPT !.revoked = TRUE].revoked = TRUE
  BY <1>1 DEF SessionTypes, SessionRow
<1>2. \A q \in Sids : sessions'[q] = IF sessions[q] # NoRow /\ sessions[q].user = u /\ q \notin but
                                    THEN [sessions[q] EXCEPT !.revoked = TRUE] ELSE sessions[q]
  BY DEF RevokeAll
<1>3. sessions' = [q \in Sids |-> sessions'[q]]
  BY DEF RevokeAll
<1>4. ASSUME NEW q \in Sids, sessions[q] = NoRow PROVE sessions'[q] = NoRow
  BY <1>2, <1>4
<1>5. ASSUME NEW q \in Sids, sessions[q] # NoRow
      PROVE  /\ sessions'[q] \in SessionRow /\ sessions'[q] # NoRow
             /\ sessions'[q].user = sessions[q].user /\ sessions'[q].password = sessions[q].password
             /\ sessions'[q].hash = sessions[q].hash
             /\ sessions'[q].expired = sessions[q].expired
             /\ sessions[q].revoked => sessions'[q].revoked
             /\ sessions[q].user = u /\ q \notin but => sessions'[q].revoked
  <2>1. CASE sessions[q].user = u /\ q \notin but
    <3>1. sessions'[q] = [sessions[q] EXCEPT !.revoked = TRUE]
      BY <1>2, <1>5, <2>1
    <3> QED
      BY <3>1, <1>1, <1>5, SessionsAssumption
  <2>2. CASE ~(sessions[q].user = u /\ q \notin but)
    <3>1. sessions'[q] = sessions[q]
      BY <1>2, <2>2
    <3> QED
      BY <3>1, <1>1, <1>5, <2>2
  <2> QED
    BY <2>1, <2>2
<1> QED
  BY <1>3, <1>4, <1>5 DEF SessionsKept

\* Every step of a request, a clock or a failure keeps the invariant of sessions and tokens.
LEMMA SessionsStep ==
    ASSUME SessionsInv, [SessionsNext]_svars
    PROVE  SessionsInv'
<1> USE DEF SessionsInv
<1>0. CASE UNCHANGED svars
  BY <1>0 DEF svars, SessionTypes, Referenced
<1>1. ASSUME NEW u \in Accounts, Register(u) PROVE SessionsInv'
  <2>1. users[u] = NoRow /\ users' = [users EXCEPT ![u] = ActiveUser]
        /\ UNCHANGED <<sessions, marked, access, resets, calls, minted, lostRevokes, sfaults>>
    BY <1>1 DEF Register, LiveIds, Insert, SessionTypes, UserRow
  <2>2. ActiveUser \in UserRow
    BY SessionsAssumption DEF ActiveUser, UserRow
  <2>3. SessionTypes'
    BY <2>1, <2>2 DEF SessionTypes
  <2>4. Referenced'
    BY <2>1, <2>2, SessionsAssumption DEF Referenced, SessionTypes
  <2> QED
    BY <2>3, <2>4
<1>2. ASSUME NEW p \in Procs, NEW u \in Accounts, LoginVerify(p, u) PROVE SessionsInv'
  <2>1. SessionTypes'
    BY <1>2, SessionsAssumption DEF LoginVerify, CanLogin, Find, LiveIds, Begin, BeginAs, Insert, SessionTypes, Referenced, UserRow, SessionRow, ResetRow, LoginCalls, SessionCalls, PasswordCalls, SIdle
  <2>2. Referenced'
    BY <1>2, SessionsAssumption DEF LoginVerify, CanLogin, Find, LiveIds, Begin, BeginAs, Insert, SessionTypes, Referenced, UserRow, SessionRow, ResetRow, LoginCalls, SessionCalls, PasswordCalls, SIdle
  <2> QED
    BY <2>1, <2>2
<1>3. ASSUME NEW p \in Procs, NEW s \in Sids, IssueTokens(p, s) PROVE SessionsInv'
  <2> DEFINE row == [user |-> calls[p].user, hash |-> minted + 1, revoked |-> FALSE, expired |-> FALSE,
                     password |-> calls[p].password]
  <2>1. calls[p] \in LoginCalls
    BY <1>3, CallKinds DEF IssueTokens
  <2>2. row \in SessionRow /\ row.user = calls[p].user
    BY <1>3, <2>1, SessionsAssumption DEF IssueTokens, LoginCalls, SessionRow, SessionTypes
  <2>3. /\ sessions[s] = NoRow /\ sessions' = [sessions EXCEPT ![s] = row] /\ access' = access \union {s}
        /\ minted' = minted + 1 /\ minted < MaxToken /\ calls' = [calls EXCEPT ![p] = SIdle]
        /\ UNCHANGED <<users, marked, resets, lostRevokes, sfaults>>
    BY <1>3 DEF IssueTokens, Insert, IssueAccessToken, Answer
  <2> HIDE DEF row
  <2>4. SessionTypes'
    BY <2>2, <2>3, SessionsAssumption DEF SessionTypes
  <2>5. /\ \A q \in Sids \ {s} : sessions'[q] = sessions[q]
        /\ sessions'[s] = row /\ row # NoRow
        /\ \A q \in Procs \ {p} : calls'[q] = calls[q]
        /\ calls'[p] \notin LoginCalls \union SessionCalls \union PasswordCalls
    BY <2>2, <2>3, SessionsAssumption DEF SessionTypes, LoginCalls, SessionCalls, PasswordCalls, SIdle
  <2>6. users[row.user] # NoRow
    BY <2>1, <2>2 DEF Referenced
  <2>7. Referenced'
    BY <2>3, <2>4, <2>5, <2>6 DEF Referenced, SessionTypes, SessionCalls
  <2> QED
    BY <2>4, <2>7
<1>4. ASSUME NEW p \in Procs, NEW s \in Sids, RefreshRead(p, s) PROVE SessionsInv'
  <2>1. SessionTypes'
    BY <1>4, SessionsAssumption DEF RefreshRead, LiveSessions, Begin, BeginAs, Insert, SessionTypes, Referenced, UserRow, SessionRow, ResetRow, LoginCalls, SessionCalls, PasswordCalls, SIdle
  <2>2. Referenced'
    BY <1>4, SessionsAssumption DEF RefreshRead, LiveSessions, Begin, BeginAs, Insert, SessionTypes, Referenced, UserRow, SessionRow, ResetRow, LoginCalls, SessionCalls, PasswordCalls, SIdle
  <2> QED
    BY <2>1, <2>2
<1>5. ASSUME NEW p \in Procs, NEW s \in Sids, LogoutRead(p, s) PROVE SessionsInv'
  <2>1. SessionTypes'
    BY <1>5, SessionsAssumption DEF LogoutRead, LiveSessions, Begin, BeginAs, Insert, SessionTypes, Referenced, UserRow, SessionRow, ResetRow, LoginCalls, SessionCalls, PasswordCalls, SIdle
  <2>2. Referenced'
    BY <1>5, SessionsAssumption DEF LogoutRead, LiveSessions, Begin, BeginAs, Insert, SessionTypes, Referenced, UserRow, SessionRow, ResetRow, LoginCalls, SessionCalls, PasswordCalls, SIdle
  <2> QED
    BY <2>1, <2>2
<1>6. ASSUME NEW p \in Procs, NEW s \in Sids, ChangePassword(p, s) PROVE SessionsInv'
  <2>1. SessionTypes'
    BY <1>6, SessionsAssumption DEF ChangePassword, LiveIds, Begin, BeginAs, Insert, SessionTypes, Referenced, UserRow, SessionRow, ResetRow, LoginCalls, SessionCalls, PasswordCalls, SIdle
  <2>2. Referenced'
    BY <1>6, SessionsAssumption DEF ChangePassword, LiveIds, Begin, BeginAs, Insert, SessionTypes, Referenced, UserRow, SessionRow, ResetRow, LoginCalls, SessionCalls, PasswordCalls, SIdle
  <2> QED
    BY <2>1, <2>2
<1>7. ASSUME NEW p \in Procs, RefreshMarker(p) PROVE SessionsInv'
  <2>1. calls[p] \in SessionCalls /\ calls[p].sid \in Sids /\ sessions[calls[p].sid] # NoRow
    BY <1>7, CallKinds DEF RefreshMarker, Referenced, SessionCalls
  <2>3. /\ calls' \in [Procs -> {SIdle} \union LoginCalls \union SessionCalls \union PasswordCalls]
        /\ \A q \in Procs \ {p} : calls'[q] = calls[q]
        /\ calls'[p] = SIdle \/ (calls'[p] \in SessionCalls /\ calls'[p].sid = calls[p].sid)
    BY <1>7, <2>1 DEF RefreshMarker, Answer, SessionTypes, SessionCalls
  <2>4. SessionTypes'
    BY <1>7, <2>1, <2>3 DEF RefreshMarker, SessionTypes, SessionsKept
  <2>5. Referenced'
    BY <1>7, <2>1, <2>3, SessionsAssumption DEF RefreshMarker, Referenced, SessionTypes, SessionsKept, LoginCalls, SessionCalls, PasswordCalls, SIdle
  <2> QED
    BY <2>4, <2>5
<1>8. ASSUME NEW p \in Procs, RotateRefresh(p) PROVE SessionsInv'
  <2>1. calls[p] \in SessionCalls /\ calls[p].sid \in Sids /\ sessions[calls[p].sid] # NoRow
    BY <1>8, CallKinds DEF RotateRefresh, Referenced, SessionCalls
  <2>2. SessionsKept /\ access' \subseteq access \union {calls[p].sid} /\ minted' \in 0..MaxToken
    <3>1. CASE UNCHANGED <<sessions, access, minted>>
      BY <3>1 DEF SessionsKept, SessionTypes
    <3>2. CASE /\ minted' = minted + 1 /\ minted' \in 1..MaxToken /\ access' = access \union {calls[p].sid}
               /\ sessions' = [sessions EXCEPT ![calls[p].sid].hash = minted']
      <4>1. PICK h \in 1..MaxToken : h = minted'
        BY <3>2
      <4>2. sessions' = [sessions EXCEPT ![calls[p].sid].hash = h]
        BY <3>2, <4>1
      <4>3. SessionsKept
        BY <4>2, <2>1, SessionMoves
      <4> QED
        BY <4>3, <3>2
    <3>3. minted < MaxToken => minted + 1 \in 1..MaxToken
      BY SessionsAssumption DEF SessionTypes
    <3> QED
      BY <1>8, <3>1, <3>2, <3>3 DEF RotateRefresh, IssueAccessToken
  <2>3. /\ calls' \in [Procs -> {SIdle} \union LoginCalls \union SessionCalls \union PasswordCalls]
        /\ \A q \in Procs \ {p} : calls'[q] = calls[q]
        /\ calls'[p] = SIdle \/ (calls'[p] \in SessionCalls /\ calls'[p].sid = calls[p].sid)
    BY <1>8, <2>1 DEF RotateRefresh, Answer, SessionTypes, SessionCalls
  <2>4. SessionTypes'
    BY <1>8, <2>1, <2>2, <2>3 DEF RotateRefresh, SessionTypes, SessionsKept
  <2>5. Referenced'
    BY <1>8, <2>1, <2>2, <2>3, SessionsAssumption DEF RotateRefresh, Referenced, SessionTypes, SessionsKept, LoginCalls, SessionCalls, PasswordCalls, SIdle
  <2> QED
    BY <2>4, <2>5
<1>9. ASSUME NEW p \in Procs, RevokeRow(p) PROVE SessionsInv'
  <2>1. calls[p] \in SessionCalls /\ calls[p].sid \in Sids /\ sessions[calls[p].sid] # NoRow
    BY <1>9, CallKinds DEF RevokeRow, Referenced, SessionCalls
  <2>2. SessionsKept
    <3>1. CASE UNCHANGED sessions
      BY <3>1 DEF SessionsKept, SessionTypes
    <3>2. CASE sessions' = [sessions EXCEPT ![calls[p].sid].revoked = TRUE]
      <4>1. \E h \in 1..MaxToken : TRUE
        BY <2>1 DEF SessionTypes, SessionRow
      <4> QED
        BY <3>2, <4>1, <2>1, SessionMoves
    <3> QED
      BY <1>9, <3>1, <3>2 DEF RevokeRow
  <2>3. /\ calls' \in [Procs -> {SIdle} \union LoginCalls \union SessionCalls \union PasswordCalls]
        /\ \A q \in Procs \ {p} : calls'[q] = calls[q]
        /\ calls'[p] = SIdle \/ (calls'[p] \in SessionCalls /\ calls'[p].sid = calls[p].sid)
    BY <1>9, <2>1 DEF RevokeRow, Answer, SessionTypes, SessionCalls
  <2>4. SessionTypes'
    BY <1>9, <2>1, <2>2, <2>3 DEF RevokeRow, SessionTypes, SessionsKept
  <2>5. Referenced'
    BY <1>9, <2>1, <2>2, <2>3, SessionsAssumption DEF RevokeRow, Referenced, SessionTypes, SessionsKept, LoginCalls, SessionCalls, PasswordCalls, SIdle
  <2> QED
    BY <2>4, <2>5
<1>10. ASSUME NEW p \in Procs, RevokeMark(p) PROVE SessionsInv'
  <2>1. calls[p] \in SessionCalls /\ calls[p].sid \in Sids /\ sessions[calls[p].sid] # NoRow
    BY <1>10, CallKinds DEF RevokeMark, Referenced, SessionCalls
  <2>3. /\ calls' \in [Procs -> {SIdle} \union LoginCalls \union SessionCalls \union PasswordCalls]
        /\ \A q \in Procs \ {p} : calls'[q] = calls[q]
        /\ calls'[p] = SIdle \/ (calls'[p] \in SessionCalls /\ calls'[p].sid = calls[p].sid)
    BY <1>10, <2>1 DEF RevokeMark, Answer, SessionTypes, SessionCalls
  <2>4. SessionTypes'
    BY <1>10, <2>1, <2>3 DEF RevokeMark, SessionTypes, SessionsKept
  <2>5. Referenced'
    BY <1>10, <2>1, <2>3, SessionsAssumption DEF RevokeMark, Referenced, SessionTypes, SessionsKept, LoginCalls, SessionCalls, PasswordCalls, SIdle
  <2> QED
    BY <2>4, <2>5
<1>11. ASSUME NEW p \in Procs, NEW by \in Sids, NEW s \in Sids, RevokeOwned(p, by, s) PROVE SessionsInv'
  <2>1. SessionTypes'
    BY <1>11, SessionsAssumption DEF RevokeOwned, LiveSessions, Begin, BeginAs, Insert, SessionTypes, Referenced, UserRow, SessionRow, ResetRow, LoginCalls, SessionCalls, PasswordCalls, SIdle
  <2>2. Referenced'
    BY <1>11, SessionsAssumption DEF RevokeOwned, LiveSessions, Begin, BeginAs, Insert, SessionTypes, Referenced, UserRow, SessionRow, ResetRow, LoginCalls, SessionCalls, PasswordCalls, SIdle
  <2> QED
    BY <2>1, <2>2
<1>12. ASSUME NEW s \in Sids, LogoutAll(s) PROVE SessionsInv'
  <2>1. sessions[s] # NoRow /\ sessions[s].user \in Accounts
    BY <1>12 DEF LogoutAll, Authenticated, ValidateAccessToken, Referenced, SessionTypes, SessionRow
  <2>2. SessionsKept
    BY <1>12, <2>1, RevokeAllKeeps DEF LogoutAll
  <2>4. SessionTypes'
    BY <1>12, <2>2 DEF LogoutAll, SessionTypes, SessionsKept
  <2>5. Referenced'
    BY <1>12, <2>2, SessionsAssumption DEF LogoutAll, Referenced, SessionTypes, SessionsKept, LoginCalls, SessionCalls, PasswordCalls, SIdle
  <2> QED
    BY <2>4, <2>5
<1>13. ASSUME NEW s \in Sids, SessionExpires(s) PROVE SessionsInv'
  <2>1. \E h \in 1..MaxToken : TRUE
    BY <1>13 DEF SessionExpires, SessionTypes, SessionRow
  <2>2. SessionsKept
    BY <1>13, <2>1, SessionMoves DEF SessionExpires
  <2>4. SessionTypes'
    BY <1>13, <2>2 DEF SessionExpires, SessionTypes, SessionsKept
  <2>5. Referenced'
    BY <1>13, <2>2, SessionsAssumption DEF SessionExpires, Referenced, SessionTypes, SessionsKept, LoginCalls, SessionCalls, PasswordCalls, SIdle
  <2> QED
    BY <2>4, <2>5
<1>14. ASSUME NEW s \in Sids, AccessExpires(s) PROVE SessionsInv'
  <2>1. SessionTypes'
    BY <1>14, SessionsAssumption DEF AccessExpires, Begin, BeginAs, Insert, SessionTypes, Referenced, UserRow, SessionRow, ResetRow, LoginCalls, SessionCalls, PasswordCalls, SIdle
  <2>2. Referenced'
    BY <1>14, SessionsAssumption DEF AccessExpires, Begin, BeginAs, Insert, SessionTypes, Referenced, UserRow, SessionRow, ResetRow, LoginCalls, SessionCalls, PasswordCalls, SIdle
  <2> QED
    BY <2>1, <2>2
<1>15. ASSUME NEW u \in Accounts, NEW r \in ResetIds, RequestPasswordReset(u, r) PROVE SessionsInv'
  <2>1. SessionTypes'
    BY <1>15, SessionsAssumption DEF RequestPasswordReset, LiveIds, Begin, BeginAs, Insert, SessionTypes, Referenced, UserRow, SessionRow, ResetRow, LoginCalls, SessionCalls, PasswordCalls, SIdle
  <2>2. Referenced'
    BY <1>15, SessionsAssumption DEF RequestPasswordReset, LiveIds, Begin, BeginAs, Insert, SessionTypes, Referenced, UserRow, SessionRow, ResetRow, LoginCalls, SessionCalls, PasswordCalls, SIdle
  <2> QED
    BY <2>1, <2>2
<1>16. ASSUME NEW p \in Procs, NEW r \in ResetIds, ResetPassword(p, r) PROVE SessionsInv'
  <2>1. SessionTypes'
    BY <1>16, SessionsAssumption, ZenonT(60) DEF ResetPassword, ConsumeReset, Begin, BeginAs, Insert, SessionTypes, Referenced, UserRow, SessionRow, ResetRow, LoginCalls, SessionCalls, PasswordCalls, SIdle
  <2>2. /\ resets[r] \in ResetRow /\ resets[r] # NoRow
        /\ resets' = [resets EXCEPT ![r].used = TRUE]
        /\ calls' = [calls EXCEPT ![p] = [op |-> "set", user |-> resets[r].user, by |-> r]]
        /\ UNCHANGED <<users, sessions, access>>
    BY <1>16 DEF ResetPassword, ConsumeReset, Begin, SessionTypes
  <2>3. /\ \A q \in ResetIds \ {r} : resets'[q] = resets[q]
        /\ resets'[r] \in ResetRow /\ resets'[r].user = resets[r].user
    BY <2>2 DEF SessionTypes, ResetRow
  <2>4. /\ \A q \in Procs \ {p} : calls'[q] = calls[q]
        /\ calls'[p] \notin SessionCalls \union LoginCalls
        /\ calls'[p].user = resets[r].user /\ calls'[p].by = r
    BY <2>2 DEF SessionTypes, SessionCalls, LoginCalls
  <2>5. Referenced'
    BY <2>2, <2>3, <2>4, SessionsAssumption, ZenonT(60) DEF Referenced, SessionTypes
  <2> QED
    BY <2>1, <2>5
<1>17. ASSUME NEW p \in Procs, SetPassword(p) PROVE SessionsInv'
  <2> DEFINE u == calls[p].user
             row == [c \in DOMAIN users[u] |-> IF c \in DOMAIN [password |-> users[u].password + 1]
                                             THEN [password |-> users[u].password + 1][c] ELSE users[u][c]]
  <2>1. calls[p] \in PasswordCalls /\ u \in Accounts /\ users[u] \in UserRow /\ users[u] # NoRow
    BY <1>17, CallKinds DEF SetPassword, PasswordCalls, Referenced, SessionTypes
  <2>2. users[u].password + 1 \in 1..MaxPassword
    <3>1. users[u].password \in 1..MaxPassword
      BY <2>1 DEF UserRow
    <3>2. users[u].password < MaxPassword
      BY <1>17 DEF SetPassword
    <3> QED
      BY <3>1, <3>2, SessionsAssumption
  <2>3. row = [status |-> users[u].status, password |-> users[u].password + 1, deleted |-> users[u].deleted]
    <3>1. DOMAIN users[u] = {"status", "password", "deleted"}
      BY <2>1 DEF UserRow
    <3>2. row = [c \in {"status", "password", "deleted"} |-> IF c = "password" THEN users[u].password + 1 ELSE users[u][c]]
      BY <3>1
    <3> QED
      BY <3>2
  <2>4. row \in UserRow
    BY <2>1, <2>2, <2>3 DEF UserRow
  <2>5. users' = [users EXCEPT ![u] = row]
    BY <1>17, <2>1 DEF SetPassword, Update, LiveIds, SessionTypes, UserRow
  <2>6. /\ calls' = [calls EXCEPT ![p].op = "revokeall"]
        /\ UNCHANGED <<sessions, marked, access, minted, lostRevokes, sfaults>>
        /\ resets' = IF calls[p].by \in ResetIds THEN [resets EXCEPT ![calls[p].by].sets = @ + 1] ELSE resets
    BY <1>17 DEF SetPassword
  <2>7. calls'[p] \in PasswordCalls /\ calls'[p].user = u /\ calls'[p].by = calls[p].by /\ calls' \in [Procs -> {SIdle} \union LoginCalls \union SessionCalls \union PasswordCalls]
        /\ \A q \in Procs \ {p} : calls'[q] = calls[q]
    BY <2>1, <2>6 DEF SessionTypes, PasswordCalls
  <2>8. resets' \in [ResetIds -> ResetRow \union {NoRow}]
        /\ \A r \in ResetIds : (resets'[r] = NoRow <=> resets[r] = NoRow) /\ (resets[r] # NoRow => resets'[r].user = resets[r].user)
    <3>1. CASE calls[p].by \in ResetIds
      <4>1. resets[calls[p].by] # NoRow
        BY <2>1, <3>1 DEF Referenced
      <4> QED
        BY <3>1, <4>1, <2>6, SessionsAssumption DEF SessionTypes, ResetRow
    <3>2. CASE calls[p].by \notin ResetIds
      BY <3>2, <2>6 DEF SessionTypes
    <3> QED
      BY <3>1, <3>2
  <2> HIDE DEF row
  <2>9. SessionTypes'
    BY <2>4, <2>5, <2>6, <2>7, <2>8 DEF SessionTypes
  <2>10. \A v \in Accounts : users[v] # NoRow => users'[v] # NoRow
    BY <2>4, <2>5, SessionsAssumption DEF SessionTypes
  <2>11. Referenced'
    BY <2>1, <2>6, <2>7, <2>8, <2>10, SessionsAssumption
    DEF Referenced, SessionTypes, LoginCalls, SessionCalls, PasswordCalls, SessionRow, ResetRow
  <2> QED
    BY <2>9, <2>11
<1>18. ASSUME NEW p \in Procs, RevokeAfterSet(p) PROVE SessionsInv'
  <2>1. calls[p] \in PasswordCalls /\ calls[p].user \in Accounts
    BY <1>18, CallKinds DEF RevokeAfterSet, PasswordCalls
  <2>2. SessionsKept
    BY <1>18, <2>1, RevokeAllKeeps DEF RevokeAfterSet
  <2>3. /\ calls' = [calls EXCEPT ![p] = SIdle] /\ UNCHANGED <<users, marked, access, resets, minted, lostRevokes, sfaults>>
    BY <1>18 DEF RevokeAfterSet, Answer
  <2>4. SessionTypes'
    BY <2>2, <2>3 DEF SessionTypes, SessionsKept
  <2>5. Referenced'
    BY <2>2, <2>3, SessionsAssumption DEF Referenced, SessionTypes, SessionsKept, LoginCalls, SessionCalls, PasswordCalls, SIdle
  <2> QED
    BY <2>4, <2>5
<1>19. ASSUME NEW p \in Procs, CallFails(p) PROVE SessionsInv'
  <2>1. /\ calls' = [calls EXCEPT ![p] = SIdle] /\ sfaults' = sfaults + 1 /\ sfaults < MaxFaults
        /\ lostRevokes' \in {lostRevokes, lostRevokes + 1}
        /\ UNCHANGED <<users, sessions, marked, access, resets, minted>>
    BY <1>19 DEF CallFails, Answer
  <2>4. SessionTypes'
    BY <2>1, SessionsAssumption DEF SessionTypes
  <2>5. Referenced'
    BY <2>1, SessionsAssumption DEF Referenced, SessionTypes, LoginCalls, SessionCalls, PasswordCalls, SIdle
  <2> QED
    BY <2>4, <2>5
<1> QED
  BY <1>0, <1>1, <1>2, <1>3, <1>4, <1>5, <1>6, <1>7, <1>8, <1>9, <1>10, <1>11, <1>12, <1>13, <1>14, <1>15, <1>16, <1>17, <1>18, <1>19 DEF SessionsNext

\* Whatever requests overlap or die, the rows are well formed and refer to rows that exist.
THEOREM SessionsInvariant == SessionsSpec => []SessionsInv
<1>1. SessionsInit => SessionsInv
  BY SessionsAssumption
  DEF SessionsInit, SessionsInv, SessionTypes, Referenced, SIdle, LoginCalls, SessionCalls, PasswordCalls
<1>2. SessionsInv /\ [SessionsNext]_svars => SessionsInv'
  BY SessionsStep
<1> QED
  BY <1>1, <1>2, PTL DEF SessionsSpec

\* Users, sessions, reset tokens, markers and counters are well typed.
THEOREM SessionsTyped == SessionsSpec => []SessionsTypeOK
<1>1. SessionsInv => SessionsTypeOK
  BY DEF SessionsInv, SessionTypes, Referenced, SessionsTypeOK
<1> QED
  BY <1>1, SessionsInvariant, PTL

\* No step gives a revoked session a new refresh token or a new access token, nor revives
\* it, not even the second half of a refresh that had found it alive.
THEOREM RevocationHolds == SessionsSpec => RevokedStaysDead
<1> DEFINE Kept == \A s \in Sids : (sessions[s] # NoRow /\ sessions[s].revoked) =>
        sessions'[s].revoked /\ sessions'[s].hash = sessions[s].hash /\ (s \in access' => s \in access)
<1>1. ASSUME SessionsInv, [SessionsNext]_svars PROVE Kept
  <2> SUFFICES ASSUME NEW s \in Sids, sessions[s] # NoRow, sessions[s].revoked
               PROVE  sessions'[s].revoked /\ sessions'[s].hash = sessions[s].hash /\ (s \in access' => s \in access)
    OBVIOUS
  <2>0. sessions[s] \in SessionRow /\ DOMAIN sessions = Sids /\ SessionTypes /\ Referenced
    BY <1>1 DEF SessionsInv, SessionTypes
  <2>1. CASE UNCHANGED <<sessions, access>>
    BY <2>1
  <2>2. ASSUME NEW p \in Procs, NEW q \in Sids, IssueTokens(p, q) PROVE Kept
    BY <2>0, <2>2 DEF IssueTokens, IssueAccessToken, Insert
  <2>3. ASSUME NEW p \in Procs, RotateRefresh(p) PROVE Kept
    <3>1. CASE UNCHANGED <<sessions, access>>
      BY <3>1
    <3>2. CASE /\ ~sessions[calls[p].sid].revoked /\ access' = access \union {calls[p].sid}
               /\ sessions' = [sessions EXCEPT ![calls[p].sid].hash = minted']
      BY <2>0, <3>2
    <3> QED
      BY <2>3, <3>1, <3>2 DEF RotateRefresh, IssueAccessToken
  <2>4. ASSUME NEW p \in Procs, RevokeRow(p) PROVE Kept
    <3>1. CASE UNCHANGED <<sessions, access>>
      BY <3>1
    <3>2. CASE sessions' = [sessions EXCEPT ![calls[p].sid].revoked = TRUE] /\ UNCHANGED access
      BY <2>0, <3>2 DEF SessionRow, SessionTypes
    <3> QED
      BY <2>4, <3>1, <3>2 DEF RevokeRow
  <2>5. ASSUME NEW q \in Sids, LogoutAll(q) PROVE Kept
    <3>1. sessions[q].user \in Accounts
      BY <2>5, <1>1 DEF LogoutAll, Authenticated, ValidateAccessToken, SessionsInv, Referenced, SessionTypes, SessionRow
    <3> QED
      BY <2>0, <2>5, <3>1, RevokeAllKeeps DEF LogoutAll
  <2>6. ASSUME NEW p \in Procs, RevokeAfterSet(p) PROVE Kept
    <3>1. calls[p].user \in Accounts
      BY <2>0, <2>6, CallKinds DEF RevokeAfterSet, PasswordCalls
    <3> QED
      BY <2>0, <2>6, <3>1, RevokeAllKeeps DEF RevokeAfterSet
  <2>7. ASSUME NEW q \in Sids, SessionExpires(q) \/ AccessExpires(q) PROVE Kept
    BY <2>0, <2>7 DEF SessionExpires, AccessExpires, SessionTypes, SessionRow
  <2>8. ASSUME NEW u \in Accounts, Register(u) \/ (\E p \in Procs : LoginVerify(p, u)) \/ (\E r \in ResetIds : RequestPasswordReset(u, r))
        PROVE UNCHANGED <<sessions, access>>
    BY <2>8 DEF Register, LoginVerify, RequestPasswordReset
  <2>9. ASSUME NEW p \in Procs,
               \/ \E q \in Sids : RefreshRead(p, q) \/ LogoutRead(p, q) \/ ChangePassword(p, q)
               \/ \E q, by \in Sids : RevokeOwned(p, by, q)
               \/ \E r \in ResetIds : ResetPassword(p, r)
               \/ RefreshMarker(p) \/ RevokeMark(p) \/ SetPassword(p) \/ CallFails(p)
        PROVE UNCHANGED <<sessions, access>>
    BY <2>9 DEF RefreshRead, LogoutRead, ChangePassword, RevokeOwned, ResetPassword, RefreshMarker, RevokeMark, SetPassword, CallFails
  <2>10. CASE UNCHANGED svars
    BY <2>10 DEF svars
  <2> QED
    BY <1>1, <2>1, <2>2, <2>3, <2>4, <2>5, <2>6, <2>7, <2>8, <2>9, <2>10 DEF SessionsNext
<1>2. SessionsInv /\ [SessionsNext]_svars => [Kept]_svars
  BY <1>1
<1> QED
  BY <1>2, SessionsInvariant, PTL DEF SessionsSpec, RevokedStaysDead

\* A call that is about to set a password by a token has claimed it alone, and the token
\* has set none yet.
TokensOnce ==
    /\ \A r \in ResetIds : resets[r] # NoRow => resets[r].sets <= 1
    /\ \A r \in ResetIds : (resets[r] # NoRow /\ ~resets[r].used) => resets[r].sets = 0
    /\ \A p \in Procs : (calls[p].op = "set" /\ calls[p].by \in ResetIds) =>
        /\ resets[calls[p].by] # NoRow /\ resets[calls[p].by].used /\ resets[calls[p].by].sets = 0
        /\ \A q \in Procs \ {p} : ~(calls[q].op = "set" /\ calls[q].by = calls[p].by)

\* A reset token sets one password, however many requests present it at once, and whether
\* or not they come to their end.
THEOREM ResetsOnce == SessionsSpec => []ResetTokenOnce
<1>1. SessionsInit => TokensOnce
  BY DEF SessionsInit, TokensOnce, SIdle
<1>2. SessionsInv /\ TokensOnce /\ [SessionsNext]_svars => TokensOnce'
  <2> SUFFICES ASSUME SessionsInv, TokensOnce, [SessionsNext]_svars PROVE TokensOnce'
    OBVIOUS
  <2>0. SessionTypes /\ Referenced
    BY DEF SessionsInv
  <2>1. ASSUME UNCHANGED resets,
               \/ UNCHANGED calls
               \/ \E p \in Procs : /\ \A q \in Procs \ {p} : calls'[q] = calls[q]
                                   /\ calls'[p].op # "set" \/ calls'[p].by \notin ResetIds
        PROVE  TokensOnce'
    BY <2>1 DEF TokensOnce
  <2>2. ASSUME NEW u \in Accounts, NEW r \in ResetIds, RequestPasswordReset(u, r) PROVE TokensOnce'
    BY <2>0, <2>2 DEF RequestPasswordReset, Insert, TokensOnce, SessionTypes
  <2>3. ASSUME NEW p \in Procs, NEW r \in ResetIds, ResetPassword(p, r) PROVE TokensOnce'
    <3>1. /\ resets[r] \in ResetRow /\ resets[r] # NoRow /\ ~resets[r].used /\ calls[p] = SIdle
          /\ resets' = [resets EXCEPT ![r].used = TRUE]
          /\ calls' = [calls EXCEPT ![p] = [op |-> "set", user |-> resets[r].user, by |-> r]]
      BY <2>0, <2>3 DEF ResetPassword, ConsumeReset, Begin, SessionTypes
    <3>2. /\ \A q \in ResetIds \ {r} : resets'[q] = resets[q]
          /\ resets'[r] \in ResetRow /\ resets'[r].used /\ resets'[r].sets = 0
      BY <2>0, <3>1 DEF SessionTypes, ResetRow, TokensOnce
    <3>3. /\ \A q \in Procs \ {p} : calls'[q] = calls[q]
          /\ calls'[p].op = "set" /\ calls'[p].by = r
      BY <2>0, <3>1 DEF SessionTypes
    <3>4. \A q \in Procs : ~(calls[q].op = "set" /\ calls[q].by = r)
      BY <3>1 DEF TokensOnce
    <3> QED
      BY <3>2, <3>3, <3>4, SessionsAssumption DEF TokensOnce
  <2>4. ASSUME NEW p \in Procs, SetPassword(p) PROVE TokensOnce'
    <3>1. calls[p].op = "set" /\ calls[p] \in PasswordCalls
      BY <2>0, <2>4, CallKinds DEF SetPassword
    <3>2. calls' = [calls EXCEPT ![p].op = "revokeall"]
          /\ resets' = IF calls[p].by \in ResetIds THEN [resets EXCEPT ![calls[p].by].sets = @ + 1] ELSE resets
      BY <2>4 DEF SetPassword
    <3>3. calls'[p].op = "revokeall" /\ \A q \in Procs \ {p} : calls'[q] = calls[q]
      BY <2>0, <3>1, <3>2 DEF SessionTypes, PasswordCalls
    <3>4. CASE calls[p].by \notin ResetIds
      BY <3>2, <3>3, <3>4, <2>1
    <3>5. CASE calls[p].by \in ResetIds
      <4> DEFINE r == calls[p].by
      <4>1. resets[r] \in ResetRow /\ resets[r].used /\ resets[r].sets = 0
            /\ \A q \in Procs \ {p} : ~(calls[q].op = "set" /\ calls[q].by = r)
        BY <2>0, <3>1, <3>5 DEF TokensOnce, SessionTypes
      <4>2. /\ \A q \in ResetIds \ {r} : resets'[q] = resets[q]
            /\ resets'[r] \in ResetRow /\ resets'[r].used /\ resets'[r].sets = 1
        BY <2>0, <3>2, <3>5, <4>1 DEF SessionTypes, ResetRow
      <4> QED
        BY <3>3, <3>5, <4>1, <4>2 DEF TokensOnce
    <3> QED
      BY <3>4, <3>5
  <2>5. ASSUME NEW p \in Procs, NEW c, calls' = [calls EXCEPT ![p] = c],
               c.op # "set" \/ c.by \notin ResetIds, UNCHANGED resets
        PROVE  TokensOnce'
    BY <2>0, <2>1, <2>5 DEF SessionTypes
  <2>6. ASSUME NEW p \in Procs, NEW s \in Sids, IssueTokens(p, s) PROVE TokensOnce'
    BY <2>5, <2>6 DEF IssueTokens, Answer, SIdle
  <2>7. ASSUME NEW p \in Procs, NEW u \in Accounts, LoginVerify(p, u) PROVE TokensOnce'
    BY <2>5, <2>7 DEF LoginVerify, Begin
  <2>8. ASSUME NEW p \in Procs, NEW s \in Sids, RefreshRead(p, s) \/ LogoutRead(p, s) PROVE TokensOnce'
    BY <2>5, <2>8 DEF RefreshRead, LogoutRead, Begin
  <2>9. ASSUME NEW p \in Procs, NEW s \in Sids, ChangePassword(p, s) PROVE TokensOnce'
    BY <2>5, <2>9, SessionsAssumption DEF ChangePassword, BeginAs, Begin
  <2>10. ASSUME NEW p \in Procs, RotateRefresh(p) \/ RevokeMark(p) \/ RevokeAfterSet(p) \/ CallFails(p) PROVE TokensOnce'
    BY <2>5, <2>10 DEF RotateRefresh, RevokeMark, RevokeAfterSet, CallFails, Answer, SIdle
  <2>11. ASSUME NEW p \in Procs, NEW by \in Sids, NEW s \in Sids, RevokeOwned(p, by, s) PROVE TokensOnce'
    BY <2>5, <2>11 DEF RevokeOwned, BeginAs, Begin
  <2>12. ASSUME NEW p \in Procs, RefreshMarker(p) \/ RevokeRow(p) PROVE TokensOnce'
    <3>1. calls[p] \in SessionCalls /\ UNCHANGED resets
      BY <2>0, <2>12, CallKinds DEF RefreshMarker, RevokeRow
    <3>2. calls' = [calls EXCEPT ![p] = SIdle] \/ calls' = [calls EXCEPT ![p].op = "rotate"] \/ calls' = [calls EXCEPT ![p].op = "mark"]
      BY <2>12 DEF RefreshMarker, RevokeRow, Answer
    <3>3. calls'[p].op # "set" /\ \A q \in Procs \ {p} : calls'[q] = calls[q]
      BY <2>0, <3>1, <3>2 DEF SessionTypes, SessionCalls, SIdle
    <3> QED
      BY <3>1, <3>3, <2>1
  <2>13. ASSUME (\E u \in Accounts : Register(u)) \/ (\E s \in Sids : LogoutAll(s) \/ SessionExpires(s) \/ AccessExpires(s)) \/ UNCHANGED svars
         PROVE TokensOnce'
    BY <2>1, <2>13 DEF Register, LogoutAll, SessionExpires, AccessExpires, svars
  <2> QED
    BY <2>2, <2>3, <2>4, <2>6, <2>7, <2>8, <2>9, <2>10, <2>11, <2>12, <2>13 DEF SessionsNext
<1>3. TokensOnce => ResetTokenOnce
  BY DEF TokensOnce, ResetTokenOnce
<1> QED
  BY <1>1, <1>2, <1>3, SessionsInvariant, PTL DEF SessionsSpec

\* A step that keeps the password of every user, opens no session, and keeps or does what
\* was to be revoked, leaves the survivors explained.
LEMMA SurvivorsKept ==
    ASSUME SessionsInv, SurvivorsExplained, SessionsKept,
           \A u \in Accounts : users[u] # NoRow => users'[u] # NoRow /\ users'[u].password = users[u].password,
           \A q \in Sids : sessions[q] # NoRow =>
                (sessions[q].revoked => sessions'[q].revoked) /\ (sessions[q].expired => sessions'[q].expired),
           raced \subseteq raced', lostRevokes > 0 => lostRevokes' > 0,
           \A p \in Procs : calls[p].op = "revokeall" =>
                \/ calls'[p] = calls[p] \/ lostRevokes' > 0
                \/ \A q \in Sids : sessions'[q] # NoRow /\ sessions'[q].user = calls[p].user => sessions'[q].revoked
    PROVE  SurvivorsExplained'
<1> SUFFICES ASSUME NEW s \in Sids, s \in LiveSessions', s \notin raced', ~(lostRevokes' > 0),
                    sessions'[s].password # users'[sessions'[s].user].password
             PROVE  \E p \in Procs : calls'[p].op = "revokeall" /\ calls'[p].user = sessions'[s].user
  BY DEF SurvivorsExplained, LiveSessions
<1>1. /\ sessions'[s] # NoRow /\ ~sessions'[s].revoked /\ ~sessions'[s].expired
      /\ sessions[s] # NoRow /\ ~sessions[s].revoked /\ ~sessions[s].expired
      /\ sessions'[s].user = sessions[s].user /\ sessions'[s].password = sessions[s].password
  BY DEF LiveSessions, SessionsKept
<1>2. sessions[s].user \in Accounts /\ users[sessions[s].user] # NoRow
  BY <1>1 DEF SessionsInv, SessionTypes, Referenced, SessionRow
<1>3. sessions[s].password # users[sessions[s].user].password
  BY <1>1, <1>2
<1>4. PICK p \in Procs : calls[p].op = "revokeall" /\ calls[p].user = sessions[s].user
  BY <1>1, <1>3 DEF SurvivorsExplained, LiveSessions
<1> QED
  BY <1>1, <1>4

\* A session opened with an older password outlives a change of it only for one of the
\* reasons that the property names.
THEOREM PasswordChangeEnds == SessionsSpec => []SurvivorsExplained
<1>1. SessionsInit => SurvivorsExplained
  BY DEF SessionsInit, SurvivorsExplained, LiveSessions
<1>2. SessionsInv /\ SurvivorsExplained /\ [SessionsNext]_svars => SurvivorsExplained'
  <2> SUFFICES ASSUME SessionsInv, SurvivorsExplained, [SessionsNext]_svars PROVE SurvivorsExplained'
    OBVIOUS
  <2>0. SessionTypes /\ Referenced /\ SessionsInv'
    BY SessionsStep DEF SessionsInv
  <2>a. UNCHANGED sessions => SessionsKept
    BY <2>0 DEF SessionsKept, SessionTypes
  <2>b. ASSUME UNCHANGED <<users, sessions, raced, lostRevokes>>,
               UNCHANGED calls \/ \E p \in Procs : calls[p].op # "revokeall" /\ \A q \in Procs \ {p} : calls'[q] = calls[q]
        PROVE  SurvivorsExplained'
    BY <2>a, <2>b, SurvivorsKept
  <2>1. CASE UNCHANGED svars
    BY <2>1, <2>b DEF svars
  <2>2. ASSUME NEW u \in Accounts, Register(u) PROVE SurvivorsExplained'
    <3>1. users[u] = NoRow /\ \A v \in Accounts \ {u} : users'[v] = users[v]
      BY <2>0, <2>2 DEF Register, LiveIds, Insert, SessionTypes, UserRow
    <3> QED
      BY <2>2, <3>1, <2>a, SurvivorsKept DEF Register
  <2>3. ASSUME NEW p \in Procs, calls[p] = SIdle, NEW c, calls' = [calls EXCEPT ![p] = c],
               UNCHANGED <<users, sessions, raced, lostRevokes>>
        PROVE  SurvivorsExplained'
    BY <2>0, <2>3, <2>b DEF SessionTypes, SIdle
  <2>4. ASSUME NEW p \in Procs, NEW u \in Accounts, LoginVerify(p, u) PROVE SurvivorsExplained'
    BY <2>3, <2>4 DEF LoginVerify, Begin
  <2>5. ASSUME NEW p \in Procs, NEW s \in Sids, RefreshRead(p, s) \/ LogoutRead(p, s) \/ ChangePassword(p, s) PROVE SurvivorsExplained'
    BY <2>3, <2>5 DEF RefreshRead, LogoutRead, ChangePassword, BeginAs, Begin
  <2>6. ASSUME NEW p \in Procs, NEW by \in Sids, NEW s \in Sids, RevokeOwned(p, by, s) PROVE SurvivorsExplained'
    BY <2>3, <2>6 DEF RevokeOwned, BeginAs, Begin
  <2>7. ASSUME NEW p \in Procs, NEW r \in ResetIds, ResetPassword(p, r) PROVE SurvivorsExplained'
    BY <2>3, <2>7 DEF ResetPassword, Begin
  <2>8. ASSUME NEW p \in Procs, RefreshMarker(p) \/ RevokeMark(p) PROVE SurvivorsExplained'
    <3>1. calls[p].op # "revokeall" /\ \A q \in Procs \ {p} : calls'[q] = calls[q]
      BY <2>0, <2>8 DEF RefreshMarker, RevokeMark, Answer, SessionTypes
    <3> QED
      BY <2>8, <3>1, <2>b DEF RefreshMarker, RevokeMark
  <2>9. ASSUME NEW p \in Procs, RotateRefresh(p) \/ RevokeRow(p) PROVE SurvivorsExplained'
    <3>1. /\ calls[p] \in SessionCalls /\ calls[p].sid \in Sids /\ sessions[calls[p].sid] # NoRow
          /\ calls[p].op # "revokeall" /\ UNCHANGED <<users, raced, lostRevokes>>
      BY <2>0, <2>9, CallKinds DEF RotateRefresh, RevokeRow, SessionCalls, Referenced
    <3>2. \A q \in Procs \ {p} : calls'[q] = calls[q]
      BY <2>0, <2>9 DEF RotateRefresh, RevokeRow, Answer, SessionTypes
    <3>3. CASE UNCHANGED sessions
      BY <3>1, <3>2, <3>3, <2>b
    <3>4. CASE ~UNCHANGED sessions
      <4> DEFINE s == calls[p].sid
      <4>1. PICK h \in 1..MaxToken : sessions' = [sessions EXCEPT ![s].revoked = TRUE] \/ sessions' = [sessions EXCEPT ![s].hash = h]
        <5>1. CASE sessions' = [sessions EXCEPT ![s].revoked = TRUE]
          BY <2>0, <3>1, <5>1 DEF SessionTypes, SessionRow
        <5>2. CASE minted' = minted + 1 /\ minted < MaxToken /\ sessions' = [sessions EXCEPT ![s].hash = minted']
          <6>1. PICK h \in 1..MaxToken : h = minted'
            BY <2>0, <5>2, SessionsAssumption DEF SessionTypes
          <6> QED
            BY <5>2, <6>1
        <5> QED
          BY <2>9, <3>4, <5>1, <5>2 DEF RotateRefresh, RevokeRow
      <4>2. SessionsKept
        BY <2>0, <3>1, <4>1, SessionMoves
      <4>3. \A q \in Sids : sessions[q] # NoRow =>
                (sessions[q].revoked => sessions'[q].revoked) /\ (sessions[q].expired => sessions'[q].expired)
        BY <2>0, <3>1, <4>1 DEF SessionTypes, SessionRow
      <4> QED
        BY <3>1, <3>2, <4>2, <4>3, SurvivorsKept
    <3> QED
      BY <3>3, <3>4
  <2>10. ASSUME NEW q \in Sids, LogoutAll(q) PROVE SurvivorsExplained'
    <3>1. sessions[q].user \in Accounts
      BY <2>0, <2>10 DEF LogoutAll, Authenticated, ValidateAccessToken, Referenced, SessionTypes, SessionRow
    <3> QED
      BY <2>0, <2>10, <3>1, RevokeAllKeeps, SurvivorsKept DEF LogoutAll
  <2>11. ASSUME NEW p \in Procs, RevokeAfterSet(p) PROVE SurvivorsExplained'
    <3>1. calls[p].user \in Accounts
      BY <2>0, <2>11, CallKinds DEF RevokeAfterSet, PasswordCalls
    <3>2. \A q \in Sids : sessions'[q] # NoRow /\ sessions'[q].user = calls[p].user => sessions'[q].revoked
      BY <2>0, <2>11, <3>1, RevokeAllKeeps DEF RevokeAfterSet, SessionsKept
    <3>3. \A q \in Procs \ {p} : calls'[q] = calls[q]
      BY <2>0, <2>11 DEF RevokeAfterSet, Answer, SessionTypes
    <3> QED
      BY <2>0, <2>11, <3>1, <3>2, <3>3, RevokeAllKeeps, SurvivorsKept DEF RevokeAfterSet
  <2>12. ASSUME NEW q \in Sids, SessionExpires(q) PROVE SurvivorsExplained'
    <3>1. PICK h \in 1..MaxToken : TRUE
      BY <2>0, <2>12 DEF SessionExpires, SessionTypes, SessionRow
    <3>2. SessionsKept
      BY <2>0, <2>12, <3>1, SessionMoves DEF SessionExpires
    <3>3. \A s \in Sids : sessions[s] # NoRow =>
            (sessions[s].revoked => sessions'[s].revoked) /\ (sessions[s].expired => sessions'[s].expired)
      BY <2>0, <2>12 DEF SessionExpires, SessionTypes, SessionRow
    <3> QED
      BY <2>12, <3>2, <3>3, SurvivorsKept DEF SessionExpires
  <2>13. ASSUME (\E q \in Sids : AccessExpires(q)) \/ \E u \in Accounts, r \in ResetIds : RequestPasswordReset(u, r)
         PROVE SurvivorsExplained'
    BY <2>13, <2>b DEF AccessExpires, RequestPasswordReset
  <2>14. ASSUME NEW p \in Procs, CallFails(p) PROVE SurvivorsExplained'
    <3>1. calls[p].op = "revokeall" => lostRevokes' > 0
      BY <2>0, <2>14 DEF CallFails, SessionTypes
    <3>2. lostRevokes > 0 => lostRevokes' > 0
      BY <2>0, <2>14 DEF CallFails, SessionTypes
    <3>3. \A q \in Procs \ {p} : calls'[q] = calls[q]
      BY <2>0, <2>14 DEF CallFails, Answer, SessionTypes
    <3> QED
      BY <2>a, <2>14, <3>1, <3>2, <3>3, SurvivorsKept DEF CallFails
  <2>15. ASSUME NEW p \in Procs, NEW s \in Sids, IssueTokens(p, s) PROVE SurvivorsExplained'
    <3>1. /\ sessions[s] = NoRow /\ UNCHANGED <<users, lostRevokes>> /\ calls[p].op = "login"
          /\ \A q \in Sids \ {s} : sessions'[q] = sessions[q]
          /\ sessions'[s].user = calls[p].user /\ sessions'[s].password = calls[p].password
          /\ \A q \in Procs \ {p} : calls'[q] = calls[q]
          /\ raced' = IF users[calls[p].user].password # calls[p].password THEN raced \union {s} ELSE raced
      BY <2>0, <2>15 DEF IssueTokens, Insert, Answer, SessionTypes
    <3> SUFFICES ASSUME NEW q \in Sids, q \in LiveSessions', q \notin raced', ~(lostRevokes' > 0),
                        sessions'[q].password # users'[sessions'[q].user].password
                 PROVE  \E c \in Procs : calls'[c].op = "revokeall" /\ calls'[c].user = sessions'[q].user
      BY DEF SurvivorsExplained, LiveSessions
    <3>2. q # s
      BY <3>1
    <3>3. q \in LiveSessions
      BY <3>1, <3>2 DEF LiveSessions
    <3>4. PICK c \in Procs : calls[c].op = "revokeall" /\ calls[c].user = sessions[q].user
      BY <3>1, <3>2, <3>3 DEF SurvivorsExplained
    <3> QED
      BY <3>1, <3>2, <3>4
  <2>16. ASSUME NEW p \in Procs, SetPassword(p) PROVE SurvivorsExplained'
    <3>1. calls[p] \in PasswordCalls /\ calls[p].user \in Accounts
      BY <2>0, <2>16, CallKinds DEF SetPassword, PasswordCalls
    <3>2. /\ UNCHANGED <<sessions, raced, lostRevokes>> /\ calls[p].op = "set"
          /\ calls'[p].op = "revokeall" /\ calls'[p].user = calls[p].user
          /\ \A q \in Procs \ {p} : calls'[q] = calls[q]
      BY <2>0, <2>16, <3>1 DEF SetPassword, SessionTypes, PasswordCalls
    <3>3. \A v \in Accounts \ {calls[p].user} : users'[v] = users[v]
      BY <2>0, <2>16, <3>1 DEF SetPassword, Update, SessionTypes
    <3> SUFFICES ASSUME NEW q \in Sids, q \in LiveSessions', q \notin raced', ~(lostRevokes' > 0),
                        sessions'[q].password # users'[sessions'[q].user].password
                 PROVE  \E c \in Procs : calls'[c].op = "revokeall" /\ calls'[c].user = sessions'[q].user
      BY DEF SurvivorsExplained, LiveSessions
    <3>4. CASE sessions[q].user = calls[p].user
      BY <3>2, <3>4
    <3>5. CASE sessions[q].user # calls[p].user
      <4>1. q \in LiveSessions /\ sessions[q].user \in Accounts
        BY <2>0, <3>2 DEF LiveSessions, SessionTypes, SessionRow
      <4>2. PICK c \in Procs : calls[c].op = "revokeall" /\ calls[c].user = sessions[q].user
        BY <3>2, <3>3, <3>5, <4>1 DEF SurvivorsExplained
      <4> QED
        BY <3>2, <4>2
    <3> QED
      BY <3>4, <3>5
  <2> QED
    BY <2>1, <2>2, <2>4, <2>5, <2>6, <2>7, <2>8, <2>9, <2>10, <2>11, <2>12, <2>13, <2>14, <2>15, <2>16 DEF SessionsNext
<1> QED
  BY <1>1, <1>2, SessionsInvariant, PTL DEF SessionsSpec

-----------------------------------------------------------------------------
(* Members and invitations *)

MemberRows ==
    /\ org \in {"none", "live", "deleted"}
    /\ members \in [People -> MemberRow \union {NoRow}]
    /\ invites \in [InvIds -> InvitationRow \union {NoRow}]
    /\ keys \in [KeyIds -> KeyRow \union {NoRow}]

RequestRecord ==
    [op : {"idle", "addowner", "invite", "remove", "remove2", "role", "role2", "accept", "delete",
           "keycreate", "keyrotate", "keydelete"},
     user : People \union {NoRow}, role : AllRoles \union {NoRow}, grant : AllRoles \union {NoRow},
     target : People \union {NoRow}, key : KeyIds \union {NoRow}, inv : InvIds \union {NoRow},
     seen : MemberRow \union {NoRow}]

\* What a request carries, by what it is for; one that has looked at its target has seen
\* that it was no owner.
Carried(r) ==
    /\ r \in RequestRecord
    /\ r.op = "invite" => r.role \in AllRoles /\ r.grant \in AllRoles
    /\ r.op \in {"remove", "role", "remove2", "role2"} => r.target \in People
    /\ r.op \in {"remove2", "role2"} => r.seen.role # "owner"
    /\ r.op \in {"role", "role2"} => r.grant \in AllRoles
    /\ r.op = "role2" => r.grant # "owner"
    /\ r.op = "accept" => r.user \in People /\ r.inv \in InvIds
    /\ r.op \in {"keycreate", "keyrotate", "keydelete"} => r.user \in People /\ r.key \in KeyIds

Requests ==
    /\ reqs \in [Workers -> RequestRecord]
    /\ \A w \in Workers : Carried(reqs[w])
    /\ \A w \in Workers : reqs[w].op = "accept" => invites[reqs[w].inv] # NoRow

\* An invitation to be an owner is an owner's, and an invitation is used when it is accepted.
Invited ==
    \A i \in InvIds : invites[i] # NoRow =>
        /\ invites[i].role = "owner" => invites[i].inviter = "owner"
        /\ invites[i].uses = IF invites[i].state = "accepted" THEN 1 ELSE 0

\* OwnersGranted, and the invitation is still there.
OwnersTraced ==
    \A u \in People : (members[u] # NoRow /\ members[u].role = "owner") =>
        \/ members[u].from = "founder"
        \/ /\ members[u].from \in InvIds /\ invites[members[u].from] # NoRow
           /\ invites[members[u].from].role = "owner" /\ invites[members[u].from].inviter = "owner"

MembersInv == MemberRows /\ Requests /\ Invited /\ OwnersTraced

\* A request that begins, goes on or ends leaves the others; no step takes an invitation away.
LEMMA RequestSet ==
    ASSUME Requests, NEW w \in Workers, NEW r, reqs' = [reqs EXCEPT ![w] = r], Carried(r),
           r.op = "accept" => invites'[r.inv] # NoRow,
           \A i \in InvIds : invites[i] # NoRow => invites'[i] # NoRow
    PROVE  Requests' /\ reqs'[w] = r
<1>1. reqs'[w] = r /\ \A v \in Workers \ {w} : reqs'[v] = reqs[v]
  BY DEF Requests
<1>2. reqs' \in [Workers -> RequestRecord]
  BY DEF Requests, Carried
<1>3. \A v \in Workers : Carried(reqs'[v])
  BY <1>1 DEF Requests
<1>4. \A v \in Workers : reqs'[v].op = "accept" => invites'[reqs'[v].inv] # NoRow
  BY <1>1 DEF Requests, Carried
<1> QED
  BY <1>1, <1>2, <1>3, <1>4 DEF Requests

\* A worker without a request carries nothing.
LEMMA IdleFits == Carried(MIdle) /\ MIdle.op = "idle"
BY DEF Carried, MIdle, Request, RequestRecord

\* The route reads the caller's role and puts the request on its way.
LEMMA RouteFits ==
    ASSUME MembersInv, NEW w \in Workers, NEW u \in People, NEW req \in RequestRecord, OrgRoute(w, u, req),
           req.op \notin {"accept", "remove2", "role2"},
           req.op = "invite" => req.grant \in AllRoles,
           req.op \in {"remove", "role"} => req.target \in People,
           req.op = "role" => req.grant \in AllRoles,
           req.op \in {"keycreate", "keyrotate", "keydelete"} => req.key \in KeyIds
    PROVE  MembersInv'
<1> DEFINE r == [req EXCEPT !.role = members[u].role, !.user = u]
<1>1. members[u] \in MemberRow /\ members[u].role \in AllRoles /\ reqs' = [reqs EXCEPT ![w] = r]
      /\ UNCHANGED <<org, members, invites, keys>>
  BY DEF OrgRoute, IsActive, MembersInv, MemberRows, MemberRow
<1>2. r \in RequestRecord /\ r.op = req.op /\ r.grant = req.grant /\ r.target = req.target /\ r.key = req.key
      /\ r.role = members[u].role /\ r.user = u
  BY <1>1 DEF RequestRecord
<1>3. Carried(r)
  BY <1>1, <1>2 DEF Carried
<1> HIDE DEF r
<1>4. Requests'
  BY <1>1, <1>2, <1>3, RequestSet DEF MembersInv
<1> QED
  BY <1>1, <1>4 DEF MembersInv, MemberRows, Invited, OwnersTraced

\* The rows of members and the invitations are what the statements can write, and whoever
\* is an owner can be traced to the founder or to an owner's invitation.
LEMMA MembersStep ==
    ASSUME MembersInv, [MembershipNext]_mvars
    PROVE  MembersInv'
<1>0. MemberRows /\ Requests /\ Invited /\ OwnersTraced
  BY DEF MembersInv
<1>1. CASE UNCHANGED mvars
  BY <1>0, <1>1 DEF mvars, MembersInv, MemberRows, Requests, Invited, OwnersTraced
<1>2. ASSUME NEW w \in Workers, NEW r, Carried(r), r.op # "accept", reqs' = [reqs EXCEPT ![w] = r], UNCHANGED <<members, invites>>,
             org' \in {"none", "live", "deleted"}, keys' \in [KeyIds -> KeyRow \union {NoRow}]
      PROVE  MembersInv'
  <2>1. Requests'
    BY <1>0, <1>2, RequestSet
  <2> QED
    BY <1>0, <1>2, <2>1 DEF MembersInv, MemberRows, Invited, OwnersTraced
<1>3. ASSUME NEW w \in Workers, CreateOrg(w) PROVE MembersInv'
  <2>1. Carried(Request("addowner")) /\ Request("addowner").op # "accept"
    BY DEF Carried, Request, RequestRecord
  <2> QED
    BY <1>0, <1>2, <1>3, <2>1 DEF CreateOrg, MemberRows
<1>4. ASSUME NEW w \in Workers, SoftDeleteOrg(w) \/ RequestFails(w) PROVE MembersInv'
  BY <1>0, <1>2, <1>4, IdleFits DEF SoftDeleteOrg, RequestFails, MemberRows
<1>5. ASSUME NEW w \in Workers, CreateKey(w) \/ RotateKey(w) \/ DeleteKey(w) PROVE MembersInv'
  <2>1. reqs[w].user \in People /\ reqs[w].key \in KeyIds
    BY <1>0, <1>5 DEF CreateKey, RotateKey, DeleteKey, KeyPermitted, Requests, Carried
  <2>2. keys' \in [KeyIds -> KeyRow \union {NoRow}]
    <3>1. ASSUME NEW secret \in Secrets PROVE [creator |-> reqs[w].user, secret |-> secret] \in KeyRow
      BY <2>1 DEF KeyRow
    <3>2. CASE CreateKey(w)
      BY <1>0, <2>1, <3>1, <3>2 DEF CreateKey, Insert, MemberRows
    <3>3. CASE RotateKey(w)
      <4>1. CASE UNCHANGED keys
        BY <1>0, <4>1 DEF MemberRows
      <4>2. ASSUME NEW secret \in Secrets, keys[reqs[w].key] # NoRow,
                   keys' = [keys EXCEPT ![reqs[w].key].secret = secret]
            PROVE  keys' \in [KeyIds -> KeyRow \union {NoRow}]
        <5>1. [keys[reqs[w].key] EXCEPT !.secret = secret] \in KeyRow
          BY <1>0, <2>1, <4>2 DEF MemberRows, KeyRow
        <5> QED
          BY <1>0, <2>1, <4>2, <5>1 DEF MemberRows
      <4> QED
        BY <3>3, <4>1, <4>2 DEF RotateKey
    <3>4. CASE DeleteKey(w)
      BY <1>0, <2>1, <3>4 DEF DeleteKey, Delete, MemberRows
    <3> QED
      BY <1>5, <3>2, <3>3, <3>4
  <2> QED
    BY <1>0, <1>2, <1>5, <2>2, IdleFits DEF CreateKey, RotateKey, DeleteKey, MemberRows
<1>6. ASSUME NEW w \in Workers, AddOwner(w) PROVE MembersInv'
  <2>1. Requests' /\ UNCHANGED <<org, invites, keys>>
    BY <1>0, <1>6, RequestSet, IdleFits DEF AddOwner
  <2>2. members' = [members EXCEPT ![Founder] = [role |-> "owner", status |-> "active", from |-> "founder"]]
    BY <1>6 DEF AddOwner, Insert
  <2>3. members' \in [People -> MemberRow \union {NoRow}]
    BY <1>0, <2>2 DEF MemberRows, MemberRow, AllRoles
  <2>4. OwnersTraced'
    BY <1>0, <2>1, <2>2 DEF OwnersTraced, MemberRows
  <2> QED
    BY <1>0, <2>1, <2>3, <2>4 DEF MembersInv, MemberRows, Invited
<1>7. ASSUME NEW w \in Workers, NEW u \in People,
             \/ \E role \in GivenRoles : InviteMember(w, u, role)
             \/ \E t \in People : RemoveMember(w, u, t)
             \/ \E t \in People, role \in GivenRoles : UpdateMemberRole(w, u, t, role)
             \/ DeleteOrg(w, u)
             \/ \E k \in KeyIds, op \in {"keycreate", "keyrotate", "keydelete"} : KeyRequest(w, u, k, op)
      PROVE  MembersInv'
  <2> USE MembershipAssumption DEF Request, RequestRecord
  <2>1. ASSUME NEW role \in GivenRoles, InviteMember(w, u, role) PROVE MembersInv'
    <3> DEFINE req == [Request("invite") EXCEPT !.grant = role]
    <3>1. req \in RequestRecord /\ req.op = "invite" /\ req.grant \in AllRoles
      OBVIOUS
    <3> HIDE DEF req
    <3> QED
      BY <2>1, <3>1, RouteFits DEF InviteMember, req
  <2>2. ASSUME NEW t \in People, RemoveMember(w, u, t) PROVE MembersInv'
    <3> DEFINE req == [Request("remove") EXCEPT !.target = t]
    <3>1. req \in RequestRecord /\ req.op = "remove" /\ req.target \in People
      OBVIOUS
    <3> QED
      BY <2>2, <3>1, RouteFits DEF RemoveMember
  <2>3. ASSUME NEW t \in People, NEW role \in GivenRoles, UpdateMemberRole(w, u, t, role) PROVE MembersInv'
    <3> DEFINE req == [Request("role") EXCEPT !.target = t, !.grant = role]
    <3>1. req \in RequestRecord /\ req.op = "role" /\ req.target \in People /\ req.grant \in AllRoles
      OBVIOUS
    <3> QED
      BY <2>3, <3>1, RouteFits DEF UpdateMemberRole
  <2>4. ASSUME DeleteOrg(w, u) PROVE MembersInv'
    <3>1. Request("delete") \in RequestRecord /\ Request("delete").op = "delete"
      OBVIOUS
    <3> QED
      BY <2>4, <3>1, RouteFits DEF DeleteOrg
  <2>5. ASSUME NEW k \in KeyIds, NEW op \in {"keycreate", "keyrotate", "keydelete"}, KeyRequest(w, u, k, op) PROVE MembersInv'
    <3> DEFINE req == [Request(op) EXCEPT !.key = k]
    <3>1. req \in RequestRecord /\ req.op = op /\ req.key \in KeyIds
      OBVIOUS
    <3> QED
      BY <2>5, <3>1, RouteFits DEF KeyRequest
  <2> QED
    BY <1>7, <2>1, <2>2, <2>3, <2>4, <2>5
<1>8. ASSUME NEW w \in Workers, NEW i \in InvIds, Invite(w, i) PROVE MembersInv'
  <2> DEFINE row == [role |-> reqs[w].grant, inviter |-> reqs[w].role, state |-> "pending", uses |-> 0]
  <2>1. reqs[w].role \in AllRoles /\ reqs[w].grant \in AllRoles /\ invites[i] = NoRow
        /\ reqs' = [reqs EXCEPT ![w] = MIdle] /\ UNCHANGED <<org, members, keys>>
    BY <1>0, <1>8 DEF Invite, Requests, Carried
  <2>2. row \in InvitationRow
    BY <2>1 DEF InvitationRow
  <2>3. \/ UNCHANGED invites
        \/ CanManageRole(reqs[w].role, reqs[w].grant) /\ invites' = [invites EXCEPT ![i] = row]
    BY <1>8 DEF Invite, Insert
  <2>4. CASE UNCHANGED invites
    BY <1>0, <1>2, <2>1, <2>4, IdleFits DEF MemberRows
  <2>5. CASE CanManageRole(reqs[w].role, reqs[w].grant) /\ invites' = [invites EXCEPT ![i] = row]
    <3>1. invites'[i] = row /\ row # NoRow /\ \A k \in InvIds \ {i} : invites'[k] = invites[k]
      BY <1>0, <2>2, <2>5, MembershipAssumption DEF MemberRows
    <3>2. Requests'
      BY <1>0, <2>1, <3>1, RequestSet, IdleFits
    <3>3. row.role = "owner" => row.inviter = "owner"
      BY <2>5 DEF CanManageRole
    <3>4. Invited'
      BY <1>0, <3>1, <3>3 DEF Invited
    <3>5. OwnersTraced'
      BY <1>0, <2>1, <3>1 DEF OwnersTraced
    <3> HIDE DEF row
    <3>6. MemberRows'
      BY <1>0, <2>1, <2>2, <2>5 DEF MemberRows
    <3> QED
      BY <3>2, <3>4, <3>5, <3>6 DEF MembersInv
  <2> QED
    BY <2>3, <2>4, <2>5
<1>9. ASSUME NEW w \in Workers, NEW u \in People, NEW i \in InvIds, AcceptRead(w, u, i) PROVE MembersInv'
  <2> DEFINE r == [Request("accept") EXCEPT !.user = u, !.inv = i]
  <2>1. reqs' = [reqs EXCEPT ![w] = r] /\ invites[i] # NoRow /\ UNCHANGED <<org, members, invites, keys>>
    BY <1>9 DEF AcceptRead
  <2>2. Carried(r) /\ r.inv = i
    BY DEF Carried, Request, RequestRecord
  <2> HIDE DEF r
  <2>3. Requests'
    BY <1>0, <2>1, <2>2, RequestSet
  <2> QED
    BY <1>0, <2>1, <2>3 DEF MembersInv, MemberRows, Invited, OwnersTraced
<1>10. ASSUME NEW w \in Workers, AcceptInvitation(w) PROVE MembersInv'
  <2> DEFINE i == reqs[w].inv
             row == [role |-> invites[i].role, status |-> "active", from |-> i]
             used == [invites[i] EXCEPT !.state = "accepted", !.uses = @ + 1]
  <2>1. i \in InvIds /\ reqs[w].user \in People /\ invites[i] # NoRow /\ invites[i] \in InvitationRow
        /\ reqs' = [reqs EXCEPT ![w] = MIdle] /\ UNCHANGED <<org, keys>>
    BY <1>0, <1>10 DEF AcceptInvitation, Requests, Carried, MemberRows
  <2>2. \/ UNCHANGED <<members, invites>>
        \/ /\ invites[i].state # "accepted"
           /\ invites' = [invites EXCEPT ![i].state = "accepted", ![i].uses = @ + 1]
           /\ members' = [members EXCEPT ![reqs[w].user] = row]
    BY <1>10 DEF AcceptInvitation, ClaimInvitation, Insert
  <2>3. CASE UNCHANGED <<members, invites>>
    BY <1>0, <1>2, <2>1, <2>3, IdleFits DEF MemberRows
  <2>4. CASE /\ invites[i].state # "accepted"
             /\ invites' = [invites EXCEPT ![i].state = "accepted", ![i].uses = @ + 1]
             /\ members' = [members EXCEPT ![reqs[w].user] = row]
    <3>1. /\ invites' \in [InvIds -> InvitationRow \union {NoRow}]
          /\ invites'[i] \in InvitationRow /\ invites'[i].state = "accepted" /\ invites'[i].uses = invites[i].uses + 1
          /\ invites'[i].role = invites[i].role /\ invites'[i].inviter = invites[i].inviter
          /\ \A k \in InvIds \ {i} : invites'[k] = invites[k]
      BY <1>0, <2>1, <2>4 DEF MemberRows, InvitationRow
    <3>2. invites[i].uses = 0
      BY <1>0, <2>1, <2>4 DEF Invited
    <3>3. row \in MemberRow
      BY <2>1 DEF InvitationRow, MemberRow
    <3>4. /\ members' \in [People -> MemberRow \union {NoRow}] /\ members'[reqs[w].user] = row
          /\ \A u \in People \ {reqs[w].user} : members'[u] = members[u]
      BY <1>0, <2>1, <2>4, <3>3 DEF MemberRows
    <3>5. \A k \in InvIds : invites[k] # NoRow =>
            invites'[k] # NoRow /\ invites'[k].role = invites[k].role /\ invites'[k].inviter = invites[k].inviter
      BY <3>1, MembershipAssumption
    <3>6. Requests'
      BY <1>0, <2>1, <3>5, RequestSet, IdleFits
    <3>7. Invited'
      BY <1>0, <2>1, <3>1, <3>2 DEF Invited
    <3>8. OwnersTraced'
      <4> SUFFICES ASSUME NEW u \in People, members'[u] # NoRow, members'[u].role = "owner"
                   PROVE  \/ members'[u].from = "founder"
                          \/ /\ members'[u].from \in InvIds /\ invites'[members'[u].from] # NoRow
                             /\ invites'[members'[u].from].role = "owner" /\ invites'[members'[u].from].inviter = "owner"
        BY DEF OwnersTraced
      <4>1. CASE u = reqs[w].user
        <5>1. members'[u].from = i /\ invites[i].role = "owner"
          BY <3>4, <4>1
        <5>2. invites[i].inviter = "owner"
          BY <1>0, <2>1, <5>1 DEF Invited
        <5> QED
          BY <2>1, <3>5, <5>1, <5>2
      <4>2. CASE u # reqs[w].user
        BY <1>0, <3>4, <3>5, <4>2 DEF OwnersTraced
      <4> QED
        BY <4>1, <4>2
    <3> QED
      BY <1>0, <2>1, <3>1, <3>4, <3>6, <3>7, <3>8 DEF MembersInv, MemberRows
  <2> QED
    BY <2>2, <2>3, <2>4
<1>11. ASSUME NEW i \in InvIds, InvitationExpires(i) PROVE MembersInv'
  <2>1. /\ invites' \in [InvIds -> InvitationRow \union {NoRow}]
        /\ \A k \in InvIds : invites[k] = NoRow => invites'[k] = NoRow
        /\ \A k \in InvIds : invites[k] # NoRow =>
            /\ invites'[k] # NoRow /\ invites'[k].role = invites[k].role /\ invites'[k].inviter = invites[k].inviter
            /\ invites'[k].uses = invites[k].uses /\ (invites'[k].state = "accepted" <=> invites[k].state = "accepted")
    BY <1>0, <1>11, MembershipAssumption DEF InvitationExpires, MemberRows, InvitationRow
  <2>2. UNCHANGED <<org, members, keys, reqs>>
    BY <1>11 DEF InvitationExpires
  <2>3. Requests'
    BY <1>0, <2>1, <2>2 DEF Requests, Carried
  <2>4. Invited'
    BY <1>0, <2>1 DEF Invited
  <2>5. OwnersTraced'
    BY <1>0, <2>1, <2>2 DEF OwnersTraced
  <2> QED
    BY <1>0, <2>1, <2>2, <2>3, <2>4, <2>5 DEF MembersInv, MemberRows
<1>12. ASSUME NEW w \in Workers, CheckTarget(w) PROVE MembersInv'
  <2>1. CASE reqs' = [reqs EXCEPT ![w] = MIdle]
    BY <1>0, <1>2, <1>12, <2>1, IdleFits DEF CheckTarget, MemberRows
  <2>2. CASE /\ IF reqs[w].op = "remove" THEN Removable(w) ELSE RoleAssignable(w)
             /\ reqs' = [reqs EXCEPT ![w].op = IF @ = "remove" THEN "remove2" ELSE "role2",
                                     ![w].seen = members[reqs[w].target]]
    <3> DEFINE o == IF reqs[w].op = "remove" THEN "remove2" ELSE "role2"
               r == [reqs[w] EXCEPT !.op = o, !.seen = members[reqs[w].target]]
    <3>1. reqs[w] \in RequestRecord /\ Carried(reqs[w]) /\ reqs[w].op \in {"remove", "role"}
          /\ UNCHANGED <<org, members, invites, keys>>
      BY <1>0, <1>12 DEF CheckTarget, Requests
    <3>2. reqs[w].target \in People /\ members[reqs[w].target] \in MemberRow /\ members[reqs[w].target].role # "owner"
      BY <1>0, <2>2, <3>1 DEF Carried, Removable, RoleAssignable, IsActive, MemberRows
    <3>3. reqs' = [reqs EXCEPT ![w] = r]
      BY <1>0, <2>2 DEF Requests
    <3>4. r \in RequestRecord /\ r.op = o /\ r.seen = members[reqs[w].target]
          /\ r.target = reqs[w].target /\ r.grant = reqs[w].grant
      BY <3>1, <3>2, ZenonT(60) DEF RequestRecord
    <3>5. o = "role2" => reqs[w].grant \in AllRoles /\ reqs[w].grant # "owner"
      BY <2>2, <3>1 DEF Carried, RoleAssignable
    <3>6. Carried(r) /\ r.op # "accept"
      BY <3>1, <3>2, <3>4, <3>5 DEF Carried
    <3> HIDE DEF r, o
    <3> QED
      BY <1>0, <1>2, <3>1, <3>3, <3>6 DEF MemberRows
  <2> QED
    BY <1>12, <2>1, <2>2 DEF CheckTarget
<1>13. ASSUME NEW w \in Workers, RemoveRow(w) \/ UpdateRole(w) PROVE MembersInv'
  <2> DEFINE t == reqs[w].target
  <2>1. t \in People /\ reqs' = [reqs EXCEPT ![w] = MIdle] /\ UNCHANGED <<org, invites, keys>>
        /\ (reqs[w].op = "role2" => reqs[w].grant \in AllRoles /\ reqs[w].grant # "owner")
    BY <1>0, <1>13 DEF RemoveRow, UpdateRole, Requests, Carried
  <2>2. Requests'
    BY <1>0, <2>1, RequestSet, IdleFits
  <2>3. \/ UNCHANGED members
        \/ members[t] # NoRow /\ members' = [members EXCEPT ![t].status = "removed"]
        \/ members[t] # NoRow /\ reqs[w].op = "role2" /\ members' = [members EXCEPT ![t].role = reqs[w].grant]
    BY <1>13 DEF RemoveRow, UpdateRole, IsActive
  <2>4. /\ members' \in [People -> MemberRow \union {NoRow}]
        /\ \A u \in People \ {t} : members'[u] = members[u]
        /\ \/ members'[t] = members[t]
           \/ /\ members[t] # NoRow /\ members'[t].from = members[t].from
              /\ members'[t].role = members[t].role \/ members'[t].role # "owner"
    BY <1>0, <2>1, <2>3 DEF MemberRows, MemberRow
  <2>5. OwnersTraced'
    BY <1>0, <2>1, <2>4 DEF OwnersTraced
  <2> QED
    BY <1>0, <2>1, <2>2, <2>4, <2>5 DEF MembersInv, MemberRows, Invited
<1> QED
  BY <1>1, <1>3, <1>4, <1>5, <1>6, <1>7, <1>8, <1>9, <1>10, <1>11, <1>12, <1>13 DEF MembershipNext

\* The inductive invariant of the organization: typed rows, requests that carry what their
\* operation needs, invitations used at most once, and owners traced to the founder or an owner.
THEOREM MembersInvariant == MembershipSpec => []MembersInv
<1>1. MembershipInit => MembersInv
  BY IdleFits DEF MembershipInit, MembersInv, MemberRows, Requests, Carried, Invited, OwnersTraced
<1>2. MembersInv /\ [MembershipNext]_mvars => MembersInv'
  BY MembersStep
<1> QED
  BY <1>1, <1>2, PTL DEF MembershipSpec

\* The rows of the organization, its members, invitations and keys are well typed.
THEOREM MembershipTyped == MembershipSpec => []MembershipTypeOK
<1>1. MembersInv => MembershipTypeOK
  BY DEF MembersInv, MemberRows, MembershipTypeOK
<1> QED
  BY <1>1, MembersInvariant, PTL

\* No chain of invitations, role changes and removals by others than owners makes an owner.
THEOREM OwnersTrace == MembershipSpec => []OwnersGranted
<1>1. MembersInv => OwnersGranted
  BY DEF MembersInv, OwnersTraced, OwnersGranted
<1> QED
  BY <1>1, MembersInvariant, PTL

\* An invitation makes one membership, however many requests take it up at once.
THEOREM InvitationsOnce == MembershipSpec => []InvitationOnce
<1>1. MembersInv => InvitationOnce
  BY DEF MembersInv, Invited, InvitationOnce
<1> QED
  BY <1>1, MembersInvariant, PTL

\* An owner falls only by an invitation it takes up, or by a removal or role change whose
\* check is older than its ownership.
THEOREM OwnersFall == MembershipSpec => OwnerFallsOnlyToRace
<1> DEFINE Raced ==
      \A u \in People :
        (members[u] # NoRow /\ members[u].role = "owner" /\ members[u].status = "active"
            /\ (members'[u].role # "owner" \/ members'[u].status # "active"))
        => \E w \in Workers :
            /\ reqs[w] # MIdle /\ reqs'[w] = MIdle
            /\ \/ reqs[w].op = "accept" /\ reqs[w].user = u
               \/ reqs[w].op \in {"remove2", "role2"} /\ reqs[w].target = u /\ reqs[w].seen.role # "owner"
<1>1. ASSUME MembersInv, [MembershipNext]_mvars PROVE Raced
  <2> SUFFICES ASSUME NEW u \in People, members[u] # NoRow, members[u].role = "owner", members[u].status = "active",
                      members'[u].role # "owner" \/ members'[u].status # "active"
               PROVE  \E w \in Workers :
                        /\ reqs[w] # MIdle /\ reqs'[w] = MIdle
                        /\ \/ reqs[w].op = "accept" /\ reqs[w].user = u
                           \/ reqs[w].op \in {"remove2", "role2"} /\ reqs[w].target = u /\ reqs[w].seen.role # "owner"
    OBVIOUS
  <2>0. MemberRows /\ Requests /\ members'[u] # members[u]
    BY <1>1 DEF MembersInv
  <2>1. ASSUME NEW w \in Workers, AcceptInvitation(w) \/ RemoveRow(w) \/ UpdateRole(w)
        PROVE  /\ reqs[w] # MIdle /\ reqs'[w] = MIdle
               /\ \/ reqs[w].op = "accept" /\ reqs[w].user = u
                  \/ reqs[w].op \in {"remove2", "role2"} /\ reqs[w].target = u /\ reqs[w].seen.role # "owner"
    <3>1. reqs[w].op \in {"accept", "remove2", "role2"} /\ reqs' = [reqs EXCEPT ![w] = MIdle]
      BY <2>1 DEF AcceptInvitation, RemoveRow, UpdateRole
    <3>2. reqs[w] # MIdle /\ reqs'[w] = MIdle
      BY <2>0, <3>1, IdleFits DEF Requests
    <3>3. reqs[w].op = "accept" => reqs[w].user = u
      BY <2>0, <2>1 DEF AcceptInvitation, RemoveRow, UpdateRole, Insert, MemberRows
    <3>4. reqs[w].op \in {"remove2", "role2"} => reqs[w].target = u
      BY <2>0, <2>1 DEF AcceptInvitation, RemoveRow, UpdateRole, MemberRows
    <3> QED
      BY <2>0, <3>1, <3>2, <3>3, <3>4 DEF Requests, Carried
  <2>2. ASSUME NEW w \in Workers, AddOwner(w) PROVE FALSE
    BY <2>0, <2>2, MembershipAssumption DEF AddOwner, Insert, MemberRows
  <2>3. ASSUME NEW w \in Workers,
               \/ CreateOrg(w) \/ CheckTarget(w) \/ SoftDeleteOrg(w) \/ CreateKey(w) \/ RotateKey(w) \/ DeleteKey(w) \/ RequestFails(w)
               \/ \E i \in InvIds : Invite(w, i) \/ InvitationExpires(i) \/ \E v \in People : AcceptRead(w, v, i)
               \/ \E v \in People : \E q : OrgRoute(w, v, q)
        PROVE  FALSE
    BY <2>0, <2>3 DEF CreateOrg, CheckTarget, SoftDeleteOrg, CreateKey, RotateKey, DeleteKey, RequestFails, Invite,
        InvitationExpires, AcceptRead, OrgRoute
  <2>4. ~UNCHANGED mvars
    BY <2>0 DEF mvars
  <2> QED
    BY <1>1, <2>1, <2>2, <2>3, <2>4 DEF MembershipNext, InviteMember, RemoveMember, UpdateMemberRole, DeleteOrg, KeyRequest
<1>2. MembersInv /\ [MembershipNext]_mvars => [Raced]_mvars
  BY <1>1
<1> QED
  BY <1>2, MembersInvariant, PTL DEF MembershipSpec, OwnerFallsOnlyToRace
=============================================================================
