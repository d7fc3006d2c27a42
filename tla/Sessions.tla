------------------------------ MODULE Sessions ------------------------------
(***************************************************************************)
(* One user's sign-in sessions: apps/auth (auth.service.ts, auth.routes.ts), *)
(* the revocation check every service runs (packages/db/src/queries/auth.ts),*)
(* the admin API's switch on an account and the browser side (auth-client.ts,*)
(* api-client.ts).  A browser has one cookie jar, which its tabs share; a tab *)
(* runs one call at a time, so three tabs also stand for one tab with several *)
(* calls that got a 401.  Requests and answers of different tabs overtake     *)
(* each other, are late or get lost.                                          *)
(*                                                                            *)
(* A refresh token is <<session, n>>, the n-th one of its session, an access  *)
(* token <<session, token_version>>.  Every change of the password comes with *)
(* a new token_version, which stands for it.  Time is there as the 30 s of    *)
(* grace after a rotation (`aged`: they are over) and as what expires.        *)
(***************************************************************************)
EXTENDS Naturals, FiniteSets

CONSTANTS Sessions,    \* ids that auth_sessions rows can take
          Browsers,    \* cookie jars
          Tabs,
          BrowserOf,   \* the jar a tab uses, of each tab
          Links,       \* password reset emails
          MaxMoves     \* bound: users' calls, expiries of cookies and sessions, failures

\* What a configuration must give them.
SessionsParameters == IsFiniteSet(Tabs) /\ BrowserOf \in [Tabs -> Browsers] /\ MaxMoves \in Nat

VARIABLES
  user,    \* the users row: status, token_version
  row,     \* the auth_sessions rows
  link,    \* the auth_email_tokens rows of type recovery
  jar,     \* what each browser's cookies hold
  call,    \* what each tab is waiting for, and how far the server is with it
  left,    \* moves left
  \* history
  made,    \* the token_version a session's sign-in was checked against
  spared,  \* sessions a change of password meant, or was unable, to leave alone
  lapsed,  \* sessions whose grace ended before the newest token reached the browser
  reused,  \* sessions that reuse detection has fired for
  resets   \* how many times a link has set the password

svars == <<user, row, link, jar, call, left, made, spared, lapsed, reused, resets>>
history == <<made, spared, lapsed, reused, resets>>

None == <<>>
Refresh(s, n) == <<s, n>>
Access(s, v) == <<s, v>>

NoRow == [status |-> "absent", current |-> 0, previous |-> 0, aged |-> FALSE]
\* `aged` says nothing of a session that was never rotated.
NewRow == [status |-> "live", current |-> 1, previous |-> 0, aged |-> TRUE]
Empty == [refresh |-> None, access |-> None]
Idle == [op |-> "none", step |-> "idle", refresh |-> None, access |-> None,
         version |-> 0, link |-> None]
Calls == {"none", "ask", "refresh", "login", "logout", "change", "reset"}
Steps == {"idle", "sent", "unauthorized", "lookup", "issue", "reuse", "insert", "write", "sweep",
          "answer", "refused", "failed"}

SessionsTypeOK ==
  /\ user \in [status : {"active", "disabled"}, version : 1 .. MaxMoves + 1]
  /\ row \in [Sessions -> [status : {"absent", "live", "expired", "revoked"}, current : Nat,
                           previous : Nat, aged : BOOLEAN]]
  /\ \A s \in Sessions : row[s].status # "absent" => row[s].previous + 1 = row[s].current
  /\ link \in [Links -> {"unsent", "valid", "spent"}]
  /\ \A b \in Browsers : \/ jar[b].refresh = None
                         \/ \E s \in Sessions : \E n \in 1 .. row[s].current : jar[b].refresh = Refresh(s, n)
  /\ \A t \in Tabs : /\ call[t].op \in Calls /\ call[t].step \in Steps
                     /\ call[t].step = "idle" <=> call[t] = Idle
  /\ left \in 0 .. MaxMoves

\* One browser is signed in; the others are not.
SessionsInit ==
  /\ user = [status |-> "active", version |-> 1]
  /\ \E s \in Sessions, b \in Browsers :
       /\ row = [[x \in Sessions |-> NoRow] EXCEPT ![s] = NewRow]
       /\ jar = [[x \in Browsers |-> Empty] EXCEPT ![b] = [refresh |-> Refresh(s, 1), access |-> Access(s, 1)]]
  /\ link = [l \in Links |-> "unsent"]
  /\ call = [t \in Tabs |-> Idle]
  /\ left = MaxMoves
  /\ made = [s \in Sessions |-> 1] /\ spared = {} /\ lapsed = {} /\ reused = {}
  /\ resets = [l \in Links |-> 0]

-----------------------------------------------------------------------------
Move == left > 0 /\ left' = left - 1
At(t, op, step) == call[t].op = op /\ call[t].step = step
Goes(t, c) == call' = [call EXCEPT ![t] = c]
To(t, step) == Goes(t, [call[t] EXCEPT !.step = step])
Jar(t) == jar[BrowserOf[t]]

\* isAccessRevoked, and requireAuth around it.
Honoured(token) ==
  /\ token # None
  /\ row[token[1]].status = "live"
  /\ user.status = "active" /\ user.version = token[2]

\* UPDATE auth_sessions SET revoked_at ... WHERE revoked_at IS NULL, for the sessions of S.
Revoke(S) ==
  row' = [s \in Sessions |->
            IF s \in S /\ row[s].status \in {"live", "expired"} THEN [row[s] EXCEPT !.status = "revoked"] ELSE row[s]]

-----------------------------------------------------------------------------
(* A tab asks for something and, on a 401, refreshes: api-client.ts, auth-client.ts *)

\* The cookie of the moment is not honoured; the 401 may be late.
Ask(t) ==
  /\ call[t] = Idle /\ ~Honoured(Jar(t).access)
  /\ Goes(t, [Idle EXCEPT !.op = "ask", !.step = "unauthorized"])
  /\ UNCHANGED <<user, row, link, jar, left, history>>
\* refreshSession: the request takes the cookie the jar holds now.
RefreshSession(t) ==
  /\ At(t, "ask", "unauthorized")
  /\ Goes(t, IF Jar(t).refresh = None THEN Idle
             ELSE [Idle EXCEPT !.op = "refresh", !.step = "sent", !.refresh = Jar(t).refresh])
  /\ UNCHANGED <<user, row, link, jar, left, history>>

-----------------------------------------------------------------------------
(* AuthService.refresh *)

\* The atomic rotation: it matches the current token of a session that is not over.
RotatesOldToo(token) == row[token[1]].status = "live" /\ token[2] \in {row[token[1]].current, row[token[1]].previous}
Rotates(token) == row[token[1]].status = "live" /\ row[token[1]].current = token[2]
RotatedRowForgets(r) == [r EXCEPT !.current = @ + 1, !.aged = FALSE]
RotatedRow(r) == [r EXCEPT !.current = @ + 1, !.previous = r.current, !.aged = FALSE]
Rotate(t) ==
  /\ At(t, "refresh", "sent")
  /\ LET token == call[t].refresh
         s == token[1]
     IN IF Rotates(token)
        THEN /\ row' = [row EXCEPT ![s] = RotatedRow(@)]
             /\ Goes(t, [call[t] EXCEPT !.step = "issue", !.refresh = Refresh(s, row[s].current + 1)])
        ELSE To(t, "lookup") /\ UNCHANGED row
  /\ UNCHANGED <<user, link, jar, left, history>>

\* Not current.  Was it the previous one?  Within the grace the tab gets an access token only.
InGrace(token) == row[token[1]].previous = token[2] /\ ~row[token[1]].aged
Verdict(token) ==
  IF row[token[1]].previous # token[2] \/ row[token[1]].status = "revoked" THEN "refused"
  ELSE IF InGrace(token) THEN "issue" ELSE "reuse"
LookUp(t) ==
  /\ At(t, "refresh", "lookup")
  /\ Goes(t, IF Verdict(call[t].refresh) = "issue"
             THEN [call[t] EXCEPT !.step = "issue", !.access = Access(call[t].refresh[1], 0)]
             ELSE [call[t] EXCEPT !.step = Verdict(call[t].refresh)])
  /\ UNCHANGED <<user, row, link, jar, left, history>>
\* activeUser and signAccess.  A refresh within the grace sends no refresh token.
Issue(t) ==
  /\ At(t, "refresh", "issue")
  /\ LET s == call[t].refresh[1]
     IN Goes(t, IF user.status # "active" THEN [call[t] EXCEPT !.step = "failed"]
                ELSE [call[t] EXCEPT !.step = "answer", !.access = Access(s, user.version),
                                     !.refresh = IF call[t].access = None THEN @ ELSE None])
  /\ UNCHANGED <<user, row, link, jar, left, history>>
DetectReuse(t) ==
  /\ At(t, "refresh", "reuse")
  /\ Revoke(Sessions)
  /\ reused' = reused \cup {call[t].refresh[1]}
  /\ To(t, "refused")
  /\ UNCHANGED <<user, link, jar, left, made, spared, lapsed, resets>>

-----------------------------------------------------------------------------
(* Signing in and out *)

\* login has read the row and verified the password; Google's sign-in has read it too.
Login(t) ==
  /\ call[t] = Idle /\ user.status = "active" /\ Move
  /\ Goes(t, [Idle EXCEPT !.op = "login", !.step = "insert", !.version = user.version])
  /\ UNCHANGED <<user, row, link, jar, history>>
\* createSession, with the user as it was read.
CreateSession(t) ==
  /\ At(t, "login", "insert")
  /\ \E s \in Sessions :
       /\ row[s].status = "absent"
       /\ row' = [row EXCEPT ![s] = NewRow]
       /\ made' = [made EXCEPT ![s] = call[t].version]
       /\ spared' = IF call[t].version < user.version THEN spared \cup {s} ELSE spared
       /\ Goes(t, [call[t] EXCEPT !.step = "answer", !.refresh = Refresh(s, 1),
                                  !.access = Access(s, call[t].version)])
  /\ UNCHANGED <<user, link, jar, left, lapsed, reused, resets>>

\* logout ends the session that the access cookie names, if the cookie is still there.
Logout(t) ==
  /\ call[t] = Idle /\ Jar(t).refresh # None /\ Move
  /\ Goes(t, [Idle EXCEPT !.op = "logout", !.step = "sent", !.access = Jar(t).access])
  /\ UNCHANGED <<user, row, link, jar, history>>
EndSession(t) ==
  /\ At(t, "logout", "sent")
  /\ Revoke(IF call[t].access = None THEN {} ELSE {call[t].access[1]})
  /\ To(t, "answer")
  /\ UNCHANGED <<user, link, jar, left, history>>

\* revokeSession, from the list of sessions.
RevokeSession(t) ==
  /\ call[t] = Idle /\ Honoured(Jar(t).access) /\ Move
  /\ \E s \in Sessions : row[s].status \in {"live", "expired"} /\ Revoke({s})
  /\ UNCHANGED <<user, link, jar, call, history>>

-----------------------------------------------------------------------------
(* The password and the account *)

\* requestEmailToken("recovery").
RequestRecovery ==
  /\ user.status = "active" /\ Move
  /\ \E l \in Links : link[l] = "unsent" /\ link' = [link EXCEPT ![l] = "valid"]
  /\ UNCHANGED <<user, row, jar, call, history>>
\* confirmRecovery: consumeEmailToken, the new password, revokeAllSessions.
Consume(l) == link[l] = "valid" /\ link' = [link EXCEPT ![l] = "spent"]
ConfirmRecovery(t) ==
  /\ call[t] = Idle /\ Move
  /\ \E l \in Links : Consume(l) /\ Goes(t, [Idle EXCEPT !.op = "reset", !.step = "write", !.link = l])
  /\ UNCHANGED <<user, row, jar, history>>
\* changePassword: activeUser and the current password.
ChangePassword(t) ==
  /\ call[t] = Idle /\ Honoured(Jar(t).access) /\ Move
  /\ Goes(t, [Idle EXCEPT !.op = "change", !.step = "write", !.access = Jar(t).access])
  /\ UNCHANGED <<user, row, link, jar, history>>
\* UPDATE users SET password_hash, token_version = token_version + 1.
WritePassword(t) ==
  /\ call[t].op \in {"change", "reset"} /\ call[t].step = "write"
  /\ user' = [user EXCEPT !.version = @ + 1]
  /\ Goes(t, [call[t] EXCEPT !.step = "sweep", !.version = user.version + 1])
  /\ spared' = IF call[t].op = "change" THEN spared \cup {call[t].access[1]} ELSE spared
  /\ resets' = IF call[t].op = "reset" THEN [resets EXCEPT ![call[t].link] = @ + 1] ELSE resets
  /\ UNCHANGED <<row, link, jar, left, made, lapsed, reused>>
\* A reset ends every session, a change all but the one it came from.
SweptOnChange(t) == IF call[t].op = "change" THEN Sessions \ {call[t].access[1]} ELSE {}
Swept(t) == IF call[t].op = "change" THEN Sessions \ {call[t].access[1]} ELSE Sessions
RevokeOthers(t) ==
  /\ call[t].op \in {"change", "reset"} /\ call[t].step = "sweep"
  /\ Revoke(Swept(t))
  /\ Goes(t, [call[t] EXCEPT !.step = "answer",
                             !.access = IF @ = None THEN None ELSE Access(@[1], call[t].version)])
  /\ UNCHANGED <<user, link, jar, left, history>>

\* admin.service updateUser, one transaction.
Disable ==
  /\ user.status = "active" /\ Move
  /\ user' = [user EXCEPT !.status = "disabled", !.version = @ + 1]
  /\ Revoke(Sessions)
  /\ UNCHANGED <<link, jar, call, history>>
Enable ==
  /\ user.status = "disabled" /\ Move
  /\ user' = [user EXCEPT !.status = "active"]
  /\ UNCHANGED <<row, link, jar, call, history>>

-----------------------------------------------------------------------------
(* The answer, the clock and what goes wrong *)

\* setSessionCookies or clearSessionCookies, once the answer is there.
Cookies(j, c) ==
  IF c.step \in {"refused", "failed"} \/ c.op = "logout" THEN Empty
  ELSE [refresh |-> IF c.op \in {"login", "refresh"} /\ c.refresh # None THEN c.refresh ELSE j.refresh,
        access |-> IF c.access # None THEN c.access ELSE j.access]
Answered(t) == call[t].step \in {"answer", "refused", "failed"}
Arrive(t) ==
  /\ Answered(t)
  /\ jar' = [jar EXCEPT ![BrowserOf[t]] = Cookies(@, call[t])]
  /\ Goes(t, Idle)
  /\ UNCHANGED <<user, row, link, left, history>>
AnswerLost(t) ==
  /\ Answered(t) /\ Move
  /\ Goes(t, Idle)
  /\ UNCHANGED <<user, row, link, jar, history>>
\* The service dies, or a statement of it fails: then /refresh also clears the cookies.
Fails(t) ==
  /\ call[t].step \in {"sent", "lookup", "issue", "reuse", "insert", "write", "sweep"}
  /\ Move
  /\ \/ Goes(t, Idle)
     \/ call[t].op = "refresh" /\ To(t, "failed")
  /\ spared' = IF call[t].step = "sweep" THEN spared \cup {s \in Sessions : row[s].status # "absent"} ELSE spared
  /\ UNCHANGED <<user, row, link, jar, made, lapsed, reused, resets>>

\* The newest token of s has not reached its browser, or an older one is on its way to the server.
Behind(s) ==
  \/ \E b \in Browsers : jar[b].refresh = Refresh(s, row[s].previous)
  \/ \E t \in Tabs : call[t].op = "refresh" /\ call[t].refresh = Refresh(s, row[s].previous)
GraceEnds ==
  /\ \E s \in Sessions :
       /\ row[s].status # "absent" /\ ~row[s].aged
       /\ row' = [row EXCEPT ![s].aged = TRUE]
       /\ lapsed' = IF Behind(s) THEN lapsed \cup {s} ELSE lapsed
  /\ UNCHANGED <<user, link, jar, call, left, made, spared, reused, resets>>
AccessExpires ==
  /\ Move
  /\ \E b \in Browsers : jar[b].access # None /\ jar' = [jar EXCEPT ![b].access = None]
  /\ UNCHANGED <<user, row, link, call, history>>
SessionExpires ==
  /\ Move
  /\ \E s \in Sessions : row[s].status = "live" /\ row[s].aged /\ row' = [row EXCEPT ![s].status = "expired"]
  /\ UNCHANGED <<user, link, jar, call, history>>
LinkExpires ==
  /\ Move
  /\ \E l \in Links : link[l] = "valid" /\ link' = [link EXCEPT ![l] = "spent"]
  /\ UNCHANGED <<user, row, jar, call, history>>

-----------------------------------------------------------------------------
TabStep(t) ==
  \/ Ask(t) \/ RefreshSession(t)
  \/ Rotate(t) \/ LookUp(t) \/ Issue(t) \/ DetectReuse(t)
  \/ Login(t) \/ CreateSession(t) \/ Logout(t) \/ EndSession(t) \/ RevokeSession(t)
  \/ ConfirmRecovery(t) \/ ChangePassword(t) \/ WritePassword(t) \/ RevokeOthers(t)
  \/ Arrive(t) \/ AnswerLost(t) \/ Fails(t)
SessionsNext ==
  \/ \E t \in Tabs : TabStep(t)
  \/ RequestRecovery \/ Disable \/ Enable
  \/ GraceEnds \/ AccessExpires \/ SessionExpires \/ LinkExpires
Spec == SessionsInit /\ [][SessionsNext]_svars

-----------------------------------------------------------------------------
\* Reuse detection signs the user out everywhere only when, 30 s after a rotation, the browser
\* still had the token rotated out or was still presenting it (auth.service.ts, refresh).
ReuseMeansLapse == reused \subseteq lapsed

\* Once the password was changed or reset, or the account disabled, no session of a sign-in
\* checked before lives on, but the one that changed the password, one whose sign-in was
\* half-way at that moment, and those of a change that stopped before its second statement.
SignedOutEverywhere ==
  \A s \in Sessions :
    row[s].status = "live" /\ made[s] < user.version =>
      s \in spared \/ \E t \in Tabs : call[t].step = "sweep"

\* A reset link sets the password once, however often it is submitted (consumeEmailToken).
LinkResetsOnce == \A l \in Links : resets[l] <= 1

\* Answers that overtake each other never put an older refresh token of the same session
\* back into the jar (refresh: one rotation per token).
JarStep ==
  \A b \in Browsers :
    jar[b].refresh # None /\ jar'[b].refresh # None /\ jar[b].refresh[1] = jar'[b].refresh[1]
      => jar[b].refresh[2] <= jar'[b].refresh[2]
JarNeverGoesBack == [][JarStep]_svars

\* A refusal takes the refresh token of a live session out of a jar only if it answers a
\* request about another session or a token that has been rotated out twice (a failed
\* statement and a disabled account apart): tabs that merely refresh at the same time keep
\* the user signed in.
RefusalStep ==
  \A t \in Tabs :
    LET b == BrowserOf[t]
        token == jar[b].refresh
    IN At(t, "refresh", "refused") /\ jar'[b].refresh = None /\ token # None
         /\ user.status = "active" /\ row[token[1]].status = "live"
       => call[t].refresh[1] # token[1] \/ call[t].refresh[2] < row[token[1]].previous
RefusalSparesLiveSession == [][RefusalStep]_svars

=============================================================================
