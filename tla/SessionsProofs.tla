--------------------------- MODULE SessionsProofs ---------------------------
(***************************************************************************)
(* Proofs about Sessions, for any sessions, browsers, tabs and reset links *)
(* and any number of moves.                                                *)
(***************************************************************************)
EXTENDS Sessions, FiniteSetTheorems, TLAPS

Tokens == {None} \cup (Sessions \X Nat)
Rows == [status : {"absent", "live", "expired", "revoked"}, current : Nat, previous : Nat,
         aged : BOOLEAN]
Jars == [refresh : Tokens, access : Tokens]
CallTypes == [op : Calls, step : Steps, refresh : Tokens, access : Tokens, version : Nat,
              link : Links \cup {None}]

Types ==
  /\ user \in [status : {"active", "disabled"}, version : Nat \ {0}]
  /\ row \in [Sessions -> Rows]
  /\ link \in [Links -> {"unsent", "valid", "spent"}]
  /\ jar \in [Browsers -> Jars] /\ call \in [Tabs -> CallTypes]
  /\ left \in 0 .. MaxMoves /\ made \in [Sessions -> Nat]
  /\ spared \subseteq Sessions /\ lapsed \subseteq Sessions /\ reused \subseteq Sessions
  /\ resets \in [Links -> Nat]

\* What a call carries where it is.
Shape(c) ==
  /\ c.step = "idle" <=> c = Idle
  /\ c.op = "none" => c.step = "idle"
  /\ c.op = "ask" => c.step = "unauthorized" /\ c.refresh = None
  /\ c.op = "refresh" =>
       /\ c.step \in {"sent", "lookup", "issue", "reuse", "answer", "refused", "failed"}
       /\ c.step # "answer" => c.refresh # None
       /\ c.step \in {"sent", "lookup", "reuse"} => c.access = None
  /\ c.op = "login" => IF c.refresh = None THEN c.step = "insert" ELSE c.step = "answer"
  /\ c.op = "logout" => c.step \in {"sent", "answer"} /\ c.refresh = None
  /\ c.op \in {"change", "reset"} => c.step \in {"write", "sweep", "answer"} /\ c.refresh = None
  /\ c.op = "change" => c.access # None
  /\ c.op = "reset" => c.link \in Links /\ c.access = None

\* A row is new, or has been rotated; and a refresh token that is anywhere was issued.
RowShape(r) == IF r.status = "absent" THEN r = NoRow ELSE r.previous + 1 = r.current
Known(token, rows) ==
  token # None => /\ rows[token[1]].status # "absent"
                  /\ token[2] \in 1 .. rows[token[1]].current

\* The refresh token that an answer brings is the newest, and nobody else has it.
Fresh(c) ==
  /\ c.refresh # None
  /\ \/ c.op = "login"
     \/ c.op = "refresh" /\ (c.step = "answer" \/ (c.step = "issue" /\ c.access = None))
Newest(t) ==
  LET token == call[t].refresh IN
  /\ row[token[1]].current = token[2]
  /\ \A b \in Browsers : jar[b].refresh # token
  /\ \A u \in Tabs : call[u].refresh = token => u = t

Shapes == (\A t \in Tabs : Shape(call[t])) /\ \A s \in Sessions : RowShape(row[s])
Issued ==
  /\ \A b \in Browsers : Known(jar[b].refresh, row)
  /\ \A t \in Tabs : Known(call[t].refresh, row) /\ (Fresh(call[t]) => Newest(t))

\* A session whose grace is over has not lapsed only if its browser is not behind.
Lapses ==
  /\ \A s \in Sessions : row[s].status # "absent" /\ row[s].aged /\ Behind(s) => s \in lapsed
  /\ \A t \in Tabs : At(t, "refresh", "reuse") => call[t].refresh[1] \in lapsed
  /\ reused \subseteq lapsed

\* What is looked up or refused of a session that lives has been rotated out.
Outdated ==
  \A t \in Tabs :
    LET token == call[t].refresh IN
    /\ At(t, "refresh", "lookup") /\ row[token[1]].status = "live" => token[2] <= row[token[1]].previous
    /\ At(t, "refresh", "refused") /\ row[token[1]].status = "live" => token[2] < row[token[1]].previous

\* A link that is spent has been used, or one reset is about to use it.
Resetting(t, l) == At(t, "reset", "write") /\ call[t].link = l
LinksUsed ==
  /\ \A l \in Links : resets[l] <= 1 /\ (link[l] # "spent" => resets[l] = 0)
  /\ \A t \in Tabs, l \in Links :
       Resetting(t, l) => /\ link[l] = "spent" /\ resets[l] = 0
                          /\ \A u \in Tabs : Resetting(u, l) => u = t

SignedOut ==
  /\ SignedOutEverywhere
  /\ \A t \in Tabs : At(t, "change", "sweep") => call[t].access[1] \in spared

\* Every change of the version took a move, before or with it.
Writing == {t \in Tabs : call[t].step = "write"}
Moves == user.version + left + Cardinality(Writing) <= MaxMoves + 1

SessionsInv == Types /\ Shapes /\ Issued /\ Lapses /\ Outdated /\ LinksUsed /\ SignedOut /\ Moves

-----------------------------------------------------------------------------
(* Tokens, calls and rows keep their shapes.                               *)

LEMMA TokenParts ==
  ASSUME NEW token \in Tokens, token # None
  PROVE  token[1] \in Sessions /\ token[2] \in Nat /\ token = Refresh(token[1], token[2])
BY DEF Tokens, None, Refresh

LEMMA TokenMade ==
  ASSUME NEW s \in Sessions, NEW n \in Nat
  PROVE  LET token == Refresh(s, n) IN
         token \in Tokens /\ token # None /\ token[1] = s /\ token[2] = n /\ Access(s, n) = token
BY DEF Tokens, None, Refresh, Access

LEMMA NoToken == None \in Tokens
BY DEF Tokens

LEMMA CallOne ==
  ASSUME Types, NEW t \in Tabs, NEW c, Goes(t, c)
  PROVE  call'[t] = c /\ \A u \in Tabs : u # t => call'[u] = call[u]
BY DEF Types, Goes

LEMMA IdleShape == Idle \in CallTypes /\ Shape(Idle)
BY NoToken DEF Idle, CallTypes, Calls, Steps, Shape

LEMMA JarTokens ==
  ASSUME SessionsParameters, Types, NEW t \in Tabs
  PROVE  /\ BrowserOf[t] \in Browsers /\ Jar(t) \in Jars
         /\ Jar(t).refresh \in Tokens /\ Jar(t).access \in Tokens
BY DEF SessionsParameters, Types, Jar, Jars

\* A tab's step brings its call into a shape it can have, or leaves it.
LEMMA ShapeStep ==
  ASSUME SessionsParameters, Types, Shapes, NEW t \in Tabs, TabStep(t)
  PROVE  (RevokeSession(t) /\ call' = call) \/ \E c \in CallTypes : Shape(c) /\ Goes(t, c)
<1> DEFINE G == \E c \in CallTypes : Shape(c) /\ Goes(t, c)
           k == call[t]
<1>0. /\ k \in CallTypes /\ Shape(k) /\ k.op \in Calls /\ k.step \in Steps /\ k.refresh \in Tokens
      /\ k.access \in Tokens /\ k.version \in Nat /\ k.link \in Links \cup {None}
      /\ user.version \in Nat /\ Jar(t).refresh \in Tokens /\ Jar(t).access \in Tokens
  BY JarTokens DEF Types, Shapes, CallTypes
<1>i. Goes(t, Idle) => G
  BY IdleShape
<1>1. CASE Ask(t)
  <2> DEFINE c == [Idle EXCEPT !.op = "ask", !.step = "unauthorized"]
  <2>1. c \in CallTypes /\ Shape(c)
    BY NoToken DEF Idle, CallTypes, Calls, Steps, Shape
  <2> QED
    BY <1>1, <2>1 DEF Ask
<1>2. CASE RefreshSession(t)
  <2> DEFINE c == [Idle EXCEPT !.op = "refresh", !.step = "sent", !.refresh = Jar(t).refresh]
  <2>1. ASSUME Jar(t).refresh # None PROVE c \in CallTypes /\ Shape(c)
    BY <1>0, <2>1, NoToken DEF Idle, CallTypes, Calls, Steps, Shape
  <2> QED
    BY <1>2, <1>i, <2>1 DEF RefreshSession
<1>3. CASE Rotate(t)
  <2>1. k.op = "refresh" /\ k.step = "sent" /\ k.refresh # None /\ k.access = None
    BY <1>0, <1>3 DEF Rotate, At, Shape
  <2> DEFINE s == k.refresh[1]
             new == Refresh(s, row[s].current + 1)
             c == [k EXCEPT !.step = "issue", !.refresh = new]
             d == [k EXCEPT !.step = "lookup"]
  <2>2. new \in Tokens /\ new # None
    <3>1. s \in Sessions /\ row[s].current + 1 \in Nat
      BY <1>0, <2>1, TokenParts DEF Types, Rows
    <3> QED
      BY <3>1, TokenMade
  <2>3. c \in CallTypes /\ Shape(c)
    BY <1>0, <2>1, <2>2, NoToken DEF Idle, CallTypes, Calls, Steps, Shape
  <2>4. d \in CallTypes /\ Shape(d)
    BY <1>0, <2>1, NoToken DEF Idle, CallTypes, Calls, Steps, Shape
  <2>5. Goes(t, c) \/ Goes(t, d)
    BY <1>3 DEF Rotate, To
  <2> QED
    BY <2>3, <2>4, <2>5
<1>4. CASE LookUp(t)
  <2>1. k.op = "refresh" /\ k.step = "lookup" /\ k.refresh # None /\ k.access = None
    BY <1>0, <1>4 DEF LookUp, At, Shape
  <2> DEFINE a == Access(k.refresh[1], 0)
             c == [k EXCEPT !.step = "issue", !.access = a]
             d == [k EXCEPT !.step = Verdict(k.refresh)]
  <2>2. a \in Tokens /\ a # None
    BY <1>0, <2>1, TokenParts, TokenMade
  <2>3. c \in CallTypes /\ Shape(c)
    BY <1>0, <2>1, <2>2 DEF Idle, CallTypes, Calls, Steps, Shape
  <2>4. CASE Verdict(k.refresh) = "issue"
    BY <1>4, <2>3, <2>4 DEF LookUp
  <2>5. CASE Verdict(k.refresh) \in {"refused", "reuse"}
    <3>1. d \in CallTypes /\ Shape(d)
      BY <1>0, <2>1, <2>5 DEF Idle, CallTypes, Calls, Steps, Shape
    <3> QED
      BY <1>4, <2>5, <3>1 DEF LookUp
  <2> QED
    BY <2>4, <2>5 DEF Verdict
<1>5. CASE Issue(t)
  <2>1. k.op = "refresh" /\ k.step = "issue" /\ k.refresh # None
    BY <1>0, <1>5 DEF Issue, At, Shape
  <2> DEFINE a == Access(k.refresh[1], user.version)
             r == IF k.access = None THEN k.refresh ELSE None
             c == [k EXCEPT !.step = "answer", !.access = a,
                            !.refresh = IF k.access = None THEN @ ELSE None]
             d == [k EXCEPT !.step = "failed"]
  <2>2. a \in Tokens /\ r \in Tokens
    BY <1>0, <2>1, TokenParts, TokenMade, NoToken
  <2>3. /\ c.op = k.op /\ c.step = "answer" /\ c.refresh = r
        /\ c.access = a /\ c.version = k.version /\ c.link = k.link
    BY <1>0 DEF CallTypes
  <2>4. c \in CallTypes /\ Shape(c)
    BY <1>0, <2>1, <2>2, <2>3 DEF Idle, CallTypes, Calls, Steps, Shape
  <2>5. d \in CallTypes /\ Shape(d)
    BY <1>0, <2>1 DEF Idle, CallTypes, Calls, Steps, Shape
  <2>6. Goes(t, c) \/ Goes(t, d)
    BY <1>5 DEF Issue
  <2> QED
    BY <2>4, <2>5, <2>6
<1>6. CASE DetectReuse(t)
  <2>1. k.op = "refresh" /\ k.refresh # None
    BY <1>0, <1>6 DEF DetectReuse, At, Shape
  <2> DEFINE d == [k EXCEPT !.step = "refused"]
  <2>2. d \in CallTypes /\ Shape(d)
    BY <1>0, <2>1 DEF Idle, CallTypes, Calls, Steps, Shape
  <2> QED
    BY <1>6, <2>2 DEF DetectReuse, To
<1>7. CASE Login(t)
  <2> DEFINE c == [Idle EXCEPT !.op = "login", !.step = "insert", !.version = user.version]
  <2>1. c \in CallTypes /\ Shape(c)
    BY <1>0, NoToken DEF Idle, CallTypes, Calls, Steps, Shape
  <2> QED
    BY <1>7, <2>1 DEF Login
<1>8. CASE CreateSession(t)
  <2>1. k.op = "login"
    BY <1>8 DEF CreateSession, At
  <2>2. PICK s \in Sessions :
          Goes(t, [k EXCEPT !.step = "answer", !.refresh = Refresh(s, 1),
                            !.access = Access(s, k.version)])
    BY <1>8 DEF CreateSession
  <2>3. /\ Refresh(s, 1) \in Tokens /\ Refresh(s, 1) # None
        /\ Access(s, k.version) \in Tokens
    BY <1>0, TokenMade
  <2> DEFINE c == [k EXCEPT !.step = "answer", !.refresh = Refresh(s, 1),
                                !.access = Access(s, k.version)]
  <2>4. /\ c.op = k.op /\ c.step = "answer" /\ c.refresh = Refresh(s, 1)
        /\ c.access = Access(s, k.version) /\ c.version = k.version /\ c.link = k.link
    BY <1>0 DEF CallTypes
  <2>5. c \in CallTypes /\ Shape(c)
    BY <1>0, <2>1, <2>3, <2>4 DEF Idle, CallTypes, Calls, Steps, Shape
  <2> QED
    BY <2>2, <2>5
<1>9. CASE Logout(t)
  <2> DEFINE c == [Idle EXCEPT !.op = "logout", !.step = "sent", !.access = Jar(t).access]
  <2>1. c \in CallTypes /\ Shape(c)
    BY <1>0, NoToken DEF Idle, CallTypes, Calls, Steps, Shape
  <2> QED
    BY <1>9, <2>1 DEF Logout
<1>10. CASE EndSession(t)
  <2> DEFINE d == [k EXCEPT !.step = "answer"]
  <2>1. d \in CallTypes /\ Shape(d)
    BY <1>0, <1>10 DEF EndSession, At, Idle, CallTypes, Calls, Steps, Shape
  <2> QED
    BY <1>10, <2>1 DEF EndSession, To
<1>11. CASE ConfirmRecovery(t)
  <2>1. PICK l \in Links : Goes(t, [Idle EXCEPT !.op = "reset", !.step = "write", !.link = l])
    BY <1>11 DEF ConfirmRecovery
  <2> DEFINE c == [Idle EXCEPT !.op = "reset", !.step = "write", !.link = l]
  <2>2. c \in CallTypes /\ Shape(c)
    BY NoToken DEF Idle, CallTypes, Calls, Steps, Shape
  <2> QED
    BY <2>1, <2>2
<1>12. CASE ChangePassword(t)
  <2> DEFINE c == [Idle EXCEPT !.op = "change", !.step = "write", !.access = Jar(t).access]
  <2>1. Jar(t).access # None
    BY <1>12 DEF ChangePassword, Honoured
  <2>2. c \in CallTypes /\ Shape(c)
    BY <1>0, <2>1, NoToken DEF Idle, CallTypes, Calls, Steps, Shape
  <2> QED
    BY <1>12, <2>2 DEF ChangePassword
<1>13. CASE WritePassword(t)
  <2> DEFINE c == [k EXCEPT !.step = "sweep", !.version = user.version + 1]
  <2>1. /\ c.op = k.op /\ c.step = "sweep" /\ c.refresh = k.refresh
        /\ c.access = k.access /\ c.version = user.version + 1 /\ c.link = k.link
    BY <1>0 DEF CallTypes
  <2>2. k.op \in {"change", "reset"} /\ k.refresh = None
    BY <1>0, <1>13 DEF WritePassword, Shape
  <2>3. c \in CallTypes
    <3>1. user.version + 1 \in Nat /\ "sweep" \in Steps
      BY <1>0 DEF Steps
    <3>2. \A v \in Nat, p \in Steps : [k EXCEPT !.step = p, !.version = v] \in CallTypes
      BY <1>0 DEF CallTypes
    <3> QED
      BY <3>1, <3>2
  <2>4. Shape(c)
    BY <1>0, <2>1, <2>2 DEF Idle, Shape
  <2> QED
    BY <1>13, <2>3, <2>4 DEF WritePassword
<1>14. CASE RevokeOthers(t)
  <2> DEFINE a == IF k.access = None THEN None ELSE Access(k.access[1], k.version)
             c == [k EXCEPT !.step = "answer",
                            !.access = IF @ = None THEN None ELSE Access(@[1], k.version)]
  <2>1. /\ c.op = k.op /\ c.step = "answer" /\ c.refresh = k.refresh
        /\ c.access = a /\ c.version = k.version /\ c.link = k.link
    BY <1>0 DEF CallTypes
  <2>2. a \in Tokens /\ (a = None <=> k.access = None)
    BY <1>0, TokenParts, TokenMade, NoToken
  <2>3. c \in CallTypes /\ Shape(c)
    BY <1>0, <1>14, <2>1, <2>2 DEF RevokeOthers, Idle, CallTypes, Calls, Steps, Shape
  <2> QED
    BY <1>14, <2>3 DEF RevokeOthers
<1>15. CASE Arrive(t) \/ AnswerLost(t)
  BY <1>15, <1>i DEF Arrive, AnswerLost
<1>16. CASE Fails(t)
  <2>1. CASE Goes(t, Idle)
    BY <2>1, <1>i
  <2>2. CASE k.op = "refresh" /\ To(t, "failed")
    <3> DEFINE d == [k EXCEPT !.step = "failed"]
    <3>1. k.step # "answer"
      BY <1>16 DEF Fails
    <3>2. d \in CallTypes /\ Shape(d)
      BY <1>0, <2>2, <3>1 DEF Idle, CallTypes, Calls, Steps, Shape
    <3> QED
      BY <2>2, <3>2 DEF To
  <2> QED
    BY <1>16, <2>1, <2>2 DEF Fails
<1>17. CASE RevokeSession(t)
  BY <1>17 DEF RevokeSession
<1> QED
  BY <1>1, <1>2, <1>3, <1>4, <1>5, <1>6, <1>7, <1>8, <1>9, <1>10, <1>11, <1>12, <1>13, <1>14,
     <1>15, <1>16, <1>17 DEF TabStep

LEMMA RevokeRows ==
  ASSUME Types, NEW S, Revoke(S)
  PROVE  \A s \in Sessions :
           \/ row'[s] = row[s]
           \/ /\ s \in S /\ row[s].status \in {"live", "expired"}
              /\ row'[s] = [row[s] EXCEPT !.status = "revoked"]
BY DEF Revoke, Types

\* What a step may do to a row: nothing, make it, rotate it, end its grace, or end it.
Ended(s) ==
  /\ row[s].status \in {"live", "expired"}
  /\ row'[s] \in {[row[s] EXCEPT !.status = "expired"], [row[s] EXCEPT !.status = "revoked"]}
RowMoves(s) ==
  \/ row'[s] = row[s]
  \/ row[s].status = "absent" /\ row'[s] = NewRow
  \/ row[s].status = "live" /\ row'[s] = RotatedRow(row[s])
  \/ row[s].status # "absent" /\ row'[s] = [row[s] EXCEPT !.aged = TRUE]
  \/ Ended(s)

LEMMA RowStep ==
  ASSUME Types, Shapes, [SessionsNext]_svars
  PROVE  \A s \in Sessions : RowMoves(s)
<1>1. CASE UNCHANGED row
  BY <1>1 DEF RowMoves
<1>2. ASSUME NEW S, Revoke(S) PROVE \A s \in Sessions : RowMoves(s)
  BY <1>2, RevokeRows DEF RowMoves, Ended
<1>3. ASSUME NEW t \in Tabs, Rotate(t) PROVE \A s \in Sessions : RowMoves(s)
  <2>1. CASE UNCHANGED row
    BY <2>1, <1>1
  <2>2. CASE Rotates(call[t].refresh)
    <3> DEFINE x == call[t].refresh[1]
    <3>1. row' = [row EXCEPT ![x] = RotatedRow(@)] /\ row[x].status = "live"
      BY <1>3, <2>2 DEF Rotate, Rotates
    <3> QED
      BY <3>1 DEF RowMoves, Types
  <2> QED
    BY <1>3, <2>1, <2>2 DEF Rotate
<1>4. ASSUME NEW t \in Tabs, CreateSession(t) PROVE \A s \in Sessions : RowMoves(s)
  BY <1>4 DEF CreateSession, RowMoves, Types
<1>5. ASSUME GraceEnds PROVE \A s \in Sessions : RowMoves(s)
  <2>1. PICK x \in Sessions : row[x].status # "absent" /\ row' = [row EXCEPT ![x].aged = TRUE]
    BY <1>5 DEF GraceEnds
  <2>2. row'[x] = [row[x] EXCEPT !.aged = TRUE] /\ \A s \in Sessions : s # x => row'[s] = row[s]
    BY <2>1 DEF Types
  <2> QED
    BY <2>1, <2>2 DEF RowMoves
<1>6. ASSUME SessionExpires PROVE \A s \in Sessions : RowMoves(s)
  <2>1. PICK x \in Sessions : row[x].status = "live" /\ row' = [row EXCEPT ![x].status = "expired"]
    BY <1>6 DEF SessionExpires
  <2>2. row'[x] = [row[x] EXCEPT !.status = "expired"] /\ \A s \in Sessions : s # x => row'[s] = row[s]
    BY <2>1 DEF Types
  <2> QED
    BY <2>1, <2>2 DEF RowMoves, Ended
<1>7. ASSUME NEW t \in Tabs, TabStep(t) PROVE \A s \in Sessions : RowMoves(s)
  BY <1>1, <1>2, <1>3, <1>4, <1>7
  DEF TabStep, Ask, RefreshSession, LookUp, Issue, DetectReuse, Login, Logout, EndSession,
      RevokeSession, ConfirmRecovery, ChangePassword, WritePassword, RevokeOthers, Arrive,
      AnswerLost, Fails
<1> QED
  BY <1>1, <1>2, <1>5, <1>6, <1>7
  DEF SessionsNext, svars, RequestRecovery, Disable, Enable, AccessExpires, LinkExpires

\* What follows for the tokens of a session.
LEMMA RowGrows ==
  ASSUME Types, Shapes, NEW s \in Sessions, RowMoves(s)
  PROVE  /\ row'[s] \in Rows /\ RowShape(row'[s])
         /\ row[s].status # "absent" => row'[s].status # "absent"
         /\ row[s].current <= row'[s].current /\ row[s].previous <= row'[s].previous
         /\ row'[s].status = "live" => row[s].status \in {"live", "absent"}
<1>1. row[s] \in Rows /\ RowShape(row[s])
  BY DEF Types, Shapes
<1>2. CASE row[s].status = "absent" /\ row'[s] = NewRow
  BY <1>1, <1>2 DEF Rows, RowShape, NoRow, NewRow
<1>3. CASE row[s].status = "live" /\ row'[s] = RotatedRow(row[s])
  <2>1. row[s].current \in Nat /\ row[s].current + 1 \in Nat /\ row[s].previous + 1 = row[s].current
        /\ row[s].previous \in Nat
    BY <1>1, <1>3 DEF Rows, RowShape
  <2>2. \A n, m \in Nat : [row[s] EXCEPT !.current = n, !.previous = m, !.aged = FALSE] \in Rows
    BY <1>1 DEF Rows
  <2>3. /\ row'[s].status = "live" /\ row'[s].current = row[s].current + 1
        /\ row'[s].previous = row[s].current
    BY <1>1, <1>3 DEF Rows, RotatedRow
  <2>4. row'[s] \in Rows
    BY <1>3, <2>1, <2>2 DEF RotatedRow
  <2> QED
    BY <1>3, <2>1, <2>3, <2>4 DEF RowShape
<1>4. CASE row[s].status # "absent" /\ row'[s] = [row[s] EXCEPT !.aged = TRUE]
  <2>1. /\ row'[s] \in Rows /\ row'[s].status = row[s].status /\ row'[s].current = row[s].current
        /\ row'[s].previous = row[s].previous
    BY <1>1, <1>4 DEF Rows
  <2> QED
    BY <1>1, <1>4, <2>1 DEF RowShape, Rows
<1>5. CASE Ended(s)
  <2>1. /\ row'[s] \in Rows /\ row'[s].status \in {"expired", "revoked"}
        /\ row'[s].current = row[s].current /\ row'[s].previous = row[s].previous
    BY <1>1, <1>5 DEF Rows, Ended
  <2> QED
    BY <1>1, <1>5, <2>1 DEF RowShape, Rows, Ended
<1>6. CASE row'[s] = row[s]
  BY <1>1, <1>6 DEF Rows
<1> QED
  BY <1>2, <1>3, <1>4, <1>5, <1>6 DEF RowMoves

LEMMA CallsStep ==
  ASSUME SessionsParameters, Types, Shapes, [SessionsNext]_svars
  PROVE  call' \in [Tabs -> CallTypes] /\ \A t \in Tabs : Shape(call'[t])
<1>1. CASE UNCHANGED call
  BY <1>1 DEF Types, Shapes
<1>2. ASSUME NEW t \in Tabs, TabStep(t)
      PROVE  call' \in [Tabs -> CallTypes] /\ \A u \in Tabs : Shape(call'[u])
  <2>1. CASE \E c \in CallTypes : Shape(c) /\ Goes(t, c)
    <3>1. PICK c \in CallTypes : Shape(c) /\ Goes(t, c)
      BY <2>1
    <3>2. call' \in [Tabs -> CallTypes]
      BY <3>1 DEF Goes, Types
    <3> QED
      BY <3>1, <3>2, CallOne DEF Shapes
  <2> QED
    BY <1>1, <1>2, <2>1, ShapeStep
<1> QED
  BY <1>1, <1>2 DEF SessionsNext, svars, RequestRecovery, Disable, Enable, GraceEnds, AccessExpires,
     SessionExpires, LinkExpires

LEMMA CookiesTyped ==
  ASSUME NEW j \in Jars, NEW c \in CallTypes
  PROVE  Cookies(j, c) \in Jars
BY NoToken DEF Cookies, Jars, CallTypes, Empty

\* What a step may do to a jar: nothing, take its access token, or what an answer says.
JarMoves(b) ==
  \/ jar'[b] = jar[b]
  \/ jar'[b] = [jar[b] EXCEPT !.access = None]
  \/ \E t \in Tabs : Arrive(t) /\ BrowserOf[t] = b /\ jar'[b] = Cookies(jar[b], call[t])

LEMMA JarsStep ==
  ASSUME SessionsParameters, Types, [SessionsNext]_svars
  PROVE  jar' \in [Browsers -> Jars] /\ \A b \in Browsers : JarMoves(b)
<1>1. CASE UNCHANGED jar
  BY <1>1 DEF Types, JarMoves
<1>2. ASSUME NEW t \in Tabs, Arrive(t) PROVE jar' \in [Browsers -> Jars] /\ \A b \in Browsers : JarMoves(b)
  <2> DEFINE x == BrowserOf[t]
  <2>1. x \in Browsers /\ jar[x] \in Jars /\ call[t] \in CallTypes
    BY DEF SessionsParameters, Types
  <2>2. jar' = [jar EXCEPT ![x] = Cookies(jar[x], call[t])]
    BY <1>2, <2>1 DEF Arrive, Types
  <2>3. jar' \in [Browsers -> Jars]
    BY <2>1, <2>2, CookiesTyped DEF Types
  <2>4. jar'[x] = Cookies(jar[x], call[t]) /\ \A b \in Browsers : b # x => jar'[b] = jar[b]
    BY <2>1, <2>2 DEF Types
  <2> QED
    BY <1>2, <2>3, <2>4 DEF JarMoves
<1>3. ASSUME AccessExpires PROVE jar' \in [Browsers -> Jars] /\ \A b \in Browsers : JarMoves(b)
  <2>1. PICK x \in Browsers : jar' = [jar EXCEPT ![x].access = None]
    BY <1>3 DEF AccessExpires
  <2>2. jar' \in [Browsers -> Jars]
    BY <2>1, NoToken DEF Types, Jars
  <2>3. jar'[x] = [jar[x] EXCEPT !.access = None] /\ \A b \in Browsers : b # x => jar'[b] = jar[b]
    BY <2>1 DEF Types
  <2> QED
    BY <2>2, <2>3 DEF JarMoves
<1>4. ASSUME NEW t \in Tabs, TabStep(t)
      PROVE  jar' \in [Browsers -> Jars] /\ \A b \in Browsers : JarMoves(b)
  BY <1>1, <1>2, <1>4
  DEF TabStep, Ask, RefreshSession, Rotate, LookUp, Issue, DetectReuse, Login, CreateSession, Logout,
      EndSession, RevokeSession, ConfirmRecovery, ChangePassword, WritePassword, RevokeOthers,
      AnswerLost, Fails
<1> QED
  BY <1>1, <1>3, <1>4
  DEF SessionsNext, svars, RequestRecovery, Disable, Enable, GraceEnds, SessionExpires, LinkExpires

LEMMA HistoryStep ==
  ASSUME SessionsParameters, Types, Shapes, [SessionsNext]_svars
  PROVE  /\ made' \in [Sessions -> Nat] /\ spared' \subseteq Sessions /\ lapsed' \subseteq Sessions
         /\ reused' \subseteq Sessions /\ resets' \in [Links -> Nat]
<1> DEFINE G == /\ made' \in [Sessions -> Nat] /\ spared' \subseteq Sessions /\ lapsed' \subseteq Sessions
                /\ reused' \subseteq Sessions /\ resets' \in [Links -> Nat]
<1>0. /\ made \in [Sessions -> Nat] /\ spared \subseteq Sessions /\ lapsed \subseteq Sessions
      /\ reused \subseteq Sessions /\ resets \in [Links -> Nat]
      /\ \A t \in Tabs : call[t] \in CallTypes /\ Shape(call[t])
  BY DEF Types, Shapes
<1>1. CASE UNCHANGED history
  BY <1>0, <1>1 DEF history
<1>2. ASSUME NEW t \in Tabs, CreateSession(t) PROVE G
  <2>1. call[t].version \in Nat
    BY <1>0 DEF CallTypes
  <2> QED
    BY <1>0, <1>2, <2>1 DEF CreateSession
<1>3. ASSUME NEW t \in Tabs, WritePassword(t) PROVE G
  <2>1. call[t].op = "change" => call[t].access[1] \in Sessions
    BY <1>0, TokenParts DEF CallTypes, Shape
  <2>2. call[t].op = "reset" => call[t].link \in Links
    BY <1>0 DEF Shape
  <2>3. spared' \subseteq Sessions /\ UNCHANGED <<made, lapsed, reused>>
    BY <1>0, <1>3, <2>1 DEF WritePassword
  <2>4. resets' \in [Links -> Nat]
    BY <1>0, <1>3, <2>2 DEF WritePassword
  <2> QED
    BY <1>0, <2>3, <2>4
<1>4. ASSUME NEW t \in Tabs, DetectReuse(t) PROVE G
  <2>1. call[t].refresh[1] \in Sessions
    BY <1>0, <1>4, TokenParts DEF DetectReuse, At, CallTypes, Shape
  <2> QED
    BY <1>0, <1>4, <2>1 DEF DetectReuse
<1>5. ASSUME NEW t \in Tabs, Fails(t) PROVE G
  BY <1>0, <1>5 DEF Fails
<1>6. ASSUME GraceEnds PROVE G
  BY <1>0, <1>6 DEF GraceEnds
<1>7. ASSUME NEW t \in Tabs, TabStep(t) PROVE G
  BY <1>1, <1>2, <1>3, <1>4, <1>5, <1>7
  DEF TabStep, Ask, RefreshSession, Rotate, LookUp, Issue, Login, Logout, EndSession, RevokeSession,
      ConfirmRecovery, ChangePassword, RevokeOthers, Arrive, AnswerLost
<1> QED
  BY <1>1, <1>6, <1>7
  DEF SessionsNext, svars, RequestRecovery, Disable, Enable, AccessExpires, SessionExpires,
      LinkExpires, history

LEMMA TypesStep ==
  ASSUME SessionsParameters, Types, Shapes, [SessionsNext]_svars PROVE Types' /\ Shapes'
<1>1. call' \in [Tabs -> CallTypes] /\ jar' \in [Browsers -> Jars] /\ \A t \in Tabs : Shape(call'[t])
  BY CallsStep, JarsStep
<1>2. (\A s \in Sessions : row'[s] \in Rows /\ RowShape(row'[s])) /\ row' \in [Sessions -> Rows]
  <2>1. \A s \in Sessions : row'[s] \in Rows /\ RowShape(row'[s])
    BY RowStep, RowGrows
  <2>2. CASE row' = row
    BY <2>1, <2>2 DEF Types
  <2>3. CASE \E f : row' = [s \in Sessions |-> f[s]]
    BY <2>1, <2>3
  <2>4. CASE \E x, v : row' = [row EXCEPT ![x] = v]
    BY <2>1, <2>4 DEF Types
  <2>5. ASSUME NEW S, Revoke(S) PROVE \E f : row' = [s \in Sessions |-> f[s]]
    <3> WITNESS row'
    <3> QED
      BY <2>5 DEF Revoke
  <2>6. row' = row \/ (\E f : row' = [s \in Sessions |-> f[s]]) \/ \E x, v : row' = [row EXCEPT ![x] = v]
    BY <2>5
    DEF SessionsNext, svars, RequestRecovery, Disable, Enable, GraceEnds, AccessExpires, SessionExpires,
        LinkExpires, TabStep, Ask, RefreshSession, Rotate, LookUp, Issue, DetectReuse, Login,
        CreateSession, Logout, EndSession, RevokeSession, ConfirmRecovery, ChangePassword,
        WritePassword, RevokeOthers, Arrive, AnswerLost, Fails
  <2> QED
    BY <2>1, <2>2, <2>3, <2>4, <2>6
<1>3. left' \in 0 .. MaxMoves
  <2>1. left \in 0 .. MaxMoves /\ MaxMoves \in Nat
    BY DEF Types, SessionsParameters
  <2>2. left' = left \/ (left > 0 /\ left' = left - 1)
    BY DEF SessionsNext, svars, RequestRecovery, Disable, Enable, GraceEnds, AccessExpires, SessionExpires,
        LinkExpires, TabStep, Ask, RefreshSession, Rotate, LookUp, Issue, DetectReuse, Login,
        CreateSession, Logout, EndSession, RevokeSession, ConfirmRecovery, ChangePassword,
        WritePassword, RevokeOthers, Arrive, AnswerLost, Fails, Move, history
  <2> QED
    BY <2>1, <2>2
<1>4. user' \in [status : {"active", "disabled"}, version : Nat \ {0}]
  <2>1. user.version \in Nat \ {0} /\ user \in [status : {"active", "disabled"}, version : Nat \ {0}]
    BY DEF Types
  <2>2. \A v \in Nat \ {0} : [user EXCEPT !.version = v] \in [status : {"active", "disabled"}, version : Nat \ {0}]
    BY <2>1
  <2>3. CASE user' = user
    BY <2>1, <2>3
  <2>4. CASE user' = [user EXCEPT !.version = @ + 1]
    BY <2>1, <2>2, <2>4
  <2>5. CASE user' = [user EXCEPT !.status = "disabled", !.version = @ + 1]
    <3>1. \A v \in Nat \ {0} : [user EXCEPT !.status = "disabled", !.version = v]
                               \in [status : {"active", "disabled"}, version : Nat \ {0}]
      BY <2>1
    <3>2. user.version + 1 \in Nat \ {0}
      BY <2>1
    <3> QED
      BY <2>5, <3>1, <3>2
  <2>6. CASE user' = [user EXCEPT !.status = "active"]
    BY <2>1, <2>6
  <2> QED
    BY <2>3, <2>4, <2>5, <2>6
    DEF SessionsNext, svars, RequestRecovery, Disable, Enable, GraceEnds, AccessExpires, SessionExpires,
        LinkExpires, TabStep, Ask, RefreshSession, Rotate, LookUp, Issue, DetectReuse, Login,
        CreateSession, Logout, EndSession, RevokeSession, ConfirmRecovery, ChangePassword,
        WritePassword, RevokeOthers, Arrive, AnswerLost, Fails
<1>5. link' \in [Links -> {"unsent", "valid", "spent"}]
  BY DEF Types, SessionsNext, svars, RequestRecovery, Disable, Enable, GraceEnds, AccessExpires,
      SessionExpires, LinkExpires, TabStep, Ask, RefreshSession, Rotate, LookUp, Issue, DetectReuse,
      Login, CreateSession, Logout, EndSession, RevokeSession, ConfirmRecovery, ChangePassword,
      WritePassword, RevokeOthers, Arrive, AnswerLost, Fails, Consume
<1>6. /\ made' \in [Sessions -> Nat] /\ spared' \subseteq Sessions /\ lapsed' \subseteq Sessions
      /\ reused' \subseteq Sessions /\ resets' \in [Links -> Nat]
  BY HistoryStep
<1> QED
  BY <1>1, <1>2, <1>3, <1>4, <1>5, <1>6 DEF Types, Shapes

-----------------------------------------------------------------------------
(* Where refresh tokens are.  A step other than the four that hand one on  *)
(* (from the jar to a request, from the rotation to an answer, to a new    *)
(* session, from the answer to the jar) leaves them or loses them.         *)

Keeps(c, d) ==
  \/ d = c \/ d.refresh = None
  \/ /\ c.op = "refresh" /\ d.op = "refresh" /\ d.refresh = c.refresh
     /\ Fresh(d) => Fresh(c)
Hands(t) == RefreshSession(t) \/ Rotate(t) \/ CreateSession(t)

LEMMA KeepsStep ==
  ASSUME SessionsParameters, Types, Shapes, NEW t \in Tabs, TabStep(t), ~ Hands(t)
  PROVE  Keeps(call[t], call'[t]) /\ \A u \in Tabs : u # t => call'[u] = call[u]
<1> DEFINE k == call[t]
           G == Keeps(k, call'[t]) /\ \A u \in Tabs : u # t => call'[u] = call[u]
<1>0. k \in CallTypes /\ Shape(k)
  BY DEF Types, Shapes
<1>i. ASSUME NEW c, c.refresh = None, Goes(t, c) PROVE G
  BY <1>i, CallOne DEF Keeps
<1>k. ASSUME NEW c, c.op = "refresh", k.op = "refresh", c.refresh = k.refresh, Goes(t, c),
             c.step \in {"issue", "answer"} => c.access # None /\ (c.step = "answer" => Fresh(k))
      PROVE  G
  BY <1>k, CallOne DEF Keeps, Fresh
<1>1. CASE Ask(t) \/ Login(t) \/ Logout(t) \/ ConfirmRecovery(t) \/ ChangePassword(t)
  BY <1>1, <1>i DEF Ask, Login, Logout, ConfirmRecovery, ChangePassword, Idle
<1>2. CASE EndSession(t) \/ WritePassword(t) \/ RevokeOthers(t)
  <2>1. k.refresh = None
    BY <1>0, <1>2 DEF EndSession, WritePassword, RevokeOthers, At, Shape
  <2> QED
    BY <1>0, <1>2, <1>i, <2>1 DEF EndSession, WritePassword, RevokeOthers, To, CallTypes
<1>3. CASE Arrive(t) \/ AnswerLost(t)
  BY <1>3, <1>i DEF Arrive, AnswerLost, Idle
<1>4. CASE RevokeSession(t)
  BY <1>4 DEF RevokeSession, Keeps
<1>5. CASE LookUp(t)
  <2>1. k.op = "refresh" /\ k.refresh # None
    BY <1>0, <1>5 DEF LookUp, At, Shape
  <2>2. CASE Verdict(k.refresh) = "issue"
    <3> DEFINE c == [k EXCEPT !.step = "issue", !.access = Access(k.refresh[1], 0)]
    <3>1. /\ c.op = "refresh" /\ c.refresh = k.refresh /\ c.step = "issue" /\ c.access # None
          /\ Goes(t, c)
      BY <1>0, <1>5, <2>1, <2>2 DEF LookUp, CallTypes, Access, None
    <3> QED
      BY <1>k, <2>1, <3>1
  <2>3. CASE Verdict(k.refresh) \in {"refused", "reuse"}
    <3> DEFINE c == [k EXCEPT !.step = Verdict(k.refresh)]
    <3>1. c.op = "refresh" /\ c.refresh = k.refresh /\ c.step \in {"refused", "reuse"} /\ Goes(t, c)
      BY <1>0, <1>5, <2>1, <2>3 DEF LookUp, CallTypes
    <3> QED
      BY <1>k, <2>1, <3>1
  <2> QED
    BY <2>2, <2>3 DEF Verdict
<1>6. CASE Issue(t)
  <2>1. k.op = "refresh" /\ k.refresh # None /\ k.step = "issue"
    BY <1>0, <1>6 DEF Issue, At, Shape
  <2> DEFINE c == [k EXCEPT !.step = "answer", !.access = Access(k.refresh[1], user.version),
                            !.refresh = IF k.access = None THEN @ ELSE None]
             d == [k EXCEPT !.step = "failed"]
  <2>2. /\ c.op = "refresh" /\ c.refresh = (IF k.access = None THEN k.refresh ELSE None)
        /\ c.step = "answer" /\ c.access # None
        /\ d.op = "refresh" /\ d.refresh = k.refresh /\ d.step = "failed"
    BY <1>0, <2>1 DEF CallTypes, Access, None
  <2>3. CASE Goes(t, c) /\ k.access = None
    BY <1>k, <2>1, <2>2, <2>3 DEF Fresh
  <2>4. CASE Goes(t, c) /\ k.access # None
    BY <1>i, <2>2, <2>4
  <2>5. CASE Goes(t, d)
    BY <1>k, <2>1, <2>2, <2>5
  <2> QED
    BY <1>6, <2>3, <2>4, <2>5 DEF Issue
<1>7. CASE DetectReuse(t)
  <2> DEFINE d == [k EXCEPT !.step = "refused"]
  <2>1. k.op = "refresh" /\ d.op = "refresh" /\ d.refresh = k.refresh /\ d.step = "refused" /\ Goes(t, d)
    BY <1>0, <1>7 DEF DetectReuse, To, At, CallTypes
  <2> QED
    BY <1>k, <2>1
<1>8. CASE Fails(t)
  <2>1. CASE Goes(t, Idle)
    BY <1>i, <2>1 DEF Idle
  <2>2. CASE k.op = "refresh" /\ To(t, "failed")
    <3> DEFINE d == [k EXCEPT !.step = "failed"]
    <3>1. d.op = "refresh" /\ d.refresh = k.refresh /\ d.step = "failed" /\ Goes(t, d)
      BY <1>0, <2>2 DEF To, CallTypes
    <3> QED
      BY <1>k, <2>2, <3>1
  <2> QED
    BY <1>8, <2>1, <2>2 DEF Fails
<1> QED
  BY <1>1, <1>2, <1>3, <1>4, <1>5, <1>6, <1>7, <1>8 DEF TabStep, Hands

\* A step that rotates no session and makes none.
LEMMA CurrentKept ==
  ASSUME Types, Shapes, [SessionsNext]_svars, \A t \in Tabs : ~ Rotate(t) /\ ~ CreateSession(t)
  PROVE  \A s \in Sessions :
           /\ row'[s].current = row[s].current /\ row'[s].previous = row[s].previous
           /\ row'[s].status = "absent" <=> row[s].status = "absent"
           /\ row'[s].aged = row[s].aged \/ GraceEnds
<1> DEFINE K(s) == /\ row'[s].current = row[s].current /\ row'[s].previous = row[s].previous
                   /\ row'[s].status = "absent" <=> row[s].status = "absent"
                   /\ row'[s].aged = row[s].aged \/ GraceEnds
           G == \A s \in Sessions : K(s)
<1>0. \A s \in Sessions : row[s] \in Rows
  BY DEF Types
<1>1. CASE UNCHANGED row
  BY <1>1
<1>2. ASSUME NEW S, Revoke(S) PROVE G
  <2> SUFFICES ASSUME NEW s \in Sessions PROVE K(s)
    OBVIOUS
  <2>1. CASE row'[s] = row[s]
    BY <2>1
  <2>2. CASE row[s].status \in {"live", "expired"} /\ row'[s] = [row[s] EXCEPT !.status = "revoked"]
    BY <1>0, <2>2 DEF Rows
  <2> QED
    BY <1>2, <2>1, <2>2, RevokeRows
<1>3. ASSUME GraceEnds PROVE G
  <2>1. PICK x \in Sessions : row[x].status # "absent" /\ row' = [row EXCEPT ![x].aged = TRUE]
    BY <1>3 DEF GraceEnds
  <2>2. row'[x] = [row[x] EXCEPT !.aged = TRUE] /\ \A s \in Sessions : s # x => row'[s] = row[s]
    BY <2>1 DEF Types
  <2> QED
    BY <1>0, <1>3, <2>2 DEF Rows
<1>4. ASSUME SessionExpires PROVE G
  <2>1. PICK x \in Sessions : row[x].status = "live" /\ row' = [row EXCEPT ![x].status = "expired"]
    BY <1>4 DEF SessionExpires
  <2>2. row'[x] = [row[x] EXCEPT !.status = "expired"] /\ \A s \in Sessions : s # x => row'[s] = row[s]
    BY <2>1 DEF Types
  <2> QED
    BY <1>0, <2>1, <2>2 DEF Rows
<1>5. ASSUME NEW t \in Tabs, TabStep(t) PROVE G
  BY <1>1, <1>2, <1>5
  DEF TabStep, Ask, RefreshSession, LookUp, Issue, DetectReuse, Login, Logout, EndSession,
      RevokeSession, ConfirmRecovery, ChangePassword, WritePassword, RevokeOthers, Arrive,
      AnswerLost, Fails
<1> QED
  BY <1>1, <1>2, <1>3, <1>4, <1>5
  DEF SessionsNext, svars, RequestRecovery, Disable, Enable, AccessExpires, LinkExpires

LEMMA StaysKnown ==
  ASSUME Types, Shapes, [SessionsNext]_svars
  PROVE  \A token \in Tokens : Known(token, row) => Known(token, row')
<1> SUFFICES ASSUME NEW token \in Tokens, token # None, Known(token, row)
             PROVE  row'[token[1]].status # "absent" /\ token[2] \in 1 .. row'[token[1]].current
  BY DEF Known
<1> DEFINE s == token[1]
<1>1. s \in Sessions /\ token[2] \in Nat
  BY TokenParts
<1>2. /\ row[s].status # "absent" => row'[s].status # "absent"
      /\ row[s].current <= row'[s].current /\ row[s].current \in Nat /\ row'[s].current \in Nat
  BY <1>1, RowStep, RowGrows DEF Types, Rows
<1> QED
  BY <1>1, <1>2 DEF Known

LEMMA SomeTokens ==
  ASSUME Types
  PROVE  /\ \A b \in Browsers : jar[b].refresh \in Tokens
         /\ \A t \in Tabs : call[t].refresh \in Tokens
BY DEF Types, Jars, CallTypes

\* What is left of the tokens stays as it was.
LEMMA IssuedQuiet ==
  ASSUME Types, Shapes, Issued, [SessionsNext]_svars,
         \A s \in Sessions : row'[s].current = row[s].current,
         \A b \in Browsers : jar'[b].refresh \in {None, jar[b].refresh},
         \A u \in Tabs : Keeps(call[u], call'[u])
  PROVE  Issued'
<1>1. \A b \in Browsers : Known(jar'[b].refresh, row')
  BY StaysKnown, SomeTokens DEF Issued, Known
<1>2. \A u \in Tabs : call'[u].refresh \in {None, call[u].refresh}
  BY DEF Keeps
<1>3. \A u \in Tabs : Known(call'[u].refresh, row')
  BY <1>2, StaysKnown, SomeTokens DEF Issued, Known
<1>4. ASSUME NEW t \in Tabs, Fresh(call'[t]) PROVE Newest(t)'
  <2>1. call'[t].refresh = call[t].refresh /\ call[t].refresh # None /\ Fresh(call[t])
    BY <1>4 DEF Keeps, Fresh
  <2>2. Newest(t) /\ call[t].refresh[1] \in Sessions
    BY <2>1, SomeTokens, TokenParts DEF Issued
  <2> QED
    BY <1>2, <2>1, <2>2 DEF Newest
<1> QED
  BY <1>1, <1>3, <1>4 DEF Issued, Known, Fresh

LEMMA IssuedStep ==
  ASSUME SessionsParameters, Types, Shapes, Issued, [SessionsNext]_svars
  PROVE  Issued'
<1>t. /\ \A b \in Browsers : jar[b].refresh \in Tokens /\ Known(jar[b].refresh, row)
      /\ \A u \in Tabs : call[u].refresh \in Tokens /\ Known(call[u].refresh, row) /\ call[u] \in CallTypes
  BY SomeTokens DEF Issued, Types
<1>k. \A token \in Tokens : Known(token, row) => Known(token, row')
  BY StaysKnown
<1>f. ASSUME NEW u \in Tabs, Fresh(call[u]) PROVE Newest(u) /\ call[u].refresh # None
  BY <1>f DEF Issued, Fresh
<1>1. ASSUME NEW t \in Tabs, RefreshSession(t) PROVE Issued'
  <2>1. UNCHANGED <<row, jar>>
    BY <1>1 DEF RefreshSession
  <2>2. CASE Jar(t).refresh = None
    <3>1. Goes(t, Idle)
      BY <1>1, <2>2 DEF RefreshSession
    <3>2. \A u \in Tabs : Keeps(call[u], call'[u])
      BY <3>1, CallOne DEF Keeps, Idle
    <3> QED
      BY <2>1, <3>2, IssuedQuiet
  <2>3. CASE Jar(t).refresh # None
    <3> DEFINE b == BrowserOf[t]
               c == [Idle EXCEPT !.op = "refresh", !.step = "sent", !.refresh = jar[b].refresh]
    <3>1. call'[t] = c /\ \A u \in Tabs : u # t => call'[u] = call[u]
      BY <1>1, <2>3, CallOne DEF RefreshSession, Jar
    <3>2. c.refresh = jar[b].refresh /\ ~ Fresh(c) /\ b \in Browsers
      BY DEF Idle, Fresh, SessionsParameters
    <3>5. /\ call'[t].refresh = jar[b].refresh /\ ~ Fresh(call'[t])
          /\ \A u \in Tabs : u # t => call'[u] = call[u]
      BY <3>1, <3>2
    <3>3. \A u \in Tabs : Known(call'[u].refresh, row')
      <4>1. Known(jar[b].refresh, row)
        BY <1>t, <3>2
      <4>2. \A u \in Tabs : call'[u].refresh = jar[b].refresh \/ call'[u].refresh = call[u].refresh
        BY <3>5
      <4> QED
        BY <1>t, <2>1, <4>1, <4>2
    <3>4. ASSUME NEW u \in Tabs, Fresh(call'[u]) PROVE Newest(u)'
      <4>1. u # t /\ call'[u] = call[u] /\ Newest(u)
        BY <1>f, <3>5, <3>4
      <4>2. call[u].refresh # jar[b].refresh
        BY <3>2, <4>1 DEF Newest
      <4> QED
        BY <2>1, <3>5, <4>1, <4>2 DEF Newest
    <3> QED
      BY <1>t, <2>1, <3>3, <3>4 DEF Issued, Known, Fresh
  <2> QED
    BY <2>2, <2>3
<1>2. ASSUME NEW t \in Tabs, Rotate(t) PROVE Issued'
  <2>0. call[t].op = "refresh" /\ call[t].step = "sent" /\ call[t].refresh # None
    BY <1>2 DEF Rotate, At, Shapes, Shape
  <2> DEFINE s == call[t].refresh[1]
             n == call[t].refresh[2]
  <2>1. s \in Sessions /\ n \in Nat /\ call[t].refresh = Refresh(s, n)
    BY <1>t, <2>0, TokenParts
  <2>2. CASE Rotates(call[t].refresh)
    <3>1. /\ row' = [row EXCEPT ![s] = RotatedRow(@)] /\ row[s].current = n
          /\ row[s].status = "live" /\ UNCHANGED jar
          /\ Goes(t, [call[t] EXCEPT !.step = "issue", !.refresh = Refresh(s, n + 1)])
      BY <1>2, <2>2 DEF Rotate, Rotates
    <3> DEFINE new == Refresh(s, n + 1)
    <3>2. new \in Tokens /\ new # None /\ new[1] = s /\ new[2] = n + 1
      BY <2>1, TokenMade
    <3>3. /\ call'[t].refresh = new
          /\ \A u \in Tabs : u # t => call'[u] = call[u]
      <4> DEFINE c == [call[t] EXCEPT !.step = "issue", !.refresh = new]
      <4>1. c.refresh = new
        BY <1>t DEF CallTypes
      <4> QED
        BY <3>1, <4>1, CallOne
    <3>4. /\ row'[s].current = n + 1 /\ row'[s].status = "live"
          /\ \A x \in Sessions : x # s => row'[x] = row[x]
      BY <2>1, <3>1 DEF Types, Rows, RotatedRow
    <3>5. Known(new, row')
      BY <2>1, <3>2, <3>4 DEF Known
    <3>6. \A token \in Tokens : Known(token, row) => token # new
      BY <2>1, <3>1, <3>2 DEF Known
    <3>7. ASSUME NEW u \in Tabs, Fresh(call'[u]) PROVE Newest(u)'
      <4>1. CASE u = t
        <5>1. call'[u].refresh = new /\ row'[new[1]].current = new[2]
          BY <3>2, <3>3, <3>4, <4>1
        <5>2. \A b \in Browsers : jar'[b].refresh # new
          BY <1>t, <3>1, <3>6
        <5>3. \A v \in Tabs : call'[v].refresh = new => v = u
          BY <1>t, <3>3, <3>6, <4>1
        <5> QED
          BY <5>1, <5>2, <5>3 DEF Newest
      <4>2. CASE u # t
        <5>1. call'[u] = call[u] /\ Newest(u) /\ call[u].refresh # None
          BY <1>f, <3>3, <3>7, <4>2
        <5>2. call[u].refresh[1] \in Sessions /\ call[u].refresh = Refresh(call[u].refresh[1], call[u].refresh[2])
          BY <1>t, <5>1, TokenParts
        <5>3. call[u].refresh[1] # s
          BY <2>1, <3>1, <4>2, <5>1, <5>2 DEF Newest
        <5>4. call[u].refresh # new
          BY <1>t, <3>6
        <5> QED
          BY <3>1, <3>3, <3>4, <5>1, <5>2, <5>3, <5>4 DEF Newest
      <4> QED
        BY <4>1, <4>2
    <3>8. \A u \in Tabs : Known(call'[u].refresh, row')
      BY <1>t, <1>k, <3>3, <3>5 DEF Known
    <3> QED
      BY <1>t, <1>k, <3>1, <3>7, <3>8 DEF Issued, Known, Fresh
  <2>3. CASE ~ Rotates(call[t].refresh)
    <3>1. Goes(t, [call[t] EXCEPT !.step = "lookup"]) /\ UNCHANGED <<row, jar>>
      BY <1>2, <2>3 DEF Rotate, To
    <3>2. \A u \in Tabs : Keeps(call[u], call'[u])
      BY <1>t, <2>0, <3>1, CallOne DEF Keeps, Fresh, CallTypes
    <3> QED
      BY <3>1, <3>2, IssuedQuiet
  <2> QED
    BY <2>2, <2>3
<1>3. ASSUME NEW t \in Tabs, CreateSession(t) PROVE Issued'
  <2>1. PICK s \in Sessions :
          /\ row[s].status = "absent" /\ row' = [row EXCEPT ![s] = NewRow]
          /\ Goes(t, [call[t] EXCEPT !.step = "answer", !.refresh = Refresh(s, 1),
                                     !.access = Access(s, call[t].version)])
    BY <1>3 DEF CreateSession
  <2> DEFINE new == Refresh(s, 1)
  <2>2. new \in Tokens /\ new # None /\ new[1] = s /\ new[2] = 1 /\ UNCHANGED jar
    BY <1>3, TokenMade DEF CreateSession
  <2>3. call'[t].refresh = new /\ \A u \in Tabs : u # t => call'[u] = call[u]
    <3> DEFINE c == [call[t] EXCEPT !.step = "answer", !.refresh = Refresh(s, 1),
                                    !.access = Access(s, call[t].version)]
    <3>1. c.refresh = new
      BY <1>t DEF CallTypes
    <3> QED
      BY <2>1, <3>1, CallOne
  <2>4. row'[s] = NewRow /\ \A x \in Sessions : x # s => row'[x] = row[x]
    BY <2>1 DEF Types
  <2>5. \A token \in Tokens : Known(token, row) /\ token # None => token # new /\ token[1] # s
    BY <2>1, <2>2 DEF Known
  <2>6. Known(new, row')
    BY <2>2, <2>4 DEF Known, NewRow
  <2>7. ASSUME NEW u \in Tabs, Fresh(call'[u]) PROVE Newest(u)'
    <3>1. CASE u = t
      <4>1. call'[u].refresh = new /\ row'[new[1]].current = new[2]
        BY <2>2, <2>3, <2>4, <3>1 DEF NewRow
      <4>2. \A b \in Browsers : jar'[b].refresh # new
        BY <1>t, <2>2, <2>5
      <4>3. \A v \in Tabs : call'[v].refresh = new => v = u
        BY <1>t, <2>2, <2>3, <2>5, <3>1
      <4> QED
        BY <4>1, <4>2, <4>3 DEF Newest
    <3>2. CASE u # t
      <4>1. call'[u] = call[u] /\ Newest(u) /\ call[u].refresh # None
        BY <1>f, <2>3, <2>7, <3>2
      <4>2. call[u].refresh[1] \in Sessions /\ call[u].refresh[1] # s /\ call[u].refresh # new
        BY <1>t, <2>5, <4>1, TokenParts
      <4> QED
        BY <2>2, <2>3, <2>4, <4>1, <4>2 DEF Newest
    <3> QED
      BY <3>1, <3>2
  <2>8. \A u \in Tabs : Known(call'[u].refresh, row')
    BY <1>t, <1>k, <2>3, <2>6 DEF Known
  <2> QED
    BY <1>t, <1>k, <2>2, <2>7, <2>8 DEF Issued, Known, Fresh
<1>4. ASSUME NEW t \in Tabs, Arrive(t) PROVE Issued'
  <2>1. UNCHANGED row /\ call'[t] = Idle /\ \A u \in Tabs : u # t => call'[u] = call[u]
    BY <1>4, CallOne DEF Arrive
  <2>2. \A u \in Tabs : Keeps(call[u], call'[u])
    BY <2>1 DEF Keeps, Idle
  <2>3. CASE \A b \in Browsers : jar'[b].refresh \in {None, jar[b].refresh}
    BY <2>1, <2>2, <2>3, IssuedQuiet
  <2>4. ASSUME NEW b \in Browsers, jar'[b].refresh \notin {None, jar[b].refresh} PROVE Issued'
    <3> DEFINE x == BrowserOf[t]
    <3>1. /\ jar'[x] = Cookies(jar[x], call[t]) /\ x \in Browsers
          /\ \A y \in Browsers : y # x => jar'[y] = jar[y]
      BY <1>4 DEF Arrive, Types, SessionsParameters
    <3>2. jar'[x].refresh \notin {None, jar[x].refresh}
      BY <2>4, <3>1
    <3>3. jar'[x].refresh = call[t].refresh /\ Fresh(call[t])
      BY <1>4, <3>1, <3>2 DEF Cookies, Empty, Fresh, Arrive, Answered
    <3>4. \A y \in Browsers : Known(jar'[y].refresh, row')
      BY <1>t, <1>k, <3>1, <3>3 DEF Known
    <3>5. \A u \in Tabs : Known(call'[u].refresh, row')
      BY <1>t, <1>k, <2>1 DEF Known, Idle
    <3>6. ASSUME NEW u \in Tabs, Fresh(call'[u]) PROVE Newest(u)'
      <4>1. u # t /\ call'[u] = call[u] /\ Newest(u) /\ call[u].refresh # None
        BY <1>f, <2>1, <3>6 DEF Fresh, Idle
      <4>2. call[t].refresh # call[u].refresh
        BY <4>1 DEF Newest
      <4> QED
        BY <2>1, <3>1, <3>3, <4>1, <4>2 DEF Newest, Idle
    <3> QED
      BY <3>4, <3>5, <3>6 DEF Issued, Known, Fresh
  <2> QED
    BY <2>3, <2>4
<1>5. ASSUME \A t \in Tabs : ~ Hands(t) /\ ~ Arrive(t) PROVE Issued'
  <2>1. \A s \in Sessions : row'[s].current = row[s].current
    BY <1>5, CurrentKept DEF Hands
  <2>2. \A b \in Browsers : jar'[b].refresh \in {None, jar[b].refresh}
    <3>1. ASSUME NEW b \in Browsers PROVE JarMoves(b) /\ jar[b] \in Jars
      BY JarsStep DEF Types
    <3> QED
      BY <1>5, <3>1 DEF JarMoves, Jars
  <2>3. \A u \in Tabs : Keeps(call[u], call'[u])
    <3>1. CASE UNCHANGED call
      BY <3>1 DEF Keeps
    <3>2. ASSUME NEW t \in Tabs, TabStep(t) PROVE \A u \in Tabs : Keeps(call[u], call'[u])
      BY <1>5, <3>2, KeepsStep DEF Keeps
    <3> QED
      BY <3>1, <3>2 DEF SessionsNext, svars, RequestRecovery, Disable, Enable, GraceEnds,
         AccessExpires, SessionExpires, LinkExpires
  <2> QED
    BY <2>1, <2>2, <2>3, IssuedQuiet
<1> QED
  BY <1>1, <1>2, <1>3, <1>4, <1>5 DEF Hands

-----------------------------------------------------------------------------
(* Reuse detection: whose token has been rotated out.                      *)

\* Where the refresh tokens of the next state come from.
LEMMA TokensFrom ==
  ASSUME SessionsParameters, Types, Shapes, [SessionsNext]_svars
  PROVE  /\ \A b \in Browsers :
              jar'[b].refresh # None =>
                \/ jar[b].refresh = jar'[b].refresh
                \/ \E t \in Tabs : Fresh(call[t]) /\ call[t].refresh = jar'[b].refresh
         /\ \A t \in Tabs :
              call'[t].op = "refresh" /\ call'[t].refresh # None =>
                \/ call[t].op = "refresh" /\ call[t].refresh = call'[t].refresh
                \/ \E b \in Browsers : jar[b].refresh = call'[t].refresh
                \/ \E s \in Sessions : row'[s] = RotatedRow(row[s]) /\ call'[t].refresh[1] = s
<1>1. ASSUME NEW b \in Browsers, jar'[b].refresh # None, jar'[b].refresh # jar[b].refresh
      PROVE  \E t \in Tabs : Fresh(call[t]) /\ call[t].refresh = jar'[b].refresh
  <2>0. jar[b] \in Jars /\ JarMoves(b)
    BY JarsStep DEF Types
  <2>1. PICK t \in Tabs : Arrive(t) /\ jar'[b] = Cookies(jar[b], call[t])
    BY <1>1, <2>0 DEF JarMoves, Jars
  <2>2. Fresh(call[t]) /\ call[t].refresh = jar'[b].refresh
    BY <1>1, <2>1 DEF Cookies, Empty, Fresh, Arrive, Answered
  <2> QED
    BY <2>2
<1>2. ASSUME NEW t \in Tabs, call'[t].op = "refresh", call'[t].refresh # None,
             ~ (call[t].op = "refresh" /\ call[t].refresh = call'[t].refresh)
      PROVE  \/ \E b \in Browsers : jar[b].refresh = call'[t].refresh
             \/ \E s \in Sessions : row'[s] = RotatedRow(row[s]) /\ call'[t].refresh[1] = s
  <2> DEFINE k == call[t]
  <2>0. k \in CallTypes /\ Shape(k) /\ k.refresh \in Tokens
    BY SomeTokens DEF Types, Shapes
  <2>1. CASE UNCHANGED call
    BY <1>2, <2>1
  <2>2. ASSUME NEW u \in Tabs, TabStep(u), ~ Hands(u) PROVE FALSE
    <3>1. Keeps(call[u], call'[u]) /\ \A v \in Tabs : v # u => call'[v] = call[v]
      BY <2>2, KeepsStep
    <3> QED
      BY <1>2, <3>1 DEF Keeps
  <2>3. ASSUME NEW u \in Tabs, Hands(u), u # t PROVE FALSE
    <3>1. \E c : Goes(u, c)
      BY <2>3 DEF Hands, RefreshSession, Rotate, CreateSession, To
    <3>2. call'[t] = call[t]
      BY <2>3, <3>1, CallOne
    <3> QED
      BY <1>2, <3>2
  <2>4. CASE RefreshSession(t)
    <3> DEFINE b == BrowserOf[t]
               c == [Idle EXCEPT !.op = "refresh", !.step = "sent", !.refresh = jar[b].refresh]
    <3>1. Goes(t, Idle) \/ Goes(t, c)
      BY <2>4 DEF RefreshSession, Jar
    <3>2. Idle.op # "refresh" /\ c.refresh = jar[b].refresh /\ b \in Browsers
      BY DEF Idle, SessionsParameters
    <3> QED
      BY <1>2, <3>1, <3>2, CallOne
  <2>5. CASE Rotate(t)
    <3>0. k.op = "refresh" /\ k.refresh # None
      BY <2>0, <2>5 DEF Rotate, At, Shape
    <3>1. CASE Rotates(k.refresh)
      <4> DEFINE s == k.refresh[1]
                 new == Refresh(s, row[s].current + 1)
                 c == [k EXCEPT !.step = "issue", !.refresh = new]
      <4>1. row' = [row EXCEPT ![s] = RotatedRow(@)] /\ Goes(t, c)
        BY <2>5, <3>1 DEF Rotate
      <4>2. s \in Sessions
        BY <2>0, <3>0, TokenParts
      <4>3. c.refresh = new /\ new[1] = s
        BY <2>0 DEF CallTypes, Refresh
      <4>4. call'[t].refresh[1] = s
        BY <4>1, <4>3, CallOne
      <4>5. row'[s] = RotatedRow(row[s])
        BY <4>1, <4>2 DEF Types
      <4> QED
        BY <4>2, <4>4, <4>5
    <3>2. CASE ~ Rotates(k.refresh)
      <4> DEFINE c == [k EXCEPT !.step = "lookup"]
      <4>1. Goes(t, c) /\ c.refresh = k.refresh
        BY <2>0, <2>5, <3>2 DEF Rotate, To, CallTypes
      <4>2. call'[t].refresh = k.refresh
        BY <4>1, CallOne
      <4> QED
        BY <1>2, <3>0, <4>2
    <3> QED
      BY <3>1, <3>2
  <2>6. CASE CreateSession(t)
    <3>1. PICK s \in Sessions :
            Goes(t, [k EXCEPT !.step = "answer", !.refresh = Refresh(s, 1),
                              !.access = Access(s, k.version)])
      BY <2>6 DEF CreateSession
    <3> DEFINE c == [k EXCEPT !.step = "answer", !.refresh = Refresh(s, 1),
                              !.access = Access(s, k.version)]
    <3>2. c.op = "login"
      BY <2>0, <2>6 DEF CreateSession, At, CallTypes
    <3> QED
      BY <1>2, <3>1, <3>2, CallOne
  <2> QED
    BY <2>1, <2>2, <2>3, <2>4, <2>5, <2>6
    DEF Hands, SessionsNext, svars, RequestRecovery, Disable, Enable, GraceEnds, AccessExpires,
        SessionExpires, LinkExpires
<1> QED
  BY <1>1, <1>2

\* When the grace of a session ends, what its browser has is looked at.
LEMMA AgedStep ==
  ASSUME Types, Shapes, [SessionsNext]_svars, NEW s \in Sessions,
         row[s].status # "absent", row'[s].aged, ~ row[s].aged
  PROVE  UNCHANGED <<jar, call>> /\ (Behind(s) => s \in lapsed')
<1>0. row[s] \in Rows /\ row \in [Sessions -> Rows]
  BY DEF Types
<1>1. GraceEnds
  <2>1. row'[s] # RotatedRow(row[s]) /\ row'[s] # row[s]
    BY <1>0 DEF RotatedRow, Rows
  <2>2. ASSUME NEW t \in Tabs, Rotate(t) PROVE FALSE
    <3>1. row' # row
      BY <2>1
    <3>2. row' = [row EXCEPT ![call[t].refresh[1]] = RotatedRow(@)]
      BY <2>2, <3>1 DEF Rotate
    <3> QED
      BY <1>0, <2>1, <3>2
  <2>3. ASSUME NEW t \in Tabs, CreateSession(t) PROVE FALSE
    BY <1>0, <2>1, <2>3 DEF CreateSession
  <2> QED
    BY <2>2, <2>3, CurrentKept
<1>2. PICK x \in Sessions : /\ row' = [row EXCEPT ![x].aged = TRUE]
                            /\ lapsed' = IF Behind(x) THEN lapsed \cup {x} ELSE lapsed
  BY <1>1 DEF GraceEnds
<1>3. x = s
  BY <1>0, <1>2
<1> QED
  BY <1>1, <1>2, <1>3 DEF GraceEnds

\* Which step brings a call where.
LEMMA StepBy ==
  ASSUME SessionsParameters, Types, Shapes, [SessionsNext]_svars, NEW t \in Tabs, call'[t] # call[t]
  PROVE  /\ call'[t].step = "lookup" => Rotate(t)
         /\ call'[t].step = "reuse" => LookUp(t)
         /\ call'[t].step = "refused" => LookUp(t) \/ DetectReuse(t)
         /\ call'[t].step = "write" => ConfirmRecovery(t) \/ ChangePassword(t)
         /\ call'[t].step = "sweep" => WritePassword(t)
<1> DEFINE k == call[t]
           G(a, P) == a => call'[t].step \in P
<1>0. k \in CallTypes /\ Idle \in CallTypes
  BY IdleShape DEF Types
<1>c. \A c : Goes(t, c) => call'[t] = c
  BY CallOne
<1>1. G(Ask(t), {"unauthorized"}) /\ G(Login(t), {"insert"}) /\ G(Logout(t), {"sent"})
  BY <1>0, <1>c DEF Ask, Login, Logout, CallTypes
<1>2. G(RefreshSession(t), {"idle", "sent"}) /\ G(Arrive(t), {"idle"}) /\ G(AnswerLost(t), {"idle"})
  <2> DEFINE c == [Idle EXCEPT !.op = "refresh", !.step = "sent", !.refresh = Jar(t).refresh]
  <2>1. Idle.step = "idle" /\ c.step = "sent"
    BY DEF Idle
  <2>2. RefreshSession(t) => Goes(t, Idle) \/ Goes(t, c)
    BY DEF RefreshSession
  <2>3. Arrive(t) \/ AnswerLost(t) => Goes(t, Idle)
    BY DEF Arrive, AnswerLost
  <2> HIDE DEF c
  <2> QED
    BY <1>c, <2>1, <2>2, <2>3
<1>3. G(Rotate(t), {"issue", "lookup"})
  BY <1>0, <1>c DEF Rotate, To, CallTypes
<1>4. G(LookUp(t), {"issue", "reuse", "refused"})
  BY <1>0, <1>c DEF LookUp, Verdict, CallTypes
<1>5. G(Issue(t), {"answer", "failed"})
  BY <1>0, <1>c DEF Issue, CallTypes
<1>6. G(DetectReuse(t), {"refused"}) /\ G(EndSession(t), {"answer"})
  BY <1>0, <1>c DEF DetectReuse, EndSession, To, CallTypes
<1>7. G(CreateSession(t), {"answer"}) /\ G(RevokeOthers(t), {"answer"})
  <2> DEFINE c(s) == [k EXCEPT !.step = "answer", !.refresh = Refresh(s, 1),
                               !.access = Access(s, k.version)]
             d == [k EXCEPT !.step = "answer",
                            !.access = IF @ = None THEN None ELSE Access(@[1], k.version)]
  <2>1. (\A s : c(s).step = "answer") /\ d.step = "answer"
    BY <1>0 DEF CallTypes
  <2>2. (CreateSession(t) => \E s : Goes(t, c(s))) /\ (RevokeOthers(t) => Goes(t, d))
    BY DEF CreateSession, RevokeOthers
  <2> HIDE DEF c, d
  <2> QED
    BY <1>c, <2>1, <2>2
<1>8. G(WritePassword(t), {"sweep"})
  BY <1>0, <1>c DEF WritePassword, CallTypes
<1>9. G(Fails(t), {"idle", "failed"})
  BY <1>0, <1>c DEF Fails, To, CallTypes, Idle
<1>10. ~ RevokeSession(t)
  BY DEF RevokeSession
<1>11. TabStep(t)
  <2>1. PICK u \in Tabs : TabStep(u)
    BY DEF SessionsNext, svars, RequestRecovery, Disable, Enable, GraceEnds, AccessExpires,
       SessionExpires, LinkExpires
  <2>2. \E c \in CallTypes : Goes(u, c)
    BY <2>1, ShapeStep
  <2> QED
    BY <2>1, <2>2, CallOne
<1>12. \/ call'[t].step \notin {"lookup", "reuse", "refused", "write", "sweep"}
       \/ Rotate(t) \/ LookUp(t) \/ DetectReuse(t) \/ ConfirmRecovery(t) \/ ChangePassword(t)
       \/ WritePassword(t)
  BY <1>1, <1>2, <1>5, <1>6, <1>7, <1>9, <1>10, <1>11 DEF TabStep
<1>13. G(ConfirmRecovery(t), {"write"}) /\ G(ChangePassword(t), {"write"})
  BY <1>0, <1>c DEF ConfirmRecovery, ChangePassword, CallTypes
<1> QED
  BY <1>3, <1>4, <1>6, <1>8, <1>12, <1>13

LEMMA LapsesStep ==
  ASSUME SessionsParameters, Types, Shapes, Issued, Lapses, [SessionsNext]_svars, Issued'
  PROVE  Lapses'
<1>t. /\ \A b \in Browsers : jar[b].refresh \in Tokens /\ Known(jar[b].refresh, row)
      /\ \A u \in Tabs : /\ call[u].refresh \in Tokens /\ Known(call[u].refresh, row)
                         /\ call[u] \in CallTypes /\ Shape(call[u])
  BY SomeTokens DEF Issued, Types, Shapes
<1>0. lapsed \subseteq lapsed'
  BY DEF SessionsNext, svars, history, RequestRecovery, Disable, Enable, GraceEnds, AccessExpires,
     SessionExpires, LinkExpires, TabStep, Ask, RefreshSession, Rotate, LookUp, Issue, DetectReuse,
     Login, CreateSession, Logout, EndSession, RevokeSession, ConfirmRecovery, ChangePassword,
     WritePassword, RevokeOthers, Arrive, AnswerLost, Fails
<1>1. ASSUME NEW s \in Sessions, row'[s].status # "absent", row'[s].aged, Behind(s)' PROVE s \in lapsed'
  <2>0. row[s] \in Rows /\ RowShape(row[s]) /\ RowMoves(s) /\ row'[s] \in Rows
    BY RowStep, RowGrows DEF Types, Shapes
  <2> DEFINE old == Refresh(s, row'[s].previous)
  <2>1. old \in Tokens /\ old # None /\ old[1] = s /\ old[2] = row'[s].previous
    BY <2>0, TokenMade DEF Rows
  <2>2. Known(old, row')
    BY <1>1, <2>1 DEF Behind, Issued
  <2>3. row'[s].previous # 0
    BY <2>1, <2>2 DEF Known
  <2>4. row'[s] # RotatedRow(row[s])
    BY <1>1, <2>0 DEF RotatedRow, Rows
  <2>5. /\ row[s].status # "absent" /\ row'[s].previous = row[s].previous
        /\ row[s].previous + 1 = row[s].current
    BY <2>0, <2>3, <2>4 DEF RowMoves, NewRow, Ended, Rows, RowShape, NoRow
  <2>6. \A u \in Tabs : Fresh(call[u]) => call[u].refresh # old
    BY <2>0, <2>1, <2>5 DEF Issued, Newest, Rows
  <2>7. Behind(s)
    <3>1. CASE \E b \in Browsers : jar'[b].refresh = old
      <4>1. PICK b \in Browsers : jar'[b].refresh = old
        BY <3>1
      <4>2. jar[b].refresh = old
        BY <2>1, <2>6, <4>1, TokensFrom
      <4> QED
        BY <2>5, <4>2 DEF Behind
    <3>2. CASE \E t \in Tabs : call'[t].op = "refresh" /\ call'[t].refresh = old
      <4>1. PICK t \in Tabs : call'[t].op = "refresh" /\ call'[t].refresh = old
        BY <3>2
      <4>2. \/ call[t].op = "refresh" /\ call[t].refresh = old
            \/ \E b \in Browsers : jar[b].refresh = old
        BY <2>1, <2>4, <4>1, TokensFrom
      <4> QED
        BY <2>5, <4>2 DEF Behind
    <3> QED
      BY <1>1, <3>1, <3>2 DEF Behind
  <2>8. CASE row[s].aged
    BY <1>0, <2>5, <2>7, <2>8 DEF Lapses
  <2>9. CASE ~ row[s].aged
    BY <1>1, <2>5, <2>7, <2>9, AgedStep
  <2> QED
    BY <2>8, <2>9
<1>2. ASSUME NEW t \in Tabs, LookUp(t), Verdict(call[t].refresh) = "reuse"
      PROVE  call[t].refresh[1] \in lapsed
  <2> DEFINE s == call[t].refresh[1]
  <2>1. /\ call[t].op = "refresh" /\ call[t].refresh # None
        /\ row[s].previous = call[t].refresh[2] /\ row[s].aged = TRUE
    <3>1. call[t].op = "refresh" /\ call[t].refresh # None
      BY <1>t, <1>2 DEF LookUp, At, Shape
    <3>2. row[s].previous = call[t].refresh[2] /\ ~ InGrace(call[t].refresh)
      BY <1>2 DEF Verdict
    <3>3. s \in Sessions /\ row[s].aged \in BOOLEAN
      BY <1>t, <3>1, TokenParts DEF Types, Rows
    <3> QED
      BY <3>1, <3>2, <3>3 DEF InGrace
  <2>2. s \in Sessions /\ call[t].refresh = Refresh(s, row[s].previous) /\ row[s].status # "absent"
    BY <1>t, <2>1, TokenParts DEF Known
  <2> QED
    BY <2>1, <2>2 DEF Lapses, Behind
<1>3. ASSUME NEW t \in Tabs, At(t, "refresh", "reuse")' PROVE call'[t].refresh[1] \in lapsed'
  <2>1. CASE call'[t] = call[t]
    BY <1>0, <1>3, <2>1 DEF At, Lapses
  <2>2. CASE LookUp(t) /\ call'[t] # call[t]
    <3> DEFINE c == [call[t] EXCEPT !.step = "issue", !.access = Access(call[t].refresh[1], 0)]
               d == [call[t] EXCEPT !.step = Verdict(call[t].refresh)]
    <3>1. c.step = "issue" /\ d.refresh = call[t].refresh
          /\ (Verdict(call[t].refresh) \in {"refused", "reuse"} => d.step = Verdict(call[t].refresh))
      BY <1>t DEF CallTypes
    <3>2. CASE Verdict(call[t].refresh) = "issue"
      <4>1. call'[t] = c
        BY <2>2, <3>2, CallOne DEF LookUp
      <4> QED
        BY <1>3, <3>1, <4>1 DEF At
    <3>3. CASE Verdict(call[t].refresh) \in {"refused", "reuse"}
      <4>1. call'[t] = d
        BY <2>2, <3>3, CallOne DEF LookUp
      <4>2. Verdict(call[t].refresh) = "reuse"
        BY <1>3, <3>1, <3>3, <4>1 DEF At
      <4> QED
        BY <1>0, <1>2, <2>2, <3>1, <4>1, <4>2
    <3> QED
      BY <3>2, <3>3 DEF Verdict
  <2> QED
    BY <1>3, <2>1, <2>2, StepBy DEF At
<1>4. reused' \subseteq lapsed'
  <2>1. CASE UNCHANGED reused
    BY <1>0, <2>1 DEF Lapses
  <2>2. ASSUME NEW t \in Tabs, DetectReuse(t) PROVE reused' \subseteq lapsed'
    BY <1>0, <2>2 DEF DetectReuse, Lapses
  <2> QED
    BY <2>1, <2>2
    DEF SessionsNext, svars, history, RequestRecovery, Disable, Enable, GraceEnds, AccessExpires,
        SessionExpires, LinkExpires, TabStep, Ask, RefreshSession, Rotate, LookUp, Issue,
        Login, CreateSession, Logout, EndSession, RevokeSession, ConfirmRecovery, ChangePassword,
        WritePassword, RevokeOthers, Arrive, AnswerLost, Fails
<1> QED
  BY <1>1, <1>3, <1>4 DEF Lapses, At, Behind

-----------------------------------------------------------------------------
(* What is refused of a session that lives.                                *)

LEMMA LiveStays ==
  ASSUME Types, Shapes, [SessionsNext]_svars, NEW token \in Tokens, token # None,
         Known(token, row), row'[token[1]].status = "live"
  PROVE  /\ row[token[1]].status = "live" /\ row[token[1]].previous <= row'[token[1]].previous
         /\ token[2] \in Nat /\ row[token[1]].previous \in Nat /\ row'[token[1]].previous \in Nat
         /\ row[token[1]].current = row[token[1]].previous + 1
<1> DEFINE s == token[1]
<1>1. s \in Sessions /\ token[2] \in Nat
  BY TokenParts
<1>2. row[s] \in Rows /\ RowShape(row[s]) /\ row[s].status # "absent"
  BY <1>1 DEF Types, Shapes, Known
<1>3. /\ row'[s] \in Rows /\ row[s].previous <= row'[s].previous
      /\ row'[s].status = "live" => row[s].status \in {"live", "absent"}
  BY <1>1, RowStep, RowGrows
<1> QED
  BY <1>1, <1>2, <1>3 DEF Rows, RowShape

LEMMA RevokedAll ==
  ASSUME Types, Revoke(Sessions)
  PROVE  \A s \in Sessions : row'[s].status # "live"
<1> SUFFICES ASSUME NEW s \in Sessions PROVE row'[s].status # "live"
  OBVIOUS
<1>1. row[s] \in Rows
  BY DEF Types
<1>2. CASE row[s].status \in {"live", "expired"}
  <2>1. row'[s] = [row[s] EXCEPT !.status = "revoked"]
    BY <1>2 DEF Revoke
  <2> QED
    BY <1>1, <2>1 DEF Rows
<1>3. CASE row[s].status \notin {"live", "expired"}
  BY <1>3 DEF Revoke
<1> QED
  BY <1>2, <1>3

LEMMA OutdatedStep ==
  ASSUME SessionsParameters, Types, Shapes, Issued, Outdated, [SessionsNext]_svars
  PROVE  Outdated'
<1>t. \A t \in Tabs : /\ call[t].refresh \in Tokens /\ Known(call[t].refresh, row)
                      /\ call[t] \in CallTypes /\ Shape(call[t])
  BY SomeTokens DEF Issued, Types, Shapes
<1> SUFFICES ASSUME NEW t \in Tabs
             PROVE  LET token == call'[t].refresh IN
                    /\ At(t, "refresh", "lookup")' /\ row'[token[1]].status = "live"
                         => token[2] <= row'[token[1]].previous
                    /\ At(t, "refresh", "refused")' /\ row'[token[1]].status = "live"
                         => token[2] < row'[token[1]].previous
  BY DEF Outdated, At
<1> DEFINE token == call[t].refresh
           s == token[1]
           n == token[2]
<1>0. /\ token \in Tokens /\ Known(token, row) /\ call[t] \in CallTypes /\ Shape(call[t])
      /\ At(t, "refresh", "lookup") /\ row[s].status = "live" => n <= row[s].previous
      /\ At(t, "refresh", "refused") /\ row[s].status = "live" => n < row[s].previous
  BY <1>t DEF Outdated
<1>1. CASE call'[t] = call[t]
  <2>1. CASE At(t, "refresh", "lookup") \/ At(t, "refresh", "refused")
    <3>1. token # None
      BY <1>0, <2>1 DEF At, Shape
    <3>2. ASSUME row'[s].status = "live"
          PROVE  /\ row[s].status = "live" /\ row[s].previous <= row'[s].previous
                 /\ n \in Nat /\ row[s].previous \in Nat /\ row'[s].previous \in Nat
      BY <1>0, <3>1, <3>2, LiveStays
    <3>3. row'[s].status = "live" =>
            /\ At(t, "refresh", "lookup") => n <= row'[s].previous
            /\ At(t, "refresh", "refused") => n < row'[s].previous
      BY <1>0, <3>2
    <3> QED
      BY <1>1, <3>3 DEF At
  <2> QED
    BY <1>1, <2>1 DEF At
<1>2. ASSUME call'[t] # call[t], At(t, "refresh", "lookup")', row'[call'[t].refresh[1]].status = "live"
      PROVE  call'[t].refresh[2] <= row'[call'[t].refresh[1]].previous
  <2>1. Rotate(t)
    BY <1>2, StepBy DEF At
  <2>2. token # None
    BY <1>0, <2>1 DEF Rotate, At, Shape
  <2>3. ~ Rotates(token)
    <3>1. ASSUME Rotates(token) PROVE FALSE
      <4> DEFINE c == [call[t] EXCEPT !.step = "issue", !.refresh = Refresh(s, row[s].current + 1)]
      <4>1. c.step = "issue" /\ Goes(t, c)
        BY <1>0, <2>1, <3>1 DEF Rotate, CallTypes
      <4> HIDE DEF c
      <4> QED
        BY <1>2, <4>1, CallOne DEF At
    <3> QED
      BY <3>1
  <2>4. Goes(t, [call[t] EXCEPT !.step = "lookup"]) /\ UNCHANGED row
    BY <2>1, <2>3 DEF Rotate, To
  <2>5. call'[t].refresh = token
    BY <1>0, <2>4, CallOne DEF CallTypes
  <2>6. row[s].status = "live" /\ row[s].current # n
    BY <1>2, <2>3, <2>4, <2>5 DEF Rotates
  <2>7. n \in 1 .. row[s].current /\ row[s].previous \in Nat /\ row[s].current = row[s].previous + 1
    BY <1>0, <1>2, <2>2, <2>5, LiveStays DEF Known
  <2> QED
    BY <2>4, <2>5, <2>6, <2>7
<1>3. ASSUME call'[t] # call[t], At(t, "refresh", "refused")', row'[call'[t].refresh[1]].status = "live"
      PROVE  call'[t].refresh[2] < row'[call'[t].refresh[1]].previous
  <2>1. CASE DetectReuse(t)
    <3>1. token # None /\ Goes(t, [call[t] EXCEPT !.step = "refused"]) /\ Revoke(Sessions)
      BY <1>0, <2>1 DEF DetectReuse, To, At, Shape
    <3>2. call'[t].refresh = token /\ s \in Sessions
      BY <1>0, <3>1, CallOne, TokenParts DEF CallTypes
    <3> QED
      BY <1>3, <3>1, <3>2, RevokedAll
  <2>2. CASE LookUp(t)
    <3>1. token # None /\ UNCHANGED row /\ At(t, "refresh", "lookup")
      BY <1>0, <2>2 DEF LookUp, At, Shape
    <3>2. Verdict(token) # "issue"
      <4>1. ASSUME Verdict(token) = "issue" PROVE FALSE
        <5> DEFINE c == [call[t] EXCEPT !.step = "issue", !.access = Access(s, 0)]
        <5>1. c.step = "issue" /\ Goes(t, c)
          BY <1>0, <2>2, <4>1 DEF LookUp, CallTypes
        <5> HIDE DEF c
        <5> QED
          BY <1>3, <5>1, CallOne DEF At
      <4> QED
        BY <4>1
    <3>3. Goes(t, [call[t] EXCEPT !.step = Verdict(token)])
      BY <2>2, <3>2 DEF LookUp
    <3>4. call'[t].refresh = token /\ call'[t].step = Verdict(token)
      BY <1>0, <3>2, <3>3, CallOne DEF CallTypes, Verdict
    <3>5. row[s].status = "live" /\ row[s].previous # n
      BY <1>3, <3>1, <3>4 DEF Verdict, At
    <3>6. n <= row[s].previous /\ n \in Nat /\ row[s].previous \in Nat
      BY <1>0, <1>3, <3>1, <3>4, <3>5, LiveStays
    <3> QED
      BY <3>1, <3>4, <3>5, <3>6
  <2> QED
    BY <1>3, <2>1, <2>2, StepBy DEF At
<1> QED
  BY <1>1, <1>2, <1>3

-----------------------------------------------------------------------------
(* Reset links, changes of the password and what they sign out.            *)

LEMMA LinksStep ==
  ASSUME SessionsParameters, Types, Shapes, LinksUsed, [SessionsNext]_svars
  PROVE  LinksUsed'
<1>t. /\ link \in [Links -> {"unsent", "valid", "spent"}] /\ resets \in [Links -> Nat]
      /\ \A t \in Tabs : call[t] \in CallTypes /\ Shape(call[t])
  BY DEF Types, Shapes
<1>1. ASSUME UNCHANGED resets, \A l \in Links : link'[l] = link[l] \/ (link[l] # "spent" /\ link'[l] \in {"valid", "spent"}),
             \A t \in Tabs, l \in Links : Resetting(t, l)' => Resetting(t, l)
      PROVE  LinksUsed'
  BY <1>t, <1>1 DEF LinksUsed
<1>2. ASSUME NEW t \in Tabs, NEW l \in Links, Resetting(t, l)', ~ ConfirmRecovery(t) PROVE Resetting(t, l)
  <2>1. CASE call'[t] = call[t]
    BY <1>2, <2>1 DEF Resetting, At
  <2>2. CASE call'[t] # call[t]
    <3>1. ChangePassword(t)
      BY <1>2, <2>2, StepBy DEF Resetting, At
    <3> DEFINE c == [Idle EXCEPT !.op = "change", !.step = "write", !.access = Jar(t).access]
    <3>2. Goes(t, c) /\ c.op = "change"
      BY <3>1 DEF ChangePassword, Idle
    <3> HIDE DEF c
    <3> QED
      BY <1>2, <3>2, CallOne DEF Resetting, At
  <2> QED
    BY <2>1, <2>2
<1>3. ASSUME NEW t \in Tabs, ConfirmRecovery(t) PROVE LinksUsed'
  <2>1. PICK l \in Links : /\ link[l] = "valid" /\ link' = [link EXCEPT ![l] = "spent"]
                           /\ Goes(t, [Idle EXCEPT !.op = "reset", !.step = "write", !.link = l])
    BY <1>3 DEF ConfirmRecovery, Consume
  <2>2. UNCHANGED resets /\ call[t] = Idle
    BY <1>3 DEF ConfirmRecovery, history
  <2>3. call'[t].op = "reset" /\ call'[t].step = "write" /\ call'[t].link = l
    <3> DEFINE c == [Idle EXCEPT !.op = "reset", !.step = "write", !.link = l]
    <3>1. c.op = "reset" /\ c.step = "write" /\ c.link = l
      BY DEF Idle
    <3> HIDE DEF c
    <3> QED
      BY <2>1, <3>1, CallOne DEF c
  <2>4. \A u \in Tabs : u # t => call'[u] = call[u]
    BY <2>1, CallOne
  <2>5. link'[l] = "spent" /\ \A x \in Links : x # l => link'[x] = link[x]
    BY <1>t, <2>1
  <2>6. resets[l] = 0 /\ \A u \in Tabs : ~ Resetting(u, l)
    BY <2>1 DEF LinksUsed
  <2>7. \A u \in Tabs, x \in Links : Resetting(u, x)' => (u = t /\ x = l) \/ (u # t /\ x # l /\ Resetting(u, x))
    BY <2>3, <2>4, <2>6 DEF Resetting, At
  <2>8. \A x \in Links : resets'[x] <= 1 /\ (link'[x] # "spent" => resets'[x] = 0)
    BY <2>2, <2>5 DEF LinksUsed
  <2>9. ASSUME NEW u \in Tabs, NEW x \in Links, Resetting(u, x)'
        PROVE  /\ link'[x] = "spent" /\ resets'[x] = 0
               /\ \A v \in Tabs : Resetting(v, x)' => v = u
    BY <2>2, <2>5, <2>6, <2>7, <2>9 DEF LinksUsed
  <2> QED
    BY <2>8, <2>9 DEF LinksUsed
<1>4. ASSUME NEW t \in Tabs, WritePassword(t) PROVE LinksUsed'
  <2>0. UNCHANGED link
    BY <1>4 DEF WritePassword
  <2>1. call'[t].step = "sweep" /\ \A u \in Tabs : u # t => call'[u] = call[u]
    <3> DEFINE c == [call[t] EXCEPT !.step = "sweep", !.version = user.version + 1]
    <3>1. c.step = "sweep" /\ Goes(t, c)
      BY <1>t, <1>4 DEF WritePassword, CallTypes
    <3> HIDE DEF c
    <3> QED
      BY <3>1, CallOne
  <2>2. \A u \in Tabs, x \in Links : Resetting(u, x)' => u # t /\ Resetting(u, x)
    BY <2>1 DEF Resetting, At
  <2>3. CASE call[t].op = "reset"
    <3> DEFINE l == call[t].link
    <3>1. l \in Links /\ Resetting(t, l)
      BY <1>t, <1>4, <2>3 DEF WritePassword, Shape, Resetting, At
    <3>2. resets[l] = 0 /\ link[l] = "spent" /\ \A u \in Tabs : Resetting(u, l) => u = t
      BY <3>1 DEF LinksUsed
    <3>3. resets'[l] = resets[l] + 1 /\ \A x \in Links : x # l => resets'[x] = resets[x]
      BY <1>t, <1>4, <2>3, <3>1 DEF WritePassword
    <3>4. \A x \in Links : resets'[x] <= 1 /\ (link'[x] # "spent" => resets'[x] = 0)
      BY <2>0, <3>2, <3>3 DEF LinksUsed
    <3>5. ASSUME NEW u \in Tabs, NEW x \in Links, Resetting(u, x)'
          PROVE  /\ link'[x] = "spent" /\ resets'[x] = 0
                 /\ \A v \in Tabs : Resetting(v, x)' => v = u
      <4>1. x # l
        BY <2>2, <3>2, <3>5
      <4> QED
        BY <2>0, <2>2, <3>3, <3>5, <4>1 DEF LinksUsed
    <3> QED
      BY <3>4, <3>5 DEF LinksUsed
  <2>4. CASE call[t].op # "reset"
    BY <1>1, <1>4, <2>0, <2>2, <2>4 DEF WritePassword
  <2> QED
    BY <2>3, <2>4
<1>5. ASSUME RequestRecovery \/ LinkExpires PROVE LinksUsed'
  <2>1. UNCHANGED <<call, resets>> /\ \A l \in Links : link'[l] = link[l] \/ (link[l] # "spent" /\ link'[l] \in {"valid", "spent"})
    BY <1>t, <1>5 DEF RequestRecovery, LinkExpires, history
  <2> QED
    BY <1>1, <2>1 DEF Resetting, At
<1>6. CASE UNCHANGED <<link, resets>>
  <2>1. CASE \E t \in Tabs : ConfirmRecovery(t)
    BY <1>3, <2>1
  <2> QED
    BY <1>1, <1>2, <1>6, <2>1
<1> QED
  BY <1>3, <1>4, <1>5, <1>6
  DEF SessionsNext, svars, history, Disable, Enable, GraceEnds, AccessExpires, SessionExpires,
      TabStep, Ask, RefreshSession, Rotate, LookUp, Issue, DetectReuse, Login, CreateSession, Logout,
      EndSession, RevokeSession, ChangePassword, RevokeOthers, Arrive, AnswerLost, Fails

\* A step other than the change of a password, a disabling and a sign-in.
LEMMA SignedOutQuiet ==
  ASSUME SessionsParameters, Types, Shapes, SignedOut, [SessionsNext]_svars,
         user'.version = user.version, made' = made, spared' = spared,
         \A t \in Tabs : ~ RevokeOthers(t) /\ ~ Fails(t) /\ ~ WritePassword(t) /\ ~ CreateSession(t)
  PROVE  SignedOut'
<1>1. ASSUME NEW t \in Tabs PROVE call'[t].step = "sweep" => call'[t] = call[t]
  BY StepBy
<1>2. ASSUME NEW t \in Tabs, call[t].step = "sweep" PROVE call'[t] = call[t]
  <2>1. ASSUME NEW u \in Tabs, TabStep(u) PROVE call'[t] = call[t]
    <3>1. CASE RevokeSession(u)
      BY <3>1 DEF RevokeSession
    <3>2. CASE u = t
      <4>1. call[t] # Idle
        BY <1>2 DEF Idle
      <4> QED
        BY <1>2, <2>1, <3>1, <3>2, <4>1
        DEF TabStep, Ask, RefreshSession, Rotate, LookUp, Issue, DetectReuse, Login, Logout,
            EndSession, ConfirmRecovery, ChangePassword, Arrive, AnswerLost, At, Answered
    <3>3. CASE u # t /\ ~ RevokeSession(u)
      <4>1. \E c : Goes(u, c)
        BY <2>1, <3>3, ShapeStep
      <4> QED
        BY <3>3, <4>1, CallOne
    <3> QED
      BY <3>1, <3>2, <3>3
  <2> QED
    BY <2>1 DEF SessionsNext, svars, RequestRecovery, Disable, Enable, GraceEnds, AccessExpires,
       SessionExpires, LinkExpires
<1>3. ASSUME NEW s \in Sessions, row'[s].status = "live", row[s].status = "absent" PROVE FALSE
  <2>2. row[s] \in Rows
    BY DEF Types
  <2>3. CASE \A t \in Tabs : ~ Rotate(t)
    BY <1>3, <2>3, CurrentKept
  <2>4. ASSUME NEW t \in Tabs, Rotate(t) PROVE FALSE
    <3>1. row' # row
      BY <1>3
    <3>2. /\ Rotates(call[t].refresh)
          /\ row' = [row EXCEPT ![call[t].refresh[1]] = RotatedRow(@)]
      BY <2>4, <3>1 DEF Rotate
    <3> QED
      BY <1>3, <3>2 DEF Types, Rotates
  <2> QED
    BY <2>3, <2>4
<1>4. \A s \in Sessions : row'[s].status = "live" => row[s].status = "live"
  BY <1>3, RowStep, RowGrows
<1>5. ASSUME NEW s \in Sessions, row'[s].status = "live", made'[s] < user'.version
      PROVE  s \in spared' \/ \E t \in Tabs : call'[t].step = "sweep"
  <2>1. s \in spared \/ \E t \in Tabs : call[t].step = "sweep"
    BY <1>4, <1>5 DEF SignedOut, SignedOutEverywhere
  <2> QED
    BY <1>2, <2>1
<1>6. \A t \in Tabs : At(t, "change", "sweep")' => call'[t].access[1] \in spared'
  BY <1>1 DEF At, SignedOut
<1> QED
  BY <1>5, <1>6 DEF SignedOut, SignedOutEverywhere, At

LEMMA SignedOutStep ==
  ASSUME SessionsParameters, Types, Shapes, SignedOut, [SessionsNext]_svars
  PROVE  SignedOut'
<1>t. /\ spared \subseteq Sessions /\ row \in [Sessions -> Rows] /\ made \in [Sessions -> Nat]
      /\ \A t \in Tabs : call[t] \in CallTypes /\ Shape(call[t])
  BY DEF Types, Shapes
<1>1. ASSUME NEW t \in Tabs, WritePassword(t) PROVE SignedOut'
  <2> DEFINE c == [call[t] EXCEPT !.step = "sweep", !.version = user.version + 1]
  <2>1. /\ call'[t] = c /\ c.step = "sweep" /\ c.op = call[t].op /\ c.access = call[t].access
        /\ \A u \in Tabs : u # t => call'[u] = call[u]
    BY <1>t, <1>1, CallOne DEF WritePassword, CallTypes
  <2> HIDE DEF c
  <2>2. SignedOutEverywhere'
    BY <2>1 DEF SignedOutEverywhere
  <2>3. ASSUME NEW u \in Tabs, At(u, "change", "sweep")' PROVE call'[u].access[1] \in spared'
    <3>1. CASE u = t
      BY <1>1, <2>1, <2>3, <3>1 DEF WritePassword, At
    <3>2. CASE u # t
      BY <1>1, <2>1, <2>3, <3>2 DEF WritePassword, At, SignedOut
    <3> QED
      BY <3>1, <3>2
  <2> QED
    BY <2>2, <2>3 DEF SignedOut, At
<1>2. ASSUME NEW t \in Tabs, RevokeOthers(t) PROVE SignedOut'
  <2>1. Revoke(Swept(t)) /\ UNCHANGED <<user, made, spared>> /\ call[t].step = "sweep"
        /\ call[t].op \in {"change", "reset"}
    BY <1>2 DEF RevokeOthers, history
  <2>2. ASSUME NEW s \in Sessions, row'[s].status = "live" PROVE s \in spared
    <3>1. s \notin Swept(t)
      <4>1. ASSUME s \in Swept(t) PROVE FALSE
        <5>1. row[s] \in Rows /\ row'[s] = IF row[s].status \in {"live", "expired"}
                                           THEN [row[s] EXCEPT !.status = "revoked"] ELSE row[s]
          BY <1>t, <2>1, <4>1 DEF Revoke
        <5> QED
          BY <2>2, <5>1 DEF Rows
      <4> QED
        BY <4>1
    <3>2. call[t].op = "change" /\ s = call[t].access[1]
      BY <2>1, <3>1 DEF Swept
    <3> QED
      BY <2>1, <3>2 DEF SignedOut, At
  <2>3. SignedOutEverywhere'
    BY <2>1, <2>2 DEF SignedOutEverywhere
  <2>4. ASSUME NEW u \in Tabs, At(u, "change", "sweep")' PROVE call'[u].access[1] \in spared'
    <3>1. call'[u] = call[u]
      <4>1. (\E c : Goes(t, c)) /\ ~ WritePassword(t)
        BY <1>2, <2>1 DEF RevokeOthers, WritePassword
      <4> QED
        BY <2>4, <4>1, CallOne, StepBy DEF At
    <3> QED
      BY <2>1, <2>4, <3>1 DEF At, SignedOut
  <2> QED
    BY <2>3, <2>4 DEF SignedOut, At
<1>3. ASSUME NEW t \in Tabs, Fails(t) PROVE SignedOut'
  <2>1. UNCHANGED <<user, row, made>> /\ spared \subseteq spared'
        /\ (call[t].step = "sweep" => \A s \in Sessions : row[s].status # "absent" => s \in spared')
    BY <1>3 DEF Fails
  <2>2. \A u \in Tabs : u # t => call'[u] = call[u]
    <3>1. \E c : Goes(t, c)
      BY <1>3 DEF Fails, To
    <3> QED
      BY <3>1, CallOne
  <2>3. ASSUME NEW s \in Sessions, row'[s].status = "live", made'[s] < user'.version
        PROVE  s \in spared' \/ \E u \in Tabs : call'[u].step = "sweep"
    <3>1. s \in spared \/ \E u \in Tabs : call[u].step = "sweep"
      BY <2>1, <2>3 DEF SignedOut, SignedOutEverywhere
    <3> QED
      BY <2>1, <2>2, <2>3, <3>1
  <2>4. ASSUME NEW u \in Tabs, At(u, "change", "sweep")' PROVE call'[u].access[1] \in spared'
    <3>1. CASE call'[u] = call[u]
      BY <2>1, <2>4, <3>1 DEF At, SignedOut
    <3>2. CASE call'[u] # call[u]
      <4>1. u = t /\ WritePassword(t)
        BY <2>2, <2>4, <3>2, StepBy DEF At
      <4>2. call[t].op # "refresh"
        BY <4>1 DEF WritePassword
      <4>3. call'[t] = Idle
        BY <1>3, <4>2, CallOne DEF Fails
      <4> QED
        BY <2>4, <4>1, <4>3 DEF At, Idle
    <3> QED
      BY <3>1, <3>2
  <2> QED
    BY <2>3, <2>4 DEF SignedOut, SignedOutEverywhere, At
<1>4. ASSUME Disable PROVE SignedOut'
  <2>1. Revoke(Sessions) /\ UNCHANGED <<call, spared>>
    BY <1>4 DEF Disable, history
  <2>2. \A s \in Sessions : row'[s].status # "live"
    BY <2>1, RevokedAll
  <2> QED
    BY <2>1, <2>2 DEF SignedOut, SignedOutEverywhere, At
<1>5. ASSUME NEW t \in Tabs, CreateSession(t) PROVE SignedOut'
  <2>1. PICK x \in Sessions :
          /\ row[x].status = "absent" /\ row' = [row EXCEPT ![x] = NewRow]
          /\ made' = [made EXCEPT ![x] = call[t].version]
          /\ spared' = IF call[t].version < user.version THEN spared \cup {x} ELSE spared
          /\ Goes(t, [call[t] EXCEPT !.step = "answer", !.refresh = Refresh(x, 1),
                                     !.access = Access(x, call[t].version)])
    BY <1>5 DEF CreateSession
  <2>2. UNCHANGED user /\ call[t].step = "insert"
    BY <1>5 DEF CreateSession, At
  <2>3. \A u \in Tabs : u # t => call'[u] = call[u]
    BY <2>1, CallOne
  <2>4. made'[x] = call[t].version /\ \A s \in Sessions : s # x => row'[s] = row[s] /\ made'[s] = made[s]
    BY <1>t, <2>1
  <2>5. ASSUME NEW s \in Sessions, row'[s].status = "live", made'[s] < user'.version
        PROVE  s \in spared' \/ \E u \in Tabs : call'[u].step = "sweep"
    <3>1. CASE s = x
      BY <2>1, <2>2, <2>4, <2>5, <3>1
    <3>2. CASE s # x
      <4>1. s \in spared \/ \E u \in Tabs : call[u].step = "sweep"
        BY <2>2, <2>4, <2>5, <3>2 DEF SignedOut, SignedOutEverywhere
      <4> QED
        BY <2>1, <2>2, <2>3, <4>1
    <3> QED
      BY <3>1, <3>2
  <2>6. ASSUME NEW u \in Tabs, At(u, "change", "sweep")' PROVE call'[u].access[1] \in spared'
    <3>1. call'[u] = call[u]
      <4>1. ~ WritePassword(t)
        BY <2>2 DEF WritePassword
      <4> QED
        BY <2>3, <2>6, <4>1, StepBy DEF At
    <3> QED
      BY <2>1, <2>6, <3>1 DEF At, SignedOut
  <2> QED
    BY <2>5, <2>6 DEF SignedOut, SignedOutEverywhere, At
<1>6. ASSUME \A t \in Tabs : ~ RevokeOthers(t) /\ ~ Fails(t) /\ ~ WritePassword(t) /\ ~ CreateSession(t),
             ~ Disable
      PROVE  SignedOut'
  <2>1. UNCHANGED <<made, spared>>
    BY <1>6 DEF SessionsNext, svars, history, RequestRecovery, Enable, GraceEnds, AccessExpires,
       SessionExpires, LinkExpires, TabStep, Ask, RefreshSession, Rotate, LookUp, Issue, DetectReuse,
       Login, Logout, EndSession, RevokeSession, ConfirmRecovery, ChangePassword, Arrive, AnswerLost
  <2>2. user' = user \/ Enable
    BY <1>6 DEF SessionsNext, svars, history, RequestRecovery, GraceEnds, AccessExpires,
       SessionExpires, LinkExpires, TabStep, Ask, RefreshSession, Rotate, LookUp, Issue, DetectReuse,
       Login, Logout, EndSession, RevokeSession, ConfirmRecovery, ChangePassword, Arrive, AnswerLost
  <2>3. user'.version = user.version
    BY <2>2 DEF Enable, Types
  <2> QED
    BY <1>6, <2>1, <2>3, SignedOutQuiet
<1> QED
  BY <1>1, <1>2, <1>3, <1>4, <1>5, <1>6

LEMMA MovesStep ==
  ASSUME SessionsParameters, Types, Shapes, Moves, [SessionsNext]_svars
  PROVE  Moves'
<1>t. /\ left \in Nat /\ left' \in Nat /\ MaxMoves \in Nat /\ user.version \in Nat
      /\ Moves => user.version + left + Cardinality(Writing) <= MaxMoves + 1
  BY TypesStep DEF Types, SessionsParameters, Moves
<1>f. IsFiniteSet(Writing) /\ Cardinality(Writing) \in Nat
  <2>1. IsFiniteSet(Tabs) /\ Writing \in SUBSET Tabs
    BY DEF SessionsParameters, Writing
  <2> QED
    BY <2>1, FS_Subset, FS_CardinalityType
<1>1. ASSUME NEW V, Writing' \subseteq V, IsFiniteSet(V), Cardinality(V) \in Nat,
             user'.version \in Nat,
             user'.version + left' + Cardinality(V) <= MaxMoves + 1
      PROVE  Moves'
  <2>1. Cardinality(Writing') <= Cardinality(V) /\ Cardinality(Writing') \in Nat
    BY <1>1, FS_Subset, FS_CardinalityType
  <2>2. Cardinality(Writing)' = Cardinality(Writing')
    OBVIOUS
  <2> QED
    BY <1>t, <1>1, <2>1 DEF Moves
<1>2. ASSUME NEW t \in Tabs, ConfirmRecovery(t) \/ ChangePassword(t) PROVE Moves'
  <2>1. left > 0 /\ left' = left - 1 /\ user' = user
    BY <1>2 DEF ConfirmRecovery, ChangePassword, Move
  <2>2. \A u \in Tabs : u # t => call'[u] = call[u]
    BY <1>2, CallOne DEF ConfirmRecovery, ChangePassword
  <2>3. Writing' \subseteq Writing \cup {t}
    BY <2>2 DEF Writing
  <2>4. /\ IsFiniteSet(Writing \cup {t}) /\ Cardinality(Writing \cup {t}) \in Nat
        /\ Cardinality(Writing \cup {t}) <= Cardinality(Writing) + 1
    BY <1>f, FS_AddElement
  <2> QED
    BY <1>t, <1>f, <1>1, <2>1, <2>3, <2>4
<1>3. ASSUME NEW t \in Tabs, WritePassword(t) PROVE Moves'
  <2>1. left' = left /\ user'.version = user.version + 1 /\ t \in Writing
    BY <1>3 DEF WritePassword, Types, Writing
  <2>2. Writing' \subseteq Writing \ {t}
    <3> DEFINE c == [call[t] EXCEPT !.step = "sweep", !.version = user.version + 1]
    <3>1. c.step = "sweep" /\ Goes(t, c)
      BY <1>3 DEF WritePassword, Types, CallTypes
    <3> HIDE DEF c
    <3> QED
      BY <3>1, CallOne DEF Writing
  <2>3. /\ IsFiniteSet(Writing \ {t}) /\ Cardinality(Writing \ {t}) \in Nat
        /\ Cardinality(Writing \ {t}) = Cardinality(Writing) - 1
    BY <1>f, <2>1, FS_RemoveElement, FS_CardinalityType
  <2> QED
    BY <1>t, <1>f, <1>1, <2>1, <2>2, <2>3
<1>4. ASSUME Disable PROVE Moves'
  <2>1. left > 0 /\ left' = left - 1 /\ user'.version = user.version + 1 /\ Writing' = Writing
    BY <1>4 DEF Disable, Move, Types, Writing
  <2> QED
    BY <1>t, <1>f, <1>1, <2>1
<1>5. ASSUME \A t \in Tabs : ~ ConfirmRecovery(t) /\ ~ ChangePassword(t) /\ ~ WritePassword(t), ~ Disable
      PROVE  Moves'
  <2>1. Writing' \subseteq Writing
    <3>1. ASSUME NEW t \in Tabs, call'[t].step = "write" PROVE call'[t] = call[t]
      BY <1>5, <3>1, StepBy
    <3> QED
      BY <3>1 DEF Writing
  <2>2. left' <= left
    <3>1. left' = left \/ left' = left - 1
      BY DEF SessionsNext, svars, history, RequestRecovery, Disable, Enable, GraceEnds, AccessExpires,
         SessionExpires, LinkExpires, TabStep, Ask, RefreshSession, Rotate, LookUp, Issue, DetectReuse,
         Login, CreateSession, Logout, EndSession, RevokeSession, ConfirmRecovery, ChangePassword,
         WritePassword, RevokeOthers, Arrive, AnswerLost, Fails, Move
    <3> QED
      BY <1>t, <3>1
  <2>3. user' = user \/ Enable
    BY <1>5 DEF SessionsNext, svars, history, RequestRecovery, GraceEnds, AccessExpires,
       SessionExpires, LinkExpires, TabStep, Ask, RefreshSession, Rotate, LookUp, Issue, DetectReuse,
       Login, CreateSession, Logout, EndSession, RevokeSession, RevokeOthers, Arrive, AnswerLost, Fails
  <2>4. user'.version = user.version
    BY <2>3 DEF Enable, Types
  <2> QED
    BY <1>t, <1>f, <1>1, <2>1, <2>2, <2>4
<1> QED
  BY <1>2, <1>3, <1>4, <1>5

-----------------------------------------------------------------------------
(* The invariant and what it gives.                                        *)

LEMMA InitInv == ASSUME SessionsParameters, SessionsInit PROVE SessionsInv
<1>1. PICK s \in Sessions, b \in Browsers :
        /\ row = [[x \in Sessions |-> NoRow] EXCEPT ![s] = NewRow]
        /\ jar = [[x \in Browsers |-> Empty] EXCEPT ![b] = [refresh |-> Refresh(s, 1), access |-> Access(s, 1)]]
  BY DEF SessionsInit
<1> DEFINE token == Refresh(s, 1)
<1>2. /\ user = [status |-> "active", version |-> 1] /\ link = [l \in Links |-> "unsent"]
      /\ call = [t \in Tabs |-> Idle] /\ left = MaxMoves /\ made = [x \in Sessions |-> 1]
      /\ spared = {} /\ lapsed = {} /\ reused = {} /\ resets = [l \in Links |-> 0]
  BY DEF SessionsInit
<1>3. token \in Tokens /\ token # None /\ token[1] = s /\ token[2] = 1 /\ Access(s, 1) = token
  BY TokenMade
<1>4. NoRow \in Rows /\ NewRow \in Rows /\ RowShape(NoRow) /\ RowShape(NewRow)
      /\ NoRow.status = "absent" /\ NewRow.status = "live" /\ NewRow.current = 1 /\ NewRow.previous = 0
  BY DEF NoRow, NewRow, Rows, RowShape
<1>5. /\ row \in [Sessions -> Rows] /\ row[s] = NewRow
      /\ \A x \in Sessions : x # s => row[x] = NoRow
  BY <1>1, <1>4
<1>6. Empty \in Jars /\ Empty.refresh = None /\ [refresh |-> token, access |-> token] \in Jars
  BY <1>3, NoToken DEF Empty, Jars
<1>7. /\ jar \in [Browsers -> Jars]
      /\ \A x \in Browsers : jar[x].refresh \in {None, token}
  BY <1>1, <1>3, <1>6
<1>8. \A t \in Tabs : call[t] = Idle /\ call[t].refresh = None /\ call[t].op = "none" /\ call[t].step = "idle"
  BY <1>2 DEF Idle
<1>9. Types
  <2>1. user \in [status : {"active", "disabled"}, version : Nat \ {0}]
    BY <1>2
  <2>2. call \in [Tabs -> CallTypes]
    BY <1>2, IdleShape
  <2> QED
    BY <1>2, <1>5, <1>7, <2>1, <2>2 DEF Types, SessionsParameters
<1>10. Shapes
  BY <1>4, <1>5, <1>8, IdleShape DEF Shapes
<1>11. Issued
  BY <1>3, <1>4, <1>5, <1>7, <1>8 DEF Issued, Known, Fresh
<1>12. Lapses
  <2>1. \A x \in Sessions : row[x].status # "absent" => ~ Behind(x)
    <3>1. \A x \in Sessions : row[x].status # "absent" => x = s /\ row[x].previous = 0
      BY <1>4, <1>5
    <3>2. Refresh(s, 0) # None /\ Refresh(s, 0) # token
      BY <1>3, TokenMade
    <3> QED
      BY <1>7, <1>8, <3>1, <3>2 DEF Behind
  <2> QED
    BY <1>2, <1>8, <2>1 DEF Lapses, At
<1>13. Outdated /\ LinksUsed
  BY <1>2, <1>8 DEF Outdated, LinksUsed, Resetting, At
<1>14. SignedOut
  BY <1>2, <1>8 DEF SignedOut, SignedOutEverywhere, At
<1>15. Moves
  <2>1. Writing = {}
    BY <1>8 DEF Writing
  <2> QED
    BY <1>2, <2>1, FS_EmptySet DEF Moves, SessionsParameters
<1> QED
  BY <1>9, <1>10, <1>11, <1>12, <1>13, <1>14, <1>15 DEF SessionsInv

LEMMA NextInv == ASSUME SessionsParameters, SessionsInv, [SessionsNext]_svars PROVE SessionsInv'
<1>1. Types /\ Shapes /\ Issued /\ Lapses /\ Outdated /\ LinksUsed /\ SignedOut /\ Moves
  BY DEF SessionsInv
<1>2. Types' /\ Shapes'
  BY <1>1, TypesStep
<1>3. Issued'
  BY <1>1, IssuedStep
<1>4. Lapses'
  BY <1>1, <1>3, LapsesStep
<1>5. Outdated'
  BY <1>1, OutdatedStep
<1>6. LinksUsed'
  BY <1>1, LinksStep
<1>7. SignedOut' /\ Moves'
  BY <1>1, SignedOutStep, MovesStep
<1> QED
  BY <1>2, <1>3, <1>4, <1>5, <1>6, <1>7 DEF SessionsInv

LEMMA Inductive == ASSUME SessionsParameters PROVE Spec => []SessionsInv
<1>1. SessionsInit => SessionsInv
  BY InitInv
<1>2. SessionsInv /\ [SessionsNext]_svars => SessionsInv'
  BY NextInv
<1> QED
  BY <1>1, <1>2, PTL DEF Spec

\* Rows, jars, calls and links keep their types, a refresh token in a jar was issued, and
\* every change of token_version took a move: SessionsTypeOK, for any sessions, browsers,
\* tabs, links and moves.
THEOREM SessionsTyped == ASSUME SessionsParameters PROVE Spec => []SessionsTypeOK
<1>1. ASSUME SessionsInv PROVE SessionsTypeOK
  <2>0. Types /\ Shapes /\ Issued /\ Moves
    BY <1>1 DEF SessionsInv
  <2>1. user \in [status : {"active", "disabled"}, version : 1 .. MaxMoves + 1]
    <3>1. IsFiniteSet(Writing)
      <4>1. IsFiniteSet(Tabs) /\ Writing \in SUBSET Tabs
        BY DEF SessionsParameters, Writing
      <4> QED
        BY <4>1, FS_Subset
    <3>2. Cardinality(Writing) \in Nat /\ left \in Nat /\ MaxMoves \in Nat
      BY <2>0, <3>1, FS_CardinalityType DEF Types, SessionsParameters
    <3>3. user.version \in Nat \ {0} /\ user \in [status : {"active", "disabled"}, version : Nat \ {0}]
      BY <2>0 DEF Types
    <3>4. user.version \in 1 .. MaxMoves + 1
      BY <2>0, <3>2, <3>3 DEF Moves
    <3> QED
      BY <3>3, <3>4
  <2>2. \A s \in Sessions : row[s].status # "absent" => row[s].previous + 1 = row[s].current
    BY <2>0 DEF Shapes, RowShape
  <2>3. ASSUME NEW b \in Browsers, jar[b].refresh # None
        PROVE  \E s \in Sessions : \E n \in 1 .. row[s].current : jar[b].refresh = Refresh(s, n)
    <3>1. jar[b].refresh \in Tokens /\ Known(jar[b].refresh, row)
      BY <2>0, SomeTokens DEF Issued
    <3> QED
      BY <2>3, <3>1, TokenParts DEF Known
  <2>4. \A t \in Tabs : /\ call[t].op \in Calls /\ call[t].step \in Steps
                        /\ call[t].step = "idle" <=> call[t] = Idle
    BY <2>0 DEF Types, CallTypes, Shapes, Shape
  <2> QED
    BY <2>0, <2>1, <2>2, <2>3, <2>4 DEF SessionsTypeOK, Types, Rows
<1> QED
  BY <1>1, Inductive, PTL

\* ReuseMeansLapse: reuse detection signs a user out everywhere only if, when the grace of
\* that session ended, its browser still had the token rotated out or was presenting it.
THEOREM ReuseOnlyAfterLapse == ASSUME SessionsParameters PROVE Spec => []ReuseMeansLapse
<1>1. SessionsInv => ReuseMeansLapse
  BY DEF SessionsInv, Lapses, ReuseMeansLapse
<1> QED
  BY <1>1, Inductive, PTL

\* SignedOutEverywhere: a change or a reset of the password and a disabling leave no session
\* of an earlier sign-in, but those a change is meant, or was unable, to leave.
THEOREM SignedOutAlways == ASSUME SessionsParameters PROVE Spec => []SignedOutEverywhere
<1>1. SessionsInv => SignedOutEverywhere
  BY DEF SessionsInv, SignedOut
<1> QED
  BY <1>1, Inductive, PTL

\* LinkResetsOnce: however often a reset link is submitted, it sets the password once.
THEOREM LinksResetOnce == ASSUME SessionsParameters PROVE Spec => []LinkResetsOnce
<1>1. SessionsInv => LinkResetsOnce
  BY DEF SessionsInv, LinksUsed, LinkResetsOnce
<1> QED
  BY <1>1, Inductive, PTL

\* JarNeverGoesBack: answers that overtake each other never put an older refresh token of a
\* session back into a jar.
THEOREM JarsNeverGoBack == ASSUME SessionsParameters PROVE Spec => JarNeverGoesBack
<1>1. ASSUME SessionsInv, [SessionsNext]_svars PROVE JarStep
  <2>0. Types /\ Shapes /\ Issued
    BY <1>1 DEF SessionsInv
  <2> SUFFICES ASSUME NEW b \in Browsers, jar[b].refresh # None, jar'[b].refresh # None,
                      jar[b].refresh[1] = jar'[b].refresh[1]
               PROVE  jar[b].refresh[2] <= jar'[b].refresh[2]
    BY DEF JarStep
  <2> DEFINE old == jar[b].refresh
             new == jar'[b].refresh
             s == old[1]
  <2>1. old \in Tokens /\ old[2] \in 1 .. row[s].current /\ s \in Sessions
    BY <2>0, SomeTokens, TokenParts DEF Issued, Known
  <2>2. CASE new = old
    BY <2>1, <2>2
  <2>3. CASE \E t \in Tabs : Fresh(call[t]) /\ call[t].refresh = new
    <3>1. row[s].current = new[2] /\ row[s].current \in Nat
      BY <2>0, <2>1, <2>3 DEF Issued, Newest, Types, Rows
    <3> QED
      BY <2>1, <3>1
  <2> QED
    BY <1>1, <2>0, <2>2, <2>3, TokensFrom
<1> QED
  BY <1>1, Inductive, PTL DEF Spec, JarNeverGoesBack

\* RefusalSparesLiveSession: tabs that refresh at the same time never lose the token of a
\* session that lives to a refusal; the refused one is of another session, or was rotated
\* out twice.
THEOREM RefusalsSpareLive == ASSUME SessionsParameters PROVE Spec => RefusalSparesLiveSession
<1>1. ASSUME SessionsInv PROVE RefusalStep
  BY <1>1 DEF SessionsInv, Outdated, RefusalStep, At
<1> QED
  BY <1>1, Inductive, PTL DEF Spec, RefusalSparesLiveSession
=============================================================================
