-------------------------- MODULE PostTransactions --------------------------
(***************************************************************************)
(* The transactions that change the targets of a post and roll its status  *)
(* up, statement by statement, under Postgres' READ COMMITTED: a statement *)
(* sees what is committed when it starts and the transaction's own writes; *)
(* an UPDATE waits for the transaction that holds a row it selects, and    *)
(* checks its WHERE again before changing the row.  Publishing takes each  *)
(* of these transactions as one step; this module is about what that       *)
(* hides.                                                                  *)
(***************************************************************************)
EXTENDS Naturals, FiniteSets, PostStatus

\* Targets: the rows the post may ever have; MaxTx: bound on the transactions of a behaviour.
CONSTANTS Targets, Sessions, MaxTx

\* A post has finitely many targets.
TransactionsParameters == IsFiniteSet(Targets) /\ MaxTx \in Nat

VARIABLES
  post,      \* posts.status, committed
  status,    \* post_targets.status, committed, of each target the post has
  tx,        \* of each session: its transaction
  left       \* transactions left
vars == <<post, status, tx, left>>

Kinds == {"claim", "outcome", "reschedule", "retry", "schedule", "unschedule", "update"}

\* A transaction: where it is, the rows its UPDATE (of update(): its DELETE) has selected
\* and not reached, the rows it has locked and changed (deleted), those it inserts, the
\* status it gives them, whether it holds the post's row, and the post status it has read
\* and derived.
Transactions ==
  [pc : {"idle", "post", "rows", "touch", "read", "derive", "write"}, kind : Kinds,
   rows : SUBSET Targets, mine : SUBSET Targets, adds : SUBSET Targets, to : TargetStatus, holds : BOOLEAN,
   seen : PostStatuses, next : PostStatuses]
NoTx == [pc |-> "idle", kind |-> "claim", rows |-> {}, mine |-> {}, adds |-> {}, to |-> "draft",
         holds |-> FALSE, seen |-> "draft", next |-> "draft"]

\* The targets of the post; update() replaces them.
Rows == DOMAIN status

Waiting == {"scheduled", "queued"}
\* The statuses the WHERE of a transaction's UPDATE accepts.
Accepts(kind) ==
  CASE kind \in {"claim", "unschedule"} -> Waiting
    [] kind = "schedule" -> {"draft", "scheduled", "failed", "canceled"}
    [] OTHER -> TargetStatus
Selected(kind, ts) == {t \in ts \cap Rows : status[t] \in Accepts(kind)}

Set(x, r) == tx' = [tx EXCEPT ![x] = r]
Ends(x)   == Set(x, NoTx)

-----------------------------------------------------------------------------
\* One target: the claim, an outcome of an attempt, its retry, or a user's retry, each
\* begun for a row in a status that leads the caller there.
BeginOne(x) ==
  /\ tx[x].pc = "idle" /\ left > 0 /\ left' = left - 1
  /\ \E t \in Rows, kind \in {"claim", "outcome", "reschedule", "retry"}, to \in TargetStatus :
       /\ CASE kind = "claim" -> status[t] \in Waiting /\ to = "publishing"
            [] kind = "outcome" -> /\ status[t] \in {"publishing", "processing"}
                                   /\ to \in {"published", "processing", "failed", "unconfirmed"}
            [] kind = "reschedule" -> status[t] = "publishing" /\ to = "scheduled"
            [] kind = "retry" -> status[t] \in {"failed", "unconfirmed"} /\ to = "scheduled"
       /\ Set(x, [NoTx EXCEPT !.pc = "rows", !.kind = kind, !.rows = {t}, !.to = to])
  /\ UNCHANGED <<post, status>>

\* schedule updates the post (scheduled_at) before the rows it selects.
BeginSchedule(x) ==
  /\ tx[x].pc = "idle" /\ left > 0 /\ left' = left - 1
  /\ Selected("schedule", Rows) # {}
  /\ Set(x, [NoTx EXCEPT !.pc = "post", !.kind = "schedule", !.to = "scheduled"])
  /\ UNCHANGED <<post, status>>

\* Mutant of BeginUnschedule: the post is updated first, as schedule does.
BeginUnschedulePostFirst(x) ==
  /\ tx[x].pc = "idle" /\ left > 0 /\ left' = left - 1
  /\ Set(x, [NoTx EXCEPT !.pc = "post", !.kind = "unschedule", !.to = "draft"])
  /\ UNCHANGED <<post, status>>

\* The rows the post may still get: none has them and no transaction has to do with them.
Fresh == Targets \ (Rows \cup UNION {tx[y].rows \cup tx[y].mine \cup tx[y].adds : y \in Sessions})

\* update() has read no target that is sent or being sent; its transaction updates the post
\* (content) before it deletes the targets and inserts new ones, drafts.
BeginUpdate(x) ==
  /\ tx[x].pc = "idle" /\ left > 0 /\ left' = left - 1
  /\ \A t \in Rows : status[t] \notin {"queued", "publishing", "processing", "published"}
  /\ \E new \in (SUBSET Fresh) \ {{}} :
       Set(x, [NoTx EXCEPT !.pc = "post", !.kind = "update", !.to = "draft", !.adds = new])
  /\ UNCHANGED <<post, status>>

\* unschedule updates the rows before the post.
BeginUnschedule(x) ==
  /\ tx[x].pc = "idle" /\ left > 0 /\ left' = left - 1
  /\ Set(x, [NoTx EXCEPT !.pc = "rows", !.kind = "unschedule", !.to = "draft",
                         !.rows = Selected("unschedule", Rows)])
  /\ UNCHANGED <<post, status>>

HoldsRow(y, t) == t \in tx[y].mine
PostFree(x) == \A y \in Sessions \ {x} : ~ tx[y].holds
RowFree(x, t) == \A y \in Sessions \ {x} : ~ HoldsRow(y, t)

\* schedule and update(): the post's row is locked, then the UPDATE (or the DELETE) of the
\* targets starts.
TouchFirst(x) ==
  /\ tx[x].pc = "post" /\ PostFree(x)
  /\ Set(x, [tx[x] EXCEPT !.pc = "rows", !.holds = TRUE,
                             !.rows = Selected(tx[x].kind, Rows)])
  /\ UNCHANGED <<post, status, left>>

\* The UPDATE reaches a row it selected: it changes it if it is still there and its WHERE
\* still holds.
UpdateRow(x) ==
  /\ tx[x].pc = "rows"
  /\ \E t \in tx[x].rows :
       /\ RowFree(x, t)
       /\ Set(x, [tx[x] EXCEPT !.rows = @ \ {t}, !.mine = @ \cup Selected(tx[x].kind, {t})])
  /\ UNCHANGED <<post, status, left>>

\* The UPDATE is done.  A claim without a row returns, unschedule without one throws; the
\* others but schedule have none only if update() deleted it, and the event they record then
\* refers to no target.
Updated(x) ==
  /\ tx[x].pc = "rows" /\ tx[x].rows = {}
  /\ IF tx[x].mine = {} /\ tx[x].kind # "schedule" THEN Ends(x)
     ELSE Set(x, [tx[x] EXCEPT !.pc = IF tx[x].kind = "unschedule" THEN "touch" ELSE "read"])
  /\ UNCHANGED <<post, status, left>>

\* unschedule: the post's scheduled_at is cleared.
TouchLast(x) ==
  /\ tx[x].pc = "touch" /\ PostFree(x)
  /\ Set(x, [tx[x] EXCEPT !.pc = "read", !.holds = TRUE])
  /\ UNCHANGED <<post, status, left>>

\* rollUpPostStatus: the post is read ...
ReadPost(x) ==
  /\ tx[x].pc = "read"
  /\ Set(x, [tx[x] EXCEPT !.pc = "derive", !.seen = post])
  /\ UNCHANGED <<post, status, left>>

\* What the transaction sees of the rows.
Seen(x) == IF tx[x].kind = "update" THEN (Rows \ tx[x].mine) \cup tx[x].adds ELSE Rows
View(x) == [t \in Seen(x) |-> IF t \in tx[x].mine \cup tx[x].adds THEN tx[x].to ELSE status[t]]

\* Mutant of ReadRows: the roll-up is given the pool's connection, not the transaction's.
ReadRowsOutside(x) ==
  /\ tx[x].pc = "derive"
  /\ Set(x, [tx[x] EXCEPT !.pc = "write",
                          !.next = DerivePostStatus({status[t] : t \in Rows}, tx[x].seen)])
  /\ UNCHANGED <<post, status, left>>

\* ... then its rows ...
ReadRows(x) ==
  /\ tx[x].pc = "derive"
  /\ Set(x, [tx[x] EXCEPT !.pc = "write",
                          !.next = DerivePostStatus({View(x)[t] : t \in Seen(x)}, tx[x].seen)])
  /\ UNCHANGED <<post, status, left>>

\* ... and the post is updated if its status differs from the one read; then the
\* transaction commits.
Commit(x) ==
  /\ tx[x].pc = "write"
  /\ tx[x].next # tx[x].seen => PostFree(x)
  /\ status' = View(x)
  /\ post' = IF tx[x].next # tx[x].seen THEN tx[x].next ELSE post
  /\ Ends(x)
  /\ UNCHANGED left

\* Session x waits for a lock, and every lock it could take next is held in S.
BlockedBy(x, S) ==
  \/ tx[x].pc = "rows" /\ tx[x].rows # {} /\ \A t \in tx[x].rows : \E y \in S \ {x} : HoldsRow(y, t)
  \/ /\ \/ tx[x].pc \in {"post", "touch"}
        \/ tx[x].pc = "write" /\ tx[x].next # tx[x].seen
     /\ \E y \in S \ {x} : tx[y].holds
AllBlocked(S) == S # {} /\ \A x \in S : BlockedBy(x, S)
\* The sessions of S wait for each other, in one cycle.
Deadlock(S) == AllBlocked(S) /\ \A R \in SUBSET S : AllBlocked(R) => R = S

\* Postgres aborts one of them.
Abort ==
  /\ \E S \in SUBSET Sessions : Deadlock(S) /\ \E x \in S : Ends(x)
  /\ UNCHANGED <<post, status, left>>

Init ==
  /\ post = "scheduled"
  /\ status \in UNION {[ts -> {"scheduled"}] : ts \in (SUBSET Targets) \ {{}}}
  /\ tx = [x \in Sessions |-> NoTx] /\ left = MaxTx

\* All transactions of the behaviour have run.
Done == left = 0 /\ (\A x \in Sessions : tx[x].pc = "idle") /\ UNCHANGED vars

Next ==
  \/ \E x \in Sessions :
       \/ BeginOne(x) \/ BeginSchedule(x) \/ BeginUpdate(x) \/ BeginUnschedule(x)
       \/ TouchFirst(x) \/ UpdateRow(x) \/ Updated(x) \/ TouchLast(x)
       \/ ReadPost(x) \/ ReadRows(x) \/ Commit(x)
  \/ Abort
  \/ Done

Spec == Init /\ [][Next]_vars

-----------------------------------------------------------------------------
(* Properties *)

\* "The post row never disagrees with its targets" (queries/posts.ts:11), once no
\* transaction is open.
Agrees ==
  (\A x \in Sessions : tx[x].pc = "idle")
    => post = DerivePostStatus({status[t] : t \in Rows}, post)

\* A post with one target agrees with it: the row's lock makes the transactions take
\* turns.  (With two, each can roll up without seeing what the other is about to commit.)
OneTargetAgrees == Cardinality(Rows) = 1 => Agrees

\* The post agrees with its targets where nothing will correct it: once every one of
\* them has reached its end.
AgreesInTheEnd ==
  (\A t \in Rows : status[t] \in {"published", "failed", "unconfirmed", "canceled"}) => Agrees

\* The workers' transactions lock one target and then the post, and no other transaction
\* makes them wait for each other in a cycle but the two that lock the post before the
\* targets, schedule and update(): only with one of them can a claim or an outcome be lost to
\* Postgres' deadlock detector (target-state.ts, posts.service.ts).  (The order in which an
\* UPDATE reaches several rows is left open, so two requests may deadlock over them.)
WorkersDeadlockOnlyWithPostFirst ==
  \A S \in SUBSET Sessions :
    Deadlock(S) /\ (\E x \in S : tx[x].kind \in {"claim", "outcome", "reschedule"})
      => \E x \in S : tx[x].kind \in {"schedule", "update"}

\* Every variable keeps its type.
TypeOK ==
  /\ post \in PostStatuses /\ Rows \in (SUBSET Targets) \ {{}} /\ status \in [Rows -> TargetStatus]
  /\ tx \in [Sessions -> Transactions] /\ left \in 0..MaxTx
=============================================================================
