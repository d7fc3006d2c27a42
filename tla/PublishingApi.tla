--------------------------- MODULE PublishingApi ---------------------------
(***************************************************************************)
(* The API side: posts.service.ts, and what channels.service.ts does to    *)
(* the targets of a channel.  A request checks what it has read, runs one  *)
(* transaction, and then cancels or enqueues jobs one by one; requests     *)
(* interleave with each other and with the workers.                        *)
(***************************************************************************)
EXTENDS PublishingState

IN_FLIGHT_OR_DONE == {"queued", "publishing", "processing", "published"}
SCHEDULABLE == {"draft", "scheduled", "failed", "canceled"}

NoRequest == [pc |-> "idle", jobs |-> {}, chans |-> {}, again |-> FALSE, sure |-> FALSE]

\* Request c starts: op is one the users call, and the post is not deleted (requirePost).
Begin(c, op) ==
  /\ op \in Operations /\ api[c].pc = "idle"
  /\ ops > 0 /\ ops' = ops - 1 /\ UNCHANGED faults
  /\ ~ deleted

Ends(c) == api' = [api EXCEPT ![c] = NoRequest]
\* The request goes on to cancel or enqueue the jobs js.
Then(c, p, js) ==
  api' = [api EXCEPT ![c] = IF js = {} /\ ~ @.again THEN NoRequest
                            ELSE [NoRequest EXCEPT !.pc = p, !.jobs = js, !.again = api[c].again]]

\* writeMediaAndTargets, reduced to the rows: new draft rows, one per channel of cs.
InsertTargets(st, new, cs) ==
  /\ \A t \in new : status[t] = "unused"
  /\ {ChannelOf[t] : t \in new} = cs
  /\ \A t, u \in new : ChannelOf[t] = ChannelOf[u] => t = u
  /\ status' = [t \in Targets |-> IF t \in new THEN "draft" ELSE st[t]]

\* The versions of a set of rows, as the ids of their publish jobs.
PublishIds(ts) == {PublishId(t, version[t]) : t \in ts}

Connected(cs) == \A ch \in cs : channel[ch] # "disconnected"     \* loadRefs
Valid(cs)     == \A ch \in cs : channel[ch] = "active"           \* assertValid

-----------------------------------------------------------------------------
\* create: the post and its draft targets; action "schedule" goes on to schedule them.
Create(c) ==
  /\ Begin(c, "create")
  /\ \A t \in Targets : status[t] = "unused"
  /\ \E new \in (SUBSET Targets) \ {{}} :
       LET cs == {ChannelOf[t] : t \in new} IN
       /\ Connected(cs)
       /\ InsertTargets(status, new, cs)
       /\ \/ UNCHANGED api
          \/ Valid(cs) /\ api' = [api EXCEPT ![c].pc = "schedule"]
  /\ UNCHANGED <<postVars, version, attempts, pending, channel, queue, workerVars, maintVars, history>>

\* schedule: what it checks before its transaction.
ScheduleRead(c) ==
  LET schedulable == {t \in Rows : status[t] \in SCHEDULABLE} IN
  /\ Begin(c, "schedule")
  /\ schedulable # {}
  /\ Connected({ChannelOf[t] : t \in Rows})
  /\ Valid({ChannelOf[t] : t \in schedulable})
  /\ api' = [api EXCEPT ![c].pc = "schedule"]
  /\ UNCHANGED <<postVars, rowVars, channel, queue, workerVars, maintVars, history>>

\* schedule: the transaction selects the rows again, by their status at that moment.
ScheduleTx(c) ==
  LET rows == {t \in Rows : status[t] \in SCHEDULABLE} IN
  /\ api[c].pc = "schedule"
  /\ status'   = [t \in Targets |-> IF t \in rows THEN "scheduled" ELSE status[t]]
  /\ version'  = [t \in Targets |-> IF t \in rows THEN version[t] + 1 ELSE version[t]]
  /\ attempts' = [t \in Targets |-> IF t \in rows THEN 0 ELSE attempts[t]]
  /\ pending'  = [t \in Targets |-> IF t \in rows THEN FALSE ELSE pending[t]]
  /\ RollUp(status')
  /\ api' = [api EXCEPT ![c] = [NoRequest EXCEPT
               !.pc = IF rows = {} THEN "idle" ELSE "enqueue",
               !.jobs = {PublishId(t, version[t] + 1) : t \in rows}]]
  /\ UNCHANGED <<deleted, channel, queue, workerVars, maintVars, bounds, history>>

\* update: refused when a target it reads is in flight or done.  It remembers the
\* rows it read (to cancel their jobs) and whether the post was scheduled; the schedule
\* that follows the edit is refused with a channel to be reconnected, a time that has
\* passed, or content its platforms do not take.
EditRead(c) ==
  /\ Begin(c, "edit")
  /\ Rows # {} /\ \A t \in Rows : status[t] \notin IN_FLIGHT_OR_DONE
  /\ \E cs \in (SUBSET Channels) \ {{}} :
       /\ Connected(cs)
       /\ \A ch \in cs : \E t \in Targets : status[t] = "unused" /\ ChannelOf[t] = ch
       /\ \E again \in {FALSE, postStatus = "scheduled" /\ Valid(cs)} :
            api' = [api EXCEPT ![c] = [pc |-> "edit", jobs |-> PublishIds(Rows), chans |-> cs,
                                       again |-> again, sure |-> FALSE]]
  /\ UNCHANGED <<postVars, rowVars, channel, queue, workerVars, maintVars, history>>

\* A row that has been, or may have been, sent.
MayBeSent == {"publishing", "processing", "published", "unconfirmed"}
\* A slip on every channel of ts.
Slip(ts) ==
  slips' = [ch \in Channels |-> IF \E t \in ts : ChannelOf[t] = ch THEN slips[ch] + 1 ELSE slips[ch]]

\* update: the transaction deletes every row of the post and inserts new ones.
EditTx(c) ==
  /\ api[c].pc = "edit"
  /\ \E new \in SUBSET Targets :
       InsertTargets([t \in Targets |-> IF t \in Rows THEN "deleted" ELSE status[t]],
                     new, api[c].chans)
  /\ RollUp(status')
  /\ Then(c, "cancel", api[c].jobs)
  /\ Slip({t \in Rows : status[t] \in MayBeSent})
  /\ UNCHANGED <<deleted, version, attempts, pending, channel, queue, workerVars, maintVars, bounds,
                 live, confirmed, asked>>

\* unschedule: the waiting rows become drafts with a new version; their jobs are canceled.
Unschedule(c) ==
  LET rows == {t \in Rows : status[t] \in Waiting} IN
  /\ Begin(c, "unschedule")
  /\ rows # {}
  /\ status'  = [t \in Targets |-> IF t \in rows THEN "draft" ELSE status[t]]
  /\ version' = [t \in Targets |-> IF t \in rows THEN version[t] + 1 ELSE version[t]]
  /\ RollUp(status')
  /\ Then(c, "cancel", PublishIds(rows))
  /\ UNCHANGED <<deleted, attempts, pending, channel, queue, workerVars, maintVars, history>>

\* Mutant of RetryRead: the confirmation of an unconfirmed target is not asked for.
RetryReadUnasked(c) ==
  /\ Begin(c, "retry")
  /\ \E t \in Rows :
       /\ status[t] \in {"failed", "unconfirmed"}
       /\ Valid({ChannelOf[t]})
       /\ api' = [api EXCEPT ![c] = [NoRequest EXCEPT !.pc = "retry", !.jobs = PublishIds({t})]]
  /\ UNCHANGED <<postVars, rowVars, channel, queue, workerVars, maintVars, history>>

\* retryTarget: what it checks.  An unconfirmed target needs confirmNotPublished, which
\* sure records.
RetryRead(c) ==
  /\ Begin(c, "retry")
  /\ \E t \in Rows :
       /\ status[t] \in {"failed", "unconfirmed"}
       /\ Valid({ChannelOf[t]})
       /\ api' = [api EXCEPT ![c] = [NoRequest EXCEPT !.pc = "retry", !.jobs = PublishIds({t}),
                                                      !.sure = status[t] = "unconfirmed"]]
  /\ UNCHANGED <<postVars, rowVars, channel, queue, workerVars, maintVars, history>>

\* retryTarget: the transaction writes the row whatever its status is by now.
RetryTx(c) ==
  /\ api[c].pc = "retry"
  /\ \E t \in {j.target : j \in api[c].jobs} :
       \/ /\ t \in Rows
          /\ status' = [status EXCEPT ![t] = "scheduled"]
          /\ version' = [version EXCEPT ![t] = @ + 1]
          /\ pending' = [pending EXCEPT ![t] = FALSE]
          /\ RollUp(status')
          /\ Then(c, "enqueue", {PublishId(t, version[t] + 1)})
          /\ IF api[c].sure
             THEN confirmed' = [confirmed EXCEPT ![ChannelOf[t]] = @ + 1] /\ UNCHANGED slips
             ELSE Slip({t} \cap {u \in Rows : status[u] \in MayBeSent}) /\ UNCHANGED confirmed
       \/ \* the timeline insert fails: update() has deleted the row
          /\ t \notin Rows
          /\ Ends(c)
          /\ UNCHANGED <<postStatus, status, version, pending, confirmed, slips>>
  /\ UNCHANGED <<deleted, attempts, channel, queue, workerVars, maintVars, bounds, live, asked>>

\* remove: unsent rows are canceled with a new version, the post is marked deleted.
\* There is no roll-up here.
Remove(c) ==
  LET rows == {t \in Rows : status[t] \in {"draft"} \cup Waiting} IN
  /\ Begin(c, "remove")
  /\ Rows # {}
  /\ status'  = [t \in Targets |-> IF t \in rows THEN "canceled" ELSE status[t]]
  /\ version' = [t \in Targets |-> IF t \in rows THEN version[t] + 1 ELSE version[t]]
  /\ deleted' = TRUE
  /\ Then(c, "cancel", PublishIds(rows))
  /\ UNCHANGED <<postStatus, attempts, pending, channel, queue, workerVars, maintVars, history>>

-----------------------------------------------------------------------------
\* cancelJobs, one cancelPublish: an active job cannot be removed.  When the last one
\* is done, update() goes on to schedule the post, unless it has been deleted or has
\* nothing to schedule.
CancelJob(c) ==
  /\ api[c].pc = "cancel"
  /\ \/ \E id \in api[c].jobs :
          /\ queue' = queue \ {j \in Job(id) : j.st # "active"}
          /\ Then(c, "cancel", api[c].jobs \ {id})
     \/ /\ api[c].jobs = {}
        /\ IF ~ deleted /\ \E t \in Rows : status[t] \in SCHEDULABLE
           THEN api' = [api EXCEPT ![c] = [NoRequest EXCEPT !.pc = "schedule"]]
           ELSE Ends(c)
        /\ UNCHANGED queue
  /\ UNCHANGED <<postVars, rowVars, channel, workerVars, maintVars, bounds, history>>

\* enqueue, one schedulePublish.
EnqueueJob(c) ==
  /\ api[c].pc = "enqueue"
  /\ \E id \in api[c].jobs :
       /\ Add(id)
       /\ Then(c, "enqueue", api[c].jobs \ {id})
  /\ UNCHANGED <<postVars, rowVars, channel, workerVars, maintVars, bounds, history>>

\* Redis refuses one of these calls: both are logged or ignored and the request goes on.
QueueCallFails(c) ==
  /\ api[c].pc \in {"cancel", "enqueue"}
  /\ faults > 0 /\ faults' = faults - 1
  /\ \E id \in api[c].jobs : Then(c, api[c].pc, api[c].jobs \ {id})
  /\ UNCHANGED <<postVars, rowVars, channel, queue, workerVars, maintVars, ops, history>>

\* The API process dies in the middle of a request.
ApiCrash(c) ==
  /\ api[c].pc # "idle"
  /\ faults > 0 /\ faults' = faults - 1
  /\ Ends(c)
  /\ UNCHANGED <<postVars, rowVars, channel, queue, workerVars, maintVars, ops, history>>

-----------------------------------------------------------------------------

\* channels.service disconnect: one transaction, with no version bump and no roll-up.
Disconnect(ch) ==
  LET rows == {t \in Rows : ChannelOf[t] = ch /\ status[t] \in Waiting} IN
  /\ "disconnect" \in Operations
  /\ ops > 0 /\ ops' = ops - 1
  /\ channel' = [channel EXCEPT ![ch] = "disconnected"]
  /\ status' = [t \in Targets |-> IF t \in rows THEN "canceled" ELSE status[t]]
  /\ UNCHANGED <<postVars, version, attempts, pending, queue, workerVars, api, maintVars, faults, history>>

\* channels.service upsertChannels: the user connects the account again.  (Connecting an
\* active one changes nothing here.)
Reconnect(ch) ==
  /\ "reconnect" \in Operations
  /\ ops > 0 /\ ops' = ops - 1
  /\ channel[ch] # "active"
  /\ channel' = [channel EXCEPT ![ch] = "active"]
  /\ UNCHANGED <<postVars, rowVars, queue, workerVars, api, maintVars, faults, history>>

ApiStep(c) ==
  \/ ScheduleTx(c) \/ EditTx(c) \/ RetryTx(c) \/ CancelJob(c) \/ EnqueueJob(c)
UserStep ==
  \/ \E c \in Calls : \/ Create(c) \/ ScheduleRead(c) \/ EditRead(c) \/ Unschedule(c)
                      \/ RetryRead(c) \/ Remove(c)
  \/ \E ch \in Channels : Disconnect(ch) \/ Reconnect(ch)
ApiFault(c) == QueueCallFails(c) \/ ApiCrash(c)
=============================================================================
