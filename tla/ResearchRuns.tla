---------------------------- MODULE ResearchRuns ----------------------------
(***************************************************************************)
(* The website research runs of one organization: the API admits one at a  *)
(* time, the worker crawls the site and pays a model to analyse it, and    *)
(* the sweep fails what was lost.                                          *)
(*                                                                         *)
(* Money is counted in answers of the model.  The ledger's rows of a run   *)
(* are their sum.  Pages are left out, but for whether a retry has them.   *)
(***************************************************************************)
EXTENDS Naturals, FiniteSetsExt

CONSTANTS
  Runs,         \* ids of research_runs rows of the organization
  Workers,      \* job slots of the research worker
  MaxAttempts,  \* a job's attempts
  MaxFaults     \* bound: faults in a behaviour

\* What a configuration must give them.
ResearchBounds == MaxAttempts \in Nat \ {0} /\ MaxFaults \in Nat /\ IsFiniteSet(Workers)

VARIABLES
  status,   \* research_runs.status, or "unused"
  cost,     \* research_runs.cost_micros
  ledger,   \* ai_generations: what the run's rows say it has cost
  job,      \* the run's BullMQ job: its state and attemptsMade
  worker,   \* of each worker: where it is and its variables
  request,  \* the API's request for the run
  faults,   \* bound left
  spent,    \* history: what the model charged for a run
  missed,   \* history: what was charged and is lost: with a crash, a failed write or an unusable answer,
            \* or as a duplicate that was discarded
  excused,  \* history: runs two workers were at, or a write of which was committed unheard
  swept     \* history: runs the sweep or the API failed

rrows   == <<status, cost, ledger>>
money   == <<spent, missed, excused, swept>>
rrvars  == <<rrows, job, worker, request, faults, money>>

RunStatus == {"pending", "crawling", "analyzing", "succeeded", "failed"}
ACTIVE_STATUSES == {"pending", "crawling", "analyzing"}

RunStates ==
  [pc : {"idle", "read", "claim", "crawl", "ask", "commit", "keep", "fail"}, run : Runs, made : Nat,
   resume : BOOLEAN, again : BOOLEAN, asked : BOOLEAN, paid : 0..1, held : BOOLEAN]
Free == [pc |-> "idle", run |-> CHOOSE r \in Runs : TRUE, made |-> 0, resume |-> FALSE,
         again |-> FALSE, asked |-> FALSE, paid |-> 0, held |-> FALSE]

At(w, pc) == worker[w].pc = pc
Goes(w, pc) == worker' = [worker EXCEPT ![w].pc = pc]
Fault == faults > 0 /\ faults' = faults - 1
Plus(f, r, n) == [f EXCEPT ![r] = @ + n]

-----------------------------------------------------------------------------
(* research.service.ts, startRun *)

\* Under the organization's lock: no run is active, and a new one is inserted.
Start ==
  /\ \A r \in Runs : status[r] \notin ACTIVE_STATUSES
  /\ \E r \in Runs :
       /\ status[r] = "unused"
       /\ status' = [status EXCEPT ![r] = "pending"]
       /\ request' = [request EXCEPT ![r] = "enqueue"]
  /\ UNCHANGED <<cost, ledger, job, worker, faults, money>>

Enqueue ==
  /\ \E r \in Runs :
       /\ request[r] = "enqueue"
       /\ request' = [request EXCEPT ![r] = "done"]
       /\ job' = [job EXCEPT ![r].st = "waiting"]
  /\ UNCHANGED <<rrows, worker, faults, money>>

\* Redis fails, with the job added or not, or the API dies.
EnqueueFails ==
  /\ Fault
  /\ \E r \in Runs, added \in BOOLEAN, next \in {"fail", "done"} :
       /\ request[r] = "enqueue"
       /\ request' = [request EXCEPT ![r] = next]
       /\ job' = IF added THEN [job EXCEPT ![r].st = "waiting"] ELSE job
  /\ UNCHANGED <<rrows, worker, money>>

\* The run is marked failed, by its id alone.
EnqueueFailed ==
  /\ \E r \in Runs :
       /\ request[r] = "fail"
       /\ request' = [request EXCEPT ![r] = "done"]
       /\ status' = [status EXCEPT ![r] = "failed"]
       /\ swept' = swept \cup {r}
  /\ UNCHANGED <<cost, ledger, job, worker, faults, spent, missed, excused>>

-----------------------------------------------------------------------------
(* BullMQ *)

Returns(w) ==
  /\ worker' = [worker EXCEPT ![w] = Free]
  /\ job' = IF worker[w].held THEN [job EXCEPT ![worker[w].run].st = "finished"] ELSE job
Throws(w) ==
  LET made == worker[w].made + 1
  IN /\ worker' = [worker EXCEPT ![w] = Free]
     /\ job' = IF worker[w].held
               THEN [job EXCEPT ![worker[w].run] =
                       [st |-> IF made < MaxAttempts THEN "waiting" ELSE "finished", made |-> made]]
               ELSE job

\* A worker takes a waiting job, another perhaps still being at it.
TakeJob(w) ==
  /\ At(w, "idle")
  /\ \E r \in Runs :
       /\ job[r].st = "waiting"
       /\ job' = [job EXCEPT ![r].st = "active"]
       /\ worker' = [worker EXCEPT ![w] = [Free EXCEPT !.pc = "read", !.run = r,
                                                       !.made = job[r].made, !.held = TRUE]]
       /\ excused' = IF \E v \in Workers : ~ At(v, "idle") /\ worker[v].run = r
                     THEN excused \cup {r} ELSE excused
  /\ UNCHANGED <<rrows, request, faults, spent, missed, swept>>

RecoverStalled ==
  /\ \E r \in Runs, st \in {"waiting", "finished"} :
       /\ job[r].st = "active"
       /\ \A w \in Workers : ~ (worker[w].held /\ worker[w].run = r)
       /\ job' = [job EXCEPT ![r].st = st]
  /\ UNCHANGED <<rrows, worker, request, faults, money>>

-----------------------------------------------------------------------------
(* crawl.ts *)

\* run: the row is read; a run that is being analysed has its pages.
Read(w) ==
  LET r == worker[w].run
  IN /\ At(w, "read")
     /\ IF status[r] \in ACTIVE_STATUSES
        THEN /\ worker' = [worker EXCEPT ![w].pc = "claim", ![w].resume = status[r] = "analyzing"]
             /\ UNCHANGED job
        ELSE Returns(w)
     /\ UNCHANGED <<rrows, request, faults, money>>

Resumed(w) == [status EXCEPT ![worker[w].run] = IF worker[w].resume THEN "analyzing" ELSE "crawling"]

\* Mutant of Claim: the UPDATE does not look at the status.
ClaimAnyStatus(w) ==
  /\ At(w, "claim")
  /\ status' = Resumed(w) /\ Goes(w, "crawl")
  /\ UNCHANGED <<cost, ledger, job, request, faults, money>>

\* run: the claim, if the run is still active.
Claim(w) ==
  /\ At(w, "claim")
  /\ IF status[worker[w].run] \in ACTIVE_STATUSES
     THEN status' = Resumed(w) /\ Goes(w, "crawl") /\ UNCHANGED job
     ELSE Returns(w) /\ UNCHANGED status
  /\ UNCHANGED <<cost, ledger, request, faults, money>>

\* The site is crawled, or its stored pages are read; unless the run was failed meanwhile, it is
\* being analysed.
Crawl(w) ==
  /\ At(w, "crawl")
  /\ IF status[worker[w].run] \in {"crawling", "analyzing"}
     THEN /\ status' = [status EXCEPT ![worker[w].run] = "analyzing"] /\ UNCHANGED job
          /\ worker' = [worker EXCEPT ![w].pc = "ask", ![w].asked = TRUE]
     ELSE Returns(w) /\ UNCHANGED status
  /\ UNCHANGED <<cost, ledger, request, faults, money>>

\* The crawl fails, and may be tried again; or it is rejected, having no pages.
CrawlFails(w) ==
  /\ At(w, "crawl")
  /\ \E again \in BOOLEAN : worker' = [worker EXCEPT ![w].pc = "fail", ![w].again = again]
  /\ UNCHANGED <<rrows, job, request, faults, money>>

\* analyzeBrand: the model answers, and charges for it.
Answers(w) ==
  /\ At(w, "ask")
  /\ worker' = [worker EXCEPT ![w].pc = "commit", ![w].paid = 1]
  /\ spent' = Plus(spent, worker[w].run, 1)
  /\ UNCHANGED <<rrows, job, request, faults, missed, excused, swept>>
\* The call fails, and may have been charged for: an answer that is cut off, refused or not of the
\* shape asked for throws before its cost is returned.
Refuses(w) ==
  /\ At(w, "ask")
  /\ \E again \in BOOLEAN, charged \in {0, 1} :
       /\ worker' = [worker EXCEPT ![w].pc = "fail", ![w].again = again]
       /\ spent' = Plus(spent, worker[w].run, charged)
       /\ missed' = Plus(missed, worker[w].run, charged)
  /\ UNCHANGED <<rrows, job, request, faults, excused, swept>>

\* succeed's transaction: the mark, over a failure too, and the ledger's row, of all the run has cost.
WriteSuccess(w) ==
  LET r == worker[w].run
  IN /\ status' = [status EXCEPT ![r] = "succeeded"]
     /\ cost' = Plus(cost, r, 1)
     /\ ledger' = Plus(ledger, r, cost[r] + 1)
Succeed(w) ==
  /\ At(w, "commit")
  /\ IF status[worker[w].run] # "succeeded"
     THEN WriteSuccess(w) /\ UNCHANGED missed
     ELSE missed' = Plus(missed, worker[w].run, 1) /\ UNCHANGED rrows
  /\ Returns(w)
  /\ UNCHANGED <<request, faults, spent, excused, swept>>
\* It fails, or only its answer is lost.
SucceedFails(w) ==
  /\ At(w, "commit")
  /\ Fault /\ worker' = [worker EXCEPT ![w].pc = "keep", ![w].again = TRUE]
  /\ \/ UNCHANGED <<rrows, excused>>
     \/ /\ status[worker[w].run] # "succeeded" /\ WriteSuccess(w)
        /\ excused' = excused \cup {worker[w].run}
  /\ UNCHANGED <<job, request, spent, missed, swept>>

\* run: what the model charged is kept on the run.
Keep(w) ==
  /\ At(w, "keep")
  /\ cost' = Plus(cost, worker[w].run, 1)
  /\ worker' = [worker EXCEPT ![w].pc = "fail", ![w].paid = 0]
  /\ UNCHANGED <<status, ledger, job, request, faults, money>>

\* What fail's transaction writes: the mark, if the run is active, and what it has cost.
WriteFailure(w) ==
  LET r == worker[w].run
  IN IF status[r] \in ACTIVE_STATUSES
     THEN status' = [status EXCEPT ![r] = "failed"] /\ ledger' = Plus(ledger, r, cost[r])
     ELSE UNCHANGED <<status, ledger>>

\* Mutant of HandleFailure: the ledger's row is written only if this attempt asked the model.
HandleFailureUnasked(w) ==
  /\ At(w, "fail")
  /\ IF worker[w].again /\ worker[w].made + 1 < MaxAttempts
     THEN Throws(w) /\ UNCHANGED <<status, ledger>>
     ELSE /\ Returns(w)
          /\ IF worker[w].asked THEN WriteFailure(w)
             ELSE /\ UNCHANGED ledger
                  /\ status' = IF status[worker[w].run] \in ACTIVE_STATUSES
                               THEN [status EXCEPT ![worker[w].run] = "failed"] ELSE status
  /\ UNCHANGED <<cost, request, faults, money>>

\* handleFailure, fail: thrown while an attempt is left, else the run fails.
HandleFailure(w) ==
  /\ At(w, "fail")
  /\ IF worker[w].again /\ worker[w].made + 1 < MaxAttempts
     THEN Throws(w) /\ UNCHANGED <<status, ledger>>
     ELSE Returns(w) /\ WriteFailure(w)
  /\ UNCHANGED <<cost, request, faults, money>>

\* The database fails, and run throws: at the read, the claim, the keeping or the failure's write.
RunFails(w) ==
  /\ worker[w].pc \in {"read", "claim", "keep", "fail"}
  /\ Fault /\ Throws(w)
  /\ missed' = Plus(missed, worker[w].run, worker[w].paid)
  /\ UNCHANGED <<rrows, request, spent, excused, swept>>

\* The worker dies, or loses its lock and goes on.
Crash(w) ==
  /\ ~ At(w, "idle") /\ Fault
  /\ worker' = [worker EXCEPT ![w] = Free]
  /\ missed' = Plus(missed, worker[w].run, worker[w].paid)
  /\ UNCHANGED <<rrows, job, request, spent, excused, swept>>
LockLost(w) ==
  /\ worker[w].held /\ Fault
  /\ worker' = [worker EXCEPT ![w].held = FALSE]
  /\ UNCHANGED <<rrows, job, request, money>>

WorkerStep(w) ==
  \/ TakeJob(w) \/ Read(w) \/ Claim(w) \/ Crawl(w) \/ CrawlFails(w) \/ Answers(w) \/ Refuses(w)
  \/ Succeed(w) \/ Keep(w) \/ HandleFailure(w)

-----------------------------------------------------------------------------
(* maintenance.ts, recoverStuckResearchRuns *)

\* The sweep's mark writes no row: what the run has cost is lost to the ledger.
SweptRun(r) ==
  /\ status[r] \in ACTIVE_STATUSES
  /\ status' = [status EXCEPT ![r] = "failed"]
  /\ swept' = swept \cup {r}
  /\ UNCHANGED <<cost, ledger, job, worker, request, spent, missed, excused>>
RecoverStuck ==
  /\ \E r \in Runs : (\A w \in Workers : At(w, "idle") \/ worker[w].run # r) /\ SweptRun(r)
  /\ UNCHANGED faults
\* The same while a worker is at it.
RecoverEarly ==
  /\ Fault
  /\ \E r \in Runs, w \in Workers : ~ At(w, "idle") /\ worker[w].run = r /\ SweptRun(r)

-----------------------------------------------------------------------------
ResearchInit ==
  /\ status = [r \in Runs |-> "unused"] /\ job = [r \in Runs |-> [st |-> "none", made |-> 0]]
  /\ cost = [r \in Runs |-> 0] /\ ledger = cost /\ spent = cost /\ missed = cost
  /\ worker = [w \in Workers |-> Free] /\ request = [r \in Runs |-> "none"]
  /\ faults = MaxFaults /\ excused = {} /\ swept = {}

ResearchNext ==
  \/ Start \/ Enqueue \/ EnqueueFails \/ EnqueueFailed \/ RecoverStalled
  \/ \E w \in Workers : \/ WorkerStep(w) \/ SucceedFails(w) \/ RunFails(w) \/ Crash(w) \/ LockLost(w)
  \/ RecoverStuck \/ RecoverEarly

ResearchSpec == ResearchInit /\ [][ResearchNext]_rrvars

-----------------------------------------------------------------------------
(* Properties *)

\* Every variable keeps its type.
ResearchTypeOK ==
  /\ status \in [Runs -> RunStatus \cup {"unused"}]
  /\ {cost, ledger, spent, missed} \subseteq [Runs -> Nat]
  /\ job \in [Runs -> [st : {"none", "waiting", "active", "finished"}, made : 0..MaxAttempts]]
  /\ worker \in [Workers -> RunStates] /\ faults \in Nat /\ excused \cup swept \subseteq Runs
  /\ request \in [Runs -> {"none", "enqueue", "fail", "done"}]

\* An organization has one active run, whatever its workers and the sweep do to a run that has
\* ended (research.service.ts, "the API allows one active run").
OneActiveRun == \A r, s \in Runs : {status[r], status[s]} \subseteq ACTIVE_STATUSES => r = s

\* What the model charged is on the run, in a worker's hands or lost with a crash, a failed write,
\* an unusable answer or a discarded duplicate; and once the run has ended, it is on the ledger, which the monthly
\* budget adds up; but for a run that two workers were at, one whose COMMIT was answered by an
\* error, and one that the sweep or the API failed, which write no row: it has a row too many or
\* none (crawl.ts, "spend can never be recorded without its run (or the reverse)").
ResearchLedger ==
  \A r \in Runs \ excused :
    LET InHand(w) == IF worker[w].run = r THEN worker[w].paid ELSE 0
    IN /\ spent[r] = cost[r] + missed[r] + MapThenSumSet(InHand, Workers)
       /\ status[r] = "succeeded" \/ (status[r] = "failed" /\ r \notin swept) => ledger[r] = cost[r]
       /\ status[r] \in ACTIVE_STATUSES => ledger[r] = 0

\* A run that was asked for comes to an end its users see, and stops blocking the next one.
UnderWay(r) == status[r] \in ACTIVE_STATUSES
=============================================================================
