---------------------------- MODULE Generations ----------------------------
(***************************************************************************)
(* The AI media generations: the API that inserts and enqueues them, the   *)
(* worker that pays a provider, stores the files and marks them succeeded, *)
(* and the sweep that fails what was lost.                                 *)
(*                                                                         *)
(* Money is counted in paid calls.  An attempt's files are one object,     *)
(* named by the attempt: they are written one by one, and what counts is   *)
(* whether all are there.  Time is abstract: a job that takes too long is  *)
(* a fault.                                                                *)
(***************************************************************************)
EXTENDS Naturals, FiniteSetsExt

CONSTANTS
  Generations,   \* ids of ai_generations rows of a media kind
  Kinds,         \* the kinds that are asked for, of "image", "carousel" and "video"
  Workers,       \* job slots of the media worker
  MaxAttempts,   \* a job's attempts
  MaxCalls,      \* bound: paid calls of a video
  MaxFaults      \* bound: faults in a behaviour

\* What a configuration must give them.
GenerationsAssumption == Kinds \subseteq {"image", "carousel", "video"}
GenerationBounds ==
  MaxAttempts \in Nat \ {0} /\ MaxCalls \in Nat /\ MaxFaults \in Nat /\ IsFiniteSet(Workers)

VARIABLES
  status,      \* ai_generations.status, or "unused"
  kind,        \* ai_generations.kind
  paid,        \* ai_generations.cost_micros
  media,       \* ai_generations.media_ids: the attempt whose files they are, 0 for none
  library,     \* the media_assets rows: a generation and the attempt whose file each is
  objects,     \* the files in the object storage
  job,         \* the generation's BullMQ job: its state and attemptsMade
  serial,      \* attempts so far, which numbers them
  worker,      \* of each worker: where it is and its variables
  request,     \* the API's request for the generation
  faults,      \* bound left
  spent,       \* history: what the provider charged for a generation
  missed,      \* history: what was charged and is lost: with a crash, a failed write or an unusable
               \* answer, or as a duplicate that was discarded
  twice,       \* history: what was recorded a second time after a COMMIT whose answer was lost
  unsure,      \* history: generations with such a COMMIT
  overwritten  \* history: generations the API called failed after they had succeeded

rows    == <<status, kind, paid, media, library>>
history == <<spent, missed, twice, unsure, overwritten>>
gvars   == <<rows, objects, job, serial, worker, request, faults, history>>

GenerationStatus == {"pending", "running", "succeeded", "failed"}
Active == {"pending", "running"}

\* A worker: its generation, the attempt's number, the attempts made before, what it has paid and
\* not recorded, whether the error it handles is one to try again, whether the files are all
\* produced, and whether it holds its job's lock.
WorkerStates ==
  [pc : {"idle", "claim", "produce", "upload", "commit", "bill", "fail"},
   gen : Generations, num : Nat, made : Nat, cost : Nat,
   again : BOOLEAN, whole : BOOLEAN, held : BOOLEAN]
Idle == [pc |-> "idle", gen |-> CHOOSE g \in Generations : TRUE, num |-> 0, made |-> 0,
         cost |-> 0, again |-> FALSE, whole |-> FALSE, held |-> FALSE]

At(w, pc) == worker[w].pc = pc
Goes(w, pc) == worker' = [worker EXCEPT ![w].pc = pc]

Fault == faults > 0 /\ faults' = faults - 1

\* Adds n to what f counts for generation g.
Plus(f, g, n) == [f EXCEPT ![g] = @ + n]

-----------------------------------------------------------------------------
(* BullMQ.  A job ends with its attempt, unless the attempt throws and is not the last. *)

\* w's attempt returned.
Returns(w) ==
  /\ worker' = [worker EXCEPT ![w] = Idle]
  /\ job' = IF worker[w].held THEN [job EXCEPT ![worker[w].gen].st = "finished"] ELSE job

\* w's attempt threw.
Throws(w) ==
  LET g == worker[w].gen
      made == worker[w].made + 1
  IN /\ worker' = [worker EXCEPT ![w] = Idle]
     /\ job' = IF worker[w].held
               THEN [job EXCEPT ![g] = [st |-> IF made < MaxAttempts THEN "waiting" ELSE "finished",
                                        made |-> made]]
               ELSE job

\* A worker takes a waiting job.
Take(w) ==
  /\ At(w, "idle")
  /\ \E g \in Generations :
       /\ job[g].st = "waiting"
       /\ job' = [job EXCEPT ![g].st = "active"]
       /\ serial' = Plus(serial, g, 1)
       /\ worker' = [worker EXCEPT ![w] = [Idle EXCEPT !.pc = "claim", !.gen = g,
                                                       !.num = serial[g] + 1,
                                                       !.made = job[g].made, !.held = TRUE]]
  /\ UNCHANGED <<rows, objects, request, faults, history>>

\* BullMQ's stalled check: a job whose lock expired is delivered again or given up.
RecoverStalled ==
  /\ \E g \in Generations, st \in {"waiting", "finished"} :
       /\ job[g].st = "active"
       /\ \A w \in Workers : ~ (worker[w].held /\ worker[w].gen = g)
       /\ job' = [job EXCEPT ![g].st = st]
  /\ UNCHANGED <<rows, objects, serial, worker, request, faults, history>>

-----------------------------------------------------------------------------
(* ai.service.ts *)

\* startImage, startCarousel, startVideo: the row is inserted, pending.
Start ==
  /\ \E g \in Generations, k \in Kinds :
       /\ status[g] = "unused"
       /\ status' = [status EXCEPT ![g] = "pending"]
       /\ kind' = [kind EXCEPT ![g] = k]
       /\ request' = [request EXCEPT ![g] = "enqueue"]
  /\ UNCHANGED <<paid, media, library, objects, job, serial, worker, faults, history>>

\* enqueue: the job is added.
Enqueue ==
  /\ \E g \in Generations :
       /\ request[g] = "enqueue"
       /\ request' = [request EXCEPT ![g] = "done"]
       /\ job' = [job EXCEPT ![g].st = "waiting"]
  /\ UNCHANGED <<rows, objects, serial, worker, faults, history>>

\* enqueue: Redis fails, or its answer is lost; or the API dies in between.
EnqueueFails ==
  /\ Fault
  /\ \E g \in Generations, added \in BOOLEAN, next \in {"fail", "done"} :
       /\ request[g] = "enqueue"
       /\ request' = [request EXCEPT ![g] = next]
       /\ job' = IF added THEN [job EXCEPT ![g].st = "waiting"] ELSE job
  /\ UNCHANGED <<rows, objects, serial, worker, history>>

\* enqueue: the generation is marked failed, by its id alone.
EnqueueFailed ==
  /\ \E g \in Generations :
       /\ request[g] = "fail"
       /\ request' = [request EXCEPT ![g] = "done"]
       /\ status' = [status EXCEPT ![g] = "failed"]
       /\ overwritten' = IF status[g] = "succeeded" THEN overwritten \cup {g} ELSE overwritten
  /\ UNCHANGED <<kind, paid, media, library, objects, job, serial, worker, faults, spent, missed, twice, unsure>>

-----------------------------------------------------------------------------
(* ai-media.ts *)

\* process: a pending generation is claimed, and so is a running one, which a crash left.
Claim(w) ==
  LET g == worker[w].gen
  IN /\ At(w, "claim")
     /\ IF status[g] \in Active
        THEN status' = [status EXCEPT ![g] = "running"] /\ Goes(w, "produce") /\ UNCHANGED job
        ELSE Returns(w) /\ UNCHANGED status
     /\ UNCHANGED <<kind, paid, media, library, objects, serial, request, faults, history>>

\* How many calls an attempt may pay for.
PaidCalls == [image |-> 1, carousel |-> 0, video |-> MaxCalls]

\* A paid call is answered: the one of an image, or one of a video's.
AskProvider(w) ==
  LET g == worker[w].gen
  IN /\ At(w, "produce")
     /\ worker[w].cost < PaidCalls[kind[g]]
     /\ spent' = Plus(spent, g, 1)
     /\ worker' = [worker EXCEPT ![w].cost = @ + 1]
     /\ UNCHANGED <<rows, objects, job, serial, request, faults, missed, twice, unsure, overwritten>>

\* The files are ready: the image, the slides, or the video, whose scenes may all be the user's own.
Produced(w) ==
  /\ At(w, "produce")
  /\ kind[worker[w].gen] = "image" => worker[w].cost = 1
  /\ worker' = [worker EXCEPT ![w].pc = "upload", ![w].whole = TRUE]
  /\ UNCHANGED <<rows, objects, job, serial, request, faults, history>>

\* The attempt fails with an error: one to try again, or a refusal.
Fails(w, again) ==
  worker' = [worker EXCEPT ![w].again = again, ![w].pc = IF worker[w].cost > 0 THEN "bill" ELSE "fail"]

\* A call or the rendering fails.  A call may fail after it was charged for: an answer without a
\* usable image or text throws before its cost is returned; a video's may be on their way at
\* once.  An image whose one call was answered is complete.
ProduceFails(w) ==
  LET g == worker[w].gen
  IN /\ At(w, "produce")
     /\ kind[g] = "image" => worker[w].cost = 0
     /\ \E again \in BOOLEAN : Fails(w, again)
     /\ \E charged \in 0..MaxCalls :
          /\ worker[w].cost + charged <= PaidCalls[kind[g]]
          /\ spent' = Plus(spent, g, charged) /\ missed' = Plus(missed, g, charged)
     /\ UNCHANGED <<rows, objects, job, serial, request, faults, twice, unsure, overwritten>>

\* upload: every file is written.
Upload(w) ==
  /\ At(w, "upload")
  /\ objects' = objects \cup {<<worker[w].gen, worker[w].num>>}
  /\ Goes(w, "commit")
  /\ UNCHANGED <<rows, job, serial, request, faults, history>>

\* upload: a write fails, and what was written is removed if it can be.
UploadFails(w) ==
  /\ At(w, "upload")
  /\ Fault /\ Fails(w, TRUE)
  /\ UNCHANGED <<rows, objects, job, serial, request, history>>

\* removeObjects: best effort.
Removed(w) == objects' \in {objects, objects \ {<<worker[w].gen, worker[w].num>>}}

\* What succeed's transaction writes.
WriteSuccess(w) ==
  LET g == worker[w].gen
  IN /\ status' = [status EXCEPT ![g] = "succeeded"]
     /\ media' = [media EXCEPT ![g] = worker[w].num]
     /\ paid' = Plus(paid, g, worker[w].cost)
     /\ library' = library \cup {<<g, worker[w].num>>}

\* Mutant of Succeed: the UPDATE does not look at the status.
SucceedAnyStatus(w) ==
  /\ At(w, "commit")
  /\ WriteSuccess(w) /\ UNCHANGED <<objects, missed>>
  /\ Returns(w)
  /\ UNCHANGED <<kind, serial, request, faults, spent, twice, unsure, overwritten>>

\* succeed: the media rows and the success mark commit together, also over a failure; if another
\* attempt has succeeded, this one's files are removed.
Succeed(w) ==
  /\ At(w, "commit")
  /\ IF status[worker[w].gen] # "succeeded"
     THEN WriteSuccess(w) /\ UNCHANGED <<objects, missed>>
     ELSE Removed(w) /\ missed' = Plus(missed, worker[w].gen, worker[w].cost)
          /\ UNCHANGED <<status, media, paid, library>>
  /\ Returns(w)
  /\ UNCHANGED <<kind, serial, request, faults, spent, twice, unsure, overwritten>>

\* succeed: the transaction fails, or only its answer is lost; the files are removed either way.
SucceedFails(w) ==
  LET g == worker[w].gen
  IN /\ At(w, "commit")
     /\ Fault /\ Removed(w) /\ Fails(w, TRUE)
     /\ \/ UNCHANGED <<status, media, paid, library, twice, unsure>>
        \/ /\ status[g] # "succeeded" /\ WriteSuccess(w)
           /\ twice' = Plus(twice, g, worker[w].cost) /\ unsure' = unsure \cup {g}
     /\ UNCHANGED <<kind, job, serial, request, spent, missed, overwritten>>

\* bill: what was paid is added to what the generation has cost.
Bill(w) ==
  /\ At(w, "bill")
  /\ paid' = Plus(paid, worker[w].gen, worker[w].cost)
  /\ worker' = [worker EXCEPT ![w].pc = "fail", ![w].cost = 0]
  /\ UNCHANGED <<status, kind, media, library, objects, job, serial, request, faults, history>>

\* bill fails: a video's own bill is one more error to try again, process's leaves the attempt.
BillFails(w) ==
  LET g == worker[w].gen
  IN /\ At(w, "bill")
     /\ Fault /\ missed' = Plus(missed, g, worker[w].cost)
     /\ IF worker[w].whole THEN Throws(w)
        ELSE worker' = [worker EXCEPT ![w].pc = "fail", ![w].cost = 0, ![w].again = TRUE] /\ UNCHANGED job
     /\ UNCHANGED <<rows, objects, serial, request, spent, twice, unsure, overwritten>>

\* handleFailure: thrown while there is an attempt left, else the generation fails if it is active.
HandleFailure(w) ==
  LET g == worker[w].gen
  IN /\ At(w, "fail")
     /\ IF worker[w].again /\ worker[w].made + 1 < MaxAttempts
        THEN Throws(w) /\ UNCHANGED status
        ELSE /\ Returns(w)
             /\ status' = IF status[g] \in Active THEN [status EXCEPT ![g] = "failed"] ELSE status
     /\ UNCHANGED <<kind, paid, media, library, objects, serial, request, faults, history>>

\* The database fails at the claim or at the failure's write, and with it the attempt.
ProcessFails(w) ==
  /\ At(w, "claim") \/ At(w, "fail")
  /\ Fault /\ Throws(w)
  /\ UNCHANGED <<rows, objects, serial, request, history>>

WorkerStep(w) ==
  \/ Take(w) \/ Claim(w) \/ AskProvider(w) \/ Produced(w) \/ ProduceFails(w)
  \/ Upload(w) \/ Succeed(w) \/ Bill(w) \/ HandleFailure(w)

\* The worker dies, or loses its lock and goes on (a reel takes minutes, the lock ten).
Crash(w) ==
  /\ ~ At(w, "idle") /\ Fault
  /\ worker' = [worker EXCEPT ![w] = Idle]
  /\ missed' = Plus(missed, worker[w].gen, worker[w].cost)
  /\ UNCHANGED <<rows, objects, job, serial, request, spent, twice, unsure, overwritten>>
LockLost(w) ==
  /\ worker[w].held /\ Fault
  /\ worker' = [worker EXCEPT ![w].held = FALSE]
  /\ UNCHANGED <<rows, objects, job, serial, request, history>>

\* Redis comes back empty.
RedisLoss ==
  /\ Fault
  /\ job' = [g \in Generations |-> [st |-> "none", made |-> 0]]
  /\ worker' = [w \in Workers |-> [worker[w] EXCEPT !.held = FALSE]]
  /\ UNCHANGED <<rows, objects, serial, request, history>>

-----------------------------------------------------------------------------
(* maintenance.ts *)

Swept(g) ==
  /\ status[g] \in Active
  /\ status' = [status EXCEPT ![g] = "failed"]
  /\ UNCHANGED <<kind, paid, media, library, objects, job, serial, worker, request, history>>

\* recoverStuckAiGenerations: what nobody has finished in half an hour fails.
RecoverStuck ==
  /\ \E g \in Generations : (\A w \in Workers : worker[w].gen # g \/ At(w, "idle")) /\ Swept(g)
  /\ UNCHANGED faults
\* The same while a worker is at it.
RecoverEarly ==
  /\ Fault
  /\ \E g \in Generations, w \in Workers : worker[w].gen = g /\ ~ At(w, "idle") /\ Swept(g)

-----------------------------------------------------------------------------
GenerationsInit ==
  /\ status = [g \in Generations |-> "unused"] /\ kind = [g \in Generations |-> "image"]
  /\ paid = [g \in Generations |-> 0] /\ media = [g \in Generations |-> 0]
  /\ library = {} /\ objects = {}
  /\ job = [g \in Generations |-> [st |-> "none", made |-> 0]]
  /\ serial = [g \in Generations |-> 0] /\ worker = [w \in Workers |-> Idle]
  /\ request = [g \in Generations |-> "none"] /\ faults = MaxFaults
  /\ spent = [g \in Generations |-> 0] /\ missed = [g \in Generations |-> 0]
  /\ twice = [g \in Generations |-> 0] /\ unsure = {} /\ overwritten = {}

GenerationsNext ==
  \/ Start \/ Enqueue \/ EnqueueFails \/ EnqueueFailed
  \/ \E w \in Workers : \/ WorkerStep(w) \/ Crash(w) \/ LockLost(w)
                        \/ UploadFails(w) \/ SucceedFails(w) \/ BillFails(w) \/ ProcessFails(w)
  \/ RecoverStalled \/ RedisLoss \/ RecoverStuck \/ RecoverEarly

GenerationsSpec == GenerationsInit /\ [][GenerationsNext]_gvars

-----------------------------------------------------------------------------
(* Properties *)

\* Every variable keeps its type.
GenerationsTypeOK ==
  /\ status \in [Generations -> GenerationStatus \cup {"unused"}]
  /\ kind \in [Generations -> {"image", "carousel", "video"}]
  /\ paid \in [Generations -> Nat] /\ media \in [Generations -> Nat]
  /\ library \subseteq Generations \X Nat /\ objects \subseteq Generations \X Nat
  /\ job \in [Generations -> [st : {"none", "waiting", "active", "finished"}, made : 0..MaxAttempts]]
  /\ serial \in [Generations -> Nat] /\ worker \in [Workers -> WorkerStates]
  /\ request \in [Generations -> {"none", "enqueue", "fail", "done"}] /\ faults \in Nat
  /\ {spent, missed, twice} \subseteq [Generations -> Nat] /\ unsure \cup overwritten \subseteq Generations

\* However often a generation is delivered, timed out or retried, its media appear in the library
\* once, with their files, if and only if it succeeded; but for the files of a COMMIT whose answer
\* was lost, and for what the API calls failed by itself (ai-media.ts, succeed).
OneResult ==
  \A g \in Generations \ overwritten :
    /\ {n \in 1..serial[g] : <<g, n>> \in library} = {media[g]} \ {0}
    /\ status[g] = "succeeded" <=> media[g] # 0
    /\ media[g] # 0 /\ g \notin unsure => <<g, media[g]>> \in objects

\* Whatever an attempt paid its provider is on the generation's ledger, in a worker's hands, or
\* lost with a crash, a failed write, an unusable answer or a discarded duplicate; and nothing else is
\* (ai-media.ts, "cost is accumulated (never overwritten)").
Ledger ==
  \A g \in Generations :
    LET InHand(w) == IF worker[w].gen = g THEN worker[w].cost ELSE 0
    IN spent[g] + twice[g] = paid[g] + missed[g] + MapThenSumSet(InHand, Workers)

\* What was asked for comes to an end its users see.
UnderWay(g) == status[g] \in Active
=============================================================================
