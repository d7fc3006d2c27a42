----------------------------- MODULE PaidChecks -----------------------------
(***************************************************************************)
(* The paid checks of one organization: its AI visibility, asked of the    *)
(* engines prompt by prompt, or its keywords' metrics and rankings.  Two   *)
(* lanes of a run ask at once, what is answered is stored item by item,    *)
(* and one ledger row records what the whole run has paid.                 *)
(*                                                                         *)
(* A weekly and a forced job may run at once, and a retry may start while  *)
(* the lanes of the attempt that threw are still asking.                   *)
(***************************************************************************)
EXTENDS Naturals, FiniteSetsExt

CONSTANTS
  Tasks,        \* the kinds of run, of "visibility" and "seo"
  Batches,      \* batches of keywords whose metrics are old
  Items,        \* prompt and engine pairs, or tracked keywords
  Jobs,         \* jobs of the organization: weekly, forced
  MaxAttempts,  \* a job's attempts
  Budget,       \* the organization's monthly budget, in paid calls
  MaxFaults     \* bound: faults in a behaviour

\* What a configuration must give them.
ChecksAssumption == Tasks \subseteq {"visibility", "seo"}
ChecksBounds == MaxAttempts \in Nat \ {0} /\ {Budget, MaxFaults} \subseteq Nat /\ IsFiniteSet(Jobs)

VARIABLES
  task,    \* the kind of run
  done,    \* batches and items stored as answered: keywords, keyword_rankings, visibility_checks
  ledger,  \* what the ai_generations rows say was paid
  run,     \* of each attempt of a job: its stage and variables
  lane,    \* of each attempt's lanes: where it is, and with which item
  faults,  \* bound left
  spent,   \* history: what the providers charged
  missed,  \* history: what is lost with a crash, a failed write or an unusable answer
  late     \* history: what was paid after its attempt had counted

pvars == <<task, done, ledger, run, lane, faults, spent, missed, late>>

Attempts == Jobs \X (1..MaxAttempts)
Lanes    == 1..2  \* ENGINE_CONCURRENCY, SERP_CONCURRENCY

\* An attempt is asking for metrics, then for the items; it bills, and is over.
Stages == {"none", "metrics", "items", "bill", "over"}
Runs == [stage : Stages, due : SUBSET (Batches \cup Items), cost : Nat, threw : BOOLEAN]
LaneStates == [pc : {"idle", "ask", "sentiment", "store", "note", "dead"}, item : Batches \cup Items]
Resting == [pc |-> "idle", item |-> CHOOSE i \in Items : TRUE]

Fault == faults > 0 /\ faults' = faults - 1
Asking(a) == run[a].stage \in {"metrics", "items"}
InLane(a, l, pc) == lane[a][l].pc = pc
LaneGoes(a, l, pc) == lane' = [lane EXCEPT ![a][l].pc = pc]

\* A paid call is answered: counted by the attempt, unless it has counted already.
Pays(a) ==
  /\ spent' = spent + 1
  /\ IF Asking(a) THEN run' = [run EXCEPT ![a].cost = @ + 1] /\ UNCHANGED late
     ELSE late' = late + 1 /\ UNCHANGED run

\* A call fails, and may have been charged for: an answer that is refused, cut off or empty throws
\* before its cost is returned.
PaysInVain ==
  \E charged \in {0, 1} : spent' = spent + charged /\ missed' = missed + charged

\* A lane's item throws: the lane is over, and so is the attempt's wait, but not the other lane,
\* which takes what is left; of the metrics nothing is taken any more.
Rejects(a, l) ==
  /\ LaneGoes(a, l, "dead")
  /\ run' = IF Asking(a)
            THEN [run EXCEPT ![a].stage = "bill", ![a].threw = TRUE,
                             ![a].due = IF run[a].stage = "metrics" THEN {} ELSE @]
            ELSE run

-----------------------------------------------------------------------------
(* visibility.ts and seo.ts, runForOrg; deps.ts, forEachLimit *)

\* BullMQ starts an attempt: the first, or the one after an attempt that threw.
Begin ==
  /\ \E j \in Jobs, k \in 1..MaxAttempts :
       /\ run[<<j, k>>].stage = "none"
       /\ k > 1 => run[<<j, k - 1>>].stage = "over" /\ run[<<j, k - 1>>].threw
       /\ run' = [run EXCEPT ![<<j, k>>] =
            IF ledger >= Budget THEN [@ EXCEPT !.stage = "over"]
            ELSE IF task = "seo" THEN [@ EXCEPT !.stage = "metrics", !.due = Batches \ done]
            ELSE [@ EXCEPT !.stage = "items", !.due = Items \ done]]
  /\ UNCHANGED <<task, done, ledger, lane, faults, spent, missed, late>>

\* A lane takes the next item; the metrics have one lane.  A lane whose attempt is over goes on.
Takes(a, l) ==
  /\ InLane(a, l, "idle") /\ run[a].stage # "none"
  /\ run[a].stage = "metrics" => l = 1
  /\ \E i \in run[a].due :
       /\ run' = [run EXCEPT ![a].due = @ \ {i}]
       /\ lane' = [lane EXCEPT ![a][l] = [pc |-> "ask", item |-> i]]
  /\ UNCHANGED <<task, done, ledger, faults, spent, missed, late>>

\* The engine or DataForSEO answers; the brand may be mentioned, and then the mood is asked for.
Answered(a, l) ==
  /\ InLane(a, l, "ask")
  /\ Pays(a)
  /\ \/ LaneGoes(a, l, "store")
     \/ task = "visibility" /\ LaneGoes(a, l, "sentiment")
  /\ UNCHANGED <<task, done, ledger, faults, missed>>

\* The call fails: an engine's failure is noted in a row, DataForSEO's is thrown.
AskFails(a, l) ==
  /\ InLane(a, l, "ask")
  /\ IF task = "visibility" THEN LaneGoes(a, l, "note") /\ UNCHANGED run ELSE Rejects(a, l)
  /\ PaysInVain
  /\ UNCHANGED <<task, done, ledger, faults, late>>

\* classifySentiment: answered, and paid for; or it fails, and the check goes without.
Classified(a, l) ==
  /\ InLane(a, l, "sentiment")
  /\ LaneGoes(a, l, "store")
  /\ \/ Pays(a) /\ UNCHANGED missed
     \/ PaysInVain /\ UNCHANGED <<run, late>>
  /\ UNCHANGED <<task, done, ledger, faults>>

\* The answer's row, or the failure's, is written; or the database fails.
Stores(a, l) ==
  /\ lane[a][l].pc \in {"store", "note"}
  /\ done' = IF InLane(a, l, "store") THEN done \cup {lane[a][l].item} ELSE done
  /\ LaneGoes(a, l, "idle")
  /\ UNCHANGED <<task, ledger, run, faults, spent, missed, late>>
StoreFails(a, l) ==
  /\ lane[a][l].pc \in {"store", "note"}
  /\ Fault /\ Rejects(a, l)
  /\ UNCHANGED <<task, done, ledger, spent, missed, late>>

\* All is asked: after the metrics the items that are due are read, after the items it is billed.
AllAsked(a) ==
  /\ Asking(a) /\ run[a].due = {} /\ \A l \in Lanes : InLane(a, l, "idle")
  /\ run' = IF run[a].stage = "metrics"
            THEN [run EXCEPT ![a].stage = "items", ![a].due = Items \ done]
            ELSE [run EXCEPT ![a].stage = "bill"]
  /\ UNCHANGED <<task, done, ledger, lane, faults, spent, missed, late>>

\* finally: one ledger row, of what the attempt had paid when its wait ended.
Bill(a) ==
  /\ run[a].stage = "bill"
  /\ ledger' = ledger + run[a].cost
  /\ run' = [run EXCEPT ![a].stage = "over"]
  /\ UNCHANGED <<task, done, lane, faults, spent, missed, late>>
BillFails(a) ==
  /\ run[a].stage = "bill"
  /\ Fault /\ missed' = missed + run[a].cost
  /\ run' = [run EXCEPT ![a].stage = "over", ![a].threw = TRUE]
  /\ UNCHANGED <<task, done, ledger, lane, spent, late>>

\* The worker dies, and its job is delivered again or given up.
Dies(a) ==
  /\ run[a].stage \notin {"none", "over"}
  /\ Fault /\ missed' = missed + run[a].cost
  /\ \E again \in BOOLEAN : run' = [run EXCEPT ![a].stage = "over", ![a].threw = again, ![a].due = {}]
  /\ lane' = [lane EXCEPT ![a] = [l \in Lanes |-> [@[l] EXCEPT !.pc = "dead"]]]
  /\ UNCHANGED <<task, done, ledger, spent, late>>

-----------------------------------------------------------------------------
ChecksInit ==
  /\ task \in Tasks /\ done = {} /\ ledger = 0
  /\ run = [a \in Attempts |-> [stage |-> "none", due |-> {}, cost |-> 0, threw |-> FALSE]]
  /\ lane = [a \in Attempts |-> [l \in Lanes |-> Resting]]
  /\ faults = MaxFaults /\ spent = 0 /\ missed = 0 /\ late = 0

LaneStep(a, l) ==
  Takes(a, l) \/ Answered(a, l) \/ AskFails(a, l) \/ Classified(a, l) \/ Stores(a, l) \/ StoreFails(a, l)

ChecksNext ==
  \/ Begin
  \/ \E a \in Attempts : \/ AllAsked(a) \/ Bill(a) \/ BillFails(a) \/ Dies(a)
                         \/ \E l \in Lanes : LaneStep(a, l)

ChecksSpec == ChecksInit /\ [][ChecksNext]_pvars

-----------------------------------------------------------------------------
(* Properties *)

\* Every variable keeps its type.
ChecksTypeOK ==
  /\ task \in Tasks /\ done \subseteq Batches \cup Items /\ run \in [Attempts -> Runs]
  /\ lane \in [Attempts -> [Lanes -> LaneStates]]
  /\ {ledger, faults, spent, missed, late} \subseteq Nat

\* What was paid is on the ledger, or with an attempt that is still to bill it, or lost with a
\* crash, a failed write or an unusable answer, but for what a lane paid after its attempt had counted (seo.ts,
\* visibility.ts, runForOrg's finally).
ChecksLedger ==
  LET InHand(a) == IF run[a].stage = "over" THEN 0 ELSE run[a].cost
  IN spent = ledger + missed + late + MapThenSumSet(InHand, Attempts)

\* Once an attempt is over and its lanes have ended, all it paid is on the ledger, but for crashes,
\* failed writes and unusable answers (visibility.ts, "Whatever was paid for is billed, even when an unexpected
\* error ends the run early").
PaidIsBilled ==
  (\A a \in Attempts :
     /\ run[a].stage \in {"none", "over"}
     /\ \A l \in Lanes : InLane(a, l, "dead") \/ (InLane(a, l, "idle") /\ run[a].due = {}))
  => spent = ledger + missed
=============================================================================
