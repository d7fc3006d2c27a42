------------------------------- MODULE Triage -------------------------------
(***************************************************************************)
(* The scoring of one organization's inbox items by a paid model, batch    *)
(* after batch: the budget is asked before each call, each call has its    *)
(* row on the ledger, and a transaction marks the batch.  Jobs are planned *)
(* per period and added after a read that found something, so two may run. *)
(*                                                                         *)
(* A call costs 1; scores and their reasons are left out.                  *)
(***************************************************************************)
EXTENDS Naturals, FiniteSets

CONSTANTS
  Items,      \* engagement_items that were not triaged yet
  BatchSize,  \* TRIAGE_BATCH_SIZE
  Workers,    \* job slots of the engagement worker
  Budget,     \* the monthly budget
  MaxFaults   \* bound: failures in a behaviour

\* What a configuration must give them.
TriageParameters ==
  /\ {BatchSize, Budget, MaxFaults} \subseteq Nat /\ BatchSize > 0
  /\ IsFiniteSet(Workers) /\ Workers # {}

VARIABLES
  triaged,    \* items whose triaged_at is set
  ledger,     \* the sum of cost_micros of the organization's rows of kind triage
  run,        \* of each worker: where it is, the items it has read, and its batch
  faults,     \* bound left
  spent,      \* history: what the model has charged
  missed,     \* history: charged by calls of which no row tells the cost
  asked,      \* history: how often each item was scored, or refused
  excused     \* history: items two runs have read, or whose scores a run did not get to store

tvars == <<triaged, ledger, run, faults, spent, missed, asked, excused>>

NoRun == [pc |-> "idle", items |-> {}, batch |-> {}]
At(w, pc) == run[w].pc = pc
Fault == faults > 0 /\ faults' = faults - 1
Ends(w) == run' = [run EXCEPT ![w] = NoRun]

InHand(w) == run[w].items \cup run[w].batch
Asks(w) == [i \in Items |-> asked[i] + (IF i \in run[w].batch THEN 1 ELSE 0)]

-----------------------------------------------------------------------------
\* The items to score are read once, at the start.
Start(w) ==
  /\ At(w, "idle") /\ Items \ triaged # {}
  /\ run' = [run EXCEPT ![w] = [pc |-> "budget", items |-> Items \ triaged, batch |-> {}]]
  /\ excused' = excused \cup ((Items \ triaged) \cap UNION {InHand(o) : o \in Workers})
  /\ UNCHANGED <<triaged, ledger, faults, spent, missed, asked>>

\* budgetExceeded
WithinBudget == ledger < Budget

\* The next batch is asked about, or the run ends: all is scored, or the budget is spent.
AskBudget(w) ==
  /\ At(w, "budget")
  /\ IF run[w].items = {} \/ ~ WithinBudget
     THEN Ends(w)
     ELSE \E b \in SUBSET run[w].items :
            /\ Cardinality(b) = (IF Cardinality(run[w].items) < BatchSize
                                 THEN Cardinality(run[w].items) ELSE BatchSize)
            /\ run' = [run EXCEPT ![w] = [pc |-> "call", items |-> @.items \ b, batch |-> b]]
  /\ UNCHANGED <<triaged, ledger, faults, spent, missed, asked, excused>>

\* triageItems answers.
Answered(w) ==
  /\ At(w, "call")
  /\ run' = [run EXCEPT ![w].pc = "bill"]
  /\ spent' = spent + 1
  /\ asked' = Asks(w)
  /\ UNCHANGED <<triaged, ledger, faults, missed, excused>>

\* The call fails, and may have been charged for: an answer that does not parse, or one that is
\* cut off.  A failed row without a cost is written; the job is retried, but a refusal counts as
\* an answer without scores.
Failed(w) ==
  /\ At(w, "call") /\ Fault
  /\ \E charged \in {0, 1}, refused \in BOOLEAN :
       /\ spent' = spent + charged
       /\ missed' = missed + charged
       /\ IF refused THEN run' = [run EXCEPT ![w].pc = "mark"] /\ asked' = Asks(w)
                     ELSE Ends(w) /\ UNCHANGED asked
  /\ UNCHANGED <<triaged, ledger, excused>>

\* The ledger row, with what the answer says it cost.
Billed(w) ==
  /\ At(w, "bill")
  /\ ledger' = ledger + 1
  /\ run' = [run EXCEPT ![w].pc = "mark"]
  /\ UNCHANGED <<triaged, faults, spent, missed, asked, excused>>

\* The whole batch is marked, also what the model left out.
Mark(w) ==
  /\ At(w, "mark")
  /\ triaged' = triaged \cup run[w].batch
  /\ run' = [run EXCEPT ![w] = [pc |-> "budget", items |-> @.items, batch |-> {}]]
  /\ UNCHANGED <<ledger, faults, spent, missed, asked, excused>>

\* The process dies, or a statement fails; the job is retried.
Dies(w) ==
  /\ run[w].pc \in {"bill", "mark"} /\ Fault
  /\ missed' = missed + (IF At(w, "bill") THEN 1 ELSE 0)
  /\ excused' = excused \cup run[w].batch
  /\ Ends(w)
  /\ UNCHANGED <<triaged, ledger, spent, asked>>

TriageInit ==
  /\ triaged = {} /\ ledger = 0
  /\ run = [w \in Workers |-> NoRun]
  /\ faults = MaxFaults
  /\ spent = 0 /\ missed = 0
  /\ asked = [i \in Items |-> 0] /\ excused = {}

TriageNext ==
  \E w \in Workers :
    \/ Start(w) \/ AskBudget(w) \/ Answered(w) \/ Failed(w) \/ Billed(w) \/ Mark(w) \/ Dies(w)

TriageSpec == TriageInit /\ [][TriageNext]_tvars

-----------------------------------------------------------------------------
TriageTypeOK ==
  /\ triaged \subseteq Items /\ excused \subseteq Items /\ asked \in [Items -> Nat]
  /\ {ledger, spent, missed} \subseteq Nat /\ faults \in 0..MaxFaults
  /\ \A w \in Workers : /\ run[w].pc \in {"idle", "budget", "call", "bill", "mark"}
                        /\ run[w].items \subseteq Items /\ run[w].batch \subseteq Items

\* What the scores cost is on the ledger, but for calls that failed and runs that ended before
\* they wrote it; the ledger passes the budget by less than a call of each run; and no item is
\* asked about twice, left out or refused ones included, but for what two runs had read, or a
\* run had no time to store (engagement-processor.ts, triage).
TriageLedger ==
  /\ spent = ledger + missed + Cardinality({w \in Workers : At(w, "bill")})
  /\ ledger < Budget + Cardinality(Workers)
  /\ \A i \in Items \ excused : asked[i] <= 1
=============================================================================
