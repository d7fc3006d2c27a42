----------------------------- MODULE AdCreation -----------------------------
(***************************************************************************)
(* One campaign on its ad platform: what the six adapters of               *)
(* packages/integrations/src/ads do call by call when the ads writer       *)
(* (apps/worker/src/ads/ads-writer.ts) has them create it, take back a     *)
(* creation that failed half-way, and switch it on.  Campaigns.tla is the  *)
(* row's side of the same calls and takes an adapter call as one step.     *)
(*                                                                         *)
(* An object on the platform is <<type, ad, try>>: ad 0 is the campaign's  *)
(* own, `try` says which call of createCampaign made it.  An adapter is    *)
(* the list of the platform calls it makes.                                *)
(***************************************************************************)
EXTENDS RetryPolicy, SequencesExt

CONSTANTS Platforms,   \* subset of {"meta", "tiktok", "pinterest", "linkedin", "google", "x"}
          MaxAds,      \* bound: ads in the draft
          MaxTries,    \* bound: calls of createCampaign
          MaxMoves     \* bound: activations, pauses, crashes

\* What a configuration must give them.
AdCreationParameters ==
  /\ Platforms \subseteq {"meta", "tiktok", "pinterest", "linkedin", "google", "x"}
  /\ MaxAds \in Nat /\ MaxTries \in Nat /\ MaxMoves \in Nat

VARIABLES
  draft,      \* platform, number of ads, whether they are videos
  phase,      \* what the row says, and what a worker is doing
  job,        \* the worker's own variables: try, attempt, alreadyRefreshed, next call
  exists,     \* objects on the platform
  active,     \* those that are switched on
  undo,       \* what the adapter would take back, oldest first: [remove, ids]
  lost,       \* ids the adapter will report: orphanedExternalIds
  error,      \* the kind of the error it is about to throw
  record,     \* external_objects of the row
  left,
  \* history
  doubt,      \* objects of calls whose answer was ambiguous
  stray,      \* objects a worker died on
  asked,      \* a person asked for the spend to start
  unverified  \* TikTok may have left the new campaign enabled

avars == <<draft, phase, job, exists, active, undo, lost, error, record, left,
           doubt, stray, asked, unverified>>

-----------------------------------------------------------------------------
(* The adapters *)

Ads == 1 .. draft.ads
Read == [call |-> "read", makes |-> {}, undo |-> "none"]
Create(type, ad, how) == [call |-> "create", makes |-> {<<type, ad>>}, undo |-> how]
Batch(S, how) == [call |-> "create", makes |-> S, undo |-> how]
EachAd(Steps(_)) == FlattenSeq([i \in Ads |-> Steps(i)])

\* undo: "own" takes the object back by itself, "parent" lists it under the campaign's undo,
\* "never" reports it because there is no way to remove it, "none" leaves it to its parent.
MetaPlan ==
  LET ad(i) == (IF draft.video THEN <<Create("asset", i, "own"), Read>> ELSE <<>>)
               \o <<Create("creative", i, "own"), Create("ad", i, "own")>>
  IN <<Create("campaign", 0, "own"), Create("ad_set", 0, "own")>> \o EachAd(ad)
TikTokPlan ==
  LET upload(i) == <<Read>>
  IN <<Read, Create("campaign", 0, "own"), Create("ad_set", 0, "own")>> \o EachAd(upload)
     \o <<Batch({"ad"} \X Ads, "own")>>
PinterestPlan ==
  LET pin(i) == (IF draft.video THEN <<Read>> ELSE <<>>) \o <<Create("creative", i, "own")>>
  IN <<Create("campaign", 0, "own"), Create("ad_set", 0, "parent")>> \o EachAd(pin)
     \o <<Batch({"ad"} \X Ads, "parent")>>
LinkedInPlan ==
  LET creative(i) == <<Read, Create("creative", i, "own")>>
  IN <<Read, Create("group", 0, "own"), Create("campaign", 0, "own")>> \o EachAd(creative)
GooglePlan ==
  <<Read, Batch({<<"campaign", 0>>, <<"ad_set", 0>>} \cup ({"ad"} \X Ads), "none")>>
XPlan ==
  LET tweet(i) == <<Read, Create("card", i, "never"), Create("creative", i, "never")>>
  IN <<Read, Create("campaign", 0, "own"), Create("ad_set", 0, "own"), Create("criteria", 0, "none")>>
     \o EachAd(tweet) \o <<Batch({"ad"} \X Ads, "none")>>
Plan == CASE draft.platform = "meta" -> MetaPlan [] draft.platform = "tiktok" -> TikTokPlan
          [] draft.platform = "pinterest" -> PinterestPlan [] draft.platform = "linkedin" -> LinkedInPlan
          [] draft.platform = "google" -> GooglePlan [] draft.platform = "x" -> XPlan

\* The types of the objects that an object of a type hangs under: gone with any of them.
Above(type) ==
  IF draft.platform = "linkedin"
  THEN CASE type = "campaign" -> {"group"} [] type = "creative" -> {"group", "campaign"} [] OTHER -> {}
  ELSE CASE type \in {"ad_set", "criteria"} -> {"campaign"} [] type = "ad" -> {"ad_set", "campaign"} [] OTHER -> {}
Covers(o, p) == p[3] = o[3] /\ (p = o \/ (o[1] \in Above(p[1]) /\ o[2] \in {0, p[2]}))

\* The children a campaign is switched on with; X's promoted tweets have no switch of their own.
Levels == CASE draft.platform = "linkedin" -> <<"group", "creative">> [] draft.platform = "x" -> <<"ad_set">>
            [] OTHER -> <<"ad_set", "ad">>
Switches == {Levels[i] : i \in DOMAIN Levels} \cup {"campaign"}
Leaf == IF draft.platform = "linkedin" THEN "creative" ELSE "ad"

-----------------------------------------------------------------------------
NoJob == [try |-> 0, attempt |-> 1, refreshed |-> FALSE, next |-> 1]
Phases == {"approved", "calling", "rollback", "thrown", "failed", "unconfirmed", "paused", "verify",
           "activating", "active"}

ObjectsOf(S, t) == {<<m[1], m[2], t>> : m \in S}
AdCreationTypeOK ==
  /\ draft.platform \in Platforms /\ draft.ads \in 1 .. MaxAds /\ draft.video \in BOOLEAN
  /\ phase \in Phases
  /\ job.try \in 0 .. MaxTries /\ job.attempt \in 1 .. MaxAttempts /\ job.refreshed \in BOOLEAN
  /\ job.next \in 1 .. Len(Plan) + 1
  /\ exists \subseteq UNION {ObjectsOf(UNION {Plan[i].makes : i \in DOMAIN Plan}, t) : t \in 1 .. MaxTries}
  /\ active \subseteq exists
  /\ undo # <<>> => phase \in {"calling", "rollback"}
  /\ error \in {"none"} \cup ErrorKinds /\ (phase \in {"rollback", "thrown"} <=> error # "none")
  /\ left \in 0 .. MaxMoves

AdCreationInit ==
  /\ draft \in [platform : Platforms, ads : 1 .. MaxAds, video : BOOLEAN]
  /\ phase = "approved" /\ job = NoJob
  /\ exists = {} /\ active = {} /\ undo = <<>> /\ lost = {} /\ error = "none" /\ record = {}
  /\ left = MaxMoves
  /\ doubt = {} /\ stray = {} /\ asked = FALSE /\ unverified = FALSE

history == <<stray, asked>>
Move == left > 0 /\ left' = left - 1

-----------------------------------------------------------------------------
(* createCampaign *)

Begin ==
  /\ phase = "approved" /\ job.try < MaxTries
  /\ phase' = "calling"
  /\ job' = [job EXCEPT !.try = @ + 1, !.next = 1]
  /\ UNCHANGED <<draft, exists, active, undo, lost, error, record, left, doubt, history, unverified>>

Step == Plan[job.next]
Made == ObjectsOf(Step.makes, job.try)
\* What the step adds to the undo list, once its objects S are known.
UndoWith(S) ==
  IF S = {} THEN undo
  ELSE CASE Step.undo = "own" -> Append(undo, [remove |-> S, ids |-> S])
         [] Step.undo = "parent" -> [undo EXCEPT ![1].ids = @ \cup S]
         [] OTHER -> undo
\* Mutant of Unremovable: what nobody can take back is not reported.
UnremovableForgotten(S) == lost
Unremovable(S) == IF Step.undo = "never" THEN lost \cup S ELSE lost

CallSucceeds ==
  /\ phase = "calling" /\ job.next <= Len(Plan)
  /\ exists' = exists \cup Made
  /\ active' = active \cup {o \in Made : o[1] = "ad" /\ draft.platform = "x"}
  /\ undo' = UndoWith(Made)
  /\ lost' = Unremovable(Made)
  /\ job' = [job EXCEPT !.next = @ + 1]
  /\ UNCHANGED <<draft, phase, error, record, left, doubt, history, unverified>>

\* The error leaves createCampaign through the rollback.
Throw(kind) == error' = kind /\ phase' = "rollback"
\* The platform refuses or the request never leaves: nothing is made.  Pinterest refuses some
\* of a batch and makes the others.
CallRefused ==
  /\ phase = "calling" /\ job.next <= Len(Plan)
  /\ \E kind \in {"auth", "rate_limited", "invalid_request", "transient"} : Throw(kind)
  /\ \E S \in SUBSET Made :
       /\ S # {} => draft.platform = "pinterest" /\ Step.makes = {"ad"} \X Ads /\ error' = "invalid_request"
       /\ exists' = exists \cup S
       /\ undo' = UndoWith(S)
  /\ UNCHANGED <<draft, job, active, lost, record, left, doubt, history, unverified>>
\* A timeout, a 5xx or an unreadable answer.
CallAmbiguous ==
  /\ phase = "calling" /\ job.next <= Len(Plan) /\ Step.call = "create"
  /\ Throw("unknown_outcome")
  /\ \E S \in {{}, Made} : exists' = exists \cup S /\ doubt' = doubt \cup S
  /\ UNCHANGED <<draft, job, active, undo, lost, record, left, history, unverified>>

Gone(S) == {p \in exists : \E o \in S : Covers(o, p)}
\* rollbackAndThrow: newest first; what cannot be removed is reported.
Rollback ==
  /\ phase = "rollback"
  /\ IF undo = <<>>
     THEN phase' = "thrown" /\ UNCHANGED <<exists, active, undo, lost>>
     ELSE LET last == undo[Len(undo)]
          IN /\ undo' = SubSeq(undo, 1, Len(undo) - 1)
             /\ \E removed, answered \in BOOLEAN :
                  /\ answered => removed
                  /\ exists' = IF removed THEN exists \ Gone(last.remove) ELSE exists
                  /\ active' = active \cap exists'
                  /\ lost' = IF answered THEN lost ELSE lost \cup last.ids
             /\ UNCHANGED phase
  /\ UNCHANGED <<draft, job, error, record, left, doubt, history, unverified>>

-----------------------------------------------------------------------------
(* AdsWriter.create *)

\* decide: the writer keeps the reported ids only when it gives up.
Recorded(decision) == IF decision \in {"fail", "revoked", "unconfirmed"} THEN lost ELSE {}
Caught ==
  /\ phase = "thrown"
  /\ LET decision == Decide(error, job.attempt, TRUE, job.refreshed)
     IN /\ \/ /\ decision = "refresh_token" /\ job.try < MaxTries
              /\ phase' = "calling"
              /\ job' = [job EXCEPT !.refreshed = TRUE, !.try = @ + 1, !.next = 1]
           \/ /\ decision = "refresh_token"     \* the account needs a new login
              /\ phase' = "failed" /\ job' = [job EXCEPT !.refreshed = FALSE]
           \/ /\ decision = "retry"
              /\ phase' = "approved" /\ job' = [job EXCEPT !.attempt = @ + 1, !.refreshed = FALSE]
           \/ /\ decision \in {"fail", "revoked"}
              /\ phase' = "failed" /\ job' = [job EXCEPT !.refreshed = FALSE]
           \/ /\ decision = "unconfirmed"
              /\ phase' = "unconfirmed" /\ job' = [job EXCEPT !.refreshed = FALSE]
        /\ record' = record \cup Recorded(decision)
  /\ error' = "none" /\ lost' = {}
  /\ UNCHANGED <<draft, exists, active, undo, left, doubt, stray, asked, unverified>>

\* state.created, after TikTok's look at what it made.
Finish ==
  /\ phase = "calling" /\ job.next > Len(Plan)
  /\ phase' = "paused"
  /\ record' = record \cup {o \in exists : o[3] = job.try}
  /\ undo' = <<>> /\ lost' = {} /\ job' = [job EXCEPT !.refreshed = FALSE]
  /\ \/ UNCHANGED <<active, unverified>>
     \/ /\ draft.platform = "tiktok"    \* created enabled, and not switched off
        /\ active' = active \cup {<<"campaign", 0, job.try>>} /\ unverified' = TRUE
  /\ UNCHANGED <<draft, exists, error, left, doubt, history>>

\* A worker dies on the way; recoverStuck makes the row unconfirmed.
Crash ==
  /\ phase \in {"calling", "rollback", "thrown"} /\ Move
  /\ phase' = "unconfirmed" /\ job' = [job EXCEPT !.refreshed = FALSE]
  /\ undo' = <<>> /\ lost' = {} /\ error' = "none"
  /\ stray' = stray \cup {o \in exists : o[3] = job.try}
  /\ UNCHANGED <<draft, exists, active, record, doubt, asked, unverified>>

\* retry, from the API.
Retry ==
  /\ phase \in {"failed", "unconfirmed"} /\ job.try < MaxTries
  /\ phase' = "approved" /\ job' = [job EXCEPT !.attempt = 1]
  /\ UNCHANGED <<draft, exists, active, undo, lost, error, record, left, doubt, history, unverified>>

-----------------------------------------------------------------------------
(* setStatus *)

Own == {o \in exists : o[3] = job.try}
Activate ==
  /\ phase = "paused" /\ Move
  /\ phase' = "activating" /\ asked' = TRUE
  /\ UNCHANGED <<draft, job, exists, active, undo, lost, error, record, doubt, stray, unverified>>
\* The next calls: Google's one atomic mutate; else the children of one level after the other,
\* one by one or in batches, and the campaign last.
Off(type) == {o \in Own : o[1] = type /\ o \notin active}
ChildrenLeft == {i \in DOMAIN Levels : Off(Levels[i]) # {}}
NextSwitch ==
  IF draft.platform = "google" THEN {UNION {Off(type) : type \in Switches}}
  ELSE IF ChildrenLeft = {} THEN {Off("campaign")}
  ELSE LET level == CHOOSE i \in ChildrenLeft : \A j \in ChildrenLeft : i <= j
       IN SUBSET Off(Levels[level]) \ {{}}
SwitchOn ==
  /\ phase = "activating"
  /\ \E S \in NextSwitch : active' = active \cup S
  /\ phase' = IF \A o \in Own : o[1] \in Switches => o \in active' THEN "active" ELSE phase
  /\ UNCHANGED <<draft, job, exists, undo, lost, error, record, left, doubt, history, unverified>>
\* A call fails, after it took effect or before, or the worker dies: the rest is not called.
SwitchFails ==
  /\ phase = "activating"
  /\ \E S \in NextSwitch \cup {{}} : active' = active \cup S
  /\ phase' = "paused"
  /\ UNCHANGED <<draft, job, exists, undo, lost, error, record, left, doubt, history, unverified>>
Pause ==
  /\ phase \in {"active", "paused"} /\ Move
  /\ active' = active \ {<<"campaign", 0, job.try>>}
  /\ phase' = "paused" /\ unverified' = FALSE
  /\ UNCHANGED <<draft, job, exists, undo, lost, error, record, doubt, history>>

AdCreationNext ==
  \/ Begin \/ CallSucceeds \/ CallRefused \/ CallAmbiguous \/ Rollback
  \/ Caught \/ Finish \/ Crash \/ Retry
  \/ Activate \/ SwitchOn \/ SwitchFails \/ Pause
Spec == AdCreationInit /\ [][AdCreationNext]_avars

-----------------------------------------------------------------------------
Visible(o) == o[1] # "asset"
\* When createCampaign throws, all it leaves behind is named in orphanedExternalIds, or hangs
\* under something named there, or is what an ambiguous call made, and then the error says so
\* (types.ts, createCampaign).
LeftoversReported ==
  phase = "thrown" =>
    \A o \in exists :
      o[3] = job.try /\ Visible(o) =>
        \/ \E p \in lost : Covers(p, o)
        \/ error = "unknown_outcome" /\ \E p \in doubt : Covers(p, o)

\* An ad delivers when it and all it hangs under are on.  None does before a person asked for
\* it, nor while a child of the campaign is still off (setStatus: the campaign goes last).
Delivers(o) == o[1] = Leaf /\ \A p \in exists : Covers(p, o) /\ p[1] \in Switches \cup {Leaf} => p \in active
DeliversWhole ==
  ~unverified /\ (\E o \in exists : Delivers(o)) =>
    asked /\ \A o \in exists : o[3] = job.try /\ o[1] \in Switches => o \in active

\* Whatever an attempt left on the platform stays known to the row, so that a person can
\* remove it (campaign-state.ts, failed), but for ambiguous calls and the calls of a worker
\* that died.
LeftoversRecorded ==
  phase \in {"failed", "paused"} =>
    \A o \in exists :
      o[1] = "campaign" => \E p \in record \cup doubt \cup stray : Covers(p, o)
=============================================================================
