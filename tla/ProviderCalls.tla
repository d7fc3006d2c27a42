---------------------------- MODULE ProviderCalls ----------------------------
(***************************************************************************)
(* One post, or one reply, and the platform calls its adapter makes for it *)
(* (packages/integrations/src/providers), with what http.ts and the        *)
(* adapters conclude from each answer and what the publishing engine, or   *)
(* the reply sender, does about it.  Publishing and Replies take an        *)
(* adapter's call as one step that shows the post or does not, and trust   *)
(* its error to say which; here that trust is examined.                    *)
(*                                                                         *)
(* Nothing competes for the post here: one worker sends it, and no status  *)
(* check is delivered twice.                                               *)
(***************************************************************************)
EXTENDS RetryPolicy, SequencesExt

CONSTANTS Providers,  \* {"facebook", "instagram", "threads", "linkedin", "x", "youtube", "reddit"}
          MaxMedia,   \* bound: images or videos of a post
          MaxChecks   \* MAX_STATUS_CHECKS

\* What a configuration must give them.
CallsParameters ==
  /\ Providers \subseteq {"facebook", "instagram", "threads", "linkedin", "x", "youtube", "reddit"}
  /\ MaxMedia \in Nat /\ MaxChecks \in Nat

VARIABLES
  item,      \* what is sent: provider, post or reply, the kinds of its media
  phase,     \* of the worker
  todo,      \* the calls the adapter has still to make
  pending,   \* pending_data: which containers a status check goes on with
  attempt, refreshed, check,
  \* the platform
  visible   \* how many times followers see the item

cvars == <<item, phase, todo, pending, attempt, refreshed, check, visible>>

-----------------------------------------------------------------------------
(* Calls.  `mutating` is the flag the adapter passes, `shows` what the call does, `noId` *)
(* what the adapter makes of a success without the id (or header) it needs.             *)

Call(kind, mutating, noId) == [kind |-> kind, mutating |-> mutating, noId |-> noId]
Read == Call("read", FALSE, "internal")
\* Media, containers and upload sessions: no follower sees them.
Upload == Call("upload", FALSE, "internal")
UploadOr(kind) == Call("upload", FALSE, kind)
\* Meta's photos and containers: a missing id is carried on, and a later call is refused for it.
UploadAnyId == UploadOr("none")
Show == Call("show", TRUE, "unknown_outcome")
\* Facebook, Instagram and Threads take the post for published all the same.
ShowAnyId == Call("show", TRUE, "none")
\* The look at a container before publishing it; `leaves` is the pending data while it is not ready.
Look(leaves) == [kind |-> "look", mutating |-> FALSE, noId |-> "internal", leaves |-> leaves]
\* Waiting inside the adapter.
Wait == Call("wait", FALSE, "internal")
\* The permalink of what has just been published.
Link == Call("link", FALSE, "internal")

Times(n, s) == FlattenSeq([i \in 1 .. n |-> s])
Videos == \E i \in DOMAIN item.media : item.media[i] = "video"
Count == Len(item.media)
EachMedia(Steps(_)) == FlattenSeq([i \in DOMAIN item.media |-> Steps(item.media[i])])
\* The platform's comment that a nested reply answers is looked up first.
Lookup == IF item.nested THEN <<Read>> ELSE <<>>

\* advanceContainers.
Advance(p) ==
  (IF p = "children" THEN <<Look("children"), UploadAnyId>> ELSE <<>>) \o <<Look("container"), ShowAnyId, Link>>

FacebookPost == IF Videos \/ Count = 1 THEN <<ShowAnyId>> ELSE Times(Count, <<UploadAnyId>>) \o <<ShowAnyId>>
FacebookReply == Lookup \o <<Show>>
\* What publish leaves in pending_data.
ContainerKind == IF Count > 1 THEN "children" ELSE "container"
InstagramPost ==
  Times(Count, <<UploadAnyId>>) \o IF Videos THEN <<>> ELSE Advance(ContainerKind)
ThreadsPost ==
  IF Count = 0 THEN <<UploadAnyId>> \o Advance("container")
  ELSE Times(Count, <<UploadAnyId>>) \o IF Videos THEN <<>> ELSE Advance(ContainerKind)
ThreadsReply == <<UploadAnyId, Wait, ShowAnyId, Link>>
LinkedInImage == <<Upload, Read, Upload>>
LinkedInVideo == <<Read, Upload, UploadOr("transient"), Upload>>
LinkedInMedia(m) == IF m = "video" THEN LinkedInVideo ELSE LinkedInImage
LinkedInPost == EachMedia(LinkedInMedia) \o <<Show>>
LinkedInReply == Lookup \o <<Show>>
XMedia(m) == <<Read, Upload, Upload, Upload>> \o (IF m = "video" THEN <<Wait>> ELSE <<>>) \o <<Upload>>
XPost == EachMedia(XMedia) \o <<Show>>
YouTubePost == <<Read, UploadOr("transient"), Show>>

Plan ==
  IF item.reply
  THEN CASE item.provider = "facebook" -> FacebookReply [] item.provider = "linkedin" -> LinkedInReply
         [] item.provider = "threads" -> ThreadsReply [] OTHER -> <<Show>>
  ELSE CASE item.provider = "facebook" -> FacebookPost [] item.provider = "instagram" -> InstagramPost
         [] item.provider = "threads" -> ThreadsPost [] item.provider = "linkedin" -> LinkedInPost
         [] item.provider = "x" -> XPost [] item.provider = "youtube" -> YouTubePost
         [] item.provider = "reddit" -> <<Show>>

-----------------------------------------------------------------------------
(* Answers that are failures, and the kind of error each becomes *)

\* Mutant of Ambiguous: the flag is not looked at.
AmbiguousAlwaysTransient(mutating) == "transient"
Ambiguous(mutating) == IF mutating THEN "unknown_outcome" ELSE "transient"

\* providerFetch: no connection; a timeout or a reset; 401 or 403; 429; 5xx; any other status.
HttpErrors(mutating) ==
  [never_sent |-> "transient", lost |-> Ambiguous(mutating), unauthorized |-> "auth",
   throttled |-> "rate_limited", broken |-> Ambiguous(mutating), rejected |-> "invalid_request"]
\* classifyMetaError: 190, 102, 10, 2xx; the rate codes; 368; 9007; 1, 2 and is_transient.
MetaErrors(mutating) ==
  [session |-> "auth", window |-> "rate_limited", blocked |-> "invalid_request",
   not_ready |-> "transient", try_again |-> Ambiguous(mutating)]
\* classifyXError: the duplicate, the refused grant, a 400 or 403 about the content.
XErrors == [duplicate |-> "invalid_request", grant |-> "auth", content |-> "invalid_request"]
\* classifyGoogleError, by reason.
GoogleErrors == [grant |-> "auth", quota |-> "rate_limited", content |-> "invalid_request"]
\* redditErrorsToProviderError: errors in an answer with status 200.
RedditErrors == [ratelimit |-> "rate_limited", user |-> "auth", content |-> "invalid_request"]

PlatformErrors(mutating) ==
  CASE item.provider \in {"facebook", "instagram", "threads"} -> MetaErrors(mutating)
    [] item.provider = "x" -> XErrors [] item.provider = "youtube" -> GoogleErrors
    [] item.provider = "reddit" -> RedditErrors [] OTHER -> <<>>

\* The answers that do not tell whether the platform has done what it was asked.
Unclear == {"lost", "broken", "try_again"}

-----------------------------------------------------------------------------
Outcomes == {"published", "failed", "unconfirmed"}
Phases == {"start", "publish", "polling", "check"} \cup Outcomes
CallsTypeOK ==
  /\ item.provider \in Providers /\ item.reply \in BOOLEAN /\ item.nested \in BOOLEAN
  /\ item.media \in Seq({"image", "video"}) /\ Count <= MaxMedia
  /\ phase \in Phases
  /\ \A i \in DOMAIN todo : todo[i].mutating <=> todo[i].kind = "show"
  /\ pending \in {"none", "children", "container"}
  /\ phase \in {"polling", "check"} => pending # "none"
  /\ attempt \in 1 .. MaxAttempts /\ refreshed \in BOOLEAN /\ check \in 0 .. MaxChecks
  /\ visible \in Nat

MediaLists == UNION {[1 .. n -> {"image", "video"}] : n \in 0 .. MaxMedia}
\* What validation admits: replies have text only.
Valid(i) ==
  /\ i.reply => i.media = <<>>
  /\ i.nested => i.reply
  /\ ~i.reply =>
       /\ i.provider \in {"instagram", "youtube"} => i.media # <<>>
       /\ i.provider = "youtube" => i.media = <<"video">>
       /\ i.provider = "reddit" => i.media = <<>>
       /\ i.provider \in {"facebook", "linkedin", "x"} => i.media = <<"video">> \/ \A k \in DOMAIN i.media : i.media[k] = "image"

CallsInit ==
  /\ item \in {i \in [provider : Providers, reply : BOOLEAN, nested : BOOLEAN, media : MediaLists] : Valid(i)}
  /\ phase = "start" /\ todo = <<>> /\ pending = "none"
  /\ attempt = 1 /\ refreshed = FALSE /\ check = 0
  /\ visible = 0

Sending == phase \in {"publish", "check"}
Head1 == todo[1]
Rest == Tail(todo)

\* The worker claims the post, or its retry.
Publish ==
  /\ phase = "start"
  /\ phase' = "publish" /\ todo' = Plan /\ refreshed' = FALSE
  /\ UNCHANGED <<item, pending, attempt, check, visible>>

CheckStatus ==
  /\ phase = "polling"
  /\ phase' = "check" /\ todo' = Advance(pending)
  /\ UNCHANGED <<item, pending, attempt, refreshed, check, visible>>

\* pollAgain.
PollAgain(k) ==
  IF k >= MaxChecks THEN phase' = "failed" /\ check' = check ELSE phase' = "polling" /\ check' = k

Decided(decision) ==
  \/ /\ decision = "refresh_token" /\ refreshed' = TRUE
     /\ todo' = Plan /\ UNCHANGED <<phase, attempt>>
  \/ /\ decision = "retry" /\ attempt' = attempt + 1 /\ phase' = "start" /\ todo' = <<>> /\ UNCHANGED refreshed
  \/ /\ decision \in {"fail", "revoked"} /\ phase' = "failed" /\ todo' = <<>> /\ UNCHANGED <<attempt, refreshed>>
  \/ /\ decision = "unconfirmed" /\ phase' = "unconfirmed" /\ todo' = <<>> /\ UNCHANGED <<attempt, refreshed>>

\* The catch of publish, of send and of checkStatus.
Catch(kind) ==
  IF phase = "check" /\ kind \in {"transient", "rate_limited"}
  THEN PollAgain(check + 1) /\ todo' = <<>> /\ UNCHANGED <<attempt, refreshed>>
  ELSE /\ IF phase = "check" THEN Decided(Decide(kind, MaxAttempts, TRUE, TRUE))
          ELSE Decided(Decide(kind, attempt, TRUE, refreshed))
       /\ UNCHANGED check

\* A call that the platform answers with success.
Succeeds ==
  /\ Sending /\ todo # <<>> /\ Head1.kind \notin {"look", "wait"}
  /\ todo' = Rest
  /\ IF Head1.kind = "show" THEN visible' = visible + 1 ELSE UNCHANGED visible
  /\ UNCHANGED <<item, phase, pending, attempt, refreshed, check>>

\* publish or checkStatus returns.
Returns ==
  /\ Sending /\ todo = <<>>
  /\ IF phase = "publish" /\ ~item.reply /\ Videos /\ item.provider \in {"instagram", "threads"}
     THEN pending' = ContainerKind /\ PollAgain(0)
     ELSE phase' = "published" /\ UNCHANGED <<pending, check>>
  /\ UNCHANGED <<item, todo, attempt, refreshed, visible>>

\* The container is ready; not yet; or the platform could not process it.
LookAnswered ==
  /\ Sending /\ todo # <<>> /\ Head1.kind = "look"
  /\ \/ todo' = Rest /\ UNCHANGED <<phase, pending, attempt, refreshed, check>>
     \/ todo' = <<>> /\ pending' = Head1.leaves /\ UNCHANGED <<attempt, refreshed>>
        /\ PollAgain(IF phase = "check" THEN check + 1 ELSE 0)
     \/ Catch("invalid_request") /\ UNCHANGED pending
  /\ UNCHANGED <<item, visible>>

\* Ready in the end; not in time; or refused.
WaitAnswered ==
  /\ Sending /\ todo # <<>> /\ Head1.kind = "wait"
  /\ \/ todo' = Rest /\ UNCHANGED <<phase, attempt, refreshed, check>>
     \/ Catch("transient") \/ Catch("invalid_request")
  /\ UNCHANGED <<item, pending, visible>>

\* The post is live: a failed lookup of its address is logged.
LinkFails ==
  /\ Sending /\ todo # <<>> /\ Head1.kind = "link"
  /\ todo' = Rest
  /\ UNCHANGED <<item, phase, pending, attempt, refreshed, check, visible>>

\* Any other call fails.  If the answer is unclear the platform may have acted on it.
FailsWith(errors) ==
  \E a \in DOMAIN errors :
    /\ Catch(errors[a])
    /\ visible' \in IF Head1.kind = "show" /\ a \in Unclear THEN {visible, visible + 1} ELSE {visible}
Fails ==
  /\ Sending /\ todo # <<>> /\ Head1.kind # "link"
  /\ FailsWith(HttpErrors(Head1.mutating)) \/ FailsWith(PlatformErrors(Head1.mutating))
  /\ UNCHANGED <<item, pending>>

\* A success whose body cannot be read: not a ProviderError.  LinkedIn answers in a header.
Unreadable ==
  /\ Sending /\ todo # <<>> /\ Head1.kind # "link"
  /\ Head1.kind = "show" => item.provider # "linkedin"
  /\ Catch("internal")
  /\ visible' = IF Head1.kind = "show" THEN visible + 1 ELSE visible
  /\ UNCHANGED <<item, pending>>

\* A success without the id that is to come with it.
NoId ==
  /\ Sending /\ todo # <<>> /\ Head1.kind \in {"upload", "show"} /\ Head1.noId # "none"
  /\ Catch(Head1.noId)
  /\ visible' \in IF Head1.kind = "show" THEN {visible, visible + 1} ELSE {visible}
  /\ UNCHANGED <<item, pending>>

CallsNext ==
  \/ Publish \/ CheckStatus \/ Succeeds \/ Returns \/ LookAnswered \/ WaitAnswered
  \/ LinkFails \/ Fails \/ Unreadable \/ NoId
CallsSpec == CallsInit /\ [][CallsNext]_cvars

-----------------------------------------------------------------------------

\* However many calls an adapter makes, whichever of them fails and however often the engine
\* tries again, followers see the item once at most, and never while it is called unsent
\* (publishing-engine.ts, never publish twice).
One(v) == [x \in {"item"} |-> v]
Promise == INSTANCE SendOnce WITH
  Things <- {"item"}, shown <- One(visible), allowed <- One(1),
  told <- One(CASE phase \in {"start", "polling", "failed"} -> "unsent"
                [] phase = "published" -> "sent" [] OTHER -> "open")
CallsKeepPromise == Promise!Spec

=============================================================================
