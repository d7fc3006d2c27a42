----------------------------- MODULE PostStatus -----------------------------
(***************************************************************************)
(* The status of a post, derived from the statuses of its targets          *)
(* (packages/db/src/queries/posts.ts).  The code asks only whether every   *)
(* or some target has a status, so the set of the targets' statuses is all *)
(* the derivation can see.                                                 *)
(***************************************************************************)

\* The post_targets.status enum.  Nothing in the repository writes "queued".
TargetStatus == {"draft", "scheduled", "queued", "publishing", "processing",
                 "published", "failed", "unconfirmed", "canceled"}

\* The posts.status enum.
PostStatuses == {"draft", "pending_approval", "scheduled", "publishing", "published",
                 "partially_published", "failed", "canceled"}

\* Mutant of DerivePostStatus: targets that agree give the post their own status.
DeriveCommonStatus(S, current) ==
  IF \E s \in S : S = {s} THEN CHOOSE s \in S : TRUE ELSE current

\* derivePostStatus: S is the set of the targets' statuses, current the post's.
DerivePostStatus(S, current) ==
  IF S \subseteq {"draft"} THEN IF current = "pending_approval" THEN current ELSE "draft"
  ELSE IF S = {"canceled"} THEN "canceled"
  ELSE IF S \cap {"queued", "publishing", "processing"} # {} THEN "publishing"
  ELSE IF S \cap {"scheduled", "draft"} # {}
       THEN IF "published" \in S THEN "publishing" ELSE "scheduled"
  ELSE IF S \ {"canceled"} = {"published"} THEN "published"
  ELSE IF "published" \in S THEN "partially_published" ELSE "failed"
=============================================================================
