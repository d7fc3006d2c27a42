---------------------------- MODULE RetryPolicy ----------------------------
(***************************************************************************)
(* What the publishing engine does after a failed call                     *)
(* (apps/worker/src/publishing/retry-policy.ts).  Delays and messages are  *)
(* left out: the engine's control depends only on the action chosen.       *)
(***************************************************************************)
EXTENDS Naturals

CONSTANT MaxAttempts        \* MAX_ATTEMPTS

ASSUME MaxAttemptsAssumption == MaxAttempts \in Nat \ {0}

\* ProviderErrorKind: what the adapters' error taxonomy says of a failed call.
ProviderErrors == {"auth", "rate_limited", "invalid_request", "transient", "unknown_outcome"}

\* Any other error: a bug, a database or Redis failure, a crash in result handling.
ErrorKinds == ProviderErrors \cup {"internal"}

Decisions == {"retry", "fail", "revoked", "unconfirmed", "refresh_token"}

RetryOrFail(attempt) == IF attempt < MaxAttempts THEN "retry" ELSE "fail"

\* Mutant of Decide: an unknown outcome is retried like a transient failure.
DecideRetriesUnknown(kind, attempt, sent, alreadyRefreshed) ==
  IF kind = "auth" THEN IF alreadyRefreshed THEN "revoked" ELSE "refresh_token"
  ELSE IF kind = "invalid_request" THEN "fail" ELSE RetryOrFail(attempt)

\* decide.  "revoked" is the failure whose code is channel_needs_reauth, which also
\* marks the channel.
Decide(kind, attempt, sent, alreadyRefreshed) ==
  CASE kind = "internal"        -> IF sent THEN "unconfirmed" ELSE RetryOrFail(attempt)
    [] kind = "auth"            -> IF alreadyRefreshed THEN "revoked" ELSE "refresh_token"
    [] kind \in {"rate_limited", "transient"} -> RetryOrFail(attempt)
    [] kind = "invalid_request" -> "fail"
    [] kind = "unknown_outcome" -> "unconfirmed"
=============================================================================
