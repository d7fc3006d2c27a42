------------------------------ MODULE SendOnce ------------------------------
(***************************************************************************)
(* What everything that sends promises its users, whatever is sent: it is  *)
(* shown once, and once more each time a user who was told that the        *)
(* outcome is open confirms that it is not there; and what is said of it   *)
(* is true (publishing-engine.ts:40, reply-sender.ts:36).  Replies and     *)
(* ProviderCalls implement it.                                             *)
(***************************************************************************)
EXTENDS Naturals

CONSTANT Things

VARIABLES
  shown,    \* how often followers see each thing
  allowed,  \* how often its users have asked for it to be shown
  told      \* what they are told: "unsent", and then it may be changed, taken back or sent
            \* without a question; "open", it is being sent or nobody knows; "sent"

ovars == <<shown, allowed, told>>

Init ==
  /\ shown = [x \in Things |-> 0]
  /\ allowed = [x \in Things |-> 1]
  /\ told = [x \in Things |-> "unsent"]

Show(x) ==
  /\ shown[x] < allowed[x]
  /\ allowed[x] = 1 => told[x] # "unsent"
  /\ shown' = [shown EXCEPT ![x] = @ + 1]
  /\ UNCHANGED <<allowed, told>>

Tell(x, what) ==
  /\ what = "unsent" => shown[x] = 0 \/ allowed[x] > 1
  /\ what = "sent" => shown[x] > 0
  /\ told' = [told EXCEPT ![x] = what]
  /\ UNCHANGED <<shown, allowed>>

Confirm(x) ==
  /\ told[x] = "open"
  /\ allowed' = [allowed EXCEPT ![x] = @ + 1]
  /\ told' = [told EXCEPT ![x] = "unsent"]
  /\ UNCHANGED shown

Next == \E x \in Things : Show(x) \/ Confirm(x) \/ \E what \in {"unsent", "open", "sent"} : Tell(x, what)

Spec == Init /\ [][Next]_ovars

\* What the promise comes to: nothing is shown more often than was asked for; until somebody
\* has confirmed, what is called unsent is not shown, and what is called sent always is.
Kept ==
  \A x \in Things :
    /\ shown[x] <= allowed[x]
    /\ told[x] = "unsent" /\ allowed[x] = 1 => shown[x] = 0
    /\ told[x] = "sent" => shown[x] > 0
=============================================================================
