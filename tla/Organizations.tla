--------------------------- MODULE Organizations ---------------------------
(***************************************************************************)
(* The members of one organization and its invitations.  Each request is   *)
(* a sequence of statements of its own, but for the acceptance of an       *)
(* invitation, which is a transaction under READ COMMITTED; its role in    *)
(* the organization is read first and used to the end.                     *)
(*                                                                         *)
(* A user stands for their e-mail address; names and mail are left out.    *)
(***************************************************************************)
EXTENDS Naturals, FiniteSets

CONSTANTS
  Users,
  Creator,      \* who created the organization
  Invitations,  \* ids of invitations rows
  Requests,     \* requests that may run at once
  MaxRequests   \* bound: requests in a behaviour

\* What a configuration must give them.
OrganizationsParameters == Creator \in Users /\ IsFiniteSet(Users) /\ MaxRequests \in Nat

VARIABLES
  deleted,     \* organizations.deleted_at
  role,        \* memberships.role of each user, or "none"
  invitation,  \* the invitations rows
  request,     \* each request's variables
  left,        \* bound left
  raced,       \* history: a role was written between a request's reads and its write
  admits,      \* history: members each invitation has admitted
  together     \* history: invitations accepted twice at once, or revoked while being accepted

ovars == <<deleted, role, invitation, request, left, raced, admits, together>>

Roles == {"viewer", "editor", "admin", "owner"}
RANK(r) == CASE r = "none" -> 0 [] r = "viewer" -> 1 [] r = "editor" -> 2 [] r = "admin" -> 3 [] OTHER -> 4
AtLeast(r, minimum) == RANK(r) >= RANK(minimum)

Unused == [for |-> Creator, role |-> "none", accepted |-> FALSE, revoked |-> FALSE, expired |-> FALSE]
Used(i) == invitation[i].role # "none"
\* Neither accepted nor revoked: there is one such row per address (invitations_open_uq).
Open(i) == Used(i) /\ ~ invitation[i].accepted /\ ~ invitation[i].revoked

Idle == [pc |-> "idle", kind |-> "none", actor |-> Creator, as |-> "none", user |-> Creator,
         role |-> "none", inv |-> {}]

At(c, pc) == request[c].pc = pc
Goes(c, pc) == request' = [request EXCEPT ![c].pc = pc]
Ends(c) == request' = [request EXCEPT ![c] = Idle]
Owners == {u \in Users : role[u] = "owner"}

-----------------------------------------------------------------------------
(* requireOrg and requireRole *)

Minimum(kind) == IF kind = "remove" THEN "viewer" ELSE "admin"

\* The caller's role is read, and is enough for the route.
Arrive(c) ==
  /\ At(c, "idle") /\ left > 0 /\ ~ deleted
  /\ left' = left - 1
  /\ \E kind \in {"change", "remove", "invite"}, actor \in Users, user \in Users, new \in Roles :
       /\ AtLeast(role[actor], Minimum(kind))
       /\ kind = "remove" => new = "viewer"     \* no role is asked for
       /\ kind = "invite" => new # "owner"
       /\ request' = [request EXCEPT ![c] =
            [Idle EXCEPT !.pc = "read", !.kind = kind, !.actor = actor, !.as = role[actor],
                         !.user = user, !.role = new]]
  /\ UNCHANGED <<deleted, role, invitation, raced, admits, together>>

\* remove: an owner deletes the organization, and no request about it is admitted any more.
RemoveOrganization ==
  /\ ~ deleted /\ left > 0
  /\ left' = left - 1
  /\ Owners # {}
  /\ deleted' = TRUE
  /\ UNCHANGED <<role, invitation, request, raced, admits, together>>

-----------------------------------------------------------------------------
(* changeRole and removeMember *)

Forbidden(r, target) ==
  IF r.kind = "change" THEN "owner" \in {r.role, target} /\ r.as # "owner"
  ELSE \/ r.user # r.actor /\ ~ AtLeast(r.as, "admin")
       \/ target = "owner" /\ r.as # "owner" /\ r.user # r.actor

\* An owner is about to be one no longer.
Demotes(r, target) == target = "owner" /\ (r.kind = "change" => r.role # "owner")

ReadTarget(c) ==
  LET r == request[c]
      target == role[r.user]
  IN /\ At(c, "read") /\ r.kind \in {"change", "remove"}
     /\ IF target = "none" \/ Forbidden(r, target) THEN Ends(c)
        ELSE Goes(c, IF Demotes(r, target) THEN "count" ELSE "write")
     /\ UNCHANGED <<deleted, role, invitation, left, raced, admits, together>>

\* Mutant of AssertNotLastOwner: one owner is taken for enough.
AssertAnOwner(c) ==
  /\ At(c, "count")
  /\ IF Cardinality(Owners) < 1 THEN Ends(c) ELSE Goes(c, "write")
  /\ UNCHANGED <<deleted, role, invitation, left, raced, admits, together>>

AssertNotLastOwner(c) ==
  /\ At(c, "count")
  /\ IF Cardinality(Owners) <= 1 THEN Ends(c) ELSE Goes(c, "write")
  /\ UNCHANGED <<deleted, role, invitation, left, raced, admits, together>>

\* The UPDATE or DELETE, by organization and user alone.
WriteMember(c) ==
  LET r == request[c]
  IN /\ At(c, "write") /\ r.kind \in {"change", "remove"}
     /\ role' = [role EXCEPT ![r.user] = IF @ = "none" \/ r.kind = "remove" THEN "none" ELSE r.role]
     /\ raced' = (raced \/ \E d \in Requests \ {c} : At(d, "count") \/ At(d, "write"))
     /\ Ends(c)
     /\ UNCHANGED <<deleted, invitation, left, admits, together>>

-----------------------------------------------------------------------------
(* invite, revokeInvitation and acceptInvitation *)

InviteRead(c) ==
  /\ At(c, "read") /\ request[c].kind = "invite"
  /\ IF role[request[c].user] # "none" THEN Ends(c) ELSE Goes(c, "replace")
  /\ UNCHANGED <<deleted, role, invitation, left, raced, admits, together>>

\* Invitations that some request is accepting.
Accepting == UNION {request[d].inv : d \in Requests}
Revoked(ids) == [i \in Invitations |-> IF i \in ids THEN [invitation[i] EXCEPT !.revoked = TRUE]
                                       ELSE invitation[i]]

\* An open invitation to the same address is revoked; then the new row is inserted, unless
\* another one came in between.
InviteReplace(c) ==
  LET old == {i \in Invitations : Open(i) /\ invitation[i].for = request[c].user}
  IN /\ At(c, "replace")
     /\ invitation' = Revoked(old)
     /\ together' = together \cup (old \cap Accepting)
     /\ Goes(c, "insert")
     /\ UNCHANGED <<deleted, role, left, raced, admits>>
InviteInsert(c) ==
  LET r == request[c]
  IN /\ At(c, "insert")
     /\ IF \E i \in Invitations : Open(i) /\ invitation[i].for = r.user THEN UNCHANGED invitation
        ELSE \E i \in Invitations :
               /\ ~ Used(i)
               /\ invitation' = [invitation EXCEPT ![i] = [Unused EXCEPT !.for = r.user, !.role = r.role]]
     /\ Ends(c)
     /\ UNCHANGED <<deleted, role, left, raced, admits, together>>

\* One statement, for someone who was an admin when the request began.
RevokeInvitation ==
  /\ left > 0 /\ left' = left - 1
  /\ \E i \in Invitations :
       /\ Used(i) /\ ~ invitation[i].accepted
       /\ invitation' = Revoked({i})
       /\ together' = together \cup ({i} \cap Accepting)
  /\ UNCHANGED <<deleted, role, request, raced, admits>>

Expire ==
  /\ \E i \in Invitations :
       /\ Open(i) /\ ~ invitation[i].expired
       /\ invitation' = [invitation EXCEPT ![i].expired = TRUE]
  /\ UNCHANGED <<deleted, role, request, left, raced, admits, together>>

\* The user signed in with the invited address finds the invitation open.
AcceptRead(c) ==
  /\ At(c, "idle") /\ left > 0
  /\ left' = left - 1
  /\ \E i \in Invitations :
       /\ Open(i) /\ ~ invitation[i].expired
       /\ request' = [request EXCEPT ![c] =
            [Idle EXCEPT !.pc = "admit", !.kind = "accept", !.user = invitation[i].for, !.inv = {i}]]
       /\ together' = together \cup ({i} \cap Accepting)
  /\ UNCHANGED <<deleted, role, invitation, raced, admits>>

\* The membership is inserted unless there is one, and the row marked by its id alone.
AcceptCommit(c) ==
  LET r == request[c]
  IN /\ At(c, "admit")
     /\ \E i \in r.inv :
          /\ invitation' = [invitation EXCEPT ![i].accepted = TRUE]
          /\ IF role[r.user] # "none" THEN UNCHANGED <<role, admits>>
             ELSE /\ role' = [role EXCEPT ![r.user] = invitation[i].role]
                  /\ admits' = [admits EXCEPT ![i] = @ + 1]
     /\ Ends(c)
     /\ UNCHANGED <<deleted, left, raced, together>>

-----------------------------------------------------------------------------
\* Whatever members there are, the creator is an owner to begin with (create).
OrganizationsInit ==
  /\ deleted = FALSE
  /\ role \in [Users -> Roles \cup {"none"}] /\ role[Creator] = "owner"
  /\ invitation = [i \in Invitations |-> Unused]
  /\ request = [c \in Requests |-> Idle]
  /\ left = MaxRequests
  /\ raced = FALSE /\ admits = [i \in Invitations |-> 0] /\ together = {}

OrganizationsNext ==
  \/ RemoveOrganization \/ RevokeInvitation \/ Expire
  \/ \E c \in Requests :
       \/ Arrive(c) \/ ReadTarget(c) \/ AssertNotLastOwner(c) \/ WriteMember(c)
       \/ InviteRead(c) \/ InviteReplace(c) \/ InviteInsert(c) \/ AcceptRead(c) \/ AcceptCommit(c)

OrganizationsSpec == OrganizationsInit /\ [][OrganizationsNext]_ovars

-----------------------------------------------------------------------------
OrganizationsTypeOK ==
  /\ deleted \in BOOLEAN
  /\ role \in [Users -> Roles \cup {"none"}]
  /\ invitation \in [Invitations -> [for : Users, role : Roles \cup {"none"}, accepted : BOOLEAN,
                                     revoked : BOOLEAN, expired : BOOLEAN]]
  /\ \A c \in Requests :
       /\ request[c].pc \in {"idle", "read", "count", "write", "replace", "insert", "admit"}
       /\ request[c].kind \in {"none", "change", "remove", "invite", "accept"}
       /\ {request[c].as, request[c].role} \subseteq Roles \cup {"none"}
       /\ {request[c].actor, request[c].user} \subseteq Users /\ request[c].inv \subseteq Invitations
  /\ left \in 0..MaxRequests /\ raced \in BOOLEAN
  /\ admits \in [Invitations -> Nat] /\ together \subseteq Invitations

\* An organization loses its last owner only when two requests change members at once, each
\* having counted the owners or read its target before the other wrote (organizations.service.ts,
\* assertNotLastOwner); an invitation admits one member once, unless it was accepted twice at
\* once or revoked while it was being accepted (acceptInvitation).
MembersKept ==
  /\ Owners = {} => raced
  /\ \A i \in Invitations \ together : admits[i] + (IF Open(i) THEN 1 ELSE 0) <= 1

\* "An organization needs at least one owner" (organizations.service.ts:308).
OwnerRemains == Owners # {}
=============================================================================
