---------------------------- MODULE MediaLibrary ----------------------------
(***************************************************************************)
(* One file of the media library: the browser puts it in the storage with  *)
(* a link that works for a while, the API confirms it against the storage, *)
(* posts refer to it, and it is removed, row first.  Row and object are in *)
(* two stores that no transaction spans.                                   *)
(*                                                                         *)
(* An object either has the declared size or not; bytes, dimensions and    *)
(* alternative texts are left out.                                         *)
(***************************************************************************)
EXTENDS Naturals, FiniteSets

CONSTANTS
  Requests,   \* requests that may run at once
  MaxMoves    \* bound: requests and uploads in a behaviour

\* What a configuration must give them.
MediaBounds == MaxMoves \in Nat

VARIABLES
  status,     \* media_assets.status; "unused" before createUpload and "removed" after remove
  object,     \* what the storage has under the row's key
  link,       \* the presigned link still works
  used,       \* post_media has a row for the file
  request,    \* each request: where it is and what it has read
  left,       \* bound left
  replaced,   \* history: something was uploaded after the storage was asked
  raced,      \* history: two confirmations ran together
  leftover    \* history: the object of a removed row may remain

mvars == <<status, object, link, used, request, left, replaced, raced, leftover>>

Idle == [pc |-> "idle", stat |-> "none"]
At(c, pc) == request[c].pc = pc
Goes(c, pc) == request' = [request EXCEPT ![c] = [pc |-> pc, stat |-> "none"]]
Ends(c) == request' = [request EXCEPT ![c] = Idle]
Move == left > 0 /\ left' = left - 1
HasRow == status \in {"pending_upload", "ready", "failed"}
Confirming(c) == request[c].pc \in {"stat", "mark"}

-----------------------------------------------------------------------------
(* createUpload, and the browser with the link *)

CreateUpload ==
  /\ status = "unused" /\ Move
  /\ status' = "pending_upload"
  /\ link' = TRUE
  /\ UNCHANGED <<object, used, request, replaced, raced, leftover>>

\* The link may be used as often as the browser likes, also once the file was confirmed or removed.
Put ==
  /\ link /\ Move
  /\ object' \in {"right", "wrong"}
  /\ replaced' = (replaced \/ status = "ready" \/ \E c \in Requests : At(c, "mark"))
  /\ leftover' = (leftover \/ status = "removed")
  /\ UNCHANGED <<status, link, used, request, raced>>

LinkExpires ==
  /\ link /\ link' = FALSE
  /\ UNCHANGED <<status, object, used, request, left, replaced, raced, leftover>>

-----------------------------------------------------------------------------
(* completeUpload *)

CompleteRead(c) ==
  /\ At(c, "idle") /\ HasRow /\ Move
  /\ IF status = "ready" THEN UNCHANGED request ELSE Goes(c, "stat")
  /\ raced' = (raced \/ \E d \in Requests \ {c} : Confirming(d))
  /\ UNCHANGED <<status, object, link, used, replaced, leftover>>

\* The storage is asked; an answer that cannot be had counts as no object.
CompleteStat(c) ==
  /\ At(c, "stat")
  /\ \/ object # "none" /\ request' = [request EXCEPT ![c] = [pc |-> "mark", stat |-> object]]
     \/ Ends(c)
  /\ UNCHANGED <<status, object, link, used, left, replaced, raced, leftover>>

\* Mutant of CompleteMark: the browser's word is enough.
CompleteMarkAnySize(c) ==
  /\ At(c, "mark")
  /\ status' = IF HasRow THEN "ready" ELSE status
  /\ Ends(c)
  /\ UNCHANGED <<object, link, used, left, replaced, raced, leftover>>

\* The row is marked, by its id alone.
CompleteMark(c) ==
  /\ At(c, "mark")
  /\ status' = IF HasRow THEN (IF request[c].stat = "right" THEN "ready" ELSE "failed") ELSE status
  /\ Ends(c)
  /\ UNCHANGED <<object, link, used, left, replaced, raced, leftover>>

-----------------------------------------------------------------------------
(* The posts API: loadRefs, then the transaction that writes post_media *)

AttachRead(c) ==
  /\ At(c, "idle") /\ status = "ready" /\ ~ used /\ Move
  /\ Goes(c, "attach")
  /\ UNCHANGED <<status, object, link, used, replaced, raced, leftover>>

\* The foreign key refuses a row that is gone.
AttachWrite(c) ==
  /\ At(c, "attach")
  /\ used' = (used \/ HasRow)
  /\ Ends(c)
  /\ UNCHANGED <<status, object, link, left, replaced, raced, leftover>>

\* The post is edited or removed.
Detach ==
  /\ used /\ Move
  /\ used' = FALSE
  /\ UNCHANGED <<status, object, link, request, replaced, raced, leftover>>

-----------------------------------------------------------------------------
(* remove *)

RemoveRead(c) ==
  /\ At(c, "idle") /\ HasRow /\ Move
  /\ Goes(c, "row")
  /\ UNCHANGED <<status, object, link, used, replaced, raced, leftover>>

\* Refused by the foreign key while a post refers to the file.
RemoveRow(c) ==
  /\ At(c, "row")
  /\ IF used THEN Ends(c) /\ UNCHANGED status
     ELSE /\ status' = IF HasRow THEN "removed" ELSE status
          /\ Goes(c, "object")
  /\ UNCHANGED <<object, link, used, left, replaced, raced, leftover>>

\* The object goes; or the storage, or the API itself, fails, and nobody is told.
RemoveObject(c) ==
  /\ At(c, "object")
  /\ \/ object' = "none" /\ UNCHANGED leftover
     \/ leftover' = TRUE /\ UNCHANGED object
  /\ Ends(c)
  /\ UNCHANGED <<status, link, used, left, replaced, raced>>

-----------------------------------------------------------------------------
MediaInit ==
  /\ status = "unused" /\ object = "none" /\ link = FALSE /\ used = FALSE
  /\ request = [c \in Requests |-> Idle]
  /\ left = MaxMoves
  /\ replaced = FALSE /\ raced = FALSE /\ leftover = FALSE

MediaNext ==
  \/ CreateUpload \/ Put \/ LinkExpires \/ Detach
  \/ \E c \in Requests :
       \/ CompleteRead(c) \/ CompleteStat(c) \/ CompleteMark(c) \/ AttachRead(c) \/ AttachWrite(c)
       \/ RemoveRead(c) \/ RemoveRow(c) \/ RemoveObject(c)

MediaSpec == MediaInit /\ [][MediaNext]_mvars

-----------------------------------------------------------------------------
MediaTypeOK ==
  /\ status \in {"unused", "pending_upload", "ready", "failed", "removed"}
  /\ object \in {"none", "right", "wrong"}
  /\ link \in BOOLEAN /\ used \in BOOLEAN
  /\ request \in [Requests -> [pc : {"idle", "stat", "mark", "attach", "row", "object"},
                               stat : {"none", "right", "wrong"}]]
  /\ left \in 0..MaxMoves
  /\ replaced \in BOOLEAN /\ raced \in BOOLEAN /\ leftover \in BOOLEAN

\* A file that posts refer to is in the storage, also while it is being removed; it is the file
\* that was declared, and so is every ready one, unless the browser uploaded again after the
\* storage was asked; and it is still shown as ready, unless two confirmations ran together.
\* Nothing stays in the storage for a removed row but what a failure or a late upload left
\* (media.service.ts, completeUpload and remove; posts.service.ts, loadRefs).
FilesKept ==
  /\ used => HasRow /\ object # "none"
  /\ used \/ status = "ready" => object = "right" \/ replaced
  /\ used => status = "ready" \/ raced
  /\ status = "removed" /\ object # "none" => leftover \/ \E c \in Requests : At(c, "object")
=============================================================================
