--------------------------- MODULE PipelineProofs ---------------------------
(***************************************************************************)
(* Proofs about the parts of MCPipeline.  Those of the roll-up's           *)
(* transactions, of the platform calls, of an organization's members, of a *)
(* file of the library and of the comments are here, each for all          *)
(* behaviours of the part and any values of its constants; those of the    *)
(* tokens and the campaigns are in modules of their own.  The last section *)
(* concludes for MCPipeline, whose behaviours are each one part's.         *)
(***************************************************************************)
EXTENDS MCPipeline, Sequences, FiniteSetTheorems, TLAPS

\* What is left of a bound.
LEMMA OneLeft ==
  ASSUME NEW max \in Nat, NEW n \in 0..max, NEW m, m = n \/ (n > 0 /\ m = n - 1)
  PROVE  m \in 0..max
OBVIOUS

-----------------------------------------------------------------------------
(* The roll-up's transactions (PostTransactions) *)


LEMMA RollupsCounting ==
  ASSUME NEW S
  PROVE  Statements!IsFiniteSet(S) = IsFiniteSet(S) /\ Statements!Cardinality(S) = Cardinality(S)
BY DEF Statements!IsFiniteSet, IsFiniteSet, Statements!Cardinality, Cardinality

LEMMA DeriveTyped ==
  ASSUME NEW S, NEW current \in Statements!PostStatuses
  PROVE  Statements!DerivePostStatus(S, current) \in Statements!PostStatuses
BY DEF Statements!DerivePostStatus, Statements!PostStatuses

\* Deriving again changes nothing.
LEMMA DeriveTwice ==
  ASSUME NEW S, NEW current
  PROVE  LET p == Statements!DerivePostStatus(S, current) IN Statements!DerivePostStatus(S, p) = p
BY DEF Statements!DerivePostStatus

LEMMA NoTxTyped == Statements!NoTx \in Statements!Transactions
BY DEF Statements!NoTx, Statements!Transactions, Statements!Kinds, Statements!TargetStatus, Statements!PostStatuses

\* What a session's step leaves of the others.
LEMMA SetOne ==
  ASSUME Statements!TypeOK, NEW x \in Backends, NEW r, Statements!Set(x, r)
  PROVE  tx'[x] = r /\ \A y \in Backends : y # x => tx'[y] = tx[y]
BY DEF Statements!TypeOK, Statements!Set

LEMMA SetTyped ==
  ASSUME Statements!TypeOK, NEW x \in Backends, NEW r \in Statements!Transactions, Statements!Set(x, r)
  PROVE  tx' \in [Backends -> Statements!Transactions]
BY DEF Statements!TypeOK, Statements!Set

\* An open update() has targets to insert, a transaction of another kind none.
Adds(r) == IF r.kind = "update" THEN r.adds # {} ELSE r.adds = {}
AddsInv == \A x \in Backends : Adds(tx[x])

\* The rows a session's commit leaves.
LEMMA CommittedRows ==
  ASSUME NEW x, Statements!Commit(x) PROVE Statements!Rows' = Statements!Seen(x)
<1>1. txStatus' = [t \in Statements!Seen(x) |-> IF t \in tx[x].mine \cup tx[x].adds THEN tx[x].to ELSE txStatus[t]]
  BY DEF Statements!Commit, Statements!View
<1> QED
  BY <1>1 DEF Statements!Rows

LEMMA SeenSome ==
  ASSUME Statements!TypeOK, AddsInv, NEW x \in Backends PROVE Statements!Seen(x) # {}
BY DEF Statements!TypeOK, AddsInv, Adds, Statements!Seen

LEMMA TransactionsInit ==
  ASSUME Statements!TransactionsParameters, Statements!Init PROVE Statements!TypeOK
<1>1. PICK ts \in (SUBSET Rollups) \ {{}} : txStatus \in [ts -> {"scheduled"}]
  BY DEF Statements!Init
<1>2. Statements!Rows = ts /\ txStatus \in [Statements!Rows -> Statements!TargetStatus]
  BY <1>1 DEF Statements!Rows, Statements!TargetStatus
<1> QED
  BY <1>1, <1>2, NoTxTyped DEF Statements!Init, Statements!TypeOK, Statements!TransactionsParameters, Statements!PostStatuses

LEMMA TransactionsStep ==
  ASSUME Statements!TransactionsParameters, Statements!TypeOK, AddsInv, [Statements!Next]_Statements!vars
  PROVE  Statements!TypeOK'
<1>s. ASSUME NEW ts PROVE Statements!Selected("schedule", ts) \subseteq ts /\ Statements!Selected("unschedule", ts) \subseteq ts
  BY DEF Statements!Selected
<1>1. ASSUME NEW x \in Backends,
             \/ Statements!BeginOne(x) \/ Statements!BeginSchedule(x)
             \/ Statements!BeginUpdate(x) \/ Statements!BeginUnschedule(x)
      PROVE  Statements!TypeOK'
  <2>0. /\ UNCHANGED <<txPost, txStatus>> /\ txLeft > 0 /\ txLeft' = txLeft - 1
        /\ txLeft \in 0..MaxTx /\ MaxTx \in Nat
    BY <1>1 DEF Statements!BeginOne, Statements!BeginSchedule, Statements!BeginUpdate, Statements!BeginUnschedule,
       Statements!TypeOK, Statements!TransactionsParameters
  <2>1. UNCHANGED <<txPost, txStatus>> /\ txLeft' \in 0..MaxTx
    BY <2>0
  <2>2. PICK r \in Statements!Transactions : Statements!Set(x, r)
    <3>1. CASE Statements!BeginOne(x)
      <4>1. PICK t \in Statements!Rows, kind \in {"claim", "outcome", "reschedule", "retry"}, to \in Statements!TargetStatus :
              Statements!Set(x, [Statements!NoTx EXCEPT !.pc = "rows", !.kind = kind, !.rows = {t}, !.to = to])
        BY <3>1 DEF Statements!BeginOne
      <4>2. kind \in Statements!Kinds /\ {t} \subseteq Rollups
        BY DEF Statements!Kinds, Statements!TypeOK
      <4> QED
        BY <4>1, <4>2, NoTxTyped DEF Statements!Transactions
    <3>2. CASE Statements!BeginSchedule(x)
      BY <3>2, NoTxTyped DEF Statements!BeginSchedule, Statements!Transactions, Statements!Kinds, Statements!TargetStatus
    <3>3. CASE Statements!BeginUnschedule(x)
      BY <3>3, <1>s, NoTxTyped DEF Statements!BeginUnschedule, Statements!Transactions, Statements!Kinds, Statements!TargetStatus, Statements!TypeOK
    <3>4. CASE Statements!BeginUpdate(x)
      <4>1. PICK new \in SUBSET Rollups :
              Statements!Set(x, [Statements!NoTx EXCEPT !.pc = "post", !.kind = "update", !.to = "draft", !.adds = new])
        BY <3>4 DEF Statements!BeginUpdate, Statements!Fresh
      <4> QED
        BY <4>1, NoTxTyped DEF Statements!Transactions, Statements!Kinds, Statements!TargetStatus
    <3> QED
      BY <1>1, <3>1, <3>2, <3>3, <3>4
  <2> QED
    BY <2>1, <2>2, SetTyped DEF Statements!TypeOK, Statements!Rows
<1>2. ASSUME NEW x \in Backends,
             Statements!TouchFirst(x) \/ Statements!UpdateRow(x) \/ Statements!Updated(x) \/ Statements!TouchLast(x) \/ Statements!ReadPost(x) \/ Statements!ReadRows(x)
      PROVE  Statements!TypeOK'
  <2>0. tx[x] \in Statements!Transactions /\ UNCHANGED <<txPost, txStatus, txLeft>>
    BY <1>2 DEF Statements!TypeOK, Statements!TouchFirst, Statements!UpdateRow, Statements!Updated, Statements!TouchLast, Statements!ReadPost, Statements!ReadRows
  <2>1. PICK r \in Statements!Transactions : Statements!Set(x, r)
    <3>1. CASE Statements!TouchFirst(x)
      <4>1. Statements!Selected(tx[x].kind, Statements!Rows) \subseteq Rollups
        BY DEF Statements!Selected, Statements!TypeOK
      <4> QED
        BY <2>0, <3>1, <4>1 DEF Statements!TouchFirst, Statements!Transactions
    <3>2. CASE Statements!UpdateRow(x)
      <4>1. PICK t \in tx[x].rows :
              Statements!Set(x, [tx[x] EXCEPT !.rows = @ \ {t}, !.mine = @ \cup Statements!Selected(tx[x].kind, {t})])
        BY <3>2 DEF Statements!UpdateRow
      <4>2. Statements!Selected(tx[x].kind, {t}) \subseteq Rollups
        BY <2>0 DEF Statements!Selected, Statements!Transactions
      <4> QED
        BY <2>0, <4>1, <4>2 DEF Statements!Transactions
    <3>3. CASE Statements!Updated(x)
      BY <2>0, <3>3, NoTxTyped DEF Statements!Updated, Statements!Ends, Statements!Transactions
    <3>4. CASE Statements!TouchLast(x)
      BY <2>0, <3>4 DEF Statements!TouchLast, Statements!Transactions
    <3>5. CASE Statements!ReadPost(x)
      BY <2>0, <3>5 DEF Statements!ReadPost, Statements!Transactions, Statements!TypeOK
    <3>6. CASE Statements!ReadRows(x)
      BY <2>0, <3>6, DeriveTyped DEF Statements!ReadRows, Statements!Transactions
    <3> QED
      BY <1>2, <3>1, <3>2, <3>3, <3>4, <3>5, <3>6
  <2> QED
    BY <2>0, <2>1, SetTyped DEF Statements!TypeOK, Statements!Rows
<1>3. ASSUME NEW x \in Backends, Statements!Commit(x) PROVE Statements!TypeOK'
  <2>1. tx[x] \in Statements!Transactions /\ tx' \in [Backends -> Statements!Transactions]
    BY <1>3, SetTyped, NoTxTyped DEF Statements!Commit, Statements!Ends, Statements!TypeOK
  <2>2. /\ Statements!Rows' = Statements!Seen(x)
        /\ txStatus' = [t \in Statements!Seen(x) |-> IF t \in tx[x].mine \cup tx[x].adds THEN tx[x].to ELSE txStatus[t]]
    BY <1>3, CommittedRows DEF Statements!Commit, Statements!View
  <2>3. Statements!Seen(x) \in (SUBSET Rollups) \ {{}}
    BY <2>1, SeenSome DEF Statements!Seen, Statements!TypeOK, Statements!Transactions
  <2>4. ASSUME NEW t \in Statements!Seen(x), t \notin tx[x].mine \cup tx[x].adds
        PROVE  txStatus[t] \in Statements!TargetStatus
    BY <2>4 DEF Statements!Seen, Statements!TypeOK, Statements!Rows
  <2>5. txStatus' \in [Statements!Rows' -> Statements!TargetStatus]
    BY <2>1, <2>2, <2>4 DEF Statements!Transactions
  <2>6. Statements!Rows' \in (SUBSET Rollups) \ {{}}
    BY <2>2, <2>3
  <2>7. txPost' \in Statements!PostStatuses /\ txLeft' \in 0..MaxTx
    BY <1>3, <2>1 DEF Statements!Commit, Statements!TypeOK, Statements!Transactions
  <2> QED
    BY <2>1, <2>5, <2>6, <2>7 DEF Statements!TypeOK
<1>4. ASSUME Statements!Abort PROVE Statements!TypeOK'
  <2>1. PICK x \in Backends : Statements!Ends(x) /\ UNCHANGED <<txPost, txStatus, txLeft>>
    BY <1>4 DEF Statements!Abort
  <2> QED
    BY <2>1, SetTyped, NoTxTyped DEF Statements!Ends, Statements!TypeOK, Statements!Rows
<1>5. CASE UNCHANGED Statements!vars
  BY <1>5 DEF Statements!vars, Statements!TypeOK, Statements!Rows
<1> QED
  BY <1>1, <1>2, <1>3, <1>4, <1>5 DEF Statements!Next, Statements!Done

LEMMA AddsInit ==
  ASSUME Statements!Init PROVE AddsInv
BY DEF Statements!Init, Statements!NoTx, AddsInv, Adds

LEMMA AddsOne ==
  ASSUME Statements!TypeOK, AddsInv, NEW x \in Backends, NEW r, Statements!Set(x, r), Adds(r) PROVE AddsInv'
BY SetOne DEF AddsInv

LEMMA AddsStep ==
  ASSUME Statements!TypeOK, AddsInv, [Statements!Next]_Statements!vars PROVE AddsInv'
<1>t. \A x \in Backends : tx[x] \in Statements!Transactions /\ Adds(tx[x])
  BY DEF Statements!TypeOK, AddsInv
<1>n. Adds(Statements!NoTx)
  BY DEF Adds, Statements!NoTx
\* A step that keeps a session's kind and rows to insert.
<1>k. ASSUME NEW x \in Backends, NEW r, Statements!Set(x, r), r.kind = tx[x].kind, r.adds = tx[x].adds PROVE AddsInv'
  BY <1>k, <1>t, AddsOne DEF Adds
<1>1. ASSUME NEW x \in Backends, Statements!BeginOne(x) PROVE AddsInv'
  <2>1. PICK t \in Statements!Rows, kind \in {"claim", "outcome", "reschedule", "retry"}, to \in Statements!TargetStatus :
          Statements!Set(x, [Statements!NoTx EXCEPT !.pc = "rows", !.kind = kind, !.rows = {t}, !.to = to])
    BY <1>1 DEF Statements!BeginOne
  <2>2. Adds([Statements!NoTx EXCEPT !.pc = "rows", !.kind = kind, !.rows = {t}, !.to = to])
    BY DEF Adds, Statements!NoTx
  <2> QED
    BY <2>1, <2>2, AddsOne
<1>2. ASSUME NEW x \in Backends, Statements!BeginUpdate(x) PROVE AddsInv'
  <2>1. PICK new \in (SUBSET Statements!Fresh) \ {{}} :
          Statements!Set(x, [Statements!NoTx EXCEPT !.pc = "post", !.kind = "update", !.to = "draft", !.adds = new])
    BY <1>2 DEF Statements!BeginUpdate
  <2>2. Adds([Statements!NoTx EXCEPT !.pc = "post", !.kind = "update", !.to = "draft", !.adds = new])
    BY DEF Adds, Statements!NoTx
  <2> QED
    BY <2>1, <2>2, AddsOne
<1>6. ASSUME NEW x \in Backends, Statements!BeginSchedule(x) PROVE AddsInv'
  <2>1. Adds([Statements!NoTx EXCEPT !.pc = "post", !.kind = "schedule", !.to = "scheduled"])
    BY DEF Adds, Statements!NoTx
  <2> QED
    BY <1>6, <2>1, AddsOne DEF Statements!BeginSchedule
<1>7. ASSUME NEW x \in Backends, Statements!BeginUnschedule(x) PROVE AddsInv'
  <2> DEFINE r == [Statements!NoTx EXCEPT !.pc = "rows", !.kind = "unschedule", !.to = "draft",
                               !.rows = Statements!Selected("unschedule", Statements!Rows)]
  <2>1. Adds(r)
    BY DEF Adds, Statements!NoTx
  <2>2. Statements!Set(x, r)
    BY <1>7 DEF Statements!BeginUnschedule
  <2> QED
    BY <2>1, <2>2, AddsOne
<1>8. ASSUME NEW x \in Backends, Statements!UpdateRow(x) PROVE AddsInv'
  <2>1. PICK t \in tx[x].rows :
          Statements!Set(x, [tx[x] EXCEPT !.rows = @ \ {t}, !.mine = @ \cup Statements!Selected(tx[x].kind, {t})])
    BY <1>8 DEF Statements!UpdateRow
  <2> DEFINE r == [tx[x] EXCEPT !.rows = @ \ {t}, !.mine = @ \cup Statements!Selected(tx[x].kind, {t})]
  <2>2. r.kind = tx[x].kind /\ r.adds = tx[x].adds
    BY <1>t DEF Statements!Transactions
  <2> QED
    BY <2>1, <2>2, <1>k
<1>9. ASSUME NEW x \in Backends,
             \/ Statements!TouchFirst(x) \/ Statements!TouchLast(x)
             \/ Statements!ReadPost(x) \/ Statements!ReadRows(x)
      PROVE  AddsInv'
  <2>1. CASE Statements!TouchFirst(x)
    BY <1>t, <2>1, <1>k DEF Statements!TouchFirst, Statements!Transactions
  <2>2. CASE Statements!TouchLast(x)
    BY <1>t, <2>2, <1>k DEF Statements!TouchLast, Statements!Transactions
  <2>3. CASE Statements!ReadPost(x)
    BY <1>t, <2>3, <1>k DEF Statements!ReadPost, Statements!Transactions
  <2>4. CASE Statements!ReadRows(x)
    BY <1>t, <2>4, <1>k DEF Statements!ReadRows, Statements!Transactions
  <2> QED
    BY <1>9, <2>1, <2>2, <2>3, <2>4
<1>3. ASSUME NEW x \in Backends, Statements!Updated(x) PROVE AddsInv'
  <2>1. CASE Statements!Ends(x)
    BY <1>n, <2>1, AddsOne DEF Statements!Ends
  <2>2. CASE ~ Statements!Ends(x)
    BY <1>t, <1>3, <2>2, <1>k DEF Statements!Updated, Statements!Transactions
  <2> QED
    BY <2>1, <2>2
<1>4. ASSUME NEW x \in Backends, Statements!Commit(x) \/ Statements!Ends(x) PROVE AddsInv'
  BY <1>n, <1>4, AddsOne DEF Statements!Commit, Statements!Ends
<1>5. CASE UNCHANGED Statements!vars
  BY <1>5 DEF Statements!vars, AddsInv
<1> QED
  BY <1>1, <1>2, <1>3, <1>4, <1>5, <1>6, <1>7, <1>8, <1>9 DEF Statements!Next, Statements!Done, Statements!Abort

\* The rows, the post and the transactions keep their types.
THEOREM TransactionsTyped ==
  ASSUME Statements!TransactionsParameters PROVE Statements!Spec => []Statements!TypeOK
BY TransactionsInit, TransactionsStep, AddsInit, AddsStep, PTL DEF Statements!Spec

-----------------------------------------------------------------------------
(* The locks.  Of each transaction: how far it can be with what it holds, *)
(* and that one of a single row has selected it, holds it, or neither.    *)

OneRow == {"claim", "outcome", "reschedule", "retry"}
PostFirst == {"schedule", "update"}
Place(r) ==
  /\ r.pc = "idle" => r = Statements!NoTx
  /\ r.pc = "post" => r.kind \in PostFirst /\ r.mine = {}
  /\ r.pc = "touch" => r.kind = "unschedule"
  /\ r.pc # "post" /\ r.kind \in PostFirst => r.holds
  /\ r.holds => \/ r.kind \in PostFirst /\ r.pc # "post"
                \/ r.kind = "unschedule" /\ r.pc \in {"read", "derive", "write"}
Locks(r, ts) ==
  /\ r.mine \subseteq ts
  /\ r.kind \in OneRow => r.rows \cap r.mine = {} /\ \A t, u \in r.rows \cup r.mine : t = u
  /\ r.pc \in {"touch", "read", "derive", "write"} => r.mine # {} \/ r.kind = "schedule"
\* update() deletes every row there is: it holds the post, so no other brings new ones.
Replaces(r, ts) ==
  r.kind = "update" => /\ r.to = "draft"
                       /\ r.pc = "rows" => r.rows \cup r.mine = ts
                       /\ r.pc \in {"read", "derive", "write"} => r.mine = ts

OneHolder == \A x, y \in Backends : tx[x].holds /\ tx[y].holds => x = y
RowsApart == \A x, y \in Backends : x # y => tx[x].mine \cap tx[y].mine = {}
InPlace ==
  /\ (\A x \in Backends : Place(tx[x]) /\ Locks(tx[x], Statements!Rows) /\ Replaces(tx[x], Statements!Rows))
  /\ OneHolder /\ RowsApart

LEMMA RowsOpen ==
  ASSUME txStatus' = txStatus PROVE Statements!Rows' = Statements!Rows
BY DEF Statements!Rows

\* A transaction without a condition on the rows' status selects them all.
LEMMA AllSelected ==
  ASSUME Statements!TypeOK, NEW ts \in SUBSET Statements!Rows PROVE Statements!Selected("update", ts) = ts
BY DEF Statements!TypeOK, Statements!Selected, Statements!Accepts

\* A session takes a lock only when nobody else holds it.
LEMMA PlaceOne ==
  ASSUME Statements!TypeOK, InPlace, Statements!Rows' = Statements!Rows, NEW x \in Backends, NEW r, Statements!Set(x, r),
         Place(r), Locks(r, Statements!Rows), Replaces(r, Statements!Rows), r.holds => tx[x].holds \/ Statements!PostFree(x),
         \A t \in r.mine : t \in tx[x].mine \/ Statements!RowFree(x, t)
  PROVE  InPlace'
<1>1. tx'[x] = r /\ \A y \in Backends : y # x => tx'[y] = tx[y]
  BY SetOne
<1>2. \A y \in Backends : Place(tx'[y]) /\ Locks(tx'[y], Statements!Rows') /\ Replaces(tx'[y], Statements!Rows')
  BY <1>1 DEF InPlace
<1>3. OneHolder'
  BY <1>1 DEF InPlace, OneHolder, Statements!PostFree
<1>4. RowsApart'
  BY <1>1 DEF InPlace, RowsApart, Statements!RowFree, Statements!HoldsRow
<1> QED
  BY <1>2, <1>3, <1>4 DEF InPlace

LEMMA EndsInPlace ==
  ASSUME Statements!TypeOK, InPlace, Statements!Rows' = Statements!Rows, NEW x \in Backends, Statements!Ends(x) PROVE InPlace'
<1>1. Place(Statements!NoTx) /\ Locks(Statements!NoTx, Statements!Rows) /\ Replaces(Statements!NoTx, Statements!Rows) /\ ~ Statements!NoTx.holds /\ Statements!NoTx.mine = {}
  BY DEF Place, Locks, Replaces, Statements!NoTx, OneRow, PostFirst
<1> QED
  BY <1>1, PlaceOne DEF Statements!Ends

LEMMA InPlaceInit ==
  ASSUME Statements!Init PROVE InPlace
<1>1. Place(Statements!NoTx) /\ Locks(Statements!NoTx, Statements!Rows) /\ Replaces(Statements!NoTx, Statements!Rows) /\ ~ Statements!NoTx.holds /\ Statements!NoTx.mine = {}
  BY DEF Place, Locks, Replaces, Statements!NoTx, OneRow, PostFirst
<1>2. \A x \in Backends : tx[x] = Statements!NoTx
  BY DEF Statements!Init
<1> QED
  BY <1>1, <1>2 DEF InPlace, OneHolder, RowsApart

\* The commit of an update() leaves the new rows: it had locked all the old ones, so nobody
\* else has any.
LEMMA ReplacedInPlace ==
  ASSUME Statements!TypeOK, InPlace, NEW x \in Backends, Statements!Commit(x), tx[x].kind = "update" PROVE InPlace'
<1>1. tx'[x] = Statements!NoTx /\ \A y \in Backends : y # x => tx'[y] = tx[y]
  BY SetOne DEF Statements!Commit, Statements!Ends
<1>2. \A y \in Backends : Place(tx[y]) /\ Locks(tx[y], Statements!Rows) /\ Replaces(tx[y], Statements!Rows)
  BY DEF InPlace
<1>3. tx[x].mine = Statements!Rows /\ tx[x].holds
  BY <1>2 DEF Statements!Commit, Replaces, Place, PostFirst
<1>4. ASSUME NEW y \in Backends, y # x PROVE tx[y].mine = {} /\ ~ tx[y].holds
  BY <1>2, <1>3, <1>4 DEF InPlace, RowsApart, OneHolder, Locks
<1>5. ASSUME NEW y \in Backends PROVE Place(tx'[y]) /\ Locks(tx'[y], Statements!Rows') /\ Replaces(tx'[y], Statements!Rows')
  <2>1. CASE y = x
    BY <1>1, <2>1 DEF Place, Locks, Replaces, Statements!NoTx, OneRow, PostFirst
  <2>2. CASE y # x
    <3>1. tx[y].kind = "update" => tx[y].pc = "post"
      BY <1>2, <1>4, <2>2 DEF Place, PostFirst
    <3>2. Locks(tx[y], Statements!Rows')
      BY <1>2, <1>4, <2>2 DEF Locks
    <3>3. Replaces(tx[y], Statements!Rows')
      BY <1>2, <3>1 DEF Replaces
    <3> QED
      BY <1>1, <1>2, <2>2, <3>2, <3>3
  <2> QED
    BY <2>1, <2>2
<1>6. OneHolder' /\ RowsApart'
  BY <1>1, <1>4 DEF OneHolder, RowsApart, Statements!NoTx
<1> QED
  BY <1>5, <1>6 DEF InPlace

LEMMA InPlaceStep ==
  ASSUME Statements!TypeOK, InPlace, [Statements!Next]_Statements!vars PROVE InPlace'
<1>t. \A x \in Backends :
        /\ tx[x] \in Statements!Transactions
        /\ Place(tx[x]) /\ Locks(tx[x], Statements!Rows) /\ Replaces(tx[x], Statements!Rows)
  BY DEF Statements!TypeOK, InPlace
<1>1. ASSUME NEW x \in Backends, Statements!BeginOne(x) PROVE InPlace'
  <2>1. PICK t \in Statements!Rows, kind \in OneRow, to \in Statements!TargetStatus :
          Statements!Set(x, [Statements!NoTx EXCEPT !.pc = "rows", !.kind = kind, !.rows = {t}, !.to = to])
    BY <1>1 DEF Statements!BeginOne, OneRow
  <2> DEFINE r == [Statements!NoTx EXCEPT !.pc = "rows", !.kind = kind, !.rows = {t}, !.to = to]
  <2>2. /\ r.pc = "rows" /\ r.kind = kind /\ r.rows = {t} /\ r.mine = {} /\ ~ r.holds
        /\ kind \notin PostFirst
    BY DEF Statements!NoTx, OneRow, PostFirst
  <2>3. Place(r) /\ Locks(r, Statements!Rows) /\ Replaces(r, Statements!Rows)
    BY <2>2 DEF Place, Locks, Replaces, OneRow, PostFirst
  <2>4. txStatus' = txStatus
    BY <1>1 DEF Statements!BeginOne
  <2> QED
    BY <2>1, <2>2, <2>3, <2>4, PlaceOne, RowsOpen
<1>0. ASSUME NEW x \in Backends, NEW r, Statements!Set(x, r), r.pc = "post", r.kind \in PostFirst, r.mine = {}, ~ r.holds,
             r.to = "draft" \/ r.kind = "schedule", txStatus' = txStatus
      PROVE  InPlace'
  <2>1. Place(r) /\ Locks(r, Statements!Rows) /\ Replaces(r, Statements!Rows)
    BY <1>0 DEF Place, Locks, Replaces, OneRow, PostFirst
  <2> QED
    BY <1>0, <2>1, PlaceOne, RowsOpen
<1>2. ASSUME NEW x \in Backends, Statements!BeginSchedule(x) PROVE InPlace'
  <2> DEFINE r == [Statements!NoTx EXCEPT !.pc = "post", !.kind = "schedule", !.to = "scheduled"]
  <2>1. r.pc = "post" /\ r.kind = "schedule" /\ r.mine = {} /\ ~ r.holds
    BY DEF Statements!NoTx
  <2>2. txStatus' = txStatus /\ Statements!Set(x, r)
    BY <1>2 DEF Statements!BeginSchedule
  <2> QED
    BY <2>1, <2>2, <1>0 DEF PostFirst
<1>12. ASSUME NEW x \in Backends, Statements!BeginUpdate(x) PROVE InPlace'
  <2>1. PICK new \in (SUBSET Statements!Fresh) \ {{}} :
          Statements!Set(x, [Statements!NoTx EXCEPT !.pc = "post", !.kind = "update", !.to = "draft", !.adds = new])
    BY <1>12 DEF Statements!BeginUpdate
  <2>2. txStatus' = txStatus
    BY <1>12 DEF Statements!BeginUpdate
  <2> DEFINE r == [Statements!NoTx EXCEPT !.pc = "post", !.kind = "update", !.to = "draft", !.adds = new]
  <2>3. r.pc = "post" /\ r.kind \in PostFirst /\ r.mine = {} /\ ~ r.holds /\ r.to = "draft"
    BY DEF Statements!NoTx, PostFirst
  <2> QED
    BY <2>1, <2>2, <2>3, <1>0
<1>3. ASSUME NEW x \in Backends, Statements!BeginUnschedule(x) PROVE InPlace'
  <2> DEFINE r == [Statements!NoTx EXCEPT !.pc = "rows", !.kind = "unschedule", !.to = "draft",
                               !.rows = Statements!Selected("unschedule", Statements!Rows)]
  <2>1. r.pc = "rows" /\ r.kind = "unschedule" /\ r.mine = {} /\ ~ r.holds
    BY DEF Statements!NoTx
  <2>2. Place(r) /\ Locks(r, Statements!Rows) /\ Replaces(r, Statements!Rows)
    BY <2>1 DEF Place, Locks, Replaces, OneRow, PostFirst
  <2>3. txStatus' = txStatus /\ Statements!Set(x, r)
    BY <1>3 DEF Statements!BeginUnschedule
  <2> QED
    BY <2>1, <2>2, <2>3, PlaceOne, RowsOpen
<1>4. ASSUME NEW x \in Backends, Statements!TouchFirst(x) PROVE InPlace'
  <2> DEFINE r == [tx[x] EXCEPT !.pc = "rows", !.holds = TRUE, !.rows = Statements!Selected(tx[x].kind, Statements!Rows)]
  <2>1. /\ r.pc = "rows" /\ r.kind = tx[x].kind /\ r.rows = Statements!Selected(tx[x].kind, Statements!Rows)
        /\ r.mine = tx[x].mine /\ r.holds /\ tx[x].pc = "post" /\ r.to = tx[x].to
    BY <1>t, <1>4 DEF Statements!TouchFirst, Statements!Transactions
  <2>2. r.kind \in PostFirst /\ r.mine = {}
    BY <1>t, <2>1 DEF Place
  <2>3. r.kind = "update" => r.rows = Statements!Rows
    BY <2>1, AllSelected
  <2>4. Place(r) /\ Locks(r, Statements!Rows)
    BY <2>1, <2>2 DEF Place, Locks, OneRow, PostFirst
  <2>5. Replaces(r, Statements!Rows)
    BY <1>t, <2>1, <2>2, <2>3 DEF Replaces
  <2>6. Statements!Set(x, r) /\ txStatus' = txStatus /\ Statements!PostFree(x)
    BY <1>4 DEF Statements!TouchFirst
  <2> QED
    BY <2>1, <2>2, <2>4, <2>5, <2>6, PlaceOne, RowsOpen
<1>5. ASSUME NEW x \in Backends, Statements!UpdateRow(x) PROVE InPlace'
  <2>1. PICK t \in tx[x].rows :
          /\ Statements!RowFree(x, t)
          /\ Statements!Set(x, [tx[x] EXCEPT !.rows = @ \ {t}, !.mine = @ \cup Statements!Selected(tx[x].kind, {t})])
    BY <1>5 DEF Statements!UpdateRow
  <2> DEFINE r == [tx[x] EXCEPT !.rows = @ \ {t}, !.mine = @ \cup Statements!Selected(tx[x].kind, {t})]
  <2>2. /\ r.pc = "rows" /\ tx[x].pc = "rows" /\ r.kind = tx[x].kind /\ r.rows = tx[x].rows \ {t}
        /\ r.mine = tx[x].mine \cup Statements!Selected(tx[x].kind, {t}) /\ r.holds = tx[x].holds /\ r.to = tx[x].to
        /\ txStatus' = txStatus
    BY <1>t, <1>5 DEF Statements!UpdateRow, Statements!Transactions
  <2>3. Statements!Selected(tx[x].kind, {t}) \subseteq {t} \cap Statements!Rows
    BY DEF Statements!Selected
  <2>4. tx[x].kind = "update" => Statements!Selected(tx[x].kind, {t}) = {t}
    <3>1. tx[x].kind = "update" => t \in Statements!Rows
      BY <1>t, <2>2 DEF Replaces
    <3> QED
      BY <3>1, AllSelected
  <2>5. Place(r)
    BY <1>t, <2>2 DEF Place
  <2>6. Locks(r, Statements!Rows)
    BY <1>t, <2>2, <2>3 DEF Locks
  <2>7. Replaces(r, Statements!Rows)
    BY <1>t, <2>1, <2>2, <2>4 DEF Replaces
  <2> QED
    BY <2>1, <2>2, <2>3, <2>5, <2>6, <2>7, PlaceOne, RowsOpen
<1>6. ASSUME NEW x \in Backends, Statements!Updated(x) PROVE InPlace'
  <2>0. txStatus' = txStatus
    BY <1>6 DEF Statements!Updated
  <2>1. CASE Statements!Ends(x)
    BY <2>0, <2>1, EndsInPlace, RowsOpen
  <2>2. CASE ~ (tx[x].mine = {} /\ tx[x].kind # "schedule")
    <3> DEFINE r == [tx[x] EXCEPT !.pc = IF tx[x].kind = "unschedule" THEN "touch" ELSE "read"]
    <3>1. /\ r.pc = IF tx[x].kind = "unschedule" THEN "touch" ELSE "read"
          /\ r.kind = tx[x].kind /\ r.rows = {} /\ tx[x].rows = {} /\ r.mine = tx[x].mine
          /\ r.holds = tx[x].holds /\ r.to = tx[x].to /\ tx[x].pc = "rows" /\ Statements!Set(x, r)
      BY <1>t, <1>6, <2>2 DEF Statements!Updated, Statements!Transactions
    <3>2. Place(r) /\ Locks(r, Statements!Rows)
      BY <1>t, <2>2, <3>1 DEF Place, Locks, PostFirst
    <3>3. Replaces(r, Statements!Rows)
      BY <1>t, <3>1 DEF Replaces
    <3> QED
      BY <2>0, <3>1, <3>2, <3>3, PlaceOne, RowsOpen
  <2> QED
    BY <1>6, <2>1, <2>2 DEF Statements!Updated
<1>7. ASSUME NEW x \in Backends, Statements!TouchLast(x) PROVE InPlace'
  <2> DEFINE r == [tx[x] EXCEPT !.pc = "read", !.holds = TRUE]
  <2>1. /\ r.pc = "read" /\ r.kind = tx[x].kind /\ r.rows = tx[x].rows /\ r.mine = tx[x].mine
        /\ r.holds /\ tx[x].pc = "touch"
    BY <1>t, <1>7 DEF Statements!TouchLast, Statements!Transactions
  <2>2. tx[x].kind = "unschedule"
    BY <1>t, <2>1 DEF Place
  <2>3. Place(r) /\ Locks(r, Statements!Rows) /\ Replaces(r, Statements!Rows)
    BY <1>t, <2>1, <2>2 DEF Place, Locks, Replaces, OneRow, PostFirst
  <2>4. Statements!Set(x, r) /\ txStatus' = txStatus /\ Statements!PostFree(x)
    BY <1>7 DEF Statements!TouchLast
  <2> QED
    BY <2>1, <2>3, <2>4, PlaceOne, RowsOpen
<1>8. ASSUME NEW x \in Backends, Statements!ReadPost(x) \/ Statements!ReadRows(x) PROVE InPlace'
  <2>1. PICK r : /\ Statements!Set(x, r) /\ r.kind = tx[x].kind /\ r.rows = tx[x].rows /\ r.mine = tx[x].mine
                 /\ r.holds = tx[x].holds /\ r.to = tx[x].to
                 /\ r.pc \in {"derive", "write"} /\ tx[x].pc \in {"read", "derive"}
    BY <1>t, <1>8 DEF Statements!ReadPost, Statements!ReadRows, Statements!Transactions
  <2>2. Place(r) /\ Locks(r, Statements!Rows) /\ Replaces(r, Statements!Rows)
    BY <1>t, <2>1 DEF Place, Locks, Replaces
  <2>3. txStatus' = txStatus
    BY <1>8 DEF Statements!ReadPost, Statements!ReadRows
  <2> QED
    BY <2>1, <2>2, <2>3, PlaceOne, RowsOpen
<1>9. ASSUME NEW x \in Backends, Statements!Commit(x) PROVE InPlace'
  <2>1. CASE tx[x].kind = "update"
    BY <1>9, <2>1, ReplacedInPlace
  <2>2. CASE tx[x].kind # "update"
    <3>1. Statements!Rows' = Statements!Rows
      BY <1>9, <2>2, CommittedRows DEF Statements!Seen
    <3> QED
      BY <1>9, <3>1, EndsInPlace DEF Statements!Commit
  <2> QED
    BY <2>1, <2>2
<1>10. CASE Statements!Abort
  <2>1. PICK x \in Backends : Statements!Ends(x) /\ txStatus' = txStatus
    BY <1>10 DEF Statements!Abort
  <2> QED
    BY <2>1, EndsInPlace, RowsOpen
<1>11. CASE UNCHANGED Statements!vars
  <2>1. tx' = tx /\ Statements!Rows' = Statements!Rows
    BY <1>11 DEF Statements!vars, Statements!Rows
  <2> QED
    BY <2>1 DEF InPlace, OneHolder, RowsApart
<1> QED
  BY <1>1, <1>2, <1>3, <1>4, <1>5, <1>6, <1>7, <1>8, <1>9, <1>10, <1>11, <1>12 DEF Statements!Next, Statements!Done

-----------------------------------------------------------------------------
(* Deadlocks.                                                              *)

\* A session that waits for a row it has not got, in S or in what is left without z, which
\* holds none.
LEMMA StillBlocked ==
  ASSUME NEW S, NEW x \in S, NEW z, x # z, tx[z].mine = {}, Statements!BlockedBy(x, S), tx[x].pc = "rows"
  PROVE  Statements!BlockedBy(x, S \ {z})
BY DEF Statements!BlockedBy, Statements!HoldsRow

\* Without one that locks the post first nobody of a cycle waits for the post: its only holder could be an
\* unschedule that has all its rows, and that one waits for nobody.
LEMMA NobodyWaitsForPost ==
  ASSUME Statements!TypeOK, InPlace, NEW S \in SUBSET Backends, Statements!AllBlocked(S),
         \A x \in S : tx[x].kind \notin PostFirst
  PROVE  \A x \in S : tx[x].pc = "rows" /\ tx[x].rows # {}
<1>1. \A y \in S : Place(tx[y]) /\ Statements!BlockedBy(y, S)
  BY DEF InPlace, Statements!AllBlocked
<1>2. ASSUME NEW y \in S, tx[y].holds PROVE FALSE
  <2>1. tx[y].pc \in {"read", "derive", "write"}
    BY <1>1, <1>2 DEF Place
  <2>2. PICK z \in S \ {y} : tx[z].holds
    BY <1>1, <2>1 DEF Statements!BlockedBy
  <2> QED
    BY <1>2, <2>2 DEF InPlace, OneHolder
<1> QED
  BY <1>1, <1>2 DEF Statements!BlockedBy

LEMMA DeadlockNeedsPostFirst ==
  ASSUME Statements!TypeOK, InPlace PROVE Statements!WorkersDeadlockOnlyWithPostFirst
<1> SUFFICES ASSUME NEW S \in SUBSET Backends, Statements!Deadlock(S), NEW x \in S,
                    tx[x].kind \in {"claim", "outcome", "reschedule"},
                    \A y \in S : tx[y].kind \notin PostFirst
             PROVE  FALSE
  BY DEF Statements!WorkersDeadlockOnlyWithPostFirst, PostFirst
<1>1. Statements!AllBlocked(S)
  BY DEF Statements!Deadlock
<1>2. \A y \in S : tx[y].pc = "rows" /\ tx[y].rows # {} /\ Statements!BlockedBy(y, S)
  BY <1>1, NobodyWaitsForPost DEF Statements!AllBlocked
\* A worker's transaction still waits for its only row, so nobody waits for it.
<1>3. tx[x].mine = {}
  <2>1. Locks(tx[x], Statements!Rows) /\ tx[x].kind \in OneRow
    BY DEF InPlace, OneRow
  <2> QED
    BY <1>2, <2>1 DEF Locks
<1>4. \A y \in S \ {x} : Statements!BlockedBy(y, S \ {x})
  BY <1>2, <1>3, StillBlocked
<1>5. S \ {x} # {}
  BY <1>2 DEF Statements!BlockedBy
<1>6. Statements!AllBlocked(S \ {x})
  BY <1>4, <1>5 DEF Statements!AllBlocked
<1>7. S \ {x} = S
  BY <1>6 DEF Statements!Deadlock
<1> QED
  BY <1>7

\* No claim and no outcome of an attempt is lost to Postgres' deadlock detector but where a
\* schedule or an update of the post is in the cycle, with any number of targets and of transactions
\* at once (target-state.ts and rollUpPostStatus lock a target before the post).
THEOREM DeadlocksNeedPostFirst ==
  ASSUME Statements!TransactionsParameters PROVE Statements!Spec => []Statements!WorkersDeadlockOnlyWithPostFirst
BY TransactionsInit, TransactionsStep, AddsInit, AddsStep, InPlaceInit, InPlaceStep, DeadlockNeedsPostFirst, PTL DEF Statements!Spec

-----------------------------------------------------------------------------
(* A post with one target.  A transaction that has read the post keeps     *)
(* everyone from changing it: it holds the target, which every other but a *)
(* schedule without the row needs, and that one would change nothing.  An  *)
(* update(), which may come from a post with several, holds the post.      *)

UpToDate(r, p) ==
  /\ r.pc \in {"derive", "write"} => r.seen = p
  /\ r.pc = "write" => r.next = IF r.mine = {} THEN r.seen ELSE Statements!DerivePostStatus({r.to}, r.seen)
PostStatusAgrees == txPost = Statements!DerivePostStatus({txStatus[t] : t \in Statements!Rows}, txPost)
AloneInv ==
  /\ \A x \in Backends : tx[x].kind = "update" => UpToDate(tx[x], txPost)
  /\ Cardinality(Statements!Rows) = 1 => PostStatusAgrees /\ \A x \in Backends : UpToDate(tx[x], txPost)

LEMMA OneRowOnly ==
  ASSUME Statements!TransactionsParameters, Statements!TypeOK, Cardinality(Statements!Rows) = 1
  PROVE  \E t : Statements!Rows = {t}
<1>1. IsFiniteSet(Statements!Rows)
  BY FS_Subset, RollupsCounting DEF Statements!TypeOK, Statements!TransactionsParameters
<1> QED
  BY <1>1, FS_Singleton

LEMMA AloneInit ==
  ASSUME Statements!TransactionsParameters, Statements!Init PROVE AloneInv
<1>1. Statements!TypeOK /\ \A x \in Backends : UpToDate(tx[x], txPost)
  BY TransactionsInit DEF Statements!Init, Statements!NoTx, UpToDate
<1> SUFFICES ASSUME NEW t, Statements!Rows = {t} PROVE PostStatusAgrees
  BY <1>1, OneRowOnly DEF AloneInv
<1>2. txStatus[t] = "scheduled"
  BY DEF Statements!Init, Statements!Rows
<1> QED
  BY <1>2 DEF Statements!Init, PostStatusAgrees, Statements!DerivePostStatus

\* A step that commits nothing.
LEMMA AloneOpen ==
  ASSUME Statements!TypeOK, AloneInv, UNCHANGED <<txPost, txStatus>>, NEW x \in Backends, NEW r, Statements!Set(x, r),
         Cardinality(Statements!Rows) = 1 \/ r.kind = "update" => UpToDate(r, txPost)
  PROVE  AloneInv'
<1>1. tx'[x] = r /\ \A y \in Backends : y # x => tx'[y] = tx[y]
  BY SetOne
<1>2. Statements!Rows' = Statements!Rows
  BY DEF Statements!Rows
<1> QED
  BY <1>1, <1>2 DEF AloneInv, PostStatusAgrees

\* The commit of an update(): the drafts it inserted give the post its status.
LEMMA AloneReplaced ==
  ASSUME Statements!TypeOK, AddsInv, InPlace, AloneInv, NEW x \in Backends, Statements!Commit(x), tx[x].kind = "update"
  PROVE  AloneInv'
<1>1. tx'[x] = Statements!NoTx /\ \A y \in Backends : y # x => tx'[y] = tx[y]
  BY SetOne DEF Statements!Commit, Statements!Ends
<1>2. \A y \in Backends : Place(tx[y]) /\ Locks(tx[y], Statements!Rows) /\ Replaces(tx[y], Statements!Rows)
  BY DEF InPlace
<1>3. /\ tx[x].mine = Statements!Rows /\ tx[x].mine # {} /\ tx[x].holds /\ tx[x].to = "draft" /\ tx[x].adds # {}
      /\ tx[x].pc = "write"
  BY <1>2 DEF Statements!Commit, Replaces, Place, PostFirst, Locks, AddsInv, Adds
<1>4. ASSUME NEW y \in Backends PROVE tx'[y].pc \notin {"derive", "write"}
  <2>1. CASE y = x
    BY <1>1, <2>1 DEF Statements!NoTx
  <2>2. CASE y # x
    <3>1. tx[y].mine = {} /\ ~ tx[y].holds
      BY <1>2, <1>3, <2>2 DEF InPlace, RowsApart, OneHolder, Locks
    <3> QED
      BY <1>1, <1>2, <2>2, <3>1 DEF Locks, Place, PostFirst
  <2> QED
    BY <2>1, <2>2
<1>5. Statements!Rows' = tx[x].adds
  BY <1>3, CommittedRows DEF Statements!Seen
<1>6. \A t \in Statements!Rows' : txStatus'[t] = "draft"
  BY <1>3, <1>5 DEF Statements!Commit, Statements!View, Statements!Seen
<1>7. txPost' = Statements!DerivePostStatus({"draft"}, txPost)
  BY <1>3 DEF AloneInv, UpToDate, Statements!Commit
<1>8. {txStatus'[t] : t \in Statements!Rows'} = {"draft"}
  BY <1>3, <1>5, <1>6
<1>9. PostStatusAgrees'
  BY <1>7, <1>8, DeriveTwice DEF PostStatusAgrees
<1> QED
  BY <1>4, <1>9 DEF AloneInv, UpToDate

\* The commit of a transaction that has changed the target, or of one that has not.
LEMMA AloneCommit ==
  ASSUME Statements!TransactionsParameters, Statements!TypeOK, AddsInv, InPlace, AloneInv, NEW x \in Backends, Statements!Commit(x),
         tx[x].kind # "update"
  PROVE  AloneInv'
<1>0. Statements!Rows' = Statements!Rows
  BY CommittedRows DEF Statements!Seen
<1>u. ASSUME NEW y \in Backends, tx'[y].kind = "update" PROVE UpToDate(tx'[y], txPost')
  <2>1. tx'[x] = Statements!NoTx /\ \A z \in Backends : z # x => tx'[z] = tx[z]
    BY SetOne DEF Statements!Commit, Statements!Ends
  <2>2. CASE y = x
    BY <2>1, <2>2 DEF UpToDate, Statements!NoTx
  <2>3. CASE y # x /\ tx[y].pc \in {"derive", "write"}
    <3>1. tx[y].kind = "update" /\ tx[y].holds
      BY <1>u, <2>1, <2>3 DEF InPlace, Place, PostFirst
    <3>2. txPost' = txPost
      BY <2>3, <3>1 DEF Statements!Commit, Statements!PostFree
    <3> QED
      BY <2>1, <2>3, <3>1, <3>2 DEF AloneInv
  <2>4. CASE y # x /\ tx[y].pc \notin {"derive", "write"}
    BY <2>1, <2>4 DEF UpToDate
  <2> QED
    BY <2>2, <2>3, <2>4
<1> SUFFICES ASSUME NEW t, Statements!Rows = {t}, Cardinality(Statements!Rows) = 1
             PROVE  PostStatusAgrees' /\ \A y \in Backends : UpToDate(tx'[y], txPost')
  BY <1>0, <1>u, OneRowOnly DEF AloneInv
<1> DEFINE r == tx[x]
<1>1. /\ r \in Statements!Transactions /\ r.pc = "write" /\ UpToDate(r, txPost) /\ Locks(r, Statements!Rows) /\ Place(r)
      /\ r.next # r.seen => Statements!PostFree(x)
      /\ txPost' = IF r.next # r.seen THEN r.next ELSE txPost
  BY DEF Statements!Commit, Statements!TypeOK, AloneInv, InPlace
<1>2. txPost' = r.next
  BY <1>1 DEF UpToDate
<1>3. \A y \in Backends : UpToDate(tx[y], txPost) /\ Locks(tx[y], Statements!Rows) /\ Place(tx[y])
  BY DEF AloneInv, InPlace
<1>4. tx'[x] = Statements!NoTx /\ \A y \in Backends : y # x => tx'[y] = tx[y]
  BY SetOne DEF Statements!Commit, Statements!Ends
<1>5. UpToDate(Statements!NoTx, txPost')
  BY DEF UpToDate, Statements!NoTx
<1>a. r.adds = {} /\ t \in Statements!Rows
  BY DEF AddsInv, Adds
<1>6. CASE r.mine = {}
  <2>1. txPost' = txPost
    BY <1>1, <1>6 DEF UpToDate
  <2>2. txStatus'[t] = txStatus[t] /\ t \in Statements!Rows
    BY <1>6, <1>a DEF Statements!Commit, Statements!View, Statements!Seen
  <2>3. PostStatusAgrees'
    BY <1>0, <2>1, <2>2 DEF AloneInv, PostStatusAgrees
  <2> QED
    BY <1>3, <1>4, <1>5, <2>1, <2>3
<1>7. CASE r.mine = {t}
  <2>1. txStatus'[t] = r.to
    BY <1>7, <1>a DEF Statements!Commit, Statements!View, Statements!Seen
  <2>2. txPost' = Statements!DerivePostStatus({r.to}, txPost)
    BY <1>1, <1>2, <1>7 DEF UpToDate
  <2>3. PostStatusAgrees'
    BY <1>0, <2>1, <2>2, DeriveTwice DEF PostStatusAgrees
  <2>4. ASSUME NEW y \in Backends, y # x, tx[y].pc \in {"derive", "write"}
        PROVE  txPost' = txPost
    <3>1. tx[y].mine = {}
      BY <1>3, <1>7, <2>4 DEF InPlace, RowsApart, Locks
    <3>2. tx[y].holds
      BY <1>3, <2>4, <3>1 DEF Locks, Place, PostFirst
    <3> QED
      BY <1>1, <2>4, <3>2 DEF Statements!PostFree
  <2> QED
    BY <1>3, <1>4, <1>5, <2>3, <2>4 DEF UpToDate
<1> QED
  BY <1>1, <1>6, <1>7 DEF Locks

LEMMA AloneStep ==
  ASSUME Statements!TransactionsParameters, Statements!TypeOK, AddsInv, InPlace, AloneInv, [Statements!Next]_Statements!vars PROVE AloneInv'
<1>t. \A x \in Backends : tx[x] \in Statements!Transactions
  BY DEF Statements!TypeOK
<1>n. UpToDate(Statements!NoTx, txPost)
  BY DEF UpToDate, Statements!NoTx
<1>1. ASSUME NEW x \in Backends,
             \/ Statements!BeginOne(x) \/ Statements!BeginSchedule(x)
             \/ Statements!BeginUpdate(x) \/ Statements!BeginUnschedule(x)
             \/ Statements!TouchFirst(x) \/ Statements!UpdateRow(x) \/ Statements!Updated(x) \/ Statements!TouchLast(x)
      PROVE  AloneInv'
  <2>1. PICK r : Statements!Set(x, r) /\ r.pc \notin {"derive", "write"} /\ UNCHANGED <<txPost, txStatus>>
    <3>1. CASE Statements!BeginOne(x)
      BY <3>1 DEF Statements!BeginOne, Statements!NoTx
    <3>2. CASE Statements!BeginSchedule(x) \/ Statements!BeginUnschedule(x)
      BY <3>2 DEF Statements!BeginSchedule, Statements!BeginUnschedule, Statements!NoTx
    <3>3. CASE Statements!TouchFirst(x) \/ Statements!TouchLast(x)
      BY <1>t, <3>3 DEF Statements!TouchFirst, Statements!TouchLast, Statements!Transactions
    <3>4. CASE Statements!UpdateRow(x)
      BY <1>t, <3>4 DEF Statements!UpdateRow, Statements!Transactions
    <3>5. CASE Statements!Updated(x)
      BY <1>t, <3>5 DEF Statements!Updated, Statements!Ends, Statements!NoTx, Statements!Transactions
    <3>6. CASE Statements!BeginUpdate(x)
      BY <3>6 DEF Statements!BeginUpdate, Statements!NoTx
    <3> QED
      BY <1>1, <3>1, <3>2, <3>3, <3>4, <3>5, <3>6
  <2> QED
    BY <2>1, AloneOpen DEF UpToDate
<1>2. ASSUME NEW x \in Backends, Statements!ReadPost(x) PROVE AloneInv'
  <2> DEFINE r == [tx[x] EXCEPT !.pc = "derive", !.seen = txPost]
  <2>1. r.pc = "derive" /\ r.seen = txPost
    BY <1>t DEF Statements!Transactions
  <2> QED
    BY <1>2, <2>1, AloneOpen DEF Statements!ReadPost, UpToDate
<1>3. ASSUME NEW x \in Backends, Statements!ReadRows(x) PROVE AloneInv'
  <2> DEFINE seen == {Statements!View(x)[t] : t \in Statements!Seen(x)}
             r == [tx[x] EXCEPT !.pc = "write", !.next = Statements!DerivePostStatus(seen, tx[x].seen)]
  <2>1. /\ r.pc = "write" /\ r.next = Statements!DerivePostStatus(seen, tx[x].seen) /\ r.seen = tx[x].seen
        /\ r.mine = tx[x].mine /\ r.to = tx[x].to /\ r.kind = tx[x].kind /\ tx[x].pc = "derive"
    BY <1>t, <1>3 DEF Statements!ReadRows, Statements!Transactions
  <2>p. Place(tx[x]) /\ Locks(tx[x], Statements!Rows) /\ Replaces(tx[x], Statements!Rows) /\ Adds(tx[x])
    BY DEF InPlace, AddsInv
  <2>u. ASSUME r.kind = "update" PROVE UpToDate(r, txPost)
    <3>1. /\ tx[x].mine = Statements!Rows /\ tx[x].mine # {} /\ tx[x].to = "draft" /\ tx[x].adds # {}
          /\ tx[x].seen = txPost
      BY <2>1, <2>p, <2>u DEF Locks, Replaces, Adds, AloneInv, UpToDate
    <3>2. Statements!Seen(x) = tx[x].adds
      BY <2>1, <2>u, <3>1 DEF Statements!Seen
    <3>3. seen = {"draft"}
      BY <3>1, <3>2 DEF Statements!View
    <3> QED
      BY <2>1, <3>1, <3>3 DEF UpToDate
  <2>2. ASSUME Cardinality(Statements!Rows) = 1, r.kind # "update" PROVE UpToDate(r, txPost)
    <3>1. PICK t : Statements!Rows = {t}
      BY <2>2, OneRowOnly
    <3>2. tx[x].seen = txPost /\ txPost = Statements!DerivePostStatus({txStatus[t]}, txPost)
      <4>1. {txStatus[u] : u \in Statements!Rows} = {txStatus[t]}
        BY <3>1
      <4> QED
        BY <2>1, <2>2, <4>1 DEF AloneInv, UpToDate, PostStatusAgrees
    <3>3. Statements!Seen(x) = {t} /\ tx[x].adds = {}
      BY <2>1, <2>2, <2>p, <3>1 DEF Statements!Seen, Adds
    <3>4. seen = {IF t \in tx[x].mine THEN tx[x].to ELSE txStatus[t]}
      BY <3>3 DEF Statements!View
    <3>5. tx[x].mine \subseteq {t}
      BY <2>p, <3>1 DEF Locks
    <3> QED
      BY <2>1, <3>2, <3>4, <3>5 DEF UpToDate
  <2> QED
    BY <1>3, <2>u, <2>2, AloneOpen DEF Statements!ReadRows
<1>4. ASSUME NEW x \in Backends, Statements!Commit(x) PROVE AloneInv'
  BY <1>4, AloneCommit, AloneReplaced
<1>5. CASE Statements!Abort
  <2>1. PICK x \in Backends : Statements!Ends(x) /\ UNCHANGED <<txPost, txStatus>>
    BY <1>5 DEF Statements!Abort
  <2> QED
    BY <1>n, <2>1, AloneOpen DEF Statements!Ends
<1>6. CASE UNCHANGED Statements!vars
  BY <1>6 DEF Statements!vars, AloneInv, PostStatusAgrees, Statements!Rows
<1> QED
  BY <1>1, <1>2, <1>3, <1>4, <1>5, <1>6 DEF Statements!Next, Statements!Done

\* "The post row never disagrees with its targets" (queries/posts.ts:11) is true of a post
\* with one target, whatever workers and requests commit beside each other and whatever
\* Postgres aborts: the target's lock makes their roll-ups take turns.
THEOREM OneTargetInAgreement ==
  ASSUME Statements!TransactionsParameters PROVE Statements!Spec => []Statements!OneTargetAgrees
<1>1. AloneInv => Statements!OneTargetAgrees
  BY RollupsCounting DEF AloneInv, PostStatusAgrees, Statements!OneTargetAgrees, Statements!Agrees
<1> QED
  BY <1>1, TransactionsInit, TransactionsStep, AddsInit, AddsStep, InPlaceInit, InPlaceStep, AloneInit, AloneStep, PTL
  DEF Statements!Spec

-----------------------------------------------------------------------------
(* The platform calls of a post or a reply (ProviderCalls).  What the adapters' lists of calls *)
(* hold is shown without induction, by the smallest counterexample.                            *)

\* Among subsets of a finite set there is one that has none of the others in it.
LEMMA SmallestSet ==
  ASSUME NEW S, IsFiniteSet(S), NEW T, T \subseteq SUBSET S, T # {}
  PROVE  \E m \in T : \A t \in SUBSET m : t # m => t \notin T
<1>1. T \subseteq FiniteSubsetsOf(S)
  BY FS_Subset DEF FiniteSubsetsOf
<1>2. IsWellFoundedOn(StrictSubsetOrdering(S), FiniteSubsetsOf(S))
  BY FS_StrictSubsetOrderingWellFounded
<1>3. PICK m \in T : \A t \in T : <<t, m>> \notin StrictSubsetOrdering(S)
  BY <1>1, <1>2, WFMin
<1>4. ASSUME NEW t \in SUBSET m, t # m, t \in T
      PROVE  FALSE
  BY <1>3, <1>4 DEF StrictSubsetOrdering
<1> QED
  BY <1>3, <1>4

\* The list of the lists' elements, in order, and what it is after each list.
Flattens(seqs, n, f) == f = [i \in 1..n |-> IF i = 1 THEN seqs[i] ELSE f[i - 1] \o seqs[i]]

LEMMA FlattensOne ==
  ASSUME NEW seqs, NEW n \in Nat, NEW f, Flattens(seqs, n, f), NEW i \in 1..n
  PROVE  /\ i = 1 => f[i] = seqs[i]
         /\ i # 1 => f[i] = f[i - 1] \o seqs[i]
<1>1. f[i] = IF i = 1 THEN seqs[i] ELSE f[i - 1] \o seqs[i]
  BY Zenon DEF Flattens
<1> QED
  BY <1>1

LEMMA FlattensExists ==
  ASSUME NEW seqs, NEW n \in Nat
  PROVE  \E f : Flattens(seqs, n, f)
<1> DEFINE Upto(k) == 0..k
           Missing == {Upto(k) : k \in {j \in Upto(n) : \A f : ~ Flattens(seqs, j, f)}}
<1>1. \A k \in Upto(n) : Upto(k) \subseteq Upto(n)
  OBVIOUS
<1> SUFFICES ASSUME \A f : ~ Flattens(seqs, n, f) PROVE FALSE
  OBVIOUS
<1>2. Missing # {}
  OBVIOUS
<1>3. PICK m \in Missing : \A t \in SUBSET m : t # m => t \notin Missing
  <2>1. Missing \subseteq SUBSET Upto(n)
    BY <1>1
  <2>2. IsFiniteSet(Upto(n))
    BY FS_Interval
  <2> HIDE DEF Missing, Upto
  <2> QED
    BY <1>2, <2>1, <2>2, SmallestSet
<1>4. PICK k \in Upto(n) : m = Upto(k) /\ \A f : ~ Flattens(seqs, k, f)
  BY <1>3
<1>5. k # 0
  <2> SUFFICES ASSUME k = 0 PROVE FALSE
    OBVIOUS
  <2> DEFINE none == [i \in 1..0 |-> <<>>]
  <2>1. none = [i \in 1..0 |-> IF i = 1 THEN seqs[i] ELSE none[i - 1] \o seqs[i]]
    OBVIOUS
  <2> HIDE DEF none
  <2>2. Flattens(seqs, 0, none)
    BY <2>1, Zenon DEF Flattens
  <2> QED
    BY <1>4, <2>2
<1>6. k - 1 \in Upto(n) /\ Upto(k - 1) \in SUBSET m /\ Upto(k - 1) # m
  <2>1. k \in Upto(k) /\ k \notin Upto(k - 1)
    BY <1>4, <1>5
  <2> QED
    BY <1>4, <1>5, <2>1
<1>7. PICK f : Flattens(seqs, k - 1, f)
  <2>1. Upto(k - 1) \notin Missing
    BY <1>3, <1>6
  <2> QED
    BY <1>6, <2>1
<1> DEFINE g == [i \in 1..k |-> IF i = k THEN (IF k = 1 THEN seqs[k] ELSE f[k - 1] \o seqs[k]) ELSE f[i]]
<1>8. ASSUME NEW i \in 1..k
      PROVE  g[i] = IF i = 1 THEN seqs[i] ELSE g[i - 1] \o seqs[i]
  <2>1. CASE i = k
    <3>1. g[k] = (IF k = 1 THEN seqs[k] ELSE f[k - 1] \o seqs[k]) /\ (k # 1 => g[k - 1] = f[k - 1])
      BY <1>4, <1>5
    <3> HIDE DEF g
    <3> QED
      BY <2>1, <3>1
  <2>2. CASE i # k
    <3>1. i \in 1..(k - 1) /\ g[i] = f[i] /\ (i # 1 => g[i - 1] = f[i - 1])
      BY <1>4, <1>5, <2>2
    <3> HIDE DEF g
    <3>2. (i = 1 => f[i] = seqs[i]) /\ (i # 1 => f[i] = f[i - 1] \o seqs[i])
      <4>1. k - 1 \in Nat
        BY <1>4, <1>5
      <4> QED
        BY <1>7, <3>1, <4>1, FlattensOne, Zenon
    <3> QED
      BY <3>1, <3>2
  <2> QED
    BY <2>1, <2>2
<1>9. g = [i \in 1..k |-> g[i]]
  OBVIOUS
<1> HIDE DEF g
<1>10. g = [i \in 1..k |-> IF i = 1 THEN seqs[i] ELSE g[i - 1] \o seqs[i]]
  BY <1>8, <1>9
<1> QED
  BY <1>4, <1>10, Zenon DEF Flattens

\* What lists of members of S are joined to.
LEMMA FlattenIn ==
  ASSUME NEW S, NEW n \in Nat, NEW seqs \in [1..n -> Seq(S)]
  PROVE  Adapters!FlattenSeq(seqs) \in Seq(S)
<1>1. Len(seqs) = n
  OBVIOUS
<1>2. CASE n = 0
  <2>1. Adapters!FlattenSeq(seqs) = seqs
    BY <1>1, <1>2 DEF Adapters!FlattenSeq
  <2>2. seqs \in Seq(S)
    BY <1>2
  <2> QED
    BY <2>1, <2>2
<1>3. CASE n # 0
  <2>1. PICK h : Flattens(seqs, n, h)
    BY FlattensExists
  <2>2. Flattens(seqs, n, CHOOSE f : Flattens(seqs, n, f))
    BY <2>1, Zenon
  <2>3. Adapters!FlattenSeq(seqs) = (CHOOSE f : Flattens(seqs, n, f))[n]
    BY <1>1, <1>3 DEF Adapters!FlattenSeq, Flattens
  <2>4. PICK f : Flattens(seqs, n, f) /\ Adapters!FlattenSeq(seqs) = f[n]
    BY <2>2, <2>3
  <2>0. ASSUME NEW i \in 1..n
        PROVE  (i = 1 => f[i] = seqs[i]) /\ (i # 1 => f[i] = f[i - 1] \o seqs[i])
    BY <2>4, FlattensOne, Zenon
  <2> DEFINE Upto(k) == 1..k
             Odd == {Upto(k) : k \in {j \in Upto(n) : f[j] \notin Seq(S)}}
  <2> SUFFICES ASSUME f[n] \notin Seq(S) PROVE FALSE
    BY <2>4
  <2>5. PICK m \in Odd : \A t \in SUBSET m : t # m => t \notin Odd
    <3>1. Odd # {}
      BY <1>3
    <3>2. Odd \subseteq SUBSET Upto(n)
      <4>1. \A k \in Upto(n) : Upto(k) \subseteq Upto(n)
        OBVIOUS
      <4> QED
        BY <4>1
    <3>3. IsFiniteSet(Upto(n))
      BY FS_Interval
    <3> HIDE DEF Odd, Upto
    <3> QED
      BY <3>1, <3>2, <3>3, SmallestSet
  <2>6. PICK k \in Upto(n) : m = Upto(k) /\ f[k] \notin Seq(S)
    BY <2>5
  <2>7. seqs[k] \in Seq(S)
    BY <2>6
  <2>8. k # 1
    BY <2>6, <2>7, <2>0
  <2>9. k - 1 \in Upto(n) /\ Upto(k - 1) \in SUBSET m /\ Upto(k - 1) # m
    <3>1. k \in Upto(k) /\ k \notin Upto(k - 1)
      BY <2>6, <2>8
    <3> QED
      BY <2>6, <2>8, <3>1
  <2>10. f[k - 1] \in Seq(S)
    <3>1. Upto(k - 1) \notin Odd
      BY <2>5, <2>9
    <3> QED
      BY <2>9, <3>1
  <2>11. f[k] = f[k - 1] \o seqs[k]
    BY <2>6, <2>8, <2>0
  <2> QED
    BY <2>6, <2>7, <2>10, <2>11
<1> QED
  BY <1>2, <1>3

\* The calls that followers do not see, and those that they do.
Unseen ==
  {Adapters!Read, Adapters!Upload, Adapters!UploadOr("transient"), Adapters!UploadAnyId, Adapters!Look("children"), Adapters!Look("container"),
   Adapters!Wait, Adapters!Link}
Shows == {Adapters!Show, Adapters!ShowAnyId}

\* Nothing comes after a call that followers see but the look at its address.
Tidy(s) ==
  /\ s \in Seq(Unseen \cup Shows)
  /\ \A i, j \in DOMAIN s : i < j /\ s[i] \in Shows => s[j] = Adapters!Link
HasShow(s) == \E i \in DOMAIN s : s[i] \in Shows
AllLinks(s) == \A i \in DOMAIN s : s[i] = Adapters!Link

LEMMA UnseenOrShown == Unseen \cap Shows = {}
BY DEF Unseen, Shows, Adapters!Read, Adapters!Upload, Adapters!UploadOr, Adapters!UploadAnyId, Adapters!Look, Adapters!Wait, Adapters!Link,
       Adapters!Show, Adapters!ShowAnyId, Adapters!Call

LEMMA UnseenIsTidy ==
  ASSUME NEW s \in Seq(Unseen)
  PROVE  Tidy(s) /\ ~ HasShow(s)
<1>1. s \in Seq(Unseen \cup Shows) /\ \A i \in DOMAIN s : s[i] \in Unseen
  OBVIOUS
<1> QED
  BY <1>1, UnseenOrShown DEF Tidy, HasShow

LEMMA UnseenThen ==
  ASSUME NEW s \in Seq(Unseen), NEW t, Tidy(t)
  PROVE  Tidy(s \o t) /\ (HasShow(s \o t) <=> HasShow(t))
<1>1. t \in Seq(Unseen \cup Shows) /\ s \in Seq(Unseen \cup Shows)
  BY DEF Tidy
<1>2. PICK r : r = s \o t
  OBVIOUS
<1>3. r \in Seq(Unseen \cup Shows) /\ DOMAIN r = 1 .. Len(s) + Len(t) /\ Len(s) \in Nat /\ Len(t) \in Nat
  BY <1>1, <1>2
<1>4. \A i \in DOMAIN r : IF i <= Len(s) THEN r[i] = s[i] /\ r[i] \in Unseen ELSE i - Len(s) \in DOMAIN t /\ r[i] = t[i - Len(s)]
  BY <1>1, <1>2
<1>5. ASSUME NEW i \in DOMAIN r, NEW j \in DOMAIN r, i < j, r[i] \in Shows
      PROVE  r[j] = Adapters!Link
  <2>1. ~ (i <= Len(s)) /\ ~ (j <= Len(s))
    BY <1>3, <1>4, <1>5, UnseenOrShown
  <2>2. i - Len(s) < j - Len(s) /\ t[i - Len(s)] \in Shows /\ i - Len(s) \in DOMAIN t /\ j - Len(s) \in DOMAIN t
    BY <1>3, <1>4, <1>5, <2>1
  <2>3. t[j - Len(s)] = Adapters!Link
    BY <2>2 DEF Tidy
  <2> QED
    BY <1>4, <2>1, <2>3
<1>6. HasShow(r) => HasShow(t)
  <2> SUFFICES ASSUME NEW i \in DOMAIN r, r[i] \in Shows PROVE HasShow(t)
    BY DEF HasShow
  <2>1. ~ (i <= Len(s))
    BY <1>4, UnseenOrShown
  <2> QED
    BY <1>4, <2>1 DEF HasShow
<1>7. HasShow(t) => HasShow(r)
  <2> SUFFICES ASSUME NEW i \in DOMAIN t, t[i] \in Shows PROVE HasShow(r)
    BY DEF HasShow
  <2>1. i + Len(s) \in DOMAIN r /\ r[i + Len(s)] = t[i]
    BY <1>1, <1>2
  <2> QED
    BY <2>1 DEF HasShow
<1> QED
  BY <1>2, <1>3, <1>5, <1>6, <1>7 DEF Tidy

\* What is left of the calls after the first.
LEMMA RestOfTidy ==
  ASSUME NEW s, Tidy(s), s # <<>>
  PROVE  /\ Tidy(Tail(s)) /\ s[1] \in Unseen \cup Shows
         /\ s[1] \in Shows => AllLinks(Tail(s))
         /\ s[1] \notin Shows => (HasShow(s) <=> HasShow(Tail(s)))
         /\ AllLinks(s) => s[1] = Adapters!Link /\ AllLinks(Tail(s))
<1>1. PICK r : r = Tail(s)
  OBVIOUS
<1>2. s \in Seq(Unseen \cup Shows) /\ 1 \in DOMAIN s
  BY DEF Tidy
<1>3. /\ r \in Seq(Unseen \cup Shows) /\ DOMAIN s = 1 .. Len(s) /\ Len(s) \in Nat
      /\ \A i \in DOMAIN r : i \in Nat \ {0} /\ i + 1 \in DOMAIN s /\ r[i] = s[i + 1]
      /\ \A i \in DOMAIN s : i # 1 => i - 1 \in DOMAIN r /\ r[i - 1] = s[i]
  BY <1>1, <1>2
<1>4. ASSUME NEW i \in DOMAIN r, NEW j \in DOMAIN r, i < j, r[i] \in Shows
      PROVE  r[j] = Adapters!Link
  <2>1. i + 1 < j + 1 /\ i + 1 \in DOMAIN s /\ j + 1 \in DOMAIN s /\ s[i + 1] \in Shows /\ r[j] = s[j + 1]
    BY <1>3, <1>4
  <2> QED
    BY <2>1 DEF Tidy
<1>5. ASSUME s[1] \in Shows, NEW i \in DOMAIN r
      PROVE  r[i] = Adapters!Link
  <2>1. 1 < i + 1 /\ i + 1 \in DOMAIN s /\ r[i] = s[i + 1]
    BY <1>3
  <2> QED
    BY <1>2, <1>5, <2>1 DEF Tidy
<1>6. ASSUME s[1] \notin Shows
      PROVE  HasShow(s) <=> HasShow(r)
  BY <1>3, <1>6 DEF HasShow
<1>7. ASSUME AllLinks(s)
      PROVE  s[1] = Adapters!Link /\ AllLinks(r)
  BY <1>2, <1>3, <1>7 DEF AllLinks
<1>8. s[1] \in Unseen \cup Shows
  BY <1>2
<1> QED
  BY <1>1, <1>3, <1>4, <1>5, <1>6, <1>7, <1>8 DEF Tidy, AllLinks

LEMMA ShowAlone ==
  ASSUME NEW c \in Shows
  PROVE  Tidy(<<c>>) /\ HasShow(<<c>>) /\ Tidy(<<c, Adapters!Link>>) /\ HasShow(<<c, Adapters!Link>>)
<1>1. Adapters!Link \in Unseen
  BY DEF Unseen
<1>2. PICK one : one = <<c>>
  OBVIOUS
<1>3. one \in Seq(Unseen \cup Shows) /\ DOMAIN one = {1} /\ one[1] = c
  BY <1>2
<1>4. PICK two : two = <<c, Adapters!Link>>
  OBVIOUS
<1>5. two \in Seq(Unseen \cup Shows) /\ DOMAIN two = {1, 2} /\ two[1] = c /\ two[2] = Adapters!Link
  BY <1>1, <1>4
<1>6. Tidy(one) /\ HasShow(one)
  BY <1>3 DEF Tidy, HasShow
<1>7. Tidy(two) /\ HasShow(two)
  <2>1. ASSUME NEW i \in DOMAIN two, NEW j \in DOMAIN two, i < j PROVE two[j] = Adapters!Link
    BY <1>5, <2>1
  <2> QED
    BY <1>5, <2>1 DEF Tidy, HasShow
<1> QED
  BY <1>2, <1>4, <1>6, <1>7

-----------------------------------------------------------------------------
\* What the plans are made from.
ItemKept == item.media \in Seq({"image", "video"}) /\ item.provider \in Providers /\ Adapters!CallsParameters
\* The adapter stops before anybody sees the post: a status check will go on.
StopsEarly == ~ item.reply /\ Adapters!Videos /\ item.provider \in {"instagram", "threads"}

LEMMA PiecesUnseen ==
  /\ <<>> \in Seq(Unseen) /\ <<Adapters!UploadAnyId>> \in Seq(Unseen) /\ <<Adapters!UploadAnyId, Adapters!Wait>> \in Seq(Unseen)
  /\ <<Adapters!Read, Adapters!UploadOr("transient")>> \in Seq(Unseen)
  /\ <<Adapters!Look("children"), Adapters!UploadAnyId>> \in Seq(Unseen) /\ <<Adapters!Look("container")>> \in Seq(Unseen)
  /\ Adapters!Lookup \in Seq(Unseen)
  /\ \A m : Adapters!LinkedInMedia(m) \in Seq(Unseen) /\ Adapters!XMedia(m) \in Seq(Unseen)
<1>1. /\ Adapters!Read \in Unseen /\ Adapters!Upload \in Unseen /\ Adapters!UploadOr("transient") \in Unseen /\ Adapters!UploadAnyId \in Unseen
      /\ Adapters!Wait \in Unseen /\ Adapters!Look("children") \in Unseen /\ Adapters!Look("container") \in Unseen
  BY DEF Unseen
<1>2. /\ <<>> \in Seq(Unseen) /\ <<Adapters!UploadAnyId>> \in Seq(Unseen) /\ <<Adapters!UploadAnyId, Adapters!Wait>> \in Seq(Unseen)
      /\ <<Adapters!Read, Adapters!UploadOr("transient")>> \in Seq(Unseen)
      /\ <<Adapters!Look("children"), Adapters!UploadAnyId>> \in Seq(Unseen) /\ <<Adapters!Look("container")>> \in Seq(Unseen)
  BY <1>1
<1>3. Adapters!Lookup \in Seq(Unseen)
  BY <1>1 DEF Adapters!Lookup
<1>4. Adapters!LinkedInImage \in Seq(Unseen) /\ Adapters!LinkedInVideo \in Seq(Unseen)
  BY <1>1 DEF Adapters!LinkedInImage, Adapters!LinkedInVideo
<1>5. ASSUME NEW m
      PROVE  Adapters!LinkedInMedia(m) \in Seq(Unseen) /\ Adapters!XMedia(m) \in Seq(Unseen)
  <2>1. Adapters!LinkedInMedia(m) \in Seq(Unseen)
    BY <1>4 DEF Adapters!LinkedInMedia
  <2>2. <<Adapters!Read, Adapters!Upload, Adapters!Upload, Adapters!Upload>> \in Seq(Unseen)
    BY <1>1
  <2>3. (IF m = "video" THEN <<Adapters!Wait>> ELSE <<>>) \in Seq(Unseen)
    BY <1>1
  <2>4. Adapters!XMedia(m) \in Seq(Unseen)
    BY <1>2, <2>2, <2>3 DEF Adapters!XMedia
  <2> QED
    BY <2>1, <2>4
<1> QED
  BY <1>2, <1>3, <1>5

LEMMA TimesUnseen ==
  ASSUME NEW n \in Nat, NEW s \in Seq(Unseen)
  PROVE  Adapters!Times(n, s) \in Seq(Unseen)
<1>1. [i \in 1 .. n |-> s] \in [1 .. n -> Seq(Unseen)]
  OBVIOUS
<1> QED
  BY <1>1, FlattenIn DEF Adapters!Times

LEMMA EachUnseen ==
  ASSUME ItemKept
  PROVE  /\ Adapters!FlattenSeq([i \in DOMAIN item.media |-> Adapters!LinkedInMedia(item.media[i])]) \in Seq(Unseen)
         /\ Adapters!FlattenSeq([i \in DOMAIN item.media |-> Adapters!XMedia(item.media[i])]) \in Seq(Unseen)
<1>1. DOMAIN item.media = 1 .. Len(item.media) /\ Len(item.media) \in Nat
  BY DEF ItemKept
<1>2. /\ [i \in DOMAIN item.media |-> Adapters!LinkedInMedia(item.media[i])] \in [1 .. Len(item.media) -> Seq(Unseen)]
      /\ [i \in DOMAIN item.media |-> Adapters!XMedia(item.media[i])] \in [1 .. Len(item.media) -> Seq(Unseen)]
  BY <1>1, PiecesUnseen
<1> QED
  BY <1>1, <1>2, FlattenIn

LEMMA AdvanceShows ==
  ASSUME NEW p
  PROVE  Tidy(Adapters!Advance(p)) /\ HasShow(Adapters!Advance(p))
<1>1. (IF p = "children" THEN <<Adapters!Look("children"), Adapters!UploadAnyId>> ELSE <<>>) \in Seq(Unseen)
  BY PiecesUnseen
<1>2. Tidy(<<Adapters!ShowAnyId, Adapters!Link>>) /\ HasShow(<<Adapters!ShowAnyId, Adapters!Link>>)
  BY ShowAlone DEF Shows
<1>3. <<Adapters!Look("container"), Adapters!ShowAnyId, Adapters!Link>>
        = <<Adapters!Look("container")>> \o <<Adapters!ShowAnyId, Adapters!Link>>
  OBVIOUS
<1>4. /\ Tidy(<<Adapters!Look("container"), Adapters!ShowAnyId, Adapters!Link>>)
      /\ HasShow(<<Adapters!Look("container"), Adapters!ShowAnyId, Adapters!Link>>)
  BY <1>2, <1>3, PiecesUnseen, UnseenThen
<1> QED
  BY <1>1, <1>4, UnseenThen DEF Adapters!Advance

\* An adapter makes one call that followers see, after all the others but the look at the post's
\* address; when it stops early it makes none.
LEMMA PlanShows ==
  ASSUME ItemKept
  PROVE  Tidy(Adapters!Plan) /\ (HasShow(Adapters!Plan) <=> ~ StopsEarly)
<1> DEFINE Seen(s) == Tidy(s) /\ HasShow(s)
           NotYet(s) == Tidy(s) /\ ~ HasShow(s)
           one == <<Adapters!Show>>
           any == <<Adapters!ShowAnyId>>
<1>1. Seen(one) /\ Seen(any) /\ Seen(<<Adapters!ShowAnyId, Adapters!Link>>)
  BY ShowAlone DEF Shows
<1>2. ASSUME NEW s \in Seq(Unseen), NEW t, Seen(t)
      PROVE  Seen(s \o t)
  BY <1>2, UnseenThen
<1>3. ASSUME NEW s \in Seq(Unseen)
      PROVE  NotYet(s) /\ NotYet(s \o <<>>)
  <2>1. NotYet(s) /\ NotYet(<<>>) 
    BY UnseenIsTidy, PiecesUnseen
  <2> QED
    BY <2>1, UnseenThen
<1>4. Adapters!Count \in Nat
  BY DEF ItemKept, Adapters!Count
<1>5. Adapters!Times(Adapters!Count, <<Adapters!UploadAnyId>>) \in Seq(Unseen)
  BY <1>4, TimesUnseen, PiecesUnseen
<1>6. \A p : Seen(Adapters!Advance(p))
  BY AdvanceShows
<1>7. Seen(Adapters!FacebookPost)
  <2> HIDE DEF Seen
  <2> QED
    BY <1>1, <1>2, <1>5 DEF Adapters!FacebookPost
<1>8. Seen(Adapters!FacebookReply) /\ Seen(Adapters!LinkedInReply)
  <2> HIDE DEF Seen
  <2> QED
    BY <1>1, <1>2, PiecesUnseen DEF Adapters!FacebookReply, Adapters!LinkedInReply
<1>9. IF Adapters!Videos THEN NotYet(Adapters!InstagramPost) ELSE Seen(Adapters!InstagramPost)
  <2> HIDE DEF Seen, NotYet
  <2> QED
    BY <1>2, <1>3, <1>5, <1>6 DEF Adapters!InstagramPost
<1>10. IF Adapters!Videos THEN NotYet(Adapters!ThreadsPost) ELSE Seen(Adapters!ThreadsPost)
  <2>1. Adapters!Count = 0 => ~ Adapters!Videos
    BY DEF Adapters!Count, Adapters!Videos, ItemKept
  <2> HIDE DEF Seen, NotYet
  <2> QED
    BY <1>2, <1>3, <1>5, <1>6, <2>1, PiecesUnseen DEF Adapters!ThreadsPost
<1>11. Seen(Adapters!ThreadsReply)
  <2>1. Adapters!ThreadsReply = <<Adapters!UploadAnyId, Adapters!Wait>> \o <<Adapters!ShowAnyId, Adapters!Link>>
    BY DEF Adapters!ThreadsReply
  <2> HIDE DEF Seen
  <2> QED
    BY <1>1, <1>2, <2>1, PiecesUnseen
<1>12. Seen(Adapters!LinkedInPost) /\ Seen(Adapters!XPost)
  <2>1. /\ Adapters!EachMedia(Adapters!LinkedInMedia) \in Seq(Unseen)
        /\ Adapters!EachMedia(Adapters!XMedia) \in Seq(Unseen)
    BY EachUnseen DEF Adapters!EachMedia
  <2> HIDE DEF Seen
  <2> QED
    BY <1>1, <1>2, <2>1 DEF Adapters!LinkedInPost, Adapters!XPost
<1>13. Seen(Adapters!YouTubePost)
  <2>1. Adapters!YouTubePost = <<Adapters!Read, Adapters!UploadOr("transient")>> \o <<Adapters!Show>>
    BY DEF Adapters!YouTubePost
  <2> HIDE DEF Seen
  <2> QED
    BY <1>1, <1>2, <2>1, PiecesUnseen
<1>14. item.provider \in {"facebook", "instagram", "threads", "linkedin", "x", "youtube", "reddit"}
  BY DEF ItemKept, Adapters!CallsParameters
<1>15. CASE item.reply
  <2>1. Seen(Adapters!Plan)
    <3> HIDE DEF Seen
    <3> QED
      BY <1>1, <1>8, <1>11, <1>15 DEF Adapters!Plan
  <2> QED
    BY <1>15, <2>1 DEF StopsEarly
<1>16. CASE ~ item.reply
  <2>1. CASE item.provider \in {"instagram", "threads"}
    <3>1. IF Adapters!Videos THEN NotYet(Adapters!Plan) ELSE Seen(Adapters!Plan)
      <4> HIDE DEF Seen, NotYet
      <4> QED
        BY <1>9, <1>10, <1>16, <2>1 DEF Adapters!Plan
    <3> QED
      BY <1>16, <2>1, <3>1 DEF StopsEarly
  <2>2. CASE item.provider \notin {"instagram", "threads"}
    <3>1. Seen(Adapters!Plan)
      <4> HIDE DEF Seen
      <4> QED
        BY <1>1, <1>7, <1>12, <1>13, <1>14, <1>16, <2>2 DEF Adapters!Plan
    <3> QED
      BY <2>2, <3>1 DEF StopsEarly
  <2> QED
    BY <2>1, <2>2
<1> QED
  BY <1>15, <1>16

-----------------------------------------------------------------------------
\* Whatever is still to be done, the post is shown at most once: while followers see nothing the
\* calls to come hold one they will see, unless the adapter stops early; once they see it, only
\* the look at its address is left.
CallsInv ==
  /\ ItemKept
  /\ visible \in {0, 1} /\ phase \in Adapters!Phases
  /\ Tidy(todo)
  /\ phase \in {"start", "polling", "failed"} => visible = 0
  /\ phase = "published" => visible = 1
  /\ Adapters!Sending =>
       IF phase = "publish" /\ StopsEarly THEN visible = 0 /\ ~ HasShow(todo)
       ELSE IF visible = 1 THEN AllLinks(todo) ELSE HasShow(todo)

LEMMA CallOfPlan ==
  ASSUME NEW c \in Unseen \cup Shows
  PROVE  /\ c.mutating \in BOOLEAN
         /\ c.kind = "show" <=> c \in Shows
         /\ c.mutating <=> c \in Shows
         /\ c.kind = "link" <=> c = Adapters!Link
         /\ c.noId \in Adapters!ErrorKinds \cup {"none"}
         /\ c \in Shows /\ c.noId # "none" => c.noId = "unknown_outcome"
<1> USE DEF Adapters!Read, Adapters!Upload, Adapters!UploadOr, Adapters!UploadAnyId, Adapters!Look, Adapters!Wait, Adapters!Link,
            Adapters!Show, Adapters!ShowAnyId, Adapters!Call, Adapters!ErrorKinds, Adapters!ProviderErrors
<1>1. CASE c \in Shows
  <2>1. c.mutating = TRUE /\ c.kind = "show" /\ c.noId \in {"unknown_outcome", "none"}
    BY <1>1 DEF Shows
  <2>2. Adapters!Link.kind = "link"
    OBVIOUS
  <2> QED
    BY <1>1, <2>1, <2>2
<1>2. CASE c \in Unseen
  <2>1. c \notin Shows
    BY <1>2, UnseenOrShown
  <2>2. c.mutating = FALSE /\ c.kind # "show" /\ c.noId \in {"internal", "transient", "none"}
    BY <1>2 DEF Unseen
  <2>3. c.kind = "link" <=> c = Adapters!Link
    BY <1>2 DEF Unseen
  <2> QED
    BY <2>1, <2>2, <2>3
<1> QED
  BY <1>1, <1>2

\* An answer that leaves open whether the platform acted on a call that followers see says so.
LEMMA ErrorsTold ==
  ASSUME NEW m \in BOOLEAN, NEW errors \in {Adapters!HttpErrors(m), Adapters!PlatformErrors(m)}, NEW a \in DOMAIN errors
  PROVE  /\ errors[a] \in Adapters!ErrorKinds
         /\ m /\ a \in Adapters!Unclear => errors[a] = "unknown_outcome"
<1> USE DEF Adapters!ErrorKinds, Adapters!ProviderErrors, Adapters!Unclear, Adapters!Ambiguous
<1>1. CASE errors = Adapters!HttpErrors(m)
  BY <1>1 DEF Adapters!HttpErrors
<1>2. CASE errors = Adapters!PlatformErrors(m)
  <2>1. \/ errors = Adapters!MetaErrors(m) \/ errors = Adapters!XErrors \/ errors = Adapters!GoogleErrors
        \/ errors = Adapters!RedditErrors \/ errors = <<>>
    BY <1>2, Zenon DEF Adapters!PlatformErrors
  <2>2. CASE errors = Adapters!MetaErrors(m)
    BY <2>2 DEF Adapters!MetaErrors
  <2>3. CASE errors = Adapters!XErrors
    BY <2>3 DEF Adapters!XErrors
  <2>4. CASE errors = Adapters!GoogleErrors
    BY <2>4 DEF Adapters!GoogleErrors
  <2>5. CASE errors = Adapters!RedditErrors
    BY <2>5 DEF Adapters!RedditErrors
  <2>6. CASE errors = <<>>
    BY <2>6
  <2> QED
    BY <2>1, <2>2, <2>3, <2>4, <2>5, <2>6
<1> QED
  BY <1>1, <1>2

\* The call in hand, unless it looks up an address, is made while followers see nothing.
LEMMA HeadFirst ==
  ASSUME CallsInv, Adapters!Sending, todo # <<>>
  PROVE  /\ todo[1] \in Unseen \cup Shows
         /\ todo[1] # Adapters!Link => visible = 0
<1>1. todo[1] \in Unseen \cup Shows /\ (AllLinks(todo) => todo[1] = Adapters!Link)
  BY RestOfTidy DEF CallsInv
<1> QED
  BY <1>1 DEF CallsInv

LEMMA CaughtKeeps ==
  ASSUME CallsInv, Adapters!Sending, visible = 0, NEW kind \in Adapters!ErrorKinds, Adapters!Catch(kind),
         visible' \in {0, 1}, visible' = 0 \/ kind \in {"internal", "unknown_outcome"}, item' = item
  PROVE  CallsInv' /\ (visible' = 1 => phase' = "unconfirmed")
<1>1. ItemKept'
  BY DEF CallsInv, ItemKept
<1>2. StopsEarly' = StopsEarly
  BY DEF StopsEarly, Adapters!Videos
<1>3. Tidy(<<>>)
  BY PiecesUnseen, UnseenIsTidy
<1>4. phase \in {"publish", "check"}
  BY DEF Adapters!Sending
<1>5. CASE phase = "check" /\ kind \in {"transient", "rate_limited"}
  <2>1. phase' \in {"failed", "polling"} /\ todo' = <<>> /\ visible' = 0
    BY <1>5 DEF Adapters!Catch, Adapters!PollAgain
  <2> QED
    BY <1>1, <1>3, <2>1 DEF CallsInv, Adapters!Phases, Adapters!Outcomes, Adapters!Sending
<1>6. CASE ~ (phase = "check" /\ kind \in {"transient", "rate_limited"})
  <2>1. PICK decision :
          /\ Adapters!Decided(decision)
          /\ IF phase = "check" THEN decision = Adapters!Decide(kind, CallAttempts, TRUE, TRUE)
             ELSE decision = Adapters!Decide(kind, attempt, TRUE, refreshed)
    BY <1>6 DEF Adapters!Catch
  <2>2. /\ kind \in {"internal", "unknown_outcome"} => decision = "unconfirmed"
        /\ decision = "refresh_token" => phase = "publish"
    BY <1>4, <2>1 DEF Adapters!Decide, Adapters!RetryOrFail, Adapters!ErrorKinds, Adapters!ProviderErrors
  <2>3. CASE decision = "refresh_token"
    <3>1. phase' = "publish" /\ todo' = Adapters!Plan /\ visible' = 0
      BY <2>1, <2>2, <2>3 DEF Adapters!Decided
    <3>2. Tidy(Adapters!Plan) /\ (HasShow(Adapters!Plan) <=> ~ StopsEarly)
      BY PlanShows DEF CallsInv
    <3>3. Tidy(todo') /\ (HasShow(todo') <=> ~ StopsEarly')
      BY <1>2, <3>1, <3>2
    <3> QED
      BY <1>1, <3>1, <3>3 DEF CallsInv, Adapters!Phases, Adapters!Outcomes, Adapters!Sending
  <2>4. CASE decision # "refresh_token"
    <3>1. todo' = <<>> /\ \/ phase' \in {"start", "failed"} /\ decision # "unconfirmed"
                          \/ phase' = "unconfirmed"
      BY <2>1, <2>4 DEF Adapters!Decided
    <3>2. visible' = 1 => phase' = "unconfirmed"
      BY <2>2, <3>1
    <3> QED
      BY <1>1, <1>3, <3>1, <3>2 DEF CallsInv, Adapters!Phases, Adapters!Outcomes, Adapters!Sending
  <2> QED
    BY <2>3, <2>4
<1> QED
  BY <1>5, <1>6

\* One step: the invariant is kept, and followers see something new only while the outcome is open.
LEMMA CallsStep ==
  ASSUME CallsInv, Adapters!CallsNext
  PROVE  /\ CallsInv'
         /\ visible' # visible =>
              visible = 0 /\ visible' = 1 /\ Adapters!Sending /\ phase' \in {"publish", "check", "unconfirmed"}
<1> DEFINE Goal == /\ CallsInv'
                   /\ visible' # visible =>
                        visible = 0 /\ visible' = 1 /\ Adapters!Sending /\ phase' \in {"publish", "check", "unconfirmed"}
<1> SUFFICES Goal
  OBVIOUS
<1>0. item' = item
  BY DEF Adapters!CallsNext, Adapters!Publish, Adapters!CheckStatus, Adapters!Succeeds, Adapters!Returns,
         Adapters!LookAnswered, Adapters!WaitAnswered, Adapters!LinkFails, Adapters!Fails, Adapters!Unreadable, Adapters!NoId
<1>1. ItemKept' /\ StopsEarly' = StopsEarly
  BY <1>0 DEF CallsInv, ItemKept, StopsEarly, Adapters!Videos
<1>2. Tidy(<<>>)
  BY PiecesUnseen, UnseenIsTidy
<1>3. ASSUME NEW kind \in Adapters!ErrorKinds, Adapters!Sending, todo # <<>>, todo[1] # Adapters!Link, Adapters!Catch(kind),
             visible' \in {visible, visible + 1}, visible' = visible \/ kind \in {"internal", "unknown_outcome"}
      PROVE  Goal
  <2>1. visible = 0
    BY <1>3, HeadFirst
  <2>2. CallsInv' /\ (visible' = 1 => phase' = "unconfirmed")
    <3>1. visible' \in {0, 1} /\ (visible' = 0 \/ kind \in {"internal", "unknown_outcome"})
      BY <1>3, <2>1
    <3> QED
      BY <1>0, <1>3, <2>1, <3>1, CaughtKeeps
  <2> QED
    BY <1>3, <2>1, <2>2
<1>4. ASSUME Adapters!Sending, todo # <<>>, todo' = Tail(todo), phase' = phase,
             IF todo[1] \in Shows THEN visible' = visible + 1 ELSE visible' = visible
      PROVE  Goal
  <2>1. /\ todo[1] \in Unseen \cup Shows /\ (todo[1] # Adapters!Link => visible = 0)
        /\ Tidy(todo') /\ (todo[1] \in Shows => AllLinks(todo'))
        /\ todo[1] \notin Shows => (HasShow(todo) <=> HasShow(todo'))
        /\ AllLinks(todo) => todo[1] = Adapters!Link /\ AllLinks(todo')
    BY <1>4, HeadFirst, RestOfTidy DEF CallsInv
  <2>2. Adapters!Link \notin Shows
    BY UnseenOrShown DEF Unseen
  <2>3. CASE todo[1] \in Shows
    <3>1. visible = 0 /\ visible' = 1 /\ HasShow(todo)
      <4>1. 1 \in DOMAIN todo
        BY <1>4 DEF CallsInv, Tidy
      <4> QED
        BY <1>4, <2>1, <2>2, <2>3, <4>1 DEF HasShow
    <3> QED
      BY <1>1, <1>4, <2>1, <2>3, <3>1 DEF CallsInv, Adapters!Sending, Adapters!Phases, Adapters!Outcomes
  <2>4. CASE todo[1] \notin Shows
    BY <1>1, <1>4, <2>1, <2>4 DEF CallsInv, Adapters!Sending, Adapters!Phases, Adapters!Outcomes
  <2> QED
    BY <2>3, <2>4
<1>5. CASE Adapters!Publish
  <2>1. phase' = "publish" /\ todo' = Adapters!Plan /\ visible' = visible /\ visible = 0
    BY <1>5 DEF Adapters!Publish, CallsInv
  <2>2. Tidy(Adapters!Plan) /\ (HasShow(Adapters!Plan) <=> ~ StopsEarly)
    BY PlanShows DEF CallsInv
  <2>3. Tidy(todo') /\ (HasShow(todo') <=> ~ StopsEarly')
    BY <1>1, <2>1, <2>2
  <2> QED
    BY <1>1, <2>1, <2>3 DEF CallsInv, Adapters!Phases, Adapters!Outcomes, Adapters!Sending
<1>6. CASE Adapters!CheckStatus
  <2>1. phase' = "check" /\ todo' = Adapters!Advance(cPending) /\ visible' = visible /\ visible = 0
    BY <1>6 DEF Adapters!CheckStatus, CallsInv
  <2>2. Tidy(Adapters!Advance(cPending)) /\ HasShow(Adapters!Advance(cPending))
    BY AdvanceShows
  <2>3. Tidy(todo') /\ HasShow(todo')
    BY <2>1, <2>2
  <2> QED
    BY <1>1, <2>1, <2>3 DEF CallsInv, Adapters!Phases, Adapters!Outcomes, Adapters!Sending
<1>7. CASE Adapters!Succeeds
  <2>1. Adapters!Sending /\ todo # <<>> /\ todo[1] \in Unseen \cup Shows
    BY <1>7, HeadFirst DEF Adapters!Succeeds
  <2>2. todo[1].kind = "show" <=> todo[1] \in Shows
    BY <2>1, CallOfPlan
  <2> QED
    BY <1>4, <1>7, <2>1, <2>2 DEF Adapters!Succeeds, Adapters!Head1, Adapters!Rest
<1>8. CASE Adapters!LinkFails
  <2>1. Adapters!Sending /\ todo # <<>> /\ todo[1] \in Unseen \cup Shows
    BY <1>8, HeadFirst DEF Adapters!LinkFails
  <2>2. todo[1] \notin Shows
    BY <1>8, <2>1, CallOfPlan DEF Adapters!LinkFails, Adapters!Head1
  <2> QED
    BY <1>4, <1>8, <2>1, <2>2 DEF Adapters!LinkFails, Adapters!Rest
<1>9. CASE Adapters!Returns
  <2>1. ~ HasShow(todo) /\ todo' = <<>> /\ visible' = visible /\ phase \in {"publish", "check"}
    BY <1>9 DEF Adapters!Returns, HasShow, Adapters!Sending
  <2>2. CASE phase = "publish" /\ StopsEarly
    <3>1. phase' \in {"failed", "polling"} /\ visible = 0
      BY <1>9, <2>2 DEF Adapters!Returns, Adapters!PollAgain, StopsEarly, CallsInv
    <3> QED
      BY <1>1, <1>2, <2>1, <3>1 DEF CallsInv, Adapters!Phases, Adapters!Outcomes, Adapters!Sending
  <2>3. CASE ~ (phase = "publish" /\ StopsEarly)
    <3>1. phase' = "published"
      BY <1>9, <2>3 DEF Adapters!Returns, StopsEarly
    <3>2. visible = 1
      BY <1>9, <2>1, <2>3 DEF Adapters!Returns, CallsInv
    <3> QED
      BY <1>1, <1>2, <2>1, <3>1, <3>2 DEF CallsInv, Adapters!Phases, Adapters!Outcomes, Adapters!Sending
  <2> QED
    BY <2>2, <2>3
<1>10. CASE Adapters!LookAnswered
  <2>1. Adapters!Sending /\ todo # <<>> /\ todo[1] \in Unseen \cup Shows /\ todo[1].kind = "look" /\ visible' = visible
    BY <1>10, HeadFirst DEF Adapters!LookAnswered, Adapters!Head1
  <2>2. todo[1] \notin Shows /\ todo[1] # Adapters!Link
    BY <2>1, CallOfPlan
  <2>3. visible = 0
    BY <2>1, <2>2, HeadFirst
  <2>4. CASE todo' = Tail(todo) /\ phase' = phase
    BY <1>4, <2>1, <2>2, <2>4
  <2>5. CASE todo' = <<>> /\ phase' \in {"failed", "polling"}
    BY <1>1, <1>2, <2>1, <2>3, <2>5 DEF CallsInv, Adapters!Phases, Adapters!Outcomes, Adapters!Sending
  <2>6. CASE Adapters!Catch("invalid_request")
    <3>1. "invalid_request" \in Adapters!ErrorKinds
      BY DEF Adapters!ErrorKinds, Adapters!ProviderErrors
    <3> QED
      BY <1>3, <2>1, <2>2, <2>6, <3>1
  <2> QED
    BY <1>10, <2>4, <2>5, <2>6 DEF Adapters!LookAnswered, Adapters!Rest, Adapters!PollAgain
<1>11. CASE Adapters!WaitAnswered
  <2>1. Adapters!Sending /\ todo # <<>> /\ todo[1] \in Unseen \cup Shows /\ todo[1].kind = "wait" /\ visible' = visible
    BY <1>11, HeadFirst DEF Adapters!WaitAnswered, Adapters!Head1
  <2>2. todo[1] \notin Shows /\ todo[1] # Adapters!Link
    BY <2>1, CallOfPlan
  <2>3. CASE todo' = Tail(todo) /\ phase' = phase
    BY <1>4, <2>1, <2>2, <2>3
  <2>4. ASSUME NEW kind \in {"transient", "invalid_request"}, Adapters!Catch(kind)
        PROVE  Goal
    <3>1. kind \in Adapters!ErrorKinds
      BY DEF Adapters!ErrorKinds, Adapters!ProviderErrors
    <3> QED
      BY <1>3, <2>1, <2>2, <2>4, <3>1
  <2> QED
    BY <1>11, <2>3, <2>4 DEF Adapters!WaitAnswered, Adapters!Rest
<1>12. CASE Adapters!Fails
  <2>1. Adapters!Sending /\ todo # <<>> /\ todo[1] \in Unseen \cup Shows /\ todo[1].kind # "link"
    BY <1>12, HeadFirst DEF Adapters!Fails, Adapters!Head1
  <2>2. todo[1] # Adapters!Link /\ todo[1].mutating \in BOOLEAN /\ (todo[1].kind = "show" => todo[1].mutating)
    BY <2>1, CallOfPlan
  <2>3. PICK errors \in {Adapters!HttpErrors(todo[1].mutating), Adapters!PlatformErrors(todo[1].mutating)} :
          Adapters!FailsWith(errors)
    BY <1>12 DEF Adapters!Fails, Adapters!Head1
  <2>4. PICK a \in DOMAIN errors :
          /\ Adapters!Catch(errors[a])
          /\ visible' \in IF todo[1].kind = "show" /\ a \in Adapters!Unclear THEN {visible, visible + 1} ELSE {visible}
    BY <2>3 DEF Adapters!FailsWith, Adapters!Head1
  <2>5. /\ errors[a] \in Adapters!ErrorKinds
        /\ todo[1].kind = "show" /\ a \in Adapters!Unclear => errors[a] = "unknown_outcome"
    BY <2>2, ErrorsTold
  <2> QED
    BY <1>3, <2>1, <2>2, <2>4, <2>5
<1>13. CASE Adapters!Unreadable
  <2>1. Adapters!Sending /\ todo # <<>> /\ todo[1] \in Unseen \cup Shows /\ todo[1].kind # "link"
    BY <1>13, HeadFirst DEF Adapters!Unreadable, Adapters!Head1
  <2>2. todo[1] # Adapters!Link
    BY <2>1, CallOfPlan
  <2>3. "internal" \in Adapters!ErrorKinds
    BY DEF Adapters!ErrorKinds
  <2> QED
    BY <1>3, <1>13, <2>1, <2>2, <2>3 DEF Adapters!Unreadable
<1>14. CASE Adapters!NoId
  <2>1. Adapters!Sending /\ todo # <<>> /\ todo[1] \in Unseen \cup Shows /\ todo[1].kind # "link"
    BY <1>14, HeadFirst DEF Adapters!NoId, Adapters!Head1
  <2>2. /\ todo[1] # Adapters!Link /\ todo[1].noId \in Adapters!ErrorKinds
        /\ todo[1].kind = "show" => todo[1].noId = "unknown_outcome"
    BY <1>14, <2>1, CallOfPlan DEF Adapters!NoId, Adapters!Head1
  <2> QED
    BY <1>3, <1>14, <2>1, <2>2 DEF Adapters!NoId, Adapters!Head1
<1> QED
  BY <1>5, <1>6, <1>7, <1>8, <1>9, <1>10, <1>11, <1>12, <1>13, <1>14 DEF Adapters!CallsNext

LEMMA CallsStart == ASSUME Adapters!CallsParameters PROVE Adapters!CallsInit => CallsInv
<1> SUFFICES ASSUME Adapters!CallsInit PROVE CallsInv
  OBVIOUS
<1>1. item.media \in Adapters!MediaLists /\ item.provider \in Providers
  BY DEF Adapters!CallsInit
<1>2. item.media \in Seq({"image", "video"})
  <2>1. PICK n \in 0 .. MaxMedia : item.media \in [1 .. n -> {"image", "video"}]
    BY <1>1 DEF Adapters!MediaLists
  <2>2. n \in Nat
    BY DEF Adapters!CallsParameters
  <2> QED
    BY <2>1, <2>2
<1>3. Tidy(<<>>)
  BY PiecesUnseen, UnseenIsTidy
<1> QED
  BY <1>1, <1>2, <1>3 DEF Adapters!CallsInit, CallsInv, ItemKept, Adapters!Phases, Adapters!Outcomes, Adapters!Sending

\* The types, and what is said of a call is what it does.
LEMMA CallsTypesKept ==
  ASSUME CallsInv, CallsInv', Adapters!CallsTypeOK, Adapters!CallsNext
  PROVE  Adapters!CallsTypeOK'
<1> USE DEF Adapters!Outcomes, Adapters!Phases
<1>1. item' = item
  BY DEF Adapters!CallsNext, Adapters!Publish, Adapters!CheckStatus, Adapters!Succeeds, Adapters!Returns,
         Adapters!LookAnswered, Adapters!WaitAnswered, Adapters!LinkFails, Adapters!Fails, Adapters!Unreadable, Adapters!NoId
<1>2. \A i \in DOMAIN todo' : (todo')[i].mutating <=> (todo')[i].kind = "show"
  <2> SUFFICES ASSUME NEW i \in DOMAIN todo' PROVE (todo')[i].mutating <=> (todo')[i].kind = "show"
    OBVIOUS
  <2>1. (todo')[i] \in Unseen \cup Shows
    BY DEF CallsInv, Tidy
  <2>2. PICK c \in Unseen \cup Shows : c = (todo')[i]
    BY <2>1
  <2>3. c.mutating <=> c.kind = "show"
    BY CallOfPlan
  <2> QED
    BY <2>2, <2>3
<1>3. ItemKept /\ CallChecks \in Nat /\ CallAttempts \in Nat \ {0}
  BY PartsParameters DEF CallsInv, ItemKept, Adapters!CallsParameters
<1> DEFINE Bounded == /\ phase' \in Adapters!Phases /\ cPending' \in {"none", "children", "container"}
                      /\ phase' \in {"polling", "check"} => cPending' # "none"
                      /\ attempt' \in 1 .. CallAttempts /\ refreshed' \in BOOLEAN /\ check' \in 0 .. CallChecks
<1>4. ASSUME Bounded PROVE Adapters!CallsTypeOK'
  <2>1. visible' \in Nat
    BY DEF CallsInv
  <2> QED
    BY <1>1, <1>2, <1>4, <2>1 DEF Adapters!CallsTypeOK, Adapters!Count
<1> SUFFICES Bounded
  BY <1>4
<1>5. /\ phase \in Adapters!Phases /\ cPending \in {"none", "children", "container"}
      /\ phase \in {"polling", "check"} => cPending # "none"
      /\ attempt \in 1 .. CallAttempts /\ refreshed \in BOOLEAN /\ check \in 0 .. CallChecks
  BY DEF Adapters!CallsTypeOK
<1>6. ASSUME NEW k \in Nat, Adapters!PollAgain(k) PROVE phase' \in {"failed", "polling"} /\ check' \in 0 .. CallChecks
  BY <1>3, <1>5, <1>6 DEF Adapters!PollAgain
<1>7. ASSUME NEW kind \in Adapters!ErrorKinds, Adapters!Sending, Adapters!Catch(kind), cPending' = cPending PROVE Bounded
  <2>1. CASE phase = "check" /\ kind \in {"transient", "rate_limited"}
    <3>1. Adapters!PollAgain(check + 1) /\ attempt' = attempt /\ refreshed' = refreshed
      BY <1>7, <2>1 DEF Adapters!Catch
    <3>2. check + 1 \in Nat
      BY <1>5
    <3>3. phase' \in {"failed", "polling"} /\ check' \in 0 .. CallChecks
      BY <1>6, <3>1, <3>2
    <3> QED
      BY <1>5, <1>7, <2>1, <3>1, <3>3
  <2>2. CASE ~ (phase = "check" /\ kind \in {"transient", "rate_limited"})
    <3>1. PICK decision :
            /\ Adapters!Decided(decision) /\ check' = check
            /\ IF phase = "check" THEN decision = Adapters!Decide(kind, CallAttempts, TRUE, TRUE)
               ELSE decision = Adapters!Decide(kind, attempt, TRUE, refreshed)
      BY <1>7, <2>2 DEF Adapters!Catch
    <3>2. decision = "retry" => attempt < CallAttempts
      <4>1. CASE phase = "check"
        BY <2>2, <3>1, <4>1 DEF Adapters!Decide, Adapters!RetryOrFail, Adapters!ErrorKinds, Adapters!ProviderErrors
      <4>2. CASE phase # "check"
        BY <1>5, <3>1, <4>2 DEF Adapters!Decide, Adapters!RetryOrFail, Adapters!ErrorKinds, Adapters!ProviderErrors
      <4> QED
        BY <4>1, <4>2
    <3>3. attempt' \in 1 .. CallAttempts
      BY <1>3, <1>5, <3>1, <3>2 DEF Adapters!Decided
    <3>4. phase' = phase \/ phase' \in {"start", "failed", "unconfirmed"}
      BY <3>1 DEF Adapters!Decided
    <3>5. refreshed' \in BOOLEAN
      BY <1>5, <3>1 DEF Adapters!Decided
    <3> QED
      BY <1>5, <1>7, <3>1, <3>3, <3>4, <3>5
  <2> QED
    BY <2>1, <2>2
<1>8. CASE Adapters!Publish
  BY <1>5, <1>8 DEF Adapters!Publish
<1>9. CASE Adapters!CheckStatus
  BY <1>5, <1>9 DEF Adapters!CheckStatus
<1>10. CASE Adapters!Succeeds \/ Adapters!LinkFails
  BY <1>5, <1>10 DEF Adapters!Succeeds, Adapters!LinkFails
<1>11. CASE Adapters!Returns
  <2>1. attempt' = attempt /\ refreshed' = refreshed
    BY <1>11 DEF Adapters!Returns
  <2>2. CASE cPending' = Adapters!ContainerKind /\ Adapters!PollAgain(0)
    BY <1>5, <1>6, <2>1, <2>2 DEF Adapters!ContainerKind
  <2>3. CASE phase' = "published" /\ UNCHANGED <<cPending, check>>
    BY <1>5, <2>1, <2>3
  <2> QED
    BY <1>11, <2>2, <2>3 DEF Adapters!Returns
<1>12. CASE Adapters!LookAnswered
  <2>1. Adapters!Sending /\ todo # <<>> /\ todo[1] \in Unseen \cup Shows /\ todo[1].kind = "look"
    BY <1>12, HeadFirst DEF Adapters!LookAnswered, Adapters!Head1
  <2>2. CASE UNCHANGED <<phase, cPending, attempt, refreshed, check>>
    BY <1>5, <2>2
  <2>3. CASE /\ cPending' = todo[1].leaves /\ UNCHANGED <<attempt, refreshed>>
             /\ Adapters!PollAgain(IF phase = "check" THEN check + 1 ELSE 0)
    <3>1. todo[1].leaves \in {"children", "container"}
      BY <2>1 DEF Unseen, Shows, Adapters!Read, Adapters!Upload, Adapters!UploadOr, Adapters!UploadAnyId, Adapters!Look, Adapters!Wait, Adapters!Link,
                  Adapters!Show, Adapters!ShowAnyId, Adapters!Call
    <3>2. PICK k \in Nat : Adapters!PollAgain(k)
      <4>1. (IF phase = "check" THEN check + 1 ELSE 0) \in Nat
        BY <1>5
      <4> QED
        BY <2>3, <4>1
    <3> QED
      BY <1>5, <1>6, <2>3, <3>1, <3>2
  <2>4. CASE Adapters!Catch("invalid_request") /\ UNCHANGED cPending
    <3>1. "invalid_request" \in Adapters!ErrorKinds
      BY DEF Adapters!ErrorKinds, Adapters!ProviderErrors
    <3> QED
      BY <1>7, <2>1, <2>4, <3>1
  <2> QED
    BY <1>12, <2>2, <2>3, <2>4 DEF Adapters!LookAnswered, Adapters!Head1
<1>13. CASE Adapters!WaitAnswered
  <2>1. CASE UNCHANGED <<phase, attempt, refreshed, check>>
    BY <1>5, <1>13, <2>1 DEF Adapters!WaitAnswered
  <2>2. ASSUME NEW kind \in {"transient", "invalid_request"}, Adapters!Catch(kind)
        PROVE  Bounded
    <3>1. kind \in Adapters!ErrorKinds
      BY DEF Adapters!ErrorKinds, Adapters!ProviderErrors
    <3> QED
      BY <1>7, <1>13, <2>2, <3>1 DEF Adapters!WaitAnswered
  <2> QED
    BY <1>13, <2>1, <2>2 DEF Adapters!WaitAnswered
<1>14. CASE Adapters!Fails
  <2>1. Adapters!Sending /\ todo[1] \in Unseen \cup Shows /\ cPending' = cPending
    BY <1>14, HeadFirst DEF Adapters!Fails
  <2>2. todo[1].mutating \in BOOLEAN
    BY <2>1, CallOfPlan
  <2>3. PICK errors \in {Adapters!HttpErrors(todo[1].mutating), Adapters!PlatformErrors(todo[1].mutating)} :
          \E a \in DOMAIN errors : Adapters!Catch(errors[a])
    BY <1>14 DEF Adapters!Fails, Adapters!FailsWith, Adapters!Head1
  <2> QED
    BY <1>7, <2>1, <2>2, <2>3, ErrorsTold
<1>15. CASE Adapters!Unreadable
  BY <1>7, <1>15 DEF Adapters!Unreadable, Adapters!ErrorKinds
<1>16. CASE Adapters!NoId
  <2>1. Adapters!Sending /\ todo[1] \in Unseen \cup Shows /\ cPending' = cPending /\ Adapters!Catch(todo[1].noId)
        /\ todo[1].noId # "none"
    BY <1>16, HeadFirst DEF Adapters!NoId, Adapters!Head1
  <2>2. todo[1].noId \in Adapters!ErrorKinds
    BY <2>1, CallOfPlan
  <2> QED
    BY <1>7, <2>1, <2>2
<1> QED
  BY <1>8, <1>9, <1>10, <1>11, <1>12, <1>13, <1>14, <1>15, <1>16 DEF Adapters!CallsNext

\* What is to be sent, the calls still to be made, the worker's counts and what followers see keep
\* their types, and a call says that it changes something exactly if followers see it
\* (publishing-engine.ts; http.ts, mutating), for any platforms and bounds.
THEOREM CallsTyped ==
  ASSUME Adapters!CallsParameters
  PROVE  Adapters!CallsSpec => []Adapters!CallsTypeOK
<1>1. Adapters!CallsInit => CallsInv /\ Adapters!CallsTypeOK
  <2> SUFFICES ASSUME Adapters!CallsInit PROVE Adapters!CallsTypeOK
    BY CallsStart
  <2>1. item \in [provider : Providers, reply : BOOLEAN, nested : BOOLEAN, media : Adapters!MediaLists]
    BY DEF Adapters!CallsInit
  <2>2. item.media \in Seq({"image", "video"}) /\ Adapters!Count <= MaxMedia
    <3>1. PICK n \in 0 .. MaxMedia : item.media \in [1 .. n -> {"image", "video"}]
      BY <2>1 DEF Adapters!MediaLists
    <3>2. n \in Nat /\ n <= MaxMedia
      BY DEF Adapters!CallsParameters
    <3> QED
      BY <3>1, <3>2 DEF Adapters!Count
  <2>3. 1 \in 1 .. CallAttempts /\ 0 \in 0 .. CallChecks
    BY PartsParameters DEF Adapters!CallsParameters
  <2>4. \A i \in DOMAIN <<>> : FALSE
    OBVIOUS
  <2> QED
    BY <2>1, <2>2, <2>3, <2>4 DEF Adapters!CallsInit, Adapters!CallsTypeOK, Adapters!Phases, Adapters!Outcomes
<1>2. CallsInv /\ Adapters!CallsTypeOK /\ [Adapters!CallsNext]_(Adapters!cvars) => CallsInv' /\ Adapters!CallsTypeOK'
  <2>1. CASE Adapters!CallsNext
    BY <2>1, CallsStep, CallsTypesKept
  <2>2. CASE UNCHANGED Adapters!cvars
    BY <2>2 DEF Adapters!cvars, CallsInv, ItemKept, StopsEarly, Adapters!Videos, Adapters!Sending,
                Adapters!CallsTypeOK, Adapters!Count
  <2> QED
    BY <2>1, <2>2
<1> QED
  BY <1>1, <1>2, PTL DEF Adapters!CallsSpec

\* However many calls an adapter makes, whichever of them fails and however often the engine tries
\* again, followers see the item once at most, and never while it is called unsent
\* (publishing-engine.ts, never publish twice): ProviderCalls implements SendOnce, whatever the
\* platforms, the number of a post's images and videos, of attempts and of status checks.
THEOREM CallsKeepPromiseAlways ==
  ASSUME Adapters!CallsParameters
  PROVE  Adapters!CallsSpec => Adapters!CallsKeepPromise
<1> USE DEF Adapters!One
<1>1. Adapters!CallsInit => CallsInv /\ Adapters!Promise!Init
  <2> SUFFICES ASSUME Adapters!CallsInit PROVE CallsInv /\ Adapters!Promise!Init
    OBVIOUS
  <2>1. CallsInv
    BY CallsStart
  <2>2. Adapters!Promise!Init
    BY DEF Adapters!Promise!Init, Adapters!CallsInit
  <2> QED
    BY <2>1, <2>2
<1>2. CallsInv /\ [Adapters!CallsNext]_(Adapters!cvars) => CallsInv' /\ [Adapters!Promise!Next]_(Adapters!Promise!ovars)
  <2> SUFFICES ASSUME CallsInv, [Adapters!CallsNext]_(Adapters!cvars)
               PROVE  CallsInv' /\ [Adapters!Promise!Next]_(Adapters!Promise!ovars)
    OBVIOUS
  <2>1. CASE UNCHANGED Adapters!cvars
    <3>1. item' = item /\ phase' = phase /\ todo' = todo /\ visible' = visible
      BY <2>1 DEF Adapters!cvars
    <3>2. CallsInv'
      BY <3>1 DEF CallsInv, ItemKept, StopsEarly, Adapters!Videos, Adapters!Sending
    <3>3. UNCHANGED Adapters!Promise!ovars
      BY <3>1 DEF Adapters!Promise!ovars
    <3> QED
      BY <3>2, <3>3
  <2>2. CASE Adapters!CallsNext
    <3>1. /\ CallsInv'
          /\ visible' # visible =>
               visible = 0 /\ visible' = 1 /\ Adapters!Sending /\ phase' \in {"publish", "check", "unconfirmed"}
      BY <2>2, CallsStep
    <3>2. CASE visible' # visible
      <4>1. Adapters!Promise!Show("item")
        BY <3>1, <3>2 DEF Adapters!Promise!Show, Adapters!Sending
      <4> QED
        BY <3>1, <4>1 DEF Adapters!Promise!Next
    <3>3. CASE visible' = visible
      <4>1. PICK what \in {"unsent", "open", "sent"} :
              what = CASE phase' \in {"start", "polling", "failed"} -> "unsent" [] phase' = "published" -> "sent" [] OTHER -> "open"
        OBVIOUS
      <4>2. (what = "unsent" => visible = 0) /\ (what = "sent" => visible = 1)
        BY <3>1, <3>3, <4>1 DEF CallsInv
      <4>3. Adapters!Promise!Tell("item", what)
        BY <3>3, <4>1, <4>2 DEF Adapters!Promise!Tell
      <4> QED
        BY <3>1, <4>3 DEF Adapters!Promise!Next
    <3> QED
      BY <3>2, <3>3
  <2> QED
    BY <2>1, <2>2
<1> QED
  BY <1>1, <1>2, PTL DEF Adapters!CallsSpec, Adapters!CallsKeepPromise, Adapters!Promise!Spec

-----------------------------------------------------------------------------
(* The members of an organization *)

RoleOrNone == Organization!Roles \cup {"none"}
RequestsOfMembers ==
  [pc : {"idle", "read", "count", "write", "replace", "insert", "admit"},
   kind : {"none", "change", "remove", "invite", "accept"}, actor : Users, as : RoleOrNone,
   user : Users, role : RoleOrNone, inv : SUBSET Invitations]
InvitationRows ==
  [for : Users, role : RoleOrNone, accepted : BOOLEAN, revoked : BOOLEAN, expired : BOOLEAN]
MembersTyped ==
  /\ oDeleted \in BOOLEAN /\ role \in [Users -> RoleOrNone]
  /\ invitation \in [Invitations -> InvitationRows]
  /\ oRequest \in [MemberRequests -> RequestsOfMembers]
  /\ oLeft \in 0..MaxRequests /\ oRaced \in BOOLEAN
  /\ admits \in [Invitations -> Nat] /\ together \subseteq Invitations

OtherOwner(u) == \E v \in Users \ {u} : role[v] = "owner"
\* While nothing was written between a request's reads and its write, what it read is so: its
\* target is a member, an owner where the owners are counted, and not the last one where the
\* write takes an owner's role.
WritesAsRead ==
  ~ oRaced => \A c \in MemberRequests :
    LET r == oRequest[c]
    IN /\ Organization!At(c, "count") \/ Organization!At(c, "write") => role[r.user] # "none"
       /\ Organization!At(c, "count") => role[r.user] = "owner"
       /\ Organization!At(c, "write") =>
            role[r.user] # "owner" \/ (r.kind = "change" /\ r.role = "owner") \/ OtherOwner(r.user)
KeepsOwner == Organization!Owners = {} => oRaced

\* An invitation that nobody got admits nobody, nor does one that is open; who accepts one alone
\* finds that it has admitted nobody.
InvitesRoles ==
  \A c \in MemberRequests : oRequest[c].pc \in {"read", "replace", "insert"} => oRequest[c].role # "none"
UnusedAreNew == \A i \in Invitations : ~ Organization!Used(i) => invitation[i] = Organization!Unused
AdmitsAccept == \A i \in Invitations : admits[i] # 0 => invitation[i].accepted
AcceptsAlone ==
  \A c \in MemberRequests : \A i \in oRequest[c].inv :
    /\ Organization!Used(i)
    /\ i \notin together => admits[i] = 0 /\ \A d \in MemberRequests \ {c} : i \notin oRequest[d].inv
AdmitsOnce == \A i \in Invitations \ together : admits[i] <= 1

MembersInv ==
  /\ MembersTyped /\ WritesAsRead /\ KeepsOwner
  /\ InvitesRoles /\ UnusedAreNew /\ AdmitsAccept /\ AcceptsAlone /\ AdmitsOnce

LEMMA MemberMoves ==
  ASSUME MembersTyped, NEW c \in MemberRequests, NEW to, oRequest' = [oRequest EXCEPT ![c] = to]
  PROVE  /\ oRequest'[c] = to
         /\ \A d \in MemberRequests \ {c} : oRequest'[d] = oRequest[d]
BY DEF MembersTyped

LEMMA MemberGoes ==
  ASSUME MembersTyped, NEW c \in MemberRequests, NEW at, Organization!Goes(c, at)
  PROVE  /\ \A d \in MemberRequests \ {c} : oRequest'[d] = oRequest[d]
         /\ oRequest'[c].pc = at /\ oRequest'[c].user = oRequest[c].user
         /\ oRequest'[c].kind = oRequest[c].kind /\ oRequest'[c].role = oRequest[c].role
         /\ oRequest'[c].inv = oRequest[c].inv
BY DEF Organization!Goes, MembersTyped, RequestsOfMembers

LEMMA MemberEnds ==
  ASSUME MembersTyped, NEW c \in MemberRequests, Organization!Ends(c)
  PROVE  /\ \A d \in MemberRequests \ {c} : oRequest'[d] = oRequest[d]
         /\ oRequest'[c].pc = "idle" /\ oRequest'[c].inv = {}
<1>1. oRequest'[c] = Organization!Idle /\ \A d \in MemberRequests \ {c} : oRequest'[d] = oRequest[d]
  BY MemberMoves DEF Organization!Ends
<1> QED
  BY <1>1 DEF Organization!Idle

\* A request that begins: it has read nothing but the role of its caller, or an invitation.
LEMMA MemberBegins ==
  ASSUME MembersTyped, NEW c \in MemberRequests, Organization!Arrive(c) \/ Organization!AcceptRead(c)
  PROVE  /\ \A d \in MemberRequests \ {c} : oRequest'[d] = oRequest[d]
         /\ Organization!Arrive(c) =>
              oRequest'[c].pc = "read" /\ oRequest'[c].inv = {} /\ oRequest'[c].role # "none"
         /\ Organization!AcceptRead(c) =>
              \E i \in Invitations :
                /\ Organization!Open(i) /\ ~ invitation[i].expired
                /\ oRequest'[c].inv = {i} /\ oRequest'[c].pc = "admit"
                /\ together' = together \cup ({i} \cap Organization!Accepting)
<1>1. ASSUME Organization!Arrive(c)
      PROVE  /\ \A d \in MemberRequests \ {c} : oRequest'[d] = oRequest[d]
             /\ oRequest'[c].pc = "read" /\ oRequest'[c].inv = {} /\ oRequest'[c].role # "none"
  <2>1. PICK what \in {"change", "remove", "invite"}, actor \in Users, user \in Users, new \in Organization!Roles :
          oRequest' = [oRequest EXCEPT ![c] =
            [Organization!Idle EXCEPT !.pc = "read", !.kind = what, !.actor = actor, !.as = role[actor],
                                 !.user = user, !.role = new]]
    BY <1>1 DEF Organization!Arrive
  <2> DEFINE to == [Organization!Idle EXCEPT !.pc = "read", !.kind = what, !.actor = actor, !.as = role[actor],
                                        !.user = user, !.role = new]
  <2>2. to.pc = "read" /\ to.inv = {} /\ to.role # "none"
    BY DEF Organization!Idle, Organization!Roles
  <2>3. oRequest' = [oRequest EXCEPT ![c] = to]
    BY <2>1
  <2> HIDE DEF to
  <2>4. oRequest'[c] = to /\ \A d \in MemberRequests \ {c} : oRequest'[d] = oRequest[d]
    BY <2>3, MemberMoves
  <2> QED
    BY <2>2, <2>4
<1>2. ASSUME Organization!AcceptRead(c)
      PROVE  /\ \A d \in MemberRequests \ {c} : oRequest'[d] = oRequest[d]
             /\ \E i \in Invitations :
                  /\ Organization!Open(i) /\ ~ invitation[i].expired
                  /\ oRequest'[c].inv = {i} /\ oRequest'[c].pc = "admit"
                  /\ together' = together \cup ({i} \cap Organization!Accepting)
  <2>1. PICK i \in Invitations :
          /\ Organization!Open(i) /\ ~ invitation[i].expired
          /\ oRequest' = [oRequest EXCEPT ![c] =
               [Organization!Idle EXCEPT !.pc = "admit", !.kind = "accept", !.user = invitation[i].for, !.inv = {i}]]
          /\ together' = together \cup ({i} \cap Organization!Accepting)
    BY <1>2 DEF Organization!AcceptRead
  <2> DEFINE to == [Organization!Idle EXCEPT !.pc = "admit", !.kind = "accept", !.user = invitation[i].for,
                                        !.inv = {i}]
  <2>2. to.pc = "admit" /\ to.inv = {i}
    BY DEF Organization!Idle
  <2>3. oRequest' = [oRequest EXCEPT ![c] = to]
    BY <2>1
  <2> HIDE DEF to
  <2>4. oRequest'[c] = to /\ \A d \in MemberRequests \ {c} : oRequest'[d] = oRequest[d]
    BY <2>3, MemberMoves
  <2> QED
    BY <2>1, <2>2, <2>4
<1> QED
  BY <1>1, <1>2

LEMMA MemberIdles ==
  ASSUME Organization!OrganizationsParameters
  PROVE  Organization!Idle \in RequestsOfMembers
BY DEF Organization!OrganizationsParameters, Organization!Idle, RequestsOfMembers, RoleOrNone

LEMMA RowsRevoked ==
  ASSUME MembersTyped, NEW ids
  PROVE  Organization!Revoked(ids) \in [Invitations -> InvitationRows]
BY DEF MembersTyped, Organization!Revoked, InvitationRows

LEMMA RequestsMemberTyped ==
  ASSUME Organization!OrganizationsParameters, MembersTyped, [Organization!OrganizationsNext]_Organization!ovars
  PROVE  oRequest' \in [MemberRequests -> RequestsOfMembers]
<1>1. ASSUME NEW c \in MemberRequests, NEW to \in RequestsOfMembers, oRequest' = [oRequest EXCEPT ![c] = to]
      PROVE  oRequest' \in [MemberRequests -> RequestsOfMembers]
  BY <1>1 DEF MembersTyped
<1>2. CASE UNCHANGED oRequest
  BY <1>2 DEF MembersTyped
<1>3. ASSUME NEW c \in MemberRequests, Organization!Arrive(c)
      PROVE  oRequest' \in [MemberRequests -> RequestsOfMembers]
  <2>1. PICK what \in {"change", "remove", "invite"}, actor \in Users, user \in Users, new \in Organization!Roles :
          oRequest' = [oRequest EXCEPT ![c] =
            [Organization!Idle EXCEPT !.pc = "read", !.kind = what, !.actor = actor, !.as = role[actor],
                                 !.user = user, !.role = new]]
    BY <1>3 DEF Organization!Arrive
  <2>2. role[actor] \in RoleOrNone
    BY DEF MembersTyped
  <2>3. [Organization!Idle EXCEPT !.pc = "read", !.kind = what, !.actor = actor, !.as = role[actor],
                             !.user = user, !.role = new] \in RequestsOfMembers
    BY <2>2, MemberIdles DEF RequestsOfMembers, RoleOrNone
  <2> QED
    BY <1>1, <2>1, <2>3
<1>4. ASSUME NEW c \in MemberRequests, Organization!AcceptRead(c)
      PROVE  oRequest' \in [MemberRequests -> RequestsOfMembers]
  <2>1. PICK i \in Invitations :
          oRequest' = [oRequest EXCEPT ![c] =
            [Organization!Idle EXCEPT !.pc = "admit", !.kind = "accept", !.user = invitation[i].for, !.inv = {i}]]
    BY <1>4 DEF Organization!AcceptRead
  <2>2. invitation[i].for \in Users
    BY DEF MembersTyped, InvitationRows
  <2>3. [Organization!Idle EXCEPT !.pc = "admit", !.kind = "accept", !.user = invitation[i].for, !.inv = {i}]
          \in RequestsOfMembers
    BY <2>2, MemberIdles DEF RequestsOfMembers
  <2> QED
    BY <1>1, <2>1, <2>3
<1>5. ASSUME NEW c \in MemberRequests,
             \E at \in {"count", "write", "replace", "insert"} : Organization!Goes(c, at)
      PROVE  oRequest' \in [MemberRequests -> RequestsOfMembers]
  BY <1>5 DEF Organization!Goes, MembersTyped, RequestsOfMembers
<1>6. ASSUME NEW c \in MemberRequests, Organization!Ends(c)
      PROVE  oRequest' \in [MemberRequests -> RequestsOfMembers]
  BY <1>1, <1>6, MemberIdles DEF Organization!Ends
<1>7. CASE Organization!RemoveOrganization \/ Organization!RevokeInvitation \/ Organization!Expire
           \/ UNCHANGED Organization!ovars
  BY <1>2, <1>7 DEF Organization!RemoveOrganization, Organization!RevokeInvitation, Organization!Expire, Organization!ovars
<1>8. ASSUME NEW c \in MemberRequests,
             \/ Organization!ReadTarget(c) \/ Organization!AssertNotLastOwner(c) \/ Organization!WriteMember(c)
             \/ Organization!InviteRead(c) \/ Organization!InviteReplace(c) \/ Organization!InviteInsert(c)
             \/ Organization!AcceptCommit(c)
      PROVE  Organization!Ends(c) \/ \E at \in {"count", "write", "replace", "insert"} : Organization!Goes(c, at)
  BY <1>8 DEF Organization!ReadTarget, Organization!AssertNotLastOwner, Organization!WriteMember, Organization!InviteRead,
     Organization!InviteReplace, Organization!InviteInsert, Organization!AcceptCommit
<1> QED
  BY <1>3, <1>4, <1>5, <1>6, <1>7, <1>8 DEF Organization!OrganizationsNext

\* The rows: roles and invitations.
LEMMA RowsMemberTyped ==
  ASSUME Organization!OrganizationsParameters, MembersTyped, [Organization!OrganizationsNext]_Organization!ovars
  PROVE  /\ role' \in [Users -> RoleOrNone]
         /\ invitation' \in [Invitations -> InvitationRows]
         /\ admits' \in [Invitations -> Nat]
<1>1. CASE UNCHANGED <<role, invitation, admits>>
  BY <1>1 DEF MembersTyped
<1>2. CASE Organization!RevokeInvitation \/ \E c \in MemberRequests : Organization!InviteReplace(c)
  BY <1>2, RowsRevoked DEF Organization!RevokeInvitation, Organization!InviteReplace, MembersTyped
<1>3. CASE Organization!Expire
  BY <1>3 DEF Organization!Expire, MembersTyped, InvitationRows
<1>4. ASSUME NEW c \in MemberRequests, Organization!WriteMember(c)
      PROVE  /\ role' \in [Users -> RoleOrNone]
             /\ UNCHANGED <<invitation, admits>>
  <2>1. oRequest[c].role \in RoleOrNone /\ "none" \in RoleOrNone
    BY DEF MembersTyped, RequestsOfMembers, RoleOrNone
  <2> QED
    BY <1>4, <2>1 DEF Organization!WriteMember, MembersTyped
<1>5. ASSUME NEW c \in MemberRequests, Organization!InviteInsert(c)
      PROVE  /\ UNCHANGED <<role, admits>>
             /\ invitation' \in [Invitations -> InvitationRows]
  <2>1. oRequest[c].role \in RoleOrNone /\ oRequest[c].user \in Users
    BY DEF MembersTyped, RequestsOfMembers
  <2>2. [Organization!Unused EXCEPT !.for = oRequest[c].user, !.role = oRequest[c].role] \in InvitationRows
    BY <2>1 DEF Organization!Unused, InvitationRows
  <2> QED
    BY <1>5, <2>2 DEF Organization!InviteInsert, MembersTyped
<1>6. ASSUME NEW c \in MemberRequests, Organization!AcceptCommit(c)
      PROVE  /\ role' \in [Users -> RoleOrNone]
             /\ invitation' \in [Invitations -> InvitationRows]
             /\ admits' \in [Invitations -> Nat]
  <2>1. PICK i \in oRequest[c].inv :
          /\ invitation' = [invitation EXCEPT ![i].accepted = TRUE]
          /\ IF role[oRequest[c].user] # "none" THEN UNCHANGED <<role, admits>>
             ELSE /\ role' = [role EXCEPT ![oRequest[c].user] = invitation[i].role]
                  /\ admits' = [admits EXCEPT ![i] = @ + 1]
    BY <1>6 DEF Organization!AcceptCommit
  <2>2. i \in Invitations
    BY <2>1 DEF MembersTyped, RequestsOfMembers
  <2>3. invitation[i].role \in RoleOrNone
    BY <2>2 DEF MembersTyped, InvitationRows
  <2>4. invitation' \in [Invitations -> InvitationRows]
    <3>1. [invitation[i] EXCEPT !.accepted = TRUE] \in InvitationRows
      BY <2>2 DEF MembersTyped, InvitationRows
    <3> QED
      BY <2>1, <2>2, <3>1 DEF MembersTyped
  <2>5. role' \in [Users -> RoleOrNone]
    BY <2>1, <2>3 DEF MembersTyped
  <2>6. admits' \in [Invitations -> Nat]
    BY <2>1, <2>2 DEF MembersTyped
  <2> QED
    BY <2>4, <2>5, <2>6
<1>7. ASSUME NEW c \in MemberRequests,
             \/ Organization!Arrive(c) \/ Organization!ReadTarget(c) \/ Organization!AssertNotLastOwner(c)
             \/ Organization!InviteRead(c) \/ Organization!AcceptRead(c)
      PROVE  UNCHANGED <<role, invitation, admits>>
  BY <1>7 DEF Organization!Arrive, Organization!ReadTarget, Organization!AssertNotLastOwner, Organization!InviteRead,
     Organization!AcceptRead
<1>8. CASE Organization!RemoveOrganization \/ UNCHANGED Organization!ovars
  BY <1>1, <1>8 DEF Organization!RemoveOrganization, Organization!ovars
<1> QED
  BY <1>1, <1>2, <1>3, <1>4, <1>5, <1>6, <1>7, <1>8 DEF Organization!OrganizationsNext, MembersTyped

LEMMA MembersTypedStep ==
  ASSUME Organization!OrganizationsParameters, MembersTyped, [Organization!OrganizationsNext]_Organization!ovars
  PROVE  MembersTyped'
<1> USE DEF Organization!RemoveOrganization, Organization!RevokeInvitation, Organization!Expire, Organization!Arrive,
    Organization!ReadTarget, Organization!AssertNotLastOwner, Organization!WriteMember, Organization!InviteRead,
    Organization!InviteReplace, Organization!InviteInsert, Organization!AcceptRead, Organization!AcceptCommit,
    Organization!ovars, Organization!OrganizationsNext
<1>1. (oLeft \in 0..MaxRequests)'
  <2>1. oLeft' = oLeft \/ (oLeft > 0 /\ oLeft' = oLeft - 1)
    OBVIOUS
  <2>2. oLeft \in 0..MaxRequests /\ MaxRequests \in Nat
    BY DEF Organization!OrganizationsParameters, MembersTyped
  <2> QED
    BY <2>1, <2>2, OneLeft
<1>2. (oDeleted \in BOOLEAN /\ oRaced \in BOOLEAN)'
  BY DEF MembersTyped
<1>3. (together \subseteq Invitations)'
  BY DEF MembersTyped
<1> QED
  BY <1>1, <1>2, <1>3, RequestsMemberTyped, RowsMemberTyped, Zenon DEF MembersTyped

\* The instance's own counting is that of the library.
LEMMA MembersCounting ==
  ASSUME NEW S
  PROVE  Organization!IsFiniteSet(S) = IsFiniteSet(S) /\ Organization!Cardinality(S) = Cardinality(S)
BY DEF Organization!IsFiniteSet, IsFiniteSet, Organization!Cardinality, Cardinality

LEMMA SecondOwner ==
  ASSUME Organization!OrganizationsParameters, NEW u \in Organization!Owners,
         ~ Organization!Cardinality(Organization!Owners) <= 1
  PROVE  OtherOwner(u)
<1>1. IsFiniteSet(Users)
  BY MembersCounting DEF Organization!OrganizationsParameters
<1>2. IsFiniteSet({u}) /\ Cardinality({u}) = 1
  BY FS_Singleton
<1>3. CASE Organization!Owners = {u}
  BY <1>2, <1>3, MembersCounting
<1>4. CASE Organization!Owners # {u}
  BY <1>4 DEF Organization!Owners, OtherOwner
<1> QED
  BY <1>3, <1>4

\* An organization keeps an owner.
LEMMA OwnerStep ==
  ASSUME Organization!OrganizationsParameters, MembersTyped, WritesAsRead, KeepsOwner,
         [Organization!OrganizationsNext]_Organization!ovars
  PROVE  WritesAsRead' /\ KeepsOwner'
<1>1. ASSUME UNCHANGED <<role, oRaced>>, NEW c \in MemberRequests,
             \A d \in MemberRequests \ {c} : oRequest'[d] = oRequest[d],
             oRequest'[c].pc \notin {"count", "write"}
      PROVE  WritesAsRead' /\ KeepsOwner'
  <2>1. WritesAsRead'
    BY <1>1 DEF WritesAsRead, OtherOwner, Organization!At
  <2> QED
    BY <1>1, <2>1 DEF KeepsOwner, Organization!Owners
<1>2. CASE Organization!RemoveOrganization \/ Organization!RevokeInvitation \/ Organization!Expire
           \/ UNCHANGED Organization!ovars
  <2>1. UNCHANGED <<role, oRaced, oRequest>>
    BY <1>2 DEF Organization!RemoveOrganization, Organization!RevokeInvitation, Organization!Expire, Organization!ovars
  <2> QED
    BY <2>1 DEF WritesAsRead, OtherOwner, Organization!At, KeepsOwner, Organization!Owners
<1>3. ASSUME NEW c \in MemberRequests,
             \/ Organization!Arrive(c) \/ Organization!InviteRead(c) \/ Organization!InviteReplace(c)
             \/ Organization!InviteInsert(c) \/ Organization!AcceptRead(c)
      PROVE  WritesAsRead' /\ KeepsOwner'
  <2>1. UNCHANGED <<role, oRaced>>
    BY <1>3 DEF Organization!Arrive, Organization!InviteRead, Organization!InviteReplace, Organization!InviteInsert,
       Organization!AcceptRead
  <2>2. /\ \A d \in MemberRequests \ {c} : oRequest'[d] = oRequest[d]
        /\ oRequest'[c].pc \notin {"count", "write"}
    <3>1. CASE Organization!Arrive(c) \/ Organization!AcceptRead(c)
      BY <3>1, MemberBegins
    <3>2. CASE Organization!InviteRead(c) \/ Organization!InviteReplace(c) \/ Organization!InviteInsert(c)
      <4>1. Organization!Ends(c) \/ \E at \in {"replace", "insert"} : Organization!Goes(c, at)
        BY <3>2 DEF Organization!InviteRead, Organization!InviteReplace, Organization!InviteInsert
      <4> QED
        BY <4>1, MemberGoes, MemberEnds
    <3> QED
      BY <1>3, <3>1, <3>2
  <2> QED
    BY <1>1, <2>1, <2>2
<1>4. ASSUME NEW c \in MemberRequests, Organization!Ends(c), UNCHANGED <<role, oRaced>>
      PROVE  WritesAsRead' /\ KeepsOwner'
  BY <1>1, <1>4, MemberEnds
<1>6. ASSUME NEW c \in MemberRequests, Organization!ReadTarget(c)
      PROVE  WritesAsRead' /\ KeepsOwner'
  <2> DEFINE r == oRequest[c]
  <2>1. UNCHANGED <<role, oRaced>>
    BY <1>6 DEF Organization!ReadTarget
  <2>2. CASE role[r.user] = "none" \/ Organization!Forbidden(r, role[r.user])
    BY <1>4, <1>6, <2>1, <2>2 DEF Organization!ReadTarget
  <2>3. CASE role[r.user] # "none" /\ Organization!Demotes(r, role[r.user]) /\ Organization!Goes(c, "count")
    <3>1. role[r.user] = "owner"
      BY <2>3 DEF Organization!Demotes
    <3>2. /\ \A d \in MemberRequests \ {c} : oRequest'[d] = oRequest[d]
          /\ oRequest'[c].pc = "count" /\ oRequest'[c].user = r.user
      BY <2>3, MemberGoes
    <3> QED
      BY <2>1, <2>3, <3>1, <3>2 DEF WritesAsRead, OtherOwner, Organization!At, KeepsOwner, Organization!Owners
  <2>4. CASE role[r.user] # "none" /\ ~ Organization!Demotes(r, role[r.user]) /\ Organization!Goes(c, "write")
    <3>1. role[r.user] # "owner" \/ (r.kind = "change" /\ r.role = "owner")
      BY <2>4 DEF Organization!Demotes
    <3>2. /\ \A d \in MemberRequests \ {c} : oRequest'[d] = oRequest[d]
          /\ oRequest'[c].pc = "write" /\ oRequest'[c].user = r.user
          /\ oRequest'[c].kind = r.kind /\ oRequest'[c].role = r.role
      BY <2>4, MemberGoes
    <3> QED
      BY <2>1, <2>4, <3>1, <3>2 DEF WritesAsRead, OtherOwner, Organization!At, KeepsOwner, Organization!Owners
  <2> QED
    BY <1>6, <2>2, <2>3, <2>4 DEF Organization!ReadTarget
<1>7. ASSUME NEW c \in MemberRequests, Organization!AssertNotLastOwner(c)
      PROVE  WritesAsRead' /\ KeepsOwner'
  <2>1. UNCHANGED <<role, oRaced>> /\ Organization!At(c, "count")
    BY <1>7 DEF Organization!AssertNotLastOwner
  <2>2. CASE Organization!Ends(c)
    BY <1>4, <2>1, <2>2
  <2>3. CASE Organization!Goes(c, "write") /\ ~ Organization!Cardinality(Organization!Owners) <= 1
    <3>1. ~ oRaced => role[oRequest[c].user] # "none" /\ OtherOwner(oRequest[c].user)
      <4>1. oRequest[c].user \in Users
        BY DEF MembersTyped, RequestsOfMembers
      <4> QED
        BY <2>1, <2>3, <4>1, SecondOwner DEF WritesAsRead, Organization!Owners
    <3>2. /\ \A d \in MemberRequests \ {c} : oRequest'[d] = oRequest[d]
          /\ oRequest'[c].pc = "write" /\ oRequest'[c].user = oRequest[c].user
      BY <2>3, MemberGoes
    <3> QED
      BY <2>1, <2>3, <3>1, <3>2 DEF WritesAsRead, OtherOwner, Organization!At, KeepsOwner, Organization!Owners
  <2> QED
    BY <1>7, <2>2, <2>3 DEF Organization!AssertNotLastOwner
<1>8. ASSUME NEW c \in MemberRequests, Organization!WriteMember(c)
      PROVE  WritesAsRead' /\ KeepsOwner'
  <2> DEFINE r == oRequest[c]
  <2>1. /\ role' = [role EXCEPT ![r.user] = IF @ = "none" \/ r.kind = "remove" THEN "none" ELSE r.role]
        /\ oRaced' = (oRaced \/ \E d \in MemberRequests \ {c} : Organization!At(d, "count") \/ Organization!At(d, "write"))
        /\ Organization!At(c, "write")
    BY <1>8 DEF Organization!WriteMember
  <2>2. oRequest'[c] = Organization!Idle /\ \A d \in MemberRequests \ {c} : oRequest'[d] = oRequest[d]
    BY <1>8, MemberMoves DEF Organization!WriteMember, Organization!Ends
  <2>3. r.user \in Users
    BY DEF MembersTyped, RequestsOfMembers
  <2>4. CASE oRaced'
    BY <2>4 DEF WritesAsRead, KeepsOwner
  <2>5. CASE ~ oRaced'
    <3>1. ~ oRaced /\ \A d \in MemberRequests \ {c} : ~ Organization!At(d, "count") /\ ~ Organization!At(d, "write")
      BY <2>1, <2>5
    <3>2. WritesAsRead'
      BY <2>2, <3>1 DEF WritesAsRead, Organization!At, Organization!Idle
    <3>3. PICK u \in Users : role[u] = "owner"
      BY <3>1 DEF KeepsOwner, Organization!Owners
    <3>4. \A v \in Users \ {r.user} : role'[v] = role[v]
      BY <2>1 DEF MembersTyped
    <3>5. role'[r.user] = IF role[r.user] = "none" \/ r.kind = "remove" THEN "none" ELSE r.role
      BY <2>1, <2>3 DEF MembersTyped
    <3>6. /\ role[r.user] # "none"
          /\ role[r.user] # "owner" \/ (r.kind = "change" /\ r.role = "owner") \/ OtherOwner(r.user)
      BY <2>1, <3>1 DEF WritesAsRead
    <3>7. \E v \in Users : role'[v] = "owner"
      BY <2>3, <3>3, <3>4, <3>5, <3>6 DEF OtherOwner
    <3> QED
      BY <3>2, <3>7 DEF KeepsOwner, Organization!Owners
  <2> QED
    BY <2>4, <2>5
<1>9. ASSUME NEW c \in MemberRequests, Organization!AcceptCommit(c)
      PROVE  WritesAsRead' /\ KeepsOwner'
  <2>1. oRequest'[c] = Organization!Idle /\ \A d \in MemberRequests \ {c} : oRequest'[d] = oRequest[d]
    BY <1>9, MemberMoves DEF Organization!AcceptCommit, Organization!Ends
  <2>2. oRaced' = oRaced
    BY <1>9 DEF Organization!AcceptCommit
  <2>3. \A v \in Users : role[v] # "none" => role'[v] = role[v]
    BY <1>9 DEF Organization!AcceptCommit, MembersTyped
  <2>4. \A d \in MemberRequests : oRequest[d].user \in Users
    BY DEF MembersTyped, RequestsOfMembers
  <2>5. \A v \in Users : role[v] = "owner" => role'[v] = "owner"
    BY <2>3
  <2>6. WritesAsRead'
    BY <2>1, <2>2, <2>3, <2>4, <2>5 DEF WritesAsRead, OtherOwner, Organization!At, Organization!Idle
  <2>7. KeepsOwner'
    BY <2>2, <2>5 DEF KeepsOwner, Organization!Owners
  <2> QED
    BY <2>6, <2>7
<1> QED
  BY <1>2, <1>3, <1>6, <1>7, <1>8, <1>9 DEF Organization!OrganizationsNext

InvitationsInv == InvitesRoles /\ UnusedAreNew /\ AdmitsAccept /\ AcceptsAlone /\ AdmitsOnce

LEMMA Accepted ==
  ASSUME NEW i
  PROVE  i \in Organization!Accepting <=> \E d \in MemberRequests : i \in oRequest[d].inv
BY DEF Organization!Accepting

\* A row that exists is only ever marked.
LEMMA RowsMarked ==
  ASSUME MembersTyped, NEW ids, NEW i \in Invitations
  PROVE  /\ Organization!Revoked(ids)[i].role = invitation[i].role
         /\ Organization!Revoked(ids)[i].accepted = invitation[i].accepted
         /\ i \notin ids => Organization!Revoked(ids)[i] = invitation[i]
BY DEF MembersTyped, Organization!Revoked, InvitationRows

\* Rows are marked as accepted in AcceptCommit alone, with what they have admitted.
LEMMA InvitationStep ==
  ASSUME Organization!OrganizationsParameters, MembersTyped, InvitationsInv,
         [Organization!OrganizationsNext]_Organization!ovars
  PROVE  InvitationsInv'
<1>1. ASSUME NEW ids \in SUBSET Invitations, \A i \in ids : Organization!Used(i),
             invitation' = Organization!Revoked(ids), UNCHANGED admits
      PROVE  UnusedAreNew' /\ AdmitsAccept' /\ \A i \in Invitations : Organization!Used(i) => Organization!Used(i)'
  BY <1>1, RowsMarked DEF InvitationsInv, UnusedAreNew, AdmitsAccept, Organization!Used, Organization!Unused
<1>2. ASSUME UNCHANGED <<invitation, admits, together>>, NEW c \in MemberRequests,
             \A d \in MemberRequests \ {c} : oRequest'[d] = oRequest[d],
             \/ oRequest'[c].pc \notin {"read", "replace", "insert"}
             \/ oRequest'[c].role # "none",
             oRequest'[c].inv \subseteq oRequest[c].inv
      PROVE  InvitationsInv'
  <2>1. InvitesRoles'
    BY <1>2 DEF InvitationsInv, InvitesRoles
  <2>2. AcceptsAlone'
    BY <1>2 DEF InvitationsInv, AcceptsAlone, Organization!Used
  <2>3. (UnusedAreNew /\ AdmitsAccept /\ AdmitsOnce)'
    BY <1>2 DEF InvitationsInv, UnusedAreNew, AdmitsAccept, AdmitsOnce, Organization!Used, Organization!Unused
  <2> QED
    BY <2>1, <2>2, <2>3 DEF InvitationsInv
<1>3. CASE Organization!RemoveOrganization \/ UNCHANGED Organization!ovars
  <2>1. UNCHANGED <<oRequest, invitation, admits, together>>
    BY <1>3 DEF Organization!RemoveOrganization, Organization!ovars
  <2> QED
    BY <2>1 DEF InvitationsInv, InvitesRoles, UnusedAreNew, AdmitsAccept, AcceptsAlone, AdmitsOnce,
       Organization!Used, Organization!Unused
<1>4. CASE Organization!RevokeInvitation
  <2>1. PICK i \in Invitations : /\ Organization!Used(i) /\ invitation' = Organization!Revoked({i})
                                 /\ together' = together \cup ({i} \cap Organization!Accepting)
    BY <1>4 DEF Organization!RevokeInvitation
  <2>2. UNCHANGED <<oRequest, admits>>
    BY <1>4 DEF Organization!RevokeInvitation
  <2>3. UnusedAreNew' /\ AdmitsAccept' /\ \A j \in Invitations : Organization!Used(j) => Organization!Used(j)'
    BY <1>1, <2>1, <2>2
  <2>4. together \subseteq together'
    BY <2>1
  <2>5. InvitesRoles' /\ AdmitsOnce'
    BY <2>2, <2>4 DEF InvitationsInv, InvitesRoles, AdmitsOnce
  <2>6. AcceptsAlone'
    <3>1. \A d \in MemberRequests : oRequest[d].inv \subseteq Invitations
      BY DEF MembersTyped, RequestsOfMembers
    <3> QED
      BY <2>2, <2>3, <2>4, <3>1 DEF InvitationsInv, AcceptsAlone
  <2> QED
    BY <2>3, <2>5, <2>6 DEF InvitationsInv
<1>5. CASE Organization!Expire
  <2>1. PICK i \in Invitations : Organization!Open(i) /\ invitation' = [invitation EXCEPT ![i].expired = TRUE]
    BY <1>5 DEF Organization!Expire
  <2>2. UNCHANGED <<oRequest, admits, together>>
    BY <1>5 DEF Organization!Expire
  <2>3. \A j \in Invitations : /\ j # i => invitation'[j] = invitation[j]
                               /\ invitation'[j].role = invitation[j].role
                               /\ invitation'[j].accepted = invitation[j].accepted
    BY <2>1 DEF MembersTyped, InvitationRows
  <2>4. Organization!Used(i)
    BY <2>1 DEF Organization!Open
  <2>5. (UnusedAreNew /\ AdmitsAccept)'
    BY <2>2, <2>3, <2>4 DEF InvitationsInv, UnusedAreNew, AdmitsAccept, Organization!Used, Organization!Unused
  <2>6. \A j \in Invitations : Organization!Used(j)' = Organization!Used(j)
    BY <2>3 DEF Organization!Used
  <2>7. \A d \in MemberRequests : oRequest[d].inv \subseteq Invitations
    BY DEF MembersTyped, RequestsOfMembers
  <2>8. (InvitesRoles /\ AcceptsAlone /\ AdmitsOnce)'
    BY <2>2, <2>6, <2>7 DEF InvitationsInv, InvitesRoles, AcceptsAlone, AdmitsOnce
  <2> QED
    BY <2>5, <2>8 DEF InvitationsInv
<1>6. ASSUME NEW c \in MemberRequests, Organization!Arrive(c)
      PROVE  InvitationsInv'
  <2>1. UNCHANGED <<invitation, admits, together>>
    BY <1>6 DEF Organization!Arrive
  <2>2. /\ \A d \in MemberRequests \ {c} : oRequest'[d] = oRequest[d]
        /\ oRequest'[c].role # "none" /\ oRequest'[c].inv = {}
    BY <1>6, MemberBegins
  <2> QED
    BY <1>2, <2>1, <2>2
<1>7. ASSUME NEW c \in MemberRequests,
             Organization!ReadTarget(c) \/ Organization!AssertNotLastOwner(c) \/ Organization!WriteMember(c)
      PROVE  InvitationsInv'
  <2>1. UNCHANGED <<invitation, admits, together>>
    BY <1>7 DEF Organization!ReadTarget, Organization!AssertNotLastOwner, Organization!WriteMember
  <2>2. Organization!Ends(c) \/ Organization!Goes(c, "count") \/ Organization!Goes(c, "write")
    BY <1>7 DEF Organization!ReadTarget, Organization!AssertNotLastOwner, Organization!WriteMember
  <2>3. /\ \A d \in MemberRequests \ {c} : oRequest'[d] = oRequest[d]
        /\ oRequest'[c].pc \notin {"read", "replace", "insert"}
        /\ oRequest'[c].inv \subseteq oRequest[c].inv
    BY <2>2, MemberGoes, MemberEnds
  <2> QED
    BY <1>2, <2>1, <2>3
<1>8. ASSUME NEW c \in MemberRequests, Organization!InviteRead(c)
      PROVE  InvitationsInv'
  <2>1. UNCHANGED <<invitation, admits, together>> /\ oRequest[c].pc = "read"
    BY <1>8 DEF Organization!InviteRead, Organization!At
  <2>2. Organization!Ends(c) \/ Organization!Goes(c, "replace")
    BY <1>8 DEF Organization!InviteRead
  <2>3. /\ \A d \in MemberRequests \ {c} : oRequest'[d] = oRequest[d]
        /\ oRequest'[c].pc = "idle" \/ oRequest'[c].role = oRequest[c].role
        /\ oRequest'[c].inv \subseteq oRequest[c].inv
    BY <2>2, MemberGoes, MemberEnds
  <2> QED
    BY <1>2, <2>1, <2>3 DEF InvitationsInv, InvitesRoles
<1>9. ASSUME NEW c \in MemberRequests, Organization!InviteReplace(c)
      PROVE  InvitationsInv'
  <2> DEFINE old == {i \in Invitations : Organization!Open(i) /\ invitation[i].for = oRequest[c].user}
  <2>1. /\ invitation' = Organization!Revoked(old) /\ UNCHANGED admits
        /\ together' = together \cup (old \cap Organization!Accepting)
        /\ Organization!Goes(c, "insert") /\ oRequest[c].pc = "replace"
    BY <1>9 DEF Organization!InviteReplace, Organization!At
  <2>2. old \subseteq Invitations /\ \A i \in old : Organization!Used(i)
    BY DEF Organization!Open
  <2> HIDE DEF old
  <2>3. UnusedAreNew' /\ AdmitsAccept' /\ \A i \in Invitations : Organization!Used(i) => Organization!Used(i)'
    BY <1>1, <2>1, <2>2
  <2>4. together \subseteq together'
    BY <2>1
  <2>5. /\ \A d \in MemberRequests \ {c} : oRequest'[d] = oRequest[d]
        /\ oRequest'[c].pc = "insert" /\ oRequest'[c].inv = oRequest[c].inv
        /\ oRequest'[c].role = oRequest[c].role
    BY <2>1, MemberGoes
  <2>6. InvitesRoles' /\ AdmitsOnce'
    BY <2>1, <2>4, <2>5 DEF InvitationsInv, InvitesRoles, AdmitsOnce
  <2>7. AcceptsAlone'
    <3>1. \A d \in MemberRequests : oRequest'[d].inv = oRequest[d].inv /\ oRequest[d].inv \subseteq Invitations
      BY <2>5 DEF MembersTyped, RequestsOfMembers
    <3>2. UNCHANGED admits
      BY <2>1
    <3> QED
      BY <2>3, <2>4, <3>1, <3>2 DEF InvitationsInv, AcceptsAlone
  <2> QED
    BY <2>3, <2>6, <2>7 DEF InvitationsInv
<1>10. ASSUME NEW c \in MemberRequests, Organization!InviteInsert(c)
       PROVE  InvitationsInv'
  <2>1. /\ UNCHANGED <<admits, together>> /\ Organization!Ends(c) /\ oRequest[c].pc = "insert"
    BY <1>10 DEF Organization!InviteInsert, Organization!At
  <2>2. /\ \A d \in MemberRequests \ {c} : oRequest'[d] = oRequest[d]
        /\ oRequest'[c].pc = "idle" /\ oRequest'[c].inv = {}
    BY <2>1, MemberEnds
  <2>3. CASE UNCHANGED invitation
    BY <1>2, <2>1, <2>2, <2>3
  <2>4. CASE ~ UNCHANGED invitation
    <3>1. PICK i \in Invitations :
            /\ ~ Organization!Used(i)
            /\ invitation' = [invitation EXCEPT ![i] =
                 [Organization!Unused EXCEPT !.for = oRequest[c].user, !.role = oRequest[c].role]]
      BY <1>10, <2>4 DEF Organization!InviteInsert
    <3>2. /\ \A j \in Invitations \ {i} : invitation'[j] = invitation[j]
          /\ invitation'[i].role = oRequest[c].role
      BY <3>1 DEF MembersTyped, Organization!Unused
    <3>3. oRequest[c].role # "none"
      BY <2>1 DEF InvitationsInv, InvitesRoles
    <3>4. admits[i] = 0
      BY <3>1 DEF InvitationsInv, UnusedAreNew, AdmitsAccept, Organization!Unused
    <3>5. Organization!Used(i)' /\ \A j \in Invitations : Organization!Used(j) => Organization!Used(j)'
      BY <3>1, <3>2, <3>3 DEF Organization!Used
    <3>6. UnusedAreNew' /\ AdmitsAccept'
      BY <2>1, <3>2, <3>4, <3>5 DEF InvitationsInv, UnusedAreNew, AdmitsAccept, Organization!Used, Organization!Unused
    <3>7. InvitesRoles' /\ AdmitsOnce'
      BY <2>1, <2>2 DEF InvitationsInv, InvitesRoles, AdmitsOnce
    <3>8. AcceptsAlone'
      <4>1. \A d \in MemberRequests : oRequest'[d].inv \subseteq oRequest[d].inv /\ oRequest[d].inv \subseteq Invitations
        BY <2>2 DEF MembersTyped, RequestsOfMembers
      <4> QED
        BY <2>1, <3>5, <4>1 DEF InvitationsInv, AcceptsAlone
    <3> QED
      BY <3>6, <3>7, <3>8 DEF InvitationsInv
  <2> QED
    BY <2>3, <2>4
<1>11. ASSUME NEW c \in MemberRequests, Organization!AcceptRead(c)
       PROVE  InvitationsInv'
  <2>1. PICK i \in Invitations :
          /\ Organization!Open(i) /\ oRequest'[c].inv = {i} /\ oRequest'[c].pc = "admit"
          /\ together' = together \cup ({i} \cap Organization!Accepting)
    BY <1>11, MemberBegins
  <2>2. UNCHANGED <<invitation, admits>> /\ \A d \in MemberRequests \ {c} : oRequest'[d] = oRequest[d]
    BY <1>11, MemberBegins DEF Organization!AcceptRead
  <2>3. Organization!Used(i) /\ admits[i] = 0
    BY <2>1 DEF Organization!Open, InvitationsInv, AdmitsAccept
  <2>4. i \notin together' => \A d \in MemberRequests : i \notin oRequest[d].inv
    BY <2>1, Accepted
  <2>5. (UnusedAreNew /\ AdmitsAccept)'
    BY <2>2 DEF InvitationsInv, UnusedAreNew, AdmitsAccept, Organization!Used, Organization!Unused
  <2>6. InvitesRoles' /\ AdmitsOnce'
    BY <2>1, <2>2 DEF InvitationsInv, InvitesRoles, AdmitsOnce
  <2>7. AcceptsAlone'
    <3>1. ASSUME NEW d \in MemberRequests, NEW j \in oRequest'[d].inv
          PROVE  /\ Organization!Used(j)'
                 /\ j \notin together' =>
                      admits'[j] = 0 /\ \A e \in MemberRequests \ {d} : j \notin oRequest'[e].inv
      <4>1. CASE d = c
        BY <2>1, <2>2, <2>3, <2>4, <4>1 DEF Organization!Used
      <4>2. CASE d # c
        <5>1. j \in oRequest[d].inv /\ (j \notin together' => j \notin together)
          BY <2>1, <2>2, <4>2
        <5>2. j \notin together' => j # i
          BY <2>4, <5>1
        <5> QED
          BY <2>1, <2>2, <5>1, <5>2 DEF InvitationsInv, AcceptsAlone, Organization!Used
      <4> QED
        BY <4>1, <4>2
    <3> QED
      BY <3>1 DEF AcceptsAlone
  <2> QED
    BY <2>5, <2>6, <2>7 DEF InvitationsInv
<1>12. ASSUME NEW c \in MemberRequests, Organization!AcceptCommit(c)
       PROVE  InvitationsInv'
  <2>1. PICK i \in oRequest[c].inv :
          /\ invitation' = [invitation EXCEPT ![i].accepted = TRUE]
          /\ \/ UNCHANGED admits
             \/ admits' = [admits EXCEPT ![i] = @ + 1]
    BY <1>12 DEF Organization!AcceptCommit
  <2>2. UNCHANGED together /\ Organization!Ends(c)
    BY <1>12 DEF Organization!AcceptCommit
  <2>3. /\ \A d \in MemberRequests \ {c} : oRequest'[d] = oRequest[d]
        /\ oRequest'[c].pc = "idle" /\ oRequest'[c].inv = {}
    BY <2>2, MemberEnds
  <2>4. i \in Invitations
    BY <2>1 DEF MembersTyped, RequestsOfMembers
  <2>5. /\ \A j \in Invitations \ {i} : invitation'[j] = invitation[j]
        /\ invitation'[i].accepted /\ invitation'[i].role = invitation[i].role
    BY <2>1, <2>4 DEF MembersTyped, InvitationRows
  <2>6. /\ \A j \in Invitations \ {i} : admits'[j] = admits[j]
        /\ admits'[i] = admits[i] \/ admits'[i] = admits[i] + 1
    BY <2>1, <2>4 DEF MembersTyped
  <2>7. Organization!Used(i) /\ (i \notin together => admits[i] = 0)
    BY <2>1 DEF InvitationsInv, AcceptsAlone
  <2>8. (UnusedAreNew /\ AdmitsAccept)'
    BY <2>4, <2>5, <2>6, <2>7 DEF InvitationsInv, UnusedAreNew, AdmitsAccept, Organization!Used, Organization!Unused
  <2>9. InvitesRoles'
    BY <2>3 DEF InvitationsInv, InvitesRoles
  <2>10. AdmitsOnce'
    BY <2>2, <2>4, <2>6, <2>7 DEF InvitationsInv, AdmitsOnce
  <2>11. AcceptsAlone'
    <3>1. ASSUME NEW d \in MemberRequests, NEW j \in oRequest'[d].inv
          PROVE  /\ Organization!Used(j)'
                 /\ j \notin together' =>
                      admits'[j] = 0 /\ \A e \in MemberRequests \ {d} : j \notin oRequest'[e].inv
      <4>1. d # c /\ j \in oRequest[d].inv /\ j \in Invitations
        BY <2>3 DEF MembersTyped, RequestsOfMembers
      <4>2. j \notin together => j # i
        BY <2>1, <4>1 DEF InvitationsInv, AcceptsAlone
      <4>3. Organization!Used(j)'
        BY <2>5, <2>7, <4>1 DEF InvitationsInv, AcceptsAlone, Organization!Used
      <4> QED
        BY <2>2, <2>3, <2>6, <4>1, <4>2, <4>3 DEF InvitationsInv, AcceptsAlone
    <3> QED
      BY <3>1 DEF AcceptsAlone
  <2> QED
    BY <2>8, <2>9, <2>10, <2>11 DEF InvitationsInv
<1> QED
  BY <1>3, <1>4, <1>5, <1>6, <1>7, <1>8, <1>9, <1>10, <1>11, <1>12 DEF Organization!OrganizationsNext

LEMMA MembersStart == ASSUME Organization!OrganizationsParameters, Organization!OrganizationsInit PROVE MembersInv
<1> USE DEF Organization!OrganizationsInit
<1>0. oLeft \in 0..MaxRequests
  BY DEF Organization!OrganizationsParameters
<1>1. /\ oDeleted \in BOOLEAN /\ oRaced \in BOOLEAN /\ together \subseteq Invitations
      /\ admits \in [Invitations -> Nat]
  OBVIOUS
<1>2. oRequest \in [MemberRequests -> RequestsOfMembers] /\ role \in [Users -> RoleOrNone]
  BY MemberIdles DEF RoleOrNone
<1>3. invitation \in [Invitations -> InvitationRows]
  BY DEF Organization!OrganizationsParameters, Organization!Unused, InvitationRows, RoleOrNone
<1>4. MembersTyped
  BY <1>0, <1>1, <1>2, <1>3 DEF MembersTyped
<1>5. KeepsOwner
  BY DEF Organization!OrganizationsParameters, KeepsOwner, Organization!Owners
<1>6. WritesAsRead /\ InvitesRoles /\ AcceptsAlone
  BY DEF WritesAsRead, InvitesRoles, AcceptsAlone, Organization!Idle, Organization!At
<1>7. UnusedAreNew /\ AdmitsAccept /\ AdmitsOnce
  BY DEF UnusedAreNew, AdmitsAccept, AdmitsOnce
<1> QED
  BY <1>4, <1>5, <1>6, <1>7 DEF MembersInv

\* The members, the invitations and the requests at them keep their types.
THEOREM OrganizationsTyped ==
  ASSUME Organization!OrganizationsParameters
  PROVE  Organization!OrganizationsSpec => []Organization!OrganizationsTypeOK
<1>1. Organization!OrganizationsInit => MembersTyped
  BY MembersStart DEF MembersInv
<1>2. MembersTyped /\ [Organization!OrganizationsNext]_Organization!ovars => MembersTyped'
  BY MembersTypedStep
<1>3. MembersTyped => Organization!OrganizationsTypeOK
  <2>1. ASSUME MembersTyped, NEW c \in MemberRequests
        PROVE  /\ oRequest[c].pc \in {"idle", "read", "count", "write", "replace", "insert", "admit"}
               /\ oRequest[c].kind \in {"none", "change", "remove", "invite", "accept"}
               /\ {oRequest[c].as, oRequest[c].role} \subseteq RoleOrNone
               /\ {oRequest[c].actor, oRequest[c].user} \subseteq Users
               /\ oRequest[c].inv \subseteq Invitations
    BY <2>1 DEF MembersTyped, RequestsOfMembers
  <2> QED
    BY <2>1 DEF MembersTyped, InvitationRows, RoleOrNone, Organization!OrganizationsTypeOK
<1> QED
  BY <1>1, <1>2, <1>3, PTL DEF Organization!OrganizationsSpec

\* An organization keeps an owner unless a member was changed between another request's reads and
\* its write; an invitation admits one member once, unless it was accepted twice at once or revoked
\* meanwhile (organizations.service.ts), for any users, invitations and requests.
THEOREM MembersKeptAlways ==
  ASSUME Organization!OrganizationsParameters
  PROVE  Organization!OrganizationsSpec => []Organization!MembersKept
<1>1. Organization!OrganizationsInit => MembersInv
  BY MembersStart
<1>2. MembersInv /\ [Organization!OrganizationsNext]_Organization!ovars => MembersInv'
  BY MembersTypedStep, OwnerStep, InvitationStep DEF MembersInv, InvitationsInv
<1>3. MembersInv => Organization!MembersKept
  <2>1. ASSUME MembersInv, NEW i \in Invitations \ together
        PROVE  admits[i] + (IF Organization!Open(i) THEN 1 ELSE 0) <= 1
    BY <2>1 DEF MembersInv, MembersTyped, AdmitsAccept, AdmitsOnce, Organization!Open
  <2> QED
    BY <2>1 DEF MembersInv, KeepsOwner, Organization!MembersKept
<1> QED
  BY <1>1, <1>2, <1>3, PTL DEF Organization!OrganizationsSpec

-----------------------------------------------------------------------------
(* A file of the media library *)

\* Before it is asked for there is nothing.
Untouched ==
  mStatus = "unused" => mObject = "none" /\ ~ mLink /\ ~ mUsed /\ \A c \in FileRequests : Library!At(c, "idle")
\* An object is removed once its row is.
RowGoesFirst == \A c \in FileRequests : Library!At(c, "object") => mStatus = "removed"
\* What a request has read of the storage is there still, or something was uploaded over it.
ReadIsThere ==
  \A c \in FileRequests :
    Library!At(c, "mark") /\ Library!HasRow =>
      mObject # "none" /\ (mReplaced \/ mRequest[c].stat = mObject)
\* Confirmations that overlap are counted as such.
OneConfirms ==
  \A c \in FileRequests : Library!Confirming(c) =>
    /\ mStatus = "ready" => mRaced
    /\ \A d \in FileRequests \ {c} : Library!Confirming(d) => mRaced
ReadyIsThere == mStatus = "ready" => mObject # "none" /\ (mReplaced \/ mObject = "right")
\* Posts refer to the file, or one is about to.
Wanted == mUsed \/ \E c \in FileRequests : Library!At(c, "attach")
WantedIsThere ==
  Wanted /\ Library!HasRow =>
    mObject # "none" /\ (mStatus = "ready" \/ mRaced) /\ (mStatus = "ready" \/ mReplaced)
UsedHasRow == mUsed => Library!HasRow
NothingStays ==
  mStatus = "removed" /\ mObject # "none" => mLeftover \/ \E c \in FileRequests : Library!At(c, "object")

FileInv ==
  /\ Library!MediaTypeOK
  /\ Untouched /\ RowGoesFirst /\ ReadIsThere /\ OneConfirms /\ ReadyIsThere /\ WantedIsThere
  /\ UsedHasRow /\ NothingStays

RequestsTyped ==
  mRequest \in [FileRequests -> [pc : {"idle", "stat", "mark", "attach", "row", "object"},
                            stat : {"none", "right", "wrong"}]]

LEMMA FileTyped ==
  ASSUME Library!MediaBounds, Library!MediaTypeOK, [Library!MediaNext]_Library!mvars
  PROVE  Library!MediaTypeOK'
<1> USE DEF Library!CreateUpload, Library!Put, Library!LinkExpires, Library!Detach, Library!CompleteRead,
    Library!CompleteStat, Library!CompleteMark, Library!AttachRead, Library!AttachWrite,
    Library!RemoveRead, Library!RemoveRow, Library!RemoveObject, Library!mvars, Library!Move,
    Library!MediaNext
<1>1. (mLeft \in 0..FileMoves)'
  BY DEF Library!MediaBounds, Library!MediaTypeOK
<1>2. RequestsTyped'
  <2>1. RequestsTyped /\ mObject \in {"none", "right", "wrong"}
    BY DEF RequestsTyped, Library!MediaTypeOK
  <2> QED
    BY <2>1 DEF RequestsTyped, Library!Goes, Library!Ends, Library!Idle
<1>3. (mStatus \in {"unused", "pending_upload", "ready", "failed", "removed"})'
  BY DEF Library!MediaTypeOK
<1>4. (mObject \in {"none", "right", "wrong"})'
  BY DEF Library!MediaTypeOK
<1>5. (mLink \in BOOLEAN /\ mUsed \in BOOLEAN /\ mLeftover \in BOOLEAN)'
  BY DEF Library!MediaTypeOK
<1>6. (mReplaced \in BOOLEAN /\ mRaced \in BOOLEAN)'
  BY DEF Library!MediaTypeOK
<1> QED
  BY <1>1, <1>2, <1>3, <1>4, <1>5, <1>6, Zenon DEF Library!MediaTypeOK, RequestsTyped

\* Where each request is after a step of request c.
LEMMA OneMoves ==
  ASSUME Library!MediaTypeOK, NEW c \in FileRequests, NEW to, mRequest' = [mRequest EXCEPT ![c] = to]
  PROVE  /\ mRequest'[c] = to
         /\ \A d \in FileRequests \ {c} : mRequest'[d] = mRequest[d]
BY DEF Library!MediaTypeOK

LEMMA FileStep ==
  ASSUME Library!MediaBounds, FileInv, [Library!MediaNext]_Library!mvars
  PROVE  FileInv'
<1>0. Library!MediaTypeOK /\ Library!MediaTypeOK'
  BY FileTyped DEF FileInv
<1> USE DEF FileInv, Untouched, RowGoesFirst, ReadIsThere, OneConfirms, ReadyIsThere, WantedIsThere,
    Wanted, UsedHasRow, NothingStays, Library!HasRow, Library!At, Library!Confirming
<1>1. CASE Library!CreateUpload \/ Library!LinkExpires \/ Library!Detach
  BY <1>0, <1>1 DEF Library!CreateUpload, Library!LinkExpires, Library!Detach
<1>2. CASE Library!Put
  BY <1>0, <1>2 DEF Library!Put
<1>3. ASSUME NEW c \in FileRequests, Library!CompleteRead(c)
      PROVE  FileInv'
  <2>1. CASE mStatus = "ready"
    BY <1>0, <1>3, <2>1 DEF Library!CompleteRead
  <2>2. CASE mStatus # "ready"
    <3>1. /\ mRequest'[c] = [pc |-> "stat", stat |-> "none"] /\ mRequest[c].pc = "idle"
          /\ \A d \in FileRequests \ {c} : mRequest'[d] = mRequest[d]
      BY <1>0, <1>3, <2>2, OneMoves DEF Library!CompleteRead, Library!Goes
    <3>2. OneConfirms'
      BY <1>0, <1>3, <2>2, <3>1 DEF Library!CompleteRead
    <3>3. (Untouched /\ RowGoesFirst /\ ReadIsThere /\ ReadyIsThere /\ UsedHasRow)'
      BY <1>0, <1>3, <2>2, <3>1 DEF Library!CompleteRead
    <3>4. Wanted' => Wanted
      BY <1>3, <3>1 DEF Library!CompleteRead
    <3>5. UNCHANGED <<mStatus, mObject, mLeftover, mReplaced>> /\ (mRaced => mRaced')
      BY <1>3 DEF Library!CompleteRead
    <3>6. WantedIsThere'
      BY <3>4, <3>5
    <3>7. NothingStays'
      BY <3>1, <3>5
    <3> QED
      BY <1>0, <3>2, <3>3, <3>6, <3>7
  <2> QED
    BY <2>1, <2>2
<1>4. ASSUME NEW c \in FileRequests, Library!CompleteStat(c)
      PROVE  FileInv'
  <2>1. /\ mRequest[c].pc = "stat" /\ \A d \in FileRequests \ {c} : mRequest'[d] = mRequest[d]
        /\ UNCHANGED <<mStatus, mObject, mLink, mUsed, mLeft, mReplaced, mRaced, mLeftover>>
    BY <1>0, <1>4, OneMoves DEF Library!CompleteStat, Library!Ends
  <2>2. \/ mObject # "none" /\ mRequest'[c].pc = "mark" /\ mRequest'[c].stat = mObject
        \/ mRequest'[c].pc = "idle"
    BY <1>0, <1>4, OneMoves DEF Library!CompleteStat, Library!Ends, Library!Idle
  <2>3. OneConfirms'
    BY <1>0, <2>1, <2>2
  <2>4. (Untouched /\ RowGoesFirst /\ ReadyIsThere /\ UsedHasRow /\ NothingStays)'
    BY <1>0, <2>1, <2>2
  <2>5. ReadIsThere'
    BY <1>0, <2>1, <2>2
  <2>6. Wanted' => Wanted
    BY <2>1, <2>2
  <2>7. WantedIsThere'
    BY <2>1, <2>6
  <2> QED
    BY <1>0, <2>3, <2>4, <2>5, <2>7
<1>5. ASSUME NEW c \in FileRequests, Library!CompleteMark(c)
      PROVE  FileInv'
  <2>1. /\ mRequest'[c] = Library!Idle /\ mRequest[c].pc = "mark"
        /\ \A d \in FileRequests \ {c} : mRequest'[d] = mRequest[d]
        /\ UNCHANGED <<mObject, mLink, mUsed, mLeft, mReplaced, mRaced, mLeftover>>
    BY <1>0, <1>5, OneMoves DEF Library!CompleteMark, Library!Ends
  <2>2. CASE ~ Library!HasRow
    <3>1. mStatus' = mStatus
      BY <1>5, <2>2 DEF Library!CompleteMark
    <3> QED
      BY <1>0, <2>1, <2>2, <3>1 DEF Library!Idle
  <2>3. CASE Library!HasRow
    <3>1. mStatus' = IF mRequest[c].stat = "right" THEN "ready" ELSE "failed"
      BY <1>5, <2>3 DEF Library!CompleteMark
    <3>2. (Untouched /\ RowGoesFirst /\ ReadIsThere /\ UsedHasRow)'
      BY <1>0, <2>1, <2>3, <3>1 DEF Library!Idle
    <3>3. OneConfirms'
      BY <1>0, <2>1, <2>3, <3>1 DEF Library!Idle
    <3>4. (ReadyIsThere /\ WantedIsThere)'
      BY <1>0, <2>1, <2>3, <3>1 DEF Library!Idle
    <3>5. NothingStays'
      BY <1>0, <2>1, <2>3, <3>1 DEF Library!Idle
    <3> QED
      BY <1>0, <3>2, <3>3, <3>4, <3>5
  <2> QED
    BY <2>2, <2>3
<1>6. ASSUME NEW c \in FileRequests, Library!AttachRead(c)
      PROVE  FileInv'
  BY <1>0, <1>6, OneMoves DEF Library!AttachRead, Library!Goes, Library!Ends, Library!Idle
<1>7. ASSUME NEW c \in FileRequests, Library!AttachWrite(c)
      PROVE  FileInv'
  <2>1. /\ mRequest'[c] = Library!Idle /\ mRequest[c].pc = "attach"
        /\ \A d \in FileRequests \ {c} : mRequest'[d] = mRequest[d]
        /\ UNCHANGED <<mStatus, mObject, mLink, mLeft, mReplaced, mRaced, mLeftover>>
        /\ mUsed' => mUsed \/ Library!HasRow
    BY <1>0, <1>7, OneMoves DEF Library!AttachWrite, Library!Ends
  <2>2. (Untouched /\ RowGoesFirst /\ ReadIsThere /\ ReadyIsThere /\ UsedHasRow)'
    BY <1>0, <2>1 DEF Library!Idle
  <2>3. OneConfirms'
    BY <1>0, <2>1 DEF Library!Idle
  <2>4. Wanted' /\ Library!HasRow => Wanted
    BY <2>1
  <2>5. (WantedIsThere /\ NothingStays)'
    BY <1>0, <2>1, <2>4 DEF Library!Idle
  <2> QED
    BY <1>0, <2>2, <2>3, <2>5
<1>8. ASSUME NEW c \in FileRequests, Library!RemoveRead(c)
      PROVE  FileInv'
  BY <1>0, <1>8, OneMoves DEF Library!RemoveRead, Library!Goes, Library!Ends, Library!Idle
<1>9. ASSUME NEW c \in FileRequests, Library!RemoveRow(c)
      PROVE  FileInv'
  <2>1. CASE mUsed
    <3>1. /\ mRequest'[c] = Library!Idle /\ mRequest[c].pc = "row"
          /\ \A d \in FileRequests \ {c} : mRequest'[d] = mRequest[d]
          /\ UNCHANGED <<mStatus, mObject, mLink, mUsed, mLeft, mReplaced, mRaced, mLeftover>>
      BY <1>0, <1>9, <2>1, OneMoves DEF Library!RemoveRow, Library!Ends
    <3> QED
      BY <1>0, <3>1 DEF Library!Idle
  <2>2. CASE ~ mUsed
    <3>1. /\ mRequest'[c] = [pc |-> "object", stat |-> "none"] /\ mRequest[c].pc = "row"
          /\ \A d \in FileRequests \ {c} : mRequest'[d] = mRequest[d]
          /\ UNCHANGED <<mObject, mLink, mUsed, mLeft, mReplaced, mRaced, mLeftover>>
          /\ mStatus' = IF Library!HasRow THEN "removed" ELSE mStatus
      BY <1>0, <1>9, <2>2, OneMoves DEF Library!RemoveRow, Library!Goes
    <3>2. mStatus' = "removed"
      BY <1>0, <3>1 DEF Library!MediaTypeOK
    <3> QED
      BY <1>0, <2>2, <3>1, <3>2
  <2> QED
    BY <2>1, <2>2
<1>10. ASSUME NEW c \in FileRequests, Library!RemoveObject(c)
       PROVE  FileInv'
  BY <1>0, <1>10, OneMoves DEF Library!RemoveObject, Library!Ends, Library!Idle
<1>11. CASE UNCHANGED Library!mvars
  BY <1>11, <1>0 DEF Library!mvars
<1> QED
  BY <1>1, <1>2, <1>3, <1>4, <1>5, <1>6, <1>7, <1>8, <1>9, <1>10, <1>11 DEF Library!MediaNext

LEMMA FileStart == ASSUME Library!MediaBounds, Library!MediaInit PROVE FileInv
<1>1. mLeft \in 0..FileMoves
  BY DEF Library!MediaBounds, Library!MediaInit
<1>2. RequestsTyped
  BY DEF Library!MediaInit, Library!Idle, RequestsTyped
<1>3. /\ mStatus \in {"unused", "pending_upload", "ready", "failed", "removed"}
      /\ mObject \in {"none", "right", "wrong"}
      /\ mLink \in BOOLEAN /\ mUsed \in BOOLEAN
      /\ mReplaced \in BOOLEAN /\ mRaced \in BOOLEAN /\ mLeftover \in BOOLEAN
  BY DEF Library!MediaInit
<1>4. Library!MediaTypeOK
  BY <1>1, <1>2, <1>3, Zenon DEF Library!MediaTypeOK, RequestsTyped
<1> QED
  BY <1>4 DEF Library!MediaInit, Library!Idle, FileInv, Untouched, RowGoesFirst, ReadIsThere, OneConfirms,
    ReadyIsThere, WantedIsThere, Wanted, UsedHasRow, NothingStays, Library!HasRow, Library!At,
    Library!Confirming

\* A file's row, its object and the requests at it keep their types.
THEOREM LibraryTyped ==
  ASSUME Library!MediaBounds
  PROVE  Library!MediaSpec => []Library!MediaTypeOK
<1>1. Library!MediaInit => FileInv
  BY FileStart
<1>2. FileInv /\ [Library!MediaNext]_Library!mvars => FileInv'
  BY FileStep
<1>3. FileInv => Library!MediaTypeOK
  BY DEF FileInv
<1> QED
  BY <1>1, <1>2, <1>3, PTL DEF Library!MediaSpec

\* A file that posts refer to, or that counts as ready, is in the storage as it was declared, and
\* a removed one is not, but for what is named (media.service.ts), for any number of requests.
THEOREM FilesKeptAlways ==
  ASSUME Library!MediaBounds
  PROVE  Library!MediaSpec => []Library!FilesKept
<1>1. Library!MediaInit => FileInv
  BY FileStart
<1>2. FileInv /\ [Library!MediaNext]_Library!mvars => FileInv'
  BY FileStep
<1>3. FileInv => Library!FilesKept
  BY DEF FileInv, ReadyIsThere, WantedIsThere, Wanted, UsedHasRow, NothingStays, Library!FilesKept
<1> QED
  BY <1>1, <1>2, <1>3, PTL DEF Library!MediaSpec

-----------------------------------------------------------------------------
(* The comments and mentions *)

Runs ==
  [pc : {"idle", "cursor", "read"}, started : Inbox!Time, comments : Inbox!Time, mentions : Inbox!Time,
   todo : SUBSET Inbox!Streams, rejected : SUBSET Inbox!Streams, out : SUBSET Items]
Typed ==
  /\ place \in [Items -> Inbox!Streams]
  /\ iClock \in Inbox!Time /\ said \in [Items -> 0..Inbox!Never] /\ indexed \subseteq Items
  /\ iRow \in [Items -> {"none", "new", "archived"}]
  /\ cursor \in [comments : 0..Inbox!Never, mentions : 0..Inbox!Never]
  /\ iWorker \in [Workers -> Runs]
  /\ skipped \subseteq Items /\ beyond \subseteq Items /\ decided \subseteq Items

\* What is not indexed was said within a period; the clock never goes back.
OnTime ==
  /\ \A i \in Items \ indexed : said[i] # Inbox!Never => said[i] + 1 >= iClock
  /\ \A i \in Items : said[i] # Inbox!Never => said[i] <= iClock
  /\ \A w \in Workers : iWorker[w].started <= iClock
  /\ indexed \subseteq {i \in Items : said[i] # Inbox!Never}
  /\ Inbox!Since(cursor.comments) <= iClock /\ Inbox!Since(cursor.mentions) <= iClock

\* An item that was said and is not stored: one that a run has yet to get.
WaitsFor(i) == said[i] # Inbox!Never /\ iRow[i] = "none"
\* A run that is reading has it ahead, or has had it rejected or left out, or can leave it to
\* the next.
Covers(w, i) ==
  \/ said[i] >= Inbox!Since(iWorker[w].started)
  \/ /\ i \in indexed /\ said[i] >= Inbox!From(w, place[i])
     /\ place[i] \in iWorker[w].todo \cup iWorker[w].rejected \/ i \in iWorker[w].out
RunsCover ==
  \A w \in Workers, i \in Items \ (skipped \cup beyond) : Inbox!At(w, "read") /\ WaitsFor(i) => Covers(w, i)

\* What a read has left out is indexed, and past a bound.
LeftOut == beyond \cup UNION {iWorker[w].out : w \in Workers}
OutsPastBound == \A i \in LeftOut : i \in indexed /\ Inbox!PastBound(i)

SyncInv == Typed /\ OnTime /\ RunsCover /\ OutsPastBound /\ Inbox!NothingSkipped

LEMMA Sinces ==
  ASSUME Inbox!InboxSyncParameters, NEW at \in 0..Inbox!Never
  PROVE  Inbox!Since(at) \in Inbox!Time
BY DEF Inbox!InboxSyncParameters, Inbox!Since, Inbox!Never, Inbox!Time

LEMMA Idles ==
  ASSUME Inbox!InboxSyncParameters
  PROVE  Inbox!Idle \in Runs
BY DEF Inbox!InboxSyncParameters, Inbox!Idle, Runs, Inbox!Time

LEMMA TypedStep ==
  ASSUME Inbox!InboxSyncParameters, Typed, [Inbox!InboxSyncNext]_Inbox!isvars
  PROVE  Typed'
<1>0. Inbox!Time \subseteq 0..Inbox!Never /\ MaxClock \in Nat
  BY DEF Inbox!InboxSyncParameters, Inbox!Time, Inbox!Never
<1>1. CASE Inbox!Tick
  BY <1>0, <1>1 DEF Inbox!Tick, Typed, Inbox!Time
<1>2. ASSUME NEW i \in Items, Inbox!Say(i) \/ Inbox!Index(i) \/ Inbox!Decide(i)
      PROVE  Typed'
  BY <1>0, <1>2 DEF Inbox!Say, Inbox!Index, Inbox!Decide, Typed
<1>3. ASSUME NEW w \in Workers, Inbox!Start(w)
      PROVE  Typed'
  <2>1. [Inbox!Idle EXCEPT !.pc = "cursor", !.started = iClock] \in Runs
    <3>1. iClock \in Inbox!Time /\ 0 \in Inbox!Time
      BY <1>0 DEF Typed, Inbox!Time
    <3>2. QED
      BY <3>1 DEF Inbox!Idle, Runs
  <2>2. QED
    BY <1>3, <2>1 DEF Inbox!Start, Typed
<1>4. ASSUME NEW w \in Workers, Inbox!ReadCursor(w)
      PROVE  Typed'
  <2> DEFINE v == [iWorker[w] EXCEPT !.pc = "read", !.todo = Inbox!Streams, !.comments = Inbox!Since(cursor.comments),
                                    !.mentions = Inbox!Since(cursor.mentions)]
  <2>1. Inbox!Since(cursor.comments) \in Inbox!Time /\ Inbox!Since(cursor.mentions) \in Inbox!Time /\ iWorker[w] \in Runs
    BY Sinces DEF Typed
  <2>2. v \in Runs
    BY <2>1 DEF Runs
  <2>3. iWorker' = [iWorker EXCEPT ![w] = v]
    BY <1>4 DEF Inbox!ReadCursor, Typed
  <2>4. QED
    BY <1>4, <2>2, <2>3 DEF Inbox!ReadCursor, Typed
<1>5. ASSUME NEW w \in Workers, NEW s \in Inbox!Streams, Inbox!Answered(w, s)
      PROVE  Typed'
  <2>0. PICK left \in SUBSET {i \in Inbox!Window(w, s) : Inbox!PastBound(i)} :
          /\ iRow' = Inbox!Stored(Inbox!Window(w, s) \ left)
          /\ iWorker' = [iWorker EXCEPT ![w].todo = @ \ {s}, ![w].out = @ \cup left]
    BY <1>5 DEF Inbox!Answered
  <2>1. iRow' \in [Items -> {"none", "new", "archived"}]
    BY <2>0 DEF Inbox!Stored, Typed
  <2>2. iWorker' \in [Workers -> Runs]
    <3>1. iWorker[w] \in Runs /\ left \subseteq Items
      BY <2>0 DEF Typed, Inbox!Window
    <3>2. /\ iWorker[w].todo \ {s} \in SUBSET Inbox!Streams /\ iWorker[w].out \cup left \in SUBSET Items
      BY <3>1 DEF Runs
    <3>3. [iWorker[w] EXCEPT !.todo = @ \ {s}, !.out = @ \cup left] \in Runs
      BY <3>1, <3>2 DEF Runs
    <3>4. iWorker' = [iWorker EXCEPT ![w] = [iWorker[w] EXCEPT !.todo = @ \ {s}, !.out = @ \cup left]]
      BY <2>0 DEF Typed
    <3> QED
      BY <3>3, <3>4 DEF Typed
  <2>3. QED
    BY <1>5, <2>1, <2>2 DEF Inbox!Answered, Typed
<1>6. ASSUME NEW w \in Workers, NEW s \in Inbox!Streams, Inbox!Rejected(w, s)
      PROVE  Typed'
  <2> DEFINE v == [iWorker[w] EXCEPT !.todo = @ \ {s}, !.rejected = @ \cup {s}]
  <2>1. v \in Runs
    <3>1. iWorker[w] \in Runs
      BY DEF Typed
    <3>2. [iWorker[w] EXCEPT !.todo = @ \ {s}] \in Runs
      BY <3>1 DEF Runs
    <3>3. QED
      BY <3>1, <3>2 DEF Runs
  <2>2. iWorker' = [iWorker EXCEPT ![w] = v]
    BY <1>6 DEF Inbox!Rejected, Typed
  <2>3. QED
    BY <1>6, <2>1, <2>2 DEF Inbox!Rejected, Typed
<1>7. ASSUME NEW w \in Workers, Inbox!Stops(w)
      PROVE  Typed'
  BY <1>7, Idles DEF Inbox!Stops, Typed
<1>8. ASSUME NEW w \in Workers, Inbox!Finish(w)
      PROVE  Typed'
  <2>1. iWorker[w].started \in 0..Inbox!Never
    BY <1>0 DEF Typed, Runs
  <2>2. cursor' \in [comments : 0..Inbox!Never, mentions : 0..Inbox!Never]
    BY <1>8, <2>1 DEF Inbox!Finish, Typed
  <2>3. skipped' \subseteq Items /\ beyond' \subseteq Items
    BY <1>8 DEF Inbox!Finish, Typed, Runs
  <2>4. QED
    BY <1>8, <2>2, <2>3, Idles DEF Inbox!Finish, Typed
<1>9. CASE UNCHANGED Inbox!isvars
  BY <1>9 DEF Inbox!isvars, Typed
<1>10. QED
  BY <1>1, <1>2, <1>3, <1>4, <1>5, <1>6, <1>7, <1>8, <1>9 DEF Inbox!InboxSyncNext

LEMMA OnTimeStep ==
  ASSUME Inbox!InboxSyncParameters, Typed, OnTime, [Inbox!InboxSyncNext]_Inbox!isvars
  PROVE  OnTime'
<1>0. MaxClock \in Nat
  BY DEF Inbox!InboxSyncParameters
<1>1. CASE Inbox!Tick
  BY <1>0, <1>1 DEF Inbox!Tick, Typed, OnTime, Inbox!Time, Inbox!Never, Runs, Inbox!Since
<1>2. ASSUME NEW i \in Items, Inbox!Say(i)
      PROVE  OnTime'
  BY <1>0, <1>2 DEF Inbox!Say, Typed, OnTime, Inbox!Time, Inbox!Never, Inbox!Since
<1>3. ASSUME NEW i \in Items, Inbox!Index(i) \/ Inbox!Decide(i)
      PROVE  OnTime'
  BY <1>3 DEF Inbox!Index, Inbox!Decide, OnTime, Inbox!Since, Inbox!Never
<1>4. ASSUME NEW w \in Workers, NEW v, iWorker' = [iWorker EXCEPT ![w] = v], v.started <= iClock,
             UNCHANGED <<iClock, said, indexed>>,
             Inbox!Since(cursor.comments)' <= iClock, Inbox!Since(cursor.mentions)' <= iClock
      PROVE  OnTime'
  BY <1>4 DEF Typed, OnTime
<1>5. ASSUME NEW w \in Workers, Inbox!Start(w)
      PROVE  OnTime'
  <2>1. [Inbox!Idle EXCEPT !.pc = "cursor", !.started = iClock].started <= iClock
    BY <1>0 DEF Inbox!Idle, Typed, Inbox!Time
  <2>2. cursor' = cursor
    BY <1>5 DEF Inbox!Start
  <2>3. Inbox!Since(cursor.comments)' <= iClock /\ Inbox!Since(cursor.mentions)' <= iClock
    BY <2>2 DEF OnTime, Inbox!Since, Inbox!Never
  <2>4. QED
    BY <1>4, <1>5, <2>1, <2>3 DEF Inbox!Start
<1>6. ASSUME NEW w \in Workers, Inbox!Stops(w) \/ Inbox!Finish(w)
      PROVE  OnTime'
  <2>1. Inbox!Idle.started <= iClock
    BY <1>0 DEF Inbox!Idle, Typed, Inbox!Time
  <2>2. CASE Inbox!Stops(w)
    <3>1. cursor' = cursor
      BY <2>2 DEF Inbox!Stops
    <3>2. Inbox!Since(cursor.comments)' <= iClock /\ Inbox!Since(cursor.mentions)' <= iClock
      BY <3>1 DEF OnTime, Inbox!Since, Inbox!Never
    <3>3. QED
      BY <1>4, <2>1, <2>2, <3>2 DEF Inbox!Stops
  <2>3. CASE Inbox!Finish(w)
    <3>1. /\ cursor'.comments = iWorker[w].started
          /\ cursor'.mentions = iWorker[w].started \/ cursor'.mentions = cursor.mentions
      BY <2>3 DEF Inbox!Finish
    <3>2. iWorker[w].started \in Nat /\ iWorker[w].started <= iClock /\ iClock \in Nat
      BY DEF OnTime, Typed, Runs, Inbox!Time
    <3>3. Inbox!Since(iWorker[w].started) <= iClock
      BY <3>2 DEF Inbox!Since
    <3>4. Inbox!Since(cursor.comments)' <= iClock /\ Inbox!Since(cursor.mentions)' <= iClock
      BY <3>1, <3>3 DEF OnTime, Inbox!Since, Inbox!Never
    <3>5. QED
      BY <1>4, <2>1, <2>3, <3>4 DEF Inbox!Finish
  <2>4. QED
    BY <1>6, <2>2, <2>3
<1>7. ASSUME NEW w \in Workers, Inbox!ReadCursor(w) \/ \E s \in Inbox!Streams : Inbox!Answered(w, s) \/ Inbox!Rejected(w, s)
      PROVE  OnTime'
  <2>1. \A v \in Workers : iWorker'[v].started = iWorker[v].started
    <3>1. iWorker[w] \in Runs
      BY DEF Typed
    <3>2. CASE Inbox!ReadCursor(w)
      BY <3>1, <3>2 DEF Inbox!ReadCursor, Typed, Runs
    <3>3. ASSUME NEW s \in Inbox!Streams, Inbox!Answered(w, s)
          PROVE  \A v \in Workers : iWorker'[v].started = iWorker[v].started
      <4>1. PICK left : iWorker' = [iWorker EXCEPT ![w].todo = @ \ {s}, ![w].out = @ \cup left]
        BY <3>3 DEF Inbox!Answered
      <4>2. iWorker'[w].started = iWorker[w].started
        BY <3>1, <4>1 DEF Typed, Runs
      <4>3. QED
        BY <4>1, <4>2 DEF Typed
    <3>4. ASSUME NEW s \in Inbox!Streams, Inbox!Rejected(w, s)
          PROVE  \A v \in Workers : iWorker'[v].started = iWorker[v].started
      BY <3>1, <3>4 DEF Inbox!Rejected, Typed, Runs
    <3>5. QED
      BY <1>7, <3>2, <3>3, <3>4
  <2>2. UNCHANGED <<iClock, said, indexed, cursor>>
    BY <1>7 DEF Inbox!ReadCursor, Inbox!Answered, Inbox!Rejected
  <2>3. QED
    BY <2>1, <2>2 DEF OnTime, Inbox!Since, Inbox!Never
<1>8. CASE UNCHANGED Inbox!isvars
  BY <1>8 DEF Inbox!isvars, OnTime, Inbox!Since, Inbox!Never
<1>9. QED
  BY <1>1, <1>2, <1>3, <1>5, <1>6, <1>7, <1>8 DEF Inbox!InboxSyncNext

\* A worker and an item that a step leaves alone.
LEMMA CoverKept ==
  ASSUME Inbox!InboxSyncParameters, Typed, RunsCover, NEW w \in Workers, NEW i \in Items \ (skipped \cup beyond),
         iWorker'[w] = iWorker[w], place' = place, indexed \subseteq indexed',
         said'[i] = said[i] \/ said'[i] >= Inbox!Since(iWorker[w].started),
         iRow[i] # "none" => iRow'[i] # "none"
  PROVE  Inbox!At(w, "read")' /\ WaitsFor(i)' => Covers(w, i)'
<1>1. SUFFICES ASSUME Inbox!At(w, "read")', WaitsFor(i)', ~ (said'[i] >= Inbox!Since(iWorker[w].started))
               PROVE  Covers(w, i)'
  BY DEF Covers, Inbox!Since, Inbox!Never
<1>2. said'[i] = said[i] /\ iRow[i] = "none" /\ Inbox!At(w, "read")
  BY <1>1 DEF WaitsFor, Inbox!At
<1>3. i \in indexed /\ said[i] >= Inbox!From(w, place[i]) /\ (place[i] \in iWorker[w].todo \cup iWorker[w].rejected \/ i \in iWorker[w].out)
  BY <1>1, <1>2 DEF RunsCover, WaitsFor, Covers
<1>4. Inbox!From(w, place[i])' = Inbox!From(w, place[i])
  BY DEF Inbox!From
<1>5. QED
  BY <1>2, <1>3, <1>4 DEF Covers

LEMMA CoverStep ==
  ASSUME Inbox!InboxSyncParameters, SyncInv, [Inbox!InboxSyncNext]_Inbox!isvars
  PROVE  RunsCover'
<1>0. Typed /\ OnTime /\ RunsCover /\ Inbox!NothingSkipped /\ MaxClock \in Nat
  BY DEF SyncInv, Inbox!InboxSyncParameters
<1>1. SUFFICES ASSUME NEW w \in Workers, NEW i \in Items \ (skipped \cup beyond), i \notin skipped' \cup beyond'
               PROVE  Inbox!At(w, "read")' /\ WaitsFor(i)' => Covers(w, i)'
  <2>1. skipped \subseteq skipped' /\ beyond \subseteq beyond'
    BY DEF Inbox!InboxSyncNext, Inbox!Tick, Inbox!Say, Inbox!Index, Inbox!Decide, Inbox!Start, Inbox!ReadCursor, Inbox!Answered, Inbox!Rejected, Inbox!Stops, Inbox!Finish, Inbox!isvars
  <2>2. QED
    BY <1>1, <2>1 DEF RunsCover
<1> iWorker[w] \in Runs /\ i \in Items
  BY <1>0 DEF Typed
<1>2. CASE Inbox!Tick \/ (\E j \in Items : Inbox!Index(j) \/ Inbox!Decide(j)) \/ UNCHANGED Inbox!isvars
  <2>1. UNCHANGED <<iWorker, place, said>> /\ indexed \subseteq indexed' /\ (iRow[i] # "none" => iRow'[i] # "none")
    BY <1>0, <1>2 DEF Inbox!Tick, Inbox!Index, Inbox!Decide, Inbox!isvars, Typed
  <2>2. QED
    BY <1>0, <2>1, CoverKept
<1>3. ASSUME NEW j \in Items, Inbox!Say(j)
      PROVE  Inbox!At(w, "read")' /\ WaitsFor(i)' => Covers(w, i)'
  <2>1. UNCHANGED <<iWorker, place, indexed, iRow>> /\ said'[i] \in {said[i], iClock}
    BY <1>0, <1>3 DEF Inbox!Say, Typed
  <2>2. iClock >= Inbox!Since(iWorker[w].started)
    BY <1>0 DEF OnTime, Inbox!Since, Inbox!Never, Typed, Inbox!Time, Runs
  <2>3. QED
    BY <1>0, <2>1, <2>2, CoverKept
<1>4. ASSUME NEW v \in Workers, v # w, \A u \in Workers \ {v} : iWorker'[u] = iWorker[u],
             UNCHANGED <<place, said, indexed>>, iRow[i] # "none" => iRow'[i] # "none"
      PROVE  Inbox!At(w, "read")' /\ WaitsFor(i)' => Covers(w, i)'
  BY <1>0, <1>4, CoverKept
<1>5. ASSUME NEW v \in Workers, Inbox!Start(v) \/ Inbox!Stops(v) \/ Inbox!Finish(v)
      PROVE  Inbox!At(w, "read")' /\ WaitsFor(i)' => Covers(w, i)'
  <2>1. UNCHANGED <<place, said, indexed, iRow>>
    BY <1>5 DEF Inbox!Start, Inbox!Stops, Inbox!Finish
  <2>2. PICK z : iWorker' = [iWorker EXCEPT ![v] = z] /\ z.pc # "read"
    <3>1. Inbox!Idle.pc # "read" /\ [Inbox!Idle EXCEPT !.pc = "cursor", !.started = iClock].pc # "read"
      BY DEF Inbox!Idle
    <3>2. QED
      BY <1>5, <3>1 DEF Inbox!Start, Inbox!Stops, Inbox!Finish
  <2>3. (\A u \in Workers \ {v} : iWorker'[u] = iWorker[u]) /\ iWorker'[v].pc # "read"
    BY <1>0, <2>2 DEF Typed
  <2>4. QED
    BY <1>4, <2>1, <2>3 DEF Inbox!At
\* What waits when a run reads the cursor is within what it asks for, and is indexed or recent.
<1>6. ASSUME NEW v \in Workers, Inbox!ReadCursor(v)
      PROVE  Inbox!At(w, "read")' /\ WaitsFor(i)' => Covers(w, i)'
  <2>1. /\ \A u \in Workers \ {v} : iWorker'[u] = iWorker[u]
        /\ UNCHANGED <<place, said, indexed, iRow>>
    BY <1>0, <1>6 DEF Inbox!ReadCursor, Typed
  <2>2. CASE v = w
    <3>1. /\ iWorker'[w].started = iWorker[w].started /\ iWorker'[w].todo = Inbox!Streams
          /\ iWorker'[w].comments = Inbox!Since(cursor.comments) /\ iWorker'[w].mentions = Inbox!Since(cursor.mentions)
      BY <1>0, <1>6, <2>2 DEF Inbox!ReadCursor, Typed, Runs
    <3>2. ASSUME WaitsFor(i)', ~ (said[i] >= Inbox!Since(iWorker[w].started))
          PROVE  i \in indexed /\ said[i] >= Inbox!From(w, place[i])' /\ place[i] \in Inbox!Streams
      <4>1. WaitsFor(i)
        BY <2>1, <3>2 DEF WaitsFor
      <4>2. i \in indexed
        BY <1>0, <3>2, <4>1 DEF WaitsFor, OnTime, Inbox!Since, Inbox!Never, Typed, Inbox!Time, Runs
      <4>3. said[i] >= Inbox!Since(IF place[i] = "mentions" THEN cursor.mentions ELSE cursor.comments)
        BY <1>0, <4>1 DEF Inbox!NothingSkipped, WaitsFor
      <4>4. QED
        BY <1>0, <2>1, <3>1, <4>2, <4>3 DEF Inbox!From, Typed
    <3>3. QED
      BY <2>1, <3>1, <3>2 DEF Covers, Inbox!Since, Inbox!Never
  <2>3. QED
    BY <1>4, <2>1, <2>2
\* What a call's answer brings is stored: nothing of that stream waits, but what is recent.
<1>7. ASSUME NEW v \in Workers, NEW s \in Inbox!Streams, Inbox!Answered(v, s)
      PROVE  Inbox!At(w, "read")' /\ WaitsFor(i)' => Covers(w, i)'
  <2>0. PICK left \in SUBSET {n \in Inbox!Window(v, s) : Inbox!PastBound(n)} :
          /\ iRow' = Inbox!Stored(Inbox!Window(v, s) \ left)
          /\ iWorker' = [iWorker EXCEPT ![v].todo = @ \ {s}, ![v].out = @ \cup left]
    BY <1>7 DEF Inbox!Answered
  <2>1. /\ UNCHANGED <<place, said, indexed>>
        /\ \A u \in Workers \ {v} : iWorker'[u] = iWorker[u]
    BY <1>0, <1>7, <2>0 DEF Inbox!Answered, Typed
  <2>2. iRow'[i] = IF (i \in indexed /\ place[i] = s /\ said[i] >= Inbox!From(v, s) /\ i \notin left) /\ iRow[i] = "none"
                   THEN "new" ELSE iRow[i]
    BY <2>0 DEF Inbox!Stored, Inbox!Window
  <2>3. CASE v = w
    <3>1. /\ iWorker'[w].started = iWorker[w].started /\ iWorker'[w].todo = iWorker[w].todo \ {s}
          /\ iWorker'[w].comments = iWorker[w].comments /\ iWorker'[w].mentions = iWorker[w].mentions
          /\ iWorker'[w].rejected = iWorker[w].rejected /\ Inbox!At(w, "read")
          /\ iWorker'[w].out = iWorker[w].out \cup left
      <4>1. iWorker[w] \in Runs /\ Inbox!At(w, "read")
        BY <1>0, <1>7, <2>3 DEF Inbox!Answered, Inbox!Due, Typed
      <4>2. iWorker' = [iWorker EXCEPT ![w] = [iWorker[w] EXCEPT !.todo = @ \ {s}, !.out = @ \cup left]]
        BY <1>0, <2>0, <2>3 DEF Typed
      <4>3. iWorker'[w] = [iWorker[w] EXCEPT !.todo = @ \ {s}, !.out = @ \cup left]
        BY <1>0, <4>2 DEF Typed
      <4>4. QED
        BY <4>1, <4>3 DEF Runs
    <3>2. Inbox!From(w, place[i])' = Inbox!From(w, place[i])
      BY <2>1, <3>1 DEF Inbox!From
    <3>3. ASSUME WaitsFor(i)'
          PROVE  Covers(w, i)'
      <4>1. WaitsFor(i) /\ (i \in left \/ ~ (i \in indexed /\ place[i] = s /\ said[i] >= Inbox!From(w, s)))
        BY <2>1, <2>2, <2>3, <3>3 DEF WaitsFor
      <4>2. Covers(w, i)
        BY <1>0, <3>1, <4>1 DEF RunsCover
      <4>3. CASE said[i] >= Inbox!Since(iWorker[w].started)
        BY <2>1, <3>1, <4>3 DEF Covers, Inbox!Since, Inbox!Never
      <4>4. CASE ~ (said[i] >= Inbox!Since(iWorker[w].started))
        <5>1. i \in indexed /\ said[i] >= Inbox!From(w, place[i]) /\ (place[i] \in iWorker[w].todo \cup iWorker[w].rejected \/ i \in iWorker[w].out)
          BY <4>2, <4>4 DEF Covers
        <5>2. place[i] # s \/ i \in left
          BY <4>1, <5>1
        <5>3. QED
          BY <2>1, <3>1, <3>2, <5>1, <5>2 DEF Covers
      <4>5. QED
        BY <4>3, <4>4
    <3>4. QED
      BY <3>3
  <2>4. CASE v # w
    <3>1. iRow[i] # "none" => iRow'[i] # "none"
      BY <2>2
    <3>2. QED
      BY <1>4, <2>1, <2>4, <3>1
  <2>5. QED
    BY <2>3, <2>4
<1>8. ASSUME NEW v \in Workers, NEW s \in Inbox!Streams, Inbox!Rejected(v, s)
      PROVE  Inbox!At(w, "read")' /\ WaitsFor(i)' => Covers(w, i)'
  <2>1. /\ \A u \in Workers \ {v} : iWorker'[u] = iWorker[u]
        /\ UNCHANGED <<place, said, indexed, iRow>>
    BY <1>0, <1>8 DEF Inbox!Rejected, Typed
  <2>2. CASE v = w
    <3>1. iWorker' = [iWorker EXCEPT ![w] = [iWorker[w] EXCEPT !.todo = @ \ {s}, !.rejected = @ \cup {s}]]
      BY <1>0, <1>8, <2>2 DEF Inbox!Rejected, Typed
    <3>2. iWorker'[w] = [iWorker[w] EXCEPT !.todo = @ \ {s}, !.rejected = @ \cup {s}]
      BY <1>0, <3>1 DEF Typed
    <3>3. /\ iWorker'[w].started = iWorker[w].started /\ iWorker'[w].todo = iWorker[w].todo \ {s}
          /\ iWorker'[w].comments = iWorker[w].comments /\ iWorker'[w].mentions = iWorker[w].mentions
          /\ iWorker'[w].rejected = iWorker[w].rejected \cup {s} /\ Inbox!At(w, "read")
          /\ iWorker'[w].out = iWorker[w].out
      <4>1. iWorker[w] \in Runs /\ Inbox!At(w, "read")
        BY <1>0, <1>8, <2>2 DEF Inbox!Rejected, Inbox!Due, Typed
      <4>2. [iWorker[w] EXCEPT !.todo = @ \ {s}] \in Runs
        BY <4>1 DEF Runs
      <4>3. [iWorker[w] EXCEPT !.todo = @ \ {s}, !.rejected = @ \cup {s}]
              = [[iWorker[w] EXCEPT !.todo = @ \ {s}] EXCEPT !.rejected = @ \cup {s}]
        BY <4>1 DEF Runs
      <4>4. QED
        BY <3>2, <4>1, <4>2, <4>3 DEF Runs
    <3>4. Inbox!From(w, place[i])' = Inbox!From(w, place[i])
      BY <2>1, <3>3 DEF Inbox!From
    <3>5. ASSUME WaitsFor(i)'
          PROVE  Covers(w, i)'
      <4>1. Covers(w, i)
        BY <1>0, <2>1, <3>3, <3>5 DEF RunsCover, WaitsFor
      <4>2. QED
        BY <2>1, <3>3, <3>4, <4>1 DEF Covers, Inbox!Since, Inbox!Never
    <3>6. QED
      BY <3>5
  <2>3. QED
    BY <1>4, <2>1, <2>2
<1>9. QED
  BY <1>2, <1>3, <1>5, <1>6, <1>7, <1>8 DEF Inbox!InboxSyncNext

LEMMA InboxCounting ==
  ASSUME NEW S
  PROVE  Inbox!IsFiniteSet(S) = IsFiniteSet(S) /\ Inbox!Cardinality(S) = Cardinality(S)
BY DEF Inbox!IsFiniteSet, IsFiniteSet, Inbox!Cardinality, Cardinality

\* A full read stays full, and an item gets no younger.
LEMMA PastBoundKept ==
  ASSUME Inbox!InboxSyncParameters, Typed, NEW i \in Items, Inbox!PastBound(i),
         UNCHANGED place, said'[i] = said[i], indexed \subseteq indexed', indexed' \subseteq Items,
         iClock' \in Inbox!Time, iClock' >= iClock
  PROVE  Inbox!PastBound(i)'
<1> DEFINE here == {n \in indexed : place[n] = place[i]}
           then == {n \in indexed' : place[n] = place[i]}
<1>1. IsFiniteSet(then) /\ here \subseteq then /\ IsFiniteSet(here)
  BY FS_Subset, InboxCounting DEF Inbox!InboxSyncParameters, Typed
<1>2. Cardinality(here) <= Cardinality(then) /\ Cardinality(here) \in Nat /\ Cardinality(then) \in Nat
  BY <1>1, FS_Subset, FS_CardinalityType
<1>3. CASE Inbox!Crowded(place[i])
  <2>1. Cardinality(here) > MaxRead /\ MaxRead \in Nat
    BY <1>3, InboxCounting DEF Inbox!Crowded, Inbox!InboxSyncParameters
  <2>2. Cardinality(then) > MaxRead
    BY <1>2, <2>1
  <2>3. Inbox!Cardinality(then) > MaxRead
    BY <2>2, InboxCounting
  <2> QED
    BY <2>3 DEF Inbox!PastBound, Inbox!Crowded
<1>4. CASE iClock > said[i] + MaxAge
  <2>1. iClock \in Nat /\ iClock' \in Nat /\ said[i] \in Nat /\ MaxAge \in Nat
    BY DEF Typed, Inbox!Time, Inbox!Never, Inbox!InboxSyncParameters
  <2>2. iClock' > said'[i] + MaxAge
    BY <1>4, <2>1
  <2> QED
    BY <2>2 DEF Inbox!PastBound
<1> QED
  BY <1>3, <1>4 DEF Inbox!PastBound

LEMMA LeftOutStep ==
  ASSUME Inbox!InboxSyncParameters, Typed, OnTime, OutsPastBound, [Inbox!InboxSyncNext]_Inbox!isvars
  PROVE  OutsPastBound'
<1>0. Typed'
  BY TypedStep
\* Nothing that was past a bound is any longer within it.
<1>1. ASSUME NEW i \in indexed, Inbox!PastBound(i) PROVE i \in indexed' /\ Inbox!PastBound(i)'
  <2>1. UNCHANGED place /\ indexed \subseteq indexed' /\ iClock' >= iClock
    <3>1. iClock \in Nat
      BY DEF Typed, Inbox!Time
    <3>2. CASE Inbox!Tick
      BY <3>1, <3>2 DEF Inbox!Tick
    <3>3. CASE \E j \in Items : Inbox!Index(j)
      BY <3>1, <3>3 DEF Inbox!Index
    <3>4. CASE UNCHANGED <<place, indexed, iClock>>
      BY <3>1, <3>4
    <3> QED
      BY <3>2, <3>3, <3>4 DEF Inbox!InboxSyncNext, Inbox!Say, Inbox!Decide, Inbox!Start, Inbox!ReadCursor,
         Inbox!Answered, Inbox!Rejected, Inbox!Stops, Inbox!Finish, Inbox!isvars
  <2>2. said[i] # Inbox!Never /\ i \in Items
    BY DEF OnTime
  <2>3. said'[i] = said[i]
    <3>1. CASE \E j \in Items : Inbox!Say(j)
      BY <2>2, <3>1 DEF Inbox!Say, Typed
    <3>2. CASE said' = said
      BY <3>2
    <3> QED
      BY <3>1, <3>2 DEF Inbox!InboxSyncNext, Inbox!Tick, Inbox!Index, Inbox!Decide, Inbox!Start, Inbox!ReadCursor,
         Inbox!Answered, Inbox!Rejected, Inbox!Stops, Inbox!Finish, Inbox!isvars
  <2>4. indexed' \subseteq Items /\ iClock' \in Inbox!Time
    BY <1>0 DEF Typed
  <2> QED
    BY <1>1, <2>1, <2>2, <2>3, <2>4, PastBoundKept
<1>2. ASSUME LeftOut' \subseteq LeftOut PROVE OutsPastBound'
  BY <1>1, <1>2 DEF OutsPastBound
<1>3. ASSUME NEW w \in Workers, NEW v, iWorker' = [iWorker EXCEPT ![w] = v], v.out \subseteq iWorker[w].out,
             beyond' \subseteq beyond \cup iWorker[w].out
      PROVE  OutsPastBound'
  <2>1. \A u \in Workers : iWorker'[u].out \subseteq iWorker[u].out
    BY <1>3 DEF Typed
  <2>2. LeftOut' \subseteq LeftOut
    BY <1>3, <2>1 DEF LeftOut
  <2> QED
    BY <1>2, <2>2
<1>4. ASSUME NEW w \in Workers, Inbox!Start(w) \/ Inbox!Stops(w) \/ Inbox!Finish(w)
      PROVE  OutsPastBound'
  <2>1. Inbox!Idle.out = {} /\ [Inbox!Idle EXCEPT !.pc = "cursor", !.started = iClock].out = {}
    BY DEF Inbox!Idle
  <2>2. beyond' \subseteq beyond \cup iWorker[w].out
    BY <1>4 DEF Inbox!Start, Inbox!Stops, Inbox!Finish
  <2> QED
    BY <1>3, <1>4, <2>1, <2>2 DEF Inbox!Start, Inbox!Stops, Inbox!Finish
<1>5. ASSUME NEW w \in Workers, Inbox!ReadCursor(w)
      PROVE  OutsPastBound'
  <2> DEFINE v == [iWorker[w] EXCEPT !.pc = "read", !.todo = Inbox!Streams, !.comments = Inbox!Since(cursor.comments),
                                    !.mentions = Inbox!Since(cursor.mentions)]
  <2>1. iWorker' = [iWorker EXCEPT ![w] = v] /\ beyond' = beyond
    BY <1>5 DEF Inbox!ReadCursor, Typed
  <2>2. v.out = iWorker[w].out
    BY DEF Typed, Runs
  <2> QED
    BY <1>3, <2>1, <2>2
<1>6. ASSUME NEW w \in Workers, NEW s \in Inbox!Streams, Inbox!Rejected(w, s)
      PROVE  OutsPastBound'
  <2>1. iWorker' = [iWorker EXCEPT ![w] = [iWorker[w] EXCEPT !.todo = @ \ {s}, !.rejected = @ \cup {s}]] /\ beyond' = beyond
    BY <1>6 DEF Inbox!Rejected, Typed
  <2>2. [iWorker[w] EXCEPT !.todo = @ \ {s}, !.rejected = @ \cup {s}].out = iWorker[w].out
    BY DEF Typed, Runs
  <2> QED
    BY <1>3, <2>1, <2>2
<1>7. ASSUME NEW w \in Workers, NEW s \in Inbox!Streams, Inbox!Answered(w, s)
      PROVE  OutsPastBound'
  <2>1. PICK left \in SUBSET {n \in Inbox!Window(w, s) : Inbox!PastBound(n)} :
          iWorker' = [iWorker EXCEPT ![w].todo = @ \ {s}, ![w].out = @ \cup left]
    BY <1>7 DEF Inbox!Answered
  <2>2. beyond' = beyond
    BY <1>7 DEF Inbox!Answered
  <2>3. iWorker'[w].out = iWorker[w].out \cup left
    BY <2>1 DEF Typed, Runs
  <2>4. \A u \in Workers \ {w} : iWorker'[u] = iWorker[u]
    BY <2>1 DEF Typed
  <2>5. LeftOut' \subseteq LeftOut \cup left
    BY <2>2, <2>3, <2>4 DEF LeftOut
  <2>6. \A n \in left : n \in indexed /\ Inbox!PastBound(n)
    BY DEF Inbox!Window
  <2> QED
    BY <1>1, <2>5, <2>6 DEF OutsPastBound
<1>8. CASE UNCHANGED <<iWorker, beyond>>
  BY <1>2, <1>8 DEF LeftOut
<1> QED
  BY <1>4, <1>5, <1>6, <1>7, <1>8 DEF Inbox!InboxSyncNext, Inbox!Tick, Inbox!Say, Inbox!Index, Inbox!Decide, Inbox!isvars

LEMMA SkipStep ==
  ASSUME Inbox!InboxSyncParameters, SyncInv, [Inbox!InboxSyncNext]_Inbox!isvars
  PROVE  Inbox!NothingSkipped'
<1> DEFINE kept == \A i \in Items \ (skipped \cup beyond) :
                     said[i] # Inbox!Never /\ iRow[i] = "none" =>
                       said[i] >= Inbox!Since(IF place[i] = "mentions" THEN cursor.mentions ELSE cursor.comments)
           handled == \A i \in decided : iRow[i] = "archived"
<1>p. (\A i \in beyond : Inbox!PastBound(i))'
  BY LeftOutStep DEF SyncInv, OutsPastBound, LeftOut
<1>q. SUFFICES kept' /\ handled'
  BY <1>p DEF Inbox!NothingSkipped
<1>0. Typed /\ OnTime /\ RunsCover /\ kept /\ handled /\ MaxClock \in Nat
  BY DEF SyncInv, Inbox!InboxSyncParameters, Inbox!NothingSkipped
<1> DEFINE wanted(i) == Inbox!Since(IF place[i] = "mentions" THEN cursor.mentions ELSE cursor.comments)
<1>1. CASE Inbox!Tick \/ (\E j \in Items : Inbox!Index(j)) \/ UNCHANGED Inbox!isvars
  BY <1>0, <1>1 DEF Inbox!Tick, Inbox!Index, Inbox!isvars
<1>2. ASSUME NEW j \in Items, Inbox!Say(j)
      PROVE  kept' /\ handled'
  <2>1. \A i \in Items : UNCHANGED <<iRow, cursor, place, decided, skipped, beyond>> /\ said'[i] = IF i = j THEN iClock ELSE said[i]
    BY <1>0, <1>2 DEF Inbox!Say, Typed
  <2>2. iClock >= wanted(j)
    BY <1>0 DEF OnTime
  <2>3. QED
    BY <1>0, <2>1, <2>2
<1>3. ASSUME NEW j \in Items, Inbox!Decide(j)
      PROVE  kept' /\ handled'
  BY <1>0, <1>3 DEF Inbox!Decide, Typed
<1>4. ASSUME NEW w \in Workers, Inbox!Start(w) \/ Inbox!ReadCursor(w) \/ Inbox!Stops(w) \/ \E s \in Inbox!Streams : Inbox!Rejected(w, s)
      PROVE  kept' /\ handled'
  BY <1>0, <1>4 DEF Inbox!Start, Inbox!ReadCursor, Inbox!Stops, Inbox!Rejected
<1>5. ASSUME NEW w \in Workers, NEW s \in Inbox!Streams, Inbox!Answered(w, s)
      PROVE  kept' /\ handled'
  BY <1>0, <1>5 DEF Inbox!Answered, Inbox!Stored, Typed
\* A run moves the cursor to its start: what waits is recent enough, or was in a rejected batch.
<1>6. ASSUME NEW w \in Workers, Inbox!Finish(w)
      PROVE  kept' /\ handled'
  <2>1. UNCHANGED <<iRow, said, place, decided>> /\ Inbox!At(w, "read") /\ iWorker[w].todo = {} /\ iWorker[w] \in Runs
    BY <1>0, <1>6 DEF Inbox!Finish, Typed
  <2>2. ASSUME NEW i \in Items \ (skipped' \cup beyond'), said[i] # Inbox!Never, iRow[i] = "none"
        PROVE  said[i] >= wanted(i)'
    <3>1. /\ i \in Items \ (skipped \cup beyond)
          /\ ~ (place[i] \in iWorker[w].rejected \cap Batches /\ said[i] < Inbox!Since(iWorker[w].started))
          /\ ~ (i \in iWorker[w].out /\ said[i] < Inbox!Since(iWorker[w].started))
      BY <1>6, <2>2 DEF Inbox!Finish
    <3>2. said[i] >= Inbox!Since(iWorker[w].started) \/ place[i] \in iWorker[w].rejected \/ i \in iWorker[w].out
      BY <1>0, <2>1, <2>2, <3>1 DEF RunsCover, WaitsFor, Covers
    <3>3. said[i] \in Nat /\ Inbox!Since(iWorker[w].started) \in Nat
      BY <1>0, <2>1 DEF Typed, Inbox!Never, Inbox!Since, Runs, Inbox!Time
    <3>4. CASE said[i] >= Inbox!Since(iWorker[w].started) /\ cursor'.mentions = iWorker[w].started
      BY <1>6, <2>1, <3>4 DEF Inbox!Finish
    <3>5. CASE place[i] # "mentions"
      <4>1. place[i] \in Batches
        BY <1>0, <3>5 DEF Typed, Inbox!Streams, Inbox!InboxSyncParameters
      <4>2. said[i] >= Inbox!Since(iWorker[w].started)
        BY <3>1, <3>2, <3>3, <4>1
      <4>3. QED
        BY <1>6, <2>1, <3>5, <4>2 DEF Inbox!Finish
    <3>6. CASE place[i] = "mentions" /\ cursor'.mentions = cursor.mentions
      BY <1>0, <2>1, <2>2, <3>1, <3>6
    <3>7. CASE place[i] = "mentions" /\ cursor'.mentions # cursor.mentions
      <4>1. cursor'.mentions = iWorker[w].started /\ Mentions \ iWorker[w].rejected # {}
        BY <1>6, <3>7 DEF Inbox!Finish
      <4>2. "mentions" \notin iWorker[w].rejected
        BY <4>1 DEF Inbox!InboxSyncParameters
      <4>3. said[i] >= Inbox!Since(iWorker[w].started)
        BY <3>1, <3>2, <3>3, <3>7, <4>2
      <4>4. QED
        BY <3>4, <4>1, <4>3
    <3>8. QED
      BY <3>5, <3>6, <3>7
  <2>3. QED
    BY <1>0, <2>1, <2>2
<1>7. QED
  BY <1>1, <1>2, <1>3, <1>4, <1>5, <1>6 DEF Inbox!InboxSyncNext

LEMMA SyncInductive ==
  ASSUME Inbox!InboxSyncParameters
  PROVE  /\ Inbox!InboxSyncInit => SyncInv
         /\ SyncInv /\ [Inbox!InboxSyncNext]_Inbox!isvars => SyncInv'
<1>1. Inbox!InboxSyncInit => SyncInv
  <2>1. SUFFICES ASSUME Inbox!InboxSyncInit PROVE SyncInv
    OBVIOUS
  <2>2. Typed
    BY <2>1, Idles DEF Inbox!InboxSyncInit, Typed, Inbox!InboxSyncParameters, Inbox!Never, Inbox!Time
  <2>3. OnTime
    BY <2>1 DEF Inbox!InboxSyncInit, OnTime, Inbox!Idle, Inbox!Never, Inbox!Since
  <2>4. RunsCover /\ Inbox!NothingSkipped
    BY <2>1 DEF Inbox!InboxSyncInit, RunsCover, Inbox!NothingSkipped, WaitsFor
  <2>6. OutsPastBound
    BY <2>1 DEF Inbox!InboxSyncInit, OutsPastBound, LeftOut, Inbox!Idle
  <2>5. QED
    BY <2>2, <2>3, <2>4, <2>6 DEF SyncInv
<1>2. SyncInv /\ [Inbox!InboxSyncNext]_Inbox!isvars => SyncInv'
  BY TypedStep, OnTimeStep, CoverStep, LeftOutStep, SkipStep DEF SyncInv
<1>3. QED
  BY <1>1, <1>2

\* Every variable keeps its type.
THEOREM InboxSyncTyped == ASSUME Inbox!InboxSyncParameters PROVE Inbox!InboxSyncSpec => []Inbox!InboxSyncTypeOK
<1>1. SyncInv => Inbox!InboxSyncTypeOK
  BY DEF SyncInv, Typed, Inbox!InboxSyncTypeOK, Runs
<1>2. QED
  BY <1>1, SyncInductive, PTL DEF Inbox!InboxSyncSpec

\* No comment or mention is passed over, whatever runs overlap, fail, are retried or read what
\* was indexed late (engagement-processor.ts, syncChannel); and what users made of one stays.
THEOREM NonePassedOver == ASSUME Inbox!InboxSyncParameters PROVE Inbox!InboxSyncSpec => []Inbox!NothingSkipped
<1>1. SyncInv => Inbox!NothingSkipped
  BY DEF SyncInv
<1>2. QED
  BY <1>1, SyncInductive, PTL DEF Inbox!InboxSyncSpec

-----------------------------------------------------------------------------
(* What is true of the parts is true of MCPipeline: a step of another part leaves a part's *)
(* variables alone, so that a behaviour of MCPipeline is, of each part, one of its own.    *)

allVars == <<vars, txVars, kVars, callVars, aVars, oVars, mVars, iVars, part>>

LEMMA RollupBehaves == AllSpec => Statements!Spec
<1>1. AllInit => Statements!Init
  BY DEF AllInit
<1>2. [AllNext]_allVars => [Statements!Next]_Statements!vars
  BY DEF AllNext, allVars, txVars, Statements!vars
<1> QED
  BY <1>1, <1>2, PTL DEF AllSpec, allVars, Statements!Spec

LEMMA CredentialBehaves == AllSpec => Credential!Spec
<1>1. AllInit => Credential!Init
  BY DEF AllInit
<1>2. [AllNext]_allVars => [Credential!Next]_Credential!vars
  BY DEF AllNext, allVars, kVars, Credential!vars, Credential!issued
<1> QED
  BY <1>1, <1>2, PTL DEF AllSpec, allVars, Credential!Spec

LEMMA CallsBehave == AllSpec => Adapters!CallsSpec
<1>1. AllInit => Adapters!CallsInit
  BY DEF AllInit
<1>2. [AllNext]_allVars => [Adapters!CallsNext]_Adapters!cvars
  BY DEF AllNext, allVars, callVars, Adapters!cvars
<1> QED
  BY <1>1, <1>2, PTL DEF AllSpec, allVars, Adapters!CallsSpec

LEMMA CampaignBehaves == AllSpec => Campaign!Spec
<1>1. AllInit => Campaign!Init
  BY DEF AllInit
<1>2. [AllNext]_allVars => [Campaign!Next]_Campaign!vars
  BY DEF AllNext, allVars, aVars, Campaign!vars, Campaign!rows, Campaign!history
<1> QED
  BY <1>1, <1>2, PTL DEF AllSpec, allVars, Campaign!Spec

LEMMA OrganizationBehaves == AllSpec => Organization!OrganizationsSpec
<1>1. AllInit => Organization!OrganizationsInit
  BY DEF AllInit
<1>2. [AllNext]_allVars => [Organization!OrganizationsNext]_Organization!ovars
  BY DEF AllNext, allVars, oVars, Organization!ovars
<1> QED
  BY <1>1, <1>2, PTL DEF AllSpec, allVars, Organization!OrganizationsSpec

LEMMA LibraryBehaves == AllSpec => Library!MediaSpec
<1>1. AllInit => Library!MediaInit
  BY DEF AllInit
<1>2. [AllNext]_allVars => [Library!MediaNext]_Library!mvars
  BY DEF AllNext, allVars, mVars, Library!mvars
<1> QED
  BY <1>1, <1>2, PTL DEF AllSpec, allVars, Library!MediaSpec

LEMMA InboxBehaves == AllSpec => Inbox!InboxSyncSpec
<1>1. AllInit => Inbox!InboxSyncInit
  BY DEF AllInit
<1>2. [AllNext]_allVars => [Inbox!InboxSyncNext]_Inbox!isvars
  BY DEF AllNext, allVars, iVars, Inbox!isvars
<1> QED
  BY <1>1, <1>2, PTL DEF AllSpec, allVars, Inbox!InboxSyncSpec

\* The variables of every part keep their types.
THEOREM PartsTyped == AllSpec => []TypesOK
<1>1. Statements!Spec => []Statements!TypeOK
  BY PartsParameters, TransactionsTyped
<1>2. Credential!Spec => []Credential!CredentialsTypeOK
  BY PartsParameters, Credential!CredentialsTyped
<1>3. Adapters!CallsSpec => []Adapters!CallsTypeOK
  BY PartsParameters, CallsTyped
<1>4. Campaign!Spec => []Campaign!CampaignsTypeOK
  BY PartsParameters, Campaign!CampaignsTyped
<1>5. Organization!OrganizationsSpec => []Organization!OrganizationsTypeOK
  BY PartsParameters, OrganizationsTyped
<1>6. Library!MediaSpec => []Library!MediaTypeOK
  BY PartsParameters, LibraryTyped
<1>7. Inbox!InboxSyncSpec => []Inbox!InboxSyncTypeOK
  BY PartsParameters, InboxSyncTyped
<1>8. /\ Statements!TypeOK /\ Credential!CredentialsTypeOK /\ Adapters!CallsTypeOK
      /\ Campaign!CampaignsTypeOK /\ Organization!OrganizationsTypeOK /\ Library!MediaTypeOK
      /\ Inbox!InboxSyncTypeOK
      => TypesOK
  BY DEF TypesOK
<1> QED
  BY <1>1, <1>2, <1>3, <1>4, <1>5, <1>6, <1>7, <1>8, RollupBehaves, CredentialBehaves, CallsBehave,
     CampaignBehaves, OrganizationBehaves, LibraryBehaves, InboxBehaves, PTL

\* "The post row never disagrees with its targets" (queries/posts.ts:11) is true of a post
\* with one target, whatever workers and requests commit beside each other and whatever
\* Postgres aborts.
THEOREM OneTargetAgreesAlways == AllSpec => []OneTargetAgrees
<1>1. Statements!Spec => []Statements!OneTargetAgrees
  BY PartsParameters, OneTargetInAgreement
<1>2. Statements!OneTargetAgrees => OneTargetAgrees
  BY DEF OneTargetAgrees
<1> QED
  BY <1>1, <1>2, RollupBehaves, PTL

\* The roll-ups of the workers wait for each other in a circle only where `schedule`
\* (posts.service.ts) is among them: every other path takes its rows before the post.
THEOREM WorkersDeadlockOnlyWithPostFirstAlways == AllSpec => []WorkersDeadlockOnlyWithPostFirst
<1>1. Statements!Spec => []Statements!WorkersDeadlockOnlyWithPostFirst
  BY PartsParameters, DeadlocksNeedPostFirst
<1>2. Statements!WorkersDeadlockOnlyWithPostFirst => WorkersDeadlockOnlyWithPostFirst
  BY DEF WorkersDeadlockOnlyWithPostFirst
<1> QED
  BY <1>1, <1>2, RollupBehaves, PTL

\* Under the row's lock no worker is left with a dead token (channel-tokens.ts:20): the token
\* stored is the platform's current one, unless access was revoked or the answer with the next
\* was lost, wherever each login of a platform that rotates is one channel.
THEOREM HoldsCurrentTokenAlways == AllSpec /\ []Credential!OneChannelEach => []HoldsCurrentToken
<1>1. Credential!Spec /\ []Credential!OneChannelEach => []Credential!HoldsCurrentToken
  BY PartsParameters, Credential!CurrentTokenHeld
<1>2. Credential!HoldsCurrentToken => HoldsCurrentToken
  BY DEF HoldsCurrentToken
<1> QED
  BY <1>1, <1>2, CredentialBehaves, PTL

\* Users are asked to reconnect only what cannot be used, save for a mark written late
\* (channel-tokens.ts, ad-tokens.ts).
THEOREM ReauthMeansReconnectAlways == AllSpec => []ReauthMeansReconnect
<1>1. Credential!Spec => []Credential!ReauthMeansReconnect
  BY PartsParameters, Credential!MarkedNeedReconnect
<1>2. Credential!ReauthMeansReconnect => ReauthMeansReconnect
  BY DEF ReauthMeansReconnect
<1> QED
  BY <1>1, <1>2, CredentialBehaves, PTL

\* No worker stores a token over a disconnect (channel-tokens.ts): only a connection does.
THEOREM WipedStaysWipedAlways == AllSpec => WipedStaysWiped
<1>1. Credential!Spec => Credential!WipedStaysWiped
  BY PartsParameters, Credential!WipesStay
<1> QED
  BY <1>1, CredentialBehaves, PTL DEF WipedStaysWiped

\* Every adapter's calls implement SendOnce: after an error that leaves open whether a post was
\* shown nothing is sent again, and no call is repeated that may have shown one.
THEOREM AdaptersKeepPromise == AllSpec => CallsKeepPromise
<1>1. Adapters!CallsSpec => Adapters!CallsKeepPromise
  BY PartsParameters, CallsKeepPromiseAlways
<1> QED
  BY <1>1, CallsBehave, PTL DEF CallsKeepPromise

\* An organization keeps an owner, save between two requests that change members at once, and
\* an invitation lets one user in (organizations.service.ts).
THEOREM OrganizationKept == AllSpec => []MembersKept
<1>1. Organization!OrganizationsSpec => []Organization!MembersKept
  BY PartsParameters, MembersKeptAlways
<1>2. Organization!MembersKept => MembersKept
  BY DEF MembersKept
<1> QED
  BY <1>1, <1>2, OrganizationBehaves, PTL

\* A file that counts as ready is there, as declared (media.service.ts).
THEOREM LibraryKept == AllSpec => []FilesKept
<1>1. Library!MediaSpec => []Library!FilesKept
  BY PartsParameters, FilesKeptAlways
<1>2. Library!FilesKept => FilesKept
  BY DEF FilesKept
<1> QED
  BY <1>1, <1>2, LibraryBehaves, PTL

\* No comment or mention is passed over by the syncs that follow each other, and none read
\* again undoes what users made of it (engagement-processor.ts, syncChannel).
THEOREM NothingSkippedAlways == AllSpec => []NothingSkipped
<1>1. Inbox!InboxSyncSpec => []Inbox!NothingSkipped
  BY PartsParameters, NonePassedOver
<1>2. Inbox!NothingSkipped => NothingSkipped
  BY DEF NothingSkipped
<1> QED
  BY <1>1, <1>2, InboxBehaves, PTL

\* A campaign exists once on its platform, plus once for every retry a user confirmed and every
\* creation written over (campaign-state.ts, ads-writer.ts).
THEOREM CampaignsWithinBudget == AllSpec => []CreationBudget
<1>1. Campaign!Spec => []Campaign!CreationBudget
  BY PartsParameters, Campaign!CreationBudgetAlways
<1>2. Campaign!CreationBudget => CreationBudget
  BY DEF CreationBudget
<1> QED
  BY <1>1, <1>2, CampaignBehaves, PTL

\* What is created is what was approved last, and the spend starts no more often than people
\* asked for (ads.campaigns.service.ts, update and approve; ads-writer.ts, changeStatus).
THEOREM SpentAsAskedAlways == AllSpec => []SpentAsAsked
<1>1. Campaign!Spec => []Campaign!CreatedAsApproved
  BY PartsParameters, Campaign!CreatedAsApprovedAlways
<1>2. Campaign!Spec => []Campaign!StartedAsAsked
  BY PartsParameters, Campaign!StartedAsAskedAlways
<1>3. Campaign!CreatedAsApproved /\ Campaign!StartedAsAsked => SpentAsAsked
  BY DEF SpentAsAsked
<1> QED
  BY <1>1, <1>2, <1>3, CampaignBehaves, PTL

\* The sync brings back nothing people have taken down (reconcile.ts).
THEOREM SyncNeverRevivesAlways == AllSpec => SyncNeverRevives
<1>1. Campaign!Spec => Campaign!SyncNeverRevives
  BY PartsParameters, Campaign!SyncRevivesNothing
<1> QED
  BY <1>1, CampaignBehaves, PTL DEF SyncNeverRevives

=============================================================================
