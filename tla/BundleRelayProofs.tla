-------------------------- MODULE BundleRelayProofs --------------------------
(***************************************************************************)
(* What BundleRelay guarantees for any minutes, contents, faults and       *)
(* repairs.                                                                *)
(***************************************************************************)
EXTENDS BundleRelay, TLAPS

(* What the relay read about a bundle is what it will write for it.        *)
LEMMA SourceFact ==
    ASSUME rset \in SUBSET (Bundles \X Nat), NEW b \in NamesOf(rset)
    PROVE  SourceOf(b) \in Nat /\ <<b, SourceOf(b)>> \in rset
<1>1. PICK p \in rset : p[1] = b
  BY DEF NamesOf
<1>2. p = <<b, p[2]>> /\ p[2] \in IdsOf(rset)
  BY <1>1 DEF IdsOf
<1>3. \E i \in IdsOf(rset) : <<b, i>> \in rset
  BY <1>2
<1>4. <<b, SourceOf(b)>> \in rset
  BY <1>3 DEF SourceOf
<1>5. SourceOf(b) \in Nat
  BY <1>4
<1> QED
  BY <1>4, <1>5

-----------------------------------------------------------------------------
(* Type correctness.                                                       *)

LEMMA TypeInit == Init => TypeOK
BY ConstantsAssumption DEF Init, TypeOK, Bundles, Statuses, RelaySteps, DispatchSteps

(* The statements several actions share keep the types of what they write. *)
LEMMA UpsertIntentType ==
    ASSUME TypeOK, NEW b \in Bundles, UpsertIntent(b)
    PROVE  /\ ids' \in Nat
           /\ intent' \in [Bundles -> Nat]
           /\ relayed' \in [Bundles -> {"null", "fresh", "stale"}]
           /\ withdrawn' \in SUBSET Bundles
BY DEF UpsertIntent, TypeOK

LEMMA DeleteIntentsType ==
    ASSUME TypeOK, NEW S \in SUBSET Bundles, DeleteIntentsOf(S)
    PROVE  /\ intent' \in [Bundles -> Nat]
           /\ relayed' \in [Bundles -> {"null", "fresh", "stale"}]
           /\ withdrawn' \in SUBSET Bundles
BY DEF DeleteIntentsOf, TypeOK

LEMMA DeleteOpsRowsType ==
    ASSUME TypeOK, NEW S, DeleteOpsRows(S)
    PROVE  /\ status' \in [Bundles -> Statuses]
           /\ src' \in [Bundles -> Nat]
           /\ retry' \in [Bundles -> Nat]
           /\ due' \in [Bundles -> BOOLEAN]
           /\ cache' \in [Minutes -> 0..MaxVer]
           /\ cur' \in SUBSET Bundles
<1> DEFINE doomed == {b \in S : Present(b)}
<1>1. status' \in [Bundles -> Statuses]
  BY DEF DeleteOpsRows, TypeOK, Statuses
<1>2. src' \in [Bundles -> Nat] /\ retry' \in [Bundles -> Nat] /\ due' \in [Bundles -> BOOLEAN]
  BY DEF DeleteOpsRows, TypeOK
<1>3. cache' = [m \in Minutes |-> IF \E b \in doomed : MinuteOf(b) = m THEN 0 ELSE cache[m]]
  BY DEF DeleteOpsRows
<1>4. 0 \in 0..MaxVer
  BY ConstantsAssumption
<1>5. cache' \in [Minutes -> 0..MaxVer]
  <2> HIDE DEF doomed
  <2> QED
    BY <1>3, <1>4 DEF TypeOK
<1>6. cur' \in SUBSET Bundles
  BY DEF DeleteOpsRows, TypeOK
<1> QED
  BY <1>1, <1>2, <1>5, <1>6

LEMMA DropBatchType ==
    ASSUME TypeOK, DropBatch
    PROVE  /\ dpc' \in DispatchSteps
           /\ batch' \in SUBSET (Bundles \X Nat)
           /\ drop' \in SUBSET Bundles
           /\ cur' \in SUBSET Bundles
           /\ flight' \in {Nothing} \cup Bundles \X (1..MaxVer)
           /\ sentIds' \in SUBSET Bundles
           /\ broker' \in SUBSET (Bundles \X (1..MaxVer))
BY DEF DropBatch, TypeOK, DispatchSteps

LEMMA MarkFailedType ==
    ASSUME TypeOK, NEW b \in Bundles, MarkFailed(b)
    PROVE  /\ status' \in [Bundles -> Statuses]
           /\ retry' \in [Bundles -> Nat]
           /\ due' \in [Bundles -> BOOLEAN]
           /\ src' \in [Bundles -> Nat]
           /\ cache' \in [Minutes -> 0..MaxVer]
<1>1. CASE b \in cur
  <2>1. status' \in [Bundles -> Statuses]
    BY <1>1 DEF MarkFailed, TypeOK, Statuses
  <2>2. retry' \in [Bundles -> Nat]
    BY <1>1 DEF MarkFailed, TypeOK
  <2>3. due' \in [Bundles -> BOOLEAN] /\ UNCHANGED <<src, cache>>
    BY <1>1 DEF MarkFailed, TypeOK
  <2> QED
    BY <2>1, <2>2, <2>3 DEF TypeOK
<1>2. CASE b \notin cur
  BY <1>2 DEF MarkFailed, TypeOK, opsVars
<1> QED
  BY <1>1, <1>2

LEMMA TypeStep == TypeOK /\ [Next]_vars => TypeOK'
<1> SUFFICES ASSUME TypeOK, [Next]_vars PROVE TypeOK'
  OBVIOUS
<1> USE ConstantsAssumption
<1>1. ASSUME NEW m \in Minutes, WriteSnapshots(m) PROVE TypeOK'
  BY <1>1 DEF WriteSnapshots, TypeOK, opsVars, relayVars, dispVars
<1>2. ASSUME NEW m \in Minutes, EnqueueBundle(m) \/ EnqueueReportsError(m) PROVE TypeOK'
  <2>1. ready[m] \in 1..MaxVer
    BY <1>2 DEF EnqueueBundle, EnqueueReportsError, TypeOK
  <2>2. <<m, ready[m]>> \in Bundles
    BY <2>1 DEF Bundles
  <2>3. UpsertIntent(<<m, ready[m]>>)
    BY <1>2 DEF EnqueueBundle, EnqueueReportsError
  <2>4. /\ ids' \in Nat
        /\ intent' \in [Bundles -> Nat]
        /\ relayed' \in [Bundles -> {"null", "fresh", "stale"}]
        /\ withdrawn' \in SUBSET Bundles
    BY <2>2, <2>3, UpsertIntentType
  <2>5. ready' \in [Minutes -> 0..MaxVer] /\ faults' \in 0..MaxFaults
    BY <1>2 DEF EnqueueBundle, EnqueueReportsError, TypeOK
  <2>6. UNCHANGED <<writes, snap, unfilled, opsVars, relayVars, dispVars, broker, repairs>>
    BY <1>2 DEF EnqueueBundle, EnqueueReportsError
  <2> QED
    BY <2>4, <2>5, <2>6 DEF TypeOK, opsVars, relayVars, dispVars
<1>3. ASSUME NEW m \in Minutes, SuppressTail(m) PROVE TypeOK'
  BY <1>3 DEF SuppressTail, DeleteIntentsOf, TypeOK, opsVars, relayVars, dispVars
<1>4. ASSUME NEW m \in Minutes, NEW n \in Minutes, ClearRange(m, n) PROVE TypeOK'
  <2>1. /\ intent' \in [Bundles -> Nat]
        /\ relayed' \in [Bundles -> {"null", "fresh", "stale"}]
        /\ withdrawn' \in SUBSET Bundles
    BY <1>4, DeleteIntentsType DEF ClearRange
  <2>2. snap' = [k \in Minutes |-> IF k \in m..n THEN 0 ELSE snap[k]]
    BY <1>4 DEF ClearRange
  <2>3. snap' \in [Minutes -> 0..MaxVer]
    BY <2>2 DEF TypeOK
  <2>4. unfilled' \in SUBSET Minutes
    BY <1>4 DEF ClearRange, TypeOK
  <2>5. repairs' \in 0..MaxRepairs
    BY <1>4 DEF ClearRange, TypeOK
  <2> QED
    BY <1>4, <2>1, <2>3, <2>4, <2>5 DEF ClearRange, TypeOK, opsVars, relayVars, dispVars
<1>5. ASSUME NEW m \in Minutes, Rematerialize(m) PROVE TypeOK'
  BY <1>5 DEF Rematerialize, TypeOK, opsVars, relayVars, dispVars
<1>6. CASE SelectSent
  BY <1>6 DEF SelectSent, TypeOK, RelaySteps, mainVars, opsVars, dispVars
<1>7. CASE DeleteSentIntents
  BY <1>7 DEF DeleteSentIntents, TypeOK, RelaySteps, opsVars, dispVars
<1>8. CASE DeleteSentRows \/ DeleteOrphans
  <2>1. DeleteOpsRows(NamesOf(rset))
    BY <1>8 DEF DeleteSentRows, DeleteOrphans
  <2>2. /\ status' \in [Bundles -> Statuses]
        /\ src' \in [Bundles -> Nat]
        /\ retry' \in [Bundles -> Nat]
        /\ due' \in [Bundles -> BOOLEAN]
        /\ cache' \in [Minutes -> 0..MaxVer]
        /\ cur' \in SUBSET Bundles
    BY <2>1, DeleteOpsRowsType
  <2> QED
    BY <1>8, <2>2 DEF DeleteSentRows, DeleteOrphans, TypeOK, RelaySteps, mainVars
<1>9. CASE SelectUnsent \/ FindOrphans
  <2>1. rset' \in SUBSET (Bundles \X Nat)
    BY <1>9 DEF SelectUnsent, FindOrphans, TypeOK
  <2>2. rpc' \in RelaySteps
    BY <1>9 DEF SelectUnsent, FindOrphans, RelaySteps
  <2> QED
    BY <1>9, <2>1, <2>2 DEF SelectUnsent, FindOrphans, TypeOK, mainVars, opsVars, dispVars
<1>10. CASE LoadDueIntents
  BY <1>10 DEF LoadDueIntents, TypeOK, RelaySteps, mainVars, opsVars, dispVars
<1>11. CASE UpsertOpsRows
  <2>1. \A b \in NamesOf(rset) : SourceOf(b) \in Nat
    BY SourceFact DEF TypeOK
  <2>2. NamesOf(rset) \in SUBSET Bundles
    BY DEF TypeOK, NamesOf
  <2> QED
    BY <1>11, <2>1, <2>2 DEF UpsertOpsRows, TypeOK, RelaySteps, Statuses, mainVars, dispVars
<1>12. ASSUME NEW b \in Bundles, ReadSnapshot(b) PROVE TypeOK'
  <2>1. MinuteOf(b) \in Minutes
    BY DEF MinuteOf, Bundles
  <2>2. snap[MinuteOf(b)] \in 0..MaxVer
    BY <2>1 DEF TypeOK
  <2>3. hand' \in {Nothing} \cup Minutes \X (1..MaxVer)
    <3>1. CASE snap[MinuteOf(b)] = 0
      BY <1>12, <3>1 DEF ReadSnapshot
    <3>2. CASE snap[MinuteOf(b)] # 0
      BY <1>12, <2>1, <2>2, <3>2 DEF ReadSnapshot
    <3> QED
      BY <3>1, <3>2
  <2> QED
    BY <1>12, <2>3 DEF ReadSnapshot, TypeOK, mainVars, opsVars, dispVars
<1>13. CASE WriteCache
  <2>1. hand[1] \in Minutes /\ hand[2] \in 0..MaxVer
    BY <1>13 DEF WriteCache, TypeOK
  <2>2. cache' \in [Minutes -> 0..MaxVer] /\ faults' \in 0..MaxFaults
    BY <1>13, <2>1 DEF WriteCache, TypeOK
  <2> QED
    BY <1>13, <2>2 DEF WriteCache, TypeOK, mainVars, dispVars
<1>14. CASE MarkRelayed
  BY <1>14 DEF MarkRelayed, TypeOK, RelaySteps, opsVars, dispVars
<1>15. CASE ClaimBatch
  <2>1. status' \in [Bundles -> Statuses] /\ due' \in [Bundles -> BOOLEAN]
    BY <1>15 DEF ClaimBatch, TypeOK, Statuses
  <2>2. batch' \in SUBSET (Bundles \X Nat) /\ cur' \in SUBSET Bundles
    BY <1>15 DEF ClaimBatch, TypeOK
  <2> QED
    BY <1>15, <2>1, <2>2 DEF ClaimBatch, TypeOK, DispatchSteps, mainVars, relayVars
<1>16. CASE FilterLiveIntentRows
  BY <1>16 DEF FilterLiveIntentRows, NamesOf, TypeOK, DispatchSteps, mainVars, opsVars, relayVars
<1>17. CASE DeleteStaleRows
  <2>1. DeleteOpsRows(drop \cap cur)
    BY <1>17 DEF DeleteStaleRows
  <2>2. /\ status' \in [Bundles -> Statuses]
        /\ src' \in [Bundles -> Nat]
        /\ retry' \in [Bundles -> Nat]
        /\ due' \in [Bundles -> BOOLEAN]
        /\ cache' \in [Minutes -> 0..MaxVer]
        /\ cur' \in SUBSET Bundles
    BY <2>1, DeleteOpsRowsType
  <2> QED
    BY <1>17, <2>2 DEF DeleteStaleRows, TypeOK, DispatchSteps, mainVars, relayVars
<1>18. CASE PublishRow
  <2>1. PICK p \in batch :
            /\ BodyFor(p[1]) # 0
            /\ batch' = batch \ {p}
            /\ flight' = <<p[1], BodyFor(p[1])>>
    BY <1>18 DEF PublishRow
  <2>2. p[1] \in Bundles /\ MinuteOf(p[1]) \in Minutes
    BY DEF TypeOK, MinuteOf, Bundles
  <2>3. BodyFor(p[1]) \in 1..MaxVer
    <3>1. cache[MinuteOf(p[1])] \in 0..MaxVer /\ snap[MinuteOf(p[1])] \in 0..MaxVer
      BY <2>2 DEF TypeOK
    <3>2. BodyFor(p[1]) \in 0..MaxVer
      BY <3>1 DEF BodyFor
    <3> QED
      BY <2>1, <3>2
  <2> QED
    BY <1>18, <2>1, <2>2, <2>3 DEF PublishRow, TypeOK, mainVars, opsVars, relayVars
<1>19. CASE PayloadMissing \/ BatchError
  <2>1. DropBatch /\ faults' \in 0..MaxFaults
    BY <1>19 DEF PayloadMissing, BatchError, TypeOK
  <2>2. UNCHANGED <<mainVars, opsVars, relayVars, repairs>>
    BY <1>19 DEF PayloadMissing, BatchError
  <2> QED
    BY <2>1, <2>2, DropBatchType DEF TypeOK, mainVars, opsVars, relayVars
<1>20. CASE ConfirmAck
  BY <1>20 DEF ConfirmAck, Nothing, TypeOK, mainVars, opsVars, relayVars
<1>21. CASE ConfirmFails
  <2>1. flight[1] \in Bundles
    BY <1>21 DEF ConfirmFails, TypeOK, Nothing
  <2> QED
    BY <1>21, <2>1, MarkFailedType DEF ConfirmFails, TypeOK, mainVars, relayVars
<1>22. CASE MarkSentBatch
  BY <1>22 DEF MarkSentBatch, TypeOK, Statuses, DispatchSteps, mainVars, relayVars
<1>23. ASSUME NEW b \in Bundles, PruneDeadRow(b) PROVE TypeOK'
  BY <1>23 DEF PruneDeadRow, TypeOK, Statuses, mainVars, relayVars
<1>24. ASSUME NEW b \in Bundles, BecomeDue(b) \/ GrowStale(b) PROVE TypeOK'
  BY <1>24 DEF BecomeDue, GrowStale, TypeOK, mainVars, opsVars, relayVars, dispVars
<1>25. CASE Crash
  BY <1>25 DEF Crash, DropBatch, Nothing, TypeOK, RelaySteps, DispatchSteps, opsVars
<1>26. CASE UNCHANGED vars
  BY <1>26 DEF vars, TypeOK, mainVars, opsVars, relayVars, dispVars
<1> QED
  BY <1>1, <1>2, <1>3, <1>4, <1>5, <1>6, <1>7, <1>8, <1>9, <1>10, <1>11, <1>12, <1>13,
     <1>14, <1>15, <1>16, <1>17, <1>18, <1>19, <1>20, <1>21, <1>22, <1>23, <1>24, <1>25, <1>26
  DEF Next, Pipeline, Repair, RelayStep, DispatchStep, Elapse

-----------------------------------------------------------------------------
(* The inductive invariant.                                                *)

Unsent(b) == Claimable(b) \/ status[b] = "dead"
Delivered == {p[1] : p \in broker}

(* No intent_id is used before it is handed out. *)
FreshIds ==
    /\ \A b \in Bundles : intent[b] <= ids /\ src[b] <= ids
    /\ \A p \in rset : p[2] <= ids

(* An intent_id in a row or in the relay's hands is the bundle's own. *)
IdsAreOwned ==
    /\ \A b, c \in Bundles : intent[b] # 0 /\ intent[c] = intent[b] => b = c
    /\ \A b, c \in Bundles : intent[b] # 0 /\ src[c] = intent[b] => b = c
    /\ \A b \in Bundles, p \in rset : intent[b] # 0 /\ p[2] = intent[b] => p[1] = b

(* 'sent', and the decision to write it, come after a confirm. *)
SentIsDelivered ==
    /\ \A b \in Bundles : status[b] = "sent" => b \in Delivered
    /\ sentIds \subseteq Delivered

(* A row the dispatcher still answers for exists and is not yet 'sent'. *)
CurIsUnsent == \A b \in cur : Unsent(b)

(* What the relay read stays true until it acts on it. *)
RelayPhases ==
    /\ rpc \in {"deleteIntents", "deleteSent"} => \A p \in rset : status[p[1]] = "sent"
    /\ rpc = "upsert" => \A p \in rset : intent[p[1]] # 0 \/ p[1] \in withdrawn



IInv ==
    /\ TypeOK
    /\ FreshIds
    /\ IdsAreOwned
    /\ SentIsDelivered
    /\ CurIsUnsent
    /\ RelayPhases
    /\ UnsentRowHasIntent

LEMMA IInvInit == Init => IInv
<1> SUFFICES ASSUME Init PROVE IInv
  OBVIOUS
<1>1. TypeOK
  BY TypeInit
<1>2. FreshIds /\ IdsAreOwned
  BY DEF Init, FreshIds, IdsAreOwned
<1>3. SentIsDelivered /\ CurIsUnsent /\ RelayPhases
  BY DEF Init, SentIsDelivered, CurIsUnsent, RelayPhases
<1>4. UnsentRowHasIntent
  BY DEF Init, UnsentRowHasIntent, Claimable
<1> QED
  BY <1>1, <1>2, <1>3, <1>4 DEF IInv

-----------------------------------------------------------------------------
(* Intent ids.                                                             *)

(* Clearing ids and forgetting what was read harms nothing.                *)
LEMMA IdsShrink ==
    ASSUME TypeOK, FreshIds, IdsAreOwned,
           \A b \in Bundles : intent'[b] \in {intent[b], 0},
           \A b \in Bundles : src'[b] \in {src[b], 0},
           rset' \subseteq rset, ids' = ids
    PROVE  FreshIds' /\ IdsAreOwned'
<1>1. ids \in Nat
  BY DEF TypeOK
<1>2. FreshIds'
  BY <1>1 DEF FreshIds
<1>3. \A b, c \in Bundles : intent'[b] # 0 /\ intent'[c] = intent'[b] => b = c
  BY DEF IdsAreOwned
<1>4. \A b, c \in Bundles : intent'[b] # 0 /\ src'[c] = intent'[b] => b = c
  BY DEF IdsAreOwned
<1>5. \A b \in Bundles, p \in rset' : intent'[b] # 0 /\ p[2] = intent'[b] => p[1] = b
  BY DEF IdsAreOwned
<1> QED
  BY <1>2, <1>3, <1>4, <1>5 DEF IdsAreOwned

LEMMA UpsertIntentIds ==
    ASSUME TypeOK, FreshIds, IdsAreOwned, NEW d \in Bundles, UpsertIntent(d),
           UNCHANGED <<src, rset>>
    PROVE  FreshIds' /\ IdsAreOwned'
<1>1. CASE intent[d] # 0
  <2>1. ids' = ids /\ intent' = intent
    BY <1>1 DEF UpsertIntent, TypeOK
  <2> QED
    BY <2>1, IdsShrink
<1>2. CASE intent[d] = 0
  <2>1. ids \in Nat /\ ids' = ids + 1 /\ intent' = [intent EXCEPT ![d] = ids + 1]
    BY <1>2 DEF UpsertIntent, TypeOK
  <2>2. /\ \A b \in Bundles : intent[b] \in Nat /\ src[b] \in Nat
        /\ \A q \in rset : q[2] \in Nat
    BY DEF TypeOK
  <2>3. \A b \in Bundles : intent'[b] = IF b = d THEN ids + 1 ELSE intent[b]
    BY <2>1 DEF TypeOK
  <2>4. FreshIds'
    BY <2>1, <2>2, <2>3 DEF FreshIds
  <2>5. \A b, c \in Bundles : intent'[b] # 0 /\ intent'[c] = intent'[b] => b = c
    BY <2>1, <2>2, <2>3 DEF FreshIds, IdsAreOwned
  <2>6. \A b, c \in Bundles : intent'[b] # 0 /\ src'[c] = intent'[b] => b = c
    BY <2>1, <2>2, <2>3 DEF FreshIds, IdsAreOwned
  <2>7. \A b \in Bundles, q \in rset' : intent'[b] # 0 /\ q[2] = intent'[b] => q[1] = b
    BY <2>1, <2>2, <2>3 DEF FreshIds, IdsAreOwned
  <2> QED
    BY <2>4, <2>5, <2>6, <2>7 DEF IdsAreOwned
<1> QED
  BY <1>1, <1>2

LEMMA IdsStep == TypeOK /\ FreshIds /\ IdsAreOwned /\ [Next]_vars => FreshIds' /\ IdsAreOwned'
<1> SUFFICES ASSUME TypeOK, FreshIds, IdsAreOwned, [Next]_vars
             PROVE  FreshIds' /\ IdsAreOwned'
  OBVIOUS
<1> USE DEF mainVars, opsVars, relayVars, dispVars
<1>1. ASSUME NEW m \in Minutes, EnqueueBundle(m) \/ EnqueueReportsError(m)
      PROVE  FreshIds' /\ IdsAreOwned'
  <2>1. <<m, ready[m]>> \in Bundles /\ UpsertIntent(<<m, ready[m]>>) /\ UNCHANGED <<src, rset>>
    BY <1>1 DEF EnqueueBundle, EnqueueReportsError, TypeOK, Bundles
  <2> QED
    BY <2>1, UpsertIntentIds
<1>2. ASSUME NEW m \in Minutes, NEW n \in Minutes, SuppressTail(m) \/ ClearRange(m, n)
      PROVE  FreshIds' /\ IdsAreOwned'
  <2>1. PICK S : DeleteIntentsOf(S)
    BY <1>2 DEF SuppressTail, ClearRange
  <2>2. UNCHANGED <<src, rset, ids>>
    BY <1>2 DEF SuppressTail, ClearRange
  <2>3. \A b \in Bundles : intent'[b] \in {intent[b], 0}
    BY <2>1 DEF DeleteIntentsOf
  <2> QED
    BY <2>2, <2>3, IdsShrink
<1>3. CASE SelectSent \/ SelectUnsent
  <2>1. \A p \in rset' : p[1] \in Bundles /\ p[2] = src[p[1]]
    BY <1>3 DEF SelectSent, SelectUnsent
  <2>2. UNCHANGED <<intent, src, ids>>
    BY <1>3 DEF SelectSent, SelectUnsent
  <2> QED
    BY <2>1, <2>2 DEF FreshIds, IdsAreOwned
<1>4. CASE LoadDueIntents
  <2>1. \A p \in rset' : p[1] \in Bundles /\ p[2] = intent[p[1]]
    BY <1>4 DEF LoadDueIntents
  <2>2. UNCHANGED <<intent, src, ids>>
    BY <1>4 DEF LoadDueIntents
  <2> QED
    BY <2>1, <2>2 DEF FreshIds, IdsAreOwned
<1>5. CASE UpsertOpsRows
  <2>1. UNCHANGED <<intent, rset, ids>>
    BY <1>5 DEF UpsertOpsRows
  <2>2. \A b \in Bundles : src'[b] = src[b] \/ <<b, src'[b]>> \in rset
    BY <1>5, SourceFact DEF UpsertOpsRows, TypeOK
  <2>3. \A b \in Bundles : src'[b] <= ids
    BY <2>2 DEF FreshIds
  <2>4. \A b, c \in Bundles : intent[b] # 0 /\ src'[c] = intent[b] => b = c
    BY <2>2 DEF IdsAreOwned
  <2> QED
    BY <2>1, <2>3, <2>4 DEF FreshIds, IdsAreOwned
<1>6. CASE DeleteSentIntents
  <2>1. UNCHANGED <<src, rset, ids>>
    BY <1>6 DEF DeleteSentIntents
  <2>2. \A b \in Bundles : intent'[b] \in {intent[b], 0}
    BY <1>6 DEF DeleteSentIntents
  <2> QED
    BY <2>1, <2>2, IdsShrink
<1>7. CASE DeleteSentRows \/ DeleteOrphans \/ DeleteStaleRows
  <2>1. PICK S : DeleteOpsRows(S)
    BY <1>7 DEF DeleteSentRows, DeleteOrphans, DeleteStaleRows
  <2>2. UNCHANGED <<intent, ids>> /\ rset' \subseteq rset
    BY <1>7 DEF DeleteSentRows, DeleteOrphans, DeleteStaleRows
  <2>3. \A b \in Bundles : src'[b] \in {src[b], 0}
    BY <2>1 DEF DeleteOpsRows
  <2> QED
    BY <2>2, <2>3, IdsShrink
<1>8. ASSUME NEW d \in Bundles, PruneDeadRow(d) PROVE FreshIds' /\ IdsAreOwned'
  <2>1. UNCHANGED <<intent, rset, ids>>
    BY <1>8 DEF PruneDeadRow
  <2>2. \A b \in Bundles : src'[b] \in {src[b], 0}
    BY <1>8 DEF PruneDeadRow, TypeOK
  <2> QED
    BY <2>1, <2>2, IdsShrink
<1>9. CASE FindOrphans \/ MarkRelayed \/ Crash
  <2>1. UNCHANGED <<intent, src, ids>> /\ rset' \subseteq rset
    BY <1>9 DEF FindOrphans, MarkRelayed, Crash
  <2> QED
    BY <2>1, IdsShrink
<1>10. ASSUME UNCHANGED <<intent, src, rset, ids>> PROVE FreshIds' /\ IdsAreOwned'
  BY <1>10, IdsShrink
<1>11. ASSUME NEW m \in Minutes, WriteSnapshots(m) \/ Rematerialize(m)
       PROVE  UNCHANGED <<intent, src, rset, ids>>
  BY <1>11 DEF WriteSnapshots, Rematerialize
<1>12. ASSUME NEW b \in Bundles, ReadSnapshot(b) \/ BecomeDue(b) \/ GrowStale(b)
       PROVE  UNCHANGED <<intent, src, rset, ids>>
  BY <1>12 DEF ReadSnapshot, BecomeDue, GrowStale
<1>13. ASSUME \/ WriteCache \/ ClaimBatch \/ FilterLiveIntentRows \/ PublishRow
              \/ PayloadMissing \/ ConfirmAck \/ MarkSentBatch \/ BatchError
       PROVE  UNCHANGED <<intent, src, rset, ids>>
  BY <1>13 DEF WriteCache, ClaimBatch, FilterLiveIntentRows, PublishRow, PayloadMissing,
     ConfirmAck, MarkSentBatch, BatchError
<1>14. CASE ConfirmFails
  <2>1. UNCHANGED <<intent, src, rset, ids>>
    BY <1>14 DEF ConfirmFails, MarkFailed
  <2> QED
    BY <2>1, <1>10
<1>15. CASE UNCHANGED vars
  BY <1>15, <1>10 DEF vars
<1> QED
  BY <1>1, <1>2, <1>3, <1>4, <1>5, <1>6, <1>7, <1>8, <1>9, <1>10, <1>11, <1>12, <1>13,
     <1>14, <1>15
  DEF Next, Pipeline, Repair, RelayStep, DispatchStep, Elapse

-----------------------------------------------------------------------------
(* What a step may do to a row, an intent and the relay's reading.         *)

LEMMA StatusEffect ==
    ASSUME TypeOK, CurIsUnsent, [Next]_vars, NEW b \in Bundles
    PROVE  /\ status'[b] = "sent" => status[b] = "sent" \/ b \in sentIds
           /\ Unsent(b)' => Unsent(b) \/ (rpc = "upsert" /\ b \in NamesOf(rset))
           /\ status[b] = "sent" => status'[b] = "sent" \/ rpc' \in {"cache", "prune", "mirror"}
<1> DEFINE Kept == status'[b] = status[b]
           Effect ==
               /\ status'[b] = "sent" => status[b] = "sent" \/ b \in sentIds
               /\ Unsent(b)' => Unsent(b) \/ (rpc = "upsert" /\ b \in NamesOf(rset))
               /\ status[b] = "sent" =>
                      status'[b] = "sent" \/ rpc' \in {"cache", "prune", "mirror"}
<1> SUFFICES Effect
  OBVIOUS
<1> USE DEF mainVars, opsVars, relayVars, dispVars
<1>0. ASSUME Kept PROVE Effect
  BY <1>0 DEF Unsent, Claimable
<1>1. CASE UpsertOpsRows
  <2>1. rpc = "upsert" /\ rpc' = "cache"
    BY <1>1 DEF UpsertOpsRows
  <2>2. status'[b] = IF b \in NamesOf(rset) THEN "pending" ELSE status[b]
    BY <1>1 DEF UpsertOpsRows
  <2> QED
    BY <2>1, <2>2 DEF Unsent, Claimable
<1>2. CASE DeleteSentRows \/ DeleteOrphans
  <2>1. status'[b] \in {status[b], "absent"}
    BY <1>2 DEF DeleteSentRows, DeleteOrphans, DeleteOpsRows
  <2>2. rpc' \in {"prune", "mirror"}
    BY <1>2 DEF DeleteSentRows, DeleteOrphans
  <2> QED
    BY <2>1, <2>2 DEF Unsent, Claimable
<1>3. CASE DeleteStaleRows
  <2>1. status'[b] \in {status[b], "absent"} /\ (b \notin cur => Kept)
    BY <1>3 DEF DeleteStaleRows, DeleteOpsRows
  <2>2. b \in cur => status[b] # "sent"
    BY DEF Unsent, Claimable, CurIsUnsent
  <2> QED
    BY <2>1, <2>2 DEF Unsent, Claimable
<1>4. CASE ClaimBatch
  <2>1. status'[b] = status[b] \/ (Claimable(b) /\ status'[b] = "sending")
    BY <1>4 DEF ClaimBatch
  <2> QED
    BY <2>1 DEF Unsent, Claimable
<1>5. CASE ConfirmFails
  <2>1. MarkFailed(flight[1])
    BY <1>5 DEF ConfirmFails
  <2>2. CASE flight[1] = b /\ b \in cur
    <3>1. status'[b] \in {"dead", "failed"} /\ status[b] # "sent"
      <4>1. status' = [status EXCEPT ![b] = IF retry[b] + 1 >= MaxRetry THEN "dead" ELSE "failed"]
        BY <2>1, <2>2 DEF MarkFailed
      <4>2. status'[b] = IF retry[b] + 1 >= MaxRetry THEN "dead" ELSE "failed"
        BY <4>1 DEF TypeOK
      <4> QED
        BY <2>2, <4>2 DEF CurIsUnsent, Unsent, Claimable
    <3>2. Unsent(b)
      BY <2>2 DEF CurIsUnsent
    <3> QED
      BY <3>1, <3>2
  <2>3. CASE ~(flight[1] = b /\ b \in cur)
    <3>1. Kept
      BY <2>1, <2>3 DEF MarkFailed, TypeOK
    <3> QED
      BY <3>1, <1>0
  <2> QED
    BY <2>2, <2>3
<1>6. CASE MarkSentBatch
  <2>1. status'[b] = status[b] \/ (b \in sentIds /\ status'[b] = "sent")
    BY <1>6 DEF MarkSentBatch
  <2> QED
    BY <2>1 DEF Unsent, Claimable
<1>7. ASSUME NEW d \in Bundles, PruneDeadRow(d) PROVE Effect
  <2>1. status'[b] = status[b] \/ (status[b] = "dead" /\ status'[b] = "absent")
    BY <1>7 DEF PruneDeadRow, TypeOK
  <2> QED
    BY <2>1 DEF Unsent, Claimable
<1>8. CASE UNCHANGED status
  BY <1>8, <1>0
<1>9. ASSUME NEW m \in Minutes, NEW n \in Minutes,
             \/ WriteSnapshots(m) \/ EnqueueBundle(m) \/ EnqueueReportsError(m)
             \/ SuppressTail(m) \/ ClearRange(m, n) \/ Rematerialize(m)
      PROVE  UNCHANGED status
  BY <1>9 DEF WriteSnapshots, EnqueueBundle, EnqueueReportsError, SuppressTail, ClearRange,
     Rematerialize
<1>10. ASSUME \/ SelectSent \/ DeleteSentIntents \/ SelectUnsent \/ FindOrphans
              \/ LoadDueIntents \/ WriteCache \/ MarkRelayed \/ FilterLiveIntentRows
              \/ PublishRow \/ PayloadMissing \/ ConfirmAck \/ BatchError \/ Crash
              \/ UNCHANGED vars
       PROVE  UNCHANGED status
  BY <1>10 DEF SelectSent, DeleteSentIntents, SelectUnsent, FindOrphans, LoadDueIntents,
     WriteCache, MarkRelayed, FilterLiveIntentRows, PublishRow, PayloadMissing, ConfirmAck,
     BatchError, Crash, vars
<1>11. ASSUME NEW d \in Bundles, ReadSnapshot(d) \/ BecomeDue(d) \/ GrowStale(d)
       PROVE  UNCHANGED status
  BY <1>11 DEF ReadSnapshot, BecomeDue, GrowStale
<1> HIDE DEF Effect, Kept
<1> QED
  BY <1>1, <1>2, <1>3, <1>4, <1>5, <1>6, <1>7, <1>8, <1>9, <1>10, <1>11
  DEF Next, Pipeline, Repair, RelayStep, DispatchStep, Elapse

(* The four ways the main database's intents, and the broker, change.      *)
LEMMA IntentChange ==
    ASSUME TypeOK, [Next]_vars
    PROVE  \/ UNCHANGED <<intent, withdrawn>> /\ broker \subseteq broker'
           \/ \E d \in Bundles : UpsertIntent(d) /\ UNCHANGED broker
           \/ \E S \in SUBSET Bundles : DeleteIntentsOf(S) /\ UNCHANGED broker
           \/ DeleteSentIntents
<1> DEFINE Grows == UNCHANGED <<intent, withdrawn>> /\ broker \subseteq broker'
           Adds == \E d \in Bundles : UpsertIntent(d) /\ UNCHANGED broker
           Takes == \E S \in SUBSET Bundles : DeleteIntentsOf(S) /\ UNCHANGED broker
<1> SUFFICES Grows \/ Adds \/ Takes \/ DeleteSentIntents
  OBVIOUS
<1> USE DEF mainVars, opsVars, relayVars, dispVars
<1>1. ASSUME NEW m \in Minutes, EnqueueBundle(m) \/ EnqueueReportsError(m) PROVE Adds
  <2>1. <<m, ready[m]>> \in Bundles /\ UpsertIntent(<<m, ready[m]>>) /\ UNCHANGED broker
    BY <1>1 DEF EnqueueBundle, EnqueueReportsError, TypeOK, Bundles
  <2> QED
    BY <2>1
<1>2. ASSUME NEW m \in Minutes, NEW n \in Minutes, SuppressTail(m) \/ ClearRange(m, n)
      PROVE  Takes
  <2>1. PICK S \in SUBSET Bundles : DeleteIntentsOf(S)
    BY <1>2 DEF SuppressTail, ClearRange
  <2>2. UNCHANGED broker
    BY <1>2 DEF SuppressTail, ClearRange
  <2> QED
    BY <2>1, <2>2
<1>3. ASSUME NEW m \in Minutes, WriteSnapshots(m) \/ Rematerialize(m) PROVE Grows
  BY <1>3 DEF WriteSnapshots, Rematerialize
<1>4. CASE \/ SelectSent \/ DeleteSentRows \/ SelectUnsent \/ FindOrphans \/ DeleteOrphans
           \/ LoadDueIntents \/ UpsertOpsRows \/ WriteCache \/ MarkRelayed
  <2>1. Grows
    BY <1>4 DEF SelectSent, DeleteSentRows, SelectUnsent, FindOrphans, DeleteOrphans,
       LoadDueIntents, UpsertOpsRows, WriteCache, MarkRelayed
  <2> QED
    BY <2>1
<1>5. CASE \/ ClaimBatch \/ FilterLiveIntentRows \/ DeleteStaleRows \/ PublishRow
           \/ ConfirmFails \/ MarkSentBatch \/ UNCHANGED vars
  <2>1. Grows
    BY <1>5 DEF ClaimBatch, FilterLiveIntentRows, DeleteStaleRows, PublishRow,
       ConfirmFails, MarkSentBatch, vars
  <2> QED
    BY <2>1
<1>6. CASE PayloadMissing \/ ConfirmAck \/ BatchError \/ Crash
  <2>1. Grows
    BY <1>6 DEF PayloadMissing, ConfirmAck, BatchError, Crash, DropBatch
  <2> QED
    BY <2>1
<1>7. ASSUME NEW d \in Bundles,
             ReadSnapshot(d) \/ PruneDeadRow(d) \/ BecomeDue(d) \/ GrowStale(d)
      PROVE  Grows
  BY <1>7 DEF ReadSnapshot, PruneDeadRow, BecomeDue, GrowStale
<1> HIDE DEF Grows, Adds, Takes
<1> QED
  BY <1>1, <1>2, <1>3, <1>4, <1>5, <1>6, <1>7
  DEF Next, Pipeline, Repair, RelayStep, DispatchStep, Elapse

(* An intent goes, if not by a repair, only after the relay selected it.   *)
LEMMA IntentEffect ==
    ASSUME TypeOK, [Next]_vars, NEW b \in Bundles, intent[b] # 0 \/ b \in withdrawn
    PROVE  \/ intent'[b] # 0 \/ b \in withdrawn'
           \/ /\ rpc = "deleteIntents"
              /\ intent[b] # 0
              /\ \E p \in rset : p[2] = intent[b]
<1>1. CASE \E d \in Bundles : UpsertIntent(d)
  <2>1. PICK d \in Bundles : UpsertIntent(d)
    BY <1>1
  <2>2. CASE b = d
    BY <2>1, <2>2 DEF UpsertIntent, TypeOK
  <2>3. CASE b # d
    BY <2>1, <2>3 DEF UpsertIntent, TypeOK
  <2> QED
    BY <2>2, <2>3
<1>2. CASE \E S \in SUBSET Bundles : DeleteIntentsOf(S)
  BY <1>2 DEF DeleteIntentsOf
<1>3. CASE DeleteSentIntents
  BY <1>3 DEF DeleteSentIntents, IdsOf
<1> QED
  BY <1>1, <1>2, <1>3, IntentChange

(* Copies at the broker stay; sentIds grows by confirmed copies only.      *)
LEMMA BrokerEffect ==
    ASSUME TypeOK, [Next]_vars
    PROVE  broker \subseteq broker' /\ sentIds' \subseteq sentIds \cup Delivered'
<1> DEFINE Same == UNCHANGED <<broker, sentIds>>
<1> USE DEF mainVars, opsVars, relayVars, dispVars
<1>1. CASE ConfirmAck
  <2>1. broker' = broker \cup {flight} /\ sentIds' = sentIds \cup {flight[1]}
    BY <1>1 DEF ConfirmAck
  <2>2. flight[1] \in Delivered'
    BY <2>1 DEF Delivered
  <2> QED
    BY <2>1, <2>2
<1>2. CASE PayloadMissing \/ BatchError \/ Crash
  BY <1>2 DEF PayloadMissing, BatchError, Crash, DropBatch
<1>3. CASE MarkSentBatch
  BY <1>3 DEF MarkSentBatch
<1>4. ASSUME NEW m \in Minutes, NEW n \in Minutes,
             \/ WriteSnapshots(m) \/ EnqueueBundle(m) \/ EnqueueReportsError(m)
             \/ SuppressTail(m) \/ ClearRange(m, n) \/ Rematerialize(m)
      PROVE  Same
  BY <1>4 DEF WriteSnapshots, EnqueueBundle, EnqueueReportsError, SuppressTail, ClearRange,
     Rematerialize
<1>5. ASSUME \/ SelectSent \/ DeleteSentIntents \/ DeleteSentRows \/ SelectUnsent
             \/ FindOrphans \/ DeleteOrphans \/ LoadDueIntents \/ UpsertOpsRows
             \/ WriteCache \/ MarkRelayed
      PROVE  Same
  BY <1>5 DEF SelectSent, DeleteSentIntents, DeleteSentRows, SelectUnsent, FindOrphans,
     DeleteOrphans, LoadDueIntents, UpsertOpsRows, WriteCache, MarkRelayed
<1>6. ASSUME \/ ClaimBatch \/ FilterLiveIntentRows \/ DeleteStaleRows \/ PublishRow
             \/ ConfirmFails \/ UNCHANGED vars
      PROVE  Same
  BY <1>6 DEF ClaimBatch, FilterLiveIntentRows, DeleteStaleRows, PublishRow, ConfirmFails, vars
<1>7. ASSUME NEW d \in Bundles,
             ReadSnapshot(d) \/ PruneDeadRow(d) \/ BecomeDue(d) \/ GrowStale(d)
      PROVE  Same
  BY <1>7 DEF ReadSnapshot, PruneDeadRow, BecomeDue, GrowStale
<1> QED
  BY <1>1, <1>2, <1>3, <1>4, <1>5, <1>6, <1>7
  DEF Next, Pipeline, Repair, RelayStep, DispatchStep, Elapse

(* When the relay enters the phases that delete and mirror intents, what   *)
(* it holds is sent, or enqueued.                                          *)
LEMMA RelayEffect ==
    ASSUME TypeOK, [Next]_vars
    PROVE  \/ rpc' = rpc /\ rset' = rset
           \/ rpc' = "deleteIntents" /\ \A p \in rset' : status'[p[1]] = "sent"
           \/ rpc' = "deleteSent" /\ rpc = "deleteIntents" /\ rset' = rset
           \/ rpc' = "upsert" /\ \A p \in rset' : intent'[p[1]] # 0
           \/ rpc' \notin {"deleteIntents", "deleteSent", "upsert"}
<1> DEFINE Same == rpc' = rpc /\ rset' = rset
           Away == rpc' \notin {"deleteIntents", "deleteSent", "upsert"}
<1> USE DEF mainVars, opsVars, relayVars, dispVars
<1>1. CASE SelectSent
  BY <1>1 DEF SelectSent, FinalStatuses
<1>2. CASE LoadDueIntents
  BY <1>2 DEF LoadDueIntents
<1>3. CASE DeleteSentIntents
  BY <1>3 DEF DeleteSentIntents
<1>4. CASE \/ DeleteSentRows \/ SelectUnsent \/ FindOrphans \/ DeleteOrphans \/ UpsertOpsRows
           \/ MarkRelayed \/ Crash
  BY <1>4 DEF DeleteSentRows, SelectUnsent, FindOrphans, DeleteOrphans, UpsertOpsRows,
     MarkRelayed, Crash
<1>5. ASSUME NEW m \in Minutes, NEW n \in Minutes,
             \/ WriteSnapshots(m) \/ EnqueueBundle(m) \/ EnqueueReportsError(m)
             \/ SuppressTail(m) \/ ClearRange(m, n) \/ Rematerialize(m)
      PROVE  Same
  BY <1>5 DEF WriteSnapshots, EnqueueBundle, EnqueueReportsError, SuppressTail, ClearRange,
     Rematerialize
<1>6. ASSUME \/ WriteCache
             \/ ClaimBatch \/ FilterLiveIntentRows \/ DeleteStaleRows \/ PublishRow
             \/ PayloadMissing \/ ConfirmAck \/ ConfirmFails \/ MarkSentBatch
             \/ BatchError \/ UNCHANGED vars
      PROVE  Same
  BY <1>6 DEF WriteCache, ClaimBatch, FilterLiveIntentRows, DeleteStaleRows, PublishRow,
     PayloadMissing, ConfirmAck, ConfirmFails, MarkSentBatch, BatchError, vars
<1>7. ASSUME NEW d \in Bundles,
             ReadSnapshot(d) \/ PruneDeadRow(d) \/ BecomeDue(d) \/ GrowStale(d)
      PROVE  Same
  BY <1>7 DEF ReadSnapshot, PruneDeadRow, BecomeDue, GrowStale
<1> QED
  BY <1>1, <1>2, <1>3, <1>4, <1>5, <1>6, <1>7
  DEF Next, Pipeline, Repair, RelayStep, DispatchStep, Elapse

-----------------------------------------------------------------------------
(* The remaining conjuncts of the inductive invariant.                     *)

LEMMA SentStep ==
    TypeOK /\ SentIsDelivered /\ CurIsUnsent /\ [Next]_vars => SentIsDelivered'
<1> SUFFICES ASSUME TypeOK, SentIsDelivered, CurIsUnsent, [Next]_vars
             PROVE  SentIsDelivered'
  OBVIOUS
<1>1. Delivered \subseteq Delivered'
  BY BrokerEffect DEF Delivered
<1>2. sentIds' \subseteq Delivered'
  BY <1>1, BrokerEffect DEF SentIsDelivered
<1>3. ASSUME NEW b \in Bundles, status'[b] = "sent" PROVE b \in Delivered'
  BY <1>1, <1>3, StatusEffect DEF SentIsDelivered
<1> QED
  BY <1>2, <1>3 DEF SentIsDelivered

LEMMA CurStep == TypeOK /\ CurIsUnsent /\ [Next]_vars => CurIsUnsent'
<1> SUFFICES ASSUME TypeOK, CurIsUnsent, [Next]_vars, NEW b \in cur'
             PROVE  Unsent(b)'
  BY DEF CurIsUnsent
<1> USE DEF mainVars, opsVars, relayVars, dispVars
<1>0. ASSUME b \in cur, status'[b] \in {status[b], "pending", "sending", "failed", "dead"}
      PROVE  Unsent(b)'
  BY <1>0 DEF CurIsUnsent, Unsent, Claimable
<1>1. CASE ClaimBatch
  <2>1. b \in Bundles /\ status'[b] = "sending"
    BY <1>1 DEF ClaimBatch
  <2> QED
    BY <2>1 DEF Unsent, Claimable
<1>2. CASE UpsertOpsRows
  <2>1. b \in cur /\ status'[b] \in {status[b], "pending"}
    BY <1>2 DEF UpsertOpsRows, TypeOK
  <2> QED
    BY <2>1, <1>0
<1>3. CASE DeleteSentRows \/ DeleteOrphans \/ DeleteStaleRows
  <2>1. PICK S : DeleteOpsRows(S)
    BY <1>3 DEF DeleteSentRows, DeleteOrphans, DeleteStaleRows
  <2>2. b \in cur /\ status'[b] = status[b]
    BY <2>1 DEF DeleteOpsRows, TypeOK
  <2> QED
    BY <2>2, <1>0
<1>4. CASE ConfirmFails
  <2>1. b \in cur /\ MarkFailed(flight[1])
    BY <1>4 DEF ConfirmFails
  <2>2. b \in Bundles
    BY <2>1 DEF TypeOK
  <2>3. status'[b] \in {status[b], "failed", "dead"}
    BY <2>1, <2>2 DEF MarkFailed, TypeOK
  <2> QED
    BY <2>1, <2>3, <1>0
<1>5. CASE MarkSentBatch \/ PayloadMissing \/ BatchError \/ Crash
  BY <1>5 DEF MarkSentBatch, PayloadMissing, BatchError, Crash, DropBatch
<1>6. ASSUME NEW d \in Bundles, PruneDeadRow(d) PROVE Unsent(b)'
  <2>1. b \in cur /\ status'[b] = status[b]
    BY <1>6 DEF PruneDeadRow, TypeOK
  <2> QED
    BY <2>1, <1>0
<1>7. CASE UNCHANGED <<status, cur>>
  BY <1>7, <1>0
<1>8. ASSUME NEW m \in Minutes, NEW n \in Minutes,
             \/ WriteSnapshots(m) \/ EnqueueBundle(m) \/ EnqueueReportsError(m)
             \/ SuppressTail(m) \/ ClearRange(m, n) \/ Rematerialize(m)
      PROVE  UNCHANGED <<status, cur>>
  BY <1>8 DEF WriteSnapshots, EnqueueBundle, EnqueueReportsError, SuppressTail, ClearRange,
     Rematerialize
<1>9. ASSUME \/ SelectSent \/ DeleteSentIntents \/ SelectUnsent \/ FindOrphans
             \/ LoadDueIntents \/ WriteCache \/ MarkRelayed \/ FilterLiveIntentRows
             \/ PublishRow \/ ConfirmAck \/ UNCHANGED vars
      PROVE  UNCHANGED <<status, cur>>
  BY <1>9 DEF SelectSent, DeleteSentIntents, SelectUnsent, FindOrphans, LoadDueIntents,
     WriteCache, MarkRelayed, FilterLiveIntentRows, PublishRow, ConfirmAck, vars
<1>10. ASSUME NEW d \in Bundles, ReadSnapshot(d) \/ BecomeDue(d) \/ GrowStale(d)
       PROVE  UNCHANGED <<status, cur>>
  BY <1>10 DEF ReadSnapshot, BecomeDue, GrowStale
<1> QED
  BY <1>1, <1>2, <1>3, <1>4, <1>5, <1>6, <1>7, <1>8, <1>9, <1>10
  DEF Next, Pipeline, Repair, RelayStep, DispatchStep, Elapse

LEMMA PhasesStep ==
    TypeOK /\ TypeOK' /\ CurIsUnsent /\ RelayPhases /\ [Next]_vars => RelayPhases'
<1> SUFFICES ASSUME TypeOK, TypeOK', CurIsUnsent, RelayPhases, [Next]_vars
             PROVE  RelayPhases'
  OBVIOUS
<1>1. \A p \in rset' : p[1] \in Bundles
  BY DEF TypeOK
<1>2. ASSUME rpc' \in {"deleteIntents", "deleteSent"}, NEW p \in rset'
      PROVE  status'[p[1]] = "sent"
  <2>1. CASE rpc \in {"deleteIntents", "deleteSent"} /\ rset' = rset
    BY <1>1, <1>2, <2>1, StatusEffect DEF RelayPhases
  <2> QED
    BY <1>2, <2>1, RelayEffect
<1>3. ASSUME rpc' = "upsert", NEW p \in rset'
      PROVE  intent'[p[1]] # 0 \/ p[1] \in withdrawn'
  <2>1. CASE rpc = "upsert" /\ rset' = rset
    BY <1>1, <1>3, <2>1, IntentEffect DEF RelayPhases
  <2> QED
    BY <1>3, <2>1, RelayEffect
<1> QED
  BY <1>2, <1>3 DEF RelayPhases

LEMMA UnsentStep == IInv /\ [Next]_vars => UnsentRowHasIntent'
<1> SUFFICES ASSUME IInv, [Next]_vars, NEW b \in Bundles, Unsent(b)'
             PROVE  intent'[b] # 0 \/ b \in withdrawn'
  BY DEF UnsentRowHasIntent, Unsent, Claimable
<1> USE DEF IInv
<1>1. Unsent(b) \/ (rpc = "upsert" /\ b \in NamesOf(rset))
  BY StatusEffect
<1>2. intent[b] # 0 \/ b \in withdrawn
  BY <1>1 DEF Unsent, UnsentRowHasIntent, RelayPhases, NamesOf
<1>3. ASSUME rpc = "deleteIntents", intent[b] # 0, NEW p \in rset, p[2] = intent[b]
      PROVE  FALSE
  <2>1. p[1] = b
    BY <1>3 DEF IdsAreOwned
  <2>2. status[b] = "sent"
    BY <1>3, <2>1 DEF RelayPhases
  <2> QED
    BY <1>1, <1>3, <2>2 DEF Unsent, Claimable
<1> QED
  BY <1>2, <1>3, IntentEffect

LEMMA IInvStep == IInv /\ [Next]_vars => IInv'
<1> SUFFICES ASSUME IInv, [Next]_vars PROVE IInv'
  OBVIOUS
<1>1. TypeOK'
  BY TypeStep DEF IInv
<1>2. FreshIds' /\ IdsAreOwned'
  BY IdsStep DEF IInv
<1>3. SentIsDelivered' /\ CurIsUnsent'
  BY SentStep, CurStep DEF IInv
<1>4. RelayPhases'
  BY <1>1, PhasesStep DEF IInv
<1>5. UnsentRowHasIntent'
  BY UnsentStep
<1> QED
  BY <1>1, <1>2, <1>3, <1>4, <1>5 DEF IInv

-----------------------------------------------------------------------------
(* The theorems.                                                           *)

(* The inductive invariant holds of every behavior.                        *)
THEOREM Invariance == Spec => []IInv
BY IInvInit, IInvStep, PTL DEF Spec

(* The tables of both databases and the positions of relay and dispatcher  *)
(* keep their types.                                                       *)
THEOREM TypeInvariant == Spec => []TypeOK
<1>1. IInv => TypeOK
  BY DEF IInv
<1> QED
  BY Invariance, <1>1, PTL

(* finalize_sent_rows never deletes the intent of a row that has still to  *)
(* be sent.                                                                *)
THEOREM UnsentRowHasIntentHolds == Spec => []UnsentRowHasIntent
<1>1. IInv => UnsentRowHasIntent
  BY DEF IInv
<1> QED
  BY Invariance, <1>1, PTL

(* mark_sent_batch marks only what the broker confirmed.                   *)
THEOREM SentIsAtBrokerHolds == Spec => []SentIsAtBroker
<1>1. ASSUME IInv PROVE SentIsAtBroker
  <2>1. SUFFICES ASSUME NEW b \in Bundles, status[b] = "sent"
                 PROVE  \E c \in 1..MaxVer : <<b, c>> \in broker
    BY DEF SentIsAtBroker
  <2>2. PICK p \in broker : p[1] = b
    BY <1>1, <2>1 DEF IInv, SentIsDelivered, Delivered
  <2>3. p = <<b, p[2]>> /\ p[2] \in 1..MaxVer
    BY <1>1, <2>2 DEF IInv, TypeOK
  <2> QED
    BY <2>2, <2>3
<1> QED
  BY Invariance, <1>1, PTL

-----------------------------------------------------------------------------
(* BundleRelay implements DeliveryPromise.                                 *)

Promised == {b \in Bundles : intent[b] # 0}

LEMMA PromiseInit == Init => Promise!Init
BY DEF Init, Promise!Init

(* The bundles whose intents finalize_sent_rows deletes are at the broker. *)
LEMMA ForgetsDelivered ==
    ASSUME IInv, DeleteSentIntents
    PROVE  \E S \in SUBSET Bundles : Promise!Forget(S)
<1>1. rpc = "deleteIntents"
  BY DEF DeleteSentIntents
<1>2. /\ broker' = broker /\ withdrawn' = withdrawn
      /\ \A b \in Bundles : \/ intent'[b] = intent[b]
                            \/ intent[b] # 0 /\ \E p \in rset : p[2] = intent[b]
      /\ \A b \in Bundles : intent'[b] \in {intent[b], 0}
  BY DEF DeleteSentIntents, IdsOf
<1>3. ASSUME NEW b \in Promised \ Promised' PROVE b \in Delivered
  <2>1. b \in Bundles /\ intent[b] # 0 /\ intent'[b] = 0
    BY <1>3 DEF Promised
  <2>2. PICK p \in rset : p[2] = intent[b]
    BY <1>2, <2>1
  <2>3. p[1] = b /\ status[b] = "sent"
    BY <1>1, <2>1, <2>2 DEF IInv, IdsAreOwned, RelayPhases
  <2> QED
    BY <2>1, <2>3 DEF IInv, SentIsDelivered
<1>4. Promised' \subseteq Promised
  BY <1>2 DEF Promised
<1>5. PICK S \in SUBSET Bundles : S = Promised \ Promised'
  BY DEF Promised
<1>6. Promise!Forget(S)
  BY <1>2, <1>3, <1>4, <1>5 DEF Promise!Forget, Promised, Delivered
<1> QED
  BY <1>6

LEMMA PromiseStep == IInv /\ [Next]_vars => [Promise!Next]_(Promise!vars)
<1> SUFFICES ASSUME IInv, [Next]_vars PROVE Promise!Next
  BY DEF Promise!vars
<1>1. Delivered \subseteq Bundles /\ Delivered' \subseteq Bundles /\ Promised \subseteq Bundles
  BY TypeStep DEF IInv, TypeOK, Delivered, Promised
<1>2. CASE UNCHANGED <<intent, withdrawn>> /\ broker \subseteq broker'
  <2>1. Promise!Attempt(Delivered', {})
    BY <1>2 DEF Promise!Attempt, Delivered
  <2> QED
    BY <1>1, <2>1 DEF Promise!Next
<1>3. CASE \E d \in Bundles : UpsertIntent(d) /\ UNCHANGED broker
  <2>1. PICK d \in Bundles : UpsertIntent(d) /\ UNCHANGED broker
    BY <1>3
  <2>2. \A b \in Bundles : intent'[b] # 0 <=> intent[b] # 0 \/ b = d
    BY <2>1 DEF UpsertIntent, IInv, TypeOK
  <2>3. Promise!Promise({d})
    BY <2>1, <2>2 DEF Promise!Promise, UpsertIntent
  <2> QED
    BY <2>3 DEF Promise!Next
<1>4. CASE \E S \in SUBSET Bundles : DeleteIntentsOf(S) /\ UNCHANGED broker
  <2>1. PICK S \in SUBSET Bundles : DeleteIntentsOf(S) /\ UNCHANGED broker
    BY <1>4
  <2>2. Promise!Withdraw(S)
    BY <2>1 DEF Promise!Withdraw, DeleteIntentsOf
  <2> QED
    BY <2>2 DEF Promise!Next
<1>5. CASE DeleteSentIntents
  <2>1. PICK S \in SUBSET Bundles : Promise!Forget(S)
    BY <1>5, ForgetsDelivered
  <2> QED
    BY <2>1 DEF Promise!Next
<1>6. TypeOK
  BY DEF IInv
<1> QED
  BY <1>2, <1>3, <1>4, <1>5, <1>6, IntentChange

(* An enqueued bundle is forgotten only when the broker holds it or a      *)
(* repair took it back.                                                    *)
THEOREM KeepsPromiseHolds == Spec => KeepsPromise
BY PromiseInit, PromiseStep, Invariance, PTL DEF Spec, KeepsPromise, Promise!Spec

=============================================================================
