--------------------------- MODULE MdOutboxProofs ---------------------------
(***************************************************************************)
(* Machine-checked proofs that the invariants of MdOutbox hold for every   *)
(* number of workers, messages, retries, days and faults.                  *)
(***************************************************************************)
EXTENDS MdOutbox, TLAPS

(* A row exists, and is in a worker's hands, only for a stored message;    *)
(* a message still in a channel (its shard's) is not stored yet.           *)
RowsAreStored ==
    /\ \A k \in InsertWorkers : \A m \in chan[k] : pub[m] = "queued" /\ Shard[m] = k
    /\ \A m \in Messages : status[m] # "absent" => pub[m] = "stored"
    /\ \A w \in Workers : \A m \in Held(w) : pub[m] = "stored"

(* What a worker will delete, the broker already holds.                    *)
SentIsDelivered == \A w \in Workers : sent[w] \subseteq delivered

(* While nobody outlived a lease, a held row is 'sending' and not due.     *)
HeldIsLeased ==
    ~overrun => \A w \in Workers : \A m \in Held(w) : status[m] = "sending" /\ wait[m] > 0

(* A batch is empty while the worker is idle, all of it is unpublished     *)
(* until the payloads are loaded, and a row is in one stage of it at most. *)
Phases ==
    \A w \in Workers :
        /\ pc[w] = "idle" => todo[w] = {}
        /\ pc[w] # "flight" => unconf[w] = {} /\ sent[w] = {}
        /\ todo[w] \cap unconf[w] = {}
        /\ todo[w] \cap sent[w] = {}
        /\ unconf[w] \cap sent[w] = {}

IInv ==
    /\ TypeOK
    /\ Phases
    /\ RowsAreStored
    /\ SentIsDelivered
    /\ DeadAtMaxRetry
    /\ NothingDroppedUnsent
    /\ HeldIsLeased
    /\ LeaseIsExclusive

-----------------------------------------------------------------------------
(* A scan is at least three statements long, and its last index is one.    *)
LEMMA ScanLenFacts == ScanLen \in Nat /\ ScanLen >= 3 /\ 0 \in 0..(ScanLen - 1)
<1>1. Lookback \in Nat
  BY ConstantsAssumption
<1> QED
  BY <1>1 DEF ScanLen

(* Age 0 is an age, and ages are integers.                                 *)
LEMMA AgeFacts == MaxAge \in Nat /\ 0 \in 0..MaxAge
<1>1. Lookback \in Nat /\ MaxAge \in 0..(Lookback + 1)
  BY ConstantsAssumption
<1> QED
  BY <1>1

(* The initial state satisfies the inductive invariant.                    *)
THEOREM InitIInv == Init => IInv
<1> SUFFICES ASSUME Init PROVE IInv
  OBVIOUS
<1>1. TypeOK
  <2>1. MaxFaults \in Nat
    BY ConstantsAssumption
  <2>2. scan \in [Workers -> 0..(ScanLen - 1)]
    BY ScanLenFacts DEF Init
  <2>3. age \in [Messages -> 0..MaxAge] /\ faults \in 0..MaxFaults
    BY <2>1, AgeFacts DEF Init
  <2>4. /\ pub \in [Messages -> PubStates]
        /\ status \in [Messages -> Statuses]
        /\ retry \in [Messages -> Nat]
        /\ wait \in [Messages -> Int]
        /\ pc \in [Workers -> Steps]
    BY DEF Init, PubStates, Statuses, Steps
  <2>5. /\ chan \in [InsertWorkers -> SUBSET Messages]
        /\ todo \in [Workers -> SUBSET Messages]
        /\ unconf \in [Workers -> SUBSET Messages]
        /\ sent \in [Workers -> SUBSET Messages]
        /\ delivered \in SUBSET Messages
        /\ overrun \in BOOLEAN
    BY DEF Init
  <2> QED
    BY <2>2, <2>3, <2>4, <2>5 DEF TypeOK
<1>a. 0 < MaxRetry
  BY ConstantsAssumption
<1>2. RowsAreStored /\ SentIsDelivered /\ DeadAtMaxRetry /\ NothingDroppedUnsent
  BY <1>a, ConstantsAssumption DEF Init, RowsAreStored, SentIsDelivered, DeadAtMaxRetry, NothingDroppedUnsent, Held, Present
<1>3. HeldIsLeased /\ LeaseIsExclusive /\ Phases
  BY DEF Init, HeldIsLeased, LeaseIsExclusive, Held, Phases
<1> QED
  BY <1>1, <1>2, <1>3 DEF IInv

-----------------------------------------------------------------------------
(* The pieces the actions are made of keep the variables in their types.   *)

(* A backoff is at least one tick and a number.                            *)
LEMMA BackoffIsPositive == ASSUME NEW n \in Nat \ {0} PROVE Backoff(n) \in Nat /\ Backoff(n) > 0
<1>1. BackoffStep \in Nat /\ BackoffStep > 0 /\ BackoffCap \in Nat /\ BackoffCap > 0
  BY ConstantsAssumption
<1>2. BackoffStep * n \in Nat /\ BackoffStep * n > 0
  BY <1>1
<1> QED
  BY <1>1, <1>2 DEF Backoff, Smaller

RowTypes ==
    /\ status \in [Messages -> Statuses]
    /\ retry \in [Messages -> Nat]
    /\ wait \in [Messages -> Int]
    /\ age \in [Messages -> 0..MaxAge]

WorkTypes ==
    /\ pc \in [Workers -> Steps]
    /\ scan \in [Workers -> 0..(ScanLen - 1)]
    /\ todo \in [Workers -> SUBSET Messages]
    /\ unconf \in [Workers -> SUBSET Messages]
    /\ sent \in [Workers -> SUBSET Messages]

ProdTypes ==
    /\ pub \in [Messages -> PubStates]
    /\ chan \in [InsertWorkers -> SUBSET Messages]

RestTypes ==
    /\ delivered \in SUBSET Messages
    /\ faults \in 0..MaxFaults
    /\ overrun \in BOOLEAN

(* The type invariant falls into the four groups of variables.             *)
LEMMA TypeOKParts == TypeOK <=> RowTypes /\ WorkTypes /\ ProdTypes /\ RestTypes
BY DEF TypeOK, RowTypes, WorkTypes, ProdTypes, RestTypes

(* mark_failed keeps the columns in their types.                           *)
LEMMA MarkFailedType ==
  ASSUME RowTypes, NEW m \in Messages, MarkFailed(m)
  PROVE  RowTypes'
<1>1. CASE Present(m)
  <2>1. retry[m] + 1 \in Nat \ {0}
    BY DEF RowTypes
  <2>2. Backoff(retry[m] + 1) \in Int
    BY <2>1, BackoffIsPositive
  <2>3. FailedStatus(retry[m] + 1) \in Statuses
    BY DEF FailedStatus, Statuses
  <2> QED
    BY <1>1, <2>1, <2>2, <2>3 DEF MarkFailed, RowTypes
<1>2. CASE ~Present(m)
  BY <1>2 DEF MarkFailed, RowTypes, rowVars
<1> QED
  BY <1>1, <1>2

(* So does a DELETE.                                                       *)
LEMMA RemoveRowsType ==
  ASSUME RowTypes, NEW S, RemoveRows(S)
  PROVE  RowTypes'
BY AgeFacts DEF RowTypes, RemoveRows, Statuses

(* Giving up a batch keeps the workers' variables and delivered typed.     *)
LEMMA DropType ==
  ASSUME WorkTypes, delivered \in SUBSET Messages, NEW w \in Workers, Drop(w)
  PROVE  WorkTypes' /\ delivered' \in SUBSET Messages
BY ScanLenFacts DEF WorkTypes, Drop, Steps

-----------------------------------------------------------------------------
(* Every step keeps the type invariant.                                    *)
LEMMA TypeStep == TypeOK /\ [Next]_vars => TypeOK'
<1> SUFFICES ASSUME RowTypes, WorkTypes, ProdTypes, RestTypes, [Next]_vars
             PROVE  RowTypes' /\ WorkTypes' /\ ProdTypes' /\ RestTypes'
  BY TypeOKParts, PTL
<1> USE DEF prodVars, rowVars, workVars
<1>1. ASSUME NEW m \in Messages, PublishDirect(m) \/ Enqueue(m)
      PROVE  RowTypes' /\ WorkTypes' /\ ProdTypes' /\ RestTypes'
  <2>1. RowTypes' /\ WorkTypes'
    BY <1>1 DEF PublishDirect, Enqueue, RowTypes, WorkTypes
  <2>2. ProdTypes' /\ RestTypes'
    BY <1>1 DEF PublishDirect, Enqueue, ProdTypes, RestTypes, PubStates
  <2> QED
    BY <2>1, <2>2
<1>2. ASSUME NEW k \in InsertWorkers, InsertBatch(k) \/ InsertFails(k)
      PROVE  RowTypes' /\ WorkTypes' /\ ProdTypes' /\ RestTypes'
  <2>1. RowTypes'
    BY <1>2, AgeFacts DEF InsertBatch, InsertFails, RowTypes, Statuses
  <2>2. WorkTypes' /\ RestTypes'
    BY <1>2, ConstantsAssumption DEF InsertBatch, InsertFails, WorkTypes, RestTypes
  <2>3. ProdTypes'
    BY <1>2 DEF InsertBatch, InsertFails, ProdTypes, PubStates
  <2> QED
    BY <2>1, <2>2, <2>3
<1>3. ASSUME NEW w \in Workers, Wake(w)
      PROVE  RowTypes' /\ WorkTypes' /\ ProdTypes' /\ RestTypes'
  BY <1>3 DEF Wake, RowTypes, WorkTypes, ProdTypes, RestTypes, Steps
<1>4. ASSUME NEW w \in Workers, ClaimTierForBucket(w)
      PROVE  RowTypes' /\ WorkTypes' /\ ProdTypes' /\ RestTypes'
  <2>1. PICK S \in Picks(scan[w], BatchSize - Cardinality(todo[w])) :
          /\ todo' = [todo EXCEPT ![w] = @ \cup S]
          /\ status' = [m \in Messages |-> IF m \in S THEN "sending" ELSE status[m]]
          /\ wait' = [m \in Messages |-> IF m \in S THEN Lease ELSE wait[m]]
          /\ IF ScanOver(scan[w], Cardinality(todo[w] \cup S))
             THEN /\ pc' = [pc EXCEPT ![w] = "load"]
                  /\ scan' = [scan EXCEPT ![w] = 0]
             ELSE /\ scan' = [scan EXCEPT ![w] = @ + 1]
                  /\ UNCHANGED pc
    BY <1>4 DEF ClaimTierForBucket
  <2>2. S \subseteq Messages
    BY DEF Picks, PickedFrom
  <2>3. RowTypes'
    BY <1>4, <2>1, <2>2, ConstantsAssumption DEF ClaimTierForBucket, RowTypes, Statuses
  <2>4. pc' \in [Workers -> Steps] /\ scan' \in [Workers -> 0..(ScanLen - 1)]
    <3>1. CASE ScanOver(scan[w], Cardinality(todo[w] \cup S))
      BY <3>1, <2>1, ScanLenFacts DEF WorkTypes, Steps
    <3>2. CASE ~ScanOver(scan[w], Cardinality(todo[w] \cup S))
      <4>1. scan[w] \in 0..(ScanLen - 1) /\ scan[w] + 1 # ScanLen
        BY <3>2 DEF ScanOver, WorkTypes
      <4>2. scan[w] + 1 \in 0..(ScanLen - 1)
        BY <4>1, ScanLenFacts
      <4> QED
        BY <3>2, <2>1, <4>2 DEF WorkTypes
    <3> QED
      BY <3>1, <3>2
  <2>5. todo' \in [Workers -> SUBSET Messages]
    BY <2>1, <2>2 DEF WorkTypes
  <2> QED
    BY <1>4, <2>3, <2>4, <2>5 DEF ClaimTierForBucket, WorkTypes, ProdTypes, RestTypes
<1>5. ASSUME NEW w \in Workers, LoadClaimedRows(w)
      PROVE  RowTypes' /\ WorkTypes' /\ ProdTypes' /\ RestTypes'
  <2>1. RowTypes' /\ ProdTypes'
    BY <1>5 DEF LoadClaimedRows, RowTypes, ProdTypes
  <2>2. CASE Drop(w)
    BY <1>5, <2>1, <2>2, DropType DEF LoadClaimedRows, RestTypes
  <2>3. CASE pc' = [pc EXCEPT ![w] = "flight"] /\ UNCHANGED <<scan, todo, unconf, sent, delivered>>
    BY <1>5, <2>1, <2>3 DEF LoadClaimedRows, WorkTypes, RestTypes, Steps
  <2> QED
    BY <1>5, <2>2, <2>3 DEF LoadClaimedRows
<1>6. ASSUME NEW w \in Workers, PublishRow(w)
      PROVE  RowTypes' /\ WorkTypes' /\ ProdTypes' /\ RestTypes'
  <2>1. PICK m \in First(todo[w]) :
          /\ todo' = [todo EXCEPT ![w] = @ \ {m}]
          /\ \/ unconf' = [unconf EXCEPT ![w] = @ \cup {m}] /\ UNCHANGED rowVars
             \/ MarkFailed(m) /\ UNCHANGED unconf
    BY <1>6 DEF PublishRow
  <2>2. m \in Messages
    BY <2>1 DEF First, WorkTypes
  <2>3. RowTypes'
    BY <2>1, <2>2, MarkFailedType DEF RowTypes
  <2> QED
    BY <1>6, <2>1, <2>2, <2>3 DEF PublishRow, WorkTypes, ProdTypes, RestTypes
<1>7. ASSUME NEW w \in Workers, ConfirmAck(w)
      PROVE  RowTypes' /\ WorkTypes' /\ ProdTypes' /\ RestTypes'
  <2>1. PICK m \in First(unconf[w]) :
          /\ unconf' = [unconf EXCEPT ![w] = @ \ {m}]
          /\ sent' = [sent EXCEPT ![w] = @ \cup {m}]
          /\ delivered' = delivered \cup {m}
    BY <1>7 DEF ConfirmAck
  <2>2. m \in Messages
    BY <2>1 DEF First, WorkTypes
  <2> QED
    BY <1>7, <2>1, <2>2 DEF ConfirmAck, RowTypes, WorkTypes, ProdTypes, RestTypes
<1>8. ASSUME NEW w \in Workers, ConfirmFails(w)
      PROVE  RowTypes' /\ WorkTypes' /\ ProdTypes' /\ RestTypes'
  <2>1. PICK m \in First(unconf[w]) :
          /\ MarkFailed(m)
          /\ unconf' = [unconf EXCEPT ![w] = @ \ {m}]
          /\ delivered' \in {delivered, delivered \cup {m}}
    BY <1>8 DEF ConfirmFails
  <2>2. m \in Messages
    BY <2>1 DEF First, WorkTypes
  <2>3. RowTypes'
    BY <2>1, <2>2, MarkFailedType
  <2> QED
    BY <1>8, <2>1, <2>2, <2>3 DEF ConfirmFails, WorkTypes, ProdTypes, RestTypes
<1>9. ASSUME NEW w \in Workers, DeleteSentBatch(w)
      PROVE  RowTypes' /\ WorkTypes' /\ ProdTypes' /\ RestTypes'
  <2>1. RowTypes'
    BY <1>9, RemoveRowsType DEF DeleteSentBatch
  <2> QED
    BY <1>9, <2>1 DEF DeleteSentBatch, WorkTypes, ProdTypes, RestTypes, Steps
<1>10. ASSUME NEW w \in Workers, BatchError(w)
       PROVE  RowTypes' /\ WorkTypes' /\ ProdTypes' /\ RestTypes'
  <2>1. faults' \in 0..MaxFaults
    BY <1>10, ConstantsAssumption DEF BatchError, RestTypes
  <2> QED
    BY <1>10, <2>1, DropType DEF BatchError, RowTypes, ProdTypes, RestTypes
<1>11. ASSUME PruneDeadRows
       PROVE  RowTypes' /\ WorkTypes' /\ ProdTypes' /\ RestTypes'
  <2>1. RowTypes'
    BY <1>11, RemoveRowsType DEF PruneDeadRows
  <2> QED
    BY <1>11, <2>1 DEF PruneDeadRows, WorkTypes, ProdTypes, RestTypes
<1>12. ASSUME Tick \/ DayRoll
       PROVE  RowTypes' /\ WorkTypes' /\ ProdTypes' /\ RestTypes'
  <2>1. RowTypes'
    BY <1>12, AgeFacts DEF Tick, DayRoll, RowTypes
  <2>2. WorkTypes' /\ ProdTypes' /\ RestTypes'
    BY <1>12 DEF Tick, DayRoll, WorkTypes, ProdTypes, RestTypes
  <2> QED
    BY <2>1, <2>2
<1>13. ASSUME Crash
       PROVE  RowTypes' /\ WorkTypes' /\ ProdTypes' /\ RestTypes'
  <2>1. RowTypes' /\ ProdTypes'
    BY <1>13 DEF Crash, RowTypes, ProdTypes, PubStates
  <2>2. WorkTypes'
    BY <1>13, ScanLenFacts DEF Crash, WorkTypes, Steps
  <2>3. delivered' \in SUBSET Messages
    BY <1>13 DEF Crash, RestTypes, WorkTypes
  <2>4. faults' \in 0..MaxFaults /\ overrun' \in BOOLEAN
    BY <1>13, ConstantsAssumption DEF Crash, RestTypes
  <2> QED
    BY <2>1, <2>2, <2>3, <2>4 DEF RestTypes
<1>14. CASE UNCHANGED vars
  BY <1>14 DEF vars, RowTypes, WorkTypes, ProdTypes, RestTypes
<1> QED
  BY <1>1, <1>2, <1>3, <1>4, <1>5, <1>6, <1>7, <1>8, <1>9, <1>10, <1>11, <1>12, <1>13, <1>14
     DEF Next, Produce, Insert, WorkerStep

(* The type invariant holds in every reachable state.                      *)
THEOREM TypeInvariant == Spec => []TypeOK
<1>1. Init => TypeOK
  BY InitIInv DEF IInv
<1> QED
  BY <1>1, TypeStep, PTL DEF Spec

-----------------------------------------------------------------------------
(* Each action in terms of the few facts the safety proofs need.           *)

(* The claim takes rows that are present, due and not dead.                *)
LEMMA ClaimEffect ==
  ASSUME NEW w \in Workers, ClaimTierForBucket(w), TypeOK
  PROVE  \E S \in SUBSET Messages :
            /\ \A m \in S : Claimable(m)
            /\ todo' = [todo EXCEPT ![w] = @ \cup S]
            /\ status' = [m \in Messages |-> IF m \in S THEN "sending" ELSE status[m]]
            /\ wait' = [m \in Messages |-> IF m \in S THEN Lease ELSE wait[m]]
            /\ UNCHANGED <<pub, chan, retry, unconf, sent, delivered, overrun>>
BY DEF ClaimTierForBucket, Picks, PickedFrom, prodVars

(* A failure report touches one row; it never makes a dead row alive nor   *)
(* brings a row back.                                                      *)
LEMMA MarkFailedEffect ==
  ASSUME TypeOK, NEW m \in Messages, MarkFailed(m)
  PROVE  /\ \A n \in Messages \ {m} :
               status'[n] = status[n] /\ retry'[n] = retry[n] /\ wait'[n] = wait[n]
         /\ ~Present(m) => status'[m] = "absent" /\ retry'[m] = retry[m]
         /\ Present(m) => /\ retry'[m] = retry[m] + 1
                          /\ status'[m] = FailedStatus(retry[m] + 1)
BY DEF MarkFailed, TypeOK, rowVars, Present

(* Where Held goes when nothing but one worker's batch changes.            *)
LEMMA DropEffect ==
  ASSUME TypeOK, NEW w \in Workers, Drop(w)
  PROVE  /\ \A v \in Workers : Held(v)' \subseteq Held(v) /\ sent'[v] \subseteq sent[v]
         /\ delivered \subseteq delivered'
BY DEF Drop, Held, TypeOK

-----------------------------------------------------------------------------
(* Rows and held rows belong to stored messages, channel entries do not.   *)
LEMMA RowsAreStoredStep == TypeOK /\ RowsAreStored /\ [Next]_vars => RowsAreStored'
<1> SUFFICES ASSUME TypeOK, RowsAreStored, [Next]_vars PROVE RowsAreStored'
  OBVIOUS
<1> USE DEF prodVars, rowVars, workVars, RowsAreStored
<1>1. ASSUME NEW m \in Messages, PublishDirect(m) \/ Enqueue(m) PROVE RowsAreStored'
  BY <1>1, ConstantsAssumption DEF PublishDirect, Enqueue, TypeOK, Held
<1>2. ASSUME NEW k \in InsertWorkers, InsertBatch(k) \/ InsertFails(k) PROVE RowsAreStored'
  <2>1. PICK S \in SUBSET chan[k] :
           /\ chan' = [chan EXCEPT ![k] = @ \ S]
           /\ \/ /\ pub' = [m \in Messages |-> IF m \in S THEN "stored" ELSE pub[m]]
                 /\ status' = [m \in Messages |-> IF m \in S THEN "pending" ELSE status[m]]
              \/ /\ pub' = [m \in Messages |-> IF m \in S THEN "lost" ELSE pub[m]]
                 /\ status' = status
    BY <1>2 DEF InsertBatch, InsertFails
  <2>2. UNCHANGED <<todo, unconf, sent>>
    BY <1>2 DEF InsertBatch, InsertFails
  <2>3. \A m \in S : m \in Messages /\ pub[m] = "queued" /\ Shard[m] = k
    BY DEF TypeOK
  <2>4. \A w \in Workers : \A m \in Held(w)' : pub'[m] = "stored"
    BY <2>1, <2>2, <2>3 DEF Held, TypeOK
  <2>5. \A m \in Messages : status'[m] # "absent" => pub'[m] = "stored"
    BY <2>1, <2>3 DEF TypeOK
  <2>6. \A j \in InsertWorkers : \A m \in chan'[j] : pub'[m] = "queued" /\ Shard[m] = j
    BY <2>1, <2>3 DEF TypeOK
  <2> QED
    BY <2>4, <2>5, <2>6
<1>3. ASSUME NEW w \in Workers, Wake(w) PROVE RowsAreStored'
  BY <1>3 DEF Wake, Held
<1>4. ASSUME NEW w \in Workers, ClaimTierForBucket(w) PROVE RowsAreStored'
  BY <1>4, ClaimEffect DEF Claimable, Held, TypeOK
<1>5. ASSUME NEW w \in Workers, LoadClaimedRows(w) \/ BatchError(w) PROVE RowsAreStored'
  <2>1. UNCHANGED <<pub, chan, status>>
    BY <1>5 DEF LoadClaimedRows, BatchError
  <2>2. CASE Drop(w)
    BY <2>1, <2>2, DropEffect
  <2>3. CASE UNCHANGED <<todo, unconf, sent>>
    BY <2>1, <2>3 DEF Held
  <2> QED
    BY <1>5, <2>2, <2>3 DEF LoadClaimedRows, BatchError
<1>6. ASSUME NEW w \in Workers, PublishRow(w) \/ ConfirmAck(w) \/ ConfirmFails(w)
      PROVE  RowsAreStored'
  <2>1. \A v \in Workers : Held(v)' \subseteq Held(v)
    <3>1. CASE PublishRow(w)
      <4>1. PICK m \in todo[w] :
               /\ todo' = [todo EXCEPT ![w] = @ \ {m}]
               /\ unconf' = unconf \/ unconf' = [unconf EXCEPT ![w] = @ \cup {m}]
               /\ sent' = sent
        BY <3>1 DEF PublishRow, First
      <4> QED
        BY <4>1 DEF Held, TypeOK
    <3>2. CASE ConfirmAck(w)
      <4>1. PICK m \in unconf[w] :
               /\ unconf' = [unconf EXCEPT ![w] = @ \ {m}]
               /\ sent' = [sent EXCEPT ![w] = @ \cup {m}]
               /\ todo' = todo
        BY <3>2 DEF ConfirmAck, First
      <4> QED
        BY <4>1 DEF Held, TypeOK
    <3>3. CASE ConfirmFails(w)
      BY <3>3 DEF ConfirmFails, Held, TypeOK
    <3> QED
      BY <1>6, <3>1, <3>2, <3>3
  <2>2. \A m \in Messages : status'[m] # "absent" => status[m] # "absent"
    <3>1. CASE UNCHANGED status
      BY <3>1
    <3>2. CASE \E m \in Messages : MarkFailed(m)
      BY <3>2, MarkFailedEffect DEF Present
    <3> QED
      BY <1>6, <3>1, <3>2 DEF PublishRow, ConfirmAck, ConfirmFails, First, TypeOK
  <2>3. UNCHANGED <<pub, chan>>
    BY <1>6 DEF PublishRow, ConfirmAck, ConfirmFails
  <2> QED
    BY <2>1, <2>2, <2>3
<1>7. ASSUME NEW w \in Workers, DeleteSentBatch(w) PROVE RowsAreStored'
  BY <1>7 DEF DeleteSentBatch, RemoveRows, Held, TypeOK
<1>8. CASE PruneDeadRows \/ Tick \/ DayRoll
  BY <1>8 DEF PruneDeadRows, RemoveRows, Tick, DayRoll, Held, TypeOK
<1>9. CASE Crash
  BY <1>9 DEF Crash, Held, TypeOK
<1>10. CASE UNCHANGED vars
  BY <1>10 DEF vars, Held
<1> QED
  BY <1>1, <1>2, <1>3, <1>4, <1>5, <1>6, <1>7, <1>8, <1>9, <1>10
     DEF Next, Produce, Insert, WorkerStep

-----------------------------------------------------------------------------
(* sent_keys holds only messages the broker acknowledged.                  *)
LEMMA SentIsDeliveredStep == TypeOK /\ SentIsDelivered /\ [Next]_vars => SentIsDelivered'
<1> SUFFICES ASSUME TypeOK, SentIsDelivered, [Next]_vars PROVE SentIsDelivered'
  OBVIOUS
<1> USE DEF SentIsDelivered
<1>1. ASSUME NEW m \in Messages, PublishDirect(m) \/ Enqueue(m) PROVE SentIsDelivered'
  BY <1>1 DEF PublishDirect, Enqueue, workVars
<1>2. ASSUME NEW k \in InsertWorkers, InsertBatch(k) \/ InsertFails(k) PROVE SentIsDelivered'
  BY <1>2 DEF InsertBatch, InsertFails, workVars
<1>3. ASSUME NEW w \in Workers, Wake(w) \/ ClaimTierForBucket(w) \/ PublishRow(w)
      PROVE  SentIsDelivered'
  BY <1>3 DEF Wake, ClaimTierForBucket, PublishRow
<1>4. ASSUME NEW w \in Workers, LoadClaimedRows(w) \/ BatchError(w) PROVE SentIsDelivered'
  <2>1. CASE Drop(w)
    BY <2>1, DropEffect
  <2>2. CASE UNCHANGED <<sent, delivered>>
    BY <2>2
  <2> QED
    BY <1>4, <2>1, <2>2 DEF LoadClaimedRows, BatchError
<1>5. ASSUME NEW w \in Workers, ConfirmAck(w) \/ ConfirmFails(w) \/ DeleteSentBatch(w)
      PROVE  SentIsDelivered'
  <2>1. CASE ConfirmAck(w)
    BY <1>5, <2>1 DEF ConfirmAck, TypeOK
  <2>2. CASE ConfirmFails(w)
    BY <1>5, <2>2 DEF ConfirmFails
  <2>3. CASE DeleteSentBatch(w)
    BY <1>5, <2>3 DEF DeleteSentBatch, TypeOK
  <2> QED
    BY <1>5, <2>1, <2>2, <2>3
<1>6. CASE PruneDeadRows \/ Tick \/ DayRoll \/ Crash
  BY <1>6 DEF PruneDeadRows, Tick, DayRoll, Crash, workVars
<1>7. CASE UNCHANGED vars
  BY <1>7 DEF vars, workVars
<1> QED
  BY <1>1, <1>2, <1>3, <1>4, <1>5, <1>6, <1>7 DEF Next, Produce, Insert, WorkerStep

(* Dead means MaxRetry failures, and a row that is gone was delivered or   *)
(* was dead.                                                               *)
LEMMA RetryStep ==
  /\ TypeOK /\ RowsAreStored /\ SentIsDelivered /\ DeadAtMaxRetry /\ NothingDroppedUnsent
  /\ [Next]_vars
  => DeadAtMaxRetry' /\ NothingDroppedUnsent'
<1> SUFFICES ASSUME TypeOK, RowsAreStored, SentIsDelivered, DeadAtMaxRetry,
                    NothingDroppedUnsent, [Next]_vars
             PROVE  DeadAtMaxRetry' /\ NothingDroppedUnsent'
  OBVIOUS
<1> USE DEF DeadAtMaxRetry, NothingDroppedUnsent, Present, prodVars, rowVars
<1>a. MaxRetry \in Nat /\ MaxRetry > 0
  BY ConstantsAssumption
<1>b. ASSUME NEW m \in Messages, MarkFailed(m), pub' = pub, delivered \subseteq delivered'
      PROVE  DeadAtMaxRetry' /\ NothingDroppedUnsent'
  <2>1. retry[m] + 1 >= MaxRetry <=> FailedStatus(retry[m] + 1) = "dead"
    BY DEF FailedStatus
  <2>2. FailedStatus(retry[m] + 1) # "absent" /\ retry[m] \in Nat
    BY DEF FailedStatus, TypeOK
  <2>3. CASE Present(m)
    BY <1>a, <1>b, <2>1, <2>2, <2>3, MarkFailedEffect
  <2>4. CASE ~Present(m)
    BY <1>b, <2>4, MarkFailedEffect
  <2> QED
    BY <2>3, <2>4
<1>1. ASSUME NEW m \in Messages, PublishDirect(m) \/ Enqueue(m)
      PROVE  DeadAtMaxRetry' /\ NothingDroppedUnsent'
  BY <1>1 DEF PublishDirect, Enqueue, TypeOK
<1>2. ASSUME NEW k \in InsertWorkers, InsertBatch(k) \/ InsertFails(k)
      PROVE  DeadAtMaxRetry' /\ NothingDroppedUnsent'
  BY <1>a, <1>2 DEF InsertBatch, InsertFails, TypeOK
<1>3. ASSUME NEW w \in Workers, Wake(w)
      PROVE  DeadAtMaxRetry' /\ NothingDroppedUnsent'
  BY <1>3 DEF Wake
<1>4. ASSUME NEW w \in Workers, ClaimTierForBucket(w)
      PROVE  DeadAtMaxRetry' /\ NothingDroppedUnsent'
  BY <1>4, ClaimEffect DEF Claimable, TypeOK
<1>5. ASSUME NEW w \in Workers, LoadClaimedRows(w) \/ BatchError(w)
      PROVE  DeadAtMaxRetry' /\ NothingDroppedUnsent'
  <2>1. UNCHANGED <<pub, status, retry>>
    BY <1>5 DEF LoadClaimedRows, BatchError
  <2>2. delivered \subseteq delivered'
    BY <1>5, DropEffect DEF LoadClaimedRows, BatchError
  <2> QED
    BY <2>1, <2>2
<1>6. ASSUME NEW w \in Workers, PublishRow(w)
      PROVE  DeadAtMaxRetry' /\ NothingDroppedUnsent'
  <2>1. pub' = pub /\ delivered' = delivered
    BY <1>6 DEF PublishRow
  <2>2. UNCHANGED rowVars \/ \E m \in Messages : MarkFailed(m)
    BY <1>6 DEF PublishRow, First, TypeOK
  <2>3. CASE UNCHANGED rowVars
    BY <2>1, <2>3
  <2> QED
    BY <2>1, <2>2, <2>3, <1>b
<1>7. ASSUME NEW w \in Workers, ConfirmAck(w)
      PROVE  DeadAtMaxRetry' /\ NothingDroppedUnsent'
  BY <1>7 DEF ConfirmAck
<1>8. ASSUME NEW w \in Workers, ConfirmFails(w)
      PROVE  DeadAtMaxRetry' /\ NothingDroppedUnsent'
  <2>1. pub' = pub /\ delivered \subseteq delivered' /\ \E m \in Messages : MarkFailed(m)
    BY <1>8 DEF ConfirmFails, First, TypeOK
  <2> QED
    BY <2>1, <1>b
<1>9. ASSUME NEW w \in Workers, DeleteSentBatch(w)
      PROVE  DeadAtMaxRetry' /\ NothingDroppedUnsent'
  <2>1. PICK S \in SUBSET sent[w] : RemoveRows(S)
    BY <1>9 DEF DeleteSentBatch
  <2>2. S \subseteq delivered
    BY DEF SentIsDelivered
  <2>3. UNCHANGED <<pub, delivered>>
    BY <1>9 DEF DeleteSentBatch
  <2> QED
    BY <2>1, <2>2, <2>3 DEF RemoveRows, TypeOK
<1>10. CASE PruneDeadRows
  BY <1>10 DEF PruneDeadRows, RemoveRows, TypeOK
<1>11. CASE Tick \/ DayRoll
  BY <1>11 DEF Tick, DayRoll
<1>12. CASE Crash
  BY <1>12 DEF Crash, TypeOK
<1>13. CASE UNCHANGED vars
  BY <1>13 DEF vars
<1> QED
  BY <1>1, <1>2, <1>3, <1>4, <1>5, <1>6, <1>7, <1>8, <1>9, <1>10, <1>11, <1>12, <1>13
     DEF Next, Produce, Insert, WorkerStep

-----------------------------------------------------------------------------
(* The stages of a batch stay disjoint.                                    *)
LEMMA PhasesStep == TypeOK /\ Phases /\ [Next]_vars => Phases'
<1> SUFFICES ASSUME TypeOK, Phases, [Next]_vars PROVE Phases'
  OBVIOUS
<1> USE DEF Phases, workVars
<1>1. ASSUME NEW m \in Messages, PublishDirect(m) \/ Enqueue(m) PROVE Phases'
  BY <1>1 DEF PublishDirect, Enqueue
<1>2. ASSUME NEW k \in InsertWorkers, InsertBatch(k) \/ InsertFails(k) PROVE Phases'
  BY <1>2 DEF InsertBatch, InsertFails
<1>3. ASSUME NEW w \in Workers, Wake(w) PROVE Phases'
  BY <1>3 DEF Wake, TypeOK
<1>4. ASSUME NEW w \in Workers, ClaimTierForBucket(w) PROVE Phases'
  <2>1. pc[w] = "claim" /\ unconf' = unconf /\ sent' = sent
    BY <1>4 DEF ClaimTierForBucket
  <2>2. PICK S : todo' = [todo EXCEPT ![w] = @ \cup S]
    BY <1>4 DEF ClaimTierForBucket
  <2>3. pc' = pc \/ pc' = [pc EXCEPT ![w] = "load"]
    BY <1>4 DEF ClaimTierForBucket
  <2> QED
    BY <2>1, <2>2, <2>3 DEF TypeOK
<1>5. ASSUME NEW w \in Workers, LoadClaimedRows(w) PROVE Phases'
  <2>1. CASE Drop(w)
    BY <2>1 DEF Drop, TypeOK
  <2>2. CASE pc' = [pc EXCEPT ![w] = "flight"] /\ UNCHANGED <<scan, todo, unconf, sent, delivered>>
    BY <2>2 DEF TypeOK
  <2> QED
    BY <1>5, <2>1, <2>2 DEF LoadClaimedRows
<1>6. ASSUME NEW w \in Workers, PublishRow(w) PROVE Phases'
  <2>1. PICK m \in todo[w] :
           /\ todo' = [todo EXCEPT ![w] = @ \ {m}]
           /\ unconf' = unconf \/ unconf' = [unconf EXCEPT ![w] = @ \cup {m}]
           /\ sent' = sent /\ pc' = pc /\ pc[w] = "flight"
    BY <1>6 DEF PublishRow, First
  <2> QED
    BY <2>1 DEF TypeOK
<1>7. ASSUME NEW w \in Workers, ConfirmAck(w) PROVE Phases'
  <2>1. PICK m \in unconf[w] :
           /\ unconf' = [unconf EXCEPT ![w] = @ \ {m}]
           /\ sent' = [sent EXCEPT ![w] = @ \cup {m}]
           /\ todo' = todo /\ pc' = pc /\ pc[w] = "flight"
    BY <1>7 DEF ConfirmAck, First
  <2> QED
    BY <2>1 DEF TypeOK
<1>8. ASSUME NEW w \in Workers, ConfirmFails(w) PROVE Phases'
  BY <1>8 DEF ConfirmFails, TypeOK
<1>9. ASSUME NEW w \in Workers, DeleteSentBatch(w) PROVE Phases'
  <2>1. PICK S \in SUBSET sent[w] :
           /\ sent' = [sent EXCEPT ![w] = @ \ S]
           /\ pc' = [pc EXCEPT ![w] = IF sent[w] = S THEN "idle" ELSE @]
    BY <1>9 DEF DeleteSentBatch
  <2>2. pc[w] = "flight" /\ todo[w] = {} /\ unconf[w] = {} /\ UNCHANGED <<todo, unconf>>
    BY <1>9 DEF DeleteSentBatch
  <2> QED
    BY <2>1, <2>2 DEF TypeOK
<1>10. ASSUME NEW w \in Workers, BatchError(w) PROVE Phases'
  BY <1>10 DEF BatchError, Drop, TypeOK
<1>11. CASE PruneDeadRows \/ Tick \/ DayRoll
  BY <1>11 DEF PruneDeadRows, Tick, DayRoll
<1>12. CASE Crash
  BY <1>12 DEF Crash
<1>13. CASE UNCHANGED vars
  BY <1>13 DEF vars
<1> QED
  BY <1>1, <1>2, <1>3, <1>4, <1>5, <1>6, <1>7, <1>8, <1>9, <1>10, <1>11, <1>12, <1>13
     DEF Next, Produce, Insert, WorkerStep

-----------------------------------------------------------------------------
(* What a step may do to the rows in the workers' hands.                   *)

(* Held rows shrink, and rows still held keep their lease.                 *)
Undisturbed ==
    \A w \in Workers :
        /\ Held(w)' \subseteq Held(w)
        /\ \A m \in Held(w)' : status'[m] = status[m] /\ wait'[m] = wait[m]

(* Such a step keeps every lease valid and exclusive.                      *)
LEMMA UndisturbedKeepsLease ==
  ASSUME HeldIsLeased, LeaseIsExclusive, Undisturbed, overrun' = overrun
  PROVE  HeldIsLeased' /\ LeaseIsExclusive'
BY DEF HeldIsLeased, LeaseIsExclusive, Undisturbed

(* Every step keeps every lease valid and exclusive until one is overrun.  *)
LEMMA LeaseStep ==
  /\ TypeOK /\ RowsAreStored /\ Phases /\ HeldIsLeased /\ LeaseIsExclusive
  /\ [Next]_vars
  => HeldIsLeased' /\ LeaseIsExclusive'
<1> SUFFICES ASSUME TypeOK, RowsAreStored, Phases, HeldIsLeased, LeaseIsExclusive, [Next]_vars,
                    ~overrun'
             PROVE  HeldIsLeased' /\ LeaseIsExclusive'
  BY DEF HeldIsLeased, LeaseIsExclusive
<1> USE DEF prodVars, rowVars, workVars
<1>a. \A w \in Workers : Held(w) \subseteq Messages
  BY DEF Held, TypeOK
<1>1. ASSUME NEW m \in Messages, PublishDirect(m) \/ Enqueue(m) PROVE Undisturbed /\ overrun' = overrun
  BY <1>1 DEF PublishDirect, Enqueue, Undisturbed, Held
<1>2. ASSUME NEW k \in InsertWorkers, InsertBatch(k) \/ InsertFails(k)
      PROVE  Undisturbed /\ overrun' = overrun
  <2>1. PICK S \in SUBSET chan[k] :
           /\ status' = status \/ status' = [m \in Messages |-> IF m \in S THEN "pending" ELSE status[m]]
           /\ wait' = wait \/ wait' = [m \in Messages |-> IF m \in S THEN 0 ELSE wait[m]]
    BY <1>2 DEF InsertBatch, InsertFails
  <2>2. \A w \in Workers : Held(w) \cap S = {}
    BY DEF RowsAreStored
  <2>3. UNCHANGED <<todo, unconf, sent, overrun>>
    BY <1>2 DEF InsertBatch, InsertFails
  <2>4. \A w \in Workers : Held(w)' = Held(w)
    BY <2>3 DEF Held
  <2> QED
    BY <1>a, <2>1, <2>2, <2>3, <2>4 DEF Undisturbed
<1>3. ASSUME NEW w \in Workers, Wake(w) PROVE Undisturbed /\ overrun' = overrun
  BY <1>3 DEF Wake, Undisturbed, Held
<1>4. ASSUME NEW w \in Workers, ClaimTierForBucket(w) PROVE HeldIsLeased' /\ LeaseIsExclusive'
  <2>1. PICK S \in SUBSET Messages :
            /\ \A m \in S : Claimable(m)
            /\ todo' = [todo EXCEPT ![w] = @ \cup S]
            /\ status' = [m \in Messages |-> IF m \in S THEN "sending" ELSE status[m]]
            /\ wait' = [m \in Messages |-> IF m \in S THEN Lease ELSE wait[m]]
            /\ UNCHANGED <<pub, chan, retry, unconf, sent, delivered, overrun>>
    BY <1>4, ClaimEffect
  <2>2. ~overrun
    BY <2>1
  <2>3. \A v \in Workers : Held(v) \cap S = {}
    BY <2>1, <2>2, <1>a DEF HeldIsLeased, Claimable, TypeOK
  <2>4. \A v \in Workers : Held(v)' = IF v = w THEN Held(v) \cup S ELSE Held(v)
    BY <2>1 DEF Held, TypeOK
  <2>5. Lease \in Nat /\ Lease > 0
    BY ConstantsAssumption
  <2>6. HeldIsLeased'
    BY <1>a, <2>1, <2>2, <2>3, <2>4, <2>5 DEF HeldIsLeased
  <2>7. LeaseIsExclusive'
    BY <2>2, <2>3, <2>4 DEF LeaseIsExclusive
  <2> QED
    BY <2>6, <2>7
<1>5. ASSUME NEW w \in Workers, LoadClaimedRows(w) \/ BatchError(w)
      PROVE  Undisturbed /\ overrun' = overrun
  <2>1. UNCHANGED <<status, wait, overrun>>
    BY <1>5 DEF LoadClaimedRows, BatchError
  <2>2. \A v \in Workers : Held(v)' \subseteq Held(v)
    <3>1. CASE Drop(w)
      BY <3>1, DropEffect
    <3>2. CASE UNCHANGED <<todo, unconf, sent>>
      BY <3>2 DEF Held
    <3> QED
      BY <1>5, <3>1, <3>2 DEF LoadClaimedRows, BatchError
  <2> QED
    BY <2>1, <2>2 DEF Undisturbed
<1>6. ASSUME NEW w \in Workers, PublishRow(w) PROVE Undisturbed /\ overrun' = overrun
  <2>1. PICK m \in First(todo[w]) :
           /\ todo' = [todo EXCEPT ![w] = @ \ {m}]
           /\ \/ unconf' = [unconf EXCEPT ![w] = @ \cup {m}] /\ UNCHANGED rowVars
              \/ MarkFailed(m) /\ UNCHANGED unconf
    BY <1>6 DEF PublishRow
  <2>2. m \in todo[w] /\ m \in Messages /\ m \in Held(w)
    BY <2>1 DEF First, TypeOK, Held
  <2>3. sent' = sent /\ overrun' = overrun
    BY <1>6 DEF PublishRow
  <2>4. CASE unconf' = [unconf EXCEPT ![w] = @ \cup {m}] /\ UNCHANGED rowVars
    <3>1. \A v \in Workers : Held(v)' \subseteq Held(v)
      BY <2>1, <2>2, <2>3, <2>4 DEF Held, TypeOK
    <3> QED
      BY <2>3, <2>4, <3>1 DEF Undisturbed
  <2>5. CASE MarkFailed(m) /\ UNCHANGED unconf
    <3>1. \A v \in Workers : Held(v)' \subseteq Held(v)
      BY <2>1, <2>2, <2>3, <2>5 DEF Held, TypeOK
    <3>2. \A v \in Workers : m \notin Held(v)'
      <4>1. m \notin Held(w)'
        BY <2>1, <2>2, <2>3, <2>5 DEF Held, TypeOK, Phases
      <4>2. \A v \in Workers \ {w} : m \notin Held(v)
        BY <2>2, <2>3 DEF LeaseIsExclusive
      <4> QED
        BY <3>1, <4>1, <4>2
    <3>3. \A n \in Messages \ {m} : status'[n] = status[n] /\ wait'[n] = wait[n]
      BY <2>2, <2>5, MarkFailedEffect
    <3> QED
      BY <1>a, <2>3, <3>1, <3>2, <3>3 DEF Undisturbed
  <2> QED
    BY <2>1, <2>4, <2>5
<1>7. ASSUME NEW w \in Workers, ConfirmAck(w) PROVE Undisturbed /\ overrun' = overrun
  <2>1. PICK m \in unconf[w] :
           /\ unconf' = [unconf EXCEPT ![w] = @ \ {m}]
           /\ sent' = [sent EXCEPT ![w] = @ \cup {m}]
           /\ UNCHANGED <<todo, status, wait, overrun>>
    BY <1>7 DEF ConfirmAck, First
  <2>2. \A v \in Workers : Held(v)' \subseteq Held(v)
    BY <2>1 DEF Held, TypeOK
  <2> QED
    BY <2>1, <2>2 DEF Undisturbed
<1>8. ASSUME NEW w \in Workers, ConfirmFails(w) PROVE Undisturbed /\ overrun' = overrun
  <2>1. PICK m \in unconf[w] :
           /\ MarkFailed(m)
           /\ unconf' = [unconf EXCEPT ![w] = @ \ {m}]
           /\ UNCHANGED <<todo, sent, overrun>>
    BY <1>8 DEF ConfirmFails, First
  <2>2. m \in Messages /\ m \in Held(w)
    BY <2>1 DEF TypeOK, Held
  <2>3. \A v \in Workers : Held(v)' \subseteq Held(v)
    BY <2>1 DEF Held, TypeOK
  <2>4. m \notin Held(w)'
    BY <2>1 DEF Held, TypeOK, Phases
  <2>5. \A v \in Workers \ {w} : m \notin Held(v)
    BY <2>1, <2>2 DEF LeaseIsExclusive
  <2>6. \A n \in Messages \ {m} : status'[n] = status[n] /\ wait'[n] = wait[n]
    BY <2>1, <2>2, MarkFailedEffect
  <2> QED
    BY <1>a, <2>1, <2>3, <2>4, <2>5, <2>6 DEF Undisturbed
<1>9. ASSUME NEW w \in Workers, DeleteSentBatch(w) PROVE Undisturbed /\ overrun' = overrun
  <2>1. PICK S \in SUBSET sent[w] : RemoveRows(S) /\ sent' = [sent EXCEPT ![w] = @ \ S]
    BY <1>9 DEF DeleteSentBatch
  <2>2. /\ UNCHANGED <<todo, unconf, overrun>>
        /\ todo[w] = {} /\ unconf[w] = {}
    BY <1>9 DEF DeleteSentBatch
  <2>3. \A v \in Workers : Held(v)' = Held(v) \ (IF v = w THEN S ELSE {})
    BY <2>1, <2>2 DEF Held, TypeOK
  <2>4. \A v \in Workers \ {w} : Held(v) \cap S = {}
    BY <2>1, <2>2 DEF LeaseIsExclusive, Held
  <2>5. \A n \in Messages \ S : status'[n] = status[n] /\ wait'[n] = wait[n]
    BY <2>1 DEF RemoveRows
  <2> QED
    BY <1>a, <2>2, <2>3, <2>4, <2>5 DEF Undisturbed
<1>10. CASE PruneDeadRows
  <2>1. PICK S \in SUBSET Messages : RemoveRows(S) /\ \A m \in S : status[m] = "dead"
    BY <1>10 DEF PruneDeadRows
  <2>2. UNCHANGED <<todo, unconf, sent, overrun>>
    BY <1>10 DEF PruneDeadRows
  <2>3. \A v \in Workers : Held(v)' = Held(v) /\ Held(v) \cap S = {}
    BY <2>1, <2>2 DEF HeldIsLeased, Held
  <2>4. \A n \in Messages \ S : status'[n] = status[n] /\ wait'[n] = wait[n]
    BY <2>1 DEF RemoveRows
  <2> QED
    BY <1>a, <2>2, <2>3, <2>4, UndisturbedKeepsLease DEF Undisturbed
<1>11. CASE Tick
  <2>1. /\ wait' = [m \in Messages |->
                       IF Present(m) /\ wait[m] > WaitFloor THEN wait[m] - 1 ELSE wait[m]]
        /\ ~overrun /\ ~\E w \in Workers : \E m \in Held(w) : wait[m] = 1
        /\ UNCHANGED <<todo, unconf, sent, status>>
    BY <1>11 DEF Tick
  <2>2. \A w \in Workers : Held(w)' = Held(w)
    BY <2>1 DEF Held
  <2>3. \A w \in Workers : \A m \in Held(w) : wait[m] \in Int /\ wait[m] > 0 /\ wait[m] # 1
    BY <1>a, <2>1 DEF HeldIsLeased, TypeOK
  <2>4. \A w \in Workers : \A m \in Held(w) : wait'[m] > 0
    BY <1>a, <2>1, <2>3
  <2> QED
    BY <2>1, <2>2, <2>4 DEF HeldIsLeased, LeaseIsExclusive
<1>12. CASE DayRoll
  BY <1>12, UndisturbedKeepsLease DEF DayRoll, Undisturbed, Held
<1>13. CASE Crash
  BY <1>13, UndisturbedKeepsLease DEF Crash, Undisturbed, Held
<1>14. CASE UNCHANGED vars
  BY <1>14, UndisturbedKeepsLease DEF vars, Undisturbed, Held
<1> QED
  BY <1>1, <1>2, <1>3, <1>4, <1>5, <1>6, <1>7, <1>8, <1>9, <1>10, <1>11, <1>12, <1>13, <1>14,
     UndisturbedKeepsLease DEF Next, Produce, Insert, WorkerStep

-----------------------------------------------------------------------------
(* The inductive invariant holds in every reachable state.                 *)
THEOREM Invariance == Spec => []IInv
<1>1. IInv /\ [Next]_vars => IInv'
  BY TypeStep, RowsAreStoredStep, SentIsDeliveredStep, RetryStep, PhasesStep, LeaseStep DEF IInv
<1> QED
  BY InitIInv, <1>1, PTL DEF Spec

(* A stored row leaves the table only when the broker holds the message or *)
(* after MaxRetry recorded failures.                                       *)
THEOREM NothingDroppedUnsentHolds == Spec => []NothingDroppedUnsent
<1>1. IInv => NothingDroppedUnsent
  BY DEF IInv
<1> QED
  BY Invariance, <1>1, PTL

(* While no lease is overrun, a row is in the hands of one worker at most. *)
THEOREM LeaseIsExclusiveHolds == Spec => []LeaseIsExclusive
<1>1. IInv => LeaseIsExclusive
  BY DEF IInv
<1> QED
  BY Invariance, <1>1, PTL

(* A present row is dead exactly when it has failed MaxRetry times.        *)
THEOREM DeadAtMaxRetryHolds == Spec => []DeadAtMaxRetry
<1>1. IInv => DeadAtMaxRetry
  BY DEF IInv
<1> QED
  BY Invariance, <1>1, PTL

(* A dead row is never revived, whoever reports a failure for it.          *)
THEOREM DeadIsFinalHolds == Spec => DeadIsFinal
<1> DEFINE Final == \A m \in Messages : status[m] = "dead" => status'[m] \in {"dead", "absent"}
<1>1. ASSUME IInv, [Next]_vars PROVE Final
  <2> SUFFICES ASSUME NEW m \in Messages, status[m] = "dead"
               PROVE  status'[m] \in {"dead", "absent"}
    OBVIOUS
  <2> USE DEF prodVars, rowVars, workVars
  <2>a. retry[m] >= MaxRetry /\ pub[m] = "stored" /\ TypeOK
    BY <1>1 DEF IInv, DeadAtMaxRetry, RowsAreStored, Present
  <2>1. ASSUME NEW n \in Messages, MarkFailed(n) PROVE status'[m] = "dead"
    <3>1. CASE n = m
      <4>1. retry[m] \in Nat /\ MaxRetry \in Nat
        BY <2>a, ConstantsAssumption DEF TypeOK
      <4>2. FailedStatus(retry[m] + 1) = "dead"
        BY <2>a, <4>1 DEF FailedStatus
      <4> QED
        BY <2>1, <2>a, <3>1, <4>2, MarkFailedEffect DEF Present
    <3>2. CASE n # m
      BY <2>1, <2>a, <3>2, MarkFailedEffect
    <3> QED
      BY <3>1, <3>2
  <2>2. ASSUME NEW n \in Messages, PublishDirect(n) \/ Enqueue(n) PROVE status'[m] = "dead"
    BY <2>2 DEF PublishDirect, Enqueue
  <2>3. ASSUME NEW k \in InsertWorkers, InsertBatch(k) \/ InsertFails(k) PROVE status'[m] = "dead"
    BY <1>1, <2>3, <2>a DEF InsertBatch, InsertFails, IInv, RowsAreStored
  <2>4. ASSUME NEW w \in Workers, ClaimTierForBucket(w) PROVE status'[m] = "dead"
    BY <2>4, <2>a, ClaimEffect DEF Claimable
  <2>5. ASSUME NEW w \in Workers,
               Wake(w) \/ LoadClaimedRows(w) \/ ConfirmAck(w) \/ BatchError(w)
        PROVE  status'[m] = "dead"
    BY <2>5 DEF Wake, LoadClaimedRows, ConfirmAck, BatchError
  <2>6. ASSUME NEW w \in Workers, PublishRow(w) \/ ConfirmFails(w) PROVE status'[m] = "dead"
    <3>1. status' = status \/ \E n \in Messages : MarkFailed(n)
      BY <2>6, <2>a DEF PublishRow, ConfirmFails, First, TypeOK
    <3> QED
      BY <3>1, <2>1
  <2>7. ASSUME NEW w \in Workers, DeleteSentBatch(w) PROVE status'[m] \in {"dead", "absent"}
    BY <2>7 DEF DeleteSentBatch, RemoveRows
  <2>8. CASE PruneDeadRows
    BY <2>8 DEF PruneDeadRows, RemoveRows
  <2>9. CASE Tick \/ DayRoll \/ Crash \/ UNCHANGED vars
    BY <2>9 DEF Tick, DayRoll, Crash, vars
  <2> QED
    BY <1>1, <2>2, <2>3, <2>4, <2>5, <2>6, <2>7, <2>8, <2>9 DEF Next, Produce, Insert, WorkerStep
<1>2. Spec => [][Final]_vars
  BY Invariance, <1>1, PTL DEF Spec
<1> QED
  BY <1>2 DEF DeadIsFinal

-----------------------------------------------------------------------------
(* MdOutbox implements DeliveryPromise.                                    *)

Promised == {m \in Messages : Present(m)}
GivenUp == {m \in Messages : retry[m] >= MaxRetry}

(* Rows come with an INSERT and go with a DELETE; every other step at most *)
(* adds to what the broker holds and to what has been given up.            *)
LEMMA PromiseChange ==
  ASSUME IInv, [Next]_vars
  PROVE  \/ /\ Promised' = Promised
            /\ GivenUp \subseteq GivenUp'
            /\ delivered \subseteq delivered'
         \/ \E k \in InsertWorkers : InsertBatch(k)
         \/ \E S \in SUBSET (delivered \cup GivenUp) : RemoveRows(S) /\ UNCHANGED delivered
<1> DEFINE Attempts == /\ Promised' = Promised
                       /\ GivenUp \subseteq GivenUp'
                       /\ delivered \subseteq delivered'
           Inserts == \E k \in InsertWorkers : InsertBatch(k)
           Removes == \E S \in SUBSET (delivered \cup GivenUp) :
                          RemoveRows(S) /\ UNCHANGED delivered
<1> SUFFICES Attempts \/ Inserts \/ Removes
  OBVIOUS
<1> USE DEF prodVars, rowVars
<1>t. TypeOK /\ MaxRetry \in Nat
  BY ConstantsAssumption DEF IInv
<1>a. ASSUME UNCHANGED <<status, retry>>, delivered \subseteq delivered' PROVE Attempts
  BY <1>a DEF Promised, GivenUp, Present
<1>b. ASSUME NEW m \in Messages, MarkFailed(m), delivered \subseteq delivered' PROVE Attempts
  <2>1. \A n \in Messages : Present(n)' <=> Present(n)
    BY <1>b, <1>t, MarkFailedEffect DEF Present, FailedStatus
  <2>2. \A n \in Messages : retry'[n] \in {retry[n], retry[n] + 1}
    BY <1>b, <1>t, MarkFailedEffect
  <2>3. \A n \in Messages : retry[n] \in Nat
    BY <1>t DEF TypeOK
  <2> QED
    BY <1>b, <1>t, <2>1, <2>2, <2>3 DEF Promised, GivenUp
<1>1. ASSUME NEW m \in Messages, PublishDirect(m) \/ Enqueue(m) PROVE Attempts
  BY <1>1, <1>a DEF PublishDirect, Enqueue
<1>2. ASSUME NEW k \in InsertWorkers, InsertBatch(k) \/ InsertFails(k)
      PROVE  Attempts \/ Inserts
  BY <1>2, <1>a DEF InsertFails
<1>3. ASSUME NEW w \in Workers, ClaimTierForBucket(w) PROVE Attempts
  <2>1. \A m \in Messages : Present(m)' <=> Present(m)
    BY <1>3, <1>t, ClaimEffect DEF Present, Claimable
  <2>2. UNCHANGED <<retry, delivered>>
    BY <1>3, <1>t, ClaimEffect
  <2> QED
    BY <2>1, <2>2 DEF Promised, GivenUp
<1>4. ASSUME NEW w \in Workers,
             Wake(w) \/ LoadClaimedRows(w) \/ ConfirmAck(w) \/ BatchError(w)
      PROVE  Attempts
  <2>1. UNCHANGED <<status, retry>>
    BY <1>4 DEF Wake, LoadClaimedRows, ConfirmAck, BatchError
  <2>2. delivered \subseteq delivered'
    BY <1>4, <1>t, DropEffect DEF Wake, LoadClaimedRows, ConfirmAck, BatchError
  <2> QED
    BY <2>1, <2>2, <1>a
<1>5. ASSUME NEW w \in Workers, PublishRow(w) \/ ConfirmFails(w) PROVE Attempts
  <2>1. UNCHANGED <<status, retry>> \/ \E m \in Messages : MarkFailed(m)
    BY <1>5, <1>t DEF PublishRow, ConfirmFails, First, TypeOK
  <2>2. delivered \subseteq delivered'
    BY <1>5 DEF PublishRow, ConfirmFails
  <2> QED
    BY <2>1, <2>2, <1>a, <1>b
<1>6. ASSUME NEW w \in Workers, DeleteSentBatch(w) PROVE Removes
  <2>1. PICK S \in SUBSET sent[w] : RemoveRows(S)
    BY <1>6 DEF DeleteSentBatch
  <2>2. S \subseteq delivered /\ UNCHANGED delivered
    BY <1>6 DEF IInv, SentIsDelivered, DeleteSentBatch
  <2> QED
    BY <2>1, <2>2
<1>7. CASE PruneDeadRows
  <2>1. PICK S \in SUBSET {m \in Messages : status[m] = "dead"} : RemoveRows(S)
    BY <1>7 DEF PruneDeadRows
  <2>2. S \subseteq GivenUp
    BY <2>1 DEF IInv, DeadAtMaxRetry, GivenUp, Present
  <2>3. UNCHANGED delivered
    BY <1>7 DEF PruneDeadRows
  <2> QED
    BY <2>1, <2>2, <2>3
<1>8. CASE Tick \/ DayRoll \/ Crash \/ UNCHANGED vars
  <2>1. UNCHANGED <<status, retry>> /\ delivered \subseteq delivered'
    BY <1>8 DEF Tick, DayRoll, Crash, vars
  <2> QED
    BY <2>1, <1>a
<1> HIDE DEF Attempts, Inserts, Removes
<1> QED
  BY <1>1, <1>2, <1>3, <1>4, <1>5, <1>6, <1>7, <1>8 DEF Next, Produce, Insert, WorkerStep

LEMMA PromiseStep == IInv /\ [Next]_vars => [Promise!Next]_(Promise!vars)
<1> SUFFICES ASSUME IInv, [Next]_vars PROVE Promise!Next
  BY DEF Promise!vars
<1>1. TypeOK /\ TypeOK' /\ MaxRetry \in Nat \ {0}
  BY TypeStep, ConstantsAssumption DEF IInv
<1>2. CASE Promised' = Promised /\ GivenUp \subseteq GivenUp' /\ delivered \subseteq delivered'
  <2>1. PICK S \in SUBSET Messages, T \in SUBSET Messages : S = delivered' /\ T = GivenUp'
    BY <1>1 DEF TypeOK, GivenUp
  <2>2. Promise!Attempt(S, T)
    BY <1>2, <2>1 DEF Promise!Attempt, Promised, GivenUp
  <2> QED
    BY <2>2 DEF Promise!Next
<1>3. CASE \E k \in InsertWorkers : InsertBatch(k)
  <2>1. PICK k \in InsertWorkers, S \in SUBSET Messages :
            /\ status' = [m \in Messages |-> IF m \in S THEN "pending" ELSE status[m]]
            /\ retry' = [m \in Messages |-> IF m \in S THEN 0 ELSE retry[m]]
            /\ UNCHANGED delivered
    BY <1>1, <1>3 DEF InsertBatch, TypeOK
  <2>2. \A m \in Messages : Present(m)' <=> Present(m) \/ m \in S
    BY <2>1 DEF Present
  <2>3. \A m \in Messages : retry'[m] >= MaxRetry <=> retry[m] >= MaxRetry /\ m \notin S
    BY <1>1, <2>1
  <2>4. Promise!Promise(S)
    BY <2>1, <2>2, <2>3 DEF Promise!Promise
  <2> QED
    BY <2>4 DEF Promise!Next
<1>4. CASE \E S \in SUBSET (delivered \cup GivenUp) : RemoveRows(S) /\ UNCHANGED delivered
  <2>1. PICK S \in SUBSET (delivered \cup GivenUp) : RemoveRows(S) /\ UNCHANGED delivered
    BY <1>4
  <2>2. PICK T \in SUBSET Messages : T = S \cap Promised
    BY DEF Promised
  <2>3. \A m \in Messages : Present(m)' <=> Present(m) /\ m \notin S
    BY <2>1 DEF RemoveRows, Present
  <2>4. retry' = retry
    BY <2>1 DEF RemoveRows
  <2>5. Promise!Forget(T)
    BY <2>1, <2>2, <2>3, <2>4 DEF Promise!Forget, Promised, GivenUp
  <2> QED
    BY <2>5 DEF Promise!Next
<1> QED
  BY <1>2, <1>3, <1>4, PromiseChange

(* A message the outbox has stored is forgotten only once the broker holds *)
(* it or after MaxRetry failures.                                          *)
THEOREM KeepsPromiseHolds == Spec => KeepsPromise
<1>1. Init => Promise!Init
  BY ConstantsAssumption DEF Init, Promise!Init, Present
<1> QED
  BY <1>1, PromiseStep, Invariance, PTL DEF Spec, KeepsPromise, Promise!Spec

=============================================================================
