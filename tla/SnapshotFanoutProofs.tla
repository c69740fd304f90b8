------------------------ MODULE SnapshotFanoutProofs ------------------------
(***************************************************************************)
(* Machine-checked proofs that the type invariant of SnapshotFanout and    *)
(* UnpublishedIsOwed hold for every number of minutes, repairs, rewinds,   *)
(* faults, and every budget of the projector.                              *)
(***************************************************************************)
EXTENDS SnapshotFanout, WellFoundedInduction, TLAPS

Awake == {"reserved", "live", "rest"}

(* The projector works on a minute only while it has budget, and has       *)
(* initialized its progress before it ever wakes.                          *)
BudgetLasts ==
    /\ task # Nothing => stage \in Awake
    /\ stage \in Awake => budget > 0
    /\ stage = "reserved" => reserved > 0
    /\ stage # "off" => last # Absent

(* Rows, and the live progress, are behind the frontier.                   *)
RowsAreBehind ==
    /\ \A m \in Minutes : rows[m] # 0 => m < front
    /\ last < front

(* A batch is the beginning of the pending range, which is behind the      *)
(* frontier.                                                               *)
BatchIsPending ==
    /\ hist # Nothing => hist[1] <= hist[2] /\ hist[2] < front
    /\ batch # Nothing => /\ hist # Nothing
                          /\ batch.from = hist[1]
                          /\ batch.from <= batch.to /\ batch.to <= hist[2]
                          /\ batch.at <= batch.to + 1

(* What is not as it was published will be written again or is given up.   *)
Rewritten(m) == Covers(hist, m) \/ m \in lost

Settled(m) == rows[m] = 0 \/ pub[m] = rows[m] \/ Rewritten(m)

(* The minute of the task will be settled by what was loaded for it.       *)
Loaded(m) ==
    /\ task.at = "send" => rows[m] = 0 \/ task.version = rows[m] \/ Rewritten(m)
    /\ task.at = "advance" => Settled(m)

(* Before its advance a live task has left nothing behind between the      *)
(* progress and its minute, ...                                            *)
LiveTaskIsSettled ==
    task # Nothing /\ task.kind = "live" =>
        /\ last < task.ts /\ task.ts < front
        /\ \A m \in Minutes : last < m /\ m < task.ts => Settled(m) \/ Covers(repair, m)
        /\ Loaded(task.ts) \/ Covers(repair, task.ts)

(* ... and a repair task has its minute covered, its range unchanged but   *)
(* for marks it knows of, and its minute settled or ahead of the progress. *)
RepairTaskIsSettled ==
    task # Nothing /\ task.kind = "repair" =>
        /\ Covers(repair, task.ts)
        /\ ~task.marked => /\ repair = <<task.ts, task.end>>
                           /\ Loaded(task.ts) \/ last < task.ts

IInv ==
    /\ TypeOK
    /\ BudgetLasts
    /\ RowsAreBehind
    /\ BatchIsPending
    /\ LiveTaskIsSettled
    /\ RepairTaskIsSettled
    /\ UnpublishedIsOwed

-----------------------------------------------------------------------------
(* Every nonempty set of natural numbers has a least element, ...          *)
LEMMA LeastExists ==
  ASSUME NEW T, T \subseteq Nat, T # {}
  PROVE  \E x \in T : \A y \in T : x <= y
<1>1. IsWellFoundedOn(OpToRel(<, Nat), Nat)
  BY NatLessThanWellFounded
<1>2. PICK x \in T : \A y \in T : <<y, x>> \notin OpToRel(<, Nat)
  BY <1>1, WFMin
<1>3. \A y \in T : ~(y < x)
  BY <1>2 DEF OpToRel
<1> QED
  BY <1>3

(* ... and one with an upper bound has a greatest.                         *)
LEMMA GreatestExists ==
  ASSUME NEW bound \in Nat, NEW T, T \subseteq 0..bound, T # {}
  PROVE  \E x \in T : \A y \in T : y <= x
<1> DEFINE U == {d \in 0..bound : bound - d \in T}
<1>1. U # {} /\ U \subseteq Nat
  <2>1. PICK x \in T : TRUE
    OBVIOUS
  <2>2. bound - x \in 0..bound /\ bound - (bound - x) = x
    BY <2>1
  <2>3. bound - x \in U
    BY <2>1, <2>2
  <2>4. U \subseteq Nat
    OBVIOUS
  <2> HIDE DEF U
  <2> QED
    BY <2>3, <2>4
<1>2. PICK d \in U : \A e \in U : d <= e
  BY <1>1, LeastExists
<1>3. \A y \in T : bound - y \in U
  <2> TAKE y \in T
  <2>1. bound - y \in 0..bound /\ bound - (bound - y) = y
    OBVIOUS
  <2> QED
    BY <2>1
<1>4. \A y \in T : d <= bound - y
  BY <1>2, <1>3
<1>5. bound - d \in T /\ d \in 0..bound
  BY <1>2
<1>6. \A y \in T : y <= bound - d
  BY <1>4, <1>5
<1> QED
  BY <1>5, <1>6

(* What the initial progress is taken for is the last minute with rows.    *)
LEMMA TopRowIsLast ==
  ASSUME TypeOK
  PROVE  /\ TopRow \in 0..Last
         /\ TopRow # 0 => TopRow \in Minutes /\ rows[TopRow] # 0
<1> DEFINE present == {0} \cup {m \in Minutes : rows[m] # 0}
<1>1. Last \in Nat
  BY ConstantsAssumption
<1>2. present \subseteq 0..Last /\ present # {}
  BY <1>1 DEF Minutes
<1>3. \E x \in present : \A y \in present : y <= x
  BY <1>1, <1>2, GreatestExists
<1>4. TopRow \in present
  BY <1>3 DEF TopRow
<1> QED
  BY <1>2, <1>4

(* A range covers a minute that a merge adds, and what it covered before.  *)
LEMMA MergeCovers ==
  ASSUME NEW range \in {Nothing} \cup Ranges, NEW from \in Minutes, NEW to \in Minutes, NEW m \in Minutes
  PROVE  /\ Merge(range, from, to) \in Ranges
         /\ Covers(range, m) \/ m \in from..to => Covers(Merge(range, from, to), m)
<1>1. Minutes \subseteq Nat
  BY ConstantsAssumption DEF Minutes
<1>2. CASE range = Nothing
  BY <1>1, <1>2 DEF Merge, Covers, Nothing, Ranges
<1>3. CASE range # Nothing
  <2>1. range \in Ranges /\ range[1] \in Minutes /\ range[2] \in Minutes
    BY <1>3 DEF Ranges
  <2>2. Smaller(range[1], from) \in Minutes /\ Larger(range[2], to) \in Minutes
    BY <2>1 DEF Smaller, Larger
  <2>3. Merge(range, from, to) = <<Smaller(range[1], from), Larger(range[2], to)>>
    BY <1>3 DEF Merge
  <2>4. /\ Merge(range, from, to) # Nothing
        /\ Merge(range, from, to)[1] = Smaller(range[1], from)
        /\ Merge(range, from, to)[2] = Larger(range[2], to)
    BY <2>3 DEF Nothing
  <2>a. range[1] \in Nat /\ range[2] \in Nat /\ from \in Nat /\ to \in Nat /\ m \in Nat
    BY <1>1, <2>1
  <2>5. /\ Smaller(range[1], from) <= range[1] /\ Smaller(range[1], from) <= from
        /\ Larger(range[2], to) >= range[2] /\ Larger(range[2], to) >= to
    BY <2>a DEF Smaller, Larger
  <2>6. Covers(range, m) \/ m \in from..to => Covers(Merge(range, from, to), m)
    <3>1. Smaller(range[1], from) \in Nat /\ Larger(range[2], to) \in Nat
      BY <1>1, <2>2
    <3> QED
      BY <1>3, <2>a, <2>4, <2>5, <3>1 DEF Covers
  <2> QED
    BY <2>2, <2>3, <2>6 DEF Ranges
<1> QED
  BY <1>2, <1>3

(* The bounds and budgets are numbers.                                      *)
LEMMA Numbers ==
  /\ Last \in Nat /\ Last > 0
  /\ Budget \in Nat /\ Budget > 0 /\ Reserved \in Nat /\ Reserved <= Budget
  /\ MaxRepairs \in Nat /\ MaxRewinds \in Nat /\ MaxFaults \in Nat
  /\ Minutes \subseteq Nat /\ 0 \notin Minutes
  /\ \A m \in Int : m \in Minutes <=> 1 <= m /\ m <= Last
BY ConstantsAssumption DEF Minutes

(* A minute as a number.                                                   *)
LEMMA MinuteRange ==
  ASSUME NEW m \in Minutes
  PROVE  m \in Nat /\ m \in 0..Last /\ m \in -1..Last /\ 1 <= m /\ m <= Last
BY ConstantsAssumption DEF Minutes

THEOREM InitIInv == Init => IInv
<1> SUFFICES ASSUME Init PROVE IInv
  OBVIOUS
<1>1. TypeOK
  BY Numbers DEF Init, TypeOK, Stages, Absent, Minutes
<1>2. BudgetLasts /\ RowsAreBehind /\ BatchIsPending
  BY DEF Init, BudgetLasts, RowsAreBehind, BatchIsPending, Awake, Absent, Nothing
<1>3. LiveTaskIsSettled /\ RepairTaskIsSettled /\ UnpublishedIsOwed
  BY DEF Init, LiveTaskIsSettled, RepairTaskIsSettled, UnpublishedIsOwed
<1> QED
  BY <1>1, <1>2, <1>3 DEF IInv

-----------------------------------------------------------------------------
(* Each step keeps the types.                                              *)
LEMMA TypeStep ==
  ASSUME IInv, [Next]_vars
  PROVE  TypeOK'
<1> USE Numbers
<1>a. TypeOK /\ BudgetLasts /\ RowsAreBehind /\ BatchIsPending
  BY DEF IInv
<1>b. \A m \in Minutes : rows[m] \in Nat /\ written[m] \in Nat
  BY <1>a DEF TypeOK
<1>1. CASE WriteLive
  <2>1. front \in Minutes /\ front + 1 \in 1..(Last + 1)
    BY <1>1, <1>a DEF WriteLive, TypeOK
  <2>2. written' \in [Minutes -> Nat] /\ rows' \in [Minutes -> Nat]
    BY <1>1, <1>a, <2>1 DEF WriteLive, Write, TypeOK
  <2> QED
    BY <1>1, <1>a, <2>1, <2>2 DEF WriteLive, TypeOK, loopVars, boundVars
<1>2. CASE SkipLive
  <2>1. front \in Minutes /\ front + 1 \in 1..(Last + 1)
    BY <1>2, <1>a DEF SkipLive, TypeOK
  <2>2. hist' \in Ranges
    BY <1>2, <1>a, <2>1, MergeCovers DEF SkipLive, TypeOK
  <2>3. repairs' \in 0..MaxRepairs
    BY <1>2, <1>a DEF SkipLive, TypeOK
  <2> QED
    BY <1>2, <1>a, <2>1, <2>2, <2>3 DEF SkipLive, TypeOK, loopVars
<1>3. CASE \E m \in Minutes : MarkHistory(m)
  <2>1. PICK m \in Minutes : MarkHistory(m)
    BY <1>3
  <2>2. front - 1 \in Minutes
    BY <2>1, <1>a DEF MarkHistory, TypeOK
  <2>3. hist' \in Ranges
    BY <2>1, <2>2, <1>a, MergeCovers DEF MarkHistory, TypeOK
  <2>4. repairs' \in 0..MaxRepairs
    BY <2>1, <1>a DEF MarkHistory, TypeOK
  <2> QED
    BY <2>1, <1>a, <2>3, <2>4 DEF MarkHistory, TypeOK, loopVars
<1>4. CASE \E m \in Minutes : RewindTail(m)
  <2>1. PICK r \in Minutes : RewindTail(r)
    BY <1>4
  <2>2. rows' \in [Minutes -> Nat] /\ pub' \in [Minutes -> Nat]
    BY <2>1, <1>a, <1>b DEF RewindTail, TypeOK
  <2>3. front' \in 1..(Last + 1) /\ last' \in -1..Last
    BY <2>1, <1>a DEF RewindTail, TypeOK, Smaller
  <2>4. rewinds' \in 0..MaxRewinds
    BY <2>1, <1>a DEF RewindTail, TypeOK
  <2>5. lost' \in SUBSET Minutes
    BY <2>1, <1>a DEF RewindTail, TypeOK
  <2> QED
    BY <2>1, <1>a, <2>2, <2>3, <2>4, <2>5 DEF RewindTail, TypeOK, loopVars
<1>5. CASE StartBatch
  <2>1. hist \in Ranges /\ hist[1] \in Minutes /\ hist[2] \in Minutes
    BY <1>5, <1>a DEF StartBatch, TypeOK, Ranges
  <2>2. PICK to \in hist[1]..hist[2] : batch' = [from |-> hist[1], to |-> to, at |-> 0]
    BY <1>5 DEF StartBatch
  <2>3. to \in Minutes
    <3>1. hist[1] \in Nat /\ hist[2] \in Nat /\ 1 <= hist[1] /\ hist[2] <= Last
      BY <2>1, MinuteRange
    <3>2. to \in Int /\ hist[1] <= to /\ to <= hist[2]
      BY <2>2, <3>1
    <3> QED
      BY <3>1, <3>2
  <2>4. batch' \in [from : Minutes, to : Minutes, at : 0..(Last + 1)]
    BY <2>1, <2>2, <2>3
  <2> QED
    BY <1>5, <1>a, <2>4 DEF StartBatch, TypeOK, loopVars, boundVars
<1>6. CASE ClearRange
  <2>1. batch \in [from : Minutes, to : Minutes, at : 0..(Last + 1)] /\ batch.from \in 0..(Last + 1)
    BY <1>6, <1>a DEF ClearRange, TypeOK
  <2>2. batch' \in [from : Minutes, to : Minutes, at : 0..(Last + 1)]
    BY <1>6, <2>1 DEF ClearRange
  <2>3. rows' \in [Minutes -> Nat]
    BY <1>6, <1>b DEF ClearRange
  <2> QED
    BY <1>6, <1>a, <2>2, <2>3 DEF ClearRange, TypeOK, loopVars, boundVars
<1>7. CASE WriteBatch
  <2>1. batch \in [from : Minutes, to : Minutes, at : 0..(Last + 1)] /\ batch.at \in Minutes
    BY <1>7, <1>a DEF WriteBatch, TypeOK
  <2>2. batch' \in [from : Minutes, to : Minutes, at : 0..(Last + 1)]
    BY <1>7, <2>1 DEF WriteBatch
  <2>3. written' \in [Minutes -> Nat] /\ rows' \in [Minutes -> Nat]
    BY <1>7, <1>a, <2>1 DEF WriteBatch, Write, TypeOK
  <2> QED
    BY <1>7, <1>a, <2>2, <2>3 DEF WriteBatch, TypeOK, loopVars, boundVars
<1>8. CASE FinishBatch
  <2>1. /\ batch \in [from : Minutes, to : Minutes, at : 0..(Last + 1)]
        /\ batch.from \in Minutes /\ batch.to \in Minutes
    BY <1>8, <1>a DEF FinishBatch, TypeOK
  <2>2. repair' \in Ranges
    BY <1>8, <1>a, <2>1, MergeCovers DEF FinishBatch, Marked, TypeOK
  <2>3. task' = Nothing \/ task' \in Tasks
    BY <1>8, <1>a DEF FinishBatch, TypeOK, Tasks
  <2>4. hist \in Ranges /\ hist[2] \in Minutes
    BY <1>8, <1>a DEF FinishBatch, TypeOK, BatchIsPending, Ranges
  <2>5. hist' \in {Nothing} \cup Ranges
    BY <1>8, <2>1, <2>4 DEF FinishBatch, Ranges
  <2>6. batch' = Nothing /\ lost' \in SUBSET Minutes
    BY <1>8, <1>a DEF FinishBatch, TypeOK
  <2> QED
    BY <1>8, <1>a, <2>2, <2>3, <2>5, <2>6 DEF FinishBatch, TypeOK, boundVars
<1>9. CASE Start
  <2>1. last' \in -1..Last /\ pub' \in [Minutes -> Nat]
    BY <1>9, <1>a, TopRowIsLast DEF Start, TypeOK
  <2> QED
    BY <1>9, <1>a, <2>1 DEF Start, TypeOK, writerVars, boundVars, Stages
<1>10. CASE Wake
  BY <1>10, <1>a DEF Wake, TypeOK, writerVars, boundVars, Stages
<1>11. CASE SeekRepair
  <2>1. CASE NoRepair
    BY <1>11, <1>a, <2>1 DEF SeekRepair, TypeOK, writerVars, boundVars, Stages, Sleep
  <2>2. CASE ~NoRepair
    <3>1. repair \in Ranges /\ repair[1] \in Minutes /\ repair[2] \in Minutes
      BY <2>2, <1>a DEF NoRepair, TypeOK, Ranges
    <3>2. task' \in Tasks
      <4>1. repair[2] \in 0..Last
        BY <3>1, MinuteRange
      <4>2. task' = [kind |-> "repair", ts |-> repair[1], end |-> repair[2], at |-> "load",
                     version |-> 0, marked |-> FALSE]
        BY <1>11, <2>2 DEF SeekRepair
      <4> QED
        BY <3>1, <4>1, <4>2 DEF Tasks
    <3> QED
      BY <1>11, <1>a, <2>2, <3>2 DEF SeekRepair, TypeOK, writerVars, boundVars
  <2> QED
    BY <2>1, <2>2
<1>12. CASE SeekLive
  <2> DEFINE fresh == {m \in Minutes : m > last /\ rows[m] # 0}
  <2>1. CASE fresh = {}
    BY <1>12, <1>a, <2>1 DEF SeekLive, TypeOK, writerVars, boundVars, Stages
  <2>2. CASE fresh # {}
    <3>1. \E x \in fresh : \A y \in fresh : x <= y
      BY <2>2, LeastExists
    <3> DEFINE ts == CHOOSE m \in fresh : \A n \in fresh : m <= n
    <3>2. ts \in Minutes
      BY <3>1
    <3>3. task' = [kind |-> "live", ts |-> ts, end |-> 0, at |-> "load", version |-> 0, marked |-> FALSE]
      BY <1>12, <2>2 DEF SeekLive
    <3>4. task' \in Tasks
      <4> HIDE DEF ts
      <4> QED
        BY <3>2, <3>3 DEF Tasks
    <3> QED
      BY <1>12, <1>a, <2>2, <3>4 DEF SeekLive, TypeOK, writerVars, boundVars
  <2> QED
    BY <2>1, <2>2
<1>13. CASE LoadRows
  <2>1. task \in Tasks /\ task.ts \in Minutes
    BY <1>13, <1>a DEF LoadRows, TypeOK, Tasks
  <2>2. task' \in Tasks
    BY <1>13, <1>b, <2>1 DEF LoadRows, Tasks
  <2> QED
    BY <1>13, <1>a, <2>2 DEF LoadRows, TypeOK, writerVars, boundVars
<1>14. CASE Send
  <2>1. task \in Tasks /\ task.ts \in Minutes /\ task.version \in Nat
    BY <1>14, <1>a DEF Send, TypeOK, Tasks
  <2>2. task' \in Tasks
    BY <1>14, <2>1 DEF Send, Tasks
  <2>3. pub' \in [Minutes -> Nat]
    BY <1>14, <1>a, <2>1 DEF Send, TypeOK
  <2> QED
    BY <1>14, <1>a, <2>2, <2>3 DEF Send, TypeOK, writerVars, boundVars
<1>c. ASSUME task # Nothing, Continue
      PROVE  task' = Nothing /\ stage' \in Stages /\ budget' \in 0..Budget /\ reserved' \in 0..Reserved
  <2>1. stage \in Awake /\ budget \in 0..Budget /\ budget > 0 /\ reserved \in 0..Reserved
    BY <1>a, <1>c DEF BudgetLasts, TypeOK
  <2>2. stage = "reserved" => reserved > 0
    BY <1>a DEF BudgetLasts
  <2> QED
    BY <1>c, <2>1, <2>2 DEF Continue, Sleep, Stages, Awake
<1>15. CASE AdvanceRepair
  <2>1. task \in Tasks /\ task.ts \in Minutes /\ task.end \in 0..Last
    BY <1>15, <1>a DEF AdvanceRepair, TypeOK, Tasks
  <2>2. repair' \in {Nothing} \cup Ranges
    <3>1. task.ts \in Nat /\ task.end \in Nat
      <4>1. task.ts \in Nat
        BY <2>1, MinuteRange
      <4>2. \A e \in 0..Last : e \in Nat
        OBVIOUS
      <4> QED
        BY <2>1, <4>1, <4>2
    <3>2. CASE task.ts >= task.end \/ repair = Nothing
      BY <1>15, <3>2 DEF AdvanceRepair, RepairLeft
    <3>3. CASE ~(task.ts >= task.end) /\ repair # Nothing
      <4>1. task.ts + 1 \in Minutes
        BY <3>1, <3>3, <2>1
      <4>2. repair[2] \in Minutes
        BY <3>3, <1>a DEF TypeOK, Ranges
      <4>3. repair' = <<task.ts + 1, repair[2]>>
        BY <1>15, <3>3 DEF AdvanceRepair, RepairLeft
      <4> QED
        BY <4>1, <4>2, <4>3 DEF Ranges
    <3> QED
      BY <3>2, <3>3
  <2>3. lost' \in SUBSET Minutes
    BY <1>15, <1>a DEF AdvanceRepair, TypeOK
  <2> QED
    BY <1>15, <1>a, <1>c, <2>2, <2>3 DEF AdvanceRepair, TypeOK, writerVars, boundVars
<1>16. CASE AdvanceLive
  <2>1. task \in Tasks /\ task.ts \in Minutes
    BY <1>16, <1>a DEF AdvanceLive, TypeOK, Tasks
  <2>2. task.ts \in -1..Last
    BY <2>1, MinuteRange
  <2> QED
    BY <1>16, <1>a, <1>c, <2>1, <2>2 DEF AdvanceLive, TypeOK, writerVars, boundVars
<1>17. CASE Fail
  BY <1>17, <1>a DEF Fail, Sleep, TypeOK, writerVars, Stages
<1>18. CASE Abort
  BY <1>18, <1>a DEF Abort, TypeOK, Stages
<1>19. CASE UNCHANGED vars
  BY <1>19, <1>a DEF vars, writerVars, loopVars, boundVars, TypeOK
<1> QED
  BY <1>1, <1>2, <1>3, <1>4, <1>5, <1>6, <1>7, <1>8, <1>9, <1>10, <1>11, <1>12, <1>13, <1>14,
     <1>15, <1>16, <1>17, <1>18, <1>19 DEF Next, Writers, Batches, Projector

(* Each step keeps the budget and the progress of a projector at work.     *)
LEMMA BudgetStep ==
  ASSUME IInv, [Next]_vars
  PROVE  BudgetLasts'
<1> USE Numbers
<1>a. TypeOK /\ BudgetLasts
  BY DEF IInv
<1>b. budget \in Nat /\ reserved \in Nat /\ last \in Int /\ stage \in Stages
  <2>1. (\A x \in 0..Budget : x \in Nat) /\ (\A x \in 0..Reserved : x \in Nat)
    OBVIOUS
  <2>2. \A x \in -1..Last : x \in Int
    OBVIOUS
  <2> QED
    BY <1>a, <2>1, <2>2 DEF TypeOK
<1>1. CASE /\ UNCHANGED <<stage, budget, reserved>>
           /\ last' = last \/ (last' # Absent /\ stage # "off") \/ stage = "off"
           /\ task' = Nothing \/ task # Nothing \/ stage \in Awake
  BY <1>1, <1>a DEF BudgetLasts, Awake
<1>2. CASE Start
  <2>1. TopRow # Absent
    BY <1>a, TopRowIsLast, MinuteRange DEF Absent
  <2> QED
    BY <1>2, <1>a, <2>1 DEF Start, BudgetLasts, Awake
<1>3. CASE Wake
  BY <1>3, <1>a DEF Wake, BudgetLasts, Awake
<1>4. CASE SeekRepair
  BY <1>4, <1>a DEF SeekRepair, BudgetLasts, Awake, Sleep
<1>5. CASE SeekLive
  BY <1>5, <1>a DEF SeekLive, BudgetLasts, Awake
<1>6. CASE Continue /\ task # Nothing /\ last' # Absent
  BY <1>6, <1>a, <1>b DEF Continue, BudgetLasts, Awake, Sleep
<1>7. CASE Fail \/ Abort
  BY <1>7, <1>a DEF Fail, Abort, Sleep, BudgetLasts, Awake
<1>8. CASE AdvanceLive
  <2>1. task.ts # Absent
    BY <1>8, <1>a, MinuteRange DEF AdvanceLive, TypeOK, Tasks, Absent
  <2> QED
    BY <1>6, <1>8, <2>1 DEF AdvanceLive
<1>9. CASE AdvanceRepair
  BY <1>6, <1>9, <1>a DEF AdvanceRepair, BudgetLasts, Awake
<1>10. CASE WriteLive \/ SkipLive \/ \E m \in Minutes : MarkHistory(m) \/ RewindTail(m)
  BY <1>1, <1>10, <1>a DEF WriteLive, SkipLive, MarkHistory, RewindTail, loopVars
<1>11. CASE StartBatch \/ ClearRange \/ WriteBatch
  BY <1>1, <1>11 DEF StartBatch, ClearRange, WriteBatch, loopVars
<1>12. CASE FinishBatch \/ LoadRows \/ Send
  BY <1>1, <1>12 DEF FinishBatch, LoadRows, Send
<1>13. CASE UNCHANGED vars
  BY <1>1, <1>13 DEF vars, loopVars
<1> QED
  BY <1>2, <1>3, <1>4, <1>5, <1>7, <1>8, <1>9, <1>10, <1>11, <1>12, <1>13
     DEF Next, Writers, Batches, Projector

(* What a step may do to the rows, to the frontier, and to what is pending *)
(* or given up.                                                            *)
LEMMA StepKinds ==
  ASSUME [Next]_vars
  PROVE  \/ WriteLive \/ SkipLive
         \/ \E m \in Minutes : MarkHistory(m)
         \/ \E m \in Minutes : RewindTail(m)
         \/ StartBatch \/ ClearRange \/ WriteBatch \/ FinishBatch
         \/ AdvanceRepair
         \/ UNCHANGED <<rows, front, hist, lost>> /\ (batch' = batch \/ batch' = Nothing)
<1>1. Start \/ Wake \/ SeekRepair \/ SeekLive \/ LoadRows \/ Send \/ AdvanceLive =>
         UNCHANGED <<rows, front, hist, lost, batch>>
  BY DEF Start, Wake, SeekRepair, SeekLive, LoadRows, Send, AdvanceLive, writerVars
<1>2. Fail \/ Abort => UNCHANGED <<rows, front, hist, lost>> /\ (batch' = batch \/ batch' = Nothing)
  BY DEF Fail, Abort, writerVars
<1>3. UNCHANGED vars => UNCHANGED <<rows, front, hist, lost, batch>>
  BY DEF vars, writerVars
<1> QED
  BY <1>1, <1>2, <1>3 DEF Next, Writers, Batches, Projector

(* A pending range by its ends.                                            *)
LEMMA RangeEnds ==
  ASSUME NEW range \in Ranges
  PROVE  /\ range # Nothing
         /\ range[1] \in Minutes /\ range[2] \in Minutes
         /\ range = <<range[1], range[2]>>
<1>1. PICK from \in Minutes, to \in Minutes : range = <<from, to>>
  BY DEF Ranges
<1> QED
  BY <1>1 DEF Nothing

LEMMA CoversRange ==
  ASSUME NEW range \in Ranges, NEW m \in Minutes
  PROVE  Covers(range, m) <=> range[1] <= m /\ m <= range[2]
<1>1. range[1] \in Nat /\ range[2] \in Nat /\ m \in Nat
  BY RangeEnds, MinuteRange
<1> QED
  BY <1>1, RangeEnds DEF Covers

(* Each step keeps rows and progress behind the frontier.                  *)
LEMMA BehindStep ==
  ASSUME IInv, [Next]_vars
  PROVE  RowsAreBehind'
<1>a. TypeOK /\ BudgetLasts /\ RowsAreBehind /\ BatchIsPending /\ LiveTaskIsSettled
  BY DEF IInv
<1>b. front \in Nat /\ front >= 1 /\ last \in Int
  <2>1. (\A x \in 1..(Last + 1) : x \in Nat /\ x >= 1) /\ (\A x \in -1..Last : x \in Int)
    BY Numbers
  <2> QED
    BY <1>a, <2>1 DEF TypeOK
<1>c. \A m \in Minutes : m \in Nat
  BY MinuteRange
<1>1. \A m \in Minutes : rows'[m] # 0 => m < front'
  <2> SUFFICES ASSUME NEW m \in Minutes, rows'[m] # 0
               PROVE  m < front'
    OBVIOUS
  <2>1. CASE WriteLive
    <3>1. rows'[m] = rows[m] \/ m = front
      BY <2>1, <1>a DEF WriteLive, Write, TypeOK
    <3> QED
      BY <2>1, <3>1, <1>a, <1>b, <1>c DEF WriteLive, RowsAreBehind
  <2>2. CASE SkipLive
    BY <2>2, <1>a, <1>b, <1>c DEF SkipLive, RowsAreBehind
  <2>3. CASE \E k \in Minutes : MarkHistory(k)
    BY <2>3, <1>a DEF MarkHistory, RowsAreBehind
  <2>4. CASE \E k \in Minutes : RewindTail(k)
    BY <2>4, <1>b, <1>c DEF RewindTail
  <2>5. CASE StartBatch \/ FinishBatch \/ AdvanceRepair
    BY <2>5, <1>a DEF StartBatch, FinishBatch, AdvanceRepair, writerVars, RowsAreBehind
  <2>6. CASE ClearRange
    BY <2>6, <1>a DEF ClearRange, RowsAreBehind
  <2>7. CASE WriteBatch
    <3>1. rows'[m] = rows[m] \/ m = batch.at
      BY <2>7, <1>a DEF WriteBatch, Write, TypeOK
    <3>2. CASE rows'[m] = rows[m]
      BY <2>7, <3>2, <1>a DEF WriteBatch, RowsAreBehind
    <3>3. CASE m = batch.at
      <4>1. hist # Nothing /\ batch.to <= hist[2] /\ hist[2] < front
        BY <2>7, <1>a DEF WriteBatch, BatchIsPending
      <4>2. batch.to \in Nat /\ batch.from \in Nat /\ hist[2] \in Nat
        BY <2>7, <4>1, <1>a, <1>c, RangeEnds DEF WriteBatch, TypeOK
      <4> QED
        BY <2>7, <3>3, <4>1, <4>2, <1>b, <1>c DEF WriteBatch
    <3> QED
      BY <3>1, <3>2, <3>3
  <2>8. CASE UNCHANGED <<rows, front, hist, lost>>
    BY <2>8, <1>a DEF RowsAreBehind
  <2> QED
    BY <2>1, <2>2, <2>3, <2>4, <2>5, <2>6, <2>7, <2>8, StepKinds
<1>2. last' < front'
  <2>1. CASE last' = last /\ (front' = front \/ front' = front + 1)
    BY <2>1, <1>a, <1>b DEF RowsAreBehind
  <2>2. CASE \E k \in Minutes : RewindTail(k)
    <3>1. PICK k \in Minutes : RewindTail(k)
      BY <2>2
    <3>2. last' = (IF last = Absent THEN k - 1 ELSE Smaller(last, k - 1)) /\ front' = k
      BY <3>1 DEF RewindTail
    <3> QED
      BY <3>2, <1>b, <1>c DEF Smaller
  <2>3. CASE Start
    <3>1. TopRow < front
      <4>1. TopRow # 0 => TopRow < front
        BY <1>a, TopRowIsLast DEF RowsAreBehind
      <4> QED
        BY <4>1, <1>b
    <3> QED
      BY <2>3, <3>1, <1>a DEF Start, writerVars, RowsAreBehind
  <2>4. CASE AdvanceLive
    BY <2>4, <1>a DEF AdvanceLive, writerVars, LiveTaskIsSettled
  <2>5. WriteLive \/ SkipLive \/ (\E m \in Minutes : MarkHistory(m)) =>
           last' = last /\ (front' = front \/ front' = front + 1)
    BY DEF WriteLive, SkipLive, MarkHistory
  <2>6. StartBatch \/ ClearRange \/ WriteBatch \/ FinishBatch => last' = last /\ front' = front
    BY DEF StartBatch, ClearRange, WriteBatch, FinishBatch
  <2>7. Wake \/ SeekRepair \/ SeekLive \/ LoadRows \/ Send \/ AdvanceRepair =>
           last' = last /\ front' = front
    BY DEF Wake, SeekRepair, SeekLive, LoadRows, Send, AdvanceRepair, writerVars
  <2>8. Fail \/ Abort \/ UNCHANGED vars => last' = last /\ front' = front
    BY DEF Fail, Abort, vars, writerVars
  <2> QED
    BY <2>1, <2>2, <2>3, <2>4, <2>5, <2>6, <2>7, <2>8 DEF Next, Writers, Batches, Projector
<1> QED
  BY <1>1, <1>2 DEF RowsAreBehind

(* The pending range with minutes added to it begins no later and ends at  *)
(* the later end.                                                          *)
LEMMA MergeEnds ==
  ASSUME NEW range \in Ranges, NEW from \in Minutes, NEW to \in Minutes
  PROVE  LET merged == Merge(range, from, to) IN
         /\ merged[1] = Smaller(range[1], from) /\ merged[2] = Larger(range[2], to)
         /\ merged[1] <= range[1] /\ merged[1] <= from
         /\ merged[2] >= range[2] /\ merged[2] >= to
         /\ merged[1] \in Minutes /\ merged[2] \in Minutes
<1>1. range # Nothing /\ range[1] \in Minutes /\ range[2] \in Minutes
  BY RangeEnds
<1>2. range[1] \in Nat /\ range[2] \in Nat /\ from \in Nat /\ to \in Nat
  BY <1>1, MinuteRange
<1>3. Merge(range, from, to) = <<Smaller(range[1], from), Larger(range[2], to)>>
  BY <1>1 DEF Merge
<1>4. /\ Smaller(range[1], from) <= range[1] /\ Smaller(range[1], from) <= from
      /\ Larger(range[2], to) >= range[2] /\ Larger(range[2], to) >= to
  BY <1>2 DEF Smaller, Larger
<1>5. Smaller(range[1], from) \in Minutes /\ Larger(range[2], to) \in Minutes
  BY <1>1 DEF Smaller, Larger
<1> QED
  BY <1>3, <1>4, <1>5

(* Each step keeps the batch the beginning of the pending range.           *)
LEMMA BatchStep ==
  ASSUME IInv, [Next]_vars
  PROVE  BatchIsPending'
<1>a. TypeOK /\ BatchIsPending
  BY DEF IInv
<1>b. front \in Nat /\ front >= 1 /\ front <= Last + 1 /\ Last \in Nat
  BY <1>a, Numbers DEF TypeOK
<1>c. \A m \in Minutes : m \in Nat /\ 1 <= m
  BY MinuteRange
<1>d. ASSUME hist # Nothing
      PROVE  /\ hist \in Ranges /\ hist[1] \in Minutes /\ hist[2] \in Minutes
             /\ hist[1] \in Nat /\ hist[2] \in Nat
  BY <1>a, <1>c, <1>d, RangeEnds DEF TypeOK
<1>e. ASSUME batch # Nothing
      PROVE  /\ batch \in [from : Minutes, to : Minutes, at : 0..(Last + 1)]
             /\ batch.from \in Nat /\ batch.to \in Nat /\ batch.at \in Nat
  <2>1. batch \in [from : Minutes, to : Minutes, at : 0..(Last + 1)]
    BY <1>a, <1>e DEF TypeOK
  <2>2. \A x \in 0..(Last + 1) : x \in Nat
    BY <1>b
  <2> QED
    BY <1>c, <2>1, <2>2
<1>1. CASE WriteLive
  BY <1>1, <1>a, <1>b, <1>d DEF WriteLive, BatchIsPending
<1>2. CASE SkipLive
  <2>1. front \in Minutes
    BY <1>2, <1>b, Numbers DEF SkipLive
  <2>2. CASE hist = Nothing
    BY <1>2, <1>a, <1>b, <2>2 DEF SkipLive, Merge, BatchIsPending
  <2>3. CASE hist # Nothing
    <3>1. hist'[1] = Smaller(hist[1], front) /\ hist'[2] = Larger(hist[2], front)
      BY <1>2, <1>d, <2>1, <2>3, MergeEnds DEF SkipLive
    <3>2. hist[1] <= hist[2] /\ hist[2] < front
      BY <1>a, <2>3 DEF BatchIsPending
    <3>3. hist'[1] = hist[1] /\ hist'[2] = front
      BY <1>b, <1>d, <2>3, <3>1, <3>2 DEF Smaller, Larger
    <3>4. front' = front + 1 /\ batch' = batch
      BY <1>2 DEF SkipLive
    <3>5. hist' # Nothing
      BY <1>2, <2>3 DEF SkipLive, Merge, Nothing
    <3>6. batch # Nothing => batch.from = hist[1] /\ batch.from <= batch.to /\ batch.to <= hist[2]
                             /\ batch.at <= batch.to + 1
      BY <1>a DEF BatchIsPending
    <3>7. batch # Nothing => batch.to <= front
      BY <1>b, <1>d, <1>e, <2>3, <3>2, <3>6
    <3> QED
      BY <1>b, <1>d, <2>3, <3>2, <3>3, <3>4, <3>5, <3>6, <3>7 DEF BatchIsPending
  <2> QED
    BY <2>2, <2>3
<1>3. CASE \E m \in Minutes : MarkHistory(m)
  <2>1. PICK m \in Minutes : MarkHistory(m)
    BY <1>3
  <2>2. front - 1 \in Minutes /\ m \in Nat /\ m <= front - 1 /\ front - 1 \in Nat
    <3>1. m \in Nat /\ 1 <= m /\ m < front
      BY <1>c, <2>1 DEF MarkHistory
    <3>2. front - 1 \in Nat /\ 1 <= front - 1 /\ front - 1 <= Last /\ m <= front - 1
      BY <1>b, <3>1
    <3> QED
      BY <3>1, <3>2, Numbers
  <2>3. hist' # Nothing /\ hist'[1] <= hist'[2] /\ hist'[2] < front
    <3>1. CASE hist = Nothing
      BY <2>1, <2>2, <1>b, <3>1 DEF MarkHistory, Merge, Nothing
    <3>2. CASE hist # Nothing
      <4>1. /\ hist'[1] <= m
            /\ hist'[2] = Larger(hist[2], front - 1) /\ hist'[2] >= front - 1
            /\ hist'[1] \in Minutes
        BY <2>1, <2>2, <1>d, <3>2, MergeEnds DEF MarkHistory
      <4>2. hist'[1] \in Nat /\ Larger(hist[2], front - 1) \in Nat
        BY <4>1, <1>c, <1>d, <2>2, <3>2 DEF Larger
      <4>3. Larger(hist[2], front - 1) < front
        BY <1>a, <1>b, <1>d, <3>2 DEF BatchIsPending, Larger
      <4>4. hist' # Nothing
        BY <2>1, <3>2 DEF MarkHistory, Merge, Nothing
      <4> QED
        BY <4>1, <4>2, <4>3, <4>4, <2>2
    <3> QED
      BY <3>1, <3>2
  <2> QED
    BY <2>1, <2>3 DEF MarkHistory, BatchIsPending
<1>4. CASE \E m \in Minutes : RewindTail(m)
  <2>1. PICK r \in Minutes : RewindTail(r)
    BY <1>4
  <2>2. ASSUME hist # Nothing
        PROVE  hist[2] < r
    <3>1. Covers(hist, hist[2])
      BY <1>a, <1>d, <2>2, CoversRange DEF BatchIsPending
    <3>2. ~(hist[2] \in r..Last)
      BY <2>1, <3>1 DEF RewindTail
    <3>3. hist[2] <= Last
      BY <1>d, <2>2, MinuteRange
    <3> QED
      BY <1>b, <1>c, <1>d, <2>2, <3>2, <3>3
  <2> QED
    BY <2>1, <2>2, <1>a DEF RewindTail, BatchIsPending
<1>5. CASE StartBatch
  <2>1. hist # Nothing
    BY <1>5 DEF StartBatch
  <2>2. PICK to \in hist[1]..hist[2] : batch' = [from |-> hist[1], to |-> to, at |-> 0]
    BY <1>5 DEF StartBatch
  <2>3. to \in Int /\ hist[1] <= to /\ to <= hist[2] /\ 0 <= to + 1
    BY <1>d, <2>1, <2>2
  <2> QED
    BY <1>5, <1>a, <2>1, <2>2, <2>3 DEF StartBatch, BatchIsPending
<1>6. CASE ClearRange
  <2>1. batch # Nothing /\ batch' = [batch EXCEPT !.at = batch.from]
    BY <1>6 DEF ClearRange
  <2>2. batch'.from = batch.from /\ batch'.to = batch.to /\ batch'.at = batch.from
    BY <2>1, <1>e
  <2>3. batch.from <= batch.to + 1
    BY <2>1, <1>a, <1>e DEF BatchIsPending
  <2> QED
    BY <1>6, <1>a, <2>1, <2>2, <2>3 DEF ClearRange, BatchIsPending
<1>7. CASE WriteBatch
  <2>1. batch # Nothing /\ batch' = [batch EXCEPT !.at = @ + 1] /\ batch.at \in batch.from..batch.to
    BY <1>7 DEF WriteBatch
  <2>2. batch'.from = batch.from /\ batch'.to = batch.to /\ batch'.at = batch.at + 1
    BY <2>1, <1>e
  <2>3. batch.at + 1 <= batch.to + 1
    BY <2>1, <1>e
  <2> QED
    BY <1>7, <1>a, <2>1, <2>2, <2>3 DEF WriteBatch, BatchIsPending
<1>8. CASE FinishBatch
  <2>1. batch # Nothing /\ hist # Nothing /\ batch' = Nothing /\ front' = front
    BY <1>8, <1>a DEF FinishBatch, BatchIsPending
  <2>2. CASE batch.to >= hist[2]
    BY <1>8, <2>1, <2>2 DEF FinishBatch, BatchIsPending
  <2>3. CASE ~(batch.to >= hist[2])
    <3>1. hist' = <<batch.to + 1, hist[2]>>
      BY <1>8, <2>3 DEF FinishBatch
    <3>2. batch.to + 1 <= hist[2]
      BY <1>d, <1>e, <2>1, <2>3
    <3> QED
      BY <1>a, <2>1, <3>1, <3>2 DEF BatchIsPending
  <2> QED
    BY <2>2, <2>3
<1>9. CASE AdvanceRepair
  BY <1>9, <1>a DEF AdvanceRepair, writerVars, BatchIsPending
<1>10. CASE UNCHANGED <<rows, front, hist, lost>> /\ (batch' = batch \/ batch' = Nothing)
  BY <1>10, <1>a DEF BatchIsPending
<1> QED
  BY <1>1, <1>2, <1>3, <1>4, <1>5, <1>6, <1>7, <1>8, <1>9, <1>10, StepKinds

(* The rows of a minute change when the live commit reaches it, when they  *)
(* are deleted, and inside the pending range.                              *)
LEMMA RowsStep ==
  ASSUME IInv, [Next]_vars, NEW m \in Minutes
  PROVE  \/ rows'[m] = rows[m]
         \/ rows'[m] = 0
         \/ m = front /\ WriteLive
         \/ Covers(hist, m) /\ WriteBatch
<1>a. TypeOK /\ BatchIsPending
  BY DEF IInv
<1>1. CASE WriteLive
  BY <1>1, <1>a DEF WriteLive, Write, TypeOK
<1>2. CASE WriteBatch
  <2>1. CASE m = batch.at
    <3>1. /\ hist # Nothing /\ batch.from = hist[1] /\ batch.to <= hist[2]
          /\ m \in batch.from..batch.to
      BY <1>2, <2>1, <1>a DEF WriteBatch, BatchIsPending
    <3>2. hist \in Ranges
      BY <3>1, <1>a DEF TypeOK
    <3>3. batch.to \in Nat /\ batch.from \in Nat /\ hist[2] \in Nat /\ m \in Nat
      BY <1>2, <3>2, <1>a, RangeEnds, MinuteRange DEF WriteBatch, TypeOK
    <3>4. hist[1] <= m /\ m <= hist[2]
      BY <3>1, <3>3
    <3> QED
      BY <1>2, <3>2, <3>4, CoversRange
  <2>2. CASE m # batch.at
    BY <1>2, <2>2, <1>a DEF WriteBatch, Write, TypeOK
  <2> QED
    BY <2>1, <2>2
<1>3. CASE ClearRange
  BY <1>3 DEF ClearRange
<1>4. CASE \E k \in Minutes : RewindTail(k)
  BY <1>4 DEF RewindTail
<1>5. SkipLive \/ (\E k \in Minutes : MarkHistory(k)) \/ StartBatch \/ FinishBatch \/ AdvanceRepair =>
        rows' = rows
  BY DEF SkipLive, MarkHistory, StartBatch, FinishBatch, AdvanceRepair, writerVars
<1> QED
  BY <1>1, <1>2, <1>3, <1>4, <1>5, StepKinds

(* The end of a batch takes its minutes off the pending range, and marks   *)
(* them.                                                                   *)
LEMMA FinishMarks ==
  ASSUME IInv, FinishBatch, NEW m \in Minutes
  PROVE  /\ Rewritten(m) => Rewritten(m)' \/ Covers(repair, m)'
         /\ Covers(repair, m) => Covers(repair, m)'
<1>a. TypeOK /\ BatchIsPending
  BY DEF IInv
<1>1. /\ batch \in [from : Minutes, to : Minutes, at : 0..(Last + 1)]
      /\ batch.from \in Minutes /\ batch.to \in Minutes
      /\ hist \in Ranges /\ batch.from = hist[1]
  BY <1>a DEF FinishBatch, TypeOK, BatchIsPending
<1>2. hist[1] \in Minutes /\ hist[2] \in Minutes
  BY <1>1, RangeEnds
<1>3. m \in Nat /\ batch.from \in Nat /\ batch.to \in Nat /\ hist[2] \in Nat
  BY <1>1, <1>2, MinuteRange
<1>4. repair' = Merge(repair, batch.from, batch.to)
  BY DEF FinishBatch, Marked
<1>5. Covers(repair, m) \/ m \in batch.from..batch.to => Covers(repair', m)
  BY <1>1, <1>4, <1>a, MergeCovers DEF TypeOK
<1>6. m \in lost => m \in lost' \/ m \in batch.from..batch.to
  BY DEF FinishBatch
<1>7. ASSUME Covers(hist, m), ~(m \in batch.from..batch.to)
      PROVE  Covers(hist', m)
  <2>1. hist[1] <= m /\ m <= hist[2]
    BY <1>1, <1>7, CoversRange
  <2>2. batch.to + 1 <= m /\ ~(batch.to >= hist[2])
    BY <1>1, <1>3, <1>7, <2>1
  <2>3. hist' = <<batch.to + 1, hist[2]>>
    BY <2>2 DEF FinishBatch
  <2>4. hist' # Nothing /\ hist'[1] = batch.to + 1 /\ hist'[2] = hist[2]
    BY <2>3 DEF Nothing
  <2> QED
    BY <1>3, <2>1, <2>2, <2>4 DEF Covers
<1>8. Covers(repair, m)' <=> Covers(repair', m)
  BY DEF Covers
<1>9. Rewritten(m)' <=> Covers(hist', m) \/ m \in lost'
  BY DEF Rewritten, Covers
<1> QED
  BY <1>5, <1>6, <1>7, <1>8, <1>9 DEF Rewritten

(* What will be rewritten or is given up stays so until it is marked or    *)
(* deleted.                                                                *)
LEMMA RewrittenStep ==
  ASSUME IInv, [Next]_vars, NEW m \in Minutes, Rewritten(m)
  PROVE  \/ Rewritten(m)'
         \/ rows'[m] = 0
         \/ FinishBatch /\ Covers(repair, m)'
<1>a. TypeOK /\ BatchIsPending
  BY DEF IInv
<1>1. CASE SkipLive
  <2>1. front \in Minutes
    <3>1. front \in Nat /\ 1 <= front /\ front <= Last
      BY <1>1, <1>a, Numbers DEF SkipLive, TypeOK
    <3> QED
      BY <3>1, Numbers
  <2>2. Covers(hist, m) => Covers(hist', m)
    BY <1>1, <1>a, <2>1, MergeCovers DEF SkipLive, TypeOK
  <2>3. lost' = lost
    BY <1>1 DEF SkipLive
  <2> QED
    BY <2>2, <2>3 DEF Rewritten, Covers
<1>2. CASE \E k \in Minutes : MarkHistory(k)
  <2>1. PICK k \in Minutes : MarkHistory(k)
    BY <1>2
  <2>2. front - 1 \in Minutes
    <3>1. front \in Nat /\ front <= Last + 1
      BY <1>a, Numbers DEF TypeOK
    <3>2. k \in Nat /\ 1 <= k /\ k < front
      BY <2>1, MinuteRange DEF MarkHistory
    <3>3. front - 1 \in Nat /\ 1 <= front - 1 /\ front - 1 <= Last
      BY <3>1, <3>2, Numbers
    <3> QED
      BY <3>3, Numbers
  <2>3. Covers(hist, m) => Covers(hist', m)
    BY <2>1, <2>2, <1>a, MergeCovers DEF MarkHistory, TypeOK
  <2>4. lost' = lost
    BY <2>1 DEF MarkHistory
  <2> QED
    BY <2>3, <2>4 DEF Rewritten, Covers
<1>3. CASE \E k \in Minutes : RewindTail(k)
  <2>1. PICK k \in Minutes : RewindTail(k)
    BY <1>3
  <2>2. hist' = hist /\ lost' = {x \in lost : x < k}
        /\ rows' = [x \in Minutes |-> IF x >= k THEN 0 ELSE rows[x]]
    BY <2>1 DEF RewindTail
  <2>3. m \in Nat /\ k \in Nat
    BY MinuteRange
  <2>4. CASE m >= k
    BY <2>2, <2>4
  <2>5. CASE m < k
    BY <2>2, <2>5 DEF Rewritten, Covers
  <2> QED
    BY <2>3, <2>4, <2>5
<1>4. CASE FinishBatch
  BY <1>4, FinishMarks
<1>5. CASE AdvanceRepair
  <2>1. hist' = hist /\ lost \subseteq lost'
    BY <1>5 DEF AdvanceRepair, writerVars
  <2> QED
    BY <2>1 DEF Rewritten, Covers
<1>6. CASE hist' = hist /\ lost' = lost
  BY <1>6 DEF Rewritten, Covers
<1>7. WriteLive \/ StartBatch \/ ClearRange \/ WriteBatch => hist' = hist /\ lost' = lost
  BY DEF WriteLive, StartBatch, ClearRange, WriteBatch
<1> QED
  BY <1>1, <1>2, <1>3, <1>4, <1>5, <1>6, <1>7, StepKinds

(* What was published of a minute changes when it is published, and when   *)
(* what is there is taken for published.                                   *)
LEMMA PublishedStep ==
  ASSUME IInv, [Next]_vars, NEW m \in Minutes, ~(Send /\ m = task.ts)
  PROVE  \/ pub'[m] = pub[m]
         \/ rows'[m] \in {0, rows[m]} /\ pub'[m] = rows[m]
<1>a. TypeOK
  BY DEF IInv
<1>1. CASE Send
  <2>1. pub' = [pub EXCEPT ![task.ts] = task.version]
    BY <1>1 DEF Send
  <2> QED
    BY <2>1, <1>1, <1>a DEF TypeOK
<1>2. CASE \E k \in Minutes : RewindTail(k)
  BY <1>2 DEF RewindTail
<1>3. CASE Start
  BY <1>3 DEF Start, writerVars
<1>4. WriteLive \/ SkipLive \/ (\E k \in Minutes : MarkHistory(k)) => pub' = pub
  BY DEF WriteLive, SkipLive, MarkHistory
<1>5. StartBatch \/ ClearRange \/ WriteBatch \/ FinishBatch => pub' = pub
  BY DEF StartBatch, ClearRange, WriteBatch, FinishBatch
<1>6. Wake \/ SeekRepair \/ SeekLive \/ LoadRows \/ AdvanceRepair \/ AdvanceLive => pub' = pub
  BY DEF Wake, SeekRepair, SeekLive, LoadRows, AdvanceRepair, AdvanceLive
<1>7. Fail \/ Abort \/ UNCHANGED vars => pub' = pub
  BY DEF Fail, Abort, vars
<1> QED
  BY <1>1, <1>2, <1>3, <1>4, <1>5, <1>6, <1>7 DEF Next, Writers, Batches, Projector

(* A minute that is settled stays settled, but for the live commit and its *)
(* own publication, or is marked.                                          *)
LEMMA SettledStep ==
  ASSUME IInv, [Next]_vars, NEW m \in Minutes, Settled(m),
         ~(WriteLive /\ m = front), ~(Send /\ m = task.ts)
  PROVE  Settled(m)' \/ (FinishBatch /\ Covers(repair, m)')
<1>0. Settled(m)' <=> rows'[m] = 0 \/ pub'[m] = rows'[m] \/ Rewritten(m)'
  BY DEF Settled
<1>1. CASE Rewritten(m)
  BY <1>0, <1>1, RewrittenStep
<1>2. CASE ~Rewritten(m) /\ ~WriteBatch
  <2>1. rows'[m] = rows[m] \/ rows'[m] = 0
    BY <1>2, RowsStep
  <2> QED
    BY <1>0, <1>2, <2>1, PublishedStep DEF Settled
<1>3. CASE ~Rewritten(m) /\ WriteBatch
  <2>1. rows'[m] = rows[m] \/ rows'[m] = 0
    BY <1>3, RowsStep DEF Rewritten, WriteBatch, WriteLive
  <2> QED
    BY <1>0, <1>3, <2>1, PublishedStep DEF Settled
<1> QED
  BY <1>1, <1>2, <1>3

(* What the projector has at hand stays good for its minute.               *)
LEMMA LoadedStep ==
  ASSUME IInv, [Next]_vars, task # Nothing, task' = task, Loaded(task.ts),
         ~(WriteLive /\ task.ts = front), ~Send
  PROVE  Loaded(task.ts)' \/ (FinishBatch /\ Covers(repair, task.ts)')
<1>1. task.ts \in Minutes
  BY DEF IInv, TypeOK, Tasks
<1>2. PICK m \in Minutes : m = task.ts
  BY <1>1
<1>3. /\ Loaded(task.ts)' <=> /\ task.at = "send" => \/ rows'[m] = 0 \/ task.version = rows'[m]
                                                     \/ Rewritten(m)'
                              /\ task.at = "advance" => Settled(m)'
      /\ Covers(repair, task.ts)' <=> Covers(repair, m)'
  BY <1>2 DEF Loaded, Settled, Rewritten, Covers
<1>4. Rewritten(m) => Rewritten(m)' \/ rows'[m] = 0 \/ (FinishBatch /\ Covers(repair, m)')
  BY RewrittenStep
<1>5. CASE task.at = "send"
  <2>1. rows[m] = 0 \/ task.version = rows[m] \/ Rewritten(m)
    BY <1>2, <1>5 DEF Loaded
  <2>2. rows'[m] = rows[m] \/ rows'[m] = 0 \/ Covers(hist, m)
    BY <1>2, RowsStep
  <2> QED
    BY <1>3, <1>4, <1>5, <2>1, <2>2 DEF Rewritten
<1>6. CASE task.at = "advance"
  <2>1. Settled(m)
    BY <1>2, <1>6 DEF Loaded
  <2>2. Settled(m)' \/ (FinishBatch /\ Covers(repair, m)')
    BY <1>2, <2>1, SettledStep
  <2> QED
    BY <1>3, <1>6, <2>2
<1>7. CASE task.at # "send" /\ task.at # "advance"
  BY <1>3, <1>7
<1> QED
  BY <1>5, <1>6, <1>7

(* Where the task of the projector comes from.                             *)
LEMMA TaskKinds ==
  ASSUME IInv, [Next]_vars, task' # Nothing
  PROVE  \/ /\ task # Nothing /\ task' = task
            /\ last' = last /\ repair' = repair
            /\ front' = front \/ front' = front + 1
            /\ ~Send /\ ~LoadRows /\ ~FinishBatch
         \/ FinishBatch
         \/ SeekRepair \/ SeekLive
         \/ LoadRows \/ Send
<1>a. TypeOK /\ BudgetLasts
  BY DEF IInv
<1>1. task # Nothing => stage \in Awake
  BY <1>a DEF BudgetLasts
<1>2. WriteLive \/ SkipLive \/ (\E m \in Minutes : MarkHistory(m)) \/ StartBatch \/ ClearRange \/ WriteBatch
      => task' = task /\ last' = last /\ repair' = repair /\ (front' = front \/ front' = front + 1)
  BY DEF WriteLive, SkipLive, MarkHistory, StartBatch, ClearRange, WriteBatch, loopVars
<1>3. UNCHANGED vars => task' = task /\ last' = last /\ repair' = repair /\ front' = front
  BY DEF vars, writerVars, loopVars
<1>4. (\E m \in Minutes : RewindTail(m)) \/ Start => task' = task /\ stage = "off"
  BY DEF RewindTail, Start, loopVars
<1>5. Wake => task' = task /\ stage = "sleep"
  BY DEF Wake
<1>6. AdvanceRepair \/ AdvanceLive \/ Fail \/ Abort => task' = Nothing
  BY DEF AdvanceRepair, AdvanceLive, Continue, Fail, Abort
<1> QED
  BY <1>1, <1>2, <1>3, <1>4, <1>5, <1>6 DEF Next, Writers, Batches, Projector, Awake

(* No step is two of these.                                                *)
LEMMA StepsDiffer ==
  ASSUME IInv
  PROVE  /\ WriteLive => ~FinishBatch /\ ~LoadRows /\ ~Send
         /\ FinishBatch => ~LoadRows /\ ~Send
         /\ LoadRows => ~Send
<1>1. front \in Nat
  BY Numbers DEF IInv, TypeOK
<1>2. WriteLive => front' = front + 1
  BY DEF WriteLive
<1>3. FinishBatch => front' = front /\ batch # Nothing /\ batch' = Nothing
  BY DEF FinishBatch
<1>4. LoadRows => front' = front /\ batch' = batch /\ task.at = "load"
  BY DEF LoadRows, writerVars
<1>5. Send => front' = front /\ batch' = batch /\ task.at = "send"
  BY DEF Send, writerVars
<1> QED
  BY <1>1, <1>2, <1>3, <1>4, <1>5

(* Loading the rows of a minute, and publishing what was loaded, gives the *)
(* projector something good for it.                                        *)
LEMMA LoadIsGood ==
  ASSUME IInv, LoadRows
  PROVE  /\ task' \in Tasks /\ task'.ts = task.ts /\ task'.kind = task.kind
         /\ task'.end = task.end /\ task'.marked = task.marked
         /\ UNCHANGED <<rows, front, hist, lost, last, repair, pub>>
         /\ Loaded(task.ts)'
<1>1. task \in Tasks /\ task.ts \in Minutes /\ rows \in [Minutes -> Nat]
  BY DEF IInv, TypeOK, LoadRows, Tasks
<1>2. rows[task.ts] \in Nat
  BY <1>1
<1>3. /\ task'.ts = task.ts /\ task'.kind = task.kind
      /\ task'.end = task.end /\ task'.marked = task.marked
      /\ task'.at = (IF rows[task.ts] = 0 THEN "advance" ELSE "send")
      /\ task'.version = rows[task.ts]
      /\ task' \in Tasks
  BY <1>1, <1>2 DEF LoadRows, Tasks
<1>4. UNCHANGED <<rows, front, hist, lost, last, repair, pub>>
  BY DEF LoadRows, writerVars
<1>5. rows'[task'.ts] = rows[task.ts]
  BY <1>3, <1>4
<1>6. Loaded(task.ts)'
  BY <1>3, <1>5 DEF Loaded, Settled
<1> QED
  BY <1>3, <1>4, <1>6

LEMMA SendIsGood ==
  ASSUME IInv, Send
  PROVE  /\ task' \in Tasks /\ task'.ts = task.ts /\ task'.kind = task.kind
         /\ task'.end = task.end /\ task'.marked = task.marked
         /\ UNCHANGED <<rows, front, hist, lost, last, repair>>
         /\ \A m \in Minutes : m # task.ts => pub'[m] = pub[m]
         /\ Loaded(task.ts) => Loaded(task.ts)' /\ Settled(task.ts)'
<1>1. /\ task \in Tasks /\ task.ts \in Minutes /\ task.at = "send"
      /\ pub \in [Minutes -> Nat]
  BY DEF IInv, TypeOK, Send, Tasks
<1>2. /\ task'.ts = task.ts /\ task'.kind = task.kind
      /\ task'.end = task.end /\ task'.marked = task.marked
      /\ task'.at = "advance"
      /\ task' \in Tasks
  BY <1>1 DEF Send, Tasks
<1>3. UNCHANGED <<rows, front, hist, lost, last, repair>>
  BY DEF Send, writerVars
<1>4. pub' = [pub EXCEPT ![task.ts] = task.version]
  BY DEF Send
<1>5. pub'[task.ts] = task.version /\ \A m \in Minutes : m # task.ts => pub'[m] = pub[m]
  BY <1>1, <1>4
<1>6. ASSUME Loaded(task.ts)
      PROVE  Settled(task.ts)'
  <2>1. rows[task.ts] = 0 \/ task.version = rows[task.ts] \/ Rewritten(task.ts)
    BY <1>1, <1>6 DEF Loaded
  <2>2. rows'[task'.ts] = rows[task.ts] /\ pub'[task'.ts] = task.version
    BY <1>2, <1>3, <1>5
  <2>3. Rewritten(task.ts)' <=> Rewritten(task.ts)
    BY <1>2, <1>3 DEF Rewritten, Covers
  <2> QED
    BY <2>1, <2>2, <2>3 DEF Settled
<1>7. ASSUME Loaded(task.ts)
      PROVE  Loaded(task.ts)'
  BY <1>2, <1>6, <1>7 DEF Loaded
<1> QED
  BY <1>2, <1>3, <1>5, <1>6, <1>7

(* Each step keeps a live task from leaving a minute behind.               *)
LEMMA LiveTaskStep ==
  ASSUME IInv, [Next]_vars
  PROVE  LiveTaskIsSettled'
<1> SUFFICES ASSUME task' # Nothing, task'.kind = "live"
             PROVE  /\ last' < task'.ts /\ task'.ts < front'
                    /\ \A m \in Minutes :
                          last' < m /\ m < task'.ts => Settled(m)' \/ Covers(repair, m)'
                    /\ Loaded(task.ts)' \/ Covers(repair, task.ts)'
  BY DEF LiveTaskIsSettled
<1>a. TypeOK /\ RowsAreBehind /\ LiveTaskIsSettled
  BY DEF IInv
<1>b. front \in Nat /\ last \in Int /\ \A m \in Minutes : m \in Nat
  BY <1>a, Numbers DEF TypeOK
<1>c. ASSUME task # Nothing, task.kind = "live"
      PROVE  /\ task.ts \in Minutes /\ task.ts \in Nat
             /\ last < task.ts /\ task.ts < front
             /\ \A m \in Minutes : last < m /\ m < task.ts => Settled(m) \/ Covers(repair, m)
             /\ Loaded(task.ts) \/ Covers(repair, task.ts)
  BY <1>a, <1>b, <1>c DEF TypeOK, Tasks, LiveTaskIsSettled
<1>1. CASE /\ task # Nothing /\ task' = task
           /\ last' = last /\ repair' = repair
           /\ front' = front \/ front' = front + 1
           /\ ~Send /\ ~LoadRows /\ ~FinishBatch
  <2>1. task'.ts = task.ts /\ last' < task'.ts /\ task'.ts < front'
    BY <1>b, <1>c, <1>1
  <2>2. ASSUME NEW m \in Minutes, last' < m, m < task'.ts
        PROVE  Settled(m)' \/ Covers(repair, m)'
    <3>1. m # front
      BY <1>b, <1>c, <1>1, <2>2
    <3>2. Settled(m) \/ Covers(repair, m)
      BY <1>c, <1>1, <2>2
    <3>3. Settled(m) => Settled(m)'
      BY <1>1, <3>1, SettledStep
    <3> QED
      BY <1>1, <3>2, <3>3 DEF Covers
  <2>3. Loaded(task.ts)' \/ Covers(repair, task.ts)'
    <3>1. task.ts # front
      BY <1>b, <1>c, <1>1
    <3>2. Loaded(task.ts) => Loaded(task.ts)'
      BY <1>1, <3>1, LoadedStep
    <3>3. Covers(repair, task.ts) => Covers(repair, task.ts)'
      BY <1>1 DEF Covers
    <3> QED
      BY <1>c, <1>1, <3>2, <3>3
  <2> QED
    BY <2>1, <2>2, <2>3
<1>2. CASE FinishBatch
  <2>1. task' = task /\ task # Nothing /\ last' = last /\ front' = front
    BY <1>2, <1>a DEF FinishBatch, TypeOK, Tasks
  <2>2. ASSUME NEW m \in Minutes
        PROVE  /\ Settled(m) => Settled(m)' \/ Covers(repair, m)'
               /\ Covers(repair, m) => Covers(repair, m)'
    <3>1. ~WriteLive /\ ~Send
      BY <1>2, StepsDiffer
    <3> QED
      BY <1>2, <3>1, SettledStep, FinishMarks
  <2>3. Loaded(task.ts) \/ Covers(repair, task.ts) => Loaded(task.ts)' \/ Covers(repair, task.ts)'
    <3>1. ~WriteLive /\ ~Send
      BY <1>2, StepsDiffer
    <3>2. Covers(repair, task.ts) => Covers(repair, task.ts)'
      <4>1. PICK m \in Minutes : m = task.ts
        BY <1>c, <2>1
      <4>2. Covers(repair, task.ts)' <=> Covers(repair, m)'
        BY <2>1, <4>1 DEF Covers
      <4> QED
        BY <2>2, <4>1, <4>2
    <3> QED
      BY <2>1, <3>1, <3>2, LoadedStep
  <2> QED
    BY <1>c, <2>1, <2>2, <2>3
<1>3. CASE SeekRepair
  BY <1>3, <1>a DEF SeekRepair
<1>4. CASE SeekLive
  <2> DEFINE fresh == {m \in Minutes : m > last /\ rows[m] # 0}
  <2> DEFINE ts == CHOOSE m \in fresh : \A n \in fresh : m <= n
  <2>1. fresh # {} /\ task = Nothing
    BY <1>4 DEF SeekLive
  <2>2. \E x \in fresh : \A y \in fresh : x <= y
    BY <1>b, <2>1, LeastExists
  <2>3. ts \in fresh /\ \A n \in fresh : ts <= n
    BY <2>2
  <2>4. task' = [kind |-> "live", ts |-> ts, end |-> 0, at |-> "load", version |-> 0, marked |-> FALSE]
    BY <1>4, <2>1 DEF SeekLive
  <2> HIDE DEF ts
  <2>5. task'.ts = ts /\ task'.at = "load"
    BY <2>4
  <2>6. UNCHANGED <<rows, front, last>>
    BY <1>4 DEF SeekLive, writerVars
  <2>7. last' < task'.ts /\ task'.ts < front'
    BY <1>a, <1>b, <2>3, <2>5, <2>6 DEF RowsAreBehind
  <2>8. ASSUME NEW m \in Minutes, last' < m, m < task'.ts
        PROVE  Settled(m)'
    <3>1. ~(m \in fresh)
      BY <1>b, <2>3, <2>5, <2>8
    <3>2. rows[m] = 0
      BY <1>b, <2>6, <2>8, <3>1
    <3> QED
      BY <2>6, <3>2 DEF Settled
  <2>9. Loaded(task.ts)'
    BY <2>5 DEF Loaded
  <2> QED
    BY <2>7, <2>8, <2>9
<1>5. CASE LoadRows
  <2>1. task # Nothing /\ ~WriteLive /\ ~Send /\ ~FinishBatch
    BY <1>5, StepsDiffer DEF LoadRows
  <2> QED
    BY <1>5, <1>c, <2>1, LoadIsGood, SettledStep DEF Covers
<1>6. CASE Send
  <2>1. task # Nothing
    BY <1>6 DEF Send
  <2>2. ASSUME NEW m \in Minutes, m # task.ts, Settled(m)
        PROVE  Settled(m)'
    BY <1>6, <2>2, SendIsGood DEF Settled, Rewritten, Covers
  <2> QED
    BY <1>6, <1>b, <1>c, <2>1, <2>2, SendIsGood DEF Covers
<1> QED
  BY <1>1, <1>2, <1>3, <1>4, <1>5, <1>6, TaskKinds

(* Each step keeps the range of a repair task, or lets the task know of    *)
(* the mark.                                                               *)
LEMMA RepairTaskStep ==
  ASSUME IInv, [Next]_vars
  PROVE  RepairTaskIsSettled'
<1> SUFFICES ASSUME task' # Nothing, task'.kind = "repair"
             PROVE  /\ Covers(repair, task.ts)'
                    /\ ~task'.marked => /\ repair' = <<task'.ts, task'.end>>
                                        /\ Loaded(task.ts)' \/ last' < task'.ts
  BY DEF RepairTaskIsSettled
<1>a. TypeOK /\ RowsAreBehind /\ RepairTaskIsSettled
  BY DEF IInv
<1>b. ASSUME task # Nothing, task.kind = "repair"
      PROVE  /\ task.ts \in Minutes
             /\ Covers(repair, task.ts)
             /\ ~task.marked => /\ repair = <<task.ts, task.end>>
                                /\ Loaded(task.ts) \/ last < task.ts
  BY <1>a, <1>b DEF TypeOK, Tasks, RepairTaskIsSettled
<1>1. CASE /\ task # Nothing /\ task' = task
           /\ last' = last /\ repair' = repair
           /\ ~Send /\ ~LoadRows /\ ~FinishBatch
  <2>1. Covers(repair, task.ts)'
    BY <1>1, <1>b DEF Covers
  <2>2. ASSUME ~task'.marked
        PROVE  Loaded(task.ts)' \/ last' < task'.ts
    <3>1. CASE last < task.ts
      BY <1>1, <3>1
    <3>2. CASE Loaded(task.ts) /\ ~(last < task.ts)
      <4>1. task.ts # front
        BY <1>a, <3>2 DEF RowsAreBehind
      <4> QED
        BY <1>1, <3>2, <4>1, LoadedStep
    <3> QED
      BY <1>1, <1>b, <2>2, <3>1, <3>2
  <2> QED
    BY <1>1, <1>b, <2>1, <2>2
<1>2. CASE FinishBatch
  <2>1. task # Nothing /\ task \in Tasks
    BY <1>2, <1>a DEF FinishBatch, TypeOK
  <2>2. task' = [task EXCEPT !.marked = TRUE] \/ (task' = task /\ task.kind # "repair")
    BY <1>2, <2>1 DEF FinishBatch
  <2>3. task'.marked = TRUE /\ task'.ts = task.ts /\ task.kind = "repair"
    BY <2>1, <2>2 DEF Tasks
  <2>4. PICK m \in Minutes : m = task.ts
    BY <1>b, <2>1, <2>3
  <2>5. Covers(repair, m)'
    BY <1>2, <1>b, <2>1, <2>3, <2>4, FinishMarks
  <2> QED
    BY <2>3, <2>4, <2>5 DEF Covers
<1>3. CASE SeekRepair
  <2>1. ~NoRepair /\ repair' = repair
        /\ task' = [kind |-> "repair", ts |-> repair[1], end |-> repair[2], at |-> "load",
                    version |-> 0, marked |-> FALSE]
    BY <1>3 DEF SeekRepair
  <2>2. repair # Nothing /\ ~(repair[1] > repair[2])
    BY <2>1 DEF NoRepair
  <2>3. repair \in Ranges /\ repair = <<repair[1], repair[2]>> /\ repair[1] \in Minutes /\ repair[2] \in Minutes
    BY <1>a, <2>2, RangeEnds DEF TypeOK
  <2>4. repair[1] \in Nat /\ repair[2] \in Nat
    BY <2>3, MinuteRange
  <2>5. Covers(repair, repair[1])
    BY <2>2, <2>3, <2>4, CoversRange
  <2>6. task'.ts = repair[1] /\ task'.end = repair[2] /\ task'.at = "load"
    BY <2>1
  <2>7. Covers(repair, task.ts)'
    BY <2>1, <2>5, <2>6 DEF Covers
  <2>8. Loaded(task.ts)'
    BY <2>6 DEF Loaded
  <2> QED
    BY <2>1, <2>3, <2>6, <2>7, <2>8
<1>4. CASE SeekLive
  BY <1>4, <1>a DEF SeekLive
<1>5. CASE LoadRows
  <2>1. task # Nothing
    BY <1>5 DEF LoadRows
  <2> QED
    BY <1>5, <1>b, <2>1, LoadIsGood DEF Covers
<1>6. CASE Send
  <2>1. task # Nothing
    BY <1>6 DEF Send
  <2> QED
    BY <1>6, <1>b, <2>1, SendIsGood DEF Covers
<1> QED
  BY <1>1, <1>2, <1>3, <1>4, <1>5, <1>6, TaskKinds

(* Each step keeps what is unpublished owed.                               *)
LEMMA UnpublishedStep ==
  ASSUME IInv, [Next]_vars
  PROVE  UnpublishedIsOwed'
<1> SUFFICES ASSUME NEW m \in Minutes, last' # Absent
             PROVE  Settled(m)' \/ m > last' \/ Covers(repair, m)'
  BY DEF UnpublishedIsOwed, Settled, Rewritten
<1>a. TypeOK /\ RowsAreBehind /\ LiveTaskIsSettled /\ RepairTaskIsSettled
  BY DEF IInv
<1>b. last # Absent => Settled(m) \/ m > last \/ Covers(repair, m)
  BY DEF IInv, UnpublishedIsOwed, Settled, Rewritten
<1>c. m \in Nat /\ last \in Int /\ front \in Nat
  BY <1>a, MinuteRange, Numbers DEF TypeOK
<1>1. CASE /\ last' = last
           /\ repair' = repair \/ FinishBatch
           /\ ~(WriteLive /\ m = front) /\ ~(Send /\ m = task.ts)
  <2>1. Settled(m) => Settled(m)' \/ Covers(repair, m)'
    BY <1>1, SettledStep
  <2>2. Covers(repair, m) => Covers(repair, m)'
    BY <1>1, FinishMarks DEF Covers
  <2> QED
    BY <1>1, <1>b, <2>1, <2>2
<1>2. CASE WriteLive /\ m = front
  BY <1>2, <1>a, <1>c DEF WriteLive, RowsAreBehind
<1>3. CASE Send /\ m = task.ts
  <2>1. task # Nothing /\ task \in Tasks
    BY <1>3, <1>a DEF Send, TypeOK
  <2>2. CASE task.kind = "live"
    <3>1. Loaded(task.ts) \/ Covers(repair, task.ts)
      BY <1>a, <2>1, <2>2 DEF LiveTaskIsSettled
    <3>2. Settled(task.ts)' => Settled(m)'
      BY <1>3, SendIsGood DEF Settled, Rewritten, Covers
    <3> QED
      BY <1>3, <3>1, <3>2, SendIsGood DEF Covers
  <2>3. CASE task.kind = "repair"
    <3>1. Covers(repair, m)
      BY <1>3, <1>a, <2>1, <2>3 DEF RepairTaskIsSettled
    <3> QED
      BY <1>3, <3>1, SendIsGood DEF Covers
  <2> QED
    BY <2>1, <2>2, <2>3 DEF Tasks
<1>4. CASE (Start \/ \E r \in Minutes : RewindTail(r)) /\ last = Absent
  <2>1. rows'[m] = 0 \/ rows'[m] = rows[m]
    BY <1>4 DEF Start, RewindTail, writerVars
  <2>2. pub'[m] = rows[m]
    BY <1>4 DEF Start, RewindTail
  <2> QED
    BY <2>1, <2>2 DEF Settled
<1>5. CASE Start /\ last # Absent
  BY <1>1, <1>5, <1>c DEF Start, WriteLive, Send, writerVars
<1>6. CASE (\E r \in Minutes : RewindTail(r)) /\ last # Absent
  <2>1. PICK r \in Minutes : RewindTail(r)
    BY <1>6
  <2>2. last' <= last /\ last' \in Int
    <3>1. r \in Nat /\ last' = Smaller(last, r - 1)
      BY <1>6, <2>1, MinuteRange DEF RewindTail
    <3> QED
      BY <1>c, <3>1 DEF Smaller
  <2>3. rows' = [k \in Minutes |-> IF k >= r THEN 0 ELSE rows[k]]
        /\ pub' = pub /\ hist' = hist /\ repair' = repair /\ lost' = {k \in lost : k < r}
    BY <1>6, <2>1 DEF RewindTail
  <2>4. Settled(m) => Settled(m)'
    <3>1. CASE m >= r
      BY <2>3, <3>1 DEF Settled
    <3>2. CASE m < r
      BY <2>3, <3>2, <1>c DEF Settled, Rewritten, Covers
    <3> QED
      BY <3>1, <3>2, <1>c, MinuteRange
  <2> QED
    BY <1>6, <1>b, <1>c, <2>2, <2>3, <2>4 DEF Covers
<1>7. CASE SeekRepair
  <2>1. CASE NoRepair
    <3>1. repair = Nothing \/ repair[1] > repair[2]
      BY <2>1 DEF NoRepair
    <3>2. ~Covers(repair, m)
      <4>1. CASE repair = Nothing
        BY <4>1 DEF Covers
      <4>2. CASE repair # Nothing
        <5>1. repair \in Ranges /\ repair[1] \in Nat /\ repair[2] \in Nat
          BY <1>a, <4>2, RangeEnds, MinuteRange DEF TypeOK
        <5> QED
          BY <1>c, <3>1, <4>2, <5>1, CoversRange
      <4> QED
        BY <4>1, <4>2
    <3>3. last' = last /\ UNCHANGED <<rows, pub, hist, lost>>
      BY <1>7 DEF SeekRepair, writerVars
    <3> QED
      BY <1>b, <3>2, <3>3 DEF Settled, Rewritten, Covers
  <2>2. CASE ~NoRepair
    <3>1. last' = last /\ repair' = repair /\ UNCHANGED <<rows, pub, hist, lost>>
      BY <1>7, <2>2 DEF SeekRepair, writerVars
    <3> QED
      BY <1>b, <3>1 DEF Settled, Rewritten, Covers
  <2> QED
    BY <2>1, <2>2
<1>8. CASE AdvanceLive
  <2>1. task # Nothing /\ task.kind = "live" /\ task \in Tasks /\ task.at = "advance"
    BY <1>8, <1>a DEF AdvanceLive, TypeOK
  <2>2. last' = task.ts /\ repair' = repair /\ UNCHANGED <<rows, pub, hist, lost>>
    BY <1>8 DEF AdvanceLive, writerVars
  <2>3. task.ts \in Nat
    BY <2>1, MinuteRange DEF Tasks
  <2>4. Settled(m) => Settled(m)'
    BY <2>2 DEF Settled, Rewritten, Covers
  <2>5. /\ \A k \in Minutes : last < k /\ k < task.ts => Settled(k) \/ Covers(repair, k)
        /\ Settled(task.ts) \/ Covers(repair, task.ts)
    BY <1>a, <2>1 DEF LiveTaskIsSettled, Loaded
  <2>6. CASE m > task.ts
    BY <2>2, <2>6
  <2>7. CASE m = task.ts
    BY <2>2, <2>4, <2>5, <2>7 DEF Covers
  <2>8. CASE m < task.ts
    <3>1. Settled(m) \/ Covers(repair, m)
      <4>1. CASE last < m
        BY <2>5, <2>8, <4>1
      <4>2. CASE ~(last < m)
        BY <1>b, <1>c, <4>2 DEF Absent
      <4> QED
        BY <4>1, <4>2
    <3> QED
      BY <2>2, <2>4, <3>1 DEF Covers
  <2> QED
    BY <1>c, <2>3, <2>6, <2>7, <2>8
<1>9. CASE AdvanceRepair
  <2>1. task # Nothing /\ task.kind = "repair" /\ task \in Tasks /\ task.at = "advance"
    BY <1>9, <1>a DEF AdvanceRepair, TypeOK
  <2>2. last' = last /\ UNCHANGED <<rows, pub, hist>> /\ repair' = RepairLeft(task.ts, task.end)
    BY <1>9 DEF AdvanceRepair, writerVars
  <2>3. lost' = IF task.marked
                THEN lost \cup {k \in Minutes : Covers(repair, k) /\ ~Covers(repair', k)}
                ELSE lost
    BY <1>9 DEF AdvanceRepair
  <2>4. Settled(m) => Settled(m)'
    BY <2>2, <2>3 DEF Settled, Rewritten, Covers
  <2>5. CASE task.marked
    <3>1. Covers(repair, m) => Covers(repair', m) \/ m \in lost'
      BY <2>3, <2>5
    <3> QED
      BY <1>b, <2>2, <2>4, <3>1 DEF Settled, Rewritten, Covers
  <2>6. CASE ~task.marked
    <3>1. /\ repair = <<task.ts, task.end>> /\ Covers(repair, task.ts)
          /\ Settled(task.ts) \/ last < task.ts
      BY <1>a, <2>1, <2>6 DEF RepairTaskIsSettled, Loaded
    <3>2. repair # Nothing /\ repair[1] = task.ts /\ repair[2] = task.end
      BY <3>1 DEF Nothing
    <3>3. task.ts \in Nat /\ task.end \in Nat /\ repair \in Ranges
      BY <1>a, <2>1, <3>2, RangeEnds, MinuteRange DEF TypeOK, Tasks
    <3>4. CASE m = task.ts
      BY <2>2, <2>4, <3>1, <3>4
    <3>5. CASE m # task.ts /\ Covers(repair, m)
      <4>1. task.ts <= m /\ m <= task.end
        BY <3>2, <3>3, <3>5, CoversRange
      <4>2. ~(task.ts >= task.end) /\ task.ts + 1 <= m
        BY <1>c, <3>3, <3>5, <4>1
      <4>3. repair' = <<task.ts + 1, task.end>>
        BY <2>2, <3>2, <4>2 DEF RepairLeft
      <4>4. Covers(repair', m)
        BY <1>c, <3>3, <4>1, <4>2, <4>3 DEF Covers, Nothing
      <4> QED
        BY <4>4 DEF Covers
    <3>6. CASE ~Covers(repair, m)
      BY <1>b, <2>2, <2>4, <3>6
    <3> QED
      BY <3>4, <3>5, <3>6
  <2> QED
    BY <2>5, <2>6
<1>10. WriteLive \/ SkipLive \/ (\E k \in Minutes : MarkHistory(k)) \/ StartBatch \/ ClearRange \/ WriteBatch
       => last' = last /\ repair' = repair
  BY DEF WriteLive, SkipLive, MarkHistory, StartBatch, ClearRange, WriteBatch
<1>11. FinishBatch => last' = last
  BY DEF FinishBatch
<1>12. Wake \/ SeekLive \/ LoadRows \/ Send \/ Fail \/ Abort \/ UNCHANGED vars => last' = last /\ repair' = repair
  BY DEF Wake, SeekLive, LoadRows, Send, Fail, Abort, vars
<1> QED
  BY <1>1, <1>2, <1>3, <1>4, <1>5, <1>6, <1>7, <1>8, <1>9, <1>10, <1>11, <1>12
     DEF Next, Writers, Batches, Projector

-----------------------------------------------------------------------------
(* The inductive invariant holds in every state.                           *)
THEOREM Invariance == Spec => []IInv
<1>1. IInv /\ [Next]_vars => IInv'
  <2> SUFFICES ASSUME IInv, [Next]_vars PROVE IInv'
    OBVIOUS
  <2> QED
    BY TypeStep, BudgetStep, BehindStep, BatchStep, LiveTaskStep, RepairTaskStep, UnpublishedStep DEF IInv
<1> QED
  BY InitIInv, <1>1, PTL DEF Spec

(* Every variable stays in its type.                                       *)
THEOREM TypeInvariant == Spec => []TypeOK
<1>1. IInv => TypeOK
  BY DEF IInv
<1> QED
  BY <1>1, Invariance, PTL

(* No row written is forgotten: rows not published as they are, are ahead  *)
(* of the live progress, marked for repair, due to be rewritten, or had    *)
(* their mark overwritten, whatever the interleaving of live commits,      *)
(* batches, rewinds and the projector's read, publish and advance.         *)
THEOREM UnpublishedIsOwedHolds == Spec => []UnpublishedIsOwed
<1>1. IInv => UnpublishedIsOwed
  BY DEF IInv
<1> QED
  BY <1>1, Invariance, PTL

=============================================================================
