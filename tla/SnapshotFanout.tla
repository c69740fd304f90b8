--------------------------- MODULE SnapshotFanout ---------------------------
(***************************************************************************)
(* The snapshot fan-out of indicator_engine                                *)
(* (publish/snapshot_fanout_projector.rs): a projector that publishes the  *)
(* indicator rows of each minute, in the order of the minutes, from a      *)
(* progress row of its own, and publishes rewritten minutes again from a   *)
(* second progress row that the main loop extends when a historical batch  *)
(* has rewritten them (storage/snapshot_writer.rs).                        *)
(*                                                                         *)
(* The writers are those of LivePipeline, cut down to what they do to the  *)
(* rows of a minute: live commits at a frontier, batches over a pending    *)
(* range, the rewind of a restart.  The rows of a minute are a version     *)
(* number, 0 when there are none.                                          *)
(***************************************************************************)
EXTENDS Integers, FiniteSets

CONSTANTS
    Last,        \* bound on the minutes considered
    MaxRepairs,  \* bound on the repairs that ask for history to be rewritten
    MaxRewinds,  \* bound on the restarts that rewind the persisted tail
    MaxFaults,   \* bound on failed publishes and aborts of the projector
    Budget,      \* SNAPSHOT_FANOUT_MAX_MINUTES_PER_WAKE (4)
    Reserved     \* SNAPSHOT_FANOUT_REPAIR_MINUTES_RESERVED_PER_WAKE (1)

ASSUME ConstantsAssumption ==
    /\ Last \in Nat \ {0}
    /\ MaxRepairs \in Nat
    /\ MaxRewinds \in Nat
    /\ MaxFaults \in Nat
    /\ Budget \in Nat \ {0}
    /\ Reserved \in 0..Budget

Minutes == 1..Last

VARIABLES
    rows,      \* version of each minute's rows in feat.indicator_snapshot
    written,   \* history: the last version written
    front,     \* the next minute of the live commit
    hist,      \* pending historical range, <<from, to>> or Nothing
    batch,     \* batch in the background, [from, to, at] or Nothing
    last,      \* last_published_snapshot_ts, or Absent
    repair,    \* row of the repair progress, <<next, end>> or Nothing
    stage,     \* where the projector's loop is, "off" when it does not run
    budget,    \* its remaining_budget
    reserved,  \* its reserved_repair_budget
    task,      \* the minute it is at, or Nothing
    pub,       \* history: last version of each minute that was published
    lost,      \* history: minutes whose mark an advance has overwritten
    repairs, rewinds, faults

writerVars == <<rows, written, front, hist, batch>>
loopVars == <<stage, budget, reserved, task>>
boundVars == <<repairs, rewinds, faults>>
vars == <<writerVars, last, repair, loopVars, pub, lost, boundVars>>

Nothing == <<>>
Absent == -1
Ranges == Minutes \X Minutes
Stages == {"off", "sleep", "reserved", "live", "rest"}
Tasks == [kind : {"live", "repair"}, ts : Minutes, end : 0..Last,
          at : {"load", "send", "advance"}, version : Nat, marked : BOOLEAN]

TypeOK ==
    /\ rows \in [Minutes -> Nat]
    /\ written \in [Minutes -> Nat]
    /\ front \in 1..(Last + 1)
    /\ hist \in {Nothing} \cup Ranges
    /\ batch = Nothing \/ batch \in [from : Minutes, to : Minutes, at : 0..(Last + 1)]
    /\ last \in -1..Last
    /\ repair \in {Nothing} \cup Ranges
    /\ stage \in Stages
    /\ budget \in 0..Budget
    /\ reserved \in 0..Reserved
    /\ task = Nothing \/ task \in Tasks
    /\ pub \in [Minutes -> Nat]
    /\ lost \in SUBSET Minutes
    /\ repairs \in 0..MaxRepairs /\ rewinds \in 0..MaxRewinds /\ faults \in 0..MaxFaults

Init ==
    /\ rows = [m \in Minutes |-> 0]
    /\ written = [m \in Minutes |-> 0]
    /\ front = 1
    /\ hist = Nothing
    /\ batch = Nothing
    /\ last = Absent
    /\ repair = Nothing
    /\ stage = "off"
    /\ budget = 0
    /\ reserved = 0
    /\ task = Nothing
    /\ pub = [m \in Minutes |-> 0]
    /\ lost = {}
    /\ repairs = 0 /\ rewinds = 0 /\ faults = 0

Smaller(x, y) == IF x < y THEN x ELSE y
Larger(x, y) == IF x > y THEN x ELSE y
Covers(range, m) == range # Nothing /\ m \in range[1]..range[2]
Merge(range, from, to) ==
    IF range = Nothing THEN <<from, to>>
    ELSE <<Smaller(range[1], from), Larger(range[2], to)>>

-----------------------------------------------------------------------------
(* The writers.                                                            *)

Write(m) ==
    /\ written' = [written EXCEPT ![m] = @ + 1]
    /\ rows' = [rows EXCEPT ![m] = written[m] + 1]

(* A live minute is committed.                                             *)
WriteLive ==
    /\ front <= Last
    /\ Write(front)
    /\ front' = front + 1
    /\ UNCHANGED <<hist, batch, last, repair, loopVars, pub, lost, boundVars>>

(* Muted catch-up passes a minute and leaves it to a batch.                *)
SkipLive ==
    /\ front <= Last
    /\ repairs < MaxRepairs
    /\ repairs' = repairs + 1
    /\ hist' = Merge(hist, front, front)
    /\ front' = front + 1
    /\ UNCHANGED <<rows, written, batch, last, repair, loopVars, pub, lost, rewinds, faults>>

(* A repair rebuilt the state from minute m on: the batch ends.            *)
MarkHistory(m) ==
    /\ m < front
    /\ repairs < MaxRepairs
    /\ repairs' = repairs + 1
    /\ hist' = Merge(hist, m, front - 1)
    /\ batch' = Nothing
    /\ UNCHANGED <<rows, written, front, last, repair, loopVars, pub, lost, rewinds, faults>>

StartBatch ==
    /\ batch = Nothing
    /\ hist # Nothing
    /\ \E to \in hist[1]..hist[2] : batch' = [from |-> hist[1], to |-> to, at |-> 0]
    /\ UNCHANGED <<rows, written, front, hist, last, repair, loopVars, pub, lost, boundVars>>

(* clear_persisted_range_for_repair.                                       *)
ClearRange ==
    /\ batch # Nothing
    /\ batch.at = 0
    /\ batch' = [batch EXCEPT !.at = batch.from]
    /\ rows' = [m \in Minutes |-> IF m \in batch.from..batch.to THEN 0 ELSE rows[m]]
    /\ UNCHANGED <<written, front, hist, last, repair, loopVars, pub, lost, boundVars>>

(* A minute of materialize_repair_range.                                   *)
WriteBatch ==
    /\ batch # Nothing
    /\ batch.at \in batch.from..batch.to
    /\ Write(batch.at)
    /\ batch' = [batch EXCEPT !.at = @ + 1]
    /\ UNCHANGED <<front, hist, last, repair, loopVars, pub, lost, boundVars>>

(* Mutant of Marked: the newest range replaces the pending one.            *)
MarkedNewest(from, to) == <<from, to>>

(* mark_snapshot_fanout_repair_pending.                                    *)
Marked(from, to) == Merge(repair, from, to)

(* poll_historical_materialize_handle: the rewritten minutes are marked    *)
(* for the projector, and then taken off the pending range.                *)
FinishBatch ==
    /\ batch # Nothing
    /\ batch.at > batch.to
    /\ repair' = Marked(batch.from, batch.to)
    /\ task' = IF task # Nothing /\ task.kind = "repair" THEN [task EXCEPT !.marked = TRUE]
               ELSE task
    /\ lost' = lost \ (batch.from..batch.to)
    /\ hist' = IF batch.to >= hist[2] THEN Nothing ELSE <<batch.to + 1, hist[2]>>
    /\ batch' = Nothing
    /\ UNCHANGED <<rows, written, front, last, stage, budget, reserved, pub, boundVars>>

(* rewind_persisted_tail at a restart: the rows from minute r on are       *)
(* deleted and will be committed again.  What is there when the projector  *)
(* has no progress yet is taken for published.                             *)
RewindTail(r) ==
    /\ stage = "off"
    /\ batch = Nothing
    /\ r < front
    /\ ~\E m \in r..Last : Covers(hist, m)
    /\ rewinds < MaxRewinds
    /\ rewinds' = rewinds + 1
    /\ rows' = [m \in Minutes |-> IF m >= r THEN 0 ELSE rows[m]]
    /\ front' = r
    /\ last' = IF last = Absent THEN r - 1 ELSE Smaller(last, r - 1)
    /\ pub' = IF last = Absent THEN rows ELSE pub
    /\ lost' = {m \in lost : m < r}
    /\ UNCHANGED <<written, hist, batch, repair, loopVars, repairs, faults>>

-----------------------------------------------------------------------------
(* The projector.                                                          *)

TopRow ==
    LET present == {0} \cup {m \in Minutes : rows[m] # 0}
    IN CHOOSE m \in present : \A n \in present : n <= m

(* The main loop starts it; initialize_progress_if_absent takes what is    *)
(* there at the first start for published.                                 *)
Start ==
    /\ stage = "off"
    /\ stage' = "sleep"
    /\ last' = IF last = Absent THEN TopRow ELSE last
    /\ pub' = IF last = Absent THEN rows ELSE pub
    /\ UNCHANGED <<writerVars, repair, budget, reserved, task, lost, boundVars>>

(* A tick of run_loop.                                                     *)
Wake ==
    /\ stage = "sleep"
    /\ stage' = IF Reserved > 0 THEN "reserved" ELSE "live"
    /\ budget' = Budget
    /\ reserved' = Reserved
    /\ UNCHANGED <<writerVars, last, repair, task, pub, lost, boundVars>>

Sleep ==
    /\ stage' = "sleep"
    /\ budget' = 0
    /\ reserved' = 0

NoRepair == IF repair = Nothing THEN TRUE ELSE repair[1] > repair[2]

(* project_next_repair_minute, first with the reserved budget and then     *)
(* with what the live minutes have left.                                   *)
SeekRepair ==
    /\ stage \in {"reserved", "rest"}
    /\ task = Nothing
    /\ IF NoRepair
       THEN /\ IF stage = "reserved"
               THEN stage' = "live" /\ UNCHANGED <<budget, reserved>>
               ELSE Sleep
            /\ repair' = Nothing
            /\ UNCHANGED task
       ELSE /\ task' = [kind |-> "repair", ts |-> repair[1], end |-> repair[2], at |-> "load",
                        version |-> 0, marked |-> FALSE]
            /\ UNCHANGED <<repair, stage, budget, reserved>>
    /\ UNCHANGED <<writerVars, last, pub, lost, boundVars>>

(* project_next_live_minute.                                               *)
SeekLive ==
    LET fresh == {m \in Minutes : m > last /\ rows[m] # 0} IN
    /\ stage = "live"
    /\ task = Nothing
    /\ IF fresh = {}
       THEN stage' = "rest" /\ UNCHANGED task
       ELSE /\ task' = [kind |-> "live", ts |-> CHOOSE m \in fresh : \A n \in fresh : m <= n,
                        end |-> 0, at |-> "load", version |-> 0, marked |-> FALSE]
            /\ UNCHANGED stage
    /\ UNCHANGED <<writerVars, last, repair, budget, reserved, pub, lost, boundVars>>

(* publish_snapshot_minute reads the rows ...                              *)
LoadRows ==
    /\ task # Nothing
    /\ task.at = "load"
    /\ task' = [task EXCEPT !.at = IF rows[task.ts] = 0 THEN "advance" ELSE "send",
                            !.version = rows[task.ts]]
    /\ UNCHANGED <<writerVars, last, repair, stage, budget, reserved, pub, lost, boundVars>>

(* ... and publishes them, each confirmed.                                 *)
Send ==
    /\ task # Nothing
    /\ task.at = "send"
    /\ task' = [task EXCEPT !.at = "advance", !.version = 0]
    /\ pub' = [pub EXCEPT ![task.ts] = task.version]
    /\ UNCHANGED <<writerVars, last, repair, stage, budget, reserved, lost, boundVars>>

(* Mutant of RepairLeft: the end of the range is taken for exclusive.      *)
RepairLeftShort(ts, end) ==
    IF ts + 1 >= end THEN Nothing
    ELSE IF repair = Nothing THEN Nothing ELSE <<ts + 1, repair[2]>>

(* Mutant of RepairLeft: the row is moved past its end.                    *)
RepairLeftOpen(ts, end) == IF repair = Nothing THEN Nothing ELSE <<ts + 1, repair[2]>>

(* advance_repair_progress: the row is deleted or its next minute set, by  *)
(* what was read before the publish.                                       *)
RepairLeft(ts, end) ==
    IF ts >= end THEN Nothing
    ELSE IF repair = Nothing THEN Nothing ELSE <<ts + 1, repair[2]>>

(* The loop goes on with what is left of the budget.                       *)
Continue ==
    /\ task' = Nothing
    /\ IF budget = 1 THEN Sleep
       ELSE /\ budget' = budget - 1
            /\ reserved' = IF stage = "reserved" THEN reserved - 1 ELSE reserved
            /\ stage' = IF reserved' > 0 THEN "reserved" ELSE "live"

AdvanceRepair ==
    /\ task # Nothing
    /\ task.at = "advance" /\ task.kind = "repair"
    /\ repair' = RepairLeft(task.ts, task.end)
    /\ lost' = IF task.marked
               THEN lost \cup {m \in Minutes : Covers(repair, m) /\ ~Covers(repair', m)}
               ELSE lost
    /\ Continue
    /\ UNCHANGED <<writerVars, last, pub, boundVars>>

(* advance_progress.                                                       *)
AdvanceLive ==
    /\ task # Nothing
    /\ task.at = "advance" /\ task.kind = "live"
    /\ last' = task.ts
    /\ Continue
    /\ UNCHANGED <<writerVars, repair, pub, lost, boundVars>>

(* A query or a publish fails, some of the minute published or not, and    *)
(* the loop waits for the next tick.                                       *)
Fail ==
    /\ task # Nothing
    /\ faults < MaxFaults
    /\ faults' = faults + 1
    /\ task' = Nothing
    /\ Sleep
    /\ UNCHANGED <<writerVars, last, repair, pub, lost, repairs, rewinds>>

(* The main loop aborts it: live_catchup_enter, or the process ends.       *)
Abort ==
    /\ stage # "off"
    /\ faults < MaxFaults
    /\ faults' = faults + 1
    /\ task' = Nothing
    /\ stage' = "off" /\ budget' = 0 /\ reserved' = 0
    /\ batch' = Nothing
    /\ UNCHANGED <<rows, written, front, hist, last, repair, pub, lost, repairs, rewinds>>

-----------------------------------------------------------------------------

Writers ==
    \/ WriteLive \/ SkipLive
    \/ \E m \in Minutes : MarkHistory(m) \/ RewindTail(m)

Batches == StartBatch \/ ClearRange \/ WriteBatch \/ FinishBatch

Projector ==
    \/ Start \/ Wake
    \/ SeekRepair \/ SeekLive
    \/ LoadRows \/ Send
    \/ AdvanceRepair \/ AdvanceLive

Next == Writers \/ Batches \/ Projector \/ Fail \/ Abort

Spec == Init /\ [][Next]_vars

(* Batches and the projector go on; the rest may happen or not.            *)
FairSpec == Spec /\ WF_vars(Batches) /\ WF_vars(Projector)

-----------------------------------------------------------------------------

(* Rows not published as they are, are ahead of the live progress, marked  *)
(* for repair, due to be rewritten and marked, or had their mark           *)
(* overwritten by the projector's advance, which reads the row before the  *)
(* publish and writes it after.                                            *)
UnpublishedIsOwed ==
    \A m \in Minutes :
        rows[m] # 0 /\ pub[m] # rows[m] /\ last # Absent =>
            m > last \/ Covers(repair, m) \/ Covers(hist, m) \/ m \in lost

(* Every row written is published, unless it is deleted first or its mark  *)
(* was overwritten, through failed publishes, aborts and restarts.         *)
RowIsPublished ==
    \A m \in Minutes :
        rows[m] # 0 ~> rows[m] = 0 \/ pub[m] = rows[m] \/ m \in lost

=============================================================================
