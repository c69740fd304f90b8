------------------------------ MODULE MdOutbox ------------------------------
(***************************************************************************)
(* The message outbox of market_data_ingestor: publish_pipeline_event      *)
(* (pipelines/persist_async.rs), OutboxWriter (sinks/outbox_writer.rs),    *)
(* the table ops.outbox_event and the OutboxDispatcher workers             *)
(* (sinks/outbox_dispatcher.rs).                                           *)
(*                                                                         *)
(* Time is relative.  wait[m] is available_at - now() in ticks, so a row   *)
(* is due when wait[m] <= 0; age[m] is today - bucket_date in days.  Tick  *)
(* and DayRoll advance the two.  Both saturate (WaitFloor, MaxAge): no     *)
(* query of the code tells a wait below WaitFloor or an age above          *)
(* Lookback + 1 apart.                                                     *)
(*                                                                         *)
(* One SQL statement is one step.  The nine claim statements of a scan,    *)
(* the payload read, each publish, each confirm and each DELETE are        *)
(* separate steps, so that the steps of several workers interleave between *)
(* them.  A batch is a set; rows leave it in the order of the statements   *)
(* that claimed them (RETURNING fixes no order inside one statement).      *)
(***************************************************************************)
EXTENDS Integers, FiniteSets

CONSTANTS
    Messages,      \* events handed to the publish path; one outbox row each
    Workers,       \* dispatcher workers (OUTBOX_DISPATCH_WORKERS)
    InsertWorkers, \* insert workers (OUTBOX_INSERT_WORKERS)
    Tier,          \* message -> claim tier 1..3: LiveTrade, LiveNonTrade, ReplayAny
    Hot,           \* messages of a hot-path type (is_hot_path_md_event)
    Shard,         \* message -> insert worker (select_sender)
    Housekeeper,   \* the worker with perform_housekeeping
    BatchSize,     \* OUTBOX_DISPATCH_BATCH_SIZE
    InsertSize,    \* OUTBOX_INSERT_BATCH_SIZE
    ChanCap,       \* OUTBOX_INSERT_CHANNEL_CAPACITY
    MaxRetry,      \* retry_count at which a row is dead (10)
    Lease,         \* ticks of the claim lease (30 s)
    BackoffStep,   \* ticks of backoff per failure (3 s)
    BackoffCap,    \* largest backoff in ticks (60 s)
    Retention,     \* ticks a dead row is kept (24 h)
    Lookback,      \* OUTBOX_HOT_CLAIM_LOOKBACK_DAYS
    MaxAge,        \* bound on the age of a bucket, in days
    MaxFaults      \* bound on database errors and process crashes

ASSUME ConstantsAssumption ==
    /\ Tier \in [Messages -> 1..3]
    /\ Hot \subseteq Messages
    /\ Shard \in [Messages -> InsertWorkers]
    /\ Housekeeper \in Workers
    /\ BatchSize \in Nat \ {0}
    /\ InsertSize \in Nat \ {0}
    /\ ChanCap \in Nat \ {0}
    /\ MaxRetry \in Nat \ {0}
    /\ Lease \in Nat \ {0}
    /\ BackoffStep \in Nat \ {0}
    /\ BackoffCap \in Nat \ {0}
    /\ Retention \in Nat
    /\ Lookback \in Nat
    /\ MaxAge \in 0..(Lookback + 1)
    /\ MaxFaults \in Nat

VARIABLES
    pub,       \* where the publish path left the event
    chan,      \* records waiting in each insert worker's channel
    status,    \* ops.outbox_event.status, "absent" when there is no row
    retry,     \* retry_count
    wait,      \* available_at - now(), in ticks
    age,       \* today - bucket_date, in days
    pc,        \* where each dispatcher worker is in dispatch_batch
    scan,      \* claim statements the worker has run in this round
    todo,      \* rows claimed, not yet published
    unconf,    \* rows published, confirm not yet awaited
    sent,      \* rows whose confirm was Ack (sent_keys)
    delivered, \* messages of which the broker holds a copy
    faults,    \* database errors and crashes so far
    overrun    \* history: some worker held a row past its claim lease

rowVars == <<status, retry, wait, age>>
workVars == <<pc, scan, todo, unconf, sent>>
prodVars == <<pub, chan>>
vars == <<prodVars, rowVars, workVars, delivered, faults, overrun>>

PubStates == {"new", "direct", "queued", "stored", "lost"}
Statuses == {"absent", "pending", "sending", "failed", "dead"}
Steps == {"idle", "claim", "load", "flight"}

(* Three tiers, each over today and the Lookback days before it. *)
ScanLen == 3 * (Lookback + 1)

(* Below this a row is due however it got there, and a dead one is prunable. *)
WaitFloor == -(Retention + 1)

Smaller(a, b) == IF a <= b THEN a ELSE b

(* Rows some step of the worker still refers to. *)
Held(w) == todo[w] \cup unconf[w] \cup sent[w]

TypeOK ==
    /\ pub \in [Messages -> PubStates]
    /\ chan \in [InsertWorkers -> SUBSET Messages]
    /\ status \in [Messages -> Statuses]
    /\ retry \in [Messages -> Nat]
    /\ wait \in [Messages -> Int]
    /\ age \in [Messages -> 0..MaxAge]
    /\ pc \in [Workers -> Steps]
    /\ scan \in [Workers -> 0..(ScanLen - 1)]
    /\ todo \in [Workers -> SUBSET Messages]
    /\ unconf \in [Workers -> SUBSET Messages]
    /\ sent \in [Workers -> SUBSET Messages]
    /\ delivered \in SUBSET Messages
    /\ faults \in 0..MaxFaults
    /\ overrun \in BOOLEAN

Init ==
    /\ pub = [m \in Messages |-> "new"]
    /\ chan = [k \in InsertWorkers |-> {}]
    /\ status = [m \in Messages |-> "absent"]
    /\ retry = [m \in Messages |-> 0]
    /\ wait = [m \in Messages |-> 0]
    /\ age = [m \in Messages |-> 0]
    /\ pc = [w \in Workers |-> "idle"]
    /\ scan = [w \in Workers |-> 0]
    /\ todo = [w \in Workers |-> {}]
    /\ unconf = [w \in Workers |-> {}]
    /\ sent = [w \in Workers |-> {}]
    /\ delivered = {}
    /\ faults = 0
    /\ overrun = FALSE

-----------------------------------------------------------------------------
(* The publish path and the insert workers.                                *)

(* Hot path: basic_publish wrote the frame and the confirm is dropped.  The *)
(* broker may still lose the message; no outbox record is made.             *)
PublishDirect(m) ==
    /\ m \in Hot
    /\ pub[m] = "new"
    /\ pub' = [pub EXCEPT ![m] = "direct"]
    /\ delivered' \in {delivered, delivered \cup {m}}
    /\ UNCHANGED <<chan, rowVars, workVars, faults, overrun>>

(* enqueue_without_ack: also the fallback of a failed direct publish.       *)
Enqueue(m) ==
    /\ pub[m] = "new"
    /\ Cardinality(chan[Shard[m]]) < ChanCap
    /\ pub' = [pub EXCEPT ![m] = "queued"]
    /\ chan' = [chan EXCEPT ![Shard[m]] = @ \cup {m}]
    /\ UNCHANGED <<rowVars, workVars, delivered, faults, overrun>>

(* insert_outbox_batch: one multi-row INSERT, all or nothing, with the      *)
(* column defaults status 'pending', retry_count 0, available_at now().     *)
InsertBatch(k) ==
    \E S \in SUBSET chan[k] :
        /\ S # {}
        /\ Cardinality(S) <= InsertSize
        /\ chan' = [chan EXCEPT ![k] = @ \ S]
        /\ pub' = [m \in Messages |-> IF m \in S THEN "stored" ELSE pub[m]]
        /\ status' = [m \in Messages |-> IF m \in S THEN "pending" ELSE status[m]]
        /\ retry' = [m \in Messages |-> IF m \in S THEN 0 ELSE retry[m]]
        /\ wait' = [m \in Messages |-> IF m \in S THEN 0 ELSE wait[m]]
        /\ age' = [m \in Messages |-> IF m \in S THEN 0 ELSE age[m]]
        /\ UNCHANGED <<workVars, delivered, faults, overrun>>

(* The INSERT failed: the batch is dropped.  Records of the publish path    *)
(* carry no ack_tx, so nobody is told.                                      *)
InsertFails(k) ==
    \E S \in SUBSET chan[k] :
        /\ S # {}
        /\ Cardinality(S) <= InsertSize
        /\ faults < MaxFaults
        /\ faults' = faults + 1
        /\ chan' = [chan EXCEPT ![k] = @ \ S]
        /\ pub' = [m \in Messages |-> IF m \in S THEN "lost" ELSE pub[m]]
        /\ UNCHANGED <<rowVars, workVars, delivered, overrun>>

-----------------------------------------------------------------------------
(* OutboxDispatcher::dispatch_batch, one worker at a time.                 *)

(* A notification, a listener error and the timeout all start a round.     *)
Wake(w) ==
    /\ pc[w] = "idle"
    /\ pc' = [pc EXCEPT ![w] = "claim"]
    /\ UNCHANGED <<prodVars, rowVars, scan, todo, unconf, sent, delivered, faults, overrun>>

(* The tier and the bucket age of claim statement i.                       *)
ScanTier(i) == (i \div (Lookback + 1)) + 1
ScanAge(i) == i % (Lookback + 1)

(* Mutants of Claimable. *)
ClaimableIgnoringLease(m) == status[m] \in {"pending", "failed", "sending"}
ClaimableNeverResent(m) == status[m] \in {"pending", "failed"} /\ wait[m] <= 0

Claimable(m) == status[m] \in {"pending", "failed", "sending"} /\ wait[m] <= 0

PickedFrom(i) == {m \in Messages : Claimable(m) /\ Tier[m] = ScanTier(i) /\ age[m] = ScanAge(i)}

(* A claim statement takes the LIMIT rows that have been due longest.  The *)
(* tie-break is outbox_id, which concurrent inserts hand out in any order. *)
Picks(i, limit) ==
    {S \in SUBSET PickedFrom(i) :
        /\ Cardinality(S) = Smaller(limit, Cardinality(PickedFrom(i)))
        /\ \A m \in S, n \in PickedFrom(i) \ S : wait[m] <= wait[n]}

(* Mutant of ScanOver. *)
ScanOverLate(i, n) == i = ScanLen \/ n >= BatchSize

(* The scan ends with the last bucket of the last tier, or as soon as the  *)
(* budget is used up.                                                      *)
ScanOver(i, n) == i + 1 = ScanLen \/ n >= BatchSize

ClaimTierForBucket(w) ==
    /\ pc[w] = "claim"
    /\ \E S \in Picks(scan[w], BatchSize - Cardinality(todo[w])) :
          /\ todo' = [todo EXCEPT ![w] = @ \cup S]
          /\ status' = [m \in Messages |-> IF m \in S THEN "sending" ELSE status[m]]
          /\ wait' = [m \in Messages |-> IF m \in S THEN Lease ELSE wait[m]]
          /\ IF ScanOver(scan[w], Cardinality(todo[w] \cup S))
             THEN /\ pc' = [pc EXCEPT ![w] = "load"]
                  /\ scan' = [scan EXCEPT ![w] = 0]
             ELSE /\ scan' = [scan EXCEPT ![w] = @ + 1]
                  /\ UNCHANGED pc
    /\ UNCHANGED <<prodVars, retry, age, unconf, sent, delivered, faults, overrun>>

Present(m) == status[m] # "absent"

(* Back to the wait of run_loop_worker, the batch forgotten.  What was     *)
(* published without a confirm yet may or may not reach the broker.        *)
Drop(w) ==
    /\ pc' = [pc EXCEPT ![w] = "idle"]
    /\ scan' = [scan EXCEPT ![w] = 0]
    /\ todo' = [todo EXCEPT ![w] = {}]
    /\ unconf' = [unconf EXCEPT ![w] = {}]
    /\ sent' = [sent EXCEPT ![w] = {}]
    /\ \E D \in SUBSET unconf[w] : delivered' = delivered \cup D

(* load_claimed_rows, then create_confirm_channel.  One claimed row that   *)
(* has disappeared fails the batch.                                        *)
LoadClaimedRows(w) ==
    /\ pc[w] = "load"
    /\ \/ /\ \A m \in todo[w] : Present(m)
          /\ pc' = [pc EXCEPT ![w] = "flight"]
          /\ UNCHANGED <<scan, todo, unconf, sent, delivered>>
       \/ /\ \E m \in todo[w] : ~Present(m)
          /\ Drop(w)
    /\ UNCHANGED <<prodVars, rowVars, faults, overrun>>

(* The batch keeps the order of the claim statements: tier, then bucket.   *)
First(S) ==
    {m \in S : \A n \in S : \/ Tier[m] < Tier[n]
                            \/ Tier[m] = Tier[n] /\ age[m] <= age[n]}

Backoff(n) == Smaller(BackoffStep * n, BackoffCap)

(* Mutant of FailedStatus. *)
FailedStatusExact(n) == IF n = MaxRetry THEN "dead" ELSE "failed"

FailedStatus(n) == IF n >= MaxRetry THEN "dead" ELSE "failed"

(* mark_failed: keyed by row only, whoever holds the lease.  No row, no    *)
(* update.                                                                 *)
MarkFailed(m) ==
    IF Present(m)
    THEN /\ status' = [status EXCEPT ![m] = FailedStatus(retry[m] + 1)]
         /\ retry' = [retry EXCEPT ![m] = @ + 1]
         /\ wait' = [wait EXCEPT ![m] = Backoff(retry[m] + 1)]
         /\ UNCHANGED age
    ELSE UNCHANGED rowVars

(* publish_row: the frame is on its way, or mark_failed is called.         *)
PublishRow(w) ==
    /\ pc[w] = "flight"
    /\ \E m \in First(todo[w]) :
          /\ todo' = [todo EXCEPT ![w] = @ \ {m}]
          /\ \/ /\ unconf' = [unconf EXCEPT ![w] = @ \cup {m}]
                /\ UNCHANGED rowVars
             \/ /\ MarkFailed(m)
                /\ UNCHANGED unconf
    /\ UNCHANGED <<prodVars, pc, scan, sent, delivered, faults, overrun>>

(* Confirmation::Ack: the broker has stored and routed the message.        *)
ConfirmAck(w) ==
    /\ pc[w] = "flight"
    /\ todo[w] = {}
    /\ \E m \in First(unconf[w]) :
          /\ unconf' = [unconf EXCEPT ![w] = @ \ {m}]
          /\ sent' = [sent EXCEPT ![w] = @ \cup {m}]
          /\ delivered' = delivered \cup {m}
    /\ UNCHANGED <<prodVars, rowVars, pc, scan, todo, faults, overrun>>

(* Mutant of ConfirmFails: every confirmation counts as an Ack. *)
ConfirmFailsAsSent(w) ==
    /\ pc[w] = "flight"
    /\ todo[w] = {}
    /\ \E m \in First(unconf[w]) :
          /\ unconf' = [unconf EXCEPT ![w] = @ \ {m}]
          /\ sent' = [sent EXCEPT ![w] = @ \cup {m}]
    /\ UNCHANGED <<prodVars, rowVars, pc, scan, todo, delivered, faults, overrun>>

(* Nack, NotRequested or a failed wait.  The broker may have taken the     *)
(* message all the same when the wait fails.                               *)
ConfirmFails(w) ==
    /\ pc[w] = "flight"
    /\ todo[w] = {}
    /\ \E m \in First(unconf[w]) :
          /\ MarkFailed(m)
          /\ unconf' = [unconf EXCEPT ![w] = @ \ {m}]
          /\ delivered' \in {delivered, delivered \cup {m}}
    /\ UNCHANGED <<prodVars, pc, scan, todo, sent, faults, overrun>>

(* DELETE.  retry keeps the last retry_count, for the properties only.     *)
RemoveRows(S) ==
    /\ status' = [m \in Messages |-> IF m \in S THEN "absent" ELSE status[m]]
    /\ wait' = [m \in Messages |-> IF m \in S THEN 0 ELSE wait[m]]
    /\ age' = [m \in Messages |-> IF m \in S THEN 0 ELSE age[m]]
    /\ UNCHANGED retry

(* delete_sent_batch, after the last confirm: one DELETE per bucket date,  *)
(* in any order.  Then the worker is done with the batch.                  *)
DeleteSentBatch(w) ==
    /\ pc[w] = "flight"
    /\ todo[w] = {} /\ unconf[w] = {}
    /\ \E a \in 0..MaxAge :
          LET S == {m \in sent[w] : age[m] = a} IN
          /\ S # {} \/ sent[w] = {}
          /\ RemoveRows(S)
          /\ sent' = [sent EXCEPT ![w] = @ \ S]
          /\ pc' = [pc EXCEPT ![w] = IF sent[w] = S THEN "idle" ELSE @]
    /\ UNCHANGED <<prodVars, scan, todo, unconf, delivered, faults, overrun>>

(* Any statement of dispatch_batch, and create_confirm_channel, may fail;  *)
(* `?` gives up the whole batch.                                           *)
BatchError(w) ==
    /\ pc[w] # "idle"
    /\ faults < MaxFaults
    /\ faults' = faults + 1
    /\ Drop(w)
    /\ UNCHANGED <<prodVars, rowVars, overrun>>

(* prune_dead_rows, run by one worker between two rounds.                  *)
PruneDeadRows ==
    /\ pc[Housekeeper] = "idle"
    /\ LET doomed == {m \in Messages : status[m] = "dead" /\ wait[m] < -Retention} IN
       /\ doomed # {}
       /\ RemoveRows(doomed)
    /\ UNCHANGED <<prodVars, workVars, delivered, faults, overrun>>

-----------------------------------------------------------------------------
(* The environment.                                                        *)

Tick ==
    /\ \E m \in Messages : Present(m) /\ wait[m] > WaitFloor
    /\ wait' = [m \in Messages |->
                   IF Present(m) /\ wait[m] > WaitFloor THEN wait[m] - 1 ELSE wait[m]]
    /\ overrun' = (overrun \/ \E w \in Workers : \E m \in Held(w) : wait[m] = 1)
    /\ UNCHANGED <<prodVars, status, retry, age, workVars, delivered, faults>>

DayRoll ==
    /\ \E m \in Messages : Present(m) /\ age[m] < MaxAge
    /\ age' = [m \in Messages |->
                  IF Present(m) /\ age[m] < MaxAge THEN age[m] + 1 ELSE age[m]]
    /\ UNCHANGED <<prodVars, status, retry, wait, workVars, delivered, faults, overrun>>

(* Any task's exit ends the process: channels and batches are lost, the    *)
(* table stays.                                                            *)
Crash ==
    /\ faults < MaxFaults
    /\ faults' = faults + 1
    /\ pub' = [m \in Messages |-> IF pub[m] = "queued" THEN "lost" ELSE pub[m]]
    /\ chan' = [k \in InsertWorkers |-> {}]
    /\ pc' = [w \in Workers |-> "idle"]
    /\ todo' = [w \in Workers |-> {}]
    /\ unconf' = [w \in Workers |-> {}]
    /\ sent' = [w \in Workers |-> {}]
    /\ scan' = [w \in Workers |-> 0]
    /\ \E D \in SUBSET UNION {unconf[w] : w \in Workers} : delivered' = delivered \cup D
    /\ UNCHANGED <<rowVars, overrun>>

-----------------------------------------------------------------------------

Produce == \E m \in Messages : PublishDirect(m) \/ Enqueue(m)
Insert == \E k \in InsertWorkers : InsertBatch(k) \/ InsertFails(k)

(* What a worker does by itself; every one of these awaits completes.      *)
WorkerStep(w) ==
    \/ Wake(w) \/ ClaimTierForBucket(w) \/ LoadClaimedRows(w)
    \/ PublishRow(w) \/ ConfirmAck(w) \/ ConfirmFails(w) \/ DeleteSentBatch(w)

Next ==
    \/ Produce \/ Insert
    \/ \E w \in Workers : WorkerStep(w) \/ BatchError(w)
    \/ PruneDeadRows \/ Tick \/ DayRoll \/ Crash

(* Workers, insert workers and the clock keep running; nothing is assumed  *)
(* of the broker's verdicts, of errors, of crashes or of the calendar.     *)
Fairness ==
    /\ \A w \in Workers : WF_vars(WorkerStep(w))
    /\ \A k \in InsertWorkers : WF_vars(InsertBatch(k))
    /\ WF_vars(Tick)

Spec == Init /\ [][Next]_vars
FairSpec == Spec /\ Fairness

-----------------------------------------------------------------------------
(* Safety.                                                                 *)

(* A row leaves ops.outbox_event only when the broker holds a copy of the  *)
(* message, or after MaxRetry recorded failures (dead, then pruned).       *)
NothingDroppedUnsent ==
    \A m \in Messages :
        pub[m] = "stored" /\ status[m] = "absent" =>
            m \in delivered \/ retry[m] >= MaxRetry

(* While no worker outlives its claim lease, a row is in the hands of at   *)
(* most one worker, from the claim to the DELETE, across errors, crashes   *)
(* and restarts.                                                           *)
LeaseIsExclusive ==
    ~overrun => \A v, w \in Workers : v # w => Held(v) \cap Held(w) = {}

(* No row is ever dead before its MaxRetry-th failure, and none that has   *)
(* failed that often is still claimable.                                   *)
DeadAtMaxRetry ==
    \A m \in Messages :
        Present(m) => (status[m] = "dead" <=> retry[m] >= MaxRetry)

(* A dead row is not revived, not even by the late failure report of a     *)
(* worker that lost its lease.                                             *)
DeadIsFinal ==
    [][\A m \in Messages : status[m] = "dead" => status'[m] \in {"dead", "absent"}]_vars

(* As an implementation of DeliveryPromise: ops.outbox_event answers for   *)
(* its rows, and gives a message up with its MaxRetry-th failure.          *)
Promise == INSTANCE DeliveryPromise WITH
    promised <- {m \in Messages : Present(m)},
    withdrawn <- {m \in Messages : retry[m] >= MaxRetry}

KeepsPromise == Promise!Spec

-----------------------------------------------------------------------------
(* Liveness.                                                               *)

(* Every stored row is deleted after its ack, or dies, or grows older than *)
(* the buckets the claim statements look at.                               *)
RowSettles ==
    \A m \in Messages :
        pub[m] = "stored" ~> \/ status[m] \in {"absent", "dead"}
                             \/ age[m] > Lookback

=============================================================================
