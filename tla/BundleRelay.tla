----------------------------- MODULE BundleRelay -----------------------------
(***************************************************************************)
(* How indicator_engine publishes minute bundles: the intents its minute   *)
(* pipeline commits in the main database (storage/snapshot_writer.rs), the *)
(* DurableIntentRelay that mirrors them into the ops database              *)
(* (publish/durable_intent_relay.rs) and the OutboxDispatcher that sends   *)
(* the mirrored rows to RabbitMQ (publish/outbox_dispatcher.rs).           *)
(*                                                                         *)
(* The two databases share no transaction.  One SQL statement, or one      *)
(* transaction, is one step; relay, dispatcher, minute pipeline, patches   *)
(* and repairs interleave between steps.                                   *)
(*                                                                         *)
(* message_id is a UUID of symbol, minute and content, so a bundle is a    *)
(* pair <<minute, content>>; contents of a minute are numbered in the      *)
(* order they are computed.  The LIMITs (512 and 1000 rows) are larger     *)
(* than any backlog considered.  Time is a choice: a row becomes due and a *)
(* mirrored intent becomes stale (30 s) at any moment.                     *)
(***************************************************************************)
EXTENDS Integers, FiniteSets

CONSTANTS
    Minutes,    \* minutes of the symbol (numbers, in time order)
    MaxVer,     \* bound on the contents computed for one minute
    MaxRetry,   \* retry_count at which a row is dead (10)
    MaxFaults,  \* bound on errors, nacks and process exits
    MaxRepairs, \* bound on repairs
    Prompt      \* whether due rows are sent, and sent rows finalized, within 30 s

ASSUME ConstantsAssumption ==
    /\ Minutes \subseteq Int
    /\ MaxVer \in Nat \ {0}
    /\ MaxRetry \in Nat \ {0}
    /\ MaxFaults \in Nat
    /\ MaxRepairs \in Nat
    /\ Prompt \in BOOLEAN

Bundles == Minutes \X (1..MaxVer)
MinuteOf(b) == b[1]
ContentOf(b) == b[2]

VARIABLES
    writes,    \* contents computed so far for each minute
    snap,      \* content in feat.indicator_snapshot, 0 when there are no rows
    ready,     \* content written by a task that has yet to enqueue its bundle, or 0
    unfilled,  \* minutes cleared by a historical batch and not rewritten yet
    intent,    \* intent_id in ops.indicator_bundle_intent, 0 when there is no row
    relayed,   \* relayed_at: NULL, less than 30 s old, older
    ids,       \* last intent_id handed out
    status,    \* ops.indicator_bundle_outbox.status, "absent" when there is no row
    src,       \* source_intent_id
    retry,     \* retry_count
    due,       \* available_at <= now()
    cache,     \* content in ops.indicator_bundle_payload_cache, or 0
    rpc,       \* the relay's next statement
    rset,      \* pairs <<bundle, intent_id>> the relay read
    todo,      \* bundles whose payload cache the relay has still to ensure
    hand,      \* content the relay read for the cache, <<minute, content>> or Nothing
    dpc,       \* the dispatcher's next step
    batch,     \* pairs <<bundle, source_intent_id>> claimed and not yet published
    drop,      \* claimed bundles found without an intent
    cur,       \* bundles whose row still has the outbox_id the dispatcher claimed
    flight,    \* <<bundle, body>> published, confirm not yet received, or Nothing
    sentIds,   \* bundles acked in this batch
    broker,    \* <<bundle, body>> the broker holds
    withdrawn, \* history: bundles a repair took back since they were enqueued
    faults,    \* errors, nacks and exits so far
    repairs    \* repairs so far

mainVars == <<writes, snap, ready, unfilled, intent, relayed, ids, withdrawn>>
opsVars == <<status, src, retry, due, cache>>
relayVars == <<rpc, rset, todo, hand>>
dispVars == <<dpc, batch, drop, cur, flight, sentIds>>
vars == <<mainVars, opsVars, relayVars, dispVars, broker, faults, repairs>>

Nothing == <<>>
Statuses == {"absent", "pending", "sending", "failed", "dead", "sent"}
RelaySteps == {"finalize", "deleteIntents", "deleteSent", "prune", "findOrphans",
               "deleteOrphans", "mirror", "resync", "upsert", "cache", "mark"}
DispatchSteps == {"idle", "filter", "dropStale", "send"}

TypeOK ==
    /\ writes \in [Minutes -> 0..MaxVer]
    /\ snap \in [Minutes -> 0..MaxVer]
    /\ ready \in [Minutes -> 0..MaxVer]
    /\ unfilled \in SUBSET Minutes
    /\ intent \in [Bundles -> Nat]
    /\ relayed \in [Bundles -> {"null", "fresh", "stale"}]
    /\ ids \in Nat
    /\ status \in [Bundles -> Statuses]
    /\ src \in [Bundles -> Nat]
    /\ retry \in [Bundles -> Nat]
    /\ due \in [Bundles -> BOOLEAN]
    /\ cache \in [Minutes -> 0..MaxVer]
    /\ rpc \in RelaySteps
    /\ rset \in SUBSET (Bundles \X Nat)
    /\ todo \in SUBSET Bundles
    /\ hand \in {Nothing} \cup Minutes \X (1..MaxVer)
    /\ dpc \in DispatchSteps
    /\ batch \in SUBSET (Bundles \X Nat)
    /\ drop \in SUBSET Bundles
    /\ cur \in SUBSET Bundles
    /\ flight \in {Nothing} \cup Bundles \X (1..MaxVer)
    /\ sentIds \in SUBSET Bundles
    /\ broker \in SUBSET (Bundles \X (1..MaxVer))
    /\ withdrawn \in SUBSET Bundles
    /\ faults \in 0..MaxFaults
    /\ repairs \in 0..MaxRepairs

Init ==
    /\ writes = [m \in Minutes |-> 0]
    /\ snap = [m \in Minutes |-> 0]
    /\ ready = [m \in Minutes |-> 0]
    /\ unfilled = {}
    /\ intent = [b \in Bundles |-> 0]
    /\ relayed = [b \in Bundles |-> "null"]
    /\ ids = 0
    /\ status = [b \in Bundles |-> "absent"]
    /\ src = [b \in Bundles |-> 0]
    /\ retry = [b \in Bundles |-> 0]
    /\ due = [b \in Bundles |-> FALSE]
    /\ cache = [m \in Minutes |-> 0]
    /\ rpc = "finalize"
    /\ rset = {}
    /\ todo = {}
    /\ hand = Nothing
    /\ dpc = "idle"
    /\ batch = {}
    /\ drop = {}
    /\ cur = {}
    /\ flight = Nothing
    /\ sentIds = {}
    /\ broker = {}
    /\ withdrawn = {}
    /\ faults = 0
    /\ repairs = 0

-----------------------------------------------------------------------------
(* The minute pipeline and the oi_ratio patches.                           *)

(* write_snapshots, a transaction of its own, before the bundle is built.  *)
WriteSnapshots(m) ==
    /\ ready[m] = 0
    /\ writes[m] < MaxVer
    /\ writes' = [writes EXCEPT ![m] = @ + 1]
    /\ snap' = [snap EXCEPT ![m] = writes[m] + 1]
    /\ ready' = [ready EXCEPT ![m] = writes[m] + 1]
    /\ UNCHANGED <<unfilled, intent, relayed, ids, withdrawn, opsVars, relayVars,
                   dispVars, broker, faults, repairs>>

(* enqueue_intent_batch_in_tx: an upsert on message_id.  A conflict keeps  *)
(* intent_id and resets relayed_at.                                        *)
UpsertIntent(b) ==
    /\ ids' = IF intent[b] = 0 THEN ids + 1 ELSE ids
    /\ intent' = [intent EXCEPT ![b] = IF @ = 0 THEN ids + 1 ELSE @]
    /\ relayed' = [relayed EXCEPT ![b] = "null"]
    /\ withdrawn' = withdrawn \ {b}

(* advance_progress_with_outbox and enqueue_bundle_repairs.                *)
EnqueueBundle(m) ==
    /\ ready[m] # 0
    /\ UpsertIntent(<<m, ready[m]>>)
    /\ ready' = [ready EXCEPT ![m] = 0]
    /\ UNCHANGED <<writes, snap, unfilled, opsVars, relayVars, dispVars, broker, faults, repairs>>

(* The commit took effect but was reported as failed: the window is        *)
(* requeued and its bundle, the same message_id, is enqueued again.        *)
EnqueueReportsError(m) ==
    /\ ready[m] # 0
    /\ faults < MaxFaults
    /\ faults' = faults + 1
    /\ UpsertIntent(<<m, ready[m]>>)
    /\ UNCHANGED <<writes, snap, ready, unfilled, opsVars, relayVars, dispVars, broker, repairs>>

-----------------------------------------------------------------------------
(* Repairs.  They delete intents in the main database only; the mirrored   *)
(* rows are left to the relay and the dispatcher.                          *)

DeleteIntentsOf(S) ==
    /\ intent' = [b \in Bundles |-> IF b \in S THEN 0 ELSE intent[b]]
    /\ relayed' = [b \in Bundles |-> IF b \in S THEN "null" ELSE relayed[b]]
    /\ withdrawn' = withdrawn \cup S

(* suppress_repair_bundle_publish_tail, under the live commit gate and     *)
(* with the patch task aborted: nothing is between the two writes.         *)
SuppressTail(m) ==
    /\ repairs < MaxRepairs
    /\ repairs' = repairs + 1
    /\ DeleteIntentsOf({b \in Bundles : intent[b] # 0 /\ MinuteOf(b) >= m})
    /\ ready' = [n \in Minutes |-> 0]
    /\ UNCHANGED <<writes, snap, unfilled, ids, opsVars, relayVars, dispVars, broker, faults>>

(* clear_persisted_range_for_repair of a background historical batch; a    *)
(* patch task may be between its two writes.  Also rewind_persisted_tail,  *)
(* before the pipeline starts.                                             *)
ClearRange(from, to) ==
    /\ repairs < MaxRepairs
    /\ repairs' = repairs + 1
    /\ DeleteIntentsOf({b \in Bundles : intent[b] # 0 /\ MinuteOf(b) \in from..to})
    /\ snap' = [m \in Minutes |-> IF m \in from..to THEN 0 ELSE snap[m]]
    /\ unfilled' = unfilled \cup {m \in Minutes : m \in from..to /\ writes[m] > 0}
    /\ UNCHANGED <<writes, ready, ids, opsVars, relayVars, dispVars, broker, faults>>

(* The batch writes the minute again (CutoverReplay: no bundle).           *)
Rematerialize(m) ==
    /\ m \in unfilled
    /\ unfilled' = unfilled \ {m}
    /\ snap' = [snap EXCEPT ![m] = writes[m]]
    /\ UNCHANGED <<writes, ready, intent, relayed, ids, withdrawn, opsVars, relayVars,
                   dispVars, broker, faults, repairs>>

-----------------------------------------------------------------------------
(* The ops database.                                                       *)

Present(b) == status[b] # "absent"

(* Mutant of Claimable: a claim is never taken over. *)
ClaimableNeverResent(b) == status[b] \in {"pending", "failed"}

Claimable(b) == status[b] \in {"pending", "failed", "sending"}

(* Both delete_ops_rows_by_outbox_ids: the rows of S that still exist, and *)
(* the payload cache of their minutes.                                     *)
DeleteOpsRows(S) ==
    LET doomed == {b \in S : Present(b)} IN
    /\ status' = [b \in Bundles |-> IF b \in doomed THEN "absent" ELSE status[b]]
    /\ src' = [b \in Bundles |-> IF b \in doomed THEN 0 ELSE src[b]]
    /\ retry' = [b \in Bundles |-> IF b \in doomed THEN 0 ELSE retry[b]]
    /\ due' = [b \in Bundles |-> IF b \in doomed THEN FALSE ELSE due[b]]
    /\ cache' = [m \in Minutes |->
                    IF \E b \in doomed : MinuteOf(b) = m THEN 0 ELSE cache[m]]
    /\ cur' = cur \ doomed

NamesOf(pairs) == {p[1] : p \in pairs}
IdsOf(pairs) == {p[2] : p \in pairs}
LiveIds == {intent[b] : b \in Bundles} \ {0}

-----------------------------------------------------------------------------
(* DurableIntentRelay::run_loop: rounds of finalize_sent_rows,             *)
(* prune_orphaned_ops_rows and mirror_due_intents(false) until a round     *)
(* finds nothing to mirror, then mirror_due_intents(true).  The code       *)
(* attempts the last one every 30 s only; here a round that would skip it  *)
(* is one in which no intent is stale.  The code repeats a round that only *)
(* finalized or pruned, up to a cap; here the resync may come first.       *)

(* Mutants of FinalStatuses. *)
FinalStatusesAny == {"sent", "failed", "dead"}
FinalStatusesEager == {"sent", "sending"}

FinalStatuses == {"sent"}

(* finalize_sent_rows: SELECT, DELETE of the intents, DELETE of the rows.  *)
SelectSent ==
    /\ rpc = "finalize"
    /\ rset' = {<<b, src[b]>> : b \in {c \in Bundles : status[c] \in FinalStatuses}}
    /\ rpc' = IF rset' = {} THEN "prune" ELSE "deleteIntents"
    /\ UNCHANGED <<mainVars, opsVars, todo, hand, dispVars, broker, faults, repairs>>

DeleteSentIntents ==
    /\ rpc = "deleteIntents"
    /\ LET gone == {b \in Bundles : intent[b] \in IdsOf(rset) \ {0}} IN
       /\ intent' = [b \in Bundles |-> IF b \in gone THEN 0 ELSE intent[b]]
       /\ relayed' = [b \in Bundles |-> IF b \in gone THEN "null" ELSE relayed[b]]
    /\ rpc' = "deleteSent"
    /\ UNCHANGED <<writes, snap, ready, unfilled, ids, withdrawn, opsVars, rset, todo, hand,
                   dispVars, broker, faults, repairs>>

DeleteSentRows ==
    /\ rpc = "deleteSent"
    /\ DeleteOpsRows(NamesOf(rset))
    /\ rset' = {}
    /\ rpc' = "prune"
    /\ UNCHANGED <<mainVars, todo, hand, dpc, batch, drop, flight, sentIds, broker, faults, repairs>>

(* prune_orphaned_ops_rows: SELECT, SELECT of the intents, DELETE.         *)
SelectUnsent ==
    /\ rpc = "prune"
    /\ rset' = {<<b, src[b]>> : b \in {c \in Bundles : Claimable(c)}}
    /\ rpc' = IF rset' = {} THEN "mirror" ELSE "findOrphans"
    /\ UNCHANGED <<mainVars, opsVars, todo, hand, dispVars, broker, faults, repairs>>

FindOrphans ==
    /\ rpc = "findOrphans"
    /\ rset' = {p \in rset : p[2] \notin LiveIds}
    /\ rpc' = IF rset' = {} THEN "mirror" ELSE "deleteOrphans"
    /\ UNCHANGED <<mainVars, opsVars, todo, hand, dispVars, broker, faults, repairs>>

DeleteOrphans ==
    /\ rpc = "deleteOrphans"
    /\ DeleteOpsRows(NamesOf(rset))
    /\ rset' = {}
    /\ rpc' = "mirror"
    /\ UNCHANGED <<mainVars, todo, hand, dpc, batch, drop, flight, sentIds, broker, faults, repairs>>

(* Mutant of DueStates: the resync overlooks intents already mirrored. *)
DueStatesNewOnly(resync) == {"null"}

DueStates(resync) == IF resync THEN {"null", "stale"} ELSE {"null"}

(* load_due_intents of mirror_due_intents.                                 *)
LoadDueIntents ==
    /\ rpc \in {"mirror", "resync"}
    /\ rset' = {<<b, intent[b]>> : b \in {c \in Bundles :
                    intent[c] # 0 /\ relayed[c] \in DueStates(rpc = "resync")}}
    /\ rpc' = IF rset' # {} THEN "upsert"
              ELSE IF rpc = "mirror" THEN "resync" ELSE "finalize"
    /\ UNCHANGED <<mainVars, opsVars, todo, hand, dispVars, broker, faults, repairs>>

(* The intent the relay read for bundle b. *)
SourceOf(b) == CHOOSE i \in IdsOf(rset) : <<b, i>> \in rset

(* upsert_ops_outbox_rows: whatever the row went through, it is pending    *)
(* again, under the same outbox_id.                                        *)
UpsertOpsRows ==
    /\ rpc = "upsert"
    /\ LET S == NamesOf(rset) IN
       /\ status' = [b \in Bundles |-> IF b \in S THEN "pending" ELSE status[b]]
       /\ src' = [b \in Bundles |-> IF b \in S THEN SourceOf(b) ELSE src[b]]
       /\ retry' = [b \in Bundles |-> IF b \in S THEN 0 ELSE retry[b]]
       /\ due' = [b \in Bundles |-> IF b \in S THEN TRUE ELSE due[b]]
       /\ todo' = S
    /\ rpc' = "cache"
    /\ UNCHANGED <<mainVars, cache, rset, hand, dispVars, broker, faults, repairs>>

(* Mutant of ReadSnapshot: no check for a minute without snapshot rows. *)
ReadSnapshotUnchecked(b) ==
    /\ rpc = "cache"
    /\ hand = Nothing
    /\ b \in todo
    /\ todo' = todo \ {b}
    /\ hand' = <<MinuteOf(b), snap[MinuteOf(b)]>>
    /\ UNCHANGED <<mainVars, opsVars, rpc, rset, dispVars, broker, faults, repairs>>

(* ensure_ops_payload_cache, first half: the snapshot rows of the minute.  *)
(* None: nothing to cache.                                                 *)
ReadSnapshot(b) ==
    /\ rpc = "cache"
    /\ hand = Nothing
    /\ b \in todo
    /\ todo' = todo \ {b}
    /\ hand' = IF snap[MinuteOf(b)] = 0 THEN Nothing
               ELSE <<MinuteOf(b), snap[MinuteOf(b)]>>
    /\ UNCHANGED <<mainVars, opsVars, rpc, rset, dispVars, broker, faults, repairs>>

(* Second half: the upsert of the cache row, or an error that is only      *)
(* logged.                                                                 *)
WriteCache ==
    /\ hand # Nothing
    /\ hand' = Nothing
    /\ \/ /\ cache' = [cache EXCEPT ![hand[1]] = hand[2]]
          /\ UNCHANGED faults
       \/ /\ faults < MaxFaults
          /\ faults' = faults + 1
          /\ UNCHANGED cache
    /\ UNCHANGED <<mainVars, status, src, retry, due, rpc, rset, todo, dispVars, broker, repairs>>

(* mark_intents_relayed, by intent_id.                                     *)
MarkRelayed ==
    /\ rpc = "cache"
    /\ todo = {} /\ hand = Nothing
    /\ relayed' = [b \in Bundles |->
                      IF intent[b] \in IdsOf(rset) \ {0} THEN "fresh" ELSE relayed[b]]
    /\ rset' = {}
    /\ rpc' = "finalize"
    /\ UNCHANGED <<writes, snap, ready, unfilled, intent, ids, withdrawn, opsVars, todo, hand,
                   dispVars, broker, faults, repairs>>

-----------------------------------------------------------------------------
(* OutboxDispatcher::dispatch_batch, a single worker.                      *)

ClaimBatch ==
    LET S == {b \in Bundles : Claimable(b) /\ due[b]} IN
    /\ dpc = "idle"
    /\ S # {}
    /\ status' = [b \in Bundles |-> IF b \in S THEN "sending" ELSE status[b]]
    /\ due' = [b \in Bundles |-> IF b \in S THEN FALSE ELSE due[b]]
    /\ batch' = {<<b, src[b]>> : b \in S}
    /\ cur' = S
    /\ dpc' = "filter"
    /\ UNCHANGED <<mainVars, src, retry, cache, relayVars, drop, flight, sentIds,
                   broker, faults, repairs>>

(* filter_live_intent_rows: rows whose intent is gone are not published.   *)
FilterLiveIntentRows ==
    /\ dpc = "filter"
    /\ batch' = {p \in batch : p[2] \in LiveIds}
    /\ drop' = NamesOf(batch \ batch')
    /\ dpc' = IF drop' = {} THEN "send" ELSE "dropStale"
    /\ UNCHANGED <<mainVars, opsVars, relayVars, cur, flight, sentIds, broker, faults, repairs>>

(* Rows are deleted by outbox_id: one that was deleted and mirrored again  *)
(* meanwhile is another row.                                               *)
DeleteStaleRows ==
    /\ dpc = "dropStale"
    /\ DeleteOpsRows(drop \cap cur)
    /\ drop' = {}
    /\ dpc' = IF batch = {} THEN "idle" ELSE "send"
    /\ UNCHANGED <<mainVars, relayVars, batch, flight, sentIds, broker, faults, repairs>>

(* fetch_cached_bundle_payload, else a rebuild from the snapshot rows.     *)
BodyFor(b) == IF cache[MinuteOf(b)] # 0 THEN cache[MinuteOf(b)] ELSE snap[MinuteOf(b)]

(* Back to the wait of run_loop, the batch forgotten; what was published   *)
(* without a confirm may or may not have reached the broker.               *)
DropBatch ==
    /\ dpc' = "idle"
    /\ batch' = {} /\ drop' = {} /\ cur' = {} /\ sentIds' = {}
    /\ flight' = Nothing
    /\ \/ UNCHANGED broker
       \/ flight # Nothing /\ broker' = broker \cup {flight}

(* build_publish_payload and publish_amqp_message of the next row.         *)
PublishRow ==
    /\ dpc = "send"
    /\ flight = Nothing
    /\ \E p \in batch :
          /\ BodyFor(p[1]) # 0
          /\ batch' = batch \ {p}
          /\ flight' = <<p[1], BodyFor(p[1])>>
    /\ UNCHANGED <<mainVars, opsVars, relayVars, dpc, drop, cur, sentIds, broker, faults, repairs>>

(* No payload to be had: `?` gives up the batch, what it sent included.    *)
PayloadMissing ==
    /\ dpc = "send"
    /\ flight = Nothing
    /\ \E p \in batch : BodyFor(p[1]) = 0
    /\ DropBatch
    /\ UNCHANGED <<mainVars, opsVars, relayVars, faults, repairs>>

ConfirmAck ==
    /\ flight # Nothing
    /\ broker' = broker \cup {flight}
    /\ sentIds' = sentIds \cup {flight[1]}
    /\ flight' = Nothing
    /\ UNCHANGED <<mainVars, opsVars, relayVars, dpc, batch, drop, cur, faults, repairs>>

(* mark_failed, by outbox_id.                                              *)
MarkFailed(b) ==
    IF b \in cur
    THEN /\ status' = [status EXCEPT ![b] = IF retry[b] + 1 >= MaxRetry THEN "dead" ELSE "failed"]
         /\ retry' = [retry EXCEPT ![b] = @ + 1]
         /\ due' = [due EXCEPT ![b] = FALSE]
         /\ UNCHANGED <<src, cache>>
    ELSE UNCHANGED opsVars

(* Mutant of ConfirmFails: a nack is taken for a delivery. *)
ConfirmFailsAsSent ==
    /\ flight # Nothing
    /\ faults < MaxFaults
    /\ faults' = faults + 1
    /\ sentIds' = sentIds \cup {flight[1]}
    /\ flight' = Nothing
    /\ UNCHANGED <<mainVars, opsVars, broker, relayVars, dpc, batch, drop, cur, repairs>>

(* Nack, NotRequested, or a publish that failed.                           *)
ConfirmFails ==
    /\ flight # Nothing
    /\ faults < MaxFaults
    /\ faults' = faults + 1
    /\ MarkFailed(flight[1])
    /\ flight' = Nothing
    /\ UNCHANGED <<mainVars, broker, relayVars, dpc, batch, drop, cur, sentIds, repairs>>

(* mark_sent_batch, by outbox_id, after the last confirm.                  *)
MarkSentBatch ==
    /\ dpc = "send"
    /\ batch = {} /\ flight = Nothing
    /\ status' = [b \in Bundles |-> IF b \in sentIds \cap cur THEN "sent" ELSE status[b]]
    /\ dpc' = "idle"
    /\ cur' = {} /\ sentIds' = {}
    /\ UNCHANGED <<mainVars, src, retry, due, cache, relayVars, batch, drop, flight,
                   broker, faults, repairs>>

(* Any statement, the channel or a confirm fails.                          *)
BatchError ==
    /\ dpc # "idle"
    /\ faults < MaxFaults
    /\ faults' = faults + 1
    /\ DropBatch
    /\ UNCHANGED <<mainVars, opsVars, relayVars, repairs>>

(* prune_dead_rows, a day after the last failure: the row goes, the        *)
(* payload cache of its minute stays.                                      *)
PruneDeadRow(b) ==
    /\ dpc = "idle"
    /\ status[b] = "dead"
    /\ status' = [status EXCEPT ![b] = "absent"]
    /\ src' = [src EXCEPT ![b] = 0]
    /\ retry' = [retry EXCEPT ![b] = 0]
    /\ cur' = cur \ {b}
    /\ UNCHANGED <<mainVars, due, cache, relayVars, dpc, batch, drop, flight, sentIds,
                   broker, faults, repairs>>

-----------------------------------------------------------------------------
(* The environment.                                                        *)

(* available_at passes: a backoff or the 30 s of a claim are over.         *)
BecomeDue(b) ==
    /\ Claimable(b) /\ ~due[b]
    /\ due' = [due EXCEPT ![b] = TRUE]
    /\ UNCHANGED <<mainVars, status, src, retry, cache, relayVars, dispVars, broker,
                   faults, repairs>>

(* RELAY_RESYNC_INTERVAL_SECS pass after relayed_at.                       *)
GrowStale(b) ==
    /\ intent[b] # 0
    /\ relayed[b] = "fresh"
    /\ Prompt => dpc = "idle" /\ status[b] # "sent" /\ ~(Claimable(b) /\ due[b])
    /\ relayed' = [relayed EXCEPT ![b] = "stale"]
    /\ UNCHANGED <<writes, snap, ready, unfilled, intent, ids, withdrawn, opsVars, relayVars,
                   dispVars, broker, faults, repairs>>

(* The relay's first error, like any exit, ends the process with both      *)
(* tasks and the pipeline in it.                                           *)
Crash ==
    /\ faults < MaxFaults
    /\ faults' = faults + 1
    /\ rpc' = "finalize" /\ rset' = {} /\ todo' = {} /\ hand' = Nothing
    /\ DropBatch
    /\ ready' = [m \in Minutes |-> 0]
    /\ UNCHANGED <<writes, snap, unfilled, intent, relayed, ids, withdrawn, opsVars, repairs>>

-----------------------------------------------------------------------------

Pipeline == \E m \in Minutes : WriteSnapshots(m) \/ EnqueueBundle(m) \/ EnqueueReportsError(m)

Repair ==
    \/ \E m \in Minutes : SuppressTail(m)
    \/ \E m, n \in Minutes : m <= n /\ ClearRange(m, n)

RelayStep ==
    \/ SelectSent \/ DeleteSentIntents \/ DeleteSentRows
    \/ SelectUnsent \/ FindOrphans \/ DeleteOrphans
    \/ LoadDueIntents \/ UpsertOpsRows
    \/ \E b \in Bundles : ReadSnapshot(b)
    \/ WriteCache \/ MarkRelayed

DispatchStep ==
    \/ ClaimBatch \/ FilterLiveIntentRows \/ DeleteStaleRows
    \/ PublishRow \/ PayloadMissing \/ ConfirmAck \/ ConfirmFails \/ MarkSentBatch

Elapse == \E b \in Bundles : BecomeDue(b) \/ GrowStale(b)

Next ==
    \/ Pipeline \/ Repair
    \/ \E m \in Minutes : Rematerialize(m)
    \/ RelayStep
    \/ DispatchStep \/ BatchError
    \/ \E b \in Bundles : PruneDeadRow(b)
    \/ Elapse \/ Crash

(* Relay, dispatcher, clock and historical batches keep running; errors,   *)
(* nacks and exits are bounded by MaxFaults.  Liveness is claimed for a    *)
(* Prompt system only: if every batch took longer than the resync interval *)
(* each row could be made pending again just before it is finalized.       *)
Fairness ==
    /\ WF_vars(RelayStep)
    /\ WF_vars(DispatchStep)
    /\ \A b \in Bundles : WF_vars(BecomeDue(b)) /\ WF_vars(GrowStale(b))
    /\ \A b \in Bundles : WF_vars(PruneDeadRow(b))
    /\ \A m \in Minutes : WF_vars(Rematerialize(m))

Spec == Init /\ [][Next]_vars
FairSpec == Spec /\ Fairness

-----------------------------------------------------------------------------
(* Safety.                                                                 *)

(* A row that has not been sent yet, dead ones included, answers to an     *)
(* intent in the main database, unless a repair took that intent back:     *)
(* finalizing never overtakes a row that is still to be sent.              *)
UnsentRowHasIntent ==
    \A b \in Bundles :
        Claimable(b) \/ status[b] = "dead" => intent[b] # 0 \/ b \in withdrawn

(* Every row marked 'sent' stands for a copy at the broker, whatever the   *)
(* relay did to the row while the dispatcher held it.                      *)
SentIsAtBroker ==
    \A b \in Bundles : status[b] = "sent" => \E c \in 1..MaxVer : <<b, c>> \in broker

(* As an implementation of DeliveryPromise: an enqueued bundle is          *)
(* forgotten only once the broker holds it or a repair took it back.       *)
Promise == INSTANCE DeliveryPromise WITH
    Messages <- Bundles,
    promised <- {b \in Bundles : intent[b] # 0},
    delivered <- {p[1] : p \in broker},
    withdrawn <- withdrawn

KeepsPromise == Promise!Spec

-----------------------------------------------------------------------------
(* Liveness.                                                               *)

(* Every intent is settled: its bundle is sent and finalized, or a repair  *)
(* takes it back; neither a dead row nor a missing payload stops it.       *)
IntentSettles ==
    \A b \in Bundles : intent[b] # 0 ~> intent[b] = 0

(* A row whose intent a repair deleted does not stay in the ops database.  *)
OrphanRowIsSwept ==
    \A b \in Bundles : Present(b) /\ intent[b] = 0 ~> ~Present(b) \/ intent[b] # 0

=============================================================================
