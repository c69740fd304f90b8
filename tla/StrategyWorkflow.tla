-------------------------- MODULE StrategyWorkflow --------------------------
(***************************************************************************)
(* The strategy workflow of the llm service (app/runtime.rs) for one       *)
(* symbol and one side.                                                    *)
(*                                                                         *)
(* The select loop handles one thing at a time: a minute bundle, the       *)
(* settle timer, or a fast price event, which may enter, manage or refuse  *)
(* a plan.  Every invoked bundle is a job of its own: Stage 1 names the    *)
(* path to trade, Stage 2a approves a plan for it, Stages 2b and 2c write  *)
(* management plans.  A job and the loop each load the workflow state from *)
(* its file, wait (for the database, a model, the exchange) and save their *)
(* own copy over whatever the other has written meanwhile.  A job's save   *)
(* is two steps, the file read and merged, then the copy written, synced   *)
(* and renamed over it: no lock keeps other threads out in between.  The   *)
(* loop's own saves are one step; only jobs run beside it, and their two   *)
(* steps already put the loop's save before, between or after them.        *)
(*                                                                         *)
(* A price is what it means for the plan: "entry" (the watcher's entry     *)
(* condition is met), "fail" (the path's failure level, from which         *)
(* finalize_stage2a_output_with_stage1_risk takes the plan's stop loss),   *)
(* "target" or "quiet".  Models and exchange are external.                 *)
(***************************************************************************)
EXTENDS Integers, FiniteSets, SequencesExt

CONSTANTS
    Paths,         \* path ids a Stage 1 answer may name
    MaxMinutes,    \* bound on minutes
    WindowLen,     \* minutes of an entry window (15 in the code)
    ReviewAt,      \* minutes of stage2_review_minutes
    RetryAt,       \* minutes of stage1_no_edge_retry_minutes
    MaxStale,      \* bundle_stale_secs, in minutes
    MaxStopouts,   \* max_filled_stopout_attempts
    Scenarios,     \* records of the minutes of stage1_refresh_mins, of whether an entry of an
                   \* earlier run of the service rests at the exchange, and of bounds: how
                   \* many minutes, which prices, and how many price events,
                   \* bundles delivered, model answers, late stamps, entries, invalid
                   \* answers, failing calls, blind reads, restarts and slow jobs there are
    MaxPriority    \* bound on priority jobs at a time

NoEdge == "no_edge"
Prices == {"quiet", "entry", "fail", "target"}

ASSUME ConstantsAssumption ==
    /\ Paths # {} /\ {NoEdge, ""} \cap Paths = {}
    /\ {MaxMinutes, WindowLen, MaxStopouts, MaxPriority} \subseteq Nat \ {0}
    /\ MaxStale \in Nat
    /\ ReviewAt \cup RetryAt \subseteq 1..MaxMinutes
    /\ Scenarios \subseteq [minutes : 1..MaxMinutes, scheduled : SUBSET (1..MaxMinutes),
                           resting : BOOLEAN, prices : SUBSET Prices, events : Nat,
                           bundles : Nat, answers : Nat, late : Nat, entries : Nat,
                           bad : Nat, errs : Nat, blinds : Nat, restarts : Nat, slow : Nat]
    /\ IsFiniteSet(Scenarios) /\ Scenarios # {}
    /\ \A b \in Scenarios : b.resting => b.entries > 0

VARIABLES
    now,      \* the minute
    opened,   \* the length of the event buffer when each minute began
    buffer,   \* FAST_PRICE_EVENT_BUFFER, and how much of it a restart has lost
    inbox,    \* pending_invoke_bundle, last_invoked_ts_bucket, newest bundle on disk
    file,     \* the persisted WorkflowState
    stage1,   \* the persisted Stage 1 output: its path and which answer it is
    snaps,    \* the persisted entry snapshots: attempt and path
    flights,  \* WORKFLOW_STAGE_FLIGHTS: the jobs that hold each stage
    startup,  \* startup_stage1_refresh_due
    jobs,     \* the spawned jobs: where each stands and its copies
    loop,     \* where the event handler stands and its copies
    fired,    \* FastWatcherPlanState: the armed plan version and whether it fired
    exch,     \* each entry attempt at the exchange, and the context it was placed under
    last,     \* the last answer, plan version and attempt used
    budget,   \* what is left of the scenario
    hist      \* history: what the properties need of the past

vars == <<now, opened, buffer, inbox, file, stage1, snaps, flights, startup, jobs,
          loop, fired, exch, last, budget, hist>>

Most(field) == Max({b[field] : b \in Scenarios})
Attempts == 1..Most("entries")
Versions == 1..(Most("answers") + Most("entries"))
BundleJobs == {<<"bundle", b>> : b \in 1..MaxMinutes}
PriorityJobs == {<<"priority", n>> : n \in 1..MaxPriority}
Jobs == BundleJobs \cup PriorityJobs
Bundle(b) == <<"bundle", b>>

NoPlan == [path |-> "", ver |-> 0, gen |-> 0, src |-> 0, cut |-> 0]

\* default_workflow_state.
Blank == [pending |-> "", gen |-> 0, src |-> 0, cut |-> 0, replayed |-> FALSE,
          plan |-> NoPlan, planReplayed |-> FALSE, key |-> 0, stopouts |-> 0,
          window |-> -1, mgmt |-> {}, orders |-> {}]
NoOutput == [path |-> "", gen |-> 0]
NoView == [held |-> {}, ordered |-> {}]
NoContext == [id |-> 0, path |-> ""]
NoSave == [on |-> FALSE, img |-> Blank, marked |-> 0, gen |-> 0]
NoJob == [pc |-> "idle", st |-> Blank, out |-> NoOutput, src |-> 0, ctx |-> 0,
          why |-> "", fresh |-> FALSE, view |-> NoView, held |-> {}, ordered |-> {},
          save |-> NoSave, slow |-> FALSE]
AtRest == [pc |-> "idle", st |-> Blank, out |-> NoOutput, torn |-> FALSE,
           view |-> NoView, price |-> "quiet", acts |-> FALSE, todo |-> <<>>,
           of |-> NoContext]
NoAttempt == [status |-> "none", path |-> "", ver |-> 0, blind |-> FALSE,
              kind |-> "none", ctx |-> 0]

\* What a service finds that was stopped after its first entry, on path p.
FromBefore(p) ==
    LET plan == [path |-> p, ver |-> 1, gen |-> 1, src |-> 1, cut |-> 0] IN
    /\ file = [Blank EXCEPT !.gen = 1, !.src = 1, !.replayed = TRUE, !.plan = plan,
                            !.planReplayed = TRUE, !.key = 1, !.window = 0]
    /\ stage1 = [path |-> p, gen |-> 1]
    /\ snaps = {[id |-> 1, path |-> p]}
    /\ exch = [i \in Attempts |->
                 IF i = 1 THEN [status |-> "order", path |-> p, ver |-> 1, blind |-> FALSE,
                                kind |-> "plan", ctx |-> 1]
                          ELSE NoAttempt]
    /\ last = [gen |-> 1, ver |-> 1, attempt |-> 1]

FromNothing ==
    /\ file = Blank
    /\ stage1 = NoOutput
    /\ snaps = {}
    /\ exch = [i \in Attempts |-> NoAttempt]
    /\ last = [gen |-> 0, ver |-> 0, attempt |-> 0]

Init ==
    /\ now = 1
    /\ opened = [b \in 1..MaxMinutes |-> 0]
    /\ buffer = [events |-> <<>>, from |-> 0]
    /\ inbox = [pending |-> 0, invoked |-> 0, disk |-> 0]
    /\ flights = [stage1 |-> {}, stage2 |-> {}]
    /\ startup = TRUE
    /\ jobs = [j \in Jobs |-> NoJob]
    /\ loop = AtRest
    /\ fired = [ver |-> 0, fired |-> FALSE]
    /\ budget \in Scenarios
    /\ IF budget.resting THEN \E p \in Paths : FromBefore(p) ELSE FromNothing
    /\ hist = [judged |-> [v \in Versions |-> 0], twice |-> FALSE, gone |-> {},
               unmarked |-> {}, unseen |-> {}, excused |-> {}, rolled |-> FALSE,
               spoilt |-> FALSE, asked |-> -1]

Spend(what) == /\ budget[what] > 0
               /\ budget' = [budget EXCEPT ![what] = @ - 1]

-----------------------------------------------------------------------------
(* The workflow state and its file.                                        *)

ClearPlan(st) ==
    [st EXCEPT !.plan = NoPlan, !.planReplayed = FALSE, !.key = 0, !.stopouts = 0]

WithPlan(st, plan, replayDone) ==
    [st EXCEPT !.plan = plan, !.planReplayed = replayDone]

ResetWindow(st, b) ==
    IF st.window = b \div WindowLen THEN st
    ELSE [ClearPlan(st) EXCEPT !.window = b \div WindowLen]

\* Mutant of Preserve: a save overwrites the replay marks in the file.
PreserveNothing(next, old) == next

Preserve(next, old) ==
    [next EXCEPT
        !.replayed = @ \/ (next.gen = old.gen /\ old.replayed),
        !.planReplayed = @ \/ /\ next.plan.ver = old.plan.ver
                              /\ next.plan.path = old.plan.path
                              /\ old.planReplayed]

Save(st) == file' = Preserve(st, file)

\* save_workflow_state of a job up to the rename: the copy, merged with the file as it
\* is now; and, for the record, the plan whose replay mark and the answer the file has.
Saving(job, st) ==
    [job EXCEPT !.save = [on |-> TRUE, img |-> Preserve(st, file),
                          marked |-> IF file.planReplayed THEN file.plan.ver ELSE 0,
                          gen |-> file.gen]]

Left(h, new) == [h EXCEPT !.gone = @ \cup ({file.plan.ver} \ {0, new.plan.ver})]
Withdrawn(h, new) == [Left(h, new) EXCEPT !.rolled = @ \/ new.gen < file.gen]

ActivePath(out) == IF out.path = NoEdge THEN "" ELSE out.path

Open(i) == exch[i].status \in {"order", "position"}
Held == {i \in Attempts : exch[i].status = "position"}
Ordered == {i \in Attempts : exch[i].status = "order"}
TrueView == [held |-> Held, ordered |-> Ordered]
Views == {TrueView, NoView}
\* The account as it is, or (a cache behind the stream) flat.
Reads(v) == IF v = TrueView THEN UNCHANGED budget ELSE Spend("blinds")
OfContexts(ids) == {i \in Attempts : Open(i) /\ exch[i].ctx \in ids}
\* Open entries whose snapshot goes with the contexts: the account was read as flat
\* while they were held, or they rest, placed under the context of another.
Bereft(ids, v) == {i \in OfContexts(ids) : v # TrueView \/
                       (exch[i].status = "order" /\ exch[i].kind # "plan")}
Exposed(v) == v.held # {} \/ v.ordered # {}
Ids(contexts) == {c.id : c \in contexts}
OfPath(contexts, p) == {c \in contexts : c.path = p}

\* Mutant of Acquire: a stage is entered without looking who is in it.
AcquireAnyway(stage, j) == flights' = [flights EXCEPT ![stage] = @ \cup {j}]

Acquire(stage, j) ==
    /\ flights[stage] = {}
    /\ flights' = [flights EXCEPT ![stage] = {j}]

Busy(stage) == flights[stage] # {}
Released(j) == [s \in DOMAIN flights |-> flights[s] \ {j}]

\* An approved plan is stamped and not yet in the file.
PlanBeingSaved ==
    \E j \in Jobs : jobs[j].pc = "decided" /\ jobs[j].save.on /\ jobs[j].st.plan # NoPlan

\* The job that answered as Stage 1 is writing its output and the state.
AnswerBeingSaved == \E j \in flights.stage1 : jobs[j].pc # "stage1"

-----------------------------------------------------------------------------
(* Time, the exchange, and the bundles.                                    *)

Tick ==
    /\ now < budget.minutes
    /\ now' = now + 1
    /\ opened' = [opened EXCEPT ![now + 1] = Len(buffer.events)]
    /\ UNCHANGED <<buffer, inbox, file, stage1, snaps, flights, startup, jobs, loop,
                   fired, exch, last, budget, hist>>

Becomes(i, from, to) ==
    /\ exch[i].status = from
    /\ exch' = [exch EXCEPT ![i].status = to]
    /\ UNCHANGED <<now, opened, buffer, inbox, file, stage1, snaps, flights, startup,
                   jobs, loop, fired, last, budget, hist>>

Fill(i) == Becomes(i, "order", "position")
Close(i) == Becomes(i, "position", "gone")

\* Only what update_pending_invoke_bundle takes for newer is kept; every bundle
\* goes to temp_indicator, whose newest one load_persisted_latest_bundle reads.
BundleArrives(b) ==
    /\ loop.pc = "idle"
    /\ b <= now
    /\ Spend("bundles")
    /\ inbox' = [inbox EXCEPT !.disk = Max({@, b}),
                              !.pending = IF b >= @ THEN b ELSE @]
    /\ UNCHANGED <<now, opened, buffer, file, stage1, snaps, flights, startup, jobs,
                   loop, fired, exch, last, hist>>

\* queue_latest_bundle_invoke, on the settle timer.
SettleFires ==
    LET b == inbox.pending
        invoked == inbox.invoked < b /\ now - b <= MaxStale
    IN
    /\ loop.pc = "idle"
    /\ b # 0
    /\ inbox' = [inbox EXCEPT !.pending = 0, !.invoked = IF invoked THEN b ELSE @]
    /\ jobs' = IF invoked
               THEN [jobs EXCEPT ![Bundle(b)] = [NoJob EXCEPT !.pc = "patch", !.src = b]]
               ELSE jobs
    /\ UNCHANGED <<now, opened, buffer, file, stage1, snaps, flights, startup, loop,
                   fired, exch, last, budget, hist>>

-----------------------------------------------------------------------------
(* Jobs: invoke_workflow_bundle_models and the priority refresh.           *)

IsPriority(j) == j \in PriorityJobs

EndJob(j) ==
    /\ jobs' = [jobs EXCEPT ![j] = NoJob]
    /\ flights' = Released(j)

At(j, pc) == jobs[j].pc = pc /\ ~jobs[j].save.on

\* The plan in the file whose replay was marked after the save had read the file.
MarkLost(j) ==
    IF file.planReplayed /\ file.plan.ver # jobs[j].save.marked /\
       file.plan.ver = jobs[j].save.img.plan.ver THEN {file.plan.ver} ELSE {}

\* An answer goes back, except where the save approves a plan and had read the newer one.
RollsBack(j) ==
    LET s == jobs[j].save IN
    /\ s.img.gen < file.gen
    /\ (jobs[j].pc = "decided" /\ s.img.plan # NoPlan) => s.gen < file.gen

\* The second half of save_workflow_state: write, sync, rename.  Stage 1 is left after
\* its save, the job with the last one.
Renamed(j) ==
    LET img == jobs[j].save.img
        ends == jobs[j].pc = "ended" IN
    /\ jobs[j].save.on
    /\ file' = img
    /\ hist' = [Left(hist, img) EXCEPT !.rolled = @ \/ RollsBack(j),
                                       !.unmarked = @ \cup MarkLost(j)]
    /\ jobs' = [jobs EXCEPT ![j] = IF ends THEN NoJob ELSE [@ EXCEPT !.save = NoSave]]
    /\ flights' = IF ends \/ jobs[j].pc = "fetch" THEN Released(j) ELSE flights
    /\ UNCHANGED <<now, opened, buffer, inbox, stage1, snaps, startup, loop, fired,
                   exch, last, budget>>

RefreshReason(j) ==
    LET b == jobs[j].src IN
    IF IsPriority(j) THEN "failure"
    ELSE IF file.pending # "" THEN file.pending
    ELSE IF startup THEN "startup"
    ELSE IF stage1.gen = 0 THEN "missing"
    ELSE IF b \in budget.scheduled THEN "scheduled"
    ELSE IF stage1.path = NoEdge /\ b \in RetryAt /\ file.src < b THEN "retry"
    ELSE ""

Loaded(j) == [jobs[j] EXCEPT !.st = file, !.out = stage1, !.why = RefreshReason(j)]

\* maybe_refresh_stage1 up to the model call: the request is consumed in the file.
BeginStage1(j) ==
    LET why == RefreshReason(j)
        job == [Loaded(j) EXCEPT !.pc = "stage1"]
        st == [file EXCEPT !.pending = ""] IN
    /\ At(j, "patch")
    /\ why # ""
    /\ Acquire("stage1", j)
    /\ startup' = (startup /\ why # "startup")
    /\ jobs' = [jobs EXCEPT ![j] =
           IF file.pending = why THEN Saving([job EXCEPT !.st = st], st) ELSE job]
    /\ UNCHANGED <<now, opened, buffer, inbox, file, stage1, snaps, loop, fired, exch,
                   last, budget, hist>>

\* No refresh is due, or another job is at it.
SkipStage1(j) ==
    /\ At(j, "patch")
    /\ RefreshReason(j) = "" \/ Busy("stage1")
    /\ IF IsPriority(j) \/ stage1.gen = 0
       THEN EndJob(j)
       ELSE /\ jobs' = [jobs EXCEPT ![j] = [Loaded(j) EXCEPT !.pc = "fetch"]]
            /\ UNCHANGED flights
    /\ UNCHANGED <<now, opened, buffer, inbox, file, stage1, snaps, startup, loop,
                   fired, exch, last, budget, hist>>

\* An answer's time stamp is later than every event delivered, and may (late) be
\* later than the next one that is to be delivered.
Stamp(late) == Len(buffer.events) + (IF late THEN 1 ELSE 0)
SpendAnswer(late) ==
    /\ budget.answers > 0
    /\ late => budget.late > 0
    /\ budget' = [budget EXCEPT !.answers = @ - 1, !.late = IF late THEN @ - 1 ELSE @]

Stage1Answer(j, path, late) ==
    LET gen == last.gen + 1
        st == [ClearPlan(jobs[j].st) EXCEPT !.gen = gen, !.src = jobs[j].src,
                   !.cut = Stamp(late), !.replayed = (path = NoEdge), !.pending = ""]
        out == [path |-> path, gen |-> gen]
        next == IF IsPriority(j) THEN "ended" ELSE "fetch"
    IN
    /\ At(j, "stage1")
    /\ SpendAnswer(late)
    /\ last' = [last EXCEPT !.gen = gen]
    /\ stage1' = out
    /\ jobs' = [jobs EXCEPT ![j] = Saving([@ EXCEPT !.pc = next, !.st = st, !.out = out,
                                                   !.fresh = TRUE], st)]
    /\ UNCHANGED <<now, opened, buffer, inbox, file, snaps, flights, startup, loop,
                   fired, exch, hist>>

\* An answer that does not parse, a failing database or exchange call: the job ends.
JobFails(j) ==
    /\ \/ (At(j, "patch") \/ At(j, "fetch")) /\ Spend("errs")
       \/ (At(j, "stage1") \/ At(j, "stage2a")) /\ Spend("bad")
    /\ hist' = [hist EXCEPT !.spoilt = TRUE]
    /\ EndJob(j)
    /\ UNCHANGED <<now, opened, buffer, inbox, file, stage1, snaps, startup, loop,
                   fired, exch, last>>

\* The snapshots Stage 2b and 2c find for the positions and orders of the side:
\* those of the path if there are any, of each the latest attempt.
Contexts(ids, path) ==
    LET known == {s \in snaps : \E i \in ids : exch[i].ctx = s.id}
        best == IF OfPath(known, path) # {} THEN OfPath(known, path) ELSE known
    IN {s \in best : \A t \in best : t.id <= s.id}

Blocking(j) == (jobs[j].why # "" /\ ~jobs[j].fresh) \/ Busy("stage1")
StartupReview(j) ==
    jobs[j].why = "startup" /\ jobs[j].fresh /\ ~Exposed(jobs[j].view)
ReviewDue(j) ==
    /\ ~Blocking(j)
    /\ \/ jobs[j].src \in ReviewAt /\ ActivePath(jobs[j].out) # ""
       \/ jobs[j].view.held # {} /\ (jobs[j].fresh \/ jobs[j].src \in ReviewAt)

\* The copy as the job has it once it has read the account.
Reviewed(j) ==
    ResetWindow(IF jobs[j].out.path = NoEdge THEN ClearPlan(jobs[j].st)
                                             ELSE jobs[j].st, jobs[j].src)

\* The account and the snapshots are read; without an edge the plan is cleared and
\* saved, as it is when its window has passed.  Without exposure either the job ends.
ReadAccount(j, v) ==
    LET path == ActivePath(jobs[j].out)
        noEdge == jobs[j].out.path = NoEdge
        job == [jobs[j] EXCEPT !.pc = "review", !.st = Reviewed(j), !.view = v,
                   !.held = Contexts(v.held, path),
                   !.ordered = IF path = "" THEN {} ELSE Contexts(v.ordered, path)]
        cleared == ClearPlan(jobs[j].st)
    IN
    /\ At(j, "fetch")
    /\ Reads(v)
    /\ jobs' = [jobs EXCEPT ![j] =
           IF noEdge /\ ~Exposed(v) THEN Saving([jobs[j] EXCEPT !.pc = "ended"], cleared)
           ELSE IF noEdge THEN Saving(job, cleared)
           ELSE IF job.st.plan # jobs[j].st.plan THEN Saving(job, job.st)
           ELSE job]
    /\ UNCHANGED <<now, opened, buffer, inbox, file, stage1, snaps, flights, startup,
                   loop, fired, exch, last, hist>>

GoesOn(j) == ReviewDue(j) \/ (StartupReview(j) /\ ActivePath(jobs[j].out) # "")

\* A step of a job that only reads the files and begins a save of its copy.
SavesAs(j, pc, st) ==
    /\ jobs' = [jobs EXCEPT ![j] = Saving([@ EXCEPT !.pc = pc, !.st = st], st)]
    /\ UNCHANGED <<now, opened, buffer, inbox, file, stage1, snaps, startup, loop,
                   fired, exch, hist>>

\* Nothing to review, or another job is reviewing: the copy is saved all the same.
EndWithoutReview(j) ==
    /\ At(j, "review")
    /\ ~GoesOn(j) \/ Busy("stage2")
    /\ SavesAs(j, "ended", jobs[j].st)
    /\ UNCHANGED <<flights, last, budget>>

ToReview(j, pc) ==
    /\ At(j, "review")
    /\ GoesOn(j)
    /\ Acquire("stage2", j)
    /\ jobs' = [jobs EXCEPT ![j] = [@ EXCEPT !.pc = pc, !.ctx = Max({jobs[j].src, inbox.disk})]]
    /\ UNCHANGED <<now, opened, buffer, inbox, file, stage1, snaps, startup, loop,
                   fired, exch, last, budget, hist>>

ToStage2a(j) ==
    /\ ActivePath(jobs[j].out) # ""
    /\ ~Exposed(jobs[j].view)
    /\ ToReview(j, "stage2a")

HasContexts(j) == jobs[j].held # {} \/ jobs[j].ordered # {}
ToPlans(j) == HasContexts(j) /\ ToReview(j, "plans")

Emptied(st) == [st EXCEPT !.mgmt = {}, !.orders = {}]

\* There is no model to ask: the account is flat and the path's quality does not
\* allow a new entry, or nothing that is open has a snapshot.
EndUnasked(j) ==
    LET flat == ~Exposed(jobs[j].view) IN
    /\ At(j, "review")
    /\ GoesOn(j)
    /\ Acquire("stage2", j)
    /\ IF flat THEN ~StartupReview(j) /\ SavesAs(j, "decided", ClearPlan(jobs[j].st))
               ELSE ~HasContexts(j) /\ SavesAs(j, "emptied", Emptied(jobs[j].st))
    /\ UNCHANGED <<last, budget>>

\* Mutant of Stale: only a Stage 1 that is being refreshed counts.
StaleInflight(j) == Busy("stage1")

\* detect_stale_stage2a_response.
Stale(j) ==
    \/ Busy("stage1")
    \/ ActivePath(stage1) # ActivePath(jobs[j].out)
    \/ file.gen > jobs[j].st.gen

DropAnswer(j) ==
    /\ At(j, "stage2a")
    /\ Stale(j)
    /\ SavesAs(j, "emptied", Emptied(jobs[j].st))
    /\ UNCHANGED <<flights, last, budget>>

Approve(j, late) ==
    LET plan == [path |-> jobs[j].out.path, ver |-> last.ver + 1,
                 gen |-> jobs[j].out.gen, src |-> jobs[j].ctx, cut |-> Stamp(late)]
    IN
    /\ At(j, "stage2a")
    /\ ~Stale(j)
    /\ SpendAnswer(late)
    /\ last' = [last EXCEPT !.ver = @ + 1]
    /\ SavesAs(j, "decided", [WithPlan(jobs[j].st, plan, FALSE) EXCEPT !.pending = ""])
    /\ UNCHANGED flights

\* PATH_CONFIRMED_WAIT and REQUEST_STAGE1_REEVALUATION.
Decline(j, request) ==
    /\ At(j, "stage2a")
    /\ ~Stale(j)
    /\ SavesAs(j, "decided", [ClearPlan(jobs[j].st) EXCEPT !.pending = request])
    /\ UNCHANGED <<flights, last, budget>>

\* Stage 2b answers, Stage 2c answers: the plans of the copy are replaced.
PositionPlans(j, held) ==
    /\ At(j, "plans")
    /\ held \subseteq jobs[j].held
    /\ IF jobs[j].held = {}
       THEN /\ jobs' = [jobs EXCEPT ![j].pc = "orderplans", ![j].st.mgmt = {}]
            /\ UNCHANGED <<now, opened, buffer, inbox, file, stage1, snaps, startup, loop,
                           fired, exch, hist>>
       ELSE SavesAs(j, "orderplans", [jobs[j].st EXCEPT !.mgmt = held])
    /\ UNCHANGED <<flights, last, budget>>

OrderPlans(j, ordered) ==
    /\ At(j, "orderplans")
    /\ ordered \subseteq jobs[j].ordered
    /\ SavesAs(j, "emptied", [jobs[j].st EXCEPT !.orders = ordered])
    /\ UNCHANGED <<flights, last, budget>>

\* Behind a decision the account is flat and has nothing to manage.
EmptyPlans(j) ==
    /\ At(j, "decided")
    /\ SavesAs(j, "emptied", Emptied(jobs[j].st))
    /\ UNCHANGED <<flights, last, budget>>

\* Stage 2 is left, and the copy saved once more.
LeaveReview(j) ==
    /\ At(j, "emptied")
    /\ flights' = Released(j)
    /\ SavesAs(j, "ended", jobs[j].st)
    /\ UNCHANGED <<last, budget>>

BundleJob(j) ==
    \/ BeginStage1(j) \/ SkipStage1(j)
    \/ \E p \in Paths \cup {NoEdge}, l \in BOOLEAN : Stage1Answer(j, p, l)
    \/ JobFails(j) \/ Renamed(j)
    \/ \E v \in Views : ReadAccount(j, v)
    \/ EndWithoutReview(j) \/ EndUnasked(j) \/ ToStage2a(j) \/ ToPlans(j)
    \/ DropAnswer(j) \/ EmptyPlans(j) \/ LeaveReview(j)
    \/ \E l \in BOOLEAN : Approve(j, l)
    \/ \E r \in {"", "thesis"} : Decline(j, r)
    \/ \E h \in SUBSET jobs[j].held : PositionPlans(j, h)
    \/ \E o \in SUBSET jobs[j].ordered : OrderPlans(j, o)

-----------------------------------------------------------------------------
(* The event handler, handle_fast_market_event.                            *)

Position == Len(buffer.events)
Active == ActivePath(loop.out)
Rest == /\ loop' = AtRest
Goes(pc, st, view) == loop' = [loop EXCEPT !.pc = pc, !.st = st, !.view = view]

\* The event is buffered and the files are read; then the account is asked.  The
\* price does not reach the failure level before it has filled a resting entry.
FastEvent(price, acts) ==
    /\ loop.pc = "idle"
    /\ price = "fail" => Ordered = {}
    /\ acts => file.mgmt # {} \/ file.orders # {}
    /\ price \in budget.prices
    /\ Spend("events")
    /\ buffer' = [buffer EXCEPT !.events = Append(@, price)]
    /\ loop' = [AtRest EXCEPT !.pc = "fetching", !.st = file, !.out = stage1,
                              !.torn = AnswerBeingSaved, !.price = price, !.acts = acts]
    /\ hist' = [hist EXCEPT !.unseen = @ \cup
                    IF PlanBeingSaved THEN {Len(buffer'.events)} ELSE {}]
    /\ UNCHANGED <<now, opened, inbox, file, stage1, snaps, flights, startup, jobs,
                   fired, exch, last>>

\* Mutant of Window: the first event of the source minute is not replayed.
WindowLate(src, cut) ==
    {i \in 1..Position : i > buffer.from /\ i > opened[src] + 1 /\ i <= cut}

\* buffered_fast_price_events_in_range, as positions in the buffer.
Window(src, cut) ==
    {i \in 1..Position : i > buffer.from /\ i > opened[src] /\ i <= cut}

ReplayPending(st) == st.gen > 0 /\ ~st.replayed

\* A boundary asks for a refresh unless one is requested or the side is exposed.
MayRequest(st, v) == st.pending = "" /\ Active # "" /\ ~Exposed(v)

Replayed(st) == IF ReplayPending(st) THEN Window(st.src, st.cut) ELSE {}

\* The first boundary that the events since the path's source minute touch.
Touches(st, v) ==
    IF MayRequest(st, v)
    THEN {i \in Replayed(st) : buffer.events[i] \in {"fail", "target"}} ELSE {}

\* The boundary that the replay touches, or else the event itself.
Boundary(st, v) ==
    IF Touches(st, v) # {} THEN buffer.events[Min(Touches(st, v))]
    ELSE IF MayRequest(st, v) /\ (loop.price = "fail" \/
                (loop.price = "target" /\ Position \notin Replayed(st)))
         THEN loop.price ELSE ""

\* maybe_record_stopout_and_cleanup.
StopOut(st, v) ==
    /\ st.plan # NoPlan
    /\ \E s \in OfPath(snaps, st.plan.path) : s.id = st.key
    /\ v.held = {}
    /\ loop.price = "fail"

AfterStopOut(st, v) ==
    IF StopOut(st, v) THEN [st EXCEPT !.stopouts = @ + 1, !.key = 0] ELSE st
SnapsAfterStopOut(st, v) ==
    IF StopOut(st, v) THEN {s \in snaps : s.id # st.key} ELSE snaps

\* What is open of the context that is taken for stopped out.
MissedBy(v) == IF StopOut(loop.st, v) THEN Bereft({loop.st.key}, v) ELSE {}

\* Mutant of Spawns: the request is left to the next bundle.
SpawnsNever == FALSE

Spawns == inbox.disk # 0

FreeSlots == {j \in PriorityJobs : jobs[j].pc = "idle"}

\* A boundary was touched: the plan is refused, a refresh requested, and on the
\* failure level started at once if there is a bundle to start it from.
Request(st, boundary, v) ==
    LET reason == IF boundary = "fail" THEN "failure" ELSE "target"
        next == [ClearPlan(st) EXCEPT !.pending = reason]
    IN
    /\ Save(next)
    /\ hist' = [Withdrawn(hist, next) EXCEPT
                    !.excused = @ \cup MissedBy(v),
                    !.asked = IF boundary = "fail" /\ inbox.disk # 0 /\ ~AnswerBeingSaved
                              THEN last.gen ELSE @]
    /\ fired' = [ver |-> 0, fired |-> FALSE]
    /\ Rest
    /\ IF boundary = "fail" /\ Spawns
       THEN \E j \in FreeSlots : jobs' = [jobs EXCEPT ![j] =
                [NoJob EXCEPT !.pc = "patch", !.src = inbox.disk]]
       ELSE UNCHANGED jobs

\* The account as fetch_symbol_trading_state_for_fast_path reports it: as it is, or
\* (a failing call, a cache behind the stream) flat.
FastReview(v) ==
    LET st == AfterStopOut(loop.st, v)
        boundary == Boundary(st, v)
        next == IF Touches(st, v) # {} THEN st
                ELSE [st EXCEPT !.replayed = @ \/ ReplayPending(st)]
    IN
    /\ loop.pc = "fetching"
    /\ Reads(v)
    /\ snaps' = SnapsAfterStopOut(loop.st, v)
    /\ IF boundary # ""
       THEN Request(next, boundary, v)
       ELSE /\ IF next # loop.st THEN Save(next) ELSE UNCHANGED file
            /\ hist' = IF next # loop.st THEN [Withdrawn(hist, next) EXCEPT
                                  !.excused = @ \cup MissedBy(v)] ELSE hist
            /\ Goes("manage", next, v)
            /\ UNCHANGED <<fired, jobs>>
    /\ UNCHANGED <<now, opened, buffer, inbox, stage1, flights, startup, exch, last>>

Keeps == UNCHANGED <<now, opened, buffer, inbox, stage1, flights, startup, jobs>>

\* Mutant of IsFlat: the flat account the event has read is not checked.
IsFlatAsRead(v) == TRUE

IsFlat(v) == v.held = {}

\* reconcile_flat_position_management_context: a plan whose position the event has
\* not seen, or has no snapshot to act on, goes once fetch_symbol_trading_state, which
\* prefers the cache, reports no position.
Forget(ids) ==
    [loop.st EXCEPT !.mgmt = {m \in @ : m.id \notin ids},
                    !.key = IF @ \in ids THEN 0 ELSE @]
Actionable(m) == m \in snaps \/ (m.path = Active /\ loop.st.plan.path = m.path)
Reconcilable ==
    IF loop.view.held = {} THEN loop.st.mgmt
    ELSE {m \in loop.st.mgmt : loop.acts /\ ~Actionable(m)}

ReconcileManaged ==
    LET ids == Ids(Reconcilable) IN
    /\ loop.pc = "manage"
    /\ Reconcilable # {}
    /\ \/ \E v \in Views :
              /\ Reads(v)
              /\ IF IsFlat(v)
                 THEN /\ Save(Forget(ids))
                      /\ hist' = [Withdrawn(hist, Forget(ids)) EXCEPT
                                      !.excused = @ \cup Bereft(ids, v)]
                      /\ snaps' = {s \in snaps : s.id \notin ids}
                      /\ Goes("orders", Forget(ids), loop.view)
                 ELSE /\ Goes("orders", loop.st, loop.view)
                      /\ UNCHANGED <<file, snaps, hist>>
       \/ /\ Spend("errs")
          /\ Goes("orders", loop.st, loop.view)
          /\ UNCHANGED <<file, snaps, hist>>
    /\ UNCHANGED <<fired, exch, last>>
    /\ Keeps

Triggered == {m \in loop.st.mgmt : loop.acts /\ Actionable(m)}

NothingToManage ==
    /\ loop.pc = "manage"
    /\ Reconcilable = {}
    /\ loop.view.held = {} \/ Triggered = {}
    /\ Goes("orders", loop.st, loop.view)
    /\ UNCHANGED <<file, snaps, fired, exch, last, budget, hist>>
    /\ Keeps

\* A triggered exit closes the position, whoever opened it, and forgets it.
ManagedExit(m) ==
    LET next == [ClearPlan(loop.st) EXCEPT !.mgmt = @ \ {m}] IN
    /\ loop.pc = "manage"
    /\ loop.view.held # {} /\ m \in Triggered
    /\ exch' = [i \in Attempts |->
           IF i \in Held THEN [exch[i] EXCEPT !.status = "gone"] ELSE exch[i]]
    /\ snaps' = {s \in snaps : s.id # m.id}
    /\ Save(next)
    /\ hist' = [Withdrawn(hist, next) EXCEPT
                    !.excused = @ \cup (Bereft({m.id}, TrueView))]
    /\ Rest
    /\ UNCHANGED <<fired, last, budget>>
    /\ Keeps

\* Any other action keeps the position and saves its snapshot anew.
ManagedAdjust(m) ==
    LET next == [loop.st EXCEPT !.mgmt = @ \ {m}] IN
    /\ loop.pc = "manage"
    /\ loop.view.held # {} /\ m \in Triggered
    /\ snaps' = snaps \cup {m}
    /\ Save(next)
    /\ hist' = Withdrawn(hist, next)
    /\ Rest
    /\ UNCHANGED <<fired, exch, last, budget>>
    /\ Keeps

NewAttempt(path, ver, kind, ctx) ==
    [status |-> "order", path |-> path, ver |-> ver, blind |-> Exposed(TrueView),
     kind |-> kind, ctx |-> ctx]

\* An order placed under the context of another: the state and the snapshot are saved
\* once the exchange has accepted it.
Records(context, next) ==
    loop' = [loop EXCEPT !.pc = "recording", !.st = next, !.of = context]

\* An addition is one more entry order under the position's own context.
ManagedAdd(m) ==
    LET n == last.attempt + 1 IN
    /\ loop.pc = "manage"
    /\ loop.view.held # {} /\ m \in Triggered
    /\ Active # ""
    /\ n \in Attempts
    /\ last' = [last EXCEPT !.attempt = n]
    /\ exch' = [exch EXCEPT ![n] = NewAttempt(m.path, 0, "add", m.id)]
    /\ Records(m, [loop.st EXCEPT !.mgmt = @ \ {m}, !.key = m.id])
    /\ UNCHANGED <<file, snaps, fired, budget, hist>>
    /\ Keeps

\* A failing action changes nothing, nor does an addition without a path.
ManagedFails ==
    /\ loop.pc = "manage"
    /\ loop.view.held # {} /\ Triggered # {}
    /\ IF Active = "" THEN UNCHANGED budget ELSE Spend("errs")
    /\ Rest
    /\ UNCHANGED <<file, snaps, fired, exch, last, hist>>
    /\ Keeps

\* process_fast_pending_order_management_actions.  Plans of another path go.
OrdersKept == IF Active = "" THEN loop.st.orders ELSE OfPath(loop.st.orders, Active)
WithOrdersKept == [loop.st EXCEPT !.orders = OrdersKept]
TriggeredOrders == {o \in OrdersKept : loop.acts /\ (o \in snaps \/
                        (o.path = Active /\ loop.st.plan.path = o.path))}

NoOrderToManage ==
    LET next == WithOrdersKept IN
    /\ loop.pc = "orders"
    /\ TriggeredOrders = {}
    /\ IF next = loop.st THEN UNCHANGED <<file, hist>>
       ELSE Save(next) /\ hist' = Withdrawn(hist, next)
    /\ Goes("plan", next, loop.view)
    /\ UNCHANGED <<snaps, fired, exch, last, budget>>
    /\ Keeps

Cancelled == [i \in Attempts |->
    IF i \in Ordered THEN [exch[i] EXCEPT !.status = "gone"] ELSE exch[i]]

\* cancel_entry: the snapshot goes unless the event has read a position, the
\* approved plan of its path as well.
OrderCancelled(o) ==
    LET flat == loop.view.held = {}
        forgot == [WithOrdersKept EXCEPT !.orders = @ \ {o},
                       !.key = IF flat /\ @ = o.id THEN 0 ELSE @]
        next == IF loop.st.plan.path = o.path THEN ClearPlan(forgot) ELSE forgot
    IN
    /\ loop.pc = "orders"
    /\ o \in TriggeredOrders
    /\ exch' = Cancelled
    /\ snaps' = IF flat THEN {s \in snaps : s.id # o.id} ELSE snaps
    /\ Save(next)
    /\ hist' = [Withdrawn(hist, next) EXCEPT
                    !.excused = @ \cup {i \in Held : flat /\ exch[i].ctx = o.id}]
    /\ Rest
    /\ UNCHANGED <<fired, last, budget>>
    /\ Keeps

\* replace_entry: cancelled and placed anew under a plan of its own, but under the
\* context of the order it replaces.
OrderReplaced(o) ==
    LET n == last.attempt + 1
        plan == [path |-> o.path, ver |-> last.ver + 1, gen |-> loop.out.gen,
                 src |-> now, cut |-> Position]
    IN
    /\ loop.pc = "orders"
    /\ o \in TriggeredOrders /\ Active # ""
    /\ n \in Attempts
    /\ last' = [last EXCEPT !.attempt = n, !.ver = @ + 1]
    /\ exch' = [Cancelled EXCEPT ![n] = NewAttempt(o.path, plan.ver, "replace", o.id)]
    /\ Records(o, [WithPlan(WithOrdersKept, plan, TRUE) EXCEPT !.orders = @ \ {o},
                                                               !.key = o.id])
    /\ UNCHANGED <<file, snaps, fired, budget, hist>>
    /\ Keeps

Recorded ==
    /\ loop.pc = "recording"
    /\ snaps' = snaps \cup {loop.of}
    /\ Save(loop.st)
    /\ hist' = Withdrawn(hist, loop.st)
    /\ Rest
    /\ UNCHANGED <<fired, exch, last, budget>>
    /\ Keeps

\* A replacement whose second call fails has cancelled the order; a failing cancel,
\* or one that has no path to replace on, has changed nothing.
OrderFails(cancelled) ==
    /\ loop.pc = "orders"
    /\ TriggeredOrders # {}
    /\ IF Active = "" /\ ~cancelled THEN UNCHANGED budget ELSE Spend("errs")
    /\ exch' = IF cancelled THEN Cancelled ELSE exch
    /\ IF WithOrdersKept = loop.st THEN UNCHANGED <<file, hist>>
       ELSE Save(WithOrdersKept) /\ hist' = Withdrawn(hist, WithOrdersKept)
    /\ Rest
    /\ UNCHANGED <<snaps, fired, last>>
    /\ Keeps

\* A new bracket for the order: its snapshot is saved anew.
OrderAdjusted(o) ==
    LET next == [WithOrdersKept EXCEPT !.orders = @ \ {o}] IN
    /\ loop.pc = "orders"
    /\ o \in TriggeredOrders
    /\ snaps' = IF loop.view.held = {} THEN snaps \cup {o} ELSE snaps
    /\ Save(next)
    /\ hist' = Withdrawn(hist, next)
    /\ Rest
    /\ UNCHANGED <<fired, exch, last, budget>>
    /\ Keeps

(* The approved plan.                                                      *)

Plan == loop.st.plan

Armed ==
    /\ loop.st.pending = ""
    /\ Active # "" /\ Plan.path = Active
    /\ loop.st.window \in {-1, now \div WindowLen}

Disarmed ==
    /\ loop.pc = "plan"
    /\ ~Armed
    /\ fired' = [ver |-> 0, fired |-> FALSE]
    /\ Rest
    /\ UNCHANGED <<file, snaps, exch, last, budget, hist>>
    /\ Keeps

PlanReplay == IF loop.st.planReplayed THEN {} ELSE Window(Plan.src, Plan.cut)

\* Mutant of Entered: a snapshot of the path does not keep the plan from firing.
EnteredNever == FALSE

\* entry_snapshot_exists_for_path.
Entered == OfPath(snaps, Plan.path) # {}

\* The stop of the plan was touched, by the event or by one that is replayed.
StopTouched ==
    \/ loop.price = "fail"
    \/ ~Entered /\ \E i \in PlanReplay : buffer.events[i] = "fail"

PlanRefused ==
    LET next == ClearPlan(loop.st) IN
    /\ loop.pc = "plan"
    /\ Armed /\ StopTouched
    /\ Save(next)
    /\ hist' = Withdrawn(hist, next)
    /\ fired' = [ver |-> 0, fired |-> FALSE]
    /\ Rest
    /\ UNCHANGED <<snaps, exch, last, budget>>
    /\ Keeps

\* sync_fast_watcher_plan_state.
Synced == IF fired.ver = Plan.ver THEN fired ELSE [ver |-> Plan.ver, fired |-> FALSE]

AlreadyEntered ==
    /\ loop.pc = "plan"
    /\ Armed /\ ~StopTouched /\ Entered
    /\ fired' = [Synced EXCEPT !.fired = TRUE]
    /\ Rest
    /\ UNCHANGED <<file, snaps, exch, last, budget, hist>>
    /\ Keeps

\* fast_entry_selection_block_reason, and fast_watcher_entry_ready of a fired plan.
Blocked ==
    \/ Exposed(loop.view)
    \/ loop.st.stopouts >= MaxStopouts
    \/ Synced.fired

Judged == PlanReplay \cup {Position}
Candidates ==
    IF Blocked THEN {} ELSE {i \in Judged : buffer.events[i] = "entry"}

\* The order in which the events came.
InTurn(events) == SetToSortSeq(events, LAMBDA x, y : x < y)

\* mark_tactical_plan_replay_completed, once nothing that is replayed is left to do.
MarkReplayed(st, left) == [st EXCEPT !.planReplayed = @ \/ left \cap PlanReplay = {}]

SaveIfChanged(st) ==
    IF st = loop.st THEN UNCHANGED <<file, hist>>
    ELSE Save(st) /\ hist' = Withdrawn(hist, st)

\* Every event of the replay, and the event itself if it is not among them, is put
\* to the plan; the replay is marked once it is through.
JudgePlan ==
    LET next == MarkReplayed(loop.st, Candidates)
        h == IF next = loop.st THEN hist ELSE Withdrawn(hist, next) IN
    /\ loop.pc = "plan"
    /\ Armed /\ ~StopTouched /\ ~Entered
    /\ IF next = loop.st THEN UNCHANGED file ELSE Save(next)
    /\ hist' = [h EXCEPT !.judged[Plan.ver] = Position,
                    !.twice = @ \/ /\ Min(Judged) <= hist.judged[Plan.ver]
                                   /\ Plan.ver \notin hist.gone \cup hist.unmarked]
    /\ fired' = Synced
    /\ IF Candidates = {} THEN Rest
       ELSE loop' = [loop EXCEPT !.pc = "entering", !.st = next,
                                 !.todo = InTurn(Candidates)]
    /\ UNCHANGED <<snaps, exch, last, budget>>
    /\ Keeps

\* execute_workflow_execution_intent: the entry order is at the exchange.
EntryAccepted ==
    LET n == last.attempt + 1 IN
    /\ loop.pc = "entering"
    /\ n \in Attempts
    /\ last' = [last EXCEPT !.attempt = n]
    /\ exch' = [exch EXCEPT ![n] = NewAttempt(Plan.path, Plan.ver, "plan", n)]
    /\ loop' = [loop EXCEPT !.pc = "reporting", !.st.key = n]
    /\ UNCHANGED <<file, snaps, fired, budget, hist>>
    /\ Keeps

EntryReported ==
    LET next == [loop.st EXCEPT !.planReplayed = TRUE] IN
    /\ loop.pc = "reporting"
    /\ fired' = [fired EXCEPT !.fired = TRUE]
    /\ snaps' = snaps \cup {[id |-> loop.st.key, path |-> Plan.path]}
    /\ Save(next)
    /\ hist' = Withdrawn(hist, next)
    /\ Rest
    /\ UNCHANGED <<exch, last, budget>>
    /\ Keeps

\* The next event that meets the condition tries again.  (Entries beyond the bound
\* are rejected.)
EntryRejected ==
    LET rest == Tail(loop.todo)
        next == MarkReplayed(loop.st, Range(rest)) IN
    /\ loop.pc = "entering"
    /\ IF last.attempt + 1 \in Attempts THEN Spend("errs") ELSE UNCHANGED budget
    /\ SaveIfChanged(next)
    /\ IF rest = <<>> THEN Rest ELSE loop' = [loop EXCEPT !.st = next, !.todo = rest]
    /\ UNCHANGED <<snaps, fired, exch, last>>
    /\ Keeps

Manage ==
    \/ ReconcileManaged \/ NothingToManage \/ ManagedFails
    \/ \E m \in Triggered : ManagedExit(m) \/ ManagedAdjust(m) \/ ManagedAdd(m)

ManageOrders ==
    \/ NoOrderToManage \/ Recorded
    \/ \E c \in BOOLEAN : OrderFails(c)
    \/ \E o \in TriggeredOrders : OrderCancelled(o) \/ OrderReplaced(o) \/ OrderAdjusted(o)

Enter ==
    \/ Disarmed \/ PlanRefused \/ AlreadyEntered \/ JudgePlan
    \/ EntryAccepted \/ EntryReported \/ EntryRejected

-----------------------------------------------------------------------------
(* A restart.                                                              *)

\* cleanup_stale_position_management_state_on_startup; there is no cache yet.
CleansUp(cleans) == cleans /\ IsFlat(TrueView)
CleanedUp(cleans) ==
    LET ids == Ids(file.mgmt) IN
    IF CleansUp(cleans)
    THEN /\ file' = [file EXCEPT !.mgmt = {}, !.key = IF @ \in ids THEN 0 ELSE @]
         /\ snaps' = {s \in snaps : s.id \notin ids}
    ELSE UNCHANGED <<file, snaps>>

\* Memory is lost, the files stay.
Restart(cleans) ==
    /\ Spend("restarts")
    /\ buffer' = [buffer EXCEPT !.from = Len(buffer.events)]
    /\ inbox' = [inbox EXCEPT !.pending = 0, !.invoked = 0]
    /\ flights' = [stage1 |-> {}, stage2 |-> {}]
    /\ startup' = TRUE
    /\ jobs' = [j \in Jobs |-> NoJob]
    /\ Rest
    /\ fired' = [ver |-> 0, fired |-> FALSE]
    /\ CleanedUp(cleans)
    /\ hist' = [hist EXCEPT !.spoilt = TRUE,
           !.excused = @ \cup (IF CleansUp(cleans) THEN Bereft(Ids(file.mgmt), TrueView) ELSE {})
                         \cup (IF loop.pc \in {"reporting", "recording"}
                               THEN {last.attempt} ELSE {})]
    /\ UNCHANGED <<now, opened, stage1, exch, last>>

-----------------------------------------------------------------------------
LoopNext ==
    \/ SettleFires
    \/ \E v \in Views : FastReview(v)
    \/ Manage \/ ManageOrders \/ Enter

\* A job on its way from one file or call to the next, waiting for neither: others come
\* in between only if it is a slow one.  (There is a bound on how many are.)
OnItsWay(j) == jobs[j].save.on \/ jobs[j].pc \in {"review", "decided", "emptied"}
Hurried == {j \in Jobs : OnItsWay(j) /\ ~jobs[j].slow}

BecomesSlow(j) ==
    /\ OnItsWay(j) /\ ~jobs[j].slow
    /\ Spend("slow")
    /\ jobs' = [jobs EXCEPT ![j].slow = TRUE]
    /\ UNCHANGED <<now, opened, buffer, inbox, file, stage1, snaps, flights, startup,
                   loop, fired, exch, last, hist>>

Next ==
    \/ \E j \in Jobs : Hurried \subseteq {j} /\ (BundleJob(j) \/ BecomesSlow(j))
    \/ /\ Hurried = {}
       /\ \/ Tick
          \/ \E i \in Attempts : Fill(i) \/ Close(i)
          \/ \E b \in 1..MaxMinutes : BundleArrives(b)
          \/ \E p \in Prices, a \in BOOLEAN : FastEvent(p, a)
          \/ LoopNext
          \/ \E c \in BOOLEAN : Restart(c)

Spec == Init /\ [][Next]_vars

-----------------------------------------------------------------------------
(* Properties.                                                             *)

Plans == [path : Paths \cup {""}, ver : Nat, gen : Nat, src : Nat, cut : Nat]
ContextSet == SUBSET [id : Attempts, path : Paths]
Reasons == {"", "failure", "target", "thesis"}

StateOK(st) ==
    /\ st.pending \in Reasons
    /\ {st.gen, st.src, st.cut, st.key, st.stopouts} \subseteq Nat
    /\ {st.replayed, st.planReplayed} \subseteq BOOLEAN
    /\ st.plan \in Plans
    /\ st.window \in Int
    /\ {st.mgmt, st.orders} \subseteq ContextSet

\* The shape of the state; and a stage of the workflow is never with two jobs at a
\* time (try_acquire_workflow_stage), nor with a job that is not at it.
TypeOK ==
    /\ now \in 1..MaxMinutes
    /\ opened \in [1..MaxMinutes -> Nat]
    /\ buffer.events \in Seq(Prices) /\ buffer.from \in Nat
    /\ {inbox.pending, inbox.invoked, inbox.disk} \subseteq 0..MaxMinutes
    /\ StateOK(file) /\ StateOK(loop.st)
    /\ stage1.path \in Paths \cup {"", NoEdge} /\ stage1.gen \in Nat
    /\ snaps \in ContextSet
    /\ startup \in BOOLEAN
    /\ \A j \in Jobs : StateOK(jobs[j].st) /\ StateOK(jobs[j].save.img)
    /\ \A s \in DOMAIN flights : Cardinality(flights[s]) <= 1
    /\ \A j \in flights.stage1 :
           jobs[j].pc = "stage1" \/ (jobs[j].pc \in {"fetch", "ended"} /\ jobs[j].save.on)
    /\ \A j \in flights.stage2 :
           jobs[j].pc \in {"stage2a", "plans", "orderplans", "decided", "emptied"}
    /\ fired.ver \in Nat /\ fired.fired \in BOOLEAN
    /\ \A i \in Attempts : exch[i].status \in {"none", "order", "position", "gone"}

\* Whatever is open at the exchange has the entry snapshot of its context, without which
\* neither Stage 2b nor the entry guard knows of it, unless (hist.excused) the service
\* died between the order and the snapshot, read the account as flat and took what it
\* holds for stopped out or closed, cancelled an order that had just filled, or closed
\* the position whose context an addition or a replacement, still resting, shares.
OpenEntryHasSnapshot ==
    \A i \in Attempts :
        Open(i) => \/ exch[i].ctx \in Ids(snaps)
                   \/ loop.pc \in {"reporting", "recording"} /\ last.attempt = i
                   \/ i \in hist.excused

\* Two entries are open at a time only if the second adds to the first, replaced an
\* order that filled meanwhile, or was placed while the account looked flat by mistake;
\* and never does the mistaken view lead to a second entry on the path of one that has
\* kept its snapshot.
NoDoubleExposure ==
    \A i, j \in Attempts :
        (i < j /\ Open(i) /\ Open(j)) =>
            \/ exch[j].kind \in {"add", "replace"}
            \/ exch[j].blind /\ (exch[i].path # exch[j].path \/ i \in hist.excused)

\* A plan sees every price event at most once, in the replay of what came between
\* its source minute and its approval or as it happens, whatever copies of the
\* state are saved over its replay mark meanwhile; except when a job brings back a
\* plan that had left the file, and when the mark is saved between the two steps of a
\* job's save, which had read the file before (hist.unmarked).
JudgedOnce == ~hist.twice

\* An entry follows the Stage 1 answer that was current when its event was taken
\* up, however long the model call took that approved the plan; except for a plan
\* or an answer that a job's save has brought back, and for an event that was taken
\* up between the two files of an answer being written.
EntryFollowsStage1 ==
    [][\A i \in Attempts :
           (exch[i].status = "none" /\ exch'[i].status = "order" /\ exch'[i].kind = "plan") =>
               \/ Plan.gen = loop.out.gen
               \/ Plan.ver \in hist.gone
               \/ hist.rolled
               \/ loop.torn]_vars

\* No plan fires once the price has touched its stop since the minute it was derived
\* from: events of the time the models took are replayed before it may fire; except
\* for events that a restart has lost, for a plan that a save has brought back, and for
\* events taken up while the approved plan, already stamped, was being written.
NoEntryPastStop ==
    [][\A i \in Attempts :
           (exch[i].status = "none" /\ exch'[i].status = "order" /\ exch'[i].kind = "plan") =>
               \/ Plan.ver \in hist.gone
               \/ \A e \in 1..Position :
                      (e > opened[Plan.src] /\ e > buffer.from /\ e \notin hist.unseen) =>
                          buffer.events[e] # "fail"]_vars

\* A touch of the failure level has Stage 1 answer anew: until it has, a job is on its
\* way to ask it or asking, even when the stage is taken by one that began before the
\* touch; unless a model or a call fails, the service restarts, or the touch comes while
\* an answer is being written, whose save may lose the request.
RefreshIsOnItsWay ==
    (hist.asked = last.gen /\ ~hist.spoilt) => \E j \in Jobs : jobs[j].pc \in {"patch", "stage1"}

=============================================================================
