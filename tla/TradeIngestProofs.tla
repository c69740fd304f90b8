--------------------------- MODULE TradeIngestProofs ---------------------------
(***************************************************************************)
(* Machine-checked proofs that the safety properties of TradeIngest hold   *)
(* for every number of trades, minutes, drops, failures and restarts, and  *)
(* every page, channel and batch size, retention and throttle.             *)
(***************************************************************************)
EXTENDS TradeIngest, SequenceTheorems, TLAPS

(* The state keeps its shape.  What each task holds fits the clock t, the  *)
(* newest trade h of the exchange and the newest id seen by the detector.  *)
Pasts == [since : Nat, lost : SUBSET Ids, again : SUBSET Ids, ref : None..Minute(LastSecond) + 1]
Budgets == [trades : 0..Len(Times), drops : Nat, rest : Nat, db : Nat, restarts : Nat,
            bars : BOOLEAN, until : 0..LastSecond]
MinuteChunks == [kept : BOOLEAN, trades : Counts, dirty : BOOLEAN]
Messages == [kind : {"trade", "bar"}, n : Nat]
Sessions(h) == [up : BOOLEAN, attempt : BOOLEAN, seen : 0..h, bar : None..Minute(LastSecond)]

(* The wire holds trades that the detector has not passed, in order, and   *)
(* bars of minutes.                                                        *)
WireFits(w, seen, h) ==
    /\ w \in Seq(Messages)
    /\ \A k \in 1..Len(w) :
           /\ w[k].kind = "bar" => w[k].n \in Minutes
           /\ w[k].kind = "trade" =>
                  /\ seen < w[k].n /\ w[k].n <= h
                  /\ \A i \in 1..(k - 1) : w[i].kind = "trade" => w[i].n < w[k].n

(* Chunks and jobs hold trades of their second and minute.                 *)
ChunkFits(c, h, t) ==
    /\ c \in Chunks /\ c.sec <= t /\ c.cp <= h
    /\ \A id \in Ids : c.trades[id] > 0 => c.sec = Times[id]
JobFits(j, h) ==
    /\ j \in Jobs /\ j.cp <= h
    /\ \A id \in Ids : j.trades[id] > 0 => j.into = MinuteOf(id)
QueueFits(q, h) ==
    /\ q \in Seq(Jobs) /\ Len(q) <= Capacity
    /\ \A k \in 1..Len(q) : JobFits(q[k], h)

(* A page is of ids that exist.  The replay of a gap ends where the        *)
(* detector was, and a short page is its last.                             *)
PageExists(r, h) ==
    r.stage # "none" => 1 <= r.next /\ (r.stage = "emit" => r.next <= r.page /\ r.page <= h)
SyncFits(r, h) == r \in Replays /\ PageExists(r, h)
GapFits(r, seen, h) ==
    /\ SyncFits(r, h)
    /\ r.stage # "none" => r.next <= r.to /\ r.to <= seen
    /\ r.stage = "emit" /\ r.short => r.to <= r.page
BarsFit(b) ==
    /\ b \in [gap : Seq(BarReplays), sync : Seq(BarReplays)]
    /\ \A w \in {"gap", "sync"} : \A k \in 1..Len(b[w]) : b[w][k].next <= b[w][k].end

WorkerFits(w, h) ==
    /\ w \in [stage : {"idle", "taking", "writing"}, n : Nat, cp : Nat,
              out : [DOMAIN w.out -> Counts], ref : 0..Minute(LastSecond) + 1, batch : BOOLEAN]
    /\ DOMAIN w.out \subseteq Minutes /\ w.cp <= h

Sound ==
    /\ now \in 0..LastSecond /\ now <= left.until
    /\ head \in 0..Len(Times) /\ \A i \in 1..head : Times[i] <= now
    /\ left \in Budgets
    /\ WireFits(wire, session.seen, head)
    /\ session \in Sessions(head)
    /\ ChunkFits(chunk, head, now)
    /\ ChunkFits(preChunk, head, now)
    /\ GapFits(gap, session.seen, head)
    /\ SyncFits(sync, head)
    /\ BarsFit(bars)
    /\ pre \in Seq(1..head)
    /\ QueueFits(queue, head)
    /\ WorkerFits(worker, head)
    /\ agg \in [Minutes -> MinuteChunks]
    /\ rows \in [Minutes -> Counts]
    /\ cps \in [buffer : 0..head, saved : 0..head]
    /\ hist \in Pasts

(* The worker writes what the aggregator holds or has trimmed.             *)
WritesTheChunk ==
    /\ worker.stage # "writing" => DOMAIN worker.out = {}
    /\ \A m \in Minutes : agg[m].dirty => agg[m].kept
    /\ \A m \in DOMAIN worker.out :
           IF agg[m].kept THEN worker.out[m] = agg[m].trades
           ELSE m < hist.ref - Retention

(* The stream is known from some id on, which the detector has reached.    *)
SightBegins ==
    /\ hist.since = 0 <=> session.seen = 0
    /\ hist.since <= session.seen + 1

(* Where a trade is on its way to its row.                                 *)
InIds(p, id) == \E k \in 1..Len(p) : p[k] = id
InJobs(q, id) == \E k \in 1..Len(q) : q[k].trades[id] > 0
InGap(id) == id \in OwedBy(gap)
InChunk(id) == chunk.trades[id] > 0
InPreChunk(id) == preChunk.trades[id] > 0
InPre(id) == InIds(pre, id)
InQueue(id) == InJobs(queue, id)
InAgg(id) == \E m \in Minutes : agg[m].trades[id] > 0
Upstream(id) == InGap(id) \/ InChunk(id) \/ InPreChunk(id) \/ InPre(id) \/ InQueue(id)
Downstream(id) ==
    LET m == MinuteOf(id)
    IN  \/ agg[m].dirty /\ agg[m].trades[id] > 0
        \/ m \in DOMAIN worker.out /\ worker.out[m][id] > 0

(* A trade is in its row to stay: its chunk has it too, or was trimmed and *)
(* a job of its minute would come too late.                                *)
Settled(id) ==
    LET m == MinuteOf(id)
    IN  /\ InRow(id)
        /\ agg[m].kept => agg[m].trades[id] > 0
        /\ ~agg[m].kept => /\ m < hist.ref - Retention
                           /\ m \in DOMAIN worker.out => worker.out[m][id] > 0

Kept(id) == InSight(id) => id \in hist.lost \/ Upstream(id) \/ Downstream(id) \/ Settled(id)
Owed == \A id \in Ids : Kept(id)

(* A trade that nothing fetched again is at one place only, once, and only *)
(* when the detector has passed it.                                        *)
IdOnce(p, id) == \A i, k \in 1..Len(p) : p[i] = id /\ p[k] = id => i = k
JobOnce(q, id) ==
    /\ \A k \in 1..Len(q) : q[k].trades[id] <= 1
    /\ \A i, k \in 1..Len(q) : q[i].trades[id] > 0 /\ q[k].trades[id] > 0 => i = k
UpOnce(id) ==
    /\ chunk.trades[id] <= 1 /\ preChunk.trades[id] <= 1
    /\ IdOnce(pre, id) /\ JobOnce(queue, id)
DownOnce(id) ==
    /\ \A m \in Minutes : agg[m].trades[id] <= 1 /\ rows[m][id] <= 1
    /\ \A m \in DOMAIN worker.out : worker.out[m][id] <= 1
Apart(id) ==
    /\ InAgg(id) => ~InQueue(id)
    /\ InAgg(id) \/ InQueue(id) => ~InChunk(id) /\ ~InPreChunk(id)
    /\ InPreChunk(id) => ~InChunk(id)
    /\ InAgg(id) \/ InQueue(id) \/ InChunk(id) \/ InPreChunk(id) => ~InPre(id)
    /\ InAgg(id) \/ InQueue(id) \/ InChunk(id) \/ InPreChunk(id) \/ InPre(id) =>
           id <= session.seen /\ ~InGap(id)
Alone == \A id \in Ids : id \in hist.again \/ (UpOnce(id) /\ DownOnce(id) /\ Apart(id))

-----------------------------------------------------------------------------
(* Times, minutes and counts.                                              *)
LEMMA Sizes ==
  /\ SecsPerMinute \in Nat /\ SecsPerMinute >= 1 /\ PageLimit \in Nat /\ PageLimit >= 1
  /\ Capacity \in Nat /\ MaxCount \in Nat /\ MaxCount >= 1
  /\ Retention \in Nat /\ LastSecond \in Nat
  /\ Len(Times) \in Nat
<1>1. Times \in Seq(Nat)
  BY TimesAssumption
<1>2. Len(Times) \in Nat
  BY <1>1, LenProperties
<1>3. \A n \in Nat \ {0} : n \in Nat /\ n >= 1
  OBVIOUS
<1> QED
  BY <1>2, <1>3, SizeAssumption

LEMMA IdsAre ==
  /\ \A id \in Ids : id \in Nat /\ 1 <= id /\ id <= Len(Times) /\ Times[id] \in Nat
  /\ \A h \in 0..Len(Times) : 1..h \subseteq Ids
<1>1. Times \in Seq(Nat)
  BY TimesAssumption
<1>2. Times \in [1..Len(Times) -> Nat] /\ Len(Times) \in Nat
  BY <1>1, LenProperties
<1> QED
  BY <1>2 DEF Ids

LEMMA MinuteIs ==
  /\ \A t \in Nat : Minute(t) \in Nat
  /\ \A t, u \in Nat : t <= u => Minute(t) <= Minute(u)
<1>1. \A t \in Nat, s \in Nat : s >= 1 => t \div s \in Nat
  OBVIOUS
<1>2. \A t, u \in Nat, s \in Nat : s >= 1 /\ t <= u => t \div s <= u \div s
  OBVIOUS
<1> QED
  BY <1>1, <1>2, Sizes DEF Minute

LEMMA MinutesAre ==
  /\ Minute(LastSecond) \in Nat
  /\ \A t \in 0..LastSecond : Minute(t) \in Minutes
  /\ \A m \in Minutes : m \in Nat /\ m <= Minute(LastSecond)
<1>1. Minute(LastSecond) \in Nat
  BY MinuteIs, Sizes
<1>2. \A t \in 0..LastSecond : Minute(t) \in Nat /\ Minute(t) <= Minute(LastSecond)
  BY MinuteIs, Sizes
<1> QED
  BY <1>1, <1>2 DEF Minutes

LEMMA CountsAre ==
  /\ NoTrades \in Counts /\ \A id \in Ids : NoTrades[id] = 0
  /\ \A b \in Counts : \A id \in Ids : b[id] \in Nat /\ b[id] <= MaxCount
BY Sizes DEF NoTrades, Counts

LEMMA OneIs ==
  ASSUME NEW i \in Ids
  PROVE  /\ One(i) \in Counts
         /\ \A id \in Ids : One(i)[id] = IF id = i THEN 1 ELSE 0
BY Sizes DEF One, NoTrades, Counts

LEMMA PlusIs ==
  ASSUME NEW a \in Counts, NEW b \in Counts
  PROVE  /\ Plus(a, b) \in Counts
         /\ \A id \in Ids : /\ Plus(a, b)[id] > 0 <=> a[id] > 0 \/ b[id] > 0
                            /\ Plus(a, b)[id] <= a[id] + b[id]
<1>1. \A x, y \in 0..MaxCount :
         /\ Smaller(x + y, MaxCount) \in 0..MaxCount
         /\ Smaller(x + y, MaxCount) > 0 <=> x > 0 \/ y > 0
         /\ Smaller(x + y, MaxCount) <= x + y
  BY Sizes DEF Smaller
<1>2. \A id \in Ids : a[id] \in 0..MaxCount /\ b[id] \in 0..MaxCount
  BY DEF Counts
<1>3. \A id \in Ids : Plus(a, b)[id] = Smaller(a[id] + b[id], MaxCount)
  BY DEF Plus
<1>4. Plus(a, b) \in Counts
  BY <1>1, <1>2 DEF Plus, Counts
<1> QED
  BY <1>1, <1>2, <1>3, <1>4

LEMMA LargerIs ==
  \A a, b \in Int : /\ Larger(a, b) \in Int /\ a <= Larger(a, b) /\ b <= Larger(a, b)
                    /\ Larger(a, b) \in {a, b}
BY DEF Larger

-----------------------------------------------------------------------------
(* Sequences: at the end and at the beginning.                             *)
LEMMA AppendIs ==
  ASSUME NEW S, NEW s \in Seq(S), NEW e \in S
  PROVE  /\ s \o <<e>> = Append(s, e)
         /\ Append(s, e) \in Seq(S)
         /\ Len(s) \in Nat /\ Len(Append(s, e)) = Len(s) + 1
         /\ \A i \in 1..Len(s) : Append(s, e)[i] = s[i]
         /\ Append(s, e)[Len(s) + 1] = e
<1>1. <<e>> \in Seq(S) /\ Len(<<e>>) = 1 /\ <<e>>[1] = e
  OBVIOUS
<1>2. /\ Append(s, e) \in Seq(S)
      /\ Len(s) \in Nat /\ Len(Append(s, e)) = Len(s) + 1
      /\ \A i \in 1..Len(s) : Append(s, e)[i] = s[i]
      /\ Append(s, e)[Len(s) + 1] = e
  BY AppendProperties, LenProperties
<1>3. /\ s \o <<e>> \in Seq(S) /\ Len(s \o <<e>>) = Len(s) + Len(<<e>>)
      /\ \A i \in 1..Len(s) + Len(<<e>>) :
             (s \o <<e>>)[i] = IF i <= Len(s) THEN s[i] ELSE <<e>>[i - Len(s)]
  <2>1. <<e>> \in Seq(S)
    BY <1>1
  <2> QED
    BY <2>1, ConcatProperties
<1>4. Len(s \o <<e>>) = Len(Append(s, e))
  BY <1>1, <1>2, <1>3
<1>5. ASSUME NEW i \in 1..Len(s \o <<e>>) PROVE (s \o <<e>>)[i] = Append(s, e)[i]
  <2>1. Len(s \o <<e>>) = Len(s) + 1 /\ i \in 1..(Len(s) + 1)
    BY <1>1, <1>3, <1>5
  <2>2. CASE i <= Len(s)
    <3>1. i \in 1..Len(s) /\ i \in 1..Len(s) + Len(<<e>>)
      BY <2>1, <2>2, <1>1, <1>2
    <3>2. (s \o <<e>>)[i] = s[i]
      BY <3>1, <2>2, <1>3
    <3>3. Append(s, e)[i] = s[i]
      BY <3>1, <1>2
    <3> QED
      BY <3>2, <3>3
  <2>3. CASE ~(i <= Len(s))
    <3>1. i = Len(s) + 1 /\ i - Len(s) = 1 /\ i \in 1..Len(s) + Len(<<e>>)
      BY <2>1, <2>3, <1>1, <1>2
    <3> QED
      BY <3>1, <2>3, <1>1, <1>2, <1>3
  <2> QED
    BY <2>2, <2>3
<1>6. s \o <<e>> = Append(s, e)
  <2>1. s \o <<e>> \in Seq(S) /\ Append(s, e) \in Seq(S)
    BY <1>2, <1>3
  <2> QED
    BY <2>1, <1>4, <1>5, SeqEqual
<1> QED
  BY <1>2, <1>6

LEMMA TailIs ==
  ASSUME NEW S, NEW s \in Seq(S), s # <<>>
  PROVE  /\ Tail(s) \in Seq(S)
         /\ Len(s) \in Nat /\ 1 <= Len(s) /\ Len(Tail(s)) = Len(s) - 1
         /\ Head(s) = s[1] /\ Head(s) \in S
         /\ \A i \in 1..Len(Tail(s)) : Tail(s)[i] = s[i + 1] /\ i + 1 \in 1..Len(s)
<1>1. /\ Head(s) \in S /\ Tail(s) \in Seq(S) /\ Len(Tail(s)) = Len(s) - 1
      /\ \A i \in 1..Len(Tail(s)) : Tail(s)[i] = s[i + 1]
  BY HeadTailProperties
<1>2. Len(s) \in Nat \ {0}
  BY EmptySeq
<1>3. \A n \in Nat \ {0} : n \in Nat /\ 1 <= n /\ \A i \in 1..(n - 1) : i + 1 \in 1..n
  OBVIOUS
<1>4. Head(s) = s[1]
  OBVIOUS
<1> QED
  BY <1>1, <1>2, <1>3, <1>4

LEMMA ElementsAre ==
  ASSUME NEW S, NEW s \in Seq(S)
  PROVE  Len(s) \in Nat /\ \A k \in 1..Len(s) : s[k] \in S
BY LenProperties, ElementOfSeq

-----------------------------------------------------------------------------
(* What fits goes on to fit, and what is made from it does.                *)
LEMMA LaterChunkFits ==
  ASSUME NEW h \in Nat, NEW h2 \in Nat, h <= h2, NEW t \in Nat, NEW t2 \in Nat, t <= t2,
         NEW c, ChunkFits(c, h, t)
  PROVE  ChunkFits(c, h2, t2)
<1>1. c.sec \in Int /\ c.cp \in Nat
  BY Sizes DEF ChunkFits, Chunks, None
<1> QED
  BY <1>1 DEF ChunkFits

LEMMA NoChunkFits ==
  ASSUME NEW h \in Nat, NEW t \in Nat
  PROVE  ChunkFits(NoChunk, h, t)
<1>1. -1 \in -1..LastSecond
  BY Sizes
<1>2. NoChunk \in Chunks
  BY <1>1, CountsAre DEF NoChunk, Chunks, None
<1>3. NoChunk.sec <= t /\ NoChunk.cp <= h
  BY DEF NoChunk, None
<1>4. \A id \in Ids : ~(NoChunk.trades[id] > 0)
  BY CountsAre DEF NoChunk
<1> QED
  BY <1>2, <1>3, <1>4 DEF ChunkFits

LEMMA LaterJobFits ==
  ASSUME NEW h \in Nat, NEW h2 \in Nat, h <= h2, NEW j, JobFits(j, h)
  PROVE  JobFits(j, h2)
<1>1. j.cp \in Nat
  BY DEF JobFits, Jobs
<1> QED
  BY <1>1 DEF JobFits

LEMMA LaterQueueFits ==
  ASSUME NEW h \in Nat, NEW h2 \in Nat, h <= h2, NEW q, QueueFits(q, h)
  PROVE  QueueFits(q, h2)
BY LaterJobFits DEF QueueFits

LEMMA JobOfFits ==
  ASSUME NEW h, NEW t \in 0..LastSecond, NEW c, ChunkFits(c, h, t), c.sec # None
  PROVE  JobFits(JobOf(c), h)
<1>1. c.sec \in 0..LastSecond /\ c.trades \in Counts /\ c.n \in Nat /\ c.cp \in Nat
  <2>1. \A x \in -1..LastSecond : x # -1 => x \in 0..LastSecond
    BY Sizes
  <2> QED
    BY <2>1 DEF ChunkFits, Chunks, None
<1>2. Minute(c.sec) \in Minutes
  BY <1>1, MinutesAre
<1>3. Minute(c.sec) \in 0..Minute(LastSecond) + 1
  BY <1>2, MinutesAre
<1>4. JobOf(c) \in Jobs
  BY <1>1, <1>2, <1>3 DEF JobOf, Jobs
<1>5. JobOf(c).cp = c.cp /\ JobOf(c).trades = c.trades /\ JobOf(c).into = Minute(c.sec)
  BY DEF JobOf
<1>6. \A id \in Ids : c.trades[id] > 0 => Minute(c.sec) = MinuteOf(id)
  BY DEF ChunkFits, MinuteOf
<1> QED
  BY <1>4, <1>5, <1>6 DEF JobFits, ChunkFits

LEMMA JobOfBarFits ==
  ASSUME NEW h \in Nat, NEW m \in Minutes
  PROVE  JobFits(JobOfBar(m), h)
<1>1. m + 1 \in 0..Minute(LastSecond) + 1
  BY MinutesAre
<1>2. JobOfBar(m) \in Jobs
  BY <1>1, CountsAre DEF JobOfBar, Jobs
<1>3. JobOfBar(m).cp = 0 /\ JobOfBar(m).trades = NoTrades
  BY DEF JobOfBar
<1> QED
  BY <1>2, <1>3, CountsAre DEF JobFits

(* Enqueueing leaves the queue alone or puts one job at its end.           *)
Queued(jobs, j) ==
    /\ jobs = <<j>> /\ Len(queue) < Capacity
    /\ queue' = Append(queue, j)

LEMMA EnqueueIs ==
  ASSUME NEW h \in Nat, QueueFits(queue, h), NEW jobs, Enqueue(jobs),
         NEW j, jobs = <<>> \/ (jobs = <<j>> /\ JobFits(j, h))
  PROVE  /\ QueueFits(queue', h)
         /\ (jobs = <<>> /\ queue' = queue) \/ Queued(jobs, j)
<1>1. queue \in Seq(Jobs) /\ Len(queue) \in Nat
  BY ElementsAre DEF QueueFits
<1>2. CASE jobs = <<>>
  <2>1. queue' = queue
    BY <1>1, <1>2, ConcatEmptySeq DEF Enqueue
  <2> QED
    BY <2>1, <1>2
<1>3. CASE jobs = <<j>> /\ JobFits(j, h)
  <2>1. j \in Jobs /\ Len(<<j>>) = 1
    BY <1>3 DEF JobFits
  <2>2. /\ queue' = Append(queue, j) /\ Append(queue, j) \in Seq(Jobs)
        /\ Len(Append(queue, j)) = Len(queue) + 1
        /\ \A i \in 1..Len(queue) : Append(queue, j)[i] = queue[i]
        /\ Append(queue, j)[Len(queue) + 1] = j
    BY <2>1, <1>1, <1>3, AppendIs DEF Enqueue
  <2>3. Len(queue) + 1 <= Capacity /\ Len(queue) < Capacity
    BY <2>1, <1>1, <1>3, Sizes DEF Enqueue
  <2>4. ASSUME NEW k \in 1..Len(queue) + 1 PROVE JobFits(Append(queue, j)[k], h)
    <3>1. k \in 1..Len(queue) \/ k = Len(queue) + 1
      BY <1>1
    <3> QED
      BY <3>1, <2>2, <1>3 DEF QueueFits
  <2>5. QueueFits(Append(queue, j), h)
    BY <2>2, <2>3, <2>4 DEF QueueFits
  <2> QED
    BY <2>2, <2>3, <2>5, <1>3 DEF Queued
<1> QED
  BY <1>2, <1>3

LEMMA TailFits ==
  ASSUME NEW h \in Nat, NEW q, q # <<>>, QueueFits(q, h)
  PROVE  QueueFits(Tail(q), h) /\ JobFits(Head(q), h)
<1>1. /\ Tail(q) \in Seq(Jobs) /\ Len(q) \in Nat /\ 1 <= Len(q) /\ Len(Tail(q)) = Len(q) - 1
      /\ Head(q) = q[1]
      /\ \A i \in 1..Len(Tail(q)) : Tail(q)[i] = q[i + 1] /\ i + 1 \in 1..Len(q)
  BY TailIs DEF QueueFits
<1>2. Len(Tail(q)) <= Capacity
  BY <1>1, Sizes DEF QueueFits
<1>3. 1 \in 1..Len(q)
  BY <1>1
<1> QED
  BY <1>1, <1>2, <1>3 DEF QueueFits

-----------------------------------------------------------------------------
(* Every step keeps the state in shape: one lemma per action.              *)
LEMMA NumbersAre ==
  ASSUME Sound
  PROVE  /\ now \in Nat /\ head \in Nat /\ Len(Times) \in Nat /\ session.seen \in Nat
         /\ session.seen <= head /\ head <= Len(Times) /\ now <= LastSecond
         /\ session.bar \in Int /\ left.until \in Nat /\ left.until <= LastSecond
         /\ Minute(now) \in Minutes /\ Minute(now) \in Nat
<1>1. now \in 0..LastSecond /\ head \in 0..Len(Times) /\ session.seen \in 0..head
      /\ session.bar \in None..Minute(LastSecond) /\ left.until \in 0..LastSecond
  BY DEF Sound, Sessions, Budgets
<1>2. Minute(now) \in Minutes /\ Minute(now) \in Nat
  BY <1>1, MinutesAre
<1>3. session.bar \in Int
  BY <1>1, MinutesAre DEF None
<1> QED
  BY <1>1, <1>2, <1>3, Sizes

LEMMA Later ==
  ASSUME Sound, NEW h \in Nat, head <= h, NEW t \in Nat, now <= t
  PROVE  /\ session \in Sessions(h) /\ ChunkFits(chunk, h, t) /\ ChunkFits(preChunk, h, t)
         /\ GapFits(gap, session.seen, h) /\ SyncFits(sync, h) /\ pre \in Seq(1..h)
         /\ QueueFits(queue, h) /\ WorkerFits(worker, h)
         /\ cps \in [buffer : 0..h, saved : 0..h]
         /\ WireFits(wire, session.seen, h)
<1>1. head \in Nat /\ now \in Nat /\ \A i \in 0..head : i \in 0..h
  BY NumbersAre
<1>2. session \in Sessions(h) /\ cps \in [buffer : 0..h, saved : 0..h]
  BY <1>1 DEF Sound, Sessions
<1>3. ChunkFits(chunk, h, t) /\ ChunkFits(preChunk, h, t)
  BY <1>1, LaterChunkFits DEF Sound
<1>4. SyncFits(gap, h) /\ SyncFits(sync, h)
  <2>1. ASSUME NEW r, SyncFits(r, head) PROVE SyncFits(r, h)
    <3>1. r.page \in Nat
      BY <2>1 DEF SyncFits, Replays
    <3>2. r.page <= head => r.page <= h
      BY <3>1, <1>1
    <3> QED
      BY <3>2, <2>1 DEF SyncFits, PageExists
  <2> QED
    BY <2>1 DEF Sound, GapFits
<1>5. GapFits(gap, session.seen, h)
  BY <1>4 DEF Sound, GapFits
<1>6. pre \in Seq(1..h)
  <2>1. 1..head \subseteq 1..h /\ pre \in Seq(1..head)
    BY <1>1 DEF Sound
  <2> QED
    BY <2>1, SeqMonotonic
<1>7. QueueFits(queue, h)
  BY <1>1, LaterQueueFits DEF Sound
<1>8. WorkerFits(worker, h)
  <2>1. worker.cp \in Nat
    BY DEF Sound, WorkerFits
  <2>2. worker.cp <= head => worker.cp <= h
    BY <2>1, <1>1
  <2> QED
    BY <2>2 DEF Sound, WorkerFits
<1>9. WireFits(wire, session.seen, h)
  <2>1. \A k \in 1..Len(wire) : wire[k] \in Messages
    BY ElementsAre DEF Sound, WireFits
  <2>2. \A k \in 1..Len(wire) : wire[k].n \in Nat
    BY <2>1 DEF Messages
  <2>3. \A k \in 1..Len(wire) : wire[k].n <= head => wire[k].n <= h
    BY <2>2, <1>1
  <2> QED
    BY <2>3 DEF Sound, WireFits
<1> QED
  BY <1>2, <1>3, <1>4, <1>5, <1>6, <1>7, <1>8, <1>9

(* A message at the end of the wire.                                       *)
LEMMA SentFits ==
  ASSUME NEW h \in Nat, NEW seen \in Nat, NEW w, WireFits(w, seen, h),
         NEW msg \in Messages, msg.kind = "bar" => msg.n \in Minutes,
         NEW h2 \in Nat, h <= h2,
         msg.kind = "trade" => seen < msg.n /\ h < msg.n /\ msg.n <= h2
  PROVE  WireFits(Append(w, msg), seen, h2)
<1>1. /\ Append(w, msg) \in Seq(Messages)
      /\ Len(w) \in Nat /\ Len(Append(w, msg)) = Len(w) + 1
      /\ \A i \in 1..Len(w) : Append(w, msg)[i] = w[i]
      /\ Append(w, msg)[Len(w) + 1] = msg
  BY AppendIs DEF WireFits
<1>2. \A k \in 1..Len(w) : w[k].n \in Nat
  <2>1. \A k \in 1..Len(w) : w[k] \in Messages
    BY ElementsAre DEF WireFits
  <2> QED
    BY <2>1 DEF Messages
<1>3. msg.n \in Nat
  BY DEF Messages
<1>4. \A k \in 1..Len(w) + 1 : (k \in 1..Len(w) \/ k = Len(w) + 1) /\ \A i \in 1..(k - 1) : i \in 1..Len(w)
  BY <1>1
<1>5. ASSUME NEW k \in 1..Len(w)
      PROVE  /\ w[k].kind = "bar" => w[k].n \in Minutes
             /\ w[k].kind = "trade" => /\ seen < w[k].n /\ w[k].n <= h2 /\ w[k].n <= h
                                       /\ \A i \in 1..(k - 1) : w[i].kind = "trade" => w[i].n < w[k].n
  BY <1>2 DEF WireFits
<1>6. ASSUME NEW k \in 1..Len(w) + 1
      PROVE  /\ Append(w, msg)[k].kind = "bar" => Append(w, msg)[k].n \in Minutes
             /\ Append(w, msg)[k].kind = "trade" =>
                    /\ seen < Append(w, msg)[k].n /\ Append(w, msg)[k].n <= h2
                    /\ \A i \in 1..(k - 1) : Append(w, msg)[i].kind = "trade" =>
                           Append(w, msg)[i].n < Append(w, msg)[k].n
  <2>1. CASE k \in 1..Len(w)
    BY <2>1, <1>1, <1>4, <1>5
  <2>2. CASE k = Len(w) + 1
    <3>1. \A i \in 1..(k - 1) : i \in 1..Len(w) /\ Append(w, msg)[i] = w[i]
      BY <1>1, <1>4
    <3>2. ASSUME msg.kind = "trade", NEW i \in 1..Len(w), w[i].kind = "trade" PROVE w[i].n < msg.n
      BY <3>2, <1>5, <1>2, <1>3
    <3> QED
      BY <2>2, <3>1, <3>2, <1>1
  <2> QED
    BY <2>1, <2>2, <1>4
<1> QED
  BY <1>1, <1>6 DEF WireFits

LEMMA TradeSound ==
  ASSUME Sound, Trade
  PROVE  Sound'
<1> DEFINE h == head + 1
<1>1. /\ head' = h
      /\ wire' = wire \/ wire' = Append(wire, [kind |-> "trade", n |-> h])
      /\ head < left.trades /\ Times[h] = now
      /\ UNCHANGED <<now, session, chunk, gap, sync, bars, lane, hist, left>>
  BY DEF Trade
<1>2. h \in Nat /\ head <= h /\ head < h /\ session.seen < h /\ h \in 0..Len(Times)
      /\ \A i \in 1..h : i \in 1..head \/ i = h
  <2>1. left.trades \in 0..Len(Times)
    BY DEF Sound, Budgets
  <2> QED
    BY <1>1, <2>1, NumbersAre
<1>3. \A i \in 1..h : Times[i] <= now
  <2>1. now <= now
    BY NumbersAre
  <2> QED
    BY <1>1, <1>2, <2>1 DEF Sound
<1> HIDE DEF h
<1>4. /\ session \in Sessions(h) /\ ChunkFits(chunk, h, now) /\ ChunkFits(preChunk, h, now)
      /\ GapFits(gap, session.seen, h) /\ SyncFits(sync, h) /\ pre \in Seq(1..h)
      /\ QueueFits(queue, h) /\ WorkerFits(worker, h)
      /\ cps \in [buffer : 0..h, saved : 0..h]
      /\ WireFits(wire, session.seen, h)
  <2>1. now \in Nat /\ now <= now
    BY NumbersAre
  <2> QED
    BY <1>2, <2>1, Later
<1>5. WireFits(wire', session.seen, h)
  <2>1. WireFits(Append(wire, [kind |-> "trade", n |-> h]), session.seen, h)
    <3>1. [kind |-> "trade", n |-> h] \in Messages /\ [kind |-> "trade", n |-> h].n = h
          /\ [kind |-> "trade", n |-> h].kind = "trade" /\ h <= h
      BY <1>2 DEF Messages
    <3> HIDE DEF h
    <3>2. WireFits(wire, session.seen, head) /\ head \in Nat /\ session.seen \in Nat
      BY NumbersAre DEF Sound
    <3> DEFINE msg == [kind |-> "trade", n |-> h]
    <3>3. msg \in Messages /\ msg.n = h /\ msg.kind = "trade"
      BY <3>1
    <3> HIDE DEF msg
    <3>4. WireFits(Append(wire, msg), session.seen, h)
      BY <3>1, <3>2, <3>3, <1>2, SentFits
    <3> QED
      BY <3>4 DEF msg
  <2> QED
    BY <2>1, <1>1, <1>4
<1> QED
  BY <1>1, <1>2, <1>3, <1>4, <1>5 DEF Sound, lane

LEMMA TickSound ==
  ASSUME Sound, Tick
  PROVE  Sound'
<1> DEFINE t == now + 1
<1>1. /\ now' = t /\ now < left.until
      /\ wire' = wire \/ wire' = Append(wire, [kind |-> "bar", n |-> Minute(now)])
      /\ UNCHANGED <<head, session, chunk, gap, sync, bars, lane, hist, left>>
  BY DEF Tick
<1>2. t \in Nat /\ now <= t /\ t \in 0..LastSecond /\ t <= left.until
  BY <1>1, NumbersAre, Sizes
<1>3. \A i \in 1..head : Times[i] <= t
  <2>1. \A i \in 1..head : Times[i] \in Nat
    BY IdsAre DEF Sound
  <2> QED
    BY <2>1, <1>2, NumbersAre DEF Sound
<1> HIDE DEF t
<1>4. head \in Nat /\ head <= head /\ session.seen \in Nat
  BY NumbersAre
<1>5. /\ session \in Sessions(head) /\ ChunkFits(chunk, head, t) /\ ChunkFits(preChunk, head, t)
      /\ GapFits(gap, session.seen, head) /\ SyncFits(sync, head) /\ pre \in Seq(1..head)
      /\ QueueFits(queue, head) /\ WorkerFits(worker, head)
      /\ cps \in [buffer : 0..head, saved : 0..head]
      /\ WireFits(wire, session.seen, head)
  BY <1>2, <1>4, Later
<1>6. WireFits(Append(wire, [kind |-> "bar", n |-> Minute(now)]), session.seen, head)
  <2> DEFINE msg == [kind |-> "bar", n |-> Minute(now)]
  <2>1. msg \in Messages /\ msg.n \in Minutes /\ msg.kind = "bar"
    BY NumbersAre DEF Messages
  <2> HIDE DEF msg
  <2>2. WireFits(Append(wire, msg), session.seen, head)
    BY <2>1, <1>4, <1>5, SentFits
  <2> QED
    BY <2>2 DEF msg
<1>7. WireFits(wire', session.seen, head)
  BY <1>1, <1>5, <1>6
<1> QED
  BY <1>1, <1>2, <1>3, <1>4, <1>5, <1>7 DEF Sound, lane

LEMMA SessionMoves ==
  ASSUME NEW h \in Nat, NEW s \in Sessions(h), NEW u \in BOOLEAN, NEW a \in BOOLEAN
  PROVE  /\ [s EXCEPT !.up = u, !.attempt = a] \in Sessions(h)
         /\ [s EXCEPT !.attempt = a] \in Sessions(h)
         /\ [s EXCEPT !.up = u, !.attempt = a].seen = s.seen
         /\ [s EXCEPT !.attempt = a].seen = s.seen
BY DEF Sessions

LEMMA BarsAre ==
  ASSUME NEW b, BarsFit(b), NEW w \in {"gap", "sync"}, NEW r \in Seq(BarReplays),
         \A k \in 1..Len(r) : r[k].next <= r[k].end
  PROVE  BarsFit([b EXCEPT ![w] = r])
<1> DEFINE c == [b EXCEPT ![w] = r]
<1>1. b \in [gap : Seq(BarReplays), sync : Seq(BarReplays)]
  BY DEF BarsFit
<1>2. c \in [gap : Seq(BarReplays), sync : Seq(BarReplays)]
  BY <1>1
<1>3. \A v \in {"gap", "sync"} : c[v] = IF v = w THEN r ELSE b[v]
  BY <1>1
<1> HIDE DEF c
<1>4. BarsFit(c)
  BY <1>2, <1>3 DEF BarsFit
<1> QED
  BY <1>4 DEF c

LEMMA SyncBarsFit ==
  ASSUME Sound, NEW bar \in None..Minute(LastSecond)
  PROVE  BarsFit([bars EXCEPT !.sync = SyncBars(bar)])
<1> DEFINE r == SyncBars(bar)
<1>1. r \in Seq(BarReplays) /\ \A k \in 1..Len(r) : r[k].next <= r[k].end
  <2>1. CASE r = <<>>
    BY <2>1
  <2>2. CASE r # <<>>
    <3> DEFINE e == [next |-> bar + 1, end |-> Minute(now) - 1, fetched |-> FALSE]
    <3>1. r = <<e>> /\ bar # None /\ ~(bar + 1 >= Minute(now) - 1)
      BY <2>2 DEF SyncBars
    <3>2. bar \in 0..Minute(LastSecond)
      BY <3>1, MinutesAre DEF None
    <3>3. bar + 1 \in Minutes /\ Minute(now) - 1 \in Minutes /\ bar + 1 <= Minute(now) - 1
      <4>1. Minute(now) \in 0..Minute(LastSecond)
        BY NumbersAre DEF Minutes
      <4>2. \A x, y \in Nat, z \in Nat : x <= z /\ y <= z /\ ~(x + 1 >= y - 1) =>
              x + 1 \in 0..z /\ y - 1 \in 0..z /\ x + 1 <= y - 1
        OBVIOUS
      <4> QED
        BY <4>1, <4>2, <3>1, <3>2, MinutesAre DEF Minutes
    <3>4. e \in BarReplays /\ e.next <= e.end
      BY <3>3 DEF BarReplays
    <3> HIDE DEF e
    <3>5. <<e>> \in Seq(BarReplays) /\ \A k \in 1..Len(<<e>>) : <<e>>[k] = e
      BY <3>4
    <3> QED
      BY <3>1, <3>4, <3>5
  <2> QED
    BY <2>1, <2>2
<1>2. BarsFit(bars)
  BY DEF Sound
<1> HIDE DEF r
<1>3. BarsFit([bars EXCEPT !["sync"] = r])
  BY <1>1, <1>2, BarsAre
<1> QED
  BY <1>3 DEF r

LEMMA ConnectSound ==
  ASSUME Sound, Connect
  PROVE  Sound'
<1>1. /\ session' = [session EXCEPT !.up = TRUE, !.attempt = FALSE]
      /\ UNCHANGED <<now, head, wire, chunk, gap, lane, hist, left>>
  BY DEF Connect
<1>2. session' \in Sessions(head) /\ session'.seen = session.seen
  <2>1. session \in Sessions(head) /\ head \in Nat
    BY NumbersAre DEF Sound
  <2> QED
    BY <2>1, <1>1, SessionMoves
<1>3. sync' = sync \/ sync' = [NoReplay EXCEPT !.stage = "fetch", !.next = session.seen + 1,
                                               !.bar = session.bar]
  BY DEF Connect
<1>4. SyncFits(sync', head)
  <2>1. CASE sync' = sync
    BY <2>1 DEF Sound
  <2>2. CASE sync' = [NoReplay EXCEPT !.stage = "fetch", !.next = session.seen + 1,
                                      !.bar = session.bar]
    <3>1. session.seen + 1 \in Nat /\ 1 <= session.seen + 1
      BY NumbersAre
    <3>2. session.bar \in None..Minute(LastSecond)
      BY DEF Sound, Sessions
    <3>3. \A n \in Nat, b \in None..Minute(LastSecond) : 1 <= n =>
             SyncFits([NoReplay EXCEPT !.stage = "fetch", !.next = n, !.bar = b], head)
      BY DEF SyncFits, PageExists, NoReplay, Replays
    <3> QED
      BY <2>2, <3>1, <3>2, <3>3
  <2> QED
    BY <1>3, <2>1, <2>2
<1>5. bars' = bars \/ bars' = [bars EXCEPT !.sync = SyncBars(session.bar)]
  BY DEF Connect
<1>6. BarsFit(bars')
  <2>1. session.bar \in None..Minute(LastSecond) /\ BarsFit(bars)
    BY DEF Sound, Sessions
  <2> QED
    BY <2>1, <1>5, SyncBarsFit
<1> QED
  BY <1>1, <1>2, <1>4, <1>6 DEF Sound, lane

LEMMA SpendFits ==
  ASSUME NEW b \in Budgets
  PROVE  /\ b.drops > 0 => [b EXCEPT !.drops = @ - 1] \in Budgets /\ [b EXCEPT !.drops = @ - 1].until = b.until
         /\ b.rest > 0 => [b EXCEPT !.rest = @ - 1] \in Budgets /\ [b EXCEPT !.rest = @ - 1].until = b.until
         /\ b.db > 0 => [b EXCEPT !.db = @ - 1] \in Budgets /\ [b EXCEPT !.db = @ - 1].until = b.until
         /\ b.restarts > 0 => /\ [b EXCEPT !.restarts = @ - 1] \in Budgets
                              /\ [b EXCEPT !.restarts = @ - 1].until = b.until
<1>1. \A n \in Nat : n > 0 => n - 1 \in Nat
  OBVIOUS
<1> QED
  BY <1>1 DEF Budgets

LEMMA ConnectFailsSound ==
  ASSUME Sound, ConnectFails
  PROVE  Sound'
<1>1. /\ session' = [session EXCEPT !.attempt = TRUE]
      /\ left.drops > 0 /\ left' = [left EXCEPT !.drops = @ - 1]
      /\ UNCHANGED <<now, head, wire, chunk, gap, sync, bars, lane, hist>>
  BY DEF ConnectFails
<1>2. session' \in Sessions(head) /\ session'.seen = session.seen
  <2>1. session \in Sessions(head) /\ head \in Nat
    BY NumbersAre DEF Sound
  <2> QED
    BY <2>1, <1>1, SessionMoves
<1>3. left' \in Budgets /\ left'.until = left.until
  BY <1>1, SpendFits DEF Sound
<1> QED
  BY <1>1, <1>2, <1>3 DEF Sound, lane

LEMMA EmptyWireFits == \A seen, h : WireFits(<<>>, seen, h)
<1>1. <<>> \in Seq(Messages) /\ Len(<<>>) = 0
  OBVIOUS
<1> QED
  BY <1>1 DEF WireFits

(* The chunk of the websocket loop, or of the prebatch worker, is queued.  *)
LEMMA ChunkIsQueued ==
  ASSUME Sound, NEW c \in {chunk, preChunk}, c.sec # None, Enqueue(<<JobOf(c)>>)
  PROVE  QueueFits(queue', head) /\ Queued(<<JobOf(c)>>, JobOf(c))
<1>1. head \in Nat /\ QueueFits(queue, head) /\ now \in 0..LastSecond
  BY NumbersAre DEF Sound
<1>2. JobFits(JobOf(c), head)
  BY <1>1, JobOfFits DEF Sound
<1>3. <<JobOf(c)>> # <<>>
  OBVIOUS
<1> QED
  BY <1>1, <1>2, <1>3, EnqueueIs

LEMMA NothingIsQueued ==
  ASSUME Sound, Enqueue(<<>>)
  PROVE  queue' = queue
BY ConcatEmptySeq DEF Sound, QueueFits, Enqueue

LEMMA DropSound ==
  ASSUME Sound, Drop
  PROVE  Sound'
<1>1. /\ session' = [session EXCEPT !.up = FALSE, !.attempt = TRUE]
      /\ wire' = <<>> /\ chunk' = NoChunk
      /\ left.drops > 0 /\ left' = [left EXCEPT !.drops = @ - 1]
      /\ UNCHANGED <<now, head, gap, sync, bars, pre, preChunk, agg, worker, rows, cps, hist>>
  BY DEF Drop
<1>2. session' \in Sessions(head) /\ session'.seen = session.seen
  <2>1. session \in Sessions(head) /\ head \in Nat
    BY NumbersAre DEF Sound
  <2> QED
    BY <2>1, <1>1, SessionMoves
<1>3. left' \in Budgets /\ left'.until = left.until
  BY <1>1, SpendFits DEF Sound
<1>4. QueueFits(queue', head)
  <2>1. CASE chunk.sec = None
    BY <2>1, NothingIsQueued DEF Drop, Sound
  <2>2. CASE chunk.sec # None
    BY <2>2, ChunkIsQueued DEF Drop
  <2> QED
    BY <2>1, <2>2
<1>5. WireFits(<<>>, session.seen, head) /\ ChunkFits(NoChunk, head, now)
  BY EmptyWireFits, NoChunkFits, NumbersAre
<1> QED
  BY <1>1, <1>2, <1>3, <1>4, <1>5 DEF Sound

LEMMA FlushExpiredSound ==
  ASSUME Sound, FlushExpired
  PROVE  Sound'
<1>1. /\ chunk' = NoChunk
      /\ UNCHANGED <<now, head, wire, session, gap, sync, bars, pre, preChunk, agg,
                     worker, rows, cps, hist, left>>
  BY DEF FlushExpired
<1>2. QueueFits(queue', head)
  BY ChunkIsQueued DEF FlushExpired
<1>3. ChunkFits(NoChunk, head, now)
  BY NoChunkFits, NumbersAre
<1> QED
  BY <1>1, <1>2, <1>3 DEF Sound

LEMMA PrebatchTickSound ==
  ASSUME Sound, PrebatchTick
  PROVE  Sound'
<1>1. /\ preChunk' = NoChunk
      /\ UNCHANGED <<now, head, feed, gap, sync, bars, pre, agg, worker, rows, cps,
                     hist, left>>
  BY DEF PrebatchTick
<1>2. QueueFits(queue', head)
  BY ChunkIsQueued DEF PrebatchTick
<1>3. ChunkFits(NoChunk, head, now)
  BY NoChunkFits, NumbersAre
<1> QED
  BY <1>1, <1>2, <1>3 DEF Sound, feed

(* What is at the head of the wire, and what is left behind it.            *)
LEMMA WireHead ==
  ASSUME NEW h \in Nat, NEW seen \in Nat, NEW w, WireFits(w, seen, h), w # <<>>
  PROVE  /\ Head(w) \in Messages
         /\ Head(w).kind = "bar" => Head(w).n \in Minutes
         /\ Head(w).kind = "trade" => seen < Head(w).n /\ Head(w).n <= h
         /\ WireFits(Tail(w), seen, h)
         /\ Head(w).kind = "trade" => WireFits(Tail(w), Head(w).n, h)
<1>1. /\ Tail(w) \in Seq(Messages) /\ Len(w) \in Nat /\ 1 <= Len(w)
      /\ Len(Tail(w)) = Len(w) - 1 /\ Head(w) = w[1] /\ Head(w) \in Messages
      /\ \A i \in 1..Len(Tail(w)) : Tail(w)[i] = w[i + 1] /\ i + 1 \in 1..Len(w)
  BY TailIs DEF WireFits
<1>2. 1 \in 1..Len(w)
  BY <1>1
<1>3. ASSUME NEW k \in 1..Len(w)
      PROVE  /\ w[k].kind = "bar" => w[k].n \in Minutes
             /\ w[k].kind = "trade" => /\ seen < w[k].n /\ w[k].n <= h
                                       /\ \A i \in 1..(k - 1) : w[i].kind = "trade" => w[i].n < w[k].n
  BY DEF WireFits
<1>4. \A k \in 1..Len(Tail(w)) : /\ 1 \in 1..((k + 1) - 1)
                                 /\ \A i \in 1..(k - 1) : i + 1 \in 1..((k + 1) - 1) /\ i \in 1..Len(Tail(w))
  BY <1>1
<1>5. ASSUME NEW k \in 1..Len(Tail(w))
      PROVE  /\ Tail(w)[k].kind = "bar" => Tail(w)[k].n \in Minutes
             /\ Tail(w)[k].kind = "trade" =>
                    /\ seen < Tail(w)[k].n /\ Tail(w)[k].n <= h
                    /\ \A i \in 1..(k - 1) : Tail(w)[i].kind = "trade" => Tail(w)[i].n < Tail(w)[k].n
                    /\ w[1].kind = "trade" => w[1].n < Tail(w)[k].n
  BY <1>1, <1>3, <1>4
<1>6. WireFits(Tail(w), seen, h)
  BY <1>1, <1>5 DEF WireFits
<1>7. ASSUME Head(w).kind = "trade" PROVE WireFits(Tail(w), Head(w).n, h)
  BY <1>1, <1>5, <1>7 DEF WireFits
<1> QED
  BY <1>1, <1>2, <1>3, <1>6, <1>7

LEMMA SeenMoves ==
  ASSUME NEW h \in Nat, NEW s \in Sessions(h), NEW id \in 0..h
  PROVE  /\ [s EXCEPT !.seen = Larger(@, id)] \in Sessions(h)
         /\ [s EXCEPT !.seen = Larger(@, id)].seen = Larger(s.seen, id)
         /\ [s EXCEPT !.seen = Larger(@, id)].up = s.up
<1>1. s.seen \in 0..h
  BY DEF Sessions
<1>2. Larger(s.seen, id) \in 0..h
  BY <1>1 DEF Larger
<1> QED
  BY <1>2 DEF Sessions

(* The detector at a trade of the wire.                                    *)
LEMMA DetectorMoves ==
  ASSUME Sound, NEW id \in Nat, session.seen < id, id <= head, HandleTradeGap(id)
  PROVE  /\ session' \in Sessions(head) /\ session'.seen = id
         /\ session'.up = session.up
         /\ GapFits(gap', id, head)
         /\ hist' \in Pasts
         /\ hist'.again = hist.again /\ hist'.ref = hist.ref
         /\ hist'.since = IF hist.since = 0 THEN id ELSE hist.since
         /\ hist'.lost = IF GapBefore(id) /\ gap.stage # "none"
                         THEN hist.lost \cup (session.seen + 1)..(id - 1) ELSE hist.lost
         /\ gap' = IF GapBefore(id) /\ gap.stage = "none"
                   THEN [NoReplay EXCEPT !.stage = "fetch", !.next = session.seen + 1, !.to = id - 1]
                   ELSE gap
<1>1. head \in Nat /\ session \in Sessions(head) /\ id \in 0..head /\ session.seen \in Nat
      /\ head <= Len(Times) /\ Len(Times) \in Nat
  BY NumbersAre DEF Sound
<1>2. Larger(session.seen, id) = id
  BY <1>1 DEF Larger
<1>3. session' \in Sessions(head) /\ session'.seen = id /\ session'.up = session.up
  BY <1>1, <1>2, SeenMoves DEF HandleTradeGap
<1>4. gap' = IF GapBefore(id) /\ gap.stage = "none"
             THEN [NoReplay EXCEPT !.stage = "fetch", !.next = session.seen + 1, !.to = id - 1]
             ELSE gap
  BY DEF HandleTradeGap
<1>5. GapFits(gap', id, head)
  <2>1. CASE GapBefore(id) /\ gap.stage = "none"
    <3>1. /\ session.seen + 1 \in Nat /\ 1 <= session.seen + 1 /\ id - 1 \in Nat
          /\ session.seen + 1 <= id - 1 /\ id - 1 <= id
      BY <2>1, <1>1 DEF GapBefore
    <3>2. \A a, b \in Nat : (1 <= a /\ a <= b /\ b <= id) =>
             GapFits([NoReplay EXCEPT !.stage = "fetch", !.next = a, !.to = b], id, head)
      <4>1. None \in None..Minute(LastSecond)
        BY MinutesAre DEF None
      <4> QED
        BY <4>1 DEF GapFits, SyncFits, PageExists, NoReplay, Replays
    <3> QED
      BY <3>1, <3>2, <2>1, <1>4
  <2>2. CASE ~(GapBefore(id) /\ gap.stage = "none")
    <3>1. gap' = gap
      BY <2>2, <1>4
    <3>2. gap.to \in Nat
      BY DEF Sound, GapFits, SyncFits, Replays
    <3>3. gap.to <= session.seen => gap.to <= id
      BY <3>2, <1>1
    <3> QED
      BY <3>1, <3>3 DEF Sound, GapFits
  <2> QED
    BY <2>1, <2>2
<1> DEFINE s == IF hist.since = 0 THEN id ELSE hist.since
           l == IF GapBefore(id) /\ gap.stage # "none"
                THEN hist.lost \cup (session.seen + 1)..(id - 1) ELSE hist.lost
<1>6. hist' = [hist EXCEPT !.since = s, !.lost = l]
  BY DEF HandleTradeGap
<1>7. s \in Nat /\ l \in SUBSET Ids
  <2>1. (session.seen + 1)..(id - 1) \subseteq Ids
    BY <1>1 DEF Ids
  <2> QED
    BY <2>1 DEF Sound, Pasts
<1> HIDE DEF s, l
<1>8. /\ hist' \in Pasts /\ hist'.again = hist.again /\ hist'.ref = hist.ref
      /\ hist'.since = s /\ hist'.lost = l
  <2>1. hist \in Pasts
    BY DEF Sound
  <2> QED
    BY <2>1, <1>6, <1>7 DEF Pasts
<1> QED
  BY <1>3, <1>4, <1>5, <1>8 DEF s, l

LEMMA ReceiveTradeIs ==
  ASSUME Sound, ReceiveTrade
  PROVE  \E id \in Ids :
             /\ session.seen < id /\ id <= head /\ HandleTradeGap(id)
             /\ WireFits(wire', id, head)
             /\ \/ queue' = queue /\ chunk.sec \in {None, Times[id]}
                \/ /\ chunk.sec # None /\ chunk.sec # Times[id]
                   /\ QueueFits(queue', head) /\ Queued(<<JobOf(chunk)>>, JobOf(chunk))
             /\ chunk' = [sec |-> Times[id], n |-> 1, cp |-> 0,
                          trades |-> Plus(IF chunk.sec = Times[id] THEN chunk.trades
                                          ELSE NoTrades, One(id))]
<1> DEFINE id == Head(wire).n
<1>1. head \in Nat /\ session.seen \in Nat /\ head <= Len(Times) /\ Len(Times) \in Nat
      /\ WireFits(wire, session.seen, head)
  BY NumbersAre DEF Sound
<1>2. wire # <<>> /\ Head(wire).kind = "trade" /\ wire' = Tail(wire)
  BY DEF ReceiveTrade
<1>3. session.seen < id /\ id <= head /\ id \in Nat /\ WireFits(wire', id, head)
  <2>1. Head(wire) \in Messages /\ session.seen < id /\ id <= head /\ WireFits(Tail(wire), id, head)
    BY <1>1, <1>2, WireHead
  <2> QED
    BY <2>1, <1>2 DEF Messages
<1>4. id \in Ids
  <2>1. \A x \in Nat : (session.seen < x /\ x <= head) => x \in 1..Len(Times)
    BY <1>1
  <2> QED
    BY <2>1, <1>3 DEF Ids
<1>5. /\ HandleTradeGap(id)
      /\ Enqueue(IF chunk.sec = None \/ chunk.sec = Times[id] THEN <<>> ELSE <<JobOf(chunk)>>)
      /\ chunk' = [sec |-> Times[id], n |-> 1, cp |-> 0,
                   trades |-> Plus(IF chunk.sec = Times[id] THEN chunk.trades
                                   ELSE NoTrades, One(id))]
  BY DEF ReceiveTrade
<1> HIDE DEF id
<1>6. \/ queue' = queue /\ chunk.sec \in {None, Times[id]}
      \/ /\ chunk.sec # None /\ chunk.sec # Times[id]
         /\ QueueFits(queue', head) /\ Queued(<<JobOf(chunk)>>, JobOf(chunk))
  <2>1. CASE chunk.sec = None \/ chunk.sec = Times[id]
    BY <2>1, <1>5, NothingIsQueued
  <2>2. CASE ~(chunk.sec = None \/ chunk.sec = Times[id])
    BY <2>2, <1>5, ChunkIsQueued
  <2> QED
    BY <2>1, <2>2
<1> QED
  BY <1>3, <1>4, <1>5, <1>6

LEMMA ReceiveTradeSound ==
  ASSUME Sound, ReceiveTrade
  PROVE  Sound'
<1>1. UNCHANGED <<now, head, sync, bars, pre, preChunk, agg, worker, rows, cps, left>>
  BY DEF ReceiveTrade
<1>2. PICK id \in Ids :
          /\ session.seen < id /\ id <= head /\ HandleTradeGap(id)
          /\ WireFits(wire', id, head)
          /\ queue' = queue \/ QueueFits(queue', head)
          /\ chunk' = [sec |-> Times[id], n |-> 1, cp |-> 0,
                       trades |-> Plus(IF chunk.sec = Times[id] THEN chunk.trades
                                       ELSE NoTrades, One(id))]
  BY ReceiveTradeIs
<1>3. id \in Nat /\ Times[id] \in Nat /\ Times[id] <= now /\ now \in 0..LastSecond
  <2>1. id \in 1..head
    BY <1>2, IdsAre, NumbersAre
  <2> QED
    BY <2>1, IdsAre DEF Sound
<1>4. /\ session' \in Sessions(head) /\ session'.seen = id
      /\ GapFits(gap', id, head) /\ hist' \in Pasts
  BY <1>2, <1>3, DetectorMoves
<1>5. ChunkFits(chunk', head, now)
  <2> DEFINE old == IF chunk.sec = Times[id] THEN chunk.trades ELSE NoTrades
             new == Plus(old, One(id))
  <2>1. old \in Counts /\ \A k \in Ids : old[k] > 0 => Times[id] = Times[k]
    <3>1. chunk.trades \in Counts /\ \A k \in Ids : chunk.trades[k] > 0 => chunk.sec = Times[k]
      BY DEF Sound, ChunkFits, Chunks
    <3> QED
      BY <3>1, CountsAre
  <2> HIDE DEF old
  <2>2. new \in Counts /\ \A k \in Ids : new[k] > 0 <=> old[k] > 0 \/ One(id)[k] > 0
    BY <2>1, PlusIs, OneIs
  <2>3. \A k \in Ids : One(id)[k] > 0 => k = id
    BY OneIs
  <2>4. \A k \in Ids : new[k] > 0 => Times[id] = Times[k]
    BY <2>1, <2>2, <2>3
  <2>5. chunk' = [sec |-> Times[id], n |-> 1, cp |-> 0, trades |-> new]
    BY <1>2 DEF old
  <2> HIDE DEF new
  <2>6. Times[id] \in None..LastSecond /\ 0 <= head
    BY <1>3, Sizes, NumbersAre DEF None
  <2>7. \A t \in None..LastSecond : t <= now /\ (\A k \in Ids : new[k] > 0 => t = Times[k]) =>
           ChunkFits([sec |-> t, n |-> 1, cp |-> 0, trades |-> new], head, now)
    BY <2>2, <2>6 DEF ChunkFits, Chunks
  <2> QED
    BY <2>4, <2>5, <2>6, <2>7, <1>3
<1>6. QueueFits(queue', head)
  BY <1>2 DEF Sound
<1> QED
  BY <1>1, <1>2, <1>4, <1>5, <1>6 DEF Sound

LEMMA ReceiveBarSound ==
  ASSUME Sound, ReceiveBar
  PROVE  Sound'
<1> DEFINE m == Head(wire).n
           r == Append(bars.gap, [next |-> session.bar + 1, end |-> m - 1, fetched |-> FALSE])
<1>1. /\ wire # <<>> /\ Head(wire).kind = "bar" /\ wire' = Tail(wire)
      /\ session' = [session EXCEPT !.bar = m]
      /\ Enqueue(<<JobOfBar(m)>>)
      /\ bars' = bars \/ (session.bar # None /\ m > session.bar + 1 /\ bars' = [bars EXCEPT !.gap = r])
      /\ UNCHANGED <<now, head, chunk, gap, sync, pre, preChunk, agg, worker, rows, cps, hist, left>>
  BY DEF ReceiveBar
<1>2. head \in Nat /\ session.seen \in Nat /\ WireFits(wire, session.seen, head)
      /\ session \in Sessions(head) /\ BarsFit(bars) /\ QueueFits(queue, head)
  BY NumbersAre DEF Sound
<1>3. m \in Minutes /\ WireFits(wire', session.seen, head)
  BY <1>1, <1>2, WireHead
<1> HIDE DEF m
<1>4. session' \in Sessions(head) /\ session'.seen = session.seen
  <2>1. m \in None..Minute(LastSecond)
    BY <1>3, MinutesAre DEF None, Minutes
  <2> QED
    BY <2>1, <1>1, <1>2 DEF Sessions
<1>5. QueueFits(queue', head)
  <2>1. JobFits(JobOfBar(m), head)
    BY <1>2, <1>3, JobOfBarFits
  <2> QED
    BY <2>1, <1>1, <1>2, EnqueueIs
<1>6. BarsFit(bars')
  <2>1. CASE bars' = bars
    BY <2>1, <1>2
  <2>2. CASE session.bar # None /\ m > session.bar + 1 /\ bars' = [bars EXCEPT !.gap = r]
    <3> DEFINE e == [next |-> session.bar + 1, end |-> m - 1, fetched |-> FALSE]
    <3>1. session.bar \in None..Minute(LastSecond)
      BY <1>2 DEF Sessions
    <3>2. session.bar + 1 \in Minutes /\ m - 1 \in Minutes /\ session.bar + 1 <= m - 1
      <4>1. \A x \in -1..Minute(LastSecond), y \in 0..Minute(LastSecond) : (x # -1 /\ y > x + 1) =>
              x + 1 \in 0..Minute(LastSecond) /\ y - 1 \in 0..Minute(LastSecond) /\ x + 1 <= y - 1
        BY MinutesAre
      <4> QED
        BY <4>1, <3>1, <2>2, <1>3 DEF None, Minutes
    <3>3. e \in BarReplays /\ e.next <= e.end
      BY <3>2 DEF BarReplays
    <3>4. bars.gap \in Seq(BarReplays)
          /\ \A k \in 1..Len(bars.gap) : bars["gap"][k].next <= bars["gap"][k].end
      BY <1>2 DEF BarsFit
    <3> HIDE DEF e
    <3>5. /\ Append(bars.gap, e) \in Seq(BarReplays)
          /\ Len(bars.gap) \in Nat /\ Len(Append(bars.gap, e)) = Len(bars.gap) + 1
          /\ \A i \in 1..Len(bars.gap) : Append(bars.gap, e)[i] = bars.gap[i]
          /\ Append(bars.gap, e)[Len(bars.gap) + 1] = e
      BY <3>3, <3>4, AppendIs
    <3>6. \A k \in 1..Len(Append(bars.gap, e)) : k \in 1..Len(bars.gap) \/ k = Len(bars.gap) + 1
      BY <3>5
    <3>7. \A k \in 1..Len(Append(bars.gap, e)) : Append(bars.gap, e)[k].next <= Append(bars.gap, e)[k].end
      BY <3>3, <3>4, <3>5, <3>6
    <3>8. BarsFit([bars EXCEPT !["gap"] = Append(bars.gap, e)])
      BY <3>5, <3>7, <1>2, BarsAre
    <3> QED
      BY <3>8, <2>2 DEF e
  <2> QED
    BY <2>1, <2>2, <1>1
<1> QED
  BY <1>1, <1>3, <1>4, <1>5, <1>6 DEF Sound

(* A page that is fetched, and a replay that goes on after a trade.        *)
LEMMA FetchedIs ==
  ASSUME Sound, NEW r, SyncFits(r, head), r.stage = "fetch"
  PROVE  /\ Fetched(r).bar = r.bar
         /\ \/ Fetched(r).stage = "done" /\ head < r.next
            \/ /\ SyncFits(Fetched(r), head) /\ Fetched(r).stage = "emit" /\ r.next <= head
               /\ Fetched(r).next = r.next /\ Fetched(r).to = r.to
               /\ Fetched(r).short => Fetched(r).page = head
<1> DEFINE last == Smaller(r.next + PageLimit - 1, head)
<1>1. r \in Replays /\ r.next \in Nat /\ 1 <= r.next /\ r.page \in Nat
  BY DEF SyncFits, PageExists, Replays
<1>2. head \in Nat /\ PageLimit \in Nat /\ PageLimit >= 1
  BY NumbersAre, Sizes
<1>3. \A a, h, p \in Nat : p >= 1 =>
        /\ Smaller(a + p - 1, h) \in Nat /\ Smaller(a + p - 1, h) <= h
        /\ Smaller(a + p - 1, h) < a => h < a
        /\ ~(Smaller(a + p - 1, h) < a) => a <= h /\ a <= Smaller(a + p - 1, h)
        /\ Smaller(a + p - 1, h) - a + 1 < p => Smaller(a + p - 1, h) = h
  BY DEF Smaller
<1>4. /\ last \in Nat /\ last <= head /\ (last < r.next => head < r.next)
      /\ ~(last < r.next) => r.next <= head /\ r.next <= last
      /\ last - r.next + 1 < PageLimit => last = head
  BY <1>1, <1>2, <1>3
<1> DEFINE short == last - r.next + 1 < PageLimit
<1>5. short \in BOOLEAN
  <2>1. CASE short
    BY <2>1
  <2>2. CASE ~short
    BY <2>2
  <2> QED
    BY <2>1, <2>2
<1>6. Fetched(r) = IF last < r.next THEN [r EXCEPT !.stage = "done"]
                   ELSE [r EXCEPT !.stage = "emit", !.page = last, !.short = short]
  BY DEF Fetched
<1> HIDE DEF last, short
<1>7. CASE last < r.next
  BY <1>7, <1>6, <1>4, <1>1 DEF Replays
<1>8. CASE ~(last < r.next)
  <2> DEFINE f == [r EXCEPT !.stage = "emit", !.page = last, !.short = short]
  <2>1. /\ f \in Replays /\ f.stage = "emit" /\ f.next = r.next /\ f.to = r.to /\ f.bar = r.bar
        /\ f.page = last /\ f.short = short
    BY <1>1, <1>4, <1>5 DEF Replays
  <2> HIDE DEF f
  <2>2. SyncFits(f, head)
    BY <2>1, <1>1, <1>4, <1>8 DEF SyncFits, PageExists
  <2>3. f.short => f.page = head
    BY <2>1, <1>4 DEF short
  <2>4. Fetched(r) = f
    BY <1>6, <1>8 DEF f
  <2> QED
    BY <2>1, <2>2, <2>3, <2>4, <1>4, <1>8
<1> QED
  BY <1>7, <1>8

LEMMA AdvancedIs ==
  ASSUME Sound, NEW r, SyncFits(r, head), r.stage = "emit", NEW last \in Nat
  PROVE  /\ Advanced(r, last).bar = r.bar
         /\ r.next \in 1..head
         /\ \/ Advanced(r, last).stage = "done" /\ (r.next >= last \/ (r.next >= r.page /\ r.short))
            \/ /\ SyncFits(Advanced(r, last), head) /\ Advanced(r, last).stage \in {"emit", "fetch"}
               /\ Advanced(r, last).next = r.next + 1 /\ Advanced(r, last).to = r.to
               /\ Advanced(r, last).page = r.page /\ Advanced(r, last).short = r.short
               /\ r.next < last
<1>1. r \in Replays /\ r.next \in Nat /\ 1 <= r.next /\ r.page \in Nat /\ r.next <= r.page /\ r.page <= head
  BY DEF SyncFits, PageExists, Replays
<1>2. head \in Nat
  BY NumbersAre
<1>3. r.next \in 1..head
  BY <1>1, <1>2
<1> DEFINE n == r.next + 1
           more == [r EXCEPT !.next = @ + 1]
           at(s) == [r EXCEPT !.next = n, !.stage = s]
<1>4. n \in Nat /\ 1 <= n
  BY <1>1
<1>5. more = [r EXCEPT !.next = n]
  BY <1>1 DEF Replays
<1>6. /\ more \in Replays /\ more.next = n /\ more.stage = "emit" /\ more.to = r.to
      /\ more.page = r.page /\ more.short = r.short /\ more.bar = r.bar
  <2>1. \A x \in Nat : LET q == [r EXCEPT !.next = x]
                       IN  /\ q \in Replays /\ q.next = x /\ q.stage = "emit" /\ q.to = r.to
                           /\ q.page = r.page /\ q.short = r.short /\ q.bar = r.bar
    BY <1>1 DEF Replays
  <2> QED
    BY <2>1, <1>4, <1>5
<1>7. /\ Advanced(r, last) = more
      \/ Advanced(r, last) = [more EXCEPT !.stage = "done"]
      \/ Advanced(r, last) = [more EXCEPT !.stage = "fetch"]
  BY DEF Advanced
<1>8. CASE r.next >= last \/ (~(r.next < r.page) /\ r.short)
  <2>1. Advanced(r, last) = [more EXCEPT !.stage = "done"]
    BY <1>8 DEF Advanced
  <2>2. r.next >= last \/ (r.next >= r.page /\ r.short)
    BY <1>8, <1>1
  <2> HIDE DEF more
  <2>3. Advanced(r, last).stage = "done" /\ Advanced(r, last).bar = r.bar
    BY <2>1, <1>6 DEF Replays
  <2> QED
    BY <2>2, <2>3, <1>3
<1>9. CASE ~(r.next >= last) /\ r.next < r.page
  <2>1. Advanced(r, last) = more
    BY <1>9 DEF Advanced
  <2>2. n <= r.page /\ r.next < last
    BY <1>9, <1>1
  <2> HIDE DEF more, n
  <2>3. SyncFits(more, head)
    BY <2>2, <1>1, <1>4, <1>6 DEF SyncFits, PageExists
  <2> QED
    BY <2>1, <2>2, <2>3, <1>6, <1>3 DEF n
<1>10. CASE ~(r.next >= last) /\ ~(r.next < r.page) /\ ~r.short
  <2>1. Advanced(r, last) = [more EXCEPT !.stage = "fetch"]
    BY <1>10 DEF Advanced
  <2>2. r.next < last
    BY <1>10, <1>1
  <2> HIDE DEF more
  <2> DEFINE f == [more EXCEPT !.stage = "fetch"]
  <2>3. /\ f \in Replays /\ f.next = n /\ f.stage = "fetch" /\ f.to = r.to
        /\ f.page = r.page /\ f.short = r.short /\ f.bar = r.bar
    BY <1>6 DEF Replays
  <2> HIDE DEF f, n
  <2>4. SyncFits(f, head)
    BY <2>3, <1>4 DEF SyncFits, PageExists
  <2>5. Advanced(r, last) = f
    BY <2>1 DEF f
  <2> QED
    BY <2>2, <2>3, <2>4, <2>5, <1>3 DEF n
<1> QED
  BY <1>8, <1>9, <1>10

LEMMA NoReplayFits ==
  /\ \A h : SyncFits(NoReplay, h) /\ \A seen : GapFits(NoReplay, seen, h)
  /\ NoReplay.stage = "none"
<1>1. None \in None..Minute(LastSecond)
  BY MinutesAre DEF None
<1>2. NoReplay \in Replays /\ NoReplay.stage = "none"
  BY <1>1 DEF NoReplay, Replays
<1> QED
  BY <1>2 DEF SyncFits, GapFits, PageExists

(* A gap's replay cannot run out of trades before its end.                 *)
LEMMA GapFetchIs ==
  ASSUME Sound, GapFetch
  PROVE  /\ gap' = Fetched(gap) /\ GapFits(gap', session.seen, head)
         /\ gap'.stage = "emit" /\ gap'.next = gap.next /\ gap'.to = gap.to
         /\ gap.stage = "fetch"
<1>1. gap.stage = "fetch" /\ gap' = GapEnded(Fetched(gap))
  BY DEF GapFetch
<1>2. SyncFits(gap, head) /\ gap.next <= gap.to /\ gap.to <= session.seen
      /\ gap.next \in Nat /\ gap.to \in Nat
  BY <1>1 DEF Sound, GapFits, SyncFits, Replays
<1>3. ~(head < gap.next) /\ gap.to <= head
  BY <1>2, NumbersAre
<1>4. /\ SyncFits(Fetched(gap), head) /\ Fetched(gap).stage = "emit"
      /\ Fetched(gap).next = gap.next /\ Fetched(gap).to = gap.to
      /\ Fetched(gap).short => Fetched(gap).page = head
  BY <1>1, <1>2, <1>3, FetchedIs
<1>5. gap' = Fetched(gap)
  BY <1>1, <1>4 DEF GapEnded
<1>6. Fetched(gap).short => Fetched(gap).to <= Fetched(gap).page
  BY <1>3, <1>4
<1>7. GapFits(Fetched(gap), session.seen, head)
  BY <1>2, <1>4, <1>6 DEF GapFits
<1> QED
  BY <1>1, <1>4, <1>5, <1>7

LEMMA GapFetchSound ==
  ASSUME Sound, GapFetch
  PROVE  Sound'
<1>1. GapFits(gap', session.seen, head)
  BY GapFetchIs
<1>2. UNCHANGED <<now, head, feed, sync, bars, lane, hist, left>>
  BY DEF GapFetch
<1> QED
  BY <1>1, <1>2 DEF Sound, feed, lane

(* One trade of the gap goes to the prebatch worker, the rest stays owed.  *)
LEMMA GapEmitIs ==
  ASSUME Sound, GapEmit
  PROVE  /\ GapFits(gap', session.seen, head)
         /\ gap.stage = "emit" /\ gap.next \in 1..head /\ gap.next <= gap.to /\ gap.to \in Nat
         /\ gap.to <= session.seen
         /\ \/ gap' = NoReplay /\ gap.to = gap.next
            \/ gap'.stage # "none" /\ gap'.next = gap.next + 1 /\ gap'.to = gap.to
         /\ pre' = Append(pre, gap.next) /\ pre' \in Seq(1..head)
<1>1. gap.stage = "emit" /\ gap' = GapEnded(Advanced(gap, gap.to)) /\ pre' = Append(pre, gap.next)
  BY DEF GapEmit
<1>2. /\ SyncFits(gap, head) /\ gap.next <= gap.to /\ gap.to <= session.seen
      /\ gap.next \in Nat /\ gap.to \in Nat /\ gap.page \in Nat
      /\ gap.short => gap.to <= gap.page
  BY <1>1 DEF Sound, GapFits, SyncFits, Replays
<1> DEFINE a == Advanced(gap, gap.to)
<1>3. /\ gap.next \in 1..head
      /\ \/ a.stage = "done" /\ (gap.next >= gap.to \/ (gap.next >= gap.page /\ gap.short))
         \/ /\ SyncFits(a, head) /\ a.stage \in {"emit", "fetch"}
            /\ a.next = gap.next + 1 /\ a.to = gap.to
            /\ a.page = gap.page /\ a.short = gap.short
            /\ gap.next < gap.to
  BY <1>1, <1>2, AdvancedIs
<1>4. gap' = GapEnded(a)
  BY <1>1
<1>5. pre' \in Seq(1..head)
  BY <1>1, <1>3, AppendIs DEF Sound
<1> HIDE DEF a
<1>6. CASE a.stage = "done"
  <2>1. gap' = NoReplay
    BY <1>4, <1>6 DEF GapEnded
  <2>2. gap.next >= gap.to
    BY <1>2, <1>3, <1>6
  <2>3. gap.to = gap.next
    BY <2>2, <1>2
  <2> QED
    BY <2>1, <2>3, <1>1, <1>2, <1>3, <1>5, NoReplayFits
<1>7. CASE a.stage # "done"
  <2>1. gap' = a
    BY <1>4, <1>7 DEF GapEnded
  <2>2. a.next <= a.to
    BY <1>2, <1>3, <1>7
  <2>3. GapFits(a, session.seen, head)
    BY <2>2, <1>2, <1>3, <1>7 DEF GapFits
  <2> QED
    BY <2>1, <2>3, <1>1, <1>2, <1>3, <1>5, <1>7
<1> QED
  BY <1>6, <1>7

LEMMA GapEmitSound ==
  ASSUME Sound, GapEmit
  PROVE  Sound'
<1>1. GapFits(gap', session.seen, head) /\ pre' \in Seq(1..head)
  BY GapEmitIs
<1>2. UNCHANGED <<now, head, feed, sync, bars, preChunk, queue, agg, worker, rows, cps, hist, left>>
  BY DEF GapEmit
<1> QED
  BY <1>1, <1>2 DEF Sound, feed

LEMMA LosesFits ==
  ASSUME NEW h \in Pasts, NEW l \in SUBSET Ids
  PROVE  /\ [h EXCEPT !.lost = @ \cup l] \in Pasts
         /\ [h EXCEPT !.lost = @ \cup l].lost = h.lost \cup l
         /\ [h EXCEPT !.lost = @ \cup l].again = h.again
         /\ [h EXCEPT !.lost = @ \cup l].since = h.since
         /\ [h EXCEPT !.lost = @ \cup l].ref = h.ref
<1> DEFINE n == h.lost \cup l
<1>1. n \in SUBSET Ids
  BY DEF Pasts
<1>2. [h EXCEPT !.lost = @ \cup l] = [h EXCEPT !.lost = n]
  BY DEF Pasts
<1> HIDE DEF n
<1>3. /\ [h EXCEPT !.lost = n] \in Pasts
      /\ [h EXCEPT !.lost = n].lost = n
      /\ [h EXCEPT !.lost = n].again = h.again
      /\ [h EXCEPT !.lost = n].since = h.since
      /\ [h EXCEPT !.lost = n].ref = h.ref
  BY <1>1 DEF Pasts
<1> QED
  BY <1>2, <1>3 DEF n

LEMMA OwedAre ==
  ASSUME Sound
  PROVE  OwedBy(gap) \subseteq Ids /\ \A id \in OwedBy(gap) : id <= session.seen
<1>1. CASE gap.stage = "none"
  BY <1>1 DEF OwedBy
<1>2. CASE gap.stage # "none"
  <2>1. /\ gap.next \in Nat /\ gap.to \in Nat /\ 1 <= gap.next /\ gap.to <= session.seen
    BY <1>2 DEF Sound, GapFits, SyncFits, PageExists, Replays
  <2>2. OwedBy(gap) = gap.next..gap.to
    BY <1>2 DEF OwedBy
  <2> QED
    BY <2>1, <2>2, NumbersAre DEF Ids
<1> QED
  BY <1>1, <1>2

LEMMA GapFetchFailsSound ==
  ASSUME Sound, GapFetchFails
  PROVE  Sound'
<1>1. /\ gap' = NoReplay /\ hist' = [hist EXCEPT !.lost = @ \cup OwedBy(gap)]
      /\ left.rest > 0 /\ left' = [left EXCEPT !.rest = @ - 1]
      /\ UNCHANGED <<now, head, feed, sync, bars, lane>>
  BY DEF GapFetchFails
<1>2. hist' \in Pasts
  BY <1>1, OwedAre, LosesFits DEF Sound
<1>3. left' \in Budgets /\ left'.until = left.until
  BY <1>1, SpendFits DEF Sound
<1> QED
  BY <1>1, <1>2, <1>3, NoReplayFits DEF Sound, feed, lane

LEMMA SyncGoesOnFits ==
  ASSUME Sound, NEW r, SyncGoesOn(r), r.bar \in None..Minute(LastSecond),
         r.stage = "done" \/ SyncFits(r, head)
  PROVE  SyncFits(sync', head) /\ BarsFit(bars')
<1>1. CASE r.stage = "done"
  <2>1. sync' = NoReplay /\ bars' = [bars EXCEPT !.sync = SyncBars(r.bar)]
    BY <1>1 DEF SyncGoesOn
  <2> QED
    BY <2>1, SyncBarsFit, NoReplayFits
<1>2. CASE r.stage # "done"
  BY <1>2 DEF SyncGoesOn, Sound
<1> QED
  BY <1>1, <1>2

LEMMA SyncBarIs == ASSUME Sound PROVE sync.bar \in None..Minute(LastSecond)
BY DEF Sound, SyncFits, Replays

LEMMA SyncFetchSound ==
  ASSUME Sound, SyncFetch
  PROVE  Sound'
<1>1. /\ sync.stage = "fetch" /\ SyncGoesOn(Fetched(sync))
      /\ UNCHANGED <<now, head, feed, gap, lane, hist, left>>
  BY DEF SyncFetch
<1>2. SyncFits(sync', head) /\ BarsFit(bars')
  <2>1. SyncFits(sync, head)
    BY DEF Sound
  <2>2. /\ Fetched(sync).bar = sync.bar
        /\ Fetched(sync).stage = "done" \/ SyncFits(Fetched(sync), head)
    BY <2>1, <1>1, FetchedIs
  <2> QED
    BY <2>2, <1>1, SyncBarIs, SyncGoesOnFits
<1> QED
  BY <1>1, <1>2 DEF Sound, feed, lane

LEMMA SyncEmitIs ==
  ASSUME Sound, SyncEmit
  PROVE  /\ sync.next \in 1..head
         /\ pre' = Append(pre, sync.next) /\ pre' \in Seq(1..head)
         /\ hist' \in Pasts /\ hist'.again = hist.again \cup {sync.next}
         /\ hist'.lost = hist.lost /\ hist'.since = hist.since /\ hist'.ref = hist.ref
         /\ SyncFits(sync', head) /\ BarsFit(bars')
<1>1. /\ sync.stage = "emit" /\ SyncGoesOn(Advanced(sync, Len(Times) + 1))
      /\ pre' = Append(pre, sync.next)
      /\ hist' = [hist EXCEPT !.again = @ \cup {sync.next}]
  BY DEF SyncEmit
<1>2. SyncFits(sync, head) /\ Len(Times) + 1 \in Nat
  BY NumbersAre DEF Sound
<1>3. /\ Advanced(sync, Len(Times) + 1).bar = sync.bar
      /\ sync.next \in 1..head
      /\ \/ Advanced(sync, Len(Times) + 1).stage = "done"
         \/ SyncFits(Advanced(sync, Len(Times) + 1), head)
  BY <1>1, <1>2, AdvancedIs
<1>4. SyncFits(sync', head) /\ BarsFit(bars')
  BY <1>1, <1>3, SyncBarIs, SyncGoesOnFits
<1>5. pre' \in Seq(1..head)
  BY <1>1, <1>3, AppendIs DEF Sound
<1>6. sync.next \in Ids
  BY <1>3, IdsAre DEF Sound
<1> DEFINE n == hist.again \cup {sync.next}
<1>7. n \in SUBSET Ids /\ hist \in Pasts
  BY <1>6 DEF Sound, Pasts
<1>8. hist' = [hist EXCEPT !.again = n]
  BY <1>1, <1>7 DEF Pasts
<1> HIDE DEF n
<1>9. /\ hist' \in Pasts /\ hist'.again = n
      /\ hist'.lost = hist.lost /\ hist'.since = hist.since /\ hist'.ref = hist.ref
  BY <1>7, <1>8 DEF Pasts
<1> QED
  BY <1>1, <1>3, <1>4, <1>5, <1>9 DEF n

LEMMA SyncEmitSound ==
  ASSUME Sound, SyncEmit
  PROVE  Sound'
<1>1. UNCHANGED <<now, head, feed, gap, preChunk, queue, agg, worker, rows, cps, left>>
  BY DEF SyncEmit
<1> QED
  BY <1>1, SyncEmitIs DEF Sound, feed

LEMMA SyncFetchFailsSound ==
  ASSUME Sound, SyncFetchFails
  PROVE  Sound'
<1>1. /\ sync' = NoReplay
      /\ left.rest > 0 /\ left' = [left EXCEPT !.rest = @ - 1]
      /\ UNCHANGED <<now, head, feed, gap, bars, lane, hist>>
  BY DEF SyncFetchFails
<1>2. left' \in Budgets /\ left'.until = left.until
  BY <1>1, SpendFits DEF Sound
<1> QED
  BY <1>1, <1>2, NoReplayFits DEF Sound, feed, lane

(* What is replayed of the bars comes off the front.                       *)
LEMMA BarsHead ==
  ASSUME NEW b, BarsFit(b), NEW w \in {"gap", "sync"}, b[w] # <<>>
  PROVE  /\ BarsFit([b EXCEPT ![w] = Tail(@)])
         /\ Head(b[w]) = b[w][1] /\ 1 \in 1..Len(b[w])
         /\ b[w][1] \in BarReplays /\ b[w][1].next <= b[w][1].end
         /\ b[w] \in Seq(BarReplays)
<1>1. b[w] \in Seq(BarReplays) /\ \A k \in 1..Len(b[w]) : b[w][k].next <= b[w][k].end
  BY DEF BarsFit
<1> DEFINE s == b[w]
<1>2. s \in Seq(BarReplays) /\ s # <<>> /\ \A k \in 1..Len(s) : s[k].next <= s[k].end
  BY <1>1
<1> HIDE DEF s
<1>3. /\ Tail(s) \in Seq(BarReplays) /\ Len(s) \in Nat /\ 1 <= Len(s)
      /\ Head(s) = s[1] /\ Head(s) \in BarReplays
      /\ \A i \in 1..Len(Tail(s)) : Tail(s)[i] = s[i + 1] /\ i + 1 \in 1..Len(s)
  BY <1>2, TailIs
<1>4. \A i \in 1..Len(Tail(s)) : Tail(s)[i].next <= Tail(s)[i].end
  BY <1>2, <1>3
<1>5. BarsFit([b EXCEPT ![w] = Tail(s)])
  BY <1>3, <1>4, BarsAre
<1>6. [b EXCEPT ![w] = Tail(@)] = [b EXCEPT ![w] = Tail(s)]
  BY DEF s, BarsFit
<1>7. 1 \in 1..Len(s)
  BY <1>3
<1> QED
  BY <1>2, <1>3, <1>5, <1>6, <1>7 DEF s

(* A replay of bars that has fetched, or goes on to its next bar.          *)
LEMMA BarsChange ==
  ASSUME NEW b, BarsFit(b), NEW w \in {"gap", "sync"}, b[w] # <<>>,
         NEW e \in BarReplays, e.next <= e.end
  PROVE  BarsFit([b EXCEPT ![w] = [b[w] EXCEPT ![1] = e]])
<1>1. b[w] \in Seq(BarReplays) /\ 1 \in 1..Len(b[w])
      /\ \A k \in 1..Len(b[w]) : b[w][k].next <= b[w][k].end
  BY BarsHead DEF BarsFit
<1> DEFINE s == b[w]
           r == [s EXCEPT ![1] = e]
<1>2. s \in Seq(BarReplays) /\ 1 \in 1..Len(s) /\ \A k \in 1..Len(s) : s[k].next <= s[k].end
  BY <1>1
<1> HIDE DEF s
<1>3. /\ r \in Seq(BarReplays) /\ Len(r) = Len(s)
      /\ \A j \in 1..Len(s) : r[j] = IF j = 1 THEN e ELSE s[j]
  BY <1>2, ExceptSeq
<1>4. \A k \in 1..Len(r) : r[k].next <= r[k].end
  BY <1>2, <1>3
<1> HIDE DEF r
<1>5. BarsFit([b EXCEPT ![w] = r])
  BY <1>3, <1>4, BarsAre
<1> QED
  BY <1>5 DEF r, s

LEMMA BarsFetchSound ==
  ASSUME Sound, NEW w \in {"gap", "sync"}, BarsFetch(w)
  PROVE  Sound'
<1>1. /\ bars[w] # <<>> /\ UNCHANGED <<now, head, feed, gap, sync, lane, hist>>
      /\ \/ bars' = [bars EXCEPT ![w][1].fetched = TRUE] /\ left' = left
         \/ /\ bars' = [bars EXCEPT ![w] = Tail(@)]
            /\ left.rest > 0 /\ left' = [left EXCEPT !.rest = @ - 1]
  BY DEF BarsFetch
<1>2. BarsFit(bars)
  BY DEF Sound
<1>3. BarsFit([bars EXCEPT ![w] = Tail(@)]) /\ bars[w][1] \in BarReplays
      /\ bars[w][1].next <= bars[w][1].end
  BY <1>1, <1>2, BarsHead
<1>4. BarsFit([bars EXCEPT ![w][1].fetched = TRUE])
  <2> DEFINE e == [bars[w][1] EXCEPT !.fetched = TRUE]
  <2>1. e \in BarReplays /\ e.next = bars[w][1].next /\ e.end = bars[w][1].end
    BY <1>3 DEF BarReplays
  <2>2. [bars EXCEPT ![w][1].fetched = TRUE] = [bars EXCEPT ![w] = [bars[w] EXCEPT ![1] = e]]
    BY <1>2 DEF BarsFit
  <2> HIDE DEF e
  <2>3. BarsFit([bars EXCEPT ![w] = [bars[w] EXCEPT ![1] = e]])
    BY <2>1, <1>1, <1>2, <1>3, BarsChange
  <2> QED
    BY <2>2, <2>3
<1>5. BarsFit(bars')
  BY <1>1, <1>3, <1>4
<1>6. left' \in Budgets /\ left'.until = left.until
  BY <1>1, SpendFits DEF Sound
<1> QED
  BY <1>1, <1>5, <1>6 DEF Sound, feed, lane

LEMMA MembersAre == \A b : Members(b) \in SUBSET Ids /\ \A id \in Ids : id \in Members(b) <=> b[id] > 0
BY DEF Members

LEMMA BarReplayIs ==
  ASSUME Sound, NEW w \in {"gap", "sync"}, BarReplay(w)
  PROVE  /\ UNCHANGED <<now, head, feed, gap, sync, pre, preChunk, queue, agg, worker, cps>>
         /\ BarsFit(bars') /\ left' \in Budgets /\ left'.until = left.until
         /\ \/ UNCHANGED <<rows, hist>>
            \/ \E m \in Minutes : /\ rows' = [rows EXCEPT ![m] = NoTrades]
                                  /\ hist' = [hist EXCEPT !.lost = @ \cup Members(rows[m])]
<1>1. bars[w] # <<>> /\ BarsFit(bars)
  BY DEF BarReplay, Sound
<1>2. /\ BarsFit([bars EXCEPT ![w] = Tail(@)]) /\ bars[w][1] \in BarReplays
      /\ bars[w][1].next <= bars[w][1].end /\ Head(bars[w]) = bars[w][1]
      /\ bars[w] \in Seq(BarReplays) /\ 1 \in 1..Len(bars[w])
  BY <1>1, BarsHead
<1> DEFINE m == Head(bars[w]).next
           after == IF m = Head(bars[w]).end THEN Tail(bars[w])
                    ELSE [bars[w] EXCEPT ![1].next = m + 1]
<1>3. m \in Minutes
  BY <1>2 DEF BarReplays
<1>4. /\ UNCHANGED <<now, head, feed, gap, sync, pre, preChunk, queue, agg, worker, cps>>
      /\ \/ /\ bars' = [bars EXCEPT ![w] = after] /\ left' = left
            /\ rows' = [rows EXCEPT ![m] = NoTrades]
            /\ hist' = [hist EXCEPT !.lost = @ \cup Members(rows[m])]
         \/ /\ bars' = [bars EXCEPT ![w] = Tail(@)]
            /\ left.db > 0 /\ left' = [left EXCEPT !.db = @ - 1]
            /\ UNCHANGED <<rows, hist>>
  BY DEF BarReplay
<1>5. BarsFit([bars EXCEPT ![w] = after])
  <2>1. CASE m = Head(bars[w]).end
    <3>1. [bars EXCEPT ![w] = after] = [bars EXCEPT ![w] = Tail(@)]
      BY <2>1, <1>1 DEF BarsFit
    <3> QED
      BY <3>1, <1>2
  <2>2. CASE m # Head(bars[w]).end
    <3> DEFINE e == [bars[w][1] EXCEPT !.next = m + 1]
    <3>1. m + 1 \in Minutes /\ m + 1 <= bars[w][1].end
      <4>1. bars[w][1].end \in Minutes /\ m # bars[w][1].end /\ m <= bars[w][1].end
        BY <2>2, <1>2 DEF BarReplays
      <4> QED
        BY <4>1, <1>3, MinutesAre DEF Minutes
    <3>2. \A x \in Minutes : LET q == [bars[w][1] EXCEPT !.next = x]
                             IN  q \in BarReplays /\ q.next = x /\ q.end = bars[w][1].end
      BY <1>2 DEF BarReplays
    <3>3. e \in BarReplays /\ e.next <= e.end
      BY <3>1, <3>2
    <3>4. after = [bars[w] EXCEPT ![1] = e]
      BY <2>2, <1>2
    <3> HIDE DEF e, m, after
    <3>5. BarsFit([bars EXCEPT ![w] = [bars[w] EXCEPT ![1] = e]])
      BY <3>3, <1>1, BarsChange
    <3> QED
      BY <3>4, <3>5
  <2> QED
    BY <2>1, <2>2
<1> HIDE DEF m, after
<1>6. BarsFit(bars') /\ left' \in Budgets /\ left'.until = left.until
  BY <1>4, <1>5, <1>2, SpendFits DEF Sound
<1> QED
  BY <1>3, <1>4, <1>6

LEMMA BarReplaySound ==
  ASSUME Sound, NEW w \in {"gap", "sync"}, BarReplay(w)
  PROVE  Sound'
<1>1. rows' \in [Minutes -> Counts] /\ hist' \in Pasts
  <2>1. rows \in [Minutes -> Counts] /\ hist \in Pasts
    BY DEF Sound
  <2>2. CASE UNCHANGED <<rows, hist>>
    BY <2>1, <2>2
  <2>3. ASSUME NEW m \in Minutes, rows' = [rows EXCEPT ![m] = NoTrades],
               hist' = [hist EXCEPT !.lost = @ \cup Members(rows[m])]
        PROVE  rows' \in [Minutes -> Counts] /\ hist' \in Pasts
    BY <2>1, <2>3, CountsAre, MembersAre, LosesFits
  <2> QED
    BY <2>2, <2>3, BarReplayIs
<1> QED
  BY <1>1, BarReplayIs DEF Sound, feed

(* The prebatch worker takes a trade into the chunk of its second.         *)
LEMMA PrebatchRecvIs ==
  ASSUME Sound, PrebatchRecv
  PROVE  \E id \in Ids :
             /\ id \in 1..head /\ pre # <<>> /\ id = pre[1] /\ pre' = Tail(pre) /\ pre' \in Seq(1..head)
             /\ \/ queue' = queue /\ preChunk.sec \in {None, Times[id]}
                \/ /\ preChunk.sec # None /\ preChunk.sec # Times[id]
                   /\ QueueFits(queue', head) /\ Queued(<<JobOf(preChunk)>>, JobOf(preChunk))
             /\ ChunkFits(preChunk', head, now)
             /\ preChunk'.trades = Plus(IF preChunk.sec = Times[id] THEN preChunk.trades
                                        ELSE NoTrades, One(id))
<1> DEFINE id == Head(pre)
           open == preChunk.sec = Times[id]
           c == IF open THEN preChunk ELSE [NoChunk EXCEPT !.sec = Times[id]]
<1>1. /\ pre # <<>> /\ pre' = Tail(pre)
      /\ Enqueue(IF preChunk.sec = None \/ open THEN <<>> ELSE <<JobOf(preChunk)>>)
      /\ preChunk' = [c EXCEPT !.trades = Plus(@, One(id)), !.n = @ + 1, !.cp = Larger(@, id)]
  BY DEF PrebatchRecv
<1>2. Tail(pre) \in Seq(1..head) /\ id = pre[1] /\ id \in 1..head
  BY <1>1, TailIs DEF Sound
<1>3. id \in Ids /\ Times[id] \in Nat /\ Times[id] <= now /\ now \in 0..LastSecond /\ id \in Nat
      /\ id <= head /\ head \in Nat
  <2>1. id \in Ids
    BY <1>2, IdsAre DEF Sound
  <2> QED
    BY <2>1, <1>2, IdsAre, NumbersAre DEF Sound
<1>4. Times[id] \in None..LastSecond
  BY <1>3, Sizes DEF None
<1> HIDE DEF id
<1>5. \/ queue' = queue /\ preChunk.sec \in {None, Times[id]}
      \/ /\ preChunk.sec # None /\ preChunk.sec # Times[id]
         /\ QueueFits(queue', head) /\ Queued(<<JobOf(preChunk)>>, JobOf(preChunk))
  <2>1. CASE preChunk.sec = None \/ preChunk.sec = Times[id]
    BY <2>1, <1>1, NothingIsQueued
  <2>2. CASE ~(preChunk.sec = None \/ preChunk.sec = Times[id])
    BY <2>2, <1>1, ChunkIsQueued
  <2> QED
    BY <2>1, <2>2
<1>6. /\ c \in Chunks /\ c.sec = Times[id] /\ c.cp <= head
      /\ c.trades = IF open THEN preChunk.trades ELSE NoTrades
      /\ \A k \in Ids : c.trades[k] > 0 => Times[id] = Times[k]
  <2>1. CASE open
    BY <2>1 DEF Sound, ChunkFits
  <2>2. CASE ~open
    <3>1. c = [NoChunk EXCEPT !.sec = Times[id]]
      BY <2>2
    <3>2. c \in Chunks /\ c.sec = Times[id] /\ c.cp = 0 /\ c.trades = NoTrades
      BY <3>1, <1>4, CountsAre DEF NoChunk, Chunks
    <3> QED
      BY <3>2, <2>2, <1>3, CountsAre
  <2> QED
    BY <2>1, <2>2
<1> HIDE DEF c
<1> DEFINE new == Plus(c.trades, One(id))
           n == c.n + 1
           cp == Larger(c.cp, id)
<1>7. new \in Counts /\ n \in Nat /\ cp \in Nat /\ cp <= head
  <2>1. c.trades \in Counts /\ c.n \in Nat /\ c.cp \in Nat
    BY <1>6 DEF Chunks
  <2>2. new \in Counts
    BY <2>1, <1>3, PlusIs, OneIs
  <2>3. cp \in {c.cp, id}
    BY DEF Larger
  <2> QED
    BY <2>1, <2>2, <2>3, <1>3, <1>6
<1>8. \A k \in Ids : new[k] > 0 => Times[id] = Times[k]
  <2>1. c.trades \in Counts
    BY <1>6 DEF Chunks
  <2>2. \A k \in Ids : new[k] > 0 <=> c.trades[k] > 0 \/ One(id)[k] > 0
    BY <2>1, <1>3, PlusIs, OneIs
  <2>3. \A k \in Ids : One(id)[k] > 0 => k = id
    BY <1>3, OneIs
  <2> QED
    BY <2>2, <2>3, <1>6
<1>9. preChunk' = [c EXCEPT !.trades = new, !.n = n, !.cp = cp]
  BY <1>1, <1>6 DEF c, Chunks
<1>10. preChunk'.trades = Plus(IF open THEN preChunk.trades ELSE NoTrades, One(id))
  <2>1. preChunk'.trades = new
    BY <1>9, <1>6 DEF Chunks
  <2> QED
    BY <2>1, <1>6
<1> HIDE DEF new, n, cp
<1>11. ChunkFits(preChunk', head, now)
  <2> DEFINE p == [c EXCEPT !.trades = new, !.n = n, !.cp = cp]
  <2>1. p \in Chunks /\ p.sec = Times[id] /\ p.cp = cp /\ p.trades = new
    BY <1>6, <1>7 DEF Chunks
  <2> HIDE DEF p
  <2>2. ChunkFits(p, head, now)
    BY <2>1, <1>3, <1>7, <1>8 DEF ChunkFits
  <2> QED
    BY <2>2, <1>9 DEF p
<1> QED
  BY <1>1, <1>2, <1>3, <1>5, <1>10, <1>11

LEMMA PrebatchRecvSound ==
  ASSUME Sound, PrebatchRecv
  PROVE  Sound'
<1>1. UNCHANGED <<now, head, feed, gap, sync, bars, agg, worker, rows, cps, hist, left>>
  BY DEF PrebatchRecv
<1>2. pre' \in Seq(1..head) /\ QueueFits(queue', head) /\ ChunkFits(preChunk', head, now)
  BY PrebatchRecvIs DEF Sound
<1> QED
  BY <1>1, <1>2 DEF Sound, feed

(* A batch takes a job in: the aggregator has it, and perhaps too late.    *)
LEMMA AbsorbIs ==
  ASSUME NEW a \in [Minutes -> MinuteChunks], NEW j \in Jobs
  PROVE  /\ Absorb(a, j) \in [Minutes -> MinuteChunks]
         /\ Absorb(a, j)[j.into].kept /\ Absorb(a, j)[j.into].dirty
         /\ Absorb(a, j)[j.into].trades = Plus(a[j.into].trades, j.trades)
         /\ \A m \in Minutes : m # j.into => Absorb(a, j)[m] = a[m]
<1>1. j.into \in Minutes /\ j.trades \in Counts /\ a[j.into].trades \in Counts
  BY DEF Jobs, MinuteChunks
<1> DEFINE new == Plus(a[j.into].trades, j.trades)
           c == [kept |-> TRUE, dirty |-> TRUE, trades |-> new]
<1>2. new \in Counts
  BY <1>1, PlusIs
<1>3. Absorb(a, j) = [a EXCEPT ![j.into] = c]
  BY DEF Absorb
<1> HIDE DEF new
<1>4. c \in MinuteChunks /\ c.kept /\ c.dirty /\ c.trades = new
  BY <1>2 DEF MinuteChunks
<1> HIDE DEF c
<1> QED
  BY <1>1, <1>3, <1>4 DEF new

LEMMA TakeJobIs ==
  ASSUME Sound, TakeJob
  PROVE  \E j \in Jobs :
             /\ JobFits(j, head) /\ queue # <<>> /\ j = queue[1] /\ queue' = Tail(queue)
             /\ agg' = Absorb(agg, j) /\ WorkerFits(worker', head)
             /\ worker.stage # "writing" /\ worker'.stage = "taking" /\ worker'.out = worker.out
             /\ hist' \in Pasts /\ hist'.lost = hist.lost \cup TooLate(j)
             /\ hist'.again = hist.again /\ hist'.since = hist.since /\ hist'.ref = hist.ref
<1> DEFINE j == Head(queue)
<1>1. /\ queue # <<>> /\ queue' = Tail(queue)
      /\ worker.stage = "idle" \/ worker.stage = "taking"
      /\ agg' = Absorb(agg, j)
      /\ worker' = [worker EXCEPT !.stage = "taking", !.n = @ + j.n,
                                  !.cp = Larger(@, j.cp), !.ref = Larger(@, j.ref)]
      /\ hist' = [hist EXCEPT !.lost = @ \cup TooLate(j)]
  BY DEF TakeJob
<1>2. JobFits(j, head) /\ head \in Nat /\ j = queue[1]
  <2>1. head \in Nat /\ QueueFits(queue, head)
    BY NumbersAre DEF Sound
  <2>2. Head(queue) = queue[1]
    BY <2>1, <1>1, TailIs DEF QueueFits
  <2> QED
    BY <2>1, <2>2, <1>1, TailFits
<1>3. j \in Jobs /\ j.cp <= head
  BY <1>2 DEF JobFits
<1> HIDE DEF j
<1>4. /\ hist' \in Pasts /\ hist'.lost = hist.lost \cup TooLate(j)
      /\ hist'.again = hist.again /\ hist'.since = hist.since /\ hist'.ref = hist.ref
  <2>1. TooLate(j) \in SUBSET Ids /\ hist \in Pasts
    BY MembersAre DEF TooLate, Sound
  <2> QED
    BY <2>1, <1>1, LosesFits
<1> DEFINE n == worker.n + j.n
           cp == Larger(worker.cp, j.cp)
           ref == Larger(worker.ref, j.ref)
<1>5. WorkerFits(worker, head)
  BY DEF Sound
<1>6. n \in Nat /\ cp \in Nat /\ cp <= head /\ ref \in 0..Minute(LastSecond) + 1
  <2>1. worker.n \in Nat /\ worker.cp \in Nat /\ worker.cp <= head /\ worker.ref \in 0..Minute(LastSecond) + 1
    BY <1>5 DEF WorkerFits
  <2>2. j.n \in Nat /\ j.cp \in Nat /\ j.ref \in 0..Minute(LastSecond) + 1
    BY <1>3 DEF Jobs
  <2>3. cp \in {worker.cp, j.cp} /\ ref \in {worker.ref, j.ref}
    BY DEF Larger
  <2> QED
    BY <2>1, <2>2, <2>3, <1>3
<1>7. worker' = [worker EXCEPT !.stage = "taking", !.n = n, !.cp = cp, !.ref = ref]
  BY <1>1, <1>5 DEF WorkerFits
<1> HIDE DEF n, cp, ref
<1> DEFINE w == [worker EXCEPT !.stage = "taking", !.n = n, !.cp = cp, !.ref = ref]
<1>8. /\ w \in [stage : {"idle", "taking", "writing"}, n : Nat, cp : Nat,
                out : [DOMAIN worker.out -> Counts], ref : 0..Minute(LastSecond) + 1, batch : BOOLEAN]
      /\ w.out = worker.out /\ w.cp = cp /\ w.stage = "taking"
  BY <1>5, <1>6 DEF WorkerFits
<1> HIDE DEF w
<1>9. WorkerFits(w, head)
  BY <1>8, <1>5, <1>6 DEF WorkerFits
<1> QED
  BY <1>1, <1>2, <1>3, <1>4, <1>7, <1>8, <1>9 DEF w

LEMMA TakeJobSound ==
  ASSUME Sound, TakeJob
  PROVE  Sound'
<1>1. UNCHANGED <<now, head, feed, gap, sync, bars, pre, preChunk, rows, cps, left>>
  BY DEF TakeJob
<1>2. PICK j \in Jobs : /\ queue # <<>> /\ queue' = Tail(queue) /\ agg' = Absorb(agg, j)
                        /\ WorkerFits(worker', head) /\ hist' \in Pasts
  BY TakeJobIs
<1>3. QueueFits(queue', head)
  BY <1>2, TailFits, NumbersAre DEF Sound
<1>4. agg' \in [Minutes -> MinuteChunks]
  BY <1>2, AbsorbIs DEF Sound
<1> QED
  BY <1>1, <1>2, <1>3, <1>4 DEF Sound, feed

(* What a flush emits, keeps and trims.                                    *)
LEMMA FlushedIs ==
  ASSUME NEW a \in [Minutes -> MinuteChunks], NEW ref \in Int
  PROVE  /\ Flushed(a, ref) \in [Minutes -> MinuteChunks]
         /\ DOMAIN Emitted(a, ref) = Ready(a, ref) /\ Ready(a, ref) \subseteq Minutes
         /\ \A m \in Minutes : m \in Ready(a, ref) <=> a[m].dirty /\ m < ref
         /\ \A m \in Ready(a, ref) : Emitted(a, ref)[m] = a[m].trades
         /\ Emitted(a, ref) \in [Ready(a, ref) -> Counts]
         /\ \A m \in Minutes :
                \/ /\ Flushed(a, ref)[m] = NoMinute /\ m < ref - Retention
                   /\ a[m].dirty => m \in Ready(a, ref)
                \/ /\ Flushed(a, ref)[m].kept = a[m].kept /\ Flushed(a, ref)[m].trades = a[m].trades
                   /\ Flushed(a, ref)[m].dirty = (a[m].dirty /\ m \notin Ready(a, ref))
<1> DEFINE b == [m \in Minutes |-> IF m \in Ready(a, ref) THEN [a[m] EXCEPT !.dirty = FALSE] ELSE a[m]]
<1>1. Ready(a, ref) \subseteq Minutes /\ \A m \in Minutes : m \in Ready(a, ref) <=> a[m].dirty /\ m < ref
  BY DEF Ready
<1>2. \A m \in Minutes : a[m] \in MinuteChunks
  OBVIOUS
<1>3. /\ DOMAIN Emitted(a, ref) = Ready(a, ref)
      /\ \A m \in Ready(a, ref) : Emitted(a, ref)[m] = a[m].trades
      /\ Emitted(a, ref) \in [Ready(a, ref) -> Counts]
  BY <1>1, <1>2 DEF Emitted, MinuteChunks
<1>4. ASSUME NEW m \in Minutes
      PROVE  /\ b[m] \in MinuteChunks /\ b[m].kept = a[m].kept /\ b[m].trades = a[m].trades
             /\ b[m].dirty = (a[m].dirty /\ m \notin Ready(a, ref))
  <2>1. CASE m \in Ready(a, ref)
    BY <2>1, <1>2 DEF MinuteChunks
  <2>2. CASE m \notin Ready(a, ref)
    <3>1. b[m] = a[m] /\ a[m].dirty \in BOOLEAN
      BY <2>2, <1>2 DEF MinuteChunks
    <3> QED
      BY <3>1, <2>2, <1>2
  <2> QED
    BY <2>1, <2>2
<1>5. Flushed(a, ref) = Trimmed(b, ref)
  BY DEF Flushed
<1> HIDE DEF b
<1>6. NoMinute \in MinuteChunks
  BY CountsAre DEF NoMinute, MinuteChunks
<1>7. ASSUME NEW m \in Minutes
      PROVE  \/ Trimmed(b, ref)[m] = NoMinute /\ m < ref - Retention /\ ~b[m].dirty
             \/ Trimmed(b, ref)[m] = b[m]
  BY DEF Trimmed
<1>8. Trimmed(b, ref) \in [Minutes -> MinuteChunks]
  BY <1>4, <1>6 DEF Trimmed
<1>9. ASSUME NEW m \in Minutes
      PROVE \/ /\ Flushed(a, ref)[m] = NoMinute /\ m < ref - Retention
               /\ a[m].dirty => m \in Ready(a, ref)
            \/ /\ Flushed(a, ref)[m].kept = a[m].kept /\ Flushed(a, ref)[m].trades = a[m].trades
               /\ Flushed(a, ref)[m].dirty = (a[m].dirty /\ m \notin Ready(a, ref))
  BY <1>4, <1>5, <1>7
<1> QED
  BY <1>1, <1>3, <1>5, <1>8, <1>9

LEMMA IdleFits == \A h \in Nat : WorkerFits(Idle, h)
<1>1. /\ DOMAIN Idle.out = {} /\ Idle.out = NoRows /\ NoRows \in [DOMAIN NoRows -> Counts]
      /\ Idle.cp = 0
  BY DEF Idle, NoRows
<1>2. Idle \in [stage : {"idle", "taking", "writing"}, n : Nat, cp : Nat,
                out : [DOMAIN Idle.out -> Counts], ref : 0..Minute(LastSecond) + 1, batch : BOOLEAN]
  <2>1. 0 \in 0..Minute(LastSecond) + 1
    BY MinutesAre
  <2> QED
    BY <1>1, <2>1 DEF Idle
<1> QED
  BY <1>1, <1>2 DEF WorkerFits

(* The worker goes over to writing what a flush emits.                     *)
Flushes(ref) ==
    /\ agg' = Flushed(agg, ref)
    /\ WorkerFits(worker', head)
    /\ worker.stage # "writing" /\ worker'.out = Emitted(agg, ref)
    /\ worker'.stage # "writing" => Ready(agg, ref) = {}
    /\ hist' \in Pasts /\ hist'.ref = Larger(hist.ref, ref)
    /\ hist'.lost = hist.lost /\ hist'.again = hist.again /\ hist'.since = hist.since

LEMMA RefMoves ==
  ASSUME NEW h \in Pasts, NEW ref \in 0..Minute(LastSecond) + 1
  PROVE  /\ [h EXCEPT !.ref = Larger(@, ref)] \in Pasts
         /\ [h EXCEPT !.ref = Larger(@, ref)].ref = Larger(h.ref, ref)
         /\ [h EXCEPT !.ref = Larger(@, ref)].lost = h.lost
         /\ [h EXCEPT !.ref = Larger(@, ref)].again = h.again
         /\ [h EXCEPT !.ref = Larger(@, ref)].since = h.since
<1> DEFINE r == Larger(h.ref, ref)
<1>1. r \in None..Minute(LastSecond) + 1
  <2>1. r \in {h.ref, ref}
    BY DEF Larger
  <2> QED
    BY <2>1, MinutesAre DEF Pasts, None
<1>2. [h EXCEPT !.ref = Larger(@, ref)] = [h EXCEPT !.ref = r]
  BY DEF Pasts
<1> HIDE DEF r
<1>3. /\ [h EXCEPT !.ref = r] \in Pasts /\ [h EXCEPT !.ref = r].ref = r
      /\ [h EXCEPT !.ref = r].lost = h.lost /\ [h EXCEPT !.ref = r].again = h.again
      /\ [h EXCEPT !.ref = r].since = h.since
  BY <1>1 DEF Pasts
<1> QED
  BY <1>2, <1>3 DEF r

LEMMA EndBatchIs ==
  ASSUME Sound, EndBatch
  PROVE  worker.ref \in 0..Minute(LastSecond) + 1 /\ Flushes(worker.ref)
<1> DEFINE out == Emitted(agg, worker.ref)
<1>1. /\ worker.stage = "taking" /\ agg' = Flushed(agg, worker.ref)
      /\ worker' = [worker EXCEPT !.stage = "writing", !.out = out, !.batch = TRUE]
      /\ hist' = [hist EXCEPT !.ref = Larger(@, worker.ref)]
  BY DEF EndBatch
<1>2. WorkerFits(worker, head) /\ worker.ref \in 0..Minute(LastSecond) + 1
  BY DEF Sound, WorkerFits
<1>3. worker.ref \in Int
  BY <1>2, MinutesAre
<1>4. DOMAIN out \subseteq Minutes /\ out \in [DOMAIN out -> Counts]
  BY <1>3, FlushedIs DEF Sound
<1>5. /\ hist' \in Pasts /\ hist'.ref = Larger(hist.ref, worker.ref)
      /\ hist'.lost = hist.lost /\ hist'.again = hist.again /\ hist'.since = hist.since
  BY <1>1, <1>2, RefMoves DEF Sound
<1> HIDE DEF out
<1> DEFINE w == [worker EXCEPT !.stage = "writing", !.out = out, !.batch = TRUE]
<1>6. /\ w \in [stage : {"idle", "taking", "writing"}, n : Nat, cp : Nat,
                out : [DOMAIN out -> Counts], ref : 0..Minute(LastSecond) + 1, batch : BOOLEAN]
      /\ w.out = out /\ w.cp = worker.cp /\ w.stage = "writing"
  BY <1>2, <1>4 DEF WorkerFits
<1> HIDE DEF w
<1>7. WorkerFits(w, head)
  BY <1>2, <1>4, <1>6 DEF WorkerFits
<1>8. WorkerFits(worker', head) /\ worker'.out = out /\ worker'.stage = "writing"
  BY <1>1, <1>6, <1>7 DEF w
<1> QED
  BY <1>1, <1>2, <1>5, <1>8 DEF Flushes, out

LEMMA FlushTickIs ==
  ASSUME Sound, FlushTick
  PROVE  Minute(now) \in 0..Minute(LastSecond) + 1 /\ Flushes(Minute(now))
<1> DEFINE ref == Minute(now)
           out == Emitted(agg, ref)
           st == IF Ready(agg, ref) = {} THEN "idle" ELSE "writing"
<1>1. /\ worker.stage = "idle" /\ agg' = Flushed(agg, ref)
      /\ worker' = [Idle EXCEPT !.stage = st, !.out = out]
      /\ hist' = [hist EXCEPT !.ref = Larger(@, ref)]
  BY DEF FlushTick
<1>2. ref \in 0..Minute(LastSecond) + 1 /\ ref \in Int
  <2>1. ref \in Minutes
    BY NumbersAre
  <2> QED
    BY <2>1, MinutesAre DEF Minutes
<1> HIDE DEF ref
<1>3. DOMAIN out \subseteq Minutes /\ out \in [DOMAIN out -> Counts]
  BY <1>2, FlushedIs DEF Sound
<1>4. /\ hist' \in Pasts /\ hist'.ref = Larger(hist.ref, ref)
      /\ hist'.lost = hist.lost /\ hist'.again = hist.again /\ hist'.since = hist.since
  BY <1>1, <1>2, RefMoves DEF Sound
<1>5. st \in {"idle", "writing"} /\ (st # "writing" => Ready(agg, ref) = {})
  OBVIOUS
<1>6. head \in Nat /\ 0 <= head
  BY NumbersAre
<1>7. WorkerFits(Idle, head) /\ Idle.cp = 0
  BY <1>6, IdleFits DEF Idle
<1> HIDE DEF out, st
<1> DEFINE w == [Idle EXCEPT !.stage = st, !.out = out]
<1>8. /\ w \in [stage : {"idle", "taking", "writing"}, n : Nat, cp : Nat,
                out : [DOMAIN out -> Counts], ref : 0..Minute(LastSecond) + 1, batch : BOOLEAN]
      /\ w.out = out /\ w.cp = 0 /\ w.stage = st
  BY <1>3, <1>5, <1>7 DEF WorkerFits
<1> HIDE DEF w
<1>9. WorkerFits(w, head)
  BY <1>3, <1>6, <1>8 DEF WorkerFits
<1>10. WorkerFits(worker', head) /\ worker'.out = out /\ worker'.stage = st
  BY <1>1, <1>8, <1>9 DEF w
<1>11. worker.stage # "writing"
  BY <1>1
<1>12. Flushes(ref)
  BY <1>1, <1>4, <1>5, <1>10, <1>11 DEF Flushes, out
<1> QED
  BY <1>2, <1>12 DEF ref

LEMMA FlushSound ==
  ASSUME Sound, NEW ref \in 0..Minute(LastSecond) + 1, Flushes(ref),
         UNCHANGED <<now, head, feed, gap, sync, bars, pre, preChunk, queue, rows, cps, left>>
  PROVE  Sound'
<1>1. ref \in Int
  BY MinutesAre
<1>2. agg' \in [Minutes -> MinuteChunks]
  BY <1>1, FlushedIs DEF Flushes, Sound
<1> QED
  BY <1>2 DEF Sound, feed, Flushes

(* A write stores ms, some of the rows; the trades of the others are lost.  *)
WritesOnly(ms) ==
    /\ ms \subseteq DOMAIN worker.out
    /\ rows' \in [Minutes -> Counts]
    /\ \A m \in Minutes : rows'[m] = IF m \in ms THEN worker.out[m] ELSE rows[m]
    /\ hist' \in Pasts /\ hist.lost \subseteq hist'.lost
    /\ hist'.again = hist.again /\ hist'.since = hist.since /\ hist'.ref = hist.ref
    /\ \A m \in DOMAIN worker.out \ ms : \A id \in Ids : worker.out[m][id] > 0 => id \in hist'.lost
    /\ left' \in Budgets /\ left'.until = left.until

LEMMA WriteRowsIs ==
  ASSUME Sound, WriteRows
  PROVE  /\ \E ms \in SUBSET (DOMAIN worker.out) : WritesOnly(ms)
         /\ worker' = Idle /\ worker.stage = "writing"
         /\ cps' \in [buffer : 0..head, saved : 0..head]
<1>1. /\ worker.stage = "writing" /\ worker' = Idle
      /\ cps' = [cps EXCEPT !.buffer = Larger(@, worker.cp)]
  BY DEF WriteRows
<1>2. WorkerFits(worker, head) /\ rows \in [Minutes -> Counts] /\ hist \in Pasts
      /\ cps \in [buffer : 0..head, saved : 0..head] /\ left \in Budgets
  BY DEF Sound
<1>3. cps' \in [buffer : 0..head, saved : 0..head]
  <2> DEFINE b == Larger(cps.buffer, worker.cp)
  <2>1. worker.cp \in 0..head /\ cps.buffer \in 0..head
    BY <1>2, NumbersAre DEF WorkerFits
  <2>2. b \in 0..head
    BY <2>1 DEF Larger
  <2>3. cps' = [cps EXCEPT !.buffer = b]
    BY <1>1, <1>2
  <2> HIDE DEF b
  <2> QED
    BY <2>2, <2>3, <1>2
<1>4. \A ms \in SUBSET (DOMAIN worker.out) :
         /\ Overwrite(ms) \in [Minutes -> Counts]
         /\ \A m \in Minutes : Overwrite(ms)[m] = IF m \in ms THEN worker.out[m] ELSE rows[m]
  <2>1. \A m \in DOMAIN worker.out : worker.out[m] \in Counts
    BY <1>2 DEF WorkerFits
  <2> QED
    BY <2>1, <1>2 DEF Overwrite
<1>5. CASE rows' = Overwrite(DOMAIN worker.out) /\ UNCHANGED <<hist, left>>
  <2>1. DOMAIN worker.out \in SUBSET (DOMAIN worker.out)
        /\ DOMAIN worker.out \ DOMAIN worker.out = {}
    OBVIOUS
  <2>2. WritesOnly(DOMAIN worker.out)
    BY <1>2, <1>4, <1>5, <2>1 DEF WritesOnly
  <2> QED
    BY <1>1, <1>3, <2>1, <2>2
<1>6. CASE /\ left.db > 0 /\ left' = [left EXCEPT !.db = @ - 1]
           /\ \E ms \in Written \ {DOMAIN worker.out} :
               /\ rows' = Overwrite(ms)
               /\ hist' = [hist EXCEPT !.lost = @ \cup
                             UNION {Members(worker.out[m]) : m \in DOMAIN worker.out \ ms}]
  <2>1. PICK ms \in Written :
               /\ rows' = Overwrite(ms)
               /\ hist' = [hist EXCEPT !.lost = @ \cup
                             UNION {Members(worker.out[m]) : m \in DOMAIN worker.out \ ms}]
    BY <1>6
  <2>2. ms \in SUBSET (DOMAIN worker.out)
    BY DEF Written
  <2> DEFINE l == UNION {Members(worker.out[m]) : m \in DOMAIN worker.out \ ms}
  <2>3. l \in SUBSET Ids
    BY MembersAre
  <2>4. \A m \in DOMAIN worker.out \ ms : \A id \in Ids : worker.out[m][id] > 0 => id \in l
    BY MembersAre
  <2>5. hist' = [hist EXCEPT !.lost = @ \cup l]
    BY <2>1
  <2> HIDE DEF l
  <2>6. /\ hist' \in Pasts /\ hist'.lost = hist.lost \cup l
        /\ hist'.again = hist.again /\ hist'.since = hist.since /\ hist'.ref = hist.ref
    BY <2>3, <2>5, <1>2, LosesFits
  <2>7. left' \in Budgets /\ left'.until = left.until
    BY <1>2, <1>6, SpendFits
  <2>8. WritesOnly(ms)
    BY <1>4, <2>1, <2>2, <2>4, <2>6, <2>7 DEF WritesOnly
  <2> QED
    BY <1>1, <1>3, <2>2, <2>8
<1> QED
  BY <1>5, <1>6 DEF WriteRows

LEMMA WriteRowsSound ==
  ASSUME Sound, WriteRows
  PROVE  Sound'
<1>1. UNCHANGED <<now, head, feed, gap, sync, bars, pre, preChunk, queue, agg>>
  BY DEF WriteRows
<1>2. /\ rows' \in [Minutes -> Counts] /\ hist' \in Pasts /\ worker' = Idle
      /\ left' \in Budgets /\ left'.until = left.until
      /\ cps' \in [buffer : 0..head, saved : 0..head]
  BY WriteRowsIs DEF WritesOnly
<1>3. WorkerFits(Idle, head)
  BY IdleFits, NumbersAre
<1> QED
  BY <1>1, <1>2, <1>3 DEF Sound, feed

LEMMA SaveCheckpointSound ==
  ASSUME Sound, SaveCheckpoint
  PROVE  Sound'
<1>1. /\ UNCHANGED <<now, head, feed, gap, sync, bars, pre, preChunk, queue, agg, worker, rows, hist>>
      /\ \/ cps' = [buffer |-> 0, saved |-> cps.buffer] /\ left' = left
         \/ /\ cps' = [cps EXCEPT !.buffer = 0]
            /\ left.db > 0 /\ left' = [left EXCEPT !.db = @ - 1]
  BY DEF SaveCheckpoint
<1>2. cps' \in [buffer : 0..head, saved : 0..head]
  <2>1. cps \in [buffer : 0..head, saved : 0..head] /\ 0 \in 0..head
    BY NumbersAre DEF Sound
  <2> QED
    BY <2>1, <1>1
<1>3. left' \in Budgets /\ left'.until = left.until
  BY <1>1, SpendFits DEF Sound
<1> QED
  BY <1>1, <1>2, <1>3 DEF Sound, feed

LEMMA EmptiesFit ==
  /\ \A h \in Nat, t \in Nat : /\ ChunkFits(NoChunk, h, t) /\ WorkerFits(Idle, h)
                               /\ GapFits(NoReplay, 0, h) /\ SyncFits(NoReplay, h)
                               /\ WireFits(<<>>, 0, h) /\ QueueFits(<<>>, h) /\ <<>> \in Seq(1..h)
  /\ BarsFit([gap |-> <<>>, sync |-> <<>>])
  /\ [m \in Minutes |-> NoMinute] \in [Minutes -> MinuteChunks]
  /\ [m \in Minutes |-> NoTrades] \in [Minutes -> Counts]
<1>1. \A S : <<>> \in Seq(S) /\ Len(<<>>) = 0
  BY EmptySeq
<1>2. \A h : QueueFits(<<>>, h)
  BY <1>1, Sizes DEF QueueFits
<1>3. BarsFit([gap |-> <<>>, sync |-> <<>>])
  BY <1>1 DEF BarsFit
<1>4. NoMinute \in MinuteChunks /\ NoTrades \in Counts
  BY CountsAre DEF NoMinute, MinuteChunks
<1> QED
  BY <1>1, <1>2, <1>3, <1>4, NoChunkFits, IdleFits, NoReplayFits, EmptyWireFits

LEMMA RestartIs ==
  ASSUME Sound, Restart
  PROVE  \E seen \in 0..head :
             /\ session' \in Sessions(head) /\ session'.seen = seen
             /\ hist' \in Pasts /\ hist'.since = (IF seen = 0 THEN 0 ELSE seen + 1)
             /\ hist'.lost = {} /\ hist'.again = 1..head /\ hist'.ref = None
<1>1. PICK seen \in {0, cps.saved}, bar \in IF left.bars THEN None..Minute(now) - 1 ELSE {None} :
         /\ session' = [up |-> FALSE, attempt |-> FALSE, seen |-> seen, bar |-> bar]
         /\ hist' = [hist EXCEPT !.since = IF seen = 0 THEN 0 ELSE seen + 1,
                                 !.lost = {}, !.again = 1..head, !.ref = None]
  BY DEF Restart
<1>2. seen \in 0..head
  BY NumbersAre DEF Sound
<1>3. bar \in None..Minute(LastSecond)
  <2>1. \A x \in None..Minute(now) - 1 : x \in None..Minute(LastSecond)
    BY NumbersAre, MinutesAre DEF None
  <2>2. None \in None..Minute(LastSecond)
    BY MinutesAre DEF None
  <2> QED
    BY <2>1, <2>2
<1>4. session' \in Sessions(head) /\ session'.seen = seen
  BY <1>1, <1>2, <1>3 DEF Sessions
<1> DEFINE since == IF seen = 0 THEN 0 ELSE seen + 1
           ids == 1..head
<1>5. since \in Nat /\ ids \in SUBSET Ids /\ None \in None..Minute(LastSecond) + 1 /\ hist \in Pasts
  <2>1. 1..head \subseteq Ids
    BY IdsAre DEF Sound
  <2>2. since \in Nat
    BY <1>2, NumbersAre
  <2> QED
    BY <2>1, <2>2, MinutesAre DEF None, Sound
<1> HIDE DEF since, ids
<1>6. hist' = [hist EXCEPT !.since = since, !.lost = {}, !.again = ids, !.ref = None]
  BY <1>1 DEF since, ids
<1>7. /\ hist' \in Pasts /\ hist'.since = since /\ hist'.lost = {} /\ hist'.again = ids
      /\ hist'.ref = None
  BY <1>5, <1>6 DEF Pasts
<1> QED
  BY <1>2, <1>4, <1>7 DEF since, ids

LEMMA RestartSound ==
  ASSUME Sound, Restart
  PROVE  Sound'
<1>1. /\ wire' = <<>> /\ chunk' = NoChunk /\ gap' = NoReplay /\ sync' = NoReplay
      /\ bars' = [gap |-> <<>>, sync |-> <<>>]
      /\ pre' = <<>> /\ preChunk' = NoChunk /\ queue' = <<>>
      /\ agg' = [m \in Minutes |-> NoMinute] /\ worker' = Idle
      /\ cps' = [cps EXCEPT !.buffer = 0]
      /\ left.restarts > 0 /\ left' = [left EXCEPT !.restarts = @ - 1]
      /\ UNCHANGED <<now, head, rows>>
  BY DEF Restart
<1>2. head \in Nat /\ now \in Nat
  BY NumbersAre
<1>3. session' \in Sessions(head) /\ hist' \in Pasts
  BY RestartIs
<1>4. left' \in Budgets /\ left'.until = left.until
  BY <1>1, SpendFits DEF Sound
<1>5. cps' \in [buffer : 0..head, saved : 0..head]
  <2>1. cps \in [buffer : 0..head, saved : 0..head] /\ 0 \in 0..head
    BY <1>2 DEF Sound
  <2> QED
    BY <2>1, <1>1
<1>6. WireFits(<<>>, session'.seen, head) /\ GapFits(NoReplay, session'.seen, head)
  BY EmptyWireFits, NoReplayFits
<1> QED
  BY <1>1, <1>2, <1>3, <1>4, <1>5, <1>6, EmptiesFit DEF Sound

LEMMA InitSound == Init => Sound
<1> SUFFICES ASSUME Init PROVE Sound
  OBVIOUS
<1>1. left \in Budgets
  BY ScenarioAssumption DEF Init, Budgets
<1>2. left.until \in Nat /\ 0 <= left.until /\ 0 \in 0..LastSecond /\ 0 \in 0..Len(Times)
  BY <1>1, Sizes DEF Budgets
<1>3. session \in Sessions(0)
  BY MinutesAre DEF Init, Sessions, None
<1>4. hist \in Pasts
  BY MinutesAre DEF Init, Pasts, None
<1>5. cps \in [buffer : 0..0, saved : 0..0]
  BY DEF Init
<1> QED
  BY <1>1, <1>2, <1>3, <1>4, <1>5, EmptiesFit DEF Init, Sound

LEMMA StepSound ==
  ASSUME Sound, [Next]_vars
  PROVE  Sound'
<1>1. CASE UNCHANGED vars
  BY <1>1 DEF Sound, vars
<1>2. CASE EndBatch
  BY <1>2, EndBatchIs, FlushSound DEF EndBatch
<1>3. CASE FlushTick
  BY <1>3, FlushTickIs, FlushSound DEF FlushTick
<1> QED
  BY <1>1, <1>2, <1>3, TradeSound, TickSound, ConnectSound, ConnectFailsSound, DropSound,
     ReceiveTradeSound, ReceiveBarSound, FlushExpiredSound, GapFetchSound, GapEmitSound,
     GapFetchFailsSound, SyncFetchSound, SyncEmitSound, SyncFetchFailsSound, BarsFetchSound,
     BarReplaySound, PrebatchRecvSound, PrebatchTickSound, TakeJobSound, WriteRowsSound,
     SaveCheckpointSound, RestartSound DEF Next

LEMMA SoundIsTyped == Sound => TypeOK
<1> SUFFICES ASSUME Sound PROVE TypeOK
  OBVIOUS
<1>1. \A i \in 0..Len(Times) : i \in Nat
  OBVIOUS
<1>2. left \in [trades : Nat, drops : Nat, rest : Nat, db : Nat, restarts : Nat,
                bars : BOOLEAN, until : 0..LastSecond]
  BY <1>1 DEF Sound, Budgets
<1> QED
  BY <1>2 DEF Sound, TypeOK, WireFits, Messages, Sessions, ChunkFits, GapFits, SyncFits, BarsFit,
     QueueFits, WorkerFits, MinuteChunks, Pasts

-----------------------------------------------------------------------------
(* Where trades are: at the end and at the beginning of the channels.      *)
LEMMA LastId ==
  ASSUME NEW S, NEW p \in Seq(S), NEW e \in S, NEW id
  PROVE  /\ InIds(Append(p, e), id) <=> InIds(p, id) \/ id = e
         /\ IdOnce(p, id) /\ (id = e => ~InIds(p, id)) => IdOnce(Append(p, e), id)
<1>1. /\ Len(p) \in Nat /\ Len(Append(p, e)) = Len(p) + 1
      /\ \A i \in 1..Len(p) : Append(p, e)[i] = p[i]
      /\ Append(p, e)[Len(p) + 1] = e
  BY AppendIs
<1>2. \A k \in 1..Len(p) + 1 : k \in 1..Len(p) \/ k = Len(p) + 1
  BY <1>1
<1>3. Len(p) + 1 \in 1..Len(p) + 1 /\ \A k \in 1..Len(p) : k \in 1..Len(p) + 1
  BY <1>1
<1>4. InIds(Append(p, e), id) <=> InIds(p, id) \/ id = e
  BY <1>1, <1>2, <1>3 DEF InIds
<1>5. ASSUME IdOnce(p, id), id = e => ~InIds(p, id) PROVE IdOnce(Append(p, e), id)
  <2>1. ASSUME NEW i \in 1..Len(p) + 1, NEW k \in 1..Len(p) + 1,
               Append(p, e)[i] = id, Append(p, e)[k] = id
        PROVE  i = k
    BY <1>1, <1>2, <1>5, <2>1 DEF IdOnce, InIds
  <2> QED
    BY <2>1, <1>1 DEF IdOnce
<1> QED
  BY <1>4, <1>5

LEMMA FirstId ==
  ASSUME NEW S, NEW p \in Seq(S), p # <<>>, NEW id
  PROVE  /\ InIds(p, id) <=> InIds(Tail(p), id) \/ id = p[1]
         /\ IdOnce(p, id) => IdOnce(Tail(p), id) /\ (id = p[1] => ~InIds(Tail(p), id))
<1>1. /\ Len(p) \in Nat /\ 1 <= Len(p) /\ Len(Tail(p)) = Len(p) - 1
      /\ \A i \in 1..Len(Tail(p)) : Tail(p)[i] = p[i + 1] /\ i + 1 \in 1..Len(p)
  BY TailIs
<1>2. \A n \in Nat : 1 <= n =>
         /\ 1 \in 1..n
         /\ \A k \in 1..n : k = 1 \/ (k - 1 \in 1..(n - 1) /\ k - 1 + 1 = k)
         /\ \A i, k \in 1..(n - 1) : i + 1 # 1 /\ (i + 1 = k + 1 => i = k)
  OBVIOUS
<1>3. /\ 1 \in 1..Len(p)
      /\ \A k \in 1..Len(p) : k = 1 \/ (k - 1 \in 1..Len(Tail(p)) /\ Tail(p)[k - 1] = p[k])
      /\ \A i, k \in 1..Len(Tail(p)) : i + 1 # 1 /\ (i + 1 = k + 1 => i = k)
  BY <1>1, <1>2
<1>4. InIds(p, id) <=> InIds(Tail(p), id) \/ id = p[1]
  BY <1>1, <1>3 DEF InIds
<1>5. ASSUME IdOnce(p, id) PROVE IdOnce(Tail(p), id) /\ (id = p[1] => ~InIds(Tail(p), id))
  BY <1>1, <1>3, <1>5 DEF IdOnce, InIds
<1> QED
  BY <1>4, <1>5

LEMMA LastJob ==
  ASSUME NEW q \in Seq(Jobs), NEW j \in Jobs, NEW id \in Ids
  PROVE  /\ InJobs(Append(q, j), id) <=> InJobs(q, id) \/ j.trades[id] > 0
         /\ JobOnce(q, id) /\ j.trades[id] <= 1 /\ (j.trades[id] > 0 => ~InJobs(q, id)) =>
                JobOnce(Append(q, j), id)
<1>1. /\ Len(q) \in Nat /\ Len(Append(q, j)) = Len(q) + 1
      /\ \A i \in 1..Len(q) : Append(q, j)[i] = q[i]
      /\ Append(q, j)[Len(q) + 1] = j
  BY AppendIs
<1>2. \A k \in 1..Len(q) + 1 : k \in 1..Len(q) \/ k = Len(q) + 1
  BY <1>1
<1>3. Len(q) + 1 \in 1..Len(q) + 1 /\ \A k \in 1..Len(q) : k \in 1..Len(q) + 1
  BY <1>1
<1>4. InJobs(Append(q, j), id) <=> InJobs(q, id) \/ j.trades[id] > 0
  BY <1>1, <1>2, <1>3 DEF InJobs
<1>5. ASSUME JobOnce(q, id), j.trades[id] <= 1, j.trades[id] > 0 => ~InJobs(q, id)
      PROVE  JobOnce(Append(q, j), id)
  <2>1. ASSUME NEW i \in 1..Len(q) + 1, NEW k \in 1..Len(q) + 1,
               Append(q, j)[i].trades[id] > 0, Append(q, j)[k].trades[id] > 0
        PROVE  i = k
    BY <1>1, <1>2, <1>5, <2>1 DEF JobOnce, InJobs
  <2>2. \A k \in 1..Len(q) + 1 : Append(q, j)[k].trades[id] <= 1
    BY <1>1, <1>2, <1>5 DEF JobOnce
  <2> QED
    BY <2>1, <2>2, <1>1 DEF JobOnce
<1> QED
  BY <1>4, <1>5

LEMMA FirstJob ==
  ASSUME NEW q \in Seq(Jobs), q # <<>>, NEW id \in Ids
  PROVE  /\ InJobs(q, id) <=> InJobs(Tail(q), id) \/ q[1].trades[id] > 0
         /\ JobOnce(q, id) => /\ JobOnce(Tail(q), id) /\ q[1].trades[id] <= 1
                              /\ q[1].trades[id] > 0 => ~InJobs(Tail(q), id)
<1>1. /\ Len(q) \in Nat /\ 1 <= Len(q) /\ Len(Tail(q)) = Len(q) - 1
      /\ \A i \in 1..Len(Tail(q)) : Tail(q)[i] = q[i + 1] /\ i + 1 \in 1..Len(q)
  BY TailIs
<1>2. \A n \in Nat : 1 <= n =>
         /\ 1 \in 1..n
         /\ \A k \in 1..n : k = 1 \/ (k - 1 \in 1..(n - 1) /\ k - 1 + 1 = k)
         /\ \A i, k \in 1..(n - 1) : i + 1 # 1 /\ (i + 1 = k + 1 => i = k)
  OBVIOUS
<1>3. /\ 1 \in 1..Len(q)
      /\ \A k \in 1..Len(q) : k = 1 \/ (k - 1 \in 1..Len(Tail(q)) /\ Tail(q)[k - 1] = q[k])
      /\ \A i, k \in 1..Len(Tail(q)) : i + 1 # 1 /\ (i + 1 = k + 1 => i = k)
  BY <1>1, <1>2
<1>4. InJobs(q, id) <=> InJobs(Tail(q), id) \/ q[1].trades[id] > 0
  BY <1>1, <1>3 DEF InJobs
<1>5. ASSUME JobOnce(q, id)
      PROVE  /\ JobOnce(Tail(q), id) /\ q[1].trades[id] <= 1
             /\ q[1].trades[id] > 0 => ~InJobs(Tail(q), id)
  BY <1>1, <1>3, <1>5 DEF JobOnce, InJobs
<1> QED
  BY <1>4, <1>5

LEMMA NothingIsIn ==
  ASSUME NEW id
  PROVE  /\ ~InIds(<<>>, id) /\ IdOnce(<<>>, id)
         /\ ~InJobs(<<>>, id) /\ JobOnce(<<>>, id)
BY Len(<<>>) = 0 DEF InIds, IdOnce, InJobs, JobOnce

-----------------------------------------------------------------------------
(* The aggregator and what it owes are left alone by all that happens      *)
(* before it: there a trade has to stay upstream, at one place.            *)
Deep == WritesTheChunk /\ SightBegins /\ Owed /\ Alone

LEMMA UpstreamOwed ==
  ASSUME Sound, Deep, UNCHANGED <<agg, worker, rows>>, hist'.ref = hist.ref,
         hist.lost \subseteq hist'.lost,
         \A id \in Ids : InSight(id)' => InSight(id) \/ id \in hist'.lost \/ Upstream(id)',
         \A id \in Ids : Upstream(id) => id \in hist'.lost \/ Upstream(id)'
  PROVE  WritesTheChunk' /\ Owed'
<1>1. WritesTheChunk'
  BY DEF Deep, WritesTheChunk
<1>2. ASSUME NEW id \in Ids PROVE Kept(id)'
  <2>1. Kept(id)
    BY DEF Deep, Owed
  <2>2. Downstream(id)' = Downstream(id)
    BY DEF Downstream
  <2>3. Settled(id) => Settled(id)'
    BY DEF Settled, InRow
  <2> QED
    BY <2>1, <2>2, <2>3 DEF Kept
<1> QED
  BY <1>1, <1>2 DEF Owed

LEMMA UpstreamAlone ==
  ASSUME Sound, Deep, UNCHANGED <<agg, worker, rows>>, hist.again \subseteq hist'.again,
         \A id \in Ids \ hist'.again : UpOnce(id) /\ Apart(id) => UpOnce(id)' /\ Apart(id)'
  PROVE  Alone'
<1>1. ASSUME NEW id \in Ids, id \notin hist'.again
      PROVE  UpOnce(id)' /\ DownOnce(id)' /\ Apart(id)'
  <2>1. UpOnce(id) /\ DownOnce(id) /\ Apart(id)
    BY <1>1 DEF Deep, Alone
  <2>2. DownOnce(id)'
    BY <2>1 DEF DownOnce
  <2> QED
    BY <1>1, <2>1, <2>2
<1> QED
  BY <1>1 DEF Alone

LEMMA SightStays ==
  ASSUME SightBegins, session'.seen = session.seen, hist'.since = hist.since
  PROVE  SightBegins' /\ \A id \in Ids : InSight(id)' = InSight(id)
BY DEF SightBegins, InSight

LEMMA QuietDeep ==
  ASSUME Sound, Deep, UNCHANGED <<chunk, preChunk, pre, queue, agg, worker, rows, hist>>,
         session'.seen = session.seen, \A id \in Ids : InGap(id)' = InGap(id)
  PROVE  Deep'
<1>1. SightBegins' /\ \A id \in Ids : InSight(id)' = InSight(id)
  BY SightStays DEF Deep
<1>2. \A id \in Ids : /\ InChunk(id)' = InChunk(id) /\ InPreChunk(id)' = InPreChunk(id)
                      /\ InPre(id)' = InPre(id) /\ InQueue(id)' = InQueue(id)
                      /\ InAgg(id)' = InAgg(id)
  BY DEF InChunk, InPreChunk, InPre, InQueue, InAgg
<1>3. \A id \in Ids : Upstream(id)' = Upstream(id)
  BY <1>2 DEF Upstream
<1>4. WritesTheChunk' /\ Owed'
  BY <1>1, <1>3, UpstreamOwed
<1>5. \A id \in Ids : UpOnce(id)' = UpOnce(id) /\ Apart(id)' = Apart(id)
  <2>1. \A id \in Ids : UpOnce(id)' = UpOnce(id)
    BY DEF UpOnce
  <2>2. \A id \in Ids : Apart(id)' = Apart(id)
    BY <1>2 DEF Apart
  <2> QED
    BY <2>1, <2>2
<1>6. Alone'
  BY <1>5, UpstreamAlone
<1> QED
  BY <1>1, <1>4, <1>6 DEF Deep

(* The trades b are at the end of the queue.                               *)
Sends(b) ==
    \A id \in Ids :
        /\ InQueue(id)' <=> InQueue(id) \/ b[id] > 0
        /\ JobOnce(queue, id) /\ b[id] <= 1 /\ (b[id] > 0 => ~InQueue(id)) => JobOnce(queue', id)

LEMMA QueuedSends ==
  ASSUME Sound, NEW j, JobFits(j, head), Queued(<<j>>, j)
  PROVE  Sends(j.trades)
<1>1. queue \in Seq(Jobs) /\ j \in Jobs /\ queue' = Append(queue, j)
  BY DEF Sound, QueueFits, JobFits, Queued
<1> QED
  BY <1>1, LastJob DEF Sends, InQueue

LEMMA SameSends ==
  ASSUME queue' = queue, NEW b, \A id \in Ids : b[id] = 0
  PROVE  Sends(b)
BY DEF Sends, InQueue

LEMMA ChunkSends ==
  ASSUME Sound, NEW c \in {chunk, preChunk},
         \/ queue' = queue /\ c.sec = None
         \/ c.sec # None /\ Queued(<<JobOf(c)>>, JobOf(c))
  PROVE  Sends(c.trades)
<1>1. ChunkFits(c, head, now) /\ now \in 0..LastSecond
  BY DEF Sound
<1>2. CASE queue' = queue /\ c.sec = None
  <2>1. ASSUME NEW id \in Ids PROVE c.trades[id] = 0
    <3>1. c.trades \in Counts /\ Times[id] \in Nat
      BY <1>1, IdsAre DEF ChunkFits, Chunks
    <3>2. Times[id] # None
      BY <3>1 DEF None
    <3>3. ~(c.trades[id] > 0)
      BY <3>2, <1>1, <1>2 DEF ChunkFits
    <3>4. c.trades[id] \in Nat
      BY <3>1, CountsAre
    <3> QED
      BY <3>3, <3>4
  <2> QED
    BY <2>1, <1>2, SameSends
<1>3. CASE c.sec # None /\ Queued(<<JobOf(c)>>, JobOf(c))
  <2>1. JobFits(JobOf(c), head) /\ JobOf(c).trades = c.trades
    BY <1>1, <1>3, JobOfFits DEF JobOf
  <2> QED
    BY <2>1, <1>3, QueuedSends
<1> QED
  BY <1>2, <1>3

(* A chunk that goes to the queue is no longer open.                       *)
LEMMA NoChunkIs == \A id \in Ids : ~(NoChunk.trades[id] > 0) /\ NoChunk.trades[id] <= 1
BY CountsAre DEF NoChunk

LEMMA ChunkGoes ==
  ASSUME Sound, Deep, Sends(chunk.trades), chunk' = NoChunk,
         UNCHANGED <<gap, preChunk, pre, agg, worker, rows, hist>>, session'.seen = session.seen
  PROVE  Deep'
<1>1. SightBegins' /\ \A id \in Ids : InSight(id)' = InSight(id)
  BY SightStays DEF Deep
<1>2. \A id \in Ids : /\ ~InChunk(id)' /\ InPreChunk(id)' = InPreChunk(id)
                      /\ InPre(id)' = InPre(id)
                      /\ InQueue(id)' <=> InQueue(id) \/ InChunk(id)
                      /\ InAgg(id)' = InAgg(id) /\ InGap(id)' = InGap(id)
  <2>1. \A id \in Ids : InGap(id)' = InGap(id) /\ InAgg(id)' = InAgg(id) /\ InPre(id)' = InPre(id)
    BY DEF InGap, OwedBy, InAgg, InPre, InIds
  <2>2. \A id \in Ids : ~InChunk(id)' /\ InPreChunk(id)' = InPreChunk(id)
    BY NoChunkIs DEF InChunk, InPreChunk
  <2>3. \A id \in Ids : InQueue(id)' <=> InQueue(id) \/ InChunk(id)
    BY DEF Sends, InChunk, InPreChunk
  <2> QED
    BY <2>1, <2>2, <2>3
<1>3. \A id \in Ids : Upstream(id)' = Upstream(id)
  BY <1>2 DEF Upstream
<1>4. WritesTheChunk' /\ Owed'
  BY <1>1, <1>3, UpstreamOwed
<1>5. ASSUME NEW id \in Ids, UpOnce(id), Apart(id) PROVE UpOnce(id)' /\ Apart(id)'
  <2>1. Apart(id)'
    BY <1>2, <1>5 DEF Apart
  <2>2. JobOnce(queue', id)
    BY <1>5 DEF Sends, UpOnce, Apart, InChunk
  <2> QED
    BY <2>1, <2>2, <1>5, NoChunkIs DEF UpOnce
<1>6. Alone'
  BY <1>5, UpstreamAlone
<1> QED
  BY <1>1, <1>4, <1>6 DEF Deep

LEMMA PreChunkGoes ==
  ASSUME Sound, Deep, Sends(preChunk.trades), preChunk' = NoChunk,
         UNCHANGED <<gap, chunk, pre, agg, worker, rows, hist, session>>
  PROVE  Deep'
<1>1. SightBegins' /\ \A id \in Ids : InSight(id)' = InSight(id)
  BY SightStays DEF Deep
<1>2. \A id \in Ids : /\ ~InPreChunk(id)' /\ InChunk(id)' = InChunk(id)
                      /\ InPre(id)' = InPre(id)
                      /\ InQueue(id)' <=> InQueue(id) \/ InPreChunk(id)
                      /\ InAgg(id)' = InAgg(id) /\ InGap(id)' = InGap(id)
  <2>1. \A id \in Ids : InGap(id)' = InGap(id) /\ InAgg(id)' = InAgg(id) /\ InPre(id)' = InPre(id)
    BY DEF InGap, OwedBy, InAgg, InPre, InIds
  <2>2. \A id \in Ids : ~InPreChunk(id)' /\ InChunk(id)' = InChunk(id)
    BY NoChunkIs DEF InChunk, InPreChunk
  <2>3. \A id \in Ids : InQueue(id)' <=> InQueue(id) \/ InPreChunk(id)
    BY DEF Sends, InChunk, InPreChunk
  <2> QED
    BY <2>1, <2>2, <2>3
<1>3. \A id \in Ids : Upstream(id)' = Upstream(id)
  BY <1>2 DEF Upstream
<1>4. WritesTheChunk' /\ Owed'
  BY <1>1, <1>3, UpstreamOwed
<1>5. ASSUME NEW id \in Ids, UpOnce(id), Apart(id) PROVE UpOnce(id)' /\ Apart(id)'
  <2>1. Apart(id)'
    BY <1>2, <1>5 DEF Apart
  <2>2. JobOnce(queue', id)
    BY <1>5 DEF Sends, UpOnce, Apart, InPreChunk
  <2> QED
    BY <2>1, <2>2, <1>5, NoChunkIs DEF UpOnce
<1>6. Alone'
  BY <1>5, UpstreamAlone
<1> QED
  BY <1>1, <1>4, <1>6 DEF Deep

-----------------------------------------------------------------------------
(* Every step keeps the trades accounted for: one lemma per action, one    *)
(* for those that move no trade.                                           *)
LEMMA GapIsSame == gap' = gap => \A id \in Ids : InGap(id)' = InGap(id)
BY DEF InGap, OwedBy

LEMMA QuietStepsDeep ==
  ASSUME Sound, Deep,
         \/ Trade \/ Tick \/ Connect \/ ConnectFails \/ SyncFetch \/ SyncFetchFails
         \/ SaveCheckpoint \/ \E w \in {"gap", "sync"} : BarsFetch(w)
  PROVE  Deep'
<1>1. UNCHANGED <<chunk, preChunk, pre, queue, agg, worker, rows, hist, gap>>
  BY DEF Trade, Tick, Connect, ConnectFails, SyncFetch, SyncFetchFails, SaveCheckpoint, BarsFetch,
     feed, lane
<1>2. session'.seen = session.seen
  <2>1. session \in Sessions(head) /\ head \in Nat /\ TRUE \in BOOLEAN /\ FALSE \in BOOLEAN
    BY NumbersAre DEF Sound
  <2>2. CASE Connect
    <3>1. session' = [session EXCEPT !.up = TRUE, !.attempt = FALSE]
      BY <2>2 DEF Connect
    <3> QED
      BY <2>1, <3>1, SessionMoves
  <2>3. CASE ConnectFails
    <3>1. session' = [session EXCEPT !.attempt = TRUE]
      BY <2>3 DEF ConnectFails
    <3> QED
      BY <2>1, <3>1, SessionMoves
  <2>4. CASE ~Connect /\ ~ConnectFails
    <3>1. session' = session
      BY <2>4 DEF Trade, Tick, SyncFetch, SyncFetchFails, SaveCheckpoint, BarsFetch, feed
    <3> QED
      BY <3>1
  <2> QED
    BY <2>2, <2>3, <2>4
<1>3. \A id \in Ids : InGap(id)' = InGap(id)
  BY <1>1, GapIsSame
<1> QED
  BY <1>1, <1>2, <1>3, QuietDeep

LEMMA GapFetchDeep ==
  ASSUME Sound, Deep, GapFetch
  PROVE  Deep'
<1>1. UNCHANGED <<chunk, preChunk, pre, queue, agg, worker, rows, hist, session>>
  BY DEF GapFetch, feed, lane
<1>2. gap'.stage # "none" /\ gap.stage # "none" /\ gap'.next = gap.next /\ gap'.to = gap.to
  BY GapFetchIs
<1>3. \A id \in Ids : InGap(id)' = InGap(id)
  BY <1>2 DEF InGap, OwedBy
<1> QED
  BY <1>1, <1>3, QuietDeep

LEMMA DropDeep ==
  ASSUME Sound, Deep, Drop
  PROVE  Deep'
<1>1. /\ UNCHANGED <<gap, preChunk, pre, agg, worker, rows, hist>> /\ chunk' = NoChunk
      /\ Enqueue(IF chunk.sec = None THEN <<>> ELSE <<JobOf(chunk)>>)
      /\ session' = [session EXCEPT !.up = FALSE, !.attempt = TRUE]
  BY DEF Drop
<1>2. session'.seen = session.seen
  <2>1. session \in Sessions(head) /\ head \in Nat /\ TRUE \in BOOLEAN /\ FALSE \in BOOLEAN
    BY NumbersAre DEF Sound
  <2> QED
    BY <2>1, <1>1, SessionMoves
<1>3. Sends(chunk.trades)
  <2>1. CASE chunk.sec = None
    <3>1. queue' = queue
      BY <1>1, <2>1, NothingIsQueued
    <3> QED
      BY <2>1, <3>1, ChunkSends
  <2>2. CASE chunk.sec # None
    <3>1. Queued(<<JobOf(chunk)>>, JobOf(chunk))
      BY <1>1, <2>2, ChunkIsQueued
    <3> QED
      BY <2>2, <3>1, ChunkSends
  <2> QED
    BY <2>1, <2>2
<1> QED
  BY <1>1, <1>2, <1>3, ChunkGoes

LEMMA FlushExpiredDeep ==
  ASSUME Sound, Deep, FlushExpired
  PROVE  Deep'
<1>1. /\ UNCHANGED <<gap, preChunk, pre, agg, worker, rows, hist, session>> /\ chunk' = NoChunk
      /\ chunk.sec # None /\ Enqueue(<<JobOf(chunk)>>)
  BY DEF FlushExpired
<1>2. Queued(<<JobOf(chunk)>>, JobOf(chunk))
  BY <1>1, ChunkIsQueued
<1>3. Sends(chunk.trades)
  BY <1>1, <1>2, ChunkSends
<1> QED
  BY <1>1, <1>3, ChunkGoes

LEMMA PrebatchTickDeep ==
  ASSUME Sound, Deep, PrebatchTick
  PROVE  Deep'
<1>1. /\ UNCHANGED <<gap, chunk, pre, agg, worker, rows, hist, session>> /\ preChunk' = NoChunk
      /\ preChunk.sec # None /\ Enqueue(<<JobOf(preChunk)>>)
  BY DEF PrebatchTick, feed
<1>2. Queued(<<JobOf(preChunk)>>, JobOf(preChunk))
  BY <1>1, ChunkIsQueued
<1>3. Sends(preChunk.trades)
  BY <1>1, <1>2, ChunkSends
<1> QED
  BY <1>1, <1>3, PreChunkGoes

(* A bar's job brings no trade.                                            *)
LEMMA ReceiveBarDeep ==
  ASSUME Sound, Deep, ReceiveBar
  PROVE  Deep'
<1>1. UNCHANGED <<gap, chunk, preChunk, pre, agg, worker, rows, hist>>
  BY DEF ReceiveBar
<1>2. session'.seen = session.seen
  <2>1. session \in Sessions(head)
    BY DEF Sound
  <2> QED
    BY <2>1 DEF ReceiveBar, Sessions
<1> DEFINE j == JobOfBar(Head(wire).n)
<1>3. Sends(NoTrades)
  <2>1. wire # <<>> /\ Head(wire).kind = "bar" /\ Enqueue(<<j>>)
    BY DEF ReceiveBar
  <2>2. Head(wire).n \in Minutes
    BY <2>1, NumbersAre, WireHead DEF Sound
  <2>3. JobFits(j, head) /\ j.trades = NoTrades
    BY <2>2, NumbersAre, JobOfBarFits DEF JobOfBar
  <2> HIDE DEF j
  <2>4. head \in Nat /\ QueueFits(queue, head) /\ <<j>> # <<>>
    BY NumbersAre DEF Sound
  <2>5. Queued(<<j>>, j)
    BY <2>1, <2>3, <2>4, EnqueueIs
  <2> QED
    BY <2>3, <2>5, QueuedSends
<1>4. SightBegins' /\ \A id \in Ids : InSight(id)' = InSight(id)
  BY <1>1, <1>2, SightStays DEF Deep
<1>5. \A id \in Ids : ~(NoTrades[id] > 0) /\ NoTrades[id] <= 1
  BY CountsAre
<1>6. \A id \in Ids : /\ InChunk(id)' = InChunk(id) /\ InPreChunk(id)' = InPreChunk(id)
                      /\ InPre(id)' = InPre(id) /\ InAgg(id)' = InAgg(id) /\ InGap(id)' = InGap(id)
                      /\ InQueue(id)' <=> InQueue(id)
  <2>1. \A id \in Ids : /\ InChunk(id)' = InChunk(id) /\ InPreChunk(id)' = InPreChunk(id)
                        /\ InPre(id)' = InPre(id) /\ InAgg(id)' = InAgg(id)
    BY <1>1 DEF InChunk, InPreChunk, InPre, InAgg
  <2>2. \A id \in Ids : InQueue(id)' <=> InQueue(id)
    BY <1>3, <1>5 DEF Sends
  <2> QED
    BY <2>1, <2>2, <1>1, GapIsSame
<1>7. \A id \in Ids : Upstream(id)' <=> Upstream(id)
  BY <1>6 DEF Upstream
<1>8. WritesTheChunk' /\ Owed'
  BY <1>1, <1>4, <1>7, UpstreamOwed
<1>9. ASSUME NEW id \in Ids, UpOnce(id), Apart(id) PROVE UpOnce(id)' /\ Apart(id)'
  <2>1. Apart(id)'
    BY <1>2, <1>6, <1>9 DEF Apart
  <2>2. JobOnce(queue', id)
    BY <1>3, <1>5, <1>9 DEF Sends, UpOnce
  <2> QED
    BY <2>1, <2>2, <1>1, <1>9 DEF UpOnce
<1>10. Alone'
  BY <1>1, <1>9, UpstreamAlone
<1> QED
  BY <1>4, <1>8, <1>10 DEF Deep

(* What a trade of the wire passes is in the gap, lost, or at hand.        *)
LEMMA DetectorDeep ==
  ASSUME Sound, Deep, NEW id0 \in Ids, session.seen < id0, id0 <= head, HandleTradeGap(id0)
  PROVE  /\ \A id \in Ids : InGap(id) => InGap(id)'
         /\ \A id \in Ids : InGap(id)' => InGap(id) \/ (session.seen < id /\ id < id0)
         /\ \A id \in Ids : InSight(id)' => InSight(id) \/ id = id0 \/ id \in hist'.lost \/ InGap(id)'
         /\ SightBegins'
<1>1. /\ session'.seen = id0
      /\ hist'.since = IF hist.since = 0 THEN id0 ELSE hist.since
      /\ hist'.lost = IF GapBefore(id0) /\ gap.stage # "none"
                      THEN hist.lost \cup (session.seen + 1)..(id0 - 1) ELSE hist.lost
      /\ gap' = IF GapBefore(id0) /\ gap.stage = "none"
                THEN [NoReplay EXCEPT !.stage = "fetch", !.next = session.seen + 1, !.to = id0 - 1]
                ELSE gap
  <2>1. id0 \in Nat
    BY IdsAre
  <2> QED
    BY <2>1, DetectorMoves
<1> DEFINE seen == session.seen
<1>2. seen \in Nat /\ id0 \in Nat /\ hist.since \in Nat /\ \A id \in Ids : id \in Nat /\ id >= 1
  BY NumbersAre, IdsAre DEF Sound, Pasts
<1>3. \A id \in Ids : InGap(id)' <=> \/ InGap(id)
                                     \/ GapBefore(id0) /\ gap.stage = "none" /\ id \in (seen + 1)..(id0 - 1)
  <2>1. CASE GapBefore(id0) /\ gap.stage = "none"
    <3>1. gap'.stage # "none" /\ gap'.next = seen + 1 /\ gap'.to = id0 - 1
      BY <1>1, <2>1 DEF NoReplay
    <3> QED
      BY <2>1, <3>1 DEF InGap, OwedBy
  <2>2. CASE ~(GapBefore(id0) /\ gap.stage = "none")
    BY <1>1, <2>2, GapIsSame
  <2> QED
    BY <2>1, <2>2
<1>4. GapBefore(id0) <=> seen # 0 /\ id0 > seen + 1
  BY DEF GapBefore
<1>5. SightBegins /\ seen = session.seen
  BY DEF Deep
<1> HIDE DEF seen
<1>6. (hist.since = 0 <=> seen = 0) /\ hist.since <= seen + 1
  BY <1>5 DEF SightBegins
<1>7. SightBegins'
  <2>1. (hist.since = 0 => id0 # 0) /\ hist.since <= id0 + 1 /\ id0 <= id0 + 1 /\ seen < id0
    BY <1>2, <1>5, <1>6
  <2> QED
    BY <2>1, <1>1, <1>2, <1>6 DEF SightBegins
<1>8. ASSUME NEW id \in Ids, InSight(id)' PROVE InSight(id) \/ id = id0 \/ id \in hist'.lost \/ InGap(id)'
  <2>1. hist'.since <= id /\ id <= id0 /\ hist'.since # 0
    BY <1>1, <1>8 DEF InSight
  <2>2. CASE hist.since = 0
    <3>1. id0 <= id
      BY <1>1, <2>1, <2>2
    <3> QED
      BY <2>1, <3>1, <1>2
  <2>3. CASE hist.since # 0 /\ id <= seen
    BY <1>1, <1>5, <2>1, <2>3 DEF InSight
  <2>4. CASE hist.since # 0 /\ ~(id <= seen) /\ id # id0
    <3>1. id \in (seen + 1)..(id0 - 1) /\ seen # 0 /\ id0 > seen + 1
      BY <1>2, <1>6, <2>1, <2>4
    <3>2. GapBefore(id0)
      BY <1>4, <3>1
    <3>3. CASE gap.stage = "none"
      BY <1>3, <3>1, <3>2, <3>3
    <3>4. CASE gap.stage # "none"
      BY <1>1, <1>5, <3>1, <3>2, <3>4
    <3> QED
      BY <3>3, <3>4
  <2> QED
    BY <2>2, <2>3, <2>4
<1>9. ASSUME NEW id \in Ids, InGap(id)' PROVE InGap(id) \/ (seen < id /\ id < id0)
  BY <1>2, <1>3, <1>9
<1> QED
  BY <1>3, <1>5, <1>7, <1>8, <1>9

LEMMA ReceiveTradeDeep ==
  ASSUME Sound, Deep, ReceiveTrade
  PROVE  Deep'
<1>1. PICK id0 \in Ids :
         /\ session.seen < id0 /\ id0 <= head /\ HandleTradeGap(id0)
         /\ \/ queue' = queue /\ chunk.sec \in {None, Times[id0]}
            \/ /\ chunk.sec # None /\ chunk.sec # Times[id0]
               /\ QueueFits(queue', head) /\ Queued(<<JobOf(chunk)>>, JobOf(chunk))
         /\ chunk' = [sec |-> Times[id0], n |-> 1, cp |-> 0,
                      trades |-> Plus(IF chunk.sec = Times[id0] THEN chunk.trades
                                      ELSE NoTrades, One(id0))]
  BY ReceiveTradeIs
<1>2. UNCHANGED <<preChunk, pre, agg, worker, rows>>
  BY DEF ReceiveTrade
<1> DEFINE stays == IF chunk.sec = Times[id0] THEN chunk.trades ELSE NoTrades
           goes == IF chunk.sec = Times[id0] THEN NoTrades ELSE chunk.trades
<1>3. chunk.trades \in Counts /\ stays \in Counts /\ Times[id0] # None
  BY CountsAre, IdsAre DEF Sound, ChunkFits, Chunks, None
<1>4. \A id \in Ids : /\ InChunk(id) <=> stays[id] > 0 \/ goes[id] > 0
                      /\ ~(stays[id] > 0 /\ goes[id] > 0)
                      /\ chunk.trades[id] <= 1 => stays[id] <= 1 /\ goes[id] <= 1
  BY CountsAre DEF InChunk
<1>5. Sends(goes)
  <2>1. CASE chunk.sec = Times[id0]
    <3>1. queue' = queue
      BY <1>1, <2>1
    <3> QED
      BY <2>1, <3>1, CountsAre, SameSends
  <2>2. CASE chunk.sec # Times[id0]
    <3>1. \/ queue' = queue /\ chunk.sec = None
          \/ chunk.sec # None /\ Queued(<<JobOf(chunk)>>, JobOf(chunk))
      BY <1>1, <2>2
    <3>2. Sends(chunk.trades)
      BY <3>1, ChunkSends
    <3> QED
      BY <2>2, <3>2
  <2> QED
    BY <2>1, <2>2
<1>6. chunk'.trades = Plus(stays, One(id0))
  BY <1>1
<1> HIDE DEF stays, goes
<1>7. \A id \in Ids : /\ InChunk(id)' <=> stays[id] > 0 \/ id = id0
                      /\ stays[id] <= 1 /\ (id = id0 => ~(stays[id] > 0)) => chunk'.trades[id] <= 1
  <2>1. One(id0) \in Counts /\ \A id \in Ids : One(id0)[id] = IF id = id0 THEN 1 ELSE 0
    BY OneIs
  <2>2. \A id \in Ids : /\ Plus(stays, One(id0))[id] > 0 <=> stays[id] > 0 \/ One(id0)[id] > 0
                        /\ Plus(stays, One(id0))[id] <= stays[id] + One(id0)[id]
                        /\ Plus(stays, One(id0))[id] \in Nat /\ stays[id] \in Nat
    BY <2>1, <1>3, PlusIs, CountsAre
  <2>3. \A id \in Ids : /\ Plus(stays, One(id0))[id] > 0 <=> stays[id] > 0 \/ id = id0
                        /\ stays[id] <= 1 /\ (id = id0 => ~(stays[id] > 0)) => Plus(stays, One(id0))[id] <= 1
    BY <2>1, <2>2
  <2> QED
    BY <1>6, <2>3 DEF InChunk
<1>8. /\ session'.seen = id0 /\ hist'.again = hist.again /\ hist'.ref = hist.ref
      /\ hist.lost \subseteq hist'.lost
  <2>1. id0 \in Nat
    BY IdsAre
  <2>2. /\ session'.seen = id0 /\ hist'.again = hist.again /\ hist'.ref = hist.ref
        /\ hist'.lost = IF GapBefore(id0) /\ gap.stage # "none"
                        THEN hist.lost \cup (session.seen + 1)..(id0 - 1) ELSE hist.lost
    BY <1>1, <2>1, DetectorMoves
  <2> QED
    BY <2>2
<1>9. /\ \A id \in Ids : InGap(id) => InGap(id)'
      /\ \A id \in Ids : InGap(id)' => InGap(id) \/ (session.seen < id /\ id < id0)
      /\ \A id \in Ids : InSight(id)' => InSight(id) \/ id = id0 \/ id \in hist'.lost \/ InGap(id)'
      /\ SightBegins'
  BY <1>1, DetectorDeep
<1>10. \A id \in Ids : /\ InPreChunk(id)' = InPreChunk(id) /\ InPre(id)' = InPre(id)
                       /\ InAgg(id)' = InAgg(id)
                       /\ InQueue(id)' <=> InQueue(id) \/ goes[id] > 0
  <2>1. \A id \in Ids : /\ InPreChunk(id)' = InPreChunk(id) /\ InPre(id)' = InPre(id)
                        /\ InAgg(id)' = InAgg(id)
    BY <1>2 DEF InPreChunk, InPre, InAgg
  <2> QED
    BY <2>1, <1>5 DEF Sends
<1>11. \A id \in Ids : Upstream(id) => Upstream(id)'
  BY <1>4, <1>7, <1>9, <1>10 DEF Upstream
<1>12. \A id \in Ids : InSight(id)' => InSight(id) \/ id \in hist'.lost \/ Upstream(id)'
  BY <1>7, <1>9 DEF Upstream
<1>13. WritesTheChunk' /\ Owed'
  BY <1>2, <1>8, <1>11, <1>12, UpstreamOwed
<1>14. ASSUME NEW id \in Ids, UpOnce(id), Apart(id) PROVE UpOnce(id)' /\ Apart(id)'
  <2>1. id \in Nat /\ session.seen \in Nat /\ id0 \in Nat
    BY IdsAre, NumbersAre
  <2>2. id = id0 => /\ ~InAgg(id) /\ ~InQueue(id) /\ ~InChunk(id) /\ ~InPreChunk(id) /\ ~InPre(id)
    <3>1. id = id0 => ~(id <= session.seen)
      BY <2>1, <1>1
    <3> QED
      BY <3>1, <1>14 DEF Apart
  <2>3. id = id0 => ~InGap(id)'
    <3>1. InGap(id) => id <= session.seen
      BY OwedAre DEF InGap
    <3> QED
      BY <3>1, <2>1, <1>1, <1>9
  <2>4. id <= session.seen => id <= id0 /\ (InGap(id)' => InGap(id))
    BY <2>1, <1>1, <1>9
  <2>5. id0 <= id0
    BY <2>1
  <2>6. Apart(id)'
    BY <2>2, <2>3, <2>4, <2>5, <1>4, <1>7, <1>8, <1>10, <1>14 DEF Apart
  <2>7. JobOnce(queue', id)
    <3>1. goes[id] > 0 => ~InQueue(id)
      BY <1>4, <1>14 DEF Apart
    <3>2. goes[id] <= 1
      BY <1>4, <1>14 DEF UpOnce
    <3> QED
      BY <3>1, <3>2, <1>5, <1>14 DEF Sends, UpOnce
  <2>8. chunk'.trades[id] <= 1
    <3>1. stays[id] <= 1
      BY <1>4, <1>14 DEF UpOnce
    <3> QED
      BY <3>1, <2>2, <1>4, <1>7
  <2> QED
    BY <2>6, <2>7, <2>8, <1>2, <1>14 DEF UpOnce
<1>15. Alone'
  BY <1>2, <1>8, <1>14, UpstreamAlone
<1> QED
  BY <1>9, <1>13, <1>15 DEF Deep

(* A replayed trade goes from the gap to the prebatch worker.              *)
LEMMA GapEmitDeep ==
  ASSUME Sound, Deep, GapEmit
  PROVE  Deep'
<1>1. UNCHANGED <<chunk, preChunk, queue, agg, worker, rows, hist, session>>
  BY DEF GapEmit, feed
<1> DEFINE e == gap.next
<1>2. /\ gap.stage = "emit" /\ e \in 1..head /\ e \in Nat /\ e <= gap.to /\ gap.to \in Nat
      /\ gap.to <= session.seen /\ session.seen \in Nat
      /\ \/ gap' = NoReplay /\ gap.to = e
         \/ gap'.stage # "none" /\ gap'.next = e + 1 /\ gap'.to = gap.to
      /\ pre' = Append(pre, e) /\ pre \in Seq(1..head)
  BY GapEmitIs, NumbersAre DEF Sound
<1> HIDE DEF e
<1>3. \A id \in Ids : /\ InGap(id) <=> InGap(id)' \/ id = e
                      /\ id = e => ~InGap(id)' /\ InGap(id) /\ id <= session.seen
  <2>1. OwedBy(gap) = e..gap.to
    BY <1>2 DEF OwedBy, e
  <2>2. CASE gap' = NoReplay /\ gap.to = e
    <3>1. \A id \in Ids : ~InGap(id)'
      BY <2>2, NoReplayFits DEF InGap, OwedBy
    <3> QED
      BY <1>2, <2>1, <2>2, <3>1, IdsAre DEF InGap
  <2>3. CASE gap'.stage # "none" /\ gap'.next = e + 1 /\ gap'.to = gap.to
    <3>1. \A id \in Ids : InGap(id)' <=> id \in (e + 1)..gap.to
      BY <2>3 DEF InGap, OwedBy
    <3> QED
      BY <1>2, <2>1, <3>1, IdsAre DEF InGap
  <2> QED
    BY <1>2, <2>2, <2>3
<1>4. SightBegins' /\ \A id \in Ids : InSight(id)' = InSight(id)
  BY <1>1, SightStays DEF Deep
<1>5. \A id \in Ids : /\ InPre(id)' <=> InPre(id) \/ id = e
                      /\ IdOnce(pre, id) /\ (id = e => ~InPre(id)) => IdOnce(pre', id)
  <2>1. e \in 1..head /\ pre' = Append(pre, e) /\ pre \in Seq(1..head)
    BY <1>2
  <2> QED
    BY <2>1, LastId DEF InPre
<1>6. \A id \in Ids : /\ InChunk(id)' = InChunk(id) /\ InPreChunk(id)' = InPreChunk(id)
                      /\ InQueue(id)' = InQueue(id) /\ InAgg(id)' = InAgg(id)
  BY <1>1 DEF InChunk, InPreChunk, InQueue, InAgg
<1>7. \A id \in Ids : Upstream(id)' <=> Upstream(id)
  BY <1>3, <1>5, <1>6 DEF Upstream
<1>8. WritesTheChunk' /\ Owed'
  BY <1>1, <1>4, <1>7, UpstreamOwed
<1>9. ASSUME NEW id \in Ids, UpOnce(id), Apart(id) PROVE UpOnce(id)' /\ Apart(id)'
  <2>1. id = e => ~InAgg(id) /\ ~InQueue(id) /\ ~InChunk(id) /\ ~InPreChunk(id) /\ ~InPre(id)
    BY <1>3, <1>9 DEF Apart
  <2>2. Apart(id)'
    BY <2>1, <1>1, <1>3, <1>5, <1>6, <1>9 DEF Apart
  <2>3. IdOnce(pre', id)
    BY <2>1, <1>5, <1>9 DEF UpOnce
  <2> QED
    BY <2>2, <2>3, <1>1, <1>9 DEF UpOnce
<1>10. Alone'
  BY <1>1, <1>9, UpstreamAlone
<1> QED
  BY <1>4, <1>8, <1>10 DEF Deep

LEMMA GapFetchFailsDeep ==
  ASSUME Sound, Deep, GapFetchFails
  PROVE  Deep'
<1>1. /\ UNCHANGED <<chunk, preChunk, pre, queue, agg, worker, rows, session>>
      /\ gap' = NoReplay /\ hist' = [hist EXCEPT !.lost = @ \cup OwedBy(gap)]
  BY DEF GapFetchFails, feed, lane
<1>2. /\ hist'.lost = hist.lost \cup OwedBy(gap) /\ hist'.again = hist.again
      /\ hist'.since = hist.since /\ hist'.ref = hist.ref
  BY <1>1, OwedAre, LosesFits DEF Sound
<1>3. \A id \in Ids : ~InGap(id)' /\ (InGap(id) => id \in hist'.lost)
  BY <1>1, <1>2, NoReplayFits DEF InGap, OwedBy
<1>4. SightBegins' /\ \A id \in Ids : InSight(id)' = InSight(id)
  BY <1>1, <1>2, SightStays DEF Deep
<1>5. \A id \in Ids : /\ InChunk(id)' = InChunk(id) /\ InPreChunk(id)' = InPreChunk(id)
                      /\ InQueue(id)' = InQueue(id) /\ InAgg(id)' = InAgg(id)
                      /\ InPre(id)' = InPre(id)
  BY <1>1 DEF InChunk, InPreChunk, InQueue, InAgg, InPre
<1>6. \A id \in Ids : Upstream(id) => id \in hist'.lost \/ Upstream(id)'
  BY <1>3, <1>5 DEF Upstream
<1>7. WritesTheChunk' /\ Owed'
  BY <1>1, <1>2, <1>4, <1>6, UpstreamOwed
<1>8. \A id \in Ids : UpOnce(id) /\ Apart(id) => UpOnce(id)' /\ Apart(id)'
  <2>1. \A id \in Ids : UpOnce(id)' = UpOnce(id)
    BY <1>1 DEF UpOnce
  <2>2. \A id \in Ids : Apart(id) => Apart(id)'
    BY <1>1, <1>3, <1>5 DEF Apart
  <2> QED
    BY <2>1, <2>2
<1>9. Alone'
  BY <1>1, <1>2, <1>8, UpstreamAlone
<1> QED
  BY <1>4, <1>7, <1>9 DEF Deep

(* A reconcile may fetch a trade again, and says so.                       *)
LEMMA SyncEmitDeep ==
  ASSUME Sound, Deep, SyncEmit
  PROVE  Deep'
<1>1. UNCHANGED <<chunk, preChunk, queue, agg, worker, rows, session, gap>>
  BY DEF SyncEmit, feed
<1> DEFINE e == sync.next
<1>2. /\ e \in 1..head /\ pre' = Append(pre, e) /\ pre \in Seq(1..head)
      /\ hist'.again = hist.again \cup {e}
      /\ hist'.lost = hist.lost /\ hist'.since = hist.since /\ hist'.ref = hist.ref
  BY SyncEmitIs DEF Sound
<1> HIDE DEF e
<1>3. SightBegins' /\ \A id \in Ids : InSight(id)' = InSight(id)
  BY <1>1, <1>2, SightStays DEF Deep
<1>4. \A id \in Ids : /\ InPre(id)' <=> InPre(id) \/ id = e
                      /\ IdOnce(pre, id) /\ (id = e => ~InPre(id)) => IdOnce(pre', id)
  BY <1>2, LastId DEF InPre
<1>5. \A id \in Ids : /\ InChunk(id)' = InChunk(id) /\ InPreChunk(id)' = InPreChunk(id)
                      /\ InQueue(id)' = InQueue(id) /\ InAgg(id)' = InAgg(id)
                      /\ InGap(id)' = InGap(id)
  <2>1. \A id \in Ids : InGap(id)' = InGap(id)
    BY <1>1, GapIsSame
  <2> QED
    BY <2>1, <1>1 DEF InChunk, InPreChunk, InQueue, InAgg
<1>6. \A id \in Ids : Upstream(id) => Upstream(id)'
  BY <1>4, <1>5 DEF Upstream
<1>7. WritesTheChunk' /\ Owed'
  BY <1>1, <1>2, <1>3, <1>6, UpstreamOwed
<1>8. ASSUME NEW id \in Ids, id # e, UpOnce(id), Apart(id) PROVE UpOnce(id)' /\ Apart(id)'
  <2>1. Apart(id)'
    BY <1>1, <1>4, <1>5, <1>8 DEF Apart
  <2>2. IdOnce(pre', id)
    BY <1>4, <1>8 DEF UpOnce
  <2> QED
    BY <2>1, <2>2, <1>1, <1>8 DEF UpOnce
<1>9. Alone'
  <2>1. \A id \in Ids \ hist'.again : UpOnce(id) /\ Apart(id) => UpOnce(id)' /\ Apart(id)'
    BY <1>2, <1>8
  <2> QED
    BY <2>1, <1>1, <1>2, UpstreamAlone
<1> QED
  BY <1>3, <1>7, <1>9 DEF Deep

(* The prebatch worker takes a trade into its chunk.                       *)
LEMMA PrebatchRecvDeep ==
  ASSUME Sound, Deep, PrebatchRecv
  PROVE  Deep'
<1>1. PICK id0 \in Ids :
         /\ pre # <<>> /\ id0 = pre[1] /\ pre' = Tail(pre)
         /\ \/ queue' = queue /\ preChunk.sec \in {None, Times[id0]}
            \/ /\ preChunk.sec # None /\ preChunk.sec # Times[id0]
               /\ QueueFits(queue', head) /\ Queued(<<JobOf(preChunk)>>, JobOf(preChunk))
         /\ preChunk'.trades = Plus(IF preChunk.sec = Times[id0] THEN preChunk.trades
                                    ELSE NoTrades, One(id0))
  BY PrebatchRecvIs
<1>2. UNCHANGED <<chunk, gap, agg, worker, rows, hist, session>>
  BY DEF PrebatchRecv, feed
<1> DEFINE stays == IF preChunk.sec = Times[id0] THEN preChunk.trades ELSE NoTrades
           goes == IF preChunk.sec = Times[id0] THEN NoTrades ELSE preChunk.trades
<1>3. preChunk.trades \in Counts /\ stays \in Counts /\ pre \in Seq(1..head)
  BY CountsAre DEF Sound, ChunkFits, Chunks
<1>4. \A id \in Ids : /\ InPreChunk(id) <=> stays[id] > 0 \/ goes[id] > 0
                      /\ ~(stays[id] > 0 /\ goes[id] > 0)
                      /\ preChunk.trades[id] <= 1 => stays[id] <= 1 /\ goes[id] <= 1
  BY CountsAre DEF InPreChunk
<1>5. Sends(goes)
  <2>1. CASE preChunk.sec = Times[id0]
    <3>1. queue' = queue
      BY <1>1, <2>1
    <3> QED
      BY <2>1, <3>1, CountsAre, SameSends
  <2>2. CASE preChunk.sec # Times[id0]
    <3>1. \/ queue' = queue /\ preChunk.sec = None
          \/ preChunk.sec # None /\ Queued(<<JobOf(preChunk)>>, JobOf(preChunk))
      BY <1>1, <2>2
    <3>2. Sends(preChunk.trades)
      BY <3>1, ChunkSends
    <3> QED
      BY <2>2, <3>2
  <2> QED
    BY <2>1, <2>2
<1>6. preChunk'.trades = Plus(stays, One(id0))
  BY <1>1
<1> HIDE DEF stays, goes
<1>7. \A id \in Ids : /\ InPreChunk(id)' <=> stays[id] > 0 \/ id = id0
                      /\ stays[id] <= 1 /\ (id = id0 => ~(stays[id] > 0)) => preChunk'.trades[id] <= 1
  <2>1. One(id0) \in Counts /\ \A id \in Ids : One(id0)[id] = IF id = id0 THEN 1 ELSE 0
    BY OneIs
  <2>2. \A id \in Ids : /\ Plus(stays, One(id0))[id] > 0 <=> stays[id] > 0 \/ One(id0)[id] > 0
                        /\ Plus(stays, One(id0))[id] <= stays[id] + One(id0)[id]
                        /\ Plus(stays, One(id0))[id] \in Nat /\ stays[id] \in Nat
    BY <2>1, <1>3, PlusIs, CountsAre
  <2>3. \A id \in Ids : /\ Plus(stays, One(id0))[id] > 0 <=> stays[id] > 0 \/ id = id0
                        /\ stays[id] <= 1 /\ (id = id0 => ~(stays[id] > 0)) => Plus(stays, One(id0))[id] <= 1
    BY <2>1, <2>2
  <2> QED
    BY <1>6, <2>3 DEF InPreChunk
<1>8. \A id \in Ids : /\ InPre(id) <=> InPre(id)' \/ id = id0
                      /\ IdOnce(pre, id) => IdOnce(pre', id) /\ (id = id0 => ~InPre(id)')
  BY <1>1, <1>3, FirstId DEF InPre
<1>9. SightBegins' /\ \A id \in Ids : InSight(id)' = InSight(id)
  BY <1>2, SightStays DEF Deep
<1>10. \A id \in Ids : /\ InChunk(id)' = InChunk(id) /\ InAgg(id)' = InAgg(id)
                       /\ InGap(id)' = InGap(id)
                       /\ InQueue(id)' <=> InQueue(id) \/ goes[id] > 0
  <2>1. \A id \in Ids : InChunk(id)' = InChunk(id) /\ InAgg(id)' = InAgg(id)
    BY <1>2 DEF InChunk, InAgg
  <2>2. \A id \in Ids : InQueue(id)' <=> InQueue(id) \/ goes[id] > 0
    BY <1>5 DEF Sends
  <2> QED
    BY <2>1, <2>2, <1>2, GapIsSame
<1>11. \A id \in Ids : Upstream(id) => Upstream(id)'
  BY <1>4, <1>7, <1>8, <1>10 DEF Upstream
<1>12. WritesTheChunk' /\ Owed'
  BY <1>2, <1>9, <1>11, UpstreamOwed
<1>13. ASSUME NEW id \in Ids, UpOnce(id), Apart(id) PROVE UpOnce(id)' /\ Apart(id)'
  <2>1. id = id0 => /\ InPre(id) /\ ~InAgg(id) /\ ~InQueue(id) /\ ~InChunk(id) /\ ~InPreChunk(id)
                    /\ ~InPre(id)'
    BY <1>8, <1>13 DEF Apart, UpOnce
  <2>2. Apart(id)'
    BY <2>1, <1>2, <1>4, <1>7, <1>8, <1>10, <1>13 DEF Apart
  <2>3. JobOnce(queue', id)
    <3>1. goes[id] > 0 => ~InQueue(id)
      BY <1>4, <1>13 DEF Apart
    <3>2. goes[id] <= 1
      BY <1>4, <1>13 DEF UpOnce
    <3> QED
      BY <3>1, <3>2, <1>5, <1>13 DEF Sends, UpOnce
  <2>4. preChunk'.trades[id] <= 1
    <3>1. stays[id] <= 1
      BY <1>4, <1>13 DEF UpOnce
    <3> QED
      BY <3>1, <2>1, <1>4, <1>7
  <2>5. IdOnce(pre', id)
    BY <1>8, <1>13 DEF UpOnce
  <2> QED
    BY <2>2, <2>3, <2>4, <2>5, <1>2, <1>13 DEF UpOnce
<1>14. Alone'
  BY <1>2, <1>13, UpstreamAlone
<1> QED
  BY <1>9, <1>12, <1>14 DEF Deep

-----------------------------------------------------------------------------
(* From the queue to the row.                                              *)
LEMMA SeenIsOfAMinute ==
  ASSUME Sound, NEW id \in Ids, InSight(id)
  PROVE  MinuteOf(id) \in Minutes
<1>1. id \in Nat /\ 1 <= id /\ id <= session.seen /\ Times[id] \in Nat
  BY IdsAre DEF InSight
<1>2. id \in 1..head /\ now \in Nat /\ now <= LastSecond
  BY <1>1, NumbersAre
<1>3. Times[id] <= now
  BY <1>2 DEF Sound
<1>4. Times[id] \in 0..LastSecond
  BY <1>1, <1>2, <1>3, Sizes
<1> QED
  BY <1>4, MinutesAre DEF MinuteOf

LEMMA UpstreamIsSame ==
  ASSUME UNCHANGED <<gap, chunk, preChunk, pre, queue>>
  PROVE  \A id \in Ids : /\ InGap(id)' = InGap(id) /\ InChunk(id)' = InChunk(id)
                         /\ InPreChunk(id)' = InPreChunk(id) /\ InPre(id)' = InPre(id)
                         /\ InQueue(id)' = InQueue(id) /\ Upstream(id)' = Upstream(id)
                         /\ UpOnce(id)' = UpOnce(id)
<1>1. \A id \in Ids : InGap(id)' = InGap(id)
  BY GapIsSame
<1>2. \A id \in Ids : /\ InChunk(id)' = InChunk(id) /\ InPreChunk(id)' = InPreChunk(id)
                      /\ InPre(id)' = InPre(id) /\ InQueue(id)' = InQueue(id)
  BY DEF InChunk, InPreChunk, InPre, InQueue
<1>3. \A id \in Ids : UpOnce(id)' = UpOnce(id)
  BY DEF UpOnce
<1> QED
  BY <1>1, <1>2, <1>3 DEF Upstream

(* A batch takes a job in.                                                 *)
LEMMA TakeJobDeep ==
  ASSUME Sound, Deep, TakeJob
  PROVE  Deep'
<1>1. PICK j \in Jobs :
         /\ JobFits(j, head) /\ queue # <<>> /\ j = queue[1] /\ queue' = Tail(queue)
         /\ agg' = Absorb(agg, j)
         /\ worker.stage # "writing" /\ worker'.stage = "taking" /\ worker'.out = worker.out
         /\ hist'.lost = hist.lost \cup TooLate(j)
         /\ hist'.again = hist.again /\ hist'.since = hist.since /\ hist'.ref = hist.ref
  BY TakeJobIs
<1>2. UNCHANGED <<gap, chunk, preChunk, pre, rows, session>>
  BY DEF TakeJob, feed
<1>3. DOMAIN worker.out = {} /\ DOMAIN worker'.out = {}
  BY <1>1 DEF Deep, WritesTheChunk
<1>4. /\ agg'[j.into].kept /\ agg'[j.into].dirty
      /\ agg'[j.into].trades = Plus(agg[j.into].trades, j.trades)
      /\ \A m \in Minutes : m # j.into => agg'[m] = agg[m]
      /\ j.into \in Minutes /\ agg[j.into].trades \in Counts /\ j.trades \in Counts
  <2>1. agg \in [Minutes -> MinuteChunks]
    BY DEF Sound
  <2>2. j.into \in Minutes /\ agg[j.into].trades \in Counts /\ j.trades \in Counts
    BY <2>1 DEF Jobs, MinuteChunks
  <2> QED
    BY <1>1, <2>1, <2>2, AbsorbIs
<1>5. \A id \in Ids : /\ agg'[j.into].trades[id] > 0 <=> agg[j.into].trades[id] > 0 \/ j.trades[id] > 0
                      /\ agg'[j.into].trades[id] <= agg[j.into].trades[id] + j.trades[id]
                      /\ agg[j.into].trades[id] \in Nat /\ j.trades[id] \in Nat
                      /\ agg'[j.into].trades[id] \in Nat
  BY <1>4, PlusIs, CountsAre
<1>6. \A id \in Ids : /\ InQueue(id) <=> InQueue(id)' \/ j.trades[id] > 0
                      /\ JobOnce(queue, id) => /\ JobOnce(queue', id) /\ j.trades[id] <= 1
                                               /\ j.trades[id] > 0 => ~InQueue(id)'
  <2>1. queue \in Seq(Jobs)
    BY DEF Sound, QueueFits
  <2> QED
    BY <2>1, <1>1, FirstJob DEF InQueue
<1>7. WritesTheChunk'
  <2>1. \A m \in Minutes : agg'[m].dirty => agg'[m].kept
    BY <1>4 DEF Deep, WritesTheChunk
  <2> QED
    BY <2>1, <1>3 DEF WritesTheChunk
<1>8. SightBegins' /\ \A id \in Ids : InSight(id)' = InSight(id)
  BY <1>1, <1>2, SightStays DEF Deep
<1>9. \A id \in Ids : /\ InGap(id)' = InGap(id) /\ InChunk(id)' = InChunk(id)
                      /\ InPreChunk(id)' = InPreChunk(id) /\ InPre(id)' = InPre(id)
  <2>1. \A id \in Ids : InGap(id)' = InGap(id)
    BY <1>2, GapIsSame
  <2> QED
    BY <2>1, <1>2 DEF InChunk, InPreChunk, InPre
<1>10. ASSUME NEW id \in Ids PROVE Kept(id)'
  <2> SUFFICES ASSUME InSight(id) PROVE id \in hist'.lost \/ Upstream(id)' \/ Downstream(id)' \/ Settled(id)'
    BY <1>8 DEF Kept
  <2> DEFINE m == MinuteOf(id)
  <2>1. m \in Minutes
    BY SeenIsOfAMinute
  <2>2. id \in hist.lost \/ Upstream(id) \/ Downstream(id) \/ Settled(id)
    BY DEF Deep, Owed, Kept
  <2>3. CASE id \in hist.lost
    BY <2>3, <1>1
  <2>4. CASE j.trades[id] > 0
    <3>1. j.into = m /\ agg'[m].dirty /\ agg'[m].trades[id] > 0
      BY <2>4, <1>1, <1>4, <1>5 DEF JobFits
    <3> QED
      BY <3>1 DEF Downstream
  <2>5. CASE Upstream(id) /\ ~(j.trades[id] > 0)
    BY <2>5, <1>6, <1>9 DEF Upstream
  <2>6. CASE Downstream(id)
    <3>1. agg[m].dirty /\ agg[m].trades[id] > 0
      BY <2>6, <1>3 DEF Downstream
    <3>2. agg'[m].dirty /\ agg'[m].trades[id] > 0
      BY <3>1, <2>1, <1>4, <1>5
    <3> QED
      BY <3>2 DEF Downstream
  <2>7. CASE Settled(id) /\ m # j.into
    <3>1. agg'[m] = agg[m]
      BY <2>1, <2>7, <1>4
    <3> QED
      BY <3>1, <2>7, <1>1, <1>2, <1>3 DEF Settled, InRow
  <2>8. CASE Settled(id) /\ m = j.into
    <3>1. CASE agg[m].kept
      <4>1. agg'[m].dirty /\ agg'[m].trades[id] > 0
        BY <2>8, <3>1, <1>4, <1>5 DEF Settled
      <4> QED
        BY <4>1 DEF Downstream
    <3>2. CASE ~agg[m].kept
      <4>1. m < hist.ref - Retention /\ rows[m][id] > 0
        BY <2>8, <3>2 DEF Settled, InRow
      <4>2. TooLate(j) = Members(rows[m])
        BY <4>1, <2>8, <3>2 DEF TooLate
      <4> QED
        BY <4>1, <4>2, <1>1, MembersAre
    <3> QED
      BY <3>1, <3>2
  <2> QED
    BY <2>2, <2>3, <2>4, <2>5, <2>6, <2>7, <2>8
<1>11. ASSUME NEW id \in Ids, id \notin hist'.again PROVE UpOnce(id)' /\ DownOnce(id)' /\ Apart(id)'
  <2>1. UpOnce(id) /\ DownOnce(id) /\ Apart(id)
    BY <1>1, <1>11 DEF Deep, Alone
  <2>2. JobOnce(queue', id) /\ j.trades[id] <= 1 /\ (j.trades[id] > 0 => InQueue(id) /\ ~InQueue(id)')
    BY <2>1, <1>6 DEF UpOnce
  <2>3. j.trades[id] > 0 => ~InAgg(id) /\ agg[j.into].trades[id] = 0
    <3>1. j.trades[id] > 0 => ~InAgg(id)
      BY <2>1, <2>2 DEF Apart
    <3>2. ~InAgg(id) => ~(agg[j.into].trades[id] > 0)
      BY <1>4 DEF InAgg
    <3>3. agg[j.into].trades[id] \in Nat
      BY <1>5
    <3> QED
      BY <3>1, <3>2, <3>3
  <2>4. agg[j.into].trades[id] <= 1
    BY <2>1, <1>4 DEF DownOnce
  <2>5. agg'[j.into].trades[id] <= 1
    BY <2>2, <2>3, <2>4, <1>5
  <2>6. DownOnce(id)'
    <3>1. \A m \in Minutes : agg'[m].trades[id] <= 1 /\ rows'[m][id] <= 1
      BY <2>1, <2>5, <1>2, <1>4 DEF DownOnce
    <3> QED
      BY <3>1, <1>3 DEF DownOnce
  <2>7. InAgg(id)' <=> InAgg(id) \/ j.trades[id] > 0
    BY <1>4, <1>5 DEF InAgg
  <2>8. Apart(id)'
    BY <2>1, <2>2, <2>3, <2>7, <1>2, <1>6, <1>9 DEF Apart
  <2>9. UpOnce(id)'
    BY <2>1, <2>2, <1>2 DEF UpOnce
  <2> QED
    BY <2>6, <2>8, <2>9
<1> QED
  BY <1>7, <1>8, <1>10, <1>11 DEF Deep, Owed, Alone

(* A flush hands what it emits to the write.                               *)
LEMMA FlushDeep ==
  ASSUME Sound, Deep, NEW ref \in 0..Minute(LastSecond) + 1, Flushes(ref),
         UNCHANGED <<feed, gap, pre, preChunk, queue, rows>>
  PROVE  Deep'
<1>1. ref \in Int /\ hist.ref \in Int /\ Retention \in Int /\ agg \in [Minutes -> MinuteChunks]
      /\ \A m \in Minutes : m \in Int
  <2>1. hist.ref \in None..Minute(LastSecond) + 1
    BY DEF Sound, Pasts
  <2> QED
    BY <2>1, MinutesAre, Sizes DEF Sound, None
<1> DEFINE ready == Ready(agg, ref)
<1>2. /\ DOMAIN worker'.out = ready /\ ready \subseteq Minutes
      /\ \A m \in Minutes : m \in ready <=> agg[m].dirty /\ m < ref
      /\ \A m \in ready : worker'.out[m] = agg[m].trades
      /\ \A m \in Minutes :
             \/ /\ agg'[m] = NoMinute /\ m < ref - Retention
                /\ agg[m].dirty => m \in ready
             \/ /\ agg'[m].kept = agg[m].kept /\ agg'[m].trades = agg[m].trades
                /\ agg'[m].dirty = (agg[m].dirty /\ m \notin ready)
  BY <1>1, FlushedIs DEF Flushes
<1>3. /\ worker.stage # "writing" /\ (worker'.stage # "writing" => ready = {})
      /\ hist'.ref = Larger(hist.ref, ref)
      /\ hist'.lost = hist.lost /\ hist'.again = hist.again /\ hist'.since = hist.since
  BY DEF Flushes
<1> HIDE DEF ready
<1>4. DOMAIN worker.out = {} /\ \A m \in Minutes : agg[m].dirty => agg[m].kept
  BY <1>3 DEF Deep, WritesTheChunk
<1>5. \A m \in Minutes : /\ m < ref - Retention => m < hist'.ref - Retention
                         /\ m < hist.ref - Retention => m < hist'.ref - Retention
  <2>1. \A x \in Int : ref <= x /\ hist.ref <= x =>
          \A m \in Minutes : /\ m < ref - Retention => m < x - Retention
                             /\ m < hist.ref - Retention => m < x - Retention
    BY <1>1
  <2>2. Larger(hist.ref, ref) \in Int /\ ref <= Larger(hist.ref, ref) /\ hist.ref <= Larger(hist.ref, ref)
    BY <1>1, LargerIs
  <2> QED
    BY <2>1, <2>2, <1>3
<1>6. ~NoMinute.kept /\ ~NoMinute.dirty /\ NoMinute.trades = NoTrades
  BY DEF NoMinute
<1>7. WritesTheChunk'
  <2>1. \A m \in Minutes : agg'[m].dirty => agg'[m].kept
    BY <1>2, <1>4, <1>6
  <2>2. \A m \in ready : IF agg'[m].kept THEN worker'.out[m] = agg'[m].trades
                         ELSE m < hist'.ref - Retention
    BY <1>2, <1>4, <1>5, <1>6
  <2> QED
    BY <2>1, <2>2, <1>2, <1>3 DEF WritesTheChunk
<1>8. SightBegins' /\ \A id \in Ids : InSight(id)' = InSight(id)
  BY <1>3, SightStays DEF Deep, feed
<1>9. \A id \in Ids : /\ InGap(id)' = InGap(id) /\ InChunk(id)' = InChunk(id)
                      /\ InPreChunk(id)' = InPreChunk(id) /\ InPre(id)' = InPre(id)
                      /\ InQueue(id)' = InQueue(id) /\ Upstream(id)' = Upstream(id)
                      /\ UpOnce(id)' = UpOnce(id)
  BY UpstreamIsSame DEF feed
<1>10. ASSUME NEW id \in Ids PROVE Kept(id)'
  <2> SUFFICES ASSUME InSight(id) PROVE id \in hist'.lost \/ Upstream(id)' \/ Downstream(id)' \/ Settled(id)'
    BY <1>8 DEF Kept
  <2> DEFINE m == MinuteOf(id)
  <2>1. m \in Minutes
    BY SeenIsOfAMinute
  <2>2. id \in hist.lost \/ Upstream(id) \/ Downstream(id) \/ Settled(id)
    BY DEF Deep, Owed, Kept
  <2>3. CASE id \in hist.lost \/ Upstream(id)
    BY <2>3, <1>3, <1>9
  <2>4. CASE Downstream(id)
    <3>1. agg[m].dirty /\ agg[m].trades[id] > 0
      BY <2>4, <1>4 DEF Downstream
    <3>2. m \in ready => m \in DOMAIN worker'.out /\ worker'.out[m][id] > 0
      BY <3>1, <1>2
    <3>3. m \notin ready => agg'[m].dirty /\ agg'[m].trades[id] > 0
      BY <3>1, <2>1, <1>2
    <3> QED
      BY <3>2, <3>3 DEF Downstream
  <2>5. CASE Settled(id)
    <3>1. /\ rows[m][id] > 0
          /\ agg[m].kept => agg[m].trades[id] > 0
          /\ ~agg[m].kept => m < hist.ref - Retention
      BY <2>5 DEF Settled, InRow
    <3>2. agg'[m].kept => agg'[m].trades[id] > 0
      BY <3>1, <2>1, <1>2, <1>6
    <3>3. ~agg'[m].kept => m < hist'.ref - Retention
      BY <3>1, <2>1, <1>2, <1>5
    <3>4. m \in DOMAIN worker'.out => worker'.out[m][id] > 0
      BY <3>1, <2>1, <1>2, <1>4
    <3> QED
      BY <3>1, <3>2, <3>3, <3>4 DEF Settled, InRow
  <2> QED
    BY <2>2, <2>3, <2>4, <2>5
<1>11. ASSUME NEW id \in Ids, id \notin hist'.again PROVE UpOnce(id)' /\ DownOnce(id)' /\ Apart(id)'
  <2>1. UpOnce(id) /\ DownOnce(id) /\ Apart(id)
    BY <1>3, <1>11 DEF Deep, Alone
  <2>2. \A m \in Minutes : /\ agg'[m].trades[id] <= 1
                           /\ agg'[m].trades[id] > 0 => agg[m].trades[id] > 0
    <3>1. NoTrades[id] <= 1 /\ ~(NoTrades[id] > 0)
      BY CountsAre
    <3> QED
      BY <3>1, <2>1, <1>2, <1>6 DEF DownOnce
  <2>3. \A m \in DOMAIN worker'.out : worker'.out[m][id] <= 1
    BY <2>1, <1>2 DEF DownOnce
  <2>4. DownOnce(id)'
    BY <2>1, <2>2, <2>3 DEF DownOnce
  <2>5. InAgg(id)' => InAgg(id)
    BY <2>2 DEF InAgg
  <2>6. Apart(id)'
    BY <2>1, <2>5, <1>9 DEF Apart, feed
  <2> QED
    BY <2>1, <2>4, <2>6, <1>9
<1> QED
  BY <1>7, <1>8, <1>10, <1>11 DEF Deep, Owed, Alone

(* Rows are written, or the write fails and what it held is lost.          *)
LEMMA WriteRowsDeep ==
  ASSUME Sound, Deep, WriteRows
  PROVE  Deep'
<1>1. PICK ms \in SUBSET (DOMAIN worker.out) : WritesOnly(ms)
  BY WriteRowsIs
<1>2. /\ \A m \in Minutes : rows'[m] = IF m \in ms THEN worker.out[m] ELSE rows[m]
      /\ hist.lost \subseteq hist'.lost
      /\ hist'.again = hist.again /\ hist'.since = hist.since /\ hist'.ref = hist.ref
      /\ \A m \in DOMAIN worker.out \ ms : \A id \in Ids : worker.out[m][id] > 0 => id \in hist'.lost
  BY <1>1 DEF WritesOnly
<1>3. worker' = Idle /\ DOMAIN Idle.out = {} /\ ms \subseteq DOMAIN worker.out
  BY <1>1, WriteRowsIs DEF Idle, NoRows
<1>4. UNCHANGED <<gap, chunk, preChunk, pre, queue, agg, session>>
  BY DEF WriteRows, feed
<1>5. WritesTheChunk /\ \A m \in DOMAIN worker.out : m \in Minutes
  BY DEF Deep, Sound, WorkerFits
<1>6. WritesTheChunk'
  BY <1>3, <1>4, <1>5 DEF WritesTheChunk
<1>7. SightBegins' /\ \A id \in Ids : InSight(id)' = InSight(id)
  BY <1>2, <1>4, SightStays DEF Deep
<1>8. \A id \in Ids : /\ InGap(id)' = InGap(id) /\ InChunk(id)' = InChunk(id)
                      /\ InPreChunk(id)' = InPreChunk(id) /\ InPre(id)' = InPre(id)
                      /\ InQueue(id)' = InQueue(id) /\ Upstream(id)' = Upstream(id)
                      /\ UpOnce(id)' = UpOnce(id)
  BY <1>4, UpstreamIsSame
<1>9. ASSUME NEW id \in Ids PROVE Kept(id)'
  <2> SUFFICES ASSUME InSight(id) PROVE id \in hist'.lost \/ Upstream(id)' \/ Downstream(id)' \/ Settled(id)'
    BY <1>7 DEF Kept
  <2> DEFINE m == MinuteOf(id)
  <2>1. m \in Minutes
    BY SeenIsOfAMinute
  <2>2. id \in hist.lost \/ Upstream(id) \/ Downstream(id) \/ Settled(id)
    BY DEF Deep, Owed, Kept
  <2>3. CASE id \in hist.lost \/ Upstream(id)
    BY <2>3, <1>2, <1>8
  <2>4. CASE agg[m].dirty /\ agg[m].trades[id] > 0
    BY <2>4, <1>4 DEF Downstream
  <2>5. CASE m \in DOMAIN worker.out \ ms /\ worker.out[m][id] > 0
    BY <2>5, <1>2
  <2>6. CASE m \in ms /\ worker.out[m][id] > 0
    <3>1. rows'[m][id] > 0
      BY <2>1, <2>6, <1>2
    <3>2. agg[m].kept => agg[m].trades[id] > 0
      BY <2>6, <1>3, <1>5 DEF WritesTheChunk
    <3>3. ~agg[m].kept => m < hist.ref - Retention
      BY <2>6, <1>3, <1>5 DEF WritesTheChunk
    <3> QED
      BY <3>1, <3>2, <3>3, <1>2, <1>3, <1>4 DEF Settled, InRow
  <2>7. CASE Settled(id) /\ m \notin ms
    <3>1. rows'[m] = rows[m]
      BY <2>1, <2>7, <1>2
    <3> QED
      BY <3>1, <2>7, <1>2, <1>3, <1>4 DEF Settled, InRow
  <2>8. CASE Settled(id) /\ m \in ms
    <3>1. worker.out[m][id] > 0
      BY <2>8, <1>3, <1>5 DEF Settled, WritesTheChunk
    <3> QED
      BY <2>6, <2>8, <3>1
  <2> QED
    BY <2>2, <2>3, <2>4, <2>5, <2>6, <2>7, <2>8 DEF Downstream
<1>10. ASSUME NEW id \in Ids, id \notin hist'.again PROVE UpOnce(id)' /\ DownOnce(id)' /\ Apart(id)'
  <2>1. UpOnce(id) /\ DownOnce(id) /\ Apart(id)
    BY <1>2, <1>10 DEF Deep, Alone
  <2>2. \A m \in Minutes : rows'[m][id] <= 1
    BY <2>1, <1>2, <1>3 DEF DownOnce
  <2>3. DownOnce(id)'
    BY <2>1, <2>2, <1>3, <1>4 DEF DownOnce
  <2>4. InAgg(id)' = InAgg(id)
    BY <1>4 DEF InAgg
  <2>5. Apart(id)'
    BY <2>1, <2>4, <1>4, <1>8 DEF Apart
  <2> QED
    BY <2>1, <2>3, <2>5, <1>8
<1> QED
  BY <1>6, <1>7, <1>9, <1>10 DEF Deep, Owed, Alone

(* A replayed bar wipes the row of its minute, and what it held is lost.   *)
LEMMA BarReplayDeep ==
  ASSUME Sound, Deep, NEW w \in {"gap", "sync"}, BarReplay(w)
  PROVE  Deep'
<1>1. /\ UNCHANGED <<gap, chunk, preChunk, pre, queue, agg, worker, session>>
      /\ \/ UNCHANGED <<rows, hist>>
         \/ \E m \in Minutes : /\ rows' = [rows EXCEPT ![m] = NoTrades]
                               /\ hist' = [hist EXCEPT !.lost = @ \cup Members(rows[m])]
  BY BarReplayIs DEF feed
<1>2. CASE UNCHANGED <<rows, hist>>
  <2>1. \A id \in Ids : InGap(id)' = InGap(id)
    BY <1>1, GapIsSame
  <2> QED
    BY <2>1, <1>1, <1>2, QuietDeep
<1>3. CASE \E m \in Minutes : /\ rows' = [rows EXCEPT ![m] = NoTrades]
                              /\ hist' = [hist EXCEPT !.lost = @ \cup Members(rows[m])]
  <2>1. PICK x \in Minutes : /\ rows' = [rows EXCEPT ![x] = NoTrades]
                             /\ hist' = [hist EXCEPT !.lost = @ \cup Members(rows[x])]
    BY <1>3
  <2>2. /\ hist'.lost = hist.lost \cup Members(rows[x]) /\ hist'.again = hist.again
        /\ hist'.since = hist.since /\ hist'.ref = hist.ref
    BY <2>1, MembersAre, LosesFits DEF Sound
  <2>3. \A m \in Minutes : rows'[m] = IF m = x THEN NoTrades ELSE rows[m]
    BY <2>1 DEF Sound
  <2>4. WritesTheChunk'
    BY <1>1, <2>2 DEF Deep, WritesTheChunk
  <2>5. SightBegins' /\ \A id \in Ids : InSight(id)' = InSight(id)
    BY <1>1, <2>2, SightStays DEF Deep
  <2>6. \A id \in Ids : /\ InGap(id)' = InGap(id) /\ InChunk(id)' = InChunk(id)
                        /\ InPreChunk(id)' = InPreChunk(id) /\ InPre(id)' = InPre(id)
                        /\ InQueue(id)' = InQueue(id) /\ Upstream(id)' = Upstream(id)
                        /\ UpOnce(id)' = UpOnce(id)
    BY <1>1, UpstreamIsSame
  <2>7. ASSUME NEW id \in Ids PROVE Kept(id)'
    <3> SUFFICES ASSUME InSight(id) PROVE id \in hist'.lost \/ Upstream(id)' \/ Downstream(id)' \/ Settled(id)'
      BY <2>5 DEF Kept
    <3>1. MinuteOf(id) \in Minutes
      BY SeenIsOfAMinute
    <3>2. id \in hist.lost \/ Upstream(id) \/ Downstream(id) \/ Settled(id)
      BY DEF Deep, Owed, Kept
    <3>3. Downstream(id)' = Downstream(id)
      BY <1>1 DEF Downstream
    <3>4. CASE Settled(id) /\ MinuteOf(id) = x
      BY <3>4, <2>2, MembersAre DEF Settled, InRow
    <3>5. CASE Settled(id) /\ MinuteOf(id) # x
      <4>1. rows'[MinuteOf(id)] = rows[MinuteOf(id)]
        BY <3>1, <3>5, <2>3
      <4> QED
        BY <4>1, <3>5, <1>1, <2>2 DEF Settled, InRow
    <3> QED
      BY <3>2, <3>3, <3>4, <3>5, <2>2, <2>6
  <2>8. ASSUME NEW id \in Ids, id \notin hist'.again PROVE UpOnce(id)' /\ DownOnce(id)' /\ Apart(id)'
    <3>1. UpOnce(id) /\ DownOnce(id) /\ Apart(id)
      BY <2>2, <2>8 DEF Deep, Alone
    <3>2. \A m \in Minutes : rows'[m][id] <= 1
      BY <3>1, <2>3, CountsAre DEF DownOnce
    <3>3. DownOnce(id)'
      BY <3>1, <3>2, <1>1 DEF DownOnce
    <3>4. InAgg(id)' = InAgg(id)
      BY <1>1 DEF InAgg
    <3>5. Apart(id)'
      BY <3>1, <3>4, <1>1, <2>6 DEF Apart
    <3> QED
      BY <3>1, <3>3, <3>5, <2>6
  <2> QED
    BY <2>4, <2>5, <2>7, <2>8 DEF Deep, Owed, Alone
<1> QED
  BY <1>1, <1>2, <1>3

-----------------------------------------------------------------------------
(* Only a trade that happened is fetched again.                            *)
OnlyPast == hist.again \subseteq 1..head

LEMMA OnlyPastHolds ==
  ASSUME Sound, OnlyPast, [Next]_vars
  PROVE  OnlyPast'
<1>1. \A h \in Nat : head <= h => 1..head \subseteq 1..h
  BY NumbersAre
<1>2. CASE Trade
  <2>1. head + 1 \in Nat /\ head <= head + 1
    BY NumbersAre
  <2>2. 1..head \subseteq 1..(head + 1)
    BY <2>1, <1>1
  <2> QED
    BY <1>2, <2>2 DEF OnlyPast, Trade
<1>3. CASE SyncEmit
  <2>1. head' = head /\ sync.next \in 1..head /\ hist'.again = hist.again \cup {sync.next}
    BY <1>3, SyncEmitIs DEF SyncEmit
  <2> QED
    BY <2>1 DEF OnlyPast
<1>4. CASE Restart
  <2>1. head' = head /\ hist'.again = 1..head
    BY <1>4, RestartIs DEF Restart
  <2> QED
    BY <2>1 DEF OnlyPast
<1>5. ASSUME head' = head, hist'.again = hist.again PROVE OnlyPast'
  BY <1>5 DEF OnlyPast
<1>6. CASE ReceiveTrade
  <2>1. PICK id \in Ids : session.seen < id /\ id <= head /\ HandleTradeGap(id)
    BY <1>6, ReceiveTradeIs
  <2>2. hist'.again = hist.again
    <3>1. id \in Nat
      BY IdsAre
    <3> QED
      BY <2>1, <3>1, DetectorMoves
  <2>3. head' = head
    BY <1>6 DEF ReceiveTrade
  <2> QED
    BY <2>2, <2>3, <1>5
<1>7. CASE GapFetchFails
  <2>1. head' = head /\ hist' = [hist EXCEPT !.lost = @ \cup OwedBy(gap)]
    BY <1>7 DEF GapFetchFails
  <2>2. hist'.again = hist.again
    BY <2>1, OwedAre, LosesFits DEF Sound
  <2> QED
    BY <2>1, <2>2, <1>5
<1>8. CASE \E w \in {"gap", "sync"} : BarReplay(w)
  <2>1. PICK w \in {"gap", "sync"} : BarReplay(w)
    BY <1>8
  <2>2. /\ head' = head
        /\ \/ UNCHANGED hist
           \/ \E m \in Minutes : hist' = [hist EXCEPT !.lost = @ \cup Members(rows[m])]
    BY <2>1, BarReplayIs
  <2>3. hist \in Pasts
    BY DEF Sound
  <2>4. hist'.again = hist.again
    BY <2>2, <2>3 DEF Pasts
  <2> QED
    BY <2>2, <2>4, <1>5
<1>9. CASE TakeJob
  <2>1. head' = head /\ hist'.again = hist.again
    BY <1>9, TakeJobIs DEF TakeJob
  <2> QED
    BY <2>1, <1>5
<1>10. CASE EndBatch
  <2>1. head' = head /\ hist'.again = hist.again
    BY <1>10, EndBatchIs DEF EndBatch, Flushes
  <2> QED
    BY <2>1, <1>5
<1>11. CASE FlushTick
  <2>1. head' = head /\ hist'.again = hist.again
    BY <1>11, FlushTickIs DEF FlushTick, Flushes
  <2> QED
    BY <2>1, <1>5
<1>12. CASE WriteRows
  <2>1. head' = head /\ hist'.again = hist.again
    BY <1>12, WriteRowsIs DEF WriteRows, WritesOnly
  <2> QED
    BY <2>1, <1>5
<1>13. CASE \/ Tick \/ Connect \/ ConnectFails \/ Drop \/ ReceiveBar \/ FlushExpired \/ GapFetch
            \/ GapEmit \/ SyncFetch \/ SyncFetchFails \/ PrebatchRecv \/ PrebatchTick
            \/ SaveCheckpoint \/ (\E w \in {"gap", "sync"} : BarsFetch(w)) \/ UNCHANGED vars
  <2>1. head' = head /\ hist' = hist
    BY <1>13 DEF Tick, Connect, ConnectFails, Drop, ReceiveBar, FlushExpired, GapFetch, GapEmit,
       SyncFetch, SyncFetchFails, PrebatchRecv, PrebatchTick, SaveCheckpoint, BarsFetch, vars
  <2> QED
    BY <2>1, <1>5
<1> QED
  BY <1>2, <1>3, <1>4, <1>6, <1>7, <1>8, <1>9, <1>10, <1>11, <1>12, <1>13 DEF Next

(* Nothing is in sight of a process that starts, and nothing held.         *)
Empty ==
    /\ chunk = NoChunk /\ gap = NoReplay /\ pre = <<>> /\ preChunk = NoChunk /\ queue = <<>>
    /\ agg = [m \in Minutes |-> NoMinute] /\ worker = Idle

NothingHeld ==
    /\ WritesTheChunk
    /\ \A id \in Ids : /\ UpOnce(id) /\ Apart(id)
                       /\ (\A m \in Minutes : rows[m][id] <= 1) => DownOnce(id)

LEMMA EmptyHolds == Empty => NothingHeld
<1> SUFFICES ASSUME Empty PROVE NothingHeld
  OBVIOUS
<1>1. \A m \in Minutes : agg[m].trades = NoTrades /\ ~agg[m].dirty
  BY DEF Empty, NoMinute
<1>2. DOMAIN worker.out = {}
  BY DEF Empty, Idle, NoRows
<1>3. WritesTheChunk
  BY <1>1, <1>2 DEF WritesTheChunk
<1>4. ASSUME NEW id \in Ids
      PROVE  /\ UpOnce(id) /\ Apart(id)
             /\ (\A m \in Minutes : rows[m][id] <= 1) => DownOnce(id)
  <2>1. ~(NoTrades[id] > 0) /\ NoTrades[id] <= 1
    BY CountsAre
  <2>2. ~InChunk(id) /\ ~InPreChunk(id) /\ chunk.trades[id] <= 1 /\ preChunk.trades[id] <= 1
    BY NoChunkIs DEF Empty, InChunk, InPreChunk
  <2>3. ~InPre(id) /\ ~InQueue(id) /\ IdOnce(pre, id) /\ JobOnce(queue, id)
    BY NothingIsIn DEF Empty, InPre, InQueue
  <2>4. ~InAgg(id)
    BY <1>1, <2>1 DEF InAgg
  <2>5. (\A m \in Minutes : rows[m][id] <= 1) => DownOnce(id)
    BY <1>1, <1>2, <2>1 DEF DownOnce
  <2> QED
    BY <2>2, <2>3, <2>4, <2>5 DEF UpOnce, Apart
<1> QED
  BY <1>3, <1>4 DEF NothingHeld

LEMMA RestartDeep ==
  ASSUME Sound, Deep, OnlyPast, Restart
  PROVE  Deep'
<1>1. PICK seen \in 0..head :
         /\ session'.seen = seen /\ hist'.since = (IF seen = 0 THEN 0 ELSE seen + 1)
         /\ hist'.again = 1..head
  BY RestartIs
<1>2. rows' = rows
  BY DEF Restart
<1>3. Empty'
  BY DEF Restart, Empty
<1>4. /\ WritesTheChunk'
      /\ \A id \in Ids : /\ UpOnce(id)' /\ Apart(id)'
                         /\ (\A m \in Minutes : rows'[m][id] <= 1) => DownOnce(id)'
  <2>1. NothingHeld'
    BY <1>3, EmptyHolds, PTL
  <2> QED
    BY <2>1 DEF NothingHeld
<1>5. SightBegins' /\ \A id \in Ids : ~InSight(id)'
  <2>1. seen \in Nat /\ \A id \in Ids : id \in Nat
    BY NumbersAre, IdsAre
  <2>2. \A x \in Nat : /\ (x = 0 <=> (IF x = 0 THEN 0 ELSE x + 1) = 0)
                       /\ (IF x = 0 THEN 0 ELSE x + 1) <= x + 1
                       /\ \A id \in Nat : ~(x # 0 /\ x + 1 <= id /\ id <= x)
    OBVIOUS
  <2>3. SightBegins'
    BY <2>1, <2>2, <1>1 DEF SightBegins
  <2>4. \A id \in Ids : ~InSight(id)'
    BY <2>1, <2>2, <1>1 DEF InSight
  <2> QED
    BY <2>3, <2>4
<1>6. ASSUME NEW id \in Ids, id \notin hist'.again PROVE DownOnce(id)'
  <2>1. id \notin hist.again
    BY <1>1, <1>6 DEF OnlyPast
  <2>2. \A m \in Minutes : rows[m][id] <= 1
    BY <2>1 DEF Deep, Alone, DownOnce
  <2> QED
    BY <2>2, <1>2, <1>4
<1> QED
  BY <1>4, <1>5, <1>6 DEF Deep, Owed, Kept, Alone

LEMMA InitDeep == Init => Deep /\ OnlyPast
<1> SUFFICES ASSUME Init PROVE Deep /\ OnlyPast
  OBVIOUS
<1>1. /\ hist.since = 0 /\ session.seen = 0 /\ hist.again = {}
      /\ rows = [m \in Minutes |-> NoTrades]
  BY DEF Init
<1>2. NothingHeld
  BY EmptyHolds DEF Init, Empty
<1>3. \A id \in Ids : ~InSight(id)
  BY <1>1 DEF InSight
<1>4. SightBegins
  BY <1>1 DEF SightBegins
<1>5. \A id \in Ids : DownOnce(id)
  BY <1>1, <1>2, CountsAre DEF NothingHeld
<1> QED
  BY <1>1, <1>2, <1>3, <1>4, <1>5 DEF Deep, OnlyPast, Owed, Kept, Alone, NothingHeld

-----------------------------------------------------------------------------
(* The inductive invariant, and what follows from it.                      *)
IInv == Sound /\ Deep /\ OnlyPast

LEMMA StepDeep ==
  ASSUME Sound, Deep, OnlyPast, [Next]_vars
  PROVE  Deep'
<1>1. CASE UNCHANGED vars
  <2>1. /\ UNCHANGED <<chunk, preChunk, pre, queue, agg, worker, rows, hist>>
        /\ session'.seen = session.seen /\ gap' = gap
    BY <1>1 DEF vars
  <2> QED
    BY <2>1, GapIsSame, QuietDeep
<1>2. CASE EndBatch
  BY <1>2, EndBatchIs, FlushDeep DEF EndBatch
<1>3. CASE FlushTick
  BY <1>3, FlushTickIs, FlushDeep DEF FlushTick
<1> QED
  BY <1>1, <1>2, <1>3, QuietStepsDeep, GapFetchDeep, DropDeep, FlushExpiredDeep, PrebatchTickDeep,
     ReceiveBarDeep, ReceiveTradeDeep, GapEmitDeep, GapFetchFailsDeep, SyncEmitDeep,
     PrebatchRecvDeep, TakeJobDeep, WriteRowsDeep, BarReplayDeep, RestartDeep DEF Next

(* The state of the trade lane keeps to the invariant in every execution.  *)
THEOREM Invariance == Spec => []IInv
<1>1. Init => IInv
  BY InitSound, InitDeep DEF IInv
<1>2. IInv /\ [Next]_vars => IInv'
  BY StepSound, StepDeep, OnlyPastHolds DEF IInv
<1> QED
  BY <1>1, <1>2, PTL DEF Spec

(* The state keeps its type: no channel overflows, no checkpoint or id is  *)
(* beyond the newest trade, and every count stays in its bounds.           *)
THEOREM TypeInvariant == Spec => []TypeOK
<1>1. IInv => TypeOK
  BY SoundIsTyped DEF IInv
<1> QED
  BY <1>1, Invariance, PTL

LEMMA RangesAre ==
  ASSUME Sound, NEW id \in Ids
  PROVE  /\ InPre(id) => id \in Range(pre)
         /\ InQueue(id) => \E j \in Range(queue) : j.trades[id] > 0
<1>1. pre \in Seq(1..head) /\ queue \in Seq(Jobs)
  BY DEF Sound, QueueFits
<1>2. DOMAIN pre = 1..Len(pre) /\ DOMAIN queue = 1..Len(queue)
  BY <1>1
<1> QED
  BY <1>2 DEF InPre, InIds, InQueue, InJobs, Range

(* Every trade that the detector has passed is in its row or on its way    *)
(* there, or it was lost in one of the ways that hist.lost records: no     *)
(* step of the tasks, no dropped session, failed page or failed write lets *)
(* one disappear otherwise.                                                *)
THEOREM NoTradeVanishesHolds == Spec => []NoTradeVanishes
<1>1. IInv => NoTradeVanishes
  <2> SUFFICES ASSUME IInv, NEW id \in Ids, InSight(id), id \notin hist.lost
               PROVE  OnItsWay(id) \/ InRow(id)
    BY DEF NoTradeVanishes
  <2>1. Upstream(id) \/ Downstream(id) \/ Settled(id)
    BY DEF IInv, Deep, Owed, Kept
  <2>2. Upstream(id) => OnItsWay(id)
    BY RangesAre DEF IInv, Upstream, InGap, InChunk, InPreChunk, OnItsWay
  <2>3. Downstream(id) => OnItsWay(id)
    BY DEF Downstream, OnItsWay
  <2> QED
    BY <2>1, <2>2, <2>3 DEF Settled
<1> QED
  BY <1>1, Invariance, PTL

(* The aggregator and the rows count a trade once unless a reconcile or a  *)
(* restart has it fetched again, although neither remembers any id: the    *)
(* live chunk, a gap's replay and the queue never hold the same trade.     *)
THEOREM TwiceOnlyIfRefetchedHolds == Spec => []TwiceOnlyIfRefetched
<1>1. IInv => TwiceOnlyIfRefetched
  <2> SUFFICES ASSUME IInv, NEW m \in Minutes, NEW id \in Ids,
                      rows[m][id] > 1 \/ agg[m].trades[id] > 1
               PROVE  id \in hist.again
    BY DEF TwiceOnlyIfRefetched
  <2>1. rows[m][id] \in Nat /\ agg[m].trades[id] \in Nat
    <3>1. rows \in [Minutes -> Counts] /\ agg \in [Minutes -> MinuteChunks]
      BY DEF IInv, Sound
    <3>2. rows[m] \in Counts /\ agg[m].trades \in Counts
      BY <3>1 DEF MinuteChunks
    <3> QED
      BY <3>2, CountsAre
  <2>2. ~(rows[m][id] <= 1 /\ agg[m].trades[id] <= 1)
    BY <2>1
  <2> QED
    BY <2>2 DEF IInv, Deep, Alone, DownOnce
<1> QED
  BY <1>1, Invariance, PTL

=============================================================================
