-------------------------- MODULE DepthBookProofs --------------------------
(***************************************************************************)
(* Machine-checked proofs that the safety properties of DepthBook hold for *)
(* every number of levels, messages, sessions, losses and failures, and    *)
(* every chunk size.                                                       *)
(***************************************************************************)
EXTENDS DepthBook, WellFoundedInduction, TLAPS

Quantities == 0..MaxUpdates
Entries == [level : Levels, qty : Quantities]
Snapshots == [at : Quantities, second : 0..LastSecond]
LevelState == [qty : Nat, last : Nat, sum : Nat]

(* What TypeOK leaves out.                                                 *)
RebuilderTypes ==
    /\ bound \in Scenarios
    /\ pending \in BOOLEAN /\ request \in BOOLEAN
    /\ queue \in [open : BOOLEAN, snapshots : Seq(Snapshots)]
    /\ rebuilder \in [stage : {"starting", "idle", "asked", "answered"}, byGap : BOOLEAN, at : Quantities]
    /\ hist \in [got : SUBSET Quantities, gaps : SUBSET (Nat \X Nat), snapshot : Quantities, failures : Nat]

(* A snapshot is of the messages so far, and only a run is ever by a gap.  *)
SnapshotsAreBehind ==
    /\ rebuilder.at <= Len(feed)
    /\ \A k \in 1..Len(queue.snapshots) : queue.snapshots[k].at <= Len(feed)
    /\ rebuilder.stage \in {"starting", "idle"} => ~rebuilder.byGap

(* The last of the first n messages of f on level l, and the book that     *)
(* they make.                                                              *)
On(f, l, n) == {i \in 1..n : f[i].level = l}
LastIn(f, l, n) == Max({0} \cup On(f, l, n))
BookIn(f, n) == [l \in Levels |-> IF LastIn(f, l, n) = 0 THEN 0 ELSE f[LastIn(f, l, n)].qty]

(* The wire holds what the exchange sent since the newest message that was *)
(* delivered: every depth message once and in order, and quotes as of the  *)
(* message before them.                                                    *)
Before(k) == IF k = 1 THEN session.head ELSE wire[k - 1].n
StreamIsInOrder ==
    /\ \A k \in 1..Len(wire) :
           /\ wire[k].n <= Len(feed)
           /\ wire[k].n = IF wire[k].quote THEN Before(k) ELSE Before(k) + 1
           /\ wire[k].qty = IF wire[k].quote THEN BookIn(feed, wire[k].n)[wire[k].level]
                            ELSE feed[wire[k].n].qty
           /\ ~wire[k].quote => wire[k].level = feed[wire[k].n].level
    /\ session.up => Before(Len(wire) + 1) = Len(feed)

(* The baseline is the newest message of all that were received, which the *)
(* session has delivered; no gap reaches beyond it.                        *)
DetectorIsBehind ==
    /\ hist.got = {} => baseline = 0 /\ hist.gaps = {}
    /\ hist.got # {} => \E n \in hist.got : baseline = Final(n) /\ \A i \in hist.got : i <= n
    /\ \A i \in hist.got : i <= session.head
    /\ \A g \in hist.gaps : g[2] <= baseline

(* An open chunk has the quantities of its book, and what a level has      *)
(* weighed so far and not been visited for is as the whole book's sum.     *)
Chunks == [second : Nat, cursor : Nat, heat : [Levels -> LevelState]]
Sound(c, quantities, weighs) ==
    \A l \in Levels :
        /\ c.heat[l].qty = quantities[l] /\ c.heat[l].last <= c.cursor
        /\ c.heat[l].sum + c.heat[l].qty * (c.cursor - c.heat[l].last) = weighs[l]
ChunksFollow ==
    /\ chunk \in [Books -> Chunks \cup {NoChunk}]
    /\ weight \in [Books -> [Levels -> Nat]]
    /\ \A b \in Books : chunk[b] # NoChunk => Sound(chunk[b], book[b], weight[b])
    /\ ~session.up => chunk["session"] = NoChunk

IInv ==
    /\ TypeOK
    /\ RebuilderTypes
    /\ SnapshotsAreBehind
    /\ StreamIsInOrder
    /\ DetectorIsBehind
    /\ ChunksFollow
    /\ SessionBookIsCurrent
    /\ GapsAreTheLosses

-----------------------------------------------------------------------------
(* Every nonempty set of natural numbers has a least element, and one with *)
(* an upper bound has a greatest; Min and Max choose them.                 *)
LEMMA LeastExists ==
  ASSUME NEW T, T \subseteq Nat, T # {}
  PROVE  \E x \in T : \A y \in T : x <= y
<1>1. IsWellFoundedOn(OpToRel(<, Nat), Nat)
  BY NatLessThanWellFounded
<1>2. PICK x \in T : \A y \in T : <<y, x>> \notin OpToRel(<, Nat)
  BY <1>1, WFMin
<1>3. \A y \in T : ~(y < x)
  BY <1>2 DEF OpToRel
<1> QED
  BY <1>3

LEMMA MinIs ==
  ASSUME NEW T, T \subseteq Nat, T # {}
  PROVE  Min(T) \in T /\ \A y \in T : Min(T) <= y
BY LeastExists DEF Min

LEMMA MaxIs ==
  ASSUME NEW top \in Nat, NEW T, T \subseteq 0..top, T # {}
  PROVE  Max(T) \in T /\ \A y \in T : y <= Max(T)
<1> DEFINE U == {d \in 0..top : top - d \in T}
<1>1. U # {} /\ U \subseteq Nat
  <2>1. PICK x \in T : TRUE
    OBVIOUS
  <2>2. top - x \in 0..top /\ top - (top - x) = x
    BY <2>1
  <2>3. top - x \in U
    BY <2>1, <2>2
  <2>4. U \subseteq Nat
    OBVIOUS
  <2> HIDE DEF U
  <2> QED
    BY <2>3, <2>4
<1>2. PICK d \in U : \A e \in U : d <= e
  BY <1>1, LeastExists
<1>3. \A y \in T : top - y \in U
  <2> TAKE y \in T
  <2>1. top - y \in 0..top /\ top - (top - y) = y
    OBVIOUS
  <2> QED
    BY <2>1
<1>4. \A y \in T : d <= top - y
  BY <1>2, <1>3
<1>5. top - d \in T /\ d \in 0..top
  BY <1>2
<1>6. \A y \in T : y <= top - d
  BY <1>4, <1>5
<1>7. \E x \in T : \A y \in T : x >= y
  BY <1>5, <1>6
<1>8. Max(T) \in T /\ \A y \in T : Max(T) >= y
  BY <1>7 DEF Max
<1> QED
  BY <1>8

(* Of two numbers it is the larger one.                                    *)
LEMMA MaxOfTwo ==
  ASSUME NEW a \in Nat, NEW b \in Nat, a <= b
  PROVE  Max({a, b}) = b
<1>1. {a, b} \subseteq 0..b /\ {a, b} # {}
  OBVIOUS
<1>2. Max({a, b}) \in {a, b} /\ b <= Max({a, b})
  BY <1>1, MaxIs
<1> QED
  BY <1>2

-----------------------------------------------------------------------------
(* The book after the first n messages.                                    *)
LEMMA LastOnIs == \A l, n : LastOn(l, n) = LastIn(feed, l, n)
BY DEF LastOn, LastIn, On

LEMMA TrueBookIs == \A n : TrueBook(n) = BookIn(feed, n)
BY LastOnIs DEF TrueBook, BookIn

LEMMA LastInIs ==
  ASSUME NEW f, NEW l, NEW n \in Nat
  PROVE  /\ LastIn(f, l, n) \in {0} \cup On(f, l, n)
         /\ LastIn(f, l, n) \in 0..n
         /\ \A i \in On(f, l, n) : i <= LastIn(f, l, n)
<1>1. {0} \cup On(f, l, n) \subseteq 0..n
  BY DEF On
<1>2. {0} \cup On(f, l, n) # {}
  OBVIOUS
<1>3. /\ LastIn(f, l, n) \in {0} \cup On(f, l, n)
      /\ \A i \in {0} \cup On(f, l, n) : i <= LastIn(f, l, n)
  BY <1>1, <1>2, MaxIs DEF LastIn
<1> QED
  BY <1>1, <1>3

(* One more message is the last of its level, and of no other.             *)
LEMMA LastInStep ==
  ASSUME NEW f, NEW l, NEW n \in Nat
  PROVE  LastIn(f, l, n + 1) = IF f[n + 1].level = l THEN n + 1 ELSE LastIn(f, l, n)
<1>1. CASE f[n + 1].level = l
  <2>1. n + 1 \in On(f, l, n + 1)
    BY <1>1 DEF On
  <2>2. /\ LastIn(f, l, n + 1) \in 0..(n + 1)
        /\ \A i \in On(f, l, n + 1) : i <= LastIn(f, l, n + 1)
    BY LastInIs, n + 1 \in Nat
  <2>3. n + 1 <= LastIn(f, l, n + 1)
    BY <2>1, <2>2
  <2> QED
    BY <1>1, <2>2, <2>3
<1>2. CASE f[n + 1].level # l
  <2>1. On(f, l, n + 1) = On(f, l, n)
    BY <1>2 DEF On
  <2> QED
    BY <1>2, <2>1 DEF LastIn
<1> QED
  BY <1>1, <1>2

(* What has been sent is not changed by what comes after.                  *)
LEMMA LastInSame ==
  ASSUME NEW f, NEW g, NEW n \in Nat, \A i \in 1..n : f[i] = g[i]
  PROVE  /\ \A l : LastIn(f, l, n) = LastIn(g, l, n)
         /\ BookIn(f, n) = BookIn(g, n)
<1>1. \A l : On(f, l, n) = On(g, l, n)
  BY DEF On
<1>2. \A l : LastIn(f, l, n) = LastIn(g, l, n)
  BY <1>1 DEF LastIn
<1>3. \A l : LastIn(f, l, n) # 0 => f[LastIn(f, l, n)] = g[LastIn(f, l, n)]
  <2> TAKE l
  <2>1. LastIn(f, l, n) \in {0} \cup On(f, l, n)
    BY LastInIs
  <2> QED
    BY <2>1 DEF On
<1> QED
  BY <1>2, <1>3 DEF BookIn

LEMMA BookInType ==
  ASSUME NEW f \in Seq(Entries), NEW n \in 0..Len(f), MaxUpdates \in Nat
  PROVE  BookIn(f, n) \in [Levels -> Quantities]
<1>1. n \in Nat /\ Len(f) \in Nat
  OBVIOUS
<1>2. \A l : LastIn(f, l, n) # 0 => LastIn(f, l, n) \in 1..Len(f)
  <2> TAKE l
  <2>1. LastIn(f, l, n) \in 0..n
    BY <1>1, LastInIs
  <2> QED
    BY <2>1, <1>1
<1>3. \A i \in 1..Len(f) : f[i].qty \in Quantities
  <2> TAKE i \in 1..Len(f)
  <2>1. f[i] \in Entries
    OBVIOUS
  <2> QED
    BY <2>1 DEF Entries
<1>4. 0 \in Quantities
  BY DEF Quantities
<1> QED
  BY <1>2, <1>3, <1>4 DEF BookIn

(* The book after one more message differs on its level.                   *)
LEMMA BookInStep ==
  ASSUME NEW f, NEW n \in Nat, NEW l \in Levels
  PROVE  BookIn(f, n + 1)[l] = IF f[n + 1].level = l THEN f[n + 1].qty ELSE BookIn(f, n)[l]
<1>1. LastIn(f, l, n + 1) = IF f[n + 1].level = l THEN n + 1 ELSE LastIn(f, l, n)
  BY LastInStep
<1>2. n + 1 # 0
  OBVIOUS
<1> QED
  BY <1>1, <1>2 DEF BookIn

LEMMA AppendIs ==
  ASSUME NEW S, NEW s \in Seq(S), NEW e \in S
  PROVE  /\ Append(s, e) \in Seq(S)
         /\ Len(Append(s, e)) = Len(s) + 1
         /\ \A i \in 1..Len(s) : Append(s, e)[i] = s[i]
         /\ Append(s, e)[Len(s) + 1] = e
OBVIOUS

LEMMA TailIs ==
  ASSUME NEW S, NEW s \in Seq(S), s # <<>>
  PROVE  /\ Tail(s) \in Seq(S)
         /\ Len(Tail(s)) = Len(s) - 1
         /\ Len(s) \in Nat \ {0}
         /\ \A i \in 1..Len(Tail(s)) : Tail(s)[i] = s[i + 1]
         /\ Head(s) = s[1] /\ Head(s) \in S
OBVIOUS

-----------------------------------------------------------------------------
(* A sample adds every level's new quantity to what it has weighed, whether *)
(* the level is visited or not.                                            *)
LEMMA VisitWeighs ==
  ASSUME NEW qty \in Nat, NEW last \in Nat, NEW sum \in Nat, NEW cursor \in Nat,
         last <= cursor, NEW new \in Nat
  PROVE  /\ qty * (cursor - last) \in Nat
         /\ sum + qty * (cursor - last) \in Nat
         /\ sum + qty * ((cursor + 1) - last) = qty + (sum + qty * (cursor - last))
         /\ \A w \in Nat : w + new * ((cursor + 1) - cursor) = new + w
<1>1. \A d \in Nat : qty * d \in Nat /\ qty * (d + 1) = qty * d + qty
  OBVIOUS
<1>2. cursor - last \in Nat /\ (cursor + 1) - last = (cursor - last) + 1
  OBVIOUS
<1>3. qty * (cursor - last) \in Nat /\ qty * ((cursor + 1) - last) = qty * (cursor - last) + qty
  BY <1>1, <1>2
<1>4. (cursor + 1) - cursor = 1 /\ new * 1 = new
  OBVIOUS
<1>5. \A x \in Nat, y \in Nat : sum + x \in Nat /\ (y = x + qty => sum + y = qty + (sum + x))
  OBVIOUS
<1>6. qty * ((cursor + 1) - last) \in Nat
  BY <1>1, <1>2
<1>7. /\ sum + qty * (cursor - last) \in Nat
      /\ sum + qty * ((cursor + 1) - last) = qty + (sum + qty * (cursor - last))
  BY <1>3, <1>5, <1>6
<1> QED
  BY <1>3, <1>4, <1>7

SampleOf(c, changed, new) ==
    [c EXCEPT !.cursor = @ + 1,
              !.heat = [l \in Levels |-> IF l \in changed THEN Visit(@[l], new[l], c.cursor)
                                                          ELSE @[l]]]

LEMMA SampleIsSound ==
  ASSUME NEW c \in Chunks, NEW old \in [Levels -> Nat], NEW w \in [Levels -> Nat],
         NEW new \in [Levels -> Nat], NEW sums, sums = [l \in Levels |-> new[l] + w[l]],
         NEW changed, Sound(c, old, w), \A l \in Levels : l \notin changed => new[l] = old[l]
  PROVE  /\ SampleOf(c, changed, new) \in Chunks
         /\ SampleOf(c, changed, new).cursor = c.cursor + 1
         /\ SampleOf(c, changed, new).second = c.second
         /\ Sound(SampleOf(c, changed, new), new, sums)
<1> DEFINE s == SampleOf(c, changed, new)
<1>1. c.cursor \in Nat /\ c.cursor + 1 \in Nat /\ c.second \in Nat /\ c.heat \in [Levels -> LevelState]
  BY DEF Chunks
<1> DEFINE heat == [l \in Levels |-> IF l \in changed THEN Visit(c.heat[l], new[l], c.cursor)
                                                   ELSE c.heat[l]]
<1>a. s = [[c EXCEPT !.cursor = c.cursor + 1] EXCEPT !.heat = heat]
  BY DEF SampleOf, Chunks
<1>b. c = [second |-> c.second, cursor |-> c.cursor, heat |-> c.heat]
  BY DEF Chunks
<1> HIDE DEF s, heat
<1>c. s = [second |-> c.second, cursor |-> c.cursor + 1, heat |-> heat]
  BY <1>a, <1>b
<1>2. /\ s.cursor = c.cursor + 1 /\ s.second = c.second
      /\ s.heat = [l \in Levels |-> IF l \in changed THEN Visit(c.heat[l], new[l], c.cursor)
                                                     ELSE c.heat[l]]
      /\ s = [second |-> s.second, cursor |-> s.cursor, heat |-> s.heat]
  BY <1>c DEF heat
<1>3. ASSUME NEW l \in Levels
      PROVE  /\ s.heat[l] \in LevelState
             /\ s.heat[l].qty = new[l] /\ s.heat[l].last <= c.cursor + 1
             /\ s.heat[l].sum + s.heat[l].qty * ((c.cursor + 1) - s.heat[l].last) = new[l] + w[l]
  <2> DEFINE qty == c.heat[l].qty
             last == c.heat[l].last
             sum == c.heat[l].sum
  <2>1. qty \in Nat /\ last \in Nat /\ sum \in Nat
    <3>1. c.heat[l] \in LevelState
      BY <1>1
    <3> QED
      BY <3>1 DEF LevelState
  <2>2. qty = old[l] /\ last <= c.cursor /\ sum + qty * (c.cursor - last) = w[l]
    BY DEF Sound
  <2>3. new[l] \in Nat /\ w[l] \in Nat
    OBVIOUS
  <2>4. c.heat[l] \in LevelState
    BY <1>1
  <2> HIDE DEF qty, last, sum
  <2>5. /\ qty * (c.cursor - last) \in Nat
        /\ sum + qty * ((c.cursor + 1) - last) = qty + w[l]
        /\ w[l] + new[l] * ((c.cursor + 1) - c.cursor) = new[l] + w[l]
    BY <1>1, <2>1, <2>2, <2>3, VisitWeighs
  <2>6. CASE l \in changed
    <3>1. s.heat[l] = Visit(c.heat[l], new[l], c.cursor)
      BY <1>2, <2>6
    <3>2. s.heat[l] = [qty |-> new[l], last |-> c.cursor, sum |-> w[l]]
      BY <3>1, <2>2 DEF Visit, qty, last, sum
    <3>3. s.heat[l].qty = new[l] /\ s.heat[l].last = c.cursor /\ s.heat[l].sum = w[l]
      BY <3>2
    <3>4. s.heat[l] \in LevelState
      BY <3>2, <2>3, <1>1 DEF LevelState
    <3>5. c.cursor <= c.cursor + 1
      BY <1>1
    <3> QED
      BY <3>3, <3>4, <3>5, <2>5
  <2>7. CASE l \notin changed
    <3>1. s.heat[l] = c.heat[l]
      BY <1>2, <2>7
    <3>2. qty = new[l]
      BY <2>2, <2>7
    <3>3. last <= c.cursor + 1
      BY <1>1, <2>1, <2>2
    <3> QED
      BY <3>1, <3>2, <3>3, <2>4, <2>5 DEF qty, last, sum
  <2> QED
    BY <2>6, <2>7
<1>4. s.heat \in [Levels -> LevelState]
  BY <1>2, <1>3
<1>5. s \in Chunks
  BY <1>1, <1>2, <1>4 DEF Chunks
<1>6. Sound(s, new, sums)
  BY <1>2, <1>3 DEF Sound
<1> QED
  BY <1>2, <1>5, <1>6 DEF s

(* A chunk seeded from the book has weighed nothing.                       *)
LEMMA SeedIsSound ==
  ASSUME NEW b \in Books, NEW second \in Nat, book[b] \in [Levels -> Nat]
  PROVE  /\ Seeded(b, second) \in Chunks
         /\ Seeded(b, second).cursor = 0
         /\ Sound(Seeded(b, second), book[b], [l \in Levels |-> 0])
<1> DEFINE s == Seeded(b, second)
<1>1. s.cursor = 0 /\ s.second = second /\ s.heat = [l \in Levels |-> [qty |-> book[b][l], last |-> 0, sum |-> 0]]
  BY DEF Seeded, Level
<1>2. s = [second |-> s.second, cursor |-> s.cursor, heat |-> s.heat]
  BY DEF Seeded
<1> HIDE DEF s
<1>3. ASSUME NEW l \in Levels
      PROVE  /\ s.heat[l] \in LevelState
             /\ s.heat[l].qty = book[b][l] /\ s.heat[l].last = 0 /\ s.heat[l].sum = 0
  BY <1>1 DEF LevelState
<1>4. s.heat \in [Levels -> LevelState]
  BY <1>1, <1>3
<1>5. \A q \in Nat : 0 + q * (0 - 0) = 0
  OBVIOUS
<1>6. Sound(s, book[b], [l \in Levels |-> 0])
  <2> SUFFICES ASSUME NEW l \in Levels
               PROVE  /\ s.heat[l].qty = book[b][l] /\ s.heat[l].last <= s.cursor
                      /\ s.heat[l].sum + s.heat[l].qty * (s.cursor - s.heat[l].last) = 0
    BY DEF Sound
  <2>1. book[b][l] \in Nat
    OBVIOUS
  <2>2. 0 + book[b][l] * (0 - 0) = 0
    BY <2>1, <1>5
  <2>3. 0 <= 0
    OBVIOUS
  <2> QED
    BY <1>1, <1>3, <2>2, <2>3
<1>7. s \in Chunks
  BY <1>1, <1>2, <1>4 DEF Chunks
<1> QED
  BY <1>1, <1>6, <1>7 DEF s

(* So an event leaves every open chunk sound.                              *)
CursorsFit == \A b \in Books : chunk[b] = NoChunk \/ chunk[b].cursor \in 1..MaxEvents - 1
BooksAreTyped == book \in [Books -> [Levels -> 0..MaxUpdates]]
ChunksAreSound ==
    /\ chunk \in [Books -> Chunks \cup {NoChunk}]
    /\ weight \in [Books -> [Levels -> Nat]]
    /\ \A b \in Books : chunk[b] # NoChunk => Sound(chunk[b], book[b], weight[b])

LEMMA FoldKeepsChunks ==
  ASSUME MaxUpdates \in Nat, MaxEvents \in Nat, CursorsFit, BooksAreTyped, ChunksAreSound,
         NEW b \in Books, NEW second \in Nat, NEW changed, NEW newBook \in [Levels -> Quantities],
         \A l \in Levels : l \notin changed => newBook[l] = book[b][l],
         Fold(b, second, changed, newBook)
  PROVE  CursorsFit' /\ BooksAreTyped' /\ ChunksAreSound' /\ \A x \in Books : x # b => chunk'[x] = chunk[x]
<1> DEFINE goesOn == chunk[b] # NoChunk /\ chunk[b].second = second
           c == IF goesOn THEN chunk[b] ELSE Seeded(b, second)
           w == [l \in Levels |-> IF goesOn THEN weight[b][l] ELSE 0]
           s == SampleOf(c, changed, newBook)
<1>1. newBook \in [Levels -> Nat] /\ book[b] \in [Levels -> Nat]
  <2>1. Quantities \subseteq Nat /\ 0..MaxUpdates \subseteq Nat
    BY DEF Quantities
  <2>2. book[b] \in [Levels -> 0..MaxUpdates]
    BY DEF BooksAreTyped
  <2> QED
    BY <2>1, <2>2
<1>2. w \in [Levels -> Nat]
  BY DEF ChunksAreSound
<1>3. c \in Chunks /\ Sound(c, book[b], w)
  <2>1. CASE goesOn
    <3>1. c = chunk[b] /\ c \in Chunks /\ Sound(c, book[b], weight[b])
      BY <2>1 DEF ChunksAreSound
    <3>2. \A l \in Levels : w[l] = weight[b][l]
      BY <2>1
    <3> HIDE DEF c, w, goesOn
    <3> QED
      BY <3>1, <3>2 DEF Sound
  <2>2. CASE ~goesOn
    <3>1. c = Seeded(b, second)
      BY <2>2
    <3>2. w = [l \in Levels |-> 0]
      BY <2>2
    <3> HIDE DEF c, w, goesOn
    <3> QED
      BY <1>1, <3>1, <3>2, SeedIsSound
  <2> QED
    BY <2>1, <2>2
<1> DEFINE w2 == [l \in Levels |-> newBook[l] + w[l]]
<1>4. s \in Chunks /\ s.cursor = c.cursor + 1 /\ Sound(s, newBook, w2)
  <2> HIDE DEF c, w
  <2> QED
    BY <1>1, <1>2, <1>3, SampleIsSound
<1>5. w2 \in [Levels -> Nat]
  BY <1>1, <1>2
<1> DEFINE full == s.cursor >= MaxEvents
<1>6. /\ book' = [book EXCEPT ![b] = newBook]
      /\ chunk' = [chunk EXCEPT ![b] = IF full THEN NoChunk ELSE s]
      /\ weight' = [weight EXCEPT ![b] = [l \in Levels |-> IF full THEN 0 ELSE w2[l]]]
  <2>1. /\ book' = [book EXCEPT ![b] = newBook]
        /\ chunk' = [chunk EXCEPT ![b] = IF full THEN NoChunk ELSE s]
    BY DEF Fold, SampleOf
  <2>2. weight' = [weight EXCEPT ![b] = [l \in Levels |-> IF full THEN 0
                                              ELSE newBook[l] + IF goesOn THEN weight[b][l] ELSE 0]]
    BY DEF Fold, SampleOf
  <2>3. \A l \in Levels : w2[l] = newBook[l] + IF goesOn THEN weight[b][l] ELSE 0
    OBVIOUS
  <2> HIDE DEF goesOn, c, w, s, w2, full
  <2> QED
    BY <2>1, <2>2, <2>3
<1> HIDE DEF goesOn, c, w, s, w2, full
<1>7. /\ \A x \in Books : x # b => chunk'[x] = chunk[x] /\ weight'[x] = weight[x] /\ book'[x] = book[x]
      /\ book'[b] = newBook
      /\ full => chunk'[b] = NoChunk
      /\ ~full => chunk'[b] = s /\ weight'[b] = w2
  <2>1. chunk \in [Books -> Chunks \cup {NoChunk}] /\ weight \in [Books -> [Levels -> Nat]]
    BY DEF ChunksAreSound
  <2>2. w2 = [l \in Levels |-> w2[l]]
    BY <1>5
  <2> QED
    BY <1>6, <2>1, <2>2 DEF BooksAreTyped
<1>8. BooksAreTyped'
  BY <1>6 DEF BooksAreTyped, Quantities
<1>9. CursorsFit'
  <2>1. c.cursor \in Nat
    BY <1>3 DEF Chunks
  <2>2. ~full => s.cursor \in 1..MaxEvents - 1
    BY <1>4, <2>1 DEF full
  <2> SUFFICES ASSUME NEW x \in Books
               PROVE  chunk'[x] = NoChunk \/ chunk'[x].cursor \in 1..MaxEvents - 1
    BY DEF CursorsFit
  <2>3. CASE x # b
    BY <2>3, <1>7 DEF CursorsFit
  <2>4. CASE x = b
    BY <2>4, <1>7, <2>2
  <2> QED
    BY <2>3, <2>4
<1>10. ChunksAreSound'
  <2>1. chunk' \in [Books -> Chunks \cup {NoChunk}]
    BY <1>4, <1>6 DEF ChunksAreSound
  <2>2. weight' \in [Books -> [Levels -> Nat]]
    <3>1. [l \in Levels |-> IF full THEN 0 ELSE w2[l]] \in [Levels -> Nat]
      BY <1>5
    <3> QED
      BY <1>6, <3>1 DEF ChunksAreSound
  <2>3. ASSUME NEW x \in Books, chunk'[x] # NoChunk
        PROVE  Sound(chunk'[x], book'[x], weight'[x])
    <3>1. CASE x # b
      BY <3>1, <2>3, <1>7 DEF ChunksAreSound
    <3>2. CASE x = b
      BY <3>2, <2>3, <1>4, <1>7
    <3> QED
      BY <3>1, <3>2
  <2> QED
    BY <2>1, <2>2, <2>3 DEF ChunksAreSound
<1> QED
  BY <1>7, <1>8, <1>9, <1>10

(* Sending a chunk forgets it.                                             *)
LEMMA SentKeepsChunks ==
  ASSUME CursorsFit, ChunksAreSound, NEW b \in Books, Sent(b), UNCHANGED book
  PROVE  CursorsFit' /\ ChunksAreSound' /\ chunk'[b] = NoChunk
                     /\ \A x \in Books : x # b => chunk'[x] = chunk[x]
<1>1. /\ chunk' = [chunk EXCEPT ![b] = NoChunk]
      /\ weight' = [weight EXCEPT ![b] = Empty]
  BY DEF Sent
<1>2. Empty \in [Levels -> Nat]
  BY DEF Empty
<1>3. /\ chunk'[b] = NoChunk
      /\ \A x \in Books : x # b => chunk'[x] = chunk[x] /\ weight'[x] = weight[x]
  BY <1>1 DEF ChunksAreSound
<1>4. chunk' \in [Books -> Chunks \cup {NoChunk}]
  BY <1>1 DEF ChunksAreSound
<1>5. weight' \in [Books -> [Levels -> Nat]]
  BY <1>1, <1>2 DEF ChunksAreSound
<1>6. \A x \in Books : chunk'[x] # NoChunk => Sound(chunk'[x], book'[x], weight'[x])
  BY <1>3 DEF ChunksAreSound
<1>7. CursorsFit'
  BY <1>3 DEF CursorsFit
<1> QED
  BY <1>3, <1>4, <1>5, <1>6, <1>7 DEF ChunksAreSound

-----------------------------------------------------------------------------
(* The parts of TypeOK.                                                    *)
StreamTypes ==
    /\ now \in 0..LastSecond
    /\ feed \in Seq(Entries) /\ Len(feed) <= MaxUpdates
    /\ wire \in Seq(Items) /\ (~session.up => wire = <<>>)
    /\ session \in [up : BOOLEAN, count : 0..bound.sessions, since : 0..Len(feed), head : 0..Len(feed)]
DetectorTypes ==
    /\ garbled \subseteq Messages /\ hist.got \subseteq Messages
    /\ baseline \in {0} \cup {Final(i) : i \in Messages}
RebuilderStages ==
    /\ rebuilder.stage \in {"starting", "idle", "asked", "answered"}
    /\ sync \in {"INIT", "SNAPSHOT_SYNCING", "LIVE_SYNCED", "DESYNC"}
    /\ pending <=> request \/ rebuilder.byGap
    /\ ~(request /\ rebuilder.byGap)

LEMMA TypeOKParts ==
  TypeOK <=> StreamTypes /\ DetectorTypes /\ BooksAreTyped /\ CursorsFit /\ RebuilderStages
BY DEF TypeOK, StreamTypes, DetectorTypes, BooksAreTyped, CursorsFit, RebuilderStages, Entries, Quantities

LEMMA TypeOKPartsNext ==
  TypeOK' <=> StreamTypes' /\ DetectorTypes' /\ BooksAreTyped' /\ CursorsFit' /\ RebuilderStages'
BY DEF TypeOK, StreamTypes, DetectorTypes, BooksAreTyped, CursorsFit, RebuilderStages, Entries, Quantities,
       Books, Messages, Items

LEMMA BoundIsTyped ==
  ASSUME RebuilderTypes
  PROVE  /\ MaxUpdates \in Nat /\ LastSecond \in Nat /\ MaxEvents \in Nat
         /\ bound.updates \in 0..MaxUpdates /\ bound.sessions \in Nat /\ bound.failures \in Nat
         /\ bound.until \in 0..LastSecond
<1>1. /\ MaxUpdates \in Nat /\ LastSecond \in Nat /\ MaxEvents \in Nat
      /\ Scenarios \subseteq [futures : BOOLEAN, updates : 0..MaxUpdates, levels : SUBSET Levels,
                              quotes : BOOLEAN, sessions : Nat, garbled : Nat, failures : Nat,
                              until : 0..LastSecond]
  BY DepthAssumption DEF DepthAssumption
<1>2. bound \in Scenarios
  BY DEF RebuilderTypes
<1>3. bound \in [futures : BOOLEAN, updates : 0..MaxUpdates, levels : SUBSET Levels,
                 quotes : BOOLEAN, sessions : Nat, garbled : Nat, failures : Nat,
                 until : 0..LastSecond]
  BY <1>1, <1>2
<1> QED
  BY <1>1, <1>3

(* What Next can be.                                                       *)
LEMMA Steps ==
  ASSUME Next
  PROVE  \/ Clock \/ StartPipeline \/ Connect \/ Disconnect \/ ReceiveDepth \/ ReceiveQuote
         \/ Garble \/ StartRebuilder \/ Tick \/ TakeRequest \/ Answer \/ Publish \/ FetchFails
         \/ TakeSnapshot
         \/ \E l \in Levels : Quote(l)
         \/ \E l \in Levels : \E qty \in Quantities : Update(l, qty)
         \/ \E b \in Books : FlushTick(b)
BY DEF Next, Exchange, Session, Rebuilder, Quantities

(* The ids missing before a message.                                       *)
LEMMA GapBeforeIs ==
  ASSUME NEW i \in Nat \ {0}, baseline \in Nat
  PROVE  GapBefore(i) = IF baseline # 0 /\ 2 * i - 2 > baseline
                        THEN {<<baseline + 1, 2 * i - 2>>} ELSE {}
<1>1. Final(i) = 2 * i /\ Prev(i) = 2 * i - 2
  BY DEF Final, Prev
<1>2. (IF bound.futures THEN Prev(i) ELSE First(i) - 1) = 2 * i - 2
  BY <1>1 DEF First
<1>3. 2 * i - 2 > baseline => 2 * i > baseline
  OBVIOUS
<1> QED
  BY <1>1, <1>2, <1>3 DEF GapBefore

LEMMA NumbersOfTheBaseline ==
  ASSUME StreamTypes, DetectorTypes
  PROVE  baseline \in Nat /\ Len(feed) \in Nat
<1>1. Len(feed) \in Nat
  BY DEF StreamTypes
<1>2. \A i \in Messages : Final(i) \in Nat
  BY <1>1 DEF Messages, Final
<1> QED
  BY <1>1, <1>2 DEF DetectorTypes

(* The next message of the wire, and what is behind it.                    *)
LEMMA NextOnTheWire ==
  ASSUME StreamTypes, StreamIsInOrder, wire # <<>>, NEW m, m = Head(wire)
  PROVE  /\ m \in Items /\ m = wire[1] /\ Len(wire) \in Nat \ {0} /\ session.up
         /\ m.n <= Len(feed)
         /\ m.n = IF m.quote THEN session.head ELSE session.head + 1
         /\ m.qty = IF m.quote THEN BookIn(feed, m.n)[m.level] ELSE feed[m.n].qty
         /\ ~m.quote => m.level = feed[m.n].level
<1>1. wire \in Seq(Items)
  BY DEF StreamTypes
<1>2. m \in Items /\ m = wire[1] /\ Len(wire) \in Nat \ {0}
  BY <1>1, TailIs
<1>3. 1 \in 1..Len(wire) /\ Before(1) = session.head
  BY <1>2 DEF Before
<1>4. session.up
  BY DEF StreamTypes
<1> QED
  BY <1>2, <1>3, <1>4 DEF StreamIsInOrder

-----------------------------------------------------------------------------
(* The rebuilder: its types, and that a snapshot is never ahead.           *)
RebuilderIsSound == RebuilderStages /\ RebuilderTypes /\ SnapshotsAreBehind

LEMMA SnapshotIsQueued ==
  ASSUME RebuilderIsSound, StreamTypes, MaxUpdates \in Nat, rebuilder.stage = "answered",
         NEW q \in {queue, [queue EXCEPT !.snapshots = Append(@, [at |-> rebuilder.at, second |-> now])]}
  PROVE  /\ q \in [open : BOOLEAN, snapshots : Seq(Snapshots)]
         /\ \A k \in 1..Len(q.snapshots) : q.snapshots[k].at <= Len(feed)
<1>1. CASE q = queue
  BY <1>1 DEF RebuilderIsSound, RebuilderTypes, SnapshotsAreBehind
<1>2. CASE q # queue
  <2> DEFINE s == [at |-> rebuilder.at, second |-> now]
             old == queue.snapshots
  <2>1. s \in Snapshots /\ s.at <= Len(feed)
    BY DEF RebuilderIsSound, RebuilderTypes, SnapshotsAreBehind, StreamTypes, Snapshots
  <2>2. old \in Seq(Snapshots) /\ queue.open \in BOOLEAN /\ queue = [open |-> queue.open, snapshots |-> old]
    BY DEF RebuilderIsSound, RebuilderTypes
  <2>3. q = [queue EXCEPT !.snapshots = Append(old, s)]
    BY <1>2
  <2>4. \A k \in 1..Len(old) : old[k].at <= Len(feed)
    BY DEF RebuilderIsSound, SnapshotsAreBehind
  <2> HIDE DEF s, old
  <2>5. q = [open |-> queue.open, snapshots |-> Append(old, s)]
    BY <2>2, <2>3
  <2>6. /\ Append(old, s) \in Seq(Snapshots)
        /\ Len(Append(old, s)) = Len(old) + 1
        /\ \A k \in 1..Len(old) : Append(old, s)[k] = old[k]
        /\ Append(old, s)[Len(old) + 1] = s
    BY <2>1, <2>2, AppendIs
  <2>7. Len(old) \in Nat
    BY <2>2
  <2>8. ASSUME NEW k \in 1..Len(Append(old, s))
        PROVE  Append(old, s)[k].at <= Len(feed)
    <3>1. k \in 1..Len(old) \/ k = Len(old) + 1
      BY <2>6, <2>7
    <3> QED
      BY <3>1, <2>1, <2>4, <2>6
  <2> QED
    BY <2>2, <2>5, <2>6, <2>8
<1> QED
  BY <1>1, <1>2

LEMMA FeedGrows ==
  ASSUME StreamTypes, NEW e \in Entries, feed' = Append(feed, e)
  PROVE  /\ feed' \in Seq(Entries) /\ Len(feed') = Len(feed) + 1
         /\ Len(feed) \in Nat /\ Len(feed') \in Nat /\ Len(feed) <= Len(feed')
         /\ \A i \in 1..Len(feed) : feed'[i] = feed[i]
         /\ feed'[Len(feed) + 1] = e
<1>1. feed \in Seq(Entries)
  BY DEF StreamTypes
<1>2. Len(feed) \in Nat
  BY <1>1
<1>3. /\ Append(feed, e) \in Seq(Entries) /\ Len(Append(feed, e)) = Len(feed) + 1
      /\ \A i \in 1..Len(feed) : Append(feed, e)[i] = feed[i]
      /\ Append(feed, e)[Len(feed) + 1] = e
  BY <1>1, AppendIs
<1> QED
  BY <1>2, <1>3

LEMMA RebuilderStep ==
  ASSUME IInv, [Next]_vars
  PROVE  RebuilderIsSound'
<1> USE DEF rebuild, stream, folded
<1>a. /\ RebuilderIsSound /\ StreamTypes /\ DetectorTypes
      /\ MaxUpdates \in Nat /\ LastSecond \in Nat /\ bound.failures \in Nat
  BY TypeOKParts, BoundIsTyped DEF IInv, RebuilderIsSound
<1>b. baseline \in Nat /\ Len(feed) \in Nat
  BY <1>a, NumbersOfTheBaseline
<1>s. ASSUME UNCHANGED <<pending, request, rebuilder, sync, queue, hist, bound>>, UNCHANGED feed
      PROVE  RebuilderIsSound'
  BY <1>a, <1>s DEF RebuilderIsSound, RebuilderStages, RebuilderTypes, SnapshotsAreBehind
<1>1. CASE UNCHANGED vars
  BY <1>1, <1>s DEF vars
<1>2. CASE Clock \/ Connect \/ Disconnect \/ ReceiveQuote \/ Garble \/ (\E l \in Levels : Quote(l))
           \/ \E b \in Books : FlushTick(b)
  BY <1>2, <1>s DEF Clock, Connect, Disconnect, ReceiveQuote, Garble, Quote, FlushTick
<1>3. ASSUME NEW l \in Levels, NEW qty \in Quantities, Update(l, qty)
      PROVE  RebuilderIsSound'
  <2> DEFINE e == [level |-> l, qty |-> qty]
  <2>1. e \in Entries /\ feed' = Append(feed, e)
    BY <1>3 DEF Entries, Update
  <2>2. Len(feed) <= Len(feed') /\ Len(feed') \in Nat
    BY <1>a, <2>1, FeedGrows
  <2>3. UNCHANGED <<pending, request, rebuilder, sync, queue, hist, bound>>
    BY <1>3 DEF Update
  <2>4. rebuilder.at \in Nat /\ \A k \in 1..Len(queue.snapshots) : queue.snapshots[k].at \in Nat
    <3>1. Quantities \subseteq Nat
      BY <1>a DEF Quantities
    <3>2. \A k \in 1..Len(queue.snapshots) : queue.snapshots[k] \in Snapshots
      BY <1>a DEF RebuilderIsSound, RebuilderTypes
    <3> QED
      BY <1>a, <3>1, <3>2 DEF RebuilderIsSound, RebuilderTypes, Snapshots
  <2>5. \A x \in Nat : x <= Len(feed) => x <= Len(feed')
    BY <2>2, <1>b
  <2> QED
    BY <1>a, <2>3, <2>4, <2>5 DEF RebuilderIsSound, RebuilderStages, RebuilderTypes, SnapshotsAreBehind
<1>4. CASE StartPipeline
  <2>1. /\ queue' = [queue EXCEPT !.open = TRUE]
        /\ UNCHANGED <<feed, pending, request, rebuilder, sync, hist, bound>>
    BY <1>4 DEF StartPipeline
  <2>2. queue \in [open : BOOLEAN, snapshots : Seq(Snapshots)]
    BY <1>a DEF RebuilderIsSound, RebuilderTypes
  <2>3. queue'.snapshots = queue.snapshots /\ queue' \in [open : BOOLEAN, snapshots : Seq(Snapshots)]
    BY <2>1, <2>2
  <2> QED
    BY <1>a, <2>1, <2>3 DEF RebuilderIsSound, RebuilderStages, RebuilderTypes, SnapshotsAreBehind
<1>5. CASE ReceiveDepth
  <2> DEFINE m == Head(wire)
             gap == GapBefore(m.n)
  <2>1. m.n \in Nat \ {0} /\ m.n \in Quantities
    <3>1. m \in Items /\ m.n = session.head + 1 /\ m.n <= Len(feed)
      BY <1>5, <1>a, NextOnTheWire DEF ReceiveDepth, IInv
    <3>2. session.head \in Nat
      BY <1>a DEF StreamTypes
    <3> QED
      BY <3>1, <3>2, <1>a DEF Items, Quantities
  <2>2. hist' = [hist EXCEPT !.got = hist.got \cup {m.n}, !.gaps = hist.gaps \cup gap]
    BY <1>5 DEF ReceiveDepth
  <2>3. UNCHANGED <<feed, rebuilder, sync, queue, bound>>
    BY <1>5 DEF ReceiveDepth
  <2>4. UNCHANGED <<pending, request>> \/ RequestReconcile
    BY <1>5 DEF ReceiveDepth
  <2>5. gap \subseteq Nat \X Nat
    <3>1. gap = IF baseline # 0 /\ 2 * m.n - 2 > baseline
                THEN {<<baseline + 1, 2 * m.n - 2>>} ELSE {}
      BY <1>b, <2>1, GapBeforeIs
    <3>2. baseline + 1 \in Nat /\ 2 * m.n - 2 \in Nat
      BY <1>b, <2>1
    <3> HIDE DEF gap
    <3> QED
      BY <3>1, <3>2
  <2> HIDE DEF m, gap
  <2>6. hist' \in [got : SUBSET Quantities, gaps : SUBSET (Nat \X Nat), snapshot : Quantities, failures : Nat]
    BY <1>a, <2>1, <2>2, <2>5 DEF RebuilderIsSound, RebuilderTypes
  <2>7. SnapshotsAreBehind'
    BY <1>a, <2>3 DEF RebuilderIsSound, SnapshotsAreBehind
  <2>8. /\ pending' \in BOOLEAN /\ request' \in BOOLEAN
        /\ pending' <=> request' \/ rebuilder.byGap
        /\ ~(request' /\ rebuilder.byGap)
    <3>1. CASE UNCHANGED <<pending, request>>
      BY <3>1, <1>a DEF RebuilderIsSound, RebuilderStages, RebuilderTypes
    <3>2. CASE RequestReconcile
      BY <3>2, <1>a DEF RequestReconcile, RebuilderIsSound, RebuilderStages, RebuilderTypes
    <3> QED
      BY <2>4, <3>1, <3>2
  <2> QED
    BY <1>a, <2>3, <2>6, <2>7, <2>8 DEF RebuilderIsSound, RebuilderStages, RebuilderTypes
<1>6. CASE StartRebuilder
  BY <1>a, <1>6 DEF StartRebuilder, RebuilderIsSound, RebuilderStages, RebuilderTypes, SnapshotsAreBehind
<1>7. CASE Tick \/ TakeRequest
  <2>1. 0 \in Quantities /\ 0 <= Len(feed)
    BY <1>a, <1>b DEF Quantities
  <2>2. CASE Tick
    BY <1>a, <2>1, <2>2 DEF Tick, Run, RebuilderIsSound, RebuilderStages, RebuilderTypes, SnapshotsAreBehind
  <2>3. CASE TakeRequest
    BY <1>a, <2>1, <2>3 DEF TakeRequest, Run, RebuilderIsSound, RebuilderStages, RebuilderTypes, SnapshotsAreBehind
  <2> QED
    BY <1>7, <2>2, <2>3
<1>8. CASE Answer
  <2>1. Len(feed) \in Quantities /\ Len(feed) <= Len(feed)
    BY <1>a, <1>b DEF StreamTypes, Quantities
  <2> QED
    BY <1>a, <1>8, <2>1 DEF Answer, RebuilderIsSound, RebuilderStages, RebuilderTypes, SnapshotsAreBehind
<1>e. ASSUME EndRun, UNCHANGED <<feed, bound>>, rebuilder.stage \in {"asked", "answered"},
             queue' \in [open : BOOLEAN, snapshots : Seq(Snapshots)],
             \A k \in 1..Len(queue'.snapshots) : queue'.snapshots[k].at <= Len(feed),
             sync' \in {"INIT", "SNAPSHOT_SYNCING", "LIVE_SYNCED", "DESYNC"},
             hist' \in [got : SUBSET Quantities, gaps : SUBSET (Nat \X Nat), snapshot : Quantities, failures : Nat]
      PROVE  RebuilderIsSound'
  <2>1. rebuilder' = [stage |-> "idle", byGap |-> FALSE, at |-> 0]
    BY <1>e DEF EndRun
  <2>2. 0 \in Quantities /\ 0 <= Len(feed)
    BY <1>a, <1>b DEF Quantities
  <2>3. RebuilderStages'
    BY <1>a, <1>e, <2>1 DEF EndRun, RebuilderIsSound, RebuilderStages, RebuilderTypes
  <2>4. RebuilderTypes'
    BY <1>a, <1>e, <2>1, <2>2 DEF EndRun, RebuilderIsSound, RebuilderStages, RebuilderTypes
  <2>5. SnapshotsAreBehind'
    BY <1>e, <2>1, <2>2 DEF SnapshotsAreBehind
  <2> QED
    BY <2>3, <2>4, <2>5 DEF RebuilderIsSound
<1>9. CASE Publish
  <2>1. /\ queue' \in {queue, [queue EXCEPT !.snapshots = Append(@, [at |-> rebuilder.at, second |-> now])]}
        /\ sync' \in {"INIT", "SNAPSHOT_SYNCING", "LIVE_SYNCED", "DESYNC"}
        /\ EndRun /\ rebuilder.stage = "answered" /\ UNCHANGED <<feed, hist, bound>>
    BY <1>9 DEF Publish
  <2>2. \A q \in {queue, [queue EXCEPT !.snapshots = Append(@, [at |-> rebuilder.at, second |-> now])]} :
          /\ q \in [open : BOOLEAN, snapshots : Seq(Snapshots)]
          /\ \A k \in 1..Len(q.snapshots) : q.snapshots[k].at <= Len(feed)
    BY <1>a, <2>1, SnapshotIsQueued
  <2>3. hist' \in [got : SUBSET Quantities, gaps : SUBSET (Nat \X Nat), snapshot : Quantities, failures : Nat]
    BY <1>a, <2>1 DEF RebuilderIsSound, RebuilderTypes
  <2> QED
    BY <1>e, <2>1, <2>2, <2>3
<1>10. CASE FetchFails
  <2>1. /\ hist' = [hist EXCEPT !.failures = hist.failures + 1]
        /\ rebuilder.stage \in {"asked", "answered"}
        /\ sync' = "DESYNC" /\ EndRun /\ UNCHANGED <<feed, queue, bound>>
    BY <1>10 DEF FetchFails
  <2>2. hist' \in [got : SUBSET Quantities, gaps : SUBSET (Nat \X Nat), snapshot : Quantities, failures : Nat]
    BY <1>a, <2>1 DEF RebuilderIsSound, RebuilderTypes
  <2>3. /\ queue' \in [open : BOOLEAN, snapshots : Seq(Snapshots)]
        /\ \A k \in 1..Len(queue'.snapshots) : queue'.snapshots[k].at <= Len(feed)
    BY <1>a, <2>1 DEF RebuilderIsSound, RebuilderTypes, SnapshotsAreBehind
  <2> QED
    BY <1>e, <2>1, <2>2, <2>3
<1>11. CASE TakeSnapshot
  <2> DEFINE old == queue.snapshots
             s == Head(old)
  <2>1. /\ hist' = [hist EXCEPT !.snapshot = s.at] /\ queue' = [queue EXCEPT !.snapshots = Tail(old)]
        /\ UNCHANGED <<feed, pending, request, rebuilder, sync, bound>> /\ old # <<>>
    BY <1>11 DEF TakeSnapshot
  <2>2. old \in Seq(Snapshots)
    BY <1>a DEF RebuilderIsSound, RebuilderTypes
  <2>3. \A k \in 1..Len(old) : old[k].at <= Len(feed)
    BY <1>a DEF RebuilderIsSound, SnapshotsAreBehind
  <2>4. queue \in [open : BOOLEAN, snapshots : Seq(Snapshots)]
    BY <1>a DEF RebuilderIsSound, RebuilderTypes
  <2> HIDE DEF old, s
  <2>5. /\ Tail(old) \in Seq(Snapshots) /\ Len(Tail(old)) = Len(old) - 1 /\ Len(old) \in Nat \ {0}
        /\ \A k \in 1..Len(Tail(old)) : Tail(old)[k] = old[k + 1]
    BY <2>1, <2>2, TailIs
  <2>6. s \in Snapshots
    BY <2>1, <2>2, TailIs DEF s
  <2>7. \A k \in 1..Len(Tail(old)) : Tail(old)[k].at <= Len(feed)
    <3> TAKE k \in 1..Len(Tail(old))
    <3>1. k + 1 \in 1..Len(old)
      BY <2>5
    <3> QED
      BY <2>3, <2>5, <3>1
  <2>8. queue' \in [open : BOOLEAN, snapshots : Seq(Snapshots)] /\ queue'.snapshots = Tail(old)
    BY <2>1, <2>4, <2>5
  <2>9. hist' \in [got : SUBSET Quantities, gaps : SUBSET (Nat \X Nat), snapshot : Quantities, failures : Nat]
    BY <1>a, <2>1, <2>6 DEF RebuilderIsSound, RebuilderTypes, Snapshots
  <2> QED
    BY <1>a, <2>1, <2>7, <2>8, <2>9 DEF RebuilderIsSound, RebuilderStages, RebuilderTypes, SnapshotsAreBehind
<1> QED
  BY <1>1, <1>2, <1>3, <1>4, <1>5, <1>6, <1>7, <1>8, <1>9, <1>10, <1>11, Steps

-----------------------------------------------------------------------------
(* The stream: delivering shortens the wire, sending lengthens it.         *)
LEMMA DeliveryKeepsOrder ==
  ASSUME StreamTypes, StreamIsInOrder, wire # <<>>, NEW m, m = Head(wire),
         Delivered(m.n), UNCHANGED <<now, feed, bound>>
  PROVE  StreamTypes' /\ StreamIsInOrder'
<1>1. /\ m \in Items /\ m = wire[1] /\ Len(wire) \in Nat \ {0} /\ session.up /\ m.n <= Len(feed)
  BY NextOnTheWire
<1>2. wire \in Seq(Items)
  BY DEF StreamTypes
<1>3. /\ wire' = Tail(wire) /\ session' = [session EXCEPT !.head = m.n]
  BY DEF Delivered
<1>4. /\ wire' \in Seq(Items) /\ Len(wire') = Len(wire) - 1
      /\ \A i \in 1..Len(wire') : wire'[i] = wire[i + 1]
  BY <1>2, <1>3, TailIs
<1>5. Len(feed) \in Nat /\ m.n \in 0..Len(feed)
  BY <1>1 DEF StreamTypes, Items
<1>6. session' \in [up : BOOLEAN, count : 0..bound.sessions, since : 0..Len(feed), head : 0..Len(feed)]
      /\ session'.up = session.up /\ session'.head = m.n
  BY <1>3, <1>5 DEF StreamTypes
<1>7. StreamTypes'
  BY <1>1, <1>4, <1>6 DEF StreamTypes
<1>8. \A k \in 1..Len(wire) : (IF k = 1 THEN session'.head ELSE wire'[k - 1].n) = Before(k + 1)
  <2> TAKE k \in 1..Len(wire)
  <2>1. k + 1 # 1 /\ (k + 1) - 1 = k
    OBVIOUS
  <2>2. CASE k = 1
    BY <2>2, <1>1, <1>6 DEF Before
  <2>3. CASE k # 1
    <3>1. k - 1 \in 1..Len(wire') /\ (k - 1) + 1 = k
      BY <2>3, <1>1, <1>4
    <3>2. wire'[k - 1] = wire[k]
      BY <3>1, <1>4
    <3> QED
      BY <2>1, <2>3, <3>2 DEF Before
  <2> QED
    BY <2>2, <2>3
<1>9. ASSUME NEW k \in 1..Len(wire')
      PROVE  /\ wire'[k].n <= Len(feed')
             /\ wire'[k].n = IF wire'[k].quote THEN Before(k)' ELSE Before(k)' + 1
             /\ wire'[k].qty = IF wire'[k].quote THEN BookIn(feed', wire'[k].n)[wire'[k].level]
                               ELSE feed'[wire'[k].n].qty
             /\ ~wire'[k].quote => wire'[k].level = feed'[wire'[k].n].level
  <2>1. k + 1 \in 1..Len(wire) /\ k \in 1..Len(wire)
    BY <1>1, <1>4
  <2>2. wire'[k] = wire[k + 1]
    BY <1>4
  <2>3. Before(k)' = Before(k + 1)
    BY <1>8, <2>1 DEF Before
  <2> DEFINE x == wire[k + 1]
  <2>5. /\ x.n <= Len(feed)
        /\ x.n = IF x.quote THEN Before(k + 1) ELSE Before(k + 1) + 1
        /\ x.qty = IF x.quote THEN BookIn(feed, x.n)[x.level] ELSE feed[x.n].qty
        /\ ~x.quote => x.level = feed[x.n].level
    BY <2>1 DEF StreamIsInOrder
  <2> QED
    BY <2>2, <2>3, <2>5
<1>10. Before(Len(wire) + 1) = Len(feed)
  BY <1>1 DEF StreamIsInOrder
<1>11. (IF Len(wire') + 1 = 1 THEN session'.head ELSE wire'[(Len(wire') + 1) - 1].n) = Len(feed)
  <2>1. Len(wire') + 1 = Len(wire) /\ Len(wire) \in 1..Len(wire)
    BY <1>1, <1>4
  <2> QED
    BY <2>1, <1>8, <1>10
<1>12. session'.up => Before(Len(wire) + 1)' = Len(feed')
  BY <1>11 DEF Before
<1>13. StreamIsInOrder'
  BY <1>9, <1>12 DEF StreamIsInOrder
<1> QED
  BY <1>7, <1>13

LEMMA SendingKeepsOrder ==
  ASSUME StreamTypes, StreamIsInOrder, session.up, UNCHANGED session,
         NEW e \in Items, wire' = Append(wire, e),
         Len(feed') \in Nat, Len(feed) <= Len(feed'), \A i \in 1..Len(feed) : feed'[i] = feed[i],
         e.n = Len(feed'), e.n = IF e.quote THEN Len(feed) ELSE Len(feed) + 1,
         e.qty = IF e.quote THEN BookIn(feed', e.n)[e.level] ELSE feed'[e.n].qty,
         ~e.quote => e.level = feed'[e.n].level
  PROVE  StreamIsInOrder' /\ wire' \in Seq(Items)
<1>1. wire \in Seq(Items) /\ Len(feed) \in Nat /\ session.head \in Nat
  BY DEF StreamTypes
<1>2. Len(wire) \in Nat
  BY <1>1
<1>3. /\ wire' \in Seq(Items) /\ Len(wire') = Len(wire) + 1
      /\ \A i \in 1..Len(wire) : wire'[i] = wire[i]
      /\ wire'[Len(wire) + 1] = e
  BY <1>1, AppendIs
<1>4. \A k \in 1..(Len(wire) + 1) : Before(k)' = Before(k)
  <2> TAKE k \in 1..(Len(wire) + 1)
  <2>1. k # 1 => k - 1 \in 1..Len(wire)
    BY <1>2
  <2> QED
    BY <1>3, <2>1 DEF Before
<1>5. \A k \in 1..Len(wire) : Before(k) \in Nat
  <2> TAKE k \in 1..Len(wire)
  <2>1. k # 1 => k - 1 \in 1..Len(wire)
    BY <1>2
  <2>2. \A i \in 1..Len(wire) : wire[i].n \in Nat
    <3> TAKE i \in 1..Len(wire)
    <3>1. wire[i] \in Items
      BY <1>1
    <3> QED
      BY <3>1 DEF Items
  <2> QED
    BY <1>1, <2>1, <2>2 DEF Before
<1>6. ASSUME NEW k \in 1..Len(wire')
      PROVE  /\ wire'[k].n <= Len(feed')
             /\ wire'[k].n = IF wire'[k].quote THEN Before(k)' ELSE Before(k)' + 1
             /\ wire'[k].qty = IF wire'[k].quote THEN BookIn(feed', wire'[k].n)[wire'[k].level]
                               ELSE feed'[wire'[k].n].qty
             /\ ~wire'[k].quote => wire'[k].level = feed'[wire'[k].n].level
  <2>1. k \in 1..Len(wire) \/ k = Len(wire) + 1
    BY <1>2, <1>3
  <2>2. CASE k \in 1..Len(wire)
    <3> DEFINE x == wire[k]
    <3>1. wire'[k] = x /\ Before(k)' = Before(k)
      BY <2>2, <1>2, <1>3, <1>4
    <3>2. /\ x.n <= Len(feed)
          /\ x.n = IF x.quote THEN Before(k) ELSE Before(k) + 1
          /\ x.qty = IF x.quote THEN BookIn(feed, x.n)[x.level] ELSE feed[x.n].qty
          /\ ~x.quote => x.level = feed[x.n].level
      BY <2>2 DEF StreamIsInOrder
    <3>3. x.n \in Nat
      <4>1. x \in Items
        BY <2>2, <1>1
      <4> QED
        BY <4>1 DEF Items
    <3>4. \A i \in 1..x.n : feed'[i] = feed[i]
      BY <1>1, <3>2, <3>3
    <3>5. BookIn(feed', x.n) = BookIn(feed, x.n)
      BY <3>3, <3>4, LastInSame
    <3>6. ~x.quote => x.n \in 1..Len(feed)
      BY <2>2, <1>1, <1>5, <3>2, <3>3
    <3>7. ~x.quote => feed'[x.n] = feed[x.n]
      BY <3>6
    <3>8. x.n <= Len(feed')
      BY <1>1, <3>2, <3>3
    <3> QED
      BY <3>1, <3>2, <3>5, <3>7, <3>8
  <2>3. CASE k = Len(wire) + 1
    <3>1. wire'[k] = e /\ Before(k)' = Before(k)
      BY <2>3, <1>2, <1>3, <1>4
    <3>2. Before(k) = Len(feed)
      BY <2>3 DEF StreamIsInOrder
    <3>3. e.n <= Len(feed')
      OBVIOUS
    <3> QED
      BY <3>1, <3>2, <3>3
  <2> QED
    BY <2>1, <2>2, <2>3
<1>7. session'.up => (IF Len(wire') + 1 = 1 THEN session'.head ELSE wire'[(Len(wire') + 1) - 1].n) = Len(feed')
  <2>1. Len(wire') + 1 # 1 /\ (Len(wire') + 1) - 1 = Len(wire) + 1
    BY <1>2, <1>3
  <2> QED
    BY <2>1, <1>3
<1>8. StreamIsInOrder'
  BY <1>6, <1>7 DEF StreamIsInOrder, Before
<1> QED
  BY <1>3, <1>8

LEMMA StreamStep ==
  ASSUME IInv, [Next]_vars
  PROVE  StreamTypes' /\ StreamIsInOrder'
<1> USE DEF rebuild, stream, folded
<1>a. StreamTypes /\ StreamIsInOrder /\ RebuilderTypes
  BY TypeOKParts DEF IInv
<1>b. /\ MaxUpdates \in Nat /\ LastSecond \in Nat /\ bound.sessions \in Nat
      /\ bound.updates \in 0..MaxUpdates /\ bound.until \in 0..LastSecond
  BY <1>a, BoundIsTyped
<1>c. /\ feed \in Seq(Entries) /\ Len(feed) \in Nat /\ Len(feed) <= MaxUpdates
      /\ now \in 0..LastSecond /\ wire \in Seq(Items)
      /\ session \in [up : BOOLEAN, count : 0..bound.sessions, since : 0..Len(feed), head : 0..Len(feed)]
  BY <1>a DEF StreamTypes
<1>s. ASSUME UNCHANGED <<now, feed, wire, session, bound>>
      PROVE  StreamTypes' /\ StreamIsInOrder'
  BY <1>a, <1>s DEF StreamTypes, StreamIsInOrder, Before
<1>1. CASE UNCHANGED vars
  BY <1>1, <1>s DEF vars
<1>2. CASE \/ StartPipeline \/ StartRebuilder \/ Tick \/ TakeRequest \/ Answer \/ Publish
           \/ FetchFails \/ TakeSnapshot \/ \E b \in Books : FlushTick(b)
  BY <1>2, <1>s DEF StartPipeline, StartRebuilder, Tick, TakeRequest, Answer, Publish, FetchFails,
                    TakeSnapshot, FlushTick
<1>3. CASE Clock
  <2>1. now' \in 0..LastSecond
    BY <1>3, <1>b, <1>c DEF Clock
  <2>2. UNCHANGED <<feed, wire, session, bound>>
    BY <1>3 DEF Clock
  <2> QED
    BY <1>a, <2>1, <2>2 DEF StreamTypes, StreamIsInOrder, Before
<1>4. CASE ReceiveDepth \/ ReceiveQuote \/ Garble
  <2> DEFINE m == Head(wire)
  <2>1. wire # <<>> /\ Delivered(m.n) /\ UNCHANGED <<now, feed, bound>>
    BY <1>4 DEF ReceiveDepth, ReceiveQuote, Garble
  <2> QED
    BY <1>a, <2>1, DeliveryKeepsOrder
<1>5. CASE Connect
  <2>1. wire = <<>> /\ UNCHANGED <<now, feed, wire, bound>>
    BY <1>5, <1>a DEF Connect, StreamTypes
  <2>2. session' = [up |-> TRUE, count |-> session.count + 1, since |-> Len(feed), head |-> Len(feed)]
    BY <1>5 DEF Connect
  <2>3. session.count + 1 \in 0..bound.sessions
    <3>1. session.count \in 0..bound.sessions /\ session.count < bound.sessions
      BY <1>5, <1>c DEF Connect
    <3> QED
      BY <3>1, <1>b
  <2>4. session' \in [up : BOOLEAN, count : 0..bound.sessions, since : 0..Len(feed), head : 0..Len(feed)]
    BY <1>c, <2>2, <2>3
  <2>5. Len(wire) = 0
    BY <2>1
  <2>6. StreamTypes'
    BY <1>c, <2>1, <2>4 DEF StreamTypes
  <2>7. 1..Len(wire') = {} /\ Len(wire') + 1 = 1 /\ session'.head = Len(feed')
    BY <2>1, <2>2, <2>5
  <2> QED
    BY <2>6, <2>7 DEF StreamIsInOrder, Before
<1>6. CASE Disconnect
  <2>1. /\ wire' = <<>> /\ session' = [session EXCEPT !.up = FALSE]
        /\ UNCHANGED <<now, feed, bound>>
    BY <1>6 DEF Disconnect
  <2>2. wire' \in Seq(Items) /\ 1..Len(wire') = {}
    BY <2>1
  <2>3. /\ session' \in [up : BOOLEAN, count : 0..bound.sessions, since : 0..Len(feed), head : 0..Len(feed)]
        /\ ~session'.up
    BY <1>c, <2>1
  <2> QED
    BY <1>c, <2>1, <2>2, <2>3 DEF StreamTypes, StreamIsInOrder
<1>7. ASSUME NEW l \in Levels, Quote(l)
      PROVE  StreamTypes' /\ StreamIsInOrder'
  <2> DEFINE e == [n |-> Len(feed), level |-> l, qty |-> TrueBook(Len(feed))[l], quote |-> TRUE, second |-> now]
  <2>1. session.up /\ wire' = Append(wire, e) /\ UNCHANGED <<now, feed, session, bound>>
    BY <1>7 DEF Quote, Sends
  <2>2. TrueBook(Len(feed)) = BookIn(feed, Len(feed)) /\ BookIn(feed, Len(feed)) \in [Levels -> Quantities]
    <3>1. Len(feed) \in 0..Len(feed)
      BY <1>c
    <3> QED
      BY <1>b, <1>c, <3>1, BookInType, TrueBookIs
  <2>3. e \in Items
    <3>1. Len(feed) \in 0..MaxUpdates
      BY <1>b, <1>c
    <3>2. TrueBook(Len(feed))[l] \in 0..MaxUpdates
      BY <2>2 DEF Quantities
    <3> QED
      BY <1>c, <3>1, <3>2 DEF Items
  <2>4. e.quote /\ e.n = Len(feed) /\ e.qty = BookIn(feed, Len(feed))[e.level]
    BY <2>2
  <2>5. Len(feed') \in Nat /\ Len(feed) <= Len(feed') /\ \A i \in 1..Len(feed) : feed'[i] = feed[i]
    BY <2>1, <1>c
  <2> HIDE DEF e
  <2>6. StreamIsInOrder' /\ wire' \in Seq(Items)
    <3>1. /\ e.n = Len(feed') /\ e.n = IF e.quote THEN Len(feed) ELSE Len(feed) + 1
          /\ e.qty = IF e.quote THEN BookIn(feed', e.n)[e.level] ELSE feed'[e.n].qty
          /\ ~e.quote => e.level = feed'[e.n].level
      BY <2>1, <2>4
    <3> QED
      BY <1>a, <2>1, <2>3, <2>5, <3>1, SendingKeepsOrder
  <2>7. StreamTypes'
    BY <1>c, <2>1, <2>6 DEF StreamTypes
  <2> QED
    BY <2>6, <2>7
<1>8. ASSUME NEW l \in Levels, NEW qty \in Quantities, Update(l, qty)
      PROVE  StreamTypes' /\ StreamIsInOrder'
  <2> DEFINE x == [level |-> l, qty |-> qty]
             e == [n |-> Len(feed) + 1, level |-> l, qty |-> qty, quote |-> FALSE, second |-> now]
  <2>1. x \in Entries /\ feed' = Append(feed, x) /\ Len(feed) < bound.updates
    BY <1>8 DEF Entries, Update
  <2>2. UNCHANGED <<now, session, bound>> /\ wire' = IF session.up THEN Append(wire, e) ELSE wire
    BY <1>8 DEF Update, Sends
  <2>3. /\ feed' \in Seq(Entries) /\ Len(feed') = Len(feed) + 1
        /\ Len(feed') \in Nat /\ Len(feed) <= Len(feed')
        /\ \A i \in 1..Len(feed) : feed'[i] = feed[i]
        /\ feed'[Len(feed) + 1] = x
    <3> HIDE DEF x
    <3> QED
      BY <1>a, <2>1, FeedGrows
  <2>4. Len(feed) + 1 <= MaxUpdates /\ Len(feed) + 1 \in 0..MaxUpdates
    BY <1>b, <1>c, <2>1
  <2>5. Len(feed') <= MaxUpdates
    BY <2>3, <2>4
  <2>6. session' \in [up : BOOLEAN, count : 0..bound.sessions, since : 0..Len(feed'), head : 0..Len(feed')]
    <3>1. \A h \in 0..Len(feed) : h \in 0..Len(feed')
      BY <1>c, <2>3
    <3> QED
      BY <1>c, <2>2, <3>1
  <2>7. CASE session.up
    <3>1. e \in Items
      BY <1>c, <2>4 DEF Items, Quantities
    <3>2. /\ e.n = Len(feed') /\ e.n = IF e.quote THEN Len(feed) ELSE Len(feed) + 1
          /\ e.qty = IF e.quote THEN BookIn(feed', e.n)[e.level] ELSE feed'[e.n].qty
          /\ ~e.quote => e.level = feed'[e.n].level
      BY <2>3
    <3> HIDE DEF e
    <3>3. StreamIsInOrder' /\ wire' \in Seq(Items)
      BY <1>a, <2>2, <2>3, <2>7, <3>1, <3>2, SendingKeepsOrder
    <3> QED
      BY <1>c, <2>2, <2>3, <2>5, <2>6, <2>7, <3>3 DEF StreamTypes
  <2>8. CASE ~session.up
    <3>1. wire' = <<>> /\ wire' \in Seq(Items) /\ 1..Len(wire') = {}
      BY <1>a, <2>2, <2>8 DEF StreamTypes
    <3> QED
      BY <1>c, <2>2, <2>3, <2>5, <2>6, <2>8, <3>1 DEF StreamTypes, StreamIsInOrder
  <2> QED
    BY <2>7, <2>8
<1> QED
  BY <1>1, <1>2, <1>3, <1>4, <1>5, <1>6, <1>7, <1>8, Steps

-----------------------------------------------------------------------------
(* The books and their chunks.                                             *)
LEMMA DeliveryFolds ==
  ASSUME IInv, wire # <<>>, NEW m, m = Head(wire),
         Fold("session", m.second, {m.level}, [book["session"] EXCEPT ![m.level] = m.qty])
  PROVE  /\ CursorsFit' /\ BooksAreTyped' /\ ChunksAreSound'
         /\ book'["session"] = [book["session"] EXCEPT ![m.level] = m.qty]
<1>1. /\ StreamTypes /\ StreamIsInOrder /\ MaxUpdates \in Nat /\ MaxEvents \in Nat
      /\ CursorsFit /\ BooksAreTyped /\ ChunksAreSound
  BY TypeOKParts, BoundIsTyped DEF IInv, ChunksFollow, ChunksAreSound
<1>2. m.level \in Levels /\ m.qty \in Quantities /\ m.second \in Nat
  BY <1>1, NextOnTheWire DEF Items, Quantities
<1> DEFINE old == book["session"]
           new == [old EXCEPT ![m.level] = m.qty]
<1>3. old \in [Levels -> Quantities] /\ "session" \in Books
  BY <1>1 DEF BooksAreTyped, Quantities, Books
<1>4. new \in [Levels -> Quantities] /\ \A l \in Levels : l \notin {m.level} => new[l] = old[l]
  BY <1>2, <1>3
<1>5. Fold("session", m.second, {m.level}, new)
  OBVIOUS
<1>6. book' = [book EXCEPT !["session"] = new]
  BY <1>5 DEF Fold
<1>7. book'["session"] = new
  BY <1>1, <1>3, <1>6 DEF BooksAreTyped
<1> HIDE DEF new
<1>8. \A l \in Levels : l \notin {m.level} => new[l] = book["session"][l]
  BY <1>4
<1>9. CursorsFit' /\ BooksAreTyped' /\ ChunksAreSound'
  BY <1>1, <1>2, <1>3, <1>4, <1>5, <1>8, FoldKeepsChunks
<1> QED
  BY <1>7, <1>9 DEF new

LEMMA ChunksStep ==
  ASSUME IInv, [Next]_vars
  PROVE  BooksAreTyped' /\ CursorsFit' /\ ChunksFollow'
<1> USE DEF rebuild, stream, folded
<1>a. /\ StreamTypes /\ StreamIsInOrder /\ MaxUpdates \in Nat /\ MaxEvents \in Nat
      /\ CursorsFit /\ BooksAreTyped /\ ChunksAreSound /\ RebuilderTypes /\ SnapshotsAreBehind
      /\ ~session.up => chunk["session"] = NoChunk
  BY TypeOKParts, BoundIsTyped DEF IInv, ChunksFollow, ChunksAreSound
<1>f. ChunksFollow' <=> ChunksAreSound' /\ (~session'.up => chunk'["session"] = NoChunk)
  BY DEF ChunksFollow, ChunksAreSound, NoChunk
<1>c. session.up \in BOOLEAN /\ "session" \in Books /\ "queue" \in Books
  BY <1>a DEF StreamTypes, Books
<1>s. ASSUME UNCHANGED <<book, chunk, weight, session>>
      PROVE  BooksAreTyped' /\ CursorsFit' /\ ChunksFollow'
  BY <1>a, <1>f, <1>s DEF BooksAreTyped, CursorsFit, ChunksAreSound
<1>1. CASE UNCHANGED vars
  BY <1>1, <1>s DEF vars
<1>2. CASE \/ Clock \/ StartPipeline \/ StartRebuilder \/ Tick \/ TakeRequest \/ Answer \/ Publish
           \/ FetchFails \/ \E l \in Levels : Quote(l) \/ \E qty \in Quantities : Update(l, qty)
  BY <1>2, <1>s DEF Clock, StartPipeline, StartRebuilder, Tick, TakeRequest, Answer, Publish, FetchFails,
                    Quote, Update
<1>3. CASE Connect
  <2>1. /\ book' = [book EXCEPT !["session"] = Empty] /\ UNCHANGED <<chunk, weight>>
        /\ chunk["session"] = NoChunk
    BY <1>3, <1>a DEF Connect
  <2>2. Empty \in [Levels -> 0..MaxUpdates]
    BY <1>a DEF Empty
  <2>3. BooksAreTyped' /\ \A b \in Books : b # "session" => book'[b] = book[b]
    BY <1>a, <2>1, <2>2 DEF BooksAreTyped
  <2>4. \A b \in Books : chunk'[b] # NoChunk => Sound(chunk'[b], book'[b], weight'[b])
    BY <1>a, <2>1, <2>3 DEF ChunksAreSound
  <2> QED
    BY <1>a, <1>f, <2>1, <2>3, <2>4 DEF CursorsFit, ChunksAreSound
<1>4. CASE Disconnect
  <2>1. Sent("session") /\ UNCHANGED book
    BY <1>4 DEF Disconnect
  <2> QED
    BY <1>a, <1>c, <1>f, <2>1, SentKeepsChunks DEF BooksAreTyped
<1>5. CASE Garble
  <2>1. session' = [session EXCEPT !.head = Head(wire).n] /\ UNCHANGED <<book, chunk, weight>>
    BY <1>5 DEF Garble, Delivered
  <2>2. session'.up = session.up
    BY <2>1, <1>a DEF StreamTypes
  <2> QED
    BY <1>a, <1>f, <2>1, <2>2 DEF BooksAreTyped, CursorsFit, ChunksAreSound
<1>6. CASE ReceiveDepth \/ ReceiveQuote
  <2> DEFINE m == Head(wire)
  <2>1. /\ wire # <<>> /\ session' = [session EXCEPT !.head = m.n]
        /\ Fold("session", m.second, {m.level}, [book["session"] EXCEPT ![m.level] = m.qty])
    BY <1>6 DEF ReceiveDepth, ReceiveQuote, Delivered
  <2>2. session'.up = session.up /\ session.up
    BY <2>1, <1>a DEF StreamTypes
  <2>3. CursorsFit' /\ BooksAreTyped' /\ ChunksAreSound'
    BY <2>1, DeliveryFolds
  <2> QED
    BY <1>f, <2>2, <2>3
<1>7. ASSUME NEW b \in Books, FlushTick(b)
      PROVE  BooksAreTyped' /\ CursorsFit' /\ ChunksFollow'
  <2>1. Sent(b) /\ UNCHANGED <<book, session>>
    BY <1>7 DEF FlushTick
  <2>2. CursorsFit' /\ ChunksAreSound' /\ chunk'[b] = NoChunk /\ \A x \in Books : x # b => chunk'[x] = chunk[x]
    BY <1>a, <2>1, SentKeepsChunks
  <2> QED
    BY <1>a, <1>c, <1>f, <2>1, <2>2 DEF BooksAreTyped
<1>8. CASE TakeSnapshot
  <2> DEFINE s == Head(queue.snapshots)
             new == TrueBook(s.at)
             changed == {l \in Levels : new[l] # book["queue"][l]}
  <2>1. /\ queue.snapshots # <<>> /\ Fold("queue", s.second, changed, new) /\ UNCHANGED session
    BY <1>8 DEF TakeSnapshot
  <2>2. queue.snapshots \in Seq(Snapshots)
    BY <1>a DEF RebuilderTypes
  <2>3. s \in Snapshots /\ s = queue.snapshots[1] /\ Len(queue.snapshots) \in Nat \ {0}
    BY <2>1, <2>2, TailIs
  <2>4. s.at <= Len(feed) /\ s.at \in Nat /\ s.second \in Nat
    <3>1. 1 \in 1..Len(queue.snapshots)
      BY <2>3
    <3> QED
      BY <1>a, <2>3, <3>1 DEF SnapshotsAreBehind, Snapshots, Quantities
  <2>5. new = BookIn(feed, s.at) /\ BookIn(feed, s.at) \in [Levels -> Quantities]
    <3>1. feed \in Seq(Entries) /\ s.at \in 0..Len(feed)
      BY <1>a, <2>4 DEF StreamTypes
    <3> QED
      BY <1>a, <3>1, BookInType, TrueBookIs
  <2>6. \A l \in Levels : l \notin changed => new[l] = book["queue"][l]
    OBVIOUS
  <2> HIDE DEF s, new, changed
  <2>7. CursorsFit' /\ BooksAreTyped' /\ ChunksAreSound' /\ \A x \in Books : x # "queue" => chunk'[x] = chunk[x]
    BY <1>a, <1>c, <2>1, <2>4, <2>5, <2>6, FoldKeepsChunks
  <2> QED
    BY <1>a, <1>c, <1>f, <2>1, <2>7
<1> QED
  BY <1>1, <1>2, <1>3, <1>4, <1>5, <1>6, <1>7, <1>8, Steps

-----------------------------------------------------------------------------
(* The session's book, as a property of the first head messages of f.      *)
IsCurrentOn(f, quantities, since, head, lost, l) ==
    \/ quantities[l] = BookIn(f, head)[l]
    \/ LastIn(f, l, head) \in lost
    \/ LastIn(f, l, head) <= since /\ quantities[l] = 0

LEMMA SessionBookIs ==
  SessionBookIsCurrent <=>
      (session.up => \A l \in Levels :
           IsCurrentOn(feed, book["session"], session.since, session.head, garbled, l))
BY LastOnIs, TrueBookIs DEF SessionBookIsCurrent, IsCurrentOn

LEMMA SessionBookIsNext ==
  ASSUME session'.up => \A l \in Levels :
             IsCurrentOn(feed', book'["session"], session'.since, session'.head, garbled', l)
  PROVE  SessionBookIsCurrent'
BY DEF SessionBookIsCurrent, IsCurrentOn, TrueBook, BookIn, LastOn, LastIn, On

(* One more message, on a level that shows it or is known to be lost.      *)
LEMMA NextIsCurrent ==
  ASSUME NEW f, NEW head \in Nat, NEW since \in Nat, NEW old, NEW new, NEW lost, NEW lost2,
         NEW level, level = f[head + 1].level, lost \subseteq lost2,
         NEW l \in Levels, IsCurrentOn(f, old, since, head, lost, l),
         l # level => new[l] = old[l],
         l = level => new[l] = f[head + 1].qty \/ head + 1 \in lost2
  PROVE  IsCurrentOn(f, new, since, head + 1, lost2, l)
<1>1. LastIn(f, l, head + 1) = IF f[head + 1].level = l THEN head + 1 ELSE LastIn(f, l, head)
  BY LastInStep
<1>2. BookIn(f, head + 1)[l] = IF f[head + 1].level = l THEN f[head + 1].qty ELSE BookIn(f, head)[l]
  BY BookInStep
<1>3. CASE l = level
  BY <1>1, <1>2, <1>3 DEF IsCurrentOn
<1>4. CASE l # level
  BY <1>1, <1>2, <1>4 DEF IsCurrentOn
<1> QED
  BY <1>3, <1>4

LEMMA SessionBookStep ==
  ASSUME IInv, [Next]_vars
  PROVE  SessionBookIsCurrent'
<1> USE DEF rebuild, stream, folded
<1>a. /\ StreamTypes /\ StreamIsInOrder /\ MaxUpdates \in Nat /\ MaxEvents \in Nat
      /\ BooksAreTyped /\ ChunksAreSound
      /\ session.up => \A l \in Levels :
             IsCurrentOn(feed, book["session"], session.since, session.head, garbled, l)
  BY TypeOKParts, BoundIsTyped, SessionBookIs DEF IInv, ChunksFollow, ChunksAreSound
<1>c. /\ session.up \in BOOLEAN /\ "session" \in Books /\ "queue" \in Books /\ "queue" # "session"
      /\ session.head \in Nat /\ session.since \in Nat /\ Len(feed) \in Nat
      /\ session.head <= Len(feed)
  BY <1>a DEF StreamTypes, Books
<1>s. ASSUME UNCHANGED <<feed, session, garbled>>, book'["session"] = book["session"]
      PROVE  SessionBookIsCurrent'
  BY <1>a, <1>s, SessionBookIsNext
<1>1. CASE UNCHANGED vars
  BY <1>1, <1>s DEF vars
<1>2. CASE \/ Clock \/ StartPipeline \/ StartRebuilder \/ Tick \/ TakeRequest \/ Answer \/ Publish
           \/ FetchFails \/ (\E l \in Levels : Quote(l)) \/ \E b \in Books : FlushTick(b)
  BY <1>2, <1>s DEF Clock, StartPipeline, StartRebuilder, Tick, TakeRequest, Answer, Publish, FetchFails,
                    Quote, FlushTick
<1>3. CASE TakeSnapshot
  <2>1. UNCHANGED <<feed, session, garbled>> /\ book'["session"] = book["session"]
    BY <1>3, <1>a, <1>c DEF TakeSnapshot, Fold, BooksAreTyped
  <2> QED
    BY <2>1, <1>s
<1>4. ASSUME NEW l \in Levels, NEW qty \in Quantities, Update(l, qty)
      PROVE  SessionBookIsCurrent'
  <2> DEFINE x == [level |-> l, qty |-> qty]
  <2>1. x \in Entries /\ feed' = Append(feed, x) /\ UNCHANGED <<session, garbled, book>>
    BY <1>4 DEF Entries, Update
  <2> HIDE DEF x
  <2>2. \A i \in 1..Len(feed) : feed'[i] = feed[i]
    BY <1>a, <2>1, FeedGrows
  <2>3. \A i \in 1..session.head : feed'[i] = feed[i]
    BY <1>c, <2>2
  <2>4. /\ \A k : LastIn(feed', k, session.head) = LastIn(feed, k, session.head)
        /\ BookIn(feed', session.head) = BookIn(feed, session.head)
    BY <1>c, <2>3, LastInSame
  <2>5. session.up => \A k \in Levels :
            IsCurrentOn(feed', book["session"], session.since, session.head, garbled, k)
    BY <1>a, <2>4 DEF IsCurrentOn
  <2> QED
    BY <2>1, <2>5, SessionBookIsNext
<1>5. CASE Connect
  <2>1. /\ session' = [up |-> TRUE, count |-> session.count + 1, since |-> Len(feed), head |-> Len(feed)]
        /\ book' = [book EXCEPT !["session"] = Empty] /\ UNCHANGED feed
    BY <1>5 DEF Connect
  <2>2. \A l \in Levels : book'["session"][l] = 0
    BY <1>a, <1>c, <2>1 DEF BooksAreTyped, Empty
  <2>3. \A l \in Levels : LastIn(feed, l, Len(feed)) <= Len(feed)
    BY <1>c, LastInIs
  <2>4. \A l \in Levels : IsCurrentOn(feed', book'["session"], session'.since, session'.head, garbled', l)
    BY <2>1, <2>2, <2>3 DEF IsCurrentOn
  <2> QED
    BY <2>4, SessionBookIsNext
<1>6. CASE Disconnect
  <2>1. ~session'.up
    BY <1>6, <1>a DEF Disconnect, StreamTypes
  <2> QED
    BY <2>1, SessionBookIsNext
<1> DEFINE m == Head(wire)
<1>d. ASSUME wire # <<>>
      PROVE  /\ m.n = IF m.quote THEN session.head ELSE session.head + 1
             /\ m.qty = IF m.quote THEN BookIn(feed, m.n)[m.level] ELSE feed[m.n].qty
             /\ ~m.quote => m.level = feed[m.n].level
             /\ session.up /\ m.level \in Levels
  BY <1>a, <1>d, NextOnTheWire DEF Items
<1>e. ASSUME session' = [session EXCEPT !.head = m.n]
      PROVE  session'.since = session.since /\ session'.head = m.n /\ session'.up = session.up
  BY <1>a, <1>e DEF StreamTypes
<1>7. CASE Garble
  <2>1. /\ wire # <<>> /\ ~m.quote /\ garbled' = garbled \cup {m.n}
        /\ session' = [session EXCEPT !.head = m.n] /\ UNCHANGED <<feed, book>>
    BY <1>7 DEF Garble, Delivered
  <2>2. m.n = session.head + 1 /\ m.level = feed[session.head + 1].level
    BY <1>d, <2>1
  <2>3. \A l \in Levels :
            IsCurrentOn(feed, book["session"], session.since, session.head + 1, garbled', l)
    <3> TAKE l \in Levels
    <3>1. IsCurrentOn(feed, book["session"], session.since, session.head, garbled, l)
      BY <1>a, <1>d, <2>1
    <3>2. garbled \subseteq garbled' /\ session.head + 1 \in garbled'
      BY <2>1, <2>2
    <3> QED
      BY <1>c, <2>2, <3>1, <3>2, NextIsCurrent
  <2> HIDE DEF m
  <2> QED
    BY <1>e, <2>1, <2>2, <2>3, SessionBookIsNext
<1>8. CASE ReceiveDepth
  <2>1. /\ wire # <<>> /\ ~m.quote /\ session' = [session EXCEPT !.head = m.n] /\ UNCHANGED <<feed, garbled>>
        /\ Fold("session", m.second, {m.level}, [book["session"] EXCEPT ![m.level] = m.qty])
    BY <1>8 DEF ReceiveDepth, Delivered
  <2>2. m.n = session.head + 1 /\ m.level = feed[session.head + 1].level /\ m.qty = feed[session.head + 1].qty
    BY <1>d, <2>1
  <2>3. book'["session"] = [book["session"] EXCEPT ![m.level] = m.qty]
    BY <2>1, DeliveryFolds
  <2>4. \A l \in Levels : book'["session"][l] = IF l = m.level THEN m.qty ELSE book["session"][l]
    BY <1>a, <1>c, <2>3 DEF BooksAreTyped
  <2> HIDE DEF m
  <2>5. \A l \in Levels :
            IsCurrentOn(feed, book'["session"], session.since, session.head + 1, garbled, l)
    <3> TAKE l \in Levels
    <3>1. IsCurrentOn(feed, book["session"], session.since, session.head, garbled, l)
      BY <1>a, <1>d, <2>1
    <3>2. /\ l # m.level => book'["session"][l] = book["session"][l]
          /\ l = m.level => book'["session"][l] = feed[session.head + 1].qty
      BY <2>2, <2>4
    <3>3. garbled \subseteq garbled
      OBVIOUS
    <3> QED
      BY <1>c, <2>2, <3>1, <3>2, <3>3, NextIsCurrent
  <2> QED
    BY <1>e, <2>1, <2>2, <2>5, SessionBookIsNext
<1>9. CASE ReceiveQuote
  <2>1. /\ wire # <<>> /\ m.quote /\ session' = [session EXCEPT !.head = m.n] /\ UNCHANGED <<feed, garbled>>
        /\ Fold("session", m.second, {m.level}, [book["session"] EXCEPT ![m.level] = m.qty])
    BY <1>9 DEF ReceiveQuote, Delivered
  <2>2. m.n = session.head /\ m.qty = BookIn(feed, session.head)[m.level]
    BY <1>d, <2>1
  <2>3. book'["session"] = [book["session"] EXCEPT ![m.level] = m.qty]
    BY <2>1, DeliveryFolds
  <2>4. \A l \in Levels : book'["session"][l] = IF l = m.level THEN m.qty ELSE book["session"][l]
    BY <1>a, <1>c, <2>3 DEF BooksAreTyped
  <2> HIDE DEF m
  <2>5. \A l \in Levels :
            IsCurrentOn(feed, book'["session"], session.since, session.head, garbled, l)
    <3> TAKE l \in Levels
    <3>1. IsCurrentOn(feed, book["session"], session.since, session.head, garbled, l)
      BY <1>a, <1>d, <2>1
    <3> QED
      BY <2>2, <2>4, <3>1 DEF IsCurrentOn
  <2> QED
    BY <1>e, <2>1, <2>2, <2>5, SessionBookIsNext
<1> QED
  BY <1>1, <1>2, <1>3, <1>4, <1>5, <1>6, <1>7, <1>8, <1>9, Steps

-----------------------------------------------------------------------------
(* The detector, as a property of what it has seen and reported.           *)
InGap(gaps, i) == \E g \in gaps : g[1] <= 2 * i /\ 2 * i - 2 < g[2]
LossesAre(sent, got, gaps, base) ==
    \A i \in 1..sent :
        (\E j \in got : j <= i) /\ 2 * i <= base => (i \notin got <=> InGap(gaps, i))

LEMMA FirstOf ==
  ASSUME NEW got, got \subseteq Nat, NEW i \in Nat
  PROVE  got # {} /\ Min(got) <= i <=> \E j \in got : j <= i
<1>1. CASE got = {}
  BY <1>1
<1>2. CASE got # {}
  <2>1. Min(got) \in got /\ \A j \in got : Min(got) <= j
    BY <1>2, MinIs
  <2>2. Min(got) \in Nat
    BY <2>1
  <2>3. ASSUME NEW j \in got, j <= i
        PROVE  Min(got) <= i
    <3>1. j \in Nat /\ Min(got) <= j
      BY <2>1
    <3> QED
      BY <2>2, <2>3, <3>1
  <2> QED
    BY <1>2, <2>1, <2>3
<1> QED
  BY <1>1, <1>2

LEMMA GapsAre ==
  ASSUME NEW sent \in Nat, sent = Len(feed), hist.got \subseteq Nat
  PROVE  GapsAreTheLosses <=> LossesAre(sent, hist.got, hist.gaps, baseline)
<1>1. \A i \in 1..sent : Final(i) = 2 * i /\ Prev(i) = 2 * i - 2
  BY DEF Final, Prev
<1>2. \A i \in 1..sent : Reported(i) <=> InGap(hist.gaps, i)
  BY <1>1 DEF Reported, InGap
<1>3. \A i \in 1..sent : hist.got # {} /\ Min(hist.got) <= i <=> \E j \in hist.got : j <= i
  BY FirstOf
<1> QED
  BY <1>1, <1>2, <1>3 DEF GapsAreTheLosses, LossesAre, Messages

LEMMA GapsAreNext ==
  ASSUME NEW sent \in Nat, sent = Len(feed'), hist'.got \subseteq Nat,
         LossesAre(sent, hist'.got, hist'.gaps, baseline')
  PROVE  GapsAreTheLosses'
<1>1. \A i \in 1..sent : Final(i) = 2 * i /\ Prev(i) = 2 * i - 2
  BY DEF Final, Prev
<1>3. \A i \in 1..sent : hist'.got # {} /\ Min(hist'.got) <= i <=> \E j \in hist'.got : j <= i
  BY FirstOf
<1>4. SUFFICES ASSUME NEW i \in 1..sent, hist'.got # {}, Min(hist'.got) <= i, Final(i) <= baseline'
               PROVE  i \notin hist'.got <=> \E g \in hist'.gaps : g[1] <= Final(i) /\ Prev(i) < g[2]
  BY DEF GapsAreTheLosses, Reported, Messages, Final, Prev
<1> QED
  BY <1>1, <1>3, <1>4 DEF LossesAre, InGap

LEMMA OneGap ==
  ASSUME NEW a, NEW b, NEW i
  PROVE  InGap({<<a, b>>}, i) <=> a <= 2 * i /\ 2 * i - 2 < b
<1>1. \A g \in {<<a, b>>} : g[1] = a /\ g[2] = b
  OBVIOUS
<1>2. <<a, b>> \in {<<a, b>>}
  OBVIOUS
<1> QED
  BY <1>1, <1>2, Zenon DEF InGap

(* The next message of all that were received, and the gap before it.      *)
Detecting(sent, got, gaps, base, last, n) ==
    /\ sent \in Nat /\ base \in Nat /\ last \in Nat
    /\ got \subseteq 1..sent /\ gaps \subseteq Nat \X Nat
    /\ LossesAre(sent, got, gaps, base)
    /\ got = {} => base = 0 /\ gaps = {}
    /\ got # {} => last \in got /\ base = 2 * last
    /\ n \in 1..sent
    /\ \A i \in got : i <= last /\ i < n
    /\ \A g \in gaps : g[2] <= base

LEMMA NextIsDetected ==
  ASSUME NEW sent, NEW got, NEW gaps, NEW base, NEW last, NEW n,
         Detecting(sent, got, gaps, base, last, n),
         NEW gap, gap = IF base # 0 /\ 2 * n - 2 > base THEN {<<base + 1, 2 * n - 2>>} ELSE {}
  PROVE  /\ LossesAre(sent, got \cup {n}, gaps \cup gap, 2 * n)
         /\ \A g \in gaps \cup gap : g[2] <= 2 * n
         /\ base <= 2 * n
<1> USE DEF Detecting
<1>1. CASE got = {}
  <2>1. gap = {} /\ gaps = {} /\ base = 0
    BY <1>1
  <2>2. \A i \in 1..sent : n <= i /\ 2 * i <= 2 * n => i = n
    OBVIOUS
  <2>3. ~InGap({}, n)
    BY DEF InGap
  <2>4. got \cup {n} = {n} /\ gaps \cup gap = {}
    BY <1>1, <2>1
  <2>5. LossesAre(sent, {n}, {}, 2 * n)
    BY <2>2, <2>3 DEF LossesAre
  <2> QED
    BY <2>1, <2>4, <2>5
<1>2. CASE got # {}
  <2>1. last \in got /\ base = 2 * last /\ last \in 1..sent /\ last < n
    BY <1>2
  <2>2. base # 0 /\ base <= 2 * n /\ (2 * n - 2 > base <=> last + 1 < n)
    BY <2>1
  <2>3. ASSUME NEW i \in 1..sent
        PROVE  InGap(gap, i) <=> last < i /\ i < n
    <3>1. CASE last + 1 < n
      <4>1. gap = {<<base + 1, 2 * n - 2>>}
        BY <2>2, <3>1
      <4>2. InGap(gap, i) <=> base + 1 <= 2 * i /\ 2 * i - 2 < 2 * n - 2
        BY <4>1, OneGap
      <4>3. base + 1 <= 2 * i /\ 2 * i - 2 < 2 * n - 2 <=> last < i /\ i < n
        BY <2>1
      <4> QED
        BY <4>2, <4>3
    <3>2. CASE ~(last + 1 < n)
      <4>1. gap = {}
        BY <2>2, <3>2
      <4>2. ~(last < i /\ i < n)
        BY <2>1, <3>2
      <4> QED
        BY <4>1, <4>2 DEF InGap
    <3> QED
      BY <3>1, <3>2
  <2>4. ASSUME NEW i \in 1..sent, last < i
        PROVE  ~InGap(gaps, i)
    <3> SUFFICES ASSUME NEW g \in gaps, 2 * i - 2 < g[2]
                 PROVE  FALSE
      BY DEF InGap
    <3>1. g[2] <= base /\ g[2] \in Nat
      OBVIOUS
    <3>2. 2 * i - 2 >= base /\ 2 * i - 2 \in Nat
      BY <2>1, <2>4
    <3> QED
      BY <3>1, <3>2
  <2>5. \A i \in 1..sent : InGap(gaps \cup gap, i) <=> InGap(gaps, i) \/ InGap(gap, i)
    BY DEF InGap
  <2>6. LossesAre(sent, got \cup {n}, gaps \cup gap, 2 * n)
    <3> SUFFICES ASSUME NEW i \in 1..sent, NEW j \in got \cup {n}, j <= i, 2 * i <= 2 * n
                 PROVE  i \notin got \cup {n} <=> InGap(gaps \cup gap, i)
      BY DEF LossesAre
    <3>1. i <= n
      OBVIOUS
    <3>2. CASE i = n
      <4>0. last < i /\ ~(i < n)
        BY <2>1, <3>2
      <4>1. ~InGap(gap, i) /\ ~InGap(gaps, i)
        BY <4>0, <2>3, <2>4
      <4> QED
        BY <2>5, <3>2, <4>1
    <3>3. CASE i < n /\ last < i
      <4>1. InGap(gap, i)
        BY <2>3, <3>3
      <4>2. i \notin got
        <5>1. \A k \in got : k <= last
          OBVIOUS
        <5> QED
          BY <5>1, <3>3
      <4>3. i # n
        BY <3>3
      <4>4. i \notin got \cup {n} /\ InGap(gaps \cup gap, i)
        BY <2>5, <4>1, <4>2, <4>3
      <4> QED
        BY <4>4
    <3>4. CASE i <= last
      <4>1. ~InGap(gap, i) /\ i # n
        BY <2>1, <2>3, <3>4
      <4>2. j \in got
        BY <2>1, <3>4
      <4>3. 2 * i <= base
        BY <2>1, <3>4
      <4>4. i \notin got <=> InGap(gaps, i)
        BY <4>2, <4>3 DEF LossesAre
      <4> QED
        BY <2>5, <4>1, <4>4
    <3> QED
      BY <2>1, <3>1, <3>2, <3>3, <3>4
  <2>7. \A g \in gaps \cup gap : g[2] <= 2 * n
    <3>1. \A g \in gaps : g[2] <= 2 * n
      <4> TAKE g \in gaps
      <4>1. g[2] \in Nat /\ g[2] <= base
        OBVIOUS
      <4> QED
        BY <2>2, <4>1
    <3>2. \A g \in gap : g[2] <= 2 * n
      BY <2>2
    <3> QED
      BY <3>1, <3>2
  <2> QED
    BY <2>2, <2>6, <2>7
<1> QED
  BY <1>1, <1>2

LEMMA DetectorStep ==
  ASSUME IInv, [Next]_vars
  PROVE  DetectorTypes' /\ DetectorIsBehind' /\ GapsAreTheLosses'
<1> USE DEF rebuild, stream, folded
<1> DEFINE sent == Len(feed)
           got == hist.got
           gaps == hist.gaps
<1>a. /\ StreamTypes /\ StreamIsInOrder /\ DetectorTypes /\ DetectorIsBehind /\ GapsAreTheLosses
      /\ RebuilderTypes
  BY TypeOKParts DEF IInv
<1>b. /\ sent \in Nat /\ baseline \in Nat /\ session.head \in Nat /\ session.head <= sent
      /\ session \in [up : BOOLEAN, count : 0..bound.sessions, since : 0..sent, head : 0..sent]
  BY <1>a, NumbersOfTheBaseline DEF StreamTypes
<1>c. /\ got \subseteq 1..sent /\ garbled \subseteq 1..sent /\ got \subseteq Nat /\ gaps \subseteq Nat \X Nat
      /\ hist \in [got : SUBSET Quantities, gaps : SUBSET (Nat \X Nat), snapshot : Quantities, failures : Nat]
  BY <1>a DEF DetectorTypes, Messages, RebuilderTypes
<1>d. /\ got = {} => baseline = 0 /\ gaps = {}
      /\ got # {} => \E n \in got : baseline = 2 * n /\ \A i \in got : i <= n
      /\ \A i \in got : i <= session.head
      /\ \A g \in gaps : g[2] <= baseline
  BY <1>a DEF DetectorIsBehind, Final
<1>e. LossesAre(sent, got, gaps, baseline)
  BY <1>a, <1>b, <1>c, GapsAre
<1>t. DetectorTypes' <=> /\ garbled' \subseteq 1..Len(feed') /\ hist'.got \subseteq 1..Len(feed')
                         /\ baseline' \in {0} \cup {Final(i) : i \in 1..Len(feed')}
  BY DEF DetectorTypes, Messages, Final
<1>u. DetectorIsBehind' <=>
          /\ hist'.got = {} => baseline' = 0 /\ hist'.gaps = {}
          /\ hist'.got # {} => \E n \in hist'.got : baseline' = 2 * n /\ \A i \in hist'.got : i <= n
          /\ \A i \in hist'.got : i <= session'.head
          /\ \A g \in hist'.gaps : g[2] <= baseline'
  BY DEF DetectorIsBehind, Final
(* A step in which the detector sees nothing.                              *)
<1>s. ASSUME UNCHANGED <<feed, baseline>>, hist'.got = got, hist'.gaps = gaps,
             garbled' \subseteq 1..sent,
             session'.head \in Nat, session.head <= session'.head
      PROVE  DetectorTypes' /\ DetectorIsBehind' /\ GapsAreTheLosses'
  <2>1. \A i \in got : i <= session'.head
    <3> TAKE i \in got
    <3>1. i \in Nat /\ i <= session.head
      BY <1>c, <1>d
    <3> QED
      BY <1>b, <1>s, <3>1
  <2>2. DetectorTypes'
    BY <1>a, <1>c, <1>s, <1>t DEF DetectorTypes, Messages
  <2>3. DetectorIsBehind'
    BY <1>d, <1>s, <1>u, <2>1
  <2>4. GapsAreTheLosses'
    BY <1>b, <1>c, <1>e, <1>s, GapsAreNext
  <2> QED
    BY <2>2, <2>3, <2>4
<1>h. session.head <= session.head
  BY <1>b
<1>1. CASE UNCHANGED vars
  BY <1>1, <1>s, <1>b, <1>c, <1>h DEF vars
<1>2. CASE \/ Clock \/ StartPipeline \/ StartRebuilder \/ Tick \/ TakeRequest \/ Answer \/ Publish
           \/ (\E l \in Levels : Quote(l)) \/ \E b \in Books : FlushTick(b)
  <2>1. UNCHANGED <<feed, baseline, hist, garbled, session>>
    BY <1>2 DEF Clock, StartPipeline, StartRebuilder, Tick, TakeRequest, Answer, Publish, Quote, FlushTick
  <2> QED
    BY <2>1, <1>s, <1>b, <1>c, <1>h
<1>3. CASE FetchFails \/ TakeSnapshot
  <2>1. UNCHANGED <<feed, baseline, garbled, session>>
    BY <1>3 DEF FetchFails, TakeSnapshot
  <2>2. hist'.got = got /\ hist'.gaps = gaps
    BY <1>3, <1>c DEF FetchFails, TakeSnapshot
  <2> QED
    BY <2>1, <2>2, <1>s, <1>b, <1>c, <1>h
<1>4. CASE Connect
  <2>1. /\ UNCHANGED <<feed, baseline, hist>> /\ garbled' = {}
        /\ session' = [up |-> TRUE, count |-> session.count + 1, since |-> Len(feed), head |-> Len(feed)]
    BY <1>4 DEF Connect
  <2>2. session'.head \in Nat /\ session.head <= session'.head
    BY <2>1, <1>b
  <2> QED
    BY <2>1, <2>2, <1>s
<1>5. CASE Disconnect
  <2>1. UNCHANGED <<feed, baseline, hist, garbled>> /\ session' = [session EXCEPT !.up = FALSE]
    BY <1>5 DEF Disconnect
  <2>2. session'.head = session.head
    BY <2>1, <1>b
  <2> QED
    BY <2>1, <2>2, <1>s, <1>b, <1>c, <1>h
<1>6. ASSUME NEW l \in Levels, NEW qty \in Quantities, Update(l, qty)
      PROVE  DetectorTypes' /\ DetectorIsBehind' /\ GapsAreTheLosses'
  <2> DEFINE x == [level |-> l, qty |-> qty]
  <2>1. x \in Entries /\ feed' = Append(feed, x) /\ UNCHANGED <<session, garbled, hist, baseline>>
    BY <1>6 DEF Entries, Update
  <2> HIDE DEF x
  <2>2. Len(feed') = sent + 1 /\ Len(feed') \in Nat
    BY <1>a, <2>1, FeedGrows
  <2>3. 1..sent \subseteq 1..Len(feed')
    BY <1>b, <2>2
  <2>4. DetectorTypes'
    <3>1. baseline \in {0} \cup {Final(i) : i \in 1..sent}
      BY <1>a DEF DetectorTypes, Messages
    <3>2. baseline \in {0} \cup {Final(i) : i \in 1..Len(feed')}
      BY <2>3, <3>1
    <3>3. garbled' \subseteq 1..Len(feed') /\ hist'.got \subseteq 1..Len(feed') /\ baseline' = baseline
      BY <1>c, <2>1, <2>3
    <3> HIDE DEF sent
    <3> QED
      BY <1>t, <3>2, <3>3
  <2>5. DetectorIsBehind'
    BY <1>d, <1>u, <2>1
  <2>6. LossesAre(Len(feed'), got, gaps, baseline)
    <3> SUFFICES ASSUME NEW i \in 1..Len(feed'), NEW j \in got, j <= i, 2 * i <= baseline
                 PROVE  i \notin got <=> InGap(gaps, i)
      BY DEF LossesAre
    <3>1. PICK n \in got : baseline = 2 * n
      BY <1>d
    <3>2. n \in 1..sent
      BY <1>c
    <3> HIDE DEF sent
    <3>3. i \in 1..sent
      BY <1>b, <2>2, <3>1, <3>2
    <3> QED
      BY <1>e, <3>3 DEF LossesAre
  <2>7. GapsAreTheLosses'
    BY <1>c, <2>1, <2>2, <2>6, GapsAreNext
  <2> QED
    BY <2>4, <2>5, <2>7
<1> DEFINE m == Head(wire)
<1>n. ASSUME wire # <<>>
      PROVE  /\ m.n = IF m.quote THEN session.head ELSE session.head + 1
             /\ m.n <= sent
  BY <1>a, <1>n, NextOnTheWire
<1>m. ASSUME session' = [session EXCEPT !.head = m.n]
      PROVE  session'.head = m.n
  BY <1>b, <1>m
<1>7. CASE ReceiveQuote
  <2>1. /\ wire # <<>> /\ m.quote /\ session' = [session EXCEPT !.head = m.n]
        /\ UNCHANGED <<feed, baseline, hist, garbled>>
    BY <1>7 DEF ReceiveQuote, Delivered
  <2>2. session'.head = session.head
    BY <1>m, <1>n, <2>1
  <2> QED
    BY <2>1, <2>2, <1>s, <1>b, <1>c, <1>h
<1>8. CASE Garble
  <2>1. /\ wire # <<>> /\ ~m.quote /\ session' = [session EXCEPT !.head = m.n]
        /\ UNCHANGED <<feed, baseline, hist>> /\ garbled' = garbled \cup {m.n}
    BY <1>8 DEF Garble, Delivered
  <2>2. m.n = session.head + 1 /\ m.n <= sent
    BY <1>n, <2>1
  <2>3. m.n \in 1..sent
    BY <1>b, <2>2
  <2>4. session'.head \in Nat /\ session.head <= session'.head
    BY <1>b, <1>m, <2>1, <2>2
  <2> HIDE DEF m
  <2> QED
    BY <1>c, <1>s, <2>1, <2>3, <2>4
<1>9. CASE ReceiveDepth
  <2> DEFINE n == m.n
             gap == GapBefore(n)
  <2>1. /\ wire # <<>> /\ ~m.quote /\ session' = [session EXCEPT !.head = m.n]
        /\ baseline' = Max({baseline, Final(n)})
        /\ hist' = [hist EXCEPT !.got = got \cup {n}, !.gaps = gaps \cup gap]
        /\ UNCHANGED <<feed, garbled>>
    BY <1>9 DEF ReceiveDepth, Delivered
  <2>2. m.n = session.head + 1 /\ m.n <= sent
    BY <1>n, <2>1
  <2>3. n \in 1..sent /\ n \in Nat \ {0} /\ n = session.head + 1
    BY <1>b, <2>2
  <2>4. session'.head = n
    BY <1>m, <2>1
  <2>5. gap = IF baseline # 0 /\ 2 * n - 2 > baseline THEN {<<baseline + 1, 2 * n - 2>>} ELSE {}
    <3> HIDE DEF m, n
    <3> QED
      BY <1>b, <2>3, GapBeforeIs
  <2>6. hist'.got = got \cup {n} /\ hist'.gaps = gaps \cup gap
    BY <1>c, <2>1
  <2> HIDE DEF m, n, gap
  <2>7. \E last \in Nat : (got # {} => last \in got /\ baseline = 2 * last) /\ \A i \in got : i <= last
    <3>1. CASE got = {}
      BY <3>1, 0 \in Nat
    <3>2. CASE got # {}
      BY <1>c, <1>d, <3>2
    <3> QED
      BY <3>1, <3>2
  <2>8. \A i \in got : i < n
    <3> TAKE i \in got
    <3>1. i \in Nat /\ i <= session.head
      BY <1>c, <1>d
    <3> QED
      BY <1>b, <2>3, <3>1
  <2> HIDE DEF sent, got, gaps
  <2>9. /\ LossesAre(sent, got \cup {n}, gaps \cup gap, 2 * n)
        /\ \A g \in gaps \cup gap : g[2] <= 2 * n
        /\ baseline <= 2 * n
    <3>1. PICK last \in Nat : (got # {} => last \in got /\ baseline = 2 * last) /\ \A i \in got : i <= last
      BY <2>7
    <3>2. \A i \in got : i <= last /\ i < n
      BY <2>8, <3>1
    <3>3. Detecting(sent, got, gaps, baseline, last, n)
      BY <1>b, <1>c, <1>d, <1>e, <2>3, <3>1, <3>2 DEF Detecting
    <3> QED
      BY <2>5, <3>3, NextIsDetected
  <2>10. baseline' = 2 * n
    <3>1. Final(n) = 2 * n /\ 2 * n \in Nat
      BY <2>3 DEF Final
    <3> QED
      BY <1>b, <2>1, <2>9, <3>1, MaxOfTwo
  <2>11. Len(feed') = sent
    BY <2>1 DEF sent
  <2>12. DetectorTypes'
    <3>1. garbled' \subseteq 1..sent /\ hist'.got \subseteq 1..sent
      BY <1>c, <2>1, <2>3, <2>6
    <3>2. baseline' \in {Final(i) : i \in 1..sent}
      BY <2>3, <2>10 DEF Final
    <3> QED
      BY <1>t, <2>11, <3>1, <3>2
  <2>13. DetectorIsBehind'
    <3>1. \A i \in got \cup {n} : i <= n
      <4>1. \A i \in got : i <= n
        <5> TAKE i \in got
        <5>1. i \in Nat /\ i < n
          BY <1>c, <2>8
        <5> QED
          BY <2>3, <5>1
      <4> QED
        BY <2>3, <4>1
    <3> QED
      BY <1>u, <2>4, <2>6, <2>9, <2>10, <3>1
  <2>14. GapsAreTheLosses'
    <3>1. got \cup {n} \subseteq Nat
      BY <1>c, <2>3
    <3> QED
      BY <1>b, <2>6, <2>9, <2>10, <2>11, <3>1, GapsAreNext
  <2> QED
    BY <2>12, <2>13, <2>14
<1> QED
  BY <1>1, <1>2, <1>3, <1>4, <1>5, <1>6, <1>7, <1>8, <1>9, Steps

-----------------------------------------------------------------------------
LEMMA InitIInv ==
  ASSUME Init
  PROVE  IInv
<1> USE DEF Init
<1>1. /\ MaxUpdates \in Nat /\ LastSecond \in Nat /\ MaxEvents \in Nat
      /\ bound.sessions \in Nat
  <2>1. bound \in [futures : BOOLEAN, updates : 0..MaxUpdates, levels : SUBSET Levels,
                   quotes : BOOLEAN, sessions : Nat, garbled : Nat, failures : Nat,
                   until : 0..LastSecond]
    BY DepthAssumption DEF DepthAssumption
  <2> QED
    BY <2>1, DepthAssumption DEF DepthAssumption
<1>2. Len(feed) = 0 /\ Len(wire) = 0 /\ Len(queue.snapshots) = 0 /\ 0 \in Quantities
  BY <1>1 DEF Quantities
<1>3. StreamTypes
  BY <1>1, <1>2 DEF StreamTypes
<1>4. DetectorTypes
  BY <1>2 DEF DetectorTypes
<1>5. Empty \in [Levels -> 0..MaxUpdates] /\ Empty \in [Levels -> Nat]
  BY <1>1 DEF Empty
<1>6. BooksAreTyped
  BY <1>5 DEF BooksAreTyped
<1>7. CursorsFit
  BY DEF CursorsFit
<1>8. RebuilderStages
  BY DEF RebuilderStages
<1>9. RebuilderTypes
  <2>1. queue \in [open : BOOLEAN, snapshots : Seq(Snapshots)]
    OBVIOUS
  <2>2. rebuilder \in [stage : {"starting", "idle", "asked", "answered"}, byGap : BOOLEAN, at : Quantities]
    BY <1>2
  <2>3. {} \in SUBSET Quantities /\ {} \in SUBSET (Nat \X Nat) /\ 0 \in Nat
    OBVIOUS
  <2>4. hist \in [got : SUBSET Quantities, gaps : SUBSET (Nat \X Nat), snapshot : Quantities, failures : Nat]
    BY <1>2, <2>3
  <2>5. bound \in Scenarios /\ pending \in BOOLEAN /\ request \in BOOLEAN
    OBVIOUS
  <2> HIDE DEF Init
  <2> QED
    BY <2>1, <2>2, <2>4, <2>5 DEF RebuilderTypes
<1>10. SnapshotsAreBehind
  BY <1>2 DEF SnapshotsAreBehind
<1>11. StreamIsInOrder
  BY <1>2 DEF StreamIsInOrder
<1>12. DetectorIsBehind
  BY DEF DetectorIsBehind
<1>13. ChunksFollow
  BY <1>5 DEF ChunksFollow, Books
<1>14. SessionBookIsCurrent
  BY DEF SessionBookIsCurrent
<1>15. GapsAreTheLosses
  BY DEF GapsAreTheLosses
<1> QED
  BY <1>3, <1>4, <1>6, <1>7, <1>8, <1>9, <1>10, <1>11, <1>12, <1>13, <1>14, <1>15, TypeOKParts DEF IInv

LEMMA NextIInv ==
  ASSUME IInv, [Next]_vars
  PROVE  IInv'
<1>1. RebuilderStages' /\ RebuilderTypes' /\ SnapshotsAreBehind'
  BY RebuilderStep DEF RebuilderIsSound
<1>2. StreamTypes' /\ StreamIsInOrder'
  BY StreamStep
<1>3. BooksAreTyped' /\ CursorsFit' /\ ChunksFollow'
  BY ChunksStep
<1>4. SessionBookIsCurrent'
  BY SessionBookStep
<1>5. DetectorTypes' /\ DetectorIsBehind' /\ GapsAreTheLosses'
  BY DetectorStep
<1>6. TypeOK'
  BY <1>1, <1>2, <1>3, <1>5, TypeOKPartsNext
<1> QED
  BY <1>1, <1>2, <1>3, <1>4, <1>5, <1>6 DEF IInv

(* The inductive invariant holds in every state.                           *)
THEOREM Invariance == Spec => []IInv
BY InitIInv, NextIInv, PTL DEF Spec

(* Every variable keeps its type, a chunk that is still open is not full,  *)
(* and the mark DEPTH_SNAPSHOT_PENDING stands exactly while a request is in *)
(* the rebuilder's channel or being run, never both.                       *)
THEOREM TypeInvariant == Spec => []TypeOK
<1>1. IInv => TypeOK
  BY DEF IInv
<1> QED
  BY <1>1, Invariance, PTL

(* The session's book shows each level as the exchange had it at the last  *)
(* delivered message, whatever sessions, undecodable messages and quotes   *)
(* came before: apply_delta and apply_bbo on the one book.                 *)
THEOREM SessionBookIsCurrentHolds == Spec => []SessionBookIsCurrent
<1>1. IInv => SessionBookIsCurrent
  BY DEF IInv
<1> QED
  BY <1>1, Invariance, PTL

(* The lazily visited sums of a chunk are those of the whole book summed   *)
(* at every event: apply_level_update and finalize_to_event.               *)
THEOREM ChunkWeighsTheBookHolds == Spec => []ChunkWeighsTheBook
<1>1. IInv => ChunkWeighsTheBook
  <2> SUFFICES ASSUME IInv, NEW b \in Books, NEW l \in Levels, chunk[b] # NoChunk
               PROVE  Weighed(chunk[b], l) = weight[b][l]
    BY DEF ChunkWeighsTheBook
  <2>1. Sound(chunk[b], book[b], weight[b])
    BY DEF IInv, ChunksFollow
  <2> QED
    BY <2>1 DEF Sound, Weighed, Visit
<1> QED
  BY <1>1, Invariance, PTL

(* From the first depth message on, detect_depth_gap reports exactly the   *)
(* messages that were lost.                                                *)
THEOREM GapsAreTheLossesHolds == Spec => []GapsAreTheLosses
<1>1. IInv => GapsAreTheLosses
  BY DEF IInv
<1> QED
  BY <1>1, Invariance, PTL

=============================================================================
