-------------------------- MODULE OracleCache_proofs --------------------------
(***************************************************************************)
(* For any feeds, windows, list and pace of the job: what a cache serves   *)
(* is sound, and a healthy feed whose window is wide enough never stops    *)
(* answering, though its account may be set back and its cache with it.    *)
(***************************************************************************)
EXTENDS OracleCache, TLAPS

\* Where a cache reads and whose flags stop it.
LEMMA Sources ==
  ASSUME NEW f \in Caches
  PROVE  SourceOf(f) \in Accounts /\ f \in Chain(f) /\ Chain(f) \subseteq Adapters
BY OracleCacheAssumption DEF SourceOf, Chain, Caches, Adapters

\* What a refresh that succeeds has read.
LEMMA RefreshReads ==
  ASSUME TypeOK, NEW f \in Caches, Refreshes(f)
  PROVE  LET p == account[SourceOf(f)] IN
         /\ p \in Quote
         /\ p.time <= clock
         /\ Positive(p.quality) /\ Confident(p.quality)
         /\ f \in FeedCaches => p.quality # "tiny"
         /\ \A x \in Chain(f) : halted[x] = 0
<1>1. account[SourceOf(f)] \in Quote
  BY Sources DEF TypeOK
<1>2. CASE f \in PythCaches
  BY <1>1, <1>2, OracleCacheAssumption
     DEF Refreshes, PythRefreshes, SourceOf, FreshFor, Chain, IsPaused, Caches
<1>3. CASE f \in FeedCaches
  BY <1>1, <1>3, OracleCacheAssumption
     DEF Refreshes, FeedRefreshes, LiveAnswers, SourceOf, FreshFor, Chain, IsPaused, Caches
<1> QED BY <1>2, <1>3 DEF Caches

LEMMA HealthyMeans ==
  ASSUME TypeOK, NEW f \in Caches, Healthy(f)
  PROVE  Created(f) /\ Refreshes(f) /\ account[SourceOf(f)].time + Lag >= clock
<1>1. account[SourceOf(f)].time \in Nat /\ clock \in Nat /\ Lag \in Nat
  BY Sources, OracleCacheAssumption DEF TypeOK, Quote
<1>2. Refreshes(f) /\ clock - account[SourceOf(f)].time <= Lag
  BY DEF Healthy
<1>3. Created(f)
  BY <1>2 DEF Refreshes, PythRefreshes, FeedRefreshes
<1> QED BY <1>1, <1>2, <1>3

\* What was read is only replaced by what is read now, and that is at most Lag
\* old if the cache is well: it may be older than what it replaces.
ReadNow(f) == well[f] < clock => cache'[f].at # 0 /\ cache'[f].time >= clock - Lag

Onward ==
  /\ clock' \in Nat /\ clock' >= clock
  /\ cache' \in [Caches -> [time : Nat, quality : Quality, at : 0 .. clock']]
  /\ \A f \in Caches : /\ cache'[f].at >= cache[f].at
                       /\ cache'[f] = cache[f] \/ ReadNow(f)

LEMMA Stays ==
  ASSUME TypeOK, UNCHANGED cache, clock' \in Nat, clock' >= clock
  PROVE  Onward
BY DEF TypeOK, Onward

\* Storing what was read.
LEMMA Stores ==
  ASSUME TypeOK, CacheSound, HealthWatched, NEW f \in Caches, Refreshes(f), cache' = Snapshot(f),
         UNCHANGED <<clock, account, halted>>
  PROVE  Onward /\ CacheSound' /\ cache'[f].at = clock /\ ReadNow(f)
<1> DEFINE p == account[SourceOf(f)]
<1>1. p \in Quote /\ p.time <= clock /\ Positive(p.quality) /\ Confident(p.quality)
      /\ (f \in FeedCaches => p.quality # "tiny") /\ \A x \in Chain(f) : halted[x] = 0
  BY RefreshReads
<1>2. cache'[f] = [time |-> p.time, quality |-> p.quality, at |-> clock]
      /\ \A g \in Caches \ {f} : cache'[g] = cache[g]
  BY DEF Snapshot, TypeOK
<1>3. clock \in Nat /\ clock > 0
  BY DEF TypeOK
<1>4. cache' \in [Caches -> [time : Nat, quality : Quality, at : 0 .. clock']]
  BY <1>1, <1>3 DEF Snapshot, TypeOK, Quote
<1>5. ReadNow(f)
  <2> SUFFICES ASSUME well[f] < clock PROVE cache'[f].at # 0 /\ cache'[f].time >= clock - Lag
    BY DEF ReadNow
  <2>1. well[f] # clock
    BY <1>3 DEF TypeOK
  <2>2. p.time + Lag >= clock
    BY <2>1, HealthyMeans DEF HealthWatched
  <2> QED BY <1>1, <1>2, <1>3, <2>2, OracleCacheAssumption DEF Quote
<1>9. Onward
  <2>1. \A g \in Caches : cache[g].at \in 0 .. clock
    BY DEF TypeOK
  <2>2. \A g \in Caches : cache'[g].at >= cache[g].at
    BY <1>2, <1>3, <2>1
  <2> QED BY <1>2, <1>3, <1>4, <1>5, <2>2 DEF Onward
<1>6. ASSUME NEW g \in Caches, g # f
      PROVE  Sound(g)'
  BY <1>2, <1>6 DEF CacheSound, Sound, SourceOf, Chain
<1>7. Sound(f)'
  BY <1>1, <1>2, <1>3 DEF Sound, SourceOf, Chain, Quote
<1>8. CacheSound'
  BY <1>6, <1>7 DEF CacheSound
<1> QED BY <1>2, <1>5, <1>8, <1>9

\* What is watched at every step but a loss.
LEMMA Watched ==
  ASSUME TypeOK, WatchHealth, clock' \in Nat, clock' >= clock
  PROVE  /\ well' \in [Caches -> 1 .. clock'] /\ HealthWatched'
         /\ \A f \in Caches : well'[f] >= well[f]
<1>1. \A f \in Caches : well'[f] = IF Healthy(f)' THEN well[f] ELSE clock'
  BY DEF WatchHealth
<1>2. well' \in [Caches -> 1 .. clock'] /\ \A f \in Caches : well'[f] >= well[f]
  BY <1>1 DEF TypeOK, WatchHealth
<1>3. HealthWatched'
  BY <1>1 DEF HealthWatched
<1> QED BY <1>2, <1>3

\* What was read since t, of a cache that has been well since, still was.
LEMMA StillRead ==
  ASSUME TypeOK, Onward, well' \in [Caches -> 1 .. clock'], \A f \in Caches : well'[f] >= well[f],
         NEW f \in Caches, NEW t \in Int, t <= keeper.start, t > well'[f], ReadSince(f, t)
  PROVE  cache'[f].at # 0 /\ cache'[f].time >= t - Lag
<1>1. /\ keeper.start \in 1 .. clock /\ clock \in 1 .. MaxClock /\ well[f] \in Nat
      /\ well'[f] \in Nat /\ well'[f] >= well[f] /\ Lag \in Nat /\ cache'[f].time \in Nat
  BY OracleCacheAssumption DEF TypeOK, Onward
<1>2. well[f] < clock /\ clock - Lag >= t - Lag
  BY <1>1
<1>3. CASE cache'[f] = cache[f]
  BY <1>3 DEF ReadSince
<1>4. CASE ReadNow(f)
  BY <1>1, <1>2, <1>4 DEF ReadNow
<1> QED BY <1>3, <1>4 DEF Onward

\* While the keeper sleeps, its promises stand.
LEMMA RoundsStand ==
  ASSUME TypeOK, Rounds, Counted, Onward, UNCHANGED keeper,
         well' \in [Caches -> 1 .. clock'], \A f \in Caches : well'[f] >= well[f]
  PROVE  Rounds' /\ Counted'
<1>1. ASSUME NEW i \in DOMAIN Order PROVE Order[i] \in Caches
  BY OracleCacheAssumption
<1>2. \A f \in Caches : /\ cache[f].at \in Nat /\ cache'[f].at \in Nat
                        /\ cache'[f].at >= cache[f].at
                        /\ well[f] \in Nat /\ well'[f] \in Nat /\ well'[f] >= well[f]
  BY DEF TypeOK, Onward
<1>3. keeper.start \in Nat /\ keeper.list \subseteq Caches
  BY DEF TypeOK
<1>4. Rounds'
  <2>1. ASSUME NEW i \in DOMAIN Order, NEW t \in Int, t <= keeper.start, t > well'[Order[i]],
               ReadSince(Order[i], t)
        PROVE  cache'[Order[i]].at # 0 /\ cache'[Order[i]].time >= t - Lag
    BY <1>1, <2>1, StillRead
  <2>2. keeper.start - Interval \in Int /\ keeper.start - Interval <= keeper.start
        /\ keeper.start \in Int
    BY <1>3, OracleCacheAssumption
  <2>3. \A i \in DOMAIN Order : well[Order[i]] \in Nat /\ well'[Order[i]] \in Nat
                               /\ well'[Order[i]] >= well[Order[i]]
    BY <1>1, <1>2
  <2>4. \A i \in DOMAIN Order : \A t \in Int : t > well'[Order[i]] => t > well[Order[i]]
    BY <2>3
  <2> QED BY <2>1, <2>2, <2>4 DEF Rounds, ReadSince
<1>5. Counted'
  BY <1>2, <1>3 DEF Counted
<1> QED BY <1>4, <1>5

-----------------------------------------------------------------------------
(* Steps of the environment and of the contracts                           *)

LEMMA InitInv == Init => CacheInv
<1> SUFFICES ASSUME Init PROVE CacheInv
  OBVIOUS
<1>1. TypeOK
  BY OracleCacheAssumption DEF Init, TypeOK, Quote, Quality
<1>2. CacheSound
  BY Sources DEF Init, CacheSound, Sound
<1>3. HealthWatched /\ Rounds /\ Counted
  BY OracleCacheAssumption DEF Init, HealthWatched, Rounds, Counted
<1>4. Punctual
  BY OracleCacheAssumption DEF Init, Punctual
<1> QED BY <1>1, <1>2, <1>3, <1>4 DEF CacheInv

\* A step that touches neither the keeper nor the stored prices.
LEMMA QuietKeeps ==
  ASSUME CacheInv, UNCHANGED <<cache, keeper>>, WatchHealth, clock' \in Nat, clock' >= clock
  PROVE  /\ Onward /\ well' \in [Caches -> 1 .. clock']
         /\ HealthWatched' /\ Rounds' /\ Counted'
<1>1. Onward
  BY Stays DEF CacheInv
<1> QED BY <1>1, Watched, RoundsStand DEF CacheInv

LEMMA TickKeeps ==
  ASSUME CacheInv, Tick
  PROVE  CacheInv'
<1>1. clock \in 1 .. MaxClock /\ clock' = clock + 1 /\ clock' \in 1 .. MaxClock
      /\ keeper.start \in 1 .. clock
  BY OracleCacheAssumption DEF Tick, CacheInv, TypeOK
<1>2. Onward /\ well' \in [Caches -> 1 .. clock'] /\ HealthWatched' /\ Rounds' /\ Counted'
  BY <1>1, QuietKeeps DEF Tick
<1>3. TypeOK'
  <2>1. keeper' \in [todo : SUBSET DOMAIN Order, start : 1 .. clock',
                    list : SUBSET Caches, failed : BOOLEAN]
    BY <1>1 DEF Tick, CacheInv, TypeOK
  <2>2. halted' \in [Adapters -> 0 .. clock']
    BY <1>1 DEF Tick, CacheInv, TypeOK
  <2> QED BY <1>1, <1>2, <2>1, <2>2 DEF Tick, CacheInv, TypeOK, Onward
<1>4. CacheSound'
  BY <1>1, Sources DEF Tick, CacheInv, TypeOK, CacheSound, Sound, SourceOf, Chain
<1>5. Punctual'
  BY <1>1, OracleCacheAssumption DEF Tick, Due, CacheInv, Punctual
<1> QED BY <1>2, <1>3, <1>4, <1>5 DEF CacheInv

LEMMA PublishKeeps ==
  ASSUME CacheInv, NEW a \in Accounts, Publish(a)
  PROVE  CacheInv'
<1>1. PICK d \in Drifts, q \in Posted :
        /\ clock + d >= 0
        /\ account' = [account EXCEPT ![a] = [time |-> clock + d, quality |-> q]]
  BY DEF Publish
<1>2. account \in [Accounts -> Quote] /\ clock \in Nat /\ clock + d \in Nat /\ q \in Quality
  BY <1>1, OracleCacheAssumption DEF CacheInv, TypeOK
<1>3. account' \in [Accounts -> Quote]
  BY <1>1, <1>2 DEF Quote
<1>4. Onward /\ well' \in [Caches -> 1 .. clock'] /\ HealthWatched' /\ Rounds' /\ Counted'
  BY <1>2, QuietKeeps DEF Publish
<1>5. TypeOK'
  BY <1>3, <1>4 DEF Publish, CacheInv, TypeOK
<1>6. CacheSound'
  BY DEF Publish, CacheInv, CacheSound, Sound, Chain
<1>7. Punctual'
  BY DEF Publish, CacheInv, Punctual
<1> QED BY <1>4, <1>5, <1>6, <1>7 DEF CacheInv

LEMMA OwnerKeeps ==
  ASSUME CacheInv, NEW x \in Adapters, Create(x) \/ PauseAdapter(x) \/ UnpauseAdapter(x)
  PROVE  CacheInv'
<1>1. clock' = clock /\ clock \in 1 .. MaxClock /\ UNCHANGED <<account, cache, keeper>> /\ WatchHealth
  BY DEF Create, PauseAdapter, UnpauseAdapter, CacheInv, TypeOK
<1>2. Onward /\ well' \in [Caches -> 1 .. clock'] /\ HealthWatched' /\ Rounds' /\ Counted'
  BY <1>1, QuietKeeps
<1>3. window' \in [Adapters -> Windows \cup {0}]
  BY DEF Create, PauseAdapter, UnpauseAdapter, CacheInv, TypeOK
<1>4. /\ halted' \in [Adapters -> 0 .. clock']
      /\ \A y \in Adapters : halted'[y] \in {halted[y], 0, clock}
  BY <1>1 DEF Create, PauseAdapter, UnpauseAdapter, CacheInv, TypeOK
<1>5. TypeOK'
  BY <1>1, <1>2, <1>3, <1>4 DEF CacheInv, TypeOK
<1>6. CacheSound'
  <2> SUFFICES ASSUME NEW f \in Caches PROVE Sound(f)'
    BY DEF CacheSound
  <2>1. Sound(f) /\ Chain(f) \subseteq Adapters
    BY Sources DEF CacheInv, CacheSound
  <2> QED BY <1>1, <1>4, <2>1 DEF Sound, SourceOf, Chain
<1>7. Punctual'
  BY <1>1 DEF CacheInv, Punctual
<1> QED BY <1>2, <1>5, <1>6, <1>7 DEF CacheInv

LEMMA RefreshKeeps ==
  ASSUME CacheInv, NEW f \in Caches, Refresh(f)
  PROVE  CacheInv'
<1>1. clock' = clock /\ clock \in 1 .. MaxClock /\ UNCHANGED <<account, window, halted, keeper>>
  BY DEF Refresh, CacheInv, TypeOK
<1>2. Onward /\ CacheSound'
  BY Stores DEF Refresh, CacheInv
<1>3. well' \in [Caches -> 1 .. clock'] /\ HealthWatched' /\ \A g \in Caches : well'[g] >= well[g]
  BY <1>1, Watched DEF Refresh, CacheInv
<1>4. Rounds' /\ Counted'
  BY <1>1, <1>2, <1>3, RoundsStand DEF CacheInv
<1>5. TypeOK'
  BY <1>1, <1>2, <1>3 DEF CacheInv, TypeOK, Onward
<1>6. Punctual'
  BY <1>1 DEF CacheInv, Punctual
<1> QED BY <1>2, <1>3, <1>4, <1>5, <1>6 DEF CacheInv

-----------------------------------------------------------------------------
(* Steps of the keeper                                                     *)

LEMMA KeeperStartKeeps ==
  ASSUME CacheInv, KeeperStart
  PROVE  CacheInv'
<1> DEFINE listed == {i \in DOMAIN Order : Created(Order[i])}
<1>1. keeper' = [todo |-> listed, start |-> clock,
                 list |-> {Order[i] : i \in listed}, failed |-> listed = {}]
      /\ UNCHANGED <<clock, account, window, halted, cache>> /\ WatchHealth
  BY DEF KeeperStart
<1>2. clock \in 1 .. MaxClock /\ keeper.todo = {} /\ keeper.start \in 1 .. clock
      /\ clock = keeper.start + Interval
  <2>1. clock \in 1 .. MaxClock /\ keeper.start \in 1 .. clock /\ MaxClock \in Nat /\ Interval \in Nat
    BY OracleCacheAssumption DEF CacheInv, TypeOK
  <2>2. keeper.todo = {} /\ clock - keeper.start >= Interval /\ clock <= keeper.start + Interval
    BY DEF KeeperStart, Due, CacheInv, Punctual
  <2> QED BY <2>1, <2>2
<1>3. \A i \in DOMAIN Order : Order[i] \in Caches
  BY OracleCacheAssumption
<1>4. Onward
  BY <1>1, <1>2, Stays DEF CacheInv
<1>5. well' \in [Caches -> 1 .. clock'] /\ HealthWatched' /\ \A f \in Caches : well'[f] >= well[f]
  BY <1>1, <1>2, Watched DEF CacheInv
<1>6. TypeOK'
  <2>1. keeper' \in [todo : SUBSET DOMAIN Order, start : 1 .. clock',
                    list : SUBSET Caches, failed : BOOLEAN]
    BY <1>1, <1>2, <1>3
  <2> QED BY <1>1, <1>2, <1>5, <2>1 DEF CacheInv, TypeOK
<1>7. CacheSound'
  BY <1>1 DEF CacheInv, CacheSound, Sound, SourceOf, Chain
<1>8. Punctual'
  BY <1>1, <1>2, OracleCacheAssumption DEF Punctual
<1>9. Rounds'
  <2> SUFFICES ASSUME NEW i \in DOMAIN Order
               PROVE  /\ i \notin keeper'.todo /\ keeper'.start > well'[Order[i]]
                           => ReadSince(Order[i], keeper.start)'
                      /\ i \in keeper'.todo /\ keeper'.start - Interval > well'[Order[i]]
                           => ReadSince(Order[i], keeper.start - Interval)'
    BY DEF Rounds
  <2>1. Order[i] \in Caches /\ well[Order[i]] \in Nat /\ well'[Order[i]] \in Nat
        /\ well'[Order[i]] >= well[Order[i]]
    BY <1>3, <1>5 DEF CacheInv, TypeOK
  <2>2. ASSUME i \notin keeper'.todo PROVE ~(keeper'.start > well'[Order[i]])
    <3>1. ~Created(Order[i])
      BY <1>1, <2>2
    <3>2. well[Order[i]] = clock
      BY <2>1, <3>1, HealthyMeans DEF CacheInv, HealthWatched
    <3> QED BY <1>1, <1>2, <2>1, <3>2
  <2>3. ASSUME keeper'.start - Interval > well'[Order[i]]
        PROVE  ReadSince(Order[i], keeper.start - Interval)'
    <3>1. keeper'.start - Interval = keeper.start
      BY <1>1, <1>2, OracleCacheAssumption
    <3>2. keeper.start > well[Order[i]]
      BY <1>2, <2>1, <2>3, <3>1
    <3>3. ReadSince(Order[i], keeper.start)
      BY <1>2, <3>2 DEF CacheInv, Rounds
    <3> QED BY <1>1, <3>1, <3>3 DEF ReadSince
  <2> QED BY <2>2, <2>3
<1>10. Counted'
  BY <1>1 DEF Counted
<1> QED BY <1>5, <1>6, <1>7, <1>8, <1>9, <1>10 DEF CacheInv

\* One turn of the loop, whatever became of the transaction: the place i is
\* dealt with, and its cache was read now or is not well.
LEMMA TurnKeeps ==
  ASSUME CacheInv, NEW i \in keeper.todo, NEW ok \in BOOLEAN, KeeperPast(i, ok),
         UNCHANGED <<clock, account, window, halted>>, Onward, CacheSound', HealthWatched',
         well' \in [Caches -> 1 .. clock'], \A f \in Caches : well'[f] >= well[f],
         ok => cache'[Order[i]].at = clock,
         well'[Order[i]] < clock => ReadSince(Order[i], clock)'
  PROVE  CacheInv'
<1>1. clock \in Nat /\ clock \in 1 .. MaxClock /\ keeper.start \in 1 .. clock
      /\ i \in DOMAIN Order /\ keeper.list \subseteq Caches /\ Lag \in Nat /\ Interval \in Nat
  BY OracleCacheAssumption DEF CacheInv, TypeOK
<1>2. keeper'.todo = keeper.todo \ {i} /\ keeper'.start = keeper.start
      /\ keeper'.list = keeper.list /\ keeper'.failed = (keeper.failed \/ ~ok)
  BY DEF KeeperPast, CacheInv, TypeOK
<1>3. \A f \in Caches : /\ cache[f].time \in Nat /\ cache'[f].time \in Nat
                        /\ cache[f].at \in Nat /\ cache'[f].at \in Nat
                        /\ cache'[f].at >= cache[f].at
                        /\ well[f] \in Nat /\ well'[f] \in Nat /\ well'[f] >= well[f]
  BY DEF CacheInv, TypeOK, Onward
<1>4. \A j \in DOMAIN Order : Order[j] \in Caches
  BY OracleCacheAssumption
<1>5. TypeOK'
  <2>1. keeper' \in [todo : SUBSET DOMAIN Order, start : 1 .. clock',
                    list : SUBSET Caches, failed : BOOLEAN]
    BY DEF KeeperPast, CacheInv, TypeOK
  <2> QED BY <2>1 DEF CacheInv, TypeOK, Onward
<1>6. Punctual'
  BY <1>1, <1>2, OracleCacheAssumption DEF CacheInv, Punctual
<1>7. Rounds'
  <2>1. ASSUME NEW j \in DOMAIN Order, j # i
        PROVE  /\ j \notin keeper'.todo /\ keeper'.start > well'[Order[j]]
                    => ReadSince(Order[j], keeper.start)'
               /\ j \in keeper'.todo /\ keeper'.start - Interval > well'[Order[j]]
                    => ReadSince(Order[j], keeper.start - Interval)'
    <3>1. \A t \in Int : t <= keeper.start /\ t > well'[Order[j]] /\ ReadSince(Order[j], t)
            => cache'[Order[j]].at # 0 /\ cache'[Order[j]].time >= t - Lag
      BY <1>4, StillRead DEF CacheInv
    <3>2. keeper.start - Interval \in Int /\ keeper.start - Interval <= keeper.start
          /\ keeper.start \in Int
      BY <1>1
    <3>3. \A t \in Int : t > well'[Order[j]] => t > well[Order[j]]
      BY <1>3, <1>4
    <3>4. j \in keeper'.todo <=> j \in keeper.todo
      BY <1>2, <2>1
    <3> QED BY <1>2, <3>1, <3>2, <3>3, <3>4 DEF CacheInv, Rounds, ReadSince
  <2>2. keeper'.start > well'[Order[i]] => ReadSince(Order[i], keeper.start)'
    BY <1>1, <1>2, <1>3, <1>4 DEF ReadSince
  <2> QED BY <1>2, <2>1, <2>2 DEF Rounds
<1>8. Counted'
  <2> SUFFICES ASSUME ~keeper'.failed, NEW f \in keeper'.list
               PROVE  cache'[f].at >= keeper'.start \/ \E j \in keeper'.todo : Order[j] = f
    BY DEF Counted
  <2>1. f \in Caches /\ ok /\ ~keeper.failed
    BY <1>1, <1>2
  <2>2. CASE f = Order[i]
    BY <1>1, <1>2, <2>1, <2>2
  <2>3. CASE f # Order[i]
    BY <1>1, <1>2, <1>3, <2>1, <2>3 DEF CacheInv, Counted
  <2> QED BY <2>2, <2>3
<1> QED BY <1>5, <1>6, <1>7, <1>8 DEF CacheInv

LEMMA KeeperRefreshKeeps ==
  ASSUME CacheInv, NEW i \in keeper.todo, KeeperRefresh(i)
  PROVE  CacheInv'
<1> DEFINE f == Order[i]
<1>1. f \in Caches /\ clock \in Nat
  BY OracleCacheAssumption DEF CacheInv, TypeOK
<1>2. UNCHANGED <<clock, account, window, halted>> /\ WatchHealth
      /\ cache' = (IF Refreshes(f) THEN Snapshot(f) ELSE cache)
      /\ KeeperPast(i, Refreshes(f))
  BY DEF KeeperRefresh
<1>3. well' \in [Caches -> 1 .. clock'] /\ HealthWatched' /\ \A g \in Caches : well'[g] >= well[g]
  BY <1>1, <1>2, Watched DEF CacheInv
<1>4. CASE Refreshes(f)
  <2>1. Onward /\ CacheSound' /\ cache'[f].at = clock /\ ReadNow(f)
    BY <1>1, <1>2, <1>4, Stores DEF CacheInv
  <2>2. ASSUME well'[f] < clock PROVE ReadSince(f, clock)'
    <3>1. well'[f] >= well[f] /\ well[f] \in Nat /\ well'[f] \in Nat
      BY <1>1, <1>3 DEF CacheInv, TypeOK
    <3>2. well[f] < clock
      BY <1>1, <2>2, <3>1
    <3> QED BY <1>1, <1>2, <2>1, <3>2 DEF ReadSince, ReadNow
  <2> QED BY <1>2, <1>3, <1>4, <2>1, <2>2, TurnKeeps DEF KeeperPast
<1>5. CASE ~Refreshes(f)
  <2>1. Onward
    BY <1>1, <1>2, <1>5, Stays DEF CacheInv
  <2>2. CacheSound'
    BY <1>2, <1>5 DEF CacheInv, CacheSound, Sound, SourceOf, Chain
  <2>3. well[f] = clock
    BY <1>1, <1>5, HealthyMeans DEF CacheInv, HealthWatched
  <2>4. ~(well'[f] < clock)
    BY <1>1, <1>3, <2>3 DEF CacheInv, TypeOK
  <2> QED BY <1>2, <1>3, <1>5, <2>1, <2>2, <2>4, TurnKeeps DEF KeeperPast
<1> QED BY <1>4, <1>5

LEMMA KeeperLosesKeeps ==
  ASSUME CacheInv, NEW i \in keeper.todo, KeeperLoses(i)
  PROVE  CacheInv'
<1> DEFINE f == Order[i]
<1>1. f \in Caches /\ clock \in Nat /\ clock \in 1 .. MaxClock
  BY OracleCacheAssumption DEF CacheInv, TypeOK
<1>2. UNCHANGED <<clock, account, window, halted, cache>> /\ KeeperPast(i, FALSE)
      /\ well' = [well EXCEPT ![f] = clock]
  BY DEF KeeperLoses
<1>3. well \in [Caches -> 1 .. clock]
  BY DEF CacheInv, TypeOK
<1>4. well' \in [Caches -> 1 .. clock'] /\ well'[f] = clock
      /\ \A g \in Caches : well'[g] >= well[g] /\ well'[g] \in {well[g], clock}
  BY <1>1, <1>2, <1>3
<1>5. \A g \in Caches : Healthy(g)' <=> Healthy(g)
  BY <1>2 DEF Healthy, Refreshes, PythRefreshes, FeedRefreshes, LiveAnswers, Created, IsPaused,
     FreshFor, SourceOf
<1>6. HealthWatched'
  BY <1>2, <1>4, <1>5 DEF CacheInv, HealthWatched
<1>7. Onward
  BY <1>1, <1>2, Stays DEF CacheInv
<1>8. CacheSound'
  BY <1>2 DEF CacheInv, CacheSound, Sound, SourceOf, Chain
<1>9. ~(well'[f] < clock)
  BY <1>1, <1>4
<1> QED BY <1>2, <1>4, <1>6, <1>7, <1>8, <1>9, TurnKeeps

-----------------------------------------------------------------------------
LEMMA StepKeeps == CacheInv /\ [Next]_vars => CacheInv'
<1> SUFFICES ASSUME CacheInv, [Next]_vars PROVE CacheInv'
  OBVIOUS
<1>1. CASE UNCHANGED vars
  BY <1>1 DEF vars, CacheInv, TypeOK, CacheSound, Sound, HealthWatched, Healthy, Refreshes,
     PythRefreshes, FeedRefreshes, LiveAnswers, Created, IsPaused, FreshFor, SourceOf, Chain,
     Punctual, Rounds, ReadSince, Counted
<1>2. CASE Next
  BY <1>2, TickKeeps, PublishKeeps, OwnerKeeps, RefreshKeeps, KeeperStartKeeps,
     KeeperRefreshKeeps, KeeperLosesKeeps DEF Next
<1> QED BY <1>1, <1>2

LEMMA CacheInvariant == Spec => []CacheInv
BY InitInv, StepKeeps, PTL DEF Spec

\* The variables keep their types.
THEOREM CacheTypes == Spec => []TypeOK
BY CacheInvariant, PTL DEF CacheInv

\* refresh() compares nothing with what it replaces and the read looks at no
\* flag, yet the answers of a cache are sound and never from after a pause.
THEOREM AnswersAreSound == Spec => []ServedSoundly
<1>1. CacheInv => ServedSoundly
  BY DEF CacheInv, CacheSound, Sound, Serves, ServedSoundly
<1> QED BY <1>1, CacheInvariant, PTL

\* A cache that was well for one period and one run answers, and a run that
\* counted no failure has left no cache of its list behind.
THEOREM KeeperIsInTime == Spec => []KeeperKeepsUp
<1>1. CacheInv => Answering
  <2> SUFFICES ASSUME CacheInv, NEW i \in DOMAIN Order,
                      window[Order[i]] >= Lag + Interval + RunTime,
                      clock - well[Order[i]] > Interval + RunTime
               PROVE  Serves(Order[i])
    BY DEF Answering
  <2> DEFINE f == Order[i]
  <2>1. f \in Caches /\ f \in Adapters
    BY OracleCacheAssumption DEF Adapters
  <2>2. /\ clock \in Nat /\ keeper.start \in Nat /\ well[f] \in Nat /\ window[f] \in Nat
        /\ cache[f].time \in Nat /\ Lag \in Nat /\ Interval \in Nat /\ RunTime \in Nat
        /\ Interval > RunTime /\ keeper.start <= clock
    <3>1. clock \in 1 .. MaxClock /\ keeper.start \in 1 .. clock /\ well[f] \in 1 .. clock
          /\ window[f] \in Windows \cup {0} /\ cache[f].time \in Nat
      BY <2>1 DEF CacheInv, TypeOK
    <3>2. Windows \cup {0} \subseteq Nat /\ MaxClock \in Nat /\ Lag \in Nat /\ RunTime \in Nat
          /\ Interval \in Nat /\ Interval > RunTime
      BY OracleCacheAssumption
    <3> QED BY <3>1, <3>2
  <2>3. cache[f].at # 0 => cache[f].time <= clock
    BY <2>1 DEF CacheInv, CacheSound, Sound
  <2>4. CASE i \notin keeper.todo
    <3>1. clock <= keeper.start + Interval
      BY <2>2 DEF CacheInv, Punctual
    <3>2. ReadSince(f, keeper.start)
      BY <2>2, <2>4, <3>1 DEF CacheInv, Rounds
    <3> QED BY <2>2, <2>3, <3>1, <3>2 DEF ReadSince, Serves, FreshFor
  <2>5. CASE i \in keeper.todo
    <3>1. clock <= keeper.start + RunTime
      BY <2>2, <2>5 DEF CacheInv, Punctual
    <3>2. ReadSince(f, keeper.start - Interval)
      BY <2>2, <2>5, <3>1 DEF CacheInv, Rounds
    <3> QED BY <2>2, <2>3, <3>1, <3>2 DEF ReadSince, Serves, FreshFor
  <2> QED BY <2>4, <2>5
<1>2. CacheInv => CleanRun
  BY DEF CacheInv, Counted, CleanRun
<1> QED BY <1>1, <1>2, CacheInvariant, PTL DEF KeeperKeepsUp
=============================================================================
