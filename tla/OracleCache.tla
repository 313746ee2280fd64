----------------------------- MODULE OracleCache -----------------------------
(***************************************************************************)
(* The cached oracle feeds and their keeper.  A cache of Pyth             *)
(* (CachedPythAdapter) parses the Pyth account itself; a cache of a feed   *)
(* (CachedFeedAdapter) asks a live adapter (PythPullAdapter), which has a  *)
(* pause flag and a staleness window of its own.  refresh() stores what it *)
(* read; latestRoundData() serves the stored price while it is fresh and   *)
(* looks at no pause flag.  OracleAdapterFactory creates the adapters and  *)
(* holds the flags.  A cron job runs refresh-cached-feeds.ts, which sends  *)
(* one refresh() per listed cache, each a transaction that may be lost or  *)
(* revert.  Anybody else may call refresh() too.                           *)
(*                                                                         *)
(* The publisher is external: its prices come at any time, of any quality, *)
(* with publish times that may be behind the ones they replace or ahead of *)
(* the chain's clock.  refresh() compares nothing with what it replaces,   *)
(* so a cache follows its account back.                                    *)
(*                                                                         *)
(* Time is a clock of whole units.  The job is punctual: the clock does    *)
(* not pass a start that is due (Interval) nor the end of a run (RunTime); *)
(* MaxClock ends the model.                                                *)
(***************************************************************************)
EXTENDS Integers, Sequences, FiniteSets

CONSTANTS PythCaches, FeedCaches, Lives,   \* the adapters, by kind
          Accounts,                        \* the Pyth accounts
          AccountOf,     \* [PythCaches \cup Lives -> Accounts]
          Underlying,    \* [FeedCaches -> Lives]
          Order,         \* the caches as the deployment record lists them
          Windows,       \* staleness windows an owner or a creator picks
          Posted,        \* the qualities of the prices the publisher posts
          Drifts,        \* how far from the clock it dates them (bound)
          Lag, Interval, RunTime, MaxClock

Caches   == PythCaches \cup FeedCaches
Adapters == Caches \cup Lives

\* What the parser and the checks tell apart in a price: "none" is not
\* positive, "wide" has a confidence above 2% of the price, "tiny" is positive
\* but zero once written with 8 decimals.
Quality == {"none", "wide", "tiny", "fine"}

ASSUME OracleCacheAssumption ==
  /\ PythCaches \cap FeedCaches = {} /\ Caches \cap Lives = {}
  /\ AccountOf \in [PythCaches \cup Lives -> Accounts]
  /\ Underlying \in [FeedCaches -> Lives]
  /\ Order \in Seq(Caches)
  /\ Windows \subseteq Nat \ {0} /\ Posted \subseteq Quality /\ Drifts \subseteq Int
  /\ Lag \in Nat /\ RunTime \in Nat /\ MaxClock \in Nat \ {0}
  /\ Interval \in Nat /\ Interval > RunTime

VARIABLES
  clock,     \* block.timestamp
  account,   \* [Accounts -> [time, quality]]: the price an account holds
  window,    \* [Adapters -> maxStaleness], 0: not created yet
  halted,    \* [Adapters -> clock at which it was paused], 0: not paused
  cache,     \* [Caches -> [time, quality, at]], at = 0: never refreshed
  keeper,    \* [todo: places of Order still to refresh, start: of the last
             \*  run, list: its caches, failed: it counted a failure]
  well       \* history: since when a cache could be refreshed at any moment

vars == <<clock, account, window, halted, cache, keeper, well>>

Init ==
  /\ clock = 1
  /\ account = [a \in Accounts |-> [time |-> 0, quality |-> "none"]]
  /\ window = [x \in Adapters |-> 0]
  /\ halted = [x \in Adapters |-> 0]
  /\ cache = [f \in Caches |-> [time |-> 0, quality |-> "none", at |-> 0]]
  /\ keeper = [todo |-> {}, start |-> 1, list |-> {}, failed |-> FALSE]
  /\ well = [f \in Caches |-> 1]

(***************************************************************************)
(* The contracts.                                                          *)
(***************************************************************************)
Created(x) == window[x] # 0
IsPaused(x) == halted[x] # 0

\* _checkStaleness of adapter x: neither from the future nor too old.
FreshFor(x, t) == t <= clock /\ clock - t <= window[x]

Positive(q)  == q # "none"
Confident(q) == q # "wide"

\* Mutant: the live adapter forgets its own pause flag.
LiveAnswersPaused(l) ==
  LET p == account[AccountOf[l]] IN
  /\ Created(l)
  /\ FreshFor(l, p.time)
  /\ Positive(p.quality) /\ Confident(p.quality)

\* PythPullAdapter.latestRoundData answers.
LiveAnswers(l) ==
  LET p == account[AccountOf[l]] IN
  /\ Created(l) /\ ~IsPaused(l)
  /\ FreshFor(l, p.time)
  /\ Positive(p.quality) /\ Confident(p.quality)

\* CachedPythAdapter.refresh succeeds.
PythRefreshes(f) ==
  LET p == account[AccountOf[f]] IN
  /\ Created(f) /\ ~IsPaused(f)
  /\ Positive(p.quality) /\ Confident(p.quality)
  /\ FreshFor(f, p.time)

\* CachedFeedAdapter.refresh succeeds: here the normalised answer is tested.
FeedRefreshes(f) ==
  LET p == account[AccountOf[Underlying[f]]] IN
  /\ Created(f) /\ ~IsPaused(f)
  /\ LiveAnswers(Underlying[f])
  /\ p.quality # "tiny"
  /\ FreshFor(f, p.time)

SourceOf(f) == IF f \in PythCaches THEN AccountOf[f] ELSE AccountOf[Underlying[f]]

Refreshes(f) == IF f \in PythCaches THEN PythRefreshes(f) ELSE FeedRefreshes(f)

\* What refresh() stores.
Snapshot(f) ==
  LET p == account[SourceOf(f)] IN
  [cache EXCEPT ![f] = [time |-> p.time, quality |-> p.quality, at |-> clock]]

\* latestRoundData of a cache answers.
Serves(f) == cache[f].at # 0 /\ FreshFor(f, cache[f].time)

(***************************************************************************)
(* The history of good health.  A cache is healthy while a refresh of it   *)
(* would succeed with a price at most Lag old; well[f] is the last moment  *)
(* it was not, or at which the keeper's transaction for it was lost.       *)
(***************************************************************************)
Healthy(f) == Refreshes(f) /\ clock - account[SourceOf(f)].time <= Lag

\* Part of every action but the loss of a transaction.
WatchHealth ==
  well' = [f \in Caches |-> IF Healthy(f)' THEN well[f] ELSE clock']

(***************************************************************************)
(* The actions.                                                            *)
(***************************************************************************)
Due == keeper.todo = {} /\ clock - keeper.start >= Interval

Tick ==
  /\ clock < MaxClock
  /\ ~Due
  /\ keeper.todo # {} => clock - keeper.start < RunTime
  /\ clock' = clock + 1
  /\ UNCHANGED <<account, window, halted, cache, keeper>>
  /\ WatchHealth

\* External: the publisher writes a price, at times one older than the account
\* holds.
Publish(a) ==
  /\ \E d \in Drifts, q \in Posted :
       /\ clock + d >= 0
       /\ account' = [account EXCEPT ![a] = [time |-> clock + d, quality |-> q]]
  /\ UNCHANGED <<clock, window, halted, cache, keeper>>
  /\ WatchHealth

\* createPythFeed, createCachedPythFeed, createCachedFeed: once per source,
\* with the window asked for or, for 0, the default the owner has set.
Create(x) ==
  /\ ~Created(x)
  /\ x \in FeedCaches => Created(Underlying[x])
  /\ \E s \in Windows : window' = [window EXCEPT ![x] = s]
  /\ UNCHANGED <<clock, account, halted, cache, keeper>>
  /\ WatchHealth

\* Pausing what is paused changes nothing but the event.
PauseAdapter(x) ==
  /\ Created(x) /\ ~IsPaused(x)
  /\ halted' = [halted EXCEPT ![x] = clock]
  /\ UNCHANGED <<clock, account, window, cache, keeper>>
  /\ WatchHealth

UnpauseAdapter(x) ==
  /\ Created(x)
  /\ halted' = [halted EXCEPT ![x] = 0]
  /\ UNCHANGED <<clock, account, window, cache, keeper>>
  /\ WatchHealth

\* Anybody's refresh().
Refresh(f) ==
  /\ Refreshes(f)
  /\ cache' = Snapshot(f)
  /\ UNCHANGED <<clock, account, window, halted, keeper>>
  /\ WatchHealth

\* The cron job starts: the list is read once, and an empty list is an error.
KeeperStart ==
  /\ Due
  /\ LET listed == {i \in DOMAIN Order : Created(Order[i])} IN
     keeper' = [todo |-> listed, start |-> clock,
                list |-> {Order[i] : i \in listed}, failed |-> listed = {}]
  /\ UNCHANGED <<clock, account, window, halted, cache>>
  /\ WatchHealth

\* The loop is at the i-th cache of the record.
Turn(i) == \A j \in keeper.todo : i <= j

\* Mutant: the loop ends at the first failure.
KeeperPastIfOk(i, ok) ==
  keeper' = [keeper EXCEPT !.todo = IF ok THEN @ \ {i} ELSE {},
                           !.failed = @ \/ ~ok]

\* The loop goes on whatever became of one feed: what it threw is caught and
\* counted.
KeeperPast(i, ok) ==
  keeper' = [keeper EXCEPT !.todo = @ \ {i}, !.failed = @ \/ ~ok]

\* One turn of the loop whose transaction is mined, with success or reverted.
KeeperRefresh(i) ==
  /\ Turn(i)
  /\ cache' = IF Refreshes(Order[i]) THEN Snapshot(Order[i]) ELSE cache
  /\ KeeperPast(i, Refreshes(Order[i]))
  /\ UNCHANGED <<clock, account, window, halted>>
  /\ WatchHealth

\* One turn of the loop whose transaction never got to the chain (one that did,
\* with its receipt lost, is this after a Refresh).
KeeperLoses(i) ==
  /\ Turn(i)
  /\ KeeperPast(i, FALSE)
  /\ well' = [well EXCEPT ![Order[i]] = clock]
  /\ UNCHANGED <<clock, account, window, halted, cache>>

Next ==
  \/ Tick
  \/ \E a \in Accounts : Publish(a)
  \/ \E x \in Adapters : Create(x) \/ PauseAdapter(x) \/ UnpauseAdapter(x)
  \/ \E f \in Caches : Refresh(f)
  \/ KeeperStart
  \/ \E i \in keeper.todo : KeeperRefresh(i) \/ KeeperLoses(i)

Spec == Init /\ [][Next]_vars

(***************************************************************************)
(* Properties.                                                             *)
(***************************************************************************)
Quote == [time : Nat, quality : Quality]

\* The types of the variables; window and halted are 0 for "not".
TypeOK ==
  /\ clock \in 1 .. MaxClock
  /\ account \in [Accounts -> Quote]
  /\ window \in [Adapters -> Windows \cup {0}]
  /\ halted \in [Adapters -> 0 .. clock]
  /\ cache \in [Caches -> [time : Nat, quality : Quality, at : 0 .. clock]]
  /\ keeper \in [todo : SUBSET DOMAIN Order, start : 1 .. clock,
                  list : SUBSET Caches, failed : BOOLEAN]
  /\ well \in [Caches -> 1 .. clock]

\* The adapters whose pause flag should stop a cache from taking new prices.
Chain(f) == {f} \cup (IF f \in FeedCaches THEN {Underlying[f]} ELSE {})

\* What a cache serves, when its account is set back, too, is a positive and
\* confident price (for a cache of a feed one that is not zero at 8 decimals);
\* and while the cache or the adapter under it is paused, one published before
\* the pause, although the read looks at no flag.
ServedSoundly == \A f \in Caches : Serves(f) =>
  /\ Positive(cache[f].quality) /\ Confident(cache[f].quality)
  /\ f \in FeedCaches => cache[f].quality # "tiny"
  /\ \A x \in Chain(f) : halted[x] # 0 => cache[f].time <= halted[x]

\* A cache that could be refreshed at any moment since well[f] answers from
\* one period of the job on, whatever the other feeds of the list do, if its
\* window covers the age of the price when read and the longest time between
\* two refreshes of it.
Answering ==
  \A i \in DOMAIN Order :
    LET f == Order[i] IN
    window[f] >= Lag + Interval + RunTime /\ clock - well[f] > Interval + RunTime
      => Serves(f)

\* A run that counted no failure has refreshed every cache of its list.
CleanRun ==
  keeper.todo = {} /\ ~keeper.failed
    => \A f \in keeper.list : cache[f].at >= keeper.start

\* The keeper keeps healthy feeds answering, and its exit code tells the truth.
KeeperKeepsUp == Answering /\ CleanRun

(***************************************************************************)
(* The inductive invariant behind both.                                    *)
(***************************************************************************)

\* A stored price was sound when it was read, and is no newer than a pause that
\* is still on.
Sound(f) == cache[f].at # 0 =>
  /\ cache[f].time <= clock
  /\ Positive(cache[f].quality) /\ Confident(cache[f].quality)
  /\ f \in FeedCaches => cache[f].quality # "tiny"
  /\ \A x \in Chain(f) : halted[x] # 0 => cache[f].time <= halted[x]

CacheSound == \A f \in Caches : Sound(f)

HealthWatched == \A f \in Caches : ~Healthy(f) => well[f] = clock

\* The job is never late.
Punctual == clock <= keeper.start + (IF keeper.todo = {} THEN Interval ELSE RunTime)

\* A listed cache that the run has dealt with was read in this run, one it has
\* not come to in the run before, if it has been healthy since.
ReadSince(f, t) == cache[f].at # 0 /\ cache[f].time >= t - Lag

Rounds == \A i \in DOMAIN Order :
  /\ i \notin keeper.todo /\ keeper.start > well[Order[i]]
       => ReadSince(Order[i], keeper.start)
  /\ i \in keeper.todo /\ keeper.start - Interval > well[Order[i]]
       => ReadSince(Order[i], keeper.start - Interval)

Counted == ~keeper.failed => \A f \in keeper.list :
  cache[f].at >= keeper.start \/ \E i \in keeper.todo : Order[i] = f

CacheInv == TypeOK /\ CacheSound /\ HealthWatched /\ Punctual /\ Rounds /\ Counted
=============================================================================
