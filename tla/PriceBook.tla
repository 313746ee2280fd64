------------------------------ MODULE PriceBook ------------------------------
(***************************************************************************)
(* PriceBook (contracts/oracle/PriceBook.sol) and the read side of its     *)
(* feeds, BookFeedAdapter.                                                 *)
(*                                                                         *)
(* The book keeps the last accepted price of every registered Pyth account *)
(* and a status byte with it.  Anybody may refresh any set of feeds; the   *)
(* owner registers, pauses and unpauses.  What a call reads on Solana is   *)
(* an input of the call: the accounts may hold anything at any time.       *)
(*                                                                         *)
(* The adapter clone of a feed is named by the feed's source account.      *)
(***************************************************************************)
EXTENDS Integers, Sequences, FiniteSets

CONSTANTS Accounts,   \* source accounts
          FeedIds,    \* Pyth feed ids
          People,     \* addresses that send transactions
          Creator,    \* the deployer
          Reads,      \* what reading a source account may give
          Windows,    \* values of maxStaleness registrations ask for
          Bounds,     \* values of maxConfBps registrations ask for
          DefaultBound,          \* DEFAULT_MAX_CONF_BPS
          MaxWindow,             \* 24 hours
          Whole,                 \* 10_000 basis points
          Decimals,              \* 8: decimals of an answer
          IntMax,                \* type(int64).max
          ExpoMax,               \* type(int32).max
          TopPower,              \* 18: the largest power of ten in an int64
          MaxPower,              \* 76: the largest power of ten in an int256
          NoPrice,               \* normalization failed
          MaxTime                \* bound on the clock

ASSUME BookAssumption ==
  /\ Creator \in People /\ FeedIds # {}
  /\ \A w \in Windows : w \in Nat
  /\ \A b \in Bounds : b \in Nat
  /\ DefaultBound \in 1 .. Whole /\ MaxWindow \in Nat \ {0} /\ Whole \in Nat
  /\ MaxTime \in Nat
ASSUME ReadAssumption == \A r \in Reads :
  /\ r.owned \in BOOLEAN /\ r.found \in BOOLEAN /\ r.full \in BOOLEAN
  /\ r.id \in FeedIds /\ r.price \in Int /\ r.conf \in Nat /\ r.expo \in Int
  /\ r.pt \in Nat /\ r.peek \in Nat /\ (r.full => r.peek = r.pt)
ASSUME WidthAssumption ==
  /\ Decimals \in Nat /\ IntMax \in Nat \ {0} /\ ExpoMax \in Nat
  /\ TopPower \in Nat /\ MaxPower \in Nat /\ NoPrice \notin Int
  /\ \A k \in 0 .. MaxPower : 10 ^ k > 0
  /\ \A k \in TopPower + 1 .. MaxPower : 10 ^ k > IntMax

VARIABLES now,       \* block.timestamp
          owner,
          regs,      \* _regs; nobody's registration has maxStaleness = 0
          entries,   \* _entries
          accounts,  \* _accounts
          paused     \* _paused, by source account

vars == <<now, owner, regs, entries, accounts, paused>>

LIVE == 1
STATUS_PAUSED == 2

NoReg == [expectedFeedId |-> CHOOSE i \in FeedIds : TRUE, maxConfBps |-> 0,
          halfWindowSec |-> 0, maxStaleness |-> 0]
Registrations == [expectedFeedId : FeedIds, maxConfBps : Nat,
                  halfWindowSec : Nat, maxStaleness : Nat]
NoEntry == [price8 |-> 0, publishTime |-> 0, cachedAt |-> 0, status |-> 0]
Entries == [price8 : Int, publishTime : Nat, cachedAt : Nat,
            status : {0, LIVE, STATUS_PAUSED}]

TypeOK ==
  /\ now \in Nat
  /\ owner \in People
  /\ regs \in [Accounts -> Registrations]
  /\ entries \in [Accounts -> Entries]
  /\ accounts \in Seq(Accounts)
  /\ paused \in [Accounts -> BOOLEAN]

Registered(a) == regs[a].maxStaleness # 0

Init ==
  /\ now = 0
  /\ owner = Creator
  /\ regs = [a \in Accounts |-> NoReg]
  /\ entries = [a \in Accounts |-> NoEntry]
  /\ accounts = << >>
  /\ paused = [a \in Accounts |-> FALSE]

-----------------------------------------------------------------------------
(* _refreshOne: what becomes of one feed, given what its account reads     *)

\* The peek succeeds, and shows nothing newer than the entry.  It reads the
\* publish time at the offset of a Full record, whatever the record is.
PeekOld(a, r) == r.found /\ r.peek <= entries[a].publishTime

\* Mutant: the peek is trusted however old the entry is.
CheapSkipAlways(a, r) == entries[a].status # 0 /\ PeekOld(a, r)

CheapSkip(a, r) ==
  /\ entries[a].status # 0
  /\ now - entries[a].publishTime <= regs[a].halfWindowSec
  /\ PeekOld(a, r)

\* _fetchRaw: the account is there and long enough.
Fetched(r) == r.found

\* _parseFast: a price update account whose record is of the Full variant.
Parsed(r) == r.full

\* Fetched, parsed, of the registered feed and not from the future.
Verified(reg, r) == Fetched(r) /\ Parsed(r) /\ r.id = reg.expectedFeedId /\ r.pt <= now

Newer(e, r) == e.status = 0 \/ r.pt > e.publishTime

Tight(reg, r) == r.price > 0 /\ r.conf * Whole <= r.price * reg.maxConfBps

\* _normalize64 of a positive price.
Diff(expo) == expo + Decimals

\* Mutant: the guard of the scaling branch is off by one.
NormalizeShort(price, expo) ==
  LET d == Diff(expo)
      scaled == IF d >= 0 THEN price * 10 ^ d ELSE price \div 10 ^ (-d)
  IN  IF d > TopPower \/ d < -MaxPower THEN NoPrice
      ELSE IF d <= -TopPower THEN 0
      ELSE IF scaled > IntMax THEN NoPrice ELSE scaled

Normalize(price, expo) ==
  LET d == Diff(expo)
      scaled == IF d >= 0 THEN price * 10 ^ d ELSE price \div 10 ^ (-d)
  IN  IF d > TopPower \/ d < -MaxPower THEN NoPrice
      ELSE IF d < -TopPower THEN 0
      ELSE IF scaled > IntMax THEN NoPrice ELSE scaled

\* `expo + 8' is checked int32 arithmetic: past the maximum it panics, and
\* the whole transaction with it.
Panics(reg, e, r) ==
  /\ Verified(reg, r) /\ Newer(e, r) /\ Tight(reg, r)
  /\ Diff(r.expo) > ExpoMax

\* Mutant: a price that does not fit is written all the same.
AcceptedUnfit(reg, e, r) == Verified(reg, r) /\ Newer(e, r) /\ Tight(reg, r)

\* Mutant: an older price is as good as a newer one.
AcceptedRewind(reg, e, r) ==
  /\ Verified(reg, r) /\ Tight(reg, r)
  /\ Normalize(r.price, r.expo) # NoPrice

\* The full read ends in a commit.
Accepted(reg, e, r) ==
  /\ Verified(reg, r) /\ Newer(e, r) /\ Tight(reg, r)
  /\ Normalize(r.price, r.expo) # NoPrice

Skipped(a, r) ==
  /\ Registered(a)
  /\ \/ paused[a]
     \/ CheapSkip(a, r)
     \/ Verified(regs[a], r) /\ ~Newer(entries[a], r)

Committed(a, r) ==
  /\ Registered(a) /\ ~paused[a]
  /\ ~CheapSkip(a, r)
  /\ Accepted(regs[a], entries[a], r)

Faulted(a, r) == ~Skipped(a, r) /\ ~Committed(a, r)

NewEntry(r) == [price8 |-> Normalize(r.price, r.expo), publishTime |-> r.pt,
                cachedAt |-> now, status |-> LIVE]

-----------------------------------------------------------------------------
(* Transactions; one that reverts is no step                               *)

\* registerFeed, with the solo first refresh that must commit.
RegisterFeed(s, a, id, bound, w, r) ==
  LET reg == [expectedFeedId |-> id,
              maxConfBps |-> IF bound = 0 THEN DefaultBound ELSE bound,
              halfWindowSec |-> w \div 2, maxStaleness |-> w]
  IN  /\ s = owner
      /\ ~Registered(a)
      /\ w \in 1 .. MaxWindow /\ bound <= Whole
      /\ r.owned /\ ~paused[a]
      /\ Accepted(reg, entries[a], r) /\ ~Panics(reg, entries[a], r)
      /\ regs' = [regs EXCEPT ![a] = reg]
      /\ accounts' = Append(accounts, a)
      /\ entries' = [entries EXCEPT ![a] = NewEntry(r)]
      /\ UNCHANGED <<now, owner, paused>>

\* A feed on its way to a commit or a fault panics.
Panicked(a, r) ==
  /\ Registered(a) /\ ~paused[a] /\ ~CheapSkip(a, r)
  /\ Panics(regs[a], entries[a], r)

\* refreshAll reverts when every attempted feed faulted, or one panicked.
BatchReverts(S, read) ==
  \/ \E a \in S : Panicked(a, read[a])
  \/ S # {} /\ \A a \in S : Faulted(a, read[a])

\* refreshAll.  An account named twice is attempted twice, and the second
\* attempt repeats a skip or a fault and skips after a commit: a set of
\* accounts is all that matters.
RefreshAll(S, read) ==
  /\ ~BatchReverts(S, read)
  /\ entries' = [a \in Accounts |->
       IF a \in S /\ Committed(a, read[a]) THEN NewEntry(read[a]) ELSE entries[a]]
  /\ UNCHANGED <<now, owner, regs, accounts, paused>>

\* Mutant: the status byte is left as it is.
PauseFlagOnly(s, a) ==
  /\ s = owner /\ Registered(a)
  /\ paused' = [paused EXCEPT ![a] = TRUE]
  /\ UNCHANGED <<now, owner, regs, accounts, entries>>

PauseAdapter(s, a) ==
  /\ s = owner /\ Registered(a)
  /\ paused' = [paused EXCEPT ![a] = TRUE]
  /\ entries' = [entries EXCEPT ![a].status = STATUS_PAUSED]
  /\ UNCHANGED <<now, owner, regs, accounts>>

\* Mutant: the flag is cleared without the refresh having to commit.
UnpauseTrusting(s, a, r) ==
  /\ s = owner /\ Registered(a) /\ paused[a]
  /\ paused' = [paused EXCEPT ![a] = FALSE]
  /\ entries' = [entries EXCEPT ![a].status = LIVE]
  /\ UNCHANGED <<now, owner, regs, accounts>>

\* unpauseAdapter of a paused adapter; of any other it changes nothing.
UnpauseAdapter(s, a, r) ==
  /\ s = owner /\ Registered(a) /\ paused[a]
  /\ ~CheapSkip(a, r) /\ Accepted(regs[a], entries[a], r)
  /\ ~Panics(regs[a], entries[a], r)
  /\ now - r.pt <= regs[a].maxStaleness
  /\ paused' = [paused EXCEPT ![a] = FALSE]
  /\ entries' = [entries EXCEPT ![a] = NewEntry(r)]
  /\ UNCHANGED <<now, owner, regs, accounts>>

TransferOwnership(s, p) ==
  /\ s = owner
  /\ owner' = p
  /\ UNCHANGED <<now, regs, entries, accounts, paused>>

\* Blocks go by (external).
Tick ==
  /\ now < MaxTime
  /\ now' = now + 1
  /\ UNCHANGED <<owner, regs, entries, accounts, paused>>

Next ==
  \/ \E s \in People, a \in Accounts, id \in FeedIds, b \in Bounds, w \in Windows, r \in Reads :
       RegisterFeed(s, a, id, b, w, r)
  \/ \E S \in SUBSET Accounts : \E read \in [S -> Reads] : RefreshAll(S, read)
  \/ \E s \in People, a \in Accounts : PauseAdapter(s, a)
  \/ \E s \in People, a \in Accounts, r \in Reads : UnpauseAdapter(s, a, r)
  \/ \E s, p \in People : TransferOwnership(s, p)
  \/ Tick

Spec == Init /\ [][Next]_vars

-----------------------------------------------------------------------------
(* The read side: latestRoundData of the feed's adapter answers            *)

Serves(a) ==
  LET e == entries[a]
  IN  /\ e.status = LIVE
      /\ e.publishTime <= now /\ now - e.publishTime <= regs[a].maxStaleness

-----------------------------------------------------------------------------
(* Properties                                                              *)

\* The flag the book tests when it writes and the status byte the adapter
\* tests when it reads say the same; a feed has an entry from the moment it
\* is registered; no entry is from the future; the roster names every
\* registered feed once.
EntryAgrees(a) ==
  /\ paused[a] <=> entries[a].status = STATUS_PAUSED
  /\ Registered(a) <=> entries[a].status # 0
  /\ entries[a].publishTime <= entries[a].cachedAt /\ entries[a].cachedAt <= now
RosterSound ==
  /\ \A a \in Accounts : Registered(a) <=> \E i \in 1 .. Len(accounts) : accounts[i] = a
  /\ \A i, j \in 1 .. Len(accounts) : accounts[i] = accounts[j] => i = j
BookSound == (\A a \in Accounts : EntryAgrees(a)) /\ RosterSound

\* An answer that went away, because the owner paused the feed or because it
\* grew stale, never comes back: the feed answers again only with a price
\* that is newer.
NeverResurrected ==
  [][ \A a \in Accounts : Registered(a) /\ ~Serves(a) /\ Serves(a)'
        => entries'[a].publishTime > entries[a].publishTime ]_vars

\* The peek never hides a newer valid price, and past half its window a feed
\* whose account went bad is reported as a fault, not as a healthy skip.
NotStarved == \A a \in Accounts, r \in Reads : Registered(a) /\ ~paused[a] =>
  /\ Accepted(regs[a], entries[a], r) => Committed(a, r)
  /\ now - entries[a].publishTime > regs[a].halfWindowSec /\ ~Verified(regs[a], r)
       => Faulted(a, r)

\* The guards that spare the powers of ten change no result: a good read
\* newer than the entry is committed as its price with 8 decimals, rounded
\* down, whenever that fits, and refused whenever it does not.
NormalizeExact == \A a \in Accounts :
  Registered(a) /\ ~paused[a] /\ now > entries[a].publishTime =>
    \A price \in 1 .. IntMax, expo \in -(ExpoMax + 1) .. ExpoMax :
      LET r == [owned |-> TRUE, found |-> TRUE, full |-> TRUE, price |-> price, conf |-> 0,
                expo |-> expo, id |-> regs[a].expectedFeedId, pt |-> now, peek |-> now]
          d == Diff(expo)
          p8 == NewEntry(r).price8
      IN  IF d >= 0 THEN IF d <= TopPower /\ price * 10 ^ d <= IntMax
                         THEN Committed(a, r) /\ p8 = price * 10 ^ d
                         ELSE Faulted(a, r)
          ELSE -d <= MaxPower =>
                 Committed(a, r) /\ p8 * 10 ^ (-d) <= price /\ price < (p8 + 1) * 10 ^ (-d)

\* One bad feed never reverts a batch in which another one is healthy.
BadFeedIsolated == \A a, b \in Accounts : \A ra, rb \in Reads :
  a # b /\ ~Faulted(a, ra) => ~BatchReverts({a, b}, [x \in {a, b} |-> IF x = a THEN ra ELSE rb])

\* The book is what consumers rely on.
ModeOf(status) == CASE status = 0 -> "none"
                    [] status = LIVE -> "live"
                    [] status = STATUS_PAUSED -> "halted"
Mode == [a \in Accounts |-> ModeOf(entries[a].status)]
Time == [a \in Accounts |-> entries[a].publishTime]
Window == [a \in Accounts |-> regs[a].maxStaleness]
Feeds == INSTANCE PriceFeeds WITH
  Feeds <- Accounts, None <- "none", Live <- "live", Halted <- "halted",
  clock <- now, mode <- Mode, time <- Time, window <- Window
ImplementsFeeds == Feeds!Spec
=============================================================================
