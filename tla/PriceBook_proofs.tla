--------------------------- MODULE PriceBook_proofs ---------------------------
(***************************************************************************)
(* For any feeds, clock and contents of the source accounts: the book's    *)
(* flags, entries and list agree, a price is normalized exactly or not at  *)
(* all, and the book implements PriceFeeds.                                *)
(***************************************************************************)
EXTENDS PriceBook, SequenceTheorems, TLAPS

BookInv == TypeOK /\ BookSound

\* A normalized price is an integer.
LEMMA NormalizeType ==
  ASSUME NEW price \in Int, NEW expo \in Int
  PROVE  Normalize(price, expo) \in Int \cup {NoPrice}
<1> DEFINE d == Diff(expo)
<1>1. d \in Int
  BY WidthAssumption DEF Diff
<1>2. CASE d > TopPower \/ d < -MaxPower \/ d < -TopPower
  BY <1>1, <1>2, WidthAssumption DEF Normalize
<1>3. CASE d \in 0 .. TopPower
  <2>1. 10 ^ d \in Int
    BY <1>1, <1>3
  <2>2. price * 10 ^ d \in Int
    BY <2>1
  <2> QED BY <1>1, <1>3, <2>2, WidthAssumption DEF Normalize
<1>4. CASE d \in -MaxPower .. -1 /\ d >= -TopPower
  <2>1. 10 ^ (-d) \in Int /\ 10 ^ (-d) > 0
    BY <1>1, <1>4, WidthAssumption
  <2>2. price \div 10 ^ (-d) \in Int
    BY <2>1
  <2> QED BY <1>1, <1>4, <2>2, WidthAssumption DEF Normalize
<1> QED BY <1>1, <1>2, <1>3, <1>4, WidthAssumption

\* What an accepted read writes is a live entry of the present.
LEMMA NewEntryFacts ==
  ASSUME TypeOK, NEW reg, NEW e, NEW r \in Reads, Accepted(reg, e, r)
  PROVE  /\ NewEntry(r) \in Entries
         /\ NewEntry(r).status = LIVE /\ NewEntry(r).cachedAt = now
         /\ NewEntry(r).publishTime = r.pt /\ r.pt <= now /\ r.pt \in Nat
<1>1. /\ r.price \in Int /\ r.expo \in Int /\ r.pt \in Nat /\ now \in Nat
  BY ReadAssumption DEF TypeOK
<1>2. Normalize(r.price, r.expo) \in Int /\ r.pt <= now
  BY <1>1, NormalizeType DEF Accepted, Verified
<1> QED BY <1>1, <1>2 DEF NewEntry, Entries, LIVE

\* A step on the entries alone that keeps each one or replaces it by a newly
\* accepted one of a live feed.
EntryStep == 
  /\ UNCHANGED <<now, owner, regs, accounts, paused>>
  /\ entries' \in [Accounts -> Entries]
  /\ \A a \in Accounts : entries'[a] # entries[a] =>
       /\ ~paused[a] /\ Registered(a)
       /\ entries'[a].status = LIVE /\ entries'[a].cachedAt = now
       /\ entries'[a].publishTime <= now
       /\ entries'[a].publishTime > entries[a].publishTime

LEMMA EntryStepKeeps ==
  ASSUME BookInv, EntryStep
  PROVE  BookInv'
<1>1. TypeOK'
  BY DEF BookInv, TypeOK, EntryStep
<1>2. RosterSound'
  BY DEF BookInv, BookSound, RosterSound, Registered, EntryStep
<1>3. ASSUME NEW a \in Accounts PROVE EntryAgrees(a)'
  <2>1. EntryAgrees(a) /\ now \in Nat
    BY DEF BookInv, BookSound, TypeOK
  <2>2. CASE entries'[a] = entries[a]
    BY <2>1, <2>2 DEF EntryAgrees, Registered, EntryStep
  <2>3. CASE entries'[a] # entries[a]
    BY <2>1, <2>3 DEF EntryAgrees, Registered, EntryStep, LIVE, STATUS_PAUSED
  <2> QED BY <2>2, <2>3
<1> QED BY <1>1, <1>2, <1>3 DEF BookInv, BookSound

LEMMA RefreshStep ==
  ASSUME BookInv, NEW S \in SUBSET Accounts, NEW read \in [S -> Reads], RefreshAll(S, read)
  PROVE  EntryStep
<1>1. /\ entries' = [a \in Accounts |-> IF a \in S /\ Committed(a, read[a])
                                        THEN NewEntry(read[a]) ELSE entries[a]]
      /\ UNCHANGED <<now, owner, regs, accounts, paused>>
  BY DEF RefreshAll
<1>2. ASSUME NEW a \in Accounts
      PROVE  /\ entries'[a] \in Entries
             /\ entries'[a] # entries[a] =>
                  /\ ~paused[a] /\ Registered(a)
                  /\ entries'[a].status = LIVE /\ entries'[a].cachedAt = now
                  /\ entries'[a].publishTime <= now
                  /\ entries'[a].publishTime > entries[a].publishTime
  <2>1. entries[a] \in Entries /\ TypeOK
    BY DEF BookInv, TypeOK
  <2>2. CASE a \in S /\ Committed(a, read[a])
    <3>1. /\ ~paused[a] /\ Registered(a) /\ read[a] \in Reads
          /\ Accepted(regs[a], entries[a], read[a])
      BY <2>2 DEF Committed
    <3>2. /\ NewEntry(read[a]) \in Entries
          /\ NewEntry(read[a]).status = LIVE /\ NewEntry(read[a]).cachedAt = now
          /\ NewEntry(read[a]).publishTime = read[a].pt /\ read[a].pt <= now
      BY <2>1, <3>1, NewEntryFacts
    <3>3. entries[a].status # 0
      BY <3>1 DEF BookInv, BookSound, EntryAgrees
    <3>4. read[a].pt > entries[a].publishTime
      BY <3>1, <3>3 DEF Accepted, Newer
    <3> QED BY <1>1, <2>2, <3>1, <3>2, <3>4
  <2>3. CASE ~(a \in S /\ Committed(a, read[a]))
    BY <1>1, <2>1, <2>3
  <2> QED BY <2>2, <2>3
<1> QED BY <1>1, <1>2 DEF EntryStep

LEMMA InitInv == Init => BookInv
<1> SUFFICES ASSUME Init PROVE BookInv
  OBVIOUS
<1>1. NoReg \in Registrations /\ NoReg.maxStaleness = 0
  BY BookAssumption DEF NoReg, Registrations
<1>2. NoEntry \in Entries
  BY DEF NoEntry, Entries
<1>3. regs \in [Accounts -> Registrations] /\ entries \in [Accounts -> Entries]
  BY <1>1, <1>2 DEF Init
<1>4. now \in Nat /\ owner \in People /\ accounts \in Seq(Accounts)
  BY BookAssumption DEF Init
<1>5. paused \in [Accounts -> BOOLEAN]
  BY DEF Init
<1>6. TypeOK
  BY <1>3, <1>4, <1>5 DEF TypeOK
<1>7. ASSUME NEW a \in Accounts PROVE EntryAgrees(a) /\ ~Registered(a)
  <2>1. ~paused[a] /\ ~Registered(a)
    BY <1>1 DEF Init, Registered
  <2>2. /\ entries[a].status = 0 /\ entries[a].publishTime = 0 /\ entries[a].cachedAt = 0
        /\ now = 0
    BY DEF Init, NoEntry
  <2> QED BY <2>1, <2>2 DEF EntryAgrees, STATUS_PAUSED
<1>8. RosterSound
  BY <1>7 DEF Init, RosterSound
<1> QED BY <1>6, <1>7, <1>8 DEF BookInv, BookSound

LEMMA RegisterKeeps ==
  ASSUME BookInv, NEW s \in People, NEW a \in Accounts, NEW id \in FeedIds,
         NEW bound \in Bounds, NEW w \in Windows, NEW r \in Reads,
         RegisterFeed(s, a, id, bound, w, r)
  PROVE  /\ BookInv'
         /\ entries'[a].status = LIVE /\ entries'[a].publishTime \in 0 .. now
<1> DEFINE reg == [expectedFeedId |-> id,
                   maxConfBps |-> IF bound = 0 THEN DefaultBound ELSE bound,
                   halfWindowSec |-> w \div 2, maxStaleness |-> w]
<1>1. /\ ~Registered(a) /\ w \in 1 .. MaxWindow /\ ~paused[a]
      /\ Accepted(reg, entries[a], r)
      /\ regs' = [regs EXCEPT ![a] = reg]
      /\ accounts' = Append(accounts, a)
      /\ entries' = [entries EXCEPT ![a] = NewEntry(r)]
      /\ UNCHANGED <<now, owner, paused>>
  BY DEF RegisterFeed
<1>2. reg \in Registrations /\ reg.maxStaleness # 0
  <2>1. w \in Nat /\ w \div 2 \in Nat /\ bound \in Nat /\ DefaultBound \in Nat
    BY BookAssumption
  <2> QED BY <1>1, <2>1, BookAssumption DEF Registrations
<1>3. /\ NewEntry(r) \in Entries
      /\ NewEntry(r).status = LIVE /\ NewEntry(r).cachedAt = now
      /\ NewEntry(r).publishTime = r.pt /\ r.pt <= now /\ r.pt \in Nat
  <2> HIDE DEF reg
  <2> QED BY <1>1, NewEntryFacts DEF BookInv
<1> HIDE DEF reg
<1>4. /\ regs \in [Accounts -> Registrations] /\ entries \in [Accounts -> Entries]
      /\ accounts \in Seq(Accounts) /\ now \in Nat /\ TypeOK
  BY DEF BookInv, TypeOK
<1>5. /\ regs' \in [Accounts -> Registrations] /\ entries' \in [Accounts -> Entries]
      /\ \A b \in Accounts : /\ regs'[b] = IF b = a THEN reg ELSE regs[b]
                             /\ entries'[b] = IF b = a THEN NewEntry(r) ELSE entries[b]
  BY <1>1, <1>2, <1>3, <1>4
<1>6. /\ accounts' \in Seq(Accounts) /\ Len(accounts') = Len(accounts) + 1
      /\ Len(accounts) \in Nat
      /\ \A i \in 1 .. Len(accounts) : accounts'[i] = accounts[i]
      /\ accounts'[Len(accounts) + 1] = a
  BY <1>1, <1>4, AppendProperties, LenProperties
<1>7. TypeOK'
  BY <1>1, <1>4, <1>5, <1>6 DEF TypeOK
<1>8. ASSUME NEW b \in Accounts PROVE EntryAgrees(b)'
  <2>1. EntryAgrees(b)
    BY DEF BookInv, BookSound
  <2>2. CASE b = a
    BY <2>2, <1>1, <1>2, <1>3, <1>4, <1>5
    DEF EntryAgrees, Registered, LIVE, STATUS_PAUSED
  <2>3. CASE b # a
    BY <2>1, <2>3, <1>1, <1>5 DEF EntryAgrees, Registered
  <2> QED BY <2>2, <2>3
<1>9. RosterSound'
  <2>1. /\ \A b \in Accounts : Registered(b) <=> \E i \in 1 .. Len(accounts) : accounts[i] = b
        /\ \A i, j \in 1 .. Len(accounts) : accounts[i] = accounts[j] => i = j
    BY DEF BookInv, BookSound, RosterSound
  <2>2. \A i \in 1 .. Len(accounts) : accounts[i] # a
    BY <1>1, <2>1
  <2>3. \A b \in Accounts : Registered(b)' <=> Registered(b) \/ b = a
    BY <1>1, <1>2, <1>5 DEF Registered
  <2>4. \A b \in Accounts : Registered(b)' <=> \E i \in 1 .. Len(accounts') : accounts'[i] = b
    BY <2>1, <2>3, <1>6
  <2>5. \A i, j \in 1 .. Len(accounts') : accounts'[i] = accounts'[j] => i = j
    BY <2>1, <2>2, <1>6
  <2> QED BY <2>4, <2>5 DEF RosterSound
<1> QED BY <1>3, <1>4, <1>5, <1>7, <1>8, <1>9 DEF BookInv, BookSound

LEMMA PauseKeeps ==
  ASSUME BookInv, NEW s \in People, NEW a \in Accounts, PauseAdapter(s, a)
  PROVE  /\ BookInv'
         /\ entries'[a].publishTime = entries[a].publishTime
         /\ entries'[a].status = STATUS_PAUSED
<1>1. /\ Registered(a)
      /\ paused' = [paused EXCEPT ![a] = TRUE]
      /\ entries' = [entries EXCEPT ![a].status = STATUS_PAUSED]
      /\ UNCHANGED <<now, owner, regs, accounts>>
  BY DEF PauseAdapter
<1>2. /\ entries \in [Accounts -> Entries] /\ paused \in [Accounts -> BOOLEAN]
  BY DEF BookInv, TypeOK
<1>3. /\ \A b \in Accounts \ {a} : entries'[b] = entries[b]
      /\ entries'[a] = [entries[a] EXCEPT !.status = STATUS_PAUSED]
      /\ entries' \in [Accounts -> Entries]
  BY <1>1, <1>2 DEF Entries, STATUS_PAUSED
<1>4. /\ entries'[a].status = STATUS_PAUSED
      /\ entries'[a].publishTime = entries[a].publishTime
      /\ entries'[a].cachedAt = entries[a].cachedAt
  BY <1>2, <1>3 DEF Entries
<1>5. paused' \in [Accounts -> BOOLEAN] /\ paused'[a]
      /\ \A b \in Accounts \ {a} : paused'[b] = paused[b]
  BY <1>1, <1>2
<1>6. TypeOK'
  BY <1>1, <1>3, <1>5 DEF BookInv, TypeOK
<1>7. ASSUME NEW b \in Accounts PROVE EntryAgrees(b)'
  <2>1. EntryAgrees(b)
    BY DEF BookInv, BookSound
  <2>2. CASE b = a
    BY <2>1, <2>2, <1>1, <1>4, <1>5 DEF EntryAgrees, Registered, STATUS_PAUSED
  <2>3. CASE b # a
    BY <2>1, <2>3, <1>1, <1>3, <1>5 DEF EntryAgrees, Registered
  <2> QED BY <2>2, <2>3
<1>8. RosterSound'
  BY <1>1 DEF BookInv, BookSound, RosterSound, Registered
<1> QED BY <1>4, <1>6, <1>7, <1>8 DEF BookInv, BookSound

LEMMA UnpauseKeeps ==
  ASSUME BookInv, NEW s \in People, NEW a \in Accounts, NEW r \in Reads,
         UnpauseAdapter(s, a, r)
  PROVE  /\ BookInv'
         /\ entries'[a] = NewEntry(r) /\ NewEntry(r).status = LIVE
         /\ NewEntry(r).publishTime = r.pt /\ r.pt \in 0 .. now
         /\ r.pt > entries[a].publishTime
         /\ entries[a].status = STATUS_PAUSED
<1>1. /\ Registered(a) /\ paused[a] /\ Accepted(regs[a], entries[a], r)
      /\ paused' = [paused EXCEPT ![a] = FALSE]
      /\ entries' = [entries EXCEPT ![a] = NewEntry(r)]
      /\ UNCHANGED <<now, owner, regs, accounts>>
  BY DEF UnpauseAdapter
<1>2. /\ entries \in [Accounts -> Entries] /\ paused \in [Accounts -> BOOLEAN]
      /\ now \in Nat /\ TypeOK
  BY DEF BookInv, TypeOK
<1>3. /\ NewEntry(r) \in Entries
      /\ NewEntry(r).status = LIVE /\ NewEntry(r).cachedAt = now
      /\ NewEntry(r).publishTime = r.pt /\ r.pt <= now /\ r.pt \in Nat
  BY <1>1, <1>2, NewEntryFacts
<1>4. entries[a].status = STATUS_PAUSED /\ entries[a].status # 0
  BY <1>1 DEF BookInv, BookSound, EntryAgrees
<1>5. r.pt > entries[a].publishTime
  BY <1>1, <1>4 DEF Accepted, Newer
<1>6. /\ \A b \in Accounts \ {a} : entries'[b] = entries[b] /\ paused'[b] = paused[b]
      /\ entries'[a] = NewEntry(r) /\ ~paused'[a]
      /\ entries' \in [Accounts -> Entries] /\ paused' \in [Accounts -> BOOLEAN]
  BY <1>1, <1>2, <1>3
<1>7. TypeOK'
  BY <1>1, <1>6 DEF BookInv, TypeOK
<1>8. ASSUME NEW b \in Accounts PROVE EntryAgrees(b)'
  <2>1. EntryAgrees(b)
    BY DEF BookInv, BookSound
  <2>2. CASE b = a
    BY <2>2, <1>1, <1>2, <1>3, <1>6 DEF EntryAgrees, Registered, LIVE, STATUS_PAUSED
  <2>3. CASE b # a
    BY <2>1, <2>3, <1>1, <1>6 DEF EntryAgrees, Registered
  <2> QED BY <2>2, <2>3
<1>9. RosterSound'
  BY <1>1 DEF BookInv, BookSound, RosterSound, Registered
<1> QED BY <1>2, <1>3, <1>4, <1>5, <1>6, <1>7, <1>8, <1>9 DEF BookInv, BookSound

LEMMA NextInv == BookInv /\ [Next]_vars => BookInv'
<1> SUFFICES ASSUME BookInv, [Next]_vars PROVE BookInv'
  OBVIOUS
<1>1. ASSUME NEW s \in People, NEW a \in Accounts, NEW id \in FeedIds, NEW b \in Bounds,
             NEW w \in Windows, NEW r \in Reads, RegisterFeed(s, a, id, b, w, r)
      PROVE  BookInv'
  BY <1>1, RegisterKeeps
<1>2. ASSUME NEW S \in SUBSET Accounts, NEW read \in [S -> Reads], RefreshAll(S, read)
      PROVE  BookInv'
  BY <1>2, RefreshStep, EntryStepKeeps
<1>3. ASSUME NEW s \in People, NEW a \in Accounts, PauseAdapter(s, a)
      PROVE  BookInv'
  BY <1>3, PauseKeeps
<1>4. ASSUME NEW s \in People, NEW a \in Accounts, NEW r \in Reads, UnpauseAdapter(s, a, r)
      PROVE  BookInv'
  BY <1>4, UnpauseKeeps
<1>5. ASSUME NEW s \in People, NEW p \in People, TransferOwnership(s, p)
      PROVE  BookInv'
  BY <1>5 DEF TransferOwnership, BookInv, TypeOK, BookSound, EntryAgrees, RosterSound,
              Registered
<1>6. CASE Tick
  BY <1>6 DEF Tick, BookInv, TypeOK, BookSound, EntryAgrees, RosterSound, Registered, Entries
<1>7. CASE UNCHANGED vars
  BY <1>7 DEF vars, BookInv, TypeOK, BookSound, EntryAgrees, RosterSound, Registered
<1> QED BY <1>1, <1>2, <1>3, <1>4, <1>5, <1>6, <1>7 DEF Next

\* The types and the agreement of flags, entries and roster.
THEOREM BookInvariant == Spec => []BookInv
<1>1. Init => BookInv
  BY InitInv
<1>2. BookInv /\ [Next]_vars => BookInv'
  BY NextInv
<1> QED BY <1>1, <1>2, PTL DEF Spec

\* A paused feed never answers and a live one has a price that is not from
\* the future, whatever the source accounts hold.
THEOREM BookAlwaysSound == Spec => []BookSound
<1>1. BookInv => BookSound
  BY DEF BookInv
<1> QED BY <1>1, BookInvariant, PTL

\* The variables keep their types.
THEOREM BookTypes == Spec => []TypeOK
<1>1. BookInv => TypeOK
  BY DEF BookInv
<1> QED BY <1>1, BookInvariant, PTL

\* The peek hides no newer valid price, and no bad account for longer than half
\* a window.
THEOREM NeverStarved == Spec => []NotStarved
<1>1. BookInv => NotStarved
  <2> SUFFICES ASSUME BookInv, NEW a \in Accounts, NEW r \in Reads, Registered(a), ~paused[a]
               PROVE  /\ Accepted(regs[a], entries[a], r) => Committed(a, r)
                      /\ now - entries[a].publishTime > regs[a].halfWindowSec /\ ~Verified(regs[a], r)
                           => Faulted(a, r)
    BY DEF NotStarved
  <2>1. /\ now \in Nat /\ entries[a].publishTime \in Nat /\ regs[a].halfWindowSec \in Nat
        /\ r.pt \in Nat /\ r.peek \in Nat /\ (r.full => r.peek = r.pt)
    BY ReadAssumption DEF BookInv, TypeOK, Entries, Registrations
  <2>2. ASSUME Accepted(regs[a], entries[a], r) PROVE Committed(a, r)
    <3>1. r.full /\ (entries[a].status = 0 \/ r.pt > entries[a].publishTime)
      BY <2>2 DEF Accepted, Verified, Parsed, Newer
    <3>2. ~CheapSkip(a, r)
      BY <2>1, <3>1 DEF CheapSkip, PeekOld
    <3> QED BY <2>2, <3>2 DEF Committed
  <2>3. ASSUME now - entries[a].publishTime > regs[a].halfWindowSec, ~Verified(regs[a], r)
        PROVE  Faulted(a, r)
    <3>1. ~CheapSkip(a, r)
      BY <2>1, <2>3 DEF CheapSkip
    <3> QED BY <2>3, <3>1 DEF Faulted, Skipped, Committed, Accepted
  <2> QED BY <2>2, <2>3
<1> QED BY <1>1, BookInvariant, PTL

-----------------------------------------------------------------------------
(* Normalization                                                           *)

\* Division rounds down.
LEMMA RoundedDown ==
  ASSUME NEW p \in Nat, NEW n \in Nat, n > 0
  PROVE  /\ p \div n \in Nat /\ p \div n <= p
         /\ (p \div n) * n <= p /\ p < ((p \div n) + 1) * n
<1>1. p \div n \in Nat /\ p % n \in 0 .. n - 1 /\ p = n * (p \div n) + (p % n)
  OBVIOUS
<1> DEFINE q == p \div n
           m == p % n
<1>2. q \in Nat /\ m \in 0 .. n - 1 /\ p = n * q + m
  BY <1>1
<1> HIDE DEF q, m
<1>3. q * n <= p /\ p < (q + 1) * n /\ q <= n * q
  BY <1>2
<1> QED BY <1>2, <1>3 DEF q

\* Scaling up gives the exact product or, when that does not fit, no price.
LEMMA ScaledUp ==
  ASSUME NEW price \in 1 .. IntMax, NEW expo \in Int, Diff(expo) >= 0
  PROVE  Normalize(price, expo) =
           IF Diff(expo) <= TopPower /\ price * 10 ^ Diff(expo) <= IntMax
           THEN price * 10 ^ Diff(expo) ELSE NoPrice
<1>1. Diff(expo) \in Nat
  BY WidthAssumption DEF Diff
<1>2. 10 ^ Diff(expo) \in Int
  BY <1>1
<1>3. price * 10 ^ Diff(expo) \in Int
  BY <1>2, WidthAssumption
<1> QED BY <1>1, <1>3, WidthAssumption DEF Normalize

\* Scaling down gives the quotient, also where the code does not divide.
LEMMA ScaledDown ==
  ASSUME NEW price \in 1 .. IntMax, NEW expo \in Int,
         Diff(expo) < 0, -Diff(expo) <= MaxPower
  PROVE  LET n == 10 ^ (-Diff(expo))
             q == Normalize(price, expo)
         IN  /\ n \in Nat /\ q \in Nat
             /\ q * n <= price /\ price < (q + 1) * n
<1> DEFINE k == -Diff(expo)
           n == 10 ^ k
<1>1. k \in 1 .. MaxPower /\ k \in Nat /\ Diff(expo) = -k /\ Diff(expo) \in Int
  BY WidthAssumption DEF Diff
<1>2. n \in Nat /\ n > 0 /\ price \in Nat /\ price <= IntMax
  <2>1. n \in Int
    BY <1>1
  <2> QED BY <1>1, <2>1, WidthAssumption
<1>3. CASE k > TopPower
  <2>1. n > IntMax
    BY <1>1, <1>3, WidthAssumption
  <2>2. Normalize(price, expo) = 0
    BY <1>1, <1>3, WidthAssumption DEF Normalize
  <2> HIDE DEF n
  <2>3. 0 * n <= price /\ price < (0 + 1) * n
    BY <1>2, <2>1, WidthAssumption
  <2> QED BY <1>2, <2>2, <2>3 DEF n
<1>4. CASE k <= TopPower
  <2>1. /\ price \div n \in Nat /\ price \div n <= price
        /\ (price \div n) * n <= price /\ price < ((price \div n) + 1) * n
    BY <1>2, RoundedDown
  <2>2. ~(price \div n > IntMax)
    BY <1>2, <2>1, WidthAssumption
  <2>3. Normalize(price, expo) = price \div n
    BY <1>1, <1>4, <2>2, WidthAssumption DEF Normalize
  <2> QED BY <1>2, <2>1, <2>3
<1> QED BY <1>1, <1>3, <1>4, WidthAssumption

\* A good read, newer than the entry, hangs on its normalization only.
LEMMA GoodRead ==
  ASSUME BookInv, NEW a \in Accounts, Registered(a), ~paused[a],
         now > entries[a].publishTime,
         NEW price \in 1 .. IntMax, NEW expo \in Int, NEW r,
         r = [owned |-> TRUE, found |-> TRUE, full |-> TRUE, price |-> price, conf |-> 0,
              expo |-> expo, id |-> regs[a].expectedFeedId, pt |-> now, peek |-> now]
  PROVE  /\ Normalize(price, expo) # NoPrice => Committed(a, r)
         /\ Normalize(price, expo) = NoPrice => Faulted(a, r)
         /\ NewEntry(r).price8 = Normalize(price, expo)
<1>1. /\ now \in Nat /\ entries[a].publishTime \in Nat /\ regs[a].maxConfBps \in Nat
      /\ price \in Nat /\ price > 0 /\ Whole \in Nat
  BY WidthAssumption, BookAssumption DEF BookInv, TypeOK, Entries, Registrations
<1>2. ~CheapSkip(a, r)
  BY <1>1 DEF CheapSkip, PeekOld
<1>3. Verified(regs[a], r) /\ Newer(entries[a], r)
  BY <1>1 DEF Verified, Fetched, Parsed, Newer
<1>4. Tight(regs[a], r)
  <2>1. price * regs[a].maxConfBps \in Nat /\ 0 * Whole = 0
    BY <1>1
  <2> QED BY <1>1, <2>1 DEF Tight
<1>5. NewEntry(r).price8 = Normalize(price, expo)
  BY DEF NewEntry
<1> QED BY <1>2, <1>3, <1>4, <1>5 DEF Committed, Faulted, Skipped, Accepted

\* Whatever the price and the exponent of a good newer read: the shortcuts of
\* _normalize64 that spare the powers of ten never change what is committed,
\* nor what is refused.
THEOREM AlwaysExact == Spec => []NormalizeExact
<1>1. BookInv => NormalizeExact
  <2> SUFFICES ASSUME BookInv, NEW a \in Accounts, Registered(a), ~paused[a],
                      now > entries[a].publishTime,
                      NEW price \in 1 .. IntMax, NEW expo \in -(ExpoMax + 1) .. ExpoMax
               PROVE  LET r == [owned |-> TRUE, found |-> TRUE, full |-> TRUE,
                                price |-> price, conf |-> 0, expo |-> expo,
                                id |-> regs[a].expectedFeedId, pt |-> now, peek |-> now]
                          d == Diff(expo)
                          p8 == NewEntry(r).price8
                      IN  IF d >= 0 THEN IF d <= TopPower /\ price * 10 ^ d <= IntMax
                                         THEN Committed(a, r) /\ p8 = price * 10 ^ d
                                         ELSE Faulted(a, r)
                          ELSE -d <= MaxPower =>
                                 /\ Committed(a, r)
                                 /\ p8 * 10 ^ (-d) <= price
                                 /\ price < (p8 + 1) * 10 ^ (-d)
    BY DEF NormalizeExact
  <2> DEFINE r == [owned |-> TRUE, found |-> TRUE, full |-> TRUE,
                   price |-> price, conf |-> 0, expo |-> expo,
                   id |-> regs[a].expectedFeedId, pt |-> now, peek |-> now]
             d == Diff(expo)
             q == Normalize(price, expo)
  <2>1. expo \in Int /\ price \in Int /\ d \in Int
    BY WidthAssumption DEF Diff
  <2>2. /\ q # NoPrice => Committed(a, r)
        /\ q = NoPrice => Faulted(a, r)
        /\ NewEntry(r).price8 = q
    BY <2>1, GoodRead
  <2> HIDE DEF r
  <2>3. CASE d >= 0
    <3>1. q = IF d <= TopPower /\ price * 10 ^ d <= IntMax THEN price * 10 ^ d ELSE NoPrice
      BY <2>1, <2>3, ScaledUp
    <3>2. price * 10 ^ d \in Int
      <4>1. 10 ^ d \in Int
        BY <2>1, <2>3
      <4> QED BY <2>1, <4>1
    <3>3. price * 10 ^ d # NoPrice
      BY <3>2, WidthAssumption
    <3> QED BY <2>2, <2>3, <3>1, <3>3 DEF r
  <2>4. CASE d < 0
    <3>1. -d <= MaxPower => q \in Nat /\ q * 10 ^ (-d) <= price /\ price < (q + 1) * 10 ^ (-d)
      BY <2>1, <2>4, ScaledDown
    <3>2. -d <= MaxPower => q # NoPrice
      BY <3>1, WidthAssumption
    <3> QED BY <2>1, <2>2, <2>4, <3>1, <3>2 DEF r
  <2> QED BY <2>1, <2>3, <2>4
<1> QED BY <1>1, BookInvariant, PTL

-----------------------------------------------------------------------------
(* Answers that went away                                                  *)

\* What a step does to one registered feed: it leaves it alone while time may
\* pass, halts it, or gives it a newer price.
LEMMA OneFeed ==
  ASSUME BookInv, Next, NEW a \in Accounts, Registered(a)
  PROVE  \/ entries'[a] = entries[a] /\ regs'[a] = regs[a] /\ now' >= now
         \/ entries'[a].status = STATUS_PAUSED
         \/ entries'[a].publishTime > entries[a].publishTime
<1>0. /\ now \in Nat /\ entries \in [Accounts -> Entries]
      /\ regs \in [Accounts -> Registrations]
  BY DEF BookInv, TypeOK
<1>1. ASSUME NEW s \in People, NEW x \in Accounts, NEW id \in FeedIds, NEW b \in Bounds,
             NEW w \in Windows, NEW r \in Reads, RegisterFeed(s, x, id, b, w, r)
      PROVE  entries'[a] = entries[a] /\ regs'[a] = regs[a] /\ now' >= now
  BY <1>0, <1>1 DEF RegisterFeed
<1>2. ASSUME NEW S \in SUBSET Accounts, NEW read \in [S -> Reads], RefreshAll(S, read)
      PROVE  \/ entries'[a] = entries[a] /\ regs'[a] = regs[a] /\ now' >= now
             \/ entries'[a].publishTime > entries[a].publishTime
  BY <1>0, <1>2, RefreshStep DEF EntryStep
<1>3. ASSUME NEW s \in People, NEW x \in Accounts, PauseAdapter(s, x)
      PROVE  \/ entries'[a] = entries[a] /\ regs'[a] = regs[a] /\ now' >= now
             \/ entries'[a].status = STATUS_PAUSED
  <2>1. CASE x = a
    BY <1>3, <2>1, PauseKeeps
  <2>2. CASE x # a
    BY <1>0, <1>3, <2>2 DEF PauseAdapter
  <2> QED BY <2>1, <2>2
<1>4. ASSUME NEW s \in People, NEW x \in Accounts, NEW r \in Reads, UnpauseAdapter(s, x, r)
      PROVE  \/ entries'[a] = entries[a] /\ regs'[a] = regs[a] /\ now' >= now
             \/ entries'[a].publishTime > entries[a].publishTime
  <2>1. CASE x = a
    BY <1>4, <2>1, UnpauseKeeps
  <2>2. CASE x # a
    BY <1>0, <1>4, <2>2 DEF UnpauseAdapter
  <2> QED BY <2>1, <2>2
<1>5. ASSUME NEW s \in People, NEW p \in People, TransferOwnership(s, p)
      PROVE  entries'[a] = entries[a] /\ regs'[a] = regs[a] /\ now' >= now
  BY <1>0, <1>5 DEF TransferOwnership
<1>6. CASE Tick
  BY <1>0, <1>6 DEF Tick
<1> QED BY <1>1, <1>2, <1>3, <1>4, <1>5, <1>6 DEF Next

\* An answer that was halted or grew stale is never given again: the feed
\* answers next with a newer price.
THEOREM AnswersNeverReturn == Spec => NeverResurrected
<1>1. ASSUME BookInv, BookInv', Next, NEW a \in Accounts, Registered(a), ~Serves(a), Serves(a)'
      PROVE  entries'[a].publishTime > entries[a].publishTime
  <2>1. /\ now \in Nat /\ now' \in Nat /\ EntryAgrees(a)
        /\ entries[a] \in Entries /\ regs[a] \in Registrations
    BY <1>1 DEF BookInv, BookSound, TypeOK
  <2>2. CASE entries'[a] = entries[a] /\ regs'[a] = regs[a] /\ now' >= now
    BY <1>1, <2>1, <2>2 DEF Serves, EntryAgrees, Entries, Registrations
  <2>3. CASE entries'[a].status = STATUS_PAUSED
    BY <1>1, <2>3 DEF Serves, LIVE, STATUS_PAUSED
  <2> QED BY <1>1, <2>2, <2>3, OneFeed
<1>2. BookInv /\ BookInv' /\ [Next]_vars =>
        [ \A a \in Accounts : Registered(a) /\ ~Serves(a) /\ Serves(a)'
            => entries'[a].publishTime > entries[a].publishTime ]_vars
  BY <1>1
<1> QED BY <1>2, BookInvariant, PTL DEF Spec, NeverResurrected

-----------------------------------------------------------------------------
(* The refinement                                                          *)

\* An entry's status, as a mode, before and after a step.
LEMMA Maps ==
  TypeOK => \A a \in Accounts :
    /\ entries[a].status = 0 => Mode[a] = "none"
    /\ entries[a].status = LIVE => Mode[a] = "live"
    /\ entries[a].status = STATUS_PAUSED => Mode[a] = "halted"
    /\ entries[a].status \in {0, LIVE, STATUS_PAUSED}
    /\ Time[a] = entries[a].publishTime /\ Time[a] \in Nat
    /\ Window[a] = regs[a].maxStaleness /\ Window[a] \in Nat
  BY DEF ModeOf, Mode, Time, Window, LIVE, STATUS_PAUSED, TypeOK, Entries, Registrations

LEMMA MapsNext ==
  ASSUME TypeOK'
  PROVE  /\ \A a \in Accounts :
              /\ entries'[a].status = 0 => Mode'[a] = "none"
              /\ entries'[a].status = LIVE => Mode'[a] = "live"
              /\ entries'[a].status = STATUS_PAUSED => Mode'[a] = "halted"
              /\ Time'[a] = entries'[a].publishTime /\ Time'[a] \in Nat
              /\ Window'[a] = regs'[a].maxStaleness
         /\ DOMAIN Mode' = Accounts /\ Mode' = [a \in Accounts |-> Mode'[a]]
         /\ Time' = [a \in Accounts |-> Time'[a]]
         /\ Window' = [a \in Accounts |-> Window'[a]]
  BY DEF ModeOf, Mode, Time, Window, LIVE, STATUS_PAUSED, TypeOK, Entries, Registrations

LEMMA StepRefines ==
  BookInv /\ BookInv' /\ [Next]_vars => [Feeds!Next]_Feeds!vars
<1> SUFFICES ASSUME BookInv, BookInv', [Next]_vars
             PROVE  [Feeds!Next]_Feeds!vars
  OBVIOUS
<1>0. /\ TypeOK /\ TypeOK' /\ now \in Nat
      /\ \A a \in Accounts : EntryAgrees(a)
      /\ entries \in [Accounts -> Entries] /\ regs \in [Accounts -> Registrations]
  BY DEF BookInv, BookSound, TypeOK
<1>1. /\ Mode = [a \in Accounts |-> Mode[a]]
      /\ Time = [a \in Accounts |-> Time[a]]
      /\ Window = [a \in Accounts |-> Window[a]]
  <2>1. Mode = [a \in Accounts |-> Mode[a]]
    BY DEF Mode
  <2>2. Time = [a \in Accounts |-> Time[a]]
    BY DEF Time
  <2>3. Window = [a \in Accounts |-> Window[a]]
    BY DEF Window
  <2> QED BY <2>1, <2>2, <2>3
<1>2. UNCHANGED <<entries, regs>> => UNCHANGED <<Mode, Time, Window>>
  BY DEF Mode, Time, Window
<1>3. ASSUME NEW s \in People, NEW a \in Accounts, NEW id \in FeedIds, NEW b \in Bounds,
             NEW w \in Windows, NEW r \in Reads, RegisterFeed(s, a, id, b, w, r)
      PROVE  Feeds!Next
  <2>1. entries'[a].status = LIVE /\ entries'[a].publishTime \in 0 .. now
    BY <1>3, RegisterKeeps
  <2>2. /\ ~Registered(a) /\ UNCHANGED now
        /\ \A g \in Accounts \ {a} : entries'[g] = entries[g] /\ regs'[g] = regs[g]
    BY <1>0, <1>3 DEF RegisterFeed
  <2>3. Mode[a] = "none"
    BY <1>0, <2>2, Maps DEF EntryAgrees
  <2>4. \A g \in Accounts \ {a} : /\ Mode'[g] = Mode[g] /\ Time'[g] = Time[g]
                                  /\ Window'[g] = Window[g]
    BY <1>0, <2>2, Maps, MapsNext
  <2>5. Mode'[a] = "live" /\ Time'[a] \in 0 .. now
    BY <1>0, <2>1, MapsNext
  <2>6. Mode' = [Mode EXCEPT ![a] = "live"] /\ Time' = [Time EXCEPT ![a] = Time'[a]]
    BY <1>0, <1>1, <2>4, <2>5, MapsNext
  <2>7. Feeds!Add(a)
    BY <2>2, <2>3, <2>4, <2>5, <2>6 DEF Feeds!Add
  <2> QED BY <2>7 DEF Feeds!Next
<1>4. ASSUME NEW S \in SUBSET Accounts, NEW read \in [S -> Reads], RefreshAll(S, read)
      PROVE  Feeds!Next
  <2>1. EntryStep
    BY <1>4, RefreshStep
  <2>2. ASSUME NEW a \in Accounts
        PROVE  /\ Mode'[a] = Mode[a] /\ Window'[a] = Window[a]
               /\ Time'[a] # Time[a] =>
                    Mode[a] = "live" /\ Time'[a] > Time[a] /\ Time'[a] \in 0 .. now
    <3>1. CASE entries'[a] = entries[a]
      BY <1>0, <2>1, <3>1, Maps, MapsNext DEF EntryStep
    <3>2. CASE entries'[a] # entries[a]
      <4>1. entries[a].status = LIVE
        BY <1>0, <2>1, <3>2, Maps DEF EntryStep, EntryAgrees
      <4> QED BY <1>0, <2>1, <3>2, <4>1, Maps, MapsNext DEF EntryStep
    <3> QED BY <3>1, <3>2
  <2>3. Mode' = Mode /\ Window' = Window /\ now' = now
    BY <1>0, <1>1, <2>1, <2>2, MapsNext DEF EntryStep
  <2>4. \A a \in Accounts : Time[a] \in 0 .. now
    BY <1>0, Maps DEF EntryAgrees, Entries
  <2>5. Time' \in [Accounts -> 0 .. now]
    <3>1. \A a \in Accounts : Time'[a] \in 0 .. now
      BY <2>2, <2>4
    <3>2. Time' = [a \in Accounts |-> Time'[a]]
      BY <1>0, MapsNext
    <3> QED BY <3>1, <3>2
  <2>6. Feeds!Update
    BY <2>2, <2>3, <2>5 DEF Feeds!Update
  <2> QED BY <2>6 DEF Feeds!Next
<1>5. ASSUME NEW s \in People, NEW a \in Accounts, PauseAdapter(s, a)
      PROVE  Feeds!Next
  <2>1. /\ entries'[a].status = STATUS_PAUSED
        /\ entries'[a].publishTime = entries[a].publishTime
    BY <1>5, PauseKeeps
  <2>2. /\ Registered(a) /\ UNCHANGED <<now, regs>>
        /\ \A g \in Accounts \ {a} : entries'[g] = entries[g]
    BY <1>0, <1>5 DEF PauseAdapter
  <2>3. Mode[a] # "none"
    BY <1>0, <2>2, Maps DEF EntryAgrees
  <2>4. \A g \in Accounts : /\ g # a => Mode'[g] = Mode[g]
                            /\ Time'[g] = Time[g] /\ Window'[g] = Window[g]
    BY <1>0, <2>1, <2>2, Maps, MapsNext
  <2>5. Mode' = [Mode EXCEPT ![a] = "halted"] /\ Time' = Time /\ Window' = Window
    BY <1>0, <1>1, <2>1, <2>4, MapsNext
  <2>6. Feeds!Halt(a)
    BY <2>2, <2>3, <2>5 DEF Feeds!Halt
  <2> QED BY <2>6 DEF Feeds!Next
<1>6. ASSUME NEW s \in People, NEW a \in Accounts, NEW r \in Reads, UnpauseAdapter(s, a, r)
      PROVE  Feeds!Next
  <2>1. /\ entries'[a] = NewEntry(r) /\ NewEntry(r).status = LIVE
        /\ NewEntry(r).publishTime = r.pt /\ r.pt \in 0 .. now
        /\ r.pt > entries[a].publishTime
        /\ entries[a].status = STATUS_PAUSED
    BY <1>6, UnpauseKeeps
  <2>2. /\ now - r.pt <= regs[a].maxStaleness /\ UNCHANGED <<now, regs>>
        /\ \A g \in Accounts \ {a} : entries'[g] = entries[g]
    BY <1>0, <1>6 DEF UnpauseAdapter
  <2>3. /\ Mode[a] = "halted" /\ Mode'[a] = "live"
        /\ Time'[a] \in 0 .. now /\ Time'[a] > Time[a] /\ now - Time'[a] <= Window[a]
    BY <1>0, <2>1, <2>2, Maps, MapsNext
  <2>4. \A g \in Accounts : /\ g # a => Mode'[g] = Mode[g] /\ Time'[g] = Time[g]
                            /\ Window'[g] = Window[g]
    BY <1>0, <2>2, Maps, MapsNext
  <2>5. /\ Mode' = [Mode EXCEPT ![a] = "live"] /\ Time' = [Time EXCEPT ![a] = Time'[a]]
        /\ Window' = Window
    BY <1>0, <1>1, <2>3, <2>4, MapsNext
  <2>6. Feeds!Resume(a)
    BY <2>2, <2>3, <2>5 DEF Feeds!Resume
  <2> QED BY <2>6 DEF Feeds!Next
<1>7. CASE Tick
  <2>1. now' > now /\ UNCHANGED <<entries, regs>>
    BY <1>0, <1>7 DEF Tick
  <2> QED BY <1>2, <2>1 DEF Feeds!Next, Feeds!Tick
<1>8. ASSUME \/ \E s, p \in People : TransferOwnership(s, p)
             \/ UNCHANGED vars
      PROVE  UNCHANGED Feeds!vars
  BY <1>2, <1>8 DEF TransferOwnership, vars, Feeds!vars
<1> QED BY <1>3, <1>4, <1>5, <1>6, <1>7, <1>8 DEF Next

\* Prices move forward only and never past the clock, a paused feed is
\* halted, and it resumes only with a newer and fresh price.
THEOREM BookImplements == Spec => ImplementsFeeds
<1>1. Init => Feeds!Init
  <2> SUFFICES ASSUME Init PROVE Feeds!Init
    OBVIOUS
  <2>1. TypeOK /\ now \in Nat
    BY InitInv DEF BookInv, TypeOK
  <2>2. \A a \in Accounts : entries[a].status = 0
    BY DEF Init, NoEntry
  <2>3. Mode = [a \in Accounts |-> "none"]
    BY <2>2 DEF ModeOf, Mode, LIVE, STATUS_PAUSED
  <2>4. Time \in [Accounts -> Nat] /\ Window \in [Accounts -> Nat]
    BY <2>1 DEF Time, Window, TypeOK, Entries, Registrations
  <2> QED BY <2>1, <2>3, <2>4 DEF Feeds!Init
<1>2. BookInv /\ BookInv' /\ [Next]_vars => [Feeds!Next]_Feeds!vars
  BY StepRefines
<1> QED BY <1>1, <1>2, BookInvariant, PTL DEF Spec, Feeds!Spec, ImplementsFeeds
=============================================================================
