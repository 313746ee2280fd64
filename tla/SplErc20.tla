------------------------------- MODULE SplErc20 -------------------------------
(***************************************************************************)
(* The ERC-20 wrapper of one SPL mint, in its two builds:                  *)
(*   CpiTrack = TRUE   SPL_ERC20        (contracts/erc20spl/erc20spl.sol)  *)
(*   CpiTrack = FALSE  SPL_ERC20_cached (erc20spl_cached.sol)              *)
(*                                                                         *)
(* An address without code keeps its tokens in its own SPL account (ATA)   *)
(* and lets the wrapper move them as its SPL delegate.  An address with    *)
(* code cannot sign on Solana: its tokens sit in the wrapper's own ATA and *)
(* are booked in `escrow'.  The wrapper is sound only if the books never   *)
(* exceed that ATA.                                                        *)
(*                                                                         *)
(* A transaction made by a contract is a frame: Open, up to MaxCalls calls *)
(* of the wrapper, then Commit, or Rollback when the contract reverts.     *)
(* EVM storage is always rolled back, and so is what the cached wrapper    *)
(* did on Solana; what the CPI wrapper did there may stay (`torn').        *)
(***************************************************************************)
EXTENDS Integers, FiniteSets, TokenSums

CONSTANTS EOAs,        \* addresses that never have code
          Contracts,   \* addresses with code from the start
          Fresh,       \* CREATE2 addresses, without code until deployed
          Wrapper,     \* address(this)
          Wallet,      \* a Solana wallet outside the EVM
          Funder,      \* the EOA that holds the whole supply at the start
          NoFrame,     \* no transaction of a contract is open
          CpiTrack, FeeCapable,
          U64Max, MaxUint,   \* type(uint64).max, type(uint256).max
          Supply,            \* tokens of the mint
          MaxFee,            \* cap of the fee of one SPL transfer
          Values,            \* amounts that calls name
          Pairs,             \* <<owner, spender>> that calls approve
          Payees,            \* accounts others create and pay directly
          MaxCalls           \* calls of the wrapper in one frame

Addr == EOAs \cup Contracts \cup Fresh \cup {Wrapper}
Accounts == Addr \cup {Wallet}

ASSUME AddrAssumption ==
  /\ IsFiniteSet(Addr)
  /\ EOAs \cap (Contracts \cup Fresh) = {} /\ Contracts \cap Fresh = {}
  /\ Wrapper \notin EOAs \cup Contracts \cup Fresh
  /\ Wallet \notin Addr
  /\ Funder \in EOAs
ASSUME NumberAssumption ==
  /\ U64Max \in Nat /\ MaxUint \in Nat /\ U64Max < MaxUint
  /\ Supply \in 0 .. U64Max /\ MaxFee \in Nat /\ MaxCalls \in Nat
  /\ Values \subseteq 0 .. MaxUint
  /\ Pairs \subseteq Addr \X Addr
  /\ Payees \subseteq Accounts
ASSUME TrackAssumption == CpiTrack \in BOOLEAN /\ FeeCapable \in BOOLEAN

VARIABLES splBal,      \* Solana: tokens in the ATA of each account
          ataExists,   \* Solana: the ATA has been created
          grant,       \* Solana: what the wrapper may still move as delegate
          feeBps,      \* Solana: the mint's live transfer fee, 0 or 1
          code,        \* EVM: account.code.length > 0
          escrow,      \* EVM: _escrow
          allowances,  \* EVM: _allowances
          ataCreated,  \* EVM: _ataCreated
          escrowAtaCreated,  \* EVM: _escrowAtaCreated
          saved,       \* state at the start of the open frame, or NoFrame
          calls,       \* calls made in the open frame
          by,          \* history: the caller of the last operation
          torn         \* history: SPL transfers outlived a rolled back frame

solana == <<splBal, ataExists, grant>>
evm == <<code, escrow, allowances, ataCreated, escrowAtaCreated>>
vars == <<solana, feeBps, evm, saved, calls, by, torn>>

Snapshot ==
  [splBal |-> splBal, ataExists |-> ataExists, grant |-> grant, code |-> code,
   escrow |-> escrow, allowances |-> allowances, ataCreated |-> ataCreated,
   escrowAtaCreated |-> escrowAtaCreated]

Snapshots ==
  [splBal : [Accounts -> Nat], ataExists : [Accounts -> BOOLEAN],
   grant : [Addr -> Nat], code : [Addr -> BOOLEAN], escrow : [Addr -> Nat],
   allowances : [Addr -> [Addr -> Nat]], ataCreated : [Addr -> BOOLEAN],
   escrowAtaCreated : BOOLEAN]

ASSUME NoFrameAssumption == NoFrame \notin Snapshots

TypeOK ==
  /\ splBal \in [Accounts -> Nat]
  /\ ataExists \in [Accounts -> BOOLEAN]
  /\ grant \in [Addr -> Nat]
  /\ feeBps \in {0, 1} /\ (feeBps = 1 => FeeCapable)
  /\ code \in [Addr -> BOOLEAN]
  /\ escrow \in [Addr -> Nat]
  /\ allowances \in [Addr -> [Addr -> Nat]]
  /\ ataCreated \in [Addr -> BOOLEAN]
  /\ escrowAtaCreated \in BOOLEAN
  /\ saved \in Snapshots \cup {NoFrame}
  /\ calls \in Nat
  /\ by \in Accounts
  /\ torn \in BOOLEAN

Init ==
  /\ splBal = [a \in Accounts |-> IF a = Funder THEN Supply ELSE 0]
  /\ ataExists = [a \in Accounts |-> a = Funder]
  /\ grant = [a \in Addr |-> 0]
  /\ feeBps = 0
  /\ code = [a \in Addr |-> a \in Contracts \cup {Wrapper}]
  /\ escrow = [a \in Addr |-> 0]
  /\ allowances = [o \in Addr |-> [s \in Addr |-> 0]]
  /\ ataCreated = [a \in Addr |-> FALSE]
  /\ escrowAtaCreated = FALSE
  /\ saved = NoFrame
  /\ calls = 0
  /\ by = Funder
  /\ torn = FALSE

-----------------------------------------------------------------------------
(* Who may call now.  An EOA's transaction is one call; a contract calls   *)
(* inside a frame.                                                         *)

Caller(s) ==
  IF saved = NoFrame THEN s \in EOAs
  ELSE s \in Contracts \cup Fresh /\ code[s] /\ calls < MaxCalls

Called(s) ==
  /\ Caller(s)
  /\ by' = s
  /\ calls' = IF saved = NoFrame THEN 0 ELSE calls + 1
  /\ UNCHANGED <<saved, torn>>

-----------------------------------------------------------------------------
(* The SPL side of a transfer.                                             *)

\* uint64(value)
U64(v) == v % (U64Max + 1)

\* What the mint keeps of one transfer: any part up to its cap, once a fee
\* is armed.
Fees(v) == {f \in 0 .. MaxFee : f <= v /\ (f > 0 => feeBps > 0)}

\* One SPL transfer between two ATAs.  A sender without code is debited by
\* the wrapper as its delegate, which uses the grant up, except on a
\* transfer to itself; the wrapper's own ATA is debited by its owner.
SplTransfer(src, dst, v) ==
  /\ splBal[src] >= v
  /\ ataExists[src] /\ ataExists'[dst]
  /\ IF src = Wrapper
     THEN grant' = grant
     ELSE /\ grant[src] >= v
          /\ grant' = IF src = dst THEN grant
                      ELSE [grant EXCEPT ![src] = @ - v]
  /\ \E f \in Fees(v) :
       splBal' = [[splBal EXCEPT ![src] = @ - v] EXCEPT ![dst] = @ + v - f]

-----------------------------------------------------------------------------
(* ATA creation                                                            *)

\* Mutant: the flag is set although nothing was created.
CreateAtaFlagOnly(a) ==
  /\ ataCreated' = [ataCreated EXCEPT ![a] = TRUE]
  /\ UNCHANGED <<ataExists, escrowAtaCreated>>

\* _createAta: idempotent on Solana, and the flag is set.
CreateAta(a) ==
  /\ ataExists' = [ataExists EXCEPT ![a] = TRUE]
  /\ ataCreated' = [ataCreated EXCEPT ![a] = TRUE]
  /\ UNCHANGED escrowAtaCreated

\* _ensureAta, and the probe in the cached _transfer: the flag short-cuts;
\* otherwise probe, create when missing, and set the flag either way.
EnsureAta(a) ==
  \/ ataCreated[a] /\ UNCHANGED <<ataExists, ataCreated, escrowAtaCreated>>
  \/ /\ ~ataCreated[a] /\ ataExists[a]
     /\ ataCreated' = [ataCreated EXCEPT ![a] = TRUE]
     /\ UNCHANGED <<ataExists, escrowAtaCreated>>
  \/ ~ataCreated[a] /\ ~ataExists[a] /\ CreateAta(a)

\* _ensureWrapperAta: the same for the wrapper's own ATA, with a flag of
\* its own.
EnsureWrapperAta ==
  /\ ataExists' = IF escrowAtaCreated THEN ataExists
                  ELSE [ataExists EXCEPT ![Wrapper] = TRUE]
  /\ escrowAtaCreated' = TRUE
  /\ UNCHANGED ataCreated

ReceiverAta(to) == IF code[to] THEN EnsureWrapperAta ELSE EnsureAta(to)

-----------------------------------------------------------------------------
(* _transfer                                                               *)

\* Both ends are in the books: no SPL moves.
LedgerTransfer(from, to, v) ==
  /\ code[from] /\ code[to]
  /\ escrow[from] >= v
  /\ escrow' = [[escrow EXCEPT ![from] = @ - v] EXCEPT ![to] = @ + v]
  /\ UNCHANGED <<splBal, ataExists, grant, ataCreated, escrowAtaCreated>>

\* The ATA that holds the tokens of a.
Home(a) == IF code[a] THEN Wrapper ELSE a

\* Mutant: the request is booked, whatever fee the mint kept.
DeliveredInFull(from, to, v) == v

\* What the recipient gets: the request, or, under an armed fee, the
\* measured change of the receiving ATA (of the loss, on a self-transfer).
Delivered(from, to, v) ==
  LET before == splBal[Home(to)]
      now == splBal'[Home(to)]
  IN  IF ~(FeeCapable /\ feeBps > 0) THEN v
      ELSE IF to = from THEN v - (before - now)
      ELSE now - before

BookTransfer(from, to, v) ==
  LET debited == IF code[from] THEN [escrow EXCEPT ![from] = @ - v] ELSE escrow
  IN  escrow' = IF code[to]
                THEN [debited EXCEPT ![to] = @ + Delivered(from, to, v)]
                ELSE debited

\* Mutant: no bound, so that the cast of the CPI truncates.
FitsAny(v) == v >= 0

\* require(value <= type(uint64).max)
FitsU64(v) == v <= U64Max

\* Mutant: the books of the sender are not checked.
SplBackedUnchecked(from, to, v) == ~(code[from] /\ code[to])

\* One end is an SPL account, and a sender in the books has enough there.
SplBacked(from, to, v) ==
  /\ ~(code[from] /\ code[to])
  /\ code[from] => escrow[from] >= v

\* _transfer of SPL_ERC20: the amount of the CPI is cast to uint64.
TransferCpi(from, to, v) ==
  /\ FitsU64(v)
  /\ \/ LedgerTransfer(from, to, v)
     \/ /\ SplBacked(from, to, v)
        /\ ReceiverAta(to)
        /\ SplTransfer(Home(from), Home(to), U64(v))
        /\ BookTransfer(from, to, v)

\* _transfer of SPL_ERC20_cached: the precompile takes the amount as it is.
TransferCached(from, to, v) ==
  /\ FitsU64(v)
  /\ \/ LedgerTransfer(from, to, v)
     \/ /\ SplBacked(from, to, v)
        /\ ReceiverAta(to)
        /\ SplTransfer(Home(from), Home(to), v)
        /\ BookTransfer(from, to, v)

MoveTokens(from, to, v) ==
  IF CpiTrack THEN TransferCpi(from, to, v) ELSE TransferCached(from, to, v)

-----------------------------------------------------------------------------
(* The ERC-20 surface                                                      *)

Transfer(s, to, v) ==
  /\ Called(s)
  /\ MoveTokens(s, to, v)
  /\ UNCHANGED <<feeBps, code, allowances>>

\* Mutants: an allowance is not spent, and not even asked for.
SpendAllowanceKept(owner, s, v) == allowances[owner][s] >= v /\ UNCHANGED allowances
SpendAllowanceFree(owner, s, v) == UNCHANGED allowances

\* _spendAllowance: the maximum is never decremented.
SpendAllowance(owner, s, v) ==
  /\ allowances[owner][s] # MaxUint => allowances[owner][s] >= v
  /\ allowances' = IF allowances[owner][s] = MaxUint THEN allowances
                   ELSE [allowances EXCEPT ![owner][s] = @ - v]

TransferFrom(s, from, to, v) ==
  /\ Called(s)
  /\ SpendAllowance(from, s, v)
  /\ MoveTokens(from, to, v)
  /\ UNCHANGED <<feeBps, code>>

Approve(s, spender, v) ==
  /\ Called(s)
  /\ allowances' = [allowances EXCEPT ![s][spender] = v]
  /\ UNCHANGED <<solana, feeBps, code, escrow, ataCreated, escrowAtaCreated>>

\* create_token_account (on both tracks; anybody may pay for anybody)
CreateTokenAccount(s, a) ==
  /\ Called(s)
  /\ CreateAta(a)
  /\ UNCHANGED <<splBal, grant, feeBps, code, escrow, allowances>>

\* ensure_token_account: the cached build does not probe.
EnsureTokenAccount(s, a) ==
  /\ Called(s)
  /\ IF CpiTrack \/ ataCreated[a] THEN EnsureAta(a) ELSE CreateAta(a)
  /\ UNCHANGED <<splBal, grant, feeBps, code, escrow, allowances>>

\* bridgeOutToSolana, CPI track only: creates the wallet's ATA, then moves
\* from the caller's OWN ata, whatever the caller is.
BridgeOutToSolana(s, v) ==
  /\ CpiTrack
  /\ Called(s)
  /\ FitsU64(v)
  /\ ataExists' = [ataExists EXCEPT ![Wallet] = TRUE]
  /\ SplTransfer(s, Wallet, U64(v))
  /\ UNCHANGED <<feeBps, evm>>

\* ensureRecipientAta, CPI track only.
EnsureRecipientAta(s) ==
  /\ CpiTrack
  /\ Called(s)
  /\ ataExists' = [ataExists EXCEPT ![Wallet] = TRUE]
  /\ UNCHANGED <<splBal, grant, feeBps, evm>>

-----------------------------------------------------------------------------
(* The frame of a transaction made by a contract                           *)

Open ==
  /\ saved = NoFrame
  /\ saved' = Snapshot
  /\ UNCHANGED <<solana, feeBps, evm, calls, by, torn>>

Commit ==
  /\ saved # NoFrame
  /\ saved' = NoFrame
  /\ calls' = 0
  /\ UNCHANGED <<solana, feeBps, evm, by, torn>>

\* What the cached precompiles did is journaled and goes with the rest.  On
\* the CPI track the platform either fails the whole transaction or leaves on
\* Solana what was done there: the documents of the repository say both.
Rollback ==
  /\ saved # NoFrame
  /\ code' = saved.code
  /\ escrow' = saved.escrow
  /\ allowances' = saved.allowances
  /\ ataCreated' = saved.ataCreated
  /\ escrowAtaCreated' = saved.escrowAtaCreated
  /\ \/ /\ splBal' = saved.splBal
        /\ ataExists' = saved.ataExists
        /\ grant' = saved.grant
        /\ torn' = torn
     \/ /\ CpiTrack
        /\ torn' = TRUE
        /\ UNCHANGED solana
  /\ saved' = NoFrame
  /\ calls' = 0
  /\ UNCHANGED <<feeBps, by>>

\* CREATE2 inside a transaction: the address has code from now on.
Deploy(a) ==
  /\ saved # NoFrame
  /\ a \in Fresh /\ ~code[a]
  /\ code' = [code EXCEPT ![a] = TRUE]
  /\ UNCHANGED <<solana, feeBps, escrow, allowances, ataCreated, escrowAtaCreated,
                saved, calls, by, torn>>

-----------------------------------------------------------------------------
(* What others do to the mint and to their own SPL accounts (external)     *)

\* approve_spl: the ATA has one delegate slot, so a grant to anyone else
\* takes the wrapper's away (n = 0).
ApproveSpl(a, n) ==
  /\ saved = NoFrame
  /\ a \in EOAs /\ ataExists[a]
  /\ n <= U64Max
  /\ grant' = [grant EXCEPT ![a] = n]
  /\ UNCHANGED <<splBal, ataExists, feeBps, evm, saved, calls, by, torn>>

\* The owner moves its SPL directly: bridge-in, gifts to the wrapper's ATA,
\* payments to addresses with or without code.
OwnerMoves(a, b, v) ==
  /\ saved = NoFrame
  /\ a \in EOAs \cup {Wallet} /\ a # b
  /\ v > 0 /\ v <= splBal[a]
  /\ ataExists' = [ataExists EXCEPT ![b] = TRUE]
  /\ \E f \in Fees(v) :
       splBal' = [[splBal EXCEPT ![a] = @ - v] EXCEPT ![b] = @ + v - f]
  /\ by' = a
  /\ UNCHANGED <<grant, feeBps, evm, saved, calls, torn>>

\* The mint's fee authority arms or disarms the fee.
SetFee(n) ==
  /\ saved = NoFrame
  /\ FeeCapable /\ n \in {0, 1} /\ n # feeBps
  /\ feeBps' = n
  /\ UNCHANGED <<solana, evm, saved, calls, by, torn>>

Next ==
  \/ \E s, to \in Addr, v \in Values : Transfer(s, to, v)
  \/ \E s, from, to \in Addr, v \in Values : TransferFrom(s, from, to, v)
  \/ \E p \in Pairs, v \in Values : Approve(p[1], p[2], v)
  \/ \E s \in Addr, a \in Payees \cap Addr :
       CreateTokenAccount(s, a) \/ EnsureTokenAccount(s, a)
  \/ \E s \in Addr, v \in Values : BridgeOutToSolana(s, v)
  \/ \E s \in Addr : EnsureRecipientAta(s)
  \/ Open \/ Commit \/ Rollback
  \/ \E a \in Fresh : Deploy(a)
  \/ \E a \in EOAs, n \in Values \cup {0} : ApproveSpl(a, n)
  \/ \E a \in Accounts, b \in Payees, v \in Values : OwnerMoves(a, b, v)
  \/ \E n \in {0, 1} : SetFee(n)

Spec == Init /\ [][Next]_vars

-----------------------------------------------------------------------------
(* Properties                                                              *)

\* balanceOf: the books for an address with code, the ATA for any other.
BalanceOf(a) == IF code[a] THEN escrow[a] ELSE splBal[a]

\* The books never promise more than the wrapper's ATA holds: what keeps a
\* fee mint, the escrow check before the CPI and the uint64 guard of
\* _transfer honest.  A frame whose SPL transfers outlived its books voids
\* the promise.
EscrowSolvent == ~torn => Total(escrow) <= splBal[Wrapper]

\* A set _ataCreated or _escrowAtaCreated flag is right: the fast path of
\* _ensureAta never skips a creation that is needed, rollbacks included.
AtaFlagSound == 
  /\ \A a \in Addr : ataCreated[a] => ataExists[a]
  /\ escrowAtaCreated => ataExists[Wrapper]

\* Outside rollbacks and deployments, an address loses tokens only to a
\* call of its own or to one its allowance covers.
Unwound == saved # NoFrame /\ saved' = NoFrame
LossOf(a) == BalanceOf(a) - BalanceOf(a)'
DebitsAuthorized ==
  [][ Unwound \/ code' # code \/
      \A a \in Addr : LossOf(a) > 0 => (by' = a \/ allowances[a][by'] >= LossOf(a)) ]_vars

\* The inductive invariant.  The wrapper has code; and what a rollback would
\* bring back is as sound as what is there now: the snapshot's books fit the
\* snapshot's ATA, and no ATA of the snapshot has gone.
SavedSound ==
  saved # NoFrame =>
    /\ saved.code[Wrapper]
    /\ ~torn => Total(saved.escrow) <= saved.splBal[Wrapper]
    /\ \A a \in Addr : saved.ataCreated[a] => saved.ataExists[a]
    /\ saved.escrowAtaCreated => saved.ataExists[Wrapper]
    /\ \A a \in Addr : saved.ataExists[a] => ataExists[a]
IInv == TypeOK /\ code[Wrapper] /\ EscrowSolvent /\ AtaFlagSound /\ SavedSound

\* Only an address with code has books, now and in the snapshot: so code that
\* appears at an address makes its balance 0, whatever its ATA holds.
BooksNeedCode ==
  /\ \A a \in Addr : ~code[a] => escrow[a] = 0
  /\ saved # NoFrame => \A a \in Addr : ~saved.code[a] => saved.escrow[a] = 0

\* What the abstract ledger sees of the state, and of the snapshot.
Balances == [a \in Addr |-> BalanceOf(a)]
Held == {a \in Addr : code[a]}
SeenOf(s) ==
  [balance |-> [a \in Addr |-> IF s.code[a] THEN s.escrow[a] ELSE s.splBal[a]],
   allow |-> s.allowances,
   held |-> {a \in Addr : s.code[a]}]
Checkpoint == IF saved = NoFrame THEN NoFrame ELSE SeenOf(saved)

ASSUME CheckpointAssumption ==
  NoFrame \notin [balance : [Addr -> Nat], allow : [Addr -> [Addr -> Nat]],
                  held : SUBSET Addr]

\* The wrapper of the cached track implements the abstract ledger.
Ledger == INSTANCE Erc20Ledger WITH
  Parties <- Accounts, Amounts <- Values, Infinite <- MaxUint, Closed <- NoFrame,
  balance <- Balances, allow <- allowances, held <- Held, checkpoint <- Checkpoint
ImplementsLedger == Ledger!Spec
=============================================================================
