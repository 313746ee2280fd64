----------------------------- MODULE Erc20Ledger -----------------------------
(***************************************************************************)
(* What a wrapped token promises its users: an ERC-20 ledger whose writes  *)
(* are journaled with the EVM transaction that makes them.                 *)
(*                                                                         *)
(* An address is `held' once it has code: its balance then lives in the    *)
(* wrapper's books and changes only through Move.  Any other address keeps *)
(* its tokens in an SPL account of its own and may also move them on       *)
(* Solana, behind the ledger's back (OwnMove).  `by' is the party that     *)
(* called last: nobody else's balance may go down without an allowance     *)
(* that covers the loss.                                                   *)
(***************************************************************************)
EXTENDS Integers

CONSTANTS Addr,        \* addresses of the EVM
          Parties,     \* Addr and the outside wallets
          Amounts,     \* amounts a call may name
          Infinite,    \* the allowance that is never spent
          Closed       \* checkpoint of a ledger with no transaction open

VARIABLES balance,     \* [Addr -> Nat]
          allow,       \* [Addr -> [Addr -> Nat]]
          held,        \* addresses with code
          checkpoint,  \* what a rollback restores, or Closed
          by           \* the last caller

vars == <<balance, allow, held, checkpoint, by>>

Init ==
  /\ balance \in [Addr -> Nat]
  /\ \A o, s \in Addr : allow[o][s] = 0
  /\ held \subseteq Addr
  /\ checkpoint = Closed
  /\ by \in Parties

\* A call that neither moves nor approves anything.
Touch(s) ==
  /\ by' = s
  /\ UNCHANGED <<balance, allow, held, checkpoint>>

Approve(o, s, v) ==
  /\ by' = o
  /\ allow' = [allow EXCEPT ![o][s] = v]
  /\ UNCHANGED <<balance, held, checkpoint>>

\* Some v leaves `from' and d of it arrives: a mint may keep v - d as a fee.
Move(s, from, to) ==
  /\ by' = s
  /\ UNCHANGED <<held, checkpoint>>
  /\ \E v \in Amounts :
       /\ balance[from] >= v
       /\ \/ s = from /\ allow' = allow
          \/ allow[from][s] = Infinite /\ allow' = allow
          \/ allow[from][s] >= v /\ allow' = [allow EXCEPT ![from][s] = @ - v]
       /\ \E d \in 0 .. v :
            balance' = [[balance EXCEPT ![from] = @ - v] EXCEPT ![to] = @ + d]

\* The owner of an SPL account moves tokens outside the ledger.
OwnMove(a) ==
  /\ by' = a
  /\ checkpoint = Closed
  /\ balance' \in [Addr -> Nat]
  /\ \A x \in Addr : /\ x # a => balance'[x] >= balance[x]
                     /\ x \in held => balance'[x] = balance[x]
  /\ UNCHANGED <<allow, held, checkpoint>>

\* Code appears at an address: from then on the ledger shows its books,
\* which are empty, and not the SPL account it had before.
Deploy(a) ==
  /\ a \notin held
  /\ held' = held \cup {a}
  /\ balance' = [balance EXCEPT ![a] = 0]
  /\ UNCHANGED <<allow, checkpoint, by>>

Open ==
  /\ checkpoint = Closed
  /\ checkpoint' = [balance |-> balance, allow |-> allow, held |-> held]
  /\ UNCHANGED <<balance, allow, held, by>>

Commit ==
  /\ checkpoint # Closed
  /\ checkpoint' = Closed
  /\ UNCHANGED <<balance, allow, held, by>>

Rollback ==
  /\ checkpoint # Closed
  /\ balance' = checkpoint.balance
  /\ allow' = checkpoint.allow
  /\ held' = checkpoint.held
  /\ checkpoint' = Closed
  /\ UNCHANGED by

Next ==
  \/ \E s \in Addr : Touch(s)
  \/ \E o, s \in Addr, v \in Amounts : Approve(o, s, v)
  \/ \E s, from, to \in Addr : Move(s, from, to)
  \/ \E a \in Parties : OwnMove(a)
  \/ \E a \in Addr : Deploy(a)
  \/ Open \/ Commit \/ Rollback

Spec == Init /\ [][Next]_vars
=============================================================================
