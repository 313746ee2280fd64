--------------------------- MODULE SplErc20_proofs ---------------------------
(***************************************************************************)
(* For every number of users, every supply and both tracks: types, flags,  *)
(* the solvency of the books as long as no frame of the CPI track has been *)
(* rolled back, and nobody debited but by a call of his own or within an   *)
(* allowance.  On the cached track: the wrapper implements Erc20Ledger.    *)
(***************************************************************************)
EXTENDS SplErc20, TokenSums, FiniteSetTheorems, TLAPS

-----------------------------------------------------------------------------
(* How a total changes when one entry of a function changes.  A total is a *)
(* cardinality, so the arithmetic is that of disjoint unions: giving k     *)
(* more units to a adds the k pairs <<a, f[a] + 1>>, ..., <<a, f[a] + k>>. *)

\* Membership in Units, without the UNION.
LEMMA UnitsMember ==
  ASSUME NEW S, NEW f \in [S -> Nat], NEW p
  PROVE  p \in Units(f) <=> \E x \in S : \E i \in 1 .. f[x] : p = <<x, i>>
  BY DEF Units

\* The units of one entry are as many as its value says.
LEMMA Strip ==
  ASSUME NEW a, NEW m \in Int, NEW n \in Int
  PROVE  /\ IsFiniteSet({a} \X (m .. n))
         /\ Cardinality({a} \X (m .. n)) = IF m > n THEN 0 ELSE n - m + 1
<1> DEFINE T == {a} \X (m .. n)
           g == [i \in m .. n |-> <<a, i>>]
<1>1. g \in Bijection(m .. n, T)
  <2>1. g \in [m .. n -> T]
    OBVIOUS
  <2>2. \A i, j \in m .. n : g[i] = g[j] => i = j
    OBVIOUS
  <2>3. \A t \in T : \E i \in m .. n : g[i] = t
    <3> TAKE t \in T
    <3>1. PICK i \in m .. n : t = <<a, i>>
      OBVIOUS
    <3> QED BY <3>1
  <2> QED BY <2>1, <2>2, <2>3 DEF Bijection, Injection, Surjection, IsInjective
<1>2. ExistsBijection(m .. n, T)
  BY <1>1 DEF ExistsBijection
<1>3. /\ IsFiniteSet(m .. n)
      /\ Cardinality(m .. n) = IF m > n THEN 0 ELSE n - m + 1
  BY FS_Interval
<1>4. IsFiniteSet(T) /\ Cardinality(T) = Cardinality(m .. n)
  BY <1>2, <1>3, FS_Bijection
<1> QED BY <1>3, <1>4

LEMMA UnitsFinite ==
  ASSUME NEW S, IsFiniteSet(S), NEW f \in [S -> Nat]
  PROVE  IsFiniteSet(Units(f)) /\ Total(f) \in Nat
<1> DEFINE R == { {x} \X (1 .. f[x]) : x \in S }
           g == [x \in S |-> {x} \X (1 .. f[x])]
<1>1. g \in Surjection(S, R)
  BY DEF Surjection
<1>2. IsFiniteSet(R)
  BY <1>1, FS_Surjection
<1>3. \A T \in R : IsFiniteSet(T)
  <2> TAKE T \in R
  <2>1. PICK x \in S : T = {x} \X (1 .. f[x])
    OBVIOUS
  <2>2. f[x] \in Int /\ 1 \in Int
    OBVIOUS
  <2> QED BY <2>1, <2>2, Strip
<1>4. IsFiniteSet(UNION R)
  BY <1>2, <1>3, FS_UNION
<1>5. Units(f) = UNION R
  BY DEF Units
<1> QED BY <1>4, <1>5, FS_CardinalityType DEF Total

LEMMA TotalZero ==
  ASSUME NEW S
  PROVE  Total([x \in S |-> 0]) = 0
<1>1. Units([x \in S |-> 0]) = {}
  <2> DEFINE f == [x \in S |-> 0]
  <2>1. f \in [S -> Nat]
    OBVIOUS
  <2>2. \A p : p \notin Units(f)
    BY <2>1, UnitsMember
  <2> QED BY <2>2
<1> QED BY <1>1, FS_EmptySet DEF Total

\* k more units for a are k more in total.
LEMMA TotalAdd ==
  ASSUME NEW S, IsFiniteSet(S), NEW f \in [S -> Nat], NEW a \in S, NEW k \in Nat
  PROVE  Total([f EXCEPT ![a] = @ + k]) = Total(f) + k
<1> DEFINE h == [f EXCEPT ![a] = @ + k]
           D == {a} \X (f[a] + 1 .. f[a] + k)
<1>1. h \in [S -> Nat] /\ h[a] = f[a] + k /\ \A x \in S : x # a => h[x] = f[x]
  OBVIOUS
<1> HIDE DEF h
<1>2. Units(h) = Units(f) \cup D
  <2>1. ASSUME NEW p \in Units(h) PROVE p \in Units(f) \cup D
    <3>1. PICK x \in S : \E i \in 1 .. h[x] : p = <<x, i>>
      <4>1. DOMAIN h = S
        BY <1>1
      <4> QED BY <4>1 DEF Units
    <3>2. PICK i \in 1 .. h[x] : p = <<x, i>>
      BY <3>1
    <3>3. CASE x # a
      <4>1. i \in 1 .. f[x]
        BY <1>1, <3>2, <3>3
      <4> QED BY <4>1, <3>2, UnitsMember
    <3>4. CASE x = a /\ i <= f[a]
      <4>1. i \in 1 .. f[x]
        BY <1>1, <3>4
      <4> QED BY <4>1, <3>2, UnitsMember
    <3>5. CASE x = a /\ i > f[a]
      <4>1. i \in f[a] + 1 .. f[a] + k
        BY <1>1, <3>2, <3>5
      <4> QED BY <4>1, <3>2, <3>5
    <3> QED BY <3>3, <3>4, <3>5, <1>1
  <2>2. ASSUME NEW p \in Units(f) PROVE p \in Units(h)
    <3>1. PICK x \in S : \E i \in 1 .. f[x] : p = <<x, i>>
      BY UnitsMember
    <3>2. PICK i \in 1 .. f[x] : p = <<x, i>>
      BY <3>1
    <3>3. i \in 1 .. h[x]
      BY <1>1
    <3> QED BY <1>1, <3>2, <3>3, UnitsMember
  <2>3. ASSUME NEW p \in D PROVE p \in Units(h)
    <3>1. PICK i \in f[a] + 1 .. f[a] + k : p = <<a, i>>
      OBVIOUS
    <3>2. i \in 1 .. h[a]
      BY <1>1
    <3> QED BY <1>1, <3>1, <3>2, UnitsMember
  <2> QED BY <2>1, <2>2, <2>3
<1>3. Units(f) \cap D = {}
  <2> SUFFICES ASSUME NEW p \in Units(f), p \in D PROVE FALSE
    OBVIOUS
  <2>1. PICK x \in S : \E i \in 1 .. f[x] : p = <<x, i>>
    BY UnitsMember
  <2>2. PICK i \in 1 .. f[x] : p = <<x, i>>
    BY <2>1
  <2>3. PICK j \in f[a] + 1 .. f[a] + k : p = <<a, j>>
    OBVIOUS
  <2>4. x = a /\ i = j
    BY <2>2, <2>3
  <2> QED BY <2>4
<1>4. IsFiniteSet(D) /\ Cardinality(D) = k
  <2>1. f[a] + 1 \in Int /\ f[a] + k \in Int
    OBVIOUS
  <2>2. /\ IsFiniteSet(D)
        /\ Cardinality(D) = IF f[a] + 1 > f[a] + k THEN 0
                            ELSE (f[a] + k) - (f[a] + 1) + 1
    BY <2>1, Strip
  <2>3. (IF f[a] + 1 > f[a] + k THEN 0 ELSE (f[a] + k) - (f[a] + 1) + 1) = k
    OBVIOUS
  <2> QED BY <2>2, <2>3
<1>5. IsFiniteSet(Units(f)) /\ Total(f) \in Nat
  BY UnitsFinite
<1>6. Cardinality(Units(h)) = Cardinality(Units(f)) + Cardinality(D) - Cardinality({})
  BY <1>2, <1>3, <1>4, <1>5, FS_Union
<1> QED BY <1>4, <1>5, <1>6, FS_EmptySet DEF Total, h

\* k units taken from a are k less in total.
LEMMA TotalSub ==
  ASSUME NEW S, IsFiniteSet(S), NEW f \in [S -> Nat], NEW a \in S,
         NEW k \in Nat, k <= f[a]
  PROVE  Total([f EXCEPT ![a] = @ - k]) = Total(f) - k
<1> DEFINE g == [f EXCEPT ![a] = @ - k]
<1>1. g \in [S -> Nat]
  OBVIOUS
<1>2. f = [g EXCEPT ![a] = @ + k]
  <2>1. \A x \in S : [g EXCEPT ![a] = @ + k][x] = f[x]
    OBVIOUS
  <2>2. [g EXCEPT ![a] = @ + k] \in [S -> Nat]
    OBVIOUS
  <2> QED BY <2>1, <2>2
<1> HIDE DEF g
<1>3. Total([g EXCEPT ![a] = @ + k]) = Total(g) + k
  BY <1>1, TotalAdd
<1>4. Total(g) \in Nat
  BY <1>1, UnitsFinite
<1>5. Total(g) = Total(f) - k
  <2>1. Total(f) = Total(g) + k
    BY <1>2, <1>3
  <2>2. Total(f) \in Nat
    BY UnitsFinite
  <2> QED BY <2>1, <2>2, <1>4
<1> QED BY <1>1, <1>5 DEF g

-----------------------------------------------------------------------------
(* The wrappers                                                            *)

LEMMA Names ==
  /\ IsFiniteSet(Addr)
  /\ Addr \subseteq Accounts
  /\ Wrapper \in Addr /\ Wrapper \in Accounts
  /\ Wallet \in Accounts /\ Wallet # Wrapper
  /\ EOAs \subseteq Addr /\ Contracts \subseteq Addr /\ Fresh \subseteq Addr
  /\ Wrapper \notin EOAs \cup Contracts \cup Fresh
  /\ Funder \in Accounts /\ Funder # Wrapper
  BY AddrAssumption DEF Addr, Accounts

LEMMA Amounts ==
  /\ \A v \in Values : v \in Nat
  /\ \A v \in Nat : FitsU64(v) => U64(v) = v
  /\ Supply \in Nat
  /\ \A v \in Nat : Fees(v) \subseteq Nat /\ \A f \in Fees(v) : f <= v
<1>1. /\ U64Max \in Nat /\ MaxUint \in Nat /\ Supply \in 0 .. U64Max /\ MaxFee \in Nat
      /\ Values \subseteq 0 .. MaxUint
  BY NumberAssumption
<1>2. \A v \in Nat : FitsU64(v) => U64(v) = v
  BY <1>1 DEF FitsU64, U64
<1> QED BY <1>1, <1>2 DEF Fees

-----------------------------------------------------------------------------
(* One SPL transfer                                                        *)

\* What an SPL transfer does to the ATAs: src loses v, dst gains v - f.
LEMMA SplTransferEffect ==
  ASSUME TypeOK, NEW src \in Accounts, NEW dst \in Accounts, NEW v \in Nat,
         src \in Addr, SplTransfer(src, dst, v)
  PROVE  /\ splBal' \in [Accounts -> Nat]
         /\ grant' \in [Addr -> Nat]
         /\ \E f \in Nat :
              /\ f <= v /\ (f > 0 => feeBps > 0)
              /\ splBal[src] >= v
              /\ \A a \in Accounts :
                   splBal'[a] = splBal[a] - (IF a = src THEN v ELSE 0)
                                          + (IF a = dst THEN v - f ELSE 0)
<1> USE DEF TypeOK
<1>1. PICK f \in Fees(v) :
        splBal' = [[splBal EXCEPT ![src] = @ - v] EXCEPT ![dst] = @ + v - f]
  BY DEF SplTransfer
<1>2. f \in Nat /\ f <= v /\ (f > 0 => feeBps > 0)
  BY <1>1, Amounts DEF Fees
<1>3. splBal[src] >= v /\ splBal \in [Accounts -> Nat]
  BY DEF SplTransfer
<1>4. \A a \in Accounts :
        splBal'[a] = splBal[a] - (IF a = src THEN v ELSE 0)
                               + (IF a = dst THEN v - f ELSE 0)
  <2> DEFINE debited == [splBal EXCEPT ![src] = @ - v]
  <2>1. debited \in [Accounts -> Int]
    BY <1>3
  <2>2. \A a \in Accounts : debited[a] = splBal[a] - (IF a = src THEN v ELSE 0)
    BY <1>3
  <2>3. splBal' = [debited EXCEPT ![dst] = @ + v - f]
    BY <1>1
  <2> HIDE DEF debited
  <2>4. \A a \in Accounts :
          splBal'[a] = debited[a] + (IF a = dst THEN v - f ELSE 0)
    BY <1>2, <2>1, <2>3
  <2> QED BY <2>2, <2>4
<1>5. splBal' \in [Accounts -> Nat]
  <2>1. \A a \in Accounts : splBal'[a] \in Nat
    BY <1>2, <1>3, <1>4
  <2>2. splBal' = [a \in Accounts |-> splBal'[a]]
    BY <1>1, <1>3
  <2> QED BY <2>1, <2>2
<1>6. grant' \in [Addr -> Nat]
  <2>1. CASE src = Wrapper
    BY <2>1 DEF SplTransfer
  <2>2. CASE src # Wrapper
    <3>1. grant[src] >= v /\ grant[src] \in Nat
      BY <2>2 DEF SplTransfer
    <3>2. grant' = grant \/ grant' = [grant EXCEPT ![src] = @ - v]
      BY <2>2 DEF SplTransfer
    <3> QED BY <3>1, <3>2
  <2> QED BY <2>1, <2>2
<1> QED BY <1>2, <1>3, <1>4, <1>5, <1>6

-----------------------------------------------------------------------------
(* ATA creation                                                            *)

\* What the ATA steps have in common: no ATA goes away, and a flag that is
\* set belongs to an ATA that is there.
AtaStep ==
  /\ ataExists' \in [Accounts -> BOOLEAN]
  /\ ataCreated' \in [Addr -> BOOLEAN]
  /\ escrowAtaCreated' \in BOOLEAN
  /\ \A a \in Accounts : ataExists[a] => ataExists'[a]
  /\ AtaFlagSound => AtaFlagSound'

LEMMA AtaEffect ==
  ASSUME TypeOK, NEW a \in Addr,
         CreateAta(a) \/ EnsureAta(a) \/ ReceiverAta(a)
  PROVE  AtaStep
<1> USE Names DEF TypeOK, AtaStep, AtaFlagSound
<1>1. ASSUME CreateAta(a) PROVE AtaStep
  BY <1>1 DEF CreateAta
<1>2. ASSUME EnsureAta(a) PROVE AtaStep
  <2>1. CASE UNCHANGED <<ataExists, ataCreated, escrowAtaCreated>>
    BY <2>1
  <2>2. CASE /\ ~ataCreated[a] /\ ataExists[a]
             /\ ataCreated' = [ataCreated EXCEPT ![a] = TRUE]
             /\ UNCHANGED <<ataExists, escrowAtaCreated>>
    BY <2>2
  <2>3. CASE CreateAta(a)
    BY <2>3, <1>1
  <2> QED BY <1>2, <2>1, <2>2, <2>3 DEF EnsureAta
<1>3. ASSUME EnsureWrapperAta PROVE AtaStep
  BY <1>3 DEF EnsureWrapperAta
<1> QED BY <1>1, <1>2, <1>3 DEF ReceiverAta

-----------------------------------------------------------------------------
(* _transfer                                                               *)

\* The whole of a transfer, on either track: it keeps the types and the
\* flags, and books never gain more than the wrapper's ATA does.
TransferStep ==
  /\ splBal' \in [Accounts -> Nat]
  /\ grant' \in [Addr -> Nat]
  /\ escrow' \in [Addr -> Nat]
  /\ AtaStep
  /\ Total(escrow) <= splBal[Wrapper] => Total(escrow') <= splBal'[Wrapper]

LEMMA LedgerEffect ==
  ASSUME TypeOK, NEW from \in Addr, NEW to \in Addr, NEW v \in Nat,
         LedgerTransfer(from, to, v)
  PROVE  TransferStep
<1> DEFINE e1_ == [escrow EXCEPT ![from] = @ - v]
<1>1. escrow \in [Addr -> Nat] /\ v <= escrow[from] /\ IsFiniteSet(Addr)
  BY Names DEF TypeOK, LedgerTransfer
<1>2. e1_ \in [Addr -> Nat] /\ Total(e1_) = Total(escrow) - v
  <2>1. e1_ \in [Addr -> Nat]
    BY <1>1
  <2>2. Total(e1_) = Total(escrow) - v
    BY <1>1, TotalSub
  <2> QED BY <2>1, <2>2
<1>3. escrow' = [e1_ EXCEPT ![to] = @ + v]
  BY DEF LedgerTransfer
<1> HIDE DEF e1_
<1>4. escrow' \in [Addr -> Nat] /\ Total(escrow') = Total(e1_) + v
  <2>1. [e1_ EXCEPT ![to] = @ + v] \in [Addr -> Nat]
    BY <1>2
  <2>2. Total([e1_ EXCEPT ![to] = @ + v]) = Total(e1_) + v
    <3>1. IsFiniteSet(Addr) /\ e1_ \in [Addr -> Nat]
      BY <1>1, <1>2
    <3> QED BY <3>1, TotalAdd
  <2> QED BY <2>1, <2>2, <1>3
<1>5. Total(escrow) \in Nat
  BY <1>1, UnitsFinite
<1>6. Total(escrow') = Total(escrow)
  BY <1>2, <1>4, <1>5
<1>7. UNCHANGED <<splBal, ataExists, grant, ataCreated, escrowAtaCreated>>
  BY DEF LedgerTransfer
<1>8. AtaStep
  BY <1>7 DEF AtaStep, TypeOK, AtaFlagSound
<1> QED BY <1>4, <1>6, <1>7, <1>8 DEF TransferStep, TypeOK

\* The tokens of an address without code are in its own ATA, those of one
\* with code in the wrapper's.
LEMMA HomeOf ==
  ASSUME TypeOK, code[Wrapper], NEW a \in Addr
  PROVE  Home(a) \in Addr /\ (Home(a) = Wrapper <=> code[a])
  BY Names DEF Home, TypeOK

LEMMA BackedEffect ==
  ASSUME TypeOK, code[Wrapper], NEW from \in Addr, NEW to \in Addr, NEW v \in Nat,
         SplBacked(from, to, v), ReceiverAta(to),
         SplTransfer(Home(from), Home(to), v), BookTransfer(from, to, v)
  PROVE  TransferStep
<1>1. /\ Home(from) \in Addr /\ Home(to) \in Addr
      /\ (Home(from) = Wrapper <=> code[from]) /\ (Home(to) = Wrapper <=> code[to])
  BY HomeOf
<1>2. /\ splBal' \in [Accounts -> Nat] /\ grant' \in [Addr -> Nat]
      /\ \E f \in Nat :
           /\ f <= v /\ (f > 0 => feeBps > 0)
           /\ splBal[Home(from)] >= v
           /\ \A a \in Accounts :
                splBal'[a] = splBal[a] - (IF a = Home(from) THEN v ELSE 0)
                                       + (IF a = Home(to) THEN v - f ELSE 0)
  BY <1>1, Names, SplTransferEffect
<1>3. PICK f \in Nat :
        /\ f <= v /\ (f > 0 => feeBps > 0)
        /\ splBal[Home(from)] >= v
        /\ \A a \in Accounts :
             splBal'[a] = splBal[a] - (IF a = Home(from) THEN v ELSE 0)
                                    + (IF a = Home(to) THEN v - f ELSE 0)
  BY <1>2
<1>4. AtaStep
  BY AtaEffect
<1>5. /\ escrow \in [Addr -> Nat] /\ IsFiniteSet(Addr) /\ Total(escrow) \in Nat
      /\ splBal[Wrapper] \in Nat /\ Wrapper \in Accounts
  BY Names, UnitsFinite DEF TypeOK
<1>6. CASE code[from] /\ ~code[to]
  <2>1. escrow' = [escrow EXCEPT ![from] = @ - v] /\ v <= escrow[from]
    BY <1>6 DEF BookTransfer, SplBacked
  <2>2. escrow' \in [Addr -> Nat] /\ Total(escrow') = Total(escrow) - v
    <3>1. [escrow EXCEPT ![from] = @ - v] \in [Addr -> Nat]
      BY <1>5, <2>1
    <3>2. Total([escrow EXCEPT ![from] = @ - v]) = Total(escrow) - v
      BY <1>5, <2>1, TotalSub
    <3> QED BY <2>1, <3>1, <3>2
  <2>3. splBal'[Wrapper] = splBal[Wrapper] - v
    BY <1>1, <1>3, <1>5, <1>6
  <2> QED BY <1>2, <1>4, <1>5, <2>2, <2>3 DEF TransferStep
<1>7. CASE ~code[from] /\ code[to]
  <2>1. splBal'[Wrapper] = splBal[Wrapper] + v - f
    BY <1>1, <1>3, <1>5, <1>7
  <2>2. Delivered(from, to, v) = v - f
    <3>1. Home(to) = Wrapper /\ to # from
      BY <1>1, <1>7
    <3>2. CASE ~(FeeCapable /\ feeBps > 0)
      <4>1. f = 0
        BY <1>3, <3>2 DEF TypeOK
      <4> QED BY <3>2, <4>1 DEF Delivered
    <3>3. CASE FeeCapable /\ feeBps > 0
      BY <1>5, <2>1, <3>1, <3>3 DEF Delivered
    <3> QED BY <3>2, <3>3
  <2>3. escrow' = [escrow EXCEPT ![to] = @ + (v - f)]
    BY <1>7, <2>2 DEF BookTransfer
  <2>4. v - f \in Nat
    BY <1>3
  <2>5. escrow' \in [Addr -> Nat] /\ Total(escrow') = Total(escrow) + (v - f)
    <3> DEFINE d == v - f
    <3>1. d \in Nat /\ escrow' = [escrow EXCEPT ![to] = @ + d]
      BY <2>3, <2>4
    <3> HIDE DEF d
    <3>2. [escrow EXCEPT ![to] = @ + d] \in [Addr -> Nat]
      BY <1>5, <3>1
    <3>3. Total([escrow EXCEPT ![to] = @ + d]) = Total(escrow) + d
      BY <1>5, <3>1, TotalAdd
    <3> QED BY <3>1, <3>2, <3>3 DEF d
  <2> QED BY <1>2, <1>3, <1>4, <1>5, <2>1, <2>5 DEF TransferStep
<1>8. CASE ~code[from] /\ ~code[to]
  <2>1. escrow' = escrow
    BY <1>8 DEF BookTransfer
  <2>2. splBal'[Wrapper] = splBal[Wrapper]
    BY <1>1, <1>3, <1>5, <1>8
  <2> QED BY <1>2, <1>4, <1>5, <2>1, <2>2 DEF TransferStep
<1> QED BY <1>6, <1>7, <1>8 DEF SplBacked

LEMMA MoveEffect ==
  ASSUME TypeOK, code[Wrapper], NEW from \in Addr, NEW to \in Addr, NEW v \in Nat,
         MoveTokens(from, to, v)
  PROVE  TransferStep
<1>1. CASE LedgerTransfer(from, to, v)
  BY <1>1, LedgerEffect
<1>2. CASE /\ SplBacked(from, to, v) /\ ReceiverAta(to)
           /\ SplTransfer(Home(from), Home(to), v) /\ BookTransfer(from, to, v)
  BY <1>2, BackedEffect
<1>3. FitsU64(v) => U64(v) = v
  BY Amounts
<1> QED BY <1>1, <1>2, <1>3 DEF MoveTokens, TransferCpi, TransferCached
-----------------------------------------------------------------------------
(* The inductive invariant                                                 *)

\* Whatever moves tokens like a transfer, inside or outside a frame, keeps
\* the invariant.
LEMMA CallKeepsInv ==
  ASSUME IInv, TransferStep, UNCHANGED <<feeBps, code, saved, torn>>,
         allowances' \in [Addr -> [Addr -> Nat]], calls' \in Nat, by' \in Accounts
  PROVE  IInv'
<1>1. TypeOK'
  BY DEF IInv, TypeOK, TransferStep, AtaStep, Snapshots
<1>2. EscrowSolvent'
  BY DEF IInv, EscrowSolvent, TransferStep
<1>3. AtaFlagSound'
  BY DEF IInv, TransferStep, AtaStep
<1>4. SavedSound'
  BY Names DEF IInv, SavedSound, TransferStep, AtaStep
<1> QED BY <1>1, <1>2, <1>3, <1>4 DEF IInv

LEMMA CalledTypes ==
  ASSUME TypeOK, NEW s \in Addr, Called(s)
  PROVE  /\ calls' \in Nat /\ by' \in Accounts /\ UNCHANGED <<saved, torn>>
         /\ s # Wrapper
  BY Names DEF Called, Caller, TypeOK

\* A step that leaves tokens and books alone, and whose ATA part is sound.
LEMMA QuietStep ==
  ASSUME TypeOK, AtaStep, UNCHANGED <<splBal, escrow>>, grant' \in [Addr -> Nat]
  PROVE  TransferStep
  BY DEF TypeOK, TransferStep

LEMMA NoAtaStep ==
  ASSUME TypeOK, UNCHANGED <<ataExists, ataCreated, escrowAtaCreated>>
  PROVE  AtaStep
  BY DEF TypeOK, AtaStep, AtaFlagSound

LEMMA InvInit == Init => IInv
<1> SUFFICES ASSUME Init PROVE IInv
  OBVIOUS
<1>1. TypeOK
  <2>1. splBal \in [Accounts -> Nat] /\ ataExists \in [Accounts -> BOOLEAN]
    BY Amounts DEF Init
  <2>2. grant \in [Addr -> Nat] /\ code \in [Addr -> BOOLEAN]
    BY DEF Init
  <2>3. escrow \in [Addr -> Nat] /\ ataCreated \in [Addr -> BOOLEAN]
    BY DEF Init
  <2>4. allowances \in [Addr -> [Addr -> Nat]]
    BY DEF Init
  <2>5. /\ feeBps \in {0, 1} /\ (feeBps = 1 => FeeCapable)
        /\ calls \in Nat
    BY DEF Init
  <2>7. escrowAtaCreated \in BOOLEAN /\ torn \in BOOLEAN
    BY DEF Init
  <2>6. saved \in Snapshots \cup {NoFrame} /\ by \in Accounts
    BY Names DEF Init
  <2> QED BY <2>1, <2>2, <2>3, <2>4, <2>5, <2>6, <2>7 DEF TypeOK
<1>2. code[Wrapper] /\ AtaFlagSound /\ SavedSound
  BY Names DEF Init, AtaFlagSound, SavedSound
<1>3. EscrowSolvent
  <2>1. Total(escrow) = 0
    BY TotalZero DEF Init
  <2> QED BY <1>1, <2>1, Names DEF EscrowSolvent, TypeOK
<1> QED BY <1>1, <1>2, <1>3 DEF IInv

LEMMA InvNext == IInv /\ [Next]_vars => IInv'
<1> SUFFICES ASSUME IInv, [Next]_vars PROVE IInv'
  OBVIOUS
<1>0. TypeOK /\ code[Wrapper]
  BY DEF IInv
<1>1. ASSUME NEW s \in Addr, NEW to \in Addr, NEW v \in Values, Transfer(s, to, v)
      PROVE  IInv'
  <2>1. v \in Nat
    BY Amounts
  <2>2. TransferStep
    BY <1>0, <1>1, <2>1, MoveEffect DEF Transfer
  <2>3. calls' \in Nat /\ by' \in Accounts /\ UNCHANGED <<saved, torn>>
    BY <1>0, <1>1, CalledTypes DEF Transfer
  <2>4. UNCHANGED <<feeBps, code>> /\ allowances' \in [Addr -> [Addr -> Nat]]
    BY <1>0, <1>1 DEF Transfer, TypeOK
  <2> QED BY <2>2, <2>3, <2>4, CallKeepsInv
<1>2. ASSUME NEW s \in Addr, NEW from \in Addr, NEW to \in Addr, NEW v \in Values,
             TransferFrom(s, from, to, v)
      PROVE  IInv'
  <2>1. v \in Nat
    BY Amounts
  <2>2. TransferStep
    BY <1>0, <1>2, <2>1, MoveEffect DEF TransferFrom
  <2>3. calls' \in Nat /\ by' \in Accounts /\ UNCHANGED <<saved, torn>>
    BY <1>0, <1>2, CalledTypes DEF TransferFrom
  <2>4. allowances' \in [Addr -> [Addr -> Nat]]
    <3>1. allowances \in [Addr -> [Addr -> Nat]]
      BY <1>0 DEF TypeOK
    <3>2. CASE allowances[from][s] = MaxUint
      BY <1>2, <3>1, <3>2 DEF TransferFrom, SpendAllowance
    <3>3. CASE allowances[from][s] # MaxUint
      <4>1. /\ allowances[from][s] >= v
            /\ allowances' = [allowances EXCEPT ![from][s] = @ - v]
        BY <1>2, <3>3 DEF TransferFrom, SpendAllowance
      <4>2. allowances[from][s] - v \in Nat
        BY <2>1, <3>1, <4>1
      <4> QED BY <3>1, <4>1, <4>2
    <3> QED BY <3>2, <3>3
  <2>5. UNCHANGED <<feeBps, code>>
    BY <1>2 DEF TransferFrom
  <2> QED BY <2>2, <2>3, <2>4, <2>5, CallKeepsInv
<1>3. ASSUME NEW s \in Addr, NEW spender \in Addr, NEW v \in Values,
             Approve(s, spender, v)
      PROVE  IInv'
  <2>1. calls' \in Nat /\ by' \in Accounts /\ UNCHANGED <<saved, torn>>
    BY <1>0, <1>3, CalledTypes DEF Approve
  <2>2. allowances' \in [Addr -> [Addr -> Nat]]
    BY <1>0, <1>3, Amounts DEF Approve, TypeOK
  <2>3. UNCHANGED <<splBal, ataExists, grant, feeBps, code, escrow, ataCreated,
                    escrowAtaCreated>>
    BY <1>3 DEF Approve, solana
  <2>4. TransferStep
    BY <1>0, <2>3, NoAtaStep, QuietStep DEF TypeOK
  <2> QED BY <2>1, <2>2, <2>3, <2>4, CallKeepsInv
<1>4. ASSUME NEW s \in Addr, NEW a \in Addr,
             CreateTokenAccount(s, a) \/ EnsureTokenAccount(s, a)
      PROVE  IInv'
  <2>1. calls' \in Nat /\ by' \in Accounts /\ UNCHANGED <<saved, torn>>
    BY <1>0, <1>4, CalledTypes DEF CreateTokenAccount, EnsureTokenAccount
  <2>2. UNCHANGED <<splBal, grant, feeBps, code, escrow, allowances>>
    BY <1>4 DEF CreateTokenAccount, EnsureTokenAccount
  <2>3. AtaStep
    BY <1>0, <1>4, AtaEffect DEF CreateTokenAccount, EnsureTokenAccount
  <2>4. TransferStep
    BY <1>0, <2>2, <2>3, QuietStep DEF TypeOK
  <2>5. allowances' \in [Addr -> [Addr -> Nat]]
    BY <1>0, <2>2 DEF TypeOK
  <2> QED BY <2>1, <2>2, <2>4, <2>5, CallKeepsInv
<1>5. ASSUME NEW s \in Addr, NEW v \in Values, BridgeOutToSolana(s, v)
      PROVE  IInv'
  <2>1. /\ calls' \in Nat /\ by' \in Accounts /\ UNCHANGED <<saved, torn>>
        /\ s # Wrapper
    BY <1>0, <1>5, CalledTypes DEF BridgeOutToSolana
  <2>2. UNCHANGED <<feeBps, code, escrow, allowances, ataCreated, escrowAtaCreated>>
    BY <1>5 DEF BridgeOutToSolana, evm
  <2>3. v \in Nat /\ SplTransfer(s, Wallet, v)
    BY <1>5, Amounts DEF BridgeOutToSolana
  <2>4. /\ splBal' \in [Accounts -> Nat] /\ grant' \in [Addr -> Nat]
        /\ \E f \in Nat :
             /\ f <= v /\ (f > 0 => feeBps > 0)
             /\ splBal[s] >= v
             /\ \A a \in Accounts :
                  splBal'[a] = splBal[a] - (IF a = s THEN v ELSE 0)
                                         + (IF a = Wallet THEN v - f ELSE 0)
    BY <1>0, <2>3, Names, SplTransferEffect
  <2>5. splBal'[Wrapper] = splBal[Wrapper]
    BY <1>0, <2>1, <2>4, Names DEF TypeOK
  <2>6. AtaStep
    BY <1>0, <1>5, <2>2, Names DEF BridgeOutToSolana, AtaStep, TypeOK, AtaFlagSound
  <2>7. TransferStep
    BY <1>0, <2>2, <2>4, <2>5, <2>6 DEF TransferStep, TypeOK
  <2>8. allowances' \in [Addr -> [Addr -> Nat]]
    BY <1>0, <2>2 DEF TypeOK
  <2> QED BY <2>1, <2>2, <2>7, <2>8, CallKeepsInv
<1>6. ASSUME NEW s \in Addr, EnsureRecipientAta(s)
      PROVE  IInv'
  <2>1. calls' \in Nat /\ by' \in Accounts /\ UNCHANGED <<saved, torn>>
    BY <1>0, <1>6, CalledTypes DEF EnsureRecipientAta
  <2>2. UNCHANGED <<splBal, grant, feeBps, code, escrow, allowances, ataCreated,
                    escrowAtaCreated>>
    BY <1>6 DEF EnsureRecipientAta, evm
  <2>3. AtaStep
    BY <1>0, <1>6, <2>2, Names DEF EnsureRecipientAta, AtaStep, TypeOK, AtaFlagSound
  <2>4. TransferStep
    BY <1>0, <2>2, <2>3, QuietStep DEF TypeOK
  <2>5. allowances' \in [Addr -> [Addr -> Nat]]
    BY <1>0, <2>2 DEF TypeOK
  <2> QED BY <2>1, <2>2, <2>4, <2>5, CallKeepsInv
<1>7. CASE Open
  <2>1. /\ saved' = Snapshot
        /\ UNCHANGED <<splBal, ataExists, grant, feeBps, code, escrow, allowances,
                       ataCreated, escrowAtaCreated, calls, by, torn>>
    BY <1>7 DEF Open, solana, evm
  <2>2. Snapshot \in Snapshots
    BY <1>0 DEF Snapshot, Snapshots, TypeOK
  <2>3. TypeOK'
    BY <1>0, <2>1, <2>2 DEF TypeOK
  <2>4. SavedSound'
    BY <2>1 DEF IInv, SavedSound, Snapshot, EscrowSolvent, AtaFlagSound
  <2> QED BY <2>1, <2>3, <2>4 DEF IInv, EscrowSolvent, AtaFlagSound
<1>8. CASE Commit
  <2>1. /\ saved' = NoFrame /\ calls' = 0
        /\ UNCHANGED <<splBal, ataExists, grant, feeBps, code, escrow, allowances,
                       ataCreated, escrowAtaCreated, by, torn>>
    BY <1>8 DEF Commit, solana, evm
  <2> QED BY <2>1 DEF IInv, TypeOK, EscrowSolvent, AtaFlagSound, SavedSound
<1>9. CASE Rollback
  <2>1. /\ saved \in Snapshots /\ saved # NoFrame
        /\ saved' = NoFrame /\ calls' = 0 /\ UNCHANGED <<feeBps, by>>
        /\ code' = saved.code /\ escrow' = saved.escrow
        /\ allowances' = saved.allowances /\ ataCreated' = saved.ataCreated
        /\ escrowAtaCreated' = saved.escrowAtaCreated
    BY <1>0, <1>9 DEF Rollback, TypeOK
  <2>2. SavedSound
    BY DEF IInv
  <2>3. CASE torn' = TRUE /\ UNCHANGED solana
    <3>1. torn' /\ UNCHANGED <<splBal, ataExists, grant>>
      BY <2>3 DEF solana
    <3>2. TypeOK'
      BY <1>0, <2>1, <3>1 DEF TypeOK, Snapshots
    <3>3. AtaFlagSound'
      BY <2>1, <2>2, <3>1, Names DEF AtaFlagSound, SavedSound
    <3> QED BY <2>1, <2>2, <3>1, <3>2, <3>3 DEF IInv, EscrowSolvent, SavedSound
  <2>4. CASE /\ splBal' = saved.splBal /\ ataExists' = saved.ataExists
             /\ grant' = saved.grant /\ torn' = torn
    <3>1. /\ splBal' = saved.splBal /\ ataExists' = saved.ataExists
          /\ grant' = saved.grant /\ torn' = torn
      BY <2>4
    <3>2. TypeOK'
      BY <1>0, <2>1, <3>1 DEF TypeOK, Snapshots
    <3>3. AtaFlagSound'
      BY <2>1, <2>2, <3>1 DEF AtaFlagSound, SavedSound
    <3> QED BY <2>1, <2>2, <3>1, <3>2, <3>3 DEF IInv, EscrowSolvent, SavedSound
  <2> QED BY <1>9, <2>3, <2>4 DEF Rollback
<1>10. ASSUME NEW a \in Fresh, Deploy(a)
       PROVE  IInv'
  <2>1. /\ code' = [code EXCEPT ![a] = TRUE]
        /\ UNCHANGED <<splBal, ataExists, grant, feeBps, escrow, allowances,
                       ataCreated, escrowAtaCreated, saved, calls, by, torn>>
    BY <1>10 DEF Deploy, solana
  <2>2. TypeOK'
    BY <1>0, <2>1 DEF TypeOK
  <2>3. code'[Wrapper]
    BY <1>0, <2>1, Names DEF TypeOK
  <2> QED BY <2>1, <2>2, <2>3 DEF IInv, EscrowSolvent, AtaFlagSound, SavedSound
<1>11. ASSUME NEW a \in EOAs, NEW n \in Values \cup {0}, ApproveSpl(a, n)
       PROVE  IInv'
  <2>1. /\ grant' = [grant EXCEPT ![a] = n] /\ n \in Nat
        /\ UNCHANGED <<splBal, ataExists, feeBps, code, escrow, allowances,
                       ataCreated, escrowAtaCreated, saved, calls, by, torn>>
    BY <1>11, Amounts DEF ApproveSpl, evm
  <2>2. TypeOK'
    BY <1>0, <2>1 DEF TypeOK
  <2> QED BY <2>1, <2>2 DEF IInv, EscrowSolvent, AtaFlagSound, SavedSound
<1>12. ASSUME NEW a \in Accounts, NEW b \in Payees, NEW v \in Values,
              OwnerMoves(a, b, v)
       PROVE  IInv'
  <2>1. /\ UNCHANGED <<grant, feeBps, code, escrow, allowances, ataCreated,
                       escrowAtaCreated, saved, calls, torn>>
        /\ by' = a /\ saved = NoFrame
        /\ ataExists' = [ataExists EXCEPT ![b] = TRUE]
        /\ v \in Nat /\ v <= splBal[a] /\ a # Wrapper /\ b \in Accounts
    BY <1>12, Amounts, Names, NumberAssumption DEF OwnerMoves, evm
  <2>2. PICK f \in Fees(v) :
          splBal' = [[splBal EXCEPT ![a] = @ - v] EXCEPT ![b] = @ + v - f]
    BY <1>12 DEF OwnerMoves
  <2>3. f \in Nat /\ f <= v
    BY <2>1, <2>2, Amounts
  <2>4. splBal' \in [Accounts -> Nat] /\ splBal'[Wrapper] >= splBal[Wrapper]
    <3> DEFINE debited == [splBal EXCEPT ![a] = @ - v]
    <3>1. debited \in [Accounts -> Nat] /\ debited[Wrapper] = splBal[Wrapper]
      BY <1>0, <2>1, Names DEF TypeOK
    <3>2. splBal' = [debited EXCEPT ![b] = @ + v - f]
      BY <2>2
    <3> HIDE DEF debited
    <3>3. \A x \in Accounts : debited[x] + v - f \in Nat /\ debited[x] + v - f >= debited[x]
      BY <2>1, <2>3, <3>1
    <3>4. splBal' \in [Accounts -> Nat]
      BY <2>1, <3>1, <3>2, <3>3
    <3>5. splBal'[Wrapper] >= debited[Wrapper]
      BY <2>1, <3>1, <3>2, <3>3, Names
    <3> QED BY <3>1, <3>4, <3>5
  <2>5. TypeOK'
    BY <1>0, <2>1, <2>4 DEF TypeOK
  <2>6. EscrowSolvent'
    <3>1. escrow \in [Addr -> Nat] /\ IsFiniteSet(Addr) /\ Total(escrow) \in Nat
      BY <1>0, Names, UnitsFinite DEF TypeOK
    <3>2. splBal[Wrapper] \in Nat /\ splBal'[Wrapper] \in Nat
      BY <1>0, <2>4, Names DEF TypeOK
    <3> QED BY <2>1, <2>4, <3>1, <3>2 DEF IInv, EscrowSolvent
  <2>7. AtaFlagSound' /\ SavedSound'
    BY <1>0, <2>1, Names DEF IInv, AtaFlagSound, SavedSound, TypeOK
  <2> QED BY <2>1, <2>5, <2>6, <2>7 DEF IInv
<1>13. ASSUME NEW n \in {0, 1}, SetFee(n)
       PROVE  IInv'
  <2>1. /\ feeBps' = n /\ FeeCapable
        /\ UNCHANGED <<splBal, ataExists, grant, code, escrow, allowances,
                       ataCreated, escrowAtaCreated, saved, calls, by, torn>>
    BY <1>13 DEF SetFee, solana, evm
  <2>2. TypeOK'
    BY <1>0, <2>1 DEF TypeOK
  <2> QED BY <2>1, <2>2 DEF IInv, EscrowSolvent, AtaFlagSound, SavedSound
<1>14. CASE UNCHANGED vars
  BY <1>14 DEF vars, solana, evm, IInv, TypeOK, EscrowSolvent, AtaFlagSound, SavedSound
<1>15. \A p \in Pairs : p[1] \in Addr /\ p[2] \in Addr
  BY NumberAssumption
<1>16. Fresh \subseteq Addr /\ Payees \cap Addr \subseteq Addr
  BY Names
<1> QED BY <1>1, <1>2, <1>3, <1>4, <1>5, <1>6, <1>7, <1>8, <1>9, <1>10, <1>11, <1>12,
           <1>13, <1>14, <1>15, <1>16 DEF Next

LEMMA Invariant == Spec => []IInv
  BY InvInit, InvNext, PTL DEF Spec

\* The state always has its types: no balance, grant, allowance or book ever
\* goes below zero, on either track (the checked subtractions of _transfer
\* and the unchecked one of _spendAllowance never wrap).
THEOREM TypeCorrect == Spec => []TypeOK
  BY Invariant, PTL DEF IInv

\* For any set of users and contracts, any supply and any fee: what the
\* wrapper's books promise is in the wrapper's ATA, as long as no frame of
\* the CPI track has been rolled back.
THEOREM Solvent == Spec => []EscrowSolvent
  BY Invariant, PTL DEF IInv

\* A set flag of _ataCreated or _escrowAtaCreated always names an ATA that
\* exists, through every rollback of either track.
THEOREM FlagsSound == Spec => []AtaFlagSound
  BY Invariant, PTL DEF IInv
-----------------------------------------------------------------------------
(* What a step does to the balances users see                              *)

LEMMA BalanceTypes ==
  ASSUME TypeOK
  PROVE  \A a \in Addr : BalanceOf(a) \in Nat
  BY Names DEF TypeOK, BalanceOf

\* A transfer takes v from the balance of one address and books d of it for
\* another; the mint keeps the rest.
Moved(from, to, v, d) ==
  /\ BalanceOf(from) >= v
  /\ \A a \in Addr : BalanceOf(a)' = BalanceOf(a) - (IF a = from THEN v ELSE 0)
                                                 + (IF a = to THEN d ELSE 0)

LEMMA LedgerMoves ==
  ASSUME TypeOK, UNCHANGED code, NEW from \in Addr, NEW to \in Addr, NEW v \in Nat,
         LedgerTransfer(from, to, v)
  PROVE  Moved(from, to, v, v)
<1>1. /\ code[from] /\ code[to] /\ escrow[from] >= v /\ UNCHANGED <<splBal, code>>
      /\ escrow' = [[escrow EXCEPT ![from] = @ - v] EXCEPT ![to] = @ + v]
      /\ escrow \in [Addr -> Nat]
  BY DEF LedgerTransfer, TypeOK
<1>2. \A a \in Addr : escrow'[a] = escrow[a] - (IF a = from THEN v ELSE 0)
                                            + (IF a = to THEN v ELSE 0)
  BY <1>1
<1>3. ASSUME NEW a \in Addr
      PROVE  BalanceOf(a)' = BalanceOf(a) - (IF a = from THEN v ELSE 0)
                                          + (IF a = to THEN v ELSE 0)
  <2>1. CASE code[a]
    BY <1>1, <1>2, <2>1 DEF BalanceOf
  <2>2. CASE ~code[a]
    <3>1. a # from /\ a # to /\ splBal[a] \in Nat
      BY <1>1, <2>2, Names DEF TypeOK
    <3> QED BY <1>1, <2>2, <3>1 DEF BalanceOf
  <2> QED BY <2>1, <2>2
<1> QED BY <1>1, <1>3 DEF Moved, BalanceOf

LEMMA BackedMoves ==
  ASSUME TypeOK, code[Wrapper], UNCHANGED code,
         NEW from \in Addr, NEW to \in Addr, NEW v \in Nat, SplBacked(from, to, v),
         SplTransfer(Home(from), Home(to), v), BookTransfer(from, to, v)
  PROVE  \E d \in 0 .. v : Moved(from, to, v, d)
<1>1. /\ Home(from) \in Addr /\ Home(to) \in Addr
      /\ (Home(from) = Wrapper <=> code[from]) /\ (Home(to) = Wrapper <=> code[to])
      /\ (~code[from] => Home(from) = from) /\ (~code[to] => Home(to) = to)
  BY HomeOf DEF Home
<1>2. PICK f \in Nat :
        /\ f <= v /\ (f > 0 => feeBps > 0)
        /\ splBal[Home(from)] >= v
        /\ \A a \in Accounts :
             splBal'[a] = splBal[a] - (IF a = Home(from) THEN v ELSE 0)
                                    + (IF a = Home(to) THEN v - f ELSE 0)
  BY <1>1, Names, SplTransferEffect
<1>3. v - f \in 0 .. v
  BY <1>2
<1>4. /\ escrow \in [Addr -> Nat] /\ splBal \in [Accounts -> Nat]
      /\ Addr \subseteq Accounts
  BY Names DEF TypeOK
<1>5. \A a \in Addr : ~code[a] =>
        splBal'[a] = splBal[a] - (IF a = from THEN (IF code[from] THEN 0 ELSE v) ELSE 0)
                               + (IF a = to THEN (IF code[to] THEN 0 ELSE v - f) ELSE 0)
  <2> SUFFICES ASSUME NEW a \in Addr, ~code[a]
               PROVE  splBal'[a] = splBal[a]
                        - (IF a = from THEN (IF code[from] THEN 0 ELSE v) ELSE 0)
                        + (IF a = to THEN (IF code[to] THEN 0 ELSE v - f) ELSE 0)
    OBVIOUS
  <2>1. (a = Home(from) <=> a = from) /\ (a = Home(to) <=> a = to)
    BY <1>1
  <2> QED BY <1>2, <1>4, <2>1
<1>6. CASE code[from] /\ ~code[to]
  <2>1. escrow' = [escrow EXCEPT ![from] = @ - v] /\ v <= escrow[from]
    BY <1>6 DEF BookTransfer, SplBacked
  <2>2. \A a \in Addr : code[a] =>
          escrow'[a] = escrow[a] - (IF a = from THEN v ELSE 0)
    BY <1>4, <2>1
  <2>3. Moved(from, to, v, v - f)
    BY <1>2, <1>4, <1>5, <1>6, <2>1, <2>2 DEF Moved, BalanceOf
  <2> QED BY <1>3, <2>3
<1>7. CASE ~code[from] /\ code[to]
  <2>1. escrow' = [escrow EXCEPT ![to] = @ + Delivered(from, to, v)] /\ to # from
    BY <1>7 DEF BookTransfer
  <2>2. splBal'[Wrapper] - splBal[Wrapper] = v - f
    BY <1>1, <1>2, <1>4, <1>7, Names
  <2>3. Delivered(from, to, v) = v - f
    <3>1. CASE FeeCapable /\ feeBps > 0
      BY <1>1, <1>7, <2>1, <2>2, <3>1 DEF Delivered
    <3>2. CASE ~(FeeCapable /\ feeBps > 0)
      <4>1. f = 0
        BY <1>2, <3>2 DEF TypeOK
      <4> QED BY <3>2, <4>1 DEF Delivered
    <3> QED BY <3>1, <3>2
  <2>4. \A a \in Addr : code[a] =>
          escrow'[a] = escrow[a] + (IF a = to THEN v - f ELSE 0)
    BY <1>3, <1>4, <2>1, <2>3
  <2>5. splBal[from] >= v
    BY <1>1, <1>2, <1>7
  <2>6. Moved(from, to, v, v - f)
    BY <1>2, <1>4, <1>5, <1>7, <2>4, <2>5 DEF Moved, BalanceOf
  <2> QED BY <1>3, <2>6
<1>8. CASE ~code[from] /\ ~code[to]
  <2>1. escrow' = escrow
    BY <1>8 DEF BookTransfer
  <2>2. splBal[from] >= v
    BY <1>1, <1>2, <1>8
  <2>3. Moved(from, to, v, v - f)
    BY <1>2, <1>4, <1>5, <1>8, <2>1, <2>2 DEF Moved, BalanceOf
  <2> QED BY <1>3, <2>3
<1> QED BY <1>6, <1>7, <1>8 DEF SplBacked

\* On either track, and under any fee.
LEMMA MoveBalances ==
  ASSUME TypeOK, code[Wrapper], UNCHANGED code,
         NEW from \in Addr, NEW to \in Addr, NEW v \in Nat, MoveTokens(from, to, v)
  PROVE  \E d \in 0 .. v : Moved(from, to, v, d)
<1>1. CASE LedgerTransfer(from, to, v)
  BY <1>1, LedgerMoves
<1>2. CASE /\ SplBacked(from, to, v)
           /\ SplTransfer(Home(from), Home(to), v) /\ BookTransfer(from, to, v)
  BY <1>2, BackedMoves
<1>3. FitsU64(v) => U64(v) = v
  BY Amounts
<1> QED BY <1>1, <1>2, <1>3 DEF MoveTokens, TransferCpi, TransferCached

-----------------------------------------------------------------------------
(* Who may lower a balance                                                 *)

\* The step-by-step form of DebitsAuthorized.
Authorized ==
  \A a \in Addr : LossOf(a) > 0 => (by' = a \/ allowances[a][by'] >= LossOf(a))

LEMMA KeptIsAuthorized ==
  ASSUME TypeOK, UNCHANGED <<splBal, escrow, code>>
  PROVE  Authorized
<1> SUFFICES ASSUME NEW a \in Addr PROVE ~(LossOf(a) > 0)
  BY DEF Authorized
<1>1. BalanceOf(a)' = BalanceOf(a) /\ BalanceOf(a) \in Nat
  BY BalanceTypes DEF BalanceOf
<1> QED BY <1>1 DEF LossOf

LEMMA MovedIsAuthorized ==
  ASSUME TypeOK, NEW from \in Addr, NEW to \in Addr, NEW v \in Nat, NEW d \in 0 .. v,
         Moved(from, to, v, d), by' = from \/ allowances[from][by'] >= v, by' \in Addr
  PROVE  Authorized
<1> SUFFICES ASSUME NEW a \in Addr, LossOf(a) > 0
             PROVE  by' = a \/ allowances[a][by'] >= LossOf(a)
  BY DEF Authorized
<1>1. BalanceOf(a) \in Nat
  BY BalanceTypes
<1>2. LossOf(a) = (IF a = from THEN v ELSE 0) - (IF a = to THEN d ELSE 0)
  BY <1>1 DEF LossOf, Moved
<1>3. a = from /\ LossOf(a) <= v /\ LossOf(a) \in Int
  BY <1>2
<1>4. allowances[a][by'] \in Nat
  BY DEF TypeOK
<1> QED BY <1>3, <1>4

\* A direct payment by the owner of an ATA takes from nobody else's.
LEMMA OwnerPays ==
  ASSUME TypeOK, NEW a \in Accounts, NEW b \in Payees, NEW v \in Values,
         OwnerMoves(a, b, v)
  PROVE  \A x \in Addr : x # a => splBal'[x] \in Int /\ splBal'[x] >= splBal[x]
<1>1. v \in Nat /\ v <= splBal[a] /\ a # b /\ splBal \in [Accounts -> Nat]
  BY Amounts DEF OwnerMoves, TypeOK
<1>2. PICK f \in Fees(v) :
        splBal' = [[splBal EXCEPT ![a] = @ - v] EXCEPT ![b] = @ + v - f]
  BY DEF OwnerMoves
<1>3. f \in Nat /\ f <= v
  BY <1>1, <1>2, Amounts
<1> SUFFICES ASSUME NEW x \in Addr, x # a
             PROVE  splBal'[x] \in Int /\ splBal'[x] >= splBal[x]
  OBVIOUS
<1>4. x \in Accounts /\ splBal[x] \in Nat
  BY <1>1, Names
<1>5. CASE x = b
  <2>1. splBal'[x] = splBal[x] + v - f
    BY <1>1, <1>2, <1>4, <1>5
  <2> QED BY <1>1, <1>3, <1>4, <2>1
<1>6. CASE x # b
  <2>1. splBal'[x] = splBal[x]
    BY <1>1, <1>2, <1>4, <1>6
  <2> QED BY <1>4, <2>1
<1> QED BY <1>5, <1>6

LEMMA DebitStep ==
  ASSUME IInv, [Next]_vars
  PROVE  Unwound \/ code' # code \/ Authorized
<1> USE DEF IInv
<1>1. ASSUME NEW s \in Addr, NEW to \in Addr, NEW v \in Values, Transfer(s, to, v)
      PROVE  Authorized
  <2>1. v \in Nat /\ by' = s
    BY <1>1, Amounts DEF Transfer, Called
  <2>2. PICK d \in 0 .. v : Moved(s, to, v, d)
    BY <1>1, <2>1, MoveBalances DEF Transfer
  <2> QED BY <2>1, <2>2, MovedIsAuthorized
<1>2. ASSUME NEW s \in Addr, NEW from \in Addr, NEW to \in Addr, NEW v \in Values,
             TransferFrom(s, from, to, v)
      PROVE  Authorized
  <2>1. v \in Nat /\ by' = s /\ v <= MaxUint
    BY <1>2, Amounts, NumberAssumption DEF TransferFrom, Called
  <2>2. PICK d \in 0 .. v : Moved(from, to, v, d)
    BY <1>2, <2>1, MoveBalances DEF TransferFrom
  <2>3. allowances[from][s] >= v
    BY <1>2, <2>1, NumberAssumption DEF TransferFrom, SpendAllowance
  <2> QED BY <2>1, <2>2, <2>3, MovedIsAuthorized
<1>3. ASSUME NEW s \in Addr, NEW spender \in Addr, NEW v \in Values,
             Approve(s, spender, v)
      PROVE  Authorized
  BY <1>3, KeptIsAuthorized DEF Approve, solana
<1>4. ASSUME NEW s \in Addr, NEW a \in Addr,
             CreateTokenAccount(s, a) \/ EnsureTokenAccount(s, a)
      PROVE  Authorized
  BY <1>4, KeptIsAuthorized DEF CreateTokenAccount, EnsureTokenAccount
<1>5. ASSUME NEW s \in Addr, NEW v \in Values, BridgeOutToSolana(s, v)
      PROVE  Authorized
  <2>1. by' = s /\ UNCHANGED <<code, escrow>>
    BY <1>5 DEF BridgeOutToSolana, Called, evm
  <2>2. v \in Nat /\ SplTransfer(s, Wallet, v)
    BY <1>5, Amounts DEF BridgeOutToSolana
  <2>3. PICK f \in Nat :
          /\ f <= v
          /\ \A a \in Accounts :
               splBal'[a] = splBal[a] - (IF a = s THEN v ELSE 0)
                                      + (IF a = Wallet THEN v - f ELSE 0)
    BY <2>2, Names, SplTransferEffect
  <2> SUFFICES ASSUME NEW a \in Addr, a # s PROVE ~(LossOf(a) > 0)
    BY <2>1 DEF Authorized
  <2>4. a \in Accounts /\ splBal[a] \in Nat /\ escrow[a] \in Nat /\ a # Wallet
    BY Names, AddrAssumption DEF TypeOK
  <2>5. splBal'[a] = splBal[a]
    BY <2>3, <2>4
  <2> QED BY <2>1, <2>4, <2>5 DEF LossOf, BalanceOf
<1>6. ASSUME NEW s \in Addr, EnsureRecipientAta(s)
      PROVE  Authorized
  BY <1>6, KeptIsAuthorized DEF EnsureRecipientAta, evm
<1>7. CASE Open
  BY <1>7, KeptIsAuthorized DEF Open, solana, evm
<1>8. CASE Commit \/ Rollback
  BY <1>8 DEF Commit, Rollback, Unwound
<1>9. ASSUME NEW a \in Fresh, Deploy(a)
      PROVE  code' # code
  <2>1. code \in [Addr -> BOOLEAN] /\ a \in Addr /\ ~code[a]
    BY <1>9, Names DEF TypeOK, Deploy
  <2>2. code'[a]
    BY <1>9, <2>1 DEF Deploy
  <2> QED BY <2>1, <2>2
<1>10. ASSUME NEW a \in EOAs, NEW n \in Values \cup {0}, ApproveSpl(a, n)
       PROVE  Authorized
  BY <1>10, KeptIsAuthorized DEF ApproveSpl, evm
<1>11. ASSUME NEW a \in Accounts, NEW b \in Payees, NEW v \in Values,
              OwnerMoves(a, b, v)
       PROVE  Authorized
  <2>1. by' = a /\ UNCHANGED <<code, escrow>>
    BY <1>11 DEF OwnerMoves, evm
  <2> SUFFICES ASSUME NEW x \in Addr, x # a PROVE ~(LossOf(x) > 0)
    BY <2>1 DEF Authorized
  <2>2. x \in Accounts /\ splBal[x] \in Nat /\ escrow[x] \in Nat
    BY Names DEF TypeOK
  <2>3. splBal'[x] \in Int /\ splBal'[x] >= splBal[x]
    BY <1>11, OwnerPays
  <2> QED BY <2>1, <2>2, <2>3 DEF LossOf, BalanceOf
<1>12. ASSUME NEW n \in {0, 1}, SetFee(n)
       PROVE  Authorized
  BY <1>12, KeptIsAuthorized DEF SetFee, solana, evm
<1>13. CASE UNCHANGED vars
  BY <1>13, KeptIsAuthorized DEF vars, solana, evm
<1>14. \A p \in Pairs : p[1] \in Addr /\ p[2] \in Addr
  BY NumberAssumption
<1> QED BY <1>1, <1>2, <1>3, <1>4, <1>5, <1>6, <1>7, <1>8, <1>9, <1>10, <1>11, <1>12,
           <1>13, <1>14 DEF Next

\* On either track, whatever fee is armed: an address loses tokens only to a
\* call or a payment of its own, or to a caller whose allowance covers all it
\* loses (_spendAllowance before _transfer, in transferFrom).
THEOREM DebitsAreAuthorized == Spec => DebitsAuthorized
<1>1. IInv /\ [Next]_vars =>
        [Unwound \/ code' # code \/
          \A a \in Addr : LossOf(a) > 0 => (by' = a \/ allowances[a][by'] >= LossOf(a))]_vars
  BY DebitStep DEF Authorized
<1> QED BY <1>1, Invariant, PTL DEF Spec, DebitsAuthorized
-----------------------------------------------------------------------------
(* The refinement: the cached wrapper is the abstract ledger               *)

LEMMA BooksInit == Init => BooksNeedCode
  BY DEF Init, BooksNeedCode

\* A transfer books nothing for an address without code.
LEMMA MoveBooks ==
  ASSUME TypeOK, NEW from \in Addr, NEW to \in Addr, NEW v \in Nat,
         MoveTokens(from, to, v)
  PROVE  \A a \in Addr : ~code[a] => escrow'[a] = escrow[a]
<1>1. escrow \in [Addr -> Nat]
  BY DEF TypeOK
<1>2. CASE LedgerTransfer(from, to, v)
  BY <1>1, <1>2 DEF LedgerTransfer
<1>3. CASE BookTransfer(from, to, v)
  BY <1>1, <1>3 DEF BookTransfer
<1> QED BY <1>2, <1>3 DEF MoveTokens, TransferCpi, TransferCached

LEMMA BooksNext ==
  ASSUME IInv, BooksNeedCode, [Next]_vars
  PROVE  BooksNeedCode'
<1> USE DEF IInv, BooksNeedCode
<1>1. CASE UNCHANGED <<code, escrow, saved>>
  BY <1>1
<1>2. ASSUME UNCHANGED <<code, saved>>, NEW from \in Addr, NEW to \in Addr,
             NEW v \in Values, MoveTokens(from, to, v)
      PROVE  BooksNeedCode'
  BY <1>2, Amounts, MoveBooks
<1>3. ASSUME NEW s \in Addr, NEW to \in Addr, NEW v \in Values, Transfer(s, to, v)
      PROVE  BooksNeedCode'
  BY <1>2, <1>3 DEF Transfer, Called
<1>4. ASSUME NEW s \in Addr, NEW from \in Addr, NEW to \in Addr, NEW v \in Values,
             TransferFrom(s, from, to, v)
      PROVE  BooksNeedCode'
  BY <1>2, <1>4 DEF TransferFrom, Called
<1>5. ASSUME NEW s, NEW spender, NEW v, Approve(s, spender, v)
      PROVE  BooksNeedCode'
  BY <1>1, <1>5 DEF Approve, Called
<1>6. ASSUME NEW s, NEW a, CreateTokenAccount(s, a) \/ EnsureTokenAccount(s, a)
      PROVE  BooksNeedCode'
  BY <1>1, <1>6 DEF CreateTokenAccount, EnsureTokenAccount, Called
<1>7. ASSUME NEW s, NEW v, BridgeOutToSolana(s, v) \/ EnsureRecipientAta(s)
      PROVE  BooksNeedCode'
  BY <1>1, <1>7 DEF BridgeOutToSolana, EnsureRecipientAta, Called, evm
<1>8. CASE Open
  <2>1. saved' = Snapshot /\ UNCHANGED <<code, escrow>>
    BY <1>8 DEF Open, evm
  <2> QED BY <2>1 DEF Snapshot
<1>9. CASE Commit
  BY <1>9 DEF Commit, evm
<1>10. CASE Rollback
  BY <1>10 DEF Rollback
<1>11. ASSUME NEW a \in Fresh, Deploy(a)
       PROVE  BooksNeedCode'
  <2>1. /\ code' = [code EXCEPT ![a] = TRUE] /\ UNCHANGED <<escrow, saved>>
        /\ code \in [Addr -> BOOLEAN]
    BY <1>11 DEF Deploy, TypeOK
  <2>2. \A x \in Addr : ~code'[x] => ~code[x]
    BY <2>1
  <2> QED BY <2>1, <2>2
<1>12. ASSUME NEW a, NEW n, ApproveSpl(a, n)
       PROVE  BooksNeedCode'
  BY <1>1, <1>12 DEF ApproveSpl, evm
<1>13. ASSUME NEW a, NEW b, NEW v, OwnerMoves(a, b, v)
       PROVE  BooksNeedCode'
  BY <1>1, <1>13 DEF OwnerMoves, evm
<1>14. ASSUME NEW n, SetFee(n)
       PROVE  BooksNeedCode'
  BY <1>1, <1>14 DEF SetFee, evm
<1>15. CASE UNCHANGED vars
  BY <1>1, <1>15 DEF vars, evm
<1> QED BY <1>3, <1>4, <1>5, <1>6, <1>7, <1>8, <1>9, <1>10, <1>11, <1>12, <1>13,
           <1>14, <1>15 DEF Next

\* Both tracks: what the ATA of an address holds never shows in its books.
LEMMA BooksInvariant == Spec => []BooksNeedCode
<1>1. IInv /\ BooksNeedCode /\ [Next]_vars => BooksNeedCode'
  BY BooksNext
<1> QED BY <1>1, BooksInit, Invariant, PTL DEF Spec

\* What the ledger sees is well formed, and a snapshot is never mistaken for
\* a closed ledger.
LEMMA SeenTypes ==
  TypeOK => /\ Balances \in [Addr -> Nat]
            /\ Held \subseteq Addr
            /\ Checkpoint = NoFrame <=> saved = NoFrame
<1> SUFFICES ASSUME TypeOK
             PROVE  /\ Balances \in [Addr -> Nat]
                    /\ Held \subseteq Addr
                    /\ Checkpoint = NoFrame <=> saved = NoFrame
  OBVIOUS
<1>1. Balances \in [Addr -> Nat]
  BY BalanceTypes DEF Balances
<1>2. ASSUME saved # NoFrame PROVE Checkpoint # NoFrame
  <2>1. saved \in Snapshots /\ Addr \subseteq Accounts
    BY <1>2, Names DEF TypeOK
  <2>2. /\ saved.code \in [Addr -> BOOLEAN] /\ saved.escrow \in [Addr -> Nat]
        /\ saved.splBal \in [Accounts -> Nat]
        /\ saved.allowances \in [Addr -> [Addr -> Nat]]
    BY <2>1 DEF Snapshots
  <2>3. SeenOf(saved) \in [balance : [Addr -> Nat], allow : [Addr -> [Addr -> Nat]],
                           held : SUBSET Addr]
    BY <2>1, <2>2 DEF SeenOf
  <2> QED BY <1>2, <2>3, CheckpointAssumption DEF Checkpoint
<1> QED BY <1>1, <1>2 DEF Held, Checkpoint

\* A step that leaves tokens, books, code and frame alone.
LEMMA SeenKept ==
  /\ UNCHANGED <<splBal, escrow, code>> => Balances' = Balances
  /\ UNCHANGED code => Held' = Held
  /\ UNCHANGED saved => Checkpoint' = Checkpoint
  BY DEF Balances, BalanceOf, Held, Checkpoint, SeenOf

LEMMA SeenMoved ==
  ASSUME TypeOK, NEW from \in Addr, NEW to \in Addr, NEW v \in Nat, NEW d \in 0 .. v,
         Moved(from, to, v, d)
  PROVE  /\ Balances[from] >= v
         /\ Balances' = [[Balances EXCEPT ![from] = @ - v] EXCEPT ![to] = @ + d]
<1> DEFINE left == [Balances EXCEPT ![from] = @ - v]
           there == [left EXCEPT ![to] = @ + d]
<1>1. /\ Balances \in [Addr -> Nat]
      /\ \A a \in Addr : Balances[a] = BalanceOf(a) /\ Balances'[a] = BalanceOf(a)'
      /\ Balances' = [a \in Addr |-> Balances'[a]]
  BY SeenTypes DEF Balances
<1>2. left \in [Addr -> Int] /\ \A a \in Addr : left[a] = Balances[a] - (IF a = from THEN v ELSE 0)
  BY <1>1
<1> HIDE DEF left
<1>3. there \in [Addr -> Int] /\ \A a \in Addr : there[a] = left[a] + (IF a = to THEN d ELSE 0)
  BY <1>2
<1>4. \A a \in Addr : Balances'[a] = there[a]
  BY <1>1, <1>2, <1>3 DEF Moved
<1>5. Balances' = there
  BY <1>1, <1>3, <1>4
<1> QED BY <1>1, <1>5 DEF Moved, left

LEMMA LedgerInit == IInv /\ Init => Ledger!Init
<1> SUFFICES ASSUME IInv, Init PROVE Ledger!Init
  OBVIOUS
<1>1. saved = NoFrame /\ \A o, s \in Addr : allowances[o][s] = 0
  BY DEF Init
<1>2. TypeOK
  BY DEF IInv
<1>3. Checkpoint = NoFrame /\ by \in Accounts
  BY <1>1, <1>2, SeenTypes DEF TypeOK
<1> QED BY <1>1, <1>2, <1>3, SeenTypes DEF Ledger!Init

LEMMA LedgerStep ==
  ASSUME ~CpiTrack, IInv, IInv', BooksNeedCode, [Next]_vars
  PROVE  [Ledger!Next]_Ledger!vars
<1>0. /\ TypeOK /\ TypeOK' /\ code[Wrapper]
      /\ Balances \in [Addr -> Nat] /\ Balances' \in [Addr -> Nat]
      /\ (Checkpoint = NoFrame <=> saved = NoFrame)
      /\ (Checkpoint' = NoFrame <=> saved' = NoFrame)
  <2>1. TypeOK /\ TypeOK' /\ code[Wrapper]
    BY DEF IInv
  <2>2. TypeOK' => (/\ Balances \in [Addr -> Nat]
                    /\ Held \subseteq Addr
                    /\ Checkpoint = NoFrame <=> saved = NoFrame)'
    BY SeenTypes, PTL
  <2> QED BY <2>1, <2>2, SeenTypes
<1>1. ASSUME NEW s \in Addr, NEW to \in Addr, NEW v \in Values, Transfer(s, to, v)
      PROVE  Ledger!Next
  <2>1. v \in Nat /\ by' = s /\ UNCHANGED <<code, saved, allowances>>
    BY <1>1, Amounts DEF Transfer, Called
  <2>2. PICK d \in 0 .. v : Moved(s, to, v, d)
    BY <1>0, <1>1, <2>1, MoveBalances DEF Transfer
  <2>3. /\ Balances[s] >= v
        /\ Balances' = [[Balances EXCEPT ![s] = @ - v] EXCEPT ![to] = @ + d]
    BY <1>0, <2>1, <2>2, SeenMoved
  <2>4. Ledger!Move(s, s, to)
    BY <2>1, <2>3, SeenKept DEF Ledger!Move
  <2> QED BY <2>4 DEF Ledger!Next
<1>2. ASSUME NEW s \in Addr, NEW from \in Addr, NEW to \in Addr, NEW v \in Values,
             TransferFrom(s, from, to, v)
      PROVE  Ledger!Next
  <2>1. v \in Nat /\ by' = s /\ UNCHANGED <<code, saved>>
    BY <1>2, Amounts DEF TransferFrom, Called
  <2>2. PICK d \in 0 .. v : Moved(from, to, v, d)
    BY <1>0, <1>2, <2>1, MoveBalances DEF TransferFrom
  <2>3. /\ Balances[from] >= v
        /\ Balances' = [[Balances EXCEPT ![from] = @ - v] EXCEPT ![to] = @ + d]
    BY <1>0, <2>1, <2>2, SeenMoved
  <2>4. \/ allowances[from][s] = MaxUint /\ allowances' = allowances
        \/ allowances[from][s] >= v /\ allowances' = [allowances EXCEPT ![from][s] = @ - v]
    BY <1>2 DEF TransferFrom, SpendAllowance
  <2>5. Ledger!Move(s, from, to)
    BY <2>1, <2>3, <2>4, SeenKept DEF Ledger!Move
  <2> QED BY <2>5 DEF Ledger!Next
<1>3. ASSUME NEW s \in Addr, NEW spender \in Addr, NEW v \in Values,
             Approve(s, spender, v)
      PROVE  Ledger!Next
  <2>1. /\ by' = s /\ allowances' = [allowances EXCEPT ![s][spender] = v]
        /\ UNCHANGED <<splBal, escrow, code, saved>>
    BY <1>3 DEF Approve, Called, solana
  <2>2. Ledger!Approve(s, spender, v)
    BY <2>1, SeenKept DEF Ledger!Approve
  <2> QED BY <2>2 DEF Ledger!Next
<1>4. ASSUME NEW s \in Addr, NEW a \in Addr,
             CreateTokenAccount(s, a) \/ EnsureTokenAccount(s, a)
      PROVE  Ledger!Next
  <2>1. by' = s /\ UNCHANGED <<splBal, escrow, code, allowances, saved>>
    BY <1>4 DEF CreateTokenAccount, EnsureTokenAccount, Called
  <2>2. Ledger!Touch(s)
    BY <2>1, SeenKept DEF Ledger!Touch
  <2> QED BY <2>2 DEF Ledger!Next
<1>5. ASSUME NEW s, NEW v, BridgeOutToSolana(s, v) \/ EnsureRecipientAta(s)
      PROVE  FALSE
  BY <1>5 DEF BridgeOutToSolana, EnsureRecipientAta
<1>6. CASE Open
  <2>1. /\ saved = NoFrame /\ saved' = Snapshot
        /\ UNCHANGED <<splBal, escrow, code, allowances, by>>
    BY <1>6 DEF Open, solana, evm
  <2>2. Snapshot # NoFrame
    <3>1. Snapshot \in Snapshots
      BY <1>0 DEF Snapshot, Snapshots, TypeOK
    <3> QED BY <3>1, NoFrameAssumption
  <2>3. Checkpoint' = [balance |-> Balances, allow |-> allowances, held |-> Held]
    BY <2>1, <2>2 DEF Checkpoint, SeenOf, Snapshot, Balances, BalanceOf, Held
  <2>4. Ledger!Open
    BY <1>0, <2>1, <2>3, SeenKept DEF Ledger!Open
  <2> QED BY <2>4 DEF Ledger!Next
<1>7. CASE Commit
  <2>1. /\ saved # NoFrame /\ saved' = NoFrame
        /\ UNCHANGED <<splBal, escrow, code, allowances, by>>
    BY <1>7 DEF Commit, solana, evm
  <2>2. Ledger!Commit
    BY <1>0, <2>1, SeenKept DEF Ledger!Commit
  <2> QED BY <2>2 DEF Ledger!Next
<1>8. CASE Rollback
  <2>1. /\ saved # NoFrame /\ saved' = NoFrame /\ UNCHANGED by
        /\ code' = saved.code /\ escrow' = saved.escrow
        /\ allowances' = saved.allowances /\ splBal' = saved.splBal
    BY <1>8 DEF Rollback
  <2>2. Checkpoint = SeenOf(saved)
    BY <2>1 DEF Checkpoint
  <2>3. Balances' = Checkpoint.balance /\ Held' = Checkpoint.held
        /\ allowances' = Checkpoint.allow
    BY <2>1, <2>2 DEF SeenOf, Balances, BalanceOf, Held
  <2>4. Ledger!Rollback
    BY <1>0, <2>1, <2>3 DEF Ledger!Rollback
  <2> QED BY <2>4 DEF Ledger!Next
<1>9. ASSUME NEW a \in Fresh, Deploy(a)
      PROVE  Ledger!Next
  <2>1. /\ a \in Addr /\ ~code[a] /\ code' = [code EXCEPT ![a] = TRUE]
        /\ UNCHANGED <<splBal, escrow, allowances, saved, by>>
        /\ code \in [Addr -> BOOLEAN]
    BY <1>0, <1>9, Names DEF Deploy, solana, TypeOK
  <2>2. Held' = Held \cup {a} /\ a \notin Held
    BY <2>1 DEF Held
  <2>3. escrow[a] = 0
    BY <2>1 DEF BooksNeedCode
  <2>4. \A x \in Addr : Balances'[x] = IF x = a THEN 0 ELSE Balances[x]
    BY <2>1, <2>3 DEF Balances, BalanceOf
  <2>5. Balances' = [Balances EXCEPT ![a] = 0]
    BY <1>0, <2>4
  <2>6. Ledger!Deploy(a)
    BY <2>1, <2>2, <2>5, SeenKept DEF Ledger!Deploy
  <2> QED BY <2>1, <2>6 DEF Ledger!Next
<1>10. ASSUME NEW a, NEW n, ApproveSpl(a, n)
       PROVE  UNCHANGED Ledger!vars
  <2>1. UNCHANGED <<splBal, escrow, code, allowances, saved, by>>
    BY <1>10 DEF ApproveSpl, evm
  <2> QED BY <2>1, SeenKept DEF Ledger!vars
<1>11. ASSUME NEW a \in Accounts, NEW b \in Payees, NEW v \in Values,
              OwnerMoves(a, b, v)
       PROVE  Ledger!Next
  <2>1. /\ by' = a /\ saved = NoFrame /\ a # b /\ v \in Nat /\ v <= splBal[a]
        /\ UNCHANGED <<code, escrow, allowances, saved>>
    BY <1>11, Amounts DEF OwnerMoves, evm
  <2>2. \A x \in Addr : x # a => splBal'[x] >= splBal[x]
    BY <1>0, <1>11, OwnerPays
  <2>3. \A x \in Addr : /\ x # a => Balances'[x] >= Balances[x]
                        /\ x \in Held => Balances'[x] = Balances[x]
    <3> SUFFICES ASSUME NEW x \in Addr
                 PROVE  /\ x # a => Balances'[x] >= Balances[x]
                        /\ x \in Held => Balances'[x] = Balances[x]
      OBVIOUS
    <3>1. CASE code[x]
      <4>1. Balances'[x] = Balances[x] /\ Balances[x] \in Nat
        BY <1>0, <2>1, <3>1 DEF Balances, BalanceOf
      <4> QED BY <4>1
    <3>2. CASE ~code[x]
      BY <2>1, <2>2, <3>2 DEF Balances, BalanceOf, Held
    <3> QED BY <3>1, <3>2
  <2>4. Ledger!OwnMove(a)
    BY <1>0, <2>1, <2>3, SeenKept DEF Ledger!OwnMove
  <2> QED BY <2>4 DEF Ledger!Next
<1>12. ASSUME NEW n, SetFee(n)
       PROVE  UNCHANGED Ledger!vars
  <2>1. UNCHANGED <<splBal, escrow, code, allowances, saved, by>>
    BY <1>12 DEF SetFee, solana, evm
  <2> QED BY <2>1, SeenKept DEF Ledger!vars
<1>13. CASE UNCHANGED vars
  <2>1. UNCHANGED <<splBal, escrow, code, allowances, saved, by>>
    BY <1>13 DEF vars, solana, evm
  <2> QED BY <2>1, SeenKept DEF Ledger!vars
<1>14. \A p \in Pairs : p[1] \in Addr /\ p[2] \in Addr
  BY NumberAssumption
<1> QED BY <1>1, <1>2, <1>3, <1>4, <1>5, <1>6, <1>7, <1>8, <1>9, <1>10, <1>11, <1>12,
           <1>13, <1>14 DEF Next

\* SPL_ERC20_cached is the ERC-20 ledger its users expect, journaled with the
\* EVM transaction: every step of it, transfers under a fee, CREATE2 and
\* rollbacks included, is a step of Erc20Ledger or leaves the ledger alone.
THEOREM CachedImplements ==
  ASSUME ~CpiTrack
  PROVE  Spec => ImplementsLedger
<1>1. IInv /\ IInv' /\ BooksNeedCode /\ [Next]_vars => [Ledger!Next]_Ledger!vars
  BY LedgerStep
<1> QED BY <1>1, LedgerInit, InvInit, Invariant, BooksInvariant, PTL
        DEF Spec, ImplementsLedger, Ledger!Spec
=============================================================================
