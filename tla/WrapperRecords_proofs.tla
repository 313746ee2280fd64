------------------------ MODULE WrapperRecords_proofs ------------------------
(***************************************************************************)
(* For any lists, terminals, role settings and number of factories: the    *)
(* records are true whoever overlaps whom, and a bootstrap keeps what it   *)
(* has made and read back and ends with its whole list in the file.        *)
(***************************************************************************)
EXTENDS WrapperRecords, TLAPS

\* An entry of a list is one of the listed ones, under one of the keys.
LEMMA ListedEntry ==
  ASSUME NEW n \in DOMAIN WrapperSets, NEW i \in 1 .. Len(WrapperSets[n])
  PROVE  LET e == WrapperSets[n][i] IN
         /\ e \in Entries /\ e.key \in Keys /\ e \in Listed
         /\ e = [key |-> e.key, mint |-> e.mint]
<1>1. WrapperSets[n][i] \in Entries
  BY WrapperListsAssumption
<1>2. WrapperSets[n][i] \in Listed
  BY DEF Listed, Specs
<1> QED BY <1>1, <1>2 DEF Entries

\* The chain only ever gains factories and wrappers.
Grows == factories' \in Nat /\ factories <= factories' /\ tokens \subseteq tokens'

\* What was true of a file stays true of it.
LEMMA TrueStays ==
  ASSUME factories \in Nat, Grows
  PROVE  /\ \A w, k : IsWrapper(w, k) => IsWrapper(w, k)'
         /\ \A b : BridgeTrue(b) => BridgeTrue(b)'
         /\ \A a : ActivatorTrue(a) => ActivatorTrue(a)'
         /\ \A f : FileTrue(f) => FileTrue(f)'
<1>1. \A w, k : IsWrapper(w, k) => IsWrapper(w, k)'
  BY DEF Grows, IsWrapper, TokenByMint
<1>2. \A b : BridgeTrue(b) => BridgeTrue(b)'
  BY <1>1 DEF BridgeTrue
<1>3. \A a : ActivatorTrue(a) => ActivatorTrue(a)'
  BY <1>1 DEF ActivatorTrue
<1>4. ASSUME NEW f, FileTrue(f) PROVE FileTrue(f)'
  <2>1. f.factory # None => f.factory \in 1 .. factories'
    BY <1>4 DEF FileTrue, Grows
  <2>2. \A k \in Keys : f.wrappers[k] # None => IsWrapper(f.wrappers[k], k)'
    BY <1>1, <1>4 DEF FileTrue
  <2>3. (f.bridge # None => BridgeTrue(f.bridge)') /\ (f.activator # None => ActivatorTrue(f.activator)')
    BY <1>2, <1>3, <1>4 DEF FileTrue
  <2> QED BY <1>4, <2>1, <2>2, <2>3 DEF FileTrue
<1> QED BY <1>1, <1>2, <1>3, <1>4

\* And of a run.
LEMMA RunStays ==
  ASSUME factories \in Nat, Grows, NEW r, RunTrue(r)
  PROVE  RunTrue(r)'
<1>1. r.pc = "saveFactory" => r.factory \in 1 .. factories'
  BY DEF RunTrue, Grows
<1>2. (r.pc = "saveBridge" => BridgeTrue(r.built)') /\ (r.pc = "saveActivator" => ActivatorTrue(r.built)')
  BY TrueStays DEF RunTrue
<1>3. r.pc \in {"look", "add", "reread"} => FileTrue(r.copy)'
  BY TrueStays DEF RunTrue
<1> QED BY <1>1, <1>2, <1>3 DEF RunTrue, PastNoted

LEMMA IdleTrue == RunTrue(Idle) /\ RunTrue(Idle)' /\ Idle.made = {} /\ ~Idle.alone /\ Idle.pc = "idle"
BY DEF RunTrue, Idle

\* A step of one script that is not its first: the others' runs and, unless it
\* writes, the file are as before.
LEMMA GoesKeeps ==
  ASSUME WrapperInv, Grows, \A t \in tokens' : t.mint \in Mints,
         FileTrue(file)', NEW p \in Ops, NEW r, ~At(p, "idle"), Goes(p, r), RunTrue(r)',
         r = Idle \/ (r.pc # "idle" /\ r.alone = run[p].alone),
         \A e \in r.made : r.alone /\ r.pc \in {"look", "add", "reread"} /\ Kept(r, e)'
  PROVE  WrapperInv'
<1>1. run' = [q \in Ops |-> run'[q]] /\ run'[p] = r /\ \A q \in Ops \ {p} : run'[q] = run[q]
  BY DEF Goes, WrapperInv
<1>2. ASSUME NEW q \in Ops PROVE RunTrue(run[q])'
  <2>1. CASE q = p
    BY <1>1, <2>1 DEF RunTrue, FileTrue, PastNoted
  <2>2. CASE q # p
    <3>1. RunTrue(run[q]) /\ run'[q] = run[q]
      BY <1>1, <2>2 DEF WrapperInv
    <3> QED BY <3>1, RunStays DEF WrapperInv
  <2> QED BY <2>1, <2>2
<1>3. ASSUME NEW q \in Ops PROVE MadeSaved(q)'
  <2>1. MadeSaved(q) /\ MadeSaved(p)
    BY DEF WrapperInv
  <2>2. CASE q = p
    <3>1. \A e \in run'[q].made : Kept(run[q], e)'
      BY <1>1, <2>2 DEF Kept, TokenByMint
    <3> QED BY <1>1, <2>1, <2>2, <3>1, IdleTrue DEF MadeSaved, At
  <2>3. CASE q # p
    <3>1. ~run[q].alone /\ run[q].made = {}
      BY <2>1, <2>3 DEF MadeSaved, At
    <3> QED BY <1>1, <2>3, <3>1 DEF MadeSaved
  <2> QED BY <2>2, <2>3
<1> QED BY <1>1, <1>2, <1>3 DEF WrapperInv, Grows

\* A script begins, in a terminal that was free.
LEMMA BeginsKeeps ==
  ASSUME WrapperInv, Grows, UNCHANGED <<tokens, file>>,
         NEW p \in Ops, NEW r, Begins(p, r), r.pc # "idle", r.made = {}, RunTrue(r)'
  PROVE  WrapperInv'
<1> DEFINE free == \A q \in Ops : At(q, "idle")
<1>1. At(p, "idle")
      /\ run' = [o \in Ops |-> IF o = p THEN [r EXCEPT !.alone = free]
                                ELSE [run[o] EXCEPT !.alone = FALSE, !.made = {}]]
  BY DEF Begins
<1>2. /\ run'[p].pc = r.pc /\ run'[p].made = {} /\ run'[p].alone = free
      /\ run'[p].factory = r.factory /\ run'[p].set = r.set /\ run'[p].copy = r.copy
      /\ run'[p].at = r.at /\ run'[p].built = r.built
      /\ run'[p] = [pc |-> r.pc, factory |-> r.factory, set |-> r.set, copy |-> r.copy, at |-> r.at,
                    made |-> {}, built |-> r.built, alone |-> free]
  BY <1>1 DEF RunTrue
<1>3. ASSUME NEW q \in Ops \ {p}
      PROVE  /\ run'[q] = [pc |-> run[q].pc, factory |-> run[q].factory, set |-> run[q].set,
                              copy |-> run[q].copy, at |-> run[q].at, made |-> {},
                           built |-> run[q].built, alone |-> FALSE]
             /\ run'[q].pc = run[q].pc /\ run'[q].factory = run[q].factory
             /\ run'[q].set = run[q].set /\ run'[q].copy = run[q].copy
             /\ run'[q].at = run[q].at /\ run'[q].built = run[q].built
             /\ run'[q].made = {} /\ run'[q].alone = FALSE
  <2>1. RunTrue(run[q])
    BY DEF WrapperInv
  <2>2. run'[q] = [run[q] EXCEPT !.alone = FALSE, !.made = {}]
    BY <1>1
  <2> QED BY <2>1, <2>2 DEF RunTrue
<1>4. RunTrue(run[p])'
  BY <1>2 DEF RunTrue, FileTrue, PastNoted
<1>5. ASSUME NEW q \in Ops \ {p} PROVE RunTrue(run[q])'
  <2>1. PICK o : o = run[q]
    OBVIOUS
  <2>2. RunTrue(o)
    BY <2>1 DEF WrapperInv
  <2>3. RunTrue(o)'
    BY <2>2, RunStays DEF WrapperInv
  <2> QED BY <1>3, <2>1, <2>3 DEF RunTrue, FileTrue, PastNoted
<1>6. MadeSaved(p)'
  BY <1>2, <1>3 DEF MadeSaved, At
<1>7. ASSUME NEW q \in Ops \ {p} PROVE MadeSaved(q)'
  BY <1>3 DEF MadeSaved
<1>8. run' = [q \in Ops |-> run'[q]]
  BY <1>1
<1>9. FileTrue(file)'
  <2>1. PICK f : f = file
    OBVIOUS
  <2>2. FileTrue(f)'
    BY <2>1, TrueStays DEF WrapperInv
  <2> QED BY <2>1, <2>2 DEF FileTrue
<1> QED BY <1>4, <1>5, <1>6, <1>7, <1>8, <1>9 DEF WrapperInv, Grows

\* The copy of a bootstrap with the entry it is at.
LEMMA NotedTrue ==
  ASSUME WrapperInv, NEW p \in Ops, run[p].pc \in {"look", "add", "reread"}, More(p), Has(p)
  PROVE  /\ Entry(p) \in Listed /\ Entry(p).key \in Keys
         /\ FileTrue(Noted(p))
         /\ \A i \in 1 .. run[p].at :
              LET e == WrapperSets[run[p].set][i]
              IN  Noted(p).wrappers[e.key] = Wrapper(run[p].factory, e.mint)
<1> DEFINE r == run[p]
           e == Entry(p)
           w == Wrapper(r.factory, e.mint)
<1>1. RunTrue(r) /\ r.set \in DOMAIN WrapperSets /\ r.at \in 1 .. Len(WrapperSets[r.set])
      /\ FileTrue(r.copy) /\ PastNoted(r)
  BY WrapperListsAssumption DEF WrapperInv, RunTrue, More
<1>2. e \in Listed /\ e.key \in Keys /\ e = [key |-> e.key, mint |-> e.mint]
  BY <1>1, ListedEntry DEF Entry
<1>3. IsWrapper(w, e.key)
  BY <1>2 DEF IsWrapper, Has, Wrapper
<1>4. /\ Noted(p) = [r.copy EXCEPT !.wrappers = [r.copy.wrappers EXCEPT ![e.key] = w]]
      /\ r.copy = [factory |-> r.copy.factory, wrappers |-> [k \in Keys |-> r.copy.wrappers[k]],
                   bridge |-> r.copy.bridge, activator |-> r.copy.activator]
  BY <1>1 DEF Noted, FileTrue
<1>5. /\ Noted(p).factory = r.copy.factory /\ Noted(p).bridge = r.copy.bridge
      /\ Noted(p).activator = r.copy.activator
      /\ Noted(p).wrappers = [k \in Keys |-> IF k = e.key THEN w ELSE r.copy.wrappers[k]]
      /\ Noted(p) = [factory |-> r.copy.factory, wrappers |-> Noted(p).wrappers,
                     bridge |-> r.copy.bridge, activator |-> r.copy.activator]
  BY <1>2, <1>4
<1>6. FileTrue(Noted(p))
  BY <1>1, <1>3, <1>5 DEF FileTrue
<1>7. ASSUME NEW i \in 1 .. r.at
      PROVE  Noted(p).wrappers[WrapperSets[r.set][i].key]
               = Wrapper(r.factory, WrapperSets[r.set][i].mint)
  <2>1. i \in 1 .. Len(WrapperSets[r.set])
    BY <1>1, WrapperListsAssumption
  <2>4. WrapperSets[r.set][i].key \in Keys
    BY <1>1, <2>1, ListedEntry
  <2>2. CASE i = r.at
    BY <1>5, <2>4, <2>2 DEF Entry
  <2>3. CASE i # r.at
    <3>1. WrapperSets[r.set][i].key # e.key
      BY <1>1, <2>1, <2>3, WrapperListsAssumption DEF Entry
    <3>2. i \in 1 .. r.at - 1
      BY <1>1, <2>3
    <3> QED BY <1>1, <1>5, <2>4, <3>1, <3>2 DEF PastNoted
  <2> QED BY <2>2, <2>3
<1> QED BY <1>2, <1>6, <1>7

-----------------------------------------------------------------------------
(* The steps                                                               *)

LEMMA InitInv == Init => WrapperInv
<1> SUFFICES ASSUME Init PROVE WrapperInv
  OBVIOUS
<1>1. FileTrue(file)
  BY DEF Init, FileTrue, EmptyFile
<1>2. ASSUME NEW p \in Ops PROVE RunTrue(run[p]) /\ MadeSaved(p)
  BY IdleTrue DEF Init, MadeSaved
<1> QED BY <1>1, <1>2 DEF Init, WrapperInv

LEMMA Still ==
  ASSUME WrapperInv, UNCHANGED <<factories, tokens>>
  PROVE  Grows /\ \A t \in tokens' : t.mint \in Mints
BY DEF WrapperInv, Grows

\* The file after a step that writes the value f to it or leaves f there.
LEMMA Written ==
  ASSUME NEW f, FileTrue(f), factories \in Nat, Grows, file' = f
  PROVE  FileTrue(file)'
<1>1. FileTrue(f)'
  BY TrueStays
<1> QED BY <1>1 DEF FileTrue

LEMMA AddKeepsTokens ==
  ASSUME WrapperInv, NEW f, NEW m, NEW k, AddSplToken(f, m, k), UNCHANGED factories
  PROVE  Grows /\ \A t \in tokens' : t.mint \in Mints
BY DEF WrapperInv, AddSplToken, Registrable, Grows

\* No script moves.
LEMMA QuietKeeps ==
  ASSUME WrapperInv, Grows, \A t \in tokens' : t.mint \in Mints, UNCHANGED <<file, run>>
  PROVE  WrapperInv'
<1>1. UNCHANGED <<file, run>>
  OBVIOUS
<1>2. FileTrue(file)'
  BY <1>1, Written DEF WrapperInv
<1>3. ASSUME NEW p \in Ops PROVE RunTrue(run[p])'
  <2>1. PICK o : o = run[p]
    OBVIOUS
  <2>2. RunTrue(o)'
    BY <1>1, <2>1, RunStays DEF WrapperInv
  <2> QED BY <1>1, <2>1, <2>2 DEF RunTrue, FileTrue, PastNoted
<1>4. ASSUME NEW p \in Ops PROVE MadeSaved(p)'
  <2>1. MadeSaved(p)
    BY DEF WrapperInv
  <2>2. \A e \in run[p].made : Kept(run[p], e) => Kept(run[p], e)'
    BY <1>1 DEF Kept, Grows, TokenByMint
  <2> QED BY <1>1, <2>1, <2>2 DEF MadeSaved, At
<1> QED BY <1>1, <1>2, <1>3, <1>4 DEF WrapperInv, Grows

LEMMA OutsiderKeeps ==
  ASSUME WrapperInv, NEW f, NEW m, NEW k, Outsider(f, m, k)
  PROVE  WrapperInv'
BY AddKeepsTokens, QuietKeeps DEF Outsider

\* A script ends, after writing something true or nothing.
LEMMA EndKeeps ==
  ASSUME WrapperInv, NEW p \in Ops, ~At(p, "idle"), Goes(p, Idle),
         Grows, \A t \in tokens' : t.mint \in Mints, FileTrue(file)'
  PROVE  WrapperInv'
BY GoesKeeps, IdleTrue

LEMMA DeployFactoryKeeps ==
  ASSUME WrapperInv, NEW p \in Ops, DeployFactory(p)
  PROVE  WrapperInv'
<1>1. PICK r : r = [Idle EXCEPT !.pc = "saveFactory", !.factory = factories + 1]
  OBVIOUS
<1>2. factories \in Nat /\ factories' = factories + 1 /\ Begins(p, r) /\ UNCHANGED <<tokens, file>>
  BY <1>1 DEF DeployFactory, WrapperInv
<1>3. r.pc = "saveFactory" /\ r.made = {} /\ r.factory = factories + 1
      /\ r = [pc |-> r.pc, factory |-> r.factory, set |-> r.set, copy |-> r.copy, at |-> r.at,
              made |-> r.made, built |-> r.built, alone |-> r.alone]
  BY <1>1 DEF Idle
<1>4. RunTrue(r)'
  BY <1>2, <1>3 DEF RunTrue
<1>5. Grows /\ r.pc # "idle"
  BY <1>2, <1>3 DEF Grows
<1> QED BY <1>2, <1>3, <1>4, <1>5, BeginsKeeps

LEMMA SaveFactoryKeeps ==
  ASSUME WrapperInv, NEW p \in Ops, SaveFactory(p)
  PROVE  WrapperInv'
<1>1. PICK f : f = [file EXCEPT !.factory = run[p].factory]
  OBVIOUS
<1>2. file' = f /\ Goes(p, Idle) /\ UNCHANGED <<factories, tokens>> /\ run[p].pc = "saveFactory"
  BY <1>1 DEF SaveFactory, At
<1>3. run[p].factory \in 1 .. factories /\ FileTrue(file)
  BY <1>2 DEF WrapperInv, RunTrue
<1>4. FileTrue(f)
  BY <1>1, <1>3 DEF FileTrue
<1>5. FileTrue(file)'
  BY <1>2, <1>4, Still, Written DEF WrapperInv
<1> QED BY <1>2, <1>5, Still, EndKeeps DEF At

LEMMA StartBootstrapKeeps ==
  ASSUME WrapperInv, NEW p \in Ops, NEW n \in DOMAIN WrapperSets, StartBootstrap(p, n)
  PROVE  WrapperInv'
<1>1. PICK r : r = [Idle EXCEPT !.pc = "open", !.factory = file.factory, !.set = n, !.at = 1]
  OBVIOUS
<1>2. Begins(p, r) /\ UNCHANGED <<factories, tokens, file>>
  BY <1>1 DEF StartBootstrap
<1>3. r.pc = "open" /\ r.made = {} /\ r.set = n /\ r.at = 1
      /\ r = [pc |-> r.pc, factory |-> r.factory, set |-> r.set, copy |-> r.copy, at |-> r.at,
              made |-> r.made, built |-> r.built, alone |-> r.alone]
  BY <1>1 DEF Idle
<1>4. RunTrue(r)'
  BY <1>3 DEF RunTrue
<1> QED BY <1>2, <1>3, <1>4, BeginsKeeps, Still

LEMMA OpenFileKeeps ==
  ASSUME WrapperInv, NEW p \in Ops, OpenFile(p)
  PROVE  WrapperInv'
<1>1. PICK o, f, r : o = run[p] /\ f = file /\ r = [o EXCEPT !.pc = "look", !.copy = f]
  OBVIOUS
<1>2. o.pc = "open" /\ ~At(p, "idle") /\ Goes(p, r) /\ UNCHANGED <<factories, tokens, file>>
  BY <1>1 DEF OpenFile, At
<1>3. /\ o.set \in DOMAIN WrapperSets /\ o.at = 1 /\ o.made = {}
      /\ o = [pc |-> o.pc, factory |-> o.factory, set |-> o.set, copy |-> o.copy, at |-> o.at,
              made |-> o.made, built |-> o.built, alone |-> o.alone]
  BY <1>1, <1>2 DEF WrapperInv, RunTrue
<1>4. r = [pc |-> "look", factory |-> o.factory, set |-> o.set, copy |-> f, at |-> 1,
          made |-> {}, built |-> o.built, alone |-> o.alone]
  BY <1>1, <1>3
<1>5. Grows /\ FileTrue(f)' /\ FileTrue(file)'
  BY <1>1, <1>2, Still, TrueStays, Written DEF WrapperInv
<1>6. Len(WrapperSets[o.set]) \in Nat
  BY <1>3, WrapperListsAssumption
<1>7. RunTrue(r)'
  BY <1>3, <1>4, <1>5, <1>6 DEF RunTrue, FileTrue, PastNoted
<1>8. r.pc # "idle" /\ r.alone = run[p].alone /\ r.made = {}
  <2>1. o = run[p]
    BY <1>1
  <2>2. r.pc = "look" /\ r.alone = o.alone /\ r.made = {}
    BY <1>4
  <2> QED BY <2>1, <2>2
<1> QED BY <1>2, <1>5, <1>7, <1>8, Still, GoesKeeps

\* What a running bootstrap is known to have.
LEMMA Running ==
  ASSUME WrapperInv, NEW p \in Ops, NEW r, r = run[p], r.pc \in {"look", "add", "reread"}
  PROVE  /\ r = [pc |-> r.pc, factory |-> r.factory, set |-> r.set, copy |-> r.copy, at |-> r.at,
                 made |-> r.made, built |-> r.built, alone |-> r.alone]
         /\ r.set \in DOMAIN WrapperSets /\ Len(WrapperSets[r.set]) \in Nat
         /\ r.at \in 1 .. Len(WrapperSets[r.set]) + 1
         /\ FileTrue(r.copy) /\ PastNoted(r)
         /\ \A e \in r.made : r.alone /\ Kept(r, e)
BY WrapperListsAssumption DEF WrapperInv, RunTrue, MadeSaved

\* It turns to the registration or to the second look, with what it has
\* registered by now.
LEMMA TurnKeeps ==
  ASSUME WrapperInv, NEW p \in Ops, run[p].pc \in {"look", "add"}, More(p),
         NEW pc \in {"add", "reread"}, NEW made, NEW f, f = run[p].factory, NEW n, n = Entry(p),
         made = run[p].made \/ (/\ pc = "reread" /\ TokenByMint(f, n.mint)'
                               /\ made = {e \in run[p].made \cup {n} : run[p].alone}),
         Goes(p, [run[p] EXCEPT !.pc = pc, !.made = made]),
         Grows, \A t \in tokens' : t.mint \in Mints, UNCHANGED file
  PROVE  WrapperInv'
<1>1. PICK r, o, c : r = [run[p] EXCEPT !.pc = pc, !.made = made] /\ o = run[p] /\ c = run[p].copy
  OBVIOUS
<1>2. /\ r = [pc |-> pc, factory |-> o.factory, set |-> o.set, copy |-> c, at |-> o.at,
              made |-> made, built |-> o.built, alone |-> o.alone]
      /\ o.set \in DOMAIN WrapperSets /\ Len(WrapperSets[o.set]) \in Nat
      /\ o.at \in 1 .. Len(WrapperSets[o.set]) + 1 /\ PastNoted(o)
      /\ \A e \in o.made : o.alone /\ Kept(o, e)
  <2>1. o.pc \in {"look", "add", "reread"}
    BY <1>1
  <2>2. o = [pc |-> o.pc, factory |-> o.factory, set |-> o.set, copy |-> o.copy, at |-> o.at,
            made |-> o.made, built |-> o.built, alone |-> o.alone]
    BY <1>1, <2>1, Running
  <2>3. r = [o EXCEPT !.pc = pc, !.made = made] /\ c = o.copy
    BY <1>1
  <2>4. r = [pc |-> pc, factory |-> o.factory, set |-> o.set, copy |-> c, at |-> o.at,
            made |-> made, built |-> o.built, alone |-> o.alone]
    BY <2>2, <2>3
  <2> QED BY <1>1, <2>1, <2>4, Running
<1>3. FileTrue(c)' /\ FileTrue(file)'
  <2>1. o.pc \in {"look", "add", "reread"} /\ o.copy = c
    BY <1>1
  <2>2. FileTrue(c)
    BY <1>1, <2>1, Running
  <2> QED BY <2>2, TrueStays, Written DEF WrapperInv
<1>4. RunTrue(r)'
  <2>1. o.at <= Len(WrapperSets[o.set]) /\ o.copy = c
    BY <1>1 DEF More
  <2> QED BY <1>2, <1>3, <2>1 DEF RunTrue, FileTrue, PastNoted
<1>5. ASSUME NEW e \in made
      PROVE  r.alone /\ r.pc \in {"look", "add", "reread"} /\ Kept(r, e)'
  <2>1. CASE e \in o.made
    <3>1. o.alone /\ Kept(o, e) /\ o.pc # "reread"
      BY <1>1, <1>2, <2>1
    <3> QED BY <1>2, <3>1 DEF Kept
  <2>2. CASE e \notin o.made
    <3>1. o = run[p] /\ n = WrapperSets[o.set][o.at] /\ f = o.factory
      BY <1>1 DEF Entry
    <3>2. /\ pc = "reread" /\ TokenByMint(f, n.mint)'
          /\ made = {x \in run[p].made \cup {n} : run[p].alone}
      BY <1>5, <2>2, <3>1
    <3>3. run[p].alone /\ e = n
      BY <1>5, <2>2, <3>1, <3>2
    <3> QED BY <1>2, <3>1, <3>2, <3>3 DEF Kept
  <2> QED BY <2>1, <2>2
<1>6. r.pc # "idle" /\ r.alone = run[p].alone /\ ~At(p, "idle") /\ Goes(p, r) /\ r.made = made
  BY <1>1, <1>2 DEF At
<1> QED BY <1>3, <1>4, <1>5, <1>6, GoesKeeps

\* It goes on to the next entry with this one noted, made by itself, and then
\* saved, or not.
LEMMA NextKeeps ==
  ASSUME WrapperInv, NEW p \in Ops, run[p].pc \in {"look", "reread"}, More(p), Has(p),
         NEW n, n = Noted(p), UNCHANGED <<factories, tokens>>, file' \in {file, n},
         run[p].pc = "reread" => file' = n,
         Goes(p, [run[p] EXCEPT !.pc = "look", !.copy = n, !.at = @ + 1])
  PROVE  WrapperInv'
<1>1. PICK o : o = run[p]
  OBVIOUS
<1>2. PICK r : r = [o EXCEPT !.pc = "look", !.copy = n, !.at = o.at + 1]
  OBVIOUS
<1>3. o.pc \in {"look", "add", "reread"}
  BY <1>1
<1>4. /\ o = [pc |-> o.pc, factory |-> o.factory, set |-> o.set, copy |-> o.copy, at |-> o.at,
              made |-> o.made, built |-> o.built, alone |-> o.alone]
      /\ o.set \in DOMAIN WrapperSets /\ Len(WrapperSets[o.set]) \in Nat
      /\ o.at \in 1 .. Len(WrapperSets[o.set])
      /\ \A e \in o.made : o.alone /\ Kept(o, e)
  <2>1. o.at <= Len(WrapperSets[o.set])
    BY <1>1 DEF More
  <2>2. o.at \in 1 .. Len(WrapperSets[o.set]) + 1 /\ Len(WrapperSets[o.set]) \in Nat
    BY <1>1, <1>3, Running
  <2>3. o.at \in 1 .. Len(WrapperSets[o.set])
    BY <2>1, <2>2
  <2> QED BY <1>1, <1>3, <2>3, Running
<1>5. r = [pc |-> "look", factory |-> o.factory, set |-> o.set, copy |-> n, at |-> o.at + 1,
          made |-> o.made, built |-> o.built, alone |-> o.alone]
  BY <1>2, <1>4
<1>6. FileTrue(n) /\ \A i \in 1 .. o.at :
        n.wrappers[WrapperSets[o.set][i].key] = Wrapper(o.factory, WrapperSets[o.set][i].mint)
  BY <1>1, <1>3, NotedTrue
<1>7. Grows /\ FileTrue(n)' /\ FileTrue(file)'
  <2>1. Grows
    BY Still
  <2>2. CASE file' = n
    BY <1>6, <2>1, <2>2, TrueStays, Written DEF WrapperInv
  <2>3. CASE UNCHANGED file
    BY <1>6, <2>1, <2>3, TrueStays, Written DEF WrapperInv
  <2> QED BY <2>1, <2>2, <2>3
<1>8. RunTrue(r)'
  <2>1. r.at \in 1 .. Len(WrapperSets[r.set]) + 1 /\ r.at - 1 = o.at
    BY <1>4, <1>5
  <2>2. PastNoted(r)
    BY <1>5, <1>6, <2>1 DEF PastNoted
  <2> QED BY <1>4, <1>5, <1>7, <2>1, <2>2 DEF RunTrue, FileTrue, PastNoted
<1>9. ASSUME NEW e \in o.made
      PROVE  o.alone /\ \E i \in 1 .. o.at : /\ e = WrapperSets[o.set][i]
                                           /\ file'.wrappers[e.key] = Wrapper(o.factory, e.mint)
  <2>1. o.alone /\ Kept(o, e)
    BY <1>4
  <2>2. CASE o.pc = "reread" /\ e = WrapperSets[o.set][o.at]
    <3>1. file' = n
      BY <1>1, <2>2
    <3> QED BY <1>4, <1>6, <2>1, <2>2, <3>1
  <2>3. ASSUME NEW i \in 1 .. o.at - 1, e = WrapperSets[o.set][i],
               file.wrappers[e.key] = Wrapper(o.factory, e.mint)
        PROVE  i \in 1 .. o.at /\ file'.wrappers[e.key] = Wrapper(o.factory, e.mint)
    <3>1. i \in 1 .. o.at
      BY <1>4
    <3> QED BY <1>6, <2>3, <3>1
  <2> QED BY <2>1, <2>2, <2>3 DEF Kept
<1>10. \A e \in r.made : r.alone /\ r.pc \in {"look", "add", "reread"} /\ Kept(r, e)'
  <2>1. r.at - 1 = o.at
    BY <1>4, <1>5
  <2> QED BY <1>5, <1>9, <2>1 DEF Kept
<1>11. r.pc # "idle" /\ r.alone = run[p].alone /\ ~At(p, "idle") /\ Goes(p, r)
  BY <1>1, <1>2, <1>5 DEF At, Goes
<1> QED BY <1>7, <1>8, <1>10, <1>11, GoesKeeps, Still

\* A turn that says nothing of what was made leaves it.
LEMMA SameMade ==
  ASSUME WrapperInv, NEW p \in Ops, NEW pc
  PROVE  [run[p] EXCEPT !.pc = pc] = [run[p] EXCEPT !.pc = pc, !.made = run[p].made]
<1>1. RunTrue(run[p])
  BY DEF WrapperInv
<1> QED BY <1>1 DEF RunTrue

LEMMA LookUpKeeps ==
  ASSUME WrapperInv, NEW p \in Ops, LookUp(p)
  PROVE  WrapperInv'
<1>1. run[p].pc = "look" /\ More(p) /\ UNCHANGED <<factories, tokens, file>>
  BY DEF LookUp, At
<1>2. CASE Has(p)
  <2>1. PICK n : n = Noted(p)
    OBVIOUS
  <2>2. RunTrue(run[p])
    BY DEF WrapperInv
  <2>3. [run[p] EXCEPT !.copy = n, !.at = @ + 1]
          = [run[p] EXCEPT !.pc = "look", !.copy = n, !.at = @ + 1]
    BY <1>1, <2>2 DEF RunTrue
  <2>4. Goes(p, [run[p] EXCEPT !.pc = "look", !.copy = n, !.at = @ + 1])
    BY <1>2, <2>1, <2>3 DEF LookUp
  <2> QED BY <1>1, <1>2, <2>1, <2>4, NextKeeps
<1>3. CASE ~Has(p)
  <2>1. Goes(p, [run[p] EXCEPT !.pc = "add", !.made = run[p].made])
    BY <1>3, SameMade DEF LookUp
  <2> QED BY <1>1, <2>1, TurnKeeps, Still
<1> QED BY <1>2, <1>3

LEMMA AddKeeps ==
  ASSUME WrapperInv, NEW p \in Ops, Add(p)
  PROVE  WrapperInv'
<1>1. run[p].pc = "add" /\ UNCHANGED <<factories, file>> /\ ~At(p, "idle")
  BY DEF Add, At
<1>2. More(p)
  BY <1>1 DEF WrapperInv, RunTrue, More
<1>3. Grows /\ \A t \in tokens' : t.mint \in Mints
  BY <1>1, Still, AddKeepsTokens DEF Add
<1>4. CASE Goes(p, Idle)
  <2>1. FileTrue(file)'
    BY <1>1, <1>3, Written DEF WrapperInv
  <2> QED BY <1>1, <1>3, <1>4, <2>1, EndKeeps
<1>5. CASE Goes(p, [run[p] EXCEPT !.pc = "reread"])
  <2>1. Goes(p, [run[p] EXCEPT !.pc = "reread", !.made = run[p].made])
    BY <1>5, SameMade
  <2> QED BY <1>1, <1>2, <1>3, <2>1, TurnKeeps
<1>6. CASE /\ AddSplToken(run[p].factory, Entry(p).mint, Entry(p).key)
           /\ Goes(p, [run[p] EXCEPT !.pc = "reread",
                                     !.made = {e \in @ \cup {Entry(p)} : run[p].alone}])
  <2>1. PICK made, f, n : /\ f = run[p].factory /\ n = Entry(p)
                          /\ made = {e \in run[p].made \cup {n} : run[p].alone}
    OBVIOUS
  <2>2. Goes(p, [run[p] EXCEPT !.pc = "reread", !.made = made])
    BY <1>6, <2>1
  <2>3. TokenByMint(f, n.mint)'
    <3>1. PICK t : t = [factory |-> f, mint |-> n.mint, symbol |-> n.key]
      OBVIOUS
    <3>2. t \in tokens'
      BY <1>6, <2>1, <3>1 DEF AddSplToken
    <3>3. t.factory = f /\ t.mint = n.mint
      BY <3>1
    <3> QED BY <3>2, <3>3 DEF TokenByMint
  <2> QED BY <1>1, <1>2, <1>3, <2>1, <2>2, <2>3, TurnKeeps
<1> QED BY <1>4, <1>5, <1>6 DEF Add

LEMMA ReReadKeeps ==
  ASSUME WrapperInv, NEW p \in Ops, ReRead(p)
  PROVE  WrapperInv'
<1>1. run[p].pc = "reread" /\ ~At(p, "idle") /\ UNCHANGED <<factories, tokens>>
  BY DEF ReRead, At
<1>2. More(p)
  BY <1>1 DEF WrapperInv, RunTrue, More
<1>3. CASE Has(p)
  <2>1. PICK n : n = Noted(p)
    OBVIOUS
  <2>2. file' = n /\ Goes(p, [run[p] EXCEPT !.pc = "look", !.copy = n, !.at = @ + 1])
    BY <1>3, <2>1 DEF ReRead
  <2> QED BY <1>1, <1>2, <1>3, <2>1, <2>2, NextKeeps
<1>4. CASE ~Has(p)
  <2>1. Goes(p, Idle) /\ UNCHANGED file
    BY <1>4 DEF ReRead
  <2>2. FileTrue(file)'
    BY <1>1, <2>1, Still, Written DEF WrapperInv
  <2> QED BY <1>1, <2>1, <2>2, Still, EndKeeps
<1> QED BY <1>3, <1>4

LEMMA SaveAllKeeps ==
  ASSUME WrapperInv, NEW p \in Ops, SaveAll(p)
  PROVE  WrapperInv'
<1>1. PICK f : f = run[p].copy
  OBVIOUS
<1>2. run[p].pc = "look" /\ ~At(p, "idle") /\ file' = f /\ Goes(p, Idle)
      /\ UNCHANGED <<factories, tokens>>
  BY <1>1 DEF SaveAll, At
<1>3. FileTrue(f)
  BY <1>1, <1>2 DEF WrapperInv, RunTrue
<1>4. FileTrue(file)'
  BY <1>2, <1>3, Still, Written DEF WrapperInv
<1> QED BY <1>2, <1>4, Still, EndKeeps

-----------------------------------------------------------------------------
(* The consumers                                                           *)

LEMMA StartBridgeKeeps ==
  ASSUME WrapperInv, NEW p \in Ops, StartBridge(p)
  PROVE  WrapperInv'
<1>1. PICK env \in RoleEnvs, mint \in GivenMints :
        /\ RolesFit(ResolveRoles(env)) /\ ResolveRoles(env).owner # ZeroAddress
        /\ Begins(p, [Idle EXCEPT !.pc = "saveBridge",
              !.built = [usdcWrapper |-> file.wrappers[Usdc], pdas |-> LoadSolanaPdas(mint),
                         roles |-> ResolveRoles(env)]])
  BY DEF StartBridge
<1>2. PICK b, w, o, r :
        /\ w = file.wrappers[Usdc] /\ o = ResolveRoles(env)
        /\ b = [usdcWrapper |-> w, pdas |-> LoadSolanaPdas(mint), roles |-> o]
        /\ r = [Idle EXCEPT !.pc = "saveBridge", !.built = b]
  OBVIOUS
<1>3. b.usdcWrapper = w /\ b.pdas.cctp.localToken = mint /\ b.roles = o
  BY <1>2 DEF LoadSolanaPdas, DeriveCctpAccounts
<1>4. IsWrapper(w, Usdc)
  BY <1>2, WrapperRecordsAssumption DEF StartBridge, WrapperInv, FileTrue
<1>5. w.mint = mint
  <2>1. w.mint \in Mints /\ [key |-> Usdc, mint |-> w.mint] \in Listed
    BY <1>4 DEF IsWrapper, TokenByMint, WrapperInv
  <2> QED BY <2>1, WrapperListsAssumption DEF GivenMints
<1>6. BridgeTrue(b)
  BY <1>1, <1>2, <1>3, <1>4, <1>5 DEF BridgeTrue, RolesFit
<1>7. UNCHANGED <<factories, tokens, file>> /\ Grows
  BY Still DEF StartBridge
<1>8. BridgeTrue(b)'
  BY <1>6, <1>7, TrueStays DEF WrapperInv
<1>9. r.pc = "saveBridge" /\ r.made = {} /\ r.built = b /\ Begins(p, r)
      /\ r = [pc |-> r.pc, factory |-> r.factory, set |-> r.set, copy |-> r.copy, at |-> r.at,
              made |-> r.made, built |-> r.built, alone |-> r.alone]
  BY <1>1, <1>2 DEF Idle
<1>10. RunTrue(r)'
  BY <1>8, <1>9 DEF RunTrue, BridgeTrue, IsWrapper, TokenByMint
<1> QED BY <1>7, <1>9, <1>10, BeginsKeeps

LEMMA SaveBridgeKeeps ==
  ASSUME WrapperInv, NEW p \in Ops, SaveBridge(p)
  PROVE  WrapperInv'
<1>1. PICK f : f = [file EXCEPT !.bridge = run[p].built]
  OBVIOUS
<1>2. file' = f /\ Goes(p, Idle) /\ UNCHANGED <<factories, tokens>> /\ run[p].pc = "saveBridge"
  BY <1>1 DEF SaveBridge, At
<1>3. BridgeTrue(run[p].built) /\ FileTrue(file)
  BY <1>2 DEF WrapperInv, RunTrue
<1>4. FileTrue(f)
  BY <1>1, <1>3 DEF FileTrue
<1>5. FileTrue(file)'
  BY <1>2, <1>4, Still, Written DEF WrapperInv
<1> QED BY <1>2, <1>5, Still, EndKeeps DEF At

LEMMA StartActivatorKeeps ==
  ASSUME WrapperInv, NEW p \in Ops, StartActivator(p)
  PROVE  WrapperInv'
<1>1. PICK a, r :
        /\ a = [usdcWrapper |-> file.wrappers[Usdc], wsolWrapper |-> file.wrappers[Wsol]]
        /\ r = [Idle EXCEPT !.pc = "saveActivator", !.built = a]
  OBVIOUS
<1>2. Begins(p, r) /\ UNCHANGED <<factories, tokens, file>> /\ Grows
  BY <1>1, Still DEF StartActivator
<1>3. ActivatorTrue(a)
  BY <1>1, WrapperRecordsAssumption DEF StartActivator, WrapperInv, FileTrue, ActivatorTrue
<1>4. ActivatorTrue(a)'
  BY <1>2, <1>3, TrueStays DEF WrapperInv
<1>5. r.pc = "saveActivator" /\ r.made = {} /\ r.built = a
      /\ r = [pc |-> r.pc, factory |-> r.factory, set |-> r.set, copy |-> r.copy, at |-> r.at,
              made |-> r.made, built |-> r.built, alone |-> r.alone]
  BY <1>1 DEF Idle
<1>6. RunTrue(r)'
  BY <1>4, <1>5 DEF RunTrue, ActivatorTrue, IsWrapper, TokenByMint
<1> QED BY <1>2, <1>5, <1>6, BeginsKeeps

LEMMA SaveActivatorKeeps ==
  ASSUME WrapperInv, NEW p \in Ops, SaveActivator(p)
  PROVE  WrapperInv'
<1>1. PICK f : f = [file EXCEPT !.activator = run[p].built]
  OBVIOUS
<1>2. file' = f /\ Goes(p, Idle) /\ UNCHANGED <<factories, tokens>> /\ run[p].pc = "saveActivator"
  BY <1>1 DEF SaveActivator, At
<1>3. ActivatorTrue(run[p].built) /\ FileTrue(file)
  BY <1>2 DEF WrapperInv, RunTrue
<1>4. FileTrue(f)
  BY <1>1, <1>3 DEF FileTrue
<1>5. FileTrue(file)'
  BY <1>2, <1>4, Still, Written DEF WrapperInv
<1> QED BY <1>2, <1>5, Still, EndKeeps DEF At

LEMMA CrashKeeps ==
  ASSUME WrapperInv, NEW p \in Ops, Crash(p)
  PROVE  WrapperInv'
<1>1. FileTrue(file)'
  BY Still, Written DEF Crash, WrapperInv
<1> QED BY <1>1, Still, EndKeeps DEF Crash

-----------------------------------------------------------------------------
LEMMA StepKeeps == WrapperInv /\ [Next]_vars => WrapperInv'
<1> SUFFICES ASSUME WrapperInv, [Next]_vars PROVE WrapperInv'
  OBVIOUS
<1>1. CASE UNCHANGED vars
  BY <1>1, Still, QuietKeeps DEF vars
<1>2. UNION {ResolveSet(w, b) : w \in DOMAIN WrapperSets, b \in {"devnet", "mainnet", None}}
        \subseteq DOMAIN WrapperSets
  <2>1. \A w \in DOMAIN WrapperSets : \A b : ResolveSet(w, b) \subseteq DOMAIN WrapperSets
    BY WrapperRecordsAssumption DEF ResolveSet
  <2> QED BY <2>1
<1>3. CASE Next
  BY <1>2, <1>3, OutsiderKeeps, DeployFactoryKeeps, SaveFactoryKeeps, StartBootstrapKeeps,
     OpenFileKeeps, LookUpKeeps, AddKeeps, ReReadKeeps, SaveAllKeeps, StartBridgeKeeps, SaveBridgeKeeps,
     StartActivatorKeeps, SaveActivatorKeeps, CrashKeeps DEF Next, Step
<1> QED BY <1>1, <1>3

LEMMA WrapperInvariant == Spec => []WrapperInv
BY InitInv, StepKeeps, PTL DEF Spec

\* The records are true, whatever overlapped, crashed or came first.
THEOREM RecordsAlwaysTrue == Spec => []RecordsTrue
<1>1. WrapperInv => RecordsTrue
  BY DEF WrapperInv, FileTrue, BridgeTrue, ActivatorTrue, RecordsTrue
<1> QED BY <1>1, WrapperInvariant, PTL

\* A bootstrap that dies alone has all it registered in the file, but for at
\* most the wrapper it has not read back yet, which is on the chain.
THEOREM AlwaysKeptIfLaterFails == Spec => []KeptIfLaterFails
<1>1. WrapperInv => KeptIfLaterFails
  BY DEF WrapperInv, MadeSaved, Kept, KeptIfLaterFails, At, Entry, Has
<1> QED BY <1>1, WrapperInvariant, PTL

\* A bootstrap that ends leaves its whole list in the file.
THEOREM RunsAreWhole == Spec => WholeRun
<1>1. WrapperInv /\ [Next]_vars => [\A p \in Ops : SaveAll(p) =>
        \A e \in Specs(run[p].set) : file'.wrappers[e.key] = Wrapper(run[p].factory, e.mint)]_vars
  <2> SUFFICES ASSUME WrapperInv, NEW p \in Ops, SaveAll(p), NEW e \in Specs(run[p].set)
               PROVE  file'.wrappers[e.key] = Wrapper(run[p].factory, e.mint)
    BY Zenon
  <2>1. PICK r : r = run[p]
    OBVIOUS
  <2>2. r.pc = "look" /\ file' = r.copy /\ ~(r.at <= Len(WrapperSets[r.set]))
    BY <2>1 DEF SaveAll, At, More
  <2>3. r.at \in 1 .. Len(WrapperSets[r.set]) + 1 /\ Len(WrapperSets[r.set]) \in Nat /\ PastNoted(r)
    BY <2>1, <2>2, Running
  <2>4. PICK i \in 1 .. Len(WrapperSets[r.set]) : e = WrapperSets[r.set][i]
    BY <2>1 DEF Specs
  <2>5. i \in 1 .. r.at - 1
    BY <2>2, <2>3
  <2> QED BY <2>1, <2>2, <2>3, <2>4, <2>5 DEF PastNoted
<1> QED BY <1>1, WrapperInvariant, PTL DEF Spec, WholeRun
=============================================================================
