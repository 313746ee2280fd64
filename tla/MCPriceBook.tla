----------------------------- MODULE MCPriceBook -----------------------------
(* Two feeds, a clock of a few seconds, int64 scaled to 0 .. 127.           *)
EXTENDS PriceBook, TLC

CONSTANTS f1, f2, i1, i2, alice, bob

MCAccounts == {f1, f2}
MCFeedIds == {i1, i2}
MCPeople == {alice, bob}
MCWindows == {1, 3, 4}
MCBounds == {0}

Read(price, conf, expo, id, pt) ==
  [owned |-> TRUE, found |-> TRUE, full |-> TRUE, id |-> id, price |-> price, conf |-> conf,
   expo |-> expo, pt |-> pt, peek |-> pt]
Times == 0 .. MaxTime + 1
Good == {Read(5, 0, -1, i1, t) : t \in Times}
\* Non-positive; wide; too large once scaled; of another feed.
Bad == {Read(0, 0, -1, i1, MaxTime), Read(5, 1, -1, i1, MaxTime),
        Read(50, 0, 0, i1, MaxTime), Read(5, 0, -1, i2, MaxTime)}
\* A Partial record: the peek reads some other field.
Partial == {[Read(5, 0, -1, i1, 0) EXCEPT !.full = FALSE, !.peek = t] : t \in {0, MaxTime + 1}}
Missing == {[Read(5, 0, -1, i1, 0) EXCEPT !.found = FALSE]}
\* An account of another program.
Foreign == {[Read(5, 0, -1, i1, 0) EXCEPT !.owned = FALSE]}
MCReads == Good \cup Bad \cup Partial \cup Missing \cup Foreign
\* An exponent the checked addition of 8 does not fit.
MCReadsAnyExpo == {Read(5, 0, -1, i1, 0), Read(5, 0, ExpoMax, i1, 1)}

Symmetry == Permutations(MCAccounts)
=============================================================================
