----------------------------- MODULE PriceFeeds -----------------------------
(***************************************************************************)
(* What a consumer of the oracle relies on, per feed: the time of its      *)
(* price only moves forward and never past the clock; a halted feed shows  *)
(* nothing; and it comes back only with a price that is both newer than    *)
(* the one it was halted with and fresh.                                   *)
(***************************************************************************)
EXTENDS Integers

CONSTANTS Feeds, None, Live, Halted

VARIABLES clock,
          mode,     \* [Feeds -> {None, Live, Halted}]
          time,     \* [Feeds -> publish time of the price it holds]
          window    \* [Feeds -> longest age that is fresh]

vars == <<clock, mode, time, window>>

Init ==
  /\ clock \in Nat
  /\ mode = [f \in Feeds |-> None]
  /\ time \in [Feeds -> Nat]
  /\ window \in [Feeds -> Nat]

Tick == clock' > clock /\ UNCHANGED <<mode, time, window>>

\* A feed appears with a price.
Add(f) ==
  /\ mode[f] = None
  /\ mode' = [mode EXCEPT ![f] = Live]
  /\ \E t \in 0 .. clock : time' = [time EXCEPT ![f] = t]
  /\ \A g \in Feeds \ {f} : window'[g] = window[g]
  /\ UNCHANGED clock

\* Newer prices for some live feeds, the others as they were.
Update ==
  /\ time' \in [Feeds -> 0 .. clock]
  /\ \A f \in Feeds : time'[f] # time[f] => mode[f] = Live /\ time'[f] > time[f]
  /\ UNCHANGED <<clock, mode, window>>

Halt(f) ==
  /\ mode[f] # None
  /\ mode' = [mode EXCEPT ![f] = Halted]
  /\ UNCHANGED <<clock, time, window>>

Resume(f) ==
  /\ mode[f] = Halted
  /\ mode' = [mode EXCEPT ![f] = Live]
  /\ \E t \in 0 .. clock : /\ t > time[f] /\ clock - t <= window[f]
                           /\ time' = [time EXCEPT ![f] = t]
  /\ UNCHANGED <<clock, window>>

Next == Tick \/ Update \/ \E f \in Feeds : Add(f) \/ Halt(f) \/ Resume(f)

Spec == Init /\ [][Next]_vars
=============================================================================
