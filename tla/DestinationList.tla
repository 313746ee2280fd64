--------------------------- MODULE DestinationList ---------------------------
(***************************************************************************)
(* What the operators of the bridge rely on: a map from CCTP domain to the *)
(* recipient format burns there use, and a set of stopped rails.           *)
(*                                                                         *)
(* Only the owner opens a destination or restarts a rail.  The owner or    *)
(* the guardian may close one and stop a rail.  A domain is only ever open *)
(* with the format its chain reads, and never when it cannot be served at  *)
(* all.  Ownership passes to whoever the owner last named, when that       *)
(* person takes it.  Every change carries the name of its author, so that  *)
(* a change by the wrong person is not one of these.                       *)
(***************************************************************************)
CONSTANTS Domains, Served, Format, Closed, Rails, People, Nobody

VARIABLES kindOf,    \* [Domains -> a format, or Closed]
          stopped,   \* stopped rails
          owner, heir, guardian,
          by         \* author of the last change

vars == <<kindOf, stopped, owner, heir, guardian, by>>

Init ==
  /\ kindOf = [d \in Domains |-> Closed]
  /\ stopped = {}
  /\ owner \in People
  /\ heir = Nobody
  /\ guardian \in People \cup {Nobody}
  /\ by \in People

ByOwner(s) == s = owner /\ by' = s /\ UNCHANGED <<owner, guardian>>
ByKeeper(s) == s \in {owner, guardian} /\ by' = s /\ UNCHANGED <<owner, heir, guardian>>

Open(s, d) ==
  /\ ByOwner(s) /\ UNCHANGED <<heir, stopped>>
  /\ kindOf' = [kindOf EXCEPT ![d] = Format[d]]

Close(s, d) ==
  /\ ByKeeper(s) /\ UNCHANGED stopped
  /\ kindOf[d] # Closed
  /\ kindOf' = [kindOf EXCEPT ![d] = Closed]

Stop(s, r) ==
  /\ ByKeeper(s) /\ UNCHANGED kindOf
  /\ stopped' = stopped \cup {r}

Restart(s, r) ==
  /\ ByOwner(s) /\ UNCHANGED <<heir, kindOf>>
  /\ stopped' = stopped \ {r}

Name(s, p) == ByOwner(s) /\ heir' = p /\ UNCHANGED <<kindOf, stopped>>

Appoint(s, p) ==
  /\ s = owner /\ by' = s
  /\ guardian' = p
  /\ UNCHANGED <<kindOf, stopped, owner, heir>>

TakeOver(s) ==
  /\ s = heir /\ by' = s
  /\ owner' = s /\ heir' = Nobody
  /\ UNCHANGED <<kindOf, stopped, guardian>>

Next == \E s \in People :
  \/ \E d \in Served : Open(s, d)
  \/ \E d \in Domains : Close(s, d)
  \/ \E r \in Rails : Stop(s, r) \/ Restart(s, r)
  \/ \E p \in People \cup {Nobody} : Name(s, p) \/ Appoint(s, p)
  \/ TakeOver(s)

Spec == Init /\ [][Next]_vars
=============================================================================
