--------------------------- MODULE BridgeAdminLog ---------------------------
(***************************************************************************)
(* BridgeAdmin with the last address its events name as the author of a    *)
(* change, which is what shows who used which power, and the list that the *)
(* views and the events show together.                                     *)
(***************************************************************************)
EXTENDS BridgeAdmin

VARIABLE by   \* msg.sender of the last administrative transaction

logVars == <<adminVars, by>>

\* The constructor runs under some address.
LogInit == AdminInit /\ by \in People

LogNext ==
  \/ \E s \in People : AdminCall(s) /\ by' = s
  \/ \E d \in Domains : CircleChanges(d) /\ UNCHANGED by

LogSpec == LogInit /\ [][LogNext]_logVars

-----------------------------------------------------------------------------
(* Properties                                                              *)

\* The list as cctpDomains() and cctpRecipientKind() show it follows the
\* destination list the operators rely on: who may change what, and how.
ListedKinds == [d \in Domains |->
  IF \E i \in 1 .. Len(domains) : domains[i] = d THEN dest[d].kind ELSE RECIPIENT_NONE]
Formats == [d \in Domains |-> IF d \in EvmChains THEN RECIPIENT_EVM ELSE RECIPIENT_RAW32]
Destinations == INSTANCE DestinationList WITH
  Served <- Domains \ Refused, Format <- Formats, Closed <- RECIPIENT_NONE,
  Nobody <- Zero, kindOf <- ListedKinds, stopped <- paused, heir <- pendingOwner
ImplementsDestinationList == Destinations!Spec
=============================================================================
