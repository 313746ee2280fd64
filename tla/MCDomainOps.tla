------------------------------ MODULE MCDomainOps ------------------------------
(* Two destinations (an EVM chain, another chain), two people, registries     *)
(* with the merges of the two fields that matter, and a list by hand.         *)
EXTENDS DomainOps

CONSTANTS op1, other, asset, mint

Eth == 0
Aptos == 9

MCDomains == {Eth, Aptos}
MCEvmChains == {Eth}
MCPeople == {op1, other}

Entry(c, d, s, k) == [chain |-> c, domain |-> d, status |-> s, kind |-> k]
EthLive == Entry(1, Eth, "live", RECIPIENT_EVM)
EthGone == Entry(1, Eth, "retired", RECIPIENT_EVM)
AptosGone == Entry(3, Aptos, "retired", RECIPIENT_RAW32)
AptosSoon == Entry(3, Aptos, "preparing", RECIPIENT_RAW32)
AptosOdd == Entry(None, Aptos, "live", RECIPIENT_EVM)

Reg(one, many) == [sourceEvm |-> one, sourceEvms |-> many]
Ask(r) == [registry |-> r, spec |-> None]
MCCommands == {
  Ask(Reg(EthLive, <<EthGone, AptosGone, AptosSoon>>)),
  Ask(Reg(None, <<AptosOdd>>)),
  Ask(Reg(AptosSoon, <<AptosOdd>>)),
  [registry |-> None, spec |-> <<[domain |-> Eth, kind |-> None]>>]}

Network(c, m) == [chain |-> c, mainnet |-> m]
MCNetworks == {Network(200010, FALSE), Network(7531, TRUE)}

ASSUME RegistriesAgree
=============================================================================
