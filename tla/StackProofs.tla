---------------------------- MODULE StackProofs ----------------------------
(***************************************************************************)
(* Proofs about the stack synthesis, for every context, environment,       *)
(* number of nodes and alternatives file.                                  *)
(*                                                                         *)
(* The invariant, StackInv, says exactly what the steps done so far have    *)
(* left in each variable, in terms of the input and of the alternatives     *)
(* the loop has visited, whichever of the two orders the steps come in: a   *)
(* step makes its own part of it, and leaves the others' alone.  What a     *)
(* whole template promises is then a fact about the input alone.  The last  *)
(* two theorems need that names which look different are different: that    *)
(* no alternative is a name the stack itself gives away (NamesApart), and   *)
(* that two node numbers have two numerals (NumeralsDiffer).                *)
(***************************************************************************)
EXTENDS StackSynthesis, FiniteSetTheorems, SequenceTheorems, TLAPS

(***************************************************************************)
(* Names and zones.                                                        *)
(***************************************************************************)
Configured == IF input.alternatives = None THEN {}
              ELSE DOMAIN input.alternatives.alternatives

(* Every label of a name of this deployment, and the sequences of them. *)
Labels == (UNION {ToSet(name) : name \in input.zones \cup Configured})
          \cup {NodeLabel(i) : i \in Nat}
          \cup {<<"infra">>, <<"truf">>, <<"network">>, input.devPrefix, <<"gateway">>,
                <<"indexer">>, <<"inner", "gateway">>, <<"inner", "indexer">>}
Names == Seq(Labels)

LEMMA InputNames ==
  ASSUME InputTypeOK(input)
  PROVE  input.zones \subseteq Names /\ Configured \subseteq Names
<1>1. ASSUME NEW n \in input.zones \cup Configured
      PROVE  n \in Names
  <2>1. IsName(n)
    BY DEF InputTypeOK, Configured
  <2>2. ToSet(n) \subseteq Labels
    BY DEF Labels
  <2>3. n \in Seq(ToSet(n))
    BY <2>1 DEF IsName
  <2> QED
    BY <2>2, <2>3 DEF Names
<1> QED
  BY <1>1

LEMMA SuffixByIndex ==
  ASSUME NEW n \in Names, NEW z \in Names
  PROVE  InZone(n, z) <=> /\ Len(z) <= Len(n)
                          /\ \A i \in 1..Len(z) : z[i] = n[Len(n) - Len(z) + i]
<1>1. ASSUME NEW s \in Names
      PROVE  /\ Reverse(s) \in Names /\ Len(Reverse(s)) = Len(s)
             /\ \A i \in 1..Len(s) : Reverse(s)[i] = s[Len(s) - i + 1]
  BY <1>1 DEF Reverse, Names
<1>2. InZone(n, z) <=> /\ Len(z) <= Len(n)
                       /\ \A i \in 1..Len(z) : Reverse(z)[i] = Reverse(n)[i]
  BY <1>1 DEF InZone, IsSuffix, IsPrefix, Names
<1>3. InZone(n, z) <=> /\ Len(z) <= Len(n)
                       /\ \A i \in 1..Len(z) : z[Len(z) - i + 1] = n[Len(n) - i + 1]
  BY <1>1, <1>2 DEF Names
<1>4. ASSUME Len(z) <= Len(n),
             \A i \in 1..Len(z) : z[Len(z) - i + 1] = n[Len(n) - i + 1],
             NEW i \in 1..Len(z)
      PROVE  z[i] = n[Len(n) - Len(z) + i]
  <2>1. Len(z) - i + 1 \in 1..Len(z)
    BY DEF Names
  <2>2. /\ Len(z) - (Len(z) - i + 1) + 1 = i
        /\ Len(n) - (Len(z) - i + 1) + 1 = Len(n) - Len(z) + i
    BY DEF Names
  <2> QED
    BY <1>4, <2>1, <2>2
<1>5. ASSUME Len(z) <= Len(n),
             \A i \in 1..Len(z) : z[i] = n[Len(n) - Len(z) + i],
             NEW i \in 1..Len(z)
      PROVE  z[Len(z) - i + 1] = n[Len(n) - i + 1]
  <2>1. Len(z) - i + 1 \in 1..Len(z)
    BY DEF Names
  <2>2. Len(n) - Len(z) + (Len(z) - i + 1) = Len(n) - i + 1
    BY DEF Names
  <2> QED
    BY <1>5, <2>1, <2>2
<1> QED
  BY <1>3, <1>4, <1>5

LEMMA InOwnZone ==
  ASSUME NEW n \in Names, NEW z \in Names
  PROVE  InZone(n \o z, z) /\ n \o z \in Names /\ InZone(z, z)
<1>1. /\ n \o z \in Names /\ Len(n \o z) = Len(n) + Len(z)
      /\ \A i \in 1..Len(z) : (n \o z)[Len(n) + i] = z[i]
  BY DEF Names
<1>2. Len(n \o z) - Len(z) = Len(n) /\ Len(z) \in Nat /\ Len(n) \in Nat
  BY <1>1 DEF Names
<1>3. InZone(n \o z, z)
  <2>1. Len(z) <= Len(n \o z)
    BY <1>1, <1>2
  <2> QED
    BY <1>1, <1>2, <2>1, SuffixByIndex
<1>4. InZone(z, z)
  <2>1. \A i \in 1..Len(z) : Len(z) - Len(z) + i = i
    BY <1>2
  <2> QED
    BY <1>2, <2>1, SuffixByIndex
<1> QED
  BY <1>1, <1>3, <1>4

(* The name as a record of the zone has it lies in the zone. *)
LEMMA RecordedInZone ==
  ASSUME NEW n \in Names, NEW z \in Names
  PROVE  InZone(RecordedName(n, z), z) /\ RecordedName(n, z) \in Names
  BY InOwnZone DEF RecordedName

LEMMA Rejoined ==
  ASSUME NEW n \in Names, NEW z \in Names, InZone(n, z)
  PROVE  BelowZone(n, z) \o z = n
<1> DEFINE b == BelowZone(n, z)
<1>1. Len(n) \in Nat /\ Len(z) \in Nat /\ Len(z) <= Len(n)
  BY SuffixByIndex DEF Names
<1>2. /\ b \in Names /\ Len(b) = Len(n) - Len(z)
      /\ \A i \in 1..(Len(n) - Len(z)) : b[i] = n[i]
  BY <1>1 DEF BelowZone, Names
<1>3. b \o z \in Names /\ Len(b \o z) = Len(n)
  BY <1>1, <1>2 DEF Names
<1>4. ASSUME NEW i \in 1..Len(n)
      PROVE  (b \o z)[i] = n[i]
  <2>1. CASE i <= Len(b)
    BY <1>1, <1>2, <2>1 DEF Names
  <2>2. CASE i > Len(b)
    <3>1. i - Len(b) \in 1..Len(z) /\ Len(n) - Len(z) + (i - Len(b)) = i
      BY <1>1, <1>2, <2>2
    <3>2. (b \o z)[i] = z[i - Len(b)]
      BY <1>1, <1>2, <2>2 DEF Names
    <3>3. z[i - Len(b)] = n[i]
      BY <1>1, <3>1, SuffixByIndex
    <3> QED
      BY <3>2, <3>3
  <2> QED
    BY <1>1, <1>2, <2>1, <2>2
<1> QED
  BY <1>3, <1>4, SeqEqual DEF Names

(***************************************************************************)
(* The order of the steps.                                                 *)
(***************************************************************************)
Done(step) == \E k \in 1..pc : Steps[k] = step

(* The next step becomes done, and no other. *)
LEMMA DoneAfter ==
  ASSUME NEW s, At(s), pc \in Nat, pc' = pc + 1, input' = input, NEW t
  PROVE  Done(t)' <=> Done(t) \/ t = s
<1>1. Steps' = Steps
  BY DEF Steps, AutoSteps, ConfigSteps
<1>2. Steps[pc + 1] = s
  BY DEF At
<1> QED
  BY <1>1, <1>2 DEF Done

LEMMA DoneStays ==
  ASSUME pc' = pc, input' = input, NEW t
  PROVE  Done(t)' <=> Done(t)
  BY DEF Done, Steps, AutoSteps, ConfigSteps

(* What is behind a step, and what ahead of it. *)
LEMMA StepOrder ==
  ASSUME pc \in Nat
  PROVE  /\ At("environment") => Done("cert")
         /\ At("kind") => Done("cert")
         /\ At("network") => Done("cert") /\ ~ Done("network")
         /\ At("validators") => Done("network") /\ ~ Done("validators")
         /\ At("manager") => ~ Done("manager") /\ ~ Done("certificate") /\ ~ Done("lookup")
         /\ At("nodes") => Done("validators") /\ Done("network") /\ ~ Done("nodes") /\ ~ Done("targets") /\ ~ Done("instances")
         /\ At("cluster") => Done("validators") /\ Done("network") /\ ~ Done("cluster")
         /\ At("certificate") => /\ Done("cert") /\ Done("manager") /\ Done("cluster")
                                 /\ ~ Done("certificate") /\ ~ Done("lookup")
         /\ At("gatewayApi") => Done("certificate") /\ ~ Done("gatewayApi") /\ ~ Done("lookup")
         /\ At("indexerApi") => Done("gatewayApi") /\ ~ Done("indexerApi") /\ ~ Done("lookup")
         /\ At("targets") => /\ Done("indexerApi") /\ Done("nodes") /\ ~ Done("targets")
                             /\ ~ Done("lookup")
         /\ At("lookup") => /\ Done("targets") /\ Done("nodes") /\ Done("manager")
                            /\ Done("certificate") /\ ~ Done("lookup") /\ ~ Done("provision")
         /\ At("provision") => /\ Done("lookup") /\ Done("targets") /\ Done("nodes")
                               /\ Done("manager") /\ ~ Done("provision")
  BY DEF Done, At, Steps, AutoSteps, ConfigSteps

LEMMA AllDone ==
  ASSUME pc = Len(Steps)
  PROVE  /\ Done("cert") /\ Done("network") /\ Done("validators") /\ Done("manager")
         /\ Done("nodes") /\ Done("cluster") /\ Done("certificate")
         /\ Done("gatewayApi") /\ Done("indexerApi") /\ Done("targets")
         /\ Done("lookup") /\ Done("provision")
         /\ input.stack = "auto" => Done("instances")
  BY DEF Done, Steps, AutoSteps, ConfigSteps

LEMMA NoneDone ==
  ASSUME pc = 0, NEW s
  PROVE  ~ Done(s) /\ 0 < Len(Steps)
  BY DEF Done, Steps, AutoSteps, ConfigSteps

(***************************************************************************)
(* What an input determines: the network, the targets, what each           *)
(* alternative becomes.                                                    *)
(***************************************************************************)
ContextIsValid == /\ StageIsValid(input.stage) /\ DevPrefixIsValid(input.devPrefix)
                  /\ SpecIsValid(input.stage, input.devPrefix)

NodeNumbers == IF input.stack = "auto" THEN 1..input.numOfNodes
                                       ELSE 1..Len(input.privateKeys)
NodeIds == {NodeTargetID(i) : i \in NodeNumbers}
ApiIds  == {TargetGateway, TargetIndexer}
PublicName(id) == IF id = TargetGateway THEN GatewayName ELSE IndexerName

ThePeers == [i \in NodeNumbers |-> Peer(i, NetworkKeys)]
TheNetwork == [keys |-> NetworkKeys, peers |-> ThePeers,
               genesis |-> IF input.stack = "auto" THEN GenerateGenesisFile(ThePeers)
                                                   ELSE input.genesisFile]

Written == IF input.alternatives = None THEN None ELSE input.alternatives.zone
TwoZones == Written # None /\ Written.name # MainDomain
TargetId(name) == input.alternatives.alternatives[name].targetComponentId

(* The zone of the alternatives once the certificate is made, and in the end. *)
ZoneOfCertificate ==
  IF TwoZones /\ Written.name \in input.zones THEN Written.name ELSE None
ZoneInTheEnd ==
  IF Configured # {} THEN Written.name ELSE ZoneOfCertificate

AddressRecord(i) == ARecord(MainDomain, Named(NodeLabel(i)), ToAddress(NodeTargetID(i)))
InnerRecords == {ARecord(MainDomain, InnerGateway, ToAddress(TargetGateway)),
                 ARecord(MainDomain, InnerIndexer, ToAddress(TargetIndexer))}
PublicRecord(id) == ARecord(MainDomain, PublicName(id), ToApi(PublicName(id)))
NameRecord(name) == ARecord(Written.name, name,
                            IF TargetId(name) \in ApiIds THEN ToApi(name)
                                                         ELSE ToAddress(TargetId(name)))
IdsOf(name) == {<<"AltARecord", Slug(name)>>} \cup
               (IF TargetId(name) \in ApiIds THEN {<<"AltApiGwDomain", Slug(name)>>} ELSE {})

(***************************************************************************)
(* The invariant: what the steps done so far have left.                    *)
(***************************************************************************)
(* The alternatives the loop has made records for. *)
Visited == {name \in Configured \ todo : TargetId(name) \in ApiIds \cup NodeIds}
Provided == IF Done("lookup") THEN Visited ELSE {}

Progress ==
  /\ pc \in 0..Len(Steps)
  /\ outcome \in {"running", "panicked", "synthesized"}
  /\ outcome = "synthesized" <=> pc = Len(Steps)
  /\ Done("cert") => ContextIsValid
  /\ Done("network") => KeysInputIsValid

NetworkMade ==
  /\ Done("network") => network = TheNetwork
  /\ Done("validators") => nodes = [i \in NodeNumbers |-> Node(i)]
  /\ Done("cluster") => /\ backends = {ThePeers[i].address : i \in NodeNumbers}
                        /\ indexedNode = ThePeers[1].address

Attachments ==
  input.stack = "auto" =>
     /\ \A id \in DOMAIN attached : attached[id] = id
     /\ Done("nodes") => NodeIds \subseteq DOMAIN attached
     /\ Done("instances") => ApiIds \subseteq DOMAIN attached

ConfigRead == stackConfig = IF Done("manager") THEN input.alternatives ELSE None

TargetsRegistered ==
  /\ DOMAIN dnsTargets = (IF Done("nodes") THEN NodeIds ELSE {})
                         \cup (IF Done("targets") THEN ApiIds ELSE {})
  /\ \A id \in DOMAIN dnsTargets \cap NodeIds :
        dnsTargets[id].kind = "node" /\ dnsTargets[id].record = ToAddress(id)
  /\ \A id \in DOMAIN dnsTargets \cap ApiIds :
        dnsTargets[id].kind = "fronting" /\ dnsTargets[id].api = id

ApisMade ==
  /\ Done("gatewayApi") => TargetGateway \in DOMAIN apis /\ apis[TargetGateway] = InnerGateway
  /\ Done("indexerApi") => TargetIndexer \in DOMAIN apis /\ apis[TargetIndexer] = InnerIndexer

RecordsMade ==
  records = (IF Done("validators") THEN {AddressRecord(i) : i \in NodeNumbers} ELSE {})
            \cup (IF Done("cluster") THEN InnerRecords ELSE {})
            \cup (IF Done("gatewayApi") THEN {PublicRecord(TargetGateway)} ELSE {})
            \cup (IF Done("indexerApi") THEN {PublicRecord(TargetIndexer)} ELSE {})
            \cup {NameRecord(name) : name \in Provided}

DomainsMade ==
  apiDomains =
    (IF Done("gatewayApi") THEN {[name |-> GatewayName, api |-> TargetGateway]} ELSE {})
    \cup (IF Done("indexerApi") THEN {[name |-> IndexerName, api |-> TargetIndexer]} ELSE {})
    \cup {[name |-> name, api |-> TargetId(name)] :
            name \in {n \in Provided : TargetId(n) \in ApiIds}}

ZoneLookedUp ==
  /\ resolvedAltZone = IF Done("lookup") THEN ZoneInTheEnd
                       ELSE IF Done("certificate") THEN ZoneOfCertificate ELSE None
  /\ Done("lookup") /\ Configured # {} => Written # None /\ Written.name \in input.zones
  /\ errors # {} => Written # None /\ (Written.name \notin input.zones \/ Written.dot)

IdsTaken ==
  constructIds = (IF \/ Done("certificate") /\ TwoZones
                     \/ Done("lookup") /\ Configured # {} THEN {LookupId} ELSE {})
                 \cup UNION {IdsOf(name) : name \in Provided}

LoopState ==
  /\ todo \subseteq Configured
  /\ ~ Done("lookup") => todo = {}
  /\ Done("provision") => todo = {}

SharedNames ==
  {GatewayName, IndexerName} \cup
  {name \in Configured :
     RequiresTlsSanOrDefault(input.alternatives.alternatives[name])}

CertificatesMade ==
  /\ \A c \in DOMAIN certificates \ {"SharedDomainsCert"} :
        /\ certificates[c].names = {BaseDomain}
        /\ certificates[c].validation[BaseDomain] = MainDomain
  /\ "SharedDomainsCert" \in DOMAIN certificates <=> Done("certificate")
  /\ Done("certificate") =>
        /\ certificates["SharedDomainsCert"].names = SharedNames
        /\ \A name \in SharedNames :
              certificates["SharedDomainsCert"].validation[name] =
                IF ZoneOfCertificate = None THEN MainDomain
                ELSE ValidationZone(name, MainDomain, ZoneOfCertificate)

StackInv ==
  /\ InputTypeOK(input) /\ Progress /\ NetworkMade /\ Attachments /\ ConfigRead
  /\ TargetsRegistered /\ ApisMade /\ RecordsMade /\ DomainsMade /\ ZoneLookedUp
  /\ IdsTaken /\ LoopState /\ CertificatesMade

(***************************************************************************)
(* One step: what it is due for, and what it leaves alone.                 *)
(***************************************************************************)
Waits == /\ pc' = pc /\ input' = input
         /\ \/ outcome' = outcome
            \/ outcome = "running" /\ outcome' = "panicked"

(* The steps of the stacks, and the two that go on without one. *)
LEMMA ActionAt ==
  /\ CertStack => At("cert") /\ (Advance \/ Panic)
  /\ StackHostedDomain => At("domain") /\ Advance
  /\ Environment => At("environment") /\ (Advance \/ Panic)
  /\ FrontingKind => At("kind") /\ (Advance \/ Panic)
  /\ KwilNetworkConfig => At("network") /\ (Advance \/ Panic)
  /\ NewValidatorSet => At("validators") /\ Advance
  /\ NewAlternativeDomainManager => At("manager") /\ Advance
  /\ LaunchAndRegisterNodes => At("nodes") /\ Advance
  /\ NewKwilCluster => At("cluster") /\ Advance
  /\ LaunchClusterInstances => At("instances") /\ Advance
  /\ SharedCertificate => At("certificate") /\ (Advance \/ Panic)
  /\ GatewayFronting => At("gatewayApi") /\ (Advance \/ Panic)
  /\ IndexerFronting => At("indexerApi") /\ (Advance \/ Panic)
  /\ RegisterFrontings => At("targets") /\ Advance
  /\ ProvisionAlternativeDomains => At("lookup") /\ (Advance \/ Panic)
  /\ ProvisionNext => At("provision") /\ Waits
  /\ Provisioned => At("provision") /\ Advance
<1> USE DEF Waits, Advance
<1>1. CertStack => At("cert") /\ (Advance \/ Panic)
  BY DEF CertStack
<1>2. StackHostedDomain => At("domain") /\ Advance
  BY DEF StackHostedDomain
<1>3. Environment => At("environment") /\ (Advance \/ Panic)
  BY DEF Environment
<1>4. FrontingKind => At("kind") /\ (Advance \/ Panic)
  BY DEF FrontingKind
<1>5. KwilNetworkConfig => At("network") /\ (Advance \/ Panic)
  BY DEF KwilNetworkConfig
<1>6. NewValidatorSet => At("validators") /\ Advance
  BY DEF NewValidatorSet
<1>7. NewAlternativeDomainManager => At("manager") /\ Advance
  BY DEF NewAlternativeDomainManager
<1>8. LaunchAndRegisterNodes => At("nodes") /\ Advance
  BY DEF LaunchAndRegisterNodes
<1>9. NewKwilCluster => At("cluster") /\ Advance
  BY DEF NewKwilCluster
<1>10. LaunchClusterInstances => At("instances") /\ Advance
  BY DEF LaunchClusterInstances
<1>11. SharedCertificate => At("certificate") /\ (Advance \/ Panic)
  BY DEF SharedCertificate
<1>12. GatewayFronting => At("gatewayApi") /\ (Advance \/ Panic)
  BY DEF GatewayFronting, AttachRoutes
<1>13. IndexerFronting => At("indexerApi") /\ (Advance \/ Panic)
  BY DEF IndexerFronting, AttachRoutes
<1>14. RegisterFrontings => At("targets") /\ Advance
  BY DEF RegisterFrontings
<1>15. ProvisionAlternativeDomains => At("lookup") /\ (Advance \/ Panic)
  BY DEF ProvisionAlternativeDomains
<1>16. ProvisionNext => At("provision") /\ Waits
  BY DEF ProvisionNext, ProvisionAlternative, At
<1>17. Provisioned => At("provision") /\ Advance
  BY DEF Provisioned
<1> HIDE DEF Waits, Advance
<1> QED
  BY <1>1, <1>2, <1>3, <1>4, <1>5, <1>6, <1>7, <1>8, <1>9, <1>10, <1>11, <1>12,
     <1>13, <1>14, <1>15, <1>16, <1>17, Zenon

LEMMA OneStepIsDue ==
  ASSUME NEW s, NEW t, At(s), At(t)
  PROVE  s = t
  BY DEF At

LEMMA StepTaken ==
  ASSUME Next
  PROVE  /\ At("cert") => CertStack
         /\ At("network") => KwilNetworkConfig
         /\ At("validators") => NewValidatorSet
         /\ At("manager") => NewAlternativeDomainManager
         /\ At("nodes") => LaunchAndRegisterNodes
         /\ At("cluster") => NewKwilCluster
         /\ At("instances") => LaunchClusterInstances
         /\ At("certificate") => SharedCertificate
         /\ At("gatewayApi") => GatewayFronting
         /\ At("indexerApi") => IndexerFronting
         /\ At("targets") => RegisterFrontings
         /\ At("lookup") => ProvisionAlternativeDomains
         /\ At("provision") => ProvisionNext \/ Provisioned
         /\ At("domain") => StackHostedDomain
         /\ At("environment") => Environment
         /\ At("kind") => FrontingKind
<1>1. Finished => \A s : ~ At(s)
  BY DEF Finished, At
<1>2. \A s, t : At(s) /\ At(t) => s = t
  BY OneStepIsDue
<1>3. \/ CertStack \/ StackHostedDomain \/ Environment \/ FrontingKind
      \/ KwilNetworkConfig \/ NewValidatorSet \/ NewAlternativeDomainManager
      \/ LaunchAndRegisterNodes \/ NewKwilCluster \/ LaunchClusterInstances
      \/ SharedCertificate \/ GatewayFronting \/ IndexerFronting
      \/ RegisterFrontings \/ ProvisionAlternativeDomains \/ ProvisionNext
      \/ Provisioned \/ Finished
  BY DEF Next
<1> QED
  BY <1>1, <1>2, <1>3, ActionAt, SMT

(* A step that panics, or that waits in the loop, is not done. *)
LEMMA DoneUnless ==
  ASSUME Next, pc \in Nat
  PROVE  /\ (\E s : At(s) /\ Advance) \/ Waits
         /\ input' = input
         /\ \A s : ~ At(s) => (Done(s)' <=> Done(s))
         /\ pc' = pc => \A s : Done(s)' <=> Done(s)
         /\ Advance => \A s : At(s) => \A t : Done(t)' <=> Done(t) \/ t = s
<1>1. (\E s : At(s) /\ Advance) \/ Waits
  <2>1. Finished => Waits
    BY DEF Finished, vars, Waits
  <2>3. ASSUME NEW s, At(s), Panic
        PROVE  Waits
    BY <2>3 DEF At, Panic, Waits
  <2>2. \/ CertStack \/ StackHostedDomain \/ Environment \/ FrontingKind
        \/ KwilNetworkConfig \/ NewValidatorSet \/ NewAlternativeDomainManager
        \/ LaunchAndRegisterNodes \/ NewKwilCluster \/ LaunchClusterInstances
        \/ SharedCertificate \/ GatewayFronting \/ IndexerFronting
        \/ RegisterFrontings \/ ProvisionAlternativeDomains \/ ProvisionNext
        \/ Provisioned \/ Finished
    BY DEF Next
  <2> QED
    BY <2>1, <2>2, <2>3, ActionAt
<1>3. ASSUME pc' = pc
      PROVE  \A s : Done(s)' <=> Done(s)
  BY <1>1, <1>3, DoneStays DEF Waits, Advance
<1>4. ASSUME NEW s, At(s), Advance
      PROVE  \A t : Done(t)' <=> Done(t) \/ t = s
  BY <1>4, DoneAfter DEF Advance
<1>5. input' = input
  BY <1>1 DEF Waits, Advance
<1>6. pc' = pc \/ \E s : At(s) /\ Advance
  BY <1>1 DEF Waits
<1>7. ASSUME NEW s, ~ At(s)
      PROVE  Done(s)' <=> Done(s)
  BY <1>3, <1>4, <1>6, <1>7
<1> QED
  BY <1>1, <1>3, <1>4, <1>5, <1>7

(* The variables each step is the only one to write. *)
LEMMA Frame ==
  ASSUME Next
  PROVE  /\ ~ At("network") => network' = network
         /\ ~ At("validators") => nodes' = nodes
         /\ ~ At("cluster") => backends' = backends /\ indexedNode' = indexedNode
         /\ ~ At("nodes") /\ ~ At("instances") => attached' = attached
         /\ ~ At("manager") => stackConfig' = stackConfig
         /\ ~ At("nodes") /\ ~ At("targets") => dnsTargets' = dnsTargets
         /\ ~ At("gatewayApi") /\ ~ At("indexerApi") => apis' = apis
         /\ /\ ~ At("validators") /\ ~ At("cluster")
            /\ ~ At("gatewayApi") /\ ~ At("indexerApi") /\ ~ At("provision")
            => records' = records
         /\ ~ At("gatewayApi") /\ ~ At("indexerApi") /\ ~ At("provision")
            => apiDomains' = apiDomains
         /\ ~ At("certificate") /\ ~ At("lookup")
            => resolvedAltZone' = resolvedAltZone /\ errors' = errors
         /\ ~ At("certificate") /\ ~ At("lookup") /\ ~ At("provision")
            => constructIds' = constructIds
         /\ ~ At("lookup") /\ ~ At("provision") => todo' = todo
         /\ ~ At("cert") /\ ~ At("domain") /\ ~ At("network") /\ ~ At("certificate")
            => certificates' = certificates
<1> USE DEF Panic, managerVars, hostVars, templateVars
<1>1. CASE CertStack
  BY <1>1 DEF CertStack
<1>2. CASE StackHostedDomain
  BY <1>2 DEF StackHostedDomain
<1>3. CASE Environment
  BY <1>3 DEF Environment
<1>4. CASE FrontingKind
  BY <1>4 DEF FrontingKind
<1>5. CASE KwilNetworkConfig
  BY <1>5 DEF KwilNetworkConfig
<1>6. CASE NewValidatorSet
  BY <1>6 DEF NewValidatorSet
<1>7. CASE NewAlternativeDomainManager
  BY <1>7 DEF NewAlternativeDomainManager
<1>8. CASE LaunchAndRegisterNodes
  BY <1>8 DEF LaunchAndRegisterNodes
<1>9. CASE NewKwilCluster
  BY <1>9 DEF NewKwilCluster
<1>10. CASE LaunchClusterInstances
  BY <1>10 DEF LaunchClusterInstances
<1>11. CASE SharedCertificate
  BY <1>11 DEF SharedCertificate
<1>12. CASE GatewayFronting
  BY <1>12 DEF GatewayFronting, AttachRoutes
<1>13. CASE IndexerFronting
  BY <1>13 DEF IndexerFronting, AttachRoutes
<1>14. CASE RegisterFrontings
  BY <1>14 DEF RegisterFrontings
<1>15. CASE ProvisionAlternativeDomains
  BY <1>15 DEF ProvisionAlternativeDomains
<1>16. CASE ProvisionNext
  BY <1>16 DEF ProvisionNext
<1>17. CASE Provisioned
  BY <1>17 DEF Provisioned
<1>18. CASE Finished
  BY <1>18 DEF Finished, vars
<1> QED
  BY <1>1, <1>2, <1>3, <1>4, <1>5, <1>6, <1>7, <1>8, <1>9, <1>10, <1>11, <1>12,
     <1>13, <1>14, <1>15, <1>16, <1>17, <1>18 DEF Next

(***************************************************************************)
(* The invariant is kept, part by part.                                    *)
(***************************************************************************)
LEMMA ProgressKept ==
  ASSUME StackInv, Next
  PROVE  Progress'
<1> pc \in Nat
  BY DEF StackInv, Progress
<1> Steps' = Steps /\ Len(Steps) \in Nat
  BY DoneUnless DEF Steps, AutoSteps, ConfigSteps
<1>1. (\E s : At(s) /\ Advance) \/ Waits
  BY DoneUnless
<1>2. /\ pc' \in 0..Len(Steps)
      /\ outcome' \in {"running", "panicked", "synthesized"}
      /\ outcome' = "synthesized" <=> pc' = Len(Steps)
  <2>1. CASE \E s : At(s) /\ Advance
    BY <2>1 DEF StackInv, Progress, At, Advance
  <2>2. CASE Waits
    BY <2>2 DEF StackInv, Progress, Waits
  <2> QED
    BY <1>1, <2>1, <2>2
<1>3. /\ ContextIsValid' <=> ContextIsValid
      /\ KeysInputIsValid' <=> KeysInputIsValid
  BY DoneUnless DEF ContextIsValid, KeysInputIsValid
<1>4. (Done("cert") => ContextIsValid)'
  <2>1. CASE ~ At("cert")
    BY <1>3, <2>1, DoneUnless DEF StackInv, Progress
  <2>2. CASE At("cert")
    BY <1>3, <2>2, DoneUnless, StepTaken DEF StackInv, Progress, CertStack, Panic, ContextIsValid
  <2> QED
    BY <2>1, <2>2
<1>5. (Done("network") => KeysInputIsValid)'
  <2>1. CASE ~ At("network")
    BY <1>3, <2>1, DoneUnless DEF StackInv, Progress
  <2>2. CASE At("network")
    BY <1>3, <2>2, DoneUnless, StepTaken DEF StackInv, Progress, KwilNetworkConfig, Panic
  <2> QED
    BY <2>1, <2>2
<1> QED
  BY <1>2, <1>4, <1>5 DEF Progress

(* The input does not change, nor what it determines. *)
LEMMA RunConstants ==
  ASSUME input' = input
  PROVE  /\ InputTypeOK(input)' <=> InputTypeOK(input)
         /\ NodeNumbers' = NodeNumbers /\ NodeIds' = NodeIds /\ ApiIds' = ApiIds
         /\ NetworkKeys' = NetworkKeys /\ ThePeers' = ThePeers /\ TheNetwork' = TheNetwork
         /\ Configured' = Configured /\ Written' = Written /\ (TwoZones' <=> TwoZones)
         /\ ZoneOfCertificate' = ZoneOfCertificate /\ ZoneInTheEnd' = ZoneInTheEnd
         /\ SharedNames' = SharedNames /\ BaseDomain' = BaseDomain
         /\ GatewayName' = GatewayName /\ IndexerName' = IndexerName
         /\ InnerGateway' = InnerGateway /\ InnerIndexer' = InnerIndexer
         /\ InnerRecords' = InnerRecords
         /\ \A id : PublicRecord(id)' = PublicRecord(id)
         /\ \A i : AddressRecord(i)' = AddressRecord(i)
         /\ \A n : /\ TargetId(n)' = TargetId(n) /\ NameRecord(n)' = NameRecord(n)
                   /\ IdsOf(n)' = IdsOf(n)
<1>1. \A l : Named(l)' = Named(l)
  BY DEF Named
<1>2. BaseDomain' = BaseDomain
  BY DEF BaseDomain
<1>3. /\ GatewayName' = GatewayName /\ IndexerName' = IndexerName
      /\ InnerGateway' = InnerGateway /\ InnerIndexer' = InnerIndexer
  BY <1>1 DEF GatewayName, IndexerName, InnerGateway, InnerIndexer
<1>4. /\ NodeNumbers' = NodeNumbers /\ ApiIds' = ApiIds /\ NetworkKeys' = NetworkKeys
      /\ (InputTypeOK(input)' <=> InputTypeOK(input))
  BY DEF NodeNumbers, ApiIds, NetworkKeys, InputTypeOK
<1>5. ThePeers' = ThePeers /\ NodeIds' = NodeIds
  BY <1>1, <1>4 DEF ThePeers, Peer, NodeIds
<1>6. TheNetwork' = TheNetwork
  BY <1>4, <1>5 DEF TheNetwork
<1>7. /\ Configured' = Configured /\ Written' = Written
      /\ \A n : TargetId(n)' = TargetId(n)
  BY DEF Configured, Written, TargetId
<1>8. TwoZones' <=> TwoZones
  BY <1>7 DEF TwoZones
<1>9. ZoneOfCertificate' = ZoneOfCertificate
  BY <1>7, <1>8 DEF ZoneOfCertificate
<1>10. ZoneInTheEnd' = ZoneInTheEnd
  BY <1>7, <1>9 DEF ZoneInTheEnd
<1>11. SharedNames' = SharedNames
  BY <1>3, <1>7 DEF SharedNames
<1>12. InnerRecords' = InnerRecords
  BY <1>3 DEF InnerRecords
<1>13. \A id : PublicRecord(id)' = PublicRecord(id)
  BY <1>3 DEF PublicRecord, PublicName
<1>14. \A i : AddressRecord(i)' = AddressRecord(i)
  BY <1>1 DEF AddressRecord
<1>15. \A n : NameRecord(n)' = NameRecord(n) /\ IdsOf(n)' = IdsOf(n)
  BY <1>4, <1>7 DEF NameRecord, IdsOf
<1> QED
  BY <1>2, <1>3, <1>4, <1>5, <1>6, <1>7, <1>8, <1>9, <1>10, <1>11, <1>12, <1>13,
     <1>14, <1>15

LEMMA NetworkMadeKept ==
  ASSUME StackInv, Next
  PROVE  NetworkMade'
<1> pc \in Nat
  BY DEF StackInv, Progress
<1> input' = input
  BY DoneUnless
<1>1. /\ NodeNumbers' = NodeNumbers /\ ThePeers' = ThePeers /\ TheNetwork' = TheNetwork
  BY RunConstants
<1>2. DOMAIN NetworkKeys = NodeNumbers
  BY DEF StackInv, InputTypeOK, NetworkKeys, NodeNumbers
<1>3. (Done("network") => network = TheNetwork)'
  <2>1. CASE ~ At("network")
    BY <1>1, <2>1, DoneUnless, Frame DEF StackInv, NetworkMade
  <2>2. CASE At("network")
    <3>1. CASE Panic
      BY <1>1, <3>1, DoneUnless DEF Panic, StackInv, NetworkMade
    <3>2. CASE ~ Panic
      <4>1. network' = [keys |-> NetworkKeys,
                        peers |-> [i \in DOMAIN NetworkKeys |-> Peer(i, NetworkKeys)],
                        genesis |-> IF input.stack = "auto"
                                    THEN GenerateGenesisFile(
                                           [i \in DOMAIN NetworkKeys |-> Peer(i, NetworkKeys)])
                                    ELSE input.genesisFile]
        BY <2>2, <3>2, StepTaken DEF KwilNetworkConfig
      <4> QED
        BY <1>1, <1>2, <4>1 DEF TheNetwork, ThePeers
    <3> QED
      BY <3>1, <3>2
  <2> QED
    BY <2>1, <2>2
<1>4. DOMAIN ThePeers = NodeNumbers /\ TheNetwork.peers = ThePeers
  BY DEF ThePeers, TheNetwork
<1>5. Done("network") => network' = network
  BY StepOrder, Frame
<1>6. Done("network")' /\ ~ Done("network") => At("network")
  BY DoneUnless
<1>7. (Done("validators") => nodes = [i \in NodeNumbers |-> Node(i)])'
  <2>1. CASE ~ At("validators")
    <3>1. Done("validators") => Done("network")
      BY DEF Done, Steps, AutoSteps, ConfigSteps, StackInv, Progress
    <3>2. network' = network => \A i : Node(i)' = Node(i)
      BY DEF Node, Bootnodes
    <3> QED
      BY <1>1, <1>5, <2>1, <3>1, <3>2, DoneUnless, Frame DEF StackInv, NetworkMade
  <2>2. CASE At("validators")
    <3>1. network' = network /\ network = TheNetwork
      BY <1>5, <2>2, StepOrder DEF StackInv, NetworkMade
    <3>2. nodes' = [i \in DOMAIN network.peers |-> Node(i)]
      BY <2>2, StepTaken DEF NewValidatorSet
    <3>3. \A i : Node(i)' = Node(i)
      BY <3>1 DEF Node, Bootnodes
    <3> QED
      BY <1>1, <1>4, <3>1, <3>2, <3>3
  <2> QED
    BY <2>1, <2>2
<1>8. (Done("cluster") => /\ backends = {ThePeers[i].address : i \in NodeNumbers}
                          /\ indexedNode = ThePeers[1].address)'
  <2>1. CASE ~ At("cluster")
    BY <1>1, <2>1, DoneUnless, Frame DEF StackInv, NetworkMade
  <2>2. CASE At("cluster")
    <3>1. network = TheNetwork /\ DOMAIN nodes = NodeNumbers
      BY <2>2, StepOrder DEF StackInv, NetworkMade
    <3>2. /\ backends' = {network.peers[i].address : i \in DOMAIN nodes}
          /\ indexedNode' = network.peers[1].address
      BY <2>2, StepTaken DEF NewKwilCluster
    <3> QED
      BY <1>1, <1>4, <3>1, <3>2
  <2> QED
    BY <2>1, <2>2
<1> QED
  BY <1>3, <1>7, <1>8 DEF NetworkMade

LEMMA AttachmentsKept ==
  ASSUME StackInv, Next
  PROVE  Attachments'
<1> pc \in Nat
  BY DEF StackInv, Progress
<1> input' = input
  BY DoneUnless
<1>1. NodeIds' = NodeIds /\ ApiIds' = ApiIds
  BY RunConstants
<1>2. CASE ~ At("nodes") /\ ~ At("instances")
  BY <1>1, <1>2, DoneUnless, Frame DEF StackInv, Attachments
<1>3. CASE At("nodes") /\ input.stack = "auto"
  <2>1. /\ attached' = [id \in {NodeTargetID(i) : i \in DOMAIN nodes} |-> id]
        /\ Advance
    BY <1>3, StepTaken DEF LaunchAndRegisterNodes
  <2>2. {NodeTargetID(i) : i \in DOMAIN nodes} = NodeIds
    BY <1>3, StepOrder DEF StackInv, NetworkMade, NodeIds
  <2>3. ~ Done("instances")'
    BY <1>3, <2>1, StepOrder, DoneUnless
  <2> QED
    BY <1>1, <2>1, <2>2, <2>3 DEF Attachments
<1>4. CASE At("instances") /\ input.stack = "auto"
  <2>1. /\ attached' = With(With(attached, TargetGateway, TargetGateway),
                            TargetIndexer, TargetIndexer)
        /\ Advance
    BY <1>4, StepTaken DEF LaunchClusterInstances
  <2>2. Done("nodes")' <=> Done("nodes")
    BY <1>4, DoneUnless, OneStepIsDue
  <2> QED
    BY <1>1, <1>4, <2>1, <2>2 DEF StackInv, Attachments, With, ApiIds
<1> QED
  BY <1>2, <1>3, <1>4 DEF Attachments

LEMMA ConfigReadKept ==
  ASSUME StackInv, Next
  PROVE  ConfigRead'
<1> pc \in Nat
  BY DEF StackInv, Progress
<1> input' = input
  BY DoneUnless
<1>1. CASE ~ At("manager")
  BY <1>1, DoneUnless, Frame DEF StackInv, ConfigRead
<1>2. CASE At("manager")
  <2>1. stackConfig' = input.alternatives /\ Advance
    BY <1>2, StepTaken DEF NewAlternativeDomainManager, LoadConfig
  <2>2. Done("manager")'
    BY <1>2, <2>1, DoneUnless
  <2> QED
    BY <2>1, <2>2 DEF ConfigRead
<1> QED
  BY <1>1, <1>2

LEMMA IdsAreApart ==
  /\ NodeIds \cap ApiIds = {}
  /\ TargetGateway # TargetIndexer
  /\ \A i, j : NodeTargetID(i) = NodeTargetID(j) => i = j
  BY DEF NodeIds, ApiIds, NodeTargetID, TargetGateway, TargetIndexer

LEMMA TargetsRegisteredKept ==
  ASSUME StackInv, Next
  PROVE  TargetsRegistered'
<1> pc \in Nat
  BY DEF StackInv, Progress
<1> input' = input
  BY DoneUnless
<1>1. NodeIds' = NodeIds /\ ApiIds' = ApiIds
  BY RunConstants
<1>2. CASE ~ At("nodes") /\ ~ At("targets")
  BY <1>1, <1>2, DoneUnless, Frame DEF StackInv, TargetsRegistered
<1>3. CASE At("nodes")
  <2>1. /\ dnsTargets' = Registered(
              [id \in {NodeTargetID(i) : i \in DOMAIN nodes} |->
                 NodeTarget(id, network.peers[id[2]].address)])
        /\ Advance
    BY <1>3, StepTaken DEF LaunchAndRegisterNodes
  <2>2. {NodeTargetID(i) : i \in DOMAIN nodes} = NodeIds
    BY <1>3, StepOrder DEF StackInv, NetworkMade, NodeIds
  <2>3. DOMAIN dnsTargets = {}
    BY <1>3, StepOrder DEF StackInv, TargetsRegistered
  <2>4. /\ DOMAIN dnsTargets' = NodeIds
        /\ \A id \in NodeIds :
              /\ dnsTargets'[id].kind = "node"
              /\ dnsTargets'[id].record = ToAddress(id)
    BY <2>1, <2>2, <2>3 DEF Registered, NodeTarget
  <2>5. Done("nodes")' /\ ~ Done("targets")'
    BY <1>3, <2>1, StepOrder, DoneUnless
  <2> QED
    BY <1>1, <2>4, <2>5, IdsAreApart DEF TargetsRegistered
<1>4. CASE At("targets")
  <2>1. /\ dnsTargets' = Registered(
              [id \in {TargetGateway, TargetIndexer} |->
                 FrontingResult(id, IF id = TargetGateway THEN GatewayName
                                                          ELSE IndexerName)])
        /\ Advance
    BY <1>4, StepTaken DEF RegisterFrontings
  <2>2. DOMAIN dnsTargets = NodeIds
    BY <1>4, StepOrder DEF StackInv, TargetsRegistered
  <2>3. DOMAIN dnsTargets' = NodeIds \cup ApiIds
    BY <2>1, <2>2 DEF Registered, ApiIds
  <2>4. \A id \in NodeIds : dnsTargets'[id] = dnsTargets[id]
    BY <2>1, <2>2, IdsAreApart DEF Registered, ApiIds
  <2>5. \A id \in ApiIds : dnsTargets'[id].kind = "fronting" /\ dnsTargets'[id].api = id
    BY <2>1 DEF Registered, ApiIds, FrontingResult
  <2>6. Done("nodes")' /\ Done("targets")'
    BY <1>4, <2>1, StepOrder, DoneUnless
  <2>7. \A id \in NodeIds : dnsTargets[id].kind = "node" /\ dnsTargets[id].record = ToAddress(id)
    BY <2>2 DEF StackInv, TargetsRegistered
  <2> QED
    BY <1>1, <2>3, <2>4, <2>5, <2>6, <2>7, IdsAreApart DEF TargetsRegistered
<1> QED
  BY <1>2, <1>3, <1>4

LEMMA ApisMadeKept ==
  ASSUME StackInv, Next
  PROVE  ApisMade'
<1> pc \in Nat
  BY DEF StackInv, Progress
<1> input' = input
  BY DoneUnless
<1>1. InnerGateway' = InnerGateway /\ InnerIndexer' = InnerIndexer
  BY RunConstants
<1>2. CASE ~ At("gatewayApi") /\ ~ At("indexerApi")
  BY <1>1, <1>2, DoneUnless, Frame DEF StackInv, ApisMade
<1>3. ASSUME NEW id \in ApiIds, NEW fqdn, AttachRoutes(id, fqdn)
      PROVE  \/ Panic
             \/ Advance /\ apis' = With(apis, id, Endpoint(id))
  BY <1>3 DEF AttachRoutes
<1>4. CASE Panic
  BY <1>1, <1>4, DoneUnless DEF Panic, templateVars, StackInv, ApisMade
<1>5. CASE At("gatewayApi") /\ ~ Panic
  <2>1. Advance /\ apis' = With(apis, TargetGateway, InnerGateway)
    BY <1>3, <1>5, StepTaken DEF GatewayFronting, ApiIds, Endpoint
  <2>2. ~ Done("indexerApi")'
    <3>1. ~ Done("indexerApi")
      BY <1>5 DEF At, Done, Steps, AutoSteps, ConfigSteps, StackInv, Progress
    <3> QED
      BY <1>5, <3>1, OneStepIsDue, DoneUnless
  <2> QED
    BY <1>1, <2>1, <2>2 DEF ApisMade, With
<1>6. CASE At("indexerApi") /\ ~ Panic
  <2>1. Advance /\ apis' = With(apis, TargetIndexer, InnerIndexer)
    BY <1>3, <1>6, StepTaken, IdsAreApart DEF IndexerFronting, ApiIds, Endpoint
  <2>2. TargetGateway \in DOMAIN apis /\ apis[TargetGateway] = InnerGateway
    BY <1>6, StepOrder DEF StackInv, ApisMade
  <2> QED
    BY <1>1, <2>1, <2>2, IdsAreApart DEF ApisMade, With
<1> QED
  BY <1>2, <1>4, <1>5, <1>6

(* Behind the manager's first phase the model's operators read the input. *)
LEMMA ConfigIsInput ==
  ASSUME ConfigRead, Done("manager")
  PROVE  /\ stackConfig = input.alternatives
         /\ NothingToProvision <=> Configured = {}
         /\ AlternativeHostedZoneDomain = Written
         /\ Alternatives = Configured
         /\ SubjectAlternativeNames(<<GatewayName, IndexerName>>) = SharedNames
<1>1. stackConfig = input.alternatives
  BY DEF ConfigRead
<1>2. ToSet(<<GatewayName, IndexerName>>) = {GatewayName, IndexerName}
  BY DEF ToSet
<1>3. ConfiguredSans = {name \in Configured :
          RequiresTlsSanOrDefault(input.alternatives.alternatives[name])}
  BY <1>1 DEF ConfiguredSans, Configured
<1> QED
  BY <1>1, <1>2, <1>3 DEF NothingToProvision, Configured, AlternativeHostedZoneDomain,
     Written, Alternatives, SubjectAlternativeNames, SharedNames

LEMMA LoopStateKept ==
  ASSUME StackInv, Next
  PROVE  LoopState'
<1> pc \in Nat
  BY DEF StackInv, Progress
<1> input' = input
  BY DoneUnless
<1>1. Configured' = Configured
  BY RunConstants
<1>2. CASE ~ At("lookup") /\ ~ At("provision")
  BY <1>1, <1>2, DoneUnless, Frame DEF StackInv, LoopState
<1>3. CASE Panic
  BY <1>1, <1>3, DoneUnless DEF Panic, managerVars, StackInv, LoopState
<1>4. CASE At("lookup") /\ ~ Panic
  <2>1. todo = {} /\ ~ Done("provision")
    BY <1>4, StepOrder DEF StackInv, LoopState
  <2>2. Done("manager") /\ ConfigRead
    BY <1>4, StepOrder DEF StackInv
  <2>3. Advance /\ (todo' = todo \/ todo' = DOMAIN stackConfig.alternatives)
    BY <1>4, StepTaken DEF ProvisionAlternativeDomains, managerVars
  <2>4. todo' = todo \/ todo' = Configured
    <3>1. CASE NothingToProvision
      BY <1>4, <3>1, StepTaken DEF ProvisionAlternativeDomains, managerVars
    <3>2. CASE ~ NothingToProvision
      BY <2>2, <2>3, <3>2, ConfigIsInput DEF NothingToProvision, Configured
    <3> QED
      BY <3>1, <3>2
  <2>5. Done("lookup")' /\ ~ Done("provision")'
    BY <1>4, <2>1, <2>3, DoneUnless, OneStepIsDue
  <2> QED
    BY <1>1, <2>1, <2>4, <2>5 DEF LoopState
<1>5. CASE At("provision")
  <2>1. Done("lookup") /\ ~ Done("provision")
    BY <1>5, StepOrder
  <2>2. CASE ProvisionNext
    <3>1. todo' \subseteq todo /\ pc' = pc
      BY <2>2 DEF ProvisionNext, ProvisionAlternative
    <3> QED
      BY <1>1, <2>1, <3>1, DoneUnless DEF StackInv, LoopState
  <2>3. CASE Provisioned
    <3>1. todo' = todo /\ todo = {} /\ Advance
      BY <2>3 DEF Provisioned, managerVars
    <3>2. Done("lookup")'
      BY <1>5, <2>1, <3>1, DoneUnless
    <3> QED
      BY <1>1, <3>1, <3>2 DEF LoopState
  <2> QED
    BY <1>5, <2>2, <2>3, StepTaken
<1> QED
  BY <1>2, <1>3, <1>4, <1>5

(* One turn of the loop. *)
LEMMA LoopTurn ==
  ASSUME StackInv, ProvisionNext
  PROVE  \/ Provided' = Provided /\ UNCHANGED <<records, apiDomains, constructIds>>
         \/ \E name \in Configured :
              /\ TargetId(name) \in ApiIds \cup NodeIds
              /\ Provided' = Provided \cup {name}
              /\ records' = records \cup {NameRecord(name)}
              /\ apiDomains' = apiDomains \cup
                   (IF TargetId(name) \in ApiIds
                    THEN {[name |-> name, api |-> TargetId(name)]} ELSE {})
              /\ IdsOf(name) \cap constructIds = {}
              /\ constructIds' = constructIds \cup IdsOf(name)
<1> At("provision")
  BY ActionAt
<1> pc \in Nat
  BY DEF StackInv, Progress
<1> input' = input /\ pc' = pc
  BY ActionAt DEF Waits
<1>1. /\ Done("lookup") /\ Done("lookup")'
      /\ Done("manager") /\ Done("nodes") /\ Done("targets")
  BY StepOrder, DoneStays
<1>2. /\ Configured' = Configured /\ ApiIds' = ApiIds /\ NodeIds' = NodeIds
      /\ \A n : TargetId(n)' = TargetId(n)
  BY RunConstants
<1>3. /\ Provided = {n \in Configured \ todo : TargetId(n) \in ApiIds \cup NodeIds}
      /\ Provided' = {n \in Configured \ todo' : TargetId(n) \in ApiIds \cup NodeIds}
  BY <1>1, <1>2 DEF Provided, Visited
<1>4. PICK name \in todo : ProvisionAlternative(name)
  BY DEF ProvisionNext
<1>5. name \in Configured /\ todo \subseteq Configured
  BY <1>4 DEF StackInv, LoopState
<1>6. stackConfig.alternatives[name].targetComponentId = TargetId(name)
  BY <1>1, ConfigIsInput DEF StackInv, TargetId
<1>7. DOMAIN dnsTargets = ApiIds \cup NodeIds
  BY <1>1 DEF StackInv, TargetsRegistered
<1>8. CASE TargetId(name) \notin ApiIds \cup NodeIds
  <2>1. todo' = todo \ {name} /\ UNCHANGED <<records, apiDomains, constructIds>>
    BY <1>4, <1>6, <1>7, <1>8 DEF ProvisionAlternative
  <2> QED
    BY <1>3, <1>8, <2>1
<1>9. CASE TargetId(name) \in ApiIds \cup NodeIds
  <2> DEFINE target == dnsTargets[TargetId(name)]
  <2>1. /\ TargetId(name) \in ApiIds => target.kind = "fronting" /\ target.api = TargetId(name)
        /\ TargetId(name) \notin ApiIds =>
              target.kind = "node" /\ target.record = ToAddress(TargetId(name))
    BY <1>7, <1>9 DEF StackInv, TargetsRegistered
  <2>2. AlternativeIds(name, target) = IdsOf(name)
    BY <2>1 DEF AlternativeIds, IdsOf
  <2>3. CASE IdsOf(name) \cap constructIds # {}
    <3>1. UNCHANGED <<todo, constructIds, records, apiDomains>>
      BY <1>4, <1>6, <1>7, <1>9, <2>2, <2>3 DEF ProvisionAlternative
    <3> QED
      BY <1>3, <3>1
  <2>4. CASE IdsOf(name) \cap constructIds = {}
    <3>1. /\ todo' = todo \ {name}
          /\ constructIds' = constructIds \cup IdsOf(name)
          /\ apiDomains' = apiDomains \cup
               (IF target.kind = "fronting" THEN {[name |-> name, api |-> target.api]} ELSE {})
          /\ records' = records \cup {AlternativeRecord(name, target)}
      BY <1>4, <1>6, <1>7, <1>9, <2>2, <2>4 DEF ProvisionAlternative
    <3>2. resolvedAltZone = Written.name
      BY <1>1, <1>5 DEF StackInv, ZoneLookedUp, ZoneInTheEnd
    <3>3. AlternativeRecord(name, target) = NameRecord(name)
      BY <2>1, <3>2 DEF AlternativeRecord, NameRecord
    <3>4. Provided' = Provided \cup {name}
      BY <1>3, <1>5, <1>9, <3>1
    <3>5. apiDomains' = apiDomains \cup
            (IF TargetId(name) \in ApiIds
             THEN {[name |-> name, api |-> TargetId(name)]} ELSE {})
      BY <2>1, <3>1
    <3> QED
      BY <1>5, <1>9, <2>4, <3>1, <3>3, <3>4, <3>5
  <2> QED
    BY <2>3, <2>4
<1> QED
  BY <1>8, <1>9

LEMMA ProvidedChanges ==
  ASSUME StackInv, Next
  PROVE  /\ ~ At("lookup") /\ ~ At("provision") => Provided' = Provided
         /\ At("lookup") => Provided = {} /\ Provided' = {}
         /\ Provisioned => Provided' = Provided
<1> pc \in Nat
  BY DEF StackInv, Progress
<1> input' = input
  BY DoneUnless
<1>1. /\ Configured' = Configured /\ ApiIds' = ApiIds /\ NodeIds' = NodeIds
      /\ \A n : TargetId(n)' = TargetId(n)
  BY RunConstants
<1>2. todo' = todo => Visited' = Visited
  BY <1>1 DEF Visited
<1>3. ~ At("lookup") /\ ~ At("provision") => Provided' = Provided
  BY <1>2, DoneUnless, Frame DEF Provided
<1>4. Provisioned => Provided' = Provided
  <2>1. Provisioned => At("provision") /\ todo' = todo
    BY DEF Provisioned, managerVars
  <2>2. At("provision") => ~ At("lookup")
    BY OneStepIsDue
  <2> QED
    BY <1>2, <2>1, <2>2, DoneUnless DEF Provided
<1>5. ASSUME At("lookup")
      PROVE  Provided = {} /\ Provided' = {}
  <2>1. ~ Done("lookup") /\ Done("manager") /\ ConfigRead
    BY <1>5, StepOrder DEF StackInv
  <2>2. CASE Panic
    BY <2>1, <2>2, DoneUnless DEF Panic, Provided
  <2>3. CASE NothingToProvision
    BY <1>1, <2>1, <2>3, ConfigIsInput DEF Provided, Visited
  <2>4. CASE ~ NothingToProvision /\ ~ Panic
    <3>1. todo' = DOMAIN stackConfig.alternatives
      BY <1>5, <2>4, StepTaken DEF ProvisionAlternativeDomains
    <3>2. todo' = Configured
      BY <2>1, <2>4, <3>1, ConfigIsInput DEF NothingToProvision, Configured
    <3> QED
      BY <1>1, <2>1, <3>2 DEF Provided, Visited
  <2> QED
    BY <2>2, <2>3, <2>4
<1> QED
  BY <1>3, <1>4, <1>5

(* The names of a deployment lie in the fixed zone, one label below its own. *)
LEMMA DeploymentNames ==
  ASSUME InputTypeOK(input), ContextIsValid
  PROVE  /\ MainDomain \in Names /\ Len(MainDomain) = 3
         /\ BaseDomain \in Names /\ InZone(BaseDomain, MainDomain)
         /\ \A l \in Labels : /\ Named(l) \in Names
                              /\ Len(Named(l)) \in {4, 5}
                              /\ InZone(Named(l), MainDomain)
                              /\ Named(l) # BaseDomain
                              /\ \A m \in Labels : Named(l) = Named(m) => l = m
<1>1. MainDomain \in Names /\ Len(MainDomain) = 3
  <2>1. <<"infra">> \in Labels /\ <<"truf">> \in Labels /\ <<"network">> \in Labels
    BY DEF Labels
  <2> QED
    BY <2>1 DEF MainDomain, Names
<1>2. /\ BaseDomain \in Names /\ InZone(BaseDomain, MainDomain)
      /\ Len(BaseDomain) \in {3, 4}
  <2>1. CASE input.stage = "dev"
    <3>1. input.devPrefix \in Labels
      BY DEF Labels
    <3>2. <<input.devPrefix>> \in Names /\ Len(<<input.devPrefix>>) = 1
      BY <3>1 DEF Names
    <3>3. BaseDomain = <<input.devPrefix>> \o MainDomain
      BY <2>1 DEF BaseDomain, FQDN
    <3>4. Len(BaseDomain) = Len(<<input.devPrefix>>) + Len(MainDomain)
      BY <1>1, <3>2, <3>3, ConcatProperties DEF Names
    <3>5. Len(BaseDomain) = 4
      BY <1>1, <3>2, <3>4
    <3> QED
      BY <1>1, <3>2, <3>3, <3>5, InOwnZone
  <2>2. CASE input.stage # "dev"
    BY <1>1, <2>2, InOwnZone DEF BaseDomain, FQDN
  <2> QED
    BY <2>1, <2>2
<1>3. ASSUME NEW l \in Labels
      PROVE  /\ Named(l) \in Names
             /\ Len(Named(l)) \in {4, 5}
             /\ InZone(Named(l), MainDomain)
             /\ Named(l) # BaseDomain
             /\ Named(l)[1] = l
  <2>1. Named(l) = <<l>> \o BaseDomain
    BY DEF Named, Subdomain, BaseDomain
  <2>2. <<l>> \in Names /\ Len(<<l>>) = 1 /\ <<l>>[1] = l
    BY DEF Names
  <2>3. /\ Named(l) \in Names /\ Len(Named(l)) = Len(BaseDomain) + 1
        /\ Named(l)[1] = l
        /\ \A i \in 1..Len(BaseDomain) : Named(l)[1 + i] = BaseDomain[i]
    BY <1>2, <2>1, <2>2 DEF Names
  <2>4. Len(BaseDomain) \in Nat /\ 3 <= Len(BaseDomain) /\ Len(MainDomain) = 3
    BY <1>1, <1>2
  <2>5. Len(Named(l)) \in {4, 5} /\ Named(l) # BaseDomain
    BY <1>2, <2>3, <2>4
  <2>6. ASSUME NEW i \in 1..3
        PROVE  MainDomain[i] = Named(l)[Len(Named(l)) - 3 + i]
    <3>1. MainDomain[i] = BaseDomain[Len(BaseDomain) - Len(MainDomain) + i]
      <4>1. \A j \in 1..Len(MainDomain) :
               MainDomain[j] = BaseDomain[Len(BaseDomain) - Len(MainDomain) + j]
        BY <1>1, <1>2, SuffixByIndex
      <4> QED
        BY <2>4, <4>1
    <3>2. /\ Len(BaseDomain) - 3 + i \in 1..Len(BaseDomain)
          /\ Len(Named(l)) - 3 + i = 1 + (Len(BaseDomain) - 3 + i)
      BY <2>3, <2>4
    <3> QED
      BY <2>3, <2>4, <3>1, <3>2
  <2>7. InZone(Named(l), MainDomain)
    <3>1. 3 <= Len(Named(l))
      BY <2>3, <2>4
    <3> QED
      BY <1>1, <2>3, <2>6, <3>1, SuffixByIndex
  <2> QED
    BY <2>3, <2>5, <2>7
<1> QED
  BY <1>1, <1>2, <1>3

LEMMA StackLabels ==
  /\ <<"gateway">> \in Labels /\ <<"indexer">> \in Labels
  /\ <<"inner", "gateway">> \in Labels /\ <<"inner", "indexer">> \in Labels
  /\ \A i \in Nat : NodeLabel(i) \in Labels
  BY DEF Labels

(* An API's record carries its public name, and so does its domain. *)
LEMMA RoutesOfName ==
  ASSUME InputTypeOK(input), ContextIsValid, NEW id \in ApiIds
  PROVE  /\ InZone(PublicName(id), MainDomain)
         /\ BelowZone(PublicName(id), MainDomain) # <<>>
         /\ BelowZone(PublicName(id), MainDomain) \o MainDomain = PublicName(id)
         /\ ARecord(MainDomain, BelowZone(PublicName(id), MainDomain), ToApi(PublicName(id)))
              = PublicRecord(id)
<1> DEFINE n == PublicName(id)
           b == BelowZone(n, MainDomain)
<1>1. n \in Names /\ Len(n) \in {4, 5} /\ InZone(n, MainDomain)
  BY DeploymentNames, StackLabels DEF PublicName, GatewayName, IndexerName
<1>2. MainDomain \in Names /\ Len(MainDomain) = 3
  BY DeploymentNames
<1>3. b \in Names /\ b # <<>> /\ ~ (Len(MainDomain) <= Len(b))
  <2>1. /\ Len(n) - Len(MainDomain) \in {1, 2} /\ Len(n) - Len(MainDomain) <= Len(n)
        /\ ~ (Len(MainDomain) <= Len(n) - Len(MainDomain))
    <3>1. ASSUME NEW x \in {4, 5}, NEW y, y = 3
          PROVE  x - y \in {1, 2} /\ x - y <= x /\ ~ (y <= x - y)
      BY <3>1
    <3> QED
      BY <1>1, <1>2, <3>1
  <2>2. b \in Names /\ Len(b) = Len(n) - Len(MainDomain)
    BY <1>1, <2>1, SubSeqProperties DEF BelowZone, Names
  <2> QED
    BY <2>1, <2>2
<1>4. b # <<>>
  BY <1>3
<1>5. b \o MainDomain = n
  BY <1>1, <1>2, Rejoined
<1>6. ~ InZone(b, MainDomain)
  BY <1>2, <1>3, SuffixByIndex
<1>7. RecordedName(b, MainDomain) = n /\ RecordedName(n, MainDomain) = n
  BY <1>1, <1>5, <1>6 DEF RecordedName
<1> QED
  BY <1>1, <1>4, <1>5, <1>7 DEF PublicRecord, ARecord

LEMMA ContextReadFirst ==
  ASSUME Progress, NEW s, s # "cert", At(s) \/ Done(s)
  PROVE  ContextIsValid
<1>1. Steps[1] = "cert"
  BY DEF Steps, AutoSteps, ConfigSteps
<1>2. pc \in Nat
  BY DEF Progress
<1>3. pc >= 1
  <2>1. CASE At(s)
    <3>1. pc # 0
      BY <1>1, <2>1 DEF At
    <3> QED
      BY <1>2, <3>1
  <2>2. CASE Done(s)
    BY <1>2, <2>2 DEF Done
  <2> QED
    BY <2>1, <2>2
<1> QED
  BY <1>1, <1>2, <1>3 DEF Progress, Done

(* Attaching the routes of an API, when it does not panic. *)
LEMMA RoutesAttached ==
  ASSUME StackInv, NEW id \in ApiIds, AttachRoutes(id, PublicName(id)), ContextIsValid
  PROVE  /\ Advance
         /\ apiDomains' = apiDomains \cup {[name |-> PublicName(id), api |-> id]}
         /\ records' = records \cup {PublicRecord(id)}
  BY RoutesOfName DEF AttachRoutes, StackInv

LEMMA ApiSteps ==
  ASSUME StackInv, Next
  PROVE  /\ At("gatewayApi") => AttachRoutes(TargetGateway, PublicName(TargetGateway))
                                /\ ContextIsValid
         /\ At("indexerApi") => AttachRoutes(TargetIndexer, PublicName(TargetIndexer))
                                /\ ContextIsValid
         /\ TargetGateway \in ApiIds /\ TargetIndexer \in ApiIds
         /\ PublicName(TargetGateway) = GatewayName /\ PublicName(TargetIndexer) = IndexerName
<1>1. /\ TargetGateway \in ApiIds /\ TargetIndexer \in ApiIds
      /\ PublicName(TargetGateway) = GatewayName /\ PublicName(TargetIndexer) = IndexerName
  BY IdsAreApart DEF ApiIds, PublicName
<1>2. At("gatewayApi") \/ At("indexerApi") => ContextIsValid
  BY ContextReadFirst DEF StackInv
<1> QED
  BY <1>1, <1>2, StepTaken DEF GatewayFronting, IndexerFronting

LEMMA RecordsMadeKept ==
  ASSUME StackInv, Next
  PROVE  RecordsMade'
<1> pc \in Nat
  BY DEF StackInv, Progress
<1> input' = input
  BY DoneUnless
<1> DEFINE Own == {AddressRecord(i) : i \in NodeNumbers}
           ByLoop == {NameRecord(name) : name \in Provided}
<1>1. /\ Own' = Own /\ InnerRecords' = InnerRecords
      /\ PublicRecord(TargetGateway)' = PublicRecord(TargetGateway)
      /\ PublicRecord(TargetIndexer)' = PublicRecord(TargetIndexer)
      /\ \A n : NameRecord(n)' = NameRecord(n)
  BY RunConstants
<1>2. records = (IF Done("validators") THEN Own ELSE {})
                \cup (IF Done("cluster") THEN InnerRecords ELSE {})
                \cup (IF Done("gatewayApi") THEN {PublicRecord(TargetGateway)} ELSE {})
                \cup (IF Done("indexerApi") THEN {PublicRecord(TargetIndexer)} ELSE {})
                \cup ByLoop
  BY DEF StackInv, RecordsMade
<1>3. Provided' = Provided => ByLoop' = ByLoop
  BY <1>1
<1> SUFFICES records' = (IF Done("validators")' THEN Own ELSE {})
                \cup (IF Done("cluster")' THEN InnerRecords ELSE {})
                \cup (IF Done("gatewayApi")' THEN {PublicRecord(TargetGateway)} ELSE {})
                \cup (IF Done("indexerApi")' THEN {PublicRecord(TargetIndexer)} ELSE {})
                \cup ByLoop'
  BY <1>1 DEF RecordsMade
<1> HIDE DEF Own, ByLoop
<1>4. CASE At("lookup")
  <2>1. ByLoop' = ByLoop
    BY <1>3, <1>4, ProvidedChanges
  <2>2. /\ ~ At("validators") /\ ~ At("cluster") /\ ~ At("gatewayApi")
        /\ ~ At("indexerApi") /\ ~ At("provision")
    BY <1>4 DEF At
  <2> QED
    BY <1>2, <2>1, <2>2, DoneUnless, Frame
<1>5. CASE /\ ~ At("validators") /\ ~ At("cluster") /\ ~ At("gatewayApi")
           /\ ~ At("indexerApi") /\ ~ At("provision") /\ ~ At("lookup")
  BY <1>2, <1>3, <1>5, DoneUnless, Frame, ProvidedChanges
<1>6. CASE At("validators")
  <2>1. network.peers = ThePeers /\ DOMAIN ThePeers = NodeNumbers
    BY <1>6, StepOrder DEF StackInv, NetworkMade, TheNetwork, ThePeers
  <2>2. /\ records' = records \cup
             {ARecord(MainDomain, network.peers[i].address, ToAddress(NodeTargetID(i))) :
                i \in DOMAIN network.peers}
        /\ Advance
    BY <1>6, StepTaken DEF NewValidatorSet
  <2>3. \A i \in NodeNumbers : ThePeers[i].address = Named(NodeLabel(i))
    BY DEF ThePeers, Peer
  <2>4. records' = records \cup Own
    BY <2>1, <2>2, <2>3 DEF AddressRecord, Own
  <2>5. ByLoop' = ByLoop /\ ~ Done("validators")
    BY <1>3, <1>6, ProvidedChanges, StepOrder, OneStepIsDue
  <2> QED
    BY <1>2, <1>6, <2>2, <2>4, <2>5, DoneUnless
<1>7. CASE At("cluster")
  <2>1. records' = records \cup InnerRecords /\ Advance
    BY <1>7, StepTaken DEF NewKwilCluster, InnerRecords
  <2>2. ByLoop' = ByLoop /\ ~ Done("cluster")
    BY <1>3, <1>7, ProvidedChanges, StepOrder, OneStepIsDue
  <2> QED
    BY <1>2, <1>7, <2>1, <2>2, DoneUnless
<1>8. CASE At("gatewayApi")
  <2>1. records' = records \cup {PublicRecord(TargetGateway)} /\ Advance
    BY <1>8, ApiSteps, RoutesAttached
  <2>2. ByLoop' = ByLoop /\ ~ Done("gatewayApi")
    BY <1>3, <1>8, ProvidedChanges, StepOrder, OneStepIsDue
  <2> QED
    BY <1>2, <1>8, <2>1, <2>2, DoneUnless
<1>9. CASE At("indexerApi")
  <2>1. records' = records \cup {PublicRecord(TargetIndexer)} /\ Advance
    BY <1>9, ApiSteps, RoutesAttached
  <2>2. ByLoop' = ByLoop /\ ~ Done("indexerApi")
    BY <1>3, <1>9, ProvidedChanges, StepOrder, OneStepIsDue
  <2> QED
    BY <1>2, <1>9, <2>1, <2>2, DoneUnless
<1>10. CASE At("provision")
  <2>1. /\ ~ At("validators") /\ ~ At("cluster") /\ ~ At("gatewayApi") /\ ~ At("indexerApi")
    BY <1>10, OneStepIsDue
  <2>2. records' \cup ByLoop = records \cup ByLoop'
    <3>1. CASE Provisioned
      BY <1>3, <3>1, ProvidedChanges DEF Provisioned, templateVars
    <3>2. CASE ProvisionNext
      <4>1. CASE Provided' = Provided /\ UNCHANGED records
        BY <1>3, <4>1
      <4>2. ASSUME NEW name \in Configured, Provided' = Provided \cup {name},
                   records' = records \cup {NameRecord(name)}
            PROVE  records' \cup ByLoop = records \cup ByLoop'
        BY <1>1, <4>2 DEF ByLoop
      <4> QED
        BY <3>2, <4>1, <4>2, LoopTurn
    <3> QED
      BY <1>10, <3>1, <3>2, StepTaken
  <2>3. ByLoop \subseteq ByLoop' /\ ByLoop \subseteq records'
    <3>1. Provided \subseteq Provided' /\ records \subseteq records'
      <4>1. CASE Provisioned
        BY <4>1, ProvidedChanges DEF Provisioned, templateVars
      <4>2. CASE ProvisionNext
        BY <4>2, LoopTurn
      <4> QED
        BY <1>10, <4>1, <4>2, StepTaken
    <3> QED
      BY <1>1, <1>2, <3>1 DEF ByLoop
  <2> QED
    BY <1>2, <2>1, <2>2, <2>3, DoneUnless
<1> QED
  BY <1>4, <1>5, <1>6, <1>7, <1>8, <1>9, <1>10

LEMMA DomainsMadeKept ==
  ASSUME StackInv, Next
  PROVE  DomainsMade'
<1> pc \in Nat
  BY DEF StackInv, Progress
<1> input' = input
  BY DoneUnless
<1> DEFINE ByLoop == {[name |-> name, api |-> TargetId(name)] :
                        name \in {n \in Provided : TargetId(n) \in ApiIds}}
           ForGateway == {[name |-> GatewayName, api |-> TargetGateway]}
           ForIndexer == {[name |-> IndexerName, api |-> TargetIndexer]}
<1>1. /\ ForGateway' = ForGateway /\ ForIndexer' = ForIndexer /\ ApiIds' = ApiIds
      /\ \A n : TargetId(n)' = TargetId(n)
  BY RunConstants
<1>2. apiDomains = (IF Done("gatewayApi") THEN ForGateway ELSE {})
                   \cup (IF Done("indexerApi") THEN ForIndexer ELSE {}) \cup ByLoop
  BY DEF StackInv, DomainsMade
<1>3. Provided' = Provided => ByLoop' = ByLoop
  BY <1>1
<1> SUFFICES apiDomains' = (IF Done("gatewayApi")' THEN ForGateway ELSE {})
                   \cup (IF Done("indexerApi")' THEN ForIndexer ELSE {}) \cup ByLoop'
  BY <1>1 DEF DomainsMade
<1> HIDE DEF ByLoop, ForGateway, ForIndexer
<1>4. CASE At("lookup")
  <2>1. ByLoop' = ByLoop
    BY <1>3, <1>4, ProvidedChanges
  <2>2. ~ At("gatewayApi") /\ ~ At("indexerApi") /\ ~ At("provision")
    BY <1>4 DEF At
  <2> QED
    BY <1>2, <2>1, <2>2, DoneUnless, Frame
<1>5. CASE /\ ~ At("gatewayApi") /\ ~ At("indexerApi") /\ ~ At("provision")
           /\ ~ At("lookup")
  BY <1>2, <1>3, <1>5, DoneUnless, Frame, ProvidedChanges
<1>6. CASE At("gatewayApi")
  <2>1. apiDomains' = apiDomains \cup ForGateway /\ Advance
    BY <1>6, ApiSteps, RoutesAttached DEF ForGateway
  <2>2. ByLoop' = ByLoop /\ ~ Done("gatewayApi")
    BY <1>3, <1>6, ProvidedChanges, StepOrder, OneStepIsDue
  <2> QED
    BY <1>2, <1>6, <2>1, <2>2, DoneUnless
<1>7. CASE At("indexerApi")
  <2>1. apiDomains' = apiDomains \cup ForIndexer /\ Advance
    BY <1>7, ApiSteps, RoutesAttached DEF ForIndexer
  <2>2. ByLoop' = ByLoop /\ ~ Done("indexerApi")
    BY <1>3, <1>7, ProvidedChanges, StepOrder, OneStepIsDue
  <2> QED
    BY <1>2, <1>7, <2>1, <2>2, DoneUnless
<1>8. CASE At("provision")
  <2>1. ~ At("gatewayApi") /\ ~ At("indexerApi")
    BY <1>8, OneStepIsDue
  <2>2. apiDomains' \cup ByLoop = apiDomains \cup ByLoop'
    <3>1. CASE Provisioned
      BY <1>3, <3>1, ProvidedChanges DEF Provisioned, templateVars
    <3>2. CASE ProvisionNext
      <4>1. CASE Provided' = Provided /\ UNCHANGED apiDomains
        BY <1>3, <4>1
      <4>2. ASSUME NEW name \in Configured, Provided' = Provided \cup {name},
                   apiDomains' = apiDomains \cup
                     (IF TargetId(name) \in ApiIds
                      THEN {[name |-> name, api |-> TargetId(name)]} ELSE {})
            PROVE  apiDomains' \cup ByLoop = apiDomains \cup ByLoop'
        <5>1. ByLoop' = ByLoop \cup
                (IF TargetId(name) \in ApiIds
                 THEN {[name |-> name, api |-> TargetId(name)]} ELSE {})
          <6>1. {n \in Provided' : TargetId(n)' \in ApiIds'}
                  = {n \in Provided : TargetId(n) \in ApiIds} \cup
                    (IF TargetId(name) \in ApiIds THEN {name} ELSE {})
            BY <1>1, <4>2
          <6> QED
            BY <1>1, <6>1 DEF ByLoop
        <5> QED
          BY <4>2, <5>1
      <4> QED
        BY <3>2, <4>1, <4>2, LoopTurn
    <3> QED
      BY <1>8, <3>1, <3>2, StepTaken
  <2>3. ByLoop \subseteq ByLoop' /\ ByLoop \subseteq apiDomains'
    <3>1. Provided \subseteq Provided' /\ apiDomains \subseteq apiDomains'
      <4>1. CASE Provisioned
        BY <4>1, ProvidedChanges DEF Provisioned, templateVars
      <4>2. CASE ProvisionNext
        BY <4>2, LoopTurn
      <4> QED
        BY <1>8, <4>1, <4>2, StepTaken
    <3> QED
      BY <1>1, <1>2, <3>1 DEF ByLoop
  <2> QED
    BY <1>2, <2>1, <2>2, <2>3, DoneUnless
<1> QED
  BY <1>4, <1>5, <1>6, <1>7, <1>8

(* What the two lookups of the zone give, the first for the certificate. *)
LEMMA FirstLookup ==
  ASSUME StackInv, At("certificate"), ~ Panic, Next
  PROVE  /\ Advance
         /\ resolvedAltZone' = ZoneOfCertificate
         /\ errors' # {} => errors # {} \/ (Written # None /\ Written.name \notin input.zones)
         /\ constructIds' = constructIds \cup (IF TwoZones THEN {LookupId} ELSE {})
         /\ certificates' = With(certificates, "SharedDomainsCert",
              [domainName |-> GatewayName, names |-> SharedNames,
               validation |-> [name \in SharedNames |->
                  IF ZoneOfCertificate = None THEN MainDomain
                  ELSE ValidationZone(name, MainDomain, ZoneOfCertificate)]])
<1> DEFINE need == CertificateRequirements(MainDomain, <<GatewayName, IndexerName>>)
           lookup == LookupAlternativeZone([name |-> Written.name, dot |-> FALSE])
<1> pc \in Nat
  BY DEF StackInv, Progress
<1>1. /\ Advance
      /\ certificates' = With(certificates, "SharedDomainsCert", need.certificate)
      /\ resolvedAltZone' = need.altZone
      /\ errors' = errors \cup need.errors
      /\ constructIds' = constructIds \cup need.ids
  BY StepTaken DEF SharedCertificate
<1>2. Done("manager") /\ ~ Done("certificate") /\ ~ Done("lookup")
  BY StepOrder
<1>3. resolvedAltZone = None /\ LookupId \notin constructIds
  BY <1>2 DEF StackInv, ZoneLookedUp, IdsTaken, Provided
<1>4. /\ lookup.zone = IF Written.name \in input.zones THEN Written.name ELSE None
      /\ lookup.errors = IF Written.name \in input.zones THEN {} ELSE {"zone_not_found"}
  BY <1>3 DEF LookupAlternativeZone
<1>5. AlternativeHostedZoneDomain = Written /\
      SubjectAlternativeNames(<<GatewayName, IndexerName>>) = SharedNames
  BY <1>2, ConfigIsInput DEF StackInv
<1>6. NeedsMultiZoneValidation(MainDomain) <=> TwoZones
  BY <1>5 DEF NeedsMultiZoneValidation, TwoZones
<1>7. (IF TwoZones THEN lookup.zone ELSE None) = ZoneOfCertificate
  BY <1>4 DEF ZoneOfCertificate
<1>8. Head(<<GatewayName, IndexerName>>) = GatewayName
  OBVIOUS
<1> HIDE DEF lookup
<1>9. /\ need.altZone = ZoneOfCertificate
      /\ need.errors = IF TwoZones THEN lookup.errors ELSE {}
      /\ need.ids = IF TwoZones THEN {LookupId} ELSE {}
      /\ need.certificate =
            [domainName |-> GatewayName, names |-> SharedNames,
             validation |-> [name \in SharedNames |->
                IF ZoneOfCertificate = None THEN MainDomain
                ELSE ValidationZone(name, MainDomain, ZoneOfCertificate)]]
  BY <1>5, <1>6, <1>7, <1>8 DEF CertificateRequirements, lookup
<1> QED
  BY <1>1, <1>4, <1>9 DEF TwoZones

LEMMA SecondLookup ==
  ASSUME StackInv, At("lookup"), ~ Panic, Next
  PROVE  /\ Advance
         /\ resolvedAltZone' = ZoneInTheEnd
         /\ Configured # {} => Written # None /\ Written.name \in input.zones
         /\ errors' # {} => errors # {} \/ (Written # None /\ Written.dot)
         /\ constructIds' = constructIds \cup (IF Configured # {} THEN {LookupId} ELSE {})
<1> pc \in Nat
  BY DEF StackInv, Progress
<1>1. Done("manager") /\ Done("certificate") /\ ~ Done("lookup")
  BY StepOrder
<1>2. AlternativeHostedZoneDomain = Written /\ (NothingToProvision <=> Configured = {})
  BY <1>1, ConfigIsInput DEF StackInv
<1>3. /\ resolvedAltZone = ZoneOfCertificate
      /\ LookupId \in constructIds <=> TwoZones
  <2>1. Provided = {}
    BY <1>1 DEF Provided
  <2> QED
    BY <1>1, <2>1 DEF StackInv, ZoneLookedUp, IdsTaken
<1>4. CASE Configured = {}
  BY <1>2, <1>3, <1>4, StepTaken
     DEF ProvisionAlternativeDomains, managerVars, ZoneInTheEnd
<1>5. CASE Configured # {}
  <2> DEFINE lookup == LookupAlternativeZone(Written)
  <2>1. /\ Written # None /\ ~ lookup.duplicate /\ lookup.zone # None
        /\ resolvedAltZone' = lookup.zone
        /\ errors' = errors \cup lookup.errors
        /\ constructIds' = constructIds \cup {LookupId}
        /\ Advance
    BY <1>2, <1>5, StepTaken DEF ProvisionAlternativeDomains
  <2>2. CASE ZoneOfCertificate # None
    <3>1. /\ ZoneOfCertificate = Written.name /\ Written.name \in input.zones
      BY <2>2 DEF ZoneOfCertificate
    <3>2. /\ lookup.zone = Written.name
          /\ lookup.errors = IF ~ Written.dot THEN {} ELSE {"resolved_to_another_zone"}
      BY <1>3, <2>2, <3>1 DEF LookupAlternativeZone
    <3> QED
      BY <1>5, <2>1, <3>1, <3>2 DEF ZoneInTheEnd
  <2>3. CASE ZoneOfCertificate = None
    <3>1. LookupId \notin constructIds
      BY <1>3, <2>1, <2>3 DEF LookupAlternativeZone
    <3>2. /\ Written.name \in input.zones
          /\ lookup.zone = Written.name /\ lookup.errors = {}
      BY <1>3, <2>1, <2>3, <3>1 DEF LookupAlternativeZone
    <3> QED
      BY <1>5, <2>1, <3>2 DEF ZoneInTheEnd
  <2> QED
    BY <2>2, <2>3
<1> QED
  BY <1>4, <1>5

LEMMA ZoneLookedUpKept ==
  ASSUME StackInv, Next
  PROVE  ZoneLookedUp'
<1> pc \in Nat
  BY DEF StackInv, Progress
<1> input' = input
  BY DoneUnless
<1>1. /\ Configured' = Configured /\ Written' = Written
      /\ ZoneOfCertificate' = ZoneOfCertificate /\ ZoneInTheEnd' = ZoneInTheEnd
  BY RunConstants
<1>2. CASE ~ At("certificate") /\ ~ At("lookup")
  BY <1>1, <1>2, DoneUnless, Frame DEF StackInv, ZoneLookedUp
<1>3. CASE Panic
  BY <1>1, <1>3, DoneUnless DEF Panic, managerVars, StackInv, ZoneLookedUp
<1>4. CASE At("certificate") /\ ~ Panic
  <2>1. Done("certificate")' /\ ~ Done("lookup")'
    BY <1>4, FirstLookup, DoneUnless, StepOrder, OneStepIsDue
  <2> QED
    BY <1>1, <1>4, <2>1, FirstLookup DEF StackInv, ZoneLookedUp
<1>5. CASE At("lookup") /\ ~ Panic
  <2>1. Done("lookup")'
    BY <1>5, SecondLookup, DoneUnless
  <2> QED
    BY <1>1, <1>5, <2>1, SecondLookup DEF StackInv, ZoneLookedUp
<1> QED
  BY <1>2, <1>3, <1>4, <1>5

LEMMA IdsTakenKept ==
  ASSUME StackInv, Next
  PROVE  IdsTaken'
<1> pc \in Nat
  BY DEF StackInv, Progress
<1> input' = input
  BY DoneUnless
<1> DEFINE ByLoop == UNION {IdsOf(name) : name \in Provided}
           OfLookup == IF \/ Done("certificate") /\ TwoZones
                          \/ Done("lookup") /\ Configured # {} THEN {LookupId} ELSE {}
<1>1. /\ Configured' = Configured /\ (TwoZones' <=> TwoZones)
      /\ \A n : IdsOf(n)' = IdsOf(n)
  BY RunConstants
<1>2. constructIds = OfLookup \cup ByLoop
  BY DEF StackInv, IdsTaken
<1>3. Provided' = Provided => ByLoop' = ByLoop
  BY <1>1
<1>4. LookupId' = LookupId
  BY DEF LookupId
<1> SUFFICES constructIds' = OfLookup' \cup ByLoop'
  BY <1>1 DEF IdsTaken
<1>5. CASE ~ At("certificate") /\ ~ At("lookup") /\ ~ At("provision")
  BY <1>1, <1>2, <1>3, <1>4, <1>5, DoneUnless, Frame, ProvidedChanges
<1>6. CASE At("certificate") /\ ~ Panic
  <2>1. /\ constructIds' = constructIds \cup (IF TwoZones THEN {LookupId} ELSE {})
        /\ Done("certificate")' /\ ~ Done("lookup")' /\ ~ Done("lookup")
    BY <1>6, FirstLookup, DoneUnless, StepOrder, OneStepIsDue
  <2>2. ByLoop' = ByLoop /\ ~ Done("certificate")
    BY <1>3, <1>6, ProvidedChanges, StepOrder, OneStepIsDue
  <2> QED
    BY <1>1, <1>2, <1>4, <2>1, <2>2
<1>7. CASE At("lookup") /\ ~ Panic
  <2>1. /\ constructIds' = constructIds \cup (IF Configured # {} THEN {LookupId} ELSE {})
        /\ Done("lookup")' /\ Done("certificate")'
        /\ ~ Done("lookup") /\ Done("certificate")
    BY <1>7, SecondLookup, DoneUnless, StepOrder
  <2>2. ByLoop' = ByLoop
    BY <1>3, <1>7, ProvidedChanges
  <2> QED
    BY <1>1, <1>2, <1>4, <2>1, <2>2
<1>8. CASE At("provision")
  <2>1. ~ At("certificate") /\ ~ At("lookup")
    BY <1>8, OneStepIsDue
  <2>2. OfLookup' = OfLookup
    BY <1>1, <1>4, <2>1, DoneUnless
  <2>3. \/ constructIds' = constructIds /\ Provided' = Provided
        \/ \E name \in Configured : /\ Provided' = Provided \cup {name}
                                    /\ constructIds' = constructIds \cup IdsOf(name)
    <3>1. CASE Provisioned
      BY <3>1, ProvidedChanges DEF Provisioned, managerVars
    <3>2. CASE ProvisionNext
      BY <3>2, LoopTurn
    <3> QED
      BY <1>8, <3>1, <3>2, StepTaken
  <2>4. ASSUME NEW name \in Configured, Provided' = Provided \cup {name},
               constructIds' = constructIds \cup IdsOf(name)
        PROVE  constructIds' = OfLookup' \cup ByLoop'
    <3>1. ByLoop' = ByLoop \cup IdsOf(name)
      BY <1>1, <2>4
    <3> QED
      BY <1>2, <2>2, <2>4, <3>1
  <2>5. CASE constructIds' = constructIds /\ Provided' = Provided
    BY <1>2, <1>3, <2>2, <2>5
  <2> QED
    BY <2>3, <2>4, <2>5
<1>9. CASE Panic
  <2>1. constructIds' = constructIds /\ todo' = todo /\ \A s : Done(s)' <=> Done(s)
    BY <1>9, DoneUnless DEF Panic, managerVars
  <2>2. Provided' = Provided
    <3>1. /\ ApiIds' = ApiIds /\ NodeIds' = NodeIds
          /\ \A n : TargetId(n)' = TargetId(n)
      BY RunConstants
    <3> QED
      BY <1>1, <2>1, <3>1 DEF Provided, Visited
  <2> QED
    BY <1>1, <1>2, <1>3, <1>4, <2>1, <2>2
<1> QED
  BY <1>5, <1>6, <1>7, <1>8, <1>9

LEMMA CertificatesMadeKept ==
  ASSUME StackInv, Next
  PROVE  CertificatesMade'
<1> pc \in Nat
  BY DEF StackInv, Progress
<1> input' = input
  BY DoneUnless
<1>1. /\ SharedNames' = SharedNames /\ BaseDomain' = BaseDomain
      /\ ZoneOfCertificate' = ZoneOfCertificate
  BY RunConstants
<1>2. CASE /\ ~ At("cert") /\ ~ At("domain") /\ ~ At("network") /\ ~ At("certificate")
  BY <1>1, <1>2, DoneUnless, Frame DEF StackInv, CertificatesMade
<1>3. CASE At("certificate") /\ ~ Panic
  <2>1. Done("certificate")'
    BY <1>3, FirstLookup, DoneUnless
  <2>2. certificates' = With(certificates, "SharedDomainsCert",
              [domainName |-> GatewayName, names |-> SharedNames,
               validation |-> [name \in SharedNames |->
                  IF ZoneOfCertificate = None THEN MainDomain
                  ELSE ValidationZone(name, MainDomain, ZoneOfCertificate)]])
    BY <1>3, FirstLookup
  <2>3. /\ \A c \in DOMAIN certificates' \ {"SharedDomainsCert"} :
              c \in DOMAIN certificates /\ certificates'[c] = certificates[c]
        /\ "SharedDomainsCert" \in DOMAIN certificates'
        /\ certificates'["SharedDomainsCert"].names = SharedNames
        /\ \A name \in SharedNames : certificates'["SharedDomainsCert"].validation[name] =
              IF ZoneOfCertificate = None THEN MainDomain
              ELSE ValidationZone(name, MainDomain, ZoneOfCertificate)
    BY <2>2 DEF With
  <2> QED
    BY <1>1, <2>1, <2>3 DEF StackInv, CertificatesMade
<1>4. CASE At("cert") \/ At("domain") \/ At("network")
  <2>1. \/ certificates' = certificates
        \/ \E c \in {"TN-Cert", "HostedDomain", "NetworkDomainInternalLookup"} :
              HostedDomain(c)
    BY <1>4, StepTaken DEF CertStack, StackHostedDomain, KwilNetworkConfig, Panic,
       templateVars
  <2>2. Done("certificate")' <=> Done("certificate")
    BY <1>4, DoneUnless, OneStepIsDue
  <2>3. ASSUME NEW c, c # "SharedDomainsCert", HostedDomain(c)
        PROVE  /\ \A d \in DOMAIN certificates' \ {c} :
                     d \in DOMAIN certificates /\ certificates'[d] = certificates[d]
               /\ DOMAIN certificates' = DOMAIN certificates \cup {c}
               /\ certificates'[c].names = {BaseDomain}
               /\ certificates'[c].validation[BaseDomain] = MainDomain
    BY <2>3 DEF HostedDomain, With
  <2>4. CASE certificates' = certificates
    BY <1>1, <2>2, <2>4 DEF StackInv, CertificatesMade
  <2>5. ASSUME NEW c \in {"TN-Cert", "HostedDomain", "NetworkDomainInternalLookup"},
               HostedDomain(c)
        PROVE  CertificatesMade'
    <3>1. c # "SharedDomainsCert"
      OBVIOUS
    <3>2. /\ \A d \in DOMAIN certificates' \ {c} :
                d \in DOMAIN certificates /\ certificates'[d] = certificates[d]
          /\ DOMAIN certificates' = DOMAIN certificates \cup {c}
          /\ certificates'[c].names = {BaseDomain}
          /\ certificates'[c].validation[BaseDomain] = MainDomain
      BY <2>3, <2>5, <3>1
    <3>3. "SharedDomainsCert" \in DOMAIN certificates' =>
             certificates'["SharedDomainsCert"] = certificates["SharedDomainsCert"]
      BY <3>1, <3>2
    <3> QED
      BY <1>1, <2>2, <3>1, <3>2, <3>3 DEF StackInv, CertificatesMade
  <2> QED
    BY <2>1, <2>4, <2>5
<1>5. CASE Panic
  BY <1>1, <1>5, DoneUnless DEF Panic, templateVars, StackInv, CertificatesMade
<1> QED
  BY <1>2, <1>3, <1>4, <1>5

LEMMA StackInvHolds == InputTypeOK(input) /\ Spec => []StackInv
<1>1. InputTypeOK(input) /\ Init => StackInv
  <2> SUFFICES ASSUME InputTypeOK(input), Init
               PROVE  StackInv
    OBVIOUS
  <2>1. pc = 0 /\ Len(Steps) \in Nat
    BY DEF Init, Steps, AutoSteps, ConfigSteps
  <2>2. \A s : ~ Done(s)
    BY <2>1, NoneDone
  <2>3. Progress /\ NetworkMade
    BY <2>1, <2>2, NoneDone DEF Init, Progress, NetworkMade
  <2>4. Attachments /\ ConfigRead /\ TargetsRegistered /\ ApisMade
    BY <2>2 DEF Init, Attachments, ConfigRead, TargetsRegistered, ApisMade
  <2>5. Provided = {}
    BY <2>2 DEF Provided
  <2>6. RecordsMade /\ DomainsMade /\ IdsTaken
    BY <2>2, <2>5 DEF Init, RecordsMade, DomainsMade, IdsTaken
  <2>7. ZoneLookedUp /\ LoopState /\ CertificatesMade
    BY <2>2 DEF Init, ZoneLookedUp, LoopState, CertificatesMade
  <2> QED
    BY <2>3, <2>4, <2>6, <2>7 DEF StackInv
<1>2. StackInv /\ [Next]_vars => StackInv'
  <2> SUFFICES ASSUME StackInv, [Next]_vars
               PROVE  StackInv'
    OBVIOUS
  <2>1. CASE Next
    <3>1. InputTypeOK(input)'
      <4>1. input' = input
        BY <2>1, DoneUnless DEF StackInv, Progress
      <4> QED
        BY <4>1, RunConstants DEF StackInv
    <3> QED
      BY <2>1, <3>1, ProgressKept, NetworkMadeKept, AttachmentsKept, ConfigReadKept,
         TargetsRegisteredKept, ApisMadeKept, RecordsMadeKept, DomainsMadeKept,
         ZoneLookedUpKept, IdsTakenKept, LoopStateKept, CertificatesMadeKept DEF StackInv
  <2>2. CASE UNCHANGED vars
    <3>1. /\ UNCHANGED <<input, outcome, errors, pc, network, managerVars, hostVars,
                       templateVars>>
          /\ UNCHANGED managerVars /\ UNCHANGED hostVars /\ UNCHANGED templateVars
      BY <2>2 DEF vars
    <3>2. /\ input' = input /\ pc' = pc /\ outcome' = outcome /\ errors' = errors
          /\ network' = network /\ nodes' = nodes /\ backends' = backends
          /\ indexedNode' = indexedNode /\ attached' = attached
          /\ stackConfig' = stackConfig /\ dnsTargets' = dnsTargets
          /\ resolvedAltZone' = resolvedAltZone /\ constructIds' = constructIds
          /\ todo' = todo /\ records' = records /\ apiDomains' = apiDomains
          /\ apis' = apis /\ certificates' = certificates
      BY <3>1 DEF managerVars, hostVars, templateVars
    <3>3. (\A s : Done(s)' <=> Done(s)) /\ Steps' = Steps
      BY <3>2, DoneStays DEF Steps, AutoSteps, ConfigSteps
    <3>4. (ContextIsValid' <=> ContextIsValid) /\ (KeysInputIsValid' <=> KeysInputIsValid)
      BY <3>2 DEF ContextIsValid, KeysInputIsValid
    <3>5. \A i : Node(i)' = Node(i)
      BY <3>2 DEF Node, Bootnodes
    <3>6. Provided' = Provided
      BY <3>2, <3>3, RunConstants DEF Provided, Visited
    <3>7. InputTypeOK(input)' /\ Progress' /\ ConfigRead' /\ ApisMade' /\ LoopState'
      BY <3>2, <3>3, <3>4, RunConstants
         DEF StackInv, Progress, ConfigRead, ApisMade, LoopState
    <3>8. NetworkMade'
      BY <3>2, <3>3, <3>5, RunConstants DEF StackInv, NetworkMade
    <3>9. Attachments' /\ TargetsRegistered'
      BY <3>2, <3>3, RunConstants DEF StackInv, Attachments, TargetsRegistered
    <3>10. RecordsMade'
      BY <3>2, <3>3, <3>6, RunConstants DEF StackInv, RecordsMade
    <3>11. DomainsMade' /\ IdsTaken'
      BY <3>2, <3>3, <3>6, RunConstants DEF StackInv, DomainsMade, IdsTaken, LookupId
    <3>12. ZoneLookedUp' /\ CertificatesMade'
      BY <3>2, <3>3, RunConstants DEF StackInv, ZoneLookedUp, CertificatesMade
    <3> QED
      BY <3>7, <3>8, <3>9, <3>10, <3>11, <3>12 DEF StackInv
  <2> QED
    BY <2>1, <2>2
<1> QED
  BY <1>1, <1>2, PTL DEF Spec

(***************************************************************************)
(* What a synthesized template serves, certifies and validates.            *)
(***************************************************************************)
LEMMA AtTheEnd ==
  ASSUME StackInv, Synthesized
  PROVE  /\ ContextIsValid /\ KeysInputIsValid
         /\ Provided = {n \in Configured : TargetId(n) \in ApiIds \cup NodeIds}
         /\ records = {AddressRecord(i) : i \in NodeNumbers} \cup InnerRecords
                      \cup {PublicRecord(TargetGateway), PublicRecord(TargetIndexer)}
                      \cup {NameRecord(name) : name \in Provided}
         /\ apiDomains = {[name |-> GatewayName, api |-> TargetGateway],
                          [name |-> IndexerName, api |-> TargetIndexer]}
                         \cup {[name |-> name, api |-> TargetId(name)] :
                                 name \in {n \in Provided : TargetId(n) \in ApiIds}}
         /\ stackConfig = input.alternatives /\ Alternatives = Configured
         /\ resolvedAltZone = ZoneInTheEnd
         /\ Configured # {} => Written # None /\ Written.name \in input.zones
<1>1. pc = Len(Steps)
  BY DEF StackInv, Progress, Synthesized
<1>2. /\ Done("cert") /\ Done("network") /\ Done("validators") /\ Done("manager")
      /\ Done("cluster") /\ Done("gatewayApi") /\ Done("indexerApi")
      /\ Done("lookup") /\ Done("provision")
  BY <1>1, AllDone
<1>3. ContextIsValid /\ KeysInputIsValid
  BY <1>2 DEF StackInv, Progress
<1>4. Provided = {n \in Configured : TargetId(n) \in ApiIds \cup NodeIds}
  BY <1>2 DEF StackInv, LoopState, Provided, Visited
<1>5. records = {AddressRecord(i) : i \in NodeNumbers} \cup InnerRecords
                \cup {PublicRecord(TargetGateway), PublicRecord(TargetIndexer)}
                \cup {NameRecord(name) : name \in Provided}
  BY <1>2 DEF StackInv, RecordsMade
<1>6. apiDomains = {[name |-> GatewayName, api |-> TargetGateway],
                    [name |-> IndexerName, api |-> TargetIndexer]}
                   \cup {[name |-> name, api |-> TargetId(name)] :
                           name \in {n \in Provided : TargetId(n) \in ApiIds}}
  BY <1>2 DEF StackInv, DomainsMade
<1>7. stackConfig = input.alternatives /\ Alternatives = Configured
  BY <1>2, ConfigIsInput DEF StackInv
<1>8. /\ resolvedAltZone = ZoneInTheEnd
      /\ Configured # {} => Written # None /\ Written.name \in input.zones
  BY <1>2 DEF StackInv, ZoneLookedUp
<1> QED
  BY <1>3, <1>4, <1>5, <1>6, <1>7, <1>8

LEMMA Certified == StackInv => ServedNamesAreCertified
<1> SUFFICES ASSUME StackInv, Synthesized, NEW d \in apiDomains
             PROVE  \/ d.name \in certificates["SharedDomainsCert"].names
                    \/ /\ d.name \in Alternatives
                       /\ stackConfig.alternatives[d.name].requiresTlsSan = FALSE
  BY DEF ServedNamesAreCertified
<1>1. certificates["SharedDomainsCert"].names = SharedNames
  <2>1. Done("certificate")
    BY AllDone DEF StackInv, Progress, Synthesized
  <2> QED
    BY <2>1 DEF StackInv, CertificatesMade
<1>2. CASE d.name \in {GatewayName, IndexerName}
  BY <1>1, <1>2 DEF SharedNames
<1>3. CASE d.name \in Configured
  <2>1. stackConfig = input.alternatives /\ Alternatives = Configured
    BY AtTheEnd
  <2> QED
    BY <1>1, <1>3, <2>1 DEF SharedNames, RequiresTlsSanOrDefault
<1>4. d.name \in {GatewayName, IndexerName} \/ d.name \in Configured
  <2>1. Provided \subseteq Configured
    BY AtTheEnd
  <2> QED
    BY <2>1, AtTheEnd
<1> QED
  BY <1>2, <1>3, <1>4

(* Whatever the third phase of the manager serves, the second had certified: *)
(* for every input and every order of the loop over the alternatives.        *)
THEOREM CertificateCovers == InputTypeOK(input) /\ Spec => []ServedNamesAreCertified
  BY StackInvHolds, Certified, PTL

(* A record of the template lies in the zone it is in. *)
LEMMA RecordZones ==
  ASSUME StackInv, Synthesized, NEW r \in records
  PROVE  /\ r.zone \in {MainDomain} \cup ({resolvedAltZone} \ {None})
         /\ InZone(r.name, r.zone)
<1> InputTypeOK(input) /\ ContextIsValid
  BY AtTheEnd DEF StackInv
<1>1. CASE r \in {NameRecord(n) : n \in Provided}
  <2>1. PICK n \in Provided : r = NameRecord(n)
    BY <1>1
  <2>2. n \in Configured /\ n \in Names
    BY AtTheEnd, InputNames
  <2>3. Written.name \in Names /\ Written.name # None /\ resolvedAltZone = Written.name
    <3>1. Written.name \in input.zones /\ resolvedAltZone = Written.name
      BY <2>2, AtTheEnd DEF ZoneInTheEnd
    <3> QED
      BY <3>1, InputNames DEF InputTypeOK
  <2>4. r.zone = Written.name /\ r.name = RecordedName(n, Written.name)
    BY <2>1 DEF NameRecord, ARecord
  <2> QED
    BY <2>2, <2>3, <2>4, RecordedInZone
<1>2. CASE r \notin {NameRecord(n) : n \in Provided}
  <2>1. ASSUME NEW n \in Names, NEW to
        PROVE  /\ ARecord(MainDomain, n, to).zone = MainDomain
               /\ InZone(ARecord(MainDomain, n, to).name, MainDomain)
    BY DeploymentNames, RecordedInZone DEF ARecord
  <2>2. \A i \in NodeNumbers : i \in Nat
    BY DEF NodeNumbers, InputTypeOK
  <2>3. /\ GatewayName \in Names /\ IndexerName \in Names
        /\ InnerGateway \in Names /\ InnerIndexer \in Names
        /\ \A i \in NodeNumbers : Named(NodeLabel(i)) \in Names
    BY <2>2, DeploymentNames, StackLabels
       DEF GatewayName, IndexerName, InnerGateway, InnerIndexer
  <2>4. r.zone = MainDomain /\ InZone(r.name, MainDomain)
    BY <1>2, <2>1, <2>3, AtTheEnd
       DEF AddressRecord, InnerRecords, PublicRecord, PublicName
  <2> QED
    BY <2>4
<1> QED
  BY <1>1, <1>2

LEMMA Validated == StackInv => ValidatedWhereRecorded
<1> SUFFICES ASSUME StackInv, Synthesized, NEW c \in DOMAIN certificates,
                    NEW name \in certificates[c].names
             PROVE  LET zones == {z \in {MainDomain} \cup ({resolvedAltZone} \ {None}) : InZone(name, z)}
                        zone  == certificates[c].validation[name]
                    IN /\ zones # {} => zone \in zones
                       /\ \A r \in records :
                             r.name = name => r.zone = zone \/ {r.zone, zone} \subseteq zones
  BY DEF ValidatedWhereRecorded
<1> DEFINE zones == {z \in {MainDomain} \cup ({resolvedAltZone} \ {None}) : InZone(name, z)}
           zone  == certificates[c].validation[name]
<1>1. MainDomain \in Names /\ InZone(MainDomain, MainDomain)
  BY DeploymentNames, InOwnZone, AtTheEnd DEF StackInv
<1>2. /\ resolvedAltZone = ZoneInTheEnd
      /\ Configured # {} => Written.name # None
  BY AtTheEnd DEF StackInv, InputTypeOK
<1>3. c # "SharedDomainsCert" => name = BaseDomain /\ zone = MainDomain
  BY DEF StackInv, CertificatesMade
<1>4. c = "SharedDomainsCert" =>
         zone = IF ZoneOfCertificate = None THEN MainDomain
                ELSE ValidationZone(name, MainDomain, ZoneOfCertificate)
  BY DEF StackInv, CertificatesMade
<1>5. ZoneOfCertificate # None => resolvedAltZone = ZoneOfCertificate
  BY <1>2 DEF ZoneOfCertificate, ZoneInTheEnd
<1>6. ZoneOfCertificate = None /\ resolvedAltZone # None => resolvedAltZone = MainDomain
  BY <1>2, AtTheEnd DEF ZoneOfCertificate, ZoneInTheEnd, TwoZones
<1>7. InZone(BaseDomain, MainDomain)
  BY DeploymentNames, AtTheEnd DEF StackInv
<1>8. zones # {} => zone \in zones
  <2>1. CASE c # "SharedDomainsCert"
    BY <1>3, <1>7, <2>1
  <2>2. CASE c = "SharedDomainsCert" /\ ZoneOfCertificate = None
    BY <1>4, <1>6, <2>2
  <2>3. CASE c = "SharedDomainsCert" /\ ZoneOfCertificate # None
    BY <1>4, <1>5, <2>3 DEF ValidationZone
  <2> QED
    BY <2>1, <2>2, <2>3
<1>9. ASSUME NEW r \in records, r.name = name
      PROVE  r.zone \in zones
  BY <1>9, RecordZones
<1> QED
  BY <1>8, <1>9

(* Every name of every certificate is validated where it can be, for any zone *)
(* of the alternatives and whatever names the configuration asks for.         *)
THEOREM CertificatesValidate == InputTypeOK(input) /\ Spec => []ValidatedWhereRecorded
  BY StackInvHolds, Validated, PTL

(***************************************************************************)
(* A good input is never refused.                                          *)
(***************************************************************************)
(* The loop takes no id twice: those of two names differ, and the lookup's  *)
(* is of another form.                                                      *)
LEMMA FreshIds ==
  ASSUME StackInv, GoodInput, NEW name \in Configured, name \notin Provided
  PROVE  IdsOf(name) \cap constructIds = {}
<1>1. constructIds \subseteq {LookupId} \cup UNION {IdsOf(n) : n \in Provided}
  BY DEF StackInv, IdsTaken
<1>2. Provided \subseteq Configured
  BY DEF Provided, Visited
<1>3. \A n, m \in Configured : Slug(n) = Slug(m) => n = m
  <2>1. Configured # {} =>
           IsInjective([n \in DOMAIN input.alternatives.alternatives |-> Slug(n)])
    BY DEF GoodInput, Configured
  <2> QED
    BY <2>1 DEF IsInjective, Configured
<1>4. \A n : \A id \in IdsOf(n) : /\ id \in {<<"AltARecord", Slug(n)>>, <<"AltApiGwDomain", Slug(n)>>}
                                  /\ id # LookupId /\ id[2] = Slug(n)
  BY DEF IdsOf, LookupId
<1>5. ASSUME NEW id \in IdsOf(name), id \in constructIds
      PROVE  FALSE
  <2>1. PICK n \in Provided : id \in IdsOf(n)
    BY <1>1, <1>4, <1>5
  <2>2. Slug(n) = Slug(name)
    BY <1>4, <1>5, <2>1
  <2> QED
    BY <1>2, <1>3, <2>1, <2>2
<1> QED
  BY <1>5

LEMMA OnlyTheNetworkPanics ==
  ASSUME StackInv, GoodInput, Next, outcome = "running", outcome' = "panicked"
  PROVE  At("network") /\ pc' = pc
<1> pc \in Nat
  BY DEF StackInv, Progress
<1>1. ~ Advance
  BY DEF Advance
<1>2. ContextIsValid /\ RequiredVariables \subseteq input.environment /\ GetFrontingKind = "api"
  BY DEF GoodInput, ContextIsValid
<1>3. ~ CertStack
  BY <1>1, <1>2 DEF CertStack, ContextIsValid
<1>4. ~ Environment /\ ~ FrontingKind
  BY <1>1, <1>2 DEF Environment, FrontingKind, Kinds
<1>5. ~ SharedCertificate
  BY <1>1, <1>2 DEF SharedCertificate
<1>6. ~ At("gatewayApi") /\ ~ At("indexerApi")
  BY <1>1, ApiSteps, RoutesAttached
<1>7. ~ ProvisionAlternativeDomains
  <2> SUFFICES ASSUME ProvisionAlternativeDomains
               PROVE  FALSE
    OBVIOUS
  <2>1. At("lookup")
    BY DEF ProvisionAlternativeDomains
  <2>2. Done("manager") /\ Done("certificate") /\ ~ Done("lookup")
    BY <2>1, StepOrder
  <2>3. AlternativeHostedZoneDomain = Written /\ (NothingToProvision <=> Configured = {})
    BY <2>2, ConfigIsInput DEF StackInv
  <2>4. Configured # {}
    BY <1>1, <2>3 DEF ProvisionAlternativeDomains
  <2>5. Written # None /\ Written.name \in input.zones /\ Written.name # None
    BY <2>4 DEF StackInv, InputTypeOK, GoodInput, Written, Configured
  <2>6. resolvedAltZone = ZoneOfCertificate /\ (LookupId \in constructIds <=> TwoZones)
    <3>1. Provided = {}
      BY <2>2 DEF Provided
    <3> QED
      BY <2>2, <3>1 DEF StackInv, ZoneLookedUp, IdsTaken
  <2>7. ~ LookupAlternativeZone(Written).duplicate /\ LookupAlternativeZone(Written).zone = Written.name
    <3>1. CASE TwoZones
      BY <2>5, <2>6, <3>1 DEF LookupAlternativeZone, ZoneOfCertificate
    <3>2. CASE ~ TwoZones
      BY <2>5, <2>6, <3>2 DEF LookupAlternativeZone, ZoneOfCertificate
    <3> QED
      BY <3>1, <3>2
  <2> QED
    BY <1>1, <2>3, <2>4, <2>5, <2>7 DEF ProvisionAlternativeDomains
<1>8. ~ ProvisionNext
  <2> SUFFICES ASSUME ProvisionNext
               PROVE  FALSE
    OBVIOUS
  <2>1. At("provision")
    BY ActionAt
  <2>2. Done("lookup") /\ Done("manager") /\ Done("nodes") /\ Done("targets")
    BY <2>1, StepOrder
  <2>3. PICK name \in todo : ProvisionAlternative(name)
    BY DEF ProvisionNext
  <2>4. stackConfig.alternatives[name].targetComponentId = TargetId(name)
    BY <2>2, ConfigIsInput DEF StackInv, TargetId
  <2>5. /\ TargetId(name) \in DOMAIN dnsTargets
        /\ AlternativeIds(name, dnsTargets[TargetId(name)]) \cap constructIds # {}
    BY <2>3, <2>4 DEF ProvisionAlternative
  <2>6. TargetId(name) \in ApiIds \cup NodeIds
    BY <2>2, <2>5 DEF StackInv, TargetsRegistered
  <2>7. AlternativeIds(name, dnsTargets[TargetId(name)]) = IdsOf(name)
    BY <2>5, <2>6 DEF StackInv, TargetsRegistered, AlternativeIds, IdsOf
  <2>8. name \in Configured /\ name \notin Provided
    BY <2>2 DEF StackInv, LoopState, Provided, Visited
  <2> QED
    BY <2>5, <2>7, <2>8, FreshIds
<1>9. ~ Finished
  BY DEF Finished
<1>10. KwilNetworkConfig
  <2>1. \/ CertStack \/ StackHostedDomain \/ Environment \/ FrontingKind
        \/ KwilNetworkConfig \/ NewValidatorSet \/ NewAlternativeDomainManager
        \/ LaunchAndRegisterNodes \/ NewKwilCluster \/ LaunchClusterInstances
        \/ SharedCertificate \/ GatewayFronting \/ IndexerFronting
        \/ RegisterFrontings \/ ProvisionAlternativeDomains \/ ProvisionNext
        \/ Provisioned \/ Finished
    BY DEF Next
  <2> QED
    BY <1>1, <1>3, <1>4, <1>5, <1>6, <1>7, <1>8, <1>9, <2>1, ActionAt
<1> QED
  BY <1>1, <1>10, ActionAt DEF Panic

LEMMA NoErrors == StackInv /\ GoodInput => errors = {}
  BY DEF StackInv, ZoneLookedUp, GoodInput, Written

(* No phase of the manager undoes or repeats what another did: a context, an *)
(* environment and a file without a mistake end in a template without an     *)
(* error, and only the key generator's command line can end the run before.  *)
THEOREM GoodInputsSynthesize == InputTypeOK(input) /\ Spec => []GoodInputIsAccepted
<1> DEFINE Accepted == GoodInput => (outcome = "panicked" => Steps[pc + 1] = "network")
<1>1. Init => Accepted
  BY DEF Init
<1>2. StackInv /\ Accepted /\ [Next]_vars => Accepted'
  <2> SUFFICES ASSUME StackInv, Accepted, [Next]_vars, GoodInput', outcome' = "panicked"
               PROVE  (Steps[pc + 1] = "network")'
    BY DEF Accepted
  <2>1. input' = input
    BY DoneUnless DEF StackInv, Progress, vars
  <2>2. GoodInput /\ Steps' = Steps
    BY <2>1 DEF GoodInput, RequiredVariables, GetFrontingKind, KeysInputIsValid,
       GenesisIsPossible, Steps, AutoSteps, ConfigSteps
  <2>3. CASE outcome = "panicked"
    <3>1. UNCHANGED vars
      <4>1. ASSUME Next
            PROVE  Finished
        <5>1. \A s : ~ At(s)
          BY <2>3 DEF At
        <5>2. \/ CertStack \/ StackHostedDomain \/ Environment \/ FrontingKind
              \/ KwilNetworkConfig \/ NewValidatorSet \/ NewAlternativeDomainManager
              \/ LaunchAndRegisterNodes \/ NewKwilCluster \/ LaunchClusterInstances
              \/ SharedCertificate \/ GatewayFronting \/ IndexerFronting
              \/ RegisterFrontings \/ ProvisionAlternativeDomains \/ ProvisionNext
              \/ Provisioned \/ Finished
          BY <4>1 DEF Next
        <5> QED
          BY <5>1, <5>2, ActionAt
      <4> QED
        BY <4>1 DEF Finished
    <3> QED
      BY <2>2, <2>3, <3>1 DEF vars, Accepted
  <2>4. CASE outcome # "panicked"
    <3>1. Next
      BY <2>4 DEF vars
    <3>2. outcome = "running"
      <4>1. outcome = "synthesized" => \A s : ~ At(s)
        BY DEF At
      <4>2. outcome = "synthesized" => ~ Advance
        BY DEF Advance
      <4>3. (\E s : At(s) /\ Advance) \/ Waits
        BY <3>1, DoneUnless DEF StackInv, Progress
      <4> QED
        BY <2>4, <4>1, <4>3 DEF StackInv, Progress, Waits
    <3>3. At("network") /\ pc' = pc
      BY <2>2, <3>1, <3>2, OnlyTheNetworkPanics
    <3> QED
      BY <2>2, <3>3 DEF At
  <2> QED
    BY <2>3, <2>4
<1>3. StackInv /\ Accepted => GoodInputIsAccepted
  BY NoErrors DEF GoodInputIsAccepted
<1> HIDE DEF Accepted
<1> QED
  BY <1>1, <1>2, <1>3, StackInvHolds, PTL DEF Spec

(***************************************************************************)
(* Where names lead, when the alternatives are names of their own.         *)
(***************************************************************************)
(* The decimal numerals of two numbers differ (strconv.Itoa). *)
NumeralsDiffer == \A i, j \in Nat : ToString(i) = ToString(j) => i = j

(* The names the stacks themselves give to addresses and APIs. *)
OwnNames == {GatewayName, IndexerName, InnerGateway, InnerIndexer}
            \cup {Named(NodeLabel(i)) : i \in NodeNumbers}

(* No alternative is one of them, as written or as its record has it, and no *)
(* two are recorded under one name.                                          *)
NamesApart ==
  Written # None =>
    \A n \in Configured :
       /\ n \notin OwnNames /\ RecordedName(n, Written.name) \notin OwnNames
       /\ \A m \in Configured :
             RecordedName(n, Written.name) = RecordedName(m, Written.name) => n = m

LEMMA OwnNamesDiffer ==
  ASSUME NumeralsDiffer, InputTypeOK(input), ContextIsValid
  PROVE  /\ GatewayName # IndexerName /\ GatewayName # InnerGateway
         /\ GatewayName # InnerIndexer /\ IndexerName # InnerGateway
         /\ IndexerName # InnerIndexer /\ InnerGateway # InnerIndexer
         /\ NodeNumbers \subseteq Nat
         /\ \A i \in NodeNumbers :
               /\ Named(NodeLabel(i)) \notin {GatewayName, IndexerName, InnerGateway, InnerIndexer}
               /\ \A j \in NodeNumbers : Named(NodeLabel(i)) = Named(NodeLabel(j)) => i = j
         /\ \A n \in OwnNames : RecordedName(n, MainDomain) = n
<1>1. NodeNumbers \subseteq Nat
  BY DEF NodeNumbers, InputTypeOK
<1>2. \A l, m \in Labels : Named(l) = Named(m) => l = m
  BY DeploymentNames
<1>3. /\ <<"gateway">> # <<"indexer">> /\ <<"gateway">> # <<"inner", "gateway">>
      /\ <<"gateway">> # <<"inner", "indexer">> /\ <<"indexer">> # <<"inner", "gateway">>
      /\ <<"indexer">> # <<"inner", "indexer">>
      /\ <<"inner", "gateway">> # <<"inner", "indexer">>
  OBVIOUS
<1>4. \A i \in Nat :
         /\ NodeLabel(i) \notin {<<"gateway">>, <<"indexer">>, <<"inner", "gateway">>,
                                 <<"inner", "indexer">>}
         /\ \A j \in Nat : NodeLabel(i) = NodeLabel(j) => i = j
  BY DEF NodeLabel, NumeralsDiffer
<1>5. ASSUME NEW i \in NodeNumbers
      PROVE  /\ Named(NodeLabel(i)) \notin {GatewayName, IndexerName, InnerGateway, InnerIndexer}
             /\ \A j \in NodeNumbers : Named(NodeLabel(i)) = Named(NodeLabel(j)) => i = j
  BY <1>1, <1>2, <1>4, StackLabels DEF GatewayName, IndexerName, InnerGateway, InnerIndexer
<1>6. /\ GatewayName # IndexerName /\ GatewayName # InnerGateway
      /\ GatewayName # InnerIndexer /\ IndexerName # InnerGateway
      /\ IndexerName # InnerIndexer /\ InnerGateway # InnerIndexer
  BY <1>2, <1>3, StackLabels DEF GatewayName, IndexerName, InnerGateway, InnerIndexer
<1>7. \A n \in OwnNames : InZone(n, MainDomain)
  BY <1>1, DeploymentNames, StackLabels
     DEF OwnNames, GatewayName, IndexerName, InnerGateway, InnerIndexer
<1> QED
  BY <1>1, <1>5, <1>6, <1>7 DEF RecordedName

(* Each record of the template, one by one. *)
LEMMA RecordsAtTheEnd ==
  ASSUME NumeralsDiffer, StackInv, Synthesized
  PROVE  /\ \A r \in records :
               \/ \E i \in NodeNumbers : r.name = Named(NodeLabel(i))
                                         /\ r.to = ToAddress(NodeTargetID(i))
               \/ r.name = InnerGateway /\ r.to = ToAddress(TargetGateway)
               \/ r.name = InnerIndexer /\ r.to = ToAddress(TargetIndexer)
               \/ r.name = GatewayName /\ r.to = ToApi(GatewayName)
               \/ r.name = IndexerName /\ r.to = ToApi(IndexerName)
               \/ \E n \in Configured :
                     /\ TargetId(n) \in ApiIds \cup NodeIds
                     /\ r.name = RecordedName(n, Written.name)
                     /\ r.to = IF TargetId(n) \in ApiIds THEN ToApi(n)
                                                         ELSE ToAddress(TargetId(n))
         /\ \A i \in NodeNumbers : \E r \in records :
               r.name = Named(NodeLabel(i)) /\ r.to = ToAddress(NodeTargetID(i))
         /\ \E r \in records : r.name = InnerGateway /\ r.to = ToAddress(TargetGateway)
         /\ \E r \in records : r.name = InnerIndexer /\ r.to = ToAddress(TargetIndexer)
         /\ \E r \in records : r.name = GatewayName /\ r.to = ToApi(GatewayName)
         /\ \E r \in records : r.name = IndexerName /\ r.to = ToApi(IndexerName)
         /\ \A n \in Configured : TargetId(n) \in ApiIds \cup NodeIds =>
               \E r \in records : /\ r.name = RecordedName(n, Written.name)
                                  /\ r.to = IF TargetId(n) \in ApiIds THEN ToApi(n)
                                                                      ELSE ToAddress(TargetId(n))
<1>1. \A n \in OwnNames : RecordedName(n, MainDomain) = n
  BY OwnNamesDiffer, AtTheEnd DEF StackInv
<1>2. /\ \A i \in NodeNumbers : AddressRecord(i) =
            [zone |-> MainDomain, name |-> Named(NodeLabel(i)), to |-> ToAddress(NodeTargetID(i))]
      /\ InnerRecords =
            {[zone |-> MainDomain, name |-> InnerGateway, to |-> ToAddress(TargetGateway)],
             [zone |-> MainDomain, name |-> InnerIndexer, to |-> ToAddress(TargetIndexer)]}
      /\ PublicRecord(TargetGateway) =
            [zone |-> MainDomain, name |-> GatewayName, to |-> ToApi(GatewayName)]
      /\ PublicRecord(TargetIndexer) =
            [zone |-> MainDomain, name |-> IndexerName, to |-> ToApi(IndexerName)]
  BY <1>1, IdsAreApart
     DEF AddressRecord, InnerRecords, PublicRecord, PublicName, ARecord, OwnNames
<1>3. \A n : /\ NameRecord(n).name = RecordedName(n, Written.name)
             /\ NameRecord(n).to = IF TargetId(n) \in ApiIds THEN ToApi(n)
                                                             ELSE ToAddress(TargetId(n))
  BY DEF NameRecord, ARecord
<1>4. /\ Provided = {n \in Configured : TargetId(n) \in ApiIds \cup NodeIds}
      /\ records = {AddressRecord(i) : i \in NodeNumbers} \cup InnerRecords
                      \cup {PublicRecord(TargetGateway), PublicRecord(TargetIndexer)}
                      \cup {NameRecord(name) : name \in Provided}
  BY AtTheEnd
<1>5. ASSUME NEW r \in records
      PROVE  \/ \E i \in NodeNumbers : r = AddressRecord(i)
             \/ r \in InnerRecords
             \/ r = PublicRecord(TargetGateway) \/ r = PublicRecord(TargetIndexer)
             \/ \E n \in Provided : r = NameRecord(n)
  BY <1>4
<1>6. /\ \A i \in NodeNumbers : AddressRecord(i) \in records
      /\ InnerRecords \subseteq records
      /\ PublicRecord(TargetGateway) \in records /\ PublicRecord(TargetIndexer) \in records
      /\ \A n \in Provided : NameRecord(n) \in records
  BY <1>4
<1>7. Provided = {n \in Configured : TargetId(n) \in ApiIds \cup NodeIds}
  BY <1>4
<1> QED
  BY <1>2, <1>3, <1>5, <1>6, <1>7

(* The addresses the records give for each name. *)
LEMMA AddressesAtTheEnd ==
  ASSUME NumeralsDiffer, NamesApart, StackInv, Synthesized
  PROVE  /\ \A i \in NodeNumbers : Addressed(Named(NodeLabel(i))) = {NodeTargetID(i)}
         /\ Addressed(InnerGateway) = {TargetGateway}
         /\ Addressed(InnerIndexer) = {TargetIndexer}
         /\ \A n \in Configured : RecordedName(n, Written.name) = n =>
               Addressed(n) = {TargetId(n)} \cap NodeIds
<1> /\ InputTypeOK(input) /\ ContextIsValid
  BY AtTheEnd DEF StackInv
<1>1. \A id : /\ ToAddress(id).kind = "ip" /\ ToAddress(id).of = id
              /\ ToApi(id).kind # "ip"
  BY DEF ToAddress, ToApi
<1>2. ASSUME NEW x, NEW id,
             \E r \in records : r.name = x /\ r.to = ToAddress(id),
             \A r \in records : r.name = x => r.to = ToAddress(id)
      PROVE  Addressed(x) = {id}
  BY <1>1, <1>2 DEF Addressed
<1>3. ASSUME NEW r \in records, r.name \in OwnNames
      PROVE  \/ \E i \in NodeNumbers : r.name = Named(NodeLabel(i))
                                         /\ r.to = ToAddress(NodeTargetID(i))
             \/ r.name = InnerGateway /\ r.to = ToAddress(TargetGateway)
             \/ r.name = InnerIndexer /\ r.to = ToAddress(TargetIndexer)
             \/ r.name = GatewayName \/ r.name = IndexerName
  BY <1>3, RecordsAtTheEnd, AtTheEnd DEF NamesApart
<1>4. ASSUME NEW i \in NodeNumbers
      PROVE  Addressed(Named(NodeLabel(i))) = {NodeTargetID(i)}
  <2>1. \E r \in records : r.name = Named(NodeLabel(i)) /\ r.to = ToAddress(NodeTargetID(i))
    BY RecordsAtTheEnd
  <2>2. \A r \in records : r.name = Named(NodeLabel(i)) => r.to = ToAddress(NodeTargetID(i))
    BY <1>3, OwnNamesDiffer DEF OwnNames
  <2> QED
    BY <1>2, <2>1, <2>2
<1>5. Addressed(InnerGateway) = {TargetGateway}
  <2>1. \E r \in records : r.name = InnerGateway /\ r.to = ToAddress(TargetGateway)
    BY RecordsAtTheEnd
  <2>2. \A r \in records : r.name = InnerGateway => r.to = ToAddress(TargetGateway)
    BY <1>3, OwnNamesDiffer DEF OwnNames
  <2> QED
    BY <1>2, <2>1, <2>2
<1>6. Addressed(InnerIndexer) = {TargetIndexer}
  <2>1. \E r \in records : r.name = InnerIndexer /\ r.to = ToAddress(TargetIndexer)
    BY RecordsAtTheEnd
  <2>2. \A r \in records : r.name = InnerIndexer => r.to = ToAddress(TargetIndexer)
    BY <1>3, OwnNamesDiffer DEF OwnNames
  <2> QED
    BY <1>2, <2>1, <2>2
<1>7. ASSUME NEW n \in Configured, RecordedName(n, Written.name) = n
      PROVE  Addressed(n) = {TargetId(n)} \cap NodeIds
  <2>1. ASSUME NEW r \in records, r.name = n
        PROVE  /\ TargetId(n) \in ApiIds \cup NodeIds
               /\ r.to = IF TargetId(n) \in ApiIds THEN ToApi(n) ELSE ToAddress(TargetId(n))
    <3>1. n \notin OwnNames
      BY AtTheEnd DEF NamesApart
    <3>2. PICK m \in Configured :
                     /\ TargetId(m) \in ApiIds \cup NodeIds
                     /\ r.name = RecordedName(m, Written.name)
                     /\ r.to = IF TargetId(m) \in ApiIds THEN ToApi(m)
                                                         ELSE ToAddress(TargetId(m))
      BY <2>1, <3>1, RecordsAtTheEnd DEF OwnNames
    <3>3. m = n
      BY <1>7, <2>1, <3>2, AtTheEnd DEF NamesApart
    <3> QED
      BY <3>2, <3>3
  <2>2. CASE TargetId(n) \in NodeIds
    <3>1. TargetId(n) \notin ApiIds
      BY <2>2, IdsAreApart
    <3>2. \E r \in records : r.name = n /\ r.to = ToAddress(TargetId(n))
      BY <1>7, <2>2, <3>1, RecordsAtTheEnd
    <3> QED
      BY <1>2, <2>1, <2>2, <3>1, <3>2
  <2>3. CASE TargetId(n) \notin NodeIds
    <3>1. \A r \in records : r.name = n => r.to.kind # "ip"
      BY <1>1, <2>1, <2>3
    <3> QED
      BY <2>3, <3>1 DEF Addressed
  <2> QED
    BY <2>2, <2>3
<1> QED
  BY <1>4, <1>5, <1>6, <1>7

(* The nodes of the template, and the addresses given for them. *)
LEMMA NodesAtTheEnd ==
  ASSUME NumeralsDiffer, StackInv, Synthesized
  PROVE  /\ DOMAIN nodes = NodeNumbers /\ 1 \in NodeNumbers
         /\ \A i \in NodeNumbers :
               /\ nodes[i].external = Named(NodeLabel(i))
               /\ nodes[i].public = <<"public">> \o nodes[i].key
               /\ nodes[i].bootnodes = {[public |-> nodes[j].public, address |-> Named(NodeLabel(j))] :
                                           j \in NodeNumbers \ {i}}
               /\ input.stack = "auto" =>
                     /\ nodes[i].genesis.validators = {nodes[j].public : j \in NodeNumbers}
                     /\ nodes[i].genesis.leader = nodes[1].public
         /\ backends = {Named(NodeLabel(i)) : i \in NodeNumbers}
         /\ indexedNode = Named(NodeLabel(1))
<1>1. pc = Len(Steps)
  BY DEF StackInv, Progress, Synthesized
<1>2. Done("network") /\ Done("validators") /\ Done("cluster")
  BY <1>1, AllDone
<1>3. /\ network = TheNetwork /\ nodes = [i \in NodeNumbers |-> Node(i)]
      /\ backends = {ThePeers[i].address : i \in NodeNumbers}
      /\ indexedNode = ThePeers[1].address
  BY <1>2 DEF StackInv, NetworkMade
<1>4. 1 \in NodeNumbers
  BY AtTheEnd DEF StackInv, InputTypeOK, NodeNumbers, KeysInputIsValid
<1>5. ASSUME NEW i \in NodeNumbers
      PROVE  NetworkKeys[i].public = <<"public">> \o NetworkKeys[i].private
  <2>1. CASE input.stack = "auto"
    <3>1. NetworkKeys[i] = GenerateNodeKeys(i)
      BY <2>1 DEF NetworkKeys, NodeNumbers
    <3>2. <<"public", "generated", i>> = <<"public">> \o <<"generated", i>>
      OBVIOUS
    <3> QED
      BY <3>1, <3>2 DEF GenerateNodeKeys
  <2>2. CASE input.stack # "auto"
    BY <2>2 DEF NetworkKeys, NodeNumbers, ExtractKeys, StackInv, InputTypeOK
  <2> QED
    BY <2>1, <2>2
<1>6. \A i \in NodeNumbers : /\ ThePeers[i].address = Named(NodeLabel(i))
                            /\ ThePeers[i].public = NetworkKeys[i].public
  BY DEF ThePeers, Peer
<1>7. /\ network.keys = NetworkKeys /\ network.peers = ThePeers
      /\ input.stack = "auto" => network.genesis = GenerateGenesisFile(ThePeers)
      /\ DOMAIN ThePeers = NodeNumbers
  BY <1>3 DEF TheNetwork, ThePeers
<1>8. ASSUME NEW i \in NodeNumbers
      PROVE  /\ nodes[i].key = NetworkKeys[i].private
             /\ nodes[i].public = NetworkKeys[i].public
             /\ nodes[i].external = Named(NodeLabel(i))
             /\ nodes[i].genesis = network.genesis
             /\ nodes[i].bootnodes = {[public |-> NetworkKeys[j].public, address |-> Named(NodeLabel(j))] :
                                         j \in NodeNumbers \ {i}}
  <2>1. nodes[i] = Node(i)
    BY <1>3
  <2>2. Bootnodes(i) = {[public |-> NetworkKeys[j].public, address |-> Named(NodeLabel(j))] :
                          j \in NodeNumbers \ {i}}
    BY <1>6, <1>7 DEF Bootnodes
  <2> QED
    BY <1>6, <1>7, <2>1, <2>2 DEF Node
<1>9. input.stack = "auto" =>
         /\ network.genesis.validators = {NetworkKeys[j].public : j \in NodeNumbers}
         /\ network.genesis.leader = NetworkKeys[1].public
  BY <1>4, <1>6, <1>7 DEF GenerateGenesisFile
<1>10. \A i \in NodeNumbers : nodes[i].public = <<"public">> \o nodes[i].key
  BY <1>5, <1>8
<1>11. \A i \in NodeNumbers : nodes[i].bootnodes =
          {[public |-> nodes[j].public, address |-> Named(NodeLabel(j))] : j \in NodeNumbers \ {i}}
  BY <1>8
<1>12. \A i \in NodeNumbers : input.stack = "auto" =>
          /\ nodes[i].genesis.validators = {nodes[j].public : j \in NodeNumbers}
          /\ nodes[i].genesis.leader = nodes[1].public
  BY <1>4, <1>8, <1>9
<1>13. /\ DOMAIN nodes = NodeNumbers
       /\ backends = {Named(NodeLabel(i)) : i \in NodeNumbers}
       /\ indexedNode = Named(NodeLabel(1))
  BY <1>3, <1>4, <1>6
<1> QED
  BY <1>4, <1>8, <1>10, <1>11, <1>12, <1>13

LEMMA Meeting == NumeralsDiffer /\ NamesApart /\ StackInv => NetworkIsOne
<1> SUFFICES ASSUME NumeralsDiffer, NamesApart, StackInv, Synthesized
             PROVE  /\ \A i \in DOMAIN nodes :
                          /\ \A b \in nodes[i].bootnodes :
                               \E j \in DOMAIN nodes \ {i} :
                                  /\ Addressed(b.address) = {NodeTargetID(j)}
                                  /\ nodes[j].public = b.public
                                  /\ nodes[j].external = b.address
                          /\ UNION {Addressed(b.address) : b \in nodes[i].bootnodes}
                               = {NodeTargetID(j) : j \in DOMAIN nodes \ {i}}
                          /\ nodes[i].public = <<"public">> \o nodes[i].key
                    /\ UNION {Addressed(a) : a \in backends} = {NodeTargetID(i) : i \in DOMAIN nodes}
                    /\ input.stack = "auto" =>
                         \A i \in DOMAIN nodes :
                            /\ nodes[i].genesis.validators = {nodes[j].public : j \in DOMAIN nodes}
                            /\ \E j \in DOMAIN nodes :
                                  /\ nodes[j].public = nodes[i].genesis.leader
                                  /\ Addressed(indexedNode) = {NodeTargetID(j)}
  BY DEF NetworkIsOne
<1>1. \A i \in NodeNumbers : Addressed(Named(NodeLabel(i))) = {NodeTargetID(i)}
  BY AddressesAtTheEnd
<1>2. DOMAIN nodes = NodeNumbers /\ 1 \in NodeNumbers
  BY NodesAtTheEnd
<1>3. ASSUME NEW i \in DOMAIN nodes
      PROVE  /\ \A b \in nodes[i].bootnodes :
                  \E j \in DOMAIN nodes \ {i} :
                     /\ Addressed(b.address) = {NodeTargetID(j)}
                     /\ nodes[j].public = b.public
                     /\ nodes[j].external = b.address
             /\ UNION {Addressed(b.address) : b \in nodes[i].bootnodes}
                  = {NodeTargetID(j) : j \in DOMAIN nodes \ {i}}
             /\ nodes[i].public = <<"public">> \o nodes[i].key
  <2> i \in NodeNumbers
    BY <1>2
  <2>1. nodes[i].bootnodes = {[public |-> nodes[j].public, address |-> Named(NodeLabel(j))] :
                                j \in NodeNumbers \ {i}}
    BY NodesAtTheEnd
  <2>2. ASSUME NEW b \in nodes[i].bootnodes
        PROVE  \E j \in NodeNumbers \ {i} :
                  /\ b.address = Named(NodeLabel(j))
                  /\ Addressed(b.address) = {NodeTargetID(j)}
                  /\ nodes[j].public = b.public
                  /\ nodes[j].external = b.address
    <3>1. PICK j \in NodeNumbers \ {i} :
             b = [public |-> nodes[j].public, address |-> Named(NodeLabel(j))]
      BY <2>1
    <3>2. nodes[j].external = Named(NodeLabel(j))
      BY NodesAtTheEnd
    <3> QED
      BY <1>1, <3>1, <3>2
  <2>3. ASSUME NEW j \in NodeNumbers \ {i}
        PROVE  \E b \in nodes[i].bootnodes : Addressed(b.address) = {NodeTargetID(j)}
    <3>1. [public |-> nodes[j].public, address |-> Named(NodeLabel(j))] \in nodes[i].bootnodes
      BY <2>1
    <3> QED
      BY <1>1, <3>1
  <2>4. UNION {Addressed(b.address) : b \in nodes[i].bootnodes}
          = {NodeTargetID(j) : j \in DOMAIN nodes \ {i}}
    <3>1. ASSUME NEW x, \E b \in nodes[i].bootnodes : x \in Addressed(b.address)
          PROVE  \E j \in NodeNumbers \ {i} : x = NodeTargetID(j)
      BY <2>2, <3>1
    <3>2. ASSUME NEW j \in NodeNumbers \ {i}
          PROVE  \E b \in nodes[i].bootnodes : NodeTargetID(j) \in Addressed(b.address)
      BY <2>3
    <3> QED
      BY <1>2, <3>1, <3>2
  <2>5. nodes[i].public = <<"public">> \o nodes[i].key
    BY NodesAtTheEnd
  <2> QED
    BY <1>2, <2>2, <2>4, <2>5
<1>4. UNION {Addressed(a) : a \in backends} = {NodeTargetID(i) : i \in DOMAIN nodes}
  <2>1. backends = {Named(NodeLabel(i)) : i \in NodeNumbers}
    BY NodesAtTheEnd
  <2> QED
    BY <1>1, <1>2, <2>1
<1>5. ASSUME input.stack = "auto", NEW i \in DOMAIN nodes
      PROVE  /\ nodes[i].genesis.validators = {nodes[j].public : j \in DOMAIN nodes}
             /\ \E j \in DOMAIN nodes : /\ nodes[j].public = nodes[i].genesis.leader
                                       /\ Addressed(indexedNode) = {NodeTargetID(j)}
  <2>1. indexedNode = Named(NodeLabel(1))
    BY NodesAtTheEnd
  <2>2. /\ nodes[i].genesis.validators = {nodes[j].public : j \in NodeNumbers}
        /\ nodes[i].genesis.leader = nodes[1].public
    BY <1>2, <1>5, NodesAtTheEnd
  <2> QED
    BY <1>1, <1>2, <2>1, <2>2
<1> QED
  BY <1>2, <1>3, <1>4, <1>5

(* The hypothesis on the names is about the input, which no step changes. *)
LEMMA NamesStayApart ==
  InputTypeOK(input) /\ NamesApart /\ Spec => [](StackInv /\ NamesApart)
<1>1. StackInv /\ NamesApart /\ [Next]_vars => NamesApart'
  <2> SUFFICES ASSUME StackInv, NamesApart, [Next]_vars
               PROVE  NamesApart'
    OBVIOUS
  <2>1. input' = input
    BY DoneUnless DEF StackInv, Progress, vars
  <2>2. \A i : Named(NodeLabel(i))' = Named(NodeLabel(i))
    BY <2>1 DEF Named
  <2>3. OwnNames' = OwnNames
    BY <2>1, <2>2, RunConstants DEF OwnNames
  <2> QED
    BY <2>1, <2>3, RunConstants DEF NamesApart
<1> QED
  BY <1>1, StackInvHolds, PTL DEF Spec

(* The validators of a synthesized network can meet, for every number of     *)
(* nodes and either stack: what a node is told of another is what that other *)
(* is installed with, and leads there; the gateway's and the indexer's       *)
(* addresses do; the leader of a generated genesis is the node the indexer   *)
(* reads.  Two nodes may share a key (nothing refuses it); two alternatives  *)
(* may not share a name with one another or with the stack.                  *)
THEOREM ValidatorsMeet ==
  ASSUME NumeralsDiffer
  PROVE  InputTypeOK(input) /\ NamesApart /\ Spec => []NetworkIsOne
<1>1. StackInv /\ NamesApart => NetworkIsOne
  BY NumeralsDiffer, Meeting
<1> QED
  BY <1>1, NamesStayApart, PTL

(* The component behind each public name. *)
LEMMA ServedAtTheEnd ==
  ASSUME NumeralsDiffer, NamesApart, StackInv, Synthesized
  PROVE  /\ Served(GatewayName) = {TargetGateway} /\ Served(IndexerName) = {TargetIndexer}
         /\ \A n \in Configured : RecordedName(n, Written.name) = n =>
               Served(n) = {TargetId(n)} \cap ApiIds
<1>1. apis[TargetGateway] = InnerGateway /\ apis[TargetIndexer] = InnerIndexer
  <2>1. Done("gatewayApi") /\ Done("indexerApi")
    BY AllDone DEF StackInv, Progress, Synthesized
  <2> QED
    BY <2>1 DEF StackInv, ApisMade
<1>2. \A id \in ApiIds : Addressed(apis[id]) = {id}
  BY <1>1, AddressesAtTheEnd DEF ApiIds
<1>3. GatewayName # IndexerName
  BY OwnNamesDiffer, AtTheEnd DEF StackInv
<1>4. Provided = {n \in Configured : TargetId(n) \in ApiIds \cup NodeIds}
  BY AtTheEnd
<1>5. ASSUME NEW d \in apiDomains
      PROVE  \/ d.name = GatewayName /\ d.api = TargetGateway
             \/ d.name = IndexerName /\ d.api = TargetIndexer
             \/ d.name \in Configured /\ d.api = TargetId(d.name) /\ d.api \in ApiIds
  BY <1>4, AtTheEnd
<1>6. \A n \in Configured : n # GatewayName /\ n # IndexerName
  BY AtTheEnd DEF NamesApart, OwnNames
<1>7. ASSUME NEW x, NEW id \in ApiIds,
             \E d \in apiDomains : d.name = x /\ d.api = id,
             \A d \in apiDomains : d.name = x => d.api = id,
             \E r \in records : r.name = x /\ r.to = ToApi(x)
      PROVE  Served(x) = {id}
  <2>1. \A d \in {e \in apiDomains : /\ e.name = x
                                     /\ \E r \in records : r.name = x /\ r.to = ToApi(x)} :
           Addressed(apis[d.api]) = {id}
    BY <1>2, <1>7
  <2>2. \E d \in apiDomains : d.name = x
    BY <1>7
  <2> QED
    BY <1>7, <2>1, <2>2 DEF Served
<1>8. Served(GatewayName) = {TargetGateway}
  <2>1. \E r \in records : r.name = GatewayName /\ r.to = ToApi(GatewayName)
    BY RecordsAtTheEnd
  <2>2. [name |-> GatewayName, api |-> TargetGateway] \in apiDomains
    BY AtTheEnd
  <2> QED
    BY <1>3, <1>5, <1>6, <1>7, <2>1, <2>2 DEF ApiIds
<1>9. Served(IndexerName) = {TargetIndexer}
  <2>1. \E r \in records : r.name = IndexerName /\ r.to = ToApi(IndexerName)
    BY RecordsAtTheEnd
  <2>2. [name |-> IndexerName, api |-> TargetIndexer] \in apiDomains
    BY AtTheEnd
  <2> QED
    BY <1>3, <1>5, <1>6, <1>7, <2>1, <2>2 DEF ApiIds
<1>10. ASSUME NEW n \in Configured, RecordedName(n, Written.name) = n
       PROVE  Served(n) = {TargetId(n)} \cap ApiIds
  <2>1. \A d \in apiDomains : d.name = n => d.api = TargetId(n) /\ d.api \in ApiIds
    BY <1>5, <1>6
  <2>2. CASE TargetId(n) \in ApiIds
    <3>1. \E r \in records : r.name = n /\ r.to = ToApi(n)
      BY <1>10, <2>2, RecordsAtTheEnd
    <3>2. [name |-> n, api |-> TargetId(n)] \in apiDomains
      BY <1>4, <2>2, AtTheEnd
    <3>3. Served(n) = {TargetId(n)}
      BY <1>7, <2>1, <2>2, <3>1, <3>2
    <3> QED
      BY <2>2, <3>3
  <2>3. CASE TargetId(n) \notin ApiIds
    <3>1. \A d \in apiDomains : d.name # n
      BY <2>1, <2>3
    <3>2. Served(n) = {}
      BY <3>1 DEF Served
    <3> QED
      BY <2>3, <3>2
  <2> QED
    BY <2>2, <2>3
<1> QED
  BY <1>8, <1>9, <1>10

LEMMA Leading == NumeralsDiffer /\ NamesApart /\ StackInv => NamesReachTheirComponent
<1> SUFFICES ASSUME NumeralsDiffer, NamesApart, StackInv, Synthesized
             PROVE  /\ Served(GatewayName) = {TargetGateway}
                    /\ Served(IndexerName) = {TargetIndexer}
                    /\ \A i \in DOMAIN nodes : Addressed(Named(NodeLabel(i))) = {NodeTargetID(i)}
                    /\ \A name \in Alternatives :
                         InZone(name, resolvedAltZone) =>
                           /\ Served(name) = {TargetOf(name)} \cap {TargetGateway, TargetIndexer}
                           /\ Addressed(name) =
                                {TargetOf(name)} \cap {NodeTargetID(i) : i \in DOMAIN nodes}
                    /\ input.stack = "auto" => \A c \in Components : attached[c] = c
  BY DEF NamesReachTheirComponent
<1>1. DOMAIN nodes = NodeNumbers
  BY NodesAtTheEnd
<1>2. NodeIds = {NodeTargetID(i) : i \in DOMAIN nodes}
  BY <1>1 DEF NodeIds
<1>3. \A i \in DOMAIN nodes : Addressed(Named(NodeLabel(i))) = {NodeTargetID(i)}
  BY <1>1, AddressesAtTheEnd
<1>4. ASSUME NEW name \in Alternatives, InZone(name, resolvedAltZone)
      PROVE  /\ Served(name) = {TargetOf(name)} \cap {TargetGateway, TargetIndexer}
             /\ Addressed(name) = {TargetOf(name)} \cap {NodeTargetID(i) : i \in DOMAIN nodes}
  <2>1. /\ name \in Configured /\ stackConfig = input.alternatives
        /\ resolvedAltZone = ZoneInTheEnd
    BY AtTheEnd
  <2>2. RecordedName(name, Written.name) = name /\ TargetOf(name) = TargetId(name)
    BY <1>4, <2>1 DEF ZoneInTheEnd, RecordedName, TargetOf, TargetId
  <2>3. Served(name) = {TargetId(name)} \cap ApiIds
    BY <2>1, <2>2, ServedAtTheEnd
  <2>4. Addressed(name) = {TargetId(name)} \cap NodeIds
    BY <2>1, <2>2, AddressesAtTheEnd
  <2> QED
    BY <1>2, <2>2, <2>3, <2>4 DEF ApiIds
<1>5. ASSUME input.stack = "auto", NEW c \in Components
      PROVE  attached[c] = c
  <2>1. Done("nodes") /\ Done("instances")
    BY <1>5, AllDone DEF StackInv, Progress, Synthesized
  <2>2. c \in NodeIds \cup ApiIds
    BY <1>2 DEF Components, ApiIds
  <2> QED
    BY <1>5, <2>1, <2>2 DEF StackInv, Attachments
<1>6. Served(GatewayName) = {TargetGateway} /\ Served(IndexerName) = {TargetIndexer}
  BY ServedAtTheEnd
<1> QED
  BY <1>3, <1>4, <1>5, <1>6

(* Every public name of a synthesized template leads to the component it     *)
(* names, whatever the size of the network, the zone and the targets of the  *)
(* alternatives, and the order in which the loop visits them.                *)
THEOREM NamesLead ==
  ASSUME NumeralsDiffer
  PROVE  InputTypeOK(input) /\ NamesApart /\ Spec => []NamesReachTheirComponent
<1>1. StackInv /\ NamesApart => NamesReachTheirComponent
  BY NumeralsDiffer, Leading
<1> QED
  BY <1>1, NamesStayApart, PTL
=============================================================================
