--------------------------- MODULE StackSynthesis ---------------------------
(***************************************************************************)
(* One run of the infrastructure program, for one selected stack: main     *)
(* first builds the certificate stack, then either TN-Auto (which makes    *)
(* node keys, a genesis file and the instances) or TN-From-Config (which   *)
(* takes keys and genesis from the environment and makes launch templates  *)
(* only).  Each step below is one construct of the stack, in the order of  *)
(* the stack's code; a panic ends the run.  The result is a template: hosts *)
(* with their configuration, addresses, records, API domains, certificates. *)
(***************************************************************************)
EXTENDS AlternativeDomains

VARIABLES
    pc,            \* how many steps of the stack are done
    network,       \* [keys, peers, genesis] of the validator network
    nodes,         \* the launch templates of the nodes, in order
    backends,      \* the addresses the gateway forwards to
    indexedNode,   \* the address the indexer reads from
    attached,      \* [component -> component whose address its instance has]
    apis,          \* [component -> name of the endpoint of its API]
    certificates   \* [construct -> certificate]

managerVars  == <<stackConfig, dnsTargets, resolvedAltZone, constructIds, todo>>
hostVars     == <<nodes, backends, indexedNode, attached>>
templateVars == <<records, apiDomains, apis, certificates>>
vars == <<input, outcome, errors, pc, network, managerVars, hostVars,
          templateVars>>

AutoSteps == <<"cert", "environment", "domain", "network", "validators",
               "manager", "nodes", "kind", "cluster", "instances",
               "certificate", "gatewayApi", "indexerApi", "targets",
               "lookup", "provision">>

ConfigSteps == <<"cert", "environment", "kind", "manager", "domain", "network",
                 "validators", "nodes", "cluster",
                 "certificate", "gatewayApi", "indexerApi", "targets",
                 "lookup", "provision">>

Steps == IF input.stack = "auto" THEN AutoSteps ELSE ConfigSteps

At(step) == outcome = "running" /\ pc < Len(Steps) /\ Steps[pc + 1] = step

Advance == /\ pc' = pc + 1
           /\ outcome' = IF pc + 1 = Len(Steps) THEN "synthesized" ELSE outcome
           /\ UNCHANGED input

Panic == /\ outcome' = "panicked"
         /\ UNCHANGED <<input, errors, pc, network, managerVars, hostVars,
                        templateVars>>

(* What every input is, a mistaken one too: the zones that exist and the    *)
(* alternatives have names, and splitting the keys gives one at least.      *)
InputTypeOK(i) ==
    /\ i.numOfNodes \in Nat
    /\ Len(i.privateKeys) \in Nat \ {0}
    /\ DOMAIN i.privateKeys = 1..Len(i.privateKeys)
    /\ None \notin i.zones /\ \A zone \in i.zones : IsName(zone)
    /\ i.alternatives # None =>
         \A name \in DOMAIN i.alternatives.alternatives : IsName(name)

Init == /\ outcome = "running" /\ errors = {} /\ pc = 0
        /\ stackConfig = None /\ dnsTargets = <<>> /\ resolvedAltZone = None
        /\ constructIds = {} /\ todo = {}
        /\ network = [keys |-> <<>>, peers |-> <<>>, genesis |-> None]
        /\ nodes = <<>> /\ backends = {} /\ indexedNode = None
        /\ attached = <<>>
        /\ records = {} /\ apiDomains = {} /\ apis = <<>>
        /\ certificates = <<>>

(***************************************************************************)
(* Domains.                                                                *)
(***************************************************************************)
With(f, k, v) == [x \in DOMAIN f \cup {k} |-> IF x = k THEN v ELSE f[x]]

BaseDomain == FQDN(input.stage, input.devPrefix)
Named(label) == Subdomain(label, input.stage, input.devPrefix)
GatewayName == Named(<<"gateway">>)
IndexerName == Named(<<"indexer">>)

(* A hosted domain looks up the fixed zone and makes a certificate for the  *)
(* deployment's own name.                                                   *)
HostedDomain(construct) ==
    certificates' = With(certificates, construct,
        [domainName |-> BaseDomain, names |-> {BaseDomain},
         validation |-> [name \in {BaseDomain} |-> MainDomain]])

(* The certificate stack is built on every run and first reads the context: *)
(* a stage or prefix that is missing, unknown or does not fit the other     *)
(* panics here, before the selected stack is built.                         *)
CertStack ==
    /\ At("cert")
    /\ IF /\ StageIsValid(input.stage) /\ DevPrefixIsValid(input.devPrefix)
          /\ SpecIsValid(input.stage, input.devPrefix)
       THEN /\ HostedDomain("TN-Cert")
            /\ Advance
            /\ UNCHANGED <<errors, network, managerVars, hostVars, records,
                           apiDomains, apis>>
       ELSE Panic

StackHostedDomain ==
    /\ At("domain")
    /\ HostedDomain("HostedDomain")
    /\ Advance
    /\ UNCHANGED <<errors, network, managerVars, hostVars, records, apiDomains,
                   apis>>

(* The variables a stack requires must be set; they may be empty. *)
RequiredVariables ==
    {"KWILD_CLI_PATH", "CDK_DOCKER", "CHAIN_ID", "SESSION_SECRET"} \cup
    (IF input.stack = "auto" THEN {"DB_OWNER"}
     ELSE {"NODE_PRIVATE_KEYS", "GENESIS_PATH"})

Environment ==
    /\ At("environment")
    /\ IF RequiredVariables \subseteq input.environment
       THEN /\ Advance
            /\ UNCHANGED <<errors, network, managerVars, hostVars, templateVars>>
       ELSE Panic

(* The fronting kind of the context: the API gateway if it is not set. *)
Kinds == {"api", "alb", "cloudfront"}
GetFrontingKind ==
    IF input.frontingType = None THEN "api" ELSE input.frontingType

FrontingKind ==
    /\ At("kind")
    /\ IF GetFrontingKind \in Kinds
       THEN /\ Advance
            /\ UNCHANGED <<errors, network, managerVars, hostVars, templateVars>>
       ELSE Panic

(***************************************************************************)
(* The validator network: keys, peers and genesis.                         *)
(***************************************************************************)
GenerateNodeKeys(i) == [private |-> <<"generated", i>>,
                        public |-> <<"public", "generated", i>>]
ExtractKeys(key) == [private |-> key, public |-> <<"public">> \o key]

Peer(i, keys) == [address |-> Named(NodeLabel(i)), public |-> keys[i].public]

(* A generated genesis names every peer a validator, the first the leader. *)
GenerateGenesisFile(peers) ==
    [validators |-> {peers[i].public : i \in DOMAIN peers},
     leader |-> peers[1].public]

(* TN-From-Config splits NODE_PRIVATE_KEYS, which gives one key at least,   *)
(* and never a node count; TN-Auto gives a count, which must be positive.   *)
KeysInputIsValid ==
    IF input.stack = "auto" THEN input.numOfNodes > 0
    ELSE \A i \in DOMAIN input.privateKeys : input.privateKeys[i] # Invalid

NetworkKeys ==
    IF input.stack = "auto"
    THEN [i \in 1..input.numOfNodes |-> GenerateNodeKeys(i)]
    ELSE [i \in DOMAIN input.privateKeys |-> ExtractKeys(input.privateKeys[i])]

(* A genesis file is used if a path is given and its chain id is that of    *)
(* the environment; if none is given one is generated for the owner.        *)
GenesisIsPossible ==
    IF input.stack = "config" /\ input.genesisFile # None
    THEN input.genesisFile # Invalid
    ELSE input.stack = "auto" /\ input.dbOwner # None

(* The peers, the node keys and the genesis.  The kwild command line may    *)
(* fail at any of its calls.  TN-Auto does not pass its domain on, so a     *)
(* second hosted domain is made for it.                                     *)
KwilNetworkConfig ==
    /\ At("network")
    /\ IF KeysInputIsValid /\ GenesisIsPossible
       THEN \/ LET keys  == NetworkKeys
                   peers == [i \in DOMAIN keys |-> Peer(i, keys)]
               IN /\ network' = [keys |-> keys, peers |-> peers,
                                 genesis |-> IF input.stack = "auto"
                                             THEN GenerateGenesisFile(peers)
                                             ELSE input.genesisFile]
                  /\ IF input.stack = "auto"
                     THEN HostedDomain("NetworkDomainInternalLookup")
                     ELSE UNCHANGED certificates
                  /\ Advance
                  /\ UNCHANGED <<errors, managerVars, hostVars, records,
                                 apiDomains, apis>>
            \/ Panic
       ELSE Panic

(* Mutant: the key of a boot node is that of the node itself. *)
BootnodesOwnKey(i) ==
    {[public |-> network.peers[i].public, address |-> network.peers[j].address] :
       j \in DOMAIN network.peers \ {i}}

(* The peers a node starts from: all the others. *)
Bootnodes(i) ==
    {[public |-> network.peers[j].public, address |-> network.peers[j].address] :
       j \in DOMAIN network.peers \ {i}}

Node(i) == [key |-> network.keys[i].private, public |-> network.keys[i].public,
            bootnodes |-> Bootnodes(i), external |-> network.peers[i].address,
            genesis |-> network.genesis]

(* One launch template, one elastic address and one record for each peer. *)
NewValidatorSet ==
    /\ At("validators")
    /\ nodes' = [i \in DOMAIN network.peers |-> Node(i)]
    /\ records' = records \cup
         {ARecord(MainDomain, network.peers[i].address, ToAddress(NodeTargetID(i))) :
            i \in DOMAIN network.peers}
    /\ Advance
    /\ UNCHANGED <<errors, network, managerVars, backends, indexedNode, attached,
                   apiDomains, apis, certificates>>

NewAlternativeDomainManager ==
    /\ At("manager")
    /\ LoadConfig
    /\ Advance
    /\ UNCHANGED <<errors, network, dnsTargets, resolvedAltZone, constructIds,
                   todo, hostVars, templateVars>>

(* TN-Auto makes the instance of each node and gives it the node's address; *)
(* both stacks register the nodes as targets.                               *)
LaunchAndRegisterNodes ==
    /\ At("nodes")
    /\ attached' = IF input.stack = "auto"
                   THEN [id \in {NodeTargetID(i) : i \in DOMAIN nodes} |-> id]
                   ELSE attached
    /\ dnsTargets' = Registered(
         [id \in {NodeTargetID(i) : i \in DOMAIN nodes} |->
            NodeTarget(id, network.peers[id[2]].address)])
    /\ Advance
    /\ UNCHANGED <<errors, network, stackConfig, resolvedAltZone, constructIds,
                   todo, nodes, backends, indexedNode, templateVars>>

(***************************************************************************)
(* Gateway and indexer, their APIs and the certificate they share.         *)
(***************************************************************************)
InnerGateway == Named(<<"inner", "gateway">>)
InnerIndexer == Named(<<"inner", "indexer">>)

(* The gateway forwards to every node, the indexer reads from the first. *)
NewKwilCluster ==
    /\ At("cluster")
    /\ backends' = {network.peers[i].address : i \in DOMAIN nodes}
    /\ indexedNode' = network.peers[1].address
    /\ records' = records \cup
         {ARecord(MainDomain, InnerGateway, ToAddress(TargetGateway)),
          ARecord(MainDomain, InnerIndexer, ToAddress(TargetIndexer))}
    /\ Advance
    /\ UNCHANGED <<errors, network, managerVars, nodes, attached, apiDomains,
                   apis, certificates>>

LaunchClusterInstances ==
    /\ At("instances")
    /\ attached' = With(With(attached, TargetGateway, TargetGateway),
                        TargetIndexer, TargetIndexer)
    /\ Advance
    /\ UNCHANGED <<errors, network, managerVars, nodes, backends, indexedNode,
                   templateVars>>

(* Only the API gateway is implemented behind the two endpoints. *)
SharedCertificate ==
    /\ At("certificate")
    /\ IF GetFrontingKind # "api" THEN Panic
       ELSE LET need == CertificateRequirements(MainDomain,
                                                <<GatewayName, IndexerName>>)
            IN /\ certificates' = With(certificates, "SharedDomainsCert",
                                       need.certificate)
               /\ resolvedAltZone' = need.altZone
               /\ errors' = errors \cup need.errors
               /\ constructIds' = constructIds \cup need.ids
               /\ Advance
               /\ UNCHANGED <<network, stackConfig, dnsTargets, todo, hostVars,
                              records, apiDomains, apis>>

Endpoint(id) == IF id = TargetGateway THEN InnerGateway ELSE InnerIndexer

(* An API in front of an endpoint: the record name is what is left of the   *)
(* public name below the zone, and the domain is put together from both.    *)
AttachRoutes(id, fqdn) ==
    LET recordName == BelowZone(fqdn, MainDomain)
        domainName == recordName \o MainDomain
    IN IF ~InZone(fqdn, MainDomain) \/ recordName = <<>>
       THEN Panic
       ELSE /\ apis' = With(apis, id, Endpoint(id))
            /\ apiDomains' = apiDomains \cup {[name |-> domainName, api |-> id]}
            /\ records' = records \cup
                            {ARecord(MainDomain, recordName, ToApi(domainName))}
            /\ Advance
            /\ UNCHANGED <<errors, network, managerVars, hostVars, certificates>>

GatewayFronting == At("gatewayApi") /\ AttachRoutes(TargetGateway, GatewayName)
IndexerFronting == At("indexerApi") /\ AttachRoutes(TargetIndexer, IndexerName)

RegisterFrontings ==
    /\ At("targets")
    /\ dnsTargets' = Registered(
         [id \in {TargetGateway, TargetIndexer} |->
            FrontingResult(id, IF id = TargetGateway THEN GatewayName
                                                     ELSE IndexerName)])
    /\ Advance
    /\ UNCHANGED <<errors, network, stackConfig, resolvedAltZone, constructIds,
                   todo, hostVars, templateVars>>

(***************************************************************************)
(* The alternatives.                                                       *)
(***************************************************************************)
(* Alternatives without a zone are an error, returned and so a panic. *)
ProvisionAlternativeDomains ==
    /\ At("lookup")
    /\ IF NothingToProvision
       THEN /\ Advance
            /\ UNCHANGED <<errors, network, managerVars, hostVars, templateVars>>
       ELSE IF AlternativeHostedZoneDomain = None THEN Panic
       ELSE LET lookup == LookupAlternativeZone(AlternativeHostedZoneDomain)
            IN IF lookup.duplicate \/ lookup.zone = None THEN Panic
               ELSE /\ resolvedAltZone' = lookup.zone
                    /\ errors' = errors \cup lookup.errors
                    /\ constructIds' = constructIds \cup {LookupId}
                    /\ todo' = DOMAIN stackConfig.alternatives
                    /\ Advance
                    /\ UNCHANGED <<network, stackConfig, dnsTargets, hostVars,
                                   templateVars>>

ProvisionNext ==
    /\ At("provision")
    /\ \E name \in todo : ProvisionAlternative(name)
    /\ UNCHANGED <<input, errors, pc, network, stackConfig, dnsTargets,
                   resolvedAltZone, hostVars, apis, certificates>>

Provisioned ==
    /\ At("provision")
    /\ todo = {}
    /\ Advance
    /\ UNCHANGED <<errors, network, managerVars, hostVars, templateVars>>

Finished == outcome # "running" /\ UNCHANGED vars

Next ==
    \/ CertStack \/ StackHostedDomain \/ Environment \/ FrontingKind
    \/ KwilNetworkConfig \/ NewValidatorSet \/ NewAlternativeDomainManager
    \/ LaunchAndRegisterNodes \/ NewKwilCluster \/ LaunchClusterInstances
    \/ SharedCertificate \/ GatewayFronting \/ IndexerFronting
    \/ RegisterFrontings \/ ProvisionAlternativeDomains \/ ProvisionNext
    \/ Provisioned \/ Finished

Spec == Init /\ [][Next]_vars

(***************************************************************************)
(* Properties.                                                             *)
(***************************************************************************)
Synthesized == outcome = "synthesized"

Components == {TargetGateway, TargetIndexer} \cup
              {NodeTargetID(i) : i \in DOMAIN nodes}

(* The components whose address the records give for a name. *)
Addressed(name) ==
    {r.to.of : r \in {s \in records : s.name = name /\ s.to.kind = "ip"}}

(* The components behind the API domain of a name, which its record must    *)
(* be aliased to.                                                           *)
Served(name) ==
    UNION {Addressed(apis[d.api]) :
             d \in {e \in apiDomains : /\ e.name = name
                                      /\ \E r \in records : /\ r.name = name
                                                           /\ r.to = ToApi(name)}}

Alternatives ==
    IF stackConfig = None THEN {} ELSE DOMAIN stackConfig.alternatives
TargetOf(name) == stackConfig.alternatives[name].targetComponentId

(* Every public name of a synthesized template leads, through its records,  *)
(* its API domain, the API's endpoint and the endpoint's own record, to the *)
(* address of exactly the component it names, and where instances are made  *)
(* that address is attached to that component's instance.  An alternative   *)
(* of the zone leads to the component its configuration names, whatever the *)
(* order of the loop; one whose target is no component leads nowhere.       *)
NamesReachTheirComponent ==
    Synthesized =>
        /\ Served(GatewayName) = {TargetGateway}
        /\ Served(IndexerName) = {TargetIndexer}
        /\ \A i \in DOMAIN nodes : Addressed(Named(NodeLabel(i))) = {NodeTargetID(i)}
        /\ \A name \in Alternatives :
             InZone(name, resolvedAltZone) =>
               /\ Served(name) = {TargetOf(name)} \cap {TargetGateway, TargetIndexer}
               /\ Addressed(name) = {TargetOf(name)} \cap {NodeTargetID(i) : i \in DOMAIN nodes}
        /\ input.stack = "auto" => \A c \in Components : attached[c] = c

(* The validators can meet: a boot node's address leads to another node,    *)
(* which is installed with that boot node's key and announces that address; *)
(* a node knows all the others; gateway and indexer are given addresses of  *)
(* nodes.  A generated genesis names the installed keys its validators, and *)
(* its leader is the node the indexer reads from.                           *)
NetworkIsOne ==
    Synthesized =>
        /\ \A i \in DOMAIN nodes :
             /\ \A b \in nodes[i].bootnodes :
                  \E j \in DOMAIN nodes \ {i} :
                     /\ Addressed(b.address) = {NodeTargetID(j)}
                     /\ nodes[j].public = b.public
                     /\ nodes[j].external = b.address
             /\ UNION {Addressed(b.address) : b \in nodes[i].bootnodes}
                  = {NodeTargetID(j) : j \in DOMAIN nodes \ {i}}
             /\ nodes[i].public = <<"public">> \o nodes[i].key
        /\ UNION {Addressed(a) : a \in backends} = {NodeTargetID(i) : i \in DOMAIN nodes}
        /\ input.stack = "auto" =>
             \A i \in DOMAIN nodes :
                /\ nodes[i].genesis.validators = {nodes[j].public : j \in DOMAIN nodes}
                /\ \E j \in DOMAIN nodes : /\ nodes[j].public = nodes[i].genesis.leader
                                          /\ Addressed(indexedNode) = {NodeTargetID(j)}

(* Whatever the third phase serves was asked for in the second: an API      *)
(* domain is on the shared certificate unless its configuration says that   *)
(* it needs no TLS name.                                                    *)
ServedNamesAreCertified ==
    Synthesized =>
        \A d \in apiDomains :
            \/ d.name \in certificates["SharedDomainsCert"].names
            \/ /\ d.name \in Alternatives
               /\ stackConfig.alternatives[d.name].requiresTlsSan = FALSE

(* A name of a certificate is validated in a zone it lies in, if either of  *)
(* the two zones is one; and in the very zone that holds its record, unless *)
(* the name lies in both.                                                   *)
ValidatedWhereRecorded ==
    Synthesized =>
        \A c \in DOMAIN certificates : \A name \in certificates[c].names :
            LET zones == {z \in {MainDomain} \cup ({resolvedAltZone} \ {None}) : InZone(name, z)}
                zone  == certificates[c].validation[name]
            IN /\ zones # {} => zone \in zones
               /\ \A r \in records :
                     r.name = name => r.zone = zone \/ {r.zone, zone} \subseteq zones

(* A context, an environment and an alternatives file without a mistake: a  *)
(* written zone that exists and carries no dot, and names whose ids differ. *)
GoodInput ==
    /\ StageIsValid(input.stage) /\ DevPrefixIsValid(input.devPrefix)
    /\ SpecIsValid(input.stage, input.devPrefix)
    /\ RequiredVariables \subseteq input.environment
    /\ GetFrontingKind = "api" /\ KeysInputIsValid /\ GenesisIsPossible
    /\ \/ input.alternatives = None
       \/ /\ input.alternatives.zone # None
          /\ input.alternatives.zone.name \in input.zones
          /\ ~input.alternatives.zone.dot
          /\ IsInjective([name \in DOMAIN input.alternatives.alternatives |->
                            Slug(name)])

(* A good input is never refused: no phase of the manager undoes or repeats *)
(* what another did (a second lookup of the zone, an id taken twice), and   *)
(* only the key generator can end the run.                                  *)
GoodInputIsAccepted ==
    GoodInput => /\ errors = {}
                 /\ outcome = "panicked" => Steps[pc + 1] = "network"
=============================================================================
