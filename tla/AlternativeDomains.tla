------------------------- MODULE AlternativeDomains -------------------------
(***************************************************************************)
(* The AlternativeDomainManager: it reads the alternative names of the     *)
(* deployment, collects the targets the stack registers, says what the     *)
(* shared certificate must cover and where each of its names is validated, *)
(* and in the end creates a record, and for the two APIs a domain, for     *)
(* every alternative.  It works in three phases on one hosted zone, which  *)
(* it looks up once.                                                       *)
(*                                                                         *)
(* What it creates goes into the template of the stack: records of Route   *)
(* 53 and custom domains of API Gateway.  An annotated error does not stop *)
(* the synthesis, it only makes the command line refuse the result.        *)
(***************************************************************************)
EXTENDS DomainNames

VARIABLES
    input,            \* the context, the environment and the files of this run
    outcome,          \* "running", "synthesized" or "panicked"
    errors,           \* the error annotations
    stackConfig,      \* the alternatives of this stack suffix, or None
    dnsTargets,       \* [logical id -> registered target]
    resolvedAltZone,  \* the zone of the alternatives once looked up, or None
    constructIds,     \* the ids taken in the manager's own scope
    todo,             \* the alternatives the provisioning loop has not visited
    records,          \* the A records of the template
    apiDomains        \* the custom API domains of the template

TargetGateway == <<"Gateway">>
TargetIndexer == <<"Indexer">>
NodeTargetID(i) == <<"Node", i>>

ToAddress(id) == [kind |-> "ip", of |-> id]
ToApi(name) == [kind |-> "api", of |-> name]

ARecord(zone, name, to) ==
    [zone |-> zone, name |-> RecordedName(name, zone), to |-> to]

(* Reading the configuration: a file that is missing or does not parse, or *)
(* one without this suffix, leaves the stack without alternatives.         *)
LoadConfig == stackConfig' = input.alternatives

NodeTarget(id, address) == [kind |-> "node", record |-> ToAddress(id),
                            primaryFqdn |-> address]
FrontingResult(id, fqdn) == [kind |-> "fronting", record |-> ToApi(fqdn),
                             primaryFqdn |-> fqdn, api |-> id]

Registered(targets) ==
    [id \in DOMAIN dnsTargets \cup DOMAIN targets |->
        IF id \in DOMAIN targets THEN targets[id] ELSE dnsTargets[id]]

RequiresTlsSanOrDefault(mapping) == mapping.requiresTlsSan # FALSE

ConfiguredSans ==
    IF stackConfig = None THEN {}
    ELSE { name \in DOMAIN stackConfig.alternatives :
             RequiresTlsSanOrDefault(stackConfig.alternatives[name]) }

(* The zone as the configuration writes it: its name, and whether a dot    *)
(* follows it.  Neither stack overrides it.                                *)
AlternativeHostedZoneDomain ==
    IF stackConfig = None THEN None ELSE stackConfig.zone

LookupId == <<"AlternativeHostedZoneLookup">>

(* Mutant: every lookup is made anew. *)
LookupAgain(written) ==
    IF LookupId \in constructIds
    THEN [zone |-> None, errors |-> {}, duplicate |-> TRUE]
    ELSE [zone |-> written.name, errors |-> {}, duplicate |-> FALSE]

(* Looking the zone up, under one static construct id: a zone that is       *)
(* already resolved stays; asking for it by another name is an error (a     *)
(* resolved zone's name carries no dot); a second lookup after one that     *)
(* failed reuses the id, which CDK refuses.                                 *)
LookupAlternativeZone(written) ==
    CASE resolvedAltZone # None ->
           [zone |-> resolvedAltZone, duplicate |-> FALSE,
            errors |-> IF resolvedAltZone = written.name /\ ~written.dot
                       THEN {} ELSE {"resolved_to_another_zone"}]
      [] resolvedAltZone = None /\ LookupId \in constructIds ->
           [zone |-> None, duplicate |-> TRUE, errors |-> {}]
      [] OTHER ->
           IF written.name \in input.zones
           THEN [zone |-> written.name, duplicate |-> FALSE, errors |-> {}]
           ELSE [zone |-> None, duplicate |-> FALSE,
                 errors |-> {"zone_not_found"}]

(* Mutant: a name outside the primary zone is not looked for elsewhere. *)
ValidationZonePrimaryOnly(name, primaryZone, altZone) == primaryZone

(* Where a name of the certificate is validated: in the primary zone if it  *)
(* lies there, else in the alternative zone if it lies there, else, with a  *)
(* warning, in the primary zone.                                            *)
ValidationZone(name, primaryZone, altZone) ==
    IF ~InZone(name, primaryZone) /\ InZone(name, altZone)
    THEN altZone
    ELSE primaryZone

(* Mutant: the configured names are forgotten. *)
ExplicitNamesOnly(explicit) == ToSet(explicit)

(* Every name of the shared certificate: those the configuration asks for   *)
(* and those the stack asks for.                                            *)
SubjectAlternativeNames(explicit) == ConfiguredSans \cup ToSet(explicit)

(* The certificate's requirements.  Validation in two zones is needed when  *)
(* an alternative zone is written that is not the primary one (dots aside); *)
(* the lookup then asks for the name without its dot.  If the zone is not   *)
(* found everything is validated in the primary zone, with an error.  Both  *)
(* stacks name their two APIs, so there is always a first explicit name.    *)
NeedsMultiZoneValidation(primaryZone) ==
    /\ AlternativeHostedZoneDomain # None
    /\ AlternativeHostedZoneDomain.name # primaryZone

CertificateRequirements(primaryZone, explicit) ==
    LET names  == SubjectAlternativeNames(explicit)
        lookup == LookupAlternativeZone([name |-> AlternativeHostedZoneDomain.name,
                                         dot |-> FALSE])
        altZone == IF NeedsMultiZoneValidation(primaryZone)
                   THEN lookup.zone ELSE None
    IN [ certificate |->
           [ domainName |-> Head(explicit),
             names      |-> names,
             validation |-> [ name \in names |->
                                IF altZone = None THEN primaryZone
                                ELSE ValidationZone(name, primaryZone, altZone) ] ],
         altZone |-> altZone,
         errors  |-> IF NeedsMultiZoneValidation(primaryZone)
                     THEN lookup.errors ELSE {},
         ids     |-> IF NeedsMultiZoneValidation(primaryZone)
                     THEN {LookupId} ELSE {} ]

(* The first half of ProvisionAlternativeDomains, before its loop. *)
NothingToProvision ==
    \/ stackConfig = None
    \/ DOMAIN stackConfig.alternatives = {}

(* The ids one alternative takes: those of its record and, for an API, of   *)
(* its domain (the id of the mapping is made the same way).                 *)
AlternativeIds(name, target) ==
    {<<"AltARecord", Slug(name)>>} \cup
    (IF target.kind = "fronting" THEN {<<"AltApiGwDomain", Slug(name)>>} ELSE {})

(* Mutant: an API's alternative is aliased to the domain of its primary name. *)
RecordOfPrimary(name, target) ==
    ARecord(resolvedAltZone, name, target.record)

(* The record of an alternative: a node's points to the address of that     *)
(* node, an API's to the domain that was just made for the alternative.     *)
AlternativeRecord(name, target) ==
    ARecord(resolvedAltZone, name,
            IF target.kind = "fronting" THEN ToApi(name) ELSE target.record)

(* One turn of the loop, which visits a Go map: in any order. *)
ProvisionAlternative(name) ==
    LET id == stackConfig.alternatives[name].targetComponentId
    IN /\ name \in todo
       /\ IF id \notin DOMAIN dnsTargets
          THEN /\ todo' = todo \ {name}
               /\ UNCHANGED <<outcome, constructIds, records, apiDomains>>
          ELSE LET target == dnsTargets[id]
                   ids    == AlternativeIds(name, target)
               IN IF ids \cap constructIds # {}
                  THEN /\ outcome' = "panicked"
                       /\ UNCHANGED <<todo, constructIds, records, apiDomains>>
                  ELSE /\ todo' = todo \ {name}
                       /\ constructIds' = constructIds \cup ids
                       /\ apiDomains' = apiDomains \cup
                            (IF target.kind = "fronting"
                             THEN {[name |-> name, api |-> target.api]} ELSE {})
                       /\ records' = records \cup {AlternativeRecord(name, target)}
                       /\ UNCHANGED outcome
=============================================================================
