-------------------------- MODULE MCStackSynthesis --------------------------
(***************************************************************************)
(* Runs of the infrastructure program: both stacks, up to three nodes, the *)
(* shapes of the alternatives file (that of the repository, and those that *)
(* a phase of the manager treats differently), and inputs with one mistake. *)
(***************************************************************************)
EXTENDS StackSynthesis

CONSTANTS MaxNodes  \* the most nodes of a network

TrufNetwork == << <<"truf">>, <<"network">> >>
Mainnet == << <<"mainnet">> >> \o TrufNetwork
Nested == << <<"public">> >> \o MainDomain
Unknown == << <<"unknown">> >> \o TrufNetwork

Zone(name, dot) == [name |-> name, dot |-> dot]
To(id, san) == [targetComponentId |-> id, requiresTlsSan |-> san]

(* Two nodes without a TLS name, a gateway and an indexer, as the file of *)
(* the repository has for each network.                                   *)
UsualNames(zone) ==
    (<< <<"node", "1">> >> \o zone :> To(NodeTargetID(1), FALSE)) @@
    (<< <<"node", "2">> >> \o zone :> To(NodeTargetID(2), FALSE)) @@
    (<< <<"gateway">> >> \o zone :> To(TargetGateway, TRUE)) @@
    (<< <<"indexer">> >> \o zone :> To(TargetIndexer, None))

(* node-1.zone and node.1.zone have the same construct id. *)
CollidingNames(zone) ==
    (<< <<"node", "1">> >> \o zone :> To(NodeTargetID(1), FALSE)) @@
    (<< <<"node">>, <<"1">> >> \o zone :> To(TargetGateway, TRUE))

(* An API without a TLS name, and a name outside both zones. *)
OddNames(zone) ==
    (<< <<"gateway">> >> \o zone :> To(TargetGateway, FALSE)) @@
    (<< <<"rpc">> >> \o TrufNetwork :> To(TargetIndexer, TRUE)) @@
    (<< <<"api">> >> \o zone :> To(TargetGateway, TRUE))

File(zone, names) == [zone |-> zone, alternatives |-> names]

AlternativeFiles ==
    {None,
     File(Zone(Mainnet, FALSE), UsualNames(Mainnet)),
     File(Zone(Mainnet, TRUE), UsualNames(Mainnet)),
     File(Zone(Unknown, FALSE), UsualNames(Unknown)),
     File(None, UsualNames(Mainnet)),
     File(Zone(Mainnet, FALSE), <<>>),
     File(Zone(Nested, FALSE), UsualNames(Nested)),
     File(Zone(TrufNetwork, FALSE), UsualNames(<< <<"main">> >> \o MainDomain)),
     File(Zone(MainDomain, TRUE), UsualNames(<< <<"main">> >> \o MainDomain)),
     File(Zone(Mainnet, FALSE), CollidingNames(Mainnet)),
     File(Zone(Mainnet, FALSE), OddNames(Mainnet))}

AllVariables == {"KWILD_CLI_PATH", "CDK_DOCKER", "CHAIN_ID", "SESSION_SECRET",
                 "DB_OWNER", "NODE_PRIVATE_KEYS", "GENESIS_PATH"}

Usual == [stack |-> "auto", stage |-> "dev", devPrefix |-> <<"dev">>,
          frontingType |-> None, numOfNodes |-> 1, privateKeys |-> << <<"k", 1>> >>,
          genesisFile |-> "genesis", dbOwner |-> "owner",
          environment |-> AllVariables, zones |-> {MainDomain, Mainnet, Nested, TrufNetwork},
          alternatives |-> None]

(* Every stack, stage, network size and alternatives file together. *)
Deployments ==
    { [Usual EXCEPT !.stack = stack, !.stage = place[1], !.devPrefix = place[2],
                    !.numOfNodes = n, !.privateKeys = [i \in 1..n |-> <<"k", i>>],
                    !.alternatives = file] :
        stack \in {"auto", "config"},
        place \in {<<"dev", <<"dev">>>>, <<"prod", None>>},
        n \in 1..MaxNodes, file \in AlternativeFiles }

(* One mistake at a time, on either stack. *)
Mistakes ==
    UNION { LET usual == [Usual EXCEPT !.stack = stack]
            IN {[usual EXCEPT !.stage = None], [usual EXCEPT !.stage = "test"],
                [usual EXCEPT !.devPrefix = None], [usual EXCEPT !.devPrefix = Invalid],
                [usual EXCEPT !.stage = "prod"],
                [usual EXCEPT !.frontingType = "cloudfront"],
                [usual EXCEPT !.frontingType = "nginx"],
                [usual EXCEPT !.numOfNodes = 0],
                [usual EXCEPT !.privateKeys = <<Invalid>>],
                [usual EXCEPT !.privateKeys = << <<"k", 1>>, <<"k", 1>> >>],
                [usual EXCEPT !.genesisFile = None],
                [usual EXCEPT !.genesisFile = Invalid],
                [usual EXCEPT !.dbOwner = None],
                [usual EXCEPT !.environment = AllVariables \ {"DB_OWNER"}],
                [usual EXCEPT !.environment = AllVariables \ {"GENESIS_PATH"}]} :
            stack \in {"auto", "config"} }

ASSUME InputsAreTyped == \A i \in Deployments \cup Mistakes : InputTypeOK(i)

MCInit == input \in Deployments \cup Mistakes /\ Init

MCSpec == MCInit /\ [][Next]_vars
=============================================================================
