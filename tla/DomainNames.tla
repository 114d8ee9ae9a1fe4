---------------------------- MODULE DomainNames ----------------------------
(***************************************************************************)
(* The domain names of a deployment: names and zones as sequences of       *)
(* labels, and how config/domain builds the names of one deployment from   *)
(* its stage and its dev prefix.  A label is a sequence of words (the      *)
(* parts a hyphen joins): <<"node", "1">> is the label node-1, so that the *)
(* one conversion the code makes, dots to hyphens, is FlattenSeq.          *)
(***************************************************************************)
EXTENDS Naturals, FiniteSets, TLC, SequencesExt

CONSTANTS None,    \* Go's nil or empty string, and a context value not set
          Invalid  \* a context value of a form the code refuses

(* A name is a sequence, whatever its labels. *)
IsName(n) == n \in Seq(ToSet(n))

(* The fixed root of every primary name, and the hosted zone of that name. *)
MainDomain == << <<"infra">>, <<"truf">>, <<"network">> >>

(* The zone itself or a name below it: equal, or ends with "." and the zone. *)
InZone(name, zone) == IsSuffix(zone, name)

(* The labels of a name in front of its zone. *)
BelowZone(name, zone) == SubSeq(name, 1, Len(name) - Len(zone))

(* Route 53 records are named relative to their zone: CDK completes a name *)
(* that does not end with it.                                              *)
RecordedName(name, zone) ==
    IF InZone(name, zone) THEN name ELSE name \o zone

(* The part of a construct id made of a name: its dots become hyphens. *)
Slug(name) == FlattenSeq(name)

StageIsValid(stage) == stage \in {"prod", "dev"}

DevPrefixIsValid(prefix) == prefix # Invalid

(* A dev deployment has a prefix, a production deployment has none. *)
SpecIsValid(stage, prefix) == (stage = "dev") <=> (prefix # None)

FQDN(stage, prefix) ==
    IF stage = "dev" THEN <<prefix>> \o MainDomain ELSE MainDomain

(* The label of the i-th node, counted from one. *)
NodeLabel(i) == <<"node", ToString(i)>>

Subdomain(label, stage, prefix) == <<label>> \o FQDN(stage, prefix)
=============================================================================
