----------------------------- MODULE MCRegistry -----------------------------
(***************************************************************************)
(* Small instances of Registry: two wallets and one that is no Ethereum    *)
(* address, one address written in upper case, a well-formed and a         *)
(* malformed stream id.                                                    *)
(***************************************************************************)
EXTENDS RegistryRefinement

MCText == Keywords \cup {"0xa", "0xA", "0xb", "anon", "st1", "st2", "bad", "1", "2", "other", "nothing",
                       "default_base_time", "compose_visibility", "allow_compose_stream"}
MCLower == [t \in MCText |-> IF t = "0xA" THEN "0xa" ELSE t]
MCIntOf == [t \in MCText |-> IF t = "1" THEN 1 ELSE IF t = "2" THEN 2 ELSE NULL]
MCAddress == {"0xa", "0xb"}
MCIds == {"st1", "st2"}

MCCallers == {"0xA", "0xb", "anon"}
MCProviders == {"0xA", "0xb", "anon"}
OneId == {"st1"}
TwoIds == {"st1", "bad"}
MCTypes == {"primitive", "other"}

NoBatches == {}
TwoCallers == {"0xA", "0xb"}
MCBatches ==
  {[stream_ids |-> <<"st1">>, stream_types |-> <<"primitive">>],
   [stream_ids |-> <<"st1", "st2">>, stream_types |-> <<"composed", "primitive">>],
   [stream_ids |-> <<"st1", "st1">>, stream_types |-> <<"primitive", "primitive">>],
   [stream_ids |-> <<"st1", "st2">>, stream_types |-> <<"composed">>],
   [stream_ids |-> <<>>, stream_types |-> <<>>]}

Arg(key, value, val_type) == [key |-> key, value |-> value, val_type |-> val_type]

\* Owners touching ownership, visibility and the grants; a read-only key, a value
\* the cast refuses and a type that does not exist.
MCArgs ==
  {Arg("stream_owner", "0xb", "ref"), Arg("read_visibility", "1", "int"),
   Arg("read_visibility", "0xA", "int"), Arg("allow_write_wallet", "0xb", "ref"),
   Arg("allow_read_wallet", "0xb", "ref"), Arg("type", "other", "nothing")}
OwnerArgs == {Arg("stream_owner", "0xb", "ref"), Arg("readonly_key", "stream_owner", "string")}
VisibilityArgs == {Arg("read_visibility", "1", "int"), Arg("type", "other", "string")}
=============================================================================
