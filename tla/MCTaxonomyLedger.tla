-------------------------- MODULE MCTaxonomyLedger --------------------------
(***************************************************************************)
(* Small instances of TaxonomyLedger, over the texts of MCRegistry: one    *)
(* composed or primitive stream, deployed, transferred, deleted and        *)
(* deployed again by two wallets.                                          *)
(***************************************************************************)
EXTENDS TaxonomyLedger, MCRegistry

AllTypes == {"primitive", "composed", "other"}
OneProvider == {"0xA"}
NoArgs == {}
Groups == 0 .. 3

Tax(dps, ids, weights, start) ==
  [child_data_providers |-> dps, child_stream_ids |-> ids, weights |-> weights,
   start_date |-> start]

\* One child, two, one child under two spellings of its address, arrays of
\* unequal length, none, and a start before the epoch.
MCTaxonomies ==
  {Tax(<<"0xA">>, <<"st1">>, <<1>>, 1),
   Tax(<<"0xb", "0xA">>, <<"st1", "st2">>, <<1, 0>>, NULL),
   Tax(<<"0xA", "0xa">>, <<"st2", "st2">>, <<1, 1>>, 1),
   Tax(<<"0xA", "0xb">>, <<"st2">>, <<1>>, 1),
   Tax(<<>>, <<>>, <<>>, 1),
   Tax(<<"0xA">>, <<"st1">>, <<1>>, -1)}
=============================================================================
