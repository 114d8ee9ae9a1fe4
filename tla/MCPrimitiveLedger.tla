-------------------------- MODULE MCPrimitiveLedger --------------------------
(***************************************************************************)
(* Small instances of PrimitiveLedger, over the texts of MCRegistry: event *)
(* times and values 1 and 2, wallets that own, are granted or are refused  *)
(* the permission to write.                                                *)
(***************************************************************************)
EXTENDS PrimitiveLedger, MCRegistry

MCTimes == {1, 2}
MCValues == {1, 2}
OneValue == {1}
LedgerTypes == {"primitive", "composed", "other"}
OneProvider == {"0xA"}
StreamTypeArgs == {"primitive", "composed"}
PrimitiveArg == {"primitive"}

\* What the queries read of the metadata.
QueryArgs ==
  {Arg("read_visibility", "1", "int"), Arg("default_base_time", "2", "int")}
GrantArgs == {Arg("allow_write_wallet", "0xb", "ref")}

NoRecords == {}
Batch(dps, ids, times, values) ==
  [data_provider |-> dps, stream_id |-> ids, event_time |-> times, value |-> values]

\* Two records of one stream, the same record twice, arrays of unequal length
\* and none.
MCRecords ==
  {Batch(<<"0xA">>, <<"st1">>, <<1>>, <<1>>),
   Batch(<<"0xA", "0xA">>, <<"st1", "st1">>, <<1, 2>>, <<1, 2>>),
   Batch(<<"0xA", "0xA">>, <<"st1", "st1">>, <<1, 1>>, <<1, 2>>),
   Batch(<<"0xA">>, <<"st1">>, <<1, 2>>, <<1>>),
   Batch(<<>>, <<>>, <<>>, <<>>)}
=============================================================================
