---------------------------- MODULE MCHierarchy ----------------------------
(***************************************************************************)
(* A small instance of Hierarchy and ComposeAccess: a composed stream of   *)
(* one provider and its child of another, which may come and go.           *)
(***************************************************************************)
EXTENDS ComposeAccess, MCRegistry

A1 == <<"0xa", "st1">>
B1 == <<"0xb", "st1">>

OneOfEach == [k \in {A1, B1} |-> IF k = A1 THEN "composed" ELSE "primitive"]

BothProviders == {"0xA", "0xb"}
NoTypes == {}
AccessWindows == {0, 2}   \* without the link of ReadLinks and with it
FirstGroup == {1}

ReadLinks ==
  {[child_data_providers |-> <<"0xb">>, child_stream_ids |-> <<"st1">>,
    weights |-> <<1>>, start_date |-> 1]}

AccessRows ==
  {Arg("read_visibility", "1", "int"), Arg("allow_read_wallet", "0xA", "ref"),
   Arg("compose_visibility", "1", "int"), Arg("allow_compose_stream", "st1", "ref")}
=============================================================================
