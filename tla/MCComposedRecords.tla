------------------------- MODULE MCComposedRecords -------------------------
(***************************************************************************)
(* Small instances of ComposedRecords: two composed streams of one         *)
(* provider and two primitive streams of another, linked and filled with   *)
(* records in every order.                                                 *)
(***************************************************************************)
EXTENDS ComposedIndex, MCRegistry

A1 == <<"0xa", "st1">>
A2 == <<"0xa", "st2">>
B1 == <<"0xb", "st1">>
B2 == <<"0xb", "st2">>

FourStreams == [k \in {A1, A2, B1, B2} |-> IF k[1] = "0xa" THEN "composed" ELSE "primitive"]

BothProviders == {"0xA", "0xb"}
NoTypes == {}
NoArgs == {}
NoRecords == {}
Groups == {1}
\* Records at 1 and 3; windows and base times from 2, between them, and from 3.
MCTimes == {1, 3}
MCValues == {0, 2}
MCWindows == {NULL, 2, 3}

Link(dps, ids, weights, start) ==
  [child_data_providers |-> dps, child_stream_ids |-> ids, weights |-> weights,
   start_date |-> start]

\* One primitive stream from the later time or both from the start; a composed stream
\* beside a stream it may hold too, or alone; and the way round a cycle, of length one
\* or two.
MCLinks ==
  {Link(<<"0xb">>, <<"st1">>, <<1>>, 3),
   Link(<<"0xb", "0xb">>, <<"st1", "st2">>, <<2, 1>>, NULL),
   Link(<<"0xA", "0xb">>, <<"st2", "st1">>, <<2, 1>>, NULL),
   Link(<<"0xA">>, <<"st2">>, <<1>>, NULL),
   Link(<<"0xA">>, <<"st1">>, <<1>>, 2)}

\* The state without the signer: who signed the last transaction decides nothing about
\* the next one, and no property speaks of it; height and the streams stay as they are.
MCView == <<taxonomies, events>>
=============================================================================
