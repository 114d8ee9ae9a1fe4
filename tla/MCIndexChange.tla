--------------------------- MODULE MCIndexChange ---------------------------
(***************************************************************************)
(* IndexChange on every series of up to three records over four times,     *)
(* with values 0, 1 and 2, every window of these times, and intervals -1,  *)
(* 1 and 2: a target before all records, between two, on one, after all.   *)
(***************************************************************************)
EXTENDS IndexChange

MCTimes == 0 .. 3
MCValues == 0 .. 2
MCIntervals == {-1, 1, 2}

Ascending == {ts \in UNION {[1 .. n -> MCTimes] : n \in 1 .. 3} :
                \A m, n \in DOMAIN ts : m < n => ts[m] < ts[n]}
MCSeries ==
  UNION {{[n \in DOMAIN ts |-> [event_time |-> ts[n], value |-> vs[n]]] :
            vs \in [DOMAIN ts -> MCValues] \ {[n \in DOMAIN ts |-> 0]}} : ts \in Ascending}
=============================================================================
