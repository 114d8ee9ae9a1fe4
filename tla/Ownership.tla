------------------------------ MODULE Ownership ------------------------------
(***************************************************************************)
(* What the registry promises of ownership (AUTH01, AUTH05, OTHER03 of     *)
(* tests/streams/streams_behaviors.md): a stream has one owner from the    *)
(* moment its provider creates it; only the owner hands it over or deletes *)
(* it.                                                                     *)
(***************************************************************************)
CONSTANTS Owners,   \* the wallets that may own a stream
          Streams   \* the stream locators, <<data_provider, stream_id>>

VARIABLES owner,    \* existing stream -> its owner
          actor     \* the wallet whose transaction was executed last

vars == <<owner, actor>>

Init == owner = [s \in {} |-> {}] /\ actor \notin Owners

Create(w, s) ==
  /\ s \notin DOMAIN owner
  /\ s[1] = w
  /\ owner' = [t \in DOMAIN owner \cup {s} |-> IF t = s THEN w ELSE owner[t]]

Transfer(w, s, new) ==
  /\ s \in DOMAIN owner /\ owner[s] = w
  /\ owner' = [owner EXCEPT ![s] = new]

Delete(w, s) ==
  /\ s \in DOMAIN owner /\ owner[s] = w
  /\ owner' = [t \in DOMAIN owner \ {s} |-> owner[t]]

\* A transaction of an owner that leaves ownership alone.
Other(w, s) ==
  /\ s \in DOMAIN owner /\ owner[s] = w
  /\ owner' = owner

Step(w) ==
  /\ \E s \in Streams : \/ Create(w, s)
                        \/ \E new \in Owners : Transfer(w, s, new)
                        \/ Delete(w, s)
                        \/ Other(w, s)
  /\ actor' = w

Next == \E w \in Owners : Step(w)

Spec == Init /\ [][Next]_vars
=============================================================================
