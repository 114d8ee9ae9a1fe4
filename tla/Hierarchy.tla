----------------------------- MODULE Hierarchy -----------------------------
(***************************************************************************)
(* The hierarchy of streams below a composed one, as the recursive CTE     *)
(* shared by get_category_streams (001-common-actions.sql) and             *)
(* is_allowed_to_read_all (002-authorization.sql) resolves it: the links   *)
(* of the taxonomy versions in force in a window of time.                  *)
(*                                                                         *)
(* A composed stream may have itself below it; the CTE is a UNION of rows  *)
(* without duplicates, so it comes to an end all the same.                 *)
(***************************************************************************)
EXTENDS TaxonomyLedger

CONSTANTS
  Deployed,   \* the streams a run starts from: locator -> type
  WindowArgs, \* the $active_from and $active_to of queries
  MaxInt8     \* $max_int8, the stand-in of an absent upper limit

ASSUME HierarchyAssumption ==
  /\ DOMAIN Deployed \subseteq Key /\ IsFiniteSet(DOMAIN Deployed)
  /\ \A k \in DOMAIN Deployed : Deployed[k] \in StreamTypes
  /\ MaxInt8 \in Nat \ {0}
  /\ WindowArgs \subseteq Int \cup {NULL}
  /\ \A w \in WindowArgs : w # NULL => w < MaxInt8
  /\ \A a \in TaxonomyArgs : a.start_date # NULL => a.start_date < MaxInt8

-----------------------------------------------------------------------------
(* The links in force                                                      *)

coalesce(x, default) == IF x = NULL THEN default ELSE x

starts(R) == {r.start_time : r \in R}

\* The start of the version in force at `from`, 0 when there is none.
anchor_start(k, from) ==
  LET S == {s \in starts(active(k)) : s <= from}
  IN IF S = {} THEN 0 ELSE CHOOSE s \in S : \A x \in S : x <= s

in_window(k, from, to) ==
  {r \in active(k) : r.start_time <= to /\ r.start_time >= anchor_start(k, from)}

\* LEAD(start_time): a version ends where the next one in the window starts.
last_time(s, S) ==
  LET later == {x \in S : x > s}
  IN (IF later = {} THEN MaxInt8 ELSE CHOOSE x \in later : \A y \in later : x <= y) - 1

\* Mutant: every version of a start, not the last one.
effective_all(k, from, to) ==
  LET W == in_window(k, from, to)
  IN {[parent |-> k, child |-> r.child, first |-> r.start_time,
       last |-> last_time(r.start_time, starts(W))] : r \in W}

\* Of the versions with one start the last one counts.
winning(k, from, to) ==
  LET W == in_window(k, from, to)
  IN {r \in W : \A q \in W : q.start_time = r.start_time =>
                               q.group_sequence <= r.group_sequence}

effective(k, from, to) ==
  {[parent |-> k, child |-> r.child, first |-> r.start_time,
    last |-> last_time(r.start_time, starts(in_window(k, from, to)))] :
     r \in winning(k, from, to)}

larger(a, b) == IF a < b THEN b ELSE a
smaller(a, b) == IF a < b THEN a ELSE b

\* Mutant: links are joined whether or not they are in force at one time.
joined_anyway(p, c) == TRUE

overlap(p, c) == c.first <= p.last /\ c.last >= p.first

\* The rows of the CTE below k.  As many steps as there are taxonomies reach every
\* stream, and every link at each of its times; later steps, by a longer way round a
\* cycle, only give a link a second row for some of those times.
substreams(k, from, to) ==
  LET grow(L) == L \cup UNION {
        {[parent |-> p.child, child |-> c.child,
          first |-> larger(p.first, c.first), last |-> smaller(p.last, c.last)] :
           c \in {x \in effective(p.child, from, to) : overlap(p, x)}} : p \in L}
      level[n \in Nat] == IF n = 0 THEN effective(k, from, to) ELSE grow(level[n - 1])
  IN level[Cardinality(taxonomies)]

\* The rows get_category_streams returns; it ERRORs when k does not exist.
get_category_streams(k, active_from, active_to) ==
  {k} \cup IF is_primitive_stream(k) THEN {}
           ELSE {s.child : s \in substreams(k, coalesce(active_from, 0),
                                               coalesce(active_to, MaxInt8))}

-----------------------------------------------------------------------------
(* Read access to a stream and everything below it                         *)

\* The subquery takes the newest row, any of them when one block wrote several.
private_values(k) == get_latest_metadata_int(k, "read_visibility")

\* Mutant: the owner of a private stream needs a grant like everybody else.
needs_grant(k, wallet) == get_metadata(k, "allow_read_wallet", wallet) = {}

without_permission(k, wallet) ==
  /\ get_metadata(k, "allow_read_wallet", wallet) = {}
  /\ ~ is_stream_owner(k, wallet)

\* What it may answer: "missing" stands for its ERROR.
is_allowed_to_read_all(k, wallet, active_from, active_to) ==
  LET all == {k} \cup {s.child : s \in substreams(k, coalesce(active_from, 0),
                                                     coalesce(active_to, MaxInt8))}
      may_block(s) == 1 \in private_values(s) /\ without_permission(s, wallet)
      may_pass(s)  == private_values(s) # {1} \/ ~ without_permission(s, wallet)
  IN IF ~ all \subseteq DOMAIN streams THEN {"missing"}
     ELSE (IF \A s \in all : may_pass(s) THEN {"yes"} ELSE {})
          \cup (IF \E s \in all : may_block(s) THEN {"no"} ELSE {})

-----------------------------------------------------------------------------
(* Specification                                                           *)

\* The registry after the streams of Deployed were created, and nothing else.
DeployedInit ==
  LET n(k) == CHOOSE f \in [DOMAIN Deployed -> 0 .. Cardinality(DOMAIN Deployed) - 1] :
                \A x, y \in DOMAIN Deployed : x # y => f[x] # f[y]
  IN /\ height = 0
     /\ streams = [k \in DOMAIN Deployed |->
                     [stream_type |-> Deployed[k], created_at |-> 0]]
     /\ metadata = UNION {DefaultRows(5 * n(k)[k], k, Deployed[k]) : k \in DOMAIN Deployed}
     /\ written = 5 * Cardinality(DOMAIN Deployed)
     /\ signer = NULL
     /\ taxonomies = {}

HierarchySpec == DeployedInit /\ [][TaxonomyNext]_taxVars

-----------------------------------------------------------------------------
(* Properties                                                              *)

\* The reference: the rows of the one version in force at time t, the last of those
\* with the latest start, its children, and what is below k at that time.
version_at(k, t) ==
  LET A == {r \in active(k) : r.start_time <= t}
  IN {r \in A : \A q \in A :
         \/ q.start_time < r.start_time
         \/ q.start_time = r.start_time /\ q.group_sequence <= r.group_sequence}

children_at(k, t) == {r.child : r \in version_at(k, t)}

below_at(k, t) ==
  LET grow(S) == S \cup UNION {children_at(c, t) : c \in S}
      level[n \in Nat] == IF n = 0 THEN children_at(k, t) ELSE grow(level[n - 1])
  IN level[Cardinality(taxonomies)]

\* The times of a window; after the last start of a version nothing changes.
times(from, to) ==
  LET ends == starts(taxonomies) \cup {coalesce(from, 0)}
      horizon == CHOOSE x \in ends : \A y \in ends : y <= x
  IN coalesce(from, 0) .. (IF to = NULL THEN horizon ELSE to)

Windows == {w \in WindowArgs \X WindowArgs :
              w[1] # NULL /\ w[2] # NULL => w[1] <= w[2]}

\* AGGR06: whatever the window, the links it gives a time are those of the one
\* version in force then.
OneVersionInForce ==
  \A k \in DOMAIN streams, w \in Windows : \A t \in times(w[1], w[2]) :
    {e.child : e \in {x \in effective(k, coalesce(w[1], 0), coalesce(w[2], MaxInt8)) :
                        x.first <= t /\ t <= x.last}} = children_at(k, t)

\* AGGR01, AGGR03: the streams of a category are those that are below it at some
\* time of the window, by links that are all in force at that time.
CategoryIsReachable ==
  \A k \in {x \in DOMAIN streams : ~ is_primitive_stream(x)}, w \in Windows :
    get_category_streams(k, w[1], w[2])
      = {k} \cup UNION {below_at(k, t) : t \in times(w[1], w[2])}

\* The conjunction of what is_allowed_to_read may answer for the streams S.
read_each(S, wallet) ==
  (IF \A s \in S : TRUE \in is_allowed_to_read(s, wallet) THEN {"yes"} ELSE {})
  \cup (IF \E s \in S : FALSE \in is_allowed_to_read(s, wallet) THEN {"no"} ELSE {})

read_agrees(k, wallet, w) ==
  LET all == {k} \cup UNION {below_at(k, t) : t \in times(w[1], w[2])}
      answers == is_allowed_to_read_all(k, wallet, w[1], w[2])
      each == read_each(all, wallet)
  IN IF ~ all \subseteq DOMAIN streams THEN answers = {"missing"}
     ELSE /\ each \cap {"yes"} \subseteq answers /\ answers \subseteq each \cup {"yes"}
          /\ (\A s \in all : private_values(s) \subseteq {NULL, 0, 1}) => answers = each

\* AUTH02: the answer for the hierarchy is the conjunction of the answers of
\* is_allowed_to_read for the stream and for each that is below it in the window,
\* as long as read_visibility is 0 or 1.  (insert_metadata takes any number; to
\* is_allowed_to_read all but 0 are private, to is_allowed_to_read_all only 1.)
\* Whatever the numbers, the hierarchy is not refused when each stream may be read.
ReadAllIsReadEach ==
  \A k \in DOMAIN streams, wallet \in Address, w \in Windows : read_agrees(k, wallet, w)
=============================================================================
