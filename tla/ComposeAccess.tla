---------------------------- MODULE ComposeAccess ----------------------------
(***************************************************************************)
(* Which streams may compose from which: is_allowed_to_compose of          *)
(* 002-authorization.sql for one link, and is_allowed_to_compose_all for   *)
(* every link in force below a stream in a window.                         *)
(***************************************************************************)
EXTENDS Hierarchy

\* check_stream_id_format takes digits and lower-case letters only.
ASSUME IdAssumption == \A id \in WellFormedIds : Lower[id] = id

\* The owner each of the two reads: NULL when the stream has no enabled owner row.
owner_values(k) == get_latest_metadata_ref(k, "stream_owner", NULL)

\* What it may answer for `composing` on top of k: "missing" and "other_owner" stand
\* for its ERRORs.  A comparison with NULL is no ERROR.
is_allowed_to_compose(k, composing) ==
  IF ~ {k, composing} \subseteq DOMAIN streams THEN {"missing"}
  ELSE {IF NULL \notin {o, p} /\ o # p THEN "other_owner"
        ELSE IF visibility \in {NULL, 0} \/ listed # NULL THEN "yes" ELSE "no" :
          o \in owner_values(k), p \in owner_values(composing),
          visibility \in get_latest_metadata_int(k, "compose_visibility"),
          listed \in get_latest_metadata_ref(k, "allow_compose_stream", Lower[composing[2]])}

\* The list holds the ids of streams, whoever their provider is.
lists(parent, child) ==
  \E r \in get_metadata(child, "allow_compose_stream", NULL) : r.value_ref = parent[2]

\* Mutant: streams of one owner need the permission too.
always_distinct(parent, child) == TRUE

\* The two subqueries for the owners, IS DISTINCT FROM: whether they may differ.
may_be_distinct(parent, child) ==
  \E o \in owner_values(child), p \in owner_values(parent) : o # p

\* parent_child_edges
edges(k, active_from, active_to) ==
  {<<s.parent, s.child>> : s \in substreams(k, coalesce(active_from, 0),
                                               coalesce(active_to, MaxInt8))}

\* What it may answer: "missing" stands for its ERROR.
is_allowed_to_compose_all(k, active_from, active_to) ==
  LET E == edges(k, active_from, active_to)
      private(c) == get_latest_metadata_int(c, "compose_visibility")
      may_block(e) == /\ 1 \in private(e[2])
                      /\ ~ lists(e[1], e[2])
                      /\ may_be_distinct(e[1], e[2])
      must_block(e) == /\ private(e[2]) = {1}
                       /\ ~ lists(e[1], e[2])
                       /\ owner_values(e[1]) \cap owner_values(e[2]) = {}
  IN IF k \notin DOMAIN streams \/ \E e \in E : e[2] \notin DOMAIN streams THEN {"missing"}
     ELSE (IF \A e \in E : ~ must_block(e) THEN {"yes"} ELSE {})
          \cup (IF \E e \in E : may_block(e) THEN {"no"} ELSE {})

-----------------------------------------------------------------------------
(* Properties                                                              *)

\* The links in force at some time of a window, from the reference of Hierarchy.
links(k, from, to) ==
  UNION {UNION {{p} \X children_at(p, t) : p \in {k} \cup below_at(k, t)} : t \in times(from, to)}

\* A link is permitted when one owner has both streams, or the one below lists the
\* other.
link_permitted(l) ==
  \/ \E a \in Address : is_stream_owner(l[1], a) /\ is_stream_owner(l[2], a)
  \/ get_metadata(l[2], "allow_compose_stream", Lower[l[1][2]]) # {}

\* The conjunction of the answers for the links L.
compose_each(L) ==
  LET private(l) == get_latest_metadata_int(l[2], "compose_visibility")
  IN (IF \A l \in L : link_permitted(l) \/ private(l) # {1} THEN {"yes"} ELSE {})
     \cup (IF \E l \in L : ~ link_permitted(l) /\ 1 \in private(l) THEN {"no"} ELSE {})

\* AUTH04: a hierarchy may be composed when each of its links is between streams of
\* one owner, or to a stream that is open or whose owner listed the stream above it.
\* (is_allowed_to_compose is stricter: it refuses two owners, and the private stream
\* of one owner that is not listed.)
ComposeAllIsEachLink ==
  \A k \in DOMAIN streams, w \in Windows :
    LET L == links(k, w[1], w[2])
    IN is_allowed_to_compose_all(k, w[1], w[2])
         = IF \E l \in L : l[2] \notin DOMAIN streams THEN {"missing"} ELSE compose_each(L)

\* AUTH04: whether a stream may be composed by another changes only by a
\* transaction of an owner of one of them.
ComposeFollowsOwner ==
  [][\A p, c \in DOMAIN streams \cap DOMAIN streams' :
       \/ is_stream_owner(p, signer') \/ is_stream_owner(c, signer')
       \/ is_allowed_to_compose(c, p)' = is_allowed_to_compose(c, p)]_taxVars
=============================================================================
