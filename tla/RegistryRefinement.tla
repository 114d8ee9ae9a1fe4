------------------------- MODULE RegistryRefinement -------------------------
(***************************************************************************)
(* The registry implements Ownership when streams are created one at a     *)
(* time: the owner of a stream is the address in its stream_owner row.     *)
(***************************************************************************)
EXTENDS Registry

OwnerOf ==
  [k \in DOMAIN streams |->
     (CHOOSE r \in metadata : r.stream = k /\ r.metadata_key = "stream_owner").value_ref]

Abstract == INSTANCE Ownership
              WITH Owners <- Address, Streams <- Key, owner <- OwnerOf, actor <- signer

\* AUTH01, AUTH05, OTHER03: every transaction creates a stream for its signer,
\* or is signed by the owner of the one stream whose owner it changes, if any.
ImplementsOwnership == Abstract!Spec
=============================================================================
