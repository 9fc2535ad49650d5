------------------------------- MODULE Chains -------------------------------
(***************************************************************************)
(* Chained hash tables: what the tables of src/src/objects/mapping.c and   *)
(* src/src/allobjects.c do alike.  chains[b] are the items of bucket b, in *)
(* the order of item->next.  Operators only.                               *)
(***************************************************************************)
EXTENDS Integers, SequencesExt

\* make_bigger: the items are visited in order, and each of them becomes the
\* first of its new chain; buckets are the new buckets, bucketof[x] is x's
Rechained(visited, buckets, bucketof) ==
  LET chains[i \in 0 .. Len(visited)] ==
        IF i = 0 THEN [b \in buckets |-> << >>]
        ELSE [chains[i - 1] EXCEPT ![bucketof[visited[i]]] = << visited[i] >> \o @]
  IN  chains[Len(visited)]

\* an item is taken out of a chain where it is met first, if it is there
Unlinked(chain, x) == RemoveFirst(chain, x)
=============================================================================
