---------------------------- MODULE MCRoutedLayer ----------------------------
(* RoutedLayer over gRPC for TLC: the layer and the topologies. *)
EXTENDS RoutedLayer

\* Two tokens, one expert each.
Spread == {<<1, 1>>, <<2, 2>>}

\* One process, then the other; both; a replica and a single one; a missing expert.
Placed == {<<{1}, {1}>>, <<{2}, {2}>>, <<{1}, {2}>>, <<{1, 2}, {1, 2}>>, <<{1, 2}, {2}>>, <<{1}, {}>>}
=============================================================================
