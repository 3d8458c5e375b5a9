-------------------------- MODULE MCControllerState --------------------------
(* Instances of the Controller state for TLC; the sets come from the cfgs. *)
EXTENDS ControllerState, TLC

(* Worker ids, start ids, experts and peer lists are only ever compared. *)
Symmetric ==
    Permutations(Workers) \union Permutations(Starts)
      \union Permutations(Experts) \union Permutations(Peers)
===============================================================================
