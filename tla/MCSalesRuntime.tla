--------------------------- MODULE MCSalesRuntime ---------------------------
(* Instances of SalesRuntime: Lanes handlers in each process. *)
EXTENDS SalesRuntime, TLC

CONSTANT Lanes

MCWorkers == Processes \X Lanes

MCHome == [w \in MCWorkers |-> w[1]]

\* One of the processes has a handler fewer than the other.
MCUneven ==
    MCWorkers \ {<<CHOOSE p \in Processes : TRUE, CHOOSE l \in Lanes : TRUE>>}

MCUnevenHome == [w \in MCUneven |-> w[1]]

MCSymmetry == Permutations(Processes) \cup Permutations(Requests)
=============================================================================
