----------------------------- MODULE MCThreads -----------------------------
(* The threads of the kernel and those of the distribution, which share     *)
(* nothing: one scheduler is explored while the other stays as it is at     *)
(* boot.                                                                    *)
EXTENDS MCScheduler, MCDistribution

VARIABLE part                      \* whose threads run

MCInit ==
    /\ part \in {"kernel", "distribution"}
    /\ Init /\ DistributionInit
    /\ part = "kernel" => loop = "display"

MCNext ==
    /\ \/ part = "kernel" /\ Next /\ UNCHANGED distribution_vars
       \/ part = "distribution" /\ DistributionNext /\ UNCHANGED vars
    /\ UNCHANGED part

MCSpec == MCInit /\ [][MCNext]_<<part, vars, distribution_vars>>
=============================================================================
