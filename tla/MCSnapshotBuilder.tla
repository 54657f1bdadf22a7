-------------------------- MODULE MCSnapshotBuilder --------------------------
(* A small cluster that changes while it is polled and snapshots are built.  *)
EXTENDS SnapshotBuilder

\* What a behaviour is about: nodes and pods that come and go, or polls of a pod that is
\* replaced on a node that stays.
VARIABLE focus

\* A bound on the environment alone: nothing that Spec is fair to is held up by it.
Within ==
    IF focus = "stores"
    THEN polls + scrapes = 0
    ELSE events < MaxEvents /\ apiNodes = Nodes /\ DOMAIN apiPods \subseteq {"p1"}

MCInit == Init /\ focus \in {"stores", "metrics"} /\ Within

MCNext == Next /\ UNCHANGED focus /\ Within'

MCSpec == MCInit /\ [][MCNext]_<<vars, focus>> /\ Fairness
=============================================================================
