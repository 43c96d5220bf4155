------------------------- MODULE MCKubernetesHandler -------------------------
(* An instance of KubernetesHandler: two interchangeable pods. *)
EXTENDS KubernetesHandler, TLC

CONSTANTS web, job

TwoPods == {web, job}

Alike == Permutations(TwoPods)
=============================================================================
