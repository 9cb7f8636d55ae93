----------------------------- MODULE MCUpstream -----------------------------
(***************************************************************************)
(* The upstream resolver on small instances: one configuration of two name *)
(* servers, or one of one server that is reloaded as another.              *)
(***************************************************************************)
EXTENDS UpstreamResolver

MCLayouts ==
    {[r \in {0, 1} |-> IF r = 0 THEN 2 ELSE 0],
     [r \in {0, 1} |-> 1]}
=============================================================================
