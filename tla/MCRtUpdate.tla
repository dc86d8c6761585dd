----------------------------- MODULE MCRtUpdate -----------------------------
(* RtUpdate with two endpoints.                                            *)
EXTENDS RtUpdate

CONSTANTS e1, e2, t1, t2
=============================================================================
