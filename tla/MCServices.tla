----------------------------- MODULE MCServices -----------------------------
(* The configurations for model checking Services. *)
EXTENDS Services

\* Every set of services; the binaries only where nothing else makes the HTTP
\* server start.
MCConfiguration == {F \in SUBSET Feature : "binary" \in F => F \cap Handler = {"binary"}}
=============================================================================
