--------------------------- MODULE MCDirectedAuth ---------------------------
(***************************************************************************)
(* Instances of DirectedAuth.                                              *)
(***************************************************************************)
EXTENDS DirectedAuth

CONSTANTS a, b, c

\* Two neighbours that hear each other.
Pair == {<<a, b>>, <<b, a>>}

\* One node that hears two others.
Fork == {<<a, b>>, <<a, c>>}
=============================================================================
