---------------------------- MODULE MCProxyLoop -----------------------------
(* Model values for ProxyLoop.                                              *)
EXTENDS ProxyLoop, TLC

CONSTANTS c1, b1, b2
OneClient == {c1}
OneBackend == {b1}
TwoBackends == {b1, b2}

\* Backend addresses are interchangeable.
BackendSymmetry == Permutations(TwoBackends)
=============================================================================
