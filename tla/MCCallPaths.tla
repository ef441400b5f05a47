---------------------------- MODULE MCCallPaths -----------------------------
(***************************************************************************)
(* One function name in two namespaces, the default one among them, and    *)
(* the three ways to call them.                                            *)
(***************************************************************************)
EXTENDS CallPaths

CONSTANTS f, fn, other

MCCalled   == {<<f>>, <<f, fn>>, <<f, other>>}
MCDeployed == {<<f, fn>>, <<f, other>>}
=============================================================================
