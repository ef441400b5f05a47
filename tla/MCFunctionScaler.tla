-------------------------- MODULE MCFunctionScaler --------------------------
(* FunctionScaler on small instances. *)
EXTENDS FunctionScaler

NoRounding == {}

(* A function that sets no minimum, and one that asks for two replicas. *)
Plain  == [min |-> NotNumber, max |-> NotNumber, factor |-> NotNumber]
MinTwo == [min |-> 2, max |-> NotNumber, factor |-> NotNumber]

PlainOnly   == {Plain}
PlainOrTwo  == {Plain, MinTwo}
=============================================================================
