--------------------------- MODULE MCAlertHandler ---------------------------
(* AlertHandler with the gateway's constants and short batches. *)
EXTENDS AlertHandler

CONSTANTS f1, f2

Float64Ceil ==
  {<<7, 100>>, <<14, 50>>, <<14, 100>>, <<28, 25>>, <<28, 50>>, <<28, 75>>, <<28, 100>>}

Triple(min, max, factor) == [min |-> min, max |-> max, factor |-> factor]
Plain    == Triple(NotNumber, NotNumber, NotNumber)
Sluggish == Triple(1, 20, 40)
Huge     == Triple(2, 200, 100)
BadScale == Triple(NotNumber, NotNumber, 0)
Negative == Triple(1, -1, NotNumber)

AllLabels  == {Plain, Sluggish, Huge, BadScale, Negative}
SomeLabels == {Plain, Sluggish}

Fires(f)    == [function |-> f, firing |-> TRUE]
Resolves(f) == [function |-> f, firing |-> FALSE]

(* A function twice, two functions, an alert without a name. *)
SomeBatches ==
  {<<Fires(f1), Fires(f1)>>, <<Fires(f1), Resolves(f1)>>, <<Resolves(f1), Fires(f1)>>,
   <<Resolves(f1), Fires(Unnamed), Fires(f2)>>}
=============================================================================
