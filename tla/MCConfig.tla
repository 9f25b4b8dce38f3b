------------------------------ MODULE MCConfig ------------------------------
(***************************************************************************)
(* Instance of Config: files with two clusters and with one, with an empty *)
(* entry before the end, with a name twice, without a name; settings with  *)
(* different drivers, with none, and with values that are refused.         *)
(***************************************************************************)
EXTENDS Config

CONSTANTS c1, c2, d1, d2

Entry(c, b) == [name |-> c, default |-> b]
SomeFiles ==
    {<<Entry(c1, FALSE), Entry(c2, TRUE)>>,
     <<Entry(c1, TRUE), Nil, Entry(c2, FALSE)>>,
     <<Entry(c2, TRUE), Entry(c2, FALSE)>>,
     <<Nil>>, <<Entry(NoName, FALSE)>>}
With(v, d, l) == [valid |-> v, drivers |-> d, limit |-> l]
SomeSettings ==
    {With(TRUE, {d1}, TRUE), With(TRUE, {d1, d2}, TRUE), With(TRUE, {}, TRUE),
     With(FALSE, {d1}, TRUE), With(TRUE, {d2}, FALSE)}
TwoDrivers == {d1, d2}
=============================================================================
