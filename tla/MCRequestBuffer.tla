--------------------------- MODULE MCRequestBuffer ---------------------------
(* The requests and the buffer of the model-checked instance.              *)
EXTENDS RequestBuffer

Lengths == [len1 |-> 1, len3 |-> 3]

\* A request, one of two lines, one behind a stray line break, one with a body of a byte, and
\* one whose body looks like the end of a header.
RequestShapes == {
    <<"text", "cr", "lf", "cr", "lf">>,
    <<"text", "cr", "lf", "text", "cr", "lf", "cr", "lf">>,
    <<"cr", "lf", "text", "cr", "lf", "cr", "lf">>,
    <<"len1", "cr", "lf", "cr", "lf", "text">>,
    <<"len3", "cr", "lf", "cr", "lf", "lf", "cr", "lf">>}
=============================================================================
