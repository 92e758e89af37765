-------------------------- MODULE MCHashDispatch --------------------------
(* Parameters for the model checking of HashDispatch: a change lowers the    *)
(* concurrency and resizes the area.                                         *)
EXTENDS HashDispatch

MCInitParams == [max |-> 2, anon |-> 1]
MCParams == {[max |-> 1, anon |-> 2]}
=============================================================================
