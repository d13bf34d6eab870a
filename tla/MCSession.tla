------------------------------ MODULE MCSession ------------------------------
(* Model checking of Session: the instances are chosen in the .cfg files.    *)
EXTENDS Session

AllConns == Slots \X Conns
=============================================================================
