------------------------------ MODULE MCSession ------------------------------
(* Session for TLC: model values for the handlers, which are symmetric.    *)
EXTENDS Session, TLC

HandlerSymmetry == Permutations(Handlers)
==============================================================================
