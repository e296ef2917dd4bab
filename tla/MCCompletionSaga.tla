-------------------------- MODULE MCCompletionSaga --------------------------
(***************************************************************************)
(* Instances of CompletionSaga for TLC.                                    *)
(***************************************************************************)
EXTENDS CompletionSaga, TLC

DoubleAndGroup == {"double", "group"}

\* Handlers are interchangeable.
HandlerSymmetry == Permutations(Users)

=============================================================================
