-------------------------- MODULE MCChatSubmission --------------------------
(***************************************************************************)
(* Instances of ChatSubmission for TLC.                                    *)
(***************************************************************************)
EXTENDS ChatSubmission, TLC

\* Sockets and client message ids are interchangeable.
Symmetry == Permutations(Sockets) \cup Permutations(Messages)

=============================================================================
