------------------------ MODULE MCServerlessService ------------------------
(***************************************************************************)
(* Small instances of ServerlessService.                                   *)
(***************************************************************************)
EXTENDS ServerlessService

(* One of everything. *)
MixedBudget == [e \in Events |-> 1]

=============================================================================
