---------------------------- MODULE MCOperatorShell ----------------------------
(* Instances of OperatorShell small enough for TLC. *)
EXTENDS OperatorShell

\* An operator with any command and a supervisor or no approver.
MCForms ==
  [commandType : {"allocate_pick", "reroute_container", "hold_container"}, actorRole : {"operator"},
   confirmationAccepted : BOOLEAN, approvedByRole : {None, "supervisor"}]

==============================================================================
