--------------------------- MODULE MCMissionControl ---------------------------
(* Instances of MissionControl small enough for TLC. *)
EXTENDS MissionControl

CONSTANTS wms, i1, i2

Command1(id) == [sourceSystem |-> wms, commandId |-> id, correlationId |-> None]

Ask(role, confirmed, approver) ==
  [actorRole |-> role, confirmationAccepted |-> confirmed, approvedByRole |-> approver]

Body(id, type, control) ==
  [command |-> Command1(id), commandType |-> type, control |-> control]

MCCommands == {Command1(i1), Command1(i2)}

\* Two commands, with and without control: confirmed or not, by a role of
\* enough rank, by one of too little, and by one that has an approver.
MCRequests ==
  {Body(i1, "allocate_pick", None),
   Body(i1, "allocate_pick", Ask("operator", TRUE, None)),
   Body(i1, "reroute_container", Ask("operator", TRUE, "supervisor")),
   Body(i1, "reroute_container", Ask("operator", TRUE, None)),
   Body(i2, "hold_container", Ask("admin", FALSE, None)),
   Body(i2, "hold_container", Ask("supervisor", TRUE, "supervisor")),
   Body(i2, "hold_container", Ask("admin", TRUE, None))}

==============================================================================
