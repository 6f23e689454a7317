---------------------------- MODULE ControlPolicy ----------------------------
(***************************************************************************)
(* getDispatchPolicy of MissionControlState: who may have which command    *)
(* dispatched.  The server asks it for every controlled dispatch, and the  *)
(* operator shell asks the server through /api/control-policy.             *)
(***************************************************************************)
EXTENDS Naturals

CONSTANT None     \* no approver, no requirement, no control

Roles == {"operator", "supervisor", "admin"}

Rank == [operator |-> 1, supervisor |-> 2, admin |-> 3]

CommandType == {"allocate_pick", "release_pick", "reroute_container", "hold_container"}

Requirement == [allocate_pick |-> None, release_pick |-> None,
                reroute_container |-> "supervisor", hold_container |-> "admin"]

Control == [actorRole : Roles, confirmationAccepted : BOOLEAN,
            approvedByRole : Roles \union {None}]

PolicyStatus == {"allowed", "requires-approval", "denied"}

Satisfies(type, role) ==
  role # None /\ Rank[role] >= Rank[Requirement[type]]

\* Fault: the confirmation is looked at only when an approval is needed.
FaultUnconfirmed(type, c) ==
  IF Requirement[type] = None \/ Satisfies(type, c.actorRole) THEN "allowed"
  ELSE IF ~c.confirmationAccepted THEN "denied"
  ELSE IF Satisfies(type, c.approvedByRole) THEN "allowed" ELSE "requires-approval"

Decision(type, c) ==
  IF ~c.confirmationAccepted THEN "denied"
  ELSE IF \/ Requirement[type] = None
          \/ Satisfies(type, c.actorRole)
          \/ Satisfies(type, c.approvedByRole)
       THEN "allowed" ELSE "requires-approval"

==============================================================================
