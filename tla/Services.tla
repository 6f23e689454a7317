-------------------------------- MODULE Services --------------------------------
(***************************************************************************)
(* The in-memory services that stand beside each other in one process and  *)
(* share no state: site registry, capability registry, digital twins,      *)
(* audit log and broker governance.  As no step of one reads or writes     *)
(* what another keeps, what each may do is the same whatever the others    *)
(* do; a behaviour exercises one of them, its focus.                       *)
(***************************************************************************)
EXTENDS SiteRegistry, CapabilityRegistry, DigitalTwin, AuditLog, BrokerGovernance

VARIABLE focus

vars == <<siteVars, capabilityVars, twinVars, auditVars, brokerVars, focus>>

Init ==
  /\ focus \in {"sites", "capabilities", "twins", "audit", "broker"}
  /\ SiteInit /\ CapabilityInit /\ TwinInit /\ AuditInit /\ BrokerInit
  \* What a component out of focus was started with makes no difference.
  /\ focus # "audit" => serviceIds = CHOOSE ids \in [Identities -> ServiceIds] : TRUE
  /\ focus # "broker" => /\ tier = "T1" /\ tierPolicy = CHOOSE p \in TierPolicies : TRUE
                         /\ aclRules = CHOOSE rules \in AclRuleLists : TRUE

\* Only the component in focus moves.
Sites ==
  /\ focus = "sites" /\ SiteNext
  /\ UNCHANGED <<capabilityVars, twinVars, auditVars, brokerVars, focus>>

Capabilities ==
  /\ focus = "capabilities" /\ CapabilityNext
  /\ UNCHANGED <<siteVars, twinVars, auditVars, brokerVars, focus>>

Twins ==
  /\ focus = "twins" /\ TwinNext
  /\ UNCHANGED <<siteVars, capabilityVars, auditVars, brokerVars, focus>>

Audit ==
  /\ focus = "audit" /\ AuditNext
  /\ UNCHANGED <<siteVars, capabilityVars, twinVars, brokerVars, focus>>

Broker ==
  /\ focus = "broker" /\ BrokerNext
  /\ UNCHANGED <<siteVars, capabilityVars, twinVars, auditVars, focus>>

Next == Sites \/ Capabilities \/ Twins \/ Audit \/ Broker

Spec == Init /\ [][Next]_vars

------------------------------------------------------------------------------

\* Types of every component.
TypeOK == SiteTypeOK /\ CapabilityTypeOK /\ TwinTypeOK /\ AuditTypeOK /\ BrokerTypeOK

==============================================================================
