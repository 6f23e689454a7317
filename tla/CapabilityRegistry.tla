--------------------------- MODULE CapabilityRegistry ---------------------------
(***************************************************************************)
(* CapabilityRegistryService of services/capability-registry.  Every       *)
(* operation is one synchronous step but enable: it awaits the validation  *)
(* of dependencies and then writes back the capability it read before.     *)
(* The registry gives every capability an empty list of dependencies, so   *)
(* that validation passes and no uninstallation meets a dependent.         *)
(*                                                                         *)
(* Identifiers are numbered in the order of installation.  Of health       *)
(* checks only who has one is kept: nothing reads what they say.           *)
(***************************************************************************)
EXTENDS Naturals, Sequences, Maps

CONSTANTS
  CapabilityNames,
  Versions,
  MaxInstalls,    \* bound on the installations
  MaxEnables      \* bound on the activations under way

ASSUME InstallBounds == MaxInstalls \in Nat /\ MaxEnables \in Nat

VARIABLES
  capabilities,
  healthChecks,   \* capabilities with a recorded health check
  installs,       \* installations so far
  enables         \* activations past their await, in the order they resume

capabilityVars == <<capabilities, healthChecks, installs, enables>>

\* failed and uninstalling exist in the schema; no operation sets them.
CapabilityStatus == {"installed", "enabled", "disabled", "updating"}

Capability == [name : CapabilityNames, version : Versions, status : CapabilityStatus,
               isHealthy : BOOLEAN]

CapabilityInit ==
  /\ capabilities = EmptyMap
  /\ healthChecks = {}
  /\ installs = 0
  /\ enables = << >>

Store(id, capability) == capabilities' = Put(capabilities, id, capability)

------------------------------------------------------------------------------

InstallCapability(name, version, forceUpdate, autoEnable) ==
  /\ installs < MaxInstalls
  /\ forceUpdate \/ \A id \in DOMAIN capabilities : capabilities[id].name # name
  /\ installs' = installs + 1
  /\ Store(installs + 1, [name |-> name, version |-> version, isHealthy |-> TRUE,
                          status |-> IF autoEnable THEN "enabled" ELSE "installed"])
  /\ UNCHANGED <<healthChecks, enables>>

\* Fault: an update of a capability that is not there puts it there.
FaultUpdateInstalls(id, version, restartRequired) ==
  /\ id \in 1..installs
  /\ LET known == id \in DOMAIN capabilities
     IN \E name \in CapabilityNames :
          Store(id, [name |-> name, version |-> version, isHealthy |-> TRUE,
                     status |-> IF known THEN capabilities[id].status ELSE "installed"])
  /\ UNCHANGED <<healthChecks, installs, enables>>

UpdateCapability(id, version, restartRequired) ==
  /\ id \in DOMAIN capabilities
  /\ LET status == capabilities[id].status
     IN Store(id, [capabilities[id] EXCEPT
                     !.version = version,
                     !.status = IF restartRequired /\ status = "enabled" THEN "updating" ELSE status])
  /\ UNCHANGED <<healthChecks, installs, enables>>

\* enableCapability until it waits for validateDependencies; one that is
\* enabled already is returned as it is.
EnableCapability(id) ==
  /\ id \in DOMAIN capabilities /\ capabilities[id].status # "enabled"
  /\ Len(enables) < MaxEnables
  /\ enables' = Append(enables, [id |-> id, read |-> capabilities[id]])
  /\ UNCHANGED <<capabilities, healthChecks, installs>>

\* enableCapability goes on, with what it read before.
DependenciesValidated ==
  /\ enables # << >>
  /\ Store(Head(enables).id, [Head(enables).read EXCEPT !.status = "enabled"])
  /\ enables' = Tail(enables)
  /\ UNCHANGED <<healthChecks, installs>>

DisableCapability(id) ==
  /\ id \in DOMAIN capabilities
  /\ Store(id, [capabilities[id] EXCEPT !.status = "disabled"])
  /\ UNCHANGED <<healthChecks, installs, enables>>

UninstallCapability(id) ==
  /\ id \in DOMAIN capabilities
  /\ capabilities' = Delete(capabilities, id)
  /\ healthChecks' = healthChecks \ {id}
  /\ UNCHANGED <<installs, enables>>

\* Only an enabled capability can be found healthy.
CheckCapabilityHealth(id, isHealthy) ==
  /\ id \in DOMAIN capabilities
  /\ isHealthy => capabilities[id].status = "enabled"
  /\ Store(id, [capabilities[id] EXCEPT !.isHealthy = isHealthy])
  /\ healthChecks' = healthChecks \union {id}
  /\ UNCHANGED <<installs, enables>>

CapabilityNext ==
  \/ \E name \in CapabilityNames, version \in Versions, force, auto \in BOOLEAN :
       InstallCapability(name, version, force, auto)
  \/ \E id \in 1..installs :
       \/ \E version \in Versions, restart \in BOOLEAN : UpdateCapability(id, version, restart)
       \/ EnableCapability(id)
       \/ DisableCapability(id)
       \/ UninstallCapability(id)
       \/ \E isHealthy \in BOOLEAN : CheckCapabilityHealth(id, isHealthy)
  \/ DependenciesValidated

CapabilitySpec == CapabilityInit /\ [][CapabilityNext]_capabilityVars

------------------------------------------------------------------------------

\* Types; and a health check is of a capability the registry holds.
CapabilityTypeOK ==
  /\ installs \in Nat
  /\ capabilities \in MapsOf(1..installs, Capability)
  /\ healthChecks \subseteq DOMAIN capabilities
  /\ enables \in Seq([id : 1..installs, read : Capability])

\* Uninstalled, and no activation under way that would write it back.
Gone(id) ==
  /\ id \in 1..installs \ DOMAIN capabilities
  /\ \A i \in DOMAIN enables : enables[i].id # id

\* Uninstalling is final: whatever is asked of the registry afterwards, with
\* the old identifier or under the same name, a capability that is gone stays
\* gone.  Only an activation that was under way can bring one back.
UninstallHolds == [][\A id \in 1..installs : Gone(id) => Gone(id)']_capabilityVars

==============================================================================
