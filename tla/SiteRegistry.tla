----------------------------- MODULE SiteRegistry -----------------------------
(***************************************************************************)
(* SiteRegistryService of services/site-registry behind the federation     *)
(* routes of the Mission Control server: sites and their life cycle, flag  *)
(* definitions and per-site overrides, and the version a reader is given   *)
(* with the topology.  No method awaits anything, so a request is a step.  *)
(*                                                                         *)
(* A site id is its place in the order of registration.  Sites are never   *)
(* removed.                                                                *)
(***************************************************************************)
EXTENDS Naturals, Sequences, Maps

CONSTANTS
  Slugs,             \* slugs a registration may ask for
  FlagKeys,          \* keys of feature flags
  PlatformFlags,     \* those of DEFAULT_FEATURE_FLAGS
  SiteConfigs,       \* operational configurations
  Equipment,         \* equipment topologies
  MaxSites,          \* bound on the sites registered
  MaxTopologyVersion \* bound on the mutations counted

ASSUME SiteBounds ==
  /\ PlatformFlags \subseteq FlagKeys
  /\ MaxSites \in Nat /\ MaxTopologyVersion \in Nat

VARIABLES
  sites,
  slugIndex,
  featureFlags,      \* default value of each flag defined at run time
  topologyVersion,
  reader,            \* what some client last read of the federation
  overridden         \* history: the last value each site's overrides set

siteVars == <<sites, slugIndex, featureFlags, topologyVersion, reader, overridden>>

SiteStatus == {"provisioning", "active", "maintenance", "suspended", "decommissioned"}

\* Overrides and definitions hold any of the keys.
Flags == MapsOf(FlagKeys, BOOLEAN)

Site == [slug : Slugs, status : SiteStatus, config : SiteConfigs, equipment : Equipment,
         flags : Flags]

\* The platform's defaults, all off, under the definitions.
GlobalFlags == Spread(featureFlags, [k \in PlatformFlags |-> FALSE])

\* What GET /api/federation answers.
Topology == [version |-> topologyVersion, sites |-> sites, defaultFeatureFlags |-> GlobalFlags]

SiteInit ==
  /\ sites = << >>
  /\ slugIndex = EmptyMap
  /\ featureFlags = EmptyMap
  /\ topologyVersion = 0
  /\ reader = Topology
  /\ overridden = << >>

------------------------------------------------------------------------------
(***************************************************************************)
(* Sites                                                                   *)
(***************************************************************************)

ValidSiteTransitions ==
  [provisioning |-> {"active"},
   active |-> {"maintenance", "suspended"},
   maintenance |-> {"active"},
   suspended |-> {"active", "decommissioned"},
   decommissioned |-> {}]

\* Fault: the slug is taken from the site that has it.
FaultSlugTaken(slug, config, equipment, flags) ==
  /\ Len(sites) < MaxSites /\ topologyVersion < MaxTopologyVersion
  /\ sites' = Append(sites, [slug |-> slug, status |-> "provisioning", config |-> config,
                             equipment |-> equipment, flags |-> flags])
  /\ slugIndex' = Put(slugIndex, slug, Len(sites) + 1)
  /\ topologyVersion' = topologyVersion + 1
  /\ overridden' = Append(overridden, flags)
  /\ UNCHANGED <<featureFlags, reader>>

\* Every registration that is refused, for its slug or by the schema, changes
\* nothing.
CreateSite(slug, config, equipment, flags) ==
  /\ Len(sites) < MaxSites /\ topologyVersion < MaxTopologyVersion
  /\ slug \notin DOMAIN slugIndex
  /\ sites' = Append(sites, [slug |-> slug, status |-> "provisioning", config |-> config,
                             equipment |-> equipment, flags |-> flags])
  /\ slugIndex' = Put(slugIndex, slug, Len(sites) + 1)
  /\ topologyVersion' = topologyVersion + 1
  /\ overridden' = Append(overridden, flags)
  /\ UNCHANGED <<featureFlags, reader>>

\* A site is replaced by a changed copy.
Replace(i, site) ==
  /\ sites' = [sites EXCEPT ![i] = site]
  /\ UNCHANGED <<slugIndex, featureFlags, reader>>

Counted == topologyVersion < MaxTopologyVersion /\ topologyVersion' = topologyVersion + 1

UpdateSiteStatus(i, status) ==
  /\ status \in ValidSiteTransitions[sites[i].status]
  /\ Replace(i, [sites[i] EXCEPT !.status = status])
  /\ Counted
  /\ UNCHANGED overridden

\* Fault: the change is not counted.
FaultConfigUncounted(i, config) ==
  /\ Replace(i, [sites[i] EXCEPT !.config = config])
  /\ UNCHANGED <<topologyVersion, overridden>>

UpdateSiteConfig(i, config) ==
  /\ Replace(i, [sites[i] EXCEPT !.config = config])
  /\ Counted
  /\ UNCHANGED overridden

\* The one replacement of a site that is not counted; no route leads here.
UpdateEquipmentTopology(i, equipment) ==
  /\ Replace(i, [sites[i] EXCEPT !.equipment = equipment])
  /\ UNCHANGED <<topologyVersion, overridden>>

------------------------------------------------------------------------------
(***************************************************************************)
(* Feature flags                                                           *)
(***************************************************************************)

\* Not counted either, although the topology carries the default.
UpsertFeatureFlag(key, default) ==
  /\ featureFlags' = Put(featureFlags, key, default)
  /\ UNCHANGED <<sites, slugIndex, topologyVersion, reader, overridden>>

\* Fault: the new overrides take the place of the old ones.
FaultOverridesReplaced(i, overrides) ==
  /\ Replace(i, [sites[i] EXCEPT !.flags = overrides])
  /\ overridden' = [overridden EXCEPT ![i] = Spread(overrides, @)]
  /\ Counted

SetFeatureFlagOverrides(i, overrides) ==
  /\ Replace(i, [sites[i] EXCEPT !.flags = Spread(overrides, @)])
  /\ overridden' = [overridden EXCEPT ![i] = Spread(overrides, @)]
  /\ Counted

\* Site before tenant before global; an unknown key is off.
ResolveFeatureFlag(key, tenantFlags, siteFlags) ==
  CASE key \in DOMAIN siteFlags -> [value |-> siteFlags[key], from |-> "site"]
    [] key \notin DOMAIN siteFlags /\ key \in DOMAIN tenantFlags ->
         [value |-> tenantFlags[key], from |-> "tenant"]
    [] OTHER -> [value |-> key \in DOMAIN GlobalFlags /\ GlobalFlags[key], from |-> "global"]

\* resolveFeatureFlags: one answer for each key anyone knows of.
ResolveFeatureFlags(i, tenantFlags) ==
  [key \in DOMAIN GlobalFlags \union DOMAIN tenantFlags \union DOMAIN sites[i].flags |->
     ResolveFeatureFlag(key, tenantFlags, sites[i].flags)]

------------------------------------------------------------------------------

\* GET /api/federation.
GetFederationTopology ==
  /\ reader' = Topology
  /\ UNCHANGED <<sites, slugIndex, featureFlags, topologyVersion, overridden>>

SiteNext ==
  \/ \E slug \in Slugs, c \in SiteConfigs, q \in Equipment, flags \in Flags :
       CreateSite(slug, c, q, flags)
  \/ \E i \in DOMAIN sites :
       \/ \E status \in SiteStatus : UpdateSiteStatus(i, status)
       \/ \E c \in SiteConfigs : UpdateSiteConfig(i, c)
       \/ \E q \in Equipment : UpdateEquipmentTopology(i, q)
       \/ \E overrides \in Flags : SetFeatureFlagOverrides(i, overrides)
  \/ \E key \in FlagKeys, default \in BOOLEAN : UpsertFeatureFlag(key, default)
  \/ GetFederationTopology

SiteSpec == SiteInit /\ [][SiteNext]_siteVars

------------------------------------------------------------------------------

\* Types; and the index finds every site by its slug, and nothing else.
SiteTypeOK ==
  /\ sites \in Seq(Site)
  /\ overridden \in Seq(Flags) /\ Len(overridden) = Len(sites)
  /\ featureFlags \in Flags
  /\ topologyVersion \in Nat
  /\ DOMAIN slugIndex \subseteq Slugs
  /\ \A slug \in DOMAIN slugIndex : slugIndex[slug] \in DOMAIN sites
  /\ \A i \in DOMAIN sites : sites[i].slug \in DOMAIN slugIndex /\ slugIndex[sites[i].slug] = i
  /\ reader \in [version : Nat, sites : Seq(Site), defaultFeatureFlags : Flags]

\* The version is what a client compares before it acts on what it read.  A
\* client that holds the current one has missed no registration and no change
\* of status, configuration or overrides.  It may have missed new equipment and
\* new defaults of flags, which are not counted: FEDERATION-INV-003, by which
\* every mutation increments the version, holds of the other operations only.
VersionCovers ==
  /\ reader.version <= topologyVersion
  /\ reader.version = topologyVersion =>
       /\ Len(reader.sites) = Len(sites)
       /\ \A i \in DOMAIN sites :
            reader.sites[i] = [sites[i] EXCEPT !.equipment = reader.sites[i].equipment]

\* FEDERATION-INV-008, over time: a site's override, once set, decides until it
\* is set anew, whatever is defined globally, asked for by the tenant or done to
\* the site since; and a key nobody overrode for the site is not decided by it.
OverridesKept ==
  \A i \in DOMAIN sites, tenantFlags \in Flags :
    LET resolved == ResolveFeatureFlags(i, tenantFlags)
    IN /\ \A key \in DOMAIN overridden[i] :
            key \in DOMAIN resolved /\ resolved[key] = [value |-> overridden[i][key], from |-> "site"]
       /\ \A key \in DOMAIN resolved \ DOMAIN overridden[i] : resolved[key].from # "site"

==============================================================================
