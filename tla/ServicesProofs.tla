----------------------------- MODULE ServicesProofs -----------------------------
(***************************************************************************)
(* Proofs about the in-memory services: for the specification of each      *)
(* component, and for the composition through the fact that it implements  *)
(* every one of them.                                                      *)
(***************************************************************************)
EXTENDS Services, SequenceTheorems, WellFoundedInduction, TLAPS

(***************************************************************************)
(* Maps                                                                    *)
(***************************************************************************)

\* What it is to be a map from some of the keys to values.
LEMMA MapsOfDef ==
  ASSUME NEW keys, NEW values, NEW map
  PROVE  map \in MapsOf(keys, values)
           <=> map \in [DOMAIN map -> values] /\ DOMAIN map \subseteq keys
  BY DEF MapsOf

\* The empty map is one.
LEMMA EmptyMapType ==
  ASSUME NEW keys, NEW values
  PROVE  EmptyMap \in MapsOf(keys, values)
  BY MapsOfDef DEF EmptyMap

\* Setting a key keeps the type, and the other keys.
LEMMA PutType ==
  ASSUME NEW keys, NEW values, NEW map \in MapsOf(keys, values), NEW key \in keys, NEW v \in values
  PROVE  /\ Put(map, key, v) \in MapsOf(keys, values)
         /\ DOMAIN Put(map, key, v) = DOMAIN map \union {key}
         /\ Put(map, key, v)[key] = v
         /\ \A k \in DOMAIN map \ {key} : Put(map, key, v)[k] = map[k]
  <1>1. map \in [DOMAIN map -> values] /\ DOMAIN map \subseteq keys
    BY MapsOfDef
  <1>2. /\ Put(map, key, v) \in [DOMAIN map \union {key} -> values]
        /\ DOMAIN map \union {key} \subseteq keys
    BY <1>1 DEF Put
  <1>3. Put(map, key, v) \in MapsOf(keys, values)
    BY <1>2, MapsOfDef
  <1>. QED
    BY <1>3 DEF Put

\* Deleting a key keeps the type, and the other keys.
LEMMA DeleteType ==
  ASSUME NEW keys, NEW values, NEW map \in MapsOf(keys, values), NEW key
  PROVE  /\ Delete(map, key) \in MapsOf(keys, values)
         /\ DOMAIN Delete(map, key) = DOMAIN map \ {key}
         /\ \A k \in DOMAIN map \ {key} : Delete(map, key)[k] = map[k]
  <1>1. map \in [DOMAIN map -> values] /\ DOMAIN map \subseteq keys
    BY MapsOfDef
  <1>2. /\ Delete(map, key) \in [DOMAIN map \ {key} -> values]
        /\ DOMAIN map \ {key} \subseteq keys
    BY <1>1 DEF Delete
  <1>3. Delete(map, key) \in MapsOf(keys, values)
    BY <1>2, MapsOfDef
  <1>. QED
    BY <1>3 DEF Delete

\* A spread is a map again, and gives its first argument precedence.
LEMMA SpreadType ==
  ASSUME NEW keys, NEW values, NEW over \in MapsOf(keys, values), NEW under \in MapsOf(keys, values)
  PROVE  Spread(over, under) \in MapsOf(keys, values)
  <1>1. /\ over \in [DOMAIN over -> values] /\ DOMAIN over \subseteq keys
        /\ under \in [DOMAIN under -> values] /\ DOMAIN under \subseteq keys
    BY MapsOfDef
  <1>2. /\ Spread(over, under) \in [DOMAIN over \union DOMAIN under -> values]
        /\ DOMAIN over \union DOMAIN under \subseteq keys
    BY <1>1 DEF Spread
  <1>. QED
    BY <1>2, MapsOfDef
(***************************************************************************)
(* Site registry                                                           *)
(***************************************************************************)

\* What a site would be asked for, and what it was told, are one.
OverridesInSites ==
  \A i \in DOMAIN sites : overridden[i] = sites[i].flags

SiteInv == SiteTypeOK /\ VersionCovers /\ OverridesInSites

\* The default of a flag is on or off.
LEMMA GlobalFlagsType ==
  ASSUME featureFlags \in Flags
  PROVE  GlobalFlags \in Flags
  <1>1. [k \in PlatformFlags |-> FALSE] \in MapsOf(FlagKeys, BOOLEAN)
    BY SiteBounds, MapsOfDef
  <1>. QED
    BY <1>1, SpreadType DEF GlobalFlags, Flags

\* The invariant holds at first.
LEMMA SiteInitial == SiteInit => SiteInv
  <1>. SUFFICES ASSUME SiteInit
                PROVE  SiteInv
    OBVIOUS
  <1>1. featureFlags \in Flags /\ GlobalFlags \in Flags
    BY EmptyMapType, GlobalFlagsType DEF SiteInit, Flags
  <1>2. SiteTypeOK
    BY <1>1 DEF SiteInit, SiteTypeOK, EmptyMap, Topology
  <1>. QED
    BY <1>2 DEF SiteInit, SiteInv, VersionCovers, OverridesInSites, Topology

\* What there is to know of a changed copy of a site.
LEMMA ReplaceKeeps ==
  ASSUME SiteTypeOK, NEW i \in DOMAIN sites, NEW site \in Site, site.slug = sites[i].slug,
         Replace(i, site), topologyVersion' \in Nat,
         overridden' \in Seq(Flags), Len(overridden') = Len(overridden)
  PROVE  SiteTypeOK'
  BY DEF SiteTypeOK, Replace

\* A counted change leaves every reader behind.
LEMMA CountedKeepsReader ==
  ASSUME SiteTypeOK, VersionCovers, topologyVersion' = topologyVersion + 1, reader' = reader
  PROVE  VersionCovers'
  BY DEF SiteTypeOK, VersionCovers

\* Registrations.
LEMMA CreateSiteStep ==
  ASSUME SiteInv, NEW slug \in Slugs, NEW c \in SiteConfigs, NEW q \in Equipment, NEW flags \in Flags,
         CreateSite(slug, c, q, flags)
  PROVE  SiteInv'
  <1>. DEFINE site == [slug |-> slug, status |-> "provisioning", config |-> c, equipment |-> q,
                       flags |-> flags]
  <1>1. site \in Site
    BY DEF Site, SiteStatus
  <1>2. sites' = Append(sites, site) /\ overridden' = Append(overridden, flags)
    BY DEF CreateSite
  <1>3. /\ DOMAIN slugIndex' = DOMAIN slugIndex \union {slug}
        /\ slugIndex'[slug] = Len(sites) + 1
        /\ \A s \in DOMAIN slugIndex : slugIndex'[s] = slugIndex[s]
    BY DEF CreateSite, Put
  <1>4. SiteTypeOK'
    <2>. DEFINE n == Len(sites)
    <2>1. /\ sites \in Seq(Site) /\ n \in Nat /\ DOMAIN sites = 1..n
          /\ overridden \in Seq(Flags) /\ Len(overridden) = n
      BY DEF SiteInv, SiteTypeOK
    <2>2. /\ sites' \in Seq(Site) /\ DOMAIN sites' = 1..(n + 1) /\ sites'[n + 1] = site
          /\ \A i \in 1..n : sites'[i] = sites[i]
      BY <1>1, <1>2, <2>1
    <2>3. overridden' \in Seq(Flags) /\ Len(overridden') = Len(sites')
      BY <1>1, <1>2, <2>1
    <2>4. slug \notin DOMAIN slugIndex /\ featureFlags' = featureFlags /\ reader' = reader
          /\ topologyVersion' = topologyVersion + 1
      BY DEF CreateSite
    <2>5. \A s \in DOMAIN slugIndex' : slugIndex'[s] \in DOMAIN sites'
      BY <1>3, <2>1, <2>2 DEF SiteInv, SiteTypeOK
    <2>6. \A i \in DOMAIN sites' : sites'[i].slug \in DOMAIN slugIndex' /\ slugIndex'[sites'[i].slug] = i
      <3>. SUFFICES ASSUME NEW i \in 1..(n + 1)
                    PROVE  sites'[i].slug \in DOMAIN slugIndex' /\ slugIndex'[sites'[i].slug] = i
        BY <2>2
      <3>1. CASE i = n + 1
        BY <3>1, <1>3, <2>2
      <3>2. CASE i \in 1..n
        BY <3>2, <1>3, <2>1, <2>2, <2>4 DEF SiteInv, SiteTypeOK
      <3>. QED
        BY <3>1, <3>2, <2>1
    <2>7. featureFlags' \in Flags /\ topologyVersion' \in Nat /\ DOMAIN slugIndex' \subseteq Slugs
      BY <1>3, <2>4 DEF SiteInv, SiteTypeOK
    <2>8. reader' \in [version : Nat, sites : Seq(Site), defaultFeatureFlags : Flags]
      BY <2>4 DEF SiteInv, SiteTypeOK
    <2>. QED
      BY <2>2, <2>3, <2>5, <2>6, <2>7, <2>8 DEF SiteTypeOK
  <1>5. VersionCovers'
    BY CountedKeepsReader DEF SiteInv, CreateSite
  <1>6. OverridesInSites'
    BY <1>1, <1>2 DEF SiteInv, SiteTypeOK, OverridesInSites
  <1>. QED
    BY <1>4, <1>5, <1>6 DEF SiteInv

\* The operations that replace a site.
LEMMA UpdateSiteStep ==
  ASSUME SiteInv, NEW i \in DOMAIN sites,
         \/ \E status \in SiteStatus : UpdateSiteStatus(i, status)
         \/ \E c \in SiteConfigs : UpdateSiteConfig(i, c)
         \/ \E q \in Equipment : UpdateEquipmentTopology(i, q)
         \/ \E overrides \in Flags : SetFeatureFlagOverrides(i, overrides)
  PROVE  SiteInv'
  <1>0. sites[i] \in Site /\ overridden[i] \in Flags /\ topologyVersion \in Nat
    BY DEF SiteInv, SiteTypeOK
  <1>1. ASSUME NEW status \in SiteStatus, UpdateSiteStatus(i, status)
        PROVE  SiteInv'
    <2>1. [sites[i] EXCEPT !.status = status] \in Site
      BY <1>0 DEF Site
    <2>2. SiteTypeOK'
      <3>1. /\ Replace(i, [sites[i] EXCEPT !.status = status]) /\ topologyVersion' \in Nat
            /\ overridden' = overridden
        BY <1>0, <1>1 DEF UpdateSiteStatus, Counted
      <3>2. [sites[i] EXCEPT !.status = status].slug = sites[i].slug
        BY <1>0 DEF Site
      <3>. QED
        BY <2>1, <3>1, <3>2, ReplaceKeeps DEF SiteInv, SiteTypeOK
    <2>3. VersionCovers'
      BY <1>1, CountedKeepsReader DEF SiteInv, UpdateSiteStatus, Counted, Replace
    <2>4. OverridesInSites'
      BY <1>0, <1>1, <2>1 DEF SiteInv, SiteTypeOK, OverridesInSites, UpdateSiteStatus, Replace, Site
    <2>. QED
      BY <2>2, <2>3, <2>4 DEF SiteInv
  <1>2. ASSUME NEW c \in SiteConfigs, UpdateSiteConfig(i, c)
        PROVE  SiteInv'
    <2>1. [sites[i] EXCEPT !.config = c] \in Site
      BY <1>0 DEF Site
    <2>2. SiteTypeOK'
      <3>1. /\ Replace(i, [sites[i] EXCEPT !.config = c]) /\ topologyVersion' \in Nat
            /\ overridden' = overridden
        BY <1>0, <1>2 DEF UpdateSiteConfig, Counted
      <3>2. [sites[i] EXCEPT !.config = c].slug = sites[i].slug
        BY <1>0 DEF Site
      <3>. QED
        BY <2>1, <3>1, <3>2, ReplaceKeeps DEF SiteInv, SiteTypeOK
    <2>3. VersionCovers'
      BY <1>2, CountedKeepsReader DEF SiteInv, UpdateSiteConfig, Counted, Replace
    <2>4. OverridesInSites'
      BY <1>0, <1>2, <2>1 DEF SiteInv, SiteTypeOK, OverridesInSites, UpdateSiteConfig, Replace, Site
    <2>. QED
      BY <2>2, <2>3, <2>4 DEF SiteInv
  <1>3. ASSUME NEW q \in Equipment, UpdateEquipmentTopology(i, q)
        PROVE  SiteInv'
    <2>1. [sites[i] EXCEPT !.equipment = q] \in Site
      BY <1>0 DEF Site
    <2>2. SiteTypeOK'
      <3>1. /\ Replace(i, [sites[i] EXCEPT !.equipment = q]) /\ topologyVersion' \in Nat
            /\ overridden' = overridden
        BY <1>0, <1>3 DEF UpdateEquipmentTopology
      <3>2. [sites[i] EXCEPT !.equipment = q].slug = sites[i].slug
        BY <1>0 DEF Site
      <3>. QED
        BY <2>1, <3>1, <3>2, ReplaceKeeps DEF SiteInv, SiteTypeOK
    <2>3. /\ sites' = [sites EXCEPT ![i] = [sites[i] EXCEPT !.equipment = q]]
          /\ reader' = reader /\ topologyVersion' = topologyVersion
      BY <1>3 DEF UpdateEquipmentTopology, Replace
    <2>4. VersionCovers'
      <3>1. sites \in Seq(Site) /\ DOMAIN sites' = DOMAIN sites /\ Len(sites') = Len(sites)
        BY <2>1, <2>3 DEF SiteInv, SiteTypeOK
      <3>2. \A e : \A j \in DOMAIN sites :
              [sites'[j] EXCEPT !.equipment = e] = [sites[j] EXCEPT !.equipment = e]
        BY <1>0, <2>3, <3>1 DEF Site
      <3>. QED
        BY <2>3, <3>1, <3>2 DEF SiteInv, VersionCovers
    <2>5. OverridesInSites'
      BY <1>0, <1>3, <2>1 DEF SiteInv, SiteTypeOK, OverridesInSites, UpdateEquipmentTopology,
             Replace, Site
    <2>. QED
      BY <2>2, <2>4, <2>5 DEF SiteInv
  <1>4. ASSUME NEW overrides \in Flags, SetFeatureFlagOverrides(i, overrides)
        PROVE  SiteInv'
    <2>. DEFINE flags == Spread(overrides, sites[i].flags)
    <2>1. flags \in Flags
      BY <1>0, SpreadType DEF Flags, Site
    <2>2. [sites[i] EXCEPT !.flags = flags] \in Site
      BY <1>0, <2>1 DEF Site
    <2>3. /\ Replace(i, [sites[i] EXCEPT !.flags = flags]) /\ Counted
          /\ overridden' = [overridden EXCEPT ![i] = flags]
      BY <1>4 DEF SetFeatureFlagOverrides, SiteInv, OverridesInSites
    <2>4. SiteTypeOK'
      <3>1. overridden' \in Seq(Flags) /\ Len(overridden') = Len(overridden)
        BY <2>1, <2>3 DEF SiteInv, SiteTypeOK
      <3>. QED
        BY <1>0, <2>2, <2>3, <3>1, ReplaceKeeps DEF SiteInv, Counted, Site
    <2>5. VersionCovers'
      BY <2>3, CountedKeepsReader DEF SiteInv, Counted, Replace
    <2>6. OverridesInSites'
      BY <1>0, <2>2, <2>3 DEF SiteInv, SiteTypeOK, OverridesInSites, Replace, Site
    <2>. QED
      BY <2>4, <2>5, <2>6 DEF SiteInv
  <1>. QED
    BY <1>1, <1>2, <1>3, <1>4

\* The invariant is inductive.
LEMMA SiteStep == SiteInv /\ [SiteNext]_siteVars => SiteInv'
  <1>. SUFFICES ASSUME SiteInv, [SiteNext]_siteVars
                PROVE  SiteInv'
    OBVIOUS
  <1>1. ASSUME NEW key \in FlagKeys, NEW default \in BOOLEAN, UpsertFeatureFlag(key, default)
        PROVE  SiteInv'
    <2>1. featureFlags' \in Flags
      BY <1>1, PutType DEF UpsertFeatureFlag, SiteInv, SiteTypeOK, Flags
    <2>. QED
      BY <1>1, <2>1 DEF UpsertFeatureFlag, SiteInv, SiteTypeOK, VersionCovers, OverridesInSites
  <1>2. CASE GetFederationTopology
    <2>1. /\ UNCHANGED <<sites, slugIndex, featureFlags, topologyVersion, overridden>>
          /\ reader' = [version |-> topologyVersion, sites |-> sites,
                        defaultFeatureFlags |-> GlobalFlags]
      BY <1>2 DEF GetFederationTopology, Topology
    <2>2. SiteTypeOK'
      BY <2>1, GlobalFlagsType DEF SiteInv, SiteTypeOK
    <2>3. \A j \in DOMAIN sites : sites[j] = [sites[j] EXCEPT !.equipment = sites[j].equipment]
      <3>1. \A j \in DOMAIN sites : sites[j] \in Site
        BY DEF SiteInv, SiteTypeOK
      <3>2. \A site \in Site : site = [site EXCEPT !.equipment = site.equipment]
        BY DEF Site
      <3>. QED
        BY <3>1, <3>2
    <2>4. VersionCovers' /\ OverridesInSites'
      BY <2>1, <2>3 DEF SiteInv, SiteTypeOK, VersionCovers, OverridesInSites
    <2>. QED
      BY <2>2, <2>4 DEF SiteInv
  <1>3. CASE UNCHANGED siteVars
    BY <1>3 DEF siteVars, SiteInv, SiteTypeOK, VersionCovers, OverridesInSites
  <1>. QED
    BY <1>1, <1>2, <1>3, CreateSiteStep, UpdateSiteStep DEF SiteNext

\* The resolver gives a site's own override, and only where there is one.
LEMMA OverridesDecide == SiteInv => OverridesKept
  <1>. SUFFICES ASSUME SiteInv, NEW i \in DOMAIN sites, NEW tenantFlags \in Flags
                PROVE  LET resolved == ResolveFeatureFlags(i, tenantFlags)
                       IN /\ \A key \in DOMAIN overridden[i] :
                               key \in DOMAIN resolved
                               /\ resolved[key] = [value |-> overridden[i][key], from |-> "site"]
                          /\ \A key \in DOMAIN resolved \ DOMAIN overridden[i] :
                               resolved[key].from # "site"
    BY DEF OverridesKept
  <1>1. overridden[i] = sites[i].flags
    BY DEF SiteInv, OverridesInSites
  <1>. QED
    BY <1>1 DEF ResolveFeatureFlags, ResolveFeatureFlag

\* The types of the site registry, and that its index finds every site, for any
\* number of sites, flags and configurations.
THEOREM SitesTyped == SiteSpec => []SiteTypeOK
  <1>1. SiteInv => SiteTypeOK
    BY DEF SiteInv
  <1>. QED
    BY <1>1, SiteInitial, SiteStep, PTL DEF SiteSpec

\* For any number of sites and readings: whoever holds the current version has
\* every site with its current status, configuration and overrides.
THEOREM VersionsCover == SiteSpec => []VersionCovers
  <1>1. SiteInv => VersionCovers
    BY DEF SiteInv
  <1>. QED
    BY <1>1, SiteInitial, SiteStep, PTL DEF SiteSpec

\* A site's override decides until it is set anew.
THEOREM OverridesAreKept == SiteSpec => []OverridesKept
  BY OverridesDecide, SiteInitial, SiteStep, PTL DEF SiteSpec

(***************************************************************************)
(* Capability registry                                                     *)
(***************************************************************************)

\* A map from few keys is one from more.
LEMMA MapsOfMonotonic ==
  ASSUME NEW keys, NEW more, keys \subseteq more, NEW values, NEW map \in MapsOf(keys, values)
  PROVE  map \in MapsOf(more, values)
  BY MapsOfDef

\* What is stored, and what is deleted, among capabilities of any keys.
LEMMA CapabilityPut ==
  ASSUME NEW keys, NEW key \in keys, NEW capability \in Capability,
         capabilities \in MapsOf(keys, Capability), capabilities' = Put(capabilities, key, capability)
  PROVE  /\ capabilities' \in MapsOf(keys, Capability)
         /\ DOMAIN capabilities' = DOMAIN capabilities \union {key}
  <1>1. Put(capabilities, key, capability) \in MapsOf(keys, Capability)
    BY PutType
  <1>2. DOMAIN Put(capabilities, key, capability) = DOMAIN capabilities \union {key}
    BY DEF Put
  <1>. QED
    BY <1>1, <1>2

LEMMA CapabilityDelete ==
  ASSUME NEW keys, NEW key, capabilities \in MapsOf(keys, Capability),
         capabilities' = Delete(capabilities, key)
  PROVE  /\ capabilities' \in MapsOf(keys, Capability)
         /\ DOMAIN capabilities' = DOMAIN capabilities \ {key}
  <1>1. Delete(capabilities, key) \in MapsOf(keys, Capability)
    BY DeleteType
  <1>2. DOMAIN Delete(capabilities, key) = DOMAIN capabilities \ {key}
    BY DEF Delete
  <1>. QED
    BY <1>1, <1>2

\* What is stored for a known capability.
LEMMA StoreType ==
  ASSUME NEW id \in 1..installs, NEW capability \in Capability,
         capabilities \in MapsOf(1..installs, Capability), Store(id, capability)
  PROVE  /\ capabilities' \in MapsOf(1..installs, Capability)
         /\ DOMAIN capabilities' = DOMAIN capabilities \union {id}
  BY CapabilityPut, Zenon DEF Store

\* A capability the registry holds is one.
LEMMA HeldType ==
  ASSUME CapabilityTypeOK, NEW id \in DOMAIN capabilities
  PROVE  id \in 1..installs /\ capabilities[id] \in Capability
  BY MapsOfDef DEF CapabilityTypeOK

\* Every step keeps the types, and what is gone stays gone.
LEMMA InstallStep ==
  ASSUME CapabilityTypeOK, NEW name \in CapabilityNames, NEW version \in Versions,
         NEW force \in BOOLEAN, NEW auto \in BOOLEAN,
         InstallCapability(name, version, force, auto)
  PROVE  CapabilityTypeOK' /\ \A id \in 1..installs : Gone(id) => Gone(id)'
  <1>. DEFINE capability == [name |-> name, version |-> version, isHealthy |-> TRUE,
                             status |-> IF auto THEN "enabled" ELSE "installed"]
  <1>1. capability \in Capability
    BY DEF Capability, CapabilityStatus
  <1>2. /\ installs \in Nat /\ installs' = installs + 1 /\ enables' = enables
        /\ capabilities' = Put(capabilities, installs + 1, capability) /\ healthChecks' = healthChecks
    BY DEF InstallCapability, Store, CapabilityTypeOK
  <1>3. capabilities \in MapsOf(1..installs', Capability)
    BY <1>2, MapsOfMonotonic DEF CapabilityTypeOK
  <1>4. /\ capabilities' \in MapsOf(1..installs', Capability)
        /\ DOMAIN capabilities' = DOMAIN capabilities \union {installs + 1}
    <2>1. installs + 1 \in 1..installs'
      BY <1>2
    <2>. QED
      BY <1>1, <1>2, <1>3, <2>1, CapabilityPut
  <1>5. enables' \in Seq([id : 1..installs', read : Capability])
    <2>. DEFINE T == [id : 1..installs, read : Capability]
                U == [id : 1..installs', read : Capability]
    <2>1. T \subseteq U
      BY <1>2
    <2>2. enables \in Seq(T)
      BY DEF CapabilityTypeOK
    <2>. HIDE DEF T, U
    <2>3. enables \in Seq(U)
      BY <2>1, <2>2
    <2>. QED
      BY <1>2, <2>3 DEF U
  <1>6. installs' \in Nat /\ healthChecks' \subseteq DOMAIN capabilities'
    BY <1>2, <1>4 DEF CapabilityTypeOK
  <1>7. CapabilityTypeOK'
    BY <1>4, <1>5, <1>6 DEF CapabilityTypeOK
  <1>8. ASSUME NEW id \in 1..installs, Gone(id)
        PROVE  Gone(id)'
    <2>1. id \in 1..installs' /\ id \notin DOMAIN capabilities'
      BY <1>2, <1>4, <1>8 DEF Gone
    <2>. QED
      BY <1>2, <1>8, <2>1 DEF Gone
  <1>. QED
    BY <1>7, <1>8

LEMMA ActivationStep ==
  ASSUME CapabilityTypeOK, DependenciesValidated
  PROVE  CapabilityTypeOK' /\ \A id \in 1..installs : Gone(id) => Gone(id)'
  <1>. DEFINE job == Head(enables)
              T == [id : 1..installs, read : Capability]
  <1>1. /\ enables \in Seq(T) /\ enables # << >> /\ enables' = Tail(enables)
        /\ Store(job.id, [job.read EXCEPT !.status = "enabled"])
        /\ healthChecks' = healthChecks /\ installs' = installs
    BY DEF DependenciesValidated, CapabilityTypeOK
  <1>2. job \in T /\ job = enables[1] /\ 1 \in DOMAIN enables
    <2>. HIDE DEF T
    <2>. QED
      BY <1>1
  <1>3. [job.read EXCEPT !.status = "enabled"] \in Capability
    BY <1>2 DEF Capability, CapabilityStatus
  <1>4. /\ capabilities' \in MapsOf(1..installs, Capability)
        /\ DOMAIN capabilities' = DOMAIN capabilities \union {job.id}
    BY <1>1, <1>2, <1>3, StoreType DEF CapabilityTypeOK
  <1>5. /\ enables' \in Seq(T)
        /\ \A i \in DOMAIN enables' : enables'[i] = enables[i + 1] /\ i + 1 \in DOMAIN enables
    BY <1>1
  <1>6. CapabilityTypeOK'
    BY <1>1, <1>4, <1>5 DEF CapabilityTypeOK
  <1>7. ASSUME NEW id \in 1..installs, Gone(id)
        PROVE  Gone(id)'
    <2>1. id # job.id
      BY <1>2, <1>7 DEF Gone
    <2>2. id \in 1..installs' \ DOMAIN capabilities'
      BY <1>1, <1>4, <1>7, <2>1 DEF Gone
    <2>3. \A i \in DOMAIN enables' : enables'[i].id # id
      BY <1>5, <1>7 DEF Gone
    <2>. QED
      BY <2>2, <2>3 DEF Gone
  <1>. QED
    BY <1>6, <1>7

\* The operations on a capability the registry holds.
LEMMA HeldStep ==
  ASSUME CapabilityTypeOK, NEW id \in 1..installs,
         \/ \E version \in Versions, restart \in BOOLEAN : UpdateCapability(id, version, restart)
         \/ EnableCapability(id)
         \/ DisableCapability(id)
         \/ UninstallCapability(id)
         \/ \E isHealthy \in BOOLEAN : CheckCapabilityHealth(id, isHealthy)
  PROVE  CapabilityTypeOK' /\ \A x \in 1..installs : Gone(x) => Gone(x)'
  <1>0. id \in DOMAIN capabilities => capabilities[id] \in Capability
    BY HeldType
  <1>1. ASSUME NEW version \in Versions, NEW restart \in BOOLEAN, UpdateCapability(id, version, restart)
        PROVE  CapabilityTypeOK' /\ \A x \in 1..installs : Gone(x) => Gone(x)'
    <2>. DEFINE status == capabilities[id].status
                updated == [capabilities[id] EXCEPT
                              !.version = version,
                              !.status = IF restart /\ status = "enabled" THEN "updating" ELSE status]
    <2>1. id \in DOMAIN capabilities /\ Store(id, updated)
          /\ healthChecks' = healthChecks /\ installs' = installs /\ enables' = enables
      BY <1>1 DEF UpdateCapability
    <2>2. updated \in Capability
      BY <1>0, <2>1 DEF Capability, CapabilityStatus
    <2>3. /\ capabilities' \in MapsOf(1..installs, Capability)
          /\ DOMAIN capabilities' = DOMAIN capabilities
      BY <2>1, <2>2, StoreType DEF CapabilityTypeOK
    <2>. QED
      BY <2>1, <2>3 DEF CapabilityTypeOK, Gone
  <1>2. CASE EnableCapability(id)
    <2>1. /\ id \in DOMAIN capabilities /\ enables' = Append(enables, [id |-> id, read |-> capabilities[id]])
          /\ capabilities' = capabilities /\ healthChecks' = healthChecks /\ installs' = installs
      BY <1>2 DEF EnableCapability
    <2>2. [id |-> id, read |-> capabilities[id]] \in [id : 1..installs, read : Capability]
      BY <1>0, <2>1
    <2>3. enables \in Seq([id : 1..installs, read : Capability])
      BY DEF CapabilityTypeOK
    <2>4. /\ enables' \in Seq([id : 1..installs, read : Capability])
          /\ \A i \in DOMAIN enables' : \/ i \in DOMAIN enables /\ enables'[i] = enables[i]
                                       \/ enables'[i].id = id
      BY <2>1, <2>2, <2>3
    <2>. QED
      BY <2>1, <2>4 DEF CapabilityTypeOK, Gone
  <1>3. CASE DisableCapability(id)
    <2>1. id \in DOMAIN capabilities /\ Store(id, [capabilities[id] EXCEPT !.status = "disabled"])
          /\ healthChecks' = healthChecks /\ installs' = installs /\ enables' = enables
      BY <1>3 DEF DisableCapability
    <2>2. [capabilities[id] EXCEPT !.status = "disabled"] \in Capability
      BY <1>0, <2>1 DEF Capability, CapabilityStatus
    <2>3. /\ capabilities' \in MapsOf(1..installs, Capability)
          /\ DOMAIN capabilities' = DOMAIN capabilities
      BY <2>1, <2>2, StoreType DEF CapabilityTypeOK
    <2>. QED
      BY <2>1, <2>3 DEF CapabilityTypeOK, Gone
  <1>4. CASE UninstallCapability(id)
    <2>1. /\ capabilities' \in MapsOf(1..installs, Capability)
          /\ DOMAIN capabilities' = DOMAIN capabilities \ {id}
      BY <1>4, CapabilityDelete DEF UninstallCapability, CapabilityTypeOK
    <2>. QED
      BY <1>4, <2>1 DEF UninstallCapability, CapabilityTypeOK, Gone
  <1>5. ASSUME NEW isHealthy \in BOOLEAN, CheckCapabilityHealth(id, isHealthy)
        PROVE  CapabilityTypeOK' /\ \A x \in 1..installs : Gone(x) => Gone(x)'
    <2>1. id \in DOMAIN capabilities /\ Store(id, [capabilities[id] EXCEPT !.isHealthy = isHealthy])
          /\ healthChecks' = healthChecks \union {id} /\ installs' = installs /\ enables' = enables
      BY <1>5 DEF CheckCapabilityHealth
    <2>2. [capabilities[id] EXCEPT !.isHealthy = isHealthy] \in Capability
      BY <1>0, <2>1 DEF Capability
    <2>3. /\ capabilities' \in MapsOf(1..installs, Capability)
          /\ DOMAIN capabilities' = DOMAIN capabilities
      BY <2>1, <2>2, StoreType DEF CapabilityTypeOK
    <2>. QED
      BY <2>1, <2>3 DEF CapabilityTypeOK, Gone
  <1>. QED
    BY <1>1, <1>2, <1>3, <1>4, <1>5

LEMMA CapabilityStep ==
  CapabilityTypeOK /\ [CapabilityNext]_capabilityVars
    => CapabilityTypeOK' /\ [\A id \in 1..installs : Gone(id) => Gone(id)']_capabilityVars
  <1>. SUFFICES ASSUME CapabilityTypeOK, [CapabilityNext]_capabilityVars
                PROVE  CapabilityTypeOK' /\ [\A id \in 1..installs : Gone(id) => Gone(id)']_capabilityVars
    OBVIOUS
  <1>1. CASE CapabilityNext
    BY <1>1, InstallStep, HeldStep, ActivationStep DEF CapabilityNext
  <1>2. CASE UNCHANGED capabilityVars
    BY <1>2 DEF capabilityVars, CapabilityTypeOK
  <1>. QED
    BY <1>1, <1>2

LEMMA CapabilityInitial == CapabilityInit => CapabilityTypeOK
  BY EmptyMapType DEF CapabilityInit, CapabilityTypeOK

\* The types of the capability registry; a health check is of a capability it
\* holds.
THEOREM CapabilitiesTyped == CapabilitySpec => []CapabilityTypeOK
  BY CapabilityInitial, CapabilityStep, PTL DEF CapabilitySpec

\* Uninstalling is final, for any number of installations and overlapping
\* activations.
THEOREM UninstallIsFinal == CapabilitySpec => UninstallHolds
  BY CapabilityInitial, CapabilityStep, PTL DEF CapabilitySpec, UninstallHolds

(***************************************************************************)
(* Topic contracts                                                         *)
(***************************************************************************)

\* Compatibility is transitive: of versions, the lexicographic order; of
\* schemas, because a major version in between is the same one.
LEMMA CompatibleTransitive ==
  ASSUME NEW a \in Contract, NEW b \in Contract, NEW c \in Contract,
         Compatible(a, b), Compatible(b, c)
  PROVE  Compatible(a, c)
  <1>. DEFINE Version == [major : Nat \ {0}, minor : Nat, patch : Nat]
  <1>1. a.version \in Version /\ b.version \in Version /\ c.version \in Version
    BY DEF Contract
  <1>2. ~OlderVersion(c.version, a.version)
    BY <1>1 DEF Compatible, OlderVersion
  <1>3. a.version.major = c.version.major => a.version.major = b.version.major
    BY <1>1 DEF Compatible, OlderVersion
  <1>. QED
    BY <1>2, <1>3 DEF Compatible

\* The contracts a topic has had, each compatible with those before it.
ChainCompatible ==
  \A topic \in DOMAIN past : \A i, j \in DOMAIN past[topic] :
    i < j => Compatible(past[topic][i], past[topic][j])

\* What a service registered at tier T1, and the contracts there were.
OpenedCompatible ==
  tier = "T1" =>
    \A o \in opened : \A r \in o.registrations :
      IsSafetyCriticalTopic(r.topic) =>
        \A i \in DOMAIN o.seen[r.topic] : Compatible(o.seen[r.topic][i], r)

BrokerInv == BrokerTypeOK /\ ChainCompatible /\ OpenedCompatible

\* What is compatible with the current contract is so with all before it.
LEMMA CurrentSpeaksForAll ==
  ASSUME BrokerTypeOK, ChainCompatible, NEW topic \in DOMAIN past, NEW next \in Contracts,
         Compatible(Current(topic), next), NEW i \in DOMAIN past[topic]
  PROVE  Compatible(past[topic][i], next)
  <1>. DEFINE contracts == past[topic]
              n == Len(contracts)
  <1>1. contracts \in Seq(Contracts) /\ contracts # << >>
    BY DEF BrokerTypeOK
  <1>2. n \in Nat /\ n \in DOMAIN contracts /\ DOMAIN contracts = 1..n
    BY <1>1
  <1>3. contracts[i] \in Contract /\ contracts[n] \in Contract /\ next \in Contract
    BY <1>1, <1>2, ContractTypes
  <1>4. CASE i = n
    BY <1>4 DEF Current
  <1>5. CASE i # n
    <2>1. i < n
      BY <1>2, <1>5
    <2>2. Compatible(contracts[i], contracts[n])
      BY <1>2, <2>1 DEF ChainCompatible
    <2>. QED
      BY <1>3, <2>2, CompatibleTransitive DEF Current
  <1>. QED
    BY <1>4, <1>5

LEMMA BrokerInitial == BrokerInit => BrokerInv
  <1>. SUFFICES ASSUME BrokerInit
                PROVE  BrokerInv
    OBVIOUS
  <1>1. ASSUME NEW topic \in DOMAIN past
        PROVE  \E c \in Catalogue : c.topic = topic /\ past[topic] = <<c>>
    <2>1. \E c \in Catalogue : c.topic = topic
      BY <1>1 DEF BrokerInit
    <2>. QED
      BY <1>1, <2>1 DEF BrokerInit
  <1>2. ASSUME NEW topic \in DOMAIN past
        PROVE  /\ past[topic] \in Seq(Contracts) /\ past[topic] # << >>
               /\ DOMAIN past[topic] = {1} /\ past[topic][1].topic = topic
    <2>1. PICK c \in Catalogue : c.topic = topic /\ past[topic] = <<c>>
      BY <1>1, <1>2
    <2>2. c \in Contracts
      BY ContractTypes
    <2>. QED
      BY <2>1, <2>2
  <1>3. BrokerTypeOK
    <2>1. \A topic \in DOMAIN past : past[topic] \in Seq(Contracts) /\ past[topic] # << >>
      BY <1>2
    <2>2. \A topic \in DOMAIN past : \A i \in DOMAIN past[topic] : past[topic][i].topic = topic
      BY <1>2
    <2>3. tier \in SiteTier /\ tierPolicy \in TierPolicies /\ aclRules \in AclRuleLists /\ opened = {}
      BY DEF BrokerInit
    <2>. QED
      BY <2>1, <2>2, <2>3 DEF BrokerTypeOK
  <1>4. ChainCompatible
    BY <1>2 DEF ChainCompatible
  <1>. QED
    BY <1>3, <1>4 DEF BrokerInit, BrokerInv, OpenedCompatible

\* An upgrade.
LEMMA UpgradeStep ==
  ASSUME BrokerInv, NEW next \in Contracts, UpgradeContract(next)
  PROVE  BrokerInv'
  <1>. DEFINE t == next.topic
              n == Len(past[t])
  <1>1. /\ t \in DOMAIN past /\ past[t] \in Seq(Contracts) /\ past[t] # << >>
        /\ n \in Nat /\ n # 0 /\ DOMAIN past[t] = 1..n
    BY DEF UpgradeContract, BrokerInv, BrokerTypeOK
  <1>2. /\ DOMAIN past' = DOMAIN past /\ past'[t] = Append(past[t], next)
        /\ \A topic \in DOMAIN past : topic # t => past'[topic] = past[topic]
        /\ UNCHANGED <<tier, tierPolicy, aclRules, opened>>
    BY <1>1 DEF UpgradeContract
  <1>3. /\ past'[t] \in Seq(Contracts) /\ past'[t] # << >> /\ DOMAIN past'[t] = 1..(n + 1)
        /\ past'[t][n + 1] = next /\ \A i \in 1..n : past'[t][i] = past[t][i]
    BY <1>1, <1>2
  <1>4. BrokerTypeOK'
    <2>1. ASSUME NEW topic \in DOMAIN past
          PROVE  /\ past'[topic] \in Seq(Contracts) /\ past'[topic] # << >>
                 /\ \A i \in DOMAIN past'[topic] : past'[topic][i].topic = topic
      <3>1. CASE topic = t
        <4>1. \A i \in 1..n : past[t][i].topic = t
          BY <1>1 DEF BrokerInv, BrokerTypeOK
        <4>2. \A i \in 1..(n + 1) : i \in 1..n \/ i = n + 1
          BY <1>1
        <4>. QED
          BY <3>1, <1>3, <4>1, <4>2
      <3>2. CASE topic # t
        BY <2>1, <3>2, <1>2 DEF BrokerInv, BrokerTypeOK
      <3>. QED
        BY <3>1, <3>2
    <2>. QED
      BY <1>2, <2>1 DEF BrokerInv, BrokerTypeOK
  <1>5. ChainCompatible'
    <2>. SUFFICES ASSUME NEW topic \in DOMAIN past, NEW i \in DOMAIN past'[topic],
                         NEW j \in DOMAIN past'[topic], i < j
                  PROVE  Compatible(past'[topic][i], past'[topic][j])
      BY <1>2 DEF ChainCompatible
    <2>1. CASE topic # t
      BY <2>1, <1>2 DEF BrokerInv, ChainCompatible
    <2>2. CASE topic = t
      <3>1. i \in 1..n /\ (j \in 1..n \/ j = n + 1)
        BY <2>2, <1>1, <1>3
      <3>2. CASE j \in 1..n
        BY <2>2, <3>1, <3>2, <1>1, <1>3 DEF BrokerInv, ChainCompatible
      <3>3. CASE j = n + 1
        <4>1. Compatible(Current(t), next)
          BY DEF UpgradeContract
        <4>2. Compatible(past[t][i], next)
          BY <1>1, <3>1, <4>1, CurrentSpeaksForAll DEF BrokerInv
        <4>. QED
          BY <2>2, <3>1, <3>3, <4>2, <1>3
      <3>. QED
        BY <3>1, <3>2, <3>3
    <2>. QED
      BY <2>1, <2>2
  <1>6. OpenedCompatible'
    BY <1>2 DEF BrokerInv, OpenedCompatible
  <1>. QED
    BY <1>4, <1>5, <1>6 DEF BrokerInv

\* A service that opens its connections.
LEMMA OpenStep ==
  ASSUME BrokerInv, NEW service \in BrokerServices, NEW r \in Contracts, NEW access,
         OpenConnections(service, {r}, {access})
  PROVE  BrokerInv'
  <1>. DEFINE o == [service |-> service, registrations |-> {r}, accesses |-> {access}, seen |-> past]
  <1>1. opened' = opened \union {o} /\ UNCHANGED <<past, tier, tierPolicy, aclRules>>
    BY DEF OpenConnections
  <1>2. BrokerTypeOK'
    BY <1>1 DEF BrokerInv, BrokerTypeOK
  <1>3. ChainCompatible'
    BY <1>1 DEF BrokerInv, ChainCompatible
  <1>4. ASSUME tier = "T1", IsSafetyCriticalTopic(r.topic), NEW i \in DOMAIN past[r.topic]
        PROVE  Compatible(past[r.topic][i], r)
    <2>1. Severity(r) = "error"
      BY <1>4 DEF Severity
    <2>2. Conforms(r)
      BY <2>1 DEF OpenConnections, PassesGuard
    <2>. QED
      BY <1>4, <2>2, CurrentSpeaksForAll DEF Conforms, BrokerInv
  <1>5. OpenedCompatible'
    BY <1>1, <1>4 DEF BrokerInv, OpenedCompatible
  <1>. QED
    BY <1>2, <1>3, <1>5 DEF BrokerInv

LEMMA BrokerStep == BrokerInv /\ [BrokerNext]_brokerVars => BrokerInv'
  <1>1. BrokerInv /\ UNCHANGED brokerVars => BrokerInv'
    BY DEF brokerVars, BrokerInv, BrokerTypeOK, ChainCompatible, OpenedCompatible
  <1>. QED
    BY <1>1, UpgradeStep, OpenStep DEF BrokerNext

\* Types of the broker's contracts, rules and connections.
THEOREM BrokerTyped == BrokerSpec => []BrokerTypeOK
  <1>1. BrokerInv => BrokerTypeOK
    BY DEF BrokerInv
  <1>. QED
    BY <1>1, BrokerInitial, BrokerStep, PTL DEF BrokerSpec

\* However long the chain of upgrades, a contract is compatible with every one
\* its topic has had, and so is what a service at tier T1 opens with.
THEOREM ContractsCompatible == BrokerSpec => []CompatibleWithOrigin
  <1>1. BrokerInv => CompatibleWithOrigin
    BY DEF BrokerInv, CompatibleWithOrigin, ChainCompatible, OpenedCompatible
  <1>. QED
    BY <1>1, BrokerInitial, BrokerStep, PTL DEF BrokerSpec

\* A segment of a pattern that stands for one segment of a topic.
SegmentMatches(pattern, topic, i) ==
  pattern[i] # "#" /\ topic[i] # "" /\ (pattern[i] = "+" \/ pattern[i] = topic[i])

LEMMA NotEnding ==
  ASSUME NEW pattern \in Seq(STRING), NEW topic \in Seq(STRING), NEW i \in DOMAIN pattern
  PROVE  i \notin Ending(pattern, topic) <=> SegmentMatches(pattern, topic, i) /\ i <= Len(topic)
  <1>1. i \in Nat /\ Len(topic) \in Nat
    OBVIOUS
  <1>2. i \in Ending(pattern, topic) <=>
          \/ pattern[i] = "#"
          \/ i > Len(topic) \/ topic[i] = "" \/ pattern[i] \notin {"+", topic[i]}
    BY DEF Ending
  <1>3. ~(i > Len(topic)) <=> i <= Len(topic)
    BY <1>1
  <1>. QED
    BY <1>2, <1>3, Zenon DEF SegmentMatches

\* The loop over the segments of an MQTT pattern matches what the pattern covers.
LEMMA SparkplugMatchIsCover ==
  ASSUME NEW rule \in AclRule, ValidRule(rule), rule.backend = "mqtt-sparkplug",
         NEW topic \in Seq(STRING)
  PROVE  MatchesSparkplugTopicPattern(rule.topicPattern, topic) <=> Covers(rule, topic)
  <1>0. PICK pattern \in Seq(STRING) : pattern = rule.topicPattern
    BY DEF AclRule
  <1>1. PICK n \in Nat : n = Len(pattern)
    BY <1>0
  <1>2. PICK m \in Nat : m = Len(topic)
    OBVIOUS
  <1>3. n > 1 /\ DOMAIN pattern = 1..n
    BY <1>0, <1>1 DEF ValidRule
  <1>4. PICK ending : ending = Ending(pattern, topic)
    OBVIOUS
  <1>5. ending \subseteq 1..n
    BY <1>3, <1>4 DEF Ending
  <1>6. \A i \in 1..n : i \notin ending <=> SegmentMatches(pattern, topic, i) /\ i <= m
    BY <1>2, <1>3, <1>4, NotEnding
  <1>7. MatchesSparkplugTopicPattern(rule.topicPattern, topic) <=>
          \/ ending = {} /\ m = n
          \/ n \in ending /\ (\A j \in ending : n <= j) /\ pattern[n] = "#"
    BY <1>0, <1>1, <1>2, <1>4 DEF MatchesSparkplugTopicPattern
  <1>8. /\ pattern[n] = "#" =>
             (Covers(rule, topic) <=>
                m >= n - 1 /\ \A i \in 1..(n - 1) : SegmentMatches(pattern, topic, i))
        /\ pattern[n] # "#" =>
             (Covers(rule, topic) <=>
                m = n /\ \A i \in 1..n : SegmentMatches(pattern, topic, i))
    BY <1>0, <1>1, <1>2 DEF Covers, SegmentMatches
  <1>9. pattern[n] = "#" => n \in ending
    <2>1. n \in 1..n
      BY <1>3
    <2>. QED
      BY <1>6, <2>1, Zenon DEF SegmentMatches
  <1>10. \A i \in 1..(n - 1) : i \in 1..n /\ ~(n <= i)
    BY <1>3
  <1>11. CASE pattern[n] = "#"
    <2>1. ending # {}
      BY <1>9, <1>11
    <2>2. (\A j \in ending : n <= j) <=> \A i \in 1..(n - 1) : i \notin ending
      BY <1>3, <1>5
    <2>3. (\A i \in 1..(n - 1) : i \notin ending) <=>
            m >= n - 1 /\ \A i \in 1..(n - 1) : SegmentMatches(pattern, topic, i)
      <3>1. ASSUME \A i \in 1..(n - 1) : i \notin ending
            PROVE  m >= n - 1
        <4>1. n - 1 \in 1..(n - 1) /\ n - 1 \in 1..n
          BY <1>3
        <4>. QED
          BY <3>1, <4>1, <1>6
      <3>2. m >= n - 1 => \A i \in 1..(n - 1) : i <= m
        BY <1>3
      <3>. QED
        BY <1>6, <1>10, <3>1, <3>2
    <2>. QED
      BY <1>7, <1>8, <1>9, <1>11, <2>1, <2>2, <2>3
  <1>12. CASE pattern[n] # "#"
    <2>1. ASSUME Covers(rule, topic)
          PROVE  ending = {}
      <3>1. m = n /\ \A i \in 1..n : SegmentMatches(pattern, topic, i)
        BY <1>8, <1>12, <2>1
      <3>2. \A i \in 1..n : i <= m
        BY <3>1
      <3>. QED
        BY <1>5, <1>6, <3>1, <3>2
    <2>2. ending = {} => \A i \in 1..n : SegmentMatches(pattern, topic, i)
      BY <1>6
    <2>. QED
      BY <1>7, <1>8, <1>12, <2>1, <2>2
  <1>. QED
    BY <1>11, <1>12

LEMMA RuleMatchIsCover ==
  ASSUME NEW rule \in AclRule, ValidRule(rule), NEW topic \in Seq(STRING)
  PROVE  MatchesRuleTopicPattern(rule, topic) <=> Covers(rule, topic)
  <1>1. CASE rule.backend = "mqtt-sparkplug"
    BY <1>1, SparkplugMatchIsCover DEF MatchesRuleTopicPattern
  <1>2. CASE rule.backend = "kafka-redpanda"
    <2>1. /\ rule.topicPattern \in Seq(STRING)
          /\ DOMAIN rule.topicPattern = 1..Len(rule.topicPattern)
          /\ DOMAIN topic = 1..Len(topic)
          /\ Len(topic) \in Nat /\ Len(rule.topicPattern) \in Nat
      BY DEF AclRule
    <2>2. Len(rule.topicPattern) = Len(topic) <=> DOMAIN topic = 1..Len(rule.topicPattern)
      BY <2>1
    <2>. QED
      BY <1>2, <2>1, <2>2 DEF MatchesRuleTopicPattern, MatchesKafkaTopicPattern, Covers
  <1>. QED
    BY <1>1, <1>2 DEF AclRule, Backend

\* What is authorized, and stays so for the connections that were opened.
AuthorizedOnceOpened ==
  /\ aclRules \in AclRuleLists
  /\ \A o \in opened : \A access \in o.accesses : Authorized(access)

LEMMA AccessStep == AuthorizedOnceOpened /\ [BrokerNext]_brokerVars => AuthorizedOnceOpened'
  <1>. SUFFICES ASSUME AuthorizedOnceOpened, [BrokerNext]_brokerVars
                PROVE  AuthorizedOnceOpened'
    OBVIOUS
  <1>1. aclRules' = aclRules
    BY DEF BrokerNext, UpgradeContract, OpenConnections, brokerVars
  <1>2. \A access : Authorized(access) => Authorized(access)'
    BY <1>1 DEF Authorized
  <1>3. CASE \E service \in BrokerServices, r \in Contracts, access \in BrokerAccesses :
               OpenConnections(service, {r}, {access})
    <2>1. PICK service \in BrokerServices, r \in Contracts, access \in BrokerAccesses :
            OpenConnections(service, {r}, {access})
      BY <1>3
    <2>2. Authorized(access)
      BY <2>1 DEF OpenConnections
    <2>3. \A o \in opened' : o \in opened \/ o.accesses = {access}
      BY <2>1 DEF OpenConnections
    <2>. QED
      BY <1>1, <1>2, <2>2, <2>3 DEF AuthorizedOnceOpened
  <1>4. CASE opened' = opened
    BY <1>1, <1>2, <1>4 DEF AuthorizedOnceOpened
  <1>. QED
    BY <1>3, <1>4 DEF BrokerNext, UpgradeContract, brokerVars

\* For topics, patterns and lists of rules of any length: an access is
\* authorized exactly when a rule of its principal covers it, and no connection
\* that was opened is refused what it announced.
THEOREM AccessesAgree == BrokerSpec => []AccessAgrees
  <1>1. BrokerInit => AuthorizedOnceOpened
    BY DEF BrokerInit, AuthorizedOnceOpened
  <1>2. AuthorizedOnceOpened => AccessAgrees
    <2>. SUFFICES ASSUME AuthorizedOnceOpened, NEW access \in BrokerAccesses
                  PROVE  Authorized(access) <=>
                           /\ ValidTopic(access.backend, access.topic)
                           /\ \E i \in DOMAIN aclRules :
                                /\ ValidRule(aclRules[i]) /\ Covers(aclRules[i], access.topic)
                                /\ aclRules[i].backend = access.backend
                                /\ aclRules[i].operation = access.operation
                                /\ aclRules[i].principal = access.principal
      BY DEF AccessAgrees, AuthorizedOnceOpened
    <2>1. aclRules \in Seq(AclRule) /\ access.topic \in Seq(STRING)
      BY AccessTypes DEF AuthorizedOnceOpened, BrokerAccess
    <2>2. \A i \in DOMAIN aclRules :
            ValidRule(aclRules[i]) =>
              (MatchesRuleTopicPattern(aclRules[i], access.topic)
                 <=> Covers(aclRules[i], access.topic))
      <3>. SUFFICES ASSUME NEW i \in DOMAIN aclRules, ValidRule(aclRules[i])
                    PROVE  MatchesRuleTopicPattern(aclRules[i], access.topic)
                             <=> Covers(aclRules[i], access.topic)
        OBVIOUS
      <3>1. aclRules[i] \in AclRule
        BY <2>1
      <3>. QED
        BY <2>1, <3>1, RuleMatchIsCover
    <2>. QED
      BY <2>2 DEF Authorized, RuleFor
  <1>. QED
    BY <1>1, <1>2, AccessStep, PTL DEF BrokerSpec

(***************************************************************************)
(* Digital twins                                                           *)
(***************************************************************************)

\* What an operation past its await carries.
TwinJob ==
  [kind : {"delete", "simulate", "latest", "run"}, id : 1..created]
    \union [kind : {"update"}, id : 1..created, twin : TwinAssets]
    \union [kind : {"ingest"}, id : 1..created, reading : Readings]

\* A history is what it should be for a list of accepted readings.
Accounts(history, readings) ==
  LET total == Len(readings)
  IN /\ Len(history) = (IF total < HistoryLimit THEN total ELSE HistoryLimit)
     /\ \A i \in DOMAIN history :
          LET place == total - Len(history) + i
          IN /\ history[i].reading = readings[place]
             /\ history[i].version = (IF place <= HistoryLimit THEN place ELSE HistoryLimit + 1)

\* One more reading: the state that is appended gets the next version, and the
\* oldest one goes when there are too many.
LEMMA IngestAccounts ==
  ASSUME NEW history \in Seq(TwinState), NEW readings \in Seq(Readings),
         Accounts(history, readings), NEW reading \in Readings
  PROVE  LET nextState == [reading |-> reading, version |-> Len(history) + 1]
             next == LastOf(Append(history, nextState), HistoryLimit)
         IN next \in Seq(TwinState) /\ Accounts(next, Append(readings, reading))
  <1>. DEFINE n == Len(history)
              total == Len(readings)
              nextState == [reading |-> reading, version |-> n + 1]
              longer == Append(history, nextState)
              next == LastOf(longer, HistoryLimit)
              more == Append(readings, reading)
  <1>0. /\ n \in Nat /\ DOMAIN history = 1..n /\ total \in Nat /\ DOMAIN readings = 1..total
        /\ HistoryLimit \in Nat /\ HistoryLimit # 0 /\ nextState \in TwinState
    BY HistoryBounds DEF TwinState
  <1>1. /\ longer \in Seq(TwinState) /\ Len(longer) = n + 1 /\ longer[n + 1] = nextState
        /\ \A i \in 1..n : longer[i] = history[i]
    BY <1>0
  <1>2. /\ more \in Seq(Readings) /\ Len(more) = total + 1 /\ more[total + 1] = reading
        /\ \A i \in 1..total : more[i] = readings[i]
    BY <1>0
  <1>3. n = (IF total < HistoryLimit THEN total ELSE HistoryLimit)
    BY DEF Accounts
  <1>4. \A i \in 1..n : /\ history[i].reading = readings[total - n + i]
                        /\ history[i].version = (IF total - n + i <= HistoryLimit
                                                 THEN total - n + i ELSE HistoryLimit + 1)
    BY <1>0 DEF Accounts
  <1>5. CASE total < HistoryLimit
    <2>1. n = total /\ next = longer
      BY <1>0, <1>1, <1>3, <1>5 DEF LastOf
    <2>2. \A i \in 1..(n + 1) : /\ longer[i].reading = more[i]
                                /\ longer[i].version = i
      <3>. SUFFICES ASSUME NEW i \in 1..(n + 1)
                    PROVE  longer[i].reading = more[i] /\ longer[i].version = i
        OBVIOUS
      <3>1. CASE i = n + 1
        BY <1>1, <1>2, <2>1, <3>1
      <3>2. CASE i # n + 1
        <4>1. i \in 1..n /\ total - n + i = i /\ i <= HistoryLimit
          BY <1>0, <1>5, <2>1, <3>2
        <4>2. history[i].reading = readings[i] /\ history[i].version = i
          BY <1>4, <4>1
        <4>. QED
          BY <1>1, <1>2, <2>1, <4>1, <4>2
      <3>. QED
        BY <3>1, <3>2
    <2>3. Accounts(longer, more)
      BY <1>0, <1>1, <1>2, <1>5, <2>1, <2>2 DEF Accounts
    <2>. QED
      BY <1>1, <2>1, <2>3
  <1>6. CASE ~(total < HistoryLimit)
    <2>1. n = HistoryLimit /\ next = SubSeq(longer, 2, n + 1)
      <3>1. n = HistoryLimit
        BY <1>3, <1>6
      <3>2. Len(longer) > HistoryLimit /\ Len(longer) - HistoryLimit + 1 = 2
        BY <1>0, <1>1, <3>1
      <3>3. next = SubSeq(longer, Len(longer) - HistoryLimit + 1, Len(longer))
        BY <3>2 DEF LastOf
      <3>. HIDE DEF longer, next
      <3>. QED
        BY <1>1, <3>1, <3>2, <3>3
    <2>2. /\ next \in Seq(TwinState) /\ Len(next) = n /\ DOMAIN next = 1..n
          /\ \A i \in 1..n : next[i] = longer[i + 1]
      <3>. HIDE DEF longer, next
      <3>1. \A i \in 2..(n + 1) : longer[i] \in TwinState
        BY <1>0, <1>1
      <3>2. n \in Int /\ 2 \in Int /\ n + 1 \in Int /\ 2 <= n + 1
        BY <1>0, <2>1
      <3>3. /\ SubSeq(longer, 2, n + 1) \in Seq(TwinState)
            /\ Len(SubSeq(longer, 2, n + 1)) = n + 1 - 2 + 1
            /\ \A i \in 1..(n + 1 - 2 + 1) : SubSeq(longer, 2, n + 1)[i] = longer[2 + i - 1]
        BY <3>1, <3>2, SubSeqProperties
      <3>. QED
        BY <1>0, <2>1, <3>3
    <2>3. \A i \in 1..n : /\ next[i].reading = more[total + 1 - n + i]
                          /\ next[i].version = (IF total + 1 - n + i <= HistoryLimit
                                                THEN total + 1 - n + i ELSE HistoryLimit + 1)
      <3>. SUFFICES ASSUME NEW i \in 1..n
                    PROVE  /\ next[i].reading = more[total + 1 - n + i]
                           /\ next[i].version = (IF total + 1 - n + i <= HistoryLimit
                                                 THEN total + 1 - n + i ELSE HistoryLimit + 1)
        OBVIOUS
      <3>1. CASE i = n
        <4>1. next[i] = nextState /\ total + 1 - n + i = total + 1 /\ ~(total + 1 <= HistoryLimit)
          BY <1>0, <1>1, <1>6, <2>2, <3>1
        <4>. QED
          BY <1>2, <2>1, <4>1
      <3>2. CASE i # n
        <4>1. /\ i \in Nat /\ i + 1 \in 1..n /\ total - n + (i + 1) = total + 1 - n + i
              /\ total + 1 - n + i \in 1..total
          BY <1>0, <1>3, <1>6, <3>2
        <4>2. next[i] = history[i + 1]
          <5>. HIDE DEF longer, next
          <5>. QED
            BY <1>1, <2>2, <4>1
        <4>3. more[total + 1 - n + i] = readings[total + 1 - n + i]
          BY <1>2, <4>1
        <4>4. /\ history[i + 1].reading = readings[total - n + (i + 1)]
              /\ history[i + 1].version = (IF total - n + (i + 1) <= HistoryLimit
                                           THEN total - n + (i + 1) ELSE HistoryLimit + 1)
          BY <1>4, <4>1
        <4>. QED
          <5>. HIDE DEF longer, next, more
          <5>. QED
            BY <4>1, <4>2, <4>3, <4>4
      <3>. QED
        BY <3>1, <3>2
    <2>4. Len(next) = (IF Len(more) < HistoryLimit THEN Len(more) ELSE HistoryLimit)
      BY <1>0, <1>2, <1>6, <2>1, <2>2
    <2>5. Len(more) - Len(next) = total + 1 - n
      <3>. HIDE DEF more, next
      <3>. QED
        BY <1>0, <1>2, <2>2
    <2>6. Accounts(next, more)
      BY <2>2, <2>3, <2>4, <2>5 DEF Accounts
    <2>. QED
      BY <2>2, <2>6
  <1>. QED
    BY <1>5, <1>6

\* A twin's history accounts for what was accepted of it.
TwinInv == TwinTypeOK /\ twinJobs \in Seq(TwinJob) /\ HistoryAccounts

LEMMA HistoriesAccounted ==
  ASSUME TwinTypeOK
  PROVE  HistoryAccounts <=> \A id \in DOMAIN stateHistory : Accounts(stateHistory[id], accepted[id])
  BY DEF TwinTypeOK, HistoryAccounts, Accounts, AcceptedOf

\* What is known of a job when it is resumed, and of the others.
LEMMA ResumedJob ==
  ASSUME twinJobs \in Seq(TwinJob), twinJobs # << >>
  PROVE  /\ Head(twinJobs) \in TwinJob /\ Head(twinJobs).id \in 1..created
         /\ Head(twinJobs).kind = "update" => Head(twinJobs).twin \in TwinAssets
         /\ Head(twinJobs).kind = "ingest" => Head(twinJobs).reading \in Readings
         /\ Tail(twinJobs) \in Seq(TwinJob)
  <1>1. Head(twinJobs) \in TwinJob /\ Tail(twinJobs) \in Seq(TwinJob)
    <2>. HIDE DEF TwinJob
    <2>. QED
      BY HeadTailProperties
  <1>. QED
    BY <1>1 DEF TwinJob

LEMMA JobAppended ==
  ASSUME NEW jobs \in Seq(TwinJob), NEW job \in TwinJob
  PROVE  Append(jobs, job) \in Seq(TwinJob)
  <1>. HIDE DEF TwinJob
  <1>. QED
    BY AppendProperties

\* A step that keeps the histories, and creates no twin.
LEMMA HistoriesKept ==
  ASSUME TwinInv, created' = created, twinCalls' \in Nat, twins' \in MapsOf(1..created, TwinAssets),
         simulations' \in Seq(SimulationRun), twinJobs' \in Seq(TwinJob),
         stateHistory' = stateHistory, accepted' = accepted
  PROVE  TwinInv'
  <1>1. TwinJob' = TwinJob /\ SimulationRun' = SimulationRun
    BY DEF TwinJob, SimulationRun
  <1>2. (twinJobs \in Seq(TwinJob))'
    BY <1>1
  <1>3. simulations' \in Seq(SimulationRun)'
    BY <1>1
  <1>4. TwinTypeOK'
    <2>1. (\A i \in DOMAIN twinJobs :
             /\ twinJobs[i].kind \in {"update", "delete", "ingest", "simulate", "latest", "run"}
             /\ twinJobs[i].id \in 1..created)'
      <3>1. \A i \in DOMAIN twinJobs' : twinJobs'[i] \in TwinJob
        <4>. HIDE DEF TwinJob
        <4>. QED
          OBVIOUS
      <3>. QED
        BY <3>1 DEF TwinJob
    <2>. QED
      BY <1>3, <2>1 DEF TwinInv, TwinTypeOK
  <1>5. HistoryAccounts'
    BY DEF TwinInv, HistoryAccounts, AcceptedOf
  <1>. QED
    BY <1>2, <1>4, <1>5 DEF TwinInv

\* A step that replaces, adds or drops one history.
LEMMA HistoriesChanged ==
  ASSUME TwinInv, created' = created, twinCalls' = twinCalls, simulations' = simulations,
         twins' \in MapsOf(1..created, TwinAssets), twinJobs' \in Seq(TwinJob),
         DOMAIN stateHistory' \subseteq 1..created, DOMAIN accepted' = DOMAIN stateHistory',
         \A id \in DOMAIN stateHistory' :
           /\ stateHistory'[id] \in Seq(TwinState) /\ accepted'[id] \in Seq(Readings)
           /\ Accounts(stateHistory'[id], accepted'[id])
  PROVE  TwinInv'
  <1>1. TwinJob' = TwinJob /\ SimulationRun' = SimulationRun
    BY DEF TwinJob, SimulationRun
  <1>2. (twinJobs \in Seq(TwinJob))'
    BY <1>1
  <1>3. simulations' \in Seq(SimulationRun)'
    BY <1>1 DEF TwinInv, TwinTypeOK
  <1>4. TwinTypeOK'
    <2>1. (\A i \in DOMAIN twinJobs :
             /\ twinJobs[i].kind \in {"update", "delete", "ingest", "simulate", "latest", "run"}
             /\ twinJobs[i].id \in 1..created)'
      <3>1. \A i \in DOMAIN twinJobs' : twinJobs'[i] \in TwinJob
        <4>. HIDE DEF TwinJob
        <4>. QED
          OBVIOUS
      <3>. QED
        BY <3>1 DEF TwinJob
    <2>. QED
      BY <1>3, <2>1 DEF TwinInv, TwinTypeOK
  <1>5. HistoryAccounts'
    BY DEF HistoryAccounts, AcceptedOf, Accounts
  <1>. QED
    BY <1>2, <1>4, <1>5 DEF TwinInv

LEMMA CreateTwinStep ==
  ASSUME TwinInv, NEW asset \in TwinAssets, CreateTwin(asset)
  PROVE  TwinInv'
  <1>1. created \in Nat /\ created' = created + 1 /\ 1..created \subseteq 1..created' /\ created' \in 1..created'
    BY DEF TwinInv, TwinTypeOK, CreateTwin
  <1>2. twins' \in MapsOf((1..created)', TwinAssets)
    <2>1. twins \in MapsOf(1..created', TwinAssets)
      BY <1>1, MapsOfMonotonic DEF TwinInv, TwinTypeOK
    <2>. QED
      BY <1>1, <2>1, PutType DEF CreateTwin
  <1>3. TwinJob \subseteq TwinJob' /\ SimulationRun \subseteq SimulationRun'
    <2>1. TwinJob \subseteq TwinJob'
      BY <1>1 DEF TwinJob
    <2>2. SimulationRun \subseteq SimulationRun'
      BY <1>1 DEF SimulationRun
    <2>. QED
      BY <2>1, <2>2
  <1>4. twinJobs' \in Seq(TwinJob') /\ simulations' \in Seq(SimulationRun')
    <2>. HIDE DEF TwinJob, SimulationRun
    <2>1. twinJobs' \in Seq(TwinJob')
      BY <1>3, SeqMonotonic DEF TwinInv, CreateTwin
    <2>2. simulations' \in Seq(SimulationRun')
      BY <1>3, SeqMonotonic DEF TwinInv, TwinTypeOK, CreateTwin
    <2>. QED
      BY <2>1, <2>2
  <1>5. (\A i \in DOMAIN twinJobs :
           /\ twinJobs[i].kind \in {"update", "delete", "ingest", "simulate", "latest", "run"}
           /\ twinJobs[i].id \in 1..created)'
    BY <1>1 DEF TwinInv, TwinTypeOK, CreateTwin
  <1>6. TwinTypeOK'
    BY <1>1, <1>2, <1>4, <1>5 DEF TwinInv, TwinTypeOK, CreateTwin
  <1>7. HistoryAccounts'
    BY DEF TwinInv, HistoryAccounts, AcceptedOf, CreateTwin
  <1>. QED
    BY <1>4, <1>6, <1>7 DEF TwinInv

LEMMA CallStep ==
  ASSUME TwinInv, NEW id \in DOMAIN twins,
         CallUpdate(id) \/ CallDelete(id) \/ CallIngest(id) \/ CallSimulate(id)
  PROVE  TwinInv'
  <1>1. id \in 1..created
    BY MapsOfDef DEF TwinInv, TwinTypeOK
  <1>2. PICK job \in TwinJob : CallTwin(id, job)
    <2>1. CASE CallUpdate(id)
      <3>1. PICK asset \in TwinAssets : CallTwin(id, [kind |-> "update", id |-> id, twin |-> asset])
        BY <2>1 DEF CallUpdate
      <3>2. [kind |-> "update", id |-> id, twin |-> asset] \in TwinJob
        BY <1>1 DEF TwinJob
      <3>. QED
        BY <3>1, <3>2
    <2>2. CASE CallIngest(id)
      <3>1. PICK reading \in Readings : CallTwin(id, [kind |-> "ingest", id |-> id, reading |-> reading])
        BY <2>2 DEF CallIngest
      <3>2. [kind |-> "ingest", id |-> id, reading |-> reading] \in TwinJob
        BY <1>1 DEF TwinJob
      <3>. QED
        BY <3>1, <3>2
    <2>3. /\ [kind |-> "delete", id |-> id] \in TwinJob
          /\ [kind |-> "simulate", id |-> id] \in TwinJob
      BY <1>1 DEF TwinJob
    <2>4. CASE CallDelete(id)
      BY <2>3, <2>4 DEF CallDelete
    <2>5. CASE CallSimulate(id)
      BY <2>3, <2>5 DEF CallSimulate
    <2>. QED
      BY <2>1, <2>2, <2>4, <2>5
  <1>3. twinJobs' \in Seq(TwinJob)
    BY <1>2, JobAppended DEF TwinInv, CallTwin
  <1>4. /\ created' = created /\ twinCalls' \in Nat /\ twins' \in MapsOf(1..created, TwinAssets)
        /\ simulations' \in Seq(SimulationRun) /\ stateHistory' = stateHistory /\ accepted' = accepted
    BY <1>2 DEF TwinInv, TwinTypeOK, CallTwin
  <1>. QED
    BY <1>3, <1>4, HistoriesKept

LEMMA IngestStep ==
  ASSUME TwinInv, IngestState
  PROVE  TwinInv'
  <1>. DEFINE id == Head(twinJobs).id
              reading == Head(twinJobs).reading
              nextState == [reading |-> reading, version |-> Len(HistoryOf(id)) + 1]
              next == LastOf(Append(HistoryOf(id), nextState), HistoryLimit)
              more == Append(AcceptedOf(id), reading)
  <1>1. /\ id \in 1..created /\ reading \in Readings /\ Tail(twinJobs) \in Seq(TwinJob)
    BY ResumedJob DEF TwinInv, IngestState, Resumed
  <1>2. /\ HistoryOf(id) \in Seq(TwinState) /\ AcceptedOf(id) \in Seq(Readings)
        /\ Accounts(HistoryOf(id), AcceptedOf(id))
    <2>1. CASE id \in DOMAIN stateHistory
      BY <2>1, HistoriesAccounted DEF TwinInv, TwinTypeOK, HistoryOf, AcceptedOf
    <2>2. CASE id \notin DOMAIN stateHistory
      <3>1. HistoryOf(id) = << >> /\ AcceptedOf(id) = << >>
        BY <2>2 DEF TwinInv, TwinTypeOK, HistoryOf, AcceptedOf
      <3>2. Accounts(<< >>, << >>)
        BY HistoryBounds DEF Accounts
      <3>3. << >> \in Seq(TwinState) /\ << >> \in Seq(Readings)
        BY EmptySeq
      <3>. QED
        <4>. HIDE DEF id
        <4>. QED
          BY <3>1, <3>2, <3>3, Zenon
    <2>. QED
      BY <2>1, <2>2
  <1>3. next \in Seq(TwinState) /\ Accounts(next, more) /\ more \in Seq(Readings)
    <2>1. more \in Seq(Readings)
      BY <1>1, <1>2, AppendProperties
    <2>. QED
      BY <1>1, <1>2, <2>1, IngestAccounts
  <1>4. stateHistory' = Put(stateHistory, id, next) /\ accepted' = Put(accepted, id, more)
    BY DEF IngestState
  <1>5. /\ DOMAIN stateHistory' = DOMAIN stateHistory \union {id}
        /\ DOMAIN accepted' = DOMAIN stateHistory'
        /\ \A k \in DOMAIN stateHistory' :
             /\ stateHistory'[k] = (IF k = id THEN next ELSE stateHistory[k])
             /\ accepted'[k] = (IF k = id THEN more ELSE accepted[k])
    <2>. HIDE DEF id, next, more
    <2>. QED
      BY <1>4 DEF TwinInv, TwinTypeOK, Put
  <1>6. \A k \in DOMAIN stateHistory' :
          /\ stateHistory'[k] \in Seq(TwinState) /\ accepted'[k] \in Seq(Readings)
          /\ Accounts(stateHistory'[k], accepted'[k])
    <2>. HIDE DEF id, next, more
    <2>1. \A k \in DOMAIN stateHistory : Accounts(stateHistory[k], accepted[k])
      BY HistoriesAccounted DEF TwinInv
    <2>2. \A k \in DOMAIN stateHistory : stateHistory[k] \in Seq(TwinState) /\ accepted[k] \in Seq(Readings)
      BY DEF TwinInv, TwinTypeOK
    <2>. QED
      BY <1>3, <1>5, <2>1, <2>2
  <1>7. DOMAIN stateHistory' \subseteq 1..created
    BY <1>1, <1>5 DEF TwinInv, TwinTypeOK
  <1>8. /\ created' = created /\ twinCalls' = twinCalls /\ simulations' = simulations
        /\ twins' \in MapsOf(1..created, TwinAssets) /\ twinJobs' \in Seq(TwinJob)
    BY <1>1 DEF TwinInv, TwinTypeOK, IngestState
  <1>. QED
    BY <1>5, <1>6, <1>7, <1>8, HistoriesChanged

LEMMA TwinDelete ==
  ASSUME NEW keys, NEW key, twins \in MapsOf(keys, TwinAssets), twins' = Delete(twins, key)
  PROVE  twins' \in MapsOf(keys, TwinAssets)
  BY DeleteType

LEMMA TwinPut ==
  ASSUME NEW keys, NEW key \in keys, NEW asset \in TwinAssets, twins \in MapsOf(keys, TwinAssets),
         twins' = Put(twins, key, asset)
  PROVE  twins' \in MapsOf(keys, TwinAssets)
  BY PutType

LEMMA DeleteStep ==
  ASSUME TwinInv, DeleteTwin
  PROVE  TwinInv'
  <1>. DEFINE id == Head(twinJobs).id
  <1>1. id \in 1..created /\ Tail(twinJobs) \in Seq(TwinJob)
    BY ResumedJob DEF TwinInv, DeleteTwin, Resumed
  <1>2. CASE HasActiveSimulation(id)
    <2>1. /\ created' = created /\ twinCalls' \in Nat /\ twins' \in MapsOf(1..created, TwinAssets)
          /\ simulations' \in Seq(SimulationRun) /\ stateHistory' = stateHistory /\ accepted' = accepted
          /\ twinJobs' \in Seq(TwinJob)
      BY <1>1, <1>2 DEF TwinInv, TwinTypeOK, DeleteTwin
    <2>. QED
      BY <2>1, HistoriesKept
  <1>3. CASE ~HasActiveSimulation(id)
    <2>1. /\ twins' = Delete(twins, id) /\ stateHistory' = Delete(stateHistory, id)
          /\ accepted' = Delete(accepted, id)
      BY <1>3 DEF DeleteTwin
    <2>2. twins' \in MapsOf(1..created, TwinAssets)
      <3>1. twins \in MapsOf(1..created, TwinAssets)
        BY DEF TwinInv, TwinTypeOK
      <3>. QED
        BY <2>1, <3>1, TwinDelete
    <2>3. /\ DOMAIN stateHistory' = DOMAIN stateHistory \ {id}
          /\ DOMAIN accepted' = DOMAIN stateHistory'
          /\ \A k \in DOMAIN stateHistory' :
               stateHistory'[k] = stateHistory[k] /\ accepted'[k] = accepted[k]
      <3>. HIDE DEF id
      <3>. QED
        BY <2>1 DEF TwinInv, TwinTypeOK, Delete
    <2>4. \A k \in DOMAIN stateHistory' :
            /\ stateHistory'[k] \in Seq(TwinState) /\ accepted'[k] \in Seq(Readings)
            /\ Accounts(stateHistory'[k], accepted'[k])
      <3>1. \A k \in DOMAIN stateHistory : Accounts(stateHistory[k], accepted[k])
        BY HistoriesAccounted DEF TwinInv
      <3>2. \A k \in DOMAIN stateHistory : stateHistory[k] \in Seq(TwinState) /\ accepted[k] \in Seq(Readings)
        BY DEF TwinInv, TwinTypeOK
      <3>. QED
        BY <2>3, <3>1, <3>2
    <2>5. /\ created' = created /\ twinCalls' = twinCalls /\ simulations' = simulations
          /\ twinJobs' \in Seq(TwinJob) /\ DOMAIN stateHistory' \subseteq 1..created
      BY <1>1, <2>3 DEF TwinInv, TwinTypeOK, DeleteTwin
    <2>. QED
      BY <2>2, <2>3, <2>4, <2>5, HistoriesChanged
  <1>. QED
    BY <1>2, <1>3

LEMMA OtherTwinStep ==
  ASSUME TwinInv, UpdateTwin \/ SimulationChecked \/ LatestStateRead \/ SimulationRuns
  PROVE  TwinInv'
  <1>. DEFINE id == Head(twinJobs).id
  <1>1. /\ id \in 1..created /\ Tail(twinJobs) \in Seq(TwinJob)
        /\ Head(twinJobs).kind = "update" => Head(twinJobs).twin \in TwinAssets
    BY ResumedJob DEF TwinInv, UpdateTwin, SimulationChecked, LatestStateRead, SimulationRuns,
           Resumed
  <1>2. created' = created /\ twinCalls' \in Nat /\ stateHistory' = stateHistory /\ accepted' = accepted
    BY DEF TwinInv, TwinTypeOK, UpdateTwin, SimulationChecked, LatestStateRead, SimulationRuns
  <1>3. twins' \in MapsOf(1..created, TwinAssets)
    <2>1. twins \in MapsOf(1..created, TwinAssets)
      BY DEF TwinInv, TwinTypeOK
    <2>2. CASE UpdateTwin
      <3>1. Head(twinJobs).twin \in TwinAssets /\ twins' = Put(twins, id, Head(twinJobs).twin)
        BY <1>1, <2>2 DEF UpdateTwin, Resumed
      <3>. QED
        BY <1>1, <2>1, <3>1, TwinPut
    <2>3. CASE ~UpdateTwin
      BY <2>1, <2>3 DEF SimulationChecked, LatestStateRead, SimulationRuns
    <2>. QED
      BY <2>2, <2>3
  <1>4. simulations' \in Seq(SimulationRun)
    <2>1. simulations \in Seq(SimulationRun)
      BY DEF TwinInv, TwinTypeOK
    <2>2. CASE SimulationRuns
      <3>1. PICK status \in {"completed", "failed"} :
              simulations' = Append(simulations, [twin |-> id, status |-> status])
        BY <2>2 DEF SimulationRuns
      <3>2. [twin |-> id, status |-> status] \in SimulationRun
        BY <1>1 DEF SimulationRun
      <3>. QED
        BY <2>1, <3>1, <3>2, AppendProperties
    <2>3. CASE ~SimulationRuns
      BY <2>1, <2>3 DEF UpdateTwin, SimulationChecked, LatestStateRead
    <2>. QED
      BY <2>2, <2>3
  <1>5. twinJobs' \in Seq(TwinJob)
    <2>1. \A kind \in {"latest", "run"} : [kind |-> kind, id |-> id] \in TwinJob
      BY <1>1 DEF TwinJob
    <2>2. \A kind \in {"latest", "run"} : Append(Tail(twinJobs), [kind |-> kind, id |-> id]) \in Seq(TwinJob)
      BY <1>1, <2>1, JobAppended
    <2>. QED
      BY <1>1, <2>2 DEF UpdateTwin, SimulationChecked, LatestStateRead, SimulationRuns
  <1>. QED
    BY <1>2, <1>3, <1>4, <1>5, HistoriesKept

LEMMA TwinStep == TwinInv /\ [TwinNext]_twinVars => TwinInv'
  <1>. SUFFICES ASSUME TwinInv, [TwinNext]_twinVars
                PROVE  TwinInv'
    OBVIOUS
  <1>1. CASE UNCHANGED twinVars
    BY <1>1 DEF TwinInv, TwinTypeOK, HistoryAccounts, AcceptedOf, TwinJob, SimulationRun, twinVars
  <1>. QED
    BY <1>1, CreateTwinStep, CallStep, IngestStep, DeleteStep, OtherTwinStep DEF TwinNext

LEMMA TwinInitial == TwinInit => TwinInv
  <1>. SUFFICES ASSUME TwinInit
                PROVE  TwinInv
    OBVIOUS
  <1>1. twins \in MapsOf(1..created, TwinAssets)
    BY EmptyMapType DEF TwinInit
  <1>2. DOMAIN stateHistory = {} /\ DOMAIN accepted = {}
    BY DEF TwinInit, EmptyMap
  <1>. QED
    BY <1>1, <1>2 DEF TwinInit, TwinInv, TwinTypeOK, HistoryAccounts

\* Types of the twins, their histories and the operations in flight.
THEOREM TwinsTyped == TwinSpec => []TwinTypeOK
  <1>1. TwinInv => TwinTypeOK
    BY DEF TwinInv
  <1>. QED
    BY <1>1, TwinInitial, TwinStep, PTL DEF TwinSpec

\* Whatever overlaps, the history of a twin is the last readings accepted of it,
\* in order, for every limit on its length.
THEOREM HistoriesAccount == TwinSpec => []HistoryAccounts
  <1>1. TwinInv => HistoryAccounts
    BY DEF TwinInv
  <1>. QED
    BY <1>1, TwinInitial, TwinStep, PTL DEF TwinSpec

(***************************************************************************)
(* The audit log                                                           *)
(***************************************************************************)

\* A set of naturals has a least element.
LEMMA LeastExists ==
  ASSUME NEW T \in SUBSET Nat, T # {}
  PROVE  \E x \in T : \A y \in T : x <= y
  <1>. DEFINE R == OpToRel(<, Nat)
  <1>1. IsWellFoundedOn(R, Nat)
    BY NatLessThanWellFounded
  <1>2. \A x \in Nat, y \in Nat : <<y, x>> \in R <=> y < x
    BY DEF OpToRel
  <1>. HIDE DEF R
  <1>3. PICK x \in T : \A y \in T : ~ (<<y, x>> \in R)
    BY <1>1, WFMin
  <1>4. \A y \in T : ~ (y < x)
    BY <1>2, <1>3, Zenon
  <1>5. x \in Nat /\ \A y \in T : y \in Nat /\ x <= y
    BY <1>4
  <1>. QED
    BY <1>5

\* A bounded one has a greatest.
LEMMA GreatestExists ==
  ASSUME NEW n \in Nat, NEW T \in SUBSET (1..n), T # {}
  PROVE  \E x \in T : \A y \in T : y <= x
  <1>. DEFINE Mirror == {n - y : y \in T}
  <1>1. Mirror \in SUBSET Nat /\ Mirror # {}
    <2>1. PICK y \in T : TRUE
      OBVIOUS
    <2>2. n - y \in Mirror
      BY <2>1
    <2>3. \A z \in Mirror : z \in Nat
      OBVIOUS
    <2>. QED
      BY <2>2, <2>3
  <1>2. PICK least \in Mirror : \A z \in Mirror : least <= z
    <2>. HIDE DEF Mirror
    <2>. QED
      BY <1>1, LeastExists
  <1>3. PICK x \in T : least = n - x
    BY <1>2
  <1>4. \A y \in T : n - x <= n - y
    BY <1>2, <1>3
  <1>5. \A y \in T : y <= x
    BY <1>4
  <1>. QED
    BY <1>5

AuditEntry(hashes) ==
  [sequence : 1..MaxEvents, event : AuditEvent, previousHash : hashes, hash : hashes]

\* What was logged before entry i.
LoggedBefore(i) == IF i = 1 THEN Genesis ELSE logged[i - 1]

\* The hashes that were logged form a chain.
LoggedChained == \A i \in DOMAIN logged : logged[i][1] = LoggedBefore(i)

AuditInv ==
  /\ AuditTypeOK
  /\ \E hashes : /\ chainEntries \in Seq(AuditEntry(hashes)) /\ logged \in Seq(hashes)
                 /\ lastHash \in hashes
  /\ LoggedChained

LEMMA AuditInitial == AuditInit => AuditInv
  <1>. SUFFICES ASSUME AuditInit
                PROVE  AuditInv
    OBVIOUS
  <1>1. chainEntries = << >> /\ logged = << >> /\ lastHash = Genesis /\ edits = 0
    BY DEF AuditInit
  <1>2. chainEntries \in Seq(AuditEntry({Genesis})) /\ logged \in Seq({Genesis}) /\ lastHash \in {Genesis}
    BY <1>1, EmptySeq
  <1>3. AuditTypeOK
    BY <1>1, AuditBounds DEF AuditInit, AuditTypeOK
  <1>4. LoggedChained
    BY <1>1 DEF LoggedChained
  <1>. QED
    BY <1>2, <1>3, <1>4 DEF AuditInv

LEMMA LogEventStep ==
  ASSUME AuditInv, NEW service \in Identities, NEW outcome \in Outcomes, NEW details \in Details,
         LogEvent(service, outcome, details)
  PROVE  AuditInv'
  <1>. DEFINE n == Len(chainEntries)
              event == [eventId |-> n + 1, service |-> service, outcome |-> outcome,
                        details |-> details]
              hash == CalculateEventHash(event, lastHash)
              entry == [sequence |-> n + 1, event |-> event, previousHash |-> lastHash,
                        hash |-> hash]
  <1>1. PICK hashes : /\ chainEntries \in Seq(AuditEntry(hashes)) /\ logged \in Seq(hashes)
                      /\ lastHash \in hashes
    BY DEF AuditInv
  <1>. DEFINE more == hashes \union {hash}
  <1>2. /\ chainEntries' = Append(chainEntries, entry) /\ lastHash' = hash /\ logged' = Append(logged, hash)
        /\ serviceIds' = serviceIds /\ edits' = edits /\ n < MaxEvents
    BY DEF LogEvent
  <1>3. n \in Nat /\ Len(logged) = n /\ event \in AuditEvent /\ n + 1 \in 1..MaxEvents
    BY <1>1, <1>2, AuditBounds DEF AuditInv, AuditTypeOK, AuditEvent
  <1>4. entry \in AuditEntry(more) /\ AuditEntry(hashes) \subseteq AuditEntry(more) /\ hash \in more
    BY <1>1, <1>3 DEF AuditEntry
  <1>5. chainEntries \in Seq(AuditEntry(more)) /\ logged \in Seq(more)
    <2>. HIDE DEF more
    <2>1. chainEntries \in Seq(AuditEntry(more))
      BY <1>1, <1>4, SeqMonotonic
    <2>2. hashes \subseteq more
      BY DEF more
    <2>. QED
      BY <1>1, <2>1, <2>2, SeqMonotonic
  <1>6. /\ chainEntries' \in Seq(AuditEntry(more)) /\ logged' \in Seq(more) /\ lastHash' \in more
        /\ Len(chainEntries') = n + 1 /\ chainEntries'[n + 1] = entry
        /\ \A i \in 1..n : chainEntries'[i] = chainEntries[i]
        /\ Len(logged') = n + 1 /\ logged'[n + 1] = hash
        /\ \A i \in 1..n : logged'[i] = logged[i]
    <2>. HIDE DEF more, entry, hash
    <2>1. /\ chainEntries' \in Seq(AuditEntry(more)) /\ Len(chainEntries') = n + 1
          /\ chainEntries'[n + 1] = entry /\ \A i \in 1..n : chainEntries'[i] = chainEntries[i]
      BY <1>2, <1>4, <1>5, AppendProperties
    <2>2. /\ logged' \in Seq(more) /\ Len(logged') = n + 1 /\ logged'[n + 1] = hash
          /\ \A i \in 1..n : logged'[i] = logged[i]
      BY <1>2, <1>3, <1>4, <1>5, AppendProperties
    <2>. QED
      BY <1>2, <1>4, <2>1, <2>2
  <1>7. DOMAIN chainEntries' = 1..(n + 1) /\ DOMAIN logged' = 1..(n + 1) /\ DOMAIN logged = 1..n
        /\ DOMAIN chainEntries = 1..n
    <2>. HIDE DEF more
    <2>. QED
      BY <1>1, <1>3, <1>5, <1>6
  <1>8. AuditTypeOK'
    <2>1. \A i \in DOMAIN chainEntries' :
            chainEntries'[i].event \in AuditEvent /\ chainEntries'[i].sequence \in 1..MaxEvents
      <3>. HIDE DEF event
      <3>. QED
        BY <1>3, <1>6, <1>7 DEF AuditInv, AuditTypeOK
    <2>2. DOMAIN chainEntries' = DOMAIN logged' /\ Len(logged') <= MaxEvents
      BY <1>2, <1>3, <1>6, <1>7, AuditBounds
    <2>3. lastHash' = (IF logged' = << >> THEN Genesis ELSE logged'[Len(logged')])
      <3>. HIDE DEF more, hash
      <3>1. logged' # << >>
        BY <1>3, <1>6
      <3>. QED
        BY <1>2, <1>6, <3>1
    <2>. QED
      BY <1>2, <2>1, <2>2, <2>3 DEF AuditInv, AuditTypeOK
  <1>9. LoggedChained'
    <2>. SUFFICES ASSUME NEW i \in 1..(n + 1)
                  PROVE  logged'[i][1] = (IF i = 1 THEN Genesis ELSE logged'[i - 1])
      BY <1>7 DEF LoggedChained, LoggedBefore
    <2>1. CASE i = n + 1
      <3>1. hash[1] = lastHash
        BY DEF CalculateEventHash
      <3>2. lastHash = (IF n = 0 THEN Genesis ELSE logged[n])
        BY <1>1, <1>3 DEF AuditInv, AuditTypeOK
      <3>. HIDE DEF hash
      <3>. QED
        BY <1>3, <1>6, <2>1, <3>1, <3>2
    <2>2. CASE i # n + 1
      <3>1. i \in 1..n /\ (i # 1 => i - 1 \in 1..n)
        BY <1>3, <2>2
      <3>2. logged[i][1] = (IF i = 1 THEN Genesis ELSE logged[i - 1])
        BY <1>7, <3>1 DEF AuditInv, LoggedChained, LoggedBefore
      <3>. HIDE DEF hash
      <3>. QED
        BY <1>6, <3>1, <3>2
    <2>. QED
      BY <2>1, <2>2
  <1>. QED
    BY <1>6, <1>8, <1>9 DEF AuditInv

LEMMA ChangeStep ==
  ASSUME AuditInv, NEW entries, Edited(entries), serviceIds' \in [Identities -> ServiceIds],
         DOMAIN entries = DOMAIN chainEntries,
         \E hashes : /\ entries \in Seq(AuditEntry(hashes)) /\ logged \in Seq(hashes)
                     /\ lastHash \in hashes
  PROVE  AuditInv'
  <1>1. chainEntries' = entries /\ lastHash' = lastHash /\ logged' = logged /\ edits' \in 0..MaxEdits
    BY AuditBounds DEF AuditInv, AuditTypeOK, Edited
  <1>2. \A i \in DOMAIN entries :
          entries[i].event \in AuditEvent /\ entries[i].sequence \in 1..MaxEvents
    <2>1. PICK hashes : entries \in Seq(AuditEntry(hashes))
      OBVIOUS
    <2>2. \A i \in DOMAIN entries : entries[i] \in AuditEntry(hashes)
      BY <2>1
    <2>. QED
      BY <2>2 DEF AuditEntry
  <1>3. AuditTypeOK'
    BY <1>1, <1>2 DEF AuditInv, AuditTypeOK
  <1>4. LoggedChained'
    BY <1>1 DEF AuditInv, LoggedChained, LoggedBefore
  <1>. QED
    BY <1>1, <1>3, <1>4 DEF AuditInv

LEMMA ChangeEntryStep ==
  ASSUME AuditInv, NEW i \in DOMAIN chainEntries, ChangeEntry(i)
  PROVE  AuditInv'
  <1>1. PICK hashes : /\ chainEntries \in Seq(AuditEntry(hashes)) /\ logged \in Seq(hashes)
                      /\ lastHash \in hashes
    BY DEF AuditInv
  <1>2. serviceIds' \in [Identities -> ServiceIds]
    BY DEF AuditInv, AuditTypeOK, ChangeEntry
  <1>. DEFINE computed == CalculateEventHash(chainEntries[i].event, chainEntries[i].previousHash)
              more == hashes \union {computed}
  <1>3. /\ AuditEntry(hashes) \subseteq AuditEntry(more) /\ computed \in more /\ hashes \subseteq more
    BY DEF AuditEntry
  <1>4. /\ chainEntries \in Seq(AuditEntry(more)) /\ logged \in Seq(more) /\ lastHash \in more
        /\ chainEntries[i] \in AuditEntry(more)
    <2>. HIDE DEF more
    <2>1. chainEntries \in Seq(AuditEntry(more)) /\ logged \in Seq(more)
      BY <1>1, <1>3, SeqMonotonic
    <2>. QED
      BY <1>1, <1>3, <2>1
  <1>5. ASSUME NEW entry \in AuditEntry(more), Edited([chainEntries EXCEPT ![i] = entry])
        PROVE  AuditInv'
    <2>. DEFINE entries == [chainEntries EXCEPT ![i] = entry]
    <2>1. entries \in Seq(AuditEntry(more)) /\ DOMAIN entries = DOMAIN chainEntries
      <3>. HIDE DEF more
      <3>. QED
        BY <1>4, <1>5
    <2>. HIDE DEF entries, more
    <2>2. Edited(entries)
      BY <1>5 DEF entries
    <2>. QED
      BY <1>2, <1>4, <2>1, <2>2, ChangeStep
  <1>. DEFINE e == chainEntries[i]
  <1>6. CASE \E outcome \in Outcomes \ {e.event.outcome} :
               Edited([chainEntries EXCEPT ![i].event.outcome = outcome])
    <2>1. PICK outcome \in Outcomes : Edited([chainEntries EXCEPT ![i].event.outcome = outcome])
      BY <1>6
    <2>2. [e EXCEPT !.event.outcome = outcome] \in AuditEntry(more)
      <3>. HIDE DEF more, e
      <3>. QED
        BY <1>4 DEF AuditEntry, AuditEvent, e
    <2>3. [chainEntries EXCEPT ![i].event.outcome = outcome]
            = [chainEntries EXCEPT ![i] = [e EXCEPT !.event.outcome = outcome]]
      OBVIOUS
    <2>. HIDE DEF more, e
    <2>. QED
      BY <1>5, <2>1, <2>2, <2>3
  <1>9. CASE \E details \in Details \ {e.event.details} :
               Edited([chainEntries EXCEPT ![i].event.details = details])
    <2>1. PICK details \in Details : Edited([chainEntries EXCEPT ![i].event.details = details])
      BY <1>9
    <2>2. [e EXCEPT !.event.details = details] \in AuditEntry(more)
      <3>. HIDE DEF more, e
      <3>. QED
        BY <1>4 DEF AuditEntry, AuditEvent, e
    <2>3. [chainEntries EXCEPT ![i].event.details = details]
            = [chainEntries EXCEPT ![i] = [e EXCEPT !.event.details = details]]
      OBVIOUS
    <2>. HIDE DEF more, e
    <2>. QED
      BY <1>5, <2>1, <2>2, <2>3
  <1>10. CASE \E sequence \in (1..MaxEvents) \ {e.sequence} :
               Edited([chainEntries EXCEPT ![i].sequence = sequence])
    <2>1. PICK sequence \in 1..MaxEvents : Edited([chainEntries EXCEPT ![i].sequence = sequence])
      BY <1>10
    <2>2. [e EXCEPT !.sequence = sequence] \in AuditEntry(more)
      <3>. HIDE DEF more, e
      <3>. QED
        BY <1>4 DEF AuditEntry, e
    <2>3. [chainEntries EXCEPT ![i].sequence = sequence]
            = [chainEntries EXCEPT ![i] = [e EXCEPT !.sequence = sequence]]
      OBVIOUS
    <2>. HIDE DEF more, e
    <2>. QED
      BY <1>5, <2>1, <2>2, <2>3
  <1>7. CASE Edited([chainEntries EXCEPT ![i].hash = computed])
    <2>1. [e EXCEPT !.hash = computed] \in AuditEntry(more)
      <3>. HIDE DEF computed
      <3>. QED
        BY <1>3, <1>4 DEF AuditEntry
    <2>2. [chainEntries EXCEPT ![i].hash = computed]
            = [chainEntries EXCEPT ![i] = [e EXCEPT !.hash = computed]]
      OBVIOUS
    <2>. HIDE DEF more, e, computed
    <2>. QED
      BY <1>5, <1>7, <2>1, <2>2
  <1>8. CASE i > 1 /\ Edited([chainEntries EXCEPT ![i].previousHash = chainEntries[i - 1].hash])
    <2>1. i - 1 \in DOMAIN chainEntries
      <3>1. DOMAIN chainEntries = 1..Len(chainEntries) /\ Len(chainEntries) \in Nat
        <4>. HIDE DEF more
        <4>. QED
          BY <1>4
      <3>. QED
        BY <1>8, <3>1
    <2>2. chainEntries[i - 1] \in AuditEntry(more)
      <3>. HIDE DEF more
      <3>. QED
        BY <1>4, <2>1
    <2>3. [e EXCEPT !.previousHash = chainEntries[i - 1].hash] \in AuditEntry(more)
      <3>. HIDE DEF more
      <3>. QED
        BY <1>4, <2>2 DEF AuditEntry
    <2>4. [chainEntries EXCEPT ![i].previousHash = chainEntries[i - 1].hash]
            = [chainEntries EXCEPT ![i] = [e EXCEPT !.previousHash = chainEntries[i - 1].hash]]
      OBVIOUS
    <2>. HIDE DEF more, e
    <2>. QED
      BY <1>5, <1>8, <2>3, <2>4
  <1>. QED
    <2>. HIDE DEF more
    <2>. QED
      BY <1>6, <1>7, <1>8, <1>9, <1>10 DEF ChangeEntry

LEMMA AuditStep == AuditInv /\ [AuditNext]_auditVars => AuditInv'
  <1>. SUFFICES ASSUME AuditInv, [AuditNext]_auditVars
                PROVE  AuditInv'
    OBVIOUS
  <1>1. ASSUME NEW identity \in Identities, NEW serviceId \in ServiceIds, RenameService(identity, serviceId)
        PROVE  AuditInv'
    <2>1. serviceIds' \in [Identities -> ServiceIds] /\ Edited(chainEntries)
      BY <1>1 DEF RenameService, AuditInv, AuditTypeOK
    <2>2. \E hashes : /\ chainEntries \in Seq(AuditEntry(hashes)) /\ logged \in Seq(hashes)
                      /\ lastHash \in hashes
      BY DEF AuditInv
    <2>. QED
      BY <2>1, <2>2, ChangeStep
  <1>2. CASE UNCHANGED auditVars
    BY <1>2 DEF AuditInv, AuditTypeOK, LoggedChained, LoggedBefore, auditVars
  <1>. QED
    BY <1>1, <1>2, LogEventStep, ChangeEntryStep DEF AuditNext

\* Types of the log, of what was handed out of it, and of the callers' identities.
THEOREM AuditTyped == AuditSpec => []AuditTypeOK
  <1>1. AuditInv => AuditTypeOK
    BY DEF AuditInv
  <1>. QED
    BY <1>1, AuditInitial, AuditStep, PTL DEF AuditSpec

LEMMA SameLength ==
  ASSUME NEW a \in Nat, NEW b \in Nat, 1..a = 1..b
  PROVE  a = b
  <1>1. ~(a < b)
    <2>1. a < b => b \in 1..b /\ b \notin 1..a
      OBVIOUS
    <2>. QED
      BY <2>1
  <1>2. ~(b < a)
    <2>1. b < a => a \in 1..a /\ a \notin 1..b
      OBVIOUS
    <2>. QED
      BY <2>1
  <1>. QED
    BY <1>1, <1>2

\* The entries and what was logged of them.
LEMMA LogShape ==
  ASSUME AuditInv
  PROVE  /\ Len(chainEntries) \in Nat /\ Len(logged) = Len(chainEntries)
         /\ DOMAIN chainEntries = 1..Len(chainEntries) /\ DOMAIN logged = 1..Len(chainEntries)
         /\ chainEntries = << >> <=> Len(chainEntries) = 0
         /\ lastHash = (IF Len(chainEntries) = 0 THEN Genesis ELSE logged[Len(chainEntries)])
  <1>1. PICK hashes : chainEntries \in Seq(AuditEntry(hashes)) /\ logged \in Seq(hashes)
    BY DEF AuditInv
  <1>2. DOMAIN chainEntries = DOMAIN logged
    BY DEF AuditInv, AuditTypeOK
  <1>3. /\ Len(chainEntries) \in Nat /\ DOMAIN chainEntries = 1..Len(chainEntries)
        /\ Len(logged) \in Nat /\ DOMAIN logged = 1..Len(logged)
    BY <1>1
  <1>4. Len(logged) = Len(chainEntries)
    <2>1. 1..Len(chainEntries) = 1..Len(logged)
      BY <1>2, <1>3
    <2>. QED
      BY <1>3, <2>1, SameLength
  <1>5. chainEntries = << >> <=> Len(chainEntries) = 0
    BY <1>1, EmptySeq
  <1>6. logged = << >> <=> Len(logged) = 0
    BY <1>1, EmptySeq
  <1>7. lastHash = (IF logged = << >> THEN Genesis ELSE logged[Len(logged)])
    BY DEF AuditInv, AuditTypeOK
  <1>. QED
    BY <1>2, <1>3, <1>4, <1>5, <1>6, <1>7

\* An entry verifies when it and those before it are what was logged.
LEMMA UntouchedVerifies ==
  ASSUME AuditInv, NEW i \in DOMAIN chainEntries, \A j \in DOMAIN chainEntries : j <= i => AsLogged(j)
  PROVE  Verified(i)
  <1>1. i \in Nat /\ (i # 1 => i - 1 \in DOMAIN chainEntries /\ i - 1 <= i)
    BY LogShape
  <1>2. ExpectedPreviousHash(i) = (IF i = 1 THEN Genesis ELSE logged[i - 1])
    BY <1>1 DEF ExpectedPreviousHash, AsLogged
  <1>3. AsLogged(i)
    BY <1>1
  <1>. QED
    BY <1>2, <1>3 DEF Verified, AsLogged

\* When every entry verifies and the last one has the hash the logger kept, every
\* hash is the logged one: an entry fixes the one before it by the hash it is
\* computed from.
LEMMA VerifiedHashes ==
  ASSUME AuditInv, \A i \in DOMAIN chainEntries : Verified(i), LastVerifiedHash = lastHash
  PROVE  \A i \in DOMAIN chainEntries : chainEntries[i].hash = logged[i]
  <1>. DEFINE n == Len(chainEntries)
              Rewritten == {i \in 1..n : chainEntries[i].hash # logged[i]}
  <1>1. n \in Nat /\ DOMAIN chainEntries = 1..n /\ DOMAIN logged = 1..n
    BY LogShape
  <1>2. SUFFICES ASSUME Rewritten # {} PROVE FALSE
    BY <1>1
  <1>3. PICK m \in Rewritten : \A i \in Rewritten : i <= m
    BY <1>1, <1>2, GreatestExists
  <1>4. m \in 1..n /\ chainEntries[m].hash # logged[m] /\ n # 0
    BY <1>1, <1>3
  <1>5. m # n
    <2>1. LastVerifiedHash = chainEntries[n].hash
      BY <1>4, LogShape DEF LastVerifiedHash
    <2>2. lastHash = logged[n]
      BY <1>4, LogShape
    <2>. QED
      BY <1>4, <2>1, <2>2
  <1>6. m + 1 \in 1..n /\ m + 1 # 1 /\ m + 1 - 1 = m /\ ~(m + 1 <= m)
    <2>. HIDE DEF n, Rewritten
    <2>1. m \in 1..n /\ n \in Nat /\ m # n
      BY <1>1, <1>4, <1>5
    <2>. QED
      BY <2>1
  <1>7. chainEntries[m + 1].hash = logged[m + 1]
    <2>1. m + 1 \notin Rewritten
      <3>. HIDE DEF Rewritten
      <3>. QED
        BY <1>3, <1>6
    <2>. QED
      BY <1>6, <2>1
  <1>8. chainEntries[m + 1].hash[1] = chainEntries[m].hash
    <2>1. chainEntries[m + 1].hash
            = CalculateEventHash(chainEntries[m + 1].event, ExpectedPreviousHash(m + 1))
      BY <1>1, <1>6 DEF Verified
    <2>2. ExpectedPreviousHash(m + 1) = chainEntries[m].hash
      BY <1>6 DEF ExpectedPreviousHash
    <2>3. \A event, hash : CalculateEventHash(event, hash)[1] = hash
      BY DEF CalculateEventHash
    <2>. QED
      BY <2>1, <2>2, <2>3
  <1>9. logged[m + 1][1] = logged[m]
    BY <1>1, <1>6 DEF AuditInv, LoggedChained, LoggedBefore
  <1>. QED
    BY <1>4, <1>7, <1>8, <1>9

\* ... and so every entry is what was logged.
LEMMA VerifiedIsUntouched ==
  ASSUME AuditInv, \A i \in DOMAIN chainEntries : Verified(i), LastVerifiedHash = lastHash
  PROVE  \A i \in DOMAIN chainEntries : AsLogged(i)
  <1>. SUFFICES ASSUME NEW i \in DOMAIN chainEntries
                PROVE  AsLogged(i)
    OBVIOUS
  <1>1. i \in Nat /\ (i # 1 => i - 1 \in DOMAIN chainEntries)
    BY LogShape
  <1>2. ExpectedPreviousHash(i) = (IF i = 1 THEN Genesis ELSE logged[i - 1])
    BY <1>1, VerifiedHashes DEF ExpectedPreviousHash
  <1>3. chainEntries[i].hash = logged[i]
    BY VerifiedHashes
  <1>4. Verified(i)
    OBVIOUS
  <1>5. /\ chainEntries[i].previousHash = ExpectedPreviousHash(i)
        /\ chainEntries[i].hash = CalculateEventHash(chainEntries[i].event, chainEntries[i].previousHash)
    BY <1>4 DEF Verified
  <1>. QED
    BY <1>2, <1>3, <1>5 DEF AsLogged

\* What the report says, by whether an entry is broken.
LEMMA ReportCases ==
  ASSUME AuditInv
  PROVE  LET broken == {i \in DOMAIN chainEntries : ~Verified(i)}
             report == GetIntegrityReport
         IN \/ /\ broken = {} /\ LastVerifiedHash = lastHash
               /\ report.valid = TRUE
            \/ /\ broken = {} /\ LastVerifiedHash # lastHash
               /\ report.valid = FALSE /\ report.firstInvalidSequence = Len(chainEntries)
            \/ /\ report.valid = FALSE
               /\ \E first \in broken :
                    /\ \A i \in broken : first <= i
                    /\ report.firstInvalidSequence = chainEntries[first].sequence
  <1>. DEFINE broken == {i \in DOMAIN chainEntries : ~Verified(i)}
  <1>1. CASE broken = {} /\ LastVerifiedHash = lastHash
    <2>1. GetIntegrityReport = [valid |-> TRUE, firstInvalidSequence |-> 0]
      BY <1>1 DEF GetIntegrityReport
    <2>. QED
      BY <1>1, <2>1
  <1>2. CASE broken = {} /\ LastVerifiedHash # lastHash
    <2>1. GetIntegrityReport = [valid |-> FALSE, firstInvalidSequence |-> Len(chainEntries)]
      BY <1>2 DEF GetIntegrityReport, InvalidAt
    <2>. QED
      BY <1>2, <2>1
  <1>3. CASE broken # {}
    <2>. DEFINE first == CHOOSE i \in broken : \A j \in broken : i <= j
    <2>1. broken \in SUBSET Nat
      BY LogShape
    <2>2. first \in broken /\ \A j \in broken : first <= j
      <3>. HIDE DEF broken
      <3>1. \E i \in broken : \A j \in broken : i <= j
        BY <1>3, <2>1, LeastExists
      <3>. QED
        BY <3>1
    <2>3. GetIntegrityReport = [valid |-> FALSE, firstInvalidSequence |-> chainEntries[first].sequence]
      BY <1>3 DEF GetIntegrityReport, InvalidAt
    <2>. HIDE DEF first
    <2>. QED
      BY <2>2, <2>3
  <1>. QED
    BY <1>1, <1>2, <1>3

\* The first entry that is not what was logged does not verify, if its hash is.
LEMMA FirstChangeBreaks ==
  ASSUME AuditInv, NEW first \in DOMAIN chainEntries, ~AsLogged(first),
         \A j \in DOMAIN chainEntries : j < first => AsLogged(j),
         chainEntries[first].hash = logged[first]
  PROVE  ~Verified(first)
  <1>1. first \in Nat /\ (first # 1 => first - 1 \in DOMAIN chainEntries /\ first - 1 < first)
    BY LogShape
  <1>2. ExpectedPreviousHash(first) = (IF first = 1 THEN Genesis ELSE logged[first - 1])
    BY <1>1 DEF ExpectedPreviousHash, AsLogged
  <1>. QED
    BY <1>2 DEF Verified, AsLogged

LEMMA ReportSound ==
  ASSUME AuditInv
  PROVE  ReportHonest
  <1>. DEFINE broken == {i \in DOMAIN chainEntries : ~Verified(i)}
              changed == {i \in DOMAIN chainEntries : ~AsLogged(i)}
              report == GetIntegrityReport
              InOrder == \A i \in DOMAIN chainEntries : chainEntries[i].sequence = i
  <1>1. DOMAIN chainEntries = 1..Len(chainEntries) /\ Len(chainEntries) \in Nat
    BY LogShape
  <1>2. broken = {} /\ LastVerifiedHash = lastHash => changed = {}
    BY VerifiedIsUntouched
  <1>3. \A b \in broken : \E i \in changed : i <= b
    BY UntouchedVerifies
  <1>4. changed = {} => LastVerifiedHash = lastHash
    <2>. SUFFICES ASSUME changed = {}
                  PROVE  LastVerifiedHash = lastHash
      OBVIOUS
    <2>1. CASE Len(chainEntries) = 0
      BY <2>1, LogShape DEF LastVerifiedHash
    <2>2. CASE Len(chainEntries) # 0
      <3>1. Len(chainEntries) \in DOMAIN chainEntries
        BY <1>1, <2>2
      <3>2. AsLogged(Len(chainEntries))
        BY <3>1
      <3>. QED
        BY <2>2, <3>2, LogShape DEF LastVerifiedHash, AsLogged
    <2>. QED
      BY <2>1, <2>2
  <1>5. report.valid \in BOOLEAN /\ (report.valid <=> changed = {})
    <2>1. CASE broken = {} /\ LastVerifiedHash = lastHash /\ report.valid = TRUE
      BY <1>2, <2>1
    <2>2. CASE broken = {} /\ LastVerifiedHash # lastHash /\ report.valid = FALSE
      BY <1>4, <2>2
    <2>3. CASE report.valid = FALSE /\ broken # {}
      BY <1>3, <2>3
    <2>. QED
      BY <2>1, <2>2, <2>3, ReportCases
  <1>6. ASSUME ~report.valid, InOrder
        PROVE  \E first \in changed :
                 /\ \A i \in changed : first <= i
                 /\ first <= report.firstInvalidSequence
                 /\ chainEntries[first].hash = logged[first] => report.firstInvalidSequence = first
    <2>1. PICK first \in changed : \A i \in changed : first <= i
      <3>1. changed \in SUBSET Nat /\ changed # {}
        BY <1>1, <1>5, <1>6
      <3>. HIDE DEF changed
      <3>. QED
        BY <3>1, LeastExists
    <2>2. first \in 1..Len(chainEntries)
      BY <1>1
    <2>3. chainEntries[first].hash = logged[first] => first \in broken
      <3>1. \A j \in DOMAIN chainEntries : j < first => AsLogged(j)
        BY <1>1, <2>1, <2>2
      <3>. QED
        BY <3>1, FirstChangeBreaks
    <2>4. CASE broken = {} /\ report.firstInvalidSequence = Len(chainEntries)
      BY <1>1, <2>1, <2>2, <2>3, <2>4
    <2>5. ASSUME NEW b \in broken, \A i \in broken : b <= i,
                 report.firstInvalidSequence = chainEntries[b].sequence
          PROVE  /\ first <= report.firstInvalidSequence
                 /\ chainEntries[first].hash = logged[first] => report.firstInvalidSequence = first
      <3>1. report.firstInvalidSequence = b /\ b \in 1..Len(chainEntries)
        BY <1>1, <1>6, <2>5
      <3>2. PICK i \in changed : i <= b
        BY <1>3, <2>5
      <3>3. i \in 1..Len(chainEntries) /\ first <= i
        BY <1>1, <2>1
      <3>4. first <= b
        BY <2>2, <3>1, <3>2, <3>3
      <3>5. first \in broken => b <= first
        BY <2>5
      <3>6. chainEntries[first].hash = logged[first] => b <= first
        BY <2>3, <3>5
      <3>. QED
        BY <2>2, <3>1, <3>4, <3>6
    <2>. QED
      BY <1>6, <2>1, <2>4, <2>5, ReportCases
  <1>. QED
    BY <1>5, <1>6 DEF ReportHonest

\* For a log of any length and any changes to what it shares: the report is
\* valid exactly when all that is hashed still is what was logged, whatever
\* became of the rest; and otherwise, as long as the sequences are what they
\* were, it names the first entry that was changed, or a later one if the hash
\* of the first was changed with it.
THEOREM ReportsHonest == AuditSpec => []ReportHonest
  BY ReportSound, AuditInitial, AuditStep, PTL DEF AuditSpec

(***************************************************************************)
(* The composition                                                         *)
(***************************************************************************)

\* A step of the composition is a step of each component, or leaves it alone.
THEOREM EachComponentImplemented ==
  Spec => SiteSpec /\ CapabilitySpec /\ TwinSpec /\ AuditSpec /\ BrokerSpec
  <1>1. Init => SiteInit /\ CapabilityInit /\ TwinInit /\ AuditInit /\ BrokerInit
    BY DEF Init
  <1>2. [Next]_vars => [SiteNext]_siteVars
    BY DEF Next, Sites, Capabilities, Twins, Audit, Broker, vars
  <1>3. [Next]_vars => [CapabilityNext]_capabilityVars
    BY DEF Next, Sites, Capabilities, Twins, Audit, Broker, vars
  <1>4. [Next]_vars => [TwinNext]_twinVars
    BY DEF Next, Sites, Capabilities, Twins, Audit, Broker, vars
  <1>5. [Next]_vars => [AuditNext]_auditVars
    BY DEF Next, Sites, Capabilities, Twins, Audit, Broker, vars
  <1>6. [Next]_vars => [BrokerNext]_brokerVars
    BY DEF Next, Sites, Capabilities, Twins, Audit, Broker, vars
  <1>. QED
    BY <1>1, <1>2, <1>3, <1>4, <1>5, <1>6, PTL
       DEF Spec, SiteSpec, CapabilitySpec, TwinSpec, AuditSpec, BrokerSpec

\* Every component of the composition keeps its types.
THEOREM ServicesTyped == Spec => []TypeOK
  <1>1. SiteTypeOK /\ CapabilityTypeOK /\ TwinTypeOK /\ AuditTypeOK /\ BrokerTypeOK => TypeOK
    BY DEF TypeOK
  <1>. QED
    BY <1>1, EachComponentImplemented, SitesTyped, CapabilitiesTyped, TwinsTyped, AuditTyped,
       BrokerTyped, PTL

\* Side by side, the components keep what each of them keeps alone: readers of
\* sites, overrides, uninstalled capabilities, histories of twins, reports on
\* the log, contracts and accesses.
THEOREM ServicesCorrect ==
  Spec => /\ [](/\ VersionCovers /\ OverridesKept /\ HistoryAccounts /\ ReportHonest
                /\ CompatibleWithOrigin /\ AccessAgrees)
          /\ UninstallHolds
  BY EachComponentImplemented, VersionsCover, OverridesAreKept, UninstallIsFinal, HistoriesAccount,
     ReportsHonest, ContractsCompatible, AccessesAgree, PTL

==============================================================================
