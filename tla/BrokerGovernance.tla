---------------------------- MODULE BrokerGovernance ----------------------------
(***************************************************************************)
(* Topic contracts and access rules of packages/schemas/src/broker: a      *)
(* catalogue of topic contracts that is upgraded, and services that have   *)
(* their registrations validated against it, and the accesses they will    *)
(* need checked for coverage, before they open a connection.               *)
(*                                                                         *)
(* A topic and a pattern are the sequences of their segments; the first    *)
(* segment tells the backend.                                              *)
(***************************************************************************)
EXTENDS Naturals, Sequences, Maps

CONSTANTS
  Catalogue,        \* BROKER_TOPIC_CONTRACTS as first deployed
  Contracts,        \* contracts an upgrade or a registration may consist of
  AclRuleLists,     \* lists of access rules
  BrokerAccesses,   \* what is to be published or subscribed to, and by whom
  TierPolicies,     \* options.tierPolicy
  BrokerServices,   \* principals
  MaxContracts      \* bound on the contracts a topic has had

SiteTier == {"T1", "T2", "T3"}

Contract == [topic : Seq(STRING), version : [major : Nat \ {0}, minor : Nat, patch : Nat],
             payloadSchemaId : Nat, compatibility : {"backward", "full"}, settings : Nat]

Backend == {"mqtt-sparkplug", "kafka-redpanda"}

AclRule == [principal : STRING, backend : Backend, operation : {"publish", "subscribe"},
            topicPattern : Seq(STRING)]

BrokerAccess == [principal : STRING, backend : Backend, operation : {"publish", "subscribe"},
                 topic : Seq(STRING)]

ASSUME AccessTypes == AclRuleLists \subseteq Seq(AclRule) /\ BrokerAccesses \subseteq BrokerAccess

ASSUME ContractTypes ==
  /\ Contracts \subseteq Contract /\ Catalogue \subseteq Contracts
  /\ \A c, d \in Catalogue : c.topic = d.topic => c = d
  /\ TierPolicies \subseteq MapsOf(SiteTier, {"error", "warning"})
  /\ MaxContracts \in Nat \ {0}

VARIABLES
  past,        \* the contracts of each topic, the current one last
  tier,
  tierPolicy,
  aclRules,
  opened       \* connections: registration, and the contracts there were

brokerVars == <<past, tier, tierPolicy, aclRules, opened>>

Current(topic) == past[topic][Len(past[topic])]

BrokerInit ==
  /\ past = [topic \in {c.topic : c \in Catalogue} |->
               <<CHOOSE c \in Catalogue : c.topic = topic>>]
  /\ tier \in SiteTier
  /\ tierPolicy \in TierPolicies
  /\ aclRules \in AclRuleLists
  /\ opened = {}

------------------------------------------------------------------------------
(***************************************************************************)
(* Contracts                                                               *)
(***************************************************************************)

\* Fault: within a major version only.
FaultOlderVersion(left, right) == left.major = right.major /\ left.minor < right.minor

\* compareVersion(left, right) < 0
OlderVersion(left, right) ==
  \/ left.major < right.major
  \/ left.major = right.major /\ left.minor < right.minor
  \/ left.major = right.major /\ left.minor = right.minor /\ left.patch < right.patch

\* evaluateTopicContractCompatibility
Compatible(previous, next) ==
  /\ previous.topic = next.topic
  /\ ~OlderVersion(next.version, previous.version)
  /\ previous.version.major = next.version.major =>
       previous.payloadSchemaId = next.payloadSchemaId
  /\ previous.compatibility = "full" => next.compatibility = "full"

\* validateTopicRegistrationAgainstContracts; settings are the quality of
\* service, or the partitions, retention and dead letter topic.
Conforms(registration) ==
  /\ registration.topic \in DOMAIN past
  /\ registration.settings = Current(registration.topic).settings
  /\ Compatible(Current(registration.topic), registration)

IsSafetyCriticalTopic(topic) ==
  topic[1] = "spBv1.0" \/ topic[2] \in {"telemetry", "intents", "recipes"}

DefaultTierPolicy == [T1 |-> "error", T2 |-> "warning", T3 |-> "warning"]

Severity(registration) ==
  IF tier = "T1" /\ IsSafetyCriticalTopic(registration.topic)
  THEN "error" ELSE Spread(tierPolicy, DefaultTierPolicy)[tier]

\* validateTopicRegistryGuard: only violations of severity error refuse.
PassesGuard(registrations) ==
  \A r \in registrations : Conforms(r) \/ Severity(r) = "warning"

------------------------------------------------------------------------------
(***************************************************************************)
(* Access rules                                                            *)
(***************************************************************************)

MessageTypes == {"NBIRTH", "NDEATH", "DBIRTH", "DDEATH", "NDATA", "DDATA", "NCMD", "DCMD", "STATE"}

Domains == {"telemetry", "intents", "recipes", "assets", "audit", "api"}

\* parseSparkplugTopic looks at the first four segments: a device may be empty,
\* and more may follow.
ValidTopic(backend, topic) ==
  \/ /\ backend = "mqtt-sparkplug"
     /\ Len(topic) >= 4 /\ topic[1] = "spBv1.0"
     /\ topic[2] # "" /\ topic[3] \in MessageTypes /\ topic[4] # ""
  \/ /\ backend = "kafka-redpanda"
     /\ topic[1] = "nlx" /\ topic[2] \in Domains
     /\ Len(topic) = 4 \/ (Len(topic) = 5 /\ topic[5] = "dlq")

\* BrokerAclRuleSchema
ValidRule(rule) ==
  /\ Len(rule.topicPattern) > 1
  /\ rule.topicPattern[1] = (IF rule.backend = "mqtt-sparkplug" THEN "spBv1.0" ELSE "nlx")

MatchesKafkaTopicPattern(pattern, topic) ==
  /\ Len(pattern) = Len(topic)
  /\ \A i \in DOMAIN pattern : pattern[i] \in {"*", topic[i]}

\* Where the loop over the segments of a pattern returns.
Ending(pattern, topic) ==
  {i \in DOMAIN pattern :
     \/ pattern[i] = "#"
     \/ i > Len(topic) \/ topic[i] = "" \/ pattern[i] \notin {"+", topic[i]}}

\* Fault: # matches whatever follows, wherever it stands.
FaultHashAnywhere(pattern, topic) ==
  LET ending == Ending(pattern, topic)
  IN \/ ending = {} /\ Len(topic) = Len(pattern)
     \/ \E i \in ending : (\A j \in ending : i <= j) /\ pattern[i] = "#"

\* The first segment at which the loop returns matches only as a # at the end;
\* where none does, the topic has no segment left.
MatchesSparkplugTopicPattern(pattern, topic) ==
  LET ending == Ending(pattern, topic)
  IN \/ ending = {} /\ Len(topic) = Len(pattern)
     \/ \E i \in ending : (\A j \in ending : i <= j) /\ pattern[i] = "#" /\ i = Len(pattern)

MatchesRuleTopicPattern(rule, topic) ==
  IF rule.backend = "mqtt-sparkplug"
  THEN MatchesSparkplugTopicPattern(rule.topicPattern, topic)
  ELSE MatchesKafkaTopicPattern(rule.topicPattern, topic)

\* The rules that grant an access, were they alone.
RuleFor(rule, access) ==
  /\ ValidRule(rule)
  /\ rule.principal = access.principal /\ rule.backend = access.backend
  /\ rule.operation = access.operation
  /\ MatchesRuleTopicPattern(rule, access.topic)

\* authorizeBrokerTopicAccess
Authorized(access) ==
  /\ ValidTopic(access.backend, access.topic)
  /\ \E i \in DOMAIN aclRules : RuleFor(aclRules[i], access)

------------------------------------------------------------------------------

\* assertTopicContractCompatible, before a new catalogue is used.
UpgradeContract(next) ==
  /\ next.topic \in DOMAIN past /\ Len(past[next.topic]) < MaxContracts
  /\ Current(next.topic) # next
  /\ Compatible(Current(next.topic), next)
  /\ past' = [past EXCEPT ![next.topic] = Append(@, next)]
  /\ UNCHANGED <<tier, tierPolicy, aclRules, opened>>

\* assertTopicRegistryGuard and assertBrokerAclCoverage, before a service opens
\* its connections.
OpenConnections(service, registrations, accesses) ==
  /\ \A o \in opened : o.service # service
  /\ PassesGuard(registrations)
  /\ \A access \in accesses : access.principal = service /\ Authorized(access)
  /\ opened' = opened \union {[service |-> service, registrations |-> registrations,
                               accesses |-> accesses, seen |-> past]}
  /\ UNCHANGED <<past, tier, tierPolicy, aclRules>>

BrokerNext ==
  \/ \E next \in Contracts : UpgradeContract(next)
  \/ \E service \in BrokerServices, r \in Contracts, access \in BrokerAccesses :
       OpenConnections(service, {r}, {access})

BrokerSpec == BrokerInit /\ [][BrokerNext]_brokerVars

------------------------------------------------------------------------------

\* Types.
BrokerTypeOK ==
  /\ \A topic \in DOMAIN past : past[topic] \in Seq(Contracts) /\ past[topic] # << >>
  /\ \A topic \in DOMAIN past : \A i \in DOMAIN past[topic] : past[topic][i].topic = topic
  /\ tier \in SiteTier /\ tierPolicy \in TierPolicies /\ aclRules \in AclRuleLists
  /\ \A o \in opened : /\ o.service \in BrokerServices /\ o.registrations \subseteq Contracts
                       /\ DOMAIN o.seen = DOMAIN past

\* Compatibility is checked against the current contract only, and holds with
\* every contract the topic has had: a chain of compatible upgrades does not
\* lead to an incompatible one.  At tier T1, where no policy turns the check of
\* a safety critical topic into a warning, it holds for what a service
\* registered there as well.
CompatibleWithOrigin ==
  /\ \A topic \in DOMAIN past : \A i, j \in DOMAIN past[topic] :
       i < j => Compatible(past[topic][i], past[topic][j])
  /\ tier = "T1" =>
       \A o \in opened : \A r \in o.registrations :
         IsSafetyCriticalTopic(r.topic) =>
           \A i \in DOMAIN o.seen[r.topic] : Compatible(o.seen[r.topic][i], r)

\* MQTT and Kafka patterns as they are defined: + and * stand for one segment,
\* # for any number of them, at the end only; no wildcard but # stands for an
\* empty segment.
Covers(rule, topic) ==
  LET pattern == rule.topicPattern
      n == Len(pattern)
  IN IF rule.backend = "kafka-redpanda"
     THEN DOMAIN topic = 1..n /\ \A i \in 1..n : pattern[i] = "*" \/ pattern[i] = topic[i]
     ELSE LET open == pattern[n] = "#"
              fixed == IF open THEN n - 1 ELSE n
          IN /\ IF open THEN Len(topic) >= fixed ELSE Len(topic) = fixed
             /\ \A i \in 1..fixed : pattern[i] # "#" /\ topic[i] # ""
                                    /\ (pattern[i] = "+" \/ pattern[i] = topic[i])

\* An access is authorized exactly when some rule of its principal covers it,
\* and a service that has its connections open is never refused one of the
\* accesses it announced.
AccessAgrees ==
  /\ \A access \in BrokerAccesses :
       Authorized(access) <=>
         /\ ValidTopic(access.backend, access.topic)
         /\ \E i \in DOMAIN aclRules :
              LET rule == aclRules[i]
              IN /\ ValidRule(rule) /\ Covers(rule, access.topic)
                 /\ rule.backend = access.backend /\ rule.operation = access.operation
                 /\ rule.principal = access.principal
  /\ \A o \in opened : \A access \in o.accesses : Authorized(access)

==============================================================================
