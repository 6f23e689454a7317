------------------------------- MODULE MCServices -------------------------------
(* Instances of the services small enough for TLC. *)
EXTENDS Services, TLC

\* A safety critical topic and one that is not.
Commands == <<"nlx", "intents", "commands", "v1">>
Federation == <<"nlx", "api", "federation", "v1">>

Version(major, minor, patch) == [major |-> major, minor |-> minor, patch |-> patch]

MCContracts ==
  [topic : {Commands}, version : {Version(1, 0, 0), Version(1, 0, 1), Version(1, 1, 0), Version(2, 0, 0)},
   payloadSchemaId : {1, 2}, compatibility : {"backward", "full"}, settings : {6}]
  \union
  [topic : {Commands}, version : {Version(1, 0, 0)},
   payloadSchemaId : {1}, compatibility : {"backward"}, settings : {12}]
  \union
  [topic : {Federation}, version : {Version(1, 0, 0), Version(2, 0, 0)},
   payloadSchemaId : {1}, compatibility : {"backward"}, settings : {3}]

MCCatalogue ==
  {c \in MCContracts : /\ c.version = Version(1, 0, 0) /\ c.payloadSchemaId = 1
                       /\ c.compatibility = "backward" /\ c.settings \in {3, 6}}

\* The defaults, and one that asks for less at T1 and for more at T3.
MCTierPolicies == {EmptyMap, [T1 |-> "warning", T3 |-> "error"]}

Rule(backend, pattern) ==
  [principal |-> "svc.wms", backend |-> backend, operation |-> "publish", topicPattern |-> pattern]

\* Wildcards at the end, in the middle and at the place of the device; a
\* pattern of the other backend; rules that are shorter and longer than topics.
MCAclRuleLists ==
  {<< >>,
   <<Rule("kafka-redpanda", <<"spBv1.0", "#">>), Rule("kafka-redpanda", <<"nlx", "intents", "*", "v1">>)>>,
   <<Rule("mqtt-sparkplug", <<"spBv1.0", "line-a", "DDATA", "+", "+">>)>>,
   <<Rule("mqtt-sparkplug", <<"spBv1.0", "#", "plc-01">>),
     Rule("mqtt-sparkplug", <<"spBv1.0", "line-a", "#">>)>>,
   <<Rule("mqtt-sparkplug", <<"spBv1.0", "#", "plc-01">>)>>,
   <<Rule("mqtt-sparkplug", <<"spBv1.0", "line-a", "DDATA", "plc-01", "conveyor-01", "#">>)>>}

Access(backend, operation, topic) ==
  [principal |-> "svc.wms", backend |-> backend, operation |-> operation, topic |-> topic]

MCBrokerAccesses ==
  {Access("kafka-redpanda", "publish", Commands),
   Access("kafka-redpanda", "subscribe", Commands),
   Access("kafka-redpanda", "publish", <<"nlx", "intents", "commands", "v1", "dlq">>),
   Access("mqtt-sparkplug", "publish", Commands)} \union
  {Access("mqtt-sparkplug", "publish", <<"spBv1.0", "line-a", "DDATA", "plc-01">> \o rest) :
     rest \in {<< >>, <<"conveyor-01">>, <<"">>, <<"conveyor-01", "belt">>, <<"", "belt">>}}

\* What is only compared may be exchanged.
Symmetry ==
  Permutations(Slugs) \union Permutations(SiteConfigs) \union Permutations(Equipment)

==============================================================================
