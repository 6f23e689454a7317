-------------------------------- MODULE AuditLog --------------------------------
(***************************************************************************)
(* AuditLogger of packages/security-core: a hash chain of events and the   *)
(* report on its integrity.  The logger keeps the service identity of an   *)
(* event by reference, and its queries hand out the very entries of the    *)
(* chain; who holds one may change it, though the header of the code calls *)
(* events immutable.  The last hash stays private, and the chain itself is *)
(* only ever copied.                                                       *)
(*                                                                         *)
(* A hash is the content it is computed from, so that equal hashes are of  *)
(* equal contents.                                                         *)
(***************************************************************************)
EXTENDS Naturals, Sequences

CONSTANTS
  Identities,   \* ServiceIdentity objects of the callers
  ServiceIds,   \* the serviceId such an object may carry
  Details,      \* what an event carries that no hash covers
  MaxEvents,    \* bound on the events logged
  MaxEdits      \* bound on the changes to what is shared

ASSUME AuditBounds == MaxEvents \in Nat /\ MaxEdits \in Nat

VARIABLES
  chainEntries,
  lastHash,
  serviceIds,   \* serviceId of each identity
  edits,        \* changes so far
  logged        \* history: the entries as they were logged

auditVars == <<chainEntries, lastHash, serviceIds, edits, logged>>

Outcomes == {"SUCCESS", "FAILURE", "BLOCKED"}

AuditEvent == [eventId : 1..MaxEvents, service : Identities, outcome : Outcomes,
               details : Details]

Genesis == << >>

\* Not covered: the details (description, metadata, targetService, tenantId),
\* and the sequence of the entry.
CalculateEventHash(event, previousHash) ==
  <<previousHash, event.eventId, serviceIds[event.service], event.outcome>>

AuditInit ==
  /\ chainEntries = << >>
  /\ lastHash = Genesis
  /\ serviceIds \in [Identities -> ServiceIds]
  /\ edits = 0
  /\ logged = << >>

------------------------------------------------------------------------------

LogEvent(service, outcome, details) ==
  /\ Len(chainEntries) < MaxEvents
  /\ LET event == [eventId |-> Len(chainEntries) + 1, service |-> service, outcome |-> outcome,
                   details |-> details]
         hash == CalculateEventHash(event, lastHash)
     IN /\ chainEntries' = Append(chainEntries,
                             [sequence |-> Len(chainEntries) + 1, event |-> event,
                              previousHash |-> lastHash, hash |-> hash])
        /\ lastHash' = hash
        /\ logged' = Append(logged, hash)
  /\ UNCHANGED <<serviceIds, edits>>

Edited(entries) ==
  /\ edits < MaxEdits /\ edits' = edits + 1
  /\ chainEntries' = entries
  /\ UNCHANGED <<lastHash, logged>>

\* A service changes the identity it logs with.
RenameService(identity, serviceId) ==
  /\ serviceIds[identity] # serviceId
  /\ serviceIds' = [serviceIds EXCEPT ![identity] = serviceId]
  /\ Edited(chainEntries)

\* What was handed out is changed: the event, in what is hashed or the rest,
\* the sequence, the hash or the link to the entry before.
ChangeEntry(i) ==
  /\ \/ \E outcome \in Outcomes \ {chainEntries[i].event.outcome} :
          Edited([chainEntries EXCEPT ![i].event.outcome = outcome])
     \/ \E details \in Details \ {chainEntries[i].event.details} :
          Edited([chainEntries EXCEPT ![i].event.details = details])
     \/ \E sequence \in (1..MaxEvents) \ {chainEntries[i].sequence} :
          Edited([chainEntries EXCEPT ![i].sequence = sequence])
     \/ LET entry == chainEntries[i]
        IN Edited([chainEntries EXCEPT ![i].hash =
                     CalculateEventHash(entry.event, entry.previousHash)])
     \/ i > 1 /\ Edited([chainEntries EXCEPT ![i].previousHash = chainEntries[i - 1].hash])
  /\ UNCHANGED serviceIds

AuditNext ==
  \/ \E service \in Identities, outcome \in Outcomes, details \in Details :
       LogEvent(service, outcome, details)
  \/ \E identity \in Identities, serviceId \in ServiceIds : RenameService(identity, serviceId)
  \/ \E i \in DOMAIN chainEntries : ChangeEntry(i)

AuditSpec == AuditInit /\ [][AuditNext]_auditVars

------------------------------------------------------------------------------

\* The hash getIntegrityReport expects entry i to follow, once it has verified
\* the entries before.
ExpectedPreviousHash(i) == IF i = 1 THEN Genesis ELSE chainEntries[i - 1].hash

Verified(i) ==
  LET entry == chainEntries[i]
  IN /\ entry.previousHash = ExpectedPreviousHash(i)
     /\ entry.hash = CalculateEventHash(entry.event, ExpectedPreviousHash(i))

InvalidAt(sequence) == [valid |-> FALSE, firstInvalidSequence |-> sequence]

LastVerifiedHash == IF chainEntries = << >> THEN Genesis ELSE chainEntries[Len(chainEntries)].hash

\* Faults: the link to the entry before is not looked at, the hash is computed
\* over the link the entry carries, and the last hash is not compared.
FaultReport ==
  LET broken == {i \in DOMAIN chainEntries :
                   chainEntries[i].hash #
                     CalculateEventHash(chainEntries[i].event, chainEntries[i].previousHash)}
  IN IF broken # {}
     THEN InvalidAt(chainEntries[CHOOSE i \in broken : \A j \in broken : i <= j].sequence)
     ELSE [valid |-> TRUE, firstInvalidSequence |-> 0]

\* firstInvalidSequence is what the first broken entry says its sequence is,
\* and 0 where the report leaves it out.
GetIntegrityReport ==
  LET broken == {i \in DOMAIN chainEntries : ~Verified(i)}
  IN CASE broken # {} ->
            InvalidAt(chainEntries[CHOOSE i \in broken : \A j \in broken : i <= j].sequence)
       [] broken = {} /\ LastVerifiedHash = lastHash -> [valid |-> TRUE, firstInvalidSequence |-> 0]
       [] OTHER -> InvalidAt(Len(chainEntries))

------------------------------------------------------------------------------

\* Types.  Hashes are contents; their type is that of the first they chain.
AuditTypeOK ==
  /\ DOMAIN chainEntries = DOMAIN logged /\ Len(logged) <= MaxEvents
  /\ \A i \in DOMAIN chainEntries : /\ chainEntries[i].event \in AuditEvent
                                     /\ chainEntries[i].sequence \in 1..MaxEvents
  /\ lastHash = (IF logged = << >> THEN Genesis ELSE logged[Len(logged)])
  /\ serviceIds \in [Identities -> ServiceIds]
  /\ edits \in 0..MaxEdits

\* Is what the hash of entry i covers what was logged, and so are the hash and
\* the link?
AsLogged(i) ==
  /\ chainEntries[i].hash = logged[i]
  /\ chainEntries[i].previousHash = (IF i = 1 THEN Genesis ELSE logged[i - 1])
  /\ CalculateEventHash(chainEntries[i].event, chainEntries[i].previousHash) = logged[i]

\* The report is valid exactly when every entry is what was logged in all that
\* is hashed: such a change does not pass, even one that rewrites the hashes
\* that follow, and nothing else is noticed, not new details of an event.  When
\* it is not valid and the sequences are what they were, it names the first
\* entry that was changed, or a later one if the hash of the first was changed
\* with it.
ReportHonest ==
  LET report == GetIntegrityReport
      changed == {i \in DOMAIN chainEntries : ~AsLogged(i)}
  IN /\ report.valid <=> changed = {}
     /\ ~report.valid /\ (\A i \in DOMAIN chainEntries : chainEntries[i].sequence = i) =>
          \E first \in changed :
            /\ \A i \in changed : first <= i
            /\ first <= report.firstInvalidSequence
            /\ chainEntries[first].hash = logged[first] => report.firstInvalidSequence = first

==============================================================================
