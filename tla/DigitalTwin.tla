------------------------------- MODULE DigitalTwin -------------------------------
(***************************************************************************)
(* DigitalTwinService of services/digital-twin.  Every operation on a twin *)
(* looks it up when it is called and goes on one turn of the microtask     *)
(* queue later; a simulation takes three turns, the last of which runs it  *)
(* from start to end.  The queue is first in, first out; calls come at any *)
(* moment.                                                                 *)
(*                                                                         *)
(* Twins are numbered in the order of creation.  A twin is the asset it    *)
(* stands for, an ingested state a reading and its version.                *)
(***************************************************************************)
EXTENDS Naturals, Sequences, Maps

CONSTANTS
  TwinAssets,
  Readings,       \* properties of ingested states
  HistoryLimit,   \* states kept of a twin; 5000 in the code
  MaxTwins,       \* bound on the twins created
  MaxTwinCalls    \* bound on the calls made

ASSUME HistoryBounds ==
  HistoryLimit \in Nat \ {0} /\ MaxTwins \in Nat /\ MaxTwinCalls \in Nat

VARIABLES
  twins,
  stateHistory,
  simulations,
  twinJobs,       \* operations past an await, in the order they resume
  created,        \* twins created so far
  twinCalls,      \* calls made so far
  accepted        \* history: readings of each twin since its history began

twinVars == <<twins, stateHistory, simulations, twinJobs, created, twinCalls, accepted>>

TwinState == [reading : Readings, version : Nat]

\* pending and running are never seen between two turns.
SimulationRun == [twin : 1..created, status : {"completed", "failed"}]

TwinInit ==
  /\ twins = EmptyMap
  /\ stateHistory = EmptyMap
  /\ simulations = << >>
  /\ twinJobs = << >>
  /\ created = 0
  /\ twinCalls = 0
  /\ accepted = EmptyMap

HistoryOf(id) == IF id \in DOMAIN stateHistory THEN stateHistory[id] ELSE << >>

AcceptedOf(id) == IF id \in DOMAIN accepted THEN accepted[id] ELSE << >>

\* slice(-limit)
LastOf(s, limit) == IF Len(s) > limit THEN SubSeq(s, Len(s) - limit + 1, Len(s)) ELSE s

HasActiveSimulation(id) ==
  \E i \in DOMAIN simulations :
    simulations[i].twin = id /\ simulations[i].status \in {"pending", "running"}

------------------------------------------------------------------------------

\* createTwin: one asset, one twin.
CreateTwin(asset) ==
  /\ created < MaxTwins
  /\ \A id \in DOMAIN twins : twins[id] # asset
  /\ created' = created + 1
  /\ twins' = Put(twins, created + 1, asset)
  /\ UNCHANGED <<stateHistory, simulations, twinJobs, twinCalls, accepted>>

\* A call finds the twin, or is refused, before its first await.
CallTwin(id, job) ==
  /\ twinCalls < MaxTwinCalls /\ twinCalls' = twinCalls + 1
  /\ id \in DOMAIN twins
  /\ twinJobs' = Append(twinJobs, job)
  /\ UNCHANGED <<twins, stateHistory, simulations, created, accepted>>

\* updateTwin merges its changes, another asset or other fields, into the twin
\* it finds when it is called.
CallUpdate(id) ==
  \E asset \in TwinAssets : CallTwin(id, [kind |-> "update", id |-> id, twin |-> asset])

CallDelete(id) == CallTwin(id, [kind |-> "delete", id |-> id])

CallIngest(id) ==
  \E reading \in Readings : CallTwin(id, [kind |-> "ingest", id |-> id, reading |-> reading])

CallSimulate(id) == CallTwin(id, [kind |-> "simulate", id |-> id])

------------------------------------------------------------------------------

Resumed(kind) == twinJobs # << >> /\ Head(twinJobs).kind = kind

\* Stored whether or not the twin is still there.
UpdateTwin ==
  /\ Resumed("update")
  /\ twins' = Put(twins, Head(twinJobs).id, Head(twinJobs).twin)
  /\ twinJobs' = Tail(twinJobs)
  /\ UNCHANGED <<stateHistory, simulations, created, twinCalls, accepted>>

\* Fault: the history stays behind.
FaultHistoryKept ==
  /\ Resumed("delete")
  /\ twinJobs' = Tail(twinJobs)
  /\ LET id == Head(twinJobs).id
     IN IF HasActiveSimulation(id)
        THEN UNCHANGED <<twins, accepted>>
        ELSE twins' = Delete(twins, id) /\ accepted' = Delete(accepted, id)
  /\ UNCHANGED <<stateHistory, simulations, created, twinCalls>>

DeleteTwin ==
  /\ Resumed("delete")
  /\ twinJobs' = Tail(twinJobs)
  /\ LET id == Head(twinJobs).id
     IN IF HasActiveSimulation(id)
        THEN UNCHANGED <<twins, stateHistory, accepted>>
        ELSE /\ twins' = Delete(twins, id)
             /\ stateHistory' = Delete(stateHistory, id)
             /\ accepted' = Delete(accepted, id)
  /\ UNCHANGED <<simulations, created, twinCalls>>

IngestState ==
  /\ Resumed("ingest")
  /\ twinJobs' = Tail(twinJobs)
  /\ LET id == Head(twinJobs).id
         reading == Head(twinJobs).reading
         nextState == [reading |-> reading, version |-> Len(HistoryOf(id)) + 1]
     IN /\ stateHistory' = Put(stateHistory, id, LastOf(Append(HistoryOf(id), nextState), HistoryLimit))
        /\ accepted' = Put(accepted, id, Append(AcceptedOf(id), reading))
  /\ UNCHANGED <<twins, simulations, created, twinCalls>>

\* runSimulation: refused when one is active, or when getLatestState does not
\* find the twin any more.
SimulationChecked ==
  /\ Resumed("simulate")
  /\ LET id == Head(twinJobs).id
     IN twinJobs' = IF HasActiveSimulation(id) \/ id \notin DOMAIN twins
                    THEN Tail(twinJobs)
                    ELSE Append(Tail(twinJobs), [kind |-> "latest", id |-> id])
  /\ UNCHANGED <<twins, stateHistory, simulations, created, twinCalls, accepted>>

\* getLatestState
LatestStateRead ==
  /\ Resumed("latest")
  /\ twinJobs' = Append(Tail(twinJobs), [kind |-> "run", id |-> Head(twinJobs).id])
  /\ UNCHANGED <<twins, stateHistory, simulations, created, twinCalls, accepted>>

\* All steps at once; a step that breaks the schema fails the run.
SimulationRuns ==
  /\ Resumed("run")
  /\ \E status \in {"completed", "failed"} :
       simulations' = Append(simulations, [twin |-> Head(twinJobs).id, status |-> status])
  /\ twinJobs' = Tail(twinJobs)
  /\ UNCHANGED <<twins, stateHistory, created, twinCalls, accepted>>

TwinNext ==
  \/ \E asset \in TwinAssets : CreateTwin(asset)
  \/ \E id \in DOMAIN twins : CallUpdate(id) \/ CallDelete(id) \/ CallIngest(id) \/ CallSimulate(id)
  \/ UpdateTwin \/ DeleteTwin \/ IngestState
  \/ SimulationChecked \/ LatestStateRead \/ SimulationRuns

TwinSpec == TwinInit /\ [][TwinNext]_twinVars

------------------------------------------------------------------------------

\* Types.
TwinTypeOK ==
  /\ created \in Nat /\ twinCalls \in Nat
  /\ twins \in MapsOf(1..created, TwinAssets)
  /\ DOMAIN stateHistory \subseteq 1..created
  /\ \A id \in DOMAIN stateHistory : stateHistory[id] \in Seq(TwinState)
  /\ DOMAIN accepted = DOMAIN stateHistory
  /\ \A id \in DOMAIN accepted : accepted[id] \in Seq(Readings)
  /\ simulations \in Seq(SimulationRun)
  /\ \A i \in DOMAIN twinJobs :
       /\ twinJobs[i].kind \in {"update", "delete", "ingest", "simulate", "latest", "run"}
       /\ twinJobs[i].id \in 1..created

\* No reading is lost, doubled or reordered by operations that overlap: the
\* history of a twin is the last HistoryLimit readings accepted since it was
\* created or deleted.  Versions count them until the history is full; from
\* then on every state is HistoryLimit + 1.
HistoryAccounts ==
  \A id \in DOMAIN stateHistory :
    LET history == stateHistory[id]
        total == Len(AcceptedOf(id))
    IN /\ Len(history) = (IF total < HistoryLimit THEN total ELSE HistoryLimit)
       /\ \A i \in DOMAIN history :
            LET place == total - Len(history) + i
            IN /\ history[i].reading = accepted[id][place]
               /\ history[i].version = (IF place <= HistoryLimit THEN place ELSE HistoryLimit + 1)

==============================================================================
