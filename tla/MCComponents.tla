---------------------------- MODULE MCComponents ----------------------------
(***************************************************************************)
(* Components that meet the rest of the system only through calls the      *)
(* other models already abstract: each behaviour of this specification is  *)
(* a behaviour of one of them, chosen at the start.                        *)
(***************************************************************************)
EXTENDS DeviceIdentity, AgentSessions, HostLink, DocumentEvents, FileIpc,
        CadPrograms, SealedPlans, DimensionPlans, ProgramContract, Scenes, TLC

VARIABLE component    \* the component that runs

MCPages == {1, 2}
MCClientOf == [r \in IpcRequests |-> "agent"]
MCRetryOf == [r \in {"first"} |-> "second"]

\* The names in these sets are those of the other sets of model values too: no
\* behaviour has two of them, so a permutation of the names is a symmetry of each
\* component.
MCSymmetry == Permutations(Sessions) \cup Permutations(Hellos)

Components == {"identity", "sessions", "host", "events", "ipc", "programs",
                "plans", "dimensions", "contract", "scenes"}

TypeOK ==
  /\ component \in Components
  /\ DeviceTypeOK /\ SessionsTypeOK /\ HostTypeOK /\ EventsTypeOK
  /\ IpcTypeOK /\ ProgramsTypeOK
  /\ PlansTypeOK /\ DimTypeOK /\ ContractTypeOK /\ ScenesTypeOK

\* What one component may start with in several ways is fixed in the others.
Init ==
  /\ component \in Components
  /\ DeviceInit /\ SessionsInit /\ HostInit /\ EventsInit
  /\ IpcInit /\ ProgramsInit
  /\ PlansInit /\ DimInit /\ ContractInit /\ ScenesInit
  /\ component # "ipc" => activeDoc = NoDocument
  /\ component # "plans" => certified = [b \in Builds |-> [support |-> "certified"]]
  /\ component # "dimensions" => current = (CHOOSE d \in Drawings : TRUE)
  /\ component # "scenes" => config = [options |-> "geometry", secret |-> "none"]

IdentityRuns ==
  /\ component = "identity" /\ DeviceNext
  /\ UNCHANGED <<component, sessionVars, hostLinkVars, eventVars,
                ipcVars, programVars, sealedVars, dimVars, contractVars, sceneVars>>
SessionsRun ==
  /\ component = "sessions" /\ SessionsNext
  /\ UNCHANGED <<component, deviceVars, hostLinkVars, eventVars,
                ipcVars, programVars, sealedVars, dimVars, contractVars, sceneVars>>
HostRuns ==
  /\ component = "host" /\ HostNext
  /\ UNCHANGED <<component, deviceVars, sessionVars, eventVars,
                ipcVars, programVars, sealedVars, dimVars, contractVars, sceneVars>>
EventsRun ==
  /\ component = "events" /\ EventsNext
  /\ UNCHANGED <<component, deviceVars, sessionVars, hostLinkVars,
                ipcVars, programVars, sealedVars, dimVars, contractVars, sceneVars>>
IpcRuns ==
  /\ component = "ipc" /\ IpcNext
  /\ UNCHANGED <<component, deviceVars, sessionVars, hostLinkVars, eventVars,
                programVars, sealedVars, dimVars, contractVars, sceneVars>>
ProgramsRun ==
  /\ component = "programs" /\ ProgramsNext
  /\ UNCHANGED <<component, deviceVars, sessionVars, hostLinkVars, eventVars,
                ipcVars, sealedVars, dimVars, contractVars, sceneVars>>
PlansRun ==
  /\ component = "plans" /\ PlansNext
  /\ UNCHANGED <<component, deviceVars, sessionVars, hostLinkVars, eventVars,
                ipcVars, programVars, dimVars, contractVars, sceneVars>>
DimensionsRun ==
  /\ component = "dimensions" /\ DimNext
  /\ UNCHANGED <<component, deviceVars, sessionVars, hostLinkVars, eventVars,
                ipcVars, programVars, sealedVars, contractVars, sceneVars>>
ContractRuns ==
  /\ component = "contract" /\ ContractNext
  /\ UNCHANGED <<component, deviceVars, sessionVars, hostLinkVars, eventVars,
                ipcVars, programVars, sealedVars, dimVars, sceneVars>>
ScenesRun ==
  /\ component = "scenes" /\ ScenesNext
  /\ UNCHANGED <<component, deviceVars, sessionVars, hostLinkVars, eventVars,
                ipcVars, programVars, sealedVars, dimVars, contractVars>>

Next == IdentityRuns \/ SessionsRun \/ HostRuns \/ EventsRun \/ IpcRuns
         \/ ProgramsRun \/ PlansRun \/ DimensionsRun \/ ContractRuns \/ ScenesRun

Spec ==
  Init /\ [][Next]_<<component, deviceVars, sessionVars, hostLinkVars, eventVars,
                    ipcVars, programVars, sealedVars, dimVars, contractVars, sceneVars>>
=============================================================================
