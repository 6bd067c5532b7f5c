--------------------------- MODULE DeviceIdentity ---------------------------
(***************************************************************************)
(* Pairing, credentials and revocation: the key files a desktop agent      *)
(* keeps, the enrolment by which the gateway comes to trust that key, the  *)
(* challenge and one-use token that open a connection, and the revocation  *)
(* that must reach connections still on their way in.                      *)
(*                                                                         *)
(* An identity (a device id with its key) is a number: the agent counts    *)
(* one up when it generates a new one.  The gateway's tables are SQLite    *)
(* transactions, so each is one step; a call that runs two transactions,   *)
(* or a transaction and then a socket operation, is two steps.             *)
(***************************************************************************)
EXTENDS Naturals, FiniteSets

CONSTANTS
  Sessions,      \* attempts of the agent to connect, each with its own token
  MaxIdentity    \* bound: identities the agent generates

ASSUME DeviceAssumption ==
  /\ MaxIdentity \in Nat
  /\ Sessions \cap {"none", "no", "committed", "done"} = {}

VARIABLES
  \* the agent's identity directory
  files,         \* SUBSET {"key", "metadata", "paired"}: the files that exist
  identity,      \* the identity of the key file: 0 before the first
  agentAt,       \* what the agent is doing with those files
  \* the gateway's tables
  enrolment,     \* identity -> state of its newest pairing session
  credential,    \* identity -> "none" | "active" | "revoked"
  challenge,     \* identity -> the attempt its open challenge was made for
  token,         \* attempt -> "none" | "issued" | "used"
  \* the gateway's connections
  owner,         \* attempt -> the identity it was made with
  stage,         \* attempt -> how far it has come
  registered,    \* identity -> the attempt the registry holds for it
  revoking       \* identity -> how far its revocation has come

agentVars == <<files, identity, agentAt>>
tableVars == <<enrolment, credential, challenge, token>>
linkVars == <<owner, stage, registered>>
deviceVars == <<agentVars, tableVars, linkVars, revoking>>

Identities == 1 .. MaxIdentity
NoSession == "none"

LiveEnrolment == {"pending", "approved"}
Stages == {"unused", "challenged", "exchanged", "holding", "accepted", "verified",
           "added", "welcomed", "closed"}

\* The stages of an attempt whose connection object exists.
Connected == {"added", "welcomed"}

DeviceTypeOK ==
  /\ files \subseteq {"key", "metadata", "paired"}
  /\ identity \in 0 .. MaxIdentity
  /\ agentAt \in {"idle", "generated", "completed", "removing"}
  /\ enrolment \in [Identities -> {"none", "pending", "approved", "denied",
                                   "expired", "completed"}]
  /\ credential \in [Identities -> {"none", "active", "revoked"}]
  /\ challenge \in [Identities -> Sessions \cup {NoSession}]
  /\ token \in [Sessions -> {"none", "issued", "used"}]
  /\ owner \in [Sessions -> 0 .. MaxIdentity]
  /\ stage \in [Sessions -> Stages]
  /\ registered \in [Identities -> Sessions \cup {NoSession}]
  /\ revoking \in [Identities -> {"no", "committed", "done"} \cup Sessions]

DeviceInit ==
  /\ files = {} /\ identity = 0 /\ agentAt = "idle"
  /\ enrolment = [i \in Identities |-> "none"]
  /\ credential = [i \in Identities |-> "none"]
  /\ challenge = [i \in Identities |-> NoSession]
  /\ token = [s \in Sessions |-> "none"]
  /\ owner = [s \in Sessions |-> 0]
  /\ stage = [s \in Sessions |-> "unused"]
  /\ registered = [i \in Identities |-> NoSession]
  /\ revoking = [i \in Identities |-> "no"]

-----------------------------------------------------------------------------
(* The agent's identity directory.                                         *)

\* DeviceIdentityStore.has_identity and ensure: either file counts.
HasIdentity == files \cap {"key", "metadata"} # {}

\* load_identity: it needs both files, and the key must match the metadata.
CanSign == {"key", "metadata"} \subseteq files

\* ensure writes the new key file, replacing nothing.
GenerateKey ==
  /\ agentAt = "idle" /\ ~HasIdentity /\ identity < MaxIdentity
  /\ identity' = identity + 1
  /\ files' = files \cup {"key"}
  /\ agentAt' = "generated"
  /\ UNCHANGED <<tableVars, linkVars, revoking>>

\* ... and then the metadata that names the device.
WriteMetadata ==
  /\ agentAt = "generated"
  /\ files' = files \cup {"metadata"}
  /\ agentAt' = "idle"
  /\ UNCHANGED <<identity, tableVars, linkVars, revoking>>

\* mark_paired, after complete answered or recover_pairing proved the key.
MarkPaired ==
  /\ agentAt = "completed"
  /\ files' = files \cup {"paired"}
  /\ agentAt' = "idle"
  /\ UNCHANGED <<identity, tableVars, linkVars, revoking>>

\* Mutant: any refusal deletes it, device_already_paired among them.
AnyErrorAnswered(i) == credential[i] # "none"

\* _request deletes the identity when the gateway answers 410, which is its
\* answer to credential_revoked and to nothing else.
RevocationAnswered(i) == credential[i] = "revoked"
LearnRevoked ==
  /\ agentAt = "idle" /\ CanSign /\ RevocationAnswered(identity)
  /\ agentAt' = "removing"
  /\ UNCHANGED <<files, identity, tableVars, linkVars, revoking>>

\* remove_after_revoke unlinks the key, the metadata and the marker, in order.
NextToRemove ==
  CASE "key" \in files -> "key"
    [] "metadata" \in files -> "metadata"
    [] OTHER -> "paired"
RemoveFile ==
  /\ agentAt = "removing"
  /\ files' = files \ {NextToRemove}
  /\ agentAt' = IF files' = {} THEN "idle" ELSE "removing"
  /\ UNCHANGED <<identity, tableVars, linkVars, revoking>>

\* The agent's process stops between two of those steps and starts again.
AgentStops ==
  /\ agentAt # "idle"
  /\ agentAt' = "idle"
  /\ UNCHANGED <<files, identity, tableVars, linkVars, revoking>>

-----------------------------------------------------------------------------
(* Enrolment.                                                              *)

\* start_pairing: one live enrolment per device, none beside a credential in
\* force.  The agent asks only while its marker is absent.
StartPairing ==
  /\ agentAt = "idle" /\ CanSign /\ "paired" \notin files
  /\ enrolment[identity] \notin LiveEnrolment
  /\ credential[identity] # "active"
  /\ enrolment' = [enrolment EXCEPT ![identity] = "pending"]
  /\ UNCHANGED <<agentVars, credential, challenge, token, linkVars, revoking>>

\* approve_pairing and confirm_pairing, deny_pairing: the operator's answer to a
\* pending enrolment that has not run out.
AnswerPairing(i) ==
  /\ enrolment[i] = "pending"
  /\ \E answer \in {"approved", "denied"} : enrolment' = [enrolment EXCEPT ![i] = answer]
  /\ UNCHANGED <<agentVars, credential, challenge, token, linkVars, revoking>>

\* expires_at passes.
PairingExpires(i) ==
  /\ enrolment[i] \in LiveEnrolment
  /\ enrolment' = [enrolment EXCEPT ![i] = "expired"]
  /\ UNCHANGED <<agentVars, credential, challenge, token, linkVars, revoking>>

\* complete_pairing: the device row and its credential, unless a row exists,
\* which it does for ever once the device was paired.  The answer may be lost.
CompletePairing ==
  /\ agentAt = "idle" /\ CanSign
  /\ enrolment[identity] = "approved"
  /\ credential[identity] = "none"
  /\ credential' = [credential EXCEPT ![identity] = "active"]
  /\ enrolment' = [enrolment EXCEPT ![identity] = "completed"]
  /\ agentAt' \in {"completed", "idle"}
  /\ UNCHANGED <<files, identity, challenge, token, linkVars, revoking>>

-----------------------------------------------------------------------------
(* One connection: challenge, token, hello, registration.                  *)

\* create_challenge: it replaces the device's earlier challenge.
CreateChallenge(s) ==
  /\ agentAt = "idle" /\ CanSign /\ stage[s] = "unused"
  /\ credential[identity] = "active"
  /\ owner' = [owner EXCEPT ![s] = identity]
  /\ challenge' = [challenge EXCEPT ![identity] = s]
  /\ stage' = [stage EXCEPT ![s] = "challenged"]
  /\ UNCHANGED <<agentVars, enrolment, credential, token, registered, revoking>>

\* exchange_challenge's first transaction: the challenge is this one's, open, and
\* the credential in force; it is used up.
UseChallenge(s) ==
  /\ stage[s] = "challenged"
  /\ challenge[owner[s]] = s
  /\ credential[owner[s]] = "active"
  /\ challenge' = [challenge EXCEPT ![owner[s]] = NoSession]
  /\ stage' = [stage EXCEPT ![s] = "exchanged"]
  /\ UNCHANGED <<agentVars, enrolment, credential, token, owner, registered, revoking>>

\* _issue_token, a transaction of its own that looks at no credential.
IssueToken(s) ==
  /\ stage[s] = "exchanged"
  /\ token' = [token EXCEPT ![s] = "issued"]
  /\ stage' = [stage EXCEPT ![s] = "holding"]
  /\ UNCHANGED <<agentVars, enrolment, credential, challenge, owner, registered, revoking>>

\* recover_pairing: a token obtained with the local key restores the marker.
RecoverPairing(s) ==
  /\ agentAt = "idle" /\ CanSign /\ "paired" \notin files
  /\ stage[s] = "holding" /\ owner[s] = identity
  /\ agentAt' = "completed"
  /\ stage' = [stage EXCEPT ![s] = "closed"]
  /\ UNCHANGED <<files, identity, tableVars, owner, registered, revoking>>

\* consume_access_token and websocket.accept.
ConsumeToken(s) ==
  /\ stage[s] = "holding"
  /\ token[s] = "issued"
  /\ credential[owner[s]] = "active"
  /\ token' = [token EXCEPT ![s] = "used"]
  /\ stage' = [stage EXCEPT ![s] = "accepted"]
  /\ UNCHANGED <<agentVars, enrolment, credential, challenge, owner, registered, revoking>>

\* verify_hello, when the hello arrived: the credential is still in force.
VerifyHello(s) ==
  /\ stage[s] = "accepted"
  /\ credential[owner[s]] = "active"
  /\ stage' = [stage EXCEPT ![s] = "verified"]
  /\ UNCHANGED <<agentVars, tableVars, owner, registered, revoking>>

\* registry.add; the connection it replaces is closed.
Add(s) ==
  /\ stage[s] = "verified"
  /\ LET previous == registered[owner[s]]
     IN stage' = [r \in Sessions |-> CASE r = s -> "added"
                                       [] r = previous -> "closed"
                                       [] OTHER -> stage[r]]
  /\ registered' = [registered EXCEPT ![owner[s]] = s]
  /\ UNCHANGED <<agentVars, tableVars, owner, revoking>>

\* registry.remove: only the session that is registered is taken out.
Without(s) ==
  [registered EXCEPT ![owner[s]] = IF @ = s THEN NoSession ELSE @]

\* Mutant: the check verify_hello made is taken as good enough.
ActiveWhenVerified(s) == credential[owner[s]] # "none"

\* The look at the credential after registry.add, and the welcome.
StillActive(s) == credential[owner[s]] = "active"
Welcome(s) ==
  /\ stage[s] = "added"
  /\ IF StillActive(s)
     THEN /\ stage' = [stage EXCEPT ![s] = "welcomed"]
          /\ UNCHANGED registered
     ELSE /\ stage' = [stage EXCEPT ![s] = "closed"]
          /\ registered' = Without(s)
  /\ UNCHANGED <<agentVars, tableVars, owner, revoking>>

\* An attempt that is refused, times out or loses its socket; the endpoint's
\* finally takes its connection out of the registry.
Leave(s) ==
  /\ stage[s] \notin {"unused", "closed"}
  /\ stage' = [stage EXCEPT ![s] = "closed"]
  /\ registered' = IF stage[s] \in Connected THEN Without(s) ELSE registered
  /\ UNCHANGED <<agentVars, tableVars, owner, revoking>>

-----------------------------------------------------------------------------
(* Revocation.                                                             *)

\* revoke's transaction: the credential, the tokens and the challenge at once.
Revoke(i) ==
  /\ credential[i] = "active"
  /\ credential' = [credential EXCEPT ![i] = "revoked"]
  /\ token' = [s \in Sessions |-> IF owner[s] = i /\ token[s] = "issued"
                                  THEN "used" ELSE token[s]]
  /\ challenge' = [challenge EXCEPT ![i] = NoSession]
  /\ revoking' = [revoking EXCEPT ![i] = "committed"]
  /\ UNCHANGED <<agentVars, enrolment, linkVars>>

\* close_device asks the registry for the connection of the device ...
FindConnection(i) ==
  /\ revoking[i] = "committed"
  /\ revoking' = [revoking EXCEPT ![i] =
                    IF registered[i] = NoSession THEN "done" ELSE registered[i]]
  /\ UNCHANGED <<agentVars, tableVars, linkVars>>

\* ... closes its socket, or gives up after close_timeout_seconds, and takes that
\* very session out of the registry.
CloseConnection(i) ==
  /\ revoking[i] \in Sessions
  /\ registered' = Without(revoking[i])
  /\ stage' \in {stage, [stage EXCEPT ![revoking[i]] = "closed"]}
  /\ revoking' = [revoking EXCEPT ![i] = "done"]
  /\ UNCHANGED <<agentVars, tableVars, owner>>

-----------------------------------------------------------------------------
DeviceNext ==
  \/ GenerateKey \/ WriteMetadata \/ MarkPaired
  \/ LearnRevoked \/ RemoveFile \/ AgentStops
  \/ StartPairing \/ CompletePairing
  \/ \E i \in Identities :
       \/ AnswerPairing(i) \/ PairingExpires(i)
       \/ Revoke(i) \/ FindConnection(i) \/ CloseConnection(i)
  \/ \E s \in Sessions :
       \/ CreateChallenge(s) \/ UseChallenge(s) \/ IssueToken(s) \/ RecoverPairing(s)
       \/ ConsumeToken(s) \/ VerifyHello(s) \/ Add(s) \/ Welcome(s) \/ Leave(s)

DeviceSpec == DeviceInit /\ [][DeviceNext]_deviceVars

-----------------------------------------------------------------------------
\* Revocation reaches a connection that is just registering: once revoke has
\* returned, the registry holds no session of the device that got past the look
\* at the credential which follows registry.add (revoke, serve_agent_websocket).
RevokedIsOut ==
  \A i \in Identities :
    revoking[i] = "done" /\ registered[i] # NoSession => stage[registered[i]] = "added"

\* A device whose credential is in force can still sign: its key is neither
\* replaced by ensure nor deleted by remove_after_revoke, wherever the agent was
\* stopped and whichever answers it missed (ensure, _request, recover_pairing).
ActiveCanSign ==
  \A i \in Identities : credential[i] = "active" => i = identity /\ CanSign
=============================================================================
