-------------------------- MODULE ConnectionProofs --------------------------
(***************************************************************************)
(* Proofs about the connections of a device: its identity, credential and  *)
(* registration (DeviceIdentity), and what the Gateway stores and shows of *)
(* its sessions (AgentSessions).                                           *)
(***************************************************************************)
EXTENDS DeviceIdentity, AgentSessions, TLAPS

-----------------------------------------------------------------------------
(* Identity, credential and registration.                                  *)

\* A key is one of an identity, and so is every attempt that was made.
OwnersKnown ==
  /\ HasIdentity \/ agentAt = "generated" => identity # 0
  /\ \A s \in Sessions : stage[s] # "unused" => owner[s] \in Identities

\* Files are deleted only once no credential is in force.
RemovalIsLate ==
  agentAt = "removing" => \A i \in Identities : credential[i] # "active"

\* The registry holds a connection that exists, under its own device.
RegistryInv ==
  \A i \in Identities :
    registered[i] # NoSession =>
      owner[registered[i]] = i /\ stage[registered[i]] \in Connected

\* A revocation that has begun has taken the credential, and the session it found
\* is one of its device.
RevocationInv ==
  \A i \in Identities :
    /\ revoking[i] # "no" => credential[i] = "revoked"
    /\ revoking[i] \in Sessions =>
         owner[revoking[i]] = i /\ stage[revoking[i]] # "unused"

\* While close_device has its session in hand, any other one came after it and is
\* still before the look at the credential.
CaughtOrEarly ==
  \A i \in Identities :
    revoking[i] \in Sessions /\ registered[i] \notin {NoSession, revoking[i]}
      => stage[registered[i]] = "added"

DeviceInv ==
  /\ DeviceTypeOK /\ OwnersKnown /\ RemovalIsLate /\ RegistryInv /\ RevocationInv
  /\ CaughtOrEarly /\ RevokedIsOut /\ ActiveCanSign

LEMMA DeviceInitially == DeviceInit => DeviceInv
  <1> SUFFICES ASSUME DeviceInit PROVE DeviceInv
    OBVIOUS
  <1> USE DeviceAssumption
  <1>1. DeviceTypeOK
    BY DEF DeviceInit, DeviceTypeOK, Identities, NoSession, Stages
  <1>2. OwnersKnown /\ RemovalIsLate /\ RegistryInv
    BY DEF DeviceInit, OwnersKnown, HasIdentity, RemovalIsLate, RegistryInv, Identities
  <1>3. RevocationInv /\ CaughtOrEarly /\ RevokedIsOut /\ ActiveCanSign
    BY DEF DeviceInit, RevocationInv, CaughtOrEarly, RevokedIsOut, ActiveCanSign, Identities
  <1> QED
    BY <1>1, <1>2, <1>3 DEF DeviceInv

-----------------------------------------------------------------------------
(* The sessions as they are shown.                                         *)

\* Only the session that describes the device has an open row, and its handler is
\* past the welcome.
RowInv ==
  \A s \in OpenRows :
    describedBy = s /\ place[s] \in {"recovering", "reading", "refusing"}

\* A device shown online has an open row.
OnlineInv == ListedOnline => OpenRows # {}

\* A session in the registry that is stored and has been heard of.
FreshInv == \A s \in OpenRows : inRegistry = s /\ fresh => deviceStatus # "offline"

SessionsInv == SessionsTypeOK /\ RowInv /\ OnlineInv /\ FreshInv
-----------------------------------------------------------------------------
(* Steps of an identity and its connections.                               *)

\* registry.remove changes one entry at most.
LEMMA WithoutOne ==
  ASSUME DeviceTypeOK, NEW s \in Sessions
  PROVE  /\ Without(s) \in [Identities -> Sessions \cup {NoSession}]
         /\ \A i \in Identities :
              Without(s)[i] = IF i = owner[s] /\ registered[i] = s THEN NoSession ELSE registered[i]
<1>1. registered \in [Identities -> Sessions \cup {NoSession}]
  BY DEF DeviceTypeOK
<1> QED
  BY <1>1 DEF Without

LEMMA DeviceTypesStep ==
  ASSUME DeviceTypeOK, OwnersKnown, RegistryInv, RevocationInv, [DeviceNext]_deviceVars
  PROVE  DeviceTypeOK'
<1> USE DeviceAssumption DEF DeviceTypeOK, Identities, Stages, NoSession, OwnersKnown, CanSign, HasIdentity, Connected
<1>1. CASE UNCHANGED deviceVars
  BY <1>1 DEF deviceVars, agentVars, tableVars, linkVars
<1>2. CASE GenerateKey
  BY <1>2 DEF GenerateKey, agentVars, tableVars, linkVars
<1>3. CASE WriteMetadata
  BY <1>3 DEF WriteMetadata, agentVars, tableVars, linkVars
<1>4. CASE MarkPaired
  BY <1>4 DEF MarkPaired, agentVars, tableVars, linkVars
<1>5. CASE LearnRevoked
  BY <1>5 DEF LearnRevoked, agentVars, tableVars, linkVars, RevocationAnswered
<1>6. CASE RemoveFile
  BY <1>6 DEF RemoveFile, agentVars, tableVars, linkVars, NextToRemove
<1>7. CASE AgentStops
  BY <1>7 DEF AgentStops, agentVars, tableVars, linkVars
<1>8. CASE StartPairing
  BY <1>8 DEF StartPairing, agentVars, tableVars, linkVars
<1>9. CASE CompletePairing
  BY <1>9 DEF CompletePairing, agentVars, tableVars, linkVars
<1>10. ASSUME NEW i \in Identities, AnswerPairing(i) PROVE DeviceTypeOK'
  BY <1>10 DEF AnswerPairing, agentVars, tableVars, linkVars
<1>11. ASSUME NEW i \in Identities, PairingExpires(i) PROVE DeviceTypeOK'
  BY <1>11 DEF PairingExpires, agentVars, tableVars, linkVars
<1>12. ASSUME NEW i \in Identities, Revoke(i) PROVE DeviceTypeOK'
  BY <1>12 DEF Revoke, agentVars, tableVars, linkVars
<1>13. ASSUME NEW i \in Identities, FindConnection(i) PROVE DeviceTypeOK'
  BY <1>13 DEF FindConnection, agentVars, tableVars, linkVars
<1>14. ASSUME NEW i \in Identities, CloseConnection(i) PROVE DeviceTypeOK'
  BY <1>14, WithoutOne DEF CloseConnection, agentVars, tableVars, linkVars
<1>15. ASSUME NEW s \in Sessions, CreateChallenge(s) PROVE DeviceTypeOK'
  BY <1>15 DEF CreateChallenge, agentVars, tableVars, linkVars
<1>16. ASSUME NEW s \in Sessions, UseChallenge(s) PROVE DeviceTypeOK'
  BY <1>16 DEF UseChallenge, agentVars, tableVars, linkVars
<1>17. ASSUME NEW s \in Sessions, IssueToken(s) PROVE DeviceTypeOK'
  BY <1>17 DEF IssueToken, agentVars, tableVars, linkVars
<1>18. ASSUME NEW s \in Sessions, RecoverPairing(s) PROVE DeviceTypeOK'
  BY <1>18 DEF RecoverPairing, agentVars, tableVars, linkVars
<1>19. ASSUME NEW s \in Sessions, ConsumeToken(s) PROVE DeviceTypeOK'
  BY <1>19 DEF ConsumeToken, agentVars, tableVars, linkVars
<1>20. ASSUME NEW s \in Sessions, VerifyHello(s) PROVE DeviceTypeOK'
  BY <1>20 DEF VerifyHello, agentVars, tableVars, linkVars
<1>21. ASSUME NEW s \in Sessions, Add(s) PROVE DeviceTypeOK'
  BY <1>21 DEF Add, agentVars, tableVars, linkVars
<1>22. ASSUME NEW s \in Sessions, Welcome(s) PROVE DeviceTypeOK'
  <2>1. CASE StillActive(s)
    BY <1>22, <2>1 DEF Welcome, StillActive, agentVars, tableVars
  <2>2. CASE ~StillActive(s)
    <3>1. stage' = [stage EXCEPT ![s] = "closed"] /\ registered' = Without(s)
      BY <1>22, <2>2 DEF Welcome
    <3>2. UNCHANGED <<agentVars, tableVars, owner, revoking>>
      BY <1>22 DEF Welcome
    <3> QED
      BY <1>22, <2>2, <3>1, <3>2, WithoutOne DEF Welcome, StillActive, agentVars, tableVars
  <2> QED
    BY <2>1, <2>2
<1>23. ASSUME NEW s \in Sessions, Leave(s) PROVE DeviceTypeOK'
  BY <1>23, WithoutOne DEF Leave, agentVars, tableVars, linkVars
<1> QED
  BY <1>1, <1>2, <1>3, <1>4, <1>5, <1>6, <1>7, <1>8, <1>9, <1>10, <1>11, <1>12, <1>13, <1>14, <1>15, <1>16, <1>17, <1>18, <1>19, <1>20, <1>21, <1>22, <1>23 DEF DeviceNext

LEMMA OwnersStep ==
  ASSUME DeviceTypeOK, OwnersKnown, RegistryInv, RevocationInv, [DeviceNext]_deviceVars
  PROVE  OwnersKnown'
<1> USE DeviceAssumption DEF DeviceTypeOK, Identities, Stages, NoSession, OwnersKnown, CanSign, HasIdentity, RegistryInv, RevocationInv, Connected
<1>1. CASE UNCHANGED deviceVars
  BY <1>1 DEF deviceVars, agentVars, tableVars, linkVars
<1>2. CASE GenerateKey
  BY <1>2 DEF GenerateKey, agentVars, tableVars, linkVars
<1>3. CASE WriteMetadata
  BY <1>3 DEF WriteMetadata, agentVars, tableVars, linkVars
<1>4. CASE MarkPaired
  BY <1>4 DEF MarkPaired, agentVars, tableVars, linkVars
<1>5. CASE LearnRevoked
  BY <1>5 DEF LearnRevoked, agentVars, tableVars, linkVars, RevocationAnswered
<1>6. CASE RemoveFile
  BY <1>6 DEF RemoveFile, agentVars, tableVars, linkVars, NextToRemove
<1>7. CASE AgentStops
  BY <1>7 DEF AgentStops, agentVars, tableVars, linkVars
<1>8. CASE StartPairing
  BY <1>8 DEF StartPairing, agentVars, tableVars, linkVars
<1>9. CASE CompletePairing
  BY <1>9 DEF CompletePairing, agentVars, tableVars, linkVars
<1>10. ASSUME NEW i \in Identities, AnswerPairing(i) PROVE OwnersKnown'
  BY <1>10 DEF AnswerPairing, agentVars, tableVars, linkVars
<1>11. ASSUME NEW i \in Identities, PairingExpires(i) PROVE OwnersKnown'
  BY <1>11 DEF PairingExpires, agentVars, tableVars, linkVars
<1>12. ASSUME NEW i \in Identities, Revoke(i) PROVE OwnersKnown'
  BY <1>12 DEF Revoke, agentVars, tableVars, linkVars
<1>13. ASSUME NEW i \in Identities, FindConnection(i) PROVE OwnersKnown'
  BY <1>13 DEF FindConnection, agentVars, tableVars, linkVars
<1>14. ASSUME NEW i \in Identities, CloseConnection(i) PROVE OwnersKnown'
  BY <1>14, WithoutOne DEF CloseConnection, agentVars, tableVars, linkVars
<1>15. ASSUME NEW s \in Sessions, CreateChallenge(s) PROVE OwnersKnown'
  BY <1>15 DEF CreateChallenge, agentVars, tableVars, linkVars
<1>16. ASSUME NEW s \in Sessions, UseChallenge(s) PROVE OwnersKnown'
  BY <1>16 DEF UseChallenge, agentVars, tableVars, linkVars
<1>17. ASSUME NEW s \in Sessions, IssueToken(s) PROVE OwnersKnown'
  BY <1>17 DEF IssueToken, agentVars, tableVars, linkVars
<1>18. ASSUME NEW s \in Sessions, RecoverPairing(s) PROVE OwnersKnown'
  BY <1>18 DEF RecoverPairing, agentVars, tableVars, linkVars
<1>19. ASSUME NEW s \in Sessions, ConsumeToken(s) PROVE OwnersKnown'
  BY <1>19 DEF ConsumeToken, agentVars, tableVars, linkVars
<1>20. ASSUME NEW s \in Sessions, VerifyHello(s) PROVE OwnersKnown'
  BY <1>20 DEF VerifyHello, agentVars, tableVars, linkVars
<1>21. ASSUME NEW s \in Sessions, Add(s) PROVE OwnersKnown'
  BY <1>21 DEF Add, agentVars, tableVars, linkVars
<1>22. ASSUME NEW s \in Sessions, Welcome(s) PROVE OwnersKnown'
  <2>1. CASE StillActive(s)
    BY <1>22, <2>1 DEF Welcome, StillActive, agentVars, tableVars
  <2>2. CASE ~StillActive(s)
    <3>1. stage' = [stage EXCEPT ![s] = "closed"] /\ registered' = Without(s)
      BY <1>22, <2>2 DEF Welcome
    <3>2. UNCHANGED <<agentVars, tableVars, owner, revoking>>
      BY <1>22 DEF Welcome
    <3> QED
      BY <1>22, <2>2, <3>1, <3>2, WithoutOne DEF Welcome, StillActive, agentVars, tableVars
  <2> QED
    BY <2>1, <2>2
<1>23. ASSUME NEW s \in Sessions, Leave(s) PROVE OwnersKnown'
  BY <1>23, WithoutOne DEF Leave, agentVars, tableVars, linkVars
<1> QED
  BY <1>1, <1>2, <1>3, <1>4, <1>5, <1>6, <1>7, <1>8, <1>9, <1>10, <1>11, <1>12, <1>13, <1>14, <1>15, <1>16, <1>17, <1>18, <1>19, <1>20, <1>21, <1>22, <1>23 DEF DeviceNext

\* Keys: generated only when no credential is in force, deleted only then.
LEMMA KeysStep ==
  ASSUME DeviceTypeOK, OwnersKnown, RemovalIsLate, ActiveCanSign, [DeviceNext]_deviceVars
  PROVE  RemovalIsLate' /\ ActiveCanSign'
<1> USE DeviceAssumption DEF DeviceTypeOK, Identities, OwnersKnown, CanSign, HasIdentity, RemovalIsLate, ActiveCanSign
<1>1. CASE UNCHANGED deviceVars
  BY <1>1 DEF deviceVars, agentVars, tableVars, linkVars
<1>2. CASE GenerateKey
  BY <1>2 DEF GenerateKey, agentVars, tableVars, linkVars
<1>3. CASE WriteMetadata
  BY <1>3 DEF WriteMetadata, agentVars, tableVars, linkVars
<1>4. CASE MarkPaired
  BY <1>4 DEF MarkPaired, agentVars, tableVars, linkVars
<1>5. CASE LearnRevoked
  BY <1>5 DEF LearnRevoked, agentVars, tableVars, linkVars, RevocationAnswered
<1>6. CASE RemoveFile
  BY <1>6 DEF RemoveFile, agentVars, tableVars, linkVars, NextToRemove
<1>7. CASE AgentStops
  BY <1>7 DEF AgentStops, agentVars, tableVars, linkVars
<1>8. CASE StartPairing
  BY <1>8 DEF StartPairing, agentVars, tableVars, linkVars
<1>9. CASE CompletePairing
  BY <1>9 DEF CompletePairing, agentVars, tableVars, linkVars
<1>10. ASSUME NEW i \in Identities, AnswerPairing(i) PROVE RemovalIsLate' /\ ActiveCanSign'
  BY <1>10 DEF AnswerPairing, agentVars, tableVars, linkVars
<1>11. ASSUME NEW i \in Identities, PairingExpires(i) PROVE RemovalIsLate' /\ ActiveCanSign'
  BY <1>11 DEF PairingExpires, agentVars, tableVars, linkVars
<1>12. ASSUME NEW i \in Identities, Revoke(i) PROVE RemovalIsLate' /\ ActiveCanSign'
  BY <1>12 DEF Revoke, agentVars, tableVars, linkVars
<1>13. ASSUME NEW i \in Identities, FindConnection(i) PROVE RemovalIsLate' /\ ActiveCanSign'
  BY <1>13 DEF FindConnection, agentVars, tableVars, linkVars
<1>14. ASSUME NEW i \in Identities, CloseConnection(i) PROVE RemovalIsLate' /\ ActiveCanSign'
  BY <1>14, WithoutOne DEF CloseConnection, agentVars, tableVars, linkVars
<1>15. ASSUME NEW s \in Sessions, CreateChallenge(s) PROVE RemovalIsLate' /\ ActiveCanSign'
  BY <1>15 DEF CreateChallenge, agentVars, tableVars, linkVars
<1>16. ASSUME NEW s \in Sessions, UseChallenge(s) PROVE RemovalIsLate' /\ ActiveCanSign'
  BY <1>16 DEF UseChallenge, agentVars, tableVars, linkVars
<1>17. ASSUME NEW s \in Sessions, IssueToken(s) PROVE RemovalIsLate' /\ ActiveCanSign'
  BY <1>17 DEF IssueToken, agentVars, tableVars, linkVars
<1>18. ASSUME NEW s \in Sessions, RecoverPairing(s) PROVE RemovalIsLate' /\ ActiveCanSign'
  BY <1>18 DEF RecoverPairing, agentVars, tableVars, linkVars
<1>19. ASSUME NEW s \in Sessions, ConsumeToken(s) PROVE RemovalIsLate' /\ ActiveCanSign'
  BY <1>19 DEF ConsumeToken, agentVars, tableVars, linkVars
<1>20. ASSUME NEW s \in Sessions, VerifyHello(s) PROVE RemovalIsLate' /\ ActiveCanSign'
  BY <1>20 DEF VerifyHello, agentVars, tableVars, linkVars
<1>21. ASSUME NEW s \in Sessions, Add(s) PROVE RemovalIsLate' /\ ActiveCanSign'
  BY <1>21 DEF Add, agentVars, tableVars, linkVars
<1>22. ASSUME NEW s \in Sessions, Welcome(s) PROVE RemovalIsLate' /\ ActiveCanSign'
  <2>1. CASE StillActive(s)
    BY <1>22, <2>1 DEF Welcome, StillActive, agentVars, tableVars
  <2>2. CASE ~StillActive(s)
    <3>1. stage' = [stage EXCEPT ![s] = "closed"] /\ registered' = Without(s)
      BY <1>22, <2>2 DEF Welcome
    <3>2. UNCHANGED <<agentVars, tableVars, owner, revoking>>
      BY <1>22 DEF Welcome
    <3> QED
      BY <1>22, <2>2, <3>1, <3>2, WithoutOne DEF Welcome, StillActive, agentVars, tableVars
  <2> QED
    BY <2>1, <2>2
<1>23. ASSUME NEW s \in Sessions, Leave(s) PROVE RemovalIsLate' /\ ActiveCanSign'
  BY <1>23, WithoutOne DEF Leave, agentVars, tableVars, linkVars
<1> QED
  BY <1>1, <1>2, <1>3, <1>4, <1>5, <1>6, <1>7, <1>8, <1>9, <1>10, <1>11, <1>12, <1>13, <1>14, <1>15, <1>16, <1>17, <1>18, <1>19, <1>20, <1>21, <1>22, <1>23 DEF DeviceNext

\* The registry and the attempts.
LEMMA RegistryStep ==
  ASSUME DeviceTypeOK, OwnersKnown, RegistryInv, [DeviceNext]_deviceVars
  PROVE  RegistryInv'
<1> USE DeviceAssumption DEF DeviceTypeOK, Identities, Stages, NoSession, OwnersKnown, Connected, RegistryInv
<1>1. CASE UNCHANGED deviceVars
  BY <1>1 DEF deviceVars, agentVars, tableVars, linkVars
<1>2. CASE GenerateKey
  BY <1>2 DEF GenerateKey, agentVars, tableVars, linkVars
<1>3. CASE WriteMetadata
  BY <1>3 DEF WriteMetadata, agentVars, tableVars, linkVars
<1>4. CASE MarkPaired
  BY <1>4 DEF MarkPaired, agentVars, tableVars, linkVars
<1>5. CASE LearnRevoked
  BY <1>5 DEF LearnRevoked, agentVars, tableVars, linkVars, RevocationAnswered
<1>6. CASE RemoveFile
  BY <1>6 DEF RemoveFile, agentVars, tableVars, linkVars, NextToRemove
<1>7. CASE AgentStops
  BY <1>7 DEF AgentStops, agentVars, tableVars, linkVars
<1>8. CASE StartPairing
  BY <1>8 DEF StartPairing, agentVars, tableVars, linkVars
<1>9. CASE CompletePairing
  BY <1>9 DEF CompletePairing, agentVars, tableVars, linkVars
<1>10. ASSUME NEW i \in Identities, AnswerPairing(i) PROVE RegistryInv'
  BY <1>10 DEF AnswerPairing, agentVars, tableVars, linkVars
<1>11. ASSUME NEW i \in Identities, PairingExpires(i) PROVE RegistryInv'
  BY <1>11 DEF PairingExpires, agentVars, tableVars, linkVars
<1>12. ASSUME NEW i \in Identities, Revoke(i) PROVE RegistryInv'
  BY <1>12 DEF Revoke, agentVars, tableVars, linkVars
<1>13. ASSUME NEW i \in Identities, FindConnection(i) PROVE RegistryInv'
  BY <1>13 DEF FindConnection, agentVars, tableVars, linkVars
<1>14. ASSUME NEW i \in Identities, CloseConnection(i) PROVE RegistryInv'
  <2> DEFINE s == revoking[i]
  <2>1. s \in Sessions /\ registered' = Without(s)
    BY <1>14 DEF CloseConnection
  <2>2. owner' = owner /\ \A t \in Sessions : t # s => stage'[t] = stage[t]
    BY <1>14 DEF CloseConnection
  <2> HIDE DEF s
  <2>3. ASSUME NEW j \in Identities, registered'[j] # NoSession
        PROVE  registered'[j] = registered[j] /\ registered[j] # s
    BY <2>1, <2>3, WithoutOne
  <2> QED
    BY <2>2, <2>3
<1>15. ASSUME NEW s \in Sessions, CreateChallenge(s) PROVE RegistryInv'
  BY <1>15 DEF CreateChallenge, agentVars, tableVars, linkVars
<1>16. ASSUME NEW s \in Sessions, UseChallenge(s) PROVE RegistryInv'
  BY <1>16 DEF UseChallenge, agentVars, tableVars, linkVars
<1>17. ASSUME NEW s \in Sessions, IssueToken(s) PROVE RegistryInv'
  BY <1>17 DEF IssueToken, agentVars, tableVars, linkVars
<1>18. ASSUME NEW s \in Sessions, RecoverPairing(s) PROVE RegistryInv'
  BY <1>18 DEF RecoverPairing, agentVars, tableVars, linkVars
<1>19. ASSUME NEW s \in Sessions, ConsumeToken(s) PROVE RegistryInv'
  BY <1>19 DEF ConsumeToken, agentVars, tableVars, linkVars
<1>20. ASSUME NEW s \in Sessions, VerifyHello(s) PROVE RegistryInv'
  BY <1>20 DEF VerifyHello, agentVars, tableVars, linkVars
<1>21. ASSUME NEW s \in Sessions, Add(s) PROVE RegistryInv'
  BY <1>21 DEF Add, agentVars, tableVars, linkVars
<1>22. ASSUME NEW s \in Sessions, Welcome(s) PROVE RegistryInv'
  <2>1. CASE StillActive(s)
    BY <1>22, <2>1 DEF Welcome, StillActive, agentVars, tableVars
  <2>2. CASE ~StillActive(s)
    <3>1. stage' = [stage EXCEPT ![s] = "closed"] /\ registered' = Without(s)
      BY <1>22, <2>2 DEF Welcome
    <3>2. UNCHANGED <<agentVars, tableVars, owner, revoking>>
      BY <1>22 DEF Welcome
    <3> QED
      BY <1>22, <2>2, <3>1, <3>2, WithoutOne DEF Welcome, StillActive, agentVars, tableVars
  <2> QED
    BY <2>1, <2>2
<1>23. ASSUME NEW s \in Sessions, Leave(s) PROVE RegistryInv'
  BY <1>23, WithoutOne DEF Leave, agentVars, tableVars, linkVars
<1> QED
  BY <1>1, <1>2, <1>3, <1>4, <1>5, <1>6, <1>7, <1>8, <1>9, <1>10, <1>11, <1>12, <1>13, <1>14, <1>15, <1>16, <1>17, <1>18, <1>19, <1>20, <1>21, <1>22, <1>23 DEF DeviceNext

\* A revocation and the credential it took.
LEMMA RevocationStep ==
  ASSUME DeviceTypeOK, OwnersKnown, RegistryInv, RevocationInv, [DeviceNext]_deviceVars
  PROVE  RevocationInv'
<1> USE DeviceAssumption DEF DeviceTypeOK, Identities, Stages, NoSession, OwnersKnown, Connected, RegistryInv, RevocationInv
<1>1. CASE UNCHANGED deviceVars
  BY <1>1 DEF deviceVars, agentVars, tableVars, linkVars
<1>2. CASE GenerateKey
  BY <1>2 DEF GenerateKey, agentVars, tableVars, linkVars
<1>3. CASE WriteMetadata
  BY <1>3 DEF WriteMetadata, agentVars, tableVars, linkVars
<1>4. CASE MarkPaired
  BY <1>4 DEF MarkPaired, agentVars, tableVars, linkVars
<1>5. CASE LearnRevoked
  BY <1>5 DEF LearnRevoked, agentVars, tableVars, linkVars, RevocationAnswered
<1>6. CASE RemoveFile
  BY <1>6 DEF RemoveFile, agentVars, tableVars, linkVars, NextToRemove
<1>7. CASE AgentStops
  BY <1>7 DEF AgentStops, agentVars, tableVars, linkVars
<1>8. CASE StartPairing
  BY <1>8 DEF StartPairing, agentVars, tableVars, linkVars
<1>9. CASE CompletePairing
  BY <1>9 DEF CompletePairing, agentVars, tableVars, linkVars
<1>10. ASSUME NEW i \in Identities, AnswerPairing(i) PROVE RevocationInv'
  BY <1>10 DEF AnswerPairing, agentVars, tableVars, linkVars
<1>11. ASSUME NEW i \in Identities, PairingExpires(i) PROVE RevocationInv'
  BY <1>11 DEF PairingExpires, agentVars, tableVars, linkVars
<1>12. ASSUME NEW i \in Identities, Revoke(i) PROVE RevocationInv'
  BY <1>12 DEF Revoke, agentVars, tableVars, linkVars
<1>13. ASSUME NEW i \in Identities, FindConnection(i) PROVE RevocationInv'
  BY <1>13 DEF FindConnection, agentVars, tableVars, linkVars
<1>14. ASSUME NEW i \in Identities, CloseConnection(i) PROVE RevocationInv'
  BY <1>14, WithoutOne DEF CloseConnection, agentVars, tableVars, linkVars
<1>15. ASSUME NEW s \in Sessions, CreateChallenge(s) PROVE RevocationInv'
  BY <1>15 DEF CreateChallenge, agentVars, tableVars, linkVars
<1>16. ASSUME NEW s \in Sessions, UseChallenge(s) PROVE RevocationInv'
  BY <1>16 DEF UseChallenge, agentVars, tableVars, linkVars
<1>17. ASSUME NEW s \in Sessions, IssueToken(s) PROVE RevocationInv'
  BY <1>17 DEF IssueToken, agentVars, tableVars, linkVars
<1>18. ASSUME NEW s \in Sessions, RecoverPairing(s) PROVE RevocationInv'
  BY <1>18 DEF RecoverPairing, agentVars, tableVars, linkVars
<1>19. ASSUME NEW s \in Sessions, ConsumeToken(s) PROVE RevocationInv'
  BY <1>19 DEF ConsumeToken, agentVars, tableVars, linkVars
<1>20. ASSUME NEW s \in Sessions, VerifyHello(s) PROVE RevocationInv'
  BY <1>20 DEF VerifyHello, agentVars, tableVars, linkVars
<1>21. ASSUME NEW s \in Sessions, Add(s) PROVE RevocationInv'
  BY <1>21 DEF Add, agentVars, tableVars, linkVars
<1>22. ASSUME NEW s \in Sessions, Welcome(s) PROVE RevocationInv'
  <2>1. CASE StillActive(s)
    BY <1>22, <2>1 DEF Welcome, StillActive, agentVars, tableVars
  <2>2. CASE ~StillActive(s)
    <3>1. stage' = [stage EXCEPT ![s] = "closed"] /\ registered' = Without(s)
      BY <1>22, <2>2 DEF Welcome
    <3>2. UNCHANGED <<agentVars, tableVars, owner, revoking>>
      BY <1>22 DEF Welcome
    <3> QED
      BY <1>22, <2>2, <3>1, <3>2, WithoutOne DEF Welcome, StillActive, agentVars, tableVars
  <2> QED
    BY <2>1, <2>2
<1>23. ASSUME NEW s \in Sessions, Leave(s) PROVE RevocationInv'
  BY <1>23, WithoutOne DEF Leave, agentVars, tableVars, linkVars
<1> QED
  BY <1>1, <1>2, <1>3, <1>4, <1>5, <1>6, <1>7, <1>8, <1>9, <1>10, <1>11, <1>12, <1>13, <1>14, <1>15, <1>16, <1>17, <1>18, <1>19, <1>20, <1>21, <1>22, <1>23 DEF DeviceNext

\* A connection that comes once the revocation is under way stops at the last look.
LEMMA RevokedOutStep ==
  ASSUME DeviceTypeOK, OwnersKnown, RegistryInv, RevocationInv, CaughtOrEarly, RevokedIsOut, [DeviceNext]_deviceVars
  PROVE  CaughtOrEarly' /\ RevokedIsOut'
<1> USE DeviceAssumption DEF DeviceTypeOK, Identities, Stages, NoSession, OwnersKnown, Connected, RegistryInv, RevocationInv, CaughtOrEarly, RevokedIsOut
<1>1. CASE UNCHANGED deviceVars
  BY <1>1 DEF deviceVars, agentVars, tableVars, linkVars
<1>2. CASE GenerateKey
  BY <1>2 DEF GenerateKey, agentVars, tableVars, linkVars
<1>3. CASE WriteMetadata
  BY <1>3 DEF WriteMetadata, agentVars, tableVars, linkVars
<1>4. CASE MarkPaired
  BY <1>4 DEF MarkPaired, agentVars, tableVars, linkVars
<1>5. CASE LearnRevoked
  BY <1>5 DEF LearnRevoked, agentVars, tableVars, linkVars, RevocationAnswered
<1>6. CASE RemoveFile
  BY <1>6 DEF RemoveFile, agentVars, tableVars, linkVars, NextToRemove
<1>7. CASE AgentStops
  BY <1>7 DEF AgentStops, agentVars, tableVars, linkVars
<1>8. CASE StartPairing
  BY <1>8 DEF StartPairing, agentVars, tableVars, linkVars
<1>9. CASE CompletePairing
  BY <1>9 DEF CompletePairing, agentVars, tableVars, linkVars
<1>10. ASSUME NEW i \in Identities, AnswerPairing(i) PROVE CaughtOrEarly' /\ RevokedIsOut'
  BY <1>10 DEF AnswerPairing, agentVars, tableVars, linkVars
<1>11. ASSUME NEW i \in Identities, PairingExpires(i) PROVE CaughtOrEarly' /\ RevokedIsOut'
  BY <1>11 DEF PairingExpires, agentVars, tableVars, linkVars
<1>12. ASSUME NEW i \in Identities, Revoke(i) PROVE CaughtOrEarly' /\ RevokedIsOut'
  BY <1>12 DEF Revoke, agentVars, tableVars, linkVars
<1>13. ASSUME NEW i \in Identities, FindConnection(i) PROVE CaughtOrEarly' /\ RevokedIsOut'
  BY <1>13 DEF FindConnection, agentVars, tableVars, linkVars
<1>14. ASSUME NEW i \in Identities, CloseConnection(i) PROVE CaughtOrEarly' /\ RevokedIsOut'
  BY <1>14, WithoutOne DEF CloseConnection, agentVars, tableVars, linkVars
<1>15. ASSUME NEW s \in Sessions, CreateChallenge(s) PROVE CaughtOrEarly' /\ RevokedIsOut'
  BY <1>15 DEF CreateChallenge, agentVars, tableVars, linkVars
<1>16. ASSUME NEW s \in Sessions, UseChallenge(s) PROVE CaughtOrEarly' /\ RevokedIsOut'
  BY <1>16 DEF UseChallenge, agentVars, tableVars, linkVars
<1>17. ASSUME NEW s \in Sessions, IssueToken(s) PROVE CaughtOrEarly' /\ RevokedIsOut'
  BY <1>17 DEF IssueToken, agentVars, tableVars, linkVars
<1>18. ASSUME NEW s \in Sessions, RecoverPairing(s) PROVE CaughtOrEarly' /\ RevokedIsOut'
  BY <1>18 DEF RecoverPairing, agentVars, tableVars, linkVars
<1>19. ASSUME NEW s \in Sessions, ConsumeToken(s) PROVE CaughtOrEarly' /\ RevokedIsOut'
  BY <1>19 DEF ConsumeToken, agentVars, tableVars, linkVars
<1>20. ASSUME NEW s \in Sessions, VerifyHello(s) PROVE CaughtOrEarly' /\ RevokedIsOut'
  BY <1>20 DEF VerifyHello, agentVars, tableVars, linkVars
<1>21. ASSUME NEW s \in Sessions, Add(s) PROVE CaughtOrEarly' /\ RevokedIsOut'
  BY <1>21 DEF Add, agentVars, tableVars, linkVars
<1>22. ASSUME NEW s \in Sessions, Welcome(s) PROVE CaughtOrEarly' /\ RevokedIsOut'
  <2>1. CASE StillActive(s)
    BY <1>22, <2>1 DEF Welcome, StillActive, agentVars, tableVars
  <2>2. CASE ~StillActive(s)
    <3>1. stage' = [stage EXCEPT ![s] = "closed"] /\ registered' = Without(s)
      BY <1>22, <2>2 DEF Welcome
    <3>2. UNCHANGED <<agentVars, tableVars, owner, revoking>>
      BY <1>22 DEF Welcome
    <3> QED
      BY <1>22, <2>2, <3>1, <3>2, WithoutOne DEF Welcome, StillActive, agentVars, tableVars
  <2> QED
    BY <2>1, <2>2
<1>23. ASSUME NEW s \in Sessions, Leave(s) PROVE CaughtOrEarly' /\ RevokedIsOut'
  BY <1>23, WithoutOne DEF Leave, agentVars, tableVars, linkVars
<1> QED
  BY <1>1, <1>2, <1>3, <1>4, <1>5, <1>6, <1>7, <1>8, <1>9, <1>10, <1>11, <1>12, <1>13, <1>14, <1>15, <1>16, <1>17, <1>18, <1>19, <1>20, <1>21, <1>22, <1>23 DEF DeviceNext
-----------------------------------------------------------------------------
(* Theorems about identities and connections.                              *)

LEMMA DeviceStep == DeviceInv /\ [DeviceNext]_deviceVars => DeviceInv'
<1> SUFFICES ASSUME DeviceInv, [DeviceNext]_deviceVars PROVE DeviceInv'
  OBVIOUS
<1> USE DEF DeviceInv
<1>1. DeviceTypeOK' /\ OwnersKnown'
  BY DeviceTypesStep, OwnersStep
<1>2. RemovalIsLate' /\ ActiveCanSign'
  BY KeysStep
<1>3. RegistryInv' /\ RevocationInv'
  BY RegistryStep, RevocationStep
<1>4. CaughtOrEarly' /\ RevokedIsOut'
  BY RevokedOutStep
<1> QED
  BY <1>1, <1>2, <1>3, <1>4

\* The inductive invariant of identities and connections.
THEOREM InvariantDevice == DeviceSpec => []DeviceInv
<1> QED
  BY DeviceInitially, DeviceStep, PTL DEF DeviceSpec

\* Once revoke has returned, the registry holds no session of the device that got
\* past the look at the credential, however its steps, those of the handler that is
\* registering and those of the one it replaces are interleaved (revoke,
\* serve_agent_websocket).
THEOREM RevocationReaches == DeviceSpec => []RevokedIsOut
<1>1. DeviceInv => RevokedIsOut
  BY DEF DeviceInv
<1> QED
  BY <1>1, InvariantDevice, PTL

\* A device whose credential is in force holds the key it was given for, wherever
\* the agent was stopped between two files (ensure, _request, recover_pairing).
THEOREM KeyIsKept == DeviceSpec => []ActiveCanSign
<1>1. DeviceInv => ActiveCanSign
  BY DEF DeviceInv
<1> QED
  BY <1>1, InvariantDevice, PTL

-----------------------------------------------------------------------------
(* Steps of the sessions.                                                  *)

LEMMA SessionsInitially == SessionsInit => SessionsInv
  BY HandlersAssumption DEF SessionsInit, SessionsInv, SessionsTypeOK, Places, Nobody, RowInv,
     OnlineInv, FreshInv, ListedOnline, OpenRows

LEMMA SessionsTypesStep ==
  ASSUME SessionsTypeOK, [SessionsNext]_sessionVars
  PROVE  SessionsTypeOK'
<1> USE HandlersAssumption DEF SessionsTypeOK, Places, Nobody, WaitsAt, RemoveSession, EndHandler, CloseSession, ActivateSession, RowsWhenStored, OpenRows, Stored
<1>1. CASE UNCHANGED sessionVars
  BY <1>1 DEF sessionVars
<1>2. ASSUME NEW s \in Handlers, Accept(s) PROVE SessionsTypeOK'
  BY <1>2 DEF Accept
<1>3. ASSUME NEW s \in Handlers, PreviousIsClosed(s) PROVE SessionsTypeOK'
  BY <1>3 DEF PreviousIsClosed
<1>4. ASSUME NEW s \in Handlers, WelcomeWritten(s) PROVE SessionsTypeOK'
  BY <1>4 DEF WelcomeWritten
<1>5. ASSUME NEW s \in Handlers, PackagesRefused(s) PROVE SessionsTypeOK'
  BY <1>5 DEF PackagesRefused
<1>6. ASSUME NEW s \in Handlers, Recovered(s) PROVE SessionsTypeOK'
  BY <1>6 DEF Recovered
<1>7. ASSUME NEW s \in Handlers, HeartbeatRead(s) PROVE SessionsTypeOK'
  BY <1>7 DEF HeartbeatRead
<1>8. ASSUME NEW s \in Handlers, HandlerLeaves(s) PROVE SessionsTypeOK'
  BY <1>8 DEF HandlerLeaves
<1>9. CASE FallsSilent
  BY <1>9 DEF FallsSilent
<1>10. CASE MarkedStale
  BY <1>10 DEF MarkedStale
<1>11. CASE RevokeDevice
  BY <1>11 DEF RevokeDevice
<1>12. CASE RevokedIsRemoved
  BY <1>12 DEF RevokedIsRemoved
<1>13. CASE GatewayStartsAgain
  BY <1>13 DEF GatewayStartsAgain
<1> QED
  BY <1>1, <1>2, <1>3, <1>4, <1>5, <1>6, <1>7, <1>8, <1>9, <1>10, <1>11, <1>12, <1>13 DEF SessionsNext

LEMMA RowStep ==
  ASSUME SessionsTypeOK, RowInv, [SessionsNext]_sessionVars
  PROVE  RowInv'
<1> USE HandlersAssumption DEF SessionsTypeOK, Places, Nobody, RowInv, WaitsAt, RemoveSession, EndHandler, CloseSession, ActivateSession, RowsWhenStored, OpenRows, Stored
<1>1. CASE UNCHANGED sessionVars
  BY <1>1 DEF sessionVars
<1>2. ASSUME NEW s \in Handlers, Accept(s) PROVE RowInv'
  BY <1>2 DEF Accept
<1>3. ASSUME NEW s \in Handlers, PreviousIsClosed(s) PROVE RowInv'
  BY <1>3 DEF PreviousIsClosed
<1>4. ASSUME NEW s \in Handlers, WelcomeWritten(s) PROVE RowInv'
  BY <1>4 DEF WelcomeWritten
<1>5. ASSUME NEW s \in Handlers, PackagesRefused(s) PROVE RowInv'
  BY <1>5 DEF PackagesRefused
<1>6. ASSUME NEW s \in Handlers, Recovered(s) PROVE RowInv'
  BY <1>6 DEF Recovered
<1>7. ASSUME NEW s \in Handlers, HeartbeatRead(s) PROVE RowInv'
  BY <1>7 DEF HeartbeatRead
<1>8. ASSUME NEW s \in Handlers, HandlerLeaves(s) PROVE RowInv'
  BY <1>8 DEF HandlerLeaves
<1>9. CASE FallsSilent
  BY <1>9 DEF FallsSilent
<1>10. CASE MarkedStale
  BY <1>10 DEF MarkedStale
<1>11. CASE RevokeDevice
  BY <1>11 DEF RevokeDevice
<1>12. CASE RevokedIsRemoved
  BY <1>12 DEF RevokedIsRemoved
<1>13. CASE GatewayStartsAgain
  BY <1>13 DEF GatewayStartsAgain
<1> QED
  BY <1>1, <1>2, <1>3, <1>4, <1>5, <1>6, <1>7, <1>8, <1>9, <1>10, <1>11, <1>12, <1>13 DEF SessionsNext

LEMMA OnlineStep ==
  ASSUME SessionsTypeOK, RowInv, OnlineInv, [SessionsNext]_sessionVars
  PROVE  OnlineInv'
<1> USE HandlersAssumption DEF SessionsTypeOK, Places, Nobody, RowInv, OnlineInv, ListedOnline, WaitsAt, RemoveSession, EndHandler, CloseSession, ActivateSession, RowsWhenStored, OpenRows, Stored
<1>1. CASE UNCHANGED sessionVars
  BY <1>1 DEF sessionVars
<1>2. ASSUME NEW s \in Handlers, Accept(s) PROVE OnlineInv'
  BY <1>2 DEF Accept
<1>3. ASSUME NEW s \in Handlers, PreviousIsClosed(s) PROVE OnlineInv'
  BY <1>3 DEF PreviousIsClosed
<1>4. ASSUME NEW s \in Handlers, WelcomeWritten(s) PROVE OnlineInv'
  BY <1>4 DEF WelcomeWritten
<1>5. ASSUME NEW s \in Handlers, PackagesRefused(s) PROVE OnlineInv'
  BY <1>5 DEF PackagesRefused
<1>6. ASSUME NEW s \in Handlers, Recovered(s) PROVE OnlineInv'
  BY <1>6 DEF Recovered
<1>7. ASSUME NEW s \in Handlers, HeartbeatRead(s) PROVE OnlineInv'
  BY <1>7 DEF HeartbeatRead
<1>8. ASSUME NEW s \in Handlers, HandlerLeaves(s) PROVE OnlineInv'
  BY <1>8 DEF HandlerLeaves
<1>9. CASE FallsSilent
  BY <1>9 DEF FallsSilent
<1>10. CASE MarkedStale
  BY <1>10 DEF MarkedStale
<1>11. CASE RevokeDevice
  BY <1>11 DEF RevokeDevice
<1>12. CASE RevokedIsRemoved
  BY <1>12 DEF RevokedIsRemoved
<1>13. CASE GatewayStartsAgain
  BY <1>13 DEF GatewayStartsAgain
<1> QED
  BY <1>1, <1>2, <1>3, <1>4, <1>5, <1>6, <1>7, <1>8, <1>9, <1>10, <1>11, <1>12, <1>13 DEF SessionsNext

LEMMA FreshStep ==
  ASSUME SessionsTypeOK, RowInv, FreshInv, [SessionsNext]_sessionVars
  PROVE  FreshInv'
<1> USE HandlersAssumption DEF SessionsTypeOK, Places, Nobody, RowInv, FreshInv, WaitsAt, RemoveSession, EndHandler, CloseSession, ActivateSession, RowsWhenStored, OpenRows, Stored
<1>1. CASE UNCHANGED sessionVars
  BY <1>1 DEF sessionVars
<1>2. ASSUME NEW s \in Handlers, Accept(s) PROVE FreshInv'
  BY <1>2 DEF Accept
<1>3. ASSUME NEW s \in Handlers, PreviousIsClosed(s) PROVE FreshInv'
  BY <1>3 DEF PreviousIsClosed
<1>4. ASSUME NEW s \in Handlers, WelcomeWritten(s) PROVE FreshInv'
  BY <1>4 DEF WelcomeWritten
<1>5. ASSUME NEW s \in Handlers, PackagesRefused(s) PROVE FreshInv'
  BY <1>5 DEF PackagesRefused
<1>6. ASSUME NEW s \in Handlers, Recovered(s) PROVE FreshInv'
  BY <1>6 DEF Recovered
<1>7. ASSUME NEW s \in Handlers, HeartbeatRead(s) PROVE FreshInv'
  BY <1>7 DEF HeartbeatRead
<1>8. ASSUME NEW s \in Handlers, HandlerLeaves(s) PROVE FreshInv'
  BY <1>8 DEF HandlerLeaves
<1>9. CASE FallsSilent
  BY <1>9 DEF FallsSilent
<1>10. CASE MarkedStale
  BY <1>10 DEF MarkedStale
<1>11. CASE RevokeDevice
  BY <1>11 DEF RevokeDevice
<1>12. CASE RevokedIsRemoved
  BY <1>12 DEF RevokedIsRemoved
<1>13. CASE GatewayStartsAgain
  BY <1>13 DEF GatewayStartsAgain
<1> QED
  BY <1>1, <1>2, <1>3, <1>4, <1>5, <1>6, <1>7, <1>8, <1>9, <1>10, <1>11, <1>12, <1>13 DEF SessionsNext

LEMMA SessionsStep == SessionsInv /\ [SessionsNext]_sessionVars => SessionsInv'
  BY SessionsTypesStep, RowStep, OnlineStep, FreshStep DEF SessionsInv

\* The inductive invariant of the sessions.
THEOREM InvariantSessions == SessionsSpec => []SessionsInv
<1> QED
  BY SessionsInitially, SessionsStep, PTL DEF SessionsSpec

\* A device shown online is served by the session whose hello describes it, and one
\* whose registered session is stored and has been heard of is not shown offline,
\* in every order of two handlers, the maintenance loop and a revocation
\* (list_devices, activate_session, heartbeat_session, close_session, revoke).
THEOREM ListTellsTruth == SessionsSpec => []ShownAsConnected
<1>1. SessionsInv => ShownAsConnected
  BY DEF SessionsInv, ShownAsConnected, RowInv, OnlineInv, FreshInv, OpenRows, Serving
<1> QED
  BY <1>1, InvariantSessions, PTL

=============================================================================
