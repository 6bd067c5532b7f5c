---------------------------- MODULE AgentSessions ----------------------------
(***************************************************************************)
(* The sessions of one device as the Gateway stores and shows them: the    *)
(* handler of each connection (serve_agent_websocket), the registry in     *)
(* memory, the rows of agent_sessions, and the device row that lists and   *)
(* the portal show.  They are written at different moments, by handlers    *)
(* that replace each other, the maintenance loop and a revocation.         *)
(*                                                                         *)
(* A handler runs without interruption until it awaits its socket, so an   *)
(* action is the code between two waits; the lock of the registry is never *)
(* held over one, and each transaction falls between two.                  *)
(***************************************************************************)
EXTENDS Naturals, FiniteSets

CONSTANTS
  Handlers,      \* attempts of the Agent to hold a session
  MaxOutages     \* bound: stops of the Gateway

ASSUME HandlersAssumption == "nobody" \notin Handlers /\ MaxOutages \in Nat

VARIABLES
  place,         \* handler -> where it waits
  inRegistry,    \* the handler the registry holds for the device
  fresh,         \* that one's last heartbeat is not older than stale_after_seconds
  sessionRow,    \* handler -> its row in agent_sessions
  deviceStatus,  \* devices.status
  describedBy,   \* the handler whose hello the device row describes
  revocation,    \* how far the revocation of the device has come
  outages

sessionVars ==
  <<place, inRegistry, fresh, sessionRow, deviceStatus, describedBy, revocation, outages>>

Nobody == "nobody"

\* Where a handler waits: for the socket it replaces to close, for its welcome to
\* be written, for what handle_connected writes, for a message, for the error that
\* tells the Agent it is refused.
Places == {"new", "replacing", "welcoming", "recovering", "reading", "refusing", "gone"}

\* The handlers whose finally clause is still to come.
Serving == {s \in Handlers : place[s] \notin {"new", "gone"}}

SessionsTypeOK ==
  /\ place \in [Handlers -> Places]
  /\ inRegistry \in Handlers \cup {Nobody}
  /\ fresh \in BOOLEAN
  /\ sessionRow \in [Handlers -> {"none", "open", "closed"}]
  /\ deviceStatus \in {"offline", "online", "incompatible"}
  /\ describedBy \in Handlers \cup {Nobody}
  /\ revocation \in {"no", "committed", "done"} \cup Handlers
  /\ outages \in 0 .. MaxOutages

\* seed_device: a device is stored as offline.
SessionsInit ==
  /\ place = [s \in Handlers |-> "new"]
  /\ inRegistry = Nobody /\ fresh = TRUE
  /\ sessionRow = [s \in Handlers |-> "none"]
  /\ deviceStatus = "offline" /\ describedBy = Nobody
  /\ revocation = "no" /\ outages = 0

-----------------------------------------------------------------------------
(* The transactions. *)

WaitsAt(s, where) == place' = [place EXCEPT ![s] = where]

OpenRows == {s \in Handlers : sessionRow[s] = "open"}

\* Any other open row is closed for the session stored.
RowsWhenStored(s) ==
  [r \in Handlers |-> IF r = s THEN "open"
                      ELSE IF sessionRow[r] = "open" THEN "closed" ELSE sessionRow[r]]

\* activate_session: with the rows, the device row is rewritten from this hello.
ActivateSession(s) ==
  /\ sessionRow' = RowsWhenStored(s)
  /\ deviceStatus' = "online" /\ describedBy' = s

\* close_session: the device goes offline with its last open row.
CloseSession(s) ==
  /\ sessionRow' = [sessionRow EXCEPT ![s] = IF @ = "open" THEN "closed" ELSE @]
  /\ deviceStatus' = IF OpenRows = {s} THEN "offline" ELSE deviceStatus
  /\ UNCHANGED describedBy

\* registry.remove: only if it is this session that is registered.
RemoveSession(s) ==
  /\ inRegistry' = IF inRegistry = s THEN Nobody ELSE inRegistry
  /\ fresh' = (inRegistry = s \/ fresh)

-----------------------------------------------------------------------------
(* A handler. *)

\* registry.add, after authentication and hello: it takes the place of whatever
\* session was there, whose socket is closed next.  Nothing waits between add and
\* is_active when there was none; the device may have been revoked since the
\* handler authenticated.
Accept(s) ==
  /\ place[s] = "new"
  /\ IF inRegistry = Nobody /\ revocation # "no"
     THEN WaitsAt(s, "refusing") /\ UNCHANGED <<inRegistry, fresh>>
     ELSE /\ WaitsAt(s, IF inRegistry = Nobody THEN "welcoming" ELSE "replacing")
          /\ inRegistry' = s /\ fresh' = TRUE
  /\ UNCHANGED <<sessionRow, deviceStatus, describedBy, revocation, outages>>

\* The other socket is closed, or close_timeout_seconds have passed; the device
\* may have been revoked meanwhile (is_active).
PreviousIsClosed(s) ==
  /\ place[s] = "replacing"
  /\ IF revocation = "no"
     THEN WaitsAt(s, "welcoming") /\ UNCHANGED <<inRegistry, fresh>>
     ELSE WaitsAt(s, "refusing") /\ RemoveSession(s)
  /\ UNCHANGED <<sessionRow, deviceStatus, describedBy, revocation, outages>>

\* Welcomed, whoever is registered by now: on_agent_connected stores the session
\* and goes on to handle_connected.
WelcomeWritten(s) ==
  /\ place[s] = "welcoming"
  /\ WaitsAt(s, "recovering")
  /\ ActivateSession(s)
  /\ UNCHANGED <<inRegistry, fresh, revocation, outages>>

\* ... or its packages are not the required ones.
PackagesRefused(s) ==
  /\ place[s] = "welcoming"
  /\ deviceStatus' = "incompatible"
  /\ WaitsAt(s, "refusing") /\ RemoveSession(s)
  /\ UNCHANGED <<sessionRow, describedBy, revocation, outages>>

\* handle_connected has written its reconciles and commands, or raised.
Recovered(s) ==
  /\ place[s] = "recovering"
  /\ \/ WaitsAt(s, "reading") /\ UNCHANGED <<inRegistry, fresh>>
     \/ WaitsAt(s, "refusing") /\ RemoveSession(s)
  /\ UNCHANGED <<sessionRow, deviceStatus, describedBy, revocation, outages>>

\* The finally clause: on_agent_disconnected, then registry.remove.
EndHandler(s) == WaitsAt(s, "gone") /\ CloseSession(s) /\ RemoveSession(s)

\* The socket fails, the error is written, a message finds the session replaced.
HandlerLeaves(s) ==
  /\ place[s] \in {"welcoming", "reading", "refusing"}
  /\ EndHandler(s)
  /\ UNCHANGED <<revocation, outages>>

\* Mutant: heartbeat_session does not ask whether the row is still open.
StoredAnyRow(s) == sessionRow[s] # "none"

\* heartbeat_session finds an open row.
Stored(s) == sessionRow[s] = "open"

\* A heartbeat of the registered session: mark_heartbeat, then the rows.  A row
\* that another activation or a revocation has closed ends the session
\* (invalid_message); finalize_job_result treats a result in the same way.
HeartbeatRead(s) ==
  /\ place[s] = "reading" /\ inRegistry = s
  /\ IF Stored(s)
     THEN /\ fresh' = TRUE /\ deviceStatus' = "online"
          /\ UNCHANGED <<place, inRegistry, sessionRow, describedBy>>
     ELSE EndHandler(s)
  /\ UNCHANGED <<revocation, outages>>

-----------------------------------------------------------------------------
(* The others. *)

\* No heartbeat for stale_after_seconds.
FallsSilent ==
  /\ inRegistry # Nobody /\ fresh /\ fresh' = FALSE
  /\ UNCHANGED <<place, inRegistry, sessionRow, deviceStatus, describedBy, revocation, outages>>

\* _run_maintenance_once: mark_session_stale leaves the row open and the session
\* registered, so that its next heartbeat shows the device online again.
MarkedStale ==
  /\ inRegistry # Nobody /\ ~fresh
  /\ sessionRow[inRegistry] = "open"
  /\ deviceStatus' = "offline"
  /\ UNCHANGED <<place, inRegistry, fresh, sessionRow, describedBy, revocation, outages>>

\* revoke: one transaction takes the credential and closes every row ...
RevokeDevice ==
  /\ revocation = "no"
  /\ sessionRow' = [s \in Handlers |-> IF sessionRow[s] = "open" THEN "closed"
                                       ELSE sessionRow[s]]
  /\ deviceStatus' = "offline"
  /\ revocation' = IF inRegistry = Nobody THEN "done" ELSE inRegistry
  /\ UNCHANGED <<place, inRegistry, fresh, describedBy, outages>>

\* ... then close_device closes the socket found, or gives up, and takes that
\* session out of the registry.  Its handler learns of it when it next reads.
RevokedIsRemoved ==
  /\ revocation \in Handlers
  /\ RemoveSession(revocation)
  /\ revocation' = "done"
  /\ UNCHANGED <<place, sessionRow, deviceStatus, describedBy, outages>>

\* The Gateway stops, with its handlers or before their finally clauses, and
\* starts: initialize calls mark_sessions_disconnected.
GatewayStartsAgain ==
  /\ outages < MaxOutages /\ outages' = outages + 1
  /\ place' = [s \in Handlers |-> IF place[s] = "new" THEN "new" ELSE "gone"]
  /\ inRegistry' = Nobody /\ fresh' = TRUE
  /\ sessionRow' = [s \in Handlers |-> IF sessionRow[s] = "open" THEN "closed"
                                       ELSE sessionRow[s]]
  /\ deviceStatus' = IF deviceStatus = "online" THEN "offline" ELSE deviceStatus
  /\ revocation' = IF revocation = "no" THEN "no" ELSE "done"
  /\ UNCHANGED describedBy

-----------------------------------------------------------------------------
SessionsNext ==
  \/ \E s \in Handlers :
       \/ Accept(s) \/ PreviousIsClosed(s) \/ WelcomeWritten(s) \/ PackagesRefused(s)
       \/ Recovered(s) \/ HeartbeatRead(s) \/ HandlerLeaves(s)
  \/ FallsSilent \/ MarkedStale \/ RevokeDevice \/ RevokedIsRemoved \/ GatewayStartsAgain

SessionsSpec == SessionsInit /\ [][SessionsNext]_sessionVars

-----------------------------------------------------------------------------
\* list_devices passes on the status of the device row.
ListedOnline == deviceStatus = "online"

\* The list of devices tells the truth about the sessions, in whatever order the
\* handlers of two connections, the maintenance loop and a revocation have run:
\* a device shown online has a session, stored and being served, and is described
\* by its hello; and one whose registered session is stored and has been heard of
\* is not shown offline (list_devices, activate_session, heartbeat_session,
\* mark_session_stale, close_session, revoke).
ShownAsConnected ==
  /\ ListedOnline => \E s \in Serving : sessionRow[s] = "open" /\ describedBy = s
  /\ \A s \in OpenRows : inRegistry = s /\ fresh => deviceStatus # "offline"
=============================================================================
