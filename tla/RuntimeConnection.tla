------------------------- MODULE RuntimeConnection -------------------------
(***************************************************************************)
(* browser/runtime/nutanaaRuntimeConnectionService.ts, which connects the  *)
(* workbench to the runtime, and                                           *)
(* browser/providers/providerModelSyncService.ts, which fetches the        *)
(* providers whenever it has connected.                                    *)
(*                                                                         *)
(* connect() does not wait for an attempt under way, so that attempts      *)
(* overlap.  A link is an attempt with the socket it opens: the attempt    *)
(* ends when the socket is open or has failed, the socket lives on.        *)
(* The runtime behind it is external: it goes up and down, and a link or a *)
(* fetch that lived while it was down is spoiled: it may fail later.       *)
(***************************************************************************)
EXTENDS Naturals, FiniteSets

CONSTANTS
  Link,         \* bound: links at a time
  NoLink,       \* this.socket undefined
  MaxConnects   \* bound: calls of connect()

ASSUME ConnectionAssumption ==
  /\ IsFiniteSet(Link)
  /\ NoLink \notin Link
  /\ MaxConnects \in Nat

VARIABLES
  state,     \* _state
  socket,    \* this.socket: the link it belongs to
  link,      \* what each link waits for, see Phase
  timer,     \* retryTimer is set
  disposed,
  connects,  \* how often connect() was called
  syncing,   \* a fetch of providers is under way, see Fetch
  synced,    \* the providers shown are those of the runtime
  up,        \* the runtime answers
  spoiled    \* links that lived while it did not

connectionVars == <<state, socket, link, timer, disposed, connects>>
syncVars == <<syncing, synced>>
vars == <<connectionVars, syncVars, up, spoiled>>

\* "health": checkHealth() is awaited; "connecting": openSocket() is; "failing":
\* so is it, but the socket has been closed meanwhile; "open": the attempt is
\* over.  A socket closed after it was open reports to nobody: the link is free.
Phase == {"free", "health", "connecting", "failing", "open"}
Fetch == {"none", "sound", "spoiled"}

InFlight == {l \in Link : link[l] \in {"health", "connecting", "failing"}}
Opened == {l \in Link : link[l] = "open"}

Init ==
  /\ state = "disconnected"
  /\ socket = NoLink
  /\ link = [l \in Link |-> "free"]
  /\ timer = FALSE
  /\ disposed = FALSE
  /\ connects = 0
  /\ syncing = "none"
  /\ synced = FALSE
  /\ up \in BOOLEAN
  /\ spoiled = {}

-----------------------------------------------------------------------------
(* attemptConnect() up to its first await *)
Begin(l) ==
  /\ link[l] = "free"
  /\ link' = [link EXCEPT ![l] = "health"]
  /\ state' = "connecting"
  /\ spoiled' = IF up THEN spoiled \ {l} ELSE spoiled \cup {l}
  /\ UNCHANGED <<socket, disposed, syncVars, up>>

Connect(l) ==
  /\ connects < MaxConnects
  /\ ~disposed
  /\ connects' = connects + 1
  /\ timer' = FALSE
  /\ Begin(l)

\* Mutant: the timer is an interval.
RetryFires_Again(l) ==
  /\ timer
  /\ Begin(l)
  /\ UNCHANGED <<timer, connects>>

(* The timer of scheduleRetry() *)
RetryFires(l) ==
  /\ timer
  /\ timer' = FALSE
  /\ Begin(l)
  /\ UNCHANGED connects

\* Mutant: an attempt that failed is not repeated.
Failed_GivesUp == state' = "error" /\ UNCHANGED timer

(* setState(Error) and scheduleRetry(), which replaces a timer there is. *)
Failed == state' = "error" /\ timer' = TRUE

HealthFails(l) ==
  /\ link[l] = "health"
  /\ l \in spoiled
  /\ link' = [link EXCEPT ![l] = "free"]
  /\ Failed
  /\ UNCHANGED <<socket, disposed, connects, syncVars, up, spoiled>>

\* Mutant: the socket is only forgotten.
Closed_Forgotten == link

(* this.socket?.close(): a socket that is not open yet reports an error. *)
Closed ==
  [l \in Link |-> IF l # socket THEN link[l]
                  ELSE IF link[l] = "connecting" THEN "failing" ELSE "free"]

(* The runtime is healthy: openSocket(), in place of the socket there is. *)
OpensSocket(l) ==
  /\ link[l] = "health"
  /\ up
  /\ link' = [Closed EXCEPT ![l] = "connecting"]
  /\ socket' = l
  /\ UNCHANGED <<state, timer, disposed, connects, syncVars, up, spoiled>>

(* syncFromBackend() up to its await *)
Sync ==
  /\ syncing' = IF syncing # "none" THEN syncing ELSE IF up THEN "sound" ELSE "spoiled"
  /\ UNCHANGED synced

(* The socket is open, attemptConnect() ends, and listeners are told when  *)
(* that is news.                                                           *)
SocketOpens(l) ==
  /\ link[l] = "connecting"
  /\ up
  /\ link' = [link EXCEPT ![l] = "open"]
  /\ state' = "connected"
  /\ IF state # "connected" /\ ~disposed THEN Sync ELSE UNCHANGED syncVars
  /\ UNCHANGED <<socket, timer, disposed, connects, up, spoiled>>

Forgotten(l) == IF socket = l THEN NoLink ELSE socket

(* The events error and close of a socket that was never open *)
SocketFails(l) ==
  /\ link[l] = "failing" \/ (link[l] = "connecting" /\ l \in spoiled)
  /\ link' = [link EXCEPT ![l] = "free"]
  /\ socket' = Forgotten(l)
  /\ Failed
  /\ UNCHANGED <<disposed, connects, syncVars, up, spoiled>>

\* Mutant: the drop is shown, and no retry follows.
SocketDrops_NoRetry(l) ==
  /\ link[l] = "open"
  /\ l \in spoiled
  /\ link' = [link EXCEPT ![l] = "free"]
  /\ socket' = Forgotten(l)
  /\ state' = IF socket = l /\ state = "connected" THEN "error" ELSE state
  /\ UNCHANGED <<timer, disposed, connects, syncVars, up, spoiled>>

(* The event close of an open socket, which is reported when connected *)
SocketDrops(l) ==
  /\ link[l] = "open"
  /\ l \in spoiled
  /\ link' = [link EXCEPT ![l] = "free"]
  /\ socket' = Forgotten(l)
  /\ IF socket = l /\ state = "connected" THEN Failed ELSE UNCHANGED <<state, timer>>
  /\ UNCHANGED <<disposed, connects, syncVars, up, spoiled>>

(* dispose(): attempts under way go on. *)
Dispose ==
  /\ ~disposed
  /\ disposed' = TRUE
  /\ timer' = FALSE
  /\ link' = Closed
  /\ socket' = NoLink
  /\ UNCHANGED <<state, connects, syncVars, up, spoiled>>

-----------------------------------------------------------------------------
(* ProviderModelSyncService *)

(* Its interval, or the end of the first connect() *)
SyncTick ==
  /\ ~disposed
  /\ state = "connected"
  /\ syncing = "none"
  /\ Sync
  /\ UNCHANGED <<connectionVars, up, spoiled>>

\* Mutant: the flag is reset after the try block instead of in finally.
SyncEnds_KeepsFlag ==
  /\ syncing \in {"sound", "spoiled"}
  /\ \/ up /\ synced' = TRUE /\ syncing' = "none"
     \/ syncing = "spoiled" /\ synced' = FALSE /\ syncing' = "forgotten"
  /\ UNCHANGED <<connectionVars, up, spoiled>>

(* getProviders() answers, with an empty list when its fetch failed. *)
SyncEnds ==
  /\ syncing # "none"
  /\ \/ up /\ synced' = TRUE
     \/ syncing = "spoiled" /\ synced' = FALSE
  /\ syncing' = "none"
  /\ UNCHANGED <<connectionVars, up, spoiled>>

-----------------------------------------------------------------------------
(* The runtime. *)

GoesDown ==
  /\ up
  /\ up' = FALSE
  /\ spoiled' = spoiled \cup InFlight \cup Opened
  /\ syncing' = IF syncing = "none" THEN "none" ELSE "spoiled"
  /\ UNCHANGED <<connectionVars, synced>>

ComesUp ==
  /\ ~up
  /\ up' = TRUE
  /\ UNCHANGED <<connectionVars, syncVars, spoiled>>

HealthEnds(l) == HealthFails(l) \/ OpensSocket(l)
SocketSettles(l) == SocketOpens(l) \/ SocketFails(l)

Next ==
  \/ \E l \in Link :
       \/ Connect(l)
       \/ RetryFires(l)
       \/ HealthEnds(l)
       \/ SocketSettles(l)
       \/ SocketDrops(l)
  \/ Dispose
  \/ SyncTick
  \/ SyncEnds
  \/ GoesDown
  \/ ComesUp

Spec == Init /\ [][Next]_vars

(* checkHealth() gives up by itself, a handshake succeeds or fails, timers *)
(* and intervals fire, a fetch ends.                                       *)
FairSpec ==
  /\ Spec
  /\ \A l \in Link : WF_vars(HealthEnds(l)) /\ WF_vars(SocketSettles(l))
  /\ WF_vars(\E l \in Link : RetryFires(l))
  /\ WF_vars(SyncTick) /\ WF_vars(SyncEnds)

-----------------------------------------------------------------------------
TypeOK ==
  /\ state \in {"disconnected", "connecting", "connected", "error"}
  /\ socket \in Link \cup {NoLink}
  /\ link \in [Link -> Phase]
  /\ timer \in BOOLEAN /\ disposed \in BOOLEAN
  /\ connects \in 0 .. MaxConnects
  /\ syncing \in Fetch /\ synced \in BOOLEAN
  /\ up \in BOOLEAN
  /\ spoiled \subseteq Link

Connected == state = "connected" /\ socket \in Opened

(* Once connect() was called the service never gives up: it is connected,  *)
(* or an attempt is under way, or a retry is due, whatever attempts        *)
(* overlap, close each other's sockets or fail late.                       *)
NeverGivesUp == connects > 0 /\ ~disposed => Connected \/ timer \/ InFlight # {}

(* Retries do not multiply: of attempts, open sockets and a retry that is  *)
(* due there are never more than calls of connect().                       *)
RetriesDoNotMultiply ==
  Cardinality(InFlight \cup Opened) + (IF timer THEN 1 ELSE 0) <= connects

(* Events of the runtime come in by one socket, the one the service        *)
(* knows and can close: none is fired twice on the event bus.              *)
OneSocketListens == Opened \subseteq {socket}

(* The state says connected without an open socket only while an attempt   *)
(* is under way.                                                           *)
ConnectedIsOpen == state = "connected" /\ InFlight = {} /\ ~disposed => socket \in Opened

\* Delays are longer than attempts: the first is 2 s and they double.
DelaysOutlastAttempts ==
  <>[][\A l \in Link : link[l] = "free" /\ link'[l] = "health" => InFlight = {}]_vars

(* When the runtime stays up, the service gets connected and stays so.     *)
Reconnects ==
  <>[](up /\ ~disposed /\ connects > 0) /\ DelaysOutlastAttempts => <>[]Connected

(* When the connection stays, the providers shown are in the end those of  *)
(* the runtime, although an empty list of a failed fetch may come late.    *)
ProvidersSynced == <>[](up /\ ~disposed /\ Connected) => <>[]synced
=============================================================================
