-------------------------- MODULE CodexConnection ---------------------------
(***************************************************************************)
(* How CodexService gets and keeps a connection to a Codex app-server, and  *)
(* the device-code login over it.                                          *)
(*                                                                         *)
(* A client is a CodexAppServerClient together with the run of startClient *)
(* that creates it.  Its app-server is a child process ("local") or the    *)
(* child of the Desk agent behind a web socket ("desk"); the agent serves  *)
(* one connection and answers 409 to a second.  Runs of startClient        *)
(* overlap: a restart may be due while an earlier run still waits.         *)
(*                                                                         *)
(* Time is abstracted to what has elapsed: the back-off of a restart, the  *)
(* refresh of a device code and the time limit of a request may end at any *)
(* moment.                                                                 *)
(***************************************************************************)
EXTENDS Naturals

CONSTANTS
  Clients,    \* how many clients exist at a time
  Faults,     \* sets of events: a behaviour performs those of one of them
  MaxFaults,  \* bound: faults
  MaxCodes    \* bound: device codes

Client == 1..Clients
Code == 1..MaxCodes

ASSUME ConnectionAssumption ==
  Clients \in Nat \ {0} /\ MaxFaults \in Nat /\ MaxCodes \in Nat

VARIABLES
  \* CodexService
  process,        \* status.process
  current,        \* this.client, 0 is null
  restart,        \* restartTimer is armed
  deskSelected,
  shuttingDown,
  run,            \* where the run of startClient that made a client is
  link,           \* the transport of a client
  \* the Desk
  agent,          \* the client whose socket and child the agent holds, 0 if none
  healthy,        \* GET /health answers 200
  \* account and device login
  authenticated,  \* status.authenticated
  login,          \* status.login: its state and login id, 0 is null
  refreshTimer,   \* the code deviceLoginRefreshTimer is armed for, 0 if none
  asked,          \* the client a device code was requested from, 0 if none
  rotating,       \* the code whose rotation awaits that request, 0 if none
  issued,         \* device codes handed out, the latest last
  account,        \* Codex holds credentials
  lapsed,         \* history: the latest code whose refresh fell due with an account
  \* bounds
  faults,
  env

service == <<process, current, restart, deskSelected, shuttingDown, run, link>>
desk == <<agent, healthy>>
loginState == <<authenticated, login, refreshTimer, asked, rotating, issued, account,
                lapsed>>
connectionVars == <<service, desk, loginState, faults, env>>

Waiting == {"connect", "initialize", "account", "models"}

ConnectionTypeOK ==
  /\ process \in {"starting", "ready", "error"}
  /\ current \in 0..Clients
  /\ restart \in BOOLEAN /\ deskSelected \in BOOLEAN /\ shuttingDown \in BOOLEAN
  /\ run \in [Client -> Waiting \cup {"none", "resolve"}]
  /\ link \in [Client -> {"none", "opening", "local", "desk"}]
  /\ agent \in 0..Clients /\ healthy \in BOOLEAN
  /\ authenticated \in BOOLEAN /\ account \in BOOLEAN
  /\ login \in [state : {"idle", "waiting", "succeeded", "failed"}, id : 0..MaxCodes]
  /\ refreshTimer \in 0..MaxCodes /\ lapsed \in 0..MaxCodes
  /\ asked \in 0..Clients /\ rotating \in 0..MaxCodes /\ issued \in 0..MaxCodes
  /\ faults \in 0..MaxFaults
  /\ env \in Faults

ConnectionInit ==
  /\ process = "starting" /\ current = 0
  /\ restart = FALSE /\ deskSelected = FALSE /\ shuttingDown = FALSE
  /\ run = [c \in Client |-> IF c = 1 THEN "resolve" ELSE "none"]
  /\ link = [c \in Client |-> "none"]
  /\ agent = 0 /\ healthy \in BOOLEAN
  /\ authenticated = FALSE /\ account \in BOOLEAN
  /\ login = [state |-> "idle", id |-> 0]
  /\ refreshTimer = 0 /\ asked = 0 /\ rotating = 0 /\ issued = 0
  /\ lapsed = 0 /\ faults = 0
  /\ env \in Faults

Live(c) == link[c] \in {"local", "desk"}
Fault(kind) == kind \in env /\ faults < MaxFaults /\ faults' = faults + 1

-----------------------------------------------------------------------------
\* Operators named ...Mutant are wrong on purpose: each stands for a plausible
\* slip in the operator after it, and shows which property would catch it.

\* scheduleRestart: one timer at a time, none while the service shuts down.
ScheduleRestart == restart' = (restart \/ ~shuttingDown)

\* The catch of startClient.  The client it may have created is left as it is.
Failed(c) ==
  /\ process' = "error"
  /\ run' = [run EXCEPT ![c] = "none"]
  /\ ScheduleRestart

-----------------------------------------------------------------------------
\* Device login

\* scheduleDeviceLoginRefresh after a failed rotation: the code is tried again.
RotationFails(l, id) ==
  /\ login' = [l EXCEPT !.state = "failed"]
  /\ refreshTimer' = id

\* The answer to the request will not come: startDeviceLogin throws, for the
\* rotation that waits as for the user.
ForgottenRotationMutant ==
  /\ asked' = 0 /\ rotating' = 0
  /\ IF rotating = 0 THEN UNCHANGED <<login, refreshTimer>>
     ELSE login' = [login EXCEPT !.state = "failed"] /\ UNCHANGED refreshTimer
RequestLost ==
  /\ asked' = 0 /\ rotating' = 0
  /\ IF rotating = 0 THEN UNCHANGED <<login, refreshTimer>>
     ELSE RotationFails(login, rotating)

\* startDeviceLogin of the user; a second call joins the request in flight, and
\* requireClient throws while Codex is not ready.
StartDeviceLogin ==
  /\ "login" \in env /\ asked = 0 /\ process = "ready"
  /\ asked' = current
  /\ UNCHANGED <<service, desk, authenticated, login, refreshTimer, rotating, issued,
                 account, lapsed, faults, env>>

\* rotateDeviceLogin(id) for a login l and an armed timer t: nothing for a code
\* that is not the current one; startDeviceLogin throws at once if it has neither
\* a request to join nor a client.
Rotate(id, l, t) ==
  IF id = 0 \/ authenticated \/ l.id # id
  THEN login' = l /\ refreshTimer' = t /\ UNCHANGED <<asked, rotating>>
  ELSE IF asked = 0 /\ process # "ready"
  THEN RotationFails(l, id) /\ UNCHANGED <<asked, rotating>>
  ELSE /\ login' = l /\ refreshTimer' = t
       /\ rotating' = id
       /\ asked' = IF asked = 0 THEN current ELSE asked

\* deviceLoginRefreshTimer expires.
RefreshDue ==
  /\ refreshTimer # 0
  /\ Rotate(refreshTimer, login, 0)
  /\ lapsed' = IF authenticated /\ login.id = refreshTimer THEN login.id ELSE lapsed
  /\ UNCHANGED <<service, desk, authenticated, issued, account, faults, env>>

\* requestDeviceLogin goes on with the answer.
DeviceCodeIssued ==
  /\ asked # 0 /\ issued < MaxCodes
  /\ issued' = issued + 1
  /\ login' = [state |-> "waiting", id |-> issued + 1]
  /\ refreshTimer' = issued + 1
  /\ asked' = 0 /\ rotating' = 0
  /\ UNCHANGED <<service, desk, authenticated, account, lapsed, faults, env>>

\* The request times out or is refused.
DeviceCodeRefused ==
  /\ asked # 0
  /\ Fault("refused") /\ RequestLost
  /\ UNCHANGED <<service, desk, authenticated, issued, account, lapsed,
                 env>>

\* An unsuccessful outcome keeps the code on display.
LoginFailed(outcome) == [login EXCEPT !.state = "failed"]

\* account/login/completed for one of the codes handed out.  One that is not the
\* current code is ignored, and an expired one is replaced.
LoginCompleted(id, outcome) ==
  /\ "login" \in env /\ \E c \in Client : Live(c)
  /\ id <= issued
  /\ account' = (account \/ outcome = "success")
  /\ IF login.id \notin {0, id} THEN UNCHANGED <<login, refreshTimer, asked, rotating>>
     ELSE CASE outcome = "success" -> /\ login' = [state |-> "succeeded", id |-> 0]
                                      /\ refreshTimer' = 0
                                      /\ UNCHANGED <<asked, rotating>>
            [] outcome = "expired" -> Rotate(login.id, LoginFailed(outcome), refreshTimer)
            [] OTHER -> /\ login' = LoginFailed(outcome)
                         /\ UNCHANGED <<refreshTimer, asked, rotating>>
  /\ UNCHANGED <<service, desk, authenticated, issued, lapsed, faults, env>>

\* The account is logged out of Codex, at another client or by the end of its session.
LoggedOut ==
  /\ account /\ Fault("logout")
  /\ account' = FALSE
  /\ UNCHANGED <<service, desk, authenticated, login, refreshTimer, asked, rotating, issued,
                 lapsed, env>>

\* account/updated: without an authentication mode, the login is left as it is.
AccountUpdated ==
  /\ "login" \in env /\ \E c \in Client : Live(c)
  /\ authenticated' = account
  /\ IF account THEN login' = [state |-> "succeeded", id |-> 0] /\ refreshTimer' = 0
     ELSE UNCHANGED <<login, refreshTimer>>
  /\ UNCHANGED <<service, desk, asked, rotating, issued, account, lapsed,
                 faults, env>>

\* loginApiKey; the answer is followed by a RefreshAccount.
LoginApiKey ==
  /\ "login" \in env /\ process = "ready"
  /\ login' = [state |-> "waiting", id |-> 0]
  /\ refreshTimer' = 0
  /\ account' = TRUE
  /\ UNCHANGED <<service, desk, authenticated, asked, rotating, issued, lapsed,
                 faults, env>>

\* refreshAccountAndModels after a login: applyAccount.
RefreshAccount ==
  /\ "login" \in env /\ process = "ready"
  /\ authenticated' = account
  /\ UNCHANGED <<service, desk, login, refreshTimer, asked, rotating, issued, account,
                 lapsed, faults, env>>

-----------------------------------------------------------------------------
\* startClient

NoLogin == UNCHANGED loginState

\* A number no run, transport or request stands for any more.
Free(c) == /\ run[c] = "none" /\ link[c] = "none" /\ c \notin {agent, current, asked}
           /\ \A o \in Client : o < c => \/ run[o] # "none" \/ link[o] # "none"
                                         \/ o \in {agent, current, asked}

\* The restart timer expires: startClient begins.
RestartDue(c) ==
  /\ restart /\ Free(c)
  /\ restart' = FALSE
  /\ process' = "starting"
  /\ run' = [run EXCEPT ![c] = "resolve"]
  /\ NoLogin /\ UNCHANGED <<current, deskSelected, shuttingDown, link, desk, faults, env>>

\* Without the Desk (in "auto" mode: while it is unavailable and never was used),
\* the version is checked and the child spawned.
ResolveLocal(c) ==
  /\ run[c] = "resolve"
  /\ "local" \in env \/ ("auto" \in env /\ ~healthy /\ ~deskSelected)
  /\ run' = [run EXCEPT ![c] = "initialize"]
  /\ link' = [link EXCEPT ![c] = "local"]
  /\ NoLogin /\ UNCHANGED <<process, current, restart, deskSelected, shuttingDown, desk,
                            faults, env>>

\* resolveDeskTransport found the Desk: connectRemote opens a web socket.
ResolveDesk(c) ==
  /\ run[c] = "resolve" /\ "local" \notin env /\ healthy
  /\ run' = [run EXCEPT ![c] = "connect"]
  /\ link' = [link EXCEPT ![c] = "opening"]
  /\ NoLogin /\ UNCHANGED <<process, current, restart, deskSelected, shuttingDown, desk,
                            faults, env>>

\* The Desk is needed and unavailable, or the version check fails.
ResolveFails(c) ==
  /\ run[c] = "resolve"
  /\ \/ /\ "local" \notin env /\ ~healthy /\ ("auto" \in env => deskSelected)
        /\ UNCHANGED faults
     \/ Fault("version")
  /\ Failed(c)
  /\ NoLogin /\ UNCHANGED <<current, deskSelected, shuttingDown, link, desk, env>>

\* The agent has no connection: it accepts the upgrade and spawns its child, and
\* the client goes on to `initialize'.
AgentAccepts(c) ==
  /\ link[c] = "opening" /\ agent = 0
  /\ agent' = c
  /\ run' = [run EXCEPT ![c] = "initialize"]
  /\ link' = [link EXCEPT ![c] = "desk"]
  /\ NoLogin /\ UNCHANGED <<process, current, restart, deskSelected, shuttingDown, healthy,
                            faults, env>>

\* The agent answers 409, or the upgrade takes ten seconds.
ConnectFails(c) ==
  /\ link[c] = "opening"
  /\ \/ agent \notin {0, c} /\ UNCHANGED faults
     \/ Fault("timeout")
  /\ link' = [link EXCEPT ![c] = "none"]
  /\ Failed(c)
  /\ NoLogin /\ UNCHANGED <<current, deskSelected, shuttingDown, desk, env>>

\* start() resolves: the client is installed, and account/read is sent.
Initialized(c) ==
  /\ run[c] = "initialize"
  /\ run' = [run EXCEPT ![c] = "account"]
  /\ process' = "ready" /\ current' = c
  /\ deskSelected' = (deskSelected \/ link[c] = "desk")
  /\ NoLogin /\ UNCHANGED <<restart, shuttingDown, link, desk, faults, env>>

\* The answer to account/read: applyAccount, then model/list if there is an account.
AccountRead(c) ==
  /\ run[c] = "account"
  /\ run' = [run EXCEPT ![c] = IF account THEN "models" ELSE "none"]
  /\ authenticated' = account
  /\ UNCHANGED <<process, current, restart, deskSelected, shuttingDown, link, desk, login,
                 refreshTimer, asked, rotating, issued, account, lapsed,
                 faults, env>>

\* The answer to model/list: startClient ends.
ModelsListed(c) ==
  /\ run[c] = "models"
  /\ run' = [run EXCEPT ![c] = "none"]
  /\ NoLogin /\ UNCHANGED <<process, current, restart, deskSelected, shuttingDown, link,
                            desk, faults, env>>

\* `initialize', account/read or model/list is answered by an error or not at all.
RequestFails(c) ==
  /\ \/ run[c] = "initialize" /\ Fault("initialize")
     \/ run[c] \in {"account", "models"} /\ Fault("refresh")
  /\ Failed(c)
  /\ NoLogin /\ UNCHANGED <<current, deskSelected, shuttingDown, link, desk, env>>

-----------------------------------------------------------------------------
\* Losing a connection

\* The listener of `exit', and rejectAll before it.
Exited(c) ==
  /\ current' = IF current = c THEN 0 ELSE current
  /\ link' = [link EXCEPT ![c] = "none"]
  /\ Failed(c)
  /\ IF asked = c THEN RequestLost ELSE UNCHANGED <<login, refreshTimer, asked, rotating>>

\* The child or the network connection is lost.
AppServerExits(c) ==
  /\ Live(c) /\ Fault("exit")
  /\ Exited(c)
  /\ UNCHANGED <<deskSelected, shuttingDown, desk, authenticated, issued, account, lapsed,
                 env>>

\* The close of a socket the agent no longer holds arrives.
SocketCloses(c) ==
  /\ link[c] = "desk" /\ agent # c
  /\ Exited(c)
  /\ UNCHANGED <<deskSelected, shuttingDown, desk, authenticated, issued, account,
                 lapsed, faults, env>>

\* The agent notices that its peer is gone: `close' of connectCodex.
KeepsSocketMutant == agent # 0 /\ link[agent] = "none" /\ UNCHANGED connectionVars
AgentSeesClose ==
  /\ agent # 0 /\ link[agent] = "none"
  /\ agent' = 0
  /\ UNCHANGED <<service, healthy, loginState, faults, env>>

\* The agent's child exits, or stopCodex when the desktop is restarted.
AgentDrops ==
  /\ agent # 0 /\ Fault("exit")
  /\ agent' = 0
  /\ UNCHANGED <<service, healthy, loginState, env>>

DeskRestarts ==
  /\ healthy /\ "local" \notin env /\ Fault("desk")
  /\ agent' = 0 /\ healthy' = FALSE
  /\ UNCHANGED <<service, loginState, env>>

DeskReady ==
  /\ ~healthy /\ "local" \notin env
  /\ healthy' = TRUE
  /\ UNCHANGED <<service, agent, loginState, faults, env>>

\* onModuleDestroy, with stop() of the current client: no `exit' is emitted.
Shutdown ==
  /\ "shutdown" \in env /\ ~shuttingDown
  /\ shuttingDown' = TRUE /\ restart' = FALSE
  /\ IF current = 0 THEN UNCHANGED <<process, run, link>>
     ELSE /\ link' = [link EXCEPT ![current] = "none"]
          /\ run' = [run EXCEPT ![current] = "none"]
          /\ process' = IF run[current] = "none" THEN process ELSE "error"
  /\ IF current # 0 /\ asked = current /\ rotating # 0
     THEN RotationFails(login, rotating)
     ELSE refreshTimer' = 0 /\ UNCHANGED login
  /\ IF current # 0 /\ asked = current THEN asked' = 0 /\ rotating' = 0
     ELSE UNCHANGED <<asked, rotating>>
  /\ UNCHANGED <<current, deskSelected, desk, authenticated, issued, account, lapsed,
                 faults, env>>

-----------------------------------------------------------------------------

StartStep(c) ==
  \/ ResolveLocal(c) \/ ResolveDesk(c) \/ ResolveFails(c) \/ AgentAccepts(c)
  \/ ConnectFails(c) \/ Initialized(c) \/ AccountRead(c) \/ ModelsListed(c)

LoginStep ==
  \/ StartDeviceLogin \/ RefreshDue \/ DeviceCodeIssued \/ DeviceCodeRefused
  \/ LoggedOut \/ AccountUpdated \/ LoginApiKey \/ RefreshAccount
  \/ \E id \in Code : \E o \in {"success", "failure", "expired"} : LoginCompleted(id, o)

ConnectionNext ==
  \/ LoginStep
  \/ \E c \in Client : \/ RestartDue(c) \/ StartStep(c) \/ RequestFails(c)
                       \/ AppServerExits(c) \/ SocketCloses(c)
  \/ AgentSeesClose \/ AgentDrops \/ DeskRestarts \/ DeskReady \/ Shutdown

ConnectionSpec == ConnectionInit /\ [][ConnectionNext]_connectionVars

\* Timers expire, requests are answered or fail, a closed socket is noticed at
\* both ends, and the Desk comes up; no fault has to happen.
Fairness ==
  /\ \A c \in Client : /\ WF_connectionVars(RestartDue(c)) /\ WF_connectionVars(StartStep(c))
                       /\ WF_connectionVars(SocketCloses(c))
  /\ WF_connectionVars(AgentSeesClose) /\ WF_connectionVars(DeskReady)

ConnectionFairSpec == ConnectionSpec /\ Fairness

-----------------------------------------------------------------------------

\* requireClient hands out a client while the status is "ready": that client has a
\* transport, whatever became of the clients before it.
ReadyMeansLive == process = "ready" /\ ~shuttingDown => current # 0 /\ Live(current)

\* A service that is not ready is on its way to be: a restart is due, or a run of
\* startClient has still to succeed or to arrange the next.
ReconnectPending ==
  process # "ready" /\ ~shuttingDown =>
    restart \/ \E c \in Client : run[c] \in {"resolve", "connect", "initialize"}

\* The refresh of the device code on display is armed, or a request for the next code
\* is in flight.
Kept(id) == refreshTimer = id \/ (asked # 0 /\ rotating = id)

\* The device code on display is replaced before it expires, as long as nobody is
\* logged in, whatever becomes of requests, connections and logins.  One whose refresh
\* fell due while somebody was logged in is not: rotateDeviceLogin dropped it.
CodeIsRefreshed ==
  login.id \notin {0, lapsed} /\ ~authenticated /\ ~shuttingDown => Kept(login.id)

\* Faults end, and the service is ready again (Codex connection recovery).
Reconnects == []<>(process = "ready" \/ shuttingDown)
=============================================================================
