---------------------------- MODULE WhatsAppLink ----------------------------
(***************************************************************************)
(* The life cycle of the WhatsApp Web client of WhatsAppService: start,    *)
(* the browser's events, reconnecting after a failure, and logout.  A      *)
(* client is a headless browser on the one profile directory of the        *)
(* session; a saved session makes the QR code unnecessary.                 *)
(*                                                                         *)
(* The browser, WhatsApp and the user's phone are external: they are       *)
(* modelled by the events the service listens to.  The back-off of a       *)
(* reconnect may end at any moment.                                        *)
(***************************************************************************)
EXTENDS Naturals

CONSTANTS
  Clients,    \* how many clients exist at a time
  Faults,     \* sets of events: a behaviour performs those of one of them
  MaxFaults   \* bound: faults and crashes

Client == 1..Clients

ASSUME LinkAssumption == Clients \in Nat \ {0} /\ MaxFaults \in Nat

VARIABLES
  \* the database and the profile directory
  enabled,    \* the setting whatsapp.enabled
  linked,     \* the profile holds a session
  \* WhatsAppService
  state,
  client,     \* this.client, 0 is null
  retry,      \* retryTimer is armed
  init,       \* where the one run of initializeClient (startPromise) is
  previous,   \* the client it destroys, 0 if none
  safely,     \* startSafely waits for it
  logout,     \* where logout is
  leaving,    \* the client it logs out, 0 if none
  drawing,    \* clients whose QR code onQr is drawing
  readying,   \* clients whose identity onReady is resolving
  \* the browsers
  browser,
  \* bounds
  faults,
  faultKinds

disk == <<enabled, linked>>
starting == <<init, previous, safely>>
leave == <<logout, leaving>>
callbacks == <<drawing, readying>>
linkVars == <<disk, state, client, retry, starting, leave, callbacks, browser, faults, faultKinds>>

Failed == {"disconnected", "error"}

LinkTypeOK ==
  /\ enabled \in BOOLEAN /\ linked \in BOOLEAN
  /\ state \in Failed \cup {"idle", "starting", "qr_needed", "authenticated", "ready"}
  /\ client \in 0..Clients /\ retry \in BOOLEAN
  /\ init \in {"none", "destroying", "creating"}
  /\ previous \in 0..Clients /\ safely \in BOOLEAN
  /\ logout \in {"none", "client", "files"} /\ leaving \in 0..Clients
  /\ drawing \subseteq Client /\ readying \subseteq Client
  /\ browser \in [Client -> {"none", "launching", "qr", "authenticated", "ready", "dead"}]
  /\ faults \in 0..MaxFaults
  /\ faultKinds \in Faults

LinkInit ==
  /\ enabled = FALSE /\ linked = FALSE
  /\ state = "idle" /\ client = 0 /\ retry = FALSE
  /\ init = "none" /\ previous = 0 /\ safely = FALSE
  /\ logout = "none" /\ leaving = 0
  /\ drawing = {} /\ readying = {}
  /\ browser = [c \in Client |-> "none"]
  /\ faults = 0
  /\ faultKinds \in Faults

Fault(kind) == kind \in faultKinds /\ faults < MaxFaults /\ faults' = faults + 1

-----------------------------------------------------------------------------
\* Operators named ...Mutant are wrong on purpose: each stands for a plausible
\* slip in the operator after it, and shows which property would catch it.

\* scheduleReconnect, when the setting is e.
ScheduleReconnect(e) == retry' = (retry \/ e)

\* start() returns at once for a client that has not failed.
AnyClientMutant == client # 0
HasClient == client # 0 /\ state \notin Failed

\* What initializeClient does with the client it replaces.
AbandonMutant ==
  /\ previous' = 0 /\ init' = "creating" /\ state' = "starting"
DestroyPrevious ==
  /\ previous' = client
  /\ IF client = 0 THEN init' = "creating" /\ state' = "starting"
     ELSE init' = "destroying" /\ UNCHANGED state

\* start(), awaited by startSafely or by a request; a second call joins the run
\* in progress.
StartClient(safe) ==
  /\ enabled' = TRUE
  /\ IF HasClient THEN UNCHANGED <<client, starting, state>>
     ELSE IF init # "none"
     THEN safely' = (safely \/ safe) /\ UNCHANGED <<client, init, previous, state>>
     ELSE client' = 0 /\ safely' = safe /\ DestroyPrevious

\* POST start, unless a logout is under way ("overlap" allows it then too).
Start ==
  /\ ~enabled \/ state \in Failed
  /\ logout = "none" \/ "overlap" \in faultKinds
  /\ StartClient(FALSE)
  /\ UNCHANGED <<linked, retry, leave, callbacks, browser, faults, faultKinds>>

\* The reconnect is due.
RetryDue ==
  /\ retry /\ retry' = FALSE
  /\ StartClient(TRUE)
  /\ UNCHANGED <<linked, leave, callbacks, browser, faults, faultKinds>>

PreviousDestroyed ==
  /\ init = "destroying"
  /\ init' = "creating" /\ state' = "starting" /\ previous' = 0
  /\ browser' = [browser EXCEPT ![previous] = "none"]
  /\ UNCHANGED <<disk, client, retry, safely, leave, callbacks, faults, faultKinds>>

\* A number whose browser is gone and nothing refers to any more.
Free(c) == browser[c] = "none" /\ c \notin {client, previous, leaving} \cup drawing \cup readying

\* The factory returns a client; its events are attached and it is initialized.
\* A code takes milliseconds to draw: none is left when a browser has started.
ClientCreated(c) ==
  /\ init = "creating" /\ Free(c) /\ \A o \in Client : o < c => ~Free(o)
  /\ drawing = {} \/ "late" \in faultKinds
  /\ init' = "none" /\ safely' = FALSE
  /\ client' = c
  /\ browser' = [browser EXCEPT ![c] = "launching"]
  /\ UNCHANGED <<disk, state, retry, previous, leave, callbacks, faults, faultKinds>>

\* The directory or the factory fails: only startSafely tries again.
CreationFails ==
  /\ init = "creating" /\ Fault("factory")
  /\ init' = "none" /\ safely' = FALSE
  /\ state' = "error"
  /\ ScheduleReconnect(enabled /\ safely)
  /\ UNCHANGED <<disk, client, previous, leave, callbacks, browser, faultKinds>>

-----------------------------------------------------------------------------
\* Events of a browser

\* `qr': without a session the user has to scan a code, which is drawn first.
QrShown(c) ==
  /\ browser[c] = "launching" /\ ~linked
  /\ browser' = [browser EXCEPT ![c] = "qr"]
  /\ drawing' = drawing \cup {c}
  /\ UNCHANGED <<disk, state, client, retry, starting, leave, readying, faults, faultKinds>>

QrDrawn(c) ==
  /\ c \in drawing
  /\ drawing' = drawing \ {c}
  /\ state' = "qr_needed"
  /\ UNCHANGED <<disk, client, retry, starting, leave, readying, browser, faults, faultKinds>>

\* `authenticated': the session was accepted, or the user scanned the code he saw.
Authenticated(c) ==
  /\ \/ browser[c] = "qr" /\ c \notin drawing
     \/ browser[c] = "launching" /\ linked
  /\ browser' = [browser EXCEPT ![c] = "authenticated"]
  /\ linked' = TRUE
  /\ state' = "authenticated"
  /\ UNCHANGED <<enabled, client, retry, starting, leave, callbacks, faults, faultKinds>>

\* `ready': onReady asks for the account's identities first.
ReadyEvent(c) ==
  /\ browser[c] = "authenticated"
  /\ browser' = [browser EXCEPT ![c] = "ready"]
  /\ readying' = readying \cup {c}
  /\ UNCHANGED <<disk, state, client, retry, starting, leave, drawing, faults, faultKinds>>

\* onReady goes on, whichever client is current by now.
ReadyDone(c) ==
  /\ c \in readying
  /\ readying' = readying \ {c}
  /\ state' = "ready"
  /\ UNCHANGED <<disk, client, retry, starting, leave, drawing, browser, faults, faultKinds>>

\* A callback of onQr or onReady that is still running when a client fails would
\* overwrite the state of the failure ("late" allows it).
NoCallback == drawing \cup readying = {} \/ "late" \in faultKinds

\* initialize() is rejected.  The client stays.
InitializeFails(c) ==
  /\ browser[c] \in {"launching", "qr", "authenticated"} /\ Fault("initialize")
  /\ NoCallback
  /\ browser' = [browser EXCEPT ![c] = "dead"]
  /\ state' = "error"
  /\ ScheduleReconnect(enabled)
  /\ UNCHANGED <<disk, client, starting, leave, callbacks, faultKinds>>

\* `auth_failure': no reconnect, the user has to link again.
AuthFailure(c) ==
  /\ browser[c] = "launching" /\ linked /\ Fault("authfailure")
  /\ NoCallback
  /\ browser' = [browser EXCEPT ![c] = "dead"]
  /\ linked' = FALSE
  /\ retry' = FALSE /\ state' = "error"
  /\ UNCHANGED <<enabled, client, starting, leave, callbacks, faultKinds>>

\* `disconnected', perhaps because the phone removed the session.  The library
\* closes the browser.
DisconnectedState(reason) == "disconnected"
Disconnected(c, reason) ==
  /\ browser[c] \in {"qr", "authenticated", "ready"} /\ Fault("disconnect")
  /\ browser' = [browser EXCEPT ![c] = "none"]
  /\ linked' = (linked /\ reason # "LOGOUT")
  /\ client' = IF client = c THEN 0 ELSE client
  /\ state' = DisconnectedState(reason)
  /\ ScheduleReconnect(enabled)
  /\ UNCHANGED <<enabled, starting, leave, callbacks, faultKinds>>

-----------------------------------------------------------------------------
\* logout

\* POST logout; "overlap" allows it while a client starts or a reconnect waits.
Logout ==
  /\ "logout" \in faultKinds /\ enabled /\ logout = "none"
  /\ \/ init = "none" /\ ~retry /\ drawing \cup readying = {}
     \/ "overlap" \in faultKinds
  /\ enabled' = FALSE
  /\ leaving' = client /\ client' = 0
  /\ logout' = IF client = 0 THEN "files" ELSE "client"
  /\ UNCHANGED <<linked, state, retry, starting, callbacks, browser, faults, faultKinds>>

\* logout() and destroy() of the client return.
ClientLeft ==
  /\ logout = "client"
  /\ logout' = "files" /\ leaving' = 0
  /\ linked' = FALSE
  /\ browser' = [browser EXCEPT ![leaving] = "none"]
  /\ UNCHANGED <<enabled, state, client, retry, starting, callbacks, faults, faultKinds>>

\* The session directory is removed: the rest of logout.
LogoutDone ==
  /\ logout = "files"
  /\ logout' = "none"
  /\ linked' = FALSE
  /\ retry' = FALSE /\ state' = "idle"
  /\ UNCHANGED <<enabled, client, starting, leaving, callbacks, browser, faults, faultKinds>>

\* The process dies and begins again.
Crash ==
  /\ Fault("crash")
  /\ state' = IF enabled THEN "starting" ELSE "idle"
  /\ init' = IF enabled THEN "creating" ELSE "none"
  /\ safely' = enabled
  /\ client' = 0 /\ retry' = FALSE /\ previous' = 0
  /\ logout' = "none" /\ leaving' = 0
  /\ drawing' = {} /\ readying' = {}
  /\ browser' = [c \in Client |-> "none"]
  /\ UNCHANGED <<disk, faultKinds>>

-----------------------------------------------------------------------------

BrowserStep(c) ==
  \/ ClientCreated(c) \/ QrShown(c) \/ Authenticated(c) \/ ReadyEvent(c)

Callback(c) == QrDrawn(c) \/ ReadyDone(c)

LinkNext ==
  \/ Start \/ RetryDue \/ PreviousDestroyed \/ CreationFails
  \/ \E c \in Client :
       \/ BrowserStep(c) \/ Callback(c) \/ InitializeFails(c) \/ AuthFailure(c)
       \/ \E reason \in {"NAVIGATION", "LOGOUT"} : Disconnected(c, reason)
  \/ Logout \/ ClientLeft \/ LogoutDone \/ Crash

LinkSpec == LinkInit /\ [][LinkNext]_linkVars

\* Timers expire, awaited calls return, a browser that does not fail gets ready
\* (the user scans the code), but nobody has to press a button.
Fairness ==
  /\ WF_linkVars(RetryDue) /\ WF_linkVars(PreviousDestroyed)
  /\ WF_linkVars(ClientLeft) /\ WF_linkVars(LogoutDone)
  /\ \A c \in Client : WF_linkVars(BrowserStep(c)) /\ WF_linkVars(Callback(c))

FairSpec == LinkSpec /\ Fairness

-----------------------------------------------------------------------------

\* The session's profile directory is never open in two browsers: what is being
\* replaced or logged out is gone before another is launched.
OneBrowser == \A c, o \in Client : browser[c] # "none" /\ browser[o] # "none" => c = o

\* Messages can be sent and received.
Usable == state = "ready" /\ client # 0 /\ browser[client] = "ready"

\* Only the user can help: the session was refused, or a start failed as he asked
\* for it.
NeedsUser == state = "error" /\ faultKinds \cap {"authfailure", "factory"} # {}

\* An enabled link comes back whatever happened to its browser (start, onReady,
\* `disconnected', scheduleReconnect), or says that the user has to act.
ComesBack == []<>(Usable \/ ~enabled \/ NeedsUser)
=============================================================================
