-------------------------------- MODULE Desk --------------------------------
(***************************************************************************)
(* The Live Desk: DeskService, which lets a human pause the dispatcher and  *)
(* sends restarts to the Desk agent, and the agent (desk-agent/main.ts),    *)
(* which starts and restarts the desktop and opens Chromium on a profile    *)
(* whose singleton links a dead process may have left behind.               *)
(*                                                                         *)
(* A desktop is what one call of startDesktop starts: the X server at once, *)
(* the session and its proxy 750 ms later.  The X server and Chromium are   *)
(* external; so is the dispatcher (TurnDispatch), of which only the active  *)
(* turn is kept.  Every delay may end at any moment.                        *)
(***************************************************************************)
EXTENDS Naturals, FiniteSets

CONSTANTS
  Calls,      \* bound: requests at a time
  Desktops,   \* how many desktops exist at a time
  Faults,     \* sets of events: a behaviour performs those of one of them
  MaxFaults   \* bound: faults

Call == 1..Calls
Desktop == 1..Desktops

\* One desktop is started with the agent.
ASSUME DeskAssumption == Calls \in Nat /\ Desktops \in Nat \ {0} /\ MaxFaults \in Nat

VARIABLES
  \* MissionsService
  paused,     \* dispatchPaused
  turn,       \* the active turn
  \* DeskService
  human,      \* controlExpiresAt is set and controlTimer armed
  call,       \* what a request to the control plane waits for
  stuck,      \* history: an interrupt failed and nobody has released control since
  crossed,    \* history: control was released while a request was acquiring it
  \* the agent
  work,       \* where a call of restartDesktop is
  resets,     \* the calls that remove the profile
  known,      \* the desktop in desktopProcesses, 0 if none
  newest,     \* the desktop started by the current desktopGeneration, 0 if none
  timers,     \* desktops whose start timer is armed
  handle,     \* the one desktopStartTimer refers to, 0 if none
  \* the desktops and Chromium
  serving,    \* desktops whose X server lives
  complete,   \* desktops whose session and proxy were started
  browser,    \* Chromium
  lock, socket, cookie,  \* its singleton links
  faults, env

control == <<paused, turn, human, call, stuck, crossed>>
agent == <<work, resets, known, newest, timers, handle, serving, complete>>
links == <<lock, socket, cookie>>
profile == <<browser, links>>
vars == <<control, agent, profile, faults, env>>

\* A link says who owned the profile: a process of this host, dead or alive (so of
\* another host), or a socket that answers or not; or it says nothing certain.
LockState == {"missing", "ambiguous", "dead", "alive"}
SocketState == {"missing", "ambiguous", "dead", "alive"}

TypeOK ==
  /\ paused \in BOOLEAN /\ turn \in {"none", "starting", "running"}
  /\ human \in BOOLEAN /\ stuck \in BOOLEAN /\ crossed \in BOOLEAN
  /\ call \in [Call -> {"none", "interrupt", "desk"}]
  /\ work \in [Call -> {"none", "terminating", "removing"}] /\ resets \subseteq Call
  /\ known \in 0..Desktops /\ newest \in 0..Desktops /\ handle \in 0..Desktops
  /\ timers \subseteq Desktop /\ serving \subseteq Desktop /\ complete \subseteq Desktop
  /\ browser \in {"none", "starting", "running"}
  /\ lock \in LockState /\ socket \in SocketState
  /\ cookie \in BOOLEAN
  /\ faults \in 0..MaxFaults /\ env \in Faults

\* recoverStaleChromiumProfile removes links whose owner is dead beyond doubt.
ProvedDeadMutant(l, s) == s \in {"missing", "dead"}
ProvedDead(l, s) == l \in {"missing", "dead"} /\ s \in {"missing", "dead"}

\* What an earlier container left in the profile, after the recovery at startup.
Leftover ==
  /\ lock \in LockState \ {"alive"} /\ socket \in SocketState \ {"alive"}
  /\ cookie \in BOOLEAN
  /\ ProvedDead(lock, socket) => lock = "missing" /\ socket = "missing" /\ ~cookie

Init ==
  /\ paused = FALSE /\ turn = "none" /\ human = FALSE
  /\ call = [c \in Call |-> "none"] /\ stuck = FALSE /\ crossed = FALSE
  /\ work = [c \in Call |-> "none"] /\ resets = {}
  /\ known = 1 /\ newest = 1 /\ timers = {1} /\ handle = 1
  /\ serving = {1} /\ complete = {}
  /\ env \in Faults
  /\ browser = "none" /\ Leftover
  /\ "browser" \notin env => lock = "missing" /\ socket = "missing" /\ ~cookie
  /\ faults = 0

Fault(kind) == kind \in env /\ faults < MaxFaults /\ faults' = faults + 1
Idle(c) == call[c] = "none" /\ work[c] = "none"

\* desktopReady
desktopReady == known \in serving \cap complete

-----------------------------------------------------------------------------
\* Operators named ...Mutant are wrong on purpose: each stands for a plausible
\* slip in the operator after it, and shows which property would catch it.

\* setDispatchPaused
KeepsPausedMutant(p) == paused' = (paused \/ p)
NeverPausedMutant(p) == paused' = FALSE
setDispatchPaused(p) == paused' = p

\* expireControl, by the timer, a release or a restart of the desktop.
expireControl ==
  /\ human' = FALSE
  /\ setDispatchPaused(FALSE)
  /\ stuck' = FALSE
  /\ crossed' = \E c \in Call : call[c] = "interrupt"

-----------------------------------------------------------------------------
\* The dispatcher

TurnDispatched ==
  /\ "control" \in env /\ ~paused /\ turn = "none"
  /\ turn' = "starting"
  /\ UNCHANGED <<paused, human, call, stuck, crossed, agent, profile, faults, env>>

TurnGoesOn ==
  /\ turn # "none"
  /\ turn' \in IF turn = "starting" THEN {"running", "none"} ELSE {"none"}
  /\ UNCHANGED <<paused, human, call, stuck, crossed, agent, profile, faults, env>>

-----------------------------------------------------------------------------
\* Control

\* acquireControl, up to the interrupt of the active turn.  (Without the caller's
\* leave to interrupt, an active turn makes it fail before it does anything.)  The
\* interrupt of a turn that has no Codex turn id yet throws at once.
acquireControl(c) ==
  /\ "control" \in env /\ Idle(c)
  /\ setDispatchPaused(TRUE)
  /\ CASE turn = "none" -> human' = TRUE /\ stuck' = FALSE /\ UNCHANGED call
       [] turn = "starting" -> stuck' = TRUE /\ UNCHANGED <<human, call>>
       [] turn = "running" -> /\ call' = [call EXCEPT ![c] = "interrupt"]
                              /\ UNCHANGED <<human, stuck>>
  /\ UNCHANGED <<turn, crossed, agent, profile, faults, env>>

\* turn/interrupt is answered: finishActive, then the timer is armed.
Interrupted(c) ==
  /\ call[c] = "interrupt"
  /\ call' = [call EXCEPT ![c] = "none"]
  /\ turn' = IF turn = "running" THEN "none" ELSE turn
  /\ human' = TRUE /\ stuck' = FALSE
  /\ UNCHANGED <<paused, crossed, agent, profile, faults, env>>

\* turn/interrupt fails: nothing after the await is done.
InterruptFails(c) ==
  /\ call[c] = "interrupt" /\ Fault("interrupt")
  /\ call' = [call EXCEPT ![c] = "none"]
  /\ stuck' = TRUE
  /\ UNCHANGED <<paused, turn, human, crossed, agent, profile, env>>

\* releaseControl; its button is there while the human has control, or a stale
\* status says so.
releaseControl ==
  /\ human \/ "stale" \in env
  /\ paused \/ human
  /\ expireControl
  /\ UNCHANGED <<turn, call, agent, profile, faults, env>>

\* controlTimer.
ControlExpires ==
  /\ human /\ expireControl
  /\ UNCHANGED <<turn, call, agent, profile, faults, env>>

\* action(restart) and action(reset): refused while a turn is active.  The agent
\* begins restartDesktop: the desktop is told to end.  A reset is alone ("overlap"
\* allows others beside it): no page of the web application asks for one.
action(c, reset) ==
  /\ "desk" \in env /\ Idle(c) /\ turn = "none"
  /\ IF reset THEN "reset" \in env ELSE "restart" \in env
  /\ \/ "overlap" \in env \/ \A o \in Call : work[o] = "none"
     \/ ~reset /\ resets = {}
  /\ call' = [call EXCEPT ![c] = "desk"]
  /\ work' = [work EXCEPT ![c] = "terminating"]
  /\ resets' = IF reset THEN resets \cup {c} ELSE resets
  /\ newest' = 0
  /\ timers' = timers \ {handle} /\ handle' = 0
  /\ UNCHANGED <<paused, turn, human, stuck, crossed, known, serving, complete, profile,
                 faults, env>>

\* The agent has answered, which ends the human's control.
DeskAnswered(c) ==
  /\ call[c] = "desk" /\ work[c] = "none"
  /\ call' = [call EXCEPT ![c] = "none"]
  /\ expireControl
  /\ UNCHANGED <<turn, agent, profile, faults, env>>

\* The agent does not answer in 15 seconds: it goes on nevertheless.
DeskTimesOut(c) ==
  /\ call[c] = "desk" /\ Fault("timeout")
  /\ call' = [call EXCEPT ![c] = "none"]
  /\ UNCHANGED <<paused, turn, human, stuck, crossed, agent, profile, env>>

-----------------------------------------------------------------------------
\* The agent

\* startDesktop.  A second X server on the display ends at once.
StartDesktop(d, alive, armed) ==
  /\ d \notin alive \cup armed \cup {handle}
  /\ known' = d /\ newest' = d
  /\ serving' = IF alive = {} THEN {d} ELSE alive
  /\ complete' = complete \ {d}
  /\ timers' = armed \cup {d} /\ handle' = d

\* Half a second after SIGTERM: SIGKILL for what desktopProcesses holds by now.
\* Chromium dies with it or with its X server, and leaves its links; only one opened
\* before an overlapping startDesktop replaced the list, on an X server that serves on,
\* may outlive it.
Dies(link) == IF link = "alive" THEN "dead" ELSE link
Killed(c, d) ==
  /\ work[c] = "terminating"
  /\ \/ browser' = "none" /\ lock' = Dies(lock) /\ socket' = Dies(socket)
     \/ serving \ {known} # {} /\ UNCHANGED <<browser, lock, socket>>
  /\ IF c \in resets
     THEN /\ work' = [work EXCEPT ![c] = "removing"]
          /\ serving' = serving \ {known} /\ known' = 0
          /\ UNCHANGED <<newest, timers, handle, complete>>
     ELSE /\ work' = [work EXCEPT ![c] = "none"]
          /\ StartDesktop(d, serving \ {known}, timers)
  /\ UNCHANGED <<resets, cookie, control, faults, env>>

\* A reset has removed the profile, with the links of whoever uses it by now.
Removed(c, d) ==
  /\ work[c] = "removing"
  /\ work' = [work EXCEPT ![c] = "none"] /\ resets' = resets \ {c}
  /\ lock' = "missing" /\ socket' = "missing" /\ cookie' = FALSE
  /\ StartDesktop(d, serving, timers)
  /\ UNCHANGED <<browser, control, faults, env>>

\* 750 ms after startDesktop; another generation's timer does nothing.
LastArmedMutant(d) == d = handle
IsNewest(d) == d = newest
StartTimer(d) ==
  /\ d \in timers
  /\ timers' = timers \ {d} /\ handle' = 0
  /\ complete' = IF IsNewest(d) THEN complete \cup ({known} \ {0}) ELSE complete
  /\ UNCHANGED <<work, resets, known, newest, serving, control, profile, faults, env>>

\* recoverStaleChromiumProfile of links l and s, when pgrep does or does not see Chromium.
recoverStaleChromiumProfile(seen, l, s) ==
  IF ~seen /\ ProvedDead(l, s)
  THEN lock' = "missing" /\ socket' = "missing" /\ cookie' = FALSE
  ELSE lock' = l /\ socket' = s /\ UNCHANGED cookie

\* openBrowser.  pgrep may time out on a Chromium that runs, and a child killed by a
\* signal counts as one (its exitCode is null).  A second Chromium finds the first by
\* its links and leaves, and one without an X server ends at once.
openBrowser(seen) ==
  /\ "browser" \in env
  /\ recoverStaleChromiumProfile(seen, lock, socket)
  /\ browser' = IF browser = "none" /\ lock' = "missing" /\ serving # {}
                THEN "starting" ELSE browser
  /\ UNCHANGED <<control, agent, faults, env>>

\* Chromium takes the profile: the lock first, then the socket.
ChromiumLocks ==
  /\ browser = "starting"
  /\ browser' = "running" /\ lock' = "alive"
  /\ UNCHANGED <<socket, cookie, control, agent, faults, env>>
ChromiumListens ==
  /\ browser = "running" /\ socket # "alive"
  /\ socket' = "alive" /\ cookie' = TRUE
  /\ UNCHANGED <<browser, lock, control, agent, faults, env>>
ChromiumEnds(clean) ==
  /\ browser = "running"
  /\ browser' = "none"
  /\ IF clean THEN /\ lock' = "missing" /\ socket' = "missing" /\ cookie' = FALSE
                   /\ UNCHANGED faults
     ELSE /\ Fault("kill")
          /\ lock' = Dies(lock) /\ socket' = Dies(socket) /\ UNCHANGED cookie
  /\ UNCHANGED <<control, agent, env>>

\* The container is restarted: Chromium is gone, the profile is recovered.
AgentRestarts ==
  /\ Fault("agent")
  /\ call' = [c \in Call |-> IF call[c] = "desk" THEN "none" ELSE call[c]]
  /\ work' = [c \in Call |-> "none"] /\ resets' = {}
  /\ known' = 1 /\ newest' = 1 /\ timers' = {1} /\ handle' = 1
  /\ serving' = {1} /\ complete' = {}
  /\ browser' = "none"
  /\ recoverStaleChromiumProfile(FALSE, Dies(lock), Dies(socket))
  /\ UNCHANGED <<paused, turn, human, stuck, crossed, env>>

-----------------------------------------------------------------------------

ControlStep ==
  \/ TurnDispatched \/ TurnGoesOn \/ releaseControl \/ ControlExpires
  \/ \E c \in Call : \/ acquireControl(c) \/ Interrupted(c) \/ InterruptFails(c)
                     \/ \E reset \in BOOLEAN : action(c, reset)
                     \/ DeskAnswered(c) \/ DeskTimesOut(c)

AgentStep(d) == (\E c \in Call : Killed(c, d) \/ Removed(c, d)) \/ StartTimer(d)

BrowserStep ==
  \/ \E seen \in BOOLEAN : openBrowser(seen)
  \/ ChromiumLocks \/ ChromiumListens
  \/ \E clean \in BOOLEAN : ChromiumEnds(clean)

Next == ControlStep \/ (\E d \in Desktop : AgentStep(d)) \/ AgentRestarts \/ BrowserStep

Spec == Init /\ [][Next]_vars

\* Timers expire and awaited calls return; nobody has to press a button.
Fairness ==
  /\ WF_vars(ControlExpires)
  /\ \A c \in Call : WF_vars(Interrupted(c)) /\ WF_vars(DeskAnswered(c))
  /\ WF_vars(\E d \in Desktop : AgentStep(d))

FairSpec == Spec /\ Fairness

-----------------------------------------------------------------------------

\* While a human has control the dispatcher is paused (acquireControl, expireControl),
\* unless control was released, expired or ended with a restart of the desktop while a
\* request for it still awaited its interrupt.
ControlPauses == human /\ ~crossed => paused

\* A pause ends: by release, by the control timer or by a restart of the desktop.
\* (Unless the interrupt failed after the dispatcher had been paused.)
PauseEnds == paused ~> (~paused \/ stuck)

\* Left alone, the desktop is ready again, however its restarts overlapped.  (A restart
\* that overlaps a reset may leave an X server that no list holds, beside which none of
\* the next is ever ready.)
DesktopReturns ==
  "overlap" \notin env => []<>(desktopReady \/ \E c \in Call : work[c] # "none")

\* The lock of a Chromium that runs goes with it or with the profile a reset removes; the
\* recovery of an abandoned profile never takes it, not even if pgrep misses the process
\* (recoverStaleChromiumProfile).
ResetEnds == \E c \in Call : work[c] = "removing" /\ work'[c] = "none"
ProfileKept == [][lock = "alive" /\ lock' # "alive" => browser' = "none" \/ ResetEnds]_vars
=============================================================================
