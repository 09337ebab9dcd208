----------------------------- MODULE DeskProofs ------------------------------
(***************************************************************************)
(* Proofs about Desk and TerminalSessions.                                 *)
(*                                                                         *)
(* For every number of requests, desktops and faults: human control comes  *)
(* with a paused dispatcher, and the links of a Chromium that runs are     *)
(* left alone.                                                             *)
(*                                                                         *)
(* For every set of pages and every bound: the records of the terminal's   *)
(* sessions tell which shell runs, and pages are connected to it.          *)
(***************************************************************************)
EXTENDS Desk, TerminalSessions, TLAPS

-----------------------------------------------------------------------------
\* Control of the desktop, and the profile of its browser

\* A request that awaits its interrupt has paused the dispatcher, and nobody has
\* released control since.
WaitPauses == (\E c \in Call : call[c] = "interrupt") /\ ~crossed => paused

\* What control rests on, with as much of the types as it needs.
IInv == /\ call \in [Call -> {"none", "interrupt", "desk"}]
        /\ turn \in {"none", "starting", "running"}
        /\ paused \in BOOLEAN /\ human \in BOOLEAN /\ crossed \in BOOLEAN
        /\ WaitPauses /\ ControlPauses

-----------------------------------------------------------------------------
LEMMA InitIInv == Init => IInv
BY DEF Init, IInv, WaitPauses, ControlPauses

\* Control ends: a request that still waits for its interrupt is crossed.
LEMMA ExpireKeeps ==
  ASSUME expireControl,
         call' \in [Call -> {"none", "interrupt", "desk"}],
         turn' \in {"none", "starting", "running"},
         \A c \in Call : call'[c] = "interrupt" => call[c] = "interrupt"
  PROVE  IInv'
BY DEF expireControl, setDispatchPaused, IInv, WaitPauses, ControlPauses

LEMMA ControlSteps ==
  ASSUME IInv, ControlStep
  PROVE  IInv'
<1> USE DEF IInv
<1>1. CASE TurnDispatched \/ TurnGoesOn
  BY <1>1 DEF TurnDispatched, TurnGoesOn, WaitPauses, ControlPauses
<1>2. CASE releaseControl
  BY <1>2, ExpireKeeps DEF releaseControl
<1>3. CASE ControlExpires
  BY <1>3, ExpireKeeps DEF ControlExpires
<1>4. ASSUME NEW c \in Call, acquireControl(c)
      PROVE  IInv'
  <2>1. paused' = TRUE /\ UNCHANGED <<turn, crossed>>
    BY <1>4 DEF acquireControl, setDispatchPaused
  <2>2. human' \in BOOLEAN /\ call' \in [Call -> {"none", "interrupt", "desk"}]
    <3>1. CASE turn = "none"
      BY <1>4, <3>1 DEF acquireControl
    <3>2. CASE turn = "starting"
      BY <1>4, <3>2 DEF acquireControl
    <3>3. CASE turn = "running"
      BY <1>4, <3>3 DEF acquireControl
    <3> QED
      BY <3>1, <3>2, <3>3
  <2> QED
    BY <2>1, <2>2 DEF WaitPauses, ControlPauses
<1>5. ASSUME NEW c \in Call, Interrupted(c)
      PROVE  IInv'
  BY <1>5 DEF Interrupted, WaitPauses, ControlPauses
<1>6. ASSUME NEW c \in Call, InterruptFails(c)
      PROVE  IInv'
  BY <1>6 DEF InterruptFails, WaitPauses, ControlPauses
<1>7. ASSUME NEW c \in Call, NEW reset \in BOOLEAN, action(c, reset)
      PROVE  IInv'
  BY <1>7 DEF action, WaitPauses, ControlPauses
<1>8. ASSUME NEW c \in Call, DeskAnswered(c)
      PROVE  IInv'
  <2>1. /\ expireControl /\ turn' = turn
        /\ call' \in [Call -> {"none", "interrupt", "desk"}]
        /\ \A o \in Call : call'[o] = "interrupt" => call[o] = "interrupt"
    BY <1>8 DEF DeskAnswered
  <2> QED
    BY <2>1, ExpireKeeps
<1>9. ASSUME NEW c \in Call, DeskTimesOut(c)
      PROVE  IInv'
  BY <1>9 DEF DeskTimesOut, WaitPauses, ControlPauses
<1> QED
  BY <1>1, <1>2, <1>3, <1>4, <1>5, <1>6, <1>7, <1>8, <1>9 DEF ControlStep

\* The agent and Chromium know nothing of control; a restart of the agent answers
\* the requests made to it.
LEMMA OtherSteps ==
  ASSUME IInv,
         (\E d \in Desktop : AgentStep(d)) \/ AgentRestarts \/ BrowserStep \/ UNCHANGED vars
  PROVE  IInv'
<1> USE DEF IInv
<1>1. CASE UNCHANGED <<paused, turn, human, call, crossed>>
  BY <1>1 DEF WaitPauses, ControlPauses
<1>2. CASE AgentRestarts
  BY <1>2 DEF AgentRestarts, WaitPauses, ControlPauses
<1>3. CASE \E d \in Desktop : AgentStep(d)
  BY <1>1, <1>3 DEF AgentStep, Killed, Removed, StartTimer, control
<1>4. CASE BrowserStep
  BY <1>1, <1>4 DEF BrowserStep, openBrowser, ChromiumLocks, ChromiumListens, ChromiumEnds, control
<1>5. CASE UNCHANGED vars
  BY <1>1, <1>5 DEF vars, control
<1> QED
  BY <1>2, <1>3, <1>4, <1>5

LEMMA StepIInv == IInv /\ [Next]_vars => IInv'
BY ControlSteps, OtherSteps DEF Next

\* The inductive invariant: a request that waits to take control has paused the
\* dispatcher already.
THEOREM Invariant == Spec => []IInv
BY InitIInv, StepIInv, PTL DEF Spec

\* While a human has control of the desktop the dispatcher is paused, for every number of
\* requests and whatever turns and failures come between, unless a release, an expiry or a
\* restart of the desktop crossed a request that awaited its interrupt: after that the
\* property says nothing until control ends with no such request waiting.
THEOREM ControlPausesCorrect == Spec => []ControlPauses
<1>1. IInv => ControlPauses
  BY DEF IInv
<1> QED
  BY <1>1, Invariant, PTL

-----------------------------------------------------------------------------
\* The types

LEMMA InitTypes == Init => TypeOK
<1> SUFFICES ASSUME Init PROVE TypeOK
  OBVIOUS
<1>1. 1 \in Desktop /\ 1 \in 0..Desktops /\ 0 \in 0..MaxFaults
  BY DeskAssumption DEF Desktop
<1>2. lock \in LockState /\ socket \in SocketState /\ cookie \in BOOLEAN
  BY DEF Init, Leftover
<1> QED
  BY <1>1, <1>2 DEF Init, TypeOK

\* The links after a recovery, and after Chromium's death.
LEMMA LinkTypes ==
  ASSUME NEW seen, NEW l \in LockState, NEW s \in SocketState
  PROVE  /\ Dies(l) \in LockState /\ Dies(s) \in SocketState
         /\ cookie \in BOOLEAN /\ recoverStaleChromiumProfile(seen, l, s)
              => lock' \in LockState /\ socket' \in SocketState /\ cookie' \in BOOLEAN
<1>1. Dies(l) \in LockState /\ Dies(s) \in SocketState
  BY DEF Dies, LockState, SocketState
<1>2. ASSUME cookie \in BOOLEAN, recoverStaleChromiumProfile(seen, l, s)
      PROVE  lock' \in LockState /\ socket' \in SocketState /\ cookie' \in BOOLEAN
  <2>1. "missing" \in LockState /\ "missing" \in SocketState
    BY DEF LockState, SocketState
  <2>2. CASE ~seen /\ ProvedDead(l, s)
    <3>1. lock' = "missing" /\ socket' = "missing" /\ cookie' = FALSE
      BY <1>2, <2>2 DEF recoverStaleChromiumProfile
    <3> QED
      BY <2>1, <3>1
  <2>3. CASE ~(~seen /\ ProvedDead(l, s))
    <3>1. lock' = l /\ socket' = s /\ cookie' = cookie
      BY <1>2, <2>3 DEF recoverStaleChromiumProfile
    <3> QED
      BY <1>2, <3>1
  <2> QED
    BY <2>2, <2>3
<1> QED
  BY <1>1, <1>2

\* startDesktop, with what is left of the desktops that serve and the timers.
LEMMA DesktopTypes ==
  ASSUME complete \subseteq Desktop, NEW d \in Desktop, NEW left \in SUBSET Desktop,
         NEW armed \in SUBSET Desktop, StartDesktop(d, left, armed)
  PROVE  /\ known' \in 0..Desktops /\ newest' \in 0..Desktops /\ handle' \in 0..Desktops
         /\ timers' \subseteq Desktop /\ serving' \subseteq Desktop /\ complete' \subseteq Desktop
<1>1. d \in 0..Desktops
  BY DeskAssumption DEF Desktop
<1> QED
  BY <1>1 DEF StartDesktop

LEMMA FaultTypes ==
  ASSUME faults \in 0..MaxFaults, NEW kind, Fault(kind)
  PROVE  faults' \in 0..MaxFaults
BY DeskAssumption DEF Fault

LEMMA ControlTypes == ASSUME TypeOK, ControlStep PROVE TypeOK'
<1>1. ASSUME NEW c \in Call, NEW reset \in BOOLEAN, action(c, reset) PROVE TypeOK'
  BY <1>1, DeskAssumption DEF TypeOK, action, profile, links
<1>2. ASSUME NEW c \in Call, acquireControl(c) PROVE TypeOK'
  BY <1>2 DEF TypeOK, acquireControl, setDispatchPaused, agent, profile, links
<1>3. ASSUME NEW c \in Call, Interrupted(c) \/ DeskAnswered(c) PROVE TypeOK'
  BY <1>3 DEF TypeOK, Interrupted, DeskAnswered, expireControl, setDispatchPaused, agent, profile,
              links
<1>4. ASSUME NEW c \in Call, InterruptFails(c) \/ DeskTimesOut(c) PROVE TypeOK'
  <2>1. faults' \in 0..MaxFaults
    BY <1>4, FaultTypes DEF TypeOK, InterruptFails, DeskTimesOut
  <2> QED
    BY <1>4, <2>1 DEF TypeOK, InterruptFails, DeskTimesOut, agent, profile, links
<1>5. CASE TurnDispatched \/ TurnGoesOn \/ releaseControl \/ ControlExpires
  BY <1>5 DEF TypeOK, TurnDispatched, TurnGoesOn, releaseControl, ControlExpires, expireControl,
              setDispatchPaused, agent, profile, links
<1> QED
  BY <1>1, <1>2, <1>3, <1>4, <1>5 DEF ControlStep

LEMMA AgentTypes == ASSUME TypeOK, NEW d \in Desktop, AgentStep(d) PROVE TypeOK'
<1>1. ASSUME NEW c \in Call, Killed(c, d) PROVE TypeOK'
  <2>1. /\ browser' \in {"none", "starting", "running"}
        /\ lock' \in LockState /\ socket' \in SocketState
        /\ UNCHANGED <<resets, cookie, paused, turn, human, call, stuck, crossed, faults, env>>
        /\ work' \in [Call -> {"none", "terminating", "removing"}]
    BY <1>1, LinkTypes DEF TypeOK, Killed, control
  <2>2. /\ known' \in 0..Desktops /\ newest' \in 0..Desktops /\ handle' \in 0..Desktops
        /\ timers' \subseteq Desktop /\ serving' \subseteq Desktop /\ complete' \subseteq Desktop
    <3>1. CASE c \in resets
      BY <1>1, <3>1, DeskAssumption DEF TypeOK, Killed
    <3>2. CASE c \notin resets
      <4>1. StartDesktop(d, serving \ {known}, timers) /\ serving \ {known} \in SUBSET Desktop
        BY <1>1, <3>2 DEF TypeOK, Killed
      <4> QED
        BY <4>1, DesktopTypes DEF TypeOK
    <3> QED
      BY <3>1, <3>2
  <2> QED
    BY <2>1, <2>2 DEF TypeOK
<1>2. ASSUME NEW c \in Call, Removed(c, d) PROVE TypeOK'
  <2>1. /\ known' \in 0..Desktops /\ newest' \in 0..Desktops /\ handle' \in 0..Desktops
        /\ timers' \subseteq Desktop /\ serving' \subseteq Desktop /\ complete' \subseteq Desktop
    BY <1>2, DesktopTypes DEF TypeOK, Removed
  <2> QED
    BY <1>2, <2>1 DEF TypeOK, Removed, control, LockState, SocketState
<1>3. CASE StartTimer(d)
  BY <1>3, DeskAssumption DEF TypeOK, StartTimer, control, profile, links, Desktop
<1> QED
  BY <1>1, <1>2, <1>3 DEF AgentStep

LEMMA RestartTypes == ASSUME TypeOK, AgentRestarts PROVE TypeOK'
<1>1. faults' \in 0..MaxFaults
  BY FaultTypes DEF TypeOK, AgentRestarts
<1>2. lock' \in LockState /\ socket' \in SocketState /\ cookie' \in BOOLEAN
  BY LinkTypes DEF TypeOK, AgentRestarts
<1>3. 1 \in Desktop /\ 1 \in 0..Desktops
  BY DeskAssumption DEF Desktop
<1> QED
  BY <1>1, <1>2, <1>3 DEF TypeOK, AgentRestarts

LEMMA BrowserTypes == ASSUME TypeOK, BrowserStep PROVE TypeOK'
<1>1. ASSUME NEW seen \in BOOLEAN, openBrowser(seen) PROVE TypeOK'
  <2>1. lock' \in LockState /\ socket' \in SocketState /\ cookie' \in BOOLEAN
    BY <1>1, LinkTypes DEF TypeOK, openBrowser
  <2> QED
    BY <1>1, <2>1 DEF TypeOK, openBrowser, control, agent
<1>2. CASE ChromiumLocks \/ ChromiumListens
  <2>1. /\ browser' \in {"none", "starting", "running"}
        /\ lock' \in LockState /\ socket' \in SocketState /\ cookie' \in BOOLEAN
    BY <1>2 DEF TypeOK, ChromiumLocks, ChromiumListens, LockState, SocketState
  <2> QED
    BY <1>2, <2>1 DEF TypeOK, ChromiumLocks, ChromiumListens, control, agent
<1>3. ASSUME NEW clean \in BOOLEAN, ChromiumEnds(clean) PROVE TypeOK'
  <2>1. lock' \in LockState /\ socket' \in SocketState /\ cookie' \in BOOLEAN
    BY <1>3, LinkTypes DEF TypeOK, ChromiumEnds, LockState, SocketState
  <2>2. faults' \in 0..MaxFaults
    BY <1>3, FaultTypes DEF TypeOK, ChromiumEnds
  <2> QED
    BY <1>3, <2>1, <2>2 DEF TypeOK, ChromiumEnds, control, agent
<1> QED
  BY <1>1, <1>2, <1>3 DEF BrowserStep

\* Every variable of the Desk and its agent keeps its type.
THEOREM TypeCorrect == Spec => []TypeOK
<1>1. TypeOK /\ [Next]_vars => TypeOK'
  <2>1. ASSUME TypeOK, UNCHANGED vars PROVE TypeOK'
    BY <2>1 DEF TypeOK, vars, control, agent, profile, links
  <2> QED
    BY <2>1, ControlTypes, AgentTypes, RestartTypes, BrowserTypes DEF Next
<1> QED
  BY <1>1, InitTypes, PTL DEF Spec

-----------------------------------------------------------------------------
\* A lock of a living Chromium is no proof that its owner is dead.
LEMMA RecoveryKeepsLock ==
  ASSUME NEW seen, NEW s, recoverStaleChromiumProfile(seen, "alive", s)
  PROVE  lock' = "alive"
BY DEF recoverStaleChromiumProfile, ProvedDead

LEMMA StepKeepsProfile ==
  ASSUME TypeOK, [Next]_vars, lock = "alive", lock' # "alive"
  PROVE  browser' = "none" \/ ResetEnds
<1>1. CASE ControlStep \/ UNCHANGED vars
  BY <1>1 DEF ControlStep, TurnDispatched, TurnGoesOn, releaseControl, ControlExpires,
              acquireControl, Interrupted, InterruptFails, action, DeskAnswered, DeskTimesOut,
              vars, profile, links
<1>2. ASSUME NEW d \in Desktop, AgentStep(d) PROVE browser' = "none" \/ ResetEnds
  <2>1. ASSUME NEW c \in Call, Killed(c, d) PROVE browser' = "none"
    BY <2>1 DEF Killed
  <2>2. ASSUME NEW c \in Call, Removed(c, d) PROVE ResetEnds
    <3>1. work[c] = "removing" /\ work'[c] = "none"
      BY <2>2 DEF Removed, TypeOK
    <3> QED
      BY <3>1 DEF ResetEnds
  <2>3. ASSUME StartTimer(d) PROVE FALSE
    BY <2>3 DEF StartTimer, profile, links
  <2> QED
    BY <1>2, <2>1, <2>2, <2>3 DEF AgentStep
<1>3. CASE AgentRestarts
  BY <1>3 DEF AgentRestarts
<1>4. CASE BrowserStep
  BY <1>4, RecoveryKeepsLock
     DEF BrowserStep, openBrowser, ChromiumLocks, ChromiumListens, ChromiumEnds
<1> QED
  BY <1>1, <1>2, <1>3, <1>4 DEF Next

\* The lock of a Chromium goes only when it is gone (by its own end, by the agent's kill,
\* or in a container that starts anew) or with the profile that a reset removes, also
\* when restarts and resets overlap.
THEOREM ProfileKeptCorrect == Spec => ProfileKept
<1>1. TypeOK /\ [Next]_vars =>
        [lock = "alive" /\ lock' # "alive" => browser' = "none" \/ ResetEnds]_vars
  BY StepKeepsProfile
<1> QED
  BY <1>1, TypeCorrect, PTL DEF Spec, ProfileKept

-----------------------------------------------------------------------------
\* The sessions of the terminal

\* RecordsTrue needs to know that a session is named once only: the active one, and
\* every one whose shell lives or that has a record, is among those spawned.
Spawned ==
  /\ active <= sessions
  /\ \A s \in Session : s \in alive \/ record[s] # "none" => s <= sessions

TerminalInv == TerminalTypeOK /\ Spawned /\ RecordsTrue

-----------------------------------------------------------------------------
LEMMA InitTerminalInv == TerminalInit => TerminalInv
<1> SUFFICES ASSUME TerminalInit PROVE TerminalInv
  OBVIOUS
<1> USE TerminalAssumption
<1>1. TerminalTypeOK
  <2>1. /\ active \in 0..MaxSessions /\ requests \in 0..MaxRequests
        /\ sessions \in 0..MaxSessions /\ tokens \in 0..MaxTokens /\ losses \in 0..MaxLosses
    BY DEF TerminalInit
  <2>2. /\ issuedFor \in [Token -> 0..MaxSessions] /\ serves \in [Token -> 0..MaxSessions]
        /\ session \in [Page -> 0..MaxSessions] /\ current \in [Page -> 0..MaxTokens]
    BY DEF TerminalInit
  <2> QED
    BY <2>1, <2>2 DEF TerminalInit, TerminalTypeOK
<1>2. Spawned
  BY DEF TerminalInit, Spawned
<1>3. RecordsTrue
  BY DEF TerminalInit, RecordsTrue, Session
<1> QED
  BY <1>1, <1>2, <1>3 DEF TerminalInv

\* A shell is spawned with records that say of none that it runs.
LEMMA SpawnKeeps ==
  ASSUME TerminalInv,
         NEW r \in [Session -> {"none", "running", "closed"}],
         \A s \in Session : r[s] # "running" /\ (r[s] # "none" => s <= sessions),
         Spawn(r), killed' \in SUBSET Session,
         \A s \in alive : s \in killed'
  PROVE  /\ active' \in 1..MaxSessions /\ running' = TRUE
         /\ alive' \subseteq Session
         /\ record' \in [Session -> {"none", "running", "closed"}]
         /\ sessions' \in 0..MaxSessions
         /\ Spawned' /\ RecordsTrue'
BY TerminalAssumption DEF TerminalInv, TerminalTypeOK, Spawned, RecordsTrue, Spawn, Session

\* The socket of a page is opened on the active session.
LEMMA OpenSocketTypes ==
  ASSUME TerminalTypeOK, NEW p \in Page, active' \in 0..MaxSessions,
         NEW old \in [Token -> {"none", "opening", "open", "closing", "closed"}],
         openSocket(p, old)
  PROVE  /\ issuedFor' \in [Token -> 0..MaxSessions]
         /\ sock' \in [Token -> {"none", "opening", "open", "closing", "closed"}]
         /\ session' \in [Page -> 0..MaxSessions] /\ current' \in [Page -> 0..MaxTokens]
         /\ asked' \in [Page -> {"none", "open", "restart"}]
         /\ tokens' \in 0..MaxTokens
<1>1. /\ issuedFor' \in [Token -> 0..MaxSessions]
      /\ session' \in [Page -> 0..MaxSessions] /\ current' \in [Page -> 0..MaxTokens]
      /\ tokens' \in 0..MaxTokens
  BY TerminalAssumption DEF TerminalTypeOK, openSocket, Token
<1>2. /\ sock' \in [Token -> {"none", "opening", "open", "closing", "closed"}]
      /\ asked' \in [Page -> {"none", "open", "restart"}]
  BY TerminalAssumption DEF TerminalTypeOK, openSocket, Token
<1> QED
  BY <1>1, <1>2

LEMMA CloseTypes ==
  ASSUME TerminalTypeOK, NEW ts
  PROVE  Close(ts) \in [Token -> {"none", "opening", "open", "closing", "closed"}]
BY DEF TerminalTypeOK, Close

-----------------------------------------------------------------------------
\* Preservation, by the step taken

LEMMA PageSteps ==
  ASSUME TerminalInv, NEW p \in Page, PageStep(p)
  PROVE  TerminalInv'
<1> USE TerminalAssumption
<1>1. CASE Reconnect(p)
  <2>1. sock' \in [Token -> {"none", "opening", "open", "closing", "closed"}]
    BY <1>1, CloseTypes DEF Reconnect, TerminalInv
  <2> QED
    BY <1>1, <2>1 DEF Reconnect, TerminalInv, TerminalTypeOK, Spawned, RecordsTrue, server
<1>2. CASE Opened(p)
  <2>1. CASE active = 0 \/ ~running
    <3>1. Spawn(record)
      BY <1>2, <2>1 DEF Opened
    <3>2. \A s \in Session : record[s] # "running" /\ (record[s] # "none" => s <= sessions)
      BY <2>1 DEF TerminalInv, TerminalTypeOK, RecordsTrue, Spawned, Session
    <3>3. /\ record \in [Session -> {"none", "running", "closed"}]
          /\ killed' \in SUBSET Session /\ \A s \in alive : s \in killed'
      <4>1. killed' = killed /\ \A s \in alive : s # 0
        BY <1>2 DEF Opened, TerminalInv, TerminalTypeOK, Session
      <4> QED
        BY <2>1, <4>1 DEF TerminalInv, TerminalTypeOK, RecordsTrue
    <3>4. /\ active' \in 1..MaxSessions /\ running' = TRUE
          /\ alive' \subseteq Session
          /\ record' \in [Session -> {"none", "running", "closed"}]
          /\ sessions' \in 0..MaxSessions
          /\ Spawned' /\ RecordsTrue'
      BY <3>1, <3>2, <3>3, SpawnKeeps
    <3>5. active' \in 0..MaxSessions /\ openSocket(p, sock)
          /\ sock \in [Token -> {"none", "opening", "open", "closing", "closed"}] /\ TerminalTypeOK
      BY <1>2, <3>4 DEF Opened, TerminalInv, TerminalTypeOK
    <3>6. TerminalTypeOK'
      BY <1>2, <3>4, <3>5, OpenSocketTypes DEF Opened, TerminalTypeOK
    <3> QED
      BY <3>4, <3>6 DEF TerminalInv
  <2>2. CASE ~(active = 0 \/ ~running)
    <3>1. UNCHANGED <<active, running, alive, killed, record, sessions>>
      BY <1>2, <2>2 DEF Opened
    <3>2. active' \in 0..MaxSessions /\ openSocket(p, sock)
          /\ sock \in [Token -> {"none", "opening", "open", "closing", "closed"}] /\ TerminalTypeOK
      BY <1>2, <3>1 DEF Opened, TerminalInv, TerminalTypeOK
    <3>3. TerminalTypeOK'
      BY <1>2, <3>1, <3>2, OpenSocketTypes DEF Opened, TerminalTypeOK
    <3> QED
      BY <3>1, <3>3 DEF TerminalInv, Spawned, RecordsTrue
  <2> QED
    BY <2>1, <2>2
<1>3. CASE OpenRefused(p)
  BY <1>3 DEF OpenRefused, TerminalInv, TerminalTypeOK, Spawned, RecordsTrue, server, sockets
<1>4. CASE Restart(p)
  BY <1>4 DEF Restart, TerminalInv, TerminalTypeOK, Spawned, RecordsTrue, server, sockets
<1>5. CASE Restarted(p)
  <2> DEFINE r == IF running THEN closeRecord(active) ELSE record
             old == IF running THEN ClientsClosed(active) ELSE sock
             left == [old EXCEPT ![current[p]] = IF @ \in {"opening", "open"} THEN "closing" ELSE @]
  <2>1. Spawn(r) /\ openSocket(p, left) /\ active \in Session
    BY <1>5 DEF Restarted, TerminalInv, TerminalTypeOK, Session
  <2>2. r \in [Session -> {"none", "running", "closed"}]
    BY <2>1 DEF closeRecord, TerminalInv, TerminalTypeOK
  <2>3. \A s \in Session : r[s] # "running" /\ (r[s] # "none" => s <= sessions)
    BY <2>1 DEF closeRecord, TerminalInv, TerminalTypeOK, RecordsTrue, Spawned, Session
  <2>4. old \in [Token -> {"none", "opening", "open", "closing", "closed"}]
    BY CloseTypes DEF ClientsClosed, TerminalInv, TerminalTypeOK
  <2>k. killed' \in SUBSET Session /\ \A s \in alive : s \in killed'
    BY <1>5, <2>1 DEF Restarted, kill, TerminalInv, TerminalTypeOK, RecordsTrue
  <2> HIDE DEF r, old
  <2>5. /\ active' \in 1..MaxSessions /\ running' = TRUE
        /\ alive' \subseteq Session
        /\ record' \in [Session -> {"none", "running", "closed"}]
        /\ sessions' \in 0..MaxSessions
        /\ Spawned' /\ RecordsTrue'
    BY <2>1, <2>2, <2>3, <2>k, SpawnKeeps
  <2>6. left \in [Token -> {"none", "opening", "open", "closing", "closed"}]
    BY <2>4
  <2> HIDE DEF left
  <2>7. active' \in 0..MaxSessions /\ TerminalTypeOK
    BY <2>5 DEF TerminalInv
  <2>8. TerminalTypeOK'
    BY <1>5, <2>1, <2>5, <2>6, <2>7, <2>k, OpenSocketTypes DEF Restarted, TerminalTypeOK
  <2> QED
    BY <2>5, <2>8 DEF TerminalInv
<1>6. CASE RestartRefused(p)
  BY <1>6 DEF RestartRefused, TerminalInv, TerminalTypeOK, Spawned, RecordsTrue, server, sockets
<1> QED
  BY <1>1, <1>2, <1>3, <1>4, <1>5, <1>6 DEF PageStep

LEMMA SocketSteps ==
  ASSUME TerminalInv, NEW t \in Token, SocketStep(t)
  PROVE  TerminalInv'
<1>1. UNCHANGED <<server, sessions>>
  BY DEF SocketStep, Upgrade, TokenExpires, Closed, ConnectionLost, ExitShown
<1>2. Spawned' /\ RecordsTrue'
  BY <1>1 DEF TerminalInv, Spawned, RecordsTrue, server
<1>3. TerminalTypeOK'
  <2> USE TerminalAssumption DEF TerminalInv, TerminalTypeOK, server, sockets, pages, Loss
  <2>1. CASE Upgrade(t)
    <3>1. CASE issuedFor[t] = 0 \/ issuedFor[t] # active
      BY <2>1, <3>1 DEF Upgrade
    <3>2. CASE ~(issuedFor[t] = 0 \/ issuedFor[t] # active)
      <4>1. sock' \in [Token -> {"none", "opening", "open", "closing", "closed"}]
            /\ serves' \in [Token -> 0..MaxSessions]
        BY <2>1, <3>2 DEF Upgrade
      <4>2. connected' = [p \in Page |-> connected[p] \/ current[p] = t]
        BY <2>1, <3>2 DEF Upgrade
      <4>3. connected' \in [Page -> BOOLEAN]
        BY <4>2, Zenon
      <4>4. issuedFor' \in [Token -> 0..MaxSessions]
        BY <2>1, <3>2 DEF Upgrade
      <4> QED
        BY <2>1, <4>1, <4>3, <4>4 DEF Upgrade
    <3> QED
      BY <3>1, <3>2
  <2>2. CASE TokenExpires(t)
    BY <2>2 DEF TokenExpires
  <2>3. CASE Closed(t)
    BY <2>3 DEF Closed, IsCurrent
  <2>4. CASE ConnectionLost(t)
    BY <2>4 DEF ConnectionLost
  <2>5. CASE ExitShown(t)
    BY <2>5 DEF ExitShown
  <2> QED
    BY <2>1, <2>2, <2>3, <2>4, <2>5 DEF SocketStep
<1> QED
  BY <1>2, <1>3 DEF TerminalInv

\* Only the active shell is reported; another one was closed when it was killed.
LEMMA ExitKeeps ==
  ASSUME TerminalInv, NEW s \in Session, Exited(s)
  PROVE  TerminalInv'
<1>1. CASE active = s
  <2>1. /\ record' = [record EXCEPT ![s] = "closed"] /\ running' = FALSE
        /\ alive' = alive \ {s} /\ killed' = killed \ {s}
    BY <1>1 DEF Exited, closeRecord
  <2>2. exitSent' \subseteq Token
    BY <1>1 DEF Exited, Broadcast, Clients, TerminalInv, TerminalTypeOK
  <2>3. TerminalTypeOK'
    BY <2>1, <2>2 DEF Exited, TerminalInv, TerminalTypeOK, pages
  <2>4. Spawned' /\ RecordsTrue'
    BY <1>1, <2>1 DEF Exited, TerminalInv, TerminalTypeOK, Spawned, RecordsTrue
  <2> QED
    BY <2>3, <2>4 DEF TerminalInv
<1>2. CASE active # s
  BY <1>2 DEF Exited, TerminalInv, TerminalTypeOK, Spawned, RecordsTrue, pages
<1> QED
  BY <1>1, <1>2

LEMMA TerminalSteps ==
  ASSUME TerminalInv, MinutePasses \/ Crash \/ UNCHANGED terminalVars
  PROVE  TerminalInv'
<1>1. CASE MinutePasses
  BY <1>1, TerminalAssumption
     DEF MinutePasses, TerminalInv, TerminalTypeOK, Spawned, RecordsTrue, sockets, pages
<1>2. CASE Crash
  <2>1. sock' \in [Token -> {"none", "opening", "open", "closing", "closed"}]
    BY <1>2, CloseTypes DEF Crash, TerminalInv
  <2>2. /\ losses' \in 0..MaxLosses /\ requests' \in 0..MaxRequests
        /\ active' \in 0..MaxSessions
    BY <1>2, TerminalAssumption DEF Crash, Loss, TerminalInv, TerminalTypeOK
  <2>3. /\ record' \in [Session -> {"none", "running", "closed"}]
        /\ issuedFor' \in [Token -> 0..MaxSessions]
        /\ asked' \in [Page -> {"none", "open", "restart"}]
    BY <1>2, TerminalAssumption DEF Crash, TerminalInv, TerminalTypeOK
  <2>4. TerminalTypeOK'
    BY <1>2, <2>1, <2>2, <2>3 DEF Crash, TerminalInv, TerminalTypeOK
  <2>5. Spawned' /\ RecordsTrue'
    BY <1>2, TerminalAssumption
    DEF Crash, TerminalInv, TerminalTypeOK, Spawned, RecordsTrue, Session
  <2> QED
    BY <2>4, <2>5 DEF TerminalInv
<1>3. CASE UNCHANGED terminalVars
  BY <1>3
  DEF TerminalInv, TerminalTypeOK, Spawned, RecordsTrue, terminalVars, server, sockets, pages
<1> QED
  BY <1>1, <1>2, <1>3

LEMMA StepTerminalInv == TerminalInv /\ [TerminalNext]_terminalVars => TerminalInv'
BY PageSteps, SocketSteps, ExitKeeps, TerminalSteps DEF TerminalNext

-----------------------------------------------------------------------------
\* The inductive invariant: the types, the shells spawned so far, and the records.
THEOREM TerminalInvariant == TerminalSpec => []TerminalInv
BY InitTerminalInv, StepTerminalInv, PTL DEF TerminalSpec

\* Every variable of the terminal keeps its type.
THEOREM TerminalTypeCorrect == TerminalSpec => []TerminalTypeOK
<1>1. TerminalInv => TerminalTypeOK
  BY DEF TerminalInv
<1> QED
  BY <1>1, TerminalInvariant, PTL

\* The one session recorded as running is the active one, and has its shell, and every
\* other shell that lives has been told to end, however pages restart it, shells exit late
\* and the server crashes.
THEOREM RecordsTrueCorrect == TerminalSpec => []RecordsTrue
<1>1. TerminalInv => RecordsTrue
  BY DEF TerminalInv
<1> QED
  BY <1>1, TerminalInvariant, PTL

-----------------------------------------------------------------------------
\* What the pages are told

\* A page says that it is connected to a socket of its own; an exit is on its way on one
\* that was open; and sockets are opened with tokens that were issued.
Sockets ==
  /\ \A p \in Page : connected[p] => current[p] # 0
  /\ \A t \in Token : t \in exitSent => sock[t] \in {"open", "closing"}
  /\ \A t \in Token : sock[t] # "none" => t <= tokens

CInv == Sockets /\ ConnectedIsTrue

\* A socket that closes, or fails to open, is one that a page learns of.
LEMMA ClosingKeeps ==
  ASSUME TerminalInv, CInv,
         \A t \in Token : \/ sock'[t] = sock[t]
                          \/ sock[t] \in {"opening", "open"} /\ sock'[t] = "closing",
         UNCHANGED <<exitSent, current, connected, tokens>>,
         \A t \in Token : serves'[t] = serves[t],
         \A t \in Token : sock'[t] = "open" /\ serves[t] = active /\ running =>
           active' = active /\ running' = running
  PROVE  CInv'
<1>1. \A p \in Page : current[p] \in 0..MaxTokens BY DEF TerminalInv, TerminalTypeOK
<1>2. \A p \in Page : connected[p] => current[p] \in Token
  BY <1>1, TerminalAssumption DEF CInv, Sockets, Token
<1>3. Sockets' BY DEF CInv, Sockets
<1>4. ConnectedIsTrue'
  <2> SUFFICES ASSUME NEW p \in Page, connected[p], NEW t, t = current[p]
               PROVE  \/ sock'[t] \in {"opening", "closing"} \/ t \in exitSent
                      \/ sock'[t] = "open" /\ serves'[t] = active' /\ running'
    BY DEF ConnectedIsTrue
  <2>1. t \in Token BY <1>2
  <2>2. \/ sock[t] \in {"opening", "closing"} \/ t \in exitSent
        \/ sock[t] = "open" /\ serves[t] = active /\ running
    BY DEF CInv, ConnectedIsTrue
  <2> QED BY <2>1, <2>2
<1> QED BY <1>3, <1>4 DEF CInv

LEMMA CloseClosing ==
  ASSUME NEW ts, NEW t \in Token
  PROVE  \/ Close(ts)[t] = sock[t] /\ (t \in ts => sock[t] \notin {"opening", "open"})
         \/ sock[t] \in {"opening", "open"} /\ Close(ts)[t] = "closing"
BY DEF Close

\* A page opens a socket: the shell may be another one if nobody is left with the former.
LEMMA OpenKeeps ==
  ASSUME TerminalInv, CInv, NEW p \in Page,
         NEW old \in [Token -> {"none", "opening", "open", "closing", "closed"}],
         \A t \in Token : \/ old[t] = sock[t]
                          \/ sock[t] \in {"opening", "open"} /\ old[t] = "closing",
         openSocket(p, old),
         UNCHANGED <<serves, exitSent, connected>>,
         \A t \in Token : old[t] = "open" /\ serves[t] = active /\ running =>
           active' = active /\ running' = running
  PROVE  CInv'
<1> DEFINE n == tokens + 1
<1>1. /\ tokens \in Nat /\ n \in Token /\ tokens' = n
      /\ current \in [Page -> 0..MaxTokens]
  BY TerminalAssumption DEF TerminalInv, TerminalTypeOK, openSocket, Token
<1>2. sock' = [old EXCEPT ![n] = "opening"] /\ current' = [current EXCEPT ![p] = n]
  BY DEF openSocket
<1>3. sock[n] = "none" /\ n \notin exitSent
  BY <1>1 DEF CInv, Sockets
<1>4. /\ sock'[n] = "opening" /\ current'[p] = n
      /\ \A t \in Token : t # n => sock'[t] = old[t]
      /\ \A q \in Page : q # p => current'[q] = current[q]
  BY <1>1, <1>2
<1>5. \A t \in Token : t <= tokens => t # n /\ t <= n BY <1>1 DEF Token
<1>6. n # 0 /\ n <= n BY <1>1
<1> HIDE DEF n
<1>7. \A q \in Page : connected[q] => current[q] \in Token
  BY <1>1, TerminalAssumption DEF CInv, Sockets, Token
<1>8. Sockets'
  <2>1. \A q \in Page : connected'[q] => current'[q] # 0 BY <1>4, <1>6 DEF CInv, Sockets
  <2>2. \A t \in Token : t \in exitSent' => sock'[t] \in {"open", "closing"}
    BY <1>3, <1>4 DEF CInv, Sockets
  <2>3. \A t \in Token : sock'[t] # "none" => t <= tokens'
    BY <1>1, <1>4, <1>5, <1>6 DEF CInv, Sockets
  <2> QED BY <2>1, <2>2, <2>3 DEF Sockets
<1>9. ConnectedIsTrue'
  <2> SUFFICES ASSUME NEW q \in Page, connected[q], NEW t, t = current'[q]
               PROVE  \/ sock'[t] \in {"opening", "closing"} \/ t \in exitSent
                      \/ sock'[t] = "open" /\ serves[t] = active' /\ running'
    BY DEF ConnectedIsTrue
  <2>1. CASE t = n BY <1>4, <2>1
  <2>2. CASE t # n
    <3>1. t = current[q] /\ t \in Token /\ sock'[t] = old[t] BY <1>4, <1>7, <2>2
    <3>2. \/ sock[t] \in {"opening", "closing"} \/ t \in exitSent
          \/ sock[t] = "open" /\ serves[t] = active /\ running
      BY <3>1 DEF CInv, ConnectedIsTrue
    <3> QED BY <3>1, <3>2
  <2> QED BY <2>1, <2>2
<1> QED BY <1>8, <1>9 DEF CInv

LEMMA PageC == ASSUME TerminalInv, CInv, NEW p \in Page, PageStep(p) PROVE CInv'
<1>1. CASE Reconnect(p)
  <2>1. \A t \in Token : \/ sock'[t] = sock[t]
                         \/ sock[t] \in {"opening", "open"} /\ sock'[t] = "closing"
    BY <1>1, CloseClosing DEF Reconnect
  <2> QED BY <1>1, <2>1, ClosingKeeps DEF Reconnect, server
<1>2. CASE OpenRefused(p) \/ Restart(p) \/ RestartRefused(p)
  BY <1>2, ClosingKeeps DEF OpenRefused, Restart, RestartRefused, server, sockets
<1>3. CASE Opened(p)
  <2>1. sock \in [Token -> {"none", "opening", "open", "closing", "closed"}]
    BY DEF TerminalInv, TerminalTypeOK
  <2>2. running => active' = active /\ running' = running
    <3>1. running => active # 0
      BY TerminalAssumption DEF TerminalInv, RecordsTrue, TerminalTypeOK, Session
    <3> QED BY <1>3, <3>1 DEF Opened
  <2>3. openSocket(p, sock) /\ UNCHANGED <<serves, exitSent, connected>>
    BY <1>3 DEF Opened
  <2> QED BY <2>1, <2>2, <2>3, OpenKeeps
<1>4. CASE Restarted(p)
  <2> DEFINE old == IF running THEN ClientsClosed(active) ELSE sock
             left == [old EXCEPT ![current[p]] = IF @ \in {"opening", "open"} THEN "closing" ELSE @]
  <2>1. openSocket(p, left) /\ UNCHANGED <<serves, exitSent, connected>>
    BY <1>4 DEF Restarted
  <2>2. old \in [Token -> {"none", "opening", "open", "closing", "closed"}]
    BY CloseTypes DEF ClientsClosed, TerminalInv, TerminalTypeOK
  <2>3. \A t \in Token : \/ old[t] = sock[t]
                         \/ sock[t] \in {"opening", "open"} /\ old[t] = "closing"
    BY CloseClosing DEF ClientsClosed
  <2>4. \A t \in Token : old[t] = "open" /\ running => serves[t] # active
    BY CloseClosing DEF ClientsClosed, Clients
  <2> HIDE DEF old
  <2>5. left \in [Token -> {"none", "opening", "open", "closing", "closed"}]
    BY <2>2
  <2>6. \A t \in Token : left[t] = old[t] \/ (old[t] \in {"opening", "open"} /\ left[t] = "closing")
    BY <2>2
  <2> HIDE DEF left
  <2>7. \A t \in Token : \/ left[t] = sock[t]
                         \/ sock[t] \in {"opening", "open"} /\ left[t] = "closing"
    BY <2>3, <2>6
  <2>8. \A t \in Token : left[t] = "open" /\ serves[t] = active /\ running =>
          active' = active /\ running' = running
    BY <2>4, <2>6
  <2> QED BY <2>1, <2>5, <2>7, <2>8, OpenKeeps
<1> QED BY <1>1, <1>2, <1>3, <1>4 DEF PageStep

LEMMA SocketC == ASSUME TerminalInv, CInv, NEW t \in Token, SocketStep(t) PROVE CInv'
<1>0. /\ sock \in [Token -> {"none", "opening", "open", "closing", "closed"}]
      /\ serves \in [Token -> 0..MaxSessions]
      /\ current \in [Page -> 0..MaxTokens]
  BY DEF TerminalInv, TerminalTypeOK
<1>t. \A p \in Page : connected[p] => current[p] \in Token
  BY <1>0, TerminalAssumption DEF CInv, Sockets, Token
<1>z. t # 0 BY TerminalAssumption DEF Token
<1>1. CASE Upgrade(t)
  <2>1. CASE issuedFor[t] = 0 \/ issuedFor[t] # active
    <3>1. \A u \in Token : \/ sock'[u] = sock[u]
                           \/ sock[u] \in {"opening", "open"} /\ sock'[u] = "closing"
      BY <1>0, <1>1, <2>1 DEF Upgrade
    <3> QED BY <1>1, <2>1, <3>1, ClosingKeeps DEF Upgrade, server
  <2>2. CASE ~(issuedFor[t] = 0 \/ issuedFor[t] # active)
    <3>1. /\ sock[t] = "opening" /\ UNCHANGED <<exitSent, current, tokens, active, running>>
          /\ sock'[t] = IF running THEN "open" ELSE "closing"
          /\ serves'[t] = IF running THEN active ELSE 0
          /\ \A u \in Token : u # t => sock'[u] = sock[u] /\ serves'[u] = serves[u]
          /\ \A p \in Page : connected'[p] => connected[p] \/ current[p] = t
      BY <1>0, <1>1, <2>2 DEF Upgrade, server
    <3>2. Sockets'
      <4>1. \A p \in Page : connected'[p] => current'[p] # 0
        BY <1>z, <3>1 DEF CInv, Sockets
      <4>2. \A u \in Token : u \in exitSent' => sock'[u] \in {"open", "closing"}
        BY <3>1 DEF CInv, Sockets
      <4>3. \A u \in Token : sock'[u] # "none" => u <= tokens'
        BY <3>1 DEF CInv, Sockets
      <4> QED BY <4>1, <4>2, <4>3 DEF Sockets
    <3>3. ConnectedIsTrue'
      <4> SUFFICES ASSUME NEW p \in Page, connected'[p], NEW u, u = current[p]
                   PROVE  \/ sock'[u] \in {"opening", "closing"} \/ u \in exitSent
                          \/ sock'[u] = "open" /\ serves'[u] = active /\ running
        BY <3>1 DEF ConnectedIsTrue
      <4>1. CASE u = t BY <3>1, <4>1
      <4>2. CASE u # t
        <5>1. connected[p] /\ u \in Token BY <1>t, <3>1, <4>2
        <5>2. \/ sock[u] \in {"opening", "closing"} \/ u \in exitSent
              \/ sock[u] = "open" /\ serves[u] = active /\ running
          BY <5>1 DEF CInv, ConnectedIsTrue
        <5> QED BY <3>1, <4>2, <5>1, <5>2
      <4> QED BY <4>1, <4>2
    <3> QED BY <3>2, <3>3 DEF CInv
  <2> QED BY <2>1, <2>2
<1>2. CASE TokenExpires(t)
  BY <1>2, ClosingKeeps DEF TokenExpires, server, sockets, pages
<1>3. CASE ConnectionLost(t)
  <2>1. \A u \in Token : \/ sock'[u] = sock[u]
                         \/ sock[u] \in {"opening", "open"} /\ sock'[u] = "closing"
    BY <1>0, <1>3 DEF ConnectionLost
  <2> QED BY <1>3, <2>1, ClosingKeeps DEF ConnectionLost, server, pages
<1>4. CASE Closed(t) \/ ExitShown(t)
  <2>1. /\ UNCHANGED <<current, tokens, active, running>>
        /\ exitSent' = exitSent \ {t}
        /\ \A p \in Page : connected'[p] => connected[p] /\ current[p] # t
        /\ \A u \in Token : u # t => sock'[u] = sock[u] /\ serves'[u] = serves[u]
        /\ sock'[t] # "none" => sock[t] # "none"
    BY <1>0, <1>4 DEF Closed, ExitShown, IsCurrent, server
  <2>2. Sockets'
    <3>1. \A p \in Page : connected'[p] => current'[p] # 0 BY <2>1 DEF CInv, Sockets
    <3>2. \A u \in Token : u \in exitSent' => sock'[u] \in {"open", "closing"}
      BY <2>1 DEF CInv, Sockets
    <3>3. \A u \in Token : sock'[u] # "none" => u <= tokens'
      <4> SUFFICES ASSUME NEW u \in Token, sock'[u] # "none" PROVE u <= tokens
        BY <2>1
      <4>1. sock[u] # "none" BY <2>1
      <4> QED BY <4>1 DEF CInv, Sockets
    <3> QED BY <3>1, <3>2, <3>3 DEF Sockets
  <2>3. ConnectedIsTrue'
    <3> SUFFICES ASSUME NEW p \in Page, connected'[p], NEW u, u = current[p]
                 PROVE  \/ sock'[u] \in {"opening", "closing"} \/ u \in exitSent'
                        \/ sock'[u] = "open" /\ serves'[u] = active /\ running
      BY <2>1 DEF ConnectedIsTrue
    <3>1. connected[p] /\ u \in Token /\ u # t BY <1>t, <2>1
    <3>2. \/ sock[u] \in {"opening", "closing"} \/ u \in exitSent
          \/ sock[u] = "open" /\ serves[u] = active /\ running
      BY <3>1 DEF CInv, ConnectedIsTrue
    <3> QED BY <2>1, <3>1, <3>2
  <2> QED BY <2>2, <2>3 DEF CInv
<1> QED BY <1>1, <1>2, <1>3, <1>4 DEF SocketStep

\* The clients of the shell that ends are told.
LEMMA ExitC == ASSUME TerminalInv, CInv, NEW s \in Session, Exited(s) PROVE CInv'
<1>0. UNCHANGED <<sock, serves, connected, current, tokens, active>>
  BY DEF Exited, pages
<1>1. CASE active = s
  <2>1. exitSent' = exitSent \cup Broadcast(s) BY <1>1 DEF Exited
  <2>2. \A t \in Token : t \in exitSent' => sock[t] \in {"open", "closing"}
    BY <2>1 DEF Broadcast, CInv, Sockets
  <2>3. Sockets' BY <1>0, <2>2 DEF CInv, Sockets
  <2>4. \A p \in Page : connected[p] => current[p] \in Token
    BY TerminalAssumption DEF CInv, Sockets, Token, TerminalInv, TerminalTypeOK
  <2>5. \A t \in Token : sock[t] = "open" /\ serves[t] = active => t \in exitSent'
    BY <1>1, <2>1 DEF Broadcast, Clients
  <2>6. ConnectedIsTrue' BY <1>0, <2>1, <2>4, <2>5 DEF CInv, ConnectedIsTrue
  <2> QED BY <2>3, <2>6 DEF CInv
<1>2. CASE active # s
  BY <1>0, <1>2, ClosingKeeps DEF Exited
<1> QED BY <1>1, <1>2

LEMMA OtherC ==
  ASSUME TerminalInv, CInv, MinutePasses \/ Crash \/ UNCHANGED terminalVars PROVE CInv'
<1>1. CASE MinutePasses
  BY <1>1, ClosingKeeps DEF MinutePasses, sockets, pages
<1>2. CASE UNCHANGED terminalVars
  BY <1>2, ClosingKeeps DEF terminalVars, server, sockets, pages
<1>3. CASE Crash
  <2>1. /\ UNCHANGED <<serves, current, connected, tokens>> /\ exitSent' = {}
        /\ sock' = Close(Token)
    BY <1>3 DEF Crash
  <2>2. \A t \in Token : \/ sock'[t] = sock[t] /\ sock[t] \notin {"opening", "open"}
                         \/ sock[t] \in {"opening", "open"} /\ sock'[t] = "closing"
    BY <2>1, CloseClosing
  <2>3. Sockets' BY <2>1, <2>2 DEF CInv, Sockets
  <2>4. \A p \in Page : connected[p] => current[p] \in Token
    BY TerminalAssumption DEF CInv, Sockets, Token, TerminalInv, TerminalTypeOK
  <2>5. \A p \in Page : connected[p] => sock[current[p]] \in {"opening", "open", "closing"}
    BY <2>4 DEF CInv, Sockets, ConnectedIsTrue
  <2>6. ConnectedIsTrue' BY <2>1, <2>2, <2>4, <2>5 DEF ConnectedIsTrue
  <2> QED BY <2>3, <2>6 DEF CInv
<1> QED BY <1>1, <1>2, <1>3

LEMMA InitC == TerminalInit => CInv
<1> SUFFICES ASSUME TerminalInit PROVE CInv
  OBVIOUS
<1>1. /\ \A p \in Page : connected[p] = FALSE
      /\ \A t \in Token : sock[t] = "none" /\ exitSent = {}
  BY DEF TerminalInit
<1> QED BY <1>1 DEF CInv, Sockets, ConnectedIsTrue

LEMMA StepC == TerminalInv /\ CInv /\ [TerminalNext]_terminalVars => CInv'
BY PageC, SocketC, ExitC, OtherC DEF TerminalNext

\* A page that says "Connected" has the shell that runs, or is being told otherwise:
\* across restarts by other pages, exits, lost connections and crashes.
THEOREM ConnectedIsTrueCorrect == TerminalSpec => []ConnectedIsTrue
<1>1. CInv => ConnectedIsTrue BY DEF CInv
<1> QED BY <1>1, InitC, StepC, TerminalInvariant, PTL DEF TerminalSpec
=============================================================================
