-------------------------- MODULE TerminalSessions ---------------------------
(***************************************************************************)
(* The shared terminal: TerminalService with its one shell, the records of  *)
(* its sessions and the tokens of its web sockets, and the pages that show  *)
(* it (TerminalComponent).                                                  *)
(*                                                                         *)
(* A token opens one web socket, so both have one number.  What a shell     *)
(* prints is left out; a page learns of an exit or a close by a message     *)
(* that takes its time.                                                     *)
(***************************************************************************)
EXTENDS Naturals

CONSTANTS
  Page,         \* browser tabs
  MaxSessions,  \* bound: shells spawned
  MaxTokens,    \* bound: tokens issued
  MaxRequests,  \* tokens that open() issues in a minute
  MaxLosses     \* bound: lost connections and crashes

Session == 1..MaxSessions
Token == 1..MaxTokens

ASSUME TerminalAssumption ==
  MaxSessions \in Nat /\ MaxTokens \in Nat /\ MaxRequests \in Nat /\ MaxLosses \in Nat

VARIABLES
  \* TerminalService
  active,     \* active.id, 0 if null
  running,    \* active.status = "running"
  alive,      \* sessions whose shell lives
  killed,     \* those of them whose shell has been told to end
  issuedFor,  \* the session of an unconsumed token, 0 if consumed or unknown
  requests,   \* tokenRequests of the last minute
  \* the database
  record,     \* terminal_sessions.status
  \* web sockets
  sock,       \* as the page sees them; "closing" when it has yet to learn
  serves,     \* the session whose client a socket is, 0 if none
  exitSent,   \* sockets with an exit message on its way
  \* TerminalComponent
  session,    \* the page's session, 0 if none
  current,    \* the page's socket, 0 if none
  connected,
  asked,      \* the request a page waits for
  \* bounds
  sessions, tokens, losses

server == <<active, running, alive, killed, requests, record>>
sockets == <<sock, serves, exitSent>>
pages == <<session, current, connected, asked>>
terminalVars == <<server, issuedFor, sockets, pages, sessions, tokens, losses>>

TerminalTypeOK ==
  /\ active \in 0..MaxSessions /\ running \in BOOLEAN /\ alive \subseteq Session /\ killed \subseteq Session
  /\ issuedFor \in [Token -> 0..MaxSessions] /\ requests \in 0..MaxRequests
  /\ record \in [Session -> {"none", "running", "closed"}]
  /\ sock \in [Token -> {"none", "opening", "open", "closing", "closed"}]
  /\ serves \in [Token -> 0..MaxSessions] /\ exitSent \subseteq Token
  /\ session \in [Page -> 0..MaxSessions] /\ current \in [Page -> 0..MaxTokens]
  /\ connected \in [Page -> BOOLEAN] /\ asked \in [Page -> {"none", "open", "restart"}]
  /\ sessions \in 0..MaxSessions /\ tokens \in 0..MaxTokens /\ losses \in 0..MaxLosses

TerminalInit ==
  /\ active = 0 /\ running = FALSE /\ alive = {} /\ killed = {}
  /\ issuedFor = [t \in Token |-> 0] /\ requests = 0
  /\ record = [s \in Session |-> "none"]
  /\ sock = [t \in Token |-> "none"] /\ serves = [t \in Token |-> 0] /\ exitSent = {}
  /\ session = [p \in Page |-> 0] /\ current = [p \in Page |-> 0]
  /\ connected = [p \in Page |-> FALSE] /\ asked = [p \in Page |-> "none"]
  /\ sessions = 0 /\ tokens = 0 /\ losses = 0

Loss == losses < MaxLosses /\ losses' = losses + 1

-----------------------------------------------------------------------------
\* Operators named ...Mutant are wrong on purpose: each stands for a plausible
\* slip in the operator after it, and shows which property would catch it.

\* close() of the sockets in a set; the page has yet to notice.
Close(ts) == [t \in Token |-> IF t \in ts /\ sock[t] \in {"opening", "open"} THEN "closing"
                              ELSE sock[t]]
Clients(s) == {t \in Token : serves[t] = s}

\* spawn() with the records r.
Spawn(r) ==
  /\ sessions < MaxSessions /\ sessions' = sessions + 1
  /\ active' = sessions + 1 /\ running' = TRUE
  /\ alive' = alive \cup {sessions + 1}
  /\ record' = [r EXCEPT ![sessions + 1] = "running"]

\* closeRecord
LeaveOpenMutant(s) == record
closeRecord(s) == [record EXCEPT ![s] = "closed"]

\* issueConnection and its answer; openSocket of the page, with the page's former
\* socket as oldSock leaves it.
openSocket(p, oldSock) ==
  /\ tokens < MaxTokens /\ tokens' = tokens + 1
  /\ issuedFor' = [issuedFor EXCEPT ![tokens + 1] = active']
  /\ session' = [session EXCEPT ![p] = active']
  /\ sock' = [oldSock EXCEPT ![tokens + 1] = "opening"]
  /\ current' = [current EXCEPT ![p] = tokens + 1]
  /\ asked' = [asked EXCEPT ![p] = "none"]

\* A page is shown, or its Reconnect button pressed: POST terminal.
Reconnect(p) ==
  /\ asked[p] = "none" /\ ~connected[p]
  /\ asked' = [asked EXCEPT ![p] = "open"]
  /\ sock' = Close({current[p]})
  /\ UNCHANGED <<server, issuedFor, serves, exitSent, session, current, connected, sessions,
                 tokens, losses>>

\* open()
Opened(p) ==
  /\ asked[p] = "open"
  /\ requests < MaxRequests /\ requests' = requests + 1
  /\ IF active = 0 \/ ~running THEN Spawn(record)
     ELSE UNCHANGED <<active, running, alive, record, sessions>>
  /\ openSocket(p, sock)
  /\ UNCHANGED <<killed, serves, exitSent, connected, losses>>

\* The rate limit.
OpenRefused(p) ==
  /\ asked[p] = "open" /\ requests = MaxRequests
  /\ asked' = [asked EXCEPT ![p] = "none"]
  /\ UNCHANGED <<server, issuedFor, sockets, session, current, connected, sessions, tokens,
                 losses>>

MinutePasses ==
  /\ requests > 0 /\ requests' = 0
  /\ UNCHANGED <<active, running, alive, killed, record, issuedFor, sockets, pages, sessions,
                 tokens, losses>>

Restart(p) ==
  /\ asked[p] = "none" /\ session[p] # 0
  /\ asked' = [asked EXCEPT ![p] = "restart"]
  /\ UNCHANGED <<server, issuedFor, sockets, session, current, connected, sessions, tokens,
                 losses>>

\* restart(id): the old shell is killed, its clients are closed, a new one spawned.
\* The page closes its former socket when the answer is there.
ClientsClosed(s) == Close(Clients(s))
kill(s) == killed \cup {s}
Restarted(p) ==
  /\ asked[p] = "restart" /\ active # 0 /\ active = session[p]
  /\ LET old == IF running THEN ClientsClosed(active) ELSE sock
     IN  /\ killed' = IF running THEN kill(active) ELSE killed
         /\ Spawn(IF running THEN closeRecord(active) ELSE record)
         /\ openSocket(p, [old EXCEPT ![current[p]] = IF @ \in {"opening", "open"} THEN "closing"
                                                      ELSE @])
  /\ UNCHANGED <<requests, serves, exitSent, connected, losses>>

\* Another page was faster.
RestartRefused(p) ==
  /\ asked[p] = "restart" /\ active # session[p]
  /\ asked' = [asked EXCEPT ![p] = "none"]
  /\ UNCHANGED <<server, issuedFor, sockets, session, current, connected, sessions, tokens,
                 losses>>

\* The upgrade of a socket: consumeToken, then connect.  A shell that has exited gets
\* no client, but the socket has been opened.
Upgrade(t) ==
  /\ sock[t] = "opening"
  /\ issuedFor' = [issuedFor EXCEPT ![t] = 0]
  /\ IF issuedFor[t] = 0 \/ issuedFor[t] # active
     THEN sock' = [sock EXCEPT ![t] = "closing"] /\ UNCHANGED <<serves, connected>>
     ELSE /\ sock' = [sock EXCEPT ![t] = IF running THEN "open" ELSE "closing"]
          /\ serves' = [serves EXCEPT ![t] = IF running THEN active ELSE 0]
          /\ connected' = [p \in Page |-> connected[p] \/ current[p] = t]
  /\ UNCHANGED <<server, exitSent, session, current, asked, sessions, tokens, losses>>

\* A token is too old: the upgrade will refuse it.
TokenExpires(t) ==
  /\ issuedFor[t] # 0 /\ Loss
  /\ issuedFor' = [issuedFor EXCEPT ![t] = 0]
  /\ UNCHANGED <<server, sockets, pages, sessions, tokens>>

\* The page learns that a socket is closed.  Only the current one counts.
IsCurrent(p, t) == current[p] = t
Closed(t) ==
  /\ sock[t] = "closing"
  /\ sock' = [sock EXCEPT ![t] = "closed"]
  /\ serves' = [serves EXCEPT ![t] = 0]
  /\ connected' = [p \in Page |-> connected[p] /\ ~IsCurrent(p, t)]
  /\ exitSent' = exitSent \ {t}
  /\ UNCHANGED <<server, issuedFor, session, current, asked, sessions, tokens, losses>>

ConnectionLost(t) ==
  /\ sock[t] = "open" /\ Loss
  /\ sock' = [sock EXCEPT ![t] = "closing"]
  /\ UNCHANGED <<server, issuedFor, serves, exitSent, pages, sessions, tokens>>

\* A shell ends, by `exit' or because it was killed.  Only the active one is reported.
NobodyToldMutant(s) == {}
Broadcast(s) == {t \in Clients(s) : sock[t] = "open"}
Exited(s) ==
  /\ s \in alive /\ alive' = alive \ {s} /\ killed' = killed \ {s}
  /\ IF active = s
     THEN /\ running' = FALSE /\ record' = closeRecord(s)
          /\ exitSent' = exitSent \cup Broadcast(s)
     ELSE UNCHANGED <<running, record, exitSent>>
  /\ UNCHANGED <<active, requests, issuedFor, sock, serves, pages, sessions, tokens, losses>>

\* The message {type: "exit"} arrives.  (Only on the current socket: the browser drops what
\* comes on one the page has closed.)
ExitShown(t) ==
  /\ t \in exitSent /\ exitSent' = exitSent \ {t}
  /\ connected' = [p \in Page |-> connected[p] /\ current[p] # t]
  /\ UNCHANGED <<server, issuedFor, sock, serves, session, current, asked, sessions, tokens,
                 losses>>

\* The server dies with its shells and starts again: onModuleInit.
Crash ==
  /\ Loss
  /\ active' = 0 /\ running' = FALSE /\ alive' = {} /\ killed' = {} /\ requests' = 0
  /\ record' = [s \in Session |-> IF record[s] = "running" THEN "closed" ELSE record[s]]
  /\ issuedFor' = [t \in Token |-> 0]
  /\ sock' = Close(Token) /\ exitSent' = {}
  /\ asked' = [p \in Page |-> "none"]
  /\ UNCHANGED <<serves, session, current, connected, sessions, tokens>>

-----------------------------------------------------------------------------

PageStep(p) == \/ Reconnect(p) \/ Opened(p) \/ OpenRefused(p)
               \/ Restart(p) \/ Restarted(p) \/ RestartRefused(p)
SocketStep(t) == Upgrade(t) \/ TokenExpires(t) \/ Closed(t) \/ ConnectionLost(t) \/ ExitShown(t)

TerminalNext ==
  \/ \E p \in Page : PageStep(p)
  \/ \E t \in Token : SocketStep(t)
  \/ \E s \in Session : Exited(s)
  \/ MinutePasses \/ Crash

TerminalSpec == TerminalInit /\ [][TerminalNext]_terminalVars

-----------------------------------------------------------------------------

\* The records tell the truth, across restarts by several pages, exits of shells that
\* were killed before and crashes: the one session that is `running' has a shell, and
\* every other shell that still lives has been told to end.
RecordsTrue ==
  /\ \A s \in Session : record[s] = "running" <=> s = active /\ running
  /\ running => active \in alive
  /\ \A s \in alive \ killed : s = active /\ running

\* A page that says "Connected" has the shell that runs, or is being told otherwise.
\* (A page whose next socket is opening still says so of the one before.)
ConnectedIsTrue ==
  \A p \in Page : connected[p] =>
    LET t == current[p]
    IN  \/ sock[t] \in {"opening", "closing"} \/ t \in exitSent
        \/ sock[t] = "open" /\ serves[t] = active /\ running
=============================================================================
