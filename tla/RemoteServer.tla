---------------------------- MODULE RemoteServer ----------------------------
(***************************************************************************)
(* The elevated server: a process that does file operations, settings,     *)
(* child processes and archives with admin rights for the program that     *)
(* started it.  RemoteServer lives in its main thread with the watchdog,   *)
(* LocalServer in a thread that accepts connections, and each connection   *)
(* (RemoteServerConnection) has a thread of its own, until its socket is   *)
(* closed by either side.  There may be several such processes, when a     *)
(* start was given up too early; they share one socket name.               *)
(***************************************************************************)
EXTENDS Naturals

CONSTANTS
  MaxServers, \* bound: processes that are started
  Sockets,    \* the sockets of the client, one for each RemoteObject
  None,
  MaxIdle     \* the interval of the watchdog, in ticks

ASSUME ServerAssumption ==
  MaxServers \in Nat /\ MaxIdle \in Nat \ {0} /\ None \notin 1..MaxServers

VARIABLES
  process,   \* the process, from its start to its end
  acceptor,  \* the thread of LocalServer
  listening, \* the servers whose socket listens
  name,      \* the server that the file of the socket leads to
  idle,      \* the ticks since the watchdog was started
  requested, \* those with shutdownRequested() posted to LocalServer
  peer,      \* the server each socket is connected to
  thread,    \* the other end: not accepted yet, or how far its thread trusts it
  request    \* the command that is not answered yet

socketVars == <<peer, thread, request>>
processVars == <<process, acceptor, listening, name, idle, requested>>
serverVars == <<processVars, socketVars>>

Servers == 1..MaxServers

ServerTypeOK ==
  /\ process \in [Servers -> {"none", "starting", "running", "ending", "gone"}]
  /\ acceptor \in [Servers -> {"none", "serving", "waiting", "told", "closing"}]
  /\ listening \in SUBSET Servers /\ requested \in SUBSET Servers
  /\ name \in Servers \cup {None}
  /\ idle \in [Servers -> 0..MaxIdle]
  /\ peer \in [Sockets -> Servers \cup {None}]
  /\ thread \in [Sockets -> {"none", "pending", "unknown", "authorized"}]
  /\ request \in [Sockets -> {"none", "Authorize", "Create", "Call", "Shutdown"}]
  /\ \A c \in Sockets : (peer[c] = None) = (thread[c] = "none")
  /\ \A c \in Sockets : peer[c] # None => process[peer[c]] \in {"running", "ending"}

ServerInit ==
  /\ process = [s \in Servers |-> "none"] /\ acceptor = [s \in Servers |-> "none"]
  /\ listening = {} /\ requested = {} /\ name = None
  /\ idle = [s \in Servers |-> 0]
  /\ peer = [c \in Sockets |-> None] /\ thread = [c \in Sockets |-> "none"]
  /\ request = [c \in Sockets |-> "none"]

-----------------------------------------------------------------------------
(* Sockets, as both sides use them                                         *)

\* A file that a dead process left leads nowhere. The kernel takes connections
\* for a socket that listens, whether LocalServer accepts them or not.
CanConnect == name \in listening

Connect(c) ==
  /\ CanConnect
  /\ peer' = [peer EXCEPT ![c] = name]
  /\ thread' = [thread EXCEPT ![c] = "pending"]
  /\ request' = [request EXCEPT ![c] = "Authorize"]

Send(c, command) ==
  /\ request' = [request EXCEPT ![c] = command]
  /\ UNCHANGED <<peer, thread>>

\* Mutation: the thread of a connection goes on when its socket is closed.
CutUnnoticed(cut) ==
  /\ peer' = [c \in Sockets |-> IF c \in cut THEN None ELSE peer[c]]
  /\ request' = [c \in Sockets |-> IF c \in cut THEN "none" ELSE request[c]]
  /\ UNCHANGED thread

\* Either side closes these sockets: the thread of a connection ends with it,
\* and whoever waits for an answer is told so.
Cut(cut) ==
  /\ peer' = [c \in Sockets |-> IF c \in cut THEN None ELSE peer[c]]
  /\ thread' = [c \in Sockets |-> IF c \in cut THEN "none" ELSE thread[c]]
  /\ request' = [c \in Sockets |-> IF c \in cut THEN "none" ELSE request[c]]

\* Those whose thread of the server s runs.
Threads(s) == {c \in Sockets : peer[c] = s /\ thread[c] \in {"unknown", "authorized"}}

-----------------------------------------------------------------------------
(* One server process                                                      *)

\* The next process is started.
Launch(s) ==
  /\ \A t \in Servers : process[t] = "none" <=> t >= s
  /\ process' = [process EXCEPT ![s] = "starting"]
  /\ UNCHANGED <<acceptor, listening, name, idle, requested>>

\* RemoteServer::start() with the constructor of LocalServer. Whether listen()
\* worked is not looked at: it takes the name over from another server (it renames
\* its socket) or, where Qt does not do that, fails.
Listen(s) ==
  /\ process[s] = "starting"
  /\ process' = [process EXCEPT ![s] = "running"]
  /\ acceptor' = [acceptor EXCEPT ![s] = "serving"]
  /\ \/ name' = s /\ listening' = listening \cup {s}
     \/ name # None /\ UNCHANGED <<name, listening>>
  /\ idle' = [idle EXCEPT ![s] = 0]
  /\ UNCHANGED <<requested, socketVars>>

\* incomingConnection(): a thread for the connection, and the watchdog anew.
Accept(c) ==
  /\ thread[c] = "pending" /\ acceptor[peer[c]] = "serving"
  /\ thread' = [thread EXCEPT ![c] = "unknown"]
  /\ idle' = [idle EXCEPT ![peer[c]] = 0]
  /\ UNCHANGED <<process, acceptor, listening, name, requested, peer, request>>

\* Mutation: the thread that is asked to shut down waits until LocalServer has done so.
AnswerWaiting(c) ==
  \/ /\ thread[c] = "unknown" /\ request[c] = "Authorize"
     /\ thread' = [thread EXCEPT ![c] = "authorized"]
     /\ request' = [request EXCEPT ![c] = "none"]
     /\ UNCHANGED <<processVars, peer>>
  \/ /\ thread[c] = "authorized" /\ request[c] \in {"Create", "Call"}
     /\ request' = [request EXCEPT ![c] = "none"]
     /\ UNCHANGED <<processVars, peer, thread>>
  \/ /\ thread[c] = "authorized" /\ request[c] = "Shutdown" /\ peer[c] \notin requested
     /\ requested' = requested \cup {peer[c]}
     /\ UNCHANGED <<process, acceptor, listening, name, idle, socketVars>>

\* RemoteServerConnection::run(): one command. Shutdown closes the socket and ends
\* the thread before LocalServer is told.
Answer(c) ==
  \/ /\ thread[c] = "unknown" /\ request[c] = "Authorize"
     /\ thread' = [thread EXCEPT ![c] = "authorized"]
     /\ request' = [request EXCEPT ![c] = "none"]
     /\ UNCHANGED <<processVars, peer>>
  \/ /\ thread[c] = "authorized" /\ request[c] \in {"Create", "Call"}
     /\ request' = [request EXCEPT ![c] = "none"]
     /\ UNCHANGED <<processVars, peer, thread>>
  \/ /\ thread[c] = "authorized" /\ request[c] = "Shutdown"
     /\ Cut({c}) /\ requested' = requested \cup {peer[c]}
     /\ UNCHANGED <<process, acceptor, listening, name, idle>>

\* LocalServer::shutdown(), called by a connection. It has to wait for the other
\* threads, and nothing is accepted meanwhile.
Shutdown(s) ==
  /\ s \in requested /\ requested' = requested \ {s}
  /\ acceptor[s] = "serving" /\ acceptor' = [acceptor EXCEPT ![s] = "waiting"]
  /\ UNCHANGED <<process, listening, name, idle, socketVars>>

\* Its end: RemoteServer is to be deleted. From now on connections are accepted
\* and dropped, without being closed.
ShutdownReturns(s) ==
  /\ acceptor[s] = "waiting" /\ Threads(s) = {}
  /\ acceptor' = [acceptor EXCEPT ![s] = "told"]
  /\ process' = [process EXCEPT ![s] = "ending"]
  /\ UNCHANGED <<listening, name, idle, requested, socketVars>>

\* Nobody connected for too long: RemoteServer is to be deleted.
WatchdogFires(s) ==
  /\ process[s] = "running" /\ idle[s] = MaxIdle
  /\ process' = [process EXCEPT ![s] = "ending"]
  /\ UNCHANGED <<acceptor, listening, name, idle, requested, socketVars>>

\* ~RemoteServer() ends the thread of LocalServer, which is deleted with it and
\* calls shutdown() once more.
Quit(s) ==
  /\ process[s] = "ending" /\ acceptor[s] \in {"serving", "told"}
  /\ acceptor' = [acceptor EXCEPT ![s] = "closing"]
  /\ UNCHANGED <<process, listening, name, idle, requested, socketVars>>

\* ~QLocalServer() takes the file of the socket away, its own or not, and the
\* process ends with everything that was not accepted.
End(s) ==
  /\ process[s] = "ending" /\ acceptor[s] = "closing" /\ Threads(s) = {}
  /\ process' = [process EXCEPT ![s] = "gone"]
  /\ name' = IF s \in listening THEN None ELSE name
  /\ listening' = listening \ {s}
  /\ Cut({c \in Sockets : peer[c] = s})
  /\ acceptor' = [acceptor EXCEPT ![s] = "none"]
  /\ UNCHANGED <<idle, requested>>

\* The process is killed: its file stays.
Die(s) ==
  /\ process[s] \in {"starting", "running", "ending"}
  /\ process' = [process EXCEPT ![s] = "gone"]
  /\ listening' = listening \ {s} /\ requested' = requested \ {s}
  /\ Cut({c \in Sockets : peer[c] = s})
  /\ acceptor' = [acceptor EXCEPT ![s] = "none"]
  /\ UNCHANGED <<name, idle>>

ProcessStep(s) ==
  Shutdown(s) \/ ShutdownReturns(s) \/ WatchdogFires(s) \/ Quit(s) \/ End(s)
SocketStep(c) == Accept(c) \/ Answer(c)

\* When they can be taken: the guards of these steps.
ProcessDue(s) ==
  \/ s \in requested /\ acceptor[s] = "serving"
  \/ acceptor[s] = "waiting" /\ Threads(s) = {}
  \/ process[s] = "running" /\ idle[s] = MaxIdle
  \/ process[s] = "ending" /\ acceptor[s] \in {"serving", "told"}
  \/ process[s] = "ending" /\ acceptor[s] = "closing" /\ Threads(s) = {}
SocketDue(c) ==
  \/ thread[c] = "pending" /\ acceptor[peer[c]] = "serving"
  \/ thread[c] = "unknown" /\ request[c] = "Authorize"
  \/ thread[c] = "authorized" /\ request[c] \in {"Create", "Call", "Shutdown"}
=============================================================================
