------------------------- MODULE RemoteClientProofs -------------------------
(***************************************************************************)
(* Proofs about RemoteClient and the servers it starts, for any number of  *)
(* servers and sockets, any interval of the watchdog and any patience.     *)
(*                                                                         *)
(* The argument: until a start was given up or a server was killed, the    *)
(* client never starts a server while there is one.  So the one there is   *)
(* owns the name of the socket, each connection of KeepAlive reaches it,   *)
(* and its watchdog is at zero after every tick.  Only a client that       *)
(* leaves asks it to stop.                                                 *)
(***************************************************************************)
EXTENDS RemoteClient, TLAPS

\* A socket listens, and its acceptor runs, while the process has its event loop.
ListeningRuns == \A s \in listening : process[s] \in {"running", "ending"}
AcceptorRuns ==
  \A s \in Servers : acceptor[s] # "none" => process[s] \in {"running", "ending"}

\* A program that leaves has no rights any more, and nobody else says Shutdown.
LeavesWithoutRights == client \in Leaving \cup {"gone"} => ~active
LeaversStop == \A c \in Sockets : request[c] = "Shutdown" => client = "stopping"

\* The one server: it runs, has the name, serves, and was heard of in this tick.
Running(s) ==
  /\ process[s] = "running" /\ name = s /\ s \in listening
  /\ acceptor[s] = "serving" /\ idle[s] = 0

\* What servers there are, as long as nothing went wrong with one.
OneServer ==
  /\ requested = {}
  /\ \A s \in Servers : process[s] \in {"none", "starting"} \/ Running(s)
  /\ name # None => Running(name)
  /\ \A s, t \in Servers : process[s] # "none" /\ process[t] # "none" => s = t

\* And what the client knows of them.
ServerKnown ==
  /\ serverStarted => name # None
  /\ client = "idle" /\ active => serverStarted
  /\ client = "idle" /\ ~serverStarted => \A s \in Servers : process[s] = "none"

Undisturbed == ~late /\ ~killed /\ client \in {"idle", "starting", "authorizing"}

\* What the sockets are: their part of ServerTypeOK.
SocketsOK ==
  /\ peer \in [Sockets -> Servers \cup {None}]
  /\ thread \in [Sockets -> {"none", "pending", "unknown", "authorized"}]
  /\ request \in [Sockets -> {"none", "Authorize", "Create", "Call", "Shutdown"}]
  /\ \A c \in Sockets : (peer[c] = None) = (thread[c] = "none")

\* And the processes.
ProcessesOK ==
  /\ process \in [Servers -> {"none", "starting", "running", "ending", "gone"}]
  /\ acceptor \in [Servers -> {"none", "serving", "waiting", "told", "closing"}]
  /\ listening \in SUBSET Servers /\ requested \in SUBSET Servers
  /\ name \in Servers \cup {None}
  /\ idle \in [Servers -> 0..MaxIdle]

PeersRun == \A c \in Sockets : peer[c] # None => process[peer[c]] \in {"running", "ending"}

ServerInv ==
  /\ ProcessesOK /\ SocketsOK /\ PeersRun
  /\ ListeningRuns /\ AcceptorRuns

-----------------------------------------------------------------------------
(* What the steps of the sockets keep                                      *)

\* A connection leads to a server that runs.
LEMMA ConnectKeeps ==
  ASSUME ServerInv, NEW c \in Sockets, Connect(c), UNCHANGED processVars
  PROVE  ServerInv' /\ request'[c] = "Authorize" /\ peer'[c] # None
         /\ \A d \in Sockets \ {c} : request'[d] = request[d] /\ peer'[d] = peer[d]
<1>1. /\ name \in Servers /\ name # None /\ process[name] \in {"running", "ending"}
  BY ServerAssumption DEF ServerInv, ProcessesOK, ListeningRuns, Connect, CanConnect, Servers
<1>2. SocketsOK'
  BY <1>1 DEF ServerInv, SocketsOK, Connect
<1>3. PeersRun'
  BY <1>1 DEF ServerInv, SocketsOK, PeersRun, Connect, processVars
<1>4. ProcessesOK' /\ ListeningRuns' /\ AcceptorRuns'
  BY DEF ServerInv, ProcessesOK, ListeningRuns, AcceptorRuns, processVars
<1> QED
  BY <1>1, <1>2, <1>3, <1>4 DEF ServerInv, SocketsOK, Connect

LEMMA SendKeeps ==
  ASSUME ServerInv, NEW c \in Sockets, UNCHANGED processVars,
         NEW command \in {"Create", "Call", "Shutdown"}, Send(c, command)
  PROVE  ServerInv' /\ peer' = peer /\ request'[c] = command
         /\ \A d \in Sockets \ {c} : request'[d] = request[d]
  BY DEF ServerInv, ProcessesOK, SocketsOK, PeersRun, ListeningRuns, AcceptorRuns, Send, processVars

\* Closed sockets lead nowhere, and nothing is asked over them.
LEMMA CutKeeps ==
  ASSUME SocketsOK, NEW cut \in SUBSET Sockets, Cut(cut)
  PROVE  /\ SocketsOK'
         /\ \A c \in cut : peer'[c] = None /\ request'[c] = "none"
         /\ \A c \in Sockets \ cut : peer'[c] = peer[c] /\ request'[c] = request[c]
  BY DEF SocketsOK, Cut

LEMMA CutOnlyKeeps ==
  ASSUME ServerInv, NEW cut \in SUBSET Sockets, Cut(cut), UNCHANGED processVars
  PROVE  ServerInv'
<1>1. SocketsOK' /\ PeersRun'
  BY CutKeeps DEF ServerInv, PeersRun, processVars
<1> QED
  BY <1>1 DEF ServerInv, ProcessesOK, ListeningRuns, AcceptorRuns, processVars

-----------------------------------------------------------------------------
(* What the steps of the servers keep                                      *)

\* A process that was not running takes no part in what the sockets need.
LEMMA LaunchKeeps ==
  ASSUME ServerInv, NEW s \in Servers, Launch(s), UNCHANGED socketVars
  PROVE  ServerInv'
<1>1. process[s] = "none" /\ process' = [process EXCEPT ![s] = "starting"]
  BY DEF Launch, Servers
<1>2. ProcessesOK' /\ SocketsOK'
  BY <1>1 DEF ServerInv, ProcessesOK, SocketsOK, Launch, socketVars
<1>3. PeersRun' /\ ListeningRuns' /\ AcceptorRuns'
  BY <1>1 DEF ServerInv, ProcessesOK, SocketsOK, PeersRun, ListeningRuns, AcceptorRuns,
              Launch, socketVars
<1> QED
  BY <1>2, <1>3 DEF ServerInv

LEMMA ListenKeeps ==
  ASSUME ServerInv, NEW s \in Servers, Listen(s)
  PROVE  ServerInv'
<1>1. /\ process' = [process EXCEPT ![s] = "running"]
      /\ acceptor' = [acceptor EXCEPT ![s] = "serving"]
      /\ listening' \in SUBSET Servers /\ listening' \subseteq listening \cup {s}
      /\ name' \in Servers \cup {None} /\ idle' = [idle EXCEPT ![s] = 0]
      /\ UNCHANGED <<requested, socketVars>>
  BY DEF Listen, ServerInv, ProcessesOK
<1>2. ProcessesOK' /\ SocketsOK'
  BY <1>1, ServerAssumption DEF ServerInv, ProcessesOK, SocketsOK, socketVars
<1>3. PeersRun' /\ ListeningRuns' /\ AcceptorRuns'
  BY <1>1 DEF ServerInv, ProcessesOK, SocketsOK, PeersRun, ListeningRuns, AcceptorRuns, socketVars
<1> QED
  BY <1>2, <1>3 DEF ServerInv

LEMMA SocketStepKeeps ==
  ASSUME ServerInv, NEW c \in Sockets, SocketStep(c)
  PROVE  ServerInv' /\ \A d \in Sockets : request'[d] \in {request[d], "none"}
<1>1. CASE Accept(c)
  <2>1. peer[c] \in Servers
    BY <1>1 DEF ServerInv, SocketsOK, Accept
  <2>2. ProcessesOK' /\ SocketsOK'
    BY <1>1, <2>1, ServerAssumption DEF ServerInv, ProcessesOK, SocketsOK, Accept
  <2> QED
    BY <1>1, <2>2 DEF ServerInv, PeersRun, ListeningRuns, AcceptorRuns, Accept
<1>2. CASE Answer(c)
  <2>1. CASE /\ thread[c] = "unknown" /\ request[c] = "Authorize"
             /\ thread' = [thread EXCEPT ![c] = "authorized"]
             /\ request' = [request EXCEPT ![c] = "none"]
             /\ UNCHANGED <<processVars, peer>>
    BY <2>1 DEF ServerInv, ProcessesOK, SocketsOK, PeersRun, ListeningRuns, AcceptorRuns, processVars
  <2>2. CASE /\ thread[c] = "authorized" /\ request[c] \in {"Create", "Call"}
             /\ request' = [request EXCEPT ![c] = "none"]
             /\ UNCHANGED <<processVars, peer, thread>>
    BY <2>2 DEF ServerInv, ProcessesOK, SocketsOK, PeersRun, ListeningRuns, AcceptorRuns, processVars
  <2>3. CASE /\ thread[c] = "authorized" /\ request[c] = "Shutdown"
             /\ Cut({c}) /\ requested' = requested \cup {peer[c]}
             /\ UNCHANGED <<process, acceptor, listening, name, idle>>
    <3>1. peer[c] \in Servers
      BY <2>3 DEF ServerInv, SocketsOK
    <3>2. /\ SocketsOK' /\ \A d \in Sockets : request'[d] \in {request[d], "none"}
          /\ \A d \in Sockets : peer'[d] \in {peer[d], None}
      BY <2>3, CutKeeps DEF ServerInv
    <3>3. ProcessesOK' /\ PeersRun' /\ ListeningRuns' /\ AcceptorRuns'
      BY <2>3, <3>1, <3>2 DEF ServerInv, ProcessesOK, PeersRun, ListeningRuns, AcceptorRuns
    <3> QED
      BY <3>2, <3>3 DEF ServerInv
  <2> QED
    BY <1>2, <2>1, <2>2, <2>3 DEF Answer
<1> QED
  BY <1>1, <1>2 DEF SocketStep

\* The end of a process takes its sockets along.
LEMMA GoneKeeps ==
  ASSUME ServerInv, NEW s \in Servers,
         process' = [process EXCEPT ![s] = "gone"], acceptor' = [acceptor EXCEPT ![s] = "none"],
         listening' = listening \ {s}, Cut({c \in Sockets : peer[c] = s}),
         name' \in {name, None}, requested' \subseteq requested, UNCHANGED idle
  PROVE  ServerInv' /\ \A d \in Sockets : request'[d] \in {request[d], "none"}
<1>1. /\ SocketsOK'
      /\ \A c \in Sockets : peer[c] = s => peer'[c] = None /\ request'[c] = "none"
      /\ \A c \in Sockets : peer[c] # s => peer'[c] = peer[c] /\ request'[c] = request[c]
  BY CutKeeps DEF ServerInv
<1>2. ProcessesOK'
  BY DEF ServerInv, ProcessesOK
<1>3. PeersRun'
  BY <1>1, <1>2 DEF ServerInv, ProcessesOK, SocketsOK, PeersRun
<1>4. ListeningRuns' /\ AcceptorRuns'
  BY DEF ServerInv, ProcessesOK, ListeningRuns, AcceptorRuns
<1> QED
  BY <1>1, <1>2, <1>3, <1>4 DEF ServerInv

LEMMA ProcessStepKeeps ==
  ASSUME ServerInv, NEW s \in Servers, ProcessStep(s)
  PROVE  ServerInv' /\ \A d \in Sockets : request'[d] \in {request[d], "none"}
<1>1. CASE Shutdown(s)
  BY <1>1 DEF Shutdown, ServerInv, ProcessesOK, SocketsOK, PeersRun, ListeningRuns,
              AcceptorRuns, socketVars
<1>2. CASE ShutdownReturns(s)
  BY <1>2 DEF ShutdownReturns, ServerInv, ProcessesOK, SocketsOK, PeersRun, ListeningRuns,
              AcceptorRuns, socketVars
<1>3. CASE WatchdogFires(s)
  BY <1>3 DEF WatchdogFires, ServerInv, ProcessesOK, SocketsOK, PeersRun, ListeningRuns,
              AcceptorRuns, socketVars
<1>4. CASE Quit(s)
  BY <1>4 DEF Quit, ServerInv, ProcessesOK, SocketsOK, PeersRun, ListeningRuns,
              AcceptorRuns, socketVars
<1>5. CASE End(s)
  BY <1>5, GoneKeeps DEF End
<1> QED
  BY <1>1, <1>2, <1>3, <1>4, <1>5 DEF ProcessStep

-----------------------------------------------------------------------------
(* Types                                                                   *)

\* What of it is about the client.
ClientOK ==
  /\ client \in {"idle", "starting", "authorizing", "gone"} \cup Leaving
  /\ {active, serverStarted, late, killed} \subseteq BOOLEAN
  /\ waited \in 0..Patience /\ created \in SUBSET Objects
  /\ client = "gone" => \A c \in Sockets : peer[c] = None
  /\ client \in {"starting", "authorizing"} => active /\ ~serverStarted
  /\ LeavesWithoutRights /\ LeaversStop

TypesInv == ServerInv /\ ClientOK

LEMMA TypesMeant == TypesInv => RemoteTypeOK
  BY DEF TypesInv, RemoteTypeOK, ServerTypeOK, ServerInv, ProcessesOK, SocketsOK, PeersRun,
         ClientOK

LEMMA TypesInit == RemoteInit => TypesInv
<1> SUFFICES ASSUME RemoteInit PROVE ServerInv /\ ClientOK
  BY DEF TypesInv
<1>1. ServerInv
  BY ServerAssumption DEF RemoteInit, ServerInit, ServerInv, ProcessesOK, SocketsOK, PeersRun,
                          ListeningRuns, AcceptorRuns
<1>2. ClientOK
  <2>1. 0 \in 0..Patience /\ {} \in SUBSET Objects
    BY ClientAssumption
  <2> QED
  BY <2>1 DEF RemoteInit, ServerInit, ClientOK, Leaving, LeavesWithoutRights,
                          LeaversStop
<1> QED
  BY <1>1, <1>2

\* The steps of RemoteClient itself.
LEMMA ClientTypes ==
  ASSUME TypesInv, Resume \/ Start \/ StartByHand \/ Drop \/ Exit \/ ClientStep
  PROVE  TypesInv'
<1> USE DEF Leaving
<1>1. ServerInv /\ ClientOK
  BY DEF TypesInv
<1>2. Control \in Sockets /\ 0 \in 0..Patience
  BY ClientAssumption
<1>3. UNCHANGED serverVars => ServerInv'
  BY <1>1 DEF ServerInv, ProcessesOK, SocketsOK, PeersRun, ListeningRuns, AcceptorRuns,
              serverVars, processVars, socketVars
<1>4. ASSUME UNCHANGED serverVars,
             Resume \/ Drop \/ Exit \/ GiveUp PROVE ClientOK'
  BY <1>1, <1>4 DEF Resume, Drop, Exit, GiveUp, ClientOK, LeavesWithoutRights, LeaversStop,
                    serverVars, socketVars, faultVars
<1>5. ASSUME UNCHANGED socketVars, Start \/ StartByHand PROVE ClientOK'
  <2>1. CASE Start
    <3>1. /\ client = "idle" /\ client' = "starting" /\ active' = TRUE /\ ~serverStarted
          /\ waited' = 0 /\ UNCHANGED <<socketVars, serverStarted, created, faultVars>>
      BY <2>1 DEF Start
    <3> QED
      BY <1>1, <1>2, <3>1 DEF ClientOK, LeavesWithoutRights, LeaversStop, socketVars, faultVars
  <2>2. CASE StartByHand
    <3>1. UNCHANGED <<socketVars, clientVars, faultVars>>
      BY <2>2 DEF StartByHand
    <3> QED
      BY <1>1, <3>1 DEF ClientOK, LeavesWithoutRights, LeaversStop, socketVars, clientVars, faultVars
  <2> QED
    BY <1>5, <2>1, <2>2
<1>6. ASSUME Cut(Sockets) PROVE /\ \A c \in Sockets : peer'[c] = None /\ request'[c] = "none"
                                /\ UNCHANGED processVars => ServerInv'
  BY <1>1, <1>6, CutKeeps, CutOnlyKeeps DEF ServerInv
<1>7. CASE Resume \/ Drop \/ Exit \/ GiveUp
  <2>1. UNCHANGED serverVars
    BY <1>7 DEF Resume, Drop, Exit, GiveUp
  <2> QED
    BY <1>3, <1>4, <1>7, <2>1 DEF TypesInv
<1>8. CASE Start \/ StartByHand
  <2>1. /\ UNCHANGED socketVars
        /\ (\E s \in Servers : Launch(s)) \/ UNCHANGED processVars
    BY <1>8 DEF Start, StartByHand
  <2>2. ServerInv'
    BY <1>1, <1>3, <2>1, LaunchKeeps DEF serverVars
  <2> QED
    BY <1>5, <1>8, <2>1, <2>2 DEF TypesInv
<1>9. CASE Try
  <2>1. /\ ServerInv' /\ request'[Control] = "Authorize"
        /\ \A d \in Sockets \ {Control} : request'[d] = request[d]
    BY <1>1, <1>2, <1>9, ConnectKeeps DEF Try
  <2>2. ClientOK'
    BY <1>1, <1>2, <1>9, <2>1 DEF Try, ClientOK, LeavesWithoutRights, LeaversStop, faultVars
  <2> QED
    BY <2>1, <2>2 DEF TypesInv
<1>10. CASE Authorized
  <2>1. CASE peer[Control] # None
    <3>1. UNCHANGED <<processVars, socketVars, active, waited, created, faultVars>>
          /\ client' = "idle" /\ serverStarted' = TRUE
      BY <1>10, <2>1 DEF Authorized
    <3>2. ClientOK'
      BY <1>1, <1>10, <3>1 DEF ClientOK, LeavesWithoutRights, LeaversStop, socketVars, faultVars,
                                 Authorized
    <3> QED
      BY <1>3, <3>1, <3>2 DEF serverVars, TypesInv
  <2>2. CASE peer[Control] = None
    <3>1. /\ UNCHANGED <<processVars, serverStarted, waited, created, faultVars>>
          /\ client' = "gone" /\ active' = FALSE /\ Cut(Sockets)
      BY <1>10, <2>2 DEF Authorized
    <3>2. ClientOK'
      BY <1>1, <1>6, <3>1 DEF ClientOK, LeavesWithoutRights, LeaversStop, faultVars
    <3> QED
      BY <1>6, <3>1, <3>2 DEF TypesInv
  <2> QED
    BY <2>1, <2>2
<1>11. ASSUME client \in Leaving, client' = "gone", Cut(Sockets),
              UNCHANGED <<processVars, active, serverStarted, waited, created, faultVars>>
       PROVE  TypesInv'
  <2>1. ClientOK'
    BY <1>1, <1>6, <1>11 DEF ClientOK, LeavesWithoutRights, LeaversStop, faultVars
  <2> QED
    BY <1>6, <1>11, <2>1 DEF TypesInv
<1>12. ASSUME client \in Leaving, client' = "stopping", Send(Control, "Shutdown"),
              UNCHANGED <<processVars, active, serverStarted, waited, created, faultVars>>
       PROVE  TypesInv'
  <2>1. ServerInv'
    BY <1>1, <1>2, <1>12, SendKeeps
  <2>2. ClientOK'
    BY <1>1, <1>12 DEF ClientOK, LeavesWithoutRights, LeaversStop, faultVars
  <2> QED
    BY <2>1, <2>2 DEF TypesInv
<1>13. CASE StopServer
  <2>1. CASE peer[Control] = None /\ Connect(Control) /\ client' = "returning"
    <3>1. /\ ServerInv' /\ request'[Control] = "Authorize"
          /\ \A d \in Sockets \ {Control} : request'[d] = request[d]
      BY <1>1, <1>2, <1>13, <2>1, ConnectKeeps DEF StopServer
    <3>2. ClientOK'
      BY <1>1, <1>2, <1>13, <2>1, <3>1
         DEF StopServer, ClientOK, LeavesWithoutRights, LeaversStop, faultVars
    <3> QED
      BY <3>1, <3>2 DEF TypesInv
  <2> QED
    BY <1>11, <1>12, <1>13, <2>1 DEF StopServer
<1>14. CASE Returned
  BY <1>11, <1>12, <1>14 DEF Returned
<1>15. CASE Stopped
  BY <1>11, <1>15 DEF Stopped
<1> QED
  BY <1>7, <1>8, <1>9, <1>10, <1>13, <1>14, <1>15 DEF ClientStep

\* Those of the objects, which have no part in what the client decides.
LEMMA ObjectTypes ==
  ASSUME TypesInv, NEW o \in Objects,
         ConnectToServer(o) \/ ObjectStep(o) \/ Call(o) \/ Disconnect(o)
  PROVE  TypesInv' /\ UNCHANGED <<processVars, client, active, serverStarted, faultVars>>
<1>1. o \in Sockets /\ ServerInv /\ ClientOK
  BY DEF TypesInv, Objects
<1>2. ASSUME ServerInv', \A c \in Sockets : request'[c] \in {request[c], "Authorize", "Create", "Call", "none"},
             created' \in SUBSET Objects, client # "gone",
             UNCHANGED <<processVars, client, active, serverStarted, waited, faultVars>>
      PROVE  TypesInv' /\ UNCHANGED <<processVars, client, active, serverStarted, faultVars>>
  <2>1. LeaversStop' /\ LeavesWithoutRights'
    BY <1>1, <1>2 DEF ClientOK, LeaversStop, LeavesWithoutRights
  <2> QED
    BY <1>1, <1>2, <2>1 DEF TypesInv, ClientOK, faultVars
<1>3. created \in SUBSET Objects /\ (active => client # "gone")
  BY <1>1 DEF ClientOK, LeavesWithoutRights
<1>4. CASE ConnectToServer(o)
  <2>1. /\ active /\ Connect(o) /\ created' = created \ {o}
        /\ UNCHANGED <<processVars, client, active, serverStarted, waited, faultVars>>
    BY <1>4 DEF ConnectToServer
  <2>2. /\ ServerInv' /\ request'[o] = "Authorize"
        /\ \A d \in Sockets \ {o} : request'[d] = request[d]
    BY <1>1, <2>1, ConnectKeeps
  <2> QED
    BY <1>2, <1>3, <2>1, <2>2
<1>5. CASE ObjectStep(o)
  <2>1. /\ client # "gone" /\ Send(o, "Create") /\ created' = created \cup {o}
        /\ UNCHANGED <<processVars, client, active, serverStarted, waited, faultVars>>
    BY <1>5 DEF ObjectStep, Create, Alive
  <2>2. /\ ServerInv' /\ request'[o] = "Create"
        /\ \A d \in Sockets \ {o} : request'[d] = request[d]
    BY <1>1, <2>1, SendKeeps
  <2> QED
    BY <1>2, <1>3, <2>1, <2>2
<1>6. CASE Call(o)
  <2>1. active /\ Send(o, "Call") /\ UNCHANGED <<processVars, clientVars, faultVars>>
    BY <1>6 DEF Call
  <2>2. /\ ServerInv' /\ request'[o] = "Call"
        /\ \A d \in Sockets \ {o} : request'[d] = request[d]
    BY <1>1, <2>1, SendKeeps
  <2> QED
    BY <1>2, <1>3, <2>1, <2>2 DEF clientVars
<1>7. CASE Disconnect(o)
  <2>1. client # "gone" /\ Cut({o}) /\ UNCHANGED <<processVars, clientVars, faultVars>>
    BY <1>7 DEF Disconnect, Alive
  <2>2. /\ ServerInv' /\ request'[o] = "none"
        /\ \A d \in Sockets \ {o} : request'[d] = request[d]
    BY <1>1, <2>1, CutKeeps, CutOnlyKeeps DEF ServerInv
  <2> QED
    BY <1>2, <1>3, <2>1, <2>2 DEF clientVars
<1> QED
  BY <1>4, <1>5, <1>6, <1>7

\* Nobody's time runs out unnoticed: a tick is not taken while a step is due.
LEMMA TickTypes ==
  ASSUME TypesInv, Tick
  PROVE  TypesInv'
<1>1. ServerInv /\ ClientOK
  BY DEF TypesInv
<1>2. \A s \in Servers : process[s] = "running" => idle[s] # MaxIdle
  BY DEF Tick, ProcessDue
<1>3. client = "starting" => waited # Patience
  BY DEF Tick, ClientDue
<1>4. idle' \in [Servers -> 0..MaxIdle]
  <2>1. ASSUME NEW s \in Servers
        PROVE  (IF s \in Pinged THEN 0
                ELSE IF process[s] = "running" THEN idle[s] + 1 ELSE idle[s]) \in 0..MaxIdle
    BY <1>1, <1>2, ServerAssumption DEF ServerInv, ProcessesOK
  <2> QED
    BY <2>1 DEF Tick
<1>5. waited' \in 0..Patience
  BY <1>1, <1>3, ClientAssumption DEF Tick, ClientOK
<1>6. UNCHANGED <<process, acceptor, listening, name, requested, socketVars, client,
                  active, serverStarted, created, faultVars>>
  BY DEF Tick
<1>7. ServerInv'
  BY <1>1, <1>4, <1>6 DEF ServerInv, ProcessesOK, SocketsOK, PeersRun, ListeningRuns,
                          AcceptorRuns, socketVars
<1>8. ClientOK'
  BY <1>1, <1>5, <1>6 DEF ClientOK, LeaversStop, LeavesWithoutRights, socketVars, faultVars
<1> QED
  BY <1>7, <1>8 DEF TypesInv

\* The servers' steps, and the deaths.
LEMMA ServedTypes ==
  ASSUME TypesInv, ServerInv', UNCHANGED <<client, active, serverStarted, waited, created, late>>,
         \A d \in Sockets : request'[d] \in {request[d], "none"},
         client = "gone" => \A d \in Sockets : peer'[d] = None,
         killed' \in BOOLEAN
  PROVE  TypesInv'
<1>1. ClientOK
  BY DEF TypesInv
<1>2. LeaversStop' /\ LeavesWithoutRights'
  BY <1>1 DEF ClientOK, LeaversStop, LeavesWithoutRights
<1> QED
  BY <1>1, <1>2 DEF ClientOK, TypesInv

LEMMA TypesStep == TypesInv /\ [RemoteNext]_remoteVars => TypesInv'
<1> SUFFICES ASSUME TypesInv, [RemoteNext]_remoteVars PROVE TypesInv'
  OBVIOUS
<1>1. ServerInv /\ ClientOK
  BY DEF TypesInv
<1>2. killed \in BOOLEAN
  BY <1>1 DEF ClientOK
<1>3. CASE Resume \/ Start \/ StartByHand \/ Drop \/ Exit \/ ClientStep
  BY <1>3, ClientTypes
<1>4. CASE \E o \in Objects : ConnectToServer(o) \/ ObjectStep(o) \/ Call(o) \/ Disconnect(o)
  BY <1>4, ObjectTypes
<1>5. ASSUME NEW s \in Servers, Served(Listen(s) \/ ProcessStep(s)) PROVE TypesInv'
  <2>1. UNCHANGED <<client, active, serverStarted, waited, created, late, killed>>
    BY <1>5 DEF Served, clientVars, faultVars
  <2>2. CASE Listen(s)
    <3>1. UNCHANGED socketVars
      BY <2>2 DEF Listen
    <3>2. ServerInv'
      BY <1>1, <2>2, ListenKeeps
    <3> QED
      BY <1>1, <1>2, <2>1, <3>1, <3>2, ServedTypes DEF socketVars, ClientOK
  <2>3. CASE ProcessStep(s)
    <3>1. ServerInv' /\ \A d \in Sockets : request'[d] \in {request[d], "none"}
      BY <1>1, <2>3, ProcessStepKeeps
    <3>2. client = "gone" => \A d \in Sockets : peer'[d] = None
      <4>1. client = "gone" => \A d \in Sockets : peer[d] = None
        BY <1>1 DEF ClientOK
      <4>2. \A d \in Sockets : peer'[d] \in {peer[d], None}
        BY <1>1, <2>3, CutKeeps DEF ProcessStep, Shutdown, ShutdownReturns, WatchdogFires, Quit,
                                    End, socketVars, ServerInv
      <4> QED
        BY <4>1, <4>2
    <3> QED
      BY <1>2, <2>1, <3>1, <3>2, ServedTypes
  <2> QED
    BY <1>5, <2>2, <2>3 DEF Served
<1>6. ASSUME NEW c \in Sockets, Served(SocketStep(c)) PROVE TypesInv'
  <2>1. SocketStep(c) /\ UNCHANGED <<client, active, serverStarted, waited, created, late, killed>>
    BY <1>6 DEF Served, clientVars, faultVars
  <2>2. ServerInv' /\ \A d \in Sockets : request'[d] \in {request[d], "none"}
    BY <1>1, <2>1, SocketStepKeeps
  <2>3. client = "gone" => \A d \in Sockets : peer'[d] = None
    <3>1. client = "gone" => \A d \in Sockets : peer[d] = None
      BY <1>1 DEF ClientOK
    <3>2. \A d \in Sockets : peer'[d] \in {peer[d], None}
      BY <1>1, <2>1, CutKeeps DEF SocketStep, Accept, Answer, ServerInv
    <3> QED
      BY <3>1, <3>2
  <2> QED
    BY <1>2, <2>1, <2>2, <2>3, ServedTypes
<1>7. CASE Tick
  BY <1>7, TickTypes
<1>8. CASE ServerDies
  <2>1. PICK s \in Servers : Die(s)
    BY <1>8 DEF ServerDies
  <2>2. killed' = TRUE /\ UNCHANGED <<client, active, serverStarted, waited, created, late>>
    BY <1>8 DEF ServerDies, clientVars
  <2>3. ServerInv' /\ \A d \in Sockets : request'[d] \in {request[d], "none"}
    BY <1>1, <2>1, GoneKeeps DEF Die
  <2>4. \A d \in Sockets : peer'[d] \in {peer[d], None}
    BY <1>1, <2>1, CutKeeps DEF Die, ServerInv
  <2>5. client = "gone" => \A d \in Sockets : peer'[d] = None
    BY <1>1, <2>4 DEF ClientOK
  <2> QED
    BY <2>2, <2>3, <2>5, ServedTypes
<1>9. CASE ClientDies
  <2>1. /\ client' = "gone" /\ active' = FALSE /\ Cut(Sockets)
        /\ UNCHANGED <<processVars, serverStarted, waited, created, faultVars>>
    BY <1>9 DEF ClientDies
  <2>2. /\ ServerInv' /\ \A c \in Sockets : peer'[c] = None /\ request'[c] = "none"
    BY <1>1, <2>1, CutKeeps, CutOnlyKeeps DEF ServerInv
  <2>3. ClientOK'
    BY <1>1, <2>1, <2>2 DEF ClientOK, Leaving, LeaversStop, LeavesWithoutRights, faultVars
  <2> QED
    BY <2>2, <2>3 DEF TypesInv
<1>10. CASE UNCHANGED remoteVars
  <2>1. UNCHANGED <<socketVars, processVars, clientVars, faultVars>>
    BY <1>10 DEF remoteVars, serverVars
  <2>2. ServerInv'
    BY <1>1, <2>1 DEF ServerInv, ProcessesOK, SocketsOK, PeersRun, ListeningRuns, AcceptorRuns,
                      socketVars, processVars
  <2> QED
    BY <1>1, <1>2, <2>1, <2>2, ServedTypes DEF socketVars, clientVars, faultVars, ClientOK
<1> QED
  BY <1>3, <1>4, <1>5, <1>6, <1>7, <1>8, <1>9, <1>10 DEF RemoteNext

\* The state keeps its types: in particular neither the watchdog nor the deadline
\* of the start is left behind by the time, and every socket leads to a process
\* that has an event loop.
THEOREM RemoteTypeCorrect == RemoteSpec => []RemoteTypeOK
<1> QED
  BY TypesInit, TypesStep, TypesMeant, PTL DEF RemoteSpec

-----------------------------------------------------------------------------
(* While admin rights are active                                           *)

\* The inductive invariant.
RemoteInv == TypesInv /\ (Undisturbed => OneServer /\ ServerKnown)

LEMMA RemoteInvInit == RemoteInit => RemoteInv
<1> SUFFICES ASSUME RemoteInit PROVE OneServer /\ ServerKnown
  BY TypesInit DEF RemoteInv
<1> QED
  BY DEF RemoteInit, ServerInit, OneServer, ServerKnown

\* Nothing of it is about the sockets.
LEMMA ServersStay ==
  ASSUME OneServer, UNCHANGED processVars
  PROVE  OneServer'
  BY DEF OneServer, Running, processVars

\* A server is started only when there is none.
LEMMA FirstServer ==
  ASSUME ProcessesOK, NEW s \in Servers, Launch(s), OneServer,
         \A t \in Servers : process[t] \in {"none", "gone"}
  PROVE  OneServer'
<1>1. \A t \in Servers : process[t] = "none" /\ ~Running(t)
  BY DEF OneServer, Running
<1>2. name = None
  BY <1>1 DEF OneServer, ProcessesOK
<1>3. \A t \in Servers : process'[t] = (IF t = s THEN "starting" ELSE "none")
  BY <1>1 DEF Launch, ProcessesOK
<1> QED
  BY <1>2, <1>3 DEF OneServer, Launch

\* And it gets the name, which nobody else has.
LEMMA FirstListens ==
  ASSUME ProcessesOK, NEW s \in Servers, Listen(s), OneServer
  PROVE  OneServer' /\ name' = s
<1>1. process[s] = "starting" /\ \A t \in Servers \ {s} : process[t] = "none"
  BY DEF Listen, OneServer, ProcessesOK, Running
<1>2. name = None
  BY <1>1 DEF OneServer, Running, ProcessesOK
<1>3. /\ name' = s /\ listening' = listening \cup {s}
      /\ process' = [process EXCEPT ![s] = "running"]
      /\ acceptor' = [acceptor EXCEPT ![s] = "serving"]
      /\ idle' = [idle EXCEPT ![s] = 0] /\ requested' = requested
  BY <1>2 DEF Listen
<1>4. Running(s)'
  BY <1>3, ServerAssumption DEF Running, ProcessesOK
<1>5. \A t \in Servers \ {s} : process'[t] = "none"
  BY <1>1, <1>3 DEF ProcessesOK
<1> QED
  BY <1>3, <1>4, <1>5 DEF OneServer

\* Nobody tells the one server to stop, and it does not stop on its own.
LEMMA NobodyStops ==
  ASSUME ServerInv, NEW s \in Servers, ProcessStep(s), OneServer
  PROVE  FALSE
<1>1. process[s] = "running" => idle[s] # MaxIdle /\ acceptor[s] = "serving"
  BY ServerAssumption DEF OneServer, Running
<1>2. s \notin requested /\ process[s] # "ending"
  BY DEF OneServer, Running
<1>3. acceptor[s] # "waiting"
  BY <1>1, <1>2 DEF ServerInv, AcceptorRuns
<1> QED
  BY <1>1, <1>2, <1>3 DEF ProcessStep, Shutdown, ShutdownReturns, WatchdogFires, Quit, End

LEMMA SocketsServed ==
  ASSUME ServerInv, NEW c \in Sockets, SocketStep(c), OneServer, request[c] # "Shutdown"
  PROVE  OneServer' /\ name' = name /\ process' = process
<1>1. CASE Accept(c)
  <2>1. /\ UNCHANGED <<process, acceptor, listening, name, requested>>
        /\ idle' = [idle EXCEPT ![peer[c]] = 0]
    BY <1>1 DEF Accept
  <2>2. \A s \in Servers : idle'[s] \in {idle[s], 0}
    BY <2>1 DEF ServerInv, ProcessesOK
  <2>3. \A s \in Servers : Running(s) => Running(s)'
    BY <2>1, <2>2 DEF Running
  <2>4. name # None => name \in Servers
    BY DEF ServerInv, ProcessesOK
  <2> QED
    BY <2>1, <2>3, <2>4 DEF OneServer
<1>2. CASE Answer(c)
  <2>1. UNCHANGED processVars
    BY <1>2 DEF Answer
  <2> QED
    BY <2>1, ServersStay DEF processVars
<1> QED
  BY <1>1, <1>2 DEF SocketStep

\* Each tick the client is heard of before the watchdog counts.
LEMMA TickServed ==
  ASSUME ServerInv, OneServer, Undisturbed, Tick
  PROVE  OneServer'
<1>1. UNCHANGED <<process, acceptor, listening, name, requested>>
  BY DEF Tick
<1>2. ASSUME NEW s \in Servers, Running(s) PROVE Running(s)'
  <2>1. s \in Pinged
    BY <1>2 DEF Pinged, Running, CanConnect, Undisturbed, Alive, Leaving
  <2>2. idle'[s] = 0
    BY <2>1 DEF Tick
  <2> QED
    BY <1>1, <1>2, <2>2 DEF Running
<1>3. name # None => name \in Servers
  BY DEF ServerInv, ProcessesOK
<1> QED
  BY <1>1, <1>2, <1>3 DEF OneServer

LEMMA RemoteInvStep == RemoteInv /\ [RemoteNext]_remoteVars => RemoteInv'
<1> SUFFICES ASSUME RemoteInv, [RemoteNext]_remoteVars, Undisturbed' PROVE (OneServer /\ ServerKnown)'
  BY TypesStep DEF RemoteInv
<1>1. ServerInv /\ ClientOK /\ ServerInv' /\ ClientOK' /\ ProcessesOK
  BY TypesStep DEF RemoteInv, TypesInv, ServerInv
<1>2. ASSUME Undisturbed PROVE OneServer /\ ServerKnown
  BY <1>2 DEF RemoteInv
<1>3. CASE Resume
  <2>1. UNCHANGED <<processVars, client, serverStarted, faultVars>> /\ serverStarted /\ client = "idle"
    BY <1>3 DEF Resume, serverVars
  <2>2. Undisturbed
    BY <2>1 DEF Undisturbed, faultVars
  <2> QED
    BY <1>2, <2>1, <2>2, ServersStay DEF ServerKnown, processVars
<1>4. CASE Start
  <2>1. /\ client = "idle" /\ client' = "starting" /\ ~serverStarted
        /\ UNCHANGED <<serverStarted, faultVars>>
    BY <1>4 DEF Start
  <2>2. Undisturbed
    BY <2>1 DEF Undisturbed, faultVars
  <2>3. OneServer /\ \A s \in Servers : process[s] = "none"
    BY <1>2, <2>1, <2>2 DEF ServerKnown
  <2>4. OneServer'
    BY <1>1, <1>4, <2>3, FirstServer, ServersStay DEF Start
  <2> QED
    BY <2>1, <2>4 DEF ServerKnown
<1>5. CASE StartByHand
  <2>1. /\ client = "starting" /\ \A s \in Servers : process[s] \in {"none", "gone"}
        /\ \E s \in Servers : Launch(s)
        /\ UNCHANGED <<client, active, serverStarted, faultVars>>
    BY <1>5 DEF StartByHand, clientVars
  <2>2. Undisturbed
    BY <2>1 DEF Undisturbed, faultVars
  <2>3. OneServer'
    BY <1>1, <1>2, <2>1, <2>2, FirstServer
  <2>4. ~serverStarted
    BY <1>1, <2>1 DEF ClientOK
  <2> QED
    BY <2>1, <2>3, <2>4 DEF ServerKnown
<1>6. CASE Drop
  <2>1. /\ UNCHANGED <<processVars, client, serverStarted, faultVars>> /\ client = "idle"
        /\ active' = FALSE
    BY <1>6 DEF Drop, serverVars
  <2>2. Undisturbed
    BY <2>1 DEF Undisturbed, faultVars
  <2> QED
    BY <1>2, <2>1, <2>2, ServersStay DEF ServerKnown, processVars
<1>7. CASE Try
  <2>1. /\ UNCHANGED <<processVars, active, serverStarted, faultVars>>
        /\ client = "starting" /\ client' = "authorizing"
    BY <1>7 DEF Try
  <2>2. Undisturbed
    BY <2>1 DEF Undisturbed, faultVars
  <2> QED
    BY <1>2, <2>1, <2>2, ServersStay DEF ServerKnown, processVars
<1>8. CASE Authorized
  <2>1. peer[Control] # None /\ client = "authorizing" /\ client' = "idle" /\ serverStarted' = TRUE
        /\ UNCHANGED <<processVars, active, faultVars>>
    BY <1>8 DEF Authorized, Undisturbed
  <2>2. Undisturbed
    BY <2>1 DEF Undisturbed, faultVars
  <2>3. /\ peer[Control] \in Servers
        /\ process[peer[Control]] \in {"running", "ending"}
    BY <1>1, <2>1, ClientAssumption DEF ServerInv, SocketsOK, PeersRun
  <2>4. name = peer[Control]
    BY <1>2, <2>2, <2>3 DEF OneServer, Running
  <2> QED
    BY <1>2, <2>1, <2>2, <2>4, ServersStay DEF ServerKnown, processVars
<1>9. CASE GiveUp \/ Exit \/ StopServer \/ Returned \/ Stopped \/ ClientDies \/ ServerDies
  BY <1>9 DEF GiveUp, Exit, StopServer, Returned, Stopped, ClientDies, ServerDies, Undisturbed
<1>10. CASE \E o \in Objects : ConnectToServer(o) \/ ObjectStep(o) \/ Call(o) \/ Disconnect(o)
  <2>1. UNCHANGED <<processVars, client, active, serverStarted, faultVars>>
    BY <1>10, ObjectTypes DEF RemoteInv
  <2>2. Undisturbed
    BY <2>1 DEF Undisturbed, faultVars
  <2> QED
    BY <1>2, <2>1, <2>2, ServersStay DEF ServerKnown, processVars
<1>11. ASSUME NEW s \in Servers, Served(Listen(s) \/ ProcessStep(s)) PROVE (OneServer /\ ServerKnown)'
  <2>1. UNCHANGED <<client, active, serverStarted, faultVars>>
    BY <1>11 DEF Served, clientVars
  <2>2. Undisturbed
    BY <2>1 DEF Undisturbed, faultVars
  <2>3. Listen(s)
    BY <1>1, <1>2, <1>11, <2>2, NobodyStops DEF Served
  <2>4. OneServer' /\ name' = s
    BY <1>1, <1>2, <2>2, <2>3, FirstListens
  <2>5. name' # None
    BY <2>4, ServerAssumption DEF Servers
  <2>6. process[s] = "starting"
    BY <2>3 DEF Listen
  <2> QED
    BY <1>2, <2>1, <2>2, <2>4, <2>5, <2>6 DEF ServerKnown
<1>12. ASSUME NEW c \in Sockets, Served(SocketStep(c)) PROVE (OneServer /\ ServerKnown)'
  <2>1. SocketStep(c) /\ UNCHANGED <<client, active, serverStarted, faultVars>>
    BY <1>12 DEF Served, clientVars
  <2>2. Undisturbed
    BY <2>1 DEF Undisturbed, faultVars
  <2>3. request[c] # "Shutdown"
    BY <1>1, <2>2 DEF ClientOK, LeaversStop, Undisturbed
  <2>4. OneServer' /\ name' = name /\ process' = process
    BY <1>1, <1>2, <2>1, <2>2, <2>3, SocketsServed
  <2> QED
    BY <1>2, <2>1, <2>2, <2>4 DEF ServerKnown
<1>13. CASE Tick
  <2>1. UNCHANGED <<process, name, client, active, serverStarted, faultVars>>
    BY <1>13 DEF Tick
  <2>2. Undisturbed
    BY <2>1 DEF Undisturbed, faultVars
  <2> QED
    BY <1>1, <1>2, <1>13, <2>1, <2>2, TickServed DEF ServerKnown
<1>14. CASE UNCHANGED remoteVars
  <2>1. UNCHANGED <<processVars, client, active, serverStarted, faultVars>>
    BY <1>14 DEF remoteVars, serverVars, clientVars
  <2>2. Undisturbed
    BY <2>1 DEF Undisturbed, faultVars
  <2> QED
    BY <1>2, <2>1, <2>2, ServersStay DEF ServerKnown, processVars
<1> QED
  BY <1>3, <1>4, <1>5, <1>6, <1>7, <1>8, <1>9, <1>10, <1>11, <1>12, <1>13, <1>14
     DEF RemoteNext, ClientStep

\* While admin rights are active, the server that has the name of the socket accepts
\* connections, unless a start was given up before or a server was killed.
THEOREM RightsAreServed == RemoteSpec => []ActiveIsServed
<1>1. RemoteInv => ActiveIsServed
  <2> SUFFICES ASSUME RemoteInv, active, client = "idle", ~late, ~killed
               PROVE  CanConnect /\ process[name] = "running" /\ acceptor[name] = "serving"
    BY DEF ActiveIsServed
  <2>1. OneServer /\ ServerKnown
    BY DEF RemoteInv, Undisturbed
  <2>2. Running(name)
    BY <2>1 DEF OneServer, ServerKnown
  <2> QED
    BY <2>2 DEF Running, CanConnect
<1> QED
  BY <1>1, RemoteInvInit, RemoteInvStep, PTL DEF RemoteSpec

\* A server is started only when there is none: so there is one server at a time
\* while nothing went wrong with one, and it alone has a socket that listens.
THEOREM OneServerAtATime ==
  RemoteSpec => [](Undisturbed =>
    /\ \A s, t \in Servers : process[s] # "none" /\ process[t] # "none" => s = t
    /\ listening \subseteq {name})
<1>1. ASSUME RemoteInv, Undisturbed
      PROVE  /\ \A s, t \in Servers : process[s] # "none" /\ process[t] # "none" => s = t
             /\ listening \subseteq {name}
  <2>1. OneServer /\ ListeningRuns /\ listening \subseteq Servers
    BY <1>1 DEF RemoteInv, TypesInv, ServerInv, ProcessesOK
  <2> QED
    BY <2>1 DEF OneServer, ListeningRuns, Running
<1> QED
  BY <1>1, RemoteInvInit, RemoteInvStep, PTL DEF RemoteSpec
=============================================================================
