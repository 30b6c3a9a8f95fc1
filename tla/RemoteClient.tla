---------------------------- MODULE RemoteClient ----------------------------
(***************************************************************************)
(* The program that needs admin rights now and then, with the servers it   *)
(* starts: RemoteClient starts a server, waits until it is authorized by   *)
(* it, and tells it to stop at the end; the KeepAlive thread connects      *)
(* every five seconds, so that the watchdog of the server does not fire;   *)
(* RemoteObjects in any thread use the server while admin rights are       *)
(* active.  A tick is five seconds, the 30 seconds of the watchdog are     *)
(* MaxIdle and those of the start are Patience ticks.  Processes and       *)
(* threads that have something to do do it within a tick, only a start may *)
(* take longer.                                                            *)
(***************************************************************************)
EXTENDS RemoteServer

CONSTANTS
  Control,    \* the socket of RemoteClientPrivate, which is itself a RemoteObject
  Patience,   \* how long the client waits for the server it started
  MayBeLate,  \* whether a server may take longer than that to start
  MayDie      \* whether processes may be killed

ASSUME ClientAssumption ==
  /\ Control \in Sockets /\ Patience \in Nat /\ {MayBeLate, MayDie} \subseteq BOOLEAN

VARIABLES
  client,        \* where the main thread is
  active,        \* m_active
  serverStarted, \* m_serverStarted
  waited,        \* the ticks since a server was started
  created,       \* the objects whose Create was sent over the socket they have
  late, killed   \* a start took too long, a server was killed

clientVars == <<client, active, serverStarted, waited, created>>
faultVars == <<late, killed>>
remoteVars == <<serverVars, clientVars, faultVars>>

Objects == Sockets \ {Control}
Alive == client # "gone"
Leaving == {"exiting", "returning", "stopping"}

RemoteTypeOK ==
  /\ ServerTypeOK
  /\ client \in {"idle", "starting", "authorizing", "gone"} \cup Leaving
  /\ {active, serverStarted, late, killed} \subseteq BOOLEAN
  /\ waited \in 0..Patience /\ created \in SUBSET Objects
  /\ client = "gone" => \A c \in Sockets : peer[c] = None
  /\ client \in {"starting", "authorizing"} => active /\ ~serverStarted

RemoteInit ==
  /\ ServerInit
  /\ client = "idle" /\ active = FALSE /\ serverStarted = FALSE
  /\ waited = 0 /\ created = {} /\ late = FALSE /\ killed = FALSE

-----------------------------------------------------------------------------
(* RemoteClient                                                            *)

\* setActive(TRUE) with a server that was started before: nothing is asked of it.
Resume ==
  /\ client = "idle" /\ ~active /\ serverStarted
  /\ active' = TRUE
  /\ UNCHANGED <<serverVars, client, serverStarted, waited, created, faultVars>>

\* setActive(TRUE): the user allows the start, or answers OK to be told the command
\* line and may start a server by hand. (A refusal leaves all as it was.)
Start ==
  /\ client = "idle" /\ ~active /\ ~serverStarted
  /\ active' = TRUE /\ client' = "starting" /\ waited' = 0
  /\ (\E s \in Servers : Launch(s)) \/ UNCHANGED processVars
  /\ UNCHANGED <<socketVars, serverStarted, created, faultVars>>
StartByHand ==
  /\ client = "starting" /\ \A s \in Servers : process[s] \in {"none", "gone"}
  /\ \E s \in Servers : Launch(s)
  /\ UNCHANGED <<socketVars, clientVars, faultVars>>

\* The timer of maybeStartServer(): authorize() connects and waits for the answer.
Try ==
  /\ client = "starting" /\ Connect(Control)
  /\ client' = "authorizing"
  /\ UNCHANGED <<processVars, active, serverStarted, waited, created, faultVars>>

\* The answer. An exception, for a connection that broke, ends the program.
Authorized ==
  /\ client = "authorizing" /\ request[Control] = "none"
  /\ IF peer[Control] # None
     THEN /\ client' = "idle" /\ serverStarted' = TRUE
          /\ UNCHANGED <<active, socketVars>>
     ELSE /\ client' = "gone" /\ active' = FALSE /\ Cut(Sockets)
          /\ UNCHANGED serverStarted
  /\ UNCHANGED <<processVars, waited, created, faultVars>>

\* The deadline: no rights, but the server may still come.
GiveUp ==
  /\ client = "starting" /\ ~CanConnect /\ waited = Patience
  /\ client' = "idle" /\ active' = FALSE /\ late' = TRUE
  /\ UNCHANGED <<serverVars, serverStarted, waited, created, killed>>

\* Mutation: the server is told to stop with every drop of the rights.
DropAndStop ==
  /\ client = "idle" /\ active /\ request[Control] = "none"
  /\ active' = FALSE
  /\ IF peer[Control] # None THEN Send(Control, "Shutdown") ELSE UNCHANGED socketVars
  /\ UNCHANGED <<processVars, client, serverStarted, waited, created, faultVars>>

\* setActive(FALSE)
Drop ==
  /\ client = "idle" /\ active
  /\ active' = FALSE
  /\ UNCHANGED <<serverVars, client, serverStarted, waited, created, faultVars>>

\* ~PackageManagerCore(): the KeepAlive thread ends, and then maybeStopServer()
\* connects again if it has to.
Exit ==
  /\ client = "idle"
  /\ client' = "exiting" /\ active' = FALSE
  /\ UNCHANGED <<serverVars, serverStarted, waited, created, faultVars>>

StopServer ==
  /\ client = "exiting"
  /\ \/ /\ serverStarted /\ peer[Control] # None
        /\ Send(Control, "Shutdown") /\ client' = "stopping"
     \/ /\ serverStarted /\ peer[Control] = None /\ Connect(Control)
        /\ client' = "returning"
     \/ /\ ~serverStarted \/ (peer[Control] = None /\ ~CanConnect)
        /\ Cut(Sockets) /\ client' = "gone"
  /\ UNCHANGED <<processVars, active, serverStarted, waited, created, faultVars>>

\* authorize() of maybeStopServer(); an exception here ends the program too.
Returned ==
  /\ client = "returning" /\ request[Control] = "none"
  /\ \/ /\ peer[Control] # None /\ Send(Control, "Shutdown") /\ client' = "stopping"
     \/ /\ peer[Control] = None /\ Cut(Sockets) /\ client' = "gone"
  /\ UNCHANGED <<processVars, active, serverStarted, waited, created, faultVars>>

Stopped ==
  /\ client = "stopping" /\ request[Control] = "none"
  /\ Cut(Sockets) /\ client' = "gone"
  /\ UNCHANGED <<processVars, active, serverStarted, waited, created, faultVars>>

-----------------------------------------------------------------------------
(* RemoteObject                                                            *)

\* connectToServer(): authorize(), and then Create in the same call. If it cannot
\* connect the object works without admin rights.
ConnectToServer(o) ==
  /\ active /\ peer[o] = None /\ Connect(o)
  /\ created' = created \ {o}
  /\ UNCHANGED <<processVars, client, active, serverStarted, waited, faultVars>>
Create(o) ==
  /\ Alive /\ peer[o] # None /\ request[o] = "none" /\ o \notin created
  /\ Send(o, "Create") /\ created' = created \cup {o}
  /\ UNCHANGED <<processVars, client, active, serverStarted, waited, faultVars>>

\* callRemoteMethod(), while isConnectedToServer().
Call(o) ==
  /\ active /\ peer[o] # None /\ request[o] = "none" /\ o \in created
  /\ Send(o, "Call")
  /\ UNCHANGED <<processVars, clientVars, faultVars>>

\* ~RemoteObject()
Disconnect(o) ==
  /\ Alive /\ peer[o] # None /\ request[o] = "none" /\ o \in created
  /\ Cut({o})
  /\ UNCHANGED <<processVars, clientVars, faultVars>>

-----------------------------------------------------------------------------
(* Time and faults                                                         *)

\* What happens within a tick.
ClientStep == Try \/ Authorized \/ GiveUp \/ StopServer \/ Returned \/ Stopped
ObjectStep(o) == Create(o)

\* When these can be taken: their guards.
ClientDue ==
  \/ client = "starting" /\ (CanConnect \/ waited = Patience)
  \/ client \in {"authorizing", "returning", "stopping"} /\ request[Control] = "none"
  \/ client = "exiting"
ObjectDue(o) == Alive /\ peer[o] # None /\ request[o] = "none" /\ o \notin created

\* Mutation: the connections of KeepAlive are not noticed.
PingedNever == {}

\* Five seconds: KeepAlive connects, which a LocalServer that serves takes for a
\* sign of life, and closes the connection again.
Pinged == {s \in Servers : Alive /\ client \notin Leaving
                             /\ CanConnect /\ s = name /\ acceptor[s] = "serving"}

Tick ==
  /\ ~\E s \in Servers : ProcessDue(s)
  /\ ~\E c \in Sockets : SocketDue(c)
  /\ ~ClientDue /\ ~\E o \in Objects : ObjectDue(o)
  /\ MayBeLate \/ \A s \in Servers : process[s] # "starting"
  /\ idle' = [s \in Servers |->
                IF s \in Pinged THEN 0
                ELSE IF process[s] = "running" THEN idle[s] + 1 ELSE idle[s]]
  /\ waited' = IF client = "starting" THEN waited + 1 ELSE waited
  /\ UNCHANGED <<process, acceptor, listening, name, requested, socketVars, client,
                 active, serverStarted, created, faultVars>>

ServerDies ==
  /\ MayDie /\ killed' = TRUE
  /\ \E s \in Servers : Die(s)
  /\ UNCHANGED <<clientVars, late>>
ClientDies ==
  /\ MayDie /\ Alive
  /\ client' = "gone" /\ active' = FALSE /\ Cut(Sockets)
  /\ UNCHANGED <<processVars, serverStarted, waited, created, faultVars>>

-----------------------------------------------------------------------------
Served(A) == A /\ UNCHANGED <<clientVars, faultVars>>

RemoteNext ==
  \/ Resume \/ Start \/ StartByHand \/ Drop \/ Exit \/ ClientStep
  \/ \E o \in Objects : ConnectToServer(o) \/ ObjectStep(o) \/ Call(o) \/ Disconnect(o)
  \/ \E s \in Servers : Served(Listen(s) \/ ProcessStep(s))
  \/ \E c \in Sockets : Served(SocketStep(c))
  \/ Tick \/ ServerDies \/ ClientDies

\* Processes and threads run and time goes by; nothing is promised of the user.
RemoteFairness ==
  /\ WF_remoteVars(ClientStep) /\ WF_remoteVars(Tick)
  /\ \A o \in Objects : WF_remoteVars(ObjectStep(o))
  /\ \A s \in Servers :
       WF_remoteVars(Served(Listen(s))) /\ WF_remoteVars(Served(ProcessStep(s)))
  /\ \A c \in Sockets : WF_remoteVars(Served(SocketStep(c)))

RemoteSpec == RemoteInit /\ [][RemoteNext]_remoteVars /\ RemoteFairness

-----------------------------------------------------------------------------
(* Properties                                                              *)

\* While admin rights are active a server accepts connections: neither the
\* watchdog nor the end of another server gets ahead of the client. A server that
\* comes too late or is killed spoils that for good, since m_serverStarted stays.
ActiveIsServed ==
  active /\ client = "idle" /\ ~late /\ ~killed =>
    CanConnect /\ process[name] = "running" /\ acceptor[name] = "serving"

\* No server is left behind when the program is gone, however it went and however
\* late the server came, and no call waits for ever for its answer.
EveryServerAndCallEnds ==
  /\ ~Alive ~> \A s \in Servers : process[s] \in {"none", "gone"}
  /\ \A c \in Sockets : request[c] # "none" ~> request[c] = "none"

\* "Tries to gain admin rights. On success, it returns true"
\* (packagemanagercore.cpp:3258): where nobody kills a server, admin rights that are
\* active are those of a server which can be reached.
GainedIsServed ==
  active /\ client = "idle" /\ ~killed => CanConnect
=============================================================================
