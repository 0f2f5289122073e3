------------------------------ MODULE AppServer ------------------------------
(***************************************************************************)
(* How a wrapper process gets its codex app-server: the start request with *)
(* the handlers it registers (Bridge.Init), ensureAppServer, the port, the *)
(* spawn, the polling for a connection with its handshake                  *)
(* (AppServer.Start), the authentication, the thread the start then mints, *)
(* and the ends of a wrapper, which leave its server running.  Several     *)
(* wrappers share one host: a connection goes to whichever server listens  *)
(* on the port.                                                            *)
(*                                                                         *)
(* A server is external: it boots, binds its port or exits because another *)
(* server has it, answers the handshake or not, and may die at any time.   *)
(* A wrapper's starts are numbered; the number also stands for the         *)
(* Translator the start makes and for the thread it mints.                 *)
(***************************************************************************)
EXTENDS Naturals, Sequences

CONSTANTS
  Wrappers,    \* wrapper processes of one host
  Ports,       \* TCP ports
  NoPort,      \* AppServer.port before it is picked (CODEX_WS_PORT = 0)
  Nobody,      \* whose server it is once its wrapper is gone
  MaxStarts,   \* bound: start requests of one process
  MaxServers   \* bound: servers ever spawned

ASSUME AppServerAssumption ==
  /\ NoPort \notin Ports /\ Nobody \notin Wrappers
  /\ MaxStarts \in Nat /\ MaxServers \in Nat

VARIABLES
  servers,     \* every codex app-server, in the order of the spawns
  left,        \* history: the ports starts that failed have left behind
  \* each wrapper process
  pc,          \* where it is
  starts,      \* start requests so far; the last one made Bridge.trans
  registered,  \* the start whose handlers AppServer's two maps hold
  port,        \* AppServer.port
  dialed,      \* the server a handshake is in progress with, or 0
  clients,     \* its open connections
  conn,        \* AppServer.client: the server, the handlers it copied and the
               \* start that made it, or NoConn
  thread,      \* Bridge.threadID: the start that minted it, or 0
  own          \* threadID of each Translator

wrapperVars == <<pc, starts, registered, port, dialed, clients, conn, thread, own>>
vars == <<servers, left, wrapperVars>>

\* The start that spawned a server is that of its wrapper with this number.
Server == [port : Ports, by : Wrappers \cup {Nobody}, start : 1..MaxStarts,
           state : {"booting", "listening", "exited"}]

NoConn == [server |-> 0, trans |-> 0, start |-> 0]

Phases == {"idle", "starting", "polling", "handshake", "auth", "minting"}

TypeOK ==
  /\ servers \in Seq(Server)
  /\ left \subseteq Ports
  /\ pc \in [Wrappers -> Phases]
  /\ starts \in [Wrappers -> 0..MaxStarts]
  /\ registered \in [Wrappers -> 0..MaxStarts]
  /\ port \in [Wrappers -> Ports \cup {NoPort}]
  /\ dialed \in [Wrappers -> 0..MaxServers]
  /\ clients \in [Wrappers -> Nat]
  /\ conn \in [Wrappers ->
       [server : 0..MaxServers, trans : 0..MaxStarts, start : 0..MaxStarts]]
  /\ thread \in [Wrappers -> 0..MaxStarts]
  /\ own \in [Wrappers -> [1..MaxStarts -> 0..MaxStarts]]

Init ==
  /\ servers = <<>> /\ left = {}
  /\ pc = [w \in Wrappers |-> "idle"]
  /\ starts = [w \in Wrappers |-> 0]
  /\ registered = [w \in Wrappers |-> 0]
  /\ port = [w \in Wrappers |-> NoPort]
  /\ dialed = [w \in Wrappers |-> 0]
  /\ clients = [w \in Wrappers |-> 0]
  /\ conn = [w \in Wrappers |-> NoConn]
  /\ thread = [w \in Wrappers |-> 0]
  /\ own = [w \in Wrappers |-> [n \in 1..MaxStarts |-> 0]]

Listening(i) == servers[i].state = "listening"

Go(w, place) == pc' = [pc EXCEPT ![w] = place]

-----------------------------------------------------------------------------
(* A start request. *)

\* A bug: the maps keep the handlers that were registered first.
RegisterOnce(w) == IF registered[w] = 0 THEN starts[w] + 1 ELSE registered[w]

\* Init makes a Translator and registers its handlers, replacing the former ones.
Register(w) == starts[w] + 1

\* ensureAppServer returns at once when b.codex is set: it has connected before.
StartRequest(w) ==
  /\ pc[w] = "idle" /\ starts[w] < MaxStarts
  /\ starts' = [starts EXCEPT ![w] = @ + 1]
  /\ registered' = [registered EXCEPT ![w] = Register(w)]
  /\ Go(w, IF conn[w] = NoConn THEN "starting" ELSE "minting")
  /\ UNCHANGED <<servers, left, port, dialed, clients, conn, thread, own>>

\* state.db is refused: the Translator is made, its handlers are not registered.
InitFails(w) ==
  /\ pc[w] = "idle" /\ starts[w] < MaxStarts
  /\ starts' = [starts EXCEPT ![w] = @ + 1]
  /\ UNCHANGED <<servers, left, pc, registered, port, dialed, clients, conn, thread, own>>

-----------------------------------------------------------------------------
(* AppServer.Start. *)

\* The ports a server listens on, and those a start in progress has just picked.
Taken ==
  {servers[i].port : i \in {j \in DOMAIN servers : Listening(j)}}
    \cup {port[w] : w \in {v \in Wrappers : pc[v] \in {"polling", "handshake"}}}

\* A bug: one hardcoded port for every wrapper.
HardcodedPort == {CHOOSE p \in Ports : TRUE}

\* The kernel gives any port that is free, and, as pickFreePort assumes, not one it
\* gave a moment ago.  What a start that failed picked may be given again.
PickFreePort == Ports \ Taken

\* AppServer.port once Start has looked at it.
PortAfter(w, p) == IF port[w] = NoPort THEN p ELSE port[w]

Spawn(w) ==
  /\ pc[w] = "starting" /\ Len(servers) < MaxServers
  /\ \E p \in IF port[w] = NoPort THEN PickFreePort ELSE {port[w]} :
       /\ port' = [port EXCEPT ![w] = PortAfter(w, p)]
       /\ servers' = Append(servers, [port |-> port'[w], by |-> w, start |-> starts[w],
                                       state |-> "booting"])
  /\ Go(w, "polling")
  /\ UNCHANGED <<left, starts, registered, dialed, clients, conn, thread, own>>

\* A start of w that fails, or dies with its process, leaves its port behind: a server
\* it spawned may still bind it, and w keeps it for its next start.
LeaveBehind(p) == left' = left \cup ({p} \cap Ports)

\* No port, no codex binary, or a configuration that is refused; a port that was
\* picked stays.
SpawnFails(w) ==
  /\ pc[w] = "starting"
  /\ port' \in {port} \cup {[port EXCEPT ![w] = PortAfter(w, p)] : p \in PickFreePort}
  /\ LeaveBehind(port'[w])
  /\ Go(w, "idle")
  /\ UNCHANGED <<servers, starts, registered, dialed, clients, conn, thread, own>>

\* connect: dial whoever listens on the port, start ReadPump, call initialize.
Dial(w) ==
  /\ pc[w] = "polling"
  /\ \E i \in DOMAIN servers :
       /\ servers[i].port = port[w] /\ Listening(i)
       /\ dialed' = [dialed EXCEPT ![w] = i]
  /\ clients' = [clients EXCEPT ![w] = @ + 1]
  /\ Go(w, "handshake")
  /\ UNCHANGED <<servers, left, starts, registered, port, conn, thread, own>>

\* The handlers are those the maps held at the dial; nothing replaces them later.
Connected(w) ==
  /\ pc[w] = "handshake" /\ Listening(dialed[w])
  /\ conn' = [conn EXCEPT ![w] = [server |-> dialed[w], trans |-> registered[w],
                                  start |-> starts[w]]]
  /\ dialed' = [dialed EXCEPT ![w] = 0]
  /\ Go(w, "auth")
  /\ UNCHANGED <<servers, left, starts, registered, port, clients, thread, own>>

\* A bug: a client whose handshake failed is not closed.
ClientsStillOpen(w) == clients[w]

ClientsAfterClose(w) == clients[w] - 1

\* A bug: initialize is called without a deadline.
HandshakeEndsWithServer(w) == ~Listening(dialed[w])

\* initialize has five seconds: it may fail whatever the server does.
HandshakeEnds(w) == TRUE

HandshakeFails(w) ==
  /\ pc[w] = "handshake"
  /\ HandshakeEnds(w)
  /\ clients' = [clients EXCEPT ![w] = ClientsAfterClose(w)]
  /\ dialed' = [dialed EXCEPT ![w] = 0]
  /\ Go(w, "polling")
  /\ UNCHANGED <<servers, left, starts, registered, port, conn, thread, own>>

\* Fifteen seconds, or SIGTERM: the server and the port stay as they are.
GiveUp(w) ==
  /\ pc[w] = "polling"
  /\ LeaveBehind(port[w])
  /\ Go(w, "idle")
  /\ UNCHANGED <<servers, starts, registered, port, dialed, clients, conn, thread, own>>

-----------------------------------------------------------------------------
(* The rest of the start, and the ends of a wrapper. *)

\* initAuth: nothing is stored, the server answers, or its connection ends.  What it
\* answers makes no difference, and nothing else ends the wait: the calls have no
\* deadline.
AuthEnds(w) ==
  /\ pc[w] = "auth"
  /\ Go(w, "minting")
  /\ UNCHANGED <<servers, left, starts, registered, port, dialed, clients, conn, thread, own>>

\* recordChain, b.threadID and SetSessionID on the Translator of this start.
Mint(w) ==
  /\ pc[w] = "minting" /\ Listening(conn[w].server)
  /\ thread' = [thread EXCEPT ![w] = starts[w]]
  /\ own' = [own EXCEPT ![w][starts[w]] = starts[w]]
  /\ Go(w, "idle")
  /\ UNCHANGED <<servers, left, starts, registered, port, dialed, clients, conn>>

MintFails(w) ==
  /\ pc[w] = "minting"
  /\ Go(w, "idle")
  /\ UNCHANGED <<servers, left, starts, registered, port, dialed, clients, conn, thread, own>>

\* A crash, a kill, or Shutdown, which closes the client only: in each case the
\* server runs on.  The next process of the session starts from nothing.
Exit(w) ==
  /\ IF pc[w] \in {"starting", "polling", "handshake"} THEN LeaveBehind(port[w])
     ELSE UNCHANGED left
  /\ servers' = [i \in DOMAIN servers |->
                   IF servers[i].by = w THEN [servers[i] EXCEPT !.by = Nobody]
                   ELSE servers[i]]
  /\ Go(w, "idle")
  /\ starts' = [starts EXCEPT ![w] = 0]
  /\ registered' = [registered EXCEPT ![w] = 0]
  /\ port' = [port EXCEPT ![w] = NoPort]
  /\ dialed' = [dialed EXCEPT ![w] = 0]
  /\ clients' = [clients EXCEPT ![w] = 0]
  /\ conn' = [conn EXCEPT ![w] = NoConn]
  /\ thread' = [thread EXCEPT ![w] = 0]
  /\ own' = [own EXCEPT ![w] = [n \in 1..MaxStarts |-> 0]]

-----------------------------------------------------------------------------
(* The servers. *)

Become(i, state) ==
  /\ servers' = [servers EXCEPT ![i].state = state]
  /\ UNCHANGED <<left, wrapperVars>>

PortTaken(i) ==
  \E j \in DOMAIN servers : servers[j].port = servers[i].port /\ Listening(j)

Bind(i) ==
  /\ servers[i].state = "booting" /\ ~PortTaken(i)
  /\ Become(i, "listening")

ServerExits(i) ==
  /\ servers[i].state # "exited"
  /\ Become(i, "exited")

-----------------------------------------------------------------------------
StartStep(w) ==
  \/ Spawn(w) \/ SpawnFails(w)
  \/ Dial(w) \/ Connected(w) \/ HandshakeFails(w) \/ GiveUp(w)
  \/ AuthEnds(w) \/ Mint(w) \/ MintFails(w)

Next ==
  \/ \E w \in Wrappers : StartRequest(w) \/ InitFails(w) \/ StartStep(w) \/ Exit(w)
  \/ \E i \in DOMAIN servers : Bind(i) \/ ServerExits(i)

Spec == Init /\ [][Next]_vars

\* ReadPump ends with the connection, and every call returns then.
ConnectionLost(w) ==
  (AuthEnds(w) \/ MintFails(w)) /\ ~Listening(conn[w].server)

\* The process is scheduled and time passes: the handshake's five seconds, and
\* the fifteen of the polling, however many handshakes failed in between.  No
\* server has to answer.
FairSpec ==
  /\ Spec
  /\ \A w \in Wrappers :
       /\ WF_vars(Spawn(w) \/ SpawnFails(w))
       /\ WF_vars(HandshakeFails(w))
       /\ SF_vars(GiveUp(w))
       /\ WF_vars(ConnectionLost(w))

-----------------------------------------------------------------------------
(* Properties. *)

\* A wrapper talks to the server the very start that connected has spawned, with
\* the arguments of that start, never to that of another session, of an earlier
\* process or of an earlier start ("concurrent codex sessions on the same host
\* don't collide", "always spawns fresh"), although ports are given again: unless
\* it is over a port a failed start has left behind.
ConnectsToOwnServer ==
  \A w \in Wrappers :
    conn[w] # NoConn =>
      LET server == servers[conn[w].server] IN
        \/ server.by = w /\ server.start = conn[w].start
        \/ server.port \in left

\* What codex says of a thread reaches the Translator that has that thread for
\* its own, when the start that minted it is the one that connected: starts that
\* failed before it leave no handlers behind (Init, connect).
RetriedStartReports ==
  \A w \in Wrappers :
    thread[w] # 0 /\ thread[w] = conn[w].start =>
      own[w][conn[w].trans] = thread[w]

\* One connection per wrapper: however many handshakes failed, no second ReadPump
\* is left that would run the handlers twice (connect closes the client).
OneConnection ==
  \A w \in Wrappers :
    clients[w] = IF conn[w] # NoConn \/ dialed[w] # 0 THEN 1 ELSE 0

\* A start request ends, whatever its server does in the spawn, the handshake and
\* after it, except that a server that lives on and stays silent holds it in the
\* authentication or in thread/start, which have no deadline.
StartEnds ==
  \A w \in Wrappers :
    \/ []<>(pc[w] = "idle")
    \/ <>[](pc[w] \in {"auth", "minting"} /\ Listening(conn[w].server))

-----------------------------------------------------------------------------
(* What the README says and the code does not do. *)

\* "Resetting per start works": after any start that minted a thread, the handlers
\* the connection runs are not those of a Translator that has another thread for
\* its own, and so drops what codex says of this one.
CurrentThreadHeard ==
  \A w \in Wrappers :
    pc[w] = "idle" /\ thread[w] # 0 => own[w][conn[w].trans] \in {0, thread[w]}
=============================================================================
