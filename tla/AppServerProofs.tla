--------------------------- MODULE AppServerProofs ---------------------------
(***************************************************************************)
(* Theorems about AppServer, for every number of wrappers, ports, starts   *)
(* and servers.                                                            *)
(***************************************************************************)
EXTENDS AppServer, SequenceTheorems, TLAPS

\* Where a wrapper is tells which connections it has: a client of its own is
\* open in a handshake and after one that succeeded, and then only.
Places ==
  /\ Len(servers) <= MaxServers
  /\ \A w \in Wrappers :
       /\ dialed[w] # 0 <=> pc[w] = "handshake"
       /\ pc[w] \in {"starting", "polling", "handshake"} => conn[w] = NoConn
       /\ pc[w] \in {"auth", "minting"} => conn[w] # NoConn
       /\ pc[w] # "idle" => starts[w] # 0
       /\ conn[w].server = 0 => conn[w] = NoConn

PlaceInv == TypeOK /\ Places /\ OneConnection

\* The start of w is between the pick of its port and its end.
InProgress(w) == pc[w] \in {"polling", "handshake"}

SpawnedBy(w, i) == servers[i].by = w /\ servers[i].start = starts[w]

\* A port no failed start left behind belongs to the start in progress that picked
\* it, if there is one: every living server on it is the one this start spawned.
\* And a server that boots on such a port has its start in progress.
PrivatePorts ==
  /\ \A w \in Wrappers : InProgress(w) /\ port[w] \notin left =>
       \A i \in DOMAIN servers :
         servers[i].port = port[w] /\ servers[i].state # "exited" => SpawnedBy(w, i)
  /\ \A i \in DOMAIN servers : servers[i].state = "booting" =>
       \/ servers[i].port \in left
       \/ \E w \in Wrappers : InProgress(w) /\ port[w] = servers[i].port

\* Between the pick and the end of a start no other one has its port, and a wrapper
\* that may start a server has no port yet or one that was left behind.
PickedPorts ==
  /\ \A w \in Wrappers : InProgress(w) => port[w] \in Ports
  /\ \A v, w \in Wrappers :
       InProgress(v) /\ InProgress(w) /\ port[v] = port[w] => v = w \/ port[w] \in left
  /\ \A w \in Wrappers :
       pc[w] \in {"idle", "starting"} /\ conn[w] = NoConn => port[w] \in left \cup {NoPort}

\* So the server a wrapper dialed is that of its start, before the handshake and
\* after.
OwnServers ==
  \A w \in Wrappers :
    /\ dialed[w] # 0 =>
         /\ dialed[w] \in DOMAIN servers /\ servers[dialed[w]].port = port[w]
         /\ (SpawnedBy(w, dialed[w]) \/ servers[dialed[w]].port \in left)
    /\ conn[w].server # 0 =>
         /\ conn[w].server \in DOMAIN servers
         /\ \/ /\ servers[conn[w].server].by = w
               /\ servers[conn[w].server].start = conn[w].start
            \/ servers[conn[w].server].port \in left

\* A start spawns one server.
SpawnOrder ==
  /\ \A w \in Wrappers, i \in DOMAIN servers : servers[i].by = w =>
       servers[i].start <= starts[w] /\ (pc[w] = "starting" => servers[i].start < starts[w])
  /\ \A w \in Wrappers, i, j \in DOMAIN servers :
       servers[i].by = w /\ servers[j].by = w /\ servers[i].start = servers[j].start => i = j

PortInv == PrivatePorts /\ PickedPorts /\ SpawnOrder /\ OwnServers

\* The handlers in the maps are those of the start in progress, so a connection
\* has those of the start that made it, and a minted thread is known to the
\* Translator of its start.
OwnHandlers ==
  \A w \in Wrappers :
    /\ pc[w] # "idle" => registered[w] = starts[w] /\ starts[w] # 0
    /\ conn[w].trans = conn[w].start
    /\ thread[w] # 0 => own[w][thread[w]] = thread[w]

LEMMA ServerDomain == TypeOK => DOMAIN servers = 1..Len(servers) /\ Len(servers) \in Nat
BY DEF TypeOK

-----------------------------------------------------------------------------
(* Type correctness and the one connection. *)

LEMMA PlaceInit == Init => PlaceInv
BY AppServerAssumption
   DEF Init, PlaceInv, TypeOK, Phases, Places, OneConnection, NoConn

LEMMA RequestPlace ==
  ASSUME PlaceInv, NEW w \in Wrappers,
         \/ StartRequest(w) \/ InitFails(w) \/ GiveUp(w)
         \/ AuthEnds(w) \/ Mint(w) \/ MintFails(w)
  PROVE  PlaceInv'
<1> USE AppServerAssumption DEF PlaceInv, Go, Phases
<1>1. CASE StartRequest(w)
  <2>1. starts[w] + 1 \in 0..MaxStarts
    BY <1>1 DEF StartRequest, TypeOK
  <2>2. TypeOK'
    BY <1>1, <2>1 DEF StartRequest, Register, TypeOK
  <2>5. starts'[w] # 0
    BY <1>1 DEF StartRequest, TypeOK
  <2>3. Places' /\ OneConnection'
    BY <1>1, <2>5 DEF StartRequest, TypeOK, Places, OneConnection
  <2>4. QED BY <2>2, <2>3
<1>2. CASE InitFails(w)
  <2>1. starts[w] + 1 \in 0..MaxStarts
    <3>1. starts[w] \in 0..MaxStarts /\ starts[w] < MaxStarts
      BY <1>2 DEF InitFails, TypeOK
    <3>2. QED BY <3>1
  <2>2. TypeOK'
    BY <1>2, <2>1 DEF InitFails, TypeOK
  <2>3. Places' /\ OneConnection'
    BY <1>2 DEF InitFails, TypeOK, Places, OneConnection
  <2>4. QED BY <2>2, <2>3
<1>3. CASE GiveUp(w)
  <2>1. port[w] \in Ports \cup {NoPort} /\ left' \subseteq Ports
    BY <1>3 DEF GiveUp, LeaveBehind, TypeOK
  <2>2. QED BY <1>3, <2>1 DEF GiveUp, TypeOK, Places, OneConnection, NoConn
<1>4. CASE Mint(w)
  BY <1>4 DEF Mint, TypeOK, Places, OneConnection, NoConn
<1>5. CASE MintFails(w)
  BY <1>5 DEF MintFails, TypeOK, Places, OneConnection, NoConn
<1>6. CASE AuthEnds(w)
  BY <1>6 DEF AuthEnds, TypeOK, Places, OneConnection, NoConn
<1>7. QED BY <1>1, <1>2, <1>3, <1>4, <1>5, <1>6

LEMMA SpawnPlace ==
  ASSUME PlaceInv, NEW w \in Wrappers, Spawn(w) \/ SpawnFails(w)
  PROVE  PlaceInv'
<1> USE AppServerAssumption DEF PlaceInv, Go, Phases
<1>1. CASE Spawn(w)
  <2>1. PICK p \in Ports :
          /\ port' = [port EXCEPT ![w] = p]
          /\ servers' = Append(servers, [port |-> p, by |-> w, start |-> starts[w], state |-> "booting"])
    BY <1>1 DEF Spawn, PickFreePort, PortAfter, TypeOK
  <2>2. /\ servers' \in Seq(Server)
        /\ Len(servers') = Len(servers) + 1
    <3>1. [port |-> p, by |-> w, start |-> starts[w], state |-> "booting"] \in Server
      BY <1>1 DEF Spawn, Server, Places, TypeOK
    <3>2. servers \in Seq(Server)
      BY DEF TypeOK
    <3>3. QED BY <2>1, <3>1, <3>2, AppendProperties
  <2>3. TypeOK'
    BY <1>1, <2>1, <2>2 DEF Spawn, TypeOK
  <2>4. Places' /\ OneConnection'
    <3>1. Len(servers') <= MaxServers
      BY <1>1, <2>2, ServerDomain DEF Spawn
    <3>2. UNCHANGED <<dialed, clients, conn, starts>>
      BY <1>1 DEF Spawn
    <3>3. \A v \in Wrappers :
            pc'[v] # pc[v] => v = w /\ pc[w] = "starting" /\ pc'[w] = "polling"
      BY <1>1 DEF Spawn, TypeOK
    <3>4. QED BY <3>1, <3>2, <3>3 DEF Places, OneConnection
  <2>5. QED BY <2>3, <2>4
<1>2. CASE SpawnFails(w)
  <2>1. port' \in [Wrappers -> Ports \cup {NoPort}]
    <3>1. \A p \in PickFreePort : PortAfter(w, p) \in Ports \cup {NoPort}
      BY DEF PickFreePort, PortAfter, TypeOK
    <3>2. port \in [Wrappers -> Ports \cup {NoPort}]
      BY DEF TypeOK
    <3>3. QED BY <1>2, <3>1, <3>2 DEF SpawnFails
  <2>2. left' \subseteq Ports
    BY <1>2 DEF SpawnFails, LeaveBehind, TypeOK
  <2>3. QED
    BY <1>2, <2>1, <2>2 DEF SpawnFails, TypeOK, Places, OneConnection, NoConn
<1>3. QED BY <1>1, <1>2

LEMMA ConnectPlace ==
  ASSUME PlaceInv, NEW w \in Wrappers, Dial(w) \/ Connected(w) \/ HandshakeFails(w)
  PROVE  PlaceInv'
<1> USE AppServerAssumption DEF PlaceInv, Go, Phases
<1>1. CASE Dial(w)
  <2>1. PICK i \in DOMAIN servers : dialed' = [dialed EXCEPT ![w] = i]
    BY <1>1 DEF Dial
  <2>5. i \in 1..MaxServers
    BY ServerDomain DEF Places
  <2>2. clients[w] = 0
    BY <1>1 DEF Dial, Places, OneConnection
  <2>3. TypeOK'
    <3>1. /\ dialed' \in [Wrappers -> 0..MaxServers]
          /\ clients' \in [Wrappers -> Nat]
      BY <1>1, <2>1, <2>5 DEF Dial, TypeOK
    <3>2. pc' \in [Wrappers -> Phases]
      BY <1>1 DEF Dial, TypeOK
    <3>3. QED BY <1>1, <3>1, <3>2 DEF Dial, TypeOK
  <2>4. Places' /\ OneConnection'
    <3>1. UNCHANGED <<servers, conn, starts>> /\ pc[w] = "polling"
      BY <1>1 DEF Dial
    <3>2. /\ pc'[w] = "handshake" /\ dialed'[w] = i /\ clients'[w] = 1
          /\ \A v \in Wrappers \ {w} :
               pc'[v] = pc[v] /\ dialed'[v] = dialed[v] /\ clients'[v] = clients[v]
      BY <1>1, <2>1, <2>2 DEF Dial, TypeOK
    <3>3. QED BY <2>5, <3>1, <3>2 DEF Places, OneConnection
  <2>6. QED BY <2>3, <2>4
<1>2. CASE Connected(w)
  <2>1. dialed[w] \in 1..MaxServers /\ clients[w] = 1
    BY <1>2 DEF Connected, TypeOK, Places, OneConnection
  <2>2. TypeOK'
    <3>1. conn' \in [Wrappers ->
            [server : 0..MaxServers, trans : 0..MaxStarts, start : 0..MaxStarts]]
      BY <1>2, <2>1 DEF Connected, TypeOK
    <3>2. /\ pc' \in [Wrappers -> Phases]
          /\ dialed' \in [Wrappers -> 0..MaxServers]
      BY <1>2 DEF Connected, TypeOK
    <3>3. QED BY <1>2, <3>1, <3>2 DEF Connected, TypeOK
  <2>3. conn'[w].server = dialed[w] /\ conn'[w] # NoConn
    BY <1>2, <2>1 DEF Connected, TypeOK, NoConn
  <2>4. Places' /\ OneConnection'
    BY <1>2, <2>1, <2>3 DEF Connected, TypeOK, Places, OneConnection
  <2>5. QED BY <2>2, <2>4
<1>3. CASE HandshakeFails(w)
  <2>1. clients[w] = 1
    BY <1>3 DEF HandshakeFails, Places, OneConnection
  <2>2. clients'[w] = 0 /\ clients' \in [Wrappers -> Nat]
    BY <1>3, <2>1 DEF HandshakeFails, ClientsAfterClose, TypeOK
  <2>3. TypeOK'
    <3>1. /\ pc' \in [Wrappers -> Phases]
          /\ dialed' \in [Wrappers -> 0..MaxServers]
      BY <1>3 DEF HandshakeFails, TypeOK
    <3>2. QED BY <1>3, <2>2, <3>1 DEF HandshakeFails, TypeOK
  <2>4. Places' /\ OneConnection'
    BY <1>3, <2>1, <2>2
       DEF HandshakeFails, ClientsAfterClose, TypeOK, Places, OneConnection
  <2>5. QED BY <2>3, <2>4
<1>4. QED BY <1>1, <1>2, <1>3

\* Leaving the servers of w to nobody changes nothing but whose they are.
LEMMA Orphaned ==
  ASSUME TypeOK, NEW w \in Wrappers, Exit(w)
  PROVE  /\ servers' \in Seq(Server)
         /\ Len(servers') = Len(servers) /\ DOMAIN servers' = DOMAIN servers
         /\ \A i \in DOMAIN servers :
              /\ servers'[i].port = servers[i].port
              /\ servers'[i].start = servers[i].start
              /\ servers'[i].state = servers[i].state
              /\ servers[i].by # w => servers'[i].by = servers[i].by
<1> DEFINE orphaned(i) == IF servers[i].by = w THEN [servers[i] EXCEPT !.by = Nobody]
                         ELSE servers[i]
<1>1. servers \in Seq(Server) /\ servers' = [i \in 1..Len(servers) |-> orphaned(i)]
  BY ServerDomain DEF TypeOK, Exit
<1>2. \A i \in 1..Len(servers) : servers[i] \in Server /\ orphaned(i) \in Server
  <2>1. \A i \in 1..Len(servers) : servers[i] \in Server
    BY <1>1
  <2>2. QED BY <2>1 DEF Server
<1>3. servers' \in Seq(Server) /\ Len(servers') = Len(servers)
  BY <1>1, <1>2, IsASeq
<1>4. DOMAIN servers' = DOMAIN servers
  BY <1>1
<1>5. \A i \in DOMAIN servers :
        /\ servers'[i].port = servers[i].port
        /\ servers'[i].start = servers[i].start
        /\ servers'[i].state = servers[i].state
        /\ servers[i].by # w => servers'[i].by = servers[i].by
  BY <1>1, <1>2 DEF Server
<1>6. QED BY <1>3, <1>4, <1>5

LEMMA ExitPlace ==
  ASSUME PlaceInv, NEW w \in Wrappers, Exit(w)
  PROVE  PlaceInv'
<1> USE AppServerAssumption DEF PlaceInv, Go, Phases
<1>1. TypeOK'
  <2>1. [n \in 1..MaxStarts |-> 0] \in [1..MaxStarts -> 0..MaxStarts]
    OBVIOUS
  <2>2. servers' \in Seq(Server)
    BY Orphaned
  <2>3. /\ starts' \in [Wrappers -> 0..MaxStarts]
        /\ registered' \in [Wrappers -> 0..MaxStarts]
        /\ thread' \in [Wrappers -> 0..MaxStarts]
        /\ own' \in [Wrappers -> [1..MaxStarts -> 0..MaxStarts]]
    BY <2>1 DEF Exit, TypeOK
  <2>4. /\ pc' \in [Wrappers -> Phases]
        /\ left' \subseteq Ports
        /\ port' \in [Wrappers -> Ports \cup {NoPort}]
        /\ dialed' \in [Wrappers -> 0..MaxServers]
        /\ clients' \in [Wrappers -> Nat]
    BY DEF Exit, LeaveBehind, TypeOK
  <2>5. conn' \in [Wrappers ->
          [server : 0..MaxServers, trans : 0..MaxStarts, start : 0..MaxStarts]]
    BY DEF Exit, TypeOK, NoConn
  <2>6. QED BY <2>2, <2>3, <2>4, <2>5 DEF TypeOK
<1>2. Places' /\ OneConnection'
  BY Orphaned DEF Exit, TypeOK, Places, OneConnection, NoConn
<1>3. QED BY <1>1, <1>2

\* What a server does changes its state only.
LEMMA ServerStep ==
  ASSUME TypeOK, NEW i \in DOMAIN servers, Bind(i) \/ ServerExits(i)
  PROVE  /\ servers' \in Seq(Server)
         /\ Len(servers') = Len(servers) /\ DOMAIN servers' = DOMAIN servers
         /\ \A j \in DOMAIN servers :
              /\ servers'[j].port = servers[j].port /\ servers'[j].by = servers[j].by
              /\ servers'[j].start = servers[j].start
              /\ servers'[j].state # servers[j].state =>
                   j = i /\ servers'[j].state \in {"listening", "exited"}
                   /\ (servers'[j].state = "listening" => servers[j].state = "booting")
         /\ UNCHANGED <<left, wrapperVars>>
<1>1. PICK s \in {"listening", "exited"} :
        /\ servers' = [servers EXCEPT ![i].state = s]
        /\ s = "listening" => servers[i].state = "booting"
  BY DEF Bind, ServerExits, Become
<1>2. servers \in Seq(Server) /\ i \in 1..Len(servers) /\ servers[i] \in Server
  BY ServerDomain DEF TypeOK
<1>3. [servers[i] EXCEPT !.state = s] \in Server
  BY <1>2 DEF Server
<1>4. servers' = [servers EXCEPT ![i] = [servers[i] EXCEPT !.state = s]]
  BY <1>1
<1>5. servers' \in Seq(Server) /\ Len(servers') = Len(servers)
  BY <1>2, <1>3, <1>4, ExceptSeq
<1>6. DOMAIN servers' = DOMAIN servers
  BY <1>1
<1>7. \A j \in DOMAIN servers :
        /\ servers'[j].port = servers[j].port /\ servers'[j].by = servers[j].by
        /\ servers'[j].start = servers[j].start
        /\ servers'[j].state # servers[j].state =>
             j = i /\ servers'[j].state \in {"listening", "exited"}
             /\ (servers'[j].state = "listening" => servers[j].state = "booting")
  BY <1>1, <1>2, <1>4, ServerDomain DEF Server
<1>8. UNCHANGED <<left, wrapperVars>>
  BY DEF Bind, ServerExits, Become
<1>9. QED BY <1>5, <1>6, <1>7, <1>8

LEMMA ServerPlace ==
  ASSUME PlaceInv, NEW i \in DOMAIN servers, Bind(i) \/ ServerExits(i)
  PROVE  PlaceInv'
<1>1. /\ servers' \in Seq(Server) /\ Len(servers') = Len(servers)
      /\ UNCHANGED <<left, wrapperVars>>
  BY ServerStep DEF PlaceInv
<1>2. TypeOK' /\ Places' /\ OneConnection'
  BY <1>1 DEF PlaceInv, TypeOK, Places, OneConnection, NoConn, wrapperVars
<1>3. QED BY <1>2 DEF PlaceInv

LEMMA PlaceNext == PlaceInv /\ [Next]_vars => PlaceInv'
<1> SUFFICES ASSUME PlaceInv, [Next]_vars PROVE PlaceInv'
  OBVIOUS
<1>1. ASSUME NEW w \in Wrappers, StartRequest(w) \/ InitFails(w) PROVE PlaceInv'
  BY <1>1, RequestPlace
<1>2. ASSUME NEW w \in Wrappers, StartStep(w) PROVE PlaceInv'
  BY <1>2, RequestPlace, SpawnPlace, ConnectPlace DEF StartStep
<1>3. ASSUME NEW w \in Wrappers, Exit(w) PROVE PlaceInv'
  BY <1>3, ExitPlace
<1>4. ASSUME NEW i \in DOMAIN servers, Bind(i) \/ ServerExits(i) PROVE PlaceInv'
  BY <1>4, ServerPlace
<1>5. CASE UNCHANGED vars
  BY <1>5 DEF PlaceInv, TypeOK, Places, OneConnection, vars, wrapperVars
<1>6. QED BY <1>1, <1>2, <1>3, <1>4, <1>5 DEF Next

LEMMA PlaceAlways == Spec => []PlaceInv
BY PlaceInit, PlaceNext, PTL DEF Spec

\* Every reachable state of AppServer is of its type.
THEOREM TypeCorrect == Spec => []TypeOK
<1>1. PlaceInv => TypeOK
  BY DEF PlaceInv
<1>2. QED BY <1>1, PlaceAlways, PTL

\* A wrapper never has two connections, nor one left over from a handshake that
\* failed, through any starts, failures, exits and deaths of servers (connect).
THEOREM OneConnectionAlways == Spec => []OneConnection
<1>1. PlaceInv => OneConnection
  BY DEF PlaceInv
<1>2. QED BY <1>1, PlaceAlways, PTL
-----------------------------------------------------------------------------
(* Whose server a wrapper reaches. *)

LEMMA PortInit == Init => PortInv
BY DEF Init, PortInv, PrivatePorts, PickedPorts, SpawnOrder, OwnServers, InProgress, NoConn

\* A step that only moves w outside the starts in progress, or takes it out of one
\* and leaves its port behind.
LEMMA PortKept ==
  ASSUME PlaceInv, TypeOK', PortInv, NEW w \in Wrappers,
         UNCHANGED <<servers, port, conn>>, left \subseteq left',
         \A v \in Wrappers \ {w} :
           pc'[v] = pc[v] /\ starts'[v] = starts[v] /\ dialed'[v] = dialed[v],
         InProgress(w)' => InProgress(w) /\ starts'[w] = starts[w],
         InProgress(w) => InProgress(w)' \/ port[w] \in left',
         dialed'[w] \in {0, dialed[w]},
         dialed'[w] # 0 => starts'[w] = starts[w],
         starts[w] <= starts'[w],
         pc'[w] = "starting" => starts[w] < starts'[w],
         pc'[w] \in {"idle", "starting"} /\ conn[w] = NoConn =>
           port[w] \in left' \cup {NoPort}
  PROVE  PortInv'
<1> USE DEF PortInv
<1>1. PrivatePorts'
  BY DEF PrivatePorts, InProgress, SpawnedBy
<1>2. PickedPorts'
  BY DEF PickedPorts, InProgress
<1>3. SpawnOrder'
  <2>1. \A v \in Wrappers, i \in DOMAIN servers :
          starts[v] \in Nat /\ starts'[v] \in Nat /\ servers[i].start \in Nat
    <3>1. \A i \in DOMAIN servers : servers[i] \in Server
      BY ServerDomain DEF PlaceInv, TypeOK
    <3>2. starts \in [Wrappers -> Nat] /\ starts' \in [Wrappers -> Nat]
      BY DEF PlaceInv, TypeOK
    <3>3. QED BY <3>1, <3>2 DEF Server
  <2>2. QED BY <2>1 DEF SpawnOrder
<1>4. OwnServers'
  BY DEF OwnServers, SpawnedBy
<1>5. QED BY <1>1, <1>2, <1>3, <1>4

LEMMA ServerFields ==
  ASSUME TypeOK
  PROVE  \A i \in DOMAIN servers :
           /\ servers[i] \in Server /\ servers[i].port \in Ports /\ servers[i].start \in Nat
           /\ servers[i].state \in {"booting", "listening", "exited"}
<1>1. \A i \in DOMAIN servers : servers[i] \in Server
  BY ServerDomain DEF TypeOK
<1>2. QED BY <1>1 DEF Server

LEMMA RequestPort ==
  ASSUME PlaceInv, PlaceInv', PortInv, NEW w \in Wrappers,
         \/ StartRequest(w) \/ InitFails(w)
         \/ HandshakeFails(w) \/ GiveUp(w) \/ AuthEnds(w) \/ Mint(w) \/ MintFails(w)
  PROVE  PortInv'
<1> USE AppServerAssumption DEF PlaceInv, PortInv, Go, InProgress
<1>1. starts[w] \in Nat /\ pc[w] \in Phases /\ port[w] \in Ports \cup {NoPort}
  BY DEF TypeOK
<1>2. CASE StartRequest(w)
  <2>1. /\ starts'[w] = starts[w] + 1 /\ pc'[w] \in {"starting", "minting"} /\ pc[w] = "idle"
        /\ dialed'[w] = 0 /\ left' = left
        /\ \A v \in Wrappers \ {w} :
             pc'[v] = pc[v] /\ starts'[v] = starts[v] /\ dialed'[v] = dialed[v]
        /\ UNCHANGED <<servers, port, conn>>
    BY <1>2 DEF StartRequest, TypeOK, Places
  <2>2. pc'[w] = "starting" /\ conn[w] = NoConn => port[w] \in left \cup {NoPort}
    BY <2>1 DEF PickedPorts
  <2>3. QED BY <1>1, <2>1, <2>2, PortKept
<1>3. CASE InitFails(w)
  <2>1. /\ starts'[w] = starts[w] + 1 /\ pc'[w] = "idle" /\ pc[w] = "idle"
        /\ dialed'[w] = 0 /\ left' = left
        /\ \A v \in Wrappers \ {w} :
             pc'[v] = pc[v] /\ starts'[v] = starts[v] /\ dialed'[v] = dialed[v]
        /\ UNCHANGED <<servers, port, conn>>
    BY <1>3 DEF InitFails, TypeOK, Places
  <2>2. conn[w] = NoConn => port[w] \in left \cup {NoPort}
    BY <2>1 DEF PickedPorts
  <2>3. QED BY <1>1, <2>1, <2>2, PortKept
<1>4. CASE HandshakeFails(w)
  <2>1. /\ starts'[w] = starts[w] /\ pc'[w] = "polling" /\ pc[w] = "handshake"
        /\ dialed'[w] = 0 /\ left' = left
        /\ \A v \in Wrappers \ {w} :
             pc'[v] = pc[v] /\ starts'[v] = starts[v] /\ dialed'[v] = dialed[v]
        /\ UNCHANGED <<servers, port, conn>>
    BY <1>4 DEF HandshakeFails, TypeOK
  <2>2. QED BY <1>1, <2>1, PortKept
<1>5. CASE GiveUp(w)
  <2>1. /\ starts'[w] = starts[w] /\ pc'[w] = "idle" /\ pc[w] = "polling"
        /\ dialed'[w] = dialed[w] /\ left' = left \cup ({port[w]} \cap Ports)
        /\ \A v \in Wrappers \ {w} :
             pc'[v] = pc[v] /\ starts'[v] = starts[v] /\ dialed'[v] = dialed[v]
        /\ UNCHANGED <<servers, port, conn>>
    BY <1>5 DEF GiveUp, LeaveBehind, TypeOK
  <2>2. port[w] \in left'
    BY <2>1 DEF PickedPorts
  <2>3. QED BY <1>1, <2>1, <2>2, PortKept
<1>6. CASE AuthEnds(w)
  <2>1. /\ starts'[w] = starts[w] /\ pc'[w] = "minting" /\ pc[w] = "auth"
        /\ dialed'[w] = dialed[w] /\ left' = left
        /\ \A v \in Wrappers \ {w} :
             pc'[v] = pc[v] /\ starts'[v] = starts[v] /\ dialed'[v] = dialed[v]
        /\ UNCHANGED <<servers, port, conn>>
    BY <1>6 DEF AuthEnds, TypeOK
  <2>2. QED BY <1>1, <2>1, PortKept
<1>7. CASE Mint(w) \/ MintFails(w)
  <2>1. /\ starts'[w] = starts[w] /\ pc'[w] = "idle" /\ pc[w] = "minting" /\ conn[w] # NoConn
        /\ dialed'[w] = dialed[w] /\ left' = left
        /\ \A v \in Wrappers \ {w} :
             pc'[v] = pc[v] /\ starts'[v] = starts[v] /\ dialed'[v] = dialed[v]
        /\ UNCHANGED <<servers, port, conn>>
    BY <1>7 DEF Mint, MintFails, TypeOK, Places
  <2>2. QED BY <1>1, <2>1, PortKept
<1>8. QED BY <1>2, <1>3, <1>4, <1>5, <1>6, <1>7

\* A port picked now that no failed start left behind has no living server and no
\* start in progress.
LEMMA FreshPort ==
  ASSUME TypeOK, PrivatePorts, NEW p \in PickFreePort, p \notin left
  PROVE  /\ p \in Ports
         /\ \A i \in DOMAIN servers : servers[i].port = p => servers[i].state = "exited"
         /\ \A w \in Wrappers : InProgress(w) => port[w] # p
<1>1. p \in Ports /\ \A w \in Wrappers : InProgress(w) => port[w] # p
  BY DEF PickFreePort, Taken, InProgress
<1>2. ASSUME NEW i \in DOMAIN servers, servers[i].port = p
      PROVE  servers[i].state = "exited"
  <2>1. servers[i].state # "listening"
    BY <1>2 DEF PickFreePort, Taken, Listening
  <2>2. servers[i].state # "booting"
    BY <1>1, <1>2 DEF PrivatePorts
  <2>3. QED BY <2>1, <2>2, ServerFields
<1>3. QED BY <1>1, <1>2

LEMMA SpawnPort ==
  ASSUME PlaceInv, PlaceInv', PortInv, NEW w \in Wrappers, Spawn(w)
  PROVE  PortInv'
<1> USE AppServerAssumption DEF PlaceInv, PortInv
<1>1. PICK q \in Ports :
        /\ port' = [port EXCEPT ![w] = q]
        /\ servers' = Append(servers, [port |-> q, by |-> w, start |-> starts[w],
                                       state |-> "booting"])
        /\ q \in left \/ q \in PickFreePort
  <2>1. PICK p \in IF port[w] = NoPort THEN PickFreePort ELSE {port[w]} :
          /\ port' = [port EXCEPT ![w] = PortAfter(w, p)]
          /\ servers' = Append(servers, [port |-> port'[w], by |-> w,
                                         start |-> starts[w], state |-> "booting"])
    BY DEF Spawn
  <2>2. port \in [Wrappers -> Ports \cup {NoPort}]
    BY DEF TypeOK
  <2>3. CASE port[w] = NoPort
    <3>1. p \in PickFreePort /\ PortAfter(w, p) = p /\ p \in Ports
      BY <2>1, <2>3 DEF PortAfter, PickFreePort
    <3>2. QED BY <2>1, <2>2, <3>1
  <2>4. CASE port[w] # NoPort
    <3>1. PortAfter(w, p) = port[w] /\ port[w] \in Ports
      BY <2>2, <2>4 DEF PortAfter
    <3>2. port[w] \in left
      BY <2>4 DEF Spawn, Places, PickedPorts
    <3>3. QED BY <2>1, <2>2, <3>1, <3>2
  <2>5. QED BY ONLY <2>3, <2>4
<1>2. PICK n \in Nat :
      /\ n = Len(servers) /\ DOMAIN servers' = 1..(n + 1) /\ DOMAIN servers = 1..n
      /\ \A i \in DOMAIN servers : servers'[i] = servers[i]
      /\ servers'[n + 1].port = q /\ servers'[n + 1].by = w
      /\ servers'[n + 1].start = starts[w] /\ servers'[n + 1].state = "booting"
  <2>1. servers \in Seq(Server)
    BY DEF TypeOK
  <2>2. [port |-> q, by |-> w, start |-> starts[w], state |-> "booting"] \in Server
    BY DEF Server, Spawn, Places, TypeOK
  <2>3. /\ DOMAIN servers = 1..Len(servers) /\ Len(servers) \in Nat
        /\ servers' \in Seq(Server) /\ Len(servers') = Len(servers) + 1
        /\ \A i \in 1..Len(servers) : servers'[i] = servers[i]
        /\ servers'[Len(servers) + 1] =
             [port |-> q, by |-> w, start |-> starts[w], state |-> "booting"]
    BY ONLY <2>1, <2>2, <1>1, ServerDomain, TypeOK, AppendProperties
  <2>4. DOMAIN servers' = 1..(Len(servers) + 1)
    BY <2>3
  <2>5. PICK n \in Nat : n = Len(servers)
    BY <2>3
  <2>6. servers'[n + 1] = [port |-> q, by |-> w, start |-> starts[w], state |-> "booting"]
    BY <2>3, <2>5
  <2>7. /\ servers'[n + 1].port = q /\ servers'[n + 1].by = w
        /\ servers'[n + 1].start = starts[w] /\ servers'[n + 1].state = "booting"
    BY ONLY <2>6
  <2>8. QED BY ONLY <2>3, <2>4, <2>5, <2>7
<1>3. /\ port'[w] = q /\ pc'[w] = "polling" /\ pc[w] = "starting"
      /\ \A v \in Wrappers \ {w} : port'[v] = port[v] /\ pc'[v] = pc[v]
      /\ UNCHANGED <<left, starts, dialed, conn>> /\ dialed[w] = 0
  BY <1>1 DEF Spawn, Go, TypeOK, Places
<1>4. q \notin left =>
        /\ \A i \in DOMAIN servers : servers[i].port = q => servers[i].state = "exited"
        /\ \A v \in Wrappers : InProgress(v) => port[v] # q
  BY <1>1, FreshPort
<1>5. InProgress(w)' /\ ~InProgress(w) /\ \A v \in Wrappers \ {w} : InProgress(v)' = InProgress(v)
  BY <1>3 DEF InProgress
<1>6. n + 1 \in DOMAIN servers' /\ \A i \in DOMAIN servers' : i = n + 1 \/ i \in DOMAIN servers
  BY <1>2
<1>7. PrivatePorts'
  <2>1. ASSUME NEW v \in Wrappers, InProgress(v)', port'[v] \notin left',
               NEW i \in DOMAIN servers',
               servers'[i].port = port'[v], servers'[i].state # "exited"
        PROVE  SpawnedBy(v, i)'
    <3>1. CASE v = w
      <4>1. i \notin DOMAIN servers
        BY <1>2, <1>3, <1>4, <2>1, <3>1
      <4>2. QED BY <1>2, <1>3, <1>6, <3>1, <4>1 DEF SpawnedBy
    <3>2. CASE v # w
      <4>1. InProgress(v) /\ port[v] \notin left /\ port'[v] = port[v]
        BY <1>3, <1>5, <2>1, <3>2
      <4>2. i \in DOMAIN servers
        BY <1>2, <1>4, <1>6, <2>1, <4>1
      <4>3. SpawnedBy(v, i)
        BY <1>2, <2>1, <4>1, <4>2 DEF PrivatePorts
      <4>4. QED BY <1>2, <1>3, <4>2, <4>3 DEF SpawnedBy
    <3>3. QED BY <3>1, <3>2
  <2>2. ASSUME NEW i \in DOMAIN servers', servers'[i].state = "booting"
        PROVE  \/ servers'[i].port \in left'
               \/ \E v \in Wrappers : InProgress(v)' /\ port'[v] = servers'[i].port
    <3>1. CASE i = n + 1
      BY <1>2, <1>3, <1>5, <3>1
    <3>2. CASE i \in DOMAIN servers
      BY <1>2, <1>3, <1>5, <2>2, <3>2 DEF PrivatePorts
    <3>3. QED BY <1>6, <3>1, <3>2
  <2>3. QED BY <2>1, <2>2 DEF PrivatePorts
<1>8. PickedPorts'
  BY <1>1, <1>3, <1>4, <1>5 DEF PickedPorts
<1>9. SpawnOrder'
  <2>1. \A i \in DOMAIN servers : servers[i].start \in Nat
    BY ServerFields
  <2>2. \A v \in Wrappers : starts[v] \in Nat
    BY DEF TypeOK
  <2>3. \A i \in DOMAIN servers : servers[i].by = w => servers[i].start < starts[w]
    BY <1>3 DEF SpawnOrder
  <2>4. ASSUME NEW v \in Wrappers, NEW i \in DOMAIN servers', servers'[i].by = v
        PROVE  servers'[i].start <= starts'[v]
               /\ (pc'[v] = "starting" => servers'[i].start < starts'[v])
    BY <1>2, <1>3, <1>6, <2>2, <2>4 DEF SpawnOrder
  <2>5. ASSUME NEW v \in Wrappers, NEW i \in DOMAIN servers', NEW j \in DOMAIN servers',
               servers'[i].by = v, servers'[j].by = v, servers'[i].start = servers'[j].start
        PROVE  i = j
    <3>1. CASE i \in DOMAIN servers /\ j \in DOMAIN servers
      BY <1>2, <2>5, <3>1 DEF SpawnOrder
    <3>2. CASE i = n + 1 /\ j \in DOMAIN servers
      BY <1>2, <2>1, <2>2, <2>3, <2>5, <3>2
    <3>3. CASE j = n + 1 /\ i \in DOMAIN servers
      BY <1>2, <2>1, <2>2, <2>3, <2>5, <3>3
    <3>4. QED BY <1>6, <3>1, <3>2, <3>3
  <2>6. QED BY <2>4, <2>5 DEF SpawnOrder
<1>10. OwnServers'
  BY <1>2, <1>3 DEF OwnServers, SpawnedBy
<1>11. QED BY <1>7, <1>8, <1>9, <1>10

LEMMA SpawnFailsPort ==
  ASSUME PlaceInv, PlaceInv', PortInv, NEW w \in Wrappers, SpawnFails(w)
  PROVE  PortInv'
<1> USE AppServerAssumption DEF PlaceInv, PortInv, Go
<1>1. /\ port'[w] \in left' \cup {NoPort} /\ left \subseteq left'
      /\ \A v \in Wrappers \ {w} : port'[v] = port[v] /\ pc'[v] = pc[v]
      /\ pc'[w] = "idle" /\ pc[w] = "starting"
      /\ UNCHANGED <<servers, starts, dialed, conn>> /\ dialed[w] = 0
  BY DEF SpawnFails, LeaveBehind, TypeOK, Places
<1>2. ~InProgress(w)' /\ ~InProgress(w) /\ \A v \in Wrappers \ {w} : InProgress(v)' = InProgress(v)
  BY <1>1 DEF InProgress
<1>3. PrivatePorts'
  BY <1>1, <1>2 DEF PrivatePorts, SpawnedBy
<1>4. PickedPorts'
  BY <1>1, <1>2 DEF PickedPorts
<1>5. SpawnOrder'
  BY <1>1 DEF SpawnOrder
<1>6. OwnServers'
  BY <1>1 DEF OwnServers, SpawnedBy
<1>7. QED BY <1>3, <1>4, <1>5, <1>6

LEMMA DialPort ==
  ASSUME PlaceInv, PlaceInv', PortInv, NEW w \in Wrappers, Dial(w)
  PROVE  PortInv'
<1> USE DEF PlaceInv, PortInv, Go
<1>1. PICK i \in DOMAIN servers :
        servers[i].port = port[w] /\ Listening(i) /\ dialed' = [dialed EXCEPT ![w] = i]
  BY DEF Dial
<1>2. /\ dialed'[w] = i /\ pc'[w] = "handshake" /\ pc[w] = "polling"
      /\ \A v \in Wrappers \ {w} : dialed'[v] = dialed[v] /\ pc'[v] = pc[v]
      /\ UNCHANGED <<servers, left, starts, port, conn>>
  BY <1>1 DEF Dial, TypeOK
<1>3. SpawnedBy(w, i) \/ servers[i].port \in left
  BY <1>1, <1>2 DEF PrivatePorts, InProgress, Listening
<1>4. \A v \in Wrappers : InProgress(v)' = InProgress(v)
  BY <1>2 DEF InProgress
<1>5. PrivatePorts'
  BY <1>2, <1>4 DEF PrivatePorts, SpawnedBy
<1>6. PickedPorts' /\ SpawnOrder'
  BY <1>2, <1>4 DEF PickedPorts, SpawnOrder
<1>7. OwnServers'
  BY <1>1, <1>2, <1>3 DEF OwnServers, SpawnedBy
<1>8. QED BY <1>5, <1>6, <1>7

LEMMA ConnectedPort ==
  ASSUME PlaceInv, PlaceInv', PortInv, NEW w \in Wrappers, Connected(w)
  PROVE  PortInv'
<1> USE DEF PlaceInv, PortInv, Go
<1> DEFINE d == dialed[w]
<1>1. /\ conn'[w].server = d /\ conn'[w].start = starts[w] /\ dialed'[w] = 0
      /\ pc'[w] = "auth" /\ pc[w] = "handshake" /\ Listening(d)
      /\ \A v \in Wrappers \ {w} :
           conn'[v] = conn[v] /\ dialed'[v] = dialed[v] /\ pc'[v] = pc[v]
      /\ UNCHANGED <<servers, left, starts, port>>
  BY DEF Connected, TypeOK
<1>2. d \in DOMAIN servers /\ servers[d].port = port[w]
      /\ (SpawnedBy(w, d) \/ servers[d].port \in left)
  BY <1>1 DEF Places, OwnServers
<1>3. ~InProgress(w)' /\ InProgress(w) /\ \A v \in Wrappers \ {w} : InProgress(v)' = InProgress(v)
  BY <1>1 DEF InProgress
<1>4. PrivatePorts'
  <2>1. ASSUME NEW i \in DOMAIN servers, servers[i].state = "booting",
               servers[i].port = port[w], port[w] \notin left
        PROVE  FALSE
    <3>1. SpawnedBy(w, i)
      BY <1>3, <2>1 DEF PrivatePorts
    <3>2. SpawnedBy(w, d)
      BY <1>2, <2>1
    <3>3. i = d
      BY <1>2, <3>1, <3>2 DEF SpawnOrder, SpawnedBy
    <3>4. QED BY <1>1, <2>1, <3>3 DEF Listening
  <2>2. QED BY <1>1, <1>3, <2>1 DEF PrivatePorts, SpawnedBy
<1>5. PickedPorts' /\ SpawnOrder'
  BY <1>1, <1>3, <1>2 DEF PickedPorts, SpawnOrder
<1>6. OwnServers'
  BY <1>1, <1>2 DEF OwnServers, SpawnedBy
<1>7. QED BY <1>4, <1>5, <1>6

LEMMA ExitPort ==
  ASSUME PlaceInv, PlaceInv', PortInv, NEW w \in Wrappers, Exit(w)
  PROVE  PortInv'
<1> USE AppServerAssumption DEF PlaceInv, PortInv, Go
<1>1. /\ port'[w] = NoPort /\ dialed'[w] = 0 /\ conn'[w].server = 0 /\ pc'[w] = "idle"
      /\ \A v \in Wrappers \ {w} :
           /\ port'[v] = port[v] /\ dialed'[v] = dialed[v] /\ conn'[v] = conn[v]
           /\ pc'[v] = pc[v] /\ starts'[v] = starts[v]
      /\ left \subseteq left'
  BY DEF Exit, LeaveBehind, TypeOK, NoConn
<1>2. InProgress(w) => port[w] \in left'
  BY DEF Exit, LeaveBehind, InProgress, PickedPorts
<1>3. /\ DOMAIN servers' = DOMAIN servers
      /\ \A i \in DOMAIN servers :
           /\ servers'[i].port = servers[i].port /\ servers'[i].start = servers[i].start
           /\ servers'[i].state = servers[i].state
           /\ servers[i].by # w => servers'[i].by = servers[i].by
           /\ servers[i].by = w => servers'[i].by = Nobody
  <2>1. servers' = [i \in DOMAIN servers |->
                      IF servers[i].by = w THEN [servers[i] EXCEPT !.by = Nobody]
                      ELSE servers[i]]
    BY DEF Exit
  <2>2. \A i \in DOMAIN servers : servers[i] \in Server
    BY ServerFields
  <2>3. \A i \in DOMAIN servers : servers[i].by = w => servers'[i].by = Nobody
    BY <2>1, <2>2 DEF Server
  <2>4. QED BY <2>3, Orphaned
<1>4. ~InProgress(w)' /\ \A v \in Wrappers \ {w} : InProgress(v)' = InProgress(v)
  BY <1>1 DEF InProgress
<1>5. PrivatePorts'
  <2>1. ASSUME NEW v \in Wrappers, InProgress(v)', port'[v] \notin left',
               NEW i \in DOMAIN servers',
               servers'[i].port = port'[v], servers'[i].state # "exited"
        PROVE  SpawnedBy(v, i)'
    <3>1. v # w /\ InProgress(v) /\ port[v] \notin left
      BY <1>1, <1>4, <2>1
    <3>2. SpawnedBy(v, i)
      BY <1>1, <1>3, <2>1, <3>1 DEF PrivatePorts
    <3>3. QED BY <1>1, <1>3, <2>1, <3>1, <3>2 DEF SpawnedBy
  <2>2. ASSUME NEW i \in DOMAIN servers', servers'[i].state = "booting"
        PROVE  \/ servers'[i].port \in left'
               \/ \E v \in Wrappers : InProgress(v)' /\ port'[v] = servers'[i].port
    BY <1>1, <1>2, <1>3, <1>4, <2>2 DEF PrivatePorts
  <2>3. QED BY <2>1, <2>2 DEF PrivatePorts
<1>6. PickedPorts'
  BY <1>1, <1>4 DEF PickedPorts
<1>7. SpawnOrder'
  <2>1. \A v \in Wrappers, i \in DOMAIN servers :
          servers'[i].by = v => v # w /\ servers[i].by = v
    BY <1>3
  <2>2. QED BY <1>1, <1>3, <2>1 DEF SpawnOrder
<1>8. OwnServers'
  <2>1. ASSUME NEW v \in Wrappers, dialed'[v] # 0
        PROVE  /\ dialed'[v] \in DOMAIN servers' /\ servers'[dialed'[v]].port = port'[v]
               /\ (SpawnedBy(v, dialed[v])' \/ servers'[dialed'[v]].port \in left')
    <3>1. v # w /\ dialed'[v] = dialed[v]
      BY <1>1, <2>1
    <3>2. QED BY <1>1, <1>3, <2>1, <3>1 DEF OwnServers, SpawnedBy
  <2>2. ASSUME NEW v \in Wrappers, conn'[v].server # 0
        PROVE  /\ conn'[v].server \in DOMAIN servers'
               /\ \/ /\ servers'[conn'[v].server].by = v
                     /\ servers'[conn'[v].server].start = conn'[v].start
                  \/ servers'[conn'[v].server].port \in left'
    <3>1. v # w /\ conn'[v] = conn[v]
      BY <1>1, <2>2
    <3>2. QED BY <1>1, <1>3, <2>2, <3>1 DEF OwnServers
  <2>3. QED BY <2>1, <2>2 DEF OwnServers
<1>9. QED BY <1>5, <1>6, <1>7, <1>8

LEMMA ServerPort ==
  ASSUME PlaceInv, PortInv, NEW i \in DOMAIN servers, Bind(i) \/ ServerExits(i)
  PROVE  PortInv'
<1> USE DEF PlaceInv, PortInv
<1>1. /\ DOMAIN servers' = DOMAIN servers
      /\ \A j \in DOMAIN servers :
           /\ servers'[j].port = servers[j].port /\ servers'[j].by = servers[j].by
           /\ servers'[j].start = servers[j].start
           /\ servers'[j].state # "exited" => servers[j].state # "exited"
           /\ servers'[j].state = "booting" => servers[j].state = "booting"
      /\ UNCHANGED <<left, pc, starts, port, dialed, conn>>
  BY ServerStep DEF wrapperVars
<1>2. \A v \in Wrappers : InProgress(v)' = InProgress(v)
  BY <1>1 DEF InProgress
<1>3. PrivatePorts'
  BY <1>1, <1>2 DEF PrivatePorts, SpawnedBy
<1>4. PickedPorts' /\ SpawnOrder'
  BY <1>1, <1>2 DEF PickedPorts, SpawnOrder
<1>5. OwnServers'
  BY <1>1 DEF OwnServers, SpawnedBy
<1>6. QED BY <1>3, <1>4, <1>5

LEMMA PortNext == PlaceInv /\ PlaceInv' /\ PortInv /\ [Next]_vars => PortInv'
<1> SUFFICES ASSUME PlaceInv, PlaceInv', PortInv, [Next]_vars PROVE PortInv'
  OBVIOUS
<1>1. ASSUME NEW w \in Wrappers, StartRequest(w) \/ InitFails(w) \/ StartStep(w)
      PROVE PortInv'
  BY <1>1, RequestPort, SpawnPort, SpawnFailsPort, DialPort, ConnectedPort DEF StartStep
<1>2. ASSUME NEW w \in Wrappers, Exit(w) PROVE PortInv'
  BY <1>2, ExitPort
<1>3. ASSUME NEW i \in DOMAIN servers, Bind(i) \/ ServerExits(i) PROVE PortInv'
  BY <1>3, ServerPort
<1>4. CASE UNCHANGED vars
  BY <1>4 DEF PortInv, PrivatePorts, PickedPorts, SpawnOrder, OwnServers, InProgress,
              SpawnedBy, vars, wrapperVars
<1>5. QED BY <1>1, <1>2, <1>3, <1>4 DEF Next

LEMMA PortAlways == Spec => []PortInv
BY PortInit, PortNext, PlaceAlways, PTL DEF Spec

\* Over a port that no failed start left behind, a wrapper is connected to the server
\* that the start that connected has spawned, whatever other sessions and earlier
\* processes do on the same host and whichever ports are given again.
THEOREM ConnectsToOwn == Spec => []ConnectsToOwnServer
<1>1. PlaceInv /\ PortInv => ConnectsToOwnServer
  BY DEF PlaceInv, Places, PortInv, OwnServers, ConnectsToOwnServer
<1>2. QED BY <1>1, PlaceAlways, PortAlways, PTL
-----------------------------------------------------------------------------
(* Whose handlers a connection runs. *)

LEMMA HandlersNext == PlaceInv /\ OwnHandlers /\ [Next]_vars => OwnHandlers'
<1> SUFFICES ASSUME PlaceInv, OwnHandlers, [Next]_vars PROVE OwnHandlers'
  OBVIOUS
<1> USE DEF PlaceInv, Go
<1>1. ASSUME NEW w \in Wrappers, StartRequest(w) \/ InitFails(w) PROVE OwnHandlers'
  <2>1. starts[w] \in Nat
    BY DEF TypeOK
  <2>2. CASE StartRequest(w)
    BY <2>1, <2>2 DEF StartRequest, Register, TypeOK, OwnHandlers
  <2>3. CASE InitFails(w)
    BY <2>1, <2>3 DEF InitFails, TypeOK, OwnHandlers
  <2>4. QED BY <1>1, <2>2, <2>3
<1>2. ASSUME NEW w \in Wrappers,
             \/ Spawn(w) \/ SpawnFails(w) \/ Dial(w) \/ HandshakeFails(w)
             \/ GiveUp(w) \/ AuthEnds(w) \/ MintFails(w)
      PROVE OwnHandlers'
  <2>1. UNCHANGED <<starts, registered, conn, thread, own>>
    BY <1>2 DEF Spawn, SpawnFails, Dial, HandshakeFails, GiveUp, AuthEnds,
              MintFails
  <2>2. \A v \in Wrappers : pc'[v] # "idle" => pc[v] # "idle"
    BY <1>2 DEF Spawn, SpawnFails, Dial, HandshakeFails, GiveUp, AuthEnds,
              MintFails, TypeOK
  <2>3. QED BY <2>1, <2>2 DEF OwnHandlers
<1>3. ASSUME NEW w \in Wrappers, Connected(w) PROVE OwnHandlers'
  BY <1>3 DEF Connected, TypeOK, OwnHandlers
<1>4. ASSUME NEW w \in Wrappers, Mint(w) PROVE OwnHandlers'
  <2>1. starts[w] \in 1..MaxStarts
    BY <1>4 DEF Mint, TypeOK, OwnHandlers
  <2>2. thread'[w] = starts[w] /\ own'[w][starts[w]] = starts[w]
    BY <1>4, <2>1 DEF Mint, TypeOK
  <2>3. \A v \in Wrappers \ {w} :
          thread'[v] = thread[v] /\ own'[v] = own[v] /\ pc'[v] = pc[v]
    BY <1>4 DEF Mint, TypeOK
  <2>4. pc'[w] = "idle" /\ UNCHANGED <<starts, registered, conn>>
    BY <1>4 DEF Mint, TypeOK
  <2>5. QED BY <2>2, <2>3, <2>4 DEF OwnHandlers
<1>5. ASSUME NEW w \in Wrappers, Exit(w) PROVE OwnHandlers'
  BY <1>5 DEF Exit, TypeOK, OwnHandlers, NoConn
<1>6. ASSUME NEW i \in DOMAIN servers, Bind(i) \/ ServerExits(i) PROVE OwnHandlers'
  BY <1>6, ServerStep DEF OwnHandlers, wrapperVars
<1>7. CASE UNCHANGED vars
  BY <1>7 DEF OwnHandlers, vars, wrapperVars
<1>8. QED BY <1>1, <1>2, <1>3, <1>4, <1>5, <1>6, <1>7 DEF Next, StartStep

\* However many starts failed before, the connection of a start runs the handlers
\* of that start, whose Translator knows the thread it minted.
THEOREM RetriedStartAlwaysReports == Spec => []RetriedStartReports
<1>1. Init => OwnHandlers
  <2>1. NoConn.trans = NoConn.start
    BY DEF NoConn
  <2>2. QED BY <2>1 DEF Init, OwnHandlers
<1>2. OwnHandlers => RetriedStartReports
  BY DEF OwnHandlers, RetriedStartReports
<1>3. QED BY <1>1, <1>2, HandlersNext, PlaceAlways, PTL DEF Spec
=============================================================================
