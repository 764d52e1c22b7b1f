---------------------------- MODULE IslandModel ----------------------------
(***************************************************************************)
(* The exchange of individuals between islands, each a process with two    *)
(* threads: the generation loop, which sends its best individual and takes *)
(* in those received (CEvolutionaryAlgorithm::sendIndividual and           *)
(* receiveIndividuals), and the UDP server, which queues the datagrams     *)
(* that arrive (libeasea/CComUDPLayer.cpp).                                *)
(*                                                                         *)
(* An individual is its fitness, and the generation in between is any new  *)
(* population: EvolutionaryAlgorithm is about it.  The network loses,      *)
(* duplicates and reorders.                                                *)
(***************************************************************************)
EXTENDS Integers, Sequences, SequencesExt

CONSTANTS
  Islands,
  Clients,          \* island -> the islands that its ip file lists
  Fitness,
  Printed,          \* fitness -> the fitness that its six printed digits are read as
  Minimizing,
  PopulationSize,
  MaxGenerations,   \* nbGen of every island
  MaxArrivals,      \* the datagrams an island can get, copies included
  None

(* what is sent: by whom, when, to whom, and the individual's fitness *)
Datagram == [from : Islands, generation : 1..MaxGenerations, to : Islands, fitness : Fitness]

(* what has arrived: its number at the island, what was sent and what is read *)
Arrival == [number : 1..MaxArrivals, sent : Fitness, fitness : Fitness]

ASSUME ClientsAssumption ==
  Clients \in [Islands -> SUBSET Islands] /\ \A i \in Islands : i \notin Clients[i]
ASSUME FitnessAssumption == Fitness \subseteq Int /\ Fitness # {} /\ None \notin Fitness
ASSUME PrintedAssumption == Printed \in [Fitness -> Fitness]
ASSUME BoundsAssumption ==
  /\ PopulationSize \in Nat \ {0}
  /\ MaxGenerations \in Nat
  /\ MaxArrivals \in Nat
ASSUME NoneAssumption == None \notin {"main", "server"} /\ None \notin Arrival
ASSUME MinimizingAssumption == Minimizing \in BOOLEAN

VARIABLES
  mainPc,       \* where the generation loop of an island is
  generation,
  population,   \* the fitness values of the parents
  bBest,        \* the index of the individual that bBest points to
  index,        \* the individual that receiveIndividuals is about to overwrite
  line,         \* the datagram it has read from the queue
  serverPc,     \* where the server thread is
  buffer,       \* the datagram in the buffer of recvfrom
  clean,        \* whether that buffer is known to be zero behind a datagram
  queue,        \* parm->data
  server_mutex, \* the thread that holds it
  network,      \* the datagrams under way
  socket,       \* the datagrams that have arrived and were not read
  arrived,      \* how many have arrived
  integrated    \* the numbers of those that became parents, in order

mainVars   == <<mainPc, generation, population, bBest, index, line, integrated>>
serverVars == <<serverPc, buffer, clean>>
netVars    == <<network, socket, arrived>>
vars       == <<mainVars, serverVars, queue, server_mutex, netVars>>

Better(f, g) == IF Minimizing THEN f < g ELSE f > g

(* p[b] is a best one of the population p *)
IsBest(p, b) == \A k \in DOMAIN p : ~Better(p[k], p[b])

Indices == 1..PopulationSize

Init ==
  /\ mainPc = [i \in Islands |-> "criteria"]
  /\ generation = [i \in Islands |-> 1]
  /\ population \in [Islands -> [Indices -> Fitness]]
  /\ bBest \in [Islands -> Indices]
  /\ \A i \in Islands : IsBest(population[i], bBest[i])
  /\ index = [i \in Islands |-> None]
  /\ line = [i \in Islands |-> None]
  /\ integrated = [i \in Islands |-> <<>>]
  /\ serverPc = [i \in Islands |-> "recvfrom"]
  /\ buffer = [i \in Islands |-> None]
  /\ clean = [i \in Islands |-> FALSE]
  /\ queue = [i \in Islands |-> <<>>]
  /\ server_mutex = [i \in Islands |-> None]
  /\ network = {}
  /\ socket = [i \in Islands |-> <<>>]
  /\ arrived = [i \in Islands |-> 0]

-----------------------------------------------------------------------------
(* The generation loop *)

MainAt(i, l) == mainPc[i] = l
MainTo(i, l) == mainPc' = [mainPc EXCEPT ![i] = l]

(* allCriteria: the one that limits the generations, or another one before it *)
CheckCriteria(i) ==
  /\ MainAt(i, "criteria")
  /\ \/ MainTo(i, "finish")
     \/ generation[i] < MaxGenerations /\ MainTo(i, "send")
  /\ UNCHANGED <<generation, population, bBest, index, line, integrated, serverVars,
                 queue, server_mutex, netVars>>

(* sendIndividual, to one of the clients, or not at all: serialize prints the *)
(* fitness with six digits, at the end of the line                            *)
SendIndividual(i) ==
  /\ MainAt(i, "send")
  /\ MainTo(i, "evolve")
  /\ \/ UNCHANGED network
     \/ \E c \in Clients[i] :
          network' = network \cup
            {[from |-> i, generation |-> generation[i], to |-> c,
              fitness |-> Printed[population[i][bBest[i]]]]}
  /\ UNCHANGED <<generation, population, bBest, index, line, integrated,
                 serverVars, queue, server_mutex, socket, arrived>>

(* the generation itself, and `bBest = population->Best' after it *)
Evolve(i) ==
  /\ MainAt(i, "evolve")
  /\ MainTo(i, "checkSize")
  /\ \E p \in [Indices -> Fitness], b \in Indices :
       /\ IsBest(p, b)
       /\ population' = [population EXCEPT ![i] = p]
       /\ bBest' = [bBest EXCEPT ![i] = b]
  /\ UNCHANGED <<generation, index, line, integrated, serverVars, queue,
                 server_mutex, netVars>>

(* data->size(), read without the lock: while the server thread is inside *)
(* push_back the answer may be anything                                   *)
SizeRead(i) ==
  IF serverPc[i] = "push" THEN BOOLEAN ELSE {queue[i] # <<>>}

(* mutant of Chosen: the upper bound of the draw is not excluded *)
ChosenOffByOne == 1..(PopulationSize + 1)

(* the individuals that the anti-tournament may choose: all of its draws may *)
(* be of the same one, so any, the best one included                         *)
Chosen == Indices

(* the condition of the loop of receiveIndividuals and what follows it *)
CheckSize(i) ==
  /\ MainAt(i, "checkSize")
  /\ \/ /\ TRUE \in SizeRead(i)
        /\ MainTo(i, "lock")
        /\ \E k \in Chosen : index' = [index EXCEPT ![i] = k]
        /\ UNCHANGED generation
     \/ /\ FALSE \in SizeRead(i)
        /\ MainTo(i, "criteria")
        /\ generation' = [generation EXCEPT ![i] = @ + 1]
        /\ UNCHANGED index
  /\ UNCHANGED <<population, bBest, line, integrated, serverVars, queue,
                 server_mutex, netVars>>

(* mutant of ReadDataLock: the queue is read without the lock *)
ReadDataNoLock(i) ==
  /\ MainAt(i, "lock")
  /\ MainTo(i, "back")
  /\ UNCHANGED <<generation, population, bBest, index, line, integrated,
                 serverVars, queue, server_mutex, netVars>>

ReadDataLock(i) ==
  /\ MainAt(i, "lock")
  /\ server_mutex[i] = None
  /\ MainTo(i, "back")
  /\ server_mutex' = [server_mutex EXCEPT ![i] = "main"]
  /\ UNCHANGED <<generation, population, bBest, index, line, integrated,
                 serverVars, queue, netVars>>

(* string line = data->back().data; undefined when the queue is empty *)
ReadBack(i) ==
  /\ MainAt(i, "back")
  /\ queue[i] # <<>>
  /\ MainTo(i, "pop_back")
  /\ line' = [line EXCEPT ![i] = Last(queue[i])]
  /\ UNCHANGED <<generation, population, bBest, index, integrated,
                 serverVars, queue, server_mutex, netVars>>

(* mutant of PopBack: the individual stays in the queue *)
PopBackKeepsLast(i) ==
  /\ MainAt(i, "pop_back")
  /\ MainTo(i, "unlock")
  /\ population' = [population EXCEPT ![i][index[i]] = line[i].fitness]
  /\ UNCHANGED <<generation, bBest, index, line, integrated, serverVars,
                 queue, server_mutex, netVars>>

(* mutant of PopBack: the queue is emptied after one individual *)
PopBackAll(i) ==
  /\ MainAt(i, "pop_back")
  /\ MainTo(i, "unlock")
  /\ queue' = [queue EXCEPT ![i] = <<>>]
  /\ population' = [population EXCEPT ![i][index[i]] = line[i].fitness]
  /\ integrated' = [integrated EXCEPT ![i] = Append(@, line[i].number)]
  /\ UNCHANGED <<generation, bBest, index, line, serverVars, server_mutex, netVars>>

(* data->pop_back(); parents[index]->deserialize(line) *)
PopBack(i) ==
  /\ MainAt(i, "pop_back")
  /\ MainTo(i, "unlock")
  /\ queue' = [queue EXCEPT ![i] = Front(@)]
  /\ population' = [population EXCEPT ![i][index[i]] = line[i].fitness]
  /\ integrated' = [integrated EXCEPT ![i] = Append(@, line[i].number)]
  /\ UNCHANGED <<generation, bBest, index, line, serverVars, server_mutex, netVars>>

(* mutant of ReadDataUnlock: the size is not asked again *)
ReadDataUnlockTakeNext(i) ==
  /\ MainAt(i, "unlock")
  /\ MainTo(i, "lock")
  /\ server_mutex' = [server_mutex EXCEPT ![i] = None]
  /\ UNCHANGED <<generation, population, bBest, index, line, integrated,
                 serverVars, queue, netVars>>

ReadDataUnlock(i) ==
  /\ MainAt(i, "unlock")
  /\ MainTo(i, "checkSize")
  /\ server_mutex' = [server_mutex EXCEPT ![i] = None]
  /\ index' = [index EXCEPT ![i] = None]
  /\ line' = [line EXCEPT ![i] = None]
  /\ UNCHANGED <<generation, population, bBest, integrated, serverVars,
                 queue, netVars>>

(* The end of main.  No program deletes its algorithm, and with it the server: *)
(* the process ends, and the server thread wherever it is.                     *)
ReturnFromMain(i) ==
  /\ MainAt(i, "finish")
  /\ MainTo(i, "exited")
  /\ UNCHANGED <<generation, population, bBest, index, line, integrated, serverVars,
                 queue, server_mutex, netVars>>

Main(i) ==
  \/ CheckCriteria(i) \/ SendIndividual(i) \/ Evolve(i) \/ CheckSize(i)
  \/ ReadDataLock(i) \/ ReadBack(i) \/ PopBack(i) \/ ReadDataUnlock(i) \/ ReturnFromMain(i)

-----------------------------------------------------------------------------
(* UDP_server_thread *)

ServerAt(i, l) == serverPc[i] = l
ServerTo(i, l) == serverPc' = [serverPc EXCEPT ![i] = l]

(* recvfrom: the line ends at the first zero behind the datagram.  Before the *)
(* first memset the buffer holds whatever was on the stack, and the fitness,  *)
(* the last number of the line, may be read as any other.                     *)
Recvfrom(i) ==
  /\ ServerAt(i, "recvfrom")
  /\ socket[i] # <<>>
  /\ ServerTo(i, "lock")
  /\ \E f \in IF clean[i] THEN {Head(socket[i]).fitness} ELSE Fitness :
       buffer' = [buffer EXCEPT ![i] = [Head(socket[i]) EXCEPT !.fitness = f]]
  /\ socket' = [socket EXCEPT ![i] = Tail(@)]
  /\ UNCHANGED <<mainVars, clean, queue, server_mutex, network, arrived>>

ServerLock(i) ==
  /\ ServerAt(i, "lock")
  /\ server_mutex[i] = None
  /\ ServerTo(i, "push")
  /\ server_mutex' = [server_mutex EXCEPT ![i] = "server"]
  /\ UNCHANGED <<mainVars, buffer, clean, queue, netVars>>

(* the push_back that began with the step before ends *)
PushBack(i) ==
  /\ ServerAt(i, "push")
  /\ ServerTo(i, "unlock")
  /\ queue' = [queue EXCEPT ![i] = Append(@, buffer[i])]
  /\ UNCHANGED <<mainVars, buffer, clean, server_mutex, netVars>>

(* mutant of ServerUnlock: the buffer is not reset *)
ServerUnlockNoReset(i) ==
  /\ ServerAt(i, "unlock")
  /\ ServerTo(i, "recvfrom")
  /\ server_mutex' = [server_mutex EXCEPT ![i] = None]
  /\ buffer' = [buffer EXCEPT ![i] = None]
  /\ clean' = [clean EXCEPT ![i] = FALSE]
  /\ UNCHANGED <<mainVars, queue, netVars>>

(* pthread_mutex_unlock, and the memset of the buffer *)
ServerUnlock(i) ==
  /\ ServerAt(i, "unlock")
  /\ ServerTo(i, "recvfrom")
  /\ server_mutex' = [server_mutex EXCEPT ![i] = None]
  /\ buffer' = [buffer EXCEPT ![i] = None]
  /\ clean' = [clean EXCEPT ![i] = TRUE]
  /\ UNCHANGED <<mainVars, queue, netVars>>

(* the thread loops for ever, as long as the process runs *)
Server(i) ==
  /\ ~MainAt(i, "exited")
  /\ Recvfrom(i) \/ ServerLock(i) \/ PushBack(i) \/ ServerUnlock(i)

-----------------------------------------------------------------------------
(* The network *)

(* The datagram reaches the socket of a running process; a copy of it may *)
(* still be under way.                                                    *)
Arrive(d) ==
  /\ ~MainAt(d.to, "exited")
  /\ arrived[d.to] < MaxArrivals
  /\ arrived' = [arrived EXCEPT ![d.to] = @ + 1]
  /\ socket' = [socket EXCEPT ![d.to] =
       Append(@, [number |-> arrived'[d.to], sent |-> d.fitness, fitness |-> d.fitness])]
  /\ network' \in {network, network \ {d}}
  /\ UNCHANGED <<mainVars, serverVars, queue, server_mutex>>

Lose(d) ==
  /\ network' = network \ {d}
  /\ UNCHANGED <<mainVars, serverVars, queue, server_mutex, socket, arrived>>

Network == \E d \in network : Arrive(d) \/ Lose(d)

Done == \A i \in Islands : MainAt(i, "exited")

Next ==
  \/ \E i \in Islands : Main(i) \/ Server(i)
  \/ Network
  \/ Done /\ UNCHANGED vars

Spec == Init /\ [][Next]_vars

(* Both threads of a process are scheduled; nothing makes the network deliver. *)
FairSpec == Spec /\ \A i \in Islands : WF_vars(Main(i)) /\ WF_vars(Server(i))
-----------------------------------------------------------------------------
(* Properties *)

(* Every variable of the islands has its type. *)
TypeOK ==
  /\ mainPc \in [Islands -> {"criteria", "send", "evolve", "checkSize", "lock", "back",
                              "pop_back", "unlock", "finish", "exited"}]
  /\ generation \in [Islands -> Nat \ {0}]
  /\ population \in [Islands -> [Indices -> Fitness]]
  /\ bBest \in [Islands -> Indices]
  /\ index \in [Islands -> Indices \cup {None}]
  /\ line \in [Islands -> Arrival \cup {None}]
  /\ integrated \in [Islands -> Seq(1..MaxArrivals)]
  /\ serverPc \in [Islands -> {"recvfrom", "lock", "push", "unlock"}]
  /\ buffer \in [Islands -> Arrival \cup {None}]
  /\ clean \in [Islands -> BOOLEAN]
  /\ queue \in [Islands -> Seq(Arrival)]
  /\ server_mutex \in [Islands -> {"main", "server", None}]
  /\ network \subseteq Datagram
  /\ socket \in [Islands -> Seq(Arrival)]
  /\ arrived \in [Islands -> 0..MaxArrivals]

(* The loop never takes from an empty queue, although it looks at the size     *)
(* without the lock, and before it asks for the lock.                          *)
NeverPopsEmpty ==
  \A i \in Islands : mainPc[i] \in {"back", "pop_back"} => queue[i] # <<>>

(* The two threads are never both between their lock and their unlock: what    *)
(* back() returned is still last when pop_back() removes it.                   *)
QueueIsExclusive ==
  \A i \in Islands :
    /\ ~(mainPc[i] \in {"back", "pop_back", "unlock"} /\ serverPc[i] \in {"push", "unlock"})
    /\ mainPc[i] = "pop_back" => line[i] = Last(queue[i])

Numbers(s) == [k \in DOMAIN s |-> s[k].number]

(* where the datagrams of island i are: read and integrated, queued, in the    *)
(* hands of the server thread, in the socket                                   *)
Whereabouts(i) ==
  integrated[i] \o Numbers(queue[i])
    \o (IF serverPc[i] \in {"lock", "push"} THEN <<buffer[i].number>> ELSE <<>>)
    \o Numbers(socket[i])

(* Every datagram that arrives is either integrated or still on its way there, *)
(* and in one place only: none becomes a parent twice, and none gets lost       *)
(* between the socket and the population.                                       *)
EachArrivalOnce ==
  \A i \in Islands :
    /\ IsInjective(Whereabouts(i))
    /\ ToSet(Whereabouts(i)) = 1..arrived[i]

(* Only the first datagram can be read as something else than what was sent:   *)
(* the buffer is cleared behind every later one.                               *)
LaterMigrantsIntact ==
  \A i \in Islands : \A k \in DOMAIN queue[i] :
    queue[i][k].number > 1 => queue[i][k].fitness = queue[i][k].sent

(* Every program returns from main: its generation loop waits neither for the  *)
(* mutex for ever nor, once no more datagrams arrive, in receiveIndividuals.    *)
EveryIslandStops == \A i \in Islands : <>(mainPc[i] = "exited")

(* "Sending my best individual": what sendIndividual sends is the best of the  *)
(* population it is sent from.                                                 *)
SendsMyBestIndividual ==
  \A i \in Islands :
    mainPc[i] = "send" /\ Clients[i] # {} => IsBest(population[i], bBest[i])
=============================================================================
