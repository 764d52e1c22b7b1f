------------------------- MODULE IslandModel_proofs -------------------------
(***************************************************************************)
(* Proofs about IslandModel, for any number of islands, any ip files and   *)
(* any bounds: its type, that the two threads of an island are never both  *)
(* at work on the queue, that the loop never takes from an empty one       *)
(* although it reads the size without the lock, and the way of a datagram  *)
(* from the socket to the parents.                                         *)
(***************************************************************************)
EXTENDS IslandModel, ArrayTheorems, TLAPS

(* server_mutex tells which thread is between its lock and its unlock *)
MutexIsHeld(i) ==
  /\ mainPc[i] \in {"back", "pop_back", "unlock"} <=> server_mutex[i] = "main"
  /\ serverPc[i] \in {"push", "unlock"} <=> server_mutex[i] = "server"

(* What the main thread knows from its look at the size: the queue had an     *)
(* individual, or was about to get one.  Only this thread takes any away, and *)
(* a push that was under way ends before the mutex is free.                   *)
SizeStillHolds(i) ==
  /\ mainPc[i] = "lock" => queue[i] # <<>> \/ serverPc[i] = "push"
  /\ mainPc[i] \in {"back", "pop_back"} => queue[i] # <<>>

(* what the threads carry from one step to the next *)
Carried(i) ==
  /\ mainPc[i] = "send" => generation[i] \in 1..MaxGenerations
  /\ mainPc[i] \in {"lock", "back", "pop_back"} => index[i] \in Indices
  /\ mainPc[i] = "pop_back" => line[i] \in Arrival /\ line[i] = Last(queue[i])
  /\ serverPc[i] \in {"lock", "push", "unlock"} => buffer[i] \in Arrival

IslandInv(i) == MutexIsHeld(i) /\ SizeStillHolds(i) /\ Carried(i)

Inv == TypeOK /\ \A i \in Islands : IslandInv(i)

-----------------------------------------------------------------------------
(* Sequences *)

LEMMA LastFrontTyped ==
  ASSUME NEW S, NEW s \in Seq(S), s # <<>>
  PROVE  Last(s) \in S /\ Front(s) \in Seq(S)
<1>1. Len(s) \in Nat /\ Len(s) # 0
  OBVIOUS
<1>2. Len(s) \in 1..Len(s) /\ Len(s) - 1 \in 0..Len(s)
  BY <1>1
<1>. QED
  BY <1>2 DEF Last, Front

LEMMA HeadTailTyped ==
  ASSUME NEW S, NEW s \in Seq(S), s # <<>>
  PROVE  Head(s) \in S /\ Tail(s) \in Seq(S)
  OBVIOUS

LEMMA AppendNotEmpty ==
  ASSUME NEW S, NEW s \in Seq(S), NEW e \in S
  PROVE  Append(s, e) \in Seq(S) /\ Append(s, e) # <<>>
<1>1. Append(s, e) \in Seq(S) /\ Len(Append(s, e)) = Len(s) + 1 /\ Len(s) \in Nat
  OBVIOUS
<1>2. Len(<<>>) = 0
  OBVIOUS
<1>. QED
  BY <1>1, <1>2

-----------------------------------------------------------------------------
LEMMA InitInv == Init => Inv
<1> SUFFICES ASSUME Init PROVE Inv
  OBVIOUS
<1>1. TypeOK
  BY BoundsAssumption, NoneAssumption DEF Init, TypeOK
<1>2. \A i \in Islands : IslandInv(i)
  BY NoneAssumption, BoundsAssumption DEF Init, IslandInv, MutexIsHeld, SizeStillHolds, Carried
<1>. QED
  BY <1>1, <1>2 DEF Inv

(* An island whose variables a step leaves alone keeps its part of the invariant. *)
Untouched(j) ==
  /\ mainPc'[j] = mainPc[j] /\ serverPc'[j] = serverPc[j] /\ queue'[j] = queue[j]
  /\ server_mutex'[j] = server_mutex[j] /\ index'[j] = index[j]
  /\ line'[j] = line[j] /\ buffer'[j] = buffer[j] /\ generation'[j] = generation[j]

LEMMA UntouchedInv ==
  ASSUME NEW j \in Islands, IslandInv(j), Untouched(j)
  PROVE  IslandInv(j)'
  BY DEF IslandInv, MutexIsHeld, SizeStillHolds, Carried, Untouched

LEMMA CheckCriteriaInv ==
  ASSUME Inv, NEW i \in Islands, CheckCriteria(i)
  PROVE  Inv'
<1>1. TypeOK'
  BY DEF CheckCriteria, MainAt, MainTo, serverVars, netVars, Inv, TypeOK,
     IslandInv, SizeStillHolds, Carried
<1>2. \A j \in Islands : j # i => Untouched(j)
  BY DEF CheckCriteria, MainAt, MainTo, serverVars, netVars, Inv, TypeOK, Untouched
<1>3. IslandInv(i)'
  BY BoundsAssumption
     DEF CheckCriteria, MainAt, MainTo, serverVars, netVars, Inv, TypeOK,
     IslandInv, MutexIsHeld, SizeStillHolds, Carried
<1>. QED
  BY <1>1, <1>2, <1>3, UntouchedInv DEF Inv

LEMMA SendIndividualInv ==
  ASSUME Inv, NEW i \in Islands, SendIndividual(i)
  PROVE  Inv'
<1>1. TypeOK'
  <2>1. network' \subseteq Datagram
    <3>1. generation[i] \in 1..MaxGenerations
      BY DEF SendIndividual, MainAt, Inv, IslandInv, Carried
    <3>2. Printed[population[i][bBest[i]]] \in Fitness
      BY PrintedAssumption DEF Inv, TypeOK
    <3>3. \A c \in Clients[i] : c \in Islands
      BY ClientsAssumption
    <3>. QED
      BY <3>1, <3>2, <3>3 DEF SendIndividual, Datagram, Inv, TypeOK
  <2>. QED
    BY <2>1 DEF SendIndividual, MainAt, MainTo, serverVars, Inv, TypeOK
<1>2. \A j \in Islands : j # i => Untouched(j)
  BY DEF SendIndividual, MainAt, MainTo, serverVars, netVars, Inv, TypeOK, Untouched
<1>3. IslandInv(i)'
  BY DEF SendIndividual, MainAt, MainTo, serverVars, netVars, Datagram, Inv, TypeOK,
     IslandInv, MutexIsHeld, SizeStillHolds, Carried
<1>. QED
  BY <1>1, <1>2, <1>3, UntouchedInv DEF Inv

LEMMA EvolveInv ==
  ASSUME Inv, NEW i \in Islands, Evolve(i)
  PROVE  Inv'
<1>1. TypeOK'
  BY DEF Evolve, MainAt, MainTo, serverVars, netVars, Inv, TypeOK,
     IslandInv, SizeStillHolds, Carried
<1>2. \A j \in Islands : j # i => Untouched(j)
  BY DEF Evolve, MainAt, MainTo, serverVars, netVars, Inv, TypeOK, Untouched
<1>3. IslandInv(i)'
  BY DEF Evolve, MainAt, MainTo, serverVars, netVars, Inv, TypeOK,
     IslandInv, MutexIsHeld, SizeStillHolds, Carried
<1>. QED
  BY <1>1, <1>2, <1>3, UntouchedInv DEF Inv

LEMMA CheckSizeInv ==
  ASSUME Inv, NEW i \in Islands, CheckSize(i)
  PROVE  Inv'
<1>1. TypeOK'
  <2>1. index' \in [Islands -> Indices \cup {None}]
    BY DEF CheckSize, Chosen, Inv, TypeOK
  <2>2. generation' \in [Islands -> Nat \ {0}]
    <3>1. generation[i] + 1 \in Nat \ {0}
      BY DEF Inv, TypeOK
    <3>2. generation' = generation \/ generation' = [generation EXCEPT ![i] = generation[i] + 1]
      BY DEF CheckSize
    <3>. QED
      BY <3>1, <3>2 DEF Inv, TypeOK
  <2>3. mainPc' \in [Islands -> {"criteria", "send", "evolve", "checkSize", "lock", "back",
                                 "pop_back", "unlock", "finish", "exited"}]
    BY DEF CheckSize, MainTo, Inv, TypeOK
  <2>. QED
    BY <2>1, <2>2, <2>3 DEF CheckSize, serverVars, netVars, Inv, TypeOK
<1>2. \A j \in Islands : j # i => Untouched(j)
  BY DEF CheckSize, MainAt, MainTo, serverVars, netVars, Inv, TypeOK, Untouched
<1>3. IslandInv(i)'
  BY DEF CheckSize, MainAt, MainTo, serverVars, netVars, SizeRead, Chosen, Inv, TypeOK,
     IslandInv, MutexIsHeld, SizeStillHolds, Carried
<1>. QED
  BY <1>1, <1>2, <1>3, UntouchedInv DEF Inv

LEMMA ReadDataLockInv ==
  ASSUME Inv, NEW i \in Islands, ReadDataLock(i)
  PROVE  Inv'
<1>1. TypeOK'
  BY NoneAssumption DEF ReadDataLock, MainAt, MainTo, serverVars, netVars, Inv, TypeOK,
     IslandInv, SizeStillHolds, Carried
<1>2. \A j \in Islands : j # i => Untouched(j)
  BY DEF ReadDataLock, MainAt, MainTo, serverVars, netVars, Inv, TypeOK, Untouched
<1>3. IslandInv(i)'
  BY NoneAssumption DEF ReadDataLock, MainAt, MainTo, serverVars, netVars, Inv, TypeOK,
     IslandInv, MutexIsHeld, SizeStillHolds, Carried
<1>. QED
  BY <1>1, <1>2, <1>3, UntouchedInv DEF Inv

LEMMA ReadBackInv ==
  ASSUME Inv, NEW i \in Islands, ReadBack(i)
  PROVE  Inv'
<1>1. TypeOK'
  BY LastFrontTyped DEF ReadBack, MainAt, MainTo, serverVars, netVars, Inv, TypeOK,
     IslandInv, SizeStillHolds, Carried
<1>2. \A j \in Islands : j # i => Untouched(j)
  BY DEF ReadBack, MainAt, MainTo, serverVars, netVars, Inv, TypeOK, Untouched
<1>3. IslandInv(i)'
  BY LastFrontTyped DEF ReadBack, MainAt, MainTo, serverVars, netVars, Inv, TypeOK,
     IslandInv, MutexIsHeld, SizeStillHolds, Carried
<1>. QED
  BY <1>1, <1>2, <1>3, UntouchedInv DEF Inv

LEMMA PopBackInv ==
  ASSUME Inv, NEW i \in Islands, PopBack(i)
  PROVE  Inv'
<1>1. TypeOK'
  <2>1. /\ index[i] \in Indices
        /\ line[i] \in Arrival
        /\ queue[i] # <<>>
    BY DEF PopBack, MainAt, Inv, IslandInv, SizeStillHolds, Carried
  <2>2. line[i].fitness \in Fitness /\ line[i].number \in 1..MaxArrivals
    BY <2>1 DEF Arrival
  <2>3. population' \in [Islands -> [Indices -> Fitness]]
    BY <2>1, <2>2 DEF PopBack, Inv, TypeOK
  <2>4. integrated' \in [Islands -> Seq(1..MaxArrivals)]
    BY <2>2, AppendNotEmpty DEF PopBack, Inv, TypeOK
  <2>5. queue' \in [Islands -> Seq(Arrival)]
    BY <2>1, LastFrontTyped DEF PopBack, Inv, TypeOK
  <2>. QED
    BY <2>3, <2>4, <2>5 DEF PopBack, MainAt, MainTo, serverVars, netVars, Inv, TypeOK
<1>2. \A j \in Islands : j # i => Untouched(j)
  BY DEF PopBack, MainAt, MainTo, serverVars, netVars, Inv, TypeOK, Untouched
<1>3. IslandInv(i)'
  BY LastFrontTyped DEF PopBack, MainAt, MainTo, serverVars, netVars, Inv, TypeOK,
     IslandInv, MutexIsHeld, SizeStillHolds, Carried
<1>. QED
  BY <1>1, <1>2, <1>3, UntouchedInv DEF Inv

LEMMA ReadDataUnlockInv ==
  ASSUME Inv, NEW i \in Islands, ReadDataUnlock(i)
  PROVE  Inv'
<1>1. TypeOK'
  BY NoneAssumption DEF ReadDataUnlock, MainAt, MainTo, serverVars, netVars, Inv, TypeOK,
     IslandInv, SizeStillHolds, Carried
<1>2. \A j \in Islands : j # i => Untouched(j)
  BY DEF ReadDataUnlock, MainAt, MainTo, serverVars, netVars, Inv, TypeOK, Untouched
<1>3. IslandInv(i)'
  BY NoneAssumption DEF ReadDataUnlock, MainAt, MainTo, serverVars, netVars, Inv, TypeOK,
     IslandInv, MutexIsHeld, SizeStillHolds, Carried
<1>. QED
  BY <1>1, <1>2, <1>3, UntouchedInv DEF Inv

LEMMA RecvfromInv ==
  ASSUME Inv, NEW i \in Islands, Recvfrom(i)
  PROVE  Inv'
<1>1. Head(socket[i]) \in Arrival /\ Tail(socket[i]) \in Seq(Arrival)
  BY HeadTailTyped DEF Recvfrom, Inv, TypeOK
<1>2. PICK f \in Fitness :
        buffer' = [buffer EXCEPT ![i] = [Head(socket[i]) EXCEPT !.fitness = f]]
  <2>1. Head(socket[i]).fitness \in Fitness
    BY <1>1 DEF Arrival
  <2>. QED
    BY <2>1 DEF Recvfrom
<1>3. [Head(socket[i]) EXCEPT !.fitness = f] \in Arrival
  BY <1>1, <1>2 DEF Arrival
<1>4. TypeOK'
  BY <1>1, <1>2, <1>3
     DEF Recvfrom, ServerAt, ServerTo, mainVars, netVars, Inv, TypeOK
<1>5. \A j \in Islands : j # i => Untouched(j)
  BY DEF Recvfrom, ServerAt, ServerTo, mainVars, netVars, Inv, TypeOK, Untouched
<1>6. IslandInv(i)'
  <2>1. buffer'[i] \in Arrival
    BY <1>2, <1>3 DEF Inv, TypeOK
  <2>. QED
    BY <2>1 DEF Recvfrom, ServerAt, ServerTo, mainVars, netVars, Inv, TypeOK,
       IslandInv, MutexIsHeld, SizeStillHolds, Carried
<1>. QED
  BY <1>4, <1>5, <1>6, UntouchedInv DEF Inv

LEMMA ServerLockInv ==
  ASSUME Inv, NEW i \in Islands, ServerLock(i)
  PROVE  Inv'
<1>1. TypeOK'
  BY NoneAssumption DEF ServerLock, ServerAt, ServerTo, mainVars, netVars, Inv, TypeOK,
     IslandInv, SizeStillHolds, Carried
<1>2. \A j \in Islands : j # i => Untouched(j)
  BY DEF ServerLock, ServerAt, ServerTo, mainVars, netVars, Inv, TypeOK, Untouched
<1>3. IslandInv(i)'
  BY NoneAssumption DEF ServerLock, ServerAt, ServerTo, mainVars, netVars, Inv, TypeOK,
     IslandInv, MutexIsHeld, SizeStillHolds, Carried
<1>. QED
  BY <1>1, <1>2, <1>3, UntouchedInv DEF Inv

LEMMA PushBackInv ==
  ASSUME Inv, NEW i \in Islands, PushBack(i)
  PROVE  Inv'
<1>1. TypeOK'
  BY AppendNotEmpty DEF PushBack, ServerAt, ServerTo, mainVars, netVars, Inv, TypeOK,
     IslandInv, SizeStillHolds, Carried
<1>2. \A j \in Islands : j # i => Untouched(j)
  BY DEF PushBack, ServerAt, ServerTo, mainVars, netVars, Inv, TypeOK, Untouched
<1>3. IslandInv(i)'
  <2>1. /\ serverPc[i] = "push" /\ serverPc'[i] = "unlock" /\ mainVars' = mainVars
        /\ server_mutex' = server_mutex /\ buffer' = buffer
        /\ queue'[i] # <<>> /\ buffer[i] \in Arrival
    BY AppendNotEmpty DEF PushBack, ServerAt, ServerTo, Inv, TypeOK, IslandInv, Carried
  <2>2. mainPc[i] \notin {"back", "pop_back"}
    BY <2>1 DEF Inv, IslandInv, MutexIsHeld
  <2>. QED
    BY <2>1, <2>2 DEF mainVars, Inv, IslandInv, MutexIsHeld, SizeStillHolds, Carried
<1>. QED
  BY <1>1, <1>2, <1>3, UntouchedInv DEF Inv

LEMMA ServerUnlockInv ==
  ASSUME Inv, NEW i \in Islands, ServerUnlock(i)
  PROVE  Inv'
<1>1. TypeOK'
  BY NoneAssumption DEF ServerUnlock, ServerAt, ServerTo, mainVars, netVars, Inv, TypeOK,
     IslandInv, SizeStillHolds, Carried
<1>2. \A j \in Islands : j # i => Untouched(j)
  BY DEF ServerUnlock, ServerAt, ServerTo, mainVars, netVars, Inv, TypeOK, Untouched
<1>3. IslandInv(i)'
  BY NoneAssumption DEF ServerUnlock, ServerAt, ServerTo, mainVars, netVars, Inv, TypeOK,
     IslandInv, MutexIsHeld, SizeStillHolds, Carried
<1>. QED
  BY <1>1, <1>2, <1>3, UntouchedInv DEF Inv

LEMMA ReturnFromMainInv ==
  ASSUME Inv, NEW i \in Islands, ReturnFromMain(i)
  PROVE  Inv'
<1>1. TypeOK'
  BY DEF ReturnFromMain, MainAt, MainTo, serverVars, netVars, Inv, TypeOK,
     IslandInv, SizeStillHolds, Carried
<1>2. \A j \in Islands : j # i => Untouched(j)
  BY DEF ReturnFromMain, MainAt, MainTo, serverVars, netVars, Inv, TypeOK, Untouched
<1>3. IslandInv(i)'
  BY DEF ReturnFromMain, MainAt, MainTo, serverVars, netVars, Inv, TypeOK,
     IslandInv, MutexIsHeld, SizeStillHolds, Carried
<1>. QED
  BY <1>1, <1>2, <1>3, UntouchedInv DEF Inv

LEMMA ArriveInv ==
  ASSUME Inv, NEW d \in network, Arrive(d)
  PROVE  Inv'
<1>1. d.to \in Islands /\ d.fitness \in Fitness
  BY DEF Inv, TypeOK, Datagram
<1>2. arrived'[d.to] \in 1..MaxArrivals
  BY <1>1, BoundsAssumption DEF Arrive, Inv, TypeOK
<1>3. [number |-> arrived'[d.to], sent |-> d.fitness, fitness |-> d.fitness] \in Arrival
  BY <1>1, <1>2 DEF Arrival
<1>4. TypeOK'
  <2>1. socket' \in [Islands -> Seq(Arrival)]
    BY <1>1, <1>3, AppendNotEmpty DEF Arrive, Inv, TypeOK
  <2>2. arrived' \in [Islands -> 0..MaxArrivals]
    BY <1>1, BoundsAssumption DEF Arrive, Inv, TypeOK
  <2>3. network' \subseteq Datagram
    BY DEF Arrive, Inv, TypeOK
  <2>. QED
    BY <2>1, <2>2, <2>3 DEF Arrive, mainVars, serverVars, Inv, TypeOK
<1>5. \A j \in Islands : Untouched(j)
  BY DEF Arrive, mainVars, serverVars, Untouched
<1>. QED
  BY <1>4, <1>5, UntouchedInv DEF Inv

LEMMA LoseInv ==
  ASSUME Inv, NEW d \in network, Lose(d)
  PROVE  Inv'
<1>1. TypeOK'
  BY DEF Lose, mainVars, serverVars, Inv, TypeOK
<1>2. \A j \in Islands : Untouched(j)
  BY DEF Lose, mainVars, serverVars, Untouched
<1>. QED
  BY <1>1, <1>2, UntouchedInv DEF Inv

LEMMA StutterInv ==
  ASSUME Inv, UNCHANGED vars
  PROVE  Inv'
<1>1. TypeOK'
  BY DEF vars, mainVars, serverVars, netVars, Inv, TypeOK
<1>2. \A j \in Islands : Untouched(j)
  BY DEF vars, mainVars, serverVars, Untouched
<1>. QED
  BY <1>1, <1>2, UntouchedInv DEF Inv

LEMMA NextInv == Inv /\ [Next]_vars => Inv'
<1> SUFFICES ASSUME Inv, [Next]_vars PROVE Inv'
  OBVIOUS
<1>1. ASSUME NEW i \in Islands, Main(i) PROVE Inv'
  BY <1>1, CheckCriteriaInv, SendIndividualInv, EvolveInv, CheckSizeInv, ReadDataLockInv,
     ReadBackInv, PopBackInv, ReadDataUnlockInv, ReturnFromMainInv DEF Main
<1>2. ASSUME NEW i \in Islands, Server(i) PROVE Inv'
  BY <1>2, RecvfromInv, ServerLockInv, PushBackInv, ServerUnlockInv DEF Server
<1>3. CASE Network
  BY <1>3, ArriveInv, LoseInv DEF Network
<1>4. CASE UNCHANGED vars
  BY <1>4, StutterInv
<1>. QED
  BY <1>1, <1>2, <1>3, <1>4 DEF Next

LEMMA InvAlways == Spec => []Inv
  BY InitInv, NextInv, PTL DEF Spec

-----------------------------------------------------------------------------
(* Whatever the network does, every variable of every island keeps its type:  *)
(* what deserialize writes into a parent came from a datagram.                *)
THEOREM IslandsTyped == Spec => []TypeOK
<1>1. Inv => TypeOK
  BY DEF Inv
<1>. QED
  BY <1>1, InvAlways, PTL

(* The queue's mutex does its work on any number of islands: the receiving     *)
(* loop and the server thread are never both between lock and unlock, and what *)
(* back() returned is what pop_back() removes.                                 *)
THEOREM QueueExclusive == Spec => []QueueIsExclusive
<1>1. Inv => QueueIsExclusive
  <2> SUFFICES ASSUME Inv, NEW i \in Islands
               PROVE  /\ ~(mainPc[i] \in {"back", "pop_back", "unlock"}
                            /\ serverPc[i] \in {"push", "unlock"})
                      /\ mainPc[i] = "pop_back" => line[i] = Last(queue[i])
    BY DEF QueueIsExclusive
  <2>1. IslandInv(i)
    BY DEF Inv
  <2>. QED
    BY <2>1 DEF IslandInv, MutexIsHeld, Carried
<1>. QED
  BY <1>1, InvAlways, PTL

(* Reading the size without the lock is harmless: the receiving loop never     *)
(* calls back() or pop_back() on an empty queue, whatever the size it read     *)
(* while the server thread was inside push_back.                               *)
THEOREM QueueNotEmpty == Spec => []NeverPopsEmpty
<1>1. Inv => NeverPopsEmpty
  BY DEF Inv, IslandInv, SizeStillHolds, NeverPopsEmpty
<1>. QED
  BY <1>1, InvAlways, PTL
-----------------------------------------------------------------------------
(* The way of a datagram *)

Stations == {"integrated", "queue", "hand", "socket"}

(* the numbers that are at each station of island i *)
At(i) ==
  [a \in Stations |->
     CASE a = "integrated" -> integrated[i]
       [] a = "queue"      -> Numbers(queue[i])
       [] a = "hand"       -> IF serverPc[i] \in {"lock", "push"} THEN <<buffer[i].number>> ELSE <<>>
       [] a = "socket"     -> Numbers(socket[i])]

(* Each number is at one station, and all are. *)
OnTheWay(i) == OwnedBy(Stations, At(i), 1..arrived[i])

(* The socket holds the last numbers, as they were sent.  The buffer is not    *)
(* clean as long as nothing was read, and for the first datagram.              *)
Intact(i) ==
  /\ \A k \in 1..Len(socket[i]) :
       /\ socket[i][k].number = (arrived[i] - Len(socket[i])) + k
       /\ socket[i][k].fitness = socket[i][k].sent
  /\ serverPc[i] = "recvfrom" /\ ~clean[i] => arrived[i] = Len(socket[i])
  /\ serverPc[i] \in {"lock", "push"} /\ buffer[i].number > 1 =>
       buffer[i].fitness = buffer[i].sent
  /\ \A k \in 1..Len(queue[i]) :
       queue[i][k].number > 1 => queue[i][k].fitness = queue[i][k].sent

MigrantInv(i) == OnTheWay(i) /\ Intact(i)

WayInv == Inv /\ \A i \in Islands : MigrantInv(i)

LEMMA ArrayIsSeq ==
  ASSUME NEW S, NEW n \in Nat, NEW f \in [1..n -> S]
  PROVE  f \in Seq(S) /\ Len(f) = n
  OBVIOUS

LEMMA NumbersTyped ==
  ASSUME NEW s \in Seq(Arrival)
  PROVE  /\ Numbers(s) \in Seq(1..MaxArrivals)
         /\ Len(Numbers(s)) = Len(s)
         /\ \A k \in 1..Len(s) : Numbers(s)[k] = s[k].number
         /\ Range(Numbers(s)) = {s[k].number : k \in 1..Len(s)}
<1>1. ASSUME NEW k \in 1..Len(s) PROVE s[k].number \in 1..MaxArrivals
  <2>1. s[k] \in Arrival
    OBVIOUS
  <2>. QED
    BY <2>1 DEF Arrival
<1>2. DOMAIN s = 1..Len(s) /\ Len(s) \in Nat
  OBVIOUS
<1>3. Numbers(s) = [k \in 1..Len(s) |-> s[k].number]
  BY <1>2 DEF Numbers
<1>4. Numbers(s) \in [1..Len(s) -> 1..MaxArrivals]
  BY <1>1, <1>3
<1>5. Numbers(s) \in Seq(1..MaxArrivals) /\ Len(Numbers(s)) = Len(s)
  BY <1>2, <1>4, ArrayIsSeq
<1>6. Range(Numbers(s)) = {s[k].number : k \in 1..Len(s)}
  BY <1>3 DEF Range
<1>. QED
  BY <1>3, <1>5, <1>6

LEMMA NumbersAppend ==
  ASSUME NEW s \in Seq(Arrival), NEW e \in Arrival
  PROVE  Numbers(Append(s, e)) = Append(Numbers(s), e.number)
<1> DEFINE t == Append(s, e)
<1>1. t \in Seq(Arrival) /\ Len(t) = Len(s) + 1 /\ Len(s) \in Nat
  OBVIOUS
<1>2. e.number \in 1..MaxArrivals
  BY DEF Arrival
<1>3. Numbers(t) \in Seq(1..MaxArrivals) /\ Len(Numbers(t)) = Len(s) + 1
  BY <1>1, NumbersTyped
<1>4. /\ Append(Numbers(s), e.number) \in Seq(1..MaxArrivals)
      /\ Len(Append(Numbers(s), e.number)) = Len(s) + 1
  BY <1>2, NumbersTyped
<1>5. \A k \in 1..(Len(s) + 1) : Numbers(t)[k] = Append(Numbers(s), e.number)[k]
  <2> TAKE k \in 1..(Len(s) + 1)
  <2>1. Numbers(t)[k] = t[k].number
    BY <1>1, NumbersTyped
  <2>2. CASE k = Len(s) + 1
    <3>1. t[k] = e
      BY <2>2
    <3>2. Numbers(s) \in Seq(1..MaxArrivals) /\ Len(Numbers(s)) = Len(s)
      BY NumbersTyped
    <3>3. Append(Numbers(s), e.number)[Len(Numbers(s)) + 1] = e.number
      BY <3>2, <1>2
    <3>4. k = Len(Numbers(s)) + 1
      BY <2>2, <3>2
    <3>. QED
      BY <2>1, <3>1, <3>3, <3>4
  <2>3. CASE k \in 1..Len(s)
    <3>1. t[k] = s[k]
      BY <2>3
    <3>2. Append(Numbers(s), e.number)[k] = Numbers(s)[k]
      BY <2>3, <1>2, NumbersTyped
    <3>. QED
      BY <2>1, <2>3, <3>1, <3>2, NumbersTyped
  <2>4. k = Len(s) + 1 \/ k \in 1..Len(s)
    BY <1>1
  <2>. QED
    BY <2>2, <2>3, <2>4
<1>. QED
  BY <1>3, <1>4, <1>5

LEMMA FrontElements ==
  ASSUME NEW s \in Seq(Arrival), s # <<>>
  PROVE  /\ Front(s) \in Seq(Arrival)
         /\ Len(Front(s)) = Len(s) - 1
         /\ \A k \in 1..(Len(s) - 1) : Front(s)[k] = s[k]
<1>1. Front(s) \in Seq(Arrival)
  BY LastFrontTyped
<1>2. Len(s) - 1 \in 0..Len(s)
  OBVIOUS
<1>3. \A m \in 0..Len(s) : Len(SubSeq(s, 1, m)) = m /\ \A k \in 1..m : SubSeq(s, 1, m)[k] = s[k]
  OBVIOUS
<1>. QED
  BY <1>1, <1>2, <1>3 DEF Front

(* the numbers of s without its last or its first datagram *)
LEMMA NumbersFront ==
  ASSUME NEW s \in Seq(Arrival), s # <<>>, IsInjective(Numbers(s))
  PROVE  /\ Last(s).number \in Range(Numbers(s))
         /\ IsInjective(Numbers(Front(s)))
         /\ Range(Numbers(Front(s))) = Range(Numbers(s)) \ {Last(s).number}
<1> DEFINE t == Front(s)
           n == Len(s)
<1>1. n \in Nat \ {0} /\ Last(s) = s[n]
  BY DEF Last
<1>2. t \in Seq(Arrival) /\ Len(t) = n - 1 /\ \A k \in 1..(n - 1) : t[k] = s[k]
  BY FrontElements
<1>3. /\ Numbers(s) \in Seq(1..MaxArrivals) /\ Len(Numbers(s)) = n
      /\ \A k \in 1..n : Numbers(s)[k] = s[k].number
      /\ Range(Numbers(s)) = {s[k].number : k \in 1..n}
  BY NumbersTyped
<1>4. \A k, l \in 1..n : s[k].number = s[l].number => k = l
  <2>1. \A k, l \in 1..n : Numbers(s)[k] = Numbers(s)[l] => k = l
    BY <1>3, RangeOfArray
  <2>. QED
    BY <1>3, <2>1
<1>5. /\ Numbers(t) \in Seq(1..MaxArrivals) /\ Len(Numbers(t)) = n - 1
      /\ \A k \in 1..(n - 1) : Numbers(t)[k] = t[k].number
      /\ Range(Numbers(t)) = {t[k].number : k \in 1..(n - 1)}
  <2>1. t \in Seq(Arrival) /\ Len(t) = n - 1
    BY <1>2
  <2>. HIDE DEF t
  <2>2. /\ Numbers(t) \in Seq(1..MaxArrivals) /\ Len(Numbers(t)) = Len(t)
        /\ \A k \in 1..Len(t) : Numbers(t)[k] = t[k].number
        /\ Range(Numbers(t)) = {t[k].number : k \in 1..Len(t)}
    BY <2>1, NumbersTyped
  <2>. QED
    BY <2>1, <2>2
<1>6. Range(Numbers(t)) = {s[k].number : k \in 1..(n - 1)}
  <2>1. \A k \in 1..(n - 1) : t[k].number = s[k].number
    BY <1>2
  <2>. HIDE DEF t
  <2>. QED
    BY <1>5, <2>1
<1>7. \A k, l \in 1..Len(Numbers(t)) : Numbers(t)[k] = Numbers(t)[l] => k = l
  <2> TAKE k, l \in 1..Len(Numbers(t))
  <2> HAVE Numbers(t)[k] = Numbers(t)[l]
  <2>1. k \in 1..(n - 1) /\ l \in 1..(n - 1)
    BY <1>5
  <2>2. s[k].number = s[l].number
    BY <2>1, <1>2, <1>5
  <2>. QED
    BY <1>1, <2>1, <2>2, <1>4
<1>8. Range(Numbers(t)) = Range(Numbers(s)) \ {s[n].number}
  <2>1. ASSUME NEW x \in Range(Numbers(t))
        PROVE  x \in Range(Numbers(s)) \ {s[n].number}
    <3>1. PICK k \in 1..(n - 1) : x = s[k].number
      BY <1>6
    <3>2. k \in 1..n /\ n \in 1..n /\ k # n
      BY <1>1
    <3>. QED
      BY <3>1, <3>2, <1>3, <1>4
  <2>2. ASSUME NEW x \in Range(Numbers(s)), x # s[n].number
        PROVE  x \in Range(Numbers(t))
    <3>1. PICK k \in 1..n : x = s[k].number
      BY <1>3
    <3>2. k \in 1..(n - 1)
      BY <3>1, <2>2, <1>1
    <3>. QED
      BY <3>1, <3>2, <1>6
  <2>. QED
    BY <2>1, <2>2
<1>9. IsInjective(Numbers(t))
  BY <1>5, <1>7, RangeOfArray
<1>10. Range(Numbers(s)) = {s[k].number : k \in 1..n}
  BY <1>3
<1>. QED
  BY <1>1, <1>8, <1>9, <1>10

LEMMA NumbersTail ==
  ASSUME NEW s \in Seq(Arrival), s # <<>>, IsInjective(Numbers(s))
  PROVE  /\ Head(s).number \in Range(Numbers(s))
         /\ IsInjective(Numbers(Tail(s)))
         /\ Range(Numbers(Tail(s))) = Range(Numbers(s)) \ {Head(s).number}
<1> DEFINE t == Tail(s)
           n == Len(s)
<1>1. n \in Nat \ {0} /\ Head(s) = s[1]
  OBVIOUS
<1>2. t \in Seq(Arrival) /\ Len(t) = n - 1 /\ \A k \in 1..(n - 1) : t[k] = s[k + 1]
  BY <1>1
<1>3. /\ Numbers(s) \in Seq(1..MaxArrivals) /\ Len(Numbers(s)) = n
      /\ \A k \in 1..n : Numbers(s)[k] = s[k].number
      /\ Range(Numbers(s)) = {s[k].number : k \in 1..n}
  BY NumbersTyped
<1>4. \A k, l \in 1..n : s[k].number = s[l].number => k = l
  <2>1. \A k, l \in 1..n : Numbers(s)[k] = Numbers(s)[l] => k = l
    BY <1>3, RangeOfArray
  <2>. QED
    BY <1>3, <2>1
<1>5. /\ Numbers(t) \in Seq(1..MaxArrivals) /\ Len(Numbers(t)) = n - 1
      /\ \A k \in 1..(n - 1) : Numbers(t)[k] = t[k].number
      /\ Range(Numbers(t)) = {t[k].number : k \in 1..(n - 1)}
  <2>1. t \in Seq(Arrival) /\ Len(t) = n - 1
    BY <1>2
  <2>. HIDE DEF t
  <2>2. /\ Numbers(t) \in Seq(1..MaxArrivals) /\ Len(Numbers(t)) = Len(t)
        /\ \A k \in 1..Len(t) : Numbers(t)[k] = t[k].number
        /\ Range(Numbers(t)) = {t[k].number : k \in 1..Len(t)}
    BY <2>1, NumbersTyped
  <2>. QED
    BY <2>1, <2>2
<1>6. Range(Numbers(t)) = {s[k + 1].number : k \in 1..(n - 1)}
  <2>1. \A k \in 1..(n - 1) : t[k].number = s[k + 1].number
    BY <1>2
  <2>. HIDE DEF t
  <2>. QED
    BY <1>5, <2>1
<1>7. \A k, l \in 1..Len(Numbers(t)) : Numbers(t)[k] = Numbers(t)[l] => k = l
  <2> TAKE k, l \in 1..Len(Numbers(t))
  <2> HAVE Numbers(t)[k] = Numbers(t)[l]
  <2>1. k \in 1..(n - 1) /\ l \in 1..(n - 1)
    BY <1>5
  <2>2. s[k + 1].number = s[l + 1].number
    <3>1. Numbers(t)[k] = s[k + 1].number /\ Numbers(t)[l] = s[l + 1].number
      BY <2>1, <1>2, <1>5
    <3>. QED
      BY <3>1
  <2>3. k + 1 \in 1..n /\ l + 1 \in 1..n
    BY <2>1, <1>1
  <2>. QED
    BY <2>1, <2>2, <2>3, <1>4
<1>8. Range(Numbers(t)) = Range(Numbers(s)) \ {s[1].number}
  <2>1. ASSUME NEW x \in Range(Numbers(t))
        PROVE  x \in Range(Numbers(s)) \ {s[1].number}
    <3>1. PICK k \in 1..(n - 1) : x = s[k + 1].number
      BY <1>6
    <3>2. k + 1 \in 1..n /\ 1 \in 1..n /\ k + 1 # 1
      BY <1>1
    <3>. QED
      BY <3>1, <3>2, <1>3, <1>4
  <2>2. ASSUME NEW x \in Range(Numbers(s)), x # s[1].number
        PROVE  x \in Range(Numbers(t))
    <3>1. PICK k \in 1..n : x = s[k].number
      BY <1>3
    <3>2. k - 1 \in 1..(n - 1) /\ (k - 1) + 1 = k
      BY <3>1, <2>2, <1>1
    <3>. QED
      BY <3>1, <3>2, <1>6
  <2>. QED
    BY <2>1, <2>2
<1>9. IsInjective(Numbers(t))
  BY <1>5, <1>7, RangeOfArray
<1>10. Range(Numbers(s)) = {s[k].number : k \in 1..n}
  BY <1>3
<1>. QED
  BY <1>1, <1>8, <1>9, <1>10

(* x is new at a station, or leaves the last one that it was at *)
LEMMA OwnedAfterAdd ==
  ASSUME NEW N, NEW A, NEW B, NEW D, OwnedBy(N, A, D), NEW x, x \notin D, NEW to \in N,
         IsInjective(B[to]), Range(B[to]) = Range(A[to]) \cup {x},
         \A a \in N \ {to} : B[a] = A[a]
  PROVE  OwnedBy(N, B, D \cup {x})
<1>1. \A a \in N : /\ IsInjective(B[a])
                   /\ Range(A[a]) \subseteq Range(B[a])
                   /\ Range(B[a]) \subseteq Range(A[a]) \cup (IF a = to THEN {x} ELSE {})
                   /\ Range(A[a]) \subseteq D
  BY DEF OwnedBy
<1>2. \A a, b \in N : a # b => Range(B[a]) \cap Range(B[b]) = {}
  <2> TAKE a, b \in N
  <2> HAVE a # b
  <2>1. Range(A[a]) \cap Range(A[b]) = {}
    BY DEF OwnedBy
  <2>. QED
    BY <1>1, <2>1
<1>3. \A y \in D \cup {x} : \E a \in N : y \in Range(B[a])
  <2> TAKE y \in D \cup {x}
  <2>1. CASE y = x
    BY <2>1
  <2>2. CASE y \in D
    <3>1. PICK a \in N : y \in Range(A[a])
      BY <2>2 DEF OwnedBy
    <3>. QED
      BY <3>1, <1>1
  <2>. QED
    BY <2>1, <2>2
<1>. QED
  BY <1>1, <1>2, <1>3 DEF OwnedBy

LEMMA OneElement ==
  ASSUME NEW x
  PROVE  IsInjective(<<x>>) /\ Range(<<x>>) = {x}
  BY DEF IsInjective, Range

LEMMA NumbersEmpty == Numbers(<<>>) = <<>>
<1>1. <<>> \in Seq(Arrival) /\ Len(<<>>) = 0
  BY EmptyRange
<1>2. Numbers(<<>>) \in Seq(1..MaxArrivals) /\ Len(Numbers(<<>>)) = 0
  BY <1>1, NumbersTyped
<1>. QED
  BY <1>2, ZeroLength

LEMMA AtEach ==
  ASSUME NEW i
  PROVE  /\ At(i)["integrated"] = integrated[i]
         /\ At(i)["queue"] = Numbers(queue[i])
         /\ At(i)["hand"] = IF serverPc[i] \in {"lock", "push"} THEN <<buffer[i].number>> ELSE <<>>
         /\ At(i)["socket"] = Numbers(socket[i])
  BY DEF At, Stations

LEMMA AtEachNext ==
  ASSUME NEW i
  PROVE  /\ At(i)'["integrated"] = integrated'[i]
         /\ At(i)'["queue"] = Numbers(queue'[i])
         /\ At(i)'["hand"] =
              IF serverPc'[i] \in {"lock", "push"} THEN <<buffer'[i].number>> ELSE <<>>
         /\ At(i)'["socket"] = Numbers(socket'[i])
  BY DEF At, Stations, Numbers

-----------------------------------------------------------------------------
LEMMA InitWay == Init => \A i \in Islands : MigrantInv(i)
<1> SUFFICES ASSUME Init, NEW i \in Islands PROVE MigrantInv(i)
  OBVIOUS
<1>1. /\ arrived[i] = 0 /\ integrated[i] = <<>> /\ queue[i] = <<>> /\ socket[i] = <<>>
      /\ serverPc[i] = "recvfrom"
  BY DEF Init
<1>2. OnTheWay(i)
  <2>1. 1..arrived[i] = {}
    BY <1>1
  <2>2. \A a \in Stations : At(i)[a] = <<>>
    BY <1>1, AtEach, NumbersEmpty DEF Stations
  <2>3. OwnedBy(Stations, At(i), {})
    BY <2>2, EmptyRange DEF OwnedBy
  <2>. QED
    BY <2>1, <2>3 DEF OnTheWay
<1>3. Intact(i)
  <2>1. Len(socket[i]) = 0 /\ Len(queue[i]) = 0
    BY <1>1, EmptyRange
  <2>. QED
    BY <1>1, <2>1 DEF Intact
<1>. QED
  BY <1>2, <1>3 DEF MigrantInv

(* an island whose datagrams a step leaves where they are *)
Unmoved(j) ==
  /\ integrated'[j] = integrated[j] /\ queue'[j] = queue[j] /\ socket'[j] = socket[j]
  /\ serverPc'[j] = serverPc[j] /\ buffer'[j] = buffer[j] /\ clean'[j] = clean[j]
  /\ arrived'[j] = arrived[j]

LEMMA UnmovedInv ==
  ASSUME NEW j \in Islands, MigrantInv(j), Unmoved(j)
  PROVE  MigrantInv(j)'
<1>1. At(j)' = At(j)
  BY DEF At, Unmoved, Numbers
<1>2. OnTheWay(j)'
  BY <1>1 DEF OnTheWay, MigrantInv, Unmoved
<1>3. Intact(j)'
  BY DEF Intact, MigrantInv, Unmoved
<1>. QED
  BY <1>2, <1>3 DEF MigrantInv

LEMMA PopBackWay ==
  ASSUME Inv, NEW i \in Islands, MigrantInv(i), PopBack(i)
  PROVE  MigrantInv(i)'
<1> DEFINE n == Last(queue[i]).number
<1>1. /\ queue[i] \in Seq(Arrival) /\ queue[i] # <<>> /\ line[i] = Last(queue[i])
      /\ integrated[i] \in Seq(1..MaxArrivals)
  BY DEF PopBack, MainAt, Inv, TypeOK, IslandInv, SizeStillHolds, Carried
<1>2. n \in 1..MaxArrivals
  <2>1. Last(queue[i]) \in Arrival
    BY <1>1, LastFrontTyped
  <2>. QED
    BY <2>1 DEF Arrival
<1>3. /\ queue'[i] = Front(queue[i]) /\ integrated'[i] = Append(integrated[i], n)
      /\ socket'[i] = socket[i] /\ arrived'[i] = arrived[i]
      /\ serverPc'[i] = serverPc[i] /\ buffer'[i] = buffer[i] /\ clean'[i] = clean[i]
  BY <1>1 DEF PopBack, Inv, TypeOK, serverVars, netVars
<1>4. PICK D : D = 1..arrived[i] /\ OwnedBy(Stations, At(i), D)
  BY DEF MigrantInv, OnTheWay
<1>5. /\ IsInjective(Numbers(queue[i])) /\ IsInjective(integrated[i])
      /\ Range(Numbers(queue[i])) \cap Range(integrated[i]) = {}
  BY <1>4, AtEach DEF OwnedBy, Stations
<1>6. /\ n \in Range(Numbers(queue[i]))
      /\ IsInjective(Numbers(queue'[i]))
      /\ Range(Numbers(queue'[i])) = Range(Numbers(queue[i])) \ {n}
  BY <1>1, <1>3, <1>5, NumbersFront
<1>7. IsInjective(integrated'[i]) /\ Range(integrated'[i]) = Range(integrated[i]) \cup {n}
  <2>1. n \notin Range(integrated[i]) /\ IsInjective(integrated[i])
    BY <1>5, <1>6
  <2>. DEFINE s == integrated[i]
              S == 1..MaxArrivals
  <2>2. s \in Seq(S) /\ n \in S /\ IsInjective(s) /\ n \notin Range(s)
    BY <1>1, <1>2, <2>1
  <2>. HIDE DEF n, s, S
  <2>3. IsInjective(Append(s, n)) /\ Range(Append(s, n)) = Range(s) \cup {n}
    BY <2>2, AppendRange
  <2>. QED
    BY <1>3, <2>3 DEF s
<1>8. \A a \in Stations \ {"queue", "integrated"} : At(i)'[a] = At(i)[a]
  <2>1. At(i)'["hand"] = At(i)["hand"] /\ At(i)'["socket"] = At(i)["socket"]
    BY <1>3, AtEach, AtEachNext
  <2>. QED
    BY <2>1 DEF Stations
<1>9. OwnedBy(Stations, At(i)', D)
  <2>1. n \in Range(At(i)["queue"])
    BY <1>6, AtEach
  <2>2. /\ IsInjective(At(i)'["queue"])
        /\ Range(At(i)'["queue"]) = Range(At(i)["queue"]) \ {n}
    BY <1>6, AtEach, AtEachNext
  <2>3. /\ IsInjective(At(i)'["integrated"])
        /\ Range(At(i)'["integrated"]) = Range(At(i)["integrated"]) \cup {n}
    BY <1>7, AtEach, AtEachNext
  <2>4. "queue" \in Stations /\ "integrated" \in Stations /\ "queue" # "integrated"
    BY DEF Stations
  <2>. QED
    BY <1>4, <1>8, <2>1, <2>2, <2>3, <2>4, OwnedAfterMove
<1>10. OnTheWay(i)'
  BY <1>3, <1>4, <1>9 DEF OnTheWay
<1>11. Intact(i)'
  <2>1. Len(queue'[i]) = Len(queue[i]) - 1 /\ Len(queue[i]) \in Nat
    BY <1>1, <1>3, FrontElements
  <2>2. \A k \in 1..Len(queue'[i]) : k \in 1..Len(queue[i]) /\ queue'[i][k] = queue[i][k]
    BY <1>1, <1>3, <2>1, FrontElements
  <2>. QED
    BY <1>3, <2>2 DEF Intact, MigrantInv
<1>. QED
  BY <1>10, <1>11 DEF MigrantInv

LEMMA RecvfromWay ==
  ASSUME Inv, NEW i \in Islands, MigrantInv(i), Recvfrom(i)
  PROVE  MigrantInv(i)'
<1> DEFINE s == socket[i]
           n == Head(s).number
<1>1. s \in Seq(Arrival) /\ s # <<>> /\ arrived[i] \in Nat
  BY DEF Recvfrom, Inv, TypeOK
<1>2. PICK f \in IF clean[i] THEN {Head(s).fitness} ELSE Fitness :
        buffer' = [buffer EXCEPT ![i] = [Head(s) EXCEPT !.fitness = f]]
  BY DEF Recvfrom
<1>3. Head(s) \in Arrival
  BY <1>1, HeadTailTyped
<1>4. /\ buffer'[i].number = n /\ buffer'[i].sent = Head(s).sent
      /\ clean[i] => buffer'[i].fitness = Head(s).fitness
  BY <1>2, <1>3 DEF Inv, TypeOK, Arrival
<1>5. /\ serverPc[i] = "recvfrom" /\ serverPc'[i] = "lock" /\ socket'[i] = Tail(s)
      /\ queue'[i] = queue[i] /\ integrated'[i] = integrated[i]
      /\ arrived'[i] = arrived[i] /\ clean'[i] = clean[i]
  BY DEF Recvfrom, ServerAt, ServerTo, mainVars, Inv, TypeOK
<1>6. PICK D : D = 1..arrived[i] /\ OwnedBy(Stations, At(i), D)
  BY DEF MigrantInv, OnTheWay
<1>7. IsInjective(Numbers(s))
  BY <1>6, AtEach DEF OwnedBy, Stations
<1>8. /\ n \in Range(Numbers(s))
      /\ IsInjective(Numbers(Tail(s)))
      /\ Range(Numbers(Tail(s))) = Range(Numbers(s)) \ {n}
  BY <1>1, <1>7, NumbersTail
<1>9. OwnedBy(Stations, At(i)', D)
  <2>1. n \in Range(At(i)["socket"])
    BY <1>8, AtEach
  <2>2. /\ IsInjective(At(i)'["socket"])
        /\ Range(At(i)'["socket"]) = Range(At(i)["socket"]) \ {n}
    BY <1>5, <1>8, AtEach, AtEachNext
  <2>3. At(i)["hand"] = <<>> /\ At(i)'["hand"] = <<n>>
    BY <1>4, <1>5, AtEach, AtEachNext
  <2>4. /\ IsInjective(At(i)'["hand"])
        /\ Range(At(i)'["hand"]) = Range(At(i)["hand"]) \cup {n}
    BY <2>3, OneElement, EmptyRange
  <2>5. \A a \in Stations \ {"socket", "hand"} : At(i)'[a] = At(i)[a]
    <3>1. /\ At(i)'["integrated"] = At(i)["integrated"]
          /\ At(i)'["queue"] = At(i)["queue"]
      BY <1>5, AtEach, AtEachNext
    <3>. QED
      BY <3>1 DEF Stations
  <2>6. "socket" \in Stations /\ "hand" \in Stations /\ "socket" # "hand"
    BY DEF Stations
  <2>. QED
    BY <1>6, <2>1, <2>2, <2>4, <2>5, <2>6, OwnedAfterMove
<1>10. OnTheWay(i)'
  BY <1>5, <1>6, <1>9 DEF OnTheWay
<1>11. Intact(i)'
  <2>1. /\ Len(s) \in Nat \ {0} /\ Head(s) = s[1] /\ Len(Tail(s)) = Len(s) - 1
        /\ \A k \in 1..(Len(s) - 1) : Tail(s)[k] = s[k + 1]
    BY <1>1
  <2>2. ASSUME NEW k \in 1..Len(socket'[i])
        PROVE  /\ socket'[i][k].number = (arrived'[i] - Len(socket'[i])) + k
               /\ socket'[i][k].fitness = socket'[i][k].sent
    <3>1. k \in 1..(Len(s) - 1) /\ k + 1 \in 1..Len(s)
      BY <1>5, <2>1
    <3>2. socket'[i][k] = s[k + 1]
      BY <1>5, <2>1, <3>1
    <3>3. s[k + 1].number = (arrived[i] - Len(s)) + (k + 1) /\ s[k + 1].fitness = s[k + 1].sent
      BY <3>1 DEF Intact, MigrantInv
    <3>4. (arrived[i] - Len(s)) + (k + 1) = (arrived'[i] - Len(socket'[i])) + k
      BY <1>1, <1>5, <2>1, <3>1
    <3>. QED
      BY <3>2, <3>3, <3>4
  <2>3. n = (arrived[i] - Len(s)) + 1 /\ Head(s).fitness = Head(s).sent
    <3>1. 1 \in 1..Len(s)
      BY <2>1
    <3>. QED
      BY <2>1, <3>1 DEF Intact, MigrantInv
  <2>4. ~clean[i] => n = 1
    BY <1>1, <1>5, <2>1, <2>3 DEF Intact, MigrantInv
  <2>5. buffer'[i].number > 1 => buffer'[i].fitness = buffer'[i].sent
    BY <1>4, <2>3, <2>4
  <2>. QED
    BY <1>5, <2>2, <2>5 DEF Intact, MigrantInv
<1>. QED
  BY <1>10, <1>11 DEF MigrantInv

LEMMA AppendNumber ==
  ASSUME NEW s \in Seq(Arrival), NEW e \in Arrival, IsInjective(Numbers(s)),
         e.number \notin Range(Numbers(s))
  PROVE  /\ IsInjective(Numbers(Append(s, e)))
         /\ Range(Numbers(Append(s, e))) = Range(Numbers(s)) \cup {e.number}
<1> DEFINE t == Numbers(s)
           n == e.number
           S == 1..MaxArrivals
<1>1. t \in Seq(S) /\ IsInjective(t) /\ n \in S /\ n \notin Range(t)
  BY NumbersTyped DEF Arrival
<1>2. Numbers(Append(s, e)) = Append(t, n)
  BY NumbersAppend
<1>. HIDE DEF t, n, S
<1>3. IsInjective(Append(t, n)) /\ Range(Append(t, n)) = Range(t) \cup {n}
  BY <1>1, AppendRange
<1>. QED
  BY <1>2, <1>3 DEF t, n

LEMMA AppendElements ==
  ASSUME NEW s \in Seq(Arrival), NEW e \in Arrival
  PROVE  /\ Append(s, e) \in Seq(Arrival)
         /\ Len(s) \in Nat /\ Len(Append(s, e)) = Len(s) + 1
         /\ \A k \in 1..Len(s) : Append(s, e)[k] = s[k]
         /\ Append(s, e)[Len(s) + 1] = e
  OBVIOUS

LEMMA PushBackWay ==
  ASSUME Inv, NEW i \in Islands, MigrantInv(i), PushBack(i)
  PROVE  MigrantInv(i)'
<1> DEFINE n == buffer[i].number
<1>1. buffer[i] \in Arrival /\ queue[i] \in Seq(Arrival)
  BY DEF PushBack, ServerAt, Inv, TypeOK, IslandInv, Carried
<1>2. /\ serverPc[i] = "push" /\ serverPc'[i] = "unlock" /\ queue'[i] = Append(queue[i], buffer[i])
      /\ socket'[i] = socket[i] /\ integrated'[i] = integrated[i] /\ buffer'[i] = buffer[i]
      /\ arrived'[i] = arrived[i] /\ clean'[i] = clean[i]
  BY DEF PushBack, ServerAt, ServerTo, mainVars, netVars, Inv, TypeOK
<1>3. PICK D : D = 1..arrived[i] /\ OwnedBy(Stations, At(i), D)
  BY DEF MigrantInv, OnTheWay
<1>4. At(i)["hand"] = <<n>> /\ At(i)'["hand"] = <<>>
  BY <1>2, AtEach, AtEachNext
<1>5. /\ Range(At(i)["hand"]) = {n}
      /\ IsInjective(At(i)'["hand"]) /\ Range(At(i)'["hand"]) = {}
  BY <1>4, OneElement, EmptyRange
<1>6. IsInjective(Numbers(queue[i])) /\ n \notin Range(Numbers(queue[i]))
  <2>1. IsInjective(At(i)["queue"]) /\ Range(At(i)["queue"]) \cap Range(At(i)["hand"]) = {}
    BY <1>3 DEF OwnedBy, Stations
  <2>. QED
    BY <1>5, <2>1, AtEach
<1>7. /\ IsInjective(Numbers(queue'[i]))
      /\ Range(Numbers(queue'[i])) = Range(Numbers(queue[i])) \cup {n}
  BY <1>1, <1>2, <1>6, AppendNumber
<1>8. OwnedBy(Stations, At(i)', D)
  <2>1. n \in Range(At(i)["hand"])
    BY <1>5
  <2>2. Range(At(i)'["hand"]) = Range(At(i)["hand"]) \ {n}
    BY <1>5
  <2>3. /\ IsInjective(At(i)'["queue"])
        /\ Range(At(i)'["queue"]) = Range(At(i)["queue"]) \cup {n}
    BY <1>7, AtEach, AtEachNext
  <2>4. \A a \in Stations \ {"hand", "queue"} : At(i)'[a] = At(i)[a]
    <3>1. /\ At(i)'["integrated"] = At(i)["integrated"]
          /\ At(i)'["socket"] = At(i)["socket"]
      BY <1>2, AtEach, AtEachNext
    <3>. QED
      BY <3>1 DEF Stations
  <2>5. "hand" \in Stations /\ "queue" \in Stations /\ "hand" # "queue"
    BY DEF Stations
  <2>. QED
    BY <1>3, <1>5, <2>1, <2>2, <2>3, <2>4, <2>5, OwnedAfterMove
<1>9. OnTheWay(i)'
  BY <1>2, <1>3, <1>8 DEF OnTheWay
<1>10. Intact(i)'
  <2>1. ASSUME NEW k \in 1..Len(queue'[i])
        PROVE  queue'[i][k].number > 1 => queue'[i][k].fitness = queue'[i][k].sent
    <3>1. k \in 1..Len(queue[i]) \/ k = Len(queue[i]) + 1
      BY <1>1, <1>2, AppendElements
    <3>2. CASE k \in 1..Len(queue[i])
      <4>1. queue'[i][k] = queue[i][k]
        BY <1>1, <1>2, <3>2, AppendElements
      <4>. QED
        BY <3>2, <4>1 DEF Intact, MigrantInv
    <3>3. CASE k = Len(queue[i]) + 1
      <4>1. queue'[i][k] = buffer[i]
        BY <1>1, <1>2, <3>3, AppendElements
      <4>. QED
        BY <1>2, <4>1 DEF Intact, MigrantInv
    <3>. QED
      BY <3>1, <3>2, <3>3
  <2>. QED
    BY <1>2, <2>1 DEF Intact, MigrantInv
<1>. QED
  BY <1>9, <1>10 DEF MigrantInv

LEMMA ServerLockWay ==
  ASSUME Inv, NEW i \in Islands, MigrantInv(i), ServerLock(i)
  PROVE  MigrantInv(i)'
<1>1. /\ serverPc[i] = "lock" /\ serverPc'[i] = "push" /\ queue'[i] = queue[i]
      /\ socket'[i] = socket[i] /\ integrated'[i] = integrated[i] /\ buffer'[i] = buffer[i]
      /\ arrived'[i] = arrived[i] /\ clean'[i] = clean[i]
  BY DEF ServerLock, ServerAt, ServerTo, mainVars, netVars, Inv, TypeOK
<1>2. At(i)' = At(i)
  BY <1>1 DEF At, Numbers
<1>. QED
  BY <1>1, <1>2 DEF MigrantInv, OnTheWay, Intact

LEMMA ServerUnlockWay ==
  ASSUME Inv, NEW i \in Islands, MigrantInv(i), ServerUnlock(i)
  PROVE  MigrantInv(i)'
<1>1. /\ serverPc[i] = "unlock" /\ serverPc'[i] = "recvfrom" /\ queue'[i] = queue[i]
      /\ socket'[i] = socket[i] /\ integrated'[i] = integrated[i]
      /\ arrived'[i] = arrived[i] /\ clean'[i] = TRUE
  BY DEF ServerUnlock, ServerAt, ServerTo, mainVars, netVars, Inv, TypeOK
<1>2. At(i)' = At(i)
  BY <1>1 DEF At, Numbers
<1>. QED
  BY <1>1, <1>2 DEF MigrantInv, OnTheWay, Intact

(* The socket of the island that is sent to gets the next number. *)
LEMMA ArriveWay ==
  ASSUME Inv, NEW d \in network, Arrive(d), MigrantInv(d.to)
  PROVE  MigrantInv(d.to)'
<1> DEFINE i == d.to
           n == arrived[i] + 1
           e == [number |-> n, sent |-> d.fitness, fitness |-> d.fitness]
<1>1. i \in Islands /\ d.fitness \in Fitness
  BY DEF Inv, TypeOK, Datagram
<1>2. arrived[i] \in Nat /\ socket[i] \in Seq(Arrival) /\ n \in 1..MaxArrivals
  BY <1>1, BoundsAssumption DEF Arrive, Inv, TypeOK
<1>3. e \in Arrival /\ e.number = n /\ e.fitness = e.sent
  BY <1>1, <1>2 DEF Arrival
<1>4. /\ arrived'[i] = n /\ socket'[i] = Append(socket[i], e)
      /\ serverPc'[i] = serverPc[i] /\ queue'[i] = queue[i] /\ integrated'[i] = integrated[i]
      /\ buffer'[i] = buffer[i] /\ clean'[i] = clean[i]
  BY <1>1 DEF Arrive, mainVars, serverVars, Inv, TypeOK
<1>5. PICK D : D = 1..arrived[i] /\ OwnedBy(Stations, At(i), D)
  BY DEF MigrantInv, OnTheWay
<1>6. n \notin D /\ D \cup {n} = 1..n
  BY <1>2, <1>5
<1>. HIDE DEF i, n, e
<1>7. IsInjective(Numbers(socket[i])) /\ n \notin Range(Numbers(socket[i]))
  <2>1. IsInjective(At(i)["socket"]) /\ Range(At(i)["socket"]) \subseteq D
    BY <1>5 DEF OwnedBy, Stations
  <2>. QED
    BY <1>6, <2>1, AtEach
<1>8. /\ IsInjective(Numbers(socket'[i]))
      /\ Range(Numbers(socket'[i])) = Range(Numbers(socket[i])) \cup {n}
  BY <1>2, <1>3, <1>4, <1>7, AppendNumber
<1>9. OwnedBy(Stations, At(i)', D \cup {n})
  <2>1. /\ IsInjective(At(i)'["socket"])
        /\ Range(At(i)'["socket"]) = Range(At(i)["socket"]) \cup {n}
    BY <1>8, AtEach, AtEachNext
  <2>2. \A a \in Stations \ {"socket"} : At(i)'[a] = At(i)[a]
    <3>1. /\ At(i)'["integrated"] = At(i)["integrated"]
          /\ At(i)'["queue"] = At(i)["queue"]
          /\ At(i)'["hand"] = At(i)["hand"]
      BY <1>4, AtEach, AtEachNext
    <3>. QED
      BY <3>1 DEF Stations
  <2>3. "socket" \in Stations
    BY DEF Stations
  <2>. QED
    BY <1>5, <1>6, <2>1, <2>2, <2>3, OwnedAfterAdd
<1>10. OnTheWay(i)'
  BY <1>4, <1>5, <1>6, <1>9 DEF OnTheWay
<1>11. Intact(i)'
  <2>1. Len(socket[i]) \in Nat /\ Len(socket'[i]) = Len(socket[i]) + 1
    BY <1>2, <1>3, <1>4, AppendElements
  <2>2. n = arrived[i] + 1
    BY DEF n
  <2>3. ASSUME NEW k \in 1..Len(socket'[i])
        PROVE  /\ socket'[i][k].number = (arrived'[i] - Len(socket'[i])) + k
               /\ socket'[i][k].fitness = socket'[i][k].sent
    <3>1. CASE k \in 1..Len(socket[i])
      <4>1. socket'[i][k] = socket[i][k]
        BY <1>2, <1>3, <1>4, <3>1, AppendElements
      <4>2. /\ socket[i][k].number = (arrived[i] - Len(socket[i])) + k
            /\ socket[i][k].fitness = socket[i][k].sent
        BY <3>1 DEF Intact, MigrantInv, i
      <4>3. (arrived[i] - Len(socket[i])) + k = (arrived'[i] - Len(socket'[i])) + k
        <5>1. ASSUME NEW x \in Int, NEW y \in Int, NEW z \in Int
              PROVE  (x - y) + z = ((x + 1) - (y + 1)) + z
          OBVIOUS
        <5>2. arrived[i] \in Int /\ Len(socket[i]) \in Int /\ k \in Int
          BY <1>2, <2>1, <3>1
        <5>3. (arrived[i] - Len(socket[i])) + k
                = ((arrived[i] + 1) - (Len(socket[i]) + 1)) + k
          BY <5>1, <5>2, Zenon
        <5>. QED
          BY <1>4, <2>1, <2>2, <5>3, Zenon
      <4>. QED
        BY <4>1, <4>2, <4>3
    <3>2. CASE k = Len(socket[i]) + 1
      <4>1. socket'[i][k] = e
        BY <1>2, <1>3, <1>4, <3>2, AppendElements
      <4>2. (arrived'[i] - Len(socket'[i])) + k = n
        BY <1>2, <1>4, <2>1, <2>2, <3>2
      <4>. QED
        BY <1>3, <4>1, <4>2
    <3>. QED
      BY <2>1, <3>1, <3>2
  <2>4. arrived[i] = Len(socket[i]) => arrived'[i] = Len(socket'[i])
    BY <1>4, <2>1, <2>2
  <2>. QED
    BY <1>4, <2>3, <2>4 DEF Intact, MigrantInv, i
<1>. QED
  BY <1>10, <1>11 DEF MigrantInv, i

(* A step leaves the datagrams of all islands but one where they are, and most *)
(* steps those of all.                                                         *)
LEMMA NextWay == WayInv /\ [Next]_vars => WayInv'
<1> SUFFICES ASSUME WayInv, [Next]_vars PROVE WayInv'
  OBVIOUS
<1>1. Inv /\ Inv' /\ \A j \in Islands : MigrantInv(j)
  BY NextInv DEF WayInv
<1>2. ASSUME NEW i \in Islands, Main(i)
      PROVE  \A j \in Islands : MigrantInv(j)'
  <2>1. CASE PopBack(i)
    <3>1. \A j \in Islands : j # i => Unmoved(j)
      BY <1>1, <2>1 DEF PopBack, serverVars, netVars, Unmoved, Inv, TypeOK
    <3>. QED
      BY <1>1, <2>1, <3>1, PopBackWay, UnmovedInv
  <2>2. CASE ~PopBack(i)
    <3>1. \A j \in Islands : Unmoved(j)
      BY <1>2, <2>2 DEF Main, CheckCriteria, SendIndividual, Evolve, CheckSize, ReadDataLock,
         ReadBack, ReadDataUnlock, ReturnFromMain, serverVars, netVars, Unmoved
    <3>. QED
      BY <1>1, <3>1, UnmovedInv
  <2>. QED
    BY <2>1, <2>2
<1>3. ASSUME NEW i \in Islands, Server(i)
      PROVE  \A j \in Islands : MigrantInv(j)'
  <2>1. \A j \in Islands : j # i => Unmoved(j)
    <3>1. CASE Recvfrom(i)
      BY <1>1, <3>1 DEF Recvfrom, ServerTo, mainVars, netVars, Unmoved, Inv, TypeOK
    <3>2. CASE ServerLock(i)
      BY <1>1, <3>2 DEF ServerLock, ServerTo, mainVars, netVars, Unmoved, Inv, TypeOK
    <3>3. CASE PushBack(i)
      BY <1>1, <3>3 DEF PushBack, ServerTo, mainVars, netVars, Unmoved, Inv, TypeOK
    <3>4. CASE ServerUnlock(i)
      BY <1>1, <3>4 DEF ServerUnlock, ServerTo, mainVars, netVars, Unmoved, Inv, TypeOK
    <3>. QED
      BY <1>3, <3>1, <3>2, <3>3, <3>4 DEF Server
  <2>2. MigrantInv(i)'
    BY <1>1, <1>3, RecvfromWay, ServerLockWay, PushBackWay, ServerUnlockWay
       DEF Server
  <2>. QED
    BY <1>1, <2>1, <2>2, UnmovedInv
<1>4. ASSUME NEW d \in network, Arrive(d)
      PROVE  \A j \in Islands : MigrantInv(j)'
  <2>1. d.to \in Islands
    BY <1>1 DEF Inv, TypeOK, Datagram
  <2>2. \A j \in Islands : j # d.to => Unmoved(j)
    BY <1>1, <1>4 DEF Arrive, mainVars, serverVars, Unmoved, Inv, TypeOK
  <2>3. MigrantInv(d.to)'
    BY <1>1, <1>4, <2>1, ArriveWay
  <2>. QED
    BY <1>1, <2>2, <2>3, UnmovedInv
<1>5. CASE (\E d \in network : Lose(d)) \/ UNCHANGED vars
  <2>1. \A j \in Islands : Unmoved(j)
    BY <1>5 DEF Lose, vars, mainVars, serverVars, netVars, Unmoved
  <2>. QED
    BY <1>1, <2>1, UnmovedInv DEF WayInv
<1>6. CASE \E i \in Islands : Main(i)
  BY <1>1, <1>2, <1>6 DEF WayInv
<1>7. CASE \E i \in Islands : Server(i)
  BY <1>1, <1>3, <1>7 DEF WayInv
<1>8. CASE \E d \in network : Arrive(d)
  BY <1>1, <1>4, <1>8 DEF WayInv
<1>. QED
  BY <1>5, <1>6, <1>7, <1>8 DEF Next, Network

LEMMA WayInvAlways == Spec => []WayInv
<1>1. Init => WayInv
  BY InitInv, InitWay DEF WayInv
<1>. QED
  BY <1>1, NextWay, PTL DEF Spec

(* However the two threads interleave, and however often a datagram is lost on *)
(* the network or copied: each one that arrives becomes a parent at most once, *)
(* and is where it can still become one or has been.                           *)
THEOREM MigrantsOnce == Spec => []EachArrivalOnce
<1>1. WayInv => EachArrivalOnce
  <2> SUFFICES ASSUME WayInv, NEW i \in Islands
               PROVE  /\ IsInjective(Whereabouts(i))
                      /\ ToSet(Whereabouts(i)) = 1..arrived[i]
    BY DEF EachArrivalOnce
  <2> DEFINE S == 1..MaxArrivals
             g == integrated[i]
             q == Numbers(queue[i])
             h == At(i)["hand"]
             s == Numbers(socket[i])
  <2>1. PICK D : D = 1..arrived[i] /\ OwnedBy(Stations, At(i), D)
    BY DEF WayInv, MigrantInv, OnTheWay
  <2>2. Whereabouts(i) = ((g \o q) \o h) \o s
    BY AtEach DEF Whereabouts
  <2>3. g \in Seq(S) /\ q \in Seq(S) /\ s \in Seq(S)
    BY NumbersTyped DEF WayInv, Inv, TypeOK
  <2>4. h \in Seq(S)
    <3>1. CASE serverPc[i] \in {"lock", "push"}
      <4>1. buffer[i] \in Arrival
        BY <3>1 DEF WayInv, Inv, IslandInv, Carried
      <4>2. buffer[i].number \in S
        BY <4>1 DEF Arrival
      <4>3. h = <<buffer[i].number>>
        BY <3>1, AtEach
      <4>4. <<buffer[i].number>> \in Seq(S)
        BY <4>2
      <4>. QED
        BY <4>3, <4>4
    <3>2. CASE serverPc[i] \notin {"lock", "push"}
      BY <3>2, AtEach, EmptyRange
    <3>. QED
      BY <3>1, <3>2
  <2>5. /\ IsInjective(g) /\ IsInjective(q) /\ IsInjective(h) /\ IsInjective(s)
        /\ Range(g) \cap Range(q) = {} /\ Range(g) \cap Range(h) = {}
        /\ Range(g) \cap Range(s) = {} /\ Range(q) \cap Range(h) = {}
        /\ Range(q) \cap Range(s) = {} /\ Range(h) \cap Range(s) = {}
        /\ ((Range(g) \cup Range(q)) \cup Range(h)) \cup Range(s) = D
    <3>1. At(i)["integrated"] = g /\ At(i)["queue"] = q /\ At(i)["socket"] = s
      BY AtEach
    <3>2. D = UNION {Range(At(i)[a]) : a \in Stations}
      BY <2>1 DEF OwnedBy
    <3>3. UNION {Range(At(i)[a]) : a \in Stations}
            = ((Range(g) \cup Range(q)) \cup Range(h)) \cup Range(s)
      BY <3>1 DEF Stations
    <3>4. /\ \A a \in Stations : IsInjective(At(i)[a])
          /\ \A a, b \in Stations : a # b => Range(At(i)[a]) \cap Range(At(i)[b]) = {}
      BY <2>1 DEF OwnedBy
    <3>. QED
      BY <3>1, <3>2, <3>3, <3>4 DEF Stations
  <2>. HIDE DEF S, g, q, h, s
  <2>6. /\ g \o q \in Seq(S) /\ IsInjective(g \o q)
        /\ Range(g \o q) = Range(g) \cup Range(q)
    BY <2>3, <2>5, ConcatRange
  <2> DEFINE u == g \o q
             v == u \o h
  <2>7. /\ v \in Seq(S) /\ IsInjective(v)
        /\ Range(v) = (Range(g) \cup Range(q)) \cup Range(h)
    <3>1. Range(u) = Range(g) \cup Range(q) /\ u \in Seq(S) /\ IsInjective(u)
      BY <2>6
    <3>. HIDE DEF u
    <3>2. Range(u) \cap Range(h) = {}
      BY <2>5, <3>1
    <3>. QED
      BY <2>4, <2>5, <3>1, <3>2, ConcatRange
  <2>8. IsInjective(v \o s) /\ Range(v \o s) = D
    <3>. HIDE DEF v
    <3>1. Range(v) \cap Range(s) = {}
      BY <2>5, <2>7
    <3>2. IsInjective(v \o s) /\ Range(v \o s) = Range(v) \cup Range(s)
      BY <2>3, <2>5, <2>7, <3>1, ConcatRange
    <3>. QED
      BY <2>5, <2>7, <3>2
  <2>9. ToSet(Whereabouts(i)) = Range(Whereabouts(i))
    BY DEF ToSet, Range
  <2>. QED
    BY <2>1, <2>2, <2>8, <2>9
<1>. QED
  BY <1>1, WayInvAlways, PTL

(* Only the first datagram of a process can be read into a buffer that is not  *)
(* clean behind it: of all that reach the queue later, any number of them, the *)
(* fitness is the one that was sent.                                           *)
THEOREM LaterMigrants == Spec => []LaterMigrantsIntact
<1>1. WayInv => LaterMigrantsIntact
  <2> SUFFICES ASSUME WayInv, NEW i \in Islands, NEW k \in DOMAIN queue[i],
                      queue[i][k].number > 1
               PROVE  queue[i][k].fitness = queue[i][k].sent
    BY DEF LaterMigrantsIntact
  <2>1. k \in 1..Len(queue[i])
    BY DEF WayInv, Inv, TypeOK
  <2>. QED
    BY <2>1 DEF WayInv, MigrantInv, Intact
<1>. QED
  BY <1>1, WayInvAlways, PTL
=============================================================================
