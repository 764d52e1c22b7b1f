--------------------------- MODULE CudaEvaluation ---------------------------
(***************************************************************************)
(* The evaluation of a population on several GPUs, as the CUDA template    *)
(* generates it (tpl/CUDA.tpl): the main thread spreads the individuals    *)
(* over the cards and wakes one thread per card through a pair of          *)
(* semaphores; each thread has its card compute its share and copies the   *)
(* fitness values back into the array fitnessTemp they all fill.           *)
(*                                                                         *)
(* The genome and the fitness of individual k of evaluation r are both     *)
(* <<r, k>>.  Index k of the program is k + 1 here, as is card k.  The     *)
(* share of a card is computed on real numbers where the program has       *)
(* floats.                                                                 *)
(***************************************************************************)
EXTENDS Integers, Sequences, FiniteSetsExt

CONSTANTS
  Configs,     \* the options and the machines of a run, see Config
  MaxRounds,   \* the evaluations of a run: the parents, then generations
  None         \* uninitialised memory

(* The cards of the machine are listed with their numbers of multiprocessors.  *)
(* A block of the kernel has at most maxThreads threads, which come in warps.  *)
Config == [fstgpu : Int, lstgpu : Int, multiProcessors : Seq(Nat \ {0}),
           warpSize : Nat \ {0}, maxThreads : Nat \ {0},
           popSize : Nat \ {0}, nbOffspring : Nat \ {0}]

ASSUME ConfigsAssumption ==
  Configs \subseteq Config /\ \A c \in Configs : c.warpSize <= c.maxThreads
ASSUME MaxRoundsAssumption == MaxRounds \in Nat \ {0}

VARIABLES
  config,
  mainPc,        \* where the main thread is
  round,         \* the evaluation under way: 1 is that of the parents
  next,          \* the card that the loop of wake_up_gpu_thread is at
  freeGPU,
  shares,        \* what dispatchPopulation has given to each card
  sem_in, sem_out,
  threadPc,      \* where the thread of a card is
  preliminaries, \* nbr_cudaPreliminaryProcess of a thread
  d_size,        \* the individuals that the memory of a card has room for
  launch,        \* the blocks and the threads in each that its kernel is given
  d_population,  \* those that it holds
  cudaBuffer,    \* the copies of the individuals to evaluate
  fitnessTemp,   \* where the cards' results go, None when deleted
  fitness,       \* what the individuals have been given
  failed         \* a kernel has failed, which is reported and no more

controlVars == <<mainPc, round, next, freeGPU>>
threadVars  == <<threadPc, preliminaries, d_size, launch, d_population, failed>>
semVars     == <<sem_in, sem_out>>
dataVars    == <<shares, cudaBuffer, fitnessTemp, fitness>>
vars == <<config, controlVars, threadVars, semVars, dataVars>>

-----------------------------------------------------------------------------
(* EASEAInit: the number of cards, or the reasons to refuse *)

UseAll(c) == c.lstgpu = 0 /\ c.fstgpu = 0

Refused(c) ==
  /\ ~UseAll(c)
  /\ \/ c.lstgpu - c.fstgpu > Len(c.multiProcessors)
     \/ c.fstgpu < 0
     \/ c.lstgpu > Len(c.multiProcessors)

num_gpus ==
  IF UseAll(config) THEN Len(config.multiProcessors) ELSE config.lstgpu - config.fstgpu

Gpus == 1..num_gpus

PopulationSize(r) == IF r = 1 THEN config.popSize ELSE config.nbOffspring

(* dispatchPopulation, whose two loops add up as they go *)
SumTo(s, k) == LET sum[j \in 0..k] == IF j = 0 THEN 0 ELSE sum[j - 1] + s[j] IN sum[k]

num_MP(g) == config.multiProcessors[config.fstgpu + g]
noTotalMP == SumTo([g \in Gpus |-> num_MP(g)], num_gpus)

Quota(g, n) == (n * num_MP(g) + noTotalMP - 1) \div noTotalMP

Start(g, n) == SumTo([h \in Gpus |-> Quota(h, n)], g - 1)

Dispatched(n) ==
  [g \in Gpus |->
     [indiv_start |-> Start(g, n),
      sh_pop_size |-> IF g # num_gpus THEN Quota(g, n) ELSE n - Start(g, n)]]

Share(g) == (shares[g].indiv_start + 1)..(shares[g].indiv_start + shares[g].sh_pop_size)

-----------------------------------------------------------------------------
(* InitialiseGPUs has started a thread per card; the parents are in cudaBuffer *)
Init ==
  /\ config \in Configs
  /\ mainPc = IF Refused(config) THEN "exit" ELSE "evaluate"
  /\ round = 1 /\ next = 1 /\ freeGPU = FALSE
  /\ shares = [g \in Gpus |-> None]
  /\ sem_in = [g \in Gpus |-> 0] /\ sem_out = [g \in Gpus |-> 0]
  /\ threadPc = [g \in Gpus |-> "sem_in"]
  /\ preliminaries = [g \in Gpus |-> 2]
  /\ d_size = [g \in Gpus |-> 0] /\ d_population = [g \in Gpus |-> <<>>]
  /\ launch = [g \in Gpus |-> [dimGrid |-> 0, dimBlock |-> 0]]
  /\ cudaBuffer = [k \in 1..Max({config.popSize, config.nbOffspring}) |->
                     IF k <= config.popSize THEN <<1, k>> ELSE None]
  /\ fitnessTemp = None /\ fitness = None
  /\ failed = FALSE

(* mutant of Evaluate: one flag for both, so that only the parents are dispatched *)
EvaluateDispatchesOnce ==
  /\ mainPc = "evaluate"
  /\ mainPc' = "post" /\ next' = 1
  /\ fitnessTemp' = [k \in 1..PopulationSize(round) |-> None]
  /\ shares' = IF round = 1 THEN Dispatched(PopulationSize(round)) ELSE shares
  /\ cudaBuffer' = [k \in DOMAIN cudaBuffer |->
                      IF round > 1 /\ k <= PopulationSize(round) THEN <<round, k>>
                                                                 ELSE cudaBuffer[k]]
  /\ UNCHANGED <<config, round, freeGPU, threadVars, semVars, fitness>>

(* evaluateParentPopulation and evaluateOffspringPopulation, before they wake *)
(* the threads: each of the two dispatches the first time it is called        *)
Evaluate ==
  /\ mainPc = "evaluate"
  /\ mainPc' = "post" /\ next' = 1
  /\ fitnessTemp' = [k \in 1..PopulationSize(round) |-> None]
  /\ shares' = IF round <= 2 THEN Dispatched(PopulationSize(round)) ELSE shares
  /\ cudaBuffer' = [k \in DOMAIN cudaBuffer |->
                      IF round > 1 /\ k <= PopulationSize(round) THEN <<round, k>>
                                                                 ELSE cudaBuffer[k]]
  /\ UNCHANGED <<config, round, freeGPU, threadVars, semVars, fitness>>

(* mutant of PostIn: every token goes to the first card *)
PostInFirst ==
  /\ mainPc = "post"
  /\ IF next <= num_gpus
       THEN /\ sem_in' = [sem_in EXCEPT ![1] = @ + 1]
            /\ next' = next + 1
            /\ UNCHANGED mainPc
       ELSE mainPc' = "collect" /\ next' = 1 /\ UNCHANGED sem_in
  /\ UNCHANGED <<config, round, freeGPU, threadVars, sem_out, dataVars>>

(* the first loop of wake_up_gpu_thread *)
PostIn ==
  /\ mainPc = "post"
  /\ IF next <= num_gpus
       THEN /\ sem_in' = [sem_in EXCEPT ![next] = @ + 1]
            /\ next' = next + 1
            /\ UNCHANGED mainPc
       ELSE mainPc' = "collect" /\ next' = 1 /\ UNCHANGED sem_in
  /\ UNCHANGED <<config, round, freeGPU, threadVars, sem_out, dataVars>>

AfterWakeUp == IF freeGPU THEN "freed" ELSE "read"

(* mutant of WaitOut: the main thread waits for the first card only *)
WaitOutFirst ==
  /\ mainPc = "collect"
  /\ IF next <= num_gpus
       THEN /\ next = 1 => sem_out[next] > 0
            /\ sem_out' = IF next = 1 THEN [sem_out EXCEPT ![next] = @ - 1] ELSE sem_out
            /\ next' = next + 1
            /\ UNCHANGED mainPc
       ELSE mainPc' = AfterWakeUp /\ UNCHANGED <<next, sem_out>>
  /\ UNCHANGED <<config, round, freeGPU, threadVars, sem_in, dataVars>>

(* the second one *)
WaitOut ==
  /\ mainPc = "collect"
  /\ IF next <= num_gpus
       THEN /\ sem_out[next] > 0
            /\ sem_out' = [sem_out EXCEPT ![next] = @ - 1]
            /\ next' = next + 1
            /\ UNCHANGED mainPc
       ELSE mainPc' = AfterWakeUp /\ UNCHANGED <<next, sem_out>>
  /\ UNCHANGED <<config, round, freeGPU, threadVars, sem_in, dataVars>>

(* the results become fitness values, and fitnessTemp is deleted *)
ReadFitness ==
  /\ mainPc = "read"
  /\ mainPc' = "evolve"
  /\ fitness' = fitnessTemp
  /\ fitnessTemp' = None
  /\ UNCHANGED <<config, round, next, freeGPU, threadVars, semVars, shares, cudaBuffer>>

(* the generation loop comes back with offspring, or it ends: EASEAFinal *)
Evolve ==
  /\ mainPc = "evolve"
  /\ \/ /\ round < MaxRounds
        /\ round' = round + 1
        /\ mainPc' = "evaluate"
        /\ UNCHANGED <<next, freeGPU>>
     \/ /\ freeGPU' = TRUE
        /\ mainPc' = "post" /\ next' = 1
        /\ UNCHANGED round
  /\ UNCHANGED <<config, threadVars, semVars, dataVars>>

Main == Evaluate \/ PostIn \/ WaitOut \/ ReadFitness \/ Evolve

-----------------------------------------------------------------------------
(* gpuThreadMain, while the process lives *)

ThreadStep(g, from, to) ==
  /\ mainPc # "exit"
  /\ threadPc[g] = from
  /\ threadPc' = [threadPc EXCEPT ![g] = to]

WaitIn(g) ==
  /\ ThreadStep(g, "sem_in", "woken")
  /\ sem_in[g] > 0
  /\ sem_in' = [sem_in EXCEPT ![g] = @ - 1]
  /\ UNCHANGED <<config, controlVars, preliminaries, d_size, launch, d_population,
                 failed, sem_out, dataVars>>

(* mutant of FreeDevice: what the second allocation gave is forgotten *)
FreeDeviceOnce(g) ==
  /\ freeGPU
  /\ ThreadStep(g, "woken", "ending")
  /\ d_size' = [d_size EXCEPT ![g] = IF preliminaries[g] = 0 THEN @ ELSE 0]
  /\ UNCHANGED <<config, controlVars, preliminaries, launch, d_population, failed,
                 semVars, dataVars>>

FreeDevice(g) ==
  /\ freeGPU
  /\ ThreadStep(g, "woken", "ending")
  /\ d_size' = [d_size EXCEPT ![g] = 0]
  /\ d_population' = [d_population EXCEPT ![g] = <<>>]
  /\ UNCHANGED <<config, controlVars, preliminaries, launch, failed, semVars, dataVars>>

(* How n individuals are spread over the cores of card g: the loop adds a      *)
(* block per multiprocessor until the blocks have a thread per individual and  *)
(* are not too large.  Threads are allotted by whole warps.                    *)
ThreadsPerBlock(b, n) ==
  LET warps == (Min({config.maxThreads * b, n}) + (b * config.warpSize - 1))
                 \div (b * config.warpSize)
  IN  warps * config.warpSize

Suffice(b, n) ==
  b * ThreadsPerBlock(b, n) >= n /\ ThreadsPerBlock(b, n) <= config.maxThreads

Spread(g, n) ==
  LET turns == Min({j \in 1..n : Suffice(num_MP(g) * j, n)})
      b     == num_MP(g) * turns
  IN  [dimGrid |-> b, dimBlock |-> ThreadsPerBlock(b, n)]

(* mutant of PreliminaryDue: the memory is allocated for the parents only *)
PreliminaryDueOnce(g) == preliminaries[g] = 2

PreliminaryDue(g) == preliminaries[g] > 0

(* cudaPreliminaryProcess, for the parents and again for the offspring.  The *)
(* process exits over a share that is not positive: memory of a negative     *)
(* size, or a launch of no threads.                                          *)
Preliminary(g) ==
  /\ ~freeGPU
  /\ ThreadStep(g, "woken", "memcpy")
  /\ IF PreliminaryDue(g)
       THEN /\ preliminaries' = [preliminaries EXCEPT ![g] = @ - 1]
            /\ d_size' = [d_size EXCEPT ![g] = shares[g].sh_pop_size]
            /\ IF shares[g].sh_pop_size <= 0
                 THEN mainPc' = "exit" /\ UNCHANGED launch
                 ELSE /\ launch' = [launch EXCEPT ![g] = Spread(g, shares[g].sh_pop_size)]
                      /\ UNCHANGED mainPc
       ELSE UNCHANGED <<preliminaries, d_size, launch, mainPc>>
  /\ UNCHANGED <<config, round, next, freeGPU, d_population, failed, semVars, dataVars>>

(* the transfer to the card *)
CopyIn(g) ==
  /\ ThreadStep(g, "memcpy", "kernel")
  /\ d_population' = [d_population EXCEPT ![g] =
       [k \in Share(g) |-> IF k \in DOMAIN cudaBuffer THEN cudaBuffer[k] ELSE None]]
  /\ UNCHANGED <<config, controlVars, preliminaries, d_size, launch, failed, semVars, dataVars>>

(* Each thread of the launch evaluates the individual of its place in the      *)
(* share; a launch of blocks that are too large runs no thread.                *)
Evaluated(g) ==
  {k \in Share(g) : /\ k - shares[g].indiv_start <= launch[g].dimGrid * launch[g].dimBlock
                    /\ launch[g].dimBlock <= config.maxThreads}

(* The kernel and the transfer back, of all the share.  When the kernel fails, *)
(* the thread prints an error and goes on as if it had not.                    *)
Kernel(g) ==
  /\ ThreadStep(g, "kernel", "post")
  /\ \/ /\ fitnessTemp' = [k \in DOMAIN fitnessTemp |->
             IF k \in Evaluated(g) THEN d_population[g][k]
             ELSE IF k \in Share(g) THEN None ELSE fitnessTemp[k]]
        /\ UNCHANGED failed
     \/ failed' = TRUE /\ UNCHANGED fitnessTemp
  /\ UNCHANGED <<config, controlVars, preliminaries, d_size, launch, d_population,
                 semVars, shares, cudaBuffer, fitness>>

(* mutant of PostOut: a thread that ends does not say so *)
PostOutInLoop(g) ==
  /\ ThreadStep(g, "post", "sem_in")
  /\ sem_out' = [sem_out EXCEPT ![g] = @ + 1]
  /\ UNCHANGED <<config, controlVars, preliminaries, d_size, launch, d_population,
                 failed, sem_in, dataVars>>

(* a thread posts after each of its evaluations, and when it has left its loop *)
PostOut(g) ==
  /\ ThreadStep(g, "post", "sem_in") \/ ThreadStep(g, "ending", "ended")
  /\ sem_out' = [sem_out EXCEPT ![g] = @ + 1]
  /\ UNCHANGED <<config, controlVars, preliminaries, d_size, launch, d_population,
                 failed, sem_in, dataVars>>

Thread(g) ==
  WaitIn(g) \/ FreeDevice(g) \/ Preliminary(g) \/ CopyIn(g) \/ Kernel(g) \/ PostOut(g)

Done == mainPc \in {"freed", "exit"}

Next ==
  \/ Main
  \/ \E g \in Gpus : Thread(g)
  \/ Done /\ UNCHANGED vars

Spec == Init /\ [][Next]_vars

(* The main thread and the thread of each card are scheduled. *)
MaxGpus == Max({Len(c.multiProcessors) : c \in Configs})
FairSpec ==
  /\ Spec
  /\ WF_vars(Main)
  /\ \A g \in 1..MaxGpus : WF_vars(g \in Gpus /\ Thread(g))
-----------------------------------------------------------------------------
(* Properties *)

Tag == (1..MaxRounds) \X Nat

(* Every variable of the evaluation has its type. *)
TypeOK ==
  /\ config \in Configs
  /\ mainPc \in {"evaluate", "post", "collect", "read", "evolve", "freed", "exit"}
  /\ round \in 1..MaxRounds
  /\ next \in {1} \cup {g + 1 : g \in Gpus}
  /\ freeGPU \in BOOLEAN
  /\ shares \in [Gpus -> [indiv_start : Nat, sh_pop_size : Int] \cup {None}]
  /\ sem_in \in [Gpus -> 0..1] /\ sem_out \in [Gpus -> 0..1]
  /\ threadPc \in [Gpus -> {"sem_in", "woken", "memcpy", "kernel", "post", "ending", "ended"}]
  /\ preliminaries \in [Gpus -> 0..2]
  /\ d_size \in [Gpus -> Int] /\ DOMAIN d_population = Gpus
  /\ launch \in [Gpus -> [dimGrid : Nat, dimBlock : Nat]]
  /\ failed \in BOOLEAN
  /\ cudaBuffer \in [DOMAIN cudaBuffer -> Tag \cup {None}]
  /\ fitnessTemp = None \/ DOMAIN fitnessTemp = 1..PopulationSize(round)
  /\ fitness = None \/ DOMAIN fitness \subseteq Nat

(* Outside of wake_up_gpu_thread every thread is asleep and no token is left   *)
(* over: nobody writes into a deleted fitnessTemp, reads a share that is being *)
(* dispatched or waits on a semaphore of the freed globalGpuData.              *)
ThreadsSleep ==
  mainPc \in {"evaluate", "read", "evolve", "freed"} =>
    \A g \in Gpus :
      /\ threadPc[g] = IF mainPc = "freed" THEN "ended" ELSE "sem_in"
      /\ sem_in[g] = 0 /\ sem_out[g] = 0

(* what dispatchPopulation is meant to do: every card has something to do *)
SharesFit == \A g \in Gpus : Dispatched(config.popSize)[g].sh_pop_size > 0
                          /\ Dispatched(config.nbOffspring)[g].sh_pop_size > 0

(* On at least one card, with shares that fit and kernels that do not fail,    *)
(* every individual is given its own fitness of this evaluation: no result is  *)
(* missing, of an earlier generation or of another individual.                 *)
FitnessIsItsOwn ==
  mainPc = "evolve" /\ num_gpus > 0 /\ SharesFit /\ ~failed =>
    fitness = [k \in 1..PopulationSize(round) |-> <<round, k>>]

(* A card is never sent more individuals than the memory allocated for it      *)
(* holds, although it is allocated by the thread and twice only, and the       *)
(* shares are those that the main thread dispatched last.                      *)
CopiesFitDeviceMemory ==
  \A g \in Gpus : threadPc[g] = "memcpy" /\ mainPc # "exit" =>
    shares[g].sh_pop_size <= d_size[g]

(* When the main thread frees globalGpuData, every card's memory is free. *)
DeviceMemoryFreed == mainPc = "freed" => \A g \in Gpus : d_size[g] = 0

(* The run ends: neither side of the semaphores waits for the other for ever. *)
Termination == <>Done

(* "On the last card we are going to place the remaining individuals": there   *)
(* are some, or at least the other cards were not given more than there are.   *)
LastCardGetsTheRest ==
  \A g \in Gpus : shares[g] # None =>
    /\ shares[g].sh_pop_size >= 0
    /\ mainPc \in {"post", "collect"} /\ ~freeGPU => Share(g) \subseteq DOMAIN fitnessTemp
=============================================================================
