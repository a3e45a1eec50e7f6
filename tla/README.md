# Verification of the DARTS codelet runtime and its applications

DARTS runs *codelets* (small tasks that are fired when their dependences are
met) grouped in *threaded procedures* (TPs: heap-allocated frames that hold the
codelets and their data). This directory holds TLA+ models of the runtime, of
the queue that its dataflow application brings along and of the applications,
TLC configurations that check them on small instances, and proofs that TLAPS
checks for every value of the constants.

Contents: [1 The system](#1-the-system), [2 Modules](#2-modules),
[3 Model and code](#3-model-and-code), [4 Runs](#4-runs), [5 Findings](#5-findings),
[6 Proofs](#6-proofs), [7 Not modelled](#7-not-modelled), [8 Plan](#8-plan).

To check: `tlc -config X.cfg M` for each pair in section 4, and
`tlapm M.tla` for M = `TPLifetimeProofs`, `RingBufferProofs`, `ReaderWriterQueueProofs`,
`RuntimeProofs`, `SchedulingProofs`, `CannonProofs`, `AffinityProofs` and `LoopsProofs`.

## 1. The system

| part | source | state | operations | what makes it correct |
|---|---|---|---|---|
| Sync slots and codelets | `include/threading/SyncSlot.h`, `src/threading/Codelet.cpp` | `counter_`, `reset_`, `myTP_` | `decDep`, `resetCodelet`, `initCodelet` | a codelet is enabled once per round, when its last signal arrives |
| Threaded procedures | `src/threading/ThreadedProcedure.cpp`, `include/threading/doTP.h`, `tpClosure.h` | `ref_`, `parentTP_`, `myThread.tempParent` | `invoke`, `launch`, `TPFactory`, `add`, `incRef`, `decRef`, destructor | a frame exists while anything needs it, and is deleted then |
| Loops | `include/threading/loop.h`, `doLoop.h`, `loopClosure.h` | `fired`, `curIterations_`, `loop_` | `fire` of `paraFor`, `serialFor`, `codeletFor`; `LPFactory` | every iteration once per round, before the loop signals; memory is used again only when it is free |
| Queues | `include/common/ringbuffer.h`, `dartsPool.h` | counters and slots; pools | `push`, `pull`, `pop`, `steal` | nothing lost, doubled or torn |
| TP schedulers | `src/scheduler/TPSchedPolicy.cpp`, `include/scheduler/TPScheduler.h` | `ready_`, `codelets_`, `whichSub_`, `alive_` | five policies | closures run once; codelets reach a worker that fires them |
| Micro schedulers | `src/scheduler/MSchedPolicy.cpp`, `include/scheduler/MSchedPolicy.h` | ring or pool, `alive_` | five policies | codelets fired once; hints honoured |
| Runtime | `src/runtime/Runtime.cpp`, `include/runtime/` | `tpcount_`, `mccount_`, `fullcount_`, `spin_`, links; `finalSignal` | constructor, thread functions, `run`, destructor | nothing used before it is linked; `run` returns when its program is done |
| Machine and affinity | `src/abstractmachine/` | the masks | `generateMask` | a unit for each thread, placed as the mode says |
| Cannon-dfswp | `apps/Cannon-dfswp/cannonTP.h` | tile queues, codelets | `fire` of each codelet | the product, without barriers between iterations |
| Tile queues | `include/common/readerwriterqueue.h`, `atomicops.h` | circle of blocks, `m_count`, the semaphore | enqueue, dequeue, peek, pop, waits | a FIFO; waits neither miss a signal nor keep one |
| Recursive programs | `apps/Fib`, `Tree`, `Mergesort`, `FastMergesort` | variables of frames, arrays | constructors and `fire` | the result is there when `run` returns; no races |
| Benchmarks | `apps/Chain`, `Fanout`, `CD`, `TP` | counters | the same | they end, and nothing runs afterwards |
| Cannon with double buffering | `apps/Cannon/cannonTP.h` | two buffers of each tile, the barrier of the rounds | the same | a buffer is not written while it is read |
| Matrix multiplication | `apps/MatrixMultiply` | nested loops over tiles | the same | tiles cover the product exactly |
| FFT | `apps/FFT` | roots, factors, nested loops, generated kernels | the same, and `fft`, `fft_seq` | the transform, from pieces that do not interfere |

**How they interact.** The client's thread constructs a Runtime, which places
threads on units (affinity), starts one per scheduler and links the schedulers
to each other. `run` pushes the closure of a program to TP scheduler 0. A TP
scheduler pops or steals closures and calls their factories, which construct
TPs. Constructors and codelets call `add`, `decDep` and `invoke`: a counter
reaches zero, a reference is taken, and a codelet or closure is pushed, into a
pool, a ring or the hands of a worker, as the policies say. Whoever pops the
codelet fires it, gives the reference back, and deletes the TP when it was the
last. The program's last codelet signals `finalSignal`, which kills TP
scheduler 0, so that its loop ends and `run` returns.

**What is hard.** All state is shared by all threads, and nearly all of it is
synchronised by counters alone: counter before reference before push
(`decDep`), reference before closure (`invoke`), counter after slot (ring,
queue), three counters and a flag (start-up). Each of these orders is a place
where a thread can come in between. Frames are freed by whoever drops the last
reference, in a cascade over their ancestors. Loops place frames in memory that
they use again. Start-up and shutdown repeat. The applications have no locks
at all: that two codelets do not touch one element at a time follows from the
graph of their signals and from index arithmetic. Nothing is persisted and there
are no messages, so that crash recovery and lost or duplicated messages do not
occur; the one timeout is that of a timed wait on the queue. `PROJECT.json` lists
the hazards, each at its line, with the properties that are about it.

## 2. Modules

| module | what it is |
|---|---|
| `TPLifetime` | counters, references, creation and deletion of TPs, one shared access per step, for an open program |
| `ScopedFrames` | what TPLifetime is for, without counts: frames that exist while they are needed. Refined by TPLifetime |
| `TPLifetimeProofs` | proofs about the two |
| `RingBuffer` | the worker ring, one shared access per step, with counters that wrap |
| `BoundedFifo` | a bounded queue with one producer and one consumer. Refined by RingBuffer |
| `RingBufferProofs` | proofs about the two |
| `Scheduling` | the loops of all policies, from `run`'s push to the last `fire` |
| `CodeletGraph` | what any scheduler promises to a program. Refined by Scheduling |
| `SchedulingProofs` | proofs about the two |
| `Runtime` | construction, runs, destruction |
| `RuntimeProofs` | proofs about it |
| `Loops` | the three loop codelets and the frames of their iterations |
| `LoopRounds` | what a loop promises to the codelet it signals. Refined by Loops |
| `LoopsProofs` | proofs about the two |
| `Affinity` | `generateMask` |
| `AffinityProofs` | proofs about it |
| `CannonDfswp` | Cannon's multiplication with tile queues |
| `CannonProofs` | proofs about it |
| `ReaderWriterQueue` | the queue of tiles and its semaphore, one shared access per step. Refines BoundedFifo too |
| `ReaderWriterQueueProofs` | proofs about it |
| `CodeletMachine` | what the runtime does for a program whatever its schedulers, and what it asks of one in return |
| `CodeletTerms` | the words in which applications are written: frames, codelets, locations, calls |
| `Fib`, `Benchmarks`, `Mergesort`, `FastMergesort`, `MatrixMultiply`, `Cannon`, `Fft` | the applications in these words: constructors, codelets, what main prepares and checks |
| `FftSerial` | the generated kernels and the two serial transforms built from them |
| `Programs` | the applications together |
| `MC...` | constants for TLC |

```
 CannonDfswp   Programs = Fib, Benchmarks, Mergesort, ..., Cannon, Fft
   |     |         |
   |     |     CodeletMachine            LoopRounds <- Loops
   |     |      |           \               (LoopStart, LoopEnd)
   |  CodeletGraph <- Scheduling   ScopedFrames <- TPLifetime
   |                      |
 BoundedFifo <- RingBuffer, ReaderWriterQueue        Runtime, Affinity
```

(An arrow from right to left: is implemented by.) The modules compose by assumption and guarantee rather than in one state space.
`Scheduling` takes rings to be bounded FIFOs, which `RingBuffer` proves for one
producer and one consumer, and shows in turn that a ring has one producer
(`SingleProducer`) but for what TPSTATIC pushes of codelets with a status, whose
effect on a ring `Overwritten` states. `TPLifetime` lets any thread pop any pushed codelet, which
covers whatever `Scheduling` does. `CannonDfswp` lets the worker named by a hint
fire a codelet, which is `HintHonoured`. `Runtime` shows that schedulers exist
and are linked whenever a policy runs, from where `Scheduling` starts.
`CodeletMachine` gives the applications the promises of `CodeletGraph` and
`LoopRounds` and nothing more: a ready codelet is fired once, at any later time.
The exception is what `Scheduling` shows of TPSTATIC: where `staticDynamic` is chosen,
a codelet that has a status is refused when it becomes ready, as by MCDYNAMIC's workers.
In return its `KeepsContract` checks of each application what the guards marked
CONTRACT in `TPLifetime` assume of every program. `CannonDfswp` takes an
operation of the tile queue to be one step, as `ReaderWriterQueue` shows.

## 3. Model and code

`map` in `PROJECT.json` gives the lines of every definition. In outline:

**TPLifetime.** `ref`, `counter` are `ref_`, `counter_`; `place` is where an
activation of a codelet is between `decCounter` and `fire`; `tp` is where a TP
is between `invoke` and the end of its destructor; `act`, `obj` and `hand` are a
thread's stack. `decDep` is three steps (`DecDep`, `IncRef`, `Push`), so that
another thread can act between them; so is `add`. `TPFactory` is `PopTP` (the
closure is popped and `ref_` set), the calls of the constructor, and
`FactoryDecRef`. `EndFire` is what every policy does after `fire`; `Destroy` is
the destructor's cascade, one ancestor a step. The program is open: a running
codelet may call anything in any order, within a contract that the guards marked
CONTRACT state and that the applications keep: codelets signal codelets of their
own frame or of frames above it, as often as their counters say; a constructor
adds codelets of its own; a codelet resets itself when its signals have arrived
and before others signal it again.

**RingBuffer.** `push` is `PushCheck`, `PushWrite`, `PushPublish`, `pull` is
`PullCheck`, `PullRead`, `PullRelease`. Counters wrap at `Wrap`, which stands for
2^32 and need only be a multiple of the capacity.

**Scheduling.** A thread's `pc` is its place in the policy's loop. A policy of
each kind is picked initially. What a codelet does is its body, a sequence of
`invoke` and `decDep`, executed a call at a time. Pools (`dartsPool`, which is a
stack or a TBB queue as built) are sets; operations of a pool or ring are one
step. `rand()` is any value.

**Runtime.** Variables have the source's names. `pc` follows the constructor,
the thread functions and the destructor; a program is one closure and one
codelet, which is what start-up, `run` and shutdown can tell apart. What the
client does next is its own business (`Decide`).

**Loops.** `counter`, `fired`, `cur` are the loop codelet's fields, `outer` and
`outerRef` its TP, `frame` and `ref` the iterations in each piece of memory.
`fire` is split where its effects can be seen: `ParaStart`, `ParaSpawn`,
`ParaEnd`, `SerialNext`, `SerialEnd`, `CodeletStart`, `CodeletEnd`. `Build`,
`Add` and `Release` are the factories (`TPFactory` for paraFor, `LPFactory` for
the others). An iteration has one codelet, which signals the loop last. A second
codelet of the loop's TP starts further rounds. `decDep` of the loop is one step,
since its frame is counted throughout and TPLifetime has the steps. After a
factory deleted memory that is the loop's, anything may happen; the model stops.

**Affinity.** A step is one body of a loop; the two masks are one sequence in the
order of thread numbers.

**CannonDfswp.** A tile of A or B is its place in its matrix. A compute codelet
is five steps per iteration (multiply, two enqueues, two pops), so that its
neighbours can see every order of them; the spin on an empty head is a disabled
`Multiply`. A codelet whose hint names a worker is fired by that worker;
others by any. One specification covers each size in `Sizes`.

**Scheduling's machines.** A setting is a tuple of the number of clusters, the
workers of each, the status of the codelets and the two policies; the initial
state picks one.

**CodeletMachine.** A frame is named by the path of invocations that leads to
it, a location by path, variable and index. `FireCodelet` is what a codelet does
before its first call, `DecDep`, `AddCodelet`, `ResetCodelet`, `InvokeTP` are its
calls, one by one, among those of all others. That the first part may be one step is what
`RaceFree` shows: nothing that can run at the same time would see a difference.
`Launch` is main's next round: `run` returned, and main may have overwritten its
arrays.

**The applications** are operators: for each TP its constructor (`...Constructor`:
the counters of its codelets, what it adds, what it initialises), for each codelet
what it reads, writes and calls. Arrays are locations, so that a race or a
wrong index is a race or a wrong index of the model. Numbers are the
program's where the result depends on them: sorted numbers, products of
matrices, Fibonacci numbers. A tile of `Cannon` is its place in its matrix, a
product the bag of its factors. DGEMM is what it computes, under the
argument order of each of the two libraries.

**Fft, FftSerial.** The field of complex numbers is replaced by the integers
modulo the prime 193, whose group has elements of order 64 and 96 as complex numbers
have: the algebra is that of roots of unity, and results are compared exactly.
Generated kernels are modelled by the transform that each computes (a radix, a stride,
offsets, which powers of the root multiply which element), as a composition of levels
of butterflies, not by their unrolled arithmetic. `LeafSize` stands for the 128
(16 in `unshuffle_seq`) under which the recursive halving of a range stops,
`leaf` for the 32 of `fftBase128`, whose length is four times as much.

**ReaderWriterQueue.** `blocks` holds for each block both ends and the copies that
each thread keeps of the other's. Producer and consumer are a `pc` each. A block
whose ends the producer's own copies tell apart needs no shared read, so that
`Enqueue` and `CheckFront` go on at once. `pop` is `try_dequeue` too; `head` is
`size_approx` and `peek`, as the tiles use it. Elements are numbered as they are
enqueued. `Contents`, which the model uses for properties only, is what the
places that the consumer can come to hold, in the order of the numbers; `InOrder`
says that this is the order in which the consumer comes to them.

## 4. Runs

| run | module, cfg | instance | what it shows |
|---|---|---|---|
| `tp_lifetime` | `MCTPLifetime` | 4 TPs, 4 codelets, 3 threads | `NoUseAfterDelete`, `RefExact`, `NoLeak`, the inductive `IInv`, refinement of ScopedFrames |
| `ring_buffer` | `MCRingBuffer` | 4 slots, wrap at 8 | `RingInv`, `NoOverrun`, refinement of BoundedFifo, `Drained` |
| `scheduling` | `MCScheduling` | all pairs of policies that can run a program on 1 cluster of 2 workers; TPSTATIC with statuses over all five micro policies; 5 pairs on 2 clusters of 1; rings of 1 slot | `Inv` (`Conserved`, `OnlyByStatus`), `HintHonoured`, `SingleProducer`, refinement of CodeletGraph with liveness, also when closures are stolen |
| `hint_lost` | `MCScheduling`, `MCSchedulingHint` | hint policies; 2 clusters of 2 workers | violation, section 5 |
| `runtime` | `MCRuntime` | 2 clusters of 1 worker, 2 Runtimes of 3 runs | the inductive `IInv`, `PolicyReady`, `SignalReady`, `RunsToCompletion`, `CallsReturn` |
| `loops` | `MCLoops` | each kind of loop, 3 threads, one round and two | `Inv` (`OnceKept`, `FrameIntact`), `OuterExact`, `DeletedLast`, refinement of LoopRounds with liveness, `Deleted` |
| `loops_serial` | `MCLoops`, `MCLoopsSerial` | serialFor, 2 iterations, 2 threads | violation, section 5 |
| `affinity` | `MCAffinity` | 1500 requests | `Exclusive`, `KeepsMode` |
| `cannon` | `MCCannonDfswp` | 2 x 2 tiles with all interleavings, 3 x 3 with turns; a worker for each tile | the inductive `Inv` (`Filled`, `Aligned`), `Correct`, `OneProducer`, `Completes` |
| `programs` | `MCPrograms` | 13 applications and benchmarks, each twice, on small inputs, with policies that take every codelet and with TPSTATIC and MCDYNAMIC | `Inv` (`KeepsContract`), `RaceFree`, `ExactResult`, `Quiet`, `Finishes` |
| `mergesort_remainder` | `MCPrograms`, `MCProgramsRemainder` | 20 numbers in two parts of 10 | violation, section 5 |
| `queue` | `MCReaderWriterQueue` | 6 elements; queues constructed for 1, 2 and 4; blocks of 2 | `InOrder`, `Asserted`, `PeekedStays`, `Counted`, refinement of BoundedFifo, `Delivered` |

`PROJECT.json` holds a mutant for every property of these runs (a definition
changed as a plausible bug would change it), under which TLC finds the property violated.

**Bounds, and why they are enough.**
- `tp_lifetime`: a depth of three is the least at which a destructor releases a
  parent that may itself die; two children race for their parent; a cyclic
  codelet with two signals is enabled by either signaller; an empty TP is deleted
  by its factory. Symmetry exchanges the two TP threads, which nothing tells
  apart. The proofs remove the bounds.
- `ring_buffer`: the wrap happens with the ring empty, partly full and full.
- `scheduling`: rings of one slot are full as soon as they can
  be; a worker that is named by a hint, and one that is not; an activation that
  waits for signals from four codelets. Left out are pairs that cannot run any
  program: policies that push to workers (round robin, hint) with workers that
  accept nothing (dynamic, steal), which no file selects. TPSTATIC with statuses
  is not one of them: `cd_fanout`, `cd_fanout_loop`, Mergesort, MatrixMultiply and FFT
  set statuses and take their policies from the command line, so `WithStatus` has
  TPSTATIC with each micro policy, with those that refuse and with rings that fill up.
  There two threads may push into one ring and a refused codelet is dropped, as in the code.
  So `Inv`, `SingleProducer` and the refinement do not say that no codelet is ever lost, or that each ring
  always has one producer, but where this can happen (section 5) and that nothing else goes wrong. A run
  is followed up to the first codelet that is overwritten in a ring (`torn`), since
  what the consumer then pulls out of the slot that nobody wrote is undefined.
- `runtime`: two Runtimes show that a second one finds everything as the first
  did; three runs on one show that the second's late kill meets the third.
- `loops`: three iterations have a first, a middle and a last; two rounds show
  that a loop is armed again. Loops without iterations are excluded (two hazards
  say what they do). Some programs use each piece of memory once (`UsedOnce`), where
  nothing is deleted early and all rounds end; the others use it again, up to the
  point where the finding of section 5 strikes.
- `affinity`: TPs smaller than, as large as and larger than a cluster, even and
  odd units, machines with room and without.
- `cannon`: with two tiles a side left and right are the same, with three they are
  not. Three come at the price of interleavings: only one worker at a time is in the
  middle of a codelet and workers keep to the order of tiles, by a state
  constraint. It is the routing that three tiles check, not concurrency; the proofs
  of section 6 have neither bound. For `Completes`, which they do not cover, a
  worker for each tile is assumed: with fewer the program hangs (section 5).
- `programs`: an action constraint gives each program one of three degrees of
  parallelism. `FreePrograms` run in all interleavings of calls, constructors and
  codelets. `FiringPrograms` make calls and construct frames at once and fire
  codelets in any order. `SerialPrograms` run in one order. The last two rest on
  `RaceFree`, which is evaluated in every state and speaks of all codelets that are
  ready together, not of those that happen to be next: where nothing races, orders
  differ in nothing that a codelet reads. Sizes are such that each branch is taken:
  sorts below, at and above their cutoffs, with parts that are even and odd;
  matrices that tiles do not divide; one, two and three levels of factors;
  `NestedLoop` as codelet, single and double loop, with pieces of unequal size.
  `CutoffSort`, `CutoffMerge`, `LeafSize`, the thresholds of `Conf` and the base are
  scaled down by name.
- `queue`: 6 elements in blocks of 2 (a slot of each is kept free) make the
  circle go around, grow by allocation and be refused; a queue for 1 is a single
  block, a queue for 4 several. The consumer catches up in each state of the
  producer, and a timed wait ends in each of them.

**Fairness.** `Scheduling`, `Runtime`, `Loops`, `CannonDfswp`, `ReaderWriterQueue`: weak
fairness of every thread's step, since the operating system runs every thread and none
blocks but by spinning. Nothing is assumed of `rand()`, of the client's
decisions or of which entry of a pool is taken, nor in `Scheduling` of a run in which a ring is torn. `RingBuffer`: a call that has
begun returns; the consumer polls, as the workers do; nobody has to push.
`ReaderWriterQueue` assumes no calls, only that one that has begun goes on.
`CodeletMachine`: as long as something can be done, something is, which is what
`CodeletGraph`'s liveness amounts to for programs that end; nothing is assumed of
which.
`CHECK_DEADLOCK FALSE` stands where the system ends (all programs done, all
frames deleted); `RingBuffer` and `Scheduling` never stop, since schedulers poll.

## 5. Findings

- **A hint is lost in the second cluster** (`hint_lost`,
  `include/scheduler/MSchedPolicy.h:192`). A worker derives its index in the
  cluster from its number in the machine. Outside the first cluster (unless the
  cluster's number is a multiple of the number of workers) the hinted worker
  does not recognise itself and forwards the codelet to itself for ever, against
  the comment at `src/scheduler/TPSchedPolicy.cpp:327`.
- **A placed iteration is deleted by the factory of its predecessor**
  (`loops_serial`, `include/threading/doLoop.h:41`). `LPFactory` gives up its
  reference after the iteration may have run elsewhere and its memory may have
  been given to the next, whose last reference it then takes; it deletes memory
  inside the loop's array. The comment at `ThreadedProcedure.cpp:39` says that
  this reference prevents premature deletion; for placed TPs it causes it.
- **Mergesort of parts that are not multiples of eight** (`mergesort_remainder`,
  `apps/Mergesort/mergeUnrolledTP.h:176`). The rest of the division goes to the last
  eighth, but merges take their input for two halves of equal length; with a rest of
  two or more the output is not sorted, which `mergesortTime.cpp:83` checks.

Two more are part of what passing runs state, with their consequences:
- **TPSTATIC loses codelets that workers refuse** (`src/threading/Codelet.cpp:80`,
  `ThreadedProcedure.cpp:103`, `TPSchedPolicy.cpp:204`). Under
  TPSTATIC `decDep` and `add` push a codelet that has a status to a worker, and ignore
  that it may be refused: MCDYNAMIC and MCSTEAL refuse all, MCSTANDARD and MCHINT when a
  ring is full. The codelet has all its signals, which `Codelet.h:126` takes to mean that it
  can be fired, and is nowhere (`Drop` in `Scheduling`, `dropped`). Programs set
  statuses in `apps/Fanout/cd_fanout.cpp:73`, `cd_fanout_loop.cpp:58`,
  `Mergesort/mergeUnrolledTP.h:165` and 225, `MatrixMultiply/loopTPs.h:51` and
  `FFT/fftTP.h:279`; asked for TPSTATIC and MCDYNAMIC on their command lines, they hang: the second half of
  `Finishes` says that no run in which a codelet was refused ever ends. With MCSTATIC, whose pools
  accept everything, nothing is lost; that is the pair for which the scripts of Mergesort
  and MatrixMultiply ask when they ask for TPSTATIC.
- **TPSTATIC gives a ring several producers** (`TPSchedPolicy.cpp:204`). That push is
  made by whichever thread enabled the codelet. A ring is made for one producer; of two
  threads that find the same slot free one stores over the other, and the codelet stored first
  is lost although the ring had room (`Overwritten` in `Scheduling`, `torn`).

Seen while modelling, and stated as hazards rather than as runs: too few workers hang
Cannon-dfswp, since a compute codelet spins without giving up its worker until
its neighbours pass their tiles on (`apps/Cannon-dfswp/cannonTP.h:414`;
`mmCannonTime.sh:10` asks for two by two tiles on one CU); an FFT of 64 elements
never ends (`apps/FFT/fftCD.cpp:52`); the halves in `fftBase128` use powers of the
wrong root, which the constant input of main does not show (`fftCD.cpp:260`, so
`MCPrograms` gives that base constant input); `GETREPS` gives one iteration where items
and parts are equal in number (`nested.h:33`), which the sizes of FFT avoid; a `paraFor`
without iterations never signals (`loop.h:1095`); the non-strict tree ends while
nodes are still running, if it is deeper than one node (`apps/Tree/non_strict.cpp:79`).

## 6. Proofs

What follows holds for every value of the constants that satisfies the ASSUMEs
of `TPLifetime` (a finite or infinite forest of TPs with `Ancestors` its
transitive parents; counters in Nat), of `RingBuffer` (a capacity, and a
multiple of it greater than it at which counters wrap), of `Runtime` (finite
sets of TP and MC threads, a cluster for each MC thread, any number of Runtimes
and of runs), of `CannonDfswp` (any sizes from one tile on, any number of
workers from one on), of `Loops` (a finite set of threads, some of which run
closures; any kind of loop, any number of iterations and rounds from one on), of
`Affinity` (any machine with a unit, any mode, any request) and of `Scheduling` (any
number of clusters and workers from one on, any capacity of a ring, any finite program
that signals no codelet more often than it counts and invokes each closure once) and of
`ReaderWriterQueue` (any number of elements, any size given to the constructor, any
greatest size of a block from two on). `RoundingAssumption` of the last is no
restriction: that `ceilToPow2(size + 1)` is above `size` and at most `2 * size + 1` is
true of all numbers. It is assumed because the provers know nothing of powers; TLC
evaluates it for the sizes of its run. Each proof module has the facts about `%` and
`\div` that it needs.

- `TPLifetimeProofs`: `Invariance` (`IInv`), and from it `TypeCorrect`,
  `Safety` (`NoUseAfterDelete`), `CountsAreExact` (`RefExact`), `NothingLeaks`
  (`NoLeak`) and `Refinement` (`ImplementsFrames`). `RefExact` is not inductive
  alone: it says nothing of frames that are dying. `IInv` adds that a frame that is not usable has no
  holder (so that the parent of every allocated frame is usable), that this goes
  up all ancestors (so that a signal to a frame far above is safe), and that a
  codelet in a thread's hand, which is not counted yet, belongs to a frame at or
  above the one the thread executes in. The last is what makes the order of
  `decDep` safe: between the counter and `incRef` the codelet lives off the
  reference of its signaller. The proof has one step per action; `Holders` of
  each TP changes by at most one element in each, which lemmas on cardinality turn
  into counts. `NoLeak` needs three facts more (`LeakInv`): a TP that is being built or
  deleted is in a thread's hands, a frame that is still there has a reference, and
  finitely many TPs have been invoked. Of finitely many frames that are left when all
  is quiet one has no child among them (`Childless`, by the theorem that strict inclusion of
  finite sets is well-founded: what is not above a TP shrinks from it to its
  child); it has no holder, so no reference, and would not be there.
- `RingBufferProofs`: `RingInvariant` (`RingInv`), `RingTypes`, `RingSafety`
  (`NoOverrun`) and `RingIsFifo` (the refinement, safety and the fairness-free
  part of BoundedFifo). `RingInv` adds to the bound on outstanding elements that
  what the producer or consumer has checked stays true until it moves its counter.
  The arithmetic (a wrapped difference is the true difference; neighbouring
  counters name neighbouring slots across the wrap, because the wrap is a
  multiple of the capacity) is in lemmas.
- `ReaderWriterQueueProofs`: `QueueInvariant` (`IInv`), and from it `ElementsInOrder`
  (`InOrder`), `AssertionsHold` (`Asserted`), `PeekedIsFirst` (`PeekedStays`),
  `SemaphoreCounts` (`Counted`) and `QueueIsFifo` (each step of the queue is a step of
  BoundedFifo or none). What makes this queue hard is that both threads act on copies
  of the other's ends, and that the circle grows while the consumer walks it. `Copies`
  says what an old copy is good for: the end has only moved on from there, and not past the
  thread's own end, so a block that looked not full is not full, and one that looked not
  empty is not empty. `ProducerInv` and `ConsumerInv` say this of each thread where it is,
  and what it has learned besides, such as that the consumer is not in the block which the
  producer is about to fill, nor can come to it before the producer moves on.
  `Ring` says that links are one to one, and that a new block is in no link until
  `LinkBlock`. `Numbered`, `Unique` and `Complete` say that each
  number from the first not taken to the last sent is in one place; then `InOrder` is
  inductive with them, and `Contents` is an interval of numbers, from which one is taken at one
  end and to which one is added at the other. `Semaphore` relates `m_count` and `m_sema` to
  the elements left and to what each thread has yet to do to them: claimed but not
  taken, published but not signalled, signalled but not posted, waited for but
  counted out. The proof takes each part through the steps of one thread and then of the other;
  most steps change no element and are dealt with together (`Still`, `StillPlaces`).
- `RuntimeProofs`: `Invariance` (`IInv`), and from it `PoliciesAreReady`
  (`PolicyReady`), `SignalsAreReady` (`SignalReady`) and `RunsComplete`
  (`RunsToCompletion`). That the client may link and run rests on counters that
  reach zero, so `IInv` says what each counts (`CountsExact`: exactly the threads
  that have not come so far), what a thread therefore has at each point of its
  start (`Ready`), and that a program is in one place while the client waits for
  it (`OneProgram`). The proof has a step per action for each of the four parts;
  two lemmas say what a decrement does to the number of threads still to come.
- `SchedulingProofs`: `Invariance` (`SInv`), and from it `NothingLost` (`Inv`),
  `OneProducer` (`SingleProducer`), `HintsHonoured` (`HintHonoured`) and `RunsTheProgram`
  (the safety of CodeletGraph). That a codelet is in one place is not inductive alone,
  since it says nothing of how a codelet comes to be ready. `SInv` adds that no two
  threads run one body (`Control`), so that the calls made so far are known (`Made`), that
  a counter is what is left of them (`Counts`), and that closures too are in one place
  (`Closures`). Then a codelet becomes ready in the step that makes the last of its calls
  and in no other, when it is nowhere else (`Lives`). The actions of all ten policies
  come to twelve kinds of steps (`Kinds`, `StepKinds`); each is shown to leave a codelet
  where it is, to put it in one place, or to take it away as it is fired. The proof shows
  where the policies matter, and `NothingLost` and `OneProducer` hold for all of them,
  without an assumption on statuses. The history `dropped` records the codelets that were
  refused in `decDep` or `add`, or overwritten in a ring that two threads push to. `Inv` says that a codelet
  which has its signals is in exactly one place until it fires unless it is in `dropped`
  (`Conserved`), and that only TPSTATIC puts one there, only one with a status, and only
  where a worker may refuse (`OnlyByStatus`). `OneProducer` says that a ring grows by the push of its TP
  scheduler's thread, but for codelets with a status under TPSTATIC. So under every
  other pair of policies, and for programs without statuses, nothing is lost and each ring has one
  producer. The exception is real (section 5): `Drop` and `Overwritten` both happen in the run. `HintsHonoured` assumes
  `HintsFit`: under TPHINT that workers neither steal nor take from their cluster's pool,
  and under MCHINT without TPHINT that a worker's index is what it takes it for
  (section 5). Its invariant adds that a TP scheduler that pushes a hinted
  codelet pushes to the hinted worker (`Aimed`) and that only MicroSteal's workers steal.
- `CannonProofs`: `Invariance` (`Inv`), and from it `Correctness` (`Correct`) and
  `Producers` (`OneProducer`). That queues hold the right tiles (`Aligned`) needs
  that a queue is filled by one neighbour and one skew codelet only, in an order
  that the barrier fixes. `Inv` therefore counts: what a tile has popped and what
  is in its queue are what was skewed to it and what its neighbour has passed on
  (`QueuesA`, `QueuesB`), so that the next tile to arrive is known by its number;
  counters are the signals still to come (`Counts`), a codelet waits exactly
  while there are any (`Waiting`), so that no tile is passed on before all are
  skewed. The n-th product of a tile is then that of the n-th tiles (`Products`),
  and the arithmetic on the torus (`Skewing`, `Passing`, `Shifting`, `Covering`)
  makes S of them the tile of the product. The proof has a step per action for
  each part, and for the queues of A and of B separately.

- `LoopsProofs`: `Invariant` (`LInv`), and from it `FramesKept` (`Inv`),
  `OuterCounted` (`OuterExact`), `LastToGo` (`DeletedLast`) and `KeepsPromise`:
  each step is a step of LoopRounds or leaves its variables alone. The promise
  itself is far from inductive. That the loop codelet ends a round only when all
  iterations have run needs that its counter is the number of those that have
  not (`Rounds`), which needs that each signals once, so that one iteration is
  in one place only (`Unique`) and what is on its way has not run (`Flight`).
  The codelets of the loop's own TP, two at most, exclude each other (`Alone`):
  this is why `fired`, `curIterations_` and the counter can be plain fields.
  `OuterExact` alone would allow the loop's TP to vanish with nothing on its way
  while a round is open: `Whole` says that each iteration that has not run is
  somewhere, `Gone` that the TP dies with its last reference. `Frames` and `Refs`
  keep an iteration's frame in place while it is needed; `Refs` has to admit
  that a factory may be late (section 5), and `Once` says that this cannot
  happen where memory is used once. The proof takes each part through all steps.
- `AffinityProofs`: `Placement` (`AInv`), and from it `UnitsExclusive`
  (`Exclusive`) and `ModesKept` (`KeepsMode`). The loops of the code carry
  counters from thread to thread; `AInv` says that they are a function of the
  number of threads placed (`NextUnit`), so that the unit of a thread is one as
  well (`Positions`, `Address`). What remains is arithmetic: addresses are below
  the number of units, when the request passed the test (`Fits`), they differ,
  and what lies between two of them is a cluster, a core or nothing, as the mode
  says. It shows where the test is needed: without `check * maxUnit * numTPS <=
  totalUnits` SPREAD has two TPs on one cluster, or units that do not exist.

Only model-checked: liveness (`Drained`, `CallsReturn`, `Completes`, `Deleted`,
`Finishes`, `Delivered`, the liveness of the refinements, `Progress` in that of
LoopRounds), which is beyond the prover; and the invariants of `CodeletMachine` (`Inv`,
`RaceFree`, `ExactResult`, `Quiet`), which are about what the applications compute:
recursive definitions and inductions over data say what that is. Where workers are too few, the program of CannonDfswp hangs
(section 5); its proofs are of what it does until then.

## 7. Not modelled

Weak memory: models take steps one after the other, and compilers to read shared
memory each time the source does. For the tile queue that is the order its fences
ask for; the ring has none. Allocation failure (but for the queue's, which the code
handles), failure of `pthread_create`, PAPI and traces. hwloc and the vendor libraries
are external. `include/threading/nested.h` but for its two macros: its class is
instantiated by nothing, and its codelet has no `fire`. `resourcemanager/` is
included by nothing. Containers and locks of `include/threadsafe` are atomic objects
here, since every operation that the runtime calls holds one mutex or is one
instruction; those that take two mutexes are called by nothing. `apps/MKL` calls
a library on one thread. `fftBase256` and the CBLAS build are compiled out. Rounding:
the numbers of FFT and of the multiplications are exact here. The list of
components in `PROJECT.json` says so of each part.

## 8. Plan

Done, in this order: lifetime of TPs and its proofs (on which everything else
rests), the ring and its proofs, the Runtime's life cycle, scheduling, Cannon-dfswp,
loops, affinity; then the machine for programs and the applications on it, and the
queue of tiles; then the proofs about the Runtime, Cannon-dfswp, affinity, loops and
scheduling; then those about the queue of tiles and about leaks.

To do:
1. Proofs: `Inv` of `CodeletMachine` for an application whose frames are finitely many
   by a constant, in a module without recursion.
2. The containers and locks of `include/threadsafe`. Rounds of `resetCodelet` in
   Scheduling. `fftBase256`, by the operators of `fftBase128`.
