# A TLA+ model of OMSimulator

OMSimulator is a co-simulation master for FMI composite models: a client loads
FMUs and tables, connects outputs to inputs, and the library steps the whole
from communication point to communication point. This directory models the
parts in which a test hardly reaches what can go wrong: threads that exchange
samples, a pool of threads, the phases of TLM simulations, event handling by
index and by time, structures that are built, renamed and taken apart in any
order, values and files that outlive a simulation, and calls of a client with
failures on the way. Paths below are those of `src/src/OMSimulatorLib/` unless
said otherwise.

## 1. Inventory

There are two generations of the library side by side: `oms2` (composite
models, sub-models, solvers) and `oms3` (models, systems, components), which
replaces it and is not complete yet. They share the result writers, the sorting
of connections and the log.

| Component | State it keeps | Operations | Meets | What is hard |
|---|---|---|---|---|
| PMR channels (`PMRChannel.h`) | slot, counter, flag or mutexes | `write`, `read` | one writer thread, one reader thread | data races, lost wake-ups, off-by-one of the counter |
| PMR master, channel map (`PMRChannelMaster.h`, `PMRChannelMap.h`) | channels, per-thread access lists, `tcur` | `stepUntilPMRChannel`, `threadPMRChannel` | a thread per sub-model, the channels | deadlock, order of accesses, threads that stop at different times |
| FMI composite model (`FMICompositeModel.cpp`) | sub-models, solvers, connections, `time`, `tLastEmit` | `initialize`, `reset`, `stepUntil` (five masters), `doSteps`, `simulate_asynchronous`; add, delete, rename, connect | solvers, tables, graph, result writer | thread pool, order of updates, loops, clamping; pointers and names that outlive what they name |
| Solver (`Solver.cpp`) | FMU pointers, per-FMU vectors, `time`, SUNDIALS | `addFMU`, `removeFMU`, `initializeFMU`, `doStep`, `freeSolver` | FMUs, SUNDIALS | positions in two orders, event times, the last step |
| FMU wrapper (`FMUWrapper.cpp`) | FMU instance, variables, parameter caches, columns | `enter/exitInitialization`, `reset`, get/set, register, emit | FMI library, solver, writer | FMI modes after failures, caches after a reset |
| Model, oms2 (`Model.cpp`) | `modelState`, file name, writer | `initialize`, `reset`, `setResultFile`, `simulate*`, save, load | composite model, writer | any order of calls, partial failure |
| Scope, oms2 (`Scope.cpp`) | models by name | new, unload, rename, lookup, every call by reference | all of oms2 | names in several places |
| Result writers (`ResultWriter.cpp`, `CSVWriter.cpp`, `MATWriter.cpp`) | signals by ID, buffer, file | `addSignal`, `create`, `updateSignal`, `emit`, `close` | model, FMU wrappers | rows in the buffer when the file changes |
| Result readers (`ResultReader.cpp`, `CSVReader.cpp`, `MatReader.cpp`) | a file | `getSeries`, `compareSeries` | tables, the C function that compares | two samples at one time |
| Model, oms3 and `SystemWC` | `modelState`, `cancelSim`, `time`, writer | `instantiate`, `initialize`, `simulate`, `simulate_asynchronous`, `cancel`, `terminate` | a detached thread, sub-systems, FMUs | interleaving with the client; values that cross a border |
| Directed graph (`DirectedGraph.cpp`) | nodes, edges, cached order | `addEdge`, `includeGraph`, `getSortedConnections` | composite model, systems, components | Tarjan on edges, stale cache |
| System structure (`System.cpp`, `BusConnector.cpp`, `TLMBusConnector.cpp`, ...) | connectors, connections, buses, sub-systems | add and delete | model, scope | references left behind |
| Scope, oms3 (`Scope.cpp`) | vector of models and a map to positions | new, delete, rename, export, import | models | the map after a deletion |
| TLM (`SystemTLM.cpp`, `TLM/`) | plugins, connected subsystems | `stepUntil` in phases of threads | TLM manager (a submodule that is not in the repository) | unsynchronised map, joins left out, delays kept twice |

`PROJECT.json` lists every component with its status, and under `hazards` every
place at which this code is hard to test, with the property that covers it or
the reason why none does.

How they interact: the client calls the C functions of `OMSimulator.cpp`, which
forward to the scope and from there to a model. The model owns the result
writer and hands a reference to it to its composite model. The composite model
owns sub-models and solvers; a solver holds pointers to FMU wrappers and they
hold one to it. Before a simulation the composite model asks the graph for the
sorted connections; during one, it steps tables directly and FMUs through their
solvers, then passes outputs to inputs. With the parallel multi-rate masters
each sub-model has a thread of its own and all exchange goes through the
channels. In a TLM simulation each subsystem has a thread of its own in every
phase and all exchange goes through its plugin and the manager.

## 2. Modules

| Module | Models | Uses |
|---|---|---|
| `RateTransition` | what a channel promises: which sample a read returns | |
| `PMRChannel` | the channel classes A, CV and M, step by step | refines `RateTransition` |
| `PMRChannelProofs`, `PMRMasterProofs`, `FMICompositeModelProofs`, `SolverProofs`, `ModelProofs`, `SystemWCProofs`, `SystemTLMProofs`, `SystemProofs` | theorems about the module of that name | each extends it |
| `PMRMaster` | channel map and threads | channels at the interface `RateTransition` |
| `Lockstep` | what a single-rate master promises: a sequence of communication steps | |
| `FMICompositeModel` | the masters standard and pctpl, and doSteps | extends and refines `Lockstep` |
| `Solver` | one solver and its FMUs | |
| `ResultWriter`, `ResultReader` | operators: the buffer of a file, its layout, readers, comparison | |
| `Model` | life cycle of an oms2 model | extends `ResultWriter` |
| `FMIStructure` | operators: the structure of an oms2 composite model and the methods that change it | |
| `Scope` | the models of oms2 and the calls of the API that change them | extends `FMIStructure` |
| `Signals` | variables and parameters of oms2 FMUs, from the calls to the columns of a file | extends `ResultReader`, `ResultWriter` |
| `SystemWC` | life cycle of an oms3 model with a weakly coupled system, simulations in threads | |
| `System` | the registry and the structure of oms3 models | |
| `Values` | the values of oms3 systems with sub-systems, connectors and columns | |
| `DirectedGraph` | the dependency graph of a system or component and the sorted connections | |
| `SystemTLM` | the phases and threads of a TLM system (oms3) and a TLM composite model (oms2) | |

`MC*` modules only give the constants their values; each `MC*.cfg` is one run.
Definitions whose comment begins with "Mutant" are not part of any
specification: each is the form a definition would have with a plausible bug,
and with it in place the run named in `PROJECT.json` reports a violation.

### RateTransition, PMRChannel

`written` and `reads` count completed calls, and values are numbered in the
order in which they are written. `IsDue(m, q)` says that read number m returns
value number q: with a fast writer one value of each slow period, with a fast
reader every value k times. The channels A and CV sample a fast writer at the
beginning of a slow period, because `n_` starts at `k - 1`; M starts at 0 and
samples it at the end (`late`). `PMRChannel` follows the code: `n` and `v` are
the plain fields, `isProduced` the flag, `owner` the mutex of CV, `unlocked` the
two mutexes of M, and `pc` says where each side is. The flag or the mutexes are
one step, the access of the plain fields is a step of its own between entering
and leaving, so a race is a state in which both sides are `inside`. CV's wait,
spurious wake-up, release and notification are separate steps.

The memory model is that of an atomic flag and mutexes with their ordering
(`std::atomic` defaults, `std::mutex`): accesses ordered by them are seen in that
order; that the plain fields need no more is what `NoDataRace` says.

### PMRMaster

One `Setups` record is a composite model with the arguments of `stepUntil`.
`AccessesOf` is the list the channel map builds, including the repetition of an
output for each of its connections. A thread goes through `BeginStep`, a `Write`
or `Read` for each access, `DoStep`, and ends by its loop test. Time is in ticks,
so that a tenth of a step is an integer; floating-point rounding of `tcur` is not
modelled. The constructor's `exit(1)` and the exception of `map::at` end the
program (`exited`).

### Lockstep, FMICompositeModel

`Lockstep` has the time, the inputs and the last row of results only. A value is its age,
the oldest communication time any part of it goes back to, which is what tells a right
order of updates from a wrong one; a loop iterates at most ten rounds, as in the code,
until the outputs stay the same. `FMICompositeModel` adds `now` (the member `time`, moved
before the jobs run), the time each sub-model has been stepped to, and for pctpl the
queue, the threads of the pool and the futures. `call` is the running call or the last
one: its master, when it began, its stop time, the steps asked for and those left. It is
kept when the call has returned, so that `CallsReturn` can say that the call has taken the
model to its stop time and not beyond it, or by its number of steps. It implements
`Lockstep` with `time` the last completed communication time. A row that is due is written
at the end of the step; with a logging interval of 0 the code writes a second one before
the inputs are updated, which `Lockstep` leaves out and `Model` has.

### Solver

`slots` and `states` are the vectors by position, `slots` the next event time, `states`
whose states the vector has and to which time they have been integrated. `mode` is the
FMI mode of each FMU, `advanced` the states it holds, as such a pair, `handled` the
events it has iterated at their time, `illegal` the calls made in a mode that does not
allow them. `fmus` (order of `connectSolver`) and `order` (order of the sub-models'
names) are two sequences, since the code uses one position for both: with two orders an
FMU is given the states of another one. A pass of `doStep` is two steps, `HandleEvents` and
one of `Euler`, `Cvode` and `CvodeRefuses`. `DoStep` is asked for any part of an interval,
as the last step before a stop time is. FMUs and SUNDIALS are external: an FMU
announces its next time event; a state event or a request of
`completed_integrator_step` is a free choice (`asked`). CVode reaches the time it is asked
for or, failing on the way, one before it; it may refuse a time that lies behind the one
it has reached, as it is asked for after a shortened step, and leaves the states as they are.

### ResultWriter, Model

`Model` composes `Model::initialize`, `reset`, `setResultFile`, `simulate` and the
destructor with what they do to the FMUs (`mode`, `initialized`) and to the
file: `disk` holds what has been written, `emitted` what was given to `emit`. One
call of a client is one step, except a simulation, whose communication steps are
single steps. An FMU in `failing` may refuse to leave its initialisation mode; the
files `locked.mat` and `locked.csv` cannot be opened, `model.txt` has an unsupported
extension, the empty name means no file. `fault` is the use of the NULL writer, or of the
file `locked.csv`: `CSVWriter::createFile` does not ask whether it was opened
(`CSVWriter.cpp:54`). After it the program is gone.

### FMIStructure, Scope

In `FMIStructure` a composite model is a record and each method of
`FMICompositeModel` and `Solver` that changes the structure an operator from a
model to a model; a method that refuses returns the model it was given. FMUs and
solvers are objects with addresses, since what can go wrong is a pointer: the
sub-model's `solver` and the solver's `fmus` are set by different calls, and an
FMU may be freed while a solver still has it (`fault`). A reference is a sequence
of identifiers, and the client may name a sub-model in full or not.

`Scope` adds the models by name, their settings, the file and one action per
call, grouped as the sections of `OMSimulator.cpp`. `ready` remembers that a
model has been initialised and not been changed since, while `state` is the
code's, so that a client may step a model after it has taken it apart. A sub-model
keeps as `parent` the name its model had when it was added; `doStep` looks that
model up (`SocketsLost`). The value "refused" is one the FMU does not take: the code
keeps it, saves it, and then cannot load the file (`Loadable`). `deleteSubModel` moves the last
connection to the place of a deleted one and looks at it next (`Unconnected`). Left out:
the variables of an FMU keep its name from before a renaming (section 6).

### ResultReader, Signals

`ResultReader` holds the layout of the two formats as matrices and columns, the
look-up of a series in each, and `compareSeries` with its two positions; a number
that a division gives is a pair of integers, so nothing is rounded.
`Signals` has the values of the FMUs, the maps of parameters of the wrappers, the
mapping from IDs to variables, and the writer with its signals and buffer; a
client gets, sets, initialises, steps, resets, and changes what is exported and
the file. `truth` and `history` are history variables: the values the variables
really had at each row. FMUs are external: which calls they accept in which mode,
and that an output follows an input, is chosen as FMI says.

### SystemWC

The client's calls are one step each, as its thread is one. A run is one call of
`SystemWC::stepUntil`: number 0 is that of `simulate`, which keeps the client waiting and
has no callback, the others are the detached threads of `simulate_asynchronous`. `pc` says
where a run is in its loop. A communication point has two rows, one before and one after
`updateInputs`, each written in a step of its own (`EmitStepped`, `EmitUpdated`).
`Model::emit` returns without writing when an FMU refuses to be read (`Model.cpp:541`),
and nobody looks at what it returns: the row is lost (`unread`). After a misuse rows are
not recorded (a bound). `mode` is the FMI mode of each FMU, as the code's calls leave it:
an FMU accepts `fmi2Terminate` in the mode simulation only, and one that has been freed
must not be called (`fault = "fmu"`).

The code lets the client call anything at any time. `misuse` remembers that it has
called anything but a cancellation while a run was under way, has started a run
with no writer, or has called `simulate` with a cancellation in force (whose
`discard` goes to a NULL callback). The actions do what the code does then, but
the client makes no further call (a bound); the properties are about clients that
do not. An FMU that refuses, or an unsupported file name, leaves the model in a
state which only its deletion ends, so `NoFault` excepts these (`refused`). A
client has no way to ask whether a run is over: it learns it from `discard`,
while the report at the stop time comes before the thread leaves its loop. Of the files that
cannot be opened only `locked.mat` is here; `Model` has the other.

### System

A model is a tree, a function from the paths of its systems to what each holds. The
methods of `System` that call themselves for a sub-system are operators that look once how
far the reference leads. A component is its kind and its connectors. `models` and `index`
are the vector and the map of the scope. `Accepted` is what `updateDependencyGraphs`
checks at the initialisation of a weakly coupled system and, for the others, when their
dependency graphs are exported. `ExportToSSD` is what a file keeps: both kinds of FMU have
the type `x-fmu-sharedlibrary` (`ComponentFMUME.cpp:67`), an external model has none, and
a delay is rounded to the six decimals of `std::to_string` (`Connection.cpp:132`).
`ImportFromSSD` is the sequence of calls that reading makes: `Creation` adds the systems,
`Reading` is `Steps` of each system, the inner ones first, and `Run` performs them until
one fails. Reading opens every FMU as one for co-simulation (`System.cpp:446`), from the
file `resources/<name>.fmu`. The archive has it only if an FMU for co-simulation of that
simple name was added to some system (`Archived`); one for model exchange is not copied.
Enumerations and strings are refused (`Connector.cpp:103`): a component is read without
them, a system is not read. `RoundTrip` says exactly which models can be imported
(`Importable`) and what is then left out (`WithoutRefused`). Paths that the client gives
are taken to be absolute. `removed`, `clash` and `Hides` name the cases in which the code
leaves references behind or lets a name be used twice; `removed` is also set when
`addExternalModel` replaces a component.

### Values

A top-level system with sub-systems, their FMUs and connectors. A step copies
within a system in the sorted order and stops at the first group that the code
does not handle (a loop, or signals that are not real), steps the sub-systems
first, and then emits by the mapping from IDs to positions in the vector of
connectors. `emitted` keeps with each cell the value of the signal it was
registered for.

### DirectedGraph

The three graph operations and Tarjan's algorithm on the edges as the code has it
(with its vectors of positions, not nodes of names), for the graphs a component
has from its `modelDescription` and the graph of a system that includes them. The
properties compare the result with reachability, computed as a closure. `Graphs`
is a constant operator that gives each part the graphs it may have.

### SystemTLM

A setup is a TLM system of oms3 or what a client of oms2 may put together. `main`
is the phase of `stepUntil` and `pc` where the thread of each subsystem is in it.
The manager and its plugins are external, by what the code counts on: a plugin
answers for time u as soon as the other end has sent its motion for u minus the
delay, and a subsystem may close when all have sent what they have. Delays count
in halves, so that half a delay is an integer. Two insertions in the map of plugins
that overlap are noted in `raced`: what the map holds afterwards is undefined.
`Clean` collects the cases after which the code promises nothing: an abandoned
thread of the manager, overlapping insertions that lost a plugin, a second
simulation with a plugin that may refuse, an FMI model of oms2 used on its own.

## 3. Runs

States in which the program may stop are stuttering steps of their own
(`Finished`, `Over`, `Rest`), or the configuration says that it may stop
(`MCScope`, `MCSignals`, `MCValues`: a client may make no further call;
`MCSystemTLM`: it may be done).

| Run | Bounds | Shows |
|---|---|---|
| `MCPMRChannel` | all classes, ratios 1 to 3, 3 periods | `NoDataRace`, `OneTurn`, `NoLostWakeup`; `ImplementsPromise` (refinement); `AllCallsReturn` |
| `MCPMRMaster` | 21 composite models of 2 or 3 sub-models (chains in both sort orders with three sets of ratios, early and late channels; cycles; a table; a self-loop; an algebraic loop; integers; non-dividing ratios; an unconnected sub-model; clamped stop times) | `Coherent`: whatever the scheduling a sub-model steps on exactly the sample the rates prescribe; `StepUntilEnds` |
| `MCFMICompositeModel` | 7 composite models, 2 calls, time up to 4 | `InputsFollowOutputs`, `ImplementsLockstep` (refinement), `CallsReturn` |
| `MCSolver` | 2 FMUs, 7 sets of methods, events, states and orders (2 with two orders), steps of 1 to 4, time up to 8, 1 reset | `EventsInEventMode`, `NoEventMissed`, `StatesReachStop`, `DoStepReturns` |
| `MCModel` | 3 FMUs, 6 calls, time up to 3, 4 sets of settings, 2 files and 4 names that are none | `SimulationIsReady`, `CallsAreLegal`, `RowsKept` |
| `MCScope` | 2 models, 2 sub-models and 2 solvers, full and local and invalid names, a value that is refused, 4 calls from an empty or a wired model | `SolverLinks`, `ReadyModelIsStepped`, `LookupsAgree`, `LoadedIsSaved` |
| `MCSignals` | 2 FMUs with variables of four types, a table, 2 formats, 2 intervals, 3 calls | `SeriesAreTheirs`, `ParametersAreKept`, `CompareIsSound` |
| `MCSystemWC` | 2 models of 1 and 2 FMUs, 8 calls, 2 asynchronous runs, up to 2 steps, the last one clamped, an FMU that may refuse to be read | `ReportsFit`, `RowsFit`, `CancelIsPrompt`, `NoFault`, `RunsEnd` |
| `MCSystem` | 2 names of models (symmetric), 3 models to start from (a weakly with a strongly coupled system, a TLM system of two, a TLM system with a table), FMUs of both kinds with connectors of two types, 2 delays, 4 calls | `Registered`, `OneDriver`, `BuiltIsAccepted`, `RoundTrip` |
| `MCValues` | a system with a sub-system, an FMU in each, 3 wirings, 5 calls | `ColumnsAreTheirs`, `StepPasses` |
| `MCDirectedGraph` | a sub-system and two components with the dependencies they may have, up to 3 connections out of 14 | `LoopsTogether`, `ProducersFirst` |
| `MCSystemTLM` | 2 and 3 subsystems of oms3, 2 of oms2, delays 1 and 2, an FMU that may refuse, 2 simulations | `PhasesAreBarriers`, `NothingMissing`, `SimulateReturns` |

Why the bounds are enough: a channel's counter passes through every value and
wraps twice within three periods, for each kind of transition; ratios above 3
only repeat the middle of a period, and the theorems hold for every ratio. In
`PMRMaster` a thread's behaviour depends on the connections of its own sub-model,
and three sub-models give every position in a chain and a cycle. Two calls of the
composite model are enough for one to begin where another has ended, off the grid
of the first. Six calls of a model reach a failed initialisation, reset, another
initialisation, a simulation and a further reset with a changed file name.
Eight calls of an oms3 model reach a cancelled run, a second one that goes on after
it and a second life of the model with a run in it. The structures start from
models that are built already, so four or five calls are those that take apart
and rebuild: delete, add again under the same name, connect, initialise; or
rename, add, save, load. A pair of sub-models and of solvers is what a pointer can
be swapped in. Three connections among a sub-system and two components close a
loop through any two of them with a third connection into or out of it. Signals
of two FMUs and two formats with three calls reach a second file with other
columns after a reset. In `SystemTLM` three subsystems in a row have one that waits
on both sides.

Liveness is checked where threads or loops wait: `AllCallsReturn`, `StepUntilEnds`,
`CallsReturn`, `DoStepReturns`, `RunsEnd` and `SimulateReturns`.

## 4. Fairness

- `PMRChannel`: each side is a thread; it runs when it can (weak fairness per
  side). Spurious wake-ups are not produced for ever, an assumption about the
  runtime: a side woken again and again could otherwise keep the mutex from the
  other. No fairness among waiters for the mutex is assumed beyond that.
- `PMRMaster`, `FMICompositeModel`: weak fairness of the master's thread and of
  each other thread. `Client` has none; nobody has to make a call.
- `Solver`: weak fairness of the loop of `doStep`, which is sequential code.
  `DoStepReturns` excepts an integrator that fails for ever at the same time: the code
  then asks again without end.
- `SystemWC`: weak fairness of each thread's `stepUntil`; none of the client.
- `SystemTLM`: weak fairness of `stepUntil`, of the thread of the manager and of
  the thread of each subsystem; none of the client.
- `Model`, `Scope`, `Signals`, `System`, `Values`, `DirectedGraph`: none; their
  calls are sequential and only safety is checked.

## 5. Proofs

Each `*Proofs` module extends the module it is about. In all of them the
conjunction of the parts of an inductive invariant is called `IInv`, the theorem
`Invariance` says `Spec => []IInv` (for the composite model with `InputsShape`, the
domain of the inputs, beside it), the other theorems follow from it, and a lemma
per action shows that the action keeps it. Before the proofs TLC has checked each
`IInv` on the configuration of its run.

| Module | Theorem | Property |
|---|---|---|
| `PMRChannelProofs` | `TypeCorrect`, `RaceFree`, `TurnUnique`, `NoWakeupLost` | `TypeOK`, `NoDataRace`, `OneTurn`, `NoLostWakeup` |
| | `SamplesAreDue` | every read returns the value of the rate transition |
| | `Refinement` | `ImplementsPromise`: `PMRChannel` implements `RateTransition` |
| `PMRMasterProofs` | `SamplesAreDue` | `OneToOne => Coherent` |
| `FMICompositeModelProofs` | `InputsAreCurrent` | `InputsFollowOutputs` |
| | `CallsReturnInTime` | the safety part of `CallsReturn`: a call that has returned has reached its stop time or taken its steps, and gone no further |
| | `Refinement` | `ImplementsLockstep`: the masters implement `Lockstep` |
| `SolverProofs` | `StatesAreIntegrated` | `StatesReachStop` |
| | `EventsAreLegal`, `EventsAreNotMissed` | `EventsInEventMode`, `NoEventMissed` |
| `ModelProofs` | `SimulatedModelsAreReady`, `FMUsAreCalledLegally`, `RowsAreKept` | `SimulationIsReady`, `CallsAreLegal`, `RowsKept` |
| `SystemWCProofs` | `LifeCycle` | what holds of the FMUs and of a cancellation whatever the client does |
| | `ReportsAreComplete`, `RowsAreComplete`, `CancellationIsPrompt`, `CleanClientIsSafe` | `ReportsFit`, `RowsFit`, `CancelIsPrompt`, `NoFault` |
| `SystemTLMProofs` | `NothingIsMissing`, `BarriersHold` | `NothingMissing`, `PhasesAreBarriers` |
| `SystemProofs` | `RegisteredAlways`, `OneDriverAlways`, `BuiltIsAcceptedAlways` | `Registered`, `OneDriver`, `BuiltIsAccepted` |

They hold for any number of sub-models, FMUs, connections, jobs, threads, runs and
calls, any step sizes and stop times and any size of the buffer, and of oms3 models for
any number of models, systems, components and connectors with any references. The bounds on
time and calls are constants of which nothing but their type is assumed.

### Assumptions

The named assumptions say of the constants what the code checks or what makes a
setup one at all, and TLC evaluates them for the constants of each run.

- `PMRChannel`: positive activation ratios.
- `PMRMaster`, `SetupsAssumption`: connections are between sub-models, the ratios and the
  interval are positive. Nothing checks a ratio (`FMISubModel.h:88`); with 0 the
  construction of the channels divides by zero or a thread does not come to an end.
- `FMICompositeModel`: every sub-model is in a job, the interval is positive, and the
  connections are sorted as `DirectedGraph` sorts them (`ConnectionsAssumption`: an
  input has one connection; an output passed on by itself depends on no input that
  is set with it or later). That the graph yields such an order is what
  `MCDirectedGraph` checks.
- `Solver`: the FMUs have one name each, events lie after the start, the interval is
  positive. `Model`: types of the settings; the NULL writer is no file. `SystemWC`: the step
  size is positive. Nothing checks it; with 0 `stepUntil` does not come to an end.
- `System`: a reference of the client has at least one name (`ReferencesAssumption`; an
  empty one is no identifier and is refused), and the trees a model may start from are
  such as calls have built (`BasesAssumption`: `Sound` with nothing lost). With the empty tree as
  the only base (`NoTreeSound`) every model is built from nothing.

Two hypotheses are not assumptions but part of properties or theorems, since the code
admits states in which they fail. `SameOrder` says that the FMUs were connected to the
solver in the order of the names of the sub-models; otherwise `Solver::initializeFMU`
takes one position for two orders (section 6), and without it the three properties of
`Solver` do fail; it is a premise of each. `OneToOne` says that no output and no input has
two connections; an output with two is listed twice and written twice per step (section
6), and a second connection of an input has no channel of its own; the run `MCPMRMaster`
keeps to these cases. The type correctness needs neither. `MCSolver` has setups with two
orders as well, so that the step of the code that goes wrong with them is run, but the
properties claim nothing there.

### The arguments

- `PMRChannel`. The type of `n`, "a counter with the property n <= k"
  (`PMRChannel.h:129`), is not inductive: that the counter does not pass k depends on
  who may be where. `ControlInv` says who holds the mutex, and that the side inside
  is the one whose turn it is. `CountInv` ties the counter to the numbers of completed
  calls, for instance, with a fast writer and nobody between access and return,
  `written = reads * k + n - (k - 1) + Phase`. From it follows that a turn is handed over
  exactly when the due value is in the slot. For the refinement the returning step
  of `write` and `read` maps to `Write` and `Read`, every other step to a stutter.
- `PMRMaster`. `Coherent` speaks of the end of a step and is far from inductive.
  `WritesInv` and `ReadsInv` tie the numbers of calls of a channel to the times of
  its two threads, by whether the call is still to come in the step; `SlotInv` says
  that the channel holds the last sample and that those before it are due no more.
  A read then gets the sample number that is due, and arithmetic on the rates
  (`DueAtRead`) makes that the sample of the time. That each call occurs once
  among the accesses of a thread is shown of the concatenations the channel map is
  built from (`FlattenSeqJoins`, by induction over their number).
- `FMICompositeModel`. `PoolInv`: a job is queued, run by one thread, or done, never two
  of these, so that when the master has all futures every job has run once. `ReachedInv`:
  the sub-models of finished jobs are at the time of the step. `TimeInv`: the member
  `time` is ahead while jobs run. `CallInv`: what a call has reached and what is left of
  it make up what it was asked for, from which `CallsReturnInTime` follows. `updateInputs`
  is a function recursive on the connections; that afterwards each input has what its
  output has is an induction over them, in which the order of the connections keeps the
  outputs that were passed on already from changing. `StepSimulation` maps the exchange of
  a step to a step of `Lockstep` and everything else to a stutter.
- `Solver`. `PositionsInv` counts the positions in use against the modes. `StatesInv` says
  that each position has the states of the FMU that has it in `fmus`, the ones that FMU
  holds, and ties them to the time (with cvode, also to the time the integrator has
  reached). It is kept because with one order the position at which an FMU is initialised
  is its own. `SlotsInv` says that no event that is still to come lies before the kept time
  of its FMU, and no kept time before the time of the solver.
- `Model`. `FileInv` says when there is a file, that its rows are in order and none is
  later than the model, `ModesInv` that the FMUs are in step with the model unless one
  has refused. That a row is kept while the buffer is filled and flushed
  (`EmittingKeeps`) is an induction over the rows, for any size of the buffer.
- `SystemWC`. `LifeCycleInv` holds for all clients. Of a client that waits for its
  runs, `OneRun` says that at most one run is under way and the model is ready for it,
  and `ProgressInv` what the reports, the rows and the time say at each place of
  `stepUntil`; without them the four properties are not inductive. `RowsReachTime` says that no
  row lies after the newest one that was asked for: the next row is then in order, and new.
- `SystemTLM`. `ListsInv`: a subsystem is on a list only once its thread is through;
  `PluginsInv`: which plugin each thread has entered or registered, unless an overlapping
  insertion has lost it; `ModesInv`: the modes and initial values by phase. The joins
  between the phases carry these from the ends of the threads to the next phase.
- `System`. `Registered` is inductive but for the shape of the vector. For the other two,
  `Sound` says of each tree that no input of an element has two drivers and that, unless
  something is lost or hidden, every single connection joins two connectors
  (`AcceptedIn`). A call either leaves the connectors of a system as they are
  (`SimilarSound`) or only makes more references resolve (`RicherSound`): a new system in
  which nothing is hidden, a new component, a new connector. `addExternalModel` is the
  exception, which the attempt to prove this showed: it makes fewer resolve, hence
  `removed`. It does so in TLM systems only, where it cannot hide a connector of the
  system as well, since there is none (`SystemOK`). `deleteAllConectionsTo` moves the last
  connection to the place of a deleted one and looks at it next; `SweepDriven` shows, by
  induction over the looks, that what stays has no second driver. For the import,
  `StepsAreOK` says that each step of a document is one that a client could have made, and
  `RunReads` that the tree read so far stays sound after any number of them; a document
  need not be one that can be read (`DocumentOK`), since a step that fails ends it.
  `WrittenIs` and `ExportConnectionsOK` say that writing a connection keeps its ends,
  whatever becomes of its delay. That nothing is lost between the export and the import is
  not proved (`RoundTrip`).

Induction over data is done with `SetInduction`, which each module that needs it states
for itself: the set of numbers for which a statement holds has 0 and with every number
the next one. A function defined by recursion is first shown to exist that way
(`PassedOnExists`, `EmitStepsExist`, `FlatExists`, `LooksExist`, `AfterExists`), then its
values are.

### Only model-checked

Liveness under fairness (`AllCallsReturn`, `StepUntilEnds`, `CallsReturn`, `DoStepReturns`,
`RunsEnd`, `SimulateReturns`), which the prover does not do; `RoundTrip` of `System`, which
compares two whole trees after an import; the action property `StepPasses` and the
invariant `ColumnsAreTheirs` of `Values`; and the properties of `DirectedGraph`, `Scope` and
`Signals`, which declare a RECURSIVE operator or extend a module that does
(`DirectedGraph`, `FMIStructure`, `ResultReader`), where the prover has no arithmetic. The
values that a loop iterates to are outside of `InputsFollowOutputs`.

## 6. Where code and expectation part

Met while modelling. In the specifications these are actions as the code has them;
the properties are stated with the exception the code makes, named above.

oms2:

- "Simulates a composite model until a given time value" (`OMSimulator.h:384`):
  with a parallel multi-rate master the call need not return. An output with
  several inputs is listed once per connection (`PMRChannelMap.h:159`) and each
  time writes all its channels; two tolerances of a tenth of a step
  (`PMRChannelMaster.h:116`) may let one thread end while the other waits.
- The threads of that master call `FMUWrapper::doStep` (`FMUWrapper.h:66`), which
  only logs an error.
- CVode is asked for the unshortened step (`Solver.cpp:471` against `:440`), and may
  refuse what lies behind it in the next one. Events are iterated and states exchanged by
  position (`Solver.cpp:184`, `:450`), which is that of another FMU if solver and sub-models
  differ in their order.
- An FMU that failed to initialise is not reset (`FMUWrapper.cpp:501`).
- "update internal references to the parent FMI composite model"
  (`CompositeModel.cpp:54`): the sub-models' `parent` is not updated, and the next
  `doStep` uses a NULL model (`FMUWrapper.cpp:595`). Variables keep the old name of their FMU
  (`FMUWrapper.cpp:255`), so that `updateInputs` asks for an FMU that is not there and passes on 0
  (`FMICompositeModel.cpp:1730`).
- `deleteSubModel` leaves the solver a pointer to the FMU (`Solver.cpp:126` is not
  called). `unloadModel` leaves a TLM model pointers to its FMI models.
- An invalid identifier counts as valid and unused (`FMICompositeModel.cpp:1874`).
- `LoadModel` deletes the model of that name first; an unknown attribute then leaves
  the scope a dangling pointer (`Model.cpp:785`), and a parameter that an FMU once refused makes it
  fail (`FMICompositeModel.cpp:388`). A file holds no solvers, master
  algorithm, intervals, activation ratios or flags; booleans are written as words
  and read as integers (`FMUWrapper.cpp:585`), reals lose what is below 1e-6.
- `resultFileMapping` is never cleared (`FMUWrapper.cpp:892`); the cached parameters
  are stale after `reset`, a plain set or a refusal (`FMUWrapper.cpp:621`); signals of a
  table through the getters of the scope use a NULL pointer (`Scope.cpp:1229`);
  booleans are passed on with `getInteger` and `setInteger` (`FMICompositeModel.cpp:1738`).
- `compareSeries` does not look at the last sample (`ResultReader.cpp:117`); CSV files
  hold no parameters, and one that cannot be opened is written to (`CSVWriter.cpp:54`).
- TLM: initial values are set after the sockets were first read
  (`FMICompositeModel.cpp:916`, `:1199`), and a second `setTLMInitialValues` is ignored
  (`:1688`). An interface of dimension 2 is neither read nor written, so that its
  peer waits for ever.

oms3:

- The limit of the step, "half TLM delay" (`SystemTLM.cpp:246`), comes from the buses,
  whose delay `setTLMConnectionParameters` (`System.cpp:1093`) does not change; a bus
  without a connection has an uninitialised one. The map of plugins and that of
  sockets are filled by several threads without a lock; error returns leave the
  thread of the manager running. Of the two maps the module has the first; the second, into
  which the first `lock` of a subsystem inserts its mutex (`SystemTLM.cpp:567`), is left out.
- Deleting a connector leaves connections, buses and columns (`System.cpp:1213`,
  `:1611`); connections of an element are only found by its whole reference.
  `addSubSystem` does not look at connectors, `renameModel` takes a used name. External
  models and FMUs for model exchange cannot be imported, nor can systems with connectors
  for enumerations or strings; components lose theirs. Components of one simple name in two
  systems share a file of the archive. Delays are rounded.
- `addExternalModel` replaces a component of the same name without a look
  (`System.cpp:1027`). Connections to the old one stay, and `updateDependencyGraphs`
  refuses a model that was built by accepted calls only.
- `SystemTLM::initialize` takes every connection of the system for a TLM connection
  (`SystemTLM.cpp:155`); one between connectors, which `addConnection` accepts there,
  has no such parameters and they are read from NULL.
- A value that enters a sub-system is one step late (`SystemWC.cpp:145`), and
  `updateInputs` stops at the first loop or signal that is not real.
- A synchronous simulation that meets a cancellation calls a NULL callback
  (`SystemWC.cpp:184`).

## 7. Not modelled

- `simulate_asynchronous` of oms2: no call may meet it safely and the client
  cannot tell when it ends; its hazard is listed without a property.
- Opening and unpacking FMUs, the bytes of the formats, XML, names as text, drawing
  coordinates except those of an element, texts such as `describe` and the dot
  files, directories: they read, forward, format, and keep no state that calls
  or threads can bring out of step.
- Interpolation in tables (`Table::getReal`) and the iteration of a loop to a
  tolerance: computations on reals. Floating-point rounding: times are integers. The
  realtime mode: it sleeps and logs.
- The strongly coupled system: at this commit its operations return "not
  implemented".
- The TLM manager and its plugins, which are not part of the repository, and
  external models with their processes.
- Logging, clocks, the executable, the Lua and Python bindings and the
  identification library: they format, measure, forward one call each or fit
  numbers as a client of the library.

Undefined behaviour ends in a state of its own (`undefined`, `fault`) where it may
happen, without what follows it.

## 8. Plan

1. `strongconnect` as a recursive function, so that `DirectedGraph` can be proved about:
   `ProducersFirst`, on which `ConnectionsAssumption` relies.
2. `removeFMU` as a recursive function, so that `Scope` can: `SolverLinks` first.
3. `Values` (`ColumnsAreTheirs`), and `RoundTrip` of `System`.
