------------------------------ MODULE PMRMaster ------------------------------
(***************************************************************************)
(* The parallel multi-rate master (PMRChannelMaster.h, PMRChannelMap.h):   *)
(* stepUntil builds a channel for every sorted connection, starts one      *)
(* thread per sub-model and joins them all.  The threads meet only in the  *)
(* channels.  A channel is taken at its interface, the rate transition     *)
(* that every class of channel implements (RateTransition, PMRChannel).    *)
(*                                                                         *)
(* Time is counted in ticks of the communication interval's fraction, so   *)
(* that tcur is exact; a signal carries the tcur at which it was sampled.  *)
(***************************************************************************)
EXTENDS Integers, SequencesExt

CONSTANT
  Setups (* composite models and stepUntil arguments: records of           *)
         (*   subModels    their names, tables the subset that are tables  *)
         (*   ratio        their activation ratios                         *)
         (*   connections  the strongly connected components of the sorted *)
         (*                connections, each a sequence of <<output, input>>*)
         (*   late         the channel class is PMRChannelM                *)
         (*   interval     communicationInterval, in ticks                 *)
         (*   stop         stopTime, in ticks                              *)
         (*   integers     the inputs of type Integer                      *)
         (*   offset       an Integer output at tcur has tcur + offset     *)
(* An output or input is a pair <<sub-model, port>>.                       *)

(* Connections are between outputs and inputs of the sub-models.  Nothing  *)
(* checks that a ratio is positive; with another one the master divides by *)
(* zero or does not come to an end.                                        *)
ASSUME SetupsAssumption ==
  \A s \in Setups :
    /\ s.connections \in Seq(ToSet(s.connections))
    /\ \A scc \in ToSet(s.connections) :
         /\ scc \in Seq(ToSet(scc))
         /\ \A c \in ToSet(scc) : c[1][1] \in s.subModels /\ c[2][1] \in s.subModels
    /\ s.ratio \in [s.subModels -> Nat \ {0}]
    /\ s.interval \in Nat \ {0} /\ s.stop \in Int

VARIABLES
  setup,
  master,   (* "starting", "waiting" in join, "joined" or "exited"         *)
  accesses, (* the channel map: the calls every thread makes in a step     *)
  running,  (* the threads that have started and not returned              *)
  tcur,     (* tcur of every thread                                        *)
  pos,      (* its place in the accesses of the step, 0 at the loop test   *)
  channel,  (* per input: calls of write and read, and the slot            *)
  signal,   (* per input: the sample the sub-model was given last          *)
  reached   (* the time every sub-model has itself been stepped to         *)

vars == <<setup, master, accesses, running, tcur, pos, channel, signal, reached>>

-----------------------------------------------------------------------------
(* The channel map. *)

(* Only components of size 1 get a channel; a loop is reported and skipped. *)
Connections ==
  FlattenSeq([n \in DOMAIN setup.connections |->
                IF Len(setup.connections[n]) = 1 THEN setup.connections[n] ELSE << >>])

Output(c) == c[1]
Input(c) == c[2]
Inputs == {Input(c) : c \in ToSet(Connections)}
Source(input) == Output(CHOOSE c \in ToSet(Connections) : Input(c) = input)

(* The inputs an output is connected to, in the order of the connections. *)
ConnectedInputs(output) ==
  FlattenSeq([n \in DOMAIN Connections |->
                IF Output(Connections[n]) = output THEN <<Input(Connections[n])>> ELSE << >>])

WriteTo(input) == [op |-> "write", input |-> input]
ReadFrom(input) == [op |-> "read", input |-> input]

(* The channel calls of one step of s for one connection.                  *)
AccessesFor(s, c) ==
  (IF Output(c)[1] = s
   THEN [n \in DOMAIN ConnectedInputs(Output(c)) |-> WriteTo(ConnectedInputs(Output(c))[n])]
   ELSE << >>)
  \o (IF Input(c)[1] = s THEN <<ReadFrom(Input(c))>> ELSE << >>)

(* The channel calls of one step of s.  An output is listed once for every *)
(* connection it has, and each time all its inputs are written.            *)
AccessesOf(s) ==
  FlattenSeq([n \in DOMAIN Connections |-> AccessesFor(s, Connections[n])])

OutRatio(input) == setup.ratio[Source(input)[1]]
InRatio(input) == setup.ratio[input[1]]

(* Mutant: the comparison of the ratios is turned round.                   *)
TransitionSwapped(input) ==
  CASE OutRatio(input) > InRatio(input) -> "FASTTOSLOW"
    [] OutRatio(input) < InRatio(input) -> "SLOWTOFAST"
    [] OTHER -> "SAME"

Transition(input) ==
  CASE OutRatio(input) < InRatio(input) -> "FASTTOSLOW"
    [] OutRatio(input) > InRatio(input) -> "SLOWTOFAST"
    [] OTHER -> "SAME"

Larger(a, b) == IF a > b THEN a ELSE b
Smaller(a, b) == IF a < b THEN a ELSE b

(* One ratio has to be a multiple of the other. *)
Divisible(input) ==
  Larger(OutRatio(input), InRatio(input)) % Smaller(OutRatio(input), InRatio(input)) = 0

Factor(input) ==
  Larger(OutRatio(input), InRatio(input)) \div Smaller(OutRatio(input), InRatio(input))

Channel(input) == INSTANCE RateTransition
  WITH Ratios <- Nat \ {0}, Periods <- 0,
       rt <- Transition(input), k <- Factor(input), late <- setup.late,
       written <- channel[input].written, reads <- channel[input].reads, last <- -1

-----------------------------------------------------------------------------
Step(s) == setup.interval * setup.ratio[s]

(* The loop runs while tcur < stopTime - 0.1 * step. *)
MoreSteps(s) == 10 * tcur[s] < 10 * setup.stop - Step(s)

(* std::numeric_limits<float>::min is the smallest positive float, so that  *)
(* 0 and every negative number count as an overflow.                       *)
Representable(number) == 1 <= number /\ number <= 32767

Init ==
  /\ setup \in Setups
  /\ master = "starting"
  /\ accesses = [s \in setup.subModels |-> << >>]
  /\ running = {}
  /\ tcur = [s \in setup.subModels |-> 0]
  /\ pos = [s \in setup.subModels |-> 0]
  /\ channel = [i \in Inputs |-> [written |-> 0, reads |-> 0, v |-> -1]]
  /\ signal = [i \in Inputs |-> -1]
  /\ reached = [s \in setup.subModels |-> 0]

(* stepUntilPMRChannel: build the channels and start the threads.          *)
Start ==
  /\ master = "starting"
  /\ \A i \in Inputs : Divisible(i)
  /\ master' = "waiting"
  /\ accesses' = [s \in setup.subModels |-> AccessesOf(s)]
  /\ running' = setup.subModels
  /\ UNCHANGED <<setup, tcur, pos, channel, signal, reached>>

(* The constructor of the channel map calls exit. *)
ExitOnRatios ==
  /\ master = "starting"
  /\ \E i \in Inputs : ~Divisible(i)
  /\ master' = "exited"
  /\ UNCHANGED <<setup, accesses, running, tcur, pos, channel, signal, reached>>

(* A thread of a sub-model without any channel looks up its accesses with  *)
(* map::at; the exception leaves the thread and ends the program.          *)
ExitOnUnconnected(s) ==
  /\ master = "waiting" /\ s \in running
  /\ accesses[s] = << >>
  /\ master' = "exited"
  /\ UNCHANGED <<setup, accesses, running, tcur, pos, channel, signal, reached>>

CanRun(s) == master = "waiting" /\ s \in running /\ accesses[s] # << >>

BeginStep(s) ==
  /\ CanRun(s)
  /\ pos[s] = 0 /\ MoreSteps(s)
  /\ pos' = [pos EXCEPT ![s] = 1]
  /\ UNCHANGED <<setup, accesses, master, running, tcur, channel, signal, reached>>

EndThread(s) ==
  /\ CanRun(s)
  /\ pos[s] = 0 /\ ~MoreSteps(s)
  /\ running' = running \ {s}
  /\ UNCHANGED <<setup, accesses, master, tcur, pos, channel, signal, reached>>

Accessing(s) == pos[s] \in DOMAIN accesses[s]
Call(s) == accesses[s][pos[s]]

(* Mutant: write does not wait.                                            *)
WriteAtOnce(s) ==
  LET i == Call(s).input IN
  /\ CanRun(s)
  /\ Accessing(s) /\ Call(s).op = "write"
  /\ channel' = [channel EXCEPT ![i].written = @ + 1, ![i].v = tcur[s]]
  /\ pos' = [pos EXCEPT ![s] = @ + 1]
  /\ UNCHANGED <<setup, accesses, master, running, tcur, signal, reached>>

(* write of the channel, which waits for the outstanding reads. *)
Write(s) ==
  LET i == Call(s).input IN
  /\ CanRun(s)
  /\ Accessing(s) /\ Call(s).op = "write"
  /\ ~Channel(i)!Pending
  /\ channel' = [channel EXCEPT ![i].written = @ + 1, ![i].v = tcur[s]]
  /\ pos' = [pos EXCEPT ![s] = @ + 1]
  /\ UNCHANGED <<setup, accesses, master, running, tcur, signal, reached>>

Accepted(input, sample) ==
  input \in setup.integers => Representable(sample + setup.offset)

(* read of the channel, which waits for the value that is due, and the     *)
(* conversion for the type of the input.                                   *)
Read(s) ==
  LET i == Call(s).input IN
  /\ CanRun(s)
  /\ Accessing(s) /\ Call(s).op = "read"
  /\ Channel(i)!Pending
  /\ channel' = [channel EXCEPT ![i].reads = @ + 1]
  /\ signal' = IF Accepted(i, channel[i].v)
               THEN [signal EXCEPT ![i] = channel[i].v] ELSE signal
  /\ pos' = [pos EXCEPT ![s] = @ + 1]
  /\ UNCHANGED <<setup, accesses, master, running, tcur, reached>>

AccessesDone(s) == CanRun(s) /\ pos[s] = Len(accesses[s]) + 1

(* tcur advances, clamped to the stop time, and the sub-model is told to   *)
(* step.  A table does; FMUWrapper::doStep only logs an error, its status  *)
(* is not looked at.                                                       *)
DoStep(s) ==
  /\ AccessesDone(s)
  /\ tcur' = [tcur EXCEPT ![s] = Smaller(@ + Step(s), setup.stop)]
  /\ reached' = IF s \in setup.tables THEN [reached EXCEPT ![s] = tcur'[s]] ELSE reached
  /\ pos' = [pos EXCEPT ![s] = 0]
  /\ UNCHANGED <<setup, accesses, master, running, channel, signal>>

Join ==
  /\ master = "waiting" /\ running = {}
  /\ master' = "joined"
  /\ UNCHANGED <<setup, accesses, running, tcur, pos, channel, signal, reached>>

(* stepUntil has returned, or the process is gone. *)
Over == master \in {"joined", "exited"} /\ UNCHANGED vars

Thread(s) ==
  ExitOnUnconnected(s) \/ BeginStep(s) \/ EndThread(s) \/ Write(s) \/ Read(s) \/ DoStep(s)

Next ==
  \/ Start \/ ExitOnRatios \/ Join
  \/ \E s \in setup.subModels : Thread(s)
  \/ Over

Spec == Init /\ [][Next]_vars

Names == UNION {x.subModels : x \in Setups}

(* The master and every thread run when they can. *)
FairSpec ==
  /\ Spec
  /\ WF_vars(Start \/ ExitOnRatios \/ Join)
  /\ \A s \in Names : WF_vars(s \in setup.subModels /\ Thread(s))

-----------------------------------------------------------------------------
(* The sample an input must have for a step that begins at time t: the one *)
(* taken at the last communication point of the source, or, with a late    *)
(* channel from a fast source, at its last one before the next step.       *)
Due(input, t) ==
  LET period == Step(Source(input)[1]) IN
  IF setup.late /\ Transition(input) = "FASTTOSLOW"
  THEN t + Step(input[1]) - period
  ELSE (t \div period) * period

InputsOf(s) == {i \in Inputs : i[1] = s}

(* Whatever the scheduling, a sub-model never steps on a sample that is    *)
(* older or newer than the rates prescribe: the parallel run exchanges the *)
(* same values as a sequential one.  An Integer sample that the conversion *)
(* refuses does not arrive.                                                *)
Coherent ==
  \A s \in setup.subModels : AccessesDone(s) =>
    \A i \in InputsOf(s) : Accepted(i, Due(i, tcur[s])) => signal[i] = Due(i, tcur[s])

(* Every thread has come within the tolerance of its loop to the stop      *)
(* time, with the sub-models that step themselves, and the last samples    *)
(* have been consumed.  FMUs are not stepped.                              *)
AtStop ==
  /\ \A s \in setup.subModels : 10 * (setup.stop - tcur[s]) <= Step(s)
  /\ \A s \in setup.tables : reached[s] = tcur[s]
  /\ \A i \in Inputs : ~Channel(i)!Pending

(* No wiring in Setups leaves a thread waiting for ever in a channel, and  *)
(* none ends early: stepUntil joins its threads at the stop time.          *)
StepUntilEnds == <>(master = "exited" \/ (master = "joined" /\ AtStop))

-----------------------------------------------------------------------------
(* The inductive invariant of Coherent. *)

TypeOK ==
  /\ setup \in Setups
  /\ master \in {"starting", "waiting", "joined", "exited"}
  /\ running \subseteq setup.subModels
  /\ tcur \in [setup.subModels -> Int] /\ pos \in [setup.subModels -> Nat]
  /\ channel \in [Inputs -> [written : Nat, reads : Nat, v : Int]]
  /\ signal \in [Inputs -> Int]

(* No output has two connections, and no input.                            *)
OneToOne ==
  \A m, n \in DOMAIN Connections :
    \/ Output(Connections[m]) = Output(Connections[n])
    \/ Input(Connections[m]) = Input(Connections[n])
    => m = n

(* The threads run with the channel map and only inside of their loop.     *)
ThreadsInv ==
  /\ master = "starting" => \A s \in setup.subModels : pos[s] = 0
  /\ master = "waiting" =>
       /\ \A i \in Inputs : Divisible(i)
       /\ \A s \in setup.subModels : accesses[s] = AccessesOf(s)
  /\ \A s \in setup.subModels : pos[s] # 0 => MoreSteps(s)

(* The thread of s makes this call in its step, or will. *)
ToCome(s, call) ==
  pos[s] = 0 \/ \E n \in DOMAIN accesses[s] : n >= pos[s] /\ accesses[s][n] = call

(* The number of writes is the time of the source, that of reads the time  *)
(* of the sub-model the input is of, as long as these go on.               *)
WritesInv(i) ==
  LET s == Source(i)[1] IN
  MoreSteps(s) =>
    channel[i].written * Step(s) = tcur[s] + (IF ToCome(s, WriteTo(i)) THEN 0 ELSE Step(s))
ReadsInv(i) ==
  LET s == i[1] IN
  MoreSteps(s) =>
    channel[i].reads * Step(s) = tcur[s] + (IF ToCome(s, ReadFrom(i)) THEN 0 ELSE Step(s))

(* A channel holds the last sample, and those before it are due no more.   *)
SlotInv(i) ==
  /\ channel[i].written > 0 => channel[i].v = (channel[i].written - 1) * Step(Source(i)[1])
  /\ \A q \in 0..(channel[i].written - 2) : ~Channel(i)!IsDue(channel[i].reads, q)

(* What has been read in a step is what it needs.                          *)
SignalInv(i) ==
  ~ToCome(i[1], ReadFrom(i)) =>
    (Accepted(i, Due(i, tcur[i[1]])) => signal[i] = Due(i, tcur[i[1]]))

InputInv(i) == WritesInv(i) /\ ReadsInv(i) /\ SlotInv(i) /\ SignalInv(i)

IInv ==
  /\ TypeOK /\ ThreadsInv
  /\ OneToOne => \A i \in Inputs : InputInv(i)
=============================================================================
