-------------------------- MODULE FMICompositeModel --------------------------
(***************************************************************************)
(* Stepping of an initialised FMI composite model (FMICompositeModel.cpp)  *)
(* with the masters "standard" and "pctpl", and with doSteps.  A job is    *)
(* what the master calls doStep of: a table, or a solver with the FMUs     *)
(* that are connected to it.  The standard master runs the jobs one after  *)
(* the other; pctpl pushes them to a pool of threads and waits for all of  *)
(* them.                                                                   *)
(***************************************************************************)
EXTENDS Lockstep

CONSTANTS
  Setups,   (* composite models: the records of Lockstep with              *)
            (*   jobs   a sequence of sets of sub-models, tables first     *)
            (*   cores  std::thread::hardware_concurrency()                *)
  MaxTime,  (* bound: no call goes beyond this time                        *)
  MaxCalls  (* bound: number of calls of the client                        *)

ASSUME BoundsAssumption == MaxTime \in Nat /\ MaxCalls \in Nat

(* Every sub-model is a table or has a solver, and time goes on.           *)
ASSUME JobsAssumption ==
  \A s \in Setups :
    /\ s.jobs \in Seq(SUBSET s.subModels)
    /\ s.subModels = UNION {s.jobs[j] : j \in DOMAIN s.jobs}
    /\ s.interval \in Nat \ {0} /\ s.cores \in Nat

(* The connections are sorted, as DirectedGraph does it: an input has one  *)
(* connection, and an output that is passed on by itself depends on no     *)
(* input that is set with it or later, nor on one that is not connected.   *)
ASSUME ConnectionsAssumption ==
  \A s \in Setups :
    /\ s.connections \in Seq(ToSet(s.connections))
    /\ \A scc \in ToSet(s.connections) : scc \in Seq(ToSet(scc))
    /\ \A n \in DOMAIN s.connections :
         Len(s.connections[n]) = 1 =>
           LET own == s.connections[n][1]
               set(m) == {c[2] : c \in ToSet(s.connections[m])}
           IN  /\ s.depends[own[1]] \subseteq InputsOf(s)
               /\ \A m \in DOMAIN s.connections :
                    /\ m > n => own[2] \notin set(m)
                    /\ m >= n => set(m) \cap s.depends[own[1]] = {}

VARIABLES
  now,      (* the member time, which is moved before the jobs run         *)
  at,       (* the time every sub-model has been stepped to                *)
  call,     (* the running call, or the last one: its master, when it      *)
            (* began, its stop time, the steps asked for and those left    *)
  calls,    (* number of calls so far                                      *)
  pc,       (* where the master is                                         *)
  next,     (* the job it deals with next                                  *)
  queue,    (* pctpl: the jobs no thread has taken                         *)
  busy,     (* pctpl: the job of every thread of the pool, 0 for none      *)
  results   (* pctpl: the jobs whose future is ready                       *)

pool == <<queue, busy, results>>
rows == <<tLastEmit, row>>
allVars == <<setup, time, inputs, tLastEmit, row,
             now, at, call, calls, pc, next, queue, busy, results>>

Jobs == DOMAIN setup.jobs
Smaller(a, b) == IF a < b THEN a ELSE b
NumThreads == Smaller(Len(setup.jobs), setup.cores)
NoCall == [master |-> "none", from |-> 0, stop |-> 0, steps |-> 0, left |-> 0]

Init ==
  /\ setup \in Setups
  /\ Initialized(0)
  /\ now = 0
  /\ at = [s \in setup.subModels |-> 0]
  /\ call = NoCall
  /\ calls = 0
  /\ pc = "idle"
  /\ next = 1
  /\ queue = << >>
  /\ busy = << >>
  /\ results = {}

-----------------------------------------------------------------------------
(* The calls of the client. *)

Enter(c) ==
  /\ pc = "idle" /\ calls < MaxCalls
  /\ call' = c
  /\ calls' = calls + 1
  /\ pc' = "loop"
  /\ busy' = IF c.master = "pctpl" THEN [w \in 1..NumThreads |-> 0] ELSE << >>
  /\ UNCHANGED <<setup, time, inputs, rows, now, at, next, queue, results>>

StepUntil(master, stopTime) ==
  Enter([master |-> master, from |-> now, stop |-> stopTime, steps |-> 0, left |-> 0])

DoSteps(n) ==
  /\ now + n * setup.interval <= MaxTime
  /\ Enter([master |-> "doSteps", from |-> now, stop |-> 0, steps |-> n, left |-> n])

MoreSteps == IF call.master = "doSteps" THEN call.left > 0 ELSE now < call.stop

(* Mutant: the last step of stepUntil is not cut off at the stop time.     *)
NextTimePastStop == now + setup.interval

(* doSteps does not know the stop time. *)
NextTime ==
  IF call.master = "doSteps"
  THEN now + setup.interval
  ELSE Smaller(now + setup.interval, call.stop)

BeginStep ==
  /\ pc = "loop" /\ MoreSteps
  /\ now' = NextTime
  /\ call' = [call EXCEPT !.left = IF call.master = "doSteps" THEN @ - 1 ELSE @]
  /\ pc' = IF call.master = "pctpl" THEN "pushing" ELSE "stepping"
  /\ next' = 1
  /\ results' = {}
  /\ UNCHANGED <<setup, time, inputs, rows, at, calls, queue, busy>>

(* The pool goes out of scope with the call. *)
EndCall ==
  /\ pc = "loop" /\ ~MoreSteps
  /\ pc' = "idle"
  /\ busy' = << >>
  /\ UNCHANGED <<setup, time, inputs, rows, now, at, call, calls, next, queue, results>>

-----------------------------------------------------------------------------
(* The jobs of a step. *)

(* Mutant: the job was given the time before it was moved.                 *)
SteppedToOldTime(job) ==
  [s \in setup.subModels |-> IF s \in setup.jobs[job] THEN time ELSE at[s]]

Stepped(job) == [s \in setup.subModels |-> IF s \in setup.jobs[job] THEN now ELSE at[s]]

(* standard and doSteps: the jobs in turn. *)
RunJob ==
  /\ pc = "stepping" /\ next \in Jobs
  /\ at' = Stepped(next)
  /\ next' = next + 1
  /\ UNCHANGED <<setup, time, inputs, rows, now, call, calls, pc, pool>>

(* pctpl: push a job and keep its future in the vector of results.         *)
Push ==
  /\ pc = "pushing" /\ next \in Jobs /\ next <= NumThreads
  /\ queue' = Append(queue, next)
  /\ next' = next + 1
  /\ UNCHANGED <<setup, time, inputs, rows, now, at, call, calls, pc, busy, results>>

(* The vector has one element per thread and not per job: with more jobs   *)
(* than threads the assignment is outside of it.                           *)
PushOutside ==
  /\ pc = "pushing" /\ next \in Jobs /\ next > NumThreads
  /\ pc' = "undefined"
  /\ UNCHANGED <<setup, time, inputs, rows, now, at, call, calls, next, pool>>

AllPushed ==
  /\ pc = "pushing" /\ next \notin Jobs
  /\ pc' = "waiting"
  /\ next' = 1
  /\ UNCHANGED <<setup, time, inputs, rows, now, at, call, calls, pool>>

TakeJob(w) ==
  /\ pc # "undefined"
  /\ busy[w] = 0 /\ queue # << >>
  /\ busy' = [busy EXCEPT ![w] = Head(queue)]
  /\ queue' = Tail(queue)
  /\ UNCHANGED <<setup, time, inputs, rows, now, at, call, calls, pc, next, results>>

FinishJob(w) ==
  /\ pc # "undefined"
  /\ busy[w] # 0
  /\ at' = Stepped(busy[w])
  /\ results' = results \cup {busy[w]}
  /\ busy' = [busy EXCEPT ![w] = 0]
  /\ UNCHANGED <<setup, time, inputs, rows, now, call, calls, pc, next, queue>>

(* pctpl: results[i].get() in the order of the jobs. *)
GetResult ==
  /\ pc = "waiting" /\ next \in Jobs
  /\ next \in results
  /\ next' = next + 1
  /\ UNCHANGED <<setup, time, inputs, rows, now, at, call, calls, pc, pool>>

(* All jobs are done: pass the outputs on and write the results.           *)
ExchangeAll ==
  /\ pc \in {"stepping", "waiting"} /\ next \notin Jobs
  /\ Exchange(now, at)
  /\ time' = now
  /\ pc' = "loop"
  /\ UNCHANGED <<setup, now, at, call, calls, next, pool>>

Over ==
  /\ (pc = "idle" /\ calls = MaxCalls) \/ pc = "undefined"
  /\ UNCHANGED allVars

Master == BeginStep \/ EndCall \/ RunJob \/ Push \/ PushOutside \/ AllPushed \/ GetResult \/ ExchangeAll
Thread(w) == TakeJob(w) \/ FinishJob(w)
Client ==
  \/ \E m \in {"standard", "pctpl"}, t \in 0..MaxTime : StepUntil(m, t)
  \/ \E n \in 1..2 : DoSteps(n)

Next == Client \/ Master \/ (\E w \in DOMAIN busy : Thread(w)) \/ Over

Spec == Init /\ [][Next]_allVars

MaxThreads == Max({Len(x.jobs) : x \in Setups})
FairSpec ==
  /\ Spec
  /\ WF_allVars(Master)
  /\ \A w \in 1..MaxThreads : WF_allVars(w \in DOMAIN busy /\ Thread(w))

-----------------------------------------------------------------------------
(* Between two steps every input has the value its output has now, also    *)
(* along a chain of outputs that depend on inputs.                         *)
InputsFollowOutputs ==
  pc \in {"idle", "loop"} =>
    \A scc \in ToSet(setup.connections) :
      Len(scc) = 1 => inputs[scc[1][2]] = OutputAge(scc[1][1], inputs, at)

(* stepUntil is back at the time it was given, or where it began if that   *)
(* was passed already; doSteps has taken the steps it was asked for.       *)
ReturnedInTime ==
  CASE call.master \in {"standard", "pctpl"} -> now = Max({call.from, call.stop})
    [] call.master = "doSteps" -> now = call.from + call.steps * setup.interval
    [] OTHER -> TRUE

(* The inductive invariant of the refinement.                              *)

TypeOK ==
  /\ setup \in Setups
  /\ time \in Int /\ now \in Int
  /\ at \in [setup.subModels -> Int]
  /\ call \in [master : {"none", "standard", "pctpl", "doSteps"},
               from : Int, stop : Int, steps : Int, left : Int]
  /\ calls \in Nat
  /\ pc \in {"idle", "loop", "stepping", "pushing", "waiting", "undefined"}
  /\ next \in Nat \ {0}
  /\ queue \in Seq(Jobs)
  /\ busy \in [DOMAIN busy -> Jobs \cup {0}]
  /\ results \subseteq Jobs

(* The member time is ahead by one step while the jobs run. *)
TimeInv ==
  IF pc \in {"idle", "loop"} THEN now = time ELSE time < now /\ now <= time + setup.interval

(* A job is queued, run by one thread, or done; outside of a step of pctpl *)
(* no thread has anything to do.                                           *)
PoolInv ==
  /\ pc \in {"idle", "loop", "stepping"} =>
       queue = << >> /\ \A w \in DOMAIN busy : busy[w] = 0
  /\ \A i \in DOMAIN queue :
       /\ queue[i] \notin results
       /\ \A j \in DOMAIN queue : queue[j] = queue[i] => j = i
       /\ \A w \in DOMAIN busy : busy[w] # queue[i]
       /\ pc = "pushing" => queue[i] < next
  /\ \A w \in DOMAIN busy : busy[w] # 0 =>
       /\ busy[w] \notin results
       /\ \A v \in DOMAIN busy : busy[v] = busy[w] => v = w
       /\ pc = "pushing" => busy[w] < next
  /\ pc = "pushing" => \A j \in results : j < next
  /\ pc = "waiting" => \A j \in 1..(next - 1) : j \in results

(* The sub-models of the jobs that are done are at the member time. *)
Done == IF pc = "stepping" THEN 1..(next - 1) ELSE results
ReachedInv ==
  IF pc \in {"idle", "loop"} THEN at = AllAt(now)
  ELSE \A j \in Done \cap Jobs : \A s \in setup.jobs[j] : at[s] = now

IInv == TypeOK /\ TimeInv /\ PoolInv /\ ReachedInv /\ InputsFollowOutputs

(* Time goes on from where the call began, as far as it was asked to.      *)
CallInv ==
  /\ call.master \in {"standard", "pctpl"} =>
       /\ call.from <= now /\ (now <= call.from \/ now <= call.stop)
       /\ pc = "idle" => now >= call.stop
  /\ call.master = "doSteps" =>
       /\ call.left >= 0
       /\ now + call.left * setup.interval = call.from + call.steps * setup.interval
       /\ pc = "idle" => call.left = 0
  /\ call.master = "none" => pc = "idle"

(* Both masters implement the sequence of communication steps.             *)
ImplementsLockstep == LockstepSpec

(* Every call returns, unless the vector of results is too short, and it   *)
(* does so at the time it was asked for.                                   *)
CallsReturn ==
  [](IF pc = "idle" THEN ReturnedInTime ELSE <>(pc \in {"idle", "undefined"}))
=============================================================================
