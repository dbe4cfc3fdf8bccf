-------------------------------- MODULE Solver --------------------------------
(***************************************************************************)
(* One solver of an FMI composite model (Solver.cpp) and the FMUs that are *)
(* connected to it, from the initialisation of the model through its       *)
(* communication steps to a reset.  With the method "internal" the FMUs    *)
(* integrate themselves; "euler" and "cvode" drive them by model exchange: *)
(* the solver looks for events, chooses the next time, integrates.         *)
(*                                                                         *)
(* The FMUs are external.  An FMU is what FMI 2.0 says of one: the mode it *)
(* is in, the time it was last told, the continuous states it holds and    *)
(* the times of its time events.  A vector of states is told apart by the  *)
(* FMU it was read from and by the time it has been integrated to.         *)
(***************************************************************************)
EXTENDS Integers, SequencesExt, FiniteSetsExt

CONSTANTS
  Setups,    (* records of                                                 *)
             (*   method    "internal", "euler" or "cvode"                 *)
             (*   fmus      the member fmus, in the order of connectSolver *)
             (*   order     the same FMUs in the order of the sub-models   *)
             (*   stateful  those with continuous states                   *)
             (*   events    the times of the time events of every FMU      *)
             (*   interval  the communication interval                     *)
  EndTime,   (* bound: no communication step goes beyond this time         *)
  MaxResets  (* bound: number of resets                                    *)

ASSUME BoundsAssumption == EndTime \in Nat /\ MaxResets \in Nat

(* The FMUs of the solver are sub-models of one name each; no event lies   *)
(* before the start, and a communication interval is positive.             *)
ASSUME SetupsAssumption ==
  \A s \in Setups :
    /\ s.fmus \in Seq(ToSet(s.fmus)) /\ s.order \in Seq(ToSet(s.fmus))
    /\ DOMAIN s.order = DOMAIN s.fmus
    /\ \A f \in ToSet(s.fmus) : \E n \in DOMAIN s.order : s.order[n] = f
    /\ \A m, n \in DOMAIN s.order : s.fmus[m] = s.fmus[n] \/ s.order[m] = s.order[n] => m = n
    /\ s.method \in {"internal", "euler", "cvode"}
    /\ s.stateful \subseteq ToSet(s.fmus)
    /\ s.events \in [ToSet(s.fmus) -> SUBSET Nat]
    /\ s.interval \in Nat \ {0}

VARIABLES
  setup,
  phase,    (* "entering", "exiting" the initialisation mode of the FMUs,  *)
            (* "ready" between two calls, "looping" and "integrating" in   *)
            (* doStep, before and after the events of a pass               *)
  slots,    (* eventInfo: the next event time, by position                 *)
  states,   (* the states (and, for cvode, its vector y), by position      *)
  time,     (* the member time                                             *)
  stop,     (* the argument of doStep, Start outside of it                 *)
  hdef,     (* its local hdef, Start outside of it                         *)
  tnext,    (* the local tnext of a pass, Start outside of one             *)
  cvode,    (* the time to which SUNDIALS has integrated its vector y      *)
  mode,     (* the FMI mode of every FMU                                   *)
  local,    (* the time every FMU was last told                            *)
  advanced, (* the states every FMU holds                                  *)
  handled,  (* the time events of every FMU it has iterated at their time  *)
  illegal,  (* the calls made in a mode that does not allow them           *)
  resets

fmuVars == <<mode, local, advanced, handled, illegal>>
vectors == <<slots, states>>
vars == <<setup, phase, slots, states, time, stop, hdef, tnext, cvode,
          mode, local, advanced, handled, illegal, resets>>

Fmus == ToSet(setup.fmus)
Positions == DOMAIN setup.fmus
ModelExchange == setup.method # "internal"

(* The next event time is not defined. *)
None == EndTime + setup.interval + 1
Start == 0

Init ==
  /\ setup \in Setups
  /\ phase = "entering"
  /\ slots = << >> /\ states = << >>
  /\ time = Start /\ stop = Start /\ hdef = Start /\ tnext = Start /\ cvode = Start
  /\ mode = [f \in Fmus |-> "instantiated"]
  /\ local = [f \in Fmus |-> Start]
  /\ advanced = [f \in Fmus |-> <<f, Start>>]
  /\ handled = [f \in Fmus |-> {}]
  /\ illegal = {}
  /\ resets = 0

-----------------------------------------------------------------------------
(* The FMU. *)

(* Mutant: the event just handled is announced again.                      *)
NextEventAgain(f, t) == Min({e \in setup.events[f] : e >= t} \cup {None})

(* The next event fmi2NewDiscreteStates announces, the iteration over.     *)
NextEvent(f, t) == Min({e \in setup.events[f] : e > t} \cup {None})

(* The time event at that time, if there is one.                           *)
Due(f, t) == setup.events[f] \cap {t}

-----------------------------------------------------------------------------
(* Initialisation. *)

(* FMUWrapper::enterInitialization for every sub-model. *)
EnterInitialization ==
  /\ phase = "entering"
  /\ \A f \in Fmus : mode[f] = "instantiated"
  /\ mode' = [f \in Fmus |-> "initialization"]
  /\ local' = [f \in Fmus |-> time]
  /\ phase' = "exiting"
  /\ UNCHANGED <<setup, vectors, time, stop, hdef, tnext, cvode,
                 advanced, handled, illegal, resets>>

(* The first FMU, in the order of the sub-models, still to be initialised. *)
Initializing(f) ==
  \E n \in DOMAIN setup.order :
    /\ f = setup.order[n] /\ mode[f] = "initialization"
    /\ \A m \in 1..(n - 1) : mode[setup.order[m]] # "initialization"

(* Mutant: the events are iterated before the initialisation mode is left. *)
LeftAfterwards(f) == mode

(* fmi2ExitInitializationMode leaves f in event mode. *)
Left(f) == [mode EXCEPT ![f] = "event"]

(* FMUWrapper::exitInitialization and, in it, initializeFMU.  The data of  *)
(* the FMU go to the end of the vectors, its states too; the event         *)
(* iteration is done for that position, that is, for the FMU that has it   *)
(* in fmus.                                                                *)
ExitInitialization(f) ==
  LET position == Len(slots) + 1
      iterated == {g \in Fmus : position \in Positions /\ setup.fmus[position] = g}
      legal == {g \in iterated : Left(f)[g] = "event"}
  IN
  /\ phase = "exiting" /\ ModelExchange
  /\ Initializing(f)
  /\ slots' = Append(slots, Min({None} \cup {NextEvent(g, local[g]) : g \in legal}))
  /\ handled' = [g \in Fmus |-> handled[g] \cup IF g \in legal THEN Due(g, local[g]) ELSE {}]
  /\ illegal' = illegal \cup {<<g, Left(f)[g]>> : g \in iterated \ legal}
  /\ states' = Append(states, advanced[f])
  /\ mode' = [mode EXCEPT ![f] = "continuous"]
  /\ UNCHANGED <<setup, phase, time, stop, hdef, tnext, cvode, local, advanced, resets>>

(* An FMU with a solver of its own has no states at its position.          *)
ExitInitializationCS(f) ==
  /\ phase = "exiting" /\ ~ModelExchange
  /\ Initializing(f)
  /\ slots' = Append(slots, None)
  /\ mode' = [mode EXCEPT ![f] = "step"]
  /\ UNCHANGED <<setup, phase, states, time, stop, hdef, tnext, cvode,
                 local, advanced, handled, illegal, resets>>

(* initializeSolver, after the last FMU. *)
InitializeSolver ==
  /\ phase = "exiting"
  /\ \A f \in Fmus : mode[f] # "initialization"
  /\ time' = Start
  /\ cvode' = Start
  /\ phase' = "ready"
  /\ UNCHANGED <<setup, vectors, stop, hdef, tnext, fmuVars, resets>>

-----------------------------------------------------------------------------
(* doStep. *)

(* The master asks for a whole communication interval, or for what is left *)
(* of it before the stop time of the simulation.                           *)
DoStep ==
  \E h \in 1..setup.interval :
    /\ phase = "ready"
    /\ time + h <= EndTime
    /\ stop' = time + h
    /\ hdef' = h
    /\ phase' = "looping"
    /\ UNCHANGED <<setup, vectors, time, tnext, cvode, fmuVars, resets>>

(* internal: every FMU steps itself to the stop time. *)
StepInternally ==
  /\ phase = "looping" /\ ~ModelExchange /\ time < stop
  /\ local' = [f \in Fmus |-> stop]
  /\ advanced' = [f \in Fmus |-> <<f, stop>>]
  /\ time' = stop
  /\ UNCHANGED <<setup, phase, vectors, stop, hdef, tnext, cvode, mode, handled, illegal, resets>>

(* The positions with an event at the current time: an event indicator has *)
(* changed its sign or the FMU has asked for it, or it is a time event.    *)
EventAt(n, asked) == setup.fmus[n] \in asked \/ slots[n] = time

SlotsAfter(asked) ==
  [n \in Positions |->
     IF EventAt(n, asked) THEN NextEvent(setup.fmus[n], time) ELSE slots[n]]

(* nStates[n] > 0: the FMU that was initialised at n has states.  The FMU  *)
(* that has the position in fmus lets them be read and set if it has any.  *)
HasStates(n) == states[n][1] \in setup.stateful
Exchanged(n) == HasStates(n) /\ setup.fmus[n] \in setup.stateful

(* The states are read again after an event, which may have changed them.  *)
StatesAfter(asked) ==
  [n \in Positions |->
     IF EventAt(n, asked) /\ Exchanged(n) THEN advanced[setup.fmus[n]] ELSE states[n]]

(* Mutant: the next event of the last position only.                       *)
NextTimeLast(after) == Min({time + hdef, after[Len(setup.fmus)]})

(* The next time: a whole step, or the first event before its end.         *)
NextTime(after) == Min({time + hdef} \cup {after[n] : n \in Positions})

(* The first part of a pass: tell the time, handle the events.  At one the *)
(* integrator of SUNDIALS is reinitialised at the time, not shortened is   *)
(* the step it is asked for: tnext may be beyond the stop time.            *)
HandleEvents(asked) ==
  /\ phase = "looping" /\ ModelExchange /\ time < stop
  /\ local' = [f \in Fmus |-> time]
  /\ slots' = SlotsAfter(asked)
  /\ states' = StatesAfter(asked)
  /\ handled' = [f \in Fmus |->
                   IF \E n \in Positions : setup.fmus[n] = f /\ EventAt(n, asked)
                   THEN handled[f] \cup Due(f, time) ELSE handled[f]]
  /\ illegal' = illegal \cup {<<f, mode[f]>> : f \in {g \in Fmus : mode[g] # "continuous"}}
  /\ cvode' = IF setup.method = "cvode" /\ \E n \in Positions : EventAt(n, asked)
              THEN time ELSE cvode
  /\ tnext' = NextTime(SlotsAfter(asked))
  /\ phase' = "integrating"
  /\ UNCHANGED <<setup, time, stop, hdef, mode, advanced, resets>>

(* The second part: the states of every position, and the FMUs they are    *)
(* set into.                                                               *)
Longer(h) ==
  [n \in Positions |-> IF HasStates(n) THEN <<states[n][1], states[n][2] + h>> ELSE states[n]]
SetInto(after) ==
  [f \in Fmus |->
     IF \E n \in Positions : setup.fmus[n] = f /\ Exchanged(n)
     THEN after[CHOOSE n \in Positions : setup.fmus[n] = f] ELSE advanced[f]]

Integrate(h) ==
  /\ phase = "integrating"
  /\ states' = Longer(h)
  /\ advanced' = SetInto(Longer(h))
  /\ tnext' = Start
  /\ phase' = "looping"
  /\ UNCHANGED <<setup, slots, stop, hdef, mode, local, handled, illegal, resets>>

(* Mutant: the final step is not shortened.                                *)
EulerWholeStep ==
  /\ setup.method = "euler"
  /\ Integrate(tnext - time)
  /\ time' = tnext
  /\ UNCHANGED cvode

(* euler: the final step is shortened to end at the stop time. *)
Euler ==
  /\ setup.method = "euler"
  /\ Integrate(Min({tnext, stop}) - time)
  /\ time' = Min({tnext, stop})
  /\ UNCHANGED cvode

(* cvode: the time is what the integrator has reached, the time it was     *)
(* asked for or, when it fails on the way, one before it; the failure is   *)
(* only logged.  It interpolates a time it has passed within its last      *)
(* internal step.                                                          *)
Cvode ==
  \E t \in {tnext} \cup cvode..tnext :
    /\ setup.method = "cvode"
    /\ Integrate(t - cvode)
    /\ time' = t
    /\ cvode' = t

(* Asked for a time before its last internal step, the integrator sets the *)
(* time it returns and fails: the states stay.                             *)
CvodeRefuses ==
  /\ setup.method = "cvode" /\ tnext < cvode
  /\ Integrate(0)
  /\ time' = tnext
  /\ UNCHANGED cvode

EndDoStep ==
  /\ phase = "looping" /\ time >= stop
  /\ time' = stop
  /\ stop' = Start /\ hdef' = Start
  /\ phase' = "ready"
  /\ UNCHANGED <<setup, vectors, tnext, cvode, fmuVars, resets>>

(* freeSolver: without model exchange the vectors are left as they are.    *)
Freed(vector) == IF ModelExchange THEN << >> ELSE vector

(* FMICompositeModel::reset, and setTime of the next initialize.           *)
Reset ==
  /\ phase = "ready" /\ resets < MaxResets
  /\ slots' = Freed(slots)
  /\ states' = Freed(states)
  /\ mode' = [f \in Fmus |-> "instantiated"]
  /\ local' = [f \in Fmus |-> Start]
  /\ advanced' = [f \in Fmus |-> <<f, Start>>]
  /\ handled' = [f \in Fmus |-> {}]
  /\ time' = Start /\ cvode' = Start
  /\ phase' = "entering"
  /\ resets' = resets + 1
  /\ UNCHANGED <<setup, stop, hdef, tnext, illegal>>

(* The client may make no further call. *)
Rest == phase = "ready" /\ UNCHANGED vars

Loop ==
  \/ StepInternally \/ EndDoStep
  \/ \E asked \in SUBSET Fmus : HandleEvents(asked)
  \/ Euler \/ Cvode \/ CvodeRefuses

Next ==
  \/ EnterInitialization
  \/ \E f \in Fmus : ExitInitialization(f) \/ ExitInitializationCS(f)
  \/ InitializeSolver
  \/ DoStep \/ Loop
  \/ Reset \/ Rest

Spec == Init /\ [][Next]_vars

(* doStep is a loop that nobody interrupts. *)
FairSpec == Spec /\ WF_vars(Loop)

-----------------------------------------------------------------------------
(* The FMUs were connected to the solver in the order of the names of the  *)
(* sub-models: the position an FMU is initialised at is then its own.      *)
SameOrder == setup.order = setup.fmus

(* Events are only iterated in event mode: "fmi2_import_exit_              *)
(* initialization_mode leaves FMU in event mode".  Not so with two orders. *)
EventsInEventMode == SameOrder => illegal = {}

(* No time event of any FMU is passed over, however many lie in one        *)
(* communication step and whichever FMU they belong to.                    *)
NoEventMissed ==
  SameOrder /\ phase = "ready" /\ ModelExchange =>
    \A f \in Fmus : \A e \in setup.events[f] : e < time => e \in handled[f]

(* After doStep every FMU holds its own states, integrated to the          *)
(* communication time in spite of the events on the way: never short of    *)
(* it, and by euler and the FMU's own solver exactly.                      *)
Reaches(f) ==
  /\ advanced[f][1] = f
  /\ IF setup.method = "cvode" THEN advanced[f][2] >= time ELSE advanced[f][2] = time
StatesReachStop == SameOrder /\ phase = "ready" => \A f \in setup.stateful : Reaches(f)

(* The inductive invariant of the three.                                   *)

TypeOK ==
  /\ setup \in Setups
  /\ phase \in {"entering", "exiting", "ready", "looping", "integrating"}
  /\ slots \in Seq(Nat) /\ states \in Seq(Fmus \X Int)
  /\ time \in Nat /\ stop \in Nat /\ hdef \in Nat /\ tnext \in Nat /\ cvode \in Nat
  /\ mode \in [Fmus -> {"instantiated", "initialization", "event", "continuous", "step"}]
  /\ local \in [Fmus -> Nat]
  /\ advanced \in [Fmus -> Fmus \X Int]
  /\ handled \in [Fmus -> SUBSET Nat]
  /\ illegal \in SUBSET (Fmus \X {"instantiated", "initialization", "event", "continuous", "step"})
  /\ resets \in Nat

(* As many positions are in use as FMUs have left the initialisation mode, *)
(* which they do in the order of the sub-models.                           *)
PositionsInv ==
  /\ phase = "entering" => time = Start /\ (ModelExchange => slots = << >>)
  /\ phase = "exiting" => time = Start /\ \A f \in Fmus : local[f] = Start
  /\ ModelExchange => Len(states) = Len(slots)
  /\ phase = "exiting" /\ ModelExchange =>
       /\ Len(slots) <= Len(setup.order)
       /\ \A n \in DOMAIN setup.order :
            mode[setup.order[n]] = IF n <= Len(slots) THEN "continuous" ELSE "initialization"
  /\ phase \in {"ready", "looping", "integrating"} /\ ModelExchange =>
       /\ Len(slots) = Len(setup.order)
       /\ \A f \in Fmus : mode[f] = "continuous"

(* The loop never goes beyond the end, and cvode alone beyond the stop     *)
(* time of the step.                                                       *)
StopInv ==
  /\ phase \in {"looping", "integrating"} =>
       /\ stop <= EndTime
       /\ setup.method # "cvode" => time <= stop
  /\ phase = "integrating" => ModelExchange /\ time < stop

(* The solver and the FMUs hold the same states, which are where the time  *)
(* and the integrator are.                                                 *)
At(f) ==
  IF phase \in {"entering", "exiting"} THEN advanced[f][2] = Start
  ELSE IF setup.method = "cvode" THEN advanced[f][2] >= time /\ advanced[f][2] >= cvode
  ELSE advanced[f][2] = time
StatesInv ==
  /\ \A f \in Fmus : advanced[f][1] = f
  /\ \A f \in setup.stateful : At(f)
  /\ ModelExchange => \A n \in DOMAIN states :
       /\ states[n][1] = setup.fmus[n]
       /\ setup.fmus[n] \in setup.stateful => states[n] = advanced[setup.fmus[n]]

(* What an FMU has still to handle does not lie before its slot, nor its   *)
(* slot before the time.                                                   *)
SlotsInv ==
  /\ ModelExchange /\ phase # "entering" =>
       \A n \in DOMAIN slots :
         /\ time <= slots[n]
         /\ \A e \in setup.events[setup.fmus[n]] : e \in handled[setup.fmus[n]] \/ e >= slots[n]
  /\ phase = "integrating" => \A n \in DOMAIN slots : tnext <= slots[n]

IInv ==
  /\ TypeOK /\ PositionsInv /\ StopInv
  /\ SameOrder => illegal = {} /\ SlotsInv /\ StatesInv

(* doStep returns: the events do not keep the loop from the stop time, nor *)
(* does the integrator, unless it fails for ever at the same time.         *)
Stands == setup.method = "cvode" /\ phase = "integrating" /\ phase' = "looping" /\ time' = time
DoStepReturns ==
  []<><<Stands>>_vars \/ [](phase = "looping" => <>(phase = "ready"))
=============================================================================
