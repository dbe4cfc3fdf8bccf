--------------------------- MODULE SystemWCProofs ---------------------------
(***************************************************************************)
(* Proofs about SystemWC for every set of components, every step size and  *)
(* stop time, any number of asynchronous runs and of calls of the client.  *)
(***************************************************************************)
EXTENDS SystemWC, FiniteSetsExt, SequenceTheorems, WellFoundedInduction, TLAPS

-----------------------------------------------------------------------------
(* Natural numbers. *)

(* Every set of natural numbers with an element has a least one. *)
LEMMA LeastNatural ==
  ASSUME NEW T, T \subseteq Nat, T # {}
  PROVE  \E x \in T : \A y \in T : x <= y
<1> DEFINE R == OpToRel(<, Nat)
<1>1. IsWellFoundedOn(R, Nat)
  BY NatLessThanWellFounded
<1>2. \A x, y \in Nat : x < y => <<x, y>> \in R
  BY DEF OpToRel
<1> HIDE DEF R
<1>3. PICK x \in T : \A y \in T : <<y, x>> \notin R
  BY <1>1, WFMin
<1>4. ASSUME NEW y \in T PROVE x <= y
  <2>1. x \in Nat /\ y \in Nat /\ ~ (y < x)
    BY <1>2, <1>3
  <2> QED
    BY <2>1
<1> QED
  BY <1>4

(* Min of a set of natural numbers is its least element. *)
LEMMA MinOfNaturals ==
  ASSUME NEW T, T \subseteq Nat, T # {}
  PROVE  /\ Min(T) \in T
         /\ \A y \in T : Min(T) <= y
BY LeastNatural DEF Min

-----------------------------------------------------------------------------
Modes == {"freed", "initialization", "simulation", "error"}

(* The components are a sequence. *)
LEMMA ComponentsAreASequence ==
  ASSUME TypeOK
  PROVE  /\ Len(setup.components) \in Nat
         /\ DOMAIN setup.components = 1..Len(setup.components)
         /\ \A m \in 1..Len(setup.components) : setup.components[m] \in Components
         /\ \A c \in Components : \E m \in 1..Len(setup.components) : setup.components[m] = c
         /\ setup.stepSize \in Nat \ {0} /\ setup.stopTime \in Int
<1>1. /\ setup.components \in Seq({setup.components[m] : m \in DOMAIN setup.components})
      /\ setup.stepSize \in Nat \ {0} /\ setup.stopTime \in Int
  BY SetupsAssumption DEF TypeOK
<1>2. /\ Len(setup.components) \in Nat
      /\ DOMAIN setup.components = 1..Len(setup.components)
  BY <1>1, LenProperties
<1> QED
  BY <1>1, <1>2 DEF Components, ToSet

(* First is the first position of a set, or the one after the last.        *)
LEMMA FirstPosition ==
  ASSUME TypeOK, NEW P, P \subseteq DOMAIN setup.components
  PROVE  /\ First(P) \in 1..(Len(setup.components) + 1)
         /\ First(P) > Len(setup.components) <=> P = {}
         /\ First(P) <= Len(setup.components) => First(P) \in P
<1> DEFINE Q == P \cup {Len(setup.components) + 1}
<1>1. Q \subseteq Nat /\ Q # {} /\ Q \subseteq 1..(Len(setup.components) + 1)
  BY ComponentsAreASequence
<1>2. Min(Q) \in Q /\ \A y \in Q : Min(Q) <= y
  BY <1>1, MinOfNaturals
<1>3. First(P) = Min(Q)
  BY DEF First
<1> HIDE DEF Q
<1>4. \A y \in P : y \in Q /\ y \in 1..Len(setup.components)
  BY ComponentsAreASequence DEF Q
<1>5. First(P) \in P \/ First(P) = Len(setup.components) + 1
  BY <1>2, <1>3 DEF Q
<1> QED
  BY <1>1, <1>2, <1>3, <1>4, <1>5, ComponentsAreASequence

(* What the loops over the components leave them in is a mode.             *)
LEMMA ModesOfLoops ==
  ASSUME TypeOK, NEW who
  PROVE  /\ InstantiateAll(who) \in [Components -> Modes]
         /\ InitializeAll(who) \in [Components -> Modes]
         /\ \A m \in [Components -> Modes] : TerminateAll(m) \in [Components -> Modes]
BY DEF TypeOK, InstantiateAll, InitializeAll, TerminateAll, Modes

(* An initialisation that comes to its end has initialised every component. *)
LEMMA InitializedIsAll ==
  ASSUME TypeOK, NEW who, Initialized(who)
  PROVE  \A c \in Components : InitializeAll(who)[c] = "simulation"
<1> DEFINE P == {m \in DOMAIN setup.components :
                   mode[setup.components[m]] # "initialization" \/ setup.components[m] = who}
<1>1. Refusing(who) = First(P)
  BY DEF Refusing
<1>2. Refusing(who) = Len(setup.components) + 1
  BY <1>1, FirstPosition, ComponentsAreASequence DEF Initialized
<1>3. \A c \in Components : c \in Before(Refusing(who))
  BY <1>2, ComponentsAreASequence DEF Before
<1> QED
  BY <1>3 DEF InitializeAll

(* Components that can be stepped can be terminated, and none of them is   *)
(* called when it is freed.                                                *)
LEMMA SimulatedIsTerminated ==
  ASSUME TypeOK, NEW m, \A c \in Components : m[c] = "simulation"
  PROVE  Terminated(m) /\ ~CallsFreed(m)
<1> DEFINE P == {n \in DOMAIN setup.components : m[setup.components[n]] # "simulation"}
<1>1. P = {}
  BY ComponentsAreASequence
<1>2. First(P) > Len(setup.components)
  BY <1>1, FirstPosition
<1>3. Unterminated(m) = First(P)
  BY DEF Unterminated
<1> QED
  BY <1>2, <1>3 DEF Terminated, CallsFreed

(* The empty sequence has no neighbours, and a sequence of one element none *)
(* either.                                                                 *)
LEMMA NoNeighbours == 1..(Len(<< >>) - 1) = {} /\ \A x : 1..(Len(<<x>>) - 1) = {}
OBVIOUS

-----------------------------------------------------------------------------
(* The invariant holds when the model is new.                              *)
LEMMA InitInv == Init => IInv
<1> SUFFICES ASSUME Init PROVE IInv
  OBVIOUS
<1> USE DEF Init
<1>1. TypeOK
  <2>1. << >> \in Seq(Rows) /\ << >> \in Seq(Int \X {"ok", "discard"})
    BY EmptySeq
  <2>2. /\ modelState \in States
        /\ resultFilename \in Names /\ resultFile \in Names \cup {"NULL"}
        /\ cancelSim \in BOOLEAN /\ refused \in BOOLEAN
    BY DEF States, Names
  <2>3. /\ time \in Int /\ at \in Int /\ late \in Int /\ late >= NotAsked /\ calls \in Nat
        /\ tNext \in [Runs -> Int]
    BY DEF Start, NotAsked
  <2>4. /\ mode \in [Components -> Modes]
        /\ pc \in [Runs -> Places]
        /\ fault \in {"none", "fmu", "writer", "callback"}
        /\ misuse \subseteq {"overlap", "no file", "cancelled"}
    BY DEF Modes, Places
  <2>5. /\ reports \in [Runs -> Seq(Int \X {"ok", "discard"})]
        /\ rows \in Seq(Rows) /\ unread \subseteq Rows /\ since \in Rows
    BY <2>1 DEF Start, Rows
  <2> QED
    BY <2>2, <2>3, <2>4, <2>5 DEF TypeOK, Modes
<1>2. LifeCycleInv
  BY DEF LifeCycleInv
<1>3. OneRun /\ ProgressInv /\ RowsReachTime
  BY DEF OneRun, ProgressInv, Progress, RowsReachTime, UnderWay, NotAsked
<1>4. ReportsFit /\ CancelIsPrompt /\ NoFault
  BY DEF ReportsFit, ReportFits, CancelIsPrompt, NoFault, NotAsked
<1>5. RowsFit
  <2>1. DOMAIN rows = {} /\ ToSet(rows) = {}
    BY DEF ToSet
  <2> QED
    BY <2>1 DEF RowsFit
<1> QED
  BY <1>1, <1>2, <1>3, <1>4, <1>5 DEF IInv

-----------------------------------------------------------------------------
(* The calls of the client, whatever it has done before.                   *)

(* What every call does.                                                   *)
Wrongs == {"overlap", "no file", "cancelled"}
LEMMA CallFacts ==
  ASSUME TypeOK, NEW wrong \in SUBSET Wrongs, ClientCall(wrong)
  PROVE  /\ setup' \in Setups /\ Components' = Components
         /\ misuse' \subseteq Wrongs /\ calls' \in Nat
         /\ fault = "none" /\ Clean
         /\ Clean' => wrong = {}
<1>1. /\ setup' = setup /\ misuse' = misuse \cup wrong /\ calls' = calls + 1
      /\ misuse = {} /\ fault = "none"
  BY DEF ClientCall
<1>2. setup \in Setups /\ calls \in Nat
  BY DEF TypeOK
<1> QED
  BY <1>1, <1>2 DEF Components, Clean

LEMMA OverlapFacts ==
  /\ Overlap \in SUBSET Wrongs
  /\ Overlap = {} => \A w \in Runs : ~UnderWay(w)
<1>1. CASE \E w \in Runs : UnderWay(w)
  BY <1>1 DEF Overlap, Wrongs
<1>2. CASE ~\E w \in Runs : UnderWay(w)
  BY <1>2 DEF Overlap
<1> QED
  BY <1>1, <1>2

(* A call that is not meant for a run under way is clean only when there   *)
(* is none.                                                                *)
LEMMA OverlapCall ==
  ASSUME TypeOK, ClientCall(Overlap)
  PROVE  /\ setup' = setup /\ setup' \in Setups /\ Components' = Components
         /\ misuse' \subseteq Wrongs /\ calls' \in Nat
         /\ fault = "none" /\ Clean
         /\ Clean' => \A w \in Runs : ~UnderWay(w)
BY CallFacts, OverlapFacts DEF ClientCall

(* Such a call leaves the runs alone. *)
Bystander ==
  /\ UNCHANGED <<pc, tNext, reports, setup>>
  /\ fault = "none" /\ Clean
  /\ Clean' => \A w \in Runs : ~UnderWay(w)

(* A refusal is remembered. *)
LEMMA RefusalIsBoolean ==
  ASSUME TypeOK, NEW who
  PROVE  /\ (refused \/ who # None) \in BOOLEAN
         /\ (refused \/ ~Initialized(who)) \in BOOLEAN
OBVIOUS

(* A new file and a row that is asked for keep the types of the content.   *)
ContentType == rows' \in Seq(Rows) /\ unread' \subseteq Rows /\ since' \in Rows

LEMMA NewFileType ==
  ASSUME NEW row \in Rows, NewFile(row)
  PROVE  ContentType
<1>1. << >> \in Seq(Rows)
  BY EmptySeq
<1> QED
  BY <1>1 DEF NewFile, ContentType

LEMMA SameContentType ==
  ASSUME TypeOK, UNCHANGED content
  PROVE  ContentType
BY DEF TypeOK, content, ContentType

LEMMA EmitToType ==
  ASSUME TypeOK, NEW written \in Seq(Rows), NEW lost \in SUBSET Rows, NEW row \in Rows,
         EmitTo(written, lost, row)
  PROVE  rows' \in Seq(Rows) /\ unread' \subseteq Rows
<1>1. Append(written, row) \in Seq(Rows)
  BY AppendProperties
<1> QED
  BY <1>1 DEF EmitTo, TypeOK

(* The rows of the start and of the time. *)
LEMMA RowType ==
  /\ <<Start, "before">> \in Rows /\ <<Start, "after">> \in Rows
  /\ TypeOK => <<time, "after">> \in Rows
<1>1. \A t \in Int : <<t, "before">> \in Rows /\ <<t, "after">> \in Rows
  BY DEF Rows
<1>2. Start \in Int
  BY DEF Start
<1>3. ASSUME TypeOK PROVE <<time, "after">> \in Rows
  <2>1. time \in Int
    BY <1>3 DEF TypeOK
  <2> QED
    BY <1>1, <2>1
<1> QED
  BY <1>1, <1>2, <1>3

(* Every call keeps the types and the life cycle.                          *)
LEMMA InstantiateLife ==
  ASSUME TypeOK, LifeCycleInv, NEW who, Instantiate(who)
  PROVE  TypeOK' /\ LifeCycleInv' /\ Bystander
<1>1. /\ ClientCall(Overlap)
      /\ mode' = InstantiateAll(who)
      /\ at' = Start
      /\ modelState' = IF who = None THEN "instantiated" ELSE "initialization"
      /\ refused' = (refused \/ who # None)
      /\ UNCHANGED <<resultFilename, resultFile, content, cancelSim, time, pc, tNext, reports, fault,
                     late>>
  BY DEF Instantiate, file, run
<1>2. TypeOK'
  <2>1. mode' \in [Components' -> Modes]
    BY <1>1, OverlapCall, ModesOfLoops
  <2>2. modelState' \in States /\ at' \in Int /\ refused' \in BOOLEAN
    BY <1>1, RefusalIsBoolean DEF States, Start
  <2> QED
    BY <1>1, <2>1, <2>2, OverlapCall, SameContentType DEF TypeOK, Modes, Wrongs, ContentType
<1>3. LifeCycleInv'
  BY <1>1 DEF LifeCycleInv
<1>4. Bystander
  BY <1>1, OverlapCall DEF Bystander
<1> QED
  BY <1>2, <1>3, <1>4

LEMMA InitializeUnsupportedLife ==
  ASSUME TypeOK, LifeCycleInv, InitializeUnsupported
  PROVE  TypeOK' /\ LifeCycleInv' /\ Bystander
<1>1. /\ ClientCall(Overlap)
      /\ modelState' = "initialization"
      /\ UNCHANGED <<resultFilename, resultFile, content, time, mode, at, pc, tNext, reports, fault>>
  BY DEF InitializeUnsupported, file, fmus, run
<1>0. /\ cancelSim' = FALSE /\ late' = NotAsked
      /\ refused' = TRUE
  BY DEF InitializeUnsupported
<1>2. TypeOK'
  <2>1. cancelSim' \in BOOLEAN /\ refused' \in BOOLEAN
    BY <1>0
  <2>5. late' \in Int /\ late' >= NotAsked
    BY <1>0 DEF NotAsked
  <2> QED
    BY <1>1, <2>1, <2>5, OverlapCall, SameContentType DEF TypeOK, Wrongs, States, ContentType
<1>3. LifeCycleInv'
  BY <1>0, <1>1 DEF LifeCycleInv
<1>4. Bystander
  BY <1>1, OverlapCall DEF Bystander
<1> QED
  BY <1>2, <1>3, <1>4

LEMMA InitializeFailsLife ==
  ASSUME TypeOK, LifeCycleInv, NEW who, InitializeFails(who)
  PROVE  TypeOK' /\ LifeCycleInv' /\ Bystander
<1> DEFINE m == InitializeAll(who)
<1>0. cancelSim' = FALSE /\ late' = NotAsked /\ refused' = TRUE /\ NewFile(<<Start, "before">>)
  BY DEF InitializeFails
<1>1. /\ ClientCall(Overlap)
      /\ resultFile' = resultFilename
      /\ time' = Start
      /\ mode' = TerminateAll(m)
      /\ fault' = IF CallsFreed(m) THEN "fmu" ELSE fault
      /\ modelState' = IF Terminated(m) THEN "terminated" ELSE "initialization"
      /\ UNCHANGED <<resultFilename, at, pc, tNext, reports>>
  BY DEF InitializeFails, TerminateWith, run
<1>2. TypeOK'
  <2>1. mode' \in [Components' -> Modes]
    BY <1>1, OverlapCall, ModesOfLoops
  <2>2. modelState' \in States /\ fault' \in {"none", "fmu"} /\ ContentType
    BY <1>0, <1>1, OverlapCall, NewFileType, RowType DEF States
  <2>3. cancelSim' \in BOOLEAN /\ refused' \in BOOLEAN
    BY <1>0
  <2>4. time' \in Int
    BY <1>1 DEF Start
  <2>5. late' \in Int /\ late' >= NotAsked
    BY <1>0 DEF NotAsked
  <2> QED
    BY <1>1, <2>1, <2>2, <2>3, <2>4, <2>5, OverlapCall DEF TypeOK, Modes, Wrongs, ContentType
<1>3. LifeCycleInv'
  BY <1>0, <1>1 DEF LifeCycleInv
<1>4. Bystander
  BY <1>1, OverlapCall DEF Bystander
<1> QED
  BY <1>2, <1>3, <1>4

LEMMA InitializeLockedLife ==
  ASSUME TypeOK, LifeCycleInv, InitializeLocked
  PROVE  TypeOK' /\ LifeCycleInv' /\ Bystander /\ UNCHANGED fault
<1> DEFINE m == InitializeAll(None)
<1>0. cancelSim' = FALSE /\ late' = NotAsked /\ CloseFile
  BY DEF InitializeLocked
<1>1. /\ ClientCall(Overlap)
      /\ Initialized(None)
      /\ resultFile' = "NULL"
      /\ time' = Start
      /\ mode' = TerminateAll(m)
      /\ fault' = IF CallsFreed(m) THEN "fmu" ELSE fault
      /\ modelState' = IF Terminated(m) THEN "terminated" ELSE "initialization"
      /\ UNCHANGED <<resultFilename, at, pc, tNext, reports, refused>>
  BY DEF InitializeLocked, TerminateWith, CloseFile, run
<1>2. Terminated(m) /\ ~CallsFreed(m)
  BY <1>1, InitializedIsAll, SimulatedIsTerminated
<1>3. TypeOK'
  <2>1. mode' \in [Components' -> Modes]
    BY <1>1, OverlapCall, ModesOfLoops
  <2>2. modelState' \in States /\ fault' = fault /\ ContentType
    BY <1>0, <1>1, <1>2, NewFileType, RowType DEF States, CloseFile
  <2>3. cancelSim' \in BOOLEAN
    BY <1>0
  <2>4. time' \in Int
    BY <1>1 DEF Start
  <2>5. late' \in Int /\ late' >= NotAsked
    BY <1>0 DEF NotAsked
  <2> QED
    BY <1>1, <2>1, <2>2, <2>3, <2>4, <2>5, OverlapCall DEF TypeOK, Modes, Wrongs, ContentType
<1>4. LifeCycleInv'
  BY <1>0, <1>1, <1>2 DEF LifeCycleInv
<1>5. Bystander
  BY <1>1, OverlapCall DEF Bystander
<1> QED
  BY <1>1, <1>2, <1>3, <1>4, <1>5

LEMMA InitializeLife ==
  ASSUME TypeOK, LifeCycleInv, Initialize
  PROVE  TypeOK' /\ LifeCycleInv' /\ Bystander /\ UNCHANGED fault
<1>0. /\ cancelSim' = FALSE /\ late' = NotAsked /\ since' = <<Start, "before">>
      /\ EmitTo(<< >>, {}, <<Start, "after">>)
  BY DEF Initialize
<1>1. /\ ClientCall(Overlap)
      /\ resultFilename \in {Good, Void}
      /\ Initialized(None)
      /\ mode' = InitializeAll(None)
      /\ resultFile' = resultFilename
      /\ time' = Start
      /\ modelState' = "simulation"
      /\ UNCHANGED <<resultFilename, at, pc, tNext, reports, fault, refused>>
  BY DEF Initialize, run
<1>2. TypeOK'
  <2>1. mode' \in [Components' -> Modes]
    BY <1>1, OverlapCall, ModesOfLoops
  <2>2. ContentType
    <3>1. << >> \in Seq(Rows)
      BY EmptySeq
    <3>2. rows' \in Seq(Rows) /\ unread' \subseteq Rows
      BY <1>0, <3>1, EmitToType, RowType
    <3> QED
      BY <1>0, <3>2, RowType DEF ContentType
  <2>3. cancelSim' \in BOOLEAN
    BY <1>0
  <2>4. time' \in Int
    BY <1>1 DEF Start
  <2>5. late' \in Int /\ late' >= NotAsked
    BY <1>0 DEF NotAsked
  <2> QED
    BY <1>1, <2>1, <2>2, <2>3, <2>4, <2>5, OverlapCall DEF TypeOK, Modes, Wrongs, States, ContentType
<1>3. LifeCycleInv'
  <2>1. \A c \in Components' : mode'[c] = "simulation"
    BY <1>1, OverlapCall, InitializedIsAll
  <2> QED
    BY <1>0, <1>1, <2>1 DEF LifeCycleInv
<1>4. Bystander
  BY <1>1, OverlapCall DEF Bystander
<1> QED
  BY <1>1, <1>2, <1>3, <1>4

LEMMA ClosedType ==
  ASSUME TypeOK, NEW closed, CloseFileIf(closed)
  PROVE  resultFile' \in Names \cup {"NULL"} /\ ContentType
<1>1. CASE CloseFile
  BY <1>1, NewFileType, RowType DEF CloseFile
<1>2. CASE UNCHANGED <<resultFile, content>>
  BY <1>2, SameContentType DEF TypeOK
<1> QED
  BY <1>1, <1>2 DEF CloseFileIf

LEMMA TerminateLife ==
  ASSUME TypeOK, LifeCycleInv, Terminate
  PROVE  /\ TypeOK' /\ LifeCycleInv' /\ Bystander
         /\ ~refused => UNCHANGED fault
         /\ modelState' # "simulation"
<1>1. /\ ClientCall(Overlap)
      /\ modelState \in {"simulation", "initialization"}
      /\ mode' = TerminateAll(mode)
      /\ fault' = IF CallsFreed(mode) THEN "fmu" ELSE fault
      /\ modelState' = IF Terminated(mode) THEN "terminated" ELSE modelState
      /\ CloseFileIf(Terminated(mode))
      /\ UNCHANGED <<resultFilename, cancelSim, time, at, pc, tNext, reports, refused, late>>
  BY DEF Terminate, run
<1>2. modelState = "simulation" => Terminated(mode) /\ ~CallsFreed(mode)
  BY SimulatedIsTerminated DEF LifeCycleInv
<1>3. TypeOK'
  <2>1. mode' \in [Components' -> Modes]
    BY <1>1, OverlapCall, ModesOfLoops DEF TypeOK, Modes
  <2>2. modelState' \in States /\ fault' \in {"none", "fmu", "writer", "callback"}
    BY <1>1 DEF States, TypeOK
  <2>3. resultFile' \in Names \cup {"NULL"} /\ ContentType
    BY <1>1, ClosedType
  <2> QED
    BY <1>1, <2>1, <2>2, <2>3, OverlapCall DEF TypeOK, Modes, Wrongs, ContentType
<1>4. LifeCycleInv'
  BY <1>1, <1>2 DEF LifeCycleInv
<1>5. Bystander
  BY <1>1, OverlapCall DEF Bystander
<1> QED
  BY <1>1, <1>2, <1>3, <1>4, <1>5 DEF LifeCycleInv

LEMMA TerminateInstantiatedLife ==
  ASSUME TypeOK, LifeCycleInv, NEW who, TerminateInstantiated(who)
  PROVE  /\ TypeOK' /\ LifeCycleInv' /\ Bystander /\ UNCHANGED fault
         /\ modelState' # "simulation"
<1>1. /\ ClientCall(Overlap)
      /\ modelState = "instantiated"
      /\ time' = Start
      /\ mode' = IF Initialized(who) THEN TerminateAll(InitializeAll(who)) ELSE InitializeAll(who)
      /\ modelState' = IF Initialized(who) THEN "terminated" ELSE modelState
      /\ CloseFileIf(Initialized(who))
      /\ UNCHANGED <<resultFilename, cancelSim, at, pc, tNext, reports, fault, late>>
  BY DEF TerminateInstantiated, CloseFileIf, run
<1>2. refused' \in BOOLEAN
  BY RefusalIsBoolean DEF TerminateInstantiated
<1>3. TypeOK'
  <2>1. mode' \in [Components' -> Modes]
    BY <1>1, OverlapCall, ModesOfLoops
  <2>2. modelState' \in States
    BY <1>1 DEF States
  <2>3. resultFile' \in Names \cup {"NULL"} /\ ContentType
    BY <1>1, ClosedType
  <2>4. time' \in Int
    BY <1>1 DEF Start
  <2> QED
    BY <1>1, <1>2, <2>1, <2>2, <2>3, <2>4, OverlapCall DEF TypeOK, Modes, Wrongs, ContentType
<1>4. LifeCycleInv'
  BY <1>1 DEF LifeCycleInv
<1>5. Bystander
  BY <1>1, OverlapCall DEF Bystander
<1> QED
  BY <1>1, <1>3, <1>4, <1>5

LEMMA SetResultFileLife ==
  ASSUME TypeOK, LifeCycleInv, NEW name \in Names, SetResultFile(name)
  PROVE  TypeOK' /\ LifeCycleInv' /\ Bystander /\ UNCHANGED <<time, fault>>
<1>1. /\ ClientCall(Overlap)
      /\ resultFilename' = name
      /\ resultFile' = IF resultFile # "NULL" /\ name = Good THEN name ELSE "NULL"
      /\ UNCHANGED <<modelState, cancelSim, time, mode, at, pc, tNext, reports, fault, refused, late>>
  BY DEF SetResultFile, fmus, run
<1>2. ContentType
  BY NewFileType, RowType DEF SetResultFile
<1>3. TypeOK'
  <2>1. resultFile' \in Names \cup {"NULL"}
    BY <1>1
  <2>2. mode' \in [Components' -> Modes]
    BY <1>1, OverlapCall DEF TypeOK, Modes
  <2> QED
    BY <1>1, <1>2, <2>1, <2>2, OverlapCall DEF TypeOK, Modes, Wrongs, ContentType
<1>4. LifeCycleInv'
  BY <1>1, OverlapCall DEF LifeCycleInv
<1>5. Bystander
  BY <1>1, OverlapCall DEF Bystander
<1> QED
  BY <1>1, <1>3, <1>4, <1>5

(* A run begins.                                                           *)
Begin(w, wrong) ==
  /\ ClientCall(Overlap \cup wrong)
  /\ modelState = "simulation"
  /\ w \in Runs /\ pc' = [pc EXCEPT ![w] = "looping"]
  /\ late' = IF late = NotAsked THEN late ELSE 0
  /\ UNCHANGED <<setup, modelState, resultFilename, resultFile, content, cancelSim, time, mode, at,
                 tNext, reports, fault, refused>>

LEMMA RunsBegin ==
  /\ Simulate => Begin(Sync, WithoutFile \cup IF cancelSim THEN {"cancelled"} ELSE {})
  /\ \A w \in Runs : SimulateAsynchronous(w) =>
       Begin(w, WithoutFile) /\ w # Sync /\ pc[w] = "none"
<1>1. Overlap \cup WithoutFile \cup (IF cancelSim THEN {"cancelled"} ELSE {})
        = Overlap \cup (WithoutFile \cup IF cancelSim THEN {"cancelled"} ELSE {})
  OBVIOUS
<1>2. Sync \in Runs
  BY BoundsAssumption DEF Sync, Runs
<1> QED
  BY <1>1, <1>2 DEF Simulate, SimulateAsynchronous, Begin, Enter, ClientCall, file, fmus

LEMMA LateOfRun ==
  ASSUME TypeOK, late' = IF late = NotAsked THEN late ELSE 0
  PROVE  /\ late' \in Int /\ late' >= NotAsked
         /\ late' = NotAsked <=> late = NotAsked
<1>1. late \in Int /\ late >= NotAsked
  BY DEF TypeOK
<1> QED
  BY <1>1 DEF NotAsked

(* After Enter no cancellation is late. *)
LEMMA LateOfBegin ==
  ASSUME late' = IF late = NotAsked THEN late ELSE 0
  PROVE  late' <= 0 /\ late' <= 1
BY DEF NotAsked

LEMMA BeginLife ==
  ASSUME TypeOK, LifeCycleInv, NEW w, NEW wrong \in SUBSET {"no file", "cancelled"}, Begin(w, wrong)
  PROVE  /\ TypeOK' /\ LifeCycleInv' /\ Clean
         /\ Clean' => wrong = {} /\ \A u \in Runs : ~UnderWay(u)
<1>1. Overlap \cup wrong \in SUBSET Wrongs
  BY OverlapFacts DEF Wrongs
<1>2. /\ setup' \in Setups /\ Components' = Components
      /\ misuse' \subseteq Wrongs /\ calls' \in Nat
      /\ Clean /\ (Clean' => Overlap = {} /\ wrong = {})
  BY <1>1, CallFacts DEF Begin
<1>3. pc' \in [Runs -> Places]
  BY DEF Begin, TypeOK, Places
<1>4. /\ late' \in Int /\ late' >= NotAsked
      /\ late' = NotAsked <=> late = NotAsked
  BY LateOfRun DEF Begin
<1>5. mode' \in [Components' -> Modes]
  BY <1>2 DEF Begin, TypeOK, Modes
<1>6. TypeOK'
  BY <1>2, <1>3, <1>4, <1>5, SameContentType DEF Begin, TypeOK, Modes, Wrongs, ContentType
<1>7. LifeCycleInv'
  BY <1>2, <1>4 DEF Begin, LifeCycleInv
<1> QED
  BY <1>2, <1>6, <1>7, OverlapFacts

LEMMA CancelLife ==
  ASSUME TypeOK, LifeCycleInv, CancelSimulation
  PROVE  /\ TypeOK' /\ LifeCycleInv' /\ Clean
         /\ ~UnderWay(Sync)
         /\ late' = IF late = NotAsked THEN 0 ELSE late
         /\ UNCHANGED <<setup, modelState, resultFilename, resultFile, content, time, mode, at,
                        pc, tNext, reports, fault, refused>>
<1>1. /\ ClientCall({}) /\ ~UnderWay(Sync)
      /\ modelState = "simulation"
      /\ late' = IF late = NotAsked THEN 0 ELSE late
      /\ UNCHANGED <<setup, modelState, resultFilename, resultFile, content, time, mode, at,
                     pc, tNext, reports, fault, refused>>
  BY DEF CancelSimulation, ClientCall, file, fmus, run
<1>2. cancelSim' = TRUE
  BY DEF CancelSimulation
<1>3. /\ Components' = Components /\ Clean
      /\ misuse' \subseteq Wrongs /\ calls' \in Nat
  BY <1>1, CallFacts
<1>4. TypeOK'
  <2>1. cancelSim' \in BOOLEAN
    BY <1>2
  <2>2. late' \in Int /\ late' >= NotAsked
    <3>1. late \in Int /\ late >= NotAsked
      BY DEF TypeOK
    <3>2. late' = IF late = NotAsked THEN 0 ELSE late
      BY <1>1
    <3> QED
      BY <3>1, <3>2 DEF NotAsked
  <2>3. mode' \in [Components' -> Modes]
    BY <1>1, <1>3 DEF TypeOK, Modes
  <2> QED
    BY <1>1, <1>3, <2>1, <2>2, <2>3, SameContentType DEF TypeOK, Modes, Wrongs, ContentType
<1>5. LifeCycleInv'
  <2>1. late' # NotAsked
    BY <1>1 DEF NotAsked
  <2> QED
    BY <1>1, <1>2, <1>3, <2>1 DEF LifeCycleInv
<1> QED
  BY <1>1, <1>3, <1>4, <1>5

-----------------------------------------------------------------------------
(* The steps of stepUntil.                                                 *)

(* What no step of a run changes. *)
RunFrame ==
  /\ fault = "none"
  /\ UNCHANGED <<setup, modelState, resultFilename, resultFile, cancelSim, mode, misuse, refused,
                 calls>>

LEMMA StepFrame ==
  ASSUME NEW w, StepUntil(w)
  PROVE  RunFrame
BY DEF StepUntil, Loop, StepComponents, EmitStepped, EmitUpdated, Report, Discard, Continue,
       RunStep, RunFrame, client, fmus, run

(* The end of a communication step is a later time, not after the stop     *)
(* time.                                                                   *)
LEMMA NextTimeType ==
  ASSUME TypeOK
  PROVE  /\ Smaller(time + setup.stepSize, setup.stopTime) \in Int
         /\ Smaller(time + setup.stepSize, setup.stopTime) <= setup.stopTime
         /\ \A u : NextPoint(time, u) => time < u
<1>1. time \in Int
  BY DEF TypeOK
<1>2. setup.stepSize \in Nat /\ setup.stepSize > 0
  BY ComponentsAreASequence
<1>3. setup.stopTime \in Int
  BY ComponentsAreASequence
<1>4. time + setup.stepSize \in Int /\ time < time + setup.stepSize
  BY <1>1, <1>2
<1> QED
  BY <1>1, <1>3, <1>4 DEF Smaller, NextPoint

(* The steps that take no time and report nothing.                         *)
LEMMA SilentType ==
  ASSUME TypeOK, NEW w \in Runs, Loop(w) \/ StepComponents(w) \/ Continue(w)
  PROVE  /\ pc' \in [Runs -> Places] /\ tNext' \in [Runs -> Int] /\ at' \in Int
         /\ fault' \in {"none", "fmu", "writer", "callback"}
         /\ UNCHANGED <<time, reports, content, late>>
<1> USE DEF TypeOK, RunStep, Go, fmus
<1>1. CASE Loop(w)
  <2>1. Smaller(time + setup.stepSize, setup.stopTime) \in Int
    BY NextTimeType
  <2> QED
    BY <1>1, <2>1 DEF Loop, Places
<1>2. CASE StepComponents(w)
  BY <1>2 DEF StepComponents, Places
<1>3. CASE Continue(w)
  BY <1>3 DEF Continue, Places
<1> QED
  BY <1>1, <1>2, <1>3

(* The history of the cancellation. *)
LEMMA LateOfEmit ==
  ASSUME TypeOK, late' = IF late = NotAsked THEN late ELSE late + 1
  PROVE  /\ late' \in Int /\ late' >= NotAsked
         /\ late' = NotAsked <=> late = NotAsked
         /\ late <= 0 => late' <= 1
<1>1. late \in Int /\ late >= NotAsked
  BY DEF TypeOK
<1> QED
  BY <1>1 DEF NotAsked

LEMMA EmitType ==
  ASSUME TypeOK, NEW w \in Runs, EmitStepped(w) \/ EmitUpdated(w)
  PROVE  /\ pc' \in [Runs -> Places] /\ time' \in Int /\ ContentType
         /\ fault' \in {"none", "fmu", "writer", "callback"}
         /\ UNCHANGED <<tNext, at, reports>>
<1>1. tNext[w] \in Int /\ time \in Int /\ rows \in Seq(Rows) /\ unread \in SUBSET Rows
  BY DEF TypeOK
<1>2. <<tNext[w], "before">> \in Rows /\ <<time, "after">> \in Rows
  BY <1>1 DEF Rows
<1>3. time' \in Int
  BY <1>1 DEF EmitStepped, EmitUpdated
<1>4. rows' \in Seq(Rows) /\ unread' \subseteq Rows
  BY <1>1, <1>2, EmitToType DEF EmitStepped, EmitUpdated
<1>5. ContentType
  BY <1>4 DEF EmitStepped, EmitUpdated, ContentType, TypeOK
<1>6. fault' \in {"none", "fmu", "writer", "callback"}
  BY DEF EmitStepped, EmitUpdated, EmitFault, TypeOK
<1>7. pc' \in [Runs -> Places]
  BY DEF EmitStepped, EmitUpdated, Go, TypeOK, Places
<1> QED
  BY <1>3, <1>5, <1>6, <1>7 DEF EmitStepped, EmitUpdated, fmus

LEMMA ReportType ==
  ASSUME TypeOK, NEW w \in Runs, Report(w) \/ Discard(w)
  PROVE  /\ pc' \in [Runs -> Places]
         /\ reports' \in [Runs -> Seq(Int \X {"ok", "discard"})]
         /\ fault' \in {"none", "fmu", "writer", "callback"}
         /\ UNCHANGED <<tNext, at, time, content, late>>
<1>1. /\ <<time, "ok">> \in Int \X {"ok", "discard"}
      /\ <<time, "discard">> \in Int \X {"ok", "discard"}
  BY DEF TypeOK
<1>2. \A r \in Seq(Int \X {"ok", "discard"}), e \in Int \X {"ok", "discard"} :
        Append(r, e) \in Seq(Int \X {"ok", "discard"})
  BY AppendProperties
<1>3. reports[w] \in Seq(Int \X {"ok", "discard"})
  BY DEF TypeOK
<1>4. /\ Append(reports[w], <<time, "ok">>) \in Seq(Int \X {"ok", "discard"})
      /\ Append(reports[w], <<time, "discard">>) \in Seq(Int \X {"ok", "discard"})
  BY <1>1, <1>2, <1>3
<1>5. reports' \in [Runs -> Seq(Int \X {"ok", "discard"})]
  BY <1>4 DEF Report, Discard, run, TypeOK
<1>6. pc' \in [Runs -> Places] /\ fault' \in {"none", "fmu", "writer", "callback"}
  BY DEF Report, Discard, run, Go, TypeOK, Places
<1> QED
  BY <1>5, <1>6 DEF Report, Discard, run, fmus

(* A step keeps the types and the life cycle. *)
LEMMA StepLife ==
  ASSUME TypeOK, LifeCycleInv, NEW w \in Runs, StepUntil(w)
  PROVE  TypeOK' /\ LifeCycleInv'
<1>1. RunFrame
  BY StepFrame
<1>2. Components' = Components
  BY <1>1 DEF RunFrame, Components
<1>3. /\ late' \in Int /\ late' >= NotAsked
      /\ late' = NotAsked <=> late = NotAsked
  <2>1. CASE EmitStepped(w)
    BY <2>1, LateOfEmit DEF EmitStepped
  <2>2. CASE ~EmitStepped(w)
    <3>1. late' = late
      BY <2>2, SilentType, ReportType DEF StepUntil, EmitUpdated
    <3> QED
      BY <3>1 DEF TypeOK
  <2> QED
    BY <2>1, <2>2
<1>4. mode' \in [Components' -> Modes]
  BY <1>1, <1>2 DEF RunFrame, TypeOK, Modes
<1>5. /\ pc' \in [Runs -> Places] /\ tNext' \in [Runs -> Int] /\ at' \in Int /\ time' \in Int
      /\ ContentType
  BY SilentType, EmitType, ReportType, SameContentType DEF StepUntil, TypeOK
<1>6. /\ reports' \in [Runs -> Seq(Int \X {"ok", "discard"})]
      /\ fault' \in {"none", "fmu", "writer", "callback"}
  BY SilentType, EmitType, ReportType DEF StepUntil, TypeOK
<1>7. TypeOK'
  BY <1>1, <1>3, <1>4, <1>5, <1>6 DEF RunFrame, TypeOK, Modes, ContentType
<1>8. LifeCycleInv'
  BY <1>1, <1>2, <1>3 DEF RunFrame, LifeCycleInv
<1> QED
  BY <1>7, <1>8

-----------------------------------------------------------------------------
(* The rows that emit is asked for, one after the other.                   *)

LEMMA EarlierOrder ==
  ASSUME NEW x \in Rows, NEW y \in Rows, NEW z \in Rows, Earlier(y, z)
  PROVE  /\ y # z
         /\ Earlier(x, y) => Earlier(x, z)
<1>1. x[1] \in Int /\ y[1] \in Int /\ z[1] \in Int
  BY DEF Rows
<1> QED
  BY <1>1 DEF Earlier

(* The rows r are written and the rows u refused since the row s, and e is *)
(* the last one that emit was asked for.                                   *)
Rising(r) == \A m, n \in DOMAIN r : m < n => Earlier(r[m], r[n])
Fits(r, u, s, e) ==
  /\ Rising(r) /\ ToSet(r) \cap u = {}
  /\ \A x \in {s} \cup ToSet(r) \cup u :
       /\ x = e \/ After(x) \in ToSet(r) \cup u
       /\ x = e \/ Earlier(x, e)

LEMMA EmptyFits ==
  ASSUME NEW e
  PROVE  Fits(<< >>, {}, e, e)
<1>1. ToSet(<< >>) = {} /\ Rising(<< >>)
  BY DEF ToSet, Rising
<1> QED
  BY <1>1 DEF Fits

(* The elements of a sequence that one is appended to. *)
LEMMA AppendedRow ==
  ASSUME NEW r \in Seq(Rows), NEW y \in Rows
  PROVE  LET q == Append(r, y)
         IN  /\ Len(r) \in Nat /\ DOMAIN r = 1..Len(r) /\ DOMAIN q = 1..(Len(r) + 1)
             /\ \A n \in 1..Len(r) : q[n] = r[n] /\ r[n] \in ToSet(r)
             /\ q[Len(r) + 1] = y
             /\ ToSet(q) = ToSet(r) \cup {y}
             /\ ToSet(r) \subseteq Rows
<1> DEFINE q == Append(r, y)
<1>1. Len(r) \in Nat /\ DOMAIN r = 1..Len(r)
  BY LenProperties
<1>2. q \in Seq(Rows) /\ Len(q) = Len(r) + 1
  BY AppendProperties
<1>3. DOMAIN q = 1..(Len(r) + 1)
  BY <1>2, LenProperties
<1>4. (\A n \in 1..Len(r) : q[n] = r[n]) /\ q[Len(r) + 1] = y
  BY <1>1, AppendProperties
<1>5. \A n \in 1..Len(r) : r[n] \in ToSet(r) /\ r[n] \in Rows
  BY <1>1 DEF ToSet
<1> HIDE DEF q
<1>6. ToSet(q) = ToSet(r) \cup {y}
  <2>1. \A n \in 1..(Len(r) + 1) : n \in 1..Len(r) \/ n = Len(r) + 1
    BY <1>1
  <2>2. Len(r) + 1 \in 1..(Len(r) + 1) /\ \A n \in 1..Len(r) : n \in 1..(Len(r) + 1)
    BY <1>1
  <2> QED
    BY <1>1, <1>3, <1>4, <2>1, <2>2 DEF ToSet
<1>7. ToSet(r) \subseteq Rows
  BY <1>1, <1>5 DEF ToSet
<1> QED
  BY <1>1, <1>3, <1>4, <1>5, <1>6, <1>7 DEF q

(* The row after the last one leaves no gap and repeats nothing, written   *)
(* or refused.                                                             *)
LEMMA RowFollows ==
  ASSUME NEW r \in Seq(Rows), NEW u \in SUBSET Rows, NEW s \in Rows,
         NEW e \in Rows, NEW y \in Rows,
         Fits(r, u, s, e), y = After(e), Earlier(e, y)
  PROVE  /\ Fits(Append(r, y), u, s, y) /\ Fits(r, u \cup {y}, s, y)
         /\ ToSet(Append(r, y)) = ToSet(r) \cup {y}
<1> DEFINE q == Append(r, y)
           A == {s} \cup ToSet(r) \cup u
<1>1. /\ Len(r) \in Nat /\ DOMAIN r = 1..Len(r) /\ DOMAIN q = 1..(Len(r) + 1)
      /\ \A n \in 1..Len(r) : q[n] = r[n] /\ r[n] \in ToSet(r)
      /\ q[Len(r) + 1] = y
      /\ ToSet(q) = ToSet(r) \cup {y}
      /\ ToSet(r) \subseteq Rows
  BY AppendedRow
<1> HIDE DEF q
<1>2. \A x \in A : Earlier(x, y) /\ x # y
  <2> TAKE x \in A
  <2>1. x \in Rows /\ (x = e \/ Earlier(x, e))
    BY <1>1 DEF Fits
  <2>2. Earlier(x, y)
    BY <2>1, EarlierOrder
  <2> QED
    BY <2>1, <2>2, EarlierOrder
<1>3. ToSet(q) \cap u = {} /\ ToSet(r) \cap (u \cup {y}) = {}
  BY <1>1, <1>2 DEF Fits
<1>4. Rising(r)
  BY DEF Fits
<1>5. Rising(q)
  <2> SUFFICES ASSUME NEW m \in 1..(Len(r) + 1), NEW n \in 1..(Len(r) + 1), m < n
               PROVE  Earlier(q[m], q[n])
    BY <1>1 DEF Rising
  <2>1. m \in 1..Len(r)
    BY <1>1
  <2>2. CASE n \in 1..Len(r)
    BY <1>1, <1>4, <2>1, <2>2 DEF Rising
  <2>3. CASE n = Len(r) + 1
    BY <1>1, <1>2, <2>1, <2>3
  <2> QED
    BY <1>1, <2>2, <2>3
<1>6. \A x \in A : After(x) \in ToSet(r) \cup u \cup {y}
  BY DEF Fits
<1> HIDE DEF A
<1>7. {s} \cup ToSet(q) \cup u = A \cup {y} /\ {s} \cup ToSet(r) \cup (u \cup {y}) = A \cup {y}
  BY <1>1 DEF A
<1>8. Fits(q, u, s, y)
  BY <1>1, <1>2, <1>3, <1>5, <1>6, <1>7 DEF Fits
<1>9. Fits(r, u \cup {y}, s, y)
  BY <1>2, <1>3, <1>4, <1>6, <1>7 DEF Fits
<1> QED
  BY <1>1, <1>8, <1>9 DEF q

(* What RowsFit and RowsReachTime say of a model that can be simulated.    *)
LEMMA RowsOfModel ==
  ASSUME Clean, modelState = "simulation" /\ resultFile # "NULL"
  PROVE  RowsFit /\ RowsReachTime => Fits(rows, unread, since, Newest)
BY DEF RowsFit, RowsReachTime, Fits, Rising, NoneAfter, Asked

LEMMA RowsOfModelNext ==
  ASSUME setup' = setup, Clean', modelState' = "simulation" /\ resultFile' # "NULL",
         Fits(rows', unread', since', Newest'),
         \A w \in Runs : pc'[w] = "emitting" => Newest' \in Asked',
         \A w \in Runs : pc'[w] \in {"emitted", "reported"} =>
           at' = time' /\ {<<time', "before">>, <<time', "after">>} \subseteq Asked'
  PROVE  RowsFit' /\ RowsReachTime'
BY DEF RowsFit, RowsReachTime, Fits, Rising, NoneAfter, Asked, After

-----------------------------------------------------------------------------
(* The invariant of a clean client over its calls.                         *)

(* The calls that are not about a run. *)
BystanderCall ==
  \/ \E who \in setup.failing \cup {None} :
       Instantiate(who) \/ InitializeFails(who) \/ TerminateInstantiated(who)
  \/ InitializeUnsupported \/ InitializeLocked \/ Initialize \/ Terminate
  \/ \E name \in Names : SetResultFile(name)

(* What they do to the rows, the history and the faults: the file is left   *)
(* as it is, empty, or has been asked for the row of the start.            *)
StartRow ==
  /\ time' = Start /\ since' = <<Start, "before">>
  /\ EmitTo(<< >>, {}, <<Start, "after">>)
Effect ==
  /\ UNCHANGED content \/ (\E e \in Rows : NewFile(e)) \/ StartRow
  /\ modelState' = "simulation" /\ resultFile' # "NULL" => NewFile(<<time', "after">>) \/ StartRow
  /\ late' \in {late, NotAsked}
  /\ refused \/ fault' # "none" => refused'

LEMMA CallEffect ==
  ASSUME TypeOK, LifeCycleInv, BystanderCall
  PROVE  TypeOK' /\ LifeCycleInv' /\ Bystander /\ Effect
<1> USE DEF Effect, Bystander
<1>0. <<Start, "before">> \in Rows /\ <<time, "after">> \in Rows
  BY RowType
<1>1. ASSUME NEW who, Instantiate(who)
      PROVE  TypeOK' /\ LifeCycleInv' /\ Bystander /\ Effect
  BY <1>1, InstantiateLife DEF Instantiate, file, run
<1>2. ASSUME NEW who, InitializeFails(who)
      PROVE  TypeOK' /\ LifeCycleInv' /\ Bystander /\ Effect
  BY <1>0, <1>2, InitializeFailsLife DEF InitializeFails, TerminateWith
<1>3. ASSUME NEW who, TerminateInstantiated(who)
      PROVE  TypeOK' /\ LifeCycleInv' /\ Bystander /\ Effect
  BY <1>0, <1>3, TerminateInstantiatedLife DEF TerminateInstantiated, CloseFile
<1>4. CASE InitializeUnsupported
  BY <1>4, InitializeUnsupportedLife DEF InitializeUnsupported, file
<1>5. CASE InitializeLocked
  <2>1. modelState' # "simulation"
    BY <1>5 DEF InitializeLocked, TerminateWith
  <2> QED
    BY <1>0, <1>5, <2>1, InitializeLockedLife DEF InitializeLocked, CloseFile
<1>6. CASE Initialize
  BY <1>6, InitializeLife DEF Initialize, StartRow
<1>7. CASE Terminate
  BY <1>0, <1>7, TerminateLife DEF Terminate, CloseFileIf, CloseFile
<1>8. ASSUME NEW name \in Names, SetResultFile(name)
      PROVE  TypeOK' /\ LifeCycleInv' /\ Bystander /\ Effect
  BY <1>0, <1>8, SetResultFileLife DEF SetResultFile
<1> QED
  BY <1>1, <1>2, <1>3, <1>4, <1>5, <1>6, <1>7, <1>8 DEF BystanderCall

(* Nothing is said of a run that is not under way but what it has reported. *)
LEMMA BystanderRuns ==
  ASSUME IInv, Bystander, Clean'
  PROVE  OneRun' /\ ProgressInv' /\ ReportsFit'
<1>1. \A w \in Runs : ~UnderWay(w)
  BY DEF Bystander
<1>2. \A w \in Runs : pc[w] \notin {"looping", "stepping", "stepped", "emitting", "emitted", "reported"}
  BY <1>1 DEF UnderWay
<1>3. UNCHANGED <<pc, reports, setup>> /\ Clean
  BY DEF Bystander
<1>4. OneRun'
  BY <1>2, <1>3 DEF OneRun, UnderWay
<1>5. ProgressInv'
  BY <1>2, <1>3 DEF IInv, ProgressInv, Progress
<1>6. ReportsFit'
  BY <1>3 DEF IInv, ReportsFit, ReportFits, NextPoint
<1> QED
  BY <1>4, <1>5, <1>6

(* A file that is new has no gap.                                          *)
LEMMA BystanderRows ==
  ASSUME IInv, TypeOK', Bystander, Effect, Clean'
  PROVE  RowsReachTime' /\ RowsFit'
<1>1. \A w \in Runs : ~UnderWay(w)
  BY DEF Bystander
<1>2. \A w \in Runs : pc'[w] \notin {"emitting", "emitted", "reported"}
  BY <1>1 DEF Bystander, UnderWay
<1>3. Clean /\ setup' = setup /\ misuse = {} /\ RowsFit /\ TypeOK
  BY DEF Bystander, Clean, IInv
<1>4. Newest' = <<time', "after">>
  BY <1>2 DEF Newest
<1>5. ASSUME StartRow
      PROVE  Fits(rows', unread', since', <<time', "after">>)
  <2> DEFINE s == <<Start, "before">>
             y == <<Start, "after">>
  <2>1. Fits(<< >>, {}, s, s)
    BY EmptyFits
  <2>2. s \in Rows /\ y \in Rows /\ << >> \in Seq(Rows)
    BY RowType, EmptySeq
  <2>3. y = After(s) /\ Earlier(s, y)
    BY DEF After, Earlier
  <2>4. \/ rows' = Append(<< >>, y) /\ unread' = {}
        \/ rows' = << >> /\ unread' = {} \cup {y}
    BY <1>3, <1>5 DEF StartRow, EmitTo
  <2>5. {} \in SUBSET Rows
    OBVIOUS
  <2> HIDE DEF s, y
  <2>6. Fits(rows', unread', s, y)
    <3>1. Fits(Append(<< >>, y), {}, s, y) /\ Fits(<< >>, {} \cup {y}, s, y)
      BY <2>1, <2>2, <2>3, <2>5, RowFollows
    <3> QED
      BY <2>4, <3>1
  <2> QED
    BY <1>5, <2>6 DEF StartRow, s, y
<1>6. ASSUME NEW e, NewFile(e)
      PROVE  Fits(rows', unread', since', e)
  BY <1>6, EmptyFits DEF NewFile
<1>7. CASE modelState' = "simulation" /\ resultFile' # "NULL"
  <2>1. Fits(rows', unread', since', Newest')
    BY <1>4, <1>5, <1>6, <1>7 DEF Effect
  <2> QED
    BY <1>2, <1>3, <1>7, <2>1, RowsOfModelNext
<1>8. CASE ~(modelState' = "simulation" /\ resultFile' # "NULL")
  <2>1. Rising(rows') /\ ToSet(rows') \cap unread' = {}
    <3>1. CASE UNCHANGED content
      BY <1>3, <3>1 DEF RowsFit, content, Rising
    <3>2. CASE StartRow \/ \E e \in Rows : NewFile(e)
      BY <1>5, <1>6, <3>2 DEF Fits
    <3> QED
      BY <3>1, <3>2 DEF Effect
  <2> QED
    BY <1>2, <1>3, <1>8, <2>1 DEF RowsFit, RowsReachTime, Rising
<1> QED
  BY <1>7, <1>8

LEMMA BystanderInv ==
  ASSUME IInv, BystanderCall
  PROVE  IInv'
<1>1. TypeOK' /\ LifeCycleInv' /\ Bystander /\ Effect
  BY CallEffect DEF IInv
<1>2. CASE ~Clean'
  BY <1>1, <1>2 DEF IInv, ReportsFit, RowsFit, CancelIsPrompt, NoFault
<1>3. CASE Clean'
  <2>1. OneRun' /\ ProgressInv' /\ ReportsFit' /\ RowsReachTime' /\ RowsFit'
    BY <1>1, <1>3, BystanderRuns, BystanderRows
  <2>2. CancelIsPrompt'
    <3>1. late <= 1 /\ late \in Int
      BY <1>1 DEF IInv, CancelIsPrompt, Bystander, TypeOK
    <3> QED
      BY <1>1, <3>1 DEF CancelIsPrompt, Effect, NotAsked
  <2>3. NoFault'
    BY <1>1 DEF NoFault, Effect
  <2> QED
    BY <1>1, <2>1, <2>2, <2>3 DEF IInv
<1> QED
  BY <1>2, <1>3

(* Where nothing is emitted, before or after, the rows fit as they did.    *)
LEMMA UnchangedRows ==
  ASSUME Clean, RowsFit, RowsReachTime, UNCHANGED <<setup, modelState, resultFile, content, time>>,
         \A u \in Runs : /\ pc[u] # "emitting" /\ pc'[u] # "emitting"
                         /\ pc'[u] \in {"emitted", "reported"} =>
                              pc[u] \in {"emitted", "reported"} /\ at' = at
  PROVE  RowsReachTime' /\ RowsFit'
<1>1. Newest' = Newest
  BY DEF Newest
<1>2. Asked' = Asked /\ UNCHANGED <<rows, unread, since>>
  BY DEF Asked, content
<1> QED
  BY <1>1, <1>2 DEF RowsFit, RowsReachTime, NoneAfter, After

(* A run that begins is the only one, and begins where the last one ended. *)
LEMMA BeginInv ==
  ASSUME IInv, NEW w, NEW wrong \in SUBSET {"no file", "cancelled"}, Begin(w, wrong),
         wrong = {} => resultFile # "NULL" /\ (w = Sync => ~cancelSim),
         w # Sync => pc[w] = "none"
  PROVE  IInv'
<1>1. /\ TypeOK' /\ LifeCycleInv' /\ Clean
      /\ Clean' => wrong = {} /\ \A u \in Runs : ~UnderWay(u)
  BY BeginLife DEF IInv
<1>2. CASE ~Clean'
  BY <1>1, <1>2 DEF IInv, ReportsFit, RowsFit, CancelIsPrompt, NoFault
<1>3. CASE Clean'
  <2>1. /\ \A u \in Runs : ~UnderWay(u)
        /\ resultFile # "NULL" /\ (w = Sync => ~cancelSim)
    BY <1>1, <1>3
  <2>2. /\ modelState = "simulation" /\ w \in Runs
        /\ pc' = [pc EXCEPT ![w] = "looping"]
        /\ UNCHANGED <<setup, modelState, resultFile, content, cancelSim, time, at, reports, fault,
                       refused>>
    BY DEF Begin
  <2>3. pc \in [Runs -> Places] /\ reports[w] = << >>
    BY <1>1, <2>2 DEF IInv, TypeOK, ProgressInv, Progress
  <2>4. \A u \in Runs : UnderWay(u)' <=> u = w
    BY <2>1, <2>2, <2>3 DEF UnderWay
  <2>5. OneRun'
    BY <2>1, <2>2, <2>4 DEF OneRun
  <2>6. ProgressInv'
    <3>1. \A u \in Runs \ {w} :
            pc'[u] \notin {"looping", "stepping", "stepped", "emitting", "emitted", "reported"} /\ pc'[u] = pc[u]
      BY <2>1, <2>2, <2>3 DEF UnderWay
    <3>2. late' <= 0
      BY <2>1, LateOfBegin DEF Begin
    <3>3. pc'[w] = "looping"
      BY <2>2, <2>3
    <3>4. ProgressInv /\ reports' = reports
      BY <1>1, <2>2 DEF IInv
    <3> QED
      BY <2>3, <3>1, <3>2, <3>3, <3>4 DEF ProgressInv, Progress
  <2>7. RowsReachTime' /\ RowsFit'
    <3>1. \A u \in Runs : /\ pc[u] \notin {"emitting", "emitted", "reported"}
                          /\ pc'[u] \notin {"emitting", "emitted", "reported"}
      BY <2>1, <2>2, <2>3 DEF UnderWay
    <3>2. RowsReachTime /\ RowsFit
      BY <1>1 DEF IInv
    <3> QED
      BY <1>1, <2>2, <3>1, <3>2, UnchangedRows
  <2>8. ReportsFit'
    <3>1. \A u \in Runs \ {w} : pc'[u] = pc[u]
      BY <2>2, <2>3
    <3>2. ReportsFit /\ reports' = reports /\ setup' = setup /\ Clean
      BY <1>1, <2>2 DEF IInv
    <3> SUFFICES ASSUME NEW u \in Runs \ {Sync} PROVE ReportFits(u)'
      BY DEF ReportsFit
    <3>3. CASE u = w
      BY <2>3, <3>2, <3>3, NoNeighbours DEF ReportFits
    <3>4. CASE u # w
      <4>1. ReportFits(u)
        BY <3>2 DEF ReportsFit
      <4>2. pc'[u] = pc[u] /\ reports'[u] = reports[u] /\ setup' = setup
        BY <3>1, <3>2, <3>4
      <4> QED
        BY <4>1, <4>2 DEF ReportFits, NextPoint
    <3> QED
      BY <3>3, <3>4
  <2>10. CancelIsPrompt'
    BY <2>1, LateOfBegin DEF Begin, CancelIsPrompt
  <2>11. NoFault'
    BY <1>1, <2>2 DEF IInv, NoFault
  <2> QED
    BY <1>1, <2>5, <2>6, <2>7, <2>8, <2>10, <2>11 DEF IInv
<1> QED
  BY <1>2, <1>3

(* A cancellation disturbs no run that knows of the callback.              *)
LEMMA CancelInv ==
  ASSUME IInv, CancelSimulation
  PROVE  IInv'
<1>1. /\ TypeOK' /\ LifeCycleInv' /\ Clean /\ ~UnderWay(Sync)
      /\ late' = IF late = NotAsked THEN 0 ELSE late
      /\ UNCHANGED <<setup, modelState, resultFilename, resultFile, content, time, mode, at,
                     pc, tNext, reports, fault, refused>>
  BY CancelLife DEF IInv
<1>2. OneRun /\ ProgressInv /\ RowsReachTime /\ ReportsFit /\ RowsFit /\ CancelIsPrompt /\ NoFault
  BY <1>1 DEF IInv
<1>3. OneRun'
  BY <1>1, <1>2 DEF OneRun, UnderWay
<1>4. /\ late <= 0 => late' <= 0
      /\ late <= 1 => late' <= 1
  BY <1>1
<1>5. ProgressInv'
  BY <1>1, <1>2, <1>4 DEF ProgressInv, Progress, Reported, NextPoint
<1>6. RowsReachTime' /\ ReportsFit' /\ RowsFit'
  <2>1. ReportsFit'
    BY <1>1, <1>2 DEF ReportsFit, ReportFits, NextPoint
  <2>2. Newest' = Newest /\ Asked' = Asked /\ UNCHANGED <<rows, unread, since>>
    BY <1>1 DEF Newest, Asked, content
  <2>3. RowsReachTime' /\ RowsFit'
    BY <1>1, <1>2, <2>2 DEF RowsFit, RowsReachTime, NoneAfter, After
  <2> QED
    BY <2>1, <2>3
<1>7. CancelIsPrompt' /\ NoFault'
  BY <1>1, <1>2, <1>4 DEF CancelIsPrompt, NoFault
<1> QED
  BY <1>1, <1>3, <1>5, <1>6, <1>7 DEF IInv

LEMMA CallInv ==
  ASSUME IInv, Client
  PROVE  IInv'
<1>1. CASE BystanderCall
  BY <1>1, BystanderInv
<1>2. CASE Simulate
  <2> DEFINE wrong == WithoutFile \cup IF cancelSim THEN {"cancelled"} ELSE {}
  <2>1. wrong \in SUBSET {"no file", "cancelled"}
    BY DEF WithoutFile
  <2>2. wrong = {} => resultFile # "NULL" /\ ~cancelSim
    BY DEF WithoutFile
  <2>3. Begin(Sync, wrong)
    BY <1>2, RunsBegin
  <2> HIDE DEF wrong
  <2> QED
    BY <2>1, <2>2, <2>3, BeginInv
<1>3. ASSUME NEW w \in Runs, SimulateAsynchronous(w)
      PROVE  IInv'
  <2>1. WithoutFile \in SUBSET {"no file", "cancelled"}
    BY DEF WithoutFile
  <2>2. WithoutFile = {} => resultFile # "NULL"
    BY DEF WithoutFile
  <2>3. Begin(w, WithoutFile) /\ w # Sync /\ pc[w] = "none"
    BY <1>3, RunsBegin
  <2> QED
    BY <2>1, <2>2, <2>3, BeginInv
<1>4. CASE CancelSimulation
  BY <1>4, CancelInv
<1> QED
  BY <1>1, <1>2, <1>3, <1>4 DEF Client, BystanderCall

-----------------------------------------------------------------------------
(* The invariant of a clean client over the steps of a run.                *)

(* A run of a clean client is the only one, in a model that is ready.      *)
LEMMA CleanRun ==
  ASSUME IInv, Clean, NEW w \in Runs, UnderWay(w)
  PROVE  /\ modelState = "simulation" /\ resultFile # "NULL" /\ ~Freed
         /\ w = Sync => ~cancelSim
         /\ \A u \in Runs \ {w} : pc[u] \in {"none", "returned", "discarded"}
         /\ Progress(w) /\ RowsReachTime
         /\ w # Sync => ReportFits(w)
<1>1. OneRun /\ ProgressInv /\ RowsReachTime /\ ReportsFit /\ LifeCycleInv /\ TypeOK
  BY DEF IInv
<1>2. \A u \in Runs \ {w} : ~UnderWay(u)
  BY <1>1 DEF OneRun
<1>3. \A u \in Runs \ {w} : pc[u] \in {"none", "returned", "discarded"}
  BY <1>1, <1>2 DEF UnderWay, TypeOK, Places
<1>4. ~Freed
  BY <1>1 DEF OneRun, LifeCycleInv, Freed
<1> QED
  BY <1>1, <1>3, <1>4 DEF OneRun, ProgressInv, ReportsFit

LEMMA StepMoves ==
  ASSUME TypeOK, NEW w \in Runs, StepUntil(w)
  PROVE  /\ UnderWay(w)
         /\ pc'[w] \in Places
         /\ \A u \in Runs \ {w} :
              pc'[u] = pc[u] /\ reports'[u] = reports[u] /\ tNext'[u] = tNext[u]
<1> USE DEF TypeOK, UnderWay, RunStep, Go, fmus, run, Places
<1>1. CASE Loop(w)
  BY <1>1 DEF Loop
<1>2. CASE StepComponents(w)
  BY <1>2 DEF StepComponents
<1>3. CASE EmitStepped(w) \/ EmitUpdated(w)
  BY <1>3 DEF EmitStepped, EmitUpdated
<1>4. CASE Report(w)
  BY <1>4 DEF Report
<1>5. CASE Discard(w)
  BY <1>5 DEF Discard
<1>6. CASE Continue(w)
  BY <1>6 DEF Continue
<1> QED
  BY <1>1, <1>2, <1>3, <1>4, <1>5, <1>6 DEF StepUntil

(* What is left to show of a step: the run itself, the rows, and that      *)
(* nothing has gone wrong.                                                 *)
LEMMA StepInv ==
  ASSUME IInv, NEW w \in Runs, StepUntil(w),
         Clean => /\ Progress(w)' /\ (w # Sync => ReportFits(w)')
                  /\ RowsReachTime' /\ RowsFit'
                  /\ late' <= 1 /\ fault' = "none"
  PROVE  IInv'
<1>1. TypeOK' /\ LifeCycleInv'
  BY StepLife DEF IInv
<1>2. RunFrame /\ Clean' = Clean
  BY StepFrame DEF RunFrame, Clean
<1>3. CASE ~Clean
  BY <1>1, <1>2, <1>3 DEF IInv, ReportsFit, RowsFit, CancelIsPrompt, NoFault
<1>4. CASE Clean
  <2>1. /\ UnderWay(w) /\ pc'[w] \in Places
        /\ \A u \in Runs \ {w} :
             pc'[u] = pc[u] /\ reports'[u] = reports[u] /\ tNext'[u] = tNext[u]
    BY StepMoves DEF IInv
  <2>2. /\ modelState = "simulation" /\ resultFile # "NULL"
        /\ w = Sync => ~cancelSim
        /\ \A u \in Runs \ {w} : pc[u] \in {"none", "returned", "discarded"}
    BY <1>4, <2>1, CleanRun
  <2>3. OneRun'
    BY <1>2, <2>1, <2>2 DEF OneRun, UnderWay, RunFrame
  <2>4. ProgressInv'
    <3> SUFFICES ASSUME NEW u \in Runs \ {w} PROVE Progress(u)'
      BY <1>4 DEF ProgressInv
    <3>1. pc'[u] \in {"none", "returned", "discarded"} /\ pc'[u] = pc[u] /\ reports'[u] = reports[u]
      BY <2>1, <2>2
    <3>2. Progress(u)
      BY <1>4 DEF IInv, ProgressInv
    <3> QED
      BY <3>1, <3>2 DEF Progress
  <2>5. ReportsFit'
    <3> SUFFICES ASSUME NEW u \in Runs \ {Sync, w} PROVE ReportFits(u)'
      BY <1>4 DEF ReportsFit
    <3>1. pc'[u] = pc[u] /\ reports'[u] = reports[u] /\ setup' = setup
      BY <1>2, <2>1 DEF RunFrame
    <3>2. ReportFits(u)
      BY <1>4 DEF IInv, ReportsFit
    <3> QED
      BY <3>1, <3>2 DEF ReportFits, NextPoint
  <2>6. CancelIsPrompt' /\ NoFault'
    BY <1>4 DEF CancelIsPrompt, NoFault
  <2> QED
    BY <1>1, <1>4, <2>3, <2>4, <2>5, <2>6 DEF IInv
<1> QED
  BY <1>3, <1>4

(* The rows and the components stay as they are, and so do the places at   *)
(* which RowsFit looks at them.                                            *)
LEMMA SameRows ==
  ASSUME IInv, Clean, NEW w \in Runs, UnderWay(w), pc[w] # "emitting", pc'[w] # "emitting",
         UNCHANGED <<content, time, setup, modelState, resultFile>>,
         \A u \in Runs \ {w} : pc'[u] = pc[u],
         pc'[w] \notin {"emitted", "reported"}
           \/ (pc[w] \in {"emitted", "reported"} /\ at' = at)
  PROVE  RowsReachTime' /\ RowsFit'
<1>1. \A u \in Runs \ {w} : /\ pc[u] \notin {"emitting", "emitted", "reported"}
                             /\ pc'[u] \notin {"emitting", "emitted", "reported"}
  BY CleanRun
<1>2. RowsFit /\ RowsReachTime
  BY DEF IInv
<1> QED
  BY <1>1, <1>2, UnchangedRows

(* The loop test: the run goes on to the next point, or has told the stop  *)
(* time.                                                                   *)
LEMMA LoopInv ==
  ASSUME IInv, NEW w \in Runs, Loop(w)
  PROVE  IInv'
<1>1. /\ TypeOK /\ pc[w] = "looping" /\ fault = "none" /\ UnderWay(w)
      /\ UNCHANGED <<time, at, reports, content, fault, late, setup, modelState, resultFile>>
  BY DEF Loop, RunStep, fmus, UnderWay, client, IInv
<1>2. /\ time < setup.stopTime =>
           /\ pc'[w] = "stepping"
           /\ tNext'[w] = Smaller(time + setup.stepSize, setup.stopTime)
      /\ ~(time < setup.stopTime) => pc'[w] = "returned"
  BY <1>1 DEF Loop, Go, TypeOK
<1>3. \A u \in Runs \ {w} : pc'[u] = pc[u]
  BY <1>1, StepMoves DEF StepUntil
<1>4. SUFFICES ASSUME Clean
      PROVE  /\ Progress(w)' /\ (w # Sync => ReportFits(w)')
             /\ RowsReachTime' /\ RowsFit'
             /\ late' <= 1 /\ fault' = "none"
  BY StepInv DEF StepUntil
<1>5. Progress(w) /\ (w # Sync => ReportFits(w))
  BY <1>1, <1>4, CleanRun
<1>6. pc'[w] \in {"stepping", "returned"}
  BY <1>2
<1>7. RowsReachTime' /\ RowsFit'
  <2>1. pc'[w] \notin {"emitting", "emitted", "reported"}
    BY <1>6
  <2> QED
    BY <1>1, <1>3, <1>4, <2>1, SameRows
<1>8. Progress(w)'
  <2>1. pc'[w] = "stepping" => NextPoint(time, tNext[w])'
    BY <1>1, <1>2 DEF NextPoint
  <2> QED
    BY <1>1, <1>5, <1>6, <2>1 DEF Progress, Reported
<1>9. w # Sync => ReportFits(w)'
  <2>1. pc'[w] = "returned" /\ reports[w] # << >> => Last(reports[w]) = <<setup.stopTime, "ok">>
    <3>1. time \in Int /\ setup.stopTime \in Int
      BY <1>1, ComponentsAreASequence DEF TypeOK
    <3>2. reports[w] # << >> => Last(reports[w]) = <<time, "ok">> /\ time <= setup.stopTime
      BY <1>1, <1>5 DEF Progress, Reported
    <3>3. pc'[w] = "returned" => ~(time < setup.stopTime)
      BY <1>2
    <3>4. pc'[w] = "returned" /\ reports[w] # << >> => time = setup.stopTime
      BY <3>1, <3>2, <3>3
    <3> QED
      BY <3>2, <3>4
  <2> QED
    BY <1>1, <1>5, <1>6, <2>1 DEF ReportFits, NextPoint
<1>10. late' <= 1
  BY <1>1, <1>4 DEF IInv, CancelIsPrompt
<1> QED
  BY <1>1, <1>7, <1>8, <1>9, <1>10

(* The components reach the end of the step; none of them is freed.        *)
LEMMA StepComponentsInv ==
  ASSUME IInv, NEW w \in Runs, StepComponents(w)
  PROVE  IInv'
<1>1. /\ TypeOK /\ pc[w] = "stepping" /\ fault = "none" /\ UnderWay(w)
      /\ pc'[w] = "stepped" /\ at' = tNext[w]
      /\ fault' = IF at < tNext[w] /\ Freed THEN "fmu" ELSE fault
      /\ UNCHANGED <<time, tNext, reports, content, late, setup, modelState, resultFile>>
  BY DEF StepComponents, RunStep, Go, UnderWay, client, IInv, TypeOK
<1>2. \A u \in Runs \ {w} : pc'[u] = pc[u]
  BY <1>1, StepMoves DEF StepUntil
<1>3. SUFFICES ASSUME Clean
      PROVE  /\ Progress(w)' /\ (w # Sync => ReportFits(w)')
             /\ RowsReachTime' /\ RowsFit'
             /\ late' <= 1 /\ fault' = "none"
  BY StepInv DEF StepUntil
<1>4. Progress(w) /\ (w # Sync => ReportFits(w)) /\ ~Freed
  BY <1>1, <1>3, CleanRun
<1>5. RowsReachTime' /\ RowsFit'
  BY <1>1, <1>2, <1>3, SameRows
<1>6. Progress(w)'
  BY <1>1, <1>4 DEF Progress, Reported, NextPoint
<1>7. w # Sync => ReportFits(w)'
  BY <1>1, <1>4 DEF ReportFits, NextPoint
<1>8. late' <= 1
  BY <1>1, <1>3 DEF IInv, CancelIsPrompt
<1> QED
  BY <1>1, <1>4, <1>5, <1>6, <1>7, <1>8

(* A run that is not cancelled goes on. *)
LEMMA ContinueInv ==
  ASSUME IInv, NEW w \in Runs, Continue(w)
  PROVE  IInv'
<1>1. /\ TypeOK /\ pc[w] = "reported" /\ fault = "none" /\ UnderWay(w) /\ ~cancelSim
      /\ pc'[w] = "looping"
      /\ UNCHANGED <<time, at, tNext, reports, content, late, fault, setup, modelState, resultFile>>
  BY DEF Continue, RunStep, Go, fmus, UnderWay, client, IInv, TypeOK
<1>2. \A u \in Runs \ {w} : pc'[u] = pc[u]
  BY <1>1, StepMoves DEF StepUntil
<1>3. SUFFICES ASSUME Clean
      PROVE  /\ Progress(w)' /\ (w # Sync => ReportFits(w)')
             /\ RowsReachTime' /\ RowsFit'
             /\ late' <= 1 /\ fault' = "none"
  BY StepInv DEF StepUntil
<1>4. Progress(w) /\ (w # Sync => ReportFits(w))
  BY <1>1, <1>3, CleanRun
<1>5. RowsReachTime' /\ RowsFit'
  BY <1>1, <1>2, <1>3, SameRows
<1>6. late' <= 0 /\ late' <= 1
  <2>1. late = NotAsked
    BY <1>1 DEF IInv, LifeCycleInv
  <2> QED
    BY <1>1, <2>1 DEF NotAsked
<1>7. Progress(w)'
  BY <1>1, <1>4, <1>6 DEF Progress, Reported
<1>8. w # Sync => ReportFits(w)'
  BY <1>1, <1>4 DEF ReportFits, NextPoint
<1> QED
  BY <1>1, <1>5, <1>6, <1>7, <1>8

(* A step of a clean run's emit: the row after the last one is asked for.  *)
LEMMA EmitRows ==
  ASSUME IInv, TypeOK', Clean, NEW w \in Runs, EmitStepped(w) \/ EmitUpdated(w),
         NEW e \in Rows, NEW y \in Rows,
         Newest = e, y = After(e), Earlier(e, y), EmitTo(rows, unread, y), UNCHANGED since
  PROVE  /\ Fits(rows', unread', since', y)
         /\ Asked' = Asked \cup {y}
<1>1. /\ rows \in Seq(Rows) /\ unread \in SUBSET Rows /\ since \in Rows
      /\ misuse = {} /\ UnderWay(w) /\ RowsFit
  BY StepMoves DEF IInv, TypeOK, Clean, StepUntil
<1>2. Fits(rows, unread, since, e)
  BY <1>1, CleanRun, RowsOfModel
<1>3. \/ rows' = Append(rows, y) /\ unread' = unread
      \/ rows' = rows /\ unread' = unread \cup {y}
  BY <1>1 DEF EmitTo
<1>4. /\ Fits(rows', unread', since, y)
      /\ ToSet(rows') \cup unread' = ToSet(rows) \cup unread \cup {y}
  <2>1. /\ Fits(Append(rows, y), unread, since, y) /\ Fits(rows, unread \cup {y}, since, y)
        /\ ToSet(Append(rows, y)) = ToSet(rows) \cup {y}
    BY <1>1, <1>2, RowFollows
  <2> QED
    BY <1>3, <2>1
<1> QED
  BY <1>4 DEF Asked

(* The row before the update of the inputs is that of the new time.        *)
LEMMA EmitSteppedInv ==
  ASSUME IInv, NEW w \in Runs, EmitStepped(w)
  PROVE  IInv'
<1>1. /\ TypeOK /\ pc[w] = "stepped" /\ fault = "none" /\ UnderWay(w)
      /\ pc'[w] = "emitting"
      /\ time' = tNext[w]
      /\ EmitTo(rows, unread, <<tNext[w], "before">>)
      /\ fault' = EmitFault
      /\ late' = IF late = NotAsked THEN late ELSE late + 1
      /\ UNCHANGED <<at, tNext, reports, since, setup, modelState, resultFile, misuse>>
  BY DEF EmitStepped, RunStep, Go, fmus, UnderWay, client, IInv, TypeOK
<1>2. \A u \in Runs \ {w} : pc'[u] = pc[u]
  BY <1>1, StepMoves DEF StepUntil
<1>3. SUFFICES ASSUME Clean
      PROVE  /\ Progress(w)' /\ (w # Sync => ReportFits(w)')
             /\ RowsReachTime' /\ RowsFit'
             /\ late' <= 1 /\ fault' = "none"
  BY StepInv DEF StepUntil
<1>4. /\ Progress(w) /\ (w # Sync => ReportFits(w)) /\ RowsReachTime
      /\ ~Freed /\ resultFile # "NULL" /\ modelState = "simulation"
      /\ \A u \in Runs \ {w} : pc[u] \in {"none", "returned", "discarded"}
  BY <1>1, <1>3, CleanRun
<1>5. NextPoint(time, tNext[w]) /\ at = tNext[w] /\ late <= 0
  BY <1>1, <1>4 DEF Progress
<1>6. /\ time \in Int /\ tNext[w] \in Int /\ time < tNext[w]
      /\ tNext[w] <= setup.stopTime
  BY <1>1, <1>5, NextTimeType DEF TypeOK, NextPoint
<1>7. RowsReachTime' /\ RowsFit'
  <2> DEFINE e == <<time, "after">>
             y == <<tNext[w], "before">>
  <2>1. e \in Rows /\ y \in Rows
    BY <1>6 DEF Rows
  <2>2. Newest = e /\ Newest' = y
    BY <1>1, <1>2, <1>4 DEF Newest
  <2>3. y = After(e) /\ Earlier(e, y)
    BY <1>5, <1>6 DEF After, Earlier, NextPoint
  <2>4. TypeOK'
    BY StepLife DEF IInv, StepUntil
  <2> HIDE DEF e
  <2>5. Fits(rows', unread', since', y) /\ Asked' = Asked \cup {y}
    BY <1>1, <1>3, <2>1, <2>2, <2>3, <2>4, EmitRows
  <2>6. \A u \in Runs : pc'[u] \notin {"emitted", "reported"}
    BY <1>1, <1>2, <1>4
  <2>7. Clean' /\ modelState' = "simulation" /\ resultFile' # "NULL"
    BY <1>1, <1>3, <1>4 DEF Clean
  <2> QED
    BY <1>1, <2>2, <2>5, <2>6, <2>7, RowsOfModelNext
<1>10. Progress(w)'
  <2>2. reports[w] # << >> => Last(reports[w]) = <<time, "ok">>
    BY <1>1, <1>4 DEF Progress, Reported
  <2>3. pc[w] = "none" \/ w = Sync => reports[w] = << >>
    BY <1>4 DEF Progress
  <2>4. reports[w] # << >> => Last(reports[w])[2] = "ok" /\ NextPoint(Last(reports[w])[1], tNext[w])
    BY <1>5, <2>2
  <2> QED
    BY <1>1, <1>5, <1>6, <2>3, <2>4 DEF Progress, NextPoint
<1>11. w # Sync => ReportFits(w)'
  BY <1>1, <1>4 DEF ReportFits, NextPoint
<1>12. late' <= 1
  BY <1>1, <1>5, LateOfEmit
<1>13. fault' = "none"
  BY <1>1, <1>4 DEF EmitFault
<1> QED
  BY <1>7, <1>10, <1>11, <1>12, <1>13

(* The row after the update is the second one of the time.                 *)
LEMMA EmitUpdatedInv ==
  ASSUME IInv, NEW w \in Runs, EmitUpdated(w)
  PROVE  IInv'
<1>1. /\ TypeOK /\ pc[w] = "emitting" /\ fault = "none" /\ UnderWay(w)
      /\ pc'[w] = "emitted"
      /\ EmitTo(rows, unread, <<time, "after">>)
      /\ fault' = EmitFault
      /\ UNCHANGED <<time, at, tNext, reports, since, late, setup, modelState, resultFile, misuse>>
  BY DEF EmitUpdated, RunStep, Go, fmus, UnderWay, client, IInv, TypeOK
<1>2. \A u \in Runs \ {w} : pc'[u] = pc[u]
  BY <1>1, StepMoves DEF StepUntil
<1>3. SUFFICES ASSUME Clean
      PROVE  /\ Progress(w)' /\ (w # Sync => ReportFits(w)')
             /\ RowsReachTime' /\ RowsFit'
             /\ late' <= 1 /\ fault' = "none"
  BY StepInv DEF StepUntil
<1>4. /\ Progress(w) /\ (w # Sync => ReportFits(w)) /\ RowsReachTime
      /\ ~Freed /\ resultFile # "NULL" /\ modelState = "simulation"
      /\ \A u \in Runs \ {w} : pc[u] \in {"none", "returned", "discarded"}
  BY <1>1, <1>3, CleanRun
<1>5. at = time
  BY <1>1, <1>4 DEF Progress
<1>6. RowsReachTime' /\ RowsFit'
  <2> DEFINE e == <<time, "before">>
             y == <<time, "after">>
  <2>1. e \in Rows /\ y \in Rows
    BY <1>1 DEF Rows, TypeOK
  <2>2. Newest = e /\ Newest' = y
    BY <1>1, <1>2, <1>4 DEF Newest
  <2>3. y = After(e) /\ Earlier(e, y)
    BY DEF After, Earlier
  <2>4. TypeOK'
    BY StepLife DEF IInv, StepUntil
  <2>5. e \in Asked
    BY <1>1, <1>4, <2>2 DEF RowsReachTime
  <2> HIDE DEF e, y
  <2>6. Fits(rows', unread', since', y) /\ Asked' = Asked \cup {y}
    BY <1>1, <1>3, <2>1, <2>2, <2>3, <2>4, EmitRows DEF y
  <2>7. \A u \in Runs : pc'[u] # "emitting"
    BY <1>1, <1>2, <1>4
  <2>8. at' = time' /\ {<<time', "before">>, <<time', "after">>} \subseteq Asked'
    BY <1>1, <1>5, <2>5, <2>6 DEF e, y
  <2>9. Clean' /\ modelState' = "simulation" /\ resultFile' # "NULL"
    BY <1>1, <1>3, <1>4 DEF Clean
  <2> QED
    BY <1>1, <2>2, <2>6, <2>7, <2>8, <2>9, RowsOfModelNext
<1>7. Progress(w)'
  BY <1>1, <1>4 DEF Progress, NextPoint
<1>8. w # Sync => ReportFits(w)'
  BY <1>1, <1>4 DEF ReportFits, NextPoint
<1>9. late' <= 1
  BY <1>1, <1>3 DEF IInv, CancelIsPrompt
<1>10. fault' = "none"
  BY <1>1, <1>4 DEF EmitFault
<1> QED
  BY <1>6, <1>7, <1>8, <1>9, <1>10

(* What a callback may be told after r: the next point, or that the run is *)
(* discarded at the point it was told last.                                *)
Told == Int \X {"ok", "discard"}
Neighbours(r) ==
  \A n \in 1..(Len(r) - 1) :
    /\ r[n][2] = "ok"
    /\ IF r[n + 1][2] = "ok" THEN NextPoint(r[n][1], r[n + 1][1])
                             ELSE r[n + 1][1] = r[n][1]
Follows(r, e) ==
  r # << >> => /\ Last(r)[2] = "ok"
               /\ IF e[2] = "ok" THEN NextPoint(Last(r)[1], e[1]) ELSE e[1] = Last(r)[1]

(* The end of a sequence that one element is appended to. *)
LEMMA AppendedOne ==
  ASSUME NEW S, NEW r \in Seq(S), NEW e \in S
  PROVE  LET q == Append(r, e)
         IN  /\ Len(r) \in Nat /\ Len(q) = Len(r) + 1 /\ q # << >>
             /\ \A n \in 1..Len(r) : q[n] = r[n]
             /\ q[Len(r) + 1] = e /\ Last(q) = e
             /\ r # << >> => Len(r) > 0 /\ Last(r) = r[Len(r)]
<1> DEFINE q == Append(r, e)
<1>1. Len(r) \in Nat
  BY LenProperties
<1>2. Len(q) = Len(r) + 1 /\ q # << >>
  BY AppendProperties
<1>3. (\A n \in 1..Len(r) : q[n] = r[n]) /\ q[Len(r) + 1] = e
  BY <1>1, AppendProperties
<1>4. Last(q) = e
  BY <1>2, <1>3 DEF Last
<1>5. r # << >> => Len(r) > 0 /\ Last(r) = r[Len(r)]
  BY <1>1, EmptySeq DEF Last
<1> QED
  BY <1>1, <1>2, <1>3, <1>4, <1>5

(* A report that follows the last one leaves nothing out. *)
LEMMA ReportsGrow ==
  ASSUME NEW r \in Seq(Told), NEW e \in Told, Neighbours(r), Follows(r, e)
  PROVE  Neighbours(Append(r, e))
<1> DEFINE q == Append(r, e)
<1> HIDE DEF q
<1>1. /\ Len(r) \in Nat /\ Len(q) = Len(r) + 1
      /\ \A m \in 1..Len(r) : q[m] = r[m]
      /\ q[Len(r) + 1] = e
      /\ r # << >> => Len(r) > 0 /\ Last(r) = r[Len(r)]
  BY AppendedOne DEF q
<1> SUFFICES ASSUME NEW n \in 1..(Len(q) - 1)
             PROVE  /\ q[n][2] = "ok"
                    /\ IF q[n + 1][2] = "ok" THEN NextPoint(q[n][1], q[n + 1][1])
                                             ELSE q[n + 1][1] = q[n][1]
  BY DEF q, Neighbours
<1>2. n \in 1..(Len(r) - 1) \/ (n = Len(r) /\ Len(r) > 0)
  BY <1>1
<1>3. CASE n \in 1..(Len(r) - 1)
  <2>1. n \in 1..Len(r) /\ n + 1 \in 1..Len(r)
    BY <1>1, <1>3
  <2>2. q[n] = r[n] /\ q[n + 1] = r[n + 1]
    BY <1>1, <2>1
  <2> QED
    BY <1>3, <2>2 DEF Neighbours
<1>4. CASE n = Len(r) /\ Len(r) > 0
  <2>1. r # << >>
    BY <1>4
  <2>2. q[n] = Last(r) /\ q[n + 1] = e
    BY <1>1, <1>4, <2>1
  <2> QED
    BY <2>1, <2>2 DEF Follows
<1> QED
  BY <1>2, <1>3, <1>4

(* The callback is told the time that the components have reached. *)
LEMMA ReportInv ==
  ASSUME IInv, NEW w \in Runs, Report(w)
  PROVE  IInv'
<1>1. /\ TypeOK /\ pc[w] = "emitted" /\ fault = "none" /\ UnderWay(w)
      /\ pc'[w] = "reported"
      /\ reports'[w] = IF w = Sync THEN reports[w] ELSE Append(reports[w], <<time, "ok">>)
      /\ UNCHANGED <<time, at, tNext, content, late, fault, setup, modelState, resultFile>>
  BY DEF Report, RunStep, Go, fmus, UnderWay, client, IInv, TypeOK
<1>2. \A u \in Runs \ {w} : pc'[u] = pc[u]
  BY <1>1, StepMoves DEF StepUntil
<1>3. SUFFICES ASSUME Clean
      PROVE  /\ Progress(w)' /\ (w # Sync => ReportFits(w)')
             /\ RowsReachTime' /\ RowsFit'
             /\ late' <= 1 /\ fault' = "none"
  BY StepInv DEF StepUntil
<1>4. Progress(w) /\ (w # Sync => ReportFits(w))
  BY <1>1, <1>3, CleanRun
<1>5. RowsReachTime' /\ RowsFit'
  BY <1>1, <1>2, <1>3, SameRows
<1>6. late' <= 1
  BY <1>1, <1>3 DEF IInv, CancelIsPrompt
<1>7. reports[w] \in Seq(Told) /\ <<time, "ok">> \in Told
  BY <1>1 DEF TypeOK, Told
<1>8. w # Sync => /\ reports'[w] # << >>
                  /\ Last(reports'[w]) = <<time, "ok">>
  <2> DEFINE q == Append(reports[w], <<time, "ok">>)
  <2>1. q # << >> /\ Last(q) = <<time, "ok">>
    BY <1>7, AppendedOne
  <2> QED
    BY <1>1, <2>1
<1>9. w = Sync => reports'[w] = << >>
  BY <1>1, <1>4 DEF Progress
<1>10. time <= setup.stopTime
  BY <1>1, <1>4 DEF Progress
<1>11. Progress(w)'
  BY <1>1, <1>8, <1>9, <1>10 DEF Progress, Reported
<1>12. ASSUME w # Sync PROVE ReportFits(w)'
  <2>1. Neighbours(reports[w])
    BY <1>4, <1>12 DEF ReportFits, Neighbours
  <2>2. Follows(reports[w], <<time, "ok">>)
    BY <1>1, <1>4 DEF Progress, Follows
  <2>3. Neighbours(reports'[w])
    BY <1>1, <1>7, <1>12, <2>1, <2>2, ReportsGrow
  <2> QED
    BY <1>1, <1>8, <1>12, <2>3 DEF ReportFits, Neighbours, NextPoint
<1> QED
  BY <1>1, <1>5, <1>6, <1>11, <1>12

(* A cancelled run says so, at the time it has told last, and is over.     *)
LEMMA DiscardInv ==
  ASSUME IInv, NEW w \in Runs, Discard(w)
  PROVE  IInv'
<1>1. /\ TypeOK /\ pc[w] = "reported" /\ fault = "none" /\ UnderWay(w) /\ cancelSim
      /\ w # Sync =>
           /\ pc'[w] = "discarded"
           /\ reports'[w] = Append(reports[w], <<time, "discard">>)
           /\ fault' = fault
      /\ UNCHANGED <<time, at, content, late, setup, modelState, resultFile>>
  BY DEF Discard, RunStep, Go, fmus, run, UnderWay, client, IInv, TypeOK
<1>2. \A u \in Runs \ {w} : pc'[u] = pc[u]
  BY <1>1, StepMoves DEF StepUntil
<1>3. SUFFICES ASSUME Clean
      PROVE  /\ Progress(w)' /\ (w # Sync => ReportFits(w)')
             /\ RowsReachTime' /\ RowsFit'
             /\ late' <= 1 /\ fault' = "none"
  BY StepInv DEF StepUntil
<1>4. w # Sync /\ Progress(w) /\ ReportFits(w)
  BY <1>1, <1>3, CleanRun
<1>5. /\ pc'[w] = "discarded" /\ fault' = "none"
      /\ reports'[w] = Append(reports[w], <<time, "discard">>)
  BY <1>1, <1>4
<1>6. RowsReachTime' /\ RowsFit'
  <2>1. pc'[w] \notin {"emitting", "emitted", "reported"}
    BY <1>5
  <2> QED
    BY <1>1, <1>2, <1>3, <2>1, SameRows
<1>7. late' <= 1
  BY <1>1, <1>3 DEF IInv, CancelIsPrompt
<1>8. reports[w] \in Seq(Told) /\ <<time, "discard">> \in Told
  BY <1>1 DEF TypeOK, Told
<1>9. reports'[w] # << >> /\ Last(reports'[w]) = <<time, "discard">>
  BY <1>5, <1>8, AppendedOne
<1>10. Progress(w)'
  BY <1>4, <1>5 DEF Progress
<1>11. ReportFits(w)'
  <2>1. Neighbours(reports[w])
    BY <1>4 DEF ReportFits, Neighbours
  <2>2. Follows(reports[w], <<time, "discard">>)
    BY <1>1, <1>4 DEF Progress, Reported, Follows
  <2>3. Neighbours(reports'[w])
    BY <1>5, <1>8, <2>1, <2>2, ReportsGrow
  <2> QED
    BY <1>1, <1>5, <1>9, <2>3 DEF ReportFits, Neighbours, NextPoint
<1> QED
  BY <1>5, <1>6, <1>7, <1>10, <1>11

-----------------------------------------------------------------------------
(* Every step of the client and of every run keeps the invariant.          *)
LEMMA NextInv == IInv /\ [Next]_vars => IInv'
<1> SUFFICES ASSUME IInv, [Next]_vars PROVE IInv'
  OBVIOUS
<1>1. CASE Client
  BY <1>1, CallInv
<1>2. ASSUME NEW w \in Runs, StepUntil(w) PROVE IInv'
  BY <1>2, LoopInv, StepComponentsInv, EmitSteppedInv, EmitUpdatedInv, ReportInv, DiscardInv,
     ContinueInv
     DEF StepUntil
<1>3. CASE UNCHANGED vars
  <2> USE <1>3 DEF vars, content
  <2>1. TypeOK' = TypeOK
    BY DEF TypeOK, Components
  <2>2. LifeCycleInv' = LifeCycleInv
    BY DEF LifeCycleInv, Components
  <2>3. OneRun' = OneRun /\ Clean' = Clean
    BY DEF OneRun, UnderWay, Clean
  <2>8. Newest' = Newest /\ Asked' = Asked
    BY DEF Newest, Asked
  <2>9. RowsReachTime' = RowsReachTime
    BY <2>8 DEF RowsReachTime, NoneAfter
  <2>4. ProgressInv' = ProgressInv
    BY DEF ProgressInv, Progress, Reported, NextPoint
  <2>5. ReportsFit' = ReportsFit
    BY DEF ReportsFit, ReportFits, NextPoint, Clean
  <2>6. RowsFit' = RowsFit
    BY <2>8 DEF RowsFit, After, Clean
  <2>7. CancelIsPrompt' = CancelIsPrompt /\ NoFault' = NoFault
    BY DEF CancelIsPrompt, NoFault, Clean
  <2> QED
    BY <2>1, <2>2, <2>3, <2>4, <2>5, <2>6, <2>7, <2>9 DEF IInv
<1> QED
  BY <1>1, <1>2, <1>3 DEF Next, Over

(* The inductive invariant holds in every state of the model, whatever the *)
(* client calls while runs are under way.                                  *)
THEOREM Invariance == Spec => []IInv
<1>1. Init => IInv
  BY InitInv
<1>2. IInv /\ [Next]_vars => IInv'
  BY NextInv
<1> QED
  BY <1>1, <1>2, PTL DEF Spec

(* The variables keep their types, and a model in the simulation state has *)
(* only FMUs that can be stepped: Model::instantiate, initialize,          *)
(* terminate, setResultFile and the runs of SystemWC::stepUntil.           *)
THEOREM LifeCycle == Spec => [](TypeOK /\ LifeCycleInv)
<1>1. IInv => TypeOK /\ LifeCycleInv
  BY DEF IInv
<1> QED
  BY <1>1, Invariance, PTL

(* The callback of simulate_asynchronous is told every communication point *)
(* once and in order, to the stop time or to its cancellation.             *)
THEOREM ReportsAreComplete == Spec => []ReportsFit
<1>1. IInv => ReportsFit
  BY DEF IInv
<1> QED
  BY <1>1, Invariance, PTL

(* The result file has nothing twice and nothing out of order, and no gap  *)
(* but for the rows that an FMU refused to give; and both rows of a point  *)
(* have been asked for before the callback is told of it.                  *)
THEOREM RowsAreComplete == Spec => []RowsFit
<1>1. IInv => RowsFit
  BY DEF IInv
<1> QED
  BY <1>1, Invariance, PTL

(* A run ends at most one more step after cancelSimulation. *)
THEOREM CancellationIsPrompt == Spec => []CancelIsPrompt
<1>1. IInv => CancelIsPrompt
  BY DEF IInv
<1> QED
  BY <1>1, Invariance, PTL

(* A client that waits for its runs, and that nothing is refused to, meets *)
(* no freed FMU and no missing writer.                                     *)
THEOREM CleanClientIsSafe == Spec => []NoFault
<1>1. IInv => NoFault
  BY DEF IInv
<1> QED
  BY <1>1, Invariance, PTL
=============================================================================
