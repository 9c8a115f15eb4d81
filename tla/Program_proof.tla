---------------------------- MODULE Program_proof ---------------------------
(***************************************************************************)
(* The safety of the program around the algorithms, in three parts: the    *)
(* roots one function registers (Protection), the runtime the threads      *)
(* share (SylvanRuntime), and main with the modules it expands             *)
(* (CommandLine).                                                          *)
(*                                                                         *)
(* A function that keeps to the calling convention of docs/dd_usage.md,    *)
(* but for the results it hands on at once, never uses a reclaimed node    *)
(* other than those, whatever its body and whenever the collector runs.    *)
(* Slots cannot protect a result before it reaches one, so the invariant   *)
(* also says that the result of the last step is alive as long as no call  *)
(* has been entered since.                                                 *)
(*                                                                         *)
(* The runtime is safe for any number of threads, jobs and slots.  A step  *)
(* moves one thread; what it must not disturb is stated per thread, as     *)
(* facts about the place where the thread stands.                          *)
(*                                                                         *)
(* For all models and all arguments a renamed module expands to what it    *)
(* stands for, and what is answered is what was asked.  The heart of the   *)
(* first is RenamedReads: a list of pairs without conflicts is one         *)
(* simultaneous substitution, under which every part of a copy evaluates   *)
(* as the part of the base it is made from.                                *)
(***************************************************************************)
EXTENDS Protection, SylvanRuntime, CommandLine, WellFoundedInduction, TLAPS

(* Every binding is older than the next step. *)
Past == \A n \in Name : node[n][2] < at

(* No collection can have come since the last step. *)
LastResultAlive ==
    ~ inside => \A n \in Name : node[n][2] = at - 1 => node[n] \in alive

(* Whatever has run, the registered slots are those the body shows.        *)
SlotsAsWritten == \A n \in Name : n \in rooted <=> IsSlot(Body[fn], n, at)

(* The result of the step before is bound to its name.                     *)
LastResultBound ==
    \A n \in Name : IsResult(Body[fn], n, at - 1) => node[n][2] = at - 1

IInv ==
    /\ TypeOK /\ Past /\ SlotsAsWritten /\ LastResultBound
    /\ RootsIntact /\ ArgumentsIntact /\ LastResultAlive

(* What the convention gives a step when the function comes to it.         *)
StepConvention ==
    Running =>
        /\ step.kind \in {"let", "protect"} => step.reads \ Fresh[fn] \subseteq rooted
        /\ step.kind # "drop" =>
               \A n \in step.reads : n \in rooted \/ node[n][2] = at - 1

(* The steps of a body are steps. *)
LEMMA StepType ==
    ASSUME TypeOK, Running
    PROVE  /\ Body[fn].steps \in Seq(Step)
           /\ step \in Step
           /\ at \in Nat
           /\ at + 1 \in 1 .. Len(Body[fn].steps) + 1
  BY BodyShape DEF TypeOK, Running, step

LEMMA StepKeepsConvention ==
    ASSUME TypeOK, SlotsAsWritten, LastResultBound, Convention
    PROVE  StepConvention
  <1> SUFFICES ASSUME Running PROVE StepConvention
    BY DEF StepConvention
  <1>1. step \in Step /\ step.reads \subseteq Name
    BY StepType DEF Step
  <1>2. at \in 1 .. Len(Body[fn].steps)
    BY DEF Running, TypeOK
  <1>3. /\ step.kind \in {"let", "protect"} =>
             \A n \in step.reads \ Fresh[fn] : IsSlot(Body[fn], n, at)
        /\ step.kind # "drop" =>
             \A n \in step.reads : IsSlot(Body[fn], n, at) \/ IsResult(Body[fn], n, at - 1)
    BY <1>2 DEF Convention, step
  <1> QED
    BY <1>1, <1>3 DEF SlotsAsWritten, LastResultBound, StepConvention

(* What a step uses is there when the function comes to it.                *)
LEMMA StepReadsAlive ==
    ASSUME TypeOK, RootsIntact, LastResultAlive, StepConvention, Running, ~ inside,
           step.kind # "drop"
    PROVE  \A n \in step.reads : node[n] \in alive
  BY StepType DEF Step, StepConvention, RootsIntact, LastResultAlive

(* Between calls that is all that is asked of the arguments.               *)
LEMMA ReadyForStep ==
    /\ TypeOK /\ SlotsAsWritten /\ LastResultBound /\ Convention
    /\ RootsIntact /\ LastResultAlive /\ ~ inside
    => ArgumentsIntact
  <1> SUFFICES ASSUME TypeOK, SlotsAsWritten, LastResultBound, Convention,
                      RootsIntact, LastResultAlive, ~ inside
               PROVE  ArgumentsIntact
    OBVIOUS
  <1>1. StepConvention
    BY StepKeepsConvention
  <1> QED
    BY <1>1, StepReadsAlive DEF ArgumentsIntact

(* How the slots of a body change with a step.                             *)
LEMMA SlotAfter ==
    ASSUME NEW body \in [owned : SUBSET Name, steps : Seq(Step)], NEW n, NEW j \in Nat, j # 0
    PROVE  IsSlot(body, n, j + 1) <=>
             \/ body.steps[j].kind \in {"protect", "store"} /\ body.steps[j].to = n
             \/ /\ IsSlot(body, n, j)
                /\ body.steps[j].kind = "drop" => n \notin body.steps[j].reads
  <1> DEFINE opens(m) == \/ m = 0 /\ n \in body.owned
                         \/ m # 0 /\ body.steps[m].kind \in {"protect", "store"} /\ body.steps[m].to = n
             keeps(l) == body.steps[l].kind = "drop" => n \notin body.steps[l].reads
             slot(i) == \E m \in 0 .. i - 1 : opens(m) /\ \A l \in m + 1 .. i - 1 : keeps(l)
  <1>1. IsSlot(body, n, j) <=> slot(j)
    BY DEF IsSlot
  <1>2. IsSlot(body, n, j + 1) <=> slot(j + 1)
    BY DEF IsSlot
  <1>3. opens(j) => body.steps[j].kind \in {"protect", "store"} /\ body.steps[j].to = n
    OBVIOUS
  <1>4. body.steps[j].kind \in {"protect", "store"} /\ body.steps[j].to = n => opens(j)
    OBVIOUS
  <1>5. slot(j + 1) <=> opens(j) \/ (slot(j) /\ keeps(j))
    <2> HIDE DEF opens, keeps
    <2>1. (j + 1) - 1 = j /\ j \in 0 .. j /\ j + 1 .. j = {}
      OBVIOUS
    <2>2. ASSUME opens(j) PROVE slot(j + 1)
      BY <2>1, <2>2
    <2>3. ASSUME slot(j), keeps(j) PROVE slot(j + 1)
      <3>1. PICK m \in 0 .. j - 1 : opens(m) /\ \A l \in m + 1 .. j - 1 : keeps(l)
        BY <2>3
      <3>2. m \in 0 .. j /\ \A l \in m + 1 .. j : l \in m + 1 .. j - 1 \/ l = j
        OBVIOUS
      <3>3. \A l \in m + 1 .. j : keeps(l)
        BY <2>3, <3>1, <3>2
      <3> QED
        BY <2>1, <3>1, <3>2, <3>3
    <2>4. ASSUME slot(j + 1), ~ opens(j) PROVE slot(j) /\ keeps(j)
      <3>1. PICK m \in 0 .. j : opens(m) /\ \A l \in m + 1 .. j : keeps(l)
        BY <2>1, <2>4
      <3>2. m # j
        BY <2>4, <3>1
      <3>3. m \in 0 .. j - 1 /\ j \in m + 1 .. j /\ \A l \in m + 1 .. j - 1 : l \in m + 1 .. j
        BY <3>2
      <3> QED
        BY <3>1, <3>3
    <2> QED
      BY <2>2, <2>3, <2>4
  <1> QED
    BY <1>1, <1>2, <1>3, <1>4, <1>5

(* At the start every name holds a fresh node. *)
LEMMA InitHolds == Init => IInv
  <1> SUFFICES ASSUME Init PROVE IInv
    OBVIOUS
  <1>1. /\ Body[fn].owned \subseteq Name
        /\ Len(Body[fn].steps) \in Nat
    BY BodyShape DEF Init
  <1>2. /\ node \in [Name -> Node]
        /\ alive \in SUBSET Node
        /\ \A n \in Name : node[n] = <<n, 0>> /\ node[n] \in alive
    BY DEF Init, Node
  <1>3. TypeOK
    <2>1. at \in 1 .. Len(Body[fn].steps) + 1
      BY <1>1 DEF Init
    <2>2. rooted \in SUBSET Name
      BY <1>1 DEF Init
    <2> QED
      BY <1>2, <2>1, <2>2 DEF Init, TypeOK
  <1>4. Past
    BY <1>2 DEF Init, Past
  <1>5. RootsIntact
    BY <1>1, <1>2 DEF Init, RootsIntact
  <1>6. SlotsAsWritten
    <2>1. at = 1 /\ rooted = Body[fn].owned
      BY DEF Init
    <2>2. 0 .. 1 - 1 = {0} /\ 0 + 1 .. 1 - 1 = {}
      OBVIOUS
    <2> QED
      BY <2>1, <2>2 DEF SlotsAsWritten, IsSlot
  <1>7. LastResultBound
    BY DEF Init, LastResultBound, IsResult
  <1>8. ArgumentsIntact
    BY <1>2, <1>3, StepType DEF Init, ArgumentsIntact, Step
  <1> QED
    BY <1>2, <1>3, <1>4, <1>5, <1>6, <1>7, <1>8 DEF Init, IInv, LastResultAlive

(* The type invariant is inductive by itself. *)
LEMMA TypeKept == TypeOK /\ [Next]_vars => TypeOK'
  <1> SUFFICES ASSUME TypeOK, [Next]_vars PROVE TypeOK'
    OBVIOUS
  <1>1. CASE Enter
    BY <1>1 DEF Enter, TypeOK, Running, step
  <1>2. CASE Collect
    BY <1>2 DEF Collect, TypeOK, Running, step
  <1>3. CASE Return
    <2>1. Running /\ step \in Step /\ at \in Nat /\ at + 1 \in 1 .. Len(Body[fn].steps) + 1
      BY <1>3, StepType DEF Return, TypeOK
    <2>2. step.to \in Name /\ <<step.to, at>> \in Node
      BY <2>1 DEF Step, Node
    <2> QED
      BY <1>3, <2>1, <2>2 DEF Return, TypeOK
  <1>4. CASE StoreNode
    <2>1. /\ step \in Step
          /\ at + 1 \in 1 .. Len(Body[fn].steps) + 1
          /\ ~ inside
      BY <1>4, StepType DEF StoreNode, TypeOK
    <2>2. step.to \in Name /\ step.reads \subseteq Name
      BY <2>1 DEF Step
    <2> QED
      BY <1>4, <2>1, <2>2 DEF StoreNode, TypeOK
  <1>5. CASE DropSlots
    <2>1. /\ at + 1 \in 1 .. Len(Body[fn].steps) + 1
          /\ ~ inside
      BY <1>5, StepType DEF DropSlots, TypeOK
    <2> QED
      BY <1>5, <2>1 DEF DropSlots, TypeOK
  <1>6. CASE ReadNodes
    <2>1. at + 1 \in 1 .. Len(Body[fn].steps) + 1 /\ ~ inside
      BY <1>6, StepType DEF ReadNodes, TypeOK
    <2> QED
      BY <1>6, <2>1 DEF ReadNodes, TypeOK
  <1>7. CASE UNCHANGED vars
    BY <1>7 DEF vars, TypeOK, Running, step
  <1> QED
    BY <1>1, <1>2, <1>3, <1>4, <1>5, <1>6, <1>7 DEF Next

(* The slots and the last result follow the body, step by step.            *)
LEMMA BodyFollowed ==
    TypeOK /\ Past /\ SlotsAsWritten /\ LastResultBound /\ [Next]_vars
      => SlotsAsWritten' /\ LastResultBound'
  <1> SUFFICES ASSUME TypeOK, Past, SlotsAsWritten, LastResultBound, [Next]_vars
               PROVE  SlotsAsWritten' /\ LastResultBound'
    OBVIOUS
  <1>0. Body[fn] \in [owned : SUBSET Name, steps : Seq(Step)] /\ at \in Nat /\ at # 0
    BY BodyShape DEF TypeOK
  <1>1. \A n \in Name : IsSlot(Body[fn], n, at + 1) <=>
          \/ step.kind \in {"protect", "store"} /\ step.to = n
          \/ n \in rooted /\ (step.kind = "drop" => n \notin step.reads)
    BY <1>0, SlotAfter DEF SlotsAsWritten, step
  <1>2. (at + 1) - 1 = at
    BY <1>0
  <1>3. CASE Enter \/ Collect \/ UNCHANGED vars
    BY <1>3 DEF Enter, Collect, vars, SlotsAsWritten, LastResultBound
  <1>4. CASE Return
    <2>1. step.kind \in {"let", "protect"} /\ step.to \in Name
      BY <1>4, StepType DEF Return, TypeOK, Step
    <2>2. SlotsAsWritten'
      BY <1>1, <1>4, <2>1 DEF Return, SlotsAsWritten
    <2>3. node'[step.to] = <<step.to, at>>
      BY <1>4, <2>1 DEF Return, TypeOK
    <2>4. ASSUME NEW n \in Name, IsResult(Body[fn], n, at) PROVE node'[n][2] = at
      BY <2>3, <2>4 DEF IsResult, step
    <2> QED
      BY <1>2, <1>4, <2>2, <2>4 DEF Return, LastResultBound
  <1>5. CASE StoreNode
    <2>1. SlotsAsWritten'
      BY <1>1, <1>5 DEF StoreNode, SlotsAsWritten
    <2> QED
      BY <1>2, <1>5, <2>1 DEF StoreNode, LastResultBound, IsResult, step
  <1>6. CASE DropSlots
    <2>1. SlotsAsWritten'
      BY <1>1, <1>6 DEF DropSlots, SlotsAsWritten
    <2> QED
      BY <1>2, <1>6, <2>1 DEF DropSlots, LastResultBound, IsResult, step
  <1>7. CASE ReadNodes
    <2>1. SlotsAsWritten'
      BY <1>1, <1>7 DEF ReadNodes, SlotsAsWritten
    <2> QED
      BY <1>2, <1>7, <2>1 DEF ReadNodes, LastResultBound, IsResult, step
  <1> QED
    BY <1>3, <1>4, <1>5, <1>6, <1>7 DEF Next

(* A step of a function that keeps to the convention loses no node that a  *)
(* slot holds or a call reads.                                             *)
LEMMA StepKept == IInv /\ Convention /\ [Next]_vars => IInv' /\ Convention'
  <1> SUFFICES ASSUME IInv, Convention, [Next]_vars PROVE IInv' /\ Convention'
    OBVIOUS
  <1> USE DEF IInv
  <1>0. TypeOK' /\ SlotsAsWritten' /\ LastResultBound' /\ StepConvention
    BY TypeKept, BodyFollowed, StepKeepsConvention
  <1>c. Convention'
    BY DEF Next, vars, Enter, Collect, Return, StoreNode, ReadNodes, DropSlots, Convention
  <1>r. ASSUME RootsIntact', LastResultAlive', ~ inside' PROVE ArgumentsIntact'
    <2>1. (/\ TypeOK /\ SlotsAsWritten /\ LastResultBound /\ Convention
           /\ RootsIntact /\ LastResultAlive /\ ~ inside
           => ArgumentsIntact)'
      BY ReadyForStep, PTL
    <2> QED
      BY <1>0, <1>c, <1>r, <2>1
  <1>1. CASE Enter
    <2>1. \A n \in step.reads : node[n] \in alive
      BY <1>1 DEF Enter, ArgumentsIntact
    <2>2. ArgumentsIntact'
      BY <1>1, <2>1 DEF Enter, ArgumentsIntact, step
    <2> QED
      BY <1>0, <1>c, <1>1, <2>2 DEF Enter, Past, RootsIntact, LastResultAlive
  <1>2. CASE Collect
    <2>1. step.reads \ Fresh[fn] \subseteq rooted
      BY <1>0, <1>2 DEF Collect, StepConvention, TypeOK
    <2>2. \A n \in rooted : node[n] \in alive'
      BY <1>2 DEF Collect, RootsIntact
    <2>3. ArgumentsIntact'
      BY <1>2, <2>1, <2>2 DEF Collect, ArgumentsIntact, step
    <2> QED
      BY <1>0, <1>c, <1>2, <2>2, <2>3 DEF Collect, Past, RootsIntact, LastResultAlive
  <1>3. CASE Return
    <2>1. step \in Step /\ at \in Nat /\ Running
      BY <1>3, StepType DEF Return, TypeOK
    <2>2. step.to \in Name
      BY <2>1 DEF Step
    <2>3. /\ node'[step.to] = <<step.to, at>>
          /\ \A n \in Name \ {step.to} : node'[n] = node[n]
          /\ alive' = alive \union {<<step.to, at>>}
      BY <1>3, <2>2 DEF Return, TypeOK
    <2>4. rooted' \subseteq rooted \union {step.to}
      BY <1>3 DEF Return
    <2>5. \A n \in Name : node[n] \in Node
      BY DEF TypeOK
    <2>6. Past'
      <3> SUFFICES ASSUME NEW n \in Name PROVE node'[n][2] < at + 1
        BY <1>3 DEF Return, Past
      <3>1. CASE n = step.to
        BY <2>1, <2>3, <3>1
      <3>2. CASE n # step.to
        BY <2>1, <2>3, <2>5, <3>2 DEF Past, Node
      <3> QED
        BY <3>1, <3>2
    <2>7. RootsIntact'
      BY <2>3, <2>4 DEF RootsIntact, TypeOK
    <2>8. LastResultAlive'
      <3> SUFFICES ASSUME NEW n \in Name, node'[n][2] = at PROVE node'[n] \in alive'
        BY <1>3, <2>1 DEF Return, LastResultAlive
      <3>1. n = step.to
        BY <2>1, <2>3, <2>5 DEF Past, Node
      <3> QED
        BY <2>3, <3>1
    <2> QED
      BY <1>0, <1>c, <1>r, <1>3, <2>6, <2>7, <2>8 DEF Return
  <1>4. CASE StoreNode
    <2>1. step \in Step /\ at \in Nat /\ ~ inside
      BY <1>4, StepType DEF StoreNode, TypeOK
    <2>2. PICK n \in step.reads : node' = [node EXCEPT ![step.to] = node[n]]
      BY <1>4 DEF StoreNode
    <2>3. n \in Name /\ step.to \in Name /\ node[n] \in Node
      BY <2>1 DEF Step, TypeOK
    <2>4. node[n] \in alive
      BY <1>0, <1>4, <2>1, <2>2, <2>3
      DEF StoreNode, StepConvention, RootsIntact, LastResultAlive
    <2>5. /\ node'[step.to] = node[n]
          /\ \A m \in Name \ {step.to} : node'[m] = node[m]
      BY <2>2, <2>3 DEF TypeOK
    <2>6. \A m \in Name : node'[m][2] < at /\ node'[m] \in Node
      BY <2>3, <2>5 DEF Past, TypeOK
    <2>7. Past'
      BY <1>4, <2>1, <2>6 DEF StoreNode, Past, Node
    <2>8. RootsIntact'
      BY <1>4, <2>4, <2>5 DEF StoreNode, RootsIntact, TypeOK
    <2>9. LastResultAlive'
      BY <1>4, <2>1, <2>6 DEF StoreNode, LastResultAlive, Node
    <2> QED
      BY <1>0, <1>c, <1>r, <1>4, <2>1, <2>7, <2>8, <2>9 DEF StoreNode
  <1>5. CASE DropSlots
    <2>1. at \in Nat /\ ~ inside
      BY <1>5, StepType DEF DropSlots, TypeOK
    <2>2. \A n \in Name : node[n] \in Node
      BY DEF TypeOK
    <2>3. Past'
      BY <1>5, <2>1, <2>2 DEF DropSlots, Past, Node
    <2>4. LastResultAlive'
      BY <1>5, <2>1, <2>2 DEF DropSlots, LastResultAlive, Past, Node
    <2>5. RootsIntact'
      BY <1>5 DEF DropSlots, RootsIntact
    <2> QED
      BY <1>0, <1>c, <1>r, <1>5, <2>1, <2>3, <2>4, <2>5 DEF DropSlots
  <1>6. CASE ReadNodes
    <2>1. at \in Nat /\ ~ inside
      BY <1>6, StepType DEF ReadNodes, TypeOK
    <2>2. \A n \in Name : node[n] \in Node
      BY DEF TypeOK
    <2>3. Past' /\ LastResultAlive' /\ RootsIntact'
      BY <1>6, <2>1, <2>2 DEF ReadNodes, Past, Node, LastResultAlive, RootsIntact
    <2> QED
      BY <1>0, <1>c, <1>r, <1>6, <2>1, <2>3 DEF ReadNodes
  <1>7. CASE UNCHANGED vars
    BY <1>0, <1>c, <1>7
    DEF vars, Past, RootsIntact, ArgumentsIntact, LastResultAlive, Running, step
  <1> QED
    BY <1>c, <1>1, <1>2, <1>3, <1>4, <1>5, <1>6, <1>7 DEF Next

-----------------------------------------------------------------------------
(* The state has its type whatever the bodies are. *)
THEOREM TypeCorrect == Spec => []TypeOK
  <1>1. Init => TypeOK
    BY InitHolds DEF IInv
  <1> QED
    BY <1>1, TypeKept, PTL DEF Spec

(* If the body of a function keeps to the calling convention of            *)
(* docs/dd_usage.md but for the results it hands to the very next call,    *)
(* which can be seen by reading it, no slot ever holds a reclaimed node,   *)
(* every node is there when a call that uses it is entered, and but for    *)
(* those results stays so while the call runs, for every body and every    *)
(* schedule of collections.                                                *)
THEOREM ConventionSuffices ==
    Spec /\ Convention => [](Convention /\ ArgumentsIntact /\ RootsIntact)
  <1>1. IInv => ArgumentsIntact /\ RootsIntact
    BY DEF IInv
  <1> QED
    BY <1>1, InitHolds, StepKept, PTL DEF Spec

(* The same of what the slots hold: no result is lost on its way into one. *)
COROLLARY RootsProtected == Spec /\ Convention => []RootsIntact
  BY ConventionSuffices, PTL

-----------------------------------------------------------------------------
(* The runtime that the threads share.                                     *)

(* Only inside its job, while its manager lives, has a thread stack slots; *)
(* only there and while it drops the fields has it field slots.            *)
SlotsInPlace ==
    \A t \in Thread :
        /\ locals[t] > 0 => pc[t] \in {"working", "calling", "dropping"}
        /\ fields[t] > 0 => pc[t] \in {"working", "calling", "dropping", "released", "unregistering"}
        /\ pc[t] = "unregistering" => fields[t] > 0

(* The two mutexes are held where the code is between lock and drop. *)
MutexesHeld ==
    \A t \in Thread :
        /\ t \in Holding => api = t
        /\ pc[t] \in {"checking", "starting"} => runtime = t

(* The flag and the count of starts, seen from every thread. *)
StartSettled ==
    /\ initialized => starts = 1
    /\ ~ initialized => starts = 0 \/ \E t \in Thread : pc[t] = "starting"
    /\ \A t \in Thread :
          /\ pc[t] = "starting" => starts = 1 /\ ~ initialized
          /\ pc[t] \in {"new", "working", "calling", "dropping", "released", "unregistering"} =>
                 initialized

RuntimeIInv == RuntimeTypeOK /\ SlotsInPlace /\ MutexesHeld /\ StartSettled

(* At the start no thread has begun a job. *)
LEMMA RuntimeInitHolds == RuntimeInit => RuntimeIInv
  <1> SUFFICES ASSUME RuntimeInit PROVE RuntimeIInv
    OBVIOUS
  <1>1. 0 \in 0 .. MaxJobs /\ 0 \in 0 .. MaxLocals /\ 0 \in 0 .. Fields
    BY RuntimeAssumption
  <1>2. RuntimeTypeOK
    BY <1>1 DEF RuntimeInit, RuntimeTypeOK
  <1>3. \A t \in Thread : pc[t] = "idle" /\ locals[t] = 0 /\ fields[t] = 0
    BY DEF RuntimeInit
  <1>4. SlotsInPlace /\ MutexesHeld
    BY <1>3 DEF SlotsInPlace, MutexesHeld, Holding
  <1>5. StartSettled
    BY <1>3 DEF RuntimeInit, StartSettled
  <1> QED
    BY <1>2, <1>4, <1>5 DEF RuntimeIInv

(* Every step of a thread keeps the invariant. *)
LEMMA RuntimeStepKept == RuntimeIInv /\ [RuntimeNext]_runtimeVars => RuntimeIInv'
  <1> SUFFICES ASSUME RuntimeIInv, [RuntimeNext]_runtimeVars PROVE RuntimeIInv'
    OBVIOUS
  <1> USE RuntimeAssumption DEF RuntimeIInv, RuntimeTypeOK, SlotsInPlace, MutexesHeld, StartSettled, Holding
  <1>1. CASE UNCHANGED runtimeVars
    BY <1>1 DEF runtimeVars
  <1>2. ASSUME NEW t \in Thread, Manage(t) \/ Work(t) \/ Leave(t) PROVE RuntimeIInv'
    <2> USE DEF GoTo
    <2>1. CASE LockApi(t)
      BY <2>1 DEF LockApi
    <2>2. CASE LockRuntime(t)
      BY <2>2 DEF LockRuntime
    <2>3. CASE FindStarted(t)
      BY <2>3 DEF FindStarted
    <2>4. CASE Start(t)
      <3>1. \A u \in Thread \ {t} : pc[u] # "starting"
        BY <2>4 DEF Start
      <3>2. starts = 0
        BY <2>4, <3>1 DEF Start
      <3> QED
        BY <2>4, <3>1, <3>2 DEF Start
    <2>5. CASE FinishStart(t)
      BY <2>5 DEF FinishStart
    <2>6. CASE NewFields(t)
      BY <2>6 DEF NewFields
    <2>7. CASE DropManager(t)
      BY <2>7 DEF DropManager
    <2>8. CASE EnterCall(t)
      BY <2>8 DEF EnterCall
    <2>9. CASE LeaveCall(t)
      BY <2>9 DEF LeaveCall
    <2>10. CASE ProtectLocal(t)
      BY <2>10 DEF ProtectLocal
    <2>11. CASE DropLocal(t)
      BY <2>11 DEF DropLocal
    <2>12. CASE EndJob(t)
      BY <2>12 DEF EndJob
    <2>13. CASE UnregisterField(t)
      BY <2>13 DEF UnregisterField
    <2>14. CASE FieldUnregistered(t)
      BY <2>14 DEF FieldUnregistered
    <2>15. CASE Dropped(t)
      BY <2>15 DEF Dropped
    <2> QED
      BY <1>2, <2>1, <2>2, <2>3, <2>4, <2>5, <2>6, <2>7, <2>8, <2>9, <2>10, <2>11, <2>12,
         <2>13, <2>14, <2>15 DEF Manage, Work, Leave
  <1> QED
    BY <1>1, <1>2 DEF RuntimeNext

LEMMA RuntimeInductive == RuntimeSpec => []RuntimeIInv
  BY RuntimeInitHolds, RuntimeStepKept, PTL DEF RuntimeSpec

-----------------------------------------------------------------------------
(* The state has its type. *)
THEOREM RuntimeTypeCorrect == RuntimeSpec => []RuntimeTypeOK
  <1>1. RuntimeIInv => RuntimeTypeOK
    BY DEF RuntimeIInv
  <1> QED
    BY <1>1, RuntimeInductive, PTL

(* However many threads there are, every start, call and stack slot is the *)
(* mutex holder's; two threads can be inside Sylvan together only while    *)
(* one of them gives back the fields of a chain already dropped.           *)
THEOREM GuardedEntry == RuntimeSpec => []Serialized
  <1>1. RuntimeIInv => Serialized
    <2> SUFFICES ASSUME RuntimeIInv PROVE Serialized
      OBVIOUS
    <2>1. \A t \in Thread : t \in Holding \/ locals[t] > 0 => api = t
      BY DEF RuntimeIInv, RuntimeTypeOK, SlotsInPlace, MutexesHeld, Holding
    <2>2. \A t \in InSylvan : pc[t] = "unregistering" \/ t \in Holding
      BY DEF InSylvan, Holding
    <2> QED
      BY <2>1, <2>2 DEF Serialized, InSylvan
  <1> QED
    BY <1>1, RuntimeInductive, PTL

(* However many threads race for the first manager, Sylvan is started once *)
(* and before it is used.                                                  *)
THEOREM StartedBeforeUse == RuntimeSpec => []StartedOnce
  <1>1. RuntimeIInv => StartedOnce
    <2> SUFFICES ASSUME RuntimeIInv PROVE StartedOnce
      OBVIOUS
    <2>1. starts <= 1
      BY DEF RuntimeIInv, StartSettled
    <2> QED
      BY <2>1 DEF RuntimeIInv, RuntimeTypeOK, SlotsInPlace, StartSettled, StartedOnce
  <1> QED
    BY <1>1, RuntimeInductive, PTL

(* No job, however it ended, leaves a slot registered. *)
THEOREM NoLeakedRoot == RuntimeSpec => []RootsReturned
  <1>1. RuntimeIInv => RootsReturned
    BY RuntimeAssumption DEF RuntimeIInv, RuntimeTypeOK, SlotsInPlace, RootsReturned
  <1> QED
    BY <1>1, RuntimeInductive, PTL

-----------------------------------------------------------------------------
(* A substitution of identifiers. *)
Substitution(map) == DOMAIN map \subseteq Ident /\ \A n \in DOMAIN map : map[n] \in Ident

-----------------------------------------------------------------------------
(* A copy is a module *)

LEMMA RenamedIdent ==
  ASSUME NEW map, Substitution(map), NEW n \in Ident
  PROVE  Rename(n, map) \in Ident
  BY DEF Substitution, Rename

LEMMA RenamedExpr ==
  ASSUME NEW map, Substitution(map), NEW e \in Expr
  PROVE  /\ RenameExpr(e, map) \in Expr
         /\ RenameExpr(e, map).shape = e.shape
         /\ DOMAIN RenameExpr(e, map).names = DOMAIN e.names
         /\ \A i \in DOMAIN e.names : RenameExpr(e, map).names[i] = Rename(e.names[i], map)
<1> DEFINE names == [i \in DOMAIN e.names |-> Rename(e.names[i], map)]
<1>1. e.names \in Seq(Ident) /\ e.shape \in Shape
  BY DEF Expr
<1>2. \A i \in DOMAIN e.names : Rename(e.names[i], map) \in Ident
  BY <1>1, RenamedIdent
<1>3. names \in Seq(Ident)
  BY <1>1, <1>2
<1>4. RenameExpr(e, map) = [shape |-> e.shape, names |-> names]
  BY DEF RenameExpr, Expr
<1> HIDE DEF names
<1>5. RenameExpr(e, map) \in Expr /\ RenameExpr(e, map).names = names
  BY <1>1, <1>3, <1>4 DEF Expr
<1> QED
  BY <1>4, <1>5 DEF names

LEMMA RenamedAssignment ==
  ASSUME NEW map, Substitution(map), NEW a \in Assignment
  PROVE  RenameAssignment(a, map) \in Assignment
<1>1. a.target \in Ident /\ a.value \in Expr
  BY DEF Assignment
<1>2. Rename(a.target, map) \in Ident /\ RenameExpr(a.value, map) \in Expr
  BY <1>1, RenamedIdent, RenamedExpr
<1> QED
  BY <1>2 DEF RenameAssignment, Assignment

LEMMA RenamedUpdate ==
  ASSUME NEW map, Substitution(map), NEW u \in ProbUpdate
  PROVE  RenameUpdate(u, map) \in ProbUpdate
<1>1. u.prob \in Expr /\ u.assignments \in Seq(Assignment)
  BY DEF ProbUpdate
<1>2. RenameExpr(u.prob, map) \in Expr
  BY <1>1, RenamedExpr
<1>3. \A i \in DOMAIN u.assignments : RenameAssignment(u.assignments[i], map) \in Assignment
  BY <1>1, RenamedAssignment
<1>4. [i \in DOMAIN u.assignments |-> RenameAssignment(u.assignments[i], map)] \in Seq(Assignment)
  BY <1>1, <1>3
<1> QED
  BY <1>2, <1>4 DEF RenameUpdate, ProbUpdate

LEMMA RenamedCommand ==
  ASSUME NEW map, Substitution(map), NEW c \in Command
  PROVE  RenameCommand(c, map) \in Command
<1>1. c.labels \in Seq(Label) /\ c.guard \in Expr /\ c.updates \in Seq(ProbUpdate)
  BY DEF Command
<1>2. RenameExpr(c.guard, map) \in Expr
  BY <1>1, RenamedExpr
<1>3. \A i \in DOMAIN c.updates : RenameUpdate(c.updates[i], map) \in ProbUpdate
  BY <1>1, RenamedUpdate
<1>4. [i \in DOMAIN c.updates |-> RenameUpdate(c.updates[i], map)] \in Seq(ProbUpdate)
  BY <1>1, <1>3
<1> QED
  BY <1>1, <1>2, <1>4 DEF RenameCommand, Command

LEMMA RenamedLocal ==
  ASSUME NEW map, Substitution(map), NEW v \in VarDecl
  PROVE  RenameLocal(v, map) \in VarDecl
<1>1. v.name \in Ident /\ v.exprs \in Seq(Expr)
  BY DEF VarDecl
<1>2. Rename(v.name, map) \in Ident
  BY <1>1, RenamedIdent
<1>3. \A i \in DOMAIN v.exprs : RenameExpr(v.exprs[i], map) \in Expr
  BY <1>1, RenamedExpr
<1>4. [i \in DOMAIN v.exprs |-> RenameExpr(v.exprs[i], map)] \in Seq(Expr)
  BY <1>1, <1>3
<1> QED
  BY <1>2, <1>4 DEF RenameLocal, VarDecl

LEMMA CopyIsModule ==
  ASSUME NEW map, Substitution(map), NEW base \in Module, NEW name \in ModuleName
  PROVE  Copy(base, name, map) \in Module
<1>1. base.local_vars \in Seq(VarDecl) /\ base.commands \in Seq(Command)
  BY DEF Module
<1>2. \A i \in DOMAIN base.local_vars : RenameLocal(base.local_vars[i], map) \in VarDecl
  BY <1>1, RenamedLocal
<1>3. \A i \in DOMAIN base.commands : RenameCommand(base.commands[i], map) \in Command
  BY <1>1, RenamedCommand
<1>4. [i \in DOMAIN base.local_vars |-> RenameLocal(base.local_vars[i], map)] \in Seq(VarDecl)
  BY <1>1, <1>2
<1>5. [i \in DOMAIN base.commands |-> RenameCommand(base.commands[i], map)] \in Seq(Command)
  BY <1>1, <1>3
<1> QED
  BY <1>4, <1>5 DEF Copy, Module

-----------------------------------------------------------------------------
(* A copy behaves as its base *)

(* Without conflicts each pair is the replacement of its first name.       *)
LEMMA MapIsPairs ==
  ASSUME NEW pairs \in Seq(Ident \X Ident), ~ Conflicting(pairs)
  PROVE  /\ Substitution(RenameMap(pairs))
         /\ DOMAIN RenameMap(pairs) = Froms(pairs)
         /\ \A i \in DOMAIN pairs : RenameMap(pairs)[pairs[i][1]] = pairs[i][2]
<1>1. \A i \in DOMAIN pairs : pairs[i] \in Ident \X Ident
  OBVIOUS
<1>2. \A i \in DOMAIN pairs : pairs[i][1] \in Ident /\ pairs[i][2] \in Ident
  BY <1>1
<1>3. ASSUME NEW i \in DOMAIN pairs
      PROVE  RenameMap(pairs)[pairs[i][1]] = pairs[i][2]
  <2>1. pairs[i][1] \in Froms(pairs)
    BY DEF Froms
  <2> DEFINE first == CHOOSE j \in DOMAIN pairs : pairs[j][1] = pairs[i][1]
  <2>2. first \in DOMAIN pairs /\ pairs[first][1] = pairs[i][1]
    OBVIOUS
  <2>3. RenameMap(pairs)[pairs[i][1]] = pairs[first][2]
    BY <2>1 DEF RenameMap
  <2> HIDE DEF first
  <2> QED
    BY <2>2, <2>3 DEF Conflicting
<1>4. DOMAIN RenameMap(pairs) = Froms(pairs)
  BY DEF RenameMap
<1> QED
  BY <1>2, <1>3, <1>4 DEF Substitution, Froms

(* What the base sees under a name is what the copy has under the new one. *)
LEMMA RenamedReads ==
  ASSUME NEW renamed \in RenamedModule, ~ Conflicting(renamed.renames),
         NEW s \in [Ident -> Value], NEW n \in Ident
  PROVE  SeenByBase(renamed, s)[n] = s[Rename(n, RenameMap(renamed.renames))]
<1> DEFINE pairs == renamed.renames
           map   == RenameMap(pairs)
<1>1. pairs \in Seq(Ident \X Ident)
  BY DEF RenamedModule
<1>2. Range(pairs) = {pairs[i] : i \in DOMAIN pairs}
  BY DEF Range
<1>3. DOMAIN map = Froms(pairs) /\ \A i \in DOMAIN pairs : map[pairs[i][1]] = pairs[i][2]
  BY <1>1, MapIsPairs
<1> HIDE DEF pairs, map
<1>4. CASE n \in Froms(pairs)
  <2>1. \E pair \in Range(pairs) : pair[1] = n
    BY <1>2, <1>4 DEF Froms
  <2> DEFINE chosen == CHOOSE pair \in Range(pairs) : pair[1] = n
  <2>2. chosen \in Range(pairs) /\ chosen[1] = n
    BY <2>1
  <2>3. map[n] = chosen[2]
    BY <2>2, <1>2, <1>3
  <2>4. SeenByBase(renamed, s)[n] = s[chosen[2]]
    BY <2>1 DEF SeenByBase, pairs
  <2> QED
    BY <2>3, <2>4, <1>3, <1>4 DEF Rename, map, pairs
<1>5. CASE n \notin Froms(pairs)
  <2>1. ~ \E pair \in Range(pairs) : pair[1] = n
    BY <1>2, <1>5 DEF Froms
  <2>2. SeenByBase(renamed, s)[n] = s[n]
    BY <2>1 DEF SeenByBase, pairs
  <2> QED
    BY <2>2, <1>3, <1>5 DEF Rename, map, pairs
<1> QED
  BY <1>4, <1>5

LEMMA RenamedEvaluates ==
  ASSUME NEW renamed \in RenamedModule, ~ Conflicting(renamed.renames),
         NEW s \in [Ident -> Value], NEW e \in Expr
  PROVE  Evaluate(RenameExpr(e, RenameMap(renamed.renames)), s) = Evaluate(e, SeenByBase(renamed, s))
<1> DEFINE map == RenameMap(renamed.renames)
           copied == RenameExpr(e, map)
<1>1. Substitution(map)
  BY MapIsPairs DEF RenamedModule
<1>2. \A n \in Ident : SeenByBase(renamed, s)[n] = s[Rename(n, map)]
  BY RenamedReads
<1> HIDE DEF map
<1>3. /\ copied.shape = e.shape /\ DOMAIN copied.names = DOMAIN e.names
      /\ \A i \in DOMAIN e.names : copied.names[i] = Rename(e.names[i], map)
  BY <1>1, RenamedExpr
<1>4. \A i \in DOMAIN e.names : e.names[i] \in Ident
  BY DEF Expr
<1> HIDE DEF copied
<1>5. \A i \in DOMAIN e.names : s[copied.names[i]] = SeenByBase(renamed, s)[e.names[i]]
  BY <1>2, <1>3, <1>4
<1>6. [i \in DOMAIN copied.names |-> s[copied.names[i]]] = [i \in DOMAIN e.names |-> SeenByBase(renamed, s)[e.names[i]]]
  BY <1>3, <1>5
<1>7. Evaluate(copied, s) = Evaluate(e, SeenByBase(renamed, s))
  BY <1>3, <1>6 DEF Evaluate
<1> QED
  BY <1>7 DEF copied, map

(* After the copy writes, the base sees its own write. *)
LEMMA AssignmentRenamed ==
  ASSUME NEW renamed \in RenamedModule, ~ Conflicting(renamed.renames),
         NEW s \in [Ident -> Value], NEW a \in Assignment
  PROVE  AssignsAs(RenameAssignment(a, RenameMap(renamed.renames)), a, renamed, s)
<1> DEFINE map == RenameMap(renamed.renames)
           copied == RenameAssignment(a, map)
<1>1. Substitution(map)
  BY MapIsPairs DEF RenamedModule
<1>2. a.target \in Ident /\ a.value \in Expr
  BY DEF Assignment
<1>3. copied.target = Rename(a.target, map) /\ copied.value = RenameExpr(a.value, map)
  BY DEF RenameAssignment
<1>4. copied.target \in Ident
  BY <1>1, <1>2, <1>3, RenamedIdent
<1>5. Evaluate(copied.value, s) = Evaluate(a.value, SeenByBase(renamed, s))
  BY <1>2, <1>3, RenamedEvaluates
<1>6. ASSUME NEW v \in Value
      PROVE  SeenByBase(renamed, [s EXCEPT ![copied.target] = v])[a.target] = v
  <2> DEFINE after == [s EXCEPT ![copied.target] = v]
  <2>1. after \in [Ident -> Value] /\ after[copied.target] = v
    BY <1>4
  <2> HIDE DEF after
  <2>2. SeenByBase(renamed, after)[a.target] = after[Rename(a.target, map)]
    BY <1>2, <2>1, RenamedReads
  <2> QED
    BY <1>3, <2>1, <2>2 DEF after
<1> QED
  BY <1>5, <1>6 DEF AssignsAs

LEMMA UpdateRenamed ==
  ASSUME NEW renamed \in RenamedModule, ~ Conflicting(renamed.renames),
         NEW s \in [Ident -> Value], NEW u \in ProbUpdate
  PROVE  UpdatesAs(RenameUpdate(u, RenameMap(renamed.renames)), u, renamed, s)
<1> DEFINE map == RenameMap(renamed.renames)
           copied == RenameUpdate(u, map)
<1>1. u.prob \in Expr /\ u.assignments \in Seq(Assignment)
  BY DEF ProbUpdate
<1>2. /\ copied.prob = RenameExpr(u.prob, map)
      /\ DOMAIN copied.assignments = DOMAIN u.assignments
      /\ \A i \in DOMAIN u.assignments :
           copied.assignments[i] = RenameAssignment(u.assignments[i], map)
  BY DEF RenameUpdate
<1>3. Evaluate(copied.prob, s) = Evaluate(u.prob, SeenByBase(renamed, s))
  BY <1>1, <1>2, RenamedEvaluates
<1>4. \A i \in DOMAIN u.assignments :
        AssignsAs(copied.assignments[i], u.assignments[i], renamed, s)
  BY <1>1, <1>2, AssignmentRenamed
<1> QED
  BY <1>2, <1>3, <1>4 DEF UpdatesAs

LEMMA CommandRenamed ==
  ASSUME NEW renamed \in RenamedModule, ~ Conflicting(renamed.renames),
         NEW s \in [Ident -> Value], NEW c \in Command
  PROVE  CommandAs(RenameCommand(c, RenameMap(renamed.renames)), c, renamed, s)
<1> DEFINE map == RenameMap(renamed.renames)
           copied == RenameCommand(c, map)
<1>1. c.guard \in Expr /\ c.updates \in Seq(ProbUpdate)
  BY DEF Command
<1>2. /\ copied.labels = c.labels /\ copied.guard = RenameExpr(c.guard, map)
      /\ DOMAIN copied.updates = DOMAIN c.updates
      /\ \A i \in DOMAIN c.updates : copied.updates[i] = RenameUpdate(c.updates[i], map)
  BY DEF RenameCommand
<1>3. Evaluate(copied.guard, s) = Evaluate(c.guard, SeenByBase(renamed, s))
  BY <1>1, <1>2, RenamedEvaluates
<1>4. \A i \in DOMAIN c.updates : UpdatesAs(copied.updates[i], c.updates[i], renamed, s)
  BY <1>1, <1>2, UpdateRenamed
<1> QED
  BY <1>2, <1>3, <1>4 DEF CommandAs

LEMMA LocalRenamed ==
  ASSUME NEW renamed \in RenamedModule, ~ Conflicting(renamed.renames),
         NEW s \in [Ident -> Value], NEW v \in VarDecl
  PROVE  LocalAs(RenameLocal(v, RenameMap(renamed.renames)), v, renamed, s)
<1> DEFINE map == RenameMap(renamed.renames)
           copied == RenameLocal(v, map)
<1>1. v.name \in Ident /\ v.exprs \in Seq(Expr)
  BY DEF VarDecl
<1>2. /\ copied.name = Rename(v.name, map)
      /\ DOMAIN copied.exprs = DOMAIN v.exprs
      /\ \A i \in DOMAIN v.exprs : copied.exprs[i] = RenameExpr(v.exprs[i], map)
  BY DEF RenameLocal
<1>3. \A i \in DOMAIN v.exprs :
        Evaluate(copied.exprs[i], s) = Evaluate(v.exprs[i], SeenByBase(renamed, s))
  BY <1>1, <1>2, RenamedEvaluates
<1>4. s[copied.name] = SeenByBase(renamed, s)[v.name]
  BY <1>1, <1>2, RenamedReads
<1> QED
  BY <1>2, <1>3, <1>4 DEF LocalAs

(* The whole copy, in every valuation. *)
LEMMA CopyBehaves ==
  ASSUME NEW renamed \in RenamedModule, ~ Conflicting(renamed.renames), NEW base \in Module
  PROVE  BehavesAs(Copy(base, renamed.name, RenameMap(renamed.renames)), base, renamed)
<1> DEFINE map == RenameMap(renamed.renames)
           copied == Copy(base, renamed.name, map)
<1>1. base.local_vars \in Seq(VarDecl) /\ base.commands \in Seq(Command)
  BY DEF Module
<1>2. /\ DOMAIN copied.commands = DOMAIN base.commands
      /\ \A i \in DOMAIN base.commands : copied.commands[i] = RenameCommand(base.commands[i], map)
      /\ DOMAIN copied.local_vars = DOMAIN base.local_vars
      /\ \A i \in DOMAIN base.local_vars : copied.local_vars[i] = RenameLocal(base.local_vars[i], map)
  BY DEF Copy
<1>3. ASSUME NEW s \in [Ident -> Value]
      PROVE  /\ \A i \in DOMAIN base.commands : CommandAs(copied.commands[i], base.commands[i], renamed, s)
             /\ \A i \in DOMAIN base.local_vars : LocalAs(copied.local_vars[i], base.local_vars[i], renamed, s)
  BY <1>1, <1>2, CommandRenamed, LocalRenamed
<1> QED
  BY <1>2, <1>3 DEF BehavesAs

(* Targets and variables are renamed alike. *)
LEMMA CopyWritesOwn ==
  ASSUME NEW map, NEW base \in Module, NEW name, WritesOwn(base)
  PROVE  WritesOwn(Copy(base, name, map))
<1> DEFINE copied == Copy(base, name, map)
<1>1. /\ DOMAIN copied.commands = DOMAIN base.commands
      /\ \A i \in DOMAIN base.commands : copied.commands[i] = RenameCommand(base.commands[i], map)
      /\ DOMAIN copied.local_vars = DOMAIN base.local_vars
      /\ \A i \in DOMAIN base.local_vars : copied.local_vars[i] = RenameLocal(base.local_vars[i], map)
  BY DEF Copy
<1> HIDE DEF copied
<1>2. ASSUME NEW i \in DOMAIN base.commands, NEW j \in DOMAIN base.commands[i].updates,
             NEW k \in DOMAIN base.commands[i].updates[j].assignments
      PROVE  Rename(base.commands[i].updates[j].assignments[k].target, map) \in Names(copied.local_vars)
  <2>1. base.commands[i].updates[j].assignments[k].target \in Names(base.local_vars)
    BY DEF WritesOwn
  <2>2. PICK l \in DOMAIN base.local_vars :
          base.local_vars[l].name = base.commands[i].updates[j].assignments[k].target
    BY <2>1 DEF Names
  <2>3. copied.local_vars[l].name = Rename(base.local_vars[l].name, map)
    <3>1. copied.local_vars[l] = RenameLocal(base.local_vars[l], map)
      BY <1>1
    <3>2. RenameLocal(base.local_vars[l], map).name = Rename(base.local_vars[l].name, map)
      BY DEF RenameLocal
    <3> QED
      BY <3>1, <3>2
  <2>4. l \in DOMAIN copied.local_vars
    BY <1>1
  <2>5. copied.local_vars[l].name \in Names(copied.local_vars)
    BY <2>4 DEF Names
  <2> QED
    BY <2>2, <2>3, <2>5
<1>3. ASSUME NEW i \in DOMAIN copied.commands, NEW j \in DOMAIN copied.commands[i].updates,
             NEW k \in DOMAIN copied.commands[i].updates[j].assignments
      PROVE  copied.commands[i].updates[j].assignments[k].target \in Names(copied.local_vars)
  <2> DEFINE cmd == base.commands[i]
  <2>1. copied.commands[i] = RenameCommand(cmd, map)
    BY <1>1
  <2>2. j \in DOMAIN cmd.updates /\ copied.commands[i].updates[j] = RenameUpdate(cmd.updates[j], map)
    BY <2>1 DEF RenameCommand
  <2>3. /\ k \in DOMAIN cmd.updates[j].assignments
        /\ copied.commands[i].updates[j].assignments[k] = RenameAssignment(cmd.updates[j].assignments[k], map)
    BY <2>2 DEF RenameUpdate
  <2>4. copied.commands[i].updates[j].assignments[k].target = Rename(cmd.updates[j].assignments[k].target, map)
    BY <2>3 DEF RenameAssignment
  <2> QED
    BY <1>1, <1>2, <2>2, <2>3, <2>4
<1>4. WritesOwn(copied)
  BY <1>3 DEF WritesOwn
<1> QED
  BY <1>4 DEF copied

-----------------------------------------------------------------------------
(* The invariant *)

(* The plain modules come first, and one copy for each declaration done.   *)
Expanding ==
    /\ given \in BasicAst /\ modules \in Seq(Module)
    /\ expanded \in 0 .. Len(given.renamed_modules)
    /\ Len(modules) = Len(given.modules) + expanded
    /\ \A i \in 1 .. Len(given.modules) : modules[i] = given.modules[i]

(* While models are well behaved, so is what they expand to. *)
CopiesWriteOwn ==
    (\A i \in DOMAIN given.modules : WritesOwn(given.modules[i]))
    => \A i \in DOMAIN modules : WritesOwn(modules[i])

SymbolsChecked == diagnosis = "" /\ stage # "expand" => SymbolsDistinct

CopiesInv ==
    /\ args \in Arguments
    /\ Expanding /\ CopyBehavesAsBase /\ CopiesWriteOwn /\ SymbolsChecked

LEMMA InvariantSuffices == CopiesInv => ExpansionSound
<1> SUFFICES ASSUME CopiesInv PROVE ExpansionSound
  OBVIOUS
<1>1. ASSUME diagnosis = "", stage # "expand", \A i \in DOMAIN given.modules : WritesOwn(given.modules[i]),
             NEW i \in DOMAIN modules, NEW j \in DOMAIN modules, i # j
      PROVE  Names(modules[i].local_vars) \cap Names(modules[j].local_vars) = {}
  <2>1. SymbolsDistinct
    BY <1>1 DEF CopiesInv, SymbolsChecked
  <2>2. \A k \in DOMAIN modules[i].local_vars, l \in DOMAIN modules[j].local_vars :
          modules[j].local_vars[l].name # modules[i].local_vars[k].name
    BY <1>1, <2>1 DEF SymbolsDistinct
  <2> QED
    BY <2>2 DEF Names
<1>2. WritesStayLocal
  BY <1>1 DEF CopiesInv, CopiesWriteOwn, WritesStayLocal
<1> QED
  BY <1>2 DEF CopiesInv, ExpansionSound

LEMMA MainInitHolds == MainInit => CopiesInv
<1> SUFFICES ASSUME MainInit PROVE CopiesInv
  OBVIOUS
<1>1. given = [modules |-> <<>>, renamed_modules |-> <<>>, constants |-> <<>>] /\ modules = <<>> /\ expanded = 0
  BY DEF MainInit
<1>2. Expanding
  BY <1>1 DEF Expanding, BasicAst
<1>3. CopyBehavesAsBase
  BY <1>1 DEF CopyBehavesAsBase
<1>4. CopiesWriteOwn /\ SymbolsDistinct
  BY <1>1 DEF CopiesWriteOwn, SymbolsDistinct
<1> QED
  BY <1>2, <1>3, <1>4 DEF CopiesInv, SymbolsChecked, MainInit

(* Parsing starts over with a model of the source and no copies. *)
LEMMA ParsingKeeps == CopiesInv /\ Parse => CopiesInv'
<1> SUFFICES ASSUME CopiesInv, Parse PROVE CopiesInv'
  OBVIOUS
<1>1. CASE stage' = "end" /\ diagnosis' # "" /\ UNCHANGED <<modelVars, args>>
  BY <1>1 DEF CopiesInv, Expanding, CopyBehavesAsBase, CopiesWriteOwn, SymbolsChecked, modelVars
<1>2. CASE /\ given' = [args.model.ast EXCEPT !.constants = @ \o args.prop_file.constants]
           /\ modules' = args.model.ast.modules /\ expanded' = 0 /\ stage' = "expand" /\ args' = args
  <2> DEFINE ast == args.model.ast
  <2>1. ast \in BasicAst /\ args.prop_file.constants \in Seq(Ident)
    BY ModelsAssumption, ArgumentsAssumption DEF CopiesInv
  <2>2. ast.constants \o args.prop_file.constants \in Seq(Ident)
    BY <2>1 DEF BasicAst
  <2>3. given' \in BasicAst /\ given'.modules = ast.modules /\ given'.renamed_modules = ast.renamed_modules
    BY <1>2, <2>1, <2>2 DEF BasicAst
  <2>4. ast.modules \in Seq(Module) /\ ast.renamed_modules \in Seq(RenamedModule)
    BY <2>1 DEF BasicAst
  <2> HIDE DEF ast
  <2>5. modules' = ast.modules
    BY <1>2 DEF ast
  <2>6. Len(modules') \in Nat /\ Len(given'.renamed_modules) \in Nat
    BY <2>3, <2>4, <2>5
  <2>7. Expanding'
    BY <1>2, <2>3, <2>4, <2>5, <2>6 DEF Expanding
  <2>8. CopyBehavesAsBase'
    BY <1>2 DEF CopyBehavesAsBase
  <2>9. CopiesWriteOwn'
    BY <2>3, <2>5 DEF CopiesWriteOwn
  <2> QED
    BY <1>2, <2>7, <2>8, <2>9 DEF CopiesInv, SymbolsChecked
<1> QED
  BY <1>1, <1>2 DEF Parse, Fail, Reject, Proceed, cliVars, modelVars

(* Sets of whole numbers have a least element. *)
LEMMA LeastOf ==
  ASSUME NEW S \in SUBSET Nat, S # {}
  PROVE  \E m \in S : \A i \in S : m <= i
<1>1. PICK m \in S : \A i \in S : ~ (<<i, m>> \in OpToRel(<, Nat))
  BY NatLessThanWellFounded, WFMin
<1>2. \A i \in S : ~ (i < m)
  BY <1>1 DEF OpToRel
<1> QED
  BY <1>2

LEMMA Counting ==
  \A all, plain, k \in Nat : all = plain + k => all + 1 = plain + (k + 1) /\ plain + (k + 1) - 1 = all
  OBVIOUS

LEMMA OneMore ==
  ASSUME NEW s \in Seq(Module), NEW m \in Module
  PROVE  /\ Append(s, m) \in Seq(Module) /\ Len(Append(s, m)) = Len(s) + 1
         /\ Append(s, m)[Len(s) + 1] = m
         /\ \A i \in 1 .. Len(s) : Append(s, m)[i] = s[i]
  OBVIOUS

(* The base of a copy is one of the modules already there. *)
LEMMA BaseIsThere ==
  ASSUME NEW name, modules \in Seq(Module), name \in Names(modules)
  PROVE  \E i \in DOMAIN modules : modules[i].name = name /\ Base(name) = modules[i]
<1> DEFINE here == {i \in DOMAIN modules : modules[i].name = name}
<1>1. here \subseteq Nat /\ here # {}
  BY DEF Names
<1>2. PICK m \in here : \A i \in here : m <= i
  <2> HIDE DEF here
  <2> QED
    BY <1>1, LeastOf
<1>3. \E i \in DOMAIN modules : modules[i].name = name /\ \A j \in DOMAIN modules : j < i => modules[j].name # name
  <2>1. m \in DOMAIN modules /\ modules[m].name = name
    OBVIOUS
  <2>2. \A j \in DOMAIN modules : j < m => modules[j].name # name
    BY <1>2
  <2> QED
    BY <2>1, <2>2
<1> QED
  BY <1>3 DEF Base

(* One copy more: it behaves as its base and writes its own. *)
LEMMA ExpansionKeeps == CopiesInv /\ ExpandModule /\ UNCHANGED cliVars => CopiesInv'
<1> SUFFICES ASSUME CopiesInv, ExpandModule, UNCHANGED cliVars PROVE CopiesInv'
  OBVIOUS
<1> DEFINE renamed == given.renamed_modules[expanded + 1]
           map     == RenameMap(renamed.renames)
           base    == Base(renamed.base)
           copied  == Copy(base, renamed.name, map)
<1>1. CASE Reject("renamed module")
  BY <1>1 DEF Reject, CopiesInv, Expanding, CopyBehavesAsBase, CopiesWriteOwn, SymbolsChecked, modelVars, cliVars
<1>2. CASE /\ ~ Conflicting(renamed.renames) /\ renamed.base \in Names(modules)
           /\ modules' = Append(modules, copied) /\ expanded' = expanded + 1
           /\ UNCHANGED <<given, stage, diagnosis>>
  <2>1. /\ modules \in Seq(Module) /\ given \in BasicAst /\ given.renamed_modules \in Seq(RenamedModule)
        /\ given.modules \in Seq(Module)
        /\ expanded \in 0 .. Len(given.renamed_modules) /\ expanded < Len(given.renamed_modules)
        /\ Len(modules) = Len(given.modules) + expanded
    BY DEF CopiesInv, Expanding, BasicAst, ExpandModule
  <2>2. Len(given.modules) \in Nat /\ Len(modules) \in Nat /\ Len(given.renamed_modules) \in Nat
        /\ expanded \in Nat /\ expanded + 1 \in 1 .. Len(given.renamed_modules)
    <3>1. Len(given.modules) \in Nat /\ Len(modules) \in Nat /\ Len(given.renamed_modules) \in Nat
      BY <2>1
    <3> QED
      BY <2>1, <3>1
  <2>2a. Len(modules) = Len(given.modules) + expanded
    BY DEF CopiesInv, Expanding
  <2>2b. /\ Len(modules) + 1 = Len(given.modules) + (expanded + 1)
         /\ Len(given.modules) + (expanded + 1) - 1 = Len(modules)
    BY <2>2, <2>2a, Counting, Zenon
  <2>3. renamed \in RenamedModule
    BY <2>1, <2>2
  <2>4. renamed.name \in ModuleName /\ renamed.renames \in Seq(Ident \X Ident)
    BY <2>3 DEF RenamedModule
  <2>5. Substitution(map)
    BY <1>2, <2>4, MapIsPairs
  <2>6. PICK b \in DOMAIN modules : modules[b].name = renamed.base /\ base = modules[b]
    BY <1>2, <2>1, BaseIsThere
  <2>7. base \in Module
    BY <2>1, <2>6
  <2>8. copied \in Module
    BY <2>4, <2>5, <2>7, CopyIsModule
  <2>9. BehavesAs(copied, base, renamed)
    BY <1>2, <2>3, <2>7, CopyBehaves
  <2>10. copied.name = renamed.name
    BY DEF Copy
  <2>11. WritesOwn(base) => WritesOwn(copied)
    BY <2>7, CopyWritesOwn
  <2> HIDE DEF copied, base, map
  <2>12. /\ modules' \in Seq(Module) /\ Len(modules') = Len(modules) + 1
         /\ modules'[Len(modules) + 1] = copied
         /\ \A i \in 1 .. Len(modules) : modules'[i] = modules[i]
    BY <1>2, <2>1, <2>8, OneMore
  <2>13. Expanding'
    <3>1. \A i \in 1 .. Len(given.modules) : i \in 1 .. Len(modules)
      BY <2>1, <2>2
    <3>2. \A i \in 1 .. Len(given.modules) : modules'[i] = given.modules[i]
      BY <3>1, <2>12 DEF CopiesInv, Expanding
    <3>3. Len(modules) + 1 = Len(given.modules) + (expanded + 1)
      BY <2>2b
    <3>4. expanded + 1 \in 0 .. Len(given.renamed_modules)
      BY <2>2
    <3> QED
      BY <1>2, <2>1, <2>12, <3>2, <3>3, <3>4 DEF Expanding
  <2>14. CopyBehavesAsBase'
    <3>1. ASSUME NEW k \in 1 .. expanded
          PROVE  /\ modules'[Len(given.modules) + k].name = given.renamed_modules[k].name
                 /\ \E i \in 1 .. Len(given.modules) + k - 1 :
                      /\ modules'[i].name = given.renamed_modules[k].base
                      /\ BehavesAs(modules'[Len(given.modules) + k], modules'[i], given.renamed_modules[k])
      <4>1. /\ modules[Len(given.modules) + k].name = given.renamed_modules[k].name
            /\ \E i \in 1 .. Len(given.modules) + k - 1 :
                 /\ modules[i].name = given.renamed_modules[k].base
                 /\ BehavesAs(modules[Len(given.modules) + k], modules[i], given.renamed_modules[k])
        BY DEF CopiesInv, CopyBehavesAsBase
      <4>2. \A i \in 1 .. Len(given.modules) + k : i \in 1 .. Len(modules)
        BY <2>1, <2>2
      <4>3. \A i \in 1 .. Len(given.modules) + k : modules'[i] = modules[i]
        BY <4>2, <2>12
      <4>4. Len(given.modules) + k \in 1 .. Len(given.modules) + k
            /\ 1 .. Len(given.modules) + k - 1 \subseteq 1 .. Len(given.modules) + k
        BY <2>1, <2>2
      <4> QED
        BY <4>1, <4>3, <4>4
    <3>2. LET k == expanded + 1 IN
            /\ modules'[Len(given.modules) + k].name = given.renamed_modules[k].name
            /\ \E i \in 1 .. Len(given.modules) + k - 1 :
                 /\ modules'[i].name = given.renamed_modules[k].base
                 /\ BehavesAs(modules'[Len(given.modules) + k], modules'[i], given.renamed_modules[k])
      <4>1. Len(given.modules) + (expanded + 1) = Len(modules) + 1
            /\ Len(given.modules) + (expanded + 1) - 1 = Len(modules)
        BY <2>2b
      <4>2. b \in 1 .. Len(modules) /\ modules'[b] = base /\ modules'[b].name = renamed.base
        BY <2>1, <2>6, <2>12
      <4> QED
        BY <2>9, <2>10, <2>12, <4>1, <4>2
    <3>3. \A k \in 1 .. expanded + 1 : k \in 1 .. expanded \/ k = expanded + 1
      BY <2>1
    <3> QED
      BY <1>2, <3>1, <3>2, <3>3 DEF CopyBehavesAsBase
  <2>15. CopiesWriteOwn'
    <3>1. SUFFICES ASSUME \A i \in DOMAIN given.modules : WritesOwn(given.modules[i]), NEW i \in DOMAIN modules'
                   PROVE  WritesOwn(modules'[i])
      BY <1>2 DEF CopiesWriteOwn
    <3>2. \A j \in DOMAIN modules : WritesOwn(modules[j])
      BY <3>1 DEF CopiesInv, CopiesWriteOwn
    <3>3. WritesOwn(copied)
      BY <2>6, <2>11, <3>2
    <3>4. i \in 1 .. Len(modules) \/ i = Len(modules) + 1
      BY <2>1, <2>12
    <3>5. DOMAIN modules = 1 .. Len(modules)
      BY <2>1
    <3> QED
      BY <2>12, <3>2, <3>3, <3>4, <3>5
  <2>16. SymbolsChecked'
    BY <1>2 DEF SymbolsChecked, ExpandModule
  <2> QED
    BY <2>13, <2>14, <2>15, <2>16 DEF CopiesInv, cliVars
<1> QED
  BY <1>1, <1>2 DEF ExpandModule

LEMMA SymbolsStay ==
  ASSUME given' = given, modules' = modules, SymbolsDistinct
  PROVE  SymbolsDistinct'
<1>1. \A i, j \in DOMAIN given.constants : given.constants[i] = given.constants[j] => i = j
  BY DEF SymbolsDistinct
<1>2. ASSUME NEW i \in DOMAIN modules, NEW k \in DOMAIN modules[i].local_vars
      PROVE  /\ modules[i].local_vars[k].name \notin Range(given.constants)
             /\ \A j \in DOMAIN modules : \A l \in DOMAIN modules[j].local_vars :
                  modules[j].local_vars[l].name = modules[i].local_vars[k].name => j = i /\ l = k
  BY DEF SymbolsDistinct
<1> QED
  BY <1>1, <1>2 DEF SymbolsDistinct, Range

(* The steps that leave the model alone. *)
LEMMA ModelKept ==
  ASSUME CopiesInv, UNCHANGED <<modelVars, args>>,
         \/ diagnosis' = diagnosis /\ (stage # "expand" \/ stage' = stage)
         \/ diagnosis' # ""
         \/ SymbolsDistinct
  PROVE  CopiesInv'
<1> USE DEF CopiesInv, modelVars
<1>1. Expanding'
  BY DEF Expanding
<1>2. CopyBehavesAsBase' /\ CopiesWriteOwn'
  BY DEF CopyBehavesAsBase, CopiesWriteOwn
<1>3. SymbolsDistinct => SymbolsDistinct'
  BY SymbolsStay
<1>4. SymbolsChecked'
  BY <1>3 DEF SymbolsChecked
<1> QED
  BY <1>1, <1>2, <1>4

LEMMA MainStepKept == CopiesInv /\ [MainNext]_allVars => CopiesInv'
<1> SUFFICES ASSUME CopiesInv, [MainNext]_allVars PROVE CopiesInv'
  OBVIOUS
<1> USE DEF Fail, Reject, Proceed, cliVars, modelVars
<1>1. CASE UNCHANGED allVars
  BY <1>1, ModelKept DEF allVars
<1>2. CASE ParseConstArg
  BY <1>2, ModelKept DEF ParseConstArg
<1>3. CASE ReadFiles
  BY <1>3, ModelKept DEF ReadFiles
<1>4. CASE Parse
  BY <1>4, ParsingKeeps
<1>5. CASE ExpandModule /\ UNCHANGED cliVars
  BY <1>5, ExpansionKeeps
<1>6. CASE DeclareSymbols /\ UNCHANGED cliVars
  BY <1>6, ModelKept DEF DeclareSymbols
<1>7. CASE Analyse
  BY <1>7, ModelKept DEF Analyse
<1>8. CASE Select
  BY <1>8, ModelKept DEF Select
<1>9. CASE ParsePropIndicesArg
  BY <1>9, ModelKept DEF ParsePropIndicesArg
<1>10. CASE Check
  BY <1>10, ModelKept DEF Check
<1> QED
  BY <1>1, <1>2, <1>3, <1>4, <1>5, <1>6, <1>7, <1>8, <1>9, <1>10 DEF MainNext, ExpandAndDeclare

(* The invariant holds in every run of the program. *)
THEOREM CopiesInvariant == MainSpec => []CopiesInv
  BY MainInitHolds, MainStepKept, PTL DEF MainSpec

(* Every copy behaves as its base under the simultaneous renaming, and     *)
(* once the symbols are accepted no module writes another's variables, for *)
(* every model and list of arguments (expand_renamed_modules).             *)
THEOREM CopiesAreSound == MainSpec => []ExpansionSound
  BY CopiesInvariant, InvariantSuffices, PTL

-----------------------------------------------------------------------------
(* The options *)

(* The map that the entries of --const before the n-th fill: each constant *)
(* named has the value of the last pair that names it.                     *)
Pairs(n, texts) == {i \in DOMAIN texts : i < n /\ texts[i].kind = "pair"}

Collected(map, n, texts) ==
    /\ DOMAIN map = {texts[i].name : i \in Pairs(n, texts)}
    /\ map = [name \in DOMAIN map |-> map[name]]
    /\ \A i \in Pairs(n, texts) :
         (\A j \in Pairs(n, texts) : texts[j].name = texts[i].name => j <= i)
         => map[texts[i].name] = texts[i].value

LEMMA NothingCollected ==
  ASSUME NEW texts \in Seq(ConstEntry)
  PROVE  Collected(<<>>, 1, texts)
  BY DEF Collected, Pairs

LEMMA BlankCollected ==
  ASSUME NEW texts \in Seq(ConstEntry), NEW n \in DOMAIN texts, texts[n].kind # "pair",
         NEW map, Collected(map, n, texts)
  PROVE  Collected(map, n + 1, texts)
<1>1. Pairs(n + 1, texts) = Pairs(n, texts)
  BY DEF Pairs
<1> QED
  BY <1>1 DEF Collected

LEMMA PairCollected ==
  ASSUME NEW texts \in Seq(ConstEntry), NEW n \in DOMAIN texts, texts[n].kind = "pair",
         NEW map, Collected(map, n, texts)
  PROVE  Collected(Insert(map, texts[n].name, texts[n].value), n + 1, texts)
<1> DEFINE name == texts[n].name
           after == Insert(map, name, texts[n].value)
<1>1. after = [x \in DOMAIN map \cup {name} |-> IF x = name THEN texts[n].value ELSE map[x]]
  BY DEF Insert
<1>2. Pairs(n + 1, texts) = Pairs(n, texts) \cup {n}
  BY DEF Pairs
<1>3. \A i \in Pairs(n, texts) : i < n /\ i \in Nat /\ n \in Nat
  BY DEF Pairs
<1> HIDE DEF after
<1>4. DOMAIN after = {texts[i].name : i \in Pairs(n + 1, texts)}
  BY <1>1, <1>2 DEF Collected
<1>5. ASSUME NEW i \in Pairs(n + 1, texts),
             \A j \in Pairs(n + 1, texts) : texts[j].name = texts[i].name => j <= i
      PROVE  after[texts[i].name] = texts[i].value
  <2>1. CASE i = n
    BY <1>1, <2>1
  <2>2. CASE i \in Pairs(n, texts)
    <3>1. texts[i].name # name
      BY <1>2, <1>3, <1>5, <2>2
    <3>2. map[texts[i].name] = texts[i].value
      BY <1>2, <1>5, <2>2 DEF Collected
    <3> QED
      BY <1>1, <2>2, <3>1, <3>2 DEF Collected
  <2> QED
    BY <1>2, <2>1, <2>2
<1>6. after = [x \in DOMAIN after |-> after[x]]
  BY <1>1
<1>7. Collected(after, n + 1, texts)
  BY <1>4, <1>5, <1>6 DEF Collected
<1> QED
  BY <1>7 DEF after

LEMMA GreatestOf ==
  ASSUME NEW n \in Nat, NEW S \in SUBSET (1 .. n), S # {}
  PROVE  \E m \in S : \A i \in S : i <= m
<1> DEFINE T == {n - i : i \in S}
<1>1. T \in SUBSET Nat /\ T # {}
  <2>1. \A i \in S : i \in Nat /\ n - i \in Nat
    OBVIOUS
  <2> QED
    BY <2>1
<1>2. PICK m \in T : \A i \in T : m <= i
  <2> HIDE DEF T
  <2> QED
    BY <1>1, LeastOf
<1>3. PICK k \in S : m = n - k
  OBVIOUS
<1>4. ASSUME NEW i \in S PROVE i <= k
  <2>1. m <= n - i
    BY <1>2
  <2>2. i \in Nat /\ k \in Nat
    OBVIOUS
  <2> HIDE DEF T
  <2> QED
    BY <1>3, <2>1, <2>2
<1> QED
  BY <1>4

(* The whole list gives each constant its last value. *)
LEMMA LastValues ==
  ASSUME args.consts \in Seq(ConstEntry), NEW n \in Nat, n = Len(args.consts) + 1,
         NEW map, Collected(map, n, args.consts)
  PROVE  map = [name \in NamedConstants |-> LastValue(name)]
<1> DEFINE texts == args.consts
<1>1. Pairs(n, texts) = {j \in DOMAIN texts : texts[j].kind = "pair"}
  BY DEF Pairs
<1>2. DOMAIN map = NamedConstants
  BY <1>1 DEF Collected, NamedConstants
<1>3. ASSUME NEW name \in NamedConstants PROVE map[name] = LastValue(name)
  <2> DEFINE Gives(i) == texts[i].kind = "pair" /\ texts[i].name = name
             S == {i \in DOMAIN texts : Gives(i)}
             last == CHOOSE i \in DOMAIN texts : Gives(i) /\ \A j \in DOMAIN texts : Gives(j) => j <= i
  <2>1. S \in SUBSET (1 .. Len(texts)) /\ S # {} /\ Len(texts) \in Nat
    BY DEF NamedConstants
  <2>2. PICK m \in S : \A i \in S : i <= m
    <3> HIDE DEF S, texts
    <3> QED
      BY <2>1, GreatestOf
  <2>3. \E i \in DOMAIN texts : Gives(i) /\ \A j \in DOMAIN texts : Gives(j) => j <= i
    BY <2>2
  <2>4. last \in DOMAIN texts /\ Gives(last) /\ \A j \in DOMAIN texts : Gives(j) => j <= last
    <3> HIDE DEF Gives, texts
    <3> QED
      BY <2>3
  <2>5. LastValue(name) = texts[last].value
    BY DEF LastValue
  <2> HIDE DEF last
  <2>6. last \in Pairs(n, texts)
    BY <1>1, <2>4
  <2>7. \A j \in Pairs(n, texts) : texts[j].name = texts[last].name => j <= last
    BY <1>1, <2>4
  <2> QED
    BY <2>4, <2>5, <2>6, <2>7 DEF Collected
<1> QED
  BY <1>2, <1>3 DEF Collected

-----------------------------------------------------------------------------
(* The selection *)

(* The requests before the n-th that name a property. *)
Numbers(n, requests) == {i \in DOMAIN requests : i < n /\ requests[i].kind = "number"}

Printed(results) == {[number |-> i, result |-> results[i]] : i \in DOMAIN results}

(* What is printed so far and then what is left to print are, in order,    *)
(* what the requests before the n-th ask for; f names the request of each. *)
Serves(f, done, left, n, requests, results) ==
    /\ f \in [1 .. Len(done) + Len(left) -> DOMAIN requests]
    /\ Range(f) = Numbers(n, requests)
    /\ \A j, k \in DOMAIN f : j < k => f[j] < f[k]
    /\ \A k \in DOMAIN done :
         done[k] = [number |-> requests[f[k]].value, result |-> results[requests[f[k]].value]]
    /\ \A k \in DOMAIN left :
         /\ left[k] + 1 = requests[f[Len(done) + k]].value
         /\ left[k] + 1 \in DOMAIN results

Follows(done, left, n, requests, results) ==
    /\ done \in Seq(Printed(results)) /\ left \in Seq(Nat)
    /\ \E f : Serves(f, done, left, n, requests, results)

LEMMA NothingServed ==
  ASSUME NEW requests \in Seq(PropEntry), NEW results
  PROVE  Follows(<<>>, <<>>, 1, requests, results)
<1> DEFINE f == [k \in {} |-> 1]
<1>1. Numbers(1, requests) = {}
  BY DEF Numbers
<1>2. f \in [1 .. 0 -> DOMAIN requests] /\ Range(f) = {} /\ DOMAIN f = {}
  BY DEF Range
<1> HIDE DEF f
<1>3. Len(<<>>) = 0 /\ DOMAIN <<>> = {} /\ 0 + 0 = 0
  OBVIOUS
<1>4. f \in [1 .. Len(<<>>) + Len(<<>>) -> DOMAIN requests]
  BY <1>2, <1>3
<1>5. Serves(f, <<>>, <<>>, 1, requests, results)
  BY <1>1, <1>2, <1>3, <1>4 DEF Serves
<1> QED
  BY <1>5 DEF Follows

(* Without --props each property is a request. *)
LEMMA AllServed ==
  ASSUME NEW n \in Nat, NEW requests, NEW results,
         requests = [i \in 1 .. n |-> [kind |-> "number", value |-> i]],
         DOMAIN results = 1 .. n
  PROVE  Follows(<<>>, [i \in 1 .. n |-> i - 1], n + 1, requests, results)
<1> DEFINE f == [i \in 1 .. n |-> i]
           left == [i \in 1 .. n |-> i - 1]
<1>1. Numbers(n + 1, requests) = 1 .. n
  BY DEF Numbers
<1>2. left \in Seq(Nat) /\ Len(left) = n /\ DOMAIN left = 1 .. n
  OBVIOUS
<1>3. f \in [1 .. 0 + n -> DOMAIN requests] /\ Range(f) = 1 .. n
  BY DEF Range
<1>4. \A k \in 1 .. n : left[k] + 1 = k /\ requests[f[0 + k]].value = k
  OBVIOUS
<1>5. \A j, k \in DOMAIN f : j < k => f[j] < f[k]
  OBVIOUS
<1> HIDE DEF f, left
<1>6. Len(<<>>) = 0 /\ DOMAIN <<>> = {}
  OBVIOUS
<1>7. f \in [1 .. Len(<<>>) + Len(left) -> DOMAIN requests]
  BY <1>2, <1>3, <1>6
<1>8. \A k \in DOMAIN left : left[k] + 1 = requests[f[Len(<<>>) + k]].value /\ left[k] + 1 \in DOMAIN results
  BY <1>2, <1>4, <1>6
<1>9. Serves(f, <<>>, left, n + 1, requests, results)
  BY <1>1, <1>3, <1>5, <1>6, <1>7, <1>8 DEF Serves
<1> QED
  BY <1>2, <1>9 DEF Follows, left

LEMMA BlankServed ==
  ASSUME NEW requests \in Seq(PropEntry), NEW n \in DOMAIN requests, requests[n].kind # "number",
         NEW left, NEW results, Follows(<<>>, left, n, requests, results)
  PROVE  Follows(<<>>, left, n + 1, requests, results)
<1>1. Numbers(n + 1, requests) = Numbers(n, requests)
  BY DEF Numbers
<1> QED
  BY <1>1 DEF Follows, Serves

LEMMA NumberServed ==
  ASSUME NEW requests \in Seq(PropEntry), NEW n \in DOMAIN requests, requests[n].kind = "number",
         NEW left, NEW results, requests[n].value \in DOMAIN results, requests[n].value \in Nat \ {0},
         Follows(<<>>, left, n, requests, results)
  PROVE  Follows(<<>>, Append(left, requests[n].value - 1), n + 1, requests, results)
<1> DEFINE v == requests[n].value
           more == Append(left, v - 1)
<1>1. left \in Seq(Nat) /\ v - 1 \in Nat /\ Len(left) \in Nat
  BY DEF Follows
<1>2. /\ more \in Seq(Nat) /\ Len(more) = Len(left) + 1 /\ more[Len(left) + 1] = v - 1
      /\ \A k \in 1 .. Len(left) : more[k] = left[k]
  BY <1>1
<1>3. PICK f : Serves(f, <<>>, left, n, requests, results)
  BY DEF Follows
<1> DEFINE g == [k \in 1 .. Len(left) + 1 |-> IF k = Len(left) + 1 THEN n ELSE f[k]]
<1>4. f \in [1 .. Len(left) -> DOMAIN requests] /\ Range(f) = Numbers(n, requests)
  BY <1>1, <1>3 DEF Serves
<1>5. g \in [1 .. Len(left) + 1 -> DOMAIN requests]
  BY <1>1, <1>4
<1>6. Numbers(n + 1, requests) = Numbers(n, requests) \cup {n}
  BY DEF Numbers
<1>7. Range(g) = Range(f) \cup {n}
  <2>1. DOMAIN f = 1 .. Len(left) /\ DOMAIN g = DOMAIN f \cup {Len(left) + 1} /\ Len(left) + 1 \notin DOMAIN f
    BY <1>1, <1>4
  <2>2. g[Len(left) + 1] = n /\ \A k \in DOMAIN f : g[k] = f[k]
    BY <1>1, <2>1
  <2> HIDE DEF g
  <2> QED
    BY <2>1, <2>2 DEF Range
<1>8. ASSUME NEW j \in DOMAIN g, NEW k \in DOMAIN g, j < k PROVE g[j] < g[k]
  <2>1. j \in DOMAIN f /\ g[j] = f[j] /\ f[j] \in Nat /\ f[j] < n
    BY <1>1, <1>4, <1>8 DEF Range, Numbers
  <2>2. CASE k = Len(left) + 1
    BY <2>1, <2>2
  <2>3. CASE k # Len(left) + 1
    BY <1>1, <1>3, <1>4, <1>8, <2>1, <2>3 DEF Serves
  <2> QED
    BY <2>2, <2>3
<1>9. ASSUME NEW k \in DOMAIN more
      PROVE  more[k] + 1 = requests[g[0 + k]].value /\ more[k] + 1 \in DOMAIN results
  <2>1. CASE k = Len(left) + 1
    BY <1>1, <1>2, <2>1
  <2>2. CASE k # Len(left) + 1
    <3>1. k \in 1 .. Len(left) /\ k \in DOMAIN left /\ 0 + k = k /\ g[k] = f[k]
      BY <1>1, <1>2, <2>2
    <3> QED
      BY <1>2, <1>3, <3>1 DEF Serves
  <2> QED
    BY <2>1, <2>2
<1> HIDE DEF g, more
<1>10. g \in [1 .. Len(<<>>) + Len(more) -> DOMAIN requests]
  BY <1>1, <1>2, <1>5
<1>11. Serves(g, <<>>, more, n + 1, requests, results)
  BY <1>4, <1>6, <1>7, <1>8, <1>9, <1>10 DEF Serves
<1> QED
  BY <1>2, <1>11 DEF Follows, more

(* One answer printed moves from what is left to what is done. *)
LEMMA AnswerServed ==
  ASSUME NEW requests, NEW results, NEW n, NEW done, NEW left, left # <<>>,
         Follows(done, left, n, requests, results)
  PROVE  /\ Head(left) + 1 \in DOMAIN results
         /\ Follows(Append(done, [number |-> Head(left) + 1, result |-> results[Head(left) + 1]]),
                    Tail(left), n, requests, results)
<1> DEFINE v == Head(left) + 1
           answer == [number |-> v, result |-> results[v]]
           more == Append(done, answer)
           rest == Tail(left)
<1>1. PICK f : Serves(f, done, left, n, requests, results)
  BY DEF Follows
<1>2. done \in Seq(Printed(results)) /\ left \in Seq(Nat)
  BY DEF Follows
<1>3. Len(done) \in Nat /\ Len(left) \in Nat /\ 1 \in DOMAIN left /\ Head(left) = left[1]
  BY <1>2
<1>4. v \in DOMAIN results /\ v = requests[f[Len(done) + 1]].value
  BY <1>1, <1>3 DEF Serves
<1>5. answer \in Printed(results)
  BY <1>4 DEF Printed
<1> HIDE DEF answer
<1>6. /\ more \in Seq(Printed(results)) /\ Len(more) = Len(done) + 1 /\ more[Len(done) + 1] = answer
      /\ \A k \in 1 .. Len(done) : more[k] = done[k]
  BY <1>2, <1>5
<1>7. /\ rest \in Seq(Nat) /\ Len(rest) = Len(left) - 1
      /\ \A k \in 1 .. Len(rest) : rest[k] = left[k + 1] /\ k + 1 \in DOMAIN left
  BY <1>2, <1>3
<1>8. \A k \in DOMAIN more : more[k] = [number |-> requests[f[k]].value, result |-> results[requests[f[k]].value]]
  <2>1. \A k \in DOMAIN done : done[k] = [number |-> requests[f[k]].value, result |-> results[requests[f[k]].value]]
    BY <1>1 DEF Serves
  <2>2. more[Len(done) + 1] = [number |-> requests[f[Len(done) + 1]].value, result |-> results[requests[f[Len(done) + 1]].value]]
    BY <1>4, <1>6 DEF answer
  <2>3. \A k \in DOMAIN more : (k \in DOMAIN done /\ k \in 1 .. Len(done)) \/ k = Len(done) + 1
    BY <1>2, <1>3, <1>6
  <2> HIDE DEF more
  <2> QED
    BY <1>6, <2>1, <2>2, <2>3
<1>9. \A k \in DOMAIN rest : rest[k] + 1 = requests[f[Len(more) + k]].value /\ rest[k] + 1 \in DOMAIN results
  <2>1. SUFFICES ASSUME NEW k \in DOMAIN rest
                 PROVE  rest[k] + 1 = requests[f[Len(more) + k]].value /\ rest[k] + 1 \in DOMAIN results
    OBVIOUS
  <2>2. rest[k] = left[k + 1] /\ k + 1 \in DOMAIN left /\ k \in Nat
    BY <1>7
  <2>3. Len(more) + k = Len(done) + (k + 1)
    BY <1>3, <1>6, <2>2
  <2>4. left[k + 1] + 1 = requests[f[Len(done) + (k + 1)]].value /\ left[k + 1] + 1 \in DOMAIN results
    BY <1>1, <2>2 DEF Serves
  <2> QED
    BY <2>2, <2>3, <2>4
<1>10. Len(more) + Len(rest) = Len(done) + Len(left)
  BY <1>3, <1>6, <1>7
<1> HIDE DEF more, rest
<1>11. Serves(f, more, rest, n, requests, results)
  BY <1>1, <1>8, <1>9, <1>10 DEF Serves
<1>12. Follows(more, rest, n, requests, results)
  BY <1>6, <1>7, <1>11 DEF Follows
<1> QED
  BY <1>4, <1>12 DEF more, rest, answer

-----------------------------------------------------------------------------
(* One message, or the answers asked for *)

Results == [i \in DOMAIN args.prop_file.properties |-> AnswerFor(args.prop_file.properties[i])]

AfterAll == (IF args.props = None THEN Len(args.prop_file.properties) ELSE Len(args.props.tokens)) + 1

Before == {"const", "read", "parse", "expand", "override", "select"}
Parsed == {"expand", "override", "select", "indices", "check"}

(* The places of the run, and what is still empty there. *)
Placed ==
    /\ args \in Arguments /\ turn \in Nat
    /\ stage \in Before \cup Parsed \cup {"end"}
    /\ diagnosis # "" => stage = "end" /\ answers = <<>>
    /\ stage \in Before => selected = <<>> /\ answers = <<>>
    /\ stage \in Before \ {"const"} => turn = 1

OverridesSoFar ==
    IF stage = "const"
    THEN turn \in 1 .. Len(args.consts) + 1 /\ Collected(overrides, turn, args.consts)
    ELSE diagnosis = "" => Collected(overrides, Len(args.consts) + 1, args.consts)

(* What the analysis lets pass. *)
Accepted ==
    /\ stage \in Parsed \/ (stage = "end" /\ diagnosis = "") => properties = args.prop_file.properties
    /\ stage \in {"select", "indices", "check"} =>
         args.model_type # "mdp" /\ \A i \in DOMAIN properties : properties[i].kind # "rejected"
    /\ stage \in {"indices", "check"} => properties # <<>>

Selecting ==
    stage = "indices" =>
        /\ args.props # None /\ answers = <<>>
        /\ turn \in 1 .. Len(args.props.tokens) + 1
        /\ Follows(<<>>, selected, turn, Requests, Results)

Answering ==
    /\ stage = "check" => Follows(answers, selected, AfterAll, Requests, Results)
    /\ stage = "end" /\ diagnosis = "" =>
         IF args.model_type = "mdp" \/ properties = <<>>
         THEN answers = <<>>
         ELSE Follows(answers, <<>>, AfterAll, Requests, Results)

OptionsInv == Placed /\ OverridesSoFar /\ Accepted /\ Selecting /\ Answering

LEMMA ArgumentsTyped ==
  ASSUME args \in Arguments
  PROVE  /\ args.consts \in Seq(ConstEntry)
         /\ args.prop_file.properties \in Seq(Property)
         /\ args.props # None => args.props.tokens \in Seq(PropEntry)
  BY ArgumentsAssumption

LEMMA RequestsKept ==
  ASSUME UNCHANGED args
  PROVE  Requests' = Requests /\ Results' = Results /\ AfterAll' = AfterAll
<1>1. Requests' = Requests
  BY DEF Requests
<1>2. AfterAll' = AfterAll
  BY DEF AfterAll
<1>3. Results' = Results
  BY DEF Results, AnswerFor, NamedConstants, LastValue
<1> QED
  BY <1>1, <1>2, <1>3

LEMMA SeqShape ==
  ASSUME NEW S, NEW s \in Seq(S)
  PROVE  Len(s) \in Nat /\ DOMAIN s = 1 .. Len(s) /\ \A i \in 1 .. Len(s) : s[i] \in S
  OBVIOUS

LEMMA NoneLeft == \A n \in Nat : n + Len(<<>>) = n
<1>1. Len(<<>>) = 0
  OBVIOUS
<1> QED
  BY <1>1

(* Every request with a number is before the end of the list. *)
LEMMA AllNumbers ==
  ASSUME args \in Arguments
  PROVE  /\ DOMAIN Requests \subseteq Nat
         /\ Numbers(AfterAll, Requests) = {i \in DOMAIN Requests : Requests[i].kind = "number"}
<1>1. CASE args.props = None
  <2>1. args.prop_file.properties \in Seq(Property)
    BY ArgumentsTyped
  <2>2. Len(args.prop_file.properties) \in Nat /\ DOMAIN Requests = 1 .. Len(args.prop_file.properties)
    BY <1>1, <2>1 DEF Requests
  <2>3. AfterAll = Len(args.prop_file.properties) + 1
    BY <1>1 DEF AfterAll
  <2> QED
    BY <2>2, <2>3 DEF Numbers
<1>2. CASE args.props # None
  <2>1. args.props.tokens \in Seq(PropEntry)
    BY <1>2, ArgumentsTyped
  <2>2. Requests = args.props.tokens /\ AfterAll = Len(args.props.tokens) + 1
    BY <1>2 DEF Requests, AfterAll
  <2>3. Len(args.props.tokens) \in Nat /\ DOMAIN Requests = 1 .. Len(args.props.tokens)
    BY <2>1, <2>2
  <2> QED
    BY <2>2, <2>3 DEF Numbers
<1> QED
  BY <1>1, <1>2

LEMMA OptionsSuffice == OptionsInv => AnsweredAsAsked
<1> SUFFICES ASSUME OptionsInv, stage = "end", ~ (diagnosis # "" \/ args.model_type = "mdp" \/ properties = <<>>)
             PROVE  \E f \in [DOMAIN answers -> DOMAIN Requests] :
                      /\ Range(f) = {i \in DOMAIN Requests : Requests[i].kind = "number"}
                      /\ \A j, k \in DOMAIN answers : j < k => f[j] < f[k]
                      /\ \A k \in DOMAIN answers :
                           LET number == Requests[f[k]].value IN
                           answers[k] = [number |-> number,
                                         result |-> AnswerFor(args.prop_file.properties[number])]
  BY DEF OptionsInv, Placed, Answering, AnsweredAsAsked
<1>1. Follows(answers, <<>>, AfterAll, Requests, Results)
  BY DEF OptionsInv, Answering
<1>2. PICK f : Serves(f, answers, <<>>, AfterAll, Requests, Results)
  BY <1>1 DEF Follows
<1>3. answers \in Seq(Printed(Results))
  BY <1>1 DEF Follows
<1>4. Len(answers) \in Nat /\ DOMAIN answers = 1 .. Len(answers) /\ Len(answers) + Len(<<>>) = Len(answers)
  <2>1. Len(answers) \in Nat /\ DOMAIN answers = 1 .. Len(answers)
    BY <1>3, SeqShape
  <2> QED
    BY <2>1, NoneLeft
<1>5. f \in [DOMAIN answers -> DOMAIN Requests] /\ DOMAIN f = DOMAIN answers
  BY <1>2, <1>4 DEF Serves
<1>6. Range(f) = {i \in DOMAIN Requests : Requests[i].kind = "number"}
  BY <1>2, AllNumbers DEF Serves, OptionsInv, Placed
<1>7. ASSUME NEW k \in DOMAIN answers
      PROVE  answers[k] = [number |-> Requests[f[k]].value,
                           result |-> AnswerFor(args.prop_file.properties[Requests[f[k]].value])]
  <2> DEFINE number == Requests[f[k]].value
  <2>1. answers[k] = [number |-> number, result |-> Results[number]]
    BY <1>2 DEF Serves
  <2>2. answers[k] \in Printed(Results)
    BY <1>3, <1>4, SeqShape
  <2>3. PICK i \in DOMAIN Results : answers[k] = [number |-> i, result |-> Results[i]]
    BY <2>2 DEF Printed
  <2> HIDE DEF number
  <2>4. i = number
    <3>1. [number |-> number, result |-> Results[number]].number = number
      OBVIOUS
    <3>2. [number |-> i, result |-> Results[i]].number = i
      OBVIOUS
    <3> QED
      BY <2>1, <2>3, <3>1, <3>2
  <2>5. Results[number] = AnswerFor(args.prop_file.properties[number])
    BY <2>3, <2>4 DEF Results
  <2> QED
    BY <2>1, <2>5 DEF number
<1> QED
  BY <1>2, <1>5, <1>6, <1>7 DEF Serves

LEMMA OptionsInit == MainInit => OptionsInv
<1> SUFFICES ASSUME MainInit PROVE OptionsInv
  OBVIOUS
<1>1. args.consts \in Seq(ConstEntry)
  BY ArgumentsTyped DEF MainInit
<1>2. Len(args.consts) \in Nat
  BY <1>1, SeqShape
<1>3. 1 \in 1 .. Len(args.consts) + 1
  BY <1>2
<1>4. OverridesSoFar
  BY <1>1, <1>3, NothingCollected DEF MainInit, OverridesSoFar
<1> QED
  BY <1>4 DEF MainInit, OptionsInv, Placed, Before, Parsed, Accepted, Selecting, Answering

(* A step with a message keeps all else as it is. *)
LEMMA FailKeeps ==
  ASSUME OptionsInv, NEW why, why # "", answers = <<>>, Fail(why)
  PROVE  OptionsInv'
  BY DEF OptionsInv, Placed, Before, Parsed, OverridesSoFar, Accepted, Selecting, Answering,
         Fail, Reject, cliVars, modelVars

LEMMA ConstKeeps == OptionsInv /\ ParseConstArg => OptionsInv'
<1> SUFFICES ASSUME OptionsInv, ParseConstArg PROVE OptionsInv'
  OBVIOUS
<1> DEFINE texts == args.consts
<1>1. stage = "const" /\ texts \in Seq(ConstEntry) /\ Len(texts) \in Nat
      /\ turn \in 1 .. Len(texts) + 1 /\ Collected(overrides, turn, texts)
  <2>1. texts \in Seq(ConstEntry)
    BY ArgumentsTyped DEF OptionsInv, Placed
  <2>2. stage = "const"
    BY DEF ParseConstArg
  <2> QED
    BY <2>1, <2>2 DEF OptionsInv, OverridesSoFar
<1>2. answers = <<>> /\ selected = <<>>
  BY <1>1 DEF OptionsInv, Placed, Before
<1>3. CASE turn > Len(texts)
  <2>1. turn = Len(texts) + 1
    BY <1>1, <1>3
  <2>2. OverridesSoFar'
    BY <1>1, <1>3, <2>1 DEF ParseConstArg, Proceed, OverridesSoFar
  <2>3. stage' = "read" /\ turn' = 1 /\ UNCHANGED <<diagnosis, args, properties, selected, answers>>
    BY <1>1, <1>3 DEF ParseConstArg, Proceed
  <2> HIDE DEF texts
  <2>4. Placed'
    BY <1>1, <1>2, <2>3 DEF OptionsInv, Placed, Before, Parsed
  <2>5. Accepted' /\ Selecting' /\ Answering'
    BY <2>3 DEF Parsed, Accepted, Selecting, Answering
  <2> QED
    BY <2>2, <2>4, <2>5 DEF OptionsInv
<1>4. CASE turn \in 1 .. Len(texts) /\ texts[turn].kind \in {"malformed", "nameless"}
  <2>1. Fail("--const")
    BY <1>1, <1>4 DEF ParseConstArg
  <2> QED
    BY <1>2, <2>1, FailKeeps
<1>5. CASE turn \in 1 .. Len(texts) /\ texts[turn].kind \in {"blank", "pair"}
  <2>1. /\ turn' = turn + 1
        /\ overrides' = IF texts[turn].kind = "blank" THEN overrides
                        ELSE Insert(overrides, texts[turn].name, texts[turn].value)
        /\ UNCHANGED <<modelVars, stage, diagnosis, args, properties, selected, answers>>
    BY <1>1, <1>5 DEF ParseConstArg
  <2>2. turn \in DOMAIN texts
    BY <1>1, <1>5
  <2>3. Collected(overrides', turn + 1, texts)
    <3> HIDE DEF texts
    <3>1. CASE texts[turn].kind = "blank"
      BY <1>1, <2>1, <2>2, <3>1, BlankCollected
    <3>2. CASE texts[turn].kind = "pair"
      BY <1>1, <2>1, <2>2, <3>2, PairCollected
    <3> QED
      BY <1>5, <3>1, <3>2
  <2>4. OverridesSoFar'
    BY <1>1, <1>5, <2>1, <2>3 DEF OverridesSoFar
  <2>5. Placed'
    <3>1. turn' \in Nat
      BY <1>1, <2>1
    <3> QED
      BY <1>1, <1>2, <2>1, <3>1 DEF OptionsInv, Placed, Before, Parsed
  <2>6. Accepted' /\ Selecting' /\ Answering'
    BY <1>1, <2>1 DEF Parsed, Accepted, Selecting, Answering
  <2> QED
    BY <2>4, <2>5, <2>6 DEF OptionsInv
<1>6. turn \in 1 .. Len(texts) => texts[turn].kind \in {"malformed", "nameless", "blank", "pair"}
  BY <1>1 DEF ConstEntry
<1> QED
  BY <1>1, <1>3, <1>4, <1>5, <1>6

(* The steps that neither read an option nor answer. *)
LEMMA OthersKeep ==
  ASSUME OptionsInv, stage \in {"read", "parse", "expand", "override"},
         UNCHANGED <<args, turn, overrides, selected, answers>>,
         \/ /\ diagnosis' = diagnosis
            /\ \/ stage = "read" /\ stage' = "parse" /\ UNCHANGED properties
               \/ stage = "parse" /\ stage' = "expand" /\ properties' = args.prop_file.properties
               \/ stage = "expand" /\ stage' \in {"expand", "override"} /\ UNCHANGED properties
               \/ /\ stage = "override" /\ UNCHANGED properties
                  /\ \A i \in DOMAIN properties : properties[i].kind # "rejected"
                  /\ stage' = IF args.model_type = "mdp" THEN "end" ELSE "select"
         \/ diagnosis' # "" /\ stage' = "end"
  PROVE  OptionsInv'
<1>1. Placed'
  BY DEF OptionsInv, Placed, Before, Parsed
<1>2. OverridesSoFar'
  BY DEF OptionsInv, Placed, OverridesSoFar
<1>3. Accepted'
  BY DEF OptionsInv, Placed, Accepted, Parsed
<1>4. Selecting' /\ Answering'
  BY DEF OptionsInv, Placed, Before, Selecting, Answering
<1> QED
  BY <1>1, <1>2, <1>3, <1>4 DEF OptionsInv

LEMMA SelectKeeps == OptionsInv /\ Select => OptionsInv'
<1> SUFFICES ASSUME OptionsInv, Select PROVE OptionsInv'
  OBVIOUS
<1>1. /\ stage = "select" /\ answers = <<>> /\ selected = <<>> /\ turn = 1 /\ args \in Arguments
      /\ properties = args.prop_file.properties /\ diagnosis = ""
  BY DEF Select, OptionsInv, Placed, Accepted, Before, Parsed
<1>2. args.prop_file.properties \in Seq(Property)
  BY <1>1, ArgumentsTyped
<1>3. CASE properties = <<>>
  <2>1. stage' = "end" /\ UNCHANGED <<diagnosis, args, turn, overrides, properties, selected, answers>>
    BY <1>3 DEF Select, Proceed, cliVars
  <2> QED
    BY <1>1, <1>3, <2>1 DEF OptionsInv, Placed, OverridesSoFar, Accepted, Selecting, Answering, Before, Parsed
<1>4. CASE properties # <<>> /\ args.props = None
  <2>1. /\ stage' = "check" /\ selected' = [i \in DOMAIN properties |-> i - 1]
        /\ UNCHANGED <<diagnosis, args, turn, overrides, properties, answers>>
    BY <1>4 DEF Select, Proceed
  <2> DEFINE n == Len(args.prop_file.properties)
  <2>2. n \in Nat /\ DOMAIN args.prop_file.properties = 1 .. n
    BY <1>2
  <2>3. Requests = [i \in 1 .. n |-> [kind |-> "number", value |-> i]] /\ AfterAll = n + 1
        /\ DOMAIN Results = 1 .. n
    BY <1>4, <2>2 DEF Requests, AfterAll, Results
  <2>4. selected' = [i \in 1 .. n |-> i - 1]
    BY <1>1, <2>1, <2>2
  <2> HIDE DEF n
  <2>5. Follows(<<>>, selected', AfterAll, Requests, Results)
    BY <2>2, <2>3, <2>4, AllServed
  <2>6. Answering'
    BY <1>1, <2>1, <2>5, RequestsKept DEF Answering
  <2> QED
    BY <1>1, <1>4, <2>1, <2>6 DEF OptionsInv, Placed, OverridesSoFar, Accepted, Selecting, Before, Parsed
<1>5. CASE properties # <<>> /\ args.props # None
  <2>1. stage' = "indices" /\ UNCHANGED <<diagnosis, args, turn, overrides, properties, selected, answers>>
    BY <1>5 DEF Select, Proceed
  <2>2. args.props.tokens \in Seq(PropEntry) /\ Requests = args.props.tokens
    BY <1>1, <1>5, ArgumentsTyped DEF Requests
  <2>3. Follows(<<>>, selected, turn, Requests, Results)
    BY <1>1, <2>2, NothingServed
  <2>4. turn \in 1 .. Len(args.props.tokens) + 1
    <3>1. Len(args.props.tokens) \in Nat
      BY <2>2, SeqShape
    <3>2. 1 \in 1 .. Len(args.props.tokens) + 1
      BY <3>1
    <3> QED
      BY <1>1, <3>2, Zenon
  <2>5. Selecting'
    BY <1>1, <1>5, <2>1, <2>3, <2>4, RequestsKept DEF Selecting
  <2> QED
    BY <1>1, <1>5, <2>1, <2>5 DEF OptionsInv, Placed, OverridesSoFar, Accepted, Answering, Before, Parsed
<1> QED
  BY <1>3, <1>4, <1>5

LEMMA IndicesKeep == OptionsInv /\ ParsePropIndicesArg => OptionsInv'
<1> SUFFICES ASSUME OptionsInv, ParsePropIndicesArg PROVE OptionsInv'
  OBVIOUS
<1> DEFINE tokens == args.props.tokens
<1>1. /\ stage = "indices" /\ answers = <<>> /\ args \in Arguments /\ args.props # None
      /\ properties = args.prop_file.properties /\ diagnosis = ""
  BY DEF ParsePropIndicesArg, OptionsInv, Placed, Accepted, Selecting, Parsed
<1>2. tokens \in Seq(PropEntry) /\ Requests = tokens /\ AfterAll = Len(tokens) + 1 /\ Len(tokens) \in Nat
  <2>1. tokens \in Seq(PropEntry)
    BY <1>1, ArgumentsTyped
  <2>2. Len(tokens) \in Nat
    BY <2>1, SeqShape
  <2> QED
    BY <1>1, <2>1, <2>2 DEF Requests, AfterAll
<1>3. turn \in 1 .. Len(tokens) + 1 /\ Follows(<<>>, selected, turn, tokens, Results)
  BY <1>1, <1>2 DEF OptionsInv, Selecting
<1>4. DOMAIN Results = 1 .. Len(properties)
  <2>1. properties \in Seq(Property)
    BY <1>1, ArgumentsTyped
  <2> QED
    BY <1>1, <2>1, SeqShape DEF Results
<1>5. CASE turn > Len(tokens)
  <2>1. stage' = "check" /\ UNCHANGED <<diagnosis, args, turn, overrides, properties, selected, answers>>
    BY <1>5 DEF ParsePropIndicesArg, Proceed, cliVars
  <2>2. turn = AfterAll
    BY <1>2, <1>3, <1>5
  <2>3. Answering'
    BY <1>1, <1>2, <1>3, <2>1, <2>2, RequestsKept DEF Answering
  <2> QED
    BY <1>1, <2>1, <2>3 DEF OptionsInv, Placed, OverridesSoFar, Accepted, Selecting, Before, Parsed
<1>6. CASE turn \in 1 .. Len(tokens) /\ (Fail("--props"))
  BY <1>1, <1>6, FailKeeps
<1>7. CASE /\ turn \in 1 .. Len(tokens) /\ turn' = turn + 1
           /\ \/ tokens[turn].kind = "blank" /\ UNCHANGED selected
              \/ /\ tokens[turn].kind = "number" /\ tokens[turn].value \in 1 .. Len(properties)
                 /\ selected' = Append(selected, tokens[turn].value - 1)
           /\ UNCHANGED <<modelVars, stage, diagnosis, args, overrides, properties, answers>>
  <2>1. turn \in DOMAIN tokens
    BY <1>2, <1>7
  <2>2. Follows(<<>>, selected', turn + 1, tokens, Results)
    <3> HIDE DEF tokens
    <3>1. CASE tokens[turn].kind = "blank" /\ UNCHANGED selected
      BY <1>2, <1>3, <2>1, <3>1, BlankServed
    <3>2. CASE /\ tokens[turn].kind = "number" /\ tokens[turn].value \in 1 .. Len(properties)
               /\ selected' = Append(selected, tokens[turn].value - 1)
      <4>1. tokens[turn].value \in DOMAIN Results /\ tokens[turn].value \in Nat \ {0}
        BY <1>4, <3>2
      <4> QED
        BY <1>2, <1>3, <2>1, <3>2, <4>1, NumberServed
    <3> QED
      BY <1>7, <3>1, <3>2
  <2>3. turn' \in 1 .. Len(tokens) + 1 /\ turn' \in Nat
    BY <1>2, <1>7
  <2>4. Follows(<<>>, selected', turn', Requests', Results')
    BY <1>2, <1>7, <2>2, RequestsKept
  <2>5. Selecting'
    BY <1>1, <1>7, <2>3, <2>4 DEF Selecting
  <2>6. stage' = "indices" /\ UNCHANGED <<diagnosis, args, overrides, properties, answers>>
    BY <1>1, <1>7
  <2>7. Placed'
    BY <1>1, <2>3, <2>6 DEF OptionsInv, Placed, Before, Parsed
  <2>8. OverridesSoFar' /\ Accepted' /\ Answering'
    BY <1>1, <2>6 DEF OptionsInv, OverridesSoFar, Accepted, Answering, Parsed
  <2> QED
    BY <2>5, <2>7, <2>8 DEF OptionsInv
<1> QED
  BY <1>2, <1>3, <1>5, <1>6, <1>7 DEF ParsePropIndicesArg

LEMMA EvaluationIs ==
  ASSUME OptionsInv, stage = "check", NEW i \in DOMAIN Results
  PROVE  Evaluation(properties[i]) = Results[i]
<1>1. properties = args.prop_file.properties /\ properties[i].kind # "rejected" /\ args \in Arguments /\ diagnosis = ""
  BY DEF OptionsInv, Accepted, Parsed, Results, Placed
<1>2. args.prop_file.properties \in Seq(Property) /\ args.consts \in Seq(ConstEntry)
  BY <1>1, ArgumentsTyped
<1>3. i \in DOMAIN properties /\ Results[i] = AnswerFor(properties[i])
  BY <1>1 DEF Results
<1>4. properties[i] \in Property
  BY <1>1, <1>2, <1>3, SeqShape
<1>5. properties[i].kind \in {"probability", "reward"}
  BY <1>1, <1>4 DEF Property
<1>6. overrides = [name \in NamedConstants |-> LastValue(name)]
  <2>1. Collected(overrides, Len(args.consts) + 1, args.consts)
    BY <1>1 DEF OptionsInv, OverridesSoFar
  <2>2. Len(args.consts) + 1 \in Nat
    BY <1>2
  <2> QED
    BY <1>2, <2>1, <2>2, LastValues
<1> QED
  BY <1>3, <1>5, <1>6 DEF Evaluation, AnswerFor

LEMMA CheckingKeeps == OptionsInv /\ Check => OptionsInv'
<1> SUFFICES ASSUME OptionsInv, Check PROVE OptionsInv'
  OBVIOUS
<1>1. stage = "check" /\ diagnosis = "" /\ Follows(answers, selected, AfterAll, Requests, Results)
      /\ args.model_type # "mdp" /\ properties # <<>> /\ properties = args.prop_file.properties
  BY DEF Check, OptionsInv, Placed, Answering, Accepted, Parsed
<1>2. CASE selected = <<>>
  <2>1. stage' = "end" /\ UNCHANGED <<diagnosis, args, turn, overrides, properties, selected, answers>>
    BY <1>2 DEF Check, Proceed, cliVars
  <2>2. Answering'
    BY <1>1, <1>2, <2>1, RequestsKept DEF Answering
  <2> QED
    BY <1>1, <2>1, <2>2 DEF OptionsInv, Placed, OverridesSoFar, Accepted, Selecting, Before, Parsed
<1>3. CASE selected # <<>>
  <2> DEFINE v == Head(selected) + 1
  <2>1. /\ answers' = Append(answers, [number |-> v, result |-> Evaluation(properties[v])])
        /\ selected' = Tail(selected)
        /\ UNCHANGED <<modelVars, stage, diagnosis, args, turn, overrides, properties>>
    BY <1>3 DEF Check
  <2>2. /\ v \in DOMAIN Results
        /\ Follows(Append(answers, [number |-> v, result |-> Results[v]]), Tail(selected), AfterAll, Requests, Results)
    BY <1>1, <1>3, AnswerServed
  <2>3. Evaluation(properties[v]) = Results[v]
    BY <1>1, <2>2, EvaluationIs
  <2> HIDE DEF v
  <2>4. Follows(answers', selected', AfterAll, Requests, Results)
    BY <2>1, <2>2, <2>3
  <2>5. Answering'
    BY <1>1, <2>1, <2>4, RequestsKept DEF Answering
  <2> QED
    BY <1>1, <2>1, <2>5 DEF OptionsInv, Placed, OverridesSoFar, Accepted, Selecting, Before, Parsed
<1> QED
  BY <1>2, <1>3

LEMMA OptionsStep == OptionsInv /\ [MainNext]_allVars => OptionsInv'
<1> SUFFICES ASSUME OptionsInv, [MainNext]_allVars PROVE OptionsInv'
  OBVIOUS
<1>1. CASE UNCHANGED allVars
  <2>1. UNCHANGED <<stage, diagnosis, args, turn, overrides, properties, selected, answers>>
    BY <1>1 DEF allVars, cliVars
  <2> QED
    BY <2>1, RequestsKept DEF OptionsInv, Placed, OverridesSoFar, Accepted, Selecting, Answering
<1>2. CASE ParseConstArg
  BY <1>2, ConstKeeps
<1>3. CASE ReadFiles
  BY <1>3, OthersKeep DEF ReadFiles, Fail, Reject, Proceed, cliVars
<1>4. CASE Parse
  BY <1>4, OthersKeep DEF Parse, Fail, Reject, Proceed, cliVars
<1>5. CASE ExpandAndDeclare
  BY <1>5, OthersKeep DEF ExpandAndDeclare, ExpandModule, DeclareSymbols, Reject, cliVars
<1>6. CASE Analyse
  BY <1>6, OthersKeep DEF Analyse, Fail, Reject, Proceed, cliVars
<1>7. CASE Select
  BY <1>7, SelectKeeps
<1>8. CASE ParsePropIndicesArg
  BY <1>8, IndicesKeep
<1>9. CASE Check
  BY <1>9, CheckingKeeps
<1> QED
  BY <1>1, <1>2, <1>3, <1>4, <1>5, <1>6, <1>7, <1>8, <1>9 DEF MainNext

(* The second invariant: what the loops over the options have collected.   *)
THEOREM OptionsInvariant == MainSpec => []OptionsInv
  BY OptionsInit, OptionsStep, PTL DEF MainSpec

(* A run ends with one message and no answer, or with the answers asked    *)
(* for, by their numbers, in the order asked and under the overrides given *)
(* last, for every list of arguments (main).                               *)
THEOREM AnswersAreAsked == MainSpec => []AnsweredAsAsked
  BY OptionsInvariant, OptionsSuffice, PTL
=============================================================================
