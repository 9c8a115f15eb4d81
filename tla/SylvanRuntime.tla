--------------------------- MODULE SylvanRuntime ----------------------------
(***************************************************************************)
(* DDManager and the process-wide Sylvan runtime (src/src/dd_manager.rs)   *)
(* shared by several threads, as when the tests run in parallel.  A thread *)
(* runs jobs one after another; a job builds a SymbolicDTMC, calls Sylvan, *)
(* and returns or panics.  A manager holds the API mutex until it is       *)
(* dropped, and drop order follows the declarations: the locals of the     *)
(* functions, then mgr, then the slots in the fields after it.             *)
(***************************************************************************)
EXTENDS Naturals

CONSTANTS
    Thread,
    NoThread,   \* the holder of a free mutex
    MaxJobs,    \* jobs a thread runs
    MaxLocals,  \* stack slots a job holds at a time
    Fields      \* slots SymbolicDTMC::new registers

ASSUME RuntimeAssumption ==
    /\ NoThread \notin Thread
    /\ MaxJobs \in Nat
    /\ MaxLocals \in Nat
    /\ Fields \in Nat

VARIABLES
    pc,           \* where a thread stands
    jobs,         \* jobs a thread has begun
    api,          \* the thread whose manager holds the API mutex
    runtime,      \* the thread that holds the mutex of SylvanRuntime
    poisoned,     \* a guard of the API mutex was dropped by a panic
    initialized,  \* SylvanRuntime::initialized
    starts,       \* times Lace and Sylvan were started
    locals,       \* the registered stack slots of a thread
    fields,       \* the registered slots of a thread's SymbolicDTMC
    panicking     \* the thread unwinds

runtimeVars == <<pc, jobs, api, runtime, poisoned, initialized, starts, locals, fields, panicking>>

RuntimeTypeOK ==
    /\ pc \in [Thread -> {"idle", "locked", "checking", "starting", "new", "working",
                          "calling", "dropping", "released", "unregistering"}]
    /\ jobs \in [Thread -> 0 .. MaxJobs]
    /\ api \in Thread \union {NoThread}
    /\ runtime \in Thread \union {NoThread}
    /\ poisoned \in BOOLEAN
    /\ initialized \in BOOLEAN
    /\ starts \in Nat
    /\ locals \in [Thread -> 0 .. MaxLocals]
    /\ fields \in [Thread -> 0 .. Fields]
    /\ panicking \in [Thread -> BOOLEAN]

RuntimeInit ==
    /\ pc = [t \in Thread |-> "idle"]
    /\ jobs = [t \in Thread |-> 0]
    /\ api = NoThread /\ runtime = NoThread
    /\ poisoned = FALSE
    /\ initialized = FALSE
    /\ starts = 0
    /\ locals = [t \in Thread |-> 0]
    /\ fields = [t \in Thread |-> 0]
    /\ panicking = [t \in Thread |-> FALSE]

-----------------------------------------------------------------------------
GoTo(t, place) == pc' = [pc EXCEPT ![t] = place]

(* Slip: the lock of a panicked job is not taken over. *)
LockApiUnlessPoisoned(t) ==
    /\ pc[t] = "idle"
    /\ jobs[t] < MaxJobs
    /\ api = NoThread
    /\ ~ poisoned
    /\ api' = t
    /\ jobs' = [jobs EXCEPT ![t] = @ + 1]
    /\ panicking' = [panicking EXCEPT ![t] = FALSE]
    /\ GoTo(t, "locked")
    /\ UNCHANGED <<runtime, poisoned, initialized, starts, locals, fields>>

(* lock_sylvan_api: a poisoned mutex gives its guard all the same. *)
LockApi(t) ==
    /\ pc[t] = "idle"
    /\ jobs[t] < MaxJobs
    /\ api = NoThread
    /\ api' = t
    /\ jobs' = [jobs EXCEPT ![t] = @ + 1]
    /\ panicking' = [panicking EXCEPT ![t] = FALSE]
    /\ GoTo(t, "locked")
    /\ UNCHANGED <<runtime, poisoned, initialized, starts, locals, fields>>

LockRuntime(t) ==
    /\ pc[t] = "locked"
    /\ runtime = NoThread
    /\ runtime' = t
    /\ GoTo(t, "checking")
    /\ UNCHANGED <<jobs, api, poisoned, initialized, starts, locals, fields, panicking>>

(* ensure_runtime_started finds the runtime running. *)
FindStarted(t) ==
    /\ pc[t] = "checking"
    /\ initialized
    /\ runtime' = NoThread
    /\ GoTo(t, "new")
    /\ UNCHANGED <<jobs, api, poisoned, initialized, starts, locals, fields, panicking>>

(* Slip: the flag is not looked at. *)
StartUnchecked(t) ==
    /\ pc[t] = "checking"
    /\ starts' = starts + 1
    /\ GoTo(t, "starting")
    /\ UNCHANGED <<jobs, api, runtime, poisoned, initialized, locals, fields, panicking>>

(* Lace_start ... Sylvan_init_bdd. *)
Start(t) ==
    /\ pc[t] = "checking"
    /\ ~ initialized
    /\ starts' = starts + 1
    /\ GoTo(t, "starting")
    /\ UNCHANGED <<jobs, api, runtime, poisoned, initialized, locals, fields, panicking>>

FinishStart(t) ==
    /\ pc[t] = "starting"
    /\ initialized' = TRUE
    /\ runtime' = NoThread
    /\ GoTo(t, "new")
    /\ UNCHANGED <<jobs, api, poisoned, starts, locals, fields, panicking>>

(* Slip: the guard of the mutex is not kept in the manager. *)
NewFieldsUnguarded(t) ==
    /\ pc[t] = "new"
    /\ fields' = [fields EXCEPT ![t] = Fields]
    /\ api' = NoThread
    /\ GoTo(t, "working")
    /\ UNCHANGED <<jobs, runtime, poisoned, initialized, starts, locals, panicking>>

(* The slots of SymbolicDTMC::new, made after its mgr. *)
NewFields(t) ==
    /\ pc[t] = "new"
    /\ fields' = [fields EXCEPT ![t] = Fields]
    /\ GoTo(t, "working")
    /\ UNCHANGED <<jobs, api, runtime, poisoned, initialized, starts, locals, panicking>>

EnterCall(t) ==
    /\ pc[t] = "working"
    /\ GoTo(t, "calling")
    /\ UNCHANGED <<jobs, api, runtime, poisoned, initialized, starts, locals, fields, panicking>>

LeaveCall(t) ==
    /\ pc[t] = "calling"
    /\ GoTo(t, "working")
    /\ UNCHANGED <<jobs, api, runtime, poisoned, initialized, starts, locals, fields, panicking>>

(* protected_bdd! and its like. *)
ProtectLocal(t) ==
    /\ pc[t] = "working"
    /\ locals[t] < MaxLocals
    /\ locals' = [locals EXCEPT ![t] = @ + 1]
    /\ UNCHANGED <<pc, jobs, api, runtime, poisoned, initialized, starts, fields, panicking>>

(* Slip: a slot is unregistered a second time. *)
DropLocalAgain(t) ==
    /\ pc[t] \in {"working", "dropping"}
    /\ locals' = [locals EXCEPT ![t] = @ - 1]
    /\ UNCHANGED <<pc, jobs, api, runtime, poisoned, initialized, starts, fields, panicking>>

(* A scope ends: by itself, or because the job returns or panics. *)
DropLocal(t) ==
    /\ pc[t] \in {"working", "dropping"}
    /\ locals[t] > 0
    /\ locals' = [locals EXCEPT ![t] = @ - 1]
    /\ UNCHANGED <<pc, jobs, api, runtime, poisoned, initialized, starts, fields, panicking>>

(* The job returns, or a panic unwinds it (must_node, an assertion of a    *)
(* test).                                                                  *)
EndJob(t) ==
    /\ pc[t] = "working"
    /\ \E panic \in BOOLEAN : panicking' = [panicking EXCEPT ![t] = panic]
    /\ GoTo(t, "dropping")
    /\ UNCHANGED <<jobs, api, runtime, poisoned, initialized, starts, locals, fields>>

(* Slip: the slots on the stack are left registered by a panic. *)
DropManagerEarly(t) ==
    /\ pc[t] = "dropping"
    /\ locals[t] = 0 \/ panicking[t]
    /\ api' = NoThread
    /\ poisoned' = (poisoned \/ panicking[t])
    /\ GoTo(t, "released")
    /\ UNCHANGED <<jobs, runtime, initialized, starts, locals, fields, panicking>>

(* mgr is the first field of SymbolicDTMC: the mutex is free before the    *)
(* slots of the fields after it are unregistered.                          *)
DropManager(t) ==
    /\ pc[t] = "dropping"
    /\ locals[t] = 0
    /\ api' = NoThread
    /\ poisoned' = (poisoned \/ panicking[t])
    /\ GoTo(t, "released")
    /\ UNCHANGED <<jobs, runtime, initialized, starts, locals, fields, panicking>>

(* Drop for ProtectedSlot calls Sylvan_mtbdd_unprotect, now without the    *)
(* mutex; the slot is registered until that call returns.                  *)
UnregisterField(t) ==
    /\ pc[t] = "released"
    /\ fields[t] > 0
    /\ GoTo(t, "unregistering")
    /\ UNCHANGED <<jobs, api, runtime, poisoned, initialized, starts, locals, fields, panicking>>

FieldUnregistered(t) ==
    /\ pc[t] = "unregistering"
    /\ fields' = [fields EXCEPT ![t] = @ - 1]
    /\ GoTo(t, "released")
    /\ UNCHANGED <<jobs, api, runtime, poisoned, initialized, starts, locals, panicking>>

Dropped(t) ==
    /\ pc[t] = "released"
    /\ fields[t] = 0
    /\ GoTo(t, "idle")
    /\ UNCHANGED <<jobs, api, runtime, poisoned, initialized, starts, locals, fields, panicking>>

Manage(t) ==
    \/ LockApi(t) \/ LockRuntime(t) \/ FindStarted(t) \/ Start(t) \/ FinishStart(t)
    \/ NewFields(t) \/ DropManager(t)

Work(t) ==
    EnterCall(t) \/ LeaveCall(t) \/ ProtectLocal(t) \/ DropLocal(t)

Leave(t) ==
    EndJob(t) \/ UnregisterField(t) \/ FieldUnregistered(t) \/ Dropped(t)

RuntimeNext == \E t \in Thread : Manage(t) \/ Work(t) \/ Leave(t)

(* The threads run, a call of Sylvan returns, and a job ends some day.     *)
RuntimeSpec ==
    /\ RuntimeInit /\ [][RuntimeNext]_runtimeVars
    /\ \A t \in Thread :
          /\ WF_runtimeVars(Manage(t))
          /\ WF_runtimeVars(LeaveCall(t))
          /\ SF_runtimeVars(EndJob(t))
          /\ WF_runtimeVars(pc[t] = "dropping" /\ DropLocal(t))
          /\ WF_runtimeVars(UnregisterField(t) \/ FieldUnregistered(t) \/ Dropped(t))

-----------------------------------------------------------------------------
(* Between the lock and the drop of the manager. *)
Holding == {t \in Thread : pc[t] \notin {"idle", "released", "unregistering"}}

InSylvan == {t \in Thread : pc[t] \in {"starting", "calling", "unregistering"}}

(* A thread that starts Sylvan, calls it or has slots on its stack is the  *)
(* one whose manager holds the mutex, also while it unwinds; of two        *)
(* threads inside Sylvan at once, one at least is only giving back a field *)
(* of a chain whose manager is gone, which the code does with no mutex     *)
(* (dd_manager.rs:62-142, symbolic_dtmc.rs:19, protected_slot.rs:52-58).   *)
Serialized ==
    /\ \A t \in Thread : t \in Holding \/ locals[t] > 0 => api = t
    /\ \A t, u \in InSylvan : t # u => "unregistering" \in {pc[t], pc[u]}

(* Lace and Sylvan are started once for the process, and before any slot   *)
(* is registered or any call is made (dd_manager.rs:99-130).               *)
StartedOnce ==
    /\ starts <= 1
    /\ \A t \in Thread :
          pc[t] = "calling" \/ locals[t] > 0 \/ fields[t] > 0 => initialized /\ starts = 1

(* A job leaves no root behind, whether it returned or panicked: a thread  *)
(* between jobs owns no registered slot, or its memory would be scanned    *)
(* after it is gone (protected_local.rs:46-52, protected_slot.rs:52-58).   *)
RootsReturned ==
    \A t \in Thread : pc[t] \in {"idle", "locked"} => locals[t] = 0 /\ fields[t] = 0

(* A panic in one thread stops no other: every thread gets to run all its  *)
(* jobs (the poison is ignored in dd_manager.rs:77-81).                    *)
Served ==
    \A t \in Thread : <>(jobs[t] = MaxJobs /\ pc[t] = "idle")
=============================================================================
