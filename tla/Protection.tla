----------------------------- MODULE Protection -----------------------------
(***************************************************************************)
(* Root protection of decision-diagram nodes (src/src/dd_manager/          *)
(* protected_local.rs and protected_slot.rs) against Sylvan's mark-and-    *)
(* sweep collector.  A function body is the sequence of the diagram calls, *)
(* root registrations and scope ends it makes; a collection may come       *)
(* inside every call and keeps what the registered slots hold.  What a     *)
(* reclaimed node's memory holds afterwards is not modelled: to use the    *)
(* node is the error.  Every result is a node of its own, whereas Sylvan   *)
(* shares equal nodes: a slot elsewhere may keep a result that is gone     *)
(* here, and nothing gone there is kept here.                              *)
(***************************************************************************)
EXTENDS Naturals, Sequences

CONSTANTS
    Fn,    \* the functions whose bodies are run
    Name,  \* the variables and slots the bodies name
    Body,  \* what each function owns rooted on entry, and its steps
    Fresh  \* the plain results each function hands to the call after

(* let: a call whose result is bound to a plain variable.                  *)
(* protect: a call whose result goes straight into a registered slot       *)
(*   (protected_x!(n, call), or set/replace on such a slot).               *)
(* store: an existing node is put into a slot, with no call.               *)
(* read: the program walks nodes by itself, with no call.                  *)
(* drop: slots go out of scope and are unregistered.                       *)
Step == [kind : {"let", "protect", "store", "read", "drop"}, to : Name, reads : SUBSET Name]

ASSUME BodyShape ==
    /\ Body \in [Fn -> [owned : SUBSET Name, steps : Seq(Step)]]
    /\ Fresh \in [Fn -> SUBSET Name]

VARIABLES
    fn,      \* the function that runs
    at,      \* its next step
    inside,  \* whether the call of that step has been entered
    node,    \* the node every name was last bound to: <<name, step that made it>>
    alive,   \* the nodes not reclaimed
    rooted   \* the names of the registered slots

vars == <<fn, at, inside, node, alive, rooted>>

Node == Name \X Nat

Running == at <= Len(Body[fn].steps)
step == Body[fn].steps[at]

(* The types; a call in progress is a step of the function. *)
TypeOK ==
    /\ fn \in Fn
    /\ at \in 1 .. Len(Body[fn].steps) + 1
    /\ inside \in BOOLEAN
    /\ inside => Running /\ step.kind \in {"let", "protect"}
    /\ node \in [Name -> Node]
    /\ alive \in SUBSET Node
    /\ rooted \in SUBSET Name

(* The function starts with its arguments and the model's fields rooted by *)
(* the caller.  A name not bound yet is never read.                        *)
Init ==
    /\ fn \in Fn
    /\ at = 1
    /\ inside = FALSE
    /\ node = [n \in Name |-> <<n, 0>>]
    /\ alive = {<<n, 0>> : n \in Name}
    /\ rooted = Body[fn].owned

-----------------------------------------------------------------------------
Enter ==
    /\ Running
    /\ ~ inside
    /\ step.kind \in {"let", "protect"}
    /\ inside' = TRUE
    /\ UNCHANGED <<fn, at, node, alive, rooted>>

(* The collector marks what the registered slots hold and sweeps the rest. *)
Collect ==
    /\ inside
    /\ alive' = alive \intersect {node[n] : n \in rooted}
    /\ UNCHANGED <<fn, at, inside, node, rooted>>

(* Slip: the call is still in progress when the next step is reached. *)
ReturnInside ==
    /\ inside
    /\ node' = [node EXCEPT ![step.to] = <<step.to, at>>]
    /\ alive' = alive \union {<<step.to, at>>}
    /\ rooted' = IF step.kind = "protect" THEN rooted \union {step.to} ELSE rooted
    /\ inside' = TRUE
    /\ at' = at + 1
    /\ UNCHANGED fn

Return ==
    /\ inside
    /\ node' = [node EXCEPT ![step.to] = <<step.to, at>>]
    /\ alive' = alive \union {<<step.to, at>>}
    /\ rooted' = IF step.kind = "protect" THEN rooted \union {step.to} ELSE rooted
    /\ inside' = FALSE
    /\ at' = at + 1
    /\ UNCHANGED fn

StoreNode ==
    /\ Running
    /\ step.kind = "store"
    /\ \E n \in step.reads : node' = [node EXCEPT ![step.to] = node[n]]
    /\ rooted' = rooted \union {step.to}
    /\ at' = at + 1
    /\ UNCHANGED <<fn, inside, alive>>

ReadNodes ==
    /\ Running
    /\ step.kind = "read"
    /\ at' = at + 1
    /\ UNCHANGED <<fn, inside, node, alive, rooted>>

DropSlots ==
    /\ Running
    /\ step.kind = "drop"
    /\ rooted' = rooted \ step.reads
    /\ at' = at + 1
    /\ UNCHANGED <<fn, inside, node, alive>>

Next ==
    \/ Enter
    \/ Collect
    \/ Return
    \/ StoreNode
    \/ ReadNodes
    \/ DropSlots

Spec == Init /\ [][Next]_vars

-----------------------------------------------------------------------------
(* A node is there when it is used: when a call is entered or the program  *)
(* walks it, whatever it is, and while a call runs, however often the      *)
(* collector comes, if it is not one of the fresh results that the         *)
(* function hands on unrooted (docs/dd_usage.md: "The caller is            *)
(* responsible for protecting all argument nodes before calling a          *)
(* function").                                                             *)
ArgumentsIntact ==
    /\ Running /\ ~ inside /\ step.kind \in {"let", "protect", "read"} =>
           \A n \in step.reads : node[n] \in alive
    /\ inside => \A n \in step.reads \ Fresh[fn] : node[n] \in alive

(* What a registered slot holds is a node and not reclaimed memory: no     *)
(* result was lost on its way into the slot (docs/dd_usage.md: "Never      *)
(* assume a plain returned node stays alive unless you root it on the      *)
(* caller side").                                                          *)
RootsIntact ==
    \A n \in rooted : node[n] \in alive

(* A slot when a body comes to step j: owned on entry (0) or registered by *)
(* a step, and not out of scope since.                                     *)
IsSlot(body, n, j) ==
    \E m \in 0 .. j - 1 :
        /\ \/ m = 0 /\ n \in body.owned
           \/ m # 0 /\ body.steps[m].kind \in {"protect", "store"} /\ body.steps[m].to = n
        /\ \A l \in m + 1 .. j - 1 : body.steps[l].kind = "drop" => n \notin body.steps[l].reads

IsResult(body, n, j) ==
    j # 0 /\ body.steps[j].kind \in {"let", "protect"} /\ body.steps[j].to = n

(* The calling convention of docs/dd_usage.md, as a reader of the body     *)
(* checks it: a call is given slots, and what is stored or walked is in a  *)
(* slot or is the result of the call just before.  A name of Fresh may     *)
(* also be given to the call just after it, against that document, and     *)
(* the list is exact: every name of it is.                                 *)
Convention ==
    LET steps == Body[fn].steps
        unrooted(n, j) == ~ IsSlot(Body[fn], n, j)
        last(n, j) == IsResult(Body[fn], n, j - 1)
    IN  /\ \A j \in 1 .. Len(steps) : \A n \in steps[j].reads :
               unrooted(n, j) =>
                   \/ steps[j].kind \in {"let", "protect"} /\ last(n, j) /\ n \in Fresh[fn]
                   \/ steps[j].kind \in {"store", "read"} /\ last(n, j)
                   \/ steps[j].kind = "drop"
        /\ \A n \in Fresh[fn] :
               \E j \in 1 .. Len(steps) :
                   steps[j].kind \in {"let", "protect"} /\ n \in steps[j].reads /\ unrooted(n, j)
=============================================================================
