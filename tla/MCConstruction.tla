--------------------------- MODULE MCConstruction ---------------------------
(***************************************************************************)
(* Two modules: m1 with a counter whose four bit patterns exceed its three *)
(* values and a flag, m2 with a flag.  The commands cover a probabilistic  *)
(* and a sure update, an update that leaves a variable alone, one that     *)
(* reads the other module, one that overflows the bounds but not the bits, *)
(* one that overflows both, overlapping guards, and unlabelled commands.   *)
(***************************************************************************)
EXTENDS Construction

MCVar == {"x", "y", "z"}
MCOwner == [x |-> "m1", y |-> "m1", z |-> "m2"]
MCLo == [x |-> 1, y |-> 0, z |-> 0]
MCHi == [x |-> 3, y |-> 1, z |-> 1]
MCDefault == [m1 |-> "__m1_action__", m2 |-> "__m2_action__"]
MCModule == <<"m1", "m2">>

Given(label, guard, updates) == [label |-> label, guard |-> guard, updates |-> updates]

Constant(v) == [s \in State |-> v]

(* The values of variables that are not assigned to are never looked at.   *)
Move(prob, assign) ==
    [prob |-> prob, assigned |-> DOMAIN assign,
     value |-> [x \in Var |-> IF x \in DOMAIN assign THEN assign[x] ELSE Constant(0)]]

Count == Given("a", {s \in State : s["x"] < 3},
                 <<Move(1, [x |-> [s \in State |-> s["x"] + 1]]), Move(1, << >>)>>)
Wrap == Given("a", {s \in State : s["x"] = 3}, <<Move(2, [x |-> Constant(1)])>>)
Copy == Given("b", State, <<Move(2, [y |-> [s \in State |-> s["z"]]]), Move(0, [x |-> Constant(1)])>>)
Overflow == Given("a", {s \in State : s["y"] = 1 /\ s["x"] >= 3},
                    <<Move(1, [x |-> [s \in State |-> s["x"] + 1]]), Move(1, [y |-> Constant(0)])>>)
Silent == Given(NoLabel, {s \in State : s["z"] = 1},
                  <<Move(1, [x |-> Constant(3)]), Move(1, [x |-> Constant(1), y |-> Constant(1)])>>)

Flip == Given("a", State, <<Move(2, [z |-> [s \in State |-> 1 - s["z"]]])>>)
Toss == Given("b", {s \in State : s["z"] = 0}, <<Move(1, [z |-> Constant(1)]), Move(1, << >>)>>)
Reset == Given(NoLabel, {s \in State : s["x"] = 1}, <<Move(2, [z |-> Constant(0)])>>)

(* The commands of a set, in some order. *)
Listed(set) == CHOOSE list \in [1 .. Cardinality(set) -> set] : {list[j] : j \in DOMAIN list} = set

ModelsOf(pool1, pool2) ==
    {[m1 |-> Listed(c1), m2 |-> Listed(c2)] :
        c1 \in {c \in SUBSET pool1 : Cardinality(c) <= 3},
        c2 \in {c \in SUBSET pool2 : Cardinality(c) <= 2}}

(* m2 may name its own implicit label, which is refused. *)
Selfish == Given("__m2_action__", State, <<Move(2, [z |-> Constant(0)])>>)

MCModel == ModelsOf({Count, Wrap, Copy, Overflow, Silent}, {Flip, Toss, Reset, Selfish})

(* m2 may name the implicit label of m1, which is not. *)
Intruder == Given("__m1_action__", State, <<Move(2, [z |-> Constant(0)])>>)

MCModelIntruder == ModelsOf({Silent, Count}, {Intruder, Selfish, Reset})
=============================================================================
