----------------------- MODULE MCUntilPrecomputation ------------------------
(***************************************************************************)
(* Every total relation on every reachable set of up to three states, so   *)
(* that a fixpoint takes up to three passes; and on four states every      *)
(* relation in which two are absorbing, so that the other two can be open  *)
(* together and hold each other in a cycle.                                *)
(***************************************************************************)
EXTENDS UntilPrecomputation

CONSTANTS s1, s2, s3, s4

MCState == {s1, s2, s3, s4}
Free    == {s1, s2}

(* One nonempty set of successors for each state. *)
Total(on) == {{<<s, t>> \in on \X on : t \in next[s]} : next \in [on -> (SUBSET on) \ {{}}]}

Absorbing(set) == {<<s, s>> : s \in set}

MCInit ==
    /\ \/ /\ reachable \in (SUBSET {s1, s2, s3}) \ {{}}
          /\ transitions01 \in Total(reachable)
       \/ /\ reachable = State
          /\ transitions01 \in
                {Absorbing({s3, s4}) \union {<<s, t>> \in Free \X State : t \in next[s]} :
                    next \in [Free -> (SUBSET State) \ {{}}]}
    /\ Init

MCSpec == MCInit /\ [][Next]_vars /\ WF_vars(Next)
=============================================================================
