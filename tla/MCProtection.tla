---------------------------- MODULE MCProtection ----------------------------
(***************************************************************************)
(* The bodies of DdBodies, each run alone with collections at every call:  *)
(* all but translate_module under MCProtection.cfg, with what they hand on *)
(* unrooted listed by name; translate_module under MCProtectionIdent.cfg.  *)
(***************************************************************************)
EXTENDS Protection, DdBodies

StepsOf(bodies) ==
    UNION {{bodies[f].steps[j] : j \in 1 .. Len(bodies[f].steps)} : f \in DOMAIN bodies}

NamesOf(bodies) ==
    UNION {{s.to} \union s.reads : s \in StepsOf(bodies)}
        \union UNION {bodies[f].owned : f \in DOMAIN bodies}

MCFn == DOMAIN Bodies
MCName == NamesOf(Bodies)
MCFresh == [f \in MCFn |-> HandedOn(f)]

MCFnLosing == DOMAIN LosingBodies
MCNameLosing == NamesOf(LosingBodies)
MCFreshLosing == [f \in MCFnLosing |-> HandedOn(f)]
=============================================================================
