------------------------------- MODULE MCGaRun -------------------------------
(* A GA that is run again and again, and how it is set up.  In every behaviour *)
(* one part is at work; the variables of the other stay in one of their        *)
(* initial states.  The run has three chromosomes and a fourth one that the    *)
(* repair function never leaves alone, two static functions that disagree      *)
(* about most of them and a dynamic one.                                       *)
EXTENDS GaRun, GaSetup

CONSTANT Parts    \* those that are checked

VARIABLE part

mcVars == <<part, vars, suVars>>

MCFit == [f1 |-> [a |-> {<<1, 2>>}, b |-> {<<2, 1>>}, c |-> {<<1, 1>>}, d |-> {<<3, 3>>}],
          f2 |-> [a |-> {<<0, 0>>}, b |-> {<<0, 3>>}, c |-> {<<3, 3>>}, d |-> {<<3, 3>>}],
          fd |-> [a |-> {<<1, 1>>, <<2, 2>>}, b |-> {<<1, 1>>}, c |-> {<<2, 1>>}, d |-> {<<3, 3>>}]]
MCViolation == [a |-> 0, b |-> 1, c |-> 0, d |-> 2]
MCRepairOf == [a |-> "a", b |-> "b", c |-> "c", d |-> "a"]

Setting(n, g, k, m) == [popSize |-> n, cachedGens |-> g, keepAll |-> k, maxGen |-> m]

MCSettings == {Setting(2, 1, TRUE, 3), Setting(2, 2, FALSE, 2), Setting(1, 1, FALSE, 3)}

\* GaTraits<T>::defaultMutationRate of the lengths 1 and 2.
MCDefaultRate == <<100, 50>>

AtRest(name, state) == IF part = name THEN TRUE ELSE state

MCInit ==
    /\ part \in Parts
    /\ AtRest("run", debugBuild = FALSE /\ fn = "f1")
    /\ Init
    /\ AtRest("setup", suBounded = FALSE)
    /\ SuInit

MCNext == \/ part = "run" /\ Next /\ UNCHANGED <<part, suVars>>
          \/ part = "setup" /\ SuNext /\ UNCHANGED <<part, vars>>

\* Only solve() is bound to go on once it was called.
MCSpec == MCInit /\ [][MCNext]_mcVars
          /\ WF_mcVars(part = "run" /\ Step /\ UNCHANGED <<part, suVars>>)
=============================================================================
