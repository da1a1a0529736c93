--------------------------- MODULE MCParetoFronts ---------------------------
(* What a generation asks of its fitness matrix: both ways to the Pareto     *)
(* fronts of one matrix (a non-dominated sort, and then the search for the   *)
(* first front), the metrics, and the stop condition.  In every behaviour    *)
(* one part is at work; the variables of the others stay as they are.        *)
EXTENDS ParetoFronts, StopCondition, Metrics

CONSTANT Parts    \* those that are checked

VARIABLE part

mcVars == <<part, vars, scVars, mtVars>>

\* Two objectives; five vectors on up to three fronts.
MCFitness == {<<0, 0>>, <<0, 1>>, <<1, 1>>, <<0, 2>>, <<2, 0>>}

\* A threshold alone, and conditions in which an OR is only below another OR.
MCTrees == {<<Value(<<1, 1>>)>>,
            <<BestStall(1), MeanStall(0), And(1, 2), Evals(3), Or(3, 4)>>,
            <<Value(<<1, 1>>), MeanStall(1), Not(2), And(1, 3)>>,
            <<Evals(2), BestStall(0), Or(1, 2), MeanStall(1), Or(3, 4)>>,
            <<BestStall(2), Not(1), NoEarlyStop, Not(3), And(2, 4), Not(5)>>}

MCLowest == -9

\* Populations of two.
MCMatrices == {{<<0, 0>>, <<0, 1>>}, {<<1, 0>>, <<0, 1>>}, {<<1, 1>>, <<0, 0>>},
               {<<2, 0>>, <<0, 0>>}, {<<2, 2>>, <<1, 0>>}}

\* Populations of one and two, in any order and with equal members, and of three.
MCPopulations == UNION {[1 .. n -> MCFitness] : n \in 1 .. 2} \cup
                 {f \in [1 .. 3 -> MCFitness] : IsInjective(f)}
MCRefPoint == <<-1, 0>>

\* A sort and a search that are through with an empty matrix.
AtRest ==
    /\ fmat = <<>> /\ algorithm = "efficient" /\ ranks = Nothing /\ todo = {}
    /\ count = Nothing /\ dmat = {} /\ pending = {} /\ current_rank = 0
    /\ indices = <<>> /\ first = 1 /\ last = 1 /\ best = 1 /\ it = 1
    /\ optimal_indices = {} /\ pc = "done"

MCInit == /\ part \in Parts
          /\ IF part = "fronts" THEN Init ELSE AtRest
          /\ IF part = "stop" THEN TRUE ELSE tree = CHOOSE t \in Trees : TRUE
          /\ ScInit
          /\ MtInit

MCNext == \/ part = "fronts" /\ Next /\ UNCHANGED <<part, scVars, mtVars>>
          \/ part = "stop" /\ ScNext /\ UNCHANGED <<part, vars, mtVars>>
          \/ part = "metrics" /\ MtNext /\ UNCHANGED <<part, vars, scVars>>

MCSpec == MCInit /\ [][MCNext]_mcVars
          /\ WF_mcVars(part = "fronts" /\ Next /\ UNCHANGED <<part, scVars, mtVars>>)
=============================================================================
