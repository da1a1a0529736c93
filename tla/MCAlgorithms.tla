---------------------------- MODULE MCAlgorithms ----------------------------
(* The three algorithms, and the geometry of the reference lines.  In every  *)
(* behaviour one part is at work; the variables of the others stay in one of *)
(* their initial states.                                                     *)
EXTENDS Nsga2, Nsga3, Soga, ConeTree, ReferenceLines

CONSTANT Parts    \* those that are checked

VARIABLE part

mcVars == <<part, vars, n3Vars, sgVars, ctVars, rlVars>>

\* Two objectives, five fitness vectors on up to three fronts; differences of 1, 2 and 3.
MCFitness == {<<0, 3>>, <<1, 2>>, <<2, 1>>, <<3, 0>>, <<0, 0>>}

\* Every multiset of three solutions, in one order: the order makes no difference to
\* sorts that may leave equal keys in any order.
MCOffspring == {c \in [1 .. 3 -> MCFitness] :
                  \A i \in 1 .. 2 : c[i] = c[i + 1] \/ LexicographicallyGreater(c[i + 1], c[i])}

\* Directions of length five.
MCLines == << <<5, 0>>, <<4, 3>>, <<0, 5>> >>

MCValues == {-1, 0, 2}
MCSogaOffspring == {c \in [1 .. 3 -> MCValues] : c[1] <= c[2] /\ c[2] <= c[3]}
MCWeights == {<<1, 11>>, <<0, 0>>}

\* Up to four points, with equal ones, and points on a line.
MCPoints == {<<0, 0>>, <<0, 2>>, <<1, 1>>, <<3, 0>>, <<2, 2>>}
MCInputs == UNION {[1 .. n -> MCPoints] : n \in 0 .. 4}
MCQueries == {<<1, 2>>, <<2, 0>>, <<-1, 1>>}

\* The part starts in states of its own; when it is not at work, in one that is fixed.
Starts(name, states, state) == IF part = name THEN states ELSE state
AtRest(name, state) == Starts(name, TRUE, state)

MCInit ==
    /\ part \in Parts
    /\ Starts("nsga2", pool \in MCOffspring,
                       /\ pool = [i \in Places |-> <<0, 0>>]
                       /\ dists = [i \in Places |-> IF i = 1 THEN 0 ELSE Infinity])
    /\ Init
    /\ Starts("nsga3", n3Pool \in MCOffspring, n3Pool = [i \in Places |-> <<0, 0>>])
    /\ N3Init
    /\ AtRest("soga", /\ sgPopulation = [i \in 1 .. SgSize |-> 0]
                      /\ sgSelection = [method |-> "tournament"]
                      /\ sgReplacement = [method |-> "best"])
    /\ SgInit
    /\ AtRest("cone_tree", ctInput = <<>>)
    /\ CtInit
    /\ AtRest("reference_lines", /\ rlMapping = "sort" /\ rlDim = 1 /\ rlNum = 0 /\ rlK = 1
                                 /\ rlAlpha = <<>> /\ rlPoint = <<>>)
    /\ RlInit

MCNext ==
    \/ part = "nsga2" /\ Next
       /\ UNCHANGED <<part, n3Vars, sgVars, ctVars, rlVars>>
    \/ part = "nsga3" /\ N3Next
       /\ UNCHANGED <<part, vars, sgVars, ctVars, rlVars>>
    \/ part = "soga" /\ SgNext
       /\ UNCHANGED <<part, vars, n3Vars, ctVars, rlVars>>
    \/ part = "cone_tree" /\ CtNext
       /\ UNCHANGED <<part, vars, n3Vars, sgVars, rlVars>>
    \/ part = "reference_lines" /\ RlNext
       /\ UNCHANGED <<part, vars, n3Vars, sgVars, ctVars>>

MCSpec == MCInit /\ [][MCNext]_mcVars
=============================================================================
