-------------------------- MODULE MCDataStructures --------------------------
(* The containers, and the crossovers and mutations with the numbers they    *)
(* draw: code without concurrency.  In every behaviour one part is at work;  *)
(* the variables of the others stay in one of their initial states.          *)
EXTENDS FifoCache, SmallVector, DynamicBitset, Matrix, Variation

CONSTANT Parts    \* those that are checked

VARIABLE part

mcVars == <<part, vars, svVars, dbVars, mxVars, vrVars, smVars>>

\* Four keys for capacities up to three; ranges longer than some capacities.
CONSTANTS k1, k2, k3, k4

MCNumGenes == [binary |-> 3, integer |-> 2, real |-> 2]

\* The state of a part that is not at work.
AtRest(name, state) == IF part = name THEN TRUE ELSE state

MCInit ==
    /\ part \in Parts
    /\ Init
    /\ AtRest("small_vector", svNothrowMove = TRUE)
    /\ SvInit
    /\ DbInit
    /\ MxInit
    /\ AtRest("variation", vrEncoding = "permutation" /\ vrParents = << <<1>>, <<1>> >>)
    /\ VrInit
    /\ SmInit

MCNext ==
    \/ part = "fifo_cache" /\ Next
       /\ UNCHANGED <<part, svVars, dbVars, mxVars, vrVars, smVars>>
    \/ part = "small_vector" /\ SvNext
       /\ UNCHANGED <<part, vars, dbVars, mxVars, vrVars, smVars>>
    \/ part = "dynamic_bitset" /\ DbNext
       /\ UNCHANGED <<part, vars, svVars, mxVars, vrVars, smVars>>
    \/ part = "matrix" /\ MxNext
       /\ UNCHANGED <<part, vars, svVars, dbVars, vrVars, smVars>>
    \/ part = "variation" /\ VrNext
       /\ UNCHANGED <<part, vars, svVars, dbVars, mxVars, smVars>>
    \/ part = "sampling" /\ SmNext
       /\ UNCHANGED <<part, vars, svVars, dbVars, mxVars, vrVars>>

MCSpec == MCInit /\ [][MCNext]_mcVars
=============================================================================
