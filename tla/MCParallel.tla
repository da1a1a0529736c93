----------------------------- MODULE MCParallel -----------------------------
(***************************************************************************)
(* The parallel loops of the thread pool, and the merge of two Pareto sets *)
(* whose tasks race for verdicts that they share.  In every behaviour one  *)
(* of the two is at work; the other is over, or has nothing to do.         *)
(*                                                                         *)
(* The pool has up to two workers.  Client c1 runs a loop of two nested    *)
(* loops; client c2 runs a flat loop with a remainder, before, after or at *)
(* the same time, whose tasks the waiting workers take on top of the       *)
(* nested loops.  The pool is resized once at any quiescent moment.        *)
(***************************************************************************)
EXTENDS ThreadPool, ParetoMerge

CONSTANTS c1, c2, leaf

VARIABLE part

mcVars == <<part, tpVars, vars>>

MCClients == {c1, c2}
MCBody == [outer |-> <<"inner1", "inner2">>, inner1 |-> <<leaf, leaf>>,
           inner2 |-> <<leaf>>, flat |-> <<leaf, leaf, leaf>>]
MCLoops == DOMAIN MCBody
MCBlockSize == [l \in MCLoops |-> IF l = "flat" THEN 2 ELSE 1]
MCProgram == [c \in MCClients |-> IF c = c1 THEN <<"outer">> ELSE <<"flat">>]

\* Iterations of the slices that are queued when the pool has two workers; with
\* fewer workers the loops have a single slice, run by the caller.
MCThrowing == {<<"inner1", 1>>, <<"flat", 1>>}

\* Two objectives with values 1 .. 3, inputs of up to two solutions.
MCObjectives == {1, 2}
MCFitness == [MCObjectives -> 1 .. 3]
MCMaxLen == 2

\* The pool at the end of the program.
Over == /\ size = 0 /\ turn = 0
        /\ queue = [w \in Workers |-> <<>>] /\ closed = [w \in Workers |-> FALSE]
        /\ live = {} /\ stack = [t \in Threads |-> <<>>] /\ throwing = {}
        /\ status = [l \in Loops |-> "idle"]
        /\ slices = [l \in Loops |-> 0] /\ latch = [l \in Loops |-> 0]
        /\ has_exception = [l \in Loops |-> FALSE]
        /\ runs = [l \in Loops |-> [i \in 1 .. Iterations(l) |-> 0]] /\ failed = {}
        /\ program = [c \in Clients |-> <<>>]
        /\ resizing = NotResizing /\ resizes = 0

MCInit == /\ part \in {"pool", "merge"}
          /\ IF part = "pool" THEN TpInit ELSE Over
          /\ IF part = "merge" THEN TRUE ELSE lhs = <<>> /\ rhs = <<>>
          /\ Init

InPool(step) == part = "pool" /\ step /\ UNCHANGED <<part, vars>>

MCNext == \/ part = "pool" /\ TpNext /\ UNCHANGED <<part, vars>>
          \/ part = "merge" /\ Next /\ UNCHANGED <<part, tpVars>>

\* The fairness of both parts.
MCSpec == /\ MCInit /\ [][MCNext]_mcVars
          /\ \A w \in Workers : WF_mcVars(InPool(Worker(w)))
          /\ \A c \in Clients : WF_mcVars(InPool(Client(c)))
          /\ WF_mcVars(InPool(Replace)) /\ WF_mcVars(InPool(Destroy))
          /\ \A i \in 1 .. MaxLen :
               WF_mcVars(part = "merge" /\ i \in Rows /\ Task(i) /\ UNCHANGED <<part, tpVars>>)
=============================================================================
