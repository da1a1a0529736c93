------------------------------- MODULE MCRcu -------------------------------
(* The two structures that threads share: an object behind read-copy-update, *)
(* which any of the threads reads, writes and ends, and the list of the      *)
(* random number generators.  In every behaviour one of them is in use; the  *)
(* variables of the other stay in the initial state.                         *)
EXTENDS Rcu, Generators, TLC

CONSTANTS t1, t2, t3,
          Parts    \* those that are checked

ThreadSymmetry == Permutations(Threads)

VARIABLE part

mcVars == <<part, vars, gnVars>>

MCInit == part \in Parts /\ Init /\ GnInit

\* There is nothing left to do when all of the threads have ended.
AllEnded == \A t \in GnThreads : gnPc[t] = "ended"

MCNext == \/ part = "rcu" /\ Next /\ UNCHANGED <<part, gnVars>>
          \/ part = "generators" /\ GnNext /\ UNCHANGED <<part, vars>>
          \/ part = "generators" /\ AllEnded /\ UNCHANGED mcVars

MCSafetySpec == MCInit /\ [][MCNext]_mcVars

MCSpec == /\ MCSafetySpec
          /\ \A t \in Threads :
               /\ WF_mcVars(part = "rcu" /\ Flush(t) /\ UNCHANGED <<part, gnVars>>)
               /\ WF_mcVars(part = "rcu" /\ Continue(t) /\ UNCHANGED <<part, gnVars>>)
=============================================================================
