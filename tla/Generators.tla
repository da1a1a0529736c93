----------------------------- MODULE Generators -----------------------------
(***************************************************************************)
(* rng::prng, the random number generator of all threads.  Every thread    *)
(* that draws has a Xoroshiro128p of its own, with a list of all of them   *)
(* behind a spinlock: a new one continues where the global generator has   *)
(* jumped to, and seed() starts all of them again.                         *)
(*                                                                         *)
(* A state of a generator is its seed, the jumps of 2^96 steps from there  *)
(* and the steps since.  seed() must not run while numbers are generated,  *)
(* which is up to the caller: here no thread draws, or draws for the first *)
(* time, before it returns, but threads may end.                           *)
(***************************************************************************)
EXTENDS Integers, Sequences, FiniteSets

CONSTANTS GnThreads,
          GnSeeds,       \* seeds; the first of them is GAPP_SEED
          GnPoolBits,    \* bools from one number
          GnMaxDraws,    \* bound: numbers that a thread draws
          GnMaxSeedings  \* bound: calls of seed()

ASSUME GnAssumption ==
    /\ GnSeeds \subseteq Nat /\ 0 \in GnSeeds
    /\ GnPoolBits \in Nat \ {0} /\ GnMaxDraws \in Nat /\ GnMaxSeedings \in Nat

VARIABLES
    gnLocked,        \* spinlock::locked_
    gnGlobal,        \* global_generator_
    gnList,          \* tls_generators_->list
    gnGen,           \* the RegisteredGenerator of every thread
    gnPc,            \* where a thread is
    gnJob,           \* what it wants the lock for
    gnRead,          \* the global generator as it has read it
    gnAt,            \* the position of seed() in the list
    gnSeedings

gnVars == <<gnLocked, gnGlobal, gnList, gnGen, gnPc, gnJob, gnRead, gnAt, gnSeedings>>

-----------------------------------------------------------------------------
State(seed, jumps) == [seed |-> seed, jumps |-> jumps]
Jumped(state) == State(state.seed, state.jumps + 1)

\* The bools that are left of a number, and the stream the number was from.
EmptyPool(state) == [left |-> 0, of |-> state]

Generator(state) == [state |-> state, draws |-> 0, pool |-> EmptyPool(state)]
NoGenerator == [state |-> State(0, 0), draws |-> 0, pool |-> EmptyPool(State(0, 0))]

Elements == {gnList[i] : i \in DOMAIN gnList}
Seeding == \E t \in GnThreads : gnJob[t] = "seed"
Drawing == \E t \in GnThreads : gnJob[t] = "register"

GnInit ==
    /\ gnLocked = FALSE /\ gnGlobal = State(0, 0) /\ gnList = <<>>
    /\ gnGen = [t \in GnThreads |-> NoGenerator]
    /\ gnPc = [t \in GnThreads |-> "new"]
    /\ gnJob = [t \in GnThreads |-> "none"]
    /\ gnRead = [t \in GnThreads |-> State(0, 0)]
    /\ gnAt = 0 /\ gnSeedings = 0

GnGoto(t, label) == gnPc' = [gnPc EXCEPT ![t] = label]
StartJob(t, job) == GnGoto(t, "lock") /\ gnJob' = [gnJob EXCEPT ![t] = job]

\* The first number of a thread constructs its generator.
FirstDraw(t) ==
    /\ gnPc[t] = "new" /\ ~ Seeding
    /\ StartJob(t, "register")
    /\ UNCHANGED <<gnLocked, gnGlobal, gnList, gnGen, gnRead, gnAt, gnSeedings>>

\* The end of the thread destroys it.
Exit(t) ==
    /\ gnPc[t] = "live"
    /\ StartJob(t, "remove")
    /\ UNCHANGED <<gnLocked, gnGlobal, gnList, gnGen, gnRead, gnAt, gnSeedings>>

\* seed(), in any thread: it does not need a generator of its own.
CallSeed(t, seed) ==
    /\ gnPc[t] \in {"new", "live"} /\ ~ Seeding /\ ~ Drawing
    /\ gnSeedings < GnMaxSeedings /\ gnSeedings' = gnSeedings + 1
    /\ StartJob(t, "seed")
    /\ gnRead' = [gnRead EXCEPT ![t] = State(seed, 0)]
    /\ UNCHANGED <<gnLocked, gnGlobal, gnList, gnGen, gnAt>>

\* spinlock::lock(), the outer loop.
TestAndSet(t) ==
    /\ gnPc[t] = "lock"
    /\ gnLocked' = TRUE
    /\ GnGoto(t, IF gnLocked THEN "test" ELSE gnJob[t])
    /\ UNCHANGED <<gnGlobal, gnList, gnGen, gnJob, gnRead, gnAt, gnSeedings>>

\* Variant: a lock that was seen free is taken for acquired.
EnterOnTest(t) ==
    /\ gnPc[t] = "test" /\ ~ gnLocked
    /\ GnGoto(t, gnJob[t])
    /\ UNCHANGED <<gnLocked, gnGlobal, gnList, gnGen, gnJob, gnRead, gnAt, gnSeedings>>

\* The inner loop.
Test(t) ==
    /\ gnPc[t] = "test" /\ ~ gnLocked
    /\ GnGoto(t, "lock")
    /\ UNCHANGED <<gnLocked, gnGlobal, gnList, gnGen, gnJob, gnRead, gnAt, gnSeedings>>

Finish(t, label) == /\ gnLocked' = FALSE
                    /\ GnGoto(t, label) /\ gnJob' = [gnJob EXCEPT ![t] = "none"]

\* RegisteredGenerator(): global_generator_.jump() is read and written in steps, then
\* the generator is listed.
ReadGlobal(t) ==
    /\ gnPc[t] = "register"
    /\ gnRead' = [gnRead EXCEPT ![t] = gnGlobal]
    /\ GnGoto(t, "jump")
    /\ UNCHANGED <<gnLocked, gnGlobal, gnList, gnGen, gnJob, gnAt, gnSeedings>>

Jump(t) ==
    /\ gnPc[t] = "jump"
    /\ gnGlobal' = Jumped(gnRead[t])
    /\ gnGen' = [gnGen EXCEPT ![t] = Generator(Jumped(gnRead[t]))]
    /\ GnGoto(t, "list")
    /\ UNCHANGED <<gnLocked, gnList, gnJob, gnRead, gnAt, gnSeedings>>

List(t) ==
    /\ gnPc[t] = "list"
    /\ gnList' = Append(gnList, t)
    /\ Finish(t, "live")
    /\ UNCHANGED <<gnGlobal, gnGen, gnRead, gnAt, gnSeedings>>

\* std::erase: all entries of the thread are taken out.
Erased(list, t) ==
    LET kept[i \in 0 .. Len(list)] ==
          IF i = 0 THEN <<>>
          ELSE IF list[i] = t THEN kept[i - 1] ELSE Append(kept[i - 1], list[i])
    IN kept[Len(list)]

\* ~RegisteredGenerator()
Remove(t) ==
    /\ gnPc[t] = "remove"
    /\ gnList' = Erased(gnList, t)
    /\ gnGen' = [gnGen EXCEPT ![t] = NoGenerator]
    /\ Finish(t, "ended")
    /\ UNCHANGED <<gnGlobal, gnRead, gnAt, gnSeedings>>

\* seed(): the global generator, then the listed ones in their order.
SeedGlobal(t) ==
    /\ gnPc[t] = "seed"
    /\ gnGlobal' = gnRead[t]
    /\ gnAt' = 1
    /\ GnGoto(t, "seeding")
    /\ UNCHANGED <<gnLocked, gnList, gnGen, gnJob, gnRead, gnSeedings>>

\* Variant: the distributions keep what they have drawn ahead.
ReseededWithPool(generator, state) == [generator EXCEPT !.state = state, !.draws = 0]

\* The state is replaced and the distributions are reset.
Reseeded(generator, state) == Generator(state)

SeedNext(t) ==
    /\ gnPc[t] = "seeding" /\ gnAt <= Len(gnList)
    /\ gnGlobal' = Jumped(gnGlobal)
    /\ gnGen' = [gnGen EXCEPT ![gnList[gnAt]] = Reseeded(@, Jumped(gnGlobal))]
    /\ gnAt' = gnAt + 1
    /\ UNCHANGED <<gnLocked, gnList, gnPc, gnJob, gnRead, gnSeedings>>

SeedReturns(t) ==
    /\ gnPc[t] = "seeding" /\ gnAt > Len(gnList)
    /\ Finish(t, IF t \in Elements THEN "live" ELSE "new")
    /\ UNCHANGED <<gnGlobal, gnList, gnGen, gnRead, gnAt, gnSeedings>>

\* operator(): a number.
Draw(t) ==
    /\ gnPc[t] = "live" /\ ~ Seeding
    /\ gnGen[t].draws < GnMaxDraws
    /\ gnGen' = [gnGen EXCEPT ![t].draws = @ + 1]
    /\ UNCHANGED <<gnLocked, gnGlobal, gnList, gnPc, gnJob, gnRead, gnAt, gnSeedings>>

\* randomBool(): a number is drawn when no bit of the last one is left.
RandomBool(t) ==
    /\ gnPc[t] = "live" /\ ~ Seeding
    /\ LET g == gnGen[t]
       IN IF g.pool.left > 0
          THEN gnGen' = [gnGen EXCEPT ![t].pool.left = @ - 1]
          ELSE /\ g.draws < GnMaxDraws
               /\ gnGen' = [gnGen EXCEPT ![t].draws = @ + 1,
                                         ![t].pool = [left |-> GnPoolBits - 1, of |-> g.state]]
    /\ UNCHANGED <<gnLocked, gnGlobal, gnList, gnPc, gnJob, gnRead, gnAt, gnSeedings>>

GnNext == \E t \in GnThreads :
            \/ FirstDraw(t) \/ Exit(t) \/ TestAndSet(t) \/ Test(t)
            \/ \E seed \in GnSeeds : CallSeed(t, seed)
            \/ ReadGlobal(t) \/ Jump(t) \/ List(t) \/ Remove(t)
            \/ SeedGlobal(t) \/ SeedNext(t) \/ SeedReturns(t)
            \/ Draw(t) \/ RandomBool(t)

GnSpec == GnInit /\ [][GnNext]_gnVars

-----------------------------------------------------------------------------
\* Threads that register, end and are seeded again in any order never draw from the
\* same stream, and the list always leads to the generators that exist, once to each:
\* seed() writes to no generator of a thread that has ended.
StreamsAreDistinct ==
    /\ \A t, u \in Elements : t # u /\ gnGen[t].state = gnGen[u].state => Seeding
    /\ Len(gnList) = Cardinality(Elements)
    /\ \A t \in GnThreads : gnPc[t] = "live" => t \in Elements
    /\ \A t \in Elements : gnPc[t] # "ended" /\ gnGen[t] # NoGenerator

\* After seed() has returned, every number and every bool that a thread may get
\* depends on the last seed alone: also those that were drawn ahead, and also in the
\* threads that begin to draw later.
NumbersFollowSeed ==
    ~ Seeding => \A t \in Elements : /\ gnGen[t].state.seed = gnGlobal.seed
                                     /\ gnGen[t].pool.left > 0 => gnGen[t].pool.of = gnGen[t].state
=============================================================================
