-------------------------- MODULE ThreadPoolProofs --------------------------
(***************************************************************************)
(* Safety of the parallel loops, for any pool, any nesting of loops and    *)
(* any threads that call them.  Every slice of a loop that runs is in one  *)
(* place: still to be submitted, in one queue, or in one frame.            *)
(***************************************************************************)
EXTENDS ThreadPool, FiniteSetTheorems, TLAPS

Tasks == [loop : Loops, slice : Nat]
Pcs == {"submit", "run", "wait", "try"}
Frames == [kind : {"loop", "task"}, loop : Loops, slice : Nat, pos : Int, pc : Pcs]

TypeInv ==
    /\ size \in 0 .. MaxWorkers /\ turn \in Nat
    /\ queue \in [Workers -> Seq(Tasks)]
    /\ live \subseteq Workers /\ resizing \in NotResizing .. MaxWorkers
    /\ stack \in [Threads -> Seq(Frames)]
    /\ throwing \subseteq Threads
    /\ status \in [Loops -> {"idle", "running", "done", "threw"}]
    /\ slices \in [Loops -> Nat] /\ latch \in [Loops -> Int]
    /\ \A l \in Loops : slices[l] <= Iterations(l)
    /\ has_exception \in [Loops -> BOOLEAN]
    /\ runs \in [Loops -> UNION {[1 .. Iterations(l) -> {0, 1}] : l \in Loops}]
    /\ \A l \in Loops : runs[l] \in [1 .. Iterations(l) -> {0, 1}]
    /\ program \in [Clients -> Seq(Loops)]

-----------------------------------------------------------------------------
(* The frames by the depth at which they are, which does not change while     *)
(* they exist, and the tasks in the queues.                                   *)

Places == UNION {{t} \X (1 .. Len(stack[t])) : t \in Threads}
Held == [p \in Places |-> stack[p[1]][Len(stack[p[1]]) + 1 - p[2]]]
TopPlace(t) == <<t, Len(stack[t])>>

Queued == UNION {{queue[w][n] : n \in DOMAIN queue[w]} : w \in Workers}
TaskOf(f) == [loop |-> f.loop, slice |-> f.slice]
TaskPlaces == {p \in Places : Held[p].kind = "task"}
LoopPlaces == {p \in Places : Held[p].kind = "loop"}

\* The slices that their loop has not submitted yet, and those that a frame runs.
Unsubmitted == {x \in Tasks : \E p \in LoopPlaces : /\ Held[p].loop = x.loop /\ Held[p].pc = "submit"
                                                    /\ x.slice \in Held[p].slice .. slices[x.loop] - 2}
OnStack == {TaskOf(Held[p]) : p \in TaskPlaces}
Active == Queued \cup OnStack \cup Unsubmitted

\* The slices of l, when it has n of them, that are among the tasks S.
Pending(l, n, S) == {k \in 0 .. n - 2 : [loop |-> l, slice |-> k] \in S}

-----------------------------------------------------------------------------
(* What is true of one loop and of one frame, given what the loop has: its    *)
(* status st, its number of slices n and the runs r of its iterations.        *)

First(l, n, k) == k * (Iterations(l) \div n) + Min2(k, Iterations(l) % n) + 1
Block(l, n, k) == First(l, n, k) .. First(l, n, k + 1) - 1

\* The iterations of a slice have run once up to a position, and not yet from it on.
Ran(r, l, n, k, pos) == \A i \in Block(l, n, k) : r[i] = IF i < pos THEN 1 ELSE 0
NoneRan(r, l, n, k) == Ran(r, l, n, k, First(l, n, k))
AllRan(r, l, n, k) == Ran(r, l, n, k, First(l, n, k + 1))

Part(f, n, r) == /\ First(f.loop, n, f.slice) <= f.pos /\ f.pos <= First(f.loop, n, f.slice + 1)
                 /\ Ran(r, f.loop, n, f.slice, f.pos)

LoopFrameOk(f, st, n, r) ==
    /\ st = "running" /\ f.slice < n
    /\ IF f.pc = "submit" THEN \A k \in f.slice .. n - 1 : NoneRan(r, f.loop, n, k)
                          ELSE f.slice = n - 1 /\ Part(f, n, r)
    /\ f.pc \in {"wait", "try"} => f.pos = First(f.loop, n, n)

TaskOk(x, st, n) == st \in {"running", "threw"} /\ x.slice < n - 1

TaskFrameOk(f, st, n, r) == TaskOk(f, st, n) /\ f.pc = "run" /\ Part(f, n, r)

QueuedOk(x, st, n, r) == TaskOk(x, st, n) /\ NoneRan(r, x.loop, n, x.slice)

LoopFramesAreOk ==
    \A p \in LoopPlaces : LET l == Held[p].loop
                          IN LoopFrameOk(Held[p], status[l], slices[l], runs[l])

TaskFramesAreOk ==
    \A p \in TaskPlaces : LET l == Held[p].loop
                          IN TaskFrameOk(Held[p], status[l], slices[l], runs[l])

QueuesAreOk == \A x \in Queued : QueuedOk(x, status[x.loop], slices[x.loop], runs[x.loop])

\* No loop has two frames, and no slice is in two places.
LoopsAreUnique == \A p, q \in LoopPlaces : Held[p].loop = Held[q].loop => p = q

QueuesAreInjective ==
    \A v, w \in Workers : \A m \in DOMAIN queue[v], n \in DOMAIN queue[w] :
       queue[v][m] = queue[w][n] => v = w /\ m = n

SlicesAreUnique ==
    /\ \A p, q \in TaskPlaces : TaskOf(Held[p]) = TaskOf(Held[q]) => p = q
    /\ Queued \cap OnStack = {} /\ Unsubmitted \cap (Queued \cup OnStack) = {}
    /\ QueuesAreInjective

\* Nobody waits for a loop that is over, and nothing of an idle loop has run.
RunningIsCalled == \A l \in Loops : status[l] = "running" => \E p \in LoopPlaces : Held[p].loop = l

IdleIsUnrun == \A l \in Loops : status[l] = "idle" => \A i \in 1 .. Iterations(l) : runs[l][i] = 0

\* A loop is called once, from the one iteration or program that calls it.
CallsAreAhead ==
    /\ \A l \in Loops : \A i \in 1 .. Iterations(l) :
          Body[l][i] \in Loops /\ runs[l][i] = 0 => status[Body[l][i]] = "idle"
    /\ \A c \in Clients : \A i \in DOMAIN program[c] :
          /\ status[program[c][i]] = "idle"
          /\ \A d \in Clients : \A j \in DOMAIN program[d] :
                program[c][i] = program[d][j] => c = d /\ i = j
          /\ \A l \in Loops : \A j \in DOMAIN Body[l] : program[c][i] # Body[l][j]

LatchInv == \A l \in Loops : Cardinality(Pending(l, slices[l], Active)) <= latch[l]

\* A slice that is over has run completely, unless its loop knows of an exception.
SlicesAreRun ==
    \A l \in Loops : status[l] = "running" =>
       \A k \in (0 .. slices[l] - 2) \ Pending(l, slices[l], Active) :
          has_exception[l] \/ AllRan(runs[l], l, slices[l], k)

WorkersInv == /\ \A w \in Workers : Busy(w) => w \in live
              /\ \A t \in throwing : Busy(t)
              /\ resizing # NotResizing => \A c \in Clients : ~ Busy(c)
              /\ \A p \in LoopPlaces : slices[Held[p].loop] > 1 => size > 0

FailuresAreKnown ==
    \A l \in Loops : \A i : <<l, i>> \in failed =>
       \/ has_exception[l] \/ status[l] = "threw"
       \/ \E t \in throwing : Busy(t) /\ Top(t).loop = l /\ Top(t).pos - 1 = i

DoneIsDone ==
    \A l \in Loops : status[l] = "done" =>
       \A i \in 1 .. Iterations(l) : runs[l][i] = 1 /\ <<l, i>> \notin failed

PoolInv == /\ LoopFramesAreOk /\ TaskFramesAreOk /\ QueuesAreOk
           /\ LoopsAreUnique /\ SlicesAreUnique /\ RunningIsCalled /\ IdleIsUnrun
           /\ CallsAreAhead /\ LatchInv /\ SlicesAreRun /\ WorkersInv
           /\ FailuresAreKnown /\ DoneIsDone

-----------------------------------------------------------------------------
(* Stacks and places *)

LEMMA PlaceIff == \A t, d : <<t, d>> \in Places <=> t \in Threads /\ d \in 1 .. Len(stack[t])
BY DEF Places

LEMMA HeldType ==
    ASSUME TypeInv PROVE Held \in [Places -> Frames]
<1>1. ASSUME NEW p \in Places PROVE Held[p] \in Frames
  <2>1. PICK t \in Threads : p \in {t} \X (1 .. Len(stack[t])) BY DEF Places
  <2>2. PICK d \in 1 .. Len(stack[t]) : p = <<t, d>> BY <2>1
  <2>3. stack[t] \in Seq(Frames) BY DEF TypeInv
  <2>4. Len(stack[t]) + 1 - d \in 1 .. Len(stack[t]) BY <2>3
  <2>5. Held[p] = stack[t][Len(stack[t]) + 1 - d] BY <2>2 DEF Held
  <2> QED BY <2>3, <2>4, <2>5
<1> QED BY <1>1 DEF Held

LEMMA TopIsHeld ==
    ASSUME TypeInv, NEW t \in Threads, Busy(t)
    PROVE  /\ TopPlace(t) \in Places /\ Held[TopPlace(t)] = Top(t) /\ Top(t) \in Frames
           /\ Len(stack[t]) \in Nat \ {0}
<1>1. stack[t] \in Seq(Frames) /\ stack[t] # <<>> BY DEF TypeInv, Busy
<1>2. Len(stack[t]) \in Nat \ {0} BY <1>1
<1>3. TopPlace(t) \in Places BY <1>2, PlaceIff DEF TopPlace
<1>4. Held[TopPlace(t)] = stack[t][Len(stack[t]) + 1 - Len(stack[t])]
  BY <1>3 DEF Held, TopPlace
<1>5. Top(t) = stack[t][1] /\ Top(t) \in Frames BY <1>1, <1>2 DEF Top
<1>6. Len(stack[t]) + 1 - Len(stack[t]) = 1 BY <1>2
<1> QED BY <1>2, <1>3, <1>4, <1>5, <1>6

\* What a new stack of one thread does to the places.
LEMMA NewStack ==
    ASSUME TypeInv, NEW t \in Threads, NEW s \in Seq(Frames), stack' = [stack EXCEPT ![t] = s]
    PROVE  /\ stack' \in [Threads -> Seq(Frames)]
           /\ \A u, d : <<u, d>> \in Places' <=>
                 IF u = t THEN d \in 1 .. Len(s) ELSE <<u, d>> \in Places
           /\ \A p \in Places' : p = <<p[1], p[2]>>
           /\ \A p \in Places' : Held'[p] = IF p[1] = t THEN s[Len(s) + 1 - p[2]] ELSE Held[p]
<1>1. stack' \in [Threads -> Seq(Frames)] BY DEF TypeInv
<1>2. stack'[t] = s /\ \A u \in Threads \ {t} : stack'[u] = stack[u] BY DEF TypeInv
<1>3. \A u, d : <<u, d>> \in Places' <=> u \in Threads /\ d \in 1 .. Len(stack'[u])
  BY DEF Places
<1>4. \A u, d : <<u, d>> \in Places' <=> IF u = t THEN d \in 1 .. Len(s) ELSE <<u, d>> \in Places
  BY <1>2, <1>3, PlaceIff
<1>5. \A p \in Places' : p = <<p[1], p[2]>> /\ p[1] \in Threads BY DEF Places
<1>6. ASSUME NEW p \in Places'
      PROVE  Held'[p] = IF p[1] = t THEN s[Len(s) + 1 - p[2]] ELSE Held[p]
  <2>1. Held'[p] = stack'[p[1]][Len(stack'[p[1]]) + 1 - p[2]] BY DEF Held
  <2>2. CASE p[1] = t BY <1>2, <2>1, <2>2
  <2>3. CASE p[1] # t
    <3>1. p \in Places BY <1>4, <1>5, <2>3
    <3>2. stack'[p[1]] = stack[p[1]] BY <1>2, <1>5, <2>3
    <3>3. Held[p] = stack[p[1]][Len(stack[p[1]]) + 1 - p[2]] BY <3>1 DEF Held
    <3> QED BY <2>1, <2>3, <3>2, <3>3
  <2> QED BY <2>2, <2>3
<1> QED BY <1>1, <1>4, <1>5, <1>6

LEMMA PushPlaces ==
    ASSUME TypeInv, NEW t \in Threads, NEW f \in Frames, Push(t, f)
    PROVE  LET p == <<t, Len(stack[t]) + 1>>
           IN /\ stack' \in [Threads -> Seq(Frames)]
              /\ p \notin Places /\ Places' = Places \cup {p}
              /\ Held'[p] = f /\ \A q \in Places : Held'[q] = Held[q]
<1> DEFINE s == <<f>> \o stack[t]
           n == Len(stack[t])
           p == <<t, n + 1>>
<1>1. stack[t] \in Seq(Frames) /\ n \in Nat BY DEF TypeInv
<1>2. s \in Seq(Frames) /\ Len(s) = n + 1 /\ s[1] = f /\ \A i \in 1 .. n : s[i + 1] = stack[t][i]
  BY <1>1
<1>3. stack' = [stack EXCEPT ![t] = s] BY DEF Push, TypeInv
<1> HIDE DEF s
<1>4. /\ stack' \in [Threads -> Seq(Frames)]
      /\ \A u, d : <<u, d>> \in Places' <=>
            IF u = t THEN d \in 1 .. Len(s) ELSE <<u, d>> \in Places
      /\ \A q \in Places' : q = <<q[1], q[2]>>
      /\ \A q \in Places' : Held'[q] = IF q[1] = t THEN s[Len(s) + 1 - q[2]] ELSE Held[q]
  BY <1>2, <1>3, NewStack, ZenonT(40)
<1>5. \A q \in Places : q = <<q[1], q[2]>> BY DEF Places
<1>6. p \notin Places BY <1>1, PlaceIff
<1>7. \A d : d \in 1 .. n + 1 <=> d \in 1 .. n \/ d = n + 1 BY <1>1
<1>8. \A u, d : <<u, d>> \in Places' <=> <<u, d>> \in Places \/ <<u, d>> = p
  BY <1>2, <1>4, <1>7, PlaceIff
<1>9. Places' = Places \cup {p} BY <1>4, <1>5, <1>8
<1>10. Held'[p] = f BY <1>1, <1>2, <1>4, <1>9
<1>11. ASSUME NEW q \in Places PROVE Held'[q] = Held[q]
  <2>1. CASE q[1] # t BY <1>4, <1>9, <2>1
  <2>2. CASE q[1] = t
    <3>1. q[2] \in 1 .. n BY <1>5, <2>2, PlaceIff
    <3>2. Held'[q] = s[(n + 1) + 1 - q[2]] BY <1>2, <1>4, <1>9, <2>2
    <3>3. n + 1 - q[2] \in 1 .. n /\ (n + 1) + 1 - q[2] = (n + 1 - q[2]) + 1 BY <1>1, <3>1
    <3>4. Held[q] = stack[t][n + 1 - q[2]] BY <2>2 DEF Held
    <3> QED BY <1>2, <3>2, <3>3, <3>4
  <2> QED BY <2>1, <2>2
<1> QED BY <1>4, <1>6, <1>9, <1>10, <1>11

LEMMA PopPlaces ==
    ASSUME TypeInv, NEW t \in Threads, Busy(t), Pop(t)
    PROVE  /\ stack' \in [Threads -> Seq(Frames)]
           /\ Places' = Places \ {TopPlace(t)}
           /\ \A q \in Places' : Held'[q] = Held[q]
<1> DEFINE s == Tail(stack[t])
           n == Len(stack[t])
<1>1. stack[t] \in Seq(Frames) /\ n \in Nat \ {0} BY TopIsHeld DEF TypeInv
<1>2. s \in Seq(Frames) /\ Len(s) = n - 1 /\ \A i \in 1 .. n - 1 : s[i] = stack[t][i + 1]
  BY <1>1
<1>3. stack' = [stack EXCEPT ![t] = s] BY DEF Pop, TypeInv
<1> HIDE DEF s
<1>4. /\ stack' \in [Threads -> Seq(Frames)]
      /\ \A u, d : <<u, d>> \in Places' <=>
            IF u = t THEN d \in 1 .. Len(s) ELSE <<u, d>> \in Places
      /\ \A q \in Places' : q = <<q[1], q[2]>>
      /\ \A q \in Places' : Held'[q] = IF q[1] = t THEN s[Len(s) + 1 - q[2]] ELSE Held[q]
  BY <1>2, <1>3, NewStack, ZenonT(40)
<1>5. \A q \in Places : q = <<q[1], q[2]>> BY DEF Places
<1>7. \A d : d \in 1 .. n - 1 <=> d \in 1 .. n /\ d # n BY <1>1
<1>8. \A u, d : <<u, d>> \in Places' <=> <<u, d>> \in Places /\ <<u, d>> # <<t, n>>
  BY <1>2, <1>4, <1>7, PlaceIff
<1>9. Places' = Places \ {<<t, n>>} BY <1>4, <1>5, <1>8
<1>11. ASSUME NEW q \in Places' PROVE Held'[q] = Held[q]
  <2>1. CASE q[1] # t BY <1>4, <2>1
  <2>2. CASE q[1] = t
    <3>1. q[2] \in 1 .. n - 1 BY <1>2, <1>4, <2>2
    <3>2. Held'[q] = s[n - q[2]] BY <1>1, <1>2, <1>4, <2>2, <3>1
    <3>3. n - q[2] \in 1 .. n - 1 /\ (n - q[2]) + 1 = n + 1 - q[2] BY <1>1, <3>1
    <3>4. Held[q] = stack[t][n + 1 - q[2]] BY <1>9, <2>2 DEF Held
    <3> QED BY <1>2, <3>2, <3>3, <3>4
  <2> QED BY <2>1, <2>2
<1> QED BY <1>4, <1>9, <1>11 DEF TopPlace

LEMMA UpdatePlaces ==
    ASSUME TypeInv, NEW t \in Threads, Busy(t), NEW f \in Frames, Update(t, f)
    PROVE  /\ stack' \in [Threads -> Seq(Frames)]
           /\ Places' = Places
           /\ Held'[TopPlace(t)] = f
           /\ \A q \in Places \ {TopPlace(t)} : Held'[q] = Held[q]
<1> DEFINE s == <<f>> \o Tail(stack[t])
           n == Len(stack[t])
<1>1. stack[t] \in Seq(Frames) /\ n \in Nat \ {0} BY TopIsHeld DEF TypeInv
<1>2. Tail(stack[t]) \in Seq(Frames) /\ Len(Tail(stack[t])) = n - 1
      /\ \A i \in 1 .. n - 1 : Tail(stack[t])[i] = stack[t][i + 1]
  BY <1>1
<1>3. s \in Seq(Frames) /\ Len(s) = n /\ s[1] = f /\ \A i \in 2 .. n : s[i] = stack[t][i]
  <2>1. \A r \in Seq(Frames) : <<f>> \o r \in Seq(Frames) /\ Len(<<f>> \o r) = Len(r) + 1
           /\ (<<f>> \o r)[1] = f /\ \A i \in 2 .. Len(r) + 1 : (<<f>> \o r)[i] = r[i - 1]
    OBVIOUS
  <2>2. \A i \in 2 .. n : i - 1 \in 1 .. n - 1 /\ (i - 1) + 1 = i BY <1>1
  <2> QED BY <1>1, <1>2, <2>1, <2>2
<1>4. stack' = [stack EXCEPT ![t] = s] BY DEF Update, TypeInv
<1> HIDE DEF s
<1>5. /\ stack' \in [Threads -> Seq(Frames)]
      /\ \A u, d : <<u, d>> \in Places' <=>
            IF u = t THEN d \in 1 .. Len(s) ELSE <<u, d>> \in Places
      /\ \A q \in Places' : q = <<q[1], q[2]>>
      /\ \A q \in Places' : Held'[q] = IF q[1] = t THEN s[Len(s) + 1 - q[2]] ELSE Held[q]
  BY <1>3, <1>4, NewStack, ZenonT(40)
<1>6. \A q \in Places : q = <<q[1], q[2]>> BY DEF Places
<1>7. Places' = Places
  <2>1. \A u, d : <<u, d>> \in Places' <=> <<u, d>> \in Places BY <1>3, <1>5, PlaceIff
  <2> QED BY <1>5, <1>6, <2>1
<1>8. TopPlace(t) \in Places BY TopIsHeld
<1>9. Held'[TopPlace(t)] = f
  <2>1. Held'[TopPlace(t)] = s[n + 1 - n] BY <1>3, <1>5, <1>7, <1>8 DEF TopPlace
  <2> QED BY <1>1, <1>3, <2>1
<1>10. ASSUME NEW q \in Places, q # TopPlace(t) PROVE Held'[q] = Held[q]
  <2>1. CASE q[1] # t BY <1>5, <1>7, <2>1
  <2>2. CASE q[1] = t
    <3>1. q[2] \in 1 .. n /\ q[2] # n BY <1>6, <1>10, <2>2, PlaceIff DEF TopPlace
    <3>2. Held'[q] = s[n + 1 - q[2]] BY <1>3, <1>5, <1>7, <2>2
    <3>3. n + 1 - q[2] \in 2 .. n BY <1>1, <3>1
    <3>4. Held[q] = stack[t][n + 1 - q[2]] BY <2>2 DEF Held
    <3> QED BY <1>3, <3>2, <3>3, <3>4
  <2> QED BY <2>1, <2>2
<1> QED BY <1>5, <1>7, <1>9, <1>10

-----------------------------------------------------------------------------
(* The queues as a set of tasks *)

LEMMA QueuedIff == \A x : x \in Queued <=> \E w \in Workers : \E n \in DOMAIN queue[w] : queue[w][n] = x
BY DEF Queued

LEMMA AppendToQueue ==
    ASSUME TypeInv, QueuesAreInjective, NEW w \in Workers, NEW x \in Tasks, x \notin Queued,
           queue' = [queue EXCEPT ![w] = Append(@, x)]
    PROVE  /\ queue' \in [Workers -> Seq(Tasks)]
           /\ Queued' = Queued \cup {x} /\ QueuesAreInjective'
<1> DEFINE q == Append(queue[w], x)
           n == Len(queue[w])
<1>1. queue[w] \in Seq(Tasks) /\ n \in Nat BY DEF TypeInv
<1>2. /\ q \in Seq(Tasks) /\ DOMAIN q = 1 .. n + 1 /\ q[n + 1] = x
      /\ \A i \in DOMAIN queue[w] : q[i] = queue[w][i] /\ i \in DOMAIN q
      /\ \A i \in DOMAIN q : i = n + 1 \/ i \in DOMAIN queue[w]
  BY <1>1
<1> HIDE DEF q
<1>3. queue' \in [Workers -> Seq(Tasks)] BY <1>2 DEF TypeInv, q
<1>4. queue'[w] = q /\ \A v \in Workers \ {w} : queue'[v] = queue[v] BY DEF TypeInv, q
<1>5. \A v \in Workers : \A i \in DOMAIN queue'[v] :
         \/ v = w /\ i = n + 1 /\ queue'[v][i] = x
         \/ i \in DOMAIN queue[v] /\ queue'[v][i] = queue[v][i]
  BY <1>2, <1>4
<1>6. \A v \in Workers : \A i \in DOMAIN queue[v] :
         i \in DOMAIN queue'[v] /\ queue'[v][i] = queue[v][i]
  BY <1>2, <1>4
<1>7. n + 1 \in DOMAIN queue'[w] /\ queue'[w][n + 1] = x BY <1>1, <1>2, <1>4
<1>8. \A y : y \in Queued' <=> \E v \in Workers : \E i \in DOMAIN queue'[v] : queue'[v][i] = y
  BY DEF Queued
<1>9. Queued' = Queued \cup {x} BY <1>5, <1>6, <1>7, <1>8, QueuedIff
<1>10. \A v \in Workers : \A i \in DOMAIN queue[v] : queue[v][i] # x BY QueuedIff
<1>11. QueuesAreInjective' BY <1>5, <1>10 DEF QueuesAreInjective
<1> QED BY <1>3, <1>9, <1>11

LEMMA TakeFromQueue ==
    ASSUME TypeInv, QueuesAreInjective, NEW w \in Workers, queue[w] # <<>>,
           queue' = [queue EXCEPT ![w] = Tail(@)]
    PROVE  /\ queue' \in [Workers -> Seq(Tasks)]
           /\ Head(queue[w]) \in Queued /\ Head(queue[w]) \in Tasks
           /\ Queued' = Queued \ {Head(queue[w])} /\ QueuesAreInjective'
<1> DEFINE q == Tail(queue[w])
           x == Head(queue[w])
<1>1. queue[w] \in Seq(Tasks) BY DEF TypeInv
<1>2. /\ q \in Seq(Tasks) /\ x \in Tasks /\ x = queue[w][1] /\ 1 \in DOMAIN queue[w]
      /\ \A i \in DOMAIN q : q[i] = queue[w][i + 1] /\ i + 1 \in DOMAIN queue[w] /\ i + 1 # 1 /\ i \in Int
      /\ \A i \in DOMAIN queue[w] : i = 1 \/ (i - 1 \in DOMAIN q /\ (i - 1) + 1 = i)
  BY <1>1
<1> HIDE DEF q, x
<1>3. queue' \in [Workers -> Seq(Tasks)] BY <1>2 DEF TypeInv, q
<1>4. queue'[w] = q /\ \A v \in Workers \ {w} : queue'[v] = queue[v] BY DEF TypeInv, q
<1>5. \A y : y \in Queued' <=> \E v \in Workers : \E i \in DOMAIN queue'[v] : queue'[v][i] = y
  BY DEF Queued
<1>6. \A v \in Workers : \A i \in DOMAIN queue[v] : queue[v][i] = x => v = w /\ i = 1
  BY <1>2 DEF QueuesAreInjective
<1>7. \A y : y \in Queued' <=> y \in Queued /\ y # x
  <2>1. ASSUME NEW y \in Queued' PROVE y \in Queued /\ y # x
    <3>1. PICK v \in Workers : \E i \in DOMAIN queue'[v] : queue'[v][i] = y BY <1>5
    <3>2. PICK i \in DOMAIN queue'[v] : queue'[v][i] = y BY <3>1
    <3>3. CASE v = w
      <4>1. q[i] = y /\ i \in DOMAIN q BY <1>4, <3>2, <3>3
      <4>2. y = queue[w][i + 1] /\ i + 1 \in DOMAIN queue[w] /\ i + 1 # 1 BY <1>2, <4>1
      <4> QED BY <1>6, <4>2, QueuedIff
    <3>4. CASE v # w BY <1>4, <1>6, <3>2, <3>4, QueuedIff
    <3> QED BY <3>3, <3>4
  <2>2. ASSUME NEW y \in Queued, y # x PROVE y \in Queued'
    <3>1. PICK v \in Workers : \E i \in DOMAIN queue[v] : queue[v][i] = y BY QueuedIff
    <3>2. PICK i \in DOMAIN queue[v] : queue[v][i] = y BY <3>1
    <3>3. CASE v = w
      <4>1. i # 1 BY <1>2, <2>2, <3>2, <3>3
      <4>2. i - 1 \in DOMAIN q /\ q[i - 1] = y BY <1>2, <3>2, <3>3, <4>1
      <4> QED BY <1>4, <1>5, <3>3, <4>2
    <3>4. CASE v # w BY <1>4, <1>5, <3>2, <3>4
    <3> QED BY <3>3, <3>4
  <2> QED BY <2>1, <2>2
<1>8. QueuesAreInjective'
  <2> SUFFICES ASSUME NEW v \in Workers, NEW u \in Workers, NEW m \in DOMAIN queue'[v],
                      NEW n \in DOMAIN queue'[u], queue'[v][m] = queue'[u][n]
               PROVE  v = u /\ m = n
    BY DEF QueuesAreInjective
  <2> DEFINE up(a) == IF a = w THEN 1 ELSE 0
  <2>1. ASSUME NEW a \in Workers, NEW i \in DOMAIN queue'[a]
        PROVE  /\ i \in Int /\ i + up(a) \in DOMAIN queue[a]
               /\ queue'[a][i] = queue[a][i + up(a)]
    <3>1. CASE a = w BY <1>2, <1>4, <3>1
    <3>2. CASE a # w
      <4>1. queue'[a] = queue[a] /\ queue[a] \in Seq(Tasks) BY <1>4, <3>2 DEF TypeInv
      <4>2. i \in Int /\ i + 0 = i BY <4>1
      <4> QED BY <3>2, <4>1, <4>2
    <3> QED BY <3>1, <3>2
  <2>2. /\ m \in Int /\ m + up(v) \in DOMAIN queue[v]
        /\ queue'[v][m] = queue[v][m + up(v)]
    BY <2>1
  <2>3. /\ n \in Int /\ n + up(u) \in DOMAIN queue[u]
        /\ queue'[u][n] = queue[u][n + up(u)]
    BY <2>1
  <2>4. v = u /\ m + up(v) = n + up(u) BY <2>2, <2>3 DEF QueuesAreInjective
  <2> QED BY <2>2, <2>3, <2>4
<1>9. x \in Queued BY <1>2, QueuedIff
<1> QED BY <1>2, <1>3, <1>7, <1>8, <1>9 DEF x

LEMMA QueuedType == TypeInv => Queued \subseteq Tasks
BY DEF TypeInv, Queued

-----------------------------------------------------------------------------
(* The slices of a range *)

LEMMA IterationsType == \A l \in Loops : Iterations(l) \in Nat /\ DOMAIN Body[l] = 1 .. Iterations(l)
BY PoolAssumption DEF Iterations

LEMMA Division ==
    ASSUME NEW a \in Nat, NEW b \in Nat \ {0}
    PROVE  /\ a \div b \in Nat /\ a % b \in 0 .. b - 1
           /\ a = b * (a \div b) + (a % b)
OBVIOUS

LEMMA Product ==
    ASSUME NEW j \in Nat, NEW k \in Nat, NEW s \in Nat, j <= k
    PROVE  j * s \in Nat /\ k * s \in Nat /\ j * s <= k * s
<1>1. PICK d \in Nat : k = j + d
  <2>1. k - j \in Nat /\ k = j + (k - j) OBVIOUS
  <2> QED BY <2>1
<1>2. k * s = j * s + d * s BY <1>1
<1>3. j * s \in Nat /\ d * s \in Nat OBVIOUS
<1> QED BY <1>2, <1>3

LEMMA FirstBounds ==
    ASSUME NEW l \in Loops, NEW n \in Nat \ {0}
    PROVE  /\ \A k \in 0 .. n : First(l, n, k) \in Int
           /\ First(l, n, 0) = 1 /\ First(l, n, n) = Iterations(l) + 1
           /\ \A j, k \in 0 .. n : j <= k => First(l, n, j) <= First(l, n, k)
<1> DEFINE step == Iterations(l) \div n
           rem == Iterations(l) % n
<1>1. Iterations(l) \in Nat BY IterationsType
<1>2. step \in Nat /\ rem \in 0 .. n - 1 /\ Iterations(l) = n * step + rem BY <1>1, Division
<1>3. \A k : First(l, n, k) = k * step + Min2(k, rem) + 1 BY DEF First
<1> HIDE DEF step, rem
<1>4. \A j, k \in 0 .. n : j <= k => j * step \in Nat /\ k * step \in Nat /\ j * step <= k * step
  BY <1>2, Product
<1>5. \A j, k \in 0 .. n : j <= k => Min2(j, rem) \in Nat /\ Min2(j, rem) <= Min2(k, rem)
  BY <1>2 DEF Min2
<1>6. \A k \in 0 .. n : First(l, n, k) \in Int BY <1>3, <1>4, <1>5
<1>7. First(l, n, 0) = 1
  <2>1. 0 * step = 0 /\ Min2(0, rem) = 0 BY <1>2 DEF Min2
  <2> QED BY <1>3, <2>1
<1>8. First(l, n, n) = Iterations(l) + 1
  <2>1. Min2(n, rem) = rem BY <1>2 DEF Min2
  <2> QED BY <1>1, <1>2, <1>3, <2>1
<1>9. ASSUME NEW j \in 0 .. n, NEW k \in 0 .. n, j <= k PROVE First(l, n, j) <= First(l, n, k)
  <2>1. j * step \in Nat /\ k * step \in Nat /\ j * step <= k * step BY <1>4, <1>9
  <2>2. Min2(j, rem) \in Nat /\ Min2(k, rem) \in Nat /\ Min2(j, rem) <= Min2(k, rem) BY <1>5, <1>9
  <2> QED BY <1>3, <2>1, <2>2
<1> QED BY <1>6, <1>7, <1>8, <1>9

LEMMA BlocksPartition ==
    ASSUME NEW l \in Loops, NEW n \in Nat \ {0}
    PROVE  /\ \A k \in 0 .. n - 1 : /\ First(l, n, k) \in Int /\ First(l, n, k + 1) \in Int
                                    /\ First(l, n, k) <= First(l, n, k + 1)
                                    /\ Block(l, n, k) \subseteq 1 .. Iterations(l)
           /\ \A j, k \in 0 .. n - 1 : \A i \in Block(l, n, j) : i \in Block(l, n, k) => j = k
<1>1. Iterations(l) \in Nat BY IterationsType
<1>2. /\ \A k \in 0 .. n : First(l, n, k) \in Int
      /\ First(l, n, 0) = 1 /\ First(l, n, n) = Iterations(l) + 1
      /\ \A j, k \in 0 .. n : j <= k => First(l, n, j) <= First(l, n, k)
  BY FirstBounds
<1>3. \A k \in 0 .. n - 1 : k \in 0 .. n /\ k + 1 \in 0 .. n OBVIOUS
<1>4. 0 \in 0 .. n /\ n \in 0 .. n OBVIOUS
<1>5. ASSUME NEW k \in 0 .. n - 1
      PROVE  /\ First(l, n, k) \in Int /\ First(l, n, k + 1) \in Int
             /\ First(l, n, k) <= First(l, n, k + 1)
             /\ Block(l, n, k) \subseteq 1 .. Iterations(l)
  <2>1. 0 <= k /\ k <= k + 1 /\ k + 1 <= n OBVIOUS
  <2>2. 1 <= First(l, n, k) /\ First(l, n, k) \in Int BY <1>2, <1>3, <1>4, <2>1
  <2>3. First(l, n, k + 1) <= Iterations(l) + 1 /\ First(l, n, k + 1) \in Int
    BY <1>2, <1>3, <1>4, <2>1
  <2>4. First(l, n, k) <= First(l, n, k + 1) BY <1>2, <1>3, <2>1
  <2> QED BY <1>1, <2>2, <2>3, <2>4 DEF Block
<1>6. ASSUME NEW j \in 0 .. n - 1, NEW k \in 0 .. n - 1, j < k,
             NEW i \in Block(l, n, j), i \in Block(l, n, k)
      PROVE  FALSE
  <2>1. j + 1 <= k BY <1>6
  <2>2. First(l, n, j + 1) <= First(l, n, k) BY <1>2, <1>3, <2>1
  <2>3. First(l, n, j + 1) \in Int /\ First(l, n, k) \in Int BY <1>2, <1>3
  <2>4. i \in Int /\ i <= First(l, n, j + 1) - 1 /\ First(l, n, k) <= i BY <1>6 DEF Block
  <2> QED BY <2>2, <2>3, <2>4
<1>7. \A j, k \in 0 .. n - 1 : j < k \/ j = k \/ k < j OBVIOUS
<1> QED BY <1>5, <1>6, <1>7

LEMMA LeastNatural ==
    ASSUME NEW T \in SUBSET Nat, T # {}
    PROVE  \E m \in T : \A k \in T : m <= k
<1> DEFINE Below == {0 .. k : k \in T}
<1>1. Below \subseteq FiniteSubsetsOf(Nat)
  <2>1. ASSUME NEW k \in T PROVE 0 .. k \in SUBSET Nat /\ IsFiniteSet(0 .. k)
    BY FS_Interval
  <2> QED BY <2>1 DEF FiniteSubsetsOf
<1>2. Below # {} OBVIOUS
<1>3. PICK B \in Below : \A C \in Below : <<C, B>> \notin StrictSubsetOrdering(Nat)
  BY <1>1, <1>2, WFMin, FS_StrictSubsetOrderingWellFounded
<1>4. PICK m \in T : B = 0 .. m OBVIOUS
<1>5. ASSUME NEW k \in T, k < m PROVE FALSE
  <2>1. 0 .. k \in Below OBVIOUS
  <2>2. 0 .. k \subseteq 0 .. m /\ 0 .. k # 0 .. m BY <1>5
  <2>3. 0 .. k \in SUBSET Nat /\ 0 .. m \in SUBSET Nat OBVIOUS
  <2>4. <<0 .. k, 0 .. m>> \in StrictSubsetOrdering(Nat)
    BY <2>2, <2>3 DEF StrictSubsetOrdering
  <2> QED BY <1>3, <1>4, <2>1, <2>4
<1> QED BY <1>5

LEMMA BlocksCover ==
    ASSUME NEW l \in Loops, NEW n \in Nat \ {0}, NEW i \in 1 .. Iterations(l)
    PROVE  \E k \in 0 .. n - 1 : i \in Block(l, n, k)
<1> DEFINE T == {k \in 0 .. n : i < First(l, n, k)}
<1>1. Iterations(l) \in Nat BY IterationsType
<1>2. /\ \A k \in 0 .. n : First(l, n, k) \in Int
      /\ First(l, n, 0) = 1 /\ First(l, n, n) = Iterations(l) + 1
  BY FirstBounds
<1>3. n \in T /\ 0 \notin T BY <1>1, <1>2
<1>4. T \in SUBSET Nat /\ T # {} BY <1>3
<1>5. PICK m \in T : \A k \in T : m <= k BY <1>4, LeastNatural
<1>6. m - 1 \in 0 .. n - 1 /\ m - 1 \in 0 .. n BY <1>3, <1>5
<1>7. m - 1 \notin T BY <1>4, <1>5
<1>8. First(l, n, m - 1) <= i BY <1>2, <1>6, <1>7
<1>9. (m - 1) + 1 = m BY <1>6
<1>10. i <= First(l, n, (m - 1) + 1) - 1 BY <1>2, <1>5, <1>9
<1> QED BY <1>2, <1>6, <1>8, <1>10 DEF Block

LEMMA SlicesAreBlocks ==
    \A l, k : SliceFirst(l, k) = First(l, slices[l], k) /\ SliceLast(l, k) = First(l, slices[l], k + 1) - 1
BY DEF SliceFirst, SliceLast, First

-----------------------------------------------------------------------------
(* What the frames of a state give: their sets of places and of tasks *)

LEMMA KindsOfPlaces ==
    ASSUME TypeInv
    PROVE  /\ Places = LoopPlaces \cup TaskPlaces /\ LoopPlaces \cap TaskPlaces = {}
           /\ \A p \in Places : Held[p] \in Frames /\ Held[p].loop \in Loops /\ Held[p].slice \in Nat
                                /\ TaskOf(Held[p]) \in Tasks
<1>1. \A p \in Places : Held[p] \in Frames BY HeldType
<1>2. \A f \in Frames : /\ f.kind \in {"loop", "task"} /\ f.loop \in Loops /\ f.slice \in Nat
                        /\ f.pos \in Int /\ TaskOf(f) \in Tasks
  BY DEF Frames, TaskOf, Tasks
<1> QED BY <1>1, <1>2 DEF LoopPlaces, TaskPlaces

LEMMA SameStacks ==
    ASSUME stack' = stack, slices' = slices
    PROVE  /\ Places' = Places /\ Held' = Held /\ LoopPlaces' = LoopPlaces /\ TaskPlaces' = TaskPlaces
           /\ OnStack' = OnStack /\ Unsubmitted' = Unsubmitted
BY DEF Places, Held, LoopPlaces, TaskPlaces, OnStack, Unsubmitted

\* The innermost frame of a thread changes, but stays one of the same loop.
LEMMA UpdateSets ==
    ASSUME TypeInv, NEW t \in Threads, Busy(t), NEW f \in Frames, Update(t, f),
           f.kind = Top(t).kind, f.loop = Top(t).loop, f.kind = "task" => f.slice = Top(t).slice
    PROVE  LET p == TopPlace(t)
           IN /\ stack' \in [Threads -> Seq(Frames)]
              /\ p \in Places /\ Held[p] = Top(t) /\ Held'[p] = f
              /\ Places' = Places /\ \A q \in Places \ {p} : Held'[q] = Held[q]
              /\ LoopPlaces' = LoopPlaces /\ TaskPlaces' = TaskPlaces /\ OnStack' = OnStack
<1> DEFINE p == TopPlace(t)
<1>1. p \in Places /\ Held[p] = Top(t) /\ Top(t) \in Frames BY TopIsHeld
<1>2. /\ stack' \in [Threads -> Seq(Frames)] /\ Places' = Places /\ Held'[p] = f
      /\ \A q \in Places \ {p} : Held'[q] = Held[q]
  BY UpdatePlaces
<1> HIDE DEF p
<1>3. \A q \in Places : /\ Held'[q].kind = Held[q].kind
                        /\ Held[q].kind = "task" => TaskOf(Held'[q]) = TaskOf(Held[q])
  BY <1>1, <1>2 DEF TaskOf
<1>4. LoopPlaces' = LoopPlaces /\ TaskPlaces' = TaskPlaces
  BY <1>2, <1>3 DEF LoopPlaces, TaskPlaces
<1>5. OnStack' = OnStack BY <1>3, <1>4 DEF OnStack, TaskPlaces
<1> QED BY <1>1, <1>2, <1>4, <1>5 DEF p

\* Unsubmitted slices are those of the frames that are still submitting.
LEMMA UpdateUnsubmitted ==
    ASSUME TypeInv, slices' = slices, LoopPlaces' = LoopPlaces,
           NEW p \in Places, \A q \in Places \ {p} : Held'[q] = Held[q],
           Held'[p].loop = Held[p].loop, Held'[p].pc # "submit",
           p \in LoopPlaces /\ Held[p].pc = "submit" => Held[p].slice = slices[Held[p].loop] - 1
    PROVE  Unsubmitted' = Unsubmitted
<1>1. LoopPlaces \subseteq Places BY DEF LoopPlaces
<1>2. ASSUME NEW x \in Tasks, NEW q \in LoopPlaces
      PROVE  (Held'[q].loop = x.loop /\ Held'[q].pc = "submit" /\ x.slice \in Held'[q].slice .. slices[x.loop] - 2)
             <=> (Held[q].loop = x.loop /\ Held[q].pc = "submit" /\ x.slice \in Held[q].slice .. slices[x.loop] - 2)
  <2>1. CASE q # p BY <1>1, <2>1
  <2>2. CASE q = p
    <3>1. Held[p].loop \in Loops /\ slices[Held[p].loop] \in Nat BY KindsOfPlaces DEF TypeInv
    <3>2. x.slice \notin slices[Held[p].loop] - 1 .. slices[Held[p].loop] - 2 BY <3>1
    <3> QED BY <2>2, <3>2
  <2> QED BY <2>1, <2>2
<1> QED BY <1>2 DEF Unsubmitted

\* The innermost frame of a task is left.
LEMMA PopTaskSets ==
    ASSUME TypeInv, SlicesAreUnique, slices' = slices, NEW t \in Threads, Busy(t), Pop(t), Top(t).kind = "task"
    PROVE  LET p == TopPlace(t)
           IN /\ stack' \in [Threads -> Seq(Frames)]
              /\ p \in TaskPlaces /\ Held[p] = Top(t)
              /\ Places' = Places \ {p} /\ \A q \in Places' : Held'[q] = Held[q]
              /\ LoopPlaces' = LoopPlaces /\ TaskPlaces' = TaskPlaces \ {p}
              /\ TaskOf(Top(t)) \in OnStack /\ OnStack' = OnStack \ {TaskOf(Top(t))}
              /\ Unsubmitted' = Unsubmitted
<1> DEFINE p == TopPlace(t)
<1>1. p \in Places /\ Held[p] = Top(t) BY TopIsHeld
<1>2. /\ stack' \in [Threads -> Seq(Frames)] /\ Places' = Places \ {p}
      /\ \A q \in Places' : Held'[q] = Held[q]
  BY PopPlaces
<1> HIDE DEF p
<1>3. p \in TaskPlaces /\ p \notin LoopPlaces BY <1>1 DEF TaskPlaces, LoopPlaces
<1>4. LoopPlaces' = LoopPlaces /\ TaskPlaces' = TaskPlaces \ {p}
  BY <1>2, <1>3 DEF TaskPlaces, LoopPlaces
<1>5. \A q \in TaskPlaces \ {p} : Held'[q] = Held[q] /\ TaskOf(Held[q]) # TaskOf(Held[p])
  BY <1>2, <1>3 DEF TaskPlaces, SlicesAreUnique
<1>6. OnStack' = OnStack \ {TaskOf(Held[p])} BY <1>3, <1>4, <1>5 DEF OnStack
<1>7. TaskOf(Held[p]) \in OnStack BY <1>3 DEF OnStack
<1>8. \A q \in LoopPlaces : Held'[q] = Held[q] BY <1>2, <1>3 DEF LoopPlaces
<1>9. Unsubmitted' = Unsubmitted BY <1>4, <1>8 DEF Unsubmitted
<1> QED BY <1>1, <1>2, <1>3, <1>4, <1>6, <1>7, <1>9 DEF p

\* The innermost frame of a loop is left.
LEMMA PopLoopSets ==
    ASSUME TypeInv, slices' = slices, NEW t \in Threads, Busy(t), Pop(t), Top(t).kind = "loop"
    PROVE  LET p == TopPlace(t)
           IN /\ stack' \in [Threads -> Seq(Frames)]
              /\ p \in LoopPlaces /\ Held[p] = Top(t)
              /\ Places' = Places \ {p} /\ \A q \in Places' : Held'[q] = Held[q]
              /\ LoopPlaces' = LoopPlaces \ {p} /\ TaskPlaces' = TaskPlaces /\ OnStack' = OnStack
              /\ Unsubmitted' \subseteq Unsubmitted
              /\ \A x \in Unsubmitted : x.loop # Top(t).loop => x \in Unsubmitted'
<1> DEFINE p == TopPlace(t)
<1>1. p \in Places /\ Held[p] = Top(t) BY TopIsHeld
<1>2. /\ stack' \in [Threads -> Seq(Frames)] /\ Places' = Places \ {p}
      /\ \A q \in Places' : Held'[q] = Held[q]
  BY PopPlaces
<1> HIDE DEF p
<1>3. p \in LoopPlaces /\ p \notin TaskPlaces BY <1>1 DEF TaskPlaces, LoopPlaces
<1>4. LoopPlaces' = LoopPlaces \ {p} /\ TaskPlaces' = TaskPlaces
  BY <1>2, <1>3 DEF TaskPlaces, LoopPlaces
<1>5. OnStack' = OnStack BY <1>2, <1>3, <1>4 DEF OnStack, TaskPlaces
<1>6. \A q \in LoopPlaces \ {p} : Held'[q] = Held[q] BY <1>2 DEF LoopPlaces
<1>7. Unsubmitted' \subseteq Unsubmitted BY <1>4, <1>6 DEF Unsubmitted
<1>8. \A x \in Unsubmitted : x.loop # Held[p].loop => x \in Unsubmitted'
  BY <1>4, <1>6 DEF Unsubmitted
<1> QED BY <1>1, <1>2, <1>3, <1>4, <1>5, <1>7, <1>8 DEF p

\* A loop frame that is still submitting comes to the others, which stay what they are.
LEMMA NewLoopSets ==
    ASSUME TypeInv, NEW l \in Loops, NEW n \in Nat \ {0}, slices' = [slices EXCEPT ![l] = n],
           \A q \in LoopPlaces : Held[q].loop # l,
           NEW p, p \notin Places, Places' = Places \cup {p}, Held'[p] = LoopFrame(l),
           \A q \in Places : /\ Held'[q].kind = Held[q].kind /\ Held'[q].loop = Held[q].loop
                             /\ Held'[q].slice = Held[q].slice /\ Held'[q].pc = Held[q].pc
    PROVE  /\ LoopPlaces' = LoopPlaces \cup {p} /\ TaskPlaces' = TaskPlaces /\ OnStack' = OnStack
           /\ Unsubmitted' = Unsubmitted \cup {[loop |-> l, slice |-> k] : k \in 0 .. n - 2}
<1>1. Held'[p].kind = "loop" /\ Held'[p].loop = l /\ Held'[p].slice = 0 /\ Held'[p].pc = "submit"
  BY DEF LoopFrame
<1>2. LoopPlaces' = LoopPlaces \cup {p} /\ TaskPlaces' = TaskPlaces
  BY <1>1 DEF TaskPlaces, LoopPlaces
<1>3. OnStack' = OnStack BY <1>2 DEF OnStack, TaskPlaces, TaskOf
<1>4. slices'[l] = n /\ \A m \in Loops \ {l} : slices'[m] = slices[m] BY DEF TypeInv
<1>5. \A q \in LoopPlaces : q \in Places /\ Held[q].loop \in Loops \ {l} BY KindsOfPlaces DEF LoopPlaces
<1>6. ASSUME NEW x \in Tasks
      PROVE  x \in Unsubmitted' <=> x \in Unsubmitted \/ (x.loop = l /\ x.slice \in 0 .. n - 2)
  <2>1. x \in Unsubmitted' <=> \E q \in LoopPlaces' : /\ Held'[q].loop = x.loop /\ Held'[q].pc = "submit"
                                                      /\ x.slice \in Held'[q].slice .. slices'[x.loop] - 2
    BY DEF Unsubmitted
  <2>2. x \in Unsubmitted <=> \E q \in LoopPlaces : /\ Held[q].loop = x.loop /\ Held[q].pc = "submit"
                                                    /\ x.slice \in Held[q].slice .. slices[x.loop] - 2
    BY DEF Unsubmitted
  <2>3. \A q \in LoopPlaces : (/\ Held'[q].loop = x.loop /\ Held'[q].pc = "submit"
                               /\ x.slice \in Held'[q].slice .. slices'[x.loop] - 2)
                          <=> (/\ Held[q].loop = x.loop /\ Held[q].pc = "submit"
                               /\ x.slice \in Held[q].slice .. slices[x.loop] - 2)
    BY <1>4, <1>5
  <2> QED BY <1>1, <1>2, <1>4, <2>1, <2>2, <2>3
<1>7. \A x : (x \in Tasks /\ x.loop = l /\ x.slice \in 0 .. n - 2) <=> \E k \in 0 .. n - 2 : x = [loop |-> l, slice |-> k]
  BY DEF Tasks
<1>8. Unsubmitted \subseteq Tasks /\ Unsubmitted' \subseteq Tasks BY DEF Unsubmitted
<1>9. Unsubmitted' = Unsubmitted \cup {[loop |-> l, slice |-> k] : k \in 0 .. n - 2}
  BY <1>6, <1>7, <1>8
<1> QED BY <1>2, <1>3, <1>9

LEMMA PendingBounds ==
    ASSUME NEW l, NEW n \in Nat, NEW S
    PROVE  IsFiniteSet(Pending(l, n, S)) /\ Cardinality(Pending(l, n, S)) \in Nat
<1>1. IsFiniteSet(0 .. n - 2) BY FS_Interval
<1>2. Pending(l, n, S) \subseteq 0 .. n - 2 BY DEF Pending
<1> QED BY <1>1, <1>2, FS_Subset, FS_CardinalityType

LEMMA PendingShrinks ==
    ASSUME NEW l, NEW n \in Nat, NEW S, NEW T, S \subseteq T
    PROVE  Cardinality(Pending(l, n, S)) <= Cardinality(Pending(l, n, T))
<1>1. Pending(l, n, S) \subseteq Pending(l, n, T) BY DEF Pending
<1> QED BY <1>1, PendingBounds, FS_Subset

-----------------------------------------------------------------------------
(* Steps of the frame of a loop between its iterations *)

LEMMA OthersThrow ==
    ASSUME TypeInv, NEW t \in Threads, t \notin throwing, NEW s, stack' = [stack EXCEPT ![t] = s]
    PROVE  \A u \in throwing : Busy(u)' = Busy(u) /\ Top(u)' = Top(u)
<1>1. \A u \in throwing : stack'[u] = stack[u] BY DEF TypeInv
<1> QED BY <1>1 DEF Busy, Top

LEMMA PosOfLoopFrame ==
    ASSUME TypeInv, LoopFramesAreOk, NEW p \in LoopPlaces
    PROVE  LET f == Held[p]
           IN /\ f \in Frames /\ f.loop \in Loops /\ slices[f.loop] \in Nat \ {0}
              /\ f.slice \in 0 .. slices[f.loop] - 1
              /\ LoopFrameOk(f, status[f.loop], slices[f.loop], runs[f.loop])
<1>1. p \in Places /\ Held[p] \in Frames BY KindsOfPlaces
<1>2. Held[p].loop \in Loops /\ Held[p].slice \in Nat BY <1>1 DEF Frames
<1>3. LoopFrameOk(Held[p], status[Held[p].loop], slices[Held[p].loop], runs[Held[p].loop])
  BY DEF LoopFramesAreOk
<1>4. Held[p].slice < slices[Held[p].loop] BY <1>3 DEF LoopFrameOk
<1>5. slices[Held[p].loop] \in Nat BY <1>2 DEF TypeInv
<1> QED BY <1>1, <1>2, <1>3, <1>4, <1>5

LEMMA PosOfTaskFrame ==
    ASSUME TypeInv, TaskFramesAreOk, NEW p \in TaskPlaces
    PROVE  LET f == Held[p]
           IN /\ f \in Frames /\ f.loop \in Loops /\ slices[f.loop] \in Nat \ {0}
              /\ f.slice \in 0 .. slices[f.loop] - 2
              /\ TaskFrameOk(f, status[f.loop], slices[f.loop], runs[f.loop])
<1>1. p \in Places /\ Held[p] \in Frames BY KindsOfPlaces
<1>2. Held[p].loop \in Loops /\ Held[p].slice \in Nat BY <1>1 DEF Frames
<1>3. TaskFrameOk(Held[p], status[Held[p].loop], slices[Held[p].loop], runs[Held[p].loop])
  BY DEF TaskFramesAreOk
<1>4. Held[p].slice < slices[Held[p].loop] - 1 BY <1>3 DEF TaskFrameOk, TaskOk
<1>5. slices[Held[p].loop] \in Nat BY <1>2 DEF TypeInv
<1> QED BY <1>1, <1>2, <1>3, <1>4, <1>5

LEMMA LoopFrameStep ==
    ASSUME TypeInv, PoolInv, NEW t \in Threads, Busy(t), t \notin throwing, Top(t).kind = "loop",
           NEW f \in Frames, Update(t, f),
           f.kind = "loop", f.loop = Top(t).loop, f.slice = Top(t).slice, f.pc # "submit",
           Top(t).pc = "submit" => Top(t).slice = slices[Top(t).loop] - 1,
           LoopFrameOk(f, status[f.loop], slices[f.loop], runs[f.loop]),
           UNCHANGED <<pool, turn, queue, throwing, status, slices, latch, has_exception, runs, failed>>
    PROVE  (TypeInv /\ PoolInv)'
<1> USE DEF pool
<1> DEFINE p == TopPlace(t)
<1>1. /\ stack' \in [Threads -> Seq(Frames)]
      /\ p \in Places /\ Held[p] = Top(t) /\ Held'[p] = f
      /\ Places' = Places /\ \A q \in Places \ {p} : Held'[q] = Held[q]
      /\ LoopPlaces' = LoopPlaces /\ TaskPlaces' = TaskPlaces /\ OnStack' = OnStack
  BY UpdateSets
<1> HIDE DEF p
<1>2. p \in LoopPlaces /\ p \notin TaskPlaces BY <1>1 DEF LoopPlaces, TaskPlaces
<1>3. Unsubmitted' = Unsubmitted BY <1>1, UpdateUnsubmitted
<1>4. LoopPlaces \subseteq Places /\ TaskPlaces \subseteq Places BY DEF LoopPlaces, TaskPlaces
<1>5. Queued' = Queued /\ Active' = Active BY <1>1, <1>3 DEF Queued, Active
<1>6. \A q \in LoopPlaces : Held'[q].loop = Held[q].loop BY <1>1, <1>4
<1>7. \A q \in TaskPlaces : Held'[q] = Held[q] BY <1>1, <1>2, <1>4
<1>8. TypeInv' BY <1>1 DEF TypeInv
<1>9. LoopFramesAreOk' BY <1>1, <1>4 DEF LoopFramesAreOk, PoolInv
<1>10. TaskFramesAreOk' BY <1>1, <1>7 DEF TaskFramesAreOk, PoolInv
<1>11. QueuesAreOk' BY <1>5 DEF QueuesAreOk, PoolInv
<1>12. LoopsAreUnique' BY <1>1, <1>6 DEF LoopsAreUnique, PoolInv
<1>13. SlicesAreUnique' BY <1>1, <1>3, <1>5, <1>7 DEF SlicesAreUnique, QueuesAreInjective, PoolInv
<1>14. RunningIsCalled' BY <1>1, <1>6 DEF RunningIsCalled, PoolInv
<1>15. IdleIsUnrun' /\ CallsAreAhead' /\ DoneIsDone'
  BY DEF IdleIsUnrun, CallsAreAhead, DoneIsDone, PoolInv
<1>16. LatchInv' /\ SlicesAreRun' BY <1>5 DEF LatchInv, SlicesAreRun, PoolInv
<1>17. WorkersInv'
  <2>1. \A u \in Threads : Busy(u)' => Busy(u) BY DEF Update, Busy, TypeInv
  <2>2. \A u \in throwing : Busy(u)' = Busy(u) BY OthersThrow DEF Update, TypeInv
  <2> QED BY <1>1, <1>6, <2>1, <2>2 DEF WorkersInv, PoolInv, Threads
<1>18. FailuresAreKnown'
  <2>1. \A u \in throwing : Busy(u)' = Busy(u) /\ Top(u)' = Top(u) BY OthersThrow DEF Update, TypeInv
  <2> QED BY <2>1 DEF FailuresAreKnown, PoolInv
<1> QED BY <1>8, <1>9, <1>10, <1>11, <1>12, <1>13, <1>14, <1>15, <1>16, <1>17, <1>18 DEF PoolInv

LEMMA LoopOnTop ==
    ASSUME TypeInv, LoopFramesAreOk, NEW t \in Threads, Busy(t), Top(t).kind = "loop"
    PROVE  LET f == Top(t)
           IN /\ TopPlace(t) \in LoopPlaces /\ Held[TopPlace(t)] = f
              /\ f \in Frames /\ f.loop \in Loops /\ slices[f.loop] \in Nat \ {0}
              /\ f.slice \in 0 .. slices[f.loop] - 1
              /\ LoopFrameOk(f, status[f.loop], slices[f.loop], runs[f.loop])
<1>1. TopPlace(t) \in Places /\ Held[TopPlace(t)] = Top(t) BY TopIsHeld
<1>2. TopPlace(t) \in LoopPlaces BY <1>1 DEF LoopPlaces
<1> QED BY <1>1, <1>2, PosOfLoopFrame

LEMMA TaskOnTop ==
    ASSUME TypeInv, TaskFramesAreOk, NEW t \in Threads, Busy(t), Top(t).kind = "task"
    PROVE  LET f == Top(t)
           IN /\ TopPlace(t) \in TaskPlaces /\ Held[TopPlace(t)] = f
              /\ f \in Frames /\ f.loop \in Loops /\ slices[f.loop] \in Nat \ {0}
              /\ f.slice \in 0 .. slices[f.loop] - 2
              /\ TaskFrameOk(f, status[f.loop], slices[f.loop], runs[f.loop])
<1>1. TopPlace(t) \in Places /\ Held[TopPlace(t)] = Top(t) BY TopIsHeld
<1>2. TopPlace(t) \in TaskPlaces BY <1>1 DEF TaskPlaces
<1> QED BY <1>1, <1>2, PosOfTaskFrame

LEMMA StartOwnSliceStep ==
    ASSUME TypeInv, PoolInv, NEW t \in Threads, StartOwnSlice(t) PROVE (TypeInv /\ PoolInv)'
<1> DEFINE g == Top(t)
           n == slices[g.loop]
           f == [g EXCEPT !.pc = "run", !.pos = SliceFirst(g.loop, g.slice)]
<1>1. Busy(t) /\ t \notin throwing /\ g.kind = "loop" /\ g.pc = "submit" /\ g.slice = n - 1
  BY DEF StartOwnSlice, At
<1>2. /\ g \in Frames /\ g.loop \in Loops /\ n \in Nat \ {0} /\ g.slice \in 0 .. n - 1
      /\ LoopFrameOk(g, status[g.loop], n, runs[g.loop])
  BY <1>1, LoopOnTop DEF PoolInv
<1>3. /\ First(g.loop, n, g.slice) \in Int /\ First(g.loop, n, g.slice + 1) \in Int
      /\ First(g.loop, n, g.slice) <= First(g.loop, n, g.slice + 1)
  BY <1>2, BlocksPartition
<1>4. SliceFirst(g.loop, g.slice) = First(g.loop, n, g.slice) BY SlicesAreBlocks
<1> HIDE DEF g, n
<1>5. f \in Frames /\ f.kind = g.kind /\ f.loop = g.loop /\ f.slice = g.slice /\ f.pc = "run"
      /\ f.pos = First(g.loop, n, g.slice)
  BY <1>2, <1>3, <1>4 DEF Frames, Pcs
<1> HIDE DEF f
<1>6. Ran(runs[g.loop], g.loop, n, g.slice, f.pos)
  <2>1. g.slice \in g.slice .. n - 1 BY <1>1, <1>2
  <2> QED BY <1>1, <1>2, <1>5, <2>1 DEF LoopFrameOk, NoneRan
<1>7. LoopFrameOk(f, status[f.loop], n, runs[f.loop])
  BY <1>1, <1>2, <1>3, <1>5, <1>6 DEF LoopFrameOk, Part
<1>8. Update(t, f) BY DEF StartOwnSlice, f, g
<1>9. UNCHANGED <<pool, turn, queue, throwing, status, slices, latch, has_exception, runs, failed>>
  BY DEF StartOwnSlice
<1> QED BY <1>1, <1>5, <1>7, <1>8, <1>9, LoopFrameStep DEF g, n

\* A loop frame that has run its slice only changes where it waits.
LEMMA WaitStep ==
    ASSUME TypeInv, PoolInv, NEW t \in Threads, Busy(t), t \notin throwing, Top(t).kind = "loop",
           Top(t).pc # "submit", Top(t).pos > SliceLast(Top(t).loop, Top(t).slice),
           NEW pc \in {"wait", "try"}, Update(t, [Top(t) EXCEPT !.pc = pc]),
           UNCHANGED <<pool, turn, queue, throwing, status, slices, latch, has_exception, runs, failed>>
    PROVE  (TypeInv /\ PoolInv)'
<1> DEFINE g == Top(t)
           n == slices[g.loop]
           f == [g EXCEPT !.pc = pc]
<1>2. /\ g \in Frames /\ g.loop \in Loops /\ n \in Nat \ {0} /\ g.slice \in 0 .. n - 1
      /\ LoopFrameOk(g, status[g.loop], n, runs[g.loop])
  BY LoopOnTop DEF PoolInv
<1>3. First(g.loop, n, g.slice + 1) \in Int BY <1>2, BlocksPartition
<1>4. g.pos > First(g.loop, n, g.slice + 1) - 1 BY SlicesAreBlocks
<1>5. g.slice = n - 1 /\ Part(g, n, runs[g.loop]) /\ g.pc # "submit" BY <1>2 DEF LoopFrameOk
<1>6. Update(t, f) OBVIOUS
<1>7. g.pos \in Int /\ f \in Frames /\ f.kind = g.kind /\ f.loop = g.loop /\ f.slice = g.slice /\ f.pc = pc
      /\ f.pos = g.pos
  <2> HIDE DEF g
  <2> QED BY <1>2 DEF Frames, Pcs
<1>8. g.slice + 1 = n BY <1>2, <1>5
<1>9. f.kind = "loop" /\ f.loop = Top(t).loop /\ f.slice = Top(t).slice BY <1>7
<1> HIDE DEF g, n, f
<1>10. f.pos = First(g.loop, n, n) BY <1>3, <1>4, <1>5, <1>7, <1>8 DEF Part
<1>11. LoopFrameOk(f, status[f.loop], n, runs[f.loop])
  BY <1>2, <1>5, <1>7, <1>10 DEF LoopFrameOk, Part
<1> QED BY <1>6, <1>7, <1>9, <1>11, LoopFrameStep DEF g, n

LEMMA WaitingIsThrough ==
    ASSUME TypeInv, PoolInv, NEW t \in Threads, Busy(t), Top(t).kind = "loop", Top(t).pc \in {"wait", "try"}
    PROVE  Top(t).pos > SliceLast(Top(t).loop, Top(t).slice)
<1> DEFINE g == Top(t)
           n == slices[g.loop]
<1>1. /\ g.loop \in Loops /\ n \in Nat \ {0} /\ g.slice \in 0 .. n - 1
      /\ LoopFrameOk(g, status[g.loop], n, runs[g.loop])
  BY LoopOnTop DEF PoolInv
<1>2. g.slice = n - 1 /\ g.pos = First(g.loop, n, n) BY <1>1 DEF LoopFrameOk
<1>3. First(g.loop, n, g.slice + 1) \in Int /\ g.slice + 1 = n BY <1>1, <1>2, BlocksPartition
<1> QED BY <1>2, <1>3, SlicesAreBlocks

LEMMA FinishOwnSliceStep ==
    ASSUME TypeInv, PoolInv, NEW t \in Threads, FinishOwnSlice(t) PROVE (TypeInv /\ PoolInv)'
<1> DEFINE pc == IF t \in Workers THEN "wait" ELSE "try"
<1>1. pc \in {"wait", "try"} OBVIOUS
<1>2. /\ Busy(t) /\ t \notin throwing /\ Top(t).kind = "loop" /\ Top(t).pc # "submit"
      /\ Top(t).pos > SliceLast(Top(t).loop, Top(t).slice) /\ Update(t, [Top(t) EXCEPT !.pc = pc])
      /\ UNCHANGED <<pool, turn, queue, throwing, status, slices, latch, has_exception, runs, failed>>
  BY DEF FinishOwnSlice, SliceDone, At
<1> HIDE DEF pc
<1> QED BY <1>1, <1>2, WaitStep

LEMMA HelpSteps ==
    ASSUME TypeInv, PoolInv, NEW w \in Workers, StopHelping(w) \/ HelpAgain(w) PROVE (TypeInv /\ PoolInv)'
<1>1. PICK pc \in {"wait", "try"} :
         /\ Busy(w) /\ w \notin throwing /\ Top(w).kind = "loop" /\ Top(w).pc \in {"wait", "try"}
         /\ Update(w, [Top(w) EXCEPT !.pc = pc])
         /\ UNCHANGED <<pool, turn, queue, throwing, status, slices, latch, has_exception, runs, failed>>
  BY DEF StopHelping, HelpAgain, At
<1>2. w \in Threads BY DEF Threads
<1>3. Top(w).pos > SliceLast(Top(w).loop, Top(w).slice) BY <1>1, <1>2, WaitingIsThrough
<1> QED BY <1>1, <1>2, <1>3, WaitStep

LEMMA SubmitStep ==
    ASSUME TypeInv, PoolInv, NEW t \in Threads, Submit(t) PROVE (TypeInv /\ PoolInv)'
<1> USE DEF pool
<1> DEFINE g == Top(t)
           n == slices[g.loop]
           f == [g EXCEPT !.slice = @ + 1]
           x == [loop |-> g.loop, slice |-> g.slice]
           w == (turn % size) + 1
           p == TopPlace(t)
<1>1. /\ Busy(t) /\ t \notin throwing /\ g.kind = "loop" /\ g.pc = "submit" /\ g.slice < n - 1
      /\ queue' = [queue EXCEPT ![w] = Append(@, x)] /\ turn' = turn + 1
  BY DEF Submit, At
<1>2. /\ p \in LoopPlaces /\ Held[p] = g
      /\ g \in Frames /\ g.loop \in Loops /\ n \in Nat \ {0} /\ g.slice \in 0 .. n - 1
      /\ LoopFrameOk(g, status[g.loop], n, runs[g.loop])
  BY <1>1, LoopOnTop DEF PoolInv
<1>3. w \in Workers
  <2> HIDE DEF p, g
  <2>0. slices[Held[p].loop] > 1 BY <1>1, <1>2
  <2>3. size > 0 BY <1>2, <2>0 DEF PoolInv, WorkersInv
  <2>1. size \in 1 .. MaxWorkers /\ turn \in Nat BY <2>3, PoolAssumption DEF TypeInv
  <2>2. turn % size \in 0 .. size - 1 BY <2>1
  <2> QED BY <2>1, <2>2, PoolAssumption DEF Workers
<1>4. Update(t, f) BY DEF Submit
<1>5. UNCHANGED <<pool, throwing, status, slices, latch, has_exception, runs, failed>> BY DEF Submit
<1> HIDE DEF g, n, w, p
<1>6. f \in Frames /\ f.kind = g.kind /\ f.loop = g.loop /\ f.slice = g.slice + 1 /\ f.pc = g.pc
  BY <1>2 DEF Frames
<1> HIDE DEF f
<1>7. x \in Tasks /\ x.loop = g.loop /\ x.slice = g.slice BY <1>2 DEF Tasks
<1>8. x \in Unsubmitted
  <2>1. x.slice \in g.slice .. slices[x.loop] - 2 BY <1>1, <1>2, <1>7 DEF n
  <2> QED BY <1>1, <1>2, <1>7, <2>1 DEF Unsubmitted
<1> HIDE DEF x
<1>9. x \notin Queued /\ x \notin OnStack BY <1>8 DEF PoolInv, SlicesAreUnique
<1>10. queue' \in [Workers -> Seq(Tasks)] /\ Queued' = Queued \cup {x} /\ QueuesAreInjective'
  BY <1>1, <1>3, <1>7, <1>9, AppendToQueue DEF PoolInv, SlicesAreUnique
<1>11. /\ stack' \in [Threads -> Seq(Frames)]
       /\ Held'[p] = f
       /\ Places' = Places /\ \A q \in Places \ {p} : Held'[q] = Held[q]
       /\ LoopPlaces' = LoopPlaces /\ TaskPlaces' = TaskPlaces /\ OnStack' = OnStack
  BY <1>1, <1>4, <1>6, UpdateSets DEF p, g
<1>12. LoopPlaces \subseteq Places /\ TaskPlaces \subseteq Places /\ p \notin TaskPlaces
  BY <1>2 DEF LoopPlaces, TaskPlaces
<1>13. \A q \in LoopPlaces : Held'[q].loop = Held[q].loop BY <1>2, <1>6, <1>11, <1>12
<1>14. \A q \in TaskPlaces : Held'[q] = Held[q] BY <1>11, <1>12
<1>15. \A q \in LoopPlaces \ {p} : Held[q].loop # g.loop BY <1>2 DEF PoolInv, LoopsAreUnique
<1>16. Unsubmitted' = Unsubmitted \ {x}
  <2>1. ASSUME NEW y \in Tasks, NEW q \in LoopPlaces
        PROVE  (Held'[q].loop = y.loop /\ Held'[q].pc = "submit" /\ y.slice \in Held'[q].slice .. slices[y.loop] - 2)
               <=> (/\ Held[q].loop = y.loop /\ Held[q].pc = "submit" /\ y.slice \in Held[q].slice .. slices[y.loop] - 2
                    /\ y # x)
    <3>1. CASE q # p
      <4>1. Held[q].loop # g.loop /\ Held'[q] = Held[q] BY <1>11, <1>12, <1>15, <3>1
      <4> QED BY <1>7, <4>1
    <3>2. CASE q = p
      <4>1. y = x <=> y.loop = g.loop /\ y.slice = g.slice BY DEF Tasks, x
      <4>2. y.slice \in Nat /\ slices[g.loop] \in Nat BY <1>2 DEF Tasks, n
      <4>3. /\ Held[q].loop = g.loop /\ Held[q].pc = "submit" /\ Held[q].slice = g.slice
            /\ Held'[q].loop = g.loop /\ Held'[q].pc = "submit" /\ Held'[q].slice = g.slice + 1
        BY <1>1, <1>2, <1>6, <1>11, <3>2
      <4>4. g.slice \in Nat /\ g.slice < slices[g.loop] - 1 BY <1>1, <1>2 DEF n
      <4> HIDE DEF x
      <4> QED BY <4>1, <4>2, <4>3, <4>4
    <3> QED BY <3>1, <3>2
  <2> QED BY <1>5, <1>11, <2>1 DEF Unsubmitted
<1>17. Active' = Active BY <1>8, <1>10, <1>11, <1>16 DEF Active
<1>18. TypeInv' BY <1>1, <1>5, <1>10, <1>11 DEF TypeInv
<1>19. LoopFramesAreOk'
  <2>1. LoopFrameOk(f, status[g.loop], n, runs[g.loop])
    <3>1. \A k \in f.slice .. n - 1 : k \in g.slice .. n - 1 BY <1>2, <1>6
    <3>2. f.slice < n BY <1>1, <1>2, <1>6
    <3> QED BY <1>1, <1>2, <1>6, <3>1, <3>2 DEF LoopFrameOk
  <2> QED BY <1>2, <1>5, <1>6, <1>11, <1>12, <2>1 DEF LoopFramesAreOk, PoolInv, n
<1>20. TaskFramesAreOk' BY <1>5, <1>11, <1>14 DEF TaskFramesAreOk, PoolInv
<1>21. QueuesAreOk'
  <2>1. g.slice \in g.slice .. n - 1 BY <1>1, <1>2
  <2>2. QueuedOk(x, status[x.loop], slices[x.loop], runs[x.loop])
    BY <1>1, <1>2, <1>7, <2>1 DEF QueuedOk, TaskOk, LoopFrameOk, n
  <2> QED BY <1>5, <1>10, <2>2 DEF QueuesAreOk, PoolInv
<1>22. LoopsAreUnique' BY <1>11, <1>13 DEF LoopsAreUnique, PoolInv
<1>23. SlicesAreUnique' BY <1>9, <1>10, <1>11, <1>14, <1>16 DEF SlicesAreUnique, PoolInv
<1>24. RunningIsCalled' BY <1>5, <1>11, <1>13 DEF RunningIsCalled, PoolInv
<1>25. IdleIsUnrun' /\ CallsAreAhead' /\ DoneIsDone'
  BY <1>5 DEF IdleIsUnrun, CallsAreAhead, DoneIsDone, PoolInv
<1>26. LatchInv' /\ SlicesAreRun' BY <1>5, <1>17 DEF LatchInv, SlicesAreRun, PoolInv
<1>27. WorkersInv'
  <2>1. \A u \in Threads : Busy(u)' => Busy(u) BY <1>1, <1>4 DEF Update, Busy, TypeInv
  <2>2. \A u \in throwing : Busy(u)' = Busy(u) BY <1>1, <1>4, OthersThrow DEF Update
  <2> QED BY <1>5, <1>11, <1>13, <2>1, <2>2 DEF WorkersInv, PoolInv, Threads
<1>28. FailuresAreKnown'
  <2>1. \A u \in throwing : Busy(u)' = Busy(u) /\ Top(u)' = Top(u)
    BY <1>1, <1>4, OthersThrow DEF Update
  <2> QED BY <1>5, <2>1 DEF FailuresAreKnown, PoolInv
<1> QED BY <1>18, <1>19, <1>20, <1>21, <1>22, <1>23, <1>24, <1>25, <1>26, <1>27, <1>28 DEF PoolInv

-----------------------------------------------------------------------------
(* An iteration runs *)

LEMMA RanElsewhere ==
    ASSUME NEW l \in Loops, NEW n \in Nat \ {0}, NEW k0 \in 0 .. n - 1, NEW i0 \in Block(l, n, k0),
           NEW r, NEW r2, \A i \in 1 .. Iterations(l) : i # i0 => r2[i] = r[i],
           NEW k \in 0 .. n - 1, k # k0, NEW pos, Ran(r, l, n, k, pos)
    PROVE  Ran(r2, l, n, k, pos)
<1>1. \A i \in Block(l, n, k) : i \in 1 .. Iterations(l) /\ i # i0 BY BlocksPartition
<1> QED BY <1>1 DEF Ran

LEMMA RanFurther ==
    ASSUME NEW l \in Loops, NEW n \in Nat \ {0}, NEW k \in 0 .. n - 1, NEW pos \in Block(l, n, k),
           NEW r, NEW r2, \A i \in 1 .. Iterations(l) : i # pos => r2[i] = r[i], r2[pos] = 1,
           Ran(r, l, n, k, pos)
    PROVE  Ran(r2, l, n, k, pos + 1)
<1>1. Block(l, n, k) \subseteq 1 .. Iterations(l) BY BlocksPartition
<1>2. ASSUME NEW i \in Block(l, n, k) PROVE r2[i] = IF i < pos + 1 THEN 1 ELSE 0
  <2>1. i \in Int /\ pos \in Int BY <1>1
  <2>2. r[i] = IF i < pos THEN 1 ELSE 0 BY DEF Ran
  <2> QED BY <1>1, <2>1, <2>2
<1> QED BY <1>2 DEF Ran

\* The iteration that runs, in its slice.
LEMMA CurrentIteration ==
    ASSUME TypeInv, PoolInv, NEW t \in Threads, InSlice(t)
    PROVE  LET f == Top(t)
               n == slices[f.loop]
           IN /\ Busy(t) /\ t \notin throwing /\ f.pc = "run"
              /\ f \in Frames /\ f.loop \in Loops /\ n \in Nat \ {0} /\ f.slice \in 0 .. n - 1
              /\ f.pos \in Block(f.loop, n, f.slice) /\ f.pos \in 1 .. Iterations(f.loop)
              /\ Part(f, n, runs[f.loop]) /\ runs[f.loop][f.pos] = 0
              /\ status[f.loop] \in {"running", "threw"}
<1> DEFINE f == Top(t)
           n == slices[f.loop]
<1>1. Busy(t) /\ t \notin throwing /\ f.pc = "run" /\ f.kind \in {"loop", "task"}
      /\ f.pos <= SliceLast(f.loop, f.slice)
  BY DEF InSlice, At
<1> HIDE DEF f
<1>2. /\ f \in Frames /\ f.loop \in Loops /\ n \in Nat \ {0} /\ f.slice \in 0 .. n - 1
      /\ Part(f, n, runs[f.loop]) /\ status[f.loop] \in {"running", "threw"}
  <2>1. CASE f.kind = "loop"
    BY <1>1, <2>1, LoopOnTop DEF LoopFrameOk, PoolInv, f
  <2>2. CASE f.kind = "task"
    <3>1. /\ f \in Frames /\ f.loop \in Loops /\ n \in Nat \ {0} /\ f.slice \in 0 .. n - 2
          /\ TaskFrameOk(f, status[f.loop], n, runs[f.loop])
      BY <1>1, <2>2, TaskOnTop DEF PoolInv, f
    <3> QED BY <3>1 DEF TaskFrameOk, TaskOk
  <2> QED BY <1>1, <2>1, <2>2
<1> HIDE DEF n
<1>3. First(f.loop, n, f.slice) \in Int /\ First(f.loop, n, f.slice + 1) \in Int
      /\ Block(f.loop, n, f.slice) \subseteq 1 .. Iterations(f.loop)
  BY <1>2, BlocksPartition
<1>4. f.pos <= First(f.loop, n, f.slice + 1) - 1 BY <1>1, SlicesAreBlocks DEF n
<1>5. f.pos \in Int BY <1>2 DEF Frames
<1>6. f.pos \in Block(f.loop, n, f.slice) BY <1>2, <1>3, <1>4, <1>5 DEF Part, Block
<1>7. runs[f.loop][f.pos] = 0 BY <1>2, <1>5, <1>6 DEF Part, Ran
<1> QED BY <1>1, <1>2, <1>3, <1>6, <1>7 DEF f, n

LEMMA RunsType ==
    ASSUME TypeInv, PoolInv, NEW t \in Threads, InSlice(t), CountRun(t)
    PROVE  LET f == Top(t)
           IN /\ runs' \in [Loops -> UNION {[1 .. Iterations(l) -> {0, 1}] : l \in Loops}]
              /\ \A l \in Loops : runs'[l] \in [1 .. Iterations(l) -> {0, 1}]
              /\ \A l \in Loops : l # f.loop => runs'[l] = runs[l]
              /\ runs'[f.loop][f.pos] = 1
              /\ \A i \in 1 .. Iterations(f.loop) : i # f.pos => runs'[f.loop][i] = runs[f.loop][i]
<1> DEFINE f == Top(t)
           r == [runs[f.loop] EXCEPT ![f.pos] = @ + 1]
<1>1. f.loop \in Loops /\ f.pos \in 1 .. Iterations(f.loop) /\ runs[f.loop][f.pos] = 0
  BY CurrentIteration
<1> HIDE DEF f
<1>2. runs' = [runs EXCEPT ![f.loop] = r] BY DEF CountRun, f
<1>3. runs[f.loop] \in [1 .. Iterations(f.loop) -> {0, 1}] BY <1>1 DEF TypeInv
<1>4. r \in [1 .. Iterations(f.loop) -> {0, 1}] /\ r[f.pos] = 1
      /\ \A i \in 1 .. Iterations(f.loop) : i # f.pos => r[i] = runs[f.loop][i]
  <2>1. r = [runs[f.loop] EXCEPT ![f.pos] = 1] BY <1>1
  <2> HIDE DEF r
  <2> QED BY <1>1, <1>3, <2>1
<1> HIDE DEF r
<1>5. \A l \in Loops : runs'[l] = IF l = f.loop THEN r ELSE runs[l] BY <1>2 DEF TypeInv
<1>6. \A l \in Loops : runs'[l] \in [1 .. Iterations(l) -> {0, 1}] BY <1>4, <1>5 DEF TypeInv
<1>7. runs' \in [Loops -> UNION {[1 .. Iterations(l) -> {0, 1}] : l \in Loops}]
  <2>1. r \in UNION {[1 .. Iterations(l) -> {0, 1}] : l \in Loops} BY <1>1, <1>4
  <2> QED BY <1>2, <2>1 DEF TypeInv
<1> QED BY <1>1, <1>4, <1>5, <1>6, <1>7 DEF f

\* What the run of an iteration leaves of the other slices, and of its own.
LEMMA RunOthers ==
    ASSUME TypeInv, PoolInv, NEW t \in Threads, InSlice(t), CountRun(t)
    PROVE  LET f == Top(t)
               l == f.loop
               n == slices[l]
           IN /\ \A k \in 0 .. n - 1 : k # f.slice =>
                    \A pos : Ran(runs[l], l, n, k, pos) => Ran(runs'[l], l, n, k, pos)
              /\ Part(Advanced(t), n, runs'[l])
              /\ Advanced(t) \in Frames /\ Advanced(t).kind = f.kind /\ Advanced(t).loop = l
              /\ Advanced(t).slice = f.slice /\ Advanced(t).pc = "run" /\ Advanced(t).pos = f.pos + 1
<1> DEFINE f == Top(t)
           l == f.loop
           n == slices[l]
           g == Advanced(t)
<1>1. /\ f.pc = "run"
      /\ f \in Frames /\ l \in Loops /\ n \in Nat \ {0} /\ f.slice \in 0 .. n - 1
      /\ f.pos \in Block(l, n, f.slice) /\ Part(f, n, runs[l])
  BY CurrentIteration
<1>2. runs'[l][f.pos] = 1 /\ \A i \in 1 .. Iterations(l) : i # f.pos => runs'[l][i] = runs[l][i]
  BY RunsType
<1>3. g = [f EXCEPT !.pos = @ + 1] BY DEF Advanced
<1> HIDE DEF f, g
<1>4. g \in Frames /\ g.kind = f.kind /\ g.loop = l /\ g.slice = f.slice /\ g.pc = "run" /\ g.pos = f.pos + 1
  BY <1>1, <1>3 DEF Frames
<1> HIDE DEF l, n
<1>5. ASSUME NEW k \in 0 .. n - 1, k # f.slice, NEW pos, Ran(runs[l], l, n, k, pos)
      PROVE  Ran(runs'[l], l, n, k, pos)
  BY <1>1, <1>2, <1>5, RanElsewhere
<1>6. Part(g, n, runs'[l])
  <2>1. Ran(runs[l], l, n, f.slice, f.pos) BY <1>1 DEF Part, l
  <2>2. Ran(runs'[l], l, n, f.slice, f.pos + 1) BY <1>1, <1>2, <2>1, RanFurther
  <2>3. First(l, n, f.slice) \in Int /\ First(l, n, f.slice + 1) \in Int BY <1>1, BlocksPartition
  <2>4. First(l, n, f.slice) <= f.pos + 1 /\ f.pos + 1 <= First(l, n, f.slice + 1)
    BY <1>1, <2>3 DEF Block
  <2> QED BY <1>4, <2>2, <2>4 DEF Part
<1> QED BY <1>4, <1>5, <1>6 DEF f, g, l, n

LEMMA RunFrames ==
    ASSUME TypeInv, PoolInv, NEW t \in Threads, InSlice(t), CountRun(t)
    PROVE  LET Now(q) == IF q = TopPlace(t) THEN Advanced(t) ELSE Held[q]
           IN /\ \A q \in LoopPlaces : LET m == Held[q].loop
                                       IN LoopFrameOk(Now(q), status[m], slices[m], runs'[m])
              /\ \A q \in TaskPlaces : LET m == Held[q].loop
                                       IN TaskFrameOk(Now(q), status[m], slices[m], runs'[m])
<1> DEFINE f == Top(t)
           l == f.loop
           n == slices[l]
           p == TopPlace(t)
           g == Advanced(t)
<1>1. /\ Busy(t) /\ f.pc = "run" /\ f \in Frames /\ l \in Loops /\ n \in Nat \ {0} /\ f.slice \in 0 .. n - 1
  BY CurrentIteration
<1>2. p \in Places /\ Held[p] = f BY <1>1, TopIsHeld
<1>3. \A m \in Loops : m # l => runs'[m] = runs[m] BY RunsType
<1>4. /\ \A k \in 0 .. n - 1 : k # f.slice =>
            \A pos : Ran(runs[l], l, n, k, pos) => Ran(runs'[l], l, n, k, pos)
      /\ Part(g, n, runs'[l])
      /\ g \in Frames /\ g.kind = f.kind /\ g.loop = l /\ g.slice = f.slice /\ g.pc = "run"
  BY RunOthers
<1> HIDE DEF f, l, n, p, g
<1>5. ASSUME p \in LoopPlaces PROVE LoopFrameOk(g, status[l], slices[l], runs'[l])
  <2>1. LoopFrameOk(f, status[l], n, runs[l]) BY <1>2, <1>5, PosOfLoopFrame DEF PoolInv, l, n
  <2> QED BY <1>1, <1>4, <2>1 DEF LoopFrameOk, n
<1>6. ASSUME p \in TaskPlaces PROVE TaskFrameOk(g, status[l], slices[l], runs'[l])
  <2>1. TaskFrameOk(f, status[l], n, runs[l]) BY <1>2, <1>6, PosOfTaskFrame DEF PoolInv, l, n
  <2> QED BY <1>1, <1>4, <2>1 DEF TaskFrameOk, TaskOk, n
<1>7. ASSUME NEW q \in LoopPlaces, q # p
      PROVE  LET m == Held[q].loop IN LoopFrameOk(Held[q], status[m], slices[m], runs'[m])
  <2> DEFINE h == Held[q]
  <2>1. h \in Frames /\ h.loop \in Loops /\ LoopFrameOk(h, status[h.loop], slices[h.loop], runs[h.loop])
    BY PosOfLoopFrame DEF PoolInv
  <2>2. CASE h.loop # l BY <1>3, <2>1, <2>2
  <2>3. CASE h.loop = l
    <3> HIDE DEF h
    <3>1. LoopFrameOk(h, status[l], n, runs[l]) BY <2>1, <2>3 DEF n
    <3>2. p \in TaskPlaces
      <4>1. p \notin LoopPlaces BY <1>2, <1>7, <2>3 DEF PoolInv, LoopsAreUnique, h, l
      <4> QED BY <1>2, <4>1, KindsOfPlaces
    <3>3. f.slice \in 0 .. n - 2 BY <1>2, <3>2, PosOfTaskFrame DEF PoolInv, l, n
    <3>4. CASE h.pc # "submit"
      <4>1. h.slice = n - 1 /\ n - 1 \in 0 .. n - 1 /\ n - 1 # f.slice BY <1>1, <3>1, <3>3, <3>4 DEF LoopFrameOk
      <4>2. Part(h, n, runs'[l])
        BY <1>4, <2>3, <3>1, <3>4, <4>1 DEF LoopFrameOk, Part
      <4> QED BY <2>3, <3>1, <3>4, <4>2 DEF LoopFrameOk, h, n
    <3>5. CASE h.pc = "submit"
      <4>1. h.slice \in Nat BY <2>1 DEF Frames
      <4>2. f.slice \notin h.slice .. n - 1
        <5>1. TaskOf(f) \in OnStack BY <1>2, <3>2 DEF OnStack
        <5>2. TaskOf(f) \notin Unsubmitted BY <5>1 DEF PoolInv, SlicesAreUnique
        <5>3. TaskOf(f) \in Tasks /\ TaskOf(f).loop = l /\ TaskOf(f).slice = f.slice
          BY <1>1 DEF Tasks, TaskOf, l
        <5>4. f.slice \notin h.slice .. n - 2 BY <2>3, <3>5, <5>2, <5>3 DEF Unsubmitted, h, n
        <5> QED BY <3>3, <5>4
      <4>3. \A k \in h.slice .. n - 1 : k \in 0 .. n - 1 /\ k # f.slice BY <1>1, <4>1, <4>2
      <4>4. \A k \in h.slice .. n - 1 : NoneRan(runs'[l], l, n, k)
        BY <1>4, <2>3, <3>1, <3>5, <4>3 DEF LoopFrameOk, NoneRan
      <4> QED BY <2>3, <3>1, <3>5, <4>4 DEF LoopFrameOk, h, n
    <3> QED BY <3>4, <3>5
  <2> QED BY <2>2, <2>3
<1>8. ASSUME NEW q \in TaskPlaces, q # p
      PROVE  LET m == Held[q].loop IN TaskFrameOk(Held[q], status[m], slices[m], runs'[m])
  <2> DEFINE h == Held[q]
  <2>1. h \in Frames /\ h.loop \in Loops /\ TaskFrameOk(h, status[h.loop], slices[h.loop], runs[h.loop])
        /\ h.slice \in 0 .. slices[h.loop] - 2
    BY PosOfTaskFrame DEF PoolInv
  <2>2. CASE h.loop # l BY <1>3, <2>1, <2>2
  <2>3. CASE h.loop = l
    <3> HIDE DEF h
    <3>1. TaskFrameOk(h, status[l], n, runs[l]) /\ h.slice \in 0 .. n - 2 BY <2>1, <2>3 DEF n
    <3>2. h.slice # f.slice
      <4>1. CASE p \in TaskPlaces
        <5>1. TaskOf(f) # TaskOf(h) BY <1>2, <1>8, <4>1 DEF PoolInv, SlicesAreUnique, h
        <5> QED BY <2>3, <5>1 DEF TaskOf, l
      <4>2. CASE p \in LoopPlaces
        <5>1. LoopFrameOk(f, status[l], n, runs[l]) BY <1>2, <4>2, PosOfLoopFrame DEF PoolInv, l, n
        <5>2. f.slice = n - 1 BY <1>1, <5>1 DEF LoopFrameOk
        <5> QED BY <1>1, <3>1, <5>2
      <4> QED BY <1>2, <4>1, <4>2, KindsOfPlaces
    <3>3. h.slice \in 0 .. n - 1 BY <1>1, <3>1
    <3>4. Part(h, n, runs'[l]) BY <1>4, <2>3, <3>1, <3>2, <3>3 DEF TaskFrameOk, Part
    <3> QED BY <2>3, <3>1, <3>4 DEF TaskFrameOk, h, n
  <2> QED BY <2>2, <2>3
<1> QED BY <1>2, <1>5, <1>6, <1>7, <1>8 DEF g, p, l

LEMMA RunQueues ==
    ASSUME TypeInv, PoolInv, NEW t \in Threads, InSlice(t), CountRun(t)
    PROVE  /\ \A x \in Queued : QueuedOk(x, status[x.loop], slices[x.loop], runs'[x.loop])
           /\ \A m \in Loops : status[m] = "running" =>
                 \A k \in (0 .. slices[m] - 2) \ Pending(m, slices[m], Active) :
                    has_exception[m] \/ AllRan(runs'[m], m, slices[m], k)
<1> DEFINE f == Top(t)
           l == f.loop
           n == slices[l]
           p == TopPlace(t)
<1>1. /\ Busy(t) /\ f.pc = "run" /\ f \in Frames /\ l \in Loops /\ n \in Nat \ {0} /\ f.slice \in 0 .. n - 1
  BY CurrentIteration
<1>2. p \in Places /\ Held[p] = f BY <1>1, TopIsHeld
<1>3. \A m \in Loops : m # l => runs'[m] = runs[m] BY RunsType
<1>4. \A k \in 0 .. n - 1 : k # f.slice =>
            \A pos : Ran(runs[l], l, n, k, pos) => Ran(runs'[l], l, n, k, pos)
  BY RunOthers
<1> HIDE DEF f, l, n, p
<1>5. f.slice = n - 1 \/ TaskOf(f) \in OnStack
  <2>1. CASE p \in TaskPlaces BY <1>2, <2>1 DEF OnStack
  <2>2. CASE p \in LoopPlaces
    <3>1. LoopFrameOk(f, status[l], n, runs[l]) BY <1>2, <2>2, PosOfLoopFrame DEF PoolInv, l, n
    <3> QED BY <1>1, <3>1 DEF LoopFrameOk
  <2> QED BY <1>2, <2>1, <2>2, KindsOfPlaces
<1>6. ASSUME NEW x \in Queued PROVE QueuedOk(x, status[x.loop], slices[x.loop], runs'[x.loop])
  <2>1. x \in Tasks /\ QueuedOk(x, status[x.loop], slices[x.loop], runs[x.loop])
    BY QueuedType DEF PoolInv, QueuesAreOk
  <2>2. CASE x.loop # l BY <1>3, <2>1, <2>2 DEF Tasks
  <2>3. CASE x.loop = l
    <3>1. x.slice \in 0 .. n - 1 /\ x.slice # n - 1
      BY <1>1, <2>1, <2>3 DEF QueuedOk, TaskOk, Tasks, n
    <3>2. x.slice # f.slice
      <4>1. x \notin OnStack BY DEF PoolInv, SlicesAreUnique
      <4>2. x.slice = f.slice => x = TaskOf(f) BY <2>1, <2>3 DEF Tasks, TaskOf, l
      <4> QED BY <1>5, <3>1, <4>1, <4>2
    <3>3. NoneRan(runs'[l], l, n, x.slice) BY <1>4, <2>1, <2>3, <3>1, <3>2 DEF QueuedOk, NoneRan, n
    <3> QED BY <2>1, <2>3, <3>3 DEF QueuedOk, n
  <2> QED BY <2>2, <2>3
<1>7. ASSUME NEW m \in Loops, status[m] = "running",
             NEW k \in (0 .. slices[m] - 2) \ Pending(m, slices[m], Active)
      PROVE  has_exception[m] \/ AllRan(runs'[m], m, slices[m], k)
  <2>1. has_exception[m] \/ AllRan(runs[m], m, slices[m], k) BY <1>7 DEF PoolInv, SlicesAreRun
  <2>2. CASE m # l BY <1>3, <2>1, <2>2
  <2>3. CASE m = l
    <3>1. k \in 0 .. n - 1 /\ k \in 0 .. n - 2 BY <1>1, <2>3 DEF n
    <3>2. k # f.slice
      <4>1. [loop |-> m, slice |-> k] \notin OnStack BY <1>7 DEF Pending, Active
      <4> QED BY <1>1, <1>5, <2>3, <3>1, <4>1 DEF TaskOf, l
    <3> QED BY <1>4, <2>1, <2>3, <3>1, <3>2 DEF AllRan, n
  <2> QED BY <2>2, <2>3
<1> QED BY <1>6, <1>7

LEMMA UpdateTop ==
    ASSUME TypeInv, NEW t \in Threads, Busy(t), NEW f \in Frames, Update(t, f)
    PROVE  Busy(t)' /\ Top(t)' = f
<1>1. stack[t] \in Seq(Frames) /\ stack[t] # <<>> BY DEF TypeInv, Busy
<1>2. stack'[t] = <<f>> \o Tail(stack[t]) BY DEF Update, TypeInv
<1>3. Tail(stack[t]) \in Seq(Frames) BY <1>1
<1>4. \A r \in Seq(Frames) : <<f>> \o r # <<>> /\ Head(<<f>> \o r) = f OBVIOUS
<1> QED BY <1>2, <1>3, <1>4 DEF Busy, Top

LEMMA RunStep ==
    ASSUME TypeInv, PoolInv, NEW t \in Threads, InSlice(t), CountRun(t), Update(t, Advanced(t)),
           UNCHANGED <<pool, turn, queue, status, slices, latch, has_exception>>,
           \/ UNCHANGED <<throwing, failed>>
           \/ /\ throwing' = throwing \cup {t}
              /\ failed' = failed \cup {<<Top(t).loop, Top(t).pos>>}
    PROVE  (TypeInv /\ PoolInv)'
<1> USE DEF pool
<1> DEFINE f == Top(t)
           l == f.loop
           p == TopPlace(t)
           g == Advanced(t)
<1>1. /\ Busy(t) /\ t \notin throwing /\ f.pc = "run" /\ f \in Frames /\ l \in Loops
      /\ status[l] \in {"running", "threw"} /\ f.pos \in Int
  BY CurrentIteration DEF Frames
<1>2. /\ runs' \in [Loops -> UNION {[1 .. Iterations(m) -> {0, 1}] : m \in Loops}]
      /\ \A m \in Loops : runs'[m] \in [1 .. Iterations(m) -> {0, 1}]
      /\ \A m \in Loops : m # l => runs'[m] = runs[m]
      /\ runs'[l][f.pos] = 1
      /\ \A i \in 1 .. Iterations(l) : i # f.pos => runs'[l][i] = runs[l][i]
  BY RunsType
<1>3. g \in Frames /\ g.kind = f.kind /\ g.loop = l /\ g.slice = f.slice /\ g.pc = "run" /\ g.pos = f.pos + 1
  BY RunOthers
<1>4. /\ \A q \in LoopPlaces : LET m == Held[q].loop
                               IN LoopFrameOk(IF q = p THEN g ELSE Held[q], status[m], slices[m], runs'[m])
      /\ \A q \in TaskPlaces : LET m == Held[q].loop
                               IN TaskFrameOk(IF q = p THEN g ELSE Held[q], status[m], slices[m], runs'[m])
  BY RunFrames
<1>5. /\ \A x \in Queued : QueuedOk(x, status[x.loop], slices[x.loop], runs'[x.loop])
      /\ \A m \in Loops : status[m] = "running" =>
            \A k \in (0 .. slices[m] - 2) \ Pending(m, slices[m], Active) :
               has_exception[m] \/ AllRan(runs'[m], m, slices[m], k)
  BY RunQueues
<1> HIDE DEF g
<1>6. /\ stack' \in [Threads -> Seq(Frames)]
      /\ p \in Places /\ Held[p] = f /\ Held'[p] = g
      /\ Places' = Places /\ \A q \in Places \ {p} : Held'[q] = Held[q]
      /\ LoopPlaces' = LoopPlaces /\ TaskPlaces' = TaskPlaces /\ OnStack' = OnStack
  BY <1>1, <1>3, UpdateSets DEF g
<1>7. Busy(t)' /\ Top(t)' = g BY <1>1, <1>3, UpdateTop DEF g
<1>8. \A u \in throwing : Busy(u)' = Busy(u) /\ Top(u)' = Top(u)
  BY <1>1, OthersThrow DEF Update
<1>9. \A u \in Threads : Busy(u)' => Busy(u) BY <1>1 DEF Update, Busy, TypeInv
<1> HIDE DEF f, l, p
<1>10. Unsubmitted' = Unsubmitted BY <1>1, <1>3, <1>6, UpdateUnsubmitted DEF l
<1>11. LoopPlaces \subseteq Places /\ TaskPlaces \subseteq Places BY DEF LoopPlaces, TaskPlaces
<1>12. Queued' = Queued /\ Active' = Active BY <1>6, <1>10 DEF Queued, Active
<1>13. \A q \in Places : /\ Held'[q] = IF q = p THEN g ELSE Held[q]
                         /\ Held'[q].loop = Held[q].loop /\ TaskOf(Held'[q]) = TaskOf(Held[q])
  BY <1>3, <1>6 DEF TaskOf, l
<1>14. TypeInv'
  <2>1. throwing' \subseteq Threads BY DEF TypeInv
  <2> QED BY <1>2, <1>6, <2>1 DEF TypeInv
<1>15. LoopFramesAreOk' BY <1>4, <1>6, <1>11, <1>13 DEF LoopFramesAreOk
<1>16. TaskFramesAreOk' BY <1>4, <1>6, <1>11, <1>13 DEF TaskFramesAreOk
<1>17. QueuesAreOk' BY <1>5, <1>12 DEF QueuesAreOk
<1>18. LoopsAreUnique' BY <1>6, <1>11, <1>13 DEF LoopsAreUnique, PoolInv
<1>19. SlicesAreUnique'
  BY <1>6, <1>10, <1>11, <1>12, <1>13 DEF SlicesAreUnique, QueuesAreInjective, PoolInv
<1>20. RunningIsCalled' BY <1>6, <1>11, <1>13 DEF RunningIsCalled, PoolInv
<1>21. IdleIsUnrun' BY <1>1, <1>2 DEF IdleIsUnrun, PoolInv
<1>22. CallsAreAhead'
  <2>1. \A m \in Loops : \A i \in 1 .. Iterations(m) : runs'[m][i] = 0 => runs[m][i] = 0
    BY <1>1, <1>2
  <2> QED BY <2>1 DEF CallsAreAhead, PoolInv
<1>23. LatchInv' /\ SlicesAreRun' BY <1>5, <1>12 DEF LatchInv, SlicesAreRun, PoolInv
<1>24. WorkersInv'
  <2>1. \A u \in throwing' : u = t \/ u \in throwing OBVIOUS
  <2> QED BY <1>6, <1>7, <1>8, <1>9, <1>11, <1>13, <2>1 DEF WorkersInv, PoolInv, Threads
<1>25. FailuresAreKnown'
  <2>1. \A m \in Loops : \A i : <<m, i>> \in failed =>
           \/ has_exception[m] \/ status[m] = "threw"
           \/ \E u \in throwing : Busy(u)' /\ (Top(u)').loop = m /\ (Top(u)').pos - 1 = i
    BY <1>8 DEF FailuresAreKnown, PoolInv
  <2>2. g.loop = l /\ g.pos - 1 = f.pos BY <1>1, <1>3
  <2>3. \A y : y \in failed' => y \in failed \/ (y = <<l, f.pos>> /\ t \in throwing') BY DEF l, f
  <2>4. throwing \subseteq throwing' OBVIOUS
  <2> QED BY <1>7, <2>1, <2>2, <2>3, <2>4 DEF FailuresAreKnown
<1>26. DoneIsDone'
  <2>1. ASSUME NEW m \in Loops, status[m] = "done", NEW i \in 1 .. Iterations(m)
        PROVE  runs'[m][i] = 1 /\ <<m, i>> \notin failed'
    <3>1. m # l BY <1>1, <2>1
    <3>2. <<m, i>> \notin failed /\ runs[m][i] = 1 BY <2>1 DEF DoneIsDone, PoolInv
    <3> QED BY <1>2, <3>1, <3>2 DEF l, f
  <2> QED BY <2>1 DEF DoneIsDone
<1> QED BY <1>14, <1>15, <1>16, <1>17, <1>18, <1>19, <1>20, <1>21, <1>22, <1>23, <1>24, <1>25, <1>26 DEF PoolInv

LEMMA RunSteps ==
    ASSUME TypeInv, PoolInv, NEW t \in Threads, RunLeaf(t) \/ RunThrowing(t) PROVE (TypeInv /\ PoolInv)'
<1>1. /\ InSlice(t) /\ CountRun(t) /\ Update(t, Advanced(t))
      /\ UNCHANGED <<pool, turn, queue, status, slices, latch, has_exception>>
  BY DEF RunLeaf, RunThrowing
<1>2. \/ UNCHANGED <<throwing, failed>>
      \/ /\ throwing' = throwing \cup {t}
         /\ failed' = failed \cup {<<Top(t).loop, Top(t).pos>>}
  BY DEF RunLeaf, RunThrowing
<1> QED BY <1>1, <1>2, RunStep

-----------------------------------------------------------------------------
(* Tasks are taken, and end *)

LEMMA TakeTaskStep ==
    ASSUME TypeInv, PoolInv, NEW w \in Workers, TakeTask(w) PROVE (TypeInv /\ PoolInv)'
<1> USE DEF pool
<1> DEFINE x == Head(queue[w])
           f == TaskFrame(x)
           n == slices[x.loop]
           p == <<w, Len(stack[w]) + 1>>
<1>1. /\ w \in live /\ queue[w] # <<>> /\ queue' = [queue EXCEPT ![w] = Tail(@)] /\ Push(w, f)
      /\ UNCHANGED <<pool, turn, throwing, status, slices, latch, has_exception, runs, failed>>
      /\ w \in Threads /\ w \notin throwing
  BY DEF TakeTask, At, Threads, PoolInv, WorkersInv
<1>2. /\ queue' \in [Workers -> Seq(Tasks)] /\ x \in Queued /\ x \in Tasks
      /\ Queued' = Queued \ {x} /\ QueuesAreInjective'
  BY <1>1, TakeFromQueue DEF PoolInv, SlicesAreUnique
<1> HIDE DEF x, n
<1>3. QueuedOk(x, status[x.loop], n, runs[x.loop]) BY <1>2 DEF PoolInv, QueuesAreOk, n
<1>4. x.loop \in Loops /\ n \in Nat /\ x.slice \in 0 .. n - 2 /\ n > 0
  <2>1. x.loop \in Loops /\ x.slice \in Nat BY <1>2 DEF Tasks
  <2>2. n \in Nat BY <2>1 DEF TypeInv, n
  <2> QED BY <1>3, <2>1, <2>2 DEF QueuedOk, TaskOk
<1>5. First(x.loop, n, x.slice) \in Int /\ First(x.loop, n, x.slice) <= First(x.loop, n, x.slice + 1)
  BY <1>4, BlocksPartition
<1>6. SliceFirst(x.loop, x.slice) = First(x.loop, n, x.slice) BY SlicesAreBlocks DEF n
<1>7. f \in Frames /\ f.kind = "task" /\ f.loop = x.loop /\ f.slice = x.slice /\ f.pc = "run"
      /\ f.pos = First(x.loop, n, x.slice) /\ TaskOf(f) = x
  <2>1. f = [kind |-> "task", loop |-> x.loop, slice |-> x.slice, pos |-> First(x.loop, n, x.slice), pc |-> "run"]
    BY <1>6 DEF TaskFrame
  <2> HIDE DEF f
  <2> QED BY <1>2, <1>4, <1>5, <2>1 DEF Frames, Pcs, TaskOf, Tasks
<1> HIDE DEF f
<1>8. TaskFrameOk(f, status[f.loop], slices[f.loop], runs[f.loop])
  BY <1>3, <1>5, <1>7 DEF TaskFrameOk, QueuedOk, TaskOk, Part, NoneRan, n
<1>9. /\ stack' \in [Threads -> Seq(Frames)]
      /\ p \notin Places /\ Places' = Places \cup {p}
      /\ Held'[p] = f /\ \A q \in Places : Held'[q] = Held[q]
  <2>1. w \in Threads BY DEF Threads
  <2> QED BY <1>1, <1>7, <2>1, PushPlaces
<1> HIDE DEF p
<1>10. LoopPlaces' = LoopPlaces /\ TaskPlaces' = TaskPlaces \cup {p} BY <1>7, <1>9 DEF LoopPlaces, TaskPlaces
<1>11. LoopPlaces \subseteq Places /\ TaskPlaces \subseteq Places BY DEF LoopPlaces, TaskPlaces
<1>12. OnStack' = OnStack \cup {x} BY <1>7, <1>9, <1>10, <1>11 DEF OnStack
<1>13. \A q \in LoopPlaces : Held'[q] = Held[q] BY <1>9, <1>11
<1>14. Unsubmitted' = Unsubmitted BY <1>1, <1>10, <1>13 DEF Unsubmitted
<1>15. Active' = Active BY <1>2, <1>12, <1>14 DEF Active
<1>16. TypeInv' BY <1>1, <1>2, <1>9 DEF TypeInv
<1>17. LoopFramesAreOk' BY <1>1, <1>10, <1>13 DEF LoopFramesAreOk, PoolInv
<1>18. TaskFramesAreOk' BY <1>1, <1>8, <1>9, <1>10, <1>11 DEF TaskFramesAreOk, PoolInv
<1>19. QueuesAreOk' BY <1>1, <1>2 DEF QueuesAreOk, PoolInv
<1>20. LoopsAreUnique' BY <1>10, <1>13 DEF LoopsAreUnique, PoolInv
<1>21. SlicesAreUnique'
  <2>1. \A q \in TaskPlaces : TaskOf(Held[q]) # x BY <1>2 DEF OnStack, PoolInv, SlicesAreUnique
  <2>2. \A q \in TaskPlaces : Held'[q] = Held[q] BY <1>9, <1>11
  <2>3. \A q, r \in TaskPlaces' : TaskOf(Held'[q]) = TaskOf(Held'[r]) => q = r
    BY <1>7, <1>9, <1>10, <2>1, <2>2 DEF PoolInv, SlicesAreUnique
  <2>4. x \notin OnStack /\ x \notin Unsubmitted BY <1>2 DEF PoolInv, SlicesAreUnique
  <2> QED BY <1>2, <1>12, <1>14, <2>3, <2>4 DEF SlicesAreUnique, PoolInv
<1>22. RunningIsCalled' BY <1>1, <1>10, <1>13 DEF RunningIsCalled, PoolInv
<1>23. IdleIsUnrun' /\ CallsAreAhead' /\ DoneIsDone'
  BY <1>1 DEF IdleIsUnrun, CallsAreAhead, DoneIsDone, PoolInv
<1>24. LatchInv' /\ SlicesAreRun' BY <1>1, <1>15 DEF LatchInv, SlicesAreRun, PoolInv
<1>25. \A u \in Threads : u # w => stack'[u] = stack[u] BY <1>1 DEF Push, TypeInv
<1>26. WorkersInv'
  <2>1. \A c \in Clients : c # w BY PoolAssumption DEF Workers
  <2>2. throwing \subseteq Threads BY DEF TypeInv
  <2> QED BY <1>1, <2>2, <1>10, <1>13, <1>25, <2>1 DEF WorkersInv, PoolInv, Busy, Threads
<1>27. FailuresAreKnown'
  <2>1. \A u \in throwing : Busy(u)' = Busy(u) /\ Top(u)' = Top(u)
    BY <1>1, <1>25 DEF Busy, Top, TypeInv
  <2> QED BY <1>1, <2>1 DEF FailuresAreKnown, PoolInv
<1> QED BY <1>16, <1>17, <1>18, <1>19, <1>20, <1>21, <1>22, <1>23, <1>24, <1>26, <1>27 DEF PoolInv

\* The end of a task, with or without an exception that it catches.
LEMMA TaskPopStep ==
    ASSUME TypeInv, PoolInv, NEW t \in Threads, Busy(t), Top(t).kind = "task", Pop(t),
           latch' = [latch EXCEPT ![Top(t).loop] = @ - 1],
           UNCHANGED <<pool, turn, queue, status, slices, runs, failed>>,
           \/ /\ t \notin throwing /\ Top(t).pos > SliceLast(Top(t).loop, Top(t).slice)
              /\ UNCHANGED <<throwing, has_exception>>
           \/ /\ throwing' = throwing \ {t}
              /\ has_exception' = [has_exception EXCEPT ![Top(t).loop] = TRUE]
    PROVE  (TypeInv /\ PoolInv)'
<1> USE DEF pool
<1> DEFINE f == Top(t)
           l == f.loop
           n == slices[l]
           p == TopPlace(t)
           x == TaskOf(f)
<1>1. /\ p \in TaskPlaces /\ Held[p] = f /\ f \in Frames /\ l \in Loops /\ n \in Nat \ {0}
      /\ f.slice \in 0 .. n - 2 /\ TaskFrameOk(f, status[l], n, runs[l])
  BY TaskOnTop DEF PoolInv
<1>2. /\ stack' \in [Threads -> Seq(Frames)]
      /\ Places' = Places \ {p} /\ \A q \in Places' : Held'[q] = Held[q]
      /\ LoopPlaces' = LoopPlaces /\ TaskPlaces' = TaskPlaces \ {p}
      /\ x \in OnStack /\ OnStack' = OnStack \ {x}
      /\ Unsubmitted' = Unsubmitted
  BY PopTaskSets DEF PoolInv
<1>3. stack'[t] = Tail(stack[t]) /\ \A u \in Threads : u # t => stack'[u] = stack[u]
  BY DEF Pop, TypeInv
<1>4. \A u \in Threads : Busy(u)' => Busy(u)
  BY <1>3 DEF Busy, TypeInv
<1>5. /\ \A m \in Loops : has_exception[m] => has_exception'[m]
      /\ has_exception' \in [Loops -> BOOLEAN]
      /\ throwing' = throwing \ {t}
      /\ t \in throwing => has_exception'[l]
      /\ has_exception'[l] \/ f.pos > SliceLast(l, f.slice)
  <2>1. CASE /\ t \notin throwing /\ f.pos > SliceLast(l, f.slice)
             /\ UNCHANGED <<throwing, has_exception>>
    <3> HIDE DEF f, l
    <3> QED BY <2>1 DEF TypeInv
  <2>2. CASE throwing' = throwing \ {t} /\ has_exception' = [has_exception EXCEPT ![Top(t).loop] = TRUE]
    <3> HIDE DEF f
    <3>1. has_exception'[l] = TRUE BY <1>1, <2>2 DEF TypeInv, f
    <3> QED BY <2>2, <3>1 DEF TypeInv
  <2> QED BY <2>1, <2>2
<1>6. latch'[l] = latch[l] - 1 /\ \A m \in Loops : m # l => latch'[m] = latch[m]
  BY <1>1 DEF TypeInv
<1>7. latch' \in [Loops -> Int]
  <2> HIDE DEF f
  <2>1. latch \in [Loops -> Int] /\ latch[l] \in Int BY <1>1 DEF TypeInv, f
  <2>2. latch' = [latch EXCEPT ![l] = latch[l] - 1] BY <1>1 DEF TypeInv, f
  <2>3. latch[l] - 1 \in Int BY <2>1
  <2> QED BY <2>1, <2>2, <2>3
<1> HIDE DEF f, l, n, p
<1>8. LoopPlaces \subseteq Places /\ TaskPlaces \subseteq Places /\ LoopPlaces \cap TaskPlaces = {}
  BY KindsOfPlaces
<1>9. /\ \A q \in LoopPlaces : Held'[q] = Held[q]
      /\ \A q \in TaskPlaces \ {p} : Held'[q] = Held[q]
  BY <1>1, <1>2, <1>8
<1>10. x = [loop |-> l, slice |-> f.slice] BY DEF TaskOf, l
<1> HIDE DEF x
<1>11. x \notin Queued /\ x \notin Unsubmitted BY <1>2 DEF PoolInv, SlicesAreUnique
<1>12. Queued' = Queued /\ Active' = Active \ {x} BY <1>2, <1>11 DEF Queued, Active
<1>13. \A m \in Loops : m # l => Pending(m, slices[m], Active') = Pending(m, slices[m], Active)
  BY <1>10, <1>12 DEF Pending
<1>14. /\ Pending(l, n, Active') = Pending(l, n, Active) \ {f.slice}
       /\ f.slice \in Pending(l, n, Active)
  BY <1>1, <1>2, <1>10, <1>12 DEF Pending, Active
<1>15. TypeInv' BY <1>2, <1>5, <1>7 DEF TypeInv
<1>16. LoopFramesAreOk' BY <1>2, <1>9 DEF LoopFramesAreOk, PoolInv
<1>17. TaskFramesAreOk' BY <1>2, <1>9 DEF TaskFramesAreOk, PoolInv
<1>18. QueuesAreOk' BY <1>12 DEF QueuesAreOk, PoolInv
<1>19. LoopsAreUnique' BY <1>2, <1>9 DEF LoopsAreUnique, PoolInv
<1>20. SlicesAreUnique' BY <1>2, <1>9, <1>12 DEF SlicesAreUnique, QueuesAreInjective, PoolInv
<1>21. RunningIsCalled' BY <1>2, <1>9 DEF RunningIsCalled, PoolInv
<1>22. IdleIsUnrun' /\ CallsAreAhead' /\ DoneIsDone'
  BY DEF IdleIsUnrun, CallsAreAhead, DoneIsDone, PoolInv
<1>23. LatchInv'
  <2>1. Cardinality(Pending(l, n, Active')) = Cardinality(Pending(l, n, Active)) - 1
    <3>1. IsFiniteSet(Pending(l, n, Active)) BY <1>1, PendingBounds
    <3>2. Cardinality(Pending(l, n, Active) \ {f.slice}) = Cardinality(Pending(l, n, Active)) - 1
      BY <1>14, <3>1, FS_RemoveElement
    <3> QED BY <1>14, <3>2
  <2>2. Cardinality(Pending(l, n, Active)) \in Nat BY <1>1, PendingBounds
  <2>3. Cardinality(Pending(l, n, Active)) <= latch[l] BY <1>1 DEF LatchInv, PoolInv, n
  <2>4. latch[l] \in Int BY <1>1 DEF TypeInv
  <2>5. Cardinality(Pending(l, n, Active')) <= latch'[l] BY <1>6, <2>1, <2>2, <2>3, <2>4
  <2> QED BY <1>6, <1>13, <2>5 DEF LatchInv, PoolInv, n
<1>24. SlicesAreRun'
  <2> SUFFICES ASSUME NEW m \in Loops, status[m] = "running",
                      NEW k \in (0 .. slices[m] - 2) \ Pending(m, slices[m], Active')
               PROVE  has_exception'[m] \/ AllRan(runs[m], m, slices[m], k)
    BY DEF SlicesAreRun
  <2>1. CASE k \notin Pending(m, slices[m], Active)
    BY <1>5, <2>1 DEF PoolInv, SlicesAreRun
  <2>2. CASE k \in Pending(m, slices[m], Active)
    <3>1. m = l /\ k = f.slice BY <1>13, <1>14, <2>2 DEF n
    <3>2. CASE has_exception'[l] BY <3>1, <3>2
    <3>3. CASE f.pos > SliceLast(l, f.slice)
      <4>1. f.pos > First(l, n, f.slice + 1) - 1 BY <3>3, SlicesAreBlocks DEF n
      <4>2. First(l, n, f.slice + 1) \in Int /\ f.pos \in Int
        <5>1. f.slice \in 0 .. n - 1 BY <1>1
        <5> QED BY <1>1, <5>1, BlocksPartition DEF Frames
      <4>3. Part(f, n, runs[l]) BY <1>1 DEF TaskFrameOk
      <4>4. f.pos = First(l, n, f.slice + 1) BY <4>1, <4>2, <4>3 DEF Part, l
      <4>5. AllRan(runs[l], l, n, f.slice) BY <4>3, <4>4 DEF Part, AllRan, l
      <4> QED BY <3>1, <4>5 DEF n
    <3> QED BY <1>5, <3>2, <3>3
  <2> QED BY <2>1, <2>2
<1>25. WorkersInv'
  <2>1. \A u \in throwing' : Busy(u)' = Busy(u) /\ u \in throwing
    BY <1>3, <1>5 DEF Busy, TypeInv
  <2> QED BY <1>2, <1>4, <1>9, <2>1 DEF WorkersInv, PoolInv, Threads
<1>26. FailuresAreKnown'
  <2>1. \A u \in throwing' : u # t => Busy(u)' = Busy(u) /\ Top(u)' = Top(u)
    BY <1>3, <1>5 DEF Busy, Top, TypeInv
  <2>2. ASSUME NEW m \in Loops, NEW i, <<m, i>> \in failed
        PROVE  \/ has_exception'[m] \/ status[m] = "threw"
               \/ \E u \in throwing' : Busy(u)' /\ (Top(u)').loop = m /\ (Top(u)').pos - 1 = i
    <3>1. CASE has_exception[m] \/ status[m] = "threw" BY <1>5, <3>1
    <3>2. CASE \E u \in throwing : Busy(u) /\ Top(u).loop = m /\ Top(u).pos - 1 = i
      <4>1. PICK u \in throwing : Busy(u) /\ Top(u).loop = m /\ Top(u).pos - 1 = i BY <3>2
      <4>2. CASE u = t BY <1>5, <4>1, <4>2 DEF l, f
      <4>3. CASE u # t BY <1>5, <2>1, <4>1, <4>3
      <4> QED BY <4>2, <4>3
    <3> QED BY <2>2, <3>1, <3>2 DEF FailuresAreKnown, PoolInv
  <2> QED BY <2>2 DEF FailuresAreKnown
<1> QED BY <1>15, <1>16, <1>17, <1>18, <1>19, <1>20, <1>21, <1>22, <1>23, <1>24, <1>25, <1>26 DEF PoolInv

LEMMA TaskEndSteps ==
    ASSUME TypeInv, PoolInv, NEW t \in Threads, FinishTask(t) \/ (CatchInTask(t) /\ Busy(t))
    PROVE  (TypeInv /\ PoolInv)'
BY TaskPopStep DEF FinishTask, CatchInTask, SliceDone, At

-----------------------------------------------------------------------------
(* Loops end *)

LEMMA PlacesAreLive ==
    ASSUME TypeInv, PoolInv, NEW q \in Places
    PROVE  Held[q].loop \in Loops /\ status[Held[q].loop] \in {"running", "threw"}
<1>1. CASE q \in LoopPlaces BY <1>1, PosOfLoopFrame DEF PoolInv, LoopFrameOk
<1>2. CASE q \in TaskPlaces BY <1>2, PosOfTaskFrame DEF PoolInv, TaskFrameOk, TaskOk
<1> QED BY <1>1, <1>2, KindsOfPlaces

\* Behind an open latch no task of the loop is left.
LEMMA OpenLatch ==
    ASSUME TypeInv, PoolInv, NEW l \in Loops, latch[l] = 0
    PROVE  /\ Pending(l, slices[l], Active) = {}
           /\ \A x \in Queued \cup OnStack : x.loop # l
<1> DEFINE n == slices[l]
           P == Pending(l, n, Active)
<1>1. n \in Nat BY DEF TypeInv
<1>2. Cardinality(P) <= 0 BY DEF PoolInv, LatchInv
<1>3. IsFiniteSet(P) /\ Cardinality(P) \in Nat BY <1>1, PendingBounds
<1>4. P = {} BY <1>2, <1>3, FS_EmptySet
<1>5. ASSUME NEW x \in Queued \cup OnStack, x.loop = l PROVE FALSE
  <2>1. x \in Tasks /\ TaskOk(x, status[l], n)
    <3>1. CASE x \in Queued BY <1>5, <3>1, QueuedType DEF PoolInv, QueuesAreOk, QueuedOk
    <3>2. CASE x \in OnStack
      <4>1. PICK p \in TaskPlaces : x = TaskOf(Held[p]) BY <3>2 DEF OnStack
      <4>2. TaskFrameOk(Held[p], status[l], n, runs[l]) /\ Held[p].loop = l /\ Held[p] \in Frames
        BY <1>5, <4>1, PosOfTaskFrame DEF TaskOf, PoolInv
      <4> QED BY <4>1, <4>2 DEF TaskFrameOk, TaskOk, TaskOf, Tasks, Frames
    <3> QED BY <3>1, <3>2
  <2>2. x.slice \in 0 .. n - 2 BY <1>1, <2>1 DEF TaskOk, Tasks
  <2>3. x = [loop |-> l, slice |-> x.slice] BY <1>5, <2>1 DEF Tasks
  <2>4. x.slice \in P BY <2>2, <2>3 DEF Pending, Active
  <2> QED BY <1>4, <2>4
<1> QED BY <1>4, <1>5

LEMMA ReturnIsComplete ==
    ASSUME TypeInv, PoolInv, NEW t \in Threads, At(t, "loop", "try"), latch[Top(t).loop] = 0,
           ~ has_exception[Top(t).loop]
    PROVE  \A i \in 1 .. Iterations(Top(t).loop) :
              runs[Top(t).loop][i] = 1 /\ <<Top(t).loop, i>> \notin failed
<1> DEFINE f == Top(t)
           l == f.loop
           n == slices[l]
           p == TopPlace(t)
<1>1. Busy(t) /\ t \notin throwing /\ f.kind = "loop" /\ f.pc = "try" BY DEF At
<1>2. /\ p \in LoopPlaces /\ Held[p] = f /\ l \in Loops /\ n \in Nat \ {0}
      /\ LoopFrameOk(f, status[l], n, runs[l])
  BY <1>1, LoopOnTop DEF PoolInv
<1> HIDE DEF f, l, n, p
<1>3. Pending(l, n, Active) = {} /\ \A x \in Queued \cup OnStack : x.loop # l
  BY <1>2, OpenLatch DEF l, f, n
<1>4. AllRan(runs[l], l, n, n - 1)
  <2>1. f.slice = n - 1 /\ Part(f, n, runs[l]) /\ f.pos = First(l, n, n) BY <1>1, <1>2 DEF LoopFrameOk, l
  <2>2. (n - 1) + 1 = n BY <1>2
  <2> QED BY <2>1, <2>2 DEF Part, AllRan, l
<1>5. ASSUME NEW k \in 0 .. n - 1 PROVE AllRan(runs[l], l, n, k)
  <2>1. CASE k = n - 1 BY <1>4, <2>1
  <2>2. CASE k # n - 1
    <3>1. k \in (0 .. n - 2) \ Pending(l, n, Active) BY <1>2, <1>3, <2>2
    <3>2. status[l] = "running" BY <1>2 DEF LoopFrameOk
    <3> QED BY <1>2, <3>1, <3>2 DEF PoolInv, SlicesAreRun, n, l, f
  <2> QED BY <2>1, <2>2
<1>6. ASSUME NEW i \in 1 .. Iterations(l) PROVE runs[l][i] = 1
  <2>1. PICK k \in 0 .. n - 1 : i \in Block(l, n, k) BY <1>2, BlocksCover
  <2>2. First(l, n, k + 1) \in Int BY <1>2, BlocksPartition
  <2>3. i \in Int /\ i < First(l, n, k + 1) BY <2>1, <2>2 DEF Block
  <2> QED BY <1>5, <2>1, <2>3 DEF AllRan, Ran
<1>7. ASSUME NEW i, <<l, i>> \in failed PROVE FALSE
  <2>1. status[l] = "running" BY <1>2 DEF LoopFrameOk
  <2>2. PICK u \in throwing : Busy(u) /\ Top(u).loop = l
    BY <1>2, <1>7, <2>1 DEF PoolInv, FailuresAreKnown, l, f
  <2>3. u \in Threads /\ u # t BY <1>1 DEF TypeInv
  <2>4. TopPlace(u) \in Places /\ Held[TopPlace(u)] = Top(u) BY <2>2, <2>3, TopIsHeld
  <2>5. TopPlace(u) # p BY <2>3 DEF TopPlace, p
  <2>6. TopPlace(u) \notin LoopPlaces BY <1>2, <2>2, <2>4, <2>5 DEF PoolInv, LoopsAreUnique, l
  <2>7. TaskOf(Top(u)) \in OnStack BY <2>4, <2>6, KindsOfPlaces DEF OnStack
  <2> QED BY <1>3, <2>2, <2>7 DEF TaskOf
<1> QED BY <1>6, <1>7 DEF l, f

LEMMA LoopPopStep ==
    ASSUME TypeInv, PoolInv, NEW t \in Threads, Busy(t), Top(t).kind = "loop", Pop(t),
           NEW st \in {"done", "threw"}, status' = [status EXCEPT ![Top(t).loop] = st],
           UNCHANGED <<pool, turn, queue, slices, latch, has_exception, runs>>,
           st = "done" => /\ \A x \in Queued \cup OnStack : x.loop # Top(t).loop
                          /\ \A i \in 1 .. Iterations(Top(t).loop) :
                                runs[Top(t).loop][i] = 1 /\ <<Top(t).loop, i>> \notin failed
                          /\ failed' = failed,
           t \in throwing => st = "threw",
           throwing' \subseteq throwing \cup {t}, throwing \subseteq throwing' \cup {t},
           t \in throwing' => Len(stack[t]) > 1,
           \A y \in failed' : \/ y \in failed
                              \/ /\ Len(stack[t]) > 1 /\ t \in throwing'
                                 /\ y = <<stack[t][2].loop, stack[t][2].pos - 1>>
    PROVE  (TypeInv /\ PoolInv)'
<1> USE DEF pool
<1> DEFINE f == Top(t)
           l == f.loop
           p == TopPlace(t)
           h == stack[t][2]
<1>1. l \in Loops /\ LoopFrameOk(f, status[l], slices[l], runs[l]) BY LoopOnTop DEF PoolInv
<1>2. /\ stack' \in [Threads -> Seq(Frames)]
      /\ p \in LoopPlaces /\ Held[p] = f
      /\ Places' = Places \ {p} /\ \A q \in Places' : Held'[q] = Held[q]
      /\ LoopPlaces' = LoopPlaces \ {p} /\ TaskPlaces' = TaskPlaces /\ OnStack' = OnStack
      /\ Unsubmitted' \subseteq Unsubmitted
      /\ \A x \in Unsubmitted : x.loop # l => x \in Unsubmitted'
  BY PopLoopSets
<1>3. stack'[t] = Tail(stack[t]) /\ \A u \in Threads : u # t => stack'[u] = stack[u]
  BY DEF Pop, TypeInv
<1>4. \A u \in Threads : Busy(u)' => Busy(u)
  BY <1>3 DEF Busy, TypeInv
<1>5. ASSUME Len(stack[t]) > 1
      PROVE  /\ Busy(t)' /\ Top(t)' = h
             /\ h.loop \in Loops /\ status[h.loop] \in {"running", "threw"}
  <2>1. stack[t] \in Seq(Frames) BY DEF TypeInv
  <2> DEFINE q == <<t, Len(stack[t]) - 1>>
  <2>2. q \in Places BY <1>5, <2>1, PlaceIff
  <2>3. Held[q] = stack[t][Len(stack[t]) + 1 - (Len(stack[t]) - 1)] BY <2>2 DEF Held
  <2>4. Len(stack[t]) + 1 - (Len(stack[t]) - 1) = 2 BY <2>1
  <2>5. ASSUME NEW s \in Seq(Frames), Len(s) > 1 PROVE Tail(s) # <<>> /\ Head(Tail(s)) = s[2]
    <3>1. Tail(s) \in Seq(Frames) /\ Len(Tail(s)) > 0 /\ Tail(s)[1] = s[2] BY <2>5
    <3>2. \A r \in Seq(Frames) : Len(r) > 0 => r # <<>> /\ Head(r) = r[1] OBVIOUS
    <3> QED BY <3>1, <3>2
  <2>6. Busy(t)' /\ Top(t)' = h BY <1>3, <1>5, <2>1, <2>5 DEF Busy, Top
  <2> QED BY <2>2, <2>3, <2>4, <2>6, PlacesAreLive
<1>6. status' \in [Loops -> {"idle", "running", "done", "threw"}] BY DEF TypeInv
<1>7. status'[l] = st /\ \A m \in Loops : m # l => status'[m] = status[m] BY <1>1 DEF TypeInv
<1>8. \A u \in throwing' : u # t => u \in throwing /\ Busy(u)' = Busy(u) /\ Top(u)' = Top(u)
  BY <1>3 DEF Busy, Top, TypeInv
<1>9. status[l] = "running" BY <1>1 DEF LoopFrameOk
<1> HIDE DEF f, l, p, h
<1>10. LoopPlaces \subseteq Places /\ TaskPlaces \subseteq Places /\ LoopPlaces \cap TaskPlaces = {}
  BY KindsOfPlaces
<1>11. /\ \A q \in LoopPlaces \ {p} : Held'[q] = Held[q] /\ Held[q].loop \in Loops
       /\ \A q \in TaskPlaces : Held'[q] = Held[q] /\ Held[q].loop \in Loops
  BY <1>2, <1>10, KindsOfPlaces
<1>12. \A q \in LoopPlaces \ {p} : Held[q].loop # l BY <1>2 DEF PoolInv, LoopsAreUnique, l
<1>13. Queued' = Queued /\ Active' \subseteq Active /\ \A x \in Active : x.loop # l => x \in Active'
  BY <1>2 DEF Queued, Active
<1>14. \A m \in Loops : m # l => Pending(m, slices[m], Active') = Pending(m, slices[m], Active)
  BY <1>13 DEF Pending
<1>15. \A x \in Queued \cup OnStack : x.loop = l => status'[l] = "threw" BY <1>7 DEF l, f
<1>16. TypeInv'
  <2>1. throwing' \subseteq Threads BY DEF TypeInv
  <2> QED BY <1>2, <1>6, <2>1 DEF TypeInv
<1>17. LoopFramesAreOk' BY <1>2, <1>7, <1>11, <1>12 DEF LoopFramesAreOk, PoolInv
<1>18. TaskFramesAreOk'
  <2> SUFFICES ASSUME NEW q \in TaskPlaces
               PROVE  TaskFrameOk(Held[q], status'[Held[q].loop], slices[Held[q].loop], runs[Held[q].loop])
    BY <1>2, <1>11 DEF TaskFramesAreOk
  <2>1. TaskFrameOk(Held[q], status[Held[q].loop], slices[Held[q].loop], runs[Held[q].loop])
    BY DEF PoolInv, TaskFramesAreOk
  <2>2. CASE Held[q].loop = l
    <3>1. TaskOf(Held[q]) \in OnStack /\ TaskOf(Held[q]).loop = l BY <2>2 DEF OnStack, TaskOf
    <3>2. status'[l] = "threw" BY <1>15, <3>1
    <3> QED BY <2>1, <2>2, <3>2 DEF TaskFrameOk, TaskOk
  <2>3. CASE Held[q].loop # l BY <1>7, <1>11, <2>1, <2>3
  <2> QED BY <2>2, <2>3
<1>19. QueuesAreOk'
  <2> SUFFICES ASSUME NEW x \in Queued
               PROVE  QueuedOk(x, status'[x.loop], slices[x.loop], runs[x.loop])
    BY <1>13 DEF QueuesAreOk
  <2>1. QueuedOk(x, status[x.loop], slices[x.loop], runs[x.loop]) /\ x.loop \in Loops
    BY QueuedType DEF PoolInv, QueuesAreOk, Tasks
  <2>2. CASE x.loop = l BY <1>15, <2>1, <2>2 DEF QueuedOk, TaskOk
  <2>3. CASE x.loop # l BY <1>7, <2>1, <2>3
  <2> QED BY <2>2, <2>3
<1>20. LoopsAreUnique' BY <1>2, <1>11 DEF LoopsAreUnique, PoolInv
<1>21. SlicesAreUnique' BY <1>2, <1>11, <1>13 DEF SlicesAreUnique, QueuesAreInjective, PoolInv
<1>22. RunningIsCalled'
  <2> SUFFICES ASSUME NEW m \in Loops, status'[m] = "running"
               PROVE  \E q \in LoopPlaces' : Held'[q].loop = m
    BY DEF RunningIsCalled
  <2>1. m # l /\ status[m] = "running" BY <1>7
  <2>2. PICK q \in LoopPlaces : Held[q].loop = m BY <2>1 DEF PoolInv, RunningIsCalled
  <2>3. q # p BY <1>2, <2>1, <2>2 DEF l
  <2> QED BY <1>2, <1>11, <2>2, <2>3
<1>23. IdleIsUnrun' BY <1>7 DEF IdleIsUnrun, PoolInv
<1>24. CallsAreAhead'
  <2>1. \A m \in Loops : status[m] = "idle" => status'[m] = "idle" BY <1>7, <1>9
  <2>2. \A c \in Clients : \A i \in DOMAIN program[c] : program[c][i] \in Loops BY DEF TypeInv
  <2> QED BY <2>1, <2>2 DEF CallsAreAhead, PoolInv
<1>25. LatchInv'
  <2> SUFFICES ASSUME NEW m \in Loops PROVE Cardinality(Pending(m, slices[m], Active')) <= latch[m]
    BY DEF LatchInv
  <2>1. slices[m] \in Nat /\ latch[m] \in Int BY DEF TypeInv
  <2>2. Cardinality(Pending(m, slices[m], Active')) <= Cardinality(Pending(m, slices[m], Active))
    BY <1>13, <2>1, PendingShrinks
  <2>3. Cardinality(Pending(m, slices[m], Active)) <= latch[m] BY DEF PoolInv, LatchInv
  <2>4. /\ Cardinality(Pending(m, slices[m], Active')) \in Nat
        /\ Cardinality(Pending(m, slices[m], Active)) \in Nat
    BY <2>1, PendingBounds
  <2> QED BY <2>1, <2>2, <2>3, <2>4
<1>26. SlicesAreRun' BY <1>7, <1>14 DEF SlicesAreRun, PoolInv
<1>27. WorkersInv'
  <2>1. \A u \in throwing' : Busy(u)' BY <1>5, <1>8 DEF WorkersInv, PoolInv
  <2> QED BY <1>2, <1>4, <1>11, <2>1 DEF WorkersInv, PoolInv, Threads
<1>28. FailuresAreKnown'
  <2> SUFFICES ASSUME NEW m \in Loops, NEW i, <<m, i>> \in failed'
               PROVE  \/ has_exception[m] \/ status'[m] = "threw"
                      \/ \E u \in throwing' : Busy(u)' /\ (Top(u)').loop = m /\ (Top(u)').pos - 1 = i
    BY DEF FailuresAreKnown
  <2>1. CASE <<m, i>> \in failed
    <3>1. CASE has_exception[m] BY <3>1
    <3>2. CASE status[m] = "threw" BY <1>7, <1>9, <3>2
    <3>3. CASE \E u \in throwing : Busy(u) /\ Top(u).loop = m /\ Top(u).pos - 1 = i
      <4>1. PICK u \in throwing : Busy(u) /\ Top(u).loop = m /\ Top(u).pos - 1 = i BY <3>3
      <4>2. CASE u = t BY <1>7, <4>1, <4>2 DEF l, f
      <4>3. CASE u # t BY <1>8, <4>1, <4>3
      <4> QED BY <4>2, <4>3
    <3> QED BY <2>1, <3>1, <3>2, <3>3 DEF PoolInv, FailuresAreKnown
  <2>2. CASE Len(stack[t]) > 1 /\ t \in throwing' /\ <<m, i>> = <<h.loop, h.pos - 1>>
    BY <1>5, <2>2
  <2> QED BY <2>1, <2>2 DEF h
<1>29. DoneIsDone'
  <2> SUFFICES ASSUME NEW m \in Loops, status'[m] = "done", NEW i \in 1 .. Iterations(m)
               PROVE  runs[m][i] = 1 /\ <<m, i>> \notin failed'
    BY DEF DoneIsDone
  <2>1. CASE m = l BY <1>7, <2>1 DEF l, f
  <2>2. CASE m # l
    <3>1. runs[m][i] = 1 /\ <<m, i>> \notin failed /\ status[m] = "done"
      BY <1>7, <2>2 DEF PoolInv, DoneIsDone
    <3>2. Len(stack[t]) > 1 => h.loop # m BY <1>5, <3>1
    <3> QED BY <3>1, <3>2 DEF h
  <2> QED BY <2>1, <2>2
<1> QED BY <1>16, <1>17, <1>18, <1>19, <1>20, <1>21, <1>22, <1>23, <1>24, <1>25, <1>26, <1>27, <1>28, <1>29
        DEF PoolInv

LEMMA ReturnStep ==
    ASSUME TypeInv, PoolInv, NEW t \in Threads, Return(t) PROVE (TypeInv /\ PoolInv)'
<1> DEFINE l == Top(t).loop
           st == IF has_exception[l] THEN "threw" ELSE "done"
<1>1. /\ At(t, "loop", "try") /\ latch[l] = 0 /\ Pop(t) /\ status' = [status EXCEPT ![l] = st]
      /\ UNCHANGED <<pool, turn, queue, slices, latch, has_exception, runs>>
      /\ IF has_exception[l] /\ Len(stack[t]) > 1
         THEN /\ throwing' = throwing \cup {t}
              /\ failed' = failed \cup {<<stack[t][2].loop, stack[t][2].pos - 1>>}
         ELSE UNCHANGED <<throwing, failed>>
  BY DEF Return
<1>2. Busy(t) /\ t \notin throwing /\ Top(t).kind = "loop" BY <1>1 DEF At
<1>3. l \in Loops BY <1>2, LoopOnTop DEF PoolInv
<1>4. st \in {"done", "threw"} OBVIOUS
<1>5. st = "done" => /\ \A x \in Queued \cup OnStack : x.loop # l
                     /\ \A i \in 1 .. Iterations(l) : runs[l][i] = 1 /\ <<l, i>> \notin failed
                     /\ failed' = failed
  BY <1>1, <1>3, OpenLatch, ReturnIsComplete
<1> HIDE DEF st
<1> QED BY <1>1, <1>2, <1>4, <1>5, LoopPopStep

LEMMA UnwindLoopStep ==
    ASSUME TypeInv, PoolInv, NEW t \in Threads, UnwindLoop(t) PROVE (TypeInv /\ PoolInv)'
<1>1. /\ t \in throwing /\ Top(t).kind = "loop" /\ Pop(t)
      /\ status' = [status EXCEPT ![Top(t).loop] = "threw"]
      /\ IF Len(stack[t]) > 1
         THEN /\ failed' = failed \cup {<<stack[t][2].loop, stack[t][2].pos - 1>>}
              /\ UNCHANGED throwing
         ELSE throwing' = throwing \ {t} /\ UNCHANGED failed
      /\ UNCHANGED <<pool, turn, queue, slices, latch, has_exception, runs>>
  BY DEF UnwindLoop
<1>2. Busy(t) BY <1>1 DEF PoolInv, WorkersInv
<1>3. /\ throwing' \subseteq throwing \cup {t} /\ throwing \subseteq throwing' \cup {t}
      /\ t \in throwing' => Len(stack[t]) > 1
  BY <1>1
<1> QED BY <1>1, <1>2, <1>3, LoopPopStep

-----------------------------------------------------------------------------
(* Steps between the loops *)

\* No frame, no queue and no loop changes.
LEMMA QuietStep ==
    ASSUME TypeInv, PoolInv,
           UNCHANGED <<size, queue, stack, throwing, status, slices, latch, has_exception, runs, failed, program>>,
           turn' \in Nat, live' \subseteq live, \A w \in live \ live' : ~ Busy(w),
           resizing' \in NotResizing .. MaxWorkers,
           resizing' # NotResizing => \A c \in Clients : ~ Busy(c)
    PROVE  (TypeInv /\ PoolInv)'
<1>1. /\ Places' = Places /\ Held' = Held /\ LoopPlaces' = LoopPlaces /\ TaskPlaces' = TaskPlaces
      /\ OnStack' = OnStack /\ Unsubmitted' = Unsubmitted
  BY SameStacks
<1>2. Queued' = Queued /\ Active' = Active BY <1>1 DEF Queued, Active
<1>3. \A t : Busy(t)' = Busy(t) /\ Top(t)' = Top(t) BY DEF Busy, Top
<1>4. TypeInv' BY DEF TypeInv
<1>5. LoopFramesAreOk' /\ TaskFramesAreOk' /\ QueuesAreOk'
  BY <1>1, <1>2 DEF LoopFramesAreOk, TaskFramesAreOk, QueuesAreOk, PoolInv
<1>6. LoopsAreUnique' /\ SlicesAreUnique'
  BY <1>1, <1>2 DEF LoopsAreUnique, SlicesAreUnique, QueuesAreInjective, PoolInv
<1>7. RunningIsCalled' /\ IdleIsUnrun' /\ CallsAreAhead' /\ DoneIsDone'
  BY <1>1 DEF RunningIsCalled, IdleIsUnrun, CallsAreAhead, DoneIsDone, PoolInv
<1>8. LatchInv' /\ SlicesAreRun' BY <1>2 DEF LatchInv, SlicesAreRun, PoolInv
<1>9. WorkersInv' BY <1>1, <1>3 DEF WorkersInv, PoolInv
<1>10. FailuresAreKnown' BY <1>3 DEF FailuresAreKnown, PoolInv
<1> QED BY <1>4, <1>5, <1>6, <1>7, <1>8, <1>9, <1>10 DEF PoolInv

LEMMA OtherSteps ==
    ASSUME TypeInv, PoolInv,
           \/ \E w \in Workers : ExitWorker(w)
           \/ \E c \in Clients : ResetScheduler(c)
           \/ \E n \in 0 .. MaxWorkers : Resize(n)
           \/ Destroy
           \/ UNCHANGED tpVars
    PROVE  (TypeInv /\ PoolInv)'
<1>1. turn \in Nat /\ 0 \in Nat BY DEF TypeInv
<1>2. resizing \in NotResizing .. MaxWorkers BY DEF TypeInv
<1>3. resizing # NotResizing => \A c \in Clients : ~ Busy(c) BY DEF PoolInv, WorkersInv
<1>4. ASSUME NEW w \in Workers, ExitWorker(w) PROVE (TypeInv /\ PoolInv)'
  BY <1>1, <1>2, <1>3, <1>4, QuietStep DEF ExitWorker
<1>5. ASSUME NEW c \in Clients, ResetScheduler(c) PROVE (TypeInv /\ PoolInv)'
  BY <1>1, <1>2, <1>3, <1>5, QuietStep DEF ResetScheduler, pool
<1>6. ASSUME NEW n \in 0 .. MaxWorkers, Resize(n) PROVE (TypeInv /\ PoolInv)'
  <2>1. /\ UNCHANGED <<size, queue, live, stack, throwing, status, slices, latch,
                       has_exception, runs, failed, program>>
        /\ turn' = 0 /\ resizing' \in {resizing, n} /\ \A c \in Clients : ~ Busy(c)
    BY <1>6 DEF Resize, Quiescent
  <2>2. n \in NotResizing .. MaxWorkers BY DEF NotResizing
  <2> QED BY <1>1, <1>2, <2>1, <2>2, QuietStep
<1>7. ASSUME Destroy PROVE (TypeInv /\ PoolInv)'
  BY <1>1, <1>2, <1>3, <1>7, QuietStep DEF Destroy
<1>8. ASSUME UNCHANGED tpVars PROVE (TypeInv /\ PoolInv)'
  BY <1>1, <1>2, <1>3, <1>8, QuietStep DEF tpVars
<1> QED BY <1>4, <1>5, <1>6, <1>7, <1>8

\* When all workers are gone nothing is left of the loops.
LEMMA ReplaceStep ==
    ASSUME TypeInv, PoolInv, Replace PROVE (TypeInv /\ PoolInv)'
<1>1. /\ resizing # NotResizing /\ live = {} /\ size' = resizing /\ live' = 1 .. resizing
      /\ resizing' = NotResizing /\ queue' = [w \in Workers |-> <<>>]
      /\ UNCHANGED <<turn, stack, throwing, status, slices, latch, has_exception, runs, failed, program>>
  BY DEF Replace
<1>2. \A t \in Threads : stack[t] = <<>> BY <1>1 DEF PoolInv, WorkersInv, Threads, Busy
<1>3. throwing = {} BY <1>2 DEF PoolInv, WorkersInv, TypeInv, Busy
<1>4. LoopPlaces = {} /\ TaskPlaces = {}
  <2>1. \A t \in Threads : 1 .. Len(stack[t]) = {} BY <1>2
  <2>2. Places = {} BY <2>1 DEF Places
  <2> QED BY <2>2 DEF LoopPlaces, TaskPlaces
<1>5. LoopPlaces' = {} /\ TaskPlaces' = {} /\ OnStack' = {} /\ Unsubmitted' = {}
  <2>1. LoopPlaces' = LoopPlaces /\ TaskPlaces' = TaskPlaces BY <1>1, SameStacks
  <2>2. LoopPlaces' = {} /\ TaskPlaces' = {} BY <1>4, <2>1
  <2> QED BY <2>2 DEF OnStack, Unsubmitted
<1>6. Queued' = {} /\ QueuesAreInjective' BY <1>1 DEF Queued, QueuesAreInjective
<1>7. \A l \in Loops : status[l] # "running" BY <1>4 DEF PoolInv, RunningIsCalled
<1>8. TypeInv'
  <2>1. resizing \in 0 .. MaxWorkers /\ NotResizing \in NotResizing .. MaxWorkers
    BY <1>1, PoolAssumption DEF TypeInv, NotResizing
  <2>2. live' \subseteq Workers BY <1>1, <2>1, PoolAssumption DEF Workers
  <2>3. queue' \in [Workers -> Seq(Tasks)] BY <1>1
  <2> QED BY <1>1, <2>1, <2>2, <2>3 DEF TypeInv
<1>9. LoopFramesAreOk' /\ TaskFramesAreOk' /\ QueuesAreOk'
  BY <1>5, <1>6 DEF LoopFramesAreOk, TaskFramesAreOk, QueuesAreOk
<1>10. LoopsAreUnique' /\ SlicesAreUnique' BY <1>5, <1>6 DEF LoopsAreUnique, SlicesAreUnique
<1>11. RunningIsCalled' /\ IdleIsUnrun' /\ CallsAreAhead' /\ DoneIsDone'
  BY <1>1, <1>7 DEF RunningIsCalled, IdleIsUnrun, CallsAreAhead, DoneIsDone, PoolInv
<1>12. LatchInv'
  <2> SUFFICES ASSUME NEW l \in Loops PROVE Cardinality(Pending(l, slices[l], Active')) <= latch[l]
    BY <1>1 DEF LatchInv
  <2>1. slices[l] \in Nat /\ latch[l] \in Int BY DEF TypeInv
  <2>2. Active' \subseteq Active BY <1>5, <1>6 DEF Active
  <2>3. Cardinality(Pending(l, slices[l], Active')) <= Cardinality(Pending(l, slices[l], Active))
    BY <2>1, <2>2, PendingShrinks
  <2>4. Cardinality(Pending(l, slices[l], Active)) <= latch[l] BY DEF PoolInv, LatchInv
  <2>5. /\ Cardinality(Pending(l, slices[l], Active')) \in Nat
        /\ Cardinality(Pending(l, slices[l], Active)) \in Nat
    BY <2>1, PendingBounds
  <2> QED BY <2>1, <2>3, <2>4, <2>5
<1>13. SlicesAreRun' BY <1>1, <1>7 DEF SlicesAreRun
<1>14. WorkersInv' BY <1>1, <1>2, <1>3, <1>5 DEF WorkersInv, Busy, Threads
<1>15. FailuresAreKnown' BY <1>1, <1>3 DEF FailuresAreKnown, PoolInv
<1> QED BY <1>8, <1>9, <1>10, <1>11, <1>12, <1>13, <1>14, <1>15 DEF PoolInv

LEMMA InitPoolInv == TpInit => TypeInv /\ PoolInv
<1> SUFFICES ASSUME TpInit PROVE TypeInv /\ PoolInv OBVIOUS
<1>1. \A t \in Threads : stack[t] = <<>> BY DEF TpInit
<1>2. LoopPlaces = {} /\ TaskPlaces = {} /\ Queued = {} /\ QueuesAreInjective
  <2>1. \A t \in Threads : 1 .. Len(stack[t]) = {} BY <1>1
  <2>2. Places = {} BY <2>1 DEF Places
  <2> QED BY <2>2 DEF LoopPlaces, TaskPlaces, Queued, QueuesAreInjective, TpInit
<1>3. OnStack = {} /\ Unsubmitted = {} BY <1>2 DEF OnStack, Unsubmitted
<1>4. TypeInv
  <2>1. \A l \in Loops : runs[l] = [i \in 1 .. Iterations(l) |-> 0] BY DEF TpInit
  <2>2. \A l \in Loops : runs[l] \in [1 .. Iterations(l) -> {0, 1}] BY <2>1
  <2>3. runs \in [Loops -> UNION {[1 .. Iterations(l) -> {0, 1}] : l \in Loops}]
    <3>1. runs = [l \in Loops |-> runs[l]] BY DEF TpInit
    <3> QED BY <2>2, <3>1
  <2>4. live \subseteq Workers BY PoolAssumption DEF TpInit, Workers
  <2>5. resizing \in NotResizing .. MaxWorkers BY PoolAssumption DEF TpInit, NotResizing
  <2>6. queue \in [Workers -> Seq(Tasks)] /\ stack \in [Threads -> Seq(Frames)] BY DEF TpInit
  <2>7. \A l \in Loops : slices[l] <= Iterations(l) BY IterationsType DEF TpInit
  <2>8. program \in [Clients -> Seq(Loops)] BY PoolAssumption DEF TpInit
  <2> QED BY <2>2, <2>3, <2>4, <2>5, <2>6, <2>7, <2>8 DEF TpInit, TypeInv
<1>5. LoopFramesAreOk /\ TaskFramesAreOk /\ QueuesAreOk
  BY <1>2 DEF LoopFramesAreOk, TaskFramesAreOk, QueuesAreOk
<1>6. LoopsAreUnique /\ SlicesAreUnique BY <1>2, <1>3 DEF LoopsAreUnique, SlicesAreUnique
<1>7. RunningIsCalled /\ IdleIsUnrun /\ DoneIsDone /\ SlicesAreRun
  BY DEF RunningIsCalled, IdleIsUnrun, DoneIsDone, SlicesAreRun, TpInit
<1>8. CallsAreAhead
  <2>1. \A l \in Loops : status[l] = "idle" BY DEF TpInit
  <2>2. program = Program BY DEF TpInit
  <2>3. \A c \in Clients : \A i \in DOMAIN program[c] : program[c][i] \in Loops BY <2>2, PoolAssumption
  <2> QED BY <2>1, <2>2, <2>3, CallsAssumption DEF CallsAreAhead
<1>9. LatchInv
  <2>1. Active = {} BY <1>2, <1>3 DEF Active
  <2>2. \A l : Pending(l, slices[l], Active) = {} BY <2>1 DEF Pending
  <2>3. \A l \in Loops : latch[l] = 0 BY DEF TpInit
  <2> QED BY <2>2, <2>3, FS_EmptySet DEF LatchInv
<1>10. WorkersInv /\ FailuresAreKnown BY <1>1, <1>2 DEF WorkersInv, FailuresAreKnown, TpInit, Busy, Threads
<1> QED BY <1>4, <1>5, <1>6, <1>7, <1>8, <1>9, <1>10 DEF PoolInv

-----------------------------------------------------------------------------
(* Loops are called *)

LEMMA TaskCountBounds ==
    ASSUME TypeInv, NEW l \in Loops, Iterations(l) # 0
    PROVE  TaskCount(l) \in 1 .. Iterations(l) /\ (TaskCount(l) > 1 => size > 0)
<1> DEFINE b == BlockSize[l]
           a == Iterations(l) + b - 1
           s == size + (IF size = 0 THEN 1 ELSE 0)
<1>1. Iterations(l) \in Nat \ {0} BY IterationsType
<1>2. b \in Nat \ {0} BY PoolAssumption
<1> HIDE DEF b
<1>3. a \in Nat /\ a >= b BY <1>1, <1>2
<1> HIDE DEF a
<1>4. a \div b \in Nat /\ a % b \in 0 .. b - 1 /\ a = b * (a \div b) + (a % b)
  BY <1>2, <1>3, Division
<1>5. a \div b # 0
  <2>1. a \div b = 0 => b * (a \div b) = 0 BY <1>2
  <2> QED BY <1>2, <1>3, <1>4, <2>1
<1>6. BlockCount(l) \in Nat \ {0} BY <1>4, <1>5 DEF BlockCount, a, b
<1>7. s \in Nat \ {0} /\ (s > 1 => size > 0) BY PoolAssumption DEF TypeInv
<1>8. TaskCount(l) = Min2(s, Min2(Iterations(l), BlockCount(l))) BY DEF TaskCount
<1> HIDE DEF s
<1> QED BY <1>1, <1>6, <1>7, <1>8 DEF Min2

\* What a call of loop l leaves of the rest: the frames below keep their loops and
\* slices, and the iteration that calls l has been counted, or its program is one
\* shorter.
FramesStay ==
    /\ stack' \in [Threads -> Seq(Frames)]
    /\ \A q \in Places : /\ Held'[q].kind = Held[q].kind /\ Held'[q].loop = Held[q].loop
                         /\ Held'[q].slice = Held[q].slice /\ Held'[q].pc = Held[q].pc
    /\ \A q \in LoopPlaces : LET m == Held[q].loop
                             IN LoopFrameOk(Held'[q], status[m], slices[m], runs'[m])
    /\ \A q \in TaskPlaces : LET m == Held[q].loop
                             IN TaskFrameOk(Held'[q], status[m], slices[m], runs'[m])

TasksStay ==
    /\ \A x \in Queued : QueuedOk(x, status[x.loop], slices[x.loop], runs'[x.loop])
    /\ \A m \in Loops : status[m] = "running" =>
          \A k \in (0 .. slices[m] - 2) \ Pending(m, slices[m], Active) :
             has_exception[m] \/ AllRan(runs'[m], m, slices[m], k)

RunsStay(l) ==
    /\ runs' \in [Loops -> UNION {[1 .. Iterations(m) -> {0, 1}] : m \in Loops}]
    /\ \A m \in Loops : runs'[m] \in [1 .. Iterations(m) -> {0, 1}]
    /\ \A m \in Loops : status[m] \in {"idle", "done"} => runs'[m] = runs[m]
    /\ \A m \in Loops : \A i \in 1 .. Iterations(m) :
          runs'[m][i] = 0 => runs[m][i] = 0 /\ Body[m][i] # l

ProgramsStay(l) ==
    /\ program' \in [Clients -> Seq(Loops)]
    /\ \A c \in Clients : \A i \in DOMAIN program'[c] :
          /\ status[program'[c][i]] = "idle" /\ program'[c][i] # l
          /\ \A d \in Clients : \A j \in DOMAIN program'[d] :
                program'[c][i] = program'[d][j] => c = d /\ i = j
          /\ \A m \in Loops : \A j \in DOMAIN Body[m] : program'[c][i] # Body[m][j]

ThreadsStay ==
    /\ UNCHANGED <<size, turn, queue, live, throwing, has_exception, failed, resizing>>
    /\ \A u \in Threads : Busy(u)' => Busy(u) \/ (u \in Clients /\ resizing = NotResizing)
    /\ \A u \in throwing : Busy(u)' = Busy(u) /\ Top(u)' = Top(u)

Calling(l) == /\ status[l] = "idle"
              /\ FramesStay /\ TasksStay /\ RunsStay(l) /\ ProgramsStay(l) /\ ThreadsStay

\* No frame and no queue knows of a loop that is still to be called.
LEMMA IdleIsAbsent ==
    ASSUME TypeInv, PoolInv, NEW l \in Loops, status[l] = "idle"
    PROVE  /\ \A q \in Places : Held[q].loop \in Loops \ {l}
           /\ \A x \in Queued \cup OnStack : x.loop \in Loops \ {l}
<1>1. \A q \in Places : Held[q].loop \in Loops \ {l} BY PlacesAreLive
<1>2. \A x \in Queued : x.loop \in Loops \ {l}
  <2>1. \A x \in Queued : x.loop \in Loops BY QueuedType DEF Tasks
  <2> QED BY <2>1 DEF PoolInv, QueuesAreOk, QueuedOk, TaskOk
<1>3. \A x \in OnStack : x.loop \in Loops \ {l} BY <1>1 DEF OnStack, TaskPlaces, TaskOf
<1> QED BY <1>1, <1>2, <1>3

LEMMA EmptyCallStep ==
    ASSUME TypeInv, PoolInv, NEW l \in Loops, Calling(l), Iterations(l) = 0, Places' = Places,
           status' = [status EXCEPT ![l] = "done"], UNCHANGED <<slices, latch>>
    PROVE  (TypeInv /\ PoolInv)'
<1>1. /\ status[l] = "idle"
      /\ FramesStay /\ TasksStay /\ RunsStay(l) /\ ProgramsStay(l) /\ ThreadsStay
  BY DEF Calling
<1>2. status'[l] = "done" /\ \A m \in Loops \ {l} : status'[m] = status[m] BY DEF TypeInv
<1>3. /\ \A q \in Places : Held[q].loop \in Loops \ {l}
      /\ \A x \in Queued : x.loop \in Loops \ {l}
  BY <1>1, IdleIsAbsent
<1>4. LoopPlaces' = LoopPlaces /\ TaskPlaces' = TaskPlaces
  BY <1>1 DEF FramesStay, LoopPlaces, TaskPlaces
<1>5. LoopPlaces \subseteq Places /\ TaskPlaces \subseteq Places BY DEF LoopPlaces, TaskPlaces
<1>6. \A q \in Places : Held'[q].loop = Held[q].loop /\ TaskOf(Held'[q]) = TaskOf(Held[q])
  BY <1>1 DEF FramesStay, TaskOf
<1>7. queue' = queue BY <1>1 DEF ThreadsStay
<1>8. Queued' = Queued /\ OnStack' = OnStack BY <1>4, <1>5, <1>6, <1>7 DEF Queued, OnStack
<1>9. Unsubmitted' = Unsubmitted
  <2>1. \A x \in Tasks : \A q \in LoopPlaces :
           (/\ Held'[q].loop = x.loop /\ Held'[q].pc = "submit" /\ x.slice \in Held'[q].slice .. slices[x.loop] - 2)
           <=> (/\ Held[q].loop = x.loop /\ Held[q].pc = "submit" /\ x.slice \in Held[q].slice .. slices[x.loop] - 2)
    BY <1>1, <1>5 DEF FramesStay
  <2> QED BY <1>4, <2>1 DEF Unsubmitted
<1>10. Active' = Active BY <1>8, <1>9 DEF Active
<1>11. TypeInv'
  <2>1. status' \in [Loops -> {"idle", "running", "done", "threw"}] BY DEF TypeInv
  <2> QED BY <1>1, <2>1 DEF FramesStay, RunsStay, ProgramsStay, ThreadsStay, TypeInv
<1>12. LoopFramesAreOk' BY <1>1, <1>2, <1>3, <1>4, <1>5, <1>6 DEF FramesStay, LoopFramesAreOk
<1>13. TaskFramesAreOk' BY <1>1, <1>2, <1>3, <1>4, <1>5, <1>6 DEF FramesStay, TaskFramesAreOk
<1>14. QueuesAreOk' BY <1>1, <1>2, <1>3, <1>8 DEF TasksStay, QueuesAreOk
<1>15. LoopsAreUnique' BY <1>4, <1>5, <1>6 DEF LoopsAreUnique, PoolInv
<1>16. SlicesAreUnique'
  BY <1>4, <1>5, <1>6, <1>7, <1>8, <1>9 DEF SlicesAreUnique, QueuesAreInjective, PoolInv
<1>17. RunningIsCalled' BY <1>2, <1>4, <1>5, <1>6 DEF RunningIsCalled, PoolInv
<1>18. IdleIsUnrun'
  <2>1. \A m \in Loops : status[m] = "idle" => runs'[m] = runs[m] BY <1>1 DEF RunsStay
  <2> QED BY <1>2, <2>1 DEF IdleIsUnrun, PoolInv
<1>19. CallsAreAhead'
  <2>1. \A c \in Clients : \A i \in DOMAIN program'[c] :
           program'[c][i] \in Loops /\ status'[program'[c][i]] = "idle"
    BY <1>1, <1>2 DEF ProgramsStay
  <2>2. \A m \in Loops : \A i \in 1 .. Iterations(m) :
           Body[m][i] \in Loops /\ runs'[m][i] = 0 => status'[Body[m][i]] = "idle"
    <3>1. \A m \in Loops : \A i \in 1 .. Iterations(m) : runs'[m][i] = 0 => runs[m][i] = 0 /\ Body[m][i] # l
      BY <1>1 DEF RunsStay
    <3> QED BY <1>2, <3>1 DEF CallsAreAhead, PoolInv
  <2> QED BY <1>1, <2>1, <2>2 DEF ProgramsStay, CallsAreAhead
<1>20. LatchInv' BY <1>10 DEF LatchInv, PoolInv
<1>21. SlicesAreRun' BY <1>1, <1>2, <1>10 DEF TasksStay, ThreadsStay, SlicesAreRun
<1>22. WorkersInv'
  <2>1. \A w \in Workers : w \in Threads /\ w \notin Clients BY PoolAssumption DEF Threads, Workers
  <2>2. \A c \in Clients : c \in Threads BY DEF Threads
  <2> QED BY <1>1, <1>4, <1>5, <1>6, <2>1, <2>2 DEF ThreadsStay, WorkersInv, PoolInv
<1>23. FailuresAreKnown' BY <1>1, <1>2 DEF ThreadsStay, FailuresAreKnown, PoolInv
<1>24. DoneIsDone'
  <2>1. \A m \in Loops : status[m] = "done" => runs'[m] = runs[m] BY <1>1 DEF RunsStay
  <2>2. failed' = failed BY <1>1 DEF ThreadsStay
  <2> QED BY <1>2, <2>1, <2>2 DEF DoneIsDone, PoolInv
<1> QED BY <1>11, <1>12, <1>13, <1>14, <1>15, <1>16, <1>17, <1>18, <1>19, <1>20, <1>21, <1>22, <1>23, <1>24
        DEF PoolInv

LEMMA CallStep ==
    ASSUME TypeInv, PoolInv, NEW l \in Loops, Calling(l), Iterations(l) # 0,
           NEW p, p \notin Places, Places' = Places \cup {p}, Held'[p] = LoopFrame(l),
           status' = [status EXCEPT ![l] = "running"],
           slices' = [slices EXCEPT ![l] = TaskCount(l)],
           latch' = [latch EXCEPT ![l] = TaskCount(l) - 1]
    PROVE  (TypeInv /\ PoolInv)'
<1> DEFINE n == TaskCount(l)
<1>1. /\ status[l] = "idle"
      /\ FramesStay /\ TasksStay /\ RunsStay(l) /\ ProgramsStay(l) /\ ThreadsStay
  BY DEF Calling
<1>2. n \in 1 .. Iterations(l) /\ (n > 1 => size > 0) /\ n \in Nat \ {0}
  BY TaskCountBounds, IterationsType
<1> HIDE DEF n
<1>3. status'[l] = "running" /\ \A m \in Loops \ {l} : status'[m] = status[m] BY DEF TypeInv
<1>4. slices'[l] = n /\ \A m \in Loops \ {l} : slices'[m] = slices[m] BY DEF TypeInv, n
<1>5. latch'[l] = n - 1 /\ \A m \in Loops \ {l} : latch'[m] = latch[m] BY DEF TypeInv, n
<1>6. /\ \A q \in Places : Held[q].loop \in Loops \ {l}
      /\ \A x \in Queued \cup OnStack : x.loop \in Loops \ {l}
  BY <1>1, IdleIsAbsent
<1>7. TypeInv'
  <2>1. status' \in [Loops -> {"idle", "running", "done", "threw"}] BY DEF TypeInv
  <2>2. slices' \in [Loops -> Nat] BY <1>2 DEF TypeInv, n
  <2>3. n - 1 \in Int BY <1>2
  <2>4. latch' \in [Loops -> Int] BY <2>3 DEF TypeInv, n
  <2>5. \A m \in Loops : slices'[m] <= Iterations(m) BY <1>2, <1>4 DEF TypeInv
  <2> QED BY <1>1, <2>1, <2>2, <2>4, <2>5 DEF FramesStay, RunsStay, ProgramsStay, ThreadsStay, TypeInv
<1>8. LoopPlaces \subseteq Places /\ TaskPlaces \subseteq Places BY DEF LoopPlaces, TaskPlaces
<1>9. /\ LoopPlaces' = LoopPlaces \cup {p} /\ TaskPlaces' = TaskPlaces /\ OnStack' = OnStack
      /\ Unsubmitted' = Unsubmitted \cup {[loop |-> l, slice |-> k] : k \in 0 .. n - 2}
  <2>1. \A q \in LoopPlaces : Held[q].loop # l BY <1>6, <1>8
  <2>2. slices' = [slices EXCEPT ![l] = n] BY DEF n
  <2>3. \A q \in Places : /\ Held'[q].kind = Held[q].kind /\ Held'[q].loop = Held[q].loop
                          /\ Held'[q].slice = Held[q].slice /\ Held'[q].pc = Held[q].pc
    BY <1>1 DEF FramesStay
  <2> QED BY <1>2, <2>1, <2>2, <2>3, NewLoopSets
<1>10. queue' = queue BY <1>1 DEF ThreadsStay
<1>11. Queued' = Queued /\ Active' = Active \cup {[loop |-> l, slice |-> k] : k \in 0 .. n - 2}
  BY <1>9, <1>10 DEF Queued, Active
<1>12. \A q \in Places : Held'[q].loop = Held[q].loop /\ TaskOf(Held'[q]) = TaskOf(Held[q])
  BY <1>1 DEF FramesStay, TaskOf
<1>13. Held'[p].loop = l BY DEF LoopFrame
<1>14. ASSUME NEW m \in Loops \ {l} PROVE Pending(m, slices'[m], Active') = Pending(m, slices[m], Active)
  <2>1. \A k, j : [loop |-> m, slice |-> k] # [loop |-> l, slice |-> j] OBVIOUS
  <2>2. \A k : [loop |-> m, slice |-> k] \in Active' <=> [loop |-> m, slice |-> k] \in Active
    BY <1>11, <2>1
  <2>3. slices'[m] = slices[m] BY <1>4
  <2> QED BY <2>2, <2>3 DEF Pending
<1>15. LoopFramesAreOk'
  <2>1. ASSUME NEW k \in 0 .. n - 1 PROVE NoneRan(runs'[l], l, n, k)
    <3>1. First(l, n, k) \in Int /\ First(l, n, k + 1) \in Int /\ Block(l, n, k) \subseteq 1 .. Iterations(l)
      BY <1>2, BlocksPartition
    <3>2. ASSUME NEW i \in Block(l, n, k) PROVE runs'[l][i] = IF i < First(l, n, k) THEN 1 ELSE 0
      <4>1. runs'[l][i] = 0 BY <1>1, <3>1 DEF RunsStay, IdleIsUnrun, PoolInv
      <4>2. i \in Int /\ First(l, n, k) <= i BY <3>1 DEF Block
      <4> QED BY <3>1, <4>1, <4>2
    <3> QED BY <3>2 DEF NoneRan, Ran
  <2>2. LoopFrameOk(LoopFrame(l), "running", n, runs'[l])
    BY <1>2, <2>1 DEF LoopFrameOk, LoopFrame
  <2>3. \A q \in LoopPlaces : LoopFrameOk(Held'[q], status'[Held'[q].loop], slices'[Held'[q].loop], runs'[Held'[q].loop])
    BY <1>1, <1>3, <1>4, <1>6, <1>8, <1>12 DEF FramesStay
  <2>4. LoopFrameOk(Held'[p], status'[Held'[p].loop], slices'[Held'[p].loop], runs'[Held'[p].loop])
    BY <1>3, <1>4, <1>13, <2>2
  <2> QED BY <1>9, <2>3, <2>4 DEF LoopFramesAreOk
<1>16. TaskFramesAreOk' BY <1>1, <1>3, <1>4, <1>6, <1>8, <1>9, <1>12 DEF FramesStay, TaskFramesAreOk
<1>17. QueuesAreOk' BY <1>1, <1>3, <1>4, <1>6, <1>11 DEF TasksStay, QueuesAreOk
<1>18. LoopsAreUnique' BY <1>6, <1>8, <1>9, <1>12, <1>13 DEF LoopsAreUnique, PoolInv
<1>19. SlicesAreUnique'
  <2>1. Unsubmitted' \cap (Queued \cup OnStack) = {} BY <1>6, <1>9 DEF SlicesAreUnique, PoolInv
  <2>2. \A q, r \in TaskPlaces : TaskOf(Held'[q]) = TaskOf(Held'[r]) => q = r
    BY <1>8, <1>12 DEF SlicesAreUnique, PoolInv
  <2> QED BY <1>9, <1>10, <1>11, <2>1, <2>2 DEF SlicesAreUnique, QueuesAreInjective, PoolInv
<1>20. RunningIsCalled' BY <1>3, <1>8, <1>9, <1>12, <1>13 DEF RunningIsCalled, PoolInv
<1>21. IdleIsUnrun'
  <2>1. \A m \in Loops : status[m] = "idle" => runs'[m] = runs[m] BY <1>1 DEF RunsStay
  <2> QED BY <1>3, <2>1 DEF IdleIsUnrun, PoolInv
<1>22. CallsAreAhead'
  <2>1. \A c \in Clients : \A i \in DOMAIN program'[c] :
           program'[c][i] \in Loops /\ status'[program'[c][i]] = "idle"
    BY <1>1, <1>3 DEF ProgramsStay
  <2>2. \A m \in Loops : \A i \in 1 .. Iterations(m) :
           Body[m][i] \in Loops /\ runs'[m][i] = 0 => status'[Body[m][i]] = "idle"
    <3>1. \A m \in Loops : \A i \in 1 .. Iterations(m) : runs'[m][i] = 0 => runs[m][i] = 0 /\ Body[m][i] # l
      BY <1>1 DEF RunsStay
    <3> QED BY <1>3, <3>1 DEF CallsAreAhead, PoolInv
  <2> QED BY <1>1, <2>1, <2>2 DEF ProgramsStay, CallsAreAhead
<1>23. LatchInv'
  <2>1. Cardinality(Pending(l, n, Active')) <= n - 1
    <3>1. n - 2 \in Int /\ 0 \in Int BY <1>2
    <3>2. IsFiniteSet(0 .. n - 2) /\ Cardinality(0 .. n - 2) = IF 0 > n - 2 THEN 0 ELSE (n - 2) - 0 + 1
      BY <3>1, FS_Interval
    <3>3. Pending(l, n, Active') \subseteq 0 .. n - 2 BY DEF Pending
    <3>4. Cardinality(Pending(l, n, Active')) <= Cardinality(0 .. n - 2) BY <3>2, <3>3, FS_Subset
    <3>5. Cardinality(0 .. n - 2) = n - 1 BY <1>2, <3>2
    <3> QED BY <3>4, <3>5
  <2>2. \A m \in Loops \ {l} : Cardinality(Pending(m, slices'[m], Active')) <= latch'[m]
    BY <1>5, <1>14 DEF LatchInv, PoolInv
  <2>3. Cardinality(Pending(l, slices'[l], Active')) <= latch'[l] BY <1>4, <1>5, <2>1
  <2> QED BY <2>2, <2>3 DEF LatchInv
<1>24. SlicesAreRun'
  <2>1. (0 .. n - 2) \ Pending(l, n, Active') = {} BY <1>11 DEF Pending
  <2>2. ASSUME NEW m \in Loops \ {l}, status'[m] = "running",
               NEW k \in (0 .. slices'[m] - 2) \ Pending(m, slices'[m], Active')
        PROVE  has_exception'[m] \/ AllRan(runs'[m], m, slices'[m], k)
    <3>1. status[m] = "running" /\ k \in (0 .. slices[m] - 2) \ Pending(m, slices[m], Active)
      BY <1>3, <1>4, <1>14, <2>2
    <3> QED BY <1>1, <1>4, <3>1 DEF TasksStay, ThreadsStay
  <2> QED BY <1>4, <2>1, <2>2 DEF SlicesAreRun
<1>25. WorkersInv'
  <2>1. \A w \in Workers : w \in Threads /\ w \notin Clients BY PoolAssumption DEF Threads, Workers
  <2>2. \A c \in Clients : c \in Threads BY DEF Threads
  <2>3. \A q \in LoopPlaces' : slices'[Held'[q].loop] > 1 => size > 0
    BY <1>2, <1>4, <1>6, <1>8, <1>9, <1>12, <1>13 DEF WorkersInv, PoolInv
  <2> QED BY <1>1, <2>1, <2>2, <2>3 DEF ThreadsStay, WorkersInv, PoolInv
<1>26. FailuresAreKnown' BY <1>1, <1>3 DEF ThreadsStay, FailuresAreKnown, PoolInv
<1>27. DoneIsDone'
  <2>1. \A m \in Loops : status[m] = "done" => runs'[m] = runs[m] BY <1>1 DEF RunsStay
  <2>2. failed' = failed BY <1>1 DEF ThreadsStay
  <2> QED BY <1>3, <2>1, <2>2 DEF DoneIsDone, PoolInv
<1> QED BY <1>7, <1>15, <1>16, <1>17, <1>18, <1>19, <1>20, <1>21, <1>22, <1>23, <1>24, <1>25, <1>26, <1>27
        DEF PoolInv

\* The frame of a loop is put on a stack whose innermost frame changes at most.
LEMMA EnterPlaces ==
    ASSUME TypeInv, NEW t \in Threads, NEW l \in Loops, NEW below \in Seq(Frames),
           Len(below) = Len(stack[t]), \A i \in 2 .. Len(below) : below[i] = stack[t][i],
           stack' = [stack EXCEPT ![t] = <<LoopFrame(l)>> \o below]
    PROVE  LET p == <<t, Len(stack[t]) + 1>>
           IN /\ stack' \in [Threads -> Seq(Frames)]
              /\ p \notin Places /\ Places' = Places \cup {p} /\ Held'[p] = LoopFrame(l)
              /\ \A q \in Places : Held'[q] = IF q = TopPlace(t) THEN below[1] ELSE Held[q]
<1> DEFINE f == LoopFrame(l)
           s == <<f>> \o below
           n == Len(stack[t])
           p == <<t, n + 1>>
<1>1. stack[t] \in Seq(Frames) /\ n \in Nat BY DEF TypeInv
<1>2. f \in Frames BY DEF LoopFrame, Frames, Pcs
<1> HIDE DEF f
<1>3. s \in Seq(Frames) /\ Len(s) = n + 1 /\ s[1] = f /\ \A i \in 1 .. n : s[i + 1] = below[i]
  BY <1>1, <1>2
<1>4. stack' = [stack EXCEPT ![t] = s] BY DEF f
<1> HIDE DEF s
<1>5. /\ stack' \in [Threads -> Seq(Frames)]
      /\ \A u, d : <<u, d>> \in Places' <=>
            IF u = t THEN d \in 1 .. Len(s) ELSE <<u, d>> \in Places
      /\ \A q \in Places' : q = <<q[1], q[2]>>
      /\ \A q \in Places' : Held'[q] = IF q[1] = t THEN s[Len(s) + 1 - q[2]] ELSE Held[q]
  BY <1>3, <1>4, NewStack, ZenonT(40)
<1>6. \A q \in Places : q = <<q[1], q[2]>> BY DEF Places
<1>7. p \notin Places BY <1>1, PlaceIff
<1>8. \A d : d \in 1 .. n + 1 <=> d \in 1 .. n \/ d = n + 1 BY <1>1
<1>9. \A u, d : <<u, d>> \in Places' <=> <<u, d>> \in Places \/ <<u, d>> = p
  BY <1>3, <1>5, <1>8, PlaceIff
<1>10. Places' = Places \cup {p} BY <1>5, <1>6, <1>9
<1>11. Held'[p] = f BY <1>1, <1>3, <1>5, <1>10
<1>12. ASSUME NEW q \in Places PROVE Held'[q] = IF q = TopPlace(t) THEN below[1] ELSE Held[q]
  <2>1. CASE q[1] # t BY <1>5, <1>10, <2>1 DEF TopPlace
  <2>2. CASE q[1] = t
    <3>1. q[2] \in 1 .. n /\ q = <<t, q[2]>> BY <1>6, <2>2, PlaceIff
    <3>2. Held'[q] = s[(n + 1) + 1 - q[2]] BY <1>3, <1>5, <1>10, <2>2
    <3>3. n + 1 - q[2] \in 1 .. n /\ (n + 1) + 1 - q[2] = (n + 1 - q[2]) + 1 BY <1>1, <3>1
    <3>4. Held'[q] = below[n + 1 - q[2]] BY <1>3, <3>2, <3>3
    <3>5. Held[q] = stack[t][n + 1 - q[2]] BY <2>2 DEF Held
    <3>6. CASE q[2] = n
      <4>1. n + 1 - q[2] = 1 BY <1>1, <3>6
      <4> QED BY <3>1, <3>4, <3>6, <4>1 DEF TopPlace
    <3>7. CASE q[2] # n
      <4>1. n + 1 - q[2] \in 2 .. n BY <1>1, <3>1, <3>7
      <4>2. q # TopPlace(t) BY <3>1, <3>7 DEF TopPlace
      <4> QED BY <3>4, <3>5, <4>1, <4>2
    <3> QED BY <3>6, <3>7
  <2> QED BY <2>1, <2>2
<1> QED BY <1>5, <1>7, <1>10, <1>11, <1>12 DEF f

LEMMA RunNestedStep ==
    ASSUME TypeInv, PoolInv, NEW t \in Threads, RunNested(t) PROVE (TypeInv /\ PoolInv)'
<1> DEFINE f == Top(t)
           k == f.loop
           l == CurrentBody(t)
           g == Advanced(t)
           p == TopPlace(t)
           below == <<g>> \o Tail(stack[t])
<1>1. /\ InSlice(t) /\ l \in Loops /\ CountRun(t) /\ Enter(t, l, below)
      /\ UNCHANGED <<pool, turn, queue, throwing, has_exception, failed>>
  BY DEF RunNested
<1>2. /\ Busy(t) /\ t \notin throwing /\ f.pc = "run" /\ k \in Loops
      /\ f.pos \in 1 .. Iterations(k) /\ runs[k][f.pos] = 0 /\ status[k] \in {"running", "threw"}
  BY <1>1, CurrentIteration
<1>3. g \in Frames /\ g.kind = f.kind /\ g.loop = k /\ g.slice = f.slice /\ g.pc = "run"
  BY <1>1, RunOthers
<1>4. p \in Places /\ Held[p] = f BY <1>2, TopIsHeld
<1>5. l = Body[k][f.pos] BY DEF CurrentBody
<1> HIDE DEF f, g, l, k
<1>6. stack[t] \in Seq(Frames) /\ stack[t] # <<>> BY <1>2 DEF TypeInv, Busy
<1>7. /\ below \in Seq(Frames) /\ Len(below) = Len(stack[t]) /\ below[1] = g
      /\ \A i \in 2 .. Len(below) : below[i] = stack[t][i]
  <2>1. /\ Tail(stack[t]) \in Seq(Frames) /\ Len(Tail(stack[t])) = Len(stack[t]) - 1
        /\ Len(stack[t]) \in Nat \ {0}
        /\ \A i \in 1 .. Len(stack[t]) - 1 : Tail(stack[t])[i] = stack[t][i + 1]
    BY <1>6
  <2>2. \A r \in Seq(Frames) : <<g>> \o r \in Seq(Frames) /\ Len(<<g>> \o r) = Len(r) + 1
           /\ (<<g>> \o r)[1] = g /\ \A i \in 2 .. Len(r) + 1 : (<<g>> \o r)[i] = r[i - 1]
    BY <1>3
  <2>3. \A i \in 2 .. Len(stack[t]) : i - 1 \in 1 .. Len(stack[t]) - 1 /\ (i - 1) + 1 = i BY <2>1
  <2> QED BY <2>1, <2>2, <2>3
<1> HIDE DEF below
<1>8. \E s : stack' = [stack EXCEPT ![t] = s] BY <1>1 DEF Enter
<1>9. status[l] = "idle" BY <1>1, <1>2, <1>5 DEF PoolInv, CallsAreAhead
<1>10. \A u \in Threads : u # t => stack'[u] = stack[u] BY <1>8 DEF TypeInv
<1>11. ASSUME stack' \in [Threads -> Seq(Frames)],
              \A q \in Places : Held'[q] = IF q = p THEN g ELSE Held[q]
       PROVE  Calling(l)
  <2>1. \A q \in Places : /\ Held'[q].kind = Held[q].kind /\ Held'[q].loop = Held[q].loop
                          /\ Held'[q].slice = Held[q].slice /\ Held'[q].pc = Held[q].pc
    BY <1>2, <1>3, <1>4, <1>11 DEF k
  <2>2. /\ \A q \in LoopPlaces : LET m == Held[q].loop
                                 IN LoopFrameOk(Held'[q], status[m], slices[m], runs'[m])
        /\ \A q \in TaskPlaces : LET m == Held[q].loop
                                 IN TaskFrameOk(Held'[q], status[m], slices[m], runs'[m])
    <3>1. LoopPlaces \subseteq Places /\ TaskPlaces \subseteq Places BY DEF LoopPlaces, TaskPlaces
    <3>2. /\ \A q \in LoopPlaces : LET m == Held[q].loop
                                   IN LoopFrameOk(IF q = p THEN g ELSE Held[q], status[m], slices[m], runs'[m])
          /\ \A q \in TaskPlaces : LET m == Held[q].loop
                                   IN TaskFrameOk(IF q = p THEN g ELSE Held[q], status[m], slices[m], runs'[m])
      BY <1>1, RunFrames DEF g
    <3> QED BY <1>11, <3>1, <3>2
  <2>3. /\ \A x \in Queued : QueuedOk(x, status[x.loop], slices[x.loop], runs'[x.loop])
        /\ \A m \in Loops : status[m] = "running" =>
              \A i \in (0 .. slices[m] - 2) \ Pending(m, slices[m], Active) :
                 has_exception[m] \/ AllRan(runs'[m], m, slices[m], i)
    BY <1>1, RunQueues
  <2>4. /\ runs' \in [Loops -> UNION {[1 .. Iterations(m) -> {0, 1}] : m \in Loops}]
        /\ \A m \in Loops : runs'[m] \in [1 .. Iterations(m) -> {0, 1}]
        /\ \A m \in Loops : m # k => runs'[m] = runs[m]
        /\ runs'[k][f.pos] = 1
        /\ \A i \in 1 .. Iterations(k) : i # f.pos => runs'[k][i] = runs[k][i]
    BY <1>1, RunsType DEF k, f
  <2>5. \A m \in Loops : status[m] \in {"idle", "done"} => runs'[m] = runs[m] BY <1>2, <2>4
  <2>6. ASSUME NEW m \in Loops, NEW i \in 1 .. Iterations(m), runs'[m][i] = 0
        PROVE  runs[m][i] = 0 /\ Body[m][i] # l
    <3>1. m # k \/ i # f.pos BY <2>4, <2>6
    <3>2. Body[m][i] # Body[k][f.pos] BY <1>1, <1>2, <1>5, <3>1, IterationsType, PoolAssumption, CallsAssumption
    <3> QED BY <1>5, <2>4, <2>6, <3>1, <3>2
  <2>7. program' = program BY <1>1 DEF pool
  <2>8. ASSUME NEW c \in Clients, NEW i \in DOMAIN program[c]
        PROVE  /\ status[program[c][i]] = "idle" /\ program[c][i] # l
               /\ \A d \in Clients : \A j \in DOMAIN program[d] :
                     program[c][i] = program[d][j] => c = d /\ i = j
               /\ \A m \in Loops : \A j \in DOMAIN Body[m] : program[c][i] # Body[m][j]
    BY <1>2, <1>5, IterationsType DEF PoolInv, CallsAreAhead
  <2>9. \A u \in Threads : Busy(u)' => Busy(u) BY <1>2, <1>10 DEF Busy
  <2>10. \A u \in throwing : Busy(u)' = Busy(u) /\ Top(u)' = Top(u) BY <1>2, <1>8, OthersThrow
  <2>11. UNCHANGED <<size, turn, queue, live, throwing, has_exception, failed, resizing>>
    BY <1>1 DEF pool
  <2>12. program' \in [Clients -> Seq(Loops)] BY <2>7 DEF TypeInv
  <2> QED BY <1>9, <1>11, <2>1, <2>2, <2>3, <2>4, <2>5, <2>6, <2>7, <2>8, <2>9, <2>10, <2>11, <2>12
         DEF Calling, FramesStay, TasksStay, RunsStay, ProgramsStay, ThreadsStay
<1>12. CASE Iterations(l) = 0
  <2>1. Update(t, g) /\ status' = [status EXCEPT ![l] = "done"] /\ UNCHANGED <<slices, latch>>
    BY <1>1, <1>12 DEF Enter, Update, below, TypeInv
  <2>2. /\ stack' \in [Threads -> Seq(Frames)] /\ Places' = Places
        /\ \A q \in Places : Held'[q] = IF q = p THEN g ELSE Held[q]
    BY <1>2, <1>3, <2>1, UpdatePlaces
  <2> QED BY <1>1, <1>11, <1>12, <2>1, <2>2, EmptyCallStep
<1>13. CASE Iterations(l) # 0
  <2>1. /\ stack' = [stack EXCEPT ![t] = <<LoopFrame(l)>> \o below]
        /\ status' = [status EXCEPT ![l] = "running"]
        /\ slices' = [slices EXCEPT ![l] = TaskCount(l)]
        /\ latch' = [latch EXCEPT ![l] = TaskCount(l) - 1]
    BY <1>1, <1>13 DEF Enter
  <2> DEFINE e == <<t, Len(stack[t]) + 1>>
  <2>2. /\ stack' \in [Threads -> Seq(Frames)]
        /\ e \notin Places /\ Places' = Places \cup {e} /\ Held'[e] = LoopFrame(l)
        /\ \A q \in Places : Held'[q] = IF q = p THEN g ELSE Held[q]
    BY <1>1, <1>7, <2>1, EnterPlaces, ZenonT(40)
  <2> HIDE DEF e
  <2> QED BY <1>1, <1>11, <1>13, <2>1, <2>2, CallStep
<1> QED BY <1>12, <1>13

LEMMA CallLoopStep ==
    ASSUME TypeInv, PoolInv, NEW c \in Clients, CallLoop(c) PROVE (TypeInv /\ PoolInv)'
<1> DEFINE l == Head(program[c])
           up(d) == IF d = c THEN 1 ELSE 0
<1>1. /\ ~ Busy(c) /\ program[c] # <<>> /\ resizing = NotResizing /\ Enter(c, l, <<>>)
      /\ program' = [program EXCEPT ![c] = Tail(@)]
      /\ UNCHANGED <<size, turn, queue, closed, live, throwing, has_exception, runs, failed, resizing, resizes>>
  BY DEF CallLoop
<1>2. c \in Threads /\ stack[c] = <<>> /\ c \notin throwing
  BY <1>1 DEF Threads, Busy, PoolInv, WorkersInv
<1>3. /\ program[c] \in Seq(Loops) /\ l \in Loops /\ l = program[c][1] /\ 1 \in DOMAIN program[c]
      /\ Tail(program[c]) \in Seq(Loops)
      /\ \A i \in DOMAIN Tail(program[c]) : /\ Tail(program[c])[i] = program[c][i + 1]
                                            /\ i + 1 \in DOMAIN program[c] /\ i + 1 # 1 /\ i \in Int
  <2>1. program[c] \in Seq(Loops) BY DEF TypeInv
  <2> QED BY <1>1, <2>1
<1> HIDE DEF l
<1>4. \E s : stack' = [stack EXCEPT ![c] = s] BY <1>1 DEF Enter
<1>5. program' \in [Clients -> Seq(Loops)] BY <1>1, <1>3 DEF TypeInv
<1>6. ASSUME NEW d \in Clients, NEW i \in DOMAIN program'[d]
      PROVE  /\ i \in Int /\ i + up(d) \in DOMAIN program[d] /\ (d = c => i + up(d) # 1)
             /\ program'[d][i] = program[d][i + up(d)]
  <2>1. CASE d = c
    <3>1. program'[d] = Tail(program[c]) BY <1>1, <2>1 DEF TypeInv
    <3> QED BY <1>3, <2>1, <3>1
  <2>2. CASE d # c
    <3>1. program'[d] = program[d] /\ program[d] \in Seq(Loops) BY <1>1, <2>2 DEF TypeInv
    <3>2. i \in Int /\ i + 0 = i BY <3>1
    <3> QED BY <2>2, <3>1, <3>2
  <2> QED BY <2>1, <2>2
<1>7. /\ \A d \in Clients : \A i \in DOMAIN program[d] :
            /\ status[program[d][i]] = "idle"
            /\ \A e \in Clients : \A j \in DOMAIN program[e] :
                  program[d][i] = program[e][j] => d = e /\ i = j
            /\ \A m \in Loops : \A j \in DOMAIN Body[m] : program[d][i] # Body[m][j]
  BY DEF PoolInv, CallsAreAhead
<1>8. \A u \in Threads : u # c => stack'[u] = stack[u] BY <1>4 DEF TypeInv
<1>9. ASSUME stack' \in [Threads -> Seq(Frames)], \A q \in Places : Held'[q] = Held[q]
      PROVE  Calling(l)
  <2>1. status[l] = "idle" BY <1>3, <1>7
  <2>2. /\ \A q \in LoopPlaces : LET m == Held[q].loop
                                 IN LoopFrameOk(Held'[q], status[m], slices[m], runs'[m])
        /\ \A q \in TaskPlaces : LET m == Held[q].loop
                                 IN TaskFrameOk(Held'[q], status[m], slices[m], runs'[m])
    <3>1. LoopPlaces \subseteq Places /\ TaskPlaces \subseteq Places BY DEF LoopPlaces, TaskPlaces
    <3> QED BY <1>1, <1>9, <3>1 DEF PoolInv, LoopFramesAreOk, TaskFramesAreOk
  <2>3. /\ \A x \in Queued : QueuedOk(x, status[x.loop], slices[x.loop], runs'[x.loop])
        /\ \A m \in Loops : status[m] = "running" =>
              \A i \in (0 .. slices[m] - 2) \ Pending(m, slices[m], Active) :
                 has_exception[m] \/ AllRan(runs'[m], m, slices[m], i)
    BY <1>1 DEF PoolInv, QueuesAreOk, SlicesAreRun
  <2>4. /\ runs' \in [Loops -> UNION {[1 .. Iterations(m) -> {0, 1}] : m \in Loops}]
        /\ \A m \in Loops : runs'[m] \in [1 .. Iterations(m) -> {0, 1}]
        /\ \A m \in Loops : status[m] \in {"idle", "done"} => runs'[m] = runs[m]
    BY <1>1 DEF TypeInv
  <2>5. \A m \in Loops : \A i \in 1 .. Iterations(m) : runs'[m][i] = 0 => runs[m][i] = 0 /\ Body[m][i] # l
    BY <1>1, <1>3, <1>7, IterationsType
  <2>6. ASSUME NEW d \in Clients, NEW i \in DOMAIN program'[d]
        PROVE  /\ status[program'[d][i]] = "idle" /\ program'[d][i] # l
               /\ \A e \in Clients : \A j \in DOMAIN program'[e] :
                     program'[d][i] = program'[e][j] => d = e /\ i = j
               /\ \A m \in Loops : \A j \in DOMAIN Body[m] : program'[d][i] # Body[m][j]
    <3>1. /\ i \in Int /\ i + up(d) \in DOMAIN program[d] /\ (d = c => i + up(d) # 1)
          /\ program'[d][i] = program[d][i + up(d)]
      BY <1>6
    <3>2. program'[d][i] # l BY <1>3, <1>7, <3>1
    <3>3. ASSUME NEW e \in Clients, NEW j \in DOMAIN program'[e], program'[d][i] = program'[e][j]
          PROVE  d = e /\ i = j
      <4>1. /\ j \in Int /\ j + up(e) \in DOMAIN program[e]
            /\ program'[e][j] = program[e][j + up(e)]
        BY <1>6
      <4> DEFINE a == i + up(d)
                 b == j + up(e)
      <4>2. a \in DOMAIN program[d] /\ b \in DOMAIN program[e] /\ program[d][a] = program[e][b]
        BY <3>1, <3>3, <4>1
      <4> HIDE DEF a, b
      <4>3. d = e /\ a = b BY <1>7, <4>2
      <4> QED BY <3>1, <4>1, <4>3 DEF a, b
    <3> QED BY <1>7, <3>1, <3>2, <3>3
  <2>7. \A u \in Threads : Busy(u)' => Busy(u) \/ (u \in Clients /\ resizing = NotResizing)
    BY <1>1, <1>8 DEF Busy
  <2>8. \A u \in throwing : Busy(u)' = Busy(u) /\ Top(u)' = Top(u) BY <1>2, <1>4, OthersThrow
  <2> QED BY <1>1, <1>5, <1>9, <2>1, <2>2, <2>3, <2>4, <2>5, <2>6, <2>7, <2>8
         DEF Calling, FramesStay, TasksStay, RunsStay, ProgramsStay, ThreadsStay
<1>10. CASE Iterations(l) = 0
  <2>1. stack' = stack /\ status' = [status EXCEPT ![l] = "done"] /\ UNCHANGED <<slices, latch>>
    <3>1. /\ stack' = [stack EXCEPT ![c] = stack[c]] /\ status' = [status EXCEPT ![l] = "done"]
          /\ UNCHANGED <<slices, latch>>
      BY <1>1, <1>2, <1>10 DEF Enter
    <3>2. stack = [u \in Threads |-> stack[u]] BY DEF TypeInv
    <3> QED BY <3>1, <3>2
  <2>2. stack' \in [Threads -> Seq(Frames)] BY <2>1 DEF TypeInv
  <2>3. Places' = Places /\ Held' = Held BY <2>1, SameStacks
  <2> QED BY <1>3, <1>9, <1>10, <2>1, <2>2, <2>3, EmptyCallStep
<1>11. CASE Iterations(l) # 0
  <2>1. /\ stack' = [stack EXCEPT ![c] = <<LoopFrame(l)>> \o <<>>]
        /\ status' = [status EXCEPT ![l] = "running"]
        /\ slices' = [slices EXCEPT ![l] = TaskCount(l)]
        /\ latch' = [latch EXCEPT ![l] = TaskCount(l) - 1]
    BY <1>1, <1>11 DEF Enter
  <2> DEFINE e == <<c, Len(stack[c]) + 1>>
             below == <<>>
  <2>2. below \in Seq(Frames) /\ Len(below) = 0 /\ Len(stack[c]) = 0 BY <1>2
  <2>3. TopPlace(c) \notin Places BY <1>2, <2>2, PlaceIff DEF TopPlace
  <2> HIDE DEF below, e
  <2>4. /\ stack' \in [Threads -> Seq(Frames)]
        /\ e \notin Places /\ Places' = Places \cup {e} /\ Held'[e] = LoopFrame(l)
        /\ \A q \in Places : Held'[q] = IF q = TopPlace(c) THEN below[1] ELSE Held[q]
    <3>1. \A i \in 2 .. Len(below) : below[i] = stack[c][i] BY <2>2
    <3>2. stack' = [stack EXCEPT ![c] = <<LoopFrame(l)>> \o below] BY <2>1 DEF below
    <3> QED BY <1>2, <1>3, <2>2, <3>1, <3>2, EnterPlaces, ZenonT(40) DEF e
  <2> QED BY <1>3, <1>9, <1>11, <2>1, <2>3, <2>4, CallStep
<1> QED BY <1>10, <1>11

LEMMA PoolStep ==
    ASSUME TypeInv, PoolInv, [TpNext]_tpVars PROVE (TypeInv /\ PoolInv)'
<1>1. ASSUME NEW t \in Threads, Execute(t) PROVE (TypeInv /\ PoolInv)'
  <2>1. CASE Submit(t) BY <2>1, SubmitStep
  <2>2. CASE StartOwnSlice(t) BY <2>2, StartOwnSliceStep
  <2>3. CASE RunLeaf(t) \/ RunThrowing(t) BY <2>3, RunSteps
  <2>4. CASE RunNested(t) BY <2>4, RunNestedStep
  <2>5. CASE FinishTask(t) BY <2>5, TaskEndSteps
  <2>6. CASE FinishOwnSlice(t) BY <2>6, FinishOwnSliceStep
  <2>7. CASE Return(t) BY <2>7, ReturnStep
  <2>8. CASE CatchInTask(t)
    <3>1. Busy(t) BY <2>8 DEF CatchInTask, PoolInv, WorkersInv
    <3> QED BY <2>8, <3>1, TaskEndSteps
  <2>9. CASE UnwindLoop(t) BY <2>9, UnwindLoopStep
  <2> QED BY <1>1, <2>1, <2>2, <2>3, <2>4, <2>5, <2>6, <2>7, <2>8, <2>9 DEF Execute
<1>2. ASSUME NEW w \in Workers, Worker(w) PROVE (TypeInv /\ PoolInv)'
  <2>1. w \in Threads BY DEF Threads
  <2>2. CASE Execute(w) BY <1>1, <2>1, <2>2
  <2>3. CASE TakeTask(w) BY <2>3, TakeTaskStep
  <2>4. CASE StopHelping(w) \/ HelpAgain(w) BY <2>4, HelpSteps
  <2>5. CASE ExitWorker(w) BY <2>5, OtherSteps
  <2> QED BY <1>2, <2>2, <2>3, <2>4, <2>5 DEF Worker
<1>3. ASSUME NEW c \in Clients, Client(c) PROVE (TypeInv /\ PoolInv)'
  <2>1. c \in Threads BY DEF Threads
  <2>2. CASE Execute(c) BY <1>1, <2>1, <2>2
  <2>3. CASE CallLoop(c) BY <2>3, CallLoopStep
  <2> QED BY <1>3, <2>2, <2>3 DEF Client
<1>4. CASE \E c \in Clients : ResetScheduler(c) BY <1>4, OtherSteps
<1>5. CASE \E n \in 0 .. MaxWorkers : Resize(n) BY <1>5, OtherSteps
<1>6. CASE Replace BY <1>6, ReplaceStep
<1>7. CASE Destroy BY <1>7, OtherSteps
<1>8. CASE UNCHANGED tpVars BY <1>8, OtherSteps
<1> QED BY <1>2, <1>3, <1>4, <1>5, <1>6, <1>7, <1>8 DEF TpNext

LEMMA PoolInvHolds == TpSpec => [](TypeInv /\ PoolInv)
<1>1. TpInit => TypeInv /\ PoolInv BY InitPoolInv
<1>2. (TypeInv /\ PoolInv) /\ [TpNext]_tpVars => (TypeInv /\ PoolInv)' BY PoolStep
<1> QED BY <1>1, <1>2, PTL DEF TpSpec

-----------------------------------------------------------------------------
\* Every iteration of a loop runs at most once.  When execute_loop returns
\* normally each of them ran exactly once to its end: an iteration that threw, in
\* any thread, makes it throw.  For any number of workers, of loops, of nesting.
THEOREM LoopsStayComplete == TpSpec => []LoopIsComplete
<1>1. TypeInv /\ PoolInv => LoopIsComplete
  <2>1. ASSUME TypeInv, NEW l \in Loops, NEW i \in 1 .. Iterations(l) PROVE runs[l][i] <= 1
    <3>1. runs[l] \in [1 .. Iterations(l) -> {0, 1}] BY <2>1 DEF TypeInv
    <3>2. runs[l][i] \in {0, 1} BY <3>1
    <3> QED BY <3>2
  <2> QED BY <2>1 DEF LoopIsComplete, PoolInv, DoneIsDone
<1> QED BY <1>1, PoolInvHolds, PTL

-----------------------------------------------------------------------------
(* The lifetime of the stack frame that the tasks of a loop refer to *)

\* An exception leaves the slice of the calling thread, which execute_loop does not
\* guard, while tasks of the loop are still to end.
UnguardedThrow == \E t \in throwing : Top(t).kind = "loop" /\ latch[Top(t).loop] # 0

ThrewIsOpen == \A l \in Loops : status[l] = "threw" => latch[l] = 0

LEMMA OpenStep ==
    ASSUME TypeInv, PoolInv, ThrewIsOpen, ~ UnguardedThrow, [TpNext]_tpVars PROVE ThrewIsOpen'
<1>1. ASSUME NEW t \in Threads, Busy(t), Top(t).kind = "task"
      PROVE  Top(t).loop \in Loops /\ status[Top(t).loop] # "threw"
  <2>1. TopPlace(t) \in TaskPlaces /\ Held[TopPlace(t)] = Top(t) /\ Top(t).loop \in Loops
    BY <1>1, TaskOnTop DEF PoolInv
  <2>2. TaskOf(Top(t)) \in OnStack /\ TaskOf(Top(t)).loop = Top(t).loop
    BY <2>1 DEF OnStack, TaskOf
  <2>3. latch[Top(t).loop] # 0 BY <2>1, <2>2, OpenLatch
  <2> QED BY <2>1, <2>3 DEF ThrewIsOpen
<1>2. ASSUME NEW t \in Threads, Busy(t), Top(t).kind = "task", UNCHANGED status,
             latch' = [latch EXCEPT ![Top(t).loop] = @ - 1]
      PROVE  ThrewIsOpen'
  <2>1. \A l \in Loops : l # Top(t).loop => latch'[l] = latch[l] BY <1>2 DEF TypeInv
  <2> QED BY <1>1, <1>2, <2>1 DEF ThrewIsOpen
<1>3. ASSUME NEW l \in Loops, NEW st, status' = [status EXCEPT ![l] = st],
             st = "threw" => latch[l] = 0, UNCHANGED latch
      PROVE  ThrewIsOpen'
  <2>1. status'[l] = st /\ \A m \in Loops : m # l => status'[m] = status[m] BY <1>3 DEF TypeInv
  <2> QED BY <1>3, <2>1 DEF ThrewIsOpen
<1>4. ASSUME NEW t, NEW l \in Loops, NEW below, Enter(t, l, below) PROVE ThrewIsOpen'
  <2>1. CASE Iterations(l) = 0 BY <1>3, <1>4, <2>1 DEF Enter
  <2>2. CASE Iterations(l) # 0
    <3>1. status'[l] = "running" /\ \A m \in Loops : m # l => status'[m] = status[m] /\ latch'[m] = latch[m]
      BY <1>4, <2>2 DEF Enter, TypeInv
    <3> QED BY <3>1 DEF ThrewIsOpen
  <2> QED BY <2>1, <2>2
<1>5. ASSUME UNCHANGED <<status, latch>> PROVE ThrewIsOpen' BY <1>5 DEF ThrewIsOpen
<1>6. ASSUME NEW t \in Threads, Execute(t) PROVE ThrewIsOpen'
  <2>1. CASE Submit(t) \/ StartOwnSlice(t) \/ FinishOwnSlice(t)
    BY <1>5, <2>1 DEF Submit, StartOwnSlice, FinishOwnSlice
  <2>2. CASE RunLeaf(t) \/ RunThrowing(t) BY <1>5, <2>2 DEF RunLeaf, RunThrowing
  <2>3. CASE RunNested(t) BY <1>4, <2>3 DEF RunNested
  <2>4. CASE FinishTask(t) BY <1>2, <2>4 DEF FinishTask, SliceDone, At
  <2>5. CASE CatchInTask(t) BY <1>2, <2>5 DEF CatchInTask, PoolInv, WorkersInv
  <2>6. CASE Return(t)
    <3>1. Top(t).loop \in Loops BY <2>6, LoopOnTop DEF Return, At, PoolInv
    <3> QED BY <1>3, <2>6, <3>1 DEF Return
  <2>7. CASE UnwindLoop(t)
    <3>1. t \in throwing /\ Busy(t) /\ Top(t).kind = "loop"
      BY <2>7 DEF UnwindLoop, PoolInv, WorkersInv
    <3>2. Top(t).loop \in Loops /\ latch[Top(t).loop] = 0
      BY <3>1, LoopOnTop DEF PoolInv, UnguardedThrow
    <3> QED BY <1>3, <2>7, <3>2 DEF UnwindLoop
  <2> QED BY <1>6, <2>1, <2>2, <2>3, <2>4, <2>5, <2>6, <2>7 DEF Execute
<1>7. ASSUME NEW w \in Workers, Worker(w) PROVE ThrewIsOpen'
  <2>1. w \in Threads BY DEF Threads
  <2>2. CASE Execute(w) BY <1>6, <2>1, <2>2
  <2>3. CASE TakeTask(w) \/ StopHelping(w) \/ HelpAgain(w) \/ ExitWorker(w)
    BY <1>5, <2>3 DEF TakeTask, StopHelping, HelpAgain, ExitWorker
  <2> QED BY <1>7, <2>2, <2>3 DEF Worker
<1>8. ASSUME NEW c \in Clients, Client(c) PROVE ThrewIsOpen'
  <2>1. c \in Threads BY DEF Threads
  <2>2. CASE Execute(c) BY <1>6, <2>1, <2>2
  <2>3. CASE CallLoop(c)
    <3>1. program[c] \in Seq(Loops) /\ program[c] # <<>> BY <2>3 DEF CallLoop, TypeInv
    <3>2. Head(program[c]) \in Loops BY <3>1
    <3> QED BY <1>4, <2>3, <3>2 DEF CallLoop
  <2> QED BY <1>8, <2>2, <2>3 DEF Client
<1>9. CASE \/ \E c \in Clients : ResetScheduler(c)
           \/ \E n \in 0 .. MaxWorkers : Resize(n)
           \/ Replace \/ Destroy \/ UNCHANGED tpVars
  BY <1>5, <1>9 DEF ResetScheduler, Resize, Replace, Destroy, tpVars
<1> QED BY <1>7, <1>8, <1>9 DEF TpNext

LEMMA OpenOutlives ==
    ASSUME TypeInv, PoolInv, ThrewIsOpen PROVE FrameOutlivesTasks
<1>1. ASSUME NEW x \in Queued \cup OnStack, NEW l \in Loops, x.loop = l, status[l] \in {"running", "threw"}
      PROVE  status[l] = "running"
  BY <1>1, OpenLatch DEF ThrewIsOpen
<1>2. ASSUME NEW l \in Loops, IsQueued(l) PROVE status[l] = "running"
  <2>1. PICK x \in Queued : x.loop = l BY <1>2, QueuedIff DEF IsQueued
  <2>2. status[l] \in {"running", "threw"} BY <2>1 DEF PoolInv, QueuesAreOk, QueuedOk, TaskOk
  <2> QED BY <1>1, <2>1, <2>2
<1>3. ASSUME NEW l \in Loops, IsRunning(l) PROVE status[l] = "running"
  <2>1. PICK t \in Threads : \E n \in DOMAIN stack[t] : stack[t][n].kind = "task" /\ stack[t][n].loop = l
    BY <1>3 DEF IsRunning
  <2>2. PICK n \in DOMAIN stack[t] : stack[t][n].kind = "task" /\ stack[t][n].loop = l BY <2>1
  <2> DEFINE p == <<t, Len(stack[t]) + 1 - n>>
  <2>3. stack[t] \in Seq(Frames) BY DEF TypeInv
  <2>4. n \in 1 .. Len(stack[t]) /\ Len(stack[t]) \in Nat BY <2>2, <2>3
  <2>5. Len(stack[t]) + 1 - n \in 1 .. Len(stack[t]) /\ Len(stack[t]) + 1 - (Len(stack[t]) + 1 - n) = n
    BY <2>4
  <2>6. p \in Places BY <2>5, PlaceIff
  <2>7. Held[p] = stack[t][n] BY <2>5, <2>6 DEF Held
  <2>8. p \in TaskPlaces BY <2>2, <2>6, <2>7 DEF TaskPlaces
  <2>9. TaskOf(Held[p]) \in OnStack /\ TaskOf(Held[p]).loop = l BY <2>2, <2>7, <2>8 DEF OnStack, TaskOf
  <2>10. status[l] \in {"running", "threw"} BY <2>2, <2>6, <2>7, PlacesAreLive
  <2> QED BY <1>1, <2>9, <2>10
<1> QED BY <1>2, <1>3 DEF FrameOutlivesTasks

\* As long as no exception leaves the slice of a calling thread while its loop has
\* tasks, the frame of execute_loop, with the latch, the functor and the exception
\* slot, is there whenever one of the tasks is queued or running.
THEOREM FramesOutliveTasks == TpSpec /\ []~UnguardedThrow => []FrameOutlivesTasks
<1>1. TpInit => ThrewIsOpen BY DEF TpInit, ThrewIsOpen
<1>2. TypeInv /\ PoolInv /\ ThrewIsOpen /\ ~ UnguardedThrow /\ [TpNext]_tpVars => ThrewIsOpen'
  BY OpenStep
<1>3. TypeInv /\ PoolInv /\ ThrewIsOpen => FrameOutlivesTasks BY OpenOutlives
<1> QED BY <1>1, <1>2, <1>3, PoolInvHolds, PTL DEF TpSpec

NothingThrew == throwing = {} /\ \A l \in Loops : ~ has_exception[l]

\* Without exceptions nothing has to be assumed: no functor that returns normally can
\* make execute_loop leave its tasks behind.
THEOREM QuietFramesOutliveTasks ==
    ASSUME Throwing = {} PROVE TpSpec => []FrameOutlivesTasks
<1>1. TpInit => NothingThrew BY DEF TpInit, NothingThrew
<1>2. ASSUME TypeInv, PoolInv, NothingThrew, [TpNext]_tpVars PROVE NothingThrew'
  <2>1. ASSUME NEW t \in Threads, Execute(t) PROVE UNCHANGED <<throwing, has_exception>>
    <3>1. CASE Return(t)
      <4>1. Top(t).loop \in Loops BY <1>2, <3>1, LoopOnTop DEF Return, At, PoolInv
      <4> QED BY <1>2, <3>1, <4>1 DEF Return, NothingThrew
    <3>2. ~ RunThrowing(t) /\ ~ CatchInTask(t) /\ ~ UnwindLoop(t)
      BY <1>2 DEF RunThrowing, CatchInTask, UnwindLoop, NothingThrew
    <3> QED BY <2>1, <3>1, <3>2
            DEF Execute, Submit, StartOwnSlice, RunLeaf, RunNested, FinishTask, FinishOwnSlice
  <2>2. ASSUME NEW w \in Workers, Worker(w) PROVE UNCHANGED <<throwing, has_exception>>
    BY <2>1, <2>2 DEF Worker, Threads, TakeTask, StopHelping, HelpAgain, ExitWorker
  <2>3. ASSUME NEW c \in Clients, Client(c) PROVE UNCHANGED <<throwing, has_exception>>
    BY <2>1, <2>3 DEF Client, Threads, CallLoop
  <2>4. CASE \/ \E c \in Clients : ResetScheduler(c)
             \/ \E n \in 0 .. MaxWorkers : Resize(n)
             \/ Replace \/ Destroy \/ UNCHANGED tpVars
    BY <1>2, <2>4 DEF NothingThrew, ResetScheduler, Resize, Replace, Destroy, tpVars
  <2> QED BY <1>2, <2>2, <2>3, <2>4 DEF TpNext, NothingThrew
<1>3. NothingThrew => ~ UnguardedThrow BY DEF NothingThrew, UnguardedThrow
<1> QED BY <1>1, <1>2, <1>3, PoolInvHolds, FramesOutliveTasks, PTL DEF TpSpec
=============================================================================
