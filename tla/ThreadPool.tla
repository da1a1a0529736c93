----------------------------- MODULE ThreadPool -----------------------------
(***************************************************************************)
(* gapp::detail::thread_pool and parallel_for.                             *)
(*                                                                         *)
(* execute_loop splits its range into task_count slices, queues all but    *)
(* the last one on the workers in turn, runs the last slice itself and     *)
(* waits on a latch.  A worker that waits (a nested loop) keeps running    *)
(* the tasks of its own queue; any other thread only spins.  The tasks     *)
(* refer to the stack frame of execute_loop: latch, exception, functor.    *)
(*                                                                         *)
(* A thread is its call stack, the innermost frame first:                  *)
(*   loop frame - an activation of execute_loop,                           *)
(*   task frame - a queued slice that the thread runs.                     *)
(* The operations of a concurrent queue are atomic: each of them holds the *)
(* lock of the queue from its first access to its last.                    *)
(***************************************************************************)
EXTENDS Integers, Sequences, FiniteSets

CONSTANTS
    MaxWorkers,   \* bound on the size of the pool
    Clients,      \* the threads that are not workers of the pool
    Loops,        \* the parallel loops of the run, each executed once
    Leaf,         \* a loop body that does not call the pool
    Body,         \* Body[l][i]: the nested loop run by iteration i of l, or Leaf
    BlockSize,    \* BlockSize[l]: the block_size argument of loop l
    Program,      \* Program[c]: the loops that client c runs, in order
    Throwing,     \* the iterations <<l, i>> that may throw
    MaxResizes    \* bound on the calls of execution_threads()

ASSUME PoolAssumption ==
    /\ MaxWorkers \in Nat /\ MaxResizes \in Nat
    /\ Leaf \notin Loops
    /\ Body \in [Loops -> Seq(Loops \cup {Leaf})]
    /\ BlockSize \in [Loops -> Nat \ {0}]
    /\ Program \in [Clients -> Seq(Loops)]
    /\ Clients \cap (1 .. MaxWorkers) = {}

\* A loop stands for one activation of execute_loop: one program or one iteration
\* of another loop calls it.
ASSUME CallsAssumption ==
    /\ \A l, m \in Loops : \A i \in DOMAIN Body[l], j \in DOMAIN Body[m] :
          Body[l][i] = Body[m][j] /\ Body[l][i] # Leaf => l = m /\ i = j
    /\ \A c, d \in Clients : \A i \in DOMAIN Program[c], j \in DOMAIN Program[d] :
          Program[c][i] = Program[d][j] => c = d /\ i = j
    /\ \A c \in Clients, l \in Loops : \A i \in DOMAIN Program[c], j \in DOMAIN Body[l] :
          Program[c][i] # Body[l][j]

VARIABLES
    size,       \* workers_.size()
    turn,       \* turn_
    queue,      \* the task queue of every worker
    closed,     \* is_closed_ of every queue
    live,       \* the workers whose worker_main has not returned
    stack,      \* the call stack of every thread, innermost frame first
    throwing,   \* the threads that are unwinding an exception
    status,     \* idle, running, done (returned) or threw, for every loop
    slices,     \* task_count of every loop
    latch,      \* remaining_tasks of every loop
    has_exception,
    runs,       \* how many times every iteration was started
    failed,     \* the iterations that ended by an exception
    program,    \* what every client has left to run
    resizing,   \* the new size while thread_count() waits for the old workers
    resizes     \* calls of execution_threads() so far

tpVars == <<size, turn, queue, closed, live, stack, throwing, status, slices, latch,
          has_exception, runs, failed, program, resizing, resizes>>

pool == <<size, closed, live, program, resizing, resizes>>

-----------------------------------------------------------------------------
Min2(a, b) == IF a <= b THEN a ELSE b

NotResizing == -1
Workers == 1 .. MaxWorkers
Threads == Workers \cup Clients
Iterations(l) == Len(Body[l])
BlockCount(l) == (Iterations(l) + BlockSize[l] - 1) \div BlockSize[l]

TaskCount(l) == Min2(size + (IF size = 0 THEN 1 ELSE 0), Min2(Iterations(l), BlockCount(l)))

\* Variant: the remainder of the division is lost.
SliceFirstNoRemainder(l, k) == k * (Iterations(l) \div slices[l]) + 1

\* Slice k of loop l, k \in 0 .. task_count - 1; the last one is the caller's.
SliceFirst(l, k) == LET step == Iterations(l) \div slices[l]
                        remainder == Iterations(l) % slices[l]
                    IN k * step + Min2(k, remainder) + 1
SliceLast(l, k) == SliceFirst(l, k + 1) - 1

LoopFrame(l) == [kind |-> "loop", loop |-> l, slice |-> 0, pos |-> 0, pc |-> "submit"]
TaskFrame(task) == [kind |-> "task", loop |-> task.loop, slice |-> task.slice,
                    pos |-> SliceFirst(task.loop, task.slice), pc |-> "run"]

Top(t) == Head(stack[t])
Busy(t) == stack[t] # <<>>
Push(t, frame) == stack' = [stack EXCEPT ![t] = <<frame>> \o @]
Pop(t) == stack' = [stack EXCEPT ![t] = Tail(@)]
Update(t, frame) == stack' = [stack EXCEPT ![t] = <<frame>> \o Tail(@)]
At(t, kind, pc) == /\ Busy(t) /\ t \notin throwing
                   /\ Top(t).kind = kind /\ Top(t).pc = pc

-----------------------------------------------------------------------------
TpInit ==
    /\ size \in 0 .. MaxWorkers
    /\ turn = 0
    /\ queue = [w \in Workers |-> <<>>]
    /\ closed = [w \in Workers |-> FALSE]
    /\ live = 1 .. size
    /\ stack = [t \in Threads |-> <<>>]
    /\ throwing = {}
    /\ status = [l \in Loops |-> "idle"]
    /\ slices = [l \in Loops |-> 0]
    /\ latch = [l \in Loops |-> 0]
    /\ has_exception = [l \in Loops |-> FALSE]
    /\ runs = [l \in Loops |-> [i \in 1 .. Iterations(l) |-> 0]]
    /\ failed = {}
    /\ program = Program
    /\ resizing = NotResizing
    /\ resizes = 0

\* The part of execute_loop before the submissions, for a loop called with the
\* stack `below` under it.
Enter(t, l, below) ==
    IF Iterations(l) = 0
    THEN /\ status' = [status EXCEPT ![l] = "done"]
         /\ stack' = [stack EXCEPT ![t] = below]
         /\ UNCHANGED <<slices, latch>>
    ELSE /\ status' = [status EXCEPT ![l] = "running"]
         /\ slices' = [slices EXCEPT ![l] = TaskCount(l)]
         /\ latch' = [latch EXCEPT ![l] = TaskCount(l) - 1]
         /\ stack' = [stack EXCEPT ![t] = <<LoopFrame(l)>> \o below]

\* A client thread (the user's thread in solve()) starts its next loop.
CallLoop(c) ==
    /\ ~Busy(c) /\ program[c] # <<>>
    /\ resizing = NotResizing
    /\ Enter(c, Head(program[c]), <<>>)
    /\ program' = [program EXCEPT ![c] = Tail(@)]
    /\ UNCHANGED <<size, turn, queue, closed, live, throwing,
                   has_exception, runs, failed, resizing, resizes>>

\* scheduled_worker_queue().emplace(task)
Submit(t) ==
    /\ At(t, "loop", "submit")
    /\ Top(t).slice < slices[Top(t).loop] - 1
    /\ LET w == (turn % size) + 1
           task == [loop |-> Top(t).loop, slice |-> Top(t).slice]
       IN queue' = [queue EXCEPT ![w] = Append(@, task)]
    /\ turn' = turn + 1
    /\ Update(t, [Top(t) EXCEPT !.slice = @ + 1])
    /\ UNCHANGED <<pool, throwing, status, slices, latch, has_exception, runs, failed>>

StartOwnSlice(t) ==
    /\ At(t, "loop", "submit")
    /\ Top(t).slice = slices[Top(t).loop] - 1
    /\ Update(t, [Top(t) EXCEPT !.pc = "run", !.pos = SliceFirst(Top(t).loop, Top(t).slice)])
    /\ UNCHANGED <<pool, turn, queue, throwing, status, slices, latch, has_exception, runs, failed>>

-----------------------------------------------------------------------------
\* One iteration of the slice that the innermost frame runs.
InSlice(t) == /\ \E kind \in {"loop", "task"} : At(t, kind, "run")
              /\ Top(t).pos <= SliceLast(Top(t).loop, Top(t).slice)

CurrentBody(t) == Body[Top(t).loop][Top(t).pos]
Advanced(t) == [Top(t) EXCEPT !.pos = @ + 1]
CountRun(t) == runs' = [runs EXCEPT ![Top(t).loop][Top(t).pos] = @ + 1]

RunLeaf(t) ==
    /\ InSlice(t) /\ CurrentBody(t) = Leaf
    /\ CountRun(t)
    /\ Update(t, Advanced(t))
    /\ UNCHANGED <<pool, turn, queue, throwing, status, slices, latch, has_exception, failed>>

RunThrowing(t) ==
    /\ InSlice(t) /\ CurrentBody(t) = Leaf
    /\ <<Top(t).loop, Top(t).pos>> \in Throwing
    /\ CountRun(t)
    /\ Update(t, Advanced(t))
    /\ throwing' = throwing \cup {t}
    /\ failed' = failed \cup {<<Top(t).loop, Top(t).pos>>}
    /\ UNCHANGED <<pool, turn, queue, status, slices, latch, has_exception>>

RunNested(t) ==
    /\ InSlice(t) /\ CurrentBody(t) \in Loops
    /\ CountRun(t)
    /\ Enter(t, CurrentBody(t), <<Advanced(t)>> \o Tail(stack[t]))
    /\ UNCHANGED <<pool, turn, queue, throwing, has_exception, failed>>

SliceDone(t, kind) == /\ At(t, kind, "run")
                      /\ Top(t).pos > SliceLast(Top(t).loop, Top(t).slice)

\* The end of a queued task: remaining_tasks.count_down().
FinishTask(t) ==
    /\ SliceDone(t, "task")
    /\ latch' = [latch EXCEPT ![Top(t).loop] = @ - 1]
    /\ Pop(t)
    /\ UNCHANGED <<pool, turn, queue, throwing, status, slices, has_exception, runs, failed>>

FinishOwnSlice(t) ==
    /\ SliceDone(t, "loop")
    /\ Update(t, [Top(t) EXCEPT !.pc = IF t \in Workers THEN "wait" ELSE "try"])
    /\ UNCHANGED <<pool, turn, queue, throwing, status, slices, latch, has_exception, runs, failed>>

-----------------------------------------------------------------------------
\* Variant: a worker that waits for a nested loop does not help.
TakeTaskWhenIdle(w) ==
    /\ w \in live /\ ~Busy(w)
    /\ queue[w] # <<>>
    /\ Push(w, TaskFrame(Head(queue[w])))
    /\ queue' = [queue EXCEPT ![w] = Tail(@)]
    /\ UNCHANGED <<pool, turn, throwing, status, slices, latch, has_exception, runs, failed>>

\* A worker takes the next task of its queue: in worker_main when it is idle,
\* or on top of the frame in which it waits for a nested loop.
TakeTask(w) ==
    /\ w \in live
    /\ ~Busy(w) \/ At(w, "loop", "wait")
    /\ queue[w] # <<>>
    /\ Push(w, TaskFrame(Head(queue[w])))
    /\ queue' = [queue EXCEPT ![w] = Tail(@)]
    /\ UNCHANGED <<pool, turn, throwing, status, slices, latch, has_exception, runs, failed>>

\* The waiting worker found its queue empty and looks at the latch next.
StopHelping(w) ==
    /\ w \in live /\ At(w, "loop", "wait")
    /\ queue[w] = <<>>
    /\ Update(w, [Top(w) EXCEPT !.pc = "try"])
    /\ UNCHANGED <<pool, turn, queue, throwing, status, slices, latch, has_exception, runs, failed>>

\* try_wait() failed: a worker yields and goes back to its queue.
HelpAgain(w) ==
    /\ w \in live /\ At(w, "loop", "try")
    /\ latch[Top(w).loop] # 0
    /\ Update(w, [Top(w) EXCEPT !.pc = "wait"])
    /\ UNCHANGED <<pool, turn, queue, throwing, status, slices, latch, has_exception, runs, failed>>

\* Variant: execute_loop returns without waiting for its tasks.
ReturnEarly(t) ==
    /\ At(t, "loop", "try")
    /\ status' = [status EXCEPT ![Top(t).loop] = "done"]
    /\ Pop(t)
    /\ UNCHANGED <<pool, turn, queue, throwing, slices, latch, has_exception, runs, failed>>

\* The latch is open: execute_loop returns, or rethrows the first exception.
\* The stack under the frame of a client is empty: the exception leaves solve().
Return(t) ==
    /\ At(t, "loop", "try")
    /\ latch[Top(t).loop] = 0
    /\ LET l == Top(t).loop
       IN /\ status' = [status EXCEPT ![l] = IF has_exception[l] THEN "threw" ELSE "done"]
          /\ IF has_exception[l] /\ Len(stack[t]) > 1
             THEN /\ throwing' = throwing \cup {t}
                  /\ failed' = failed \cup {<<stack[t][2].loop, stack[t][2].pos - 1>>}
             ELSE UNCHANGED <<throwing, failed>>
    /\ Pop(t)
    /\ UNCHANGED <<pool, turn, queue, slices, latch, has_exception, runs>>

\* An exception reaches the innermost frame.  A task catches it (thread_guard,
\* then count_down); execute_loop does not guard the slice of its caller, so
\* its frame is destroyed and the exception goes on.
CatchInTask(t) ==
    /\ t \in throwing /\ Top(t).kind = "task"
    /\ has_exception' = [has_exception EXCEPT ![Top(t).loop] = TRUE]
    /\ latch' = [latch EXCEPT ![Top(t).loop] = @ - 1]
    /\ throwing' = throwing \ {t}
    /\ Pop(t)
    /\ UNCHANGED <<pool, turn, queue, status, slices, runs, failed>>

UnwindLoop(t) ==
    /\ t \in throwing /\ Top(t).kind = "loop"
    /\ status' = [status EXCEPT ![Top(t).loop] = "threw"]
    /\ IF Len(stack[t]) > 1
       THEN /\ failed' = failed \cup {<<stack[t][2].loop, stack[t][2].pos - 1>>}
            /\ UNCHANGED throwing
       ELSE throwing' = throwing \ {t} /\ UNCHANGED failed
    /\ Pop(t)
    /\ UNCHANGED <<pool, turn, queue, slices, latch, has_exception, runs>>

-----------------------------------------------------------------------------
\* worker_main returns when its queue is closed and empty.
ExitWorker(w) ==
    /\ w \in live /\ ~Busy(w)
    /\ closed[w] /\ queue[w] = <<>>
    /\ live' = live \ {w}
    /\ UNCHANGED <<size, turn, queue, closed, stack, throwing, status, slices, latch,
                   has_exception, runs, failed, program, resizing, resizes>>

\* reset_scheduler() at the start of a GA, possibly while another GA runs.
ResetScheduler(c) ==
    /\ ~Busy(c) /\ program[c] # <<>> /\ turn # 0
    /\ turn' = 0
    /\ UNCHANGED <<pool, queue, stack, throwing, status, slices, latch, has_exception, runs, failed>>

\* thread_count() may not be called while a loop runs, nor the destructor.
Quiescent == resizing = NotResizing /\ \A c \in Clients : ~Busy(c)

\* Variant: the last queue is left open.
CloseAllButLast == closed' = [w \in Workers |-> w < size]

CloseQueues == closed' = [w \in Workers |-> w <= size]

\* thread_count(count), where n is count - 1.
Resize(n) == /\ Quiescent
             /\ \E c \in Clients : program[c] # <<>>
             /\ resizes < MaxResizes
             /\ resizes' = resizes + 1
             /\ turn' = 0
             /\ \/ n = size /\ UNCHANGED <<closed, resizing>>
                \/ n # size /\ CloseQueues /\ resizing' = n
             /\ UNCHANGED <<size, queue, live, stack, throwing, status, slices, latch,
                            has_exception, runs, failed, program>>

\* The old workers have returned and were joined: workers_ is replaced.
Replace == /\ resizing # NotResizing /\ live = {}
           /\ size' = resizing /\ live' = 1 .. resizing
           /\ resizing' = NotResizing
           /\ closed' = [w \in Workers |-> FALSE]
           /\ queue' = [w \in Workers |-> <<>>]
           /\ UNCHANGED <<turn, stack, throwing, status, slices, latch, has_exception,
                          runs, failed, program, resizes>>

\* The destructor, when the program ends.
Destroy == /\ Quiescent
           /\ \A c \in Clients : program[c] = <<>>
           /\ \E w \in 1 .. size : ~closed[w]
           /\ CloseQueues
           /\ UNCHANGED <<size, turn, queue, live, stack, throwing, status, slices, latch,
                          has_exception, runs, failed, program, resizing, resizes>>

-----------------------------------------------------------------------------
Execute(t) ==
    \/ Submit(t) \/ StartOwnSlice(t)
    \/ RunLeaf(t) \/ RunThrowing(t) \/ RunNested(t)
    \/ FinishTask(t) \/ FinishOwnSlice(t)
    \/ Return(t) \/ CatchInTask(t) \/ UnwindLoop(t)

Worker(w) == Execute(w) \/ TakeTask(w) \/ StopHelping(w) \/ HelpAgain(w) \/ ExitWorker(w)
Client(c) == Execute(c) \/ CallLoop(c)

TpNext == \/ \E w \in Workers : Worker(w)
        \/ \E c \in Clients : Client(c) \/ ResetScheduler(c)
        \/ \E n \in 0 .. MaxWorkers : Resize(n)
        \/ Replace \/ Destroy

TpSpec == TpInit /\ [][TpNext]_tpVars

\* Every thread is scheduled by the operating system; the pool is destroyed at
\* the end of the program.  Resizing and resetting are never obliged to happen.
TpFairSpec == /\ TpSpec
            /\ \A w \in Workers : WF_tpVars(Worker(w))
            /\ \A c \in Clients : WF_tpVars(Client(c))
            /\ WF_tpVars(Replace) /\ WF_tpVars(Destroy)

-----------------------------------------------------------------------------
\* A slice of loop l is queued, or some thread is running one.
IsQueued(l) == \E w \in Workers : \E n \in DOMAIN queue[w] : queue[w][n].loop = l
IsRunning(l) == \E t \in Threads : \E n \in DOMAIN stack[t] :
                   stack[t][n].kind = "task" /\ stack[t][n].loop = l

\* A task uses the latch, the functor and the exception slot in the stack frame
\* of execute_loop: the frame must be there as long as the task is.
FrameOutlivesTasks ==
    \A l \in Loops : IsQueued(l) \/ IsRunning(l) => status[l] = "running"

\* execute_loop returns normally only when every iteration ran exactly once to
\* its end, and reports a failed iteration of any thread.
LoopIsComplete ==
    \A l \in Loops :
       /\ \A i \in 1 .. Iterations(l) : runs[l][i] <= 1
       /\ status[l] = "done" => /\ \A i \in 1 .. Iterations(l) : runs[l][i] = 1
                                /\ \A i \in 1 .. Iterations(l) : <<l, i>> \notin failed

\* Waiting for nested loops never deadlocks the pool, although a waiting thread
\* can be buried under unrelated tasks: every client gets through its program.
ClientsFinish == <>[](\A c \in Clients : ~Busy(c) /\ program[c] = <<>>)

\* stop() ends the workers, so that the destructor and thread_count() get to
\* join them.
WorkersExit == <>[](live = {})
=============================================================================
