----------------------------- MODULE TaskQueue -----------------------------
(***************************************************************************)
(* The in-process queue of shared/task_queue.py: tasks wait in a queue, a  *)
(* single worker runs them one after the other and keeps their results,    *)
(* which a client reads once.  All of it is in memory.                     *)
(*                                                                         *)
(* What a task does is up to the module that extends this one.             *)
(***************************************************************************)
EXTENDS Naturals, Sequences, FiniteSets, SequencesExt

CONSTANTS
    Tasks,
    MaxResults,  \* _MAX_RESULTS
    None

ASSUME TaskQueueAssumption ==
    /\ IsFiniteSet(Tasks)
    /\ MaxResults \in Nat \ {0}
    /\ None \notin Tasks

VARIABLES
    queue,    \* _queue: tasks that wait
    current,  \* the task the worker runs, if any
    results   \* _results: the tasks whose result is kept, oldest first

taskQueue == <<queue, current, results>>

QueueTypeOK ==
    /\ queue \in Seq(Tasks)
    /\ current \in Tasks \cup {None}
    /\ results \in Seq(Tasks)

QueueInit == queue = << >> /\ current = None /\ results = << >>

Waiting == ToSet(queue)
Kept == ToSet(results)

-----------------------------------------------------------------------------
\* POST /run-sync-async: the answer is the id of the task.
Enqueue(t) ==
    /\ t \notin Waiting
    /\ queue' = Append(queue, t)
    /\ UNCHANGED <<current, results>>

\* The worker takes the next task.
Begin ==
    /\ current = None
    /\ queue # << >>
    /\ current' = Head(queue)
    /\ queue' = Tail(queue)
    /\ UNCHANGED results

\* Mutant: the newest result makes room, not the oldest.
TrimmedNewest(kept) == IF Len(kept) > MaxResults THEN Front(kept) ELSE kept

\* One result, the oldest, makes room for another.
Trimmed(kept) == IF Len(kept) > MaxResults THEN Tail(kept) ELSE kept

Succeed(t) ==
    /\ current = t
    /\ current' = None
    /\ results' = Trimmed(Append(results, t))
    /\ UNCHANGED queue

\* Mutant: what the task raises ends the worker, too.
BreakWorker(t) ==
    /\ current = t
    /\ results' = Append(results, t)
    /\ UNCHANGED <<queue, current>>

\* The task has raised or overrun its 120 seconds; no result makes room for the error.
Break(t) ==
    /\ current = t
    /\ current' = None
    /\ results' = Append(results, t)
    /\ UNCHANGED queue

\* GET /tasks/{task_id}: the result is given once; a task without one, for whatever
\* reason, is answered with 404 and changes nothing.
Poll(t) ==
    /\ \E i \in 1..Len(results) : results[i] = t /\ results' = RemoveAt(results, i)
    /\ UNCHANGED <<queue, current>>

\* stop() cancels the worker, which stores nothing, and the process goes.
Vanish == queue' = << >> /\ current' = None /\ results' = << >>

-----------------------------------------------------------------------------
\* What a step may do with the task under way and with the results that are kept.
KeepsResults ==
    \/ Vanish
    \/ /\ current \in {None, current'} \cup Kept'
       /\ \A i \in 1..Len(results) :
              \/ results[i] \in Kept'
              \/ Poll(results[i])
              \/ /\ Len(results') >= MaxResults
                 /\ \A j \in 1..i : results[j] \notin Kept'

\* No task ends without a result, and no result goes without a reason: a client reads
\* it, a restart loses it, or as many newer ones are kept as the store holds
\* (_MAX_RESULTS).
ResultKept == [][KeepsResults]_taskQueue
=============================================================================
