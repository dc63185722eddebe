---------------------------- MODULE SyncAction ----------------------------
(***************************************************************************)
(* common/syncaction.go.  StartNewSyncAction makes a task channel of      *)
(* capacity taskBufSize and starts serve, which loops on a select between *)
(* receiving a task (and running it) and ctx.Done (and returning).         *)
(* RunTask wraps the task so that it closes a private wt channel when it  *)
(* has run, sends the wrapper on the task channel -- a plain send, not in *)
(* a select -- and then selects between wt and ctx.Done.  Each caller     *)
(* goroutine calls RunTask once.  A task that panics closes its wt (the   *)
(* wrapper's deferred close) and unwinds to serve's deferred recover,     *)
(* which is outside the loop: serve ends.                                  *)
(***************************************************************************)
EXTENDS Naturals, Sequences

CONSTANTS
    Callers,      \* goroutines calling RunTask
    BufSize,      \* taskBufSize
    CanCancel,    \* whether the context given to StartNewSyncAction is cancelled
    CanPanic      \* whether a task may panic

VARIABLES
    actionTasks,  \* the buffered channel, by the caller whose task it is
    srv,          \* serve: "loop", "exec" (running a task) or "exited"
    current,      \* the caller whose task serve is running
    pc,           \* per caller: "idle", "send", "wait", "done"
    wt,           \* callers whose wt channel is closed
    ctxDone,
    ran,          \* callers whose task has run
    lateRun       \* callers whose task ran after their RunTask returned

vars == <<actionTasks, srv, current, pc, wt, ctxDone, ran, lateRun>>

Init ==
    /\ actionTasks = <<>>
    /\ srv = "loop"
    /\ current = CHOOSE c \in Callers : TRUE
    /\ pc = [c \in Callers |-> "idle"]
    /\ wt = {}
    /\ ctxDone = FALSE
    /\ ran = {}
    /\ lateRun = {}

\* RunTask entry: wt := make(chan struct{}) and the wrapper is built.
RunTask(c) ==
    /\ pc[c] = "idle"
    /\ pc' = [pc EXCEPT ![c] = "send"]
    /\ UNCHANGED <<actionTasks, srv, current, wt, ctxDone, ran, lateRun>>

\* sa.actionTasks <- wrapper: blocks while the channel is full, whatever
\* the context says.
SendTask(c) ==
    /\ pc[c] = "send"
    /\ Len(actionTasks) < BufSize
    /\ actionTasks' = Append(actionTasks, c)
    /\ pc' = [pc EXCEPT ![c] = "wait"]
    /\ UNCHANGED <<srv, current, wt, ctxDone, ran, lateRun>>

\* select { case <-wt: case <-sa.ctx.Done(): }
Await(c) ==
    /\ pc[c] = "wait"
    /\ c \in wt \/ ctxDone
    /\ pc' = [pc EXCEPT ![c] = "done"]
    /\ UNCHANGED <<actionTasks, srv, current, wt, ctxDone, ran, lateRun>>

\* serve: case task := <-sa.actionTasks.  Go picks among ready cases at
\* random, so a task may be taken after the context is done.
ServeTake ==
    /\ srv = "loop"
    /\ actionTasks # <<>>
    /\ current' = Head(actionTasks)
    /\ actionTasks' = Tail(actionTasks)
    /\ srv' = "exec"
    /\ UNCHANGED <<pc, wt, ctxDone, ran, lateRun>>

\* task.Execute(), then the deferred close(wt).
Execute ==
    /\ srv = "exec"
    /\ ran' = ran \cup {current}
    /\ lateRun' = IF pc[current] = "done" THEN lateRun \cup {current} ELSE lateRun
    /\ wt' = wt \cup {current}
    /\ srv' = "loop"
    /\ UNCHANGED <<actionTasks, current, pc, ctxDone>>

\* task.Execute() panics: the deferred close(wt) runs, then serve's
\* deferred recover logs the panic and serve returns.
ExecutePanic ==
    /\ CanPanic
    /\ srv = "exec"
    /\ ran' = ran \cup {current}
    /\ lateRun' = IF pc[current] = "done" THEN lateRun \cup {current} ELSE lateRun
    /\ wt' = wt \cup {current}
    /\ srv' = "exited"
    /\ UNCHANGED <<actionTasks, current, pc, ctxDone>>

\* serve: case <-sa.ctx.Done(): return.
ServeExit ==
    /\ srv = "loop"
    /\ ctxDone
    /\ srv' = "exited"
    /\ UNCHANGED <<actionTasks, current, pc, wt, ctxDone, ran, lateRun>>

Cancel ==
    /\ CanCancel
    /\ ~ctxDone
    /\ ctxDone' = TRUE
    /\ UNCHANGED <<actionTasks, srv, current, pc, wt, ran, lateRun>>

Next ==
    \/ ServeTake \/ Execute \/ ExecutePanic \/ ServeExit \/ Cancel
    \/ \E c \in Callers : RunTask(c) \/ SendTask(c) \/ Await(c)

\* serve and every caller are scheduled (a task, once taken, ends, by
\* returning or by panicking); a sender blocked on the full
\* channel is queued and gets a slot when one frees (strong fairness).
Fairness ==
    /\ WF_vars(ServeTake) /\ WF_vars(Execute \/ ExecutePanic) /\ WF_vars(ServeExit)
    /\ \A c \in Callers : SF_vars(SendTask(c)) /\ WF_vars(Await(c))

Spec == Init /\ [][Next]_vars
FairSpec == Spec /\ Fairness

-----------------------------------------------------------------------------
(* Properties *)

\* No task runs after the RunTask that submitted it has returned, so the
\* caller never races with its own task.
NoLateExecution == lateRun = {}

\* A RunTask whose task has been queued returns, even when serve ends
\* (on ctx.Done, or on another task's panic) and leaves the task in the
\* channel unrun.
WaitReturns == \A c \in Callers : pc[c] = "wait" ~> pc[c] = "done"

\* Every RunTask call returns: its send gets a slot in the channel and
\* its wait ends.
RunTaskReturns == \A c \in Callers : pc[c] = "send" ~> pc[c] = "done"
=============================================================================
