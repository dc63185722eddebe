--------------------------- MODULE UdpContextMap ---------------------------
(***************************************************************************)
(* GetUdpNetContext (netserve/context.go) on top of the tunnel executor   *)
(* (common/tunneltask.go).  Each UDP listener loop, for every datagram,  *)
(* builds the conn (newUdpConn -> newConn) and so looks up the peer's     *)
(* NetContext: it wraps the lookup in a TunnelTask, sends it on           *)
(* gTunnelTasks (capacity 1) and blocks on the task's execOver channel.   *)
(* The single RunTunnelTasks goroutine receives a task, runs it (Get on   *)
(* the go-cache map, NewNetContext and Set with the default 5-minute      *)
(* expiration when absent or expired) and signals execOver from a defer.  *)
(* Time is counted in ticks; TTL is the default expiration in ticks.      *)
(***************************************************************************)
EXTENDS Naturals, Sequences

CONSTANTS Peers, Callers, Ctxs, NoCtx, TTL, MaxClock,
          TaskCap,     \* cap(gTunnelTasks)
          NoCaller     \* no task in execution

VARIABLES
    clock,     \* time.Now(), in ticks
    cache,     \* gUdpNetContext: peer -> [ctx, exp]
    pc,        \* per caller: a udpserve.Serve loop
    peer,      \* the peer address it looks up
    got,       \* the *NetContext GetUdpNetContext returned to it
    tasks,     \* gTunnelTasks: the queued TunnelTasks, by caller
    running,   \* the task the tunnel goroutine is executing, or NoCaller
    execOver,  \* callers whose execOver channel holds the signal
    lastSeen   \* per peer: the tick of its latest lookup

vars == <<clock, cache, pc, peer, got, tasks, running, execOver, lastSeen>>

Abs == INSTANCE UdpContextMapAbs
        WITH pc <- [c \in Callers |->
                      CASE pc[c] = "idle" -> "idle"
                        [] pc[c] = "wait" /\ c \in execOver -> "done"
                        [] pc[c] = "use" -> "done"
                        [] OTHER -> "calling"]

Init ==
    /\ clock = 0
    /\ cache = [p \in Peers |-> [ctx |-> NoCtx, exp |-> 0]]
    /\ pc = [c \in Callers |-> "idle"]
    /\ peer = [c \in Callers |-> CHOOSE p \in Peers : TRUE]
    /\ got = [c \in Callers |-> NoCtx]
    /\ tasks = <<>>
    /\ running = NoCaller
    /\ execOver = {}
    /\ lastSeen = [p \in Peers |-> 0]

\* A datagram arrived: newConn calls GetUdpNetContext(peerAddr).
Call(c, p) ==
    /\ pc[c] = "idle"
    /\ pc' = [pc EXCEPT ![c] = "send"]
    /\ peer' = [peer EXCEPT ![c] = p]
    /\ UNCHANGED <<clock, cache, got, tasks, running, execOver, lastSeen>>

\* TunnelExec: tasks <- tunnelTask blocks while the buffer is full.
TunnelSend(c) ==
    /\ pc[c] = "send"
    /\ Len(tasks) < TaskCap
    /\ tasks' = Append(tasks, c)
    /\ pc' = [pc EXCEPT ![c] = "wait"]
    /\ UNCHANGED <<clock, cache, peer, got, running, execOver, lastSeen>>

\* RunTunnelTasks: tunnelTask := <-tasks.
TunnelTake ==
    /\ running = NoCaller
    /\ tasks # <<>>
    /\ running' = Head(tasks)
    /\ tasks' = Tail(tasks)
    /\ UNCHANGED <<clock, cache, pc, peer, got, execOver, lastSeen>>

\* Mutant: a map entry is reused only while strictly before its expiry.
LookupStrict(p) ==
    cache[p].ctx # NoCtx /\ clock < cache[p].exp

\* gUdpNetContext.Get(peerAddr): ok while the item has not expired.
Lookup(p) == Abs!Live(p)

\* tunnelTask.task() -- the closure of GetUdpNetContext -- followed by the
\* deferred tunnelTask.execOver <- true (execOver has capacity 1).
RunTask ==
    LET c == running
        p == peer[c]
    IN  /\ running # NoCaller
        /\ IF Lookup(p)
             THEN /\ got' = [got EXCEPT ![c] = cache[p].ctx]
                  /\ UNCHANGED cache
             ELSE /\ got' = [got EXCEPT ![c] = Abs!Fresh]
                  /\ cache' = [cache EXCEPT ![p] = [ctx |-> Abs!Fresh,
                                                     exp |-> clock + TTL]]
        /\ execOver' = execOver \cup {c}
        /\ running' = NoCaller
        /\ lastSeen' = [lastSeen EXCEPT ![p] = clock]
        /\ UNCHANGED <<clock, pc, peer, tasks>>

\* TunnelExec: <-tunnelTask.execOver, then GetUdpNetContext returns ctx.
TunnelReturn(c) ==
    /\ pc[c] = "wait"
    /\ c \in execOver
    /\ execOver' = execOver \ {c}
    /\ pc' = [pc EXCEPT ![c] = "use"]
    /\ UNCHANGED <<clock, cache, peer, got, tasks, running, lastSeen>>

\* go c.HandleRequest() hands the context to the request goroutine and the
\* loop goes back to ReadFromUDP.
Release(c) ==
    /\ pc[c] = "use"
    /\ pc' = [pc EXCEPT ![c] = "idle"]
    /\ got' = [got EXCEPT ![c] = NoCtx]
    /\ UNCHANGED <<clock, cache, peer, tasks, running, execOver, lastSeen>>

Tick ==
    /\ clock < MaxClock
    /\ clock' = clock + 1
    /\ UNCHANGED <<cache, pc, peer, got, tasks, running, execOver, lastSeen>>

Next ==
    \/ Tick \/ TunnelTake \/ RunTask
    \/ \E c \in Callers :
          \/ \E p \in Peers : Call(c, p)
          \/ TunnelSend(c) \/ TunnelReturn(c) \/ Release(c)

\* The tunnel goroutine and every listener loop are scheduled; a sender blocked
\* on the full gTunnelTasks is queued by the channel and served when a
\* slot frees, which only strong fairness expresses.
Fairness ==
    /\ WF_vars(TunnelTake) /\ WF_vars(RunTask)
    /\ \A c \in Callers : SF_vars(TunnelSend(c)) /\ WF_vars(TunnelReturn(c))

Spec == Init /\ [][Next]_vars
FairSpec == Spec /\ Fairness

-----------------------------------------------------------------------------
(* Properties *)

\* GetUdpNetContext behaves as one atomic lookup-or-create on the expiring
\* map, and every call returns: the tunnel executor serialises the Get and
\* Set of concurrent listener loops and always releases the caller.
ImplementsAbstractMap == Abs!AbsSpec

\* A peer that keeps sending keeps its session: its context is replaced
\* only after more than TTL without a lookup (spec 9: entries expire after
\* 5 minutes of inactivity).
SessionKeptWhileActive ==
    [][\A p \in Peers :
          (cache[p].ctx # NoCtx /\ cache'[p].ctx # cache[p].ctx)
             => clock > lastSeen[p] + TTL]_vars
=============================================================================
