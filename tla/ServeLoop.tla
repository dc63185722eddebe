----------------------------- MODULE ServeLoop -----------------------------
(***************************************************************************)
(* One ServeGroup (netserve/servegroup.go) and the accept/read loops it   *)
(* spawns (netserve/netserve.go).  Serve runs in its own goroutine: it    *)
(* clears the terminate flag, binds one listener per element of the       *)
(* net-type x ip x port cross-product (a bind error panics and is         *)
(* recovered by Serve), then spawns one loop per listener.  A loop blocks *)
(* in Accept / ReadFromUDP; on a connection or datagram it spawns a       *)
(* handler goroutine and only then tests terminate.  Accept errors, read *)
(* timeouts and empty datagrams `continue` without testing it: they are  *)
(* stuttering steps here.  The context passed to Serve is never read by  *)
(* the loops.  ServeGroup.Stop, the only writer of terminate = true, is   *)
(* not a step: ListenAndServeServeGroups keeps each group in a local and  *)
(* nothing in the repository calls Stop, so terminate stays false.       *)
(***************************************************************************)
EXTENDS Naturals, Sequences, FiniteSets

CONSTANTS
    Listeners,      \* one per element of NetType x ListenIP x Port
    ListenOrder,    \* the order the nested loops of Serve create them in
    Udp,            \* the listeners whose net type is not "tcp"
    MaxConns        \* bound on connections accepted per listener

ASSUME /\ ListenOrder \in Seq(Listeners)
       /\ Udp \subseteq Listeners
       /\ MaxConns \in Nat \ {0}

VARIABLES
    terminate,   \* ServeGroup.terminate
    phase,       \* the Serve goroutine: "idle", "build", "running", "failed"
    next,        \* index in ListenOrder of the next listener to bind
    lst,         \* per listener: "none", "bound", "accept", "check", "closed"
    spawned,     \* handler goroutines spawned per listener
    ctxDone      \* the context given to Serve has been cancelled

vars == <<terminate, phase, next, lst, spawned, ctxDone>>

Init ==
    /\ terminate = FALSE
    /\ phase = "idle"
    /\ next = 1
    /\ lst = [l \in Listeners |-> "none"]
    /\ spawned = [l \in Listeners |-> 0]
    /\ ctxDone = FALSE

LoopVars == <<spawned, ctxDone>>

\* ServeGroup.Serve, first statement: sg.terminate = false.
Serve ==
    /\ phase = "idle"
    /\ terminate' = FALSE
    /\ phase' = "build"
    /\ UNCHANGED <<next, lst, LoopVars>>

\* tcpserve.Listen / udpserve.Listen: net.Listen either binds, or fails
\* and common.CheckError panics out of Serve; the listeners bound so far
\* are neither served nor closed.
Listen(l) ==
    \/ /\ lst' = [lst EXCEPT ![l] = "bound"]
       /\ next' = next + 1
       /\ UNCHANGED phase
    \/ /\ phase' = "failed"
       /\ UNCHANGED <<lst, next>>

TcpListen(l) == l \notin Udp /\ Listen(l)

UdpListen(l) == l \in Udp /\ Listen(l)

\* newNetServe picks the server type by strings.Contains(nettype, "tcp").
NewNetServe(l) == TcpListen(l) \/ UdpListen(l)

\* The nested loops of Serve over NetType x ListenIP x Port.
Bind ==
    /\ phase = "build"
    /\ next <= Len(ListenOrder)
    /\ NewNetServe(ListenOrder[next])
    /\ UNCHANGED <<terminate, LoopVars>>

\* for _, l := range serves { go l.Serve(ctx) }
StartAll ==
    /\ phase = "build"
    /\ next > Len(ListenOrder)
    /\ phase' = "running"
    /\ lst' = [l \in Listeners |-> IF lst[l] = "bound" THEN "accept" ELSE lst[l]]
    /\ UNCHANGED <<terminate, next, LoopVars>>

\* Accept (or a non-empty ReadFromUDP) returns: wrap the connection and
\* `go c.HandleRequest()`.
SpawnHandler(l) ==
    /\ lst[l] = "accept"
    /\ spawned[l] < MaxConns
    /\ spawned' = [spawned EXCEPT ![l] = @ + 1]
    /\ lst' = [lst EXCEPT ![l] = "check"]
    /\ UNCHANGED <<terminate, phase, next, ctxDone>>

TcpAccept(l) == l \notin Udp /\ SpawnHandler(l)

UdpRead(l) == l \in Udp /\ SpawnHandler(l)

\* if s.terminate { break }; the deferred Close runs on the way out.
Check(l) ==
    /\ lst[l] = "check"
    /\ lst' = [lst EXCEPT ![l] = IF terminate THEN "closed" ELSE "accept"]
    /\ UNCHANGED <<terminate, phase, next, LoopVars>>

\* The caller cancels the context passed to Serve.
Cancel ==
    /\ ~ctxDone
    /\ ctxDone' = TRUE
    /\ UNCHANGED <<terminate, phase, next, lst, spawned>>

Next ==
    \/ Serve \/ Bind \/ StartAll \/ Cancel
    \/ \E l \in Listeners : TcpAccept(l) \/ UdpRead(l) \/ Check(l)

Spec == Init /\ [][Next]_vars

\* The loops' own steps are scheduled; connections arriving are not owed.
FairSpec ==
    /\ Spec
    /\ WF_vars(Serve) /\ WF_vars(Bind) /\ WF_vars(StartAll)
    /\ \A l \in Listeners : WF_vars(Check(l))

-----------------------------------------------------------------------------
(* Properties *)

\* Every listener Serve has bound is served by a loop or closed once
\* Serve has finished with the cross-product, whether or not a later bind
\* failed (spec 6: bind-time errors are fatal at startup, so no listener
\* is left bound and unserved).
BoundListenersServed ==
    phase \in {"running", "failed"} => \A l \in Listeners : lst[l] # "bound"

\* Cancelling the context given to Serve ends every accept/read loop
\* (spec 5: server loops observe the top-level context at accept/read
\* boundaries).
CancelStopsListeners ==
    ctxDone ~> \A l \in Listeners : lst[l] \in {"none", "closed"}
=============================================================================
