--------------------------- MODULE SshDialersMgr ---------------------------
(***************************************************************************)
(* SSHDialersMgr of sshutil/sshmgr.go.  Init puts the dialers in the      *)
(* buffered channel sshDialers and starts StartServe, which loops:        *)
(* connIsValid = serverIsOK(); if not valid, close the current client and *)
(* connetToSSH(); then sleep 2 s (returning when the context is done).    *)
(* connetToSSH pops every dialer the channel holds, starting one          *)
(* goroutine per pop that runs newClient, sends the client (or nil) on    *)
(* the round's sshClients channel and pushes the dialer back; a collector *)
(* goroutine receives one result per pop, forwards the first client on    *)
(* the 1-slot sshClient channel and closes the others, or sends nil.      *)
(* connetToSSH selects on that channel, a 20 s timer and ctx.Done.        *)
(* The SOCKS5 proxy whose dials go through the current client, and which *)
(* clears connIsValid, is composed with this module in SshProxy.          *)
(* Clients are numbered; 0 is nil.  A round is one connetToSSH call.      *)
(***************************************************************************)
EXTENDS Integers, Sequences, FiniteSets

CONSTANTS
    Dialers,      \* the SSHDialers Init created (one per valid SSHConfig)
    MaxRounds,    \* bound on connetToSSH calls
    MaxClients,   \* bound on SSH clients newClient creates
    MaxPops,      \* bound on pops in one connetToSSH
    CanTimeout,   \* whether the 20 s timer may fire before the collector answers
    CanCancel     \* whether the manager's context is cancelled

Nil == 0
Empty == -1                      \* the sshClient channel holds nothing
Rounds == 1..MaxRounds
Clients == 1..MaxClients
ChanCap == Cardinality(Dialers)  \* cap(sds.sshDialers) = len(SSHList)

VARIABLES
    mgr,          \* StartServe: "check", "assign", "connect", "select", "sleep", "exited"
    ok,           \* the value serverIsOK is returning
    connIsValid,
    sshClient,    \* sds.sshClient
    pool,         \* the dialers in sds.sshDialers
    round,        \* the current (latest) connetToSSH call
    popped,       \* len(dialers) of the current call
    work,         \* per dialer: its goroutine "idle", "dial", "report", "return"
    wround,       \* per dialer: the round its goroutine belongs to
    wres,         \* per dialer: the client its newClient returned, or Nil
    results,      \* per round: the sshClients channel
    need,         \* per round: len(dialers), the results its collector counts to
    collecting,   \* rounds whose collector goroutine is running
    got,          \* per round: results the collector has received
    haveGet,      \* per round: the collector has forwarded a client
    out,          \* per round: the sshClient channel (Empty, Nil or a client)
    made,         \* clients created so far
    open,         \* clients created and not closed
    ctxDone

vars == <<mgr, ok, connIsValid, sshClient, pool, round, popped, work, wround,
          wres, results, need, collecting, got, haveGet, out, made, open, ctxDone>>

Init ==
    /\ mgr = "check"
    /\ ok = FALSE
    /\ connIsValid = FALSE
    /\ sshClient = Nil
    /\ pool = Dialers
    /\ round = 0
    /\ popped = 0
    /\ work = [d \in Dialers |-> "idle"]
    /\ wround = [d \in Dialers |-> 0]
    /\ wres = [d \in Dialers |-> Nil]
    /\ results = [r \in Rounds |-> <<>>]
    /\ need = [r \in Rounds |-> 0]
    /\ collecting = {}
    /\ got = [r \in Rounds |-> 0]
    /\ haveGet = [r \in Rounds |-> FALSE]
    /\ out = [r \in Rounds |-> Empty]
    /\ made = 0
    /\ open = {}
    /\ ctxDone = FALSE

WorkerVars == <<work, wround, wres>>
CollectorVars == <<results, need, collecting, got, haveGet, out>>

\* checkSSHState: a keepalive request on sds.sshClient; false for a nil
\* client, and a closed one cannot answer.
CheckSSHState(answered) == sshClient \in open /\ answered

\* serverIsOK: true while connIsValid; otherwise checkSSHState and, unless
\* the web test ran in the last 10 s, testGetWebs.  Both outcomes of the
\* remote checks are possible.
ServerIsOK ==
    /\ mgr = "check"
    /\ \E remoteOK \in BOOLEAN : ok' = (connIsValid \/ CheckSSHState(remoteOK))
    /\ mgr' = "assign"
    /\ UNCHANGED <<connIsValid, sshClient, pool, round, popped, WorkerVars,
                   CollectorVars, made, open, ctxDone>>

\* sds.connIsValid = sds.serverIsOK(); when not valid the current client
\* is closed (and left in sds.sshClient) and connetToSSH begins.
Assign ==
    /\ mgr = "assign"
    /\ connIsValid' = ok
    /\ IF ok
         THEN /\ mgr' = "sleep"
              /\ UNCHANGED <<open, round, popped>>
         ELSE /\ round < MaxRounds
              /\ open' = open \ {sshClient}
              /\ mgr' = "connect"
              /\ round' = round + 1
              /\ popped' = 0
    /\ UNCHANGED <<ok, sshClient, pool, WorkerVars, CollectorVars, made, ctxDone>>

\* popSSHDialer returned d: append it to dialers and start its goroutine.
\* A dialer its goroutine has already pushed back may be popped again.
Pop(d) ==
    /\ mgr = "connect"
    /\ d \in pool
    /\ popped < MaxPops
    /\ pool' = pool \ {d}
    /\ popped' = popped + 1
    /\ work' = [work EXCEPT ![d] = "dial"]
    /\ wround' = [wround EXCEPT ![d] = round]
    /\ UNCHANGED <<mgr, ok, connIsValid, sshClient, round, wres, CollectorVars,
                   made, open, ctxDone>>

\* popSSHDialer found the channel empty: break, start the collector for
\* len(dialers) results and enter the select.
PopEmpty ==
    /\ mgr = "connect"
    /\ pool = {}
    /\ need' = [need EXCEPT ![round] = popped]
    /\ collecting' = collecting \cup {round}
    /\ mgr' = "select"
    /\ UNCHANGED <<ok, connIsValid, sshClient, pool, round, popped, WorkerVars,
                   results, got, haveGet, out, made, open, ctxDone>>

\* d.newClient(): a new client, or nil when the dial fails or the dialer
\* is still backing off after an earlier failure.
NewClient(d) ==
    /\ work[d] = "dial"
    /\ \/ /\ made < MaxClients
          /\ made' = made + 1
          /\ open' = open \cup {made + 1}
          /\ wres' = [wres EXCEPT ![d] = made + 1]
       \/ /\ wres' = [wres EXCEPT ![d] = Nil]
          /\ UNCHANGED <<made, open>>
    /\ work' = [work EXCEPT ![d] = "report"]
    /\ UNCHANGED <<mgr, ok, connIsValid, sshClient, pool, round, popped, wround,
                   CollectorVars, ctxDone>>

\* sshClients <- client (or nil): blocks while the round's channel is full.
Report(d) ==
    LET r == wround[d] IN
    /\ work[d] = "report"
    /\ Len(results[r]) < ChanCap
    /\ results' = [results EXCEPT ![r] = Append(@, wres[d])]
    /\ work' = [work EXCEPT ![d] = "return"]
    /\ UNCHANGED <<mgr, ok, connIsValid, sshClient, pool, round, popped, wround,
                   wres, need, collecting, got, haveGet, out, made, open, ctxDone>>

\* sds.sshDialers <- d: never blocks, the dialer's slot is free.
Return(d) ==
    /\ work[d] = "return"
    /\ pool' = pool \cup {d}
    /\ work' = [work EXCEPT ![d] = "idle"]
    /\ UNCHANGED <<mgr, ok, connIsValid, sshClient, round, popped, wround, wres,
                   CollectorVars, made, open, ctxDone>>

\* The collector: client := <-sshClients; the first client is sent on the
\* 1-slot sshClient channel, every later one is closed.
Collect(r) ==
    /\ r \in collecting
    /\ got[r] < need[r]
    /\ results[r] # <<>>
    /\ LET c == Head(results[r]) IN
       /\ results' = [results EXCEPT ![r] = Tail(@)]
       /\ got' = [got EXCEPT ![r] = @ + 1]
       /\ IF c = Nil
            THEN UNCHANGED <<haveGet, out, open>>
            ELSE IF ~haveGet[r]
                   THEN /\ out' = [out EXCEPT ![r] = c]
                        /\ haveGet' = [haveGet EXCEPT ![r] = TRUE]
                        /\ UNCHANGED open
                   ELSE /\ open' = open \ {c}
                        /\ UNCHANGED <<haveGet, out>>
    /\ UNCHANGED <<mgr, ok, connIsValid, sshClient, pool, round, popped,
                   WorkerVars, need, collecting, made, ctxDone>>

\* Mutant: the collector ends without sending nil when no client came.
CollectEndNoNil(r) ==
    /\ r \in collecting
    /\ got[r] = need[r]
    /\ collecting' = collecting \ {r}
    /\ UNCHANGED <<mgr, ok, connIsValid, sshClient, pool, round, popped,
                   WorkerVars, results, need, got, haveGet, out, made, open, ctxDone>>

\* After len(dialers) results: if no client was forwarded, sshClient <- nil.
CollectEnd(r) ==
    /\ r \in collecting
    /\ got[r] = need[r]
    /\ collecting' = collecting \ {r}
    /\ out' = IF haveGet[r] THEN out ELSE [out EXCEPT ![r] = Nil]
    /\ UNCHANGED <<mgr, ok, connIsValid, sshClient, pool, round, popped,
                   WorkerVars, results, need, got, haveGet, made, open, ctxDone>>

\* case client := <-sshClient: return client, false; StartServe stores it.
Receive ==
    /\ mgr = "select"
    /\ out[round] # Empty
    /\ sshClient' = out[round]
    /\ out' = [out EXCEPT ![round] = Empty]
    /\ mgr' = "sleep"
    /\ UNCHANGED <<ok, connIsValid, pool, round, popped, WorkerVars, results,
                   need, collecting, got, haveGet, made, open, ctxDone>>

\* case <-time.After(20 s): return nil, false; StartServe stores nil.  The
\* round's goroutines go on without a receiver for their answer.
Timeout ==
    /\ CanTimeout
    /\ mgr = "select"
    /\ sshClient' = Nil
    /\ mgr' = "sleep"
    /\ UNCHANGED <<ok, connIsValid, pool, round, popped, WorkerVars,
                   CollectorVars, made, open, ctxDone>>

\* case <-sds.ctx.Done(): return nil, true; StartServe returns.
SelectCancel ==
    /\ mgr = "select"
    /\ ctxDone
    /\ mgr' = "exited"
    /\ UNCHANGED <<ok, connIsValid, sshClient, pool, round, popped, WorkerVars,
                   CollectorVars, made, open, ctxDone>>

\* common.Sleep(sds.ctx, 2 s): true after the sleep, false once the
\* context is done, and StartServe returns.
Wake ==
    /\ mgr = "sleep"
    /\ ~ctxDone
    /\ mgr' = "check"
    /\ UNCHANGED <<ok, connIsValid, sshClient, pool, round, popped, WorkerVars,
                   CollectorVars, made, open, ctxDone>>

SleepCancel ==
    /\ mgr = "sleep"
    /\ ctxDone
    /\ mgr' = "exited"
    /\ UNCHANGED <<ok, connIsValid, sshClient, pool, round, popped, WorkerVars,
                   CollectorVars, made, open, ctxDone>>

Cancel ==
    /\ CanCancel
    /\ ~ctxDone
    /\ ctxDone' = TRUE
    /\ UNCHANGED <<mgr, ok, connIsValid, sshClient, pool, round, popped,
                   WorkerVars, CollectorVars, made, open>>

Next ==
    \/ ServerIsOK \/ Assign \/ PopEmpty \/ Receive \/ Timeout \/ SelectCancel
    \/ Wake \/ SleepCancel \/ Cancel
    \/ \E d \in Dialers : Pop(d) \/ NewClient(d) \/ Report(d) \/ Return(d)
    \/ \E r \in Rounds : Collect(r) \/ CollectEnd(r)

Spec == Init /\ [][Next]_vars

-----------------------------------------------------------------------------
(* Properties *)

\* A client some goroutine still carries towards StartServe: a dial
\* goroutine about to send it, or queued in a round's sshClients channel.
InFlight(c) ==
    \/ \E d \in Dialers : work[d] = "report" /\ wres[d] = c
    \/ \E r \in Rounds : \E i \in 1..Len(results[r]) : results[r][i] = c

\* Every SSH client connetToSSH's goroutines open is, while the manager
\* runs, either its current client, on its way to the collector, or in
\* the sshClient channel of the call that is waiting for it: the collector
\* closes the surplus ones, so none stays open unreachable.
NoLeakedClient ==
    ~ctxDone =>
        \A c \in open :
            \/ c = sshClient
            \/ InFlight(c)
            \/ mgr = "select" /\ out[round] = c

=============================================================================
