------------------------------ MODULE SshProxy ------------------------------
(***************************************************************************)
(* SSHDialersMgr.StartProxy (sshutil/sshmgr.go) with the Socks5Proxy of  *)
(* sshutil/socks5proxy.go it starts, composed with the manager of         *)
(* SshDialersMgr.  The proxy's dialer is GetDialFunc's closure: for each  *)
(* SOCKS5 connection it tests sds.sshClient, reads it again to call       *)
(* SSHClient.Dial (sshclient.go: up to 5 attempts with sleeps between     *)
(* them) and, when the dial fails, sets sds.connIsValid = false, the flag *)
(* StartServe itself reads and writes.  The closure's goroutines and      *)
(* StartServe share sshClient and connIsValid without a lock.  A panic    *)
(* in a ServeConn goroutine is not recovered: it ends the process.         *)
(***************************************************************************)
EXTENDS SshDialersMgr

CONSTANTS
    Conns,         \* SOCKS5 connections the proxy serves (reused once served)
    DialRetries    \* SSHClient.Dial's attempts: 5 in the code

VARIABLES
    proxy,     \* "none", "start" (Start has spawned ListenAndServe), "serve", "exited"
    cpc,       \* per connection: "idle", "check", "load", "dial"
    checked,   \* per connection: the sds.sshClient the closure tested
    cclient,   \* per connection: the client SSHClient.Dial runs on
    tries,     \* per connection: failed Dial attempts
    crashed    \* a goroutine panicked: the process is gone

proxyVars == <<proxy, cpc, checked, cclient, tries, crashed>>
allVars == <<vars, proxyVars>>

\* The manager's variables the proxy does not write.
mgrRest == <<mgr, ok, sshClient, pool, round, popped, WorkerVars,
             CollectorVars, made, open, ctxDone>>

ProxyInit ==
    /\ proxy = "none"
    /\ cpc = [k \in Conns |-> "idle"]
    /\ checked = [k \in Conns |-> Nil]
    /\ cclient = [k \in Conns |-> Nil]
    /\ tries = [k \in Conns |-> 0]
    /\ crashed = FALSE

\* StartProxy: NewSock5Proxy(..., sds.GetDialFunc()), Start (openPort when
\* no port is configured, then go ListenAndServe), Addr and the SOCKS5
\* test dialer.  Called once by the user of the manager.
StartProxy ==
    /\ proxy = "none"
    /\ proxy' = "start"
    /\ UNCHANGED <<vars, cpc, checked, cclient, tries, crashed>>

\* ListenAndServe: net.Listen, and on an error the goroutine logs it and ends.
Listen ==
    /\ proxy = "start"
    /\ proxy' \in {"serve", "exited"}
    /\ UNCHANGED <<vars, cpc, checked, cclient, tries, crashed>>

\* l.Accept() returned a connection: go server.ServeConn(conn), whose
\* CONNECT request calls the dial closure.
Accept(k) ==
    /\ proxy = "serve"
    /\ cpc[k] = "idle"
    /\ cpc' = [cpc EXCEPT ![k] = "check"]
    /\ UNCHANGED <<vars, proxy, checked, cclient, tries, crashed>>

\* Accept failed: terminated is empty (nothing calls Stop), and
\* common.Sleep returns false once the context is done.
AcceptExit ==
    /\ proxy = "serve"
    /\ ctxDone
    /\ proxy' = "exited"
    /\ UNCHANGED <<vars, cpc, checked, cclient, tries, crashed>>

\* if sds.sshClient != nil { ... }; a nil client fails the dial with
\* "not found valid ssh client" and leaves connIsValid alone.
CheckClient(k) ==
    /\ cpc[k] = "check"
    /\ checked' = [checked EXCEPT ![k] = sshClient]
    /\ cpc' = [cpc EXCEPT ![k] = IF sshClient = Nil THEN "idle" ELSE "load"]
    /\ UNCHANGED <<vars, proxy, cclient, tries, crashed>>

\* sds.sshClient.Dial(...): the field is read again, racing StartServe's
\* sds.sshClient = sshClient.  The race lets the build use the value it
\* tested or the one stored since; Dial on a nil *SSHClient panics.
LoadClient(k) ==
    /\ cpc[k] = "load"
    /\ \E c \in {checked[k], sshClient} :
          IF c = Nil
            THEN /\ crashed' = TRUE
                 /\ UNCHANGED <<cpc, cclient>>
            ELSE /\ cclient' = [cclient EXCEPT ![k] = c]
                 /\ cpc' = [cpc EXCEPT ![k] = "dial"]
                 /\ UNCHANGED crashed
    /\ tries' = [tries EXCEPT ![k] = 0]
    /\ UNCHANGED <<vars, proxy, checked>>

\* Mutant: the retry counter is never advanced.
DialAttemptNoCount(k) ==
    /\ cpc[k] = "dial"
    /\ \/ /\ cclient[k] \in open
          /\ cpc' = [cpc EXCEPT ![k] = "idle"]
          /\ UNCHANGED <<connIsValid, tries>>
       \/ /\ tries[k] + 1 < DialRetries
          /\ UNCHANGED <<cpc, connIsValid, tries>>
       \/ /\ tries[k] + 1 = DialRetries
          /\ connIsValid' = FALSE
          /\ cpc' = [cpc EXCEPT ![k] = "idle"]
          /\ UNCHANGED tries
    /\ UNCHANGED <<mgrRest, proxy, checked, cclient, crashed>>

\* One attempt of SSHClient.Dial: it can succeed only on an open client;
\* after a failure it sleeps and retries, and after the last one the
\* closure sets sds.connIsValid = false.
DialAttempt(k) ==
    /\ cpc[k] = "dial"
    /\ \/ /\ cclient[k] \in open
          /\ cpc' = [cpc EXCEPT ![k] = "idle"]
          /\ UNCHANGED <<connIsValid, tries>>
       \/ /\ tries[k] + 1 < DialRetries
          /\ tries' = [tries EXCEPT ![k] = @ + 1]
          /\ UNCHANGED <<cpc, connIsValid>>
       \/ /\ tries[k] + 1 = DialRetries
          /\ connIsValid' = FALSE
          /\ cpc' = [cpc EXCEPT ![k] = "idle"]
          /\ UNCHANGED tries
    /\ UNCHANGED <<mgrRest, proxy, checked, cclient, crashed>>

ProxyNext ==
    \/ StartProxy \/ Listen \/ AcceptExit
    \/ \E k \in Conns : Accept(k) \/ CheckClient(k) \/ LoadClient(k) \/ DialAttempt(k)

\* A step of the manager's goroutines, which only run while the process does.
MgrStep(A) == ~crashed /\ A /\ UNCHANGED proxyVars

\* A step of the proxy's goroutines.
Alive(A) == ~crashed /\ A

SystemInit == Init /\ ProxyInit

SystemNext == MgrStep(Next) \/ Alive(ProxyNext)

SystemSpec == SystemInit /\ [][SystemNext]_allVars

\* Every goroutine is scheduled; a dial goroutine blocked on the full
\* round channel is served when the collector frees a slot.  The timer,
\* failing dials, accepted connections, StartProxy and the cancellation
\* are the environment's, not owed.
SystemFairSpec ==
    /\ SystemSpec
    /\ WF_allVars(MgrStep(ServerIsOK)) /\ WF_allVars(MgrStep(Assign))
    /\ WF_allVars(MgrStep(PopEmpty)) /\ WF_allVars(MgrStep(Receive))
    /\ WF_allVars(MgrStep(SelectCancel)) /\ WF_allVars(MgrStep(Wake))
    /\ WF_allVars(MgrStep(SleepCancel))
    /\ \A d \in Dialers : /\ WF_allVars(MgrStep(Pop(d)))
                          /\ WF_allVars(MgrStep(NewClient(d)))
                          /\ SF_allVars(MgrStep(Report(d)))
                          /\ WF_allVars(MgrStep(Return(d)))
    /\ \A r \in Rounds : /\ WF_allVars(MgrStep(Collect(r)))
                         /\ WF_allVars(MgrStep(CollectEnd(r)))
    /\ WF_allVars(Alive(Listen))
    /\ \A k \in Conns : /\ WF_allVars(Alive(CheckClient(k)))
                        /\ WF_allVars(Alive(LoadClient(k)))
                        /\ WF_allVars(Alive(DialAttempt(k)))

-----------------------------------------------------------------------------
(* Properties *)

\* Every connetToSSH returns without relying on its 20 s timer: the
\* collector always answers, with a client or with nil (unless the
\* process has died).
ConnectReturns == mgr = "select" ~> (mgr # "select" \/ crashed)

\* Every SOCKS5 dial the proxy starts returns to its connection, with a
\* connection or an error, even through a client StartServe has closed:
\* SSHClient.Dial gives up after DialRetries attempts.
DialReturns == \A k \in Conns : cpc[k] # "idle" ~> (cpc[k] = "idle" \/ crashed)

\* Once the manager's context is cancelled the proxy stops serving: the
\* SOCKS5 listener StartProxy opened is closed (the manager keeps no
\* reference to the Socks5Proxy, so its Stop cannot be called).
ProxyStops == ctxDone ~> (proxy \in {"none", "exited"} \/ crashed)

\* No proxy goroutine calls Dial on a nil client (the process survives
\* StartServe replacing sds.sshClient while a dial is starting).
NoNilDial == ~crashed
=============================================================================
