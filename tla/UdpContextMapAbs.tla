-------------------------- MODULE UdpContextMapAbs --------------------------
(***************************************************************************)
(* What GetUdpNetContext promises its callers: one atomic lookup-or-      *)
(* create on a map from peer address to session context whose entries    *)
(* expire TTL after they were stored.  A caller asks for a peer's context *)
(* and, in one step, gets the stored one if it has not expired or a new   *)
(* one that is stored in its place.                                        *)
(***************************************************************************)
EXTENDS Naturals

CONSTANTS Peers, Callers, Ctxs, NoCtx, TTL, MaxClock

VARIABLES clock, cache, pc, peer, got

absVars == <<clock, cache, pc, peer, got>>

\* Context ids no map entry and no caller refers to: a NetContext nobody
\* can reach any more is garbage, so its id may stand for a new one.
Unused == Ctxs \ ({cache[p].ctx : p \in Peers} \cup {got[c] : c \in Callers})

Fresh == CHOOSE x \in Unused : TRUE

\* go-cache's Get treats an item as present until its expiration has
\* passed: now > Expiration.
Live(p) == cache[p].ctx # NoCtx /\ clock <= cache[p].exp

AbsInit ==
    /\ clock = 0
    /\ cache = [p \in Peers |-> [ctx |-> NoCtx, exp |-> 0]]
    /\ pc = [c \in Callers |-> "idle"]
    /\ peer = [c \in Callers |-> CHOOSE p \in Peers : TRUE]
    /\ got = [c \in Callers |-> NoCtx]

Call(c, p) ==
    /\ pc[c] = "idle"
    /\ pc' = [pc EXCEPT ![c] = "calling"]
    /\ peer' = [peer EXCEPT ![c] = p]
    /\ UNCHANGED <<clock, cache, got>>

LookupOrCreate(c) ==
    LET p == peer[c] IN
    /\ pc[c] = "calling"
    /\ IF Live(p)
         THEN /\ got' = [got EXCEPT ![c] = cache[p].ctx]
              /\ UNCHANGED cache
         ELSE /\ got' = [got EXCEPT ![c] = Fresh]
              /\ cache' = [cache EXCEPT ![p] = [ctx |-> Fresh, exp |-> clock + TTL]]
    /\ pc' = [pc EXCEPT ![c] = "done"]
    /\ UNCHANGED <<clock, peer>>

Release(c) ==
    /\ pc[c] = "done"
    /\ pc' = [pc EXCEPT ![c] = "idle"]
    /\ got' = [got EXCEPT ![c] = NoCtx]
    /\ UNCHANGED <<clock, cache, peer>>

Tick ==
    /\ clock < MaxClock
    /\ clock' = clock + 1
    /\ UNCHANGED <<cache, pc, peer, got>>

AbsNext ==
    \/ Tick
    \/ \E c \in Callers :
          \/ \E p \in Peers : Call(c, p)
          \/ LookupOrCreate(c)
          \/ Release(c)

AbsSpec ==
    /\ AbsInit /\ [][AbsNext]_absVars
    /\ \A c \in Callers : WF_absVars(LookupOrCreate(c))
=============================================================================
