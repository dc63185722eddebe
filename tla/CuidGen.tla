------------------------------ MODULE CuidGen ------------------------------
(***************************************************************************)
(* The CUID generator of dbutils/dbtype.go.  InitCuidDev stores the       *)
(* device id and starts a goroutine that loops: read the clock (seconds  *)
(* since 2018-01-01), counter++, reset the per-second bookkeeping on a    *)
(* new second or wrap the counter within one, build                       *)
(*     id = now << (CounterBits + DevBits) | counter << DevBits | devid   *)
(* and send it on the unbuffered gCUIDBuilder, where NewCUID receives it. *)
(* The widths (33 / 16 / 14 bits in the code) are constants here.         *)
(***************************************************************************)
EXTENDS Naturals, Bitwise

CONSTANTS
    CounterBits,   \* 16: counterMax = 2^CounterBits - 1 = 0xFFFF
    DevBits,       \* 14: devIDMax = 2^DevBits - 1 = 0x3FFF
    TimeMax,       \* timeMax = 0x1FFFFFFFF
    DevIds,        \* device ids InitCuidDev may be given
    MaxIds         \* bound on NewCUID calls

CounterMax == 2 ^ CounterBits - 1
DevIdMax == 2 ^ DevBits - 1

VARIABLES
    clock,        \* int64(time.Now().Sub(startTime).Seconds())
    devId,        \* gCUIDDevID
    gen,          \* the generator: "none", "loop", "send", "dead"
    counter, lastCounter, lastTime,
    pending,      \* the id the generator is blocked sending
    issued,       \* ids NewCUID has returned
    taken,        \* NewCUID calls that returned
    dup           \* NewCUID has returned an id twice

vars == <<clock, devId, gen, counter, lastCounter, lastTime, pending, issued, taken, dup>>

\* | 33-bit time | 16-bit counter | 14-bit device id |
CuidOf(now, c, d) == (now * 2 ^ (CounterBits + DevBits)) | (c * 2 ^ DevBits) | d

Init ==
    /\ clock = 1
    /\ devId = 0
    /\ gen = "none"
    /\ counter = 0 /\ lastCounter = 0 /\ lastTime = 0
    /\ pending = 0
    /\ issued = {}
    /\ taken = 0
    /\ dup = FALSE

\* InitCuidDev(devid): ignored once a device id is set; the goroutine
\* panics (and dies, recovered) on an id wider than DevBits.
InitCuidDev(d) ==
    /\ devId = 0
    /\ devId' = d
    /\ gen' = IF d > DevIdMax THEN "dead" ELSE "loop"
    /\ UNCHANGED <<clock, counter, lastCounter, lastTime, pending, issued, taken, dup>>

\* The new-second and same-second branches of one loop iteration, given
\* the incremented counter c.
NewSecond(now, c) ==
    /\ lastCounter' = c
    /\ lastTime' = now
    /\ counter' = c
    /\ gen' = "send"
    /\ pending' = CuidOf(now, c, devId)

SameSecond(now, c) ==
    LET w == IF c >= CounterMax THEN 1 ELSE c IN
    /\ counter' = w
    /\ IF w = lastCounter
         THEN UNCHANGED <<gen, pending>>      \* time.Sleep; continue
         ELSE /\ gen' = "send"
              /\ pending' = CuidOf(now, w, devId)
    /\ UNCHANGED <<lastCounter, lastTime>>

\* One iteration of the generator loop up to the send.
Generate ==
    LET now == clock IN
    /\ gen = "loop"
    /\ IF now >= TimeMax
         THEN /\ gen' = "dead"
              /\ UNCHANGED <<counter, lastCounter, lastTime, pending>>
         ELSE IF lastTime # now
                THEN NewSecond(now, counter + 1)
                ELSE SameSecond(now, counter + 1)
    /\ UNCHANGED <<clock, devId, issued, taken, dup>>

\* NewCUID: <-gCUIDBuilder, the rendezvous with the generator's send
\* (before InitCuidDev it panics instead).
NewCUID ==
    /\ devId # 0
    /\ gen = "send"
    /\ taken < MaxIds
    /\ taken' = taken + 1
    /\ dup' = (dup \/ pending \in issued)
    /\ issued' = issued \cup {pending}
    /\ gen' = "loop"
    /\ UNCHANGED <<clock, devId, counter, lastCounter, lastTime, pending>>

Tick ==
    /\ clock < TimeMax
    /\ clock' = clock + 1
    /\ UNCHANGED <<devId, gen, counter, lastCounter, lastTime, pending, issued,
                   taken, dup>>

Next == Generate \/ NewCUID \/ Tick \/ \E d \in DevIds : InitCuidDev(d)

Spec == Init /\ [][Next]_vars

-----------------------------------------------------------------------------
(* Properties *)

\* NewCUID never returns the same id twice.
CuidUnique == ~dup

\* The counter placed in an id fits its 16-bit field, so it never carries
\* into the time bits.
CounterFitsField == gen = "send" => counter <= CounterMax
=============================================================================
