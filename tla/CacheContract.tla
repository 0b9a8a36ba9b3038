---------------------------- MODULE CacheContract ----------------------------
(***************************************************************************)
(* What the probe cache promises the coordinator, whatever happens to its  *)
(* files: get answers with nothing, or with the whole of an output that    *)
(* was put under the key asked for and was not older than the TTL.         *)
(* Missing is always allowed: the coordinator runs the probe again.        *)
(***************************************************************************)
EXTENDS Integers

CONSTANTS Proc, Key, Output, Nothing, TTL, MaxTime

VARIABLES puts,     \* the records put so far
          answer,   \* what the last get of each process returned
          now

vars == <<puts, answer, now>>

Record == [key : Key, out : Output, at : 0 .. MaxTime]

(* The answers a get may give at this moment.  The age is the one it saw   *)
(* when it looked the record up, so the clock may have moved on since.     *)
Servable ==
    {h \in [key : Key, out : Output, age : 0 .. TTL, bytes : {"whole"}] :
        \E r \in puts : /\ r.key = h.key
                        /\ r.out = h.out
                        /\ h.age =< now - r.at}

Init ==
    /\ puts = {}
    /\ answer = [p \in Proc |-> Nothing]
    /\ now = 0

Put(r) ==
    /\ puts' = puts \cup {r}
    /\ UNCHANGED <<answer, now>>

Forget(p) ==
    /\ answer' = [answer EXCEPT ![p] = Nothing]
    /\ UNCHANGED <<puts, now>>

Serve(p) ==
    /\ \E h \in Servable : answer' = [answer EXCEPT ![p] = h]
    /\ UNCHANGED <<puts, now>>

Tick ==
    /\ now < MaxTime
    /\ now' = now + 1
    /\ UNCHANGED <<puts, answer>>

Next == \/ Tick
        \/ \E r \in Record : Put(r)
        \/ \E p \in Proc : Forget(p) \/ Serve(p)

Spec == Init /\ [][Next]_vars
=============================================================================
