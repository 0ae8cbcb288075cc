---------------------------- MODULE CommandOnce -----------------------------
(***************************************************************************)
(* What the dashboard's manual commands promise the operator: a command    *)
(* that was issued is carried out at most once and not after it has        *)
(* expired; what was never issued is never carried out.  It may be lost.   *)
(***************************************************************************)
EXTENDS Naturals

CONSTANTS Ids, TTL, MaxNow

VARIABLES
    now,        \* time
    expires,    \* the last time a command may be carried out; 0: not issued
    carried     \* how often it was

onceVars == << now, expires, carried >>

OnceInit ==
    /\ now = 1
    /\ expires = [c \in Ids |-> 0]
    /\ carried = [c \in Ids |-> 0]

Passes ==
    /\ now < MaxNow
    /\ now' = now + 1
    /\ UNCHANGED << expires, carried >>

Issue(c) ==
    /\ expires[c] = 0
    /\ expires' = [expires EXCEPT ![c] = now + TTL]
    /\ UNCHANGED << now, carried >>

Carry(c) ==
    /\ now <= expires[c]
    /\ carried[c] = 0
    /\ carried' = [carried EXCEPT ![c] = 1]
    /\ UNCHANGED << now, expires >>

OnceNext == Passes \/ \E c \in Ids : Issue(c) \/ Carry(c)

OnceSpec == OnceInit /\ [][OnceNext]_onceVars
=============================================================================
