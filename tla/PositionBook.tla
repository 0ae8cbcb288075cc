---------------------------- MODULE PositionBook ----------------------------
(***************************************************************************)
(* What the tracker promises the monitor and the command poller: a         *)
(* position is kept under the owner that ordered it, or under the default  *)
(* while nobody knows better; the default never replaces an owner; a       *)
(* position that is open is dropped by nothing but a reconcile after a     *)
(* disturbance, or the end of the process; and a start keeps every open    *)
(* position and no other.                                                  *)
(***************************************************************************)
CONSTANTS Orders, OwnerOf

VARIABLES
    life,   \* each order at the broker
    owner,  \* who its position is kept for
    up,     \* the process runs
    calm    \* nothing has disturbed it yet

bookVars == << life, owner, up, calm >>

Nobody == "untracked"
Default == "strategy"

BookInit ==
    /\ life = [o \in Orders |-> "none"]
    /\ owner = [o \in Orders |-> Nobody]
    /\ up = TRUE
    /\ calm = TRUE

Becomes(o, from, to) ==
    /\ life[o] = from
    /\ life' = [life EXCEPT ![o] = to]
    /\ UNCHANGED << owner, up, calm >>

Order(o) == up /\ Becomes(o, "none", "ordered")

(* The broker acts whether or not the process runs.                        *)
Fill(o) == Becomes(o, "ordered", "open")
Reject(o) == Becomes(o, "ordered", "rejected")
Close(o) == Becomes(o, "open", "closed")

WasOpened(o) == life[o] \in {"open", "closed"}

Track(o) ==
    /\ up /\ WasOpened(o)
    /\ \E w \in {OwnerOf[o]} \cup {v \in {Default} : owner[o] = Nobody} :
          owner' = [owner EXCEPT ![o] = w]
    /\ UNCHANGED << life, up, calm >>

Drop(o) ==
    /\ up /\ life[o] = "closed"
    /\ owner' = [owner EXCEPT ![o] = Nobody]
    /\ UNCHANGED << life, up, calm >>

(* The wire or the broker lets the process down.                           *)
Disturb ==
    /\ up /\ calm
    /\ calm' = FALSE
    /\ UNCHANGED << life, owner, up >>

Kept(o) ==
    {owner[o], Nobody}
        \cup {v \in {Default} : owner[o] = Nobody /\ WasOpened(o)}

Reconcile ==
    /\ up /\ ~calm
    /\ owner' \in [Orders -> UNION {Kept(o) : o \in Orders}]
    /\ \A o \in Orders : owner'[o] \in Kept(o)
    /\ UNCHANGED << life, up, calm >>

Forget ==
    /\ up
    /\ up' = FALSE
    /\ calm' = FALSE
    /\ owner' = [o \in Orders |-> Nobody]
    /\ UNCHANGED life

Recovered(o) == IF life[o] = "open" THEN {OwnerOf[o], Default} ELSE {Nobody}

Recover ==
    /\ ~up
    /\ up' = TRUE
    /\ owner' \in [Orders -> UNION {Recovered(o) : o \in Orders}]
    /\ \A o \in Orders : owner'[o] \in Recovered(o)
    /\ UNCHANGED << life, calm >>

BookNext ==
    \/ \E o \in Orders :
          Order(o) \/ Fill(o) \/ Reject(o) \/ Close(o) \/ Track(o) \/ Drop(o)
    \/ Disturb \/ Reconcile \/ Forget \/ Recover

BookSpec == BookInit /\ [][BookNext]_bookVars
=============================================================================
