----------------------------- MODULE EventHub -----------------------------
(* What the forward WebSocket server promises its event subscribers: an event *)
(* goes once to each client subscribed when its push begins, a client that    *)
(* cannot be written to is unsubscribed, and nobody is lost otherwise.        *)
CONSTANT Clients
VARIABLES
    subs,       \* the subscribed clients
    pending,    \* the clients the current push has still to serve
    pushing     \* a push is in progress

hub == <<subs, pending, pushing>>

Init == subs = {} /\ pending = {} /\ pushing = FALSE

\* Clients join between pushes.
Subscribe(c) ==
    /\ ~pushing /\ c \notin subs
    /\ subs' = subs \cup {c}
    /\ UNCHANGED <<pending, pushing>>

Begin == ~pushing /\ pushing' = TRUE /\ pending' = subs /\ UNCHANGED subs

Deliver(c) ==
    /\ c \in pending
    /\ pending' = pending \ {c}
    /\ UNCHANGED <<subs, pushing>>

Drop(c) ==
    /\ c \in pending
    /\ pending' = pending \ {c}
    /\ subs' = subs \ {c}
    /\ UNCHANGED pushing

End ==
    /\ pushing /\ pending = {}
    /\ pushing' = FALSE
    /\ UNCHANGED <<subs, pending>>

Next == Begin \/ End \/ \E c \in Clients : Subscribe(c) \/ Deliver(c) \/ Drop(c)

\* A push that has begun serves every client and ends.
Fairness == WF_hub(End \/ \E c \in Clients : Deliver(c) \/ Drop(c))

Spec == Init /\ [][Next]_hub /\ Fairness
=============================================================================
