---------------------------- MODULE MCForwardWS ----------------------------
(* ForwardWS on three connections.                                          *)
EXTENDS ForwardWS, TLC

CONSTANTS c1, c2, c3

Mix(a, b, c) == c1 :> a @@ c2 :> b @@ c3 :> c

\* Subscribers alone; with a client of the API; with one on "/", whose append
\* may race with pushes, or two, whose appends may race with each other.
SomeMixes ==
    {Mix("event", "event", "event"), Mix("event", "event", "api"),
     Mix("event", "event", "any"), Mix("any", "any", "event")}
=============================================================================
