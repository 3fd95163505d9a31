---------------------------- MODULE MCReverseWS ----------------------------
(* ReverseWS on small sets of connections and goroutines.                   *)
EXTENDS ReverseWS, TLC

\* Connections and the goroutines of one kind are interchangeable (used by the
\* runs that check no liveness property).
Symmetric == Permutations(Conns) \cup Permutations(Pushers)

Config(urls, reconnect) == [urls |-> urls, reconnect |-> reconnect]

\* A universal connection, or one connection per role, with and without a
\* reconnection interval.
AllConfigs ==
    {Config(u, r) : u \in {{"universal"}, {"api", "event"}, {"api"}},
                    r \in BOOLEAN}

\* One role at a time, with a reconnection interval: the API and the event
\* connection share nothing.
Reconnecting == {Config({u}, TRUE) : u \in {"universal", "api", "event"}}

EventOnly == {Config({"event"}, TRUE)}
=============================================================================
