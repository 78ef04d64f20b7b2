---------------------------- MODULE MCController ----------------------------
(* A small instance of Controller: two names and two kinds of controller,  *)
(* so that an update changes the configuration.  The first waits for a      *)
(* timer after "continue" and "error" and for an update after "done"; its   *)
(* interval of 3 is capped at 2.  The second has no interval, no backoff    *)
(* and no stop hook: after each run it waits for an update.                 *)
EXTENDS Controller

Linear == [kind |-> "linear", base |-> 1, max |-> 2, jitter |-> 0]

Periodic == [interval |-> {3}, backoff |-> Linear, onStop |-> TRUE]
OneShot == [interval |-> {0}, backoff |-> NoBackoff, onStop |-> FALSE]

TwoKinds == {Periodic, OneShot}

MCMaxInterval == {2}
=============================================================================
