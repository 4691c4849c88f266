---------------------------- MODULE SingleFlight ----------------------------
(***************************************************************************)
(* What enqueue promises a caller that names a dedupe key, whatever the    *)
(* workers do: for each tenant and key there is one place, and at most one *)
(* piece of work in it.  A request for work that is already there adds     *)
(* nothing; work is taken at most MaxTries times; it leaves its place only *)
(* from the hands of a worker.  TaskQueue implements this.                 *)
(***************************************************************************)
EXTENDS Naturals

CONSTANTS Places,    \* pairs of a tenant and a key
          MaxTries

VARIABLE place       \* [Places -> what is there]

Empty == [state |-> "empty", tries |-> 0]

FlightInit == place = [p \in Places |-> Empty]

\* The ways one place changes.
Accept(old, new) == old = Empty /\ new = [state |-> "queued", tries |-> 0]
Serve(old, new) ==
    /\ old # Empty /\ old.tries < MaxTries
    /\ new = [state |-> "running", tries |-> old.tries + 1]
PutBack(old, new) ==
    /\ old.state = "running" /\ old.tries < MaxTries
    /\ new = [state |-> "queued", tries |-> old.tries]
Release(old, new) == old.state = "running" /\ new = Empty

PlaceStep(old, new) ==
    Accept(old, new) \/ Serve(old, new) \/ PutBack(old, new) \/ Release(old, new)

\* Places are independent: one transaction may release several of them.
FlightNext ==
    /\ place' = [p \in Places |-> place'[p]]
    /\ \A p \in Places : place'[p] = place[p] \/ PlaceStep(place[p], place'[p])

FlightSpec == FlightInit /\ [][FlightNext]_place
=============================================================================
