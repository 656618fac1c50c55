---------------------------- MODULE WriteService ----------------------------
(***************************************************************************)
(* What submit_write and poll_event promise (src/src/lib.rs, controller.rs *)
(* and docs/api.md): a request that is accepted is performed after those   *)
(* accepted before it, on the track it names and on no other; its outcome  *)
(* may then be polled, in the same order, and one called complete has been *)
(* on the disk.  Whole requests come and go here: nothing is said of       *)
(* queues, positions, caches or of the rest of the drive.                  *)
(***************************************************************************)
EXTENDS Integers

CONSTANTS Track, None

VARIABLES
    next,      \* the identifier the next request gets
    pending,   \* requests accepted and not begun
    current,   \* the one being performed, or None
    outcome,   \* what has come of it: None, "completed" or "failed"
    flux,      \* whose flux is on a track: a request's, or 0 for older flux
    outcomes,  \* the outcomes that may be polled
    open       \* does the service still accept requests?

vars == <<next, pending, current, outcome, flux, outcomes, open>>

Init ==
    /\ next = 1 /\ pending = {} /\ current = None /\ outcome = None
    /\ flux = [t \in Track |-> 0] /\ outcomes = {} /\ open = TRUE

(* Refused ones use up an identifier too.                                  *)
Submit ==
    /\ next' = next + 1
    /\ \/ UNCHANGED pending
       \/ open /\ \E t \in Track : pending' = pending \cup {[id |-> next, track |-> t]}
    /\ UNCHANGED <<current, outcome, flux, outcomes, open>>

Oldest(S) == {r \in S : \A q \in S : r.id <= q.id}

Begin ==
    /\ current = None
    /\ \E r \in Oldest(pending) : pending' = pending \ {r} /\ current' = r
    /\ UNCHANGED <<next, outcome, flux, outcomes, open>>

(* A failed request may have altered its track, a completed one has.       *)
Perform ==
    /\ current # None /\ outcome = None
    /\ outcome' \in {"completed", "failed"}
    /\ \/ flux' = [flux EXCEPT ![current.track] = current.id]
       \/ outcome' = "failed" /\ UNCHANGED flux
    /\ UNCHANGED <<next, pending, current, outcomes, open>>

(* An outcome nobody makes room for is lost.                               *)
Report ==
    /\ outcome # None
    /\ \/ outcomes' = outcomes \cup {[id |-> current.id, ok |-> outcome = "completed"]}
       \/ UNCHANGED outcomes
    /\ current' = None /\ outcome' = None
    /\ UNCHANGED <<next, pending, flux, open>>

Poll ==
    /\ \E r \in Oldest(outcomes) : outcomes' = outcomes \ {r}
    /\ UNCHANGED <<next, pending, current, outcome, flux, open>>

ChangeDisk ==
    /\ flux' = [t \in Track |-> 0]
    /\ UNCHANGED <<next, pending, current, outcome, outcomes, open>>

(* The drive is gone, or its owner: what has not begun never will.         *)
Close ==
    /\ open' = FALSE /\ pending' = {}
    /\ UNCHANGED <<next, current, outcome, flux, outcomes>>

Next == Submit \/ Begin \/ Perform \/ Report \/ Poll \/ ChangeDisk \/ Close

Spec == Init /\ [][Next]_vars
=============================================================================
