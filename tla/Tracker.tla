------------------------------- MODULE Tracker -------------------------------
(***************************************************************************)
(* The tracker of watcher.go: which notifier (template) uses which view,   *)
(* as a many-to-many table of tracked pairs, and the operations on it.     *)
(* Every operation is one critical section of tracker.Mutex.               *)
(*                                                                         *)
(* A view and the dependency it watches have the same ID, so the table     *)
(* names dependencies; `views` maps them to the view objects.              *)
(* The list of pairs is a set here: its order is never used, and equal     *)
(* pairs behave as one.                                                    *)
(***************************************************************************)
CONSTANTS Notifiers, Deps

Pairs == [view : Deps, notify : Notifiers, mark : BOOLEAN,
          cacheAccessed : BOOLEAN]

Of(n, d, tp) == tp.view = d /\ tp.notify = n

HasPair(t, n, d) == \E tp \in t : Of(n, d, tp)

\* One field of the matching pairs is set, everything else stays.
MarkInUse(t, n, d) ==
    {IF Of(n, d, tp) THEN [tp EXCEPT !.mark = TRUE] ELSE tp : tp \in t}

CacheAccessed(t, n, d) ==
    {IF Of(n, d, tp) THEN [tp EXCEPT !.cacheAccessed = TRUE] ELSE tp :
        tp \in t}

MarkForSweep(t, n) ==
    {IF tp.notify = n THEN [tp EXCEPT !.mark = FALSE] ELSE tp : tp \in t}

\* Mutant: a new pair counts as read from the cache.
AddPairAccessed(t, n, d) ==
    t \cup {[view |-> d, notify |-> n, mark |-> TRUE, cacheAccessed |-> TRUE]}

AddPair(t, n, d) ==
    t \cup {[view |-> d, notify |-> n, mark |-> TRUE, cacheAccessed |-> FALSE]}

\* Mutant: only the pairs in use are looked at.
NotifiersInUse(t, d) == {tp.notify : tp \in {p \in t : p.view = d /\ p.mark}}

NotifiersFor(t, d) == {tp.notify : tp \in {p \in t : p.view = d}}

Complete(t, n) == \A tp \in t : tp.notify = n => tp.cacheAccessed

\* sweep keeps the pairs in use and those of other notifiers, and the views
\* that such a pair names.
Kept(t, n) == {tp \in t : tp.mark \/ tp.notify # n}

Used(t) == {tp.view : tp \in t}
=============================================================================
