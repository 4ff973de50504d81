------------------------------- MODULE Watcher -------------------------------
(***************************************************************************)
(* watcher.go, store.go, resolver.go and template.go together: templates   *)
(* are evaluated by Resolver.Run, each by its own goroutine, while another *)
(* goroutine is in Watcher.Wait (or Watch) and moves data from the views   *)
(* into the cache, and a third one deregisters templates or stops the      *)
(* watcher.  All of them share the tracker, the cache and dataCh.          *)
(*                                                                         *)
(* A view object is reduced to what View shows of it: it is polled, stores *)
(* a value, delivers itself, and may deliver once more while it is being   *)
(* stopped (View!AtMostOneLateDelivery).  Values are version numbers of    *)
(* the upstream data.                                                      *)
(***************************************************************************)
EXTENDS Tracker, Naturals, Sequences, FiniteSets, SequencesExt

CONSTANTS
    Objects,      \* how many view objects of one dependency exist at a time
    MaxVersion,   \* bound on the changes upstream
    Cap,          \* capacity of dataCh
    MayFail,      \* template evaluation may end with an error
    MayStop,      \* the watcher may be stopped
    None          \* no value, no view

ASSUME WatcherAssumption ==
    /\ Objects \in Nat \ {0}
    /\ MaxVersion \in Nat
    /\ Cap \in Nat \ {0}
    /\ MayFail \in BOOLEAN
    /\ MayStop \in BOOLEAN

Views == Deps \X (1..Objects)
DepOf(v) == v[1]

Versions == 0..MaxVersion

ASSUME NoneAssumption == None \notin Views /\ None \notin Versions

VARIABLES
    truth,      \* the upstream value of each dependency
    \* tracker
    tracked, views, notifiers,
    \* view objects
    vstate, stopped, vdata,
    dataCh,
    cache,      \* Store
    \* Wait
    wpc, wview, wdata, toNotify, notified,
    stopCh,     \* holds a signal?
    \* Resolver.Run of each template
    rpc, rdep, asked, got,
    \* Template
    dirty,      \* the signal in the dirty channel
    rendered,   \* what the cached contents were rendered from
    \* Deregister and Stop
    cpc, ctarget, halted

upstream     == <<truth>>
trackerVars  == <<tracked, views, notifiers>>
viewVars     == <<vstate, stopped, vdata>>
waitVars     == <<wpc, wview, wdata, toNotify, notified, stopCh>>
resolverVars == <<rpc, rdep, asked, got>>
templateVars == <<dirty, rendered>>
controlVars  == <<cpc, ctarget, halted>>
vars == <<upstream, trackerVars, viewVars, dataCh, cache, waitVars,
          resolverVars, templateVars, controlVars>>

Values == Versions \cup {None}

TypeOK ==
    /\ truth \in [Deps -> Versions]
    /\ tracked \subseteq Pairs
    /\ views \in [Deps -> Views \cup {None}]
    /\ \A d \in Deps : views[d] # None => DepOf(views[d]) = d
    /\ notifiers \subseteq Notifiers
    /\ vstate \in [Views -> {"free", "new", "polling", "ready", "failed"}]
    /\ stopped \in [Views -> BOOLEAN]
    /\ vdata \in [Views -> Values]
    /\ dataCh \in Seq(Views) /\ Len(dataCh) <= Cap
    /\ cache \in [Deps -> Values]
    /\ wpc \in {"away", "select", "save", "lookup", "notify", "panic"}
    /\ wview \in Views \cup {None}
    /\ wdata \in Values
    /\ toNotify \subseteq Notifiers
    /\ notified \in BOOLEAN
    /\ stopCh \in BOOLEAN
    /\ rpc \in [Notifiers -> {"idle", "execute", "eval", "lookup", "add",
                              "recall", "accessed", "poll", "sweep",
                              "complete"}]
    /\ rdep \in [Notifiers -> Deps \cup {None}]
    /\ asked \in [Notifiers -> SUBSET Deps]
    /\ got \in [Notifiers -> [Deps -> Values]]
    /\ dirty \in [Notifiers -> BOOLEAN]
    /\ rendered \in [Notifiers -> [Deps -> Values]]
    /\ cpc \in {"idle", "mark", "sweep", "signal", "reset"}
    /\ ctarget \in Notifiers \cup {None}
    /\ halted \in BOOLEAN

Nothing == [d \in Deps |-> None]

\* The templates are registered, and primed as needing to be run.
Init ==
    /\ truth = [d \in Deps |-> 0]
    /\ tracked = {}
    /\ views = [d \in Deps |-> None]
    /\ notifiers = Notifiers
    /\ vstate = [v \in Views |-> "free"]
    /\ stopped = [v \in Views |-> FALSE]
    /\ vdata = [v \in Views |-> None]
    /\ dataCh = << >>
    /\ cache = Nothing
    /\ wpc = "away" /\ wview = None /\ wdata = None
    /\ toNotify = {} /\ notified = FALSE /\ stopCh = FALSE
    /\ rpc = [n \in Notifiers |-> "idle"]
    /\ rdep = [n \in Notifiers |-> None]
    /\ asked = [n \in Notifiers |-> {}]
    /\ got = [n \in Notifiers |-> Nothing]
    /\ dirty = [n \in Notifiers |-> TRUE]
    /\ rendered = [n \in Notifiers |-> Nothing]
    /\ cpc = "idle" /\ ctarget = None /\ halted = FALSE

-----------------------------------------------------------------------------
(* View objects.                                                           *)

Change(d) ==
    /\ truth[d] < MaxVersion
    /\ truth' = [truth EXCEPT ![d] = @ + 1]
    /\ UNCHANGED <<trackerVars, viewVars, dataCh, cache, waitVars,
                   resolverVars, templateVars, controlVars>>

\* fetch: a value that differs from the one the view has.  A fetch that was
\* under way when the view was stopped may still store one.
ViewFetch(v) ==
    /\ vstate[v] = "polling"
    /\ vdata[v] # truth[DepOf(v)]
    /\ vdata' = [vdata EXCEPT ![v] = truth[DepOf(v)]]
    /\ vstate' = [vstate EXCEPT ![v] = "ready"]
    /\ UNCHANGED <<upstream, trackerVars, stopped, dataCh, cache, waitVars,
                   resolverVars, templateVars, controlVars>>

\* Mutant: the queue is taken to be unbounded.
ViewDeliverAlways(v) ==
    /\ vstate[v] = "ready"
    /\ dataCh' = Append(dataCh, v)
    /\ vstate' =
           [vstate EXCEPT ![v] = IF stopped[v] THEN "free" ELSE "polling"]
    /\ UNCHANGED <<upstream, trackerVars, stopped, vdata, cache, waitVars,
                   resolverVars, templateVars, controlVars>>

\* The select of poll may take viewCh although stopCh is closed; then that is
\* the end of it.
ViewDeliver(v) ==
    /\ vstate[v] = "ready"
    /\ Len(dataCh) < Cap
    /\ dataCh' = Append(dataCh, v)
    /\ vstate' =
           [vstate EXCEPT ![v] = IF stopped[v] THEN "free" ELSE "polling"]
    /\ UNCHANGED <<upstream, trackerVars, stopped, vdata, cache, waitVars,
                   resolverVars, templateVars, controlVars>>

\* poll returns, and the object is garbage once nobody holds it.
ViewEnds(v) ==
    /\ vstate[v] # "free"
    /\ stopped[v]
    /\ vstate' = [vstate EXCEPT ![v] = "free"]
    /\ UNCHANGED <<upstream, trackerVars, stopped, vdata, dataCh, cache,
                   waitVars, resolverVars, templateVars, controlVars>>

\* poll gives up after its retries, or takes the ErrStopped of a dependency
\* that is being stopped for an error; Wait receives it and returns.
ViewGivesUp(v) ==
    /\ vstate[v] = "polling"
    /\ wpc = "select"
    /\ wpc' = "away"
    /\ vstate' = [vstate EXCEPT ![v] = IF stopped[v] THEN "free" ELSE "failed"]
    /\ UNCHANGED <<upstream, trackerVars, stopped, vdata, dataCh, cache,
                   wview, wdata, toNotify, notified, stopCh, resolverVars,
                   templateVars, controlVars>>

Garbage(v) ==
    /\ vstate[v] = "free"
    /\ wview # v
    /\ \A i \in 1..Len(dataCh) : dataCh[i] # v

\* Which of the unused objects a new view is does not matter; None if the
\* bound is reached.
NewView(d) ==
    LET unused == {v \in Views : DepOf(v) = d /\ Garbage(v)}
    IN  IF unused = {} THEN None ELSE CHOOSE v \in unused : TRUE

\* Watcher.Poll: view.poll returns at once if the view is polled already, and
\* soon if it is stopped.
Polled(v) ==
    IF v # None /\ ~stopped[v] /\ vstate[v] \in {"new", "failed"}
    THEN [vstate EXCEPT ![v] = "polling"] ELSE vstate

-----------------------------------------------------------------------------
(* Wait and wait.  Wait first drains stopCh.                               *)

WaitEnter ==
    /\ wpc = "away"
    /\ wpc' = "select"
    /\ stopCh' = FALSE
    /\ notified' = FALSE
    /\ UNCHANGED <<upstream, trackerVars, viewVars, dataCh, cache, wview,
                   wdata, toNotify, resolverVars, templateVars, controlVars>>

\* Mutant: the signal is taken, but the loop goes on.
WaitStoppedGoesOn ==
    /\ wpc = "select"
    /\ stopCh
    /\ stopCh' = FALSE
    /\ UNCHANGED <<upstream, trackerVars, viewVars, dataCh, cache, wpc, wview,
                   wdata, toNotify, notified, resolverVars, templateVars,
                   controlVars>>

WaitStopped ==
    /\ wpc = "select"
    /\ stopCh
    /\ stopCh' = FALSE
    /\ wpc' = "away"
    /\ UNCHANGED <<upstream, trackerVars, viewVars, dataCh, cache, wview,
                   wdata, toNotify, notified, resolverVars, templateVars,
                   controlVars>>

\* The context ends.
WaitLeave ==
    /\ wpc = "select"
    /\ wpc' = "away"
    /\ UNCHANGED <<upstream, trackerVars, viewVars, dataCh, cache, wview,
                   wdata, toNotify, notified, stopCh, resolverVars,
                   templateVars, controlVars>>

\* Receive a view and read its data.
WaitReceive ==
    /\ wpc = "select"
    /\ dataCh # << >>
    /\ wview' = Head(dataCh)
    /\ wdata' = vdata[Head(dataCh)]
    /\ dataCh' = Tail(dataCh)
    /\ wpc' = "save"
    /\ UNCHANGED <<upstream, trackerVars, viewVars, cache, toNotify,
                   notified, stopCh, resolverVars, templateVars, controlVars>>

WaitSave ==
    /\ wpc = "save"
    /\ cache' = [cache EXCEPT ![DepOf(wview)] = wdata]
    /\ wdata' = None
    /\ wpc' = "lookup"
    /\ UNCHANGED <<upstream, trackerVars, viewVars, dataCh, wview, toNotify,
                   notified, stopCh, resolverVars, templateVars,
                   controlVars>>

\* notifiersFor finds nil for a notifier that is not registered any more, and
\* calling Notify on it panics.  That is the end of the process: steps that
\* others take after it mean nothing.
WaitLookup ==
    /\ wpc = "lookup"
    /\ LET ns == NotifiersFor(tracked, DepOf(wview)) IN
         /\ toNotify' = ns
         /\ wpc' = IF ns \subseteq notifiers THEN "notify" ELSE "panic"
    /\ UNCHANGED <<upstream, trackerVars, viewVars, dataCh, cache, wview,
                   wdata, notified, stopCh, resolverVars, templateVars,
                   controlVars>>

WaitNotify(n) ==
    /\ wpc = "notify"
    /\ n \in toNotify
    /\ toNotify' = toNotify \ {n}
    /\ dirty' = [dirty EXCEPT ![n] = TRUE]
    /\ notified' = TRUE
    /\ UNCHANGED <<upstream, trackerVars, viewVars, dataCh, cache, wpc,
                   wview, wdata, stopCh, resolverVars, rendered, controlVars>>

\* Drain dataCh; when it is empty return to the caller (Watch goes on), or
\* select again if nobody was notified.
WaitNotified ==
    /\ wpc = "notify"
    /\ toNotify = {}
    /\ IF dataCh # << >>
       THEN /\ wview' = Head(dataCh)
            /\ wdata' = vdata[Head(dataCh)]
            /\ dataCh' = Tail(dataCh)
            /\ wpc' = "save"
       ELSE /\ wview' = None
            /\ wpc' \in IF notified THEN {"away", "select"} ELSE {"select"}
            /\ UNCHANGED <<wdata, dataCh>>
    /\ UNCHANGED <<upstream, trackerVars, viewVars, cache, toNotify,
                   notified, stopCh, resolverVars, templateVars, controlVars>>

-----------------------------------------------------------------------------
(* Resolver.Run with Template.Execute and the Recaller.                    *)

Goto(n, pc) == rpc' = [rpc EXCEPT ![n] = pc]

\* The caller runs registered templates only, and starts no run after Stop.
RunMark(n) ==
    /\ rpc[n] = "idle"
    /\ n \in notifiers
    /\ ~halted
    /\ tracked' = MarkForSweep(tracked, n)
    /\ Goto(n, "execute")
    /\ UNCHANGED <<upstream, views, notifiers, viewVars, dataCh, cache,
                   waitVars, rdep, asked, got, templateVars, controlVars>>

\* isDirty clears the signal; a clean template returns ErrNoNewValues, which
\* skips Sweep.
Execute(n) ==
    /\ rpc[n] = "execute"
    /\ dirty' = [dirty EXCEPT ![n] = FALSE]
    /\ Goto(n, IF dirty[n] THEN "eval" ELSE "complete")
    /\ asked' = [asked EXCEPT ![n] = IF dirty[n] THEN {} ELSE @]
    /\ got' = [got EXCEPT ![n] = IF dirty[n] THEN Nothing ELSE @]
    /\ UNCHANGED <<upstream, trackerVars, viewVars, dataCh, cache, waitVars,
                   rdep, rendered, controlVars>>

\* The template asks for a dependency; which ones it asks for may depend on
\* the values it got.  track starts with markInUse.
Ask(n, d) ==
    /\ rpc[n] = "eval"
    /\ d \notin asked[n]
    /\ asked' = [asked EXCEPT ![n] = @ \cup {d}]
    /\ rdep' = [rdep EXCEPT ![n] = d]
    /\ tracked' = MarkInUse(tracked, n, d)
    /\ Goto(n, "lookup")
    /\ UNCHANGED <<upstream, views, notifiers, viewVars, dataCh, cache,
                   waitVars, got, templateVars, controlVars>>

TrackLookup(n) ==
    /\ rpc[n] = "lookup"
    /\ Goto(n, IF HasPair(tracked, n, rdep[n]) THEN "recall" ELSE "add")
    /\ UNCHANGED <<upstream, trackerVars, viewVars, dataCh, cache, waitVars,
                   rdep, asked, got, templateVars, controlVars>>

\* newView and tracker.add: the new view is kept only if the dependency has
\* none yet.
TrackAdd(n) ==
    /\ rpc[n] = "add"
    /\ IF views[rdep[n]] # None
       THEN UNCHANGED <<views, viewVars>>
       ELSE \E v \in Views :
              /\ v = NewView(rdep[n])
              /\ views' = [views EXCEPT ![rdep[n]] = v]
              /\ vstate' = [vstate EXCEPT ![v] = "new"]
              /\ stopped' = [stopped EXCEPT ![v] = FALSE]
              /\ vdata' = [vdata EXCEPT ![v] = None]
    /\ tracked' = AddPair(tracked, n, rdep[n])
    /\ Goto(n, "recall")
    /\ UNCHANGED <<upstream, notifiers, dataCh, cache, waitVars, rdep, asked,
                   got, templateVars, controlVars>>

Recall(n) ==
    /\ rpc[n] = "recall"
    /\ got' = [got EXCEPT ![n][rdep[n]] = cache[rdep[n]]]
    /\ Goto(n, IF cache[rdep[n]] # None THEN "accessed" ELSE "poll")
    /\ UNCHANGED <<upstream, trackerVars, viewVars, dataCh, cache, waitVars,
                   rdep, asked, templateVars, controlVars>>

RecallHit(n) ==
    /\ rpc[n] = "accessed"
    /\ tracked' = CacheAccessed(tracked, n, rdep[n])
    /\ rdep' = [rdep EXCEPT ![n] = None]
    /\ Goto(n, "eval")
    /\ UNCHANGED <<upstream, views, notifiers, viewVars, dataCh, cache,
                   waitVars, asked, got, templateVars, controlVars>>

RecallMiss(n) ==
    /\ rpc[n] = "poll"
    /\ vstate' = Polled(views[rdep[n]])
    /\ rdep' = [rdep EXCEPT ![n] = None]
    /\ Goto(n, "eval")
    /\ UNCHANGED <<upstream, trackerVars, stopped, vdata, dataCh, cache,
                   waitVars, asked, got, templateVars, controlVars>>

\* The evaluation ends and its result is cached.
Rendered(n) ==
    /\ rpc[n] = "eval"
    /\ rendered' = [rendered EXCEPT ![n] = got[n]]
    /\ Goto(n, "sweep")
    /\ UNCHANGED <<upstream, trackerVars, viewVars, dataCh, cache, waitVars,
                   rdep, asked, got, dirty, controlVars>>

\* A parse or execution error: Run returns it, without Sweep.
RenderFails(n) ==
    /\ MayFail
    /\ rpc[n] = "eval"
    /\ Goto(n, "idle")
    /\ UNCHANGED <<upstream, trackerVars, viewVars, dataCh, cache, waitVars,
                   rdep, asked, got, templateVars, controlVars>>

\* Mutant: the views are deleted, but not stopped.
SweepWithoutStop(n) ==
    LET used  == Used(Kept(tracked, n))
        swept == {d \in Deps : views[d] # None /\ d \notin used}
    IN  /\ tracked' = Kept(tracked, n)
        /\ views' = [d \in Deps |-> IF d \in swept THEN None ELSE views[d]]
        /\ UNCHANGED stopped
        /\ cache' = [d \in Deps |-> IF d \in swept THEN None ELSE cache[d]]

\* tracker.sweep: stop and delete the views that no kept pair uses, and their
\* cache entries, in one critical section.
SweepEffect(n) ==
    LET used    == Used(Kept(tracked, n))
        swept   == {d \in Deps : views[d] # None /\ d \notin used}
    IN  /\ tracked' = Kept(tracked, n)
        /\ views' = [d \in Deps |-> IF d \in swept THEN None ELSE views[d]]
        /\ stopped' = [v \in Views |->
                         stopped[v] \/ \E d \in swept : views[d] = v]
        /\ cache' = [d \in Deps |-> IF d \in swept THEN None ELSE cache[d]]

Sweep(n) ==
    /\ rpc[n] = "sweep"
    /\ SweepEffect(n)
    /\ Goto(n, "complete")
    /\ UNCHANGED <<upstream, notifiers, vstate, vdata, dataCh, waitVars,
                   rdep, asked, got, templateVars, controlVars>>

\* Run returns ResolveEvent{Complete: w.Complete(tmpl), ...}.
Return(n) ==
    /\ rpc[n] = "complete"
    /\ Goto(n, "idle")
    /\ UNCHANGED <<upstream, trackerVars, viewVars, dataCh, cache, waitVars,
                   rdep, asked, got, templateVars, controlVars>>

-----------------------------------------------------------------------------
(* Deregister and Stop, called from a third goroutine.                     *)

\* The caller deregisters a template that it is not running (the comment on
\* Register: a Notifier is not used unregistered), at any time otherwise.
Deregister(n) ==
    /\ cpc = "idle"
    /\ rpc[n] = "idle"
    /\ n \in notifiers
    /\ notifiers' = notifiers \ {n}
    /\ ctarget' = n
    /\ cpc' = "mark"
    /\ UNCHANGED <<upstream, tracked, views, viewVars, dataCh, cache,
                   waitVars, resolverVars, templateVars, halted>>

\* Mutant: Deregister forgets to mark.
DeregisterWithoutMark ==
    /\ cpc = "mark"
    /\ cpc' = "sweep"
    /\ UNCHANGED <<upstream, trackerVars, viewVars, dataCh, cache, waitVars,
                   resolverVars, templateVars, ctarget, halted>>

DeregisterMark ==
    /\ cpc = "mark"
    /\ tracked' = MarkForSweep(tracked, ctarget)
    /\ cpc' = "sweep"
    /\ UNCHANGED <<upstream, views, notifiers, viewVars, dataCh, cache,
                   waitVars, resolverVars, templateVars, ctarget, halted>>

DeregisterSweep ==
    /\ cpc = "sweep"
    /\ SweepEffect(ctarget)
    /\ cpc' = "idle"
    /\ ctarget' = None
    /\ UNCHANGED <<upstream, notifiers, vstate, vdata, dataCh, waitVars,
                   resolverVars, templateVars, halted>>

\* Stop: stopViews deletes the views but not the tracked pairs.
StopViews ==
    /\ MayStop
    /\ cpc = "idle"
    /\ ~halted
    /\ halted' = TRUE
    /\ stopped' = [v \in Views |-> stopped[v] \/ \E d \in Deps : views[d] = v]
    /\ views' = [d \in Deps |-> None]
    /\ cpc' = "signal"
    /\ UNCHANGED <<upstream, tracked, notifiers, vstate, vdata, dataCh,
                   cache, waitVars, resolverVars, templateVars, ctarget>>

\* stopCh is drained and gets the signal.
StopSignal ==
    /\ cpc = "signal"
    /\ cpc' = "reset"
    /\ stopCh' = TRUE
    /\ UNCHANGED <<upstream, trackerVars, viewVars, dataCh, cache, wpc, wview,
                   wdata, toNotify, notified, resolverVars, templateVars,
                   ctarget, halted>>

StopReset ==
    /\ cpc = "reset"
    /\ cache' = Nothing
    /\ cpc' = "idle"
    /\ UNCHANGED <<upstream, trackerVars, viewVars, dataCh, waitVars,
                   resolverVars, templateVars, ctarget, halted>>

-----------------------------------------------------------------------------

ViewStep(v) ==
    ViewFetch(v) \/ ViewDeliver(v) \/ ViewEnds(v) \/ ViewGivesUp(v)

WaitStep ==
    \/ WaitStopped \/ WaitReceive \/ WaitSave \/ WaitLookup \/ WaitNotified
    \/ \E n \in Notifiers : WaitNotify(n)

RunStep(n) ==
    \/ Execute(n) \/ TrackLookup(n) \/ TrackAdd(n)
    \/ Recall(n) \/ RecallHit(n) \/ RecallMiss(n)
    \/ Rendered(n) \/ RenderFails(n) \/ Sweep(n) \/ Return(n)
    \/ \E d \in Deps : Ask(n, d)

ControlStep ==
    \/ \E n \in Notifiers : Deregister(n)
    \/ DeregisterMark \/ DeregisterSweep
    \/ StopViews \/ StopSignal \/ StopReset

Next ==
    \/ \E d \in Deps : Change(d)
    \/ \E v \in Views : ViewStep(v)
    \/ WaitEnter \/ WaitLeave \/ WaitStep
    \/ \E n \in Notifiers : RunMark(n) \/ RunStep(n)
    \/ ControlStep

Spec == Init /\ [][Next]_vars

\* Goroutines that can run do run, and Deregister and Stop go on once called.
\* The callers need not call anything.
Fairness ==
    /\ WF_vars(WaitStep)
    /\ WF_vars(DeregisterMark \/ DeregisterSweep \/ StopSignal \/ StopReset)
    /\ \A n \in Notifiers : WF_vars(RunStep(n))

FairSpec == Spec /\ Fairness

-----------------------------------------------------------------------------
(* Properties.                                                             *)

\* The tracker's table and the view objects agree, whoever adds and sweeps
\* concurrently: a view in the table is in use and not stopped, a pair has a
\* view (until Stop), and every goroutine that polls belongs to a view in the
\* table or has been told to stop.  Hence no view is stopped twice, which
\* would close a closed channel, and none is leaked.
ViewsAccounted ==
    /\ \A d \in Deps : views[d] # None =>
          ~stopped[views[d]] /\ \E tp \in tracked : tp.view = d
    /\ \A tp \in tracked : halted \/ views[tp.view] # None
    /\ \A v \in Views : vstate[v] # "free" =>
          stopped[v] \/ views[DepOf(v)] = v

\* A value is saved and n has not been told yet.
AboutToNotify(n, d) ==
    /\ wview # None
    /\ DepOf(wview) = d
    /\ wpc = "lookup" \/ (wpc = "notify" /\ n \in toNotify)

\* Save comes before Notify in wait, track before Recall in the Recaller, and
\* the signal is cleared before the evaluation: together they make sure that
\* a template that is neither dirty nor about to be notified was rendered
\* from what is in the cache, also when the value changed in the middle of
\* the evaluation or while other templates swept the view (as long as the
\* process runs: not after Stop or a panic).
NoStaleTemplate ==
    \A tp \in tracked :
        LET n == tp.notify
            d == tp.view
        IN  rpc[n] = "idle" /\ d \in asked[n] /\ n \in notifiers
              /\ ~halted /\ wpc # "panic"
              => rendered[n][d] = cache[d] \/ dirty[n] \/ AboutToNotify(n, d)

\* Deregister deletes the notifier in one critical section and its pairs in a
\* later one, while wait looks up whom to notify.  Wait meets a pair without
\* its notifier, and panics, only between the two: what Deregister leaves
\* behind, and what other templates add and sweep meanwhile, never names a
\* notifier that is gone.
PanicsOnlyInDeregister ==
    [][WaitLookup /\ wpc' = "panic" => cpc \in {"mark", "sweep"}]_vars

\* Wait never panics.  Not so: the comment on Register knows one way to it,
\* "Trying to use a Notifier without Registering it", and Deregister while
\* Wait or Watch runs is another.
NoPanic == wpc # "panic"

\* Stop ends the Wait or Watch that is running, also one that is saving and
\* notifying when the signal is sent, or that finds its signal and data ready
\* together.
StopEndsWait ==
    (cpc = "reset" /\ wpc # "away" /\ stopCh) ~> (wpc \in {"away", "panic"})

\* ResolveEvent: Complete is reported only if the last evaluation, also one
\* that failed, got a value for every dependency it asked for, whatever other
\* templates marked, swept and recalled meanwhile.
CompleteMeansRecalled ==
    [][\A n \in Notifiers :
         Return(n) /\ Complete(tracked, n) /\ ~halted =>
             \A d \in asked[n] : got[n][d] # None]_vars

\* ResolveEvent: the contents that are reported complete come from the last
\* evaluation.  Not so when that one failed: it has consumed the dirty flag,
\* and the next Run reports the contents of the one before it.
CompleteMeansRendered ==
    [][\A n \in Notifiers :
         Return(n) /\ Complete(tracked, n) /\ ~halted =>
             rendered[n] = got[n]]_vars

\* README.md:10, "monitoring those services for data changes": a dependency
\* that a template has used is polled from then on (or was, until its
\* retries ran out).
UsedIsPolled ==
    \A tp \in tracked :
        tp.cacheAccessed /\ ~halted /\ views[tp.view] # None =>
            vstate[views[tp.view]] # "new"
=============================================================================
