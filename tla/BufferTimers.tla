---------------------------- MODULE BufferTimers ----------------------------
(***************************************************************************)
(* buffer_period.go with the buffering half of Watcher.wait: a template    *)
(* with a buffer period is not reported when its data changes; a timer is  *)
(* started or snoozed instead, and the template is reported when the timer *)
(* has fired, through the channels t.ch and bufferTrigger.                 *)
(*                                                                         *)
(* Four kinds of goroutines share timers.mux and one mutex per timer: the  *)
(* one in wait, the goroutine of each tick, timers.Run, and a caller of    *)
(* BufferReset or Stop.                                                    *)
(*                                                                         *)
(* Time is counted down, and passes when no goroutine can move: a unit of  *)
(* time is long compared with a step.  time.Timer is external: its         *)
(* channel holds one value, which Reset does not take back (go.mod: 1.19). *)
(***************************************************************************)
EXTENDS Integers, Sequences, FiniteSets, SequencesExt

CONSTANTS
    Ids,        \* notifiers with a buffer period
    MinPeriod, MaxPeriod,   \* min and max of SetBufferPeriod
    ChCap,      \* capacity of timers.ch (10)
    TriggerCap, \* capacity of bufferTrigger
    MaxResets,  \* bound on the calls of BufferReset
    None

\* Goroutines of one timer: without resets there is one at a time.
Slots == 1..(MaxResets + 1)
Off   == -1

\* None is something else than everything it stands in for.
ASSUME BufferAssumption ==
    /\ MinPeriod \in Nat \ {0} /\ MaxPeriod \in Nat /\ MinPeriod <= MaxPeriod
    /\ ChCap \in Nat \ {0} /\ TriggerCap \in Nat \ {0}
    /\ MaxResets \in Nat
    /\ None \notin Ids /\ None \notin Slots /\ None \notin {"wait", "caller"}

VARIABLES
    \* timers
    timersMux,   \* who holds timers.mux
    timers,      \* the IDs in the map
    ch,
    \* each timer
    mux,         \* who holds its mutex
    isActive,
    deadline,    \* time left
    cancelTick,  \* the goroutine that the last cancelTick cancels
    dueIn,       \* its time.Timer: time left, or Off
    fired,       \* its time.Timer: C holds a value
    \* the goroutines started by inactiveTick
    gpc, cancelled,
    \* timers.Run
    rpc, rid, bufferTrigger,
    \* wait
    wpc, cur, toUpdate,
    \* BufferReset and Stop
    cpc, cid, resets,
    \* history: n was notified, and has not been reported since
    pending

timerVars == <<mux, isActive, deadline, cancelTick, dueIn, fired>>
goVars    == <<gpc, cancelled>>
runVars   == <<rpc, rid, bufferTrigger>>
waitVars  == <<wpc, cur, toUpdate>>
callVars  == <<cpc, cid, resets>>
vars == <<timersMux, timers, ch, timerVars, goVars, runVars, waitVars,
          callVars, pending>>

TypeOK ==
    /\ timersMux \in {None, "wait", "caller"}
    /\ timers \subseteq Ids
    /\ ch \in Seq(Ids) /\ Len(ch) <= ChCap
    /\ mux \in [Ids -> {None} \cup Slots]
    /\ isActive \in [Ids -> BOOLEAN]
    /\ deadline \in [Ids -> 0..MaxPeriod]
    /\ cancelTick \in [Ids -> {None} \cup Slots]
    /\ dueIn \in [Ids -> {Off} \cup 0..MaxPeriod]
    /\ fired \in [Ids -> BOOLEAN]
    /\ gpc \in [Ids -> [Slots -> {"none", "select", "lock", "send"}]]
    /\ cancelled \in [Ids -> [Slots -> BOOLEAN]]
    /\ rpc \in {"receive", "lock", "trigger"}
    /\ rid \in Ids \cup {None}
    /\ bufferTrigger \in Seq(Ids) /\ Len(bufferTrigger) <= TriggerCap
    /\ wpc \in {"select", "update", "tick", "active", "activeTick", "arm",
                "start"}
    /\ cur \in Ids \cup {None}
    /\ toUpdate \subseteq Ids
    /\ cpc \in {"idle", "lock", "reset", "stopped"}
    /\ cid \in Ids \cup {None}
    /\ resets \in 0..MaxResets
    /\ pending \in [Ids -> BOOLEAN]

Init ==
    /\ timersMux = None
    /\ timers = {}
    /\ ch = << >>
    /\ mux = [n \in Ids |-> None]
    /\ isActive = [n \in Ids |-> FALSE]
    /\ deadline = [n \in Ids |-> 0]
    /\ cancelTick = [n \in Ids |-> None]
    /\ dueIn = [n \in Ids |-> Off]
    /\ fired = [n \in Ids |-> FALSE]
    /\ gpc = [n \in Ids |-> [g \in Slots |-> "none"]]
    /\ cancelled = [n \in Ids |-> [g \in Slots |-> FALSE]]
    /\ rpc = "receive" /\ rid = None /\ bufferTrigger = << >>
    /\ wpc = "select" /\ cur = None /\ toUpdate = {}
    /\ cpc = "idle" /\ cid = None /\ resets = 0
    /\ pending = [n \in Ids |-> FALSE]

-----------------------------------------------------------------------------
(* Watcher.wait.                                                           *)

\* Data arrived which some notifiers use.
WaitData ==
    /\ wpc = "select"
    /\ \E ns \in SUBSET Ids : ns # {} /\ toUpdate' = ns
    /\ wpc' = "update"
    /\ UNCHANGED <<timersMux, timers, ch, timerVars, goVars, runVars, cur,
                   callVars, pending>>

\* Notify n; Buffering reads the map without timers.mux.  A notifier without
\* a timer is reported by wait itself.
UpdateNext(n) ==
    /\ wpc = "update"
    /\ n \in toUpdate
    /\ toUpdate' = toUpdate \ {n}
    /\ IF n \in timers
       THEN /\ wpc' = "tick" /\ cur' = n
            /\ pending' = [pending EXCEPT ![n] = TRUE]
       ELSE UNCHANGED <<wpc, cur, pending>>
    /\ UNCHANGED <<timersMux, timers, ch, timerVars, goVars, runVars,
                   callVars>>

WaitReturns ==
    /\ wpc = "update"
    /\ toUpdate = {}
    /\ wpc' = "select"
    /\ UNCHANGED <<timersMux, timers, ch, timerVars, goVars, runVars, cur,
                   toUpdate, callVars, pending>>

\* bufferTrigger is drained, and its notifiers are reported.
WaitTrigger ==
    /\ wpc = "select"
    /\ bufferTrigger # << >>
    /\ pending' = [n \in Ids |-> pending[n] /\ n \notin ToSet(bufferTrigger)]
    /\ bufferTrigger' = << >>
    /\ UNCHANGED <<timersMux, timers, ch, timerVars, goVars, rpc, rid,
                   waitVars, callVars>>

\* timers._tick: Buffering says TRUE also when the timer is gone by now.
TickLock ==
    /\ wpc = "tick"
    /\ timersMux = None
    /\ IF cur \in timers
       THEN wpc' = "active" /\ timersMux' = "wait" /\ UNCHANGED cur
       ELSE wpc' = "update" /\ cur' = None /\ UNCHANGED timersMux
    /\ UNCHANGED <<timers, ch, timerVars, goVars, runVars, toUpdate,
                   callVars, pending>>

\* timer.active, under the timer's read lock.
TickIsActive ==
    /\ wpc = "active"
    /\ mux[cur] = None
    /\ wpc' = IF isActive[cur] THEN "activeTick" ELSE "arm"
    /\ UNCHANGED <<timersMux, timers, ch, timerVars, goVars, runVars, cur,
                   toUpdate, callVars, pending>>

\* tick is done, and with it timers.mux.
TickReturns == wpc' = "update" /\ cur' = None /\ timersMux' = None

\* Mutants: snooze past the deadline; add to the time left.
SnoozedToMin(n) == IF isActive[n] THEN MinPeriod ELSE dueIn[n]
SnoozedToSum(n) == IF isActive[n] THEN dueIn[n] + MinPeriod ELSE dueIn[n]

\* Snooze, up to the deadline.  Not after isActive was cleared in between.
SnoozedTo(n) ==
    IF ~isActive[n] \/ deadline[n] = 0 THEN dueIn[n]
    ELSE IF MinPeriod < deadline[n] THEN MinPeriod ELSE deadline[n]

ActiveTick ==
    /\ wpc = "activeTick"
    /\ mux[cur] = None
    /\ dueIn' = [dueIn EXCEPT ![cur] = SnoozedTo(cur)]
    /\ TickReturns
    /\ UNCHANGED <<timers, ch, mux, isActive, deadline, cancelTick, fired,
                   goVars, runVars, toUpdate, callVars, pending>>

\* inactiveTick makes or resets the time.Timer before it takes the mutex.
InactiveArm ==
    /\ wpc = "arm"
    /\ dueIn' = [dueIn EXCEPT ![cur] = MinPeriod]
    /\ wpc' = "start"
    /\ UNCHANGED <<timersMux, timers, ch, mux, isActive, deadline,
                   cancelTick, fired, goVars, runVars, cur, toUpdate,
                   callVars, pending>>

InactiveStart ==
    /\ wpc = "start"
    /\ mux[cur] = None
    /\ isActive' = [isActive EXCEPT ![cur] = TRUE]
    /\ deadline' = [deadline EXCEPT ![cur] = MaxPeriod]
    /\ \E g \in Slots :
         /\ gpc[cur][g] = "none"
         /\ \A h \in Slots : gpc[cur][h] = "none" => g <= h
         /\ gpc' = [gpc EXCEPT ![cur][g] = "select"]
         /\ cancelled' = [cancelled EXCEPT ![cur][g] = FALSE]
         /\ cancelTick' = [cancelTick EXCEPT ![cur] = g]
    /\ TickReturns
    /\ UNCHANGED <<timers, ch, mux, dueIn, fired, runVars, toUpdate,
                   callVars, pending>>

-----------------------------------------------------------------------------
(* time.Timer, and the goroutine of a buffer period.                       *)

Fire(n) ==
    /\ dueIn[n] = 0
    /\ dueIn' = [dueIn EXCEPT ![n] = Off]
    /\ fired' = [fired EXCEPT ![n] = TRUE]
    /\ UNCHANGED <<timersMux, timers, ch, mux, isActive, deadline,
                   cancelTick, goVars, runVars, waitVars, callVars, pending>>

\* The select of the goroutine: the timer, or the cancelled context.
ReceiveC(n, g) ==
    /\ gpc[n][g] = "select"
    /\ fired[n]
    /\ fired' = [fired EXCEPT ![n] = FALSE]
    /\ gpc' = [gpc EXCEPT ![n][g] = "lock"]
    /\ UNCHANGED <<timersMux, timers, ch, mux, isActive, deadline,
                   cancelTick, dueIn, cancelled, runVars, waitVars,
                   callVars, pending>>

\* Its cancel function may still be called, and does nothing then.
Forgotten(n, g) ==
    cancelTick' = [cancelTick EXCEPT ![n] = IF @ = g THEN None ELSE @]

ReceiveCancel(n, g) ==
    /\ gpc[n][g] = "select"
    /\ cancelled[n][g]
    /\ gpc' = [gpc EXCEPT ![n][g] = "none"]
    /\ cancelled' = [cancelled EXCEPT ![n][g] = FALSE]
    /\ Forgotten(n, g)
    /\ UNCHANGED <<timersMux, timers, ch, mux, isActive, deadline, dueIn,
                   fired, runVars, waitVars, callVars, pending>>

LockTimer(n, g) ==
    /\ gpc[n][g] = "lock"
    /\ mux[n] = None
    /\ mux' = [mux EXCEPT ![n] = g]
    /\ gpc' = [gpc EXCEPT ![n][g] = "send"]
    /\ UNCHANGED <<timersMux, timers, ch, isActive, deadline, cancelTick,
                   dueIn, fired, cancelled, runVars, waitVars, callVars,
                   pending>>

\* t.ch <- t.id while holding the timer's mutex.
Send(n, g) ==
    /\ gpc[n][g] = "send"
    /\ Len(ch) < ChCap
    /\ ch' = Append(ch, n)
    /\ isActive' = [isActive EXCEPT ![n] = FALSE]
    /\ mux' = [mux EXCEPT ![n] = None]
    /\ gpc' = [gpc EXCEPT ![n][g] = "none"]
    /\ cancelled' = [cancelled EXCEPT ![n][g] = FALSE]
    /\ Forgotten(n, g)
    /\ UNCHANGED <<timersMux, timers, deadline, dueIn, fired, runVars,
                   waitVars, callVars, pending>>

-----------------------------------------------------------------------------
(* timers.Run.  The map `buffered`, which it fills, is read by tests only. *)

RunReceive ==
    /\ rpc = "receive"
    /\ ch # << >>
    /\ rid' = Head(ch)
    /\ ch' = Tail(ch)
    /\ rpc' = "lock"
    /\ UNCHANGED <<timersMux, timers, timerVars, goVars, bufferTrigger,
                   waitVars, callVars, pending>>

RunLock ==
    /\ rpc = "lock"
    /\ timersMux = None
    /\ rpc' = "trigger"
    /\ UNCHANGED <<timersMux, timers, ch, timerVars, goVars, rid,
                   bufferTrigger, waitVars, callVars, pending>>

RunTrigger ==
    /\ rpc = "trigger"
    /\ Len(bufferTrigger) < TriggerCap
    /\ bufferTrigger' = Append(bufferTrigger, rid)
    /\ rid' = None
    /\ rpc' = "receive"
    /\ UNCHANGED <<timersMux, timers, ch, timerVars, goVars, waitVars,
                   callVars, pending>>

-----------------------------------------------------------------------------
(* SetBufferPeriod, BufferReset and Stop.                                  *)

\* timers.Add.  A second period for the same ID is ignored, and the caller
\* sets none after Stop.
Add(n) ==
    /\ cpc = "idle"
    /\ timersMux = None
    /\ n \notin timers
    /\ timers' = timers \cup {n}
    /\ UNCHANGED <<timersMux, ch, timerVars, goVars, runVars, waitVars,
                   callVars, pending>>

BufferReset(n) ==
    /\ cpc = "idle"
    /\ resets < MaxResets
    /\ resets' = resets + 1
    /\ cid' = n
    /\ cpc' = "lock"
    /\ UNCHANGED <<timersMux, timers, ch, timerVars, goVars, runVars,
                   waitVars, pending>>

ResetLock ==
    /\ cpc = "lock"
    /\ timersMux = None
    /\ timersMux' = "caller"
    /\ cpc' = "reset"
    /\ UNCHANGED <<timers, ch, timerVars, goVars, runVars, waitVars, cid,
                   resets, pending>>

\* Mutant: isActive is not cleared.
ResetTimerStaysActive ==
    /\ cpc = "reset"
    /\ mux[cid] = None
    /\ IF isActive[cid]
       THEN /\ cancelled' = [cancelled EXCEPT ![cid] =
                   [g \in Slots |-> @[g] \/ g = cancelTick[cid]]]
            /\ pending' = [pending EXCEPT ![cid] = wpc = "tick" /\ cur = cid]
       ELSE UNCHANGED <<cancelled, pending>>
    /\ timersMux' = None
    /\ cid' = None
    /\ cpc' = "idle"
    /\ UNCHANGED <<timers, ch, mux, isActive, deadline, cancelTick, dueIn,
                   fired, gpc, runVars, waitVars, resets>>

\* timer.reset: the time.Timer itself goes on.  The caller takes care of what
\* was pending, except of a notification whose tick comes after.
ResetTimer ==
    /\ cpc = "reset"
    /\ mux[cid] = None
    /\ IF isActive[cid]
       THEN /\ isActive' = [isActive EXCEPT ![cid] = FALSE]
            /\ cancelled' = [cancelled EXCEPT ![cid] =
                   [g \in Slots |-> @[g] \/ g = cancelTick[cid]]]
            /\ pending' = [pending EXCEPT ![cid] = wpc = "tick" /\ cur = cid]
       ELSE UNCHANGED <<isActive, cancelled, pending>>
    /\ timersMux' = None
    /\ cid' = None
    /\ cpc' = "idle"
    /\ UNCHANGED <<timers, ch, mux, deadline, cancelTick, dueIn, fired, gpc,
                   runVars, waitVars, resets>>

\* timers.Stop stops every time.Timer and drops the timers; goroutines that
\* wait for a timer are left behind.
Stop ==
    /\ cpc = "idle"
    /\ timersMux = None
    /\ timers' = {}
    /\ dueIn' = [n \in Ids |-> Off]
    /\ cpc' = "stopped"
    /\ UNCHANGED <<timersMux, ch, mux, isActive, deadline, cancelTick, fired,
                   goVars, runVars, waitVars, cid, resets, pending>>

-----------------------------------------------------------------------------

WaitStep ==
    \/ \E n \in Ids : UpdateNext(n)
    \/ WaitReturns \/ WaitTrigger
    \/ TickLock \/ TickIsActive \/ ActiveTick \/ InactiveArm \/ InactiveStart

GoStep(n, g) ==
    ReceiveC(n, g) \/ ReceiveCancel(n, g) \/ LockTimer(n, g) \/ Send(n, g)

RunStep == RunReceive \/ RunLock \/ RunTrigger

ResetStep == ResetLock \/ ResetTimer

\* Somebody has something to do.  A timer that is due fires first.
Quiet ==
    /\ wpc = "select" /\ bufferTrigger = << >>
    /\ rpc = "receive" /\ ch = << >>
    /\ cpc \in {"idle", "stopped"}
    /\ \A n \in Ids :
         /\ dueIn[n] # 0
         /\ \A g \in Slots : \/ gpc[n][g] = "none"
                             \/ /\ gpc[n][g] = "select"
                                /\ ~fired[n] /\ ~cancelled[n][g]

LessOne(t) == IF t > 0 THEN t - 1 ELSE t

TimePasses ==
    /\ Quiet
    /\ \E n \in Ids : dueIn[n] > 0
    /\ dueIn' = [n \in Ids |-> LessOne(dueIn[n])]
    /\ deadline' = [n \in Ids |-> LessOne(deadline[n])]
    /\ UNCHANGED <<timersMux, timers, ch, mux, isActive, cancelTick, fired,
                   goVars, runVars, waitVars, callVars, pending>>

Next ==
    \/ WaitData \/ WaitStep
    \/ \E n \in Ids : Fire(n) \/ \E g \in Slots : GoStep(n, g)
    \/ RunStep
    \/ \E n \in Ids : Add(n) \/ BufferReset(n)
    \/ ResetStep \/ Stop
    \/ TimePasses

Spec == Init /\ [][Next]_vars

\* Goroutines that can run do run, and time passes however often data
\* arrives.  The select of wait chooses at random, and a mutex is granted in
\* the end: strong fairness where others come and go.
Fairness ==
    /\ SF_vars(TimePasses)
    /\ WF_vars(WaitStep) /\ SF_vars(WaitTrigger)
    /\ WF_vars(RunStep) /\ SF_vars(RunLock)
    /\ WF_vars(ResetStep) /\ SF_vars(ResetLock)
    /\ \A n \in Ids :
         /\ WF_vars(Fire(n))
         /\ \A g \in Slots : WF_vars(GoStep(n, g))

FairSpec == Spec /\ Fairness

-----------------------------------------------------------------------------
(* Properties.                                                             *)

\* A goroutine that is on its way to report n, or will be when n's timer fires.
Buffered(n) ==
    \/ \E g \in Slots :
         \/ gpc[n][g] \in {"lock", "send"}
         \/ /\ gpc[n][g] = "select" /\ ~cancelled[n][g]
            /\ fired[n] \/ dueIn[n] # Off

Queued(n) == n \in ToSet(ch) \cup {rid} \cup ToSet(bufferTrigger)

\* A notification that Buffering held back is never lost: a timer with a
\* goroutine waiting for it, or an ID on its way through the channels, will
\* report it, whether the tick met the timer active, inactive, or about to
\* change (unless the watcher is stopped).
NoLostTick ==
    \A n \in Ids :
        pending[n] => \/ Buffered(n) \/ Queued(n)
                      \/ cur = n
                      \/ cpc = "stopped"

\* SetBufferPeriod(min, max): however often a template is notified, its timer
\* is never snoozed past max after the first notification.
DueByDeadline ==
    \A n \in Ids : isActive[n] /\ dueIn[n] # Off => dueIn[n] <= deadline[n]

\* A template under a constant stream of notifications is reported again and
\* again: the period ends, and neither its goroutine, Run nor wait hangs.  (With
\* ChCap + 2 templates or more they may: NoCircularWait below.)
PendingIsReported ==
    \A n \in Ids : pending[n] ~> (~pending[n] \/ cpc = "stopped")

\* The comment on timers, "a threadsafe object", asks that wait, holding
\* timers.mux in a tick, never waits for a goroutine which waits for Run to make
\* room in t.ch, while Run waits for timers.mux, or for wait to make room in
\* bufferTrigger.  It does not hold: ChCap + 2 templates whose periods end
\* together, one of them ticked then, close the circle, and nothing in the code
\* limits the templates.  With fewer they cannot, by counting, so no run has it.
NoCircularWait ==
    ~ /\ wpc \in {"active", "activeTick", "start"}
      /\ \E g \in Slots : mux[cur] = g /\ gpc[cur][g] = "send"
      /\ Len(ch) = ChCap
      /\ \/ rpc = "lock"
         \/ rpc = "trigger" /\ Len(bufferTrigger) = TriggerCap

\* The comment in activeTick: a timer that has fired is not snoozed.
FiredIsNotSnoozed ==
    [][\A n \in Ids :
         ActiveTick /\ cur = n /\ isActive[n] =>
             \A g \in Slots : gpc[n][g] # "lock"]_vars
=============================================================================
