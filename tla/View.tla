-------------------------------- MODULE View --------------------------------
(***************************************************************************)
(* view.go: one view, that is one watched dependency.                      *)
(*                                                                         *)
(* A view is polled by goroutines running poll, each of which starts one   *)
(* fetch goroutine at a time and talks to it over three channels of        *)
(* capacity one.  Data is handed to the watcher over dataCh, errors over   *)
(* the unbuffered errCh.  stop may run at any time, in two steps.          *)
(*                                                                         *)
(* The upstream server (Consul) is external: a leader and a lagging        *)
(* follower, each an index with the value it had at that index.            *)
(***************************************************************************)
EXTENDS Naturals, FiniteSets

CONSTANTS
    Pollers,        \* goroutines started with `go v.poll`
    Values,         \* what a dependency can return
    Nil,            \* the nil value, returned while a resource is absent
    MaxIndex,       \* bound on the server's index
    MaxRetries,     \* retryFunc retries while retries < MaxRetries
    MaxErrors,      \* bound on the errors the server answers with
    Cap,            \* capacity of dataCh
    UseMaxStale,    \* maxStale # 0
    BlockingQuery   \* the dependency is an idep.BlockingQuery

ASSUME ViewAssumption ==
    /\ Nil \in Values
    /\ MaxIndex \in Nat \ {0}
    /\ MaxRetries \in Nat
    /\ MaxErrors \in Nat
    /\ Cap \in Nat \ {0}
    /\ UseMaxStale \in BOOLEAN
    /\ BlockingQuery \in BOOLEAN

VARIABLES
    \* the server
    leader,        \* [index, data]
    follower,      \* [index, data], answers reads that allow stale data
    errorsLeft,    \* how many more requests may fail
    restarted,     \* history: "yes" once the server lost its state, "reused"
                   \* once it gives out an index the view has seen before
    \* fields of the view
    isPolling,
    lastIndex,
    data,
    receivedData,
    stopping,      \* progress of stop()
    \* poll goroutines
    ppc,           \* where each one is
    retries,       \* its local variable
    \* the fetch goroutine of each poll goroutine, and their channels
    fpc,
    allowStale,
    reply,
    doneCh,        \* closed?
    successCh,     \* holds a signal?
    fetchErrCh,    \* the error it holds, or "none"
    \* the watcher, as far as one view sees it
    dataCh,        \* how many times the view is queued
    wpc,
    held,          \* the value Wait has read and not saved yet
    cache,         \* the value saved for this view
    late           \* history: deliveries made after stopCh was closed

serverVars == <<leader, follower, errorsLeft, restarted>>
fetchVars  == <<fpc, allowStale, reply, doneCh, successCh, fetchErrCh>>
waitVars   == <<wpc, held, cache>>
vars == <<serverVars, isPolling, lastIndex, data, receivedData, stopping,
          ppc, retries, fetchVars, dataCh, waitVars, late>>

ErrorKinds == {"400", "500", "other"}
Uncached   == "uncached"

Answers == [index : 1..MaxIndex, data : Values]
Replies == [index : 1..MaxIndex, data : Values, old : BOOLEAN]
NoReply == [index |-> 1, data |-> Nil, old |-> FALSE]

StopClosed == stopping = "closed"

TypeOK ==
    /\ leader \in Answers
    /\ follower \in Answers
    /\ errorsLeft \in 0..MaxErrors
    /\ restarted \in {"no", "yes", "reused"}
    /\ isPolling \in BOOLEAN
    /\ lastIndex \in 0..MaxIndex
    /\ data \in Values
    /\ receivedData \in BOOLEAN
    /\ stopping \in {"no", "depStopped", "closed"}
    /\ ppc \in [Pollers -> {"idle", "flag", "spawn", "wait", "deliver",
                            "sleep", "push", "unflag"}]
    /\ retries \in [Pollers -> 0..MaxRetries]
    /\ fpc \in [Pollers -> {"none", "check", "query", "index", "store",
                            "done"}]
    /\ allowStale \in [Pollers -> BOOLEAN]
    /\ reply \in [Pollers -> Replies]
    /\ doneCh \in [Pollers -> BOOLEAN]
    /\ successCh \in [Pollers -> BOOLEAN]
    /\ fetchErrCh \in [Pollers -> ErrorKinds \cup {"none"}]
    /\ dataCh \in 0..Cap
    /\ wpc \in {"away", "select", "save", "drain"}
    /\ held \in Values
    /\ cache \in Values \cup {Uncached}
    /\ late \in Nat

Init ==
    /\ leader \in [index : {1}, data : Values]
    /\ follower = leader
    /\ errorsLeft = MaxErrors
    /\ restarted = "no"
    /\ isPolling = FALSE
    /\ lastIndex = 0
    /\ data = Nil
    /\ receivedData = FALSE
    /\ stopping = "no"
    /\ ppc = [p \in Pollers |-> "idle"]
    /\ retries = [p \in Pollers |-> 0]
    /\ fpc = [p \in Pollers |-> "none"]
    /\ allowStale = [p \in Pollers |-> FALSE]
    /\ reply = [p \in Pollers |-> NoReply]
    /\ doneCh = [p \in Pollers |-> FALSE]
    /\ successCh = [p \in Pollers |-> FALSE]
    /\ fetchErrCh = [p \in Pollers |-> "none"]
    /\ dataCh = 0
    /\ wpc = "away"
    /\ held = Nil
    /\ cache = Uncached
    /\ late = 0

-----------------------------------------------------------------------------
(* The server.                                                             *)

\* The indexes that fetch compares with, now or when it looks at its reply.
IndexesKnown ==
    {lastIndex} \cup {reply[p].index : p \in {q \in Pollers : fpc[q] = "index"}}

\* Every change moves the index; it may leave the watched value as it was.
ServerWrite ==
    /\ leader.index < MaxIndex
    /\ \E v \in Values : leader' = [index |-> leader.index + 1, data |-> v]
    /\ restarted' = IF leader.index + 1 \in IndexesKnown THEN "reused"
                                                         ELSE restarted
    /\ UNCHANGED <<follower, errorsLeft, isPolling, lastIndex, data,
                   receivedData, stopping, ppc, retries, fetchVars, dataCh,
                   waitVars, late>>

\* The server comes back, once, with a smaller index.
ServerRestart ==
    /\ leader.index > 1
    /\ restarted = "no"
    /\ restarted' = IF 1 \in IndexesKnown THEN "reused" ELSE "yes"
    /\ \E v \in Values : leader' = [index |-> 1, data |-> v]
    /\ follower' = leader'
    /\ UNCHANGED <<errorsLeft, isPolling, lastIndex, data, receivedData,
                   stopping, ppc, retries, fetchVars, dataCh, waitVars, late>>

\* Only reads that allow stale data get to see the follower.
ServerReplicate ==
    /\ UseMaxStale
    /\ follower # leader
    /\ follower' = leader
    /\ UNCHANGED <<leader, errorsLeft, restarted, isPolling, lastIndex, data,
                   receivedData, stopping, ppc, retries, fetchVars, dataCh,
                   waitVars, late>>

-----------------------------------------------------------------------------
(* poll                                                                    *)

\* Watcher.Poll starts a goroutine and returns.  A goroutine is used again
\* once it and the fetch it may have left behind have ended.
CallPoll(p) ==
    /\ ppc[p] = "idle"
    /\ fpc[p] = "none"
    /\ ppc' = [ppc EXCEPT ![p] = "flag"]
    /\ UNCHANGED <<serverVars, isPolling, lastIndex, data, receivedData,
                   stopping, retries, fetchVars, dataCh, waitVars, late>>

\* pollingFlag: a second goroutine returns at once.
AlreadyPolling(p) ==
    /\ ppc[p] = "flag"
    /\ isPolling
    /\ ppc' = [ppc EXCEPT ![p] = "idle"]
    /\ UNCHANGED <<serverVars, isPolling, lastIndex, data, receivedData,
                   stopping, retries, fetchVars, dataCh, waitVars, late>>

\* Mutant: the flag is set without a look at it.
SetPollingFlagBlindly(p) ==
    /\ ppc[p] = "flag"
    /\ isPolling' = TRUE
    /\ ppc' = [ppc EXCEPT ![p] = "spawn"]
    /\ UNCHANGED <<serverVars, lastIndex, data, receivedData, stopping,
                   retries, fetchVars, dataCh, waitVars, late>>

SetPollingFlag(p) ==
    /\ ppc[p] = "flag"
    /\ ~isPolling
    /\ isPolling' = TRUE
    /\ ppc' = [ppc EXCEPT ![p] = "spawn"]
    /\ UNCHANGED <<serverVars, lastIndex, data, receivedData, stopping,
                   retries, fetchVars, dataCh, waitVars, late>>

\* Top of the loop: fresh channels and a fresh fetch goroutine.
SpawnFetch(p) ==
    /\ ppc[p] = "spawn"
    /\ ppc' = [ppc EXCEPT ![p] = "wait"]
    /\ fpc' = [fpc EXCEPT ![p] = "check"]
    /\ allowStale' = [allowStale EXCEPT ![p] = UseMaxStale]
    /\ reply' = [reply EXCEPT ![p] = NoReply]
    /\ doneCh' = [doneCh EXCEPT ![p] = FALSE]
    /\ successCh' = [successCh EXCEPT ![p] = FALSE]
    /\ fetchErrCh' = [fetchErrCh EXCEPT ![p] = "none"]
    /\ UNCHANGED <<serverVars, isPolling, lastIndex, data, receivedData,
                   stopping, retries, dataCh, waitVars, late>>

\* The fetch has ended and the iteration with it: nobody reads what is left
\* in its channels.
LeaveChannels(p) ==
    /\ doneCh' = [doneCh EXCEPT ![p] = FALSE]
    /\ successCh' = [successCh EXCEPT ![p] = FALSE]

\* Mutant: new data is not passed on when it follows a retry.
ReceiveDoneAfterRetry(p) ==
    /\ ppc[p] = "wait"
    /\ doneCh[p]
    /\ retries' = [retries EXCEPT ![p] = 0]
    /\ ppc' = [ppc EXCEPT ![p] = IF retries[p] = 0 THEN "deliver" ELSE "spawn"]
    /\ LeaveChannels(p)
    /\ UNCHANGED <<serverVars, isPolling, lastIndex, data, receivedData,
                   stopping, fpc, allowStale, reply, fetchErrCh, dataCh,
                   waitVars, late>>

ReceiveDone(p) ==
    /\ ppc[p] = "wait"
    /\ doneCh[p]
    /\ retries' = [retries EXCEPT ![p] = 0]
    /\ ppc' = [ppc EXCEPT ![p] = "deliver"]
    /\ LeaveChannels(p)
    /\ UNCHANGED <<serverVars, isPolling, lastIndex, data, receivedData,
                   stopping, fpc, allowStale, reply, fetchErrCh, dataCh,
                   waitVars, late>>

\* The inner select takes viewCh, also when stopCh is closed as well.
Deliver(p) ==
    /\ ppc[p] = "deliver"
    /\ dataCh < Cap
    /\ dataCh' = dataCh + 1
    /\ late' = IF StopClosed THEN late + 1 ELSE late
    /\ ppc' = [ppc EXCEPT ![p] = "spawn"]
    /\ UNCHANGED <<serverVars, isPolling, lastIndex, data, receivedData,
                   stopping, retries, fetchVars, waitVars>>

ReceiveSuccess(p) ==
    /\ ppc[p] = "wait"
    /\ successCh[p]
    /\ successCh' = [successCh EXCEPT ![p] = FALSE]
    /\ retries' = [retries EXCEPT ![p] = 0]
    /\ UNCHANGED <<serverVars, isPolling, lastIndex, data, receivedData,
                   stopping, ppc, fpc, allowStale, reply, doneCh, fetchErrCh,
                   dataCh, waitVars, late>>

\* Mutant: one retry too many.
RetriesOneMore(p) == fetchErrCh[p] # "400" /\ retries[p] <= MaxRetries

ShouldRetry(p) == fetchErrCh[p] # "400" /\ retries[p] < MaxRetries

\* A 500 resets the index; a 400, or too many retries, gives up.
ReceiveError(p) ==
    /\ ppc[p] = "wait"
    /\ fetchErrCh[p] # "none"
    /\ fetchErrCh' = [fetchErrCh EXCEPT ![p] = "none"]
    /\ lastIndex' = IF fetchErrCh[p] = "500" THEN 0 ELSE lastIndex
    /\ ppc' = [ppc EXCEPT ![p] = IF ShouldRetry(p) THEN "sleep" ELSE "push"]
    /\ LeaveChannels(p)
    /\ UNCHANGED <<serverVars, isPolling, data, receivedData, stopping,
                   retries, fpc, allowStale, reply, dataCh, waitVars, late>>

RetrySleepEnds(p) ==
    /\ ppc[p] = "sleep"
    /\ retries' = [retries EXCEPT ![p] = @ + 1]
    /\ ppc' = [ppc EXCEPT ![p] = "spawn"]
    /\ UNCHANGED <<serverVars, isPolling, lastIndex, data, receivedData,
                   stopping, fetchVars, dataCh, waitVars, late>>

\* errCh is unbuffered: Wait has to be in its select, and returns the error.
PushError(p) ==
    /\ ppc[p] = "push"
    /\ wpc = "select"
    /\ wpc' = "away"
    /\ ppc' = [ppc EXCEPT ![p] = "unflag"]
    /\ UNCHANGED <<serverVars, isPolling, lastIndex, data, receivedData,
                   stopping, retries, fetchVars, dataCh, held, cache, late>>

\* Mutant: two of the selects lack the case.
PollStoppedAtTimes(p) ==
    /\ ppc[p] \in {"wait", "sleep"}
    /\ StopClosed
    /\ ppc' = [ppc EXCEPT ![p] = "unflag"]
    /\ UNCHANGED <<serverVars, isPolling, lastIndex, data, receivedData,
                   stopping, retries, fetchVars, dataCh, waitVars, late>>

\* The `case <-v.stopCh: return` of the four selects of poll.
PollStopped(p) ==
    /\ ppc[p] \in {"wait", "deliver", "sleep", "push"}
    /\ StopClosed
    /\ ppc' = [ppc EXCEPT ![p] = "unflag"]
    /\ UNCHANGED <<serverVars, isPolling, lastIndex, data, receivedData,
                   stopping, retries, fetchVars, dataCh, waitVars, late>>

\* The deferred unflag, a step of its own after the return; retries dies with
\* the goroutine.
ClearPollingFlag(p) ==
    /\ ppc[p] = "unflag"
    /\ isPolling' = FALSE
    /\ ppc' = [ppc EXCEPT ![p] = "idle"]
    /\ retries' = [retries EXCEPT ![p] = 0]
    /\ UNCHANGED <<serverVars, lastIndex, data, receivedData, stopping,
                   fetchVars, dataCh, waitVars, late>>

-----------------------------------------------------------------------------
(* fetch                                                                   *)

\* allowStale is a local variable of fetch.
FetchReturns(p) ==
    /\ fpc' = [fpc EXCEPT ![p] = "none"]
    /\ allowStale' = [allowStale EXCEPT ![p] = FALSE]

\* Mutant: stopCh is not looked at.
FetchCheckSkipped(p) ==
    /\ fpc[p] = "check"
    /\ fpc' = [fpc EXCEPT ![p] = "query"]
    /\ UNCHANGED <<serverVars, isPolling, lastIndex, data, receivedData,
                   stopping, ppc, retries, allowStale, reply, doneCh,
                   successCh, fetchErrCh, dataCh, waitVars, late>>

\* Top of the loop: leave if the view is stopped.
FetchCheck(p) ==
    /\ fpc[p] = "check"
    /\ IF StopClosed
       THEN FetchReturns(p)
       ELSE fpc' = [fpc EXCEPT ![p] = "query"] /\ UNCHANGED allowStale
    /\ UNCHANGED <<serverVars, isPolling, lastIndex, data, receivedData,
                   stopping, ppc, retries, reply, doneCh, successCh,
                   fetchErrCh, dataCh, waitVars, late>>

\* A consistent read is answered by the leader.  A read that allows stale
\* data is answered by the follower, which may have lost contact for longer
\* than maxStale.
ServerAnswers(p) ==
    IF allowStale[p]
    THEN {[index |-> follower.index, data |-> follower.data, old |-> o] :
            o \in BOOLEAN}
    ELSE {[index |-> leader.index, data |-> leader.data, old |-> FALSE]}

FetchFails(p) ==
    /\ fpc[p] = "query"
    /\ errorsLeft > 0
    /\ errorsLeft' = errorsLeft - 1
    /\ \E k \in ErrorKinds : fetchErrCh' = [fetchErrCh EXCEPT ![p] = k]
    /\ FetchReturns(p)
    /\ UNCHANGED <<leader, follower, restarted, isPolling, lastIndex, data,
                   receivedData, stopping, ppc, retries, reply,
                   doneCh, successCh, dataCh, waitVars, late>>

\* The dependency was stopped and says ErrStopped.  The one of package
\* internal/dependency is not the dep.ErrStopped that fetch compares with, so
\* it is an error like any other.
FetchStopped(p) ==
    /\ fpc[p] = "query"
    /\ stopping # "no"
    /\ fetchErrCh' = [fetchErrCh EXCEPT ![p] = "other"]
    /\ FetchReturns(p)
    /\ UNCHANGED <<serverVars, isPolling, lastIndex, data, receivedData,
                   stopping, ppc, retries, reply, doneCh,
                   successCh, dataCh, waitVars, late>>

\* The context of the request was cancelled: the goroutine ends silently.
FetchCancelled(p) ==
    /\ fpc[p] = "query"
    /\ StopClosed
    /\ FetchReturns(p)
    /\ UNCHANGED <<serverVars, isPolling, lastIndex, data, receivedData,
                   stopping, ppc, retries, reply, doneCh,
                   successCh, fetchErrCh, dataCh, waitVars, late>>

\* Mutant: only the first answer is looked at.
TooOldAtFirst(p, a) == allowStale[p] /\ a.old /\ lastIndex = 0

\* LastContact exceeds maxStale.
TooOld(p, a) == allowStale[p] /\ a.old

\* An answer came.  Signal success without blocking; if the answer is too old
\* ask the leader next; ignore an unchanged index.
FetchAnswered(p) ==
    /\ fpc[p] = "query"
    /\ \E a \in ServerAnswers(p) :
         /\ allowStale' =
                [allowStale EXCEPT ![p] = UseMaxStale /\ ~TooOld(p, a)]
         /\ IF TooOld(p, a) \/ a.index = lastIndex
            THEN fpc' = [fpc EXCEPT ![p] = "check"] /\ UNCHANGED reply
            ELSE /\ fpc' = [fpc EXCEPT ![p] = "index"]
                 /\ reply' = [reply EXCEPT ![p] = a]
    /\ successCh' = [successCh EXCEPT ![p] = TRUE]
    /\ UNCHANGED <<serverVars, isPolling, lastIndex, data, receivedData,
                   stopping, ppc, retries, doneCh, fetchErrCh, dataCh,
                   waitVars, late>>

\* The answer goes out of scope at the end of an iteration.
Forget(p) == [reply EXCEPT ![p] = NoReply]

\* An index that went back starts over.
IndexWentBack(p) ==
    /\ fpc[p] = "index"
    /\ reply[p].index < lastIndex
    /\ lastIndex' = 0
    /\ fpc' = [fpc EXCEPT ![p] = "check"]
    /\ reply' = Forget(p)
    /\ UNCHANGED <<serverVars, isPolling, data, receivedData, stopping, ppc,
                   retries, allowStale, doneCh, successCh, fetchErrCh,
                   dataCh, waitVars, late>>

\* Mutant: what the view has is new enough.
IgnorableOnceReceived(p) == receivedData

\* Nothing new to tell: the value is what the view has, or a blocking query
\* found nothing yet.
Ignorable(p) ==
    \/ receivedData /\ reply[p].data = data
    \/ BlockingQuery /\ reply[p].data = Nil

IndexAdvanced(p) ==
    /\ fpc[p] = "index"
    /\ reply[p].index >= lastIndex
    /\ lastIndex' = reply[p].index
    /\ fpc' = [fpc EXCEPT ![p] = IF Ignorable(p) THEN "check" ELSE "store"]
    /\ reply' = IF Ignorable(p) THEN Forget(p) ELSE reply
    /\ UNCHANGED <<serverVars, isPolling, data, receivedData, stopping, ppc,
                   retries, allowStale, doneCh, successCh, fetchErrCh,
                   dataCh, waitVars, late>>

Store(p) ==
    /\ fpc[p] = "store"
    /\ data' = reply[p].data
    /\ receivedData' = TRUE
    /\ reply' = Forget(p)
    /\ fpc' = [fpc EXCEPT ![p] = "done"]
    /\ UNCHANGED <<serverVars, isPolling, lastIndex, stopping, ppc, retries,
                   allowStale, doneCh, successCh, fetchErrCh, dataCh,
                   waitVars, late>>

CloseDone(p) ==
    /\ fpc[p] = "done"
    /\ doneCh' = [doneCh EXCEPT ![p] = TRUE]
    /\ FetchReturns(p)
    /\ UNCHANGED <<serverVars, isPolling, lastIndex, data, receivedData,
                   stopping, ppc, retries, reply, successCh,
                   fetchErrCh, dataCh, waitVars, late>>

-----------------------------------------------------------------------------
(* stop: dependency.Stop(), close(stopCh), ctxCancel().  The cancelled     *)
(* context adds nothing to the closed stopCh: fetch checks both together,  *)
(* and dependency.Stop may already end a request.                          *)

StopDependency ==
    /\ stopping = "no"
    /\ stopping' = "depStopped"
    /\ UNCHANGED <<serverVars, isPolling, lastIndex, data, receivedData, ppc,
                   retries, fetchVars, dataCh, waitVars, late>>

CloseStopCh ==
    /\ stopping = "depStopped"
    /\ stopping' = "closed"
    /\ UNCHANGED <<serverVars, isPolling, lastIndex, data, receivedData, ppc,
                   retries, fetchVars, dataCh, waitVars, late>>

-----------------------------------------------------------------------------
(* Watcher.Wait, as far as it concerns this view.                          *)

WaitEnter ==
    /\ wpc = "away"
    /\ wpc' = "select"
    /\ UNCHANGED <<serverVars, isPolling, lastIndex, data, receivedData,
                   stopping, ppc, retries, fetchVars, dataCh, held, cache,
                   late>>

\* The context ends, or the watcher is stopped.
WaitLeave ==
    /\ wpc = "select"
    /\ wpc' = "away"
    /\ UNCHANGED <<serverVars, isPolling, lastIndex, data, receivedData,
                   stopping, ppc, retries, fetchVars, dataCh, held, cache,
                   late>>

\* v.Data() is read when the view has been taken from dataCh, cache.Save comes
\* later: the view may have stored other data in between.
WaitTake ==
    /\ wpc \in {"select", "drain"}
    /\ dataCh > 0
    /\ dataCh' = dataCh - 1
    /\ held' = data
    /\ wpc' = "save"
    /\ UNCHANGED <<serverVars, isPolling, lastIndex, data, receivedData,
                   stopping, ppc, retries, fetchVars, cache, late>>

WaitSave ==
    /\ wpc = "save"
    /\ cache' = held
    /\ held' = Nil
    /\ wpc' = "drain"
    /\ UNCHANGED <<serverVars, isPolling, lastIndex, data, receivedData,
                   stopping, ppc, retries, fetchVars, dataCh, late>>

\* dataCh is drained: return to the caller, or select again when nobody is
\* to be notified.
WaitDrained ==
    /\ wpc = "drain"
    /\ dataCh = 0
    /\ wpc' \in {"away", "select"}
    /\ UNCHANGED <<serverVars, isPolling, lastIndex, data, receivedData,
                   stopping, ppc, retries, fetchVars, dataCh, held, cache,
                   late>>

-----------------------------------------------------------------------------

ServerNext == ServerWrite \/ ServerRestart \/ ServerReplicate

PollStep(p) ==
    \/ AlreadyPolling(p) \/ SetPollingFlag(p) \/ SpawnFetch(p)
    \/ ReceiveDone(p) \/ Deliver(p) \/ ReceiveSuccess(p) \/ ReceiveError(p)
    \/ RetrySleepEnds(p) \/ PushError(p) \/ PollStopped(p)
    \/ ClearPollingFlag(p)

FetchStep(p) ==
    \/ FetchCheck(p) \/ FetchAnswered(p) \/ FetchFails(p)
    \/ FetchStopped(p) \/ FetchCancelled(p) \/ IndexWentBack(p)
    \/ IndexAdvanced(p) \/ Store(p) \/ CloseDone(p)

WaitStep == WaitTake \/ WaitSave \/ WaitDrained

Next ==
    \/ ServerNext
    \/ \E p \in Pollers : CallPoll(p) \/ PollStep(p) \/ FetchStep(p)
    \/ StopDependency \/ CloseStopCh
    \/ WaitEnter \/ WaitLeave \/ WaitStep

Spec == Init /\ [][Next]_vars

\* Goroutines that can run do run, a request is answered in the end, and the
\* caller keeps calling Wait until the view is stopped.  Wait's select chooses
\* at random between the cases that are ready, hence the strong fairness of
\* WaitTake and PushError.  Nobody has to call Poll or stop.
Fairness ==
    /\ WF_vars(ServerReplicate)
    /\ \A p \in Pollers :
         /\ WF_vars(PollStep(p)) /\ SF_vars(PushError(p))
         /\ WF_vars(FetchStep(p))
    /\ WF_vars(stopping = "no" /\ WaitEnter)
    /\ WF_vars(WaitStep) /\ SF_vars(WaitTake)
    /\ WF_vars(CloseStopCh)

FairSpec == Spec /\ Fairness

-----------------------------------------------------------------------------
(* Properties.                                                             *)

\* A goroutine between setting and clearing the polling flag.
Holding(p) == ppc[p] \notin {"idle", "flag"}

\* pollingFlag: however many times Poll is called, and although the flag is
\* cleared only after poll has returned, one goroutine polls a view at a time
\* and the flag says so.
SinglePoller ==
    /\ \A p, q \in Pollers : Holding(p) /\ Holding(q) => p = q
    /\ isPolling <=> \E p \in Pollers : Holding(p)

\* A fetch past its check of stopCh.
Fetching(p) == fpc[p] \notin {"none", "check"}

\* The assumption in the comment on fetch, on which its unlocked reads of
\* lastIndex, receivedData and data rest: one instance runs per view, also
\* when a stopped poll leaves its fetch behind and Poll is called again.
SingleFetch ==
    \A p, q \in Pollers : Fetching(p) /\ Fetching(q) => p = q

\* New data on its way to Wait.
InFlight ==
    \/ dataCh > 0
    \/ \E p \in Pollers :
         \/ fpc[p] = "done"
         \/ doneCh[p] /\ ppc[p] = "wait"
         \/ ppc[p] = "deliver"
    \/ StopClosed

\* Once stored, data is never forgotten: while the watcher's cache differs
\* from what the view received, a delivery is still under way (or the view is
\* being stopped).  The queue holds views, not values, so a later store may
\* overtake a queued one, but may not be lost to it.
NoLostUpdate ==
    receivedData /\ cache # data =>
        InFlight \/ (wpc = "save" /\ held = data)

\* maxStale: an answer from a server without contact to the leader for longer
\* than maxStale never becomes the data of the view.
NeverTooOld ==
    [][\A p \in Pollers : Store(p) => ~reply[p].old]_vars

\* As long as the server gives out no index that the view still holds, also
\* after a restart and while a slow answer of before the restart comes in, a
\* view whose lastIndex is the server's has the server's value (or is about to
\* store it): it is safe for fetch to ignore answers with the same index.
IndexMatchesData ==
    restarted # "reused" /\ lastIndex = leader.index =>
        \/ data = leader.data
        \/ \E p \in Pollers : fpc[p] = "store"
        \/ BlockingQuery /\ leader.data = Nil

\* stop: the selects of poll may still prefer viewCh to a closed stopCh, but
\* at most once, whatever polls and fetches were running or are started later.
AtMostOneLateDelivery == late <= 1

\* Once the view is stopped every poll and every fetch goroutine comes to its
\* end: none hangs on a full dataCh, on errCh without a reader, or in a retry.
StopReleases ==
    \A p \in Pollers : StopClosed ~> ~Holding(p) /\ fpc[p] = "none"

\* While a view is being polled, the watcher's cache ends up with the value
\* the server settles on, after any values before it and also after a restart
\* of the server, which begins its indexes again.  Only an index that the view
\* still holds and the restarted server gives out a second time is excepted.
Converges ==
    <>[](\/ restarted = "reused" \/ ~isPolling \/ stopping # "no"
         \/ cache = leader.data
         \/ BlockingQuery /\ leader.data = Nil)

\* The comment on Watcher.Poll, "starts any/all polling as needed": a call
\* that finds the view already polled leaves it polled.
PollEnsuresPolling ==
    [][\A p \in Pollers : AlreadyPolling(p) =>
         StopClosed \/ \E q \in Pollers : Holding(q) /\ ppc[q] # "unflag"]_vars

\* dep/errors.go:8, "a special error that is returned when a dependency is
\* prematurely stopped", which fetch means to swallow: Wait does not fail
\* while the server never did, whatever is stopped in the meantime.
StopIsNoFailure ==
    [][\A p \in Pollers : PushError(p) => errorsLeft < MaxErrors]_vars
=============================================================================
