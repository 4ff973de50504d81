----------------------------- MODULE FileQuery ------------------------------
(***************************************************************************)
(* The queries that watch a file, and the view that calls their Fetch:     *)
(*   "file"   internal/dependency/file.go                                  *)
(*   "agent"  internal/dependency/vault_agent_token.go, which sets the     *)
(*            token of the Vault client itself                             *)
(*   "token"  vaulttoken/vault_agent_token.go, which hands the token on    *)
(* Every Fetch starts a goroutine that looks at the file until its stat    *)
(* differs from the last one; Fetch then reads the file.                   *)
(***************************************************************************)
EXTENDS Integers

CONSTANTS
    Contents,    \* of the file
    MaxStat,     \* bounds
    MaxSlips,    \* on answers within one second, or after the clock was set back
    Cap,         \* of dataCh
    None

VARIABLES
    file,        \* external: what the file holds, None without one
    fileStat,    \* external: its size and time of modification, or None
    query,       \* which one
    qpc,         \* Fetch, and the fetch and the poll of the view around it
    watchers,    \* the goroutines of watch: for each its place and lastStat
    stat,        \* d.stat
    offered,     \* what ch of the running Fetch holds, or None
    taken,       \* the result that Fetch is working on
    answer,      \* what Fetch is about to return
    stopped,     \* stopCh of the query and of the view are closed
    slips,
    indexed,     \* of the view: lastIndex is not zero
    received, viewed,
    dataCh,      \* how often the view is queued
    client,      \* the token of the Vault client
    missed       \* history: the view ignored the last answer for its index

fileVars  == <<file, fileStat>>
viewVars  == <<indexed, received, viewed, dataCh, missed>>
qvars == <<query, qpc, watchers, stat, offered, taken, answer, stopped,
           slips, viewVars>>

Failed == -1
Stats  == 0..MaxStat

ASSUME FileQueryAssumption ==
    /\ None \notin Contents \cup Stats \cup {Failed}
    /\ MaxStat \in Nat /\ MaxSlips \in Nat /\ Cap \in Nat \ {0}

QueryTypeOK ==
    /\ file \in Contents \cup {None}
    /\ fileStat \in Stats \cup {None}
    /\ query \in {"file", "agent", "token"}
    /\ qpc \in {"call", "select", "read", "return", "deliver", "failed",
                "report", "ended"}
    /\ watchers \subseteq [at : {"stat", "send", "sleep"},
                           last : Stats \cup {None},
                           result : Stats \cup {Failed, None}]
    /\ stat \in Stats \cup {None}
    /\ offered \in Stats \cup {Failed, None}
    /\ taken \in Stats \cup {None}
    /\ answer \in Contents \cup {None}
    /\ stopped \in BOOLEAN
    /\ slips \in 0..MaxSlips /\ indexed \in BOOLEAN
    /\ received \in BOOLEAN
    /\ viewed \in Contents \cup {None}
    /\ dataCh \in 0..Cap
    /\ missed \in BOOLEAN

QueryInit ==
    /\ query \in {"file", "agent", "token"}
    /\ qpc = "call" /\ watchers = {} /\ stat = None
    /\ offered = None /\ taken = None /\ answer = None
    /\ stopped = FALSE /\ slips = 0
    /\ indexed = FALSE /\ received = FALSE /\ viewed = None
    /\ dataCh = 0 /\ missed = FALSE

-----------------------------------------------------------------------------
(* The goroutine of watch.                                                 *)

\* It starts while Fetch evaluates its select, also when stopCh is closed.
CallWatch ==
    /\ qpc = "call"
    /\ qpc' = "select"
    /\ offered' = None
    /\ watchers' = watchers \cup {[at |-> "stat", last |-> stat, result |-> None]}
    /\ UNCHANGED <<fileVars, query, stat, taken, answer, stopped, slips,
                   viewVars, client>>

Becomes(w, states) ==
    /\ watchers' = (watchers \ {w}) \cup states
    /\ UNCHANGED <<fileVars, query, qpc, stat, taken, answer, stopped,
                   slips, viewVars, client>>

\* At first, and after each sleep.
StatChanged(w) ==
    /\ w.at \in {"stat", "sleep"}
    /\ fileStat = None \/ fileStat # w.last
    /\ Becomes(w, {[w EXCEPT !.at = "send",
                    !.result = IF fileStat = None THEN Failed ELSE fileStat]})
    /\ UNCHANGED offered

StatSame(w) ==
    /\ w.at = "stat"
    /\ fileStat # None /\ fileStat = w.last
    /\ Becomes(w, {[w EXCEPT !.at = "sleep"]})
    /\ UNCHANGED offered

\* ch holds one result, so that this never blocks.
SendResult(w) ==
    /\ w.at = "send"
    /\ offered = None
    /\ offered' = w.result
    /\ Becomes(w, {})

\* Mutant: the sleep does not end with stopCh, as in vaulttoken.
WatchStoppedAtSend(w) ==
    /\ w.at = "send"
    /\ stopped
    /\ Becomes(w, {})
    /\ UNCHANGED offered

\* The goroutine of vaulttoken sleeps without looking at stopCh.
WatchStopped(w) ==
    /\ w.at = "send" \/ (w.at = "sleep" /\ query # "token")
    /\ stopped
    /\ Becomes(w, {})
    /\ UNCHANGED offered

-----------------------------------------------------------------------------
(* Fetch.                                                                  *)

FetchTo(place) ==
    /\ qpc' = place
    /\ UNCHANGED <<fileVars, query, watchers, stopped>>

\* ErrStopped; poll, which sees stopCh closed itself, returns.
FetchStopped ==
    /\ qpc = "select"
    /\ stopped
    /\ FetchTo("ended")
    /\ UNCHANGED <<slips, stat, offered, taken, answer, viewVars, client>>

\* Mutant: the stat is kept before the file is read.
TakeResultAndStat ==
    /\ qpc = "select"
    /\ offered # None
    /\ offered' = None
    /\ taken' = IF offered = Failed THEN None ELSE offered
    /\ stat' = IF offered = Failed THEN stat ELSE offered
    /\ FetchTo(IF offered = Failed THEN "failed" ELSE "read")
    /\ UNCHANGED <<slips, answer, viewVars, client>>

TakeResult ==
    /\ qpc = "select"
    /\ offered # None
    /\ offered' = None
    /\ taken' = IF offered = Failed THEN None ELSE offered
    /\ FetchTo(IF offered = Failed THEN "failed" ELSE "read")
    /\ UNCHANGED <<slips, stat, answer, viewVars, client>>

\* What Fetch does with the contents.
Uses(contents) ==
    /\ answer' = IF query = "agent" THEN None ELSE contents
    /\ client' = IF query = "agent" THEN contents ELSE client
    /\ FetchTo("return")
    /\ taken' = None
    /\ UNCHANGED <<slips, offered, viewVars>>

\* The file may have changed since the stat, which is the one to keep: then
\* the next Fetch reads the file once more.
ReadFile ==
    /\ qpc = "read"
    /\ file # None
    /\ stat' = taken
    /\ Uses(file)

\* Unreadable, or gone since.
ReadFails ==
    /\ qpc = "read"
    /\ taken' = None
    /\ FetchTo("failed")
    /\ UNCHANGED <<slips, stat, offered, answer, viewVars, client>>

-----------------------------------------------------------------------------
(* The view, see View: the index of an answer is the clock.                *)

NewData == ~received \/ answer # viewed

\* The index is the clock, in seconds.  Most of the time it is ahead of the
\* last index, and the view takes the answer.
ReturnLater ==
    /\ qpc = "return"
    /\ answer' = None
    /\ indexed' = TRUE
    /\ received' = TRUE /\ viewed' = answer
    /\ missed' = FALSE
    /\ FetchTo(IF NewData THEN "deliver" ELSE "call")
    /\ UNCHANGED <<slips, stat, offered, taken, dataCh, client>>

\* Within the same second the answer is ignored.  When the clock has been set
\* back it is ignored too, and the view starts over with the next one.
ReturnNotLater ==
    /\ qpc = "return"
    /\ indexed
    /\ slips < MaxSlips
    /\ slips' = slips + 1
    /\ answer' = None
    /\ indexed' \in BOOLEAN
    /\ missed' = NewData
    /\ FetchTo("call")
    /\ UNCHANGED <<stat, offered, taken, received, viewed, dataCh, client>>

\* poll, which then starts the next fetch.
Deliver ==
    /\ qpc = "deliver"
    /\ dataCh < Cap
    /\ dataCh' = dataCh + 1
    /\ FetchTo("call")
    /\ UNCHANGED <<slips, stat, offered, taken, answer, indexed, received, viewed,
                   missed, client>>

\* Only queries of hcat to Vault have a retry function, if the program sets it.
Retry ==
    /\ qpc = "failed"
    /\ query = "agent"
    /\ FetchTo("call")
    /\ UNCHANGED <<slips, stat, offered, taken, answer, viewVars, client>>

GiveUp ==
    /\ qpc = "failed"
    /\ FetchTo("report")
    /\ UNCHANGED <<slips, stat, offered, taken, answer, viewVars, client>>

\* A stopped view delivers nothing and reports nothing.
PollStopped ==
    /\ qpc \in {"deliver", "failed", "report"}
    /\ stopped
    /\ FetchTo("ended")
    /\ UNCHANGED <<slips, stat, offered, taken, answer, viewVars, client>>

-----------------------------------------------------------------------------

Stop ==
    /\ ~stopped
    /\ stopped' = TRUE
    /\ UNCHANGED <<fileVars, query, qpc, watchers, stat, offered, taken, answer,
                   slips, viewVars, client>>

WatchStep ==
    \E w \in watchers :
        \/ StatChanged(w) \/ StatSame(w) \/ SendResult(w)
        \/ WatchStopped(w)

FetchStep ==
    \/ CallWatch \/ FetchStopped \/ TakeResult \/ ReadFile \/ ReadFails
    \/ ReturnLater \/ ReturnNotLater \/ Deliver \/ Retry \/ GiveUp \/ PollStopped

QueryStep == WatchStep \/ FetchStep \/ Stop

WatchesStopped == \E w \in watchers : WatchStopped(w)

-----------------------------------------------------------------------------
(* Properties.                                                             *)

\* Nothing new since the last look: Fetch waits for a change.
Resting == \E w \in watchers : w.at = "sleep" /\ w.last = fileStat

\* While it waits the view has what is in the file ("monitors a file for
\* changes", tfunc/file.go:16), although the file may change between its stat
\* and the read; except for an answer that was ignored since the clock was not
\* ahead of the answer before.
\* The agent's query has set the token in the file; the view plays no part.
FollowsFile ==
    Resting => IF query = "agent" THEN client = file
               ELSE ~missed => viewed = file

\* A stopped query leaves no goroutine.  (That of vaulttoken leaves one, which
\* looks at the file for ever.)
StopEndsWatch ==
    stopped ~> (qpc = "ended" /\ (watchers = {} \/ query = "token"))
=============================================================================
