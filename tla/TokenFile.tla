----------------------------- MODULE TokenFile ------------------------------
(***************************************************************************)
(* What becomes of a file that a query watches: the Waits that take its    *)
(* view from dataCh, and VaultTokenWatcher (vaulttoken/watcher.go), whose  *)
(* loop sets the token of the Vault client to the one that Vault Agent     *)
(* writes to its file.                                                     *)
(*                                                                         *)
(* The loop calls WaitCh in each iteration.  When it takes a token, the    *)
(* Wait of that iteration goes on: from then on there are two.  A program  *)
(* that watches another file calls Wait again and again.                   *)
(***************************************************************************)
EXTENDS FileQuery

CONSTANTS
    Blank,       \* contents that hold no token
    Configured,  \* c.Token
    MaxWaits     \* bound on the Waits under way

Slots == 1..MaxWaits

ASSUME TokenFileAssumption ==
    /\ Blank \in Contents /\ Configured \in Contents \ {Blank}
    /\ MaxWaits \in Nat \ {0} /\ None \notin Slots

VARIABLES
    stamp,       \* external: the last stat of the file
    unwrap,      \* c.Unwrap
    waits,       \* the Waits under way: place, and what they hand on
    current,     \* the one whose channel the loop reads
    loop,        \* the watch loop
    tokenUpdate,
    rawToken,    \* raw_token
    pending,     \* the token that is being unwrapped
    cancelled,   \* c.Context
    cache,
    overtaken    \* history: the last token was handed on after a newer one

loopVars == <<unwrap, current, loop, rawToken, pending>>
vars == <<fileVars, stamp, qvars, client, loopVars, waits, tokenUpdate, cancelled,
          cache, overtaken>>

Tokens  == Contents \ {Blank}
Clients == [token : Tokens, wrapped : BOOLEAN]

\* For the agent's query the client holds what was in the file.
TypeOK ==
    /\ QueryTypeOK
    /\ client \in Clients \cup Contents \cup {None}
    /\ unwrap \in BOOLEAN
    /\ waits \in [Slots -> [at : {"none", "wait", "read", "notify", "drain",
                                  "result"},
                            value : Contents \cup {None},
                            older : SUBSET Slots, late : BOOLEAN]]
    /\ stamp \in Stats
    /\ current \in Slots \cup {None}
    /\ loop \in {"start", "select", "unwrap", "ended"}
    /\ tokenUpdate \in Contents \cup {None}
    /\ rawToken \in Tokens \cup {None}
    /\ pending \in Tokens \cup {None}
    /\ cancelled \in BOOLEAN /\ overtaken \in BOOLEAN
    /\ cache \in Contents \cup {None}

Idle(place) == [at |-> place, value |-> None, older |-> {}, late |-> FALSE]

Free == Idle("none")

\* VaultTokenWatcher sets the configured token before it watches the file.
Init ==
    /\ QueryInit
    /\ file = Configured /\ fileStat = 0 /\ stamp = 0
    /\ unwrap \in IF query = "token" THEN BOOLEAN ELSE {FALSE}
    /\ waits = [s \in Slots |-> Free]
    /\ current = None /\ loop = "start" /\ tokenUpdate = None
    /\ pending = None /\ cancelled = FALSE /\ cache = None
    /\ overtaken = FALSE
    /\ IF query = "token"
       THEN /\ rawToken = Configured
            /\ client = [token |-> rawToken, wrapped |-> FALSE]
       ELSE rawToken = None /\ client = None

-----------------------------------------------------------------------------
(* The file: Vault Agent, or another program, writes and removes it, until *)
(* nobody cares any more.                                                  *)

WriteFile ==
    /\ stamp < MaxStat /\ loop # "ended"
    /\ stamp' = stamp + 1
    /\ file' \in Contents
    /\ fileStat' = stamp'
    /\ UNCHANGED <<qvars, client, loopVars, waits, tokenUpdate, cancelled,
                   cache, overtaken>>

RemoveFile ==
    /\ file # None
    /\ stamp < MaxStat /\ loop # "ended"
    /\ stamp' = stamp + 1
    /\ file' = None /\ fileStat' = None
    /\ UNCHANGED <<qvars, client, loopVars, waits, tokenUpdate,
                   cancelled, cache, overtaken>>

QueryMoves ==
    /\ QueryStep
    /\ UNCHANGED <<stamp, loopVars, waits, tokenUpdate, cancelled, cache, overtaken>>

\* A template that is evaluated again polls what is not in the cache.
PollAgain ==
    /\ qpc = "ended" /\ ~stopped
    /\ query = "file" /\ cache = None
    /\ qpc' = "call"
    /\ UNCHANGED <<fileVars, stamp, query, watchers, stat, offered, taken,
                   answer, stopped, slips, viewVars, client, loopVars,
                   waits, tokenUpdate, cancelled, cache, overtaken>>

-----------------------------------------------------------------------------
(* Wait.                                                                   *)

WaitMoves(table) ==
    /\ waits' = table
    /\ UNCHANGED <<fileVars, stamp, query, watchers, stat, offered, taken,
                   answer, stopped, slips, indexed, received, viewed,
                   missed, client, loopVars, cancelled>>

\* When nobody reads its channel any more the goroutine stays where it is, for
\* ever, and is of no further interest.
Finishes(s) ==
    WaitMoves([waits EXCEPT ![s] = IF s = current THEN Idle("result") ELSE Free])

Moves(s, place) == WaitMoves([waits EXCEPT ![s].at = place])

\* From the select, and again while there is more in dataCh.
WaitTakes(s) ==
    /\ waits[s].at \in {"wait", "drain"}
    /\ dataCh > 0
    /\ dataCh' = dataCh - 1
    /\ Moves(s, "read")
    /\ UNCHANGED <<qpc, tokenUpdate, cache, overtaken>>

\* v.Data(), for the cache and for the notifier.
WaitReads(s) ==
    /\ waits[s].at = "read"
    /\ cache' = viewed
    /\ IF query = "token"
       THEN WaitMoves([waits EXCEPT ![s] =
              [at |-> "notify", value |-> viewed, late |-> FALSE,
               older |-> {o \in Slots : /\ waits[o].at = "notify"
                                        /\ waits[o].value # viewed}]])
       ELSE Moves(s, "drain")
    /\ UNCHANGED <<qpc, dataCh, tokenUpdate, overtaken>>

\* Notify is pipeit, which blocks while tokenUpdate is full.
WaitNotifies(s) ==
    /\ waits[s].at = "notify"
    /\ tokenUpdate = None
    /\ tokenUpdate' = waits[s].value
    /\ overtaken' = waits[s].late
    /\ WaitMoves([o \in Slots |->
         IF o = s THEN Idle("drain")
         ELSE [waits[o] EXCEPT !.late = @ \/ o \in waits[s].older,
                               !.older = @ \ {s}]])
    /\ UNCHANGED <<qpc, dataCh, cache>>

WaitDrained(s) ==
    /\ waits[s].at = "drain"
    /\ dataCh = 0
    /\ Finishes(s)
    /\ UNCHANGED <<qpc, dataCh, tokenUpdate, cache, overtaken>>

\* The view sends its error and polls no more.
WaitFails(s) ==
    /\ waits[s].at = "wait"
    /\ qpc = "report"
    /\ qpc' = "ended"
    /\ Finishes(s)
    /\ UNCHANGED <<dataCh, tokenUpdate, cache, overtaken>>

WaitCancelled(s) ==
    /\ waits[s].at = "wait"
    /\ cancelled
    /\ Finishes(s)
    /\ UNCHANGED <<qpc, dataCh, tokenUpdate, cache, overtaken>>

-----------------------------------------------------------------------------
(* The loop.                                                               *)

LoopMoves(place) ==
    /\ loop' = place
    /\ UNCHANGED <<fileVars, stamp, qvars, unwrap, cancelled, cache,
                   overtaken>>

\* WaitCh, at the start of each iteration.
CallWaitCh ==
    /\ loop = "start"
    /\ \E s \in Slots :
         /\ waits[s] = Free
         /\ \A o \in Slots : waits[o] = Free => s <= o
         /\ waits' = [waits EXCEPT ![s] = Idle("wait")]
         /\ current' = s
    /\ LoopMoves("select")
    /\ UNCHANGED <<client, tokenUpdate, rawToken, pending>>

\* An error is reported as non-fatal.
LoopResult ==
    /\ loop = "select"
    /\ waits[current].at = "result"
    /\ waits' = [waits EXCEPT ![current] = Free]
    /\ current' = None
    /\ LoopMoves("start")
    /\ UNCHANGED <<client, tokenUpdate, rawToken, pending>>

\* The Wait of this iteration is left behind.
LeaveWait ==
    /\ current' = None
    /\ waits' = [waits EXCEPT ![current] = IF @.at = "result" THEN Free ELSE @]

TakeToken ==
    /\ loop = "select"
    /\ tokenUpdate # None
    /\ tokenUpdate' = None
    /\ LeaveWait

SameToken ==
    /\ TakeToken
    /\ tokenUpdate = rawToken
    /\ LoopMoves("start")
    /\ UNCHANGED <<client, rawToken, pending>>

\* "empty token"
EmptyToken ==
    /\ TakeToken
    /\ tokenUpdate = Blank
    /\ LoopMoves("start")
    /\ UNCHANGED <<client, rawToken, pending>>

\* Mutant: raw_token stays the configured one.
NewTokenForgotten ==
    /\ TakeToken
    /\ tokenUpdate \notin {rawToken, Blank}
    /\ ~unwrap
    /\ client' = [token |-> tokenUpdate, wrapped |-> FALSE]
    /\ LoopMoves("start")
    /\ UNCHANGED <<rawToken, pending>>

NewToken ==
    /\ TakeToken
    /\ tokenUpdate \notin {rawToken, Blank}
    /\ ~unwrap
    /\ rawToken' = tokenUpdate
    /\ client' = [token |-> tokenUpdate, wrapped |-> FALSE]
    /\ LoopMoves("start")
    /\ UNCHANGED <<pending>>

\* unpackToken sets the wrapping token, to unwrap with it.
NewWrappedToken ==
    /\ TakeToken
    /\ tokenUpdate \notin {rawToken, Blank}
    /\ unwrap
    /\ pending' = tokenUpdate
    /\ client' = [token |-> tokenUpdate, wrapped |-> TRUE]
    /\ LoopMoves("unwrap")
    /\ UNCHANGED <<rawToken>>

Unwrapped ==
    /\ loop = "unwrap"
    /\ rawToken' = pending
    /\ client' = [token |-> pending, wrapped |-> FALSE]
    /\ pending' = None
    /\ LoopMoves("start")
    /\ UNCHANGED <<waits, current, tokenUpdate>>

\* The wrapping token stays with the client.
UnwrapFails ==
    /\ loop = "unwrap"
    /\ pending' = None
    /\ LoopMoves("start")
    /\ UNCHANGED <<client, waits, current, tokenUpdate, rawToken>>

LoopEnds ==
    /\ loop = "select"
    /\ cancelled
    /\ LeaveWait
    /\ LoopMoves("ended")
    /\ UNCHANGED <<client, tokenUpdate, rawToken, pending>>

\* The end of c.Context.
Cancel ==
    /\ query = "token"
    /\ ~cancelled
    /\ cancelled' = TRUE
    /\ UNCHANGED <<fileVars, stamp, qvars, client, loopVars, waits,
                   tokenUpdate, cache, overtaken>>

WaitStep ==
    \E s \in Slots :
        \/ WaitTakes(s) \/ WaitReads(s) \/ WaitNotifies(s) \/ WaitDrained(s)
        \/ WaitFails(s) \/ WaitCancelled(s)

LoopStep ==
    \/ CallWaitCh \/ LoopResult \/ SameToken \/ EmptyToken \/ NewToken
    \/ NewWrappedToken \/ Unwrapped \/ UnwrapFails \/ LoopEnds

Next ==
    \/ WriteFile \/ RemoveFile \/ QueryMoves \/ PollAgain \/ WaitStep
    \/ LoopStep \/ Cancel

Spec == Init /\ [][Next]_vars

\* The goroutines of the query go on; a poll that is stopped sees stopCh some
\* time, however often it retries.
FairSpec ==
    /\ Spec
    /\ WF_vars(QueryMoves /\ WatchStep) /\ WF_vars(QueryMoves /\ FetchStep)
    /\ SF_vars(QueryMoves /\ (FetchStopped \/ PollStopped))

-----------------------------------------------------------------------------
(* Properties.                                                             *)

\* All is quiet: the file has been read, and nothing is on its way.
Settled ==
    /\ Resting
    /\ dataCh = 0 /\ tokenUpdate = None
    /\ \A s \in Slots : waits[s].at \in {"none", "wait"}

\* Then the cache has what is in the file, through the view and dataCh.
CacheFollowsFile == query = "file" /\ ~missed => cache = file

\* And the Vault client has the token in the file, unless it could not be
\* unwrapped, an answer was ignored, or a token was overtaken: two Waits may
\* hand on their tokens in the wrong order.
ClientFollowsFile ==
    (/\ query = "token" /\ loop = "select"
     /\ file \in Tokens /\ ~client.wrapped
     /\ ~missed /\ ~overtaken) => client.token = file

\* What is in the file gets to where it is used, whichever query watches it.
FileIsUsed == Settled => CacheFollowsFile /\ ClientFollowsFile

\* "non-fatal token watcher error" (vaulttoken/watcher.go:126): after an error
\* the token file is still watched.
NonFatal ==
    query = "token" /\ ~stopped /\ ~cancelled => qpc # "ended"
=============================================================================
