----------------------------- MODULE VaultQuery -----------------------------
(***************************************************************************)
(* The queries to Vault (vault_common.go, vault_read.go, vault_write.go,   *)
(* vault_list.go, vault_token.go): one query, which the fetch of its view  *)
(* calls again and again, over time.                                       *)
(*                                                                         *)
(* A secret that cannot be renewed is read again when most of its lease    *)
(* has gone: Fetch leaves the time to wait in sleepCh for the next Fetch.  *)
(* A secret that can be is renewed by the next Fetch until that fails.     *)
(* The view and the cache of the watcher hold the secret by reference.     *)
(*                                                                         *)
(* Vault is external.  Time is counted in seconds, and passes while a      *)
(* query sleeps, renews, or waits for its retry: a request takes less.     *)
(***************************************************************************)
EXTENDS Integers, Sequences

CONSTANTS
    Kinds,        \* the queries to look at: a subset of AllKinds
    Engines,      \* the engines to look at: a subset of AllEngines
    MaxLease,     \* bound on leases and other validities
    DefaultLease, \* Watcher's default lease, if it is set
    MaxErrors,    \* bound on the failing requests
    MaxTime,
    None

AllKinds   == {"read", "write", "list", "token"}
AllEngines == {"kv1", "kv2", "other"}

-----------------------------------------------------------------------------
(* Secrets.                                                                *)

\* What a secret holds, as far as it matters: fields that say how long it is
\* good, if it has any.  ttl is the time left that they tell.
Specials == {"none", "certificate", "secret_id", "rotation_period"}
Payloads == [special : Specials, ttl : -1..MaxLease]

Auths == [lease : 0..MaxLease, renewable : BOOLEAN]

Secrets == [data : Payloads \cup {None}, leaseID : BOOLEAN,
            lease : 0..MaxLease + DefaultLease, renewable : BOOLEAN,
            auth : Auths \cup {None}]

Times == 0..MaxLease + DefaultLease + 1

\* Points of time: those of the run, and the ends of what is good then.
Dates == 0..MaxTime + MaxLease

\* None is something else than everything it stands in for.
ASSUME VaultAssumption ==
    /\ Kinds \subseteq AllKinds /\ Engines \subseteq AllEngines
    /\ MaxLease \in Nat \ {0} /\ DefaultLease \in Nat \ {0}
    /\ MaxErrors \in Nat /\ MaxTime \in Nat \ {0}
    /\ None \notin Payloads \cup Auths \cup Secrets \cup Times \cup Dates \cup BOOLEAN
                   \cup {"current", "previous"}
    /\ None \notin [special : Specials, ttl : Int]
                   \cup [lease : Nat, renewable : BOOLEAN]

\* vaultSecretRenewable
Renewable(s) == IF s.auth # None THEN s.auth.renewable ELSE s.renewable

OrElse(new, old, zero) == IF new = zero THEN old ELSE new

UpdateAuth(ours, theirs) ==
    IF theirs = None \/ ours = None
    THEN OrElse(theirs, ours, None)
    ELSE [lease     |-> OrElse(theirs.lease, ours.lease, 0),
          renewable |-> ours.renewable \/ theirs.renewable]

\* Mutant: an answer without data wipes the data.
UpdateSecretAndData(ours, theirs) ==
    [data      |-> theirs.data,
     leaseID   |-> ours.leaseID \/ theirs.leaseID,
     lease     |-> OrElse(theirs.lease, ours.lease, 0),
     renewable |-> ours.renewable \/ theirs.renewable,
     auth      |-> UpdateAuth(ours.auth, theirs.auth)]

\* Only what the answer holds is taken over, field by field.
UpdateSecret(ours, theirs) ==
    [data      |-> OrElse(theirs.data, ours.data, None),
     leaseID   |-> ours.leaseID \/ theirs.leaseID,
     lease     |-> OrElse(theirs.lease, ours.lease, 0),
     renewable |-> ours.renewable \/ theirs.renewable,
     auth      |-> UpdateAuth(ours.auth, theirs.auth)]

TransformSecret(theirs, default) ==
    UpdateSecret([data |-> None, leaseID |-> FALSE, lease |-> default,
                  renewable |-> FALSE, auth |-> None], theirs)

\* The fields of the data count only without a lease.
Tells(s, special) ==
    s.data # None /\ s.data.special = special /\ ~s.leaseID

Rotating(s) == Tells(s, "rotation_period") /\ s.data.ttl > 0

\* Mutant: no cushion for a rotation.
BaseToRotation(s) ==
    CASE Tells(s, "secret_id") /\ s.data.ttl > 0        -> s.data.ttl + 1
      [] Rotating(s) \/ Tells(s, "certificate")         -> s.data.ttl
      [] OTHER -> IF s.auth # None /\ s.auth.lease > 0
                  THEN s.auth.lease ELSE s.lease

\* leaseCheckWait: the time that is left, or what the fields make of it.
Base(s) ==
    CASE Rotating(s)                                    -> s.data.ttl + 1
      [] Tells(s, "secret_id") /\ s.data.ttl > 0        -> s.data.ttl + 1
      [] Tells(s, "certificate")                        -> s.data.ttl
      [] OTHER -> IF s.auth # None /\ s.auth.lease > 0
                  THEN s.auth.lease ELSE s.lease

\* Mutant: no stagger at the end of the lease.
LeaseCheckWaitLate(s) ==
    IF Rotating(s) THEN {100 * Base(s)}
    ELSE {p * Base(s) : p \in 95..105}

\* The wait in hundredths of a second.  Fetch asks for secrets that cannot be
\* renewed only.
LeaseCheckWait(s) ==
    IF Renewable(s) THEN {k * Base(s) : k \in 16..33}
    ELSE IF Rotating(s) THEN {100 * Base(s)}
    ELSE {p * Base(s) : p \in 85..95}

\* The seconds that a wait of w hundredths takes, of which the last may not be
\* a whole one.  time.After with a time that is over fires at once.
Seconds(w) == IF w <= 0 THEN 0 ELSE (w + 99) \div 100

-----------------------------------------------------------------------------
(* Paths, as sequences of names.  A KV v2 engine keeps a secret under      *)
(* mount/data/..., and its folders under mount/metadata/...                *)

Mount == <<"kv">>
RawPaths == {<<"kv", "a">>, <<"kv", "data", "a">>, <<"kv", "data">>,
             <<"kv", "metadata-old">>}

After(raw) == SubSeq(raw, Len(Mount) + 1, Len(raw))

\* Mutant: the prefix is looked for without its slash.
ShimPathAnyData(raw) ==
    LET p == After(raw)
    IN  IF p # << >> /\ Head(p) \in {"data", "metadata"}
        THEN raw ELSE Mount \o <<"data">> \o p

\* shimKVv2Path: a path that is below data or metadata stays as it is.
ShimPath(raw) ==
    LET p == After(raw)
    IN  IF Len(p) > 1 /\ Head(p) \in {"data", "metadata"}
        THEN raw ELSE Mount \o <<"data">> \o p

\* shimKv2ListPath.  Here the prefix is looked for without its slash: a folder
\* whose name only begins with metadata is taken for a path of the API.
ShimListPath(raw) ==
    LET p == After(raw)
    IN  IF p # << >> /\ Head(p) \in {"metadata", "metadata-old"}
        THEN raw ELSE Mount \o <<"metadata">> \o p

\* Where Vault has it.  The secret named by <<kv, data, a>> is the same as
\* <<kv, a>> of a KV v2 engine, and another one of the other engines.
Stored(engine, path, kind) ==
    engine = "kv2" =>
        Len(path) > 2 /\ path[2] = IF kind = "list" THEN "metadata" ELSE "data"

\* How long the secret of an answer is good, in Vault's own words: an end that
\* its data tell, or its lease.  None if it is left alone until it is changed.
GoodFor(theirs) ==
    CASE Tells(theirs, "certificate") \/ Tells(theirs, "rotation_period") ->
             IF theirs.data.ttl < 0 THEN 0 ELSE theirs.data.ttl
      [] Tells(theirs, "secret_id") ->
             IF theirs.data.ttl > 0 THEN theirs.data.ttl ELSE None
      [] OTHER ->
             IF theirs.auth # None /\ theirs.auth.lease > 0 THEN theirs.auth.lease
             ELSE IF theirs.lease > 0 THEN theirs.lease ELSE None

-----------------------------------------------------------------------------

VARIABLES
    \* what does not change
    kind, engine, rawPath,
    defaultLease,  \* 0 if the watcher's is not set
    \* Vault
    errorsLeft, now,
    goodUntil,     \* the end of the last secret, if Vault has told one
    \* the query
    pc, stopped,
    sleepCh,       \* the time it holds, or None
    dur,           \* the time being slept, or about to be sent to sleepCh; or 0
    secret,        \* d.secret
    isKVv2,        \* of vault_read.go; None before the first attempt
    secretPath,
    \* the view
    lastIndex,
    viewed,        \* None, "current" (it is d.secret), or "previous"
    told,          \* the data when the view was told of d.secret
    \* history
    rested,        \* since the last answer; "empty" if that was none
    probeFailed

config  == <<kind, engine, rawPath, defaultLease>>
viewing == <<lastIndex, viewed, told>>
history == <<rested, probeFailed>>
vars == <<config, errorsLeft, now, goodUntil, pc, stopped, sleepCh, dur, secret,
          isKVv2, secretPath, viewing, history>>

TypeOK ==
    /\ kind \in Kinds /\ engine \in Engines /\ rawPath \in RawPaths
    /\ defaultLease \in {0, DefaultLease}
    /\ errorsLeft \in 0..MaxErrors
    /\ now \in 1..MaxTime
    /\ goodUntil \in Dates \cup {None}
    /\ pc \in {"idle", "sleep", "renew", "probe", "request", "push",
               "return", "retry", "ended"}
    /\ stopped \in BOOLEAN
    /\ sleepCh \in Times \cup {None}
    /\ dur \in Times
    /\ secret \in Secrets \cup {None}
    /\ isKVv2 \in BOOLEAN \cup {None}
    /\ secretPath \in {rawPath, ShimPath(rawPath), ShimListPath(rawPath)}
    /\ lastIndex \in 0..MaxTime
    /\ viewed \in {None, "current", "previous"}
    /\ told \in Payloads \cup {None}
    /\ rested \in {"yes", "no", "empty"}
    /\ probeFailed \in BOOLEAN

\* NewVaultTokenQuery makes up the secret that it renews, and has a default
\* lease of its own.
TokenSecret ==
    TransformSecret([data |-> None, leaseID |-> FALSE, lease |-> 0,
                     renewable |-> FALSE,
                     auth |-> [lease |-> 1, renewable |-> TRUE]], DefaultLease)

Init ==
    /\ kind \in Kinds /\ engine \in Engines /\ rawPath \in RawPaths
    /\ kind = "token" => engine = "other"
    /\ engine # "kv2" => rawPath = <<"kv", "a">>
    /\ kind # "list" => rawPath # <<"kv", "metadata-old">>
    /\ defaultLease \in {0, DefaultLease}
    /\ errorsLeft = MaxErrors /\ now = 1 /\ goodUntil = None
    /\ pc = "idle" /\ stopped = FALSE /\ sleepCh = None /\ dur = 0
    /\ secret = IF kind = "token" THEN TokenSecret ELSE None
    /\ isKVv2 = None /\ secretPath = rawPath
    /\ lastIndex = 0 /\ viewed = None /\ told = None
    /\ rested = "yes" /\ probeFailed = FALSE

-----------------------------------------------------------------------------
(* Fetch.                                                                  *)

\* Fetch has returned an error.  The view tries again, after a while, or gives
\* up: its retryFunc says so, and there may be none.
Fails ==
    /\ pc' \in {"retry", "ended"}
    /\ rested' = "yes"
    /\ UNCHANGED <<config, now, goodUntil, stopped, sleepCh, dur,
                   secret, viewing>>

StepTo(place) ==
    /\ pc' = place
    /\ UNCHANGED <<config, errorsLeft, now, stopped, secret, isKVv2, secretPath,
                   viewing, probeFailed>>

RetryAgain ==
    /\ pc = "retry"
    /\ StepTo("idle")
    /\ UNCHANGED <<goodUntil, sleepCh, dur, rested>>

\* Mutant: renewSecret does not look at stopCh.
FetchStoppedAtTimes ==
    /\ pc = "idle" \/ pc = "sleep"
    /\ stopped
    /\ StepTo("ended")
    /\ UNCHANGED <<goodUntil, sleepCh, dur, rested>>

\* ErrStopped, and the view does not come back.
FetchStopped ==
    /\ pc \in {"idle", "sleep", "renew"}
    /\ stopped
    /\ StepTo("ended")
    /\ UNCHANGED <<goodUntil, sleepCh, dur, rested>>

\* Mutant: nothing is renewed.
WorkWithoutRenewal == IF kind = "token" THEN "renew" ELSE "probe"

\* What comes after the first select.
Work ==
    IF kind = "token" \/ (kind # "list" /\ secret # None /\ Renewable(secret))
    THEN "renew" ELSE "probe"

FetchSleeps ==
    /\ pc = "idle"
    /\ sleepCh # None
    /\ StepTo("sleep")
    /\ dur' = sleepCh
    /\ sleepCh' = None
    /\ UNCHANGED <<goodUntil, rested>>

\* vault.list sleeps for the default lease, except at first.
ListSleeps ==
    /\ pc = "idle" /\ kind = "list"
    /\ ~stopped
    /\ lastIndex # 0
    /\ StepTo("sleep")
    /\ dur' = defaultLease
    /\ UNCHANGED <<goodUntil, sleepCh, rested>>

\* The default of the first select.
FetchNow ==
    /\ pc = "idle"
    /\ ~stopped
    /\ sleepCh = None
    /\ kind = "list" => lastIndex = 0
    /\ StepTo(Work)
    /\ UNCHANGED <<goodUntil, sleepCh, dur, rested>>

SleepEnds ==
    /\ pc = "sleep"
    /\ dur = 0
    /\ StepTo(Work)
    /\ UNCHANGED <<goodUntil, sleepCh, dur, rested>>

-----------------------------------------------------------------------------
(* renewSecret.  The renewer of Vault's API is external: it renews until   *)
(* it can not.                                                             *)

End(theirs) == IF GoodFor(theirs) = None THEN None ELSE now + GoodFor(theirs)

RenewedBy ==
    IF kind = "token"
    THEN [data : {None}, leaseID : {FALSE}, lease : {0}, renewable : {FALSE},
          auth : Auths]
    ELSE [data : {None}, leaseID : {TRUE}, lease : {MaxLease},
          renewable : BOOLEAN, auth : {None}]

RenewUpdate ==
    /\ pc = "renew"
    /\ \E theirs \in RenewedBy :
         /\ secret' = UpdateSecret(secret, theirs)
         /\ goodUntil' = End(theirs)
    /\ UNCHANGED <<config, errorsLeft, now, pc, stopped, sleepCh, dur, isKVv2,
                   secretPath, viewing, history>>

\* DoneCh.  A token that cannot be renewed any more is an error.
RenewDone ==
    /\ pc = "renew"
    /\ kind # "token"
    /\ StepTo("probe")
    /\ rested' = "yes"
    /\ UNCHANGED <<goodUntil, sleepCh, dur>>

\* NewRenewer refuses the secret.
RenewerFails ==
    /\ pc = "renew"
    /\ errorsLeft > 0
    /\ errorsLeft' = errorsLeft - 1
    /\ Fails
    /\ UNCHANGED <<isKVv2, secretPath, probeFailed>>

TokenExpires ==
    /\ pc = "renew"
    /\ kind = "token"
    /\ Fails
    /\ UNCHANGED <<errorsLeft, isKVv2, secretPath, probeFailed>>

-----------------------------------------------------------------------------
(* Reading, writing and listing.                                           *)

Shimmed == IF kind = "list" THEN ShimListPath(rawPath) ELSE ShimPath(rawPath)

\* isKVv2 and what is made of it.  vault.read asks once.
ProbeKnown ==
    /\ pc = "probe"
    /\ kind = "read" /\ isKVv2 # None
    /\ StepTo("request")
    /\ UNCHANGED <<goodUntil, sleepCh, dur, rested>>

ProbeAnswered ==
    /\ pc = "probe"
    /\ kind = "read" => isKVv2 = None
    /\ isKVv2' = IF kind = "read" THEN engine = "kv2" ELSE isKVv2
    /\ secretPath' = IF engine = "kv2" THEN Shimmed ELSE rawPath
    /\ pc' = "request"
    /\ UNCHANGED <<config, errorsLeft, now, goodUntil, stopped, sleepCh, dur,
                   secret, viewing, history>>

\* The error is ignored: the engine counts as one that is not KV v2.
ProbeFails ==
    /\ pc = "probe"
    /\ kind = "read" => isKVv2 = None
    /\ errorsLeft > 0
    /\ errorsLeft' = errorsLeft - 1
    /\ probeFailed' = TRUE
    /\ isKVv2' = IF kind = "read" THEN FALSE ELSE isKVv2
    /\ secretPath' = rawPath
    /\ pc' = "request"
    /\ UNCHANGED <<config, now, goodUntil, stopped, sleepCh, dur,
                   secret, viewing, rested>>

RequestFails ==
    /\ pc = "request"
    /\ errorsLeft > 0
    /\ errorsLeft' = errorsLeft - 1
    /\ Fails
    /\ UNCHANGED <<isKVv2, secretPath, probeFailed>>

\* "no secret exists at", also when the secret is deleted.  A list of nothing
\* is no error.
NothingThere ==
    /\ pc = "request"
    /\ kind \in {"read", "write"}
    /\ ~Stored(engine, secretPath, kind)
    /\ Fails
    /\ UNCHANGED <<errorsLeft, isKVv2, secretPath, probeFailed>>

\* What Vault answers with: a secret with or without a lease, one whose data
\* tell how long it is good, or, to a login, a token.
Answered ==
    {[data |-> [special |-> "none", ttl |-> 0],
      leaseID |-> l > 0, lease |-> l, renewable |-> r, auth |-> None] :
        l \in {0, MaxLease}, r \in BOOLEAN}
    \cup
    {[data |-> None, leaseID |-> FALSE, lease |-> 0, renewable |-> FALSE,
      auth |-> a] : a \in IF kind = "write" THEN Auths ELSE {}}
    \cup
    {[data |-> [special |-> sp, ttl |-> t],
      leaseID |-> FALSE, lease |-> 0, renewable |-> FALSE, auth |-> None] :
        sp \in Specials \ {"none"}, t \in {-1, 0, MaxLease}}

\* A request is answered with a secret, which replaces the one before; the
\* view keeps the old one for now.
GotSecret ==
    /\ pc = "request"
    /\ kind \in {"read", "write"}
    /\ Stored(engine, secretPath, kind)
    /\ kind = "write" => engine # "kv1"
    /\ \E theirs \in Answered :
         LET s == TransformSecret(theirs, defaultLease)
         IN  /\ secret' = s
             /\ goodUntil' = End(theirs)
             /\ IF Renewable(s)
                THEN pc' = "return" /\ UNCHANGED dur
                ELSE /\ pc' = "push"
                     /\ dur' \in {Seconds(w) : w \in LeaseCheckWait(s)}
    /\ viewed' = IF viewed = None THEN None ELSE "previous"
    /\ told' = None
    /\ rested' = "no"
    /\ UNCHANGED <<config, errorsLeft, now, stopped, sleepCh, isKVv2, secretPath,
                   lastIndex, probeFailed>>

\* Writing to KV v1 has no answer, and to other engines may have none: the
\* query keeps the secret it has, and is left without a wait.
WroteNothing ==
    /\ pc = "request"
    /\ kind = "write" /\ engine \in {"kv1", "other"}
    /\ rested' = "empty"
    /\ StepTo("return")
    /\ UNCHANGED <<goodUntil, sleepCh, dur>>

Listed ==
    /\ pc = "request"
    /\ kind = "list"
    /\ rested' = "no"
    /\ StepTo("return")
    /\ UNCHANGED <<goodUntil, sleepCh, dur>>

\* d.sleepCh <- dur
PushSleep ==
    /\ pc = "push"
    /\ sleepCh = None
    /\ sleepCh' = dur
    /\ dur' = 0
    /\ StepTo("return")
    /\ UNCHANGED <<goodUntil, rested>>

\* respWithMetadata: the index is the clock, in seconds.
Index == now

\* The view ignores an answer with the index it has, and stores a pointer.
Return ==
    /\ pc = "return"
    /\ pc' = "idle"
    /\ IF Index = lastIndex
       THEN UNCHANGED viewing
       ELSE /\ lastIndex' = Index
            /\ viewed' = IF secret = None THEN None ELSE "current"
            /\ told' = IF secret = None THEN None ELSE secret.data
    /\ UNCHANGED <<config, errorsLeft, now, goodUntil, stopped, sleepCh, dur,
                   secret, isKVv2, secretPath, history>>

-----------------------------------------------------------------------------

\* close(d.stopCh)
Stop ==
    /\ ~stopped
    /\ stopped' = TRUE
    /\ UNCHANGED <<config, errorsLeft, now, goodUntil, pc, sleepCh, dur, secret,
                   isKVv2, secretPath, viewing, history>>

Tick ==
    /\ now < MaxTime
    /\ (pc = "sleep" /\ dur > 0) \/ pc \in {"renew", "retry"}
    /\ now' = now + 1
    /\ dur' = IF pc = "sleep" THEN dur - 1 ELSE dur
    /\ rested' = "yes"
    /\ UNCHANGED <<config, errorsLeft, goodUntil, pc, stopped, sleepCh, secret,
                   isKVv2, secretPath, viewing, probeFailed>>

Fetch ==
    \/ RetryAgain \/ FetchStopped \/ FetchSleeps \/ ListSleeps \/ FetchNow
    \/ SleepEnds \/ RenewUpdate \/ RenewDone \/ RenewerFails \/ TokenExpires
    \/ ProbeKnown \/ ProbeAnswered \/ ProbeFails \/ RequestFails
    \/ NothingThere \/ GotSecret \/ WroteNothing \/ Listed \/ PushSleep \/ Return

Next == Fetch \/ Stop \/ Tick

Spec == Init /\ [][Next]_vars

\* Fetch goes on, except that Vault may renew for ever; a stopped query takes
\* the case of stopCh in the end, and time passes.
Fairness ==
    /\ WF_vars(Fetch /\ pc # "renew")
    /\ SF_vars(FetchStopped)
    /\ WF_vars(Tick)

FairSpec == Spec /\ Fairness

-----------------------------------------------------------------------------
(* Properties.                                                             *)

\* A rotation that Vault has told for this very second, or before.
Due(s) == Tells(s, "rotation_period") /\ s.data.ttl <= 0

\* The second that leaseCheckWait adds to the time in a secret's data.
Cushion(s) ==
    IF Rotating(s) \/ (Tells(s, "secret_id") /\ s.data.ttl < 19) THEN 1 ELSE 0

\* The secret that a query has handed out is read again before the end that
\* Vault has told of it, whatever was in sleepCh before; a rotating one within
\* the second after its rotation, and not before.  Two exceptions are the
\* code's: the cushion of an AppRole secret_id is more than its stagger takes
\* off a short life, so that it may be over for less than a second; and a
\* rotation that is due is not looked at (ttlData > 0), so that the old secret
\* stays for the whole default lease.
SleepWithinLease ==
    pc = "sleep" /\ kind \in {"read", "write"} /\ goodUntil # None /\ ~Due(secret) =>
        /\ now + dur <= goodUntil + Cushion(secret)
        /\ Rotating(secret) => now + dur > goodUntil

\* The renewal updates the object that the view and the cache hold, without
\* telling anybody: it must not touch the data that templates are rendered
\* from.
RenewalKeepsData == viewed = "current" => secret.data = told

\* What leaseCheckWait makes no wait of, although its comment says "be sure not
\* to set base to <=0 below": a certificate that has expired, and, when the
\* watcher has no default lease, a secret of which Vault tells no end; nor
\* does vault.list wait then.
Waitless ==
    \/ secret # None /\ Tells(secret, "certificate") /\ secret.data.ttl <= 0
    \/ defaultLease = 0 /\ (kind = "list" \/ goodUntil = None \/ Due(secret))

\* Between two answers of Vault time passes in a sleep, or the query renews or
\* fails: it does not keep Vault busy.  Except for what is Waitless, and after
\* a write without an answer: those are repeated at once.
RestsBetweenAnswers ==
    [][GotSecret \/ Listed => rested # "no" \/ Waitless]_vars

\* A query that is stopped comes to an end, also in a renewal that would go on
\* for ever.
StopEndsFetch == stopped ~> pc = "ended"

\* vault.read finds a secret that exists, with the legacy path as with the one
\* of the API, and after errors (unless the view gave up, or it was the probe
\* of the engine that failed, which is not repeated).
FirstSecret ==
    kind = "read" ~> (secret # None \/ probeFailed \/ pc = "ended")

\* A secret like s that is good for t seconds, wherever it says how long.
Lasting(s, t) ==
    [s EXCEPT !.lease = t,
              !.data = IF @ = None THEN None ELSE [@ EXCEPT !.ttl = t],
              !.auth = IF @ = None \/ @.lease = 0 THEN @ ELSE [@ EXCEPT !.lease = t]]

\* leaseCheckWait, for the secrets a query gets and longer times than those of
\* the run: what is not renewed is read again in the last part of its time, but
\* before the end; a rotating secret after the rotation.  An AppRole secret_id
\* gets a second more, which is too much for one of less than twenty.
WaitEndsInTime ==
    pc = "push" =>
      \A t \in {1, 2, 3, 10, 19, 20, 21, 60, 3600} :
        LET s == Lasting(secret, t)
        IN  \A w \in LeaseCheckWait(s) :
              CASE Rotating(s)           -> w > 100 * t
                [] Tells(s, "secret_id") -> t >= 20 => w < 100 * t
                [] OTHER                 -> 80 * t < w /\ w < 100 * t
=============================================================================
