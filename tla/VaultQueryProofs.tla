-------------------------- MODULE VaultQueryProofs --------------------------
(***************************************************************************)
(* Proofs about VaultQuery, for any lengths of leases and any number of    *)
(* errors: a query waits until the secret it has handed out is nearly, and *)
(* not quite, over, and a renewal leaves the data alone.                   *)
(*                                                                         *)
(* The inductive invariant follows the time to wait from where it is       *)
(* computed, through sleepCh, to the sleep of the next Fetch.              *)
(***************************************************************************)
EXTENDS VaultQuery, TLAPS

\* There is a secret whenever Fetch needs one.
SecretInv ==
    /\ kind = "token" \/ pc \in {"renew", "push"} \/ viewed = "current"
         => secret # None
    /\ pc = "push" => kind \in {"read", "write"} /\ ~Renewable(secret)

\* A query that wakes then is on time for a secret that is good until g.
Fits(s, g, wake) ==
    g # None /\ ~Due(s) =>
        /\ wake <= g + Cushion(s)
        /\ Rotating(s) => wake > g

\* The time to wait fits the secret, and nothing replaces the secret while it
\* is in sleepCh.
SleepInv ==
    /\ sleepCh # None =>
         /\ pc \in {"return", "idle", "ended"} /\ kind \in {"read", "write"}
         /\ secret # None /\ ~Renewable(secret)
         /\ Fits(secret, goodUntil, now + sleepCh)
    /\ pc \in {"push", "sleep"} /\ kind \in {"read", "write"} =>
         secret # None /\ Fits(secret, goodUntil, now + dur)

\* What keeps the next Fetch from asking again at once.
Paced ==
    \/ sleepCh # None /\ (sleepCh > 0 \/ Waitless)
    \/ kind = "token"
    \/ kind = "list"
    \/ rested = "empty"
    \/ secret # None /\ Renewable(secret)

PaceInv ==
    /\ pc \in {"probe", "request"} =>
         kind # "token" /\ (rested # "no" \/ Waitless)
    /\ pc = "retry" => rested = "yes"
    /\ pc = "push" => dur > 0 \/ Waitless
    /\ pc = "sleep" => dur > 0 \/ rested # "no" \/ Waitless
    /\ pc = "return" => Paced
    /\ pc = "idle" /\ rested = "no" => Paced /\ (kind = "list" => lastIndex # 0)

Ind == TypeOK /\ SecretInv /\ SleepInv /\ PaceInv /\ RenewalKeepsData

-----------------------------------------------------------------------------
(* Secrets and the time to wait.                                           *)

\* A secret updated with another one is one.
LEMMA UpdateType ==
    ASSUME NEW ours \in Secrets, NEW theirs \in Secrets
    PROVE  UpdateSecret(ours, theirs) \in Secrets
<1> DEFINE s == UpdateSecret(ours, theirs)
<1>1. s.data \in Payloads \cup {None}
  BY DEF UpdateSecret, OrElse, Secrets
<1>2. s.leaseID \in BOOLEAN /\ s.renewable \in BOOLEAN
  BY DEF UpdateSecret, Secrets
<1>3. s.lease \in 0..MaxLease + DefaultLease
  BY DEF UpdateSecret, OrElse, Secrets
<1>4. UpdateAuth(ours.auth, theirs.auth) \in Auths \cup {None}
  BY DEF UpdateAuth, OrElse, Secrets, Auths
<1>5. QED
  BY <1>1, <1>2, <1>3, <1>4 DEF UpdateSecret, Secrets

\* So is the one a query makes of an answer.
LEMMA TransformType ==
    ASSUME NEW theirs \in Secrets, NEW default \in {0, DefaultLease}
    PROVE  TransformSecret(theirs, default) \in Secrets
<1>1. [data |-> None, leaseID |-> FALSE, lease |-> default,
       renewable |-> FALSE, auth |-> None] \in Secrets
  BY VaultAssumption DEF Secrets
<1>2. QED
  BY <1>1, UpdateType DEF TransformSecret

\* What Vault answers with, and renews with, are secrets.
LEMMA AnswersType == Answered \subseteq Secrets /\ RenewedBy \subseteq Secrets
<1>1. ASSUME NEW l \in {0, MaxLease}, NEW r \in BOOLEAN
      PROVE  [data |-> [special |-> "none", ttl |-> 0], leaseID |-> l > 0,
              lease |-> l, renewable |-> r, auth |-> None] \in Secrets
  <2>1. [special |-> "none", ttl |-> 0] \in Payloads
    BY VaultAssumption DEF Payloads, Specials
  <2>2. (l > 0) \in BOOLEAN /\ l \in 0..MaxLease + DefaultLease
    BY VaultAssumption
  <2>3. QED
    BY <2>1, <2>2 DEF Secrets
<1>2. ASSUME NEW a \in Auths
      PROVE  [data |-> None, leaseID |-> FALSE, lease |-> 0, renewable |-> FALSE,
              auth |-> a] \in Secrets
  BY VaultAssumption DEF Secrets
<1>3. ASSUME NEW sp \in Specials, NEW t \in {-1, 0, MaxLease}
      PROVE  [data |-> [special |-> sp, ttl |-> t], leaseID |-> FALSE,
              lease |-> 0, renewable |-> FALSE, auth |-> None] \in Secrets
  BY VaultAssumption DEF Secrets, Payloads
<1>4. Answered \subseteq Secrets
  <2>1. ASSUME NEW a \in Answered PROVE a \in Secrets
    <3>1. CASE \E l \in {0, MaxLease}, r \in BOOLEAN :
                 a = [data |-> [special |-> "none", ttl |-> 0], leaseID |-> l > 0,
                      lease |-> l, renewable |-> r, auth |-> None]
      BY <1>1, <3>1
    <3>2. CASE \E x \in Auths :
                 a = [data |-> None, leaseID |-> FALSE, lease |-> 0,
                      renewable |-> FALSE, auth |-> x]
      BY <1>2, <3>2
    <3>3. CASE \E sp \in Specials, t \in {-1, 0, MaxLease} :
                 a = [data |-> [special |-> sp, ttl |-> t], leaseID |-> FALSE,
                      lease |-> 0, renewable |-> FALSE, auth |-> None]
      BY <1>3, <3>3
    <3>4. QED
      BY <2>1, <3>1, <3>2, <3>3 DEF Answered
  <2>2. QED
    BY <2>1
<1>5. RenewedBy \subseteq Secrets
  <2>1. 0 \in 0..MaxLease + DefaultLease /\ MaxLease \in 0..MaxLease + DefaultLease
    BY VaultAssumption
  <2>2. CASE kind = "token"
    BY <2>1, <2>2 DEF RenewedBy, Secrets
  <2>3. CASE kind # "token"
    BY <2>1, <2>3 DEF RenewedBy, Secrets
  <2>4. QED
    BY <2>2, <2>3
<1>6. QED
  BY <1>4, <1>5

\* The seconds of a time in hundredths.
LEMMA SecondsBounds ==
    ASSUME NEW w \in Int
    PROVE  /\ Seconds(w) \in Nat
           /\ w > 0 => Seconds(w) > 0
           /\ \A t \in Nat : w <= 100 * t => Seconds(w) <= t
           /\ \A t \in Nat : w = 100 * t => Seconds(w) = t
BY DEF Seconds

\* What Vault tells of the end of a secret.
LEMMA EndType ==
    ASSUME TypeOK, NEW theirs \in Answered \cup RenewedBy
    PROVE  GoodFor(theirs) \in (0..MaxLease) \cup {None}
           /\ End(theirs) \in Dates \cup {None}
<1> USE VaultAssumption
<1>1. theirs \in Secrets /\ theirs.lease \in 0..MaxLease
  <2>1. theirs \in Answered => theirs.lease \in 0..MaxLease
    BY DEF Answered
  <2>2. theirs \in RenewedBy => theirs.lease \in 0..MaxLease
    <3>1. CASE kind = "token"
      BY <3>1 DEF RenewedBy
    <3>2. CASE kind # "token"
      BY <3>2 DEF RenewedBy
    <3>3. QED
      BY <3>1, <3>2
  <2>3. QED
    BY <2>1, <2>2, AnswersType
<1>2. theirs.data # None => theirs.data.ttl \in -1..MaxLease
  BY <1>1 DEF Secrets, Payloads
<1>3. theirs.auth # None => theirs.auth.lease \in 0..MaxLease
  BY <1>1 DEF Secrets, Auths
<1>4. GoodFor(theirs) \in (0..MaxLease) \cup {None}
  <2>1. CASE Tells(theirs, "certificate") \/ Tells(theirs, "rotation_period")
    BY <1>2, <2>1 DEF GoodFor, Tells
  <2>2. CASE /\ ~(Tells(theirs, "certificate") \/ Tells(theirs, "rotation_period"))
             /\ Tells(theirs, "secret_id")
    BY <1>2, <2>2 DEF GoodFor, Tells
  <2>3. CASE ~(\/ Tells(theirs, "certificate") \/ Tells(theirs, "rotation_period")
               \/ Tells(theirs, "secret_id"))
    BY <1>1, <1>3, <2>3 DEF GoodFor
  <2>4. QED
    BY <2>1, <2>2, <2>3
<1>5. QED
  BY <1>4 DEF End, Dates, TypeOK

\* The cases of the time that is left.
LEMMA BaseCases ==
    ASSUME NEW x \in Secrets
    PROVE  /\ Rotating(x) => Base(x) = x.data.ttl + 1
           /\ Tells(x, "secret_id") /\ x.data.ttl > 0 => Base(x) = x.data.ttl + 1
           /\ Tells(x, "certificate") => Base(x) = x.data.ttl
           /\ ~(\/ Rotating(x)
                \/ Tells(x, "secret_id") /\ x.data.ttl > 0
                \/ Tells(x, "certificate"))
                => Base(x) = IF x.auth # None /\ x.auth.lease > 0
                             THEN x.auth.lease ELSE x.lease
<1>1. CASE Rotating(x)
  BY <1>1 DEF Base, Rotating, Tells
<1>2. CASE Tells(x, "secret_id") /\ x.data.ttl > 0
  BY <1>2 DEF Base, Rotating, Tells
<1>3. CASE Tells(x, "certificate")
  BY <1>3 DEF Base, Rotating, Tells
<1>4. CASE ~(\/ Rotating(x)
             \/ Tells(x, "secret_id") /\ x.data.ttl > 0
             \/ Tells(x, "certificate"))
  BY <1>4 DEF Base
<1>5. QED
  BY <1>1, <1>2, <1>3, <1>4

\* A secret that was made of an answer.
LEMMA SecretOfAnswer ==
    ASSUME NEW theirs \in Answered, NEW default \in {0, DefaultLease}
    PROVE  LET s == TransformSecret(theirs, default)
           IN  /\ s \in Secrets
               /\ s.data = theirs.data /\ s.leaseID = theirs.leaseID
               /\ s.lease = IF theirs.lease = 0 THEN default ELSE theirs.lease
               /\ s.auth = theirs.auth
<1>1. theirs \in Secrets /\ TransformSecret(theirs, default) \in Secrets
  BY AnswersType, TransformType
<1>2. QED
  BY <1>1, VaultAssumption
     DEF TransformSecret, UpdateSecret, UpdateAuth, OrElse, Secrets

\* A random part of a time is less than the time, and more than nothing.
LEMMA PartOf ==
    ASSUME NEW b \in Int, NEW p \in 85..95
    PROVE  /\ p * b \in Int
           /\ b >= 0 => 85 * b <= p * b /\ p * b <= 95 * b
           /\ b <= 0 => p * b <= 0
<1>1. \/ p = 85 \/ p = 86 \/ p = 87 \/ p = 88 \/ p = 89 \/ p = 90
      \/ p = 91 \/ p = 92 \/ p = 93 \/ p = 94 \/ p = 95
  OBVIOUS
<1>2. QED
  BY <1>1

\* What is not renewed is waited for until the end that Vault has told of it,
\* and not for nothing.
LEMMA WaitFits ==
    ASSUME NEW theirs \in Answered, NEW default \in {0, DefaultLease},
           ~Renewable(TransformSecret(theirs, default)),
           NEW w \in LeaseCheckWait(TransformSecret(theirs, default))
    PROVE  LET s == TransformSecret(theirs, default)
               d == Seconds(w)
               g == GoodFor(theirs)
           IN  /\ d \in Times
               /\ g # None /\ ~Due(s) =>
                    d <= g + Cushion(s) /\ (Rotating(s) => d > g)
               /\ \/ d > 0
                  \/ Tells(s, "certificate") /\ s.data.ttl <= 0
                  \/ default = 0 /\ (g = None \/ Due(s))
<1> DEFINE s == TransformSecret(theirs, default)
           b == Base(s)
           d == Seconds(w)
           g == GoodFor(theirs)
<1> USE VaultAssumption
<1>1. /\ s \in Secrets /\ theirs \in Secrets
      /\ s.data = theirs.data /\ s.leaseID = theirs.leaseID
      /\ s.lease = IF theirs.lease = 0 THEN default ELSE theirs.lease
      /\ s.auth = theirs.auth /\ theirs.lease \in 0..MaxLease
  BY SecretOfAnswer, AnswersType DEF Answered
<1>2. /\ s.data # None => s.data.ttl \in -1..MaxLease
      /\ s.auth # None => s.auth.lease \in 0..MaxLease
  BY <1>1 DEF Secrets, Payloads, Auths
<1>3. \A special \in Specials : Tells(s, special) = Tells(theirs, special)
  BY <1>1 DEF Tells
<1>4. /\ Rotating(s) => w = 100 * b
      /\ ~Rotating(s) => \E p \in 85..95 : w = p * b
  BY DEF LeaseCheckWait
<1>5. /\ Tells(s, "rotation_period") => ~Tells(s, "certificate") /\ ~Tells(s, "secret_id")
      /\ Tells(s, "secret_id") => ~Tells(s, "certificate")
  BY DEF Tells
<1>6. /\ Tells(theirs, "certificate") = Tells(s, "certificate")
      /\ Tells(theirs, "rotation_period") = Tells(s, "rotation_period")
      /\ Tells(theirs, "secret_id") = Tells(s, "secret_id")
  BY <1>3 DEF Specials
<1> HIDE DEF s
<1>7. CASE Rotating(s)
  <2>1. s.data.ttl \in 1..MaxLease /\ Tells(s, "rotation_period")
    BY <1>2, <1>7 DEF Rotating, Tells
  <2>2. b = s.data.ttl + 1 /\ g = s.data.ttl
    BY <1>1, <1>5, <1>6, <1>7, <2>1, BaseCases DEF GoodFor
  <2>3. d = s.data.ttl + 1
    BY <1>4, <1>7, <2>1, <2>2, SecondsBounds
  <2>4. Cushion(s) = 1
    BY <1>7 DEF Cushion
  <2>5. QED
    BY <2>1, <2>2, <2>3, <2>4 DEF Times, s
<1>8. CASE Tells(s, "secret_id") /\ s.data.ttl > 0
  <2>1. s.data.ttl \in 1..MaxLease /\ ~Rotating(s) /\ ~Tells(s, "rotation_period")
    BY <1>2, <1>5, <1>8 DEF Rotating, Tells
  <2>2. b = s.data.ttl + 1 /\ g = s.data.ttl
    BY <1>1, <1>5, <1>6, <1>8, <2>1, BaseCases DEF GoodFor
  <2>3. w \in Int /\ 85 * b <= w /\ w <= 95 * b
    BY <1>4, <2>1, <2>2, PartOf
  <2>4. /\ d \in 1..(s.data.ttl + 1)
        /\ s.data.ttl >= 19 => d <= s.data.ttl
    <3>1. w > 0 /\ w <= 100 * (s.data.ttl + 1)
      BY <2>1, <2>2, <2>3
    <3>2. s.data.ttl >= 19 => w <= 100 * s.data.ttl
      BY <2>1, <2>2, <2>3
    <3>3. QED
      BY <2>1, <2>3, <3>1, <3>2, SecondsBounds
  <2>5. Cushion(s) = IF s.data.ttl < 19 THEN 1 ELSE 0
    BY <1>8, <2>1 DEF Cushion
  <2>6. QED
    BY <2>1, <2>2, <2>4, <2>5 DEF Times, s
<1>9. CASE Tells(s, "certificate")
  <2>1. s.data.ttl \in -1..MaxLease /\ ~Rotating(s) /\ Cushion(s) = 0
    BY <1>2, <1>5, <1>9 DEF Rotating, Tells, Cushion
  <2>2. b = s.data.ttl /\ g = IF s.data.ttl < 0 THEN 0 ELSE s.data.ttl
    <3>1. b = s.data.ttl
      BY <1>1, <1>9, BaseCases
    <3>2. g = IF theirs.data.ttl < 0 THEN 0 ELSE theirs.data.ttl
      <4>1. Tells(theirs, "certificate") /\ ~Tells(theirs, "secret_id")
        BY <1>5, <1>6, <1>9
      <4>2. QED
        BY <4>1 DEF GoodFor
    <3>3. QED
      BY <1>1, <3>1, <3>2
  <2>3. PICK p \in 85..95 : w = p * b
    BY <1>4, <2>1
  <2>4. CASE s.data.ttl <= 0
    <3>1. w \in Int /\ w <= 0
      BY <2>1, <2>2, <2>3, <2>4, PartOf
    <3>2. d = 0
      BY <3>1 DEF Seconds
    <3>3. QED
      BY <1>9, <2>1, <2>2, <2>4, <3>2 DEF Times, s
  <2>5. CASE s.data.ttl > 0
    <3>1. w \in Int /\ w > 0 /\ w <= 100 * s.data.ttl
      BY <2>1, <2>2, <2>3, <2>5, PartOf
    <3>2. d \in 1..s.data.ttl
      BY <2>1, <3>1, SecondsBounds
    <3>3. QED
      BY <2>1, <2>2, <2>5, <3>2 DEF Times, s
  <2>6. QED
    BY <2>1, <2>4, <2>5
<1>10. CASE ~(\/ Rotating(s) \/ Tells(s, "certificate")
              \/ Tells(s, "secret_id") /\ s.data.ttl > 0)
  <2>1. b = IF s.auth # None /\ s.auth.lease > 0 THEN s.auth.lease ELSE s.lease
    BY <1>1, <1>10, BaseCases
  <2>2. b \in 0..(MaxLease + DefaultLease)
    BY <1>1, <1>2, <2>1
  <2>3. PICK p \in 85..95 : w = p * b
    BY <1>4, <1>10
  <2>4. w \in Int /\ 85 * b <= w /\ w <= 100 * b
    BY <2>2, <2>3, PartOf
  <2>5. d \in 0..b /\ (b > 0 => d > 0)
    BY <2>2, <2>4, SecondsBounds
  <2>6. CASE Tells(s, "rotation_period")
    <3>1. Due(s)
      BY <1>2, <1>10, <2>6 DEF Due, Rotating, Tells
    <3>2. theirs.auth = None /\ theirs.lease = 0
      BY <1>1, <2>6 DEF Answered, Tells
    <3>3. b = default
      BY <1>1, <2>1, <3>2
    <3>4. QED
      BY <2>2, <2>5, <3>1, <3>3 DEF Times, s
  <2>7. CASE Tells(s, "secret_id")
    <3>1. g = None
      BY <1>1, <1>2, <1>5, <1>6, <1>10, <2>7 DEF GoodFor, Tells
    <3>2. theirs.auth = None /\ theirs.lease = 0
      BY <1>1, <2>7 DEF Answered, Tells
    <3>3. b = default
      BY <1>1, <2>1, <3>2
    <3>4. QED
      BY <2>2, <2>5, <3>1, <3>3 DEF Times, s
  <2>8. CASE ~Tells(s, "rotation_period") /\ ~Tells(s, "secret_id")
    <3>2. g = IF theirs.auth # None /\ theirs.auth.lease > 0
              THEN theirs.auth.lease
              ELSE IF theirs.lease > 0 THEN theirs.lease ELSE None
      BY <1>6, <1>10, <2>8 DEF GoodFor
    <3>3. (g # None => b = g) /\ (g = None => b = default)
      <4>1. None \notin 0..MaxLease
        BY DEF Times
      <4>2. CASE theirs.auth # None /\ theirs.auth.lease > 0
        BY <1>1, <1>2, <2>1, <3>2, <4>1, <4>2
      <4>3. CASE ~(theirs.auth # None /\ theirs.auth.lease > 0) /\ theirs.lease > 0
        BY <1>1, <2>1, <3>2, <4>1, <4>3
      <4>4. CASE ~(theirs.auth # None /\ theirs.auth.lease > 0) /\ ~(theirs.lease > 0)
        <5>1. theirs.lease = 0
          BY <1>1, <4>4
        <5>2. QED
          BY <1>1, <2>1, <3>2, <4>4, <5>1
      <4>5. QED
        BY <4>2, <4>3, <4>4
    <3>4. ~Due(s) /\ ~Rotating(s) /\ Cushion(s) = 0
      BY <1>10, <2>8 DEF Due, Cushion
    <3>5. g # None => b > 0
      BY <1>1, <1>2, <3>2, <3>3
    <3>6. g # None => d <= g + Cushion(s)
      BY <2>2, <2>5, <3>3, <3>4
    <3>7. d > 0 \/ (default = 0 /\ g = None)
      BY <2>5, <3>3, <3>5
    <3>8. d \in Times
      BY <2>2, <2>5 DEF Times
    <3>9. QED
      BY <3>4, <3>6, <3>7, <3>8 DEF s
  <2>9. QED
    BY <2>6, <2>7, <2>8
<1>11. QED
  BY <1>7, <1>8, <1>9, <1>10

-----------------------------------------------------------------------------
(* The invariant.                                                          *)

\* A new query satisfies the invariant.
LEMMA InitInd == Init => Ind
<1> SUFFICES ASSUME Init PROVE Ind
  OBVIOUS
<1> USE VaultAssumption DEF Init
<1>1. TokenSecret \in Secrets
  <2>1. [data |-> None, leaseID |-> FALSE, lease |-> 0, renewable |-> FALSE,
         auth |-> [lease |-> 1, renewable |-> TRUE]] \in Secrets
    BY DEF Secrets, Auths
  <2>2. QED
    BY <2>1, TransformType DEF TokenSecret
<1>2. TypeOK
  <2>1. /\ kind \in Kinds /\ engine \in Engines /\ rawPath \in RawPaths
        /\ errorsLeft \in 0..MaxErrors /\ now \in 1..MaxTime
        /\ lastIndex \in 0..MaxTime
    OBVIOUS
  <2>2. /\ goodUntil \in Dates \cup {None} /\ dur \in Times
        /\ sleepCh \in Times \cup {None} /\ defaultLease \in {0, DefaultLease}
        /\ told \in Payloads \cup {None} /\ secret \in Secrets \cup {None}
    BY <1>1 DEF Times
  <2>3. /\ stopped \in BOOLEAN /\ isKVv2 \in BOOLEAN \cup {None}
        /\ secretPath \in {rawPath, ShimPath(rawPath), ShimListPath(rawPath)}
        /\ viewed \in {None, "current", "previous"}
        /\ rested \in {"yes", "no", "empty"} /\ probeFailed \in BOOLEAN
    OBVIOUS
  <2>4. QED
    BY <2>1, <2>2, <2>3 DEF TypeOK
<1>3. SecretInv
  BY <1>1 DEF SecretInv
<1>4. SleepInv /\ PaceInv /\ RenewalKeepsData
  BY DEF SleepInv, PaceInv, RenewalKeepsData
<1>5. QED
  BY <1>2, <1>3, <1>4 DEF Ind

\* The steps that only move on.
Moves ==
    \/ RetryAgain \/ FetchStopped \/ FetchNow \/ SleepEnds \/ RenewDone
    \/ ProbeKnown \/ WroteNothing \/ Listed

\* What a Fetch does first.
LEMMA WorkType == Work \in {"renew", "probe"}
BY DEF Work

\* Every step keeps the types.
LEMMA TypeStep ==
    ASSUME TypeOK, SecretInv, [Next]_vars
    PROVE  TypeOK'
<1> USE VaultAssumption DEF TypeOK, StepTo, Fails, config, viewing, history
<1>1. CASE Moves
  <2>1. CASE RetryAgain \/ FetchStopped \/ ProbeKnown \/ WroteNothing \/ Listed
    BY <2>1 DEF RetryAgain, FetchStopped, ProbeKnown, WroteNothing, Listed
  <2>2. CASE FetchNow
    BY <2>2, WorkType DEF FetchNow
  <2>3. CASE SleepEnds
    BY <2>3, WorkType DEF SleepEnds
  <2>4. CASE RenewDone
    BY <2>4 DEF RenewDone
  <2>5. QED
    BY <1>1, <2>1, <2>2, <2>3, <2>4 DEF Moves
<1>2. CASE FetchSleeps
  BY <1>2 DEF FetchSleeps
<1>3. CASE ListSleeps
  BY <1>3 DEF ListSleeps, Times
<1>4. CASE RenewUpdate
  <2>1. PICK theirs \in RenewedBy :
          /\ secret' = UpdateSecret(secret, theirs)
          /\ goodUntil' = End(theirs)
    BY <1>4 DEF RenewUpdate
  <2>2. secret \in Secrets
    BY <1>4 DEF RenewUpdate, SecretInv
  <2>3. secret' \in Secrets
    BY <2>1, <2>2, AnswersType, UpdateType
  <2>4. goodUntil' \in Dates \cup {None}
    BY <2>1, EndType
  <2>5. QED
    BY <1>4, <2>3, <2>4 DEF RenewUpdate
<1>5. CASE TokenExpires \/ RenewerFails \/ RequestFails \/ NothingThere
  <2>1. CASE TokenExpires \/ RenewerFails
    BY <2>1 DEF TokenExpires, RenewerFails
  <2>2. CASE RequestFails
    BY <2>2 DEF RequestFails
  <2>3. CASE NothingThere
    BY <2>3 DEF NothingThere
  <2>4. QED
    BY <1>5, <2>1, <2>2, <2>3
<1>6. CASE ProbeAnswered
  <2>1. isKVv2' \in BOOLEAN \cup {None}
    BY <1>6 DEF ProbeAnswered
  <2>2. secretPath' \in {rawPath, ShimPath(rawPath), ShimListPath(rawPath)}
    BY <1>6 DEF ProbeAnswered, Shimmed
  <2>3. QED
    BY <1>6, <2>1, <2>2 DEF ProbeAnswered
<1>7. CASE ProbeFails
  BY <1>7 DEF ProbeFails
<1>8. CASE GotSecret
  <2>1. PICK theirs \in Answered :
          LET s == TransformSecret(theirs, defaultLease)
          IN  /\ secret' = s
              /\ goodUntil' = End(theirs)
              /\ IF Renewable(s)
                 THEN pc' = "return" /\ UNCHANGED dur
                 ELSE /\ pc' = "push"
                      /\ dur' \in {Seconds(w) : w \in LeaseCheckWait(s)}
    BY <1>8 DEF GotSecret
  <2>2. secret' \in Secrets /\ goodUntil' \in Dates \cup {None}
    BY <2>1, SecretOfAnswer, EndType
  <2>3. dur' \in Times /\ pc' \in {"push", "return"}
    BY <2>1, WaitFits
  <2>4. QED
    BY <1>8, <2>2, <2>3 DEF GotSecret
<1>9. CASE PushSleep
  BY <1>9 DEF PushSleep, Times
<1>10. CASE Return
  <2>1. /\ lastIndex' \in 0..MaxTime /\ viewed' \in {None, "current", "previous"}
        /\ told' \in Payloads \cup {None}
    BY <1>10 DEF Return, Index, Secrets
  <2>2. QED
    BY <1>10, <2>1 DEF Return
<1>11. CASE Stop
  BY <1>11 DEF Stop
<1>12. CASE Tick
  BY <1>12 DEF Tick, Times
<1>13. CASE UNCHANGED vars
  BY <1>13 DEF vars
<1>14. QED
  BY <1>1, <1>2, <1>3, <1>4, <1>5, <1>6, <1>7, <1>8, <1>9, <1>10, <1>11,
     <1>12, <1>13 DEF Next, Fetch, Moves

\* Every step leaves a secret where one is needed.
LEMMA SecretStep ==
    ASSUME TypeOK, SecretInv, [Next]_vars
    PROVE  SecretInv'
<1> USE VaultAssumption
    DEF TypeOK, SecretInv, StepTo, Fails, config, viewing, history
<1>1. CASE Moves
  BY <1>1
     DEF Moves, RetryAgain, FetchStopped, FetchNow, SleepEnds, RenewDone,
         ProbeKnown, WroteNothing, Listed, Work
<1>2. CASE FetchSleeps \/ ListSleeps
  BY <1>2 DEF FetchSleeps, ListSleeps
<1>3. CASE RenewUpdate
  <2>1. secret' \in Secrets
    BY <1>3, AnswersType, UpdateType DEF RenewUpdate
  <2>2. QED
    BY <1>3, <2>1 DEF RenewUpdate
<1>4. CASE TokenExpires \/ RenewerFails \/ RequestFails \/ NothingThere
  BY <1>4 DEF TokenExpires, RenewerFails, RequestFails, NothingThere
<1>5. CASE ProbeAnswered \/ ProbeFails
  BY <1>5 DEF ProbeAnswered, ProbeFails
<1>6. CASE GotSecret
  <2>1. secret' \in Secrets /\ (pc' = "push" => ~Renewable(secret'))
    BY <1>6, SecretOfAnswer DEF GotSecret
  <2>2. (pc' = "push" => ~Renewable(secret)') /\ pc' \in {"push", "return"}
        /\ kind' = kind /\ kind \in {"read", "write"} /\ viewed' # "current"
    BY <1>6, <2>1 DEF GotSecret, Renewable
  <2>3. QED
    BY <2>1, <2>2
<1>7. CASE PushSleep
  BY <1>7 DEF PushSleep
<1>8. CASE Return
  BY <1>8 DEF Return
<1>9. CASE Stop \/ Tick
  BY <1>9 DEF Stop, Tick, Renewable
<1>10. CASE UNCHANGED vars
  BY <1>10 DEF vars, Renewable
<1>11. QED
  BY <1>1, <1>2, <1>3, <1>4, <1>5, <1>6, <1>7, <1>8, <1>9, <1>10
     DEF Next, Fetch, Moves

\* Every step keeps the time to wait within the lease.
LEMMA SleepStep ==
    ASSUME TypeOK, SecretInv, SleepInv, [Next]_vars
    PROVE  SleepInv'
<1> USE VaultAssumption
    DEF TypeOK, SleepInv, StepTo, Fails, config, viewing, history
<1>1. CASE Moves
  BY <1>1, WorkType
     DEF Moves, RetryAgain, FetchStopped, FetchNow, SleepEnds, RenewDone,
         ProbeKnown, WroteNothing, Listed, Renewable
<1>2. CASE FetchSleeps \/ ListSleeps
  BY <1>2 DEF FetchSleeps, ListSleeps
<1>3. CASE RenewUpdate
  BY <1>3 DEF RenewUpdate
<1>4. CASE TokenExpires \/ RenewerFails \/ RequestFails \/ NothingThere
  BY <1>4 DEF TokenExpires, RenewerFails, RequestFails, NothingThere
<1>5. CASE ProbeAnswered \/ ProbeFails
  BY <1>5 DEF ProbeAnswered, ProbeFails
<1>6. CASE GotSecret
  <2>1. pc' = "push" => secret' # None /\ Fits(secret', goodUntil', now + dur')
    <3>1. PICK theirs \in Answered :
            LET s == TransformSecret(theirs, defaultLease)
            IN  /\ secret' = s
                /\ goodUntil' = End(theirs)
                /\ IF Renewable(s)
                   THEN pc' = "return"
                   ELSE dur' \in {Seconds(w) : w \in LeaseCheckWait(s)}
      BY <1>6 DEF GotSecret
    <3> DEFINE s == TransformSecret(theirs, defaultLease)
    <3>2. CASE Renewable(s)
      BY <3>1, <3>2
    <3>3. CASE ~Renewable(s)
      <4>1. PICK w \in LeaseCheckWait(s) : dur' = Seconds(w)
        BY <3>1, <3>3
      <4>2. /\ dur' \in Times
            /\ GoodFor(theirs) # None /\ ~Due(s) =>
                 /\ dur' <= GoodFor(theirs) + Cushion(s)
                 /\ Rotating(s) => dur' > GoodFor(theirs)
        BY <3>3, <4>1, WaitFits
      <4>3. GoodFor(theirs) \in (0..MaxLease) \cup {None} /\ Cushion(s) \in 0..1
        BY EndType DEF Cushion
      <4>4. goodUntil' # None =>
              GoodFor(theirs) # None /\ goodUntil' = now + GoodFor(theirs)
        BY <3>1 DEF End
      <4>5. secret' # None /\ secret' = s
        BY <3>1, SecretOfAnswer
      <4> HIDE DEF s
      <4>6. Fits(s, goodUntil', now + dur')
        BY <4>2, <4>3, <4>4 DEF Fits, Times
      <4>7. QED
        BY <4>5, <4>6
    <3>4. QED
      BY <3>2, <3>3
  <2>2. /\ sleepCh = None /\ UNCHANGED <<sleepCh, now>>
        /\ pc' \in {"push", "return"}
    BY <1>6 DEF GotSecret
  <2>3. QED
    BY <2>1, <2>2
<1>7. CASE PushSleep
  BY <1>7 DEF PushSleep, SecretInv, Renewable
<1>8. CASE Return
  BY <1>8 DEF Return, Renewable
<1>9. CASE Stop
  BY <1>9 DEF Stop, Renewable
<1>10. CASE Tick
  <2>1. pc = "sleep" => now' + dur' = now + dur
    BY <1>10 DEF Tick, Times
  <2>2. sleepCh = None
    BY <1>10 DEF Tick
  <2>3. QED
    BY <1>10, <2>1, <2>2 DEF Tick
<1>11. CASE UNCHANGED vars
  BY <1>11 DEF vars, Renewable
<1>12. QED
  BY <1>1, <1>2, <1>3, <1>4, <1>5, <1>6, <1>7, <1>8, <1>9, <1>10, <1>11
     DEF Next, Fetch, Moves

\* Every step that leads to a request comes after a rest.
LEMMA PaceStep ==
    ASSUME TypeOK, SecretInv, SleepInv, PaceInv, [Next]_vars
    PROVE  PaceInv'
<1> USE VaultAssumption
    DEF TypeOK, PaceInv, StepTo, Fails, config, viewing, history
<1>1. CASE RetryAgain \/ FetchStopped \/ ProbeKnown
  BY <1>1 DEF RetryAgain, FetchStopped, ProbeKnown, Waitless
<1>2. CASE FetchNow
  BY <1>2 DEF FetchNow, Work, Paced, Waitless
<1>3. CASE SleepEnds
  BY <1>3 DEF SleepEnds, Work, Waitless
<1>4. CASE RenewDone
  BY <1>4 DEF RenewDone
<1>5. CASE FetchSleeps
  <2>1. /\ dur' = sleepCh /\ pc' = "sleep" /\ Waitless' = Waitless
        /\ UNCHANGED rested /\ sleepCh # None /\ pc = "idle"
    BY <1>5 DEF FetchSleeps, Waitless
  <2>2. rested = "no" => sleepCh > 0 \/ Waitless
    BY <2>1 DEF Paced, SleepInv
  <2>3. QED
    BY <2>1, <2>2
<1>5a. CASE ListSleeps
  <2>1. dur' = defaultLease /\ pc' = "sleep" /\ kind' = "list"
        /\ UNCHANGED defaultLease
    BY <1>5a DEF ListSleeps
  <2>2. dur' > 0 \/ Waitless'
    BY <2>1 DEF Waitless
  <2>3. QED
    BY <2>1, <2>2
<1>6. CASE RenewUpdate
  BY <1>6 DEF RenewUpdate
<1>7. CASE TokenExpires \/ RenewerFails \/ RequestFails \/ NothingThere
  BY <1>7 DEF TokenExpires, RenewerFails, RequestFails, NothingThere
<1>8. CASE ProbeAnswered \/ ProbeFails
  BY <1>8 DEF ProbeAnswered, ProbeFails, Waitless
<1>9. CASE GotSecret
  <2>1. PICK theirs \in Answered :
          LET s == TransformSecret(theirs, defaultLease)
          IN  /\ secret' = s
              /\ goodUntil' = End(theirs)
              /\ IF Renewable(s)
                 THEN pc' = "return"
                 ELSE pc' = "push" /\ dur' \in {Seconds(w) : w \in LeaseCheckWait(s)}
    BY <1>9 DEF GotSecret
  <2> DEFINE s == TransformSecret(theirs, defaultLease)
  <2>2. CASE Renewable(s)
    <3>1. secret' # None /\ Renewable(secret') /\ pc' = "return"
      BY <2>1, <2>2, SecretOfAnswer
    <3>2. Paced'
      BY <3>1 DEF Paced, Renewable
    <3>3. QED
      BY <3>1, <3>2
  <2>3. CASE ~Renewable(s)
    <3>1. PICK w \in LeaseCheckWait(s) : dur' = Seconds(w) /\ pc' = "push"
      BY <2>1, <2>3
    <3>2. \/ dur' > 0
          \/ Tells(s, "certificate") /\ s.data.ttl <= 0
          \/ defaultLease = 0 /\ (GoodFor(theirs) = None \/ Due(s))
      BY <2>3, <3>1, WaitFits
    <3>3. secret' = s /\ secret' # None /\ UNCHANGED defaultLease
      BY <1>9, <2>1, SecretOfAnswer DEF GotSecret
    <3>4. GoodFor(theirs) = None => goodUntil' = None
      BY <2>1 DEF End
    <3> HIDE DEF s
    <3>5. dur' > 0 \/ Waitless'
      BY <3>2, <3>3, <3>4 DEF Waitless, Tells, Due
    <3>6. QED
      BY <3>1, <3>5
  <2>4. QED
    BY <2>2, <2>3
<1>10. CASE PushSleep
  <2>1. /\ pc' = "return" /\ sleepCh' = dur /\ Waitless' = Waitless
        /\ dur > 0 \/ Waitless
    BY <1>10 DEF PushSleep, Waitless
  <2>2. sleepCh' # None
    BY <2>1
  <2>3. Paced'
    BY <2>1, <2>2 DEF Paced
  <2>4. QED
    BY <2>1, <2>3
<1>11. CASE WroteNothing \/ Listed
  BY <1>11 DEF WroteNothing, Listed, Paced
<1>12. CASE Return
  <2>1. Paced /\ Paced' = Paced
    BY <1>12 DEF Return, Paced, Waitless, Renewable
  <2>2. pc' = "idle" /\ lastIndex' # 0
    BY <1>12 DEF Return, Index
  <2>3. QED
    BY <2>1, <2>2
<1>13. CASE Stop
  BY <1>13 DEF Stop, Paced, Waitless, Renewable
<1>14. CASE Tick
  BY <1>14 DEF Tick
<1>15. CASE UNCHANGED vars
  BY <1>15 DEF vars, Paced, Waitless, Renewable
<1>16. QED
  BY <1>1, <1>2, <1>3, <1>4, <1>5, <1>5a, <1>6, <1>7, <1>8, <1>9, <1>10, <1>11,
     <1>12, <1>13, <1>14, <1>15 DEF Next, Fetch

\* A renewal has no data; a new secret is not the one of the view.
LEMMA RenewalStep ==
    ASSUME TypeOK, SecretInv, RenewalKeepsData, [Next]_vars
    PROVE  RenewalKeepsData'
<1> USE VaultAssumption DEF TypeOK, RenewalKeepsData
<1>1. CASE RenewUpdate
  <2>1. PICK theirs \in RenewedBy : secret' = UpdateSecret(secret, theirs)
    BY <1>1 DEF RenewUpdate
  <2>2. theirs.data = None
    BY DEF RenewedBy
  <2>3. secret'.data = secret.data
    BY <2>1, <2>2 DEF UpdateSecret, OrElse
  <2>4. QED
    BY <1>1, <2>3 DEF RenewUpdate, viewing
<1>2. CASE GotSecret
  BY <1>2 DEF GotSecret
<1>3. CASE Return
  BY <1>3 DEF Return, viewing
<1>4. CASE ~(RenewUpdate \/ GotSecret \/ Return)
  <2>1. UNCHANGED <<secret, viewing>>
    BY <1>4
       DEF Next, Fetch, vars, StepTo, Fails, RetryAgain, FetchStopped,
           FetchSleeps, ListSleeps, FetchNow, SleepEnds, RenewDone,
           RenewerFails, TokenExpires, ProbeKnown, ProbeAnswered, ProbeFails, RequestFails,
           NothingThere, WroteNothing, Listed, PushSleep, Stop, Tick
  <2>2. QED
    BY <2>1 DEF viewing
<1>5. QED
  BY <1>1, <1>2, <1>3, <1>4

-----------------------------------------------------------------------------
(* Theorems.                                                               *)

\* The invariant holds in every state of the query.
THEOREM IndInvariant == Spec => []Ind
<1>1. Ind /\ [Next]_vars => Ind'
  BY TypeStep, SecretStep, SleepStep, PaceStep, RenewalStep DEF Ind
<1>2. QED
  BY InitInd, <1>1, PTL DEF Spec

\* The variables have their types.
THEOREM TypeCorrect == Spec => []TypeOK
BY IndInvariant, PTL DEF Ind

\* A Fetch does not sleep past the end that Vault has told of the secret that has
\* been handed out, but for the cushions of leaseCheckWait, and reads a rotating
\* secret after its rotation (sleepCh, vault_read.go and vault_write.go).
THEOREM SleepWithinLeaseHolds == Spec => []SleepWithinLease
<1>1. Ind => SleepWithinLease
  BY DEF Ind, SleepInv, Fits, SleepWithinLease
<1>2. QED
  BY IndInvariant, <1>1, PTL

\* The renewer does not touch the data that the view and the cache share with
\* the query (renewSecret and updateSecret, vault_common.go).
THEOREM RenewalKeepsDataHolds == Spec => []RenewalKeepsData
BY IndInvariant, PTL DEF Ind

\* Between two answers of Vault time passes, or the query renews or fails, but
\* for what leaseCheckWait makes no wait of (Waitless) and for writes without
\* an answer.
THEOREM RestsHolds == Spec => RestsBetweenAnswers
<1>1. Ind /\ [Next]_vars => [GotSecret \/ Listed => rested # "no" \/ Waitless]_vars
  BY DEF Ind, PaceInv, GotSecret, Listed
<1>2. QED
  BY IndInvariant, <1>1, PTL DEF Spec, RestsBetweenAnswers

\* leaseCheckWait of a secret that is not renewed, for any time t in place of
\* the one it has.
LEMMA WaitOfLasting ==
    ASSUME VaultAssumption, NEW s \in Secrets, ~Renewable(s),
           NEW t \in Nat \ {0}, NEW w \in LeaseCheckWait(Lasting(s, t))
    PROVE  LET x == Lasting(s, t)
           IN  /\ Rotating(x) => w > 100 * t
               /\ ~Rotating(x) /\ Tells(x, "secret_id") =>
                    (t >= 20 => w < 100 * t)
               /\ ~Rotating(x) /\ ~Tells(x, "secret_id") =>
                    80 * t < w /\ w < 100 * t
<1> DEFINE x == Lasting(s, t)
<1>1. /\ x.data = IF s.data = None THEN None ELSE [s.data EXCEPT !.ttl = t]
      /\ x.leaseID = s.leaseID /\ x.lease = t /\ x.renewable = s.renewable
      /\ x.auth = IF s.auth = None \/ s.auth.lease = 0 THEN s.auth
                  ELSE [s.auth EXCEPT !.lease = t]
  <2>1. s = [data |-> s.data, leaseID |-> s.leaseID, lease |-> s.lease,
             renewable |-> s.renewable, auth |-> s.auth]
    BY DEF Secrets
  <2>2. QED
    BY <2>1 DEF Lasting
<1>2. ~Renewable(x)
  <2>1. CASE s.auth = None \/ s.auth.lease = 0
    BY <1>1, <2>1 DEF Renewable
  <2>2. CASE ~(s.auth = None \/ s.auth.lease = 0)
    <3>1. s.auth \in Auths /\ ~s.auth.renewable
      BY <2>2 DEF Renewable, Secrets
    <3>2. x.auth = [lease |-> t, renewable |-> FALSE]
      BY <1>1, <2>2, <3>1 DEF Auths
    <3>3. x.auth # None
      <4>1. [lease |-> t, renewable |-> FALSE] \in [lease : Nat, renewable : BOOLEAN]
        OBVIOUS
      <4>2. QED
        BY <3>2, <4>1, VaultAssumption
    <3>4. QED
      BY <3>2, <3>3 DEF Renewable
  <2>3. QED
    BY <2>1, <2>2
<1>3. x.data # None => x.data.ttl = t
  BY <1>1 DEF Secrets, Payloads
<1>4. x.auth # None => x.auth.lease = t \/ x.auth.lease = 0
  BY <1>1 DEF Secrets, Auths
<1> HIDE DEF x
<1>4a. /\ Rotating(x) => w = 100 * Base(x)
       /\ ~Rotating(x) => \E p \in 85..95 : w = p * Base(x)
  <2>1. w \in LeaseCheckWait(x)
    BY DEF x
  <2>2. QED
    BY <1>2, <2>1 DEF LeaseCheckWait
<1>5. ASSUME NEW b \in Nat \ {0}, NEW p \in 85..95
      PROVE  85 * b <= p * b /\ p * b <= 95 * b /\ p * b \in Nat
  <2>1. \/ p = 85 \/ p = 86 \/ p = 87 \/ p = 88 \/ p = 89 \/ p = 90
        \/ p = 91 \/ p = 92 \/ p = 93 \/ p = 94 \/ p = 95
    OBVIOUS
  <2>2. QED
    BY <2>1
<1>6. CASE Rotating(x)
  <2>1. Base(x) = t + 1
    BY <1>3, <1>6 DEF Base, Rotating, Tells
  <2>2. w = 100 * (t + 1)
    BY <1>4a, <1>6, <2>1
  <2>3. QED
    BY <1>6, <2>2 DEF x
<1>7. CASE Tells(x, "secret_id")
  <2>1. Base(x) = t + 1 /\ ~Rotating(x)
    BY <1>3, <1>7 DEF Base, Rotating, Tells
  <2>2. PICK p \in 85..95 : w = p * (t + 1)
    BY <1>4a, <2>1
  <2>3. w <= 95 * (t + 1) /\ w \in Nat
    BY <1>5, <2>2
  <2>4. QED
    BY <1>7, <2>1, <2>3 DEF x
<1>8. CASE ~Rotating(x) /\ ~Tells(x, "secret_id")
  <2>1. Base(x) = t
    BY <1>1, <1>3, <1>4, <1>8 DEF Base, Tells
  <2>2. PICK p \in 85..95 : w = p * t
    BY <1>4a, <1>8, <2>1
  <2>3. 85 * t <= w /\ w <= 95 * t /\ w \in Nat
    BY <1>5, <2>2
  <2>4. QED
    BY <1>8, <2>3 DEF x
<1>9. QED
  BY <1>6, <1>7, <1>8

\* What leaseCheckWait makes of a secret falls in the last part of its time,
\* and of a rotating secret after it, for leases of any length.
THEOREM WaitEndsInTimeHolds == Spec => []WaitEndsInTime
<1>1. Ind => WaitEndsInTime
  <2> SUFFICES ASSUME Ind, pc = "push",
                      NEW t \in {1, 2, 3, 10, 19, 20, 21, 60, 3600},
                      NEW w \in LeaseCheckWait(Lasting(secret, t))
               PROVE  CASE Rotating(Lasting(secret, t))           -> w > 100 * t
                        [] Tells(Lasting(secret, t), "secret_id") ->
                             t >= 20 => w < 100 * t
                        [] OTHER -> 80 * t < w /\ w < 100 * t
    BY DEF WaitEndsInTime
  <2>1. secret \in Secrets /\ ~Renewable(secret)
    BY DEF Ind, TypeOK, SecretInv
  <2>2. t \in Nat \ {0}
    OBVIOUS
  <2> DEFINE x == Lasting(secret, t)
  <2>3. /\ Rotating(x) => w > 100 * t
        /\ ~Rotating(x) /\ Tells(x, "secret_id") => (t >= 20 => w < 100 * t)
        /\ ~Rotating(x) /\ ~Tells(x, "secret_id") => 80 * t < w /\ w < 100 * t
    BY <2>1, <2>2, VaultAssumption, WaitOfLasting
  <2> HIDE DEF x
  <2>4. CASE Rotating(x)
    <3>1. ~Tells(x, "secret_id")
      BY <2>4 DEF Rotating, Tells
    <3>2. QED
      BY <2>3, <2>4, <3>1 DEF x
  <2>5. CASE ~Rotating(x) /\ Tells(x, "secret_id")
    BY <2>3, <2>5 DEF x
  <2>6. CASE ~Rotating(x) /\ ~Tells(x, "secret_id")
    BY <2>3, <2>6 DEF x
  <2>7. QED
    BY <2>4, <2>5, <2>6
<1>2. QED
  BY IndInvariant, <1>1, PTL
=============================================================================
