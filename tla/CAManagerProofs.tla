---------------------------- MODULE CAManagerProofs ----------------------------
(***************************************************************************)
(* For any ttl, grace period, failures, crashes and interleaving of the    *)
(* rotator with the pruner: the CA plugin signs with the key of its        *)
(* certificate, and that certificate has been published.  When the work of *)
(* a tick ends within it, a certificate is published ahead of its use, and *)
(* the server's TLS handshakes find the CA of a recently signed SVID.      *)
(***************************************************************************)
EXTENDS ServerSVID, TLAPS

\* Where the rotator is in prepareNextCA or activateNextCA decides which certificates
\* exist and which of them newKey belongs to.
KeyInv ==
  /\ keys > 0
  /\ key = cert.key
  /\ pc = "down" => cert = NoCert /\ caCert = NoCert /\ nextCACert = NoCert
  /\ pc \in {"generate", "submit", "store", "assign"} => nextCACert = NoCert
  /\ pc \in {"submit", "store", "assign"} => newKey # 0
  /\ pc \in {"store", "assign"} => issued.key = newKey
  /\ nextCACert # NoCert => newKey = nextCACert.key
  /\ pc \in {"load", "swap"} => nextCACert # NoCert
  /\ IF pc = "swap" THEN cert = nextCACert ELSE cert = caCert

Published(c) ==
  \/ c \in bundle
  \/ c.notAfter <= now - Grace
  \/ c \in overwritten

\* A certificate is published before the manager keeps it, and what a prune drops of what
\* it read has been expired for the grace period.
PublishedInv ==
  /\ pc = "assign" => Published(issued)
  /\ nextCACert # NoCert => Published(nextCACert)
  /\ cert # NoCert => Published(cert)
  /\ prunePc = "update" => \A c \in fetched : c \in kept \/ c.notAfter <= now - Grace

IInv == TypeOK /\ KeyInv /\ PublishedInv

LEMMA NoCertType == NoCert \in Certificates
BY DEF NoCert, Certificates

LEMMA RootType == Root \in Certificates
BY DurationAssumption DEF Root, Certificates

USE DEF caVars, rotVars, pruneVars, bounds

LEMMA TypeInit == Init => TypeOK
<1> SUFFICES ASSUME Init PROVE TypeOK
  BY Zenon
<1>1. /\ starting \in BOOLEAN /\ rotateTick \in BOOLEAN /\ pruneTick \in BOOLEAN
  BY Zenon DEF Init
<1>2. /\ bundle \in SUBSET Certificates /\ fetched \in SUBSET Certificates
      /\ kept \in SUBSET Certificates /\ overwritten \in SUBSET Certificates
  BY Zenon DEF Init
<1> QED
  BY Zenon, <1>1, <1>2, NoCertType DEF Init, TypeOK

LEMMA TypeStep == TypeOK /\ [Next]_vars => TypeOK'
<1> SUFFICES ASSUME TypeOK, [Next]_vars PROVE TypeOK'
  BY Zenon
<1> USE NoCertType
<1>1. CASE Tick
  BY <1>1 DEF TypeOK, Tick
<1>2. CASE Boot
  BY <1>2 DEF TypeOK, Boot
<1>3. CASE Stop
  BY Zenon, <1>3 DEF TypeOK, Stop, Down
<1>4. CASE RotateTick
  <2>1. CARotate \in {"idle", "generate", "load"}
    BY Zenon DEF CARotate
  <2> QED
    BY Zenon, <1>4, <2>1 DEF TypeOK, RotateTick
<1>5. CASE GenerateCsr
  BY <1>5 DEF TypeOK, GenerateCsr
<1>6. CASE SubmitCSR
  <2>1. issued' \in Certificates
    BY <1>6, DurationAssumption DEF TypeOK, SubmitCSR, Certificates
  <2> QED
    BY Zenon, <1>6, <2>1 DEF TypeOK, SubmitCSR
<1>7. CASE StoreCACert
  <2>1. bundle' \in SUBSET Certificates
    BY Zenon, <1>7, RootType DEF TypeOK, StoreCACert
  <2> QED
    BY Zenon, <1>7, <2>1 DEF TypeOK, StoreCACert
<1>8. CASE AssignNext
  BY Zenon, <1>8 DEF TypeOK, AssignNext
<1>9. CASE StartFails
  <2>1. Down
    BY Zenon, <1>9 DEF StartFails
  <2>2. failures' \in Nat
    BY <1>9 DEF TypeOK, StartFails, CallFails
  <2>3. /\ bundle' \in SUBSET Certificates /\ fetched' \in SUBSET Certificates
        /\ kept' \in SUBSET Certificates /\ overwritten' \in SUBSET Certificates
    BY Zenon, <2>1 DEF TypeOK, Down
  <2> QED
    BY Zenon, <2>1, <2>2, <2>3 DEF TypeOK, Down
<1>18. CASE RotateFails
  BY <1>18 DEF TypeOK, RotateFails, CallFails
<1>10. CASE LoadCertificate
  BY Zenon, <1>10 DEF TypeOK, LoadCertificate
<1>11. CASE SwapCA
  BY Zenon, <1>11 DEF TypeOK, SwapCA
<1>12. CASE PruneTick
  BY Zenon, <1>12 DEF TypeOK, PruneTick
<1>13. CASE PruneFetch
  BY Zenon, <1>13 DEF TypeOK, PruneFetch
<1>14. CASE PruneFilter
  <2>1. Keep(fetched) \in SUBSET Certificates
    BY Zenon DEF TypeOK, Keep
  <2> QED
    BY Zenon, <1>14, <2>1 DEF TypeOK, PruneFilter
<1>15. CASE PruneUpdate
  BY Zenon, <1>15 DEF TypeOK, PruneUpdate
<1>16. CASE PruneFails
  BY Zenon, <1>16 DEF TypeOK, PruneFails
<1>17. CASE UNCHANGED vars
  BY Zenon, <1>17 DEF TypeOK, vars
<1> QED
  BY Zenon, <1>1, <1>2, <1>3, <1>4, <1>5, <1>6, <1>7, <1>8, <1>9, <1>10, <1>11, <1>12, <1>13,
     <1>14, <1>15, <1>16, <1>17, <1>18 DEF Next, Step

\* The types of every state: certificates, keys and program counters.
THEOREM TypeCorrect == Spec => []TypeOK
BY TypeInit, TypeStep, PTL DEF Spec

LEMMA KeyInit == Init => KeyInv
BY DEF Init, KeyInv, NoCert

LEMMA KeyStep == TypeOK /\ KeyInv /\ [Next]_vars => KeyInv'
<1> SUFFICES ASSUME TypeOK, KeyInv, [Next]_vars PROVE KeyInv'
  BY Zenon
<1>1. CASE Tick
  BY Zenon, <1>1 DEF KeyInv, Tick
<1>2. CASE Boot
  BY Zenon, <1>2 DEF KeyInv, Boot
<1>3. CASE Stop
  BY Zenon, <1>3 DEF KeyInv, Stop, Down, NoCert
<1>4. CASE RotateTick
  BY Zenon, <1>4 DEF KeyInv, RotateTick, CARotate
<1>5. CASE GenerateCsr
  BY <1>5 DEF TypeOK, KeyInv, GenerateCsr
<1>6. CASE SubmitCSR
  BY Zenon, <1>6 DEF KeyInv, SubmitCSR
<1>7. CASE StoreCACert
  BY Zenon, <1>7 DEF KeyInv, StoreCACert
<1>8. CASE AssignNext
  BY <1>8 DEF KeyInv, AssignNext, NoCert
<1>9. CASE StartFails
  BY Zenon, <1>9 DEF KeyInv, StartFails, CallFails, Down, NoCert
<1>10. CASE RotateFails
  BY Zenon, <1>10 DEF KeyInv, RotateFails, CallFails
<1>11. CASE LoadCertificate
  BY Zenon, <1>11 DEF KeyInv, LoadCertificate
<1>12. CASE SwapCA
  BY Zenon, <1>12 DEF KeyInv, SwapCA
<1>13. CASE PruneTick
  BY Zenon, <1>13 DEF KeyInv, PruneTick
<1>14. CASE PruneFetch
  BY Zenon, <1>14 DEF KeyInv, PruneFetch
<1>15. CASE PruneFilter
  BY Zenon, <1>15 DEF KeyInv, PruneFilter
<1>16. CASE PruneUpdate
  BY Zenon, <1>16 DEF KeyInv, PruneUpdate
<1>17. CASE PruneFails
  BY Zenon, <1>17 DEF KeyInv, PruneFails
<1>18. CASE UNCHANGED vars
  BY Zenon, <1>18 DEF KeyInv, vars
<1> QED
  BY Zenon, <1>1, <1>2, <1>3, <1>4, <1>5, <1>6, <1>7, <1>8, <1>9, <1>10, <1>11, <1>12,
     <1>13, <1>14, <1>15, <1>16, <1>17, <1>18 DEF Next, Step

\* Nothing a step does takes a published certificate back, except an UpdateBundle, and then
\* the certificate has expired or is recorded as overwritten.
LEMMA PublishedStays ==
  TypeOK /\ PublishedInv /\ [Next]_vars =>
    \A c \in Certificates : Published(c) => Published(c)'
<1> SUFFICES ASSUME TypeOK, PublishedInv, [Next]_vars,
                    NEW c \in Certificates, Published(c)
             PROVE Published(c)'
  BY Zenon
<1>1. CASE Tick
  BY <1>1, DurationAssumption DEF TypeOK, Published, Tick, Certificates
<1>2. CASE StoreCACert
  BY Zenon, <1>2 DEF Published, StoreCACert
<1>3. CASE PruneUpdate
  BY Zenon, <1>3 DEF PublishedInv, Published, PruneUpdate
<1>4. CASE Boot \/ Stop \/ RotateTick \/ GenerateCsr \/ SubmitCSR \/ AssignNext
  BY Zenon, <1>4 DEF Published, Boot, Stop, Down, RotateTick, GenerateCsr, SubmitCSR, AssignNext
<1>5. CASE StartFails \/ RotateFails \/ LoadCertificate \/ SwapCA
  BY Zenon, <1>5 DEF Published, StartFails, RotateFails, Down, LoadCertificate, SwapCA
<1>6. CASE PruneTick \/ PruneFetch \/ PruneFilter \/ PruneFails
  BY Zenon, <1>6 DEF Published, PruneTick, PruneFetch, PruneFilter, PruneFails
<1>7. CASE UNCHANGED vars
  BY Zenon, <1>7 DEF Published, vars
<1> QED
  BY Zenon, <1>1, <1>2, <1>3, <1>4, <1>5, <1>6, <1>7 DEF Next, Step

\* The part of PublishedInv about the pruner's local variables.
PruneInv ==
  prunePc = "update" => \A c \in fetched : c \in kept \/ c.notAfter <= now - Grace

LEMMA PruneStep == TypeOK /\ PruneInv /\ [Next]_vars => PruneInv'
<1> SUFFICES ASSUME TypeOK, PruneInv, [Next]_vars PROVE PruneInv'
  BY Zenon
<1>1. CASE Tick
  <2>1. \A c \in fetched : c.notAfter \in Int
    BY DEF TypeOK, Certificates
  <2> QED
    BY <1>1, <2>1, DurationAssumption DEF TypeOK, PruneInv, Tick
<1>2. CASE PruneFilter
  <2>1. \A c \in fetched : c.notAfter \in Int
    BY DEF TypeOK, Certificates
  <2> QED
    BY <1>2, <2>1, DurationAssumption DEF TypeOK, PruneInv, PruneFilter, Keep
<1>3. CASE PruneTick \/ PruneFetch \/ PruneUpdate \/ PruneFails
  BY Zenon, <1>3 DEF PruneInv, PruneTick, PruneFetch, PruneUpdate, PruneFails
<1>4. CASE Boot \/ Stop \/ RotateTick \/ GenerateCsr \/ SubmitCSR \/ StoreCACert
  BY Zenon, <1>4 DEF PruneInv, Boot, Stop, Down, RotateTick, GenerateCsr, SubmitCSR, StoreCACert
<1>5. CASE AssignNext \/ StartFails \/ RotateFails \/ LoadCertificate \/ SwapCA
  BY Zenon, <1>5 DEF PruneInv, AssignNext, StartFails, RotateFails, Down, LoadCertificate, SwapCA
<1>6. CASE UNCHANGED vars
  BY Zenon, <1>6 DEF PruneInv, vars
<1> QED
  BY Zenon, <1>1, <1>2, <1>3, <1>4, <1>5, <1>6 DEF Next, Step

LEMMA PublishedStep == IInv /\ [Next]_vars => PublishedInv'
<1> SUFFICES ASSUME IInv, [Next]_vars PROVE PublishedInv'
  BY Zenon
<1>1. TypeOK /\ KeyInv /\ PublishedInv
  BY Zenon DEF IInv
<1>2. \A c \in Certificates : Published(c) => Published(c)'
  BY Zenon, <1>1, PublishedStays
<1>3. PruneInv'
  BY Zenon, <1>1, PruneStep DEF PublishedInv, PruneInv
<1>4. (pc = "assign" => Published(issued))'
  <2>1. CASE StoreCACert
    BY Zenon, <2>1 DEF StoreCACert, Published
  <2>2. CASE pc' = "assign" /\ ~StoreCACert
    <3>1. pc = "assign" /\ issued' = issued
      BY Zenon, <1>1, <2>2 DEF Next, Step, Tick, Boot, Stop, Down, RotateTick, CARotate, GenerateCsr,
                               SubmitCSR, AssignNext, StartFails, RotateFails, LoadCertificate, SwapCA,
                               PruneTick, PruneFetch, PruneFilter, PruneUpdate, PruneFails, vars
    <3> QED
      BY Zenon, <1>1, <1>2, <3>1 DEF TypeOK, PublishedInv, Published
  <2> QED
    BY Zenon, <2>1, <2>2
<1>5. (nextCACert # NoCert => Published(nextCACert))'
  <2>1. CASE AssignNext
    BY Zenon, <1>1, <1>2, <2>1 DEF AssignNext, TypeOK, PublishedInv, Published
  <2>2. CASE nextCACert' # NoCert /\ ~AssignNext
    <3>1. nextCACert' = nextCACert
      BY Zenon, <2>2 DEF Next, Step, Tick, Boot, Stop, Down, RotateTick, GenerateCsr, SubmitCSR,
                         StoreCACert, StartFails, RotateFails, LoadCertificate, SwapCA, PruneTick,
                         PruneFetch, PruneFilter, PruneUpdate, PruneFails, vars
    <3> QED
      BY Zenon, <1>1, <1>2, <2>2, <3>1 DEF TypeOK, PublishedInv, Published
  <2> QED
    BY Zenon, <2>1, <2>2
<1>6. (cert # NoCert => Published(cert))'
  <2>1. CASE LoadCertificate
    BY Zenon, <1>1, <1>2, <2>1 DEF LoadCertificate, TypeOK, KeyInv, PublishedInv, Published
  <2>2. CASE cert' # NoCert /\ ~LoadCertificate
    <3>1. cert' = cert
      BY Zenon, <2>2 DEF Next, Step, Tick, Boot, Stop, Down, RotateTick, GenerateCsr, SubmitCSR,
                         StoreCACert, AssignNext, StartFails, RotateFails, SwapCA, PruneTick,
                         PruneFetch, PruneFilter, PruneUpdate, PruneFails, vars
    <3> QED
      BY Zenon, <1>1, <1>2, <2>2, <3>1 DEF TypeOK, PublishedInv, Published
  <2> QED
    BY Zenon, <2>1, <2>2
<1> QED
  BY Zenon, <1>3, <1>4, <1>5, <1>6 DEF PublishedInv, PruneInv

LEMMA InvInit == Init => IInv
<1> SUFFICES ASSUME Init PROVE IInv
  BY Zenon
<1>1. TypeOK /\ KeyInv
  BY Zenon, TypeInit, KeyInit
<1>2. PublishedInv
  BY Zenon DEF Init, PublishedInv
<1> QED
  BY Zenon, <1>1, <1>2 DEF IInv

LEMMA InvStep == IInv /\ [Next]_vars => IInv'
BY Zenon, TypeStep, KeyStep, PublishedStep DEF IInv

LEMMA InvImplies == IInv => SigningKeyMatches /\ SignerIsPublished
BY Zenon DEF IInv, KeyInv, PublishedInv, Published, SigningKeyMatches, SignerIsPublished

\* The memory CA plugin never signs with a key other than its certificate's, whichever
\* call of prepareNextCA fails and wherever the process stops.
THEOREM SigningKeyIsCertified == Spec => []SigningKeyMatches
BY InvInit, InvStep, InvImplies, PTL DEF Spec

\* Whatever signs SVIDs is in the bundle, has been expired for the grace period, or fell to
\* the one race there is: an UpdateBundle of prune that overwrites a concurrent AppendBundle.
THEOREM SignerWasPublished == Spec => []SignerIsPublished
BY InvInit, InvStep, InvImplies, PTL DEF Spec

(***************************************************************************)
(* The same manager with the server's SVID, where a tick comes only when   *)
(* the work of the last one is over.                                       *)
(***************************************************************************)
\* The CA manager's steps under that timing assumption.
TimedNext == (Rested /\ Tick) \/ Step

LEMMA TimedStep == [SVIDNext]_allVars => [TimedNext]_vars
<1> SUFFICES ASSUME [SVIDNext]_allVars PROVE [TimedNext]_vars
  BY Zenon
<1>1. CASE AllRested /\ Time
  BY Zenon, <1>1 DEF AllRested, Time, TimedNext
<1>2. CASE CAStep
  BY Zenon, <1>2 DEF CAStep, TimedNext
<1>3. CASE ServerDown
  BY Zenon, <1>3 DEF ServerDown, TimedNext, Step
<1>4. CASE StartRotator \/ RotatorTick \/ SignSVID \/ SignFails \/ UpdateState
  BY Zenon, <1>4 DEF StartRotator, RotatorTick, SignSVID, SignFails, UpdateState
<1>5. CASE Subscribe \/ FirstUpdateSVID \/ ObserveSVID \/ FetchRoots \/ ServeCerts
  BY Zenon, <1>5 DEF Subscribe, FirstUpdateSVID, ObserveSVID, FetchRoots, ServeCerts
<1>6. CASE UNCHANGED allVars
  BY Zenon, <1>6 DEF allVars
<1> QED
  BY Zenon, <1>1, <1>2, <1>3, <1>4, <1>5, <1>6 DEF SVIDNext, SVIDStep

LEMMA TimedIsNext == [TimedNext]_vars => [Next]_vars
BY Zenon DEF TimedNext, Next

Preparing  == pc \in {"generate", "submit", "store", "assign"}
Activating == pc \in {"load", "swap"}

\* The tick that activates a certificate is later than the one that published it.
RotationInv ==
  /\ starting => caCert = NoCert /\ pc \notin {"down", "idle"}
  /\ pc # "idle" => ~rotateTick
  /\ pc \in {"store", "assign"} => issued.notBefore + Backdate = now
  /\ nextCACert # NoCert => nextCACert.notBefore + Backdate <= now
  /\ nextCACert # NoCert /\ ~starting /\ (rotateTick \/ Activating) =>
       nextCACert.notBefore + Backdate < now

LEMMA RotationInit == Init => RotationInv
BY Zenon DEF Init, RotationInv

LEMMA RotationStep == IInv /\ RotationInv /\ [TimedNext]_vars => RotationInv'
<1> SUFFICES ASSUME IInv, RotationInv, [TimedNext]_vars PROVE RotationInv'
  BY Zenon
<1>0. TypeOK /\ KeyInv
  BY Zenon DEF IInv
<1> USE DurationAssumption DEF Preparing, Activating
<1>1. CASE Rested /\ Tick
  BY <1>0, <1>1 DEF TypeOK, KeyInv, RotationInv, Tick, Rested, Certificates
<1>2. CASE Boot
  BY Zenon, <1>0, <1>2 DEF KeyInv, RotationInv, Boot
<1>3. CASE Stop \/ StartFails
  BY Zenon, <1>3 DEF RotationInv, Stop, StartFails, Down
<1>4. CASE RotateTick
  BY Zenon, <1>0, <1>4 DEF TypeOK, RotationInv, RotateTick, CARotate
<1>5. CASE GenerateCsr
  BY Zenon, <1>5 DEF RotationInv, GenerateCsr
<1>6. CASE SubmitCSR
  BY <1>0, <1>6 DEF TypeOK, RotationInv, SubmitCSR
<1>7. CASE StoreCACert
  BY Zenon, <1>7 DEF RotationInv, StoreCACert
<1>8. CASE AssignNext
  BY <1>0, <1>8 DEF TypeOK, RotationInv, AssignNext
<1>9. CASE RotateFails
  BY Zenon, <1>0, <1>9 DEF KeyInv, RotationInv, RotateFails, CallFails
<1>10. CASE LoadCertificate
  BY Zenon, <1>10 DEF RotationInv, LoadCertificate
<1>11. CASE SwapCA
  BY Zenon, <1>11 DEF RotationInv, SwapCA
<1>12. CASE PruneTick \/ PruneFetch \/ PruneFilter \/ PruneUpdate \/ PruneFails
  BY <1>12 DEF RotationInv, PruneTick, PruneFetch, PruneFilter, PruneUpdate, PruneFails
<1>13. CASE UNCHANGED vars
  BY Zenon, <1>13 DEF RotationInv, vars
<1> QED
  BY Zenon, <1>1, <1>2, <1>3, <1>4, <1>5, <1>6, <1>7, <1>8, <1>9, <1>10, <1>11, <1>12, <1>13
     DEF TimedNext, Step

\* The step in which caCert becomes another certificate.
LEMMA Activation ==
  IInv /\ RotationInv /\ [TimedNext]_vars =>
    (caCert # NoCert /\ caCert' \notin {caCert, NoCert} => now > caCert'.notBefore + Backdate)
<1> SUFFICES ASSUME IInv, RotationInv, [TimedNext]_vars,
                    caCert # NoCert, caCert' \notin {caCert, NoCert}
             PROVE now > caCert'.notBefore + Backdate
  BY Zenon
<1>1. SwapCA
  BY Zenon DEF TimedNext, Step, Tick, Boot, Stop, Down, RotateTick, GenerateCsr, SubmitCSR,
               StoreCACert, AssignNext, StartFails, RotateFails, LoadCertificate, PruneTick, PruneFetch,
               PruneFilter, PruneUpdate, PruneFails, vars
<1> QED
  BY Zenon, <1>1, DurationAssumption
     DEF IInv, TypeOK, KeyInv, RotationInv, SwapCA, Activating, Certificates

\* Agents can fetch a new CA for at least a tick before it signs anything, however the
\* rotator, the pruner, crashes and failures interleave, as long as caRotate's calls end
\* within a tick.
THEOREM CAsArePublishedAhead == SVIDSpec => PublishedAheadOfUse
<1>1. SVIDInit => IInv /\ RotationInv
  BY Zenon, InvInit, RotationInit DEF SVIDInit
<1>2. IInv /\ RotationInv /\ [SVIDNext]_allVars => (IInv /\ RotationInv)'
  BY Zenon, TimedStep, TimedIsNext, InvStep, RotationStep
<1>3. IInv /\ RotationInv /\ [SVIDNext]_allVars =>
        [caCert # NoCert /\ caCert' \notin {caCert, NoCert}
           => now > caCert'.notBefore + Backdate]_vars
  BY Zenon, TimedStep, Activation
<1> QED
  BY <1>1, <1>2, <1>3, PTL DEF SVIDSpec, PublishedAheadOfUse

(***************************************************************************)
(* How long the CA in use has left.                                        *)
(***************************************************************************)
Life    == CATTL + Backdate
Left(c) == c.notAfter - now

\* A tick of rotateTicker that caRotate has not dealt with yet.
Pending == IF rotateTick \/ pc # "idle" THEN 1 ELSE 0

\* Until it is replaced, the CA has a sixth of its life left, less a tick for every failure.
\* Once it has a successor this may be a tick less, and then the successor is as new as the
\* failures allow; in any case the successor outlives it.
LifeInv ==
  /\ pc # "down" /\ ~starting => caCert # NoCert
  /\ caCert # NoCert => Lifetime(caCert) = Life /\ Left(caCert) <= CATTL
  /\ nextCACert # NoCert => Lifetime(nextCACert) = Life
  /\ pc \in {"store", "assign"} => Lifetime(issued) = Life
  /\ starting /\ nextCACert # NoCert => nextCACert.notBefore + Backdate = now
  /\ caCert # NoCert /\ (rotateTick \/ Preparing) => Left(caCert) < CATTL
  /\ caCert # NoCert /\ nextCACert = NoCert => 6 * (Left(caCert) + failures + Pending) >= SixthLeft
  /\ caCert # NoCert /\ nextCACert # NoCert =>
       /\ nextCACert.notAfter > caCert.notAfter
       /\ 6 * (Left(caCert) + failures + Pending + 1) >= SixthLeft
       /\ \/ 6 * (Left(caCert) + failures + Pending) >= Life
          \/ now <= nextCACert.notBefore + Backdate + failures + Pending

LEMMA LifeInit == Init => LifeInv
BY Zenon DEF Init, LifeInv, Preparing

LEMMA SixthLeftType == SixthLeft \in Int /\ SixthLeft <= Life /\ SixthLeft <= 6 * (CATTL - 1)
BY DurationAssumption DEF SixthLeft, Life

LEMMA LifeStep == IInv /\ RotationInv /\ LifeInv /\ [TimedNext]_vars => LifeInv'
<1> SUFFICES ASSUME IInv, RotationInv, LifeInv, [TimedNext]_vars PROVE LifeInv'
  BY Zenon
<1>0. TypeOK /\ KeyInv
  BY Zenon DEF IInv
<1> USE DurationAssumption, SixthLeftType DEF Preparing, Activating, Lifetime, Life, Left, Pending
<1>1. CASE Rested /\ Tick
  <2>1. /\ now' = now + 1 /\ pc \in {"down", "idle"} /\ rotateTick' = (pc # "down")
        /\ ~rotateTick /\ UNCHANGED <<pc, starting, caCert, nextCACert, issued, failures>>
    BY Zenon, <1>1 DEF Tick, Rested
  <2>2. ~starting
    BY Zenon, <2>1 DEF RotationInv
  <2>3. CASE pc = "down"
    BY Zenon, <1>0, <2>1, <2>2, <2>3 DEF KeyInv, LifeInv
  <2>4. CASE pc = "idle"
    <3>4. rotateTick'
      BY Zenon, <2>1, <2>4
    <3>1. now' \in Nat /\ Pending = 0 /\ Pending' = 1
      BY <1>0, <2>1, <2>4, <3>4 DEF TypeOK
    <3>2. Left(caCert)' = Left(caCert) - 1
      BY <1>0, <2>1 DEF TypeOK, Certificates
    <3> HIDE DEF Left, Pending, Life
    <3>3. /\ Left(caCert) \in Int /\ Life \in Int
          /\ nextCACert.notBefore \in Int /\ failures \in Nat /\ now \in Nat
      BY <1>0 DEF TypeOK, Certificates, Left, Life
    <3> QED
      BY <2>1, <2>2, <2>4, <3>1, <3>2, <3>3 DEF LifeInv
  <2> QED
    BY Zenon, <2>1, <2>3, <2>4
<1>2. CASE Boot
  BY Zenon, <1>0, <1>2 DEF KeyInv, LifeInv, Boot
<1>3. CASE Stop \/ StartFails
  BY <1>3 DEF LifeInv, Stop, StartFails, Down
<1>4. CASE RotateTick
  <2>1. /\ pc = "idle" /\ rotateTick /\ ~rotateTick' /\ pc' = CARotate
        /\ UNCHANGED <<now, starting, caCert, nextCACert, issued, failures>>
    BY Zenon, <1>4 DEF RotateTick
  <2>2. ~starting /\ caCert # NoCert /\ Pending = 1
    BY <2>1 DEF RotationInv, LifeInv
  <2>3. Left(caCert) \in Int /\ failures \in Nat /\ Left(caCert)' = Left(caCert) /\ Life \in Nat
    BY <1>0, <2>1 DEF TypeOK, Certificates
  <2>4. \/ pc' \in {"generate", "load"} /\ Pending' = 1
        \/ pc' = "idle" /\ Pending' = 0 /\ nextCACert = NoCert /\ 2 * Left(caCert) >= Life
        \/ pc' = "idle" /\ Pending' = 0 /\ nextCACert # NoCert /\ 6 * Left(caCert) >= Life
    BY <2>1, <2>2, <2>3 DEF CARotate, LifeInv
  <2>5. pc' = "generate" => nextCACert = NoCert
    BY Zenon, <2>1 DEF CARotate
  <2>6. now \in Nat /\ nextCACert.notBefore \in Int
    BY <1>0 DEF TypeOK, Certificates
  <2> HIDE DEF Left, Life, Pending
  <2> QED
    BY <2>1, <2>2, <2>3, <2>4, <2>5, <2>6 DEF LifeInv
<1>5. CASE GenerateCsr
  BY Zenon, <1>5 DEF LifeInv, GenerateCsr
<1>6. CASE SubmitCSR
  BY <1>0, <1>6 DEF TypeOK, LifeInv, SubmitCSR
<1>7. CASE StoreCACert
  BY Zenon, <1>7 DEF LifeInv, StoreCACert
<1>8. CASE AssignNext
  <2>1. /\ pc = "assign" /\ pc' = (IF starting THEN "load" ELSE "idle")
        /\ nextCACert' = issued /\ nextCACert = NoCert
        /\ UNCHANGED <<now, starting, caCert, failures, rotateTick>>
    BY Zenon, <1>0, <1>8 DEF KeyInv, AssignNext
  <2>2. issued # NoCert /\ issued.notBefore + Backdate = now /\ Lifetime(issued) = Life
    BY <1>0, <2>1 DEF KeyInv, RotationInv, LifeInv, NoCert
  <2>3. CASE starting
    BY Zenon, <1>0, <2>1, <2>2, <2>3 DEF RotationInv, LifeInv
  <2>4. CASE ~starting
    <3>1. /\ caCert # NoCert /\ Lifetime(caCert) = Life /\ Left(caCert) < CATTL
          /\ 6 * (Left(caCert) + failures + 1) >= SixthLeft
      BY Zenon, <2>1, <2>4 DEF LifeInv
    <3>2. /\ Left(caCert) \in Int /\ Left(caCert)' = Left(caCert) /\ Pending' = 0
          /\ failures \in Nat /\ now \in Nat
      BY <1>0, <2>1, <2>4 DEF TypeOK, RotationInv, Certificates
    <3>3. issued.notAfter > caCert.notAfter
      BY <1>0, <2>2, <3>1 DEF TypeOK, Certificates
    <3>4. /\ 6 * (Left(caCert) + failures + Pending + 1)' >= SixthLeft
          /\ now <= now + failures + Pending'
      BY <2>1, <3>1, <3>2
    <3>5. ~rotateTick' /\ ~Preparing' /\ Left(caCert)' <= CATTL
      BY <2>1, <2>4, <3>1, <3>2 DEF RotationInv
    <3> HIDE DEF Left, Life, Pending, Preparing, Lifetime
    <3> QED
      BY Zenon, <2>1, <2>2, <2>4, <3>1, <3>3, <3>4, <3>5 DEF LifeInv, Lifetime
  <2> QED
    BY Zenon, <2>3, <2>4
<1>9. CASE RotateFails
  <2>1. /\ pc \in {"generate", "submit", "store", "load"} /\ pc' = "idle" /\ ~starting
        /\ failures' = failures + 1 /\ ~rotateTick
        /\ UNCHANGED <<now, starting, caCert, nextCACert, rotateTick>>
    BY Zenon, <1>9 DEF RotateFails, CallFails, RotationInv
  <2>2. /\ Pending = 1 /\ Pending' = 0 /\ Left(caCert)' = Left(caCert) /\ Left(caCert) \in Int
        /\ failures \in Nat /\ now \in Nat /\ nextCACert.notBefore \in Int
    BY <1>0, <2>1 DEF TypeOK, Certificates
  <2> HIDE DEF Left, Life, Pending
  <2>3. Life \in Int
    BY DEF Life
  <2> QED
    BY <2>1, <2>2, <2>3 DEF LifeInv
<1>10. CASE LoadCertificate
  BY Zenon, <1>10 DEF LifeInv, LoadCertificate
<1>11. CASE SwapCA
  <2>1. /\ pc = "swap" /\ pc' = "idle" /\ ~starting' /\ caCert' = nextCACert
        /\ nextCACert' = NoCert /\ nextCACert # NoCert /\ ~rotateTick
        /\ UNCHANGED <<now, failures, rotateTick>>
    BY Zenon, <1>0, <1>11 DEF SwapCA, KeyInv, RotationInv
  <2>2. nextCACert \in Certificates /\ caCert \in Certificates /\ now \in Nat /\ failures \in Nat
    BY Zenon, <1>0 DEF TypeOK
  <2>3. nextCACert.notBefore + Backdate <= now /\ Lifetime(nextCACert) = Life
    BY Zenon, <2>1 DEF RotationInv, LifeInv
  <2>4. 6 * (Left(nextCACert) + failures) >= SixthLeft /\ Left(nextCACert) <= CATTL
    BY <2>1, <2>2, <2>3 DEF LifeInv, Certificates
  <2> QED
    BY <2>1, <2>2, <2>3, <2>4 DEF LifeInv, Certificates
<1>12. CASE PruneTick \/ PruneFetch \/ PruneFilter \/ PruneUpdate \/ PruneFails
  BY <1>12 DEF LifeInv, PruneTick, PruneFetch, PruneFilter, PruneUpdate, PruneFails
<1>13. CASE UNCHANGED vars
  BY Zenon, <1>13 DEF LifeInv, vars
<1> QED
  BY Zenon, <1>1, <1>2, <1>3, <1>4, <1>5, <1>6, <1>7, <1>8, <1>9, <1>10, <1>11, <1>12, <1>13
     DEF TimedNext, Step

\* The CA that MemoryPlugin.SignCsr signs with now has a sixth of its life left, or nearly so.
LEMMA SignerHasLife ==
  IInv /\ RotationInv /\ LifeInv /\ ~starting /\ pc # "down" =>
    cert # NoCert /\ 6 * (Left(cert) + failures + 2) >= SixthLeft
<1> SUFFICES ASSUME IInv, RotationInv, LifeInv, ~starting, pc # "down"
             PROVE cert # NoCert /\ 6 * (Left(cert) + failures + 2) >= SixthLeft
  BY Zenon
<1> USE DurationAssumption, SixthLeftType
<1>1. TypeOK /\ KeyInv
  BY Zenon DEF IInv
<1>2. /\ nextCACert \in Certificates /\ caCert \in Certificates /\ now \in Nat /\ failures \in Nat
      /\ Pending \in {0, 1}
  BY <1>1 DEF TypeOK, Pending
<1>3. CASE pc = "swap"
  <2>1. cert = nextCACert /\ nextCACert # NoCert /\ caCert # NoCert
    BY Zenon, <1>1, <1>3 DEF KeyInv, LifeInv
  <2> QED
    BY <1>2, <2>1 DEF LifeInv, Lifetime, Life, Left, Certificates
<1>4. CASE pc # "swap"
  <2>1. cert = caCert /\ caCert # NoCert
    BY Zenon, <1>1, <1>4 DEF KeyInv, LifeInv
  <2> QED
    BY <1>2, <2>1 DEF LifeInv, Left, Certificates
<1> QED
  BY Zenon, <1>3, <1>4

(***************************************************************************)
(* The rotator and the endpoints.                                          *)
(***************************************************************************)
LEMMA NoSVIDType == NoSVID \in SVIDs
BY NoCertType DEF NoSVID, SVIDs

LEMMA SignedType == TypeOK /\ cert # NoCert => SignCsr \in SVIDs /\ SignCsr # NoSVID
BY DurationAssumption DEF TypeOK, SignCsr, SVIDs, NoSVID

USE DEF rotatorVars, endpointVars

LEMMA SVIDTypeInit == SVIDInit => SVIDTypeOK
<1> SUFFICES ASSUME SVIDInit PROVE SVIDTypeOK
  BY Zenon
<1>1. svidTick \in BOOLEAN
  BY Zenon DEF SVIDInit
<1>2. failedAt \in SUBSET Nat
  BY Zenon DEF SVIDInit
<1> QED
  BY <1>1, <1>2, NoSVIDType DEF SVIDInit, SVIDTypeOK

LEMMA SVIDTypeStep == TypeOK /\ SVIDTypeOK /\ [SVIDNext]_allVars => SVIDTypeOK'
<1> SUFFICES ASSUME TypeOK, SVIDTypeOK, [SVIDNext]_allVars PROVE SVIDTypeOK'
  BY Zenon
<1> USE NoSVIDType
<1>1. CASE AllRested /\ Time
  BY Zenon, <1>1 DEF SVIDTypeOK, Time
<1>2. CASE CAStep
  BY Zenon, <1>2 DEF SVIDTypeOK, CAStep
<1>3. CASE ServerDown
  <2>1. svidTick' \in BOOLEAN /\ failedAt' \in SUBSET Nat
    BY Zenon, <1>3 DEF ServerDown
  <2> QED
    BY <1>3, <2>1 DEF SVIDTypeOK, ServerDown
<1>4. CASE StartRotator
  BY Zenon, <1>4 DEF SVIDTypeOK, StartRotator
<1>5. CASE RotatorTick
  <2>1. svidTick' \in BOOLEAN
    BY Zenon, <1>5 DEF RotatorTick
  <2> QED
    BY Zenon, <1>5, <2>1 DEF SVIDTypeOK, RotatorTick
<1>6. CASE SignSVID
  BY Zenon, <1>6, SignedType DEF SVIDTypeOK, SignSVID
<1>14. CASE SignFails
  BY Zenon, <1>14 DEF TypeOK, SVIDTypeOK, SignFails
<1>7. CASE UpdateState
  BY <1>7 DEF SVIDTypeOK, UpdateState
<1>8. CASE Subscribe
  BY <1>8 DEF SVIDTypeOK, Subscribe
<1>9. CASE FirstUpdateSVID
  BY <1>9 DEF SVIDTypeOK, FirstUpdateSVID
<1>10. CASE ObserveSVID
  BY <1>10 DEF SVIDTypeOK, ObserveSVID
<1>11. CASE FetchRoots
  BY Zenon, <1>11 DEF TypeOK, SVIDTypeOK, FetchRoots
<1>12. CASE ServeCerts
  BY Zenon, <1>12 DEF SVIDTypeOK, ServeCerts
<1>13. CASE UNCHANGED allVars
  BY Zenon, <1>13 DEF SVIDTypeOK, allVars
<1> QED
  BY Zenon, <1>1, <1>2, <1>3, <1>4, <1>5, <1>6, <1>7, <1>8, <1>9, <1>10, <1>11, <1>12, <1>13,
     <1>14 DEF SVIDNext, SVIDStep

\* Which SVIDs exist where the rotator is, and that the endpoints' stream leads from the
\* SVID they serve to the rotator's.
StreamInv ==
  /\ pc = "down" \/ starting => rotatorPc = "off"
  /\ rotatorPc = "off" => state = NoSVID
  /\ rotatorPc = "idle" => state # NoSVID
  /\ svidTick => rotatorPc = "idle"
  /\ rotatorPc = "update" <=> signed # NoSVID
  /\ \A i \in 1..Len(stream) : stream[i] # NoSVID
  /\ stream # <<>> => stream[Len(stream)] = state
  /\ svid # NoSVID => stream # <<>> /\ svid = stream[1]

LEMMA StreamInit == SVIDInit => StreamInv
BY DEF SVIDInit, Init, StreamInv

LEMMA StreamStep ==
  TypeOK /\ SVIDTypeOK /\ StreamInv /\ [SVIDNext]_allVars => StreamInv'
<1> SUFFICES ASSUME TypeOK, SVIDTypeOK, StreamInv, [SVIDNext]_allVars PROVE StreamInv'
  BY Zenon
<1>1. CASE AllRested /\ Time
  BY Zenon, <1>1 DEF StreamInv, Time, Tick, AllRested
<1>2. CASE CAStep
  <2>1. starting' => starting \/ pc = "down"
    BY Zenon, <1>2 DEF CAStep, Step, Boot, Stop, Down, RotateTick, GenerateCsr, SubmitCSR,
                       StoreCACert, AssignNext, StartFails, RotateFails, LoadCertificate, SwapCA, PruneTick,
                       PruneFetch, PruneFilter, PruneUpdate, PruneFails
  <2> QED
    BY Zenon, <1>2, <2>1 DEF StreamInv, CAStep
<1>3. CASE ServerDown
  BY <1>3 DEF StreamInv, ServerDown
<1>4. CASE StartRotator
  BY Zenon, <1>4 DEF StreamInv, StartRotator, vars
<1>5. CASE RotatorTick
  BY Zenon, <1>5 DEF StreamInv, RotatorTick, vars
<1>6. CASE SignSVID
  BY Zenon, <1>6, SignedType DEF StreamInv, SignSVID, vars
<1>12. CASE SignFails
  BY Zenon, <1>12 DEF StreamInv, SignFails, vars
<1>7. CASE UpdateState
  BY <1>7 DEF SVIDTypeOK, StreamInv, UpdateState, vars
<1>8. CASE Subscribe
  BY <1>8 DEF SVIDTypeOK, StreamInv, Subscribe, vars
<1>9. CASE FirstUpdateSVID
  BY <1>9 DEF SVIDTypeOK, StreamInv, FirstUpdateSVID, vars
<1>10. CASE ObserveSVID
  <2>6. stream \in Seq(SVIDs) /\ Len(stream) > 1 /\ stream' = Tail(stream)
    BY Zenon, <1>10 DEF SVIDTypeOK, ObserveSVID
  <2>7. Len(stream') = Len(stream) - 1 /\ Len(stream) \in Nat
    BY <2>6
  <2>8. \A i \in 1..Len(stream') : stream'[i] = stream[i + 1]
    BY <2>6, <2>7
  <2>9. Len(stream') > 0 /\ stream' # <<>>
    <3>1. Len(stream') > 0
      BY <2>6, <2>7
    <3>2. stream' = <<>> => Len(stream') = 0
      BY Len(<<>>) = 0, Zenon
    <3> QED
      BY <3>1, <3>2
  <2>1. /\ Len(stream') = Len(stream) - 1 /\ Len(stream') > 0 /\ stream' # <<>>
        /\ \A i \in 1..Len(stream') : stream'[i] = stream[i + 1]
    BY Zenon, <2>7, <2>8, <2>9
  <2>2. svid' = stream'[1]
    BY <1>10, <2>1 DEF ObserveSVID
  <2>3. \A i \in 1..Len(stream') : stream'[i] # NoSVID
    BY <2>1 DEF SVIDTypeOK, StreamInv
  <2>4. stream'[Len(stream')] = stream[Len(stream)]
    BY <2>1 DEF SVIDTypeOK
  <2>5. stream # <<>>
    BY <1>10 DEF ObserveSVID, SVIDTypeOK
  <2> QED
    BY Zenon, <1>10, <2>1, <2>2, <2>3, <2>4, <2>5 DEF StreamInv, ObserveSVID, vars
<1>11. CASE FetchRoots \/ ServeCerts
  BY <1>11 DEF StreamInv, FetchRoots, ServeCerts, vars
<1>13. CASE UNCHANGED allVars
  BY Zenon, <1>13 DEF StreamInv, allVars, vars
<1> QED
  BY Zenon, <1>1, <1>2, <1>3, <1>4, <1>5, <1>6, <1>7, <1>8, <1>9, <1>10, <1>11, <1>12, <1>13
     DEF SVIDNext, SVIDStep

\* The SVIDs that some step may still serve.
InUse == {s \in {state, signed, svid} \cup {stream[i] : i \in 1..Len(stream)} : s # NoSVID}

\* A step brings no SVID into use except the one that SignSVID signs.
LEMMA InUseStep ==
  SVIDTypeOK /\ StreamInv /\ [SVIDNext]_allVars =>
    /\ InUse' \subseteq InUse \cup {SignCsr}
    /\ ~SignSVID => InUse' \subseteq InUse
<1> SUFFICES ASSUME SVIDTypeOK, StreamInv, [SVIDNext]_allVars
             PROVE /\ InUse' \subseteq InUse \cup {SignCsr}
                   /\ ~SignSVID => InUse' \subseteq InUse
  BY Zenon
<1>1. CASE Time \/ CAStep \/ StartRotator \/ RotatorTick \/ SignFails \/ FetchRoots \/ ServeCerts
  BY Zenon, <1>1 DEF InUse, Time, CAStep, StartRotator, RotatorTick, SignFails, FetchRoots, ServeCerts
<1>2. CASE ServerDown
  <2>1. state' = NoSVID /\ signed' = NoSVID /\ svid' = NoSVID /\ stream' = <<>>
    BY Zenon, <1>2 DEF ServerDown
  <2>2. 1..Len(<<>>) = {}
    OBVIOUS
  <2>3. {stream[i] : i \in 1..Len(stream)}' = {}
    BY Zenon, <2>1, <2>2
  <2>4. InUse' = {}
    BY Zenon, <2>1, <2>3 DEF InUse
  <2> QED
    BY Zenon, <2>4
<1>3. CASE SignSVID
  BY Zenon, <1>3 DEF InUse, SignSVID
<1>4. CASE UpdateState
  BY <1>4 DEF SVIDTypeOK, InUse, UpdateState
<1>5. CASE Subscribe
  BY <1>5 DEF SVIDTypeOK, InUse, Subscribe
<1>6. CASE FirstUpdateSVID
  BY <1>6 DEF SVIDTypeOK, InUse, FirstUpdateSVID
<1>7. CASE ObserveSVID
  BY <1>7 DEF SVIDTypeOK, InUse, ObserveSVID
<1>8. CASE UNCHANGED allVars
  BY Zenon, <1>8 DEF InUse, allVars
<1> QED
  BY Zenon, <1>1, <1>2, <1>3, <1>4, <1>5, <1>6, <1>7, <1>8 DEF SVIDNext, SVIDStep

\* When time passes, one SVID at most is in use, the rotator's.
LEMMA InUseAtRest ==
  SVIDTypeOK /\ StreamInv /\ AllRested =>
    /\ InUse \subseteq {state}
    /\ InUse # {} => rotatorPc = "idle" /\ ~svidTick
<1> SUFFICES ASSUME SVIDTypeOK, StreamInv, AllRested
             PROVE /\ InUse \subseteq {state}
                   /\ InUse # {} => rotatorPc = "idle" /\ ~svidTick
  BY Zenon
<1>1. signed = NoSVID /\ ~svidTick
  BY Zenon DEF StreamInv, AllRested
<1>2. \A i \in 1..Len(stream) : i = Len(stream) /\ stream # <<>>
  BY DEF SVIDTypeOK, AllRested
<1>3. \A i \in 1..Len(stream) : stream[i] = state
  BY Zenon, <1>2 DEF StreamInv
<1>4. svid # NoSVID => svid = state
  <2>1. stream # <<>> => 1 \in 1..Len(stream)
    BY DEF SVIDTypeOK
  <2> QED
    BY Zenon, <1>3, <2>1 DEF StreamInv
<1>5. InUse \subseteq {state}
  BY Zenon, <1>1, <1>3, <1>4 DEF InUse
<1>6. InUse # {} => state # NoSVID
  BY SMTT(60), <1>5 DEF InUse
<1> QED
  BY Zenon, <1>1, <1>5, <1>6 DEF StreamInv, AllRested

\* An SVID is past half of its life at t, and yet no rotation has failed at t.
Neglected(s, t) == Overdue(s, t) /\ t \notin failedAt

\* What ServedChainIsRecent says of the SVID served holds of every SVID in use; and of the
\* rotator's own it holds of this tick, too, once the tick is dealt with.
Sound(s) ==
  /\ \A t \in Nat : t < now => ~Neglected(s, t)
  /\ 6 * (s.issuer.notAfter - SignedAt(s) + failures + 2) >= SixthLeft

SoundInv ==
  /\ \A s \in InUse : Sound(s)
  /\ rotatorPc = "update" => SignedAt(signed) = now
  /\ rotatorPc = "idle" /\ ~svidTick => ~Neglected(state, now)

ChainInv ==
  /\ IInv /\ RotationInv /\ LifeInv
  /\ SVIDTypeOK /\ StreamInv /\ SoundInv

LEMMA SoundInit == SVIDInit => SoundInv
BY DEF SVIDInit, SoundInv, InUse

\* Failures are counted, and those of the rotator remembered while the process runs.
LEMMA FailuresStay ==
  TypeOK /\ [SVIDNext]_allVars =>
    /\ failures' >= failures
    /\ failedAt \subseteq failedAt' \/ ServerDown
<1> SUFFICES ASSUME TypeOK, [SVIDNext]_allVars
             PROVE /\ failures' >= failures
                   /\ failedAt \subseteq failedAt' \/ ServerDown
  BY Zenon
<1>1. failures' >= failures
  <2>1. CASE StartFails \/ RotateFails
    BY <2>1 DEF TypeOK, StartFails, RotateFails, CallFails
  <2>2. CASE ~StartFails /\ ~RotateFails
    <3>1. failures' = failures
      BY Zenon, <2>2 DEF SVIDNext, SVIDStep, Time, Tick, CAStep, ServerDown, StartRotator, RotatorTick,
                         SignSVID, SignFails, UpdateState, Subscribe, FirstUpdateSVID, ObserveSVID,
                         FetchRoots, ServeCerts, allVars, vars, Step, Boot, Stop, Down, RotateTick,
                         GenerateCsr, SubmitCSR, StoreCACert, AssignNext, LoadCertificate, SwapCA,
                         PruneTick, PruneFetch, PruneFilter, PruneUpdate, PruneFails
    <3> QED
      BY <3>1 DEF TypeOK
  <2> QED
    BY Zenon, <2>1, <2>2
<1>2. failedAt \subseteq failedAt' \/ ServerDown
  BY Zenon DEF SVIDNext, SVIDStep, Time, CAStep, StartRotator, RotatorTick, SignSVID, SignFails,
               UpdateState, Subscribe, FirstUpdateSVID, ObserveSVID, FetchRoots, ServeCerts, allVars
<1> QED
  BY Zenon, <1>1, <1>2

LEMMA SoundStep == ChainInv /\ [SVIDNext]_allVars => SoundInv'
<1> SUFFICES ASSUME ChainInv, [SVIDNext]_allVars PROVE SoundInv'
  BY Zenon
<1>1. /\ TypeOK /\ TypeOK' /\ SVIDTypeOK /\ SVIDTypeOK' /\ StreamInv /\ StreamInv' /\ SoundInv
      /\ IInv /\ RotationInv /\ LifeInv
  BY Zenon, TimedStep, TimedIsNext, TypeStep, SVIDTypeStep, StreamStep DEF ChainInv, IInv
<1>2. InUse \subseteq SVIDs
  BY <1>1 DEF SVIDTypeOK, InUse
<1>3. CASE ServerDown
  <2>1. /\ state' = NoSVID /\ signed' = NoSVID /\ svid' = NoSVID /\ stream' = <<>>
        /\ rotatorPc' = "off"
    BY Zenon, <1>3 DEF ServerDown
  <2>2. InUse' = {}
    BY <2>1 DEF InUse
  <2> QED
    BY Zenon, <2>1, <2>2 DEF SoundInv
<1>4. ASSUME ~ServerDown, NEW s \in InUse, \A t \in Nat : t < now' => ~Neglected(s, t)
      PROVE  Sound(s)'
  <2>1. failures' >= failures /\ failedAt \subseteq failedAt'
    BY Zenon, <1>1, <1>4, FailuresStay
  <2>2. \A t \in Nat : t < now' => ~Neglected(s, t)'
    BY Zenon, <1>4, <2>1 DEF Neglected, Overdue, SignedAt
  <2>3. 6 * (s.issuer.notAfter - SignedAt(s) + failures + 2) >= SixthLeft
    BY Zenon, <1>1, <1>4 DEF SoundInv, Sound
  <2>4. /\ s.issuer.notAfter \in Nat /\ SignedAt(s) \in Int /\ SixthLeft \in Int
        /\ failures \in Nat /\ failures' \in Nat
    BY <1>1, <1>2, <1>4, DurationAssumption, SixthLeftType DEF SVIDs, Certificates, SignedAt, TypeOK
  <2>5. 6 * (s.issuer.notAfter - SignedAt(s) + failures' + 2) >= SixthLeft
    BY <2>1, <2>3, <2>4
  <2> QED
    BY Zenon, <2>2, <2>5 DEF Sound, SignedAt, SixthLeft
<1>5. CASE AllRested /\ Time
  <2>1. /\ InUse' = InUse /\ now' = now + 1
        /\ UNCHANGED <<rotatorPc, state, signed>>
    BY Zenon, <1>5 DEF Time, Tick, InUse
  <2>2. InUse \subseteq {state} /\ (InUse # {} => rotatorPc = "idle" /\ ~svidTick)
    BY Zenon, <1>1, <1>5, InUseAtRest
  <2>6. ~ServerDown
    BY <1>1, <2>1 DEF ServerDown, Stop, StartFails, Down, TypeOK
  <2>3. \A s \in InUse' : Sound(s)'
    <3> SUFFICES ASSUME NEW s \in InUse PROVE Sound(s)'
      BY Zenon, <2>1
    <3>1. s = state /\ ~Neglected(s, now) /\ Sound(s)
      BY Zenon, <1>1, <2>2 DEF SoundInv
    <3>2. \A t \in Nat : t < now' => t < now \/ t = now
      BY <1>1, <2>1 DEF TypeOK
    <3>3. \A t \in Nat : t < now' => ~Neglected(s, t)
      BY Zenon, <3>1, <3>2 DEF Sound
    <3> QED
      BY Zenon, <1>4, <2>6, <3>3
  <2>4. rotatorPc' # "update"
    BY Zenon, <1>5, <2>1 DEF AllRested
  <2>5. rotatorPc' = "idle" => svidTick'
    BY Zenon, <1>1, <1>5, <2>1 DEF StreamInv, Time
  <2> QED
    BY Zenon, <2>3, <2>4, <2>5 DEF SoundInv
<1>6. CASE ~(AllRested /\ Time) /\ ~ServerDown
  <2>1. now' = now
    BY Zenon, <1>6 DEF SVIDNext, SVIDStep, CAStep, StartRotator, RotatorTick, SignSVID, SignFails,
                       UpdateState, Subscribe, FirstUpdateSVID, ObserveSVID, FetchRoots, ServeCerts,
                       allVars, vars, Step, Boot, Stop, Down, RotateTick, GenerateCsr, SubmitCSR,
                       StoreCACert, AssignNext, StartFails, RotateFails, LoadCertificate, SwapCA,
                       PruneTick, PruneFetch, PruneFilter, PruneUpdate, PruneFails
  <2>2. \A s \in InUse : Sound(s)'
    BY Zenon, <1>1, <1>4, <1>6, <2>1 DEF SoundInv, Sound
  <2>3. SignSVID => Sound(SignCsr)'
    <3> SUFFICES ASSUME SignSVID PROVE Sound(SignCsr)'
      BY Zenon
    <3>1. ~starting /\ pc # "down"
      BY Zenon, <1>1 DEF StreamInv, SignSVID
    <3>2. 6 * (Left(cert) + failures + 2) >= SixthLeft
      BY Zenon, <1>1, <3>1, SignerHasLife
    <3>3. SignedAt(SignCsr) = now /\ now \in Nat /\ SignCsr.issuer = cert
      BY <1>1, DurationAssumption DEF SignedAt, SignCsr, TypeOK
    <3>4. UNCHANGED <<SignCsr, failures, now>>
      BY Zenon DEF SignSVID, vars, SignCsr
    <3>5. \A t \in Nat : t < now => ~(t > now)
      BY <3>3
    <3>6. \A t \in Nat : t < now' => ~Neglected(SignCsr, t)'
      BY Zenon, <3>3, <3>4, <3>5 DEF Neglected, Overdue, SignedAt
    <3> QED
      BY Zenon, <3>2, <3>3, <3>4, <3>6 DEF Sound, Left, SignedAt, SixthLeft
  <2>4. \A s \in InUse' : Sound(s)'
    <3> SUFFICES ASSUME NEW s \in InUse', s \notin InUse PROVE Sound(s)'
      BY Zenon, <2>2
    <3>1. SignSVID /\ s = SignCsr
      BY Zenon, <1>1, InUseStep
    <3>2. SignCsr' = SignCsr
      BY Zenon, <3>1 DEF SignSVID, vars, SignCsr
    <3> QED
      BY Zenon, <2>3, <3>1, <3>2
  <2>5. (rotatorPc = "update" => SignedAt(signed) = now)'
    <3>1. CASE SignSVID
      BY <1>1, <2>1, <3>1, DurationAssumption DEF SignSVID, SignCsr, SignedAt, TypeOK
    <3>2. CASE ~SignSVID
      BY Zenon, <1>1, <1>6, <2>1, <3>2
         DEF SoundInv, SignedAt, SVIDNext, SVIDStep, CAStep, StartRotator, RotatorTick, SignFails,
             UpdateState, Subscribe, FirstUpdateSVID, ObserveSVID, FetchRoots, ServeCerts, allVars
    <3> QED
      BY Zenon, <3>1, <3>2
  <2>6. (rotatorPc = "idle" /\ ~svidTick => ~Neglected(state, now))'
    <3>1. CASE RotatorTick
      BY Zenon, <2>1, <3>1 DEF RotatorTick, ShouldRotate, Neglected, Overdue
    <3>2. CASE UpdateState
      <4>1. SignedAt(state)' = now' /\ now' \in Nat
        BY Zenon, <1>1, <2>1, <3>2 DEF SoundInv, UpdateState, SignedAt, TypeOK
      <4>2. ~(now' > now')
        BY <4>1
      <4> QED
        BY Zenon, <4>1, <4>2 DEF Neglected, Overdue
    <3>3. CASE SignFails
      BY Zenon, <2>1, <3>3 DEF SignFails, Neglected
    <3>4. CASE ~RotatorTick /\ ~UpdateState /\ ~SignFails
      BY Zenon, <1>1, <1>6, <2>1, <3>4
         DEF SoundInv, Neglected, Overdue, SignedAt, SVIDNext, SVIDStep, CAStep, StartRotator,
             SignSVID, Subscribe, FirstUpdateSVID, ObserveSVID, FetchRoots, ServeCerts, allVars
    <3> QED
      BY Zenon, <3>1, <3>2, <3>3, <3>4
  <2> QED
    BY Zenon, <2>4, <2>5, <2>6 DEF SoundInv
<1> QED
  BY Zenon, <1>3, <1>5, <1>6

LEMMA ChainInit == SVIDInit => ChainInv
<1> SUFFICES ASSUME SVIDInit PROVE ChainInv
  BY Zenon
<1>1. Init
  BY Zenon DEF SVIDInit
<1> QED
  BY Zenon, <1>1, InvInit, RotationInit, LifeInit, SVIDTypeInit, StreamInit, SoundInit DEF ChainInv

LEMMA ChainStep == ChainInv /\ [SVIDNext]_allVars => ChainInv'
<1> SUFFICES ASSUME ChainInv, [SVIDNext]_allVars PROVE ChainInv'
  BY Zenon
<1>1. [TimedNext]_vars /\ [Next]_vars
  BY Zenon, TimedStep, TimedIsNext
<1>2. IInv' /\ RotationInv' /\ LifeInv'
  BY Zenon, <1>1, InvStep, RotationStep, LifeStep DEF ChainInv
<1>3. SVIDTypeOK' /\ StreamInv'
  BY Zenon, SVIDTypeStep, StreamStep DEF ChainInv, IInv
<1> QED
  BY Zenon, <1>2, <1>3, SoundStep DEF ChainInv

\* What a handshake has fetched contains a certificate, unless it was overwritten or has
\* been expired for the grace period.
Covered(c) ==
  \/ c \in caCerts
  \/ c.notAfter <= now - Grace
  \/ c \in overwritten

\* Between its two reads, a handshake has the CA of whatever SVID it may read: of those in
\* use, of what the rotator signs, and of the CA that this tick may still activate.
HandshakeInv ==
  /\ \A s \in InUse : Published(s.issuer)
  /\ handshake = "fetched" =>
       /\ svid # NoSVID
       /\ Covered(cert)
       /\ nextCACert # NoCert /\ (rotateTick \/ Activating) => Covered(nextCACert)
       /\ \A s \in InUse : Covered(s.issuer)

LEMMA HandshakeInit == SVIDInit => HandshakeInv
BY DEF SVIDInit, HandshakeInv, InUse

LEMMA IssuersArePublished ==
  ChainInv /\ HandshakeInv /\ [SVIDNext]_allVars => \A s \in InUse' : Published(s.issuer)'
<1> SUFFICES ASSUME ChainInv, HandshakeInv, [SVIDNext]_allVars, NEW s \in InUse'
             PROVE Published(s.issuer)'
  BY Zenon
<1>1. \A c \in Certificates : Published(c) => Published(c)'
  BY Zenon, TimedStep, TimedIsNext, PublishedStays DEF ChainInv, IInv
<1>2. CASE s \in InUse
  <2>2. s \in SVIDs
    BY <1>2 DEF ChainInv, SVIDTypeOK, InUse
  <2>1. s.issuer \in Certificates /\ Published(s.issuer)
    BY Zenon, <1>2, <2>2 DEF HandshakeInv, SVIDs
  <2> QED
    BY Zenon, <1>1, <2>1
<1>3. CASE s \notin InUse
  <2>1. SignSVID /\ s = SignCsr
    BY Zenon, <1>3, InUseStep DEF ChainInv
  <2>2. cert \in Certificates /\ Published(cert)
    BY Zenon, <2>1 DEF SignSVID, ChainInv, IInv, TypeOK, PublishedInv
  <2> QED
    BY Zenon, <1>1, <2>1, <2>2 DEF SignCsr
<1> QED
  BY Zenon, <1>2, <1>3

\* While a handshake is between its reads, no time passes and nothing is uncovered.
LEMMA CoveredStays ==
  ASSUME ChainInv, [SVIDNext]_allVars, handshake = "fetched", handshake' = "fetched",
         NEW c, Covered(c)
  PROVE  Covered(c)'
<1>1. caCerts' = caCerts
  BY Zenon DEF SVIDNext, SVIDStep, AllRested, Time, CAStep, ServerDown, StartRotator, RotatorTick,
               SignSVID, SignFails, UpdateState, Subscribe, FirstUpdateSVID, ObserveSVID, FetchRoots, ServeCerts,
               allVars
<1>2. [Step]_vars
  BY Zenon DEF SVIDNext, SVIDStep, AllRested, Time, CAStep, ServerDown, Step, StartRotator,
               RotatorTick, SignSVID, SignFails, UpdateState, Subscribe, FirstUpdateSVID, ObserveSVID, FetchRoots,
               ServeCerts, allVars
<1>3. now' = now /\ overwritten \subseteq overwritten'
  BY Zenon, <1>2 DEF Step, vars, Boot, Stop, Down, RotateTick, GenerateCsr, SubmitCSR, StoreCACert,
                     AssignNext, StartFails, RotateFails, LoadCertificate, SwapCA, PruneTick, PruneFetch,
                     PruneFilter, PruneUpdate, PruneFails
<1> QED
  BY Zenon, <1>1, <1>3 DEF Covered

LEMMA HandshakeStep == ChainInv /\ HandshakeInv /\ [SVIDNext]_allVars => HandshakeInv'
<1> SUFFICES ASSUME ChainInv, HandshakeInv, [SVIDNext]_allVars PROVE HandshakeInv'
  BY Zenon
<1>1. \A s \in InUse' : Published(s.issuer)'
  BY Zenon, IssuersArePublished
<1> SUFFICES ASSUME handshake' = "fetched"
             PROVE /\ svid' # NoSVID
                   /\ Covered(cert)'
                   /\ (nextCACert # NoCert /\ (rotateTick \/ Activating) => Covered(nextCACert))'
                   /\ \A s \in InUse' : Covered(s.issuer)'
  BY Zenon, <1>1 DEF HandshakeInv
<1>2. CASE FetchRoots
  <2>1. /\ caCerts' = bundle /\ svid' = svid /\ svid # NoSVID
        /\ UNCHANGED <<vars, rotatorVars, stream, svid>>
    BY Zenon, <1>2 DEF FetchRoots
  <2>2. \A c : Published(c) => Covered(c)'
    BY Zenon, <2>1 DEF Published, Covered, vars
  <2>3. ~starting /\ pc # "down"
    BY <2>1 DEF ChainInv, StreamInv
  <2>4. Published(cert)
    BY Zenon, <2>3, SignerHasLife DEF ChainInv, IInv, PublishedInv
  <2>5. nextCACert # NoCert => Published(nextCACert)
    BY Zenon DEF ChainInv, IInv, PublishedInv
  <2>6. InUse' = InUse
    BY Zenon, <2>1 DEF InUse
  <2>7. \A s \in InUse : Published(s.issuer)
    BY Zenon DEF HandshakeInv
  <2>8. cert' = cert /\ nextCACert' = nextCACert
    BY Zenon, <2>1 DEF vars
  <2> QED
    BY Zenon, <2>1, <2>2, <2>4, <2>5, <2>6, <2>7, <2>8
<1>3. CASE ~FetchRoots
  <2>1. handshake = "fetched"
    BY Zenon, <1>3 DEF SVIDNext, SVIDStep, AllRested, Time, CAStep, ServerDown, StartRotator,
                       RotatorTick, SignSVID, SignFails, UpdateState, Subscribe, FirstUpdateSVID, ObserveSVID, ServeCerts,
                       allVars
  <2>2. \A c : Covered(c) => Covered(c)'
    BY Zenon, <2>1, CoveredStays
  <2>3. /\ svid # NoSVID /\ Covered(cert)
        /\ nextCACert # NoCert /\ (rotateTick \/ Activating) => Covered(nextCACert)
        /\ \A s \in InUse : Covered(s.issuer)
    BY Zenon, <2>1 DEF HandshakeInv
  <2>4. svid' # NoSVID
    <3>1. CASE ObserveSVID
      <4>1. stream \in Seq(SVIDs) /\ Len(stream) > 1 /\ svid' = Head(Tail(stream))
        BY Zenon, <3>1 DEF ChainInv, SVIDTypeOK, ObserveSVID
      <4>2. svid' = stream[2] /\ 2 \in 1..Len(stream)
        BY <4>1
      <4> QED
        BY Zenon, <4>2 DEF ChainInv, StreamInv
    <3>2. CASE ~ObserveSVID
      BY Zenon, <1>3, <2>3, <3>2 DEF SVIDNext, SVIDStep, Time, CAStep, ServerDown, StartRotator,
                                     RotatorTick, SignSVID, SignFails, UpdateState, Subscribe, FirstUpdateSVID, ServeCerts, allVars
    <3> QED
      BY Zenon, <3>1, <3>2
  <2>5. \A s \in InUse' : Covered(s.issuer)
    <3> SUFFICES ASSUME NEW s \in InUse', s \notin InUse PROVE Covered(s.issuer)
      BY Zenon, <2>3
    <3>1. SignSVID /\ s = SignCsr
      BY Zenon, InUseStep DEF ChainInv
    <3> QED
      BY Zenon, <2>3, <3>1 DEF SignCsr
  <2>6. [Step]_vars /\ ~starting /\ pc # "down" /\ pc' # "down"
    <3>1. ~starting /\ pc # "down"
      BY <2>3 DEF ChainInv, StreamInv
    <3> QED
      BY Zenon, <2>1, <3>1 DEF SVIDNext, SVIDStep, AllRested, Time, CAStep, ServerDown, StartRotator,
                               RotatorTick, SignSVID, SignFails, UpdateState, Subscribe, FirstUpdateSVID, ObserveSVID,
                               FetchRoots, ServeCerts, allVars, vars
  <2>7. Covered(cert')
    <3>1. CASE LoadCertificate
      BY Zenon, <2>3, <3>1 DEF LoadCertificate, Activating, ChainInv, IInv, KeyInv
    <3>2. CASE ~LoadCertificate
      <4>1. cert' = cert
        BY Zenon, <2>6, <3>2 DEF Step, vars, Boot, Stop, Down, RotateTick, GenerateCsr,
                                 SubmitCSR, StoreCACert, AssignNext, StartFails, RotateFails, SwapCA, PruneTick,
                                 PruneFetch, PruneFilter, PruneUpdate, PruneFails
      <4> QED
        BY Zenon, <2>3, <4>1
    <3> QED
      BY Zenon, <3>1, <3>2
  <2>8. nextCACert' # NoCert /\ (rotateTick' \/ Activating') => Covered(nextCACert')
    <3> SUFFICES ASSUME nextCACert' # NoCert, rotateTick' \/ Activating'
                 PROVE Covered(nextCACert')
      BY Zenon
    <3>1. ~AssignNext
      BY <2>6 DEF AssignNext, Activating, ChainInv, RotationInv
    <3>2. nextCACert' = nextCACert
      BY Zenon, <2>6, <3>1 DEF Step, vars, Boot, Stop, Down, RotateTick, GenerateCsr,
                               SubmitCSR, StoreCACert, StartFails, RotateFails, LoadCertificate, SwapCA, PruneTick,
                               PruneFetch, PruneFilter, PruneUpdate, PruneFails
    <3>3. rotateTick \/ Activating
      <4>1. CASE RotateTick
        BY Zenon, <4>1 DEF RotateTick
      <4>2. CASE Boot \/ Stop \/ GenerateCsr \/ SubmitCSR \/ StoreCACert
        BY Zenon, <2>6, <4>2 DEF Activating, Boot, Stop, Down, GenerateCsr, SubmitCSR, StoreCACert
      <4>3. CASE StartFails \/ RotateFails \/ LoadCertificate \/ SwapCA
        BY Zenon, <2>6, <4>3 DEF Activating, StartFails, Down, RotateFails, LoadCertificate, SwapCA
      <4>4. CASE PruneTick \/ PruneFetch \/ PruneFilter \/ PruneUpdate \/ PruneFails
        BY Zenon, <4>4 DEF Activating, PruneTick, PruneFetch, PruneFilter, PruneUpdate, PruneFails
      <4>5. CASE UNCHANGED vars
        BY Zenon, <4>5 DEF Activating, vars
      <4> QED
        BY Zenon, <2>6, <3>1, <4>1, <4>2, <4>3, <4>4, <4>5 DEF Step
    <3> QED
      BY Zenon, <2>3, <3>2, <3>3
  <2>9. Covered(cert)' /\ (\A s \in InUse' : Covered(s.issuer)')
    BY Zenon, <2>2, <2>5, <2>7
  <2> QED
    BY Zenon, <2>2, <2>4, <2>8, <2>9
<1> QED
  BY Zenon, <1>2, <1>3

LEMMA RecentServed == ChainInv /\ HandshakeInv => ServedChainIsRecent
<1> SUFFICES ASSUME ChainInv, HandshakeInv, handshake = "fetched"
             PROVE /\ \A t \in 0..now - 1 : Overdue(svid, t) => t \in failedAt
                   /\ 6 * (svid.issuer.notAfter - SignedAt(svid) + failures + 2) >= SixthLeft
  BY Zenon DEF ServedChainIsRecent
<1>1. svid \in InUse /\ now \in Nat
  BY Zenon DEF HandshakeInv, InUse, ChainInv, IInv, TypeOK
<1>2. Sound(svid)
  BY Zenon, <1>1 DEF ChainInv, SoundInv
<1>3. \A t \in 0..now - 1 : t \in Nat /\ t < now
  BY <1>1
<1> QED
  BY Zenon, <1>2, <1>3 DEF Sound, Neglected

LEMMA CAServed == ChainInv /\ HandshakeInv => ServingCAFound
<1> SUFFICES ASSUME ChainInv, HandshakeInv, handshake = "fetched"
             PROVE \/ FindServingCA # {}
                   \/ svid.issuer.notAfter <= now - Grace
                   \/ svid.issuer \in overwritten
  BY Zenon DEF ServingCAFound
<1>1. Covered(svid.issuer)
  BY Zenon DEF HandshakeInv, InUse
<1> QED
  BY Zenon, <1>1 DEF Covered, FindServingCA

\* For all ttls: shouldRotate and caRotate between them keep every chain recent.  A handshake
\* is answered with an SVID past half of its life only while rotations fail, and with one
\* whose CA had, but for failures of the CA manager, a sixth of its life left.
THEOREM ServedChainsAreRecent == SVIDSpec => []ServedChainIsRecent
<1>1. ChainInv /\ HandshakeInv => ServedChainIsRecent
  BY Zenon, RecentServed
<1> QED
  BY <1>1, HandshakeInit, HandshakeStep, ChainInit, ChainStep, PTL DEF SVIDSpec

\* For all ttls: getCerts finds the CA of the SVID in the bundle it fetched before it read the
\* SVID, however the CA and the SVID are replaced meanwhile, unless that CA has been expired
\* for the grace period or a prune overwrote it.
THEOREM ServingCAsAreFound == SVIDSpec => []ServingCAFound
<1>1. ChainInv /\ HandshakeInv => ServingCAFound
  BY Zenon, CAServed
<1> QED
  BY <1>1, HandshakeInit, HandshakeStep, ChainInit, ChainStep, PTL DEF SVIDSpec
================================================================================
