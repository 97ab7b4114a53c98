------------------------------- MODULE CAManager -------------------------------
(***************************************************************************)
(* The server's CA manager (pkg/server/ca/manager.go) with the pieces it   *)
(* drives: the in-memory CA plugin (pkg/server/plugin/ca/memory), the disk *)
(* upstream CA (pkg/server/plugin/upstreamca/disk) and the trust bundle in *)
(* the data store (the bundle operations of pkg/server/plugin/datastore).  *)
(*                                                                         *)
(* Two goroutines run beside each other: the rotator, which also executes  *)
(* Start, and the pruner.  A plugin call is one step, since the plugin     *)
(* holds its mutex, and so the data store its transaction, throughout.     *)
(* The bundle outlives the process; everything else is lost when it stops. *)
(*                                                                         *)
(* A unit of time is the period of rotateTicker, one minute in the code.   *)
(* A key is a number, 0 for a nil pointer; a certificate is the key it     *)
(* certifies and its validity.                                             *)
(***************************************************************************)
EXTENDS Integers

CONSTANTS
  CATTL,           \* upstream CA: ttl of the certificates it issues
  Backdate,        \* how far before now a certificate becomes valid
  SVIDTTL,         \* memory CA: default_ttl
  Grace,           \* how long the pruner keeps an expired certificate (24 hours)
  PruneInterval,   \* period of pruneTicker (6 hours)
  UpstreamBundle,  \* Config.UpstreamBundle
  RootExpiry,      \* NotAfter of the upstream CA's own certificate
  MaxTime,         \* bound on time
  MaxFailures,     \* bound on the failed calls of the CA manager, and of the SVID rotator
  MaxBoots         \* bound on the number of times the server starts

ASSUME DurationAssumption ==
  /\ CATTL \in Nat /\ Backdate \in Nat /\ SVIDTTL \in Nat /\ Grace \in Nat
  /\ PruneInterval \in Nat \ {0}
  /\ RootExpiry \in Nat

ASSUME BoundAssumption ==
  /\ MaxTime \in Nat /\ MaxFailures \in Nat /\ MaxBoots \in Nat
  /\ UpstreamBundle \in BOOLEAN

VARIABLES
  now,         \* time.Now()
  boot,        \* when the tickers were created
  bundle,      \* data store: the certificates of the trust domain's bundle
  caCert,      \* manager.caCert
  nextCACert,  \* manager.nextCACert
  cert,        \* MemoryPlugin.cert
  key,         \* MemoryPlugin.key
  newKey,      \* MemoryPlugin.newKey
  keys,        \* the last key generated
  pc,          \* where the goroutine of Start, then of the rotator, is
  starting,    \* Start has not returned yet
  issued,      \* prepareNextCA: the certificate the upstream CA returned
  rotateTick,  \* rotateTicker.C holds a tick
  prunePc,     \* where the pruner is
  fetched,     \* prune: the certificates of oldBundle
  kept,        \* prune: the certificates of newBundle
  pruneTick,   \* pruneTicker.C holds a tick
  failures,    \* failed calls of the rotator so far
  boots,       \* starts so far
  overwritten  \* certificates an UpdateBundle dropped that its prune never read

caVars    == <<caCert, nextCACert, cert, key, newKey, keys>>
rotVars   == <<pc, starting, issued, rotateTick>>
pruneVars == <<prunePc, fetched, kept, pruneTick>>
bounds    == <<failures, boots>>
vars      == <<now, boot, bundle, caVars, rotVars, pruneVars, bounds, overwritten>>

NoCert == [key |-> 0, notBefore |-> 0, notAfter |-> 0]
Root   == [key |-> 1, notBefore |-> 0, notAfter |-> RootExpiry]

Certificates == [key: Nat, notBefore: Int, notAfter: Nat]

TypeOK ==
  /\ now \in Nat /\ boot \in Nat
  /\ bundle \in SUBSET Certificates
  /\ caCert \in Certificates /\ nextCACert \in Certificates
  /\ cert \in Certificates /\ issued \in Certificates
  /\ key \in Nat /\ newKey \in Nat /\ keys \in Nat
  /\ pc \in {"down", "idle", "generate", "submit", "store", "assign", "load", "swap"}
  /\ starting \in BOOLEAN /\ rotateTick \in BOOLEAN
  /\ prunePc \in {"idle", "fetch", "filter", "update"}
  /\ fetched \in SUBSET Certificates /\ kept \in SUBSET Certificates
  /\ pruneTick \in BOOLEAN
  /\ failures \in Nat /\ boots \in Nat
  /\ overwritten \in SUBSET Certificates

(***************************************************************************)
(* The process starts and stops.                                           *)
(***************************************************************************)
Init ==
  /\ now = 0 /\ boot = 0
  /\ bundle = {}
  /\ caCert = NoCert /\ nextCACert = NoCert
  /\ cert = NoCert /\ key = 0 /\ newKey = 0 /\ keys = 1
  /\ pc = "down" /\ starting = FALSE /\ issued = NoCert /\ rotateTick = FALSE
  /\ prunePc = "idle" /\ fetched = {} /\ kept = {} /\ pruneTick = FALSE
  /\ failures = 0 /\ boots = 0
  /\ overwritten = {}

\* Server.startCAManager: ca.New makes the tickers, then Start calls prepareNextCA.
Boot ==
  /\ pc = "down" /\ boots < MaxBoots
  /\ pc' = "generate" /\ starting' = TRUE
  /\ boot' = now /\ boots' = boots + 1
  /\ UNCHANGED <<now, bundle, caVars, issued, rotateTick, pruneVars, failures, overwritten>>

\* The process ends and loses its memory.
Down ==
  /\ caCert' = NoCert /\ nextCACert' = NoCert
  /\ cert' = NoCert /\ key' = 0 /\ newKey' = 0
  /\ pc' = "down" /\ starting' = FALSE /\ issued' = NoCert /\ rotateTick' = FALSE
  /\ prunePc' = "idle" /\ fetched' = {} /\ kept' = {} /\ pruneTick' = FALSE
  /\ UNCHANGED <<now, boot, bundle, keys, boots, overwritten>>

\* A crash, or Shutdown, at any point.
Stop ==
  /\ pc # "down"
  /\ Down
  /\ UNCHANGED failures

(***************************************************************************)
(* Time.  A ticker's channel holds one tick and drops the others.          *)
(***************************************************************************)
Tick ==
  /\ now < MaxTime
  /\ now' = now + 1
  /\ rotateTick' = (pc # "down")
  /\ pruneTick' = (pc # "down" /\ (pruneTick \/ (now' - boot) % PruneInterval = 0))
  /\ UNCHANGED <<boot, bundle, caVars, pc, starting, issued, prunePc, fetched, kept,
                 bounds, overwritten>>

(***************************************************************************)
(* caRotate, called for every tick of rotateTicker.                        *)
(***************************************************************************)
Lifetime(c) == c.notAfter - c.notBefore

\* What caRotate calls: prepareNextCA ("generate"), activateNextCA ("load") or nothing.
\* activateNextCA returns an error when there is no next certificate.
CARotate ==
  IF caCert = NoCert
    THEN "idle"
    ELSE IF 2 * (caCert.notAfter - now) < Lifetime(caCert) /\ nextCACert = NoCert
      THEN "generate"
      ELSE IF 6 * (caCert.notAfter - now) < Lifetime(caCert) /\ nextCACert # NoCert
        THEN "load"
        ELSE "idle"

RotateTick ==
  /\ pc = "idle" /\ rotateTick
  /\ rotateTick' = FALSE
  /\ pc' = CARotate
  /\ UNCHANGED <<now, boot, bundle, caVars, starting, issued, pruneVars, bounds, overwritten>>

(***************************************************************************)
(* prepareNextCA.                                                          *)
(***************************************************************************)
\* Buggy: the key in use is replaced before its certificate exists.
GenerateCsrReplacesKey ==
  /\ pc = "generate"
  /\ keys' = keys + 1
  /\ newKey' = keys' /\ key' = keys'
  /\ pc' = "submit"
  /\ UNCHANGED <<now, boot, bundle, caCert, nextCACert, cert, starting, issued,
                 rotateTick, pruneVars, bounds, overwritten>>

\* MemoryPlugin.GenerateCsr: a new key for the next certificate.
GenerateCsr ==
  /\ pc = "generate"
  /\ keys' = keys + 1
  /\ newKey' = keys'
  /\ pc' = "submit"
  /\ UNCHANGED <<now, boot, bundle, caCert, nextCACert, cert, key, starting, issued,
                 rotateTick, pruneVars, bounds, overwritten>>

\* diskPlugin.SubmitCSR: a CA certificate for the key of the CSR.
SubmitCSR ==
  /\ pc = "submit"
  /\ issued' = [key |-> newKey, notBefore |-> now - Backdate, notAfter |-> now + CATTL]
  /\ pc' = "store"
  /\ UNCHANGED <<now, boot, bundle, caVars, starting, rotateTick, pruneVars, bounds,
                 overwritten>>

\* Buggy: with an upstream bundle, only the upstream root is published.
StoreUpstreamOnly ==
  /\ pc = "store"
  /\ bundle' = bundle \cup (IF UpstreamBundle THEN {Root} ELSE {issued})
  /\ pc' = "assign"
  /\ UNCHANGED <<now, boot, caVars, starting, issued, rotateTick, pruneVars, bounds,
                 overwritten>>

\* storeCACert: AppendBundle adds what the bundle does not contain, in one transaction.
StoreCACert ==
  /\ pc = "store"
  /\ bundle' = bundle \cup {issued} \cup (IF UpstreamBundle THEN {Root} ELSE {})
  /\ pc' = "assign"
  /\ UNCHANGED <<now, boot, caVars, starting, issued, rotateTick, pruneVars, bounds,
                 overwritten>>

\* Buggy: caRotate, too, goes on to activateNextCA.
AssignNextThenActivate ==
  /\ pc = "assign"
  /\ nextCACert' = issued /\ issued' = NoCert
  /\ pc' = "load"
  /\ UNCHANGED <<now, boot, bundle, caCert, cert, key, newKey, keys, starting, rotateTick,
                 pruneVars, bounds, overwritten>>

\* Start goes on to activateNextCA; caRotate returns.
AssignNext ==
  /\ pc = "assign"
  /\ nextCACert' = issued /\ issued' = NoCert
  /\ pc' = IF starting THEN "load" ELSE "idle"
  /\ UNCHANGED <<now, boot, bundle, caCert, cert, key, newKey, keys, starting, rotateTick,
                 pruneVars, bounds, overwritten>>

\* A call of prepareNextCA, or LoadCertificate of activateNextCA, fails.
CallFails ==
  /\ pc \in {"generate", "submit", "store", "load"}
  /\ failures < MaxFailures
  /\ failures' = failures + 1

\* Start returns the error and the server ends.
StartFails ==
  /\ starting
  /\ CallFails
  /\ Down

\* startCARotator logs the error of caRotate, which is called again at the next tick.
RotateFails ==
  /\ ~starting
  /\ CallFails
  /\ pc' = "idle" /\ issued' = NoCert
  /\ UNCHANGED <<now, boot, bundle, caVars, starting, rotateTick, pruneVars, boots,
                 overwritten>>

(***************************************************************************)
(* activateNextCA.                                                         *)
(***************************************************************************)
\* MemoryPlugin.LoadCertificate: the certificate goes with the last key generated.
LoadCertificate ==
  /\ pc = "load" /\ newKey # 0
  /\ cert' = nextCACert /\ key' = newKey
  /\ pc' = "swap"
  /\ UNCHANGED <<now, boot, bundle, caCert, nextCACert, newKey, keys, starting, issued,
                 rotateTick, pruneVars, bounds, overwritten>>

SwapCA ==
  /\ pc = "swap"
  /\ caCert' = nextCACert /\ nextCACert' = NoCert
  /\ pc' = "idle" /\ starting' = FALSE
  /\ UNCHANGED <<now, boot, bundle, cert, key, newKey, keys, issued, rotateTick, pruneVars,
                 bounds, overwritten>>

(***************************************************************************)
(* prune, called for every tick of pruneTicker once Start has returned.    *)
(***************************************************************************)
PruneTick ==
  /\ pc # "down" /\ ~starting
  /\ prunePc = "idle" /\ pruneTick
  /\ pruneTick' = FALSE /\ prunePc' = "fetch"
  /\ UNCHANGED <<now, boot, bundle, caVars, rotVars, fetched, kept, bounds, overwritten>>

\* FetchBundle.
PruneFetch ==
  /\ prunePc = "fetch"
  /\ fetched' = bundle
  /\ prunePc' = "filter"
  /\ UNCHANGED <<now, boot, bundle, caVars, rotVars, kept, pruneTick, bounds, overwritten>>

Keep(certs) == {c \in certs : c.notAfter > now - Grace}

PruneFilter ==
  /\ prunePc = "filter"
  /\ \/ /\ Keep(fetched) \in {{}, fetched}
        /\ prunePc' = "idle" /\ fetched' = {}
        /\ UNCHANGED kept
     \/ /\ Keep(fetched) \notin {{}, fetched}
        /\ kept' = Keep(fetched)
        /\ prunePc' = "update"
        /\ UNCHANGED fetched
  /\ UNCHANGED <<now, boot, bundle, caVars, rotVars, pruneTick, bounds, overwritten>>

\* UpdateBundle replaces every certificate of the bundle.
PruneUpdate ==
  /\ prunePc = "update"
  /\ bundle' = kept
  /\ overwritten' = overwritten \cup (bundle \ fetched)
  /\ prunePc' = "idle" /\ fetched' = {} /\ kept' = {}
  /\ UNCHANGED <<now, boot, caVars, rotVars, pruneTick, bounds>>

\* A data store call fails; the error is logged.
PruneFails ==
  /\ prunePc \in {"fetch", "update"}
  /\ prunePc' = "idle" /\ fetched' = {} /\ kept' = {}
  /\ UNCHANGED <<now, boot, bundle, caVars, rotVars, pruneTick, bounds, overwritten>>

Step ==
  \/ Boot \/ Stop
  \/ RotateTick
  \/ GenerateCsr \/ SubmitCSR \/ StoreCACert \/ AssignNext
  \/ StartFails \/ RotateFails
  \/ LoadCertificate \/ SwapCA
  \/ PruneTick \/ PruneFetch \/ PruneFilter \/ PruneUpdate \/ PruneFails

Next == Tick \/ Step

Spec == Init /\ [][Next]_vars

\* A timing assumption under which time passes (see ServerSVID): what a tick starts is over
\* before the next tick of rotateTicker, that is, the plugins and the data store answer
\* within a minute.
Rested == pc \in {"down", "idle"} /\ ~rotateTick /\ prunePc = "idle" /\ ~pruneTick

(***************************************************************************)
(* Properties.                                                             *)
(***************************************************************************)
\* MemoryPlugin keeps one key for the certificate in use and one for the next, and
\* prepareNextCA may fail after it has replaced the latter.  Whatever fails, the signing
\* key is the one its certificate certifies, and so will be the one LoadCertificate takes.
SigningKeyMatches ==
  /\ key = cert.key
  /\ nextCACert # NoCert => newKey = nextCACert.key
  /\ pc = "idle" => cert = caCert

\* A certificate that signs SVIDs is in the bundle that agents fetch, or else has been
\* expired for the grace period, or was lost to a prune that read the bundle before
\* storeCACert added the certificate and wrote it back afterwards.
SignerIsPublished ==
  cert # NoCert => \/ cert \in bundle
                   \/ cert.notAfter <= now - Grace
                   \/ cert \in overwritten

\* MemoryPlugin.SignCsr: the validity of an SVID signed now, with the default ttl.
SignCsr == [issuer |-> cert, notBefore |-> now - Backdate, notAfter |-> now + SVIDTTL]

\* Agents learn a new CA from the bundle before the first SVID it signs: caRotate never
\* activates a certificate in the tick that published it.
PublishedAheadOfUse ==
  [][caCert # NoCert /\ caCert' \notin {caCert, NoCert}
       => now > caCert'.notBefore + Backdate]_vars
================================================================================
