------------------------------ MODULE ServerSVID ------------------------------
(***************************************************************************)
(* The server's own SVID: the rotator that cuts it (pkg/server/svid), the  *)
(* endpoints that observe it and answer TLS handshakes with it             *)
(* (pkg/server/endpoints), beside the CA manager that signs it and whose   *)
(* bundle a handshake reads.  The order in which they start is that of     *)
(* Server.run (pkg/server/server.go).                                      *)
(*                                                                         *)
(* An observer stream is the sequence of the property's values from the    *)
(* stream's position on: its head is what Value returns.                   *)
(***************************************************************************)
EXTENDS CAManager, Sequences, FiniteSets

VARIABLES
  state,     \* rotator.state: the server SVID, NoSVID before Start has cut one
  rotatorPc, \* where the rotator's goroutine (Start, then run) is
  signed,    \* rotateSVID: the SVID just signed
  svidTick,  \* the ticker of run holds a tick
  failedAt,  \* history: the ticks at which rotateSVID failed
  stream,    \* Config.SVIDStream of the endpoints, empty before Subscribe
  svid,      \* endpoints.svid
  handshake, \* where a TLS handshake is in getCerts
  caCerts    \* getCerts: the bundle fetched

rotatorVars  == <<state, rotatorPc, signed, svidTick, failedAt>>
endpointVars == <<stream, svid, handshake, caCerts>>
allVars      == <<vars, rotatorVars, endpointVars>>

NoSVID == [issuer |-> NoCert, notBefore |-> 0, notAfter |-> 0]
SVIDs  == [issuer: Certificates, notBefore: Int, notAfter: Nat]

SVIDTypeOK ==
  /\ state \in SVIDs /\ signed \in SVIDs /\ svid \in SVIDs
  /\ rotatorPc \in {"off", "idle", "sign", "update"}
  /\ svidTick \in BOOLEAN
  /\ failedAt \in SUBSET Nat
  /\ stream \in Seq(SVIDs)
  /\ handshake \in {"none", "fetched"}
  /\ caCerts \in SUBSET Certificates

SVIDInit ==
  /\ Init
  /\ state = NoSVID /\ rotatorPc = "off" /\ signed = NoSVID /\ svidTick = FALSE
  /\ failedAt = {}
  /\ stream = <<>> /\ svid = NoSVID /\ handshake = "none" /\ caCerts = {}

(***************************************************************************)
(* The CA manager's steps, and the end of the process.                     *)
(***************************************************************************)
CAStep ==
  /\ Step
  /\ pc' # "down"
  /\ UNCHANGED <<rotatorVars, endpointVars>>

\* The process ends; also when Start of the SVID rotator returns the error of its rotateSVID.
ServerDown ==
  /\ Stop \/ StartFails
  /\ state' = NoSVID /\ rotatorPc' = "off" /\ signed' = NoSVID /\ svidTick' = FALSE
  /\ failedAt' = {}
  /\ stream' = <<>> /\ svid' = NoSVID /\ handshake' = "none" /\ caCerts' = {}

Time ==
  /\ Tick
  /\ svidTick' = (rotatorPc # "off" /\ state # NoSVID)
  /\ UNCHANGED <<state, rotatorPc, signed, failedAt, endpointVars>>

(***************************************************************************)
(* The rotator.                                                            *)
(***************************************************************************)
\* Server.run: startSVIDRotator once startCAManager has returned.
StartRotator ==
  /\ pc # "down" /\ ~starting
  /\ rotatorPc = "off"
  /\ rotatorPc' = "sign"
  /\ UNCHANGED <<vars, state, signed, svidTick, failedAt, endpointVars>>

\* Buggy: the SVID is replaced when it has expired.
ShouldRotateLate == state.notAfter < now

ShouldRotate == 2 * (state.notAfter - now) < state.notAfter - state.notBefore

RotatorTick ==
  /\ rotatorPc = "idle" /\ svidTick
  /\ svidTick' = FALSE
  /\ rotatorPc' = IF ShouldRotate THEN "sign" ELSE "idle"
  /\ UNCHANGED <<vars, state, signed, failedAt, endpointVars>>

\* rotateSVID: a new key, then MemoryPlugin.SignCsr, which refuses without a certificate.
SignSVID ==
  /\ rotatorPc = "sign" /\ cert # NoCert
  /\ signed' = SignCsr
  /\ rotatorPc' = "update"
  /\ UNCHANGED <<vars, state, svidTick, failedAt, endpointVars>>

\* rotateSVID fails: run logs the error, and looks at the SVID again at the next tick.
SignFails ==
  /\ rotatorPc = "sign" /\ state # NoSVID
  /\ Cardinality(failedAt) < MaxFailures
  /\ failedAt' = failedAt \cup {now}
  /\ rotatorPc' = "idle"
  /\ UNCHANGED <<vars, state, signed, svidTick, endpointVars>>

\* rotateSVID: state.Update, seen by every stream.
UpdateState ==
  /\ rotatorPc = "update"
  /\ state' = signed /\ signed' = NoSVID
  /\ stream' = IF stream = <<>> THEN <<>> ELSE Append(stream, signed)
  /\ rotatorPc' = "idle"
  /\ UNCHANGED <<vars, svidTick, failedAt, svid, handshake, caCerts>>

(***************************************************************************)
(* The endpoints.                                                          *)
(***************************************************************************)
\* Server.startEndpoints.
Subscribe ==
  /\ state # NoSVID /\ stream = <<>>
  /\ stream' = <<state>>
  /\ UNCHANGED <<vars, rotatorVars, svid, handshake, caCerts>>

\* listenAndServe: "Certs must be ready before anything else".
FirstUpdateSVID ==
  /\ stream # <<>> /\ svid = NoSVID
  /\ svid' = Head(stream)
  /\ UNCHANGED <<vars, rotatorVars, stream, handshake, caCerts>>

\* startSVIDObserver: Next moves the stream by one value, updateSVID reads it.
ObserveSVID ==
  /\ svid # NoSVID /\ Len(stream) > 1
  /\ stream' = Tail(stream)
  /\ svid' = Head(stream')
  /\ UNCHANGED <<vars, rotatorVars, handshake, caCerts>>

\* getCerts: FetchBundle, before the lock on the SVID is taken.
FetchRoots ==
  /\ svid # NoSVID /\ handshake = "none"
  /\ caCerts' = bundle
  /\ handshake' = "fetched"
  /\ UNCHANGED <<vars, rotatorVars, stream, svid>>

\* findServingCA: a certificate whose key id is the authority key id of the SVID.
FindServingCA == {c \in caCerts : c.key = svid.issuer.key}

\* getCerts: the chain is the SVID and its CA; without one the handshake fails.
ServeCerts ==
  /\ handshake = "fetched"
  /\ handshake' = "none" /\ caCerts' = {}
  /\ UNCHANGED <<vars, rotatorVars, stream, svid>>

SVIDStep ==
  \/ CAStep \/ ServerDown
  \/ StartRotator \/ RotatorTick \/ SignSVID \/ SignFails \/ UpdateState
  \/ Subscribe \/ FirstUpdateSVID \/ ObserveSVID
  \/ FetchRoots \/ ServeCerts

\* The timing assumption: what the CA manager starts, a rotation of the SVID, its observation
\* and a handshake's getCerts end within a tick.
AllRested ==
  /\ Rested
  /\ pc = "idle" => svid # NoSVID
  /\ rotatorPc \in {"off", "idle"} /\ ~svidTick
  /\ Len(stream) <= 1
  /\ handshake = "none"

SVIDNext == (AllRested /\ Time) \/ SVIDStep

SVIDSpec == SVIDInit /\ [][SVIDNext]_allVars

(***************************************************************************)
(* Properties.                                                             *)
(***************************************************************************)
\* getCerts fetches the bundle first and reads the SVID afterwards, and both may be replaced
\* in between.  Yet findServingCA finds the CA of the SVID, unless that CA has been expired for
\* the grace period, or a prune has overwritten it.
ServingCAFound ==
  handshake = "fetched" => \/ FindServingCA # {}
                           \/ svid.issuer.notAfter <= now - Grace
                           \/ svid.issuer \in overwritten

SignedAt(s) == s.notBefore + Backdate

\* A tick after the one that signed s, at which s is past half of its life.
Overdue(s, t) == t > SignedAt(s) /\ 2 * (s.notAfter - t) < s.notAfter - s.notBefore

\* Six times what a CA has left when caRotate replaces it: its life, unless its ttl less a
\* tick is below a sixth of that.
SixthLeft == IF CATTL + Backdate < 6 * (CATTL - 1) THEN CATTL + Backdate ELSE 6 * (CATTL - 1)

\* shouldRotate looks at the SVID's own validity only, and SignCsr does not bound it by the
\* CA's: how old can the chain be that a handshake serves?  An SVID past half of its life is
\* served only while rotateSVID has failed at every tick since; and when it was signed, its CA
\* had a sixth of its life left, less two ticks and one for every failed call of the CA
\* manager.  This holds for all ttls.  (An SVID that lives longer than that outlives its CA.)
ServedChainIsRecent ==
  handshake = "fetched" =>
    /\ \A t \in 0..now - 1 : Overdue(svid, t) => t \in failedAt
    /\ 6 * (svid.issuer.notAfter - SignedAt(svid) + failures + 2) >= SixthLeft
================================================================================
