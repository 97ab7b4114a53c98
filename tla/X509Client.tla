----------------------------- MODULE X509Client -----------------------------
(***************************************************************************)
(* The client of the Workload API (api/workload): x509Client with its      *)
(* x509Stream, x509Handler and backoff, and a workload that uses it as     *)
(* "spire-agent api watch" does (cmd/spire-agent/cli/api/watch_cli.go).    *)
(*                                                                         *)
(* Four goroutines: Start, which waits for Stop or for listen; listen,     *)
(* which dials, opens the stream, receives, and retries with backoff; the  *)
(* handler's handleUpdates; and the workload.  The agent at the other end  *)
(* of the stream is the environment: it can be down, its responses change, *)
(* and it ends the stream of a workload that has no identity.              *)
(***************************************************************************)
EXTENDS Naturals, Sequences

CONSTANTS
  Values,       \* the responses of the Workload API
  NoIdentity,   \* the agent has nothing for the workload
  Configs,      \* the configurations to start with: [failOnError, dialable]
  MaxBackoff,   \* how often a backoff doubles before it reaches the timeout
  MaxEvents     \* bound: what may still happen to the agent

ASSUME ClientAssumption ==
  /\ NoIdentity \notin Values
  /\ Configs \subseteq [failOnError: BOOLEAN, dialable: BOOLEAN]
  /\ MaxBackoff \in Nat
  /\ MaxEvents \in Nat

VARIABLES
  config,     \* x.c
  agent,      \* [up, response]: can the agent be reached, what would it send
  events,     \* how many changes of the agent are left
  wire,       \* [open, sent]: the stream, and the responses under way on it
  listen,     \* where x509Stream.listen is
  backoff,    \* the backoffs of newClient, newStream and listen
  start,      \* x509Client.Start: "no", "waits", "returned"
  stopped,    \* x509Client.stopChan is closed
  ending,     \* x509Stream.stopChan is closed
  handler,    \* where handleUpdates is
  changes,    \* is there a token in x509Handler.changes
  learned,    \* history: the responses x.latest was set to, the last one being x.latest
  latest,     \* the local variable of handleUpdates, as an index of learned
  delivered,  \* history: the last response that went through updChan, also as an index
  watch       \* the workload: "reads", or the exit code of watch

streamVars  == <<wire, listen, backoff>>
handlerVars == <<handler, latest, delivered>>
clientVars  == <<start, stopped, ending>>
agentVars   == <<agent, events>>
watchVars == <<config, agent, events, wire, listen, backoff, start, stopped, ending,
          handler, changes, learned, latest, delivered, watch>>

AgentType ==
  /\ config \in Configs
  /\ agent \in [up: BOOLEAN, response: Values \cup {NoIdentity}]
  /\ events \in 0..MaxEvents

StreamType ==
  /\ wire \in [open: BOOLEAN, sent: Seq(Values)]
  /\ listen \in {"no", "dial", "dialWait", "stream", "streamWait", "recv", "recvWait",
                 "nil", "error"}
  /\ backoff \in [dial: 0..MaxBackoff, stream: 0..MaxBackoff, recv: 0..MaxBackoff]

ClientType ==
  /\ start \in {"no", "waits", "returned"}
  /\ stopped \in BOOLEAN /\ ending \in BOOLEAN
  /\ watch \in {"reads", "0", "1"}

HandlerType ==
  /\ handler \in {"no", "wait", "load", "send"}
  /\ changes \in BOOLEAN
  /\ learned \in Seq(Values)
  /\ latest \in 0..Len(learned)
  /\ delivered \in 0..Len(learned)

\* The state of the client has its type: above all, no backoff goes beyond the timeout.
WatchTypeOK == AgentType /\ StreamType /\ ClientType /\ HandlerType

NoBackoff == [dial |-> 0, stream |-> 0, recv |-> 0]
Closed    == [open |-> FALSE, sent |-> <<>>]

\* What a stream begins with: the agent's present response, if it has one.  A stream that is
\* not open is one whose Recv returns an error.
Opened == IF agent.response = NoIdentity THEN Closed
                                         ELSE [open |-> TRUE, sent |-> <<agent.response>>]

WatchInit ==
  /\ config \in Configs
  /\ agent = [up |-> TRUE, response |-> NoIdentity]
  /\ events = MaxEvents
  /\ wire = Closed
  /\ listen = "no"
  /\ backoff = NoBackoff
  /\ start = "no" /\ stopped = FALSE /\ ending = FALSE
  /\ handler = "no" /\ changes = FALSE
  /\ learned = <<>> /\ latest = 0 /\ delivered = 0
  /\ watch = "reads"

(***************************************************************************)
(* The agent.                                                              *)
(***************************************************************************)
\* The agent's response changes; it goes out on the open stream, or ends it.
Publish(v) ==
  /\ events > 0 /\ events' = events - 1
  /\ agent.up /\ v # agent.response
  /\ agent' = [agent EXCEPT !.response = v]
  /\ wire' = CASE ~wire.open       -> wire
               [] v = NoIdentity   -> [wire EXCEPT !.open = FALSE]
               [] OTHER            -> [wire EXCEPT !.sent = Append(@, v)]
  /\ UNCHANGED <<config, listen, backoff, clientVars, handlerVars, changes, learned, watch>>

\* The agent goes away, and with it the stream; or it comes back.
GoDown ==
  /\ events > 0 /\ events' = events - 1
  /\ agent.up
  /\ agent' = [agent EXCEPT !.up = FALSE]
  /\ wire' = Closed
  /\ UNCHANGED <<config, listen, backoff, clientVars, handlerVars, changes, learned, watch>>

ComeUp ==
  /\ ~agent.up
  /\ agent' = [agent EXCEPT !.up = TRUE]
  /\ UNCHANGED <<config, events, streamVars, clientVars, handlerVars, changes, learned, watch>>

(***************************************************************************)
(* x509Client.                                                             *)
(***************************************************************************)
\* Start: listen begins in a goroutine of its own, and starts the handler's.
Start ==
  /\ start = "no"
  /\ start' = "waits"
  /\ listen' = "dial" /\ backoff' = NoBackoff
  /\ handler' = "wait"
  /\ UNCHANGED <<config, agentVars, wire, stopped, ending, changes, learned, latest,
                 delivered, watch>>

\* Buggy: the error of listen is not waited for.
StartReturnsOnStop ==
  /\ start = "waits" /\ stopped
  /\ start' = "returned" /\ ending' = TRUE
  /\ UNCHANGED <<config, agentVars, streamVars, stopped, handlerVars, changes, learned, watch>>

\* Buggy: the stream is not told.
StartReturnsWithoutStop ==
  /\ start = "waits" /\ (stopped \/ listen \in {"nil", "error"})
  /\ start' = "returned" /\ UNCHANGED ending
  /\ UNCHANGED <<config, agentVars, streamVars, stopped, handlerVars, changes, learned, watch>>

\* Start returns: after Stop, or when listen returned.  The deferred stop closes the stream's
\* channel.
StartReturns ==
  /\ start = "waits" /\ (stopped \/ listen \in {"nil", "error"})
  /\ start' = "returned" /\ ending' = TRUE
  /\ UNCHANGED <<config, agentVars, streamVars, stopped, handlerVars, changes, learned, watch>>

(***************************************************************************)
(* x509Stream.listen.  backoff counts the doublings of each backoff.       *)
(***************************************************************************)
\* goAgain: the ticker has to be waited for, with b the backoff doubled; or not at all.
MayRetry(b) == ~config.failOnError /\ b < MaxBackoff

\* dial.Dial: the address is that of the configuration or of the environment.  gRPC dials in the
\* background: the call only fails when there is none, or one that is neither TCP nor UDS.
Dialable == config.dialable

\* newClient.
Dial ==
  /\ listen = "dial"
  /\ \/ /\ Dialable
        /\ listen' = "stream" /\ backoff' = [backoff EXCEPT !.stream = 0]
     \/ /\ ~Dialable /\ MayRetry(backoff.dial)
        /\ listen' = "dialWait" /\ backoff' = [backoff EXCEPT !.dial = @ + 1]
     \/ /\ ~Dialable /\ ~MayRetry(backoff.dial)
        /\ listen' = "error" /\ UNCHANGED backoff
  /\ UNCHANGED <<config, agentVars, wire, clientVars, handlerVars, changes, learned, watch>>

\* newStream.  When its retries are used up, listen dials anew.
NewStream ==
  /\ listen = "stream"
  /\ \/ /\ agent.up
        /\ listen' = "recv" /\ wire' = Opened /\ UNCHANGED backoff
     \/ /\ ~agent.up /\ MayRetry(backoff.stream)
        /\ listen' = "streamWait" /\ backoff' = [backoff EXCEPT !.stream = @ + 1]
        /\ UNCHANGED wire
     \/ /\ ~agent.up /\ ~MayRetry(backoff.stream)
        /\ listen' = "dial" /\ backoff' = [backoff EXCEPT !.dial = 0]
        /\ UNCHANGED wire
  /\ UNCHANGED <<config, agentVars, clientVars, handlerVars, changes, learned, watch>>

\* Buggy: changes has no buffer, and the token is lost while a response waits to be sent.
UpdateUnbuffered(v) ==
  IF learned # <<>> /\ learned[Len(learned)] = v
  THEN UNCHANGED <<learned, changes>>
  ELSE learned' = Append(learned, v) /\ changes' = (handler = "wait")

\* x509Handler.update: a response that equals x.latest is dropped; the token is put into
\* changes unless there is one.
Update(v) ==
  IF learned # <<>> /\ learned[Len(learned)] = v
  THEN UNCHANGED <<learned, changes>>
  ELSE learned' = Append(learned, v) /\ changes' = TRUE

\* recv gives a response: the backoff is reset, and the handler told.
Recv ==
  /\ listen = "recv" /\ wire.sent # <<>>
  /\ wire' = [wire EXCEPT !.sent = Tail(@)]
  /\ backoff' = [backoff EXCEPT !.recv = 0]
  /\ Update(Head(wire.sent))
  /\ UNCHANGED <<config, agentVars, listen, clientVars, handlerVars, watch>>

\* recv gives an error: a new stream after the backoff, or the end of listen.
RecvFails ==
  /\ listen = "recv" /\ wire = Closed
  /\ \/ /\ MayRetry(backoff.recv)
        /\ listen' = "recvWait" /\ backoff' = [backoff EXCEPT !.recv = @ + 1]
     \/ /\ ~MayRetry(backoff.recv)
        /\ listen' = "error" /\ UNCHANGED backoff
  /\ UNCHANGED <<config, agentVars, wire, clientVars, handlerVars, changes, learned, watch>>

\* The ticker of goAgain fires.
Again ==
  /\ \/ listen = "dialWait" /\ listen' = "dial" /\ UNCHANGED backoff
     \/ listen = "streamWait" /\ listen' = "stream" /\ UNCHANGED backoff
     \/ /\ listen = "recvWait" /\ listen' = "stream"
        /\ backoff' = [backoff EXCEPT !.stream = 0]
  /\ UNCHANGED <<config, agentVars, wire, clientVars, handlerVars, changes, learned, watch>>

\* The selects of newClient, newStream and recv take the closed stopChan: listen ends.
Stopping ==
  /\ ending /\ listen \in {"dial", "stream", "recv"}
  /\ listen' = "nil" /\ wire' = Closed
  /\ UNCHANGED <<config, agentVars, backoff, clientVars, handlerVars, changes, learned, watch>>

\* The select of goAgain takes the closed stopChan: there is no retry, as after the last one.
NoRetry ==
  /\ ending
  /\ \/ listen \in {"dialWait", "recvWait"} /\ listen' = "error" /\ UNCHANGED backoff
     \/ /\ listen = "streamWait" /\ listen' = "dial"
        /\ backoff' = [backoff EXCEPT !.dial = 0]
  /\ UNCHANGED <<config, agentVars, wire, clientVars, handlerVars, changes, learned, watch>>

Listen == Dial \/ NewStream \/ Recv \/ RecvFails \/ Again \/ Stopping \/ NoRetry

(***************************************************************************)
(* x509Handler.handleUpdates, and the workload that reads the channel.     *)
(***************************************************************************)
\* A change is seen, in the first select or, while a response waits to be sent, in the second.
Change ==
  /\ handler \in {"wait", "send"} /\ changes
  /\ handler' = "load" /\ changes' = FALSE
  /\ UNCHANGED <<config, agentVars, streamVars, clientVars, learned, latest, delivered, watch>>

\* x.latest is read under the lock.
Load ==
  /\ handler = "load"
  /\ handler' = "send" /\ latest' = Len(learned)
  /\ UNCHANGED <<config, agentVars, streamVars, clientVars, changes, learned, delivered, watch>>

\* The response goes through the channel to the workload, which is in its select.
Take ==
  /\ handler = "send" /\ watch = "reads"
  /\ handler' = "wait" /\ delivered' = latest
  /\ UNCHANGED <<config, agentVars, streamVars, clientVars, changes, learned, latest, watch>>

\* A signal: watch stops the client and returns 0.
Signal ==
  /\ watch = "reads" /\ ~stopped
  /\ stopped' = TRUE /\ watch' = "0"
  /\ UNCHANGED <<config, agentVars, streamVars, start, ending, handlerVars, changes, learned>>

\* Start returned by itself: watch returns 1.
Fails ==
  /\ watch = "reads" /\ start = "returned"
  /\ watch' = "1"
  /\ UNCHANGED <<config, agentVars, streamVars, clientVars, handlerVars, changes, learned>>

WatchNext ==
  \/ \E v \in Values \cup {NoIdentity} : Publish(v)
  \/ GoDown \/ ComeUp
  \/ Start \/ StartReturns
  \/ Listen
  \/ Change \/ Load \/ Take
  \/ Signal \/ Fails

WatchSpec == WatchInit /\ [][WatchNext]_watchVars

\* Every goroutine that can go on does so; a select that can take the closed stopChan again
\* and again takes it in the end, for select chooses at random.
WatchFairness ==
  /\ WF_watchVars(Start) /\ WF_watchVars(StartReturns) /\ WF_watchVars(Fails)
  /\ WF_watchVars(Listen) /\ SF_watchVars(Stopping)
  /\ WF_watchVars(Change \/ Load \/ Take)

(***************************************************************************)
(* Properties.                                                             *)
(***************************************************************************)
Updates == INSTANCE LatestUpdate WITH reading <- (watch = "reads")

\* The client keeps the safety part of LatestUpdate: update takes a response only if it differs
\* from the last one, and what comes out of the channel never goes back to an older response,
\* however update, handleUpdates and the reads interleave.
NeverGoesBack == Updates!Safety

\* The client implements LatestUpdate: beyond NeverGoesBack, a workload that keeps reading gets
\* the last response that the handler took.
DeliversLatest == Updates!Spec

\* The signal that a response is waiting is never lost: either the workload has x.latest, or
\* there is a token in changes, or handleUpdates is about to read, or to send, x.latest.
NoUpdateIsLost ==
  \/ delivered = Len(learned)
  \/ changes
  \/ handler = "load"
  \/ handler = "send" /\ latest = Len(learned)

\* The inductive invariant behind NoUpdateIsLost and DeliversLatest: handleUpdates never holds
\* an older response than the workload has, and is only woken when there is one.
HandlerInv ==
  /\ NoUpdateIsLost
  /\ delivered <= latest
  /\ handler = "send" => latest > 0
  /\ changes \/ handler = "load" => learned # <<>>
  /\ start = "no" => handler = "no"

\* When the agent can be reached again and its response stays the same, that response is the
\* last one that a workload which keeps reading gets, from some moment on: no error on the way
\* leaves listen without a stream, and no older response comes after it.
LatestArrives ==
  \A v \in Values :
    <>[](agent = [up |-> TRUE, response |-> v])
      => <>[](watch # "reads" \/ (delivered > 0 /\ learned[delivered] = v))

\* After Stop, Start returns and listen ends, wherever the retries were.
StopEnds == stopped ~> (start = "returned" /\ listen \in {"nil", "error"})
====
