--------------------------- MODULE AuditDispatcher ---------------------------
(***************************************************************************)
(* The asynchronous audit pipeline, services/gateway/internal/audit, with  *)
(* the two ends main() ties to it: request handlers that call Log from a   *)
(* deferred function, and the shutdown sequence of cmd/gateway/main.go.    *)
(* An event is the request it is about.                                    *)
(***************************************************************************)
EXTENDS Integers, Sequences, SequencesExt

CONSTANTS Requests,
          QueueSize,  \* capacity of the channel (1024 in main)
          Sinks,      \* number of sinks, written in order
          NoEvent

ASSUME DispatcherAssumption ==
  /\ QueueSize \in Nat \ {0}      \* NewDispatcher rejects other sizes
  /\ Sinks \in Nat \ {0}          \* and an empty list of sinks
  /\ NoEvent \notin Requests

VARIABLES
  handler,    \* each request: "none", "serving", "done"
  queue,      \* Dispatcher.queue, the buffered channel
  closed,     \* close(d.queue) has happened
  current,    \* the event run() is writing, or NoEvent
  sink,       \* write(): index of the sink to write next
  sent,       \* write(): its local variable sent
  finished,   \* close(d.done) has happened
  main,       \* where main() is
  expired,    \* the 10s shutdown context has expired
  accepted,   \* history: events enqueued, in order
  processed,  \* history: events write() is done with, in order
  delivered,  \* history: delivered[s], events sink s has taken
  dropped,    \* history: events counted in eventsDroppedTotal
  panicked    \* history: handlers that sent on the closed channel

vars == <<handler, queue, closed, current, sink, sent, finished, main, expired,
          accepted, processed, delivered, dropped, panicked>>

handlerVars  == <<handler, accepted, dropped, panicked>>
workerVars   == <<current, sink, sent, finished, processed, delivered>>
shutdownVars == <<closed, main, expired>>

\* main(): serving, in server.Shutdown, between the two shutdowns, in
\* Dispatcher.Shutdown, returned, or gone through os.Exit(1).
MainStates == {"running", "http", "drained", "audit", "stopped", "exited"}

Alive == main \notin {"stopped", "exited"}

TypeOK ==
  /\ handler \in [Requests -> {"none", "serving", "done"}]
  /\ queue \in Seq(Requests) /\ Len(queue) <= QueueSize
  /\ closed \in BOOLEAN
  /\ current \in Requests \cup {NoEvent}
  /\ sink \in 1 .. Sinks + 1
  /\ sent \in BOOLEAN
  /\ finished \in BOOLEAN
  /\ main \in MainStates
  /\ expired \in BOOLEAN
  /\ accepted \in Seq(Requests)
  /\ processed \in Seq(Requests)
  /\ delivered \in [1 .. Sinks -> Seq(Requests)]
  /\ dropped \subseteq Requests
  /\ panicked \subseteq Requests

Init ==
  /\ handler = [r \in Requests |-> "none"]
  /\ queue = <<>>
  /\ closed = FALSE
  /\ current = NoEvent
  /\ sink = 1
  /\ sent = FALSE
  /\ finished = FALSE
  /\ main = "running"
  /\ expired = FALSE
  /\ accepted = <<>>
  /\ processed = <<>>
  /\ delivered = [s \in 1 .. Sinks |-> <<>>]
  /\ dropped = {}
  /\ panicked = {}

-----------------------------------------------------------------------------
\* Request handlers.

\* net/http accepts connections until Shutdown closes the listener.
Arrive(r) ==
  /\ main = "running"
  /\ handler[r] = "none"
  /\ handler' = [handler EXCEPT ![r] = "serving"]
  /\ UNCHANGED <<queue, accepted, dropped, panicked>>
  /\ UNCHANGED <<workerVars, shutdownVars>>

\* The select of Log has a default branch.  Fault: it has none.
BugBlockWhenFull(r) == FALSE
MayDrop(r) == Len(queue) = QueueSize

\* make(chan Event, queueSize).
HasRoom == Len(queue) < QueueSize

\* Dispatcher.Log, from the deferred function of ServeHTTP.
Log(r) ==
  /\ Alive
  /\ handler[r] = "serving"
  /\ \/ /\ closed                       \* send on a closed channel
        /\ panicked' = panicked \cup {r}
        /\ UNCHANGED <<queue, accepted, dropped>>
     \/ /\ ~closed /\ HasRoom
        /\ queue' = Append(queue, r)
        /\ accepted' = Append(accepted, r)
        /\ UNCHANGED <<dropped, panicked>>
     \/ /\ ~closed /\ MayDrop(r)
        /\ dropped' = dropped \cup {r}
        /\ UNCHANGED <<queue, accepted, panicked>>
  /\ handler' = [handler EXCEPT ![r] = "done"]
  /\ UNCHANGED <<workerVars, shutdownVars>>

-----------------------------------------------------------------------------
\* Dispatcher.run, the one worker goroutine.

\* A channel is first in, first out.  Fault: the newest event is taken.
BugNewestFirst == Last(queue)
NextEvent == Head(queue)

\* for event := range d.queue
Take ==
  /\ Alive
  /\ current = NoEvent /\ queue # <<>>
  /\ current' = NextEvent
  /\ queue' = Tail(queue)
  /\ sink' = 1
  /\ sent' = FALSE
  /\ UNCHANGED <<finished, processed, delivered>>
  /\ UNCHANGED <<handlerVars, shutdownVars>>

\* write(): a failing sink does not keep the next one from being tried.
NextSink(ok) == sink + 1

SinkWrite(ok) ==
  /\ Alive
  /\ current # NoEvent /\ sink <= Sinks
  /\ delivered' = IF ok THEN [delivered EXCEPT ![sink] = Append(@, current)]
                  ELSE delivered
  /\ sent' = (sent \/ ok)
  /\ sink' = NextSink(ok)
  /\ UNCHANGED <<queue, current, finished, processed>>
  /\ UNCHANGED <<handlerVars, shutdownVars>>

WriteDone ==
  /\ Alive
  /\ current # NoEvent /\ sink = Sinks + 1
  /\ processed' = Append(processed, current)
  /\ current' = NoEvent
  /\ sink' = 1
  /\ sent' = FALSE
  /\ UNCHANGED <<queue, finished, delivered>>
  /\ UNCHANGED <<handlerVars, shutdownVars>>

\* The range loop ends when the channel is closed AND empty.  Fault: it
\* ends as soon as the channel is closed.
BugStopAtClose == closed
Exhausted == closed /\ queue = <<>>

\* defer close(d.done)
WorkerReturns ==
  /\ Alive
  /\ current = NoEvent /\ Exhausted /\ ~finished
  /\ finished' = TRUE
  /\ UNCHANGED <<queue, current, sink, sent, processed, delivered>>
  /\ UNCHANGED <<handlerVars, shutdownVars>>

-----------------------------------------------------------------------------
\* main().

unchangedByMain == <<handlerVars, workerVars, queue>>

\* ListenAndServe fails: os.Exit(1).
ListenFails ==
  /\ main = "running"
  /\ main' = "exited"
  /\ UNCHANGED <<closed, expired, unchangedByMain>>

\* SIGTERM or SIGINT; the 10s context starts, server.Shutdown is called.
Signal ==
  /\ main = "running"
  /\ main' = "http"
  /\ UNCHANGED <<closed, expired, unchangedByMain>>

Expire ==
  /\ main \in {"http", "drained", "audit"}
  /\ ~expired
  /\ expired' = TRUE
  /\ UNCHANGED <<closed, main, unchangedByMain>>

\* server.Shutdown returned an error: os.Exit(1).  Fault: the error is
\* only logged.
BugGoOn == "drained"
AfterHttpTimeout == "exited"

\* server.Shutdown returns nil once no handler is running, or the
\* context's error.
HttpShutdown ==
  /\ main = "http"
  /\ \/ /\ \A r \in Requests : handler[r] # "serving"
        /\ main' = "drained"
     \/ /\ expired
        /\ main' = AfterHttpTimeout
  /\ UNCHANGED <<closed, expired, unchangedByMain>>

\* Dispatcher.Shutdown closes the queue ...
CloseQueue ==
  /\ main = "drained"
  /\ closed' = TRUE
  /\ main' = "audit"
  /\ UNCHANGED <<expired, unchangedByMain>>

\* ... and waits for the worker or the context, the same 10s context.
\* Fault: it waits for the worker alone.
BugWaitForever == FALSE
ContextDone == expired

AuditShutdown ==
  /\ main = "audit"
  /\ \/ /\ finished
        /\ main' = "stopped"
     \/ /\ ContextDone
        /\ main' = "exited"
  /\ UNCHANGED <<closed, expired, unchangedByMain>>

-----------------------------------------------------------------------------
Next ==
  \/ \E r \in Requests : Arrive(r) \/ Log(r)
  \/ Take
  \/ \E ok \in BOOLEAN : SinkWrite(ok)
  \/ WriteDone
  \/ WorkerReturns
  \/ ListenFails
  \/ Signal
  \/ Expire
  \/ HttpShutdown
  \/ CloseQueue
  \/ AuditShutdown

\* Handlers and main() run and the timer fires.  Nothing is assumed of the
\* worker: a sink may hang.
Fairness ==
  /\ \A r \in Requests : WF_vars(Log(r))
  /\ WF_vars(Expire) /\ WF_vars(HttpShutdown)
  /\ WF_vars(CloseQueue) /\ WF_vars(AuditShutdown)

Safety == Init /\ [][Next]_vars

Spec == Safety /\ Fairness

-----------------------------------------------------------------------------
(***************************************************************************)
(* Properties                                                              *)
(***************************************************************************)

\* main() closes the audit queue only when no handler can still call Log:
\* a send on a closed channel would panic.
NoSendOnClosed == panicked = {}

\* No event reaches a sink twice, or before one accepted earlier.
SinksInOrder ==
  \A s \in 1 .. Sinks :
    \A i, j \in DOMAIN delivered[s] : i < j =>
      \E m, n \in DOMAIN accepted :
        m < n /\ accepted[m] = delivered[s][i] /\ accepted[n] = delivered[s][j]

InFlight == IF current = NoEvent THEN <<>> ELSE <<current>>

\* Between Log and write() no event disappears, is duplicated or overtakes
\* another: what was accepted is what the worker is done with, what it is
\* writing and what waits in the channel, at most queueSize events, in that
\* order.  Each sink has written a subsequence of that.
Conservation ==
  /\ TypeOK
  /\ accepted = processed \o InFlight \o queue
  /\ SinksInOrder

\* A clean stop loses nothing silently: when main() returns normally every
\* request that arrived was logged, and its event went through write() or
\* was counted as dropped.
CleanStop ==
  main = "stopped" =>
    \A r \in Requests : handler[r] # "none" =>
      handler[r] = "done" /\ r \in ToSet(processed) \cup dropped

\* Log never blocks a handler, however long a sink hangs.
HandlersNeverBlock ==
  \A r \in Requests : handler[r] = "serving" ~> handler[r] = "done" \/ ~Alive

\* After the signal main() ends, whatever handlers and sinks do.
ShutdownEnds == main = "http" ~> ~Alive
=============================================================================
