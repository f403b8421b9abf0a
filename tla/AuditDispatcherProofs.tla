------------------------ MODULE AuditDispatcherProofs ------------------------
(***************************************************************************)
(* Proofs about the audit pipeline, for every number of requests and sinks *)
(* and every capacity of the channel.                                      *)
(***************************************************************************)
EXTENDS AuditDispatcher, SequenceTheorems, TLAPS

-----------------------------------------------------------------------------
(***************************************************************************)
(* The inductive invariant.                                                *)
(***************************************************************************)

\* The order of main(): the queue is closed by the last shutdown only, which
\* starts when no handler is left; the worker returns from an empty channel.
ShutdownOrder ==
  /\ closed => main \in {"audit", "stopped", "exited"}
  /\ main \in {"drained", "audit", "stopped"} =>
       \A r \in Requests : handler[r] # "serving"
  /\ finished => closed /\ queue = <<>> /\ current = NoEvent
  /\ main = "stopped" => finished

\* Every handler that has returned from Log was heard.
Logged ==
  \A r \in Requests : handler[r] = "done" =>
    (\E m \in 1 .. Len(accepted) : accepted[m] = r) \/ r \in dropped

\* Number of accepted events sink s has been offered.
Offered(s) ==
  IF current # NoEvent /\ s < sink THEN Len(processed) + 1 ELSE Len(processed)

\* What one sink has written, d, next to what was accepted, acc: it is among
\* the first k accepted events.
Behind(acc, d, k) ==
  \A i \in 1 .. Len(d) : \E m \in 1 .. k : acc[m] = d[i]

\* The deliveries d of a sink are accepted events, in the order of
\* acceptance.
InOrder(acc, d) ==
  \A i, j \in 1 .. Len(d) : i < j =>
    \E m, n \in 1 .. Len(acc) : m < n /\ acc[m] = d[i] /\ acc[n] = d[j]

\* Every sink got a part of what it was offered, in the order of acceptance.
SinksBehind ==
  \A s \in 1 .. Sinks : Behind(accepted, delivered[s], Offered(s))
                        /\ InOrder(accepted, delivered[s])

\* The inductive invariant.
IInv ==
  /\ TypeOK
  /\ ShutdownOrder
  /\ NoSendOnClosed
  /\ Logged
  /\ accepted = processed \o InFlight \o queue
  /\ SinksBehind

-----------------------------------------------------------------------------
(***************************************************************************)
(* Sequences: moving the boundary between two parts of a concatenation.    *)
(***************************************************************************)

\* An event enqueued at the end of the channel is the last one accepted.
LEMMA EnqueueShifts ==
  ASSUME NEW p \in Seq(Requests), NEW q \in Seq(Requests), NEW e \in Requests
  PROVE  Append(p \o q, e) = p \o Append(q, e)
<1>1. <<e>> \in Seq(Requests)
  OBVIOUS
<1>2. p \o q \in Seq(Requests)
  BY ConcatProperties
<1>3. Append(p \o q, e) = (p \o q) \o <<e>>
  BY <1>2, AppendIsConcat
<1>4. (p \o q) \o <<e>> = p \o (q \o <<e>>)
  BY <1>1, ConcatAssociative
<1>5. q \o <<e>> = Append(q, e)
  BY AppendIsConcat
<1> QED
  BY <1>3, <1>4, <1>5

\* Taking the head of the channel moves it in front of what is left.
LEMMA TakeShifts ==
  ASSUME NEW S, NEW p \in Seq(S), NEW q \in Seq(S), q # <<>>
  PROVE  p \o <<>> \o q = p \o <<Head(q)>> \o Tail(q)
<1>1. /\ Head(q) \in S /\ Tail(q) \in Seq(S)
      /\ Len(Tail(q)) = Len(q) - 1
      /\ \A i \in 1 .. Len(Tail(q)) : Tail(q)[i] = q[i + 1]
  BY HeadTailProperties
<1>2. <<Head(q)>> \in Seq(S)
  BY <1>1
<1>3. q = <<Head(q)>> \o Tail(q)
  <2>1. /\ <<Head(q)>> \o Tail(q) \in Seq(S)
        /\ Len(<<Head(q)>> \o Tail(q)) = Len(q)
        /\ \A i \in 1 .. Len(q) : (<<Head(q)>> \o Tail(q))[i] =
             IF i <= 1 THEN <<Head(q)>>[i] ELSE Tail(q)[i - 1]
    BY <1>1, <1>2, ConcatProperties
  <2>2. \A i \in 1 .. Len(q) : (<<Head(q)>> \o Tail(q))[i] = q[i]
    BY <1>1, <2>1
  <2> QED
    BY <2>1, <2>2, SeqEqual
<1>4. p \o <<>> = p
  BY ConcatEmptySeq
<1>5. (p \o <<Head(q)>>) \o Tail(q) = p \o (<<Head(q)>> \o Tail(q))
  BY <1>1, <1>2, ConcatAssociative
<1> QED
  BY <1>3, <1>4, <1>5

\* An event the worker is done with is the last one processed.
LEMMA DoneShifts ==
  ASSUME NEW S, NEW p \in Seq(S), NEW q \in Seq(S), NEW e \in S
  PROVE  p \o <<e>> \o q = Append(p, e) \o <<>> \o q
<1>1. Append(p, e) \in Seq(S) /\ Append(p, e) = p \o <<e>>
  BY AppendProperties, AppendIsConcat
<1>2. Append(p, e) \o <<>> = Append(p, e)
  BY <1>1, ConcatEmptySeq
<1> QED
  BY <1>1, <1>2

\* The parts of a concatenation keep their places in it.
LEMMA Places ==
  ASSUME NEW S, NEW p \in Seq(S), NEW f \in Seq(S), NEW q \in Seq(S)
  PROVE  /\ p \o f \o q \in Seq(S)
         /\ Len(p \o f \o q) = Len(p) + Len(f) + Len(q)
         /\ \A i \in 1 .. Len(p) : (p \o f \o q)[i] = p[i]
         /\ \A i \in 1 .. Len(f) : (p \o f \o q)[Len(p) + i] = f[i]
<1>1. /\ p \o f \in Seq(S)
      /\ Len(p \o f) = Len(p) + Len(f)
      /\ \A i \in 1 .. Len(p) + Len(f) :
           (p \o f)[i] = IF i <= Len(p) THEN p[i] ELSE f[i - Len(p)]
  BY ConcatProperties
<1>2. /\ p \o f \o q \in Seq(S)
      /\ Len(p \o f \o q) = Len(p) + Len(f) + Len(q)
      /\ \A i \in 1 .. Len(p) + Len(f) + Len(q) :
           (p \o f \o q)[i] = IF i <= Len(p) + Len(f) THEN (p \o f)[i]
                                                    ELSE q[i - (Len(p) + Len(f))]
  BY <1>1, ConcatProperties
<1>3. Len(p) \in Nat /\ Len(f) \in Nat /\ Len(q) \in Nat
  BY LenProperties
<1> QED
  BY <1>1, <1>2, <1>3

-----------------------------------------------------------------------------
(***************************************************************************)
(* The invariant is inductive.                                             *)
(***************************************************************************)

\* The audit pipeline starts in the invariant.
LEMMA InitInv == Init => IInv
<1> SUFFICES ASSUME Init PROVE IInv
  OBVIOUS
<1> USE DispatcherAssumption DEF Init
<1>1. TypeOK
  <2>1. <<>> \in Seq(Requests) /\ Len(<<>>) = 0
    BY EmptySeq
  <2>2. handler \in [Requests -> {"none", "serving", "done"}]
    OBVIOUS
  <2>3. delivered \in [1 .. Sinks -> Seq(Requests)]
    BY <2>1
  <2>4. Len(queue) <= QueueSize /\ sink \in 1 .. Sinks + 1
    BY <2>1
  <2> QED
    BY <2>1, <2>2, <2>3, <2>4 DEF TypeOK, MainStates
<1>2. ShutdownOrder /\ NoSendOnClosed /\ Logged
  BY DEF ShutdownOrder, NoSendOnClosed, Logged
<1>3. accepted = processed \o InFlight \o queue
  BY DEF InFlight
<1>4. SinksBehind
  BY DEF SinksBehind, Behind, InOrder
<1> QED
  BY <1>1, <1>2, <1>3, <1>4 DEF IInv

\* What is in the worker's hands, as a sequence.
LEMMA InFlightType ==
  ASSUME TypeOK
  PROVE  InFlight \in Seq(Requests)
BY DEF TypeOK, InFlight

\* Only the last accepted events are still to be written: the offered ones
\* are a prefix of what was accepted, and the current one is the next.
LEMMA OfferedPrefix ==
  ASSUME IInv
  PROVE  /\ Len(accepted) = Len(processed) + Len(InFlight) + Len(queue)
         /\ \A s \in 1 .. Sinks : Offered(s) \in 0 .. Len(accepted)
         /\ current # NoEvent => accepted[Len(processed) + 1] = current
<1>1. InFlight \in Seq(Requests) /\ processed \in Seq(Requests) /\ queue \in Seq(Requests)
  BY InFlightType DEF IInv, TypeOK
<1>2. /\ Len(accepted) = Len(processed) + Len(InFlight) + Len(queue)
      /\ \A i \in 1 .. Len(InFlight) : accepted[Len(processed) + i] = InFlight[i]
  BY <1>1, Places DEF IInv
<1>3. Len(InFlight) = (IF current = NoEvent THEN 0 ELSE 1)
      /\ (current # NoEvent => InFlight[1] = current)
  BY DEF InFlight
<1>4. \A s \in 1 .. Sinks : Offered(s) \in 0 .. Len(accepted)
  BY <1>1, <1>2, <1>3 DEF Offered
<1> QED
  BY <1>2, <1>3, <1>4

\* Accepting more, or offering more, disturbs nothing a sink has written.
LEMMA MoreAccepted ==
  ASSUME NEW S, NEW acc \in Seq(S), NEW more \in Seq(S), NEW d \in Seq(S),
         NEW k \in 0 .. Len(acc),
         Len(more) >= Len(acc), \A m \in 1 .. Len(acc) : more[m] = acc[m],
         Behind(acc, d, k), InOrder(acc, d)
  PROVE  Behind(more, d, k) /\ InOrder(more, d)
<1>1. Len(acc) \in Nat /\ Len(more) \in Nat
  BY LenProperties
<1>2. Behind(more, d, k)
  <2>1. \A m \in 1 .. k : more[m] = acc[m]
    BY <1>1
  <2> QED
    BY <2>1 DEF Behind
<1>3. InOrder(more, d)
  <2> SUFFICES ASSUME NEW i \in 1 .. Len(d), NEW j \in 1 .. Len(d), i < j
               PROVE  \E m, n \in 1 .. Len(more) : m < n /\ more[m] = d[i] /\ more[n] = d[j]
    BY DEF InOrder
  <2>1. PICK m \in 1 .. Len(acc), n \in 1 .. Len(acc) :
          m < n /\ acc[m] = d[i] /\ acc[n] = d[j]
    BY DEF InOrder
  <2> QED
    BY <1>1, <2>1
<1> QED
  BY <1>2, <1>3

\* A sink that takes the next event it is offered stays in order.
LEMMA OneMoreWritten ==
  ASSUME NEW S, NEW acc \in Seq(S), NEW d \in Seq(S), NEW k \in Nat, k + 1 <= Len(acc),
         Behind(acc, d, k), InOrder(acc, d)
  PROVE  /\ Behind(acc, Append(d, acc[k + 1]), k + 1)
         /\ InOrder(acc, Append(d, acc[k + 1]))
<1> DEFINE e == Append(d, acc[k + 1])
<1>1. Len(acc) \in Nat /\ Len(d) \in Nat /\ acc[k + 1] \in S
  BY LenProperties, ElementOfSeq
<1>2. /\ e \in Seq(S) /\ Len(e) = Len(d) + 1 /\ e[Len(d) + 1] = acc[k + 1]
      /\ \A i \in 1 .. Len(d) : e[i] = d[i]
  BY <1>1, AppendProperties
<1> HIDE DEF e
<1>3. Behind(acc, e, k + 1)
  <2> SUFFICES ASSUME NEW i \in 1 .. Len(e) PROVE \E m \in 1 .. k + 1 : acc[m] = e[i]
    BY DEF Behind
  <2>1. CASE i = Len(d) + 1
    BY <1>2, <2>1
  <2>2. CASE i # Len(d) + 1
    <3>1. i \in 1 .. Len(d)
      BY <1>1, <1>2, <2>2
    <3>2. PICK m \in 1 .. k : acc[m] = d[i]
      BY <3>1 DEF Behind
    <3> QED
      BY <1>2, <3>1, <3>2
  <2> QED
    BY <2>1, <2>2
<1>4. InOrder(acc, e)
  <2> SUFFICES ASSUME NEW i \in 1 .. Len(e), NEW j \in 1 .. Len(e), i < j
               PROVE  \E m, n \in 1 .. Len(acc) : m < n /\ acc[m] = e[i] /\ acc[n] = e[j]
    BY DEF InOrder
  <2>1. i \in 1 .. Len(d)
    BY <1>1, <1>2
  <2>2. CASE j = Len(d) + 1
    <3>1. PICK m \in 1 .. k : acc[m] = d[i]
      BY <2>1 DEF Behind
    <3>2. m \in 1 .. Len(acc) /\ k + 1 \in 1 .. Len(acc) /\ m < k + 1
      BY <1>1
    <3> QED
      BY <1>2, <2>1, <2>2, <3>1, <3>2
  <2>3. CASE j # Len(d) + 1
    <3>1. j \in 1 .. Len(d)
      BY <1>1, <1>2, <2>3
    <3>2. PICK m \in 1 .. Len(acc), n \in 1 .. Len(acc) :
            m < n /\ acc[m] = d[i] /\ acc[n] = d[j]
      BY <2>1, <3>1 DEF InOrder
    <3> QED
      BY <1>2, <2>1, <3>1, <3>2
  <2> QED
    BY <2>2, <2>3
<1> QED
  BY <1>3, <1>4 DEF e

\* A step that writes to no sink, takes back nothing accepted and offers each
\* sink what it was offered before disturbs nothing the sinks are held to.
LEMMA SinksKept ==
  ASSUME IInv, TypeOK', UNCHANGED delivered,
         \A s \in 1 .. Sinks : Offered(s)' = Offered(s),
         Len(accepted') >= Len(accepted),
         \A m \in 1 .. Len(accepted) : accepted'[m] = accepted[m]
  PROVE  SinksBehind'
<1>1. accepted \in Seq(Requests) /\ accepted' \in Seq(Requests)
  BY DEF IInv, TypeOK
<1>2. ASSUME NEW s \in 1 .. Sinks
      PROVE  /\ Behind(accepted', delivered'[s], Offered(s)')
             /\ InOrder(accepted', delivered'[s])
  <2>1. /\ delivered[s] \in Seq(Requests) /\ Offered(s) \in 0 .. Len(accepted)
        /\ Behind(accepted, delivered[s], Offered(s)) /\ InOrder(accepted, delivered[s])
    BY OfferedPrefix DEF IInv, TypeOK, SinksBehind
  <2> QED
    BY <1>1, <2>1, MoreAccepted
<1> QED
  BY <1>2 DEF SinksBehind

\* Every step keeps the invariant.
LEMMA NextInv == IInv /\ [Next]_vars => IInv'
<1> SUFFICES ASSUME IInv, [Next]_vars PROVE IInv'
  OBVIOUS
<1> USE DispatcherAssumption
<1>1. ASSUME NEW r \in Requests, Arrive(r) PROVE IInv'
  <2> USE <1>1
  <2>1. TypeOK'
    BY DEF IInv, TypeOK, Arrive, workerVars, shutdownVars
  <2>2. ShutdownOrder' /\ NoSendOnClosed' /\ Logged'
    BY DEF IInv, TypeOK, ShutdownOrder, NoSendOnClosed, Logged, Arrive,
           workerVars, shutdownVars
  <2>3. UNCHANGED <<accepted, processed, current, queue, delivered, sink>>
    BY DEF Arrive, workerVars, shutdownVars
  <2>4. (accepted = processed \o InFlight \o queue)'
    BY <2>3 DEF IInv, InFlight
  <2>5. SinksBehind'
    BY <2>1, <2>3, SinksKept DEF IInv, TypeOK, Offered
  <2> QED
    BY <2>1, <2>2, <2>4, <2>5 DEF IInv
<1>2. ASSUME NEW r \in Requests, Log(r) PROVE IInv'
  <2> USE <1>2
  <2>1. ~closed /\ main \notin {"drained", "audit", "stopped"}
    BY DEF IInv, TypeOK, ShutdownOrder, Log, Alive, MainStates
  <2>2. UNCHANGED <<processed, current, delivered, sink, sent, finished,
                    closed, main, expired, panicked>>
    BY <2>1 DEF Log, workerVars, shutdownVars
  <2>3. CASE HasRoom /\ queue' = Append(queue, r)
               /\ accepted' = Append(accepted, r) /\ UNCHANGED dropped
    <3>1. /\ accepted' \in Seq(Requests) /\ Len(accepted') = Len(accepted) + 1
          /\ \A i \in 1 .. Len(accepted) : accepted'[i] = accepted[i]
          /\ accepted'[Len(accepted) + 1] = r
      BY <2>3, AppendProperties DEF IInv, TypeOK
    <3>2. queue' \in Seq(Requests) /\ Len(queue') <= QueueSize
      BY <2>3, AppendProperties DEF IInv, TypeOK, HasRoom
    <3>3. TypeOK'
      BY <2>2, <2>3, <3>1, <3>2 DEF IInv, TypeOK, Log
    <3>4. ShutdownOrder' /\ NoSendOnClosed'
      BY <2>1, <2>2 DEF IInv, TypeOK, ShutdownOrder, NoSendOnClosed, Log
    <3>5. Logged'
      <4>1. Len(accepted) \in Nat
        BY DEF IInv, TypeOK
      <4>2. \E m \in 1 .. Len(accepted') : accepted'[m] = r
        BY <3>1, <4>1
      <4> SUFFICES ASSUME NEW t \in Requests, handler'[t] = "done", t # r
                   PROVE  (\E m \in 1 .. Len(accepted') : accepted'[m] = t) \/ t \in dropped
        BY <2>3, <4>2 DEF Logged
      <4>3. (\E m \in 1 .. Len(accepted) : accepted[m] = t) \/ t \in dropped
        BY DEF IInv, TypeOK, Logged, Log
      <4> QED
        BY <3>1, <4>1, <4>3
    <3>6. (accepted = processed \o InFlight \o queue)'
      <4>0. InFlight' = InFlight
        BY <2>2 DEF InFlight
      <4>1. processed \o InFlight \in Seq(Requests) /\ queue \in Seq(Requests)
        BY InFlightType, ConcatProperties DEF IInv, TypeOK
      <4>2. Append(processed \o InFlight \o queue, r) = processed \o InFlight \o Append(queue, r)
        BY <4>1, EnqueueShifts, Zenon
      <4> QED
        BY <2>2, <2>3, <4>0, <4>2 DEF IInv
    <3>7. SinksBehind'
      <4>1. Len(accepted) \in Nat
        BY DEF IInv, TypeOK
      <4> QED
        BY <2>2, <3>1, <3>3, <4>1, SinksKept DEF Offered
    <3> QED
      BY <3>3, <3>4, <3>5, <3>6, <3>7 DEF IInv
  <2>4. CASE dropped' = dropped \cup {r} /\ UNCHANGED <<queue, accepted>>
    <3>1. TypeOK'
      BY <2>2, <2>4 DEF IInv, TypeOK, Log
    <3>2. ShutdownOrder' /\ NoSendOnClosed'
      BY <2>1, <2>2 DEF IInv, TypeOK, ShutdownOrder, NoSendOnClosed, Log
    <3>3. Logged'
      BY <2>4 DEF IInv, TypeOK, Logged, Log
    <3>4. (accepted = processed \o InFlight \o queue)'
      BY <2>2, <2>4 DEF IInv, InFlight
    <3>5. SinksBehind'
      BY <2>2, <2>4, <3>1, SinksKept DEF IInv, TypeOK, Offered
    <3> QED
      BY <3>1, <3>2, <3>3, <3>4, <3>5 DEF IInv
  <2> QED
    BY <2>1, <2>3, <2>4 DEF Log
<1>3. CASE Take
  <2> USE <1>3
  <2>1. /\ Head(queue) \in Requests /\ Tail(queue) \in Seq(Requests)
        /\ Len(Tail(queue)) = Len(queue) - 1
    BY HeadTailProperties DEF IInv, TypeOK, Take
  <2>2. TypeOK'
    <3>1. Len(queue') <= QueueSize /\ sink' \in 1 .. Sinks + 1
      BY <2>1 DEF IInv, TypeOK, Take
    <3> QED
      BY <2>1, <3>1 DEF IInv, TypeOK, Take, NextEvent, handlerVars, shutdownVars
  <2>3. ShutdownOrder' /\ NoSendOnClosed' /\ Logged'
    BY DEF IInv, ShutdownOrder, NoSendOnClosed, Logged, Take, handlerVars, shutdownVars
  <2>4. (accepted = processed \o InFlight \o queue)'
    <3>1. InFlight = <<>> /\ InFlight' = <<Head(queue)>> /\ queue' = Tail(queue)
      BY <2>1 DEF Take, NextEvent, InFlight
    <3>2. processed \o <<>> \o queue = processed \o <<Head(queue)>> \o Tail(queue)
      BY TakeShifts DEF IInv, TypeOK, Take
    <3> QED
      BY <3>1, <3>2 DEF IInv, Take, handlerVars
  <2>5. SinksBehind'
    <3>1. \A s \in 1 .. Sinks : Offered(s)' = Offered(s)
      BY DEF IInv, TypeOK, Take, Offered
    <3>2. UNCHANGED <<accepted, delivered>> /\ Len(accepted) \in Nat
      BY DEF IInv, TypeOK, Take, handlerVars
    <3> QED
      BY <2>2, <3>1, <3>2, SinksKept
  <2> QED
    BY <2>2, <2>3, <2>4, <2>5 DEF IInv
<1>4. ASSUME NEW ok \in BOOLEAN, SinkWrite(ok) PROVE IInv'
  <2> USE <1>4
  <2>1. sink \in 1 .. Sinks /\ current \in Requests /\ delivered[sink] \in Seq(Requests)
    BY DEF IInv, TypeOK, SinkWrite
  <2>2. UNCHANGED <<queue, current, finished, processed, handler, accepted, dropped,
                    panicked, closed, main, expired>> /\ sink' = sink + 1
    BY DEF SinkWrite, NextSink, handlerVars, shutdownVars
  <2>3. delivered' \in [1 .. Sinks -> Seq(Requests)]
        /\ \A s \in 1 .. Sinks : s # sink => delivered'[s] = delivered[s]
    BY <2>1, AppendProperties DEF IInv, TypeOK, SinkWrite
  <2>4. ok => delivered'[sink] = Append(delivered[sink], current)
    BY <2>1 DEF IInv, TypeOK, SinkWrite
  <2>5. ~ok => delivered'[sink] = delivered[sink]
    BY DEF SinkWrite
  <2>6. TypeOK'
    <3>1. sent' \in BOOLEAN
      BY DEF SinkWrite
    <3>2. sink' \in 1 .. Sinks + 1
      BY <2>1, <2>2
    <3> QED
      BY <2>2, <2>3, <3>1, <3>2 DEF IInv, TypeOK
  <2>7. ShutdownOrder' /\ NoSendOnClosed' /\ Logged'
    BY <2>2 DEF IInv, ShutdownOrder, NoSendOnClosed, Logged
  <2>8. (accepted = processed \o InFlight \o queue)'
    BY <2>2 DEF IInv, InFlight
  <2>9. /\ Len(processed) \in Nat /\ Len(processed) + 1 <= Len(accepted)
        /\ accepted[Len(processed) + 1] = current
    <3>1. Len(InFlight) = 1 /\ current # NoEvent
      BY <2>1 DEF InFlight
    <3>2. Len(queue) \in Nat /\ Len(processed) \in Nat
      BY DEF IInv, TypeOK
    <3> QED
      BY <3>1, <3>2, OfferedPrefix
  <2>10. ASSUME NEW s \in 1 .. Sinks
         PROVE  /\ Behind(accepted', delivered'[s], Offered(s)')
                /\ InOrder(accepted', delivered'[s])
    <3>1. /\ accepted \in Seq(Requests) /\ delivered[s] \in Seq(Requests)
          /\ Behind(accepted, delivered[s], Offered(s)) /\ InOrder(accepted, delivered[s])
      BY DEF IInv, TypeOK, SinksBehind
    <3>2. CASE s # sink
      <4>1. Offered(s)' = Offered(s)
        BY <2>1, <2>2, <3>2 DEF Offered
      <4> QED
        BY <2>2, <2>3, <3>1, <3>2, <4>1
    <3>3. CASE s = sink
      <4>1. Offered(s) = Len(processed) /\ Offered(s)' = Len(processed) + 1
        BY <2>1, <2>2, <3>3 DEF Offered
      <4>2. CASE ok
        BY <2>2, <2>4, <2>9, <3>1, <3>3, <4>1, <4>2, OneMoreWritten
      <4>3. CASE ~ok
        BY <2>2, <2>5, <2>9, <3>1, <3>3, <4>1, <4>3, SMTT(30) DEF Behind
      <4> QED
        BY <4>2, <4>3
    <3> QED
      BY <3>2, <3>3
  <2>11. SinksBehind'
    BY <2>10 DEF SinksBehind
  <2> QED
    BY <2>6, <2>7, <2>8, <2>11 DEF IInv
<1>5. CASE WriteDone
  <2> USE <1>5
  <2>1. /\ current \in Requests /\ processed' \in Seq(Requests)
        /\ Len(processed') = Len(processed) + 1 /\ Len(processed) \in Nat
    BY AppendProperties DEF IInv, TypeOK, WriteDone
  <2>2. TypeOK'
    <3>1. sink' \in 1 .. Sinks + 1
      BY DEF WriteDone
    <3> QED
      BY <2>1, <3>1 DEF IInv, TypeOK, WriteDone, handlerVars, shutdownVars
  <2>3. ShutdownOrder' /\ NoSendOnClosed' /\ Logged'
    BY DEF IInv, ShutdownOrder, NoSendOnClosed, Logged, WriteDone, handlerVars, shutdownVars
  <2>4. (accepted = processed \o InFlight \o queue)'
    <3>1. InFlight = <<current>> /\ InFlight' = <<>>
      BY DEF WriteDone, InFlight
    <3>2. processed \o <<current>> \o queue = Append(processed, current) \o <<>> \o queue
      <4>1. processed \in Seq(Requests) /\ queue \in Seq(Requests)
        BY DEF IInv, TypeOK
      <4> QED
        BY <2>1, <4>1, DoneShifts, Zenon
    <3> QED
      BY <3>1, <3>2 DEF IInv, WriteDone, handlerVars
  <2>5. SinksBehind'
    <3>1. \A s \in 1 .. Sinks : Offered(s)' = Offered(s)
      BY <2>1 DEF WriteDone, Offered
    <3>2. UNCHANGED <<accepted, delivered>> /\ Len(accepted) \in Nat
      BY DEF IInv, TypeOK, WriteDone, handlerVars
    <3> QED
      BY <2>2, <3>1, <3>2, SinksKept
  <2> QED
    BY <2>2, <2>3, <2>4, <2>5 DEF IInv
<1>6. CASE WorkerReturns
  <2> USE <1>6
  <2>1. UNCHANGED <<accepted, processed, current, queue, delivered, sink>>
    BY DEF WorkerReturns, handlerVars, shutdownVars
  <2>2. TypeOK'
    BY DEF IInv, TypeOK, WorkerReturns, handlerVars, shutdownVars
  <2>3. ShutdownOrder' /\ NoSendOnClosed' /\ Logged'
    BY DEF IInv, ShutdownOrder, NoSendOnClosed, Logged, WorkerReturns, Exhausted,
           handlerVars, shutdownVars
  <2>4. (accepted = processed \o InFlight \o queue)'
    BY <2>1 DEF IInv, InFlight
  <2>5. SinksBehind'
    BY <2>1, <2>2, SinksKept DEF IInv, TypeOK, Offered
  <2> QED
    BY <2>2, <2>3, <2>4, <2>5 DEF IInv
<1>7. CASE ListenFails \/ Signal \/ Expire \/ HttpShutdown \/ CloseQueue \/ AuditShutdown
  <2> USE <1>7 DEF ListenFails, Signal, Expire, HttpShutdown, CloseQueue, AuditShutdown,
                   unchangedByMain, handlerVars, workerVars
  <2>1. UNCHANGED <<accepted, processed, current, queue, delivered, sink, handler,
                    dropped, panicked, finished, sent>>
    OBVIOUS
  <2>2. TypeOK'
    BY <2>1 DEF IInv, TypeOK, MainStates, AfterHttpTimeout
  <2>3. ShutdownOrder'
    BY <2>1 DEF IInv, TypeOK, ShutdownOrder, MainStates, AfterHttpTimeout
  <2>4. NoSendOnClosed' /\ Logged'
    BY <2>1 DEF IInv, NoSendOnClosed, Logged
  <2>5. (accepted = processed \o InFlight \o queue)'
    BY <2>1 DEF IInv, InFlight
  <2>6. SinksBehind'
    BY <2>1, <2>2, SinksKept DEF IInv, TypeOK, Offered
  <2> QED
    BY <2>2, <2>3, <2>4, <2>5, <2>6 DEF IInv
<1>8. CASE UNCHANGED vars
  <2>1. UNCHANGED <<accepted, processed, current, queue, delivered, sink>>
    BY <1>8 DEF vars
  <2>2. TypeOK' /\ ShutdownOrder' /\ NoSendOnClosed' /\ Logged'
    BY <1>8 DEF IInv, TypeOK, ShutdownOrder, NoSendOnClosed, Logged, vars
  <2>3. (accepted = processed \o InFlight \o queue)'
    BY <2>1 DEF IInv, InFlight
  <2>4. SinksBehind'
    BY <2>1, <2>2, SinksKept DEF IInv, TypeOK, Offered
  <2> QED
    BY <2>2, <2>3, <2>4 DEF IInv
<1> QED
  BY <1>1, <1>2, <1>3, <1>4, <1>5, <1>6, <1>7, <1>8 DEF Next

-----------------------------------------------------------------------------

\* The invariant holds of the audit pipeline.
THEOREM Invariance == Safety => []IInv
<1> QED
  BY InitInv, NextInv, PTL DEF Safety

\* No handler ever sends on the closed channel, whatever the order of
\* arrivals, timeouts and shutdown steps.
THEOREM NoSendOnClosedHolds == Safety => []NoSendOnClosed
<1>1. IInv => NoSendOnClosed
  BY DEF IInv
<1> QED
  BY <1>1, Invariance, PTL

\* Events go from Log to the sinks in order, none lost, none twice, through a
\* channel that never holds more than its capacity.
THEOREM ConservationHolds == Safety => []Conservation
<1>1. IInv => Conservation
  <2> SUFFICES ASSUME IInv PROVE SinksInOrder
    BY DEF IInv, Conservation
  <2>1. /\ DOMAIN accepted = 1 .. Len(accepted)
        /\ \A s \in 1 .. Sinks : DOMAIN delivered[s] = 1 .. Len(delivered[s])
    BY DEF IInv, TypeOK
  <2> SUFFICES ASSUME NEW s \in 1 .. Sinks,
                      NEW i \in DOMAIN delivered[s], NEW j \in DOMAIN delivered[s], i < j
               PROVE  \E m, n \in DOMAIN accepted :
                        m < n /\ accepted[m] = delivered[s][i] /\ accepted[n] = delivered[s][j]
    BY DEF SinksInOrder
  <2>2. InOrder(accepted, delivered[s])
    BY DEF IInv, SinksBehind
  <2>3. i \in 1 .. Len(delivered[s]) /\ j \in 1 .. Len(delivered[s])
    BY <2>1
  <2>4. PICK m \in 1 .. Len(accepted), n \in 1 .. Len(accepted) :
          m < n /\ accepted[m] = delivered[s][i] /\ accepted[n] = delivered[s][j]
    BY <2>2, <2>3 DEF InOrder
  <2> QED
    BY <2>1, <2>4
<1> QED
  BY <1>1, Invariance, PTL

\* When main() returns normally, each event of each request that arrived has
\* gone through write() or was counted as dropped.
THEOREM CleanStopHolds == Safety => []CleanStop
<1>1. IInv => CleanStop
  <2> SUFFICES ASSUME IInv, main = "stopped",
                      NEW r \in Requests, handler[r] # "none"
               PROVE  handler[r] = "done" /\ r \in ToSet(processed) \cup dropped
    BY DEF CleanStop
  <2>1. handler[r] = "done"
    BY DEF IInv, TypeOK, ShutdownOrder
  <2>2. queue = <<>> /\ current = NoEvent
    BY DEF IInv, ShutdownOrder
  <2>3. accepted = processed
    <3>1. processed \in Seq(Requests) /\ InFlight = <<>>
      BY <2>2 DEF IInv, TypeOK, InFlight
    <3>2. processed \o <<>> = processed
      BY <3>1, ConcatEmptySeq
    <3> QED
      BY <2>2, <3>1, <3>2 DEF IInv
  <2>4. (\E m \in 1 .. Len(processed) : processed[m] = r) \/ r \in dropped
    BY <2>1, <2>3 DEF IInv, Logged
  <2>5. DOMAIN processed = 1 .. Len(processed)
    BY DEF IInv, TypeOK
  <2> QED
    BY <2>1, <2>4, <2>5 DEF ToSet
<1> QED
  BY <1>1, Invariance, PTL
=============================================================================
