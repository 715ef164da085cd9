---------------------------- MODULE SessionProofs ----------------------------
(***************************************************************************)
(* The replies of a session, for any number of requests, keys and places   *)
(* in the pipeline.                                                        *)
(*                                                                         *)
(* A request is numbered when it is read.  What the reader has read, what  *)
(* is queued, held and buffered and what the client has got are kept apart *)
(* in Session; the inductive invariant SessionInv says that together they  *)
(* are an interval of numbers (OrderInv), that a request behind the reader *)
(* has been dispatched in all its parts (PushInv), that what the writer    *)
(* has answered has been executed (RunInv), and why the writer has stopped *)
(* (CloseInv).                                                             *)
(***************************************************************************)
EXTENDS Session, SequenceTheorems, TLAPS

\* The writer still answers requests.
Writing == wpc \in {"next", "wait"}
\* How many requests the writer has taken from the queue, while it answers them,
\* and how many the reader has put into it.
Taken == Len(out) + Len(obuf) + (IF wpc = "wait" THEN 1 ELSE 0)
Queued == Taken + Len(tasks)

\* The requests are numbered without a gap, from the replies sent to the request read.
OrderInv ==
    /\ \A i \in DOMAIN out : out[i] = i
    /\ Len(out) + Len(obuf) <= nread
    /\ Writing =>
          /\ \A i \in DOMAIN obuf : obuf[i] = Len(out) + i
          /\ wpc = "wait" => cur = Taken
          /\ \A i \in DOMAIN tasks : tasks[i] = Taken + i
          /\ Queued <= nread
          /\ rpc = "read" \/ (quit /\ rpc # "queue") => nread = Queued
          /\ rpc \in {"dispatch", "queue"} => nread = Queued + 1

\* QUIT is the last request that is read, and the queue is closed at the end.
QuitInv ==
    /\ quit => rpc \in {"queue", "end", "close", "done"} /\ nread > 0
    /\ ended <=> rpc \in {"close", "done"}

\* All parts of the request have been given to the backends.
Pushed(k) == \A q \in SubsOf(k) : state[q] # "new"
PushInv ==
    /\ \A k \in Reqs : k > nread => nkeys[k] = 0
    /\ Writing => \A k \in Reqs : k <= Queued => Pushed(k)
    /\ rpc = "queue" => nread > 0 /\ Pushed(nread)
    /\ rpc = "dispatch" =>
          nread > 0 /\ key <= nkeys[nread] /\ \A j \in 1 .. key - 1 : state[<<nread, j>>] # "new"

\* What has been answered has been executed.
RunInv ==
    /\ \A q \in Subs : state[q] = "replied" => ran[q] = 1
    /\ \A k \in Reqs : k <= Len(out) + Len(obuf) => \A q \in SubsOf(k) : ran[q] = 1

\* Why the writer may have stopped without having answered all requests.
Excused ==
    \/ gone \/ rpc = "done"
    \/ \E q \in Subs : state[q] = "failed"
    \/ \E k \in Reqs : nkeys[k] > 1

CloseInv ==
    /\ ~up => gone \/ rpc = "done" \/ wpc \in {"drain", "done"}
    /\ wpc = "next" /\ obuf # <<>> => tasks # <<>>
    /\ ~Writing => Excused \/ (ended /\ (quit => nread = Len(out)))

SessionInv == TypeOK /\ OrderInv /\ QuitInv /\ PushInv /\ RunInv /\ CloseInv

\* A step is one of the reader, the writer, a backend or the client, or none.
LEMMA Steps ==
    ASSUME [Next]_vars
    PROVE  \/ ReadFailed \/ Dispatch \/ DispatchFailed \/ Queue \/ End \/ Close
           \/ Take \/ Reply \/ ReplyFailed \/ CloseWriter \/ Drain
           \/ (\E n \in 1 .. MaxKeys : Read(n)) \/ (\E b \in BOOLEAN : ReadLocal(b))
           \/ ReadRefused \/ ClientCloses
           \/ (\E q \in Subs : Execute(q) \/ SetReply(q) \/ SetError(q))
           \/ UNCHANGED vars
BY Zenon DEF Next, ReaderStep, WriterStep

\* The session and the requests that backends run are of their types.
LEMMA TypeStep ==
    ASSUME TypeOK, OrderInv, PushInv, [Next]_vars
    PROVE  TypeOK'
<1> USE DEF TypeOK
<1>0. /\ MaxReqs \in Nat /\ MaxBuffered \in Nat /\ MaxKeys \in Nat \ {0} /\ MaxPipeline \in Nat \ {0}
      /\ Len(tasks) \in Nat /\ Len(obuf) \in Nat /\ Len(out) \in Nat
  BY BoundsAssumption
<1>1. CASE ReadFailed
  BY <1>1, Zenon DEF ReadFailed, writerVars, clientVars, backendVars
<1>2. CASE Dispatch
  <2>1. nread \in Reqs
    BY <1>2, <1>0 DEF Dispatch, PushInv, Reqs
  <2>2. key' \in 1 .. MaxKeys /\ rpc' \in {"dispatch", "queue"}
    BY <1>2, <1>0, <2>1 DEF Dispatch
  <2>3. state' \in [Subs -> {"new", "pushed", "replied", "failed"}]
    BY Zenon, <1>2 DEF Dispatch, Backend!Push
  <2> QED BY <1>2, <2>2, <2>3, Zenon DEF Dispatch, Backend!Push, writerVars, clientVars
<1>3. CASE DispatchFailed
  BY <1>3, Zenon DEF DispatchFailed, writerVars, clientVars, backendVars
<1>4. CASE Queue
  <2>1. nread \in Reqs
    BY <1>4, <1>0 DEF Queue, PushInv, Reqs
  <2> QED BY <1>4, <1>0, <2>1, AppendProperties DEF Queue, writerVars, clientVars, backendVars
<1>5. CASE End
  BY <1>5, Zenon DEF End, writerVars, clientVars, backendVars
<1>6. CASE Close
  BY Zenon, <1>6 DEF Close, writerVars, backendVars
<1>7. CASE Take
  <2>1. CASE tasks # <<>> /\ cur' = Head(tasks) /\ tasks' = Tail(tasks) /\ wpc' = "wait"
    <3>1. tasks' \in Seq(Reqs) /\ Len(tasks') <= MaxPipeline /\ cur' \in Reqs
      BY <1>0, <2>1, HeadTailProperties, EmptySeq
    <3> QED BY <1>7, <2>1, <3>1 DEF Take, Reqs, readerVars, clientVars, backendVars
  <2>2. CASE wpc' = "close" /\ UNCHANGED <<cur, tasks>>
    BY <1>7, <2>2, Zenon DEF Take, readerVars, clientVars, backendVars
  <2> QED BY Zenon, <1>7, <2>1, <2>2 DEF Take
<1>8. CASE Reply
  <2>1. cur \in Reqs
    BY <1>8, <1>0 DEF Reply, OrderInv, Writing, Taken, Reqs
  <2>2. Append(obuf, cur) \in Seq(Reqs) /\ out \o Append(obuf, cur) \in Seq(Reqs)
    BY <2>1, AppendProperties, ConcatProperties, Zenon
  <2>3. /\ obuf' \in Seq(Reqs) /\ Len(obuf') <= MaxBuffered /\ out' \in Seq(Reqs)
        /\ cur' = 0 /\ wpc' = "next"
    <3>1. CASE Len(Append(obuf, cur)) <= MaxBuffered /\ obuf' = Append(obuf, cur) /\ UNCHANGED out
      BY <1>8, <2>2, <3>1, Zenon DEF Reply
    <3>2. CASE obuf' = <<>> /\ out' = out \o Append(obuf, cur)
      <4>1. obuf' \in Seq(Reqs) /\ Len(obuf') = 0
        BY <3>2, EmptySeq, Zenon
      <4> QED BY <1>8, <1>0, <2>2, <3>2, <4>1 DEF Reply
    <3> QED BY Zenon, <1>8, <3>1, <3>2 DEF Reply
  <2> QED BY SMTT(30), <1>8, <1>0, <2>3 DEF Reply, readerVars, backendVars
<1>9. CASE ReplyFailed
  BY <1>9, <1>0 DEF ReplyFailed, readerVars, clientVars, backendVars
<1>10. CASE CloseWriter
  BY Zenon, <1>10 DEF CloseWriter, readerVars, backendVars
<1>11. CASE Drain
  <2>1. tasks' \in Seq(Reqs) /\ Len(tasks') <= MaxPipeline /\ wpc' \in {"drain", "done"}
    <3>1. CASE tasks # <<>> /\ tasks' = Tail(tasks) /\ UNCHANGED wpc
      BY <1>11, <1>0, <3>1, HeadTailProperties, EmptySeq DEF Drain
    <3>2. CASE wpc' = "done" /\ UNCHANGED tasks
      BY <3>2, Zenon
    <3> QED BY Zenon, <1>11, <3>1, <3>2 DEF Drain
  <2> QED BY <1>11, <2>1, Zenon DEF Drain, readerVars, clientVars, backendVars
<1>12. ASSUME NEW n \in 1 .. MaxKeys, Read(n) PROVE TypeOK'
  <2>1. nread' \in 0 .. MaxReqs /\ key' \in 1 .. MaxKeys /\ nkeys' \in [Reqs -> 0 .. MaxKeys]
    <3>1. nread < MaxReqs /\ nread' = nread + 1 /\ key' = 1 /\ nkeys' = [nkeys EXCEPT ![nread + 1] = n]
      BY <1>12, Zenon DEF Read
    <3>2. n \in 0 .. MaxKeys
      BY <1>0
    <3>3. nkeys' \in [Reqs -> 0 .. MaxKeys]
      BY Zenon, <3>1, <3>2
    <3> QED BY <1>0, <3>1, <3>3
  <2> QED BY <1>12, <2>1, Zenon DEF Read, writerVars, clientVars, backendVars
<1>13. ASSUME NEW b \in BOOLEAN, ReadLocal(b) PROVE TypeOK'
  BY <1>13, <1>0 DEF ReadLocal, writerVars, clientVars, backendVars
<1>14. CASE ReadRefused
  BY <1>14, <1>0 DEF ReadRefused, writerVars, clientVars, backendVars
<1>15. CASE ClientCloses
  BY Zenon, <1>15 DEF ClientCloses, readerVars, writerVars, backendVars
<1>16. ASSUME NEW q \in Subs, Execute(q) \/ SetReply(q) \/ SetError(q) PROVE TypeOK'
  <2>1. /\ state' \in [Subs -> {"new", "pushed", "replied", "failed"}] /\ ran' \in [Subs -> 0 .. 1]
        /\ UNCHANGED <<readerVars, tasks, ended, writerVars, clientVars>>
    <3>1. CASE Execute(q)
      BY <3>1 DEF Execute, Backend!Run
    <3>2. CASE SetReply(q)
      BY <3>2, Zenon DEF SetReply, Backend!Reply
    <3>3. CASE SetError(q)
      BY <3>3, Zenon DEF SetError, Backend!Fail
    <3> QED BY <1>16, <3>1, <3>2, <3>3, Zenon
  <2> QED BY <2>1, Zenon DEF readerVars, writerVars, clientVars
<1>17. CASE UNCHANGED vars
  BY Zenon, <1>17 DEF vars, readerVars, writerVars, clientVars, backendVars
<1> QED BY Zenon, <1>1, <1>2, <1>3, <1>4, <1>5, <1>6, <1>7, <1>8, <1>9, <1>10, <1>11, <1>12, <1>13,
           <1>14, <1>15, <1>16, <1>17, Steps

\* The requests stay numbered.
LEMMA OrderStep ==
    ASSUME TypeOK, OrderInv, QuitInv, PushInv, [Next]_vars
    PROVE  OrderInv'
<1>0. /\ Len(tasks) \in Nat /\ Len(obuf) \in Nat /\ Len(out) \in Nat /\ nread \in Nat
      /\ tasks \in Seq(Reqs) /\ obuf \in Seq(Reqs) /\ out \in Seq(Reqs)
      /\ DOMAIN tasks = 1 .. Len(tasks) /\ DOMAIN obuf = 1 .. Len(obuf) /\ DOMAIN out = 1 .. Len(out)
  BY SMTT(30), BoundsAssumption DEF TypeOK
<1>n. Len(tasks) \in Nat /\ Len(obuf) \in Nat /\ Len(out) \in Nat /\ nread \in Nat
  BY <1>0, Zenon
<1> USE DEF OrderInv, Writing, Queued, Taken
<1>1. CASE ReadFailed
  BY <1>1, Zenon DEF ReadFailed, QuitInv, writerVars, clientVars
<1>2. CASE Dispatch
  BY <1>2, Zenon DEF Dispatch, QuitInv, writerVars, clientVars
<1>3. CASE DispatchFailed
  BY <1>3, Zenon DEF DispatchFailed, QuitInv, writerVars, clientVars
<1>4. CASE Queue
  <2>1. /\ rpc = "queue" /\ tasks' = Append(tasks, nread) /\ rpc' \in {"read", "end"}
        /\ UNCHANGED <<wpc, cur, obuf, out, nread>>
    BY <1>4, Zenon DEF Queue, writerVars, clientVars
  <2>2. nread \in Reqs
    BY <2>1, <1>0 DEF PushInv, TypeOK, Reqs
  <2>3. /\ Len(tasks') = Len(tasks) + 1 /\ DOMAIN tasks' = 1 .. Len(tasks) + 1
        /\ \A i \in 1 .. Len(tasks) : tasks'[i] = tasks[i]
        /\ tasks'[Len(tasks) + 1] = nread
    BY <1>0, <2>1, <2>2, AppendProperties
  <2>4. ASSUME Writing, NEW i \in 1 .. Len(tasks) + 1 PROVE tasks'[i] = Taken + i
    <3>1. nread = Queued + 1 /\ \A j \in 1 .. Len(tasks) : tasks[j] = Taken + j
      BY Zenon, <1>0, <2>1, <2>4
    <3>2. i \in 1 .. Len(tasks) \/ i = Len(tasks) + 1
      BY <1>0
    <3> QED BY <1>0, <2>3, <3>1, <3>2
  <2> QED BY <1>0, <2>1, <2>3, <2>4
<1>5. CASE End
  BY <1>5, Zenon DEF End, writerVars, clientVars
<1>6. CASE Close
  BY <1>6, Zenon DEF Close, writerVars
<1>7. CASE Take
  <2>1. CASE tasks # <<>> /\ cur' = Head(tasks) /\ tasks' = Tail(tasks) /\ wpc' = "wait"
    <3>1. /\ wpc = "next" /\ UNCHANGED <<rpc, nread, quit, obuf, out>>
      BY <1>7, Zenon DEF Take, readerVars, clientVars
    <3>2. /\ Len(tasks) \in Nat \ {0} /\ Len(tasks') = Len(tasks) - 1 /\ tasks' \in Seq(Reqs)
          /\ \A i \in 1 .. Len(tasks) - 1 : tasks'[i] = tasks[i + 1]
          /\ cur' = tasks[1]
      BY <1>0, <2>1, HeadTailProperties, EmptySeq
    <3>3. DOMAIN tasks' = 1 .. Len(tasks) - 1
      BY <3>2
    <3>4. Taken' = Taken + 1 /\ Queued' = Queued
      BY <1>0, <2>1, <3>1, <3>2
    <3>5. Taken \in Nat /\ \A i \in 1 .. Len(tasks) : tasks[i] = Taken + i
      BY <1>0, <3>1
    <3>6. cur' = Taken'
      BY <3>2, <3>4, <3>5
    <3>7. ASSUME NEW i \in DOMAIN tasks' PROVE tasks'[i] = Taken' + i
      <4>1. i \in 1 .. Len(tasks) - 1 /\ i + 1 \in 1 .. Len(tasks)
        BY <3>2, <3>3, <3>7
      <4> HIDE DEF Taken
      <4> QED BY SMTT(30), <3>2, <3>4, <3>5, <4>1
    <3> QED BY Zenon, <1>0, <2>1, <3>1, <3>4, <3>6, <3>7
  <2>2. CASE wpc' = "close"
    BY <1>7, <2>2, Zenon DEF Take, readerVars, clientVars
  <2> QED BY <1>7, <2>1, <2>2, Zenon DEF Take
<1>8. CASE Reply
  <2> DEFINE b == Append(obuf, cur)
  <2>1. wpc = "wait" /\ wpc' = "next" /\ UNCHANGED <<rpc, nread, quit, tasks>>
    BY <1>8, Zenon DEF Reply, readerVars
  <2>2. cur = Len(out) + Len(obuf) + 1 /\ Taken = Len(out) + Len(obuf) + 1
    BY <2>1, Zenon
  <2>3. cur \in Reqs
    BY <1>0, <2>1, <2>2 DEF TypeOK, Reqs
  <2>4. /\ b \in Seq(Reqs) /\ Len(b) = Len(obuf) + 1 /\ DOMAIN b = 1 .. Len(obuf) + 1
        /\ \A i \in 1 .. Len(obuf) : b[i] = obuf[i]
        /\ b[Len(obuf) + 1] = cur
    BY <1>0, <2>3, AppendProperties
  <2>5. \A i \in 1 .. Len(obuf) + 1 : b[i] = Len(out) + i
    <3>1. \A i \in 1 .. Len(obuf) : obuf[i] = Len(out) + i
      BY <1>0, <2>1, Zenon
    <3> HIDE DEF b
    <3>2. ASSUME NEW i \in 1 .. Len(obuf) + 1 PROVE b[i] = Len(out) + i
      <4>1. i \in 1 .. Len(obuf) \/ i = Len(obuf) + 1
        BY <1>0, <3>2
      <4>2. CASE i \in 1 .. Len(obuf)
        BY <2>4, <3>1, <4>2, Zenon
      <4>3. CASE i = Len(obuf) + 1
        <5>1. b[i] = Len(out) + Len(obuf) + 1
          BY <2>2, <2>4, <4>3, Zenon
        <5> QED BY <1>n, <4>3, <5>1
      <4> QED BY <4>1, <4>2, <4>3, Zenon
    <3> QED BY <3>2, Zenon
  <2> HIDE DEF b
  <2>6. CASE obuf' = b /\ UNCHANGED out
    <3>1. Taken' = Taken /\ Queued' = Queued
      <4>1. Taken' = Len(out) + (Len(obuf) + 1) + 0 /\ tasks' = tasks
        BY <2>1, <2>4, <2>6, Zenon
      <4>2. Taken' = Taken
        BY <1>n, <2>1, <4>1
      <4> HIDE DEF Taken
      <4> QED BY <4>1, <4>2, Zenon
    <3>2. Len(out') + Len(obuf') <= nread'
      BY <1>0, <2>1, <2>2, <2>4, <2>6
    <3>3. \A i \in DOMAIN obuf' : obuf'[i] = Len(out') + i
      BY <2>4, <2>5, <2>6, Zenon
    <3> QED BY <2>1, <2>6, <3>1, <3>2, <3>3, Zenon
  <2>7. CASE obuf' = <<>> /\ out' = out \o b
    <3>1. /\ out' \in Seq(Reqs) /\ Len(out') = Len(out) + Len(b)
          /\ \A i \in 1 .. Len(out) + Len(b) : out'[i] = IF i <= Len(out) THEN out[i] ELSE b[i - Len(out)]
      BY SMTT(30), <1>0, <2>4, <2>7, ConcatProperties
    <3>2. Len(obuf') = 0 /\ DOMAIN obuf' = {} /\ DOMAIN out' = 1 .. Len(out) + Len(obuf) + 1
      BY <1>0, <2>4, <2>7, <3>1
    <3>3. ASSUME NEW i \in DOMAIN out' PROVE out'[i] = i
      <4>1. i \in 1 .. Len(out) \/ i - Len(out) \in 1 .. Len(obuf) + 1
        BY <1>0, <3>2
      <4>2. CASE i \in 1 .. Len(out)
        BY <1>0, <2>4, <3>1, <4>2
      <4>3. CASE i - Len(out) \in 1 .. Len(obuf) + 1
        <5>1. out'[i] = b[i - Len(out)]
          BY <1>0, <2>4, <3>1, <3>2, <3>3, <4>3
        <5> QED BY <1>0, <2>5, <3>2, <3>3, <4>3, <5>1
      <4> QED BY <4>1, <4>2, <4>3, Zenon
    <3>4. Taken' = Taken /\ Queued' = Queued
      BY <1>0, <2>1, <2>2, <2>4, <3>1, <3>2
    <3> QED BY <1>0, <2>1, <2>2, <2>4, <3>1, <3>2, <3>3, <3>4
  <2> QED BY <1>8, <2>6, <2>7, Zenon DEF Reply, b
<1>9. CASE ReplyFailed
  BY <1>9, Zenon DEF ReplyFailed, readerVars, clientVars
<1>10. CASE CloseWriter
  BY <1>10, Zenon DEF CloseWriter, readerVars
<1>11. CASE Drain
  BY <1>11, Zenon DEF Drain, readerVars, clientVars
<1>12. ASSUME NEW n \in 1 .. MaxKeys, Read(n) PROVE OrderInv'
  <2>1. /\ rpc = "read" /\ rpc' = "dispatch" /\ nread' = nread + 1
        /\ UNCHANGED <<quit, tasks, wpc, cur, obuf, out>>
    BY <1>12, Zenon DEF Read, writerVars, clientVars
  <2>2. Taken' = Taken /\ Queued' = Queued /\ (Writing => nread = Queued)
    BY <2>1, Zenon
  <2>3. Len(out') + Len(obuf') <= nread'
    BY <1>n, <2>1
  <2>4. ASSUME Writing PROVE Queued' <= nread' /\ nread' = Queued' + 1
    BY <1>n, <2>1, <2>2, <2>4
  <2>5. ~quit
    BY <2>1, Zenon DEF QuitInv
  <2> QED BY <2>1, <2>3, <2>4, <2>5, Zenon
<1>13. ASSUME NEW b \in BOOLEAN, ReadLocal(b) PROVE OrderInv'
  <2>1. /\ rpc = "read" /\ rpc' = "queue" /\ nread' = nread + 1
        /\ UNCHANGED <<tasks, wpc, cur, obuf, out>>
    BY <1>13, Zenon DEF ReadLocal, writerVars, clientVars
  <2>2. Taken' = Taken /\ Queued' = Queued /\ (Writing => nread = Queued)
    BY <2>1, Zenon
  <2>3. Len(out') + Len(obuf') <= nread'
    BY <1>n, <2>1
  <2>4. ASSUME Writing PROVE Queued' <= nread' /\ nread' = Queued' + 1
    BY <1>n, <2>1, <2>2, <2>4
  <2> QED BY <2>1, <2>3, <2>4, Zenon
<1>14. CASE ReadRefused
  BY <1>14, <1>0 DEF ReadRefused, QuitInv, writerVars, clientVars
<1>15. CASE ClientCloses
  BY <1>15, Zenon DEF ClientCloses, readerVars, writerVars
<1>16. ASSUME NEW q \in Subs, Execute(q) \/ SetReply(q) \/ SetError(q) PROVE OrderInv'
  BY <1>16 DEF Execute, SetReply, SetError, readerVars, writerVars, clientVars
<1>17. CASE UNCHANGED vars
  BY <1>17, Zenon DEF vars, readerVars, writerVars, clientVars
<1> QED BY <1>1, <1>2, <1>3, <1>4, <1>5, <1>6, <1>7, <1>8, <1>9, <1>10, <1>11, <1>12, <1>13,
           <1>14, <1>15, <1>16, <1>17, Steps, Zenon

\* QUIT stays the last request.
LEMMA QuitStep ==
    ASSUME TypeOK, QuitInv, [Next]_vars
    PROVE  QuitInv'
<1>0. nread \in Nat
  BY BoundsAssumption DEF TypeOK
<1> USE DEF QuitInv
<1>1. CASE ReadFailed
  BY <1>1, Zenon DEF ReadFailed
<1>2. CASE Dispatch
  BY <1>2, Zenon DEF Dispatch
<1>3. CASE DispatchFailed
  BY <1>3, Zenon DEF DispatchFailed
<1>4. CASE Queue
  BY <1>4, Zenon DEF Queue
<1>5. CASE End
  BY <1>5, Zenon DEF End
<1>6. CASE Close
  BY <1>6, Zenon DEF Close
<1>7. CASE Take \/ Reply \/ ReplyFailed \/ CloseWriter \/ Drain \/ ClientCloses
  BY <1>7 DEF Take, Reply, ReplyFailed, CloseWriter, Drain, ClientCloses, readerVars
<1>8. ASSUME NEW n \in 1 .. MaxKeys, Read(n) PROVE QuitInv'
  BY <1>8, <1>0, Zenon DEF Read
<1>9. ASSUME NEW b \in BOOLEAN, ReadLocal(b) PROVE QuitInv'
  BY <1>9, <1>0 DEF ReadLocal
<1>10. CASE ReadRefused
  BY <1>10, <1>0, Zenon DEF ReadRefused
<1>11. ASSUME NEW q \in Subs, Execute(q) \/ SetReply(q) \/ SetError(q) PROVE QuitInv'
  BY <1>11 DEF Execute, SetReply, SetError, readerVars
<1>12. CASE UNCHANGED vars
  BY <1>12, Zenon DEF vars, readerVars
<1> QED BY <1>1, <1>2, <1>3, <1>4, <1>5, <1>6, <1>7, <1>8, <1>9, <1>10, <1>11, <1>12, Steps, Zenon

-----------------------------------------------------------------------------
\* The parts of a request are among the sub-requests of the session.
LEMMA SubsOfIn ==
    ASSUME TypeOK, NEW k \in Reqs
    PROVE  SubsOf(k) \subseteq Subs /\ \A j \in 1 .. nkeys[k] : <<k, j>> \in SubsOf(k)
<1>1. nkeys[k] \in 0 .. MaxKeys /\ MaxKeys \in Nat
  BY BoundsAssumption, Zenon DEF TypeOK
<1>2. 1 .. nkeys[k] \subseteq 1 .. MaxKeys
  BY SMTT(30), <1>1
<1> QED BY <1>2, Zenon DEF SubsOf, Subs

\* What happens to a sub-request: once pushed it stays so, once executed or failed too,
\* and what gets a reply has been executed.
LEMMA BackendStep ==
    ASSUME TypeOK, PushInv, [Next]_vars
    PROVE  \A q \in Subs :
              /\ state[q] # "new" => state'[q] # "new"
              /\ ran[q] = 1 => ran'[q] = 1
              /\ state[q] = "failed" => state'[q] = "failed"
              /\ state'[q] = "replied" => state[q] = "replied" \/ ran'[q] = 1
<1> DEFINE P(q) == /\ state[q] # "new" => state'[q] # "new"
                   /\ ran[q] = 1 => ran'[q] = 1
                   /\ state[q] = "failed" => state'[q] = "failed"
                   /\ state'[q] = "replied" => state[q] = "replied" \/ ran'[q] = 1
<1>1. state \in [Subs -> {"new", "pushed", "replied", "failed"}] /\ ran \in [Subs -> 0 .. 1]
  BY Zenon DEF TypeOK
<1>2. CASE UNCHANGED backendVars
  BY <1>2, Zenon DEF backendVars
<1>3. CASE Dispatch
  <2>1. Backend!Push(<<nread, key>>)
    BY <1>3, Zenon DEF Dispatch
  <2> QED BY <1>1, <2>1, Zenon DEF Backend!Push
<1>4. ASSUME NEW r \in Subs, Execute(r) \/ SetReply(r) \/ SetError(r) PROVE \A q \in Subs : P(q)
  <2>1. CASE Execute(r)
    BY <1>1, <2>1, Zenon DEF Execute, Backend!Run
  <2>2. CASE SetReply(r)
    BY <1>1, <2>2, Zenon DEF SetReply, Backend!Reply
  <2>3. CASE SetError(r)
    BY <1>1, <2>3, Zenon DEF SetError, Backend!Fail
  <2> QED BY <1>4, <2>1, <2>2, <2>3, Zenon
<1>5. \/ UNCHANGED backendVars \/ Dispatch
      \/ \E r \in Subs : Execute(r) \/ SetReply(r) \/ SetError(r)
  BY Zenon, Steps DEF ReadFailed, DispatchFailed, Queue, End, Close, Take, Reply, ReplyFailed,
        CloseWriter, Drain, Read, ReadLocal, ReadRefused, ClientCloses, vars
<1> QED BY <1>2, <1>3, <1>4, <1>5, Zenon

\* A request that has been pushed stays so, while it keeps its parts.
LEMMA PushedKept ==
    ASSUME TypeOK, PushInv, [Next]_vars, NEW k \in Reqs, nkeys'[k] = nkeys[k], Pushed(k)
    PROVE  Pushed(k)'
<1>1. SubsOf(k)' = SubsOf(k) /\ SubsOf(k) \subseteq Subs
  BY SubsOfIn, Zenon DEF SubsOf
<1> QED BY <1>1, BackendStep, Zenon DEF Pushed

\* The writer only moves what has been queued.
LEMMA QueuedKept ==
    ASSUME TypeOK, OrderInv, Take \/ Reply, Writing'
    PROVE  Writing /\ Queued' = Queued
<1>0. /\ Len(tasks) \in Nat /\ Len(obuf) \in Nat /\ Len(out) \in Nat
      /\ tasks \in Seq(Reqs) /\ obuf \in Seq(Reqs) /\ out \in Seq(Reqs)
  BY DEF TypeOK
<1>1. CASE Take
  <2>1. wpc = "next" /\ wpc' = "wait" /\ tasks # <<>> /\ tasks' = Tail(tasks) /\ UNCHANGED <<obuf, out>>
    BY <1>1, Zenon DEF Take, Writing, clientVars
  <2>2. Len(tasks') = Len(tasks) - 1
    BY <1>0, <2>1, HeadTailProperties, Zenon
  <2> QED BY <1>0, <2>1, <2>2 DEF Queued, Taken, Writing
<1>2. CASE Reply
  <2> DEFINE b == Append(obuf, cur)
  <2>1. wpc = "wait" /\ wpc' = "next" /\ tasks' = tasks
    BY <1>2, Zenon DEF Reply
  <2>2. cur \in Reqs
    <3>1. cur = Len(out) + Len(obuf) + 1
      BY <2>1, Zenon DEF OrderInv, Writing, Taken
    <3> QED BY <1>0, <3>1 DEF TypeOK, Reqs
  <2>3. b \in Seq(Reqs) /\ Len(b) = Len(obuf) + 1
    BY <1>0, <2>2, AppendProperties, Zenon
  <2> HIDE DEF b
  <2>4. Len(out') + Len(obuf') = Len(out) + Len(obuf) + 1
    <3>1. CASE obuf' = b /\ UNCHANGED out
      <4>1. Len(out') = Len(out) /\ Len(obuf') = Len(obuf) + 1
        BY <2>3, <3>1, Zenon
      <4> QED BY <1>0, <4>1
    <3>2. CASE obuf' = <<>> /\ out' = out \o b
      <4>1. Len(out') = Len(out) + Len(b) /\ Len(obuf') = 0
        BY Zenon, <1>0, <2>3, <3>2, ConcatProperties, EmptySeq
      <4> QED BY <1>0, <2>3, <4>1
    <3> QED BY <1>2, <3>1, <3>2, Zenon DEF Reply, b
  <2> QED BY SMTT(30), <1>0, <2>1, <2>4 DEF Queued, Taken, Writing
<1> QED BY <1>1, <1>2, Zenon

\* What is behind the reader stays pushed.
LEMMA PushStep ==
    ASSUME TypeOK, OrderInv, PushInv, [Next]_vars
    PROVE  PushInv'
<1>0. /\ nread \in 0 .. MaxReqs /\ MaxReqs \in Nat /\ MaxKeys \in Nat \ {0} /\ nkeys \in [Reqs -> 0 .. MaxKeys]
      /\ Len(tasks) \in Nat /\ Len(obuf) \in Nat /\ Len(out) \in Nat /\ tasks \in Seq(Reqs)
      /\ Taken \in Nat /\ Queued \in Nat /\ key \in 1 .. MaxKeys
  BY BoundsAssumption DEF TypeOK, Taken, Queued
<1>1. ASSUME nkeys' = nkeys PROVE \A k \in Reqs : Pushed(k) => Pushed(k)'
  BY <1>1, PushedKept, Zenon
\* Steps that read no request, dispatch nothing and queue nothing.
<1>2. ASSUME nread' = nread, nkeys' = nkeys, Writing' => Writing /\ Queued' = Queued,
             rpc' \in {"read", "end", "close", "done"} \/ (rpc' = rpc /\ key' = key)
      PROVE  PushInv'
  <2>1. \A k \in Reqs : Pushed(k) => Pushed(k)'
    BY <1>1, <1>2, Zenon
  <2>2. \A k \in Reqs : k > nread' => nkeys'[k] = 0
    BY <1>2, Zenon DEF PushInv
  <2>3. Writing' => \A k \in Reqs : k <= Queued' => Pushed(k)'
    BY <1>2, <2>1, Zenon DEF PushInv
  <2>4. rpc' = "queue" => nread' > 0 /\ Pushed(nread)'
    <3>1. SUFFICES ASSUME rpc' = "queue" PROVE nread' > 0 /\ Pushed(nread)'
      BY Zenon
    <3>2. nread > 0 /\ Pushed(nread)
      BY <1>2, <3>1, Zenon DEF PushInv
    <3>3. nread \in Reqs /\ nread' \in Reqs
      BY <1>0, <1>2, <3>2 DEF Reqs
    <3>4. SubsOf(nread)' = SubsOf(nread) /\ SubsOf(nread) \subseteq Subs
      BY <1>2, <3>3, SubsOfIn, Zenon DEF SubsOf
    <3> QED BY <1>2, <3>2, <3>4, BackendStep, Zenon DEF Pushed
  <2>5. rpc' = "dispatch" => nread' > 0 /\ key' <= nkeys'[nread']
                             /\ \A j \in 1 .. key' - 1 : state'[<<nread', j>>] # "new"
    <3>1. SUFFICES ASSUME rpc' = "dispatch"
                   PROVE  nread' > 0 /\ key' <= nkeys'[nread']
                             /\ \A j \in 1 .. key' - 1 : state'[<<nread', j>>] # "new"
      BY Zenon
    <3>2. rpc = "dispatch" /\ key' = key
      BY <1>2, <3>1, Zenon
    <3>3. nread > 0 /\ key <= nkeys[nread] /\ \A j \in 1 .. key - 1 : state[<<nread, j>>] # "new"
      BY <3>2, Zenon DEF PushInv
    <3>4. nread \in Reqs
      BY <1>0, <3>3 DEF Reqs
    <3>5. \A j \in 1 .. key - 1 : <<nread, j>> \in Subs
      BY <1>0, <3>4 DEF Subs
    <3> QED BY <1>2, <3>2, <3>3, <3>5, BackendStep, Zenon
  <2> QED BY <2>2, <2>3, <2>4, <2>5, Zenon DEF PushInv
<1>3. CASE Dispatch
  <2>1. /\ rpc = "dispatch" /\ Backend!Push(<<nread, key>>)
        /\ UNCHANGED <<nread, nkeys, tasks, wpc, cur, obuf, out>>
    BY <1>3, Zenon DEF Dispatch, writerVars, clientVars
  <2>2. nread \in Reqs /\ key <= nkeys[nread] /\ \A j \in 1 .. key - 1 : state[<<nread, j>>] # "new"
    BY <1>0, <2>1 DEF PushInv, Reqs
  <2>3. \A j \in 1 .. key : state'[<<nread, j>>] # "new" /\ <<nread, j>> \in Subs
    <3>1. \A j \in 1 .. key : <<nread, j>> \in Subs
      BY <1>0, <2>2 DEF Subs
    <3>2. state'[<<nread, key>>] = "pushed"
      BY <1>0, <2>1, <3>1 DEF Backend!Push, TypeOK
    <3>3. \A j \in 1 .. key - 1 : state'[<<nread, j>>] # "new"
      BY <1>0, <2>2, <3>1, BackendStep
    <3>4. \A j \in 1 .. key : j \in 1 .. key - 1 \/ j = key
      BY <1>0
    <3> QED BY <3>1, <3>2, <3>3, <3>4, Zenon
  <2>4. \A k \in Reqs : Pushed(k) => Pushed(k)'
    BY <1>1, <2>1, Zenon
  <2>5. Writing' => \A k \in Reqs : k <= Queued' => Pushed(k)'
    BY <2>1, <2>4, Zenon DEF PushInv, Writing, Queued, Taken
  <2>6. CASE key < nkeys[nread] /\ key' = key + 1 /\ UNCHANGED rpc
    <3>1. \A j \in 1 .. key' - 1 : j \in 1 .. key
      BY <1>0, <2>6
    <3>2. nkeys[nread] \in Nat /\ key' <= nkeys[nread]
      BY <1>0, <2>2, <2>6
    <3> QED BY <1>0, <2>1, <2>2, <2>3, <2>5, <2>6, <3>1, <3>2, Zenon DEF PushInv, Reqs
  <2>7. CASE ~(key < nkeys[nread]) /\ rpc' = "queue" /\ UNCHANGED key
    <3>1. nkeys[nread] = key
      BY <1>0, <2>2, <2>7
    <3>2. Pushed(nread)'
      BY <2>1, <2>3, <3>1 DEF Pushed, SubsOf
    <3> QED BY <1>0, <2>1, <2>2, <2>5, <2>7, <3>2, Zenon DEF PushInv, Reqs
  <2> QED BY <1>3, <2>6, <2>7, Zenon DEF Dispatch
<1>4. CASE Queue
  <2>1. /\ rpc = "queue" /\ tasks' = Append(tasks, nread) /\ rpc' \in {"read", "end"}
        /\ UNCHANGED <<wpc, cur, obuf, out, nread, nkeys>>
    BY <1>4, Zenon DEF Queue, writerVars, clientVars
  <2>2. nread \in Reqs /\ Pushed(nread)
    BY <1>0, <2>1 DEF PushInv, Reqs
  <2>3. Len(tasks') = Len(tasks) + 1
    BY <1>0, <2>1, <2>2, AppendProperties, Zenon
  <2>4. \A k \in Reqs : Pushed(k) => Pushed(k)'
    BY <1>1, <2>1, Zenon
  <2>5. ASSUME Writing', NEW k \in Reqs, k <= Queued' PROVE Pushed(k)'
    <3>1. Writing /\ Queued' = Queued + 1 /\ nread = Queued + 1
      BY <1>0, <2>1, <2>3, <2>5 DEF OrderInv, Writing, Queued, Taken
    <3>2. k <= Queued \/ k = nread
      BY <1>0, <2>5, <3>1 DEF Reqs
    <3> QED BY <2>2, <2>4, <3>1, <3>2, Zenon DEF PushInv
  <2> QED BY <2>1, <2>5, Zenon DEF PushInv
<1>5. ASSUME NEW n \in 1 .. MaxKeys, Read(n) PROVE PushInv'
  <2>1. /\ rpc = "read" /\ rpc' = "dispatch" /\ nread' = nread + 1 /\ key' = 1 /\ nread < MaxReqs
        /\ nkeys' = [nkeys EXCEPT ![nread + 1] = n]
        /\ UNCHANGED <<tasks, wpc, cur, obuf, out>>
    BY <1>5, Zenon DEF Read, writerVars, clientVars
  <2>2. /\ nread + 1 \in Reqs /\ nkeys'[nread + 1] = n
        /\ \A k \in Reqs : k # nread + 1 => nkeys'[k] = nkeys[k]
    BY <1>0, <2>1 DEF Reqs
  <2>3. \A k \in Reqs : k > nread' => nkeys'[k] = 0
    BY <1>0, <2>1, <2>2 DEF PushInv, Reqs
  <2>4. ASSUME Writing', NEW k \in Reqs, k <= Queued' PROVE Pushed(k)'
    <3>1. Writing /\ Queued' = Queued /\ nread = Queued
      BY <2>1, <2>4, Zenon DEF OrderInv, Writing, Queued, Taken
    <3>2. Pushed(k) /\ k # nread + 1
      BY <1>0, <2>4, <3>1 DEF PushInv, Reqs
    <3> QED BY <2>2, <3>2, PushedKept, Zenon
  <2>5. nread' > 0 /\ key' <= nkeys'[nread'] /\ \A j \in 1 .. key' - 1 : FALSE
    BY <1>0, <2>1, <2>2
  <2> QED BY <2>1, <2>3, <2>4, <2>5, Zenon DEF PushInv
<1>6. ASSUME NEW b \in BOOLEAN, ReadLocal(b) PROVE PushInv'
  <2>1. /\ rpc = "read" /\ rpc' = "queue" /\ nread' = nread + 1 /\ nread < MaxReqs
        /\ UNCHANGED <<tasks, wpc, cur, obuf, out, nkeys>>
    BY <1>6, Zenon DEF ReadLocal, writerVars, clientVars
  <2>2. nread + 1 \in Reqs /\ nkeys'[nread + 1] = 0
    BY <1>0, <2>1 DEF PushInv, Reqs
  <2>3. \A k \in Reqs : k > nread' => nkeys'[k] = 0
    BY <1>0, <2>1 DEF PushInv, Reqs
  <2>4. Writing' => \A k \in Reqs : k <= Queued' => Pushed(k)'
    <3>1. \A k \in Reqs : Pushed(k) => Pushed(k)'
      BY <1>1, <2>1, Zenon
    <3> QED BY <2>1, <3>1, Zenon DEF PushInv, Writing, Queued, Taken
  <2>5. nread' > 0
    BY <1>0, <2>1
  <2>6. Pushed(nread)'
    BY <2>1, <2>2 DEF Pushed, SubsOf
  <2> QED BY <2>1, <2>3, <2>4, <2>5, <2>6, Zenon DEF PushInv
<1>7. CASE ReadRefused
  <2>1. /\ rpc' = "end" /\ nread' = nread + 1 /\ UNCHANGED <<tasks, wpc, cur, obuf, out, nkeys>>
    BY <1>7, Zenon DEF ReadRefused, writerVars, clientVars
  <2>2. \A k \in Reqs : k > nread' => nkeys'[k] = 0
    BY <1>0, <2>1 DEF PushInv, Reqs
  <2>3. Writing' => \A k \in Reqs : k <= Queued' => Pushed(k)'
    <3>1. \A k \in Reqs : Pushed(k) => Pushed(k)'
      BY <1>1, <2>1, Zenon
    <3> QED BY <2>1, <3>1, Zenon DEF PushInv, Writing, Queued, Taken
  <2> QED BY <2>1, <2>2, <2>3, Zenon DEF PushInv
<1>8. CASE ReadFailed \/ DispatchFailed \/ End \/ Close
  <2>1. /\ nread' = nread /\ nkeys' = nkeys /\ rpc' \in {"end", "close", "done"}
        /\ UNCHANGED <<tasks, wpc, obuf, out>>
    BY <1>8, Zenon DEF ReadFailed, DispatchFailed, End, Close, writerVars, clientVars
  <2>2. Writing' => Writing /\ Queued' = Queued
    BY <2>1, Zenon DEF Writing, Queued, Taken
  <2> QED BY <1>2, <2>1, <2>2, Zenon
<1>9. CASE Take \/ Reply
  <2>1. nread' = nread /\ nkeys' = nkeys /\ rpc' = rpc /\ key' = key
    BY <1>9, Zenon DEF Take, Reply, readerVars
  <2> QED BY <1>2, <1>9, <2>1, QueuedKept, Zenon
<1>10. CASE ReplyFailed \/ CloseWriter \/ Drain
  <2>1. nread' = nread /\ nkeys' = nkeys /\ rpc' = rpc /\ key' = key /\ ~Writing'
    BY <1>10, Zenon DEF ReplyFailed, CloseWriter, Drain, readerVars, Writing
  <2> QED BY <1>2, <2>1, Zenon
<1>11. ASSUME UNCHANGED <<readerVars, tasks, writerVars, out>> PROVE PushInv'
  <2>1. nread' = nread /\ nkeys' = nkeys /\ rpc' = rpc /\ key' = key /\ UNCHANGED <<tasks, wpc, obuf, out>>
    BY <1>11, Zenon DEF readerVars, writerVars
  <2>2. Writing' => Writing /\ Queued' = Queued
    BY <2>1, Zenon DEF Writing, Queued, Taken
  <2> QED BY <1>2, <2>1, <2>2, Zenon
<1>12. \/ UNCHANGED <<readerVars, tasks, writerVars, out>>
       \/ Dispatch \/ Queue \/ ReadRefused \/ (\E n \in 1 .. MaxKeys : Read(n))
       \/ (\E b \in BOOLEAN : ReadLocal(b)) \/ ReadFailed \/ DispatchFailed \/ End \/ Close
       \/ Take \/ Reply \/ ReplyFailed \/ CloseWriter \/ Drain
  BY Zenon, Steps DEF ClientCloses, Execute, SetReply, SetError, vars, clientVars
<1> QED BY <1>3, <1>4, <1>5, <1>6, <1>7, <1>8, <1>9, <1>10, <1>11, <1>12, Zenon

\* A reply is encoded only when the whole request has been executed.
LEMMA RunStep ==
    ASSUME TypeOK, OrderInv, PushInv, RunInv, [Next]_vars
    PROVE  RunInv'
<1>0. /\ nread \in 0 .. MaxReqs /\ MaxReqs \in Nat /\ nkeys \in [Reqs -> 0 .. MaxKeys]
      /\ Len(obuf) \in Nat /\ Len(out) \in Nat
      /\ Len(out) + Len(obuf) <= nread
  BY BoundsAssumption DEF TypeOK, OrderInv
<1>1. \A q \in Subs : state'[q] = "replied" => ran'[q] = 1
  BY BackendStep, Zenon DEF RunInv
<1>2. \A q \in Subs : ran[q] = 1 => ran'[q] = 1
  BY BackendStep, Zenon
\* The parts of the requests answered are those they were.
<1>3. ASSUME \A k \in Reqs : k <= nread => nkeys'[k] = nkeys[k],
             Len(out') + Len(obuf') = Len(out) + Len(obuf)
      PROVE  RunInv'
  <2>1. ASSUME NEW k \in Reqs, k <= Len(out') + Len(obuf'), NEW q \in SubsOf(k)' PROVE ran'[q] = 1
    <3>1. k <= Len(out) + Len(obuf) /\ nkeys'[k] = nkeys[k]
      BY <1>0, <1>3, <2>1 DEF Reqs
    <3>2. q \in SubsOf(k) /\ q \in Subs
      BY <2>1, <3>1, SubsOfIn, Zenon DEF SubsOf
    <3> QED BY <1>2, <3>1, <3>2, Zenon DEF RunInv
  <2> QED BY <1>1, <2>1, Zenon DEF RunInv
<1>4. CASE Reply
  <2>1. /\ wpc = "wait" /\ Good(cur) /\ nkeys' = nkeys /\ wpc' = "next" /\ tasks' = tasks
    BY <1>4, Zenon DEF Reply, readerVars
  <2>2. cur = Len(out) + Len(obuf) + 1 /\ Writing /\ Writing'
    BY <2>1, Zenon DEF OrderInv, Writing, Taken
  <2>3. Queued' = Queued
    BY <1>4, <2>2, QueuedKept, Zenon
  <2>4. Len(out') + Len(obuf') = cur
    <3>1. Len(tasks) \in Nat /\ Len(out') \in Nat /\ Len(obuf') \in Nat
      BY TypeStep DEF TypeOK
    <3> QED BY <1>0, <2>1, <2>2, <2>3, <3>1 DEF Queued, Taken
  <2>5. cur \in Reqs
    BY <1>0, <2>2 DEF TypeOK, Reqs
  <2>6. ASSUME NEW k \in Reqs, k <= Len(out') + Len(obuf'), NEW q \in SubsOf(k)' PROVE ran'[q] = 1
    <3>1. q \in SubsOf(k) /\ q \in Subs
      BY <2>1, <2>6, SubsOfIn, Zenon DEF SubsOf
    <3>2. k <= Len(out) + Len(obuf) \/ k = cur
      BY <1>0, <2>2, <2>4, <2>6 DEF Reqs
    <3>3. CASE k <= Len(out) + Len(obuf)
      BY <1>2, <3>1, <3>3, Zenon DEF RunInv
    <3>4. CASE k = cur
      BY <1>2, <2>1, <3>1, <3>4, Zenon DEF Good, RunInv
    <3> QED BY <3>2, <3>3, <3>4, Zenon
  <2> QED BY <1>1, <2>6, Zenon DEF RunInv
<1>5. ASSUME NEW n \in 1 .. MaxKeys, Read(n) PROVE RunInv'
  <2>1. nkeys' = [nkeys EXCEPT ![nread + 1] = n] /\ UNCHANGED <<obuf, out>>
    BY <1>5, Zenon DEF Read, writerVars, clientVars
  <2>2. \A k \in Reqs : k <= nread => nkeys'[k] = nkeys[k]
    BY <1>0, <2>1 DEF Reqs
  <2> QED BY <1>3, <2>1, <2>2, Zenon
<1>6. ASSUME UNCHANGED <<nkeys, obuf, out>> PROVE RunInv'
  BY <1>3, <1>6, Zenon
<1>7. \/ UNCHANGED <<nkeys, obuf, out>> \/ Reply \/ (\E n \in 1 .. MaxKeys : Read(n))
  BY Zenon, Steps DEF ReadFailed, Dispatch, DispatchFailed, Queue, End, Close, Take, ReplyFailed,
        CloseWriter, Drain, ReadLocal, ReadRefused, ClientCloses, Execute, SetReply, SetError,
        vars, readerVars, writerVars, clientVars
<1> QED BY <1>4, <1>5, <1>6, <1>7, Zenon

\* What excuses the writer stays so.
LEMMA ExcusedKept ==
    ASSUME TypeOK, PushInv, Excused, [Next]_vars
    PROVE  Excused'
<1>1. CASE gone
  <2>1. gone'
    BY Zenon, <1>1, Steps DEF ReadFailed, Dispatch, DispatchFailed, Queue, End, Close, Take, Reply, ReplyFailed,
        CloseWriter, Drain, Read, ReadLocal, ReadRefused, ClientCloses, Execute, SetReply, SetError,
        vars, clientVars
  <2> QED BY <2>1, Zenon DEF Excused
<1>2. CASE rpc = "done"
  <2>1. rpc' = "done"
    BY Zenon, <1>2, Steps DEF ReadFailed, Dispatch, DispatchFailed, Queue, End, Close, Take, Reply, ReplyFailed,
        CloseWriter, Drain, Read, ReadLocal, ReadRefused, ClientCloses, Execute, SetReply, SetError,
        vars, readerVars
  <2> QED BY Zenon, <2>1 DEF Excused
<1>3. ASSUME NEW q \in Subs, state[q] = "failed" PROVE Excused'
  BY <1>3, BackendStep, Zenon DEF Excused
<1>4. ASSUME NEW k \in Reqs, nkeys[k] > 1 PROVE Excused'
  <2>1. ASSUME NEW n \in 1 .. MaxKeys, Read(n) PROVE nkeys'[k] = nkeys[k]
    <3>1. nkeys' = [nkeys EXCEPT ![nread + 1] = n]
      BY <2>1, Zenon DEF Read
    <3>2. nread \in Nat /\ nkeys \in [Reqs -> 0 .. MaxKeys] /\ (k > nread => nkeys[k] = 0)
      BY SMTT(30), BoundsAssumption DEF TypeOK, PushInv
    <3> QED BY <1>4, <3>1, <3>2 DEF Reqs
  <2>2. nkeys' = nkeys \/ \E n \in 1 .. MaxKeys : Read(n)
    BY Zenon, Steps DEF ReadFailed, Dispatch, DispatchFailed, Queue, End, Close, Take, Reply, ReplyFailed,
        CloseWriter, Drain, ReadLocal, ReadRefused, ClientCloses, Execute, SetReply, SetError,
        vars, readerVars
  <2> QED BY <1>4, <2>1, <2>2, Zenon DEF Excused
<1> QED BY <1>1, <1>2, <1>3, <1>4, Zenon DEF Excused

\* The writer gives up only for a reason.
LEMMA GivesUp ==
    ASSUME TypeOK, OrderInv, PushInv, CloseInv, ReplyFailed
    PROVE  Excused
<1>1. wpc = "wait" /\ Answered(cur) /\ (~Good(cur) \/ ~up \/ nkeys[cur] > 1)
  BY Zenon DEF ReplyFailed
<1>2. cur = Taken /\ Writing /\ Taken = Len(out) + Len(obuf) + 1
  BY <1>1, Zenon DEF OrderInv, Writing, Taken
<1>3. cur \in Reqs /\ cur <= Queued
  <2>1. cur \in 0 .. MaxReqs /\ MaxReqs \in Nat /\ Len(out) \in Nat /\ Len(obuf) \in Nat /\ Len(tasks) \in Nat
    BY BoundsAssumption DEF TypeOK
  <2> HIDE DEF Taken
  <2> QED BY <1>2, <2>1 DEF Queued, Reqs
<1>4. Pushed(cur)
  BY <1>2, <1>3, Zenon DEF PushInv
<1>5. CASE ~Good(cur)
  <2>1. PICK q \in SubsOf(cur) : state[q] # "replied"
    BY <1>5, Zenon DEF Good
  <2>2. q \in Subs /\ state[q] # "new" /\ state[q] # "pushed"
    BY <1>1, <1>3, <1>4, SubsOfIn, Zenon DEF Answered, Pushed
  <2>3. state[q] \in {"new", "pushed", "replied", "failed"}
    BY <2>2, Zenon DEF TypeOK
  <2> QED BY <2>1, <2>2, <2>3, Zenon DEF Excused
<1>6. CASE ~up
  BY <1>1, <1>6, Zenon DEF CloseInv, Excused
<1>7. CASE nkeys[cur] > 1
  BY <1>3, <1>7, Zenon DEF Excused
<1> QED BY <1>1, <1>5, <1>6, <1>7, Zenon

\* Why the socket has been closed, and what the writer has done by then.
LEMMA CloseStep ==
    ASSUME TypeOK, OrderInv, QuitInv, PushInv, CloseInv, [Next]_vars
    PROVE  CloseInv'
<1>1. ~up' => gone' \/ rpc' = "done" \/ wpc' \in {"drain", "done"}
  <2>1. CASE ClientCloses \/ Close \/ CloseWriter
    BY <2>1, Zenon DEF ClientCloses, Close, CloseWriter
  <2>2. CASE UNCHANGED up
    <3>1. gone => gone'
      BY Zenon, Steps DEF ReadFailed, Dispatch, DispatchFailed, Queue, End, Close, Take, Reply, ReplyFailed,
          CloseWriter, Drain, Read, ReadLocal, ReadRefused, ClientCloses, Execute, SetReply, SetError,
          vars, clientVars
    <3>2. rpc = "done" => rpc' = "done"
      BY Zenon, Steps DEF ReadFailed, Dispatch, DispatchFailed, Queue, End, Close, Take, Reply, ReplyFailed,
          CloseWriter, Drain, Read, ReadLocal, ReadRefused, ClientCloses, Execute, SetReply, SetError,
          vars, readerVars
    <3>3. wpc \in {"drain", "done"} => wpc' \in {"drain", "done"}
      BY Zenon, Steps DEF ReadFailed, Dispatch, DispatchFailed, Queue, End, Close, Take, Reply, ReplyFailed,
          CloseWriter, Drain, Read, ReadLocal, ReadRefused, ClientCloses, Execute, SetReply, SetError,
          vars, writerVars
    <3> QED BY <2>2, <3>1, <3>2, <3>3, Zenon DEF CloseInv
  <2>3. ClientCloses \/ Close \/ CloseWriter \/ UNCHANGED up
    BY Zenon, Steps DEF ReadFailed, Dispatch, DispatchFailed, Queue, End, Take, Reply, ReplyFailed,
        Drain, Read, ReadLocal, ReadRefused, Execute, SetReply, SetError, vars, clientVars
  <2> QED BY <2>1, <2>2, <2>3, Zenon
<1>2. wpc' = "next" /\ obuf' # <<>> => tasks' # <<>>
  <2>1. CASE Reply
    BY <2>1, Zenon DEF Reply
  <2>2. CASE Queue
    <3>1. nread \in Reqs /\ tasks \in Seq(Reqs) /\ tasks' = Append(tasks, nread)
      BY <2>2, BoundsAssumption DEF Queue, TypeOK, PushInv, Reqs
    <3>2. tasks' # <<>>
      BY <3>1, AppendProperties, Zenon
    <3> QED BY <3>2, Zenon
  <2>3. CASE wpc' # "next"
    BY <2>3, Zenon
  <2>4. CASE UNCHANGED <<wpc, obuf, tasks>>
    BY <2>4, Zenon DEF CloseInv
  <2>5. Reply \/ Queue \/ wpc' # "next" \/ UNCHANGED <<wpc, obuf, tasks>>
    <3>1. CASE Take
      BY <3>1, Zenon DEF Take
    <3>2. CASE Drain
      BY <3>2, Zenon DEF Drain
    <3>3. CASE CloseWriter
      BY <3>3, Zenon DEF CloseWriter
    <3>4. CASE ReplyFailed
      BY <3>4, Zenon DEF ReplyFailed
    <3>5. Take \/ Drain \/ CloseWriter \/ ReplyFailed \/ Reply \/ Queue \/ UNCHANGED <<wpc, obuf, tasks>>
      BY Zenon, Steps DEF ReadFailed, Dispatch, DispatchFailed, End, Close, Read, ReadLocal, ReadRefused,
          ClientCloses, Execute, SetReply, SetError, vars, writerVars
    <3> QED BY <3>1, <3>2, <3>3, <3>4, <3>5, Zenon
  <2> QED BY <2>1, <2>2, <2>3, <2>4, <2>5, Zenon
<1>3. ~Writing' => Excused' \/ (ended' /\ (quit' => nread' = Len(out')))
  <2>1. CASE Take
    <3>1. CASE tasks = <<>> /\ ended
      <4>1. wpc = "next" /\ UNCHANGED <<ended, quit, nread, out>>
        BY <2>1, Zenon DEF Take, readerVars, clientVars
      <4>2. obuf = <<>> /\ rpc \in {"close", "done"} /\ Writing
        BY <3>1, <4>1, Zenon DEF CloseInv, QuitInv, Writing
      <4>3. quit => nread = Queued
        BY <4>2, Zenon DEF OrderInv
      <4>4. Queued = Len(out)
        BY <3>1, <4>1, <4>2 DEF Queued, Taken, TypeOK
      <4> QED BY <3>1, <4>1, <4>3, <4>4, Zenon
    <3>2. CASE wpc' = "wait"
      BY <3>2, Zenon DEF Writing
    <3> QED BY <2>1, <3>1, <3>2, Zenon DEF Take
  <2>2. CASE ReplyFailed
    BY <2>2, GivesUp, ExcusedKept, Zenon
  <2>3. CASE Writing /\ UNCHANGED wpc
    BY <2>3, Zenon DEF Writing
  <2>4. CASE Reply
    BY <2>4, Zenon DEF Reply, Writing
  <2>5. CASE ~Writing
    <3>1. CASE Excused
      BY <3>1, ExcusedKept, Zenon
    <3>2. CASE ended /\ (quit => nread = Len(out))
      <4>1. rpc \in {"close", "done"} /\ wpc # "wait"
        BY Zenon, <2>5, <3>2 DEF QuitInv, Writing
      <4>2. UNCHANGED <<quit, nread>> /\ ended'
        BY Zenon, <3>2, <4>1, Steps DEF ReadFailed, Dispatch, DispatchFailed, Queue, End, Close, Take, Reply, ReplyFailed,
          CloseWriter, Drain, Read, ReadLocal, ReadRefused, ClientCloses, Execute, SetReply, SetError,
          vars, readerVars
      <4>3. UNCHANGED out
        BY Zenon, <4>1, Steps DEF ReadFailed, Dispatch, DispatchFailed, Queue, End, Close, Take, Reply, ReplyFailed,
          CloseWriter, Drain, Read, ReadLocal, ReadRefused, ClientCloses, Execute, SetReply, SetError,
          vars, clientVars
      <4> QED BY <3>2, <4>2, <4>3, Zenon
    <3> QED BY <2>5, <3>1, <3>2, Zenon DEF CloseInv
  <2>6. Take \/ ReplyFailed \/ Reply \/ CloseWriter \/ Drain \/ UNCHANGED wpc
    BY Zenon, Steps DEF ReadFailed, Dispatch, DispatchFailed, Queue, End, Close, Read, ReadLocal, ReadRefused,
        ClientCloses, Execute, SetReply, SetError, vars, writerVars
  <2>7. CloseWriter \/ Drain => ~Writing
    BY Zenon DEF CloseWriter, Drain, Writing
  <2> QED BY <2>1, <2>2, <2>3, <2>4, <2>5, <2>6, <2>7, Zenon
<1> QED BY <1>1, <1>2, <1>3, Zenon DEF CloseInv

LEMMA SessionInit == Init => SessionInv
<1> SUFFICES ASSUME Init PROVE SessionInv
  BY Zenon
<1>1. /\ rpc = "read" /\ nread = 0 /\ nkeys = [k \in Reqs |-> 0] /\ key = 1 /\ quit = FALSE
      /\ tasks = <<>> /\ ended = FALSE
      /\ wpc = "next" /\ cur = 0 /\ obuf = <<>>
      /\ up = TRUE /\ gone = FALSE /\ out = <<>>
      /\ state = [q \in Subs |-> "new"] /\ ran = [q \in Subs |-> 0]
  BY Zenon DEF Init, Backend!Init
<1>2. MaxReqs \in Nat /\ MaxBuffered \in Nat /\ MaxKeys \in Nat \ {0} /\ MaxPipeline \in Nat \ {0}
  BY BoundsAssumption, Zenon
<1>3. TypeOK
  <2>1. /\ nkeys \in [Reqs -> 0 .. MaxKeys] /\ nread \in 0 .. MaxReqs /\ cur \in 0 .. MaxReqs
        /\ key \in 1 .. MaxKeys /\ 0 <= MaxPipeline /\ 0 <= MaxBuffered
    BY <1>1, <1>2
  <2>2. /\ state \in [Subs -> {"new", "pushed", "replied", "failed"}]
        /\ ran \in [Subs -> 0 .. 1]
    BY <1>1
  <2>3. /\ tasks \in Seq(Reqs) /\ obuf \in Seq(Reqs) /\ out \in Seq(Reqs)
        /\ Len(tasks) = 0 /\ Len(obuf) = 0
    BY <1>1
  <2> QED BY <1>1, <2>1, <2>2, <2>3, Zenon DEF TypeOK
<1>4. OrderInv /\ QuitInv
  BY <1>1, <1>2 DEF OrderInv, QuitInv, Writing, Queued, Taken
<1>5. PushInv
  BY <1>1, <1>2 DEF PushInv, Pushed, SubsOf, Writing, Queued, Taken, Reqs
<1>6. RunInv
  BY <1>1, <1>2 DEF RunInv, SubsOf, Reqs
<1>7. CloseInv
  BY <1>1, Zenon DEF CloseInv, Writing
<1> QED BY <1>3, <1>4, <1>5, <1>6, <1>7, Zenon DEF SessionInv

LEMMA SessionStep ==
    ASSUME SessionInv, [Next]_vars
    PROVE  SessionInv'
BY TypeStep, OrderStep, QuitStep, PushStep, RunStep, CloseStep, Zenon DEF SessionInv

\* The inductive invariant of the session: the reader, the queue and the writer share
\* out the requests in order (loopReader, loopWriter).
THEOREM SessionAlways == Spec => []SessionInv
<1>1. Init => SessionInv
  BY SessionInit, Zenon
<1>2. SessionInv /\ [Next]_vars => SessionInv'
  BY SessionStep, Zenon
<1> QED BY <1>1, <1>2, PTL DEF Spec

\* The replies that loopWriter sends come in the order in which loopReader has read the
\* requests, none left out, each one for a request that redis has executed in all its
\* parts: for any number of requests and of keys in them.
THEOREM RepliesOrdered == Spec => []RepliesInOrder
<1>1. SessionInv => RepliesInOrder
  <2> SUFFICES ASSUME SessionInv, NEW i \in DOMAIN out, NEW q \in SubsOf(i)
               PROVE  out[i] = i /\ ran[q] = 1
    BY Zenon DEF SessionInv, OrderInv, RepliesInOrder
  <2>1. out[i] = i
    BY Zenon DEF SessionInv, OrderInv
  <2>2. /\ Len(out) \in Nat /\ Len(obuf) \in Nat /\ MaxReqs \in Nat /\ nread \in 0 .. MaxReqs
        /\ Len(out) + Len(obuf) <= nread /\ DOMAIN out = 1 .. Len(out)
    BY SMTT(30), BoundsAssumption DEF SessionInv, TypeOK, OrderInv
  <2>3. i \in Reqs /\ i <= Len(out) + Len(obuf)
    BY <2>2 DEF Reqs
  <2> QED BY Zenon, <2>1, <2>3 DEF SessionInv, RunInv
<1> QED BY <1>1, SessionAlways, PTL

\* After QUIT the connection is closed with a reply missing only when the reader's
\* deferred Close, the client or a failed request has closed it (Serve, loopWriter).
THEOREM QuitAnswered == Spec => []QuitLostByReader
<1>1. SessionInv => QuitLostByReader
  <2> SUFFICES ASSUME SessionInv, quit, ~up, ~gone, rpc # "done",
                      \A q \in Subs : state[q] # "failed", \A k \in Reqs : nkeys[k] <= 1
               PROVE  nread \in Range(out)
    BY Zenon DEF QuitLostByReader
  <2>1. ~Writing
    BY Zenon DEF SessionInv, CloseInv, Writing
  <2>2. \A k \in Reqs : ~(nkeys[k] > 1)
    <3>1. \A k \in Reqs : nkeys[k] \in 0 .. MaxKeys /\ MaxKeys \in Nat
      BY BoundsAssumption, Zenon DEF SessionInv, TypeOK
    <3> QED BY <3>1
  <2>3. nread = Len(out)
    BY <2>1, <2>2, Zenon DEF SessionInv, CloseInv, Excused
  <2>4. nread > 0 /\ nread \in Nat
    BY BoundsAssumption DEF SessionInv, QuitInv, TypeOK
  <2>5. nread \in DOMAIN out /\ out[nread] = nread
    BY <2>3, <2>4 DEF SessionInv, OrderInv, TypeOK
  <2> QED BY <2>5, Zenon DEF Range
<1> QED BY <1>1, SessionAlways, PTL
=============================================================================
