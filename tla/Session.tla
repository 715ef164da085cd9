------------------------------- MODULE Session -------------------------------
(***************************************************************************)
(* The session of one redis client (pkg/proxy/router/session.go): one      *)
(* goroutine reads requests, splits MGET, MSET and DEL into one request    *)
(* per key, dispatches them and queues the request; another takes the      *)
(* requests from the queue, waits for their answers and writes the replies *)
(* to the client.  The backend connections are what RequestService says.   *)
(***************************************************************************)
EXTENDS Integers, Sequences, FiniteSets, Functions

CONSTANTS
    MaxReqs,        \* bound: requests of the client
    MaxKeys,        \* bound: keys of a request
    MaxSubs,        \* bound: sub-requests of all requests
    MaxPipeline,    \* capacity of tasks
    MaxBuffered     \* FlushPolicy.MaxBuffered

ASSUME BoundsAssumption ==
    {MaxReqs, MaxSubs, MaxBuffered} \subseteq Nat /\ {MaxKeys, MaxPipeline} \subseteq Nat \ {0}

Reqs == 1 .. MaxReqs
Subs == Reqs \X (1 .. MaxKeys)

VARIABLES
    \* the reader, Serve and loopReader
    rpc,        \* where it is
    nread,      \* requests read; the last one is in hand
    nkeys,      \* of each request: how many sub-requests it needs
    key,       \* the sub-request to dispatch
    quit,       \* Session.quit
    tasks,      \* the queue ...
    ended,      \* ... and whether it has been closed
    \* the writer, loopWriter
    wpc, cur,   \* where it is, the request that it holds
    obuf,       \* replies encoded, not flushed
    \* the client
    up,         \* the client's socket is open
    gone,       \* the client has closed it
    out,        \* replies that have been sent
    \* the backend connections
    state, ran

readerVars == <<rpc, nread, nkeys, key, quit>>
writerVars == <<wpc, cur, obuf>>
clientVars == <<up, gone, out>>
backendVars == <<state, ran>>
vars == <<readerVars, tasks, ended, writerVars, clientVars, backendVars>>

Backend == INSTANCE RequestService WITH Requests <- Subs

TypeOK ==
    /\ rpc \in {"read", "dispatch", "queue", "end", "close", "done"}
    /\ nread \in 0 .. MaxReqs
    /\ nkeys \in [Reqs -> 0 .. MaxKeys]
    /\ key \in 1 .. MaxKeys
    /\ {quit, ended, up, gone} \subseteq BOOLEAN
    /\ tasks \in Seq(Reqs) /\ Len(tasks) <= MaxPipeline
    /\ wpc \in {"next", "wait", "close", "drain", "done"}
    /\ cur \in 0 .. MaxReqs
    /\ obuf \in Seq(Reqs) /\ Len(obuf) <= MaxBuffered
    /\ out \in Seq(Reqs)
    /\ state \in [Subs -> {"new", "pushed", "replied", "failed"}]
    /\ ran \in [Subs -> 0 .. 1]

Init ==
    /\ rpc = "read" /\ nread = 0 /\ nkeys = [k \in Reqs |-> 0] /\ key = 1 /\ quit = FALSE
    /\ tasks = <<>> /\ ended = FALSE
    /\ wpc = "next" /\ cur = 0 /\ obuf = <<>>
    /\ up = TRUE /\ gone = FALSE /\ out = <<>>
    /\ Backend!Init

-----------------------------------------------------------------------------
\* loopReader reads the next request, of which handleRequest makes
\*   - n sub-requests for the router, MGET, MSET and DEL one per key, ...
Read(n) ==
    /\ rpc = "read" /\ up /\ nread < MaxReqs /\ SumFunction(nkeys) + n <= MaxSubs
    /\ nread' = nread + 1
    /\ nkeys' = [nkeys EXCEPT ![nread + 1] = n]
    /\ key' = 1
    /\ rpc' = "dispatch"
    /\ UNCHANGED <<quit, tasks, ended, writerVars, clientVars, backendVars>>

\*   - or an answer of its own: PING, AUTH, SELECT, QUIT, a missing password, ...
ReadLocal(isQuit) ==
    /\ rpc = "read" /\ up /\ nread < MaxReqs
    /\ nread' = nread + 1
    /\ quit' = isQuit
    /\ rpc' = "queue"
    /\ UNCHANGED <<nkeys, key, tasks, ended, writerVars, clientVars, backendVars>>

\*   - or an error: a command that is not allowed.
ReadRefused ==
    /\ rpc = "read" /\ up /\ nread < MaxReqs
    /\ nread' = nread + 1
    /\ rpc' = "end"
    /\ UNCHANGED <<nkeys, key, quit, tasks, ended, writerVars, clientVars, backendVars>>

\* Decode fails: the socket has been closed, by the client or by the writer.
ReadFailed ==
    /\ rpc = "read" /\ ~up
    /\ rpc' = "end"
    /\ UNCHANGED <<nread, nkeys, key, quit, tasks, ended, writerVars, clientVars, backendVars>>

\* Dispatch, once per key ...
Dispatch ==
    /\ rpc = "dispatch"
    /\ Backend!Push(<<nread, key>>)
    /\ IF key < nkeys[nread]
       THEN key' = key + 1 /\ UNCHANGED rpc
       ELSE rpc' = "queue" /\ UNCHANGED key
    /\ UNCHANGED <<nread, nkeys, quit, tasks, ended, writerVars, clientVars>>

\* ... which fails when the slot is not ready; what has been dispatched stays so.
DispatchFailed ==
    /\ rpc = "dispatch"
    /\ rpc' = "end"
    /\ UNCHANGED <<nread, nkeys, key, quit, tasks, ended, writerVars, clientVars, backendVars>>

\* tasks <- r, which blocks while the pipeline is full.
Queue ==
    /\ rpc = "queue" /\ Len(tasks) < MaxPipeline
    /\ tasks' = Append(tasks, nread)
    /\ rpc' = IF quit THEN "end" ELSE "read"
    /\ UNCHANGED <<nread, nkeys, key, quit, ended, writerVars, clientVars, backendVars>>

\* Serve returns: close(tasks), then the deferred Close of the socket.
End ==
    /\ rpc = "end"
    /\ ended' = TRUE
    /\ rpc' = "close"
    /\ UNCHANGED <<nread, nkeys, key, quit, tasks, writerVars, clientVars, backendVars>>

Close ==
    /\ rpc = "close"
    /\ up' = FALSE
    /\ rpc' = "done"
    /\ UNCHANGED <<nread, nkeys, key, quit, tasks, ended, writerVars, gone, out, backendVars>>

-----------------------------------------------------------------------------
\* loopWriter: the next request; at the end of the queue the socket is closed.
Take ==
    /\ wpc = "next"
    /\ \/ /\ tasks # <<>>
          /\ cur' = Head(tasks) /\ tasks' = Tail(tasks)
          /\ wpc' = "wait"
       \/ /\ tasks = <<>> /\ ended
          /\ wpc' = "close"
          /\ UNCHANGED <<cur, tasks>>
    /\ UNCHANGED <<readerVars, ended, obuf, clientVars, backendVars>>

SubsOf(k) == {k} \X (1 .. nkeys[k])
\* r.Wait.Wait(): every Add has been followed by its Done.
Answered(k) == \A q \in SubsOf(k) : state[q] # "pushed"
\* Coalesce: a reply, if all sub-requests have one.
Good_Some(k) == nkeys[k] = 0 \/ \E q \in SubsOf(k) : state[q] = "replied"
Good(k) == \A q \in SubsOf(k) : state[q] = "replied"

\* handleResponse and FlushPolicy.Encode: flushed when nothing waits in the queue
\* or too much is buffered, or because time has passed.
Reply_Buffer ==
    LET b == Append(obuf, cur) IN
    /\ wpc = "wait" /\ Answered(cur) /\ Good(cur)
    /\ \/ /\ Len(b) <= MaxBuffered
          /\ obuf' = b
          /\ UNCHANGED out
       \/ /\ up
          /\ obuf' = <<>> /\ out' = out \o b
    /\ cur' = 0
    /\ wpc' = "next"
    /\ UNCHANGED <<readerVars, tasks, ended, up, gone, backendVars>>
Reply ==
    LET b == Append(obuf, cur) IN
    /\ wpc = "wait" /\ Answered(cur) /\ Good(cur)
    /\ \/ /\ tasks # <<>> /\ Len(b) <= MaxBuffered
          /\ obuf' = b
          /\ UNCHANGED out
       \/ /\ up
          /\ obuf' = <<>> /\ out' = out \o b
    /\ cur' = 0
    /\ wpc' = "next"
    /\ UNCHANGED <<readerVars, tasks, ended, up, gone, backendVars>>

\* An error of the backend, or of the client's socket, or a part of MGET, MSET or
\* DEL whose reply is not of the type that Coalesce expects: the writer gives up.
ReplyFailed ==
    /\ wpc = "wait" /\ Answered(cur)
    /\ ~Good(cur) \/ ~up \/ nkeys[cur] > 1
    /\ cur' = 0
    /\ wpc' = "close"
    /\ UNCHANGED <<readerVars, tasks, ended, obuf, clientVars, backendVars>>

CloseWriter ==
    /\ wpc = "close"
    /\ up' = FALSE
    /\ wpc' = "drain"
    /\ UNCHANGED <<readerVars, tasks, ended, cur, obuf, gone, out, backendVars>>

\* The deferred loop keeps the reader from blocking on a full queue.
Drain_None ==
    /\ wpc = "drain"
    /\ wpc' = "done"
    /\ UNCHANGED <<readerVars, tasks, ended, cur, obuf, clientVars, backendVars>>
Drain ==
    /\ wpc = "drain"
    /\ \/ tasks # <<>> /\ tasks' = Tail(tasks) /\ UNCHANGED wpc
       \/ tasks = <<>> /\ ended /\ wpc' = "done" /\ UNCHANGED tasks
    /\ UNCHANGED <<readerVars, ended, cur, obuf, clientVars, backendVars>>

-----------------------------------------------------------------------------
Execute(q) == Backend!Run(q) /\ UNCHANGED <<readerVars, tasks, ended, writerVars, clientVars>>
SetReply(q) == Backend!Reply(q) /\ UNCHANGED <<readerVars, tasks, ended, writerVars, clientVars>>
SetError(q) == Backend!Fail(q) /\ UNCHANGED <<readerVars, tasks, ended, writerVars, clientVars>>

ClientCloses ==
    /\ up /\ up' = FALSE /\ gone' = TRUE
    /\ UNCHANGED <<readerVars, tasks, ended, writerVars, out, backendVars>>

ReaderStep == ReadFailed \/ Dispatch \/ DispatchFailed \/ Queue \/ End \/ Close
WriterStep == Take \/ Reply \/ ReplyFailed \/ CloseWriter \/ Drain

Next ==
    \/ ReaderStep \/ WriterStep
    \/ \E n \in 1 .. MaxKeys : Read(n)
    \/ \E b \in BOOLEAN : ReadLocal(b)
    \/ ReadRefused \/ ClientCloses
    \/ \E q \in Subs : Execute(q) \/ SetReply(q) \/ SetError(q)

Spec == Init /\ [][Next]_vars

\* The goroutines run, and every request that has been pushed is answered, which
\* BackendConn shows (AllAnswered).
FairSpec ==
    /\ Spec /\ WF_vars(ReaderStep) /\ WF_vars(WriterStep)
    /\ \A q \in Subs : WF_vars(SetReply(q) \/ SetError(q))

-----------------------------------------------------------------------------
\* The replies come in the order of the requests, none is left out, and a reply
\* means that redis has executed every part of the request, although the parts
\* are answered in any order by several backends.
RepliesInOrder ==
    \A i \in DOMAIN out : out[i] = i /\ \A q \in SubsOf(i) : ran[q] = 1

\* A client that stays gets an answer to each request, or the connection is closed.
RequestAnswered ==
    \A k \in Reqs : nread >= k ~> (k \in Range(out) \/ ~up)

\* Once the socket is closed, by whichever side, both goroutines end: neither is
\* left blocked on the queue or on an answer.
SessionEnds == ~up ~> (rpc = "done" /\ wpc = "done")

\* "QUIT ... return ok, then disconnect": the OK can only be lost to the reader, whose
\* deferred Close does not wait for the writer.  As long as the reader has not closed
\* the socket, the client has not gone and no request has failed, the connection is
\* closed after all replies have been sent.
QuitLostByReader ==
    quit /\ ~up /\ ~gone /\ rpc # "done" /\ (\A q \in Subs : state[q] # "failed")
         /\ (\A k \in Reqs : nkeys[k] <= 1)
        => nread \in Range(out)
=============================================================================
