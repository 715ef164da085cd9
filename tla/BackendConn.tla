----------------------------- MODULE BackendConn -----------------------------
(***************************************************************************)
(* One backend connection of a proxy (pkg/proxy/router/backend.go): the    *)
(* channel that sessions push requests into, the goroutine Run that writes *)
(* them to redis, and one reader goroutine per TCP connection that pairs   *)
(* the replies with the requests.  When a connection fails, Run answers    *)
(* what is queued with an error and dials again, while the reader of the   *)
(* old connection is still answering what that one has left.               *)
(***************************************************************************)
EXTENDS Integers, Sequences

CONSTANTS
    Sessions,
    Pushes,         \* bound: requests that each session pushes
    InputCap,       \* capacity of BackendConn.input
    TaskCap,        \* capacity of tasks
    MaxBuffered,    \* FlushPolicy.MaxBuffered
    MaxConns,       \* bound: connections that are made
    NoReq

ASSUME BoundsAssumption ==
    /\ {Pushes, MaxBuffered, MaxConns} \subseteq Nat
    /\ {InputCap, TaskCap} \subseteq Nat \ {0}
    /\ MaxBuffered <= TaskCap
    /\ NoReq \notin Sessions \X (1 .. Pushes)

Requests == Sessions \X (1 .. Pushes)
Conns == 1 .. MaxConns

VARIABLES
    pushed,     \* how many requests each session has pushed
    input,      \* BackendConn.input ...
    closed,     \* ... and whether it has been closed
    failed,     \* Request.Failed, one flag per session
    answer,     \* Request.Response, a reply with the request it belongs to
    answers,    \* calls of setResponse for the request (Wait.Done)
    \* the goroutine Run
    wpc, cur,   \* where it is, the request that it holds
    drain,      \* how many requests it has still to fail
    conn,       \* its connection, 0 before the first
    \* per connection
    buf,        \* encoded, not flushed
    wire,       \* flushed, not executed
    replies,    \* sent by redis, not decoded
    up,         \* the socket is open
    tasks,      \* the channel between writer and reader ...
    ended,      \* ... and whether it has been closed
    held,       \* the request the reader holds
    derr,       \* Decoder.Err
    \* redis
    ran         \* how often redis has executed each request

writerVars == <<wpc, cur, drain, conn>>
connVars == <<buf, wire, replies, up, tasks, ended, held, derr>>
respVars == <<failed, answer, answers>>
vars == <<pushed, input, closed, respVars, writerVars, connVars, ran>>

None == [kind |-> "none", of |-> NoReq]
Error == [kind |-> "error", of |-> NoReq]
ReplyTo(r) == [kind |-> "reply", of |-> r]
Answers == {None, Error} \cup {ReplyTo(r) : r \in Requests}

TypeOK ==
    /\ pushed \in [Sessions -> 0 .. Pushes]
    /\ input \in Seq(Requests) /\ Len(input) <= InputCap
    /\ closed \in BOOLEAN
    /\ failed \in [Sessions -> BOOLEAN]
    /\ answer \in [Requests -> Answers]
    /\ answers \in [Requests -> Nat]
    /\ wpc \in {"first", "dial", "send", "enqueue", "next", "drain", "exit"}
    /\ cur \in Requests \cup {NoReq}
    /\ drain \in 0 .. InputCap
    /\ conn \in 0 .. MaxConns
    /\ {buf, wire, replies, tasks} \subseteq [Conns -> Seq(Requests)]
    /\ \A c \in Conns : Len(buf[c]) <= MaxBuffered + 1 /\ Len(tasks[c]) <= TaskCap
    /\ {up, ended, derr} \subseteq [Conns -> BOOLEAN]
    /\ held \in [Conns -> Requests \cup {NoReq}]
    /\ ran \in [Requests -> Nat]

Init ==
    /\ pushed = [s \in Sessions |-> 0]
    /\ input = <<>> /\ closed = FALSE
    /\ failed = [s \in Sessions |-> FALSE]
    /\ answer = [r \in Requests |-> None]
    /\ answers = [r \in Requests |-> 0]
    /\ wpc = "first" /\ cur = NoReq /\ drain = 0 /\ conn = 0
    /\ buf = [c \in Conns |-> <<>>]
    /\ wire = buf /\ replies = buf /\ tasks = buf
    /\ up = [c \in Conns |-> FALSE]
    /\ ended = up /\ derr = up
    /\ held = [c \in Conns |-> NoReq]
    /\ ran = [r \in Requests |-> 0]

-----------------------------------------------------------------------------
\* setResponse
SetResponse(r, a) ==
    /\ answer' = [answer EXCEPT ![r] = a]
    /\ answers' = [answers EXCEPT ![r] = @ + 1]
    /\ failed' = IF a = Error THEN [failed EXCEPT ![r[1]] = TRUE] ELSE failed

\* PushBack, by the session's goroutine, which blocks while the channel is full.
PushBack(s) ==
    /\ pushed[s] < Pushes /\ ~closed /\ Len(input) < InputCap
    /\ pushed' = [pushed EXCEPT ![s] = @ + 1]
    /\ input' = Append(input, <<s, pushed[s] + 1>>)
    /\ UNCHANGED <<closed, respVars, writerVars, connVars, ran>>

\* Close, by the router, once nobody pushes any more (SlotRouter).
Close ==
    /\ ~closed
    /\ closed' = TRUE
    /\ UNCHANGED <<pushed, input, respVars, writerVars, connVars, ran>>

\* loopWriter: the first request, for which the connection is made.
First ==
    /\ wpc = "first"
    /\ \/ /\ input # <<>>
          /\ cur' = Head(input) /\ input' = Tail(input)
          /\ wpc' = "dial"
       \/ /\ input = <<>> /\ closed
          /\ wpc' = "exit"
          /\ UNCHANGED <<cur, input>>
    /\ UNCHANGED <<pushed, closed, respVars, drain, conn, connVars, ran>>

\* newBackendReader: dial and verifyAuth.
Dial ==
    /\ wpc = "dial" /\ conn < MaxConns
    /\ conn' = conn + 1
    /\ up' = [up EXCEPT ![conn + 1] = TRUE]
    /\ wpc' = "send"
    /\ UNCHANGED <<pushed, input, closed, respVars, cur, drain, buf, wire, replies, tasks, ended,
                   held, derr, ran>>

\* loopWriter returns an error: the request in hand is answered with it, tasks is
\* closed, and Run answers what it finds in the channel.
Broken ==
    /\ SetResponse(cur, Error)
    /\ cur' = NoReq
    /\ drain' = Len(input)
    /\ wpc' = "drain"
    /\ UNCHANGED <<pushed, input, closed, conn>>

DialFailed ==
    /\ wpc = "dial"
    /\ Broken
    /\ UNCHANGED <<connVars, ran>>

\* FlushPolicy: a flush is forced when the channel is empty, and due when too much
\* is buffered; it may happen any time, when the interval has passed.
MustFlush_Full(b) == Len(b) > MaxBuffered
MustFlush(b) == input = <<>> \/ Len(b) > MaxBuffered

\* The bytes of b are written to the socket, or stay in the buffer.
Flush(b) ==
    \/ ~MustFlush(b) /\ buf' = [buf EXCEPT ![conn] = b] /\ UNCHANGED wire
    \/ /\ up[conn] \/ b = <<>>
       /\ buf' = [buf EXCEPT ![conn] = <<>>]
       /\ wire' = [wire EXCEPT ![conn] = @ \o b]

\* The socket is closed, or the write times out half way.
FlushFailed(b) ==
    /\ b # <<>>
    /\ buf' = [buf EXCEPT ![conn] = <<>>]
    /\ \E k \in 0 .. (IF up[conn] THEN Len(b) ELSE 0) :
          wire' = [wire EXCEPT ![conn] = @ \o SubSeq(b, 1, k)]

\* canForward
Forward == ~failed[cur[1]]

\* The rest of loopWriter: encode the request and hand it to the reader ...
Send ==
    /\ wpc = "send" /\ Forward
    /\ Flush(Append(buf[conn], cur))
    /\ wpc' = "enqueue"
    /\ UNCHANGED <<pushed, input, closed, respVars, cur, drain, conn, replies, up, tasks, ended,
                   held, derr, ran>>

Enqueue ==
    /\ wpc = "enqueue" /\ Len(tasks[conn]) < TaskCap
    /\ tasks' = [tasks EXCEPT ![conn] = Append(@, cur)]
    /\ cur' = NoReq
    /\ wpc' = "next"
    /\ UNCHANGED <<pushed, input, closed, respVars, drain, conn, buf, wire, replies, up, ended,
                   held, derr, ran>>

\* ... or, when an earlier request of the session has failed, discard it ...
Discard ==
    /\ wpc = "send" /\ ~Forward
    /\ Flush(buf[conn])
    /\ SetResponse(cur, Error)
    /\ cur' = NoReq
    /\ wpc' = "next"
    /\ UNCHANGED <<pushed, input, closed, drain, conn, replies, up, tasks, ended, held, derr, ran>>

\* ... or give up the connection.
SendFailed_Retry ==
    /\ wpc = "send"
    /\ FlushFailed(IF Forward THEN Append(buf[conn], cur) ELSE buf[conn])
    /\ wpc' = "dial"
    /\ ended' = [ended EXCEPT ![conn] = TRUE]
    /\ UNCHANGED <<pushed, input, closed, respVars, cur, drain, conn, replies, up, tasks, held, derr, ran>>
SendFailed ==
    /\ wpc = "send"
    /\ FlushFailed(IF Forward THEN Append(buf[conn], cur) ELSE buf[conn])
    /\ Broken
    /\ ended' = [ended EXCEPT ![conn] = TRUE]
    /\ UNCHANGED <<replies, up, tasks, held, derr, ran>>

Receive ==
    /\ wpc = "next"
    /\ \/ /\ input # <<>>
          /\ cur' = Head(input) /\ input' = Tail(input)
          /\ wpc' = "send"
          /\ UNCHANGED ended
       \/ /\ input = <<>> /\ closed
          /\ wpc' = "exit"
          /\ ended' = [ended EXCEPT ![conn] = TRUE]
          /\ UNCHANGED <<cur, input>>
    /\ UNCHANGED <<pushed, closed, respVars, drain, conn, buf, wire, replies, up, tasks, held,
                   derr, ran>>

\* Run after an error, then the next loopWriter.
Drain ==
    /\ wpc = "drain" /\ drain > 0
    /\ SetResponse(Head(input), Error)
    /\ input' = Tail(input)
    /\ drain' = drain - 1
    /\ UNCHANGED <<pushed, closed, wpc, cur, conn, connVars, ran>>

Restart ==
    /\ wpc = "drain" /\ drain = 0
    /\ wpc' = "first"
    /\ UNCHANGED <<pushed, input, closed, respVars, cur, drain, conn, connVars, ran>>

-----------------------------------------------------------------------------
\* The reader of connection c: the next request, or the end.
ReaderNext(c) ==
    /\ held[c] = NoReq
    /\ \/ /\ tasks[c] # <<>>
          /\ held' = [held EXCEPT ![c] = Head(tasks[c])]
          /\ tasks' = [tasks EXCEPT ![c] = Tail(@)]
          /\ UNCHANGED up
       \/ /\ tasks[c] = <<>> /\ ended[c] /\ up[c]
          /\ up' = [up EXCEPT ![c] = FALSE]
          /\ UNCHANGED <<held, tasks>>
    /\ UNCHANGED <<pushed, input, closed, respVars, writerVars, buf, wire, replies, ended, derr, ran>>

\* Decode: a reply.  The decoder's error is sticky.
Decode_NotSticky(c) ==
    /\ held[c] # NoReq /\ replies[c] # <<>>
    /\ SetResponse(held[c], ReplyTo(Head(replies[c])))
    /\ replies' = [replies EXCEPT ![c] = Tail(@)]
    /\ held' = [held EXCEPT ![c] = NoReq]
    /\ UNCHANGED <<pushed, input, closed, writerVars, buf, wire, up, tasks, ended, derr, ran>>
Decode(c) ==
    /\ held[c] # NoReq /\ ~derr[c] /\ replies[c] # <<>>
    /\ SetResponse(held[c], ReplyTo(Head(replies[c])))
    /\ replies' = [replies EXCEPT ![c] = Tail(@)]
    /\ held' = [held EXCEPT ![c] = NoReq]
    /\ UNCHANGED <<pushed, input, closed, writerVars, buf, wire, up, tasks, ended, derr, ran>>

\* Decode: an error; the reader closes the socket to tell the writer.
DecodeError(c) ==
    /\ derr' = [derr EXCEPT ![c] = TRUE]
    /\ SetResponse(held[c], Error)
    /\ up' = [up EXCEPT ![c] = FALSE]
    /\ held' = [held EXCEPT ![c] = NoReq]
    /\ UNCHANGED <<pushed, input, closed, writerVars, buf, wire, replies, tasks, ended, ran>>

DecodeFailed(c) ==
    /\ held[c] # NoReq /\ (derr[c] \/ ~up[c])
    /\ DecodeError(c)

ReadTimeout(c) ==
    /\ held[c] # NoReq /\ up[c] /\ replies[c] = <<>>
    /\ DecodeError(c)

-----------------------------------------------------------------------------
\* redis executes the commands of a connection in order, also those of one that
\* the proxy has closed meanwhile, whose replies are lost.
Execute(c) ==
    /\ wire[c] # <<>>
    /\ ran' = [ran EXCEPT ![Head(wire[c])] = @ + 1]
    /\ wire' = [wire EXCEPT ![c] = Tail(@)]
    /\ replies' = IF up[c] THEN [replies EXCEPT ![c] = Append(@, Head(wire[c]))] ELSE replies
    /\ UNCHANGED <<pushed, input, closed, respVars, writerVars, buf, up, tasks, ended, held, derr>>

\* The connection is lost, with what redis has not read.
ConnLost(c) ==
    /\ up[c]
    /\ up' = [up EXCEPT ![c] = FALSE]
    /\ wire' = [wire EXCEPT ![c] = <<>>]
    /\ UNCHANGED <<pushed, input, closed, respVars, writerVars, buf, replies, tasks, ended, held,
                   derr, ran>>

-----------------------------------------------------------------------------
WriterStep ==
    First \/ Dial \/ DialFailed \/ Send \/ Enqueue \/ Discard \/ SendFailed \/ Receive \/ Drain \/ Restart

ReaderStep(c) == ReaderNext(c) \/ Decode(c) \/ DecodeFailed(c)

Next ==
    \/ WriterStep \/ Close
    \/ \E s \in Sessions : PushBack(s)
    \/ \E c \in Conns : ReaderStep(c) \/ ReadTimeout(c) \/ Execute(c) \/ ConnLost(c)

Spec == Init /\ [][Next]_vars

\* The goroutines run and redis executes what it has received.  The read timeout is
\* relied on only once the writer has given up the connection: what it had buffered
\* then never reaches redis, and its reader waits in vain.
FairSpec ==
    /\ Spec
    /\ WF_vars(WriterStep)
    /\ \A c \in Conns : 
          WF_vars(ReaderStep(c)) /\ WF_vars(Execute(c)) /\ WF_vars(ended[c] /\ ReadTimeout(c))

-----------------------------------------------------------------------------
\* A request is answered with its own reply: the replies of a connection are
\* paired by position only, so after a timeout or an error none may be taken.
ReplyIsMine ==
    \A r \in Requests : answer[r].kind = "reply" => answer[r].of = r

\* Every request that is pushed is answered, also after the connection has been
\* closed; while the connection works, without waiting for a timeout, so that no
\* request is left in the write buffer.
AllAnswered ==
    \A r \in Requests : r[2] <= pushed[r[1]] ~> answers[r] > 0

\* The promise to the sessions.
Service == INSTANCE RequestService WITH
    state <- [r \in Requests |->
                IF r[2] > pushed[r[1]] THEN "new"
                ELSE CASE answer[r].kind = "none" -> "pushed"
                       [] answer[r].kind = "reply" -> "replied"
                       [] answer[r].kind = "error" -> "failed"]

\* The backend connection implements RequestService: one answer, a reply only to
\* what redis has executed, and no request executed twice.
ImplementsService == Service!Spec
=============================================================================
