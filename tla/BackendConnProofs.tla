-------------------------- MODULE BackendConnProofs --------------------------
(***************************************************************************)
(* The proof that a backend connection keeps the promise of RequestService *)
(* and that no request gets the reply to another one.                      *)
(*                                                                         *)
(* The core of the inductive invariant ConnInv is Paired: while no decoder *)
(* error has been met, what will be decoded on a connection agrees,        *)
(* position by position, with the requests its reader will take from       *)
(* tasks.  BackendConnQueues and BackendConnSent have the rest of the      *)
(* invariant.                                                              *)
(***************************************************************************)
EXTENDS BackendConnQueues

\* Two sequences agree as far as the shorter one goes.
Agree(s, t) == \A i \in 1 .. Len(s) : i <= Len(t) => s[i] = t[i]

\* The requests that the reader of c will take, with the one being handed to it, and
\* those whose replies it can still decode.
Wanted(c) == IF held[c] = NoReq THEN tasks[c] ELSE <<held[c]>> \o tasks[c]
Full(c) == IF wpc = "enqueue" /\ c = conn THEN Append(Wanted(c), cur) ELSE Wanted(c)
Sent(c) == IF up[c] THEN (replies[c] \o wire[c]) \o buf[c] ELSE replies[c]

\* They are paired by position, and on the writer's connection none is missing.
Paired(c) ==
    ~derr[c] =>
        /\ Agree(Sent(c), Full(c))
        /\ wpc \in Live /\ c = conn => /\ Len(Sent(c)) <= Len(Full(c))
                                       /\ up[c] => Len(Sent(c)) = Len(Full(c))
PairInv == \A c \in Conns : Paired(c)

ConnInv == TypeOK /\ WriterInv /\ QueueInv /\ SentInv /\ AnswerInv /\ PairInv

-----------------------------------------------------------------------------
\* Two sequences that agree still do when the first element of both is taken off ...
LEMMA AgreeTail ==
    ASSUME NEW S, NEW s \in Seq(S), NEW t \in Seq(S), s # <<>>, t # <<>>, Agree(s, t)
    PROVE  Head(s) = Head(t) /\ Agree(Tail(s), Tail(t))
<1>1. /\ Tail(s) \in Seq(S) /\ Len(Tail(s)) = Len(s) - 1 /\ Head(s) = s[1] /\ Len(s) \in Nat \ {0}
      /\ \A i \in 1 .. Len(s) - 1 : Tail(s)[i] = s[i + 1]
  BY HeadTailProperties, EmptySeq
<1>2. /\ Tail(t) \in Seq(S) /\ Len(Tail(t)) = Len(t) - 1 /\ Head(t) = t[1] /\ Len(t) \in Nat \ {0}
      /\ \A i \in 1 .. Len(t) - 1 : Tail(t)[i] = t[i + 1]
  BY HeadTailProperties, EmptySeq
<1>3. s[1] = t[1]
  BY <1>1, <1>2 DEF Agree
<1>4. ASSUME NEW i \in 1 .. Len(s) - 1, i <= Len(t) - 1 PROVE Tail(s)[i] = Tail(t)[i]
  <2>1. i + 1 \in 1 .. Len(s) /\ i + 1 <= Len(t) /\ i \in 1 .. Len(t) - 1
    BY <1>1, <1>2, <1>4
  <2>2. s[i + 1] = t[i + 1]
    BY <2>1, Zenon DEF Agree
  <2> QED BY <1>1, <1>2, <1>4, <2>1, <2>2, Zenon
<1> QED BY <1>1, <1>2, <1>3, <1>4, Zenon DEF Agree

\* ... when the same is added to both, or when the longer one is extended ...
LEMMA AgreeAppend ==
    ASSUME NEW S, NEW s \in Seq(S), NEW t \in Seq(S), NEW x \in S, Agree(s, t)
    PROVE  /\ Len(s) = Len(t) => Agree(Append(s, x), Append(t, x))
           /\ Len(s) <= Len(t) => Agree(s, Append(t, x))
<1>1. /\ Len(s) \in Nat /\ Len(Append(s, x)) = Len(s) + 1 /\ Append(s, x)[Len(s) + 1] = x
      /\ \A i \in 1 .. Len(s) : Append(s, x)[i] = s[i]
  BY AppendProperties
<1>2. /\ Len(t) \in Nat /\ Len(Append(t, x)) = Len(t) + 1 /\ Append(t, x)[Len(t) + 1] = x
      /\ \A i \in 1 .. Len(t) : Append(t, x)[i] = t[i]
  BY AppendProperties
<1>3. ASSUME Len(s) = Len(t), NEW i \in 1 .. Len(s) + 1 PROVE Append(s, x)[i] = Append(t, x)[i]
  <2>1. CASE i = Len(s) + 1
    BY <1>1, <1>2, <1>3, <2>1, Zenon
  <2>2. CASE i \in 1 .. Len(s)
    BY <1>1, <1>2, <1>3, <2>2 DEF Agree
  <2>3. i = Len(s) + 1 \/ i \in 1 .. Len(s)
    BY <1>1, <1>3
  <2> QED BY Zenon, <2>1, <2>2, <2>3
<1>4. ASSUME Len(s) <= Len(t), NEW i \in 1 .. Len(s) PROVE s[i] = Append(t, x)[i]
  <2>1. i \in 1 .. Len(t)
    BY <1>1, <1>2, <1>4
  <2> QED BY <1>2, <1>4, <2>1 DEF Agree
<1> QED BY <1>1, <1>2, <1>3, <1>4, Zenon DEF Agree

\* ... or when the end is cut off ...
LEMMA AgreePrefix ==
    ASSUME NEW S, NEW s \in Seq(S), NEW u \in Seq(S), NEW t \in Seq(S), Agree(s \o u, t)
    PROVE  Agree(s, t) /\ Len(s) <= Len(s \o u)
<1>1. /\ Len(s) \in Nat /\ Len(u) \in Nat /\ Len(t) \in Nat /\ Len(s \o u) = Len(s) + Len(u)
      /\ \A i \in 1 .. Len(s) + Len(u) : (s \o u)[i] = IF i <= Len(s) THEN s[i] ELSE u[i - Len(s)]
  BY ConcatProperties
<1>2. ASSUME NEW i \in 1 .. Len(s), i <= Len(t) PROVE s[i] = t[i]
  <2>1. i \in 1 .. Len(s \o u) /\ (s \o u)[i] = s[i]
    BY <1>1
  <2> QED BY <1>2, <2>1, Zenon DEF Agree
<1> QED BY <1>1, <1>2 DEF Agree

\* ... by a write that fails, too.
LEMMA AgreeCut ==
    ASSUME NEW S, NEW p \in Seq(S), NEW b \in Seq(S), NEW t \in Seq(S), NEW x \in S,
           Agree(p \o b, t), Len(p \o b) = Len(t),
           NEW e \in {b, Append(b, x)}, NEW k \in 0 .. Len(e)
    PROVE  Agree(p \o SubSeq(e, 1, k), t)
<1>1. /\ Len(p) \in Nat /\ Len(b) \in Nat /\ Len(t) = Len(p) + Len(b)
      /\ \A i \in 1 .. Len(p) + Len(b) : (p \o b)[i] = IF i <= Len(p) THEN p[i] ELSE b[i - Len(p)]
  BY ConcatProperties
<1>2. /\ Append(b, x) \in Seq(S) /\ Len(Append(b, x)) = Len(b) + 1
      /\ \A i \in 1 .. Len(b) : Append(b, x)[i] = b[i]
  BY AppendProperties, Zenon
<1>3. /\ e \in Seq(S) /\ Len(e) \in Nat /\ k \in Nat /\ \A i \in 1 .. Len(b) : e[i] = b[i]
  <2>1. e \in Seq(S) /\ \A i \in 1 .. Len(b) : e[i] = b[i]
    BY Zenon, <1>2
  <2> QED BY <2>1
<1> DEFINE c == SubSeq(e, 1, k)
<1>4. c \in Seq(S) /\ Len(c) = k /\ \A i \in 1 .. k : c[i] = e[i]
  BY <1>3, PrefixSet, Zenon
<1> HIDE DEF c
<1>5. /\ Len(p \o c) = Len(p) + k
      /\ \A i \in 1 .. Len(p) + k : (p \o c)[i] = IF i <= Len(p) THEN p[i] ELSE c[i - Len(p)]
  <2>1. /\ Len(p \o c) = Len(p) + Len(c)
        /\ \A i \in 1 .. Len(p) + Len(c) : (p \o c)[i] = IF i <= Len(p) THEN p[i] ELSE c[i - Len(p)]
    BY Zenon, <1>4, ConcatProperties
  <2> QED BY <1>4, <2>1, Zenon
<1>6. ASSUME NEW i \in 1 .. Len(p) + k, i <= Len(t) PROVE (p \o c)[i] = t[i]
  <2>1. i \in 1 .. Len(p) + Len(b) /\ (p \o b)[i] = t[i]
    BY <1>1, <1>3, <1>6 DEF Agree
  <2>2. CASE i <= Len(p)
    BY <1>1, <1>5, <1>6, <2>1, <2>2, Zenon
  <2>3. CASE i > Len(p)
    <3>1. i - Len(p) \in 1 .. k /\ i - Len(p) \in 1 .. Len(b)
      BY <1>1, <1>3, <1>6, <2>1, <2>3
    <3>2. (p \o c)[i] = c[i - Len(p)] /\ (p \o b)[i] = b[i - Len(p)]
      BY <1>1, <1>3, <1>5, <1>6, <2>1, <2>3
    <3> QED BY <1>3, <1>4, <2>1, <3>1, <3>2, Zenon
  <2>4. i <= Len(p) \/ i > Len(p)
    BY <1>1, <1>3, <1>6
  <2> QED BY Zenon, <2>2, <2>3, <2>4
<1> QED BY <1>5, <1>6, Zenon DEF Agree, c

-----------------------------------------------------------------------------
\* What Paired relates is a pair of sequences of requests.
LEMMA PairTypes ==
    ASSUME Types, NEW c \in Conns, wpc = "enqueue" => cur # NoReq
    PROVE  Wanted(c) \in Seq(Requests) /\ Sent(c) \in Seq(Requests) /\ Full(c) \in Seq(Requests)
<1>1. /\ tasks[c] \in Seq(Requests) /\ replies[c] \in Seq(Requests) /\ wire[c] \in Seq(Requests)
      /\ buf[c] \in Seq(Requests)
  BY Zenon DEF Types
<1>2. held[c] # NoReq => <<held[c]>> \in Seq(Requests)
  BY DEF Types
<1>3. Wanted(c) \in Seq(Requests)
  BY <1>1, <1>2, ConcatProperties, Zenon DEF Wanted
<1>4. replies[c] \o wire[c] \in Seq(Requests)
  BY <1>1, ConcatProperties, Zenon
<1>5. Sent(c) \in Seq(Requests)
  BY <1>1, <1>4, ConcatProperties, Zenon DEF Sent
<1>6. wpc = "enqueue" => cur \in Requests
  BY Zenon DEF Types
<1> QED BY <1>3, <1>5, <1>6, AppendProperties, Zenon DEF Full

\* The next reply is that to the request the reader holds.
LEMMA HeadIsHeld ==
    ASSUME Types, WriterInv, PairInv, NEW c \in Conns, held[c] # NoReq, ~derr[c], replies[c] # <<>>
    PROVE  /\ Head(replies[c]) = held[c]
           /\ Sent(c) # <<>> /\ Full(c) # <<>>
           /\ Tail(Sent(c)) = IF up[c] THEN (Tail(replies[c]) \o wire[c]) \o buf[c] ELSE Tail(replies[c])
           /\ Tail(Full(c)) = IF wpc = "enqueue" /\ c = conn THEN Append(tasks[c], cur) ELSE tasks[c]
<1>1. /\ tasks[c] \in Seq(Requests) /\ replies[c] \in Seq(Requests) /\ wire[c] \in Seq(Requests)
      /\ buf[c] \in Seq(Requests) /\ held[c] \in Requests /\ <<held[c]>> \in Seq(Requests)
      /\ wpc = "enqueue" => cur \in Requests
  BY DEF Types, WriterInv
<1>2. /\ replies[c] \o wire[c] \in Seq(Requests) /\ replies[c] \o wire[c] # <<>>
      /\ Head(replies[c] \o wire[c]) = Head(replies[c])
      /\ Tail(replies[c] \o wire[c]) = Tail(replies[c]) \o wire[c]
  BY Zenon, <1>1, TailConcat, ConcatProperties
<1>3. /\ Sent(c) # <<>> /\ Head(Sent(c)) = Head(replies[c])
      /\ Tail(Sent(c)) = IF up[c] THEN (Tail(replies[c]) \o wire[c]) \o buf[c] ELSE Tail(replies[c])
  <2>1. LET p == replies[c] \o wire[c] IN
        p \o buf[c] # <<>> /\ Head(p \o buf[c]) = Head(p) /\ Tail(p \o buf[c]) = Tail(p) \o buf[c]
    BY Zenon, <1>1, <1>2, TailConcat
  <2> QED BY Zenon, <1>2, <2>1 DEF Sent
<1>4. /\ Wanted(c) \in Seq(Requests) /\ Wanted(c) # <<>> /\ Head(Wanted(c)) = held[c]
      /\ Tail(Wanted(c)) = tasks[c]
  <2>1. Wanted(c) = <<held[c]>> \o tasks[c] /\ <<held[c]>> # <<>>
    BY Zenon DEF Wanted
  <2>2. Head(<<held[c]>>) = held[c] /\ Tail(<<held[c]>>) = <<>> /\ <<>> \o tasks[c] = tasks[c]
    BY <1>1, ConcatEmptySeq
  <2>3. /\ Head(<<held[c]>> \o tasks[c]) = Head(<<held[c]>>)
        /\ Tail(<<held[c]>> \o tasks[c]) = Tail(<<held[c]>>) \o tasks[c]
        /\ <<held[c]>> \o tasks[c] # <<>> /\ <<held[c]>> \o tasks[c] \in Seq(Requests)
    BY <1>1, <2>1, TailConcat, ConcatProperties, Zenon
  <2> QED BY <2>1, <2>2, <2>3, Zenon
<1>5. /\ Full(c) # <<>> /\ Head(Full(c)) = held[c]
      /\ Tail(Full(c)) = IF wpc = "enqueue" /\ c = conn THEN Append(tasks[c], cur) ELSE tasks[c]
  <2>1. CASE wpc = "enqueue" /\ c = conn
    <3>1. Full(c) = Append(Wanted(c), cur) /\ cur \in Requests
      BY <1>1, <2>1, Zenon DEF Full
    <3>2. /\ Append(Wanted(c), cur) # <<>> /\ Head(Append(Wanted(c), cur)) = Head(Wanted(c))
          /\ Tail(Append(Wanted(c), cur)) = Append(Tail(Wanted(c)), cur)
      BY <1>4, <3>1, HeadTailAppend, AppendProperties
    <3> QED BY <1>4, <2>1, <3>1, <3>2, Zenon
  <2>2. CASE ~(wpc = "enqueue" /\ c = conn)
    BY Zenon, <1>4, <2>2 DEF Full
  <2> QED BY <2>1, <2>2, Zenon
<1>6. Sent(c) \in Seq(Requests) /\ Full(c) \in Seq(Requests) /\ Agree(Sent(c), Full(c))
  BY PairTypes, Zenon DEF PairInv, Paired, WriterInv
<1>7. Head(Sent(c)) = Head(Full(c))
  BY <1>3, <1>5, <1>6, AgreeTail, Zenon
<1> QED BY Zenon, <1>3, <1>5, <1>7

\* A connection that a step leaves alone.
LEMMA PairFrame ==
    ASSUME NEW c \in Conns, Paired(c),
           buf'[c] = buf[c], wire'[c] = wire[c], replies'[c] = replies[c], up'[c] = up[c],
           tasks'[c] = tasks[c], held'[c] = held[c], derr'[c] = derr[c],
           wpc' = "enqueue" /\ c = conn' <=> wpc = "enqueue" /\ c = conn,
           wpc' = "enqueue" => cur' = cur,
           wpc' \in Live /\ c = conn' => wpc \in Live /\ c = conn
    PROVE  Paired(c)'
<1>1. Sent(c)' = Sent(c) /\ Full(c)' = Full(c)
  BY Zenon DEF Sent, Full, Wanted
<1> QED BY <1>1, Zenon DEF Paired

\* The same when only the division between its buffers has changed.
LEMMA PairSame ==
    ASSUME NEW c \in Conns, Paired(c), Sent(c)' = Sent(c), Full(c)' = Full(c), up'[c] = up[c],
           derr'[c] = derr[c], wpc' \in Live /\ c = conn' => wpc \in Live /\ c = conn
    PROVE  Paired(c)'
  BY Zenon DEF Paired

\* A flush of b, and one that fails, seen from the reader.
LEMMA FlushSent ==
    ASSUME Types, conn \in Conns, conn' = conn, up' = up, replies' = replies, NEW b \in Seq(Requests)
    PROVE  /\ Flush(b) => Sent(conn)' = IF up[conn] THEN (replies[conn] \o wire[conn]) \o b ELSE replies[conn]
           /\ FlushFailed(b) =>
                IF up[conn] THEN \E k \in 0 .. Len(b) :
                                    Sent(conn)' = (replies[conn] \o wire[conn]) \o SubSeq(b, 1, k)
                ELSE Sent(conn)' = replies[conn]
<1>1. wire[conn] \in Seq(Requests) /\ replies[conn] \in Seq(Requests)
  BY Zenon DEF Types
<1>2. ASSUME NEW e \in Seq(Requests)
      PROVE  (replies[conn] \o (wire[conn] \o e)) \o <<>> = (replies[conn] \o wire[conn]) \o e
  <2> DEFINE s == replies[conn]
             t == wire[conn]
  <2>1. s \in Seq(Requests) /\ t \in Seq(Requests)
    BY <1>1, Zenon
  <2> HIDE DEF s, t
  <2>2. (s \o (t \o e)) \o <<>> = (s \o t) \o e
    BY SMTT(30), <2>1, ConcatThree
  <2> QED BY Zenon, <2>2 DEF s, t
<1>3. ASSUME NEW e \in Seq(Requests), wire'[conn] = wire[conn] \o e, buf'[conn] = <<>>
      PROVE  Sent(conn)' = IF up[conn] THEN (replies[conn] \o wire[conn]) \o e ELSE replies[conn]
  BY Zenon, <1>2, <1>3 DEF Sent
<1>4. ASSUME Flush(b)
      PROVE  Sent(conn)' = IF up[conn] THEN (replies[conn] \o wire[conn]) \o b ELSE replies[conn]
  <2>1. CASE buf' = [buf EXCEPT ![conn] = b] /\ UNCHANGED wire
    <3>1. buf'[conn] = b /\ wire'[conn] = wire[conn]
      BY <2>1, Zenon DEF Types
    <3> QED BY <3>1, Zenon DEF Sent
  <2>2. CASE buf' = [buf EXCEPT ![conn] = <<>>] /\ wire' = [wire EXCEPT ![conn] = @ \o b]
    <3>1. buf'[conn] = <<>> /\ wire'[conn] = wire[conn] \o b
      BY Zenon, <2>2 DEF Types
    <3> QED BY Zenon, <1>3, <3>1
  <2> QED BY Zenon, <1>4, <2>1, <2>2 DEF Flush
<1>5. ASSUME FlushFailed(b)
      PROVE  IF up[conn] THEN \E k \in 0 .. Len(b) :
                                 Sent(conn)' = (replies[conn] \o wire[conn]) \o SubSeq(b, 1, k)
             ELSE Sent(conn)' = replies[conn]
  <2>1. PICK k \in 0 .. (IF up[conn] THEN Len(b) ELSE 0) :
               wire' = [wire EXCEPT ![conn] = @ \o SubSeq(b, 1, k)]
    BY Zenon, <1>5 DEF FlushFailed
  <2>2. k \in 0 .. Len(b) /\ buf' = [buf EXCEPT ![conn] = <<>>]
    BY <1>5, <2>1 DEF FlushFailed
  <2>3. SubSeq(b, 1, k) \in Seq(Requests)
    BY <2>2, PrefixSet, Zenon
  <2>4. buf'[conn] = <<>> /\ wire'[conn] = wire[conn] \o SubSeq(b, 1, k)
    BY Zenon, <2>1, <2>2 DEF Types
  <2>5. Sent(conn)' = IF up[conn] THEN (replies[conn] \o wire[conn]) \o SubSeq(b, 1, k) ELSE replies[conn]
    BY Zenon, <1>3, <2>3, <2>4
  <2> QED BY Zenon, <2>2, <2>5
<1> QED BY Zenon, <1>4, <1>5

\* Every step keeps replies and requests paired: buffers are flushed in order, and
\* a reader that has met an error takes no reply any more.
LEMMA PairStep ==
    ASSUME Types, WriterInv, PairInv, Next
    PROVE  PairInv'
<1>0. /\ NoReq \notin Requests /\ \A c \in Conns : Paired(c)
      /\ \A c \in Conns : /\ tasks[c] \in Seq(Requests) /\ replies[c] \in Seq(Requests)
                          /\ wire[c] \in Seq(Requests) /\ buf[c] \in Seq(Requests)
                          /\ Wanted(c) \in Seq(Requests) /\ Sent(c) \in Seq(Requests)
                          /\ Full(c) \in Seq(Requests)
  <2>1. NoReq \notin Requests /\ \A c \in Conns : Paired(c)
    BY QueueTypes, Zenon DEF PairInv
  <2>2. \A c \in Conns : /\ Wanted(c) \in Seq(Requests) /\ Sent(c) \in Seq(Requests)
                          /\ Full(c) \in Seq(Requests)
    BY PairTypes, Zenon DEF WriterInv
  <2>3. \A c \in Conns : /\ tasks[c] \in Seq(Requests) /\ replies[c] \in Seq(Requests)
                          /\ wire[c] \in Seq(Requests) /\ buf[c] \in Seq(Requests)
    BY Zenon DEF Types
  <2> QED BY <2>1, <2>2, <2>3, Zenon
<1>1. ASSUME NEW c \in Conns, UNCHANGED <<buf, wire, replies, up, tasks, held, derr, conn>>,
             \/ UNCHANGED <<wpc, cur>>
             \/ wpc # "enqueue" /\ wpc' # "enqueue" /\ (wpc' \in Live => wpc \in Live)
      PROVE  Paired(c)'
  BY <1>0, <1>1, PairFrame, Zenon
<1>2. CASE Close \/ First \/ DialFailed \/ Receive \/ Drain \/ Restart \/ \E s \in Sessions : PushBack(s)
  <2>1. /\ UNCHANGED <<buf, wire, replies, up, tasks, held, derr, conn>>
        /\ \/ UNCHANGED <<wpc, cur>>
           \/ wpc # "enqueue" /\ wpc' # "enqueue" /\ (wpc' \in Live => wpc \in Live)
    <3>1. CASE Close \/ Drain \/ \E s \in Sessions : PushBack(s)
      BY <3>1, Zenon DEF Close, Drain, PushBack, connVars, writerVars
    <3>2. CASE First \/ DialFailed \/ Receive \/ Restart
      BY <3>2, Zenon DEF First, DialFailed, Broken, Receive, Restart, connVars, writerVars, Live
    <3> QED BY <1>2, <3>1, <3>2, Zenon
  <2> QED BY <1>1, <2>1, Zenon DEF PairInv
<1>3. CASE Dial
  <2>1. /\ conn' \in Conns /\ conn' > conn /\ conn' # conn /\ Unused(conn')
        /\ up'[conn'] = TRUE /\ \A c \in Conns : c # conn' => up'[c] = up[c]
    <3>1. conn \in Nat /\ MaxConns \in Nat /\ conn < MaxConns /\ conn' = conn + 1
      BY <1>3, BoundsAssumption DEF Dial, Types
    <3>2. conn' \in Conns /\ conn' > conn /\ conn' # conn
      BY <3>1 DEF Conns
    <3>3. up' = [up EXCEPT ![conn'] = TRUE]
      BY <1>3, Zenon DEF Dial
    <3> QED BY <3>2, <3>3, Zenon DEF WriterInv, Types
  <2>2. UNCHANGED <<buf, wire, replies, tasks, held, derr>> /\ wpc = "dial" /\ wpc' = "send"
    BY <1>3, Zenon DEF Dial
  <2>3. ASSUME NEW c \in Conns, c # conn' PROVE Paired(c)'
    BY <1>0, <2>1, <2>2, <2>3, PairFrame, Zenon DEF Live
  <2>4. ASSUME NEW c \in Conns, c = conn' PROVE Paired(c)'
    <3>1. /\ buf'[c] = <<>> /\ wire'[c] = <<>> /\ replies'[c] = <<>> /\ tasks'[c] = <<>>
          /\ held'[c] = NoReq
      BY <2>1, <2>2, <2>4, Zenon DEF Unused
    <3>2. <<>> \in Seq(Requests) /\ Len(<<>>) = 0 /\ (<<>> \o <<>>) \o <<>> = <<>>
      BY EmptySeq, ConcatEmptySeq, Zenon
    <3>3. Sent(c)' = <<>> /\ Full(c)' = <<>>
      BY <2>2, <3>1, <3>2, Zenon DEF Sent, Full, Wanted
    <3> QED BY <3>2, <3>3 DEF Paired, Agree
  <2> QED BY <2>3, <2>4, Zenon DEF PairInv
<1>4. CASE Send
  <2> DEFINE b == Append(buf[conn], cur)
             p == replies[conn] \o wire[conn]
  <2>1. /\ conn \in Conns /\ cur \in Requests /\ conn' = conn /\ wpc = "send" /\ wpc' = "enqueue"
        /\ Flush(b) /\ UNCHANGED <<replies, up, tasks, held, derr, cur>>
    BY <1>4, Zenon DEF Send, WriterInv, Live, Types
  <2>2. ASSUME NEW c \in Conns, c # conn PROVE Paired(c)'
    <3>1. buf'[c] = buf[c] /\ wire'[c] = wire[c]
      BY <2>1, <2>2, FlushElsewhere, Zenon
    <3> QED BY <1>0, <2>1, <2>2, <3>1, PairFrame, Zenon
  <2>3. Full(conn)' = Append(Full(conn), cur)
    BY <2>1, Zenon DEF Full, Wanted
  <2>4. b \in Seq(Requests) /\ p \in Seq(Requests)
    BY <1>0, <2>1, AppendProperties, ConcatProperties, Zenon
  <2>5. Sent(conn)' = IF up[conn] THEN p \o b ELSE replies[conn]
    BY Zenon, <2>1, <2>4, FlushSent
  <2>6. Sent(conn)' = IF up[conn] THEN Append(Sent(conn), cur) ELSE Sent(conn)
    <3>1. p \o b = Append(p \o buf[conn], cur)
      BY Zenon, <1>0, <2>1, <2>4, ConcatShift
    <3> QED BY <2>5, <3>1, Zenon DEF Sent
  <2> HIDE DEF b, p
  <2>7. ASSUME ~derr[conn]
        PROVE  /\ Agree(Sent(conn)', Full(conn)') /\ Len(Sent(conn)') <= Len(Full(conn)')
               /\ up[conn] => Len(Sent(conn)') = Len(Full(conn)')
    <3>1. /\ Agree(Sent(conn), Full(conn)) /\ Len(Sent(conn)) <= Len(Full(conn))
          /\ up[conn] => Len(Sent(conn)) = Len(Full(conn))
          /\ Len(Sent(conn)) \in Nat /\ Len(Full(conn)) \in Nat
      BY <1>0, <2>1, <2>7 DEF Paired, Live
    <3>2. /\ Len(Append(Sent(conn), cur)) = Len(Sent(conn)) + 1
          /\ Len(Append(Full(conn), cur)) = Len(Full(conn)) + 1
      BY <1>0, <2>1, AppendProperties, Zenon
    <3>3. CASE up[conn]
      <4>1. Agree(Append(Sent(conn), cur), Append(Full(conn), cur))
        BY <1>0, <2>1, <3>1, <3>3, AgreeAppend, Zenon
      <4> QED BY <2>3, <2>6, <3>1, <3>2, <3>3, <4>1
    <3>4. CASE ~up[conn]
      <4>1. Agree(Sent(conn), Append(Full(conn), cur))
        BY <1>0, <2>1, <3>1, AgreeAppend, Zenon
      <4> QED BY <2>3, <2>6, <3>1, <3>2, <3>4, <4>1
    <3> QED BY <3>3, <3>4, Zenon
  <2>8. Paired(conn)'
    BY <2>1, <2>7, Zenon DEF Paired
  <2> QED BY <2>1, <2>2, <2>8, Zenon DEF PairInv
<1>5. CASE Enqueue
  <2>1. /\ conn \in Conns /\ cur \in Requests /\ conn' = conn /\ wpc = "enqueue" /\ wpc' = "next"
        /\ tasks' = [tasks EXCEPT ![conn] = Append(tasks[conn], cur)]
        /\ UNCHANGED <<buf, wire, replies, up, held, derr>>
    BY <1>5, Zenon DEF Enqueue, WriterInv, Live, Types
  <2>2. tasks'[conn] = Append(tasks[conn], cur) /\ \A c \in Conns : c # conn => tasks'[c] = tasks[c]
    BY <2>1, Zenon DEF Types
  <2>3. ASSUME NEW c \in Conns, c # conn PROVE Paired(c)'
    BY <1>0, <2>1, <2>2, <2>3, PairFrame, Zenon
  <2>4. Full(conn)' = Full(conn)
    <3>1. Full(conn) = Append(Wanted(conn), cur) /\ Full(conn)' = Wanted(conn)'
      BY <2>1, Zenon DEF Full
    <3>2. CASE held[conn] = NoReq
      BY <2>1, <2>2, <3>1, <3>2, Zenon DEF Wanted
    <3>3. CASE held[conn] # NoReq
      <4>1. <<held[conn]>> \in Seq(Requests)
        BY <2>1, <3>3 DEF Types
      <4>2. <<held[conn]>> \o Append(tasks[conn], cur) = Append(<<held[conn]>> \o tasks[conn], cur)
        BY <1>0, <2>1, <4>1, ConcatShift, Zenon
      <4> QED BY <2>1, <2>2, <3>1, <3>3, <4>2, Zenon DEF Wanted
    <3> QED BY <3>2, <3>3, Zenon
  <2>5. Sent(conn)' = Sent(conn)
    BY <2>1, Zenon DEF Sent
  <2>6. ASSUME NEW c \in Conns, c = conn PROVE Paired(c)'
    BY <1>0, <2>1, <2>4, <2>5, <2>6, PairSame, Zenon DEF Live
  <2> QED BY <2>3, <2>6, Zenon DEF PairInv
<1>6. CASE Discard
  <2>1. /\ conn \in Conns /\ conn' = conn /\ wpc = "send" /\ wpc' = "next"
        /\ Flush(buf[conn]) /\ UNCHANGED <<replies, up, tasks, held, derr>>
    BY <1>6, Zenon DEF Discard, WriterInv, Live, Types
  <2>2. ASSUME NEW c \in Conns, c # conn PROVE Paired(c)'
    <3>1. buf'[c] = buf[c] /\ wire'[c] = wire[c]
      BY <2>1, <2>2, FlushElsewhere, Zenon
    <3> QED BY <1>0, <2>1, <2>2, <3>1, PairFrame, Zenon
  <2>3. Sent(conn)' = Sent(conn)
    BY Zenon, <1>0, <2>1, FlushSent DEF Sent
  <2>4. Full(conn)' = Full(conn)
    BY <2>1, Zenon DEF Full, Wanted
  <2>5. ASSUME NEW c \in Conns, c = conn PROVE Paired(c)'
    BY <1>0, <2>1, <2>3, <2>4, <2>5, PairSame, Zenon DEF Live
  <2> QED BY <2>2, <2>5, Zenon DEF PairInv
<1>7. CASE SendFailed
  <2> DEFINE b == IF Forward THEN Append(buf[conn], cur) ELSE buf[conn]
             p == replies[conn] \o wire[conn]
  <2>1. /\ conn \in Conns /\ cur \in Requests /\ conn' = conn /\ wpc = "send" /\ wpc' = "drain"
        /\ FlushFailed(b) /\ UNCHANGED <<replies, up, tasks, held, derr>>
    BY <1>7, Zenon DEF SendFailed, Broken, WriterInv, Live, Types
  <2>2. b \in {buf[conn], Append(buf[conn], cur)} /\ b \in Seq(Requests) /\ p \in Seq(Requests)
    BY <1>0, <2>1, AppendProperties, ConcatProperties, Zenon
  <2> HIDE DEF b
  <2>3. ASSUME NEW c \in Conns, c # conn PROVE Paired(c)'
    <3>1. buf'[c] = buf[c] /\ wire'[c] = wire[c]
      BY <2>1, <2>3, FlushElsewhere, Zenon
    <3> QED BY <1>0, <2>1, <2>3, <3>1, PairFrame, Zenon DEF Live
  <2>4. Full(conn)' = Full(conn)
    BY <2>1, Zenon DEF Full, Wanted
  <2>5. ASSUME ~derr[conn] PROVE Agree(Sent(conn)', Full(conn))
    <3>1. Agree(Sent(conn), Full(conn)) /\ (up[conn] => Len(Sent(conn)) = Len(Full(conn)))
      BY <1>0, <2>1, <2>5, Zenon DEF Paired, Live
    <3>2. CASE up[conn]
      <4>1. PICK k \in 0 .. Len(b) : Sent(conn)' = p \o SubSeq(b, 1, k)
        BY Zenon, <2>1, <2>2, <3>2, FlushSent
      <4>2. Sent(conn) = p \o buf[conn]
        BY Zenon, <3>2 DEF Sent
      <4> HIDE DEF p
      <4>3. Agree(p \o SubSeq(b, 1, k), Full(conn))
        BY Zenon, <1>0, <2>1, <2>2, <3>1, <3>2, <4>2, AgreeCut
      <4> QED BY <4>1, <4>3, Zenon
    <3>3. CASE ~up[conn]
      BY <2>1, <2>2, <3>1, <3>3, FlushSent, Zenon DEF Sent
    <3> QED BY <3>2, <3>3, Zenon
  <2>6. Paired(conn)'
    BY <2>1, <2>4, <2>5, Zenon DEF Paired, Live
  <2> QED BY <2>1, <2>3, <2>6, Zenon DEF PairInv
<1>8. ASSUME NEW c \in Conns, ReaderNext(c) PROVE PairInv'
  <2>1. UNCHANGED <<wpc, cur, conn, buf, wire, replies, derr>> /\ held[c] = NoReq
    BY <1>8, Zenon DEF ReaderNext, writerVars
  <2>2. ASSUME NEW d \in Conns, d # c PROVE Paired(d)'
    <3>1. held'[d] = held[d] /\ tasks'[d] = tasks[d] /\ up'[d] = up[d]
      BY <1>8, <2>2, Zenon DEF ReaderNext, Types
    <3> QED BY <1>0, <2>1, <3>1, PairFrame, Zenon
  <2>3. CASE /\ tasks[c] # <<>> /\ held' = [held EXCEPT ![c] = Head(tasks[c])]
             /\ tasks' = [tasks EXCEPT ![c] = Tail(tasks[c])] /\ UNCHANGED up
    <3>1. held'[c] = Head(tasks[c]) /\ tasks'[c] = Tail(tasks[c])
      BY <2>3, Zenon DEF Types
    <3>2. <<Head(tasks[c])>> \o Tail(tasks[c]) = tasks[c] /\ Head(tasks[c]) \in Requests
      BY <1>0, <2>3, HeadTail, HeadTailProperties, Zenon
    <3>3. Wanted(c)' = Wanted(c)
      BY Zenon, <1>0, <2>1, <3>1, <3>2 DEF Wanted
    <3>4. Full(c)' = Full(c) /\ Sent(c)' = Sent(c)
      BY <2>1, <2>3, <3>3, Zenon DEF Full, Sent
    <3>5. Paired(c)'
      BY <1>0, <2>1, <2>3, <3>4, PairSame, Zenon
    <3> QED BY <2>2, <3>5, Zenon DEF PairInv
  <2>4. CASE ended[c] /\ up[c] /\ up' = [up EXCEPT ![c] = FALSE] /\ UNCHANGED <<held, tasks>>
    <3>1. ~up'[c] /\ ~(wpc \in Live /\ c = conn)
      BY <2>4, Zenon DEF Types, WriterInv
    <3>2. Full(c)' = Full(c) /\ Sent(c)' = replies[c] /\ Sent(c) = (replies[c] \o wire[c]) \o buf[c]
      BY Zenon, <2>1, <2>4, <3>1 DEF Full, Wanted, Sent
    <3>3. ~derr[c] => Agree(replies[c], Full(c))
      <4>1. replies[c] \o wire[c] \in Seq(Requests)
        BY <1>0, ConcatProperties, Zenon
      <4>2. ~derr[c] => Agree((replies[c] \o wire[c]) \o buf[c], Full(c))
        BY Zenon, <1>0, <3>2 DEF Paired
      <4>3. ~derr[c] => Agree(replies[c] \o wire[c], Full(c))
        BY Zenon, <1>0, <4>1, <4>2, AgreePrefix
      <4> QED BY <1>0, <4>3, AgreePrefix, Zenon
    <3>4. Paired(c)'
      BY <2>1, <3>1, <3>2, <3>3, Zenon DEF Paired
    <3> QED BY <2>2, <3>4, Zenon DEF PairInv
  <2> QED BY <1>8, <2>3, <2>4, Zenon DEF ReaderNext
<1>9. ASSUME NEW c \in Conns, Decode(c) PROVE PairInv'
  <2>1. /\ UNCHANGED <<wpc, cur, conn, buf, wire, up, tasks, derr>>
        /\ held[c] # NoReq /\ ~derr[c] /\ replies[c] # <<>>
        /\ replies' = [replies EXCEPT ![c] = Tail(replies[c])] /\ held' = [held EXCEPT ![c] = NoReq]
    BY <1>9, Zenon DEF Decode, writerVars
  <2>2. /\ replies'[c] = Tail(replies[c]) /\ held'[c] = NoReq
        /\ \A d \in Conns : d # c => replies'[d] = replies[d] /\ held'[d] = held[d]
    BY <2>1, Zenon DEF Types
  <2>3. ASSUME NEW d \in Conns, d # c PROVE Paired(d)'
    BY <1>0, <2>1, <2>2, <2>3, PairFrame, Zenon
  <2>4. /\ Sent(c) # <<>> /\ Full(c) # <<>>
        /\ Tail(Sent(c)) = IF up[c] THEN (Tail(replies[c]) \o wire[c]) \o buf[c] ELSE Tail(replies[c])
        /\ Tail(Full(c)) = IF wpc = "enqueue" /\ c = conn THEN Append(tasks[c], cur) ELSE tasks[c]
    BY Zenon, <2>1, HeadIsHeld
  <2>5. Sent(c)' = Tail(Sent(c))
    BY <2>1, <2>2, <2>4, Zenon DEF Sent
  <2>6. Full(c)' = Tail(Full(c))
    BY <2>1, <2>2, <2>4, Zenon DEF Full, Wanted
  <2>7. Agree(Tail(Sent(c)), Tail(Full(c)))
    BY <1>0, <2>1, <2>4, AgreeTail, Zenon DEF Paired
  <2>8. /\ Len(Tail(Sent(c))) = Len(Sent(c)) - 1 /\ Len(Tail(Full(c))) = Len(Full(c)) - 1
        /\ Len(Sent(c)) \in Nat /\ Len(Full(c)) \in Nat
    BY <1>0, <2>4, HeadTailProperties
  <2>9. wpc \in Live /\ c = conn => /\ Len(Tail(Sent(c))) <= Len(Tail(Full(c)))
                                    /\ up[c] => Len(Tail(Sent(c))) = Len(Tail(Full(c)))
    <3>1. wpc \in Live /\ c = conn => /\ Len(Sent(c)) <= Len(Full(c))
                                      /\ up[c] => Len(Sent(c)) = Len(Full(c))
      BY <1>0, <2>1, Zenon DEF Paired
    <3> QED BY <2>8, <3>1
  <2>10. Paired(c)'
    BY <2>1, <2>5, <2>6, <2>7, <2>9, Zenon DEF Paired
  <2> QED BY <2>3, <2>10, Zenon DEF PairInv
<1>10. ASSUME NEW c \in Conns, DecodeFailed(c) \/ ReadTimeout(c) PROVE PairInv'
  <2>1. DecodeError(c)
    BY <1>10, Zenon DEF DecodeFailed, ReadTimeout
  <2>2. UNCHANGED <<wpc, cur, conn, buf, wire, replies, tasks>>
    BY <2>1, Zenon DEF DecodeError, writerVars
  <2>3. /\ derr'[c] /\ \A d \in Conns : d # c => held'[d] = held[d] /\ up'[d] = up[d] /\ derr'[d] = derr[d]
    BY <2>1, Zenon DEF DecodeError, Types
  <2>4. ASSUME NEW d \in Conns, d # c PROVE Paired(d)'
    BY <1>0, <2>2, <2>3, <2>4, PairFrame, Zenon
  <2>5. Paired(c)'
    BY <2>3, Zenon DEF Paired
  <2> QED BY <2>4, <2>5, Zenon DEF PairInv
<1>11. ASSUME NEW c \in Conns, Execute(c) PROVE PairInv'
  <2>1. /\ UNCHANGED <<wpc, cur, conn, buf, up, tasks, held, derr>> /\ wire[c] # <<>>
        /\ wire' = [wire EXCEPT ![c] = Tail(wire[c])]
        /\ replies' = IF up[c] THEN [replies EXCEPT ![c] = Append(replies[c], Head(wire[c]))] ELSE replies
    BY <1>11, Zenon DEF Execute, writerVars
  <2>2. /\ wire'[c] = Tail(wire[c])
        /\ replies'[c] = IF up[c] THEN Append(replies[c], Head(wire[c])) ELSE replies[c]
        /\ \A d \in Conns : d # c => wire'[d] = wire[d] /\ replies'[d] = replies[d]
    BY <2>1, Zenon DEF Types
  <2>3. ASSUME NEW d \in Conns, d # c PROVE Paired(d)'
    BY <1>0, <2>1, <2>2, <2>3, PairFrame, Zenon
  <2>4. Append(replies[c], Head(wire[c])) \o Tail(wire[c]) = replies[c] \o wire[c]
    BY Zenon, <1>0, <2>1, ConcatShift
  <2>5. Sent(c)' = Sent(c) /\ Full(c)' = Full(c)
    <3>1. Full(c)' = Full(c)
      BY <2>1, Zenon DEF Full, Wanted
    <3>2. Sent(c)' = Sent(c)
      <4>1. CASE up[c]
        <5>1. /\ Sent(c)' = (Append(replies[c], Head(wire[c])) \o Tail(wire[c])) \o buf[c]
              /\ Sent(c) = (replies[c] \o wire[c]) \o buf[c]
          BY Zenon, <2>1, <2>2, <4>1 DEF Sent
        <5> QED BY <2>4, <5>1, Zenon
      <4>2. CASE ~up[c]
        BY <2>1, <2>2, <4>2, Zenon DEF Sent
      <4> QED BY <4>1, <4>2, Zenon
    <3> QED BY <3>1, <3>2, Zenon
  <2>6. Paired(c)'
    BY <1>0, <2>1, <2>5, PairSame, Zenon
  <2> QED BY <2>3, <2>6, Zenon DEF PairInv
<1>12. ASSUME NEW c \in Conns, ConnLost(c) PROVE PairInv'
  <2>1. /\ UNCHANGED <<wpc, cur, conn, buf, replies, tasks, held, derr>> /\ up[c]
        /\ up' = [up EXCEPT ![c] = FALSE] /\ wire' = [wire EXCEPT ![c] = <<>>]
    BY <1>12, Zenon DEF ConnLost, writerVars
  <2>2. ~up'[c] /\ \A d \in Conns : d # c => wire'[d] = wire[d] /\ up'[d] = up[d]
    BY <2>1, Zenon DEF Types
  <2>3. ASSUME NEW d \in Conns, d # c PROVE Paired(d)'
    BY Zenon, <1>0, <2>1, <2>2, <2>3, PairFrame
  <2>4. Full(c)' = Full(c) /\ Sent(c)' = replies[c] /\ Sent(c) = (replies[c] \o wire[c]) \o buf[c]
    BY Zenon, <2>1, <2>2 DEF Full, Wanted, Sent
  <2>5. replies[c] \o wire[c] \in Seq(Requests)
    BY <1>0, ConcatProperties, Zenon
  <2>6. ~derr[c] => /\ Agree(replies[c] \o wire[c], Full(c))
                    /\ Len(replies[c] \o wire[c]) <= Len(Sent(c))
    BY Zenon, <1>0, <2>4, <2>5, AgreePrefix DEF Paired
  <2>7. ~derr[c] => Agree(replies[c], Full(c)) /\ Len(replies[c]) <= Len(replies[c] \o wire[c])
    BY Zenon, <1>0, <2>6, AgreePrefix
  <2>8. ~derr[c] /\ wpc \in Live /\ c = conn => Len(replies[c]) <= Len(Full(c))
    <3>1. /\ Len(replies[c]) \in Nat /\ Len(replies[c] \o wire[c]) \in Nat /\ Len(Sent(c)) \in Nat
          /\ Len(Full(c)) \in Nat
      BY Zenon, <1>0, <2>5, LenProperties
    <3>2. ~derr[c] /\ wpc \in Live /\ c = conn => Len(Sent(c)) <= Len(Full(c))
      BY <1>0, Zenon DEF Paired
    <3>3. ASSUME ~derr[c], wpc \in Live, c = conn PROVE Len(replies[c]) <= Len(Full(c))
      <4>1. /\ Len(replies[c]) <= Len(replies[c] \o wire[c]) /\ Len(replies[c] \o wire[c]) <= Len(Sent(c))
            /\ Len(Sent(c)) <= Len(Full(c))
        BY Zenon, <2>6, <2>7, <3>2, <3>3
      <4>2. \A i, j, k, l \in Nat : i <= j /\ j <= k /\ k <= l => i <= l
        OBVIOUS
      <4> QED BY <3>1, <4>1, <4>2, Zenon
    <3> QED BY <3>3, Zenon
  <2>9. Paired(c)'
    BY Zenon, <2>1, <2>2, <2>4, <2>7, <2>8 DEF Paired
  <2> QED BY <2>3, <2>9, Zenon DEF PairInv
<1> QED BY <1>2, <1>3, <1>4, <1>5, <1>6, <1>7, <1>8, <1>9, <1>10, <1>11, <1>12, Zenon
        DEF Next, WriterStep, ReaderStep

-----------------------------------------------------------------------------
\* Every step keeps the answers right: a reply is decoded for the request in hand.
LEMMA AnswerStep ==
    ASSUME Types, WriterInv, QueueInv, SentInv, AnswerInv, PairInv, Next
    PROVE  AnswerInv'
<1>1. ASSUME NEW s \in Sessions, PushBack(s) PROVE AnswerInv'
  <2>1. \A q \in Requests : Pushed(q) => Pushed(q)'
    BY Zenon, <1>1, PushedOne
  <2> QED BY <1>1, <2>1, Zenon DEF PushBack, respVars, AnswerInv
<1>2. CASE UNCHANGED <<pushed, answer, ran>>
  BY <1>2, Zenon DEF AnswerInv, Pushed
<1>3. ASSUME NEW r \in Requests, SetResponse(r, Error), Pushed(r), UNCHANGED <<pushed, ran>>
      PROVE  AnswerInv'
  <2>1. answer'[r] = Error /\ \A q \in Requests : q # r => answer'[q] = answer[q]
    BY <1>3, AnswerOne, Zenon
  <2>2. Error.kind # "reply"
    BY Zenon DEF Error
  <2> QED BY <1>3, <2>1, <2>2, Zenon DEF AnswerInv, Pushed
<1>4. CASE DialFailed \/ Discard \/ SendFailed
  <2>1. cur # NoReq /\ SetResponse(cur, Error) /\ UNCHANGED <<pushed, ran>>
    BY <1>4, Zenon DEF DialFailed, Discard, SendFailed, Broken, WriterInv
  <2>2. cur \in Requests /\ Pushed(cur)
    BY <2>1, Zenon DEF Types, QueueInv, Waiting, Hand
  <2> QED BY <1>3, <2>1, <2>2, Zenon
<1>5. CASE Drain
  <2>1. SetResponse(Head(input), Error) /\ UNCHANGED <<pushed, ran>> /\ input # <<>>
    BY <1>5, EmptySeq DEF Drain, WriterInv, Types
  <2>2. Head(input) \in Requests /\ Head(input) \in Range(input)
    BY <2>1, TailSet, Zenon DEF Types
  <2>3. Pushed(Head(input))
    BY <2>2, Zenon DEF QueueInv, Waiting
  <2> QED BY <1>3, <2>1, <2>2, <2>3, Zenon
<1>6. ASSUME NEW c \in Conns, DecodeFailed(c) \/ ReadTimeout(c) PROVE AnswerInv'
  <2>1. held[c] # NoReq /\ SetResponse(held[c], Error) /\ UNCHANGED <<pushed, ran>>
    BY <1>6, Zenon DEF DecodeFailed, ReadTimeout, DecodeError
  <2>2. held[c] \in Requests /\ Pushed(held[c])
    BY <2>1, Zenon DEF Types, QueueInv, Open
  <2> QED BY <1>3, <2>1, <2>2, Zenon
<1>7. ASSUME NEW c \in Conns, Decode(c) PROVE AnswerInv'
  <2> DEFINE r == held[c]
  <2>1. /\ held[c] # NoReq /\ ~derr[c] /\ replies[c] # <<>>
        /\ SetResponse(r, ReplyTo(Head(replies[c]))) /\ UNCHANGED <<pushed, ran>>
    BY Zenon, <1>7 DEF Decode
  <2>2. r \in Requests /\ Pushed(r) /\ Head(replies[c]) = r
    BY Zenon, <2>1, HeadIsHeld DEF Types, QueueInv, Open
  <2>3. ran[r] = 1
    <3>1. Head(replies[c]) \in Range(replies[c])
      BY <2>1, TailSet, Zenon DEF Types
    <3> QED BY <2>2, <3>1, Zenon DEF SentInv
  <2>4. answer'[r] = ReplyTo(r) /\ \A q \in Requests : q # r => answer'[q] = answer[q]
    BY <2>1, <2>2, AnswerOne, Zenon
  <2>5. ReplyTo(r).of = r
    BY Zenon DEF ReplyTo
  <2> HIDE DEF r
  <2> QED BY <2>1, <2>2, <2>3, <2>4, <2>5, Zenon DEF AnswerInv, Pushed
<1>8. ASSUME NEW c \in Conns, Execute(c) PROVE AnswerInv'
  <2> DEFINE r == Head(wire[c])
  <2>1. /\ wire[c] # <<>> /\ ran' = [ran EXCEPT ![r] = ran[r] + 1]
        /\ UNCHANGED <<pushed, answer>>
    BY <1>8, Zenon DEF Execute, respVars
  <2>2. r \in Requests /\ r \in Outgoing(c)
    BY <2>1, TailSet, Zenon DEF Types, Outgoing
  <2>3. ran[r] = 0 /\ Pushed(r)
    BY <2>2, Zenon DEF SentInv
  <2>4. \A q \in Requests : q # r => ran'[q] = ran[q]
    BY <2>1, <2>2, Zenon DEF Types
  <2>5. answer[r].kind # "reply"
    BY SMTT(30), <2>2, <2>3 DEF AnswerInv
  <2> HIDE DEF r
  <2> QED BY <2>1, <2>3, <2>4, <2>5, Zenon DEF AnswerInv, Pushed
<1>9. CASE Close \/ First \/ Dial \/ Send \/ Enqueue \/ Receive \/ Restart
  BY Zenon, <1>2, <1>9 DEF Close, First, Dial, Send, Enqueue, Receive, Restart, respVars
<1>10. ASSUME NEW c \in Conns, ReaderNext(c) \/ ConnLost(c) PROVE AnswerInv'
  BY <1>2, <1>10, Zenon DEF ReaderNext, ConnLost, respVars
<1> QED BY <1>1, <1>4, <1>5, <1>6, <1>7, <1>8, <1>9, <1>10, Zenon DEF Next, WriterStep, ReaderStep

-----------------------------------------------------------------------------
\* The invariant holds initially ...
LEMMA ConnInit == Init => ConnInv
<1> SUFFICES ASSUME Init PROVE ConnInv
  BY Zenon
<1>1. /\ <<>> \in Seq(Requests) /\ Len(<<>>) = 0 /\ Range(<<>>) = {} /\ IsInjective(<<>>)
      /\ (<<>> \o <<>>) \o <<>> = <<>>
      /\ {Pushes, MaxBuffered, MaxConns, InputCap, TaskCap} \subseteq Nat /\ NoReq \notin Requests
  BY EmptySeq, ConcatEmptySeq, BoundsAssumption DEF Range, IsInjective, Requests
<1>2. /\ buf = [c \in Conns |-> <<>>] /\ wire = [c \in Conns |-> <<>>]
      /\ replies = [c \in Conns |-> <<>>] /\ tasks = [c \in Conns |-> <<>>]
      /\ up = [c \in Conns |-> FALSE] /\ ended = [c \in Conns |-> FALSE]
      /\ derr = [c \in Conns |-> FALSE] /\ held = [c \in Conns |-> NoReq]
  BY Zenon DEF Init
<1>3. Types
  <2>1. /\ pushed \in [Sessions -> 0 .. Pushes] /\ answer \in [Requests -> Answers]
        /\ answers \in [Requests -> Nat] /\ ran \in [Requests -> Nat] /\ failed \in [Sessions -> BOOLEAN]
    BY <1>1, AnswerKinds DEF Init
  <2>2. /\ input \in Seq(Requests) /\ Len(input) <= InputCap /\ closed \in BOOLEAN
        /\ wpc = "first" /\ cur = NoReq /\ drain \in 0 .. InputCap /\ conn \in 0 .. MaxConns
    <3>1. /\ input = <<>> /\ closed = FALSE /\ wpc = "first" /\ cur = NoReq /\ drain = 0 /\ conn = 0
      BY Zenon DEF Init
    <3>2. InputCap \in Nat /\ MaxConns \in Nat
      BY <1>1, Zenon
    <3>3. input \in Seq(Requests) /\ Len(input) <= InputCap
      BY <1>1, <3>1, <3>2
    <3>4. drain \in 0 .. InputCap /\ conn \in 0 .. MaxConns
      BY <3>1, <3>2
    <3>5. closed \in BOOLEAN
      BY Zenon, <3>1
    <3> QED BY <3>1, <3>3, <3>4, <3>5, Zenon
  <2>3. /\ buf \in [Conns -> Seq(Requests)] /\ wire \in [Conns -> Seq(Requests)]
        /\ replies \in [Conns -> Seq(Requests)] /\ tasks \in [Conns -> Seq(Requests)]
    BY <1>1, <1>2, Zenon
  <2>4. \A c \in Conns : Len(buf[c]) <= MaxBuffered + 1 /\ Len(tasks[c]) <= TaskCap
    BY <1>1, <1>2
  <2>5. /\ up \in [Conns -> BOOLEAN] /\ ended \in [Conns -> BOOLEAN] /\ derr \in [Conns -> BOOLEAN]
        /\ held \in [Conns -> Requests \cup {NoReq}]
    BY <1>2, Zenon
  <2> QED BY <2>1, <2>2, <2>3, <2>4, <2>5, Zenon DEF Types
<1>4. WriterInv
  BY <1>2, Zenon DEF Init, WriterInv, Live, Unused
<1>5. Waiting = {} /\ Unsent = {} /\ Hand = {} /\ \A c \in Conns : Open(c) = {} /\ Outgoing(c) = {}
  <2>1. Waiting = {} /\ Unsent = {} /\ Hand = {}
    BY <1>1, Zenon DEF Init, Waiting, Unsent, Hand
  <2>2. \A c \in Conns : Open(c) = {} /\ Outgoing(c) = {}
    BY <1>1, <1>2, Zenon DEF Open, Outgoing
  <2> QED BY <2>1, <2>2, Zenon
<1>6. QueueInv
  BY <1>1, <1>2, <1>5, Zenon DEF QueueInv, Init
<1>7. SentInv
  BY <1>1, <1>2, <1>5, Zenon DEF SentInv
<1>8. AnswerInv
  BY Zenon DEF Init, AnswerInv, None
<1>9. \A c \in Conns : Sent(c) = <<>>
  BY <1>2, Zenon DEF Sent
<1>10. PairInv
  BY <1>1, <1>9 DEF PairInv, Paired, Agree, Init, Live
<1> QED BY <1>3, <1>4, <1>6, <1>7, <1>8, <1>10, TypesAreTypeOK, Zenon DEF ConnInv

\* ... and in every step.
LEMMA ConnStep == ConnInv /\ [Next]_vars => ConnInv'
<1> SUFFICES ASSUME ConnInv, [Next]_vars PROVE ConnInv'
  BY Zenon
<1>1. Types /\ WriterInv /\ QueueInv /\ SentInv /\ AnswerInv /\ PairInv
  BY TypesAreTypeOK, Zenon DEF ConnInv
<1>2. CASE Next
  <2>1. Types' /\ WriterInv' /\ QueueInv' /\ SentInv' /\ AnswerInv' /\ PairInv'
    BY <1>1, <1>2, TypesStep, WriterStepInv, QueueStep, SentStep, AnswerStep, PairStep, Zenon
  <2>2. TypeOK'
    BY <2>1, Zenon DEF Types, TypeOK
  <2> QED BY <2>1, <2>2, Zenon DEF ConnInv
<1>3. CASE UNCHANGED vars
  <2>1. UNCHANGED <<pushed, input, closed, failed, answer, answers, wpc, cur, drain, conn, buf, wire,
                    replies, up, tasks, ended, held, derr, ran>>
    BY Zenon, <1>3 DEF vars, respVars, writerVars, connVars
  <2>2. TypeOK'
    BY Zenon, <1>1, <2>1 DEF Types, TypeOK
  <2>3. WriterInv'
    BY <1>1, <2>1, Zenon DEF WriterInv, Unused
  <2>4. QueueInv' /\ SentInv'
    <3>1. Unsent' = Unsent
      BY <2>1, Zenon DEF Unsent, Hand
    <3> QED BY <1>1, <2>1, <3>1, QueueFrame, SentFrame, Zenon
  <2>5. AnswerInv'
    BY <1>1, <2>1, Zenon DEF AnswerInv, Pushed
  <2>6. PairInv'
    BY <1>1, <2>1, PairFrame, Zenon DEF PairInv
  <2> QED BY Zenon, <2>2, <2>3, <2>4, <2>5, <2>6 DEF ConnInv
<1> QED BY <1>2, <1>3, Zenon

\* The inductive invariant: the writer's state, the requests in the queues between
\* the goroutines, those on their way to redis, the answers, and the pairing of
\* replies with requests by position.
THEOREM ConnAlways == Spec => []ConnInv
  BY ConnInit, ConnStep, PTL DEF Spec

\* setResponse is never called with the reply to another request, although
\* loopReader pairs replies and requests by their position only and Run goes on
\* with the next connection while the old one is still being read.
THEOREM RepliesMatch == Spec => []ReplyIsMine
<1>1. ConnInv => ReplyIsMine
  BY Zenon DEF ConnInv, AnswerInv, ReplyIsMine
<1> QED BY <1>1, ConnAlways, PTL
-----------------------------------------------------------------------------
\* The state of a request as RequestService sees it, and that of all of them.
Phase(p, a, r) ==
    IF r[2] > p[r[1]] THEN "new"
    ELSE CASE a[r].kind = "none" -> "pushed"
           [] a[r].kind = "reply" -> "replied"
           [] a[r].kind = "error" -> "failed"
StateAt(p, a) == [r \in Requests |-> Phase(p, a, r)]

\* What the phase is, by what has been pushed and answered.
LEMMA PhaseCases ==
    ASSUME NEW p \in [Sessions -> 0 .. Pushes], NEW a \in [Requests -> Answers], NEW r \in Requests
    PROVE  /\ ~(r[2] <= p[r[1]]) => Phase(p, a, r) = "new"
           /\ r[2] <= p[r[1]] /\ a[r].kind = "none" => Phase(p, a, r) = "pushed"
           /\ r[2] <= p[r[1]] /\ a[r].kind = "reply" => Phase(p, a, r) = "replied"
           /\ r[2] <= p[r[1]] /\ a[r].kind = "error" => Phase(p, a, r) = "failed"
           /\ a[r].kind \in {"none", "reply", "error"}
<1>1. r[1] \in Sessions /\ r[2] \in Nat /\ p[r[1]] \in Nat
  BY BoundsAssumption DEF Requests
<1>2. r[2] > p[r[1]] <=> ~(r[2] <= p[r[1]])
  BY <1>1
<1>3. a[r].kind \in {"none", "reply", "error"}
  BY DEF Answers, None, Error, ReplyTo
<1> QED BY <1>2, <1>3, Zenon DEF Phase

\* It depends on nothing else.
LEMMA PhaseSame ==
    ASSUME NEW p \in [Sessions -> 0 .. Pushes], NEW a \in [Requests -> Answers],
           NEW q \in [Sessions -> 0 .. Pushes], NEW b \in [Requests -> Answers],
           NEW r \in Requests, r[2] <= p[r[1]] <=> r[2] <= q[r[1]], a[r] = b[r]
    PROVE  Phase(p, a, r) = Phase(q, b, r)
<1>1. /\ ~(r[2] <= p[r[1]]) => Phase(p, a, r) = "new"
      /\ r[2] <= p[r[1]] /\ a[r].kind = "none" => Phase(p, a, r) = "pushed"
      /\ r[2] <= p[r[1]] /\ a[r].kind = "reply" => Phase(p, a, r) = "replied"
      /\ r[2] <= p[r[1]] /\ a[r].kind = "error" => Phase(p, a, r) = "failed"
      /\ a[r].kind \in {"none", "reply", "error"}
  BY PhaseCases, Zenon
<1>2. /\ ~(r[2] <= q[r[1]]) => Phase(q, b, r) = "new"
      /\ r[2] <= q[r[1]] /\ b[r].kind = "none" => Phase(q, b, r) = "pushed"
      /\ r[2] <= q[r[1]] /\ b[r].kind = "reply" => Phase(q, b, r) = "replied"
      /\ r[2] <= q[r[1]] /\ b[r].kind = "error" => Phase(q, b, r) = "failed"
  BY PhaseCases, Zenon
<1> QED BY <1>1, <1>2

\* An answer takes a request from "pushed" to "replied" or "failed".
LEMMA StateAnswered ==
    ASSUME Types, Types', NEW r \in Requests, NEW a \in Answers, SetResponse(r, a), pushed' = pushed,
           Pushed(r), answer[r] = None, a.kind \in {"reply", "error"}
    PROVE  /\ StateAt(pushed, answer)[r] = "pushed"
           /\ StateAt(pushed', answer') =
                [StateAt(pushed, answer) EXCEPT ![r] = IF a.kind = "reply" THEN "replied" ELSE "failed"]
<1>1. answer'[r] = a /\ \A q \in Requests : q # r => answer'[q] = answer[q]
  BY AnswerOne, Zenon
<1>0. /\ pushed \in [Sessions -> 0 .. Pushes] /\ answer \in [Requests -> Answers]
      /\ pushed' \in [Sessions -> 0 .. Pushes] /\ answer' \in [Requests -> Answers]
  BY Zenon DEF Types
<1>2. Phase(pushed, answer, r) = "pushed"
  <2>1. r[2] <= pushed[r[1]] /\ answer[r].kind = "none"
    BY DEF Pushed, None
  <2> QED BY <1>0, <2>1, PhaseCases, Zenon
<1>3. Phase(pushed', answer', r) = IF a.kind = "reply" THEN "replied" ELSE "failed"
  <2>1. r[2] <= pushed'[r[1]]
    BY Zenon DEF Pushed
  <2> QED BY <1>0, <1>1, <2>1, PhaseCases, Zenon
<1>4. \A q \in Requests : q # r => Phase(pushed', answer', q) = Phase(pushed, answer, q)
  BY <1>0, <1>1, PhaseSame
<1> QED BY Zenon, <1>2, <1>3, <1>4 DEF StateAt

\* A step maps to one of RequestService, or to no change: PushBack to Push, an
\* answer with an error to Fail, Decode to Reply, and Execute to Run.
LEMMA ServiceStep == ConnInv /\ ConnInv' /\ [Next]_vars => [Service!Next]_(Service!vars)
<1> SUFFICES ASSUME ConnInv, ConnInv', [Next]_vars PROVE [Service!Next]_(Service!vars)
  BY Zenon
<1>0. Types /\ Types' /\ WriterInv /\ QueueInv /\ SentInv /\ AnswerInv /\ PairInv
  <2>1. Types /\ WriterInv /\ QueueInv /\ SentInv /\ AnswerInv /\ PairInv
    BY Zenon, TypesAreTypeOK DEF ConnInv
  <2>2. Types'
    BY Zenon DEF ConnInv, TypeOK, Types
  <2> QED BY <2>1, <2>2, Zenon
<1>1. ASSUME UNCHANGED <<pushed, answer, ran>> PROVE UNCHANGED Service!vars
  BY <1>1 DEF Service!vars
<1>2. ASSUME NEW r \in Requests, StateAt(pushed, answer)[r] = "pushed", StateAt(pushed', answer') = [StateAt(pushed, answer) EXCEPT ![r] = "failed"], ran' = ran
      PROVE  Service!Fail(r)
  BY Zenon, <1>2 DEF Service!Fail, StateAt, Phase
<1>13. ASSUME NEW r \in Requests,
              Service!Push(r) \/ Service!Run(r) \/ Service!Reply(r) \/ Service!Fail(r)
       PROVE  Service!Next
  BY <1>13, Zenon DEF Service!Next
<1>3. ASSUME NEW r \in Requests, SetResponse(r, Error), Pushed(r), answer[r] = None,
             UNCHANGED <<pushed, ran>>
      PROVE  Service!Next
  <2>1. Error \in Answers /\ Error.kind = "error"
    BY AnswerKinds, Zenon DEF Error
  <2>2. StateAt(pushed, answer)[r] = "pushed" /\ StateAt(pushed', answer') = [StateAt(pushed, answer) EXCEPT ![r] = "failed"]
    BY <1>0, <1>3, <2>1, StateAnswered, Zenon
  <2> QED BY Zenon, <1>2, <1>3, <2>2, <1>13
<1>4. CASE DialFailed \/ Discard \/ SendFailed
  <2>1. cur # NoReq /\ SetResponse(cur, Error) /\ UNCHANGED <<pushed, ran>>
    BY <1>0, <1>4, Zenon DEF DialFailed, Discard, SendFailed, Broken, WriterInv
  <2>2. cur \in Requests /\ Pushed(cur) /\ answer[cur] = None
    BY <1>0, <2>1, Zenon DEF Types, QueueInv, Waiting, Hand
  <2> QED BY <1>3, <2>1, <2>2, Zenon
<1>5. CASE Drain
  <2>1. SetResponse(Head(input), Error) /\ UNCHANGED <<pushed, ran>> /\ input # <<>>
    BY SMTT(30), <1>0, <1>5, EmptySeq DEF Drain, WriterInv, Types
  <2>2. Head(input) \in Requests /\ Head(input) \in Range(input)
    BY Zenon, <1>0, <2>1, TailSet DEF Types
  <2>3. Pushed(Head(input)) /\ answer[Head(input)] = None
    BY <1>0, <2>2, Zenon DEF QueueInv, Waiting
  <2> QED BY <1>3, <2>1, <2>2, <2>3, Zenon
<1>6. ASSUME NEW c \in Conns, DecodeFailed(c) \/ ReadTimeout(c) PROVE Service!Next
  <2>1. held[c] # NoReq /\ SetResponse(held[c], Error) /\ UNCHANGED <<pushed, ran>>
    BY <1>6, Zenon DEF DecodeFailed, ReadTimeout, DecodeError
  <2>2. held[c] \in Requests /\ Pushed(held[c]) /\ answer[held[c]] = None
    BY Zenon, <1>0, <2>1 DEF Types, QueueInv, Open
  <2> QED BY <1>3, <2>1, <2>2, Zenon
<1>7. ASSUME NEW c \in Conns, Decode(c) PROVE Service!Next
  <2>0. PICK r \in Requests : r = held[c]
    BY Zenon, <1>0, <1>7 DEF Decode, Types
  <2>1. /\ held[c] # NoReq /\ ~derr[c] /\ replies[c] # <<>>
        /\ SetResponse(r, ReplyTo(Head(replies[c]))) /\ UNCHANGED <<pushed, ran>>
    BY <1>7, <2>0, Zenon DEF Decode
  <2>2. r \in Requests /\ Pushed(r) /\ answer[r] = None
    BY Zenon, <1>0, <2>0, <2>1 DEF QueueInv, Open
  <2>3. Head(replies[c]) = r /\ ran[r] = 1
    <3>1. Head(replies[c]) = r
      BY Zenon, <1>0, <2>0, <2>1, HeadIsHeld
    <3>2. Head(replies[c]) \in Range(replies[c])
      BY Zenon, <1>0, <2>1, TailSet DEF Types
    <3> QED BY <1>0, <3>1, <3>2, Zenon DEF SentInv
  <2>4. ReplyTo(r) \in Answers /\ ReplyTo(r).kind = "reply"
    BY Zenon, <2>2, AnswerKinds DEF ReplyTo
  <2>5. StateAt(pushed, answer)[r] = "pushed" /\ StateAt(pushed', answer') = [StateAt(pushed, answer) EXCEPT ![r] = "replied"]
    BY <1>0, <2>1, <2>2, <2>3, <2>4, StateAnswered, Zenon
  <2>6. Service!Reply(r)
    BY Zenon, <2>1, <2>3, <2>5 DEF Service!Reply, StateAt, Phase
  <2> QED BY Zenon, <1>13, <2>2, <2>6
<1>8. ASSUME NEW s \in Sessions, PushBack(s) PROVE Service!Next
  <2>1. PICK r \in Requests : ~Pushed(r) /\ \A q \in Requests : Pushed(q)' <=> Pushed(q) \/ q = r
    BY Zenon, <1>0, <1>8, PushedOne
  <2>2. UNCHANGED <<answer, ran>>
    BY <1>8, Zenon DEF PushBack, respVars
  <2>3. answer[r] = None /\ None.kind = "none"
    BY <1>0, <2>1, Zenon DEF AnswerInv, None
  <2>4. /\ pushed \in [Sessions -> 0 .. Pushes] /\ answer \in [Requests -> Answers]
        /\ pushed' \in [Sessions -> 0 .. Pushes] /\ answer' \in [Requests -> Answers]
    BY Zenon, <1>0 DEF Types
  <2>5. Phase(pushed, answer, r) = "new" /\ Phase(pushed', answer', r) = "pushed"
    <3>1. Phase(pushed, answer, r) = "new"
      BY <2>1, <2>4, PhaseCases DEF Pushed
    <3>2. r[2] <= pushed'[r[1]] /\ answer'[r].kind = "none"
      BY <2>1, <2>2, <2>3, Zenon DEF Pushed
    <3> QED BY <2>1, <2>4, <3>1, <3>2, PhaseCases, Zenon
  <2>6. ASSUME NEW q \in Requests, q # r PROVE Phase(pushed', answer', q) = Phase(pushed, answer, q)
    <3>1. q[2] <= pushed'[q[1]] <=> q[2] <= pushed[q[1]]
      BY <2>1, <2>6, Zenon DEF Pushed
    <3> QED BY <2>2, <2>4, <3>1, PhaseSame, Zenon
  <2>7. /\ StateAt(pushed, answer)[r] = "new"
        /\ StateAt(pushed', answer') = [StateAt(pushed, answer) EXCEPT ![r] = "pushed"]
    BY Zenon, <2>1, <2>5, <2>6 DEF StateAt
  <2>8. Service!Push(r)
    BY Zenon, <2>2, <2>7 DEF Service!Push, StateAt, Phase
  <2> QED BY <1>13, <2>1, <2>8, Zenon
<1>9. ASSUME NEW c \in Conns, Execute(c) PROVE Service!Next
  <2>0. PICK r \in Requests : r = Head(wire[c])
    BY Zenon, <1>0, <1>9, TailSet DEF Execute, Types
  <2>1. /\ wire[c] # <<>> /\ ran' = [ran EXCEPT ![r] = ran[r] + 1]
        /\ UNCHANGED <<pushed, answer>>
    BY <1>9, <2>0, Zenon DEF Execute, respVars
  <2>2. r \in Requests /\ r \in Outgoing(c)
    BY Zenon, <1>0, <2>0, <2>1, TailSet DEF Types, Outgoing
  <2>3. ran[r] = 0 /\ Pushed(r) /\ answer[r].kind # "reply"
    BY <1>0, <2>2 DEF SentInv, AnswerInv
  <2>4. ran' = [ran EXCEPT ![r] = 1]
    BY <2>1, <2>3
  <2>5. StateAt(pushed, answer)[r] \in {"pushed", "failed"} /\ StateAt(pushed', answer') = StateAt(pushed, answer)
    <3>1. Phase(pushed, answer, r) \in {"pushed", "failed"}
      BY Zenon, <1>0, <2>2, <2>3, PhaseCases DEF Types, Pushed
    <3> QED BY <2>1, <2>2, <3>1, Zenon DEF StateAt
  <2>6. Service!Run(r)
    BY Zenon, <2>3, <2>4, <2>5 DEF Service!Run, StateAt, Phase
  <2> QED BY <1>13, <2>2, <2>6, Zenon
<1>10. CASE Close \/ First \/ Dial \/ Send \/ Enqueue \/ Receive \/ Restart
  BY <1>1, <1>10, Zenon DEF Close, First, Dial, Send, Enqueue, Receive, Restart, respVars
<1>11. ASSUME NEW c \in Conns, ReaderNext(c) \/ ConnLost(c) PROVE UNCHANGED Service!vars
  BY <1>1, <1>11, Zenon DEF ReaderNext, ConnLost, respVars
<1>12. CASE UNCHANGED vars
  BY <1>1, <1>12, Zenon DEF vars, respVars
<1> QED BY <1>4, <1>5, <1>6, <1>7, <1>8, <1>9, <1>10, <1>11, <1>12, Zenon
        DEF Next, WriterStep, ReaderStep

\* A backend connection keeps the promise of RequestService: one answer to each
\* request, a reply only to what redis has executed, nothing executed twice.
THEOREM ServiceImplemented == Spec => ImplementsService
<1>1. Init => Service!Init
  <2> SUFFICES ASSUME Init PROVE Service!Init
    BY Zenon
  <2>1. Types /\ \A r \in Requests : ~Pushed(r)
    <3>1. Types
      BY ConnInit, TypesAreTypeOK, Zenon DEF ConnInv
    <3>2. ASSUME NEW r \in Requests PROVE ~Pushed(r)
      BY BoundsAssumption DEF Init, Pushed, Requests
    <3> QED BY <3>1, <3>2, Zenon
  <2>2. \A r \in Requests : Phase(pushed, answer, r) = "new"
    BY Zenon, <2>1, PhaseCases DEF Types, Pushed
  <2>3. StateAt(pushed, answer) = [r \in Requests |-> "new"]
    BY <2>2, Zenon DEF StateAt
  <2>4. ran = [r \in Requests |-> 0]
    BY Zenon DEF Init
  <2> QED BY Zenon, <2>3, <2>4 DEF Service!Init, StateAt, Phase
<1> QED BY <1>1, ServiceStep, ConnAlways, PTL DEF Spec, ImplementsService, Service!Spec
=============================================================================
