-------------------------- MODULE BackendConnQueues --------------------------
(***************************************************************************)
(* The queues of a backend connection: facts about sequences that the      *)
(* proofs keep needing, and the part of the inductive invariant ConnInv    *)
(* (BackendConnProofs) that says where a request can be: waiting in input  *)
(* or in the writer's hand, open at one reader, or answered (QueueInv).    *)
(***************************************************************************)
EXTENDS BackendConn, Functions, TLAPS

\* What the proofs use of sequences.
LEMMA LenProperties ==
    ASSUME NEW S, NEW s \in Seq(S)
    PROVE  Len(s) \in Nat /\ s \in [1 .. Len(s) -> S] /\ DOMAIN s = 1 .. Len(s)
OBVIOUS
LEMMA EmptySeq ==
    ASSUME NEW S
    PROVE  /\ <<>> \in Seq(S) /\ Len(<<>>) = 0
           /\ \A s \in Seq(S) : s # <<>> => Len(s) \in Nat \ {0}
OBVIOUS
LEMMA SeqEqual ==
    ASSUME NEW S, NEW s \in Seq(S), NEW t \in Seq(S),
           Len(s) = Len(t), \A i \in 1 .. Len(s) : s[i] = t[i]
    PROVE  s = t
OBVIOUS
LEMMA AppendProperties ==
    ASSUME NEW S, NEW s \in Seq(S), NEW x \in S
    PROVE  /\ Append(s, x) \in Seq(S) /\ Append(s, x) # <<>> /\ Len(Append(s, x)) = Len(s) + 1
           /\ \A i \in 1 .. Len(s) : Append(s, x)[i] = s[i]
           /\ Append(s, x)[Len(s) + 1] = x
OBVIOUS
LEMMA HeadTailProperties ==
    ASSUME NEW S, NEW s \in Seq(S), s # <<>>
    PROVE  /\ Head(s) \in S /\ Tail(s) \in Seq(S) /\ Len(Tail(s)) = Len(s) - 1
           /\ \A i \in 1 .. Len(Tail(s)) : Tail(s)[i] = s[i + 1]
OBVIOUS
LEMMA ConcatProperties ==
    ASSUME NEW S, NEW s \in Seq(S), NEW t \in Seq(S)
    PROVE  /\ s \o t \in Seq(S) /\ Len(s \o t) = Len(s) + Len(t)
           /\ \A i \in 1 .. Len(s) + Len(t) :
                 (s \o t)[i] = IF i <= Len(s) THEN s[i] ELSE t[i - Len(s)]
OBVIOUS
LEMMA ConcatEmptySeq ==
    ASSUME NEW S, NEW s \in Seq(S)
    PROVE  s \o <<>> = s /\ <<>> \o s = s
OBVIOUS
LEMMA ConcatAssociative ==
    ASSUME NEW S, NEW s \in Seq(S), NEW t \in Seq(S), NEW u \in Seq(S)
    PROVE  (s \o t) \o u = s \o (t \o u)
OBVIOUS
LEMMA AppendIsConcat ==
    ASSUME NEW S, NEW s \in Seq(S), NEW x \in S
    PROVE  Append(s, x) = s \o <<x>>
OBVIOUS
LEMMA PrefixProperties ==
    ASSUME NEW S, NEW s \in Seq(S), NEW k \in 0 .. Len(s)
    PROVE  /\ SubSeq(s, 1, k) \in Seq(S) /\ Len(SubSeq(s, 1, k)) = k
           /\ \A i \in 1 .. k : SubSeq(s, 1, k)[i] = s[i]
OBVIOUS
LEMMA HeadTailAppend ==
    ASSUME NEW S, NEW s \in Seq(S), NEW x \in S
    PROVE  /\ Head(Append(s, x)) = IF s = <<>> THEN x ELSE Head(s)
           /\ Tail(Append(s, x)) = IF s = <<>> THEN <<>> ELSE Append(Tail(s), x)
OBVIOUS

\* An element is added at the end.
LEMMA AppendSet ==
    ASSUME NEW S, NEW s \in Seq(S), NEW x \in S
    PROVE  /\ Append(s, x) \in Seq(S) /\ Len(Append(s, x)) = Len(s) + 1
           /\ Range(Append(s, x)) = Range(s) \cup {x}
           /\ IsInjective(s) /\ x \notin Range(s) => IsInjective(Append(s, x))
<1>1. /\ Append(s, x) \in Seq(S) /\ Len(Append(s, x)) = Len(s) + 1
      /\ \A i \in 1 .. Len(s) : Append(s, x)[i] = s[i]
      /\ Append(s, x)[Len(s) + 1] = x
  BY AppendProperties
<1>2. Len(s) \in Nat /\ DOMAIN s = 1 .. Len(s) /\ DOMAIN Append(s, x) = 1 .. Len(s) + 1
  BY <1>1
<1> QED BY <1>1, <1>2 DEF Range, IsInjective

\* The first element is taken off.
LEMMA TailSet ==
    ASSUME NEW S, NEW s \in Seq(S), s # <<>>
    PROVE  /\ Head(s) \in S /\ Head(s) \in Range(s)
           /\ Tail(s) \in Seq(S) /\ Len(Tail(s)) = Len(s) - 1
           /\ Range(Tail(s)) \subseteq Range(s)
           /\ IsInjective(s) => /\ Range(Tail(s)) = Range(s) \ {Head(s)}
                                /\ IsInjective(Tail(s))
<1>1. /\ Head(s) \in S /\ Tail(s) \in Seq(S) /\ Len(Tail(s)) = Len(s) - 1
      /\ \A i \in 1 .. Len(s) - 1 : Tail(s)[i] = s[i + 1]
      /\ Len(s) \in Nat \ {0} /\ Head(s) = s[1]
  BY HeadTailProperties, EmptySeq
<1>2. DOMAIN s = 1 .. Len(s) /\ DOMAIN Tail(s) = 1 .. Len(s) - 1
  BY <1>1
<1>3. \A j \in 1 .. Len(s) : j # 1 => j - 1 \in 1 .. Len(s) - 1 /\ Tail(s)[j - 1] = s[j]
  BY <1>1
<1>4. Head(s) \in Range(s) /\ Range(Tail(s)) \subseteq Range(s)
  BY <1>1, <1>2 DEF Range
<1>5. ASSUME IsInjective(s) PROVE Range(Tail(s)) = Range(s) \ {Head(s)}
  <2>1. Head(s) \notin Range(Tail(s))
    BY <1>1, <1>2, <1>5 DEF Range, IsInjective
  <2>2. ASSUME NEW x \in Range(s), x # Head(s) PROVE x \in Range(Tail(s))
    <3>1. PICK j \in 1 .. Len(s) : x = s[j]
      BY <1>2, Zenon DEF Range
    <3>2. j # 1
      BY <1>1, <2>2, <3>1, Zenon
    <3> QED BY Zenon, <1>2, <1>3, <3>1, <3>2 DEF Range
  <2> QED BY <1>4, <2>1, <2>2, Zenon
<1>6. ASSUME IsInjective(s) PROVE IsInjective(Tail(s))
  BY <1>1, <1>2, <1>6 DEF IsInjective
<1> QED BY <1>1, <1>4, <1>5, <1>6, Zenon

\* Two sequences are joined.
LEMMA ConcatSet ==
    ASSUME NEW S, NEW s \in Seq(S), NEW t \in Seq(S)
    PROVE  /\ s \o t \in Seq(S) /\ Len(s \o t) = Len(s) + Len(t)
           /\ Range(s \o t) = Range(s) \cup Range(t)
           /\ IsInjective(s) /\ IsInjective(t) /\ Range(s) \cap Range(t) = {} => IsInjective(s \o t)
<1>1. /\ s \o t \in Seq(S) /\ Len(s \o t) = Len(s) + Len(t)
      /\ \A i \in 1 .. Len(s) + Len(t) :
            (s \o t)[i] = IF i <= Len(s) THEN s[i] ELSE t[i - Len(s)]
  BY ConcatProperties, Zenon
<1>2. /\ Len(s) \in Nat /\ Len(t) \in Nat /\ DOMAIN s = 1 .. Len(s) /\ DOMAIN t = 1 .. Len(t)
      /\ DOMAIN (s \o t) = 1 .. Len(s) + Len(t)
  BY <1>1
<1>3. /\ \A i \in 1 .. Len(s) : i \in 1 .. Len(s) + Len(t) /\ (s \o t)[i] = s[i]
      /\ \A i \in 1 .. Len(t) : i + Len(s) \in 1 .. Len(s) + Len(t) /\ (s \o t)[i + Len(s)] = t[i]
  BY <1>1, <1>2
<1>4. \A i \in 1 .. Len(s) + Len(t) :
         \/ i \in 1 .. Len(s) /\ (s \o t)[i] = s[i]
         \/ i - Len(s) \in 1 .. Len(t) /\ (s \o t)[i] = t[i - Len(s)]
  BY <1>1, <1>2
<1>5. Range(s \o t) = Range(s) \cup Range(t)
  <2>1. Range(s) \cup Range(t) \subseteq Range(s \o t)
    BY Zenon, <1>2, <1>3 DEF Range
  <2>2. Range(s \o t) \subseteq Range(s) \cup Range(t)
    BY <1>2, <1>4, Zenon DEF Range
  <2> QED BY <2>1, <2>2, Zenon
<1>6. ASSUME IsInjective(s), IsInjective(t), Range(s) \cap Range(t) = {}
      PROVE  IsInjective(s \o t)
  <2>1. \A i \in 1 .. Len(s), j \in 1 .. Len(t) : s[i] # t[j]
    BY Zenon, <1>2, <1>6 DEF Range
  <2> QED BY <1>2, <1>4, <1>6, <2>1 DEF IsInjective
<1> QED BY <1>1, <1>5, <1>6, Zenon

\* A prefix.
LEMMA PrefixSet ==
    ASSUME NEW S, NEW s \in Seq(S), NEW k \in 0 .. Len(s)
    PROVE  /\ SubSeq(s, 1, k) \in Seq(S) /\ Len(SubSeq(s, 1, k)) = k
           /\ \A i \in 1 .. k : SubSeq(s, 1, k)[i] = s[i]
           /\ Range(SubSeq(s, 1, k)) \subseteq Range(s)
           /\ IsInjective(s) => IsInjective(SubSeq(s, 1, k))
<1>1. /\ k \in Nat /\ Len(s) \in Nat /\ k <= Len(s) /\ DOMAIN s = 1 .. Len(s)
      /\ \A i \in 1 .. k : i \in 1 .. Len(s) /\ s[i] \in S
  OBVIOUS
<1>2. /\ SubSeq(s, 1, k) \in Seq(S) /\ Len(SubSeq(s, 1, k)) = k
      /\ \A i \in 1 .. k : SubSeq(s, 1, k)[i] = s[i]
  BY <1>1, PrefixProperties, Zenon
<1>3. DOMAIN SubSeq(s, 1, k) = 1 .. k
  BY <1>1, <1>2
<1> QED BY <1>1, <1>2, <1>3, Zenon DEF Range, IsInjective

\* What is put between s and t may be counted to either.
LEMMA ConcatShift ==
    ASSUME NEW S, NEW s \in Seq(S), NEW t \in Seq(S)
    PROVE  /\ \A x \in S : s \o Append(t, x) = Append(s \o t, x)
           /\ t # <<>> => Append(s, Head(t)) \o Tail(t) = s \o t
<1>1. ASSUME NEW x \in S PROVE s \o Append(t, x) = Append(s \o t, x)
  <2>1. <<x>> \in Seq(S) /\ s \o t \in Seq(S)
    BY ConcatProperties
  <2>2. Append(t, x) = t \o <<x>> /\ Append(s \o t, x) = (s \o t) \o <<x>>
    BY <2>1, AppendIsConcat, Zenon
  <2> QED BY <2>1, <2>2, ConcatAssociative
<1>2. ASSUME t # <<>> PROVE Append(s, Head(t)) \o Tail(t) = s \o t
  <2>1. /\ Head(t) \in S /\ Tail(t) \in Seq(S) /\ Len(Tail(t)) = Len(t) - 1 /\ Len(t) \in Nat \ {0}
        /\ Head(t) = t[1] /\ \A i \in 1 .. Len(t) - 1 : Tail(t)[i] = t[i + 1]
    BY <1>2, HeadTailProperties, EmptySeq
  <2>2. /\ Append(s, Head(t)) \in Seq(S) /\ Len(Append(s, Head(t))) = Len(s) + 1
        /\ \A i \in 1 .. Len(s) : Append(s, Head(t))[i] = s[i]
        /\ Append(s, Head(t))[Len(s) + 1] = t[1]
    BY <2>1, AppendProperties
  <2>3. /\ s \o t \in Seq(S) /\ Len(s \o t) = Len(s) + Len(t)
        /\ \A i \in 1 .. Len(s) + Len(t) : (s \o t)[i] = IF i <= Len(s) THEN s[i] ELSE t[i - Len(s)]
    BY ConcatProperties, Zenon
  <2> DEFINE u == Append(s, Head(t))
             v == u \o Tail(t)
  <2>4. /\ v \in Seq(S) /\ Len(v) = Len(u) + Len(Tail(t))
        /\ \A i \in 1 .. Len(u) + Len(Tail(t)) : v[i] = IF i <= Len(u) THEN u[i] ELSE Tail(t)[i - Len(u)]
    BY <2>1, <2>2, ConcatProperties, Zenon
  <2>5. Len(v) = Len(s \o t) /\ Len(s) \in Nat
    BY <2>1, <2>2, <2>3, <2>4
  <2>6. ASSUME NEW i \in 1 .. Len(v) PROVE v[i] = (s \o t)[i]
    <3>1. CASE i <= Len(s)
      BY <2>1, <2>2, <2>3, <2>4, <2>5, <2>6, <3>1
    <3>2. CASE i = Len(s) + 1
      BY <2>1, <2>2, <2>3, <2>4, <2>5, <2>6, <3>2
    <3>3. CASE i > Len(s) + 1
      <4>1. v[i] = Tail(t)[i - (Len(s) + 1)] /\ (s \o t)[i] = t[i - Len(s)]
        BY <2>1, <2>2, <2>3, <2>4, <2>5, <2>6, <3>3
      <4>2. i - (Len(s) + 1) \in 1 .. Len(t) - 1
        BY <2>1, <2>2, <2>4, <2>5, <2>6, <3>3
      <4> QED BY <2>1, <2>5, <4>1, <4>2
    <3> QED BY <2>1, <2>2, <2>4, <2>5, <2>6, <3>1, <3>2, <3>3
  <2> HIDE DEF v
  <2>7. v = s \o t
    BY Zenon, <2>3, <2>4, <2>5, <2>6, SeqEqual
  <2> QED BY Zenon, <2>7 DEF v
<1> QED BY Zenon, <1>1, <1>2

\* Where an empty buffer, and one of two joins, makes no difference.
LEMMA ConcatThree ==
    ASSUME NEW S, NEW s \in Seq(S), NEW t \in Seq(S), NEW u \in Seq(S)
    PROVE  (s \o (t \o u)) \o <<>> = (s \o t) \o u
<1>1. t \o u \in Seq(S) /\ s \o (t \o u) \in Seq(S)
  BY ConcatProperties, Zenon
<1>2. (s \o (t \o u)) \o <<>> = s \o (t \o u)
  BY <1>1, ConcatEmptySeq, Zenon
<1> QED BY SMTT(30), <1>2, ConcatAssociative

\* The first element of a concatenation.
LEMMA TailConcat ==
    ASSUME NEW S, NEW s \in Seq(S), NEW t \in Seq(S), s # <<>>
    PROVE  /\ s \o t # <<>> /\ Head(s \o t) = Head(s)
           /\ Tail(s \o t) = Tail(s) \o t
<1>1. /\ Tail(s) \in Seq(S) /\ Len(Tail(s)) = Len(s) - 1 /\ Len(s) \in Nat \ {0}
      /\ Head(s) = s[1] /\ \A i \in 1 .. Len(s) - 1 : Tail(s)[i] = s[i + 1]
      /\ Len(t) \in Nat
  BY HeadTailProperties, EmptySeq
<1> DEFINE u == s \o t
           v == Tail(s) \o t
<1>2. /\ u \in Seq(S) /\ Len(u) = Len(s) + Len(t)
      /\ \A i \in 1 .. Len(s) + Len(t) : u[i] = IF i <= Len(s) THEN s[i] ELSE t[i - Len(s)]
  BY ConcatProperties, Zenon
<1>3. /\ v \in Seq(S) /\ Len(v) = Len(s) - 1 + Len(t)
      /\ \A i \in 1 .. Len(s) - 1 + Len(t) :
            v[i] = IF i <= Len(s) - 1 THEN Tail(s)[i] ELSE t[i - (Len(s) - 1)]
  BY <1>1, ConcatProperties
<1> HIDE DEF u, v
<1>4. u # <<>>
  BY <1>1, <1>2, EmptySeq
<1>5. /\ Tail(u) \in Seq(S) /\ Len(Tail(u)) = Len(u) - 1 /\ Head(u) = u[1]
      /\ \A i \in 1 .. Len(u) - 1 : Tail(u)[i] = u[i + 1]
  BY <1>2, <1>4, HeadTailProperties
<1>6. ASSUME NEW i \in 1 .. Len(v) PROVE Tail(u)[i] = v[i]
  <2>1. i \in 1 .. Len(u) - 1 /\ Tail(u)[i] = u[i + 1] /\ i + 1 \in 1 .. Len(s) + Len(t)
    BY <1>1, <1>2, <1>3, <1>5, <1>6
  <2>2. CASE i <= Len(s) - 1
    <3>1. u[i + 1] = s[i + 1] /\ v[i] = Tail(s)[i]
      BY <1>1, <1>2, <1>3, <1>6, <2>1, <2>2
    <3> QED BY <1>1, <2>1, <2>2, <3>1
  <2>3. CASE i > Len(s) - 1
    BY SMTT(30), <1>1, <1>2, <1>3, <1>6, <2>1, <2>3
  <2>4. i \in Int /\ Len(s) - 1 \in Int
    BY <1>1, <1>3, <1>6
  <2>5. i <= Len(s) - 1 \/ i > Len(s) - 1
    BY <2>4
  <2> QED BY Zenon, <2>2, <2>3, <2>5
<1>7. Tail(u) = v
  BY <1>1, <1>2, <1>3, <1>5, <1>6, SeqEqual
<1>8. Head(u) = Head(s)
  BY <1>1, <1>2, <1>5
<1> QED BY <1>4, <1>7, <1>8, Zenon DEF u, v

\* A sequence is its first element followed by the others.
LEMMA HeadTail ==
    ASSUME NEW S, NEW s \in Seq(S), s # <<>>
    PROVE  <<Head(s)>> \o Tail(s) = s
<1>1. <<>> \in Seq(S) /\ Head(s) \in S
  BY EmptySeq, HeadTailProperties, Zenon
<1>2. Append(<<>>, Head(s)) = <<Head(s)>> /\ <<>> \o s = s
  BY <1>1, AppendIsConcat, ConcatEmptySeq
<1> QED BY <1>1, <1>2, ConcatShift, Zenon

-----------------------------------------------------------------------------

\* loopWriter has a connection.
Live == {"send", "enqueue", "next"}

\* PushBack has been called for r.
Pushed(r) == r[2] <= pushed[r[1]]

\* The request the writer holds, and those the reader of c has still to answer.
Hand == {cur} \ {NoReq}
Open(c) == Range(tasks[c]) \cup ({held[c]} \ {NoReq})
Waiting == Range(input) \cup Hand

\* What the writer has not encoded yet.
Unsent == Range(input) \cup (IF wpc = "enqueue" THEN {} ELSE Hand)

\* What is on its way to redis.
Outgoing(c) == Range(wire[c]) \cup Range(buf[c])

\* A connection that has not been made yet.
Unused(c) ==
    /\ buf[c] = <<>> /\ wire[c] = <<>> /\ replies[c] = <<>> /\ tasks[c] = <<>>
    /\ held[c] = NoReq /\ ~up[c] /\ ~ended[c] /\ ~derr[c]

\* The writer holds a request in some of its states; its connection is one that has
\* been made and not given up; what it has to drain is in the channel.
WriterInv ==
    /\ cur # NoReq <=> wpc \in {"dial", "send", "enqueue"}
    /\ wpc \in Live => conn \in Conns /\ ~ended[conn]
    /\ wpc = "drain" => drain <= Len(input)
    /\ \A c \in Conns : c > conn => Unused(c)

\* A request is in one queue at most, once, and has no answer while it is there.
QueueInv ==
    /\ IsInjective(input) /\ Hand \cap Range(input) = {}
    /\ \A c \in Conns : IsInjective(tasks[c]) /\ held[c] \notin Range(tasks[c])
    /\ \A c \in Conns : Open(c) \cap Waiting = {}
    /\ \A c, d \in Conns : c # d => Open(c) \cap Open(d) = {}
    /\ \A r \in Waiting : Pushed(r) /\ answer[r] = None
    /\ \A c \in Conns : \A r \in Open(c) : Pushed(r) /\ answer[r] = None

\* What is on its way to redis is there once, and has not been executed; what has
\* been replied to, has been.
SentInv ==
    /\ \A c \in Conns : IsInjective(wire[c]) /\ IsInjective(buf[c]) /\ Range(wire[c]) \cap Range(buf[c]) = {}
    /\ \A c, d \in Conns : c # d => Outgoing(c) \cap Outgoing(d) = {}
    /\ \A c \in Conns : \A r \in Outgoing(c) : ran[r] = 0 /\ Pushed(r)
    /\ \A c \in Conns : Outgoing(c) \cap Unsent = {}
    /\ \A r \in Unsent : ran[r] = 0
    /\ \A c \in Conns : \A r \in Range(replies[c]) : ran[r] = 1

\* What has not been pushed has no answer; a reply is the request's own.
AnswerInv ==
    /\ \A r \in Requests : ~Pushed(r) => answer[r] = None /\ ran[r] = 0
    /\ \A r \in Requests : answer[r].kind = "reply" => answer[r].of = r /\ ran[r] = 1

-----------------------------------------------------------------------------
\* TypeOK, one conjunct per variable.
Types ==
    /\ pushed \in [Sessions -> 0 .. Pushes]
    /\ input \in Seq(Requests) /\ Len(input) <= InputCap
    /\ closed \in BOOLEAN
    /\ failed \in [Sessions -> BOOLEAN]
    /\ answer \in [Requests -> Answers]
    /\ answers \in [Requests -> Nat]
    /\ wpc \in {"first", "dial", "send", "enqueue", "next", "drain", "exit"}
    /\ cur \in Requests \cup {NoReq}
    /\ drain \in 0 .. InputCap
    /\ conn \in 0 .. MaxConns
    /\ buf \in [Conns -> Seq(Requests)] /\ wire \in [Conns -> Seq(Requests)]
    /\ replies \in [Conns -> Seq(Requests)] /\ tasks \in [Conns -> Seq(Requests)]
    /\ \A c \in Conns : Len(buf[c]) <= MaxBuffered + 1 /\ Len(tasks[c]) <= TaskCap
    /\ up \in [Conns -> BOOLEAN] /\ ended \in [Conns -> BOOLEAN] /\ derr \in [Conns -> BOOLEAN]
    /\ held \in [Conns -> Requests \cup {NoReq}]
    /\ ran \in [Requests -> Nat]

\* Types says the same as the type invariant.
LEMMA TypesAreTypeOK == Types <=> TypeOK
  BY Zenon DEF Types, TypeOK

\* The answer to a request is one of the three kinds.
LEMMA AnswerKinds ==
    /\ None \in Answers /\ Error \in Answers /\ None # Error
    /\ \A r \in Requests : ReplyTo(r) \in Answers /\ ReplyTo(r) # None /\ ReplyTo(r) # Error
  BY Zenon DEF None, Error, ReplyTo, Answers

\* setResponse keeps the types.
LEMMA ResponseTypes ==
    ASSUME Types, NEW r \in Requests, NEW a \in Answers, SetResponse(r, a)
    PROVE  /\ answer' \in [Requests -> Answers] /\ answers' \in [Requests -> Nat]
           /\ failed' \in [Sessions -> BOOLEAN]
<1>1. answer' \in [Requests -> Answers] /\ answers' \in [Requests -> Nat]
  BY DEF Types, SetResponse
<1>2. r[1] \in Sessions
  BY Zenon DEF Requests
<1>3. failed' \in [Sessions -> BOOLEAN]
  BY <1>2, Zenon DEF Types, SetResponse
<1> QED BY <1>1, <1>3, Zenon

\* A flush, which may fail, leaves at most one request more than the limit in the buffer.
LEMMA FlushTypes ==
    ASSUME Types, conn \in Conns, NEW b \in Seq(Requests), Len(b) <= MaxBuffered + 2,
           Flush(b) \/ FlushFailed(b)
    PROVE  /\ buf' \in [Conns -> Seq(Requests)] /\ wire' \in [Conns -> Seq(Requests)]
           /\ \A c \in Conns : Len(buf'[c]) <= MaxBuffered + 1
<1>1. /\ <<>> \in Seq(Requests) /\ Len(<<>>) = 0
      /\ MaxBuffered \in Nat /\ Len(b) \in Nat /\ \A c \in Conns : Len(buf[c]) \in Nat
      /\ wire[conn] \o b \in Seq(Requests)
      /\ \A k \in 0 .. Len(b) : wire[conn] \o SubSeq(b, 1, k) \in Seq(Requests)
  <2>1. /\ MaxBuffered \in Nat /\ Len(b) \in Nat /\ \A c \in Conns : Len(buf[c]) \in Nat
        /\ wire[conn] \in Seq(Requests)
    BY SMTT(30), BoundsAssumption DEF Types
  <2>2. \A k \in 0 .. Len(b) : SubSeq(b, 1, k) \in Seq(Requests)
    BY PrefixSet, Zenon
  <2> QED BY <2>1, <2>2, ConcatSet
<1>2. CASE Flush(b)
  <2>1. CASE ~MustFlush(b) /\ buf' = [buf EXCEPT ![conn] = b] /\ UNCHANGED wire
    <3>1. Len(b) <= MaxBuffered
      BY <1>1, <2>1 DEF MustFlush
    <3>2. buf' \in [Conns -> Seq(Requests)] /\ wire' \in [Conns -> Seq(Requests)]
      BY <2>1, Zenon DEF Types
    <3>3. \A c \in Conns : buf'[c] = IF c = conn THEN b ELSE buf[c]
      BY <2>1, Zenon DEF Types
    <3>4. ASSUME NEW c \in Conns PROVE Len(buf'[c]) <= MaxBuffered + 1
      <4>1. CASE c = conn
        BY <1>1, <3>1, <3>3, <4>1
      <4>2. CASE c # conn
        BY <1>1, <3>3, <4>2, Zenon DEF Types
      <4> QED BY <4>1, <4>2, Zenon
    <3> QED BY <3>2, <3>4, Zenon
  <2>2. CASE buf' = [buf EXCEPT ![conn] = <<>>] /\ wire' = [wire EXCEPT ![conn] = @ \o b]
    BY SMTT(30), <1>1, <2>2 DEF Types
  <2> QED BY <1>2, <2>1, <2>2, Zenon DEF Flush
<1>3. CASE FlushFailed(b)
  <2>1. PICK k \in 0 .. (IF up[conn] THEN Len(b) ELSE 0) : wire' = [wire EXCEPT ![conn] = @ \o SubSeq(b, 1, k)]
    BY Zenon, <1>3 DEF FlushFailed
  <2>2. k \in 0 .. Len(b) /\ buf' = [buf EXCEPT ![conn] = <<>>]
    BY <1>3, <2>1 DEF FlushFailed
  <2>3. \A c \in Conns : buf'[c] = IF c = conn THEN <<>> ELSE buf[c]
    BY <2>2, Zenon DEF Types
  <2>4. buf' \in [Conns -> Seq(Requests)] /\ wire' \in [Conns -> Seq(Requests)]
    BY Zenon, <1>1, <2>1, <2>2 DEF Types
  <2>5. ASSUME NEW c \in Conns PROVE Len(buf'[c]) <= MaxBuffered + 1
    <3>1. CASE c = conn
      BY <1>1, <2>3, <3>1
    <3>2. CASE c # conn
      BY Zenon, <1>1, <2>3, <3>2 DEF Types
    <3> QED BY <3>1, <3>2, Zenon
  <2> QED BY <2>4, <2>5, Zenon
<1> QED BY <1>2, <1>3, Zenon

\* Every step keeps the types.
LEMMA TypesStep ==
    ASSUME Types, WriterInv, Next
    PROVE  Types'
<1> USE AnswerKinds
<1>0. /\ MaxBuffered \in Nat /\ MaxConns \in Nat /\ InputCap \in Nat /\ TaskCap \in Nat /\ Pushes \in Nat
      /\ NoReq \notin Requests
      /\ cur # NoReq => cur \in Requests
      /\ \A c \in Conns : held[c] # NoReq => held[c] \in Requests
      /\ Len(input) \in Nat
      /\ \A c \in Conns : Len(tasks[c]) \in Nat /\ Len(buf[c]) \in Nat
  BY SMTT(30), BoundsAssumption DEF Types, Requests
<1>1. ASSUME NEW s \in Sessions, PushBack(s) PROVE Types'
  <2>1. <<s, pushed[s] + 1>> \in Requests
    BY <1>0, <1>1 DEF PushBack, Requests, Types
  <2>2. pushed' \in [Sessions -> 0 .. Pushes]
    BY <1>0, <1>1 DEF PushBack, Types
  <2>3. input' \in Seq(Requests) /\ Len(input') <= InputCap
    BY <1>0, <1>1, <2>1, AppendSet DEF PushBack, Types
  <2> QED BY <1>1, <2>2, <2>3, Zenon DEF PushBack, Types, respVars, writerVars, connVars
<1>2. CASE Close
  BY <1>2, Zenon DEF Close, Types, respVars, writerVars, connVars
<1>3. CASE First
  <2>1. input # <<>> => Head(input) \in Requests /\ Tail(input) \in Seq(Requests)
                          /\ Len(Tail(input)) = Len(input) - 1
    BY TailSet, Zenon DEF Types
  <2>2. cur' \in Requests \cup {NoReq} /\ input' \in Seq(Requests) /\ Len(input') <= InputCap
        /\ wpc' \in {"dial", "exit"}
    <3>1. CASE input # <<>> /\ cur' = Head(input) /\ input' = Tail(input) /\ wpc' = "dial"
      BY <1>0, <2>1, <3>1 DEF Types
    <3>2. CASE wpc' = "exit" /\ UNCHANGED <<cur, input>>
      BY <3>2, Zenon DEF Types
    <3> QED BY <1>3, <3>1, <3>2, Zenon DEF First
  <2> QED BY <1>3, <2>2, Zenon DEF First, Types, respVars, connVars
<1>4. CASE Dial
  <2>1. conn' \in 0 .. MaxConns /\ up' \in [Conns -> BOOLEAN] /\ wpc' = "send"
    BY <1>0, <1>4 DEF Dial, Types, Conns
  <2> QED BY <1>4, <2>1, Zenon DEF Dial, Types, respVars
<1>5. CASE DialFailed
  <2>1. cur \in Requests /\ SetResponse(cur, Error)
    BY <1>5, <1>0, Zenon DEF DialFailed, Broken, WriterInv
  <2> QED BY <1>5, <1>0, <2>1, ResponseTypes DEF DialFailed, Broken, Types, connVars
<1>6. CASE Send
  <2>1. conn \in Conns /\ cur \in Requests
    BY <1>6, <1>0, Zenon DEF Send, WriterInv, Live
  <2>2. Append(buf[conn], cur) \in Seq(Requests) /\ Len(Append(buf[conn], cur)) <= MaxBuffered + 2
    BY <1>0, <2>1, AppendSet DEF Types
  <2>3. /\ buf' \in [Conns -> Seq(Requests)] /\ wire' \in [Conns -> Seq(Requests)]
        /\ \A c \in Conns : Len(buf'[c]) <= MaxBuffered + 1
    BY Zenon, <1>6, <2>1, <2>2, FlushTypes DEF Send
  <2> QED BY Zenon, <1>6, <2>3 DEF Send, Types, respVars
<1>7. CASE Enqueue
  <2>1. conn \in Conns /\ cur \in Requests
    BY <1>7, <1>0, Zenon DEF Enqueue, WriterInv, Live
  <2>2. Append(tasks[conn], cur) \in Seq(Requests) /\ Len(Append(tasks[conn], cur)) = Len(tasks[conn]) + 1
    BY <2>1, AppendSet, Zenon DEF Types
  <2>3. tasks' = [tasks EXCEPT ![conn] = Append(tasks[conn], cur)] /\ Len(tasks[conn]) < TaskCap
    BY <1>7, Zenon DEF Enqueue
  <2>4. tasks' \in [Conns -> Seq(Requests)]
    BY Zenon, <2>2, <2>3 DEF Types
  <2>5. \A c \in Conns : tasks'[c] = IF c = conn THEN Append(tasks[conn], cur) ELSE tasks[c]
    BY <2>3, Zenon DEF Types
  <2>6. \A c \in Conns : Len(tasks'[c]) <= TaskCap
    BY <1>0, <2>1, <2>2, <2>3, <2>5 DEF Types
  <2> QED BY Zenon, <1>7, <2>4, <2>6 DEF Enqueue, Types, respVars
<1>8. CASE Discard
  <2>1. conn \in Conns /\ cur \in Requests
    BY <1>8, <1>0, Zenon DEF Discard, WriterInv, Live
  <2>2. buf[conn] \in Seq(Requests) /\ Len(buf[conn]) <= MaxBuffered + 2
    BY SMTT(30), <2>1, BoundsAssumption DEF Types
  <2>3. /\ buf' \in [Conns -> Seq(Requests)] /\ wire' \in [Conns -> Seq(Requests)]
        /\ \A c \in Conns : Len(buf'[c]) <= MaxBuffered + 1
    <3>1. Flush(buf[conn])
      BY <1>8, Zenon DEF Discard
    <3> QED BY Zenon, <2>1, <2>2, <3>1, FlushTypes
  <2> QED BY Zenon, <1>8, <2>1, <2>3, ResponseTypes DEF Discard, Types
<1>9. CASE SendFailed
  <2>1. conn \in Conns /\ cur \in Requests
    BY <1>9, <1>0, Zenon DEF SendFailed, WriterInv, Live
  <2>2. /\ Append(buf[conn], cur) \in Seq(Requests) /\ Len(Append(buf[conn], cur)) <= MaxBuffered + 2
        /\ buf[conn] \in Seq(Requests) /\ Len(buf[conn]) <= MaxBuffered + 2
    BY <1>0, <2>1, AppendSet, BoundsAssumption DEF Types
  <2>3. /\ buf' \in [Conns -> Seq(Requests)] /\ wire' \in [Conns -> Seq(Requests)]
        /\ \A c \in Conns : Len(buf'[c]) <= MaxBuffered + 1
    <3>1. FlushFailed(Append(buf[conn], cur)) \/ FlushFailed(buf[conn])
      BY <1>9, Zenon DEF SendFailed
    <3> QED BY Zenon, <2>1, <2>2, <3>1, FlushTypes
  <2>4. SetResponse(cur, Error)
    BY <1>9, Zenon DEF SendFailed, Broken
  <2>5. /\ answer' \in [Requests -> Answers] /\ answers' \in [Requests -> Nat]
        /\ failed' \in [Sessions -> BOOLEAN]
    BY <2>1, <2>4, ResponseTypes, Zenon
  <2>6. drain' \in 0 .. InputCap /\ ended' \in [Conns -> BOOLEAN]
    BY <1>9, <1>0, <2>1 DEF SendFailed, Broken, Types
  <2> QED BY Zenon, <1>9, <2>3, <2>5, <2>6 DEF SendFailed, Broken, Types
<1>10. CASE Receive
  <2>1. input # <<>> => Head(input) \in Requests /\ Tail(input) \in Seq(Requests)
                          /\ Len(Tail(input)) = Len(input) - 1
    BY TailSet, Zenon DEF Types
  <2>2. cur' \in Requests \cup {NoReq} /\ input' \in Seq(Requests) /\ Len(input') <= InputCap
        /\ wpc' \in {"send", "exit"} /\ ended' \in [Conns -> BOOLEAN]
    <3>1. CASE input # <<>> /\ cur' = Head(input) /\ input' = Tail(input) /\ wpc' = "send" /\ ended' = ended
      BY <1>0, <2>1, <3>1 DEF Types
    <3>2. CASE wpc' = "exit" /\ UNCHANGED <<cur, input>> /\ ended' = [ended EXCEPT ![conn] = TRUE]
      BY Zenon, <3>2 DEF Types
    <3> QED BY <1>10, <3>1, <3>2, Zenon DEF Receive
  <2> QED BY Zenon, <1>10, <2>2 DEF Receive, Types, respVars
<1>11. CASE Drain
  <2>1. input # <<>>
    BY <1>11, <1>0 DEF Drain, WriterInv, Types
  <2>2. Head(input) \in Requests /\ Tail(input) \in Seq(Requests) /\ Len(Tail(input)) = Len(input) - 1
    BY <2>1, TailSet, Zenon DEF Types
  <2>3. /\ answer' \in [Requests -> Answers] /\ answers' \in [Requests -> Nat]
        /\ failed' \in [Sessions -> BOOLEAN]
    BY <1>11, <2>2, ResponseTypes, Zenon DEF Drain
  <2>4. input' \in Seq(Requests) /\ Len(input') <= InputCap /\ drain' \in 0 .. InputCap
    BY <1>0, <1>11, <2>2 DEF Drain, Types
  <2> QED BY Zenon, <1>11, <2>3, <2>4 DEF Drain, Types, connVars
<1>12. CASE Restart
  BY <1>12, Zenon DEF Restart, Types, respVars, connVars
<1>13. ASSUME NEW c \in Conns, ReaderNext(c) PROVE Types'
  <2>1. tasks[c] # <<>> => Head(tasks[c]) \in Requests /\ Tail(tasks[c]) \in Seq(Requests)
                             /\ Len(Tail(tasks[c])) = Len(tasks[c]) - 1
    BY TailSet DEF Types
  <2>2. held' \in [Conns -> Requests \cup {NoReq}] /\ up' \in [Conns -> BOOLEAN]
        /\ tasks' \in [Conns -> Seq(Requests)]
    BY Zenon, <1>13, <2>1 DEF ReaderNext, Types
  <2>3. \A d \in Conns : tasks'[d] = tasks[d] \/ (tasks[d] # <<>> /\ d = c /\ tasks'[d] = Tail(tasks[c]))
    BY Zenon, <1>13 DEF ReaderNext, Types
  <2>4. \A d \in Conns : Len(tasks'[d]) <= TaskCap
    <3> TAKE d \in Conns
    <3>1. CASE tasks'[d] = tasks[d]
      BY <3>1, Zenon DEF Types
    <3>2. CASE tasks[d] # <<>> /\ d = c /\ tasks'[d] = Tail(tasks[c])
      <4>1. Len(tasks[c]) <= TaskCap /\ Len(tasks[c]) \in Nat
        BY <1>0, Zenon DEF Types
      <4> QED BY <1>0, <2>1, <3>2, <4>1
    <3> QED BY <2>3, <3>1, <3>2, Zenon
  <2> QED BY Zenon, <1>13, <2>2, <2>4 DEF ReaderNext, Types, respVars, writerVars
<1>14. ASSUME NEW c \in Conns, Decode(c) PROVE Types'
  <2>1. /\ held[c] \in Requests /\ replies[c] \in Seq(Requests) /\ replies[c] # <<>>
        /\ Head(replies[c]) \in Requests /\ Tail(replies[c]) \in Seq(Requests)
    BY Zenon, <1>14, <1>0, TailSet DEF Decode, Types
  <2>2. SetResponse(held[c], ReplyTo(Head(replies[c])))
    BY <1>14, Zenon DEF Decode
  <2> QED BY Zenon, <1>14, <2>1, <2>2, ResponseTypes DEF Decode, Types, writerVars
<1>15. ASSUME NEW c \in Conns, DecodeFailed(c) \/ ReadTimeout(c) PROVE Types'
  <2>1. held[c] \in Requests /\ DecodeError(c)
    BY <1>15, <1>0, Zenon DEF DecodeFailed, ReadTimeout
  <2> QED BY Zenon, <2>1, ResponseTypes DEF DecodeError, Types, writerVars
<1>16. ASSUME NEW c \in Conns, Execute(c) PROVE Types'
  <2>1. /\ Head(wire[c]) \in Requests /\ Tail(wire[c]) \in Seq(Requests)
        /\ Append(replies[c], Head(wire[c])) \in Seq(Requests)
    BY <1>16, TailSet, AppendSet, Zenon DEF Execute, Types
  <2>2. ran' = [ran EXCEPT ![Head(wire[c])] = ran[Head(wire[c])] + 1]
        /\ wire' = [wire EXCEPT ![c] = Tail(wire[c])]
    BY <1>16, Zenon DEF Execute
  <2>4. ran' \in [Requests -> Nat] /\ wire' \in [Conns -> Seq(Requests)]
    BY SMTT(30), <2>1, <2>2 DEF Types
  <2>3. replies' \in [Conns -> Seq(Requests)]
    BY <1>16, <2>1, Zenon DEF Execute, Types
  <2> QED BY Zenon, <1>16, <2>3, <2>4 DEF Execute, Types, respVars, writerVars
<1>17. ASSUME NEW c \in Conns, ConnLost(c) PROVE Types'
  BY SMTT(30), <1>17 DEF ConnLost, Types, respVars, writerVars
<1> QED BY <1>1, <1>2, <1>3, <1>4, <1>5, <1>6, <1>7, <1>8, <1>9, <1>10, <1>11, <1>12, <1>13,
           <1>14, <1>15, <1>16, <1>17, Zenon DEF Next, WriterStep, ReaderStep

-----------------------------------------------------------------------------
\* Only connections that have been made take steps.
LEMMA OnlyUsed ==
    ASSUME Types, WriterInv, NEW c \in Conns,
           ReaderNext(c) \/ Decode(c) \/ DecodeFailed(c) \/ ReadTimeout(c) \/ Execute(c) \/ ConnLost(c)
    PROVE  c <= conn
<1>1. ~Unused(c)
  BY Zenon DEF Unused, ReaderNext, Decode, DecodeFailed, ReadTimeout, Execute, ConnLost
<1> QED BY <1>1, BoundsAssumption DEF WriterInv, Types, Conns

\* Where a flush, which may fail, changes the connection's buffers.
LEMMA FlushElsewhere ==
    ASSUME Types, NEW b, Flush(b) \/ FlushFailed(b), NEW c \in Conns, c # conn
    PROVE  buf'[c] = buf[c] /\ wire'[c] = wire[c]
  BY Zenon DEF Flush, FlushFailed, Types

\* Every step keeps the facts about the writer.
LEMMA WriterStepInv ==
    ASSUME Types, WriterInv, Next
    PROVE  WriterInv'
<1>0. /\ MaxConns \in Nat /\ NoReq \notin Requests /\ Len(input) \in Nat
      /\ conn \in 0 .. MaxConns /\ drain \in 0 .. InputCap /\ InputCap \in Nat
      /\ \A c \in Conns : c \in Nat /\ (c > conn => c # conn)
  BY SMTT(30), BoundsAssumption DEF Types, Requests, Conns
<1>1. ASSUME NEW s \in Sessions, PushBack(s) PROVE WriterInv'
  <2>1. Len(input') = Len(input) + 1
    BY <1>0, <1>1, AppendProperties DEF PushBack, Types
  <2>2. wpc = "drain" => drain <= Len(input')
    BY <1>0, <2>1 DEF WriterInv
  <2> QED BY <1>1, <2>2, Zenon DEF WriterInv, PushBack, Unused, writerVars, connVars
<1>2. CASE Close \/ Restart
  BY <1>2, Zenon DEF WriterInv, Close, Restart, Unused, writerVars, connVars, Live
<1>3. CASE First
  <2>1. input # <<>> => Head(input) \in Requests
    BY HeadTailProperties, Zenon DEF Types
  <2> QED BY <1>0, <1>3, <2>1, Zenon DEF WriterInv, First, Unused, connVars, Live
<1>4. CASE Dial
  <2>1. conn' \in Conns /\ Unused(conn')
    BY <1>0, <1>4 DEF Dial, WriterInv, Conns
  <2>2. ~ended[conn']
    BY <2>1, Zenon DEF Unused
  <2>3. ASSUME NEW c \in Conns, c > conn' PROVE c > conn /\ up'[c] = up[c]
    <3>1. c \in Nat /\ conn \in Nat /\ conn' = conn + 1 /\ up' = [up EXCEPT ![conn + 1] = TRUE]
      BY <1>0, <1>4 DEF Dial
    <3>2. c > conn /\ c # conn + 1
      BY <2>3, <3>1
    <3> QED BY <3>1, <3>2, Zenon DEF Types
  <2>4. \A c \in Conns : c > conn' => Unused(c)'
    BY Zenon, <1>4, <2>3 DEF Dial, WriterInv, Unused
  <2> QED BY <1>4, <2>1, <2>2, <2>4, Zenon DEF WriterInv, Dial, Live
<1>5. CASE DialFailed
  BY <1>0, <1>5 DEF WriterInv, DialFailed, Broken, Unused, connVars, Live
<1>6. CASE Send
  <2>1. \A c \in Conns : c > conn => buf'[c] = buf[c] /\ wire'[c] = wire[c]
    BY <1>0, <1>6, FlushElsewhere, Zenon DEF Send
  <2>2. \A c \in Conns : c > conn => Unused(c)'
    BY <1>6, <2>1, Zenon DEF Send, WriterInv, Unused
  <2> QED BY <1>6, <2>2, Zenon DEF WriterInv, Send, Live
<1>7. CASE Enqueue
  <2>1. \A c \in Conns : c > conn => tasks'[c] = tasks[c]
    BY <1>0, <1>7, Zenon DEF Enqueue, Types
  <2>2. \A c \in Conns : c > conn => Unused(c)'
    BY Zenon, <1>7, <2>1 DEF Enqueue, WriterInv, Unused
  <2> QED BY <1>7, <2>2, Zenon DEF WriterInv, Enqueue, Live
<1>8. CASE Discard
  <2>1. \A c \in Conns : c > conn => buf'[c] = buf[c] /\ wire'[c] = wire[c]
    BY <1>0, <1>8, FlushElsewhere, Zenon DEF Discard
  <2>2. \A c \in Conns : c > conn => Unused(c)'
    BY <1>8, <2>1, Zenon DEF Discard, WriterInv, Unused
  <2> QED BY Zenon, <1>8, <2>2 DEF WriterInv, Discard, Live
<1>9. CASE SendFailed
  <2>1. \A c \in Conns : c > conn => buf'[c] = buf[c] /\ wire'[c] = wire[c]
    BY <1>0, <1>9, FlushElsewhere, Zenon DEF SendFailed
  <2>2. \A c \in Conns : c > conn => ended'[c] = ended[c]
    BY Zenon, <1>0, <1>9 DEF SendFailed, Types
  <2>3. \A c \in Conns : c > conn => Unused(c)'
    BY <1>9, <2>1, <2>2, Zenon DEF SendFailed, Broken, WriterInv, Unused
  <2> QED BY <1>0, <1>9, <2>3 DEF WriterInv, SendFailed, Broken, Live
<1>10. CASE Receive
  <2>1. input # <<>> => Head(input) \in Requests
    BY HeadTailProperties, Zenon DEF Types
  <2>2. \A c \in Conns : c > conn => ended'[c] = ended[c]
    BY <1>0, <1>10, Zenon DEF Receive, Types
  <2>3. \A c \in Conns : c > conn => Unused(c)'
    BY <1>10, <2>2, Zenon DEF Receive, WriterInv, Unused
  <2>4. CASE input # <<>> /\ cur' = Head(input) /\ wpc' = "send" /\ UNCHANGED ended
    BY <1>0, <1>10, <2>1, <2>3, <2>4, Zenon DEF WriterInv, Receive, Live
  <2>5. CASE wpc' = "exit" /\ UNCHANGED <<cur, input>>
    BY <1>10, <2>3, <2>5, Zenon DEF WriterInv, Receive, Live
  <2> QED BY <1>10, <2>4, <2>5, Zenon DEF Receive
<1>11. CASE Drain
  <2>1. input # <<>>
    BY <1>0, <1>11 DEF Drain, WriterInv
  <2>2. Len(input') = Len(input) - 1
    BY <1>11, <2>1, HeadTailProperties, Zenon DEF Drain, Types
  <2>3. drain' <= Len(input')
    BY <1>0, <1>11, <2>2 DEF Drain, WriterInv
  <2> QED BY <1>11, <2>3, Zenon DEF WriterInv, Drain, Unused, connVars, Live
<1>12. ASSUME NEW c \in Conns, ReaderNext(c) PROVE WriterInv'
  <2>0. \A d \in Conns : d > conn => d # c
    BY <1>0, <1>12, OnlyUsed
  <2>1. \A d \in Conns : d > conn => held'[d] = held[d] /\ tasks'[d] = tasks[d] /\ up'[d] = up[d]
    BY <1>12, <2>0, Zenon DEF ReaderNext, Types
  <2> QED BY <1>12, <2>1, Zenon DEF WriterInv, ReaderNext, Unused, writerVars, Live
<1>13. ASSUME NEW c \in Conns, Decode(c) PROVE WriterInv'
  <2>0. \A d \in Conns : d > conn => d # c
    BY <1>0, <1>13, OnlyUsed
  <2>1. \A d \in Conns : d > conn => held'[d] = held[d] /\ replies'[d] = replies[d]
    BY <1>13, <2>0, Zenon DEF Decode, Types
  <2> QED BY <1>13, <2>1, Zenon DEF WriterInv, Decode, Unused, writerVars, Live
<1>14. ASSUME NEW c \in Conns, DecodeFailed(c) \/ ReadTimeout(c) PROVE WriterInv'
  <2>0. \A d \in Conns : d > conn => d # c
    BY <1>0, <1>14, OnlyUsed
  <2>1. DecodeError(c)
    BY <1>14, Zenon DEF DecodeFailed, ReadTimeout
  <2>2. \A d \in Conns : d > conn => held'[d] = held[d] /\ derr'[d] = derr[d] /\ up'[d] = up[d]
    BY Zenon, <2>0, <2>1 DEF DecodeError, Types
  <2> QED BY Zenon, <2>1, <2>2 DEF WriterInv, DecodeError, Unused, writerVars, Live
<1>15. ASSUME NEW c \in Conns, Execute(c) PROVE WriterInv'
  <2>0. \A d \in Conns : d > conn => d # c
    BY <1>0, <1>15, OnlyUsed
  <2>1. \A d \in Conns : d > conn => wire'[d] = wire[d] /\ replies'[d] = replies[d]
    BY <1>15, <2>0, Zenon DEF Execute, Types
  <2> QED BY <1>15, <2>1, Zenon DEF WriterInv, Execute, Unused, writerVars, Live
<1>16. ASSUME NEW c \in Conns, ConnLost(c) PROVE WriterInv'
  <2>0. \A d \in Conns : d > conn => d # c
    BY <1>0, <1>16, OnlyUsed
  <2>1. \A d \in Conns : d > conn => wire'[d] = wire[d] /\ up'[d] = up[d]
    BY Zenon, <1>16, <2>0 DEF ConnLost, Types
  <2> QED BY <1>16, <2>1, Zenon DEF WriterInv, ConnLost, Unused, writerVars, Live
<1> QED BY <1>1, <1>2, <1>3, <1>4, <1>5, <1>6, <1>7, <1>8, <1>9, <1>10, <1>11, <1>12, <1>13,
           <1>14, <1>15, <1>16, Zenon DEF Next, WriterStep, ReaderStep

-----------------------------------------------------------------------------
\* The members of a sequence over S are members of S.
LEMMA SeqRange == \A S : \A s \in Seq(S) : Range(s) \subseteq S
BY DEF Range

\* The members of the queues are requests.
LEMMA QueueTypes ==
    ASSUME Types
    PROVE  /\ Waiting \subseteq Requests /\ Hand \subseteq Requests
           /\ \A c \in Conns : Open(c) \subseteq Requests /\ Outgoing(c) \subseteq Requests
           /\ NoReq \notin Requests
<1>1. \A s \in Seq(Requests) : Range(s) \subseteq Requests
  BY Zenon, SeqRange
<1>2. NoReq \notin Requests
  BY Zenon, BoundsAssumption DEF Requests
<1> QED BY <1>1, <1>2, Zenon DEF Types, Waiting, Hand, Open, Outgoing

\* The queues may lose requests, and a request may change its place in one.
LEMMA QueueKeeps ==
    ASSUME QueueInv, pushed' = pushed,
           Waiting' \subseteq Waiting, \A c \in Conns : Open(c)' \subseteq Open(c),
           \A r \in Waiting' : answer'[r] = answer[r],
           \A c \in Conns : \A r \in Open(c)' : answer'[r] = answer[r],
           IsInjective(input'), Hand' \cap Range(input') = {},
           \A c \in Conns : IsInjective(tasks'[c]) /\ held'[c] \notin Range(tasks'[c])
    PROVE  QueueInv'
<1>1. \A c \in Conns : Open(c)' \cap Waiting' = {}
  BY Zenon DEF QueueInv
<1>2. \A c, d \in Conns : c # d => Open(c)' \cap Open(d)' = {}
  BY Zenon DEF QueueInv
<1>3. \A r \in Waiting' : Pushed(r)' /\ answer'[r] = None
  BY Zenon DEF QueueInv, Pushed
<1>4. \A c \in Conns : \A r \in Open(c)' : Pushed(r)' /\ answer'[r] = None
  BY Zenon DEF QueueInv, Pushed
<1> QED BY <1>1, <1>2, <1>3, <1>4, Zenon DEF QueueInv

\* An answer is given to one request.
LEMMA AnswerOne ==
    ASSUME Types, NEW r \in Requests, NEW a, SetResponse(r, a)
    PROVE  answer'[r] = a /\ \A q \in Requests : q # r => answer'[q] = answer[q]
  BY Zenon DEF SetResponse, Types

\* What is pushed by a step of PushBack.
LEMMA PushedOne ==
    ASSUME Types, NEW s \in Sessions, PushBack(s)
    PROVE  LET r == <<s, pushed[s] + 1>> IN
           /\ r \in Requests /\ ~Pushed(r)
           /\ \A q \in Requests : Pushed(q)' <=> Pushed(q) \/ q = r
<1> DEFINE r == <<s, pushed[s] + 1>>
<1>1. pushed[s] \in Nat /\ pushed[s] < Pushes /\ Pushes \in Nat /\ \A t \in Sessions : pushed[t] \in Nat
  BY BoundsAssumption DEF Types, PushBack
<1>2. r \in Requests /\ r[1] = s /\ r[2] = pushed[s] + 1
  BY <1>1 DEF Requests
<1>3. ~Pushed(r)
  BY <1>1, <1>2 DEF Pushed
<1>4. ASSUME NEW q \in Requests PROVE Pushed(q)' <=> Pushed(q) \/ q = r
  <2>1. q[1] \in Sessions /\ q[2] \in Nat /\ q = <<q[1], q[2]>>
    BY DEF Requests
  <2>2. pushed'[q[1]] = IF q[1] = s THEN pushed[s] + 1 ELSE pushed[q[1]]
    BY Zenon, <2>1 DEF PushBack, Types
  <2>3. CASE q[1] = s
    BY <1>1, <2>1, <2>2, <2>3 DEF Pushed
  <2>4. CASE q[1] # s
    BY SMTT(30), <2>1, <2>2, <2>4 DEF Pushed
  <2> QED BY <2>3, <2>4, Zenon
<1> QED BY <1>2, <1>3, <1>4, Zenon

\* The queues in a step that leaves them alone.
LEMMA QueueFrame ==
    ASSUME QueueInv, UNCHANGED <<pushed, input, cur, tasks, held, answer>>
    PROVE  QueueInv'
  BY Zenon DEF QueueInv, Waiting, Hand, Open, Pushed

\* No step puts a request into two queues, or answers one that stays in a queue.
LEMMA QueueStep ==
    ASSUME Types, WriterInv, QueueInv, AnswerInv, Next
    PROVE  QueueInv'
<1>0. /\ NoReq \notin Requests /\ Waiting \subseteq Requests
      /\ \A c \in Conns : Open(c) \subseteq Requests
      /\ input \in Seq(Requests) /\ \A c \in Conns : tasks[c] \in Seq(Requests)
  BY Zenon, QueueTypes DEF Types
<1>1. ASSUME NEW s \in Sessions, PushBack(s) PROVE QueueInv'
  <2> DEFINE r == <<s, pushed[s] + 1>>
  <2>1. r \in Requests /\ ~Pushed(r) /\ \A q \in Requests : Pushed(q)' <=> Pushed(q) \/ q = r
    BY <1>1, PushedOne, Zenon
  <2>2. input' = Append(input, r) /\ UNCHANGED <<cur, tasks, held, answer>>
    BY <1>1, Zenon DEF PushBack, respVars, writerVars, connVars
  <2> HIDE DEF r
  <2>3. r \notin Waiting /\ \A c \in Conns : r \notin Open(c)
    BY Zenon, <2>1 DEF QueueInv
  <2>4. Range(input') = Range(input) \cup {r} /\ IsInjective(input')
    BY <1>0, <2>1, <2>2, <2>3, AppendSet, Zenon DEF QueueInv, Waiting
  <2>5. Waiting' = Waiting \cup {r} /\ Hand' = Hand /\ \A c \in Conns : Open(c)' = Open(c)
    BY Zenon, <2>2, <2>4 DEF Waiting, Hand, Open
  <2>6. Hand' \cap Range(input') = {}
    BY <2>3, <2>4, <2>5, Zenon DEF QueueInv, Waiting
  <2>7. \A q \in Waiting' : Pushed(q)' /\ answer'[q] = None
    BY Zenon, <1>0, <2>1, <2>2, <2>5 DEF QueueInv, AnswerInv
  <2>8. \A c \in Conns : \A q \in Open(c)' : Pushed(q)' /\ answer'[q] = None
    BY Zenon, <1>0, <2>1, <2>2, <2>5 DEF QueueInv
  <2>9. /\ \A c \in Conns : Open(c)' \cap Waiting' = {}
        /\ \A c, d \in Conns : c # d => Open(c)' \cap Open(d)' = {}
    BY Zenon, <2>3, <2>5 DEF QueueInv
  <2>10. \A c \in Conns : IsInjective(tasks'[c]) /\ held'[c] \notin Range(tasks'[c])
    BY <2>2, Zenon DEF QueueInv
  <2> QED BY <2>4, <2>6, <2>7, <2>8, <2>9, <2>10, Zenon DEF QueueInv
<1>2. CASE Close \/ Dial \/ Send \/ Restart
  BY <1>2, QueueFrame, Zenon DEF Close, Dial, Send, Restart, respVars, writerVars, connVars
<1>3. CASE First \/ Receive
  <2>1. UNCHANGED <<pushed, tasks, held, answer>> /\ cur = NoReq
    BY <1>3, Zenon DEF First, Receive, respVars, connVars, WriterInv
  <2>2. CASE input # <<>> /\ cur' = Head(input) /\ input' = Tail(input)
    <3>1. /\ Head(input) \in Requests /\ Head(input) \in Range(input)
          /\ Range(input') = Range(input) \ {Head(input)} /\ IsInjective(input')
      BY <1>0, <2>2, TailSet, Zenon DEF QueueInv
    <3>2. Hand' = {Head(input)} /\ Hand = {}
      BY <1>0, <2>1, <2>2, <3>1, Zenon DEF Hand
    <3>3. Waiting' = Waiting /\ Hand' \cap Range(input') = {}
      BY <3>1, <3>2, Zenon DEF Waiting
    <3>4. \A c \in Conns : Open(c)' = Open(c)
      BY Zenon, <2>1 DEF Open
    <3>5. \A c \in Conns : IsInjective(tasks'[c]) /\ held'[c] \notin Range(tasks'[c])
      BY <2>1, Zenon DEF QueueInv
    <3> QED BY Zenon, <2>1, <3>1, <3>3, <3>4, <3>5, QueueKeeps
  <2>3. CASE UNCHANGED <<cur, input>>
    BY Zenon, <2>1, <2>3, QueueFrame
  <2> QED BY <1>3, <2>2, <2>3, Zenon DEF First, Receive
<1>4. CASE DialFailed \/ Discard \/ SendFailed
  <2>1. /\ UNCHANGED <<pushed, input, tasks, held>> /\ cur' = NoReq
        /\ cur # NoReq /\ SetResponse(cur, Error)
    BY <1>4, Zenon DEF DialFailed, Discard, SendFailed, Broken, connVars, WriterInv
  <2>2. cur \in Requests /\ Hand = {cur} /\ Hand' = {}
    BY <2>1, Zenon DEF Hand, Types
  <2>3. Waiting' = Range(input) /\ cur \notin Range(input) /\ cur \in Waiting
    BY Zenon, <2>1, <2>2 DEF Waiting, QueueInv
  <2>4. \A c \in Conns : Open(c)' = Open(c) /\ cur \notin Open(c)
    BY Zenon, <2>1, <2>3 DEF Open, QueueInv
  <2>5. Waiting' \subseteq Waiting /\ \A q \in Waiting' : answer'[q] = answer[q]
    BY <1>0, <2>1, <2>2, <2>3, AnswerOne, Zenon DEF Waiting
  <2>6. \A c \in Conns : \A q \in Open(c)' : answer'[q] = answer[q]
    BY Zenon, <1>0, <2>1, <2>2, <2>4, AnswerOne
  <2>7. /\ IsInjective(input') /\ Hand' \cap Range(input') = {}
        /\ \A c \in Conns : IsInjective(tasks'[c]) /\ held'[c] \notin Range(tasks'[c])
    BY Zenon, <2>1, <2>2 DEF QueueInv
  <2> QED BY <2>1, <2>4, <2>5, <2>6, <2>7, QueueKeeps, Zenon
<1>5. CASE Enqueue
  <2>1. /\ conn \in Conns /\ cur \in Requests
        /\ UNCHANGED <<pushed, input, conn, held, answer>> /\ cur' = NoReq
        /\ tasks' = [tasks EXCEPT ![conn] = Append(tasks[conn], cur)]
    BY <1>5, Zenon DEF Enqueue, respVars, WriterInv, Live, Types
  <2>2. Hand = {cur} /\ Hand' = {} /\ cur \in Waiting /\ cur \notin Range(input)
    BY Zenon, <1>0, <2>1 DEF Hand, Waiting, QueueInv
  <2>3. cur \notin Open(conn) /\ cur \notin Range(tasks[conn])
    BY <2>1, <2>2, Zenon DEF QueueInv, Open
  <2>4. Range(tasks'[conn]) = Range(tasks[conn]) \cup {cur} /\ IsInjective(tasks'[conn])
    BY <1>0, <2>1, <2>3, AppendSet DEF QueueInv, Types
  <2>5. \A c \in Conns : c # conn => tasks'[c] = tasks[c]
    BY <2>1, Zenon DEF Types
  <2>6. /\ Waiting' = Range(input) /\ Open(conn)' = Open(conn) \cup {cur}
        /\ \A c \in Conns : c # conn => Open(c)' = Open(c)
    <3>1. Waiting' = Range(input)
      BY Zenon, <2>1, <2>2 DEF Waiting
    <3>2. Open(conn)' = Open(conn) \cup {cur}
      BY <2>1, <2>4, Zenon DEF Open
    <3>3. \A c \in Conns : c # conn => Open(c)' = Open(c)
      BY <2>1, <2>5, Zenon DEF Open
    <3> QED BY <3>1, <3>2, <3>3, Zenon
  <2>7. held[conn] # cur
    BY Zenon, <1>0, <2>1, <2>3 DEF Open
  <2>8. \A c \in Conns : IsInjective(tasks'[c]) /\ held'[c] \notin Range(tasks'[c])
    BY Zenon, <2>1, <2>4, <2>5, <2>7 DEF QueueInv
  <2>9. IsInjective(input') /\ Hand' \cap Range(input') = {}
    BY Zenon, <2>1, <2>2 DEF QueueInv
  <2>10. \A c \in Conns : Open(c)' \subseteq Open(c) \cup {cur} /\ cur \notin Open(c)
    BY <2>1, <2>2, <2>6, Zenon DEF QueueInv
  <2>11. \A c \in Conns : Open(c)' \cap Waiting' = {}
    <3>1. \A c \in Conns : Open(c) \cap Range(input) = {}
      BY Zenon DEF QueueInv, Waiting
    <3> QED BY <2>2, <2>6, <2>10, <3>1, Zenon
  <2>12. \A c, d \in Conns : c # d => Open(c)' \cap Open(d)' = {}
    <3>1. \A c, d \in Conns : c # d => Open(c) \cap Open(d) = {}
      BY Zenon DEF QueueInv
    <3>2. SUFFICES ASSUME NEW c \in Conns, NEW d \in Conns, c # d PROVE Open(c)' \cap Open(d)' = {}
      BY Zenon
    <3>3. CASE c = conn
      BY SMTT(30), <2>6, <2>10, <3>1, <3>2, <3>3
    <3>4. CASE c # conn
      BY SMTT(30), <2>6, <2>10, <3>1, <3>2, <3>4
    <3> QED BY <3>3, <3>4, Zenon
  <2>13. \A q \in Waiting' : Pushed(q)' /\ answer'[q] = None
    BY Zenon, <2>1, <2>6 DEF QueueInv, Waiting, Pushed
  <2>14. \A c \in Conns : \A q \in Open(c)' : Pushed(q)' /\ answer'[q] = None
    <3>1. /\ Pushed(cur) /\ answer[cur] = None
          /\ \A c \in Conns : \A q \in Open(c) : Pushed(q) /\ answer[q] = None
      BY Zenon, <2>2 DEF QueueInv
    <3> QED BY Zenon, <2>1, <2>10, <3>1 DEF Pushed
  <2> QED BY <2>8, <2>9, <2>11, <2>12, <2>13, <2>14, Zenon DEF QueueInv
<1>6. CASE Drain
  <2>1. input # <<>>
    BY <1>6, EmptySeq DEF Drain, WriterInv, Types
  <2>2. /\ SetResponse(Head(input), Error) /\ input' = Tail(input)
        /\ UNCHANGED <<pushed, cur, tasks, held>>
    BY Zenon, <1>6 DEF Drain, connVars
  <2>3. /\ Head(input) \in Requests /\ Head(input) \in Range(input)
        /\ Range(input') = Range(input) \ {Head(input)} /\ IsInjective(input')
    BY Zenon, <1>0, <2>1, <2>2, TailSet DEF QueueInv
  <2>4. Hand' = Hand /\ Head(input) \notin Hand /\ Waiting' = Waiting \ {Head(input)}
    BY Zenon, <2>2, <2>3 DEF Hand, Waiting, QueueInv
  <2>5. \A c \in Conns : Open(c)' = Open(c) /\ Head(input) \notin Open(c)
    BY <2>2, <2>3, Zenon DEF Open, Waiting, QueueInv
  <2>6. \A q \in Waiting' : answer'[q] = answer[q]
    BY <1>0, <2>2, <2>3, <2>4, AnswerOne, Zenon
  <2>7. \A c \in Conns : \A q \in Open(c)' : answer'[q] = answer[q]
    BY Zenon, <1>0, <2>2, <2>3, <2>5, AnswerOne
  <2>8. /\ Hand' \cap Range(input') = {}
        /\ \A c \in Conns : IsInjective(tasks'[c]) /\ held'[c] \notin Range(tasks'[c])
    BY <2>2, <2>3, <2>4, Zenon DEF QueueInv
  <2> QED BY Zenon, <2>2, <2>3, <2>4, <2>5, <2>6, <2>7, <2>8, QueueKeeps
<1>7. ASSUME NEW c \in Conns, ReaderNext(c) PROVE QueueInv'
  <2>1. UNCHANGED <<pushed, input, cur, answer>> /\ held[c] = NoReq
    BY <1>7, Zenon DEF ReaderNext, respVars, writerVars
  <2>2. CASE UNCHANGED <<held, tasks>>
    BY Zenon, <2>1, <2>2, QueueFrame
  <2>3. CASE /\ tasks[c] # <<>> /\ held' = [held EXCEPT ![c] = Head(tasks[c])]
             /\ tasks' = [tasks EXCEPT ![c] = Tail(tasks[c])]
    <3>1. \A d \in Conns : d # c => held'[d] = held[d] /\ tasks'[d] = tasks[d]
      BY Zenon, <2>3 DEF Types
    <3>2. held'[c] = Head(tasks[c]) /\ tasks'[c] = Tail(tasks[c])
      BY Zenon, <2>3 DEF Types
    <3>3. /\ Head(tasks[c]) \in Requests /\ Head(tasks[c]) \in Range(tasks[c])
          /\ Range(tasks'[c]) = Range(tasks[c]) \ {Head(tasks[c])} /\ IsInjective(tasks'[c])
      BY SMTT(30), <1>0, <2>3, <3>2, TailSet DEF QueueInv
    <3>4. Open(c)' = Open(c)
      BY Zenon, <1>0, <2>1, <3>2, <3>3 DEF Open
    <3>5. \A d \in Conns : Open(d)' = Open(d)
      BY Zenon, <3>1, <3>4 DEF Open
    <3>6. Waiting' = Waiting /\ Hand' = Hand
      BY Zenon, <2>1 DEF Waiting, Hand
    <3>7. \A d \in Conns : IsInjective(tasks'[d]) /\ held'[d] \notin Range(tasks'[d])
      BY <3>1, <3>2, <3>3, Zenon DEF QueueInv
    <3>8. IsInjective(input') /\ Hand' \cap Range(input') = {}
      BY Zenon, <2>1, <3>6 DEF QueueInv
    <3> QED BY Zenon, <2>1, <3>5, <3>6, <3>7, <3>8, QueueKeeps
  <2> QED BY <1>7, <2>2, <2>3, Zenon DEF ReaderNext
<1>8. ASSUME NEW c \in Conns, Decode(c) \/ DecodeFailed(c) \/ ReadTimeout(c) PROVE QueueInv'
  <2>1. /\ UNCHANGED <<pushed, input, cur, tasks>> /\ held[c] # NoReq
        /\ held' = [held EXCEPT ![c] = NoReq]
        /\ \E a : SetResponse(held[c], a)
    BY <1>8, Zenon DEF Decode, DecodeFailed, ReadTimeout, DecodeError, writerVars
  <2>2. held[c] \in Requests /\ held[c] \in Open(c) /\ held'[c] = NoReq
        /\ \A d \in Conns : d # c => held'[d] = held[d]
    BY Zenon, <2>1 DEF Types, Open
  <2>3. Waiting' = Waiting /\ Hand' = Hand /\ held[c] \notin Waiting
    BY <2>1, <2>2, Zenon DEF Waiting, Hand, QueueInv
  <2>4. Open(c)' = Open(c) \ {held[c]}
    BY SMTT(30), <2>1, <2>2 DEF Open, QueueInv
  <2>5. \A d \in Conns : d # c => Open(d)' = Open(d) /\ held[c] \notin Open(d)
    <3>1. \A d \in Conns : d # c => Open(d)' = Open(d)
      BY <2>1, <2>2, Zenon DEF Open
    <3>2. \A d \in Conns : d # c => held[c] \notin Open(d)
      BY <2>2, Zenon DEF QueueInv
    <3> QED BY <3>1, <3>2, Zenon
  <2>6. \A q \in Waiting' : answer'[q] = answer[q]
    BY Zenon, <1>0, <2>1, <2>2, <2>3, AnswerOne
  <2>7. \A d \in Conns : \A q \in Open(d)' : answer'[q] = answer[q]
    BY SMTT(30), <1>0, <2>1, <2>2, <2>4, <2>5, AnswerOne
  <2>8. \A d \in Conns : IsInjective(tasks'[d]) /\ held'[d] \notin Range(tasks'[d])
    <3>1. \A d \in Conns : NoReq \notin Range(tasks[d])
      BY Zenon, <1>0 DEF Open
    <3> QED BY Zenon, <2>1, <2>2, <3>1 DEF QueueInv
  <2>9. IsInjective(input') /\ Hand' \cap Range(input') = {}
    BY Zenon, <2>1, <2>3 DEF QueueInv
  <2>10. \A d \in Conns : Open(d)' \subseteq Open(d)
    BY Zenon, <2>4, <2>5
  <2> QED BY <2>1, <2>3, <2>6, <2>7, <2>8, <2>9, <2>10, QueueKeeps, Zenon
<1>9. ASSUME NEW c \in Conns, Execute(c) \/ ConnLost(c) PROVE QueueInv'
  BY Zenon, <1>9, QueueFrame DEF Execute, ConnLost, respVars, writerVars
<1> QED BY Zenon, <1>1, <1>2, <1>3, <1>4, <1>5, <1>6, <1>7, <1>8, <1>9 DEF Next, WriterStep, ReaderStep

-----------------------------------------------------------------------------

\* What is on its way to redis after a flush of b, which may have failed.
LEMMA FlushSets ==
    ASSUME Types, conn \in Conns, conn' = conn, NEW b \in Seq(Requests), Flush(b) \/ FlushFailed(b),
           IsInjective(wire[conn]), IsInjective(b), Range(wire[conn]) \cap Range(b) = {}
    PROVE  /\ IsInjective(wire'[conn]) /\ IsInjective(buf'[conn]) /\ Range(wire'[conn]) \cap Range(buf'[conn]) = {}
           /\ Range(wire'[conn]) \cup Range(buf'[conn]) \subseteq Range(wire[conn]) \cup Range(b)
<1>1. wire[conn] \in Seq(Requests) /\ IsInjective(<<>>) /\ Range(<<>>) = {}
  BY SMTT(30) DEF Types, IsInjective, Range
<1>2. ASSUME NEW k \in 0 .. Len(b), wire' = [wire EXCEPT ![conn] = @ \o SubSeq(b, 1, k)],
             buf' = [buf EXCEPT ![conn] = <<>>]
      PROVE  /\ IsInjective(wire'[conn]) /\ IsInjective(buf'[conn])
             /\ Range(wire'[conn]) \cap Range(buf'[conn]) = {}
             /\ Range(wire'[conn]) \cup Range(buf'[conn]) \subseteq Range(wire[conn]) \cup Range(b)
  <2>1. /\ SubSeq(b, 1, k) \in Seq(Requests) /\ IsInjective(SubSeq(b, 1, k))
        /\ Range(SubSeq(b, 1, k)) \subseteq Range(b)
    BY PrefixSet, Zenon
  <2>2. wire'[conn] = wire[conn] \o SubSeq(b, 1, k) /\ buf'[conn] = <<>>
    BY Zenon, <1>2 DEF Types
  <2>3. /\ IsInjective(wire'[conn])
        /\ Range(wire'[conn]) = Range(wire[conn]) \cup Range(SubSeq(b, 1, k))
    <3>1. Range(wire[conn]) \cap Range(SubSeq(b, 1, k)) = {}
      BY <2>1, Zenon
    <3> DEFINE t == SubSeq(b, 1, k)
    <3>2. t \in Seq(Requests) /\ IsInjective(t) /\ Range(wire[conn]) \cap Range(t) = {}
      BY Zenon, <2>1, <3>1
    <3>3. wire'[conn] = wire[conn] \o t
      BY Zenon, <2>2
    <3> HIDE DEF t
    <3>4. IsInjective(wire'[conn]) /\ Range(wire'[conn]) = Range(wire[conn]) \cup Range(t)
      BY SMTT(30), <1>1, <3>2, <3>3, ConcatSet
    <3> QED BY <3>4, Zenon DEF t
  <2> QED BY Zenon, <1>1, <2>1, <2>2, <2>3
<1>3. CASE ~MustFlush(b) /\ buf' = [buf EXCEPT ![conn] = b] /\ UNCHANGED wire
  BY Zenon, <1>3 DEF Types
<1>4. CASE buf' = [buf EXCEPT ![conn] = <<>>] /\ wire' = [wire EXCEPT ![conn] = @ \o b]
  <2>1. wire'[conn] = wire[conn] \o b /\ buf'[conn] = <<>>
    BY Zenon, <1>4 DEF Types
  <2>2. IsInjective(wire'[conn]) /\ Range(wire'[conn]) = Range(wire[conn]) \cup Range(b)
    BY SMTT(30), <1>1, <2>1, ConcatSet
  <2> QED BY Zenon, <1>1, <2>1, <2>2
<1>5. CASE FlushFailed(b)
  <2>1. PICK k \in 0 .. (IF up[conn] THEN Len(b) ELSE 0) :
               wire' = [wire EXCEPT ![conn] = @ \o SubSeq(b, 1, k)]
    BY Zenon, <1>5 DEF FlushFailed
  <2>2. k \in 0 .. Len(b) /\ buf' = [buf EXCEPT ![conn] = <<>>]
    BY SMTT(30), <1>5, <2>1 DEF FlushFailed
  <2> QED BY Zenon, <1>2, <2>1, <2>2
<1> QED BY <1>3, <1>4, <1>5, Zenon DEF Flush

\* Requests may leave what is on its way to redis.
LEMMA SentKeeps ==
    ASSUME SentInv, pushed' = pushed, ran' = ran, Unsent' \subseteq Unsent,
           \A c \in Conns : Outgoing(c)' \subseteq Outgoing(c),
           \A c \in Conns : Range(replies'[c]) \subseteq Range(replies[c]),
           \A c \in Conns : IsInjective(wire'[c]) /\ IsInjective(buf'[c])
                              /\ Range(wire'[c]) \cap Range(buf'[c]) = {}
    PROVE  SentInv'
<1>1. \A c, d \in Conns : c # d => Outgoing(c)' \cap Outgoing(d)' = {}
  BY Zenon DEF SentInv
<1>2. \A c \in Conns : \A r \in Outgoing(c)' : ran'[r] = 0 /\ Pushed(r)'
  BY Zenon DEF SentInv, Pushed
<1>3. \A c \in Conns : Outgoing(c)' \cap Unsent' = {}
  BY Zenon DEF SentInv
<1>4. \A r \in Unsent' : ran'[r] = 0
  BY Zenon DEF SentInv
<1>5. \A c \in Conns : \A r \in Range(replies'[c]) : ran'[r] = 1
  BY Zenon DEF SentInv
<1> QED BY <1>1, <1>2, <1>3, <1>4, <1>5, Zenon DEF SentInv

\* The same when the buffers of the connections stay as they are.
LEMMA SentFrame ==
    ASSUME SentInv, Unsent' \subseteq Unsent, UNCHANGED <<pushed, ran, wire, buf>>,
           \A c \in Conns : Range(replies'[c]) \subseteq Range(replies[c])
    PROVE  SentInv'
<1>1. \A c \in Conns : Outgoing(c)' = Outgoing(c)
  BY Zenon DEF Outgoing
<1>2. \A c \in Conns : IsInjective(wire'[c]) /\ IsInjective(buf'[c])
                              /\ Range(wire'[c]) \cap Range(buf'[c]) = {}
  BY Zenon DEF SentInv
<1> QED BY <1>1, <1>2, SentKeeps, Zenon

\* No step sends a request twice.
LEMMA SentStep ==
    ASSUME Types, WriterInv, QueueInv, AnswerInv, SentInv, Next
    PROVE  SentInv'
<1>0. /\ NoReq \notin Requests /\ input \in Seq(Requests) /\ Range(input) \subseteq Requests
      /\ \A c \in Conns : /\ wire[c] \in Seq(Requests) /\ buf[c] \in Seq(Requests) /\ replies[c] \in Seq(Requests)
                          /\ Outgoing(c) \subseteq Requests
  BY Zenon, QueueTypes DEF Types, Waiting
<1>1. ASSUME NEW s \in Sessions, PushBack(s) PROVE SentInv'
  <2> DEFINE r == <<s, pushed[s] + 1>>
  <2>1. r \in Requests /\ ~Pushed(r) /\ \A q \in Requests : Pushed(q)' <=> Pushed(q) \/ q = r
    BY <1>1, PushedOne, Zenon
  <2>2. input' = Append(input, r) /\ UNCHANGED <<cur, wpc, wire, buf, replies, ran>>
    BY <1>1, Zenon DEF PushBack, writerVars, connVars
  <2> HIDE DEF r
  <2>3. Unsent' = Unsent \cup {r}
    <3>1. Range(input') = Range(input) \cup {r}
      BY SMTT(30), <1>0, <2>1, <2>2, AppendSet
    <3> QED BY <2>2, <3>1, Zenon DEF Unsent, Hand
  <2>4. \A c \in Conns : Outgoing(c)' = Outgoing(c) /\ r \notin Outgoing(c)
    BY Zenon, <2>1, <2>2 DEF Outgoing, SentInv
  <2>5. ran[r] = 0
    BY Zenon, <2>1 DEF AnswerInv
  <2>6. \A c \in Conns : IsInjective(wire'[c]) /\ IsInjective(buf'[c])
                              /\ Range(wire'[c]) \cap Range(buf'[c]) = {}
    BY Zenon, <2>2 DEF SentInv
  <2>7. \A c, d \in Conns : c # d => Outgoing(c)' \cap Outgoing(d)' = {}
    BY Zenon, <2>4 DEF SentInv
  <2>8. \A c \in Conns : \A q \in Outgoing(c)' : ran'[q] = 0 /\ Pushed(q)'
    BY Zenon, <1>0, <2>1, <2>2, <2>4 DEF SentInv
  <2>9. \A c \in Conns : Outgoing(c)' \cap Unsent' = {}
    BY Zenon, <2>3, <2>4 DEF SentInv
  <2>10. \A q \in Unsent' : ran'[q] = 0
    BY <2>2, <2>3, <2>5, Zenon DEF SentInv
  <2>11. \A c \in Conns : \A q \in Range(replies'[c]) : ran'[q] = 1
    BY <2>2, Zenon DEF SentInv
  <2> QED BY <2>6, <2>7, <2>8, <2>9, <2>10, <2>11, Zenon DEF SentInv
<1>2. CASE Close \/ Restart \/ Dial
  <2>1. Unsent' = Unsent /\ UNCHANGED <<pushed, ran, wire, buf, replies>>
    BY <1>2, Zenon DEF Close, Restart, Dial, Unsent, Hand, writerVars, connVars
  <2> QED BY <2>1, SentFrame, Zenon
<1>3. CASE First \/ Receive
  <2>1. UNCHANGED <<pushed, ran, wire, buf, replies>> /\ cur = NoReq /\ Unsent = Range(input)
        /\ wpc' # "enqueue"
    BY <1>3, Zenon DEF First, Receive, connVars, WriterInv, Unsent, Hand
  <2>2. CASE input # <<>> /\ cur' = Head(input) /\ input' = Tail(input)
    <3>1. Head(input) \in Range(input) /\ Range(input') \subseteq Range(input)
      BY <1>0, <2>2, TailSet, Zenon
    <3>2. Unsent' \subseteq Unsent
      BY <2>1, <2>2, <3>1, Zenon DEF Unsent, Hand
    <3> QED BY <2>1, <3>2, SentFrame, Zenon
  <2>3. CASE UNCHANGED <<cur, input>>
    <3>1. Unsent' \subseteq Unsent
      BY <2>1, <2>3, Zenon DEF Unsent, Hand
    <3> QED BY <2>1, <3>1, SentFrame, Zenon
  <2> QED BY <1>3, <2>2, <2>3, Zenon DEF First, Receive
<1>4. CASE DialFailed \/ Enqueue
  <2>1. Unsent' \subseteq Unsent /\ UNCHANGED <<pushed, ran, wire, buf, replies>>
    BY Zenon, <1>4 DEF DialFailed, Broken, Enqueue, Unsent, Hand, connVars
  <2> QED BY <2>1, SentFrame, Zenon
<1>5. CASE Discard
  <2>1. /\ conn \in Conns /\ conn' = conn /\ Flush(buf[conn]) /\ Unsent' \subseteq Unsent
        /\ UNCHANGED <<pushed, ran, replies>>
    BY Zenon, <1>5 DEF Discard, Unsent, Hand, WriterInv, Live
  <2>2. /\ IsInjective(wire'[conn]) /\ IsInjective(buf'[conn]) /\ Range(wire'[conn]) \cap Range(buf'[conn]) = {}
        /\ Range(wire'[conn]) \cup Range(buf'[conn]) \subseteq Outgoing(conn)
    BY <1>0, <2>1, FlushSets, Zenon DEF SentInv, Outgoing
  <2>3. \A c \in Conns : c # conn => buf'[c] = buf[c] /\ wire'[c] = wire[c]
    BY Zenon, <2>1, FlushElsewhere
  <2>4. \A c \in Conns : IsInjective(wire'[c]) /\ IsInjective(buf'[c])
                              /\ Range(wire'[c]) \cap Range(buf'[c]) = {}
    BY <2>2, <2>3, Zenon DEF SentInv
  <2>5. \A c \in Conns : Outgoing(c)' \subseteq Outgoing(c)
    BY Zenon, <2>2, <2>3 DEF Outgoing
  <2> QED BY Zenon, <2>1, <2>4, <2>5, SentKeeps
<1>6. CASE Send \/ SendFailed
  <2> DEFINE b == Append(buf[conn], cur)
  <2>1. /\ conn \in Conns /\ conn' = conn /\ cur \in Requests
        /\ Flush(b) \/ FlushFailed(b) \/ FlushFailed(buf[conn])
        /\ wpc = "send" /\ (wpc' = "enqueue" \/ cur' = NoReq)
        /\ UNCHANGED <<pushed, input, ran, replies>>
    BY Zenon, <1>6 DEF Send, SendFailed, Broken, WriterInv, Live, Types
  <2>2. /\ cur \in Unsent /\ cur \in Hand /\ Unsent' = Range(input) /\ Range(input) \subseteq Unsent
        /\ cur \notin Range(input)
    BY <1>0, <2>1, Zenon DEF Unsent, Hand, QueueInv
  <2>3. \A c \in Conns : cur \notin Outgoing(c)
    BY Zenon, <2>2 DEF SentInv
  <2>4. b \in Seq(Requests) /\ Range(b) = Range(buf[conn]) \cup {cur} /\ IsInjective(b)
    <3>1. buf[conn] \in Seq(Requests)
      BY <1>0, <2>1, Zenon
    <3>2. IsInjective(buf[conn])
      BY <2>1, Zenon DEF SentInv
    <3>3. cur \notin Range(buf[conn])
      BY <2>1, <2>3, Zenon DEF Outgoing
    <3> QED BY <2>1, <3>1, <3>2, <3>3, AppendSet
  <2>5. IsInjective(wire[conn]) /\ Range(wire[conn]) \cap Range(b) = {}
        /\ IsInjective(buf[conn]) /\ Range(wire[conn]) \cap Range(buf[conn]) = {}
        /\ buf[conn] \in Seq(Requests)
    <3>1. /\ IsInjective(wire[conn]) /\ IsInjective(buf[conn])
          /\ Range(wire[conn]) \cap Range(buf[conn]) = {} /\ cur \notin Range(wire[conn])
      BY Zenon, <2>1, <2>3 DEF SentInv, Outgoing
    <3> QED BY Zenon, <1>0, <2>1, <2>4, <3>1
  <2> HIDE DEF b
  <2>6. /\ IsInjective(wire'[conn]) /\ IsInjective(buf'[conn]) /\ Range(wire'[conn]) \cap Range(buf'[conn]) = {}
        /\ Range(wire'[conn]) \cup Range(buf'[conn]) \subseteq Outgoing(conn) \cup {cur}
    <3>1. CASE Flush(b) \/ FlushFailed(b)
      BY Zenon, <2>1, <2>4, <2>5, <3>1, FlushSets DEF Outgoing
    <3>2. CASE FlushFailed(buf[conn])
      BY Zenon, <2>1, <2>4, <2>5, <3>2, FlushSets DEF Outgoing
    <3> QED BY <2>1, <3>1, <3>2, Zenon
  <2>7. \A c \in Conns : c # conn => buf'[c] = buf[c] /\ wire'[c] = wire[c]
    BY <2>1, FlushElsewhere, Zenon
  <2>8. \A c \in Conns : IsInjective(wire'[c]) /\ IsInjective(buf'[c])
                              /\ Range(wire'[c]) \cap Range(buf'[c]) = {}
    BY Zenon, <2>6, <2>7 DEF SentInv
  <2>9. /\ \A c \in Conns : c # conn => Outgoing(c)' = Outgoing(c)
        /\ \A c \in Conns : Outgoing(c)' \subseteq Outgoing(c) \cup {cur}
    BY <2>6, <2>7, Zenon DEF Outgoing
  <2>10. \A c, d \in Conns : c # d => Outgoing(c)' \cap Outgoing(d)' = {}
    <3>1. \A c, d \in Conns : c # d => Outgoing(c) \cap Outgoing(d) = {}
      BY Zenon DEF SentInv
    <3>2. SUFFICES ASSUME NEW c \in Conns, NEW d \in Conns, c # d PROVE Outgoing(c)' \cap Outgoing(d)' = {}
      BY Zenon
    <3>3. CASE c = conn
      BY <2>3, <2>9, <3>1, <3>2, <3>3, Zenon
    <3>4. CASE c # conn
      BY Zenon, <2>3, <2>9, <3>1, <3>2, <3>4
    <3> QED BY Zenon, <3>3, <3>4
  <2>11. \A c \in Conns : \A q \in Outgoing(c)' : ran'[q] = 0 /\ Pushed(q)'
    <3>1. ran[cur] = 0 /\ Pushed(cur)
      BY <2>2, Zenon DEF SentInv, QueueInv, Waiting
    <3> QED BY Zenon, <2>1, <2>9, <3>1 DEF SentInv, Pushed
  <2>12. \A c \in Conns : Outgoing(c)' \cap Unsent' = {}
    <3>1. \A c \in Conns : Outgoing(c) \cap Unsent = {}
      BY Zenon DEF SentInv
    <3> QED BY <2>2, <2>9, <3>1, Zenon
  <2>13. \A q \in Unsent' : ran'[q] = 0
    BY Zenon, <2>1, <2>2 DEF SentInv
  <2>14. \A c \in Conns : \A q \in Range(replies'[c]) : ran'[q] = 1
    BY <2>1, Zenon DEF SentInv
  <2> QED BY <2>8, <2>10, <2>11, <2>12, <2>13, <2>14, Zenon DEF SentInv
<1>7. CASE Drain
  <2>1. input # <<>>
    BY SMTT(30), <1>7, EmptySeq DEF Drain, WriterInv, Types
  <2>2. Range(Tail(input)) \subseteq Range(input)
    BY <1>0, <2>1, TailSet, Zenon
  <2>3. Unsent' \subseteq Unsent /\ UNCHANGED <<pushed, ran, wire, buf, replies>>
    BY Zenon, <1>7, <2>2 DEF Drain, Unsent, Hand, connVars
  <2> QED BY <2>3, SentFrame, Zenon
<1>8. ASSUME NEW c \in Conns, ReaderNext(c) \/ DecodeFailed(c) \/ ReadTimeout(c) PROVE SentInv'
  <2>1. Unsent' = Unsent /\ UNCHANGED <<pushed, ran, wire, buf, replies>>
    BY Zenon, <1>8 DEF ReaderNext, DecodeFailed, ReadTimeout, DecodeError, Unsent, Hand, writerVars
  <2> QED BY Zenon, <2>1, SentFrame
<1>9. ASSUME NEW c \in Conns, Decode(c) PROVE SentInv'
  <2>1. /\ Unsent' = Unsent /\ UNCHANGED <<pushed, ran, wire, buf>>
        /\ replies[c] # <<>> /\ replies' = [replies EXCEPT ![c] = Tail(replies[c])]
    BY Zenon, <1>9 DEF Decode, Unsent, Hand, writerVars
  <2>2. Range(Tail(replies[c])) \subseteq Range(replies[c])
    BY Zenon, <1>0, <2>1, TailSet
  <2>3. \A d \in Conns : Range(replies'[d]) \subseteq Range(replies[d])
    BY Zenon, <2>1, <2>2 DEF Types
  <2> QED BY Zenon, <2>1, <2>3, SentFrame
<1>10. ASSUME NEW c \in Conns, ConnLost(c) PROVE SentInv'
  <2>1. /\ Unsent' = Unsent /\ UNCHANGED <<pushed, ran, replies, buf>>
        /\ wire' = [wire EXCEPT ![c] = <<>>]
    BY <1>10, Zenon DEF ConnLost, Unsent, Hand, writerVars
  <2>2. wire'[c] = <<>> /\ \A d \in Conns : d # c => wire'[d] = wire[d]
    BY Zenon, <2>1 DEF Types
  <2>3. IsInjective(<<>>) /\ Range(<<>>) = {}
    BY SMTT(30) DEF IsInjective, Range
  <2>4. \A d \in Conns : Outgoing(d)' \subseteq Outgoing(d)
    BY Zenon, <2>1, <2>2, <2>3 DEF Outgoing
  <2>5. \A d \in Conns : IsInjective(wire'[d]) /\ IsInjective(buf'[d])
                              /\ Range(wire'[d]) \cap Range(buf'[d]) = {}
    BY Zenon, <2>1, <2>2, <2>3 DEF SentInv
  <2> QED BY <2>1, <2>4, <2>5, SentKeeps, Zenon
<1>11. ASSUME NEW c \in Conns, Execute(c) PROVE SentInv'
  <2> DEFINE r == Head(wire[c])
  <2>1. /\ wire[c] # <<>> /\ ran' = [ran EXCEPT ![r] = ran[r] + 1]
        /\ wire' = [wire EXCEPT ![c] = Tail(wire[c])]
        /\ replies' = IF up[c] THEN [replies EXCEPT ![c] = Append(replies[c], r)] ELSE replies
        /\ Unsent' = Unsent /\ UNCHANGED <<pushed, buf>>
    BY <1>11, Zenon DEF Execute, Unsent, Hand, writerVars
  <2>2. /\ r \in Requests /\ r \in Range(wire[c]) /\ Range(Tail(wire[c])) = Range(wire[c]) \ {r}
        /\ IsInjective(Tail(wire[c])) /\ r \notin Range(buf[c])
    BY Zenon, <1>0, <2>1, TailSet DEF SentInv
  <2>3. wire'[c] = Tail(wire[c]) /\ \A d \in Conns : d # c => wire'[d] = wire[d]
    BY <2>1, Zenon DEF Types
  <2>4. \A d \in Conns : Range(replies'[d]) \subseteq Range(replies[d]) \cup {r}
    <3>1. Range(Append(replies[c], r)) = Range(replies[c]) \cup {r}
      BY <1>0, <2>2, AppendSet
    <3> QED BY Zenon, <2>1, <3>1 DEF Types
  <2>5. ran[r] = 0 /\ ran'[r] = 1 /\ \A q \in Requests : q # r => ran'[q] = ran[q]
    <3>1. ran[r] = 0
      BY <2>2, Zenon DEF SentInv, Outgoing
    <3>2. ran'[r] = ran[r] + 1 /\ \A q \in Requests : q # r => ran'[q] = ran[q]
      BY Zenon, <2>1, <2>2 DEF Types
    <3> QED BY SMTT(30), <3>1, <3>2
  <2> HIDE DEF r
  <2>6. Outgoing(c)' = Outgoing(c) \ {r}
    BY <2>1, <2>2, <2>3, Zenon DEF Outgoing
  <2>7. \A d \in Conns : d # c => Outgoing(d)' = Outgoing(d) /\ r \notin Outgoing(d)
    <3>1. \A d \in Conns : d # c => Outgoing(d)' = Outgoing(d)
      BY Zenon, <2>1, <2>3 DEF Outgoing
    <3>2. \A d \in Conns : d # c => r \notin Outgoing(d)
      <4>1. r \in Outgoing(c)
        BY <2>2, Zenon DEF Outgoing
      <4> QED BY <4>1, Zenon DEF SentInv
    <3> QED BY <3>1, <3>2, Zenon
  <2>8. \A d \in Conns : Outgoing(d)' \subseteq Outgoing(d) /\ r \notin Outgoing(d)'
    BY Zenon, <2>6, <2>7
  <2>9. \A d \in Conns : IsInjective(wire'[d]) /\ IsInjective(buf'[d])
                              /\ Range(wire'[d]) \cap Range(buf'[d]) = {}
    BY <2>1, <2>2, <2>3, Zenon DEF SentInv
  <2>10. \A d, e \in Conns : d # e => Outgoing(d)' \cap Outgoing(e)' = {}
    BY Zenon, <2>8 DEF SentInv
  <2>11. \A d \in Conns : \A q \in Outgoing(d)' : ran'[q] = 0 /\ Pushed(q)'
    <3>1. ASSUME NEW d \in Conns, NEW q \in Outgoing(d)' PROVE ran'[q] = 0 /\ Pushed(q)'
      <4>1. q \in Outgoing(d) /\ q # r
        BY <2>8, <3>1, Zenon
      <4>2. ran[q] = 0 /\ Pushed(q)
        BY <4>1, Zenon DEF SentInv
      <4> QED BY <1>0, <2>1, <2>5, <4>1, <4>2, Zenon DEF Pushed
    <3> QED BY <3>1, Zenon
  <2>12. \A d \in Conns : Outgoing(d)' \cap Unsent' = {}
    BY <2>1, <2>8, Zenon DEF SentInv
  <2>13. \A q \in Unsent' : ran'[q] = 0
    <3>1. r \notin Unsent /\ Unsent \subseteq Requests
      BY <1>0, <2>2, QueueTypes, Zenon DEF SentInv, Outgoing, Unsent
    <3> QED BY Zenon, <2>1, <2>5, <3>1 DEF SentInv
  <2>14. \A d \in Conns : \A q \in Range(replies'[d]) : ran'[q] = 1
    <3>1. \A d \in Conns : Range(replies[d]) \subseteq Requests
      BY Zenon, <1>0, SeqRange
    <3>2. \A d \in Conns : \A q \in Range(replies[d]) : ran[q] = 1
      BY Zenon DEF SentInv
    <3> QED BY Zenon, <2>4, <2>5, <3>1, <3>2
  <2> QED BY <2>9, <2>10, <2>11, <2>12, <2>13, <2>14, Zenon DEF SentInv
<1> QED BY Zenon, <1>1, <1>2, <1>3, <1>4, <1>5, <1>6, <1>7, <1>8, <1>9, <1>10, <1>11
        DEF Next, WriterStep, ReaderStep
=============================================================================
