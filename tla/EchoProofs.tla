----------------------------- MODULE EchoProofs -----------------------------
(***************************************************************************)
(* Proofs about Echo.  For every size of header, every reader, every set   *)
(* of messages and every cut of the streams, both sides cut the bytes into *)
(* the messages that were sent, and read() does not wait for bytes it has. *)
(*                                                                         *)
(* The argument is IInv.  Framed says that the messages taken from a       *)
(* stream are the first of those put into it and that the bytes not yet    *)
(* taken, buffered or under way, are those of the rest; SizeKept that a    *)
(* size a parser has taken is the one the header in its buffer tells.  A   *)
(* message whose header is refused is never taken: its reader's size is    *)
(* not that of a message, so the parser stops there.                       *)
(* A buffer whose array could not be had has lost bytes without a word     *)
(* (fragmentation.hpp:59-66): Framed is claimed of a side while it has not *)
(* (~lossy; no "gap" in spoilt), and so are the theorems that rest on it.  *)
(* The last part puts the sides together with Answering, Awaiting and      *)
(* KeepsNone: what comes back is what was sent, and when both sides wait   *)
(* for each other, the session holds a whole message back.                 *)
(***************************************************************************)
EXTENDS Echo, SequenceTheorems, TLAPS

\* What a header announces, all of it; and what may be put into a stream.
Whole == {m \in Seq(Byte) : WellFormed(m)}
Sendable == Whole \cup Garbage

\* d are the first of the messages a, and the bytes r are those of the rest, end to end;
\* c[j] is how many bytes the first j have.
Ends(a) ==
  {c \in [0..Len(a) -> Nat] :
     /\ c[0] = 0
     /\ \A j \in 1..Len(a) : c[j] = c[j - 1] + Len(a[j])
     /\ \A i, j \in 0..Len(a) : i <= j => c[i] <= c[j]}

Framed(d, a, r) ==
  /\ Len(d) <= Len(a)
  /\ \A j \in 1..Len(d) : d[j] = a[j]
  /\ \E c \in Ends(a) :
       /\ Len(r) = c[Len(a)] - c[Len(d)]
       /\ \A j \in (Len(d) + 1)..Len(a) : \A i \in 1..Len(a[j]) :
            r[c[j - 1] - c[Len(d)] + i] = a[j][i]

\* What a parser holds: the size it has taken is the one the header tells.
SizeKept(b, s) ==
  s # -1 =>
    /\ HeaderSize <= Len(b)
    /\ s = Reader(SubSeq(b, 1, HeaderSize))
    /\ s >= HeaderSize /\ s >= 1

Sessions ==
  Server!Parsing =>
    /\ handled \in Seq(Whole) /\ answers \in Seq(Sendable)
    /\ ~lossy => Len(handled) <= Len(sent) /\ \A j \in 1..Len(handled) : handled[j] = sent[j]
    /\ phase = "connecting" /\ ~lossy => Framed(handled, sent, up)
    /\ phase = "waiting" /\ ~lossy => Framed(handled, sent, inbuf \o up)
    /\ phase = "waiting" => SizeKept(inbuf, insize) /\ (insize # -1 => Len(inbuf) < insize)

Replies ==
  reader /\ Server!Parsing /\ spoilt \subseteq {"memory"} =>
    /\ received \in Seq(Whole)
    /\ Framed(received, answers, buffer \o down)
    /\ SizeKept(buffer, size)

Blocked ==
  /\ pc = "reading" => linked
  /\ spoilt \subseteq {"gap"} =>
       /\ size = -1 \/ (size >= HeaderSize /\ size >= 1)
       /\ pc = "reading" /\ reader => ~Client!Complete(buffer)

IInv == TypeOK /\ sent \in Seq(Messages \cup Garbage) /\ Sessions /\ Replies /\ Blocked
-----------------------------------------------------------------------------
LEMMA Sizes ==
  ASSUME NEW m \in Sendable
  PROVE  m \in Seq(Byte) /\ Len(m) \in Nat /\ Len(m) >= 1 /\ Len(m) >= HeaderSize
BY EchoAssumption, LenProperties DEF Sendable, Whole, WellFormed

\* Messages are whole.
LEMMA MessagesWhole == Messages \subseteq Whole /\ Messages \cup Garbage \subseteq Sendable
BY EchoAssumption DEF Whole, Sendable

\* What is no message is a header that the reader refuses.
LEMMA Refusable ==
  ASSUME NEW m \in Garbage
  PROVE  Len(m) = HeaderSize /\ Reader(m) < HeaderSize
BY EchoAssumption

\* The reader's size of a message is its length: what it refuses is not a message.
LEMMA NotGarbage ==
  ASSUME NEW m \in Whole
  PROVE  m \notin Garbage
<1>1. Len(m) >= HeaderSize /\ Reader(SubSeq(m, 1, HeaderSize)) = Len(m) /\ m \in Seq(Byte)
  BY DEF Whole, WellFormed
<1>2. Len(m) = HeaderSize => SubSeq(m, 1, HeaderSize) = m
  BY <1>1, SubSeqFull
<1>3. ASSUME m \in Garbage PROVE FALSE
  <2>1. Len(m) = HeaderSize /\ Reader(m) < HeaderSize /\ HeaderSize \in Nat
    BY <1>3, Refusable, EchoAssumption
  <2>2. Reader(m) = HeaderSize
    BY <2>1, <1>1, <1>2
  <2> QED
    BY <2>1, <2>2
<1> QED
  BY <1>3

\* A piece of a sequence.
LEMMA Piece ==
  ASSUME NEW S, NEW s \in Seq(S), NEW a \in Nat, NEW b \in Nat, b <= Len(s)
  PROVE  /\ SubSeq(s, a + 1, b) \in Seq(S)
         /\ Len(SubSeq(s, a + 1, b)) = IF a <= b THEN b - a ELSE 0
         /\ \A j \in 1..Len(SubSeq(s, a + 1, b)) : SubSeq(s, a + 1, b)[j] = s[a + j]
<1>1. \A j \in (a + 1)..b : s[j] \in S
  BY LenProperties, ElementOfSeq
<1>2. /\ SubSeq(s, a + 1, b) \in Seq(S)
      /\ Len(SubSeq(s, a + 1, b)) = IF a + 1 <= b THEN b - (a + 1) + 1 ELSE 0
      /\ \A j \in 1..(b - (a + 1) + 1) : SubSeq(s, a + 1, b)[j] = s[a + 1 + j - 1]
  BY <1>1, SubSeqProperties
<1> QED
  BY <1>2

\* A beginning of a sequence, and what is left of it.
LEMMA Beginning ==
  ASSUME NEW S, NEW s \in Seq(S), NEW k \in Nat, k <= Len(s)
  PROVE  /\ SubSeq(s, 1, k) \in Seq(S) /\ Len(SubSeq(s, 1, k)) = k
         /\ \A j \in 1..k : SubSeq(s, 1, k)[j] = s[j]
<1>1. /\ SubSeq(s, 0 + 1, k) \in Seq(S)
      /\ Len(SubSeq(s, 0 + 1, k)) = IF 0 <= k THEN k - 0 ELSE 0
      /\ \A j \in 1..Len(SubSeq(s, 0 + 1, k)) : SubSeq(s, 0 + 1, k)[j] = s[0 + j]
  BY Piece
<1>2. \A j \in 1..k : 0 + j = j
  OBVIOUS
<1>3. Len(SubSeq(s, 1, k)) = k
  BY <1>1
<1> QED
  BY <1>1, <1>2, <1>3

LEMMA Remainder ==
  ASSUME NEW S, NEW s \in Seq(S), NEW k \in Nat, k <= Len(s)
  PROVE  /\ SubSeq(s, k + 1, Len(s)) \in Seq(S) /\ Len(SubSeq(s, k + 1, Len(s))) = Len(s) - k
         /\ \A j \in 1..(Len(s) - k) : SubSeq(s, k + 1, Len(s))[j] = s[k + j]
<1>1. Len(s) \in Nat
  BY LenProperties
<1> QED
  BY <1>1, Piece

\* Bytes that are taken from one end and put to the other make the same stream.
LEMMA Moved ==
  ASSUME NEW S, NEW s \in Seq(S), NEW t \in Seq(S), NEW k \in Nat, k <= Len(t)
  PROVE  (s \o SubSeq(t, 1, k)) \o SubSeq(t, k + 1, Len(t)) = s \o t
<1> DEFINE u == SubSeq(t, 1, k) v == SubSeq(t, k + 1, Len(t))
<1>1. /\ u \in Seq(S) /\ Len(u) = k /\ \A j \in 1..k : u[j] = t[j]
  BY Beginning
<1>2. /\ v \in Seq(S) /\ Len(v) = Len(t) - k /\ \A j \in 1..(Len(t) - k) : v[j] = t[k + j]
  BY Remainder
<1>3. Len(t) \in Nat
  BY LenProperties
<1> HIDE DEF u, v
<1>4. /\ u \o v \in Seq(S) /\ Len(u \o v) = Len(u) + Len(v)
      /\ \A j \in 1..(Len(u) + Len(v)) : (u \o v)[j] = IF j <= Len(u) THEN u[j] ELSE v[j - Len(u)]
  BY <1>1, <1>2, ConcatProperties
<1>5. Len(u \o v) = Len(t)
  BY <1>1, <1>2, <1>3, <1>4
<1>6. \A j \in 1..Len(t) : (u \o v)[j] = t[j]
  <2> TAKE j \in 1..Len(t)
  <2>1. CASE j <= k
    BY <2>1, <1>1, <1>2, <1>3, <1>4
  <2>2. CASE ~(j <= k)
    <3>1. j - k \in 1..(Len(t) - k) /\ k + (j - k) = j
      BY <2>2, <1>3
    <3>2. (u \o v)[j] = v[j - k]
      BY <2>2, <1>1, <1>2, <1>3, <1>4
    <3> QED
      BY <3>1, <3>2, <1>2
  <2> QED
    BY <2>1, <2>2
<1>7. u \o v = t
  BY <1>4, <1>5, <1>6, SeqEqual
<1>8. (s \o u) \o v = s \o (u \o v)
  <2>1. u \in Seq(S) /\ v \in Seq(S)
    BY <1>1, <1>2
  <2> QED
    BY <2>1, ConcatAssociative, SMTT(30)
<1> QED
  BY <1>7, <1>8 DEF u, v
-----------------------------------------------------------------------------
(* The messages of a stream. *)

\* A byte i of a message of l bytes that begins after x bytes and ends after y of all z,
\* of which the first w are gone.
LEMMA Within ==
  ASSUME NEW w \in Nat, NEW x \in Nat, NEW y \in Nat, NEW z \in Nat, NEW l \in Nat, NEW i \in Nat,
         w <= x, y = x + l, y <= z, 1 <= i, i <= l
  PROVE  /\ x - w \in Nat /\ 1 <= (x - w) + i /\ (x - w) + i <= z - w
OBVIOUS

LEMMA FramedEmpty == Framed(<<>>, <<>>, <<>>)
<1> DEFINE c == [j \in 0..0 |-> 0]
<1>1. Len(<<>>) = 0
  OBVIOUS
<1>2. c \in Ends(<<>>)
  BY <1>1 DEF Ends
<1> QED
  BY <1>1, <1>2 DEF Framed

\* A message that is sent is at the end of the stream.
LEMMA FramedSend ==
  ASSUME NEW d \in Seq(Sendable), NEW a \in Seq(Sendable), NEW r \in Seq(Byte),
         Framed(d, a, r), NEW m \in Sendable
  PROVE  Framed(d, Append(a, m), r \o m)
<1>1. m \in Seq(Byte) /\ Len(m) \in Nat
  BY Sizes
<1>2. Len(d) \in Nat /\ Len(a) \in Nat /\ Len(r) \in Nat
  BY LenProperties
<1>3. PICK c \in Ends(a) :
        /\ Len(r) = c[Len(a)] - c[Len(d)]
        /\ \A j \in (Len(d) + 1)..Len(a) : \A i \in 1..Len(a[j]) :
             r[c[j - 1] - c[Len(d)] + i] = a[j][i]
  BY DEF Framed
<1> DEFINE n == Len(a) + 1
           a2 == Append(a, m)
           c2 == [j \in 0..n |-> IF j <= Len(a) THEN c[j] ELSE c[Len(a)] + Len(m)]
           r2 == r \o m
<1>4. /\ Len(a2) = n /\ a2[n] = m /\ \A j \in 1..Len(a) : a2[j] = a[j]
  BY AppendProperties
<1>5. /\ c \in [0..Len(a) -> Nat] /\ c[0] = 0
      /\ \A j \in 1..Len(a) : c[j] = c[j - 1] + Len(a[j])
      /\ \A i, j \in 0..Len(a) : i <= j => c[i] <= c[j]
  BY DEF Ends
<1>6. /\ Len(r2) = Len(r) + Len(m)
      /\ \A j \in 1..(Len(r) + Len(m)) : r2[j] = IF j <= Len(r) THEN r[j] ELSE m[j - Len(r)]
  BY <1>1, ConcatProperties
<1>7. Len(d) <= Len(a) /\ \A j \in 1..Len(d) : d[j] = a[j]
  BY DEF Framed
<1>8. \A j \in 1..Len(a) : a[j] \in Sendable /\ Len(a[j]) \in Nat
  BY Sizes, ElementOfSeq
<1> HIDE DEF a2, r2
<1>9. /\ c2[n] = c[Len(a)] + Len(m) /\ \A j \in 0..Len(a) : c2[j] = c[j]
  BY <1>2
<1>10. c2 \in [0..n -> Nat]
  <2>1. c[Len(a)] + Len(m) \in Nat
    <3>1. Len(a) \in 0..Len(a)
      BY <1>2
    <3>2. c[Len(a)] \in Nat
      BY <3>1, <1>5
    <3> QED
      BY <3>2, <1>1
  <2>2. \A j \in 0..n : j <= Len(a) => j \in 0..Len(a) /\ c[j] \in Nat
    BY <1>2, <1>5
  <2> QED
    BY <2>1, <2>2
<1> HIDE DEF c2
<1>11. c2 \in Ends(a2)
  <2>1. c2[0] = 0
    BY <1>2, <1>5, <1>9
  <2>2. ASSUME NEW j \in 1..n PROVE c2[j] = c2[j - 1] + Len(a2[j])
    <3>1. CASE j <= Len(a)
      <4>1. j \in 1..Len(a) /\ j \in 0..Len(a) /\ j - 1 \in 0..Len(a)
        BY <3>1, <1>2
      <4> QED
        BY <4>1, <1>4, <1>5, <1>9
    <3>2. CASE j = n
      <4>1. j - 1 = Len(a) /\ Len(a) \in 0..Len(a)
        BY <3>2, <1>2
      <4> QED
        BY <3>2, <4>1, <1>4, <1>9
    <3> QED
      BY <3>1, <3>2, <1>2
  <2>3. ASSUME NEW i \in 0..n, NEW j \in 0..n, i <= j PROVE c2[i] <= c2[j]
    <3>1. CASE j <= Len(a)
      <4>1. i \in 0..Len(a) /\ j \in 0..Len(a)
        BY <3>1, <2>3, <1>2
      <4> QED
        BY <4>1, <2>3, <1>5, <1>9
    <3>2. CASE j = n /\ i <= Len(a)
      <4>1. i \in 0..Len(a) /\ Len(a) \in 0..Len(a)
        BY <3>2, <1>2
      <4>2. c[i] <= c[Len(a)] /\ c[i] \in Nat /\ c[Len(a)] \in Nat
        BY <4>1, <3>2, <1>5
      <4> QED
        BY <3>2, <4>1, <4>2, <1>1, <1>9
    <3>3. CASE i = n /\ j = n
      <4>1. n \in 0..n
        BY <1>2
      <4>2. c2[n] \in Nat
        BY <4>1, <1>10
      <4> QED
        BY <4>2, <3>3
    <3> QED
      BY <3>1, <3>2, <3>3, <2>3, <1>2
  <2> QED
    BY <1>4, <1>10, <2>1, <2>2, <2>3 DEF Ends
<1>12. Len(r2) = c2[Len(a2)] - c2[Len(d)]
  <2>1. Len(a) \in 0..Len(a) /\ Len(d) \in 0..Len(a)
    BY <1>2, <1>7
  <2>2. c[Len(a)] \in Nat /\ c[Len(d)] \in Nat
    BY <2>1, <1>5
  <2> QED
    BY <2>1, <2>2, <1>1, <1>3, <1>4, <1>6, <1>9
<1>13. ASSUME NEW j \in (Len(d) + 1)..n, NEW i \in 1..Len(a2[j])
       PROVE  r2[c2[j - 1] - c2[Len(d)] + i] = a2[j][i]
  <2> DEFINE p == c2[j - 1] - c2[Len(d)]
  <2>1. j - 1 \in 0..Len(a) /\ p = c[j - 1] - c[Len(d)] /\ p \in Nat /\ c[Len(d)] <= c[j - 1]
    <3>1. j - 1 \in 0..Len(a) /\ Len(d) \in 0..Len(a) /\ Len(d) <= j - 1
      BY <1>2, <1>7
    <3>2. c[j - 1] \in Nat /\ c[Len(d)] \in Nat /\ c[Len(d)] <= c[j - 1]
      BY <3>1, <1>5
    <3>3. p = c[j - 1] - c[Len(d)]
      BY <3>1, <1>9
    <3>4. c[j - 1] - c[Len(d)] \in Nat
      BY <3>2
    <3> HIDE DEF p
    <3> QED
      BY <3>1, <3>2, <3>3, <3>4
  <2> HIDE DEF p
  <2>2. CASE j <= Len(a)
    <3>1. a2[j] = a[j] /\ Len(a[j]) \in Nat /\ j \in 1..Len(a)
      BY <2>2, <1>2, <1>4, <1>8
    <3>2. p + i <= Len(r) /\ p + i >= 1
      <4>1. c[j] = c[j - 1] + Len(a[j]) /\ c[j] <= c[Len(a)] /\ c[j] \in Nat /\ c[j - 1] \in Nat
        <5>1. j \in 0..Len(a) /\ j - 1 \in 0..Len(a) /\ Len(a) \in 0..Len(a) /\ j <= Len(a)
          BY <3>1, <2>1, <1>2
        <5> QED
          BY <5>1, <3>1, <1>5
      <4>2. Len(d) \in 0..Len(a) /\ Len(a) \in 0..Len(a)
        BY <1>2, <1>7
      <4>3. c[Len(d)] \in Nat /\ c[Len(a)] \in Nat /\ c[Len(d)] <= c[j - 1]
        BY <4>2, <2>1, <1>5
      <4>4. i \in Nat /\ i >= 1 /\ i <= Len(a[j])
        BY <3>1
      <4>5. Len(r) = c[Len(a)] - c[Len(d)] /\ p = c[j - 1] - c[Len(d)] /\ Len(a[j]) \in Nat
        BY <3>1, <2>1, <1>3
      <4>6. 1 <= (c[j - 1] - c[Len(d)]) + i /\ (c[j - 1] - c[Len(d)]) + i <= c[Len(a)] - c[Len(d)]
        BY <4>1, <4>3, <4>4, <4>5, Within
      <4> QED
        BY <4>5, <4>6
    <3>3. r[p + i] = a[j][i]
      <4>1. j \in (Len(d) + 1)..Len(a) /\ i \in 1..Len(a[j])
        BY <3>1, <2>2, <1>2
      <4>2. r[c[j - 1] - c[Len(d)] + i] = a[j][i]
        BY <4>1, <1>3
      <4> QED
        BY <4>2, <2>1
    <3>4. r2[p + i] = r[p + i]
      <4>1. i \in Nat /\ p \in Nat
        BY <3>1, <2>1
      <4>2. p + i \in 1..(Len(r) + Len(m))
        BY <4>1, <3>2, <1>1, <1>2
      <4> QED
        BY <4>2, <3>2, <1>6
    <3> QED
      BY <3>1, <3>3, <3>4 DEF p
  <2>3. CASE j = n
    <3>1. p = Len(r) /\ a2[j] = m
      BY <2>1, <2>3, <1>2, <1>3, <1>4
    <3>2. i \in 1..Len(m)
      BY <3>1
    <3>3. p + i \in 1..(Len(r) + Len(m)) /\ ~(p + i <= Len(r)) /\ (p + i) - Len(r) = i
      BY <3>1, <3>2, <1>1, <1>2
    <3>4. r2[p + i] = m[i]
      BY <3>3, <1>6
    <3> QED
      BY <3>1, <3>4 DEF p
  <2> QED
    BY <2>2, <2>3, <1>2
<1>14. Len(d) <= Len(a2) /\ \A j \in 1..Len(d) : d[j] = a2[j]
  BY <1>2, <1>4, <1>7
<1> QED
  <2>1. \A j \in (Len(d) + 1)..Len(a2) : \A i \in 1..Len(a2[j]) :
          r2[c2[j - 1] - c2[Len(d)] + i] = a2[j][i]
    BY <1>4, <1>13
  <2>2. Framed(d, a2, r2)
    BY <1>11, <1>12, <1>14, <2>1 DEF Framed
  <2> QED
    BY <2>2 DEF a2, r2

\* The bytes of a stream begin with the next message, and the rest are of those after it.
LEMMA FramedTake ==
  ASSUME NEW d \in Seq(Sendable), NEW a \in Seq(Sendable), NEW r \in Seq(Byte),
         Framed(d, a, r), r # <<>>
  PROVE  \E m \in Sendable :
           /\ Len(d) + 1 \in 1..Len(a) /\ m = a[Len(d) + 1]
           /\ Len(m) <= Len(r) /\ SubSeq(r, 1, Len(m)) = m
           /\ Framed(Append(d, m), a, SubSeq(r, Len(m) + 1, Len(r)))
<1>2. Len(d) \in Nat /\ Len(a) \in Nat /\ Len(r) \in Nat
  BY LenProperties
<1>3. PICK c \in Ends(a) :
        /\ Len(r) = c[Len(a)] - c[Len(d)]
        /\ \A j \in (Len(d) + 1)..Len(a) : \A i \in 1..Len(a[j]) :
             r[c[j - 1] - c[Len(d)] + i] = a[j][i]
  BY DEF Framed
<1>5. /\ c \in [0..Len(a) -> Nat] /\ c[0] = 0
      /\ \A j \in 1..Len(a) : c[j] = c[j - 1] + Len(a[j])
      /\ \A i, j \in 0..Len(a) : i <= j => c[i] <= c[j]
  BY DEF Ends
<1>7. Len(d) <= Len(a) /\ \A j \in 1..Len(d) : d[j] = a[j]
  BY DEF Framed
<1>8. \A j \in 1..Len(a) : a[j] \in Sendable /\ a[j] \in Seq(Byte) /\ Len(a[j]) \in Nat /\ Len(a[j]) >= 1
  BY Sizes, ElementOfSeq
<1>9. Len(r) # 0
  BY EmptySeq, SeqEqual
<1>10. Len(d) < Len(a)
  <2>1. Len(d) = Len(a) => Len(r) = 0
    <3>1. Len(a) \in 0..Len(a)
      BY <1>2
    <3>2. c[Len(a)] \in Nat
      BY <3>1, <1>5
    <3> QED
      BY <3>2, <1>3
  <2> QED
    BY <2>1, <1>2, <1>7, <1>9
<1> DEFINE n == Len(d) + 1
           m == a[n]
           l == Len(m)
           d2 == Append(d, m)
           r2 == SubSeq(r, l + 1, Len(r))
<1>11. n \in 1..Len(a) /\ n \in 0..Len(a) /\ n - 1 = Len(d) /\ Len(d) \in 0..Len(a) /\ Len(a) \in 0..Len(a)
       /\ n <= Len(a) /\ n \in (Len(d) + 1)..Len(a)
  BY <1>2, <1>10
<1> HIDE DEF n
<1>12. m \in Sendable /\ m \in Seq(Byte) /\ l \in Nat /\ l >= 1
  BY <1>8, <1>11
<1>13. /\ c[n] = c[Len(d)] + l /\ c[n] <= c[Len(a)]
       /\ c[n] \in Nat /\ c[Len(d)] \in Nat /\ c[Len(a)] \in Nat
  BY <1>5, <1>11
<1>14. /\ Len(d2) = n /\ d2[n] = m /\ \A j \in 1..Len(d) : d2[j] = d[j]
  <2>1. d2 \in Seq(Sendable) /\ Len(d2) = Len(d) + 1 /\ d2[Len(d) + 1] = m
        /\ \A j \in 1..Len(d) : d2[j] = d[j]
    BY <1>12, AppendProperties
  <2> QED
    BY <2>1 DEF n
<1>15. l <= Len(r)
  <2> HIDE DEF l
  <2> QED
    BY <1>3, <1>12, <1>13
<1>16. /\ r2 \in Seq(Byte) /\ Len(r2) = Len(r) - l
       /\ \A j \in 1..(Len(r) - l) : r2[j] = r[l + j]
  BY <1>12, <1>15, Remainder
<1>17. \A i \in 1..l : r[i] = m[i]
  <2> TAKE i \in 1..l
  <2>1. r[c[n - 1] - c[Len(d)] + i] = a[n][i]
    BY <1>3, <1>11
  <2>2. c[n - 1] - c[Len(d)] + i = i
    BY <1>11, <1>12, <1>13
  <2> QED
    BY <2>1, <2>2
<1>18. SubSeq(r, 1, l) = m
  <2>1. /\ SubSeq(r, 1, l) \in Seq(Byte) /\ Len(SubSeq(r, 1, l)) = l
        /\ \A j \in 1..l : SubSeq(r, 1, l)[j] = r[j]
    BY <1>12, <1>15, Beginning
  <2> QED
    BY <2>1, <1>12, <1>17, SeqEqual
<1> HIDE DEF r2, d2, l, m
<1>19. Len(r2) = c[Len(a)] - c[n]
  BY <1>3, <1>12, <1>13, <1>16
<1>20. ASSUME NEW j \in (n + 1)..Len(a), NEW i \in 1..Len(a[j])
       PROVE  r2[c[j - 1] - c[n] + i] = a[j][i]
  <2>1. /\ j \in 0..Len(a) /\ j - 1 \in 0..Len(a) /\ j \in 1..Len(a) /\ j \in (Len(d) + 1)..Len(a)
        /\ n <= j - 1 /\ j <= Len(a)
    BY <1>2, <1>11
  <2>2. /\ c[j] = c[j - 1] + Len(a[j]) /\ c[n] <= c[j - 1] /\ c[j] <= c[Len(a)]
        /\ c[j] \in Nat /\ c[j - 1] \in Nat /\ Len(a[j]) \in Nat
    BY <2>1, <1>5, <1>8, <1>11
  <2>3. i \in Nat /\ 1 <= i /\ i <= Len(a[j])
    BY <2>2
  <2> DEFINE p == (c[j - 1] - c[n]) + i
  <2>4. p \in Int /\ 1 <= p /\ p <= c[Len(a)] - c[n]
    <3>1. /\ c[j - 1] - c[n] \in Nat
          /\ 1 <= (c[j - 1] - c[n]) + i /\ (c[j - 1] - c[n]) + i <= c[Len(a)] - c[n]
      BY <2>2, <2>3, <1>13, Within
    <3> QED
      BY <3>1, <2>3
  <2>5. l + p = (c[j - 1] - c[Len(d)]) + i
    <3> DEFINE x == c[j - 1] w == c[Len(d)] v == c[n]
    <3>1. x \in Nat /\ w \in Nat /\ v \in Nat /\ l \in Nat /\ i \in Nat
      BY <2>2, <2>3, <1>12, <1>13
    <3>2. v = w + l
      BY <1>13
    <3> HIDE DEF x, w, v
    <3>3. l + ((x - v) + i) = (x - w) + i
      BY <3>1, <3>2
    <3> QED
      BY <3>3 DEF x, w, v
  <2>6. r[(c[j - 1] - c[Len(d)]) + i] = a[j][i]
    BY <2>1, <1>3
  <2> HIDE DEF p
  <2>7. p \in 1..(Len(r) - l)
    BY <2>4, <1>16, <1>19, <1>2, <1>12
  <2>8. r2[p] = r[l + p]
    BY <2>7, <1>16
  <2> QED
    BY <2>5, <2>6, <2>8 DEF p
<1>21. Len(d2) <= Len(a) /\ \A j \in 1..Len(d2) : d2[j] = a[j]
  <2>1. ASSUME NEW j \in 1..Len(d2) PROVE d2[j] = a[j]
    <3>1. CASE j = n
      BY <3>1, <1>14 DEF m
    <3>2. CASE j \in 1..Len(d)
      BY <3>2, <1>7, <1>14
    <3> QED
      BY <3>1, <3>2, <1>2, <1>11, <1>14
  <2> QED
    BY <2>1, <1>11, <1>14
<1>22. Framed(d2, a, r2)
  <2>1. Len(r2) = c[Len(a)] - c[Len(d2)]
    BY <1>14, <1>19
  <2>2. \A j \in (Len(d2) + 1)..Len(a) : \A i \in 1..Len(a[j]) :
          r2[c[j - 1] - c[Len(d2)] + i] = a[j][i]
    BY <1>14, <1>20
  <2> QED
    BY <2>1, <2>2, <1>21 DEF Framed
<1> QED
  <2>1. /\ m \in Sendable /\ n \in 1..Len(a) /\ m = a[n] /\ Len(m) <= Len(r) /\ SubSeq(r, 1, Len(m)) = m
        /\ Framed(Append(d, m), a, SubSeq(r, Len(m) + 1, Len(r)))
    BY <1>11, <1>12, <1>15, <1>18, <1>22 DEF r2, d2, l, m
  <2> HIDE DEF m
  <2> QED
    BY <2>1 DEF n

\* What has been taken is the beginning of what was put.
LEMMA FramedPrefix ==
  ASSUME NEW S, NEW d \in Seq(S), NEW a \in Seq(S),
         Len(d) <= Len(a), \A j \in 1..Len(d) : d[j] = a[j]
  PROVE  IsPrefix(d, a)
<1>1. Len(d) \in Nat
  BY LenProperties
<1>2. /\ SubSeq(d, 1, Len(d)) \in Seq(S) /\ Len(SubSeq(d, 1, Len(d))) = Len(d)
      /\ \A j \in 1..Len(d) : SubSeq(d, 1, Len(d))[j] = d[j]
  BY <1>1, Beginning
<1>3. /\ SubSeq(a, 1, Len(d)) \in Seq(S) /\ Len(SubSeq(a, 1, Len(d))) = Len(d)
      /\ \A j \in 1..Len(d) : SubSeq(a, 1, Len(d))[j] = a[j]
  BY <1>1, Beginning
<1>4. SubSeq(d, 1, Len(d)) = SubSeq(a, 1, Len(d))
  BY <1>2, <1>3, SeqEqual
<1> QED
  BY <1>4 DEF IsPrefix

\* The reader tells the size of a header.
LEMMA HeaderTyped ==
  ASSUME NEW b \in Seq(Byte), HeaderSize <= Len(b)
  PROVE  Reader(SubSeq(b, 1, HeaderSize)) \in Int
<1>1. HeaderSize \in Nat
  BY EchoAssumption
<1>2. SubSeq(b, 1, HeaderSize) \in Seq(Byte) /\ Len(SubSeq(b, 1, HeaderSize)) = HeaderSize
  BY <1>1, Beginning
<1>3. SubSeq(b, 1, HeaderSize) \in [1..HeaderSize -> Byte]
  BY <1>2, LenProperties
<1> QED
  BY <1>3, EchoAssumption

\* A size that has been taken from a header stays what the header tells.
LEMMA SizeStays ==
  ASSUME NEW b \in Seq(Byte), NEW u \in Seq(Byte), NEW s \in Int, SizeKept(b, s),
         s # -1 \/ Len(b \o u) >= HeaderSize,
         NEW z, z = IF s # -1 THEN s ELSE Reader(SubSeq(b \o u, 1, HeaderSize))
  PROVE  HeaderSize <= Len(b \o u) /\ z = Reader(SubSeq(b \o u, 1, HeaderSize)) /\ z \in Int
<1> DEFINE x == b \o u
<1>1. HeaderSize \in Nat /\ Len(b) \in Nat /\ Len(u) \in Nat
  BY EchoAssumption, LenProperties
<1>2. /\ x \in Seq(Byte) /\ Len(x) = Len(b) + Len(u)
      /\ \A j \in 1..(Len(b) + Len(u)) : x[j] = IF j <= Len(b) THEN b[j] ELSE u[j - Len(b)]
  BY ConcatProperties
<1> HIDE DEF x
<1>3. CASE s = -1
  <2>1. HeaderSize <= Len(x) /\ z = Reader(SubSeq(x, 1, HeaderSize))
    BY <1>3, <1>1, <1>2 DEF x
  <2> QED
    BY <2>1, <1>2, HeaderTyped DEF x
<1>4. CASE s # -1
  <2>1. HeaderSize <= Len(b) /\ z = Reader(SubSeq(b, 1, HeaderSize))
    BY <1>4 DEF SizeKept
  <2>2. HeaderSize <= Len(x)
    BY <2>1, <1>1, <1>2
  <2>3. /\ SubSeq(b, 1, HeaderSize) \in Seq(Byte) /\ Len(SubSeq(b, 1, HeaderSize)) = HeaderSize
        /\ \A j \in 1..HeaderSize : SubSeq(b, 1, HeaderSize)[j] = b[j]
    BY <2>1, <1>1, Beginning
  <2>4. /\ SubSeq(x, 1, HeaderSize) \in Seq(Byte) /\ Len(SubSeq(x, 1, HeaderSize)) = HeaderSize
        /\ \A j \in 1..HeaderSize : SubSeq(x, 1, HeaderSize)[j] = x[j]
    BY <2>2, <1>1, <1>2, Beginning
  <2>5. \A j \in 1..HeaderSize : x[j] = b[j]
    BY <2>1, <1>1, <1>2
  <2>6. SubSeq(b, 1, HeaderSize) = SubSeq(x, 1, HeaderSize)
    BY <2>3, <2>4, <2>5, SeqEqual
  <2> QED
    BY <2>1, <2>2, <2>6, <1>2, HeaderTyped DEF x
<1> QED
  BY <1>3, <1>4

\* A place j of what is left of b and t bytes when the first s are gone.
LEMMA Ahead ==
  ASSUME NEW b \in Nat, NEW t \in Nat, NEW s \in Nat, NEW j \in Nat, 1 <= j, j <= b + t - s
  PROVE  s + j \in 1..(b + t)
OBVIOUS

\* The bytes that a valid header announces are whole.
LEMMA Announced ==
  ASSUME NEW b \in Seq(Byte), HeaderSize <= Len(b),
         NEW s \in Int, s = Reader(SubSeq(b, 1, HeaderSize)),
         s >= HeaderSize, s >= 1, Len(b) >= s
  PROVE  SubSeq(b, 1, s) \in Whole
<1>1. HeaderSize \in Nat /\ Len(b) \in Nat /\ s \in Nat
  BY EchoAssumption, LenProperties
<1> DEFINE m == SubSeq(b, 1, s) h == SubSeq(b, 1, HeaderSize) g == SubSeq(m, 1, HeaderSize)
<1>2. m \in Seq(Byte) /\ Len(m) = s /\ \A j \in 1..s : m[j] = b[j]
  BY <1>1, Beginning
<1>3. h \in Seq(Byte) /\ Len(h) = HeaderSize /\ \A j \in 1..HeaderSize : h[j] = b[j]
  BY <1>1, Beginning
<1> HIDE DEF m
<1>4. g \in Seq(Byte) /\ Len(g) = HeaderSize /\ \A j \in 1..HeaderSize : g[j] = m[j]
  BY <1>1, <1>2, Beginning
<1>5. s = Reader(h)
  OBVIOUS
<1> HIDE DEF h, g
<1>6. g = h
  <2>1. \A j \in 1..Len(g) : g[j] = h[j]
    BY <1>1, <1>2, <1>3, <1>4
  <2> QED
    BY <2>1, <1>3, <1>4, SeqEqual
<1>7. WellFormed(m)
  BY <1>2, <1>5, <1>6 DEF WellFormed, g
<1> QED
  BY <1>2, <1>7 DEF Whole, m

\* A valid size is that of the next message, which the application sent.
LEMMA HeaderTells ==
  ASSUME NEW d \in Seq(Sendable), NEW a \in Seq(Sendable), NEW b \in Seq(Byte), NEW t \in Seq(Byte),
         Framed(d, a, b \o t), HeaderSize <= Len(b),
         NEW s \in Int, s = Reader(SubSeq(b, 1, HeaderSize)),
         s >= HeaderSize, s >= 1, Len(b) >= s
  PROVE  /\ SubSeq(b, 1, s) \in Whole
         /\ Len(d) + 1 \in 1..Len(a) /\ SubSeq(b, 1, s) = a[Len(d) + 1]
         /\ Framed(Append(d, SubSeq(b, 1, s)), a, SubSeq(b, s + 1, Len(b)) \o t)
<1> DEFINE r == b \o t
<1>1. HeaderSize \in Nat /\ Len(b) \in Nat /\ Len(t) \in Nat
  BY EchoAssumption, LenProperties
<1>2. /\ r \in Seq(Byte) /\ Len(r) = Len(b) + Len(t)
      /\ \A j \in 1..(Len(b) + Len(t)) : r[j] = IF j <= Len(b) THEN b[j] ELSE t[j - Len(b)]
  BY ConcatProperties
<1>3. Framed(d, a, r)
  OBVIOUS
<1> HIDE DEF r
<1>4. r # <<>>
  BY <1>1, <1>2, EmptySeq
<1>5. PICK m \in Sendable :
        /\ Len(d) + 1 \in 1..Len(a) /\ m = a[Len(d) + 1]
        /\ Len(m) <= Len(r) /\ SubSeq(r, 1, Len(m)) = m
        /\ Framed(Append(d, m), a, SubSeq(r, Len(m) + 1, Len(r)))
  BY <1>2, <1>3, <1>4, FramedTake
<1>6. m \in Seq(Byte) /\ Len(m) \in Nat /\ Len(m) >= 1 /\ Len(m) >= HeaderSize
  BY Sizes
<1>7. \A j \in 1..Len(m) : r[j] = m[j]
  <2>1. \A j \in 1..Len(m) : SubSeq(r, 1, Len(m))[j] = r[j]
    BY <1>2, <1>5, <1>6, Beginning
  <2> QED
    BY <2>1, <1>5
<1> DEFINE h == SubSeq(b, 1, HeaderSize) g == SubSeq(m, 1, HeaderSize)
<1>8. h \in Seq(Byte) /\ Len(h) = HeaderSize /\ \A j \in 1..HeaderSize : h[j] = b[j]
  BY <1>1, Beginning
<1>9. g \in Seq(Byte) /\ Len(g) = HeaderSize /\ \A j \in 1..HeaderSize : g[j] = m[j]
  BY <1>1, <1>6, Beginning
<1>10. h = g
  <2> HIDE DEF h, g
  <2>1. \A j \in 1..HeaderSize : b[j] = r[j] /\ r[j] = m[j]
    <3> TAKE j \in 1..HeaderSize
    <3>1. j \in 1..(Len(b) + Len(t)) /\ j <= Len(b) /\ j \in 1..Len(m)
      BY <1>1, <1>6
    <3> QED
      BY <3>1, <1>2, <1>7
  <2>2. \A j \in 1..Len(h) : h[j] = g[j]
    BY <2>1, <1>8, <1>9
  <2> QED
    BY <2>2, <1>8, <1>9, SeqEqual
<1>11. s = Reader(g)
  BY <1>10
<1>12. m \in Whole
  <2>1. CASE m \in Garbage
    <3>1. Len(m) = HeaderSize /\ Reader(m) < HeaderSize
      BY <2>1, EchoAssumption
    <3>2. g = m
      <4> HIDE DEF g
      <4>1. \A j \in 1..Len(g) : g[j] = m[j]
        BY <1>9
      <4> QED
        BY <3>1, <4>1, <1>6, <1>9, SeqEqual
    <3>3. s = Reader(m)
      BY <1>11, <3>2
    <3> HIDE DEF g
    <3> QED
      BY <3>1, <3>3, <1>1
  <2> QED
    BY <2>1 DEF Sendable
<1>13. s = Len(m)
  <2>1. WellFormed(m)
    BY <1>12 DEF Whole
  <2> QED
    BY <2>1, <1>11 DEF WellFormed
<1> HIDE DEF h, g
<1>14. SubSeq(b, 1, s) = m
  <2>1. /\ SubSeq(b, 1, s) \in Seq(Byte) /\ Len(SubSeq(b, 1, s)) = s
        /\ \A j \in 1..s : SubSeq(b, 1, s)[j] = b[j]
    BY <1>6, <1>13, Beginning
  <2>2. \A j \in 1..s : b[j] = m[j]
    BY <1>1, <1>2, <1>6, <1>7, <1>13
  <2> QED
    BY <2>1, <2>2, <1>6, <1>13, SeqEqual
<1>15. SubSeq(r, s + 1, Len(r)) = SubSeq(b, s + 1, Len(b)) \o t
  <2> DEFINE v == SubSeq(r, s + 1, Len(r)) w == SubSeq(b, s + 1, Len(b))
  <2>1. s \in Nat /\ s <= Len(r)
    BY <1>1, <1>2, <1>6, <1>13
  <2>2. /\ v \in Seq(Byte) /\ Len(v) = Len(r) - s /\ \A j \in 1..(Len(r) - s) : v[j] = r[s + j]
    BY <2>1, <1>2, Remainder
  <2>3. /\ w \in Seq(Byte) /\ Len(w) = Len(b) - s /\ \A j \in 1..(Len(b) - s) : w[j] = b[s + j]
    BY <2>1, Remainder
  <2> HIDE DEF v, w
  <2>4. /\ w \o t \in Seq(Byte) /\ Len(w \o t) = Len(w) + Len(t)
        /\ \A j \in 1..(Len(w) + Len(t)) : (w \o t)[j] = IF j <= Len(w) THEN w[j] ELSE t[j - Len(w)]
    BY <2>3, ConcatProperties
  <2>5. Len(v) = Len(w \o t)
    <3>1. /\ Len(v) = Len(r) - s /\ Len(r) = Len(b) + Len(t)
          /\ Len(w) = Len(b) - s /\ Len(w \o t) = Len(w) + Len(t)
      BY <2>2, <2>3, <2>4, <1>2
    <3> QED
      BY <3>1, <2>1, <1>1
  <2>6. ASSUME NEW j \in 1..Len(v) PROVE v[j] = (w \o t)[j]
    <3>1. v[j] = r[s + j] /\ s + j \in 1..(Len(b) + Len(t)) /\ j \in 1..(Len(w) + Len(t))
      <4>1. j \in 1..(Len(r) - s)
        BY <2>2
      <4>2. Len(r) = Len(b) + Len(t) /\ Len(w) = Len(b) - s
        BY <2>3, <1>2
      <4>3. s + j \in 1..(Len(b) + Len(t)) /\ j \in 1..(Len(w) + Len(t))
        <5>1. j \in Nat /\ 1 <= j /\ j <= Len(b) + Len(t) - s
          BY <4>1, <4>2, <2>1, <1>1
        <5>2. Len(w) + Len(t) = Len(b) + Len(t) - s
          BY <4>2, <2>1, <1>1
        <5>3. s + j \in 1..(Len(b) + Len(t))
          BY <5>1, <2>1, <1>1, Ahead
        <5>4. j \in 1..(Len(b) + Len(t) - s)
          BY <5>1, <2>1, <1>1
        <5> QED
          BY <5>2, <5>3, <5>4
      <4> QED
        BY <4>1, <4>3, <2>2
    <3>2. CASE j <= Len(w)
      <4>1. j \in 1..(Len(b) - s) /\ s + j <= Len(b)
        BY <3>2, <2>1, <2>3, <1>1
      <4> QED
        BY <3>1, <3>2, <4>1, <2>3, <2>4, <1>2
    <3>3. CASE ~(j <= Len(w))
      <4>1. ~(s + j <= Len(b)) /\ (s + j) - Len(b) = j - Len(w)
        BY <3>3, <2>1, <2>3, <1>1
      <4>2. v[j] = t[(s + j) - Len(b)]
        BY <3>1, <4>1, <1>2
      <4>3. (w \o t)[j] = t[j - Len(w)]
        BY <3>1, <3>3, <2>4
      <4> QED
        BY <4>1, <4>2, <4>3
    <3> QED
      BY <3>2, <3>3
  <2>7. v = w \o t
    BY <2>2, <2>4, <2>5, <2>6, SeqEqual
  <2> QED
    BY <2>7 DEF v, w
<1> QED
  BY <1>5, <1>12, <1>13, <1>14, <1>15
-----------------------------------------------------------------------------
(* The server's handlers. *)

LEMMA InitInv == Init => IInv
<1> SUFFICES ASSUME Init PROVE IInv
  OBVIOUS
<1> USE EchoAssumption
<1>1. /\ callbacks \subseteq {"readed", "reader"}
      /\ phase = "none" /\ session = "null" /\ inbuf = <<>> /\ insize = -1 /\ lossy = FALSE
      /\ handled = <<>> /\ answers = <<>> /\ up = <<>> /\ down = <<>> /\ fault = FALSE
  BY DEF Init, Server!Init
<1>2. /\ reader \in BOOLEAN /\ linked = FALSE /\ pc = "idle"
      /\ buffer = <<>> /\ size = -1 /\ data \in [1..ReadSize -> Junk]
      /\ received = <<>> /\ spoilt = {}
  BY DEF Init, Client!Init
<1>3. sent = <<>> /\ connects = 0 /\ total = 0
  BY DEF Init
<1>4. TypeOK
  <2>1. data \in [1..ReadSize -> Byte]
    BY <1>2
  <2>2. connects \in 0..MaxConnects /\ total \in 0..MaxSent
    BY <1>3
  <2>3. insize \in Int /\ size \in Int
    BY <1>1, <1>2
  <2>4. /\ inbuf \in Seq(Byte) /\ handled \in Seq(Seq(Byte)) /\ answers \in Seq(Seq(Byte))
        /\ buffer \in Seq(Byte) /\ received \in Seq(Seq(Byte)) /\ up \in Seq(Byte) /\ down \in Seq(Byte)
        /\ sent \in Seq(Seq(Byte))
    BY <1>1, <1>2, <1>3, EmptySeq
  <2>5. spoilt \subseteq {"leftover", "header", "lost", "gap", "memory", "fed"}
    BY <1>2
  <2> QED
    BY <1>1, <1>2, <2>1, <2>2, <2>3, <2>4, <2>5 DEF TypeOK
<1>5. Sessions
  <2>1. handled \in Seq(Whole) /\ answers \in Seq(Sendable) /\ Len(handled) = 0 /\ Len(sent) = 0
    BY <1>1, <1>3, EmptySeq
  <2> QED
    BY <1>1, <2>1 DEF Sessions
<1>6. Replies
  <2>1. received \in Seq(Whole)
    BY <1>2, EmptySeq
  <2>2. buffer \o down = <<>>
    BY <1>1, <1>2, EmptySeq, ConcatEmptySeq
  <2>3. Framed(received, answers, buffer \o down)
    BY <2>2, <1>1, <1>2, FramedEmpty
  <2> QED
    BY <2>1, <2>3, <1>2 DEF Replies, SizeKept
<1>7. Blocked
  BY <1>2 DEF Blocked
<1>8. sent \in Seq(Messages \cup Garbage)
  BY <1>3, EmptySeq
<1> QED
  BY <1>4, <1>5, <1>6, <1>7, <1>8 DEF IInv

\* A handler of a session whose buffer holds b once the chunk is written.
Handler(b) ==
  \/ Server!AwaitHeader(b) \/ Server!BadHeader(b) \/ Server!AwaitBody(b)
  \/ Server!Message(b) \/ Server!NoMemory(b)

\* A chunk is written, all of it or a beginning, and handled.
LEMMA ForwardReadedWrites ==
  ASSUME NEW chunk \in Seq(Byte), Server!ForwardReaded(chunk), Server!Parsing
  PROVE  \E kept \in Seq(Byte) : Handler(inbuf \o kept) /\ lossy' = (lossy \/ kept # chunk)
<1>1. PICK kept \in Server!Written(chunk) :
        Handler(inbuf \o kept) /\ lossy' = (lossy \/ kept # chunk)
  BY DEF Server!ForwardReaded, Server!Parsing, Handler
<1>2. PICK i \in 0..Len(chunk) : kept = SubSeq(chunk, 1, i)
  BY DEF Server!Written
<1>3. i \in Nat /\ i <= Len(chunk)
  BY LenProperties
<1>4. kept \in Seq(Byte)
  BY <1>2, <1>3, Beginning
<1> QED
  BY <1>1, <1>4

\* What a handler may do to a session.
LEMMA HandlerTyped ==
  ASSUME TypeOK, NEW b \in Seq(Byte), Handler(b)
  PROVE  /\ phase' \in {"waiting", "closed"}
         /\ inbuf' \in Seq(Byte) /\ insize' \in Int
         /\ handled' \in Seq(Seq(Byte)) /\ answers' \in Seq(Seq(Byte)) /\ down' \in Seq(Byte)
<1>1. /\ inbuf \in Seq(Byte) /\ insize \in Int /\ down \in Seq(Byte)
      /\ handled \in Seq(Seq(Byte)) /\ answers \in Seq(Seq(Byte))
  BY DEF TypeOK
<1>2. Len(b) \in Nat
  BY LenProperties
<1>3. Server!HeaderThere(b) => Server!MessageSize(b) \in Int
  BY <1>1, <1>2, HeaderTyped DEF Server!HeaderThere, Server!MessageSize
<1>6. CASE Server!AwaitHeader(b)
  BY <1>1, <1>2, <1>6 DEF Server!AwaitHeader, Server!Continue, Server!Quiet
<1>7. CASE Server!BadHeader(b)
  BY <1>1, <1>2, <1>3, <1>7 DEF Server!BadHeader, Server!Disconnect, Server!Quiet
<1>8. CASE Server!AwaitBody(b)
  BY <1>1, <1>2, <1>3, <1>8 DEF Server!AwaitBody, Server!Continue, Server!Quiet
<1>9. CASE Server!Message(b)
  <2> DEFINE z == Server!MessageSize(b) m == SubSeq(b, 1, z)
  <2>1. z \in Int /\ z >= 1 /\ Len(b) >= z
    BY <1>3, <1>9, EchoAssumption DEF Server!Message, Server!BadSize
  <2>2. inbuf' = SubSeq(b, z + 1, Len(b)) /\ Server!Readed(m) /\ Server!ResetSize(b)
    BY <1>9 DEF Server!Message
  <2> HIDE DEF z
  <2>3. inbuf' \in Seq(Byte) /\ m \in Seq(Byte)
    BY <2>1, <2>2, <1>2, Beginning, Remainder
  <2> HIDE DEF m
  <2>4. insize' \in Int
    BY <2>1, <2>2 DEF Server!ResetSize, z
  <2>5. handled' \in Seq(Seq(Byte))
    BY <2>2, <2>3, <1>1, AppendProperties DEF Server!Readed
  <2>6. CASE \E r \in {m} \cup Garbage : answers' = Append(answers, r) /\ down' = down \o r /\ Server!Continue
    <3>1. PICK r \in {m} \cup Garbage : answers' = Append(answers, r) /\ down' = down \o r /\ Server!Continue
      BY <2>6
    <3>2. r \in Seq(Byte)
      BY <2>3, EchoAssumption
    <3>3. answers' \in Seq(Seq(Byte)) /\ down' \in Seq(Byte)
      BY <3>1, <3>2, <1>1, AppendProperties, ConcatProperties
    <3> QED
      BY <3>1, <3>3, <2>3, <2>4, <2>5 DEF Server!Continue
  <2>7. CASE Server!Disconnect /\ UNCHANGED <<answers, down>>
    BY <2>3, <2>4, <2>5, <2>7, <1>1 DEF Server!Disconnect
  <2> QED
    BY <2>2, <2>6, <2>7 DEF Server!Readed
<1>10. CASE Server!NoMemory(b)
  BY <1>1, <1>2, <1>3, <1>10 DEF Server!NoMemory, Server!Disconnect, Server!Quiet
<1> QED
  BY <1>6, <1>7, <1>8, <1>9, <1>10 DEF Handler

\* What a chunk of bytes may do to a session.
LEMMA ForwardReadedTyped ==
  ASSUME TypeOK, NEW chunk \in Seq(Byte), Server!ForwardReaded(chunk)
  PROVE  /\ phase' \in {"waiting", "closed"}
         /\ inbuf' \in Seq(Byte) /\ insize' \in Int /\ lossy' \in BOOLEAN
         /\ handled' \in Seq(Seq(Byte)) /\ answers' \in Seq(Seq(Byte)) /\ down' \in Seq(Byte)
<1>1. /\ inbuf \in Seq(Byte) /\ insize \in Int /\ down \in Seq(Byte) /\ lossy \in BOOLEAN
      /\ handled \in Seq(Seq(Byte)) /\ answers \in Seq(Seq(Byte))
  BY DEF TypeOK
<1>2. down \o chunk \in Seq(Byte)
  BY <1>1, ConcatProperties
<1>3. CASE "readed" \notin callbacks /\ Server!Continue /\ Server!Quiet /\ UNCHANGED <<inbuf, insize, lossy>>
  BY <1>1, <1>3 DEF Server!Continue, Server!Quiet
<1>4. CASE Server!ReadedRaw(chunk) /\ UNCHANGED lossy
  BY <1>1, <1>2, <1>4 DEF Server!ReadedRaw, Server!Continue, Server!Disconnect
<1>5. CASE Server!Parsing
  <2>1. PICK kept \in Seq(Byte) : Handler(inbuf \o kept) /\ lossy' = (lossy \/ kept # chunk)
    BY <1>5, ForwardReadedWrites
  <2> DEFINE b == inbuf \o kept
  <2>2. b \in Seq(Byte) /\ Handler(b)
    BY <2>1, <1>1, ConcatProperties
  <2> HIDE DEF b
  <2>3. /\ phase' \in {"waiting", "closed"}
        /\ inbuf' \in Seq(Byte) /\ insize' \in Int
        /\ handled' \in Seq(Seq(Byte)) /\ answers' \in Seq(Seq(Byte)) /\ down' \in Seq(Byte)
    BY <2>2, HandlerTyped
  <2> QED
    BY <2>1, <2>3
<1> QED
  BY <1>3, <1>4, <1>5 DEF Server!ForwardReaded, Server!Parsing

\* The size a handler works with is what the header in the buffer tells.
LEMMA HandlerSize ==
  ASSUME TypeOK, SizeKept(inbuf, insize), NEW u \in Seq(Byte), NEW b, b = inbuf \o u,
         Server!HeaderThere(b)
  PROVE  /\ HeaderSize <= Len(b) /\ Server!MessageSize(b) = Reader(SubSeq(b, 1, HeaderSize))
         /\ Server!MessageSize(b) \in Int
<1> DEFINE z == Server!MessageSize(b)
<1>1. z = IF insize # -1 THEN insize ELSE Reader(SubSeq(inbuf \o u, 1, HeaderSize))
  BY DEF Server!MessageSize
<1>2. insize # -1 \/ Len(inbuf \o u) >= HeaderSize
  BY DEF Server!HeaderThere
<1>3. inbuf \in Seq(Byte) /\ insize \in Int
  BY DEF TypeOK
<1> HIDE DEF z
<1>4. HeaderSize <= Len(b) /\ z = Reader(SubSeq(b, 1, HeaderSize)) /\ z \in Int
  BY <1>1, <1>2, <1>3, SizeStays
<1> QED
  BY <1>4 DEF z

\* Whatever was lost of the bytes, a handler gives what a header announces, all of it, and
\* holds the beginning of one message.
LEMMA HandlerWhole ==
  ASSUME TypeOK, Server!Parsing, phase = "waiting", Sessions,
         NEW u \in Seq(Byte), NEW b, b = inbuf \o u, Handler(b)
  PROVE  /\ handled' \in Seq(Whole)
         /\ \/ answers' = answers /\ down' = down
            \/ \E r \in Sendable : answers' = Append(answers, r) /\ down' = down \o r
         /\ phase' \in {"waiting", "closed"}
         /\ phase' = "waiting" => SizeKept(inbuf', insize') /\ (insize' # -1 => Len(inbuf') < insize')
<1>1. /\ inbuf \in Seq(Byte) /\ insize \in Int /\ HeaderSize \in Nat
  BY EchoAssumption DEF TypeOK
<1>2. b \in Seq(Byte) /\ Len(b) \in Nat
  BY <1>1, ConcatProperties, LenProperties
<1>3. handled \in Seq(Whole) /\ SizeKept(inbuf, insize)
  BY DEF Sessions
<1>5. Server!HeaderThere(b) =>
        /\ HeaderSize <= Len(b) /\ Server!MessageSize(b) = Reader(SubSeq(b, 1, HeaderSize))
        /\ Server!MessageSize(b) \in Int
  BY <1>3, HandlerSize
<1>6. CASE Server!AwaitHeader(b)
  <2>1. insize' = -1
    BY <1>6 DEF Server!AwaitHeader, Server!HeaderThere
  <2> QED
    BY <2>1, <1>3, <1>6 DEF Server!AwaitHeader, Server!Continue, Server!Quiet, SizeKept
<1>7. CASE Server!BadHeader(b)
  BY <1>3, <1>7 DEF Server!BadHeader, Server!Disconnect, Server!Quiet
<1>8. CASE Server!AwaitBody(b)
  <2> DEFINE z == Server!MessageSize(b)
  <2>1. /\ HeaderSize <= Len(b) /\ z = Reader(SubSeq(b, 1, HeaderSize)) /\ z \in Int
        /\ ~Server!BadSize(z) /\ Len(b) < z /\ inbuf' = b /\ insize' = z
        /\ phase' = "waiting" /\ handled' = handled /\ answers' = answers /\ down' = down
    BY <1>5, <1>8 DEF Server!AwaitBody, Server!Continue, Server!Quiet
  <2> HIDE DEF z
  <2>2. z >= HeaderSize /\ z >= 1
    BY <2>1, <1>1 DEF Server!BadSize
  <2>3. SizeKept(inbuf', insize')
    BY <2>1, <2>2 DEF SizeKept
  <2> QED
    BY <2>1, <2>3, <1>3
<1>9. CASE Server!Message(b)
  <2> DEFINE z == Server!MessageSize(b) m == SubSeq(b, 1, z)
  <2>1. /\ HeaderSize <= Len(b) /\ z = Reader(SubSeq(b, 1, HeaderSize)) /\ z \in Int
        /\ ~Server!BadSize(z) /\ Len(b) >= z
        /\ Server!Readed(m) /\ Server!ResetSize(b)
    BY <1>5, <1>9 DEF Server!Message
  <2> HIDE DEF z
  <2>2. z >= HeaderSize /\ z >= 1
    BY <2>1, <1>1 DEF Server!BadSize
  <2>3. m \in Whole
    BY <2>1, <2>2, <1>2, Announced
  <2> HIDE DEF m
  <2>4. handled' = Append(handled, m)
    BY <2>1 DEF Server!Readed
  <2>5. handled' \in Seq(Whole)
    BY <2>3, <2>4, <1>3, AppendProperties
  <2>6. \/ answers' = answers /\ down' = down
        \/ \E r \in Sendable : answers' = Append(answers, r) /\ down' = down \o r
    BY <2>1, <2>3 DEF Server!Readed, Sendable
  <2>7. phase' \in {"waiting", "closed"}
    BY <2>1 DEF Server!Readed, Server!Continue, Server!Disconnect
  <2>8. phase' = "waiting" => insize' = -1
    BY <2>1 DEF Server!ResetSize
  <2> QED
    BY <2>5, <2>6, <2>7, <2>8 DEF SizeKept
<1>10. CASE Server!NoMemory(b)
  BY <1>3, <1>10 DEF Server!NoMemory, Server!Disconnect, Server!Quiet
<1> QED
  BY <1>6, <1>7, <1>8, <1>9, <1>10 DEF Handler

\* While nothing is lost, the bytes of a session are cut into the messages that were sent; t is
\* what has not been read.
LEMMA HandlerFramed ==
  ASSUME TypeOK, Server!Parsing, phase = "waiting", Sessions, sent \in Seq(Sendable), ~lossy,
         NEW u \in Seq(Byte), NEW b, b = inbuf \o u, Handler(b),
         NEW t \in Seq(Byte), b \o t = inbuf \o up
  PROVE  /\ Len(handled') <= Len(sent) /\ \A j \in 1..Len(handled') : handled'[j] = sent[j]
         /\ phase' = "waiting" => Framed(handled', sent, inbuf' \o t)
<1>1. /\ inbuf \in Seq(Byte) /\ insize \in Int /\ HeaderSize \in Nat
  BY EchoAssumption DEF TypeOK
<1>2. b \in Seq(Byte) /\ Len(b) \in Nat
  BY <1>1, ConcatProperties, LenProperties
<1>3. /\ handled \in Seq(Whole) /\ handled \in Seq(Sendable)
      /\ Len(handled) <= Len(sent) /\ \A j \in 1..Len(handled) : handled[j] = sent[j]
      /\ SizeKept(inbuf, insize)
  <2>1. handled \in Seq(Whole)
    BY DEF Sessions
  <2>2. handled \in Seq(Sendable)
    BY <2>1, SeqMonotonic DEF Sendable
  <2> QED
    BY <2>1, <2>2 DEF Sessions
<1>4. Framed(handled, sent, b \o t)
  BY DEF Sessions
<1>5. Server!HeaderThere(b) =>
        /\ HeaderSize <= Len(b) /\ Server!MessageSize(b) = Reader(SubSeq(b, 1, HeaderSize))
        /\ Server!MessageSize(b) \in Int
  BY <1>3, HandlerSize
<1>6. CASE Server!AwaitHeader(b) \/ Server!AwaitBody(b)
  BY <1>3, <1>4, <1>6 DEF Server!AwaitHeader, Server!AwaitBody, Server!Quiet
<1>7. CASE Server!BadHeader(b) \/ Server!NoMemory(b)
  BY <1>3, <1>7 DEF Server!BadHeader, Server!NoMemory, Server!Disconnect, Server!Quiet
<1>8. CASE Server!Message(b)
  <2> DEFINE z == Server!MessageSize(b) m == SubSeq(b, 1, z)
  <2>1. /\ HeaderSize <= Len(b) /\ z = Reader(SubSeq(b, 1, HeaderSize)) /\ z \in Int
        /\ ~Server!BadSize(z) /\ Len(b) >= z
        /\ inbuf' = SubSeq(b, z + 1, Len(b)) /\ Server!Readed(m)
    BY <1>5, <1>8 DEF Server!Message
  <2> HIDE DEF z
  <2>2. z >= HeaderSize /\ z >= 1
    BY <2>1, <1>1 DEF Server!BadSize
  <2>3. /\ m \in Whole /\ Len(handled) + 1 \in 1..Len(sent) /\ m = sent[Len(handled) + 1]
        /\ Framed(Append(handled, m), sent, inbuf' \o t)
    <3>1. HeaderSize <= Len(b) /\ z = Reader(SubSeq(b, 1, HeaderSize)) /\ z \in Int /\ Len(b) >= z
      BY <2>1
    <3>2. handled \in Seq(Sendable) /\ b \in Seq(Byte)
      BY <1>2, <1>3
    <3>3. /\ m \in Whole /\ Len(handled) + 1 \in 1..Len(sent) /\ m = sent[Len(handled) + 1]
          /\ Framed(Append(handled, m), sent, SubSeq(b, z + 1, Len(b)) \o t)
      <4>1. \A s \in Int :
              s = Reader(SubSeq(b, 1, HeaderSize)) /\ s >= HeaderSize /\ s >= 1 /\ Len(b) >= s
              => /\ SubSeq(b, 1, s) \in Whole
                 /\ Len(handled) + 1 \in 1..Len(sent) /\ SubSeq(b, 1, s) = sent[Len(handled) + 1]
                 /\ Framed(Append(handled, SubSeq(b, 1, s)), sent, SubSeq(b, s + 1, Len(b)) \o t)
        BY <3>1, <3>2, <1>4, HeaderTells, Zenon
      <4> QED
        BY <4>1, <3>1, <2>2, Zenon
    <3>4. inbuf' = SubSeq(b, z + 1, Len(b))
      BY <2>1
    <3> QED
      BY <3>3, <3>4
  <2> HIDE DEF m
  <2>4. handled' = Append(handled, m)
    BY <2>1 DEF Server!Readed
  <2>5. /\ Len(handled') = Len(handled) + 1
        /\ handled'[Len(handled) + 1] = m /\ \A j \in 1..Len(handled) : handled'[j] = handled[j]
    BY <2>3, <2>4, <1>3, AppendProperties
  <2>6. Len(handled) \in Nat /\ Len(sent) \in Nat
    BY <1>3, LenProperties
  <2>7. Len(handled') <= Len(sent)
    BY <2>3, <2>5, <2>6
  <2>8. \A j \in 1..Len(handled') : handled'[j] = sent[j]
    <3> TAKE j \in 1..Len(handled')
    <3>1. j \in 1..Len(handled) \/ j = Len(handled) + 1
      BY <2>5, <2>6
    <3> QED
      BY <3>1, <2>3, <2>5, <1>3
  <2> QED
    BY <2>3, <2>4, <2>7, <2>8
<1> QED
  BY <1>6, <1>7, <1>8 DEF Handler

\* Both, of a chunk that is read and parsed.
LEMMA ForwardReadedFramed ==
  ASSUME TypeOK, Server!Parsing, phase = "waiting", Sessions, sent \in Seq(Sendable),
         NEW chunk \in Seq(Byte), NEW t \in Seq(Byte), (inbuf \o chunk) \o t = inbuf \o up,
         Server!ForwardReaded(chunk)
  PROVE  /\ handled' \in Seq(Whole)
         /\ \/ answers' = answers /\ down' = down
            \/ \E r \in Sendable : answers' = Append(answers, r) /\ down' = down \o r
         /\ phase' \in {"waiting", "closed"}
         /\ phase' = "waiting" => SizeKept(inbuf', insize') /\ (insize' # -1 => Len(inbuf') < insize')
         /\ ~lossy' => /\ Len(handled') <= Len(sent)
                       /\ \A j \in 1..Len(handled') : handled'[j] = sent[j]
                       /\ phase' = "waiting" => Framed(handled', sent, inbuf' \o t)
<1>1. PICK kept \in Seq(Byte) : Handler(inbuf \o kept) /\ lossy' = (lossy \/ kept # chunk)
  BY ForwardReadedWrites
<1> DEFINE b == inbuf \o kept
<1>2. b = inbuf \o kept /\ Handler(b)
  BY <1>1
<1>3. ~lossy' => ~lossy /\ b \o t = inbuf \o up
  BY <1>1
<1> HIDE DEF b
<1>4. /\ handled' \in Seq(Whole)
      /\ \/ answers' = answers /\ down' = down
         \/ \E r \in Sendable : answers' = Append(answers, r) /\ down' = down \o r
      /\ phase' \in {"waiting", "closed"}
      /\ phase' = "waiting" => SizeKept(inbuf', insize') /\ (insize' # -1 => Len(inbuf') < insize')
  BY <1>2, HandlerWhole
<1>5. ~lossy' => /\ Len(handled') <= Len(sent)
                 /\ \A j \in 1..Len(handled') : handled'[j] = sent[j]
                 /\ phase' = "waiting" => Framed(handled', sent, inbuf' \o t)
  BY <1>2, <1>3, HandlerFramed
<1> QED
  BY <1>4, <1>5
-----------------------------------------------------------------------------
(* The parser of the client. *)

LEMMA ReaderMessageTyped ==
  ASSUME TypeOK, NEW b \in Seq(Byte), NEW again \in {"idle", "reading"}, NEW step \in SUBSET {"fed", "gap"},
         Client!ReaderMessage(b, again, step)
  PROVE  /\ buffer' \in Seq(Byte) /\ size' \in Int /\ pc' \in {"idle", "reading"}
         /\ received' \in Seq(Seq(Byte))
         /\ spoilt' \subseteq {"leftover", "header", "lost", "gap", "memory", "fed"}
<1>1. /\ size \in Int /\ received \in Seq(Seq(Byte)) /\ Len(b) \in Nat
      /\ spoilt \subseteq {"leftover", "header", "lost", "gap", "memory", "fed"}
  BY LenProperties DEF TypeOK
<1>2. Client!HeaderThere(b) => Client!MessageSize(b) \in Int
  BY <1>1, HeaderTyped DEF Client!HeaderThere, Client!MessageSize
<1>3. CASE Client!NoMessage(b, again, step)
  BY <1>1, <1>2, <1>3 DEF Client!NoMessage
<1>4. CASE Client!BadHeader(b, step)
  BY <1>1, <1>2, <1>4 DEF Client!BadHeader
<1>5. CASE Client!Message(b, again, step)
  <2> DEFINE z == Client!MessageSize(b) m == SubSeq(b, 1, z)
  <2>1. /\ z \in Int /\ z >= 0 /\ Len(b) >= z /\ buffer' = SubSeq(b, z + 1, Len(b)) /\ size' = -1
        /\ \/ received' = received /\ pc' = again
           \/ received' = Append(received, m) /\ pc' = "idle"
        /\ spoilt' = spoilt \cup step
    BY <1>2, <1>5 DEF Client!Message, Client!Complete, Client!NoSize
  <2> HIDE DEF z
  <2>2. m \in Seq(Byte) /\ buffer' \in Seq(Byte)
    BY <2>1, Beginning, Remainder
  <2> HIDE DEF m
  <2>3. received' \in Seq(Seq(Byte))
    <3>1. Append(received, m) \in Seq(Seq(Byte))
      BY <2>2, <1>1, AppendProperties
    <3> QED
      BY <3>1, <2>1, <1>1
  <2> QED
    BY <2>1, <2>2, <2>3, <1>1
<1>6. CASE Client!Swallowed(b, again, step)
  BY <1>1, <1>2, <1>6 DEF Client!Swallowed, Client!Complete
<1> QED
  BY <1>3, <1>4, <1>5, <1>6 DEF Client!ReaderMessage

\* The parser of the client cuts what the server's application wrote; the bytes of the chunk
\* that is parsed with what was buffered come first, t is what has not been read.
LEMMA ReaderMessageFramed ==
  ASSUME TypeOK, SizeKept(buffer, size), received \in Seq(Whole), answers \in Seq(Sendable),
         NEW chunk \in Seq(Byte), NEW t \in Seq(Byte), NEW b, b = buffer \o chunk,
         Framed(received, answers, b \o t),
         NEW again \in {"idle", "reading"},
         Client!ReaderMessage(b, again, {}), spoilt' \subseteq {"memory"}
  PROVE  /\ received' \in Seq(Whole)
         /\ Framed(received', answers, buffer' \o t)
         /\ SizeKept(buffer', size')
<1>1. /\ buffer \in Seq(Byte) /\ size \in Int /\ HeaderSize \in Nat
  BY EchoAssumption DEF TypeOK
<1>2. b \in Seq(Byte) /\ Len(b) \in Nat
  BY <1>1, ConcatProperties, LenProperties
<1>3. received \in Seq(Sendable)
  BY SeqMonotonic DEF Sendable
<1>4. Framed(received, answers, b \o t)
  OBVIOUS
<1>5. ASSUME Client!HeaderThere(b)
      PROVE  /\ HeaderSize <= Len(b) /\ Client!MessageSize(b) = Reader(SubSeq(b, 1, HeaderSize))
             /\ Client!MessageSize(b) \in Int
  <2> DEFINE z == Client!MessageSize(b)
  <2>1. z = IF size # -1 THEN size ELSE Reader(SubSeq(buffer \o chunk, 1, HeaderSize))
    BY DEF Client!MessageSize
  <2>2. size # -1 \/ Len(buffer \o chunk) >= HeaderSize
    BY <1>5 DEF Client!HeaderThere
  <2> HIDE DEF z
  <2>3. HeaderSize <= Len(b) /\ z = Reader(SubSeq(b, 1, HeaderSize)) /\ z \in Int
    BY <1>1, <2>1, <2>2, SizeStays
  <2> QED
    BY <2>3 DEF z
<1>6. ASSUME Client!HeaderThere(b), size # -1 \/ ~Client!BadSize(Client!MessageSize(b))
      PROVE  Client!MessageSize(b) >= HeaderSize /\ Client!MessageSize(b) >= 1
  <2>1. CASE size # -1
    BY <2>1 DEF Client!MessageSize, SizeKept
  <2>2. CASE ~Client!BadSize(Client!MessageSize(b))
    BY <2>2, <1>1, <1>5, <1>6 DEF Client!BadSize
  <2> QED
    BY <1>6, <2>1, <2>2
<1>7. CASE Client!NoMessage(b, again, {})
  <2>1. buffer' = b /\ received' = received
    BY <1>7 DEF Client!NoMessage
  <2>2. SizeKept(buffer', size')
    <3>1. CASE ~Client!HeaderThere(b) /\ size' = size
      BY <3>1 DEF Client!HeaderThere, SizeKept
    <3>2. CASE /\ Client!HeaderThere(b) /\ size' = Client!MessageSize(b)
               /\ size # -1 \/ ~Client!BadSize(Client!MessageSize(b))
      <4> DEFINE z == Client!MessageSize(b)
      <4>1. HeaderSize <= Len(b) /\ z = Reader(SubSeq(b, 1, HeaderSize)) /\ z >= HeaderSize /\ z >= 1
        BY <3>2, <1>5, <1>6
      <4>2. size' = z
        BY <3>2
      <4> HIDE DEF z
      <4> QED
        BY <4>1, <4>2, <2>1 DEF SizeKept
    <3> QED
      BY <1>7, <3>1, <3>2 DEF Client!NoMessage
  <2> QED
    BY <2>1, <2>2, <1>4
<1>8. CASE Client!BadHeader(b, {})
  BY <1>8 DEF Client!BadHeader
<1>9. CASE Client!Message(b, again, {})
  <2> DEFINE z == Client!MessageSize(b) m == SubSeq(b, 1, z)
  <2>1. /\ HeaderSize <= Len(b) /\ z = Reader(SubSeq(b, 1, HeaderSize)) /\ z \in Int
        /\ z >= HeaderSize /\ z >= 1 /\ Len(b) >= z
    BY <1>5, <1>6, <1>9 DEF Client!Message, Client!Complete
  <2>2. /\ buffer' = SubSeq(b, z + 1, Len(b)) /\ size' = -1
        /\ IF z = 0 THEN received' = received ELSE received' = Append(received, m)
    BY <1>9 DEF Client!Message, Client!NoSize
  <2> HIDE DEF z
  <2>3. received' = Append(received, m)
    <3>1. z # 0
      BY <2>1
    <3> QED
      BY <2>2, <3>1
  <2>4. /\ m \in Whole /\ Framed(Append(received, m), answers, buffer' \o t)
    BY <2>1, <2>2, <1>2, <1>3, <1>4, HeaderTells
  <2> HIDE DEF m
  <2>5. received' \in Seq(Whole)
    BY <2>3, <2>4, AppendProperties
  <2> QED
    BY <2>2, <2>3, <2>4, <2>5 DEF SizeKept
<1>10. CASE Client!Swallowed(b, again, {})
  <2>1. buffer' = b /\ received' = received
    BY <1>10 DEF Client!Swallowed
  <2>2. SizeKept(buffer', size')
    <3>1. CASE size = -1 /\ size' = size
      BY <3>1 DEF SizeKept
    <3>2. CASE /\ Client!HeaderThere(b) /\ size' = Client!MessageSize(b)
               /\ size # -1 \/ ~Client!BadSize(Client!MessageSize(b))
      <4> DEFINE z == Client!MessageSize(b)
      <4>1. HeaderSize <= Len(b) /\ z = Reader(SubSeq(b, 1, HeaderSize)) /\ z >= HeaderSize /\ z >= 1
        BY <3>2, <1>5, <1>6
      <4>2. size' = z
        BY <3>2
      <4> HIDE DEF z
      <4> QED
        BY <4>1, <4>2, <2>1 DEF SizeKept
    <3> QED
      BY <1>10, <3>1, <3>2 DEF Client!Swallowed, Client!Complete
  <2> QED
    BY <2>1, <2>2, <1>4
<1> QED
  BY <1>7, <1>8, <1>9, <1>10 DEF Client!ReaderMessage

\* A read() that goes on to wait has found no whole message.
LEMMA ReaderMessageBlocks ==
  ASSUME TypeOK, NEW b \in Seq(Byte), NEW again \in {"idle", "reading"}, NEW step \in SUBSET {"fed", "gap"},
         Client!ReaderMessage(b, again, step), spoilt' \subseteq {"gap"},
         size = -1 \/ (size >= HeaderSize /\ size >= 1)
  PROVE  /\ size' = -1 \/ (size' >= HeaderSize /\ size' >= 1)
         /\ pc' = "reading" => ~Client!Complete(buffer)'
<1>1. size \in Int /\ Len(b) \in Nat /\ HeaderSize \in Nat
  BY EchoAssumption, LenProperties DEF TypeOK
<1>2. Client!HeaderThere(b) => Client!MessageSize(b) \in Int
  BY <1>1, HeaderTyped DEF Client!HeaderThere, Client!MessageSize
<1>3. ASSUME Client!HeaderThere(b), size # -1 \/ ~Client!BadSize(Client!MessageSize(b))
      PROVE  Client!MessageSize(b) >= HeaderSize /\ Client!MessageSize(b) >= 1
  <2>1. CASE size # -1
    BY <2>1 DEF Client!MessageSize
  <2>2. CASE ~Client!BadSize(Client!MessageSize(b))
    BY <2>2, <1>1, <1>2, <1>3 DEF Client!BadSize
  <2> QED
    BY <1>3, <2>1, <2>2
<1>4. CASE Client!NoMessage(b, again, step)
  <2>1. buffer' = b
    BY <1>4 DEF Client!NoMessage
  <2>2. CASE ~Client!HeaderThere(b) /\ size' = size
    <3>1. size' = -1 /\ ~(Len(b) >= HeaderSize)
      BY <2>2 DEF Client!HeaderThere
    <3> QED
      BY <3>1, <2>1 DEF Client!Complete, Client!HeaderThere
  <2>3. CASE /\ Client!HeaderThere(b) /\ size' = Client!MessageSize(b) /\ ~Client!Complete(b)
             /\ size # -1 \/ ~Client!BadSize(Client!MessageSize(b))
    <3> DEFINE z == Client!MessageSize(b)
    <3>1. z \in Int /\ z >= HeaderSize /\ z >= 1 /\ size' = z
      BY <2>3, <1>2, <1>3
    <3>2. ~(Len(b) >= z)
      BY <2>3, <3>1 DEF Client!Complete
    <3> HIDE DEF z
    <3>3. size' # -1
      BY <3>1
    <3> QED
      BY <3>1, <3>2, <3>3, <2>1 DEF Client!Complete, Client!HeaderThere, Client!MessageSize
  <2> QED
    BY <1>4, <2>2, <2>3 DEF Client!NoMessage
<1>5. CASE Client!BadHeader(b, step)
  BY <1>5 DEF Client!BadHeader
<1>6. CASE Client!Message(b, again, step)
  <2>1. Client!MessageSize(b) # 0
    BY <1>2, <1>3, <1>6 DEF Client!Message, Client!Complete
  <2> QED
    BY <2>1, <1>6 DEF Client!Message, Client!NoSize
<1>7. CASE Client!Swallowed(b, again, step)
  BY <1>7 DEF Client!Swallowed
<1> QED
  BY <1>4, <1>5, <1>6, <1>7 DEF Client!ReaderMessage

\* What has put the parser out of step stays known.
LEMMA SpoiltGrows ==
  ASSUME NEW b, NEW again, NEW step, Client!ReaderMessage(b, again, step)
  PROVE  spoilt \subseteq spoilt' /\ step \subseteq spoilt'
BY DEF Client!ReaderMessage, Client!NoMessage, Client!BadHeader, Client!Message, Client!Swallowed

\* A chunk is written, all of it or a beginning, and parsed with what was buffered.
LEMMA ParseWrites ==
  ASSUME buffer \in Seq(Byte), NEW chunk \in Seq(Byte), NEW again, NEW step \in SUBSET {"fed"},
         Client!Parse(chunk, again, step)
  PROVE  \/ Client!WriteFails
         \/ \E b \in Seq(Byte), why \in SUBSET {"fed", "gap"} :
              /\ Client!ReaderMessage(b, again, why) /\ step \subseteq why
              /\ "gap" \notin why => b = buffer \o chunk /\ why = step
<1> SUFFICES ASSUME ~Client!WriteFails
             PROVE  \E b \in Seq(Byte), why \in SUBSET {"fed", "gap"} :
                      /\ Client!ReaderMessage(b, again, why) /\ step \subseteq why
                      /\ "gap" \notin why => b = buffer \o chunk /\ why = step
  OBVIOUS
<1>1. PICK kept \in Client!Written(chunk) :
        Client!ReaderMessage(buffer \o kept, again, step \cup Client!Gap(chunk, kept))
  BY DEF Client!Parse
<1>2. PICK i \in 0..Len(chunk) : kept = SubSeq(chunk, 1, i)
  BY DEF Client!Written
<1>3. i \in Nat /\ i <= Len(chunk)
  BY LenProperties
<1>4. kept \in Seq(Byte)
  BY <1>2, <1>3, Beginning
<1> DEFINE b == buffer \o kept why == step \cup Client!Gap(chunk, kept)
<1>5. b \in Seq(Byte)
  BY <1>4, ConcatProperties
<1>6. why \in SUBSET {"fed", "gap"} /\ step \subseteq why
  BY DEF Client!Gap
<1>7. "gap" \notin why => b = buffer \o chunk /\ why = step
  BY DEF Client!Gap
<1> HIDE DEF b, why
<1>8. Client!ReaderMessage(b, again, why)
  BY <1>1 DEF b, why
<1> QED
  BY <1>5, <1>6, <1>7, <1>8

LEMMA ParseTyped ==
  ASSUME TypeOK, NEW chunk \in Seq(Byte), NEW again \in {"idle", "reading"},
         NEW step \in SUBSET {"fed"}, Client!Parse(chunk, again, step)
  PROVE  /\ buffer' \in Seq(Byte) /\ size' \in Int /\ pc' \in {"idle", "reading"}
         /\ received' \in Seq(Seq(Byte))
         /\ spoilt' \subseteq {"leftover", "header", "lost", "gap", "memory", "fed"}
<1>1. CASE Client!WriteFails
  BY <1>1 DEF Client!WriteFails, TypeOK
<1>2. CASE ~Client!WriteFails
  <2>1. buffer \in Seq(Byte)
    BY DEF TypeOK
  <2>2. PICK b \in Seq(Byte), why \in SUBSET {"fed", "gap"} :
          /\ Client!ReaderMessage(b, again, why) /\ step \subseteq why
          /\ "gap" \notin why => b = buffer \o chunk /\ why = step
    BY <1>2, <2>1, ParseWrites
  <2> QED
    BY <2>2, ReaderMessageTyped
<1> QED
  BY <1>1, <1>2

\* A chunk that leaves the parser in step is written whole.
LEMMA ParseInStep ==
  ASSUME buffer \in Seq(Byte), NEW chunk \in Seq(Byte), NEW again, NEW step \in SUBSET {"fed"},
         Client!Parse(chunk, again, step), spoilt' \subseteq {"memory"}
  PROVE  step = {} /\ Client!ReaderMessage(buffer \o chunk, again, step)
<1>1. ~Client!WriteFails
  BY DEF Client!WriteFails
<1>2. PICK b \in Seq(Byte), why \in SUBSET {"fed", "gap"} :
        /\ Client!ReaderMessage(b, again, why) /\ step \subseteq why
        /\ "gap" \notin why => b = buffer \o chunk /\ why = step
  BY <1>1, ParseWrites
<1>3. why \subseteq {"memory"}
  BY <1>2, SpoiltGrows
<1>4. "gap" \notin why /\ "fed" \notin why
  BY <1>3
<1>5. b = buffer \o chunk /\ why = step
  BY <1>2, <1>4
<1> QED
  BY <1>2, <1>4, <1>5
-----------------------------------------------------------------------------
(* The steps. *)

LEMMA TypeStep == TypeOK /\ Next => TypeOK'
<1> SUFFICES ASSUME TypeOK, Next PROVE TypeOK'
  OBVIOUS
<1> USE EchoAssumption
<1> USE DEF TypeOK
<1> USE DEF serverVars, clientVars, appVars
<1>1. CASE Connect
  <2>1. connects' \in 0..MaxConnects /\ sent' = <<>>
    BY <1>1 DEF Connect
  <2>2. handled' = <<>> /\ answers' = <<>> /\ up' = <<>> /\ down' = <<>> /\ received' = <<>>
    BY <1>1 DEF Connect, Server!Accept, Client!Connect
  <2>3. /\ sent' \in Seq(Seq(Byte)) /\ handled' \in Seq(Seq(Byte)) /\ answers' \in Seq(Seq(Byte))
        /\ received' \in Seq(Seq(Byte)) /\ up' \in Seq(Byte) /\ down' \in Seq(Byte)
    BY <2>1, <2>2, EmptySeq
  <2>4. spoilt' \subseteq {"leftover", "header", "lost", "gap", "memory", "fed"}
    BY <1>1 DEF Connect, Client!Connect
  <2>5. phase' = "connecting" /\ linked' = TRUE
    BY <1>1 DEF Connect, Server!Accept, Client!Connect
  <2>6. UNCHANGED <<callbacks, session, inbuf, insize, fault, reader, pc, buffer, size, data, total>> /\ lossy' = FALSE
    BY <1>1 DEF Connect, Server!Accept, Client!Connect, Client!parserVars
  <2> QED
    BY <2>1, <2>3, <2>4, <2>5, <2>6
<1>2. CASE Close
  BY <1>2 DEF Close, Client!Close, Client!parserVars
<1>3. CASE Send
  <2>1. PICK m \in Messages \cup Garbage : up' = up \o m /\ sent' = Append(sent, m)
    BY <1>3 DEF Send
  <2>2. m \in Seq(Byte)
    OBVIOUS
  <2>3. up \o m \in Seq(Byte) /\ Append(sent, m) \in Seq(Seq(Byte))
    BY <2>2, ConcatProperties, AppendProperties
  <2>4. up' \in Seq(Byte) /\ sent' \in Seq(Seq(Byte))
    BY <2>1, <2>3
  <2>5. total' \in 0..MaxSent
    BY <1>3 DEF Send
  <2>6. UNCHANGED <<serverVars, clientVars, down, connects>>
    BY <1>3 DEF Send
  <2> QED
    BY <2>4, <2>5, <2>6
<1>4. CASE ReadCall
  <2>1. Client!ReaderMessage(buffer, "reading", {})
    BY <1>4 DEF ReadCall, Client!ReadCall, Client!Buffered
  <2>2. /\ buffer' \in Seq(Byte) /\ size' \in Int /\ pc' \in {"idle", "reading"}
        /\ received' \in Seq(Seq(Byte))
        /\ spoilt' \subseteq {"leftover", "header", "lost", "gap", "memory", "fed"}
    BY <2>1, ReaderMessageTyped
  <2>3. UNCHANGED <<serverVars, up, appVars, reader, linked, data, down>>
    BY <1>4 DEF ReadCall, Client!ReadCall
  <2> QED
    BY <2>2, <2>3
<1>5. CASE ReadSome
  <2>1. PICK k \in 1..Client!Smaller(ReadSize, Len(down)) :
          /\ down' = SubSeq(down, k + 1, Len(down))
          /\ data' = Client!Overlay(SubSeq(down, 1, k))
          /\ \/ /\ reader
                /\ Client!Parse(SubSeq(down, 1, k), "reading", {})
             \/ /\ ~reader
                /\ \E bytes \in [1..k -> Junk] : received' = Append(received, bytes)
                /\ pc' = "idle"
                /\ UNCHANGED <<buffer, size, spoilt>>
    BY <1>5 DEF ReadSome, Client!ReadSome
  <2>2. k \in Nat /\ k <= Len(down) /\ k <= ReadSize /\ Len(down) \in Nat
    BY LenProperties DEF Client!Smaller
  <2>3. UNCHANGED <<serverVars, up, appVars, reader, linked>>
    BY <1>5 DEF ReadSome, Client!ReadSome
  <2> DEFINE u == SubSeq(down, 1, k)
  <2>4. u \in Seq(Byte) /\ Len(u) = k /\ down' \in Seq(Byte)
    BY <2>1, <2>2, Beginning, Remainder
  <2>5. u \in [1..k -> Byte]
    BY <2>4, LenProperties
  <2> HIDE DEF u
  <2>6. data' \in [1..ReadSize -> Byte]
    <3>1. data' = [j \in DOMAIN data \cup DOMAIN u |-> IF j \in DOMAIN u THEN u[j] ELSE data[j]]
      BY <2>1 DEF Client!Overlay, u
    <3>2. DOMAIN u = 1..k /\ DOMAIN data = 1..ReadSize /\ DOMAIN data \cup DOMAIN u = 1..ReadSize
      BY <2>2, <2>5
    <3> QED
      BY <3>1, <3>2, <2>5
  <2>7. {} \in SUBSET {"fed"}
    OBVIOUS
  <2>8. CASE Client!Parse(u, "reading", {})
    <3>1. /\ buffer' \in Seq(Byte) /\ size' \in Int /\ pc' \in {"idle", "reading"}
          /\ received' \in Seq(Seq(Byte))
          /\ spoilt' \subseteq {"leftover", "header", "lost", "gap", "memory", "fed"}
      BY <2>4, <2>7, <2>8, ParseTyped
    <3> QED
      BY <3>1, <2>3, <2>4, <2>6
  <2>10. CASE /\ \E bytes \in [1..k -> Junk] : received' = Append(received, bytes)
              /\ pc' = "idle"
              /\ UNCHANGED <<buffer, size, spoilt>>
    <3>1. PICK bytes \in [1..k -> Junk] : received' = Append(received, bytes)
      BY <2>10
    <3>2. bytes \in Seq(Byte)
      BY <2>2, IsASeq
    <3>3. Append(received, bytes) \in Seq(Seq(Byte))
      BY <3>2, AppendProperties
    <3>4. received' \in Seq(Seq(Byte))
      BY <3>1, <3>3
    <3> QED
      BY <3>4, <2>3, <2>4, <2>6, <2>10
  <2> QED
    BY <2>1, <2>8, <2>10 DEF u
<1>6. CASE ReadFails
  BY <1>6 DEF ReadFails, Client!ReadFails, Client!parserVars
<1>7. CASE Feed
  <2>1. PICK k \in 1..Len(down) : FeedSome(k)
    BY <1>7 DEF Feed
  <2>2. k \in Nat /\ k <= Len(down) /\ k <= ReadSize /\ Len(down) \in Nat
    BY <2>1, LenProperties DEF FeedSome, Client!Feed
  <2> DEFINE u == SubSeq(data, 1, k)
  <2>3. /\ Client!Parse(u, "idle", {"fed"})
        /\ down' = SubSeq(down, k + 1, Len(down))
        /\ UNCHANGED <<serverVars, up, appVars, reader, linked, data>>
    BY <2>1 DEF FeedSome, Client!Feed
  <2>4. data \in Seq(Byte) /\ Len(data) = ReadSize
    BY LenProperties, IsASeq
  <2>5. u \in Seq(Byte) /\ down' \in Seq(Byte)
    BY <2>2, <2>3, <2>4, Beginning, Remainder
  <2> HIDE DEF u
  <2>6. {"fed"} \in SUBSET {"fed"}
    OBVIOUS
  <2>7. /\ buffer' \in Seq(Byte) /\ size' \in Int /\ pc' \in {"idle", "reading"}
        /\ received' \in Seq(Seq(Byte))
        /\ spoilt' \subseteq {"leftover", "header", "lost", "gap", "memory", "fed"}
    BY <2>3, <2>5, <2>6, ParseTyped
  <2> QED
    BY <2>3, <2>5, <2>7
<1>8. CASE ServerStep
  <2>1. UNCHANGED <<clientVars, appVars>>
    BY <1>8 DEF ServerStep
  <2>2. CASE Server!Connected
    <3>1. inbuf' = <<>> /\ insize' = -1 /\ session' = "made" /\ phase' \in {"waiting", "closed"}
          /\ UNCHANGED <<callbacks, handled, answers, lossy, up, down, fault>>
      BY <2>2 DEF Server!Connected
    <3>2. inbuf' \in Seq(Byte) /\ insize' \in Int
      BY <3>1, EmptySeq
    <3> QED
      BY <3>1, <3>2, <2>1
  <2>3. CASE Server!NoSession
    BY <2>1, <2>3 DEF Server!NoSession, Server!sessionVars
  <2>4. CASE Server!Read
    <3>1. PICK k \in 1..Server!Smaller(ReadSize, Len(up)) :
            /\ Server!ForwardReaded(SubSeq(up, 1, k))
            /\ up' = SubSeq(up, k + 1, Len(up))
      BY <2>4 DEF Server!Read
    <3>2. k \in Nat /\ k <= Len(up)
      BY LenProperties DEF Server!Smaller
    <3>3. SubSeq(up, 1, k) \in Seq(Byte) /\ up' \in Seq(Byte)
      BY <3>1, <3>2, Beginning, Remainder
    <3>4. /\ phase' \in {"waiting", "closed"}
          /\ inbuf' \in Seq(Byte) /\ insize' \in Int /\ lossy' \in BOOLEAN
          /\ handled' \in Seq(Seq(Byte)) /\ answers' \in Seq(Seq(Byte)) /\ down' \in Seq(Byte)
      BY <3>1, <3>3, ForwardReadedTyped
    <3>5. UNCHANGED <<callbacks, session, fault>>
      BY <2>4 DEF Server!Read
    <3> QED
      BY <3>3, <3>4, <3>5, <2>1
  <2>5. CASE Server!Closed
    <3>1. inbuf' = <<>> /\ insize' = -1 /\ session' = "null" /\ phase' = "none" /\ fault' \in BOOLEAN
          /\ UNCHANGED <<callbacks, handled, answers, lossy, up, down>>
      BY <2>5 DEF Server!Closed
    <3>2. inbuf' \in Seq(Byte) /\ insize' \in Int
      BY <3>1, EmptySeq
    <3> QED
      BY <3>1, <3>2, <2>1
  <2> QED
    BY <1>8, <2>2, <2>3, <2>4, <2>5 DEF ServerStep, Server!Step
<1>9. CASE ServerFails
  BY <1>9 DEF ServerFails, Server!ReadFails, Server!Disconnect, Server!sessionVars
<1>10. CASE UNCHANGED vars
  BY <1>10 DEF vars
<1> QED
  BY <1>1, <1>2, <1>3, <1>4, <1>5, <1>6, <1>7, <1>8, <1>9, <1>10 DEF Next
\* The messages on the connection are those that can be sent.
LEMMA SentStep ==
  TypeOK /\ sent \in Seq(Messages \cup Garbage) /\ Next => sent' \in Seq(Messages \cup Garbage)
<1> SUFFICES ASSUME TypeOK, sent \in Seq(Messages \cup Garbage), Next PROVE sent' \in Seq(Messages \cup Garbage)
  OBVIOUS
<1>1. CASE Connect
  BY <1>1, EmptySeq DEF Connect
<1>2. CASE Send
  <2>1. PICK m \in Messages \cup Garbage : sent' = Append(sent, m)
    BY <1>2 DEF Send
  <2> QED
    BY <2>1, AppendProperties
<1>3. CASE UNCHANGED sent
  BY <1>3
<1>4. Close \/ ReadCall \/ ReadSome \/ ReadFails \/ Feed \/ ServerStep \/ ServerFails => UNCHANGED sent
  BY DEF Close, ReadCall, ReadSome, ReadFails, Feed, FeedSome, ServerStep, ServerFails, appVars
<1> QED
  BY <1>1, <1>2, <1>3, <1>4 DEF Next, vars, appVars

\* What is sent may be put into a stream.
LEMMA SentSendable ==
  ASSUME sent \in Seq(Messages \cup Garbage)
  PROVE  sent \in Seq(Sendable)
BY MessagesWhole, SeqMonotonic

\* A step that leaves what Sessions is about.
LEMMA SessionsKept ==
  ASSUME Sessions, UNCHANGED <<callbacks, handled, sent, lossy>>,
         answers' = answers,
         \/ phase' \in {"none", "closed"}
         \/ UNCHANGED <<phase, up, inbuf, insize>>
  PROVE  Sessions'
BY DEF Sessions, Server!Parsing

LEMMA SessionsStep == IInv /\ Next => Sessions'
<1> SUFFICES ASSUME IInv, Next PROVE Sessions'
  OBVIOUS
<1>1. /\ TypeOK /\ Sessions /\ sent \in Seq(Sendable)
      /\ inbuf \in Seq(Byte) /\ up \in Seq(Byte) /\ insize \in Int
  BY SentSendable DEF IInv, TypeOK
<1>2. CASE Connect
  <2>1. phase' = "connecting" /\ handled' = <<>> /\ answers' = <<>> /\ up' = <<>> /\ sent' = <<>>
    BY <1>2 DEF Connect, Server!Accept
  <2>2. handled' \in Seq(Whole) /\ answers' \in Seq(Sendable) /\ Len(handled') = 0 /\ Len(sent') = 0
    BY <2>1, EmptySeq
  <2>3. Framed(handled', sent', up')
    BY <2>1, FramedEmpty
  <2> QED
    BY <2>1, <2>2, <2>3 DEF Sessions
<1>3. CASE Send
  <2>1. PICK m \in Messages \cup Garbage : up' = up \o m /\ sent' = Append(sent, m)
    BY <1>3 DEF Send
  <2>2. UNCHANGED <<callbacks, phase, inbuf, insize, handled, answers, lossy>> /\ m \in Sendable
    BY <1>3, MessagesWhole DEF Send, serverVars
  <2>3. CASE lossy \/ ~Server!Parsing
    BY <2>2, <2>3, <1>1 DEF Sessions, Server!Parsing
  <2>4. CASE ~lossy /\ Server!Parsing
    <3>1. /\ handled \in Seq(Whole) /\ handled \in Seq(Sendable) /\ answers \in Seq(Sendable)
          /\ Len(handled) <= Len(sent) /\ \A j \in 1..Len(handled) : handled[j] = sent[j]
      <4>1. handled \in Seq(Whole)
        BY <2>4, <1>1 DEF Sessions
      <4>2. handled \in Seq(Sendable)
        BY <4>1, SeqMonotonic DEF Sendable
      <4> QED
        BY <4>1, <4>2, <2>4, <1>1 DEF Sessions
    <3>2. Len(handled) <= Len(sent') /\ \A j \in 1..Len(handled) : handled[j] = sent'[j]
      <4>1. /\ Len(sent') = Len(sent) + 1 /\ \A j \in 1..Len(sent) : sent'[j] = sent[j]
        BY <2>1, <2>2, <1>1, AppendProperties
      <4>2. Len(handled) \in Nat /\ Len(sent) \in Nat
        BY <3>1, <1>1, LenProperties
      <4> QED
        BY <4>1, <4>2, <3>1
    <3>3. phase = "connecting" => Framed(handled, sent', up')
      <4>1. phase = "connecting" => Framed(handled, sent, up)
        BY <2>4, <1>1 DEF Sessions
      <4> QED
        BY <4>1, <2>1, <2>2, <3>1, <1>1, FramedSend
    <3>4. phase = "waiting" => Framed(handled, sent', inbuf \o up')
      <4> SUFFICES ASSUME phase = "waiting" PROVE Framed(handled, sent', inbuf \o up')
        OBVIOUS
      <4>1. Framed(handled, sent, inbuf \o up) /\ inbuf \o up \in Seq(Byte)
        BY <2>4, <1>1, ConcatProperties DEF Sessions
      <4>2. Framed(handled, sent', (inbuf \o up) \o m)
        BY <4>1, <2>1, <2>2, <3>1, <1>1, FramedSend
      <4>3. (inbuf \o up) \o m = inbuf \o (up \o m)
        <5>1. inbuf \in Seq(Byte) /\ up \in Seq(Byte) /\ m \in Seq(Byte)
          BY <1>1, <2>2, Sizes
        <5> QED
          BY <5>1, ConcatAssociative, SMTT(30)
      <4> QED
        BY <4>2, <4>3, <2>1
    <3>5. phase = "waiting" => SizeKept(inbuf, insize) /\ (insize # -1 => Len(inbuf) < insize)
      BY <2>4, <1>1 DEF Sessions
    <3> QED
      BY <2>2, <3>1, <3>2, <3>3, <3>4, <3>5 DEF Sessions, Server!Parsing
  <2> QED
    BY <2>3, <2>4
<1>4. CASE Close \/ ReadCall \/ ReadSome \/ ReadFails \/ Feed \/ UNCHANGED vars
  <2>1. UNCHANGED <<callbacks, handled, sent, answers, lossy, phase, up, inbuf, insize>>
    BY <1>4 DEF Close, ReadCall, ReadSome, ReadFails, Feed, FeedSome, serverVars, appVars, vars
  <2> QED
    BY <2>1, <1>1, SessionsKept
<1>5. CASE ServerFails
  <2>1. UNCHANGED <<callbacks, handled, sent, answers, lossy>> /\ phase' = "closed"
    BY <1>5 DEF ServerFails, Server!ReadFails, Server!Disconnect, Server!sessionVars, appVars
  <2> QED
    BY <2>1, <1>1, SessionsKept
<1>6. CASE ServerStep
  <2>1. sent' = sent
    BY <1>6 DEF ServerStep, appVars
  <2>2. CASE Server!NoSession \/ Server!Closed
    <3>1. UNCHANGED <<callbacks, handled, answers, lossy>> /\ phase' \in {"none", "closed"}
      BY <2>2 DEF Server!NoSession, Server!Closed, Server!sessionVars
    <3> QED
      BY <3>1, <2>1, <1>1, SessionsKept
  <2>3. CASE Server!Connected
    <3>1. /\ UNCHANGED <<callbacks, handled, answers, lossy, up>> /\ phase = "connecting"
          /\ phase' \in {"waiting", "closed"} /\ inbuf' = <<>> /\ insize' = -1
      BY <2>3 DEF Server!Connected
    <3>2. <<>> \o up = up
      BY <1>1, ConcatEmptySeq
    <3> QED
      BY <3>1, <3>2, <2>1, <1>1 DEF Sessions, Server!Parsing, SizeKept
  <2>4. CASE Server!Read
    <3> SUFFICES ASSUME Server!Parsing PROVE Sessions'
      BY <2>4 DEF Server!Read, Sessions, Server!Parsing
    <3>1. PICK k \in 1..Server!Smaller(ReadSize, Len(up)) :
            /\ Server!ForwardReaded(SubSeq(up, 1, k))
            /\ up' = SubSeq(up, k + 1, Len(up))
      BY <2>4 DEF Server!Read
    <3>2. k \in Nat /\ k <= Len(up)
      BY <1>1, EchoAssumption, LenProperties DEF Server!Smaller
    <3> DEFINE chunk == SubSeq(up, 1, k) t == SubSeq(up, k + 1, Len(up))
    <3>3. chunk \in Seq(Byte) /\ t \in Seq(Byte)
      BY <3>2, <1>1, Beginning, Remainder
    <3>4. (inbuf \o chunk) \o t = inbuf \o up
      BY <3>2, <1>1, Moved
    <3>5. phase = "waiting" /\ Server!ForwardReaded(chunk) /\ up' = t
      BY <3>1, <2>4 DEF Server!Read
    <3> HIDE DEF chunk, t
    <3>6. /\ handled' \in Seq(Whole)
          /\ \/ answers' = answers /\ down' = down
             \/ \E r \in Sendable : answers' = Append(answers, r) /\ down' = down \o r
          /\ phase' \in {"waiting", "closed"}
          /\ phase' = "waiting" => SizeKept(inbuf', insize') /\ (insize' # -1 => Len(inbuf') < insize')
          /\ ~lossy' => /\ Len(handled') <= Len(sent)
                        /\ \A j \in 1..Len(handled') : handled'[j] = sent[j]
                        /\ phase' = "waiting" => Framed(handled', sent, inbuf' \o t)
      BY <3>3, <3>4, <3>5, <1>1, ForwardReadedFramed
    <3>7. answers' \in Seq(Sendable)
      <4>1. answers \in Seq(Sendable)
        BY <1>1 DEF Sessions
      <4> QED
        <5>1. CASE answers' = answers
          BY <4>1, <5>1
        <5>2. CASE \E r \in Sendable : answers' = Append(answers, r)
          BY <4>1, <5>2, AppendProperties
        <5> QED
          BY <3>6, <5>1, <5>2
    <3> QED
      BY <3>5, <3>6, <3>7, <2>1 DEF Sessions
  <2> QED
    BY <1>6, <2>2, <2>3, <2>4 DEF ServerStep, Server!Step
<1> QED
  BY <1>2, <1>3, <1>4, <1>5, <1>6 DEF Next
LEMMA RepliesStep == IInv /\ Next => Replies'
<1> SUFFICES ASSUME IInv, Next, (reader /\ Server!Parsing /\ spoilt \subseteq {"memory"})'
             PROVE  /\ received' \in Seq(Whole)
                    /\ Framed(received', answers', buffer' \o down')
                    /\ SizeKept(buffer', size')
  BY DEF Replies
<1>1. /\ TypeOK /\ Sessions /\ Replies /\ sent \in Seq(Sendable)
      /\ buffer \in Seq(Byte) /\ down \in Seq(Byte) /\ up \in Seq(Byte) /\ inbuf \in Seq(Byte)
      /\ data \in [1..ReadSize -> Byte]
  BY SentSendable DEF IInv, TypeOK
<1>2. CASE Connect
  <2>1. /\ received' = <<>> /\ answers' = <<>> /\ down' = <<>> /\ buffer' = buffer /\ size' = size
        /\ spoilt' = IF buffer = <<>> /\ size = -1 THEN {} ELSE {"leftover"}
    BY <1>2 DEF Connect, Server!Accept, Client!Connect, Client!parserVars, Client!Fresh
  <2>2. buffer' = <<>> /\ size' = -1
    BY <2>1
  <2>3. buffer' \o down' = <<>>
    BY <2>1, <2>2, EmptySeq, ConcatEmptySeq
  <2> QED
    BY <2>1, <2>2, <2>3, EmptySeq, FramedEmpty DEF SizeKept
<1>3. ASSUME UNCHANGED <<callbacks, reader, received, spoilt, buffer, size>>
      PROVE  /\ reader /\ Server!Parsing /\ spoilt \subseteq {"memory"}
             /\ received' = received /\ received \in Seq(Whole) /\ received \in Seq(Sendable)
             /\ answers \in Seq(Sendable)
             /\ Framed(received, answers, buffer \o down) /\ buffer \o down \in Seq(Byte)
             /\ buffer' = buffer /\ SizeKept(buffer', size')
  <2>1. reader /\ Server!Parsing /\ spoilt \subseteq {"memory"}
    BY <1>3 DEF Server!Parsing
  <2>2. received \in Seq(Whole)
    BY <2>1, <1>1 DEF Replies
  <2>3. received \in Seq(Sendable)
    BY <2>2, SeqMonotonic DEF Sendable
  <2> QED
    BY <2>1, <2>2, <2>3, <1>1, <1>3, ConcatProperties DEF Replies, Sessions
<1>4. CASE Close \/ Send \/ ReadFails \/ ServerFails \/ UNCHANGED vars
  <2>1. UNCHANGED <<callbacks, reader, received, spoilt, buffer, size, answers, down>>
    BY <1>4 DEF Close, Client!Close, Client!parserVars, Send, ReadFails, Client!ReadFails,
                ServerFails, Server!ReadFails, Server!sessionVars, serverVars, clientVars, vars
  <2> QED
    BY <2>1, <1>3
<1>5. CASE ServerStep
  <2>1. UNCHANGED <<reader, received, spoilt, buffer, size, callbacks>>
    BY <1>5 DEF ServerStep, clientVars, Server!Step, Server!Connected, Server!NoSession, Server!Read, Server!Closed
  <2>2. CASE answers' = answers /\ down' = down
    BY <2>1, <2>2, <1>3
  <2>3. CASE \E r \in Sendable : answers' = Append(answers, r) /\ down' = down \o r
    <3>1. PICK r \in Sendable : answers' = Append(answers, r) /\ down' = down \o r
      BY <2>3
    <3>2. Framed(received, answers', (buffer \o down) \o r)
      BY <3>1, <2>1, <1>3, FramedSend
    <3>3. (buffer \o down) \o r = buffer \o (down \o r)
      <4>1. buffer \in Seq(Byte) /\ down \in Seq(Byte) /\ r \in Seq(Byte)
        BY <1>1, Sizes
      <4> QED
        BY <4>1, ConcatAssociative, SMTT(30)
    <3> QED
      BY <3>1, <3>2, <3>3, <2>1, <1>3
  <2>4. CASE Server!Read
    <3>1. PICK k \in 1..Server!Smaller(ReadSize, Len(up)) :
            /\ Server!ForwardReaded(SubSeq(up, 1, k))
            /\ up' = SubSeq(up, k + 1, Len(up))
      BY <2>4 DEF Server!Read
    <3>2. k \in Nat /\ k <= Len(up)
      BY <1>1, EchoAssumption, LenProperties DEF Server!Smaller
    <3> DEFINE chunk == SubSeq(up, 1, k) t == SubSeq(up, k + 1, Len(up))
    <3>3. chunk \in Seq(Byte) /\ t \in Seq(Byte)
      BY <3>2, <1>1, Beginning, Remainder
    <3>4. (inbuf \o chunk) \o t = inbuf \o up
      BY <3>2, <1>1, Moved
    <3>5. phase = "waiting" /\ Server!ForwardReaded(chunk)
      BY <3>1, <2>4 DEF Server!Read
    <3> HIDE DEF chunk, t
    <3>6. Server!Parsing
      BY <2>1, <1>3
    <3>7. \/ answers' = answers /\ down' = down
          \/ \E r \in Sendable : answers' = Append(answers, r) /\ down' = down \o r
      BY <3>3, <3>4, <3>5, <3>6, <1>1, ForwardReadedFramed
    <3> QED
      BY <3>7, <2>2, <2>3
  <2>5. CASE Server!Connected \/ Server!NoSession \/ Server!Closed
    <3>1. answers' = answers /\ down' = down
      BY <2>5 DEF Server!Connected, Server!NoSession, Server!Closed, Server!sessionVars
    <3> QED
      BY <3>1, <2>2
  <2> QED
    BY <1>5, <2>4, <2>5 DEF ServerStep, Server!Step
<1>6. ASSUME NEW chunk \in Seq(Byte), NEW t \in Seq(Byte), NEW b, b = buffer \o chunk,
             b \o t = buffer \o down, down' = t,
             UNCHANGED <<callbacks, reader, answers>>,
             Client!ReaderMessage(b, "reading", {})
      PROVE  /\ received' \in Seq(Whole)
             /\ Framed(received', answers', buffer' \o down')
             /\ SizeKept(buffer', size')
  <2>1. reader /\ Server!Parsing
    BY <1>6 DEF Server!Parsing
  <2>2. spoilt \subseteq {"memory"} /\ spoilt' \subseteq {"memory"}
    BY <1>6, SpoiltGrows
  <2>3. /\ SizeKept(buffer, size) /\ received \in Seq(Whole) /\ answers \in Seq(Sendable)
        /\ Framed(received, answers, b \o t)
    BY <2>1, <2>2, <1>1, <1>6 DEF Replies, Sessions
  <2>4. /\ received' \in Seq(Whole)
        /\ Framed(received', answers, buffer' \o t)
        /\ SizeKept(buffer', size')
    BY <2>2, <2>3, <1>1, <1>6, ReaderMessageFramed
  <2> QED
    BY <2>4, <1>6
<1>7. CASE ReadCall
  <2>1. /\ Client!ReaderMessage(buffer, "reading", {})
        /\ UNCHANGED <<callbacks, reader, answers, down>>
    BY <1>7 DEF ReadCall, Client!ReadCall, Client!Buffered, serverVars
  <2>2. buffer = buffer \o <<>> /\ <<>> \in Seq(Byte)
    BY <1>1, ConcatEmptySeq, EmptySeq
  <2> QED
    BY <2>1, <2>2, <1>1, <1>6
<1>8. CASE ReadSome
  <2>1. PICK k \in 1..Client!Smaller(ReadSize, Len(down)) :
          /\ down' = SubSeq(down, k + 1, Len(down))
          /\ Client!Parse(SubSeq(down, 1, k), "reading", {}) \/ ~reader
    BY <1>8 DEF ReadSome, Client!ReadSome
  <2>2. UNCHANGED <<callbacks, reader, answers>>
    BY <1>8 DEF ReadSome, Client!ReadSome, serverVars
  <2>3. k \in Nat /\ k <= Len(down)
    BY <1>1, EchoAssumption, LenProperties DEF Client!Smaller
  <2> DEFINE chunk == SubSeq(down, 1, k) t == SubSeq(down, k + 1, Len(down)) b == buffer \o chunk
  <2>4. chunk \in Seq(Byte) /\ t \in Seq(Byte) /\ b = buffer \o chunk /\ down' = t
    BY <2>1, <2>3, <1>1, Beginning, Remainder
  <2>5. b \o t = buffer \o down
    BY <2>3, <1>1, Moved
  <2>6. CASE Client!Parse(chunk, "reading", {})
    <3> HIDE DEF chunk, t
    <3>1. {} \in SUBSET {"fed"}
      OBVIOUS
    <3>2. Client!ReaderMessage(b, "reading", {})
      BY <2>4, <2>6, <3>1, <1>1, ParseInStep
    <3> HIDE DEF b
    <3> QED
      BY <2>2, <2>4, <2>5, <3>2, <1>6
  <2>8. CASE ~reader
    BY <2>2, <2>8
  <2> QED
    BY <2>1, <2>6, <2>8
<1>9. CASE Feed
  <2>1. PICK k \in 1..Len(down) : FeedSome(k)
    BY <1>9 DEF Feed
  <2>2. k \in Nat /\ k <= ReadSize /\ Client!Parse(SubSeq(data, 1, k), "idle", {"fed"})
    BY <2>1 DEF FeedSome, Client!Feed
  <2>3. data \in Seq(Byte) /\ Len(data) = ReadSize
    BY <1>1, EchoAssumption, LenProperties, IsASeq
  <2>4. SubSeq(data, 1, k) \in Seq(Byte)
    BY <2>2, <2>3, Beginning
  <2>5. {"fed"} \in SUBSET {"fed"}
    OBVIOUS
  <2>6. {"fed"} = {}
    BY <2>2, <2>4, <2>5, <1>1, ParseInStep
  <2> QED
    BY <2>6
<1> QED
  BY <1>2, <1>4, <1>5, <1>7, <1>8, <1>9 DEF Next

LEMMA BlockedStep == IInv /\ Next => Blocked'
<1> SUFFICES ASSUME IInv, Next PROVE Blocked'
  OBVIOUS
<1>1. /\ TypeOK /\ Blocked
      /\ buffer \in Seq(Byte) /\ down \in Seq(Byte) /\ data \in [1..ReadSize -> Byte]
  BY DEF IInv, TypeOK
<1>2. CASE Connect
  <2>1. /\ pc' = pc /\ ~linked /\ size' = size /\ linked' = TRUE
        /\ spoilt' = IF buffer = <<>> /\ size = -1 THEN {} ELSE {"leftover"}
    BY <1>2 DEF Connect, Client!Connect, Client!parserVars, Client!Fresh
  <2> QED
    BY <2>1, <1>1 DEF Blocked
<1>3. CASE UNCHANGED <<reader, linked, pc, buffer, size, spoilt>>
  BY <1>1, <1>3 DEF Blocked, Client!Complete, Client!HeaderThere, Client!MessageSize
<1>4. CASE Send \/ ServerStep \/ ServerFails \/ UNCHANGED vars
  <2>1. UNCHANGED <<reader, linked, pc, buffer, size, spoilt>>
    BY <1>4 DEF Send, ServerStep, ServerFails, clientVars, vars
  <2> QED
    BY <2>1, <1>3
<1>5. CASE Close \/ ReadFails
  <2>1. pc' = "idle" /\ size' = size /\ spoilt' = spoilt
    BY <1>5 DEF Close, Client!Close, ReadFails, Client!ReadFails, Client!parserVars
  <2> QED
    BY <2>1, <1>1 DEF Blocked
<1>6. ASSUME NEW b \in Seq(Byte), NEW again \in {"idle", "reading"},
             NEW why \in SUBSET {"fed", "gap"},
             Client!ReaderMessage(b, again, why), linked' = linked, linked
      PROVE  Blocked'
  <2>1. CASE spoilt' \subseteq {"gap"}
    <3>1. spoilt \subseteq {"gap"}
      BY <2>1, <1>6, SpoiltGrows
    <3>2. size = -1 \/ (size >= HeaderSize /\ size >= 1)
      BY <3>1, <1>1 DEF Blocked
    <3>3. /\ size' = -1 \/ (size' >= HeaderSize /\ size' >= 1)
          /\ pc' = "reading" => ~Client!Complete(buffer)'
      BY <2>1, <3>2, <1>1, <1>6, ReaderMessageBlocks
    <3> QED
      BY <3>3, <1>6 DEF Blocked
  <2>2. CASE ~(spoilt' \subseteq {"gap"})
    BY <2>2, <1>6 DEF Blocked
  <2> QED
    BY <2>1, <2>2
<1>7. CASE ReadCall
  <2>1. Client!ReaderMessage(buffer, "reading", {}) /\ linked /\ linked' = linked
    BY <1>7 DEF ReadCall, Client!ReadCall, Client!Buffered
  <2>2. {} \in SUBSET {"fed", "gap"}
    OBVIOUS
  <2> QED
    BY <2>1, <2>2, <1>1, <1>6
<1>8. CASE ReadSome
  <2>1. PICK k \in 1..Client!Smaller(ReadSize, Len(down)) :
          \/ Client!Parse(SubSeq(down, 1, k), "reading", {})
          \/ pc' = "idle" /\ UNCHANGED <<size, spoilt>>
    BY <1>8 DEF ReadSome, Client!ReadSome
  <2>2. linked /\ linked' = linked
    BY <1>8, <1>1 DEF ReadSome, Client!ReadSome, Blocked
  <2>3. CASE Client!Parse(SubSeq(down, 1, k), "reading", {}) /\ ~Client!WriteFails
    <3>1. k \in Nat /\ k <= Len(down)
      BY <1>1, EchoAssumption, LenProperties DEF Client!Smaller
    <3>2. SubSeq(down, 1, k) \in Seq(Byte) /\ {} \in SUBSET {"fed"}
      BY <3>1, <1>1, Beginning
    <3>3. PICK b \in Seq(Byte), why \in SUBSET {"fed", "gap"} : Client!ReaderMessage(b, "reading", why)
      BY <2>3, <3>2, <1>1, ParseWrites
    <3> QED
      BY <3>3, <2>2, <1>6
  <2>4. CASE Client!WriteFails
    BY <2>2, <2>4 DEF Blocked, Client!WriteFails
  <2>5. CASE pc' = "idle" /\ UNCHANGED <<size, spoilt>>
    BY <2>5, <1>1 DEF Blocked
  <2> QED
    BY <2>1, <2>3, <2>4, <2>5
<1>9. CASE Feed
  <2>1. PICK k \in 1..Len(down) : FeedSome(k)
    BY <1>9 DEF Feed
  <2>2. linked /\ linked' = linked
    BY <2>1 DEF FeedSome, Client!Feed
  <2>3. k \in Nat /\ k <= ReadSize /\ Client!Parse(SubSeq(data, 1, k), "idle", {"fed"})
    BY <2>1 DEF FeedSome, Client!Feed
  <2>4. SubSeq(data, 1, k) \in Seq(Byte) /\ {"fed"} \in SUBSET {"fed"}
    <3>1. data \in Seq(Byte) /\ Len(data) = ReadSize
      BY <1>1, EchoAssumption, LenProperties, IsASeq
    <3> QED
      BY <3>1, <2>3, Beginning
  <2>5. CASE ~Client!WriteFails
    <3>1. PICK b \in Seq(Byte), why \in SUBSET {"fed", "gap"} : Client!ReaderMessage(b, "idle", why)
      BY <2>3, <2>4, <2>5, <1>1, ParseWrites
    <3> QED
      BY <3>1, <2>2, <1>6
  <2>6. CASE Client!WriteFails
    BY <2>2, <2>6 DEF Blocked, Client!WriteFails
  <2> QED
    BY <2>5, <2>6
<1> QED
  BY <1>2, <1>4, <1>5, <1>7, <1>8, <1>9 DEF Next

LEMMA StepInv == IInv /\ [Next]_vars => IInv'
<1> SUFFICES ASSUME IInv, Next PROVE IInv'
  <2>1. ASSUME IInv, UNCHANGED vars PROVE IInv'
    BY <2>1 DEF IInv, TypeOK, Sessions, Replies, Blocked, Server!Parsing, Client!Complete,
                Client!HeaderThere, Client!MessageSize, vars, serverVars, clientVars, appVars
  <2> QED
    BY <2>1
<1>1. TypeOK'
  BY TypeStep DEF IInv
<1>2. (sent \in Seq(Messages \cup Garbage))'
  BY SentStep DEF IInv
<1> QED
  BY <1>1, <1>2, SessionsStep, RepliesStep, BlockedStep DEF IInv
-----------------------------------------------------------------------------
LEMMA Invariant == Spec => []IInv
BY InitInv, StepInv, PTL DEF Spec

\* The types of the state, whatever the headers, the reader and the messages are.
THEOREM EchoTypes == Spec => []TypeOK
<1>1. IInv => TypeOK
  BY DEF IInv
<1> QED
  BY <1>1, Invariant, PTL

\* _readed of the server gets what a header announces, all of it, however the bytes are cut
\* and whatever the buffer loses of them (echo_server.hpp:192-264, fragmentation.hpp:59-66);
\* and while nothing is lost, the messages that were sent, once and in order.
THEOREM EchoServerFraming == Spec => []ServerFraming
<1>1. IInv => ServerFraming
  <2> SUFFICES ASSUME IInv, Server!Parsing
               PROVE  /\ \A j \in DOMAIN handled : WellFormed(handled[j])
                      /\ ~lossy => /\ IsPrefix(handled, sent)
                                   /\ \A j \in DOMAIN handled : handled[j] \in Messages
    BY DEF ServerFraming
  <2>1. handled \in Seq(Whole) /\ sent \in Seq(Messages \cup Garbage)
    BY DEF IInv, Sessions
  <2>2. handled \in Seq(Sendable) /\ sent \in Seq(Sendable)
    BY <2>1, SentSendable, SeqMonotonic DEF Sendable
  <2>3. \A j \in DOMAIN handled : j \in 1..Len(handled) /\ handled[j] \in Whole
    BY <2>1, ElementOfSeq, LenProperties
  <2>4. \A j \in DOMAIN handled : WellFormed(handled[j])
    BY <2>3 DEF Whole
  <2>5. ASSUME ~lossy
        PROVE  IsPrefix(handled, sent) /\ \A j \in DOMAIN handled : handled[j] \in Messages
    <3>1. Len(handled) <= Len(sent) /\ \A j \in 1..Len(handled) : handled[j] = sent[j]
      BY <2>5 DEF IInv, Sessions
    <3>2. IsPrefix(handled, sent)
      BY <2>2, <3>1, FramedPrefix
    <3>3. ASSUME NEW j \in DOMAIN handled PROVE handled[j] \in Messages
      <4>1. j \in 1..Len(sent) /\ handled[j] = sent[j]
        BY <2>1, <2>3, <3>1, LenProperties
      <4>2. sent[j] \in Messages \cup Garbage
        BY <2>1, <4>1, ElementOfSeq
      <4> QED
        BY <2>3, <4>1, <4>2, NotGarbage
    <3> QED
      BY <3>2, <3>3
  <2> QED
    BY <2>4, <2>5
<1> QED
  BY <1>1, Invariant, PTL

\* A session that waits for the rest of a message (216-247) has taken its size from the
\* header at the start of its buffer.
THEOREM EchoServerPending == Spec => []ServerPending
<1>1. IInv => ServerPending
  BY DEF IInv, Sessions, SizeKept, ServerPending, Server!Pending
<1> QED
  BY <1>1, Invariant, PTL

\* read() of the client returns what the server's application wrote, whole, once and in
\* order (echo_client.hpp:195-308), while nothing has put its parser out of step.
THEOREM EchoClientFraming == Spec => []ClientFraming
<1>1. IInv => ClientFraming
  <2> SUFFICES ASSUME IInv, reader, Server!Parsing, spoilt \subseteq {"memory"}
               PROVE  IsPrefix(received, answers) /\ \A j \in DOMAIN received : received[j] \notin Garbage
    BY DEF ClientFraming
  <2>1. /\ received \in Seq(Whole) /\ answers \in Seq(Sendable)
        /\ Framed(received, answers, buffer \o down)
    BY DEF IInv, Sessions, Replies
  <2>2. received \in Seq(Sendable)
    BY <2>1, SeqMonotonic DEF Sendable
  <2>3. IsPrefix(received, answers)
    BY <2>1, <2>2, FramedPrefix DEF Framed
  <2>5. \A j \in DOMAIN received : received[j] \in Whole
    BY <2>1, ElementOfSeq, LenProperties
  <2> QED
    BY <2>3, <2>5, NotGarbage
<1> QED
  BY <1>1, Invariant, PTL

\* read() does not block (echo_client.hpp:279-287) while a whole message is buffered.
THEOREM EchoBlocksForBytes == Spec => []BlocksForBytes
<1>1. IInv => BlocksForBytes
  BY DEF IInv, Blocked, BlocksForBytes
<1> QED
  BY <1>1, Invariant, PTL
-----------------------------------------------------------------------------
(* The two sides together: the answers are those to the messages handled,   *)
(* in order, and neither side waits on the other while something is due.    *)

\* answers[j] is the answer to handled[j]; a session that reads on has answered all.
Answering ==
  Server!Parsing =>
    /\ Len(answers) <= Len(handled)
    /\ \A j \in 1..Len(answers) : answers[j] \in {handled[j]} \cup Garbage
    /\ phase = "waiting" => Len(answers) = Len(handled)
    /\ phase = "connecting" => Len(handled) = 0

\* A read() waits for an answer that is due, and the header it has was not enough.
Awaiting ==
  /\ Len(sent) - Len(received) <= Window
  /\ pc = "reading" => Len(received) < Len(sent)
  /\ pc = "reading" /\ reader /\ spoilt = {} => size # -1 \/ Len(buffer) < HeaderSize

\* One message at a time leaves nothing whole in the session's buffer.
KeepsNone ==
  Window <= 1 /\ reader /\ Server!Parsing /\ ~lossy /\ spoilt = {} /\ phase = "waiting" /\ insize = -1 =>
    inbuf = <<>> \/ Len(inbuf) < HeaderSize

LEMMA AppendShows ==
  ASSUME NEW S, NEW s \in Seq(S), NEW m
  PROVE  /\ Len(s) \in Nat /\ Len(Append(s, m)) = Len(s) + 1 /\ Append(s, m)[Len(s) + 1] = m
         /\ \A j \in 1..Len(s) : Append(s, m)[j] = s[j]
<1>1. s \in Seq(S \cup {m}) /\ m \in S \cup {m}
  BY SeqMonotonic
<1> QED
  BY <1>1, AppendProperties, LenProperties

\* What a handler of the session does to its histories.
LEMMA ForwardReadedAnswers ==
  ASSUME NEW chunk, Server!Parsing, Server!ForwardReaded(chunk)
  PROVE  \/ UNCHANGED <<handled, answers>>
         \/ \E m : \E r \in {m} \cup Garbage :
              handled' = Append(handled, m) /\ answers' = Append(answers, r)
         \/ phase' = "closed" /\ answers' = answers /\ \E m : handled' = Append(handled, m)
<1>0. PICK kept \in Server!Written(chunk) : Handler(inbuf \o kept)
  BY DEF Server!ForwardReaded, Server!Parsing, Handler
<1> DEFINE b == inbuf \o kept
<1>1. CASE Server!AwaitHeader(b) \/ Server!BadHeader(b) \/ Server!AwaitBody(b) \/ Server!NoMemory(b)
  BY <1>1 DEF Server!AwaitHeader, Server!BadHeader, Server!AwaitBody, Server!NoMemory, Server!Quiet
<1>2. CASE Server!Message(b)
  BY <1>2 DEF Server!Message, Server!Readed, Server!Disconnect
<1> HIDE DEF b
<1>3. Handler(b)
  BY <1>0 DEF b
<1> QED
  BY <1>1, <1>2, <1>3 DEF Handler

LEMMA AnsweringStep == IInv /\ Answering /\ Next => Answering'
<1> SUFFICES ASSUME IInv, Answering, Next, Server!Parsing'
             PROVE  /\ Len(answers') <= Len(handled')
                    /\ \A j \in 1..Len(answers') : answers'[j] \in {handled'[j]} \cup Garbage
                    /\ phase' = "waiting" => Len(answers') = Len(handled')
                    /\ phase' = "connecting" => Len(handled') = 0
  BY DEF Answering, Server!Parsing
<1>1. /\ handled \in Seq(Seq(Byte)) /\ answers \in Seq(Seq(Byte))
      /\ Len(handled) \in Nat /\ Len(answers) \in Nat
  BY LenProperties DEF IInv, TypeOK
<1>2. CASE Connect
  <2>1. handled' = <<>> /\ answers' = <<>> /\ phase' = "connecting"
    BY <1>2 DEF Connect, Server!Accept
  <2> QED
    BY <2>1, EmptySeq
<1>3. ASSUME callbacks' = callbacks
      PROVE  /\ Len(answers) <= Len(handled)
             /\ \A j \in 1..Len(answers) : answers[j] \in {handled[j]} \cup Garbage
             /\ phase = "waiting" => Len(answers) = Len(handled)
             /\ phase = "connecting" => Len(handled) = 0
  BY <1>3 DEF Answering, Server!Parsing
<1>4. CASE Send \/ Close \/ ReadCall \/ ReadSome \/ ReadFails \/ Feed \/ UNCHANGED vars
  <2>1. callbacks' = callbacks /\ handled' = handled /\ answers' = answers /\ phase' = phase
    BY <1>4 DEF Send, Close, ReadCall, ReadSome, ReadFails, Feed, FeedSome, serverVars, vars
  <2>2. callbacks' = callbacks
    BY <2>1
  <2> QED
    BY <2>1, <2>2, <1>3
<1>5. CASE ServerFails \/ (ServerStep /\ ~Server!Read)
  <2>1. /\ UNCHANGED <<callbacks, handled, answers>>
        /\ \/ phase' \in {"closed", "none"}
           \/ phase = "connecting" /\ phase' = "waiting"
    BY <1>5 DEF ServerFails, Server!ReadFails, Server!Disconnect, Server!sessionVars, ServerStep,
                Server!Step, Server!Connected, Server!NoSession, Server!Closed
  <2> QED
    BY <2>1, <1>1, <1>3
<1>6. CASE ServerStep /\ Server!Read
  <2>1. PICK k \in 1..Server!Smaller(ReadSize, Len(up)) : Server!ForwardReaded(SubSeq(up, 1, k))
    BY <1>6 DEF Server!Read
  <2>2. callbacks' = callbacks /\ Server!Parsing /\ phase = "waiting"
    BY <1>6 DEF Server!Read, Server!Parsing
  <2>3. \/ UNCHANGED <<handled, answers>>
        \/ \E m : \E r \in {m} \cup Garbage :
             handled' = Append(handled, m) /\ answers' = Append(answers, r)
        \/ phase' = "closed" /\ answers' = answers /\ \E m : handled' = Append(handled, m)
    BY <2>1, <2>2, ForwardReadedAnswers
  <2>4. phase' # "connecting"
    <3>1. phase' \in {"waiting", "closed"}
      BY <2>1, <2>2 DEF Server!Parsing, Server!ForwardReaded, Server!AwaitHeader, Server!BadHeader,
         Server!AwaitBody, Server!Message, Server!NoMemory, Server!Readed, Server!Continue,
         Server!Disconnect
    <3> QED
      BY <3>1
  <2>5. CASE UNCHANGED <<handled, answers>>
    BY <2>2, <2>4, <2>5, <1>3
  <2>6. CASE \E m : \E r \in {m} \cup Garbage :
               handled' = Append(handled, m) /\ answers' = Append(answers, r)
    <3>1. PICK m : \E r \in {m} \cup Garbage :
               handled' = Append(handled, m) /\ answers' = Append(answers, r)
      BY <2>6
    <3>2. PICK r \in {m} \cup Garbage : handled' = Append(handled, m) /\ answers' = Append(answers, r)
      BY <3>1
    <3>3. /\ Len(handled') = Len(handled) + 1 /\ handled'[Len(handled) + 1] = m
          /\ \A j \in 1..Len(handled) : handled'[j] = handled[j]
      BY <3>2, <1>1, AppendShows
    <3>4. /\ Len(answers') = Len(answers) + 1 /\ answers'[Len(answers) + 1] = r
          /\ \A j \in 1..Len(answers) : answers'[j] = answers[j]
      BY <3>2, <1>1, AppendShows
    <3>5. Len(answers) = Len(handled)
      BY <2>2, <1>3
    <3>6. \A j \in 1..Len(answers) : answers'[j] \in {handled'[j]} \cup Garbage
      BY <3>3, <3>4, <3>5, <2>2, <1>3
    <3>7. \A j \in 1..Len(answers') : j \in 1..Len(answers) \/ j = Len(answers) + 1
      BY <3>4, <1>1
    <3>8. answers'[Len(answers) + 1] \in {handled'[Len(answers) + 1]} \cup Garbage
      BY <3>2, <3>3, <3>4, <3>5
    <3>9. \A j \in 1..Len(answers') : answers'[j] \in {handled'[j]} \cup Garbage
      BY <3>6, <3>7, <3>8
    <3>10. Len(answers') = Len(handled')
      BY <3>3, <3>4, <3>5
    <3>11. Len(handled') \in Nat
      BY <3>3, <1>1
    <3> QED
      BY <3>9, <3>10, <3>11, <2>4
  <2>7. CASE phase' = "closed" /\ answers' = answers /\ \E m : handled' = Append(handled, m)
    <3>1. PICK m : handled' = Append(handled, m)
      BY <2>7
    <3>2. Len(handled') = Len(handled) + 1 /\ \A j \in 1..Len(handled) : handled'[j] = handled[j]
      BY <3>1, <1>1, AppendShows
    <3>3. Len(answers) = Len(handled) /\ \A j \in 1..Len(answers) : answers[j] \in {handled[j]} \cup Garbage
      BY <2>2, <1>3
    <3> QED
      BY <2>7, <3>2, <3>3, <1>1
  <2> QED
    BY <2>3, <2>5, <2>6, <2>7
<1> QED
  BY <1>2, <1>4, <1>5, <1>6 DEF Next

\* A step of the client's own: it returns a message, if any, and goes on waiting only from the
\* parser.
LEMMA ClientSteps ==
  ASSUME IInv, Close \/ ReadCall \/ ReadSome \/ ReadFails \/ Feed
  PROVE  /\ UNCHANGED <<serverVars, up, reader, sent>> /\ spoilt \subseteq spoilt'
         /\ received' = received \/ \E m : received' = Append(received, m)
         /\ pc' = "reading" =>
              /\ received' = received
              /\ pc = "reading" \/ Waiting
              /\ \E b \in Seq(Byte), why \in SUBSET {"fed", "gap"} :
                   Client!ReaderMessage(b, "reading", why)
<1>1. buffer \in Seq(Byte) /\ down \in Seq(Byte) /\ data \in [1..ReadSize -> Byte]
  BY DEF IInv, TypeOK
<1>2. ASSUME NEW b, NEW again, NEW step, Client!ReaderMessage(b, again, step)
      PROVE  /\ spoilt \subseteq spoilt' /\ pc' \in {again, "idle"}
             /\ received' = received \/ (pc' = "idle" /\ \E m : received' = Append(received, m))
  BY <1>2 DEF Client!ReaderMessage, Client!NoMessage, Client!BadHeader, Client!Message,
     Client!Swallowed
<1>3. CASE ReadCall
  <2>1. Client!ReaderMessage(buffer, "reading", {}) /\ UNCHANGED <<serverVars, up, reader, sent>> /\ Waiting
    BY <1>3 DEF ReadCall, Client!ReadCall, Client!Buffered, appVars
  <2>2. {} \in SUBSET {"fed", "gap"}
    OBVIOUS
  <2> QED
    BY <2>1, <2>2, <1>1, <1>2
<1>4. CASE ReadSome
  <2>1. PICK k \in 1..Client!Smaller(ReadSize, Len(down)) :
          \/ Client!Parse(SubSeq(down, 1, k), "reading", {})
          \/ pc' = "idle" /\ spoilt' = spoilt /\ \E m : received' = Append(received, m)
    BY <1>4 DEF ReadSome, Client!ReadSome
  <2>2. UNCHANGED <<serverVars, up, reader, sent>> /\ pc = "reading"
    BY <1>4 DEF ReadSome, Client!ReadSome, appVars
  <2>3. k \in Nat /\ k <= Len(down)
    BY <1>1, EchoAssumption, LenProperties DEF Client!Smaller
  <2>4. SubSeq(down, 1, k) \in Seq(Byte) /\ {} \in SUBSET {"fed"}
    BY <2>3, <1>1, Beginning
  <2>5. CASE Client!Parse(SubSeq(down, 1, k), "reading", {}) /\ ~Client!WriteFails
    <3>1. PICK b \in Seq(Byte), why \in SUBSET {"fed", "gap"} : Client!ReaderMessage(b, "reading", why)
      BY <2>4, <2>5, <1>1, ParseWrites
    <3> QED
      BY <2>2, <3>1, <1>2
  <2>6. CASE Client!WriteFails
    BY <2>2, <2>6 DEF Client!WriteFails
  <2> QED
    BY <2>1, <2>2, <2>5, <2>6
<1>5. CASE Feed
  <2>1. PICK k \in 1..Len(down) : FeedSome(k)
    BY <1>5 DEF Feed
  <2>2. UNCHANGED <<serverVars, up, reader, sent>>
    BY <2>1 DEF FeedSome, Client!Feed, appVars
  <2>3. k \in Nat /\ k <= ReadSize /\ Client!Parse(SubSeq(data, 1, k), "idle", {"fed"})
    BY <2>1 DEF FeedSome, Client!Feed
  <2>4. SubSeq(data, 1, k) \in Seq(Byte) /\ {"fed"} \in SUBSET {"fed"}
    <3>1. data \in Seq(Byte) /\ Len(data) = ReadSize
      BY <1>1, EchoAssumption, LenProperties, IsASeq
    <3> QED
      BY <3>1, <2>3, Beginning
  <2>5. CASE ~Client!WriteFails
    <3>1. PICK b \in Seq(Byte), why \in SUBSET {"fed", "gap"} : Client!ReaderMessage(b, "idle", why)
      BY <2>3, <2>4, <2>5, <1>1, ParseWrites
    <3> QED
      BY <2>2, <3>1, <1>2
  <2>6. CASE Client!WriteFails
    BY <2>2, <2>6 DEF Client!WriteFails
  <2> QED
    BY <2>5, <2>6
<1>6. CASE Close \/ ReadFails
  BY <1>6 DEF Close, Client!Close, ReadFails, Client!ReadFails, Client!parserVars, appVars
<1> QED
  BY <1>3, <1>4, <1>5, <1>6

\* A read() that goes on to wait has no header, or has taken its size.
LEMMA ReaderMessageUnread ==
  ASSUME TypeOK, NEW b \in Seq(Byte), NEW why, Client!ReaderMessage(b, "reading", why),
         spoilt' = {}, pc' = "reading", size = -1 \/ (size >= HeaderSize /\ size >= 1)
  PROVE  size' # -1 \/ Len(buffer') < HeaderSize
<1>1. size \in Int /\ Len(b) \in Nat /\ HeaderSize \in Nat
  BY EchoAssumption, LenProperties DEF TypeOK
<1>2. Client!HeaderThere(b) => Client!MessageSize(b) \in Int
  BY <1>1, HeaderTyped DEF Client!HeaderThere, Client!MessageSize
<1>3. CASE Client!NoMessage(b, "reading", why)
  <2>1. CASE ~Client!HeaderThere(b) /\ size' = size
    BY <1>1, <1>3, <2>1 DEF Client!NoMessage, Client!HeaderThere
  <2>2. CASE /\ Client!HeaderThere(b) /\ size' = Client!MessageSize(b)
             /\ size # -1 \/ ~Client!BadSize(Client!MessageSize(b))
    <3>1. CASE size # -1
      BY <2>2, <3>1 DEF Client!MessageSize
    <3>2. CASE ~Client!BadSize(Client!MessageSize(b))
      BY <2>2, <3>2, <1>2 DEF Client!BadSize
    <3> QED
      BY <2>2, <3>1, <3>2
  <2> QED
    BY <1>3, <2>1, <2>2 DEF Client!NoMessage
<1>4. CASE Client!BadHeader(b, why)
  BY <1>4 DEF Client!BadHeader
<1>5. CASE Client!Message(b, "reading", why)
  <2>1. Client!MessageSize(b) # 0
    <3>1. CASE size # -1
      BY <3>1, <1>1 DEF Client!MessageSize
    <3>2. CASE ~Client!BadSize(Client!MessageSize(b))
      BY <3>2, <1>2, <1>5 DEF Client!BadSize, Client!Message, Client!Complete
    <3> QED
      BY <1>5, <3>1, <3>2 DEF Client!Message
  <2> QED
    BY <2>1, <1>5 DEF Client!Message
<1>6. CASE Client!Swallowed(b, "reading", why)
  BY <1>6 DEF Client!Swallowed
<1> QED
  BY <1>3, <1>4, <1>5, <1>6 DEF Client!ReaderMessage

LEMMA AwaitingStep == IInv /\ Awaiting /\ Next => Awaiting'
<1> SUFFICES ASSUME IInv, Awaiting, Next PROVE Awaiting'
  OBVIOUS
<1>1. /\ TypeOK /\ sent \in Seq(Sendable) /\ received \in Seq(Seq(Byte))
      /\ Len(sent) \in Nat /\ Len(received) \in Nat /\ Window \in Nat
  BY SentSendable, EchoAssumption, LenProperties DEF IInv, TypeOK
<1>2. CASE Connect
  <2>1. sent' = <<>> /\ received' = <<>> /\ pc' = pc /\ ~linked
    BY <1>2 DEF Connect, Client!Connect
  <2>2. pc' # "reading"
    BY <2>1 DEF IInv, Blocked
  <2> QED
    BY <2>1, <2>2, <1>1, EmptySeq DEF Awaiting
<1>3. CASE Send
  <2>1. pc = "idle" /\ Len(sent) - Len(received) < Window /\ pc' = pc /\ received' = received
    BY <1>3 DEF Send, clientVars
  <2>2. PICK m : sent' = Append(sent, m)
    BY <1>3 DEF Send
  <2>3. Len(sent') = Len(sent) + 1
    BY <2>2, <1>1, AppendShows
  <2> QED
    BY <2>1, <2>3, <1>1 DEF Awaiting
<1>4. CASE ServerStep \/ ServerFails \/ UNCHANGED vars
  BY <1>4 DEF Awaiting, ServerStep, ServerFails, vars, clientVars, appVars
<1>5. ASSUME /\ UNCHANGED <<serverVars, up, reader, sent>> /\ spoilt \subseteq spoilt'
             /\ received' = received \/ \E m : received' = Append(received, m)
             /\ pc' = "reading" =>
                  /\ received' = received
                  /\ pc = "reading" \/ Waiting
                  /\ \E b \in Seq(Byte), why \in SUBSET {"fed", "gap"} :
                       Client!ReaderMessage(b, "reading", why)
      PROVE  Awaiting'
  <2>1. Len(received') \in Nat /\ Len(received') >= Len(received)
    <3>1. CASE received' = received
      BY <3>1, <1>1
    <3>2. CASE \E m : received' = Append(received, m)
      BY <3>2, <1>1, AppendShows
    <3> QED
      BY <3>1, <3>2, <1>5
  <2>2. Len(sent') - Len(received') <= Window
    BY <2>1, <1>1, <1>5 DEF Awaiting
  <2>3. ASSUME pc' = "reading" PROVE Len(received') < Len(sent')
    BY <2>3, <1>5 DEF Awaiting, Waiting
  <2>4. ASSUME pc' = "reading", spoilt' = {} PROVE size' # -1 \/ Len(buffer') < HeaderSize
    <3>1. spoilt = {}
      BY <2>4, <1>5
    <3>2. size = -1 \/ (size >= HeaderSize /\ size >= 1)
      BY <3>1 DEF IInv, Blocked
    <3> QED
      BY <2>4, <3>2, <1>1, <1>5, ReaderMessageUnread
  <2> QED
    BY <2>2, <2>3, <2>4 DEF Awaiting
<1>6. CASE Close \/ ReadCall \/ ReadSome \/ ReadFails \/ Feed
  BY <1>5, <1>6, ClientSteps
<1> QED
  BY <1>2, <1>3, <1>4, <1>6 DEF Next

\* When all messages are taken, no byte of the stream is left.
LEMMA FramedAll ==
  ASSUME NEW d, NEW a \in Seq(Sendable), NEW r \in Seq(Byte), Framed(d, a, r), Len(d) = Len(a)
  PROVE  r = <<>>
<1>1. Len(a) \in Nat /\ Len(r) \in Nat
  BY LenProperties
<1>2. PICK c \in Ends(a) : Len(r) = c[Len(a)] - c[Len(d)]
  BY DEF Framed
<1>3. c[Len(a)] \in Nat
  BY <1>1, <1>2 DEF Ends
<1>4. Len(r) = 0
  BY <1>2, <1>3
<1> QED
  BY <1>4, EmptySeq

\* When a message is not yet taken, the stream begins with it.
LEMMA FramedNext ==
  ASSUME NEW d \in Seq(Sendable), NEW a \in Seq(Sendable), NEW r \in Seq(Byte),
         Framed(d, a, r), Len(d) # Len(a)
  PROVE  \E m \in Sendable : m = a[Len(d) + 1] /\ Len(m) <= Len(r) /\ SubSeq(r, 1, Len(m)) = m
<1>1. Len(a) \in Nat /\ Len(d) \in Nat /\ Len(r) \in Nat
  BY LenProperties
<1>2. Len(d) + 1 \in 1..Len(a) /\ Len(d) + 1 - 1 = Len(d)
  BY <1>1 DEF Framed
<1>3. PICK c \in Ends(a) : Len(r) = c[Len(a)] - c[Len(d)]
  BY DEF Framed
<1>4. a[Len(d) + 1] \in Sendable
  BY <1>2, ElementOfSeq
<1>5. Len(a[Len(d) + 1]) \in Nat /\ Len(a[Len(d) + 1]) >= 1
  BY <1>4, Sizes
<1>6. /\ c[Len(d) + 1] = c[Len(d)] + Len(a[Len(d) + 1])
      /\ c[Len(d)] \in Nat /\ c[Len(a)] \in Nat /\ c[Len(d) + 1] <= c[Len(a)]
  <2>1. c \in [0..Len(a) -> Nat]
    BY <1>3 DEF Ends
  <2>2. \A j \in 1..Len(a) : c[j] = c[j - 1] + Len(a[j])
    BY <1>3 DEF Ends
  <2>3. \A i, j \in 0..Len(a) : i <= j => c[i] <= c[j]
    BY <1>3 DEF Ends
  <2>4. Len(d) \in 0..Len(a) /\ Len(d) + 1 \in 0..Len(a) /\ Len(a) \in 0..Len(a) /\ Len(d) + 1 <= Len(a)
    BY <1>1, <1>2
  <2>5. c[Len(d) + 1] = c[Len(d)] + Len(a[Len(d) + 1])
    BY <1>2, <2>2
  <2>6. c[Len(d) + 1] <= c[Len(a)]
    BY <2>3, <2>4
  <2> QED
    BY <2>1, <2>4, <2>5, <2>6
<1>7. r # <<>>
  BY <1>1, <1>3, <1>5, <1>6, EmptySeq
<1> QED
  BY <1>7, FramedTake

\* A parser that has taken its size and holds the next message holds the whole of it.
LEMMA WholeMessage ==
  ASSUME NEW b \in Seq(Byte), NEW s \in Int, SizeKept(b, s), s # -1,
         NEW m \in Sendable, Len(m) <= Len(b), SubSeq(b, 1, Len(m)) = m
  PROVE  Len(b) >= s
<1>1. HeaderSize \in Nat /\ Len(b) \in Nat
  BY EchoAssumption, LenProperties
<1>2. m \in Seq(Byte) /\ Len(m) \in Nat /\ Len(m) >= HeaderSize
  BY Sizes
<1>3. HeaderSize <= Len(b) /\ s = Reader(SubSeq(b, 1, HeaderSize)) /\ s >= HeaderSize
  BY DEF SizeKept
<1> DEFINE h == SubSeq(b, 1, HeaderSize) g == SubSeq(m, 1, HeaderSize)
<1>4. h \in Seq(Byte) /\ Len(h) = HeaderSize /\ \A j \in 1..HeaderSize : h[j] = b[j]
  BY <1>1, <1>3, Beginning
<1>5. g \in Seq(Byte) /\ Len(g) = HeaderSize /\ \A j \in 1..HeaderSize : g[j] = m[j]
  BY <1>1, <1>2, Beginning
<1>6. \A j \in 1..Len(m) : SubSeq(b, 1, Len(m))[j] = b[j]
  BY <1>2, Beginning
<1>7. s = Reader(h)
  BY <1>3
<1>8. m \in Whole => Reader(g) = Len(m)
  BY DEF Whole, WellFormed
<1> HIDE DEF h, g
<1>9. h = g
  <2>1. \A j \in 1..Len(h) : h[j] = g[j]
    BY <1>1, <1>2, <1>4, <1>5, <1>6
  <2> QED
    BY <2>1, <1>4, <1>5, SeqEqual
<1>10. CASE m \in Whole
  BY <1>7, <1>8, <1>9, <1>10
<1>11. CASE m \in Garbage
  <2>1. Len(m) = HeaderSize /\ Reader(m) < HeaderSize
    BY <1>11, Refusable
  <2>2. g = m
    <3>1. \A j \in 1..Len(g) : g[j] = m[j]
      BY <1>5
    <3> QED
      BY <2>1, <3>1, <1>2, <1>5, SeqEqual
  <2>3. Reader(m) = s
    BY <2>2, <1>7, <1>9
  <2> QED
    BY <2>1, <2>3, <1>1, <1>3
<1> QED
  BY <1>10, <1>11 DEF Sendable

LEMMA KeepsNoneStep == IInv /\ Answering /\ Awaiting /\ KeepsNone /\ Next => KeepsNone'
<1> SUFFICES ASSUME IInv, Answering, Awaiting, KeepsNone, Next, Window <= 1, reader', Server!Parsing',
                    ~lossy', spoilt' = {}, phase' = "waiting", insize' = -1
             PROVE  inbuf' = <<>> \/ Len(inbuf') < HeaderSize
  BY DEF KeepsNone, Server!Parsing
<1>1. /\ IInv' /\ TypeOK /\ inbuf \in Seq(Byte) /\ inbuf' \in Seq(Byte) /\ up' \in Seq(Byte)
      /\ sent \in Seq(Sendable) /\ sent' \in Seq(Sendable)
  <2>1. IInv'
    BY StepInv
  <2>2. sent' \in Seq(Messages \cup Garbage) /\ sent \in Seq(Messages \cup Garbage)
    BY <2>1 DEF IInv
  <2>3. sent \in Seq(Sendable) /\ sent' \in Seq(Sendable)
    BY <2>2, MessagesWhole, SeqMonotonic
  <2> QED
    BY <2>1, <2>3 DEF IInv, TypeOK
<1>2. CASE Connect
  BY <1>2 DEF Connect, Server!Accept
<1>3. ASSUME reader' = reader, spoilt \subseteq spoilt', UNCHANGED serverVars
      PROVE  inbuf' = <<>> \/ Len(inbuf') < HeaderSize
  BY <1>3 DEF KeepsNone, serverVars, Server!Parsing
<1>4. CASE Send \/ UNCHANGED vars
  BY <1>3, <1>4 DEF Send, clientVars, vars
<1>5. CASE Close \/ ReadCall \/ ReadSome \/ ReadFails \/ Feed
  BY <1>3, <1>5, ClientSteps
<1>6. CASE ServerFails
  BY <1>6 DEF ServerFails, Server!ReadFails, Server!Disconnect
<1>7. CASE ServerStep /\ ~Server!Read
  BY <1>7 DEF ServerStep, Server!Step, Server!Connected, Server!NoSession, Server!Closed
<1>8. CASE ServerStep /\ Server!Read
  <2>1. PICK k \in 1..Server!Smaller(ReadSize, Len(up)) : Server!ForwardReaded(SubSeq(up, 1, k))
    BY <1>8 DEF Server!Read
  <2>2. phase = "waiting" /\ sent' = sent /\ reader /\ spoilt = {} /\ Server!Parsing
    BY <1>8 DEF ServerStep, Server!Read, clientVars, appVars, Server!Parsing
  <2>9. PICK kept \in Server!Written(SubSeq(up, 1, k)) : Handler(inbuf \o kept)
    BY <2>1, <2>2 DEF Server!ForwardReaded, Server!Parsing, Handler
  <2> DEFINE b == inbuf \o kept
  <2>3. \/ Server!AwaitHeader(b) \/ Server!AwaitBody(b) \/ Server!Message(b)
        \/ phase' = "closed"
    BY <2>9 DEF Handler, Server!BadHeader, Server!NoMemory, Server!Disconnect
  <2> HIDE DEF b
  <2>4. CASE Server!AwaitHeader(b)
    <3>1. inbuf' = b /\ ~(Len(b) >= HeaderSize)
      BY <2>4 DEF Server!AwaitHeader, Server!HeaderThere
    <3> QED
      BY <3>1, <1>1, EchoAssumption, LenProperties
  <2>5. CASE Server!AwaitBody(b)
    BY <2>5 DEF Server!AwaitBody, Server!BadSize
  <2>6. CASE Server!Message(b)
    <3>1. \E m : handled' = Append(handled, m)
      BY <2>6 DEF Server!Message, Server!Readed
    <3>2. Len(handled') = Len(handled) + 1 /\ Len(handled) \in Nat
      BY <3>1, <1>1, AppendShows DEF TypeOK
    <3>3. Len(answers) = Len(handled)
      BY <2>2 DEF Answering
    <3>4. Len(received) <= Len(answers)
      BY <2>2 DEF IInv, Replies, Framed
    <3>5. Len(sent) - Len(received) <= Window
      BY DEF Awaiting
    <3>6. Framed(handled', sent', inbuf' \o up') /\ Len(handled') <= Len(sent')
      <4>1. Sessions'
        BY <1>1 DEF IInv
      <4> QED
        BY <4>1 DEF Sessions
    <3>7. Len(sent) \in Nat /\ Len(received) \in Nat /\ Window \in Nat
      BY <1>1, EchoAssumption, LenProperties DEF TypeOK
    <3>8. Len(handled') = Len(sent')
      BY <2>2, <3>2, <3>3, <3>4, <3>5, <3>6, <3>7
    <3>9. inbuf' \o up' \in Seq(Byte) /\ Len(inbuf' \o up') = Len(inbuf') + Len(up')
      BY <1>1, ConcatProperties
    <3>10. inbuf' \o up' = <<>>
      BY <3>6, <3>8, <3>9, <1>1, FramedAll
    <3>11. Len(inbuf') = 0
      <4>1. Len(inbuf') \in Nat /\ Len(up') \in Nat
        BY <1>1, LenProperties
      <4>2. Len(inbuf') + Len(up') = 0
        BY <3>9, <3>10
      <4> QED
        BY <4>1, <4>2
    <3> QED
      BY <3>11, <1>1, EmptySeq
  <2> QED
    BY <2>3, <2>4, <2>5, <2>6
<1> QED
  BY <1>2, <1>4, <1>5, <1>6, <1>7, <1>8 DEF Next

LEMMA Exchange == Spec => [](Answering /\ Awaiting /\ KeepsNone)
<1>1. Init => Answering /\ Awaiting /\ KeepsNone
  <2> SUFFICES ASSUME Init PROVE Answering /\ Awaiting /\ KeepsNone
    OBVIOUS
  <2>1. /\ phase = "none" /\ pc = "idle" /\ sent = <<>> /\ received = <<>>
        /\ handled = <<>> /\ answers = <<>>
    BY DEF Init, Server!Init, Client!Init
  <2> QED
    BY <2>1, EchoAssumption, EmptySeq DEF Answering, Awaiting, KeepsNone
<1>2. UNCHANGED vars /\ Answering /\ Awaiting /\ KeepsNone => (Answering /\ Awaiting /\ KeepsNone)'
  BY DEF vars, serverVars, clientVars, appVars, Answering, Awaiting, KeepsNone, Server!Parsing
<1>3. IInv /\ Answering /\ Awaiting /\ KeepsNone /\ [Next]_vars => (Answering /\ Awaiting /\ KeepsNone)'
  BY <1>2, AnsweringStep, AwaitingStep, KeepsNoneStep
<1> QED
  BY Invariant, <1>1, <1>3, PTL DEF Spec

\* Both sides wait and nothing is under way: the next message is whole in the session's buffer.
LEMMA StallShows ==
  ASSUME IInv, Answering, Awaiting, reader, Server!Parsing, ~lossy, spoilt = {}, Stalled
  PROVE  /\ insize = -1
         /\ \E m \in Messages \cup Garbage : Len(m) <= Len(inbuf) /\ SubSeq(inbuf, 1, Len(m)) = m
<1>1. /\ pc = "reading" /\ phase = "waiting" /\ up = <<>> /\ down = <<>>
      /\ buffer \in Seq(Byte) /\ inbuf \in Seq(Byte) /\ size \in Int /\ insize \in Int
      /\ sent \in Seq(Messages \cup Garbage) /\ sent \in Seq(Sendable)
  BY SentSendable DEF Stalled, IInv, TypeOK
<1>2. /\ received \in Seq(Whole) /\ answers \in Seq(Sendable) /\ handled \in Seq(Whole)
      /\ Framed(received, answers, buffer) /\ SizeKept(buffer, size)
      /\ Framed(handled, sent, inbuf) /\ SizeKept(inbuf, insize)
      /\ insize # -1 => Len(inbuf) < insize
  <2>1. buffer \o down = buffer /\ inbuf \o up = inbuf
    BY <1>1, ConcatEmptySeq
  <2> QED
    BY <2>1, <1>1 DEF IInv, Replies, Sessions
<1>3. received \in Seq(Sendable) /\ handled \in Seq(Sendable)
  BY <1>2, SeqMonotonic DEF Sendable
<1>4. HeaderSize \in Nat /\ Len(buffer) \in Nat /\ Len(inbuf) \in Nat /\ Len(sent) \in Nat
  BY <1>1, EchoAssumption, LenProperties
<1>5. Len(received) = Len(answers)
  <2> SUFFICES ASSUME Len(received) # Len(answers) PROVE FALSE
    OBVIOUS
  <2>1. PICK m \in Sendable : Len(m) <= Len(buffer) /\ SubSeq(buffer, 1, Len(m)) = m
    BY <1>1, <1>2, <1>3, FramedNext
  <2>2. Len(m) \in Nat /\ Len(m) >= HeaderSize
    BY Sizes
  <2>3. size # -1
    BY <1>1, <1>4, <2>1, <2>2 DEF Awaiting
  <2>4. Len(buffer) >= size /\ size >= 1
    BY <2>1, <2>3, <1>1, <1>2, WholeMessage DEF SizeKept
  <2>5. Client!Complete(buffer)
    BY <2>3, <2>4, <1>1 DEF Client!Complete, Client!HeaderThere, Client!MessageSize
  <2> QED
    BY <2>5, <1>1 DEF IInv, Blocked
<1>6. Len(handled) # Len(sent)
  BY <1>1, <1>4, <1>5 DEF Awaiting, Answering
<1>7. PICK m \in Sendable :
        m = sent[Len(handled) + 1] /\ Len(m) <= Len(inbuf) /\ SubSeq(inbuf, 1, Len(m)) = m
  BY <1>1, <1>2, <1>3, <1>6, FramedNext
<1>8. insize = -1
  <2> SUFFICES ASSUME insize # -1 PROVE FALSE
    OBVIOUS
  <2>1. Len(inbuf) >= insize
    BY <1>1, <1>2, <1>7, WholeMessage
  <2> QED
    BY <2>1, <1>1, <1>2, <1>4
<1>9. m \in Messages \cup Garbage
  <2>1. Len(handled) \in Nat /\ Len(handled) <= Len(sent)
    BY <1>2, LenProperties DEF Framed
  <2>2. Len(handled) + 1 \in 1..Len(sent)
    BY <2>1, <1>4, <1>6
  <2> QED
    BY <2>2, <1>1, <1>7, ElementOfSeq
<1> QED
  BY <1>7, <1>8, <1>9

\* Every message the client's read() returns (echo_client.hpp:195-308) is the one the client's
\* application sent, in its place: the echo of the whole system, whatever the cuts, the
\* allocations that fail and the answers the parser refuses, while no bytes have been lost by
\* a buffer whose array could not be had (fragmentation.hpp:59-66).
THEOREM EchoEndToEnd == Spec => []EndToEnd
<1>1. ASSUME IInv, Answering PROVE EndToEnd
  <2> SUFFICES ASSUME reader, Server!Parsing, ~lossy, spoilt \subseteq {"memory"}
               PROVE  IsPrefix(received, sent)
    BY DEF EndToEnd
  <2>1. /\ received \in Seq(Whole) /\ answers \in Seq(Sendable) /\ handled \in Seq(Whole)
        /\ sent \in Seq(Sendable)
        /\ Len(received) <= Len(answers) /\ \A j \in 1..Len(received) : received[j] = answers[j]
        /\ Len(handled) <= Len(sent) /\ \A j \in 1..Len(handled) : handled[j] = sent[j]
    BY <1>1, SentSendable DEF IInv, Sessions, Replies, Framed
  <2>2. /\ Len(answers) <= Len(handled)
        /\ \A j \in 1..Len(answers) : answers[j] \in {handled[j]} \cup Garbage
    BY <1>1 DEF Answering
  <2>3. /\ Len(received) \in Nat /\ Len(answers) \in Nat /\ Len(handled) \in Nat /\ Len(sent) \in Nat
        /\ received \in Seq(Sendable)
    BY <2>1, LenProperties, SeqMonotonic DEF Sendable
  <2>4. ASSUME NEW j \in 1..Len(received) PROVE received[j] = sent[j]
    <3>1. received[j] \in Whole
      BY <2>1, ElementOfSeq
    <3>2. received[j] \notin Garbage
      BY <3>1, NotGarbage
    <3>3. j \in 1..Len(answers) /\ received[j] = answers[j]
      BY <2>1, <2>3
    <3>4. j \in 1..Len(handled) /\ answers[j] = handled[j]
      BY <3>2, <3>3, <2>2, <2>3
    <3> QED
      BY <3>4, <3>3, <2>1
  <2>5. Len(received) <= Len(sent)
    BY <2>1, <2>2, <2>3
  <2> QED
    BY <2>1, <2>3, <2>4, <2>5, FramedPrefix
<1> QED
  BY <1>1, Invariant, Exchange, PTL

\* When client and server both wait and no byte is under way, the session holds the next
\* message back, whole (echo_server.hpp:192-264), or one of the two buffers has lost bytes or
\* the client's parser is out of step: nothing else stops the exchange.
THEOREM EchoStallsOnlyOnKept == Spec => []StallsOnlyOnKept
<1>1. ASSUME IInv, Answering, Awaiting PROVE StallsOnlyOnKept
  <2> SUFFICES ASSUME reader, Server!Parsing, ~lossy, spoilt = {}, Stalled
               PROVE  insize = -1 /\ \E m \in Messages \cup Garbage : IsPrefix(m, inbuf)
    BY DEF StallsOnlyOnKept
  <2>1. PICK m \in Messages \cup Garbage : Len(m) <= Len(inbuf) /\ SubSeq(inbuf, 1, Len(m)) = m
    BY <1>1, StallShows
  <2>2. inbuf \in Seq(Byte) /\ m \in Seq(Byte) /\ Len(m) \in Nat
    BY <1>1, MessagesWhole, Sizes DEF IInv, TypeOK
  <2>3. \A j \in 1..Len(m) : m[j] = inbuf[j]
    <3>1. \A j \in 1..Len(m) : SubSeq(inbuf, 1, Len(m))[j] = inbuf[j]
      BY <2>1, <2>2, Beginning
    <3> QED
      BY <3>1, <2>1
  <2>4. IsPrefix(m, inbuf)
    BY <2>1, <2>2, <2>3, FramedPrefix
  <2> QED
    BY <2>4, <1>1, StallShows
<1> QED
  BY <1>1, Invariant, Exchange, PTL

\* An application that reads each answer before it sends again is never left waiting while the
\* server waits for it, as long as no buffer has lost bytes and the client's parser is in step:
\* the two never wait for each other.
THEOREM EchoNeverStalls == Spec => []NeverStalls
<1>1. ASSUME IInv, Answering, Awaiting, KeepsNone PROVE NeverStalls
  <2> SUFFICES ASSUME Window <= 1, reader, Server!Parsing, ~lossy, spoilt = {}, Stalled
               PROVE  FALSE
    BY DEF NeverStalls
  <2>1. PICK m \in Messages \cup Garbage : Len(m) <= Len(inbuf) /\ SubSeq(inbuf, 1, Len(m)) = m
    BY <1>1, StallShows
  <2>2. insize = -1 /\ phase = "waiting"
    BY <1>1, StallShows DEF Stalled
  <2>3. inbuf = <<>> \/ Len(inbuf) < HeaderSize
    BY <1>1, <2>2 DEF KeepsNone
  <2>4. /\ Len(m) \in Nat /\ Len(m) >= 1 /\ Len(m) >= HeaderSize /\ HeaderSize \in Nat
        /\ Len(inbuf) \in Nat
    BY <1>1, MessagesWhole, Sizes, EchoAssumption, LenProperties DEF IInv, TypeOK
  <2>5. inbuf = <<>> => Len(inbuf) = 0
    OBVIOUS
  <2> QED
    BY <2>1, <2>3, <2>4, <2>5
<1> QED
  BY <1>1, Invariant, Exchange, PTL
=============================================================================
